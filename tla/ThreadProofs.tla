---------------------------- MODULE ThreadProofs ----------------------------
(***************************************************************************)
(* Proofs about Thread, for every set of envelopes, cancels and faults.    *)
(***************************************************************************)
EXTENDS Thread, SequenceTheorems, TLAPS

(* Taking an element out of a sequence leaves a sequence over the same set. *)
LEMMA RemoveAtType ==
  ASSUME NEW S, NEW s \in Seq(S), NEW i \in DOMAIN s
  PROVE  RemoveAt(s, i) \in Seq(S)
BY DEF RemoveAt

(* The set of a sequence's elements. *)
LEMMA ToSetType ==
  ASSUME NEW S, NEW s \in Seq(S)
  PROVE  ToSet(s) \subseteq S
BY DEF ToSet

(* The head of the drive's loop is well typed. *)
LEMMA LoopType ==
  ASSUME TypeOK, NEW d \in Drives, NEW now \in Nat, Loop(d, now)
  PROVE  /\ mailbox' \in Seq(Envelopes)
         /\ taken' \in [Drives -> Seq(Envelopes)]
         /\ seen' \in [Drives -> Nat]
         /\ pc' \in [Drives -> Places]
<1>1. mailbox' \in Seq(Envelopes)
  BY DEF TypeOK, Loop, TakeOne
<1>2. SubSeq(mailbox, 1, IF mailbox = <<>> THEN 0 ELSE 1) \in Seq(Envelopes)
  BY DEF TypeOK
<1> QED
  BY <1>1, <1>2 DEF TypeOK, Loop, TakeOne, Places, Turning, Opening, Running

LEMMA ReleaseType ==
  ASSUME TypeOK, NEW es, NEW why \in Outcomes, Release(es, why)
  PROVE  /\ ended' \in [Envelopes -> Outcomes \cup {"open"}]
         /\ tracked' \subseteq Envelopes
BY DEF TypeOK, Release

LEMMA EndTurnType ==
  ASSUME TypeOK, NEW d \in Drives, NEW why \in Outcomes, EndTurn(d, why)
  PROVE  /\ ended' \in [Envelopes -> Outcomes \cup {"open"}]
         /\ tracked' \subseteq Envelopes
         /\ consumed' \in [Drives -> SUBSET Envelopes]
         /\ cut' \in [Drives -> SUBSET {"overrun", "caller"}]
         /\ steps' \in [Drives -> Nat]
         /\ outcome' \in [Drives -> {"answer", "held", "stopped", "failed"}]
         /\ ending' \in [Drives -> {"failure", "stopped", "settled"}]
         /\ halting' \in Drives \cup {NoDrive}
         /\ signal' \in [Drives -> Cancellers \cup {"live"}]
         /\ UNCHANGED <<seen, taken, poster, canceller, dropped, withdrawing,
                        spoken, arrived, stranded, mailbox, running, posted>>
<1>1. Release(consumed[d], why)
  BY DEF EndTurn
<1>2. ended' \in [Envelopes -> Outcomes \cup {"open"}] /\ tracked' \subseteq Envelopes
  BY <1>1, ReleaseType
<1>3. UNCHANGED <<seen, taken, poster, canceller, dropped, withdrawing,
                  spoken, arrived, stranded, mailbox, running, posted>>
  BY DEF EndTurn, callers, history
<1> QED
  BY <1>2, <1>3 DEF TypeOK, EndTurn, Forget

LEMMA LoopingType ==
  ASSUME TypeOK, NEW d \in Drives, NEW from, Goto(d, from, "looping")
  PROVE  pc' \in [Drives -> Places]
BY DEF TypeOK, Goto, Places

(* A turn is over: what endAll leaves, and the chat and the flag.          *)
LEMMA TurnOverType ==
  ASSUME TypeOK, NEW d \in Drives, NEW why \in Outcomes, EndTurn(d, why),
         pc' \in [Drives -> Places], held' \in BOOLEAN,
         chat' \in {"idle", "streaming", "unsettled", "waiting", "errored"}
  PROVE  TypeOK'
<1>0. UNCHANGED <<seen, taken, poster, canceller, dropped, withdrawing,
                  spoken, arrived, stranded, mailbox, running, posted>>
  BY EndTurnType
<1>1. /\ mailbox' \in Seq(Envelopes) /\ running' \in BOOLEAN /\ posted' \in Nat
      /\ poster' \in [Envelopes -> {"new", "posting", "posted"}]
      /\ seen' \in [Drives -> Nat] /\ taken' \in [Drives -> Seq(Envelopes)]
      /\ canceller' \in [Cancellers -> {"ready", "taking", "done"}]
      /\ dropped' \in [Cancellers -> SUBSET Envelopes] /\ withdrawing' \subseteq Envelopes
      /\ spoken' \in Seq(Envelopes) /\ arrived' \in Seq(Envelopes) /\ stranded' \subseteq Envelopes
  BY <1>0 DEF TypeOK
<1>2. /\ ended' \in [Envelopes -> Outcomes \cup {"open"}] /\ tracked' \subseteq Envelopes
      /\ consumed' \in [Drives -> SUBSET Envelopes]
      /\ cut' \in [Drives -> SUBSET {"overrun", "caller"}] /\ steps' \in [Drives -> Nat]
      /\ outcome' \in [Drives -> {"answer", "held", "stopped", "failed"}]
      /\ ending' \in [Drives -> {"failure", "stopped", "settled"}]
      /\ halting' \in Drives \cup {NoDrive}
      /\ signal' \in [Drives -> Cancellers \cup {"live"}]
  BY EndTurnType
<1> QED
  BY <1>1, <1>2 DEF TypeOK

(* A turn that ends before its model was called has a reason to.           *)
HaltedAborted == \A d \in Drives : pc[d] = "halted" => signal[d] # "live"

LEMMA InitType == Init => TypeOK
<1> SUFFICES ASSUME Init PROVE TypeOK
  OBVIOUS
<1>1. mailbox \in Seq(Envelopes) /\ spoken \in Seq(Envelopes) /\ arrived \in Seq(Envelopes)
  BY DEF Init
<1>2. taken \in [Drives -> Seq(Envelopes)]
  BY EmptySeq DEF Init
<1>3. pc \in [Drives -> Places]
  BY DEF Init, Places
<1>4. /\ ended \in [Envelopes -> Outcomes \cup {"open"}]
      /\ poster \in [Envelopes -> {"new", "posting", "posted"}]
      /\ canceller \in [Cancellers -> {"ready", "taking", "done"}]
      /\ dropped \in [Cancellers -> SUBSET Envelopes]
  BY DEF Init
<1>5. /\ seen \in [Drives -> Nat]
      /\ consumed \in [Drives -> SUBSET Envelopes]
      /\ signal \in [Drives -> Cancellers \cup {"live"}]
      /\ cut \in [Drives -> SUBSET {"overrun", "caller"}]
      /\ steps \in [Drives -> Nat]
  BY DEF Init
<1>6. /\ outcome \in [Drives -> {"answer", "held", "stopped", "failed"}]
      /\ ending \in [Drives -> {"failure", "stopped", "settled"}]
  BY DEF Init
<1> QED
  BY <1>1, <1>2, <1>3, <1>4, <1>5, <1>6 DEF Init, TypeOK

LEMMA HaltedNext == TypeOK /\ HaltedAborted /\ [Next]_vars => HaltedAborted'
<1> SUFFICES ASSUME TypeOK, HaltedAborted, [Next]_vars,
                    NEW t \in Drives, pc'[t] = "halted"
             PROVE  signal'[t] # "live"
  BY DEF HaltedAborted
<1> USE DEF vars, drives, callers, history, shared, Goto, HaltedAborted
<1>t. /\ pc \in [Drives -> Places]
      /\ signal \in [Drives -> Cancellers \cup {"live"}]
  BY DEF TypeOK
<1> USE <1>t
<1>0. CASE UNCHANGED vars
  BY <1>0
<1>1. ASSUME NEW e \in Envelopes, Post(e) \/ Posted(e) \/ Withdraw(e) \/ Withdrawn(e)
      PROVE  signal'[t] # "live"
  BY <1>1 DEF Post, Posted, Withdraw, Withdrawn, Loop
<1>2. ASSUME NEW c \in Cancellers, Cancel(c) \/ Cancelled(c)
      PROVE  signal'[t] # "live"
  BY <1>2, CancellersAssumption DEF Cancel, Cancelled, Stop
<1>3. ASSUME NEW d \in Drives, Continue(d) PROVE signal'[t] # "live"
  <2>0. CASE OpenTurn(d)
    BY <2>0 DEF OpenTurn
  <2>1. CASE LookAgain(d) \/ Rest(d) \/ GoRound(d)
    BY <2>1 DEF LookAgain, Rest, GoRound, Loop
  <2>2. CASE Start(d) \/ AppendOpening(d) \/ Prepared(d)
    BY <2>2 DEF Start, AppendOpening, Prepared
  <2>3. CASE FailedSettles(d) \/ HaltedSettles(d) \/ Close(d)
    BY <2>3 DEF FailedSettles, HaltedSettles, Close, EndTurn
  <2>4. CASE InboxTaken(d) \/ Steer(d)
    BY <2>4 DEF InboxTaken, Steer
  <2>5. ASSUME NEW what \in {"answer", "held", "stopped", "failed"}, Finish(d, what)
        PROVE  signal'[t] # "live"
    BY <2>5 DEF Finish
  <2>6. CASE Record(d) \/ Recorded(d)
    BY <2>6 DEF Record, Recorded
  <2> QED
    BY <1>3, <2>0, <2>1, <2>2, <2>3, <2>4, <2>5, <2>6 DEF Continue
<1>4. ASSUME NEW d \in Drives,
             \/ PrepareFails(d) \/ HaltedThrows(d) \/ Inbox(d)
             \/ \E why \in {"overrun", "caller"} : Cut(d, why)
      PROVE  signal'[t] # "live"
  BY <1>4 DEF PrepareFails, HaltedThrows, Inbox, Cut
<1> QED
  BY <1>0, <1>1, <1>2, <1>3, <1>4 DEF Next

LEMMA NextType == TypeOK /\ HaltedAborted /\ [Next]_vars => TypeOK'
<1> SUFFICES ASSUME TypeOK, HaltedAborted, [Next]_vars PROVE TypeOK'
  OBVIOUS
<1> USE DEF vars, drives, callers, history, shared
<1>0. CASE UNCHANGED vars
  BY <1>0 DEF TypeOK
<1>1. ASSUME NEW e \in Envelopes, Post(e) PROVE TypeOK'
  BY <1>1 DEF TypeOK, Post
<1>2. ASSUME NEW e \in Envelopes, Posted(e) PROVE TypeOK'
  <2>1. posted + 1 \in Nat
    BY DEF TypeOK
  <2>2. CASE running
    BY <1>2, <2>1, <2>2 DEF TypeOK, Posted
  <2>3. CASE ~running
    <3>1. PICK d \in Drives : Loop(d, posted')
      BY <1>2, <2>3 DEF Posted
    <3>2. posted' \in Nat
      BY <1>2, <2>1 DEF Posted
    <3> QED
      BY <1>2, <3>1, <3>2, LoopType DEF TypeOK, Posted
  <2> QED
    BY <2>2, <2>3
<1>3. ASSUME NEW e \in Envelopes, Withdraw(e) PROVE TypeOK'
  <2>1. PICK i \in DOMAIN mailbox : mailbox' = RemoveAt(mailbox, i)
    BY <1>3 DEF Withdraw
  <2>2. mailbox' \in Seq(Envelopes)
    BY <2>1, RemoveAtType DEF TypeOK
  <2> QED
    BY <1>3, <2>2 DEF TypeOK, Withdraw
<1>4. ASSUME NEW e \in Envelopes, Withdrawn(e) PROVE TypeOK'
  <2>1. ended' \in [Envelopes -> Outcomes \cup {"open"}] /\ tracked' \subseteq Envelopes
    BY <1>4, ReleaseType DEF Withdrawn, Outcomes, Stops
  <2> QED
    BY <1>4, <2>1 DEF TypeOK, Withdrawn
<1>5. ASSUME NEW c \in Cancellers, Cancel(c) PROVE TypeOK'
  <2>1. ToSet(mailbox) \subseteq Envelopes
    BY ToSetType DEF TypeOK
  <2>2. signal' \in [Drives -> Cancellers \cup {"live"}]
    <3>1. Stop(c) /\ signal \in [Drives -> Cancellers \cup {"live"}]
      BY <1>5 DEF TypeOK, Cancel
    <3>2. signal' = signal \/ signal' = [signal EXCEPT ![halting] = c]
      BY <3>1 DEF Stop
    <3>3. [signal EXCEPT ![halting] = c] \in [Drives -> Cancellers \cup {"live"}]
      BY <1>5, <3>1
    <3> QED
      BY <3>1, <3>2, <3>3
  <2> QED
    BY <1>5, <2>1, <2>2 DEF TypeOK, Cancel
<1>6. ASSUME NEW c \in Cancellers, Cancelled(c) PROVE TypeOK'
  <2>1. ended' \in [Envelopes -> Outcomes \cup {"open"}] /\ tracked' \subseteq Envelopes
    BY <1>6, ReleaseType DEF Cancelled, Outcomes, Stops
  <2> QED
    BY <1>6, <2>1 DEF TypeOK, Cancelled
<1>7. ASSUME NEW d \in Drives, OpenTurn(d) PROVE TypeOK'
  <2>1. Head(taken[d]) \in Envelopes /\ <<>> \in Seq(Envelopes)
    BY <1>7, EmptySeq DEF TypeOK, OpenTurn
  <2>2. /\ pc' \in [Drives -> Places]
        /\ consumed' \in [Drives -> SUBSET Envelopes]
        /\ taken' \in [Drives -> Seq(Envelopes)]
        /\ signal' \in [Drives -> Cancellers \cup {"live"}]
    BY <1>7, <2>1 DEF TypeOK, OpenTurn, Goto, Places, Turning, Opening, Running
  <2> QED
    BY <1>7, <2>2 DEF TypeOK, OpenTurn
<1>8. ASSUME NEW d \in Drives, LookAgain(d) PROVE TypeOK'
  <2>1. Loop(d, posted) /\ posted \in Nat
    BY <1>8 DEF LookAgain, TypeOK
  <2> QED
    BY <1>8, <2>1, LoopType DEF TypeOK, LookAgain
<1>9. ASSUME NEW d \in Drives, Rest(d) PROVE TypeOK'
  BY <1>9 DEF TypeOK, Rest, Goto, Places, Turning, Opening, Running
<1>10. ASSUME NEW d \in Drives, GoRound(d) PROVE TypeOK'
  <2>1. Loop(d, posted) /\ posted \in Nat
    BY <1>10 DEF GoRound, TypeOK
  <2> QED
    BY <1>10, <2>1, LoopType DEF TypeOK, GoRound
<1>11. ASSUME NEW d \in Drives, Start(d) PROVE TypeOK'
  BY <1>11 DEF TypeOK, Start, Goto, Places, Turning, Opening, Running
<1>12. ASSUME NEW d \in Drives, AppendOpening(d) PROVE TypeOK'
  BY <1>12 DEF TypeOK, AppendOpening, Goto, Places, Turning, Opening, Running
<1>13. ASSUME NEW d \in Drives, Prepared(d) PROVE TypeOK'
  BY <1>13 DEF TypeOK, Prepared, Goto, Places, Turning, Opening, Running
<1>14. ASSUME NEW d \in Drives, PrepareFails(d) PROVE TypeOK'
  BY <1>14 DEF TypeOK, PrepareFails, Goto, Places, Turning, Opening, Running
<1>15. ASSUME NEW d \in Drives, FailedSettles(d) PROVE TypeOK'
  <2>1. EndTurn(d, "failed") /\ "failed" \in Outcomes /\ Goto(d, "failing", "looping")
    BY <1>15 DEF FailedSettles, Outcomes, Stops
  <2>2. /\ chat' \in {"idle", "streaming", "unsettled", "waiting", "errored"}
        /\ held' \in BOOLEAN
    BY <1>15 DEF FailedSettles, SettlesTo, Unsettled, TypeOK
  <2> QED
    BY <2>1, <2>2, LoopingType, TurnOverType
<1>16. ASSUME NEW d \in Drives, HaltedSettles(d) PROVE TypeOK'
  <2>1. signal[d] \in Outcomes
    BY <1>16 DEF TypeOK, HaltedAborted, HaltedSettles, Goto, Outcomes, Stops
  <2>2. EndTurn(d, signal[d]) /\ Goto(d, "halted", "looping")
    BY <1>16 DEF HaltedSettles
  <2>3. /\ chat' \in {"idle", "streaming", "unsettled", "waiting", "errored"}
        /\ held' \in BOOLEAN
    BY <1>16 DEF HaltedSettles, TypeOK
  <2> QED
    BY <2>1, <2>2, <2>3, LoopingType, TurnOverType
<1>17. ASSUME NEW d \in Drives, HaltedThrows(d) PROVE TypeOK'
  BY <1>17 DEF TypeOK, HaltedThrows, Unsettled, Forget, Goto, Places, Turning, Opening, Running
<1>18. ASSUME NEW d \in Drives, NEW why \in {"overrun", "caller"}, Cut(d, why) PROVE TypeOK'
  BY <1>18 DEF TypeOK, Cut
<1>19. ASSUME NEW d \in Drives, Inbox(d) PROVE TypeOK'
  BY <1>19 DEF TypeOK, Inbox, Goto, Places, Turning, Opening, Running
<1>20. ASSUME NEW d \in Drives, InboxTaken(d) PROVE TypeOK'
  <2>1. ToSet(taken[d]) \subseteq Envelopes
    BY ToSetType DEF TypeOK
  <2> QED
    BY <1>20, <2>1 DEF TypeOK, InboxTaken, Goto, Places, Turning, Opening, Running
<1>21. ASSUME NEW d \in Drives, Steer(d) PROVE TypeOK'
  <2>1. taken[d] \in Seq(Envelopes) /\ <<>> \in Seq(Envelopes)
    BY EmptySeq DEF TypeOK
  <2>2. Head(taken[d]) \in Envelopes /\ Tail(taken[d]) \in Seq(Envelopes)
    BY <2>1, <1>21 DEF Steer
  <2>3. spoken' \in Seq(Envelopes)
    BY <1>21, <2>2 DEF TypeOK, Steer
  <2>4. taken' \in [Drives -> Seq(Envelopes)] /\ pc' \in [Drives -> Places]
    <3>1. taken \in [Drives -> Seq(Envelopes)] /\ pc \in [Drives -> Places]
      BY DEF TypeOK
    <3>2. {"finished", "step"} \subseteq Places
      BY DEF Places, Turning, Running
    <3>3. CASE Aborted(d)
      BY <1>21, <3>1, <3>2, <3>3, <2>1 DEF Steer
    <3>4. CASE ~Aborted(d)
      BY <1>21, <3>1, <3>2, <3>4, <2>2 DEF Steer
    <3> QED
      BY <3>3, <3>4
  <2> QED
    BY <1>21, <2>3, <2>4 DEF TypeOK, Steer
<1>22. ASSUME NEW d \in Drives, NEW what \in {"answer", "held", "stopped", "failed"}, Finish(d, what) PROVE TypeOK'
  BY <1>22 DEF TypeOK, Finish, Goto, Places, Turning, Opening, Running
<1>23. ASSUME NEW d \in Drives, Record(d) PROVE TypeOK'
  BY <1>23 DEF TypeOK, Record, Goto, Places, Turning, Opening, Running
<1>24. ASSUME NEW d \in Drives, Recorded(d) PROVE TypeOK'
  <2>1. chat' \in {"idle", "streaming", "unsettled", "waiting", "errored"}
    BY <1>24 DEF TypeOK, Recorded, SettlesTo, Unsettled
  <2>2. pc' \in [Drives -> Places]
    BY <1>24 DEF TypeOK, Recorded, Goto, Places, Turning, Running
  <2> QED
    BY <1>24, <2>1, <2>2 DEF TypeOK, Recorded
<1>25. ASSUME NEW d \in Drives, Close(d) PROVE TypeOK'
  <2>1. PICK why \in Outcomes : EndTurn(d, why)
    BY <1>25 DEF Close, TypeOK, Outcomes, Stops
  <2>2. Goto(d, "recorded", "looping") /\ held' \in BOOLEAN
    BY <1>25 DEF Close
  <2>3. chat' \in {"idle", "streaming", "unsettled", "waiting", "errored"}
    BY <1>25 DEF Close, TypeOK
  <2> QED
    BY <2>1, <2>2, <2>3, LoopingType, TurnOverType
<1> QED
  BY <1>0, <1>1, <1>2, <1>3, <1>4, <1>5, <1>6, <1>7, <1>8, <1>9, <1>10, <1>11, <1>12, <1>13, <1>14, <1>15, <1>16, <1>17, <1>18, <1>19, <1>20, <1>21, <1>22, <1>23, <1>24, <1>25 DEF Next, Continue

(* Every variable of the thread keeps its type, in every reachable state.  *)
THEOREM TypeCorrect == Spec => []TypeOK
<1>1. Init => TypeOK /\ HaltedAborted
  BY InitType DEF Init, HaltedAborted
<1> QED
  BY <1>1, HaltedNext, NextType, PTL DEF Spec

-----------------------------------------------------------------------------
(***************************************************************************)
(* Mutual exclusion of the drive.                                          *)
(***************************************************************************)

(* A step of a drive that stays awake keeps the lock as it is.             *)
LEMMA AwakeKeepsLock ==
  ASSUME TypeOK, OneDrive, NEW d \in Drives, NEW to \in Places \ {"idle"},
         pc[d] # "idle", pc' = [pc EXCEPT ![d] = to], UNCHANGED running
  PROVE  OneDrive'
<1>1. pc \in [Drives -> Places]
  BY DEF TypeOK
<1> QED
  BY <1>1 DEF OneDrive

(* The only drive that is awake lies down and lowers `running`.            *)
LEMMA RestFreesLock ==
  ASSUME TypeOK, OneDrive, NEW d \in Drives,
         pc[d] # "idle", pc' = [pc EXCEPT ![d] = "idle"], running' = FALSE
  PROVE  OneDrive'
<1>1. pc \in [Drives -> Places]
  BY DEF TypeOK
<1> QED
  BY <1>1 DEF OneDrive

LEMMA PlacesAwake ==
  /\ {"took", "looping"} \cup Turning \subseteq Places \ {"idle"}
  /\ Opening \cup Running \cup {"failing", "halted"} \subseteq Turning
BY DEF Places, Turning, Opening, Running

LEMMA OneDriveNext == TypeOK /\ OneDrive /\ [Next]_vars => OneDrive'
<1> SUFFICES ASSUME TypeOK, OneDrive, [Next]_vars PROVE OneDrive'
  OBVIOUS
<1> USE DEF vars, drives, callers, history, shared
<1>0. CASE UNCHANGED <<pc, running>>
  BY <1>0 DEF OneDrive
<1>1. ASSUME NEW e \in Envelopes, Post(e) \/ Withdraw(e) \/ Withdrawn(e)
      PROVE  OneDrive'
  BY <1>0, <1>1 DEF Post, Withdraw, Withdrawn
<1>2. ASSUME NEW e \in Envelopes, Posted(e) PROVE OneDrive'
  <2>1. CASE running
    BY <1>2, <2>1 DEF Posted, OneDrive, TypeOK
  <2>2. CASE ~running
    <3>1. PICK d \in Drives : pc[d] = "idle" /\ pc' = [pc EXCEPT ![d] = "took"]
      BY <1>2, <2>2 DEF Posted, Loop
    <3>2. \A x \in Drives : pc[x] = "idle"
      BY <2>2 DEF OneDrive
    <3> QED
      BY <1>2, <3>1, <3>2 DEF Posted, OneDrive, TypeOK
  <2> QED
    BY <2>1, <2>2
<1>3. ASSUME NEW c \in Cancellers, Cancel(c) \/ Cancelled(c) PROVE OneDrive'
  BY <1>0, <1>3 DEF Cancel, Cancelled
<1>4. ASSUME NEW d \in Drives, Rest(d) \/ HaltedThrows(d) PROVE OneDrive'
  <2>1. pc[d] # "idle" /\ pc' = [pc EXCEPT ![d] = "idle"] /\ running' = FALSE
    BY <1>4 DEF Rest, HaltedThrows, Goto
  <2> QED
    BY <2>1, RestFreesLock
<1>5. ASSUME NEW d \in Drives, NEW why \in {"overrun", "caller"}, Cut(d, why)
      PROVE  OneDrive'
  BY <1>0, <1>5 DEF Cut
<1>6. ASSUME NEW d \in Drives,
             \/ OpenTurn(d) \/ LookAgain(d) \/ GoRound(d)
             \/ Start(d) \/ AppendOpening(d) \/ Prepared(d) \/ PrepareFails(d)
             \/ FailedSettles(d) \/ HaltedSettles(d)
             \/ Inbox(d) \/ InboxTaken(d) \/ Steer(d)
             \/ \E what \in {"answer", "held", "stopped", "failed"} : Finish(d, what)
             \/ Record(d) \/ Recorded(d) \/ Close(d)
      PROVE  OneDrive'
  <2>1. UNCHANGED running /\ pc[d] # "idle"
    BY <1>6 DEF OpenTurn, LookAgain, GoRound, Start, AppendOpening, Prepared,
       PrepareFails, FailedSettles, HaltedSettles, EndTurn, Inbox, InboxTaken,
       Steer, Finish, Record, Recorded, Close, Goto, Opening
  <2>2. \E to \in {"took", "looping"} \cup Turning : pc' = [pc EXCEPT ![d] = to]
    <3>1. CASE OpenTurn(d) \/ LookAgain(d) \/ GoRound(d)
      BY <3>1, PlacesAwake DEF OpenTurn, LookAgain, GoRound, Loop, Goto, Opening
    <3>2. CASE Start(d) \/ AppendOpening(d) \/ Prepared(d) \/ PrepareFails(d)
      BY <3>2, PlacesAwake DEF Start, AppendOpening, Prepared, PrepareFails, Goto,
         Opening, Running
    <3>3. CASE FailedSettles(d) \/ HaltedSettles(d) \/ Close(d)
      BY <3>3 DEF FailedSettles, HaltedSettles, Close, Goto
    <3>4. CASE Inbox(d) \/ InboxTaken(d)
      BY <3>4, PlacesAwake DEF Inbox, InboxTaken, Goto, Running
    <3>5. CASE Steer(d)
      <4>1. pc' \in {[pc EXCEPT ![d] = "finished"], [pc EXCEPT ![d] = "step"],
                     [pc EXCEPT ![d] = pc[d]]}
        BY <3>5 DEF Steer
      <4>2. pc[d] = "steering"
        BY <3>5 DEF Steer
      <4> QED
        BY <4>1, <4>2, PlacesAwake DEF Running
    <3>6. ASSUME NEW what \in {"answer", "held", "stopped", "failed"}, Finish(d, what)
          PROVE  pc' = [pc EXCEPT ![d] = "finished"]
      BY <3>6 DEF Finish, Goto
    <3>7. CASE Record(d) \/ Recorded(d)
      BY <3>7, PlacesAwake DEF Record, Recorded, Goto, Running
    <3> QED
      BY <1>6, <3>1, <3>2, <3>3, <3>4, <3>5, <3>6, <3>7, PlacesAwake DEF Running
  <2> QED
    BY <2>1, <2>2, AwakeKeepsLock, PlacesAwake
<1> QED
  BY <1>0, <1>1, <1>2, <1>3, <1>4, <1>5, <1>6 DEF Next, Continue

(* At most one drive() runs, whatever is posted, cancelled or fails        *)
(* meanwhile, and `running` says whether one does.                         *)
THEOREM DriveMutex == Spec => []OneDrive
<1>1. Init => TypeOK /\ HaltedAborted /\ OneDrive
  BY InitType DEF Init, HaltedAborted, OneDrive
<1> QED
  BY <1>1, HaltedNext, NextType, OneDriveNext, PTL DEF Spec

-----------------------------------------------------------------------------
(***************************************************************************)
(* The chat of a thread at rest: whoever made it stream is still there.    *)
(***************************************************************************)
Marking == {"preparing", "reading", "failing", "halted", "step", "inbox", "steering",
            "finished", "recording"}

TurnStreams == chat = "streaming" => \E d \in Drives : pc[d] \in Marking

(* The one drive that is awake is not in a turn that streams: none is.     *)
LEMMA QuietOutside ==
  ASSUME OneDrive, TurnStreams, NEW d \in Drives, pc[d] # "idle", pc[d] \notin Marking
  PROVE  chat # "streaming"
BY DEF OneDrive, TurnStreams, Marking

LEMMA StreamsNext == TypeOK /\ OneDrive /\ TurnStreams /\ [Next]_vars => TurnStreams'
<1> SUFFICES ASSUME TypeOK, OneDrive, TurnStreams, [Next]_vars PROVE TurnStreams'
  OBVIOUS
<1> USE DEF vars, drives, callers, history, shared
<1>0. CASE UNCHANGED <<pc, chat>>
  BY <1>0 DEF TurnStreams
<1>1. ASSUME NEW e \in Envelopes, Post(e) \/ Withdraw(e) \/ Withdrawn(e)
      PROVE  TurnStreams'
  BY <1>0, <1>1 DEF Post, Withdraw, Withdrawn
<1>2. ASSUME NEW e \in Envelopes, Posted(e) PROVE TurnStreams'
  <2>1. CASE running
    BY <1>0, <1>2, <2>1 DEF Posted
  <2>2. CASE ~running
    <3>1. chat # "streaming"
      BY <2>2 DEF OneDrive, TurnStreams, Marking
    <3> QED
      BY <1>2, <3>1 DEF Posted, TurnStreams
  <2> QED
    BY <2>1, <2>2
<1>3. ASSUME NEW c \in Cancellers, Cancel(c) \/ Cancelled(c) PROVE TurnStreams'
  BY <1>0, <1>3 DEF Cancel, Cancelled
<1>4. ASSUME NEW d \in Drives, NEW why \in {"overrun", "caller"}, Cut(d, why)
      PROVE  TurnStreams'
  BY <1>0, <1>4 DEF Cut
<1>5. ASSUME NEW d \in Drives, OpenTurn(d) \/ LookAgain(d) \/ Rest(d) \/ GoRound(d) \/ Close(d)
      PROVE  TurnStreams'
  <2>1. pc[d] \in {"took", "looping", "recorded"} /\ UNCHANGED chat
    BY <1>5 DEF OpenTurn, LookAgain, Rest, GoRound, Close, Goto
  <2>2. chat # "streaming"
    BY <2>1, QuietOutside DEF Marking
  <2> QED
    BY <2>1, <2>2 DEF TurnStreams
<1>6. ASSUME NEW d \in Drives, FailedSettles(d) \/ HaltedSettles(d) \/ HaltedThrows(d) \/ Recorded(d)
      PROVE  TurnStreams'
  <2>1. chat' # "streaming"
    <3>1. CASE Recorded(d)
      <4>1. ending[d] \in {"failure", "stopped", "settled"}
        BY DEF TypeOK
      <4> QED
        BY <3>1, <4>1 DEF Recorded, SettlesTo, Unsettled
    <3>2. CASE ~Recorded(d)
      BY <1>6, <3>2 DEF FailedSettles, HaltedSettles, HaltedThrows, SettlesTo, Unsettled
    <3> QED
      BY <3>1, <3>2
  <2> QED
    BY <2>1 DEF TurnStreams
<1>7. ASSUME NEW d \in Drives,
             \/ Start(d) \/ AppendOpening(d) \/ Prepared(d) \/ PrepareFails(d)
             \/ Inbox(d) \/ InboxTaken(d) \/ Steer(d)
             \/ \E what \in {"answer", "held", "stopped", "failed"} : Finish(d, what)
             \/ Record(d)
      PROVE  TurnStreams'
  <2>1. pc'[d] \in Marking
    <3>1. pc \in [Drives -> Places]
      BY DEF TypeOK
    <3>2. CASE Steer(d)
      <4>1. pc[d] = "steering"
        BY <3>2 DEF Steer
      <4>2. pc' \in {[pc EXCEPT ![d] = "finished"], [pc EXCEPT ![d] = "step"],
                     [pc EXCEPT ![d] = pc[d]]}
        BY <3>2 DEF Steer
      <4> QED
        BY <3>1, <4>1, <4>2 DEF Marking
    <3>3. CASE ~Steer(d)
      BY <1>7, <3>1, <3>3 DEF Start, AppendOpening, Prepared, PrepareFails, Inbox, InboxTaken,
         Finish, Record, Goto, Marking
    <3> QED
      BY <3>2, <3>3
  <2> QED
    BY <2>1 DEF TurnStreams
<1> QED
  BY <1>0, <1>1, <1>2, <1>3, <1>4, <1>5, <1>6, <1>7 DEF Next, Continue

(* No thread at rest is left streaming, unless its status port rejected    *)
(* just that: whatever fails, is cut short or stopped, the turn that made  *)
(* the chat stream is still there, or has settled it.                      *)
THEOREM RestsSettled == Spec => []RestIsSettled
<1>1. Init => TypeOK /\ HaltedAborted /\ OneDrive /\ TurnStreams
  BY InitType DEF Init, HaltedAborted, OneDrive, TurnStreams
<1>2. OneDrive /\ TurnStreams => RestIsSettled
  BY DEF OneDrive, TurnStreams, RestIsSettled, Marking
<1> QED
  BY <1>1, <1>2, HaltedNext, NextType, OneDriveNext, StreamsNext, PTL DEF Spec

-----------------------------------------------------------------------------
(***************************************************************************)
(* Custody: every open post is in exactly one hand.  First about any hands *)
(* at all: M the mailbox, W withdrawn, S stranded, D in the hand of each   *)
(* cancel, H in the hand of each drive.                                    *)
(***************************************************************************)
Apart(M, W, S, D, H) ==
  /\ M \cap W = {} /\ M \cap S = {} /\ W \cap S = {}
  /\ \A c \in Cancellers : D[c] \cap (M \cup W \cup S) = {}
  /\ \A c1, c2 \in Cancellers : c1 # c2 => D[c1] \cap D[c2] = {}
  /\ \A d \in Drives : H[d] \cap (M \cup W \cup S) = {}
  /\ \A d1, d2 \in Drives : d1 # d2 => H[d1] \cap H[d2] = {}
  /\ \A c \in Cancellers, d \in Drives : D[c] \cap H[d] = {}

InHand(M, W, S, D, H, e) ==
  \/ e \in M \/ e \in W \/ e \in S
  \/ \E c \in Cancellers : e \in D[c]
  \/ \E d \in Drives : e \in H[d]

InHands(M, W, S, D, H, T) ==
  \A e \in Envelopes : e \in T <=> InHand(M, W, S, D, H, e)

Hands(M, W, S, D, H, T) == Apart(M, W, S, D, H) /\ InHands(M, W, S, D, H, T)

HandsType(M, W, S, D, H, T) ==
  /\ M \subseteq Envelopes /\ W \subseteq Envelopes /\ S \subseteq Envelopes
  /\ D \in [Cancellers -> SUBSET Envelopes] /\ H \in [Drives -> SUBSET Envelopes]
  /\ T \subseteq Envelopes

(* A new post enters the mailbox. *)
LEMMA HandsPost ==
  ASSUME NEW M, NEW W, NEW S, NEW D, NEW H, NEW T, NEW e \in Envelopes,
         HandsType(M, W, S, D, H, T), Hands(M, W, S, D, H, T), e \notin T
  PROVE  Hands(M \cup {e}, W, S, D, H, T \cup {e})
<1>1. ~InHand(M, W, S, D, H, e)
  BY DEF Hands, InHands
<1> QED
  BY <1>1 DEF HandsType, Hands, Apart, InHands, InHand

(* A drive takes part of the mailbox. *)
LEMMA HandsTake ==
  ASSUME NEW M, NEW W, NEW S, NEW D, NEW H, NEW T, NEW d \in Drives, NEW N,
         HandsType(M, W, S, D, H, T), Hands(M, W, S, D, H, T), N \subseteq M
  PROVE  Hands(M \ N, W, S, D, [H EXCEPT ![d] = @ \cup N], T)
<1> DEFINE HH == [H EXCEPT ![d] = @ \cup N]
<1>1. HH \in [Drives -> SUBSET Envelopes] /\ HH[d] = H[d] \cup N
      /\ \A x \in Drives : x # d => HH[x] = H[x]
  BY DEF HandsType
<1> HIDE DEF HH
<1>2. Apart(M \ N, W, S, D, HH)
  BY <1>1 DEF Hands, Apart
<1>3. \A e \in Envelopes : InHand(M, W, S, D, H, e) <=> InHand(M \ N, W, S, D, HH, e)
  BY <1>1 DEF InHand
<1> QED
  BY <1>2, <1>3 DEF Hands, InHands, HH

(* A withdraw takes one envelope out of the mailbox. *)
LEMMA HandsWithdraw ==
  ASSUME NEW M, NEW W, NEW S, NEW D, NEW H, NEW T, NEW e \in M,
         Hands(M, W, S, D, H, T)
  PROVE  Hands(M \ {e}, W \cup {e}, S, D, H, T)
<1>1. Apart(M \ {e}, W \cup {e}, S, D, H)
  BY DEF Hands, Apart
<1>2. \A f \in Envelopes : InHand(M, W, S, D, H, f) <=> InHand(M \ {e}, W \cup {e}, S, D, H, f)
  BY DEF InHand
<1> QED
  BY <1>1, <1>2 DEF Hands, InHands

(* A cancel takes the mailbox. *)
LEMMA HandsCancel ==
  ASSUME NEW M, NEW W, NEW S, NEW D, NEW H, NEW T, NEW c \in Cancellers,
         HandsType(M, W, S, D, H, T), Hands(M, W, S, D, H, T), D[c] = {}
  PROVE  Hands({}, W, S, [D EXCEPT ![c] = M], H, T)
<1> DEFINE DD == [D EXCEPT ![c] = M]
<1>1. DD[c] = M /\ \A x \in Cancellers : x # c => DD[x] = D[x]
  BY DEF HandsType
<1> HIDE DEF DD
<1>2. Apart({}, W, S, DD, H)
  BY <1>1 DEF Hands, Apart
<1>3. \A e \in Envelopes : InHand(M, W, S, D, H, e) <=> InHand({}, W, S, DD, H, e)
  BY <1>1 DEF InHand
<1> QED
  BY <1>2, <1>3 DEF Hands, InHands, DD

(* Whoever holds envelopes releases them. *)
LEMMA HandsReleaseWithdrawn ==
  ASSUME NEW M, NEW W, NEW S, NEW D, NEW H, NEW T, NEW e \in W,
         Hands(M, W, S, D, H, T)
  PROVE  Hands(M, W \ {e}, S, D, H, T \ {e})
<1>1. Apart(M, W \ {e}, S, D, H)
  BY DEF Hands, Apart
<1>2. \A f \in Envelopes : InHand(M, W \ {e}, S, D, H, f)
                             <=> InHand(M, W, S, D, H, f) /\ f # e
  BY DEF Hands, Apart, InHand
<1> QED
  BY <1>1, <1>2 DEF Hands, InHands

LEMMA HandsReleaseDropped ==
  ASSUME NEW M, NEW W, NEW S, NEW D, NEW H, NEW T, NEW c \in Cancellers,
         HandsType(M, W, S, D, H, T), Hands(M, W, S, D, H, T)
  PROVE  Hands(M, W, S, [D EXCEPT ![c] = {}], H, T \ D[c])
<1> DEFINE DD == [D EXCEPT ![c] = {}]
<1>1. DD[c] = {} /\ \A x \in Cancellers : x # c => DD[x] = D[x]
  BY DEF HandsType
<1> HIDE DEF DD
<1>2. Apart(M, W, S, DD, H)
  BY <1>1 DEF Hands, Apart
<1>3. \A e \in Envelopes : InHand(M, W, S, DD, H, e)
                             <=> InHand(M, W, S, D, H, e) /\ e \notin D[c]
  BY <1>1 DEF Hands, Apart, InHand
<1> QED
  BY <1>2, <1>3 DEF Hands, InHands, DD

LEMMA HandsReleaseTurn ==
  ASSUME NEW M, NEW W, NEW S, NEW D, NEW H, NEW T, NEW d \in Drives,
         HandsType(M, W, S, D, H, T), Hands(M, W, S, D, H, T)
  PROVE  Hands(M, W, S, D, [H EXCEPT ![d] = {}], T \ H[d])
<1> DEFINE HH == [H EXCEPT ![d] = {}]
<1>1. HH[d] = {} /\ \A x \in Drives : x # d => HH[x] = H[x]
  BY DEF HandsType
<1> HIDE DEF HH
<1>2. Apart(M, W, S, D, HH)
  BY <1>1 DEF Hands, Apart
<1>3. \A e \in Envelopes : InHand(M, W, S, D, HH, e)
                             <=> InHand(M, W, S, D, H, e) /\ e \notin H[d]
  BY <1>1 DEF Hands, Apart, InHand
<1> QED
  BY <1>2, <1>3 DEF Hands, InHands, HH

(* A turn that throws strands what it holds. *)
LEMMA HandsStrand ==
  ASSUME NEW M, NEW W, NEW S, NEW D, NEW H, NEW T, NEW d \in Drives,
         HandsType(M, W, S, D, H, T), Hands(M, W, S, D, H, T)
  PROVE  Hands(M, W, S \cup H[d], D, [H EXCEPT ![d] = {}], T)
<1> DEFINE HH == [H EXCEPT ![d] = {}]
<1>1. HH[d] = {} /\ \A x \in Drives : x # d => HH[x] = H[x]
  BY DEF HandsType
<1> HIDE DEF HH
<1>2. Apart(M, W, S \cup H[d], D, HH)
  BY <1>1 DEF Hands, Apart
<1>3. \A e \in Envelopes : InHand(M, W, S \cup H[d], D, HH, e) <=> InHand(M, W, S, D, H, e)
  BY <1>1 DEF InHand
<1> QED
  BY <1>2, <1>3 DEF Hands, InHands, HH

-----------------------------------------------------------------------------
(* Sequences without repetition, and the sets of their elements.           *)
NoRepeat(s) == \A i, j \in DOMAIN s : s[i] = s[j] => i = j

LEMMA AppendToSet ==
  ASSUME NEW S, NEW s \in Seq(S), NEW e \in S
  PROVE  /\ ToSet(Append(s, e)) = ToSet(s) \cup {e}
         /\ NoRepeat(s) /\ e \notin ToSet(s) => NoRepeat(Append(s, e))
BY AppendProperties DEF ToSet, NoRepeat

LEMMA TailToSet ==
  ASSUME NEW S, NEW s \in Seq(S), s # <<>>, NoRepeat(s)
  PROVE  /\ Head(s) \in ToSet(s)
         /\ ToSet(Tail(s)) = ToSet(s) \ {Head(s)}
         /\ NoRepeat(Tail(s))
<1>1. /\ Len(s) \in Nat \ {0} /\ DOMAIN s = 1..Len(s) /\ Head(s) = s[1]
      /\ Tail(s) \in Seq(S) /\ DOMAIN Tail(s) = 1..(Len(s) - 1)
      /\ \A i \in 1..(Len(s) - 1) : Tail(s)[i] = s[i + 1]
  BY HeadTailProperties
<1>2. \A x : x \in ToSet(Tail(s)) <=> x \in ToSet(s) \ {Head(s)}
  <2>1. ASSUME NEW x \in ToSet(Tail(s)) PROVE x \in ToSet(s) \ {Head(s)}
    <3>1. PICK i \in 1..(Len(s) - 1) : x = s[i + 1]
      BY <1>1, <2>1 DEF ToSet
    <3> QED
      BY <1>1, <3>1 DEF ToSet, NoRepeat
  <2>2. ASSUME NEW x \in ToSet(s) \ {Head(s)} PROVE x \in ToSet(Tail(s))
    <3>1. PICK i \in 1..Len(s) : x = s[i] /\ i # 1
      BY <1>1, <2>2 DEF ToSet
    <3>2. i - 1 \in 1..(Len(s) - 1) /\ Tail(s)[i - 1] = x
      BY <1>1, <3>1
    <3> QED
      BY <1>1, <3>2 DEF ToSet
  <2> QED
    BY <2>1, <2>2
<1>3. NoRepeat(Tail(s))
  BY <1>1 DEF NoRepeat
<1>4. Head(s) \in ToSet(s)
  BY <1>1 DEF ToSet
<1> QED
  BY <1>2, <1>3, <1>4

LEMMA TailWithin ==
  ASSUME NEW S, NEW s \in Seq(S), s # <<>>
  PROVE  ToSet(Tail(s)) \subseteq ToSet(s) /\ (Len(s) = 1 => Tail(s) = <<>>)
<1>1. /\ Len(s) \in Nat \ {0} /\ DOMAIN s = 1..Len(s)
      /\ Tail(s) \in Seq(S) /\ DOMAIN Tail(s) = 1..(Len(s) - 1)
      /\ \A i \in 1..(Len(s) - 1) : Tail(s)[i] = s[i + 1]
  BY HeadTailProperties
<1>2. ToSet(Tail(s)) \subseteq ToSet(s)
  BY <1>1 DEF ToSet
<1>3. Len(s) = 1 => Tail(s) = <<>>
  BY <1>1
<1> QED
  BY <1>2, <1>3

(* A sequence's elements are its head and its tail's.                      *)
LEMMA HeadAndTailToSet ==
  ASSUME NEW S, NEW s \in Seq(S), s # <<>>
  PROVE  ToSet(s) = {Head(s)} \cup ToSet(Tail(s))
<1>1. /\ Len(s) \in Nat \ {0} /\ DOMAIN s = 1..Len(s) /\ Head(s) = s[1]
      /\ DOMAIN Tail(s) = 1..(Len(s) - 1)
      /\ \A i \in 1..(Len(s) - 1) : Tail(s)[i] = s[i + 1]
  BY HeadTailProperties
<1>2. ASSUME NEW x \in ToSet(s) PROVE x \in {Head(s)} \cup ToSet(Tail(s))
  <2>1. PICK i \in 1..Len(s) : x = s[i]
    BY <1>1, <1>2 DEF ToSet
  <2>2. CASE i # 1
    <3>1. i - 1 \in 1..(Len(s) - 1) /\ Tail(s)[i - 1] = x
      BY <1>1, <2>1, <2>2
    <3> QED
      BY <1>1, <3>1 DEF ToSet
  <2> QED
    BY <1>1, <2>1, <2>2
<1>3. Head(s) \in ToSet(s)
  BY <1>1 DEF ToSet
<1> QED
  BY <1>2, <1>3, TailWithin

(* Element by element, what taking one out of a sequence leaves.           *)
LEMMA RemoveAtIndex ==
  ASSUME NEW S, NEW s \in Seq(S), NEW i \in DOMAIN s, NEW r, r = RemoveAt(s, i)
  PROVE  /\ Len(s) \in Nat \ {0} /\ DOMAIN s = 1..Len(s) /\ i \in 1..Len(s)
         /\ r \in Seq(S) /\ DOMAIN r = 1..(Len(s) - 1)
         /\ \A j \in 1..(Len(s) - 1) : r[j] = IF j < i THEN s[j] ELSE s[j + 1]
<1> DEFINE a == SubSeq(s, 1, i - 1)
           b == SubSeq(s, i + 1, Len(s))
<1>1. Len(s) \in Nat \ {0} /\ DOMAIN s = 1..Len(s) /\ i \in 1..Len(s)
  OBVIOUS
<1>2. a \in Seq(S) /\ Len(a) = i - 1 /\ \A j \in 1..(i - 1) : a[j] = s[j]
  BY <1>1
<1>3. /\ b \in Seq(S) /\ Len(b) = Len(s) - i
      /\ \A j \in 1..(Len(s) - i) : b[j] = s[i + j]
  BY <1>1
<1> HIDE DEF a, b
<1>4. /\ a \o b \in Seq(S) /\ Len(a \o b) = Len(s) - 1
      /\ \A j \in 1..(Len(s) - 1) :
           (a \o b)[j] = IF j <= i - 1 THEN a[j] ELSE b[j - (i - 1)]
  <2>1. /\ a \o b \in Seq(S) /\ Len(a \o b) = Len(a) + Len(b)
        /\ \A j \in 1..(Len(a) + Len(b)) :
             (a \o b)[j] = IF j <= Len(a) THEN a[j] ELSE b[j - Len(a)]
    BY <1>2, <1>3, ConcatProperties
  <2>2. Len(a) + Len(b) = Len(s) - 1 /\ Len(a) = i - 1
    BY <1>1, <1>2, <1>3
  <2> QED
    BY <2>1, <2>2
<1> DEFINE q == a \o b
<1> HIDE DEF q
<1>5. ASSUME NEW j \in 1..(Len(s) - 1)
      PROVE  /\ j < i => q[j] = s[j]
             /\ ~(j < i) => q[j] = s[j + 1]
  <2>1. q[j] = IF j <= i - 1 THEN a[j] ELSE b[j - (i - 1)]
    BY <1>4 DEF q
  <2>2. CASE j < i
    <3>1. j <= i - 1 /\ j \in 1..(i - 1)
      BY <1>1, <2>2
    <3> QED
      BY <1>2, <2>1, <2>2, <3>1
  <2>3. CASE ~(j < i)
    <3>1. /\ ~(j <= i - 1) /\ j - (i - 1) \in 1..(Len(s) - i)
          /\ i + (j - (i - 1)) = j + 1
      BY <1>1, <2>3
    <3>2. b[j - (i - 1)] = s[j + 1]
      BY <1>3, <3>1
    <3> QED
      BY <2>1, <2>3, <3>1, <3>2
  <2> QED
    BY <2>2, <2>3
<1>6. r = q
  BY DEF RemoveAt, a, b, q
<1>7. r \in Seq(S) /\ Len(r) = Len(s) - 1
  BY <1>4, <1>6 DEF q
<1>8. DOMAIN r = 1..(Len(s) - 1)
  BY <1>7
<1> QED
  BY <1>1, <1>5, <1>6, <1>7, <1>8

LEMMA RemoveAtToSet ==
  ASSUME NEW S, NEW s \in Seq(S), NEW i \in DOMAIN s, NoRepeat(s)
  PROVE  /\ ToSet(RemoveAt(s, i)) = ToSet(s) \ {s[i]}
         /\ NoRepeat(RemoveAt(s, i))
<1> DEFINE r == RemoveAt(s, i)
<1>1. /\ Len(s) \in Nat \ {0} /\ DOMAIN s = 1..Len(s) /\ i \in 1..Len(s)
      /\ r \in Seq(S) /\ DOMAIN r = 1..(Len(s) - 1)
      /\ \A j \in 1..(Len(s) - 1) : r[j] = IF j < i THEN s[j] ELSE s[j + 1]
  BY RemoveAtIndex
<1> HIDE DEF r
<1>2. ASSUME NEW x \in ToSet(r) PROVE x \in ToSet(s) \ {s[i]}
  <2>1. PICK j \in 1..(Len(s) - 1) : x = r[j]
    BY <1>1, <1>2 DEF ToSet
  <2>2. PICK k \in 1..Len(s) : k # i /\ x = s[k]
    BY <1>1, <2>1
  <2> QED
    BY <1>1, <2>2 DEF ToSet, NoRepeat
<1>3. ASSUME NEW x \in ToSet(s) \ {s[i]} PROVE x \in ToSet(r)
  <2>1. PICK k \in 1..Len(s) : x = s[k] /\ k # i
    BY <1>1, <1>3 DEF ToSet
  <2>2. CASE k < i
    BY <1>1, <2>1, <2>2 DEF ToSet
  <2>3. CASE k > i
    <3>1. k - 1 \in 1..(Len(s) - 1) /\ r[k - 1] = x
      BY <1>1, <2>1, <2>3
    <3> QED
      BY <1>1, <3>1 DEF ToSet
  <2> QED
    BY <1>1, <2>1, <2>2, <2>3
<1>4. NoRepeat(r)
  <2>1. SUFFICES ASSUME NEW j \in 1..(Len(s) - 1), NEW k \in 1..(Len(s) - 1),
                        r[j] = r[k]
                 PROVE  j = k
    BY <1>1 DEF NoRepeat
  <2> DEFINE at(x) == IF x < i THEN x ELSE x + 1
  <2>2. at(j) \in DOMAIN s /\ at(k) \in DOMAIN s /\ s[at(j)] = s[at(k)]
    BY <1>1, <2>1
  <2>3. at(j) = at(k)
    BY <2>2 DEF NoRepeat
  <2> QED
    BY <1>1, <2>3
<1> QED
  BY <1>2, <1>3, <1>4 DEF r

LEMMA OneToSet ==
  ASSUME NEW S, NEW s \in Seq(S), s # <<>>, NEW one, one = SubSeq(s, 1, 1)
  PROVE  one # <<>> /\ Head(one) = Head(s) /\ ToSet(one) = {Head(s)}
<1>1. Len(s) >= 1 /\ Head(s) = s[1]
  OBVIOUS
<1>2. Len(one) = 1 /\ DOMAIN one = {1} /\ one[1] = s[1] /\ one \in Seq(S)
  BY <1>1, SubSeqProperties
<1> QED
  BY <1>1, <1>2 DEF ToSet

-----------------------------------------------------------------------------
(***************************************************************************)
(* What a drive's locals hold at each place it can be suspended at.        *)
(***************************************************************************)
LocalOf(d) ==
  /\ pc[d] \in {"idle", "looping", "took"} => consumed[d] = {}
  /\ pc[d] \notin {"took", "inbox", "steering"} => taken[d] = <<>>
  /\ pc[d] = "took" /\ taken[d] # <<>> => ToSet(taken[d]) = {Head(taken[d])}
  /\ pc[d] = "steering" => ToSet(taken[d]) \subseteq consumed[d]
  /\ pc[d] = "inbox" => consumed[d] \cap ToSet(taken[d]) = {}

Locals == \A d \in Drives : LocalOf(d)

Hold == [d \in Drives |-> Holding(d)]

Custody ==
  /\ NoRepeat(mailbox)
  /\ Locals
  /\ \A c \in Cancellers : canceller[c] # "taking" => dropped[c] = {}
  /\ Hands(ToSet(mailbox), withdrawing, stranded, dropped, Hold, tracked)

LEMMA LocalSame ==
  ASSUME NEW d \in Drives, LocalOf(d),
         pc'[d] = pc[d], taken'[d] = taken[d], consumed'[d] = consumed[d]
  PROVE  LocalOf(d)' /\ Holding(d)' = Holding(d)
BY DEF LocalOf, Holding

(* A step that touches the locals of one drive. *)
LEMMA LocalsAt ==
  ASSUME TypeOK, Locals, NEW d \in Drives, LocalOf(d)',
         \A x \in Drives \ {d} :
           pc'[x] = pc[x] /\ taken'[x] = taken[x] /\ consumed'[x] = consumed[x]
  PROVE  Locals' /\ Hold' = [Hold EXCEPT ![d] = Holding(d)']
<1>1. \A x \in Drives \ {d} : LocalOf(x)' /\ Holding(x)' = Holding(x)
  BY LocalSame DEF Locals
<1>2. Locals'
  BY <1>1 DEF Locals
<1>3. Hold' = [x \in Drives |-> Holding(x)']
  BY DEF Hold
<1>4. Hold = [x \in Drives |-> Holding(x)]
  BY DEF Hold
<1> QED
  BY <1>1, <1>2, <1>3, <1>4

LEMMA HoldingType ==
  ASSUME TypeOK
  PROVE  /\ HandsType(ToSet(mailbox), withdrawing, stranded, dropped, Hold, tracked)
         /\ \A d \in Drives : Hold[d] = Holding(d) /\ ToSet(taken[d]) \subseteq Envelopes
<1>1. \A d \in Drives : ToSet(taken[d]) \subseteq Envelopes
  BY ToSetType DEF TypeOK
<1>2. \A d \in Drives : Holding(d) \subseteq Envelopes
  BY <1>1 DEF TypeOK, Holding
<1>3. ToSet(mailbox) \subseteq Envelopes
  BY ToSetType DEF TypeOK
<1> QED
  BY <1>1, <1>2, <1>3 DEF TypeOK, HandsType, Hold

(* A step that leaves every hand as it is. *)
LEMMA HandsKept ==
  ASSUME TypeOK, Custody, NEW d \in Drives, LocalOf(d)', Holding(d)' = Holding(d),
         \A x \in Drives \ {d} :
           pc'[x] = pc[x] /\ taken'[x] = taken[x] /\ consumed'[x] = consumed[x],
         UNCHANGED <<mailbox, withdrawing, stranded, canceller, dropped, tracked>>
  PROVE  Custody'
<1>1. Locals' /\ Hold' = [Hold EXCEPT ![d] = Holding(d)']
  BY LocalsAt DEF Custody
<1>2. Hold' = Hold
  BY <1>1, HoldingType DEF Hold
<1> QED
  BY <1>1, <1>2 DEF Custody

(* A step that does not touch the drives' locals. *)
LEMMA LocalsKept ==
  ASSUME Locals, UNCHANGED <<pc, taken, consumed>>
  PROVE  Locals' /\ Hold' = Hold
<1>1. \A d \in Drives : LocalOf(d)' /\ Holding(d)' = Holding(d)
  BY LocalSame DEF Locals
<1> QED
  BY <1>1 DEF Locals, Hold

(* The head of the drive's loop: the eldest envelope changes hands.        *)
LEMMA LoopCustody ==
  ASSUME TypeOK, Custody, NEW d \in Drives, NEW now, Loop(d, now),
         taken[d] = <<>>, consumed[d] = {}, pc[d] # "steering",
         UNCHANGED <<consumed, withdrawing, stranded, canceller, dropped, tracked>>
  PROVE  Custody'
<1> DEFINE one == SubSeq(mailbox, 1, IF mailbox = <<>> THEN 0 ELSE 1)
           N   == IF mailbox = <<>> THEN {} ELSE {Head(mailbox)}
<1>1. mailbox \in Seq(Envelopes) /\ NoRepeat(mailbox)
  BY DEF TypeOK, Custody
<1>2. ToSet(one) = N /\ (one # <<>> => ToSet(one) = {Head(one)})
  <2>1. CASE mailbox = <<>>
    BY <1>1, <2>1, SubSeqEmpty DEF ToSet
  <2>2. CASE mailbox # <<>>
    <3>1. one = SubSeq(mailbox, 1, 1)
      BY <2>2
    <3> HIDE DEF one
    <3> QED
      BY <1>1, <2>2, <3>1, OneToSet
  <2> QED
    BY <2>1, <2>2
<1>3. ToSet(mailbox') = ToSet(mailbox) \ N /\ NoRepeat(mailbox') /\ N \subseteq ToSet(mailbox)
  <2>1. CASE mailbox = <<>>
    BY <1>1, <2>1 DEF Loop, TakeOne
  <2>2. CASE mailbox # <<>>
    BY <1>1, <2>2, TailToSet DEF Loop, TakeOne
  <2> QED
    BY <2>1, <2>2
<1>4. /\ pc'[d] = "took" /\ taken'[d] = one /\ consumed'[d] = {}
      /\ \A x \in Drives \ {d} :
           pc'[x] = pc[x] /\ taken'[x] = taken[x] /\ consumed'[x] = consumed[x]
  BY DEF TypeOK, Loop, TakeOne
<1> HIDE DEF one, N
<1>5. LocalOf(d)' /\ Holding(d)' = N
  BY <1>2, <1>4 DEF LocalOf, Holding
<1>6. Holding(d) = {}
  BY DEF Holding, ToSet
<1>7. Locals' /\ Hold' = [Hold EXCEPT ![d] = Holding(d)']
  BY <1>4, <1>5, LocalsAt DEF Custody
<1>8. Hold' = [Hold EXCEPT ![d] = @ \cup N]
  BY <1>5, <1>6, <1>7, HoldingType
<1>9. Hands(ToSet(mailbox) \ N, withdrawing, stranded, dropped,
            [Hold EXCEPT ![d] = @ \cup N], tracked)
  BY <1>3, HoldingType, HandsTake DEF Custody
<1> QED
  BY <1>3, <1>7, <1>8, <1>9 DEF Custody

-----------------------------------------------------------------------------
(***************************************************************************)
(* A promise is open exactly while it is tracked.                          *)
(***************************************************************************)
Settlement ==
  /\ SettledOnce
  /\ \A e \in Envelopes : poster[e] = "new" => ended[e] = "open"

LEMMA SettlementKept ==
  ASSUME Settlement, UNCHANGED <<poster, tracked, ended>>
  PROVE  Settlement'
BY DEF Settlement, SettledOnce

LEMMA ReleaseSettles ==
  ASSUME TypeOK, Settlement, NEW es, NEW why, why # "open", Release(es, why),
         UNCHANGED poster
  PROVE  Settlement'
<1>1. /\ tracked' = tracked \ es
      /\ \A e \in Envelopes :
           ended'[e] = IF e \in es \cap tracked THEN why ELSE ended[e]
  BY DEF Release
<1> QED
  BY <1>1 DEF Settlement, SettledOnce

LEMMA EndTurnSettles ==
  ASSUME TypeOK, Settlement, NEW d \in Drives, NEW why, why # "open",
         EndTurn(d, why)
  PROVE  Settlement'
BY ReleaseSettles DEF EndTurn, callers

LEMMA SettlementNext == TypeOK /\ Settlement /\ [Next]_vars => Settlement'
<1> SUFFICES ASSUME TypeOK, Settlement, [Next]_vars PROVE Settlement'
  OBVIOUS
<1> USE DEF vars, drives, callers, history, shared
<1>0. CASE UNCHANGED <<poster, tracked, ended>>
  BY <1>0, SettlementKept
<1>1. ASSUME NEW e \in Envelopes, Post(e) PROVE Settlement'
  <2>1. /\ poster[e] = "new" /\ UNCHANGED ended
        /\ tracked' = tracked \cup {e}
        /\ \A f \in Envelopes : poster'[f] = IF f = e THEN "posting" ELSE poster[f]
    BY <1>1 DEF Post, TypeOK
  <2> QED
    BY <2>1 DEF Settlement, SettledOnce
<1>2. ASSUME NEW e \in Envelopes, Posted(e) PROVE Settlement'
  <2>1. /\ poster[e] = "posting" /\ UNCHANGED <<tracked, ended>>
        /\ \A f \in Envelopes : poster'[f] = IF f = e THEN "posted" ELSE poster[f]
    BY <1>2 DEF Posted, TypeOK
  <2> QED
    BY <2>1 DEF Settlement, SettledOnce
<1>3. ASSUME NEW e \in Envelopes, Withdraw(e) PROVE Settlement'
  BY <1>0, <1>3 DEF Withdraw
<1>4. ASSUME NEW e \in Envelopes, Withdrawn(e) PROVE Settlement'
  BY <1>4, ReleaseSettles DEF Withdrawn
<1>5. ASSUME NEW c \in Cancellers, Cancel(c) PROVE Settlement'
  BY <1>0, <1>5 DEF Cancel
<1>6. ASSUME NEW c \in Cancellers, Cancelled(c) PROVE Settlement'
  <2>1. c # "open"
    BY CancellersAssumption
  <2> QED
    BY <1>6, <2>1, ReleaseSettles DEF Cancelled
<1>7. ASSUME NEW d \in Drives,
             FailedSettles(d) \/ HaltedSettles(d) \/ Close(d)
      PROVE  Settlement'
  <2>1. signal[d] # "open" /\ outcome[d] # "open"
    BY CancellersAssumption DEF TypeOK
  <2>2. CASE FailedSettles(d)
    BY <2>2, EndTurnSettles DEF FailedSettles
  <2>3. CASE HaltedSettles(d)
    BY <2>1, <2>3, EndTurnSettles DEF HaltedSettles
  <2>4. CASE Close(d)
    <3>1. PICK why : EndTurn(d, why) /\ why \in {signal[d], outcome[d]}
      BY <2>4 DEF Close
    <3> QED
      BY <2>1, <3>1, EndTurnSettles
  <2> QED
    BY <1>7, <2>2, <2>3, <2>4
<1>8. ASSUME NEW d \in Drives,
             \/ OpenTurn(d) \/ LookAgain(d) \/ Rest(d) \/ GoRound(d)
             \/ Start(d) \/ AppendOpening(d) \/ Prepared(d) \/ PrepareFails(d)
             \/ HaltedThrows(d) \/ Inbox(d) \/ InboxTaken(d) \/ Steer(d)
             \/ \E what \in {"answer", "held", "stopped", "failed"} : Finish(d, what)
             \/ \E why \in {"overrun", "caller"} : Cut(d, why)
             \/ Record(d) \/ Recorded(d)
      PROVE  Settlement'
  <2>1. UNCHANGED <<poster, tracked, ended>>
    BY <1>8 DEF OpenTurn, LookAgain, Rest, GoRound, Start, AppendOpening, Prepared,
       PrepareFails, HaltedThrows, Inbox, InboxTaken, Steer, Finish, Cut, Record,
       Recorded
  <2> QED
    BY <1>0, <2>1
<1> QED
  BY <1>0, <1>1, <1>2, <1>3, <1>4, <1>5, <1>6, <1>7, <1>8 DEF Next, Continue

-----------------------------------------------------------------------------
(***************************************************************************)
(* Every step keeps custody.                                               *)
(***************************************************************************)
LEMMA CustodyKept ==
  ASSUME Custody, UNCHANGED <<pc, taken, consumed, mailbox, withdrawing, stranded,
                              canceller, dropped, tracked>>
  PROVE  Custody'
<1>1. Locals' /\ Hold' = Hold
  BY LocalsKept DEF Custody
<1> QED
  BY <1>1 DEF Custody

LEMMA EmptySet == ToSet(<<>>) = {} /\ NoRepeat(<<>>)
BY DEF ToSet, NoRepeat

LEMMA PostCustody ==
  ASSUME TypeOK, Custody, Settlement, NEW e \in Envelopes, Post(e)
  PROVE  Custody'
<1> USE DEF drives
<1>1. e \notin tracked
  BY DEF Post, Settlement, SettledOnce
<1>2. e \notin ToSet(mailbox)
  BY <1>1 DEF Custody, Hands, InHands, InHand
<1>3. mailbox \in Seq(Envelopes) /\ mailbox' = Append(mailbox, e)
  BY DEF Post, TypeOK
<1>4. ToSet(mailbox') = ToSet(mailbox) \cup {e} /\ NoRepeat(mailbox')
  BY <1>2, <1>3, AppendToSet DEF Custody
<1>5. Locals' /\ Hold' = Hold
  BY LocalsKept DEF Custody, Post
<1>6. Hands(ToSet(mailbox) \cup {e}, withdrawing, stranded, dropped, Hold,
            tracked \cup {e})
  BY <1>1, HoldingType, HandsPost DEF Custody
<1> QED
  BY <1>4, <1>5, <1>6 DEF Custody, Post

LEMMA PostedCustody ==
  ASSUME TypeOK, Custody, NEW e \in Envelopes, Posted(e)
  PROVE  Custody'
<1> USE DEF history
<1>1. CASE running
  BY <1>1, CustodyKept DEF Posted
<1>2. CASE ~running
  <2>1. PICK d \in Drives : pc[d] = "idle" /\ Loop(d, posted')
    BY <1>2 DEF Posted
  <2>2. taken[d] = <<>> /\ consumed[d] = {}
    BY <2>1 DEF Custody, Locals, LocalOf
  <2> QED
    BY <2>1, <2>2, LoopCustody DEF Posted
<1> QED
  BY <1>1, <1>2

LEMMA WithdrawCustody ==
  ASSUME TypeOK, Custody, NEW e \in Envelopes, Withdraw(e)
  PROVE  Custody'
<1> USE DEF drives
<1>1. PICK i \in DOMAIN mailbox :
        /\ mailbox[i] = e /\ mailbox' = RemoveAt(mailbox, i)
        /\ withdrawing' = withdrawing \cup {e}
        /\ UNCHANGED <<pc, taken, consumed, stranded, canceller, dropped, tracked>>
  BY DEF Withdraw, history
<1>2. mailbox \in Seq(Envelopes) /\ NoRepeat(mailbox)
  BY DEF TypeOK, Custody
<1>3. ToSet(mailbox') = ToSet(mailbox) \ {e} /\ NoRepeat(mailbox')
  BY <1>1, <1>2, RemoveAtToSet
<1>4. e \in ToSet(mailbox)
  BY <1>1 DEF ToSet
<1>5. Locals' /\ Hold' = Hold
  BY <1>1, LocalsKept DEF Custody
<1>6. Hands(ToSet(mailbox) \ {e}, withdrawing \cup {e}, stranded, dropped, Hold, tracked)
  BY <1>4, HandsWithdraw DEF Custody
<1> QED
  BY <1>1, <1>3, <1>5, <1>6 DEF Custody

LEMMA WithdrawnCustody ==
  ASSUME TypeOK, Custody, NEW e \in Envelopes, Withdrawn(e)
  PROVE  Custody'
<1> USE DEF drives, history
<1>1. /\ e \in withdrawing /\ withdrawing' = withdrawing \ {e}
      /\ tracked' = tracked \ {e}
      /\ UNCHANGED <<pc, taken, consumed, mailbox, stranded, canceller, dropped>>
  BY DEF Withdrawn, Release
<1>2. Locals' /\ Hold' = Hold
  BY <1>1, LocalsKept DEF Custody
<1>3. Hands(ToSet(mailbox), withdrawing \ {e}, stranded, dropped, Hold, tracked \ {e})
  BY <1>1, HandsReleaseWithdrawn DEF Custody
<1> QED
  BY <1>1, <1>2, <1>3 DEF Custody

LEMMA CancelCustody ==
  ASSUME TypeOK, Custody, NEW c \in Cancellers, Cancel(c)
  PROVE  Custody'
<1> USE DEF history
<1>1. /\ canceller[c] = "ready" /\ canceller' = [canceller EXCEPT ![c] = "taking"]
      /\ dropped' = [dropped EXCEPT ![c] = ToSet(mailbox)] /\ mailbox' = <<>>
      /\ UNCHANGED <<pc, taken, consumed, withdrawing, stranded, tracked>>
  BY DEF Cancel
<1>2. dropped[c] = {}
  BY <1>1 DEF Custody
<1>3. Locals' /\ Hold' = Hold
  BY <1>1, LocalsKept DEF Custody
<1>4. Hands({}, withdrawing, stranded, [dropped EXCEPT ![c] = ToSet(mailbox)], Hold, tracked)
  BY <1>2, HoldingType, HandsCancel DEF Custody
<1>5. \A x \in Cancellers : canceller'[x] # "taking" => dropped'[x] = {}
  BY <1>1 DEF Custody, TypeOK
<1> QED
  BY <1>1, <1>3, <1>4, <1>5, EmptySet DEF Custody

LEMMA CancelledCustody ==
  ASSUME TypeOK, Custody, NEW c \in Cancellers, Cancelled(c)
  PROVE  Custody'
<1> USE DEF drives, history
<1>1. /\ canceller' = [canceller EXCEPT ![c] = "done"]
      /\ dropped' = [dropped EXCEPT ![c] = {}] /\ tracked' = tracked \ dropped[c]
      /\ UNCHANGED <<pc, taken, consumed, mailbox, withdrawing, stranded>>
  BY DEF Cancelled, Release
<1>2. Locals' /\ Hold' = Hold
  BY <1>1, LocalsKept DEF Custody
<1>3. Hands(ToSet(mailbox), withdrawing, stranded, [dropped EXCEPT ![c] = {}], Hold,
            tracked \ dropped[c])
  BY HoldingType, HandsReleaseDropped DEF Custody
<1>4. \A x \in Cancellers : canceller'[x] # "taking" => dropped'[x] = {}
  BY <1>1 DEF Custody, TypeOK
<1> QED
  BY <1>1, <1>2, <1>3, <1>4 DEF Custody

(* The steps of a turn that move nothing between hands. *)
LEMMA TurnCustody ==
  ASSUME TypeOK, Custody, NEW d \in Drives,
         \/ OpenTurn(d) \/ Rest(d) \/ Start(d) \/ AppendOpening(d)
         \/ Prepared(d) \/ PrepareFails(d) \/ InboxTaken(d) \/ Steer(d)
         \/ \E what \in {"answer", "held", "stopped", "failed"} : Finish(d, what)
         \/ \E why \in {"overrun", "caller"} : Cut(d, why)
         \/ Record(d) \/ Recorded(d)
  PROVE  Custody'
<1> USE DEF callers, history, shared
<1>0. /\ LocalOf(d) /\ taken[d] \in Seq(Envelopes)
      /\ pc \in [Drives -> Places] /\ consumed \in [Drives -> SUBSET Envelopes]
      /\ taken \in [Drives -> Seq(Envelopes)]
  BY DEF Custody, Locals, TypeOK
<1>1. UNCHANGED <<mailbox, withdrawing, stranded, canceller, dropped, tracked>>
  BY DEF OpenTurn, Rest, Start, AppendOpening, Prepared, PrepareFails, InboxTaken,
     Steer, Finish, Cut, Record, Recorded
<1>2. \A x \in Drives \ {d} :
        pc'[x] = pc[x] /\ taken'[x] = taken[x] /\ consumed'[x] = consumed[x]
  BY <1>0 DEF OpenTurn, Rest, Start, AppendOpening, Prepared, PrepareFails,
     InboxTaken, Steer, Finish, Cut, Record, Recorded, Goto
<1>3. CASE OpenTurn(d)
  <2>1. /\ pc[d] = "took" /\ taken[d] # <<>> /\ pc'[d] = "opening"
        /\ taken'[d] = <<>> /\ consumed'[d] = {Head(taken[d])}
    BY <1>0, <1>3 DEF OpenTurn, Goto
  <2>2. LocalOf(d)' /\ Holding(d)' = Holding(d)
    BY <1>0, <2>1 DEF LocalOf, Holding
  <2> QED
    BY <1>1, <1>2, <2>2, HandsKept
<1>4. CASE Rest(d)
  <2>1. /\ pc[d] = "took" /\ taken[d] = <<>> /\ pc'[d] = "idle"
        /\ taken'[d] = <<>> /\ consumed'[d] = consumed[d]
    BY <1>0, <1>4 DEF Rest, Goto
  <2>2. LocalOf(d)' /\ Holding(d)' = Holding(d)
    BY <1>0, <2>1, EmptySet DEF LocalOf, Holding
  <2> QED
    BY <1>1, <1>2, <2>2, HandsKept
<1>5. CASE \/ Start(d) \/ AppendOpening(d) \/ Prepared(d) \/ PrepareFails(d)
           \/ \E what \in {"answer", "held", "stopped", "failed"} : Finish(d, what)
           \/ Record(d) \/ Recorded(d)
  <2>1. /\ pc[d] \in Opening \cup {"step", "finished", "recording"}
        /\ pc'[d] \in Opening \cup {"failing", "halted", "step", "finished",
                                    "recording", "recorded"}
        /\ taken'[d] = taken[d] /\ consumed'[d] = consumed[d]
    BY <1>0, <1>5 DEF Start, AppendOpening, Prepared, PrepareFails, Finish, Record,
       Recorded, Goto, Opening
  <2>2. LocalOf(d)' /\ Holding(d)' = Holding(d)
    BY <1>0, <2>1 DEF LocalOf, Holding, Opening
  <2> QED
    BY <1>1, <1>2, <2>2, HandsKept
<1>6. CASE \E why \in {"overrun", "caller"} : Cut(d, why)
  <2>1. UNCHANGED <<pc, taken, consumed>>
    BY <1>6 DEF Cut
  <2> QED
    BY <1>1, <2>1, CustodyKept
<1>7. CASE InboxTaken(d)
  <2>1. /\ pc[d] = "inbox" /\ taken'[d] = taken[d]
        /\ pc'[d] = IF taken[d] = <<>> THEN "step" ELSE "steering"
        /\ consumed'[d] = consumed[d] \cup ToSet(taken[d])
    BY <1>0, <1>7 DEF InboxTaken, Goto
  <2>2. LocalOf(d)' /\ Holding(d)' = Holding(d)
    BY <1>0, <2>1 DEF LocalOf, Holding
  <2> QED
    BY <1>1, <1>2, <2>2, HandsKept
<1>8. CASE Steer(d)
  <2>1. /\ pc[d] = "steering" /\ taken[d] # <<>> /\ consumed'[d] = consumed[d]
        /\ \/ pc'[d] \in {"finished"} /\ taken'[d] = <<>>
           \/ /\ pc'[d] = IF Len(taken[d]) = 1 THEN "step" ELSE pc[d]
              /\ taken'[d] = Tail(taken[d])
    BY <1>0, <1>8 DEF Steer
  <2>2. /\ ToSet(Tail(taken[d])) \subseteq ToSet(taken[d])
        /\ Len(taken[d]) = 1 => Tail(taken[d]) = <<>>
    BY <1>0, <2>1, TailWithin
  <2>3. LocalOf(d)' /\ Holding(d)' = Holding(d)
    BY <1>0, <2>1, <2>2 DEF LocalOf, Holding
  <2> QED
    BY <1>1, <1>2, <2>3, HandsKept
<1> QED
  BY <1>3, <1>4, <1>5, <1>6, <1>7, <1>8

(* The running turn takes the whole mailbox. *)
LEMMA InboxCustody ==
  ASSUME TypeOK, Custody, NEW d \in Drives, Inbox(d)
  PROVE  Custody'
<1> USE DEF callers, history
<1>1. /\ pc[d] = "step" /\ pc'[d] = "inbox" /\ taken'[d] = mailbox
      /\ consumed'[d] = consumed[d] /\ mailbox' = <<>>
      /\ \A x \in Drives \ {d} :
           pc'[x] = pc[x] /\ taken'[x] = taken[x] /\ consumed'[x] = consumed[x]
      /\ UNCHANGED <<withdrawing, stranded, canceller, dropped, tracked>>
  BY DEF Inbox, Goto, TypeOK
<1>2. Holding(d) = consumed[d] /\ Holding(d)' = consumed[d] \cup ToSet(mailbox)
  BY <1>1 DEF Holding
<1>3. Holding(d) \cap ToSet(mailbox) = {}
  BY HoldingType DEF Custody, Hands, Apart
<1>4. LocalOf(d)'
  BY <1>1, <1>2, <1>3 DEF LocalOf
<1>5. Locals' /\ Hold' = [Hold EXCEPT ![d] = Holding(d)']
  BY <1>1, <1>4, LocalsAt DEF Custody
<1>6. Hold' = [Hold EXCEPT ![d] = @ \cup ToSet(mailbox)]
  BY <1>2, <1>5, HoldingType
<1>7. Hands(ToSet(mailbox) \ ToSet(mailbox), withdrawing, stranded, dropped,
            [Hold EXCEPT ![d] = @ \cup ToSet(mailbox)], tracked)
  BY HoldingType, HandsTake DEF Custody
<1>8. ToSet(mailbox) \ ToSet(mailbox) = {}
  OBVIOUS
<1> QED
  BY <1>1, <1>5, <1>6, <1>7, <1>8, EmptySet DEF Custody

(* A turn that returns settles what it holds. *)
LEMMA EndTurnCustody ==
  ASSUME TypeOK, Custody, NEW d \in Drives, NEW why, EndTurn(d, why),
         pc[d] \in {"failing", "halted", "recorded"},
         pc' = [pc EXCEPT ![d] = "looping"]
  PROVE  Custody'
<1> USE DEF callers, history
<1>1. /\ pc'[d] = "looping" /\ taken'[d] = taken[d] /\ consumed'[d] = {}
      /\ tracked' = tracked \ consumed[d]
      /\ \A x \in Drives \ {d} :
           pc'[x] = pc[x] /\ taken'[x] = taken[x] /\ consumed'[x] = consumed[x]
      /\ UNCHANGED <<mailbox, withdrawing, stranded, canceller, dropped>>
  BY DEF EndTurn, Forget, Release, TypeOK
<1>2. LocalOf(d)
  BY DEF Custody, Locals
<1>3. Holding(d) = consumed[d] /\ Holding(d)' = {}
  BY <1>1 DEF Holding
<1>4. LocalOf(d)'
  BY <1>1, <1>2 DEF LocalOf
<1>5. Locals' /\ Hold' = [Hold EXCEPT ![d] = {}]
  BY <1>1, <1>3, <1>4, LocalsAt DEF Custody
<1>6. Hands(ToSet(mailbox), withdrawing, stranded, dropped,
            [Hold EXCEPT ![d] = {}], tracked \ Hold[d])
  BY HoldingType, HandsReleaseTurn DEF Custody
<1>7. Hold[d] = consumed[d]
  BY <1>3, HoldingType
<1> QED
  BY <1>1, <1>5, <1>6, <1>7 DEF Custody

(* A turn that throws strands what it holds. *)
LEMMA HaltedThrowsCustody ==
  ASSUME TypeOK, Custody, NEW d \in Drives, HaltedThrows(d)
  PROVE  Custody'
<1> USE DEF callers
<1>1. /\ pc[d] = "halted" /\ pc'[d] = "idle" /\ taken'[d] = taken[d]
      /\ consumed'[d] = {} /\ stranded' = stranded \cup consumed[d]
      /\ \A x \in Drives \ {d} :
           pc'[x] = pc[x] /\ taken'[x] = taken[x] /\ consumed'[x] = consumed[x]
      /\ UNCHANGED <<mailbox, withdrawing, canceller, dropped, tracked>>
  BY DEF HaltedThrows, Forget, Goto, TypeOK
<1>2. LocalOf(d)
  BY DEF Custody, Locals
<1>3. Holding(d) = consumed[d] /\ Holding(d)' = {}
  BY <1>1 DEF Holding
<1>4. LocalOf(d)'
  BY <1>1, <1>2 DEF LocalOf
<1>5. Locals' /\ Hold' = [Hold EXCEPT ![d] = {}]
  BY <1>1, <1>3, <1>4, LocalsAt DEF Custody
<1>6. Hands(ToSet(mailbox), withdrawing, stranded \cup Hold[d], dropped,
            [Hold EXCEPT ![d] = {}], tracked)
  BY HoldingType, HandsStrand DEF Custody
<1>7. Hold[d] = consumed[d]
  BY <1>3, HoldingType
<1> QED
  BY <1>1, <1>5, <1>6, <1>7 DEF Custody

LEMMA CustodyNext == TypeOK /\ Custody /\ Settlement /\ [Next]_vars => Custody'
<1> SUFFICES ASSUME TypeOK, Custody, Settlement, [Next]_vars PROVE Custody'
  OBVIOUS
<1>1. CASE UNCHANGED vars
  BY <1>1, CustodyKept DEF vars, drives, callers, history, shared
<1>2. ASSUME NEW e \in Envelopes, Post(e) \/ Posted(e) \/ Withdraw(e) \/ Withdrawn(e)
      PROVE  Custody'
  BY <1>2, PostCustody, PostedCustody, WithdrawCustody, WithdrawnCustody
<1>3. ASSUME NEW c \in Cancellers, Cancel(c) \/ Cancelled(c) PROVE Custody'
  BY <1>3, CancelCustody, CancelledCustody
<1>4. ASSUME NEW d \in Drives, LookAgain(d) \/ GoRound(d) PROVE Custody'
  <2>1. /\ Loop(d, posted) /\ pc[d] \in {"took", "looping"} /\ taken[d] = <<>>
        /\ UNCHANGED <<consumed, withdrawing, stranded, canceller, dropped, tracked>>
    BY <1>4 DEF LookAgain, GoRound, Custody, Locals, LocalOf, callers, history
  <2>2. consumed[d] = {}
    BY <2>1 DEF Custody, Locals, LocalOf
  <2> QED
    BY <2>1, <2>2, LoopCustody
<1>5. ASSUME NEW d \in Drives, FailedSettles(d) \/ HaltedSettles(d) \/ Close(d)
      PROVE  Custody'
  <2>1. /\ pc[d] \in {"failing", "halted", "recorded"}
        /\ pc' = [pc EXCEPT ![d] = "looping"]
        /\ \E why : EndTurn(d, why)
    BY <1>5 DEF FailedSettles, HaltedSettles, Close, Goto
  <2> QED
    BY <2>1, EndTurnCustody
<1>6. ASSUME NEW d \in Drives, Inbox(d) \/ HaltedThrows(d) PROVE Custody'
  BY <1>6, InboxCustody, HaltedThrowsCustody
<1>7. ASSUME NEW d \in Drives,
             \/ OpenTurn(d) \/ Rest(d) \/ Start(d) \/ AppendOpening(d)
             \/ Prepared(d) \/ PrepareFails(d) \/ InboxTaken(d) \/ Steer(d)
             \/ \E what \in {"answer", "held", "stopped", "failed"} : Finish(d, what)
             \/ \E why \in {"overrun", "caller"} : Cut(d, why)
             \/ Record(d) \/ Recorded(d)
      PROVE  Custody'
  BY <1>7, TurnCustody
<1> QED
  BY <1>1, <1>2, <1>3, <1>4, <1>5, <1>6, <1>7 DEF Next, Continue

LEMMA CustodyInit == Init => Custody /\ Settlement
<1> SUFFICES ASSUME Init PROVE Custody /\ Settlement
  OBVIOUS
<1>1. Settlement
  BY DEF Init, Settlement, SettledOnce
<1>2. \A d \in Drives : LocalOf(d) /\ Holding(d) = {}
  BY EmptySet DEF Init, LocalOf, Holding
<1>3. \A d \in Drives : Hold[d] = {}
  BY <1>2 DEF Hold
<1>4. Hands(ToSet(mailbox), withdrawing, stranded, dropped, Hold, tracked)
  BY <1>3, EmptySet DEF Init, Hands, Apart, InHands, InHand
<1> QED
  BY <1>1, <1>2, <1>4, EmptySet DEF Init, Custody, Locals

LEMMA CustodyInOneHand == TypeOK /\ Custody => InOneHand
<1> SUFFICES ASSUME TypeOK, Custody PROVE InOneHand
  OBVIOUS
<1>1. \A d \in Drives : Hold[d] = Holding(d)
  BY HoldingType
<1>2. \A d \in Drives : Holding(d) \cap (ToSet(mailbox) \cup Removed \cup stranded) = {}
  BY <1>1 DEF Custody, Hands, Apart, Removed
<1>3. /\ ToSet(mailbox) \cap (Removed \cup stranded) = {} /\ Removed \cap stranded = {}
      /\ \A c \in Cancellers : dropped[c] \cap withdrawing = {}
      /\ \A c1, c2 \in Cancellers : c1 # c2 => dropped[c1] \cap dropped[c2] = {}
  BY DEF Custody, Hands, Apart, Removed
<1>4. \A d1, d2 \in Drives : d1 # d2 => Holding(d1) \cap Holding(d2) = {}
  BY <1>1 DEF Custody, Hands, Apart
<1>5. \A d \in Drives : pc[d] = "inbox" => consumed[d] \cap ToSet(taken[d]) = {}
  BY DEF Custody, Locals, LocalOf
<1> QED
  BY <1>2, <1>3, <1>4, <1>5 DEF InOneHand, Custody, NoRepeat

LEMMA CustodyAccounted == TypeOK /\ Custody => Accounted
<1> SUFFICES ASSUME TypeOK, Custody PROVE Accounted
  OBVIOUS
<1>1. \A d \in Drives : Hold[d] = Holding(d) /\ Hold[d] \subseteq Envelopes
  BY HoldingType DEF HandsType
<1>2. /\ tracked \subseteq Envelopes /\ ToSet(mailbox) \subseteq Envelopes
      /\ Removed \subseteq Envelopes /\ stranded \subseteq Envelopes
  BY HoldingType DEF HandsType, Removed
<1>3. \A e \in Envelopes :
        e \in tracked <=> InHand(ToSet(mailbox), withdrawing, stranded, dropped, Hold, e)
  BY DEF Custody, Hands, InHands
<1>4. \A e : e \in UNION {Holding(d) : d \in Drives} <=> \E d \in Drives : e \in Hold[d]
  BY <1>1
<1>5. \A e : e \in Removed <=> e \in withdrawing \/ \E c \in Cancellers : e \in dropped[c]
  BY DEF Removed
<1> QED
  BY <1>1, <1>2, <1>3, <1>4, <1>5 DEF Accounted, InHand

(* An envelope is never in two hands (run twice, or run and reported as    *)
(* dropped), every post that is not settled is in the hand of someone who  *)
(* will settle it, and none is settled twice: for any number of posts,     *)
(* withdrawals and cancels, in every interleaving with the drive's awaits. *)
THEOREM EveryPostInOneHand == Spec => [](InOneHand /\ Accounted /\ SettledOnce)
<1>1. Init => TypeOK /\ HaltedAborted /\ Custody /\ Settlement
  BY InitType, CustodyInit DEF Init, HaltedAborted
<1>2. TypeOK /\ Custody /\ Settlement => InOneHand /\ Accounted /\ SettledOnce
  BY CustodyInOneHand, CustodyAccounted DEF Settlement
<1> QED
  BY <1>1, <1>2, HaltedNext, NextType, CustodyNext, SettlementNext, PTL DEF Spec

-----------------------------------------------------------------------------
(***************************************************************************)
(* Rest.  drive() looks at the mailbox, awaits, and only then lowers       *)
(* `running`: what makes that safe is that an empty look is trusted only   *)
(* if no post has completed since, so that whatever lies in the mailbox    *)
(* then belongs to a post() that is still on its way to look at `running`. *)
(***************************************************************************)
Awaited == \A e \in ToSet(mailbox) : poster[e] = "posting"

Attentive ==
  /\ \A d \in Drives : pc[d] = "took" => seen[d] <= posted
  /\ \A d \in Drives : pc[d] = "took" /\ taken[d] = <<>> /\ seen[d] = posted => Awaited
  /\ ~running /\ stranded = {} => Awaited
  /\ \A d \in Drives : pc[d] \in Turning => consumed[d] # {}

(* A mailbox that only loses envelopes stays awaited.                      *)
LEMMA AwaitedKept ==
  ASSUME ToSet(mailbox') \subseteq ToSet(mailbox), poster' = poster
  PROVE  Awaited => Awaited'
BY DEF Awaited

(* A step outside the drives that completes no post.                       *)
LEMMA AttentiveOutside ==
  ASSUME Attentive, Awaited => Awaited',
         UNCHANGED <<pc, seen, taken, consumed, posted, running, stranded>>
  PROVE  Attentive'
BY DEF Attentive

(* A step of the one drive within its turn, or out of it but not to rest.  *)
LEMMA AttentiveTurn ==
  ASSUME TypeOK, OneDrive, Attentive, NEW d \in Drives, pc[d] # "idle",
         Awaited => Awaited',
         pc'[d] # "took", pc'[d] \in Turning => consumed'[d] # {},
         \A x \in Drives \ {d} : pc'[x] = pc[x],
         UNCHANGED running
  PROVE  Attentive'
<1>1. \A x \in Drives \ {d} : pc'[x] = "idle"
  BY DEF OneDrive
<1>2. "idle" \notin Turning
  BY DEF Turning, Opening, Running
<1>3. running'
  BY DEF OneDrive
<1> QED
  BY <1>1, <1>2, <1>3 DEF Attentive

(* The drive looks at the mailbox: it finds an envelope, or it is empty.   *)
LEMMA AttentiveLoop ==
  ASSUME TypeOK, NEW d \in Drives, NEW now \in Nat, Loop(d, now),
         posted' = now, running',
         \A x \in Drives \ {d} : pc[x] = "idle"
  PROVE  Attentive'
<1>1. /\ pc'[d] = "took" /\ seen'[d] = now
      /\ \A x \in Drives \ {d} : pc'[x] = "idle"
  BY DEF TypeOK, Loop
<1>2. taken'[d] = <<>> => mailbox' = <<>>
  <2>1. taken'[d] = SubSeq(mailbox, 1, IF mailbox = <<>> THEN 0 ELSE 1)
    BY DEF TypeOK, Loop, TakeOne
  <2>2. CASE mailbox = <<>>
    BY <2>2 DEF Loop, TakeOne
  <2>3. CASE mailbox # <<>>
    <3>1. taken'[d] = SubSeq(mailbox, 1, 1) /\ mailbox \in Seq(Envelopes)
      BY <2>1, <2>3 DEF TypeOK
    <3> QED
      BY <2>3, <3>1, OneToSet
  <2> QED
    BY <2>2, <2>3
<1>3. taken'[d] = <<>> => Awaited'
  BY <1>2, EmptySet DEF Awaited
<1>4. {"idle", "took"} \cap Turning = {}
  BY DEF Turning, Opening, Running
<1> QED
  BY <1>1, <1>3, <1>4 DEF Attentive

LEMMA AttentiveNext ==
  TypeOK /\ OneDrive /\ Custody /\ Settlement /\ Attentive /\ [Next]_vars => Attentive'
<1> SUFFICES ASSUME TypeOK, OneDrive, Custody, Settlement, Attentive, [Next]_vars PROVE Attentive'
  OBVIOUS
<1> USE DEF vars, drives, callers, history, shared
<1>1. CASE UNCHANGED vars
  <2>1. Awaited => Awaited'
    BY <1>1 DEF Awaited
  <2> QED
    BY <1>1, <2>1, AttentiveOutside
<1>2. ASSUME NEW e \in Envelopes, Post(e) PROVE Attentive'
  <2>1. /\ mailbox' = Append(mailbox, e) /\ poster' = [poster EXCEPT ![e] = "posting"]
        /\ UNCHANGED <<pc, seen, taken, consumed, posted, running, stranded>>
    BY <1>2 DEF Post
  <2>2. ToSet(mailbox') = ToSet(mailbox) \cup {e}
    BY <2>1, AppendToSet DEF TypeOK
  <2>3. Awaited => Awaited'
    BY <2>1, <2>2, HoldingType DEF TypeOK, Awaited, HandsType
  <2> QED
    BY <2>1, <2>3, AttentiveOutside
<1>3. ASSUME NEW e \in Envelopes, Posted(e) PROVE Attentive'
  <2>1. posted' = posted + 1 /\ posted \in Nat /\ running'
    BY <1>3 DEF Posted, TypeOK
  <2>2. CASE running
    <3>1. UNCHANGED <<mailbox, pc, seen, taken, consumed>>
      BY <1>3, <2>2 DEF Posted
    <3>2. ASSUME NEW d \in Drives, pc'[d] = "took" PROVE seen'[d] < posted'
      BY <2>1, <3>1, <3>2 DEF Attentive, TypeOK
    <3>3. \A d \in Drives : pc'[d] = "took" => seen'[d] <= posted' /\ seen'[d] # posted'
      BY <2>1, <3>1, <3>2 DEF TypeOK
    <3> QED
      BY <2>1, <3>1, <3>3 DEF Attentive
  <2>3. CASE ~running
    <3>1. PICK d \in Drives : Loop(d, posted')
      BY <1>3, <2>3 DEF Posted
    <3>2. \A x \in Drives : pc[x] = "idle"
      BY <2>3 DEF OneDrive
    <3>3. posted' \in Nat
      BY <2>1
    <3> QED
      BY <2>1, <3>1, <3>2, <3>3, AttentiveLoop
  <2> QED
    BY <2>2, <2>3
<1>4. ASSUME NEW e \in Envelopes, Withdraw(e) PROVE Attentive'
  <2>1. PICK i \in DOMAIN mailbox : mailbox' = RemoveAt(mailbox, i)
    BY <1>4 DEF Withdraw
  <2>2. ToSet(mailbox') \subseteq ToSet(mailbox)
    BY <2>1, RemoveAtToSet DEF TypeOK, Custody
  <2>3. UNCHANGED <<poster, pc, seen, taken, consumed, posted, running, stranded>>
    BY <1>4 DEF Withdraw
  <2> QED
    BY <2>2, <2>3, AwaitedKept, AttentiveOutside
<1>5. ASSUME NEW e \in Envelopes, Withdrawn(e) PROVE Attentive'
  <2>1. UNCHANGED <<mailbox, poster, pc, seen, taken, consumed, posted, running, stranded>>
    BY <1>5 DEF Withdrawn
  <2> QED
    BY <2>1, AwaitedKept, AttentiveOutside
<1>6. ASSUME NEW c \in Cancellers, Cancel(c) \/ Cancelled(c) PROVE Attentive'
  <2>1. /\ mailbox' = <<>> \/ mailbox' = mailbox
        /\ UNCHANGED <<poster, pc, seen, taken, consumed, posted, running, stranded>>
    BY <1>6 DEF Cancel, Cancelled
  <2>2. ToSet(mailbox') \subseteq ToSet(mailbox)
    BY <2>1, EmptySet
  <2> QED
    BY <2>1, <2>2, AwaitedKept, AttentiveOutside
<1>7. ASSUME NEW d \in Drives, LookAgain(d) \/ GoRound(d) PROVE Attentive'
  <2>1. /\ Loop(d, posted) /\ UNCHANGED <<posted, running>>
        /\ pc[d] # "idle" /\ posted \in Nat
    BY <1>7 DEF LookAgain, GoRound, TypeOK
  <2>2. running /\ \A x \in Drives \ {d} : pc[x] = "idle"
    BY <2>1 DEF OneDrive
  <2> QED
    BY <2>1, <2>2, AttentiveLoop
<1>8. ASSUME NEW d \in Drives, Rest(d) PROVE Attentive'
  <2>1. /\ pc[d] = "took" /\ taken[d] = <<>> /\ posted = seen[d]
        /\ pc' = [pc EXCEPT ![d] = "idle"] /\ UNCHANGED <<mailbox, poster>>
    BY <1>8 DEF Rest, Goto
  <2>2. Awaited'
    BY <2>1 DEF Attentive, Awaited
  <2>3. \A x \in Drives : pc'[x] = "idle"
    BY <2>1 DEF OneDrive, TypeOK
  <2>4. "idle" \notin Turning
    BY DEF Turning, Opening, Running
  <2> QED
    BY <2>2, <2>3, <2>4 DEF Attentive
<1>9. ASSUME NEW d \in Drives, HaltedThrows(d) PROVE Attentive'
  <2>1. /\ pc[d] = "halted" /\ pc' = [pc EXCEPT ![d] = "idle"]
        /\ stranded' = stranded \cup consumed[d]
    BY <1>9 DEF HaltedThrows, Goto
  <2>2. consumed[d] # {}
    BY <2>1 DEF Attentive, Turning
  <2>3. \A x \in Drives : pc'[x] = "idle"
    BY <2>1 DEF OneDrive, TypeOK
  <2>4. "idle" \notin Turning
    BY DEF Turning, Opening, Running
  <2> QED
    BY <2>1, <2>2, <2>3, <2>4 DEF Attentive
<1>10. ASSUME NEW d \in Drives, NEW why \in {"overrun", "caller"}, Cut(d, why) PROVE Attentive'
  <2>1. UNCHANGED <<mailbox, poster, pc, seen, taken, consumed, posted, running, stranded>>
    BY <1>10 DEF Cut
  <2> QED
    BY <2>1, AwaitedKept, AttentiveOutside
<1>11. ASSUME NEW d \in Drives, FailedSettles(d) \/ HaltedSettles(d) \/ Close(d) PROVE Attentive'
  <2>1. /\ pc[d] \in {"failing", "halted", "recorded"} /\ pc' = [pc EXCEPT ![d] = "looping"]
        /\ UNCHANGED <<mailbox, poster, running>>
    BY <1>11 DEF FailedSettles, HaltedSettles, Close, Goto, EndTurn
  <2>2. /\ pc[d] # "idle" /\ pc'[d] # "took" /\ pc'[d] \notin Turning
        /\ \A x \in Drives \ {d} : pc'[x] = pc[x]
    BY <2>1 DEF TypeOK, Turning, Opening, Running
  <2> QED
    BY <2>1, <2>2, AwaitedKept, AttentiveTurn
<1>12. ASSUME NEW d \in Drives,
             \/ OpenTurn(d) \/ Start(d) \/ AppendOpening(d) \/ Prepared(d) \/ PrepareFails(d)
             \/ InboxTaken(d) \/ Steer(d) \/ Inbox(d)
             \/ \E what \in {"answer", "held", "stopped", "failed"} : Finish(d, what)
             \/ Record(d) \/ Recorded(d)
      PROVE  Attentive'
  <2>1. UNCHANGED <<poster, running>> /\ (mailbox' = mailbox \/ mailbox' = <<>>)
    BY <1>12 DEF OpenTurn, Start, AppendOpening, Prepared, PrepareFails, InboxTaken, Steer,
       Inbox, Finish, Record, Recorded
  <2>2. ToSet(mailbox') \subseteq ToSet(mailbox)
    BY <2>1, EmptySet
  <2>3. pc[d] # "idle" /\ pc'[d] # "took" /\ \A x \in Drives \ {d} : pc'[x] = pc[x]
    <3>1. pc \in [Drives -> Places]
      BY DEF TypeOK
    <3>2. CASE Steer(d)
      <4>1. pc[d] = "steering"
        BY <3>2 DEF Steer
      <4>2. pc' \in {[pc EXCEPT ![d] = "finished"], [pc EXCEPT ![d] = "step"],
                     [pc EXCEPT ![d] = pc[d]]}
        BY <3>2 DEF Steer
      <4> QED
        BY <3>1, <4>1, <4>2
    <3>3. CASE ~Steer(d)
      BY <1>12, <3>1, <3>3 DEF OpenTurn, Start, AppendOpening, Prepared, PrepareFails, Inbox,
         InboxTaken, Finish, Record, Recorded, Goto, Opening
    <3> QED
      BY <3>2, <3>3
  <2>4. consumed'[d] # {}
    <3>1. CASE OpenTurn(d)
      BY <3>1 DEF OpenTurn, TypeOK
    <3>2. CASE InboxTaken(d)
      <4>1. consumed'[d] = consumed[d] \cup ToSet(taken[d]) /\ pc[d] = "inbox"
        BY <3>2 DEF InboxTaken, TypeOK, Goto
      <4> QED
        BY <4>1 DEF Attentive, Turning, Running
    <3>3. CASE ~OpenTurn(d) /\ ~InboxTaken(d)
      <4>1. UNCHANGED consumed
        BY <1>12, <3>3 DEF Start, AppendOpening, Prepared, PrepareFails, Steer, Inbox,
           Finish, Record, Recorded
      <4>2. pc[d] \in Turning
        BY <1>12, <3>3 DEF Start, AppendOpening, Prepared, PrepareFails, Steer, Inbox,
           Finish, Record, Recorded, Goto, Turning, Opening, Running
      <4> QED
        BY <4>1, <4>2 DEF Attentive
    <3> QED
      BY <3>1, <3>2, <3>3
  <2> QED
    BY <2>1, <2>2, <2>3, <2>4, AwaitedKept, AttentiveTurn
<1> QED
  BY <1>1, <1>2, <1>3, <1>4, <1>5, <1>6, <1>7, <1>8, <1>9, <1>10, <1>11, <1>12 DEF Next, Continue

LEMMA AttentiveInit == Init => Attentive
<1> SUFFICES ASSUME Init PROVE Attentive
  OBVIOUS
<1>1. Awaited
  BY EmptySet DEF Init, Awaited
<1>2. \A d \in Drives : pc[d] = "idle" /\ pc[d] \notin Turning
  BY DEF Init, Turning, Opening, Running
<1> QED
  BY <1>1, <1>2 DEF Attentive

(* What rests is settled: an awaited mailbox with no post on its way is    *)
(* empty, so nobody holds anything and every promise is settled.           *)
LEMMA AttentiveRests ==
  TypeOK /\ OneDrive /\ Custody /\ Settlement /\ Attentive => SettledAtRest
<1> SUFFICES ASSUME TypeOK, OneDrive, Custody, Settlement, Attentive,
                    ~running, Removed = {}, stranded = {},
                    \A e \in Envelopes : poster[e] # "posting"
             PROVE  mailbox = <<>> /\ \A e \in Envelopes : poster[e] # "new" => ended[e] # "open"
  BY DEF SettledAtRest
<1>1. ToSet(mailbox) = {}
  BY HoldingType DEF Attentive, Awaited, HandsType
<1>2. mailbox = <<>>
  <2>1. SUFFICES ASSUME mailbox # <<>> PROVE FALSE
    OBVIOUS
  <2>2. mailbox \in Seq(Envelopes) /\ 1 \in DOMAIN mailbox
    BY <2>1 DEF TypeOK
  <2>3. mailbox[1] \in ToSet(mailbox)
    BY <2>2 DEF ToSet
  <2> QED
    BY <1>1, <2>3
<1>3. ASSUME NEW d \in Drives PROVE Holding(d) = {}
  <2>1. pc[d] = "idle"
    BY DEF OneDrive
  <2> QED
    BY <2>1 DEF Custody, Locals, LocalOf, Holding
<1>4. tracked = {}
  <2>1. UNION {Holding(d) : d \in Drives} = {}
    BY <1>3
  <2> QED
    BY <1>1, <2>1, CustodyAccounted DEF Accounted
<1> QED
  BY <1>2, <1>4 DEF Settlement, SettledOnce

(* A thread at rest has answered every post, for any number of posts,      *)
(* cancels and withdrawals: no post is left in the mailbox of a drive that *)
(* has just lain down (thread.ts:210 and :216), except what a turn that    *)
(* threw has stranded.                                                     *)
THEOREM NothingLeftBehind == Spec => []SettledAtRest
<1>1. Init => TypeOK /\ HaltedAborted /\ OneDrive /\ Custody /\ Settlement /\ Attentive
  BY InitType, CustodyInit, AttentiveInit DEF Init, HaltedAborted, OneDrive
<1> QED
  BY <1>1, HaltedNext, NextType, OneDriveNext, CustodyNext, SettlementNext, AttentiveNext,
     AttentiveRests, PTL DEF Spec

-----------------------------------------------------------------------------
(***************************************************************************)
(* What a post is told.  The transcript holds nothing that waits or was    *)
(* taken back, and what the turn answers for it has read, at every place   *)
(* it can be suspended at before it says so.                               *)
(***************************************************************************)
Closing == {"finished", "recording", "recorded"}

HeardBy(d) ==
  /\ pc[d] \in {"opening", "preparing"} => \E e \in Envelopes : consumed[d] = {e}
  /\ pc[d] \in {"reading", "step", "inbox"} => consumed[d] \subseteq ToSet(spoken)
  /\ pc[d] = "steering" => consumed[d] \subseteq ToSet(spoken) \cup ToSet(taken[d])
  /\ pc[d] \in Closing /\ outcome[d] \in {"answer", "held"} => consumed[d] \subseteq ToSet(spoken)
  /\ pc[d] \notin Closing => outcome[d] = "stopped"

Unheard == (ToSet(mailbox) \cup Removed) \cap ToSet(spoken) = {}

Told ==
  \A e \in Envelopes :
    /\ poster[e] = "new" => e \notin ToSet(spoken)
    /\ ended[e] = "withdrawn" => e \notin ToSet(spoken)
    /\ ended[e] \in {"answer", "held"} => e \in ToSet(spoken)

Truth == Unheard /\ Told /\ \A d \in Drives : HeardBy(d)

(* A step that reads nothing to the model and settles nothing: envelopes   *)
(* move from the mailbox to a hand, or out of both.                        *)
LEMMA TruthOutside ==
  ASSUME Truth, UNCHANGED <<pc, taken, consumed, outcome, spoken, poster, ended>>,
         ToSet(mailbox') \cup Removed' \subseteq ToSet(mailbox) \cup Removed
  PROVE  Truth'
<1>1. Unheard'
  BY DEF Truth, Unheard
<1>2. Told'
  BY DEF Truth, Told
<1>3. \A d \in Drives : HeardBy(d)'
  BY DEF Truth, HeardBy
<1> QED
  BY <1>1, <1>2, <1>3 DEF Truth

(* A step of one drive that reads nothing to the model and settles nothing. *)
LEMMA TruthSilent ==
  ASSUME Truth, NEW d \in Drives, HeardBy(d)',
         \A x \in Drives \ {d} : /\ pc'[x] = pc[x] /\ taken'[x] = taken[x]
                                 /\ consumed'[x] = consumed[x] /\ outcome'[x] = outcome[x],
         UNCHANGED <<spoken, poster, ended, withdrawing, dropped>>,
         ToSet(mailbox') \subseteq ToSet(mailbox)
  PROVE  Truth'
<1>1. Unheard'
  BY DEF Truth, Unheard, Removed
<1>2. Told'
  BY DEF Truth, Told
<1>3. \A x \in Drives \ {d} : HeardBy(x)'
  BY DEF Truth, HeardBy
<1> QED
  BY <1>1, <1>2, <1>3 DEF Truth

(* A drive's message reaches the transcript: it is one it holds, so it is  *)
(* neither waiting nor taken back, and its promise is open.                *)
LEMMA TruthSpeaks ==
  ASSUME TypeOK, Custody, Settlement, Truth, NEW d \in Drives, NEW e \in consumed[d],
         HeardBy(d)', spoken' = Append(spoken, e),
         \A x \in Drives \ {d} : /\ pc'[x] = pc[x] /\ taken'[x] = taken[x]
                                 /\ consumed'[x] = consumed[x] /\ outcome'[x] = outcome[x],
         UNCHANGED <<mailbox, poster, ended, withdrawing, dropped>>
  PROVE  Truth'
<1>1. e \in Envelopes /\ e \in Holding(d) /\ spoken \in Seq(Envelopes)
  BY DEF TypeOK, Holding
<1>2. ToSet(spoken') = ToSet(spoken) \cup {e}
  BY <1>1, AppendToSet
<1>3. e \notin ToSet(mailbox) \cup Removed
  BY <1>1, CustodyInOneHand DEF InOneHand
<1>4. Unheard'
  BY <1>2, <1>3 DEF Truth, Unheard, Removed
<1>5. e \in tracked
  BY <1>1, CustodyAccounted DEF Accounted
<1>6. poster[e] # "new" /\ ended[e] = "open"
  BY <1>1, <1>5 DEF Settlement, SettledOnce
<1>7. Told'
  BY <1>2, <1>6 DEF Truth, Told
<1>8. \A x \in Drives \ {d} : HeardBy(x)'
  BY <1>2 DEF Truth, HeardBy
<1> QED
  BY <1>4, <1>7, <1>8 DEF Truth

(* What settling does to the promises: only open ones of es change.        *)
LEMMA TruthSettles ==
  ASSUME Truth, NEW es, NEW why, Release(es, why), UNCHANGED <<poster, spoken>>,
         why = "withdrawn" => es \cap ToSet(spoken) = {},
         why \in {"answer", "held"} => es \subseteq ToSet(spoken)
  PROVE  Told'
<1>1. \A e \in Envelopes : ended'[e] = IF e \in es \cap tracked THEN why ELSE ended[e]
  BY DEF Release
<1> QED
  BY <1>1 DEF Truth, Told

(* Whoever took envelopes back tells their posts.                          *)
LEMMA TruthTells ==
  ASSUME Truth, Told', Removed' \subseteq Removed,
         UNCHANGED <<pc, taken, consumed, outcome, spoken, mailbox>>
  PROVE  Truth'
<1>1. Unheard'
  BY DEF Truth, Unheard
<1>2. \A d \in Drives : HeardBy(d)'
  BY DEF Truth, HeardBy
<1> QED
  BY <1>1, <1>2 DEF Truth

(* A turn that returns.                                                    *)
LEMMA TruthEndsTurn ==
  ASSUME TypeOK, Truth, NEW d \in Drives, NEW why, EndTurn(d, why),
         pc' = [pc EXCEPT ![d] = "looping"], why # "withdrawn",
         why \in {"answer", "held"} => consumed[d] \subseteq ToSet(spoken)
  PROVE  Truth'
<1> USE DEF callers, history
<1>1. /\ pc'[d] = "looping" /\ outcome'[d] = "stopped"
      /\ \A x \in Drives \ {d} : /\ pc'[x] = pc[x] /\ taken'[x] = taken[x]
                                 /\ consumed'[x] = consumed[x] /\ outcome'[x] = outcome[x]
      /\ UNCHANGED <<mailbox, spoken, poster, withdrawing, dropped>>
      /\ Release(consumed[d], why)
  BY DEF EndTurn, Forget, TypeOK
<1>2. Told'
  BY <1>1, TruthSettles
<1>3. Unheard'
  BY <1>1 DEF Truth, Unheard, Removed
<1>4. HeardBy(d)'
  BY <1>1 DEF HeardBy, Closing
<1>5. \A x \in Drives \ {d} : HeardBy(x)'
  BY <1>1 DEF Truth, HeardBy
<1> QED
  BY <1>2, <1>3, <1>4, <1>5 DEF Truth

(* The drive's loop takes the eldest envelope; nothing is said.            *)
LEMMA LoopSilent ==
  ASSUME TypeOK, Custody, Truth, NEW d \in Drives, NEW now, Loop(d, now),
         pc[d] \notin Closing,
         UNCHANGED <<consumed, outcome, spoken, withdrawing, dropped>>
  PROVE  Unheard' /\ \A x \in Drives : HeardBy(x)'
<1>1. ToSet(mailbox') \subseteq ToSet(mailbox)
  <2>1. CASE mailbox = <<>>
    BY <2>1 DEF Loop, TakeOne
  <2>2. CASE mailbox # <<>>
    BY <2>2, TailToSet DEF Loop, TakeOne, TypeOK, Custody
  <2> QED
    BY <2>1, <2>2
<1>2. /\ pc'[d] = "took" /\ \A x \in Drives \ {d} : pc'[x] = pc[x] /\ taken'[x] = taken[x]
  BY DEF Loop, TakeOne, TypeOK
<1>3. \A x \in Drives : HeardBy(x)'
  BY <1>2 DEF Truth, HeardBy, Closing
<1>4. Unheard'
  BY <1>1 DEF Truth, Unheard, Removed
<1> QED
  BY <1>3, <1>4

(* The steps of a turn that say nothing.                                   *)
LEMMA TruthTurn ==
  ASSUME TypeOK, Custody, Truth, NEW d \in Drives,
         \/ OpenTurn(d) \/ Rest(d) \/ Start(d) \/ Prepared(d) \/ PrepareFails(d)
         \/ InboxTaken(d) \/ Inbox(d) \/ Record(d) \/ Recorded(d)
         \/ \E what \in {"answer", "held", "stopped", "failed"} : Finish(d, what)
  PROVE  Truth'
<1> USE DEF callers, history, shared
<1>0. /\ HeardBy(d) /\ LocalOf(d)
      /\ pc \in [Drives -> Places] /\ consumed \in [Drives -> SUBSET Envelopes]
      /\ taken \in [Drives -> Seq(Envelopes)]
      /\ outcome \in [Drives -> {"answer", "held", "stopped", "failed"}]
  BY DEF Truth, Custody, Locals, TypeOK
<1>1. /\ UNCHANGED <<spoken, poster, ended, withdrawing, dropped>>
      /\ mailbox' = mailbox \/ mailbox' = <<>>
  BY DEF OpenTurn, Rest, Start, Prepared, PrepareFails, InboxTaken, Inbox, Record, Recorded, Finish
<1>2. ToSet(mailbox') \subseteq ToSet(mailbox)
  BY <1>1, EmptySet
<1>3. \A x \in Drives \ {d} : /\ pc'[x] = pc[x] /\ taken'[x] = taken[x]
                              /\ consumed'[x] = consumed[x] /\ outcome'[x] = outcome[x]
  BY <1>0 DEF OpenTurn, Rest, Start, Prepared, PrepareFails, InboxTaken, Inbox, Record, Recorded,
     Finish, Goto
<1>4. HeardBy(d)'
  <2>1. CASE OpenTurn(d)
    <3>1. Head(taken[d]) \in Envelopes
      BY <1>0, <2>1 DEF OpenTurn
    <3>2. /\ pc[d] = "took" /\ pc'[d] = "opening" /\ consumed'[d] = {Head(taken[d])}
          /\ outcome'[d] = outcome[d]
      BY <1>0, <2>1 DEF OpenTurn, Goto
    <3> QED
      BY <1>0, <3>1, <3>2 DEF HeardBy, Closing
  <2>2. CASE Rest(d) \/ Start(d) \/ Prepared(d) \/ PrepareFails(d)
    <3>1. /\ <<pc[d], pc'[d]>> \in {<<"took", "idle">>, <<"opening", "preparing">>,
               <<"reading", "halted">>, <<"reading", "step">>}
               \cup (Opening \X {"failing"})
          /\ consumed'[d] = consumed[d] /\ outcome'[d] = outcome[d]
      BY <1>0, <2>2 DEF Rest, Start, Prepared, PrepareFails, Goto
    <3> QED
      BY <1>0, <1>1, <3>1 DEF HeardBy, Closing, Opening
  <2>3. CASE InboxTaken(d)
    <3>1. /\ pc[d] = "inbox" /\ pc'[d] = IF taken[d] = <<>> THEN "step" ELSE "steering"
          /\ consumed'[d] = consumed[d] \cup ToSet(taken[d])
          /\ taken'[d] = taken[d] /\ outcome'[d] = outcome[d]
      BY <1>0, <2>3 DEF InboxTaken, Goto
    <3> QED
      BY <1>0, <1>1, <3>1, EmptySet DEF HeardBy, Closing
  <2>4. CASE Inbox(d)
    <3>1. /\ pc[d] = "step" /\ pc'[d] = "inbox"
          /\ consumed'[d] = consumed[d] /\ outcome'[d] = outcome[d]
      BY <1>0, <2>4 DEF Inbox, Goto
    <3> QED
      BY <1>0, <1>1, <3>1 DEF HeardBy, Closing
  <2>5. CASE \/ Record(d) \/ Recorded(d)
             \/ \E what \in {"answer", "held", "stopped", "failed"} : Finish(d, what)
    <3>1. /\ \/ pc[d] = "step"
             \/ pc[d] \in Closing /\ outcome'[d] = outcome[d]
          /\ pc'[d] \in Closing
          /\ consumed'[d] = consumed[d]
      BY <1>0, <2>5 DEF Record, Recorded, Finish, Goto, Closing
    <3> QED
      BY <1>0, <1>1, <3>1 DEF HeardBy, Closing
  <2> QED
    BY <2>1, <2>2, <2>3, <2>4, <2>5
<1> QED
  BY <1>1, <1>2, <1>3, <1>4, TruthSilent

(* The opening message, and each message the turn is steered with.         *)
LEMMA TruthReads ==
  ASSUME TypeOK, Custody, Settlement, Truth, NEW d \in Drives, AppendOpening(d) \/ Steer(d)
  PROVE  Truth'
<1> USE DEF callers, shared
<1>0. /\ HeardBy(d) /\ LocalOf(d) /\ taken[d] \in Seq(Envelopes)
      /\ pc \in [Drives -> Places] /\ consumed \in [Drives -> SUBSET Envelopes]
      /\ taken \in [Drives -> Seq(Envelopes)] /\ spoken \in Seq(Envelopes)
      /\ outcome \in [Drives -> {"answer", "held", "stopped", "failed"}]
  BY DEF Truth, Custody, Locals, TypeOK
<1>1. UNCHANGED <<mailbox, poster, ended, withdrawing, dropped, consumed, outcome>>
  BY DEF AppendOpening, Steer
<1>2. \A x \in Drives \ {d} : /\ pc'[x] = pc[x] /\ taken'[x] = taken[x]
                              /\ consumed'[x] = consumed[x] /\ outcome'[x] = outcome[x]
  BY <1>0 DEF AppendOpening, Steer, Goto
<1>3. CASE AppendOpening(d)
  <2>1. PICK e \in consumed[d] : spoken' = Append(spoken, e)
    BY <1>3 DEF AppendOpening
  <2>2. pc[d] = "preparing" /\ pc'[d] = "reading"
    BY <1>0, <1>3 DEF AppendOpening, Goto
  <2>3. consumed[d] = {e} /\ e \in Envelopes
    BY <1>0, <2>1, <2>2 DEF HeardBy
  <2>4. e \in ToSet(spoken')
    BY <1>0, <2>1, <2>3, AppendToSet
  <2>5. HeardBy(d)'
    BY <1>0, <1>1, <2>2, <2>3, <2>4 DEF HeardBy, Closing
  <2> QED
    BY <1>1, <1>2, <2>1, <2>5, TruthSpeaks
<1>4. CASE Steer(d)
  <2> DEFINE e == Head(taken[d])
  <2>1. /\ pc[d] = "steering" /\ taken[d] # <<>> /\ spoken' = Append(spoken, e)
        /\ \/ pc'[d] = "finished"
           \/ /\ pc'[d] = IF Len(taken[d]) = 1 THEN "step" ELSE "steering"
              /\ taken'[d] = Tail(taken[d])
    BY <1>0, <1>4 DEF Steer
  <2>2. e \in ToSet(taken[d]) /\ e \in Envelopes
    BY <1>0, <2>1 DEF ToSet
  <2>3. e \in consumed[d]
    BY <1>0, <2>1, <2>2 DEF LocalOf
  <2>4. ToSet(spoken') = ToSet(spoken) \cup {e}
    BY <1>0, <2>1, <2>2, AppendToSet
  <2>5. /\ ToSet(taken[d]) = {e} \cup ToSet(Tail(taken[d]))
        /\ Len(taken[d]) = 1 => ToSet(Tail(taken[d])) = {}
    <3>1. ToSet(taken[d]) = {e} \cup ToSet(Tail(taken[d]))
      BY <1>0, <2>1, HeadAndTailToSet
    <3> QED
      BY <1>0, <2>1, <3>1, TailWithin, EmptySet
  <2>6. HeardBy(d)'
    BY <1>0, <1>1, <2>1, <2>4, <2>5 DEF HeardBy, Closing
  <2> QED
    BY <1>1, <1>2, <2>1, <2>3, <2>6, TruthSpeaks
<1> QED
  BY <1>3, <1>4

LEMMA TruthNext ==
  TypeOK /\ HaltedAborted /\ Custody /\ Settlement /\ Truth /\ [Next]_vars => Truth'
<1> SUFFICES ASSUME TypeOK, HaltedAborted, Custody, Settlement, Truth, [Next]_vars PROVE Truth'
  OBVIOUS
<1> USE DEF vars, drives, callers, history, shared
<1>1. CASE UNCHANGED vars
  BY <1>1, TruthOutside DEF Removed
<1>2. ASSUME NEW e \in Envelopes, Post(e) PROVE Truth'
  <2>1. /\ poster[e] = "new" /\ mailbox' = Append(mailbox, e)
        /\ poster' = [poster EXCEPT ![e] = "posting"]
        /\ UNCHANGED <<pc, taken, consumed, outcome, spoken, ended, withdrawing, dropped>>
    BY <1>2 DEF Post
  <2>2. ToSet(mailbox') = ToSet(mailbox) \cup {e}
    BY <2>1, AppendToSet DEF TypeOK
  <2>3. e \notin ToSet(spoken)
    BY <2>1 DEF Truth, Told
  <2>4. Unheard'
    BY <2>1, <2>2, <2>3 DEF Truth, Unheard, Removed
  <2>5. Told'
    BY <2>1 DEF Truth, Told, TypeOK
  <2>6. \A d \in Drives : HeardBy(d)'
    BY <2>1 DEF Truth, HeardBy
  <2> QED
    BY <2>4, <2>5, <2>6 DEF Truth
<1>3. ASSUME NEW e \in Envelopes, Posted(e) PROVE Truth'
  <2>1. /\ poster[e] = "posting" /\ poster' = [poster EXCEPT ![e] = "posted"]
        /\ UNCHANGED <<consumed, outcome, spoken, ended, withdrawing, dropped>>
    BY <1>3 DEF Posted
  <2>2. Told'
    BY <2>1 DEF Truth, Told, TypeOK
  <2>3. CASE running
    <3>1. UNCHANGED <<mailbox, pc, taken>>
      BY <1>3, <2>3 DEF Posted
    <3>2. Unheard'
      BY <2>1, <3>1 DEF Truth, Unheard, Removed
    <3>3. \A d \in Drives : HeardBy(d)'
      BY <2>1, <3>1 DEF Truth, HeardBy
    <3> QED
      BY <2>2, <3>2, <3>3 DEF Truth
  <2>4. CASE ~running
    <3>1. PICK d \in Drives : pc[d] = "idle" /\ Loop(d, posted')
      BY <1>3, <2>4 DEF Posted
    <3>2. pc[d] \notin Closing
      BY <3>1 DEF Closing
    <3>3. Unheard' /\ \A x \in Drives : HeardBy(x)'
      BY <2>1, <3>1, <3>2, LoopSilent
    <3> QED
      BY <2>2, <3>3 DEF Truth
  <2> QED
    BY <2>3, <2>4
<1>4. ASSUME NEW e \in Envelopes, Withdraw(e) PROVE Truth'
  <2>1. PICK i \in DOMAIN mailbox : mailbox[i] = e /\ mailbox' = RemoveAt(mailbox, i)
    BY <1>4 DEF Withdraw
  <2>2. ToSet(mailbox') \subseteq ToSet(mailbox) /\ e \in ToSet(mailbox)
    <3>1. ToSet(mailbox') \subseteq ToSet(mailbox)
      BY <2>1, RemoveAtToSet DEF TypeOK, Custody
    <3> QED
      BY <2>1, <3>1 DEF ToSet
  <2>3. Removed' = Removed \cup {e}
    BY <1>4 DEF Withdraw, Removed
  <2>4. UNCHANGED <<pc, taken, consumed, outcome, spoken, poster, ended>>
    BY <1>4 DEF Withdraw
  <2> QED
    BY <2>2, <2>3, <2>4, TruthOutside
<1>5. ASSUME NEW e \in Envelopes, Withdrawn(e) PROVE Truth'
  <2>1. /\ e \in withdrawing /\ withdrawing' = withdrawing \ {e} /\ Release({e}, "withdrawn")
        /\ UNCHANGED <<pc, taken, consumed, outcome, spoken, poster, mailbox, dropped>>
    BY <1>5 DEF Withdrawn
  <2>2. e \notin ToSet(spoken)
    BY <2>1 DEF Truth, Unheard, Removed
  <2>3. Told'
    BY <2>1, <2>2, TruthSettles
  <2>4. Removed' \subseteq Removed
    BY <2>1 DEF Removed
  <2> QED
    BY <2>1, <2>3, <2>4, TruthTells
<1>6. ASSUME NEW c \in Cancellers, Cancel(c) PROVE Truth'
  <2>1. /\ dropped' = [dropped EXCEPT ![c] = ToSet(mailbox)] /\ mailbox' = <<>>
        /\ UNCHANGED <<pc, taken, consumed, outcome, spoken, poster, ended, withdrawing>>
    BY <1>6 DEF Cancel
  <2>2. \A x \in Cancellers : dropped'[x] \subseteq dropped[x] \cup ToSet(mailbox)
    BY <2>1 DEF TypeOK
  <2>3. ToSet(mailbox') \cup Removed' \subseteq ToSet(mailbox) \cup Removed
    BY <2>1, <2>2, EmptySet DEF Removed
  <2> QED
    BY <2>1, <2>3, TruthOutside
<1>7. ASSUME NEW c \in Cancellers, Cancelled(c) PROVE Truth'
  <2>1. /\ dropped' = [dropped EXCEPT ![c] = {}] /\ Release(dropped[c], c)
        /\ UNCHANGED <<pc, taken, consumed, outcome, spoken, poster, mailbox, withdrawing>>
    BY <1>7 DEF Cancelled
  <2>2. c \notin {"withdrawn", "answer", "held"}
    BY CancellersAssumption
  <2>3. Told'
    BY <2>1, <2>2, TruthSettles
  <2>4. \A x \in Cancellers : dropped'[x] \subseteq dropped[x]
    BY <2>1 DEF TypeOK
  <2>5. Removed' \subseteq Removed
    BY <2>1, <2>4 DEF Removed
  <2> QED
    BY <2>1, <2>3, <2>5, TruthTells
<1>8. ASSUME NEW d \in Drives, LookAgain(d) \/ GoRound(d) PROVE Truth'
  <2>1. /\ Loop(d, posted) /\ pc[d] \in {"took", "looping"}
        /\ UNCHANGED <<consumed, outcome, spoken, ended, withdrawing, dropped, poster>>
    BY <1>8 DEF LookAgain, GoRound
  <2>2. pc[d] \notin Closing
    BY <2>1 DEF Closing
  <2>3. Unheard' /\ \A x \in Drives : HeardBy(x)'
    BY <2>1, <2>2, LoopSilent
  <2>4. Told'
    BY <2>1 DEF Truth, Told
  <2> QED
    BY <2>3, <2>4 DEF Truth
<1>9. ASSUME NEW d \in Drives, AppendOpening(d) \/ Steer(d) PROVE Truth'
  BY <1>9, TruthReads
<1>10. ASSUME NEW d \in Drives, FailedSettles(d) PROVE Truth'
  <2>1. EndTurn(d, "failed") /\ pc' = [pc EXCEPT ![d] = "looping"]
    BY <1>10 DEF FailedSettles, Goto
  <2> QED
    BY <2>1, TruthEndsTurn
<1>11. ASSUME NEW d \in Drives, HaltedSettles(d) PROVE Truth'
  <2>1. EndTurn(d, signal[d]) /\ pc[d] = "halted" /\ pc' = [pc EXCEPT ![d] = "looping"]
    BY <1>11 DEF HaltedSettles, Goto
  <2>2. signal[d] \notin {"withdrawn", "answer", "held"}
    BY <2>1, CancellersAssumption DEF TypeOK
  <2> QED
    BY <2>1, <2>2, TruthEndsTurn
<1>12. ASSUME NEW d \in Drives, Close(d) PROVE Truth'
  <2>1. PICK why : EndTurn(d, why) /\ why \in {signal[d], outcome[d]}
    BY <1>12 DEF Close
  <2>2. pc[d] = "recorded" /\ pc' = [pc EXCEPT ![d] = "looping"]
    BY <1>12 DEF Close, Goto
  <2>3. signal[d] \notin {"withdrawn", "answer", "held"} /\ outcome[d] # "withdrawn"
    BY CancellersAssumption DEF TypeOK
  <2>4. why \in {"answer", "held"} => consumed[d] \subseteq ToSet(spoken)
    BY <2>1, <2>2, <2>3 DEF Truth, HeardBy, Closing
  <2> QED
    BY <2>1, <2>2, <2>3, <2>4, TruthEndsTurn
<1>13. ASSUME NEW d \in Drives, HaltedThrows(d) PROVE Truth'
  <2>1. /\ pc' = [pc EXCEPT ![d] = "idle"] /\ outcome' = [outcome EXCEPT ![d] = "stopped"]
        /\ consumed' = [consumed EXCEPT ![d] = {}]
        /\ UNCHANGED <<taken, mailbox, spoken, poster, ended, withdrawing, dropped>>
    BY <1>13 DEF HaltedThrows, Goto, Forget
  <2>2. /\ pc'[d] = "idle" /\ outcome'[d] = "stopped"
        /\ \A x \in Drives \ {d} : /\ pc'[x] = pc[x] /\ taken'[x] = taken[x]
                                   /\ consumed'[x] = consumed[x] /\ outcome'[x] = outcome[x]
    BY <2>1 DEF TypeOK
  <2>3. HeardBy(d)'
    BY <2>2 DEF HeardBy, Closing
  <2> QED
    BY <2>1, <2>2, <2>3, TruthSilent
<1>14. ASSUME NEW d \in Drives, NEW why \in {"overrun", "caller"}, Cut(d, why) PROVE Truth'
  <2>1. UNCHANGED <<pc, taken, consumed, outcome, spoken, poster, ended, mailbox, withdrawing,
                    dropped>>
    BY <1>14 DEF Cut
  <2> QED
    BY <2>1, TruthOutside DEF Removed
<1>15. ASSUME NEW d \in Drives,
             \/ OpenTurn(d) \/ Rest(d) \/ Start(d) \/ Prepared(d) \/ PrepareFails(d)
             \/ InboxTaken(d) \/ Inbox(d) \/ Record(d) \/ Recorded(d)
             \/ \E what \in {"answer", "held", "stopped", "failed"} : Finish(d, what)
      PROVE  Truth'
  BY <1>15, TruthTurn
<1> QED
  BY <1>1, <1>2, <1>3, <1>4, <1>5, <1>6, <1>7, <1>8, <1>9, <1>10, <1>11, <1>12, <1>13, <1>14,
     <1>15 DEF Next, Continue

LEMMA TruthInit == Init => Truth
<1> SUFFICES ASSUME Init PROVE Truth
  OBVIOUS
<1>1. Unheard /\ Told
  BY EmptySet DEF Init, Unheard, Told
<1>2. \A d \in Drives : HeardBy(d)
  BY DEF Init, HeardBy, Closing
<1> QED
  BY <1>1, <1>2 DEF Truth

(* What a post is told of itself is true: "withdrawn before a turn took    *)
(* it" (thread.ts:69) of what no transcript has, an answer or a hold of    *)
(* what its turn has read, however the steering was cut short.             *)
THEOREM PostsToldTruly == Spec => []ToldTruly
<1>1. Init => TypeOK /\ HaltedAborted /\ Custody /\ Settlement /\ Truth
  BY InitType, CustodyInit, TruthInit DEF Init, HaltedAborted
<1>2. Truth => ToldTruly
  BY DEF Truth, Unheard, Told, ToldTruly
<1> QED
  BY <1>1, <1>2, HaltedNext, NextType, CustodyNext, SettlementNext, TruthNext, PTL DEF Spec

-----------------------------------------------------------------------------
(***************************************************************************)
(* The order of the posts.  First about any sequences: in A, the order of  *)
(* arrival, a stands before b; s lists its elements in that order; every   *)
(* element of S stands before every one of T.                              *)
(***************************************************************************)
Precedes(A, a, b) == \E k, l \in DOMAIN A : k < l /\ A[k] = a /\ A[l] = b

InOrderOf(A, s) == \A i, j \in DOMAIN s : i < j => Precedes(A, s[i], s[j])

AllPrecede(A, S, T) == \A a \in S, b \in T : Precedes(A, a, b)

(* A post arrives last.                                                    *)
LEMMA ArrivalPrecedes ==
  ASSUME NEW A \in Seq(Envelopes), NEW e \in Envelopes
  PROVE  /\ \A a, b : Precedes(A, a, b) => Precedes(Append(A, e), a, b)
         /\ \A a \in ToSet(A) : Precedes(Append(A, e), a, e)
<1>1. /\ DOMAIN A = 1..Len(A) /\ DOMAIN Append(A, e) = 1..(Len(A) + 1) /\ Len(A) \in Nat
      /\ \A i \in 1..Len(A) : Append(A, e)[i] = A[i]
      /\ Append(A, e)[Len(A) + 1] = e
  BY AppendProperties
<1> DEFINE B == Append(A, e)
<1> HIDE DEF B
<1>2. ASSUME NEW a, NEW b, Precedes(A, a, b) PROVE Precedes(B, a, b)
  <2>1. PICK k \in 1..Len(A), l \in 1..Len(A) : k < l /\ A[k] = a /\ A[l] = b
    BY <1>1, <1>2 DEF Precedes
  <2>2. k \in DOMAIN B /\ l \in DOMAIN B /\ B[k] = a /\ B[l] = b
    BY <1>1, <2>1 DEF B
  <2> QED
    BY <2>1, <2>2 DEF Precedes
<1>3. ASSUME NEW a \in ToSet(A) PROVE Precedes(B, a, e)
  <2>1. PICK k \in 1..Len(A) : A[k] = a
    BY <1>1, <1>3 DEF ToSet
  <2>2. k \in DOMAIN B /\ Len(A) + 1 \in DOMAIN B /\ k < Len(A) + 1
        /\ B[k] = a /\ B[Len(A) + 1] = e
    BY <1>1, <2>1 DEF B
  <2> QED
    BY <2>2 DEF Precedes
<1> QED
  BY <1>2, <1>3 DEF B

(* What is listed last stands after all that was listed.                   *)
LEMMA OrderAppend ==
  ASSUME NEW A, NEW s \in Seq(Envelopes), NEW e \in Envelopes,
         InOrderOf(A, s), AllPrecede(A, ToSet(s), {e})
  PROVE  InOrderOf(A, Append(s, e))
<1>1. /\ DOMAIN s = 1..Len(s) /\ DOMAIN Append(s, e) = 1..(Len(s) + 1) /\ Len(s) \in Nat
      /\ \A i \in 1..Len(s) : Append(s, e)[i] = s[i]
      /\ Append(s, e)[Len(s) + 1] = e
  BY AppendProperties
<1> DEFINE q == Append(s, e)
<1> HIDE DEF q
<1>2. ASSUME NEW i \in DOMAIN q, NEW j \in DOMAIN q, i < j PROVE Precedes(A, q[i], q[j])
  <2>1. i \in DOMAIN s /\ q[i] = s[i] /\ s[i] \in ToSet(s)
    BY <1>1, <1>2 DEF q, ToSet
  <2>2. CASE j \in 1..Len(s)
    BY <1>1, <1>2, <2>1, <2>2 DEF q, InOrderOf
  <2>3. CASE j = Len(s) + 1
    BY <1>1, <2>1, <2>3 DEF q, AllPrecede
  <2> QED
    BY <1>1, <2>2, <2>3 DEF q
<1> QED
  BY <1>2 DEF InOrderOf, q

(* Taking the first element, or any one, leaves the others in order.       *)
LEMMA OrderTail ==
  ASSUME NEW A, NEW s \in Seq(Envelopes), s # <<>>, InOrderOf(A, s)
  PROVE  InOrderOf(A, Tail(s)) /\ AllPrecede(A, {Head(s)}, ToSet(Tail(s)))
<1>1. /\ Len(s) \in Nat \ {0} /\ DOMAIN s = 1..Len(s) /\ Head(s) = s[1]
      /\ DOMAIN Tail(s) = 1..(Len(s) - 1)
      /\ \A i \in 1..(Len(s) - 1) : Tail(s)[i] = s[i + 1]
  BY HeadTailProperties
<1>2. ASSUME NEW i \in 1..(Len(s) - 1), NEW j \in 1..(Len(s) - 1), i < j
      PROVE  Precedes(A, Tail(s)[i], Tail(s)[j])
  <2>1. i + 1 \in DOMAIN s /\ j + 1 \in DOMAIN s /\ i + 1 < j + 1
    BY <1>1, <1>2
  <2>2. Precedes(A, s[i + 1], s[j + 1])
    BY <2>1 DEF InOrderOf
  <2> QED
    BY <1>1, <2>2
<1>3. ASSUME NEW j \in 1..(Len(s) - 1) PROVE Precedes(A, Head(s), Tail(s)[j])
  <2>1. 1 \in DOMAIN s /\ j + 1 \in DOMAIN s /\ 1 < j + 1
    BY <1>1
  <2>2. Precedes(A, s[1], s[j + 1])
    BY <2>1 DEF InOrderOf
  <2> QED
    BY <1>1, <2>2
<1> QED
  BY <1>1, <1>2, <1>3 DEF InOrderOf, AllPrecede, ToSet

LEMMA OrderRemoveAt ==
  ASSUME NEW A, NEW s \in Seq(Envelopes), NEW i \in DOMAIN s, InOrderOf(A, s)
  PROVE  InOrderOf(A, RemoveAt(s, i))
<1> DEFINE r == RemoveAt(s, i)
<1>1. /\ Len(s) \in Nat \ {0} /\ DOMAIN s = 1..Len(s) /\ i \in 1..Len(s)
      /\ DOMAIN r = 1..(Len(s) - 1)
      /\ \A j \in 1..(Len(s) - 1) : r[j] = IF j < i THEN s[j] ELSE s[j + 1]
  BY RemoveAtIndex
<1> HIDE DEF r
<1>2. ASSUME NEW j \in 1..(Len(s) - 1), NEW k \in 1..(Len(s) - 1), j < k
      PROVE  Precedes(A, r[j], r[k])
  <2>1. PICK m \in DOMAIN s, n \in DOMAIN s : m < n /\ r[j] = s[m] /\ r[k] = s[n]
    <3> DEFINE at(x) == IF x < i THEN x ELSE x + 1
    <3>1. at(j) \in DOMAIN s /\ at(k) \in DOMAIN s /\ at(j) < at(k)
      BY <1>1, <1>2
    <3>2. r[j] = s[at(j)] /\ r[k] = s[at(k)]
      BY <1>1, <1>2
    <3> QED
      BY <3>1, <3>2
  <2> QED
    BY <2>1 DEF InOrderOf
<1> QED
  BY <1>1, <1>2 DEF InOrderOf, r

LEMMA OrderOne ==
  ASSUME NEW A, NEW s \in Seq(Envelopes)
  PROVE  /\ InOrderOf(A, <<>>)
         /\ s # <<>> => InOrderOf(A, SubSeq(s, 1, 1))
<1>1. InOrderOf(A, <<>>)
  BY DEF InOrderOf
<1>2. ASSUME s # <<>> PROVE InOrderOf(A, SubSeq(s, 1, 1))
  <2>1. DOMAIN SubSeq(s, 1, 1) = {1}
    <3>1. Len(s) >= 1
      BY <1>2
    <3> QED
      BY <3>1, SubSeqProperties
  <2> QED
    BY <2>1 DEF InOrderOf
<1> QED
  BY <1>1, <1>2

-----------------------------------------------------------------------------
(***************************************************************************)
(* What is spoken comes before what a drive is about to speak, and that    *)
(* before the mailbox.                                                     *)
(***************************************************************************)
Ahead(d) ==
  ToSet(taken[d]) \cup (IF pc[d] \in {"opening", "preparing"} THEN consumed[d] ELSE {})

(* A the arrivals, S the spoken, M the mailbox, t and H ahead of a drive.  *)
Ends(A, S, M) ==
  /\ InOrderOf(A, S) /\ InOrderOf(A, M) /\ AllPrecede(A, ToSet(S), ToSet(M))
  /\ ToSet(S) \subseteq ToSet(A) /\ ToSet(M) \subseteq ToSet(A)

Between(A, S, M, t, H) ==
  /\ InOrderOf(A, t) /\ H \subseteq ToSet(A)
  /\ AllPrecede(A, ToSet(S), H) /\ AllPrecede(A, H, ToSet(M))

Sequence ==
  /\ Ends(arrived, spoken, mailbox)
  /\ \A d \in Drives : Between(arrived, spoken, mailbox, taken[d], Ahead(d))

LEMMA NothingBetween == \A A, S, M : Between(A, S, M, <<>>, {})
BY DEF Between, InOrderOf, AllPrecede

(* A mailbox that loses envelopes, in order.                               *)
LEMMA FewerBehind ==
  ASSUME NEW A, NEW S, NEW M, NEW N, ToSet(N) \subseteq ToSet(M), InOrderOf(A, N), Ends(A, S, M)
  PROVE  /\ Ends(A, S, N)
         /\ \A t, H : Between(A, S, M, t, H) => Between(A, S, N, t, H)
BY DEF Ends, Between, AllPrecede

(* A post arrives.                                                         *)
LEMMA PostInOrder ==
  ASSUME NEW A \in Seq(Envelopes), NEW S, NEW M \in Seq(Envelopes), NEW e \in Envelopes,
         Ends(A, S, M)
  PROVE  /\ Ends(Append(A, e), S, Append(M, e))
         /\ \A t, H : Between(A, S, M, t, H) => Between(Append(A, e), S, Append(M, e), t, H)
<1> DEFINE B == Append(A, e)
           N == Append(M, e)
<1>1. ToSet(B) = ToSet(A) \cup {e} /\ ToSet(N) = ToSet(M) \cup {e}
  BY AppendToSet
<1>2. /\ \A a, b : Precedes(A, a, b) => Precedes(B, a, b)
      /\ \A a \in ToSet(A) : Precedes(B, a, e)
  BY ArrivalPrecedes
<1>3. InOrderOf(B, M) /\ AllPrecede(B, ToSet(M), {e})
  BY <1>2 DEF Ends, InOrderOf, AllPrecede
<1>4. InOrderOf(B, N)
  BY <1>3, OrderAppend
<1> HIDE DEF B, N
<1>5. Ends(B, S, N)
  BY <1>1, <1>2, <1>4 DEF Ends, InOrderOf, AllPrecede
<1>6. ASSUME NEW t, NEW H, Between(A, S, M, t, H) PROVE Between(B, S, N, t, H)
  <2>1. InOrderOf(B, t)
    BY <1>2, <1>6 DEF Between, InOrderOf
  <2> QED
    BY <1>1, <1>2, <1>6, <2>1 DEF Between, AllPrecede
<1> QED
  BY <1>5, <1>6 DEF B, N

(* A message ahead is spoken.                                              *)
LEMMA SpeakInOrder ==
  ASSUME NEW A, NEW S \in Seq(Envelopes), NEW M, NEW t, NEW H, NEW e \in H, e \in Envelopes,
         NEW u, NEW G, Ends(A, S, M), Between(A, S, M, t, H),
         G \subseteq H, AllPrecede(A, {e}, G), InOrderOf(A, u)
  PROVE  Ends(A, Append(S, e), M) /\ Between(A, Append(S, e), M, u, G)
<1>1. ToSet(Append(S, e)) = ToSet(S) \cup {e}
  BY AppendToSet
<1>2. AllPrecede(A, ToSet(S), {e})
  BY DEF Between, AllPrecede
<1>3. InOrderOf(A, Append(S, e))
  BY <1>2, OrderAppend DEF Ends
<1> DEFINE Z == Append(S, e)
<1> HIDE DEF Z
<1>4. /\ ToSet(Z) = ToSet(S) \cup {e} /\ InOrderOf(A, Z)
  BY <1>1, <1>3 DEF Z
<1>5. Ends(A, Z, M)
  BY <1>4 DEF Ends, Between, AllPrecede
<1>6. Between(A, Z, M, u, G)
  BY <1>4 DEF Between, AllPrecede
<1> QED
  BY <1>5, <1>6 DEF Z

(* The eldest of the mailbox is ahead of the rest.                         *)
LEMMA TakeInOrder ==
  ASSUME NEW A, NEW S, NEW M \in Seq(Envelopes), M # <<>>, Ends(A, S, M), NEW one,
         one = SubSeq(M, 1, 1)
  PROVE  Ends(A, S, Tail(M)) /\ Between(A, S, Tail(M), one, {Head(M)})
<1>1. InOrderOf(A, Tail(M)) /\ AllPrecede(A, {Head(M)}, ToSet(Tail(M)))
  BY OrderTail DEF Ends
<1>2. Head(M) \in ToSet(M) /\ ToSet(Tail(M)) \subseteq ToSet(M)
  BY HeadAndTailToSet
<1>3. InOrderOf(A, one)
  BY OrderOne
<1>4. Ends(A, S, Tail(M))
  BY <1>1, <1>2 DEF Ends, AllPrecede
<1>5. Between(A, S, Tail(M), one, {Head(M)})
  BY <1>1, <1>2, <1>3 DEF Ends, Between, AllPrecede
<1> QED
  BY <1>4, <1>5

-----------------------------------------------------------------------------
(* Only a drive that is awake has something ahead.                         *)
LEMMA SequenceAt ==
  ASSUME TypeOK, OneDrive, Custody, NEW d \in Drives,
         pc[d] # "idle" \/ \A x \in Drives : pc[x] = "idle",
         \A x \in Drives \ {d} :
           pc'[x] = pc[x] /\ taken'[x] = taken[x],
         Ends(arrived', spoken', mailbox'),
         Between(arrived', spoken', mailbox', taken'[d], Ahead(d)')
  PROVE  Sequence'
<1>1. ASSUME NEW x \in Drives \ {d} PROVE Between(arrived', spoken', mailbox', taken'[x], Ahead(x)')
  <2>1. pc[x] = "idle"
    BY DEF OneDrive
  <2>2. taken[x] = <<>>
    BY <2>1 DEF Custody, Locals, LocalOf
  <2>3. Ahead(x)' = {} /\ taken'[x] = <<>>
    BY <2>1, <2>2, EmptySet DEF Ahead
  <2> QED
    BY <2>3, NothingBetween
<1> QED
  BY <1>1 DEF Sequence

(* A step of a drive that moves no message towards the transcript.         *)
LEMMA SequenceSilent ==
  ASSUME TypeOK, OneDrive, Custody, Sequence, NEW d \in Drives, pc[d] # "idle",
         \A x \in Drives \ {d} :
           pc'[x] = pc[x] /\ taken'[x] = taken[x],
         UNCHANGED <<arrived, spoken, mailbox>>,
         taken'[d] = taken[d] \/ taken'[d] = <<>>, Ahead(d)' \subseteq Ahead(d)
  PROVE  Sequence'
<1>1. InOrderOf(arrived, taken'[d])
  BY NothingBetween DEF Sequence, Between, InOrderOf
<1>2. Between(arrived, spoken, mailbox, taken'[d], Ahead(d)')
  BY <1>1 DEF Sequence, Between, AllPrecede
<1>3. Between(arrived', spoken', mailbox', taken'[d], Ahead(d)')
  BY <1>2
<1>4. Ends(arrived', spoken', mailbox')
  BY DEF Sequence
<1> QED
  BY <1>3, <1>4, SequenceAt

(* A step of a caller that takes envelopes back.                           *)
LEMMA SequenceOutside ==
  ASSUME Sequence, UNCHANGED <<arrived, spoken, pc, taken, consumed>>,
         ToSet(mailbox') \subseteq ToSet(mailbox), InOrderOf(arrived, mailbox')
  PROVE  Sequence'
<1>1. \A d \in Drives : Ahead(d)' = Ahead(d)
  BY DEF Ahead
<1> DEFINE N == mailbox'
<1>2. Ends(arrived, spoken, N)
      /\ \A t, H : Between(arrived, spoken, mailbox, t, H) => Between(arrived, spoken, N, t, H)
  <2> HIDE DEF N
  <2>1. ToSet(N) \subseteq ToSet(mailbox) /\ InOrderOf(arrived, N)
    BY DEF N
  <2> QED
    BY <2>1, FewerBehind DEF Sequence
<1> QED
  BY <1>1, <1>2 DEF Sequence

(* The head of the drive's loop.                                           *)
LEMMA SequenceLoop ==
  ASSUME TypeOK, OneDrive, Custody, Sequence, NEW d \in Drives, NEW now, Loop(d, now),
         pc[d] # "idle" \/ \A x \in Drives : pc[x] = "idle",
         UNCHANGED <<arrived, spoken>>
  PROVE  Sequence'
<1>1. /\ pc'[d] = "took"
      /\ \A x \in Drives \ {d} : pc'[x] = pc[x] /\ taken'[x] = taken[x]
      /\ taken'[d] = SubSeq(mailbox, 1, IF mailbox = <<>> THEN 0 ELSE 1)
      /\ mailbox' = IF mailbox = <<>> THEN <<>> ELSE Tail(mailbox)
      /\ mailbox \in Seq(Envelopes)
  BY DEF Loop, TakeOne, TypeOK
<1>2. Ahead(d)' = ToSet(taken'[d])
  BY <1>1 DEF Ahead
<1>3. CASE mailbox = <<>>
  <2>1. taken'[d] = <<>> /\ mailbox' = mailbox
    BY <1>1, <1>3, SubSeqEmpty
  <2>2. Ahead(d)' = {}
    BY <1>2, <2>1, EmptySet
  <2>3. Between(arrived', spoken', mailbox', taken'[d], Ahead(d)')
    BY <2>1, <2>2, NothingBetween
  <2>4. Ends(arrived', spoken', mailbox')
    BY <2>1 DEF Sequence
  <2> QED
    BY <1>1, <2>3, <2>4, SequenceAt
<1>4. CASE mailbox # <<>>
  <2> DEFINE one == SubSeq(mailbox, 1, 1)
  <2>1. taken'[d] = one /\ mailbox' = Tail(mailbox)
    BY <1>1, <1>4
  <2>2. ToSet(one) = {Head(mailbox)}
    BY <1>1, <1>4, OneToSet
  <2>3. Ends(arrived, spoken, Tail(mailbox))
        /\ Between(arrived, spoken, Tail(mailbox), one, {Head(mailbox)})
    BY <1>1, <1>4, TakeInOrder DEF Sequence
  <2>4. Ahead(d)' = {Head(mailbox)}
    BY <1>2, <2>1, <2>2
  <2>5. Ends(arrived', spoken', mailbox')
    BY <2>1, <2>3
  <2>6. Between(arrived', spoken', mailbox', taken'[d], Ahead(d)')
    BY <2>1, <2>3, <2>4
  <2> QED
    BY <1>1, <2>5, <2>6, SequenceAt
<1> QED
  BY <1>3, <1>4

LEMMA SequenceNext ==
  TypeOK /\ OneDrive /\ Custody /\ Sequence /\ [Next]_vars => Sequence'
<1> SUFFICES ASSUME TypeOK, OneDrive, Custody, Sequence, [Next]_vars PROVE Sequence'
  OBVIOUS
<1> USE DEF vars, drives, callers, history, shared
<1>0. /\ mailbox \in Seq(Envelopes) /\ NoRepeat(mailbox) /\ arrived \in Seq(Envelopes)
      /\ spoken \in Seq(Envelopes) /\ Ends(arrived, spoken, mailbox)
  BY DEF TypeOK, Custody, Sequence
<1>1. CASE UNCHANGED <<arrived, spoken, mailbox, pc, taken, consumed>>
  BY <1>1 DEF Sequence, Ahead
<1>2. ASSUME NEW e \in Envelopes, Post(e) PROVE Sequence'
  <2>1. /\ mailbox' = Append(mailbox, e) /\ arrived' = Append(arrived, e)
        /\ UNCHANGED <<pc, taken, consumed, spoken>>
    BY <1>2 DEF Post
  <2>2. /\ Ends(Append(arrived, e), spoken, Append(mailbox, e))
        /\ \A t, H : Between(arrived, spoken, mailbox, t, H)
                       => Between(Append(arrived, e), spoken, Append(mailbox, e), t, H)
    BY <1>0, PostInOrder
  <2>3. \A d \in Drives : Ahead(d)' = Ahead(d)
    BY <2>1 DEF Ahead
  <2> QED
    BY <2>1, <2>2, <2>3 DEF Sequence
<1>3. ASSUME NEW e \in Envelopes, Posted(e) PROVE Sequence'
  <2>1. CASE running
    BY <1>1, <1>3, <2>1 DEF Posted
  <2>2. CASE ~running
    <3>1. PICK d \in Drives : pc[d] = "idle" /\ Loop(d, posted')
      BY <1>3, <2>2 DEF Posted
    <3>2. \A x \in Drives : pc[x] = "idle"
      BY <2>2 DEF OneDrive
    <3>3. UNCHANGED <<arrived, spoken>>
      BY <1>3 DEF Posted
    <3> QED
      BY <3>1, <3>2, <3>3, SequenceLoop
  <2> QED
    BY <2>1, <2>2
<1>4. ASSUME NEW e \in Envelopes, Withdraw(e) PROVE Sequence'
  <2>1. PICK i \in DOMAIN mailbox : mailbox' = RemoveAt(mailbox, i)
    BY <1>4 DEF Withdraw
  <2>2. ToSet(mailbox') \subseteq ToSet(mailbox)
    BY <1>0, <2>1, RemoveAtToSet
  <2>3. InOrderOf(arrived, mailbox')
    BY <1>0, <2>1, OrderRemoveAt DEF Ends
  <2>4. UNCHANGED <<arrived, spoken, pc, taken, consumed>>
    BY <1>4 DEF Withdraw
  <2> QED
    BY <2>2, <2>3, <2>4, SequenceOutside
<1>5. ASSUME NEW e \in Envelopes, Withdrawn(e) PROVE Sequence'
  BY <1>1, <1>5 DEF Withdrawn
<1>6. ASSUME NEW c \in Cancellers, Cancel(c) \/ Cancelled(c) PROVE Sequence'
  <2>1. /\ mailbox' = <<>> \/ mailbox' = mailbox
        /\ UNCHANGED <<arrived, spoken, pc, taken, consumed>>
    BY <1>6 DEF Cancel, Cancelled
  <2>2. CASE mailbox' = <<>>
    <3>1. ToSet(mailbox') \subseteq ToSet(mailbox) /\ InOrderOf(arrived, mailbox')
      BY <2>2, EmptySet DEF InOrderOf
    <3> QED
      BY <2>1, <3>1, SequenceOutside
  <2> QED
    BY <1>1, <2>1, <2>2
<1>7. ASSUME NEW d \in Drives, LookAgain(d) \/ GoRound(d) PROVE Sequence'
  <2>1. Loop(d, posted) /\ pc[d] # "idle" /\ UNCHANGED <<arrived, spoken>>
    BY <1>7 DEF LookAgain, GoRound
  <2> QED
    BY <2>1, SequenceLoop
<1>8. ASSUME NEW d \in Drives, Inbox(d) PROVE Sequence'
  <2>1. /\ pc[d] = "step" /\ pc'[d] = "inbox" /\ taken'[d] = mailbox /\ mailbox' = <<>>
        /\ \A x \in Drives \ {d} : pc'[x] = pc[x] /\ taken'[x] = taken[x]
        /\ UNCHANGED <<arrived, spoken>>
    BY <1>8 DEF Inbox, Goto, TypeOK
  <2>2. Ahead(d)' = ToSet(mailbox)
    BY <2>1 DEF Ahead
  <2>3. Ends(arrived, spoken, <<>>)
    BY <1>0, EmptySet DEF Ends, InOrderOf, AllPrecede
  <2>4. Between(arrived, spoken, <<>>, mailbox, ToSet(mailbox))
    BY <1>0, EmptySet DEF Ends, Between, AllPrecede
  <2>5. Ends(arrived', spoken', mailbox')
    BY <2>1, <2>3
  <2>6. Between(arrived', spoken', mailbox', taken'[d], Ahead(d)')
    BY <2>1, <2>2, <2>4
  <2> QED
    BY <2>1, <2>5, <2>6, SequenceAt
<1>9. ASSUME NEW d \in Drives, AppendOpening(d) PROVE Sequence'
  <2>1. PICK e \in consumed[d] : spoken' = Append(spoken, e)
    BY <1>9 DEF AppendOpening
  <2>2. /\ pc[d] = "preparing" /\ pc'[d] = "reading" /\ UNCHANGED <<arrived, mailbox, taken>>
        /\ \A x \in Drives \ {d} : pc'[x] = pc[x] /\ taken'[x] = taken[x]
    BY <1>9 DEF AppendOpening, Goto, TypeOK
  <2>3. taken[d] = <<>> /\ taken'[d] = <<>>
    BY <2>2 DEF Custody, Locals, LocalOf
  <2>4. Ahead(d) = consumed[d] /\ Ahead(d)' = {}
    BY <2>2, <2>3, EmptySet DEF Ahead
  <2>5. e \in Ahead(d) /\ e \in Envelopes
    BY <2>4 DEF TypeOK
  <2>6. Ends(arrived, Append(spoken, e), mailbox)
    <3>1. Between(arrived, spoken, mailbox, taken[d], Ahead(d))
      BY DEF Sequence
    <3>2. AllPrecede(arrived, {e}, {}) /\ InOrderOf(arrived, <<>>) /\ {} \subseteq Ahead(d)
      BY DEF AllPrecede, InOrderOf
    <3> HIDE DEF Ahead
    <3> QED
      BY <1>0, <2>5, <3>1, <3>2, SpeakInOrder
  <2>7. Ends(arrived', spoken', mailbox')
    BY <2>1, <2>2, <2>6
  <2>8. Between(arrived', spoken', mailbox', taken'[d], Ahead(d)')
    BY <2>3, <2>4, NothingBetween
  <2> QED
    BY <2>2, <2>7, <2>8, SequenceAt
<1>10. ASSUME NEW d \in Drives, Steer(d) PROVE Sequence'
  <2> DEFINE e == Head(taken[d])
  <2>1. /\ pc[d] = "steering" /\ taken[d] # <<>> /\ spoken' = Append(spoken, e)
        /\ pc'[d] \in {"finished", "step", "steering"}
        /\ taken'[d] = <<>> \/ taken'[d] = Tail(taken[d])
        /\ UNCHANGED <<arrived, mailbox>> /\ taken[d] \in Seq(Envelopes)
        /\ \A x \in Drives \ {d} : pc'[x] = pc[x] /\ taken'[x] = taken[x]
    BY <1>10 DEF Steer, TypeOK
  <2>2. ToSet(taken[d]) = {e} \cup ToSet(Tail(taken[d]))
    BY <2>1, HeadAndTailToSet
  <2>3. Ahead(d) = ToSet(taken[d]) /\ Ahead(d)' = ToSet(taken'[d])
    BY <2>1 DEF Ahead
  <2>4. Between(arrived, spoken, mailbox, taken[d], Ahead(d))
    BY DEF Sequence
  <2>5. InOrderOf(arrived, Tail(taken[d])) /\ AllPrecede(arrived, {e}, ToSet(Tail(taken[d])))
    BY <2>1, <2>4, OrderTail DEF Between
  <2>6. /\ InOrderOf(arrived, taken'[d]) /\ AllPrecede(arrived, {e}, ToSet(taken'[d]))
        /\ ToSet(taken'[d]) \subseteq Ahead(d)
    <3>1. CASE taken'[d] = <<>>
      BY <3>1, EmptySet DEF InOrderOf, AllPrecede
    <3>2. CASE taken'[d] = Tail(taken[d])
      BY <2>2, <2>3, <2>5, <3>2
    <3> QED
      BY <2>1, <3>1, <3>2
  <2>7. e \in Ahead(d) /\ e \in Envelopes
    BY <2>1, <2>2, <2>3
  <2> DEFINE u == taken'[d]
  <2>8. Ends(arrived, Append(spoken, e), mailbox)
        /\ Between(arrived, Append(spoken, e), mailbox, u, ToSet(u))
    <3>1. InOrderOf(arrived, u) /\ AllPrecede(arrived, {e}, ToSet(u)) /\ ToSet(u) \subseteq Ahead(d)
      BY <2>6
    <3> HIDE DEF e, u, Ahead
    <3> QED
      BY <1>0, <2>4, <2>7, <3>1, SpeakInOrder
  <2>9. Ends(arrived', spoken', mailbox')
    BY <2>1, <2>8
  <2>10. Between(arrived', spoken', mailbox', taken'[d], Ahead(d)')
    BY <2>1, <2>3, <2>8
  <2> QED
    BY <2>1, <2>9, <2>10, SequenceAt
<1>11. ASSUME NEW d \in Drives, NEW why \in {"overrun", "caller"}, Cut(d, why) PROVE Sequence'
  BY <1>1, <1>11 DEF Cut
<1>12. ASSUME NEW d \in Drives, OpenTurn(d) PROVE Sequence'
  <2>1. /\ pc[d] = "took" /\ taken[d] # <<>> /\ taken'[d] = <<>>
        /\ consumed'[d] = {Head(taken[d])} /\ taken[d] \in Seq(Envelopes)
        /\ UNCHANGED <<arrived, spoken, mailbox>>
        /\ \A x \in Drives \ {d} : pc'[x] = pc[x] /\ taken'[x] = taken[x]
    BY <1>12 DEF OpenTurn, Goto, TypeOK
  <2>2. Head(taken[d]) \in ToSet(taken[d])
    BY <2>1, HeadAndTailToSet
  <2>3. Ahead(d)' \subseteq Ahead(d)
    BY <2>1, <2>2, EmptySet DEF Ahead
  <2> QED
    BY <2>1, <2>3, SequenceSilent
<1>13. ASSUME NEW d \in Drives,
             \/ Rest(d) \/ Start(d) \/ Prepared(d) \/ PrepareFails(d) \/ InboxTaken(d)
             \/ FailedSettles(d) \/ HaltedSettles(d) \/ HaltedThrows(d)
             \/ \E what \in {"answer", "held", "stopped", "failed"} : Finish(d, what)
             \/ Record(d) \/ Recorded(d) \/ Close(d)
      PROVE  Sequence'
  <2>1. pc[d] # "idle" /\ UNCHANGED <<arrived, spoken, mailbox, taken>>
    BY <1>13 DEF Rest, Start, Prepared, PrepareFails, InboxTaken, FailedSettles, HaltedSettles,
       HaltedThrows, Finish, Record, Recorded, Close, EndTurn, Goto, Opening
  <2>2. pc \in [Drives -> Places]
    BY DEF TypeOK
  <2>3. \/ pc[d] = "opening" /\ pc' = [pc EXCEPT ![d] = "preparing"]
        \/ \E to : to \notin {"opening", "preparing"} /\ pc' = [pc EXCEPT ![d] = to]
    <3>1. CASE Start(d) \/ Rest(d) \/ Prepared(d) \/ PrepareFails(d)
      BY <3>1 DEF Start, Rest, Prepared, PrepareFails, Goto
    <3>2. CASE InboxTaken(d) \/ Record(d) \/ Recorded(d)
               \/ \E what \in {"answer", "held", "stopped", "failed"} : Finish(d, what)
      BY <3>2 DEF InboxTaken, Record, Recorded, Finish, Goto
    <3>3. CASE FailedSettles(d) \/ HaltedSettles(d) \/ HaltedThrows(d) \/ Close(d)
      BY <3>3 DEF FailedSettles, HaltedSettles, HaltedThrows, Close, Goto
    <3> QED
      BY <1>13, <3>1, <3>2, <3>3
  <2>4. \A x \in Drives \ {d} : pc'[x] = pc[x]
    BY <2>2, <2>3
  <2>5. Ahead(d)' \subseteq Ahead(d)
    <3>1. CASE pc[d] = "opening" /\ pc' = [pc EXCEPT ![d] = "preparing"]
      <4>1. Start(d)
        BY <1>13, <3>1, <2>2 DEF Rest, Start, Prepared, PrepareFails, InboxTaken, FailedSettles,
           HaltedSettles, HaltedThrows, Finish, Record, Recorded, Close, Goto
      <4> QED
        BY <2>1, <3>1, <4>1 DEF Start, Ahead
    <3>2. CASE \E to : to \notin {"opening", "preparing"} /\ pc' = [pc EXCEPT ![d] = to]
      BY <2>1, <2>2, <3>2 DEF Ahead
    <3> QED
      BY <2>3, <3>1, <3>2
  <2> QED
    BY <2>1, <2>4, <2>5, SequenceSilent
<1> QED
  BY <1>1, <1>2, <1>3, <1>4, <1>5, <1>6, <1>7, <1>8, <1>9, <1>10, <1>11, <1>12, <1>13
     DEF Next, Continue

LEMMA SequenceInit == Init => Sequence
<1> SUFFICES ASSUME Init PROVE Sequence
  OBVIOUS
<1>1. Ends(arrived, spoken, mailbox)
  BY EmptySet DEF Init, Ends, InOrderOf, AllPrecede
<1>2. \A d \in Drives : taken[d] = <<>> /\ Ahead(d) = {}
  BY EmptySet DEF Init, Ahead
<1> QED
  BY <1>1, <1>2, NothingBetween DEF Sequence

(* The transcript has the posts in the order in which they arrived, for    *)
(* any number of them: those that open a turn (thread.ts:211) and those a  *)
(* turn is steered with (thread.ts:296) never overtake each other.         *)
THEOREM SpokenAsPosted == Spec => []SpokenInOrder
<1>1. Init => TypeOK /\ HaltedAborted /\ OneDrive /\ Custody /\ Settlement /\ Sequence
  BY InitType, CustodyInit, SequenceInit DEF Init, HaltedAborted, OneDrive
<1>2. Sequence => SpokenInOrder
  BY DEF Sequence, Ends, InOrderOf, Precedes, SpokenInOrder
<1> QED
  BY <1>1, <1>2, HaltedNext, NextType, OneDriveNext, CustodyNext, SettlementNext, SequenceNext,
     PTL DEF Spec

-----------------------------------------------------------------------------
(***************************************************************************)
(* The thread implements Delivery: every step is a step of Delivery, or    *)
(* leaves what Delivery speaks of as it is.                                *)
(***************************************************************************)
Active   == UNION {Holding(d) : d \in Drives}
Answered == {e \in Envelopes : ended[e] # "open"}

DeliveryStep == [Promised!Next]_(Promised!vars)

(* What is in the one hand of the drive that is awake is what is active.   *)
LEMMA ActiveAt ==
  ASSUME OneDrive, Custody, NEW d \in Drives,
         pc[d] # "idle" \/ \A x \in Drives : pc[x] = "idle",
         \A x \in Drives \ {d} :
           pc'[x] = pc[x] /\ taken'[x] = taken[x] /\ consumed'[x] = consumed[x]
  PROVE  Active = Holding(d) /\ Active' = Holding(d)'
<1>1. ASSUME NEW x \in Drives \ {d} PROVE Holding(x) = {} /\ Holding(x)' = {}
  <2>1. pc[x] = "idle"
    BY DEF OneDrive
  <2>2. consumed[x] = {}
    BY <2>1 DEF Custody, Locals, LocalOf
  <2> QED
    BY <2>1, <2>2 DEF Holding
<1>2. Active = Holding(d)
  BY <1>1 DEF Active
<1>3. Active' = UNION {Holding(x)' : x \in Drives}
  BY DEF Active
<1>4. Active' = Holding(d)'
  BY <1>1, <1>3
<1> QED
  BY <1>2, <1>4

(* A step that Delivery does not see.                                      *)
LEMMA DeliveryStutters ==
  ASSUME UNCHANGED <<mailbox, ended, stranded>>, Removed' = Removed, Active' = Active
  PROVE  DeliveryStep
BY DEF DeliveryStep, Promised!vars, Active

(* A step that touches no hand.                                            *)
LEMMA DeliveryUntouched ==
  ASSUME UNCHANGED <<mailbox, ended, stranded, withdrawing, dropped, pc, taken, consumed>>
  PROVE  DeliveryStep
<1>1. Removed' = Removed /\ Active' = Active
  BY DEF Removed, Active, Holding
<1> QED
  BY <1>1, DeliveryStutters

(* The drive admits the eldest envelope, if there is one.                  *)
LEMMA DeliveryLoop ==
  ASSUME TypeOK, OneDrive, Custody, NEW d \in Drives, NEW now, Loop(d, now),
         pc[d] # "idle" \/ \A x \in Drives : pc[x] = "idle",
         pc[d] \in {"idle", "looping"} \/ (pc[d] = "took" /\ taken[d] = <<>>),
         UNCHANGED <<consumed, ended, stranded, withdrawing, dropped>>
  PROVE  DeliveryStep
<1>1. /\ pc'[d] = "took" /\ consumed'[d] = {} /\ consumed[d] = {}
      /\ taken'[d] = SubSeq(mailbox, 1, IF mailbox = <<>> THEN 0 ELSE 1)
      /\ mailbox' = IF mailbox = <<>> THEN <<>> ELSE Tail(mailbox)
      /\ mailbox \in Seq(Envelopes)
      /\ \A x \in Drives \ {d} :
           pc'[x] = pc[x] /\ taken'[x] = taken[x] /\ consumed'[x] = consumed[x]
  BY DEF Loop, TakeOne, TypeOK, Custody, Locals, LocalOf
<1>2. Active = Holding(d) /\ Active' = Holding(d)'
  BY <1>1, ActiveAt
<1>3. Active = {} /\ Active' = ToSet(taken'[d])
  BY <1>1, <1>2, EmptySet DEF Holding
<1>4. Removed' = Removed
  BY DEF Removed
<1>5. CASE mailbox = <<>>
  <2>1. taken'[d] = <<>> /\ mailbox' = mailbox
    BY <1>1, <1>5, SubSeqEmpty
  <2> QED
    BY <1>3, <1>4, <2>1, EmptySet, DeliveryStutters
<1>6. CASE mailbox # <<>>
  <2>1. taken'[d] = SubSeq(mailbox, 1, 1) /\ mailbox' = Tail(mailbox)
    BY <1>1, <1>6
  <2>2. Active' = {Head(mailbox)}
    BY <1>1, <1>3, <1>6, <2>1, OneToSet
  <2>3. 1 \in 1..Len(mailbox) /\ Head(mailbox) = mailbox[1] /\ 1 + 1 = 2
    BY <1>1, <1>6
  <2>4. mailbox' = SubSeq(mailbox, 1 + 1, Len(mailbox))
    BY <1>1, <1>6, <2>1, <2>3, TailIsSubSeq
  <2>5. {mailbox[i] : i \in 1..1} = {Head(mailbox)}
    BY <2>3
  <2>6. Promised!Admit(1)
    BY <1>3, <1>4, <2>2, <2>4, <2>5 DEF Promised!Admit, Active
  <2> QED
    BY <2>3, <2>6 DEF DeliveryStep, Promised!Next
<1> QED
  BY <1>5, <1>6

(* A running turn admits the whole mailbox.                                *)
LEMMA DeliveryInbox ==
  ASSUME TypeOK, OneDrive, Custody, NEW d \in Drives, Inbox(d)
  PROVE  DeliveryStep
<1>1. /\ pc[d] = "step" /\ pc'[d] = "inbox" /\ consumed'[d] = consumed[d]
      /\ taken'[d] = mailbox /\ mailbox' = <<>> /\ mailbox \in Seq(Envelopes)
      /\ UNCHANGED <<ended, stranded, withdrawing, dropped>>
      /\ \A x \in Drives \ {d} :
           pc'[x] = pc[x] /\ taken'[x] = taken[x] /\ consumed'[x] = consumed[x]
  BY DEF Inbox, Goto, TypeOK, callers, history
<1>2. Active = Holding(d) /\ Active' = Holding(d)'
  BY <1>1, ActiveAt
<1>3. Active' = Active \cup ToSet(mailbox)
  BY <1>1, <1>2 DEF Holding
<1>4. Removed' = Removed
  BY <1>1 DEF Removed
<1>5. CASE mailbox = <<>>
  BY <1>1, <1>3, <1>4, <1>5, EmptySet, DeliveryStutters
<1>6. CASE mailbox # <<>>
  <2> DEFINE n == Len(mailbox)
  <2>1. n \in Nat /\ n \in 1..Len(mailbox) /\ DOMAIN mailbox = 1..n
    BY <1>1, <1>6
  <2>2. SubSeq(mailbox, n + 1, Len(mailbox)) = <<>>
    BY <2>1, SubSeqEmpty
  <2>3. {mailbox[i] : i \in 1..n} = ToSet(mailbox)
    BY <2>1 DEF ToSet
  <2> HIDE DEF n
  <2>4. Promised!Admit(n)
    BY <1>1, <1>3, <1>4, <2>2, <2>3 DEF Promised!Admit, Active
  <2> QED
    BY <2>1, <2>4 DEF DeliveryStep, Promised!Next
<1> QED
  BY <1>5, <1>6

(* What a release answers, of envelopes that are all tracked.              *)
LEMMA ReleaseAnswers ==
  ASSUME TypeOK, Settlement, NEW es, es \subseteq tracked, NEW why, why # "open", Release(es, why)
  PROVE  Answered' = Answered \cup es
<1>1. \A e \in Envelopes : ended'[e] = IF e \in es THEN why ELSE ended[e]
  BY DEF Release
<1>2. es \subseteq Envelopes
  BY DEF TypeOK
<1> QED
  BY <1>1, <1>2 DEF Answered

(* Whoever took envelopes back tells their posts.                          *)
LEMMA DeliveryTell ==
  ASSUME TypeOK, Custody, Settlement, NEW S, NEW why, why # "open", Release(S, why),
         S \subseteq Removed, Removed' = Removed \ S,
         UNCHANGED <<mailbox, stranded, pc, taken, consumed>>
  PROVE  DeliveryStep
<1>1. S \subseteq tracked
  BY CustodyAccounted DEF Accounted
<1>2. Answered' = Answered \cup S
  BY <1>1, ReleaseAnswers
<1>3. Active' = Active
  BY DEF Active, Holding
<1>4. CASE S = {}
  <2>1. Removed' = Removed /\ Answered' = Answered
    BY <1>2, <1>4
  <2> QED
    BY <1>3, <2>1 DEF DeliveryStep, Promised!vars, Active, Answered
<1>5. CASE S # {}
  <2>1. Promised!Tell(S)
    BY <1>2, <1>3, <1>5 DEF Promised!Tell, Active, Answered
  <2>2. S \in SUBSET Removed
    OBVIOUS
  <2> QED
    BY <2>1, <2>2 DEF DeliveryStep, Promised!Next
<1> QED
  BY <1>4, <1>5

(* A turn that returns concludes.                                          *)
LEMMA DeliveryEnds ==
  ASSUME TypeOK, OneDrive, Custody, Settlement, NEW d \in Drives, NEW why, why # "open",
         EndTurn(d, why), pc[d] \in {"failing", "halted", "recorded"},
         pc' = [pc EXCEPT ![d] = "looping"]
  PROVE  DeliveryStep
<1>1. /\ pc'[d] = "looping" /\ consumed'[d] = {} /\ Release(consumed[d], why)
      /\ UNCHANGED <<mailbox, stranded, withdrawing, dropped>>
      /\ \A x \in Drives \ {d} :
           pc'[x] = pc[x] /\ taken'[x] = taken[x] /\ consumed'[x] = consumed[x]
  BY DEF EndTurn, Forget, TypeOK, callers, history
<1>2. Active = Holding(d) /\ Active' = Holding(d)'
  BY <1>1, ActiveAt
<1>3. Active = consumed[d] /\ Active' = {}
  BY <1>1, <1>2 DEF Holding
<1>4. Removed' = Removed
  BY <1>1 DEF Removed
<1>5. consumed[d] \subseteq tracked
  BY <1>3, CustodyAccounted DEF Accounted, Active
<1>6. Answered' = Answered \cup Active
  BY <1>1, <1>3, <1>5, ReleaseAnswers
<1>7. CASE Active = {}
  <2>1. Answered' = Answered /\ Active' = Active
    BY <1>3, <1>6, <1>7
  <2> QED
    BY <1>1, <1>4, <2>1 DEF DeliveryStep, Promised!vars, Active, Answered
<1>8. CASE Active # {}
  <2>1. Promised!Conclude
    BY <1>1, <1>3, <1>4, <1>6, <1>8 DEF Promised!Conclude, Active, Answered
  <2> QED
    BY <2>1 DEF DeliveryStep, Promised!Next
<1> QED
  BY <1>7, <1>8

(* A turn that throws loses what it held.                                  *)
LEMMA DeliveryLoses ==
  ASSUME TypeOK, OneDrive, Custody, NEW d \in Drives, HaltedThrows(d)
  PROVE  DeliveryStep
<1>1. /\ pc[d] = "halted" /\ pc'[d] = "idle" /\ consumed'[d] = {}
      /\ stranded' = stranded \cup consumed[d]
      /\ UNCHANGED <<mailbox, ended, withdrawing, dropped>>
      /\ \A x \in Drives \ {d} :
           pc'[x] = pc[x] /\ taken'[x] = taken[x] /\ consumed'[x] = consumed[x]
  BY DEF HaltedThrows, Forget, Goto, TypeOK, callers
<1>2. Active = Holding(d) /\ Active' = Holding(d)'
  BY <1>1, ActiveAt
<1>3. Active = consumed[d] /\ Active' = {}
  BY <1>1, <1>2 DEF Holding
<1>4. Removed' = Removed
  BY <1>1 DEF Removed
<1>5. CASE Active = {}
  <2>1. Active' = Active /\ stranded' = stranded
    BY <1>1, <1>3, <1>5
  <2> QED
    BY <1>1, <1>4, <2>1, DeliveryStutters
<1>6. CASE Active # {}
  <2>1. Promised!Lose
    BY <1>1, <1>3, <1>4, <1>6 DEF Promised!Lose, Active
  <2> QED
    BY <2>1 DEF DeliveryStep, Promised!Next
<1> QED
  BY <1>5, <1>6

(* The steps of a turn that move nothing between hands, in its own.        *)
LEMMA TurnHolds ==
  ASSUME TypeOK, Custody, NEW d \in Drives,
         \/ OpenTurn(d) \/ Rest(d) \/ Start(d) \/ AppendOpening(d)
         \/ Prepared(d) \/ PrepareFails(d) \/ InboxTaken(d) \/ Steer(d)
         \/ \E what \in {"answer", "held", "stopped", "failed"} : Finish(d, what)
         \/ Record(d) \/ Recorded(d)
  PROVE  Holding(d)' = Holding(d)
<1> USE DEF callers, history, shared
<1>0. /\ LocalOf(d) /\ taken[d] \in Seq(Envelopes)
      /\ pc \in [Drives -> Places] /\ consumed \in [Drives -> SUBSET Envelopes]
      /\ taken \in [Drives -> Seq(Envelopes)]
  BY DEF Custody, Locals, TypeOK
<1>1. CASE OpenTurn(d)
  <2>1. /\ pc[d] = "took" /\ taken[d] # <<>> /\ pc'[d] = "opening"
        /\ consumed'[d] = {Head(taken[d])}
    BY <1>0, <1>1 DEF OpenTurn, Goto
  <2> QED
    BY <1>0, <2>1 DEF LocalOf, Holding
<1>2. CASE Rest(d)
  <2>1. /\ pc[d] = "took" /\ taken[d] = <<>> /\ pc'[d] = "idle" /\ consumed'[d] = consumed[d]
    BY <1>0, <1>2 DEF Rest, Goto
  <2> QED
    BY <2>1, EmptySet DEF Holding
<1>3. CASE \/ Start(d) \/ AppendOpening(d) \/ Prepared(d) \/ PrepareFails(d)
           \/ \E what \in {"answer", "held", "stopped", "failed"} : Finish(d, what)
           \/ Record(d) \/ Recorded(d)
  <2>1. /\ pc[d] \notin {"took", "inbox"} /\ pc'[d] \notin {"took", "inbox"}
        /\ consumed'[d] = consumed[d]
    BY <1>0, <1>3 DEF Start, AppendOpening, Prepared, PrepareFails, Finish, Record,
       Recorded, Goto, Opening
  <2> QED
    BY <2>1 DEF Holding
<1>4. CASE InboxTaken(d)
  <2>1. /\ pc[d] = "inbox" /\ pc'[d] \notin {"took", "inbox"}
        /\ consumed'[d] = consumed[d] \cup ToSet(taken[d])
    BY <1>0, <1>4 DEF InboxTaken, Goto
  <2> QED
    BY <2>1 DEF Holding
<1>5. CASE Steer(d)
  <2>1. /\ pc[d] = "steering" /\ pc'[d] \notin {"took", "inbox"} /\ consumed'[d] = consumed[d]
    BY <1>0, <1>5 DEF Steer
  <2> QED
    BY <2>1 DEF Holding
<1> QED
  BY <1>1, <1>2, <1>3, <1>4, <1>5

(* The steps of a turn that leave every hand as it is.                     *)
LEMMA DeliveryTurn ==
  ASSUME TypeOK, OneDrive, Custody, NEW d \in Drives,
         \/ OpenTurn(d) \/ Rest(d) \/ Start(d) \/ AppendOpening(d)
         \/ Prepared(d) \/ PrepareFails(d) \/ InboxTaken(d) \/ Steer(d)
         \/ \E what \in {"answer", "held", "stopped", "failed"} : Finish(d, what)
         \/ Record(d) \/ Recorded(d)
  PROVE  DeliveryStep
<1> USE DEF callers, history, shared
<1>0. /\ pc \in [Drives -> Places] /\ consumed \in [Drives -> SUBSET Envelopes]
      /\ taken \in [Drives -> Seq(Envelopes)] /\ LocalOf(d)
  BY DEF TypeOK, Custody, Locals
<1>1. /\ UNCHANGED <<mailbox, ended, stranded, withdrawing, dropped>> /\ pc[d] # "idle"
  BY DEF OpenTurn, Rest, Start, AppendOpening, Prepared, PrepareFails, InboxTaken,
     Steer, Finish, Record, Recorded, Goto, Opening
<1>2. \A x \in Drives \ {d} :
        pc'[x] = pc[x] /\ taken'[x] = taken[x] /\ consumed'[x] = consumed[x]
  BY <1>0 DEF OpenTurn, Rest, Start, AppendOpening, Prepared, PrepareFails,
     InboxTaken, Steer, Finish, Record, Recorded, Goto
<1>3. Holding(d)' = Holding(d)
  BY TurnHolds
<1>4. Active' = Active
  BY <1>1, <1>2, <1>3, ActiveAt
<1>5. Removed' = Removed
  BY <1>1 DEF Removed
<1> QED
  BY <1>1, <1>4, <1>5, DeliveryStutters

LEMMA DeliveryNext ==
  TypeOK /\ OneDrive /\ Custody /\ Settlement /\ [Next]_vars => DeliveryStep
<1> SUFFICES ASSUME TypeOK, OneDrive, Custody, Settlement, [Next]_vars PROVE DeliveryStep
  OBVIOUS
<1> USE DEF vars, drives, callers, history, shared
<1>1. CASE UNCHANGED vars
  BY <1>1, DeliveryUntouched
<1>2. ASSUME NEW e \in Envelopes, Post(e) PROVE DeliveryStep
  <2>1. /\ poster[e] = "new" /\ mailbox' = Append(mailbox, e)
        /\ UNCHANGED <<ended, stranded, withdrawing, dropped, pc, taken, consumed>>
    BY <1>2 DEF Post
  <2>2. e \notin tracked /\ ended[e] = "open"
    BY <2>1 DEF Settlement, SettledOnce
  <2>3. e \notin ToSet(mailbox) \cup Removed \cup stranded \cup Active
    BY <2>2, CustodyAccounted DEF Accounted, Active
  <2>4. e \notin Promised!Known
    BY <2>2, <2>3 DEF Promised!Known, Promised!ToSet, ToSet, Active
  <2>5. Removed' = Removed /\ Active' = Active
    BY <2>1 DEF Removed, Active, Holding
  <2>6. Promised!Submit(e)
    BY <2>1, <2>4, <2>5 DEF Promised!Submit, Active
  <2> QED
    BY <2>6 DEF DeliveryStep, Promised!Next
<1>3. ASSUME NEW e \in Envelopes, Posted(e) PROVE DeliveryStep
  <2>1. UNCHANGED <<consumed, ended, stranded, withdrawing, dropped>>
    BY <1>3 DEF Posted
  <2>2. CASE running
    BY <1>3, <2>1, <2>2, DeliveryUntouched DEF Posted
  <2>3. CASE ~running
    <3>1. PICK d \in Drives : pc[d] = "idle" /\ Loop(d, posted')
      BY <1>3, <2>3 DEF Posted
    <3>2. \A x \in Drives : pc[x] = "idle"
      BY <2>3 DEF OneDrive
    <3> QED
      BY <2>1, <3>1, <3>2, DeliveryLoop
  <2> QED
    BY <2>2, <2>3
<1>4. ASSUME NEW e \in Envelopes, Withdraw(e) PROVE DeliveryStep
  <2>1. PICK i \in DOMAIN mailbox : mailbox[i] = e /\ mailbox' = RemoveAt(mailbox, i)
    BY <1>4 DEF Withdraw
  <2>2. /\ withdrawing' = withdrawing \cup {e}
        /\ UNCHANGED <<ended, stranded, dropped, pc, taken, consumed>>
    BY <1>4 DEF Withdraw
  <2>3. Removed' = Removed \cup {mailbox[i]} /\ Active' = Active
    BY <2>1, <2>2 DEF Removed, Active, Holding
  <2>4. Promised!TakeBack(i)
    BY <2>1, <2>2, <2>3 DEF Promised!TakeBack, Promised!RemoveAt, RemoveAt, Active
  <2> QED
    BY <2>4 DEF DeliveryStep, Promised!Next
<1>5. ASSUME NEW e \in Envelopes, Withdrawn(e) PROVE DeliveryStep
  <2>1. /\ e \in withdrawing /\ withdrawing' = withdrawing \ {e} /\ Release({e}, "withdrawn")
        /\ UNCHANGED <<mailbox, stranded, dropped, pc, taken, consumed>>
    BY <1>5 DEF Withdrawn
  <2>2. \A c \in Cancellers : e \notin dropped[c]
    BY <2>1, CustodyInOneHand DEF InOneHand
  <2>3. {e} \subseteq Removed /\ Removed' = Removed \ {e}
    BY <2>1, <2>2 DEF Removed
  <2> QED
    BY <2>1, <2>3, DeliveryTell
<1>6. ASSUME NEW c \in Cancellers, Cancel(c) PROVE DeliveryStep
  <2>1. /\ canceller[c] = "ready" /\ dropped' = [dropped EXCEPT ![c] = ToSet(mailbox)]
        /\ mailbox' = <<>>
        /\ UNCHANGED <<ended, stranded, withdrawing, pc, taken, consumed>>
    BY <1>6 DEF Cancel
  <2>2. dropped[c] = {}
    BY <2>1 DEF Custody
  <2>3. /\ dropped'[c] = ToSet(mailbox)
        /\ \A x \in Cancellers \ {c} : dropped'[x] = dropped[x]
    BY <2>1 DEF TypeOK
  <2>4. Removed' = Removed \cup ToSet(mailbox) /\ Active' = Active
    BY <2>1, <2>2, <2>3 DEF Removed, Active, Holding
  <2>5. Promised!TakeBackAll
    BY <2>1, <2>4 DEF Promised!TakeBackAll, Promised!ToSet, ToSet, Active
  <2> QED
    BY <2>5 DEF DeliveryStep, Promised!Next
<1>7. ASSUME NEW c \in Cancellers, Cancelled(c) PROVE DeliveryStep
  <2>1. /\ dropped' = [dropped EXCEPT ![c] = {}] /\ Release(dropped[c], c)
        /\ UNCHANGED <<mailbox, stranded, withdrawing, pc, taken, consumed>>
    BY <1>7 DEF Cancelled
  <2>2. /\ dropped'[c] = {} /\ \A x \in Cancellers \ {c} : dropped'[x] = dropped[x]
    BY <2>1 DEF TypeOK
  <2>3. /\ dropped[c] \cap withdrawing = {}
        /\ \A x \in Cancellers \ {c} : dropped[x] \cap dropped[c] = {}
    BY CustodyInOneHand DEF InOneHand
  <2>4. dropped[c] \subseteq Removed /\ Removed' = Removed \ dropped[c]
    BY <2>1, <2>2, <2>3 DEF Removed
  <2>5. c # "open"
    BY CancellersAssumption
  <2> QED
    BY <2>1, <2>4, <2>5, DeliveryTell
<1>8. ASSUME NEW d \in Drives, LookAgain(d) \/ GoRound(d) PROVE DeliveryStep
  <2>1. /\ Loop(d, posted)
        /\ pc[d] = "looping" \/ (pc[d] = "took" /\ taken[d] = <<>>)
        /\ UNCHANGED <<consumed, ended, stranded, withdrawing, dropped>>
    BY <1>8 DEF LookAgain, GoRound
  <2> QED
    BY <2>1, DeliveryLoop
<1>9. ASSUME NEW d \in Drives, FailedSettles(d) \/ HaltedSettles(d) \/ Close(d)
      PROVE  DeliveryStep
  <2>1. signal[d] # "open" /\ outcome[d] # "open"
    BY CancellersAssumption DEF TypeOK
  <2>2. /\ pc[d] \in {"failing", "halted", "recorded"} /\ pc' = [pc EXCEPT ![d] = "looping"]
        /\ \E why \in {"failed", signal[d], outcome[d]} : EndTurn(d, why)
    BY <1>9 DEF FailedSettles, HaltedSettles, Close, Goto
  <2> QED
    BY <2>1, <2>2, DeliveryEnds
<1>10. ASSUME NEW d \in Drives, NEW why \in {"overrun", "caller"}, Cut(d, why) PROVE DeliveryStep
  BY <1>10, DeliveryUntouched DEF Cut
<1>11. ASSUME NEW d \in Drives, Inbox(d) \/ HaltedThrows(d) PROVE DeliveryStep
  BY <1>11, DeliveryInbox, DeliveryLoses
<1>12. ASSUME NEW d \in Drives,
             \/ OpenTurn(d) \/ Rest(d) \/ Start(d) \/ AppendOpening(d)
             \/ Prepared(d) \/ PrepareFails(d) \/ InboxTaken(d) \/ Steer(d)
             \/ \E what \in {"answer", "held", "stopped", "failed"} : Finish(d, what)
             \/ Record(d) \/ Recorded(d)
      PROVE  DeliveryStep
  BY <1>12, DeliveryTurn
<1> QED
  BY <1>1, <1>2, <1>3, <1>4, <1>5, <1>6, <1>7, <1>8, <1>9, <1>10, <1>11, <1>12
     DEF Next, Continue

LEMMA DeliveryInit == Init => Promised!Init
<1> SUFFICES ASSUME Init PROVE Promised!Init
  OBVIOUS
<1>1. \A d \in Drives : Holding(d) = {}
  BY EmptySet DEF Init, Holding
<1>2. \A c \in Cancellers : dropped[c] = {}
  BY DEF Init
<1> QED
  BY <1>1, <1>2 DEF Init, Promised!Init, Removed

(* The thread implements Delivery, step by step: whatever is suspended,    *)
(* whoever posts, withdraws or cancels meanwhile, envelopes are admitted   *)
(* from the front of the queue and settled together by the turn that       *)
(* admitted them, or taken back and told so (thread.ts:174, :192, :207).   *)
THEOREM ThreadDelivers == Spec => ImplementsDelivery
<1>1. Init => TypeOK /\ HaltedAborted /\ OneDrive /\ Custody /\ Settlement
  BY InitType, CustodyInit DEF Init, HaltedAborted, OneDrive
<1>2. TypeOK /\ OneDrive /\ Custody /\ Settlement /\ [Next]_vars => [Promised!Next]_(Promised!vars)
  BY DeliveryNext DEF DeliveryStep
<1> QED
  BY <1>1, <1>2, DeliveryInit, HaltedNext, NextType, OneDriveNext, CustodyNext, SettlementNext,
     PTL DEF Spec, ImplementsDelivery, Promised!Spec
=============================================================================
