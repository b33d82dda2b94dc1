---------------------------- MODULE ChatsProofs -----------------------------
(***************************************************************************)
(* Proofs about the status of a chat, for all leases and bounds, and turns *)
(* that take as long as they like.                                         *)
(***************************************************************************)
EXTENDS Chats, TLAPS

Phases == {"starting", "running"}

(* What the steps need to know of the values. *)
Typed ==
  /\ clock \in Nat /\ leases \subseteq Nat
  /\ turn = NoTurn \/ turn \in [phase : Phases, from : Nat]

(* The lease in the row of a turn was taken when the turn started, or      *)
(* since; once it has run out, the turn is as old as a lease.              *)
Covered ==
  turn # NoTurn /\ Exists =>
    /\ turn.from <= clock
    /\ \/ status = "streaming" /\ since \in Nat /\ turn.from <= since
       \/ status = "errored" /\ clock >= turn.from + Lease

(* A chat that streams has the lease in its row scheduled. *)
Scheduled == status = "streaming" => since \in leases

(* A chat that streams without a turn had one that was cut off, or was     *)
(* announced by the client.                                                *)
Explained == status = "streaming" /\ turn = NoTurn => lost \/ marked

IInv == Typed /\ Covered /\ Scheduled /\ Explained

-----------------------------------------------------------------------------
(* A turn's phase tells whether there is one. *)
LEMMA PhaseTells ==
  ASSUME Typed
  PROVE  /\ turn.phase = "none" <=> turn = NoTurn
         /\ turn # NoTurn => turn.phase \in Phases /\ turn.from \in Nat
BY DEF Typed, NoTurn, Phases

(* Records that are made of a phase and a time are turns. *)
LEMMA MadeTurn ==
  ASSUME NEW p \in Phases, NEW n \in Nat
  PROVE  /\ [phase |-> p, from |-> n] \in [phase : Phases, from : Nat]
         /\ [phase |-> p, from |-> n] # NoTurn
BY DEF NoTurn, Phases

(* A chat at rest does not stream. *)
LEMMA RestingIsQuiet ==
  ASSUME NEW messages PROVE AtRest(messages) \in {"waiting", "idle"}
BY DEF AtRest

(* ... nor does one that is settled. *)
LEMMA SettledIsQuiet ==
  ASSUME NEW ending \in Endings, SettleChat(ending)
  PROVE  status' \notin {"streaming", "gone"} /\ leases' = leases
BY RestingIsQuiet DEF SettleChat, Endings

(* The lease of a row runs out on a turn that is as old as a lease. *)
LEMMA LeaseOutlasts ==
  ASSUME IInv, turn # NoTurn, status = "streaming", clock >= since + Lease
  PROVE  clock >= turn.from + Lease
<1>1. since \in Nat /\ turn.from <= since BY DEF IInv, Covered, Exists
<1>2. clock \in Nat /\ turn.from \in Nat /\ Lease \in Nat BY PhaseTells, TimeAssumption DEF IInv, Typed
<1> QED BY <1>1, <1>2

-----------------------------------------------------------------------------
(* The steps that do not concern the lease: the row, the turn and the      *)
(* clock stay, and nothing that was cut off is forgotten.                  *)
LEMMA Unconcerned ==
  ASSUME IInv, UNCHANGED <<clock, status, since, leases, turn>>, lost => lost', marked => marked'
  PROVE  IInv'
BY DEF IInv, Typed, Covered, Scheduled, Explained, Exists, NoTurn

(* Chats.start of the client renews the lease. *)
LEMMA MarkKeeps == ASSUME IInv, Mark PROVE IInv'
<1>1. /\ clock \in Nat /\ clock' = clock /\ since' = clock /\ leases' = leases \cup {clock} /\ turn' = turn
      /\ status' = "streaming" /\ Exists
  BY DEF IInv, Typed, Mark, StartChat
<1>2. Typed' BY <1>1 DEF IInv, Typed, NoTurn
<1>3. Covered' BY <1>1 DEF IInv, Covered, NoTurn
<1>4. Scheduled' /\ Explained' BY <1>1 DEF Scheduled, Explained, Mark
<1> QED BY <1>2, <1>3, <1>4 DEF IInv

(* A turn starts under a lease of its own. *)
LEMMA BeginKeeps == ASSUME IInv, Begin PROVE IInv'
<1>1. /\ clock \in Nat /\ clock' = clock /\ since' = clock /\ leases' = leases \cup {clock}
      /\ turn' = [phase |-> "starting", from |-> clock] /\ status' = "streaming"
  BY DEF IInv, Typed, Begin, StartChat
<1>2. "starting" \in Phases BY DEF Phases
<1>3. turn' \in [phase : Phases, from : Nat] /\ turn' # NoTurn BY <1>1, <1>2, MadeTurn
<1>4. Typed' BY <1>1, <1>3 DEF IInv, Typed
<1>5. Covered' BY <1>1 DEF Covered
<1>6. Scheduled' /\ Explained' BY <1>1, <1>3 DEF Scheduled, Explained, NoTurn
<1> QED BY <1>4, <1>5, <1>6 DEF IInv

(* A turn that was prepared is the turn that was started. *)
LEMMA PrepareKeeps == ASSUME IInv, Prepare PROVE IInv'
<1>1. UNCHANGED <<clock, status, since, leases, lost, marked>> /\ turn' = [turn EXCEPT !.phase = "running"]
  BY DEF Prepare, row, hist
<1>2. turn.phase = "starting" /\ turn # NoTurn BY DEF Prepare, NoTurn
<1>3. turn \in [phase : Phases, from : Nat] /\ turn.from \in Nat BY <1>2 DEF IInv, Typed
<1>4. turn' = [phase |-> "running", from |-> turn.from] BY <1>1, <1>3
<1>5. "running" \in Phases BY DEF Phases
<1>6. turn' \in [phase : Phases, from : Nat] /\ turn' # NoTurn BY <1>3, <1>4, <1>5, MadeTurn
<1>7. turn'.from = turn.from BY <1>4
<1>8. Typed' BY <1>1, <1>6 DEF IInv, Typed
<1>9. Covered' BY <1>1, <1>2, <1>7 DEF IInv, Covered, Exists
<1>10. Scheduled' /\ Explained' BY <1>1, <1>6 DEF IInv, Scheduled, Explained, NoTurn
<1> QED BY <1>8, <1>9, <1>10 DEF IInv

(* Without a turn, and not streaming, there is nothing to keep. *)
LEMMA QuietKeeps ==
  ASSUME IInv, turn' = NoTurn, status' # "streaming", clock' = clock, leases' \subseteq leases
  PROVE  IInv'
BY DEF IInv, Typed, Covered, Scheduled, Explained, NoTurn

(* A turn that is settled leaves nothing that streams. *)
LEMMA SettleKeeps == ASSUME IInv, NEW ending \in Endings, Settle(ending) PROVE IInv'
<1>1. turn' = NoTurn /\ clock' = clock BY DEF Settle
<1>2. CASE Exists BY <1>1, <1>2, SettledIsQuiet, QuietKeeps DEF Settle
<1>3. CASE ~Exists BY <1>1, <1>3, QuietKeeps DEF Settle, Exists, row
<1> QED BY <1>2, <1>3

(* A thread whose budget is spent has no turn. *)
LEMMA RefuseKeeps == ASSUME IInv, Refuse PROVE IInv'
<1>1. turn' = NoTurn /\ clock' = clock BY PhaseTells DEF Refuse, MayBegin, IInv
<1>2. "errored" \in Endings /\ SettleChat("errored") BY DEF Refuse, Endings
<1> QED BY <1>1, <1>2, SettledIsQuiet, QuietKeeps

(* What dies without a word is remembered as lost. *)
LEMMA CutOffKeeps ==
  ASSUME IInv, UNCHANGED <<clock, row>>, turn' = NoTurn,
         turn # NoTurn => lost', lost => lost', marked' = marked
  PROVE  IInv'
BY DEF IInv, Typed, Covered, Scheduled, Explained, NoTurn, row

(* A lease that runs out leaves a turn as old as it is, or another's lease *)
(* to run.                                                                 *)
LEMMA ExpireKeeps == ASSUME IInv, NEW taken \in leases, Expire(taken) PROVE IInv'
<1>1. UNCHANGED <<clock, turn, lost, marked>> /\ clock >= taken + Lease /\ leases' = leases \ {taken}
  BY DEF Expire, hist
<1>2. Typed' BY <1>1 DEF IInv, Typed, NoTurn
<1>3. CASE status = "streaming" /\ since = taken
  <2>1. status' = "errored" BY <1>3 DEF Expire
  <2>2. turn # NoTurn => clock >= turn.from + Lease BY <1>1, <1>3, LeaseOutlasts
  <2>3. Covered' BY <1>1, <1>3, <2>1, <2>2 DEF IInv, Covered, Exists, NoTurn
  <2>4. Scheduled' /\ Explained' BY <2>1 DEF Scheduled, Explained
  <2> QED BY <1>2, <2>3, <2>4 DEF IInv
<1>4. CASE ~(status = "streaming" /\ since = taken)
  <2>1. UNCHANGED <<status, since>> BY <1>4 DEF Expire
  <2>2. Covered' BY <1>1, <2>1 DEF IInv, Covered, Exists, NoTurn
  <2>3. Scheduled' /\ Explained' BY <1>1, <1>4, <2>1 DEF IInv, Scheduled, Explained, NoTurn
  <2> QED BY <1>2, <2>2, <2>3 DEF IInv
<1> QED BY <1>3, <1>4

(* Time passes. *)
LEMMA TickKeeps == ASSUME IInv, Tick PROVE IInv'
<1>1. clock' = clock + 1 /\ UNCHANGED <<status, since, leases, turn, lost, marked>>
  BY DEF Tick, row, hist
<1>2. clock \in Nat /\ clock' \in Nat BY <1>1 DEF IInv, Typed
<1>3. Typed' BY <1>1, <1>2 DEF IInv, Typed, NoTurn
<1>4. Covered'
  <2> SUFFICES ASSUME turn # NoTurn, Exists PROVE Covered' BY <1>1 DEF Covered, Exists, NoTurn
  <2>1. turn.from \in Nat /\ Lease \in Nat BY PhaseTells, TimeAssumption DEF IInv
  <2> QED BY <1>1, <1>2, <2>1 DEF IInv, Covered
<1>5. Scheduled' /\ Explained' BY <1>1 DEF IInv, Scheduled, Explained, NoTurn
<1> QED BY <1>3, <1>4, <1>5 DEF IInv

(* An answer settles only what waits, and a turn does not. *)
LEMMA RecordKeeps == ASSUME IInv, NEW a, Record(a) PROVE IInv'
<1>1. UNCHANGED <<clock, since, leases, turn, lost, marked>> BY DEF Record, hist
<1>2. CASE status' = status BY <1>1, <1>2, Unconcerned
<1>3. CASE status' # status
  <2>1. status = "waiting" /\ status' = "idle" BY <1>3 DEF Record
  <2>2. turn = NoTurn BY <2>1 DEF IInv, Covered, Exists
  <2> QED BY <1>1, <2>1, <2>2, QuietKeeps DEF NoTurn
<1> QED BY <1>2, <1>3

-----------------------------------------------------------------------------
(* A new chat is at rest. *)
LEMMA StartsSo == ASSUME Init PROVE IInv
BY DEF Init, IInv, Typed, Covered, Scheduled, Explained, NoTurn

(* Each step is one of the above, or leaves what they concern alone. *)
LEMMA StaysSo == ASSUME IInv, [Next]_vars PROVE IInv'
<1>1. CASE UNCHANGED vars BY <1>1, Unconcerned DEF vars
<1>2. CASE Submit BY <1>2, Unconcerned DEF Submit, row, hist
<1>3. CASE Mark BY <1>3, MarkKeeps
<1>4. CASE Begin BY <1>4, BeginKeeps
<1>5. CASE Refuse BY <1>5, RefuseKeeps
<1>6. CASE Prepare BY <1>6, PrepareKeeps
<1>7. CASE Steer BY <1>7, Unconcerned DEF Steer, row, hist
<1>8. CASE Unsettled BY <1>8, CutOffKeeps DEF Unsettled
<1>9. CASE Crash BY <1>9, CutOffKeeps DEF Crash
<1>10. CASE DropChat
  <2>1. status' = "gone" /\ UNCHANGED <<clock, leases, turn, lost, marked>> BY <1>10 DEF DropChat, hist
  <2> QED BY <2>1 DEF IInv, Typed, Covered, Scheduled, Explained, Exists, NoTurn
<1>11. CASE Tick BY <1>11, TickKeeps
<1>12. ASSUME NEW last \in Ask, Place(last) PROVE IInv' BY <1>12, Unconcerned DEF Place, row
<1>13. ASSUME NEW ending \in Endings, Settle(ending) PROVE IInv' BY <1>13, SettleKeeps
<1>14. ASSUME NEW a \in Ask, FollowUp(a) PROVE IInv' BY <1>14, Unconcerned DEF FollowUp, row, hist
<1>15. ASSUME NEW a \in Ask, Record(a) PROVE IInv' BY <1>15, RecordKeeps
<1>16. ASSUME NEW a \in Ask, NEW as \in {"own", "child"}, Answer(a, as) PROVE IInv'
  BY <1>16, Unconcerned DEF Answer, row, hist
<1>17. ASSUME NEW upTo \in 1..Len(log), Fork(upTo) PROVE IInv'
  <2>1. turn' = NoTurn /\ clock' = clock /\ leases' = {} /\ status' = AtRest(log') BY <1>17 DEF Fork
  <2> QED BY <2>1, RestingIsQuiet, QuietKeeps
<1>18. ASSUME NEW taken \in leases, Expire(taken) PROVE IInv' BY <1>18, ExpireKeeps
<1> QED
  BY <1>1, <1>2, <1>3, <1>4, <1>5, <1>6, <1>7, <1>8, <1>9, <1>10, <1>11, <1>12, <1>13, <1>14,
     <1>15, <1>16, <1>17, <1>18 DEF Next

(* What streams has its lease scheduled, and a turn streams under a lease  *)
(* no older than it is, or is as old as a lease.                           *)
THEOREM LeasesCover == Spec => []IInv
<1>1. Init => IInv BY StartsSo
<1>2. IInv /\ [Next]_vars => IInv' BY StaysSo
<1> QED BY <1>1, <1>2, PTL DEF Spec

(* A turn that runs is shown until it has run for a lease's length         *)
(* (startChat() and expire(), chats.ts:222), whatever earlier leases,      *)
(* answers and messages come in between.                                   *)
THEOREM RunningShown == Spec => []RunningIsShown
<1>1. ASSUME IInv PROVE RunningIsShown
  <2>1. ASSUME turn # NoTurn, Exists, clock < turn.from + Lease PROVE status = "streaming"
    <3>1. clock \in Nat /\ turn.from \in Nat /\ Lease \in Nat
      BY <1>1, <2>1, PhaseTells, TimeAssumption DEF IInv, Typed
    <3> QED BY <1>1, <2>1, <3>1 DEF IInv, Covered
  <2> QED BY <1>1, <2>1 DEF IInv, Scheduled, RunningIsShown
<1>2. IInv => RunningIsShown BY <1>1
<1> QED BY <1>2, LeasesCover, PTL

(* "The turn stopped answering" is said only of a turn that was cut off,   *)
(* of one that was announced and did not come, or of one that has run for  *)
(* a lease's length (expire(), chats.ts:249).                              *)
THEOREM ExpirySpeaksTrue == Spec => ExpiresTruly
<1> DEFINE Truly == \A taken \in leases :
       Expire(taken) /\ status' # status =>
         IF turn = NoTurn THEN lost \/ marked ELSE clock >= turn.from + Lease
<1>1. ASSUME IInv PROVE Truly
  <2> SUFFICES ASSUME NEW taken \in leases, Expire(taken), status' # status
               PROVE  IF turn = NoTurn THEN lost \/ marked ELSE clock >= turn.from + Lease
    OBVIOUS
  <2>1. status = "streaming" /\ since = taken /\ clock >= taken + Lease BY DEF Expire
  <2>2. turn = NoTurn => lost \/ marked BY <1>1, <2>1 DEF IInv, Explained
  <2>3. turn # NoTurn => clock >= turn.from + Lease BY <1>1, <2>1, LeaseOutlasts
  <2> QED BY <2>2, <2>3
<1>2. IInv => Truly BY <1>1
<1> QED BY <1>2, LeasesCover, PTL DEF ExpiresTruly

-----------------------------------------------------------------------------
(***************************************************************************)
(* What a chat at rest waits for.                                          *)
(***************************************************************************)

(* An entry that opens no turn belongs to the latest. *)
LEMMA LatestTurnGrows ==
  ASSUME NEW messages \in Seq(Entry), NEW entry \in Entry, entry.type # "opening"
  PROVE  LatestTurn(Append(messages, entry)) = LatestTurn(messages) \cup {entry}
<1> DEFINE n == Len(messages)
           more == Append(messages, entry)
           From(ms) == {i \in DOMAIN ms : \A j \in i..Len(ms) : ms[j].type # "opening"}
<1>1. /\ n \in Nat /\ DOMAIN messages = 1..n /\ Len(more) = n + 1 /\ DOMAIN more = 1..(n + 1)
      /\ more[n + 1] = entry /\ \A i \in 1..n : more[i] = messages[i]
  OBVIOUS
<1> HIDE DEF n, more
<1>2. From(more) = From(messages) \cup {n + 1}
  <2>1. ASSUME NEW i \in From(more), i # n + 1 PROVE i \in From(messages)
    <3>1. i \in 1..n /\ \A j \in i..(n + 1) : more[j].type # "opening" BY <1>1, <2>1
    <3>2. \A j \in i..n : messages[j].type # "opening"
      <4> SUFFICES ASSUME NEW j \in i..n PROVE messages[j].type # "opening" OBVIOUS
      <4>1. j \in 1..n /\ j \in i..(n + 1) BY <1>1, <3>1
      <4> QED BY <1>1, <3>1, <4>1
    <3> QED BY <1>1, <3>1, <3>2 DEF n
  <2>2. ASSUME NEW i \in From(messages) PROVE i \in From(more)
    <3>1. i \in 1..n /\ \A j \in i..n : messages[j].type # "opening" BY <1>1 DEF n
    <3>2. \A j \in i..(n + 1) : more[j].type # "opening"
      <4> SUFFICES ASSUME NEW j \in i..(n + 1) PROVE more[j].type # "opening" OBVIOUS
      <4>1. CASE j = n + 1 BY <1>1, <4>1
      <4>2. CASE j # n + 1
        <5>1. j \in i..n /\ j \in 1..n BY <1>1, <3>1, <4>2
        <5> QED BY <1>1, <3>1, <5>1
      <4> QED BY <4>1, <4>2
    <3> QED BY <1>1, <3>1, <3>2
  <2>3. n + 1 \in From(more)
    <3>1. \A j \in (n + 1)..(n + 1) : j = n + 1 BY <1>1
    <3> QED BY <1>1, <3>1
  <2> QED BY <2>1, <2>2, <2>3
<1>3. {more[i] : i \in From(more)} = {messages[i] : i \in From(messages)} \cup {entry}
  <2>1. \A i \in From(messages) : more[i] = messages[i] BY <1>1
  <2> HIDE DEF From
  <2> QED BY <1>1, <1>2, <2>1
<1> QED BY <1>3 DEF LatestTurn, more

(* More asks leave a chat waiting that waits. *)
LEMMA AsksWait ==
  ASSUME log \in Seq(Entry), NEW S \in SUBSET Ask, WaitsOnUser(log)
  PROVE  WaitsOnUser(Append(log, Asks(S)))
<1>1. Asks(S) \in Entry /\ Asks(S).type = "asks" BY DEF Asks, Entry
<1>2. LatestTurn(Append(log, Asks(S))) = LatestTurn(log) \cup {Asks(S)} BY <1>1, LatestTurnGrows
<1> QED BY <1>1, <1>2 DEF WaitsOnUser, Named

(* An answer leaves one at rest that does not. *)
LEMMA AnswersRest ==
  ASSUME log \in Seq(Entry), NEW a \in Ask, ~WaitsOnUser(log)
  PROVE  ~WaitsOnUser(Append(log, Answered(a)))
<1>1. Answered(a) \in Entry /\ Answered(a).type = "answered" BY DEF Answered, Entry
<1>2. LatestTurn(Append(log, Answered(a))) = LatestTurn(log) \cup {Answered(a)} BY <1>1, LatestTurnGrows
<1> QED BY <1>1, <1>2 DEF WaitsOnUser, Named

(* What is true of a chat that seems at rest: a message in its mailbox, or *)
(* the news of an answer that comes as one, will begin a turn.             *)
AtRestTruly ==
  /\ log \in Seq(Entry) /\ mail \in Nat
  /\ mail = 0 /\ ~lost =>
       /\ status = "idle" /\ ~surfaced => ~WaitsOnUser(log)
       /\ status = "waiting" /\ ~silent /\ (\A a \in Ask : <<a, "child">> \notin answers)
          => WaitsOnUser(log)

(* What leaves the row, the transcript and what is on its way leaves rest. *)
LEMMA RestUnconcerned ==
  ASSUME AtRestTruly, UNCHANGED <<status, log, mail, lost, answers>>,
         surfaced => surfaced', silent => silent'
  PROVE  AtRestTruly'
BY DEF AtRestTruly, AtRest

(* Each step keeps what a chat at rest shows true. *)
LEMMA RestStays == ASSUME IInv, AtRestTruly, [Next]_vars PROVE AtRestTruly'
<1> USE DEF AtRestTruly
<1>1. CASE UNCHANGED vars BY <1>1, RestUnconcerned DEF vars
<1>2. CASE Submit
  <2>1. PICK accepted \in 0..1 : mail' = mail + accepted BY <1>2 DEF Submit, Post
  <2> QED BY <1>2, <2>1, RestUnconcerned DEF Submit, row, hist, AtRest
<1>3. CASE Mark BY <1>3 DEF Mark, StartChat
<1>4. CASE Begin
  <2>1. status' = "streaming" /\ log' = log /\ mail' = mail - 1 /\ mail > 0 BY <1>4 DEF Begin, StartChat, MayBegin
  <2> QED BY <2>1
<1>5. CASE Refuse
  <2>1. status' = "errored" /\ log' = log /\ mail' = mail - 1 /\ mail > 0
    BY <1>5 DEF Refuse, SettleChat, MayBegin
  <2> QED BY <2>1
<1>6. CASE Prepare
  <2>1. status' \in {"streaming", "errored"} /\ mail' = mail /\ log' = Append(log, Opening)
    BY <1>6 DEF Prepare, IInv, Covered, row, AppendTo, NoTurn
  <2> QED BY <2>1 DEF Opening, Entry
<1>7. CASE Steer
  <2>1. /\ status' \in {"streaming", "errored"} /\ mail' = mail - 1 /\ mail > 0
        /\ log' = Append(log, Opening)
    BY <1>7 DEF Steer, IInv, Covered, row, AppendTo, NoTurn
  <2> QED BY <2>1 DEF Opening, Entry
<1>8. CASE Unsettled BY <1>8 DEF Unsettled
<1>9. CASE Crash
  <2>1. mail' = 0 /\ UNCHANGED <<log, status, surfaced, silent>> BY <1>9 DEF Crash, row
  <2>2. lost' = (lost \/ turn # NoTurn \/ mail > 0 \/ answers # {}) BY <1>9 DEF Crash
  <2>3. ~lost' => ~lost /\ ~(mail > 0) /\ answers = {} BY <2>2, Zenon
  <2>4. ~(mail > 0) => mail = 0 OBVIOUS
  <2> QED BY <2>1, <2>3, <2>4 DEF AtRest
<1>10. CASE DropChat BY <1>10 DEF DropChat
<1>11. CASE Tick BY <1>11, RestUnconcerned DEF Tick, row, user, hist
<1>12. ASSUME NEW last \in Ask, Place(last) PROVE AtRestTruly'
  <2> DEFINE S == Ask \cap (Cardinality(Asked) + 1)..last
  <2>1. /\ log' = Append(log, Asks(S)) /\ UNCHANGED <<status, mail, answers, lost, silent>>
        /\ surfaced' = (surfaced \/ status = "idle")
    BY <1>12 DEF Place, AppendTo, row, user
  <2>2. S \in SUBSET Ask OBVIOUS
  <2>3. log' \in Seq(Entry) BY <2>1, <2>2 DEF Asks, Entry
  <2>4. WaitsOnUser(log) => WaitsOnUser(log')
    <3> HIDE DEF S
    <3> QED BY <2>1, <2>2, AsksWait
  <2> QED BY <2>1, <2>3, <2>4 DEF AtRest
<1>13. ASSUME NEW ending \in Endings, Settle(ending) PROVE AtRestTruly'
  <2>1. log' = log /\ mail' \in Nat BY <1>13 DEF Settle
  <2>2. CASE Exists
    <3>1. status' = IF ending = "answered" THEN AtRest(log) ELSE ending
      BY <1>13, <2>2 DEF Settle, SettleChat
    <3> QED BY <2>1, <3>1 DEF Endings, AtRest
  <2>3. CASE ~Exists BY <1>13, <2>1, <2>3 DEF Settle, Exists, row
  <2> QED BY <2>2, <2>3
<1>14. ASSUME NEW a \in Ask, FollowUp(a) PROVE AtRestTruly'
  <2>1. PICK says \in 0..1 : /\ mail' = mail + says
                             /\ silent' = (silent \/ (says = 0 /\ status = "waiting"))
    BY <1>14 DEF FollowUp, Post
  <2>2. UNCHANGED <<status, log, lost, surfaced>> BY <1>14 DEF FollowUp, row
  <2>3. CASE says = 1
    <3>1. mail' \in Nat /\ mail' # 0 BY <2>1, <2>3
    <3> QED BY <2>2, <3>1
  <2>4. CASE says = 0
    <3>1. mail' = mail BY <2>1, <2>4
    <3>2. ~silent' => ~silent /\ status # "waiting" BY <2>1, <2>4
    <3> QED BY <2>2, <3>1, <3>2
  <2> QED BY <2>3, <2>4
<1>15. ASSUME NEW a \in Ask, Record(a) PROVE AtRestTruly'
  <2>1. /\ log' = Append(log, Answered(a)) /\ answers' = answers \ {<<a, "own">>}
        /\ UNCHANGED <<mail, lost, surfaced, silent>>
        /\ status' = IF status = "waiting" /\ ~WaitsOnUser(log') THEN "idle" ELSE status
    BY <1>15 DEF Record, AppendTo, hist
  <2>2. log' \in Seq(Entry) BY <2>1 DEF Answered, Entry
  <2>3. ~WaitsOnUser(log) => ~WaitsOnUser(log') BY <2>1, AnswersRest
  <2>4. \A b \in Ask : <<b, "child">> \in answers => <<b, "child">> \in answers' BY <2>1
  <2> QED BY <2>1, <2>2, <2>3, <2>4 DEF AtRest
<1>16. ASSUME NEW a \in Ask, NEW as \in {"own", "child"}, Answer(a, as) PROVE AtRestTruly'
  <2>1. answers' = answers \cup {<<a, as>>} /\ UNCHANGED <<status, lost, surfaced, silent>>
    BY <1>16 DEF Answer, row, hist
  <2>2. CASE as = "own"
    <3>1. PICK says \in 0..1 : mail' = mail + says BY <1>16, <2>2 DEF Answer, Post
    <3>2. log' = log BY <1>16, <2>2 DEF Answer
    <3>3. \A b \in Ask : <<b, "child">> \in answers => <<b, "child">> \in answers' BY <2>1
    <3>4. mail' \in Nat /\ (mail' = 0 => mail = 0) BY <3>1
    <3> QED BY <2>1, <3>2, <3>3, <3>4 DEF AtRest
  <2>3. CASE as = "child"
    <3>1. log' = Append(log, Answered(a)) /\ mail' = mail BY <1>16, <2>3 DEF Answer, AppendTo
    <3>2. log' \in Seq(Entry) BY <3>1 DEF Answered, Entry
    <3>3. <<a, "child">> \in answers' BY <2>1, <2>3
    <3>4. ~WaitsOnUser(log) => ~WaitsOnUser(log') BY <3>1, AnswersRest
    <3> QED BY <2>1, <3>1, <3>2, <3>3, <3>4
  <2> QED BY <2>2, <2>3
<1>17. ASSUME NEW upTo \in 1..Len(log), Fork(upTo) PROVE AtRestTruly'
  <2>1. log' = SubSeq(log, 1, upTo) /\ status' = AtRest(log') /\ mail' = 0 BY <1>17 DEF Fork
  <2>2. log' \in Seq(Entry) BY <2>1
  <2> QED BY <2>1, <2>2 DEF AtRest
<1>18. ASSUME NEW taken \in leases, Expire(taken) PROVE AtRestTruly'
  <2>1. UNCHANGED <<log, mail, answers, lost, surfaced, silent>> BY <1>18 DEF Expire, user, hist
  <2>2. status' = status \/ status' = "errored" BY <1>18 DEF Expire
  <2> QED BY <2>1, <2>2 DEF AtRest
<1> QED
  BY <1>1, <1>2, <1>3, <1>4, <1>5, <1>6, <1>7, <1>8, <1>9, <1>10, <1>11, <1>12, <1>13, <1>14,
     <1>15, <1>16, <1>17, <1>18 DEF Next

(* A chat at rest waits exactly for what its latest turn asks and has no   *)
(* answer to, in whatever order asks, answers and messages came            *)
(* (settleWaiting(), messages.ts:184).                                     *)
THEOREM WaitingShown == Spec => []WaitsTruly
<1>1. Init => AtRestTruly
  <2>1. ASSUME Init PROVE LatestTurn(log) = {} BY <2>1 DEF Init, LatestTurn
  <2>2. ASSUME Init PROVE ~WaitsOnUser(log) BY <2>1, <2>2 DEF WaitsOnUser, Named
  <2>3. ASSUME Init PROVE log \in Seq(Entry) /\ mail \in Nat /\ status = "idle" BY <2>3 DEF Init
  <2> QED BY <2>2, <2>3 DEF AtRestTruly, AtRest
<1>2. IInv /\ AtRestTruly /\ [Next]_vars => AtRestTruly' BY RestStays
<1>3. AtRestTruly => WaitsTruly BY DEF AtRestTruly, WaitsTruly
<1> QED BY <1>1, <1>2, <1>3, LeasesCover, PTL DEF Spec
=============================================================================
