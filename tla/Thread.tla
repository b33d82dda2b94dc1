------------------------------- MODULE Thread -------------------------------
(***************************************************************************)
(* One agent thread (packages/ai/src/thread.ts) over its in-memory mailbox *)
(* (packages/ai/src/mailbox.ts).                                           *)
(*                                                                         *)
(* Callers post envelopes; one asynchronous loop, the drive, takes them    *)
(* and runs a turn for each; a running turn empties the mailbox between    *)
(* its steps (steering); callers may withdraw one envelope, or cancel the  *)
(* turn and everything that waits.                                         *)
(*                                                                         *)
(* Everything runs on one JavaScript event loop, so the atomic step of     *)
(* this module is the code between two awaits.  MemoryMailbox answers      *)
(* synchronously: the effect of `await mailbox.take()` happens when it is  *)
(* called, its result is seen by the continuation, and in between the      *)
(* envelopes taken are held by a local variable alone.                     *)
(***************************************************************************)
EXTENDS Naturals, Sequences, SequencesExt

CONSTANTS
  Envelopes,   \* the envelopes ever posted to the thread
  Drives,      \* slots for concurrent runs of drive(); see OneDrive
  NoDrive,     \* the value of `halting` when it is undefined
  Cancellers,  \* calls to cancel(why); each is its own reason
  MaxSteps,    \* how often one turn may read its inbox
  Faults       \* which of the host's ports may reject

ASSUME NoDriveAssumption  == NoDrive \notin Drives
ASSUME CancellersAssumption ==
  Cancellers \cap {"open", "answer", "held", "stopped", "failed",
                   "withdrawn", "live"} = {}
ASSUME MaxStepsAssumption == MaxSteps \in Nat
ASSUME FaultsAssumption   == Faults \subseteq {"prepare", "settle"}

VARIABLES
  mailbox,     \* MemoryMailbox.waiting, the envelopes no one has taken yet
  tracked,     \* Thread.tracked, the posts whose promise is unsettled
  running,     \* Thread.running
  posted,      \* Thread.posted, a counter of completed posts
  held,        \* Thread.held
  halting,     \* Thread.halting, whose AbortController is current
  poster,      \* how far each post() call has come
  pc,          \* where each run of drive() awaits
  seen,        \* drive()'s local `seen`
  taken,       \* what a take() returned and its caller has not used yet
  consumed,    \* turn()'s local `consumed`
  signal,      \* the turn's AbortController: "live" or the reason it aborted
  cut,         \* the turn's other abort signals that have fired
  steps,       \* how often the turn has read its inbox
  outcome,     \* what the turn came to
  ending,      \* how onTurn told the status port to record it
  canceller,   \* how far each cancel() call has come
  dropped,     \* the envelopes a cancel() has taken and not yet released
  withdrawing, \* the envelopes a withdraw() has removed and not yet released
  chat,        \* the status of the chat's row, "unsettled" if it streams as a settle was rejected
  ended,       \* how each post's promise was settled
  spoken,      \* history: the envelopes whose message reached the turn's wire
  arrived,     \* history: the envelopes in the order they were posted
  stranded     \* history: the envelopes of turns that threw out of drive()

drives  == <<pc, seen, taken, consumed, signal, cut, steps, outcome, ending>>
callers == <<poster, canceller, dropped, withdrawing>>
history == <<spoken, arrived, stranded>>
shared  == <<mailbox, tracked, running, posted, held, halting, chat, ended>>
vars    == <<drives, callers, history, shared>>

Stops    == Cancellers \cup {"withdrawn", "stopped", "failed"}
Outcomes == {"answer", "held"} \cup Stops

(***************************************************************************)
(* Places drive() can be suspended at.  "idle" is a slot not in use.       *)
(***************************************************************************)
Opening  == {"opening", "preparing", "reading"}
Running  == {"step", "inbox", "steering", "finished", "recording", "recorded"}
Turning  == Opening \cup Running \cup {"failing", "halted"}
Places   == {"idle", "took", "looping"} \cup Turning

TypeOK ==
  /\ mailbox \in Seq(Envelopes)
  /\ tracked \subseteq Envelopes
  /\ running \in BOOLEAN
  /\ posted \in Nat
  /\ held \in BOOLEAN
  /\ halting \in Drives \cup {NoDrive}
  /\ poster \in [Envelopes -> {"new", "posting", "posted"}]
  /\ pc \in [Drives -> Places]
  /\ seen \in [Drives -> Nat]
  /\ taken \in [Drives -> Seq(Envelopes)]
  /\ consumed \in [Drives -> SUBSET Envelopes]
  /\ signal \in [Drives -> Cancellers \cup {"live"}]
  /\ cut \in [Drives -> SUBSET {"overrun", "caller"}]
  /\ steps \in [Drives -> Nat]
  /\ outcome \in [Drives -> {"answer", "held", "stopped", "failed"}]
  /\ ending \in [Drives -> {"failure", "stopped", "settled"}]
  /\ canceller \in [Cancellers -> {"ready", "taking", "done"}]
  /\ dropped \in [Cancellers -> SUBSET Envelopes]
  /\ withdrawing \subseteq Envelopes
  /\ chat \in {"idle", "streaming", "unsettled", "waiting", "errored"}
  /\ ended \in [Envelopes -> Outcomes \cup {"open"}]
  /\ spoken \in Seq(Envelopes)
  /\ arrived \in Seq(Envelopes)
  /\ stranded \subseteq Envelopes

Init ==
  /\ mailbox = <<>> /\ tracked = {} /\ running = FALSE /\ posted = 0
  /\ held = FALSE /\ halting = NoDrive
  /\ poster = [e \in Envelopes |-> "new"]
  /\ pc = [d \in Drives |-> "idle"]
  /\ seen = [d \in Drives |-> 0]
  /\ taken = [d \in Drives |-> <<>>]
  /\ consumed = [d \in Drives |-> {}]
  /\ signal = [d \in Drives |-> "live"]
  /\ cut = [d \in Drives |-> {}]
  /\ steps = [d \in Drives |-> 0]
  /\ outcome = [d \in Drives |-> "stopped"]
  /\ ending = [d \in Drives |-> "settled"]
  /\ canceller = [c \in Cancellers |-> "ready"]
  /\ dropped = [c \in Cancellers |-> {}]
  /\ withdrawing = {}
  /\ chat = "idle"
  /\ ended = [e \in Envelopes |-> "open"]
  /\ spoken = <<>> /\ arrived = <<>> /\ stranded = {}

-----------------------------------------------------------------------------
(* release(id, outcome): settle the promises still tracked, forget them.   *)
Release(es, why) ==
  /\ ended' = [e \in Envelopes |->
                 IF e \in es \cap tracked THEN why ELSE ended[e]]
  /\ tracked' = tracked \ es

(* Mutation of TakeOne: pop() for shift().                                 *)
TakeNewest(d) ==
  IF mailbox = <<>>
    THEN taken' = [taken EXCEPT ![d] = <<>>] /\ UNCHANGED mailbox
    ELSE taken' = [taken EXCEPT ![d] = <<Last(mailbox)>>] /\ mailbox' = Front(mailbox)

(* MemoryMailbox.take(id, 1): at most one envelope, the eldest. *)
TakeOne(d) ==
  /\ taken' = [taken EXCEPT ![d] = SubSeq(mailbox, 1, IF mailbox = <<>> THEN 0 ELSE 1)]
  /\ mailbox' = IF mailbox = <<>> THEN <<>> ELSE Tail(mailbox)

(* The head of drive()'s loop: remember `posted`, then take one envelope. *)
Loop(d, now) ==
  /\ seen' = [seen EXCEPT ![d] = now]
  /\ TakeOne(d)
  /\ pc' = [pc EXCEPT ![d] = "took"]

Goto(d, from, to) ==
  /\ pc[d] = from
  /\ pc' = [pc EXCEPT ![d] = to]

Aborted(d) == signal[d] # "live" \/ cut[d] # {}

-----------------------------------------------------------------------------
(* post(): track the promise, put the envelope in the mailbox, await.      *)
Post(e) ==
  /\ poster[e] = "new"
  /\ poster' = [poster EXCEPT ![e] = "posting"]
  /\ tracked' = tracked \cup {e}
  /\ mailbox' = Append(mailbox, e)
  /\ arrived' = Append(arrived, e)
  /\ UNCHANGED <<drives, canceller, dropped, withdrawing, spoken, stranded,
                 running, posted, held, halting, chat, ended>>

(* Mutation of Posted: every post starts a drive.                          *)
PostedDrives(e) ==
  /\ poster[e] = "posting"
  /\ poster' = [poster EXCEPT ![e] = "posted"]
  /\ posted' = posted + 1
  /\ running' = TRUE
  /\ \E d \in Drives : pc[d] = "idle" /\ Loop(d, posted')
  /\ UNCHANGED <<consumed, signal, cut, steps, outcome, ending, canceller,
                 dropped, withdrawing, history, tracked, held, halting, chat,
                 ended>>

(* ... then count the post, and start driving unless someone already is.   *)
Posted(e) ==
  /\ poster[e] = "posting"
  /\ poster' = [poster EXCEPT ![e] = "posted"]
  /\ posted' = posted + 1
  /\ running' = TRUE
  /\ IF running
       THEN UNCHANGED <<mailbox, pc, seen, taken>>
       ELSE \E d \in Drives : pc[d] = "idle" /\ Loop(d, posted')
  /\ UNCHANGED <<consumed, signal, cut, steps, outcome, ending, canceller,
                 dropped, withdrawing, history, tracked, held, halting, chat,
                 ended>>

(* withdraw(id): take the envelope back out of the mailbox, await ...      *)
Withdraw(e) ==
  \E i \in DOMAIN mailbox :
    /\ mailbox[i] = e
    /\ mailbox' = RemoveAt(mailbox, i)
    /\ withdrawing' = withdrawing \cup {e}
    /\ UNCHANGED <<drives, poster, canceller, dropped, history, tracked,
                   running, posted, held, halting, chat, ended>>

(* ... then settle its promise.                                            *)
Withdrawn(e) ==
  /\ e \in withdrawing
  /\ withdrawing' = withdrawing \ {e}
  /\ Release({e}, "withdrawn")
  /\ UNCHANGED <<drives, poster, canceller, dropped, history, mailbox,
                 running, posted, held, halting, chat>>

(* stop(why): abort the current turn, unless there is none or it already   *)
(* is aborted; the first reason stands.                                    *)
Stop(c) ==
  IF halting # NoDrive /\ signal[halting] = "live"
    THEN signal' = [signal EXCEPT ![halting] = c]
    ELSE UNCHANGED signal

(* cancel(why): stop(why), empty the mailbox, await ...                    *)
Cancel(c) ==
  /\ canceller[c] = "ready"
  /\ canceller' = [canceller EXCEPT ![c] = "taking"]
  /\ Stop(c)
  /\ dropped' = [dropped EXCEPT ![c] = ToSet(mailbox)]
  /\ mailbox' = <<>>
  /\ UNCHANGED <<pc, seen, taken, consumed, cut, steps, outcome, ending,
                 poster, withdrawing, history, tracked, running, posted, held,
                 halting, chat, ended>>

(* ... then settle what was in it.                                         *)
Cancelled(c) ==
  /\ canceller[c] = "taking"
  /\ canceller' = [canceller EXCEPT ![c] = "done"]
  /\ Release(dropped[c], c)
  /\ dropped' = [dropped EXCEPT ![c] = {}]
  /\ UNCHANGED <<drives, poster, withdrawing, history, mailbox, running,
                 posted, held, halting, chat>>

-----------------------------------------------------------------------------
(* drive() resumes with an envelope and enters turn() with it, up to its   *)
(* first await.                                                            *)
OpenTurn(d) ==
  /\ taken[d] # <<>>
  /\ Goto(d, "took", "opening")
  /\ consumed' = [consumed EXCEPT ![d] = {Head(taken[d])}]
  /\ taken' = [taken EXCEPT ![d] = <<>>]
  /\ held' = FALSE
  /\ halting' = d
  /\ signal' = [signal EXCEPT ![d] = "live"]
  /\ UNCHANGED <<seen, cut, steps, outcome, ending, callers, history, mailbox,
                 tracked, running, posted, chat, ended>>

(* drive() resumes with nothing although a post completed meanwhile: it    *)
(* goes round again.                                                       *)
LookAgain(d) ==
  /\ pc[d] = "took" /\ taken[d] = <<>> /\ posted # seen[d]
  /\ Loop(d, posted)
  /\ UNCHANGED <<consumed, signal, cut, steps, outcome, ending, callers,
                 history, tracked, running, posted, held, halting, chat, ended>>

(* Mutation of Rest: the drive trusts the empty take alone.                *)
RestAtOnce(d) ==
  /\ taken[d] = <<>>
  /\ Goto(d, "took", "idle")
  /\ running' = FALSE
  /\ seen' = [seen EXCEPT ![d] = 0]
  /\ UNCHANGED <<taken, consumed, signal, cut, steps, outcome, ending,
                 callers, history, mailbox, tracked, posted, held, halting,
                 chat, ended>>

(* drive() resumes with nothing and nothing was posted: it returns.        *)
Rest(d) ==
  /\ taken[d] = <<>> /\ posted = seen[d]
  /\ Goto(d, "took", "idle")
  /\ running' = FALSE
  /\ seen' = [seen EXCEPT ![d] = 0]
  /\ UNCHANGED <<taken, consumed, signal, cut, steps, outcome, ending,
                 callers, history, mailbox, tracked, posted, held, halting,
                 chat, ended>>

(* turn() returned; drive() goes round.                                    *)
GoRound(d) ==
  /\ pc[d] = "looping"
  /\ Loop(d, posted)
  /\ UNCHANGED <<consumed, signal, cut, steps, outcome, ending, callers,
                 history, tracked, running, posted, held, halting, chat, ended>>

(* The budget has something left and status.start marked the chat.         *)
Start(d) ==
  /\ Goto(d, "opening", "preparing")
  /\ chat' = "streaming"
  /\ UNCHANGED <<seen, taken, consumed, signal, cut, steps, outcome, ending,
                 callers, history, mailbox, tracked, running, posted, held,
                 halting, ended>>

(* prepare() appended the opening message to the transcript.               *)
AppendOpening(d) ==
  /\ Goto(d, "preparing", "reading")
  /\ \E e \in consumed[d] : spoken' = Append(spoken, e)
  /\ UNCHANGED <<seen, taken, consumed, signal, cut, steps, outcome, ending,
                 callers, arrived, stranded, shared>>

(* prepare() returned.  A turn stopped meanwhile is settled as stopped and *)
(* no model is called; any other turn streams.                             *)
Prepared(d) ==
  /\ Goto(d, "reading", IF signal[d] # "live" THEN "halted" ELSE "step")
  /\ UNCHANGED <<seen, taken, consumed, signal, cut, steps, outcome, ending,
                 callers, history, shared>>

(* The budget was spent, or status.start, setup, repl or the transcript    *)
(* rejected: the catch of turn() asks for the failure to be recorded.      *)
PrepareFails(d) ==
  /\ "prepare" \in Faults
  /\ pc[d] \in Opening
  /\ pc' = [pc EXCEPT ![d] = "failing"]
  /\ UNCHANGED <<seen, taken, consumed, signal, cut, steps, outcome, ending,
                 callers, history, shared>>

(* turn() returns or throws: its locals are gone.                          *)
Forget(d) ==
  /\ consumed' = [consumed EXCEPT ![d] = {}]
  /\ cut' = [cut EXCEPT ![d] = {}]
  /\ steps' = [steps EXCEPT ![d] = 0]
  /\ outcome' = [outcome EXCEPT ![d] = "stopped"]
  /\ ending' = [ending EXCEPT ![d] = "settled"]

(* endAll, the end of every turn that returns.                             *)
EndTurn(d, why) ==
  /\ Release(consumed[d], why)
  /\ Forget(d)
  /\ halting' = IF halting = d THEN NoDrive ELSE halting
  /\ signal' = IF halting = d THEN [signal EXCEPT ![d] = "live"] ELSE signal
  /\ UNCHANGED <<seen, taken, callers, history, mailbox, running, posted>>

(* The status port rejects: a chat that streams goes on doing so.          *)
Unsettled == IF chat = "streaming" THEN "unsettled" ELSE chat

(* A status port that rejects here is only logged.                         *)
SettlesTo(status) ==
  \/ chat' = status
  \/ "settle" \in Faults /\ chat' = Unsettled

FailedSettles(d) ==
  /\ Goto(d, "failing", "looping")
  /\ SettlesTo("errored")
  /\ EndTurn(d, "failed")
  /\ UNCHANGED held

(* Mutation of HaltedSettles: the early return forgets the status port.    *)
HaltedUnsettled(d) ==
  /\ Goto(d, "halted", "looping")
  /\ EndTurn(d, signal[d])
  /\ UNCHANGED <<held, chat>>

HaltedSettles(d) ==
  /\ Goto(d, "halted", "looping")
  /\ chat' = "idle"
  /\ EndTurn(d, signal[d])
  /\ UNCHANGED held

(* Here a status port that rejects throws out of turn() into drive()'s     *)
(* catch: the drive is over, and the promises of its turn stay unsettled.  *)
HaltedThrows(d) ==
  /\ "settle" \in Faults
  /\ Goto(d, "halted", "idle")
  /\ running' = FALSE
  /\ stranded' = stranded \cup consumed[d]
  /\ Forget(d)
  /\ seen' = [seen EXCEPT ![d] = 0]
  /\ chat' = Unsettled
  /\ UNCHANGED <<taken, signal, callers, spoken, arrived, mailbox, tracked,
                 posted, held, halting, ended>>

-----------------------------------------------------------------------------
(* The deadline or the token budget ran out, or the opening post's own     *)
(* signal fired.                                                           *)
Cut(d, why) ==
  /\ pc[d] \in {"step", "inbox", "steering", "finished"}
  /\ why \notin cut[d]
  /\ cut' = [cut EXCEPT ![d] = @ \cup {why}]
  /\ UNCHANGED <<pc, seen, taken, consumed, signal, steps, outcome, ending,
                 callers, history, shared>>

(* Mutation of Inbox: what it takes is not removed.                        *)
InboxPeeks(d) ==
  /\ steps[d] < MaxSteps
  /\ ~Aborted(d)
  /\ Goto(d, "step", "inbox")
  /\ steps' = [steps EXCEPT ![d] = @ + 1]
  /\ taken' = [taken EXCEPT ![d] = mailbox]
  /\ UNCHANGED <<seen, consumed, signal, cut, outcome, ending, callers,
                 history, shared>>

(* Mutation of Inbox: it takes the newest envelope alone.                  *)
InboxNewest(d) ==
  /\ steps[d] < MaxSteps
  /\ ~Aborted(d)
  /\ Goto(d, "step", "inbox")
  /\ steps' = [steps EXCEPT ![d] = @ + 1]
  /\ TakeNewest(d)
  /\ UNCHANGED <<seen, consumed, signal, cut, outcome, ending, callers,
                 history, tracked, running, posted, held, halting, chat, ended>>

(* Between two steps the turn empties the mailbox ...                      *)
Inbox(d) ==
  /\ steps[d] < MaxSteps
  /\ ~Aborted(d)
  /\ Goto(d, "step", "inbox")
  /\ steps' = [steps EXCEPT ![d] = @ + 1]
  /\ taken' = [taken EXCEPT ![d] = mailbox]
  /\ mailbox' = <<>>
  /\ UNCHANGED <<seen, consumed, signal, cut, outcome, ending, callers,
                 history, tracked, running, posted, held, halting, chat, ended>>

(* ... answers for what it took ...                                        *)
InboxTaken(d) ==
  /\ Goto(d, "inbox", IF taken[d] = <<>> THEN "step" ELSE "steering")
  /\ consumed' = [consumed EXCEPT ![d] = @ \cup ToSet(taken[d])]
  /\ UNCHANGED <<seen, taken, signal, cut, steps, outcome, ending, callers,
                 history, shared>>

(* Mutation of Steer: an aborted turn leaves the rest unread and goes on.  *)
SteerSkips(d) ==
  /\ pc[d] = "steering" /\ taken[d] # <<>>
  /\ spoken' = Append(spoken, Head(taken[d]))
  /\ IF Aborted(d) \/ Len(taken[d]) = 1
       THEN /\ pc' = [pc EXCEPT ![d] = "step"]
            /\ taken' = [taken EXCEPT ![d] = <<>>]
       ELSE /\ pc' = pc
            /\ taken' = [taken EXCEPT ![d] = Tail(@)]
  /\ UNCHANGED <<seen, consumed, signal, cut, steps, outcome, ending, callers,
                 arrived, stranded, shared>>

(* ... and yields each message to the wire.  TurnWire.apply pushes it and  *)
(* then answers false when the turn is aborted, which ends the generator   *)
(* with the rest of what was taken unread.                                 *)
Steer(d) ==
  /\ pc[d] = "steering" /\ taken[d] # <<>>
  /\ spoken' = Append(spoken, Head(taken[d]))
  /\ IF Aborted(d)
       THEN /\ pc' = [pc EXCEPT ![d] = "finished"]
            /\ taken' = [taken EXCEPT ![d] = <<>>]
       ELSE /\ pc' = [pc EXCEPT ![d] = IF Len(taken[d]) = 1 THEN "step" ELSE @]
            /\ taken' = [taken EXCEPT ![d] = Tail(@)]
  /\ UNCHANGED <<seen, consumed, signal, cut, steps, outcome, ending, callers,
                 arrived, stranded, shared>>

(* The generator is done: the model answered, a step was held, the turn    *)
(* was aborted or capped, or it failed.  An abort that lands in the last   *)
(* step does not take back its answer.                                     *)
Finish(d, what) ==
  /\ Goto(d, "step", "finished")
  /\ outcome' = [outcome EXCEPT ![d] = what]
  /\ UNCHANGED <<seen, taken, consumed, signal, cut, steps, ending, callers,
                 history, shared>>

(* onTurn: decide how the turn is recorded, then write the transcript.     *)
Record(d) ==
  /\ Goto(d, "finished", "recording")
  /\ ending' = [ending EXCEPT ![d] =
                  IF outcome[d] = "failed" \/ "overrun" \in cut[d] THEN "failure"
                  ELSE IF signal[d] # "live" THEN "stopped"
                  ELSE "settled"]
  /\ UNCHANGED <<seen, taken, consumed, signal, cut, steps, outcome, callers,
                 history, shared>>

(* status.settle; streamTurn swallows what onTurn throws.                  *)
Recorded(d) ==
  /\ Goto(d, "recording", "recorded")
  /\ CASE ending[d] = "failure" -> SettlesTo("errored")
       [] ending[d] = "stopped" -> SettlesTo("idle")
       [] ending[d] = "settled" -> \/ outcome[d] # "held" /\ SettlesTo("idle")
                                   \/ SettlesTo("waiting")
  /\ UNCHANGED <<seen, taken, consumed, signal, cut, steps, outcome, ending,
                 callers, history, mailbox, tracked, running, posted, held,
                 halting, ended>>

(* The response closed and its outcome is known: settle every promise.     *)
Close(d) ==
  /\ Goto(d, "recorded", "looping")
  /\ EndTurn(d, IF /\ signal[d] # "live" /\ ending[d] # "failure"
                   /\ outcome[d] = "stopped"
                THEN signal[d] ELSE outcome[d])
  /\ held' = (outcome[d] = "held")
  /\ UNCHANGED chat

-----------------------------------------------------------------------------
Continue(d) ==
  \/ OpenTurn(d) \/ LookAgain(d) \/ Rest(d) \/ GoRound(d)
  \/ Start(d) \/ AppendOpening(d) \/ Prepared(d)
  \/ FailedSettles(d) \/ HaltedSettles(d)
  \/ InboxTaken(d) \/ Steer(d)
  \/ \E what \in {"answer", "held", "stopped", "failed"} : Finish(d, what)
  \/ Record(d) \/ Recorded(d) \/ Close(d)

Next ==
  \/ \E e \in Envelopes : Post(e) \/ Posted(e) \/ Withdraw(e) \/ Withdrawn(e)
  \/ \E c \in Cancellers : Cancel(c) \/ Cancelled(c)
  \/ \E d \in Drives :
       \/ Continue(d)
       \/ PrepareFails(d) \/ HaltedThrows(d) \/ Inbox(d)
       \/ \E why \in {"overrun", "caller"} : Cut(d, why)

Spec == Init /\ [][Next]_vars

(***************************************************************************)
(* The event loop runs every continuation that is ready, the host's ports  *)
(* answer, and a turn ends (its steps are capped and it has a deadline).   *)
(* Nobody has to post, withdraw, cancel or steer.                          *)
(***************************************************************************)
Fairness ==
  /\ \A e \in Envelopes : WF_vars(Posted(e)) /\ WF_vars(Withdrawn(e))
  /\ \A c \in Cancellers : WF_vars(Cancelled(c))
  /\ \A d \in Drives : WF_vars(Continue(d))

FairSpec == Spec /\ Fairness
-----------------------------------------------------------------------------
(***************************************************************************)
(* Properties.                                                             *)
(***************************************************************************)

(* What a run of drive() holds in its local variables: the envelopes of    *)
(* its turn, and what take() handed it and it has not looked at yet.       *)
Holding(d) ==
  consumed[d] \cup (IF pc[d] \in {"took", "inbox"} THEN ToSet(taken[d]) ELSE {})

(* What cancel() and withdraw() took out of the mailbox to release.        *)
Removed == withdrawing \cup UNION {dropped[c] : c \in Cancellers}

(* `running` is the lock of the drive: however posts, cancels and the end  *)
(* of a drive interleave, at most one drive() runs, and the flag is up     *)
(* exactly while it does (thread.ts:153 and :217).                         *)
OneDrive ==
  /\ \A d1, d2 \in Drives : pc[d1] # "idle" /\ pc[d2] # "idle" => d1 = d2
  /\ running <=> \E d \in Drives : pc[d] # "idle"

(* No envelope is in two hands: the mailbox, a drive, a canceller, a       *)
(* withdrawer and a turn that threw never share one, so no envelope is run *)
(* twice, or run and also reported as dropped.                             *)
InOneHand ==
  /\ \A i, j \in DOMAIN mailbox : mailbox[i] = mailbox[j] => i = j
  /\ \A d \in Drives : Holding(d) \cap (ToSet(mailbox) \cup Removed \cup stranded) = {}
  /\ \A d1, d2 \in Drives : d1 # d2 => Holding(d1) \cap Holding(d2) = {}
  /\ \A d \in Drives : pc[d] = "inbox" => consumed[d] \cap ToSet(taken[d]) = {}
  /\ ToSet(mailbox) \cap (Removed \cup stranded) = {}
  /\ Removed \cap stranded = {}
  /\ \A c \in Cancellers : dropped[c] \cap withdrawing = {}
  /\ \A c1, c2 \in Cancellers : c1 # c2 => dropped[c1] \cap dropped[c2] = {}

(* Every promise that is still open is in somebody's hand who will settle  *)
(* it, and nothing in a hand is settled: posts are neither lost nor        *)
(* answered early.  `stranded` is the code's one leak, see HaltedThrows.   *)
Accounted ==
  tracked = ToSet(mailbox) \cup Removed \cup stranded
              \cup UNION {Holding(d) : d \in Drives}

(* A promise is settled exactly when it is no longer tracked.              *)
SettledOnce ==
  \A e \in Envelopes : e \in tracked <=> poster[e] # "new" /\ ended[e] = "open"

(* At rest every post was answered: once no drive runs and no call is on   *)
(* its way, nothing waits in the mailbox and every promise is settled,     *)
(* although drive() looks at the mailbox, awaits and only then lowers      *)
(* `running` (the `posted !== seen` of thread.ts:216), and cancels and     *)
(* withdrawals empty the mailbox under it.                                 *)
SettledAtRest ==
  ~running /\ Removed = {} /\ stranded = {} /\ (\A e \in Envelopes : poster[e] # "posting") =>
    mailbox = <<>> /\ \A e \in Envelopes : poster[e] # "new" => ended[e] # "open"

(* What a post is told is true: an envelope settled as "withdrawn before a *)
(* turn took it", or in the hand of a cancel, is in no transcript          *)
(* (thread.ts:69, :174 and :192), and one told that its turn answered, or  *)
(* held, was read by that turn, also when the steering stopped half way    *)
(* through what it took.                                                   *)
ToldTruly ==
  \A e \in Envelopes :
    /\ e \in Removed \/ ended[e] = "withdrawn" => e \notin ToSet(spoken)
    /\ ended[e] \in {"answer", "held"} => e \in ToSet(spoken)

(* The messages of one thread reach its transcript once each and in the    *)
(* order they were posted, whether a turn opened with them or was steered. *)
SpokenInOrder ==
  \A i, j \in DOMAIN spoken : i < j =>
    \E k, l \in DOMAIN arrived :
      k < l /\ arrived[k] = spoken[i] /\ arrived[l] = spoken[j]

(* A thread at rest is not recorded as streaming, unless the status port   *)
(* rejected just that: every way out of a turn settles the chat it started.*)
RestIsSettled == ~running => chat # "streaming"

(* Every post is answered in the end: whatever is posted, cancelled and    *)
(* withdrawn meanwhile, its promise settles.  Checked without the status   *)
(* port's rejection, the leak Accounted names.                             *)
EverySettled ==
  \A e \in Envelopes : poster[e] # "new" ~> ended[e] # "open"

(***************************************************************************)
(* A thread is a Delivery: the abstract queue is the mailbox, the active   *)
(* envelopes are what the one drive holds.                                 *)
(***************************************************************************)
Promised == INSTANCE Delivery WITH
  queue   <- mailbox,
  active  <- UNION {Holding(d) : d \in Drives},
  removed <- Removed,
  settled <- {e \in Envelopes : ended[e] # "open"},
  lost    <- stranded

(* Every step of the thread, however it is suspended and interleaved with  *)
(* its callers, is a step of Delivery or invisible to it: envelopes leave  *)
(* the mailbox from the front or are taken back, never both, and a turn    *)
(* settles all it took and nothing else.                                   *)
ImplementsDelivery == Promised!Spec
=============================================================================
