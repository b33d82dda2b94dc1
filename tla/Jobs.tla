-------------------------------- MODULE Jobs --------------------------------
(***************************************************************************)
(* The supervisor of a tree of agent threads (packages/ai/src/threads.ts): *)
(* jobs asked of a thread, their way to an outcome, and who hears of it.   *)
(*                                                                         *)
(* A job is a message with a return address.  It waits in a mailbox, is    *)
(* consumed by a turn, and when the turn ends settle() either parks it     *)
(* (the turn waits on a human, and the ask surfaces in the root thread) or *)
(* gives it an outcome, which goes to the one waiter in its slot or else,  *)
(* as a new message, to the return address.                                *)
(*                                                                         *)
(* A thread appears here as module Delivery describes it and module Thread *)
(* implements it: a mailbox, a turn that consumes from its front, and      *)
(* promises that resolve when the turn ends or the mailbox is emptied.     *)
(* The atomic step is the code between two awaits.                         *)
(*                                                                         *)
(* A thread that was posted to is not busy before its drive has begun, and *)
(* may be evicted in between (posting).  It drives all the same, out of    *)
(* memory, and whoever asks for the thread next makes a second object with *)
(* the same mailbox (doubled).  Each resolves the promises of the posts it *)
(* was given itself and no others, and cancels its own turn only: which of *)
(* the two does what is left open here, so whatever either could do, one   *)
(* of the steps of a doubled thread does; signal and held are not kept for *)
(* it.                                                                     *)
(***************************************************************************)
EXTENDS Naturals, Sequences, FiniteSets, SequencesExt

CONSTANTS
  Threads,   \* the threads of one tree
  Parent,    \* each thread's parent, Nobody for the root
  Nobody,    \* no thread, job or waiter
  Jobs,      \* the jobs ever asked
  Waits,     \* the calls of wait()
  MayHold,   \* the threads whose steps may wait on a human
  MaxLive,   \* how many threads stay in memory
  MaxCalls,  \* how often anyone posts, answers, cancels or stops
  Note       \* a message that carries no job

ASSUME ParentAssumption == Parent \in [Threads -> Threads \cup {Nobody}]
ASSUME NobodyAssumption == Nobody \notin Threads \cup Jobs \cup Waits
ASSUME NoteAssumption   == Note \notin Jobs
ASSUME HoldAssumption   == MayHold \subseteq Threads
ASSUME BoundAssumption  == MaxLive \in Nat \ {0} /\ MaxCalls \in Nat

VARIABLES
  state,      \* Job.state, "none" before it is asked
  thread,     \* Job.thread
  replyTo,    \* Job.replyTo
  outcome,    \* Job.outcome
  slot,       \* Job.waiter: the wait() its outcome will resolve
  ended,      \* what post().ended resolved to and settle() has not seen yet
  stage,      \* where settle() or deliver() awaits for the job
  cancelling, \* the jobs whose cancel() awaits withdraw()
  asking,     \* Threads.asking: the held job a thread's answer resumes
  returns,    \* Threads.returns: where what a thread hears is passed on to
  live,       \* the keys of Threads.live
  posting,    \* the threads at rest that await mailbox.post
  mailbox,    \* what waits for a thread, eldest first
  turn,       \* what a thread's turn has consumed
  signal,     \* the turn's AbortController: "live" or why it aborted
  held,       \* Thread.held: its last turn ended in a held step
  parked,     \* its repl keeps a step that waits on a human
  waits,      \* each wait(): its job and how it went
  calls,      \* how often anyone posted, answered, cancelled or stopped
  replied,    \* history: how often deliver() posted the job's reply
  hushed,     \* history: the jobs a stop() found nobody left to hear
  forgotten,  \* history: the threads evicted with a parked step
  doubled     \* the threads evicted while they awaited mailbox.post

jobs    == <<state, thread, replyTo, outcome, slot, ended, stage, cancelling>>
places  == <<mailbox, turn, signal, posting>>
memory  == <<live, held, parked, forgotten, doubled>>
routes  == <<asking, returns>>
history == <<replied, hushed>>
vars    == <<jobs, places, memory, routes, history, waits, calls>>

Final    == {"answer", "failed", "stopped", "cancelled", "withdrawn"}
Outcomes == Final \cup {"held"}

TypeOK ==
  /\ state \in [Jobs -> {"none", "pending", "held", "done", "failed", "cancelled"}]
  /\ thread \in [Jobs -> Threads \cup {Nobody}]
  /\ replyTo \in [Jobs -> Threads \cup {Nobody}]
  /\ outcome \in [Jobs -> Outcomes \cup {"none"}]
  /\ slot \in [Jobs -> Waits \cup {Nobody}]
  /\ ended \in [Jobs -> Outcomes \cup {"none"}]
  /\ stage \in [Jobs -> {"no", "rooting", "replying"}]
  /\ cancelling \subseteq Jobs
  /\ asking \in [Threads -> Jobs \cup {Nobody}]
  /\ returns \in [Threads -> Threads \cup {Nobody}]
  /\ live \subseteq Threads /\ posting \subseteq Threads
  /\ mailbox \in [Threads -> Seq(Jobs \cup {Note})]
  /\ turn \in [Threads -> SUBSET (Jobs \cup {Note})]
  /\ signal \in [Threads -> {"live", "stopped", "cancelled"}]
  /\ held \in [Threads -> BOOLEAN]
  /\ parked \in [Threads -> BOOLEAN]
  /\ waits \in [Waits -> [job : Jobs \cup {Nobody},
                          went : {"idle", "waiting", "told", "late", "gave up"}]]
  /\ calls \in 0..MaxCalls
  /\ replied \in [Jobs -> Nat]
  /\ hushed \subseteq Jobs
  /\ forgotten \subseteq Threads /\ doubled \subseteq Threads

Init ==
  /\ state = [j \in Jobs |-> "none"]
  /\ thread = [j \in Jobs |-> Nobody] /\ replyTo = [j \in Jobs |-> Nobody]
  /\ outcome = [j \in Jobs |-> "none"] /\ slot = [j \in Jobs |-> Nobody]
  /\ ended = [j \in Jobs |-> "none"] /\ stage = [j \in Jobs |-> "no"]
  /\ cancelling = {}
  /\ asking = [t \in Threads |-> Nobody] /\ returns = [t \in Threads |-> Nobody]
  /\ live = {} /\ posting = {}
  /\ mailbox = [t \in Threads |-> <<>>] /\ turn = [t \in Threads |-> {}]
  /\ signal = [t \in Threads |-> "live"]
  /\ held = [t \in Threads |-> FALSE] /\ parked = [t \in Threads |-> FALSE]
  /\ waits = [w \in Waits |-> [job |-> Nobody, went |-> "idle"]]
  /\ calls = 0
  /\ replied = [j \in Jobs |-> 0] /\ hushed = {}
  /\ forgotten = {} /\ doubled = {}

(* ancestors(): the chain of parents. *)
Above == LET above[t \in Threads] ==
               IF Parent[t] = Nobody THEN {} ELSE {Parent[t]} \cup above[Parent[t]]
         IN above

Root(t) == Parent[t] = Nobody
Tree(t) == {t} \cup {d \in Threads : t \in Above[d]}
Inbox(t) == ToSet(mailbox[t]) \ {Note}

-----------------------------------------------------------------------------
(* A thread drives from the post that starts it until nothing waits for it *)
(* (Thread.running), and is busy meanwhile, and while its last turn ended  *)
(* held; nobody watches it.                                                *)
Drives(t) == (mailbox[t] # <<>> /\ t \notin posting) \/ turn[t] # {}
Busy(t) == Drives(t) \/ held[t]

(* get(): a thread not in memory is made anew, and makes room for itself   *)
(* among the threads that are not busy.  Which of those were used longest  *)
(* ago is left open, and which of two objects of a doubled one was busy.   *)
(* A thread's repl goes with it.                                           *)
Get(t) ==
  LET standing == live \cup {t}
      surplus  == IF t \in live THEN 0 ELSE Cardinality(standing) - MaxLive
      others   == live \ {t}
      idle     == {x \in others : ~Busy(x)}
  IN \E gone \in SUBSET (idle \cup (others \cap doubled)) :
       /\ \/ Cardinality(gone) = surplus
          \/ idle \ doubled \subseteq gone /\ Cardinality(gone) < surplus
          \/ gone = {} /\ surplus <= 0
       /\ live' = standing \ gone
       /\ held' = [x \in Threads |-> x \notin gone /\ held[x]]
       /\ parked' = [x \in Threads |-> x \notin gone /\ parked[x]]
       /\ forgotten' = forgotten \cup {x \in gone : parked[x]}
       /\ doubled' = doubled \cup (gone \cap posting)

(* post(), up to the await of mailbox.post.                                *)
Deposit(t, mail) ==
  /\ mailbox' = [mailbox EXCEPT ![t] = Append(@, mail)]
  /\ posting' = IF Drives(t) THEN posting ELSE posting \cup {t}

(* A call from outside, of which there are MaxCalls.                       *)
Called == calls < MaxCalls /\ calls' = calls + 1

(* ask(): a new job, its return address, and its envelope in the mailbox.  *)
Asked(j, t, back) ==
  /\ state[j] = "none"
  /\ state' = [state EXCEPT ![j] = "pending"]
  /\ thread' = [thread EXCEPT ![j] = t]
  /\ replyTo' = [replyTo EXCEPT ![j] = back]
  /\ returns' = [returns EXCEPT ![t] = back]
  /\ Get(t)
  /\ Deposit(t, j)

(* A parent sends to its child, in a turn of its own or a form of its      *)
(* user: SupervisedAgents.send.                                            *)
Ask(j, t) ==
  /\ ~Root(t)
  /\ Asked(j, t, Parent[t])
  /\ UNCHANGED <<outcome, slot, ended, stage, cancelling, turn, signal, asking,
                 history, waits, calls>>

(* Somebody posts to a thread without asking: a chat message, a steer.     *)
Post(t) ==
  /\ Called
  /\ Get(t)
  /\ Deposit(t, Note)
  /\ UNCHANGED <<jobs, turn, signal, routes, history, waits>>

-----------------------------------------------------------------------------
(* ... mailbox.post has returned, and the thread drives.                   *)
Start(t) ==
  /\ t \in posting
  /\ posting' = posting \ {t}
  /\ UNCHANGED <<jobs, mailbox, turn, signal, memory, routes, history, waits, calls>>

(* The thread opens a turn with its eldest message; Thread.held goes down. *)
(* The turn asks for the thread's repl, which gets the thread (repl()).    *)
Begin(t) ==
  /\ mailbox[t] # <<>>
  /\ t \in doubled \/ (turn[t] = {} /\ t \notin posting)
  /\ turn' = [turn EXCEPT ![t] = @ \cup {Head(mailbox[t])}]
  /\ mailbox' = [mailbox EXCEPT ![t] = Tail(@)]
  /\ IF t \in live
       THEN /\ held' = [held EXCEPT ![t] = FALSE]
            /\ UNCHANGED <<live, parked, forgotten, doubled>>
       ELSE Get(t)
  /\ UNCHANGED <<jobs, signal, posting, routes, history, waits, calls>>

(* A running turn takes whatever waits.                                    *)
Steer(t) ==
  /\ turn[t] # {} /\ mailbox[t] # <<>>
  /\ signal[t] = "live" \/ t \in doubled
  /\ turn' = [turn EXCEPT ![t] = @ \cup ToSet(mailbox[t])]
  /\ mailbox' = [mailbox EXCEPT ![t] = <<>>]
  /\ UNCHANGED <<jobs, signal, posting, memory, routes, history, waits, calls>>

(* The turn ends and every promise it answers for resolves.  A turn that   *)
(* was aborted may have answered, held or failed before it noticed.  Of a  *)
(* doubled thread a part of what was consumed ends, for whatever reason,   *)
(* and some of it may find no promise (this.tracked.get(id)?.end).         *)
End(t, what) ==
  /\ turn[t] # {}
  /\ what = "held" => t \in MayHold
  /\ \E done \in SUBSET turn[t] \ {{}} : \E told \in SUBSET done : \E kept \in BOOLEAN :
       /\ t \notin doubled => done = turn[t] /\ told = done /\ kept
       /\ \E came \in IF what # "failed" THEN {what}
                      ELSE IF t \in doubled THEN {"failed", "stopped", "cancelled"}
                      ELSE IF signal[t] # "live" THEN {signal[t]} ELSE {what} :
            ended' = [j \in Jobs |-> IF j \in told THEN came ELSE ended[j]]
       /\ turn' = [turn EXCEPT ![t] = @ \ done]
       /\ parked' = [parked EXCEPT ![t] = @ \/ (what = "held" /\ kept)]
  /\ signal' = [signal EXCEPT ![t] = "live"]
  /\ held' = [held EXCEPT ![t] = what = "held" /\ t \notin doubled]
  /\ UNCHANGED <<state, thread, replyTo, outcome, slot, stage, cancelling, mailbox,
                 posting, live, forgotten, doubled, routes, history, waits, calls>>

-----------------------------------------------------------------------------
StateOf(what) ==
  CASE what = "held"   -> "held"
    [] what = "answer" -> "done"
    [] OTHER           -> "failed"

(* Jobs get their outcomes, except that a doomed or cancelled job stays    *)
(* cancelled.  The waiter in a job's slot hears of it; only without one,   *)
(* and only for a job not cancelled and not held, is the return address    *)
(* written to (settle, and release for the doomed).                        *)
Conclude(out, doomed) ==
  LET dead == doomed \cup {j \in Jobs : state[j] = "cancelled"}
      now  == DOMAIN out
  IN /\ state' = [j \in Jobs |-> IF j \in dead THEN "cancelled"
                                 ELSE IF j \in now THEN StateOf(out[j])
                                 ELSE state[j]]
     /\ outcome' = [j \in Jobs |-> IF j \in now THEN out[j] ELSE outcome[j]]
     /\ stage' = [j \in Jobs |->
          IF j \notin now THEN stage[j]
          ELSE IF /\ slot[j] = Nobody /\ replyTo[j] # Nobody
                  /\ j \notin dead /\ out[j] # "held"
               THEN "replying" ELSE "no"]
     /\ slot' = [j \in Jobs |-> IF j \in now THEN Nobody ELSE slot[j]]
     /\ waits' = [w \in Waits |-> IF \E j \in now : slot[j] = w
                                  THEN [waits[w] EXCEPT !.went = "told"] ELSE waits[w]]

(* settle(), up to its first await. *)
Settle(j) ==
  /\ ended[j] # "none" /\ stage[j] = "no"
  /\ ended' = [ended EXCEPT ![j] = "none"]
  /\ IF ended[j] = "held" /\ state[j] # "cancelled"
       THEN /\ stage' = [stage EXCEPT ![j] = "rooting"]
            /\ UNCHANGED <<state, outcome, slot, waits>>
       ELSE Conclude([k \in {j} |-> ended[j]], {})
  /\ UNCHANGED <<thread, replyTo, cancelling, places, memory, routes, history, calls>>

(* ... settle() knows the root: a job below it is held until the human     *)
(* answers, whatever became of its state meanwhile; a job of the root      *)
(* itself has its outcome.                                                 *)
Rooted(j) ==
  /\ stage[j] = "rooting"
  /\ IF Root(thread[j])
       THEN /\ Conclude([k \in {j} |-> "held"], {})
            /\ UNCHANGED asking
       ELSE /\ stage' = [stage EXCEPT ![j] = "no"]
            /\ state' = [state EXCEPT ![j] = "held"]
            /\ asking' = [asking EXCEPT ![thread[j]] = j]
            /\ UNCHANGED <<outcome, slot, waits>>
  /\ UNCHANGED <<thread, replyTo, ended, cancelling, places, memory, returns,
                 history, calls>>

(* Mutation of Reply: only what is passed on is sent.                      *)
ReplyOnlyOnward(j) ==
  /\ stage[j] = "replying"
  /\ stage' = [stage EXCEPT ![j] = "no"]
  /\ LET to == replyTo[j]
     IN IF returns[to] = Nobody
          THEN UNCHANGED <<state, thread, replyTo, returns, replied, mailbox, posting, memory>>
          ELSE /\ replied' = [replied EXCEPT ![j] = @ + 1]
               /\ \E k \in Jobs : Asked(k, to, returns[to])
  /\ UNCHANGED <<outcome, slot, ended, cancelling, turn, signal, asking, hushed,
                 waits, calls>>

(* deliver(): the return address hears, by a message or, when what it      *)
(* hears is itself passed on, by a job of its own.                         *)
Reply(j) ==
  /\ stage[j] = "replying"
  /\ stage' = [stage EXCEPT ![j] = "no"]
  /\ replied' = [replied EXCEPT ![j] = @ + 1]
  /\ LET to == replyTo[j]
     IN IF returns[to] = Nobody
          THEN /\ Get(to) /\ Deposit(to, Note)
               /\ UNCHANGED <<state, thread, replyTo, returns>>
          ELSE \E k \in Jobs : Asked(k, to, returns[to])
  /\ UNCHANGED <<outcome, slot, ended, cancelling, turn, signal, asking, hushed,
                 waits, calls>>

(* Mutation of Answer: the answered job is still the one that asks.        *)
AnswerKeepsAsking(t) ==
  /\ Called /\ parked[t] /\ t \in live
  /\ \E again \in BOOLEAN : parked' = [parked EXCEPT ![t] = again]
  /\ LET j == asking[t]
     IN IF j # Nobody /\ state[j] = "held"
          THEN /\ state' = [state EXCEPT ![j] = "pending"]
               /\ Deposit(t, j)
               /\ UNCHANGED asking
          ELSE /\ Deposit(t, Note)
               /\ UNCHANGED <<asking, state>>
  /\ UNCHANGED <<thread, replyTo, outcome, slot, ended, stage, cancelling, turn,
                 signal, live, held, forgotten, doubled, returns, history, waits>>

(* answer() and followUp(): the human answers, the parked step carries on  *)
(* (and may park again), and its result resumes the job that asked or, if  *)
(* none does, is posted.                                                   *)
Answer(t) ==
  /\ Called /\ parked[t] /\ t \in live
  /\ \E again \in BOOLEAN : parked' = [parked EXCEPT ![t] = again]
  /\ LET j == asking[t]
     IN IF j # Nobody /\ state[j] = "held"
          THEN /\ asking' = [asking EXCEPT ![t] = Nobody]
               /\ state' = [state EXCEPT ![j] = "pending"]
               /\ Deposit(t, j)
          ELSE /\ Deposit(t, Note)
               /\ UNCHANGED <<asking, state>>
  /\ UNCHANGED <<thread, replyTo, outcome, slot, ended, stage, cancelling, turn,
                 signal, live, held, forgotten, doubled, returns, history, waits>>

-----------------------------------------------------------------------------
(* wait(): an outcome that is there is returned; otherwise the call takes  *)
(* the job's one slot, from whoever had it.                                *)
Wait(w, j) ==
  /\ waits[w].went = "idle" /\ state[j] # "none"
  /\ IF outcome[j] # "none"
       THEN /\ waits' = [waits EXCEPT ![w] = [job |-> j, went |-> "late"]]
            /\ UNCHANGED slot
       ELSE /\ waits' = [waits EXCEPT ![w] = [job |-> j, went |-> "waiting"]]
            /\ slot' = [slot EXCEPT ![j] = w]
  /\ UNCHANGED <<state, thread, replyTo, outcome, ended, stage, cancelling,
                 places, memory, routes, history, calls>>

(* Its caller gives up, which empties the slot whoever is in it.           *)
GiveUp(w) ==
  /\ waits[w].went = "waiting"
  /\ waits' = [waits EXCEPT ![w].went = "gave up"]
  /\ slot' = [slot EXCEPT ![waits[w].job] = Nobody]
  /\ UNCHANGED <<state, thread, replyTo, outcome, ended, stage, cancelling,
                 places, memory, routes, history, calls>>

-----------------------------------------------------------------------------
(* Mutation of Halt: what waits is dropped and nobody is told.             *)
HaltSilently(doomed, why) ==
  /\ signal' = [t \in Threads |->
       IF t \in (doomed \cap live) \ doubled /\ turn[t] # {} /\ signal[t] = "live"
         THEN why ELSE signal[t]]
  /\ mailbox' = [t \in Threads |-> IF t \in doomed \cap live THEN <<>> ELSE mailbox[t]]
  /\ UNCHANGED ended

(* Thread.cancel on each thread in memory: abort its turn, and settle what *)
(* waits, as far as the object that is asked knows of it.                  *)
Halt(doomed, why) ==
  /\ signal' = [t \in Threads |->
       IF t \in (doomed \cap live) \ doubled /\ turn[t] # {} /\ signal[t] = "live"
         THEN why ELSE signal[t]]
  /\ mailbox' = [t \in Threads |-> IF t \in doomed \cap live THEN <<>> ELSE mailbox[t]]
  /\ LET dropped == UNION {Inbox(t) : t \in doomed \cap live}
     IN \E told \in SUBSET dropped :
          /\ dropped \ told \subseteq UNION {Inbox(t) : t \in doubled}
          /\ ended' = [j \in Jobs |-> IF j \in told THEN why ELSE ended[j]]

(* The held jobs the threads wait on a human for.                          *)
HeldIn(doomed) == {j \in Jobs : state[j] = "held" /\ \E t \in doomed : asking[t] = j}
Disowned(R) == asking' = [t \in Threads |-> IF asking[t] \in R THEN Nobody ELSE asking[t]]

(* cancel(thread): it and everything below, held jobs released first.      *)
CancelTree(t) ==
  LET R == HeldIn(Tree(t))
  IN /\ Halt(Tree(t), "cancelled")
     /\ Conclude([j \in R |-> "cancelled"], R)
     /\ Disowned(R)
     /\ UNCHANGED <<thread, replyTo, turn, posting, memory, returns, history>>

CancelThread(t) ==
  /\ Called
  /\ CancelTree(t)
  /\ UNCHANGED cancelling

(* Thread.withdraw: the job leaves the mailbox, and its promise resolves   *)
(* where the thread asked is the one that made it.                         *)
Withdraw(j) ==
  /\ \E i \in DOMAIN mailbox[thread[j]] :
       /\ mailbox[thread[j]][i] = j
       /\ mailbox' = [mailbox EXCEPT ![thread[j]] = RemoveAt(@, i)]
  /\ \E told \in {"withdrawn"} \cup {ended[j] : t \in doubled \cap {thread[j]}} :
       ended' = [ended EXCEPT ![j] = told]

(* Mutation of CancelJob: a job that has its outcome is cancelled as well. *)
CancelAnyJob(j) ==
  /\ Called /\ state[j] # "none" /\ j \notin cancelling
  /\ IF state[j] = "held"
       THEN /\ Conclude([k \in {j} |-> "cancelled"], {j})
            /\ Disowned({asking[thread[j]]})
            /\ UNCHANGED <<ended, cancelling, mailbox, memory>>
       ELSE /\ state' = [state EXCEPT ![j] = "cancelled"]
            /\ Get(thread[j])
            /\ IF j \in Inbox(thread[j])
                 THEN Withdraw(j) /\ UNCHANGED cancelling
                 ELSE cancelling' = cancelling \cup {j} /\ UNCHANGED <<mailbox, ended>>
            /\ UNCHANGED <<outcome, slot, stage, waits, asking>>
  /\ UNCHANGED <<thread, replyTo, turn, signal, posting, returns, history>>

(* cancel(job): a held job is released; a waiting one is withdrawn; for    *)
(* one that runs, the whole tree of its thread is cancelled next.  The     *)
(* release clears whatever job its thread was asking for.                  *)
CancelJob(j) ==
  /\ Called /\ state[j] # "none" /\ outcome[j] = "none" /\ j \notin cancelling
  /\ IF state[j] = "held"
       THEN /\ Conclude([k \in {j} |-> "cancelled"], {j})
            /\ Disowned({asking[thread[j]]})
            /\ UNCHANGED <<ended, cancelling, mailbox, memory>>
       ELSE /\ state' = [state EXCEPT ![j] = "cancelled"]
            /\ Get(thread[j])
            /\ IF j \in Inbox(thread[j])
                 THEN Withdraw(j) /\ UNCHANGED cancelling
                 ELSE cancelling' = cancelling \cup {j} /\ UNCHANGED <<mailbox, ended>>
            /\ UNCHANGED <<outcome, slot, stage, waits, asking>>
  /\ UNCHANGED <<thread, replyTo, turn, signal, posting, returns, history>>

(* ... withdraw() found nothing.                                           *)
CancelRunning(j) ==
  /\ j \in cancelling
  /\ cancelling' = cancelling \ {j}
  /\ CancelTree(thread[j])
  /\ UNCHANGED calls

(* Mutation of Stop: only the threads are stopped, no job is hushed.       *)
StopAloud(t, doomed) ==
  LET R == HeldIn(doomed)
  IN /\ Called
     /\ Halt(doomed, "stopped")
     /\ Conclude([j \in R |-> "stopped"], {})
     /\ Disowned(R)
     /\ hushed' = hushed \cup {j \in Jobs : /\ thread[j] \in doomed /\ replyTo[j] \in doomed
                                             /\ state[j] \in {"pending", "held"}
                                             /\ stage[j] = "no"}
     /\ UNCHANGED <<thread, replyTo, cancelling, turn, posting, memory, returns, replied>>

(* stop(): the user stops one thread, or a thread and all below.  A job    *)
(* whose return address is stopped too is cancelled; any other held job    *)
(* fails, and its return address hears that it was stopped.                *)
Stop(t, doomed) ==
  LET unheard == {j \in Jobs : replyTo[j] \in doomed}
      mute    == {j \in unheard : state[j] = "pending" /\ thread[j] \in doomed}
      R       == HeldIn(doomed)
  IN /\ Called
     /\ Halt(doomed, "stopped")
     /\ Conclude([j \in R |-> IF j \in unheard THEN "cancelled" ELSE "stopped"],
                 mute \cup (R \cap unheard))
     /\ Disowned(R)
     /\ hushed' = hushed \cup {j \in mute : stage[j] = "no"} \cup (R \cap unheard)
     /\ UNCHANGED <<thread, replyTo, cancelling, turn, posting, memory, returns, replied>>

-----------------------------------------------------------------------------
Work(t) ==
  \/ Start(t)
  \/ Begin(t)
  \/ \E what \in {"answer", "held", "failed"} : End(t, what)

Continue(j) == Settle(j) \/ Rooted(j) \/ Reply(j) \/ CancelRunning(j)

Next ==
  \/ \E j \in Jobs : Continue(j) \/ CancelJob(j)
  \/ \E j \in Jobs, t \in Threads : Ask(j, t)
  \/ \E t \in Threads : \/ Work(t) \/ Steer(t) \/ Post(t) \/ Answer(t)
                        \/ CancelThread(t)
                        \/ \E doomed \in {{t}, Tree(t)} : Stop(t, doomed)
  \/ \E w \in Waits, j \in Jobs : Wait(w, j)
  \/ \E w \in Waits : GiveUp(w)

Spec == Init /\ [][Next]_vars

(* Turns end and the event loop runs every continuation.  No human has to  *)
(* answer, stop, cancel or give up.                                        *)
Fairness ==
  /\ \A t \in Threads : WF_vars(Work(t))
  /\ \A j \in Jobs : WF_vars(Continue(j))

FairSpec == Spec /\ Fairness

-----------------------------------------------------------------------------
(***************************************************************************)
(* Properties.                                                             *)
(***************************************************************************)

(* The outcome of a job is heard once: its return address gets at most one *)
(* reply, and none when a waiter got the outcome ("A message you wait on   *)
(* sends no system event later", agents.ts:559), nor when a stop took the  *)
(* return address along (threads.test.ts:353).                             *)
HeardOnce ==
  \A j \in Jobs :
    /\ replied[j] <= IF j \in hushed THEN 0 ELSE 1
    /\ replied[j] = 1 =>
         outcome[j] \in Final /\ \A w \in Waits : waits[w] # [job |-> j, went |-> "told"]

(* What a thread's next human answer resumes is a job of that thread which *)
(* is held and has no outcome, through every cancel, stop and follow-up.   *)
AskingIsHeld ==
  \A t \in Threads : asking[t] # Nobody =>
    /\ thread[asking[t]] = t
    /\ state[asking[t]] = "held" /\ outcome[asking[t]] = "none"

(* A job without an outcome is never in two places that would give it one: *)
(* a mailbox, a turn, a promise not looked at yet, a continuation of       *)
(* settle(), or the human.  It is in one of them as long as its thread was *)
(* not evicted in the gap before its drive, and then the thread of its     *)
(* mailbox or turn is in memory, however many others are opened            *)
(* (threads.test.ts:142).                                                  *)
OnePlace ==
  \A j \in Jobs :
    LET at == {t \in Threads : j \in Inbox(t)} \cup {t \in Threads : j \in turn[t]}
        many == Cardinality({t \in Threads : j \in Inbox(t)})
                + Cardinality({t \in Threads : j \in turn[t]})
                + (IF ended[j] # "none" THEN 1 ELSE 0)
                + (IF stage[j] = "rooting" THEN 1 ELSE 0)
                + (IF state[j] = "held" /\ outcome[j] = "none" THEN 1 ELSE 0)
    IN /\ at \subseteq {thread[j]} \cap (live \cup doubled)
       /\ many <= IF state[j] = "none" \/ outcome[j] # "none" THEN 0 ELSE 1
       /\ state[j] # "none" /\ outcome[j] = "none" /\ thread[j] \notin doubled => many = 1

(* A job that has an outcome keeps it, and its state.  A cancelled job     *)
(* stays cancelled, with one exception the code leaves open: a cancel that *)
(* lands while settle() awaits the root is overwritten by "held".          *)
Finality ==
  [][\A j \in Jobs :
       /\ outcome[j] # "none" => outcome'[j] = outcome[j] /\ state'[j] = state[j]
       /\ state[j] = "cancelled" /\ stage[j] # "rooting" => state'[j] = "cancelled"]_vars

(* Every job that is asked is decided, and heard of: it does not stay      *)
(* pending; when it is done or failed the waiter in its slot or its return *)
(* address hears of it, and when it is cancelled it gets its outcome.  Two *)
(* objects of one thread may lose a job between them.                      *)
Heard ==
  \A j \in Jobs :
    /\ state[j] = "pending" ~> state[j] # "pending" \/ thread[j] \in doubled
    /\ state[j] \in {"done", "failed"} ~>
         replied[j] > 0 \/ \E w \in Waits : waits[w] = [job |-> j, went |-> "told"]
    /\ state[j] = "cancelled" ~>
         outcome[j] # "none" \/ state[j] = "held" \/ thread[j] \in doubled

(* The same where nothing goes on any more: with no turn, no message and   *)
(* no continuation left, each job of a thread that was not doubled is      *)
(* decided, and what came of any finished one was heard, unless a stop     *)
(* left nobody to hear it.                                                 *)
HeardAtRest ==
  (\A t \in Threads : mailbox[t] = <<>> /\ turn[t] = {})
  /\ (\A j \in Jobs : ended[j] = "none" /\ stage[j] = "no") /\ cancelling = {} =>
    \A j \in Jobs :
      /\ state[j] = "pending" => thread[j] \in doubled
      /\ state[j] \in {"done", "failed"} =>
           replied[j] > 0 \/ \E w \in Waits : waits[w] = [job |-> j, went |-> "told"]
      /\ state[j] = "cancelled" => outcome[j] # "none" \/ thread[j] \in doubled

(* threads.test.ts:405: a held ask's answer is carried back down.  Every   *)
(* held job below the root is the one its thread's next answer resumes.    *)
HeldIsAsked ==
  \A j \in Jobs : state[j] = "held" /\ outcome[j] = "none" => asking[thread[j]] = j

(* threads.test.ts:156: "never evict a thread that holds a paused step".   *)
PausedStays == forgotten = {}

(* A job that was cancelled, while it settled or not, stays so             *)
(* (threads.ts:355).                                                       *)
CancelStays ==
  [][\A j \in Jobs : state[j] = "cancelled" => state'[j] = "cancelled"]_vars

(* threads.test.ts:142, "never evict a running thread": nor one that is     *)
(* being posted to and runs next.                                          *)
NeverDoubled == doubled = {}

(* agents.ts:559: agent-wait returns what the message replied.  A wait()   *)
(* that has not given up hears the outcome when there is one.              *)
WaiterHears ==
  \A w \in Waits : waits[w].went = "waiting" => outcome[waits[w].job] = "none"
=============================================================================
