----------------------------- MODULE HeldSteps ------------------------------
(***************************************************************************)
(* Steps that are held for the user's approval: the queue of steps of a    *)
(* REPL and the runs it parks (packages/repl/src/repl.ts), the guard of    *)
(* the permissions extension and the holds it hands out                    *)
(* (packages/permissions/src/permissions.ts), the approvals the user       *)
(* answers (approvals.ts, ui-approver.ts) and the decisions of a hold      *)
(* (packages/interpreter/src/drive.ts).                                    *)
(*                                                                         *)
(* The REPL runs one job at a time: a step of the agent, or an answer of   *)
(* the user.  A step's code is any sequence of calls of the names that     *)
(* wait for approval.  A call that has to wait parks the run of its step   *)
(* and ends the job; after a later job that was not held itself, the runs  *)
(* whose holds are decided carry on, one after the other.                  *)
(*                                                                         *)
(* The requests are numbered in the order they are issued.  What is        *)
(* modelled of an image is the state permission/pending.                   *)
(***************************************************************************)
EXTENDS Integers, Sequences, FiniteSets, SequencesExt, FiniteSetsExt

CONSTANTS
  Names,       \* what the session asks approval for
  Steps,       \* the agent's steps
  MaxAsks,     \* bound on the requests issued
  MaxRestarts, \* bound on the ends of the process
  MaxCrashes,  \* bound on the steps that throw what is not a Lisp error
  Scopes,      \* the scopes the user approves with
  None         \* no step, no scope, no image

ASSUME ScopesAssumption == Scopes \subseteq {"once", "session", "always"}
ASSUME NoneAssumption ==
  None \notin Steps \cup {"step", "answer", "granted", "refused", "gone", "once", "session", "always"}
ASSUME StepsAssumption == IsFiniteSet(Steps)
ASSUME BoundsAssumption == MaxAsks \in Nat /\ MaxRestarts \in Nat /\ MaxCrashes \in Nat

VARIABLES
  job,      \* the job that runs: "step", "answer" or None
  acting,   \* the step whose code runs, or None
  carrying, \* runStep: past the job's own body, in carryOn()
  todo,     \* carryOn: the holds still to be resumed
  steps,    \* how far each step is
  parked,   \* MemoryRepl.parked
  asks,     \* the requests issued: name, step and the hold's decision
  open,     \* MemoryApprovals.open_
  grants,   \* MemoryApprovals.grants
  holding,  \* the requests whose hold waits for an answer
  saving,   \* the requests whose allow rule is being saved
  allowed,  \* the names the saved config allows
  pending,  \* permission/pending of the interpreter
  image,    \* permission/pending of the image stored last
  armed,    \* permissionsExtension: the guard is up while it is not zero
  failed,   \* evalCode: the step threw, and recover() is still to come
  restarts, crashes, \* counters
  by,       \* history: the request whose answer granted a name last
  answers,  \* history: how often each request was approved and denied
  calls,    \* history: the calls that each approval let through
  untold,   \* history: the steps whose approved call carried on untold
  guarded,  \* history: an interpreter was built with its guard up
  behind    \* history: one was built from an image that was not the last state

user   == <<by, answers, calls, untold, behind>>
counts == <<restarts, crashes>>
vars   == <<job, acting, carrying, todo, steps, parked, asks, open, grants, holding, saving, allowed,
            pending, image, armed, failed, restarts, crashes, by, answers, calls, untold, guarded,
            behind>>

Requests == 1..MaxAsks
Decisions == {None, "granted", "refused", "gone"}

TypeOK ==
  /\ job \in {None, "step", "answer"} /\ acting \in Steps \cup {None}
  /\ carrying \in BOOLEAN /\ todo \in Seq(Requests)
  /\ steps \in [Steps -> {"new", "running", "held", "ended", "lost"}]
  /\ parked \in Seq([hold : Requests, rest : Seq(Requests)])
  /\ asks \in Seq([name : Names, step : Steps, decision : Decisions]) /\ Len(asks) <= MaxAsks
  /\ {open, holding, saving, pending} \subseteq SUBSET DOMAIN asks
  /\ grants \in [Names -> Scopes \cup {None}] /\ allowed \subseteq Names
  /\ image = None \/ image \subseteq DOMAIN asks
  /\ armed \in 0..Cardinality(Steps) /\ failed \in BOOLEAN
  /\ by \in [Names -> 0..MaxAsks]
  /\ answers \in [Requests -> [approved : Nat, denied : Nat]] /\ calls \in [Requests -> Nat]
  /\ untold \subseteq Steps /\ guarded \in BOOLEAN /\ behind \in BOOLEAN

Init ==
  /\ job = None /\ acting = None /\ carrying = FALSE /\ todo = <<>>
  /\ steps = [s \in Steps |-> "new"]
  /\ parked = <<>> /\ asks = <<>>
  /\ open = {} /\ grants = [n \in Names |-> None] /\ holding = {} /\ saving = {}
  /\ allowed = {} /\ pending = {} /\ image = None
  /\ armed = 0 /\ failed = FALSE
  /\ restarts = 0 /\ crashes = 0
  /\ by = [n \in Names |-> 0]
  /\ answers = [q \in Requests |-> [approved |-> 0, denied |-> 0]] /\ calls = [q \in Requests |-> 0]
  /\ untold = {} /\ guarded = FALSE /\ behind = FALSE

-----------------------------------------------------------------------------
(* MemoryApprovals.open(): a request replaces the one for the same name.   *)
Opened(now, requests) ==
  {q \in now : \A r \in requests : asks[q].name # asks[r].name} \cup requests

(* adopt(): the requests kept in the interpreter's state are open again.   *)
Adopted == Opened(open, pending \ open)

(* Mutation of Pruned: what was decided is still kept. *)
PrunedNot(nowOpen) == pending

(* prune(): what is no longer open is no longer kept. *)
Pruned(nowOpen) == pending \cap nowOpen

(* checkpoint(): the image is saved, or is not. *)
Checkpoint(nowPending) == image' \in {image, nowPending}

Decided(entry) == asks[entry.hold].decision # None

(* Array.filter(): what is at some places of a sequence, in their order. *)
Picked(seq, places) ==
  LET nth(k) == CHOOSE i \in places : Cardinality({j \in places : j <= i}) = k
  IN [k \in 1..Cardinality(places) |-> seq[nth(k)]]

DecidedPlaces == {i \in DOMAIN parked : Decided(parked[i])}

(* Mutation of Ready: one run carries on at a time. *)
ReadyOne == Picked(parked, {i \in DecidedPlaces : \A j \in DecidedPlaces : i <= j})

(* carryOn(): the runs whose hold is decided. *)
Ready == Picked(parked, DecidedPlaces)

(* A run that was parked while others were still to be resumed goes on     *)
(* with them once it ends.                                                 *)
HoldsOf(entries) == FlattenSeq([i \in DOMAIN entries |-> <<entries[i].hold>> \o entries[i].rest])

-----------------------------------------------------------------------------
(* serialize(): a step of the agent begins. *)
StartStep(s) ==
  /\ job = None /\ ~failed /\ steps[s] = "new"
  /\ job' = "step" /\ acting' = s /\ steps' = [steps EXCEPT ![s] = "running"]
  /\ open' = Adopted
  /\ armed' = armed + 1
  /\ UNCHANGED <<carrying, todo, parked, asks, grants, holding, saving, allowed, pending, image,
                 failed, counts, user, guarded>>

(* guard(): a call that an earlier approval, or the config, lets through;  *)
(* only an approval for one call is used up by it.                         *)
Granted(n) == n \in allowed \/ grants[n] # None

CallGranted(n) ==
  /\ acting # None /\ n \notin allowed /\ grants[n] = "once"
  /\ grants' = [grants EXCEPT ![n] = None]
  /\ calls' = [calls EXCEPT ![by[n]] = @ + 1]
  /\ UNCHANGED <<job, acting, carrying, todo, steps, parked, asks, open, holding, saving, allowed,
                 pending, image, armed, failed, counts, by, answers, untold, guarded, behind>>

(* The holds that waitFor() drops for a call of a name. *)
Dropped(n) == {q \in holding : asks[q].name = n}

(* Hold.refuse() and Hold.release() count once. *)
Decide(hold, decision) == IF hold.decision = None THEN [hold EXCEPT !.decision = decision] ELSE hold

(* What is left of the requests once one for a name is issued. *)
Others(requests, n) == {r \in requests : asks[r].name # n}

(* Mutation of CallHeld: an earlier call that waits is not dropped. *)
CallHeldToo(n) ==
  /\ acting # None /\ ~Granted(n) /\ Len(asks) < MaxAsks
  /\ LET q == Len(asks) + 1
     IN /\ asks' = Append(asks, [name |-> n, step |-> acting, decision |-> None])
        /\ open' = Others(open, n) \cup {q}
        /\ pending' = Others(pending, n) \cup {q}
        /\ holding' = holding \cup {q}
        /\ parked' = Append(parked, [hold |-> q, rest |-> todo])
  /\ steps' = [steps EXCEPT ![acting] = "held"]
  /\ job' = None /\ acting' = None /\ carrying' = FALSE /\ todo' = <<>>
  /\ Checkpoint(pending')
  /\ UNCHANGED <<grants, saving, allowed, armed, failed, counts, user, guarded>>

(* guard(), ask(), waitFor() and untilHeld(): a call that has to wait.  An *)
(* earlier call of the name that waits is refused; the run is parked, with *)
(* what was still to be resumed after it, and the job ends.                *)
CallHeld(n) ==
  /\ acting # None /\ ~Granted(n) /\ Len(asks) < MaxAsks
  /\ LET q == Len(asks) + 1
     IN /\ asks' = Append([r \in DOMAIN asks |->
                             IF r \in Dropped(n) THEN Decide(asks[r], "refused") ELSE asks[r]],
                          [name |-> n, step |-> acting, decision |-> None])
        /\ open' = Others(open, n) \cup {q}
        /\ pending' = Others(pending, n) \cup {q}
        /\ holding' = (holding \ Dropped(n)) \cup {q}
        /\ parked' = Append(parked, [hold |-> q, rest |-> todo])
  /\ steps' = [steps EXCEPT ![acting] = "held"]
  /\ job' = None /\ acting' = None /\ carrying' = FALSE /\ todo' = <<>>
  /\ Checkpoint(pending')
  /\ UNCHANGED <<grants, saving, allowed, armed, failed, counts, user, guarded>>

(* The code of a step comes to its end, by itself or with a Lisp error.    *)
End ==
  /\ acting # None
  /\ acting' = None /\ steps' = [steps EXCEPT ![acting] = "ended"]
  /\ armed' = armed - 1
  /\ pending' = Pruned(open)
  /\ UNCHANGED <<job, carrying, todo, parked, asks, open, grants, holding, saving, allowed, image,
                 failed, counts, user, guarded>>

(* The steps to be resumed with a job are lost when it throws. *)
LostWith(holds) == {asks[holds[i]].step : i \in DOMAIN holds}

(* The code throws what caught() does not take for an error of the step:   *)
(* the job rejects without a checkpoint, and evalCode() goes on to         *)
(* recover().  uiActionOn() does not.                                      *)
Crash ==
  /\ acting # None /\ crashes < MaxCrashes
  /\ crashes' = crashes + 1
  /\ steps' = [s \in Steps |-> IF s = acting THEN "ended"
                               ELSE IF s \in LostWith(todo) THEN "lost" ELSE steps[s]]
  /\ armed' = armed - 1
  /\ pending' = Pruned(open)
  /\ failed' = (failed \/ job = "step")
  /\ job' = None /\ acting' = None /\ carrying' = FALSE /\ todo' = <<>>
  /\ UNCHANGED <<parked, asks, open, grants, holding, saving, allowed, image, restarts, user, guarded>>

(* runStep(): the job's own body ended, and some parked runs are decided.  *)
CarryOn ==
  /\ job # None /\ acting = None /\ ~carrying /\ Ready # <<>>
  /\ carrying' = TRUE /\ todo' = HoldsOf(Ready)
  /\ parked' = Picked(parked, {i \in DOMAIN parked : \A k \in DOMAIN Ready : Ready[k] # parked[i]})
  /\ UNCHANGED <<job, acting, steps, asks, open, grants, holding, saving, allowed, pending, image,
                 armed, failed, counts, user, guarded>>

(* Hold.resume(): the run goes on with the call it was held at, or with    *)
(* its refusal.  What it prints is in the job's message; an answer's is    *)
(* told to the agent, and evalCode() drops a step's.                       *)
Resume ==
  /\ carrying /\ acting = None /\ todo # <<>>
  /\ LET q == Head(todo)
     IN /\ acting' = asks[q].step /\ steps' = [steps EXCEPT ![asks[q].step] = "running"]
        /\ calls' = IF asks[q].decision = "granted" THEN [calls EXCEPT ![q] = @ + 1] ELSE calls
        /\ untold' = IF job = "step" /\ asks[q].decision = "granted"
                    THEN untold \cup {asks[q].step} ELSE untold
  /\ todo' = Tail(todo)
  /\ UNCHANGED <<job, carrying, parked, asks, open, grants, holding, saving, allowed, pending, image,
                 armed, failed, counts, by, answers, guarded, behind>>

(* The job ends with a checkpoint. *)
Finish ==
  /\ job # None /\ acting = None
  /\ IF carrying THEN todo = <<>> ELSE Ready = <<>>
  /\ job' = None /\ carrying' = FALSE
  /\ Checkpoint(pending)
  /\ UNCHANGED <<acting, todo, steps, parked, asks, open, grants, holding, saving, allowed, pending,
                 armed, failed, counts, user, guarded>>

-----------------------------------------------------------------------------
(* MemoryApprovals.resolve(): an approval is a grant of its name, and what *)
(* onResolved() makes of it: the grant for one call is used up by the call *)
(* that is held.                                                           *)
GrantedBy(q, scope, held) ==
  IF held /\ scope = "once" THEN [grants EXCEPT ![asks[q].name] = None]
                            ELSE [grants EXCEPT ![asks[q].name] = scope]

(* An allow rule for good is saved before the call goes on, by remember(), *)
(* which is asynchronous whatever the store.                               *)
Saves(scope) == scope = "always"

(* Mutation of Approve: the grant is left for another call. *)
ApproveTwice(q, scope) ==
  LET held == q \in holding
  IN /\ grants' = [grants EXCEPT ![asks[q].name] = scope]
     /\ by' = [by EXCEPT ![asks[q].name] = q]
     /\ answers' = [answers EXCEPT ![q].approved = @ + 1]
     /\ saving' = IF Saves(scope) THEN saving \cup {q} ELSE saving
     /\ asks' = IF held /\ ~Saves(scope) THEN [asks EXCEPT ![q] = Decide(@, "granted")] ELSE asks

Approve(q, scope) ==
  LET held == q \in holding
  IN /\ grants' = GrantedBy(q, scope, held)
     /\ by' = [by EXCEPT ![asks[q].name] = q]
     /\ answers' = [answers EXCEPT ![q].approved = @ + 1]
     /\ saving' = IF Saves(scope) THEN saving \cup {q} ELSE saving
     /\ asks' = IF held /\ ~Saves(scope) THEN [asks EXCEPT ![q] = Decide(@, "granted")] ELSE asks

Deny(q) ==
  /\ asks' = IF q \in holding THEN [asks EXCEPT ![q] = Decide(@, "refused")] ELSE asks
  /\ answers' = [answers EXCEPT ![q].denied = @ + 1]
  /\ UNCHANGED <<grants, by, saving>>

(* The user's answer to a request: an invoke step, which adopts before it  *)
(* decides and prunes after.  What is not open is reported as expired.     *)
Answer(q) ==
  /\ job = None /\ q \in Adopted
  /\ job' = "answer"
  /\ open' = Adopted \ {q} /\ pending' = Pruned(open')
  /\ holding' = holding \ {q}
  /\ (\E scope \in Scopes : Approve(q, scope)) \/ Deny(q)
  /\ UNCHANGED <<acting, carrying, todo, steps, parked, allowed, image, armed, failed, counts, calls,
                 untold, guarded, behind>>

(* The store answers: the allow rule is saved, or the call is refused. *)
Saved(q, ok) ==
  /\ q \in saving
  /\ saving' = saving \ {q}
  /\ allowed' = IF ok THEN allowed \cup {asks[q].name} ELSE allowed
  /\ asks' = [asks EXCEPT ![q] = Decide(@, IF ok THEN "granted" ELSE "refused")]
  /\ UNCHANGED <<job, acting, carrying, todo, steps, parked, open, grants, holding, pending, image,
                 armed, failed, counts, user, guarded>>

-----------------------------------------------------------------------------
(* A run that no one can resume any more. *)
Lost(now) == [s \in Steps |-> IF now[s] \in {"running", "held"} THEN "lost" ELSE now[s]]

Kept == IF image = None THEN {} ELSE image

(* recover(): the interpreter is built from the last image, or anew, and   *)
(* the parked runs are forgotten.  The approvals and the extension stay.   *)
Recover ==
  /\ job = None /\ failed
  /\ failed' = FALSE
  /\ parked' = <<>> /\ steps' = Lost(steps)
  /\ pending' = Kept
  /\ guarded' = (guarded \/ armed > 0)
  /\ behind' = (behind \/ Kept # pending)
  /\ UNCHANGED <<job, acting, carrying, todo, asks, open, grants, holding, saving, allowed, image,
                 armed, counts, by, answers, calls, untold>>

(* The process ends and the REPL is built again from its last image, by    *)
(* resume().  What was being saved of the config may have been.            *)
Restart ==
  /\ restarts < MaxRestarts
  /\ restarts' = restarts + 1
  /\ job' = None /\ acting' = None /\ carrying' = FALSE /\ todo' = <<>>
  /\ parked' = <<>> /\ steps' = Lost(steps)
  /\ open' = {} /\ grants' = [n \in Names |-> None] /\ holding' = {} /\ saving' = {}
  /\ \E done \in SUBSET saving : allowed' = allowed \cup {asks[q].name : q \in done}
  /\ pending' = Kept
  /\ armed' = 0 /\ failed' = FALSE
  /\ asks' = [q \in DOMAIN asks |-> Decide(asks[q], "gone")]
  /\ behind' = (behind \/ job # None \/ Kept # pending)
  /\ UNCHANGED <<image, crashes, by, answers, calls, untold, guarded>>

Next ==
  \/ \E s \in Steps : StartStep(s)
  \/ \E n \in Names : CallGranted(n) \/ CallHeld(n)
  \/ End \/ Crash \/ CarryOn \/ Resume \/ Finish
  \/ \E q \in DOMAIN asks : Answer(q)
  \/ \E q \in saving, ok \in BOOLEAN : Saved(q, ok)
  \/ Recover \/ Restart

Spec == Init /\ [][Next]_vars

-----------------------------------------------------------------------------
(***************************************************************************)
(* Properties.                                                             *)
(***************************************************************************)

(* An approval for one call lets one call through, whether the call was    *)
(* held, or is run again in a restored session (permissions.test.ts:74,    *)
(* "runs a call approved once, then asks again"); a call the user denied,  *)
(* or has not answered, is not let through.                                *)
OnceOnly == \A q \in DOMAIN asks : calls[q] <= answers[q].approved

(* A run that is parked can be answered: its request is open and its hold  *)
(* waits for it, or its rule is being saved, or its hold is decided.  A    *)
(* later request for the name, or one of an earlier session, never leaves  *)
(* it waiting for an answer that cannot come.                              *)
Answerable ==
  \A i \in DOMAIN parked :
    LET q == parked[i].hold IN Decided(parked[i]) \/ q \in open \cap holding \/ q \in saving

(* An approved run carries on in the job that approves it: it is left      *)
(* parked for another job to come only if the allow rule of its approval   *)
(* was saved after that job (held-step.test.ts: "ends at the call, then    *)
(* carries on from it once released").                                     *)
CarriesOn ==
  job = None => \A i \in DOMAIN parked :
    asks[parked[i].hold].decision = "granted" => asks[parked[i].hold].name \in allowed

(* Each request is answered once, also when the REPL is built again from   *)
(* its image, unless that image was not its last state                     *)
(* (permissions.test.ts:795: "is not kept once decided, so a later restore *)
(* cannot answer it twice"); and one that was never answered, nor asked    *)
(* again, can still be (:767).                                             *)
AnsweredOnce ==
  behind \/ \A q \in DOMAIN asks :
    /\ answers[q].approved + answers[q].denied <= 1
    /\ \/ q \in open \cup pending \/ answers[q].approved + answers[q].denied > 0
       \/ \E r \in DOMAIN asks : r > q /\ asks[r].name = asks[q].name

(* waitFor() tells the agent "once they answer, this step carries on from  *)
(* the call by itself and you are told what it printed"                    *)
(* (permissions.ts:314).                                                   *)
Told == untold = {}

(* An approval of a call that is held is not for nothing: the run it was   *)
(* for goes on, unless the process ended.                                  *)
Honoured ==
  \A q \in DOMAIN asks :
    (asks[q].decision = "granted" /\ calls[q] = 0) => steps[asks[q].step] # "lost"

(* permissions.test.ts:41: the guard "stays out of the way outside a step, *)
(* so the prelude still loads".                                            *)
Unguarded == ~guarded
=============================================================================
