------------------------------- MODULE Chats --------------------------------
(***************************************************************************)
(* The status of a chat: what its row says of the turn that runs and of    *)
(* what waits for the user (packages/backend/convex/chats.ts, threads.ts   *)
(* and messages.ts), written by the server's turns through the ports of    *)
(* packages/backend/src/thread-host.ts, by the client when it submits a    *)
(* message (apps/app/src/lib/chat.tsx) or answers an ask                   *)
(* (apps/app/server/agent/ui-action.ts), and by leases, which outlive a    *)
(* server that died.                                                       *)
(*                                                                         *)
(* Every mutation of the database is one step, and a turn is cut at its    *)
(* mutations.  As in the code, a lease is known by the time it was taken   *)
(* at.  Nothing bounds how long a turn takes: it is prepared, with the     *)
(* user's forms, before its deadline is made, and one past its deadline    *)
(* ends when what it awaits lets it.                                       *)
(* Of a transcript, what opens a turn, the asks and their answers are      *)
(* kept; asks are numbered as they come.  Chats share nothing of this: one *)
(* is modelled, and once it is forked, the fork.                           *)
(***************************************************************************)
EXTENDS Integers, Sequences, FiniteSets, SequencesExt

CONSTANTS
  MaxAsks,    \* bound on the asks
  Lease,      \* STREAMING_LEASE_MS
  MaxTime,    \* bound on the clock
  MaxPosts,   \* bound on the messages the user sends
  MaxMail,    \* bound on the messages that wait in the mailbox
  MaxLog,     \* bound on the transcript
  Faults,     \* bound on the crashes and the mutations that are lost
  None        \* no time

ASSUME TimeAssumption == Lease \in Nat \ {0}
ASSUME BoundAssumption == {MaxAsks, MaxTime, MaxPosts, MaxMail, MaxLog, Faults} \subseteq Nat
ASSUME NoneAssumption == None \notin Int

VARIABLES
  clock,    \* Date.now()
  status,   \* chats.status: "idle" where it is undefined, "gone" where there is no row
  since,    \* chats.streamingSince
  leases,   \* the leases scheduled and not run: when each was taken
  log,      \* the transcript
  mail,     \* the thread's mailbox: how many messages it holds
  turn,     \* the thread's turn: its phase, and when its chat was started
  marking,  \* the client's calls of chats.start that have not landed
  answers,  \* the answers on their way: in the chat itself, or as the child that asked
  posts,    \* counter: the messages sent
  faults,   \* counter: the faults so far
  lost,     \* history: what ran or waited was cut off since a turn last began
  marked,   \* history: the lease that counts was taken by the client
  surfaced, \* history: an ask was placed in the idle chat
  silent    \* history: what the waiting chat asked was answered, and it was not told

row  == <<status, since, leases>>
user == <<marking, answers, posts>>
hist == <<lost, marked, surfaced, silent>>
vars == <<clock, status, since, leases, log, mail, turn, marking, answers, posts, faults,
          lost, marked, surfaced, silent>>

Time    == 0..MaxTime
Ask     == 1..MaxAsks
Entry   == [type : {"opening", "asks", "answered"}, asks : SUBSET Ask]
Endings == {"answered", "errored", "stopped"}
NoTurn  == [phase |-> "none", from |-> None]

TypeOK ==
  /\ clock \in Time /\ since \in Time \cup {None} /\ leases \in SUBSET Time
  /\ status \in {"gone", "idle", "streaming", "waiting", "errored", "stopped"}
  /\ log \in Seq(Entry) /\ mail \in Nat
  /\ turn \in {NoTurn} \cup [phase : {"starting", "running"}, from : Time]
  /\ marking \in 0..MaxPosts /\ answers \in SUBSET (Ask \X {"own", "child"})
  /\ posts \in 0..MaxPosts /\ faults \in 0..Faults
  /\ {lost, marked, surfaced, silent} \subseteq BOOLEAN

Init ==
  /\ clock = 0
  /\ status = "idle" /\ since = None /\ leases = {}
  /\ log = <<>> /\ mail = 0 /\ turn = NoTurn
  /\ marking = 0 /\ answers = {} /\ posts = 0
  /\ faults = 0 /\ lost = FALSE /\ marked = FALSE /\ surfaced = FALSE /\ silent = FALSE

-----------------------------------------------------------------------------
Exists == status # "gone"

Opening == [type |-> "opening", asks |-> {}]
Asks(as) == [type |-> "asks", asks |-> as]
Answered(a) == [type |-> "answered", asks |-> {a}]

AppendTo(entry) == Len(log) < MaxLog /\ log' = Append(log, entry)
Post(messages) == mail + messages <= MaxMail /\ mail' = mail + messages

(* latestTurn(): what follows the last message that opens a turn. *)
LatestTurn(messages) ==
  LET from == {i \in DOMAIN messages : \A j \in i..Len(messages) : messages[j].type # "opening"}
  IN  {messages[i] : i \in from}

Named(type, messages) == UNION {m.asks : m \in {n \in messages : n.type = type}}
Asked == Named("asks", ToSet(log))

(* waitsOnUser(): the latest turn asks what it holds no answer to. *)
WaitsOnUser(messages) ==
  Named("asks", LatestTurn(messages)) \ Named("answered", LatestTurn(messages)) # {}

AtRest(messages) == IF WaitsOnUser(messages) THEN "waiting" ELSE "idle"

(* Mutation of StartChat: one that streams already keeps its lease. *)
StartUnrenewed ==
  /\ clock + Lease <= MaxTime
  /\ status' = "streaming"
  /\ since' = IF status = "streaming" THEN since ELSE clock
  /\ leases' = leases \cup {clock}

(* startChat(): the chat streams, under a lease that begins now. *)
StartChat ==
  /\ clock + Lease <= MaxTime
  /\ status' = "streaming"
  /\ since' = clock
  /\ leases' = leases \cup {clock}

(* Mutation of SettleChat: a stopped turn leaves the chat streaming. *)
SettleUnstopped(ending) ==
  /\ status' = CASE ending = "answered" -> AtRest(log) [] ending = "stopped" -> status
                 [] OTHER -> ending
  /\ since' = None
  /\ UNCHANGED leases

(* settleChat(): how the turn ended, or whether it waits for the user. *)
SettleChat(ending) ==
  /\ status' = IF ending = "answered" THEN AtRest(log) ELSE ending
  /\ since' = None
  /\ UNCHANGED leases

-----------------------------------------------------------------------------
(* The user sends a message: the client starts the chat, does not wait     *)
(* for that, and posts the message, which may be refused.                  *)
Submit ==
  /\ Exists /\ posts < MaxPosts
  /\ posts' = posts + 1
  /\ \E accepted \in 0..1 : Post(accepted)
  /\ marking' = marking + 1
  /\ UNCHANGED <<clock, row, log, turn, answers, faults, hist>>

(* chats.start of the client lands, whatever became of the message. *)
Mark ==
  /\ marking > 0 /\ Exists
  /\ StartChat
  /\ marking' = marking - 1
  /\ marked' = TRUE
  /\ UNCHANGED <<clock, log, mail, turn, answers, posts, faults, lost, surfaced, silent>>

MayBegin == turn.phase = "none" /\ mail > 0 /\ Exists /\ clock + Lease <= MaxTime

(* Thread.turn(): a message is taken and the chat started. *)
Begin ==
  /\ MayBegin
  /\ StartChat
  /\ mail' = mail - 1
  /\ turn' = [phase |-> "starting", from |-> clock]
  /\ lost' = FALSE /\ marked' = FALSE
  /\ UNCHANGED <<clock, log, marking, answers, posts, faults, surfaced, silent>>

(* A thread whose budget is spent settles the message it took as failed. *)
Refuse ==
  /\ MayBegin
  /\ mail' = mail - 1
  /\ SettleChat("errored")
  /\ UNCHANGED <<clock, log, turn, user, faults, hist>>

(* Thread.prepare(): the message opens a turn in the transcript, and what  *)
(* it takes to run it is made ready.                                       *)
Prepare ==
  /\ turn.phase = "starting" /\ Exists
  /\ AppendTo(Opening)
  /\ turn' = [turn EXCEPT !.phase = "running"]
  /\ UNCHANGED <<clock, row, mail, user, faults, hist>>

(* A message that came meanwhile steers the turn: it is another opening. *)
Steer ==
  /\ turn.phase = "running" /\ mail > 0 /\ Exists
  /\ AppendTo(Opening)
  /\ mail' = mail - 1
  /\ UNCHANGED <<clock, row, turn, user, faults, hist>>

(* A step asks the user, or a child's asks are placed (Threads.surface):   *)
(* in the turn that runs, or in the transcript of a chat at rest.          *)
Place(last) ==
  /\ Exists /\ last > Cardinality(Asked)
  /\ AppendTo(Asks(Ask \cap (Cardinality(Asked) + 1)..last))
  /\ surfaced' = (surfaced \/ status = "idle")
  /\ UNCHANGED <<clock, row, mail, turn, user, faults, lost, marked, silent>>

(* Thread.record() and the catch of turn(): the turn is settled.  One past *)
(* its deadline has failed.  A stop drops the mailbox too (Thread.cancel). *)
Settle(ending) ==
  /\ turn.phase = "starting" => ending # "answered"
  /\ turn # NoTurn
  /\ turn' = NoTurn
  /\ mail' = IF ending = "stopped" THEN 0 ELSE mail
  /\ IF Exists THEN SettleChat(ending) ELSE UNCHANGED row
  /\ surfaced' = FALSE /\ silent' = FALSE
  /\ UNCHANGED <<clock, log, user, faults, lost, marked>>

(* The mutation that settles is lost: the failure is logged. *)
Unsettled ==
  /\ turn # NoTurn /\ faults < Faults
  /\ turn' = NoTurn
  /\ faults' = faults + 1
  /\ lost' = TRUE
  /\ UNCHANGED <<clock, row, log, mail, user, marked, surfaced, silent>>

(* The server dies, with the mailbox, the turn and the answers it handled. *)
Crash ==
  /\ faults < Faults
  /\ faults' = faults + 1
  /\ lost' = (lost \/ turn # NoTurn \/ mail > 0 \/ answers # {})
  /\ turn' = NoTurn /\ mail' = 0 /\ answers' = {}
  /\ UNCHANGED <<clock, row, log, marking, posts, marked, surfaced, silent>>

-----------------------------------------------------------------------------
(* The user answers an ask, in the chat or in its root, where what a child *)
(* asks is placed too: Threads.answer() goes to the thread that asked.     *)
(* What the answer says, if anything, is posted to it.  In a child the     *)
(* entry is appended first, in the chat answered in it is recorded after.  *)
Answer(a, as) ==
  /\ Exists /\ a \in Asked \ Named("answered", ToSet(log))
  /\ \A x \in answers : x[1] # a
  /\ answers' = answers \cup {<<a, as>>}
  /\ IF as = "own"
     THEN (\E says \in 0..1 : Post(says)) /\ UNCHANGED log
     ELSE AppendTo(Answered(a)) /\ UNCHANGED mail
  /\ UNCHANGED <<clock, row, turn, marking, posts, faults, hist>>

(* Threads.followUp(): the child is told of the answer, if it says         *)
(* something and did not fail, as one to a request that expired does.      *)
FollowUp(a) ==
  /\ <<a, "child">> \in answers
  /\ \E says \in 0..1 :
       /\ Post(says)
       /\ silent' = (silent \/ (says = 0 /\ status = "waiting"))
  /\ answers' = answers \ {<<a, "child">>}
  /\ UNCHANGED <<clock, row, log, turn, marking, posts, faults, lost, marked, surfaced>>

(* Mutation of Record: the chat goes on waiting. *)
RecordOnly(a) ==
  /\ <<a, "own">> \in answers /\ Exists
  /\ AppendTo(Answered(a))
  /\ answers' = answers \ {<<a, "own">>}
  /\ UNCHANGED <<clock, row, mail, turn, marking, posts, faults, hist>>

(* messages.record(): the entry is appended; a chat that waited for no     *)
(* other answer waits no longer (settleWaiting).                           *)
Record(a) ==
  /\ <<a, "own">> \in answers /\ Exists
  /\ AppendTo(Answered(a))
  /\ answers' = answers \ {<<a, "own">>}
  /\ status' = IF status = "waiting" /\ ~WaitsOnUser(log') THEN "idle" ELSE status
  /\ UNCHANGED <<clock, since, leases, mail, turn, marking, posts, faults, hist>>

(* chats.fork(): the transcript up to a message, in a row of its own, that *)
(* no thread has opened yet.                                               *)
Fork(upTo) ==
  /\ Exists
  /\ log' = SubSeq(log, 1, upTo)
  /\ status' = AtRest(log') /\ since' = None /\ leases' = {}
  /\ mail' = 0 /\ turn' = NoTurn
  /\ marking' = 0 /\ answers' = {}
  /\ lost' = FALSE /\ marked' = FALSE /\ surfaced' = FALSE /\ silent' = FALSE
  /\ UNCHANGED <<clock, posts, faults>>

(* dropChat(): the row is deleted, whatever runs. *)
DropChat ==
  /\ Exists
  /\ status' = "gone" /\ since' = None
  /\ UNCHANGED <<clock, leases, log, mail, turn, user, faults, hist>>

-----------------------------------------------------------------------------
(* Mutation of Expire: any lease ends the streaming. *)
ExpireAny(taken) ==
  /\ taken \in leases /\ clock >= taken + Lease
  /\ leases' = leases \ {taken}
  /\ IF status = "streaming"
     THEN status' = "errored" /\ since' = None
     ELSE UNCHANGED <<status, since>>
  /\ UNCHANGED <<clock, log, mail, turn, user, faults, hist>>

(* expire(): a chat that still streams under this lease has failed. *)
Expire(taken) ==
  /\ taken \in leases /\ clock >= taken + Lease
  /\ leases' = leases \ {taken}
  /\ IF status = "streaming" /\ since = taken
     THEN status' = "errored" /\ since' = None
     ELSE UNCHANGED <<status, since>>
  /\ UNCHANGED <<clock, log, mail, turn, user, faults, hist>>

(* Time passes, whatever runs. *)
Tick ==
  /\ clock < MaxTime
  /\ clock' = clock + 1
  /\ UNCHANGED <<row, log, mail, turn, user, faults, hist>>

Next ==
  \/ Submit \/ Mark \/ Begin \/ Refuse \/ Prepare \/ Steer
  \/ Unsettled \/ Crash \/ DropChat \/ Tick
  \/ \E last \in Ask : Place(last)
  \/ \E ending \in Endings : Settle(ending)
  \/ \E a \in Ask : FollowUp(a) \/ Record(a) \/ \E as \in {"own", "child"} : Answer(a, as)
  \/ \E upTo \in 1..Len(log) : Fork(upTo)
  \/ \E taken \in leases : Expire(taken)

(* Time passes, and Convex runs what is scheduled.  No thread has to begin *)
(* a turn, and no turn to end.                                             *)
Spec ==
  /\ Init /\ [][Next]_vars
  /\ WF_vars(Tick) /\ WF_vars(\E taken \in leases : Expire(taken))

-----------------------------------------------------------------------------
(* A turn that runs is shown: for as long as a lease lasts, the chat       *)
(* streams until the turn is settled, whatever leases of earlier turns run *)
(* out, and whatever is answered or placed meanwhile.  And a chat that     *)
(* streams has the means to stop: the lease in its row is scheduled, and   *)
(* none of another turn, taken in the same millisecond even, stands in.    *)
RunningIsShown ==
  /\ turn # NoTurn /\ Exists /\ clock < turn.from + Lease => status = "streaming"
  /\ status = "streaming" => since \in leases

(* expire() tells the user that "the turn stopped answering": it says so   *)
(* of a turn that was cut off, by a crash or by a settling that was lost,  *)
(* of a message the client announced, and of no turn that runs, unless it  *)
(* has run as long as a lease lasts.                                       *)
ExpiresTruly ==
  [][\A taken \in leases :
       Expire(taken) /\ status' # status =>
         IF turn = NoTurn THEN lost \/ marked ELSE clock >= turn.from + Lease]_vars

(* At rest a chat waits for the user exactly when its latest turn asks     *)
(* what is not answered: however answers, steering messages and steps were *)
(* interleaved, and in a fork cut anywhere.  But an ask placed in an idle  *)
(* chat is not shown, and a child goes on waiting that was not told of the *)
(* answer.  ("waits on an open ask until it is answered",                  *)
(* packages/backend/test/access.test.ts.)                                  *)
WaitsTruly ==
  mail = 0 /\ ~lost =>
    /\ status = "idle" /\ ~surfaced => ~WaitsOnUser(log)
    /\ status = "waiting" /\ ~silent /\ answers = {} => WaitsOnUser(log)

(* No chat streams for ever: its turn settles it, or its lease runs out,   *)
(* whatever died or hangs in between.                                      *)
StreamingEnds == status = "streaming" ~> status # "streaming"

(* limits.ts:47 makes a lease a minute longer than the deadline of a turn: *)
(* no turn that runs is reported as one that stopped.  (The code does: its *)
(* preparation has no deadline, and takes its time from the lease.)        *)
AlwaysShown == turn # NoTurn /\ Exists => status = "streaming"

(* expire() never speaks of a turn there was not.  (The code does: the     *)
(* client's start lands after the turn it announced was settled, or for a  *)
(* message that was refused.)                                              *)
ExpiresOnlyTurns ==
  [][\A taken \in leases : Expire(taken) /\ status' # status => lost \/ turn # NoTurn]_vars

(* A chat at rest shows every ask that waits.  (The code does not: what a  *)
(* child asks is placed in its idle root without a look at the status.)    *)
WaitsShown ==
  status = "idle" /\ mail = 0 /\ answers = {} /\ ~lost => ~WaitsOnUser(log)

(* A chat waits until what it asks is answered.  (The code does not stop   *)
(* there: the entry of a child's answer is appended without a look at the  *)
(* status, and the answer to a request that expired is not posted.)        *)
WaitsForSomething ==
  status = "waiting" /\ mail = 0 /\ answers = {} /\ ~lost => WaitsOnUser(log)
=============================================================================
