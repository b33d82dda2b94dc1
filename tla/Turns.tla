------------------------------- MODULE Turns --------------------------------
(***************************************************************************)
(* One turn after another of a thread, and what is kept and shown of them: *)
(* the loop of model calls and steps (packages/ai/src/turn.ts), the wire a *)
(* turn writes its messages to, flushes to the transcript and shows to its *)
(* watchers (stream.ts), the messages others place meanwhile (thread.ts),  *)
(* and what the client makes of it all (apps/app/src/lib/watch.ts and      *)
(* timeline.ts).                                                           *)
(*                                                                         *)
(* A message is its number, given in the order messages come to be.  The   *)
(* client reads what it is sent at once; the transcript it reads through   *)
(* its subscription.  Of the buffer of chunks that a new watcher is sent,  *)
(* what they add up to is kept.  The body of the stream runs until an      *)
(* event cannot be written any more, which is so once it is aborted.       *)
(***************************************************************************)
EXTENDS Integers, Sequences, SequencesExt

CONSTANTS
  MaxMessages, \* bound on the messages that come to be
  MaxSteps,    \* the cap on the steps of a turn
  MaxFailures  \* bound on the writes of the transcript that fail

ASSUME BoundsAssumption == {MaxMessages, MaxSteps, MaxFailures} \subseteq Nat

VARIABLES
  at,       \* where the turn is; "rest" between two
  steps,    \* Turn.steps
  drained,  \* runAgentTurn: the steers were taken when the turn was to settle
  ending,   \* the verdict the turn is about to settle with
  calling,  \* the reply of the step, or 0
  mail,     \* the mailbox
  taken,    \* takeSteers: the envelopes taken, and not on the wire yet
  aborted,  \* the signal of the stream
  wire,     \* TurnWire.wire: the history, and what the turn produced
  carried,  \* TurnWire.carried: how much of it is history
  flushed,  \* TurnWire.flushed: how much of it is on its way to the transcript
  recorded, \* TurnWire.recorded: the batches that are not appended yet
  pending,  \* TurnWire.pendingSnapshot
  stored,   \* the transcript
  placing,  \* place(): messages on their way to the transcript, past the wire
  buffer,   \* Watchers.turn: what a watcher that comes now is sent
  client,   \* a watcher: whether it is connected, and what it was sent
  next,     \* the messages so far
  failures, \* counter: writes that failed
  unheard,  \* history: steers taken that no model call has seen
  gone      \* history: messages lost to an abort or to a failure

loop  == <<steps, drained, ending, calling>>
tape  == <<wire, carried, flushed, recorded, pending>>
turnVars ==
  <<at, steps, drained, ending, calling, mail, taken, aborted, wire, carried, flushed, recorded,
    pending, stored, placing, buffer, client, next, failures, unheard, gone>>

Message == 1..2 * MaxMessages
ResultOf(m) == MaxMessages + m
Underway == {"loop", "steering", "calling", "evaluating", "settling", "deciding"}

TurnTypeOK ==
  /\ at \in Underway \cup {"rest", "taken", "opened", "read", "ending", "sealed"}
  /\ steps \in Nat /\ (steps <= MaxSteps \/ steps = 1) /\ drained \in BOOLEAN
  /\ ending \in {"none", "halt", "silent"}
  /\ calling \in 0..MaxMessages /\ next \in 0..MaxMessages /\ failures \in 0..MaxFailures
  /\ {mail, taken, wire, stored} \subseteq Seq(Message)
  /\ recorded \in Seq(Seq(Message))
  /\ carried \in 0..flushed /\ flushed \in 0..Len(wire)
  /\ {aborted, pending} \subseteq BOOLEAN
  /\ {placing, unheard, gone} \subseteq SUBSET Message
  /\ buffer \in [full : BOOLEAN, snapshot : SUBSET Message, relayed : SUBSET Message]
  /\ client \in [on : BOOLEAN, snapshot : SUBSET Message, relayed : SUBSET Message]

TurnInit ==
  /\ at = "rest" /\ steps = 0 /\ drained = FALSE /\ ending = "none" /\ calling = 0
  /\ mail = <<>> /\ taken = <<>> /\ aborted = FALSE
  /\ wire = <<>> /\ carried = 0 /\ flushed = 0 /\ recorded = <<>> /\ pending = FALSE
  /\ stored = <<>> /\ placing = {}
  /\ buffer = [full |-> FALSE, snapshot |-> {}, relayed |-> {}]
  /\ client = [on |-> FALSE, snapshot |-> {}, relayed |-> {}]
  /\ next = 0 /\ failures = 0 /\ unheard = {} /\ gone = {}

-----------------------------------------------------------------------------
New == next + 1
Creates == next < MaxMessages /\ next' = next + 1

(* publish() of a chunk that shows all of a wire ("values"), unless the    *)
(* stream was aborted.                                                     *)
Shows(messages) ==
  IF aborted THEN UNCHANGED <<buffer, client>>
  ELSE /\ buffer' = [buffer EXCEPT !.full = TRUE, !.snapshot = ToSet(messages)]
       /\ client' = IF client.on THEN [client EXCEPT !.snapshot = ToSet(messages)] ELSE client

(* Mutation of Relays: what is relayed is not kept for later watchers. *)
RelaysOnce(messages) ==
  /\ UNCHANGED buffer
  /\ client' = IF client.on THEN [client EXCEPT !.relayed = @ \cup messages] ELSE client

(* relay(): whoever watches is told, and whoever will. *)
Relays(messages) ==
  /\ buffer' = [buffer EXCEPT !.relayed = @ \cup messages]
  /\ client' = IF client.on THEN [client EXCEPT !.relayed = @ \cup messages] ELSE client

(* Mutation of Flush: batches do not wait for each other. *)
FlushAhead(messages) ==
  /\ flushed' = Len(messages)
  /\ recorded' = IF Len(messages) = flushed THEN recorded
                 ELSE <<SubSeq(messages, flushed + 1, Len(messages))>> \o recorded

(* flush(): what the wire holds past the last flush is a batch for the     *)
(* transcript, appended after the batches before it.                       *)
Flush(messages) ==
  /\ flushed' = Len(messages)
  /\ recorded' = IF Len(messages) = flushed THEN recorded
                 ELSE Append(recorded, SubSeq(messages, flushed + 1, Len(messages)))

(* The turn goes on, or its stream cannot be written to any more. *)
GoOn(to) == at' = IF aborted THEN "ending" ELSE to

-----------------------------------------------------------------------------
(* A message is posted to the thread. *)
Post ==
  /\ Creates
  /\ mail' = Append(mail, New)
  /\ UNCHANGED <<at, loop, taken, aborted, tape, stored, placing, buffer, client, failures, unheard, gone>>

(* Thread.turn(): a message is taken, and relayed if it answers a reply;   *)
(* the buffer of the turn before is dropped.                               *)
BeginTurn(replies) ==
  /\ at = "rest" /\ mail # <<>>
  /\ at' = "taken" /\ taken' = <<Head(mail)>> /\ mail' = Tail(mail)
  /\ aborted' = FALSE
  /\ LET relayed == IF replies THEN {Head(mail)} ELSE {} IN
       /\ buffer' = [full |-> FALSE, snapshot |-> {}, relayed |-> relayed]
       /\ client' = IF client.on THEN [client EXCEPT !.relayed = @ \cup relayed] ELSE client
  /\ UNCHANGED <<loop, tape, stored, placing, next, failures, unheard, gone>>

(* prepare(): the opening message is appended. *)
AppendOpening ==
  /\ at = "taken"
  /\ at' = "opened" /\ stored' = stored \o taken /\ taken' = <<>>
  /\ UNCHANGED <<loop, mail, aborted, tape, placing, buffer, client, next, failures, unheard, gone>>

(* prepare() fails, before the opening message is appended or after. *)
PrepareFails ==
  /\ at \in {"taken", "opened"} /\ failures < MaxFailures
  /\ failures' = failures + 1
  /\ at' = "rest" /\ taken' = <<>> /\ gone' = gone \cup ToSet(taken)
  /\ UNCHANGED <<loop, mail, aborted, tape, stored, placing, buffer, client, next, unheard>>

(* prepare(): the transcript is read; it is the history of the turn. *)
ReadHistory ==
  /\ at = "opened"
  /\ at' = "read"
  /\ wire' = stored /\ carried' = Len(stored) /\ flushed' = Len(stored)
  /\ recorded' = <<>> /\ pending' = FALSE
  /\ steps' = 0 /\ drained' = FALSE /\ ending' = "none" /\ calling' = 0 /\ unheard' = {}
  /\ UNCHANGED <<mail, taken, aborted, stored, placing, buffer, client, next, failures, gone>>

(* streamTurn(): the wire is open, and its history is shown.  A message    *)
(* whose forms say it all asks nothing of the model (quiet); a turn        *)
(* halted meanwhile is not run at all.                                     *)
OpenWire ==
  /\ at = "read"
  /\ IF aborted THEN at' = "rest" ELSE at' \in {"loop", "ending"}
  /\ Shows(wire)
  /\ UNCHANGED <<loop, mail, taken, aborted, tape, stored, placing, next, failures, unheard, gone>>

(* stop(), the deadline, or a budget that is spent. *)
Abort ==
  /\ at \in Underway \cup {"taken", "opened", "read"} /\ ~aborted
  /\ aborted' = TRUE
  /\ UNCHANGED <<at, loop, mail, taken, tape, stored, placing, buffer, client, next, failures, unheard, gone>>

-----------------------------------------------------------------------------
(* The signal is seen between two steps. *)
Leave ==
  /\ at = "loop" /\ aborted
  /\ at' = "ending"
  /\ UNCHANGED <<loop, mail, taken, aborted, tape, stored, placing, buffer, client, next, failures,
                 unheard, gone>>

(* takeSteers(), before a step and before the turn settles: the mailbox is *)
(* emptied, and replies are relayed.                                       *)
TakeSteers(replies) ==
  /\ \/ at = "loop" /\ ~aborted /\ at' = "steering"
     \/ at = "settling" /\ at' = "deciding"
  /\ IF steps > 0 /\ (IF at = "loop" THEN ~drained ELSE ~aborted)
     THEN /\ taken' = mail /\ mail' = <<>>
          /\ unheard' = unheard \cup ToSet(mail)
          /\ IF replies THEN Relays(ToSet(mail)) ELSE UNCHANGED <<buffer, client>>
     ELSE UNCHANGED <<mail, taken, unheard, buffer, client>>
  /\ UNCHANGED <<loop, aborted, tape, stored, placing, next, failures, gone>>

(* One of them is put on the wire and shown; if that cannot be shown any   *)
(* more, the others are lost with the turn.                                *)
Steered ==
  /\ taken # <<>> /\ at \in {"steering", "deciding"}
  /\ wire' = Append(wire, Head(taken))
  /\ Shows(wire') /\ pending' = FALSE
  /\ taken' = IF aborted THEN <<>> ELSE Tail(taken)
  /\ gone' = IF aborted THEN gone \cup ToSet(Tail(taken)) ELSE gone
  /\ GoOn(at)
  /\ UNCHANGED <<loop, mail, aborted, carried, flushed, recorded, stored, placing, next, failures,
                 unheard>>

(* runStep(): the model is called with all the turn has so far. *)
CallModel ==
  /\ at = "steering" /\ taken = <<>> /\ Creates
  /\ at' = "calling" /\ calling' = New /\ unheard' = {}
  /\ UNCHANGED <<steps, drained, ending, mail, taken, aborted, tape, stored, placing, buffer,
                 client, failures, gone>>

(* A piece of the reply is shown, before there is a message.  A reply that *)
(* is cut off stays shown and is not kept.                                 *)
Delta ==
  /\ at = "calling"
  /\ GoOn("calling")
  /\ gone' = gone \cup {calling}
  /\ IF aborted THEN UNCHANGED <<buffer, client>>
     ELSE /\ buffer' = [buffer EXCEPT !.snapshot = @ \cup {calling}]
          /\ client' = IF client.on THEN [client EXCEPT !.snapshot = @ \cup {calling}] ELSE client
  /\ UNCHANGED <<loop, mail, taken, aborted, tape, stored, placing, next, failures, unheard>>

(* The reply is complete: code to run, or nothing at all. *)
Reply(empty) ==
  /\ at = "calling"
  /\ IF empty
     THEN /\ at' = "settling" /\ ending' = "silent" /\ calling' = 0
          /\ gone' = gone \cup {calling} /\ UNCHANGED wire
     ELSE /\ at' = "evaluating" /\ wire' = Append(wire, calling)
          /\ gone' = gone \ {calling} /\ UNCHANGED <<ending, calling>>
  /\ UNCHANGED <<steps, drained, mail, taken, aborted, carried, flushed, recorded, pending, stored,
                 placing, buffer, client, next, failures, unheard>>

(* The model's call throws: the turn fails. *)
CallFails ==
  /\ at = "calling"
  /\ at' = "ending" /\ calling' = 0
  /\ gone' = gone \cup {calling}
  /\ UNCHANGED <<steps, drained, ending, mail, taken, aborted, tape, stored, placing, buffer,
                 client, next, failures, unheard>>

(* An entry is recorded, by a step or around it, to be shown soon. *)
RecordEntry ==
  /\ at \in {"loop", "evaluating", "deciding"} /\ taken = <<>> /\ Creates
  /\ wire' = Append(wire, New) /\ pending' = TRUE
  /\ UNCHANGED <<at, loop, mail, taken, aborted, carried, flushed, recorded, stored, placing,
                 buffer, client, failures, unheard, gone>>

(* snapshotSoon(): the time is up. *)
SnapshotDue ==
  /\ pending
  /\ pending' = FALSE
  /\ Shows(wire)
  /\ UNCHANGED <<at, loop, mail, taken, aborted, wire, carried, flushed, recorded, stored, placing,
                 next, failures, unheard, gone>>

(* The step ends with its result, which is flushed and shown; the loop     *)
(* goes on, is capped, or settles with a step that is held.                *)
Result(verdict) ==
  /\ at = "evaluating"
  /\ verdict = "continue" => steps + 1 < MaxSteps
  /\ verdict = "capped" => steps + 1 >= MaxSteps
  /\ steps' = steps + 1 /\ drained' = FALSE
  /\ wire' = Append(wire, ResultOf(calling)) /\ calling' = 0
  /\ Flush(wire') /\ Shows(wire') /\ pending' = FALSE
  /\ GoOn(CASE verdict = "continue" -> "loop" [] verdict = "capped" -> "ending"
            [] verdict = "halt" -> "settling")
  /\ ending' = IF verdict = "halt" THEN "halt" ELSE ending
  /\ UNCHANGED <<mail, taken, aborted, carried, stored, placing, next, failures, unheard, gone>>

(* The step says there is no more to do: it has no result. *)
Halt ==
  /\ at = "evaluating"
  /\ steps' = steps + 1 /\ calling' = 0
  /\ at' = "settling" /\ ending' = "halt" /\ drained' = FALSE
  /\ UNCHANGED <<mail, taken, aborted, tape, stored, placing, buffer, client, next, failures,
                 unheard, gone>>

(* Mutation of Settle: what was taken last buys no step. *)
SettleDeaf ==
  /\ at = "deciding" /\ taken = <<>>
  /\ at' = "ending" /\ drained' = FALSE
  /\ UNCHANGED <<buffer, client, pending>>
  /\ UNCHANGED <<steps, ending, calling, mail, taken, aborted, wire, carried, flushed, recorded,
                 stored, placing, next, failures, unheard, gone>>

(* settle(): messages taken last buy another step, if there is one left;   *)
(* otherwise the turn ends, and an answer is shown.                        *)
Settle ==
  /\ at = "deciding" /\ taken = <<>>
  /\ LET more == unheard # {} /\ steps < MaxSteps IN
       /\ at' = IF more THEN "loop" ELSE "ending"
       /\ drained' = more
       /\ IF ~more /\ ending = "halt" THEN Shows(wire) /\ pending' = FALSE
                                      ELSE UNCHANGED <<buffer, client, pending>>
  /\ UNCHANGED <<steps, ending, calling, mail, taken, aborted, wire, carried, flushed, recorded,
                 stored, placing, next, failures, unheard, gone>>

-----------------------------------------------------------------------------
(* record(): what is to be shown is, the wire takes no more, and what is   *)
(* left of it is flushed.                                                  *)
Seal ==
  /\ at = "ending"
  /\ at' = "sealed"
  /\ IF pending THEN Shows(wire) ELSE UNCHANGED <<buffer, client>>
  /\ pending' = FALSE
  /\ Flush(wire)
  /\ UNCHANGED <<loop, mail, taken, aborted, wire, carried, stored, placing, next, failures,
                 unheard, gone>>

(* A batch reaches the transcript. *)
Land ==
  /\ recorded # <<>>
  /\ stored' = stored \o Head(recorded) /\ recorded' = Tail(recorded)
  /\ UNCHANGED <<at, loop, mail, taken, aborted, wire, carried, flushed, pending, placing, buffer,
                 client, next, failures, unheard, gone>>

(* A batch does not: the failure is logged, and the next is tried. *)
LandFails ==
  /\ recorded # <<>> /\ failures < MaxFailures
  /\ failures' = failures + 1
  /\ gone' = gone \cup ToSet(Head(recorded)) /\ recorded' = Tail(recorded)
  /\ UNCHANGED <<at, loop, mail, taken, aborted, wire, carried, flushed, pending, stored, placing,
                 buffer, client, next, unheard>>

(* onTurn: the batches are awaited, the rest of the wire is appended, and  *)
(* the turn is settled.                                                    *)
Finish ==
  /\ at = "sealed" /\ recorded = <<>>
  /\ at' = "rest"
  /\ stored' = stored \o SubSeq(wire, flushed + 1, Len(wire))
  /\ UNCHANGED <<loop, mail, taken, aborted, tape, placing, buffer, client, next, failures,
                 unheard, gone>>

-----------------------------------------------------------------------------
(* Thread.place(): a message of others goes on the wire that is open, or   *)
(* is appended to the transcript.                                          *)
Place ==
  /\ Creates
  /\ IF at \in Underway \cup {"ending"}
     THEN /\ wire' = Append(wire, New) /\ pending' = FALSE
          /\ Flush(wire') /\ Shows(wire') /\ UNCHANGED placing
     ELSE placing' = placing \cup {New} /\ UNCHANGED <<wire, flushed, recorded, pending, buffer, client>>
  /\ UNCHANGED <<at, loop, mail, taken, aborted, carried, stored, failures, unheard, gone>>

(* It is appended, and then relayed to those who watch. *)
Placed(m) ==
  /\ m \in placing
  /\ placing' = placing \ {m}
  /\ stored' = Append(stored, m)
  /\ Relays({m})
  /\ UNCHANGED <<at, loop, mail, taken, aborted, tape, next, failures, unheard, gone>>

(* attach(): a watcher connects, or connects again, and is sent the        *)
(* buffer.                                                                 *)
Attach ==
  /\ ~client.on
  /\ client' = [on |-> TRUE,
                snapshot |-> IF buffer.full THEN buffer.snapshot ELSE client.snapshot,
                relayed |-> client.relayed \cup buffer.relayed]
  /\ UNCHANGED <<at, loop, mail, taken, aborted, tape, stored, placing, buffer, next, failures,
                 unheard, gone>>

(* The connection breaks, or the page is left. *)
Detach(left) ==
  /\ client.on
  /\ client' = IF left THEN [on |-> FALSE, snapshot |-> {}, relayed |-> {}]
               ELSE [client EXCEPT !.on = FALSE]
  /\ UNCHANGED <<at, loop, mail, taken, aborted, tape, stored, placing, buffer, next, failures,
                 unheard, gone>>

TurnNext ==
  \/ Post \/ AppendOpening \/ PrepareFails \/ ReadHistory \/ OpenWire \/ Abort
  \/ \E replies \in BOOLEAN : BeginTurn(replies) \/ TakeSteers(replies)
  \/ Leave \/ Steered \/ CallModel \/ Delta \/ CallFails \/ RecordEntry \/ SnapshotDue \/ Halt \/ Settle
  \/ \E empty \in BOOLEAN : Reply(empty)
  \/ \E verdict \in {"continue", "capped", "halt"} : Result(verdict)
  \/ Seal \/ Land \/ LandFails \/ Finish
  \/ Place \/ \E m \in placing : Placed(m)
  \/ Attach \/ \E left \in BOOLEAN : Detach(left)

TurnSpec == TurnInit /\ [][TurnNext]_turnVars

-----------------------------------------------------------------------------
Live(view) == view.snapshot \cup view.relayed
Shown(view) == ToSet(stored) \cup Live(view)
Produced == SubSeq(wire, carried + 1, Len(wire))

(* The transcript has what the wire of a turn has, in its order, however   *)
(* placed messages and flushes come between the steps; and once the turn   *)
(* is settled it has all of it, but for the batches whose append failed.   *)
(* It has no message twice, on which timelineOf() throws.                  *)
StoredInOrder ==
  /\ \A i, j \in DOMAIN stored, k, l \in DOMAIN Produced :
       stored[i] = Produced[k] /\ stored[j] = Produced[l] => (i < j <=> k < l)
  /\ at = "rest" => ToSet(Produced) \subseteq ToSet(stored) \cup gone
  /\ \A i, j \in DOMAIN stored : stored[i] = stored[j] => i = j

(* A watcher that came late, came back or was there all along is shown the *)
(* same, but for what was cut off; and at rest what is stored: no message  *)
(* is on the screen alone, to vanish with the next turn.                   *)
WatchersAgree ==
  /\ client.on => Shown(client) \ gone = Shown(buffer) \ gone
  /\ at = "rest" => Shown(client) \subseteq ToSet(stored) \cup gone

(* A turn does not end with an answer over the head of a message it took:  *)
(* the model is called again first, unless the steps are used up.  ("a     *)
(* steer that lands during the answering step buys one more step",         *)
(* packages/ai/test/turn.test.ts.)                                         *)
SteersAreHeard ==
  [][at = "deciding" /\ at' = "ending" /\ ~aborted /\ steps < MaxSteps => unheard = {}]_turnVars

(* So it is whatever the steps.  (The code's is not: with the last step    *)
(* the mailbox is emptied all the same.)                                   *)
SteersBuyAStep == [][at = "deciding" /\ at' = "ending" /\ ~aborted => unheard = {}]_turnVars
=============================================================================
