------------------------------ MODULE Delivery ------------------------------
(***************************************************************************)
(* What a thread promises to whoever posts to it, with no drive, no awaits *)
(* and no turn in sight: envelopes queue up; the thread admits them from   *)
(* the front and settles everything it has admitted at once, when its turn *)
(* ends; anyone may take envelopes back out of the queue, and those are    *)
(* settled without ever having been admitted.  Thread implements this.     *)
(***************************************************************************)
EXTENDS Naturals, Sequences, SequencesExt

CONSTANTS Envelopes

VARIABLES
  queue,    \* posted and waiting, eldest first
  active,   \* admitted to the turn that runs
  removed,  \* taken back, their post not yet told
  settled,  \* their post has been told
  lost      \* their post will never be told

vars == <<queue, active, removed, settled, lost>>

Init ==
  /\ queue = <<>> /\ active = {} /\ removed = {} /\ settled = {} /\ lost = {}

Known == ToSet(queue) \cup active \cup removed \cup settled \cup lost

Submit(e) ==
  /\ e \notin Known
  /\ queue' = Append(queue, e)
  /\ UNCHANGED <<active, removed, settled, lost>>

(* The thread takes the n eldest. *)
Admit(n) ==
  /\ active' = active \cup {queue[i] : i \in 1..n}
  /\ queue' = SubSeq(queue, n + 1, Len(queue))
  /\ UNCHANGED <<removed, settled, lost>>

(* One envelope is taken back, wherever it stands in the queue ...         *)
TakeBack(i) ==
  /\ queue' = RemoveAt(queue, i)
  /\ removed' = removed \cup {queue[i]}
  /\ UNCHANGED <<active, settled, lost>>

(* ... or all of them.                                                     *)
TakeBackAll ==
  /\ queue' = <<>>
  /\ removed' = removed \cup ToSet(queue)
  /\ UNCHANGED <<active, settled, lost>>

Tell(S) ==
  /\ S # {} /\ S \subseteq removed
  /\ removed' = removed \ S
  /\ settled' = settled \cup S
  /\ UNCHANGED <<queue, active, lost>>

(* The turn ends; whatever it admitted is settled together. *)
Conclude ==
  /\ active # {}
  /\ active' = {}
  /\ settled' = settled \cup active
  /\ UNCHANGED <<queue, removed, lost>>

(* The turn cannot record that it was stopped, and tells nobody. *)
Lose ==
  /\ active # {}
  /\ active' = {}
  /\ lost' = lost \cup active
  /\ UNCHANGED <<queue, removed, settled>>

Next ==
  \/ \E e \in Envelopes : Submit(e)
  \/ \E n \in 1..Len(queue) : Admit(n)
  \/ \E i \in DOMAIN queue : TakeBack(i)
  \/ TakeBackAll
  \/ \E S \in SUBSET removed : Tell(S)
  \/ Conclude
  \/ Lose

Spec == Init /\ [][Next]_vars
=============================================================================
