---------------------------- MODULE ImageLayers -----------------------------
(***************************************************************************)
(* What an image's layer contains and how layers are stacked               *)
(* (packages/repl/src/image-layer.ts), and the store in memory that keeps  *)
(* them (MemoryImageStore in image-store.ts).                              *)
(*                                                                         *)
(* An image has a list and a record: objects and globals are both lists,   *)
(* docs and sources both records, and each kind is treated alike.  Entries *)
(* are compared by their JSON text, so equality of values stands for it.   *)
(* Its names are apart from those of ReplLayers, which is about where the  *)
(* layers are kept and for how long: LayerProofs extends both.             *)
(***************************************************************************)
EXTENDS Integers, Sequences, FiniteSets

CONSTANTS
  Formats,  \* image formats
  Values,   \* entries of lists and records
  Names,    \* names records may have
  Inherited, \* those of them that every JavaScript object has, as "constructor"
  MaxDeltaRun, \* MAX_DELTA_RUN
  MaxList,  \* bound on the length of a list
  MaxSaves, \* bound on the images saved
  Nothing   \* no image below

ASSUME NamesAssumption == Inherited \subseteq Names
ASSUME ImagesAssumption == MaxDeltaRun \in Nat \ {0} /\ MaxList \in Nat /\ MaxSaves \in Nat

Lists   == UNION {[1..n -> Values] : n \in 0..MaxList}
Records == UNION {[names -> Values] : names \in SUBSET Names}
Images  == [format : Formats, list : Lists, record : Records]

-----------------------------------------------------------------------------
(* splice(): how many entries two lists begin with alike. *)
Keep(below, above) ==
  CHOOSE k \in 0..Len(below) :
    /\ k <= Len(above) /\ \A i \in 1..k : below[i] = above[i]
    /\ k = Len(below) \/ k = Len(above) \/ below[k + 1] # above[k + 1]

Splice(below, above) ==
  LET k == Keep(below, above) IN [keep |-> k, tail |-> SubSeq(above, k + 1, Len(above))]

(* `in` also finds what an object inherits. *)
In(record) == DOMAIN record \cup Inherited

(* The names to set: an inherited property is never the same as a value.   *)
Changed(below, above) ==
  {n \in DOMAIN above : n \notin DOMAIN below \/ below[n] # above[n]}

(* Mutation of Patch: a name that is gone is not dropped.                  *)
PatchAdding(below, above) ==
  [set |-> [n \in Changed(below, above) |-> above[n]], drop |-> {}]

(* patch(): what to set and what to drop. *)
Patch(below, above) ==
  [set |-> [n \in Changed(below, above) |-> above[n]], drop |-> DOMAIN below \ In(above)]

Empty(format) == [format |-> format, list |-> <<>>, record |-> [n \in {} |-> {}]]

(* layerOver(): the difference to the image below; a whole layer is made   *)
(* over nothing, and over an image of another format.                      *)
LayerOver(below, image) ==
  LET base == below = Nothing \/ below.format # image.format
      under == IF base THEN Empty(image.format) ELSE below
  IN [format |-> image.format, whole |-> base,
      list |-> Splice(under.list, image.list), record |-> Patch(under.record, image.record)]

(* spliced(), which throws if the layer keeps more than there is. *)
Spliced(below, layer) == SubSeq(below, 1, layer.keep) \o layer.tail
Fits(below, layer)    == layer.keep <= Len(below)

(* patched() *)
Patched(below, layer) ==
  [n \in (DOMAIN below \cup DOMAIN layer.set) \ layer.drop |->
     IF n \in DOMAIN layer.set THEN layer.set[n] ELSE below[n]]

(* One turn of the loop of stack(). *)
Over(image, layer) ==
  LET under == IF layer.whole THEN Empty(layer.format) ELSE image
  IN [format |-> layer.format, list |-> Spliced(under.list, layer.list),
      record |-> Patched(under.record, layer.record)]

(* stack(): the images after each layer of a run. *)
Stacked(run) ==
  LET after[n \in 0..Len(run)] ==
        IF n = 0 THEN Empty(run[1].format) ELSE Over(after[n - 1], run[n])
  IN after

Stack(run) == Stacked(run)[Len(run)]

(* stack() throws at a run that does not begin with a whole layer, or with *)
(* a layer that does not fit.                                              *)
Stackable(run) ==
  /\ run # <<>> /\ run[1].whole
  /\ \A n \in 1..Len(run) :
       Fits(IF run[n].whole THEN <<>> ELSE Stacked(run)[n - 1].list, run[n].list)

-----------------------------------------------------------------------------
VARIABLES
  kept,   \* MemoryImageStore.layers
  below,  \* LayerCursor.below
  count,  \* LayerCursor.run
  saved   \* history: the image saved last

storeVars == <<kept, below, count, saved>>

StoreTypeOK ==
  /\ Len(kept) <= MaxSaves
  /\ below \in Images \cup {Nothing} /\ saved \in Images \cup {Nothing}
  /\ count \in 0..MaxDeltaRun

StoreInit == kept = <<>> /\ below = Nothing /\ count = 0 /\ saved = Nothing

(* latest(): the layers from the last whole one on. *)
Run ==
  LET wholes == {n \in DOMAIN kept : kept[n].whole}
      from == CHOOSE n \in wholes : \A m \in wholes : m <= n
  IN IF wholes = {} THEN kept ELSE SubSeq(kept, from, Len(kept))

(* save() *)
Save(image) ==
  LET layer == LayerOver(IF count >= MaxDeltaRun THEN Nothing ELSE below, image)
  IN /\ Len(kept) < MaxSaves
     /\ kept' = Append(kept, layer)
     /\ below' = image
     /\ count' = IF layer.whole THEN 1 ELSE count + 1
     /\ saved' = image

(* latest() by a new cursor, as after a restart, and restack(). *)
Latest ==
  /\ kept # <<>>
  /\ below' = Stack(Run) /\ count' = Len(Run)
  /\ UNCHANGED <<kept, saved>>

StoreNext == (\E image \in Images : Save(image)) \/ Latest

StoreSpec == StoreInit /\ [][StoreNext]_storeVars

-----------------------------------------------------------------------------
(***************************************************************************)
(* Properties.                                                             *)
(***************************************************************************)

(* image-layer.test.ts:45: "stacks back to the image it was taken from".   *)
(* What is stored restores the image that was saved last, through any run  *)
(* of whole layers and differences, of which there are no more than        *)
(* MAX_DELTA_RUN, and stack() never throws on it.  It does not hold for    *)
(* names every object inherits.                                            *)
RoundTrip ==
  kept # <<>> => Len(Run) <= MaxDeltaRun /\ Stackable(Run) /\ Stack(Run) = saved
=============================================================================
