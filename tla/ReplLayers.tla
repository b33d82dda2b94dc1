----------------------------- MODULE ReplLayers -----------------------------
(***************************************************************************)
(* How a chat's REPL outlives the process that runs it: each step's image  *)
(* is saved as a layer over the one before (packages/repl/image-store.ts,  *)
(* packages/backend/src/image-store.ts), layers are rows that chats and    *)
(* their forks share (convex/repls.ts), a message remembers the layer its  *)
(* chat stood on (convex/messages.ts), a fork starts from a message's      *)
(* layer (convex/chats.ts), and scheduled purges collect what no chat      *)
(* stands on any more.                                                     *)
(*                                                                         *)
(* A convex mutation is one transaction, so one action.  The server saves  *)
(* images in the background, one at a time for each store.  An image is    *)
(* the sequence of the steps whose effects it holds.                       *)
(***************************************************************************)
EXTENDS Integers, Sequences, FiniteSets, SequencesExt

CONSTANTS
  Chats,     \* chats, each with at most one REPL
  Original,  \* the chat that exists at first
  Stores,    \* the image stores a server process makes
  None,      \* no layer, no origin, no store
  Sources,   \* what steps come from: "ai" messages, "ui" actions
  MaxRun,    \* MAX_DELTA_RUN
  MaxSteps,  \* bound on the steps evaluated
  MaxLayers  \* bound on the layers recorded

ASSUME ChatsAssumption == Original \in Chats
ASSUME NoneAssumption ==
  None \notin Nat \cup Stores \cup [todo : SUBSET Nat, head : Nat \cup {None}]
ASSUME SourcesAssumption == Sources \subseteq {"ai", "ui"}
ASSUME BoundsAssumption ==
  MaxRun \in Nat \ {0} /\ MaxSteps \in Nat /\ MaxLayers \in Nat

VARIABLES
  chat,      \* "none", "live" or "dropped"
  messages,  \* a chat's rows: the wire id, the type and the layer of each
  head,      \* Doc<"repls">.head
  open,      \* the chats whose REPL has a row
  layers,    \* every layer ever recorded
  stored,    \* the layers that still have a row
  replPurge, \* the layers a scheduled repls.purge has not come to, or None
  wirePurge, \* the chats with a scheduled messages.purge
  at,        \* the store of the chat's REPL in memory
  image,     \* what that REPL holds
  unsent,    \* the rows its thread has yet to append
  store,     \* LayerCursor, and the saves waiting their turn
  steps,     \* the steps evaluated so far
  astray,    \* history: the chats whose REPL was made without what is stored
  crossed    \* history: the chats a step ran in while another one's image or
             \* rows were on their way along another path

tables  == <<chat, messages, head, open, layers, stored, replPurge, wirePurge>>
memory  == <<at, image, unsent, store, steps>>
history == <<astray, crossed>>
vars    == <<tables, memory, history>>

Ids    == 1..MaxLayers
Steps  == 1..MaxSteps
Histories == UNION {[1..n -> Steps] : n \in 0..MaxSteps}
Idle   == [below |-> None, run |-> 0, over |-> None, queue |-> <<>>]

TypeOK ==
  /\ chat \in [Chats -> {"none", "live", "dropped"}]
  /\ \A c \in Chats : \A i \in DOMAIN messages[c] :
       messages[c][i] \in [wire : Steps \cup {None}, type : {"ai", "tool"}, layer : Ids \cup {None}]
  /\ head \in [Chats -> Ids \cup {None}] /\ open \subseteq Chats
  /\ \A l \in DOMAIN layers :
       layers[l] \in [repl : Chats, parent : 1..(l - 1) \cup {None}, origin : Steps \cup {None},
                      whole : BOOLEAN, image : Histories, below : Histories \cup {None},
                      run : 1..MaxRun, line : SUBSET (1..l)]
  /\ stored \subseteq DOMAIN layers
  /\ \A c \in Chats : replPurge[c] # None =>
       replPurge[c] \in [todo : SUBSET DOMAIN layers, head : Ids \cup {None}]
  /\ wirePurge \subseteq Chats
  /\ at \in [Chats -> Stores \cup {None}] /\ image \in [Chats -> Histories]
  /\ \A s \in Stores :
       /\ store[s].below \in Histories \cup {None} /\ store[s].run \in 0..MaxRun
       /\ \A i \in DOMAIN store[s].queue :
            store[s].queue[i] \in [repl : Chats, image : Histories, origin : Steps \cup {None}]
  /\ steps \in 0..MaxSteps
  /\ astray \subseteq Chats /\ crossed \subseteq Chats

Init ==
  /\ chat = [c \in Chats |-> IF c = Original THEN "live" ELSE "none"]
  /\ messages = [c \in Chats |-> <<>>]
  /\ head = [c \in Chats |-> None]
  /\ open = {}
  /\ layers = <<>>
  /\ stored = {}
  /\ replPurge = [c \in Chats |-> None]
  /\ wirePurge = {}
  /\ at = [c \in Chats |-> None]
  /\ image = [c \in Chats |-> <<>>]
  /\ unsent = [c \in Chats |-> <<>>]
  /\ store = [s \in Stores |-> Idle]
  /\ steps = 0
  /\ astray = {}
  /\ crossed = {}

-----------------------------------------------------------------------------
(* The REPL in memory.                                                     *)

(* LayerCursor.restack(): the store stands on the image it read. *)
Restacked(l, s) ==
  [s EXCEPT !.below = layers[l].image, !.run = layers[l].run, !.over = l]

(* Another store than s has images of the chat to save. *)
Elsewhere(c, s) ==
  \E t \in Stores \ {s} : \E i \in DOMAIN store[t].queue : store[t].queue[i].repl = c

(* What a chat's REPL is made of: latest() may not be answered, and what   *)
(* it answers may not load, which leaves an empty REPL.                    *)
Load(c, s, cursor) ==
  LET found == c \in open /\ head[c] # None
  IN \E answered, loads \in BOOLEAN :
       /\ store' = [store EXCEPT ![s] =
            IF found /\ answered THEN Restacked(head[c], cursor) ELSE cursor]
       /\ image' = [image EXCEPT ![c] =
            IF found /\ answered /\ loads THEN layers[head[c]].image ELSE <<>>]
       /\ astray' = IF (found /\ ~(answered /\ loads)) \/ Elsewhere(c, s)
                    THEN astray \cup {c} ELSE astray \ {c}

(* A thread's REPL is built: its row is opened if there is none, and what  *)
(* was stored last is loaded, if it can be.                                *)
Boot(c) ==
  /\ chat[c] = "live" /\ at[c] = None
  /\ open' = open \cup {c}
  /\ \E s \in Stores :
       /\ s \notin {at[d] : d \in Chats} /\ store[s].queue = <<>>
       /\ at' = [at EXCEPT ![c] = s]
       /\ Load(c, s, Idle)
  /\ UNCHANGED <<chat, messages, head, layers, stored, replPurge, wirePurge, unsent, steps, crossed>>

(* Mutation of Recover: the saves are not awaited.                         *)
RecoverAtOnce(c) ==
  /\ at[c] # None
  /\ Load(c, at[c], store[at[c]])
  /\ UNCHANGED <<tables, at, unsent, steps, crossed>>

(* recover() after the host broke on a step: the saves are awaited, and    *)
(* the last image is loaded again, if it can be.                           *)
Recover(c) ==
  /\ at[c] # None /\ store[at[c]].queue = <<>>
  /\ Load(c, at[c], store[at[c]])
  /\ UNCHANGED <<tables, at, unsent, steps, crossed>>

(* A step crosses others: images of the chat wait in another store, or one *)
(* of an answer to the UI waits as a message's step runs, or rows of the   *)
(* turn are still to be appended as an answer to the UI does.              *)
Crosses(c, source) ==
  \/ Elsewhere(c, at[c])
  \/ source = "ai" /\ \E i \in DOMAIN store[at[c]].queue : store[at[c]].queue[i].origin = None
  \/ source = "ui" /\ unsent[c] # <<>>

(* checkpoint(): a step's image waits to be saved under the message it ran *)
(* for; an answer to the UI runs for none.                                 *)
Step(c, source) ==
  /\ at[c] # None /\ steps < MaxSteps
  /\ steps' = steps + 1
  /\ image' = [image EXCEPT ![c] = Append(@, steps')]
  /\ store' = [store EXCEPT ![at[c]].queue = Append(@,
       [repl |-> c, image |-> image'[c], origin |-> IF source = "ai" THEN steps' ELSE None])]
  /\ unsent' = IF source = "ai"
               THEN [unsent EXCEPT ![c] = @ \o <<[wire |-> steps', type |-> "ai"],
                                                 [wire |-> None, type |-> "tool"]>>]
               ELSE unsent
  /\ crossed' = IF Crosses(c, source) THEN crossed \cup {c} ELSE crossed
  /\ UNCHANGED <<tables, at, astray>>

(* An idle thread leaves memory; the saves it has started go on.           *)
Evict(c) ==
  /\ at[c] # None /\ unsent[c] = <<>>
  /\ at' = [at EXCEPT ![c] = None]
  /\ image' = [image EXCEPT ![c] = <<>>]
  /\ astray' = astray \ {c}
  /\ UNCHANGED <<tables, unsent, store, steps, crossed>>

(* The process ends: what was not stored is gone. *)
Restart ==
  /\ at' = [c \in Chats |-> None]
  /\ image' = [c \in Chats |-> <<>>]
  /\ unsent' = [c \in Chats |-> <<>>]
  /\ store' = [s \in Stores |-> Idle]
  /\ astray' = {}
  /\ UNCHANGED <<tables, steps, crossed>>

-----------------------------------------------------------------------------
(* Rows of messages and layers.                                            *)

(* layerFor(): the layer a chat's own REPL recorded for a message.         *)
Own(c, wire) == {l \in stored : layers[l].repl = c /\ layers[l].origin = wire /\ wire # None}

(* layersOf(): a message stands on the last layer recorded for it or a     *)
(* message before it; those before the first such stand on what that one   *)
(* was recorded over, and without any they stand on the head.              *)
LayersOf(c, rows) ==
  LET owned == {i \in DOMAIN rows : Own(c, rows[i].wire) # {}}
      OwnOf(i) == CHOOSE l \in Own(c, rows[i].wire) : TRUE
      first == CHOOSE i \in owned : \A j \in owned : i <= j
      base == IF c \notin open THEN None
              ELSE IF owned = {} THEN head[c] ELSE layers[OwnOf(first)].parent
      LastOwned(i) == {j \in owned : j <= i /\ \A k \in owned : k <= i => k <= j}
  IN [i \in DOMAIN rows |->
        IF c \notin open \/ LastOwned(i) = {} THEN base
        ELSE OwnOf(CHOOSE j \in LastOwned(i) : TRUE)]

(* appendTo(): the rows a turn has not recorded yet. *)
AppendRows(c) ==
  /\ unsent[c] # <<>>
  /\ unsent' = [unsent EXCEPT ![c] = <<>>]
  /\ messages' = IF chat[c] # "live" THEN messages ELSE
       [messages EXCEPT ![c] = @ \o [i \in DOMAIN unsent[c] |->
          [wire |-> unsent[c][i].wire, type |-> unsent[c][i].type,
           layer |-> LayersOf(c, unsent[c])[i]]]]
  /\ UNCHANGED <<chat, head, open, layers, stored, replPurge, wirePurge, at, image, store, steps, history>>

(* Mutation of Settled: the message itself moves on, not those after it.   *)
SettledAlone(rows, l, origin, parent) ==
  [i \in DOMAIN rows |->
     IF rows[i].wire = origin /\ origin # None /\ rows[i].layer = parent
     THEN [rows[i] EXCEPT !.layer = l] ELSE rows[i]]

(* settleMessages(): messages from the one a layer was recorded for, as    *)
(* long as they stand on what it was recorded over, move on to it.         *)
Settled(rows, l, origin, parent) ==
  LET from == {i \in DOMAIN rows : rows[i].wire = origin /\ origin # None}
      start == CHOOSE i \in from : \A j \in from : i <= j
  IN [i \in DOMAIN rows |->
        IF from # {} /\ i >= start /\ (\A j \in start..i : rows[j].layer = parent)
        THEN [rows[i] EXCEPT !.layer = l] ELSE rows[i]]

(* LayerCursor.over(): a delta over the image below, unless there is none  *)
(* or the run is long enough.                                              *)
Whole(s) == store[s].below = None \/ store[s].run >= MaxRun

(* Mutation of Refused: a delta is taken over any head.                    *)
RefusedNever(s, c) == c \notin open

(* record refuses a delta over another layer than the head.                *)
Refused(s, c) == c \notin open \/ (~Whole(s) /\ store[s].over # head[c])

RunAfter(s) == IF Whole(s) THEN 1 ELSE store[s].run + 1

(* LayerCursor.lose(), after over() moved the cursor on. *)
Lost(s, save) == [store[s] EXCEPT !.below = None, !.run = RunAfter(s)]

(* The row of a layer.  "below" is the image a delta was made from, "run"  *)
(* and "line" (itself and all above it) follow from the parents' rows.     *)
Row(s, save) ==
  LET c == save.repl
      l == Len(layers) + 1
  IN [repl |-> c, parent |-> head[c], origin |-> save.origin, whole |-> Whole(s),
      image |-> save.image, below |-> IF Whole(s) THEN None ELSE store[s].below,
      run |-> RunAfter(s),
      line |-> {l} \cup (IF head[c] = None THEN {} ELSE layers[head[c]].line)]

(* save() and record: the layer becomes the head and the messages settle   *)
(* on it; the answer may get lost on the way back.                         *)
Record(s) ==
  LET save == Head(store[s].queue)
      c == save.repl
      l == Len(layers) + 1
  IN /\ store[s].queue # <<>> /\ l <= MaxLayers
     /\ ~Refused(s, c)
     /\ layers' = Append(layers, Row(s, save))
     /\ stored' = stored \cup {l}
     /\ head' = [head EXCEPT ![c] = l]
     /\ messages' = [messages EXCEPT ![c] = Settled(@, l, save.origin, layers'[l].parent)]
     /\ \E answered \in BOOLEAN :
          store' = [store EXCEPT ![s] =
            IF answered
            THEN [below |-> save.image, run |-> RunAfter(s), over |-> l, queue |-> Tail(@.queue)]
            ELSE [Lost(s, save) EXCEPT !.queue = Tail(@)]]
     /\ UNCHANGED <<chat, open, replPurge, wirePurge, at, image, unsent, steps, history>>

(* The mutation is refused or never arrives. *)
FailSave(s) ==
  /\ store[s].queue # <<>>
  /\ store' = [store EXCEPT ![s] = [Lost(s, Head(@.queue)) EXCEPT !.queue = Tail(@)]]
  /\ UNCHANGED <<tables, at, image, unsent, steps, history>>

-----------------------------------------------------------------------------
(* Forking, dropping and collecting.                                       *)

(* layerBefore(): at an ai message, the layer from before its code ran.    *)
LayerBefore(rows, i) ==
  IF rows[i].type # "ai" THEN rows[i].layer
  ELSE IF i = 1 THEN None ELSE rows[i - 1].layer

Fork(c, d, i) ==
  /\ chat[c] = "live" /\ chat[d] = "none" /\ i \in DOMAIN messages[c]
  /\ chat' = [chat EXCEPT ![d] = "live"]
  /\ messages' = [messages EXCEPT ![d] = SubSeq(messages[c], 1, i)]
  /\ head' = [head EXCEPT ![d] = LayerBefore(messages[c], i)]
  /\ open' = IF head'[d] = None THEN open ELSE open \cup {d}
  /\ UNCHANGED <<layers, stored, replPurge, wirePurge, memory, history>>

(* dropChat() and dropRepl(): the rows of the chat and its REPL are gone   *)
(* at once, those of its layers and messages are purged later.             *)
Drop(c) ==
  /\ chat[c] = "live"
  /\ chat' = [chat EXCEPT ![c] = "dropped"]
  /\ open' = open \ {c}
  /\ replPurge' = IF c \notin open THEN replPurge ELSE
       [replPurge EXCEPT ![c] = [todo |-> {l \in stored : layers[l].repl = c}, head |-> head[c]]]
  /\ wirePurge' = wirePurge \cup {c}
  /\ UNCHANGED <<messages, head, layers, stored, memory, history>>

(* Mutation of Pinned: a message of another chat does not hold a layer.    *)
PinnedByHeads(l, rows) == \E c \in open : head[c] = l

(* referenced(), but for the layer's children: a REPL stands on it, or a   *)
(* message of a chat that is still there.                                  *)
Pinned(l, rows) ==
  \/ \E c \in open : head[c] = l
  \/ \E c \in Chats : chat[c] = "live" /\ \E i \in DOMAIN rows[c] : rows[c][i].layer = l

(* Mutation of Collected: only the layers themselves go.                   *)
CollectedAlone(from, rows) ==
  {l \in from \cap stored : ~Pinned(l, rows) /\ \A d \in stored : layers[d].parent # l}

(* collect() of some layers, one after the other: each is deleted with     *)
(* those above it, up to the first that is pinned or has another child.    *)
Collected(from, rows) ==
  LET above == UNION {layers[l].line : l \in from \cap stored}
  IN {l \in stored : \A d \in stored :
        l \in layers[d].line => d \in above /\ ~Pinned(d, rows)}

(* repls.purge, a layer at a time in the order of the index, whatever that *)
(* is, and at last the head.                                               *)
PurgeRepl(c) ==
  /\ replPurge[c] # None
  /\ LET todo == replPurge[c].todo \cap stored
     IN IF todo = {}
        THEN /\ stored' = stored \ Collected({replPurge[c].head} \ {None}, messages)
             /\ replPurge' = [replPurge EXCEPT ![c] = None]
        ELSE \E l \in todo :
             /\ stored' = stored \ Collected({l}, messages)
             /\ replPurge' = [replPurge EXCEPT ![c].todo = @ \ {l}]
  /\ UNCHANGED <<chat, messages, head, open, layers, wirePurge, memory, history>>

(* messages.purge: a batch of messages is deleted, then their layers are   *)
(* collected.                                                              *)
PurgeMessages(c) ==
  /\ c \in wirePurge
  /\ \E n \in 0..Len(messages[c]) :
       /\ n = 0 => messages[c] = <<>>
       /\ messages' = [messages EXCEPT ![c] = SubSeq(@, n + 1, Len(@))]
       /\ stored' = stored \ Collected({messages[c][i].layer : i \in 1..n} \ {None}, messages')
       /\ wirePurge' = IF messages'[c] = <<>> THEN wirePurge \ {c} ELSE wirePurge
  /\ UNCHANGED <<chat, head, open, layers, replPurge, memory, history>>

Next ==
  \/ \E c \in Chats :
       \/ Boot(c) \/ Recover(c) \/ Evict(c) \/ AppendRows(c)
       \/ \E source \in Sources : Step(c, source)
       \/ \E d \in Chats, i \in 1..(2 * MaxSteps) : Fork(c, d, i)
       \/ Drop(c) \/ PurgeRepl(c) \/ PurgeMessages(c)
  \/ \E s \in Stores : Record(s) \/ FailSave(s)
  \/ Restart

Spec == Init /\ [][Next]_vars

-----------------------------------------------------------------------------
(***************************************************************************)
(* Properties.                                                             *)
(***************************************************************************)

(* What a chat stands on is never collected: the head of every REPL and    *)
(* the layer of every message one can fork at have rows, whatever was      *)
(* dropped meanwhile (fork.test.ts:216).                                   *)
Restorable ==
  /\ \A c \in open : head[c] # None => head[c] \in stored
  /\ \A c \in Chats : chat[c] = "live" =>
       \A i \in DOMAIN messages[c] : messages[c][i].layer \in stored \cup {None}

(* Every stored layer can be restored: a delta has its parent's row, and   *)
(* was made from the image that one restores, so that stacking its run     *)
(* gives the image that was saved, whichever stores wrote it and whichever *)
(* of their saves got lost; and no more than MAX_DELTA_RUN layers have to  *)
(* be stacked, across forks and restarts.                                  *)
Faithful ==
  \A l \in stored :
    /\ ~layers[l].whole => /\ layers[l].parent \in stored
                           /\ layers[layers[l].parent].image = layers[l].below
    /\ \E w \in layers[l].line :
         layers[w].whole /\ Cardinality({d \in layers[l].line : d >= w}) <= MaxRun

(* Once nothing is left to purge, every layer has a chat that stands on it *)
(* or on a layer over it (fork.test.ts:270).                               *)
NothingLeaks ==
  (wirePurge = {} /\ \A c \in Chats : replPurge[c] = None) =>
    \A l \in stored : \E d \in stored : l \in layers[d].line /\ Pinned(d, messages)

(* A message that has a layer of its own stands on it or on one over it. *)
OnOwnLayers(c) ==
  \A i \in DOMAIN messages[c] : \A l \in Own(c, messages[c][i].wire) :
    /\ messages[c][i].layer # None
    /\ l \in layers[messages[c][i].layer].line

(* A message's layer is back-filled whichever of the two is stored first,  *)
(* over lost saves, failed loads, evictions and restarts, as long as no    *)
(* step of its chat crossed another one's.                                 *)
BackFilled == \A c \in Chats \ crossed : chat[c] = "live" => OnOwnLayers(c)

(* fork.test.ts of a message's layer: "is back-filled when the layer is    *)
(* recorded after the message" (:65), whatever else runs.                  *)
AlwaysBackFilled == \A c \in Chats : chat[c] = "live" => OnOwnLayers(c)

(* What is stored of a chat is ahead of its REPL.                          *)
Overtaken(c) ==
  at[c] # None /\ head[c] # None /\ ~IsPrefix(layers[head[c]].image, image[c])

(* What is stored of a chat is never ahead of its REPL, over evictions,    *)
(* recoveries and lost saves, once the REPL was made from what was stored  *)
(* with no save of it left in another store.                               *)
ResumesLast == \A c \in open \ astray : ~Overtaken(c)

(* checkpoints.test.ts:80: "resumes in a new REPL where the last one       *)
(* stopped", whatever fails to load and whatever is still being saved.     *)
ResumesWhereStopped == \A c \in open : ~Overtaken(c)
=============================================================================
