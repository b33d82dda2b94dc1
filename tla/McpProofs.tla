----------------------------- MODULE McpProofs ------------------------------
(***************************************************************************)
(* Proofs about the server of a session, for any number of loads, calls    *)
(* and restores: who holds its connection, that it stays shut, and that    *)
(* its process stops with it.                                              *)
(***************************************************************************)
EXTENDS Mcp, TLAPS

(* The loads that were started are those that have a phase. *)
Numbered == \A n \in Load : load[n].phase = "none" <=> n > next

(* A connection opens with its load and is closed once that has settled. *)
Phased ==
  /\ \A n \in open : load[n].phase \in {"connected", "settled"}
  /\ \A n \in closing : load[n].phase = "settled"
  /\ \A n \in Load : load[n].phase = "connected" => n \in open

(* A server that is loaded was connected by a load of this session. *)
Served ==
  entry.state = "loaded" =>
    /\ entry.server \in open
    /\ load[entry.server].phase = "settled" /\ ~load[entry.server].old

(* The loads of a session that ended were aborted. *)
OldAborted == \A n \in UnderWay : load[n].old => load[n].aborted

(* Unless loads overlap there is one, and nothing is loaded meanwhile. *)
OneAtATime ==
  ~overlapped => \A n \in Current : Current = {n} /\ entry.state # "loaded"

(* What reconnects the server is a load under way. *)
Awaited == reconnecting # 0 => reconnecting \in Current

Held == ~overlapped => open \subseteq Connection \cup Arriving

(* A shutdown cancels what is under way, but for what a restore resumed. *)
Cancellable ==
  \A n \in Current : load[n].aborted \/ load[n].by = "image" \/ n \in loading

(* While it is shut, only that can arrive. *)
Shut ==
  shut => /\ \A n \in UnderWay : load[n].aborted \/ load[n].by = "image"
          /\ StaysShut

(* The process that the host started is that of a load, of the server that *)
(* is loaded, or of a connection about to be closed.                       *)
Owned ==
  process = "started" /\ ~overlapped /\ ~stray =>
    \/ \E n \in Current : load[n].phase \in {"connecting", "connected"}
    \/ entry.state = "loaded"
    \/ \E n \in closing : ~load[n].old

IInv ==
  /\ TypeOK /\ Numbered /\ Phased /\ Served /\ OldAborted /\ OneAtATime /\ Awaited
  /\ Held /\ Cancellable /\ Shut /\ Owned

-----------------------------------------------------------------------------
(* A load's record, and what the steps need to know of values.             *)
Record == [phase : Phase, by : {"load", "call", "image"}, aborted : BOOLEAN, old : BOOLEAN]

(* ... of the variables, as each proof below cites them. *)
LEMMA TypesKnown ==
  ASSUME TypeOK
  PROVE  /\ load \in [Load -> Record] /\ \A n \in Load : load[n] \in Record
         /\ overlapped \in BOOLEAN /\ shut \in BOOLEAN /\ stray \in BOOLEAN
         /\ next \in Nat /\ MaxLoads \in Nat /\ next <= MaxLoads
         /\ entry.state = "loaded" => entry.server \in Load
         /\ NoEntry \in Entry /\ NoEntry.state # "loaded"
<1>1. load \in [Load -> Record] BY DEF TypeOK, Record
<1>2. overlapped \in BOOLEAN /\ shut \in BOOLEAN /\ stray \in BOOLEAN BY DEF TypeOK
<1>3. MaxLoads \in Nat BY BoundsAssumption
<1>4. next \in Nat /\ next <= MaxLoads BY <1>3 DEF TypeOK
<1>5. entry.state = "loaded" => entry.server \in Load BY DEF TypeOK, Entry, NoEntry
<1> QED BY <1>1, <1>2, <1>3, <1>4, <1>5 DEF Entry, NoEntry

(* Nothing is loaded at first. *)
LEMMA StartsSo == ASSUME Init PROVE IInv
<1>1. {MaxLoads, MaxCalls, MaxRestores} \subseteq Nat BY BoundsAssumption
<1>2. Unused \in Record BY DEF Unused, Record, Phase
<1>3. \A n \in Load : load[n] = Unused BY DEF Init
<1>4. TypeOK
  <2>1. load \in [Load -> Record] BY <1>2 DEF Init
  <2>2. entry \in Entry /\ image \in [entry : Entry, pending : BOOLEAN] BY DEF Init, Entry
  <2>3. 0 \in 0..MaxLoads /\ 0 \in 0..MaxCalls /\ 0 \in 0..MaxRestores BY <1>1
  <2>4. {overlapped, shut, stray} \subseteq BOOLEAN BY DEF Init
  <2>5. loading \subseteq Load /\ open \subseteq Load /\ closing \subseteq Load \ open BY DEF Init
  <2> QED BY <2>1, <2>2, <2>3, <2>4, <2>5 DEF Init, TypeOK, Record
<1>5. Numbered BY <1>3 DEF Numbered, Unused, Init, Load
<1>6. \A n \in Load : load[n].phase = "none" BY <1>3 DEF Unused
<1>7. UnderWay = {} /\ Current = {} BY <1>6 DEF UnderWay, Current
<1>8. entry.state # "loaded" BY DEF Init, NoEntry
<1>9. Phased /\ Served /\ OldAborted BY <1>6, <1>7, <1>8 DEF Init, Phased, Served, OldAborted
<1>10. OneAtATime /\ Awaited /\ Held BY <1>7 DEF Init, OneAtATime, Awaited, Held
<1>11. Cancellable /\ Shut /\ Owned BY <1>7 DEF Init, Cancellable, Shut, Owned
<1> QED BY <1>4, <1>5, <1>9, <1>10, <1>11 DEF IInv

(* A load that begins is one more, and the others go on. *)
LEMMA BeginsOne ==
  ASSUME IInv, NEW by \in {"load", "call", "image"}, Begins(by)
  PROVE  /\ next + 1 \in Load /\ next' = next + 1 /\ load[next + 1].phase = "none"
         /\ load'[next + 1] = [phase |-> "ensuring", by |-> by, aborted |-> FALSE, old |-> FALSE]
         /\ \A n \in Load : n # next + 1 => load'[n] = load[n]
         /\ load' \in [Load -> Record]
         /\ UnderWay' = UnderWay \cup {next + 1} /\ Current' = Current \cup {next + 1}
         /\ ~overlapped' => ~overlapped /\ Current = {}
         /\ overlapped' \in BOOLEAN /\ shut' = FALSE
<1>1. next \in Nat /\ next < MaxLoads /\ MaxLoads \in Nat BY TypesKnown DEF IInv, Begins
<1>2. next + 1 \in Load /\ next + 1 > next BY <1>1 DEF Load
<1>3. load[next + 1].phase = "none" BY <1>2 DEF IInv, Numbered
<1> DEFINE begun == [phase |-> "ensuring", by |-> by, aborted |-> FALSE, old |-> FALSE]
<1>4. begun \in Record BY DEF Record, Phase
<1>5. load' = [load EXCEPT ![next + 1] = begun] BY DEF Begins
<1>6. load' \in [Load -> Record] /\ load'[next + 1] = begun
      /\ \A n \in Load : n # next + 1 => load'[n] = load[n]
  <2> HIDE DEF begun
  <2> QED BY <1>2, <1>4, <1>5, TypesKnown DEF IInv
<1>7. UnderWay' = UnderWay \cup {next + 1} /\ Current' = Current \cup {next + 1}
  BY <1>2, <1>3, <1>6 DEF UnderWay, Current
<1>8. overlapped' = (overlapped \/ Current # {}) /\ shut' = FALSE BY DEF Begins
<1> QED BY <1>2, <1>3, <1>6, <1>7, <1>8 DEF Begins

-----------------------------------------------------------------------------
(* load-mcp *)
LEMMA LoadMcpKeeps == ASSUME IInv, LoadMcp PROVE IInv'
<1> DEFINE new == next + 1
<1>1. /\ new \in Load /\ next' = new /\ load[new].phase = "none"
      /\ load'[new] = [phase |-> "ensuring", by |-> "load", aborted |-> FALSE, old |-> FALSE]
      /\ \A n \in Load : n # new => load'[n] = load[n]
      /\ load' \in [Load -> Record]
      /\ UnderWay' = UnderWay \cup {new} /\ Current' = Current \cup {new}
      /\ ~overlapped' => ~overlapped /\ Current = {}
      /\ overlapped' \in BOOLEAN /\ shut' = FALSE
  BY BeginsOne DEF LoadMcp
<1>2. /\ loading' = loading \cup {new} /\ entry' = NoEntry
      /\ open' = open \ Connection /\ closing' = closing \cup (Connection \cap open)
      /\ UNCHANGED <<reconnecting, waiting, process, image, restores, stray>>
  BY DEF LoadMcp, Disconnects
<1>3. /\ NoEntry \in Entry /\ NoEntry.state # "loaded" /\ new \in 0..MaxLoads
      /\ \A n \in Load : n > new <=> n > next /\ n # new
  BY <1>1, TypesKnown DEF IInv, Load
<1> HIDE DEF new
<1>4. TypeOK'
  <2>1. next' \in 0..MaxLoads BY <1>1, <1>3
  <2>2. open' \subseteq Load /\ closing' \subseteq Load \ open' BY <1>2 DEF IInv, TypeOK
  <2>3. {overlapped', shut', stray'} \subseteq BOOLEAN BY <1>1, <1>2 DEF IInv, TypeOK
  <2> QED BY <1>1, <1>2, <1>3, <2>1, <2>2, <2>3 DEF IInv, TypeOK, Record
<1>5. Numbered' BY <1>1, <1>3 DEF IInv, Numbered
<1>6. \A n \in open : n # new /\ n \in Load BY <1>1 DEF IInv, TypeOK, Phased
<1>7. \A n \in closing : n # new /\ n \in Load BY <1>1 DEF IInv, TypeOK, Phased
<1>8. Connection # {} => Connection \subseteq open /\ \A n \in Connection : load[n].phase = "settled" /\ ~load[n].old
  BY DEF IInv, Served, Connection
<1>9. Phased' BY <1>1, <1>2, <1>6, <1>7, <1>8 DEF IInv, Phased
<1>10. Served' /\ OldAborted' BY <1>1, <1>2, <1>3 DEF IInv, Served, OldAborted, UnderWay
<1>11. OneAtATime' BY <1>1, <1>2, <1>3 DEF OneAtATime
<1>12. Awaited' BY <1>1, <1>2 DEF IInv, Awaited
<1>13. Arriving' = Arriving BY <1>1 DEF Arriving, UnderWay
<1>14. Held' BY <1>1, <1>2, <1>13 DEF IInv, Held, Connection
<1>15. Cancellable' BY <1>1, <1>2 DEF IInv, Cancellable, Current, UnderWay
<1>16. Shut' BY <1>1 DEF Shut
<1>17. Owned' BY <1>1, <1>2, <1>6, <1>7, <1>8 DEF IInv, Owned, Connection
<1> QED BY <1>4, <1>5, <1>9, <1>10, <1>11, <1>12, <1>14, <1>15, <1>16, <1>17 DEF IInv

(* The entry's connection, if any, is open, and of a load of this session. *)
LEMMA EntryOpen ==
  ASSUME IInv
  PROVE  /\ Connection \subseteq open /\ Connection \subseteq Load
         /\ \A n \in Connection : load[n].phase = "settled" /\ ~load[n].old
         /\ entry.state = "loaded" <=> Connection # {}
BY TypesKnown DEF IInv, Served, Connection

(* The steps that leave the loads, and what they hold. *)
LEMMA SaveKeeps == ASSUME IInv, Save PROVE IInv'
<1>1. UNCHANGED <<entry, load, loading, reconnecting, waiting, open, closing, process, next,
                  restores, overlapped, shut, stray>>
  BY DEF Save, book, host, counts, history
<1>2. image' \in [entry : Entry, pending : BOOLEAN]
  <2>1. entry \in Entry BY DEF IInv, TypeOK
  <2> QED BY <2>1 DEF Save
<1>3. TypeOK' BY <1>1, <1>2 DEF IInv, TypeOK
<1>4. Numbered' /\ Phased' /\ Served' BY <1>1 DEF IInv, Numbered, Phased, Served
<1>5. OldAborted' /\ OneAtATime' /\ Awaited' /\ Held' /\ Cancellable'
  BY <1>1 DEF IInv, OldAborted, OneAtATime, Awaited, Held, Cancellable, Current, UnderWay,
              Connection, Arriving
<1>6. Shut' /\ Owned' BY <1>1 DEF IInv, Shut, StaysShut, Owned, Current, UnderWay, NoEntry
<1> QED BY <1>3, <1>4, <1>5, <1>6 DEF IInv

(* ... and the step that changes nothing. *)
LEMMA StutterKeeps == ASSUME IInv, UNCHANGED vars PROVE IInv'
<1>1. UNCHANGED <<entry, load, loading, reconnecting, waiting, open, closing, process, next,
                  restores, overlapped, shut, stray, image>>
  BY DEF vars
<1>3. TypeOK' BY <1>1 DEF IInv, TypeOK
<1>4. Numbered' /\ Phased' /\ Served' BY <1>1 DEF IInv, Numbered, Phased, Served
<1>5. OldAborted' /\ OneAtATime' /\ Awaited' /\ Held' /\ Cancellable'
  BY <1>1 DEF IInv, OldAborted, OneAtATime, Awaited, Held, Cancellable, Current, UnderWay,
              Connection, Arriving
<1>6. Shut' /\ Owned' BY <1>1 DEF IInv, Shut, StaysShut, Owned, Current, UnderWay, NoEntry
<1> QED BY <1>3, <1>4, <1>5, <1>6 DEF IInv

(* unload-mcp: the connection is given to whoever closes it. *)
LEMMA UnloadKeeps == ASSUME IInv, Unload PROVE IInv'
<1>1. /\ entry' = NoEntry /\ open' = open \ Connection /\ closing' = closing \cup Connection
      /\ UNCHANGED <<load, loading, reconnecting, waiting, process, image, next, restores,
                     overlapped, shut, stray>>
  BY EntryOpen DEF Unload, Disconnects, book, counts, history
<1>2. NoEntry \in Entry /\ NoEntry.state # "loaded" BY TypesKnown DEF IInv
<1>3. UnderWay' = UnderWay /\ Current' = Current /\ Arriving' = Arriving
  BY <1>1 DEF UnderWay, Current, Arriving
<1>4. TypeOK' BY <1>1, <1>2, EntryOpen DEF IInv, TypeOK
<1>5. Numbered' BY <1>1 DEF IInv, Numbered
<1>6. Phased' BY <1>1, EntryOpen DEF IInv, Phased
<1>7. Served' /\ OldAborted' /\ OneAtATime' /\ Awaited' /\ Cancellable'
  BY <1>1, <1>2, <1>3 DEF IInv, Served, OldAborted, OneAtATime, Awaited, Cancellable
<1>8. Held' BY <1>1, <1>3 DEF IInv, Held
<1>9. Shut' BY <1>1, <1>3 DEF IInv, Shut, StaysShut, NoEntry
<1>10. Owned' BY <1>1, <1>3, EntryOpen DEF IInv, Owned
<1> QED BY <1>4, <1>5, <1>6, <1>7, <1>8, <1>9, <1>10 DEF IInv

(* A call that reconnects a server loads it; the others wait. *)
LEMMA CallKeeps == ASSUME IInv, Call PROVE IInv'
<1> DEFINE new == next + 1
<1>1. /\ entry.state = "dormant" /\ UNCHANGED <<entry, open, closing, process, image, restores, stray>>
      /\ waiting' \in 0..MaxCalls
  <2>1. waiting \in 0..MaxCalls /\ waiting < MaxCalls /\ MaxCalls \in Nat
    BY BoundsAssumption DEF Call, IInv, TypeOK
  <2> QED BY <2>1 DEF Call, host
<1>2. CASE reconnecting # 0
  <2>1. UNCHANGED <<load, loading, reconnecting, next, overlapped, shut>> BY <1>2 DEF Call
  <2>2. UnderWay' = UnderWay /\ Current' = Current /\ Arriving' = Arriving /\ Connection' = Connection
    BY <1>1, <2>1 DEF UnderWay, Current, Arriving, Connection
  <2>3. TypeOK' BY <1>1, <2>1 DEF IInv, TypeOK
  <2>4. Numbered' /\ Phased' /\ Served' BY <1>1, <2>1 DEF IInv, Numbered, Phased, Served
  <2>5. OldAborted' /\ OneAtATime' /\ Awaited' /\ Held' /\ Cancellable'
    BY <1>1, <2>1, <2>2 DEF IInv, OldAborted, OneAtATime, Awaited, Held, Cancellable
  <2>6. Shut' /\ Owned' BY <1>1, <2>1, <2>2 DEF IInv, Shut, StaysShut, Owned, NoEntry
  <2> QED BY <2>3, <2>4, <2>5, <2>6 DEF IInv
<1>3. CASE reconnecting = 0
  <2>1. /\ new \in Load /\ next' = new /\ load[new].phase = "none"
        /\ load'[new] = [phase |-> "ensuring", by |-> "call", aborted |-> FALSE, old |-> FALSE]
        /\ \A n \in Load : n # new => load'[n] = load[n]
        /\ load' \in [Load -> Record]
        /\ UnderWay' = UnderWay \cup {new} /\ Current' = Current \cup {new}
        /\ ~overlapped' => ~overlapped /\ Current = {}
        /\ overlapped' \in BOOLEAN /\ shut' = FALSE
    BY <1>3, BeginsOne DEF Call
  <2>2. loading' = loading \cup {new} /\ reconnecting' = new BY <1>3 DEF Call
  <2>3. new \in 0..MaxLoads /\ \A n \in Load : n > new <=> n > next /\ n # new
    BY <2>1, TypesKnown DEF IInv, Load
  <2> HIDE DEF new
  <2>4. TypeOK'
    <3>1. {overlapped', shut', stray'} \subseteq BOOLEAN BY <1>1, <2>1 DEF IInv, TypeOK
    <3> QED BY <1>1, <2>1, <2>2, <2>3, <3>1 DEF IInv, TypeOK, Record
  <2>5. Numbered' BY <2>1, <2>3 DEF IInv, Numbered
  <2>6. \A n \in open \cup closing : n # new /\ n \in Load BY <2>1 DEF IInv, TypeOK, Phased
  <2>7. Phased' BY <1>1, <2>1, <2>6 DEF IInv, Phased
  <2>8. Connection = {} /\ Connection' = {} BY <1>1 DEF Connection
  <2>9. Served' /\ OneAtATime' BY <1>1, <2>1 DEF Served, OneAtATime
  <2>10. OldAborted' BY <2>1 DEF IInv, OldAborted, UnderWay
  <2>11. Awaited' BY <2>1, <2>2 DEF Awaited
  <2>12. Arriving' = Arriving BY <2>1 DEF Arriving, UnderWay
  <2>13. Held' BY <1>1, <2>1, <2>8, <2>12 DEF IInv, Held
  <2>14. Cancellable' BY <2>1, <2>2 DEF IInv, Cancellable, Current, UnderWay
  <2>15. Shut' BY <2>1 DEF Shut
  <2>16. Owned' BY <1>1, <2>1, <2>6 DEF IInv, Owned
  <2> QED BY <2>4, <2>5, <2>7, <2>9, <2>10, <2>11, <2>13, <2>14, <2>15, <2>16 DEF IInv
<1> QED BY <1>2, <1>3

-----------------------------------------------------------------------------
(* A load goes on to its next phase. *)
LEMMA MovesOn ==
  ASSUME TypeOK, NEW n \in Load, NEW p \in Phase, load' = [load EXCEPT ![n].phase = p]
  PROVE  /\ load' \in [Load -> Record] /\ load'[n].phase = p
         /\ \A m \in Load : /\ m # n => load'[m] = load[m]
                            /\ load'[m].by = load[m].by /\ load'[m].aborted = load[m].aborted
                            /\ load'[m].old = load[m].old
<1>1. load \in [Load -> Record] /\ load[n] \in Record BY TypesKnown
<1> HIDE DEF Load
<1>2. [load[n] EXCEPT !.phase = p] \in Record BY <1>1 DEF Record
<1> QED BY <1>1, <1>2 DEF Record

(* host.ensure(): who starts the process goes on to connect. *)
LEMMA EnsureKeeps == ASSUME IInv, NEW n \in Load, Ensure(n) PROVE IInv'
<1>1. /\ load[n].phase = "ensuring" /\ load' = [load EXCEPT ![n].phase = "connecting"]
      /\ UNCHANGED <<entry, loading, reconnecting, waiting, open, closing, image, next, restores,
                     overlapped, shut, stray>>
  BY DEF Ensure, book, counts, history
<1>2. /\ load' \in [Load -> Record] /\ load'[n].phase = "connecting"
      /\ \A m \in Load : /\ m # n => load'[m] = load[m]
                         /\ load'[m].by = load[m].by /\ load'[m].aborted = load[m].aborted
                         /\ load'[m].old = load[m].old
  BY <1>1, MovesOn DEF IInv, Phase
<1>3. UnderWay' = UnderWay /\ Current' = Current /\ Arriving' = Arriving /\ Connection' = Connection
  BY <1>1, <1>2 DEF UnderWay, Current, Arriving, Connection
<1>4. TypeOK'
  <2>1. process' \in {"none", "started", "found"} BY DEF Ensure, IInv, TypeOK
  <2> QED BY <1>1, <1>2, <2>1 DEF IInv, TypeOK, Record
<1>5. Numbered' BY <1>1, <1>2 DEF IInv, Numbered
<1>6. \A m \in open \cup closing : m # n /\ m \in Load BY <1>1 DEF IInv, TypeOK, Phased
<1>7. Phased' /\ Served' BY <1>1, <1>2, <1>6 DEF IInv, Phased, Served
<1>8. OldAborted' /\ Cancellable' BY <1>1, <1>2, <1>3 DEF IInv, OldAborted, Cancellable, UnderWay, Current
<1>9. OneAtATime' /\ Awaited' /\ Held' BY <1>1, <1>3 DEF IInv, OneAtATime, Awaited, Held
<1>10. Shut' BY <1>1, <1>2, <1>3, TypesKnown DEF IInv, Shut, StaysShut, UnderWay, TypeOK, Entry
<1>11. Owned'
  <2>1. process' = "started" => process = "started" \/ n \in Current'
    BY <1>1, <1>3 DEF Ensure, UnderWay, Current
  <2> QED BY <1>1, <1>2, <1>3, <1>6, <2>1 DEF IInv, Owned
<1> QED BY <1>4, <1>5, <1>7, <1>8, <1>9, <1>10, <1>11 DEF IInv

(* openClient(): the connection is its load's. *)
LEMMA ConnectKeeps == ASSUME IInv, NEW n \in Load, Connect(n) PROVE IInv'
<1>1. /\ load[n].phase = "connecting" /\ load' = [load EXCEPT ![n].phase = "connected"]
      /\ open' = open \cup {n}
      /\ UNCHANGED <<entry, loading, reconnecting, waiting, closing, process, image, next, restores,
                     overlapped, shut, stray>>
  BY DEF Connect, book, counts, history
<1>2. /\ load' \in [Load -> Record] /\ load'[n].phase = "connected"
      /\ \A m \in Load : /\ m # n => load'[m] = load[m]
                         /\ load'[m].by = load[m].by /\ load'[m].aborted = load[m].aborted
                         /\ load'[m].old = load[m].old
  BY <1>1, MovesOn DEF IInv, Phase
<1>3. UnderWay' = UnderWay /\ Current' = Current /\ Arriving' = Arriving \cup {n} /\ Connection' = Connection
  BY <1>1, <1>2 DEF UnderWay, Current, Arriving, Connection
<1>4. \A m \in open \cup closing : m # n /\ m \in Load BY <1>1 DEF IInv, TypeOK, Phased
<1>5. TypeOK' BY <1>1, <1>2, <1>4 DEF IInv, TypeOK, Record
<1>6. Numbered' BY <1>1, <1>2 DEF IInv, Numbered
<1>7. Phased' /\ Served' BY <1>1, <1>2, <1>4 DEF IInv, Phased, Served
<1>8. OldAborted' /\ Cancellable' BY <1>1, <1>2, <1>3 DEF IInv, OldAborted, Cancellable, UnderWay, Current
<1>9. OneAtATime' /\ Awaited' /\ Held' BY <1>1, <1>3 DEF IInv, OneAtATime, Awaited, Held
<1>10. Shut' BY <1>1, <1>2, <1>3, TypesKnown DEF IInv, Shut, StaysShut, UnderWay, TypeOK, Entry
<1>11. Owned' BY <1>1, <1>2, <1>3, <1>4 DEF IInv, Owned
<1> QED BY <1>5, <1>6, <1>7, <1>8, <1>9, <1>10, <1>11 DEF IInv

(* A load settles: it is under way no more, and awaited by none. *)
LEMMA SettlesOne ==
  ASSUME IInv, NEW n \in UnderWay, Settles(n)
  PROVE  /\ load' \in [Load -> Record] /\ load'[n].phase = "settled"
         /\ \A m \in Load : /\ m # n => load'[m] = load[m]
                            /\ load'[m].by = load[m].by /\ load'[m].aborted = load[m].aborted
                            /\ load'[m].old = load[m].old
         /\ UnderWay' = UnderWay \ {n} /\ Current' = Current \ {n} /\ Arriving' = Arriving \ {n}
         /\ loading' = loading \ {n} /\ loading' \subseteq Load
         /\ reconnecting' \in 0..MaxLoads /\ waiting' \in 0..MaxCalls
         /\ (\A m \in Load : load'[m].phase = "none" <=> load[m].phase = "none")
         /\ Awaited' /\ OldAborted' /\ Cancellable'
         /\ \A m \in Current : m # n => m \in Current'
<1>1. n \in Load /\ load' = [load EXCEPT ![n].phase = "settled"] BY DEF UnderWay, Settles
<1>2. /\ load' \in [Load -> Record] /\ load'[n].phase = "settled"
      /\ \A m \in Load : /\ m # n => load'[m] = load[m]
                         /\ load'[m].by = load[m].by /\ load'[m].aborted = load[m].aborted
                         /\ load'[m].old = load[m].old
  BY <1>1, MovesOn DEF IInv, Phase
<1>3. UnderWay' = UnderWay \ {n} /\ Current' = Current \ {n} /\ Arriving' = Arriving \ {n}
  BY <1>1, <1>2 DEF UnderWay, Current, Arriving
<1>4. loading' = loading \ {n} /\ loading' \subseteq Load BY DEF Settles, IInv, TypeOK
<1>5. reconnecting' \in 0..MaxLoads /\ waiting' \in 0..MaxCalls
  BY BoundsAssumption DEF Settles, IInv, TypeOK
<1>6. \A m \in Load : load'[m].phase = "none" <=> load[m].phase = "none"
  BY <1>1, <1>2 DEF UnderWay
<1>7. Awaited' BY <1>3 DEF Settles, IInv, Awaited
<1>8. OldAborted' BY <1>2, <1>3 DEF IInv, OldAborted, UnderWay
<1>9. Cancellable' BY <1>2, <1>3, <1>4 DEF IInv, Cancellable, Current, UnderWay
<1> QED BY <1>2, <1>3, <1>4, <1>5, <1>6, <1>7, <1>8, <1>9

(* What reconnect() reports changes no entry of a server that is loaded,   *)
(* unless loads overlapped.                                                *)
LEMMA ReportedOne ==
  ASSUME IInv, NEW n \in Load, Reported(n)
  PROVE  /\ entry' \in Entry
         /\ entry'.state = "loaded" => entry' = entry
         /\ ~overlapped => Connection' = Connection /\ (entry'.state = "loaded" <=> entry.state = "loaded")
         /\ entry' # NoEntry => entry # NoEntry /\ entry'.server = entry.server
<1>1. entry \in Entry BY DEF IInv, TypeOK
<1>2. CASE reconnecting = n /\ entry # NoEntry
  <2>1. entry' = [entry EXCEPT !.state = "failed"] BY <1>2 DEF Reported
  <2>2. entry \in [state : {"loaded", "dormant", "failed"}, server : Load] BY <1>1, <1>2 DEF Entry
  <2>3. entry' \in Entry /\ entry'.state = "failed" /\ entry'.server = entry.server
    BY <2>1, <2>2 DEF Entry
  <2>4. ~overlapped => entry.state # "loaded"
    <3> SUFFICES ASSUME ~overlapped PROVE entry.state # "loaded" OBVIOUS
    <3>1. reconnecting # 0 BY <1>2, TypesKnown DEF IInv, Load
    <3> QED BY <3>1 DEF IInv, Awaited, OneAtATime
  <2> QED BY <1>2, <2>3, <2>4 DEF Connection
<1>3. CASE ~(reconnecting = n /\ entry # NoEntry)
  <2>1. entry' = entry BY <1>3 DEF Reported
  <2> QED BY <1>1, <2>1 DEF Connection
<1> QED BY <1>2, <1>3

(* A load that fails leaves no connection; if it had started the process,  *)
(* that is noted.                                                          *)
LEMMA FailKeeps == ASSUME IInv, NEW n \in Load, Fail(n) PROVE IInv'
<1>1. /\ load[n].phase \in {"ensuring", "connecting"} /\ n \in UnderWay /\ Settles(n) /\ Reported(n)
      /\ stray' = (stray \/ (~load[n].old /\ load[n].phase = "connecting" /\ process = "started"))
      /\ UNCHANGED <<open, closing, process, image, next, restores, overlapped, shut>>
  BY DEF Fail, host, counts, UnderWay
<1>2. /\ load' \in [Load -> Record] /\ load'[n].phase = "settled"
      /\ \A m \in Load : /\ m # n => load'[m] = load[m]
                         /\ load'[m].by = load[m].by /\ load'[m].aborted = load[m].aborted
                         /\ load'[m].old = load[m].old
      /\ UnderWay' = UnderWay \ {n} /\ Current' = Current \ {n} /\ Arriving' = Arriving \ {n}
      /\ loading' \subseteq Load /\ reconnecting' \in 0..MaxLoads /\ waiting' \in 0..MaxCalls
      /\ (\A m \in Load : load'[m].phase = "none" <=> load[m].phase = "none")
      /\ Awaited' /\ OldAborted' /\ Cancellable'
  BY <1>1, SettlesOne
<1>3. /\ entry' \in Entry
      /\ entry'.state = "loaded" => entry' = entry
      /\ ~overlapped => Connection' = Connection /\ (entry'.state = "loaded" <=> entry.state = "loaded")
      /\ entry' # NoEntry => entry # NoEntry /\ entry'.server = entry.server
  BY <1>1, ReportedOne
<1>4. \A m \in open \cup closing : m # n /\ m \in Load BY <1>1 DEF IInv, TypeOK, Phased
<1>5. TypeOK'
  <2>1. {overlapped', shut', stray'} \subseteq BOOLEAN BY <1>1, TypesKnown DEF IInv
  <2> QED BY <1>1, <1>2, <1>3, <2>1 DEF IInv, TypeOK, Record
<1>6. Numbered' BY <1>1, <1>2 DEF IInv, Numbered
<1>7. Phased' BY <1>1, <1>2, <1>4 DEF IInv, Phased
<1>8. Served' BY <1>1, <1>2, <1>3, <1>4 DEF IInv, Served
<1>9. OneAtATime' BY <1>1, <1>2, <1>3 DEF IInv, OneAtATime
<1>10. Held' BY <1>1, <1>2, <1>3, <1>4 DEF IInv, Held
<1>11. Shut'
  <2>1. entry' # NoEntry => entry'.server \in Load BY <1>3 DEF Entry
  <2> QED BY <1>1, <1>2, <1>3, <2>1 DEF IInv, Shut, StaysShut, UnderWay
<1>12. Owned'
  <2> SUFFICES ASSUME process' = "started", ~overlapped', ~stray'
               PROVE  \/ \E m \in Current' : load'[m].phase \in {"connecting", "connected"}
                      \/ entry'.state = "loaded"
                      \/ \E m \in closing' : ~load'[m].old
    BY DEF Owned
  <2>1. process = "started" /\ ~overlapped /\ ~stray
        /\ ~(~load[n].old /\ load[n].phase = "connecting")
    BY <1>1, TypesKnown DEF IInv
  <2>2. \/ \E m \in Current : load[m].phase \in {"connecting", "connected"}
        \/ entry.state = "loaded"
        \/ \E m \in closing : ~load[m].old
    BY <2>1 DEF IInv, Owned
  <2>3. ASSUME NEW m \in Current, load[m].phase \in {"connecting", "connected"}
        PROVE  m \in Current' /\ load'[m].phase \in {"connecting", "connected"}
    BY <1>1, <1>2, <2>1, <2>3 DEF Current, UnderWay
  <2> QED BY <1>1, <1>2, <1>3, <1>4, <2>1, <2>2, <2>3
<1> QED BY <1>2, <1>5, <1>6, <1>7, <1>8, <1>9, <1>10, <1>11, <1>12 DEF IInv

(* What a load connected is the entry's, or is about to be closed. *)
LEMMA ArriveKeeps == ASSUME IInv, NEW n \in Load, Arrive(n) PROVE IInv'
<1>1. /\ load[n].phase = "connected" /\ n \in UnderWay /\ Settles(n) /\ n \in open /\ n \notin closing
      /\ UNCHANGED <<process, image, next, restores, overlapped, shut, stray>>
  BY DEF Arrive, counts, history, UnderWay, IInv, Phased, TypeOK
<1>2. /\ load' \in [Load -> Record] /\ load'[n].phase = "settled"
      /\ \A m \in Load : /\ m # n => load'[m] = load[m]
                         /\ load'[m].by = load[m].by /\ load'[m].aborted = load[m].aborted
                         /\ load'[m].old = load[m].old
      /\ UnderWay' = UnderWay \ {n} /\ Current' = Current \ {n} /\ Arriving' = Arriving \ {n}
      /\ loading' \subseteq Load /\ reconnecting' \in 0..MaxLoads /\ waiting' \in 0..MaxCalls
      /\ (\A m \in Load : load'[m].phase = "none" <=> load[m].phase = "none")
      /\ Awaited' /\ OldAborted' /\ Cancellable'
  BY <1>1, SettlesOne
<1>3. \A m \in open \cup closing : m \in Load BY DEF IInv, TypeOK
<1>4. Numbered' BY <1>1, <1>2 DEF IInv, Numbered
<1>5. {overlapped', shut', stray'} \subseteq BOOLEAN BY <1>1 DEF IInv, TypeOK
<1>6. CASE load[n].aborted
  <2>1. open' = open \ {n} /\ closing' = closing \cup {n} /\ Reported(n)
    BY <1>1, <1>6 DEF Arrive, Disconnects
  <2>2. /\ entry' \in Entry
        /\ entry'.state = "loaded" => entry' = entry
        /\ ~overlapped => Connection' = Connection /\ (entry'.state = "loaded" <=> entry.state = "loaded")
        /\ entry' # NoEntry => entry # NoEntry /\ entry'.server = entry.server
    BY <2>1, ReportedOne
  <2>3. TypeOK'
    <3>1. open' \subseteq Load /\ closing' \subseteq Load \ open' BY <2>1 DEF IInv, TypeOK
    <3> QED BY <1>1, <1>2, <1>5, <2>2, <3>1 DEF IInv, TypeOK, Record
  <2>4. Phased' BY <1>1, <1>2, <1>3, <2>1 DEF IInv, Phased
  <2>5. Served' BY <1>1, <1>2, <1>3, <2>1, <2>2 DEF IInv, Served
  <2>6. OneAtATime' BY <1>1, <1>2, <2>2 DEF IInv, OneAtATime
  <2>7. Held' BY <1>1, <1>2, <2>1, <2>2 DEF IInv, Held
  <2>8. Shut'
    <3>1. entry' # NoEntry => entry'.server \in Load BY <2>2 DEF Entry
    <3> QED BY <1>1, <1>2, <2>2, <3>1 DEF IInv, Shut, StaysShut, UnderWay
  <2>9. Owned'
    <3> SUFFICES ASSUME process' = "started", ~overlapped', ~stray'
                 PROVE  \/ \E m \in Current' : load'[m].phase \in {"connecting", "connected"}
                        \/ entry'.state = "loaded"
                        \/ \E m \in closing' : ~load'[m].old
      BY DEF Owned
    <3>1. \/ \E m \in Current : load[m].phase \in {"connecting", "connected"}
          \/ entry.state = "loaded"
          \/ \E m \in closing : ~load[m].old
      BY <1>1 DEF IInv, Owned
    <3>2. ASSUME NEW m \in Current, load[m].phase \in {"connecting", "connected"}
          PROVE  \/ m \in Current' /\ load'[m].phase \in {"connecting", "connected"}
                 \/ m \in closing' /\ ~load'[m].old
      BY <1>1, <1>2, <2>1, <3>2 DEF Current, UnderWay
    <3> QED BY <1>1, <1>2, <1>3, <2>1, <2>2, <3>1, <3>2
  <2> QED BY <1>2, <1>4, <2>3, <2>4, <2>5, <2>6, <2>7, <2>8, <2>9 DEF IInv
<1>7. CASE ~load[n].aborted
  <2>1. UNCHANGED <<open, closing>> /\ entry' = [state |-> "loaded", server |-> n]
    BY <1>1, <1>7 DEF Arrive
  <2>2. n \in Current /\ ~load[n].old BY <1>1, <1>7 DEF IInv, OldAborted, Current
  <2>3. entry' \in Entry /\ Connection' = {n} BY <2>1 DEF Entry, Connection
  <2>4. TypeOK' BY <1>1, <1>2, <1>5, <2>1, <2>3 DEF IInv, TypeOK, Record
  <2>5. Phased' BY <1>1, <1>2, <1>3, <2>1 DEF IInv, Phased
  <2>6. Served' BY <1>1, <1>2, <2>1, <2>2 DEF Served
  <2>7. ~overlapped => Current = {n} /\ entry.state # "loaded" BY <2>2 DEF IInv, OneAtATime
  <2>8. OneAtATime' BY <1>1, <1>2, <2>7 DEF OneAtATime
  <2>9. Held' BY <1>1, <1>2, <2>1, <2>3, <2>7 DEF IInv, Held, Connection
  <2>10. Shut' BY <1>1, <1>2, <1>7, <2>1 DEF IInv, Shut, StaysShut, UnderWay
  <2>11. Owned' BY <2>1 DEF Owned
  <2> QED BY <1>2, <1>4, <2>4, <2>5, <2>6, <2>8, <2>9, <2>10, <2>11 DEF IInv
<1> QED BY <1>6, <1>7

(* A connection of this session that is closed takes the process along. *)
LEMMA CloseKeeps == ASSUME IInv, NEW n \in Load, Close(n) PROVE IInv'
<1>1. /\ n \in closing /\ closing' = closing \ {n}
      /\ UNCHANGED <<entry, load, loading, reconnecting, waiting, open, image, next, restores,
                     overlapped, shut>>
      /\ load[n].old => UNCHANGED <<process, stray>>
      /\ ~load[n].old => process' # "started"
      /\ process' \in {"none", "started", "found"} /\ stray' \in BOOLEAN
  <2>1. process \in {"none", "started", "found"} /\ stray \in BOOLEAN BY DEF IInv, TypeOK
  <2> QED BY <2>1 DEF Close, book, counts
<1>2. UnderWay' = UnderWay /\ Current' = Current /\ Arriving' = Arriving /\ Connection' = Connection
  BY <1>1 DEF UnderWay, Current, Arriving, Connection
<1>3. TypeOK'
  <2>1. {overlapped', shut', stray'} \subseteq BOOLEAN BY <1>1, TypesKnown DEF IInv
  <2> QED BY <1>1, <2>1 DEF IInv, TypeOK
<1>4. Numbered' /\ Phased' /\ Served' BY <1>1 DEF IInv, Numbered, Phased, Served
<1>5. OldAborted' /\ OneAtATime' /\ Awaited' /\ Held' /\ Cancellable'
  BY <1>1, <1>2 DEF IInv, OldAborted, OneAtATime, Awaited, Held, Cancellable
<1>6. Shut' BY <1>1, <1>2 DEF IInv, Shut, StaysShut, NoEntry
<1>7. Owned' BY <1>1, <1>2 DEF IInv, Owned
<1> QED BY <1>3, <1>4, <1>5, <1>6, <1>7 DEF IInv

(* cancel: a load that is aborted goes on till it sees that. *)
LEMMA CancelKeeps == ASSUME IInv, NEW n \in Load, Cancel(n) PROVE IInv'
<1>1. /\ n \in Current /\ load' = [load EXCEPT ![n].aborted = TRUE]
      /\ UNCHANGED <<entry, loading, reconnecting, waiting, open, closing, process, image, next,
                     restores, overlapped, shut, stray>>
  BY DEF Cancel, book, host, counts, history
<1>2. load \in [Load -> Record] /\ load[n] \in Record BY TypesKnown DEF IInv
<1> HIDE DEF Load
<1>3. [load[n] EXCEPT !.aborted = TRUE] \in Record BY <1>2 DEF Record
<1>4. /\ load' \in [Load -> Record] /\ load'[n].aborted
      /\ \A m \in Load : /\ m # n => load'[m] = load[m]
                         /\ load'[m].by = load[m].by /\ load'[m].phase = load[m].phase
                         /\ load'[m].old = load[m].old
  BY <1>1, <1>2, <1>3 DEF Record
<1>5. UnderWay' = UnderWay /\ Current' = Current /\ Arriving' = Arriving /\ Connection' = Connection
  BY <1>1, <1>4 DEF UnderWay, Current, Arriving, Connection
<1>6. TypeOK' BY <1>1, <1>4 DEF IInv, TypeOK, Record
<1>7. \A m \in open \cup closing : m \in Load BY DEF IInv, TypeOK
<1>8. Numbered' /\ Phased' BY <1>1, <1>4, <1>7 DEF IInv, Numbered, Phased
<1>9. Served' BY <1>1, <1>4, TypesKnown DEF IInv, Served
<1>10. OldAborted' /\ Cancellable' BY <1>1, <1>4, <1>5 DEF IInv, OldAborted, Cancellable, UnderWay, Current
<1>11. OneAtATime' /\ Awaited' /\ Held' BY <1>1, <1>5 DEF IInv, OneAtATime, Awaited, Held
<1>12. Shut'
  <2>1. entry # NoEntry => entry.server \in Load BY DEF IInv, TypeOK, Entry
  <2> QED BY <1>1, <1>4, <1>5, <2>1 DEF IInv, Shut, StaysShut, UnderWay, NoEntry
<1>13. Owned' BY <1>1, <1>4, <1>5, <1>7 DEF IInv, Owned, Current, UnderWay
<1> QED BY <1>6, <1>8, <1>9, <1>10, <1>11, <1>12, <1>13 DEF IInv

(* mcp-shutdown: the loads under way are aborted, but for what a restore   *)
(* resumed, and the process of the session stops.                          *)
LEMMA ShutdownKeeps == ASSUME IInv, Shutdown PROVE IInv'
<1>1. /\ entry' = NoEntry /\ open' = open \ Connection /\ closing' = closing \cup Connection
      /\ loading' = {} /\ load' = Aborted(loading) /\ process' # "started"
      /\ process' \in {"none", "started", "found"} /\ stray' \in BOOLEAN
      /\ UNCHANGED <<reconnecting, waiting, image, next, restores, overlapped>>
  <2>1. process \in {"none", "started", "found"} /\ stray \in BOOLEAN BY DEF IInv, TypeOK
  <2> QED BY <2>1, EntryOpen DEF Shutdown, Disconnects, counts
<1>2. load \in [Load -> Record] /\ \A m \in Load : load[m] \in Record BY TypesKnown DEF IInv
<1>3. NoEntry \in Entry /\ NoEntry.state # "loaded" BY TypesKnown DEF IInv
<1> HIDE DEF Load
<1>4. \A m \in Load : [load[m] EXCEPT !.aborted = TRUE] \in Record BY <1>2 DEF Record
<1>5. \A m \in Load : load'[m] = IF m \in loading THEN [load[m] EXCEPT !.aborted = TRUE] ELSE load[m]
  BY <1>1 DEF Aborted
<1>6. load' \in [Load -> Record] BY <1>1, <1>2, <1>4 DEF Aborted
<1>7. \A m \in Load : /\ load'[m].by = load[m].by /\ load'[m].phase = load[m].phase
                      /\ load'[m].old = load[m].old
                      /\ load[m].aborted \/ m \in loading => load'[m].aborted
  BY <1>2, <1>5 DEF Record
<1>8. UnderWay' = UnderWay /\ Current' = Current /\ Arriving' = Arriving
  BY <1>7 DEF UnderWay, Current, Arriving
<1>9. TypeOK'
  <2>1. {overlapped', TRUE, stray'} \subseteq BOOLEAN BY <1>1 DEF IInv, TypeOK
  <2>2. shut' = TRUE BY DEF Shutdown
  <2>3. open' \subseteq Load /\ closing' \subseteq Load \ open' BY <1>1, EntryOpen DEF IInv, TypeOK
  <2> QED BY <1>1, <1>3, <1>6, <2>1, <2>2, <2>3 DEF IInv, TypeOK, Record
<1>10. \A m \in open \cup closing : m \in Load BY DEF IInv, TypeOK
<1>11. Numbered' BY <1>1, <1>7 DEF IInv, Numbered
<1>12. Phased' BY <1>1, <1>7, <1>10, EntryOpen DEF IInv, Phased
<1>13. Served' /\ OneAtATime' /\ Awaited' BY <1>1, <1>3, <1>8 DEF IInv, Served, OneAtATime, Awaited
<1>14. OldAborted' BY <1>7, <1>8 DEF IInv, OldAborted, UnderWay
<1>15. \A m \in UnderWay : load'[m].aborted \/ load'[m].by = "image"
  BY <1>7 DEF IInv, OldAborted, Cancellable, Current, UnderWay
<1>16. Cancellable' BY <1>8, <1>15 DEF Cancellable, Current
<1>17. Connection' = {} BY <1>1, <1>3 DEF Connection
<1>18. Held' BY <1>1, <1>8, <1>17 DEF IInv, Held
<1>19. Shut' BY <1>1, <1>8, <1>15 DEF Shut, StaysShut, NoEntry
<1>20. Owned' BY <1>1 DEF Owned
<1> QED BY <1>9, <1>11, <1>12, <1>13, <1>14, <1>16, <1>18, <1>19, <1>20 DEF IInv

-----------------------------------------------------------------------------
(* The loads of a session that ended: those that go on were aborted. *)
LEMMA AbandonedOnes ==
  ASSUME IInv, NEW crashed \in BOOLEAN
  PROVE  /\ Abandoned(crashed) \in [Load -> Record]
         /\ \A m \in Load :
              /\ m > next => Abandoned(crashed)[m] = load[m]
              /\ ~(m > next) => /\ Abandoned(crashed)[m].old
                                /\ Abandoned(crashed)[m].phase # "none"
                                /\ \/ /\ Abandoned(crashed)[m].phase = "settled"
                                      /\ m \in UnderWay => crashed
                                   \/ /\ Abandoned(crashed)[m].phase = load[m].phase
                                      /\ Abandoned(crashed)[m].aborted
                                      /\ ~crashed /\ m \in UnderWay
<1>1. load \in [Load -> Record] /\ \A m \in Load : load[m] \in Record BY TypesKnown DEF IInv
<1>2. \A m \in Load : load[m].phase = "none" <=> m > next BY DEF IInv, Numbered
<1> HIDE DEF Load
<1> DEFINE goes(m) == [load[m] EXCEPT !.aborted = TRUE, !.old = TRUE]
           ends(m) == [load[m] EXCEPT !.phase = "settled", !.old = TRUE]
<1>3. \A m \in Load : /\ goes(m) \in Record /\ goes(m).phase = load[m].phase
                      /\ goes(m).aborted /\ goes(m).old
  BY <1>1 DEF Record
<1>4. \A m \in Load : ends(m) \in Record /\ ends(m).phase = "settled" /\ ends(m).old
  BY <1>1 DEF Record, Phase
<1>5. \A m \in Load : Abandoned(crashed)[m] = IF m > next THEN load[m]
                                              ELSE IF m \in UnderWay /\ ~crashed THEN goes(m)
                                              ELSE ends(m)
  BY DEF Abandoned
<1>6. Abandoned(crashed) = [m \in Load |-> Abandoned(crashed)[m]] BY DEF Abandoned
<1> HIDE DEF goes, ends
<1>7. \A m \in Load : Abandoned(crashed)[m] \in Record BY <1>1, <1>3, <1>4, <1>5
<1>8. Abandoned(crashed) \in [Load -> Record] BY <1>6, <1>7
<1> QED BY <1>2, <1>3, <1>4, <1>5, <1>8

(* So is the load that an image resumes the only one of its session. *)
LEMMA Resumed ==
  ASSUME IInv, NEW crashed \in BOOLEAN, Restore(crashed)
  PROVE  /\ load' \in [Load -> Record] /\ next' \in 0..MaxLoads
         /\ \A m \in Load : load'[m].phase = "none" <=> m > next'
         /\ \A m \in Current' : Current' = {m} /\ load'[m].by = "image"
         /\ \A m \in UnderWay' : load'[m].old => load'[m].aborted
         /\ \A m \in Load : load'[m].phase = "connected" => ~crashed /\ load[m].phase = "connected"
         /\ \A m \in Load : load[m].phase = "connected" /\ ~crashed => load'[m].phase = "connected"
         /\ \A m \in Load : load[m].phase = "settled" => load'[m].phase = "settled"
<1> DEFINE left == Abandoned(crashed)
           new  == next + 1
<1>1. /\ left \in [Load -> Record]
      /\ \A m \in Load :
           /\ m > next => left[m] = load[m]
           /\ ~(m > next) => /\ left[m].old /\ left[m].phase # "none"
                             /\ \/ left[m].phase = "settled" /\ (m \in UnderWay => crashed)
                                \/ /\ left[m].phase = load[m].phase /\ left[m].aborted
                                   /\ ~crashed /\ m \in UnderWay
  BY AbandonedOnes
<1>2. \A m \in Load : load[m].phase = "none" <=> m > next BY DEF IInv, Numbered
<1>3. next \in Nat /\ MaxLoads \in Nat /\ next <= MaxLoads BY TypesKnown DEF IInv
<1>4. CASE image.pending
  <2> DEFINE begun == [phase |-> "ensuring", by |-> "image", aborted |-> FALSE, old |-> FALSE]
  <2>1. next' = new /\ next < MaxLoads /\ load' = [left EXCEPT ![new] = begun]
    BY <1>4 DEF Restore
  <2>2. new \in Load /\ new > next /\ new \in 0..MaxLoads BY <1>3, <2>1 DEF Load
  <2>3. \A m \in Load : m > new <=> m > next /\ m # new BY <1>3 DEF Load
  <2>4. begun \in Record /\ begun.phase = "ensuring" /\ begun.by = "image" /\ ~begun.old
    BY DEF Record, Phase
  <2> HIDE DEF left, new, begun
  <2>5. load' \in [Load -> Record] /\ load'[new] = begun /\ \A m \in Load : m # new => load'[m] = left[m]
    BY <1>1, <2>1, <2>2, <2>4
  <2>6. \A m \in Load : load'[m].phase = "none" <=> m > next'
    BY <1>1, <1>2, <2>1, <2>2, <2>3, <2>4, <2>5
  <2>7. \A m \in UnderWay' : m = new \/ (load'[m].old /\ load'[m].aborted)
    BY <1>1, <1>2, <2>5 DEF UnderWay
  <2>8. new \in UnderWay' BY <2>2, <2>4, <2>5 DEF UnderWay
  <2>9. Current' = {new} BY <2>4, <2>5, <2>7, <2>8 DEF Current
  <2>10. \A m \in UnderWay' : load'[m].old => load'[m].aborted BY <2>4, <2>5, <2>7
  <2>11. \A m \in Load : m # new => load'[m].phase = IF m > next THEN "none" ELSE left[m].phase
    BY <1>1, <1>2, <2>5
  <2>12. load[new].phase = "none" /\ load'[new].phase = "ensuring" BY <1>2, <2>2, <2>4, <2>5
  <2> QED BY <1>1, <1>2, <2>1, <2>2, <2>4, <2>5, <2>6, <2>9, <2>10, <2>11, <2>12 DEF UnderWay
<1>5. CASE ~image.pending
  <2>1. load' = left /\ next' = next BY <1>5 DEF Restore
  <2>2. \A m \in Load : load'[m].phase = "none" <=> m > next' BY <1>1, <1>2, <2>1
  <2>3. \A m \in UnderWay' : load'[m].old /\ load'[m].aborted BY <1>1, <1>2, <2>1 DEF UnderWay
  <2>4. Current' = {} BY <2>3 DEF Current
  <2>5. next' \in 0..MaxLoads BY <1>3, <2>1
  <2>6. load' \in [Load -> Record] BY <1>1, <2>1
  <2>7. \A m \in Load : load'[m].phase = IF m > next THEN "none" ELSE left[m].phase
    BY <1>1, <1>2, <2>1
  <2> HIDE DEF left
  <2> QED BY <1>1, <1>2, <2>2, <2>3, <2>4, <2>5, <2>6, <2>7 DEF UnderWay
<1> QED
  <2>1. image.pending \in BOOLEAN BY DEF IInv, TypeOK
  <2> QED BY <1>4, <1>5, <2>1

(* A restore leaves nothing of the session before but what closes. *)
LEMMA RestoreKeeps == ASSUME IInv, NEW crashed \in BOOLEAN, Restore(crashed) PROVE IInv'
<1>1. /\ load' \in [Load -> Record] /\ next' \in 0..MaxLoads
      /\ \A m \in Load : load'[m].phase = "none" <=> m > next'
      /\ \A m \in Current' : Current' = {m} /\ load'[m].by = "image"
      /\ \A m \in UnderWay' : load'[m].old => load'[m].aborted
      /\ \A m \in Load : load'[m].phase = "connected" => ~crashed /\ load[m].phase = "connected"
      /\ \A m \in Load : load[m].phase = "connected" /\ ~crashed => load'[m].phase = "connected"
      /\ \A m \in Load : load[m].phase = "settled" => load'[m].phase = "settled"
  BY Resumed
<1>2. entry' \in Entry /\ entry'.state # "loaded"
  <2>1. image.entry \in Entry BY DEF IInv, TypeOK
  <2>2. CASE image.entry.state = "loaded"
    <3>1. image.entry \in [state : {"loaded", "dormant", "failed"}, server : Load]
      BY <2>1, <2>2 DEF Entry, NoEntry
    <3> HIDE DEF Load
    <3>2. entry' = [image.entry EXCEPT !.state = "dormant"] BY <2>2 DEF Restore
    <3> QED BY <3>1, <3>2 DEF Entry
  <2>3. CASE image.entry.state # "loaded"
    <3>1. entry' = image.entry BY <2>3 DEF Restore
    <3> QED BY <2>1, <2>3, <3>1
  <2> QED BY <2>2, <2>3
<1>3. /\ stray' = FALSE /\ shut' = FALSE /\ loading' = {} /\ reconnecting' = 0 /\ waiting' = 0
      /\ UNCHANGED <<image, overlapped>>
  BY DEF Restore, Leaves
<1>4. process' \in {"none", "found"}
  <2>1. process \in {"none", "started", "found"} BY DEF IInv, TypeOK
  <2> QED BY <2>1 DEF Restore, Leaves
<1>5. /\ crashed => open' = {} /\ closing' = {}
      /\ ~crashed => open' = open \ Connection /\ closing' = closing \cup Connection
  BY EntryOpen DEF Restore, Leaves, Disconnects
<1>6. restores' \in 0..MaxRestores
  <2>1. restores \in 0..MaxRestores /\ MaxRestores \in Nat BY BoundsAssumption DEF IInv, TypeOK
  <2> QED BY <2>1 DEF Restore
<1>7. TypeOK'
  <2>1. {overlapped', shut', stray'} \subseteq BOOLEAN BY <1>3 DEF IInv, TypeOK
  <2>2. open' \subseteq Load /\ closing' \subseteq Load \ open' BY <1>5, EntryOpen DEF IInv, TypeOK
  <2>3. reconnecting' \in 0..MaxLoads /\ waiting' \in 0..MaxCalls BY <1>3, BoundsAssumption
  <2> QED BY <1>1, <1>2, <1>3, <1>4, <1>6, <2>1, <2>2, <2>3 DEF IInv, TypeOK, Record
<1>8. Numbered' BY <1>1 DEF Numbered
<1>9. \A m \in open \cup closing : m \in Load BY DEF IInv, TypeOK
<1>10. Phased' BY <1>1, <1>5, <1>9, EntryOpen DEF IInv, Phased
<1>11. Served' /\ OldAborted' /\ OneAtATime' /\ Awaited'
  BY <1>1, <1>2, <1>3 DEF Served, OldAborted, OneAtATime, Awaited
<1>12. Held'
  <2>1. Connection' = {} BY <1>2 DEF Connection
  <2>2. ~crashed => Arriving \subseteq Arriving' BY <1>1 DEF Arriving, UnderWay
  <2> QED BY <1>3, <1>5, <2>1, <2>2 DEF IInv, Held
<1>13. Cancellable' BY <1>1 DEF Cancellable
<1>14. Shut' /\ Owned' BY <1>3, <1>4 DEF Shut, Owned
<1> QED BY <1>7, <1>8, <1>10, <1>11, <1>12, <1>13, <1>14 DEF IInv

-----------------------------------------------------------------------------
(* The invariant that the promises follow from. *)
THEOREM StaysSo == Spec => []IInv
<1>1. Init => IInv BY StartsSo
<1>2. IInv /\ [Next]_vars => IInv'
  <2> SUFFICES ASSUME IInv, [Next]_vars PROVE IInv' OBVIOUS
  <2>1. CASE LoadMcp \/ Unload \/ Call \/ Shutdown \/ Save
    BY <2>1, LoadMcpKeeps, UnloadKeeps, CallKeeps, ShutdownKeeps, SaveKeeps
  <2>2. ASSUME NEW n \in Load,
               Ensure(n) \/ Connect(n) \/ Fail(n) \/ Arrive(n) \/ Close(n) \/ Cancel(n)
        PROVE  IInv'
    BY <2>2, EnsureKeeps, ConnectKeeps, FailKeeps, ArriveKeeps, CloseKeeps, CancelKeeps
  <2>3. ASSUME NEW crashed \in BOOLEAN, Restore(crashed) PROVE IInv' BY <2>3, RestoreKeeps
  <2>4. CASE UNCHANGED vars BY <2>4, StutterKeeps
  <2> QED BY <2>1, <2>2, <2>3, <2>4 DEF Next
<1> QED BY <1>1, <1>2, PTL DEF Spec

(* Whatever is loaded, unloaded, called, cancelled, shut down and restored, *)
(* the variables keep their types: the entry names a load, and no          *)
(* connection that is open is being closed.                                *)
THEOREM TypeCorrect == Spec => []TypeOK
<1>1. IInv => TypeOK BY DEF IInv
<1> QED BY <1>1, StaysSo, PTL

(* Calls go to an open connection of mcp-client.ts.  As long as no load    *)
(* starts while another is under way, each connection is held by an entry  *)
(* or by a load that arrives, so disconnect() reaches it.                  *)
THEOREM ConnectionsAreHeld == Spec => []ConnectionsHeld
<1>1. IInv => ConnectionsHeld BY EntryOpen DEF IInv, Held, ConnectionsHeld
<1> QED BY <1>1, StaysSo, PTL

(* After mcp-shutdown no load installs a server, but one that a restore    *)
(* resumed.                                                                *)
THEOREM ShutStays == Spec => []StaysShut
<1>1. IInv => StaysShut BY DEF IInv, Shut, StaysShut
<1> QED BY <1>1, StaysSo, PTL

(* The process that the session's host started is stopped with the last    *)
(* that needs it, a load, the entry or a connection that closes, as long   *)
(* as loads did not overlap, and none failed or was cancelled after its    *)
(* process was started, nor a host died that had started it.               *)
THEOREM ProcessStops == Spec => []ServersStop
<1>1. IInv => ServersStop
  <2> SUFFICES ASSUME IInv, Current = {}, closing = {}, Connection = {}, ~stray, ~overlapped,
                      process = "started"
               PROVE  FALSE
    BY DEF ServersStop
  <2>1. entry.state # "loaded" BY EntryOpen
  <2> QED BY <2>1 DEF IInv, Owned
<1> QED BY <1>1, StaysSo, PTL
=============================================================================
