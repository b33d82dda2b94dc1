-------------------------------- MODULE Mcp ---------------------------------
(***************************************************************************)
(* One MCP server of a session (packages/mcp/src/mcp.ts): it is loaded in  *)
(* the background, unloaded, called, reconnected at its first call after a *)
(* restore, and shut down with the session.  A load is a promise of the    *)
(* interpreter (packages/interpreter/src/async.ts) that can be cancelled,  *)
(* and is resumed when it was pending in an image that is restored         *)
(* (image.ts); it makes the host start the server's process and opens a    *)
(* connection to it (mcp-client.ts, local-host.ts).                        *)
(*                                                                         *)
(* Loads are numbered as they start, and a connection has the number of    *)
(* its load.  The host is one that starts a process to connect to; each    *)
(* session has its own, and a process that another started is found.       *)
(***************************************************************************)
EXTENDS Integers, FiniteSets

CONSTANTS
  MaxLoads,    \* bound on the loads that are started
  MaxCalls,    \* bound on the calls that wait together
  MaxRestores  \* bound on the images that are restored

ASSUME BoundsAssumption == {MaxLoads, MaxCalls, MaxRestores} \subseteq Nat

VARIABLES
  entry,        \* the session's "mcp/servers": the entry of the server, if any
  load,         \* the loads
  loading,      \* registerMcp: the loads that a shutdown cancels
  reconnecting, \* registerMcp: the load that reconnects the server, or 0
  waiting,      \* the calls that wait for it
  open,         \* mcpClient.clients: the connections that are open
  closing,      \* disconnect(): connections whose close is awaited
  process,      \* the process of the server: started by the session's host, or found running
  image,        \* what an image of the session holds of all this
  next,         \* counter: loads so far
  restores,     \* counter: restores so far
  overlapped,   \* history: two loads of one session were under way at once
  shut,         \* history: shut down, and nothing was loaded since
  stray         \* history: a load failed after the host had started the process

book    == <<loading, reconnecting, waiting>>
host    == <<open, closing, process>>
counts  == <<next, restores>>
history == <<overlapped, shut, stray>>
vars    == <<entry, load, loading, reconnecting, waiting, open, closing, process, image, next,
             restores, overlapped, shut, stray>>

Load    == 1..MaxLoads
Phase   == {"none", "ensuring", "connecting", "connected", "settled"}
NoEntry == [state |-> "unloaded", server |-> 0]
Entry   == {NoEntry} \cup [state : {"loaded", "dormant", "failed"}, server : Load]
Unused  == [phase |-> "none", by |-> "load", aborted |-> FALSE, old |-> FALSE]

UnderWay == {n \in Load : load[n].phase \in {"ensuring", "connecting", "connected"}}
Current  == {n \in UnderWay : ~load[n].old}

TypeOK ==
  /\ entry \in Entry
  /\ load \in [Load -> [phase : Phase, by : {"load", "call", "image"}, aborted : BOOLEAN,
                        old : BOOLEAN]]
  /\ loading \subseteq Load
  /\ reconnecting \in 0..MaxLoads /\ waiting \in 0..MaxCalls
  /\ open \subseteq Load /\ closing \subseteq Load \ open
  /\ process \in {"none", "started", "found"}
  /\ image \in [entry : Entry, pending : BOOLEAN]
  /\ next \in 0..MaxLoads /\ restores \in 0..MaxRestores
  /\ {overlapped, shut, stray} \subseteq BOOLEAN

Init ==
  /\ entry = NoEntry /\ load = [n \in Load |-> Unused]
  /\ loading = {} /\ reconnecting = 0 /\ waiting = 0
  /\ open = {} /\ closing = {} /\ process = "none"
  /\ image = [entry |-> NoEntry, pending |-> FALSE]
  /\ next = 0 /\ restores = 0
  /\ overlapped = FALSE /\ shut = FALSE /\ stray = FALSE

-----------------------------------------------------------------------------
(* startLoad() or resume(): a load begins; its promise is under way. *)
Begins(by) ==
  /\ next < MaxLoads /\ next' = next + 1
  /\ load' = [load EXCEPT ![next + 1] =
                [phase |-> "ensuring", by |-> by, aborted |-> FALSE, old |-> FALSE]]
  /\ overlapped' = (overlapped \/ Current # {})
  /\ shut' = FALSE

(* disconnect(): the connection is the client's no more, and is closed. *)
Disconnects(ids) ==
  /\ open' = open \ ids
  /\ closing' = closing \cup (ids \cap open)

Connection == IF entry.state = "loaded" THEN {entry.server} ELSE {}

(* load-mcp: a server that is loaded, or was, is unloaded first. *)
LoadMcp ==
  /\ Begins("load")
  /\ loading' = loading \cup {next + 1}
  /\ Disconnects(Connection)
  /\ entry' = NoEntry
  /\ UNCHANGED <<reconnecting, waiting, process, image, restores, stray>>

(* unload-mcp: doUnload(). *)
Unload ==
  /\ entry # NoEntry
  /\ entry' = NoEntry
  /\ Disconnects(Connection)
  /\ UNCHANGED <<load, book, process, image, counts, history>>

(* A tool of a server that is dormant is called: reconnect(), which calls  *)
(* that come meanwhile share.                                              *)
Call ==
  /\ entry.state = "dormant" /\ waiting < MaxCalls
  /\ waiting' = waiting + 1
  /\ IF reconnecting # 0
     THEN UNCHANGED <<load, loading, reconnecting, next, overlapped, shut>>
     ELSE /\ Begins("call")
          /\ loading' = loading \cup {next + 1}
          /\ reconnecting' = next + 1
  /\ UNCHANGED <<entry, host, image, restores, stray>>

-----------------------------------------------------------------------------
(* host.ensure(): the process is reached, or else started. *)
Ensure(n) ==
  /\ load[n].phase = "ensuring"
  /\ load' = [load EXCEPT ![n].phase = "connecting"]
  /\ process' = IF process # "none" THEN process ELSE IF load[n].old THEN "found" ELSE "started"
  /\ UNCHANGED <<entry, book, open, closing, image, counts, history>>

(* openClient(): connected, with the tools listed; the signal cuts that    *)
(* short.                                                                  *)
Connect(n) ==
  /\ load[n].phase = "connecting" /\ ~load[n].aborted /\ process # "none"
  /\ load' = [load EXCEPT ![n].phase = "connected"]
  /\ open' = open \cup {n}
  /\ UNCHANGED <<entry, book, closing, process, image, counts, history>>

(* The promise of a load settles: it is no longer loading, and the calls   *)
(* that waited for it are made, or fail.                                   *)
Settles(n) ==
  /\ load' = [load EXCEPT ![n].phase = "settled"]
  /\ loading' = loading \ {n}
  /\ reconnecting' = IF reconnecting = n THEN 0 ELSE reconnecting
  /\ waiting' = IF reconnecting = n THEN 0 ELSE waiting

(* reconnect()'s failure is kept in the entry, whoever made that. *)
Reported(n) ==
  entry' = IF reconnecting = n /\ entry # NoEntry THEN [entry EXCEPT !.state = "failed"] ELSE entry

(* A load fails, or sees that it was aborted. *)
Fail(n) ==
  /\ load[n].phase \in {"ensuring", "connecting"}
  /\ Settles(n) /\ Reported(n)
  /\ stray' = (stray \/ (~load[n].old /\ load[n].phase = "connecting" /\ process = "started"))
  /\ UNCHANGED <<host, image, counts, overlapped, shut>>

(* Mutation of Arrive: what an aborted load connected is forgotten. *)
ArriveForgotten(n) ==
  /\ load[n].phase = "connected"
  /\ Settles(n)
  /\ IF load[n].aborted THEN UNCHANGED <<open, closing>> /\ Reported(n)
                        ELSE UNCHANGED <<open, closing>> /\ entry' = [state |-> "loaded", server |-> n]
  /\ UNCHANGED <<process, image, counts, history>>

(* connect(): a load that was aborted meanwhile disconnects what it        *)
(* connected; otherwise installServer().                                   *)
Arrive(n) ==
  /\ load[n].phase = "connected"
  /\ Settles(n)
  /\ IF load[n].aborted
     THEN Disconnects({n}) /\ Reported(n)
     ELSE /\ UNCHANGED <<open, closing>>
          /\ entry' = [state |-> "loaded", server |-> n]
  /\ UNCHANGED <<process, image, counts, history>>

(* Mutation of Close: the connection is closed and the process left. *)
CloseOnly(n) ==
  /\ n \in closing
  /\ closing' = closing \ {n}
  /\ UNCHANGED <<entry, load, book, open, process, image, counts, history>>

(* disconnect() goes on: the connection is closed, and the process that    *)
(* the host started under the server's name is stopped.                    *)
Close(n) ==
  /\ n \in closing
  /\ closing' = closing \ {n}
  /\ IF load[n].old THEN UNCHANGED <<process, stray>>
     ELSE /\ process' = IF process = "started" THEN "none" ELSE process
          /\ stray' = (stray /\ process # "started")
  /\ UNCHANGED <<entry, load, book, open, image, counts, overlapped, shut>>

-----------------------------------------------------------------------------
(* cancel: a promise that is under way is aborted. *)
Cancel(n) ==
  /\ n \in Current /\ ~load[n].aborted
  /\ load' = [load EXCEPT ![n].aborted = TRUE]
  /\ UNCHANGED <<entry, book, host, image, counts, history>>

Aborted(ns) == [n \in Load |-> IF n \in ns THEN [load[n] EXCEPT !.aborted = TRUE] ELSE load[n]]

(* Mutation of Shutdown: loads under way are left to arrive. *)
ShutdownLoaded ==
  /\ entry' = NoEntry /\ Disconnects(Connection)
  /\ loading' = {} /\ load' = load
  /\ process' = IF process = "started" THEN "none" ELSE process
  /\ shut' = TRUE /\ stray' = (stray /\ process # "started")
  /\ UNCHANGED <<reconnecting, waiting, image, counts, overlapped>>

(* mcp-shutdown: the server is disconnected, the loads are cancelled, and  *)
(* the host stops what it started.                                         *)
Shutdown ==
  /\ entry' = NoEntry /\ Disconnects(Connection)
  /\ loading' = {} /\ load' = Aborted(loading)
  /\ process' = IF process = "started" THEN "none" ELSE process
  /\ shut' = TRUE /\ stray' = (stray /\ process # "started")
  /\ UNCHANGED <<reconnecting, waiting, image, counts, overlapped>>

(* An image of the session is saved; a promise that is bound and still     *)
(* pending, be it cancelled, is in it with the way to make it again.       *)
Save ==
  /\ image' = [entry |-> entry, pending |-> \E n \in Current : load[n].by # "call"]
  /\ UNCHANGED <<entry, load, book, host, counts, history>>

(* The session before ends: its process dies, or it is disposed of, which  *)
(* aborts every promise that is under way.                                 *)
Abandoned(crashed) ==
  [n \in Load |->
     IF n > next THEN load[n]
     ELSE IF n \in UnderWay /\ ~crashed THEN [load[n] EXCEPT !.aborted = TRUE, !.old = TRUE]
     ELSE [load[n] EXCEPT !.phase = "settled", !.old = TRUE]]

(* What a host started it stops when it is disposed of; if it died, that   *)
(* keeps running.                                                          *)
Leaves(crashed) ==
  /\ IF crashed THEN /\ open' = {} /\ closing' = {}
                     /\ process' = IF process = "none" THEN "none" ELSE "found"
                ELSE /\ Disconnects(Connection)
                     /\ process' = IF process = "started" THEN "none" ELSE process
  /\ stray' = FALSE
  /\ loading' = {} /\ reconnecting' = 0 /\ waiting' = 0

(* A session is restored from the image: what was loaded is dormant, and a *)
(* load that was pending is resumed.                                       *)
Restore(crashed) ==
  /\ restores < MaxRestores /\ restores' = restores + 1
  /\ entry' = IF image.entry.state = "loaded" THEN [image.entry EXCEPT !.state = "dormant"]
                                              ELSE image.entry
  /\ IF image.pending
     THEN /\ next < MaxLoads /\ next' = next + 1
          /\ load' = [Abandoned(crashed) EXCEPT ![next + 1] =
                        [phase |-> "ensuring", by |-> "image", aborted |-> FALSE, old |-> FALSE]]
     ELSE load' = Abandoned(crashed) /\ UNCHANGED next
  /\ Leaves(crashed)
  /\ shut' = FALSE /\ UNCHANGED <<image, overlapped>>

Next ==
  \/ LoadMcp \/ Unload \/ Call \/ Shutdown \/ Save
  \/ \E n \in Load : Ensure(n) \/ Connect(n) \/ Fail(n) \/ Arrive(n) \/ Close(n) \/ Cancel(n)
  \/ \E crashed \in BOOLEAN : Restore(crashed)

Spec == Init /\ [][Next]_vars

-----------------------------------------------------------------------------
Arriving == {n \in UnderWay : load[n].phase = "connected"}

(* No connection is left open that nobody would close: it is the entry's,  *)
(* or a load's that arrives, however loads, unloads, cancels, shutdowns    *)
(* and restores come, as long as no load of the server starts while        *)
(* another is under way.  And the entry's is open: no call goes to one     *)
(* that a restore, a reload or a shutdown took away.                       *)
ConnectionsHeld ==
  /\ ~overlapped => open \subseteq Connection \cup Arriving
  /\ Connection \subseteq open

(* What was shut down stays so until something is loaded: the loads that   *)
(* were under way are cancelled, but for those a restore resumed.          *)
StaysShut == shut /\ entry # NoEntry => load[entry.server].by = "image"

(* With nothing under way, the process of a server that is not loaded was  *)
(* stopped: unless a load failed after starting it, or a host that died    *)
(* had started it.                                                         *)
ServersStop ==
  Current = {} /\ closing = {} /\ Connection = {} /\ ~stray /\ ~overlapped => process # "started"

(* So it is whatever the loads. (The code's is not.) *)
NoConnectionLeaks == open \subseteq Connection \cup Arriving

(* "cancelling a load rejects it and leaves no server behind"              *)
(* (packages/mcp/test/mcp.test.ts). (The code's leaves the process.)       *)
CancelledLeavesNothing ==
  UnderWay = {} /\ closing = {} /\ (\A n \in Load : load[n].phase = "settled" => load[n].aborted)
    => process # "started"

(* mcp-shutdown unloads all there is. (A load resumed from an image is not *)
(* among those it cancels.)                                                *)
ShutIsShut == shut => entry = NoEntry

(* A server that is loaded keeps its process. (A disconnect that lasts     *)
(* stops the process of the load after it.)                                *)
LoadedRuns == Connection # {} => process # "none"
=============================================================================
