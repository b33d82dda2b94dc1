------------------------------ MODULE Desktop -------------------------------
(***************************************************************************)
(* Local MCP servers on a user's machine: the app server asks the desktop  *)
(* app to run them over a WebSocket and speaks to them through channels    *)
(* (apps/app/server/desktop: sockets.ts, registry.ts, presence.ts; the     *)
(* desktop's bridge.ts and local-server.ts; the session's host in          *)
(* packages/backend/src/desktop-bridge.ts; the machine's row in            *)
(* convex/desktops.ts).                                                    *)
(*                                                                         *)
(* One user, one machine, one session and one server name.  Sockets are    *)
(* numbered as the desktop dials them, a request to open the server, its   *)
(* channel and the process run for it have the number of the request.      *)
(* Messages of a socket arrive in order, as long as it is up; either end   *)
(* learns late that it is not.                                             *)
(***************************************************************************)
EXTENDS Integers, Sequences

CONSTANTS
  MaxSockets, \* bound on the sockets that are dialled
  MaxOpens,   \* bound on the requests to open the server
  MaxFaults   \* bound on the mutations that fail and the app server's crashes

ASSUME BoundsAssumption == {MaxSockets, MaxOpens, MaxFaults} \subseteq Nat

VARIABLES
  dialled,   \* counter: sockets so far
  down,      \* what is on its way to the desktop, for each socket
  up,        \* what is on its way to the app server
  closed,    \* sockets that one end closed, or that broke
  over,      \* sockets whose close the app server knows of
  live,      \* DesktopSockets.live
  checking,  \* sockets whose token is being checked
  attached,  \* DesktopRegistry.connections: the socket of the machine's, or 0
  opens,     \* what the app server makes of each request
  on,        \* the socket each was asked on
  channel,   \* the connection's channel of the name, or 0
  named,     \* BridgedHost.opened has the name
  leaving,   \* disconnects that have yet to stop the host
  current,   \* DesktopBridge.socket, or 0
  work,      \* how far the desktop is with each request
  entry,     \* DesktopBridge.servers: whose process has the name, or 0
  running,   \* processes that run
  dying,     \* ... and are being stopped
  row,       \* the machine's row of the table "desktops"
  mutations, \* the mutations of the row, one after another
  announced, \* sockets with an `entry.presence`
  gone,      \* ... that were closed while it was being announced
  faults,    \* counter: faults so far
  unnoticed, \* history: sockets whose announcement failed
  stale,     \* history: the row was left connected by what can not tell it otherwise
  crossed    \* history: two requests overlapped, a close and a request did, or one asked beside
             \* a channel got none

wires    == <<dialled, down, up, closed>>
sockets  == <<over, live, checking>>
registry == <<attached, opens, on, channel>>
session  == <<named, leaving>>
machine  == <<work, entry, running, dying>>
presence == <<row, mutations, announced, gone, faults, unnoticed, stale>>
vars     == <<dialled, down, up, closed, over, live, checking, attached, opens, on, channel, named,
              leaving, current, work, entry, running, dying, row, mutations, announced, gone,
              faults, unnoticed, stale, crossed>>

Socket  == 1..MaxSockets
Open    == 1..MaxOpens
Message == [type : {"open", "close", "auth", "opened", "refused", "exited", "rpc"},
            id : 0..MaxOpens]
Waiting == {o \in Open : opens[o] = "waiting"}
Busy    == {o \in Open : work[o] \in {"stopping", "starting"}}

TypeOK ==
  /\ dialled \in 0..MaxSockets
  /\ down \in [Socket -> Seq(Message)] /\ up \in [Socket -> Seq(Message)]
  /\ over \subseteq closed /\ closed \subseteq 1..dialled
  /\ live \subseteq Socket \ over /\ checking \subseteq Socket
  /\ attached \in 0..MaxSockets
  /\ opens \in [Open -> {"none", "waiting", "failed", "open", "ended", "left"}]
  /\ on \in [Open -> 0..MaxSockets] /\ channel \in 0..MaxOpens
  /\ named \in BOOLEAN /\ leaving \subseteq Open
  /\ current \in 0..MaxSockets
  /\ work \in [Open -> {"none", "stopping", "starting", "done"}]
  /\ entry \in 0..MaxOpens /\ dying \subseteq running /\ running \subseteq Open
  /\ row \in [connection : 0..MaxSockets, connected : BOOLEAN]
  /\ mutations \in Seq([type : {"attach", "detach"}, of : Socket])
  /\ gone \subseteq announced /\ announced \subseteq Socket
  /\ faults \in 0..MaxFaults /\ unnoticed \subseteq Socket
  /\ {stale, crossed} \subseteq BOOLEAN

Init ==
  /\ dialled = 0 /\ down = [s \in Socket |-> <<>>] /\ up = [s \in Socket |-> <<>>]
  /\ closed = {} /\ over = {} /\ live = {} /\ checking = {}
  /\ attached = 0 /\ opens = [o \in Open |-> "none"] /\ on = [o \in Open |-> 0] /\ channel = 0
  /\ named = FALSE /\ leaving = {}
  /\ current = 0 /\ work = [o \in Open |-> "none"] /\ entry = 0 /\ running = {} /\ dying = {}
  /\ row = [connection |-> 0, connected |-> FALSE] /\ mutations = <<>>
  /\ announced = {} /\ gone = {} /\ faults = 0 /\ unnoticed = {} /\ stale = FALSE
  /\ crossed = FALSE

-----------------------------------------------------------------------------
(* Wires.                                                                  *)

Says(type, id) == [type |-> type, id |-> id]

(* What is sent on a socket that is closed is lost. *)
SentDown(s, m) == IF s \in closed THEN down ELSE [down EXCEPT ![s] = Append(@, m)]
SentUp(m) ==
  IF current = 0 \/ current \in closed THEN up ELSE [up EXCEPT ![current] = Append(@, m)]

(* connect(): the desktop dials, and introduces itself. *)
Dial ==
  /\ current = 0 /\ dialled < MaxSockets
  /\ dialled' = dialled + 1 /\ current' = dialled + 1
  /\ up' = [up EXCEPT ![dialled + 1] = <<Says("auth", 0)>>]
  /\ UNCHANGED <<down, closed, sockets, registry, session, machine, presence, crossed>>

(* The desktop closes its socket (paused, quit, or nothing heard for too   *)
(* long), or the network breaks it.                                        *)
Break(s) ==
  /\ s <= dialled /\ s \notin closed
  /\ closed' = closed \cup {s}
  /\ UNCHANGED <<dialled, down, up, sockets, registry, session, current, machine, presence, crossed>>

(* The desktop learns of the close, and will dial again. *)
Hangs ==
  /\ current \in closed
  /\ down' = [down EXCEPT ![current] = <<>>]
  /\ current' = 0
  /\ UNCHANGED <<dialled, up, closed, sockets, registry, session, machine, presence, crossed>>

-----------------------------------------------------------------------------
(* Sockets of the app server.                                              *)

(* Connection.drop(): what it waits for fails, its channel ends.           *)
Dropped(s) ==
  [o \in Open |-> IF on[o] # s THEN opens[o]
                  ELSE IF opens[o] = "waiting" THEN "failed"
                  ELSE IF opens[o] = "open" THEN "ended" ELSE opens[o]]

(* detach(): the connection goes if it is this socket's. *)
Detach(s) ==
  IF attached = s THEN attached' = 0 /\ channel' = 0 /\ opens' = Dropped(s)
                  ELSE UNCHANGED <<attached, channel, opens>>

(* DesktopSockets.close(): detached, and withdrawn once it is announced.   *)
Close(s) ==
  /\ live' = live \ {s}
  /\ IF s \notin live THEN UNCHANGED <<attached, channel, opens, mutations, gone>>
     ELSE /\ Detach(s)
          /\ IF s \notin announced THEN UNCHANGED <<mutations, gone>>
             ELSE IF \E i \in DOMAIN mutations : mutations[i] = [type |-> "attach", of |-> s]
             THEN gone' = gone \cup {s} /\ UNCHANGED mutations
             ELSE mutations' = Append(mutations, [type |-> "detach", of |-> s]) /\ UNCHANGED gone

(* The app server learns that a socket is closed. *)
Closes(s) ==
  /\ s \in closed \ over
  /\ over' = over \cup {s} /\ up' = [up EXCEPT ![s] = <<>>]
  /\ Close(s)
  /\ UNCHANGED <<dialled, down, closed, checking, on, session, current, machine, row, announced,
                 faults, unnoticed, stale, crossed>>

(* sweep(): a socket on which nothing was heard for too long.              *)
Sweep(s) ==
  /\ s \in live
  /\ over' = over \cup {s} /\ up' = [up EXCEPT ![s] = <<>>] /\ closed' = closed \cup {s}
  /\ Close(s)
  /\ UNCHANGED <<dialled, down, checking, on, session, current, machine, row, announced, faults,
                 unnoticed, stale, crossed>>

(* message(): the first is the token, which is checked. *)
Introduced(s) ==
  /\ up[s] # <<>> /\ Head(up[s]).type = "auth"
  /\ up' = [up EXCEPT ![s] = Tail(@)]
  /\ live' = live \cup {s} /\ checking' = checking \cup {s}
  /\ UNCHANGED <<dialled, down, closed, over, registry, session, current, machine, presence, crossed>>

(* ... and a socket that says more before it was is closed. *)
TooEarly(s) ==
  /\ up[s] # <<>> /\ Head(up[s]).type # "auth" /\ s \notin announced
  /\ up' = [up EXCEPT ![s] = Tail(@)]
  /\ closed' = closed \cup {s}
  /\ UNCHANGED <<dialled, down, sockets, registry, session, current, machine, presence, crossed>>

(* Mutation of Attach: the connection before is left as it is.             *)
AttachOver(s) ==
  /\ attached' = s /\ channel' = 0 /\ UNCHANGED <<opens, closed>>

(* attach(): the connection before is dropped and its socket closed.       *)
Attach(s) ==
  /\ attached' = s /\ channel' = 0
  /\ opens' = Dropped(attached)
  /\ closed' = IF attached = 0 THEN closed ELSE closed \cup {attached}

(* The token is good: the socket is attached, closed or not, and its       *)
(* machine is announced.                                                   *)
Authenticated(s) ==
  /\ s \in checking /\ checking' = checking \ {s}
  /\ Attach(s)
  /\ announced' = announced \cup {s}
  /\ mutations' = Append(mutations, [type |-> "attach", of |-> s])
  /\ UNCHANGED <<dialled, down, up, over, live, on, session, current, machine, row, gone, faults,
                 unnoticed, stale, crossed>>

(* ... or it is not. *)
Rejected(s) ==
  /\ s \in checking /\ checking' = checking \ {s}
  /\ closed' = closed \cup {s}
  /\ UNCHANGED <<dialled, down, up, over, live, registry, session, current, machine, presence,
                 crossed>>

-----------------------------------------------------------------------------
(* Requests, channels and what is sent back.                               *)

(* The next message of a socket that is attached; of one that was, it is   *)
(* dropped, as there is no seat for it.                                    *)
Received(s, m) ==
  /\ s \in announced /\ up[s] # <<>> /\ Head(up[s]) = m
  /\ up' = [up EXCEPT ![s] = Tail(@)]
  /\ UNCHANGED <<dialled, down, closed, sockets, attached, on, leaving, current, machine, presence>>

(* Ended channels hear no more. *)
EndChannel == IF channel = 0 THEN opens ELSE [opens EXCEPT ![channel] = "ended"]

(* "opened": whoever waits for this request gets a channel; the one before *)
(* of that name ends.                                                      *)
Opened(s, o) ==
  /\ Received(s, Says("opened", o))
  /\ IF s = attached /\ opens[o] = "waiting" /\ on[o] = s
     THEN opens' = [EndChannel EXCEPT ![o] = "open"] /\ channel' = o /\ named' = TRUE
     ELSE UNCHANGED <<opens, channel, named>>
  /\ UNCHANGED crossed

Refused(s, o) ==
  /\ Received(s, Says("refused", o))
  /\ opens' = IF s = attached /\ opens[o] = "waiting" /\ on[o] = s
              THEN [opens EXCEPT ![o] = "failed"] ELSE opens
  /\ crossed' = (crossed \/ channel # 0)
  /\ UNCHANGED <<channel, named>>

(* "exited": the channel of the name ends. *)
Exited(s) ==
  /\ Received(s, Says("exited", 0))
  /\ IF s = attached THEN opens' = EndChannel /\ channel' = 0 ELSE UNCHANGED <<opens, channel>>
  /\ UNCHANGED <<named, crossed>>

(* "rpc": a message for the channel of the name. *)
Heard(s, o) ==
  /\ Received(s, Says("rpc", o))
  /\ UNCHANGED <<opens, channel, named, crossed>>

(* open(): the server is asked for on the machine's connection. *)
Ask(o) ==
  /\ attached # 0 /\ opens[o] = "none" /\ \A p \in 1..(o - 1) : opens[p] # "none"
  /\ opens' = [opens EXCEPT ![o] = "waiting"] /\ on' = [on EXCEPT ![o] = attached]
  /\ down' = SentDown(attached, Says("open", o))
  /\ UNCHANGED <<dialled, up, closed, sockets, attached, channel, session, current, machine,
                 presence, crossed>>

(* OPEN_TIMEOUT_MS *)
TimeOut(o) ==
  /\ opens[o] = "waiting"
  /\ opens' = [opens EXCEPT ![o] = "failed"]
  /\ crossed' = (crossed \/ channel # 0 \/ Waiting # {o})
  /\ UNCHANGED <<wires, sockets, attached, on, channel, session, current, machine, presence>>

(* disconnect() of the MCP client: its channel is closed, *)
Leave(o) ==
  /\ opens[o] \in {"open", "ended"}
  /\ opens' = [opens EXCEPT ![o] = "left"]
  /\ IF opens[o] = "ended" THEN UNCHANGED <<channel, down, crossed>>
     ELSE /\ channel' = IF channel = o THEN 0 ELSE channel
          /\ down' = SentDown(on[o], Says("close", 0))
          /\ crossed' = (crossed \/ Waiting # {})
  /\ leaving' = leaving \cup {o}
  /\ UNCHANGED <<dialled, up, closed, sockets, attached, on, named, current, machine, presence>>

(* ... and the host stops the name: shut().                                *)
StopHost(o) ==
  /\ o \in leaving /\ leaving' = leaving \ {o}
  /\ named' = FALSE
  /\ IF ~named \/ attached = 0 THEN UNCHANGED <<opens, channel, down, crossed>>
     ELSE /\ opens' = EndChannel /\ channel' = 0
          /\ down' = SentDown(attached, Says("close", 0))
          /\ crossed' = (crossed \/ Waiting # {})
  /\ UNCHANGED <<dialled, up, closed, sockets, attached, on, current, machine, presence>>

-----------------------------------------------------------------------------
(* The desktop.                                                            *)

Told(m) ==
  /\ current # 0 /\ down[current] # <<>> /\ Head(down[current]) = m
  /\ down' = [down EXCEPT ![current] = Tail(@)]
  /\ UNCHANGED <<dialled, closed, sockets, registry, session, current, presence>>

(* "open": the process before is stopped first. *)
ToOpen(o) ==
  /\ Told(Says("open", o))
  /\ work' = [work EXCEPT ![o] = "stopping"]
  /\ dying' = dying \cup ({entry} \cap running)
  /\ crossed' = (crossed \/ Busy # {})
  /\ UNCHANGED <<up, entry, running>>

(* It has: whoever has the name now loses it, and the process starts. *)
Start(o) ==
  /\ work[o] = "stopping" /\ entry \notin dying
  /\ work' = [work EXCEPT ![o] = "starting"]
  /\ entry' = 0 /\ running' = running \cup {o}
  /\ UNCHANGED <<wires, sockets, registry, session, current, dying, presence, crossed>>

Started(o) ==
  /\ work[o] = "starting"
  /\ work' = [work EXCEPT ![o] = "done"]
  /\ entry' = o /\ up' = SentUp(Says("opened", o))
  /\ UNCHANGED <<dialled, down, closed, sockets, registry, session, current, running, dying,
                 presence, crossed>>

DoesNotStart(o) ==
  /\ work[o] = "starting"
  /\ work' = [work EXCEPT ![o] = "done"]
  /\ running' = running \ {o} /\ up' = SentUp(Says("refused", o))
  /\ UNCHANGED <<dialled, down, closed, sockets, registry, session, current, entry, dying,
                 presence, crossed>>

(* "close": the process is stopped, which may take a while. *)
ToClose ==
  /\ Told(Says("close", 0))
  /\ entry' = 0 /\ dying' = dying \cup ({entry} \cap running)
  /\ UNCHANGED <<up, work, running, crossed>>

(* A process that is stopped says nothing of it. *)
Dies(o) ==
  /\ o \in dying
  /\ running' = running \ {o} /\ dying' = dying \ {o}
  /\ UNCHANGED <<wires, sockets, registry, session, current, work, entry, presence, crossed>>

(* Mutation of Exits: the desktop tells nobody.                            *)
ExitsSilently(o) ==
  /\ o \in running \ dying /\ work[o] = "done"
  /\ running' = running \ {o}
  /\ entry' = IF entry = o THEN 0 ELSE entry
  /\ UNCHANGED <<wires, sockets, registry, session, current, work, dying, presence, crossed>>

(* A process ends by itself; the app server is told if it had the name. *)
Exits(o) ==
  /\ o \in running \ dying /\ work[o] = "done"
  /\ running' = running \ {o}
  /\ IF entry = o THEN entry' = 0 /\ up' = SentUp(Says("exited", 0)) ELSE UNCHANGED <<entry, up>>
  /\ UNCHANGED <<dialled, down, closed, sockets, registry, session, current, work, dying, presence,
                 crossed>>

(* A process speaks, whether it is listened to or not; here, while nothing *)
(* else is on its way, which bounds what is said.                          *)
Speaks(o) ==
  /\ o \in running /\ work[o] = "done" /\ current # 0 /\ up[current] = <<>>
  /\ up' = SentUp(Says("rpc", o))
  /\ UNCHANGED <<dialled, down, closed, sockets, registry, session, current, machine, presence,
                 crossed>>

-----------------------------------------------------------------------------
(* The machine's row.                                                      *)

First == Head(mutations)

(* Mutation of Written: a detach does not look whose the row is.           *)
WrittenAnyway ==
  IF First.type = "attach" THEN [connection |-> First.of, connected |-> TRUE]
  ELSE [row EXCEPT !.connected = FALSE]

(* desktops.attach and desktops.detach *)
Written ==
  IF First.type = "attach" THEN [connection |-> First.of, connected |-> TRUE]
  ELSE IF row.connection = First.of THEN [row EXCEPT !.connected = FALSE]
  ELSE row

(* A mutation is done, or fails, which nobody hears of; a socket closed    *)
(* while it was announced is withdrawn.                                    *)
Mutate(done) ==
  /\ mutations # <<>> /\ (~done => faults < MaxFaults)
  /\ faults' = IF done THEN faults ELSE faults + 1
  /\ row' = IF done THEN Written ELSE row
  /\ LET was == First
         withdrawn == was.type = "attach" /\ was.of \in gone
     IN /\ mutations' = IF withdrawn THEN Append(Tail(mutations), [type |-> "detach", of |-> was.of])
                                     ELSE Tail(mutations)
        /\ gone' = IF withdrawn THEN gone \ {was.of} ELSE gone
        /\ unnoticed' = IF ~done /\ was.type = "attach" THEN unnoticed \cup {was.of} ELSE unnoticed
        /\ stale' = IF done /\ was.type = "attach" THEN FALSE
                    ELSE stale \/ (~done /\ row = [connection |-> was.of, connected |-> TRUE])
  /\ UNCHANGED <<wires, sockets, registry, session, current, machine, announced, crossed>>

(* desktops.sweep: a row that no ping keeps fresh is not connected. *)
SweepRow ==
  /\ row.connected /\ row.connection \notin live
  /\ \A i \in DOMAIN mutations : mutations[i] # [type |-> "attach", of |-> row.connection]
  /\ row' = [row EXCEPT !.connected = FALSE] /\ stale' = FALSE
  /\ UNCHANGED <<wires, sockets, registry, session, current, machine, mutations, announced, gone,
                 faults, unnoticed, crossed>>

(* The app server dies: with its sockets, sessions and what it was to      *)
(* write.                                                                  *)
Crash ==
  /\ faults < MaxFaults /\ faults' = faults + 1
  /\ closed' = 1..dialled /\ over' = 1..dialled /\ live' = {} /\ checking' = {}
  /\ up' = [s \in Socket |-> <<>>]
  /\ attached' = 0 /\ channel' = 0
  /\ opens' = [o \in Open |-> IF opens[o] = "none" THEN "none" ELSE "left"]
  /\ named' = FALSE /\ leaving' = {}
  /\ mutations' = <<>> /\ gone' = {} /\ stale' = row.connected
  /\ UNCHANGED <<dialled, down, on, current, machine, row, announced, unnoticed, crossed>>

Next ==
  \/ Dial \/ Hangs \/ ToClose \/ SweepRow \/ Crash
  \/ \E s \in Socket : \/ Break(s) \/ Closes(s) \/ Sweep(s) \/ Introduced(s) \/ TooEarly(s)
                       \/ Authenticated(s) \/ Rejected(s) \/ Exited(s)
                       \/ \E o \in Open : Opened(s, o) \/ Refused(s, o) \/ Heard(s, o)
  \/ \E o \in Open : \/ Ask(o) \/ TimeOut(o) \/ Leave(o) \/ StopHost(o)
                     \/ ToOpen(o) \/ Start(o) \/ Started(o) \/ DoesNotStart(o)
                     \/ Dies(o) \/ Exits(o) \/ Speaks(o)
  \/ \E done \in BOOLEAN : Mutate(done)

Spec == Init /\ [][Next]_vars

-----------------------------------------------------------------------------
(***************************************************************************)
(* Properties.                                                             *)
(***************************************************************************)

(* What waits for the desktop and what speaks to it goes with the socket:  *)
(* a request waits only on the connection that is attached, and a channel  *)
(* that has not ended is that connection's, and the last that was opened   *)
(* on it, however late sockets close and tokens are checked                *)
(* (desktop-registry.test.ts:113, :147 and :166).                          *)
Attended ==
  \A o \in Open :
    /\ opens[o] = "waiting" => on[o] = attached
    /\ opens[o] = "open" => channel = o /\ on[o] = attached

(* Nothing is on its way between the app server and the desktop. *)
Settled ==
  /\ attached = current /\ attached \notin closed
  /\ attached # 0 => up[attached] = <<>> /\ down[attached] = <<>>
  /\ Busy = {}

(* A channel that has not ended has its process, and no other has the      *)
(* name: whatever exits, reconnects and is opened again, as long as        *)
(* requests do not overlap on the desktop, no close is sent while one is   *)
(* waited for, and none fails beside a channel or another request.         *)
ChannelServed ==
  Settled /\ ~crossed /\ channel # 0 => entry = channel /\ channel \in running \ dying

(* The user is shown the machine as connected exactly when it is: of       *)
(* sockets that replace each other, the row follows the one attached       *)
(* (desktops.test.ts:45), unless a mutation failed, a crash left the row,  *)
(* or the socket was closed before it was attached.                        *)
PresenceTrue ==
  mutations = <<>> =>
    /\ attached \in live \ unnoticed => row = [connection |-> attached, connected |-> TRUE]
    /\ row.connected /\ ~stale /\ unnoticed = {} => row.connection = attached

(* The registry holds no connection of a socket that is closed.  (The code *)
(* does: one that closed while its token was checked.)                     *)
NoGhosts == attached # 0 => attached \in live

(* A channel has its process, in any case.  (The code's has not: on a      *)
(* reload, the second close of the server before comes after the request.) *)
ReloadServed == Settled /\ channel # 0 => entry = channel /\ channel \in running \ dying

(* A process that keeps running is somebody's.  (The code's is not: a late *)
(* answer, or a socket that was lost, leaves it without a channel.)        *)
NoOrphans == Settled /\ attached # 0 /\ leaving = {} => running \ dying \subseteq {channel}

(* A channel hears its own process.  (The code's does not: one that is     *)
(* still being stopped speaks in the name of the next.)                    *)
OwnVoice ==
  \A o \in Open : attached # 0 /\ channel # 0 /\ up[attached] # <<>> /\ Head(up[attached]) = Says("rpc", o)
                    => o = channel
=============================================================================
