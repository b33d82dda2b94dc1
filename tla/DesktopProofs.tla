--------------------------- MODULE DesktopProofs ----------------------------
(***************************************************************************)
(* Proofs about a user's machine, for any number of sockets, requests and  *)
(* faults: requests and channels go with the connection (RequestsAttended),*)
(* the row follows the socket that is attached (MachineShown), and a       *)
(* channel has its process (ChannelHasProcess).                            *)
(***************************************************************************)
EXTENDS Desktop, SequenceTheorems, TLAPS

State == {"none", "waiting", "failed", "open", "ended", "left"}

(* What the registry's steps need to know of its values. *)
Registered ==
  /\ opens \in [Open -> State] /\ on \in [Open -> 0..MaxSockets]
  /\ channel \in 0..MaxOpens /\ attached \in 0..MaxSockets

IInv == Registered /\ Attended

(* The steps that leave the registry alone. *)
LEMMA Elsewhere == ASSUME IInv, UNCHANGED <<attached, opens, on, channel>> PROVE IInv'
BY DEF IInv, Registered, Attended

(* Zero stands for no socket and no channel. *)
LEMMA Bounds == 0 \in 0..MaxSockets /\ 0 \in 0..MaxOpens /\ Socket \subseteq 0..MaxSockets
                /\ Open \subseteq 0..MaxOpens /\ 0 \notin Open /\ 0 \notin Socket
                /\ 0..MaxOpens = {0} \cup Open
<1>1. MaxSockets \in Nat /\ MaxOpens \in Nat BY BoundsAssumption
<1> QED BY <1>1 DEF Socket, Open

(* A connection that is dropped leaves no request waiting, no channel open. *)
LEMMA DropsAll ==
  ASSUME IInv
  PROVE  /\ Dropped(attached) \in [Open -> State]
         /\ \A o \in Open : Dropped(attached)[o] \notin {"waiting", "open"}
<1>1. \A o \in Open : opens[o] \in {"waiting", "open"} => on[o] = attached
  BY DEF IInv, Attended, Registered, State
<1> QED BY <1>1 DEF Dropped, IInv, Registered, State

(* A channel that ends was the only one. *)
LEMMA EndsOne ==
  ASSUME IInv
  PROVE  /\ EndChannel \in [Open -> State]
         /\ \A o \in Open : EndChannel[o] # "open"
         /\ \A o \in Open : EndChannel[o] = "waiting" => opens[o] = "waiting"
         /\ \A o \in Open : o # channel => EndChannel[o] = opens[o]
<1>1. opens \in [Open -> State] /\ channel \in {0} \cup Open BY Bounds DEF IInv, Registered
<1>2. \A o \in Open : opens[o] = "open" => channel = o BY DEF IInv, Attended
<1>3. CASE channel = 0 BY <1>1, <1>2, <1>3, Bounds DEF EndChannel
<1>4. CASE channel # 0
  <2>1. channel \in Open /\ EndChannel = [opens EXCEPT ![channel] = "ended"] BY <1>1, <1>4 DEF EndChannel
  <2>2. "ended" \in State BY DEF State
  <2> QED BY <1>1, <1>2, <2>1, <2>2
<1> QED BY <1>3, <1>4

(* detach(): with the connection go its requests and its channel. *)
LEMMA DetachKeeps == ASSUME IInv, NEW s \in Socket, Detach(s), UNCHANGED on PROVE IInv'
<1>1. CASE attached = s
  <2>1. attached' = 0 /\ channel' = 0 /\ opens' = Dropped(attached) BY <1>1 DEF Detach
  <2> QED BY <2>1, DropsAll, Bounds DEF IInv, Registered, Attended
<1>2. CASE attached # s BY <1>2, Elsewhere DEF Detach
<1> QED BY <1>1, <1>2

(* A socket that closes is detached once. *)
LEMMA CloseKeeps == ASSUME IInv, NEW s \in Socket, Close(s), UNCHANGED on PROVE IInv'
<1>1. CASE s \notin live BY <1>1, Elsewhere DEF Close
<1>2. CASE s \in live BY <1>2, DetachKeeps DEF Close
<1> QED BY <1>1, <1>2

(* attach(): the connection that is replaced is dropped. *)
LEMMA AuthenticatedKeeps == ASSUME IInv, NEW s \in Socket, Authenticated(s) PROVE IInv'
<1>1. attached' = s /\ channel' = 0 /\ opens' = Dropped(attached) /\ on' = on
  BY DEF Authenticated, Attach
<1> QED BY <1>1, DropsAll, Bounds DEF IInv, Registered, Attended

(* A request that is answered gets the channel of the name. *)
LEMMA OpenedKeeps == ASSUME IInv, NEW s \in Socket, NEW o \in Open, Opened(s, o) PROVE IInv'
<1>1. UNCHANGED <<attached, on>> BY DEF Opened, Received
<1>2. CASE s = attached /\ opens[o] = "waiting" /\ on[o] = s
  <2>1. opens' = [EndChannel EXCEPT ![o] = "open"] /\ channel' = o BY <1>2 DEF Opened
  <2>2. "open" \in State BY DEF State
  <2>3. opens' \in [Open -> State] /\ opens'[o] = "open"
        /\ \A p \in Open : p # o => opens'[p] = EndChannel[p]
    BY <2>1, <2>2, EndsOne
  <2> QED BY <1>1, <1>2, <2>1, <2>3, EndsOne, Bounds DEF IInv, Registered, Attended
<1>3. CASE ~(s = attached /\ opens[o] = "waiting" /\ on[o] = s)
  BY <1>1, <1>3, Elsewhere DEF Opened
<1> QED BY <1>2, <1>3

(* What ends a request, or the channel with it, opens none. *)
LEMMA FailsOne ==
  ASSUME IInv, NEW o \in Open, NEW st \in State \ {"waiting", "open"},
         opens' = [opens EXCEPT ![o] = st], UNCHANGED <<attached, on>>,
         channel' = channel \/ (channel' = 0 /\ opens[o] = "open")
  PROVE  IInv'
<1>1. opens' \in [Open -> State] /\ opens'[o] = st /\ \A p \in Open : p # o => opens'[p] = opens[p]
  BY DEF IInv, Registered
<1>2. channel' \in 0..MaxOpens BY Bounds DEF IInv, Registered
<1>3. ASSUME NEW p \in Open, opens'[p] = "open" PROVE channel' = p /\ on'[p] = attached'
  BY <1>1, <1>3 DEF IInv, Attended
<1>4. ASSUME NEW p \in Open, opens'[p] = "waiting" PROVE on'[p] = attached'
  BY <1>1, <1>4 DEF IInv, Attended
<1> QED BY <1>1, <1>2, <1>3, <1>4 DEF IInv, Registered, Attended

(* "exited" and shut(): the channel of the name ends. *)
LEMMA EndKeeps ==
  ASSUME IInv, opens' = EndChannel, channel' = 0, UNCHANGED <<attached, on>> PROVE IInv'
BY EndsOne, Bounds DEF IInv, Registered, Attended

(* open(): asked on the connection that is attached. *)
LEMMA AskKeeps == ASSUME IInv, NEW o \in Open, Ask(o) PROVE IInv'
<1>1. /\ opens[o] = "none" /\ opens' = [opens EXCEPT ![o] = "waiting"]
      /\ on' = [on EXCEPT ![o] = attached] /\ UNCHANGED <<attached, channel>>
  BY DEF Ask
<1>2. "waiting" \in State BY DEF State
<1>3. /\ opens' \in [Open -> State] /\ opens'[o] = "waiting"
      /\ on' \in [Open -> 0..MaxSockets] /\ on'[o] = attached
      /\ \A p \in Open : p # o => opens'[p] = opens[p] /\ on'[p] = on[p]
  BY <1>1, <1>2 DEF IInv, Registered
<1> QED BY <1>1, <1>3 DEF IInv, Registered, Attended

(* The app server dies: no request and no channel is left. *)
LEMMA CrashKeeps == ASSUME IInv, Crash PROVE IInv'
<1>1. /\ attached' = 0 /\ channel' = 0 /\ on' = on
      /\ opens' = [o \in Open |-> IF opens[o] = "none" THEN "none" ELSE "left"]
  BY DEF Crash
<1>2. opens' \in [Open -> State] /\ \A o \in Open : opens'[o] \in {"none", "left"} BY <1>1 DEF State
<1> QED BY <1>1, <1>2, Bounds DEF IInv, Registered, Attended

-----------------------------------------------------------------------------
(* Every step keeps requests and channels on the socket that is attached. *)
LEMMA StaysSo == ASSUME IInv, [Next]_vars PROVE IInv'
<1>1. CASE UNCHANGED vars BY <1>1, Elsewhere DEF vars
<1>2. CASE Dial \/ Hangs \/ ToClose \/ SweepRow
  BY <1>2, Elsewhere DEF Dial, Hangs, ToClose, Told, SweepRow, registry
<1>3. CASE Crash BY <1>3, CrashKeeps
<1>4. ASSUME NEW s \in Socket, Break(s) \/ Introduced(s) \/ TooEarly(s) \/ Rejected(s) PROVE IInv'
  BY <1>4, Elsewhere DEF Break, Introduced, TooEarly, Rejected, registry
<1>5. ASSUME NEW s \in Socket, Closes(s) \/ Sweep(s) PROVE IInv'
  BY <1>5, CloseKeeps DEF Closes, Sweep
<1>6. ASSUME NEW s \in Socket, Authenticated(s) PROVE IInv' BY <1>6, AuthenticatedKeeps
<1>7. ASSUME NEW s \in Socket, Exited(s) PROVE IInv'
  <2>1. UNCHANGED <<attached, on>> BY <1>7 DEF Exited, Received
  <2>2. \/ opens' = EndChannel /\ channel' = 0
        \/ UNCHANGED <<opens, channel>>
    BY <1>7 DEF Exited
  <2> QED BY <2>1, <2>2, EndKeeps, Elsewhere
<1>8. ASSUME NEW s \in Socket, NEW o \in Open, Opened(s, o) PROVE IInv' BY <1>8, OpenedKeeps
<1>9. ASSUME NEW s \in Socket, NEW o \in Open, Refused(s, o) PROVE IInv'
  <2>1. UNCHANGED <<attached, on, channel>> BY <1>9 DEF Refused, Received
  <2>2. opens' = [opens EXCEPT ![o] = "failed"] \/ opens' = opens BY <1>9 DEF Refused
  <2>3. "failed" \in State \ {"waiting", "open"} BY DEF State
  <2> QED BY <2>1, <2>2, <2>3, FailsOne, Elsewhere
<1>10. ASSUME NEW s \in Socket, NEW o \in Open, Heard(s, o) PROVE IInv'
  BY <1>10, Elsewhere DEF Heard, Received
<1>11. ASSUME NEW o \in Open, Ask(o) PROVE IInv' BY <1>11, AskKeeps
<1>12. ASSUME NEW o \in Open, TimeOut(o) PROVE IInv'
  <2>1. opens' = [opens EXCEPT ![o] = "failed"] /\ UNCHANGED <<attached, on, channel>>
    BY <1>12 DEF TimeOut
  <2>2. "failed" \in State \ {"waiting", "open"} BY DEF State
  <2> QED BY <2>1, <2>2, FailsOne
<1>13. ASSUME NEW o \in Open, Leave(o) PROVE IInv'
  <2>1. opens' = [opens EXCEPT ![o] = "left"] /\ UNCHANGED <<attached, on>> BY <1>13 DEF Leave
  <2>2. channel' = channel \/ (channel' = 0 /\ opens[o] = "open") BY <1>13 DEF Leave
  <2>3. "left" \in State \ {"waiting", "open"} BY DEF State
  <2> QED BY <2>1, <2>2, <2>3, FailsOne
<1>14. ASSUME NEW o \in Open, StopHost(o) PROVE IInv'
  <2>1. UNCHANGED <<attached, on>> BY <1>14 DEF StopHost
  <2>2. \/ opens' = EndChannel /\ channel' = 0
        \/ UNCHANGED <<opens, channel>>
    BY <1>14 DEF StopHost
  <2> QED BY <2>1, <2>2, EndKeeps, Elsewhere
<1>15. ASSUME NEW o \in Open,
              ToOpen(o) \/ Start(o) \/ Started(o) \/ DoesNotStart(o) \/ Dies(o) \/ Exits(o) \/ Speaks(o)
       PROVE  IInv'
  BY <1>15, Elsewhere
  DEF ToOpen, Told, Start, Started, DoesNotStart, Dies, Exits, Speaks, registry
<1>16. ASSUME NEW done \in BOOLEAN, Mutate(done) PROVE IInv' BY <1>16, Elsewhere DEF Mutate, registry
<1> QED BY <1>1, <1>2, <1>3, <1>4, <1>5, <1>6, <1>7, <1>8, <1>9, <1>10, <1>11, <1>12, <1>13,
           <1>14, <1>15, <1>16 DEF Next

(* DesktopRegistry: whatever is dialled, replaced, swept, timed out and    *)
(* answered late, a request waits only on the connection that is attached, *)
(* and a channel that has not ended is its last (registry.ts:185, :222).   *)
THEOREM RequestsAttended == Spec => []Attended
<1>1. Init => IInv
  <2> SUFFICES ASSUME Init PROVE IInv OBVIOUS
  <2>1. opens = [o \in Open |-> "none"] /\ on = [o \in Open |-> 0] /\ channel = 0 /\ attached = 0
    BY DEF Init
  <2> QED BY <2>1, Bounds DEF IInv, Registered, Attended, State
<1>2. IInv /\ [Next]_vars => IInv' BY StaysSo
<1>3. IInv => Attended BY DEF IInv
<1> QED BY <1>1, <1>2, <1>3, PTL DEF Spec

-----------------------------------------------------------------------------
(* What is put at the end of a queue, and what taking its head leaves. *)
LEMMA AppendAt ==
  ASSUME NEW S, NEW q \in Seq(S), NEW m \in S
  PROVE  /\ Append(q, m) \in Seq(S) /\ Len(q) \in Nat /\ Len(Append(q, m)) = Len(q) + 1
         /\ \A i \in 1..Len(q) : Append(q, m)[i] = q[i]
         /\ Append(q, m)[Len(q) + 1] = m
BY AppendProperties, LenProperties

(* ... and taking its head leaves the rest, one place nearer. *)
LEMMA TailAt ==
  ASSUME NEW S, NEW q \in Seq(S), q # <<>>
  PROVE  /\ Tail(q) \in Seq(S) /\ Len(q) \in Nat /\ Len(q) > 0 /\ Len(Tail(q)) = Len(q) - 1
         /\ \A i \in 1..Len(Tail(q)) : i + 1 \in 1..Len(q) /\ Tail(q)[i] = q[i + 1]
         /\ Head(q) = q[1] /\ q[1] \in S
BY HeadTailProperties, LenProperties, EmptySeq

-----------------------------------------------------------------------------
(* Every socket introduces itself once. *)

(* A socket's token is the first thing it says, before it is checked. *)
AuthOnce(s) ==
  \A i \in 1..Len(up[s]) : up[s][i].type = "auth" => i = 1 /\ s \notin announced \cup checking

WireInv ==
  /\ dialled \in 0..MaxSockets /\ current \in 0..dialled
  /\ up \in [Socket -> Seq(Message)] /\ down \in [Socket -> Seq(Message)]
  /\ over \subseteq closed /\ closed \cup live \cup checking \cup announced \subseteq 1..dialled
  /\ attached \in announced \cup {0}
  /\ live \cap over = {}
  /\ \A s \in Socket : s \in over \/ s > dialled => up[s] = <<>>
  /\ \A s \in Socket : AuthOnce(s)

(* A wire that says less than before, or something that is no token. *)
LEMMA WireSays ==
  ASSUME WireInv, NEW s \in Socket, up' \in [Socket -> Seq(Message)],
         s \in announced' \cup checking' => s \in announced \cup checking,
         \/ up'[s] = up[s]
         \/ up'[s] = <<>>
         \/ up[s] # <<>> /\ up'[s] = Tail(up[s])
         \/ \E m \in Message : m.type # "auth" /\ up'[s] = Append(up[s], m)
  PROVE  AuthOnce(s)'
<1>1. up[s] \in Seq(Message) /\ AuthOnce(s) BY DEF WireInv
<1>2. CASE up'[s] = up[s] BY <1>1, <1>2 DEF AuthOnce
<1>3. CASE up'[s] = <<>> BY <1>3 DEF AuthOnce
<1>4. CASE up[s] # <<>> /\ up'[s] = Tail(up[s]) BY <1>1, <1>4, TailAt DEF AuthOnce
<1>5. ASSUME NEW m \in Message, m.type # "auth", up'[s] = Append(up[s], m) PROVE AuthOnce(s)'
  BY <1>1, <1>5, AppendAt DEF AuthOnce
<1> QED BY <1>2, <1>3, <1>4, <1>5

(* What a step may do to the wires, other than to dial and to introduce.   *)
Wiring ==
  /\ dialled' = dialled /\ current' \in {0, current}
  /\ up' \in [Socket -> Seq(Message)] /\ down' \in [Socket -> Seq(Message)]
  /\ over \subseteq over' /\ over' \subseteq closed' /\ closed' \subseteq 1..dialled
  /\ live' \subseteq live \ over' /\ checking' \subseteq checking
  /\ announced' \subseteq announced \cup checking
  /\ attached' \in announced' \cup {0}
  /\ \A s \in over' \ over : up'[s] = <<>>
  /\ \A s \in Socket :
       \/ up'[s] = up[s]
       \/ up'[s] = <<>>
       \/ up[s] # <<>> /\ up'[s] = Tail(up[s])
       \/ s \in (1..dialled) \ over' /\ \E m \in Message : m.type # "auth" /\ up'[s] = Append(up[s], m)

(* A step that does no more keeps sockets and wires in order. *)
LEMMA WireKeeps == ASSUME WireInv, Wiring PROVE WireInv'
<1>1. dialled \in 0..MaxSockets /\ current \in 0..dialled /\ MaxSockets \in Nat
  BY BoundsAssumption DEF WireInv
<1>2. dialled' \in 0..MaxSockets /\ current' \in 0..dialled' BY <1>1 DEF Wiring
<1>3. closed' \cup live' \cup checking' \cup announced' \subseteq 1..dialled' BY DEF WireInv, Wiring
<1>4. ASSUME NEW s \in Socket, s \in over' \/ s > dialled' PROVE up'[s] = <<>>
  <2>1. s \notin (1..dialled) \ over' BY <1>1, <1>4 DEF Socket, Wiring
  <2>2. CASE s \in over' \ over BY <2>2 DEF Wiring
  <2>3. CASE s \notin over' \ over
    <3>1. up[s] = <<>> BY <1>4, <2>3 DEF WireInv, Wiring
    <3> QED BY <2>1, <3>1 DEF Wiring
  <2> QED BY <2>2, <2>3
<1>5. ASSUME NEW s \in Socket PROVE AuthOnce(s)'
  <2>1. s \in announced' \cup checking' => s \in announced \cup checking BY DEF Wiring
  <2>2. \/ up'[s] = up[s]
        \/ up'[s] = <<>>
        \/ up[s] # <<>> /\ up'[s] = Tail(up[s])
        \/ \E m \in Message : m.type # "auth" /\ up'[s] = Append(up[s], m)
    BY DEF Wiring
  <2>3. up' \in [Socket -> Seq(Message)] BY DEF Wiring
  <2> QED BY <2>1, <2>2, <2>3, WireSays
<1>6. up' \in [Socket -> Seq(Message)] /\ down' \in [Socket -> Seq(Message)] /\ over' \subseteq closed'
      /\ attached' \in announced' \cup {0} /\ live' \cap over' = {}
  BY DEF Wiring
<1> QED BY <1>2, <1>3, <1>4, <1>5, <1>6 DEF WireInv

(* One wire is written. *)
LEMMA OneWire ==
  ASSUME NEW f \in [Socket -> Seq(Message)], NEW s \in Socket, NEW q \in Seq(Message),
         NEW g, g = [f EXCEPT ![s] = q]
  PROVE  g \in [Socket -> Seq(Message)] /\ g[s] = q /\ \A t \in Socket : t # s => g[t] = f[t]
OBVIOUS

(* What both ends say. *)
LEMMA ThingsSaid ==
  /\ \A o \in Open : {Says("open", o), Says("opened", o), Says("refused", o), Says("rpc", o)} \subseteq Message
  /\ {Says("close", 0), Says("exited", 0), Says("auth", 0)} \subseteq Message
BY Bounds DEF Says, Message

(* A message for the desktop is put on the wire it is meant for, or lost. *)
LEMMA SaidDown ==
  ASSUME WireInv, NEW s, NEW m \in Message
  PROVE  /\ SentDown(s, m) \in [Socket -> Seq(Message)]
         /\ \A t \in Socket : t # s \/ s \in closed => SentDown(s, m)[t] = down[t]
         /\ s \in Socket \ closed => SentDown(s, m)[s] = Append(down[s], m)
<1>1. down \in [Socket -> Seq(Message)] BY DEF WireInv
<1>2. \A t \in Socket : Append(down[t], m) \in Seq(Message) BY <1>1, AppendAt
<1> QED BY <1>1, <1>2 DEF SentDown

(* ... and one for the app server. *)
LEMMA SaidUp ==
  ASSUME WireInv, NEW m \in Message
  PROVE  /\ SentUp(m) \in [Socket -> Seq(Message)]
         /\ \A t \in Socket : t # current \/ t \in closed => SentUp(m)[t] = up[t]
         /\ current # 0 /\ current \notin closed => current \in Socket /\ SentUp(m)[current] = Append(up[current], m)
<1>1. up \in [Socket -> Seq(Message)] BY DEF WireInv
<1>2. CASE current = 0 \/ current \in closed BY <1>1, <1>2 DEF SentUp
<1>3. CASE current # 0 /\ current \notin closed
  <2>1. current \in Socket BY <1>3, BoundsAssumption DEF WireInv, Socket
  <2>2. Append(up[current], m) \in Seq(Message) BY <1>1, <2>1, AppendAt
  <2>3. SentUp(m) = [up EXCEPT ![current] = Append(up[current], m)] BY <1>3 DEF SentUp
  <2> QED BY <1>1, <1>3, <2>1, <2>2, <2>3
<1> QED BY <1>2, <1>3

(* What the app server or the desktop says is written, or lost. *)
LEMMA WireSpeaks ==
  ASSUME WireInv, NEW m \in Message, m.type # "auth", up' = SentUp(m),
         UNCHANGED <<dialled, closed, sockets, attached, current, announced>>,
         down' \in [Socket -> Seq(Message)]
  PROVE  WireInv'
<1>1. \A t \in Socket : t # current \/ t \in closed => up'[t] = up[t] BY SaidUp
<1>2. current # 0 /\ current \notin closed =>
        current \in (1..dialled) \ over /\ up'[current] = Append(up[current], m)
  <2>1. current # 0 => current \in 1..dialled BY DEF WireInv
  <2> QED BY <2>1, SaidUp DEF WireInv
<1>3. up' \in [Socket -> Seq(Message)] BY SaidUp
<1>4. ASSUME NEW s \in Socket
      PROVE  \/ up'[s] = up[s]
             \/ s \in (1..dialled) \ over' /\ \E n \in Message : n.type # "auth" /\ up'[s] = Append(up[s], n)
  <2>1. over' = over BY DEF sockets
  <2>2. CASE s # current \/ s \in closed BY <1>1, <2>2
  <2>3. CASE s = current /\ s \notin closed
    <3>1. current # 0 BY <2>3, Bounds
    <3> QED BY <1>2, <2>1, <2>3, <3>1
  <2> QED BY <2>2, <2>3
<1> QED BY <1>3, <1>4, WireKeeps DEF Wiring, WireInv, sockets

(* Messages are taken, or lost with their socket. *)
LEMMA WireTakes ==
  ASSUME WireInv, UNCHANGED dialled, current' \in {0, current}, down' \in [Socket -> Seq(Message)],
         UNCHANGED <<checking, announced>>, attached' \in {0, attached},
         NEW s \in Socket,
         \/ up' = up
         \/ up[s] # <<>> /\ up' = [up EXCEPT ![s] = Tail(@)]
         \/ up' = [up EXCEPT ![s] = <<>>],
         \/ over' = over
         \/ over' = over \cup {s} /\ up' = [up EXCEPT ![s] = <<>>],
         over' \subseteq closed', closed \subseteq closed', closed' \subseteq closed \cup {s},
         s \in 1..dialled \/ closed' = closed,
         live' = live \/ live' = live \ {s}, over' # over => live' = live \ {s}
  PROVE  WireInv'
<1>1. up \in [Socket -> Seq(Message)] /\ <<>> \in Seq(Message) /\ closed \subseteq 1..dialled
  BY EmptySeq DEF WireInv
<1>2. /\ up' \in [Socket -> Seq(Message)] /\ \A t \in Socket : t # s => up'[t] = up[t]
      /\ \/ up'[s] = up[s]
         \/ up'[s] = <<>>
         \/ up[s] # <<>> /\ up'[s] = Tail(up[s])
  <2>1. up[s] # <<>> => Tail(up[s]) \in Seq(Message) BY <1>1, TailAt
  <2> QED BY <1>1, <2>1
<1>3. \A t \in over' \ over : up'[t] = <<>> BY <1>1
<1>4. live' \subseteq live \ over' BY DEF WireInv
<1>5. closed' \subseteq 1..dialled BY <1>1
<1>6. attached' \in announced' \cup {0} BY DEF WireInv
<1> QED BY <1>2, <1>3, <1>4, <1>5, <1>6, WireKeeps DEF Wiring

(* connect(): the socket that is dialled is a new one. *)
LEMMA DialKeepsWires == ASSUME WireInv, Dial PROVE WireInv'
<1>1. dialled \in Nat /\ MaxSockets \in Nat /\ dialled \in 0..MaxSockets
  BY BoundsAssumption DEF WireInv
<1>2. dialled < MaxSockets /\ dialled' = dialled + 1 /\ current' = dialled + 1 BY DEF Dial
<1>3. UNCHANGED <<down, closed, over, live, checking, attached, announced>>
  BY DEF Dial, sockets, registry, presence
<1>4. dialled' \in 0..MaxSockets /\ current' \in 0..dialled' /\ dialled + 1 \in Socket
      /\ 1..dialled \subseteq 1..dialled' /\ dialled + 1 \notin 1..dialled
  BY <1>1, <1>2 DEF Socket
<1>5. <<Says("auth", 0)>> \in Seq(Message) /\ up' = [up EXCEPT ![dialled + 1] = <<Says("auth", 0)>>]
  BY ThingsSaid DEF Dial
<1>6. /\ up' \in [Socket -> Seq(Message)] /\ up'[dialled + 1] = <<Says("auth", 0)>>
      /\ \A t \in Socket : t # dialled + 1 => up'[t] = up[t]
  BY <1>4, <1>5 DEF WireInv
<1>7. ASSUME NEW s \in Socket, s \in over' \/ s > dialled' PROVE up'[s] = <<>>
  <2>1. s # dialled + 1 BY <1>1, <1>2, <1>3, <1>4, <1>7 DEF Socket, WireInv
  <2>2. s \in over \/ s > dialled BY <1>1, <1>2, <1>3, <1>7 DEF Socket
  <2> QED BY <1>6, <2>1, <2>2 DEF WireInv
<1>8. ASSUME NEW s \in Socket PROVE AuthOnce(s)'
  <2>1. CASE s = dialled + 1
    <3>1. s \notin announced \cup checking BY <1>4, <2>1 DEF WireInv
    <3>2. Len(up'[s]) = 1 BY <1>6, <2>1
    <3> QED BY <1>3, <3>1, <3>2 DEF AuthOnce
  <2>2. CASE s # dialled + 1 BY <1>3, <1>6, <2>2 DEF AuthOnce, WireInv
  <2> QED BY <2>1, <2>2
<1>9. closed' \cup live' \cup checking' \cup announced' \subseteq 1..dialled' /\ over' \subseteq closed'
      /\ attached' \in announced' \cup {0} /\ live' \cap over' = {} /\ down' \in [Socket -> Seq(Message)]
  BY <1>3, <1>4 DEF WireInv
<1> QED BY <1>4, <1>6, <1>7, <1>8, <1>9 DEF WireInv

(* message(): the token is taken from the wire. *)
LEMMA IntroducedKeepsWires == ASSUME WireInv, NEW s \in Socket, Introduced(s) PROVE WireInv'
<1>1. /\ up[s] # <<>> /\ Head(up[s]).type = "auth" /\ up' = [up EXCEPT ![s] = Tail(up[s])]
      /\ live' = live \cup {s} /\ checking' = checking \cup {s}
      /\ UNCHANGED <<dialled, down, closed, over, attached, current, announced>>
  BY DEF Introduced, registry, presence
<1>2. up[s] \in Seq(Message) /\ up \in [Socket -> Seq(Message)] BY DEF WireInv
<1>3. /\ Tail(up[s]) \in Seq(Message) /\ Len(Tail(up[s])) = Len(up[s]) - 1 /\ Len(up[s]) \in Nat /\ Len(up[s]) > 0
      /\ \A i \in 1..Len(Tail(up[s])) : i + 1 \in 1..Len(up[s]) /\ Tail(up[s])[i] = up[s][i + 1]
      /\ Head(up[s]) = up[s][1]
  BY <1>1, <1>2, TailAt
<1>4. up' \in [Socket -> Seq(Message)] /\ up'[s] = Tail(up[s]) /\ \A t \in Socket : t # s => up'[t] = up[t]
  BY <1>1, <1>2, <1>3
<1>5. s \notin over /\ s \in 1..dialled BY <1>1, BoundsAssumption DEF WireInv, Socket
<1>6. ASSUME NEW t \in Socket, t \in over' \/ t > dialled' PROVE up'[t] = <<>>
  <2>1. t # s BY <1>1, <1>5, <1>6 DEF WireInv, Socket
  <2> QED BY <1>1, <1>4, <1>6, <2>1 DEF WireInv
<1>7. ASSUME NEW t \in Socket PROVE AuthOnce(t)'
  <2>1. CASE t # s BY <1>1, <1>4, <2>1 DEF WireInv, AuthOnce
  <2>2. CASE t = s
    <3>1. \A i \in 1..Len(up[s]) : up[s][i].type = "auth" => i = 1 BY DEF WireInv, AuthOnce
    <3>2. \A i \in 1..Len(up'[s]) : up'[s][i].type # "auth" BY <1>3, <1>4, <3>1
    <3> QED BY <2>2, <3>2 DEF AuthOnce
  <2> QED BY <2>1, <2>2
<1> QED BY <1>1, <1>4, <1>5, <1>6, <1>7 DEF WireInv

(* The rest of the steps take a message, send one down, or lose a socket.  *)
LEMMA TakesOne ==
  ASSUME WireInv, NEW s \in Socket, s \in 1..dialled \/ closed' = closed,
         UNCHANGED <<dialled, over, live, checking, announced>>,
         current' \in {0, current}, attached' \in {0, attached},
         down' \in [Socket -> Seq(Message)],
         up' = up \/ (up[s] # <<>> /\ up' = [up EXCEPT ![s] = Tail(@)]),
         closed \subseteq closed', closed' \subseteq closed \cup {s}
  PROVE  WireInv'
<1>1. over' \subseteq closed' BY DEF WireInv
<1> QED BY <1>1, WireTakes

(* Only the desktop is told something. *)
LEMMA SaysDown ==
  ASSUME WireInv, down' \in [Socket -> Seq(Message)],
         UNCHANGED <<dialled, up, closed, over, live, checking, announced, attached, current>>
  PROVE  WireInv'
BY DEF WireInv, AuthOnce

(* A socket that closes says no more. *)
LEMMA ClosesWires == ASSUME WireInv, NEW s \in Socket, Closes(s) \/ Sweep(s) PROVE WireInv'
<1>1. /\ UNCHANGED <<dialled, current, down, checking, announced>>
      /\ over' = over \cup {s} /\ up' = [up EXCEPT ![s] = <<>>] /\ Close(s)
      /\ s \in closed \cup live /\ closed' = closed \cup {s}
  BY DEF Closes, Sweep
<1>2. live' = live \ {s} /\ attached' \in {0, attached} BY <1>1 DEF Close, Detach
<1>3. s \in 1..dialled /\ over' \subseteq closed' /\ down' \in [Socket -> Seq(Message)]
  BY <1>1 DEF WireInv
<1> QED BY <1>1, <1>2, <1>3, WireTakes

(* attach(): the token was taken from the wire before. *)
LEMMA AuthenticatedKeepsWires == ASSUME WireInv, NEW s \in Socket, Authenticated(s) PROVE WireInv'
<1>1. /\ UNCHANGED <<dialled, current, down, up, over, live>>
      /\ s \in checking /\ checking' = checking \ {s} /\ announced' = announced \cup {s}
      /\ attached' = s /\ closed \subseteq closed' /\ closed' \subseteq closed \cup (1..dialled)
  BY DEF Authenticated, Attach, WireInv
<1> QED BY <1>1, WireKeeps DEF Wiring, WireInv

(* The app server dies: every wire is empty. *)
LEMMA CrashKeepsWires == ASSUME WireInv, Crash PROVE WireInv'
<1>1. /\ UNCHANGED <<dialled, current, down, announced>>
      /\ closed' = 1..dialled /\ over' = 1..dialled /\ live' = {} /\ checking' = {} /\ attached' = 0
      /\ up' = [s \in Socket |-> <<>>]
  BY DEF Crash
<1>2. up' \in [Socket -> Seq(Message)] /\ \A s \in Socket : up'[s] = <<>> BY <1>1, EmptySeq
<1>3. over \subseteq over' /\ over' \subseteq closed' /\ closed' \subseteq 1..dialled
      /\ live' \subseteq live \ over' /\ checking' \subseteq checking
      /\ announced' \subseteq announced \cup checking /\ attached' \in announced' \cup {0}
  BY <1>1 DEF WireInv
<1>4. down' \in [Socket -> Seq(Message)] BY <1>1 DEF WireInv
<1>5. over' \subseteq Socket
  <2>1. dialled \in 0..MaxSockets /\ MaxSockets \in Nat BY BoundsAssumption DEF WireInv
  <2> QED BY <1>1, <2>1 DEF Socket
<1> QED BY <1>1, <1>2, <1>3, <1>4, <1>5, WireKeeps DEF Wiring

(* Every step keeps it that a socket introduces itself once. *)
LEMMA WiresStay == ASSUME WireInv, [Next]_vars PROVE WireInv'
<1>1. /\ down \in [Socket -> Seq(Message)] /\ <<>> \in Seq(Message)
      /\ \A s \in Socket : down[s] # <<>> => Tail(down[s]) \in Seq(Message)
      /\ current # 0 => current \in Socket
      /\ \A s \in Socket : up[s] # <<>> \/ s \in checking \/ s <= dialled => s \in 1..dialled
  <2>1. dialled \in Nat /\ MaxSockets \in Nat BY BoundsAssumption DEF WireInv
  <2>2. \A s \in Socket : up[s] # <<>> \/ s \in checking \/ s <= dialled => s \in 1..dialled
    BY <2>1 DEF WireInv, Socket
  <2>3. current # 0 => current \in Socket BY <2>1 DEF WireInv, Socket
  <2>4. \A s \in Socket : down[s] # <<>> => Tail(down[s]) \in Seq(Message) BY TailAt DEF WireInv
  <2> QED BY <2>2, <2>3, <2>4, EmptySeq DEF WireInv
<1>2. CASE UNCHANGED vars
  <2>1. UNCHANGED <<dialled, current, attached, up, down, closed, over, live, checking, announced>> BY <1>2 DEF vars
  <2> QED BY <2>1, <1>1, SaysDown
<1>3. CASE Dial BY <1>3, DialKeepsWires
<1>4. CASE Crash BY <1>4, CrashKeepsWires
<1>5. CASE SweepRow \/ \E done \in BOOLEAN : Mutate(done)
  <2>1. UNCHANGED <<dialled, current, attached, up, down, closed, over, live, checking, announced>>
    BY <1>5 DEF SweepRow, Mutate, wires, sockets, registry
  <2> QED BY <2>1, <1>1, SaysDown
<1>6. CASE Hangs
  <2>1. /\ UNCHANGED <<dialled, up, closed, over, live, checking, announced, attached>> /\ current' = 0
        /\ down' = [down EXCEPT ![current] = <<>>]
    BY <1>6 DEF Hangs, sockets, registry, presence
  <2>2. down' \in [Socket -> Seq(Message)] BY <2>1, <1>1
  <2>3. Wiring BY <2>1, <2>2 DEF Wiring, WireInv
  <2> QED BY <2>3, WireKeeps
<1>7. CASE ToClose \/ \E o \in Open : ToOpen(o)
  <2>1. /\ UNCHANGED <<dialled, up, closed, over, live, checking, announced, attached, current>>
        /\ current # 0 /\ down[current] # <<>> /\ down' = [down EXCEPT ![current] = Tail(@)]
    BY <1>7 DEF ToClose, ToOpen, Told, sockets, registry, presence
  <2>2. down' \in [Socket -> Seq(Message)] BY <2>1, <1>1
  <2> QED BY <2>1, <2>2, SaysDown
<1>8. ASSUME NEW s \in Socket, Break(s) PROVE WireInv'
  <2>1. /\ UNCHANGED <<dialled, up, down, over, live, checking, announced, attached, current>>
        /\ s \in 1..dialled /\ closed' = closed \cup {s}
    BY <1>8, <1>1 DEF Break, sockets, registry, presence
  <2> QED BY <2>1, <1>1, TakesOne
<1>9. ASSUME NEW s \in Socket, Closes(s) \/ Sweep(s) PROVE WireInv' BY <1>9, ClosesWires
<1>10. ASSUME NEW s \in Socket, Introduced(s) PROVE WireInv' BY <1>10, IntroducedKeepsWires
<1>11. ASSUME NEW s \in Socket, TooEarly(s) PROVE WireInv'
  <2>1. /\ UNCHANGED <<dialled, down, over, live, checking, announced, attached, current>>
        /\ up[s] # <<>> /\ up' = [up EXCEPT ![s] = Tail(@)] /\ closed' = closed \cup {s}
    BY <1>11 DEF TooEarly, sockets, registry, presence
  <2> QED BY <2>1, <1>1, TakesOne
<1>12. ASSUME NEW s \in Socket, Authenticated(s) PROVE WireInv' BY <1>12, AuthenticatedKeepsWires
<1>13. ASSUME NEW s \in Socket, Rejected(s) PROVE WireInv'
  <2>1. /\ UNCHANGED <<dialled, down, up, over, live, announced, attached, current>>
        /\ s \in checking /\ checking' = checking \ {s} /\ closed' = closed \cup {s}
    BY <1>13 DEF Rejected, registry, presence
  <2>2. s \in 1..dialled BY <2>1, <1>1
  <2> QED BY <2>1, <2>2, WireKeeps DEF Wiring, WireInv
<1>14. ASSUME NEW s \in Socket, Exited(s) \/ \E o \in Open : Opened(s, o) \/ Refused(s, o) \/ Heard(s, o)
       PROVE  WireInv'
  <2>1. /\ UNCHANGED <<dialled, down, closed, over, live, checking, announced, attached, current>>
        /\ up[s] # <<>> /\ up' = [up EXCEPT ![s] = Tail(@)]
    BY <1>14 DEF Exited, Opened, Refused, Heard, Received, sockets, presence
  <2> QED BY <2>1, <1>1, TakesOne
<1>15. ASSUME NEW o \in Open, Ask(o) PROVE WireInv'
  <2>1. /\ UNCHANGED <<dialled, up, closed, over, live, checking, announced, attached, current>>
        /\ down' = SentDown(attached, Says("open", o))
    BY <1>15 DEF Ask, sockets, presence
  <2> QED BY <2>1, SaidDown, SaysDown, ThingsSaid
<1>16. ASSUME NEW o \in Open, Leave(o) \/ StopHost(o) PROVE WireInv'
  <2>1. /\ UNCHANGED <<dialled, up, closed, over, live, checking, announced, attached, current>>
        /\ down' = down \/ \E s : down' = SentDown(s, Says("close", 0))
    BY <1>16 DEF Leave, StopHost, sockets, presence
  <2> QED BY <2>1, <1>1, SaidDown, SaysDown, ThingsSaid
<1>17. ASSUME NEW o \in Open, TimeOut(o) \/ Start(o) \/ Dies(o) PROVE WireInv'
  <2>1. UNCHANGED <<dialled, current, attached, up, down, closed, over, live, checking, announced>>
    BY <1>17 DEF TimeOut, Start, Dies, wires, sockets, registry, presence
  <2> QED BY <2>1, <1>1, SaysDown
<1>18. ASSUME NEW o \in Open, Started(o) \/ DoesNotStart(o) \/ Exits(o) \/ Speaks(o) PROVE WireInv'
  <2>1. /\ UNCHANGED <<dialled, down, closed, sockets, attached, current, announced>>
        /\ \/ up' = SentUp(Says("opened", o)) \/ up' = SentUp(Says("refused", o))
           \/ up' = SentUp(Says("exited", 0)) \/ up' = SentUp(Says("rpc", o)) \/ up' = up
    BY <1>18 DEF Started, DoesNotStart, Exits, Speaks, registry, presence
  <2>2. CASE up' = up BY <2>1, <2>2, <1>1, SaysDown DEF sockets
  <2>3. ASSUME NEW m \in {Says("opened", o), Says("refused", o), Says("exited", 0), Says("rpc", o)},
               up' = SentUp(m)
        PROVE  WireInv'
    <3>1. m \in Message BY <2>3, ThingsSaid
    <3>2. m.type # "auth" BY <2>3 DEF Says
    <3> QED BY <2>1, <2>3, <3>1, <3>2, <1>1, WireSpeaks
  <2> QED BY <2>1, <2>2, <2>3
<1> QED BY <1>2, <1>3, <1>4, <1>5, <1>6, <1>7, <1>8, <1>9, <1>10, <1>11, <1>12, <1>13, <1>14, <1>15,
           <1>16, <1>17, <1>18 DEF Next

-----------------------------------------------------------------------------
(* The machine's row follows the connection.                               *)

Mutation == [type : {"attach", "detach"}, of : Socket]
Attaches(s) == [type |-> "attach", of |-> s]
Detaches(s) == [type |-> "detach", of |-> s]

(* Behind the i-th mutation of q another socket is attached, or s detached. *)
Superseded(q, i)   == \E j \in 1..Len(q) : j > i /\ q[j].type = "attach"
Withdrawn(q, i, s) == \E j \in 1..Len(q) : j > i /\ q[j].type = "detach" /\ q[j].of = s

(* Once no attachment is on its way, the row is the connection's, or will  *)
(* be given up.                                                            *)
RowTold ==
  /\ attached \in live \ unnoticed => row = [connection |-> attached, connected |-> TRUE]
  /\ row.connected /\ ~stale /\ unnoticed = {} =>
       row.connection = attached \/ Withdrawn(mutations, 0, row.connection)

(* The last attachment that is on its way is of the connection, unless it  *)
(* is lost and will be detached.                                           *)
LastAttaches(i) ==
  mutations[i].type = "attach" =>
    \/ Superseded(mutations, i)
    \/ /\ attached \in live => mutations[i].of = attached
       /\ \/ mutations[i].of = attached \/ mutations[i].of \in gone
          \/ Withdrawn(mutations, i, mutations[i].of)

RowInv ==
  /\ mutations \in Seq(Mutation) /\ row \in [connection : 0..MaxSockets, connected : BOOLEAN]
  /\ gone \subseteq announced \ live
  /\ \A i \in 1..Len(mutations) :
       /\ mutations[i].of \in announced
       /\ mutations[i].type = "detach" => mutations[i].of \notin live
       /\ LastAttaches(i)
  /\ Superseded(mutations, 0) \/ RowTold

(* A mutation is put behind those on their way. *)
LEMMA Enqueued ==
  ASSUME NEW q \in Seq(Mutation), NEW m \in Mutation, NEW r, r = Append(q, m)
  PROVE  /\ r \in Seq(Mutation) /\ Len(r) = Len(q) + 1 /\ Len(q) \in Nat /\ r[Len(r)] = m
         /\ \A i \in 1..Len(q) : r[i] = q[i]
         /\ \A i \in 0..Len(q) : Superseded(r, i) <=> Superseded(q, i) \/ m.type = "attach"
<1>1. /\ r \in Seq(Mutation) /\ Len(r) = Len(q) + 1 /\ Len(q) \in Nat /\ r[Len(r)] = m
      /\ \A i \in 1..Len(q) : r[i] = q[i]
  BY AppendAt
<1>2. 1..Len(r) = (1..Len(q)) \cup {Len(r)} /\ \A i \in 0..Len(q) : Len(r) > i BY <1>1
<1>3. \A i \in 0..Len(q) : Superseded(r, i) <=> Superseded(q, i) \/ m.type = "attach"
  BY <1>1, <1>2 DEF Superseded
<1> QED BY <1>1, <1>3

(* ... and withdraws a socket that every one before attaches. *)
LEMMA EnqueuedDetach ==
  ASSUME NEW q \in Seq(Mutation), NEW t \in Socket, NEW r, r = Append(q, Detaches(t)),
         NEW i \in 0..Len(q), NEW s
  PROVE  Withdrawn(r, i, s) <=> Withdrawn(q, i, s) \/ s = t
<1>1. Detaches(t) \in Mutation /\ Detaches(t).type = "detach" /\ Detaches(t).of = t
  BY DEF Mutation, Detaches
<1>2. /\ Len(r) = Len(q) + 1 /\ Len(q) \in Nat /\ r[Len(r)] = Detaches(t)
      /\ \A j \in 1..Len(q) : r[j] = q[j]
  BY <1>1, Enqueued
<1>3. 1..Len(r) = (1..Len(q)) \cup {Len(r)} /\ Len(r) > i BY <1>2
<1> QED BY <1>1, <1>2, <1>3 DEF Withdrawn

(* The first mutation is taken. *)
LEMMA Dequeued ==
  ASSUME NEW q \in Seq(Mutation), q # <<>>, NEW r, r = Tail(q)
  PROVE  /\ r \in Seq(Mutation) /\ Len(r) \in Nat /\ Len(q) = Len(r) + 1
         /\ Head(q) = q[1] /\ q[1] \in Mutation /\ 1 \in 1..Len(q)
         /\ \A i \in 1..Len(r) : i + 1 \in 1..Len(q) /\ r[i] = q[i + 1]
         /\ \A i \in 0..Len(r) : Superseded(r, i) <=> Superseded(q, i + 1)
         /\ Superseded(q, 0) <=> Superseded(r, 0) \/ q[1].type = "attach"
<1>1. /\ r \in Seq(Mutation) /\ Len(r) \in Nat /\ Len(q) = Len(r) + 1
      /\ Head(q) = q[1] /\ q[1] \in Mutation /\ 1 \in 1..Len(q)
      /\ \A i \in 1..Len(r) : i + 1 \in 1..Len(q) /\ r[i] = q[i + 1]
  BY TailAt
<1>2. \A j \in 1..Len(q) : j > 1 => j - 1 \in 1..Len(r) /\ r[j - 1] = q[j] BY <1>1
<1>3. \A i \in 0..Len(r) : Superseded(r, i) <=> Superseded(q, i + 1)
  <2> SUFFICES ASSUME NEW i \in 0..Len(r) PROVE Superseded(r, i) <=> Superseded(q, i + 1) OBVIOUS
  <2>1. ASSUME Superseded(r, i) PROVE Superseded(q, i + 1) BY <1>1, <2>1 DEF Superseded
  <2>2. ASSUME Superseded(q, i + 1) PROVE Superseded(r, i)
    <3>1. PICK j \in 1..Len(q) : j > i + 1 /\ q[j].type = "attach" BY <2>2 DEF Superseded
    <3>2. j - 1 \in 1..Len(r) /\ j - 1 > i /\ r[j - 1].type = "attach" BY <1>1, <1>2, <3>1
    <3> QED BY <3>2 DEF Superseded
  <2> QED BY <2>1, <2>2
<1>4. \A j \in 1..Len(q) : j > 0 /\ (j > 1 \/ j = 1) BY <1>1
<1>5. Superseded(q, 0) <=> Superseded(q, 1) \/ q[1].type = "attach" BY <1>1, <1>4 DEF Superseded
<1>6. Superseded(r, 0) <=> Superseded(q, 1) BY <1>1, <1>3
<1> QED BY <1>1, <1>3, <1>5, <1>6

(* ... and withdraws no other socket than its own. *)
LEMMA DequeuedDetach ==
  ASSUME NEW q \in Seq(Mutation), q # <<>>, NEW r, r = Tail(q), NEW i \in 0..Len(r), NEW s
  PROVE  /\ Withdrawn(r, i, s) <=> Withdrawn(q, i + 1, s)
         /\ Withdrawn(q, 0, s) => Withdrawn(r, 0, s) \/ (q[1].type = "detach" /\ q[1].of = s)
<1>1. /\ Len(r) \in Nat /\ Len(q) = Len(r) + 1
      /\ \A k \in 1..Len(r) : k + 1 \in 1..Len(q) /\ r[k] = q[k + 1]
  BY TailAt
<1>2. \A j \in 1..Len(q) : j > 1 => j - 1 \in 1..Len(r) /\ r[j - 1] = q[j] BY <1>1
<1>3. ASSUME Withdrawn(r, i, s) PROVE Withdrawn(q, i + 1, s) BY <1>1, <1>3 DEF Withdrawn
<1>4. ASSUME NEW k \in 0..Len(r), Withdrawn(q, k + 1, s) PROVE Withdrawn(r, k, s)
  <2>1. PICK j \in 1..Len(q) : j > k + 1 /\ q[j].type = "detach" /\ q[j].of = s BY <1>4 DEF Withdrawn
  <2>2. j - 1 \in 1..Len(r) /\ j - 1 > k /\ r[j - 1].type = "detach" /\ r[j - 1].of = s
    BY <1>1, <1>2, <2>1
  <2> QED BY <2>2 DEF Withdrawn
<1>5. ASSUME Withdrawn(q, 0, s) PROVE Withdrawn(r, 0, s) \/ (q[1].type = "detach" /\ q[1].of = s)
  <2>1. PICK j \in 1..Len(q) : q[j].type = "detach" /\ q[j].of = s BY <1>5 DEF Withdrawn
  <2>2. CASE j = 1 BY <2>1, <2>2
  <2>3. CASE j # 1
    <3>1. Withdrawn(q, 0 + 1, s) BY <1>1, <2>1, <2>3 DEF Withdrawn
    <3> QED BY <1>1, <1>4, <3>1
  <2> QED BY <2>2, <2>3
<1> QED BY <1>3, <1>4, <1>5

(* The steps that leave the row and the connection alone. *)
LEMMA RowElsewhere ==
  ASSUME RowInv, UNCHANGED <<mutations, row, gone, attached, live, unnoticed, stale, announced>>
  PROVE  RowInv'
BY DEF RowInv, RowTold, LastAttaches, Superseded, Withdrawn, Detaches

(* message(): what introduces itself was never announced. *)
LEMMA IntroducedKeepsRow == ASSUME WireInv, RowInv, NEW s \in Socket, Introduced(s) PROVE RowInv'
<1>1. /\ up[s] # <<>> /\ Head(up[s]).type = "auth" /\ live' = live \cup {s}
      /\ UNCHANGED <<mutations, row, gone, attached, unnoticed, stale, announced>>
  BY DEF Introduced, registry, presence
<1>2. s \notin announced
  <2>1. up[s] \in Seq(Message) /\ AuthOnce(s) BY DEF WireInv
  <2>2. Head(up[s]) = up[s][1] /\ 1 \in 1..Len(up[s]) BY <1>1, <2>1, TailAt
  <2> QED BY <1>1, <2>1, <2>2 DEF AuthOnce
<1>3. attached # s BY <1>2, Bounds DEF WireInv
<1>4. \A i \in 1..Len(mutations) : mutations[i].of # s BY <1>2 DEF RowInv
<1>5. RowTold => RowTold' BY <1>1, <1>3 DEF RowTold, Withdrawn, Detaches
<1>6. \A i \in 1..Len(mutations) : LastAttaches(i)'
  BY <1>1, <1>3 DEF RowInv, LastAttaches, Superseded, Withdrawn, Detaches
<1>7. Superseded(mutations, 0)' <=> Superseded(mutations, 0) BY <1>1 DEF Superseded
<1> QED BY <1>1, <1>2, <1>4, <1>5, <1>6, <1>7 DEF RowInv

(* close(): what was announced is given up, once it is. *)
LEMMA CloseKeepsRow ==
  ASSUME WireInv, RowInv, NEW s \in Socket, Close(s), UNCHANGED <<row, unnoticed, stale, announced>>
  PROVE  RowInv'
<1>1. CASE s \notin live
  <2>1. live' = live /\ UNCHANGED <<attached, mutations, gone>> BY <1>1 DEF Close
  <2> QED BY <2>1, RowElsewhere
<1>2. CASE s \in live
  <2>1. live' = live \ {s} /\ (IF attached = s THEN attached' = 0 ELSE attached' = attached)
    BY <1>2 DEF Close, Detach
  <2>2. live' \subseteq live /\ 0 \notin live /\ (attached' \in live' => attached' = attached /\ attached \in live)
    BY <2>1, Bounds, BoundsAssumption DEF WireInv
  <2>3. mutations \in Seq(Mutation) /\ Len(mutations) \in Nat BY LenProperties DEF RowInv
  <2>4. CASE s \notin announced
    <3>1. attached # s BY <2>4, Bounds DEF WireInv
    <3>2. UNCHANGED <<attached, mutations, gone>> BY <1>2, <2>1, <2>4, <3>1 DEF Close
    <3>3. \A i \in 1..Len(mutations) : LastAttaches(i)'
      BY <2>2, <3>2 DEF RowInv, LastAttaches, Superseded, Withdrawn, Detaches
    <3>4. RowTold => RowTold' BY <2>2, <3>2 DEF RowTold, Withdrawn, Detaches
    <3>5. gone' \subseteq announced' \ live' BY <2>1, <3>2 DEF RowInv
    <3> QED BY <2>2, <3>2, <3>3, <3>4, <3>5 DEF RowInv, Superseded
  <2>5. CASE s \in announced /\ \E i \in DOMAIN mutations : mutations[i] = Attaches(s)
    <3>1. gone' = gone \cup {s} /\ mutations' = mutations BY <1>2, <2>5 DEF Close, Attaches
    <3>2. DOMAIN mutations = 1..Len(mutations) BY <2>3, LenProperties
    <3>3. Superseded(mutations, 0)'
      <4>1. PICK i \in 1..Len(mutations) : mutations[i] = Attaches(s) BY <2>5, <3>2
      <4>2. i > 0 /\ mutations[i].type = "attach" BY <4>1, <2>3 DEF Attaches
      <4> QED BY <3>1, <4>2 DEF Superseded
    <3>4. ASSUME NEW i \in 1..Len(mutations) PROVE LastAttaches(i)'
      <4>1. LastAttaches(i) BY DEF RowInv
      <4>2. attached' # attached => attached = s BY <2>1
      <4> QED BY <2>2, <3>1, <4>1, <4>2 DEF LastAttaches, Superseded, Withdrawn, Detaches
    <3>5. gone' \subseteq announced' \ live' BY <2>1, <2>5, <3>1 DEF RowInv
    <3> QED BY <2>2, <3>1, <3>3, <3>4, <3>5 DEF RowInv
  <2>6. CASE s \in announced /\ ~\E i \in DOMAIN mutations : mutations[i] = Attaches(s)
    <3>1. gone' = gone /\ mutations' = Append(mutations, Detaches(s)) BY <1>2, <2>6 DEF Close, Attaches, Detaches
    <3>2. Detaches(s) \in Mutation /\ Detaches(s).type = "detach" /\ Detaches(s).of = s
      BY DEF Mutation, Detaches
    <3>3. /\ mutations' \in Seq(Mutation) /\ Len(mutations') = Len(mutations) + 1 /\ mutations'[Len(mutations')] = Detaches(s)
          /\ \A i \in 1..Len(mutations) : mutations'[i] = mutations[i]
          /\ \A i \in 0..Len(mutations) : Superseded(mutations', i) <=> Superseded(mutations, i)
      <4>1. /\ mutations' \in Seq(Mutation) /\ Len(mutations') = Len(mutations) + 1 /\ mutations'[Len(mutations')] = Detaches(s)
            /\ \A i \in 1..Len(mutations) : mutations'[i] = mutations[i]
        BY <2>3, <3>1, <3>2, Enqueued
      <4>2. \A i \in 0..Len(mutations) : Superseded(mutations', i) <=> Superseded(mutations, i) \/ Detaches(s).type = "attach"
        BY <2>3, <3>1, <3>2, Enqueued
      <4> QED BY <4>1, <4>2, <3>2
    <3>4. \A i \in 0..Len(mutations) : \A t : Withdrawn(mutations, i, t) \/ t = s => Withdrawn(mutations', i, t)
      BY <2>3, <3>1, EnqueuedDetach
    <3>5. 1..Len(mutations') = (1..Len(mutations)) \cup {Len(mutations')} /\ 1..Len(mutations) \subseteq 0..Len(mutations)
      BY <2>3, <3>3
    <3>6. ASSUME NEW i \in 1..Len(mutations) PROVE LastAttaches(i)'
      <4>1. LastAttaches(i) BY DEF RowInv
      <4>2. attached' # attached => attached = s BY <2>1
      <4> QED BY <2>2, <3>1, <3>3, <3>5, <3>4, <4>1, <4>2 DEF LastAttaches
    <3>7. ASSUME NEW i, i = Len(mutations') PROVE LastAttaches(i)' BY <3>2, <3>3, <3>7 DEF LastAttaches
    <3>8. RowTold => RowTold'
      <4>1. 0 \in 0..Len(mutations) BY <2>3
      <4>2. attached' # attached => attached = s BY <2>1
      <4> QED BY <2>2, <3>4, <4>1, <4>2 DEF RowTold
    <3>9. gone' \subseteq announced' \ live' BY <2>1, <3>1 DEF RowInv
    <3>10. 0 \in 0..Len(mutations) BY <2>3
    <3>11. \A i \in 1..Len(mutations') : mutations'[i].of \in announced' /\ (mutations'[i].type = "detach" => mutations'[i].of \notin live')
      BY <2>1, <2>6, <3>2, <3>3, <3>5 DEF RowInv
    <3> QED BY <3>3, <3>5, <3>6, <3>7, <3>8, <3>9, <3>10, <3>11 DEF RowInv
  <2> QED BY <2>4, <2>5, <2>6
<1> QED BY <1>1, <1>2

(* attach() and announce(): the socket's mutation is the last on its way.  *)
LEMMA AuthenticatedKeepsRow == ASSUME WireInv, RowInv, NEW s \in Socket, Authenticated(s) PROVE RowInv'
<1>1. /\ attached' = s /\ announced' = announced \cup {s} /\ mutations' = Append(mutations, Attaches(s))
      /\ UNCHANGED <<live, row, gone, unnoticed, stale>> /\ s \in checking
  BY DEF Authenticated, Attach, Attaches
<1>2. Attaches(s) \in Mutation /\ Attaches(s).type = "attach" /\ Attaches(s).of = s BY DEF Mutation, Attaches
<1>3. /\ mutations' \in Seq(Mutation) /\ Len(mutations') = Len(mutations) + 1 /\ Len(mutations) \in Nat
      /\ mutations'[Len(mutations')] = Attaches(s)
      /\ \A i \in 1..Len(mutations) : mutations'[i] = mutations[i]
  BY <1>1, <1>2, Enqueued DEF RowInv
<1>4. \A i \in 0..Len(mutations) : Superseded(mutations', i) <=> Superseded(mutations, i) \/ Attaches(s).type = "attach"
  BY <1>1, <1>2, Enqueued DEF RowInv
<1>5. \A i \in 0..Len(mutations) : Superseded(mutations', i) BY <1>2, <1>4
<1>6. ASSUME NEW i \in 1..Len(mutations')
      PROVE  /\ mutations'[i].of \in announced'
             /\ mutations'[i].type = "detach" => mutations'[i].of \notin live'
             /\ LastAttaches(i)'
  <2>1. CASE i = Len(mutations')
    <3>1. mutations'[i] = Attaches(s) BY <1>3, <2>1
    <3>2. s \in announced' BY <1>1
    <3>3. LastAttaches(i)' BY <1>1, <1>2, <3>1 DEF LastAttaches
    <3> QED BY <1>2, <3>1, <3>2, <3>3
  <2>2. CASE i # Len(mutations')
    <3>1. i \in 1..Len(mutations) BY <1>3, <2>2
    <3>2. LastAttaches(i)' BY <1>3, <1>5, <3>1 DEF LastAttaches
    <3> QED BY <1>1, <1>3, <3>1, <3>2 DEF RowInv
  <2> QED BY <2>1, <2>2
<1>7. 0 \in 0..Len(mutations) BY <1>3
<1> QED BY <1>1, <1>3, <1>5, <1>6, <1>7 DEF RowInv

(* A mutation is done, or fails: what is left of the queue is still so.    *)
LEMMA MutateTakes ==
  ASSUME RowInv, NEW done, Mutate(done)
  PROVE  /\ mutations # <<>> /\ First = mutations[1] /\ First \in Mutation
         /\ UNCHANGED <<attached, live, announced>>
         /\ \/ mutations' = Tail(mutations) /\ gone' = gone
               /\ ~(First.type = "attach" /\ First.of \in gone)
            \/ mutations' = Append(Tail(mutations), Detaches(First.of)) /\ gone' = gone \ {First.of}
               /\ First.type = "attach" /\ First.of \in gone
<1>1. mutations # <<>> /\ UNCHANGED <<attached, live, announced>> BY DEF Mutate, sockets, registry
<1>2. First = mutations[1] /\ First \in Mutation BY <1>1, Dequeued DEF First, RowInv
<1> QED BY <1>1, <1>2 DEF Mutate, Detaches

(* ... of each attachment that is left, *)
LEMMA MutateKeepsLast ==
  ASSUME RowInv, NEW done, Mutate(done)
  PROVE  /\ mutations' \in Seq(Mutation) /\ gone' \subseteq announced' \ live'
         /\ \A i \in 1..Len(mutations') :
              /\ mutations'[i].of \in announced'
              /\ mutations'[i].type = "detach" => mutations'[i].of \notin live'
              /\ LastAttaches(i)'
         /\ Superseded(mutations, 0) <=> Superseded(mutations', 0) \/ First.type = "attach"
         /\ \A s : Withdrawn(mutations, 0, s) => Withdrawn(mutations', 0, s) \/ (First.type = "detach" /\ First.of = s)
         /\ First.type = "attach" /\ First.of \in gone => Withdrawn(mutations', 0, First.of)
         /\ Superseded(mutations, 1) => Superseded(mutations', 0)
         /\ \A s : Withdrawn(mutations, 1, s) => Withdrawn(mutations', 0, s)
<1> DEFINE r == Tail(mutations)
<1>1. /\ r \in Seq(Mutation) /\ Len(r) \in Nat /\ Len(mutations) = Len(r) + 1
      /\ First = mutations[1] /\ 1 \in 1..Len(mutations)
      /\ \A i \in 1..Len(r) : i + 1 \in 1..Len(mutations) /\ r[i] = mutations[i + 1]
      /\ \A i \in 0..Len(r) : Superseded(r, i) <=> Superseded(mutations, i + 1)
      /\ Superseded(mutations, 0) <=> Superseded(r, 0) \/ mutations[1].type = "attach"
  BY MutateTakes, Dequeued DEF RowInv
<1>2. \A i \in 0..Len(r) : \A s : Withdrawn(mutations, i + 1, s) => Withdrawn(r, i, s)
  BY MutateTakes, DequeuedDetach DEF RowInv
<1>3. \A s : Withdrawn(mutations, 0, s) => Withdrawn(r, 0, s) \/ (mutations[1].type = "detach" /\ mutations[1].of = s)
  <2>1. 0 \in 0..Len(r) BY <1>1
  <2> QED BY <2>1, MutateTakes, DequeuedDetach DEF RowInv
<1> HIDE DEF r
<1>4. /\ Superseded(mutations, 1) => Superseded(r, 0)
      /\ \A s : Withdrawn(mutations, 1, s) => Withdrawn(r, 0, s)
  <2>1. 0 \in 0..Len(r) /\ 0 + 1 = 1 BY <1>1
  <2> QED BY <1>1, <1>2, <2>1
<1>5. UNCHANGED <<attached, live, announced>> BY MutateTakes
<1>6. \A i \in 1..Len(r) : i \in 0..Len(r) BY <1>1
<1>7. CASE mutations' = r /\ gone' = gone /\ ~(First.type = "attach" /\ First.of \in gone)
  <2>1. ASSUME NEW i \in 1..Len(r) PROVE LastAttaches(i)'
    <3>1. LastAttaches(i + 1) BY <1>1 DEF RowInv
    <3> QED BY <1>1, <1>2, <1>5, <1>6, <1>7, <3>1 DEF LastAttaches
  <2>2. \A i \in 1..Len(r) : r[i].of \in announced /\ (r[i].type = "detach" => r[i].of \notin live)
    BY <1>1 DEF RowInv
  <2> QED BY <1>1, <1>3, <1>5, <1>7, <1>4, <2>1, <2>2 DEF RowInv
<1>8. CASE /\ mutations' = Append(r, Detaches(First.of)) /\ gone' = gone \ {First.of}
           /\ First.type = "attach" /\ First.of \in gone
  <2>1. First.of \in Socket BY MutateTakes DEF Mutation
  <2>2. Detaches(First.of) \in Mutation /\ Detaches(First.of).type = "detach" /\ Detaches(First.of).of = First.of
    BY <2>1 DEF Mutation, Detaches
  <2>3. /\ mutations' \in Seq(Mutation) /\ Len(mutations') = Len(r) + 1 /\ mutations'[Len(mutations')] = Detaches(First.of)
        /\ \A i \in 1..Len(r) : mutations'[i] = r[i]
        /\ \A i \in 0..Len(r) : Superseded(mutations', i) <=> Superseded(r, i) \/ Detaches(First.of).type = "attach"
    <3> DEFINE m == Detaches(First.of)
    <3>1. m \in Mutation /\ mutations' = Append(r, m) BY <1>8, <2>2
    <3> HIDE DEF m
    <3>2. /\ mutations' \in Seq(Mutation) /\ Len(mutations') = Len(r) + 1 /\ mutations'[Len(mutations')] = m
          /\ \A i \in 1..Len(r) : mutations'[i] = r[i]
      BY <1>1, <3>1, Enqueued
    <3>3. \A i \in 0..Len(r) : Superseded(mutations', i) <=> Superseded(r, i) \/ m.type = "attach"
      BY <1>1, <3>1, Enqueued
    <3> QED BY <3>2, <3>3 DEF m
  <2>4. \A i \in 0..Len(r) : Superseded(mutations', i) <=> Superseded(r, i) BY <2>2, <2>3
  <2>5. \A i \in 0..Len(r) : \A s : Withdrawn(r, i, s) \/ s = First.of => Withdrawn(mutations', i, s)
    <3> DEFINE t == First.of
    <3>1. t \in Socket /\ mutations' = Append(r, Detaches(t)) BY <1>8, <2>1
    <3> HIDE DEF t
    <3>2. \A i \in 0..Len(r) : \A s : Withdrawn(r, i, s) \/ s = t => Withdrawn(mutations', i, s)
      BY <1>1, <3>1, EnqueuedDetach
    <3> QED BY <3>2 DEF t
  <2>6. First.of \notin live /\ First.of \in announced BY <1>8 DEF RowInv
  <2>7. ASSUME NEW i \in 1..Len(mutations')
        PROVE  /\ mutations'[i].of \in announced'
               /\ mutations'[i].type = "detach" => mutations'[i].of \notin live'
               /\ LastAttaches(i)'
    <3>1. CASE i = Len(mutations')
      <4>1. mutations'[i] = Detaches(First.of) BY <2>3, <3>1
      <4> QED BY <1>5, <2>2, <2>6, <4>1 DEF LastAttaches
    <3>2. CASE i # Len(mutations')
      <4>1. i \in 1..Len(r) /\ i \in 0..Len(r) /\ mutations'[i] = mutations[i + 1] BY <1>1, <1>6, <2>3, <3>2
      <4>2. LastAttaches(i + 1) BY <1>1, <4>1 DEF RowInv
      <4>3. LastAttaches(i)' BY <1>1, <1>2, <1>5, <1>8, <2>4, <2>5, <4>1, <4>2 DEF LastAttaches
      <4> QED BY <1>1, <1>5, <4>1, <4>3 DEF RowInv
    <3> QED BY <3>1, <3>2
  <2>8. 0 \in 0..Len(r) BY <1>1
  <2>9. gone' \subseteq announced' \ live' BY <1>5, <1>8 DEF RowInv
  <2> QED BY <1>1, <1>3, <1>8, <1>4, <2>3, <2>4, <2>5, <2>7, <2>8, <2>9
<1> QED BY <1>7, <1>8, MutateTakes DEF r

(* ... and of the row. *)
LEMMA MutateKeepsRow == ASSUME WireInv, RowInv, NEW done \in BOOLEAN, Mutate(done) PROVE RowInv'
<1>1. /\ First = mutations[1] /\ First \in Mutation /\ 1 \in 1..Len(mutations)
      /\ UNCHANGED <<attached, live, announced>>
  BY MutateTakes, Dequeued DEF RowInv
<1>2. /\ row' = IF done THEN Written ELSE row
      /\ unnoticed' = IF ~done /\ First.type = "attach" THEN unnoticed \cup {First.of} ELSE unnoticed
      /\ stale' = IF done /\ First.type = "attach" THEN FALSE
                  ELSE stale \/ (~done /\ row = [connection |-> First.of, connected |-> TRUE])
  BY DEF Mutate
<1>3. /\ Superseded(mutations, 0) <=> Superseded(mutations', 0) \/ First.type = "attach"
      /\ \A s : Withdrawn(mutations, 0, s) => Withdrawn(mutations', 0, s) \/ (First.type = "detach" /\ First.of = s)
      /\ First.type = "attach" /\ First.of \in gone => Withdrawn(mutations', 0, First.of)
  BY MutateKeepsLast
<1>4. row' \in [connection : 0..MaxSockets, connected : BOOLEAN]
  BY <1>1, <1>2, Bounds DEF Written, RowInv, Mutation
<1>5. CASE Superseded(mutations', 0) BY <1>4, <1>5, MutateKeepsLast DEF RowInv
<1>6. ASSUME ~Superseded(mutations', 0) PROVE RowTold'
  <2>1. CASE First.type = "attach"
    <3>1. ~Superseded(mutations, 1) BY <1>6, MutateKeepsLast
    <3>2. /\ attached \in live => First.of = attached
          /\ First.of = attached \/ First.of \in gone \/ Withdrawn(mutations, 1, First.of)
      BY <1>1, <2>1, <3>1 DEF RowInv, LastAttaches
    <3>3. Withdrawn(mutations, 1, First.of) => Withdrawn(mutations', 0, First.of) BY MutateKeepsLast
    <3>4. CASE done
      <4>1. row' = [connection |-> First.of, connected |-> TRUE] /\ unnoticed' = unnoticed
        BY <1>2, <2>1, <3>4 DEF Written
      <4> QED BY <1>1, <1>3, <2>1, <3>2, <3>3, <4>1 DEF RowTold
    <3>5. CASE ~done
      <4>1. First.of \in unnoticed' /\ unnoticed \subseteq unnoticed' BY <1>2, <2>1, <3>5
      <4> QED BY <1>1, <3>2, <4>1 DEF RowTold
    <3> QED BY <3>4, <3>5
  <2>2. CASE First.type # "attach"
    <3>1. RowTold BY <1>3, <1>6, <2>2 DEF RowInv
    <3>2. First.type = "detach" /\ First.of \notin live /\ unnoticed' = unnoticed
      BY <1>1, <1>2, <2>2 DEF RowInv, Mutation
    <3>3. CASE done /\ row.connection = First.of
      <4>1. row' = [row EXCEPT !.connected = FALSE] BY <1>2, <2>2, <3>3 DEF Written
      <4>2. ~row'.connected BY <4>1 DEF RowInv
      <4>3. attached \notin live \ unnoticed BY <3>1, <3>2, <3>3 DEF RowTold
      <4> QED BY <1>1, <3>2, <4>2, <4>3 DEF RowTold
    <3>4. CASE ~done /\ row = [connection |-> First.of, connected |-> TRUE]
      <4>1. stale' = TRUE BY <1>2, <3>4
      <4>2. row' = row BY <1>2, <3>4
      <4> QED BY <1>1, <3>1, <3>2, <4>1, <4>2 DEF RowTold
    <3>5. CASE ~(done /\ row.connection = First.of) /\ ~(~done /\ row = [connection |-> First.of, connected |-> TRUE])
      <4>1. row' = row BY <1>2, <2>2, <3>5 DEF Written
      <4>2. ~stale' => ~stale BY <1>2, <2>2
      <4>3. row.connected => row.connection # First.of BY <3>5 DEF RowInv
      <4> QED BY <1>1, <1>3, <3>1, <3>2, <4>1, <4>2, <4>3 DEF RowTold
    <3> QED BY <3>3, <3>4, <3>5
  <2> QED BY <2>1, <2>2
<1> QED BY <1>4, <1>5, <1>6, MutateKeepsLast DEF RowInv

(* desktops.sweep: a row is given up that is nobody's. *)
LEMMA SweepRowKeeps == ASSUME WireInv, RowInv, SweepRow PROVE RowInv'
<1>1. /\ row' = [row EXCEPT !.connected = FALSE] /\ row.connection \notin live
      /\ UNCHANGED <<mutations, attached, live, unnoticed, announced, gone>>
  BY DEF SweepRow, sockets, registry
<1>2. row' \in [connection : 0..MaxSockets, connected : BOOLEAN] /\ ~row'.connected BY <1>1 DEF RowInv
<1>3. RowTold => RowTold' BY <1>1, <1>2 DEF RowTold
<1>4. \A i \in 1..Len(mutations) : LastAttaches(i) => LastAttaches(i)' BY <1>1 DEF LastAttaches, Superseded, Withdrawn
<1>5. Superseded(mutations, 0)' <=> Superseded(mutations, 0) BY <1>1 DEF Superseded
<1> QED BY <1>1, <1>2, <1>3, <1>4, <1>5 DEF RowInv

(* A crash forgets what was to be written, and leaves the row. *)
LEMMA CrashKeepsRow == ASSUME WireInv, RowInv, Crash PROVE RowInv'
<1>1. mutations' = <<>> /\ row' = row /\ stale' = row.connected /\ live' = {} /\ gone' = {} /\ attached' = 0
  BY DEF Crash
<1>2. mutations' \in Seq(Mutation) /\ Len(mutations') = 0 BY <1>1, EmptySeq
<1>3. \A i \in 1..Len(mutations') : FALSE BY <1>2
<1>4. RowTold' BY <1>1 DEF RowTold, RowInv
<1> QED BY <1>1, <1>2, <1>3, <1>4 DEF RowInv

(* Every step keeps the row told. *)
LEMMA RowStays == ASSUME WireInv, RowInv, [Next]_vars PROVE RowInv'
<1>1. CASE UNCHANGED vars BY <1>1, RowElsewhere DEF vars
<1>2. CASE Dial \/ Hangs \/ ToClose
  BY <1>2, RowElsewhere DEF Dial, Hangs, ToClose, Told, sockets, registry, presence
<1>3. CASE SweepRow BY <1>3, SweepRowKeeps
<1>4. CASE Crash BY <1>4, CrashKeepsRow
<1>5. ASSUME NEW s \in Socket, Break(s) \/ TooEarly(s) \/ Rejected(s) PROVE RowInv'
  BY <1>5, RowElsewhere DEF Break, TooEarly, Rejected, sockets, registry, presence
<1>6. ASSUME NEW s \in Socket, Introduced(s) PROVE RowInv' BY <1>6, IntroducedKeepsRow
<1>7. ASSUME NEW s \in Socket, Closes(s) \/ Sweep(s) PROVE RowInv'
  BY <1>7, CloseKeepsRow DEF Closes, Sweep
<1>8. ASSUME NEW s \in Socket, Authenticated(s) PROVE RowInv' BY <1>8, AuthenticatedKeepsRow
<1>9. ASSUME NEW s \in Socket, Exited(s) \/ \E o \in Open : Opened(s, o) \/ Refused(s, o) \/ Heard(s, o)
      PROVE  RowInv'
  <2>1. \E m : Received(s, m) BY <1>9 DEF Exited, Opened, Refused, Heard
  <2> QED BY <2>1, RowElsewhere DEF Received, sockets, presence
<1>10. ASSUME NEW o \in Open, Ask(o) \/ TimeOut(o) \/ Leave(o) \/ StopHost(o) PROVE RowInv'
  BY <1>10, RowElsewhere DEF Ask, TimeOut, Leave, StopHost, sockets, presence
<1>11. ASSUME NEW o \in Open,
              ToOpen(o) \/ Start(o) \/ Started(o) \/ DoesNotStart(o) \/ Dies(o) \/ Exits(o) \/ Speaks(o)
       PROVE  RowInv'
  BY <1>11, RowElsewhere
  DEF ToOpen, Told, Start, Started, DoesNotStart, Dies, Exits, Speaks, sockets, registry, presence
<1>12. ASSUME NEW done \in BOOLEAN, Mutate(done) PROVE RowInv' BY <1>12, MutateKeepsRow
<1> QED BY <1>1, <1>2, <1>3, <1>4, <1>5, <1>6, <1>7, <1>8, <1>9, <1>10, <1>11, <1>12 DEF Next

(* No socket is dialled at first. *)
LEMMA WireStarts == Init => WireInv
<1> SUFFICES ASSUME Init PROVE WireInv OBVIOUS
<1>1. /\ dialled = 0 /\ down = [s \in Socket |-> <<>>] /\ up = [s \in Socket |-> <<>>]
      /\ closed = {} /\ over = {} /\ live = {} /\ checking = {} /\ attached = 0 /\ current = 0 /\ announced = {}
  BY DEF Init
<1>2. down \in [Socket -> Seq(Message)] /\ up \in [Socket -> Seq(Message)] /\ \A s \in Socket : Len(up[s]) = 0
  BY <1>1, EmptySeq
<1> QED BY <1>1, <1>2, Bounds DEF WireInv, AuthOnce

(* The user is shown the machine as connected exactly when it is: however  *)
(* sockets replace each other while they are announced and withdrawn       *)
(* (presence.ts:9, desktops.ts:46).                                        *)
THEOREM MachineShown == Spec => []PresenceTrue
<1>1. Init => RowInv
  <2> SUFFICES ASSUME Init PROVE RowInv OBVIOUS
  <2>1. /\ live = {} /\ attached = 0 /\ mutations = <<>> /\ announced = {} /\ gone = {}
        /\ row = [connection |-> 0, connected |-> FALSE]
    BY DEF Init
  <2>2. mutations \in Seq(Mutation) /\ Len(mutations) = 0 BY <2>1, EmptySeq
  <2>3. \A i \in 1..Len(mutations) : FALSE BY <2>2
  <2> QED BY <2>1, <2>2, <2>3, Bounds DEF RowInv, RowTold
<1>2. WireInv /\ RowInv /\ [Next]_vars => (WireInv /\ RowInv)' BY WiresStay, RowStays
<1>3. WireInv /\ RowInv => PresenceTrue
  <2> SUFFICES ASSUME RowInv, mutations = <<>>
               PROVE  /\ attached \in live \ unnoticed => row = [connection |-> attached, connected |-> TRUE]
                      /\ row.connected /\ ~stale /\ unnoticed = {} => row.connection = attached
    BY DEF PresenceTrue
  <2>1. \A i \in 1..Len(mutations) : FALSE OBVIOUS
  <2>2. ~Superseded(mutations, 0) /\ \A s : ~Withdrawn(mutations, 0, s) BY <2>1 DEF Superseded, Withdrawn
  <2> QED BY <2>2 DEF RowInv, RowTold
<1> QED BY WireStarts, <1>1, <1>2, <1>3, PTL DEF Spec

-----------------------------------------------------------------------------
(* Every request is asked once, and answered once.                         *)

Asks(o)       == Says("open", o)
Answers(m, o) == m \in {Says("opened", o), Says("refused", o)}

(* Messages that differ in kind or request differ. *)
LEMMA SaysApart ==
  /\ \A o, p \in Open : o # p => Asks(o) # Asks(p) /\ \A m : ~(Answers(m, o) /\ Answers(m, p))
  /\ \A o, p \in Open : ~Answers(Asks(o), p) /\ ~Answers(Says("rpc", o), p) /\ Asks(o) # Says("close", 0)
  /\ \A o \in Open : ~Answers(Says("exited", 0), o) /\ ~Answers(Says("auth", 0), o)
BY DEF Says, Asks, Answers

(* A request on its way to the desktop was sent on this socket, once. *)
Asked(s) ==
  \A o \in Open : \A i \in 1..Len(down[s]) : down[s][i] = Asks(o) =>
    /\ work[o] = "none" /\ opens[o] # "none" /\ on[o] = s
    /\ \A j \in 1..Len(down[s]) : down[s][j] = Asks(o) => j = i

(* An answer on its way back is of a request the desktop is done with. *)
Answered(s) ==
  \A o \in Open : \A i \in 1..Len(up[s]) : Answers(up[s][i], o) =>
    /\ work[o] = "done"
    /\ \A j \in 1..Len(up[s]) : Answers(up[s][j], o) => j = i

MachineInv ==
  /\ work \in [Open -> {"none", "stopping", "starting", "done"}]
  /\ entry # 0 => entry \in Open /\ work[entry] = "done"
  /\ running \subseteq Open /\ \A o \in dying : o \in Open /\ work[o] = "done"
  /\ \A o \in Open : work[o] = "starting" => o \in running \ dying
  /\ \A o \in Open : work[o] # "none" => opens[o] # "none"
  /\ \A s \in Socket : Asked(s) /\ Answered(s)

(* What was asked stays asked, and on the socket it was asked on. *)
LEMMA StaysAsked ==
  ASSUME IInv, [Next]_vars
  PROVE  \A o \in Open : opens[o] # "none" => opens'[o] # "none" /\ on'[o] = on[o]
<1> SUFFICES ASSUME NEW o \in Open, opens[o] # "none" PROVE opens'[o] # "none" /\ on'[o] = on[o] OBVIOUS
<1>1. opens \in [Open -> State] /\ on \in [Open -> 0..MaxSockets] BY DEF IInv, Registered
<1>2. \A s : Dropped(s)[o] # "none" BY DEF Dropped
<1>3. EndChannel[o] # "none" BY <1>1 DEF EndChannel
<1>4. CASE UNCHANGED <<opens, on>> BY <1>4
<1>5. CASE \E s \in Socket : Closes(s) \/ Sweep(s)
  BY <1>2, <1>5 DEF Closes, Sweep, Close, Detach
<1>6. CASE \E s \in Socket : Authenticated(s) BY <1>2, <1>6 DEF Authenticated, Attach
<1>7. CASE \E s \in Socket : Exited(s) \/ \E p \in Open : Opened(s, p) \/ Refused(s, p) \/ Heard(s, p)
  <2>1. on' = on BY <1>7 DEF Exited, Opened, Refused, Heard, Received
  <2>2. \/ opens' = opens \/ opens' = EndChannel
        \/ \E p \in Open : opens' = [opens EXCEPT ![p] = "failed"] \/ opens' = [EndChannel EXCEPT ![p] = "open"]
    BY <1>7 DEF Exited, Opened, Refused, Heard
  <2>3. EndChannel \in [Open -> State] BY EndsOne
  <2> QED BY <1>1, <1>3, <2>1, <2>2, <2>3
<1>8. CASE \E p \in Open : Ask(p) BY <1>1, <1>8 DEF Ask
<1>9. CASE \E p \in Open : TimeOut(p) \/ Leave(p) BY <1>1, <1>9 DEF TimeOut, Leave
<1>10. CASE \E p \in Open : StopHost(p) BY <1>1, <1>3, <1>10 DEF StopHost
<1>11. CASE Crash BY <1>1, <1>11 DEF Crash
<1>12. CASE \/ Dial \/ Hangs \/ ToClose \/ SweepRow \/ UNCHANGED vars
            \/ \E s \in Socket : Break(s) \/ Introduced(s) \/ TooEarly(s) \/ Rejected(s)
            \/ \E p \in Open : ToOpen(p) \/ Start(p) \/ Started(p) \/ DoesNotStart(p) \/ Dies(p) \/ Exits(p) \/ Speaks(p)
            \/ \E done \in BOOLEAN : Mutate(done)
  <2>1. UNCHANGED <<opens, on>>
    BY <1>12 DEF Dial, Hangs, ToClose, Told, SweepRow, vars, Break, Introduced, TooEarly, Rejected, ToOpen, Start,
                 Started, DoesNotStart, Dies, Exits, Speaks, Mutate, registry
  <2> QED BY <1>4, <2>1
<1> QED BY <1>5, <1>6, <1>7, <1>8, <1>9, <1>10, <1>11, <1>12 DEF Next

(* Requests and answers that are on their way stay so, are lost or taken.  *)
LEMMA AskedStays ==
  ASSUME IInv, [Next]_vars, NEW s \in Socket, Asked(s), down[s] \in Seq(Message),
         \A o \in Open : work[o] = "none" => work'[o] = "none",
         \/ down'[s] = down[s]
         \/ down'[s] = <<>>
         \/ down[s] # <<>> /\ down'[s] = Tail(down[s])
         \/ \E m \in Message : (\A o \in Open : m # Asks(o)) /\ down'[s] = Append(down[s], m)
  PROVE  Asked(s)'
<1>1. CASE down'[s] = down[s]
  <2>1. ASSUME NEW o \in Open, NEW i \in 1..Len(down'[s]), down'[s][i] = Asks(o)
        PROVE  /\ work'[o] = "none" /\ opens'[o] # "none" /\ on'[o] = s
               /\ \A j \in 1..Len(down'[s]) : down'[s][j] = Asks(o) => j = i
    BY <1>1, <2>1, StaysAsked DEF Asked
  <2> QED BY <2>1 DEF Asked
<1>2. CASE down'[s] = <<>> BY <1>2 DEF Asked
<1>3. CASE down[s] # <<>> /\ down'[s] = Tail(down[s])
  <2>1. /\ Len(down[s]) \in Nat /\ Len(down'[s]) = Len(down[s]) - 1
        /\ \A i \in 1..Len(down'[s]) : i + 1 \in 1..Len(down[s]) /\ down'[s][i] = down[s][i + 1]
    BY <1>3, TailAt
  <2>2. ASSUME NEW o \in Open, NEW i \in 1..Len(down'[s]), down'[s][i] = Asks(o)
        PROVE  /\ work'[o] = "none" /\ opens'[o] # "none" /\ on'[o] = s
               /\ \A j \in 1..Len(down'[s]) : down'[s][j] = Asks(o) => j = i
    <3>1. i + 1 \in 1..Len(down[s]) /\ down[s][i + 1] = Asks(o) BY <2>1, <2>2
    <3>2. /\ work[o] = "none" /\ opens[o] # "none" /\ on[o] = s
          /\ \A j \in 1..Len(down[s]) : down[s][j] = Asks(o) => j = i + 1
      BY <3>1 DEF Asked
    <3>3. \A j \in 1..Len(down'[s]) : down'[s][j] = Asks(o) => j + 1 = i + 1 BY <2>1, <3>2
    <3> QED BY <3>2, <3>3, StaysAsked
  <2> QED BY <2>2 DEF Asked
<1>4. ASSUME NEW m \in Message, \A o \in Open : m # Asks(o), down'[s] = Append(down[s], m) PROVE Asked(s)'
  <2>1. /\ Len(down'[s]) = Len(down[s]) + 1 /\ Len(down[s]) \in Nat /\ down'[s][Len(down[s]) + 1] = m
        /\ \A i \in 1..Len(down[s]) : down'[s][i] = down[s][i]
    BY <1>4, AppendAt
  <2>2. \A o \in Open : \A i \in 1..Len(down'[s]) : down'[s][i] = Asks(o) => i \in 1..Len(down[s]) BY <1>4, <2>1
  <2>3. ASSUME NEW o \in Open, NEW i \in 1..Len(down'[s]), down'[s][i] = Asks(o)
        PROVE  /\ work'[o] = "none" /\ opens'[o] # "none" /\ on'[o] = s
               /\ \A j \in 1..Len(down'[s]) : down'[s][j] = Asks(o) => j = i
    BY <2>1, <2>2, <2>3, StaysAsked DEF Asked
  <2> QED BY <2>3 DEF Asked
<1> QED BY <1>1, <1>2, <1>3, <1>4

(* ... and answers alike. *)
LEMMA AnsweredStays ==
  ASSUME NEW s \in Socket, Answered(s), up[s] \in Seq(Message),
         \A o \in Open : work[o] = "done" => work'[o] = "done",
         \/ up'[s] = up[s]
         \/ up'[s] = <<>>
         \/ up[s] # <<>> /\ up'[s] = Tail(up[s])
         \/ \E m \in Message : (\A o \in Open : ~Answers(m, o)) /\ up'[s] = Append(up[s], m)
  PROVE  Answered(s)'
<1> DEFINE Once(o, i) == work'[o] = "done" /\ \A j \in 1..Len(up'[s]) : Answers(up'[s][j], o) => j = i
<1> SUFFICES ASSUME NEW o \in Open, NEW i \in 1..Len(up'[s]), Answers(up'[s][i], o) PROVE Once(o, i)
  BY DEF Answered
<1>1. CASE up'[s] = up[s] BY <1>1 DEF Answered
<1>2. CASE up'[s] = <<>> BY <1>2
<1>3. CASE up[s] # <<>> /\ up'[s] = Tail(up[s])
  <2>1. /\ Len(up[s]) \in Nat /\ Len(up'[s]) = Len(up[s]) - 1
        /\ \A j \in 1..Len(up'[s]) : j + 1 \in 1..Len(up[s]) /\ up'[s][j] = up[s][j + 1]
    BY <1>3, TailAt
  <2>2. work[o] = "done" /\ \A j \in 1..Len(up[s]) : Answers(up[s][j], o) => j = i + 1
    BY <2>1 DEF Answered
  <2> QED BY <2>1, <2>2
<1>4. ASSUME NEW m \in Message, \A p \in Open : ~Answers(m, p), up'[s] = Append(up[s], m) PROVE Once(o, i)
  <2>1. /\ Len(up'[s]) = Len(up[s]) + 1 /\ Len(up[s]) \in Nat /\ up'[s][Len(up[s]) + 1] = m
        /\ \A j \in 1..Len(up[s]) : up'[s][j] = up[s][j]
    BY <1>4, AppendAt
  <2>2. \A j \in 1..Len(up'[s]) : Answers(up'[s][j], o) => j \in 1..Len(up[s]) BY <1>4, <2>1
  <2> QED BY <2>1, <2>2 DEF Answered
<1> QED BY <1>1, <1>2, <1>3, <1>4

(* open(): the request is new. *)
LEMMA AskKeepsAsked ==
  ASSUME IInv, WireInv, MachineInv, NEW o \in Open, Ask(o), NEW s \in Socket PROVE Asked(s)'
<1>1. /\ opens[o] = "none" /\ down' = SentDown(attached, Asks(o)) /\ work' = work
      /\ opens' = [opens EXCEPT ![o] = "waiting"] /\ on' = [on EXCEPT ![o] = attached]
  BY DEF Ask, machine, Asks
<1>2. /\ opens'[o] = "waiting" /\ on'[o] = attached
      /\ \A p \in Open : p # o => opens'[p] = opens[p] /\ on'[p] = on[p]
  <2>1. opens \in [Open -> State] /\ on \in [Open -> 0..MaxSockets] BY DEF IInv, Registered
  <2> QED BY <1>1, <2>1
<1>3. Asked(s) /\ down[s] \in Seq(Message) /\ Asks(o) \in Message BY ThingsSaid DEF MachineInv, WireInv, Asks
<1>4. [Next]_vars BY DEF Next
<1>5. CASE s # attached \/ attached \in closed
  <2>1. down'[s] = down[s] BY <1>1, <1>3, <1>5, SaidDown
  <2> QED BY <1>1, <1>3, <1>4, <2>1, AskedStays
<1>6. CASE s = attached /\ attached \notin closed
  <2>1. down'[s] = Append(down[s], Asks(o)) BY <1>1, <1>3, <1>6, SaidDown
  <2>2. /\ Len(down'[s]) = Len(down[s]) + 1 /\ Len(down[s]) \in Nat /\ down'[s][Len(down[s]) + 1] = Asks(o)
        /\ \A i \in 1..Len(down[s]) : down'[s][i] = down[s][i]
    BY <1>3, <2>1, AppendAt
  <2>3. \A i \in 1..Len(down[s]) : down[s][i] # Asks(o) BY <1>1, <1>3 DEF Asked
  <2>4. work[o] = "none" BY <1>1 DEF MachineInv
  <2>5. \A i \in 1..Len(down'[s]) : i \in 1..Len(down[s]) \/ i = Len(down[s]) + 1 BY <2>2
  <2>6. ASSUME NEW p \in Open, NEW i \in 1..Len(down'[s]), down'[s][i] = Asks(p)
        PROVE  /\ work'[p] = "none" /\ opens'[p] # "none" /\ on'[p] = s
               /\ \A j \in 1..Len(down'[s]) : down'[s][j] = Asks(p) => j = i
    <3>1. CASE p = o BY <1>1, <1>2, <1>6, <2>2, <2>3, <2>4, <2>5, <2>6, <3>1
    <3>2. CASE p # o
      <4>1. \A j \in 1..Len(down'[s]) : down'[s][j] = Asks(p) => j \in 1..Len(down[s])
        BY <2>2, <2>5, <3>2, SaysApart
      <4>2. i \in 1..Len(down[s]) /\ down[s][i] = Asks(p) BY <2>2, <2>6, <4>1
      <4>3. /\ work[p] = "none" /\ opens[p] # "none" /\ on[p] = s
            /\ \A j \in 1..Len(down[s]) : down[s][j] = Asks(p) => j = i
        BY <1>3, <4>2 DEF Asked
      <4> QED BY <1>1, <1>2, <2>2, <3>2, <4>1, <4>3
    <3> QED BY <3>1, <3>2
  <2> QED BY <2>6 DEF Asked
<1> QED BY <1>5, <1>6

(* An answer is the request's first. *)
LEMMA AnswerKeepsAnswered ==
  ASSUME WireInv, MachineInv, NEW o \in Open, work[o] = "starting", NEW m, Answers(m, o),
         work' = [work EXCEPT ![o] = "done"], up' = SentUp(m), NEW s \in Socket
  PROVE  Answered(s)'
<1>1. Answered(s) /\ up[s] \in Seq(Message) /\ m \in Message BY ThingsSaid DEF MachineInv, WireInv, Answers
<1>2. work'[o] = "done" /\ \A p \in Open : p # o => work'[p] = work[p] BY DEF MachineInv
<1>3. CASE s # current \/ s \in closed
  <2>1. up'[s] = up[s] BY <1>1, <1>3, SaidUp
  <2> QED BY <1>1, <1>2, <2>1, AnsweredStays
<1>4. CASE s = current /\ s \notin closed
  <2>1. up'[s] = Append(up[s], m) BY <1>1, <1>4, SaidUp, Bounds
  <2>2. /\ Len(up'[s]) = Len(up[s]) + 1 /\ Len(up[s]) \in Nat /\ up'[s][Len(up[s]) + 1] = m
        /\ \A i \in 1..Len(up[s]) : up'[s][i] = up[s][i]
    BY <1>1, <2>1, AppendAt
  <2>3. \A i \in 1..Len(up[s]) : ~Answers(up[s][i], o) BY <1>1 DEF Answered
  <2>4. \A i \in 1..Len(up'[s]) : i \in 1..Len(up[s]) \/ i = Len(up[s]) + 1 BY <2>2
  <2>5. ASSUME NEW p \in Open, NEW i \in 1..Len(up'[s]), Answers(up'[s][i], p)
        PROVE  work'[p] = "done" /\ \A j \in 1..Len(up'[s]) : Answers(up'[s][j], p) => j = i
    <3>1. CASE p = o BY <1>2, <2>2, <2>3, <2>4, <2>5, <3>1
    <3>2. CASE p # o
      <4>1. \A j \in 1..Len(up'[s]) : Answers(up'[s][j], p) => j \in 1..Len(up[s])
        BY <2>2, <2>4, <3>2, SaysApart
      <4> QED BY <1>1, <1>2, <2>2, <2>5, <3>2, <4>1 DEF Answered
    <3> QED BY <3>1, <3>2
  <2> QED BY <2>5 DEF Answered
<1> QED BY <1>3, <1>4

(* "open": the request is taken, and there is no other of it. *)
LEMMA ToOpenKeepsAsked ==
  ASSUME IInv, WireInv, MachineInv, NEW o \in Open, ToOpen(o)
  PROVE  /\ current \in Socket /\ work[o] = "none" /\ on[o] = current
         /\ \A s \in Socket : Asked(s)'
<1>1. /\ current # 0 /\ down[current] # <<>> /\ Head(down[current]) = Asks(o)
      /\ down' = [down EXCEPT ![current] = Tail(@)] /\ work' = [work EXCEPT ![o] = "stopping"]
      /\ UNCHANGED <<opens, on, current>>
  BY DEF ToOpen, Told, registry, Asks
<1>2. current \in Socket /\ down \in [Socket -> Seq(Message)] /\ \A s \in Socket : Asked(s)
  BY <1>1, BoundsAssumption DEF WireInv, Socket, MachineInv
<1>3. /\ Tail(down[current]) \in Seq(Message) /\ Len(down[current]) \in Nat
      /\ Len(Tail(down[current])) = Len(down[current]) - 1 /\ 1 \in 1..Len(down[current])
      /\ \A i \in 1..Len(Tail(down[current])) : i + 1 \in 1..Len(down[current]) /\ Tail(down[current])[i] = down[current][i + 1]
      /\ down[current][1] = Asks(o)
  BY <1>1, <1>2, TailAt
<1>4. /\ work[o] = "none" /\ on[o] = current
      /\ \A j \in 1..Len(down[current]) : down[current][j] = Asks(o) => j = 1
  BY <1>2, <1>3 DEF Asked
<1>5. \A p \in Open : p # o => work'[p] = work[p] BY <1>1 DEF MachineInv
<1>6. ASSUME NEW s \in Socket PROVE Asked(s)'
  <2>1. CASE s # current
    <3>1. down'[s] = down[s] BY <1>1, <1>2, <2>1
    <3>2. \A i \in 1..Len(down[s]) : down[s][i] # Asks(o) BY <1>2, <1>4, <2>1 DEF Asked
    <3>3. ASSUME NEW p \in Open, NEW i \in 1..Len(down[s]), down[s][i] = Asks(p)
          PROVE  /\ work'[p] = "none" /\ opens[p] # "none" /\ on[p] = s
                 /\ \A j \in 1..Len(down[s]) : down[s][j] = Asks(p) => j = i
      BY <1>2, <1>5, <3>2, <3>3 DEF Asked
    <3> QED BY <1>1, <3>1, <3>3 DEF Asked
  <2>2. CASE s = current
    <3>1. down'[s] = Tail(down[s]) BY <1>1, <1>2, <2>2
    <3>2. \A i \in 1..Len(down'[s]) : down'[s][i] # Asks(o) BY <1>3, <1>4, <2>2, <3>1
    <3>3. ASSUME NEW p \in Open, NEW i \in 1..Len(down'[s]), down'[s][i] = Asks(p)
          PROVE  /\ work'[p] = "none" /\ opens[p] # "none" /\ on[p] = s
                 /\ \A j \in 1..Len(down'[s]) : down'[s][j] = Asks(p) => j = i
      BY <1>2, <1>3, <1>5, <2>2, <3>1, <3>2, <3>3 DEF Asked
    <3> QED BY <1>1, <3>3 DEF Asked
  <2> QED BY <2>1, <2>2
<1> QED BY <1>1, <1>2, <1>4, <1>6

(* All wires: what is taken, lost or said that is no answer, and no request. *)
LEMMA AnsweredAll ==
  ASSUME WireInv, MachineInv, \A o \in Open : work[o] = "done" => work'[o] = "done",
         \/ up' = up
         \/ up' = [s \in Socket |-> <<>>]
         \/ \E s \in Socket : up' = [up EXCEPT ![s] = <<>>]
         \/ \E s \in Socket : up' = [up EXCEPT ![s] = <<Says("auth", 0)>>]
         \/ \E s \in Socket : up[s] # <<>> /\ up' = [up EXCEPT ![s] = Tail(@)]
         \/ \E m \in Message : (\A o \in Open : ~Answers(m, o)) /\ up' = SentUp(m)
  PROVE  \A s \in Socket : Answered(s)'
<1> SUFFICES ASSUME NEW t \in Socket PROVE Answered(t)' OBVIOUS
<1>1. up \in [Socket -> Seq(Message)] /\ up[t] \in Seq(Message) /\ Answered(t) BY DEF WireInv, MachineInv
<1>2. CASE up' = up BY <1>1, <1>2, AnsweredStays
<1>3. CASE up' = [s \in Socket |-> <<>>] BY <1>1, <1>3, AnsweredStays
<1>4. ASSUME NEW s \in Socket, up' = [up EXCEPT ![s] = <<>>] PROVE Answered(t)'
  <2>1. up'[t] = up[t] \/ up'[t] = <<>> BY <1>1, <1>4
  <2> QED BY <1>1, <2>1, AnsweredStays
<1>5. ASSUME NEW s \in Socket, up' = [up EXCEPT ![s] = <<Says("auth", 0)>>] PROVE Answered(t)'
  <2>1. CASE t # s
    <3>1. up'[t] = up[t] BY <1>1, <1>5, <2>1
    <3> QED BY <1>1, <3>1, AnsweredStays
  <2>2. CASE t = s
    <3>1. up'[t] = <<Says("auth", 0)>> BY <1>1, <1>5, <2>2
    <3>2. \A i \in 1..Len(up'[t]) : up'[t][i] = Says("auth", 0) BY <3>1
    <3> QED BY <3>2, SaysApart DEF Answered
  <2> QED BY <2>1, <2>2
<1>6. ASSUME NEW s \in Socket, up[s] # <<>>, up' = [up EXCEPT ![s] = Tail(@)] PROVE Answered(t)'
  <2>1. up'[t] = up[t] \/ (up[t] # <<>> /\ up'[t] = Tail(up[t])) BY <1>1, <1>6
  <2> QED BY <1>1, <2>1, AnsweredStays
<1>7. ASSUME NEW m \in Message, \A o \in Open : ~Answers(m, o), up' = SentUp(m) PROVE Answered(t)'
  <2>1. up'[t] = up[t] \/ up'[t] = Append(up[t], m)
    <3>1. CASE t # current \/ t \in closed BY <1>7, <3>1, SaidUp
    <3>2. CASE t = current /\ t \notin closed BY <1>7, <3>2, SaidUp, Bounds
    <3> QED BY <3>1, <3>2
  <2> QED BY <1>1, <1>7, <2>1, AnsweredStays
<1> QED BY <1>2, <1>3, <1>4, <1>5, <1>6, <1>7

(* ... and on the way down. *)
LEMMA AskedAll ==
  ASSUME IInv, WireInv, MachineInv, [Next]_vars, \A o \in Open : work[o] = "none" => work'[o] = "none",
         \/ down' = down
         \/ down' = [down EXCEPT ![current] = <<>>]
         \/ down[current] # <<>> /\ down' = [down EXCEPT ![current] = Tail(@)]
         \/ \E s : down' = SentDown(s, Says("close", 0))
  PROVE  \A s \in Socket : Asked(s)'
<1> SUFFICES ASSUME NEW t \in Socket PROVE Asked(t)' OBVIOUS
<1>1. down \in [Socket -> Seq(Message)] /\ down[t] \in Seq(Message) /\ Asked(t) BY DEF WireInv, MachineInv
<1>2. CASE down' = down BY <1>1, <1>2, AskedStays
<1>3. CASE \/ down' = [down EXCEPT ![current] = <<>>]
           \/ down[current] # <<>> /\ down' = [down EXCEPT ![current] = Tail(@)]
  <2>1. down'[t] = down[t] \/ down'[t] = <<>> \/ (down[t] # <<>> /\ down'[t] = Tail(down[t])) BY <1>1, <1>3
  <2> QED BY <1>1, <2>1, AskedStays
<1>4. ASSUME NEW s, down' = SentDown(s, Says("close", 0)) PROVE Asked(t)'
  <2>1. Says("close", 0) \in Message /\ \A o \in Open : Says("close", 0) # Asks(o) BY ThingsSaid, SaysApart
  <2>2. down'[t] = down[t] \/ down'[t] = Append(down[t], Says("close", 0)) BY <1>4, <2>1, SaidDown
  <2> QED BY <1>1, <2>1, <2>2, AskedStays
<1> QED BY <1>2, <1>3, <1>4

(* The steps that leave the desktop's processes alone. *)
LEMMA MachineElsewhere ==
  ASSUME IInv, MachineInv, [Next]_vars, UNCHANGED machine, \A s \in Socket : Asked(s)' /\ Answered(s)'
  PROVE  MachineInv'
<1>1. \A o \in Open : work'[o] # "none" => opens'[o] # "none" BY StaysAsked DEF MachineInv, machine
<1> QED BY <1>1 DEF MachineInv, machine

(* What else the desktop says answers nobody. *)
LEMMA NotAnswers ==
  /\ \A o \in Open : Says("rpc", o) \in Message /\ \A p \in Open : ~Answers(Says("rpc", o), p)
  /\ Says("exited", 0) \in Message /\ \A p \in Open : ~Answers(Says("exited", 0), p)
BY ThingsSaid, SaysApart

(* The steps of the desktop. *)
LEMMA ToOpenKeepsMachine == ASSUME IInv, WireInv, MachineInv, NEW o \in Open, ToOpen(o) PROVE MachineInv'
<1>1. /\ work' = [work EXCEPT ![o] = "stopping"] /\ dying' = dying \cup ({entry} \cap running)
      /\ UNCHANGED <<up, entry, running, opens, on>>
  BY DEF ToOpen, Told, registry
<1>2. work[o] = "none" /\ on[o] = current /\ current \in Socket /\ \A s \in Socket : Asked(s)' BY ToOpenKeepsAsked
<1>3. work \in [Open -> {"none", "stopping", "starting", "done"}] BY DEF MachineInv
<1>4. /\ work' \in [Open -> {"none", "stopping", "starting", "done"}] /\ work'[o] = "stopping"
      /\ \A p \in Open : p # o => work'[p] = work[p]
  BY <1>1, <1>3
<1>5. opens[o] # "none"
  <2>1. /\ down[current] # <<>> /\ Head(down[current]) = Asks(o) BY DEF ToOpen, Told, Asks
  <2>2. down[current] \in Seq(Message) /\ Asked(current) BY <1>2 DEF WireInv, MachineInv
  <2>3. 1 \in 1..Len(down[current]) /\ down[current][1] = Asks(o) BY <2>1, <2>2, TailAt
  <2> QED BY <2>2, <2>3 DEF Asked
<1>6. \A s \in Socket : Answered(s)' BY <1>1, <1>2, <1>4, AnsweredAll
<1>7. entry # 0 => entry # o /\ entry \in Open /\ work[entry] = "done" BY <1>2 DEF MachineInv
<1>8. \A p \in dying' : p \in Open /\ work'[p] = "done"
  <2>1. \A p \in dying : p # o BY <1>2 DEF MachineInv
  <2>2. ASSUME NEW p \in {entry} \cap running PROVE p \in Open /\ work'[p] = "done"
    <3>1. p # 0 BY <2>2, Bounds DEF MachineInv
    <3> QED BY <1>4, <1>7, <2>2, <3>1
  <2> QED BY <1>1, <1>4, <2>1, <2>2 DEF MachineInv
<1>9. \A p \in Open : work'[p] = "starting" => p \in running' \ dying'
  <2> SUFFICES ASSUME NEW p \in Open, work'[p] = "starting" PROVE p \in running' \ dying' OBVIOUS
  <2>1. p # o /\ work[p] = "starting" BY <1>4
  <2>2. p \in running \ dying BY <2>1 DEF MachineInv
  <2>3. p # entry BY <1>7, <2>1, Bounds
  <2> QED BY <1>1, <2>2, <2>3
<1>10. \A p \in Open : work'[p] # "none" => opens'[p] # "none" BY <1>1, <1>4, <1>5 DEF MachineInv
<1>11. entry' # 0 => entry' \in Open /\ work'[entry'] = "done" BY <1>1, <1>4, <1>7
<1> QED BY <1>1, <1>2, <1>4, <1>6, <1>8, <1>9, <1>10, <1>11 DEF MachineInv

(* Start: the process is the request's, and none that dies is. *)
LEMMA StartKeepsMachine == ASSUME IInv, WireInv, MachineInv, NEW o \in Open, Start(o) PROVE MachineInv'
<1>1. /\ work[o] = "stopping" /\ work' = [work EXCEPT ![o] = "starting"] /\ entry' = 0 /\ running' = running \cup {o}
      /\ UNCHANGED <<dying, down, up, opens, on>>
  BY DEF Start, wires, registry
<1>2. /\ work' \in [Open -> {"none", "stopping", "starting", "done"}] /\ work'[o] = "starting"
      /\ \A p \in Open : p # o => work'[p] = work[p]
  BY <1>1 DEF MachineInv
<1>3. [Next]_vars BY DEF Next
<1>4. \A s \in Socket : Asked(s)' BY <1>1, <1>2, <1>3, AskedAll
<1>5. \A s \in Socket : Answered(s)' BY <1>1, <1>2, AnsweredAll
<1>6. \A p \in dying : p # o BY <1>1 DEF MachineInv
<1>7. \A p \in Open : work'[p] # "none" => opens'[p] # "none" BY <1>1, <1>2 DEF MachineInv
<1>8. \A p \in Open : work'[p] = "starting" => p \in running' \ dying'
  <2> SUFFICES ASSUME NEW p \in Open, work'[p] = "starting" PROVE p \in running' \ dying' OBVIOUS
  <2>1. CASE p = o BY <1>1, <1>6, <2>1
  <2>2. CASE p # o BY <1>1, <1>2, <2>2 DEF MachineInv
  <2> QED BY <2>1, <2>2
<1>9. running' \subseteq Open /\ \A p \in dying' : p \in Open /\ work'[p] = "done"
  BY <1>1, <1>2, <1>6 DEF MachineInv
<1> QED BY <1>1, <1>2, <1>4, <1>5, <1>7, <1>8, <1>9 DEF MachineInv

(* The process runs, or has not started: the request is done with. *)
LEMMA DoneKeepsMachine ==
  ASSUME IInv, WireInv, MachineInv, NEW o \in Open, Started(o) \/ DoesNotStart(o) PROVE MachineInv'
<1>1. /\ work[o] = "starting" /\ work' = [work EXCEPT ![o] = "done"] /\ UNCHANGED <<down, opens, on, dying>>
      /\ \E m : Answers(m, o) /\ up' = SentUp(m)
      /\ \/ entry' = o /\ running' = running
         \/ entry' = entry /\ running' = running \ {o}
  BY DEF Started, DoesNotStart, registry, Answers
<1>2. /\ work' \in [Open -> {"none", "stopping", "starting", "done"}] /\ work'[o] = "done"
      /\ \A p \in Open : p # o => work'[p] = work[p]
  BY <1>1 DEF MachineInv
<1>3. [Next]_vars BY DEF Next
<1>4. \A s \in Socket : Asked(s)' BY <1>1, <1>2, <1>3, AskedAll
<1>5. \A s \in Socket : Answered(s)' BY <1>1, AnswerKeepsAnswered
<1>6. \A p \in Open : work'[p] # "none" => opens'[p] # "none" BY <1>1, <1>2 DEF MachineInv
<1>7. \A p \in Open : work'[p] = "starting" => p \in running' \ dying' BY <1>1, <1>2 DEF MachineInv
<1>8. running' \subseteq Open /\ \A p \in dying' : p \in Open /\ work'[p] = "done" BY <1>1, <1>2 DEF MachineInv
<1>9. entry' # 0 => entry' \in Open /\ work'[entry'] = "done" BY <1>1, <1>2 DEF MachineInv
<1> QED BY <1>2, <1>4, <1>5, <1>6, <1>7, <1>8, <1>9 DEF MachineInv

(* A process ends, of itself or stopped. *)
LEMMA EndsKeepsMachine ==
  ASSUME IInv, WireInv, MachineInv, NEW o \in Open, Dies(o) \/ Exits(o) PROVE MachineInv'
<1>1. /\ UNCHANGED <<work, down, opens, on>> /\ running' = running \ {o} /\ work[o] = "done"
      /\ entry' \in {0, entry} /\ dying' \subseteq dying /\ dying' = dying \ {o}
      /\ up' = up \/ up' = SentUp(Says("exited", 0))
  <2>1. CASE Dies(o) BY <2>1 DEF Dies, wires, registry, MachineInv
  <2>2. CASE Exits(o) BY <2>2 DEF Exits, registry
  <2> QED BY <2>1, <2>2
<1>2. [Next]_vars BY DEF Next
<1>3. \A s \in Socket : Asked(s)' BY <1>1, <1>2, AskedAll
<1>4. \A s \in Socket : Answered(s)' BY <1>1, NotAnswers, AnsweredAll
<1>5. \A p \in Open : work'[p] = "starting" => p \in running' \ dying' BY <1>1 DEF MachineInv
<1> QED BY <1>1, <1>3, <1>4, <1>5 DEF MachineInv

(* Every step keeps it that a request is asked once and answered once. *)
LEMMA MachineStays == ASSUME IInv, WireInv, MachineInv, [Next]_vars PROVE MachineInv'
<1>1. \A s \in Socket : Asked(s) /\ Answered(s) BY DEF MachineInv
<1>2. ASSUME UNCHANGED <<down, machine>>,
             \/ up' = up
             \/ up' = [s \in Socket |-> <<>>]
             \/ \E s \in Socket : up' = [up EXCEPT ![s] = <<>>]
             \/ \E s \in Socket : up' = [up EXCEPT ![s] = <<Says("auth", 0)>>]
             \/ \E s \in Socket : up[s] # <<>> /\ up' = [up EXCEPT ![s] = Tail(@)]
      PROVE  MachineInv'
  <2>1. work' = work BY <1>2 DEF machine
  <2>2. \A s \in Socket : Asked(s)' BY <1>2, <2>1, AskedAll
  <2>3. \A s \in Socket : Answered(s)' BY <1>2, <2>1, AnsweredAll
  <2> QED BY <1>2, <2>2, <2>3, MachineElsewhere
<1>3. CASE UNCHANGED vars
  <2>1. UNCHANGED <<down, machine, up>> BY <1>3 DEF vars, machine
  <2> QED BY <2>1, <1>2
<1>4. CASE Dial
  <2>1. dialled + 1 \in Socket BY <1>4, BoundsAssumption DEF Dial, WireInv, Socket
  <2>2. UNCHANGED <<down, machine>> /\ up' = [up EXCEPT ![dialled + 1] = <<Says("auth", 0)>>] BY <1>4 DEF Dial
  <2> QED BY <1>2, <2>1, <2>2
<1>5. CASE Hangs
  <2>1. UNCHANGED <<up, machine, work>> /\ down' = [down EXCEPT ![current] = <<>>] BY <1>5 DEF Hangs, machine
  <2>2. \A s \in Socket : Asked(s)' BY <2>1, AskedAll
  <2>3. \A s \in Socket : Answered(s)' BY <2>1, AnsweredAll
  <2> QED BY <2>1, <2>2, <2>3, MachineElsewhere
<1>6. CASE ToClose
  <2>1. /\ UNCHANGED <<up, work, running, opens, on>> /\ entry' = 0 /\ dying' = dying \cup ({entry} \cap running)
        /\ down[current] # <<>> /\ down' = [down EXCEPT ![current] = Tail(@)]
    BY <1>6 DEF ToClose, Told, registry
  <2>2. \A s \in Socket : Asked(s)' BY <2>1, AskedAll
  <2>3. \A s \in Socket : Answered(s)' BY <2>1, AnsweredAll
  <2>4. entry \in running => entry \in Open /\ work[entry] = "done" BY Bounds DEF MachineInv
  <2>5. \A o \in dying' : o \in Open /\ work'[o] = "done" BY <2>1, <2>4 DEF MachineInv
  <2>6. \A o \in Open : work'[o] = "starting" => o \in running' \ dying'
    <3> SUFFICES ASSUME NEW o \in Open, work[o] = "starting" PROVE o \in running' \ dying' BY <2>1
    <3>1. o \in running \ dying BY DEF MachineInv
    <3>2. o \notin {entry} \cap running BY <2>4
    <3> QED BY <2>1, <3>1, <3>2
  <2> QED BY <2>1, <2>2, <2>3, <2>5, <2>6 DEF MachineInv
<1>7. CASE SweepRow \/ \E done \in BOOLEAN : Mutate(done)
  <2>1. UNCHANGED <<down, machine, up>> BY <1>7 DEF SweepRow, Mutate, wires
  <2> QED BY <2>1, <1>2
<1>8. CASE Crash
  <2>1. UNCHANGED <<down, machine>> /\ up' = [s \in Socket |-> <<>>] BY <1>8 DEF Crash
  <2> QED BY <2>1, <1>2
<1>9. ASSUME NEW s \in Socket, Break(s) \/ Rejected(s) \/ Authenticated(s) PROVE MachineInv'
  <2>1. UNCHANGED <<down, machine, up>> BY <1>9 DEF Break, Rejected, Authenticated
  <2> QED BY <2>1, <1>2
<1>10. ASSUME NEW s \in Socket, Closes(s) \/ Sweep(s) PROVE MachineInv'
  <2>1. UNCHANGED <<down, machine>> /\ up' = [up EXCEPT ![s] = <<>>] BY <1>10 DEF Closes, Sweep
  <2> QED BY <2>1, <1>2
<1>11. ASSUME NEW s \in Socket, Introduced(s) \/ TooEarly(s) PROVE MachineInv'
  <2>1. UNCHANGED <<down, machine>> /\ up[s] # <<>> /\ up' = [up EXCEPT ![s] = Tail(@)]
    BY <1>11 DEF Introduced, TooEarly
  <2> QED BY <2>1, <1>2
<1>12. ASSUME NEW s \in Socket, Exited(s) \/ \E o \in Open : Opened(s, o) \/ Refused(s, o) \/ Heard(s, o)
       PROVE  MachineInv'
  <2>1. UNCHANGED <<down, machine>> /\ up[s] # <<>> /\ up' = [up EXCEPT ![s] = Tail(@)]
    BY <1>12 DEF Exited, Opened, Refused, Heard, Received
  <2> QED BY <2>1, <1>2
<1>13. ASSUME NEW o \in Open, Ask(o) PROVE MachineInv'
  <2>1. UNCHANGED <<up, machine, work>> BY <1>13 DEF Ask, machine
  <2>2. \A s \in Socket : Asked(s)' BY <1>13, AskKeepsAsked
  <2>3. \A s \in Socket : Answered(s)' BY <2>1, AnsweredAll
  <2> QED BY <2>1, <2>2, <2>3, MachineElsewhere
<1>14. ASSUME NEW o \in Open, TimeOut(o) PROVE MachineInv'
  <2>1. UNCHANGED <<down, machine, up>> BY <1>14 DEF TimeOut, wires
  <2> QED BY <2>1, <1>2
<1>15. ASSUME NEW o \in Open, Leave(o) \/ StopHost(o) PROVE MachineInv'
  <2>1. UNCHANGED <<up, machine, work>> /\ (down' = down \/ \E s : down' = SentDown(s, Says("close", 0)))
    BY <1>15 DEF Leave, StopHost, machine
  <2>2. \A s \in Socket : Asked(s)' BY <2>1, AskedAll
  <2>3. \A s \in Socket : Answered(s)' BY <2>1, AnsweredAll
  <2> QED BY <2>1, <2>2, <2>3, MachineElsewhere
<1>16. ASSUME NEW o \in Open, ToOpen(o) PROVE MachineInv' BY <1>16, ToOpenKeepsMachine
<1>17. ASSUME NEW o \in Open, Start(o) PROVE MachineInv' BY <1>17, StartKeepsMachine
<1>18. ASSUME NEW o \in Open, Started(o) \/ DoesNotStart(o) PROVE MachineInv' BY <1>18, DoneKeepsMachine
<1>19. ASSUME NEW o \in Open, Dies(o) \/ Exits(o) PROVE MachineInv' BY <1>19, EndsKeepsMachine
<1>20. ASSUME NEW o \in Open, Speaks(o) PROVE MachineInv'
  <2>1. UNCHANGED <<down, machine, work>> /\ up' = SentUp(Says("rpc", o)) BY <1>20 DEF Speaks, machine
  <2>2. \A s \in Socket : Asked(s)' BY <2>1, AskedAll
  <2>3. \A s \in Socket : Answered(s)' BY <2>1, NotAnswers, AnsweredAll
  <2> QED BY <2>1, <2>2, <2>3, MachineElsewhere
<1> QED BY <1>3, <1>4, <1>5, <1>6, <1>7, <1>8, <1>9, <1>10, <1>11, <1>12, <1>13, <1>14, <1>15, <1>16,
           <1>17, <1>18, <1>19, <1>20 DEF Next

-----------------------------------------------------------------------------
(* A channel has its process.                                              *)

(* The desktop and the app server use the same socket, and nothing crossed. *)
Line == attached # 0 /\ attached = current /\ attached \notin closed /\ ~crossed

(* Behind the i-th message for the desktop the request is on its way.      *)
Behind(o, i) == \E j \in 1..Len(down[attached]) : j > i /\ down[attached][j] = Asks(o)

(* What the desktop does before is over when anything asked for comes.     *)
Clear(i) == channel = 0 /\ \A o \in Waiting : Behind(o, i)

(* The i-th is a close, or a request that nobody waits for any more. *)
Spoils(i) ==
  /\ i \in 1..Len(down[attached])
  /\ \/ down[attached][i] = Says("close", 0)
     \/ \E o \in Open : o \notin Waiting /\ down[attached][i] = Asks(o)

(* Behind the k-th message for the app server the channel ends, or another *)
(* request is answered.                                                    *)
Comes(o, k) ==
  \E j \in 1..Len(up[attached]) : j > k /\
    \/ up[attached][j] = Says("exited", 0)
    \/ \E p \in Waiting : p # o /\ Answers(up[attached][j], p)

Runs(o) == entry = o /\ o \in running \ dying

Served(o, k) == Runs(o) \/ Busy # {} \/ Comes(o, k)

LineInv ==
  /\ \A i \in Nat : Spoils(i) => Clear(i)
  /\ Busy \subseteq Waiting \/ Clear(0)
  /\ \A o \in Open : channel = o => opens[o] = "open" /\ Served(o, 0)
  /\ \A o \in Waiting : \A i \in 1..Len(up[attached]) :
       up[attached][i] = Says("opened", o) => Served(o, i)

(* Both are on one socket only since it was attached.                      *)
LEMMA LineBefore ==
  ASSUME WireInv, [Next]_vars, Line', ~\E s \in Socket : Authenticated(s)
  PROVE  Line /\ UNCHANGED <<attached, current>> /\ attached \in Socket /\ attached \notin closed'
<1>1. attached' # 0 /\ attached' = current' /\ attached' \notin closed' /\ ~crossed' BY DEF Line
<1>2. current # 0 => current \in Socket BY BoundsAssumption DEF WireInv, Socket
<1>3. ASSUME UNCHANGED <<attached, current>>, closed \subseteq closed', ~crossed' => ~crossed
      PROVE  Line /\ UNCHANGED <<attached, current>> /\ attached \in Socket /\ attached \notin closed'
  BY <1>1, <1>2, <1>3 DEF Line
<1>4. CASE UNCHANGED vars BY <1>3, <1>4 DEF vars
<1>5. ~Dial
  <2> SUFFICES ASSUME Dial PROVE FALSE OBVIOUS
  <2>1. attached' = attached /\ current' = dialled + 1 BY DEF Dial, registry
  <2>2. dialled \in Nat /\ (attached \in 1..dialled \/ attached = 0) BY BoundsAssumption DEF WireInv
  <2>3. attached = dialled + 1 BY <1>1, <2>1
  <2> QED BY <2>2, <2>3
<1>6. ~Hangs BY <1>1 DEF Hangs, registry
<1>7. ~Crash BY <1>1 DEF Crash
<1>8. CASE ToClose \/ SweepRow \/ \E done \in BOOLEAN : Mutate(done)
  BY <1>3, <1>8 DEF ToClose, Told, SweepRow, Mutate, wires, registry
<1>9. CASE \E s \in Socket : Closes(s) \/ Sweep(s)
  <2>1. PICK s \in Socket : Closes(s) \/ Sweep(s) BY <1>9
  <2>2. Close(s) /\ closed \subseteq closed' /\ UNCHANGED <<current, crossed>> BY <2>1 DEF Closes, Sweep
  <2>3. attached' = attached BY <1>1, <2>2 DEF Close, Detach
  <2> QED BY <1>3, <2>2, <2>3
<1>10. CASE \E s \in Socket : Break(s) \/ Introduced(s) \/ TooEarly(s) \/ Rejected(s)
  BY <1>3, <1>10 DEF Break, Introduced, TooEarly, Rejected, registry
<1>11. CASE \E s \in Socket : Exited(s) \/ \E o \in Open : Opened(s, o) \/ Refused(s, o) \/ Heard(s, o)
  <2>1. PICK s \in Socket : Exited(s) \/ \E o \in Open : Opened(s, o) \/ Refused(s, o) \/ Heard(s, o) BY <1>11
  <2>2. \E m : Received(s, m) BY <2>1 DEF Exited, Opened, Refused, Heard
  <2>3. UNCHANGED <<attached, current, closed>> BY <2>2 DEF Received
  <2>4. ~crossed' => ~crossed BY <2>1 DEF Exited, Opened, Refused, Heard
  <2> QED BY <1>3, <2>3, <2>4
<1>12. CASE \E o \in Open : Ask(o) \/ TimeOut(o) \/ Leave(o) \/ StopHost(o)
  <2>1. UNCHANGED <<attached, current, closed>> /\ (~crossed' => ~crossed)
    BY <1>12 DEF Ask, TimeOut, Leave, StopHost, wires
  <2> QED BY <1>3, <2>1
<1>13. CASE \E o \in Open : \/ ToOpen(o) \/ Start(o) \/ Started(o) \/ DoesNotStart(o) \/ Dies(o) \/ Exits(o) \/ Speaks(o)
  <2>1. UNCHANGED <<attached, current, closed>>
    BY <1>13 DEF ToOpen, Told, Start, Started, DoesNotStart, Dies, Exits, Speaks, wires, registry
  <2>2. ~crossed' => ~crossed BY <1>13 DEF ToOpen, Start, Started, DoesNotStart, Dies, Exits, Speaks
  <2> QED BY <1>3, <2>1, <2>2
<1> QED BY <1>4, <1>5, <1>6, <1>7, <1>8, <1>9, <1>10, <1>11, <1>12, <1>13 DEF Next

(* With no channel and nothing waited for, nothing can go wrong. *)
LEMMA Quiet == ASSUME channel' = 0, Waiting' = {} PROVE LineInv'
<1>1. \A i : Clear(i)' BY DEF Clear
<1>2. 0 \notin Open BY Bounds
<1> QED BY <1>1, <1>2 DEF LineInv

(* What is on its way to the app server comes, one place further on or not. *)
LEMMA ComesStill ==
  ASSUME attached' = attached, up[attached] \in Seq(Message), Waiting \subseteq Waiting',
         up'[attached] = up[attached] \/ \E m \in Message : up'[attached] = Append(up[attached], m),
         NEW o, NEW k, Comes(o, k)
  PROVE  Comes(o, k)'
<1>1. \A j \in 1..Len(up[attached]) : j \in 1..Len(up'[attached]) /\ up'[attached][j] = up[attached][j]
  BY AppendAt
<1> QED BY <1>1 DEF Comes

(* ... or its head is taken, which answers nobody who waits on. *)
LEMMA ComesSooner ==
  ASSUME attached' = attached, up[attached] \in Seq(Message), up[attached] # <<>>, up'[attached] = Tail(up[attached]),
         \A j \in 1..Len(up[attached]) : \A p \in Waiting : j > 1 /\ Answers(up[attached][j], p) => p \in Waiting',
         NEW o, NEW k \in Nat, Comes(o, k + 1)
  PROVE  Comes(o, k)'
<1>1. /\ Len(up[attached]) \in Nat /\ Len(up'[attached]) = Len(up[attached]) - 1
      /\ \A j \in 1..Len(up'[attached]) : up'[attached][j] = up[attached][j + 1]
  BY TailAt
<1>2. PICK j \in 1..Len(up[attached]) : j > k + 1 /\
        \/ up[attached][j] = Says("exited", 0)
        \/ \E p \in Waiting : p # o /\ Answers(up[attached][j], p)
  BY DEF Comes
<1>3. j - 1 \in 1..Len(up'[attached]) /\ j - 1 > k /\ up'[attached][j - 1] = up[attached][j] /\ j > 1
  BY <1>1, <1>2
<1>4. \/ up'[attached][j - 1] = Says("exited", 0)
      \/ \E p \in Waiting' : p # o /\ Answers(up'[attached][j - 1], p)
  BY <1>2, <1>3
<1> QED BY <1>3, <1>4 DEF Comes

(* ... and what is on its way to the desktop. *)
LEMMA BehindStill ==
  ASSUME attached' = attached, down[attached] \in Seq(Message),
         down'[attached] = down[attached] \/ \E m \in Message : down'[attached] = Append(down[attached], m),
         NEW o, NEW i, Behind(o, i)
  PROVE  Behind(o, i)'
<1>1. \A j \in 1..Len(down[attached]) : j \in 1..Len(down'[attached]) /\ down'[attached][j] = down[attached][j]
  BY AppendAt
<1> QED BY <1>1 DEF Behind

(* ... whose head is taken. *)
LEMMA BehindSooner ==
  ASSUME attached' = attached, down[attached] \in Seq(Message), down[attached] # <<>>,
         down'[attached] = Tail(down[attached]), NEW o, NEW i \in Nat, Behind(o, i + 1)
  PROVE  Behind(o, i)'
<1>1. /\ Len(down[attached]) \in Nat /\ Len(down'[attached]) = Len(down[attached]) - 1
      /\ \A j \in 1..Len(down'[attached]) : down'[attached][j] = down[attached][j + 1]
  BY TailAt
<1>2. PICK j \in 1..Len(down[attached]) : j > i + 1 /\ down[attached][j] = Asks(o) BY DEF Behind
<1>3. j - 1 \in 1..Len(down'[attached]) /\ j - 1 > i /\ down'[attached][j - 1] = Asks(o) BY <1>1, <1>2
<1> QED BY <1>3 DEF Behind

(* What the desktop does before is as it was, as long as nothing is taken. *)
LEMMA SpoilsSame ==
  ASSUME LineInv, attached' = attached, down[attached] \in Seq(Message), down'[attached] = down[attached],
         UNCHANGED channel, Waiting' = Waiting
  PROVE  /\ \A i \in Nat : Spoils(i)' => Clear(i)'
         /\ Clear(0) => Clear(0)'
<1>1. \A o, i : Behind(o, i) => Behind(o, i)' BY BehindStill
<1>2. \A i : Clear(i) => Clear(i)' BY <1>1 DEF Clear
<1>3. \A i : Spoils(i)' => Spoils(i) BY DEF Spoils
<1> QED BY <1>2, <1>3 DEF LineInv

(* The steps that take no message: each channel, and each answer that      *)
(* somebody waits for, is served after if it was before.                   *)
LEMMA LineGrows ==
  ASSUME LineInv, attached' = attached, down[attached] \in Seq(Message), up[attached] \in Seq(Message),
         UNCHANGED channel, Waiting' = Waiting, \A o \in Open : channel = o => opens'[o] = "open",
         down'[attached] = down[attached], Busy' \subseteq Busy,
         \A o \in Open : channel = o /\ Served(o, 0) => Served(o, 0)',
         \A o \in Waiting : \A i \in 1..Len(up[attached]) :
           up[attached][i] = Says("opened", o) /\ Served(o, i) => Served(o, i)',
         \/ up'[attached] = up[attached]
         \/ \E m \in Message : /\ up'[attached] = Append(up[attached], m)
                               /\ \A o \in Waiting : \A i \in Nat :
                                    m = Says("opened", o) /\ i = Len(up[attached]) + 1 => Served(o, i)'
  PROVE  LineInv'
<1>1. ASSUME NEW o \in Waiting, NEW i \in 1..Len(up'[attached]), up'[attached][i] = Says("opened", o)
      PROVE  Served(o, i)'
  <2>1. ASSUME i \in 1..Len(up[attached]), up'[attached][i] = up[attached][i] PROVE Served(o, i)'
    BY <1>1, <2>1 DEF LineInv
  <2>2. CASE up'[attached] = up[attached] BY <2>1, <2>2
  <2>3. ASSUME NEW m \in Message, up'[attached] = Append(up[attached], m),
               \A p \in Waiting : \A j \in Nat :
                 m = Says("opened", p) /\ j = Len(up[attached]) + 1 => Served(p, j)'
        PROVE  Served(o, i)'
    <3>1. /\ Len(up[attached]) \in Nat /\ Len(up'[attached]) = Len(up[attached]) + 1
          /\ up'[attached][Len(up[attached]) + 1] = m
          /\ \A j \in 1..Len(up[attached]) : up'[attached][j] = up[attached][j]
      BY <2>3, AppendAt
    <3>2. CASE i \in 1..Len(up[attached]) BY <2>1, <3>1, <3>2
    <3>3. CASE i \notin 1..Len(up[attached])
      <4>1. i = Len(up[attached]) + 1 BY <3>1, <3>3
      <4>2. m = Says("opened", o) BY <1>1, <3>1, <4>1
      <4> QED BY <2>3, <3>1, <4>1, <4>2
    <3> QED BY <3>2, <3>3
  <2> QED BY <2>2, <2>3
<1>2. Busy' \subseteq Waiting' \/ Clear(0)' BY SpoilsSame DEF LineInv
<1>3. \A o \in Open : channel' = o => opens'[o] = "open" /\ Served(o, 0)' BY DEF LineInv
<1> QED BY <1>1, <1>2, <1>3, SpoilsSame DEF LineInv

(* The steps that say nothing that matters, and stop nothing that runs. *)
LEMMA LineElsewhere ==
  ASSUME LineInv, attached' = attached, down[attached] \in Seq(Message), up[attached] \in Seq(Message),
         UNCHANGED channel, Waiting' = Waiting, \A o \in Open : channel = o => opens'[o] = "open",
         down'[attached] = down[attached], Busy' = Busy, \A o \in Open : Runs(o) => Runs(o)',
         \/ up'[attached] = up[attached]
         \/ \E m \in Message : (\A o \in Open : ~Answers(m, o)) /\ up'[attached] = Append(up[attached], m)
  PROVE  LineInv'
<1>1. \A o, k : Comes(o, k) => Comes(o, k)' BY ComesStill
<1>2. \A o \in Open : \A k : Served(o, k) => Served(o, k)' BY <1>1 DEF Served
<1>3. Waiting \subseteq Open BY DEF Waiting
<1>4. \/ up'[attached] = up[attached]
      \/ \E m \in Message : /\ up'[attached] = Append(up[attached], m)
                            /\ \A o \in Waiting : m # Says("opened", o)
  BY <1>3 DEF Answers
<1> QED BY <1>2, <1>3, <1>4, LineGrows

(* The app server takes what answers nobody; an end of the channel ends it. *)
LEMMA LineHears ==
  ASSUME LineInv, attached' = attached, down[attached] \in Seq(Message), up[attached] \in Seq(Message),
         UNCHANGED machine, Waiting' = Waiting, down'[attached] = down[attached],
         up[attached] # <<>>, up'[attached] = Tail(up[attached]),
         \/ /\ UNCHANGED <<channel, opens>> /\ Head(up[attached]) # Says("exited", 0)
            /\ \A p \in Waiting : ~Answers(Head(up[attached]), p)
         \/ channel' = 0
  PROVE  LineInv'
<1>1. /\ Len(up[attached]) \in Nat /\ Len(up'[attached]) = Len(up[attached]) - 1
      /\ \A j \in 1..Len(up'[attached]) : j + 1 \in 1..Len(up[attached]) /\ up'[attached][j] = up[attached][j + 1]
      /\ Head(up[attached]) = up[attached][1]
  BY TailAt
<1>2. \A o : \A k \in Nat : Comes(o, k + 1) => Comes(o, k)' BY ComesSooner
<1>3. Busy' = Busy /\ \A o : Runs(o)' <=> Runs(o) BY DEF Busy, Runs, machine
<1>4. \A o : \A k \in Nat : Served(o, k + 1) => Served(o, k)' BY <1>2, <1>3 DEF Served
<1>5. ASSUME NEW o \in Waiting', NEW i \in 1..Len(up'[attached]), up'[attached][i] = Says("opened", o)
      PROVE  Served(o, i)'
  <2>1. Served(o, i + 1) BY <1>1, <1>5 DEF LineInv
  <2>2. i \in Nat OBVIOUS
  <2> QED BY <1>4, <2>1, <2>2
<1>6. \A i : Spoils(i)' => Spoils(i) BY DEF Spoils
<1>7. \A o, i : Behind(o, i) => Behind(o, i)' BY BehindStill
<1>8. \A i : Clear(i) => Clear(i)' BY <1>7 DEF Clear
<1>9. \A i \in Nat : Spoils(i)' => Clear(i)' BY <1>6, <1>8 DEF LineInv
<1>10. Busy' \subseteq Waiting' \/ Clear(0)' BY <1>3, <1>8 DEF LineInv
<1>11. ASSUME NEW o \in Open, channel' = o PROVE opens'[o] = "open" /\ Served(o, 0)'
  <2>1. /\ UNCHANGED <<channel, opens>> /\ Head(up[attached]) # Says("exited", 0)
        /\ \A p \in Waiting : ~Answers(Head(up[attached]), p)
    BY <1>11, Bounds
  <2>2. opens[o] = "open" /\ Served(o, 0) BY <1>11, <2>1 DEF LineInv
  <2>3. Comes(o, 0) => Comes(o, 0 + 1) BY <1>1, <2>1 DEF Comes
  <2>4. Served(o, 0 + 1) BY <2>2, <2>3 DEF Served
  <2>5. Served(o, 0)' BY <1>4, <2>4
  <2> QED BY <2>1, <2>2, <2>5
<1> QED BY <1>1, <1>5, <1>9, <1>10, <1>11 DEF LineInv

(* A request that is answered was asked: it is on its way no more. *)
LEMMA AnsweredOnce ==
  ASSUME MachineInv, attached \in Socket, NEW o \in Open, NEW i \in 1..Len(up[attached]), Answers(up[attached][i], o)
  PROVE  /\ work[o] = "done" /\ \A k : ~Behind(o, k)
         /\ \A j \in 1..Len(up[attached]) : Answers(up[attached][j], o) => j = i
<1>1. Answered(attached) /\ Asked(attached) BY DEF MachineInv
<1>2. work[o] = "done" /\ \A j \in 1..Len(up[attached]) : Answers(up[attached][j], o) => j = i
  BY <1>1 DEF Answered
<1> QED BY <1>1, <1>2 DEF Behind, Asked

(* "opened" and "refused": the request that waits is answered. *)
LEMMA LineAnswers ==
  ASSUME IInv, MachineInv, LineInv, attached' = attached, attached \in Socket,
         up[attached] \in Seq(Message), UNCHANGED <<down, machine>>,
         up[attached] # <<>>, up'[attached] = Tail(up[attached]),
         NEW o \in Waiting, Answers(Head(up[attached]), o), Waiting' = Waiting \ {o}, channel' \in {0, o},
         channel' = o => opens'[o] = "open" /\ Head(up[attached]) = Says("opened", o)
  PROVE  LineInv'
<1>1. /\ Len(up[attached]) \in Nat /\ Len(up'[attached]) = Len(up[attached]) - 1
      /\ \A j \in 1..Len(up'[attached]) : j + 1 \in 1..Len(up[attached]) /\ up'[attached][j] = up[attached][j + 1]
      /\ Head(up[attached]) = up[attached][1] /\ 1 \in 1..Len(up[attached])
  BY TailAt
<1>2. o \in Open BY DEF Waiting
<1>3. /\ work[o] = "done" /\ \A k : ~Behind(o, k)
      /\ \A j \in 1..Len(up[attached]) : Answers(up[attached][j], o) => j = 1
  BY <1>1, <1>2, AnsweredOnce
<1>4. \A k : ~Clear(k) BY <1>3 DEF Clear
<1>5. \A p : \A k \in Nat : Comes(p, k + 1) => Comes(p, k)' BY <1>3, ComesSooner
<1>6. Busy' = Busy /\ \A p : Runs(p)' <=> Runs(p) BY DEF Busy, Runs, machine
<1>7. \A p : \A k \in Nat : Served(p, k + 1) => Served(p, k)' BY <1>5, <1>6 DEF Served
<1>8. ASSUME NEW i \in Nat, Spoils(i)' PROVE FALSE
  <2>1. i \in 1..Len(down[attached]) BY <1>8 DEF Spoils
  <2>2. CASE down[attached][i] = Says("close", 0) BY <1>4, <2>1, <2>2 DEF Spoils, LineInv
  <2>3. ASSUME NEW p \in Open, p \notin Waiting', down[attached][i] = Asks(p) PROVE FALSE
    <3>1. CASE p = o
      <4>1. i > 0 BY <2>1
      <4>2. Behind(o, 0) BY <2>1, <2>3, <3>1, <4>1 DEF Behind
      <4> QED BY <1>3, <4>2
    <3>2. CASE p # o BY <1>4, <2>1, <2>3, <3>2 DEF Spoils, LineInv
    <3> QED BY <3>1, <3>2
  <2> QED BY <1>8, <2>2, <2>3 DEF Spoils
<1>9. Busy' \subseteq Waiting' BY <1>2, <1>3, <1>4, <1>6 DEF LineInv, Busy
<1>10. ASSUME NEW p \in Waiting', NEW i \in 1..Len(up'[attached]), up'[attached][i] = Says("opened", p)
       PROVE  Served(p, i)'
  <2>1. Served(p, i + 1) BY <1>1, <1>10 DEF LineInv
  <2>2. i \in Nat OBVIOUS
  <2> QED BY <1>7, <2>1, <2>2
<1>11. ASSUME NEW p \in Open, channel' = p PROVE opens'[p] = "open" /\ Served(p, 0)'
  <2>1. p = o /\ opens'[o] = "open" /\ up[attached][1] = Says("opened", o) BY <1>1, <1>11, Bounds
  <2>2. Served(o, 0 + 1) BY <1>1, <2>1 DEF LineInv
  <2>3. Served(o, 0)' BY <1>7, <2>2
  <2> QED BY <2>1, <2>3
<1> QED BY <1>8, <1>9, <1>10, <1>11 DEF LineInv

(* open(): the request is on its way behind everything else. *)
LEMMA LineAsks ==
  ASSUME IInv, WireInv, MachineInv, LineInv, Line, attached \in Socket, NEW o \in Open, Ask(o)
  PROVE  LineInv'
<1>1. /\ opens[o] = "none" /\ opens' = [opens EXCEPT ![o] = "waiting"] /\ down' = SentDown(attached, Asks(o))
      /\ UNCHANGED <<attached, channel, machine, up>>
  BY DEF Ask, Asks
<1>2. opens \in [Open -> State] /\ down[attached] \in Seq(Message) /\ up[attached] \in Seq(Message)
      /\ Asks(o) \in Message
  BY ThingsSaid DEF IInv, Registered, WireInv, Asks
<1>3. Waiting' = Waiting \cup {o} /\ o \notin Waiting BY <1>1, <1>2 DEF Waiting
<1>4. down'[attached] = Append(down[attached], Asks(o)) BY <1>1, <1>2, SaidDown DEF Line
<1>5. /\ Len(down'[attached]) = Len(down[attached]) + 1 /\ Len(down[attached]) \in Nat
      /\ down'[attached][Len(down[attached]) + 1] = Asks(o)
      /\ \A i \in 1..Len(down[attached]) : down'[attached][i] = down[attached][i]
  BY <1>2, <1>4, AppendAt
<1>6. \A p, i : Behind(p, i) => Behind(p, i)' BY <1>1, <1>2, <1>4, BehindStill
<1>7. \A i \in 0..Len(down[attached]) : Behind(o, i)' BY <1>1, <1>5 DEF Behind
<1>8. \A i \in 0..Len(down[attached]) : Clear(i) => Clear(i)' BY <1>1, <1>3, <1>6, <1>7 DEF Clear
<1>9. ASSUME NEW i \in Nat, Spoils(i)' PROVE Clear(i)'
  <2>1. i \in 1..Len(down'[attached]) BY <1>1, <1>9 DEF Spoils
  <2>2. i # Len(down[attached]) + 1
    <3> SUFFICES ASSUME i = Len(down[attached]) + 1 PROVE FALSE OBVIOUS
    <3>1. down'[attached][i] = Asks(o) BY <1>5
    <3>2. \A p \in Open : p \notin Waiting' => Asks(o) # Asks(p) BY <1>3, SaysApart
    <3> QED BY <1>1, <1>9, <3>1, <3>2, SaysApart DEF Spoils
  <2>3. i \in 1..Len(down[attached]) /\ i \in 0..Len(down[attached]) BY <1>5, <2>1, <2>2
  <2>4. Spoils(i) BY <1>1, <1>3, <1>5, <1>9, <2>3 DEF Spoils
  <2>5. Clear(i) BY <2>4 DEF LineInv
  <2> QED BY <1>8, <2>3, <2>5
<1>10. Busy' = Busy /\ \A p : Runs(p)' <=> Runs(p) BY <1>1 DEF Busy, Runs, machine
<1>11. 0 \in 0..Len(down[attached]) BY <1>5
<1>12. Busy' \subseteq Waiting' \/ Clear(0)' BY <1>3, <1>8, <1>10, <1>11 DEF LineInv
<1>13. \A p, k : Comes(p, k) => Comes(p, k)' BY <1>1, <1>2, <1>3, ComesStill
<1>14. \A p, k : Served(p, k) => Served(p, k)' BY <1>10, <1>13 DEF Served
<1>15. ASSUME NEW p \in Open, channel' = p PROVE opens'[p] = "open" /\ Served(p, 0)'
  <2>1. opens[p] = "open" /\ Served(p, 0) BY <1>1, <1>15 DEF LineInv
  <2>2. p # o BY <1>1, <2>1
  <2> QED BY <1>1, <1>2, <1>14, <2>1, <2>2
<1>16. work[o] = "none" BY <1>1 DEF MachineInv
<1>17. ASSUME NEW p \in Waiting', NEW i \in 1..Len(up'[attached]), up'[attached][i] = Says("opened", p)
       PROVE  Served(p, i)'
  <2>1. p \in Open /\ i \in 1..Len(up[attached]) /\ up[attached][i] = Says("opened", p) /\ Answers(up[attached][i], p)
    BY <1>1, <1>17 DEF Waiting, Answers
  <2>2. work[p] = "done" BY <2>1, AnsweredOnce
  <2>3. p \in Waiting BY <1>3, <1>16, <1>17, <2>2
  <2> QED BY <1>14, <2>1, <2>3 DEF LineInv
<1> QED BY <1>1, <1>9, <1>12, <1>15, <1>17 DEF LineInv

(* The desktop takes a message: what was behind it is nearer. *)
LEMMA LineTakes ==
  ASSUME WireInv, LineInv, Line, attached \in Socket, down[attached] # <<>>,
         down' = [down EXCEPT ![attached] = Tail(@)], UNCHANGED <<attached, channel, opens>>
  PROVE  /\ Waiting' = Waiting
         /\ \A i \in Nat : Spoils(i)' => Clear(i)'
         /\ Spoils(1) => Clear(0)'
<1>1. down \in [Socket -> Seq(Message)] /\ down[attached] \in Seq(Message) BY DEF WireInv
<1>2. down'[attached] = Tail(down[attached]) BY <1>1
<1>3. /\ Len(down[attached]) \in Nat /\ Len(down'[attached]) = Len(down[attached]) - 1
      /\ \A i \in 1..Len(down'[attached]) : i + 1 \in 1..Len(down[attached]) /\ down'[attached][i] = down[attached][i + 1]
  BY <1>1, <1>2, TailAt
<1>4. Waiting' = Waiting BY DEF Waiting
<1>5. \A o : \A i \in Nat : Behind(o, i + 1) => Behind(o, i)' BY <1>1, <1>2, BehindSooner
<1>6. \A i \in Nat : Clear(i + 1) => Clear(i)' BY <1>4, <1>5 DEF Clear
<1>7. \A i \in Nat : Spoils(i)' => Spoils(i + 1) BY <1>3, <1>4 DEF Spoils
<1>8. ASSUME NEW i \in Nat, Spoils(i)' PROVE Clear(i)'
  <2>1. Spoils(i + 1) BY <1>7, <1>8
  <2>2. i + 1 \in Nat OBVIOUS
  <2>3. Clear(i + 1) BY <2>1, <2>2 DEF LineInv
  <2> QED BY <1>6, <2>3
<1>9. Spoils(1) => Clear(0)'
  <2> SUFFICES ASSUME Spoils(1) PROVE Clear(0)' OBVIOUS
  <2>1. Clear(0 + 1) BY DEF LineInv
  <2> QED BY <1>6, <2>1
<1> QED BY <1>4, <1>8, <1>9

(* "open": a request that nobody waits for any more is not the last. *)
LEMMA LineToOpen ==
  ASSUME WireInv, MachineInv, LineInv, Line, Line', attached \in Socket, NEW o \in Open, ToOpen(o)
  PROVE  LineInv'
<1>1. /\ attached = current /\ down[attached] # <<>> /\ Head(down[attached]) = Asks(o)
      /\ down' = [down EXCEPT ![attached] = Tail(@)] /\ work' = [work EXCEPT ![o] = "stopping"]
      /\ UNCHANGED <<attached, channel, opens>> /\ (~crossed' => Busy = {})
  BY DEF Line, ToOpen, Told, registry, Asks
<1>2. Waiting' = Waiting /\ (\A i \in Nat : Spoils(i)' => Clear(i)') /\ (Spoils(1) => Clear(0)')
  BY <1>1, LineTakes
<1>3. Busy = {} BY <1>1 DEF Line
<1>4. Busy' = {o} BY <1>1, <1>3 DEF Busy, MachineInv
<1>5. \A p, k : Served(p, k)' BY <1>4 DEF Served
<1>6. Busy' \subseteq Waiting' \/ Clear(0)'
  <2>1. CASE o \in Waiting BY <1>2, <1>4, <2>1
  <2>2. CASE o \notin Waiting
    <3>1. down[attached] \in Seq(Message) BY DEF WireInv
    <3>2. 1 \in 1..Len(down[attached]) /\ down[attached][1] = Asks(o) BY <1>1, <3>1, TailAt
    <3>3. Spoils(1) BY <2>2, <3>2 DEF Spoils
    <3> QED BY <1>2, <3>3
  <2> QED BY <2>1, <2>2
<1>7. \A p \in Open : channel' = p => opens'[p] = "open" BY <1>1 DEF LineInv
<1> QED BY <1>2, <1>5, <1>6, <1>7 DEF LineInv

(* "close": whatever waits has yet to be asked. *)
LEMMA LineToClose ==
  ASSUME WireInv, MachineInv, LineInv, Line, attached \in Socket, ToClose PROVE LineInv'
<1>1. /\ attached = current /\ down[attached] # <<>> /\ Head(down[attached]) = Says("close", 0)
      /\ down' = [down EXCEPT ![attached] = Tail(@)] /\ UNCHANGED <<attached, channel, opens, up>>
  BY DEF Line, ToClose, Told, registry
<1>2. Waiting' = Waiting /\ (\A i \in Nat : Spoils(i)' => Clear(i)') /\ (Spoils(1) => Clear(0)')
  BY <1>1, LineTakes
<1>3. down[attached] \in Seq(Message) BY DEF WireInv
<1>4. 1 \in 1..Len(down[attached]) /\ down[attached][1] = Says("close", 0) BY <1>1, <1>3, TailAt
<1>5. Spoils(1) BY <1>4 DEF Spoils
<1>6. Clear(1) /\ Clear(0)' BY <1>2, <1>5 DEF LineInv
<1>7. ASSUME NEW p \in Waiting', NEW i \in 1..Len(up'[attached]), up'[attached][i] = Says("opened", p)
      PROVE  FALSE
  <2>1. p \in Waiting /\ p \in Open /\ i \in 1..Len(up[attached]) /\ Answers(up[attached][i], p)
    BY <1>1, <1>2, <1>7 DEF Waiting, Answers
  <2>2. ~Behind(p, 1) BY <2>1, AnsweredOnce
  <2> QED BY <1>6, <2>1, <2>2 DEF Clear
<1>8. \A p \in Open : channel' # p BY <1>6, Bounds DEF Clear
<1> QED BY <1>1, <1>2, <1>6, <1>7, <1>8 DEF LineInv

(* The processes: one that starts takes the name when somebody waits for   *)
(* it, or when what waits has yet to be asked.                             *)
LEMMA LineStarts ==
  ASSUME WireInv, MachineInv, LineInv, attached \in Socket, NEW o \in Open, Start(o)
  PROVE  LineInv'
<1>1. /\ work[o] = "stopping" /\ work' = [work EXCEPT ![o] = "starting"]
      /\ UNCHANGED <<attached, channel, opens, up, down>>
  BY DEF Start, wires, registry
<1>2. Busy' = Busy /\ o \in Busy BY <1>1 DEF Busy, MachineInv
<1>3. \A p, k : Served(p, k)' BY <1>2 DEF Served
<1>4. down[attached] \in Seq(Message) /\ up[attached] \in Seq(Message) BY DEF WireInv
<1>5. Waiting' = Waiting BY <1>1 DEF Waiting
<1>6. \A p \in Open : channel = p => opens'[p] = "open" BY <1>1 DEF LineInv
<1> QED BY <1>1, <1>2, <1>3, <1>4, <1>5, <1>6, LineGrows

(* ... is told of, and whoever had the name is answered for, *)
LEMMA LineDone ==
  ASSUME WireInv, MachineInv, LineInv, Line, attached \in Socket, NEW o \in Open, Started(o) \/ DoesNotStart(o)
  PROVE  LineInv'
<1>1. PICK m \in Message :
        /\ Answers(m, o) /\ up' = SentUp(m) /\ work[o] = "starting" /\ work' = [work EXCEPT ![o] = "done"]
        /\ UNCHANGED <<attached, channel, opens, down>>
        /\ m = Says("opened", o) => entry' = o /\ UNCHANGED <<running, dying>>
  <2>1. CASE Started(o) BY <2>1, ThingsSaid DEF Started, registry, Answers
  <2>2. CASE DoesNotStart(o)
    <3>1. Says("refused", o) # Says("opened", o) BY DEF Says
    <3> QED BY <2>2, <3>1, ThingsSaid DEF DoesNotStart, registry, Answers
  <2> QED BY <2>1, <2>2
<1>2. down[attached] \in Seq(Message) /\ up[attached] \in Seq(Message) BY DEF WireInv
<1>3. up'[attached] = Append(up[attached], m) BY <1>1, <1>2, SaidUp DEF Line
<1>4. /\ Len(up[attached]) \in Nat /\ Len(up'[attached]) = Len(up[attached]) + 1
      /\ up'[attached][Len(up[attached]) + 1] = m
  BY <1>2, <1>3, AppendAt
<1>5. Waiting' = Waiting /\ Waiting \subseteq Open BY <1>1 DEF Waiting
<1>6. Busy' = Busy \ {o} /\ o \in Busy BY <1>1 DEF Busy, MachineInv
<1>7. ASSUME o \in Waiting, NEW p, p # o, NEW k \in 0..Len(up[attached]) PROVE Served(p, k)'
  <2>1. Len(up[attached]) + 1 \in 1..Len(up'[attached]) /\ Len(up[attached]) + 1 > k BY <1>4
  <2>2. Comes(p, k)' BY <1>1, <1>4, <1>5, <1>7, <2>1 DEF Comes
  <2> QED BY <2>2 DEF Served
<1>8. o \in Waiting \/ Clear(0) BY <1>6 DEF LineInv
<1>9. ASSUME NEW p \in Open, channel = p PROVE opens'[p] = "open" /\ Served(p, 0)'
  <2>1. opens[p] = "open" BY <1>9 DEF LineInv
  <2>2. ~Clear(0) BY <1>9, Bounds DEF Clear
  <2>3. o \in Waiting /\ p # o BY <1>8, <2>1, <2>2 DEF Waiting
  <2>4. 0 \in 0..Len(up[attached]) BY <1>4
  <2> QED BY <1>1, <1>7, <2>1, <2>3, <2>4
<1>10. ASSUME NEW p \in Waiting, NEW i \in 1..Len(up[attached]), up[attached][i] = Says("opened", p)
       PROVE  Served(p, i)'
  <2>1. p \in Open /\ Answers(up[attached][i], p) BY <1>5, <1>10 DEF Answers
  <2>2. work[p] = "done" /\ ~Behind(p, 0) BY <2>1, AnsweredOnce
  <2>3. ~Clear(0) BY <1>10, <2>2 DEF Clear
  <2>4. o \in Waiting /\ p # o BY <1>1, <1>8, <2>2, <2>3
  <2>5. i \in 0..Len(up[attached]) OBVIOUS
  <2> QED BY <1>7, <2>4, <2>5
<1>11. ASSUME NEW p \in Waiting, m = Says("opened", p), NEW i \in Nat PROVE Served(p, i)'
  <2>1. p = o BY <1>1, <1>5, <1>11, SaysApart DEF Answers
  <2>2. o \in running \ dying BY <1>1 DEF MachineInv
  <2>3. Runs(o)' BY <1>1, <1>11, <2>1, <2>2 DEF Runs
  <2> QED BY <2>1, <2>3 DEF Served
<1>12. Busy' \subseteq Busy BY <1>6
<1> QED BY <1>1, <1>2, <1>3, <1>5, <1>9, <1>10, <1>11, <1>12, LineGrows

(* ... and one that ends is told of, if it had the name. *)
LEMMA LineEnds ==
  ASSUME WireInv, MachineInv, LineInv, Line, attached \in Socket, NEW o \in Open, Dies(o) \/ Exits(o)
  PROVE  LineInv'
<1>1. /\ running' = running \ {o} /\ dying' \subseteq dying /\ UNCHANGED <<attached, channel, opens, down, work>>
      /\ \/ entry' = entry /\ up' = up /\ (entry = o => o \in dying)
         \/ up' = SentUp(Says("exited", 0))
  <2>1. CASE Dies(o) BY <2>1 DEF Dies, registry, wires
  <2>2. CASE Exits(o) BY <2>2 DEF Exits, registry
  <2> QED BY <2>1, <2>2
<1>2. down[attached] \in Seq(Message) /\ up[attached] \in Seq(Message) BY DEF WireInv
<1>3. Waiting' = Waiting /\ Busy' = Busy BY <1>1 DEF Waiting, Busy
<1>4. \A p \in Open : channel = p => opens'[p] = "open" BY <1>1 DEF LineInv
<1>5. CASE entry' = entry /\ up' = up /\ (entry = o => o \in dying)
  <2>1. \A p \in Open : Runs(p) => Runs(p)' BY <1>1, <1>5 DEF Runs
  <2>2. up'[attached] = up[attached] /\ down'[attached] = down[attached] BY <1>1, <1>5
  <2> QED BY <1>1, <1>2, <1>3, <1>4, <2>1, <2>2, LineElsewhere
<1>6. CASE up' = SentUp(Says("exited", 0))
  <2>1. up'[attached] = Append(up[attached], Says("exited", 0)) /\ Says("exited", 0) \in Message
    BY <1>2, <1>6, ThingsSaid, SaidUp DEF Line
  <2>2. /\ Len(up[attached]) \in Nat /\ Len(up'[attached]) = Len(up[attached]) + 1
        /\ up'[attached][Len(up[attached]) + 1] = Says("exited", 0)
    BY <1>2, <2>1, AppendAt
  <2>3. ASSUME NEW p, NEW k \in 0..Len(up[attached]) PROVE Served(p, k)'
    <3>1. Len(up[attached]) + 1 \in 1..Len(up'[attached]) /\ Len(up[attached]) + 1 > k BY <2>2
    <3>2. Comes(p, k)' BY <1>1, <2>2, <3>1 DEF Comes
    <3> QED BY <3>2 DEF Served
  <2>4. \A p : Served(p, 0)' BY <2>2, <2>3
  <2>5. ASSUME NEW p, NEW i \in 1..Len(up[attached]) PROVE Served(p, i)'
    <3>1. i \in 0..Len(up[attached]) OBVIOUS
    <3> QED BY <2>3, <3>1
  <2>6. \A p : Says("exited", 0) # Says("opened", p) BY DEF Says
  <2> QED BY <1>1, <1>2, <1>3, <1>4, <2>1, <2>4, <2>5, <2>6, LineGrows
<1> QED BY <1>1, <1>5, <1>6

(* Answers and ends that come from the desktop. *)
LEMMA LineReceives ==
  ASSUME IInv, WireInv, MachineInv, LineInv, Line, Line', NEW s \in Socket, NEW o \in Open,
         Opened(s, o) \/ Refused(s, o) \/ Heard(s, o), UNCHANGED attached, attached \in Socket
  PROVE  LineInv'
<1>1. PICK m : Received(s, m) /\ UNCHANGED <<down, machine>>
  BY DEF Opened, Refused, Heard, Received
<1>2. up[s] # <<>> /\ up' = [up EXCEPT ![s] = Tail(@)] BY <1>1 DEF Received
<1>3. /\ up \in [Socket -> Seq(Message)] /\ down[attached] \in Seq(Message) /\ up[attached] \in Seq(Message)
      /\ down'[attached] = down[attached] /\ opens \in [Open -> State]
  BY <1>1 DEF WireInv, IInv, Registered
<1>4. Busy' = Busy /\ \A p : Runs(p)' <=> Runs(p) BY <1>1 DEF Busy, Runs, machine
<1>5. CASE s # attached
  <2>1. up'[attached] = up[attached] BY <1>2, <1>3, <1>5
  <2>2. UNCHANGED <<opens, channel>> BY <1>5 DEF Opened, Refused, Heard
  <2>3. Waiting' = Waiting /\ \A p \in Open : channel = p => opens'[p] = "open"
    BY <2>2 DEF Waiting, LineInv
  <2> QED BY <1>3, <1>4, <2>1, <2>2, <2>3, LineElsewhere
<1>6. CASE s = attached
  <2>1. up[attached] # <<>> /\ up'[attached] = Tail(up[attached]) BY <1>2, <1>3, <1>6
  <2>2. CASE Heard(s, o)
    <3>1. UNCHANGED <<opens, channel>> /\ Head(up[attached]) = Says("rpc", o)
      BY <1>6, <2>2 DEF Heard, Received
    <3>2. Waiting' = Waiting /\ Waiting \subseteq Open BY <3>1 DEF Waiting
    <3>3. Says("rpc", o) # Says("exited", 0) BY DEF Says
    <3>4. \A p \in Waiting : ~Answers(Head(up[attached]), p) BY <3>1, <3>2, SaysApart
    <3> QED BY <1>1, <1>3, <2>1, <3>1, <3>2, <3>3, <3>4, LineHears
  <2>3. CASE Opened(s, o)
    <3>1. Head(up[attached]) = Says("opened", o) BY <1>6, <2>3 DEF Opened, Received
    <3>2. Answers(Head(up[attached]), o) BY <3>1 DEF Answers
    <3>3. CASE opens[o] = "waiting" /\ on[o] = s
      <4>1. opens' = [EndChannel EXCEPT ![o] = "open"] /\ channel' = o BY <1>6, <2>3, <3>3 DEF Opened
      <4>2. EndChannel \in [Open -> State] BY EndsOne
      <4>3. opens'[o] = "open" /\ \A p \in Open : p # o => opens'[p] = EndChannel[p] BY <4>1, <4>2
      <4>4. \A p \in Open : opens[p] = "waiting" => p # channel BY DEF LineInv
      <4>5. \A p \in Open : p # o => (opens'[p] = "waiting" <=> opens[p] = "waiting") BY <4>3, <4>4, EndsOne
      <4>6. Waiting' = Waiting \ {o} BY <4>3, <4>5 DEF Waiting
      <4>7. o \in Waiting BY <3>3 DEF Waiting
      <4> QED BY <1>1, <1>3, <2>1, <3>1, <3>2, <4>1, <4>3, <4>6, <4>7, LineAnswers
    <3>4. CASE ~(opens[o] = "waiting" /\ on[o] = s)
      <4>1. UNCHANGED <<opens, channel>> BY <2>3, <3>4 DEF Opened
      <4>2. o \notin Waiting BY <1>6, <3>4 DEF Waiting, IInv, Attended
      <4>3. Waiting' = Waiting /\ Waiting \subseteq Open BY <4>1 DEF Waiting
      <4>4. Says("opened", o) # Says("exited", 0) BY DEF Says
      <4>5. \A p \in Waiting : ~Answers(Head(up[attached]), p) BY <3>2, <4>2, <4>3, SaysApart, ThingsSaid, <3>1
      <4> QED BY <1>1, <1>3, <2>1, <3>1, <4>1, <4>3, <4>4, <4>5, LineHears
    <3> QED BY <3>3, <3>4
  <2>4. CASE Refused(s, o)
    <3>1. Head(up[attached]) = Says("refused", o) /\ channel' = channel BY <1>6, <2>4 DEF Refused, Received
    <3>2. Answers(Head(up[attached]), o) BY <3>1 DEF Answers
    <3>3. channel = 0 BY <2>4 DEF Refused, Line
    <3>4. CASE opens[o] = "waiting" /\ on[o] = s
      <4>1. opens' = [opens EXCEPT ![o] = "failed"] BY <1>6, <2>4, <3>4 DEF Refused
      <4>2. opens'[o] = "failed" /\ \A p \in Open : p # o => opens'[p] = opens[p] BY <1>3, <4>1
      <4>3. Waiting' = Waiting \ {o} BY <4>2 DEF Waiting
      <4>4. o \in Waiting /\ channel' \in {0, o} /\ channel' # o BY <3>1, <3>3, <3>4, Bounds DEF Waiting
      <4> QED BY <1>1, <1>3, <2>1, <3>2, <4>3, <4>4, LineAnswers
    <3>5. CASE ~(opens[o] = "waiting" /\ on[o] = s)
      <4>1. opens' = opens BY <2>4, <3>5 DEF Refused
      <4>2. Waiting' = Waiting BY <4>1 DEF Waiting
      <4> QED BY <1>1, <1>3, <2>1, <3>1, <3>3, <4>2, LineHears
    <3> QED BY <3>4, <3>5
  <2> QED BY <2>2, <2>3, <2>4
<1> QED BY <1>5, <1>6

(* What the session does with a request and with its channel. *)
LEMMA LineLeaves ==
  ASSUME IInv, WireInv, MachineInv, LineInv, Line, Line', NEW o \in Open, TimeOut(o) \/ Leave(o) \/ StopHost(o),
         UNCHANGED attached, attached \in Socket
  PROVE  LineInv'
<1>1. /\ opens \in [Open -> State] /\ down[attached] \in Seq(Message) /\ up[attached] \in Seq(Message)
      /\ channel \in {0} \cup Open
  BY Bounds DEF WireInv, IInv, Registered
<1>2. UNCHANGED <<up, machine>> BY DEF TimeOut, Leave, StopHost, wires
<1>3. ~crossed' BY DEF Line
<1>4. ASSUME UNCHANGED <<channel, down>>, Waiting' = Waiting, \A p \in Open : channel = p => opens'[p] = "open"
      PROVE  LineInv'
  <2>1. Busy' = Busy /\ \A p : Runs(p)' <=> Runs(p) BY <1>2 DEF Busy, Runs, machine
  <2>2. up'[attached] = up[attached] /\ down'[attached] = down[attached] BY <1>2, <1>4
  <2> QED BY <1>1, <1>4, <2>1, <2>2, LineElsewhere
<1>5. CASE TimeOut(o)
  <2>1. opens' = [opens EXCEPT ![o] = "failed"] /\ channel' = channel /\ channel = 0 /\ Waiting = {o}
    BY <1>3, <1>5 DEF TimeOut
  <2>2. opens'[o] = "failed" /\ \A p \in Open : p # o => opens'[p] = opens[p] BY <1>1, <2>1
  <2>3. Waiting' = {} BY <2>1, <2>2 DEF Waiting
  <2> QED BY <2>1, <2>3, Quiet
<1>6. CASE Leave(o)
  <2>1. opens' = [opens EXCEPT ![o] = "left"] /\ opens[o] \in {"open", "ended"} BY <1>6 DEF Leave
  <2>2. opens'[o] = "left" /\ \A p \in Open : p # o => opens'[p] = opens[p] BY <1>1, <2>1
  <2>3. Waiting' = Waiting BY <2>1, <2>2 DEF Waiting
  <2>4. CASE opens[o] = "ended"
    <3>1. UNCHANGED <<channel, down>> BY <1>6, <2>4 DEF Leave
    <3>2. \A p \in Open : channel = p => opens'[p] = "open" BY <2>2, <2>4 DEF LineInv
    <3> QED BY <1>4, <2>3, <3>1, <3>2
  <2>5. CASE opens[o] = "open"
    <3>1. channel = o BY <2>5 DEF IInv, Attended
    <3>2. channel' = 0 /\ Waiting = {} BY <1>3, <1>6, <2>5, <3>1 DEF Leave
    <3> QED BY <2>3, <3>2, Quiet
  <2> QED BY <2>1, <2>4, <2>5
<1>7. CASE StopHost(o)
  <2>1. CASE ~named \/ attached = 0
    <3>1. UNCHANGED <<opens, channel, down>> BY <1>7, <2>1 DEF StopHost
    <3>2. Waiting' = Waiting /\ \A p \in Open : channel = p => opens'[p] = "open" BY <3>1 DEF Waiting, LineInv
    <3> QED BY <1>4, <3>1, <3>2
  <2>2. CASE named /\ attached # 0
    <3>1. opens' = EndChannel /\ channel' = 0 /\ Waiting = {} BY <1>3, <1>7, <2>2 DEF StopHost
    <3>2. Waiting' = {} BY <3>1, EndsOne DEF Waiting
    <3> QED BY <3>1, <3>2, Quiet
  <2> QED BY <2>1, <2>2
<1> QED BY <1>5, <1>6, <1>7

(* Every step keeps the channel's process, as long as nothing crosses.     *)
LEMMA LineStays ==
  ASSUME IInv, WireInv, MachineInv, Line => LineInv, [Next]_vars, Line' PROVE LineInv'
<1>1. CASE \E s \in Socket : Authenticated(s)
  <2>1. channel' = 0 /\ opens' = Dropped(attached) BY <1>1 DEF Authenticated, Attach
  <2>2. Waiting' = {} BY <2>1, DropsAll DEF Waiting
  <2> QED BY <2>1, <2>2, Quiet
<1>2. CASE ~\E s \in Socket : Authenticated(s)
  <2>1. Line /\ UNCHANGED <<attached, current>> /\ attached \in Socket /\ attached \notin closed'
    BY <1>2, LineBefore
  <2>2. LineInv BY <2>1
  <2>3. /\ up \in [Socket -> Seq(Message)] /\ down \in [Socket -> Seq(Message)]
        /\ down[attached] \in Seq(Message) /\ up[attached] \in Seq(Message)
    BY <2>1 DEF WireInv
  <2>4. ASSUME UNCHANGED <<opens, channel, machine, down>>, up'[attached] = up[attached]
        PROVE  LineInv'
    <3>1. Busy' = Busy /\ \A p : Runs(p)' <=> Runs(p) BY <2>4 DEF Busy, Runs, machine
    <3>2. Waiting' = Waiting BY <2>4 DEF Waiting
    <3>3. \A p \in Open : channel = p => opens'[p] = "open" BY <2>2, <2>4 DEF LineInv
    <3>4. down'[attached] = down[attached] BY <2>4
    <3> QED BY <2>1, <2>2, <2>3, <2>4, <3>1, <3>2, <3>3, <3>4, LineElsewhere
  <2>5. CASE UNCHANGED vars
    <3>1. UNCHANGED <<opens, channel, machine, down, up>> BY <2>5 DEF vars, machine
    <3> QED BY <2>4, <3>1
  <2>6. CASE Dial \/ Hangs \/ Crash
    <3>1. ~Dial
      <4> SUFFICES ASSUME Dial PROVE FALSE OBVIOUS
      <4>1. current = 0 /\ attached # 0 /\ attached = current BY <2>1 DEF Dial, Line
      <4> QED BY <4>1
    <3>2. ~Hangs BY <2>1 DEF Hangs, Line
    <3>3. ~Crash BY <2>1 DEF Crash, Line
    <3> QED BY <2>6, <3>1, <3>2, <3>3
  <2>7. CASE SweepRow \/ \E done \in BOOLEAN : Mutate(done)
    <3>1. UNCHANGED <<opens, channel, machine, down, up>> BY <2>7 DEF SweepRow, Mutate, wires, registry
    <3> QED BY <2>4, <3>1
  <2>8. CASE ToClose BY <2>1, <2>2, <2>8, LineToClose
  <2>9. ASSUME NEW s \in Socket, Break(s) \/ Rejected(s) PROVE LineInv'
    <3>1. UNCHANGED <<opens, channel, machine, down, up>> BY <2>9 DEF Break, Rejected, registry
    <3> QED BY <2>4, <3>1
  <2>10. ASSUME NEW s \in Socket, Closes(s) \/ Sweep(s) PROVE LineInv'
    <3>1. /\ s \in closed' /\ UNCHANGED <<machine, down>> /\ up' = [up EXCEPT ![s] = <<>>] /\ Close(s)
      BY <2>10 DEF Closes, Sweep
    <3>2. s # attached BY <2>1, <3>1
    <3>3. UNCHANGED <<opens, channel>> BY <3>1, <3>2 DEF Close, Detach
    <3>4. up'[attached] = up[attached] BY <2>1, <2>3, <3>1, <3>2
    <3> QED BY <2>4, <3>1, <3>3, <3>4
  <2>11. ASSUME NEW s \in Socket, Introduced(s) \/ TooEarly(s) PROVE LineInv'
    <3>1. /\ UNCHANGED <<opens, channel, machine, down>> /\ up[s] # <<>> /\ up' = [up EXCEPT ![s] = Tail(@)]
      BY <2>11 DEF Introduced, TooEarly, registry
    <3>2. attached \in announced BY <2>1 DEF WireInv, Line
    <3>3. s # attached
      <4>1. CASE TooEarly(s) BY <3>2, <4>1 DEF TooEarly
      <4>2. CASE Introduced(s)
        <5>1. up[s] # <<>> /\ Head(up[s]).type = "auth" /\ up[s] \in Seq(Message) /\ AuthOnce(s)
          BY <4>2 DEF Introduced, WireInv
        <5>2. 1 \in 1..Len(up[s]) /\ up[s][1].type = "auth" BY <5>1, TailAt
        <5> QED BY <3>2, <5>1, <5>2 DEF AuthOnce
      <4> QED BY <2>11, <4>1, <4>2
    <3>4. up'[attached] = up[attached] BY <2>1, <2>3, <3>1, <3>3
    <3> QED BY <2>4, <3>1, <3>4
  <2>12. ASSUME NEW s \in Socket, Exited(s) PROVE LineInv'
    <3>1. CASE s # attached
      <4>1. /\ UNCHANGED <<opens, channel, machine, down>> /\ up' = [up EXCEPT ![s] = Tail(@)]
        BY <2>12, <3>1 DEF Exited, Received
      <4>2. up'[attached] = up[attached] BY <2>1, <2>3, <3>1, <4>1
      <4> QED BY <2>4, <4>1, <4>2
    <3>2. CASE s = attached
      <4>1. channel' = 0 /\ opens' = EndChannel /\ UNCHANGED <<machine, down>> /\ up[attached] # <<>>
            /\ up' = [up EXCEPT ![attached] = Tail(@)]
        BY <2>12, <3>2 DEF Exited, Received
      <4>2. up'[attached] = Tail(up[attached]) /\ down'[attached] = down[attached] BY <2>1, <2>3, <4>1
      <4>3. \A p \in Open : opens[p] = "waiting" => p # channel BY <2>2 DEF LineInv
      <4>4. Waiting' = Waiting BY <4>1, <4>3, EndsOne DEF Waiting
      <4> QED BY <2>1, <2>2, <2>3, <4>1, <4>2, <4>4, LineHears
    <3> QED BY <3>1, <3>2
  <2>13. ASSUME NEW s \in Socket, NEW o \in Open, Opened(s, o) \/ Refused(s, o) \/ Heard(s, o) PROVE LineInv'
    BY <2>1, <2>2, <2>13, LineReceives
  <2>14. ASSUME NEW o \in Open, Ask(o) PROVE LineInv' BY <2>1, <2>2, <2>14, LineAsks
  <2>15. ASSUME NEW o \in Open, TimeOut(o) \/ Leave(o) \/ StopHost(o) PROVE LineInv'
    BY <2>1, <2>2, <2>15, LineLeaves
  <2>16. ASSUME NEW o \in Open, ToOpen(o) PROVE LineInv' BY <2>1, <2>2, <2>16, LineToOpen
  <2>17. ASSUME NEW o \in Open, Start(o) PROVE LineInv' BY <2>1, <2>2, <2>17, LineStarts
  <2>18. ASSUME NEW o \in Open, Started(o) \/ DoesNotStart(o) PROVE LineInv' BY <2>1, <2>2, <2>18, LineDone
  <2>19. ASSUME NEW o \in Open, Dies(o) \/ Exits(o) PROVE LineInv' BY <2>1, <2>2, <2>19, LineEnds
  <2>20. ASSUME NEW o \in Open, Speaks(o) PROVE LineInv'
    <3>1. UNCHANGED <<opens, channel, machine, down>> /\ up' = SentUp(Says("rpc", o)) BY <2>20 DEF Speaks, registry
    <3>2. up'[attached] = Append(up[attached], Says("rpc", o)) BY <2>1, <2>3, <3>1, NotAnswers, SaidUp DEF Line
    <3>3. Busy' = Busy /\ \A p : Runs(p)' <=> Runs(p) BY <3>1 DEF Busy, Runs, machine
    <3>4. Waiting' = Waiting BY <3>1 DEF Waiting
    <3>5. \A p \in Open : channel = p => opens'[p] = "open" BY <2>2, <3>1 DEF LineInv
    <3>6. down'[attached] = down[attached] BY <3>1
    <3> QED BY <2>1, <2>2, <2>3, <3>1, <3>2, <3>3, <3>4, <3>5, <3>6, NotAnswers, LineElsewhere
  <2> QED BY <1>2, <2>5, <2>6, <2>7, <2>8, <2>9, <2>10, <2>11, <2>12, <2>13, <2>14, <2>15, <2>16, <2>17, <2>18,
             <2>19, <2>20 DEF Next
<1> QED BY <1>1, <1>2

(* A channel is a connection's. *)
Seated == channel # 0 => attached # 0

(* With the connection goes its channel. *)
LEMMA SeatedStays == ASSUME Seated, [Next]_vars PROVE Seated'
<1>1. CASE UNCHANGED <<attached, channel>> BY <1>1 DEF Seated
<1>2. CASE channel' = 0 BY <1>2 DEF Seated
<1>3. CASE Dial \/ Hangs \/ ToClose \/ SweepRow \/ UNCHANGED vars \/ \E done \in BOOLEAN : Mutate(done)
  BY <1>1, <1>3 DEF Dial, Hangs, ToClose, Told, SweepRow, vars, Mutate, registry
<1>4. CASE Crash BY <1>2, <1>4 DEF Crash
<1>5. ASSUME NEW s \in Socket, Break(s) \/ Introduced(s) \/ TooEarly(s) \/ Rejected(s) PROVE Seated'
  BY <1>1, <1>5 DEF Break, Introduced, TooEarly, Rejected, registry
<1>6. ASSUME NEW s \in Socket, Closes(s) \/ Sweep(s) PROVE Seated'
  BY <1>1, <1>2, <1>6 DEF Closes, Sweep, Close, Detach
<1>7. ASSUME NEW s \in Socket, Authenticated(s) PROVE Seated' BY <1>2, <1>7 DEF Authenticated, Attach
<1>8. ASSUME NEW s \in Socket, Exited(s) \/ \E o \in Open : Opened(s, o) \/ Refused(s, o) \/ Heard(s, o)
      PROVE  Seated'
  <2>1. s # 0 BY Bounds
  <2>2. attached' = attached BY <1>8 DEF Exited, Opened, Refused, Heard, Received
  <2>3. channel' = channel \/ channel' = 0 \/ s = attached BY <1>8 DEF Exited, Opened, Refused, Heard
  <2> QED BY <1>1, <1>2, <2>1, <2>2, <2>3 DEF Seated
<1>9. ASSUME NEW o \in Open, Ask(o) \/ TimeOut(o) \/ Leave(o) \/ StopHost(o) PROVE Seated'
  <2>1. attached' = attached /\ (channel' = channel \/ channel' = 0)
    BY <1>9 DEF Ask, TimeOut, Leave, StopHost
  <2> QED BY <1>1, <1>2, <2>1
<1>10. ASSUME NEW o \in Open, ToOpen(o) \/ Start(o) \/ Started(o) \/ DoesNotStart(o) \/ Dies(o) \/ Exits(o) \/ Speaks(o)
       PROVE  Seated'
  BY <1>1, <1>10 DEF ToOpen, Told, Start, Started, DoesNotStart, Dies, Exits, Speaks, registry
<1> QED BY <1>3, <1>4, <1>5, <1>6, <1>7, <1>8, <1>9, <1>10 DEF Next

(* DesktopRegistry and DesktopBridge: a channel that has not ended has its *)
(* process, and that process has the name, whatever exits, reconnects and  *)
(* is opened again (registry.ts:185, bridge.ts:192), as long as requests   *)
(* did not overlap on the desktop, no close was sent while one was waited  *)
(* for, and none failed beside a channel or another request: Line holds    *)
(* when nothing is on its way, and nothing is left to come.                *)
THEOREM ChannelHasProcess == Spec => []ChannelServed
<1> DEFINE All == IInv /\ WireInv /\ MachineInv /\ (Line => LineInv) /\ Seated
<1>1. Init => All
  <2> SUFFICES ASSUME Init PROVE All OBVIOUS
  <2>1. IInv
    <3>1. opens = [o \in Open |-> "none"] /\ on = [o \in Open |-> 0] /\ channel = 0 /\ attached = 0
      BY DEF Init
    <3> QED BY <3>1, Bounds DEF IInv, Registered, Attended, State
  <2>2. WireInv BY WireStarts
  <2>3. MachineInv
    <3>1. /\ work = [o \in Open |-> "none"] /\ entry = 0 /\ running = {} /\ dying = {}
          /\ down = [s \in Socket |-> <<>>] /\ up = [s \in Socket |-> <<>>]
      BY DEF Init
    <3>2. \A s \in Socket : down[s] = <<>> /\ up[s] = <<>> BY <3>1
    <3>3. \A s \in Socket : Asked(s) /\ Answered(s) BY <3>2 DEF Asked, Answered
    <3> QED BY <3>1, <3>3 DEF MachineInv
  <2>4. ~Line BY DEF Init, Line
  <2>5. Seated BY DEF Init, Seated
  <2> QED BY <2>1, <2>2, <2>3, <2>4, <2>5
<1>2. All /\ [Next]_vars => All'
  <2> SUFFICES ASSUME All, [Next]_vars PROVE All' OBVIOUS
  <2>1. IInv' BY StaysSo
  <2>2. WireInv' BY WiresStay
  <2>3. MachineInv' BY MachineStays
  <2>4. Line' => LineInv' BY LineStays
  <2>5. Seated' BY SeatedStays
  <2> QED BY <2>1, <2>2, <2>3, <2>4, <2>5
<1>3. All => ChannelServed
  <2> SUFFICES ASSUME All, Settled, ~crossed, channel # 0 PROVE entry = channel /\ channel \in running \ dying
    BY DEF ChannelServed
  <2>1. channel \in Open BY Bounds DEF IInv, Registered
  <2>2. attached # 0 BY DEF Seated
  <2>3. Line BY <2>2 DEF Settled, Line
  <2>4. Served(channel, 0) BY <2>1, <2>3 DEF LineInv
  <2>5. ~Comes(channel, 0) /\ Busy = {} BY <2>2 DEF Settled, Comes
  <2> QED BY <2>4, <2>5 DEF Served, Runs
<1> QED BY <1>1, <1>2, <1>3, PTL DEF Spec
=============================================================================
