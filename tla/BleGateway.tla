----------------------------- MODULE BleGateway -----------------------------
(***************************************************************************)
(* The Bluetooth gateway of the Raspberry Pi: phones and PCs write frames  *)
(* into one GATT characteristic and poll it; for each of them the gateway  *)
(* owns one TCP connection to the web server.  GATT callbacks, signals and *)
(* 100 ms retries run on the one GLib thread; a connector, a reader, a     *)
(* writer and a 60 s deadline run beside it for every tunnel.              *)
(*                                                                         *)
(* A step is one critical section under peer.condition or _lock, or one    *)
(* blocking call on the socket.  A generation numbers an OPEN that was     *)
(* given a tunnel; bytes are chunks, numbered in the order they are sent.  *)
(* The code in an ERROR frame only words the reason and is left out.       *)
(***************************************************************************)
EXTENDS Naturals, Integers, Sequences, FiniteSets

CONSTANTS
    Devices,      \* peers by their BlueZ path
    MaxClients,   \* MAX_CLIENTS
    Buffer,       \* MAX_DIRECTION_BUFFER, in chunks
    MaxTunnels,   \* bound of the model: OPENs that get a tunnel, in the reconnect scene
    MaxChunks,    \* bound of the model: chunks sent each way, in the stop scene
    Scenes,       \* which behaviours are looked at, see below
    None

VARIABLES
    peers,      \* peers[d]: _peers, the current generation of a device or None
    rejected,   \* _rejected: peers answered with ERROR until they disconnect
    tunnel,     \* tunnel[g]: the _Peer of a generation, its threads and its socket
    pending,    \* pending[d]: _pending_writes, the generation a DATA waits for, or None
    next,       \* _next_generation
    upstream,   \* upstream[g]: what the web server sent, received and closed
    phone,      \* phone[g]: chunks acknowledged to and read by the phone, and its outcome
    scene,      \* the scene of this behaviour
    service     \* registration with BlueZ and the GLib loop

gvars == <<peers, rejected, tunnel, pending, next, upstream, phone, service>>

Gens == 1..MaxTunnels
Frames == {"OPEN", "DATA", "CLOSE", "malformed"}
EndMark == 0        \* the None that CLOSE puts at the end of the uplink

(* Bounds of the model.  stop: one peer with one tunnel, and the service may *)
(* be stopped at any moment; share: several peers, one tunnel; reconnect:    *)
(* one peer opens again, with threads of its first tunnel still at work.     *)
Limit(g) == IF scene = "stop" THEN MaxChunks ELSE IF g = 1 THEN 1 ELSE 0
MaxOpened == IF scene = "reconnect" THEN MaxTunnels ELSE 1
Present == IF scene = "share" THEN Devices ELSE {CHOOSE d \in Devices : TRUE}

ASSUME GatewayAssumption ==
    /\ {MaxClients, Buffer, MaxTunnels, MaxChunks} \subseteq Nat \ {0}
    /\ Devices # {} /\ None \notin Nat /\ Scenes \subseteq {"stop", "share", "reconnect"}

NewPeer == [state |-> "connecting", error |-> FALSE, gone |-> FALSE,
            uplink |-> <<>>, bytes |-> 0, downlink |-> <<>>, openOk |-> FALSE,
            attached |-> FALSE, close |-> FALSE, eof |-> FALSE, released |-> FALSE,
            connector |-> "connecting", reader |-> "none", writer |-> "none",
            hand |-> 0, deadline |-> "armed", socket |-> "none"]

Init ==
    /\ peers = [d \in Devices |-> None] /\ rejected = {}
    /\ tunnel = [g \in Gens |-> NewPeer] /\ pending = [d \in Devices |-> None]
    /\ next = 0
    /\ upstream = [g \in Gens |-> [sent |-> 0, got |-> <<>>, ended |-> FALSE]]
    /\ phone = [g \in Gens |-> [sent |-> 0, got |-> <<>>, heard |-> "open"]]
    /\ scene \in Scenes
    /\ service = [phase |-> "started", waits |-> FALSE, call |-> "none", app |-> FALSE,
                  adv |-> FALSE, shutdown |-> FALSE, idle |-> FALSE]

Opened(g) == g <= next
Over(r) == r.gone \/ r.error

-----------------------------------------------------------------------------
(* What a critical section does to a tunnel *)

Off(deadline) == IF deadline = "armed" THEN "off" ELSE deadline
Shut(r) == IF r.attached THEN "closed" ELSE r.socket

(* Mutant: a reader that stopped at an error counts like the end of the stream. *)
ReleasedAnyEnd(r) ==
    IF /\ ~r.released /\ ~r.error /\ r.close /\ r.reader = "done" /\ r.writer = "done"
       /\ r.uplink = <<>> /\ r.bytes = 0 /\ r.downlink = <<>>
    THEN [r EXCEPT !.released = TRUE, !.state = "closed", !.deadline = Off(@),
                   !.socket = Shut(r), !.attached = FALSE]
    ELSE r

(* _release_if_ready *)
Released(r) ==
    IF /\ ~r.released /\ ~r.error /\ r.close /\ r.eof
       /\ r.reader = "done" /\ r.writer = "done"
       /\ r.uplink = <<>> /\ r.bytes = 0 /\ r.downlink = <<>>
    THEN [r EXCEPT !.released = TRUE, !.state = "closed", !.deadline = Off(@),
                   !.socket = Shut(r), !.attached = FALSE]
    ELSE r

(* _poison: the first error stays.  What nobody reads of a tunnel that is   *)
(* over (close_received, upstream_eof) is forgotten.                        *)
Poisoned(r) ==
    IF Over(r) THEN r
    ELSE [r EXCEPT !.error = TRUE, !.state = "poisoned", !.deadline = Off(@),
                   !.socket = Shut(r), !.attached = FALSE, !.uplink = <<>>, !.bytes = 0,
                   !.downlink = <<>>, !.openOk = FALSE, !.close = FALSE, !.eof = FALSE]

(* Fields nobody reads once the tunnel is gone. *)
Forgotten(r) ==
    [r EXCEPT !.state = "closed", !.error = FALSE, !.bytes = 0, !.released = FALSE,
              !.close = FALSE, !.eof = FALSE]

(* _terminate *)
Terminated(r) ==
    [Forgotten(r) EXCEPT !.gone = TRUE, !.deadline = Off(@), !.socket = Shut(r),
                         !.attached = FALSE, !.uplink = <<>>, !.downlink = <<>>,
                         !.openOk = FALSE]

In(g, r) == tunnel' = [tunnel EXCEPT ![g] = r]
Poison(g) == In(g, Poisoned(tunnel[g]))

-----------------------------------------------------------------------------
(* Frames from a peer, on the GLib thread *)

Listening == service.adv /\ service.phase \in {"running", "cleanup"}

Rejects(d) ==
    /\ rejected' = rejected \cup {d}
    /\ UNCHANGED <<peers, tunnel, next, phone>>

Ignored == UNCHANGED <<peers, rejected, tunnel, next, phone>>

OpenFrame(d) ==
    \/ /\ d \in rejected /\ Ignored
    \/ /\ d \notin rejected /\ peers[d] # None
       /\ Poison(peers[d])
       /\ UNCHANGED <<peers, rejected, next, phone>>
    \/ /\ d \notin rejected /\ peers[d] = None
       /\ Cardinality({e \in Devices : peers[e] # None}) >= MaxClients
       /\ Rejects(d)
    \/ /\ d \notin rejected /\ peers[d] = None /\ next < MaxOpened
       /\ Cardinality({e \in Devices : peers[e] # None}) < MaxClients
       /\ next' = next + 1
       /\ peers' = [peers EXCEPT ![d] = next + 1]
       /\ UNCHANGED <<rejected, tunnel, phone>>

(* A frame for a tunnel that is not there rejects the peer until it disconnects. *)
ForTunnel(d, step) ==
    IF d \in rejected THEN Ignored
    ELSE IF peers[d] = None THEN Rejects(d)
    ELSE step /\ UNCHANGED <<peers, rejected, next>>

Usable(g) == tunnel[g].state = "active" /\ ~tunnel[g].error
Blocked(d) == /\ d \notin rejected /\ peers[d] # None /\ Usable(peers[d])
              /\ tunnel[peers[d]].bytes >= Buffer

(* The phone takes an answered write as sent, whatever became of it. *)
Data(g) ==
    /\ phone' = [phone EXCEPT ![g].sent = @ + 1]
    /\ IF Usable(g)
       THEN In(g, [tunnel[g] EXCEPT !.uplink = Append(@, phone[g].sent + 1), !.bytes = @ + 1])
       ELSE Poison(g)

(* Mutant: the deadline is given up as soon as the phone closes. *)
CloseDisarms(g) ==
    /\ IF Usable(g)
       THEN In(g, [tunnel[g] EXCEPT !.state = "closing", !.close = TRUE, !.deadline = Off(@),
                                    !.uplink = Append(@, EndMark)])
       ELSE Poison(g)
    /\ UNCHANGED phone

Close(g) ==
    /\ IF Usable(g)
       THEN In(g, [tunnel[g] EXCEPT !.state = "closing", !.close = TRUE,
                                    !.uplink = Append(@, EndMark)])
       ELSE Poison(g)
    /\ UNCHANGED phone

Malformed(g) == Poison(g) /\ UNCHANGED phone

(* _write_value_async with write_frame: one write at a time for each peer. *)
Write(d, f) ==
    /\ Listening /\ pending[d] = None
    /\ (f = "DATA" /\ peers[d] # None) => phone[peers[d]].sent < Limit(peers[d])
    /\ CASE f = "OPEN" -> OpenFrame(d)
         [] f = "DATA" -> /\ ~Blocked(d)
                          /\ ForTunnel(d, Data(peers[d]))
         [] f = "CLOSE" -> ForTunnel(d, Close(peers[d]))
         [] OTHER -> IF peers[d] = None THEN Rejects(d)
                     ELSE Malformed(peers[d]) /\ UNCHANGED <<peers, rejected, next>>
    /\ UNCHANGED <<pending, upstream, service>>

(* Backpressure: the frame waits for room, tried again every 100 ms. *)
Hold(d) ==
    /\ Listening /\ pending[d] = None /\ Blocked(d)
    /\ phone[peers[d]].sent < Limit(peers[d])
    /\ pending' = [pending EXCEPT ![d] = peers[d]]
    /\ UNCHANGED <<peers, rejected, tunnel, next, upstream, phone, service>>

Answer(d) == pending' = [pending EXCEPT ![d] = None]

(* The generation changed, the frame is taken at last, or 10 s are over. *)
Retry(d) ==
    /\ service.phase \in {"running", "cleanup"} /\ pending[d] # None
    /\ \/ /\ peers[d] # pending[d] /\ Answer(d) /\ Ignored
       \/ /\ peers[d] = pending[d] /\ ~Blocked(d)
          /\ Answer(d) /\ ForTunnel(d, Data(peers[d]))
       \/ /\ peers[d] = pending[d] /\ Blocked(d)
          /\ Answer(d) /\ Poison(peers[d])
          /\ UNCHANGED <<peers, rejected, next, phone>>
    /\ UNCHANGED <<upstream, service>>

Hears(g, outcome) == phone' = [phone EXCEPT ![g].heard = outcome]

(* read_frame; an answer of ERROR to a rejected peer or of WAIT changes nothing. *)
Read(d) ==
    LET g == peers[d]
        r == tunnel[g]
    IN
    /\ Listening /\ g # None
    /\ \/ /\ r.error
          /\ Hears(g, "failed")
          /\ UNCHANGED <<peers, tunnel>>
       \/ /\ ~r.error /\ r.openOk
          /\ In(g, [r EXCEPT !.openOk = FALSE])
          /\ UNCHANGED <<peers, phone>>
       \/ /\ ~r.error /\ ~r.openOk /\ r.downlink # <<>>
          /\ phone' = [phone EXCEPT ![g].got = Append(@, Head(r.downlink))]
          /\ In(g, Released([r EXCEPT !.downlink = Tail(@)]))
          /\ UNCHANGED peers
       \/ /\ ~r.error /\ ~r.openOk /\ r.downlink = <<>>
          /\ Released(r).released
          /\ In(g, Released(r)) /\ Hears(g, "closed")
          /\ peers' = [peers EXCEPT ![d] = None]
    /\ UNCHANGED <<rejected, pending, next, upstream, service>>

(* _properties_changed: BlueZ says that the device is gone.  The tunnel is   *)
(* taken out of the registry and then terminated.  Of what may come between *)
(* only the connector looks at the registry, and finding itself unwanted it *)
(* leaves the same behind before the end as after it: one step loses nothing.*)
Disconnect(d) ==
    /\ service.phase = "running"
    /\ peers[d] # None \/ d \in rejected
    /\ Answer(d)
    /\ peers' = [peers EXCEPT ![d] = None]
    /\ rejected' = rejected \ {d}
    /\ IF peers[d] = None THEN UNCHANGED tunnel
       ELSE In(peers[d], Terminated(tunnel[peers[d]]))
    /\ UNCHANGED <<next, upstream, phone, service>>

-----------------------------------------------------------------------------
(* The threads of a tunnel *)

Registered(g) == \E d \in Devices : peers[d] = g

(* _connect_upstream connects and looks whether its tunnel is still wanted. *)
Connect(g) ==
    /\ Opened(g) /\ tunnel[g].connector = "connecting"
    /\ \/ In(g, [Poisoned(tunnel[g]) EXCEPT !.connector = "done"])
       \/ /\ Registered(g)
          /\ In(g, [tunnel[g] EXCEPT !.connector = "connected", !.socket = "open"])
       \/ /\ ~Registered(g)
          /\ In(g, [tunnel[g] EXCEPT !.connector = "done"])

(* Mutant: a tunnel that ended meanwhile is given the connection. *)
AttachAnyway(g) ==
    /\ tunnel[g].connector = "connected"
    /\ In(g, [tunnel[g] EXCEPT !.connector = "done", !.attached = TRUE, !.reader = "looking",
                               !.writer = "looking", !.state = "active", !.openOk = TRUE])

(* ... and hands the connection over unless the tunnel ended meanwhile. *)
Attach(g) ==
    /\ tunnel[g].connector = "connected"
    /\ IF Over(tunnel[g])
       THEN In(g, [tunnel[g] EXCEPT !.connector = "done", !.socket = "closed"])
       ELSE In(g, [tunnel[g] EXCEPT !.connector = "done", !.attached = TRUE,
                                    !.reader = "looking", !.writer = "looking",
                                    !.state = "active", !.openOk = TRUE])

(* _write_upstream takes the next chunk ... *)
WriterTakes(g) ==
    LET r == tunnel[g] IN
    /\ r.writer = "looking" /\ (Over(r) \/ r.uplink # <<>>)
    /\ IF Over(r) THEN In(g, [r EXCEPT !.writer = "ending"]) /\ UNCHANGED upstream
       ELSE IF Head(r.uplink) = EndMark
       THEN /\ In(g, [r EXCEPT !.uplink = Tail(@), !.writer = "ending"])
            /\ UNCHANGED upstream
       ELSE /\ In(g, [r EXCEPT !.uplink = Tail(@), !.hand = Head(r.uplink),
                               !.writer = "sending"])
            /\ UNCHANGED upstream

(* ... and hands it to the connection within 10 s, also while that is being *)
(* closed under it; a server that has ended no longer looks at it.          *)
WriterSends(g) ==
    LET r == tunnel[g] IN
    /\ r.writer = "sending"
    /\ \/ /\ upstream' = [upstream EXCEPT ![g].got = Append(@, r.hand)]
          /\ In(g, [r EXCEPT !.hand = 0, !.bytes = IF Over(r) THEN @ ELSE @ - 1,
                             !.writer = "looking"])
       \/ /\ In(g, [Poisoned(r) EXCEPT !.hand = 0, !.writer = "ending"])
          /\ UNCHANGED upstream

WriterEnds(g) ==
    /\ tunnel[g].writer = "ending"
    /\ In(g, Released([tunnel[g] EXCEPT !.writer = "done"]))
    /\ UNCHANGED upstream

(* _read_upstream waits for room ... *)
ReaderLooks(g) ==
    LET r == tunnel[g] IN
    /\ r.reader = "looking" /\ (Over(r) \/ Len(r.downlink) < Buffer)
    /\ In(g, [r EXCEPT !.reader = IF Over(r) THEN "ending" ELSE "receiving"])

Received(g) == Len(phone[g].got) + Len(tunnel[g].downlink)

(* ... and receives: a chunk, the end, or an error of the connection.  An   *)
(* error after CLOSE poisons nothing and leaves the tunnel to its deadline. *)
ReaderReceives(g) ==
    LET r == tunnel[g] IN
    /\ r.reader = "receiving"
    /\ \/ /\ Received(g) < upstream[g].sent
          /\ In(g, IF Over(r) THEN [r EXCEPT !.reader = "ending"]
                   ELSE [r EXCEPT !.downlink = Append(@, Received(g) + 1), !.reader = "looking"])
       \/ /\ upstream[g].ended /\ Received(g) = upstream[g].sent
          /\ In(g, [r EXCEPT !.eof = ~Over(r), !.reader = "ending"])
       \/ In(g, [(IF r.close THEN r ELSE Poisoned(r))
                 EXCEPT !.reader = "ending"])

ReaderEnds(g) ==
    /\ tunnel[g].reader = "ending"
    /\ In(g, Released([tunnel[g] EXCEPT !.reader = "done"]))

(* _exchange_timed_out looks, and poisons in a second critical section. *)
DeadlineFires(g) ==
    /\ Opened(g) /\ tunnel[g].deadline = "armed"
    /\ In(g, [tunnel[g] EXCEPT !.deadline =
                IF Over(tunnel[g]) \/ tunnel[g].released THEN "off" ELSE "firing"])

DeadlinePoisons(g) ==
    /\ tunnel[g].deadline = "firing"
    /\ In(g, [Poisoned(tunnel[g]) EXCEPT !.deadline = "off"])

Connector(g) == Connect(g) \/ Attach(g)
Writer(g) == WriterTakes(g) \/ WriterSends(g) \/ WriterEnds(g)
Reader(g) == ReaderLooks(g) \/ ReaderReceives(g) \/ ReaderEnds(g)
Deadline(g) == DeadlineFires(g) \/ DeadlinePoisons(g)

Beside(step) == step /\ UNCHANGED <<peers, rejected, pending, next, phone, service>>

Threads(g) ==
    \/ Beside(Writer(g))
    \/ Beside(Connector(g) /\ UNCHANGED upstream)
    \/ Beside(Reader(g) /\ UNCHANGED upstream)
    \/ Beside(Deadline(g) /\ UNCHANGED upstream)

(* The web server sends, and ends the connection when it likes. *)
ServerSends(g) ==
    /\ tunnel[g].socket = "open" /\ ~upstream[g].ended
    /\ upstream[g].sent < Limit(g) /\ scene # "reconnect"
    /\ upstream' = [upstream EXCEPT ![g].sent = @ + 1]
ServerEnds(g) ==
    /\ tunnel[g].socket = "open" /\ ~upstream[g].ended /\ Limit(g) > 0
    /\ upstream' = [upstream EXCEPT ![g].ended = TRUE]
Server(g) ==
    /\ ServerSends(g) \/ ServerEnds(g)
    /\ UNCHANGED <<peers, rejected, tunnel, pending, next, phone, service>>

-----------------------------------------------------------------------------
(* Registration with BlueZ, and stopping *)

(* Mutant: the loop is left at once, whatever BlueZ still owes. *)
LeaveNow ==
    /\ service.phase = "running" /\ service.idle
    /\ service' = [service EXCEPT !.idle = FALSE, !.phase = "left"]

(* _finish_shutdown_request: while a registration is pending its reply does it. *)
IdleRuns ==
    /\ service.phase = "running" /\ service.idle
    /\ service' = [service EXCEPT !.idle = FALSE, !.phase = IF service.waits THEN @ ELSE "left"]

(* request_shutdown, from a signal handler at any point. *)
RequestShutdown ==
    /\ scene = "stop" /\ service.phase # "closed" /\ ~service.shutdown
    /\ service' = [service EXCEPT !.shutdown = TRUE,
                                  !.idle = service.phase # "cleanup" /\ ~service.waits]

Quit(s) == [s EXCEPT !.phase = IF @ = "running" THEN "left" ELSE @]
Failed(s) == Quit([s EXCEPT !.waits = FALSE])

(* serve looks for a shutdown, then calls BlueZ, then runs the loop. *)
Serve ==
    /\ service.phase = "started"
    /\ service' = [service EXCEPT !.phase = IF service.shutdown THEN "left" ELSE "calling"]

Call ==
    /\ service.phase = "calling"
    /\ service' \in {[service EXCEPT !.phase = "running", !.waits = TRUE, !.call = "app"],
                     [service EXCEPT !.phase = "left"]}

Stopping == service.shutdown \/ service.phase = "cleanup"

(* application_registered *)
ApplicationRegistered ==
    LET s == [service EXCEPT !.app = TRUE, !.call = "none"] IN
    /\ service.phase = "running" /\ service.call = "app"
    /\ IF Stopping THEN service' = Quit([s EXCEPT !.waits = FALSE])
       ELSE service' \in {[s EXCEPT !.call = "adv"], Failed(s)}

(* advertisement_registered, and on_ready, which may raise. *)
AdvertisementRegistered ==
    LET s == [service EXCEPT !.adv = TRUE, !.call = "none", !.waits = FALSE] IN
    /\ service.phase \in {"running", "cleanup"} /\ service.call = "adv"
    /\ service' \in IF Stopping THEN {Quit(s)} ELSE {s, Failed(s)}

(* fail: BlueZ refuses, or 10 s pass and its reply may still come. *)
RegistrationFails ==
    /\ service.phase = "running" /\ service.waits
    /\ service' \in {Failed([service EXCEPT !.call = "none"]), Failed(service)}

(* close begins: writes that wait are answered, the signal match is gone. *)
CloseBegins ==
    /\ service.phase = "left"
    /\ service' = [service EXCEPT !.phase = "cleanup", !.shutdown = TRUE, !.idle = FALSE]
    /\ pending' = [d \in Devices |-> None]
    /\ UNCHANGED <<peers, rejected, tunnel, next, upstream, phone>>

(* _unregister runs a loop of its own for at most 2 s; then every tunnel    *)
(* ends, one after the other, which loses as little as in Disconnect.       *)
CloseEnds ==
    /\ service.phase = "cleanup"
    /\ service' = [service EXCEPT !.phase = "closed", !.app = FALSE, !.adv = FALSE,
                                  !.call = "none"]
    /\ tunnel' = [g \in Gens |-> IF Registered(g) THEN Terminated(tunnel[g]) ELSE tunnel[g]]
    /\ peers' = [d \in Devices |-> None] /\ rejected' = {}
    /\ UNCHANGED <<pending, next, upstream, phone>>

Registration ==
    \/ Serve
    \/ Call
    \/ ApplicationRegistered
    \/ AdvertisementRegistered
    \/ RegistrationFails
    \/ IdleRuns

Traffic == <<peers, rejected, tunnel, pending, next, upstream, phone>>
Registers == Registration /\ UNCHANGED Traffic

Service ==
    \/ Registers
    \/ RequestShutdown /\ UNCHANGED Traffic
    \/ CloseBegins
    \/ CloseEnds

Peer(d) ==
    \/ \E f \in Frames : Write(d, f)
    \/ Hold(d)
    \/ Retry(d)
    \/ Read(d)
    \/ Disconnect(d)

Step ==
    \/ \E d \in Present : Peer(d)
    \/ \E g \in Gens : Threads(g) \/ Server(g)
    \/ Service

Next == Step /\ UNCHANGED scene

-----------------------------------------------------------------------------
(* Blocking calls have time limits, timers fire, and the GLib loop runs on. *)
(* Nothing makes the web server answer: only the deadline ends its silence. *)
MovesOn(g) ==
    \/ Beside(Writer(g))
    \/ Beside((Connector(g) \/ ReaderLooks(g) \/ ReaderEnds(g) \/ Deadline(g))
              /\ UNCHANGED upstream)

Fairness ==
    /\ \A g \in Gens : WF_gvars(MovesOn(g))
    /\ WF_gvars(\E d \in Devices : Retry(d))
    /\ WF_gvars(Registers \/ CloseBegins \/ CloseEnds)

Spec == Init /\ [][Next]_<<gvars, scene>> /\ Fairness

-----------------------------------------------------------------------------
(* Properties *)

Unsent(r) == Cardinality({i \in DOMAIN r.uplink : r.uplink[i] # EndMark})
                 + (IF r.hand = 0 THEN 0 ELSE 1)

(* Type invariant: the registry, the tunnels and their threads; neither     *)
(* direction buffers more than its limit, and the uplink's count is what is *)
(* queued or in the writer's hand.                                          *)
GatewayTypeOK ==
    /\ peers \in [Devices -> Gens \cup {None}] /\ pending \in [Devices -> Gens \cup {None}]
    /\ rejected \subseteq Devices /\ next \in 0..MaxTunnels
    /\ service.phase \in {"started", "calling", "running", "left", "cleanup", "closed"}
    /\ \A g \in Gens : LET r == tunnel[g] IN
         /\ r.state \in {"connecting", "active", "closing", "closed", "poisoned"}
         /\ r.error \in BOOLEAN /\ r.socket \in {"none", "open", "closed"}
         /\ r.connector \in {"connecting", "connected", "done"}
         /\ r.deadline \in {"armed", "firing", "off"}
         /\ r.reader \in {"none", "looking", "receiving", "ending", "done"}
         /\ r.writer \in {"none", "looking", "sending", "ending", "done"}
         /\ Len(r.downlink) <= Buffer /\ Unsent(r) <= Buffer
         /\ ~Over(r) => r.bytes = Unsent(r)

(* No connection to the web server outlives its tunnel: an open one is with *)
(* the connector that made it, or with a registered tunnel that has neither *)
(* failed nor ended, in every order of disconnect, failure, deadline and    *)
(* shutdown against the four threads.                                       *)
SocketsOwned ==
    \A g \in Gens : tunnel[g].socket = "open" =>
        \/ tunnel[g].connector = "connected"
        \/ tunnel[g].attached /\ ~Over(tunnel[g]) /\ Registered(g)

(* Whatever ends first, tunnels, threads and connections fit each other. *)
GatewayInv == GatewayTypeOK /\ SocketsOwned

(* A generation is the current one of one device.  When the loop was left   *)
(* for a shutdown nobody waits for BlueZ any more, as serve asserts; only   *)
(* the reply to an advertisement given up after 10 s may still come, also   *)
(* while close unregisters.                                                 *)
RegistrationSettled ==
    /\ \A d, e \in Devices : peers[d] = peers[e] /\ peers[d] # None => d = e
    /\ service.phase = "left" /\ service.shutdown => ~service.waits

(* Phones and the web server see a ByteTunnel: no chunk is lost, doubled or *)
(* moved to another tunnel, CLOSED comes after everything, and nothing but  *)
(* the error after an error.                                                *)
Pipe == INSTANCE ByteTunnel WITH
    Tunnels <- Gens,
    sentUp <- [g \in Gens |-> phone[g].sent], gotUp <- [g \in Gens |-> upstream[g].got],
    sentDown <- [g \in Gens |-> upstream[g].sent], gotDown <- [g \in Gens |-> phone[g].got],
    heard <- [g \in Gens |-> phone[g].heard]

ImplementsTunnel == Pipe!TunnelSpec

(* Every exchange ends though the web server may be silent, every write     *)
(* that waits for room is answered while the service runs, and a shutdown   *)
(* asked for at any moment closes it.                                       *)
NothingHangs ==
    /\ \A g \in Gens : Opened(g) ~> Over(tunnel[g]) \/ tunnel[g].released
    /\ \A d \in Devices : pending[d] # None ~> pending[d] = None \/ service.phase = "closed"
    /\ service.shutdown ~> service.phase = "closed"
=============================================================================
