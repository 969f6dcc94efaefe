-------------------------- MODULE BleGatewayProofs --------------------------
(***************************************************************************)
(* Proofs about BleGateway: tunnels, threads and connections always fit    *)
(* each other, registration settles before the loop is left, and phones    *)
(* and the web server see a ByteTunnel.                                    *)
(*                                                                         *)
(* Almost every step changes one tunnel, and what it changes there it      *)
(* changes in one record, what the server has of it and what the phone has *)
(* of it.  So the invariant is a predicate of those three records, and     *)
(* there is one lemma for each thing a step does to them; what is left is  *)
(* which tunnel is registered with which peer.                             *)
(***************************************************************************)
EXTENDS BleGateway, FiniteSetTheorems, SequenceTheorems, TLAPS

-----------------------------------------------------------------------------
(* The inductive invariant *)

States == {"connecting", "active", "closing", "closed", "poisoned"}
Connectors == {"connecting", "connected", "done"}
Readers == {"none", "looking", "receiving", "ending", "done"}
Writers == {"none", "looking", "sending", "ending", "done"}
Deadlines == {"armed", "firing", "off"}
Sockets == {"none", "open", "closed"}

PeerRecord ==
    [state : States, error : BOOLEAN, gone : BOOLEAN, uplink : Seq(Nat), bytes : Nat,
     downlink : Seq(Nat), openOk : BOOLEAN, attached : BOOLEAN, close : BOOLEAN,
     eof : BOOLEAN, released : BOOLEAN, connector : Connectors, reader : Readers,
     writer : Writers, hand : Nat, deadline : Deadlines, socket : Sockets]

ServerRecord == [sent : Nat, got : Seq(Nat), ended : BOOLEAN]
PhoneRecord == [sent : Nat, got : Seq(Nat), heard : {"open", "closed", "failed"}]
ServiceRecord ==
    [phase : {"started", "calling", "running", "left", "cleanup", "closed"},
     waits : BOOLEAN, call : {"none", "app", "adv"}, app : BOOLEAN, adv : BOOLEAN,
     shutdown : BOOLEAN, idle : BOOLEAN]

FirstChunks(n) == [i \in 1..n |-> i]

(* Which combinations of thread, connection and outcome a tunnel has. *)
ThreadsFit(r) ==
    /\ r.connector # "done" => /\ r.reader = "none" /\ r.writer = "none"
                               /\ ~r.attached /\ ~r.released
    /\ r.attached => r.connector = "done" /\ ~Over(r) /\ ~r.released
    /\ r.socket = "open" => r.connector = "connected" \/ r.attached
    /\ r.state = "active" => /\ ~Over(r) /\ ~r.close /\ ~r.released
                             /\ r.writer \in {"looking", "sending"}
    /\ r.close => ~Over(r) /\ r.writer # "none"
    /\ ~Over(r) /\ r.writer \in {"ending", "done"} => r.close /\ r.uplink = <<>>
    /\ Over(r) => r.uplink = <<>> /\ r.downlink = <<>> /\ ~r.eof
    /\ r.released => /\ r.socket # "open"
                     /\ r.reader = "done" /\ r.writer = "done"
    /\ r.released /\ ~Over(r) => r.close /\ r.eof /\ r.uplink = <<>> /\ r.downlink = <<>>

(* The uplink is n chunks and e marks of the end, after the h chunks that   *)
(* the writer holds: together what the phone sent and the server has not.   *)
Queue(r, got, sent, n, h, e) ==
    /\ h = 1 <=> r.hand # 0
    /\ e = 1 <=> r.close /\ r.writer \in {"looking", "sending"}
    /\ Len(r.uplink) = n + e
    /\ sent = got + h + n
    /\ r.bytes = h + n /\ r.bytes <= Buffer
    /\ \A i \in 1..n : r.uplink[i] = got + h + i
    /\ e = 1 => r.uplink[n + 1] = EndMark

UpFits(r, u, f) ==
    /\ u.got = FirstChunks(Len(u.got)) /\ Len(u.got) <= f.sent
    /\ r.hand # 0 <=> r.writer = "sending"
    /\ r.hand # 0 => r.hand = Len(u.got) + 1 /\ r.hand <= f.sent
    /\ ~Over(r) => \E n \in Nat, h, e \in {0, 1} : Queue(r, Len(u.got), f.sent, n, h, e)

DownFits(r, u, f) ==
    /\ f.got = FirstChunks(Len(f.got))
    /\ Len(f.got) + Len(r.downlink) <= u.sent
    /\ \A i \in 1..Len(r.downlink) : r.downlink[i] = Len(f.got) + i
    /\ Len(r.downlink) <= Buffer
    /\ r.reader = "receiving" /\ ~Over(r) => Len(r.downlink) < Buffer
    /\ r.eof => /\ u.ended /\ Len(f.got) + Len(r.downlink) = u.sent
                /\ r.reader \in {"ending", "done"}

HeardFits(r, f) ==
    /\ f.heard = "closed" => r.released
    /\ f.heard = "failed" => Over(r)

Typed(r, u, f) == r \in PeerRecord /\ u \in ServerRecord /\ f \in PhoneRecord

Fit(r, u, f) ==
    /\ Typed(r, u, f)
    /\ ThreadsFit(r) /\ UpFits(r, u, f) /\ DownFits(r, u, f) /\ HeardFits(r, f)

Types ==
    /\ tunnel \in [Gens -> PeerRecord] /\ upstream \in [Gens -> ServerRecord]
    /\ phone \in [Gens -> PhoneRecord]
    /\ peers \in [Devices -> Gens \cup {None}] /\ pending \in [Devices -> Gens \cup {None}]
    /\ rejected \subseteq Devices /\ next \in 0..MaxTunnels
    /\ service \in ServiceRecord /\ scene \in Scenes

Fits == \A g \in Gens : Fit(tunnel[g], upstream[g], phone[g])

(* A registered tunnel is of one peer, neither gone nor closed, and every   *)
(* tunnel that was opened is registered, gone or closed.                    *)
Registry ==
    /\ \A d, e \in Devices : peers[d] = peers[e] /\ peers[d] # None => d = e
    /\ \A d \in Devices : peers[d] # None =>
         peers[d] <= next /\ ~tunnel[peers[d]].gone /\ phone[peers[d]].heard # "closed"
    /\ \A g \in Gens : g > next => tunnel[g] = NewPeer
    /\ \A g \in Gens : g <= next =>
         Registered(g) \/ tunnel[g].gone \/ phone[g].heard = "closed"

OnlyRunningWaits == service.phase # "running" => ~service.waits

IInv == Types /\ Fits /\ Registry /\ OnlyRunningWaits

-----------------------------------------------------------------------------
(* Sequences of the first n chunks *)

LEMMA FirstChunksSeq ==
  ASSUME NEW n \in Nat
  PROVE  FirstChunks(n) \in Seq(Nat) /\ Len(FirstChunks(n)) = n
  BY DEF FirstChunks

LEMMA OneMore ==
  ASSUME NEW n \in Nat
  PROVE  Append(FirstChunks(n), n + 1) = FirstChunks(n + 1)
  BY DEF FirstChunks

(* Append and Tail, with the length at hand *)
LEMMA Appended ==
  ASSUME NEW q \in Seq(Nat), NEW l \in Nat, l = Len(q), NEW x \in Nat
  PROVE  /\ Append(q, x) \in Seq(Nat) /\ Len(Append(q, x)) = l + 1
         /\ Append(q, x)[l + 1] = x
         /\ \A i \in 1..l : Append(q, x)[i] = q[i]
  BY AppendProperties

LEMMA Tailed ==
  ASSUME NEW q \in Seq(Nat), NEW l \in Nat, l = Len(q), q # <<>>
  PROVE  /\ Tail(q) \in Seq(Nat) /\ Len(Tail(q)) = l - 1 /\ l >= 1
         /\ Head(q) = q[1] /\ Head(q) \in Nat
         /\ \A i \in 1..(l - 1) : Tail(q)[i] = q[i + 1]
         /\ l = 1 => Tail(q) = <<>>
<1>1. /\ Tail(q) \in Seq(Nat) /\ Len(Tail(q)) = l - 1 /\ l >= 1
      /\ Head(q) = q[1] /\ Head(q) \in Nat
      /\ \A i \in 1..(l - 1) : Tail(q)[i] = q[i + 1]
  BY HeadTailProperties
<1>2. ASSUME l = 1 PROVE Tail(q) = <<>>
  <2>1. Len(Tail(q)) = 0
    BY <1>1, <1>2
  <2> QED BY <1>1, <2>1, EmptySeq
<1> QED BY <1>1, <1>2

LEMMA NoChunks == FirstChunks(0) = <<>>
  BY DEF FirstChunks

-----------------------------------------------------------------------------
(* Types of the three records *)

LEMMA Names ==
  /\ "connecting" \in States /\ "active" \in States /\ "closing" \in States
  /\ "closed" \in States /\ "poisoned" \in States
  /\ "connecting" \in Connectors /\ "connected" \in Connectors /\ "done" \in Connectors
  /\ "none" \in Readers /\ "looking" \in Readers /\ "receiving" \in Readers
  /\ "ending" \in Readers /\ "done" \in Readers
  /\ "none" \in Writers /\ "looking" \in Writers /\ "sending" \in Writers
  /\ "ending" \in Writers /\ "done" \in Writers
  /\ "armed" \in Deadlines /\ "firing" \in Deadlines /\ "off" \in Deadlines
  /\ "none" \in Sockets /\ "open" \in Sockets /\ "closed" \in Sockets
  BY DEF States, Connectors, Readers, Writers, Deadlines, Sockets

(* The bounds are numbers. *)
LEMMA Sizes ==
  /\ Buffer \in Nat /\ Buffer > 0 /\ MaxTunnels \in Nat /\ MaxTunnels > 0
  /\ MaxClients \in Nat /\ MaxChunks \in Nat
<1>1. \A n \in {MaxClients, Buffer, MaxTunnels, MaxChunks} : n \in Nat /\ n # 0
  BY GatewayAssumption
<1> QED BY <1>1

LEMMA NoneQueued == <<>> \in Seq(Nat) /\ Len(<<>>) = 0
  OBVIOUS

(* A deadline that is taken off and a connection that is shut are still one. *)
LEMMA OffShut ==
  ASSUME NEW r \in PeerRecord
  PROVE  Off(r.deadline) \in Deadlines /\ Shut(r) \in Sockets
<1>1. r.deadline \in Deadlines /\ r.socket \in Sockets
  BY DEF PeerRecord
<1> QED BY <1>1, Names DEF Off, Shut

LEMMA Fields ==
  ASSUME NEW r, NEW u, NEW f, Typed(r, u, f)
  PROVE  /\ r.uplink \in Seq(Nat) /\ Len(r.uplink) \in Nat
         /\ r.downlink \in Seq(Nat) /\ Len(r.downlink) \in Nat
         /\ r.bytes \in Nat /\ r.hand \in Nat
         /\ u.got \in Seq(Nat) /\ Len(u.got) \in Nat /\ u.sent \in Nat
         /\ f.got \in Seq(Nat) /\ Len(f.got) \in Nat /\ f.sent \in Nat
<1>1. /\ r.uplink \in Seq(Nat) /\ r.downlink \in Seq(Nat) /\ r.bytes \in Nat /\ r.hand \in Nat
      /\ u.got \in Seq(Nat) /\ u.sent \in Nat /\ f.got \in Seq(Nat) /\ f.sent \in Nat
  BY DEF Typed, PeerRecord, ServerRecord, PhoneRecord
<1> QED BY <1>1

(* What the fields of three fitting records are *)
LEMMA FitFields ==
  ASSUME NEW r, NEW u, NEW f, Fit(r, u, f)
  PROVE  /\ r.uplink \in Seq(Nat) /\ Len(r.uplink) \in Nat
         /\ r.downlink \in Seq(Nat) /\ Len(r.downlink) \in Nat
         /\ r.bytes \in Nat /\ r.hand \in Nat
         /\ u.got \in Seq(Nat) /\ Len(u.got) \in Nat /\ u.sent \in Nat
         /\ f.got \in Seq(Nat) /\ Len(f.got) \in Nat /\ f.sent \in Nat
         /\ Len(f.got) <= u.sent
<1>1. Typed(r, u, f)
  BY DEF Fit
<1>2. /\ r.uplink \in Seq(Nat) /\ Len(r.uplink) \in Nat
      /\ r.downlink \in Seq(Nat) /\ Len(r.downlink) \in Nat
      /\ r.bytes \in Nat /\ r.hand \in Nat
      /\ u.got \in Seq(Nat) /\ Len(u.got) \in Nat /\ u.sent \in Nat
      /\ f.got \in Seq(Nat) /\ Len(f.got) \in Nat /\ f.sent \in Nat
  BY <1>1, Fields
<1>3. Len(f.got) <= u.sent
  <2>1. Len(f.got) + Len(r.downlink) <= u.sent
    BY DEF Fit, DownFits
  <2>2. \A a, b, c \in Nat : a + b <= c => a <= c
    OBVIOUS
  <2> QED BY <1>2, <2>1, <2>2
<1> QED BY <1>2, <1>3

(* The downlink fits as long as nobody touches it. *)
LEMMA SameDown ==
  ASSUME NEW r, NEW u, NEW f, DownFits(r, u, f), NEW p, NEW k,
         p.downlink = r.downlink, p.reader = r.reader, p.eof = r.eof,
         Over(p) <=> Over(r), k.got = f.got
  PROVE  DownFits(p, u, k)
  BY DEF DownFits

-----------------------------------------------------------------------------
(* What a critical section does to a tunnel *)

(* A tunnel that is over keeps fitting whatever its writer and reader end. *)
LEMMA PoisonedFits ==
  ASSUME NEW r, NEW u, NEW f, Fit(r, u, f)
  PROVE  LET p == Poisoned(r) IN
         /\ Fit(p, u, f) /\ Over(p)
         /\ p.gone = r.gone /\ p.connector = r.connector
         /\ p.reader = r.reader /\ p.writer = r.writer /\ p.hand = r.hand
<1> DEFINE p == Poisoned(r)
<1>0. Typed(r, u, f)
  BY DEF Fit
<1>1. CASE Over(r)
  BY <1>1 DEF Poisoned
<1>2. CASE ~Over(r)
  <2>1. p \in PeerRecord
    <3>1. r \in PeerRecord
      BY <1>0 DEF Typed
    <3>2. Off(r.deadline) \in Deadlines /\ Shut(r) \in Sockets
      BY <3>1, OffShut
    <3> QED BY <1>2, <3>1, <3>2, Names, NoneQueued DEF Poisoned, PeerRecord
  <2>2. /\ p.error /\ p.gone = r.gone /\ p.connector = r.connector
        /\ p.reader = r.reader /\ p.writer = r.writer /\ p.hand = r.hand
        /\ p.uplink = <<>> /\ p.downlink = <<>> /\ ~p.eof /\ ~p.close /\ ~p.attached
        /\ p.released = r.released /\ p.state = "poisoned"
        /\ p.socket = IF r.attached THEN "closed" ELSE r.socket
    BY <1>0, <1>2 DEF Poisoned, Typed, PeerRecord, Shut
  <2> HIDE DEF p
  <2>3. Over(p)
    BY <2>2 DEF Over
  <2>4. ThreadsFit(p)
    BY <1>2, <2>2, <2>3 DEF Fit, ThreadsFit
  <2>5. UpFits(p, u, f)
    BY <2>2, <2>3 DEF Fit, UpFits
  <2>6. DownFits(p, u, f)
    <3>1. Len(p.downlink) = 0
      BY <2>2, NoneQueued
    <3>2. /\ Len(f.got) \in Nat /\ Len(r.downlink) \in Nat /\ u.sent \in Nat
          /\ Len(f.got) <= u.sent
      BY FitFields
    <3> QED BY <1>0, <2>2, <2>3, <3>1, <3>2, Sizes DEF Fit, DownFits
  <2>7. HeardFits(p, f)
    BY <2>2, <2>3 DEF Fit, HeardFits
  <2> QED BY <1>0, <2>1, <2>2, <2>3, <2>4, <2>5, <2>6, <2>7 DEF Fit, Typed, p
<1> QED BY <1>1, <1>2

(* _release_if_ready *)
LEMMA ReleasedFits ==
  ASSUME NEW r, NEW u, NEW f, Fit(r, u, f)
  PROVE  LET p == Released(r) IN
         /\ Fit(p, u, f)
         /\ p.gone = r.gone /\ p.error = r.error
<1> DEFINE p == Released(r)
           Ready == /\ ~r.released /\ ~r.error /\ r.close /\ r.eof
                    /\ r.reader = "done" /\ r.writer = "done"
                    /\ r.uplink = <<>> /\ r.bytes = 0 /\ r.downlink = <<>>
<1>0. Typed(r, u, f)
  BY DEF Fit
<1>1. CASE ~Ready
  BY <1>1 DEF Released
<1>2. CASE Ready
  <2>1. p \in PeerRecord
    <3>1. r \in PeerRecord
      BY <1>0 DEF Typed
    <3>2. Off(r.deadline) \in Deadlines /\ Shut(r) \in Sockets
      BY <3>1, OffShut
    <3> QED BY <1>2, <3>1, <3>2, Names DEF Released, PeerRecord
  <2>2. /\ p.error = r.error /\ p.gone = r.gone /\ p.connector = r.connector
        /\ p.reader = r.reader /\ p.writer = r.writer /\ p.hand = r.hand
        /\ p.uplink = r.uplink /\ p.downlink = r.downlink /\ p.eof = r.eof
        /\ p.close = r.close /\ ~p.attached /\ p.bytes = r.bytes
        /\ p.released /\ p.state = "closed"
        /\ p.socket = IF r.attached THEN "closed" ELSE r.socket
    BY <1>0, <1>2 DEF Released, Typed, PeerRecord, Shut
  <2> HIDE DEF p
  <2>3. Over(p) <=> Over(r)
    BY <2>2 DEF Over
  <2>4. ThreadsFit(p)
    BY <1>2, <2>2, <2>3 DEF Fit, ThreadsFit
  <2>5. UpFits(p, u, f)
    BY <2>2, <2>3 DEF Fit, UpFits, Queue
  <2>6. DownFits(p, u, f)
    BY <2>2, <2>3 DEF Fit, DownFits
  <2>7. HeardFits(p, f)
    BY <2>2, <2>3 DEF Fit, HeardFits
  <2> QED BY <1>0, <2>1, <2>2, <2>3, <2>4, <2>5, <2>6, <2>7 DEF Fit, Typed, p
<1> QED BY <1>1, <1>2

(* _terminate, of a tunnel whose phone was not told CLOSED *)
LEMMA TerminatedFits ==
  ASSUME NEW r, NEW u, NEW f, Fit(r, u, f), f.heard # "closed"
  PROVE  Fit(Terminated(r), u, f) /\ Terminated(r).gone
<1> DEFINE p == Terminated(r)
<1>0. Typed(r, u, f)
  BY DEF Fit
<1>1. p \in PeerRecord
  <2>1. r \in PeerRecord
    BY <1>0 DEF Typed
  <2>2. Forgotten(r) \in PeerRecord
    BY <2>1, Names DEF Forgotten, PeerRecord
  <2>3. Off(Forgotten(r).deadline) \in Deadlines /\ Shut(r) \in Sockets
    BY <2>1, <2>2, OffShut
  <2> QED BY <2>2, <2>3, Names, NoneQueued DEF Terminated, PeerRecord
<1>2. /\ p.gone /\ p.connector = r.connector
      /\ p.reader = r.reader /\ p.writer = r.writer /\ p.hand = r.hand
      /\ p.uplink = <<>> /\ p.downlink = <<>> /\ ~p.eof /\ ~p.close /\ ~p.attached
      /\ ~p.released /\ p.state = "closed"
      /\ p.socket = IF r.attached THEN "closed" ELSE r.socket
  BY <1>0 DEF Terminated, Forgotten, Typed, PeerRecord, Shut
<1> HIDE DEF p
<1>3. Over(p)
  BY <1>2 DEF Over
<1>4. ThreadsFit(p)
  BY <1>2, <1>3 DEF Fit, ThreadsFit
<1>5. UpFits(p, u, f)
  BY <1>2, <1>3 DEF Fit, UpFits
<1>6. DownFits(p, u, f)
  <2>1. Len(p.downlink) = 0
    BY <1>2, NoneQueued
  <2>2. /\ Len(f.got) \in Nat /\ Len(r.downlink) \in Nat /\ u.sent \in Nat
        /\ Len(f.got) <= u.sent
    BY FitFields
  <2> QED BY <1>0, <1>2, <1>3, <2>1, <2>2, Sizes DEF Fit, DownFits
<1>7. HeardFits(p, f)
  BY <1>3 DEF HeardFits
<1> QED BY <1>0, <1>1, <1>2, <1>4, <1>5, <1>6, <1>7 DEF Fit, Typed, p

-----------------------------------------------------------------------------
(* What the threads, the phone and the server do to the three records *)

(* The writer and the reader end; what is left of the tunnel stays as it is. *)
LEMMA WriterDoneFits ==
  ASSUME NEW r, NEW u, NEW f, Fit(r, u, f),
         r.writer = "ending"
  PROVE  Fit([r EXCEPT !.writer = "done"], u, f)
<1> DEFINE p == [r EXCEPT !.writer = "done"]
<1>0. r \in PeerRecord /\ u \in ServerRecord /\ f \in PhoneRecord
  BY DEF Fit, Typed
<1>1. p \in PeerRecord /\ u \in ServerRecord /\ f \in PhoneRecord
  BY <1>0, Names DEF PeerRecord, ServerRecord, PhoneRecord
<1>2. /\ p.state = r.state /\ p.error = r.error /\ p.gone = r.gone /\ p.uplink = r.uplink
      /\ p.bytes = r.bytes /\ p.downlink = r.downlink /\ p.attached = r.attached /\ p.close = r.close
      /\ p.eof = r.eof /\ p.released = r.released /\ p.connector = r.connector /\ p.reader = r.reader
      /\ p.writer = "done" /\ p.hand = r.hand /\ p.socket = r.socket
  BY <1>0 DEF PeerRecord, ServerRecord, PhoneRecord
<1> HIDE DEF p
<1>3. ThreadsFit(p)
  BY <1>2 DEF Fit, ThreadsFit, Over
<1>4. UpFits(p, u, f)
  BY <1>2 DEF Fit, UpFits, Queue, ThreadsFit, Over
<1>5. DownFits(p, u, f)
  BY <1>2 DEF Fit, DownFits, ThreadsFit, Over
<1>6. HeardFits(p, f)
  BY <1>2 DEF Fit, HeardFits, Over
<1> QED BY <1>1, <1>3, <1>4, <1>5, <1>6 DEF Fit, Typed, p

LEMMA ReaderDoneFits ==
  ASSUME NEW r, NEW u, NEW f, Fit(r, u, f),
         r.reader = "ending"
  PROVE  Fit([r EXCEPT !.reader = "done"], u, f)
<1> DEFINE p == [r EXCEPT !.reader = "done"]
<1>0. r \in PeerRecord /\ u \in ServerRecord /\ f \in PhoneRecord
  BY DEF Fit, Typed
<1>1. p \in PeerRecord /\ u \in ServerRecord /\ f \in PhoneRecord
  BY <1>0, Names DEF PeerRecord, ServerRecord, PhoneRecord
<1>2. /\ p.state = r.state /\ p.error = r.error /\ p.gone = r.gone /\ p.uplink = r.uplink
      /\ p.bytes = r.bytes /\ p.downlink = r.downlink /\ p.attached = r.attached /\ p.close = r.close
      /\ p.eof = r.eof /\ p.released = r.released /\ p.connector = r.connector /\ p.reader = "done"
      /\ p.writer = r.writer /\ p.hand = r.hand /\ p.socket = r.socket
  BY <1>0 DEF PeerRecord, ServerRecord, PhoneRecord
<1> HIDE DEF p
<1>3. ThreadsFit(p)
  BY <1>2 DEF Fit, ThreadsFit, Over
<1>4. UpFits(p, u, f)
  BY <1>2 DEF Fit, UpFits, Queue, ThreadsFit, Over
<1>5. DownFits(p, u, f)
  BY <1>2 DEF Fit, DownFits, ThreadsFit, Over
<1>6. HeardFits(p, f)
  BY <1>2 DEF Fit, HeardFits, Over
<1> QED BY <1>1, <1>3, <1>4, <1>5, <1>6 DEF Fit, Typed, p

(* The phone reads OPEN_OK. *)
LEMMA OpenOkFits ==
  ASSUME NEW r, NEW u, NEW f, Fit(r, u, f)
  PROVE  Fit([r EXCEPT !.openOk = FALSE], u, f)
<1> DEFINE p == [r EXCEPT !.openOk = FALSE]
<1>0. r \in PeerRecord /\ u \in ServerRecord /\ f \in PhoneRecord
  BY DEF Fit, Typed
<1>1. p \in PeerRecord /\ u \in ServerRecord /\ f \in PhoneRecord
  BY <1>0, Names DEF PeerRecord, ServerRecord, PhoneRecord
<1>2. /\ p.state = r.state /\ p.error = r.error /\ p.gone = r.gone /\ p.uplink = r.uplink
      /\ p.bytes = r.bytes /\ p.downlink = r.downlink /\ p.attached = r.attached /\ p.close = r.close
      /\ p.eof = r.eof /\ p.released = r.released /\ p.connector = r.connector /\ p.reader = r.reader
      /\ p.writer = r.writer /\ p.hand = r.hand /\ p.socket = r.socket
  BY <1>0 DEF PeerRecord, ServerRecord, PhoneRecord
<1> HIDE DEF p
<1>3. ThreadsFit(p)
  BY <1>2 DEF Fit, ThreadsFit, Over
<1>4. UpFits(p, u, f)
  BY <1>2 DEF Fit, UpFits, Queue, ThreadsFit, Over
<1>5. DownFits(p, u, f)
  BY <1>2 DEF Fit, DownFits, ThreadsFit, Over
<1>6. HeardFits(p, f)
  BY <1>2 DEF Fit, HeardFits, Over
<1> QED BY <1>1, <1>3, <1>4, <1>5, <1>6 DEF Fit, Typed, p

(* Nothing depends on how far the deadline is. *)
LEMMA DeadlineFits ==
  ASSUME NEW r, NEW u, NEW f, Fit(r, u, f),
         NEW d \in Deadlines
  PROVE  Fit([r EXCEPT !.deadline = d], u, f)
<1> DEFINE p == [r EXCEPT !.deadline = d]
<1>0. r \in PeerRecord /\ u \in ServerRecord /\ f \in PhoneRecord
  BY DEF Fit, Typed
<1>1. p \in PeerRecord /\ u \in ServerRecord /\ f \in PhoneRecord
  BY <1>0, Names DEF PeerRecord, ServerRecord, PhoneRecord
<1>2. /\ p.state = r.state /\ p.error = r.error /\ p.gone = r.gone /\ p.uplink = r.uplink
      /\ p.bytes = r.bytes /\ p.downlink = r.downlink /\ p.attached = r.attached /\ p.close = r.close
      /\ p.eof = r.eof /\ p.released = r.released /\ p.connector = r.connector /\ p.reader = r.reader
      /\ p.writer = r.writer /\ p.hand = r.hand /\ p.socket = r.socket
  BY <1>0 DEF PeerRecord, ServerRecord, PhoneRecord
<1> HIDE DEF p
<1>3. ThreadsFit(p)
  BY <1>2 DEF Fit, ThreadsFit, Over
<1>4. UpFits(p, u, f)
  BY <1>2 DEF Fit, UpFits, Queue, ThreadsFit, Over
<1>5. DownFits(p, u, f)
  BY <1>2 DEF Fit, DownFits, ThreadsFit, Over
<1>6. HeardFits(p, f)
  BY <1>2 DEF Fit, HeardFits, Over
<1> QED BY <1>1, <1>3, <1>4, <1>5, <1>6 DEF Fit, Typed, p

(* The connector: connected, or ended before it was, or too late, or attached. *)
LEMMA ConnectedFits ==
  ASSUME NEW r, NEW u, NEW f, Fit(r, u, f),
         r.connector = "connecting"
  PROVE  Fit([r EXCEPT !.connector = "connected", !.socket = "open"], u, f)
<1> DEFINE p == [r EXCEPT !.connector = "connected", !.socket = "open"]
<1>0. r \in PeerRecord /\ u \in ServerRecord /\ f \in PhoneRecord
  BY DEF Fit, Typed
<1>1. p \in PeerRecord /\ u \in ServerRecord /\ f \in PhoneRecord
  BY <1>0, Names DEF PeerRecord, ServerRecord, PhoneRecord
<1>2. /\ p.state = r.state /\ p.error = r.error /\ p.gone = r.gone /\ p.uplink = r.uplink
      /\ p.bytes = r.bytes /\ p.downlink = r.downlink /\ p.attached = r.attached /\ p.close = r.close
      /\ p.eof = r.eof /\ p.released = r.released /\ p.connector = "connected" /\ p.reader = r.reader
      /\ p.writer = r.writer /\ p.hand = r.hand /\ p.socket = "open"
  BY <1>0 DEF PeerRecord, ServerRecord, PhoneRecord
<1> HIDE DEF p
<1>3. ThreadsFit(p)
  BY <1>2 DEF Fit, ThreadsFit, Over
<1>4. UpFits(p, u, f)
  BY <1>2 DEF Fit, UpFits, Queue, ThreadsFit, Over
<1>5. DownFits(p, u, f)
  BY <1>2 DEF Fit, DownFits, ThreadsFit, Over
<1>6. HeardFits(p, f)
  BY <1>2 DEF Fit, HeardFits, Over
<1> QED BY <1>1, <1>3, <1>4, <1>5, <1>6 DEF Fit, Typed, p

LEMMA ConnectorEndsFits ==
  ASSUME NEW r, NEW u, NEW f, Fit(r, u, f),
         r.connector = "connecting"
  PROVE  Fit([r EXCEPT !.connector = "done"], u, f)
<1> DEFINE p == [r EXCEPT !.connector = "done"]
<1>0. r \in PeerRecord /\ u \in ServerRecord /\ f \in PhoneRecord
  BY DEF Fit, Typed
<1>1. p \in PeerRecord /\ u \in ServerRecord /\ f \in PhoneRecord
  BY <1>0, Names DEF PeerRecord, ServerRecord, PhoneRecord
<1>2. /\ p.state = r.state /\ p.error = r.error /\ p.gone = r.gone /\ p.uplink = r.uplink
      /\ p.bytes = r.bytes /\ p.downlink = r.downlink /\ p.attached = r.attached /\ p.close = r.close
      /\ p.eof = r.eof /\ p.released = r.released /\ p.connector = "done" /\ p.reader = r.reader
      /\ p.writer = r.writer /\ p.hand = r.hand /\ p.socket = r.socket
  BY <1>0 DEF PeerRecord, ServerRecord, PhoneRecord
<1> HIDE DEF p
<1>3. ThreadsFit(p)
  BY <1>2 DEF Fit, ThreadsFit, Over
<1>4. UpFits(p, u, f)
  BY <1>2 DEF Fit, UpFits, Queue, ThreadsFit, Over
<1>5. DownFits(p, u, f)
  BY <1>2 DEF Fit, DownFits, ThreadsFit, Over
<1>6. HeardFits(p, f)
  BY <1>2 DEF Fit, HeardFits, Over
<1> QED BY <1>1, <1>3, <1>4, <1>5, <1>6 DEF Fit, Typed, p

LEMMA TooLateFits ==
  ASSUME NEW r, NEW u, NEW f, Fit(r, u, f),
         r.connector = "connected"
  PROVE  Fit([r EXCEPT !.connector = "done", !.socket = "closed"], u, f)
<1> DEFINE p == [r EXCEPT !.connector = "done", !.socket = "closed"]
<1>0. r \in PeerRecord /\ u \in ServerRecord /\ f \in PhoneRecord
  BY DEF Fit, Typed
<1>1. p \in PeerRecord /\ u \in ServerRecord /\ f \in PhoneRecord
  BY <1>0, Names DEF PeerRecord, ServerRecord, PhoneRecord
<1>2. /\ p.state = r.state /\ p.error = r.error /\ p.gone = r.gone /\ p.uplink = r.uplink
      /\ p.bytes = r.bytes /\ p.downlink = r.downlink /\ p.attached = r.attached /\ p.close = r.close
      /\ p.eof = r.eof /\ p.released = r.released /\ p.connector = "done" /\ p.reader = r.reader
      /\ p.writer = r.writer /\ p.hand = r.hand /\ p.socket = "closed"
  BY <1>0 DEF PeerRecord, ServerRecord, PhoneRecord
<1> HIDE DEF p
<1>3. ThreadsFit(p)
  BY <1>2 DEF Fit, ThreadsFit, Over
<1>4. UpFits(p, u, f)
  BY <1>2 DEF Fit, UpFits, Queue, ThreadsFit, Over
<1>5. DownFits(p, u, f)
  BY <1>2 DEF Fit, DownFits, ThreadsFit, Over
<1>6. HeardFits(p, f)
  BY <1>2 DEF Fit, HeardFits, Over
<1> QED BY <1>1, <1>3, <1>4, <1>5, <1>6 DEF Fit, Typed, p

LEMMA AttachFits ==
  ASSUME NEW r, NEW u, NEW f, Fit(r, u, f),
         r.connector = "connected", ~Over(r)
  PROVE  Fit([r EXCEPT !.connector = "done", !.attached = TRUE, !.reader = "looking", !.writer = "looking", !.state = "active", !.openOk = TRUE], u, f)
<1> DEFINE p == [r EXCEPT !.connector = "done", !.attached = TRUE, !.reader = "looking", !.writer = "looking", !.state = "active", !.openOk = TRUE]
<1>0. r \in PeerRecord /\ u \in ServerRecord /\ f \in PhoneRecord
  BY DEF Fit, Typed
<1>1. p \in PeerRecord /\ u \in ServerRecord /\ f \in PhoneRecord
  BY <1>0, Names DEF PeerRecord, ServerRecord, PhoneRecord
<1>2. /\ p.state = "active" /\ p.error = r.error /\ p.gone = r.gone /\ p.uplink = r.uplink
      /\ p.bytes = r.bytes /\ p.downlink = r.downlink /\ p.attached = TRUE /\ p.close = r.close
      /\ p.eof = r.eof /\ p.released = r.released /\ p.connector = "done" /\ p.reader = "looking"
      /\ p.writer = "looking" /\ p.hand = r.hand /\ p.socket = r.socket
  BY <1>0 DEF PeerRecord, ServerRecord, PhoneRecord
<1> HIDE DEF p
<1>3. ThreadsFit(p)
  BY <1>2 DEF Fit, ThreadsFit, Over
<1>4. UpFits(p, u, f)
  BY <1>2 DEF Fit, UpFits, Queue, ThreadsFit, Over
<1>5. DownFits(p, u, f)
  BY <1>2 DEF Fit, DownFits, ThreadsFit, Over
<1>6. HeardFits(p, f)
  BY <1>2 DEF Fit, HeardFits, Over
<1> QED BY <1>1, <1>3, <1>4, <1>5, <1>6 DEF Fit, Typed, p

(* The writer finds its tunnel over, or fails with a chunk in its hand. *)
LEMMA WriterStopsFits ==
  ASSUME NEW r, NEW u, NEW f, Fit(r, u, f),
         r.writer = "looking", Over(r)
  PROVE  Fit([r EXCEPT !.writer = "ending"], u, f)
<1> DEFINE p == [r EXCEPT !.writer = "ending"]
<1>0. r \in PeerRecord /\ u \in ServerRecord /\ f \in PhoneRecord
  BY DEF Fit, Typed
<1>1. p \in PeerRecord /\ u \in ServerRecord /\ f \in PhoneRecord
  BY <1>0, Names DEF PeerRecord, ServerRecord, PhoneRecord
<1>2. /\ p.state = r.state /\ p.error = r.error /\ p.gone = r.gone /\ p.uplink = r.uplink
      /\ p.bytes = r.bytes /\ p.downlink = r.downlink /\ p.attached = r.attached /\ p.close = r.close
      /\ p.eof = r.eof /\ p.released = r.released /\ p.connector = r.connector /\ p.reader = r.reader
      /\ p.writer = "ending" /\ p.hand = r.hand /\ p.socket = r.socket
  BY <1>0 DEF PeerRecord, ServerRecord, PhoneRecord
<1> HIDE DEF p
<1>3. ThreadsFit(p)
  BY <1>2 DEF Fit, ThreadsFit, Over
<1>4. UpFits(p, u, f)
  BY <1>2 DEF Fit, UpFits, Queue, ThreadsFit, Over
<1>5. DownFits(p, u, f)
  BY <1>2 DEF Fit, DownFits, ThreadsFit, Over
<1>6. HeardFits(p, f)
  BY <1>2 DEF Fit, HeardFits, Over
<1> QED BY <1>1, <1>3, <1>4, <1>5, <1>6 DEF Fit, Typed, p

LEMMA WriterFailsFits ==
  ASSUME NEW r, NEW u, NEW f, Fit(r, u, f),
         r.writer = "sending", Over(r)
  PROVE  Fit([r EXCEPT !.hand = 0, !.writer = "ending"], u, f)
<1> DEFINE p == [r EXCEPT !.hand = 0, !.writer = "ending"]
<1>0. r \in PeerRecord /\ u \in ServerRecord /\ f \in PhoneRecord
  BY DEF Fit, Typed
<1>1. p \in PeerRecord /\ u \in ServerRecord /\ f \in PhoneRecord
  BY <1>0, Names DEF PeerRecord, ServerRecord, PhoneRecord
<1>2. /\ p.state = r.state /\ p.error = r.error /\ p.gone = r.gone /\ p.uplink = r.uplink
      /\ p.bytes = r.bytes /\ p.downlink = r.downlink /\ p.attached = r.attached /\ p.close = r.close
      /\ p.eof = r.eof /\ p.released = r.released /\ p.connector = r.connector /\ p.reader = r.reader
      /\ p.writer = "ending" /\ p.hand = 0 /\ p.socket = r.socket
  BY <1>0 DEF PeerRecord, ServerRecord, PhoneRecord
<1> HIDE DEF p
<1>3. ThreadsFit(p)
  BY <1>2 DEF Fit, ThreadsFit, Over
<1>4. UpFits(p, u, f)
  BY <1>2 DEF Fit, UpFits, Queue, ThreadsFit, Over
<1>5. DownFits(p, u, f)
  BY <1>2 DEF Fit, DownFits, ThreadsFit, Over
<1>6. HeardFits(p, f)
  BY <1>2 DEF Fit, HeardFits, Over
<1> QED BY <1>1, <1>3, <1>4, <1>5, <1>6 DEF Fit, Typed, p

(* The reader stops, or goes on to receive. *)
LEMMA ReaderStopsFits ==
  ASSUME NEW r, NEW u, NEW f, Fit(r, u, f),
         r.reader \in {"looking", "receiving"}
  PROVE  Fit([r EXCEPT !.reader = "ending"], u, f)
<1> DEFINE p == [r EXCEPT !.reader = "ending"]
<1>0. r \in PeerRecord /\ u \in ServerRecord /\ f \in PhoneRecord
  BY DEF Fit, Typed
<1>1. p \in PeerRecord /\ u \in ServerRecord /\ f \in PhoneRecord
  BY <1>0, Names DEF PeerRecord, ServerRecord, PhoneRecord
<1>2. /\ p.state = r.state /\ p.error = r.error /\ p.gone = r.gone /\ p.uplink = r.uplink
      /\ p.bytes = r.bytes /\ p.downlink = r.downlink /\ p.attached = r.attached /\ p.close = r.close
      /\ p.eof = r.eof /\ p.released = r.released /\ p.connector = r.connector /\ p.reader = "ending"
      /\ p.writer = r.writer /\ p.hand = r.hand /\ p.socket = r.socket
  BY <1>0 DEF PeerRecord, ServerRecord, PhoneRecord
<1> HIDE DEF p
<1>3. ThreadsFit(p)
  BY <1>2 DEF Fit, ThreadsFit, Over
<1>4. UpFits(p, u, f)
  BY <1>2 DEF Fit, UpFits, Queue, ThreadsFit, Over
<1>5. DownFits(p, u, f)
  BY <1>2 DEF Fit, DownFits, ThreadsFit, Over
<1>6. HeardFits(p, f)
  BY <1>2 DEF Fit, HeardFits, Over
<1> QED BY <1>1, <1>3, <1>4, <1>5, <1>6 DEF Fit, Typed, p

LEMMA ReaderLooksFits ==
  ASSUME NEW r, NEW u, NEW f, Fit(r, u, f),
         r.reader = "looking", ~Over(r), Len(r.downlink) < Buffer
  PROVE  Fit([r EXCEPT !.reader = "receiving"], u, f)
<1> DEFINE p == [r EXCEPT !.reader = "receiving"]
<1>0. r \in PeerRecord /\ u \in ServerRecord /\ f \in PhoneRecord
  BY DEF Fit, Typed
<1>1. p \in PeerRecord /\ u \in ServerRecord /\ f \in PhoneRecord
  BY <1>0, Names DEF PeerRecord, ServerRecord, PhoneRecord
<1>2. /\ p.state = r.state /\ p.error = r.error /\ p.gone = r.gone /\ p.uplink = r.uplink
      /\ p.bytes = r.bytes /\ p.downlink = r.downlink /\ p.attached = r.attached /\ p.close = r.close
      /\ p.eof = r.eof /\ p.released = r.released /\ p.connector = r.connector /\ p.reader = "receiving"
      /\ p.writer = r.writer /\ p.hand = r.hand /\ p.socket = r.socket
  BY <1>0 DEF PeerRecord, ServerRecord, PhoneRecord
<1> HIDE DEF p
<1>3. ThreadsFit(p)
  BY <1>2 DEF Fit, ThreadsFit, Over
<1>4. UpFits(p, u, f)
  BY <1>2 DEF Fit, UpFits, Queue, ThreadsFit, Over
<1>5. DownFits(p, u, f)
  BY <1>2 DEF Fit, DownFits, ThreadsFit, Over
<1>6. HeardFits(p, f)
  BY <1>2 DEF Fit, HeardFits, Over
<1> QED BY <1>1, <1>3, <1>4, <1>5, <1>6 DEF Fit, Typed, p

(* A write that is answered though its tunnel is over counts as sent. *)
LEMMA SentOverFits ==
  ASSUME NEW r, NEW u, NEW f, Fit(r, u, f),
         Over(r)
  PROVE  Fit(r, u, [f EXCEPT !.sent = @ + 1])
<1> DEFINE k == [f EXCEPT !.sent = @ + 1]
<1>0. r \in PeerRecord /\ u \in ServerRecord /\ f \in PhoneRecord
  BY DEF Fit, Typed
<1>a. r.hand \in Nat /\ Len(u.got) \in Nat /\ f.sent \in Nat /\ f.sent + 1 \in Nat
  BY FitFields
<1>1. r \in PeerRecord /\ u \in ServerRecord /\ k \in PhoneRecord
  BY <1>0, Names, <1>a DEF PeerRecord, ServerRecord, PhoneRecord
<1>2. /\ k.sent = f.sent + 1 /\ k.got = f.got /\ k.heard = f.heard
  BY <1>0 DEF PeerRecord, ServerRecord, PhoneRecord
<1> HIDE DEF k
<1>3. ThreadsFit(r)
  BY DEF Fit
<1>4. UpFits(r, u, k)
  BY <1>a, <1>2 DEF Fit, UpFits, Over
<1>5. DownFits(r, u, k)
  BY <1>2 DEF Fit, DownFits, ThreadsFit, Over
<1>6. HeardFits(r, k)
  BY <1>2 DEF Fit, HeardFits, Over
<1> QED BY <1>1, <1>3, <1>4, <1>5, <1>6 DEF Fit, Typed, k

(* The phone reads ERROR or CLOSED. *)
LEMMA HearsFailedFits ==
  ASSUME NEW r, NEW u, NEW f, Fit(r, u, f),
         r.error, f.heard # "closed"
  PROVE  Fit(r, u, [f EXCEPT !.heard = "failed"])
<1> DEFINE k == [f EXCEPT !.heard = "failed"]
<1>0. r \in PeerRecord /\ u \in ServerRecord /\ f \in PhoneRecord
  BY DEF Fit, Typed
<1>1. r \in PeerRecord /\ u \in ServerRecord /\ k \in PhoneRecord
  BY <1>0, Names DEF PeerRecord, ServerRecord, PhoneRecord
<1>2. /\ k.sent = f.sent /\ k.got = f.got /\ k.heard = "failed"
  BY <1>0 DEF PeerRecord, ServerRecord, PhoneRecord
<1> HIDE DEF k
<1>3. ThreadsFit(r)
  BY DEF Fit
<1>4. UpFits(r, u, k)
  BY <1>2 DEF Fit, UpFits, Queue, ThreadsFit, Over
<1>5. DownFits(r, u, k)
  BY <1>2 DEF Fit, DownFits, ThreadsFit, Over
<1>6. HeardFits(r, k)
  BY <1>2 DEF Fit, HeardFits, Over
<1> QED BY <1>1, <1>3, <1>4, <1>5, <1>6 DEF Fit, Typed, k

LEMMA HearsClosedFits ==
  ASSUME NEW r, NEW u, NEW f, Fit(r, u, f),
         r.released, f.heard # "failed"
  PROVE  Fit(r, u, [f EXCEPT !.heard = "closed"])
<1> DEFINE k == [f EXCEPT !.heard = "closed"]
<1>0. r \in PeerRecord /\ u \in ServerRecord /\ f \in PhoneRecord
  BY DEF Fit, Typed
<1>1. r \in PeerRecord /\ u \in ServerRecord /\ k \in PhoneRecord
  BY <1>0, Names DEF PeerRecord, ServerRecord, PhoneRecord
<1>2. /\ k.sent = f.sent /\ k.got = f.got /\ k.heard = "closed"
  BY <1>0 DEF PeerRecord, ServerRecord, PhoneRecord
<1> HIDE DEF k
<1>3. ThreadsFit(r)
  BY DEF Fit
<1>4. UpFits(r, u, k)
  BY <1>2 DEF Fit, UpFits, Queue, ThreadsFit, Over
<1>5. DownFits(r, u, k)
  BY <1>2 DEF Fit, DownFits, ThreadsFit, Over
<1>6. HeardFits(r, k)
  BY <1>2 DEF Fit, HeardFits, Over
<1> QED BY <1>1, <1>3, <1>4, <1>5, <1>6 DEF Fit, Typed, k

(* The web server ends its side, or sends a chunk. *)
LEMMA ServerEndsFits ==
  ASSUME NEW r, NEW u, NEW f, Fit(r, u, f)
  PROVE  Fit(r, [u EXCEPT !.ended = TRUE], f)
<1> DEFINE v == [u EXCEPT !.ended = TRUE]
<1>0. r \in PeerRecord /\ u \in ServerRecord /\ f \in PhoneRecord
  BY DEF Fit, Typed
<1>1. r \in PeerRecord /\ v \in ServerRecord /\ f \in PhoneRecord
  BY <1>0, Names DEF PeerRecord, ServerRecord, PhoneRecord
<1>2. /\ v.sent = u.sent /\ v.got = u.got /\ v.ended = TRUE
  BY <1>0 DEF PeerRecord, ServerRecord, PhoneRecord
<1> HIDE DEF v
<1>3. ThreadsFit(r)
  BY DEF Fit
<1>4. UpFits(r, v, f)
  BY <1>2 DEF Fit, UpFits, Queue, ThreadsFit, Over
<1>5. DownFits(r, v, f)
  BY <1>2 DEF Fit, DownFits, ThreadsFit, Over
<1>6. HeardFits(r, f)
  BY <1>2 DEF Fit, HeardFits, Over
<1> QED BY <1>1, <1>3, <1>4, <1>5, <1>6 DEF Fit, Typed, v

LEMMA ServerSendsFits ==
  ASSUME NEW r, NEW u, NEW f, Fit(r, u, f),
         ~u.ended
  PROVE  Fit(r, [u EXCEPT !.sent = @ + 1], f)
<1> DEFINE v == [u EXCEPT !.sent = @ + 1]
<1>0. r \in PeerRecord /\ u \in ServerRecord /\ f \in PhoneRecord
  BY DEF Fit, Typed
<1>a. PICK s \in Nat, l \in Nat, m \in Nat :
             s = u.sent /\ l = Len(r.downlink) /\ m = Len(f.got)
  BY FitFields
<1>1. r \in PeerRecord /\ v \in ServerRecord /\ f \in PhoneRecord
  <2>1. s + 1 \in Nat /\ v = [u EXCEPT !.sent = s + 1]
    BY <1>a
  <2> QED BY <1>0, <2>1 DEF PeerRecord, ServerRecord, PhoneRecord
<1>2. /\ v.sent = u.sent + 1 /\ v.got = u.got /\ v.ended = u.ended
  BY <1>0 DEF PeerRecord, ServerRecord, PhoneRecord
<1> HIDE DEF v
<1>3. ThreadsFit(r)
  BY DEF Fit
<1>4. UpFits(r, v, f)
  BY <1>2 DEF Fit, UpFits, Queue, ThreadsFit, Over
<1>5. DownFits(r, v, f)
  <2>1. ~r.eof /\ m + l <= s
    BY <1>a, <1>2 DEF Fit, DownFits
  <2>2. m + l <= s + 1
    BY <2>1
  <2>3. Len(f.got) + Len(r.downlink) <= v.sent
    BY <1>a, <1>2, <2>2
  <2> QED BY <1>2, <2>1, <2>3 DEF Fit, DownFits
<1>6. HeardFits(r, f)
  BY <1>2 DEF Fit, HeardFits, Over
<1> QED BY <1>1, <1>3, <1>4, <1>5, <1>6 DEF Fit, Typed, v

(* A chunk q[l + 1] that the reader appends is the next one of the server. *)
LEMMA ReaderChunkFits ==
  ASSUME NEW r, NEW u, NEW f, Fit(r, u, f),
         NEW l \in Nat, NEW m \in Nat, l = Len(r.downlink), m = Len(f.got),
         NEW q \in Seq(Nat), Len(q) = l + 1, q[l + 1] = m + (l + 1),
         \A i \in 1..l : q[i] = r.downlink[i],
         r.reader = "receiving", ~Over(r), m + (l + 1) <= u.sent
  PROVE  Fit([r EXCEPT !.downlink = q, !.reader = "looking"], u, f)
<1> DEFINE p == [r EXCEPT !.downlink = q, !.reader = "looking"]
<1>0. r \in PeerRecord /\ u \in ServerRecord /\ f \in PhoneRecord
  BY DEF Fit, Typed
<1>a. /\ r.downlink \in Seq(Nat) /\ f.got \in Seq(Nat)
      /\ ThreadsFit(r) /\ UpFits(r, u, f) /\ DownFits(r, u, f)
  BY FitFields DEF Fit
<1>n. PICK s \in Nat : s = u.sent
  BY FitFields
<1>1. p \in PeerRecord /\ u \in ServerRecord /\ f \in PhoneRecord
  BY <1>0, Names DEF PeerRecord, ServerRecord, PhoneRecord
<1>2. /\ p.state = r.state /\ p.error = r.error /\ p.gone = r.gone /\ p.uplink = r.uplink
      /\ p.bytes = r.bytes /\ p.downlink = q /\ p.attached = r.attached /\ p.close = r.close
      /\ p.eof = r.eof /\ p.released = r.released /\ p.connector = r.connector /\ p.reader = "looking"
      /\ p.writer = r.writer /\ p.hand = r.hand /\ p.socket = r.socket
  BY <1>0 DEF PeerRecord, ServerRecord, PhoneRecord
<1> HIDE DEF p
<1>3. ThreadsFit(p)
  BY <1>2 DEF Fit, ThreadsFit, Over
<1>4. UpFits(p, u, f)
  <2>1. r.writer = p.writer /\ r.hand = p.hand /\ (Over(p) <=> Over(r))
    BY <1>2 DEF Over
  <2> QED BY <1>a, <1>2, <2>1 DEF UpFits, Queue
<1>5. DownFits(p, u, f)
  <2>1. /\ Len(p.downlink) = l + 1 /\ p.downlink[l + 1] = m + (l + 1)
        /\ \A i \in 1..l : p.downlink[i] = r.downlink[i]
    BY <1>2
  <2>2. \A i \in 1..l : p.downlink[i] = m + i
    BY <1>a, <1>n, <2>1 DEF DownFits
  <2>3. \A i \in 1..(l + 1) : i = l + 1 \/ i \in 1..l
    OBVIOUS
  <2>4. \A i \in 1..Len(p.downlink) : p.downlink[i] = Len(f.got) + i
    BY <1>n, <2>1, <2>2, <2>3
  <2>5. l < Buffer
    BY <1>a, <1>n DEF DownFits
  <2>6. l + 1 <= Buffer /\ m + (l + 1) <= s
    <3>1. m + (l + 1) <= s
      BY <1>n
    <3>2. \A a, b \in Nat : a < b => a + 1 <= b
      OBVIOUS
    <3> QED BY <2>5, <3>1, <3>2, Sizes
  <2>7. ~r.eof
    BY <1>a DEF DownFits
  <2> QED BY <1>a, <1>n, <1>2, <2>1, <2>4, <2>6, <2>7 DEF DownFits
<1>6. HeardFits(p, f)
  BY <1>2 DEF Fit, HeardFits, Over
<1> QED BY <1>1, <1>3, <1>4, <1>5, <1>6 DEF Fit, Typed, p

(* The end of the stream comes after every chunk that was sent. *)
LEMMA ReaderEofFits ==
  ASSUME NEW r, NEW u, NEW f, Fit(r, u, f),
         r.reader = "receiving", u.ended, Len(f.got) + Len(r.downlink) = u.sent
  PROVE  Fit([r EXCEPT !.eof = ~Over(r), !.reader = "ending"], u, f)
<1> DEFINE p == [r EXCEPT !.eof = ~Over(r), !.reader = "ending"]
<1>0. r \in PeerRecord /\ u \in ServerRecord /\ f \in PhoneRecord
  BY DEF Fit, Typed
<1>1. p \in PeerRecord /\ u \in ServerRecord /\ f \in PhoneRecord
  BY <1>0, Names DEF PeerRecord, ServerRecord, PhoneRecord
<1>2. /\ p.state = r.state /\ p.error = r.error /\ p.gone = r.gone /\ p.uplink = r.uplink
      /\ p.bytes = r.bytes /\ p.downlink = r.downlink /\ p.attached = r.attached /\ p.close = r.close
      /\ p.eof = ~Over(r) /\ p.released = r.released /\ p.connector = r.connector /\ p.reader = "ending"
      /\ p.writer = r.writer /\ p.hand = r.hand /\ p.socket = r.socket
  BY <1>0 DEF PeerRecord, ServerRecord, PhoneRecord
<1> HIDE DEF p
<1>3. ThreadsFit(p)
  BY <1>2 DEF Fit, ThreadsFit, Over
<1>4. UpFits(p, u, f)
  BY <1>2 DEF Fit, UpFits, Queue, ThreadsFit, Over
<1>5. DownFits(p, u, f)
  <2>1. /\ f.got = FirstChunks(Len(f.got)) /\ Len(f.got) + Len(r.downlink) <= u.sent
        /\ \A i \in 1..Len(r.downlink) : r.downlink[i] = Len(f.got) + i
        /\ Len(r.downlink) <= Buffer
    BY DEF Fit, DownFits
  <2> QED BY <1>2, <2>1 DEF DownFits
<1>6. HeardFits(p, f)
  BY <1>2 DEF Fit, HeardFits, Over
<1> QED BY <1>1, <1>3, <1>4, <1>5, <1>6 DEF Fit, Typed, p

(* The phone reads the next chunk. *)
LEMMA DownTakenFits ==
  ASSUME NEW r, NEW u, NEW f, Fit(r, u, f),
         ~Over(r), r.downlink # <<>>
  PROVE  Fit([r EXCEPT !.downlink = Tail(@)], u, [f EXCEPT !.got = Append(@, Head(r.downlink))])
<1> DEFINE p == [r EXCEPT !.downlink = Tail(@)]
<1> DEFINE k == [f EXCEPT !.got = Append(@, Head(r.downlink))]
<1>0. r \in PeerRecord /\ u \in ServerRecord /\ f \in PhoneRecord
  BY DEF Fit, Typed
<1>a. /\ r.downlink \in Seq(Nat) /\ f.got \in Seq(Nat)
      /\ ThreadsFit(r) /\ UpFits(r, u, f) /\ DownFits(r, u, f)
  BY FitFields DEF Fit
<1>n. PICK l \in Nat, m \in Nat, s \in Nat :
        l = Len(r.downlink) /\ m = Len(f.got) /\ s = u.sent
  BY FitFields
<1>b. /\ Tail(r.downlink) \in Seq(Nat) /\ Len(Tail(r.downlink)) = l - 1
      /\ Head(r.downlink) = r.downlink[1] /\ Head(r.downlink) \in Nat
      /\ \A i \in 1..(l - 1) : Tail(r.downlink)[i] = r.downlink[i + 1]
      /\ l >= 1
  BY <1>a, <1>n, Tailed
<1>c. Head(r.downlink) = m + 1
  <2>1. 1 \in 1..l
    BY <1>b
  <2> QED BY <1>a, <1>b, <1>n, <2>1 DEF DownFits
<1>e. f.got = FirstChunks(m)
  BY <1>a, <1>n DEF DownFits
<1>d. /\ Append(f.got, Head(r.downlink)) = FirstChunks(m + 1)
      /\ FirstChunks(m + 1) \in Seq(Nat) /\ Len(FirstChunks(m + 1)) = m + 1
  <2>1. m + 1 \in Nat
    OBVIOUS
  <2>2. FirstChunks(m + 1) \in Seq(Nat) /\ Len(FirstChunks(m + 1)) = m + 1
    BY <2>1, FirstChunksSeq
  <2>3. Append(FirstChunks(m), m + 1) = FirstChunks(m + 1)
    BY OneMore
  <2> QED BY <1>c, <1>e, <2>2, <2>3
<1>1. p \in PeerRecord /\ u \in ServerRecord /\ k \in PhoneRecord
  BY <1>0, Names, <1>b, <1>d DEF PeerRecord, ServerRecord, PhoneRecord
<1>2. /\ p.state = r.state /\ p.error = r.error /\ p.gone = r.gone /\ p.uplink = r.uplink
      /\ p.bytes = r.bytes /\ p.downlink = Tail(r.downlink) /\ p.attached = r.attached /\ p.close = r.close
      /\ p.eof = r.eof /\ p.released = r.released /\ p.connector = r.connector /\ p.reader = r.reader
      /\ p.writer = r.writer /\ p.hand = r.hand /\ p.socket = r.socket /\ k.sent = f.sent
      /\ k.got = Append(f.got, Head(r.downlink)) /\ k.heard = f.heard
  BY <1>0 DEF PeerRecord, ServerRecord, PhoneRecord
<1> HIDE DEF p, k
<1>3. ThreadsFit(p)
  BY <1>2 DEF Fit, ThreadsFit, Over
<1>4. UpFits(p, u, k)
  BY <1>2 DEF Fit, UpFits, Queue, ThreadsFit, Over
<1>5. DownFits(p, u, k)
  <2>1. /\ k.got = FirstChunks(Len(k.got)) /\ Len(k.got) = m + 1
        /\ Len(p.downlink) = l - 1 /\ l - 1 \in Nat
    BY <1>b, <1>d, <1>2
  <2>2. \A i \in 1..(l - 1) : p.downlink[i] = (m + 1) + i
    <3>1. \A i \in 1..(l - 1) : i + 1 \in 1..l
      OBVIOUS
    <3>2. \A i \in 1..l : r.downlink[i] = m + i
      BY <1>a, <1>n DEF DownFits
    <3>3. \A i \in 1..(l - 1) : m + (i + 1) = (m + 1) + i
      OBVIOUS
    <3> QED BY <1>b, <1>2, <3>1, <3>2, <3>3
  <2>3. l <= Buffer /\ m + l <= s /\ (r.eof => m + l = s)
    BY <1>a, <1>n DEF DownFits
  <2>4. /\ l - 1 < Buffer /\ l - 1 <= Buffer /\ (m + 1) + (l - 1) <= s
        /\ r.eof => (m + 1) + (l - 1) = s
    BY <2>3, Sizes
  <2> QED BY <1>a, <1>n, <1>2, <2>1, <2>2, <2>4 DEF DownFits
<1>6. HeardFits(p, k)
  BY <1>2 DEF Fit, HeardFits, Over
<1> QED BY <1>1, <1>3, <1>4, <1>5, <1>6 DEF Fit, Typed, p, k

(* A chunk of the phone goes to the end of the uplink ... *)
LEMMA DataFits ==
  ASSUME NEW r, NEW u, NEW f, Fit(r, u, f),
         NEW x \in Nat, x = f.sent + 1, NEW y \in Nat, y = r.bytes + 1,
         r.state = "active", r.bytes < Buffer
  PROVE  Fit([r EXCEPT !.uplink = Append(@, x), !.bytes = y], u, [f EXCEPT !.sent = x])
<1> DEFINE p == [r EXCEPT !.uplink = Append(@, x), !.bytes = y]
<1> DEFINE k == [f EXCEPT !.sent = x]
<1>0. r \in PeerRecord /\ u \in ServerRecord /\ f \in PhoneRecord
  BY DEF Fit, Typed
<1>a. /\ r.uplink \in Seq(Nat) /\ u.got \in Seq(Nat) /\ r.hand \in Nat /\ r.bytes \in Nat
      /\ ThreadsFit(r) /\ UpFits(r, u, f) /\ DownFits(r, u, f)
  BY FitFields DEF Fit
<1>n. PICK c \in Nat, s \in Nat, l \in Nat, b \in Nat :
        c = Len(u.got) /\ s = f.sent /\ l = Len(r.uplink) /\ b = r.bytes
  BY FitFields
<1>o. ~Over(r) /\ ~r.close
  BY <1>a DEF ThreadsFit
<1>q. PICK n \in Nat, h \in {0, 1}, e \in {0, 1} : Queue(r, c, s, n, h, e)
  BY <1>a, <1>n, <1>o DEF UpFits
<1>c. /\ Append(r.uplink, x) \in Seq(Nat) /\ Len(Append(r.uplink, x)) = l + 1
      /\ Append(r.uplink, x)[l + 1] = x
      /\ \A i \in 1..l : Append(r.uplink, x)[i] = r.uplink[i]
  BY <1>a, <1>n, Appended
<1>1. p \in PeerRecord /\ u \in ServerRecord /\ k \in PhoneRecord
  BY <1>0, Names, <1>c DEF PeerRecord, ServerRecord, PhoneRecord
<1>2. /\ p.state = r.state /\ p.error = r.error /\ p.gone = r.gone /\ p.uplink = Append(r.uplink, x)
      /\ p.bytes = y /\ p.downlink = r.downlink /\ p.attached = r.attached /\ p.close = r.close
      /\ p.eof = r.eof /\ p.released = r.released /\ p.connector = r.connector /\ p.reader = r.reader
      /\ p.writer = r.writer /\ p.hand = r.hand /\ p.socket = r.socket /\ k.sent = x
      /\ k.got = f.got /\ k.heard = f.heard
  BY <1>0 DEF PeerRecord, ServerRecord, PhoneRecord
<1> HIDE DEF p, k
<1>3. ThreadsFit(p)
  BY <1>2 DEF Fit, ThreadsFit, Over
<1>4. UpFits(p, u, k)
  <2>1. /\ e = 0 /\ l = n + e /\ s = c + h + n /\ b = h + n
        /\ \A i \in 1..n : r.uplink[i] = c + h + i
    BY <1>n, <1>o, <1>q DEF Queue
  <2>2. x = s + 1 /\ y = b + 1 /\ b < Buffer
    BY <1>n
  <2>3. /\ l = n /\ x = c + h + (n + 1) /\ y = h + (n + 1) /\ y <= Buffer
        /\ n + 1 \in Nat /\ l + 1 = (n + 1) + 0
    BY <2>1, <2>2, Sizes
  <2>4. \A i \in 1..(n + 1) : p.uplink[i] = c + h + i
    <3>1. \A i \in 1..(n + 1) : i = n + 1 \/ i \in 1..n
      OBVIOUS
    <3> QED BY <1>c, <1>2, <2>1, <2>3, <3>1
  <2>5. Len(p.uplink) = (n + 1) + 0
    BY <1>c, <1>2, <2>3
  <2>6. Queue(p, c, x, n + 1, h, 0)
    BY <1>o, <1>q, <1>2, <2>3, <2>4, <2>5 DEF Queue
  <2>7. \E m \in Nat, h1, e1 \in {0, 1} : Queue(p, c, x, m, h1, e1)
    BY <2>3, <2>6
  <2>8. /\ u.got = FirstChunks(c) /\ c <= s /\ (r.hand # 0 <=> r.writer = "sending")
        /\ r.hand # 0 => r.hand = c + 1 /\ r.hand <= s
    BY <1>a, <1>n DEF UpFits
  <2>9. c <= x /\ (r.hand # 0 => r.hand <= x)
    BY <1>a, <2>2, <2>8
  <2> QED BY <1>n, <1>2, <2>7, <2>8, <2>9 DEF UpFits
<1>5. DownFits(p, u, k)
  <2>1. Over(p) <=> Over(r)
    BY <1>2 DEF Over
  <2> QED BY <1>a, <1>2, <2>1, SameDown
<1>6. HeardFits(p, k)
  BY <1>2 DEF Fit, HeardFits, Over
<1> QED BY <1>1, <1>3, <1>4, <1>5, <1>6 DEF Fit, Typed, p, k

(* ... and CLOSE puts the mark of the end behind everything that was sent. *)
LEMMA CloseFits ==
  ASSUME NEW r, NEW u, NEW f, Fit(r, u, f),
         r.state = "active"
  PROVE  Fit([r EXCEPT !.state = "closing", !.close = TRUE, !.uplink = Append(@, EndMark)], u, f)
<1> DEFINE p == [r EXCEPT !.state = "closing", !.close = TRUE, !.uplink = Append(@, EndMark)]
<1>0. r \in PeerRecord /\ u \in ServerRecord /\ f \in PhoneRecord
  BY DEF Fit, Typed
<1>a. /\ r.uplink \in Seq(Nat) /\ u.got \in Seq(Nat) /\ r.hand \in Nat /\ r.bytes \in Nat
      /\ ThreadsFit(r) /\ UpFits(r, u, f) /\ DownFits(r, u, f)
  BY FitFields DEF Fit
<1>n. PICK c \in Nat, s \in Nat, l \in Nat, b \in Nat :
        c = Len(u.got) /\ s = f.sent /\ l = Len(r.uplink) /\ b = r.bytes
  BY FitFields
<1>o. ~Over(r) /\ ~r.close /\ r.writer \in {"looking", "sending"}
  BY <1>a DEF ThreadsFit
<1>q. PICK n \in Nat, h \in {0, 1}, e \in {0, 1} : Queue(r, c, s, n, h, e)
  BY <1>a, <1>n, <1>o DEF UpFits
<1>c. /\ Append(r.uplink, EndMark) \in Seq(Nat) /\ Len(Append(r.uplink, EndMark)) = l + 1
      /\ Append(r.uplink, EndMark)[l + 1] = EndMark
      /\ \A i \in 1..l : Append(r.uplink, EndMark)[i] = r.uplink[i]
  BY <1>a, <1>n, Appended DEF EndMark
<1>1. p \in PeerRecord /\ u \in ServerRecord /\ f \in PhoneRecord
  BY <1>0, Names, <1>c DEF PeerRecord, ServerRecord, PhoneRecord
<1>2. /\ p.state = "closing" /\ p.error = r.error /\ p.gone = r.gone /\ p.uplink = Append(r.uplink, EndMark)
      /\ p.bytes = r.bytes /\ p.downlink = r.downlink /\ p.attached = r.attached /\ p.close = TRUE
      /\ p.eof = r.eof /\ p.released = r.released /\ p.connector = r.connector /\ p.reader = r.reader
      /\ p.writer = r.writer /\ p.hand = r.hand /\ p.socket = r.socket
  BY <1>0 DEF PeerRecord, ServerRecord, PhoneRecord
<1> HIDE DEF p
<1>3. ThreadsFit(p)
  BY <1>2 DEF Fit, ThreadsFit, Over
<1>4. UpFits(p, u, f)
  <2>1. /\ e = 0 /\ l = n + e /\ s = c + h + n /\ b = h + n /\ b <= Buffer
        /\ \A i \in 1..n : r.uplink[i] = c + h + i
    BY <1>n, <1>o, <1>q DEF Queue
  <2>2. l = n
    BY <2>1
  <2>3. Queue(p, c, s, n, h, 1)
    BY <1>c, <1>n, <1>o, <1>q, <1>2, <2>1, <2>2 DEF Queue
  <2> QED BY <1>a, <1>n, <1>2, <2>3 DEF UpFits, Over
<1>5. DownFits(p, u, f)
  <2>1. Over(p) <=> Over(r)
    BY <1>2 DEF Over
  <2> QED BY <1>a, <1>2, <2>1, SameDown
<1>6. HeardFits(p, f)
  BY <1>2 DEF Fit, HeardFits, Over
<1> QED BY <1>1, <1>3, <1>4, <1>5, <1>6 DEF Fit, Typed, p

(* The writer takes the mark: nothing is queued behind it. *)
LEMMA WriterAtEndFits ==
  ASSUME NEW r, NEW u, NEW f, Fit(r, u, f),
         r.writer = "looking", ~Over(r), r.uplink # <<>>, Head(r.uplink) = EndMark
  PROVE  Fit([r EXCEPT !.uplink = Tail(@), !.writer = "ending"], u, f)
<1> DEFINE p == [r EXCEPT !.uplink = Tail(@), !.writer = "ending"]
<1>0. r \in PeerRecord /\ u \in ServerRecord /\ f \in PhoneRecord
  BY DEF Fit, Typed
<1>a. /\ r.uplink \in Seq(Nat) /\ u.got \in Seq(Nat) /\ r.hand \in Nat /\ r.bytes \in Nat
      /\ ThreadsFit(r) /\ UpFits(r, u, f) /\ DownFits(r, u, f)
  BY FitFields DEF Fit
<1>n. PICK c \in Nat, s \in Nat, l \in Nat, b \in Nat :
        c = Len(u.got) /\ s = f.sent /\ l = Len(r.uplink) /\ b = r.bytes
  BY FitFields
<1>q. PICK n \in Nat, h \in {0, 1}, e \in {0, 1} : Queue(r, c, s, n, h, e)
  BY <1>a, <1>n DEF UpFits
<1>c. /\ Tail(r.uplink) \in Seq(Nat) /\ Len(Tail(r.uplink)) = l - 1 /\ l >= 1
      /\ Head(r.uplink) = r.uplink[1] /\ Head(r.uplink) \in Nat
      /\ \A i \in 1..(l - 1) : Tail(r.uplink)[i] = r.uplink[i + 1]
  BY <1>a, <1>n, Tailed
<1>d. r.hand = 0
  BY <1>a DEF UpFits
<1>w. /\ h = 0 /\ (e = 1 <=> r.close) /\ l = n + e /\ s = c + h + n /\ b = h + n
      /\ b <= Buffer /\ (e = 1 => r.uplink[n + 1] = EndMark)
      /\ \A i \in 1..n : r.uplink[i] = c + h + i
  BY <1>d, <1>n, <1>q DEF Queue
<1>e. n = 0 /\ e = 1 /\ l = 1
  <2>1. n = 0
    <3>1. SUFFICES ASSUME n >= 1 PROVE FALSE
      OBVIOUS
    <3>2. 1 \in 1..n
      BY <3>1
    <3>3. r.uplink[1] = c + h + 1
      BY <1>w, <3>2
    <3> QED BY <1>c, <1>w, <3>3 DEF EndMark
  <2> QED BY <1>c, <1>w, <2>1
<1>t. Tail(r.uplink) = <<>>
  BY <1>a, <1>e, <1>n, Tailed
<1>1. p \in PeerRecord /\ u \in ServerRecord /\ f \in PhoneRecord
  BY <1>0, Names, <1>c DEF PeerRecord, ServerRecord, PhoneRecord
<1>2. /\ p.state = r.state /\ p.error = r.error /\ p.gone = r.gone /\ p.uplink = Tail(r.uplink)
      /\ p.bytes = r.bytes /\ p.downlink = r.downlink /\ p.attached = r.attached /\ p.close = r.close
      /\ p.eof = r.eof /\ p.released = r.released /\ p.connector = r.connector /\ p.reader = r.reader
      /\ p.writer = "ending" /\ p.hand = r.hand /\ p.socket = r.socket
  BY <1>0 DEF PeerRecord, ServerRecord, PhoneRecord
<1> HIDE DEF p
<1>3. ThreadsFit(p)
  <2>1. Over(p) <=> Over(r)
    BY <1>2 DEF Over
  <2> QED BY <1>a, <1>e, <1>t, <1>w, <1>2, <2>1 DEF ThreadsFit
<1>4. UpFits(p, u, f)
  <2>1. /\ s = c + 0 + 0 /\ b = 0 + 0 /\ 0 <= Buffer /\ p.uplink = <<>> /\ Len(p.uplink) = 0 + 0
    <3>1. s = c + 0 + 0 /\ b = 0 + 0
      BY <1>e, <1>w
    <3>2. p.uplink = <<>>
      BY <1>t, <1>2
    <3> QED BY <3>1, <3>2, Sizes, NoneQueued
  <2>2. Queue(p, c, s, 0, 0, 0)
    BY <1>d, <1>n, <1>2, <2>1 DEF Queue
  <2> QED BY <1>a, <1>n, <1>2, <2>2 DEF UpFits, Over
<1>5. DownFits(p, u, f)
  <2>1. Over(p) <=> Over(r)
    BY <1>2 DEF Over
  <2> QED BY <1>a, <1>2, <2>1, SameDown
<1>6. HeardFits(p, f)
  BY <1>2 DEF Fit, HeardFits, Over
<1> QED BY <1>1, <1>3, <1>4, <1>5, <1>6 DEF Fit, Typed, p

(* The writer takes a chunk: it is the next one for the server. *)
LEMMA WriterTakesFits ==
  ASSUME NEW r, NEW u, NEW f, Fit(r, u, f),
         r.writer = "looking", ~Over(r), r.uplink # <<>>, Head(r.uplink) # EndMark
  PROVE  Fit([r EXCEPT !.uplink = Tail(@), !.hand = Head(r.uplink), !.writer = "sending"], u, f)
<1> DEFINE p == [r EXCEPT !.uplink = Tail(@), !.hand = Head(r.uplink), !.writer = "sending"]
<1>0. r \in PeerRecord /\ u \in ServerRecord /\ f \in PhoneRecord
  BY DEF Fit, Typed
<1>a. /\ r.uplink \in Seq(Nat) /\ u.got \in Seq(Nat) /\ r.hand \in Nat /\ r.bytes \in Nat
      /\ ThreadsFit(r) /\ UpFits(r, u, f) /\ DownFits(r, u, f)
  BY FitFields DEF Fit
<1>n. PICK c \in Nat, s \in Nat, l \in Nat, b \in Nat :
        c = Len(u.got) /\ s = f.sent /\ l = Len(r.uplink) /\ b = r.bytes
  BY FitFields
<1>q. PICK n \in Nat, h \in {0, 1}, e \in {0, 1} : Queue(r, c, s, n, h, e)
  BY <1>a, <1>n DEF UpFits
<1>c. /\ Tail(r.uplink) \in Seq(Nat) /\ Len(Tail(r.uplink)) = l - 1 /\ l >= 1
      /\ Head(r.uplink) = r.uplink[1] /\ Head(r.uplink) \in Nat
      /\ \A i \in 1..(l - 1) : Tail(r.uplink)[i] = r.uplink[i + 1]
  BY <1>a, <1>n, Tailed
<1>d. r.hand = 0
  BY <1>a DEF UpFits
<1>w. /\ h = 0 /\ (e = 1 <=> r.close) /\ l = n + e /\ s = c + h + n /\ b = h + n
      /\ b <= Buffer /\ (e = 1 => r.uplink[n + 1] = EndMark)
      /\ \A i \in 1..n : r.uplink[i] = c + h + i
  BY <1>d, <1>n, <1>q DEF Queue
<1>e. n >= 1
  <2>1. ASSUME n = 0 PROVE FALSE
    <3>1. e = 1 /\ n + 1 = 1
      BY <1>c, <1>w, <2>1
    <3> QED BY <1>c, <1>w, <3>1
  <2> QED BY <2>1
<1>t. Head(r.uplink) = c + 1 /\ c + 1 <= s /\ c + 1 # 0
  <2>1. 1 \in 1..n
    BY <1>e
  <2>2. r.uplink[1] = c + h + 1
    BY <1>w, <2>1
  <2> QED BY <1>c, <1>e, <1>w, <2>2
<1>1. p \in PeerRecord /\ u \in ServerRecord /\ f \in PhoneRecord
  BY <1>0, Names, <1>c DEF PeerRecord, ServerRecord, PhoneRecord
<1>2. /\ p.state = r.state /\ p.error = r.error /\ p.gone = r.gone /\ p.uplink = Tail(r.uplink)
      /\ p.bytes = r.bytes /\ p.downlink = r.downlink /\ p.attached = r.attached /\ p.close = r.close
      /\ p.eof = r.eof /\ p.released = r.released /\ p.connector = r.connector /\ p.reader = r.reader
      /\ p.writer = "sending" /\ p.hand = Head(r.uplink) /\ p.socket = r.socket
  BY <1>0 DEF PeerRecord, ServerRecord, PhoneRecord
<1> HIDE DEF p
<1>3. ThreadsFit(p)
  BY <1>2 DEF Fit, ThreadsFit, Over
<1>4. UpFits(p, u, f)
  <2>1. /\ n - 1 \in Nat /\ l - 1 = (n - 1) + e /\ s = c + 1 + (n - 1) /\ b = 1 + (n - 1)
    BY <1>e, <1>w
  <2>2. \A i \in 1..(n - 1) : p.uplink[i] = c + 1 + i
    <3>1. \A i \in 1..(n - 1) : i + 1 \in 1..n /\ i \in 1..(l - 1) /\ c + h + (i + 1) = c + 1 + i
      BY <1>w
    <3> QED BY <1>c, <1>w, <1>2, <3>1
  <2>3. e = 1 => p.uplink[(n - 1) + 1] = EndMark
    <3>1. e = 1 => n \in 1..(l - 1) /\ (n - 1) + 1 = n
      BY <1>e, <1>w
    <3> QED BY <1>c, <1>w, <1>2, <3>1
  <2>4. Len(p.uplink) = (n - 1) + e
    BY <1>c, <1>2, <2>1
  <2>5. Queue(p, c, s, n - 1, 1, e)
    BY <1>n, <1>t, <1>w, <1>2, <2>1, <2>2, <2>3, <2>4 DEF Queue
  <2>6. \E m \in Nat, h1, e1 \in {0, 1} : Queue(p, c, s, m, h1, e1)
    BY <2>1, <2>5
  <2> QED BY <1>a, <1>n, <1>t, <1>2, <2>6 DEF UpFits
<1>5. DownFits(p, u, f)
  <2>1. Over(p) <=> Over(r)
    BY <1>2 DEF Over
  <2> QED BY <1>a, <1>2, <2>1, SameDown
<1>6. HeardFits(p, f)
  BY <1>2 DEF Fit, HeardFits, Over
<1> QED BY <1>1, <1>3, <1>4, <1>5, <1>6 DEF Fit, Typed, p

(* The chunk in the writer's hand reaches the server, and the count follows. *)
LEMMA WriterSendsFits ==
  ASSUME NEW r, NEW u, NEW f, Fit(r, u, f),
         r.writer = "sending", NEW b \in Nat, ~Over(r) => r.bytes = b + 1
  PROVE  Fit([r EXCEPT !.hand = 0, !.bytes = b, !.writer = "looking"], [u EXCEPT !.got = Append(@, r.hand)], f)
<1> DEFINE p == [r EXCEPT !.hand = 0, !.bytes = b, !.writer = "looking"]
<1> DEFINE v == [u EXCEPT !.got = Append(@, r.hand)]
<1>0. r \in PeerRecord /\ u \in ServerRecord /\ f \in PhoneRecord
  BY DEF Fit, Typed
<1>a. /\ r.uplink \in Seq(Nat) /\ u.got \in Seq(Nat) /\ r.hand \in Nat /\ r.bytes \in Nat
      /\ ThreadsFit(r) /\ UpFits(r, u, f) /\ DownFits(r, u, f)
  BY FitFields DEF Fit
<1>n. PICK c \in Nat, s \in Nat, l \in Nat :
        c = Len(u.got) /\ s = f.sent /\ l = Len(r.uplink)
  BY FitFields
<1>b. /\ r.hand = c + 1 /\ r.hand <= s /\ r.hand # 0 /\ u.got = FirstChunks(c)
  BY <1>a, <1>n DEF UpFits
<1>c. /\ Append(u.got, r.hand) = FirstChunks(c + 1)
      /\ FirstChunks(c + 1) \in Seq(Nat) /\ Len(FirstChunks(c + 1)) = c + 1
  <2>1. c + 1 \in Nat
    OBVIOUS
  <2>2. FirstChunks(c + 1) \in Seq(Nat) /\ Len(FirstChunks(c + 1)) = c + 1
    BY <2>1, FirstChunksSeq
  <2>3. Append(FirstChunks(c), c + 1) = FirstChunks(c + 1)
    BY OneMore
  <2> QED BY <1>b, <2>2, <2>3
<1>d. c + 1 <= s
  BY <1>b
<1>1. p \in PeerRecord /\ v \in ServerRecord /\ f \in PhoneRecord
  BY <1>0, Names, <1>c DEF PeerRecord, ServerRecord, PhoneRecord
<1>2. /\ p.state = r.state /\ p.error = r.error /\ p.gone = r.gone /\ p.uplink = r.uplink
      /\ p.bytes = b /\ p.downlink = r.downlink /\ p.attached = r.attached /\ p.close = r.close
      /\ p.eof = r.eof /\ p.released = r.released /\ p.connector = r.connector /\ p.reader = r.reader
      /\ p.writer = "looking" /\ p.hand = 0 /\ p.socket = r.socket /\ v.sent = u.sent
      /\ v.got = Append(u.got, r.hand) /\ v.ended = u.ended
  BY <1>0 DEF PeerRecord, ServerRecord, PhoneRecord
<1> HIDE DEF p, v
<1>3. ThreadsFit(p)
  BY <1>2 DEF Fit, ThreadsFit, Over
<1>4. UpFits(p, v, f)
  <2>1. v.got = FirstChunks(Len(v.got)) /\ Len(v.got) = c + 1
    BY <1>c, <1>2
  <2>2. ASSUME ~Over(p)
        PROVE  \E n \in Nat, h, e \in {0, 1} : Queue(p, c + 1, s, n, h, e)
    <3>1. PICK n \in Nat, h \in {0, 1}, e \in {0, 1} : Queue(r, c, s, n, h, e)
      BY <1>a, <1>n, <1>2, <2>2 DEF UpFits, Over
    <3>2. /\ h = 1 /\ r.bytes = b + 1 /\ (e = 1 <=> r.close) /\ l = n + e
          /\ s = c + h + n /\ r.bytes = h + n /\ r.bytes <= Buffer
          /\ \A i \in 1..n : r.uplink[i] = c + h + i
          /\ e = 1 => r.uplink[n + 1] = EndMark
      BY <1>b, <1>n, <1>2, <2>2, <3>1 DEF Queue, Over
    <3>3. b = 0 + n /\ b <= Buffer /\ s = (c + 1) + 0 + n
      BY <3>2, Sizes
    <3>4. \A i \in 1..n : p.uplink[i] = (c + 1) + 0 + i
      <4>1. \A i \in 1..n : c + h + i = (c + 1) + 0 + i
        BY <3>2
      <4> QED BY <1>2, <3>2, <4>1
    <3>5. Queue(p, c + 1, s, n, 0, e)
      BY <1>n, <1>2, <3>2, <3>3, <3>4 DEF Queue
    <3> QED BY <3>5
  <2> QED BY <1>d, <1>n, <1>2, <2>1, <2>2 DEF UpFits
<1>5. DownFits(p, v, f)
  BY <1>2 DEF Fit, DownFits, ThreadsFit, Over
<1>6. HeardFits(p, f)
  BY <1>2 DEF Fit, HeardFits, Over
<1> QED BY <1>1, <1>3, <1>4, <1>5, <1>6 DEF Fit, Typed, p, v

-----------------------------------------------------------------------------
(* A step on one tunnel *)

LEMMA OneTunnel ==
  ASSUME Types, Fits, NEW g \in Gens, NEW r, NEW u, NEW f, Fit(r, u, f),
         tunnel' = [tunnel EXCEPT ![g] = r], upstream' = [upstream EXCEPT ![g] = u],
         phone' = [phone EXCEPT ![g] = f]
  PROVE  /\ tunnel' \in [Gens -> PeerRecord] /\ upstream' \in [Gens -> ServerRecord]
         /\ phone' \in [Gens -> PhoneRecord]
         /\ tunnel'[g] = r /\ upstream'[g] = u /\ phone'[g] = f
         /\ \A i \in Gens : Fit(tunnel[i], upstream[i], phone[i])'
<1>1. r \in PeerRecord /\ u \in ServerRecord /\ f \in PhoneRecord
  BY DEF Fit, Typed
<1>2. /\ tunnel' \in [Gens -> PeerRecord] /\ upstream' \in [Gens -> ServerRecord]
      /\ phone' \in [Gens -> PhoneRecord]
      /\ tunnel'[g] = r /\ upstream'[g] = u /\ phone'[g] = f
  BY <1>1 DEF Types
<1>3. ASSUME NEW i \in Gens PROVE Fit(tunnel'[i], upstream'[i], phone'[i])
  <2>1. CASE i = g
    BY <1>2, <2>1
  <2>2. CASE i # g
    <3>1. tunnel'[i] = tunnel[i] /\ upstream'[i] = upstream[i] /\ phone'[i] = phone[i]
      BY <2>2 DEF Types
    <3> QED BY <3>1 DEF Fits
  <2> QED BY <2>1, <2>2
<1> QED BY <1>2, <1>3

(* Registration stays when no tunnel goes and no phone is told CLOSED. *)
LEMMA RegistryKept ==
  ASSUME Types, Registry, NEW g \in Gens, g <= next, NEW r, r.gone = tunnel[g].gone,
         tunnel' = [tunnel EXCEPT ![g] = r], UNCHANGED <<peers, next>>,
         \A i \in Gens : phone'[i].heard = "closed" <=> phone[i].heard = "closed"
  PROVE  Registry'
<1>1. \A i \in Gens : tunnel'[i].gone = tunnel[i].gone
  BY DEF Types
<1>2. \A i \in Gens : i > next => tunnel'[i] = tunnel[i]
  <2>1. \A i \in Gens : i > next => i # g
    BY DEF Types, Gens
  <2> QED BY <2>1 DEF Types
<1>3. \A d \in Devices : peers[d] # None => peers[d] \in Gens
  BY DEF Types
<1> QED BY <1>1, <1>2, <1>3 DEF Registry, Registered

(* What a thread leaves behind: records that fit, of the same tunnel. *)
Effect(g) ==
    \E r, u : /\ Fit(r, u, phone[g]) /\ r.gone = tunnel[g].gone
              /\ tunnel' = [tunnel EXCEPT ![g] = r] /\ upstream' = [upstream EXCEPT ![g] = u]

(* The effect of a thread on its own tunnel is all that a step of it does. *)
LEMMA EffectKeeps ==
  ASSUME IInv, NEW g \in Gens, g <= next, Effect(g),
         UNCHANGED <<peers, rejected, pending, next, phone, service, scene>>
  PROVE  IInv'
<1>1. PICK r, u : /\ Fit(r, u, phone[g]) /\ r.gone = tunnel[g].gone
                  /\ tunnel' = [tunnel EXCEPT ![g] = r] /\ upstream' = [upstream EXCEPT ![g] = u]
  BY DEF Effect
<1>2. phone' = [phone EXCEPT ![g] = phone[g]]
  BY DEF IInv, Types
<1>3. /\ tunnel' \in [Gens -> PeerRecord] /\ upstream' \in [Gens -> ServerRecord]
      /\ phone' \in [Gens -> PhoneRecord]
      /\ \A i \in Gens : Fit(tunnel[i], upstream[i], phone[i])'
  BY <1>1, <1>2, OneTunnel DEF IInv
<1>4. Types'
  BY <1>3 DEF IInv, Types
<1>5. Fits'
  BY <1>3 DEF Fits
<1>6. Registry'
  BY <1>1, RegistryKept DEF IInv
<1>7. OnlyRunningWaits'
  BY DEF IInv, OnlyRunningWaits
<1> QED BY <1>4, <1>5, <1>6, <1>7 DEF IInv

(* A tunnel that nobody opened is as NewPeer made it. *)
LEMMA UnopenedIsNew ==
  ASSUME IInv, NEW g \in Gens, tunnel[g] # NewPeer
  PROVE  g <= next
<1>1. ~(g > next)
  BY DEF IInv, Registry
<1> QED BY <1>1 DEF IInv, Types, Gens

(* The three records of a tunnel *)
LEMMA TheRecords ==
  ASSUME IInv, NEW g \in Gens
  PROVE  /\ Fit(tunnel[g], upstream[g], phone[g])
         /\ tunnel[g] \in PeerRecord /\ upstream[g] \in ServerRecord /\ phone[g] \in PhoneRecord
         /\ upstream = [upstream EXCEPT ![g] = upstream[g]]
         /\ phone = [phone EXCEPT ![g] = phone[g]] /\ tunnel = [tunnel EXCEPT ![g] = tunnel[g]]
  BY DEF IInv, Fits, Types

(* A writer with a chunk in its hand has counted it. *)
LEMMA HoldsOne ==
  ASSUME NEW r, NEW u, NEW f, Fit(r, u, f), r.writer = "sending"
  PROVE  r.bytes \in Nat /\ (~Over(r) => r.bytes >= 1)
<1>1. r.bytes \in Nat
  BY FitFields
<1>2. ASSUME ~Over(r) PROVE r.bytes >= 1
  <2>1. PICK n \in Nat, h \in {0, 1}, e \in {0, 1} : Queue(r, Len(u.got), f.sent, n, h, e)
    BY <1>2 DEF Fit, UpFits
  <2>2. h = 1 /\ r.bytes = h + n
    BY <2>1 DEF Fit, UpFits, Queue
  <2> QED BY <2>2
<1> QED BY <1>1, <1>2

(* What each thread does to its tunnel *)
LEMMA ConnectorEffect ==
  ASSUME IInv, NEW g \in Gens, Connector(g), UNCHANGED upstream
  PROVE  Effect(g) /\ g <= next
<1> PICK r, u, f : r = tunnel[g] /\ u = upstream[g] /\ f = phone[g]
  OBVIOUS
<1>0. /\ Fit(r, u, f) /\ r \in PeerRecord /\ upstream' = [upstream EXCEPT ![g] = u]
  BY TheRecords
<1>1. CASE Connect(g)
  <2>1. g <= next /\ r.connector = "connecting"
    BY <1>1 DEF Connect, Opened
  <2>2. CASE tunnel' = [tunnel EXCEPT ![g] = [Poisoned(r) EXCEPT !.connector = "done"]]
    <3>1. /\ Fit(Poisoned(r), u, f) /\ Poisoned(r).gone = r.gone
          /\ Poisoned(r).connector = "connecting" /\ Poisoned(r) \in PeerRecord
      BY <1>0, <2>1, PoisonedFits DEF Fit, Typed
    <3> PICK p : p = Poisoned(r)
      OBVIOUS
    <3>2. Fit([p EXCEPT !.connector = "done"], u, f)
      BY <3>1, ConnectorEndsFits
    <3>3. [p EXCEPT !.connector = "done"].gone = r.gone
      BY <3>1 DEF PeerRecord
    <3> QED BY <1>0, <2>1, <2>2, <3>2, <3>3 DEF Effect
  <2>3. CASE tunnel' = [tunnel EXCEPT ![g] = [r EXCEPT !.connector = "connected", !.socket = "open"]]
    <3>1. Fit([r EXCEPT !.connector = "connected", !.socket = "open"], u, f)
      BY <1>0, <2>1, ConnectedFits
    <3>2. [r EXCEPT !.connector = "connected", !.socket = "open"].gone = r.gone
      BY <1>0 DEF PeerRecord
    <3> QED BY <1>0, <2>1, <2>3, <3>1, <3>2 DEF Effect
  <2>4. CASE tunnel' = [tunnel EXCEPT ![g] = [r EXCEPT !.connector = "done"]]
    <3>1. Fit([r EXCEPT !.connector = "done"], u, f)
      BY <1>0, <2>1, ConnectorEndsFits
    <3>2. [r EXCEPT !.connector = "done"].gone = r.gone
      BY <1>0 DEF PeerRecord
    <3> QED BY <1>0, <2>1, <2>4, <3>1, <3>2 DEF Effect
  <2> QED BY <1>1, <2>2, <2>3, <2>4 DEF Connect, In
<1>2. CASE Attach(g)
  <2>1. r.connector = "connected"
    BY <1>2 DEF Attach
  <2>2. g <= next
    BY <2>1, UnopenedIsNew DEF NewPeer
  <2>3. CASE Over(r)
    <3>1. Fit([r EXCEPT !.connector = "done", !.socket = "closed"], u, f)
      BY <1>0, <2>1, TooLateFits
    <3>2. [r EXCEPT !.connector = "done", !.socket = "closed"].gone = r.gone
      BY <1>0 DEF PeerRecord
    <3> QED BY <1>0, <1>2, <2>2, <2>3, <3>1, <3>2 DEF Effect, Attach, In
  <2>4. CASE ~Over(r)
    <3> DEFINE p == [r EXCEPT !.connector = "done", !.attached = TRUE, !.reader = "looking",
                              !.writer = "looking", !.state = "active", !.openOk = TRUE]
    <3>1. Fit(p, u, f)
      BY <1>0, <2>1, <2>4, AttachFits
    <3>2. p.gone = r.gone
      BY <1>0 DEF PeerRecord
    <3>3. tunnel' = [tunnel EXCEPT ![g] = p]
      BY <1>2, <2>4 DEF Attach, In
    <3> HIDE DEF p
    <3> QED BY <1>0, <2>2, <3>1, <3>2, <3>3 DEF Effect
  <2> QED BY <2>3, <2>4
<1> QED BY <1>1, <1>2 DEF Connector

LEMMA DeadlineEffect ==
  ASSUME IInv, NEW g \in Gens, Deadline(g), UNCHANGED upstream
  PROVE  Effect(g) /\ g <= next
<1> PICK r, u, f : r = tunnel[g] /\ u = upstream[g] /\ f = phone[g]
  OBVIOUS
<1>0. /\ Fit(r, u, f) /\ r \in PeerRecord /\ upstream' = [upstream EXCEPT ![g] = u]
  BY TheRecords
<1>1. CASE DeadlineFires(g)
  <2>1. PICK d \in Deadlines : tunnel' = [tunnel EXCEPT ![g] = [r EXCEPT !.deadline = d]]
    BY <1>1, Names DEF DeadlineFires, In
  <2>2. Fit([r EXCEPT !.deadline = d], u, f)
    BY <1>0, DeadlineFits
  <2>3. [r EXCEPT !.deadline = d].gone = r.gone
    BY <1>0 DEF PeerRecord
  <2>4. g <= next
    BY <1>1 DEF DeadlineFires, Opened
  <2> QED BY <1>0, <2>1, <2>2, <2>3, <2>4 DEF Effect
<1>2. CASE DeadlinePoisons(g)
  <2>1. /\ Fit(Poisoned(r), u, f) /\ Poisoned(r).gone = r.gone /\ Poisoned(r) \in PeerRecord
    BY <1>0, PoisonedFits DEF Fit, Typed
  <2> PICK p : p = Poisoned(r)
    OBVIOUS
  <2>2. Fit([p EXCEPT !.deadline = "off"], u, f)
    BY <2>1, DeadlineFits, Names
  <2>3. [p EXCEPT !.deadline = "off"].gone = r.gone
    BY <2>1 DEF PeerRecord
  <2>4. g <= next
    BY <1>2, UnopenedIsNew DEF DeadlinePoisons, NewPeer
  <2> QED BY <1>0, <1>2, <2>2, <2>3, <2>4 DEF Effect, DeadlinePoisons, In
<1> QED BY <1>1, <1>2 DEF Deadline

LEMMA WriterEffect ==
  ASSUME IInv, NEW g \in Gens, Writer(g)
  PROVE  Effect(g) /\ g <= next
<1> PICK r, u, f : r = tunnel[g] /\ u = upstream[g] /\ f = phone[g]
  OBVIOUS
<1>0. /\ Fit(r, u, f) /\ r \in PeerRecord /\ upstream = [upstream EXCEPT ![g] = u]
  BY TheRecords
<1>1. CASE WriterTakes(g)
  <2>0. r.writer = "looking" /\ (Over(r) \/ r.uplink # <<>>)
    BY <1>1 DEF WriterTakes
  <2>1. g <= next
    BY <2>0, UnopenedIsNew DEF NewPeer
  <2>2. CASE Over(r)
    <3>1. Fit([r EXCEPT !.writer = "ending"], u, f)
      BY <1>0, <2>0, <2>2, WriterStopsFits
    <3>2. [r EXCEPT !.writer = "ending"].gone = r.gone
      BY <1>0 DEF PeerRecord
    <3>3. /\ tunnel' = [tunnel EXCEPT ![g] = [r EXCEPT !.writer = "ending"]]
          /\ upstream' = [upstream EXCEPT ![g] = u]
      BY <1>0, <1>1, <2>2 DEF WriterTakes, In
    <3> QED BY <2>1, <3>1, <3>2, <3>3 DEF Effect
  <2>3. CASE ~Over(r) /\ Head(r.uplink) = EndMark
    <3> DEFINE p == [r EXCEPT !.uplink = Tail(@), !.writer = "ending"]
    <3>1. Fit(p, u, f)
      BY <1>0, <2>0, <2>3, WriterAtEndFits
    <3>2. p.gone = r.gone
      BY <1>0 DEF PeerRecord
    <3>3. /\ tunnel' = [tunnel EXCEPT ![g] = p]
          /\ upstream' = [upstream EXCEPT ![g] = u]
      BY <1>0, <1>1, <2>3 DEF WriterTakes, In
    <3> HIDE DEF p
    <3> QED BY <2>1, <3>1, <3>2, <3>3 DEF Effect
  <2>4. CASE ~Over(r) /\ Head(r.uplink) # EndMark
    <3> DEFINE p == [r EXCEPT !.uplink = Tail(@), !.hand = Head(r.uplink), !.writer = "sending"]
    <3>1. Fit(p, u, f)
      BY <1>0, <2>0, <2>4, WriterTakesFits
    <3>2. p.gone = r.gone
      BY <1>0 DEF PeerRecord
    <3>3. /\ tunnel' = [tunnel EXCEPT ![g] = p]
          /\ upstream' = [upstream EXCEPT ![g] = u]
      BY <1>0, <1>1, <2>4 DEF WriterTakes, In
    <3> HIDE DEF p
    <3> QED BY <2>1, <3>1, <3>2, <3>3 DEF Effect
  <2> QED BY <2>2, <2>3, <2>4
<1>2. CASE WriterSends(g)
  <2>0. r.writer = "sending"
    BY <1>2 DEF WriterSends
  <2>1. g <= next
    BY <2>0, UnopenedIsNew DEF NewPeer
  <2>2. ASSUME upstream' = [upstream EXCEPT ![g].got = Append(@, r.hand)],
               tunnel' = [tunnel EXCEPT ![g] =
                 [r EXCEPT !.hand = 0, !.bytes = IF Over(r) THEN @ ELSE @ - 1,
                           !.writer = "looking"]]
        PROVE  Effect(g)
    <3>1. PICK b \in Nat : /\ b = (IF Over(r) THEN r.bytes ELSE r.bytes - 1)
                           /\ ~Over(r) => r.bytes = b + 1
      <4>1. r.bytes \in Nat /\ (~Over(r) => r.bytes >= 1)
        BY <1>0, <2>0, HoldsOne
      <4>2. (IF Over(r) THEN r.bytes ELSE r.bytes - 1) \in Nat
        BY <4>1
      <4>3. ~Over(r) => r.bytes = (IF Over(r) THEN r.bytes ELSE r.bytes - 1) + 1
        BY <4>1
      <4> QED BY <4>2, <4>3
    <3> DEFINE p == [r EXCEPT !.hand = 0, !.bytes = b, !.writer = "looking"]
               v == [u EXCEPT !.got = Append(@, r.hand)]
    <3>2. Fit(p, v, f)
      BY <1>0, <2>0, <3>1, WriterSendsFits
    <3>3. p.gone = r.gone
      BY <1>0 DEF PeerRecord
    <3>4. tunnel' = [tunnel EXCEPT ![g] = p]
      BY <2>2, <3>1
    <3>5. upstream' = [upstream EXCEPT ![g] = v]
      BY <2>2
    <3> HIDE DEF p, v
    <3> QED BY <3>2, <3>3, <3>4, <3>5 DEF Effect
  <2>3. ASSUME upstream' = upstream,
               tunnel' = [tunnel EXCEPT ![g] =
                 [Poisoned(r) EXCEPT !.hand = 0, !.writer = "ending"]]
        PROVE  Effect(g)
    <3>1. /\ Fit(Poisoned(r), u, f) /\ Poisoned(r).gone = r.gone /\ Over(Poisoned(r))
          /\ Poisoned(r).writer = "sending" /\ Poisoned(r) \in PeerRecord
      BY <1>0, <2>0, PoisonedFits DEF Fit, Typed
    <3> PICK q : q = Poisoned(r)
      OBVIOUS
    <3> DEFINE p == [q EXCEPT !.hand = 0, !.writer = "ending"]
    <3>2. Fit(p, u, f)
      BY <3>1, WriterFailsFits
    <3>3. p.gone = r.gone
      BY <3>1 DEF PeerRecord
    <3>4. tunnel' = [tunnel EXCEPT ![g] = p] /\ upstream' = [upstream EXCEPT ![g] = u]
      BY <1>0, <2>3
    <3> HIDE DEF p
    <3> QED BY <3>2, <3>3, <3>4 DEF Effect
  <2> QED BY <1>2, <2>1, <2>2, <2>3 DEF WriterSends, In
<1>3. CASE WriterEnds(g)
  <2>0. r.writer = "ending"
    BY <1>3 DEF WriterEnds
  <2>1. g <= next
    BY <2>0, UnopenedIsNew DEF NewPeer
  <2> PICK q : q = [r EXCEPT !.writer = "done"]
    OBVIOUS
  <2>2. Fit(q, u, f)
    BY <1>0, <2>0, WriterDoneFits
  <2>3. q.gone = r.gone
    BY <1>0 DEF PeerRecord
  <2>4. Fit(Released(q), u, f) /\ Released(q).gone = r.gone
    BY <2>2, <2>3, ReleasedFits
  <2>5. /\ tunnel' = [tunnel EXCEPT ![g] = Released(q)]
        /\ upstream' = [upstream EXCEPT ![g] = u]
    BY <1>0, <1>3 DEF WriterEnds, In
  <2> QED BY <2>1, <2>4, <2>5 DEF Effect
<1> QED BY <1>1, <1>2, <1>3 DEF Writer

LEMMA ReaderEffect ==
  ASSUME IInv, NEW g \in Gens, Reader(g), UNCHANGED upstream
  PROVE  Effect(g) /\ g <= next
<1> PICK r, u, f : r = tunnel[g] /\ u = upstream[g] /\ f = phone[g]
  OBVIOUS
<1>0. /\ Fit(r, u, f) /\ r \in PeerRecord /\ upstream' = [upstream EXCEPT ![g] = u]
  BY TheRecords
<1>1. ASSUME r.reader \in {"looking", "receiving"},
             tunnel' = [tunnel EXCEPT ![g] = [r EXCEPT !.reader = "ending"]]
      PROVE  Effect(g)
  <2>1. Fit([r EXCEPT !.reader = "ending"], u, f)
    BY <1>0, <1>1, ReaderStopsFits
  <2>2. [r EXCEPT !.reader = "ending"].gone = r.gone
    BY <1>0 DEF PeerRecord
  <2> QED BY <1>0, <1>1, <2>1, <2>2 DEF Effect
<1>2. CASE ReaderLooks(g)
  <2>0. r.reader = "looking" /\ (Over(r) \/ Len(r.downlink) < Buffer)
    BY <1>2 DEF ReaderLooks
  <2>1. g <= next
    BY <2>0, UnopenedIsNew DEF NewPeer
  <2>2. CASE Over(r)
    <3>1. tunnel' = [tunnel EXCEPT ![g] = [r EXCEPT !.reader = "ending"]]
      BY <1>2, <2>2 DEF ReaderLooks, In
    <3> QED BY <1>1, <2>0, <2>1, <3>1
  <2>3. CASE ~Over(r)
    <3>1. Fit([r EXCEPT !.reader = "receiving"], u, f)
      BY <1>0, <2>0, <2>3, ReaderLooksFits
    <3>2. [r EXCEPT !.reader = "receiving"].gone = r.gone
      BY <1>0 DEF PeerRecord
    <3>3. tunnel' = [tunnel EXCEPT ![g] = [r EXCEPT !.reader = "receiving"]]
      BY <1>2, <2>3 DEF ReaderLooks, In
    <3> QED BY <1>0, <2>1, <3>1, <3>2, <3>3 DEF Effect
  <2> QED BY <2>2, <2>3
<1>3. CASE ReaderReceives(g)
  <2>0. r.reader = "receiving"
    BY <1>3 DEF ReaderReceives
  <2>1. g <= next
    BY <2>0, UnopenedIsNew DEF NewPeer
  <2>n. PICK l \in Nat, m \in Nat : l = Len(r.downlink) /\ m = Len(f.got) /\ r.downlink \in Seq(Nat)
    BY <1>0, FitFields
  <2>r. Received(g) = m + l
    BY <2>n DEF Received
  <2>2. CASE /\ Received(g) < u.sent
             /\ In(g, IF Over(r) THEN [r EXCEPT !.reader = "ending"]
                      ELSE [r EXCEPT !.downlink = Append(@, Received(g) + 1), !.reader = "looking"])
    <3>1. CASE Over(r)
      <4>1. tunnel' = [tunnel EXCEPT ![g] = [r EXCEPT !.reader = "ending"]]
        BY <2>2, <3>1 DEF In
      <4> QED BY <1>1, <2>0, <2>1, <4>1
    <3>2. CASE ~Over(r)
      <4>1. PICK x \in Nat : x = m + (l + 1) /\ x = Received(g) + 1
        BY <2>r
      <4>2. PICK q \in Seq(Nat) : /\ q = Append(r.downlink, x) /\ Len(q) = l + 1 /\ q[l + 1] = x
                                  /\ \A i \in 1..l : q[i] = r.downlink[i]
        <5>1. r.downlink \in Seq(Nat) /\ l \in Nat /\ l = Len(r.downlink) /\ x \in Nat
          BY <2>n, <4>1
        <5>2. /\ Append(r.downlink, x) \in Seq(Nat) /\ Len(Append(r.downlink, x)) = l + 1
              /\ Append(r.downlink, x)[l + 1] = x
              /\ \A i \in 1..l : Append(r.downlink, x)[i] = r.downlink[i]
          BY <5>1, Appended
        <5> QED BY <5>2, Zenon
      <4>3. m + (l + 1) <= u.sent
        <5>1. PICK s \in Nat : s = u.sent
          BY <1>0, FitFields
        <5>2. m + l < s
          BY <2>2, <2>r, <5>1
        <5>3. m + (l + 1) <= s
          BY <5>2
        <5> QED BY <5>1, <5>3
      <4> DEFINE p == [r EXCEPT !.downlink = q, !.reader = "looking"]
      <4>4. Fit(p, u, f)
        <5>1. q[l + 1] = m + (l + 1) /\ l = Len(r.downlink) /\ m = Len(f.got)
          BY <2>n, <4>1, <4>2
        <5>2. /\ q \in Seq(Nat) /\ Len(q) = l + 1 /\ \A i \in 1..l : q[i] = r.downlink[i]
          BY <4>2
        <5>3. Fit(r, u, f) /\ r.reader = "receiving" /\ ~Over(r) /\ l \in Nat /\ m \in Nat
          BY <1>0, <2>0, <2>n, <3>2
        <5> QED BY <4>3, <5>1, <5>2, <5>3, ReaderChunkFits, Zenon
      <4>5. p.gone = r.gone
        BY <1>0 DEF PeerRecord
      <4>6. tunnel' = [tunnel EXCEPT ![g] = p]
        BY <2>2, <3>2, <4>1, <4>2 DEF In
      <4> HIDE DEF p
      <4> QED BY <1>0, <2>1, <4>4, <4>5, <4>6 DEF Effect
    <3> QED BY <3>1, <3>2
  <2>3. CASE /\ u.ended /\ Received(g) = u.sent
             /\ In(g, [r EXCEPT !.eof = ~Over(r), !.reader = "ending"])
    <3> DEFINE p == [r EXCEPT !.eof = ~Over(r), !.reader = "ending"]
    <3>1. Fit(p, u, f)
      BY <1>0, <2>0, <2>3, ReaderEofFits DEF Received
    <3>2. p.gone = r.gone
      BY <1>0 DEF PeerRecord
    <3>3. tunnel' = [tunnel EXCEPT ![g] = p]
      BY <2>3 DEF In
    <3> HIDE DEF p
    <3> QED BY <1>0, <2>1, <3>1, <3>2, <3>3 DEF Effect
  <2>4. CASE In(g, [(IF r.close THEN r ELSE Poisoned(r)) EXCEPT !.reader = "ending"])
    <3>1. /\ Fit(Poisoned(r), u, f) /\ Poisoned(r).gone = r.gone
          /\ Poisoned(r).reader = "receiving" /\ Poisoned(r) \in PeerRecord
      BY <1>0, <2>0, PoisonedFits DEF Fit, Typed
    <3>2. PICK q : q = IF r.close THEN r ELSE Poisoned(r)
      OBVIOUS
    <3>3. Fit(q, u, f) /\ q.gone = r.gone /\ q.reader = "receiving" /\ q \in PeerRecord
      BY <1>0, <2>0, <3>1, <3>2
    <3>4. Fit([q EXCEPT !.reader = "ending"], u, f)
      BY <3>3, ReaderStopsFits
    <3>5. [q EXCEPT !.reader = "ending"].gone = r.gone
      BY <3>3 DEF PeerRecord
    <3>6. tunnel' = [tunnel EXCEPT ![g] = [q EXCEPT !.reader = "ending"]]
      BY <2>4, <3>2 DEF In
    <3> QED BY <1>0, <2>1, <3>4, <3>5, <3>6 DEF Effect
  <2> QED BY <1>3, <2>2, <2>3, <2>4 DEF ReaderReceives
<1>4. CASE ReaderEnds(g)
  <2>0. r.reader = "ending"
    BY <1>4 DEF ReaderEnds
  <2>1. g <= next
    BY <2>0, UnopenedIsNew DEF NewPeer
  <2> PICK q : q = [r EXCEPT !.reader = "done"]
    OBVIOUS
  <2>2. Fit(q, u, f)
    BY <1>0, <2>0, ReaderDoneFits
  <2>3. q.gone = r.gone
    BY <1>0 DEF PeerRecord
  <2>4. Fit(Released(q), u, f) /\ Released(q).gone = r.gone
    BY <2>2, <2>3, ReleasedFits
  <2>5. tunnel' = [tunnel EXCEPT ![g] = Released(q)]
    BY <1>4 DEF ReaderEnds, In
  <2> QED BY <1>0, <2>1, <2>4, <2>5 DEF Effect
<1> QED BY <1>2, <1>3, <1>4 DEF Reader

(* A step of a thread keeps the invariant. *)
LEMMA ThreadsKeep ==
  ASSUME IInv, NEW g \in Gens, Threads(g), UNCHANGED scene
  PROVE  IInv'
<1>1. CASE Beside(Writer(g))
  BY <1>1, WriterEffect, EffectKeeps DEF Beside
<1>2. CASE Beside(Connector(g) /\ UNCHANGED upstream)
  BY <1>2, ConnectorEffect, EffectKeeps DEF Beside
<1>3. CASE Beside(Reader(g) /\ UNCHANGED upstream)
  BY <1>3, ReaderEffect, EffectKeeps DEF Beside
<1>4. CASE Beside(Deadline(g) /\ UNCHANGED upstream)
  BY <1>4, DeadlineEffect, EffectKeeps DEF Beside
<1> QED BY <1>1, <1>2, <1>3, <1>4 DEF Threads

(* The web server sends on, and ends, a connection that somebody opened. *)
LEMMA ServerKeeps ==
  ASSUME IInv, NEW g \in Gens, Server(g), UNCHANGED scene
  PROVE  IInv'
<1> PICK r, u, f : r = tunnel[g] /\ u = upstream[g] /\ f = phone[g]
  OBVIOUS
<1>0. /\ Fit(r, u, f) /\ r \in PeerRecord /\ tunnel' = [tunnel EXCEPT ![g] = r]
  BY TheRecords DEF Server
<1>1. r.socket = "open" /\ ~u.ended
  BY DEF Server, ServerSends, ServerEnds
<1>2. g <= next
  BY <1>1, UnopenedIsNew DEF NewPeer
<1>3. CASE ServerSends(g)
  <2>1. Fit(r, [u EXCEPT !.sent = @ + 1], f)
    BY <1>0, <1>1, ServerSendsFits
  <2>2. upstream' = [upstream EXCEPT ![g] = [u EXCEPT !.sent = @ + 1]]
    BY <1>3 DEF ServerSends
  <2>3. Effect(g)
    BY <1>0, <2>1, <2>2 DEF Effect
  <2> QED BY <1>2, <2>3, EffectKeeps DEF Server
<1>4. CASE ServerEnds(g)
  <2>1. Fit(r, [u EXCEPT !.ended = TRUE], f)
    BY <1>0, ServerEndsFits
  <2>2. upstream' = [upstream EXCEPT ![g] = [u EXCEPT !.ended = TRUE]]
    BY <1>4 DEF ServerEnds
  <2>3. Effect(g)
    BY <1>0, <2>1, <2>2 DEF Effect
  <2> QED BY <1>2, <2>3, EffectKeeps DEF Server
<1> QED BY <1>3, <1>4 DEF Server

-----------------------------------------------------------------------------
(* Frames of a peer *)

(* What a frame does to the tunnel of its peer. *)
PhoneEffect(g) ==
    \E r, f : /\ Fit(r, upstream[g], f) /\ r.gone = tunnel[g].gone
              /\ f.heard = "closed" <=> phone[g].heard = "closed"
              /\ tunnel' = [tunnel EXCEPT ![g] = r] /\ phone' = [phone EXCEPT ![g] = f]

(* A frame that only reaches the tunnel of its peer keeps the invariant. *)
LEMMA PhoneEffectKeeps ==
  ASSUME IInv, NEW g \in Gens, g <= next, PhoneEffect(g),
         UNCHANGED <<peers, next, upstream, service, scene>>,
         rejected' \subseteq Devices, pending' \in [Devices -> Gens \cup {None}]
  PROVE  IInv'
<1>1. PICK r, f : /\ Fit(r, upstream[g], f) /\ r.gone = tunnel[g].gone
                  /\ f.heard = "closed" <=> phone[g].heard = "closed"
                  /\ tunnel' = [tunnel EXCEPT ![g] = r] /\ phone' = [phone EXCEPT ![g] = f]
  BY DEF PhoneEffect
<1>2. upstream' = [upstream EXCEPT ![g] = upstream[g]]
  BY TheRecords
<1>3. /\ tunnel' \in [Gens -> PeerRecord] /\ upstream' \in [Gens -> ServerRecord]
      /\ phone' \in [Gens -> PhoneRecord]
      /\ \A i \in Gens : Fit(tunnel[i], upstream[i], phone[i])'
  BY <1>1, <1>2, OneTunnel DEF IInv
<1>4. Types'
  BY <1>3 DEF IInv, Types
<1>5. Fits'
  BY <1>3 DEF Fits
<1>6. \A i \in Gens : phone'[i].heard = "closed" <=> phone[i].heard = "closed"
  BY <1>1 DEF IInv, Types
<1>7. Registry'
  BY <1>1, <1>6, RegistryKept DEF IInv
<1>8. OnlyRunningWaits'
  BY DEF IInv, OnlyRunningWaits
<1> QED BY <1>4, <1>5, <1>7, <1>8 DEF IInv

(* A peer that is answered, rejected or left waiting changes no tunnel. *)
LEMMA QuietKeeps ==
  ASSUME IInv, UNCHANGED <<peers, tunnel, next, upstream, phone, service, scene>>,
         rejected' \subseteq Devices, pending' \in [Devices -> Gens \cup {None}]
  PROVE  IInv'
<1>1. Types'
  BY DEF IInv, Types
<1>2. Fits'
  BY DEF IInv, Fits
<1>3. Registry'
  BY DEF IInv, Registry, Registered
<1>4. OnlyRunningWaits'
  BY DEF IInv, OnlyRunningWaits
<1> QED BY <1>1, <1>2, <1>3, <1>4 DEF IInv

(* The tunnel a peer is registered with *)
LEMMA TheTunnelOf ==
  ASSUME IInv, NEW d \in Devices, peers[d] # None
  PROVE  /\ peers[d] \in Gens /\ peers[d] <= next
         /\ ~tunnel[peers[d]].gone /\ phone[peers[d]].heard # "closed"
  BY DEF IInv, Types, Registry

(* Frames that a tunnel cannot take poison it; the others are queued. *)
LEMMA PoisonEffect ==
  ASSUME IInv, NEW g \in Gens, Poison(g), UNCHANGED phone
  PROVE  PhoneEffect(g)
<1>1. Fit(Poisoned(tunnel[g]), upstream[g], phone[g]) /\ Poisoned(tunnel[g]).gone = tunnel[g].gone
  BY TheRecords, PoisonedFits
<1>2. phone' = [phone EXCEPT ![g] = phone[g]]
  BY TheRecords
<1> QED BY <1>1, <1>2 DEF PhoneEffect, Poison, In

LEMMA DataEffect ==
  ASSUME IInv, NEW g \in Gens, Data(g), Usable(g) => tunnel[g].bytes < Buffer
  PROVE  PhoneEffect(g)
<1> PICK r, u, f : r = tunnel[g] /\ u = upstream[g] /\ f = phone[g]
  OBVIOUS
<1>0. Fit(r, u, f) /\ r \in PeerRecord /\ f \in PhoneRecord
  BY TheRecords
<1>1. PICK x \in Nat, y \in Nat : x = f.sent + 1 /\ y = r.bytes + 1
  BY <1>0, FitFields
<1> DEFINE k == [f EXCEPT !.sent = x]
<1>2. /\ phone' = [phone EXCEPT ![g] = k] /\ k.heard = f.heard
      /\ k = [f EXCEPT !.sent = @ + 1]
  BY <1>0, <1>1 DEF Data, PhoneRecord
<1>3. CASE Usable(g)
  <2>1. r.state = "active" /\ r.bytes < Buffer
    BY <1>3 DEF Usable
  <2> DEFINE p == [r EXCEPT !.uplink = Append(@, x), !.bytes = y]
  <2>2. Fit(p, u, k)
    BY <1>0, <1>1, <2>1, DataFits
  <2>3. p.gone = r.gone
    BY <1>0 DEF PeerRecord
  <2>4. tunnel' = [tunnel EXCEPT ![g] = p]
    BY <1>1, <1>3 DEF Data, In
  <2> HIDE DEF p, k
  <2> QED BY <1>2, <2>2, <2>3, <2>4 DEF PhoneEffect
<1>4. CASE ~Usable(g)
  <2>1. /\ Fit(Poisoned(r), u, f) /\ Poisoned(r).gone = r.gone /\ Over(Poisoned(r))
    BY <1>0, PoisonedFits
  <2>2. Fit(Poisoned(r), u, k)
    BY <1>2, <2>1, SentOverFits
  <2>3. tunnel' = [tunnel EXCEPT ![g] = Poisoned(r)]
    BY <1>4 DEF Data, Poison, In
  <2> HIDE DEF k
  <2> QED BY <1>2, <2>1, <2>2, <2>3 DEF PhoneEffect
<1> QED BY <1>3, <1>4

LEMMA CloseEffect ==
  ASSUME IInv, NEW g \in Gens, Close(g)
  PROVE  PhoneEffect(g)
<1> PICK r, u, f : r = tunnel[g] /\ u = upstream[g] /\ f = phone[g]
  OBVIOUS
<1>0. Fit(r, u, f) /\ r \in PeerRecord /\ phone' = [phone EXCEPT ![g] = f]
  BY TheRecords DEF Close
<1>1. CASE Usable(g)
  <2> DEFINE p == [r EXCEPT !.state = "closing", !.close = TRUE, !.uplink = Append(@, EndMark)]
  <2>1. Fit(p, u, f)
    BY <1>0, <1>1, CloseFits DEF Usable
  <2>2. p.gone = r.gone
    BY <1>0 DEF PeerRecord
  <2>3. tunnel' = [tunnel EXCEPT ![g] = p]
    BY <1>1 DEF Close, In
  <2> HIDE DEF p
  <2> QED BY <1>0, <2>1, <2>2, <2>3 DEF PhoneEffect
<1>2. CASE ~Usable(g)
  BY <1>2, PoisonEffect DEF Close
<1> QED BY <1>1, <1>2

(* A device that opens gets the next generation, whose tunnel is new. *)
LEMMA OpenedKeeps ==
  ASSUME IInv, NEW d \in Devices, peers[d] = None, next < MaxOpened,
         next' = next + 1, peers' = [peers EXCEPT ![d] = next + 1],
         UNCHANGED <<rejected, tunnel, phone, pending, upstream, service, scene>>
  PROVE  IInv'
<1>1. next \in Nat /\ next + 1 \in Gens /\ next + 1 <= MaxTunnels
  BY Sizes DEF IInv, Types, MaxOpened, Gens
<1>2. Types'
  BY <1>1 DEF IInv, Types, Gens
<1>3. Fits'
  BY DEF IInv, Fits
<1>4. Registry'
  <2>1. tunnel[next + 1] = NewPeer
    BY <1>1 DEF IInv, Registry
  <2>2. ~tunnel[next + 1].gone /\ ~tunnel[next + 1].released
    BY <2>1 DEF NewPeer
  <2>3. phone[next + 1].heard # "closed"
    BY <1>1, <2>2 DEF IInv, Fits, Fit, HeardFits
  <2>4. \A e \in Devices : peers'[e] = IF e = d THEN next + 1 ELSE peers[e]
    BY DEF IInv, Types
  <2>5. \A e \in Devices : peers[e] # None => peers[e] \in Gens /\ peers[e] <= next /\ peers[e] # next + 1
    BY <1>1 DEF IInv, Types, Registry, Gens
  <2>6. next + 1 # None
    BY <1>1, GatewayAssumption
  <2>7. \A a, e \in Devices : peers'[a] = peers'[e] /\ peers'[a] # None => a = e
    BY <2>4, <2>5, <2>6 DEF IInv, Registry
  <2>8. \A e \in Devices : peers'[e] # None =>
          peers'[e] <= next' /\ ~tunnel'[peers'[e]].gone /\ phone'[peers'[e]].heard # "closed"
    <3>1. \A i \in Gens : i <= next => i <= next + 1
      BY <1>1 DEF Gens
    <3> QED BY <1>1, <2>2, <2>3, <2>4, <2>5, <3>1 DEF IInv, Registry
  <2>9. \A g \in Gens : g > next' => tunnel'[g] = NewPeer
    <3>1. \A g \in Gens : g > next + 1 => g > next
      BY <1>1 DEF Gens
    <3> QED BY <3>1 DEF IInv, Registry
  <2>10. \A g \in Gens : g <= next' =>
           (\E e \in Devices : peers'[e] = g) \/ tunnel'[g].gone \/ phone'[g].heard = "closed"
    <3>1. \A g \in Gens : g <= next + 1 => g <= next \/ g = next + 1
      BY <1>1 DEF Gens
    <3>2. ASSUME NEW g \in Gens, Registered(g) PROVE \E e \in Devices : peers'[e] = g
      <4>1. PICK e \in Devices : peers[e] = g
        BY <3>2 DEF Registered
      <4>2. e # d
        BY <4>1, GatewayAssumption DEF Gens
      <4> QED BY <2>4, <4>1, <4>2
    <3>3. \E e \in Devices : peers'[e] = next + 1
      BY <2>4
    <3> QED BY <3>1, <3>2, <3>3 DEF IInv, Registry
  <2> QED BY <2>7, <2>8, <2>9, <2>10 DEF Registry, Registered
<1>5. OnlyRunningWaits'
  BY DEF IInv, OnlyRunningWaits
<1> QED BY <1>2, <1>3, <1>4, <1>5 DEF IInv

(* write_frame, a write that waits, its retries, and the end of a device *)
LEMMA WriteKeeps ==
  ASSUME IInv, NEW d \in Devices, NEW F \in Frames, Write(d, F), UNCHANGED scene
  PROVE  IInv'
<1> DEFINE g == peers[d]
<1>0. /\ UNCHANGED <<pending, upstream, service>> /\ pending' \in [Devices -> Gens \cup {None}]
      /\ rejected \subseteq Devices /\ rejected \cup {d} \subseteq Devices
  BY DEF Write, IInv, Types
<1>1. CASE Ignored \/ Rejects(d)
  BY <1>0, <1>1, QuietKeeps DEF Ignored, Rejects
<1>2. ASSUME g # None, PhoneEffect(g), UNCHANGED <<peers, rejected, next>> PROVE IInv'
  BY <1>0, <1>2, TheTunnelOf, PhoneEffectKeeps
<1>3. CASE F = "OPEN"
  <2>1. OpenFrame(d)
    BY <1>3 DEF Write
  <2>2. CASE g # None /\ Poison(g) /\ UNCHANGED <<peers, rejected, next, phone>>
    BY <1>2, <2>2, TheTunnelOf, PoisonEffect
  <2>3. CASE /\ peers[d] = None /\ next < MaxOpened /\ next' = next + 1
             /\ peers' = [peers EXCEPT ![d] = next + 1]
             /\ UNCHANGED <<rejected, tunnel, phone>>
    BY <1>0, <2>3, OpenedKeeps
  <2> QED BY <1>1, <2>1, <2>2, <2>3 DEF OpenFrame
<1>4. CASE F = "DATA"
  <2>1. ~Blocked(d) /\ ForTunnel(d, Data(g))
    BY <1>4 DEF Write
  <2>2. CASE d \notin rejected /\ g # None /\ Data(g) /\ UNCHANGED <<peers, rejected, next>>
    <3>1. g \in Gens /\ tunnel[g].bytes \in Nat
      BY <2>2, TheTunnelOf, TheRecords DEF PeerRecord
    <3>2. Usable(g) => tunnel[g].bytes < Buffer
      BY <2>1, <2>2, <3>1, Sizes DEF Blocked
    <3> QED BY <1>2, <2>2, <3>1, <3>2, DataEffect
  <2> QED BY <1>1, <2>1, <2>2 DEF ForTunnel
<1>5. CASE F = "CLOSE"
  <2>1. ForTunnel(d, Close(g))
    BY <1>5 DEF Write
  <2>2. CASE d \notin rejected /\ g # None /\ Close(g) /\ UNCHANGED <<peers, rejected, next>>
    BY <1>2, <2>2, TheTunnelOf, CloseEffect
  <2> QED BY <1>1, <2>1, <2>2 DEF ForTunnel
<1>6. CASE F = "malformed"
  <2>1. CASE g = None /\ Rejects(d)
    BY <1>1, <2>1
  <2>2. CASE g # None /\ Malformed(g) /\ UNCHANGED <<peers, rejected, next>>
    BY <1>2, <2>2, TheTunnelOf, PoisonEffect DEF Malformed
  <2> QED BY <1>6, <2>1, <2>2 DEF Write
<1> QED BY <1>3, <1>4, <1>5, <1>6 DEF Frames

LEMMA HoldKeeps ==
  ASSUME IInv, NEW d \in Devices, Hold(d), UNCHANGED scene
  PROVE  IInv'
<1>1. pending' \in [Devices -> Gens \cup {None}]
  BY DEF Hold, IInv, Types
<1>2. rejected' \subseteq Devices
  BY DEF Hold, IInv, Types
<1> QED BY <1>1, <1>2, QuietKeeps DEF Hold

LEMMA RetryKeeps ==
  ASSUME IInv, NEW d \in Devices, Retry(d), UNCHANGED scene
  PROVE  IInv'
<1> DEFINE g == peers[d]
<1>0. /\ UNCHANGED <<upstream, service>> /\ pending' \in [Devices -> Gens \cup {None}]
      /\ rejected \subseteq Devices /\ rejected \cup {d} \subseteq Devices
  BY DEF Retry, Answer, IInv, Types
<1>1. CASE Ignored \/ Rejects(d)
  BY <1>0, <1>1, QuietKeeps DEF Ignored, Rejects
<1>2. ASSUME g # None, PhoneEffect(g), UNCHANGED <<peers, rejected, next>> PROVE IInv'
  BY <1>0, <1>2, TheTunnelOf, PhoneEffectKeeps
<1>3. CASE peers[d] # pending[d] /\ Ignored
  BY <1>1, <1>3
<1>4. CASE ~Blocked(d) /\ ForTunnel(d, Data(g))
  <2>1. CASE d \notin rejected /\ g # None /\ Data(g) /\ UNCHANGED <<peers, rejected, next>>
    <3>1. g \in Gens /\ tunnel[g].bytes \in Nat
      BY <2>1, TheTunnelOf, TheRecords DEF PeerRecord
    <3>2. Usable(g) => tunnel[g].bytes < Buffer
      BY <1>4, <2>1, <3>1, Sizes DEF Blocked
    <3> QED BY <1>2, <2>1, <3>1, <3>2, DataEffect
  <2> QED BY <1>1, <1>4, <2>1 DEF ForTunnel
<1>5. CASE Blocked(d) /\ Poison(g) /\ UNCHANGED <<peers, rejected, next, phone>>
  BY <1>2, <1>5, TheTunnelOf, PoisonEffect DEF Blocked
<1> QED BY <1>3, <1>4, <1>5 DEF Retry

(* What the phone reads: an error, OPEN_OK, a chunk, or CLOSED. *)
LEMMA ReadKeeps ==
  ASSUME IInv, NEW d \in Devices, Read(d), UNCHANGED scene
  PROVE  IInv'
<1> PICK g : g = peers[d]
  OBVIOUS
<1> PICK r, u, f : r = tunnel[g] /\ u = upstream[g] /\ f = phone[g]
  OBVIOUS
<1>0. /\ g \in Gens /\ g <= next /\ g # None /\ ~r.gone /\ f.heard # "closed"
      /\ Fit(r, u, f) /\ r \in PeerRecord /\ f \in PhoneRecord
      /\ tunnel = [tunnel EXCEPT ![g] = r] /\ phone = [phone EXCEPT ![g] = f]
      /\ upstream = [upstream EXCEPT ![g] = u]
  BY TheTunnelOf, TheRecords DEF Read
<1>1. /\ UNCHANGED <<rejected, pending, next, upstream, service>>
      /\ rejected' \subseteq Devices /\ pending' \in [Devices -> Gens \cup {None}]
  BY DEF Read, IInv, Types
<1>2. ASSUME PhoneEffect(g), peers' = peers PROVE IInv'
  BY <1>0, <1>1, <1>2, PhoneEffectKeeps
<1>3. CASE r.error /\ Hears(g, "failed") /\ UNCHANGED <<peers, tunnel>>
  <2>1. Fit(r, u, [f EXCEPT !.heard = "failed"])
    BY <1>0, <1>3, HearsFailedFits
  <2>2. phone' = [phone EXCEPT ![g] = [f EXCEPT !.heard = "failed"]]
    BY <1>3 DEF Hears
  <2>3. [f EXCEPT !.heard = "failed"].heard = "failed"
    BY <1>0 DEF PhoneRecord
  <2>4. PhoneEffect(g)
    BY <1>0, <1>3, <2>1, <2>2, <2>3 DEF PhoneEffect
  <2> QED BY <1>2, <1>3, <2>4
<1>4. CASE In(g, [r EXCEPT !.openOk = FALSE]) /\ UNCHANGED <<peers, phone>>
  <2>1. Fit([r EXCEPT !.openOk = FALSE], u, f)
    BY <1>0, OpenOkFits
  <2>2. [r EXCEPT !.openOk = FALSE].gone = r.gone
    BY <1>0 DEF PeerRecord
  <2>3. /\ tunnel' = [tunnel EXCEPT ![g] = [r EXCEPT !.openOk = FALSE]]
        /\ phone' = [phone EXCEPT ![g] = f]
    BY <1>0, <1>4 DEF In
  <2> PICK p : p = [r EXCEPT !.openOk = FALSE]
    OBVIOUS
  <2>4. PhoneEffect(g)
    BY <2>1, <2>2, <2>3 DEF PhoneEffect
  <2> QED BY <1>2, <1>4, <2>4
<1>5. CASE /\ ~r.error /\ r.downlink # <<>>
           /\ phone' = [phone EXCEPT ![g].got = Append(@, Head(r.downlink))]
           /\ In(g, Released([r EXCEPT !.downlink = Tail(@)]))
           /\ UNCHANGED peers
  <2> PICK p, k : p = [r EXCEPT !.downlink = Tail(@)] /\ k = [f EXCEPT !.got = Append(@, Head(r.downlink))]
    OBVIOUS
  <2>1. Fit(p, u, k)
    BY <1>0, <1>5, DownTakenFits DEF Over
  <2>2. p.gone = r.gone /\ k.heard = f.heard
    BY <1>0 DEF PeerRecord, PhoneRecord
  <2>3. Fit(Released(p), u, k) /\ Released(p).gone = r.gone
    BY <2>1, <2>2, ReleasedFits
  <2>4. phone' = [phone EXCEPT ![g] = k] /\ tunnel' = [tunnel EXCEPT ![g] = Released(p)]
    BY <1>5 DEF In
  <2>5. PhoneEffect(g)
    BY <2>2, <2>3, <2>4 DEF PhoneEffect
  <2> QED BY <1>2, <1>5, <2>5
<1>6. CASE /\ ~r.error /\ Released(r).released
           /\ In(g, Released(r)) /\ Hears(g, "closed")
           /\ peers' = [peers EXCEPT ![d] = None]
  <2> PICK p, k : p = Released(r) /\ k = [f EXCEPT !.heard = "closed"]
    OBVIOUS
  <2>1. Fit(p, u, f) /\ p.gone = r.gone /\ p.released
    BY <1>0, <1>6, ReleasedFits
  <2>2. f.heard # "failed"
    BY <1>0, <1>6 DEF Fit, HeardFits, Over
  <2>3. Fit(p, u, k) /\ k.heard = "closed"
    BY <1>0, <2>1, <2>2, HearsClosedFits DEF PhoneRecord
  <2>4. phone' = [phone EXCEPT ![g] = k] /\ tunnel' = [tunnel EXCEPT ![g] = p]
    BY <1>6 DEF Hears, In
  <2>5. upstream' = [upstream EXCEPT ![g] = u]
    BY <1>0, <1>1
  <2>6. /\ tunnel' \in [Gens -> PeerRecord] /\ upstream' \in [Gens -> ServerRecord]
        /\ phone' \in [Gens -> PhoneRecord] /\ tunnel'[g] = p /\ phone'[g] = k
        /\ \A i \in Gens : Fit(tunnel[i], upstream[i], phone[i])'
    BY <1>0, <2>3, <2>4, <2>5, OneTunnel DEF IInv
  <2>7. Types'
    BY <1>1, <1>6, <2>6 DEF IInv, Types
  <2>8. Fits'
    BY <2>6 DEF Fits
  <2>9. Registry'
    <3>1. \A i \in Gens : i # g => tunnel'[i] = tunnel[i] /\ phone'[i] = phone[i]
      BY <2>4 DEF IInv, Types
    <3>2. \A e \in Devices : peers'[e] = IF e = d THEN None ELSE peers[e]
      BY <1>6 DEF IInv, Types
    <3>3. \A e \in Devices : peers[e] # None /\ e # d => peers[e] \in Gens /\ peers[e] # g
      BY <1>0 DEF IInv, Types, Registry
    <3>4. \A i \in Gens : i > next => i # g
      BY <1>0 DEF IInv, Types, Gens
    <3>5. \A i \in Gens : i # g /\ Registered(i) => \E e \in Devices : peers'[e] = i
      BY <3>2 DEF Registered
    <3>6. \A a, e \in Devices : peers'[a] = peers'[e] /\ peers'[a] # None => a = e
      BY <3>2 DEF IInv, Registry
    <3>7. \A e \in Devices : peers'[e] # None =>
            peers'[e] <= next' /\ ~tunnel'[peers'[e]].gone /\ phone'[peers'[e]].heard # "closed"
      BY <1>1, <3>1, <3>2, <3>3 DEF IInv, Registry
    <3>8. \A i \in Gens : i > next' => tunnel'[i] = NewPeer
      BY <1>1, <3>1, <3>4 DEF IInv, Registry
    <3>9. \A i \in Gens : i <= next' =>
            (\E e \in Devices : peers'[e] = i) \/ tunnel'[i].gone \/ phone'[i].heard = "closed"
      BY <1>1, <2>3, <2>6, <3>1, <3>5 DEF IInv, Registry
    <3> QED BY <3>6, <3>7, <3>8, <3>9 DEF Registry, Registered
  <2>10. OnlyRunningWaits'
    BY <1>1 DEF IInv, OnlyRunningWaits
  <2> QED BY <2>7, <2>8, <2>9, <2>10 DEF IInv
<1> QED BY <1>3, <1>4, <1>5, <1>6 DEF Read

LEMMA DisconnectKeeps ==
  ASSUME IInv, NEW d \in Devices, Disconnect(d), UNCHANGED scene
  PROVE  IInv'
<1> PICK g : g = peers[d]
  OBVIOUS
<1>0. /\ UNCHANGED <<next, upstream, phone, service>>
      /\ rejected' \subseteq Devices /\ pending' \in [Devices -> Gens \cup {None}]
      /\ peers' = [peers EXCEPT ![d] = None]
  BY DEF Disconnect, Answer, IInv, Types
<1>1. CASE g = None
  <2>1. peers' = peers /\ tunnel' = tunnel
    BY <1>0, <1>1 DEF Disconnect, IInv, Types
  <2> QED BY <1>0, <2>1, QuietKeeps
<1>2. CASE g # None
  <2>1. /\ g \in Gens /\ g <= next /\ phone[g].heard # "closed"
        /\ Fit(tunnel[g], upstream[g], phone[g])
        /\ upstream = [upstream EXCEPT ![g] = upstream[g]]
        /\ phone = [phone EXCEPT ![g] = phone[g]]
    BY <1>2, TheTunnelOf, TheRecords
  <2> PICK p : p = Terminated(tunnel[g])
    OBVIOUS
  <2>2. Fit(p, upstream[g], phone[g]) /\ p.gone
    BY <2>1, TerminatedFits
  <2>3. tunnel' = [tunnel EXCEPT ![g] = p]
    BY <1>2 DEF Disconnect, In
  <2>4. upstream' = [upstream EXCEPT ![g] = upstream[g]] /\ phone' = [phone EXCEPT ![g] = phone[g]]
    BY <1>0, <2>1
  <2>5. /\ tunnel' \in [Gens -> PeerRecord] /\ upstream' \in [Gens -> ServerRecord]
        /\ phone' \in [Gens -> PhoneRecord] /\ tunnel'[g] = p
        /\ \A i \in Gens : Fit(tunnel[i], upstream[i], phone[i])'
    BY <2>1, <2>2, <2>3, <2>4, OneTunnel DEF IInv
  <2>6. Types'
    BY <1>0, <2>5 DEF IInv, Types
  <2>7. Fits'
    BY <2>5 DEF Fits
  <2>8. Registry'
    <3>1. \A i \in Gens : i # g => tunnel'[i] = tunnel[i]
      BY <2>3 DEF IInv, Types
    <3>2. \A e \in Devices : peers'[e] = IF e = d THEN None ELSE peers[e]
      BY <1>0 DEF IInv, Types
    <3>3. \A e \in Devices : peers[e] # None /\ e # d => peers[e] \in Gens /\ peers[e] # g
      BY <1>2 DEF IInv, Types, Registry
    <3>4. \A i \in Gens : i > next => i # g
      BY <2>1 DEF IInv, Types, Gens
    <3>5. \A i \in Gens : i # g /\ Registered(i) => \E e \in Devices : peers'[e] = i
      BY <3>2 DEF Registered
    <3> QED BY <1>0, <2>2, <2>5, <3>1, <3>2, <3>3, <3>4, <3>5 DEF IInv, Registry, Registered
  <2>9. OnlyRunningWaits'
    BY <1>0 DEF IInv, OnlyRunningWaits
  <2> QED BY <2>6, <2>7, <2>8, <2>9 DEF IInv
<1> QED BY <1>1, <1>2

-----------------------------------------------------------------------------
(* Registration, and stopping *)

(* What moves the registration alone: only the running loop waits for BlueZ. *)
LEMMA RegistrationKeeps ==
  ASSUME IInv, Registration \/ RequestShutdown, UNCHANGED Traffic, UNCHANGED scene
  PROVE  IInv'
<1>0. service \in ServiceRecord /\ OnlyRunningWaits
  BY DEF IInv, Types
<1>1. service' \in ServiceRecord /\ OnlyRunningWaits'
  <2>1. CASE Serve
    BY <1>0, <2>1 DEF Serve, ServiceRecord, OnlyRunningWaits
  <2>2. CASE Call
    BY <1>0, <2>2 DEF Call, ServiceRecord, OnlyRunningWaits
  <2>3. CASE ApplicationRegistered
    BY <1>0, <2>3 DEF ApplicationRegistered, Quit, Failed, ServiceRecord, OnlyRunningWaits
  <2>4. CASE AdvertisementRegistered
    <3> PICK s : s = [service EXCEPT !.adv = TRUE, !.call = "none", !.waits = FALSE]
      OBVIOUS
    <3>1. s \in ServiceRecord /\ ~s.waits
      BY <1>0 DEF ServiceRecord
    <3>2. Quit(s) \in ServiceRecord /\ ~Quit(s).waits
      BY <3>1, ZenonT(40) DEF Quit, ServiceRecord
    <3>3. Failed(s) \in ServiceRecord /\ ~Failed(s).waits
      BY <3>1, ZenonT(40) DEF Failed, Quit, ServiceRecord
    <3>4. service' = s \/ service' = Quit(s) \/ service' = Failed(s)
      BY <2>4 DEF AdvertisementRegistered
    <3> QED BY <3>1, <3>2, <3>3, <3>4 DEF OnlyRunningWaits
  <2>5. CASE RegistrationFails
    BY <1>0, <2>5 DEF RegistrationFails, Quit, Failed, ServiceRecord, OnlyRunningWaits
  <2>6. CASE IdleRuns
    BY <1>0, <2>6 DEF IdleRuns, ServiceRecord, OnlyRunningWaits
  <2>7. CASE RequestShutdown
    BY <1>0, <2>7 DEF RequestShutdown, ServiceRecord, OnlyRunningWaits
  <2> QED BY <2>1, <2>2, <2>3, <2>4, <2>5, <2>6, <2>7 DEF Registration
<1>2. Types'
  BY <1>1 DEF IInv, Types, Traffic
<1>3. Fits'
  BY DEF IInv, Fits, Traffic
<1>4. Registry'
  BY DEF IInv, Registry, Registered, Traffic
<1> QED BY <1>1, <1>2, <1>3, <1>4 DEF IInv

(* close begins; the tunnels are ended later. *)
LEMMA CloseBeginsKeeps ==
  ASSUME IInv, CloseBegins, UNCHANGED scene
  PROVE  IInv'
<1>0. service \in ServiceRecord /\ OnlyRunningWaits
  BY DEF IInv, Types
<1>1. service' \in ServiceRecord /\ OnlyRunningWaits'
  BY <1>0 DEF CloseBegins, ServiceRecord, OnlyRunningWaits
<1>2. Types'
  BY <1>1 DEF IInv, Types, CloseBegins
<1>3. Fits'
  BY DEF IInv, Fits, CloseBegins
<1>4. Registry'
  BY DEF IInv, Registry, Registered, CloseBegins
<1> QED BY <1>1, <1>2, <1>3, <1>4 DEF IInv

(* close ends every tunnel that a peer still has. *)
LEMMA CloseEndsKeeps ==
  ASSUME IInv, CloseEnds, UNCHANGED scene
  PROVE  IInv'
<1>0. /\ service \in ServiceRecord /\ OnlyRunningWaits
      /\ UNCHANGED <<pending, next, upstream, phone>>
  BY DEF IInv, Types, CloseEnds
<1>1. service' \in ServiceRecord /\ OnlyRunningWaits'
  BY <1>0 DEF CloseEnds, ServiceRecord, OnlyRunningWaits
<1>2. \A g \in Gens : tunnel'[g] = IF Registered(g) THEN Terminated(tunnel[g]) ELSE tunnel[g]
  BY DEF CloseEnds
<1>3. ASSUME NEW g \in Gens, Registered(g)
      PROVE  /\ Fit(Terminated(tunnel[g]), upstream[g], phone[g])
             /\ Terminated(tunnel[g]).gone /\ g <= next
  <2>1. PICK d \in Devices : peers[d] = g
    BY <1>3 DEF Registered
  <2>2. g # None
    BY GatewayAssumption DEF Gens
  <2>3. phone[g].heard # "closed" /\ g <= next
    BY <2>1, <2>2, TheTunnelOf
  <2> QED BY <2>3, TheRecords, TerminatedFits
<1>4. \A g \in Gens : Fit(tunnel'[g], upstream'[g], phone'[g])
  BY <1>0, <1>2, <1>3 DEF IInv, Fits
<1>5. Types'
  <2>1. \A g \in Gens : tunnel'[g] \in PeerRecord
    BY <1>4 DEF Fit, Typed
  <2>2. tunnel' \in [Gens -> PeerRecord]
    BY <2>1 DEF CloseEnds
  <2> QED BY <1>0, <1>1, <2>2 DEF IInv, Types, CloseEnds
<1>6. Fits'
  BY <1>4 DEF Fits
<1>7. Registry'
  <2>1. \A d \in Devices : peers'[d] = None
    BY DEF CloseEnds
  <2>2. \A g \in Gens : g > next => ~(g <= next)
    BY DEF IInv, Types, Gens
  <2>3. \A g \in Gens : g > next => tunnel'[g] = NewPeer
    BY <1>2, <1>3, <2>2 DEF IInv, Registry
  <2>4. \A g \in Gens : g <= next => tunnel'[g].gone \/ phone[g].heard = "closed"
    BY <1>2, <1>3 DEF IInv, Registry
  <2> QED BY <1>0, <2>1, <2>3, <2>4 DEF Registry
<1> QED BY <1>1, <1>5, <1>6, <1>7 DEF IInv

-----------------------------------------------------------------------------
(* The invariant holds *)

LEMMA InitFits ==
  ASSUME Init
  PROVE  IInv
<1> DEFINE u == [sent |-> 0, got |-> <<>>, ended |-> FALSE]
           f == [sent |-> 0, got |-> <<>>, heard |-> "open"]
<1>1. NewPeer \in PeerRecord
  BY Names, NoneQueued DEF NewPeer, PeerRecord
<1>2. u \in ServerRecord /\ f \in PhoneRecord
  BY NoneQueued DEF ServerRecord, PhoneRecord
<1>3. ThreadsFit(NewPeer)
  BY DEF ThreadsFit, NewPeer, Over
<1>4. UpFits(NewPeer, u, f)
  <2>1. Queue(NewPeer, 0, 0, 0, 0, 0)
    BY NoneQueued, Sizes DEF Queue, NewPeer
  <2> QED BY <2>1, NoChunks, NoneQueued DEF UpFits, NewPeer
<1>5. DownFits(NewPeer, u, f)
  BY NoChunks, NoneQueued, Sizes DEF DownFits, NewPeer
<1>6. HeardFits(NewPeer, f)
  BY DEF HeardFits
<1>7. Fit(NewPeer, u, f)
  BY <1>1, <1>2, <1>3, <1>4, <1>5, <1>6 DEF Fit, Typed
<1>8. /\ tunnel = [g \in Gens |-> NewPeer] /\ upstream = [g \in Gens |-> u]
      /\ phone = [g \in Gens |-> f]
  BY DEF Init
<1> HIDE DEF u, f
<1>9. Types
  <2>1. service \in ServiceRecord
    BY DEF Init, ServiceRecord
  <2>2. /\ peers \in [Devices -> Gens \cup {None}] /\ pending \in [Devices -> Gens \cup {None}]
        /\ rejected \subseteq Devices /\ next \in 0..MaxTunnels /\ scene \in Scenes
    BY Sizes DEF Init
  <2>3. /\ tunnel \in [Gens -> PeerRecord] /\ upstream \in [Gens -> ServerRecord]
        /\ phone \in [Gens -> PhoneRecord]
    BY <1>1, <1>2, <1>8
  <2> QED BY <2>1, <2>2, <2>3 DEF Types
<1>10. Fits
  BY <1>7, <1>8 DEF Fits
<1>11. Registry
  BY <1>8, Sizes DEF Init, Registry, Gens
<1>12. OnlyRunningWaits
  BY DEF Init, OnlyRunningWaits
<1> QED BY <1>9, <1>10, <1>11, <1>12 DEF IInv

(* Every step keeps the invariant. *)
LEMMA StepKeeps ==
  ASSUME IInv, [Next]_<<gvars, scene>>
  PROVE  IInv'
<1>1. CASE UNCHANGED <<gvars, scene>>
  <2>1. UNCHANGED <<peers, tunnel, next, upstream, phone, service, scene, rejected, pending>>
    BY <1>1 DEF gvars
  <2> QED BY <2>1, QuietKeeps DEF IInv, Types
<1>2. ASSUME Next PROVE IInv'
  <2>0. UNCHANGED scene
    BY <1>2 DEF Next
  <2>1. ASSUME NEW d \in Present, Peer(d) PROVE IInv'
    <3>1. d \in Devices
      BY GatewayAssumption DEF Present
    <3> QED BY <2>0, <2>1, <3>1, WriteKeeps, HoldKeeps, RetryKeeps, ReadKeeps, DisconnectKeeps
           DEF Peer
  <2>2. ASSUME NEW g \in Gens, Threads(g) \/ Server(g) PROVE IInv'
    BY <2>0, <2>2, ThreadsKeep, ServerKeeps
  <2>3. CASE Service
    BY <2>0, <2>3, RegistrationKeeps, CloseBeginsKeeps, CloseEndsKeeps DEF Service, Registers
  <2> QED BY <1>2, <2>1, <2>2, <2>3 DEF Next, Step
<1> QED BY <1>1, <1>2

(* Tunnels, threads, connections and what went through them always fit. *)
THEOREM AlwaysFits == Spec => []IInv
<1>1. Init => IInv
  BY InitFits
<1>2. IInv /\ [Next]_<<gvars, scene>> => IInv'
  BY StepKeeps
<1> QED BY <1>1, <1>2, PTL DEF Spec

-----------------------------------------------------------------------------
(* What the runs check *)

(* What is queued or in the writer's hand is what bytes counts. *)
LEMMA UnsentIsCounted ==
  ASSUME NEW r, NEW u, NEW f, Fit(r, u, f)
  PROVE  Unsent(r) <= Buffer /\ (~Over(r) => r.bytes = Unsent(r))
<1> DEFINE Chunks == {i \in DOMAIN r.uplink : r.uplink[i] # EndMark}
<1>0. ThreadsFit(r) /\ r.uplink \in Seq(Nat)
  BY FitFields DEF Fit
<1>1. CASE Over(r)
  <2>1. r.uplink = <<>>
    BY <1>0, <1>1 DEF ThreadsFit
  <2>2. Chunks = {}
    BY <2>1
  <2>3. Cardinality(Chunks) = 0
    BY <2>2, FS_EmptySet
  <2>4. Unsent(r) = 0 + (IF r.hand = 0 THEN 0 ELSE 1)
    BY <2>3 DEF Unsent
  <2>5. 0 + (IF r.hand = 0 THEN 0 ELSE 1) <= Buffer
    BY Sizes
  <2> QED BY <1>1, <2>4, <2>5
<1>2. CASE ~Over(r)
  <2>1. PICK n \in Nat, h \in {0, 1}, e \in {0, 1} : Queue(r, Len(u.got), f.sent, n, h, e)
    BY <1>2 DEF Fit, UpFits
  <2>2. PICK c \in Nat : c = Len(u.got)
    BY FitFields
  <2>3. /\ Len(r.uplink) = n + e /\ r.bytes = h + n /\ r.bytes <= Buffer
        /\ \A i \in 1..n : r.uplink[i] = c + h + i
        /\ e = 1 => r.uplink[n + 1] = EndMark
        /\ h = 1 <=> r.hand # 0
    BY <2>1, <2>2 DEF Queue
  <2>4. DOMAIN r.uplink = 1..(n + e)
    BY <1>0, <2>3
  <2>5. \A i \in 1..n : c + h + i # 0 /\ i \in 1..(n + e)
    OBVIOUS
  <2>6. \A i \in 1..(n + e) : i \in 1..n \/ (e = 1 /\ i = n + 1)
    OBVIOUS
  <2>7. Chunks = 1..n
    BY <2>3, <2>4, <2>5, <2>6 DEF EndMark
  <2>8. Cardinality(1..n) = n
    <3>1. Cardinality(1..n) = IF 1 > n THEN 0 ELSE n - 1 + 1
      BY FS_Interval
    <3> QED BY <3>1
  <2>9. Unsent(r) = n + (IF r.hand = 0 THEN 0 ELSE 1)
    BY <2>7, <2>8 DEF Unsent
  <2>10. h = (IF r.hand = 0 THEN 0 ELSE 1)
    BY <2>3
  <2>11. Unsent(r) = h + n
    BY <2>9, <2>10
  <2> QED BY <2>3, <2>11
<1> QED BY <1>1, <1>2

(* The types the run checks *)
LEMMA FitTypes ==
  ASSUME NEW r, NEW u, NEW f, Fit(r, u, f)
  PROVE  /\ r.state \in {"connecting", "active", "closing", "closed", "poisoned"}
         /\ r.error \in BOOLEAN /\ r.socket \in {"none", "open", "closed"}
         /\ r.connector \in {"connecting", "connected", "done"}
         /\ r.deadline \in {"armed", "firing", "off"}
         /\ r.reader \in {"none", "looking", "receiving", "ending", "done"}
         /\ r.writer \in {"none", "looking", "sending", "ending", "done"}
         /\ Len(r.downlink) <= Buffer
<1>1. r \in PeerRecord /\ DownFits(r, u, f)
  BY DEF Fit, Typed
<1> QED BY <1>1 DEF PeerRecord, DownFits, States, Sockets, Connectors, Deadlines, Readers, Writers

(* The invariant says what the run checks. *)
LEMMA InvariantImplies ==
  ASSUME IInv
  PROVE  GatewayInv /\ RegistrationSettled
<1>1. GatewayTypeOK
  <2>1. \A g \in Gens :
          /\ Unsent(tunnel[g]) <= Buffer
          /\ ~Over(tunnel[g]) => tunnel[g].bytes = Unsent(tunnel[g])
    BY TheRecords, UnsentIsCounted
  <2>2. service.phase \in {"started", "calling", "running", "left", "cleanup", "closed"}
    BY DEF IInv, Types, ServiceRecord
  <2>3. /\ peers \in [Devices -> Gens \cup {None}] /\ pending \in [Devices -> Gens \cup {None}]
        /\ rejected \subseteq Devices /\ next \in 0..MaxTunnels
    BY DEF IInv, Types
  <2> QED BY <2>1, <2>2, <2>3, TheRecords, FitTypes DEF GatewayTypeOK
<1>2. SocketsOwned
  <2>1. SUFFICES ASSUME NEW g \in Gens, tunnel[g].socket = "open", tunnel[g].connector # "connected"
                 PROVE  tunnel[g].attached /\ ~Over(tunnel[g]) /\ Registered(g)
    BY DEF SocketsOwned
  <2>2. ThreadsFit(tunnel[g]) /\ HeardFits(tunnel[g], phone[g])
    BY TheRecords DEF Fit
  <2>3. tunnel[g].attached /\ ~Over(tunnel[g]) /\ ~tunnel[g].released
    BY <2>1, <2>2 DEF ThreadsFit
  <2>4. g <= next
    BY <2>1, UnopenedIsNew DEF NewPeer
  <2>5. ~tunnel[g].gone /\ phone[g].heard # "closed"
    BY <2>2, <2>3 DEF Over, HeardFits
  <2> QED BY <2>3, <2>4, <2>5 DEF IInv, Registry
<1>3. RegistrationSettled
  BY DEF IInv, Registry, OnlyRunningWaits, RegistrationSettled
<1> QED BY <1>1, <1>2, <1>3 DEF GatewayInv

(* Whatever ends first - the phone, the connection, a thread, the deadline  *)
(* or the service - no connection outlives its tunnel and no direction      *)
(* buffers more than its limit.                                             *)
THEOREM TunnelsAlwaysFit == Spec => []GatewayInv
<1>1. IInv => GatewayInv
  BY InvariantImplies
<1> QED BY AlwaysFits, <1>1, PTL

(* A generation is of one device, and the loop is left for a shutdown only  *)
(* when BlueZ owes no answer.                                               *)
THEOREM AlwaysSettled == Spec => []RegistrationSettled
<1>1. IInv => RegistrationSettled
  BY InvariantImplies
<1> QED BY AlwaysFits, <1>1, PTL

-----------------------------------------------------------------------------
(* What phones and the web server see *)

LEMMA SameChunks ==
  ASSUME NEW n
  PROVE  Pipe!FirstOf(n) = FirstChunks(n)
  BY DEF Pipe!FirstOf, FirstChunks

(* No chunk was sent yet. *)
LEMMA TunnelsStart ==
  ASSUME Init
  PROVE  Pipe!TunnelInit
  BY NoChunks, SameChunks DEF Init, Pipe!TunnelInit

(* Steps that nobody outside sees *)
LEMMA Unseen ==
  ASSUME \A g \in Gens : /\ upstream'[g].sent = upstream[g].sent /\ upstream'[g].got = upstream[g].got
                         /\ phone'[g].sent = phone[g].sent /\ phone'[g].got = phone[g].got
                         /\ phone'[g].heard = phone[g].heard
  PROVE  UNCHANGED Pipe!bvars
  BY DEF Pipe!bvars

(* What a step is to those outside: a chunk arrives, is sent, or nothing. *)
LEMMA WriterSeen ==
  ASSUME IInv, NEW g \in Gens, Writer(g), UNCHANGED phone
  PROVE  [Pipe!TunnelNext]_(Pipe!bvars)
<1> PICK r, u, f : r = tunnel[g] /\ u = upstream[g] /\ f = phone[g]
  OBVIOUS
<1>0. Fit(r, u, f) /\ u \in ServerRecord
  BY TheRecords
<1>1. CASE upstream' = upstream
  BY <1>1, Unseen
<1>2. CASE r.writer = "sending" /\ upstream' = [upstream EXCEPT ![g].got = Append(@, r.hand)]
  <2>1. PICK n \in Nat : n = Len(u.got)
    BY <1>0, FitFields
  <2>2. u.got = FirstChunks(n) /\ r.hand = n + 1 /\ r.hand <= f.sent
    BY <1>0, <1>2, <2>1 DEF Fit, UpFits
  <2>3. Append(u.got, r.hand) = FirstChunks(n + 1)
    BY <2>2, OneMore
  <2>4. f.sent \in Nat
    BY <1>0, FitFields
  <2>5. n < f.sent /\ n \in 0..f.sent
    BY <2>2, <2>4
  <2>6. \A i \in Gens : /\ upstream'[i].got = IF i = g THEN FirstChunks(n + 1) ELSE upstream[i].got
                        /\ upstream'[i].sent = upstream[i].sent
    BY <1>2, <2>3 DEF IInv, Types, ServerRecord
  <2>7. Pipe!ArriveUp(g, n)
    BY <2>2, <2>5, <2>6, SameChunks DEF Pipe!ArriveUp
  <2> QED BY <2>5, <2>7 DEF Pipe!TunnelNext
<1>3. upstream' = upstream \/ (r.writer = "sending" /\ upstream' = [upstream EXCEPT ![g].got = Append(@, r.hand)])
  BY DEF Writer, WriterTakes, WriterSends, WriterEnds
<1> QED BY <1>1, <1>2, <1>3

LEMMA ServerSeen ==
  ASSUME IInv, NEW g \in Gens, Server(g)
  PROVE  [Pipe!TunnelNext]_(Pipe!bvars)
<1>0. phone' = phone
  BY DEF Server
<1>1. CASE ServerSends(g)
  <2>1. phone[g].heard # "closed"
    <3>1. ThreadsFit(tunnel[g]) /\ HeardFits(tunnel[g], phone[g])
      BY TheRecords DEF Fit
    <3> QED BY <1>1, <3>1 DEF ServerSends, ThreadsFit, HeardFits
  <2>2. \A i \in Gens : /\ upstream'[i].sent = IF i = g THEN upstream[g].sent + 1 ELSE upstream[i].sent
                        /\ upstream'[i].got = upstream[i].got
    BY <1>1 DEF ServerSends, IInv, Types, ServerRecord
  <2>3. Pipe!SendDown(g)
    BY <1>0, <2>1, <2>2 DEF Pipe!SendDown
  <2> QED BY <2>3 DEF Pipe!TunnelNext
<1>2. CASE ServerEnds(g)
  <2>1. \A i \in Gens : upstream'[i].sent = upstream[i].sent /\ upstream'[i].got = upstream[i].got
    BY <1>2 DEF ServerEnds, IInv, Types, ServerRecord
  <2> QED BY <1>0, <2>1, Unseen
<1> QED BY <1>1, <1>2 DEF Server

LEMMA DataSeen ==
  ASSUME IInv, NEW d \in Devices, peers[d] # None, Data(peers[d]), UNCHANGED upstream
  PROVE  [Pipe!TunnelNext]_(Pipe!bvars)
<1> PICK g : g = peers[d]
  OBVIOUS
<1>1. g \in Gens /\ phone[g].heard # "closed"
  BY TheTunnelOf
<1>2. phone' = [phone EXCEPT ![g].sent = @ + 1]
  BY DEF Data
<1>3. \A i \in Gens : /\ phone'[i].sent = IF i = g THEN phone[g].sent + 1 ELSE phone[i].sent
                      /\ phone'[i].got = phone[i].got /\ phone'[i].heard = phone[i].heard
  BY <1>1, <1>2 DEF IInv, Types, PhoneRecord
<1>4. Pipe!SendUp(g)
  BY <1>1, <1>3 DEF Pipe!SendUp
<1> QED BY <1>1, <1>4 DEF Pipe!TunnelNext

LEMMA ReadSeen ==
  ASSUME IInv, NEW d \in Devices, Read(d)
  PROVE  [Pipe!TunnelNext]_(Pipe!bvars)
<1> PICK g : g = peers[d]
  OBVIOUS
<1> PICK r, u, f : r = tunnel[g] /\ u = upstream[g] /\ f = phone[g]
  OBVIOUS
<1>0. /\ g \in Gens /\ ~r.gone /\ f.heard # "closed" /\ Fit(r, u, f)
      /\ f \in PhoneRecord /\ upstream' = upstream
  BY TheTunnelOf, TheRecords DEF Read
<1>1. f.heard = "open" \/ f.heard = "failed"
  BY <1>0 DEF PhoneRecord
<1>2. ~r.error => f.heard = "open"
  BY <1>0, <1>1 DEF Fit, HeardFits, Over
<1>3. CASE Hears(g, "failed")
  <2>1. \A i \in Gens : /\ phone'[i].heard = IF i = g THEN "failed" ELSE phone[i].heard
                        /\ phone'[i].got = phone[i].got /\ phone'[i].sent = phone[i].sent
    BY <1>3 DEF Hears, IInv, Types, PhoneRecord
  <2>2. CASE f.heard = "open"
    <3>1. Pipe!Failed(g)
      BY <1>0, <2>1, <2>2 DEF Pipe!Failed
    <3> QED BY <1>0, <3>1 DEF Pipe!TunnelNext
  <2>3. CASE f.heard = "failed"
    <3>1. \A i \in Gens : phone'[i].heard = phone[i].heard
      BY <2>1, <2>3
    <3> QED BY <1>0, <2>1, <3>1, Unseen
  <2> QED BY <1>1, <2>2, <2>3
<1>4. CASE phone' = phone
  BY <1>0, <1>4, Unseen
<1>5. CASE /\ ~r.error /\ r.downlink # <<>>
           /\ phone' = [phone EXCEPT ![g].got = Append(@, Head(r.downlink))]
  <2>1. PICK m \in Nat, l \in Nat, s \in Nat :
          m = Len(f.got) /\ l = Len(r.downlink) /\ s = u.sent /\ r.downlink \in Seq(Nat)
    BY <1>0, FitFields
  <2>2. f.got = FirstChunks(m) /\ m + l <= s /\ (\A i \in 1..l : r.downlink[i] = m + i)
    BY <1>0, <2>1 DEF Fit, DownFits
  <2>3. l >= 1 /\ Head(r.downlink) = r.downlink[1]
    BY <1>5, <2>1, Tailed
  <2>4. Head(r.downlink) = m + 1
    <3>1. 1 \in 1..l
      BY <2>3
    <3> QED BY <2>2, <2>3, <3>1
  <2>5. Append(f.got, Head(r.downlink)) = FirstChunks(m + 1)
    BY <2>2, <2>4, OneMore
  <2>6. m < s /\ m \in 0..s
    BY <2>2, <2>3
  <2>7. \A i \in Gens : /\ phone'[i].got = IF i = g THEN FirstChunks(m + 1) ELSE phone[i].got
                        /\ phone'[i].heard = phone[i].heard /\ phone'[i].sent = phone[i].sent
    BY <1>0, <1>5, <2>5 DEF IInv, Types, PhoneRecord
  <2>8. Pipe!ArriveDown(g, m)
    <3>1. phone[g].heard = "open" /\ m < upstream[g].sent /\ phone[g].got = FirstChunks(m)
      BY <1>2, <1>5, <2>1, <2>2, <2>6
    <3>2. upstream' = upstream /\ g \in Gens
      BY <1>0
    <3> QED BY <2>7, <3>1, <3>2, SameChunks DEF Pipe!ArriveDown
  <2> QED BY <1>0, <2>1, <2>6, <2>8 DEF Pipe!TunnelNext
<1>6. CASE ~r.error /\ Released(r).released /\ Hears(g, "closed")
  <2> PICK p : p = Released(r)
    OBVIOUS
  <2>1. Fit(p, u, f) /\ ~Over(p) /\ p.released
    BY <1>0, <1>6, ReleasedFits DEF Over
  <2>2. /\ p.close /\ p.eof /\ p.uplink = <<>> /\ p.downlink = <<>> /\ p.writer = "done"
    BY <2>1 DEF Fit, ThreadsFit
  <2>3. u.got = FirstChunks(f.sent)
    <3>1. PICK n \in Nat, h \in {0, 1}, e \in {0, 1} : Queue(p, Len(u.got), f.sent, n, h, e)
      BY <2>1 DEF Fit, UpFits
    <3>2. PICK c \in Nat : c = Len(u.got)
      BY <1>0, FitFields
    <3>3. p.hand = 0 /\ u.got = FirstChunks(c)
      BY <2>1, <2>2, <3>2 DEF Fit, UpFits
    <3>4. h = 0 /\ 0 = n + e /\ f.sent = c + h + n
      BY <2>2, <3>1, <3>2, <3>3, NoneQueued DEF Queue
    <3>5. f.sent = c
      BY <3>4
    <3> QED BY <3>3, <3>5
  <2>4. f.got = FirstChunks(u.sent)
    <3>1. PICK m \in Nat : m = Len(f.got)
      BY <1>0, FitFields
    <3>2. f.got = FirstChunks(m) /\ m + 0 = u.sent
      BY <2>1, <2>2, <3>1, NoneQueued DEF Fit, DownFits
    <3> QED BY <3>2
  <2>5. \A i \in Gens : /\ phone'[i].heard = IF i = g THEN "closed" ELSE phone[i].heard
                        /\ phone'[i].got = phone[i].got /\ phone'[i].sent = phone[i].sent
    BY <1>6 DEF Hears, IInv, Types, PhoneRecord
  <2>6. Pipe!Closed(g)
    BY <1>0, <1>2, <1>6, <2>3, <2>4, <2>5, SameChunks DEF Pipe!Closed
  <2> QED BY <1>0, <2>6 DEF Pipe!TunnelNext
<1> QED BY <1>3, <1>4, <1>5, <1>6 DEF Read

LEMMA PeerSeen ==
  ASSUME IInv, NEW d \in Devices, Peer(d)
  PROVE  [Pipe!TunnelNext]_(Pipe!bvars)
<1>1. CASE UNCHANGED <<upstream, phone>>
  BY <1>1, Unseen
<1>2. CASE peers[d] # None /\ Data(peers[d]) /\ UNCHANGED upstream
  BY <1>2, DataSeen
<1>3. CASE Read(d)
  BY <1>3, ReadSeen
<1>4. ASSUME NEW F \in Frames, Write(d, F)
      PROVE  \/ UNCHANGED <<upstream, phone>>
             \/ peers[d] # None /\ Data(peers[d]) /\ UNCHANGED upstream
  BY <1>4 DEF Write, OpenFrame, ForTunnel, Close, Malformed, Rejects, Ignored, Frames
<1>5. ASSUME Retry(d)
      PROVE  \/ UNCHANGED <<upstream, phone>>
             \/ peers[d] # None /\ Data(peers[d]) /\ UNCHANGED upstream
  BY <1>5 DEF Retry, ForTunnel, Rejects, Ignored
<1>6. ASSUME Hold(d) \/ Disconnect(d)
      PROVE  UNCHANGED <<upstream, phone>>
  BY <1>6 DEF Hold, Disconnect
<1> QED BY <1>1, <1>2, <1>3, <1>4, <1>5, <1>6 DEF Peer

LEMMA ThreadsSeen ==
  ASSUME IInv, NEW g \in Gens, Threads(g)
  PROVE  [Pipe!TunnelNext]_(Pipe!bvars)
<1>1. CASE Beside(Writer(g))
  BY <1>1, WriterSeen DEF Beside
<1>2. CASE UNCHANGED <<upstream, phone>>
  BY <1>2, Unseen
<1> QED BY <1>1, <1>2 DEF Threads, Beside

(* Every step is one of a ByteTunnel, or is not seen. *)
LEMMA EveryStepSeen ==
  ASSUME IInv, [Next]_<<gvars, scene>>
  PROVE  [Pipe!TunnelNext]_(Pipe!bvars)
<1>1. CASE UNCHANGED <<upstream, phone>>
  BY <1>1, Unseen
<1>2. CASE UNCHANGED <<gvars, scene>>
  BY <1>1, <1>2 DEF gvars
<1>3. ASSUME NEW d \in Present, Peer(d) PROVE [Pipe!TunnelNext]_(Pipe!bvars)
  <2>1. d \in Devices
    BY GatewayAssumption DEF Present
  <2> QED BY <1>3, <2>1, PeerSeen
<1>4. ASSUME NEW g \in Gens, Threads(g) \/ Server(g) PROVE [Pipe!TunnelNext]_(Pipe!bvars)
  BY <1>4, ThreadsSeen, ServerSeen
<1>5. CASE Service
  <2>1. UNCHANGED <<upstream, phone>>
    BY <1>5 DEF Service, Registers, Traffic, CloseBegins, CloseEnds
  <2> QED BY <1>1, <2>1
<1> QED BY <1>2, <1>3, <1>4, <1>5 DEF Next, Step

(* However connector, reader, writer, deadline and GLib callbacks are       *)
(* interleaved, each side receives a prefix of what the other one sent, and *)
(* a phone that is told CLOSED has all of it and left nothing behind.       *)
THEOREM GatewayIsATunnel == Spec => ImplementsTunnel
<1>1. Init => Pipe!TunnelInit
  BY TunnelsStart
<1>2. IInv /\ [Next]_<<gvars, scene>> => [Pipe!TunnelNext]_(Pipe!bvars)
  BY EveryStepSeen
<1> QED BY <1>1, <1>2, AlwaysFits, PTL DEF Spec, ImplementsTunnel, Pipe!TunnelSpec

=============================================================================
