-------------------------- MODULE SerialLinkProofs --------------------------
(***************************************************************************)
(* Whatever breaks and however often, the host grants only what the        *)
(* controller did, the car is as the host has recorded it once the line is *)
(* quiet, and the reader never waits for a worker that waits for it.       *)
(*                                                                         *)
(* Grants are made so by the acknowledgements: one on its way, or taken    *)
(* for the wait, belongs to a request that was acted on, and from its      *)
(* reply on the worker's wait is for its own request (LinkInv).            *)
(*                                                                         *)
(* The agreement needs what is still on the line (SerialInv): an           *)
(* AUTHORIZED there is the worker's own and the last command, or a STOP    *)
(* and a LOCK follow it, or the worker is about to send them.  Whatever    *)
(* may break that costs the link its connection, until a reset has put     *)
(* both commands on the line.                                              *)
(***************************************************************************)
EXTENDS SerialLink, SequenceTheorems, TLAPS

Waits == [accepted : BOOLEAN, done : BOOLEAN, id : Ids \cup {NoId}, conn : Nat]
Scans == [step : {"start", "scan"} \cup LockSteps, id : Ids,
          purpose : {"UNLOCK", "IGNITION"}, conn : Nat,
          cancelled : BOOLEAN, fresh : BOOLEAN]
Readers == [at : Places, conn : Nat, line : RequestLines \cup {NoLine}]

(* The steps of the worker from its wait on. *)
Granting == {"reply", "write", "wait"}

PortTypes == port \in Nat /\ opened \in Nat /\ conn \in Nat /\ up \in Seq(RequestLines)

RequesterTypes ==
    request \in Ids \cup {NoId} /\ purpose \in {"UNLOCK", "IGNITION"} /\ asked \subseteq Ids

ReaderFits ==
    /\ reader \in Readers
    /\ reader.at = "trigger" => reader.line \in RequestLines /\ reader.line.purpose # "none"

Types ==
    /\ RequesterTypes /\ PortTypes /\ ReaderFits
    /\ pending \in Waits
    /\ session = NoScan \/ session \in Scans

(* The lines that wait to be read *)
AcksWereActed ==
    \A i \in DOMAIN up : up[i].cmd = "AUTH_ACK" => up[i].id \in acted
OthersAsk == \A i \in DOMAIN up : up[i].cmd = "START_AUTH" => up[i].purpose # "none"

(* and the wait of the worker *)
WaitFits ==
    /\ pending.accepted => pending.id \in acted
    /\ session.step \in Granting => pending.id = session.id

Acks == AcksWereActed /\ OthersAsk /\ WaitFits /\ GrantedWasActed

LinkInv == Types /\ Acks

-----------------------------------------------------------------------------
(* What a step does to the port, the lines and the wait, unless it answers *)
(* a request or acknowledges one. *)
Keeps ==
    /\ port' \in Nat /\ opened' \in Nat /\ conn' \in Nat
    /\ up' = up \/ up' = << >> \/ (up # << >> /\ up' = Tail(up))
    /\ pending' \in Waits
    /\ pending'.accepted => pending.accepted /\ pending'.id = pending.id

(* and to the scan: it stays at its wait only with its own wait. *)
ScanKeeps ==
    \/ session' = NoScan
    \/ /\ session' = session \/ session' \in Scans
       /\ session'.step \in Granting =>
            session.step \in Granting /\ session'.id = session.id /\ pending'.id = pending.id

(* Losing a connection wakes the worker with a refusal. *)
LEMMA LostWaitKeeps ==
    ASSUME NEW c, pending \in Waits
    PROVE  /\ LostWait(c, pending) \in Waits
           /\ LostWait(c, pending).id = pending.id
           /\ LostWait(c, pending).accepted => pending.accepted
  BY DEF LostWait, Waits

(* A reply of the link is written, refused or lost with its port. *)
LEMMA TryReplyKeeps ==
    ASSUME PortTypes, pending \in Waits, NEW line, NEW c, NEW ok \in BOOLEAN,
           TryReply(line, c, ok)
    PROVE  Keeps /\ pending'.id = pending.id
  BY LostWaitKeeps
  DEF TryReply, Keeps, PortTypes, ConnectionLost, ClosePort, serial, link

(* STOP and LOCK, whichever fails, print nothing and forge nothing. *)
LEMMA DispatchKeeps ==
    ASSUME PortTypes, pending \in Waits, NEW ok \in BOOLEAN,
           DispatchLock(ok), pending' = WaitAfterLock(ok)
    PROVE  Keeps /\ pending'.id = pending.id
  <1>1. pending' \in Waits /\ pending'.id = pending.id
        /\ (pending'.accepted => pending.accepted)
    BY LostWaitKeeps DEF WaitAfterLock
  <1>2. up' = up \/ up' = << >>
    BY DEF DispatchLock, OpenPort, ClosePort, serial
  <1>3. port' \in Nat /\ opened' \in Nat /\ conn' \in Nat
    BY DEF DispatchLock, OpenPort, ClosePort, serial, ConnectionLost, PortTypes
  <1>4. QED
    BY <1>1, <1>2, <1>3 DEF Keeps

(* A step like that leaves the invariant alone. *)
LEMMA KeepsInvariant ==
    ASSUME LinkInv, Keeps, ScanKeeps, ReaderFits',
           UNCHANGED <<request, purpose, asked, granted, acted>>
    PROVE  LinkInv'
  <1>1. PortTypes /\ pending \in Waits /\ AcksWereActed /\ OthersAsk /\ WaitFits
        /\ RequesterTypes /\ GrantedWasActed /\ (session = NoScan \/ session \in Scans)
    BY DEF LinkInv, Types, Acks
  <1>2. PortTypes'
    <2>1. CASE up # << >> /\ up' = Tail(up)
      <3>1. up' \in Seq(RequestLines)
        BY <1>1, <2>1, HeadTailProperties DEF PortTypes
      <3>2. QED
        BY <3>1 DEF Keeps, PortTypes
    <2>2. CASE up' = up
      BY <1>1, <2>2 DEF Keeps, PortTypes
    <2>3. CASE up' = << >>
      BY <2>3 DEF Keeps, PortTypes
    <2>4. QED
      BY <2>1, <2>2, <2>3 DEF Keeps
  <1>3. \A i \in DOMAIN up' : \E j \in DOMAIN up : up'[i] = up[j]
    BY <1>1 DEF Keeps, PortTypes
  <1>4. AcksWereActed' /\ OthersAsk'
    BY <1>1, <1>3 DEF AcksWereActed, OthersAsk
  <1>5. WaitFits'
    BY <1>1 DEF Keeps, ScanKeeps, WaitFits, NoScan, Granting
  <1>6. Types'
    BY <1>1, <1>2 DEF Types, Keeps, ScanKeeps, RequesterTypes
  <1>7. GrantedWasActed'
    BY <1>1 DEF GrantedWasActed
  <1>8. QED
    BY <1>4, <1>5, <1>6, <1>7 DEF LinkInv, Acks

(* Steps of the reader's place in its loop. *)
LEMMA ReaderGoes ==
    ASSUME reader \in Readers, NEW at \in Places \ {"trigger"}, Goto(at)
    PROVE  ReaderFits'
  BY DEF Goto, Readers, ReaderFits

LEMMA ReaderLoops ==
    ASSUME reader \in Readers, Loop
    PROVE  ReaderFits'
  BY DEF Loop, Readers, ReaderFits, Places

-----------------------------------------------------------------------------
(* The link thread *)

LEMMA PortSteps ==
    ASSUME LinkInv, GetConnection \/ NoConnection \/ AdoptConnection
                    \/ HandleFailure \/ CloseFailed \/ ReadFails
    PROVE  LinkInv'
  <1>1. PortTypes /\ pending \in Waits /\ reader \in Readers
    BY DEF LinkInv, Types, ReaderFits
  <1>2. UNCHANGED <<session, request, purpose, asked, granted, acted>>
    BY DEF GetConnection, NoConnection, AdoptConnection, HandleFailure, CloseFailed,
           ReadFails, controller, car, ghost
  <1>3. Keeps /\ pending'.id = pending.id
    <2>1. CASE GetConnection
      BY <1>1, <2>1 DEF GetConnection, OpenPort, Keeps, PortTypes, link
    <2>2. CASE ReadFails
      BY <1>1, <2>2 DEF ReadFails, Keeps, PortTypes, link, serial
    <2>3. CASE AdoptConnection
      BY <1>1, <2>3, LostWaitKeeps
      DEF AdoptConnection, Keeps, PortTypes, link, serial, Readers
    <2>4. CASE NoConnection \/ HandleFailure \/ CloseFailed
      BY <1>1, <2>4, LostWaitKeeps
      DEF NoConnection, HandleFailure, CloseFailed, ConnectionLost, ClosePort, Keeps,
          PortTypes, serial
    <2>5. QED
      BY <2>1, <2>2, <2>3, <2>4
  <1>4. ReaderFits'
    <2>1. CASE GetConnection
      BY <1>1, <1>3, <2>1 DEF GetConnection, ReaderFits, Readers, Keeps, Places
    <2>2. CASE ~GetConnection
      <3>1. \E at \in Places \ {"trigger"} : Goto(at)
        BY <1>1, <2>2
        DEF NoConnection, AdoptConnection, HandleFailure, CloseFailed, ReadFails, Places
      <3>2. QED
        BY <1>1, <3>1, ReaderGoes
    <2>3. QED
      BY <2>1, <2>2
  <1>5. QED
    BY <1>2, <1>3, <1>4, KeepsInvariant DEF ScanKeeps

(* A new connection: its cancelled scan, and the reset. *)
LEMMA SyncSteps ==
    ASSUME LinkInv, CancelAll \/ SyncReset
    PROVE  LinkInv'
  <1>1. PortTypes /\ pending \in Waits /\ reader \in Readers
        /\ (session = NoScan \/ session \in Scans)
    BY DEF LinkInv, Types, ReaderFits
  <1>2. CASE CancelAll
    <2>1. UNCHANGED <<request, purpose, asked, granted, acted, pending, up, port, opened, conn>>
      BY <1>2 DEF CancelAll, controller, car, ghost, serial, link
    <2>2. Keeps
      BY <1>1, <2>1 DEF Keeps, PortTypes
    <2>3. ReaderFits'
      BY <1>1, <1>2, ReaderGoes DEF CancelAll, Places
    <2>4. ScanKeeps
      BY <1>1, <1>2, <2>1 DEF CancelAll, ScanKeeps, Scans
    <2>5. QED
      BY <2>1, <2>2, <2>3, <2>4, KeepsInvariant
  <1>3. CASE SyncReset
    <2>1. PICK ok \in BOOLEAN : DispatchLock(ok) /\ pending' = WaitAfterLock(ok)
                                /\ Goto(IF ok THEN "read" ELSE "failed")
      BY <1>3 DEF SyncReset
    <2>2. Keeps /\ pending'.id = pending.id
      BY <1>1, <2>1, DispatchKeeps
    <2>3. ReaderFits'
      BY <1>1, <2>1, ReaderGoes DEF Places
    <2>4. ScanKeeps
      BY <1>1, <1>3, <2>2 DEF SyncReset, Outdate, ScanKeeps, Scans
    <2>5. UNCHANGED <<request, purpose, asked, granted, acted>>
      BY <1>3 DEF SyncReset, controller
    <2>6. QED
      BY <2>2, <2>3, <2>4, <2>5, KeepsInvariant
  <1>4. QED
    BY <1>2, <1>3

(* A line is read: a result may end the wait, and only with an             *)
(* acknowledgement of the request the worker waits for. *)
LEMMA ReadSteps ==
    ASSUME LinkInv, ReadTrigger \/ ReadResult
    PROVE  LinkInv'
  <1>1. PortTypes /\ pending \in Waits /\ reader \in Readers /\ up # << >>
        /\ up' = Tail(up) /\ Head(up) \in RequestLines /\ Head(up) = up[1]
        /\ (session = NoScan \/ session \in Scans)
        /\ AcksWereActed /\ OthersAsk /\ WaitFits /\ RequesterTypes /\ GrantedWasActed
    BY DEF LinkInv, Types, ReaderFits, Acks, ReadTrigger, ReadResult, Reads, PortTypes
  <1>2. UNCHANGED <<request, purpose, asked, granted, acted, session, port, opened, conn>>
    BY DEF ReadTrigger, ReadResult, ReceiveResult, controller, car, ghost, link
  <1>3. CASE ReadTrigger
    <2>1. Keeps /\ pending'.id = pending.id
      BY <1>1, <1>2, <1>3 DEF ReadTrigger, link, Keeps, PortTypes
    <2>2. Head(up).purpose # "none"
      BY <1>1, <1>3 DEF ReadTrigger, OthersAsk, PortTypes
    <2>3. ReaderFits'
      BY <1>1, <1>3, <2>2 DEF ReadTrigger, ReaderFits, Readers, Places
    <2>4. QED
      BY <1>2, <2>1, <2>3, KeepsInvariant DEF ScanKeeps
  <1>4. CASE ReadResult
    <2>1. up' \in Seq(RequestLines) /\ \A i \in DOMAIN up' : \E j \in DOMAIN up : up'[i] = up[j]
      BY <1>1 DEF PortTypes
    <2>2. PortTypes' /\ AcksWereActed' /\ OthersAsk' /\ GrantedWasActed'
      BY <1>1, <1>2, <2>1 DEF PortTypes, AcksWereActed, OthersAsk, GrantedWasActed
    <2>3. pending' \in Waits /\ pending'.id = pending.id
      BY <1>1, <1>4 DEF ReadResult, ReceiveResult, Waits
    <2>4. pending'.accepted => pending'.id \in acted
      <3>1. CASE pending'.accepted = pending.accepted
        BY <1>1, <2>3, <3>1 DEF WaitFits
      <3>2. CASE pending'.accepted # pending.accepted
        <4>1. pending.id = Head(up).id
              /\ pending'.accepted = (Head(up).cmd = "AUTH_ACK")
          BY <1>1, <1>4, <3>2 DEF ReadResult, ReceiveResult, Waits
        <4>2. Head(up).cmd = "AUTH_ACK" => Head(up).id \in acted
          BY <1>1 DEF AcksWereActed, PortTypes
        <4>3. QED
          BY <2>3, <4>1, <4>2
      <3>3. QED
        BY <3>1, <3>2
    <2>5. WaitFits'
      BY <1>1, <1>2, <2>3, <2>4 DEF WaitFits
    <2>6. ReaderFits'
      <3>1. CASE reader' = reader
        BY <3>1 DEF LinkInv, Types, ReaderFits
      <3>2. CASE reader' = [reader EXCEPT !.at = "cancel", !.line = Head(up)]
        BY <1>1, <3>2 DEF ReaderFits, Readers, Places
      <3>3. QED
        BY <1>4, <3>1, <3>2 DEF ReadResult
    <2>7. Types'
      BY <1>1, <1>2, <2>2, <2>3, <2>6 DEF Types, RequesterTypes
    <2>8. QED
      BY <2>2, <2>5, <2>7 DEF LinkInv, Acks
  <1>5. QED
    BY <1>3, <1>4

(* The answers to a request and to its cancellation. *)
LEMMA AnswerSteps ==
    ASSUME LinkInv, FindCancelled \/ CancelScan \/ StartScan \/ RefuseTrigger \/ AnswerPending
    PROVE  LinkInv'
  <1>1. PortTypes /\ pending \in Waits /\ reader \in Readers
        /\ (session = NoScan \/ session \in Scans)
    BY DEF LinkInv, Types, ReaderFits
  <1>2. UNCHANGED <<request, purpose, asked, granted, acted>>
    BY DEF FindCancelled, CancelScan, StartScan, RefuseTrigger, AnswerPending,
           controller, car, ghost
  <1>3. CASE FindCancelled \/ StartScan
    <2>1. UNCHANGED <<pending, up, port, opened, conn>>
      BY <1>3 DEF FindCancelled, StartScan, serial, link
    <2>2. Keeps
      BY <1>1, <2>1 DEF Keeps, PortTypes
    <2>3. ReaderFits'
      BY <1>1, <1>3, ReaderGoes, ReaderLoops DEF FindCancelled, StartScan, Places
    <2>4. ScanKeeps
      <3>1. CASE FindCancelled
        BY <1>1, <2>1, <3>1 DEF FindCancelled, Matches, ScanKeeps, Scans
      <3>2. CASE StartScan
        <4>1. reader.line \in RequestLines /\ reader.line.purpose # "none"
          BY <3>2 DEF StartScan, LinkInv, Types, ReaderFits
        <4>2. QED
          BY <1>1, <3>2, <4>1
          DEF StartScan, ScanKeeps, Scans, Granting, RequestLines, Readers
      <3>3. QED
        BY <1>3, <3>1, <3>2
    <2>5. QED
      BY <1>2, <2>2, <2>3, <2>4, KeepsInvariant
  <1>4. CASE CancelScan \/ RefuseTrigger \/ AnswerPending
    <2>1. Keeps /\ pending'.id = pending.id
      <3>1. CASE \E line, c : \E ok \in BOOLEAN : TryReply(line, c, ok)
        BY <1>1, <3>1, TryReplyKeeps
      <3>2. CASE UNCHANGED <<serial, link>>
        BY <1>1, <3>2 DEF serial, link, Keeps, PortTypes
      <3>3. QED
        BY <1>4, <3>1, <3>2 DEF CancelScan, RefuseTrigger, AnswerPending
    <2>2. ReaderFits'
      BY <1>1, <1>4, ReaderLoops DEF CancelScan, RefuseTrigger, AnswerPending
    <2>3. ScanKeeps
      <3>1. CASE AnswerPending
        <4>1. session \in Scans
          BY <1>1, <3>1 DEF AnswerPending, NoScan
        <4>2. session' = NoScan \/ session' = [session EXCEPT !.step = "scan"]
          BY <3>1 DEF AnswerPending
        <4>3. QED
          BY <4>1, <4>2 DEF ScanKeeps, Scans, Granting
      <3>2. CASE CancelScan \/ RefuseTrigger
        BY <2>1, <3>2 DEF CancelScan, RefuseTrigger, ScanKeeps
      <3>3. QED
        BY <1>4, <3>1, <3>2
    <2>4. QED
      BY <1>2, <2>1, <2>2, <2>3, KeepsInvariant
  <1>5. QED
    BY <1>3, <1>4

-----------------------------------------------------------------------------
(* The scan worker *)

LEMMA QuietWorkerSteps ==
    ASSUME LinkInv, EndScan \/ Recognised \/ Undo
    PROVE  LinkInv'
  <1>1. PortTypes /\ pending \in Waits /\ ReaderFits /\ session \in Scans
    BY DEF LinkInv, Types, EndScan, Recognised, Undo, At, NoScan
  <1>2. UNCHANGED <<request, purpose, asked, granted, acted, reader>>
    BY DEF EndScan, Recognised, Undo, controller, car, ghost
  <1>3. Keeps /\ pending'.id = pending.id
    <2>1. CASE \E line, c : \E ok \in BOOLEAN : TryReply(line, c, ok)
      BY <1>1, <2>1, TryReplyKeeps
    <2>2. CASE UNCHANGED <<serial, link>>
      BY <1>1, <2>2 DEF serial, link, Keeps, PortTypes
    <2>3. CASE Undo
      BY <1>1, <2>3, DispatchKeeps DEF Undo
    <2>4. QED
      BY <2>1, <2>2, <2>3 DEF EndScan, Recognised
  <1>4. ScanKeeps
    BY <1>1 DEF EndScan, Recognised, Undo, Worker, ScanKeeps, Scans, Granting, LockSteps
  <1>5. ReaderFits'
    BY <1>1, <1>2 DEF ReaderFits
  <1>6. QED
    BY <1>2, <1>3, <1>4, <1>5, KeepsInvariant

(* The worker installs its wait, writes, and gives both up on a failure.   *)
LEMMA AuthorizeSteps ==
    ASSUME LinkInv, Authorize \/ CheckReply \/ WriteAuthorized
    PROVE  LinkInv'
  <1>1. PortTypes /\ pending \in Waits /\ ReaderFits /\ session \in Scans
        /\ AcksWereActed /\ OthersAsk /\ WaitFits /\ RequesterTypes /\ GrantedWasActed
    BY DEF LinkInv, Types, Acks, Authorize, CheckReply, WriteAuthorized, At, NoScan
  <1>2. UNCHANGED <<request, purpose, asked, granted, acted, reader>>
    BY DEF Authorize, CheckReply, WriteAuthorized, controller, car, ghost
  <1>3. ReaderFits'
    BY <1>1, <1>2 DEF ReaderFits
  <1>4. NoWait \in Waits /\ ~NoWait.accepted
    BY DEF NoWait, Waits
  <1>5. UNCHANGED up /\ port' \in Nat /\ opened' \in Nat /\ conn' \in Nat
    BY <1>1
    DEF Authorize, CheckReply, WriteAuthorized, serial, link, ConnectionLost, ClosePort, PortTypes
  <1>6. CASE pending' = pending \/ pending' = NoWait
    <2>1. Keeps
      BY <1>1, <1>4, <1>5, <1>6 DEF Keeps
    <2>2. ScanKeeps
      <3>1. session' \in Scans /\ session'.id = session.id
        BY <1>1 DEF Authorize, CheckReply, WriteAuthorized, Worker, Scans, LockSteps
      <3>2. session'.step \in Granting => session.step \in Granting /\ pending' = pending
        BY <1>1, <1>6
        DEF Authorize, CheckReply, WriteAuthorized, Worker, Scans, LockSteps, Granting, At,
            link, NoWait
      <3>3. QED
        BY <3>1, <3>2 DEF ScanKeeps
    <2>3. QED
      BY <1>2, <1>3, <2>1, <2>2, KeepsInvariant
  <1>7. CASE pending' = [accepted |-> FALSE, done |-> FALSE,
                         id |-> session.id, conn |-> session.conn]
    <2>1. session' \in Scans /\ session'.id = session.id
      BY <1>1 DEF Authorize, CheckReply, WriteAuthorized, Worker, Scans, LockSteps
    <2>2. pending' \in Waits /\ WaitFits'
      BY <1>1, <1>7, <2>1 DEF Waits, Scans, WaitFits
    <2>3. AcksWereActed' /\ OthersAsk' /\ GrantedWasActed' /\ PortTypes'
      BY <1>1, <1>2, <1>5 DEF AcksWereActed, OthersAsk, GrantedWasActed, PortTypes
    <2>4. Types'
      BY <1>1, <1>2, <1>3, <2>1, <2>2, <2>3 DEF Types, RequesterTypes
    <2>5. QED
      BY <2>2, <2>3, <2>4 DEF LinkInv, Acks
  <1>8. QED
    BY <1>6, <1>7 DEF Authorize, CheckReply, WriteAuthorized, link

(* A grant needs an accepted wait, and the wait is the worker's own.       *)
LEMMA JudgeStep ==
    ASSUME LinkInv, Judge
    PROVE  LinkInv'
  <1>1. PortTypes /\ pending \in Waits /\ ReaderFits /\ session \in Scans
        /\ AcksWereActed /\ OthersAsk /\ WaitFits /\ RequesterTypes /\ GrantedWasActed
    BY DEF LinkInv, Types, Acks, Judge, At, NoScan
  <1>2. UNCHANGED <<request, purpose, asked, acted, reader, up, port, opened, conn>>
    BY DEF Judge, controller, serial, ghost
  <1>3. pending' = NoWait /\ NoWait \in Waits /\ ~NoWait.accepted
    BY DEF Judge, NoWait, Waits
  <1>4. GrantedWasActed'
    BY <1>1, <1>2 DEF Judge, At, car, WaitFits, Granting, GrantedWasActed
  <1>5. session' = NoScan \/ (session' \in Scans /\ session'.step = "undo")
    BY <1>1 DEF Judge, Worker, Scans, LockSteps
  <1>6. WaitFits'
    BY <1>3, <1>5 DEF WaitFits, Granting, NoScan
  <1>7. AcksWereActed' /\ OthersAsk' /\ PortTypes' /\ ReaderFits'
    BY <1>1, <1>2 DEF AcksWereActed, OthersAsk, PortTypes, ReaderFits
  <1>8. Types'
    BY <1>1, <1>2, <1>3, <1>5, <1>7 DEF Types, RequesterTypes
  <1>9. QED
    BY <1>4, <1>6, <1>7, <1>8 DEF LinkInv, Acks

-----------------------------------------------------------------------------
(* The controller and the rest *)

(* The controller prints at most one line in a step, which is typed. *)
LEMMA PrintsOne ==
    ASSUME RequesterTypes, LoopStep
    PROVE  /\ up' = up \/ \E line \in RequestLines :
                              /\ up' = Append(up, line)
                              /\ line.cmd = "START_AUTH" => line.purpose # "none"
           /\ RequesterTypes'
  <1> USE DEF RequesterTypes, Says, RequestLines, outputs
  <1>1. ASSUME NEW id \in Ids
        PROVE  /\ Ack(id) \in RequestLines /\ Ack(id).cmd # "START_AUTH"
               /\ Cancel(id) \in RequestLines /\ Cancel(id).cmd # "START_AUTH"
               /\ \A p \in {"UNLOCK", "IGNITION"} :
                    StartAuth(p, id) \in RequestLines /\ StartAuth(p, id).purpose = p
    BY DEF Ack, Cancel, StartAuth
  <1>2. CASE \E id \in Ids : Ask(id)
    <2>1. PICK id \in Ids : Ask(id)
      BY <1>2
    <2>2. purpose' \in {"UNLOCK", "IGNITION"} /\ up' = Append(up, StartAuth(purpose', id))
          /\ RequesterTypes'
      BY <2>1 DEF Ask
    <2>3. QED
      BY <1>1, <2>2
  <1>3. CASE CallOff /\ UNCHANGED <<purpose, asked>>
    BY <1>1, <1>3 DEF CallOff
  <1>4. CASE Expire \/ TakeCommand
    BY <1>3, <1>4 DEF Expire, TakeCommand
  <1>5. CASE TakeReply
    <2>1. PICK id \in Ids : TakeAuthorized(id) \/ TakeRefusal(id)
                             \/ TakeLate(id) \/ TakeUnheeded(id)
      BY <1>5 DEF TakeReply
    <2>2. CASE TakeAuthorized(id)
      BY <1>1, <2>2 DEF TakeAuthorized
    <2>3. CASE TakeRefusal(id) \/ TakeUnheeded(id)
      BY <2>3 DEF TakeRefusal, TakeUnheeded
    <2>4. CASE TakeLate(id)
      BY <1>3, <2>4 DEF TakeLate
    <2>5. QED
      BY <2>1, <2>2, <2>3, <2>4
  <1>6. asked # Ids => (CHOOSE id \in Ids : id \notin asked) \in Ids
    OBVIOUS
  <1>7. QED
    BY <1>2, <1>4, <1>5, <1>6 DEF LoopStep

(* Its acknowledgements are what acted counts. *)
LEMMA ControlsStep ==
    ASSUME LinkInv, Controls
    PROVE  LinkInv'
  <1>1. PortTypes /\ pending \in Waits /\ ReaderFits
        /\ (session = NoScan \/ session \in Scans)
        /\ AcksWereActed /\ OthersAsk /\ WaitFits /\ RequesterTypes /\ GrantedWasActed
    BY DEF LinkInv, Types, Acks
  <1>2. UNCHANGED <<port, opened, conn, pending, reader, session, granted>>
        /\ acted \subseteq acted'
    BY DEF Controls, link, car
  <1>3. RequesterTypes'
    BY <1>1, PrintsOne DEF Controls
  <1>4. CASE up' = up
    BY <1>1, <1>2, <1>3, <1>4
    DEF LinkInv, Types, Acks, PortTypes, ReaderFits, AcksWereActed, OthersAsk,
        WaitFits, GrantedWasActed
  <1>5. CASE \E line \in RequestLines :
                /\ up' = Append(up, line)
                /\ line.cmd = "START_AUTH" => line.purpose # "none"
    <2>1. PICK line \in RequestLines :
                /\ up' = Append(up, line)
                /\ line.cmd = "START_AUTH" => line.purpose # "none"
      BY <1>5
    <2>2. /\ up' \in Seq(RequestLines) /\ DOMAIN up' = 1..(Len(up) + 1)
          /\ up'[Len(up) + 1] = line
          /\ \A i \in DOMAIN up' : i = Len(up) + 1 \/ (i \in DOMAIN up /\ up'[i] = up[i])
      BY <1>1, <2>1 DEF PortTypes
    <2>3. line.cmd = "AUTH_ACK" => line.id \in acted'
      <3>1. Len(up) + 1 > Len(up) /\ Len(up) + 1 \in DOMAIN up'
        BY <1>1, <2>2 DEF PortTypes
      <3>2. QED
        BY <2>2, <3>1 DEF Controls
    <2>4. AcksWereActed' /\ OthersAsk'
      BY <1>1, <1>2, <2>1, <2>2, <2>3 DEF AcksWereActed, OthersAsk
    <2>5. PortTypes' /\ ReaderFits' /\ WaitFits' /\ GrantedWasActed'
      BY <1>1, <1>2, <2>2 DEF PortTypes, ReaderFits, WaitFits, GrantedWasActed
    <2>6. QED
      BY <1>1, <1>2, <1>3, <2>4, <2>5 DEF LinkInv, Types, Acks
  <1>6. QED
    BY <1>1, <1>4, <1>5, PrintsOne DEF Controls

(* Somebody locks the car, the controller restarts, or a line is lost.     *)
LEMMA OtherSteps ==
    ASSUME LinkInv, ForceLock \/ LineLost \/ UNCHANGED vars
    PROVE  LinkInv'
  <1>1. PortTypes /\ pending \in Waits /\ ReaderFits
        /\ (session = NoScan \/ session \in Scans)
    BY DEF LinkInv, Types
  <1>2. UNCHANGED <<request, purpose, asked, granted, acted, reader>>
    BY DEF ForceLock, LineLost, vars, controller, car, ghost
  <1>3. Keeps /\ pending'.id = pending.id
    <2>1. CASE ForceLock
      BY <1>1, <2>1, DispatchKeeps DEF ForceLock
    <2>2. CASE LineLost \/ UNCHANGED vars
      BY <1>1, <2>2 DEF LineLost, vars, serial, link, Keeps, PortTypes
    <2>3. QED
      BY <2>1, <2>2
  <1>4. ScanKeeps
    BY <1>1, <1>3 DEF ForceLock, LineLost, vars, Outdate, ScanKeeps, Scans
  <1>5. ReaderFits'
    BY <1>1, <1>2 DEF ReaderFits
  <1>6. QED
    BY <1>2, <1>3, <1>4, <1>5, KeepsInvariant

LEMMA RebootStep ==
    ASSUME LinkInv, Reboot
    PROVE  LinkInv'
  <1>1. UNCHANGED <<port, opened, conn, pending, reader, session, granted, acted, up, asked>>
        /\ request' = NoId /\ purpose' = "UNLOCK"
    BY DEF Reboot, Restart, link, car
  <1>2. QED
    BY <1>1
    DEF LinkInv, Types, Acks, RequesterTypes, PortTypes, ReaderFits, AcksWereActed,
        OthersAsk, WaitFits, GrantedWasActed

-----------------------------------------------------------------------------
LEMMA InitLinks == Init => LinkInv
  <1> SUFFICES ASSUME Init PROVE LinkInv
    OBVIOUS
  <1>1. RequesterTypes /\ PortTypes /\ up = << >>
    BY DEF Init, RequesterInit, RequesterTypes, PortTypes
  <1>2. ReaderFits
    BY DEF Init, ReaderFits, Readers, Places
  <1>3. pending \in Waits /\ ~pending.accepted /\ session = NoScan /\ granted = {}
    BY DEF Init, NoWait, Waits
  <1>4. WaitFits /\ GrantedWasActed /\ AcksWereActed /\ OthersAsk
    BY <1>1, <1>3 DEF WaitFits, GrantedWasActed, AcksWereActed, OthersAsk, NoScan, Granting
  <1>5. QED
    BY <1>1, <1>2, <1>3, <1>4 DEF LinkInv, Types, Acks

LEMMA StepLinks == LinkInv /\ [Next]_vars => LinkInv'
  BY PortSteps, SyncSteps, ReadSteps, AnswerSteps, QuietWorkerSteps, AuthorizeSteps,
     JudgeStep, ControlsStep, OtherSteps, RebootStep
  DEF Next, ReaderStep, WorkerStep

(* The host grants only what the controller did, however many requests     *)
(* there are and whatever fails: no acknowledgement that is stale, foreign *)
(* or withdrawn is ever taken for one. *)
THEOREM GrantsWereActed == Spec => []GrantedWasActed
  <1>1. LinkInv => GrantedWasActed
    BY DEF LinkInv, Acks
  <1>2. QED
    BY <1>1, InitLinks, StepLinks, PTL DEF Spec

-----------------------------------------------------------------------------
(* Both ends of the line: what LinkInv leaves out of the types, and the    *)
(* numbers of the connections *)

ValuesFit ==
    /\ locked \in BOOLEAN /\ engine \in BOOLEAN
    /\ ignition \in BOOLEAN /\ recorded \in {"locked", "unlocked"}
    /\ dropped \in Ids \cup {NoId} /\ rebooted \in BOOLEAN

(* Ports are numbered, and each but the first costs a failure: the reader  *)
(* that is about to close one has paid for it (Paid).                      *)
Paid == reader.at = "close" \/ (reader.at = "failed" /\ reader.conn = port)

PortsFit ==
    /\ trouble \in 0..MaxTrouble
    /\ port \in {0, opened} /\ conn <= reader.conn /\ reader.conn <= opened
    /\ pending.conn <= opened
    /\ session # NoScan => session.conn \in 1..reader.conn
    /\ reader.at # "top" => reader.conn # 0
    /\ opened + (IF Paid THEN 1 ELSE 0) <= trouble + (IF port = 0 THEN 0 ELSE 1)

(* The thread that is past its adoption has the connection of the link,    *)
(* unless that was lost, and a connection it has not reset has no scan.    *)
ConnFits ==
    /\ reader.at = "top" => port = 0 \/ reader.conn # port
    /\ reader.at = "got" => conn # reader.conn
    /\ reader.at \notin {"top", "got"} => conn \in {0, reader.conn}
    /\ reader.at \notin {"top", "got", "close"} /\ reader.conn = port => conn = port
    /\ session # NoScan /\ reader.at \in {"got", "cancelAll", "reset"}
         => session.conn # reader.conn

(* A wait that has not been woken is for the link's connection, and a      *)
(* cancellation wakes the wait before it takes the lock.                   *)
WakeFits ==
    /\ session.step \in Granting /\ ~pending.done =>
         conn = session.conn /\ pending.conn = session.conn
    /\ reader.at \in {"cancel", "cancelling"} =>
         /\ reader.line \in RequestLines
         /\ conn = reader.conn => dropped = reader.line.id
         /\ Matches(session, reader.line.id) /\ session.step \in Granting => pending.done
    /\ reader.at = "cancelling" /\ session # NoScan => Matches(session, reader.line.id)
-----------------------------------------------------------------------------
(* Requests and their answers on the way *)

(* A request that has not been authorized yet *)
Fresh(id) == id \notin acted /\ \A i \in DOMAIN down : down[i] # Reply("AUTHORIZED", id)

(* Nothing more of request id is said from line n on. *)
Past(id, n) == request # id /\ \A j \in DOMAIN up : j >= n => up[j].id # id

(* Every id on the way was asked, and none is authorized twice. *)
AskedFits ==
    /\ request \in asked \cup {NoId} /\ request \notin acted /\ acted \subseteq asked
    /\ \A i \in DOMAIN up : up[i].id \in asked
    /\ \A i \in DOMAIN down : down[i].cmd = "AUTHORIZED" =>
         /\ down[i].id \in asked /\ down[i].id \notin acted
         /\ \A j \in DOMAIN down : down[j] = down[i] => j = i
    /\ reader.at = "trigger" => reader.line.id \in asked
    /\ session # NoScan => session.id \in asked

Asks(k) == up[k].cmd = "START_AUTH"

Unanswered(id, p) == Fresh(id) /\ (request = id => purpose = p)

(* The steps of the worker up to its AUTHORIZED. *)
Deciding == {"start", "scan", "authorize", "reply", "write"}

(* A question nobody has read comes after all that was said of the others. *)
QuestionsFit ==
    /\ \A k \in DOMAIN up : Asks(k) =>
         /\ Unanswered(up[k].id, up[k].purpose)
         /\ \A i \in DOMAIN up : i < k => Past(up[i].id, k)
         /\ reader.at = "trigger" => Past(reader.line.id, k)
         /\ session # NoScan => Past(session.id, k)
    /\ reader.at = "trigger" =>
         /\ Unanswered(reader.line.id, reader.line.purpose)
         /\ session # NoScan => Past(session.id, 1) /\ reader.line.id # session.id
    /\ session # NoScan =>
         /\ request = session.id => purpose = session.purpose
         /\ session.step \in Deciding => Fresh(session.id)

(* The host sends two commands, and answers. *)
HostSays == {"STOP", "LOCK"} \cup AuthReplies

DownFits == down \in Seq(HostLines) /\ \A i \in DOMAIN down : down[i].cmd \in HostSays

-----------------------------------------------------------------------------
(* Agreement *)

(* The link may write, and its connection has been reset. *)
Synced == port # 0 /\ conn = port /\ reader.at \notin {"cancelAll", "reset"}

Under(c) == \E i \in DOMAIN down : down[i].cmd = c
Follows(c, i) == \E j \in DOMAIN down : j > i /\ down[j].cmd = c

Own(i) == session.step = "wait" /\ down[i].id = session.id

(* A STOP is followed by its LOCK, and an AUTHORIZED by both of them,      *)
(* unless the worker waits for it or is about to send them.                *)
CommandsFit ==
    /\ \A i \in DOMAIN down : down[i].cmd = "STOP" => Follows("LOCK", i)
    /\ \A i \in DOMAIN down : down[i].cmd = "AUTHORIZED" =>
         \/ session.step = "undo"
         \/ Own(i) /\ ~Follows("STOP", i) /\ ~Follows("LOCK", i)
         \/ ~Own(i) /\ Follows("STOP", i)
    /\ Under("LOCK") => recorded = "locked" /\ ~ignition

(* The car will be what the host has recorded, once it has the commands,   *)
Agrees ==
    /\ ~Under("LOCK") => locked = (recorded = "locked")
    /\ ~Under("STOP") => engine = ignition

(* or is what it will record, once it has the acknowledgement. *)
Ahead ==
    /\ ~Under("LOCK") /\ ~Under("STOP") /\ ~locked
    /\ engine = (ignition \/ session.purpose = "IGNITION")

StateFits ==
    IF session.step = "wait" /\ session.id \in acted THEN Ahead
    ELSE session.step # "undo" => Agrees

(* An engine is about to be started only in a car recorded as open. *)
Nearing == {"authorize", "reply", "write", "wait"}
NearingFits == session.step \in Nearing /\ session.purpose = "IGNITION" => recorded = "unlocked"

Agreed == (Synced /\ ~rebooted => CommandsFit /\ StateFits) /\ NearingFits

SerialInv ==
    /\ LinkInv /\ ValuesFit /\ PortsFit /\ ConnFits /\ WakeFits
    /\ AskedFits /\ QuestionsFit /\ DownFits /\ Agreed
-----------------------------------------------------------------------------
(* What the steps of the host do to the port, the wait and the line *)

Stays == UNCHANGED <<port, opened, conn, trouble>>
Opens == /\ port = 0 /\ port' = opened + 1 /\ opened' = opened + 1
         /\ UNCHANGED <<conn, trouble>>
Loses == /\ port # 0 /\ trouble < MaxTrouble /\ trouble' = trouble + 1
         /\ conn' = IF conn = port THEN 0 ELSE conn
         /\ \/ port' = 0 /\ opened' = opened
            \/ port' = opened + 1 /\ opened' = opened + 1
PortMoves == Stays \/ Opens \/ Loses

WaitMoves == (conn' = conn /\ pending' = pending) \/ pending' = NoWait
                \/ (pending'.done /\ pending'.conn = pending.conn)
LinkMoves == WaitMoves /\ (dropped' = dropped \/ (conn' = 0 /\ dropped' = NoId))

(* Nothing is authorized that was not authorized before. *)
NothingNew ==
    \A i \in DOMAIN down' : down'[i].cmd = "AUTHORIZED" => i \in DOMAIN down /\ down'[i] = down[i]

UpMoves == up' = up \/ up' = << >> \/ (up # << >> /\ up' = Tail(up))

(* The line keeps its commands: at most an answer is added. *)
Mild == down' = down \/ \E line \in HostLines :
            line.cmd \in AuthReplies \ {"AUTHORIZED"} /\ down' = Append(down, line)

HostMoves == PortMoves /\ LinkMoves /\ NothingNew /\ UpMoves /\ DownFits'

(* A line that was cut has what was in it before, and some of the rest. *)
LEMMA CutLines ==
    ASSUME down \in Seq(HostLines), NEW lines \in Seq(HostLines), NEW more \in Seq(HostLines),
           CutAfter(lines, more)
    PROVE  /\ down' \in Seq(HostLines)
           /\ \A i \in DOMAIN down' : \/ i \in DOMAIN down /\ down'[i] = down[i]
                                      \/ \E j \in DOMAIN lines :
                                           i = Len(down) + j /\ down'[i] = lines[j]
                                      \/ \E j \in DOMAIN more : down'[i] = more[j]
  <1> DEFINE all == down \o lines
  <1>1. PICK n \in 0..Len(all) : down' = SubSeq(all, 1, n) \o more
    BY DEF CutAfter
  <1>2. /\ all \in Seq(HostLines) /\ Len(all) = Len(down) + Len(lines)
        /\ \A i \in 1..Len(all) : all[i] = IF i <= Len(down) THEN down[i]
                                           ELSE lines[i - Len(down)]
    OBVIOUS
  <1> HIDE DEF all
  <1> DEFINE part == SubSeq(all, 1, n)
  <1>3. /\ part \in Seq(HostLines) /\ Len(part) = n
        /\ \A i \in 1..n : part[i] = all[i]
    BY <1>2
  <1> HIDE DEF part
  <1>4. down' = part \o more
    BY <1>1 DEF part
  <1>5. /\ down' \in Seq(HostLines) /\ Len(down') = n + Len(more)
        /\ \A i \in 1..Len(down') : down'[i] = IF i <= n THEN part[i] ELSE more[i - n]
    BY <1>3, <1>4
  <1>6. ASSUME NEW i \in DOMAIN down'
        PROVE  \/ i \in DOMAIN down /\ down'[i] = down[i]
               \/ \E j \in DOMAIN lines : i = Len(down) + j /\ down'[i] = lines[j]
               \/ \E j \in DOMAIN more : down'[i] = more[j]
    <2>1. CASE i > n
      <3>1. i - n \in DOMAIN more /\ down'[i] = more[i - n]
        BY <1>5, <2>1
      <3>2. QED
        BY <3>1
    <2>2. CASE i <= Len(down) /\ i <= n
      BY <1>2, <1>3, <1>5, <2>2
    <2>3. CASE i > Len(down) /\ i <= n
      <3>1. /\ i - Len(down) \in DOMAIN lines /\ down'[i] = lines[i - Len(down)]
            /\ i = Len(down) + (i - Len(down))
        BY <1>2, <1>3, <1>5, <2>3
      <3>2. QED
        BY <3>1
    <2>4. QED
      BY <1>5, <2>1, <2>2, <2>3
  <1>7. QED
    BY <1>5, <1>6

(* What the host writes it may say, and only its grants authorize. *)
Harmless(lines) == lines \in Seq(HostLines) /\
    \A i \in DOMAIN lines : lines[i].cmd \in HostSays \ {"AUTHORIZED"}

LEMMA HarmlessLines ==
    /\ Harmless(<< >>) /\ Harmless(Secure)
    /\ Harmless(<<Raw("STOP")>>) /\ Harmless(<<Raw("LOCK")>>)
    /\ \A line \in HostLines : line.cmd \in AuthReplies \ {"AUTHORIZED"} => Harmless(<<line>>)
  <1>1. /\ Raw("STOP") \in HostLines /\ Raw("LOCK") \in HostLines
        /\ Raw("STOP").cmd = "STOP" /\ Raw("LOCK").cmd = "LOCK"
    BY DEF Raw, HostLines, RawCommands
  <1> DEFINE stop == Raw("STOP")
             lock == Raw("LOCK")
  <1> HIDE DEF stop, lock
  <1>2. stop \in HostLines /\ lock \in HostLines /\ stop.cmd = "STOP" /\ lock.cmd = "LOCK"
    BY <1>1 DEF stop, lock
  <1>3. {"STOP", "LOCK"} \subseteq HostSays \ {"AUTHORIZED"}
    BY DEF HostSays, AuthReplies, Refusals
  <1>4. Harmless(<<stop, lock>>) /\ Harmless(<<stop>>) /\ Harmless(<<lock>>) /\ Harmless(<< >>)
    BY <1>2, <1>3 DEF Harmless
  <1>5. \A line \in HostLines : line.cmd \in AuthReplies \ {"AUTHORIZED"} => Harmless(<<line>>)
    BY DEF Harmless, HostSays
  <1>6. QED
    BY <1>4, <1>5 DEF Secure, stop, lock

LEMMA SentMoves ==
    ASSUME DownFits, NEW lines, Harmless(lines), Sent(lines)
    PROVE  DownFits' /\ NothingNew
  <1>1. /\ down \in Seq(HostLines) /\ lines \in Seq(HostLines) /\ down' = down \o lines
        /\ \A i \in DOMAIN down : down[i].cmd \in HostSays
        /\ \A i \in DOMAIN lines : lines[i].cmd \in HostSays \ {"AUTHORIZED"}
    BY DEF DownFits, Harmless, Sent
  <1>2. /\ down' \in Seq(HostLines) /\ Len(down') = Len(down) + Len(lines)
        /\ \A i \in 1..Len(down') : down'[i] = IF i <= Len(down) THEN down[i]
                                               ELSE lines[i - Len(down)]
    BY <1>1
  <1>3. ASSUME NEW i \in DOMAIN down'
        PROVE  \/ i \in DOMAIN down /\ down'[i] = down[i]
               \/ down'[i].cmd \in HostSays \ {"AUTHORIZED"}
    <2>1. CASE i <= Len(down)
      BY <1>1, <1>2, <2>1
    <2>2. CASE i > Len(down)
      <3>1. i - Len(down) \in DOMAIN lines /\ down'[i] = lines[i - Len(down)]
        BY <1>1, <1>2, <2>2
      <3>2. QED
        BY <1>1, <3>1
    <2>3. QED
      BY <1>1, <1>2, <2>1, <2>2
  <1>4. QED
    BY <1>1, <1>2, <1>3 DEF DownFits, NothingNew

LEMMA CutMoves ==
    ASSUME DownFits, NEW lines, NEW more, Harmless(lines), Harmless(more), CutAfter(lines, more)
    PROVE  DownFits' /\ NothingNew
  <1>1. /\ down' \in Seq(HostLines)
        /\ \A i \in DOMAIN down' : \/ i \in DOMAIN down /\ down'[i] = down[i]
                                   \/ \E j \in DOMAIN lines :
                                        i = Len(down) + j /\ down'[i] = lines[j]
                                   \/ \E j \in DOMAIN more : down'[i] = more[j]
    BY CutLines DEF DownFits, Harmless
  <1>2. \A i \in DOMAIN down' : \/ i \in DOMAIN down /\ down'[i] = down[i]
                                \/ down'[i].cmd \in HostSays \ {"AUTHORIZED"}
    BY <1>1 DEF Harmless
  <1>3. QED
    BY <1>1, <1>2 DEF DownFits, NothingNew

LEMMA LinesStay ==
    ASSUME DownFits, down' = down
    PROVE  DownFits' /\ NothingNew /\ Mild
  BY DEF DownFits, NothingNew, Mild

(* The loss of a connection wakes the wait that it leaves behind. *)
LEMMA LosesWait ==
    ASSUME pending \in Waits, NEW c, ConnectionLost(c), pending' = LostWait(c, pending)
    PROVE  LinkMoves
  <1>1. CASE pending = NoWait \/ c # conn
    BY <1>1 DEF ConnectionLost, LostWait, LinkMoves, WaitMoves, NoWait
  <1>2. CASE pending # NoWait /\ c = conn
    <2>1. pending' = [pending EXCEPT !.accepted = FALSE, !.done = TRUE]
      BY <1>2 DEF LostWait
    <2>2. pending'.done /\ pending'.conn = pending.conn
      BY <2>1 DEF Waits
    <2>3. QED
      BY <1>2, <2>2 DEF ConnectionLost, LinkMoves, WaitMoves
  <1>3. QED
    BY <1>1, <1>2

(* A reply is written, refused, or lost with its port. *)
LEMMA ReplyMoves ==
    ASSUME LinkInv, PortsFit, DownFits, NEW line \in HostLines, NEW c \in Nat \ {0},
           NEW ok \in BOOLEAN, line.cmd \in AuthReplies \ {"AUTHORIZED"}, TryReply(line, c, ok)
    PROVE  /\ HostMoves /\ ((Stays /\ UNCHANGED link /\ Mild) \/ Loses)
           /\ c # conn \/ c # port => UNCHANGED <<serial, link, trouble>>
  <1>1. Harmless(<<line>>) /\ Harmless(<< >>)
    BY HarmlessLines
  <1>2. CASE UNCHANGED <<serial, link, trouble>>
    BY <1>2, LinesStay
    DEF serial, link, HostMoves, PortMoves, Stays, LinkMoves, WaitMoves, UpMoves
  <1>3. CASE c = conn /\ c = port /\ Sent(<<line>>) /\ UNCHANGED <<port, opened, up, link>>
    <2>1. DownFits' /\ NothingNew
      BY <1>1, <1>3, SentMoves
    <2>2. Mild
      BY <1>3 DEF Mild, Sent, DownFits
    <2>3. Stays
      BY <1>3 DEF Stays, Sent, link
    <2>4. QED
      BY <1>3, <2>1, <2>2, <2>3
      DEF HostMoves, PortMoves, LinkMoves, WaitMoves, UpMoves, link
  <1>4. CASE /\ c = conn /\ c = port /\ CutAfter(<<line>>, << >>) /\ ClosePort
             /\ ConnectionLost(port) /\ pending' = LostWait(port, pending)
    <2>1. DownFits' /\ NothingNew
      BY <1>1, <1>4, CutMoves
    <2>2. LinkMoves
      BY <1>4, LosesWait DEF LinkInv, Types
    <2>3. Loses
      BY <1>4 DEF Loses, ClosePort, CutAfter, ConnectionLost
    <2>4. QED
      BY <1>4, <2>1, <2>2, <2>3 DEF HostMoves, PortMoves, UpMoves, ClosePort
  <1>5. QED
    BY <1>2, <1>3, <1>4 DEF TryReply

(* A dispatch that succeeds leaves STOP and LOCK on the line; one that     *)
(* fails leaves no link that may write.                                    *)
LEMMA LockMoves ==
    ASSUME LinkInv, PortsFit, DownFits, NEW ok \in BOOLEAN,
           DispatchLock(ok), pending' = WaitAfterLock(ok)
    PROVE  /\ HostMoves
           /\ IF ok THEN /\ Stays \/ Opens
                         /\ down' = down \o Secure /\ recorded' = "locked" /\ rebooted' = FALSE
              ELSE ((port = 0 /\ Stays) \/ Opens \/ Loses) /\ UNCHANGED <<recorded, rebooted>>
  <1>1. Harmless(Secure) /\ Harmless(<< >>) /\ Harmless(<<Raw("STOP")>>)
        /\ Harmless(<<Raw("LOCK")>>)
    BY HarmlessLines
  <1>2. CASE /\ ok /\ Sent(Secure)
             /\ IF port = 0 THEN OpenPort ELSE UNCHANGED <<port, opened, up>>
             /\ recorded' = "locked" /\ rebooted' = FALSE
             /\ UNCHANGED <<conn, dropped>>
    <2>1. DownFits' /\ NothingNew
      BY <1>1, <1>2, SentMoves
    <2>2. Stays \/ Opens
      BY <1>2 DEF Stays, Opens, OpenPort, Sent
    <2>3. UpMoves
      BY <1>2 DEF UpMoves, OpenPort
    <2>4. LinkMoves
      BY <1>2 DEF LinkMoves, WaitMoves, WaitAfterLock
    <2>5. QED
      BY <1>2, <2>1, <2>2, <2>3, <2>4 DEF HostMoves, PortMoves, Sent
  <1>3. CASE /\ ~ok /\ port = 0
             /\ UNCHANGED <<serial, trouble>>
             /\ UNCHANGED <<conn, dropped, rebooted, recorded>>
    <2>1. LinkMoves
      BY <1>3 DEF LinkMoves, WaitMoves, WaitAfterLock
    <2>2. QED
      BY <1>3, <2>1, LinesStay DEF HostMoves, PortMoves, Stays, UpMoves, serial
  <1>4. CASE /\ ~ok /\ port = 0
             /\ OpenPort /\ Sent(<<Raw("LOCK")>>)
             /\ UNCHANGED <<conn, dropped, rebooted, recorded>>
    <2>1. DownFits' /\ NothingNew
      BY <1>1, <1>4, SentMoves
    <2>2. LinkMoves
      BY <1>4 DEF LinkMoves, WaitMoves, WaitAfterLock
    <2>3. QED
      BY <1>4, <2>1, <2>2 DEF HostMoves, PortMoves, Opens, OpenPort, UpMoves, Sent
  <1>5. CASE /\ ~ok /\ port # 0
             /\ ConnectionLost(port)
             /\ \/ ClosePort /\ CutAfter(Secure, << >>)
                \/ OpenPort /\ CutAfter(<<Raw("STOP")>>, <<Raw("LOCK")>>)
             /\ UNCHANGED <<rebooted, recorded>>
    <2>1. DownFits' /\ NothingNew
      BY <1>1, <1>5, CutMoves
    <2>2. LinkMoves
      BY <1>5, LosesWait DEF WaitAfterLock, LinkInv, Types
    <2>3. Loses /\ UpMoves
      BY <1>5 DEF Loses, ConnectionLost, ClosePort, OpenPort, CutAfter, UpMoves
    <2>4. QED
      BY <1>5, <2>1, <2>2, <2>3 DEF HostMoves, PortMoves
  <1>6. QED
    BY <1>2, <1>3, <1>4, <1>5 DEF DispatchLock

-----------------------------------------------------------------------------
(* The connections *)

Reading == {"read", "trigger", "pending", "cancel", "cancelling"}

(* The reader goes on, and fails only where its port is not open.          *)
PlaceMoves ==
    /\ reader'.conn = reader.conn
    /\ \/ reader'.at = reader.at
       \/ reader.at \in Reading /\ reader'.at \in Reading
       \/ reader.at = "cancelAll" /\ reader'.at = "reset"
       \/ reader.at = "reset" /\ reader'.at = "read"
       \/ reader.at = "reset" /\ reader'.at = "failed" /\ reader.conn # port'

(* A scan keeps its connection, and a new one has the reader's.            *)
ScanConn ==
    session' # NoScan => \/ session # NoScan /\ session'.conn = session.conn
                         \/ session'.conn = reader.conn /\ reader'.at = "pending"

LEMMA Numbers ==
    ASSUME LinkInv
    PROVE  /\ port \in Nat /\ opened \in Nat /\ conn \in Nat /\ pending.conn \in Nat
           /\ reader.conn \in Nat /\ reader.at \in Places
           /\ session # NoScan => session \in Scans /\ session.conn \in Nat
  BY DEF LinkInv, Types, PortTypes, ReaderFits, Readers, Waits, Scans

LEMMA PortsHold ==
    ASSUME LinkInv, LinkInv', PortsFit, ConnFits,
           PortMoves \/ (UNCHANGED <<port, opened, conn>> /\ trouble < MaxTrouble
                           /\ trouble' = trouble + 1),
           PlaceMoves, ScanConn,
           \/ pending'.conn \in {pending.conn, 0}
           \/ session # NoScan /\ pending'.conn = session.conn
    PROVE  PortsFit' /\ ConnFits'
  <1>1. /\ port \in Nat /\ opened \in Nat /\ conn \in Nat /\ pending.conn \in Nat
        /\ reader.conn \in Nat /\ (session # NoScan => session.conn \in Nat)
        /\ trouble \in Nat /\ MaxTrouble \in Nat
    BY Numbers, SerialLinkAssumption DEF PortsFit
  <1>2. Paid' => Paid
    BY <1>1 DEF Paid, PlaceMoves, Reading, PortMoves, Stays, Opens, Loses, PortsFit
  <1>3. /\ trouble' \in 0..MaxTrouble /\ port' \in {0, opened'}
        /\ opened' + (IF Paid THEN 1 ELSE 0) <= trouble' + (IF port' = 0 THEN 0 ELSE 1)
    BY <1>1 DEF PortsFit, PortMoves, Stays, Opens, Loses
  <1>4. /\ conn' <= reader'.conn /\ reader'.conn <= opened' /\ opened <= opened'
        /\ reader'.at # "top" => reader'.conn # 0
    BY <1>1 DEF PortsFit, PortMoves, Stays, Opens, Loses, PlaceMoves, Reading
  <1>5. /\ pending'.conn <= opened'
        /\ session' # NoScan => session'.conn \in 1..reader'.conn
    <2>1. opened' \in Nat
      BY DEF LinkInv, Types, PortTypes
    <2>2. pending'.conn <= opened'
      BY <1>1, <1>4, <2>1 DEF PortsFit
    <2>3. session' # NoScan => session'.conn \in 1..reader'.conn
      BY <1>1, <1>4 DEF PortsFit, PlaceMoves, ScanConn
    <2>4. QED
      BY <2>2, <2>3
  <1>6. PortsFit'
    <2>1. opened' + (IF Paid' THEN 1 ELSE 0) <= trouble' + (IF port' = 0 THEN 0 ELSE 1)
      BY <1>1, <1>2, <1>3 DEF PortMoves, Stays, Opens, Loses
    <2>2. QED
      BY <1>3, <1>4, <1>5, <2>1 DEF PortsFit
  <1>7. reader.conn = port' => port' = port \/ reader.conn = 0
    BY <1>1 DEF PortsFit, PortMoves, Stays, Opens, Loses
  <1>8. conn' = conn \/ (conn' = 0 /\ port' # port)
    BY <1>1 DEF PortsFit, PortMoves, Stays, Opens, Loses
  <1>9. ConnFits'
    BY <1>1, <1>4, <1>7, <1>8 DEF ConnFits, PortsFit, PlaceMoves, Reading, ScanConn
  <1>10. QED
    BY <1>6, <1>9

LEMMA GetHolds ==
    ASSUME LinkInv, PortsFit, ConnFits, GetConnection
    PROVE  PortsFit' /\ ConnFits'
  <1>1. /\ port \in Nat /\ opened \in Nat /\ conn \in Nat /\ pending.conn \in Nat
        /\ reader.conn \in Nat /\ (session # NoScan => session.conn \in Nat)
        /\ trouble \in Nat
    BY Numbers DEF PortsFit
  <1>2. /\ reader'.at = "got" /\ reader'.conn = port'
        /\ UNCHANGED <<conn, pending, session, trouble>>
        /\ reader.at = "top" \/ (reader.at = "read" /\ reader.conn # port)
        /\ \/ port = 0 /\ port' = opened + 1 /\ opened' = opened + 1
           \/ port # 0 /\ UNCHANGED <<port, opened>>
    BY DEF GetConnection, OpenPort, LinkInv, Types, ReaderFits, Readers, link, ghost
  <1>3. reader.conn < port' /\ ~Paid /\ ~Paid'
    BY <1>1, <1>2 DEF PortsFit, ConnFits, Paid
  <1>4. PortsFit'
    BY <1>1, <1>2, <1>3 DEF PortsFit
  <1>5. ConnFits'
    BY <1>1, <1>2, <1>3 DEF PortsFit, ConnFits
  <1>6. QED
    BY <1>4, <1>5

(* The other steps of the thread that leave the port open or close it.     *)
LEMMA LoopHolds ==
    ASSUME LinkInv, LinkInv', PortsFit, ConnFits,
           NoConnection \/ AdoptConnection \/ HandleFailure \/ CloseFailed \/ ReadFails
    PROVE  PortsFit' /\ ConnFits'
  <1>1. /\ port \in Nat /\ opened \in Nat /\ conn \in Nat /\ pending.conn \in Nat
        /\ reader.conn \in Nat /\ (session # NoScan => session.conn \in Nat)
        /\ trouble \in Nat /\ MaxTrouble \in Nat
    BY Numbers, SerialLinkAssumption DEF PortsFit
  <1>2. UNCHANGED session /\ reader'.conn = reader.conn /\ pending'.conn = pending.conn
    <2>1. \A c : LostWait(c, pending).conn = pending.conn
      BY DEF LostWait, Waits, LinkInv, Types
    <2>2. QED
      BY <2>1 DEF NoConnection, AdoptConnection, HandleFailure, CloseFailed, ReadFails,
                  Goto, link, LinkInv, Types, ReaderFits, Readers
  <1>3. CASE NoConnection
    <2>1. /\ reader'.at = "top" /\ port = 0 /\ reader.at \in {"top", "read"}
          /\ UNCHANGED <<port, opened, trouble>> /\ conn' = 0
      BY <1>3 DEF NoConnection, Goto, LinkInv, Types, ReaderFits, Readers, serial, ghost,
                  ConnectionLost
    <2>2. QED
      BY <1>1, <1>2, <2>1 DEF PortsFit, ConnFits, Paid
  <1>4. CASE AdoptConnection
    <2>1. /\ reader.at = "got" /\ UNCHANGED <<port, opened, trouble>>
          /\ \/ reader.conn = conn /\ reader'.at = "read" /\ conn' = conn
             \/ reader'.at = "cancelAll" /\ conn' = reader.conn
      BY <1>4 DEF AdoptConnection, Goto, LinkInv, Types, ReaderFits, Readers, serial, link, ghost
    <2>2. QED
      BY <1>1, <1>2, <2>1 DEF PortsFit, ConnFits, Paid
  <1>5. CASE HandleFailure
    <2>1. /\ reader.at = "failed" /\ UNCHANGED <<port, opened, trouble>>
          /\ reader'.at = IF reader.conn = port THEN "close" ELSE "top"
          /\ conn' = IF reader.conn = conn THEN 0 ELSE conn
      BY <1>5 DEF HandleFailure, Goto, LinkInv, Types, ReaderFits, Readers, serial, ghost,
                  ConnectionLost
    <2>2. QED
      BY <1>1, <1>2, <2>1 DEF PortsFit, ConnFits, Paid
  <1>6. CASE CloseFailed
    <2>1. /\ reader.at = "close" /\ UNCHANGED <<opened, trouble>> /\ port' = 0
          /\ reader'.at = "top" /\ conn' = IF port = conn THEN 0 ELSE conn
      BY <1>6 DEF CloseFailed, ClosePort, Goto, LinkInv, Types, ReaderFits, Readers, ghost,
                  ConnectionLost
    <2>2. QED
      BY <1>1, <1>2, <2>1 DEF PortsFit, ConnFits, Paid
  <1>7. CASE ReadFails
    <2>1. /\ reader.at = "read" /\ UNCHANGED <<port, opened, conn>> /\ reader'.at = "failed"
          /\ IF reader.conn = port THEN trouble < MaxTrouble /\ trouble' = trouble + 1
                                   ELSE UNCHANGED trouble
      BY <1>7 DEF ReadFails, Goto, LinkInv, Types, ReaderFits, Readers, serial, link
    <2>2. QED
      BY <1>1, <1>2, <2>1 DEF PortsFit, ConnFits, Paid
  <1>8. QED
    BY <1>3, <1>4, <1>5, <1>6, <1>7

-----------------------------------------------------------------------------
(* The requests *)

LEMMA UpShifts ==
    ASSUME LinkInv, UpMoves
    PROVE  /\ up' \in Seq(RequestLines)
           /\ \E s \in {0, 1} : \A k \in DOMAIN up' : k + s \in DOMAIN up /\ up'[k] = up[k + s]
  <1>1. up \in Seq(RequestLines)
    BY DEF LinkInv, Types, PortTypes
  <1>2. CASE up' = up \/ up' = << >>
    <2>1. \A k \in DOMAIN up' : k + 0 \in DOMAIN up /\ up'[k] = up[k + 0]
      BY <1>1, <1>2
    <2>2. << >> \in Seq(RequestLines)
      OBVIOUS
    <2>3. up' \in Seq(RequestLines)
      BY <1>1, <1>2, <2>2
    <2>4. QED
      BY <2>1, <2>3
  <1>3. CASE up # << >> /\ up' = Tail(up)
    <2>1. \A k \in DOMAIN up' : k + 1 \in DOMAIN up /\ up'[k] = up[k + 1]
      BY <1>1, <1>3
    <2>2. up' \in Seq(RequestLines)
      BY <1>1, <1>3, HeadTailProperties
    <2>3. QED
      BY <2>1, <2>2
  <1>4. QED
    BY <1>2, <1>3 DEF UpMoves

LEMMA FreshStays ==
    ASSUME NothingNew, UNCHANGED acted, NEW id, Fresh(id)
    PROVE  Fresh(id)'
  <1>1. Reply("AUTHORIZED", id).cmd = "AUTHORIZED"
    BY DEF Reply
  <1>2. ASSUME NEW i \in DOMAIN down', down'[i] = Reply("AUTHORIZED", id)
        PROVE  FALSE
    BY <1>1, <1>2 DEF NothingNew, Fresh
  <1>3. QED
    BY <1>2 DEF Fresh

(* A step that asks, reads and authorizes nothing *)
LEMMA AskedStays ==
    ASSUME LinkInv, AskedFits, UpMoves, NothingNew, UNCHANGED <<request, asked, acted>>,
           reader'.at = "trigger" => reader'.line.id \in asked,
           session' # NoScan => session'.id \in asked
    PROVE  AskedFits'
  <1>1. \A i \in DOMAIN up' : up'[i].id \in asked'
    BY UpShifts DEF AskedFits
  <1>2. ASSUME NEW i \in DOMAIN down', down'[i].cmd = "AUTHORIZED"
        PROVE  /\ down'[i].id \in asked' /\ down'[i].id \notin acted'
               /\ \A j \in DOMAIN down' : down'[j] = down'[i] => j = i
    BY <1>2 DEF AskedFits, NothingNew
  <1>3. QED
    BY <1>1, <1>2 DEF AskedFits

LEMMA QuestionsStay ==
    ASSUME LinkInv, QuestionsFit, UpMoves, NothingNew, UNCHANGED <<request, purpose, acted>>,
           reader'.at = "trigger" => reader.at = "trigger" /\ reader'.line = reader.line,
           session' # NoScan =>
             /\ session # NoScan /\ session'.id = session.id /\ session'.purpose = session.purpose
             /\ session'.step \in Deciding => session.step \in Deciding
    PROVE  QuestionsFit'
  <1>1. PICK s \in {0, 1} : \A k \in DOMAIN up' : k + s \in DOMAIN up /\ up'[k] = up[k + s]
    BY UpShifts
  <1>2. DOMAIN up \subseteq Nat \ {0} /\ DOMAIN up' \subseteq Nat \ {0}
    <2>1. up \in Seq(RequestLines)
      BY DEF LinkInv, Types, PortTypes
    <2>2. up' \in Seq(RequestLines)
      BY UpShifts
    <2>3. QED
      BY <2>1, <2>2
  <1>3. \A id : Fresh(id) => Fresh(id)'
    BY FreshStays
  <1>4. ASSUME NEW id, NEW n \in Nat, Past(id, n + s) \/ Past(id, n)
        PROVE  Past(id, n)'
    BY <1>1, <1>2, <1>4 DEF Past
  <1>5. \A id, p : Unanswered(id, p) => Unanswered(id, p)'
    BY <1>3 DEF Unanswered
  <1>6. ASSUME NEW k \in DOMAIN up', Asks(k)'
        PROVE  /\ Unanswered(up[k].id, up[k].purpose)'
               /\ \A i \in DOMAIN up' : i < k => Past(up[i].id, k)'
               /\ reader'.at = "trigger" => Past(reader.line.id, k)'
               /\ session' # NoScan => Past(session.id, k)'
    <2>1. k + s \in DOMAIN up /\ Asks(k + s) /\ up'[k] = up[k + s] /\ k \in Nat /\ k + s \in Nat
      BY <1>1, <1>2, <1>6 DEF Asks
    <2>2. /\ Unanswered(up[k + s].id, up[k + s].purpose)
          /\ \A i \in DOMAIN up : i < k + s => Past(up[i].id, k + s)
          /\ reader.at = "trigger" => Past(reader.line.id, k + s)
          /\ session # NoScan => Past(session.id, k + s)
      BY <2>1 DEF QuestionsFit
    <2>3. Unanswered(up[k].id, up[k].purpose)'
      BY <1>5, <2>1, <2>2 DEF Unanswered, Fresh
    <2>4. ASSUME NEW i \in DOMAIN up', i < k PROVE Past(up[i].id, k)'
      <3>1. i + s \in DOMAIN up /\ i + s < k + s /\ up'[i] = up[i + s]
        BY <1>1, <1>2, <2>1, <2>4
      <3>2. Past(up[i + s].id, k + s)
        BY <2>2, <3>1
      <3>3. QED
        BY <1>1, <1>2, <2>1, <3>1, <3>2 DEF Past
    <2>5. reader'.at = "trigger" => Past(reader.line.id, k)'
      BY <1>1, <1>2, <2>1, <2>2 DEF Past
    <2>6. session' # NoScan => Past(session.id, k)'
      BY <1>1, <1>2, <2>1, <2>2 DEF Past
    <2>7. QED
      BY <2>3, <2>4, <2>5, <2>6
  <1>7. reader'.at = "trigger" =>
          /\ Unanswered(reader.line.id, reader.line.purpose)'
          /\ session' # NoScan => Past(session.id, 1)' /\ reader'.line.id # session'.id
    BY <1>1, <1>2, <1>3 DEF QuestionsFit, Unanswered, Fresh, Past
  <1>8. session' # NoScan =>
          /\ request' = session'.id => purpose' = session'.purpose
          /\ session'.step \in Deciding => Fresh(session.id)'
    BY <1>3 DEF QuestionsFit, Fresh
  <1>9. QED
    BY <1>6, <1>7, <1>8 DEF QuestionsFit

-----------------------------------------------------------------------------
(* Waking the worker, and the agreement, in steps that answer at most *)

(* The scan ends or stays the one that it is; it comes no nearer to a grant. *)
SameScan ==
    session' # NoScan =>
        /\ session # NoScan /\ session'.id = session.id
        /\ session'.purpose = session.purpose /\ session'.conn = session.conn

LEMMA WakeStays ==
    ASSUME LinkInv, PortsFit, WakeFits, LinkMoves, conn' \in {conn, 0}, SameScan,
           session'.step \in Granting => session.step \in Granting /\ session' # NoScan,
           reader'.conn = reader.conn,
           reader'.at \in {"cancel", "cancelling"} =>
             /\ reader.at \in {"cancel", "cancelling"} /\ reader'.line = reader.line
             /\ reader'.at = "cancelling" => reader.at = "cancelling"
    PROVE  WakeFits'
  <1>1. conn' # conn => pending'.done
    BY DEF LinkMoves, WaitMoves, NoWait
  <1>2. pending'.done \/ pending' = pending
    BY DEF LinkMoves, WaitMoves, NoWait
  <1>3. session'.step \in Granting /\ ~pending'.done =>
          conn' = session'.conn /\ pending'.conn = session'.conn
    BY <1>1, <1>2 DEF WakeFits, SameScan
  <1>4. reader'.at \in {"cancel", "cancelling"} =>
          /\ reader'.line \in RequestLines
          /\ conn' = reader'.conn => dropped' = reader'.line.id
          /\ Matches(session, reader.line.id)' /\ session'.step \in Granting => pending'.done
    <2>1. ASSUME reader'.at \in {"cancel", "cancelling"}
          PROVE  /\ reader'.line \in RequestLines
                 /\ conn' = reader'.conn => dropped' = reader'.line.id
      BY <2>1 DEF WakeFits, LinkMoves, PortsFit
    <2>2. ASSUME reader'.at \in {"cancel", "cancelling"},
                 Matches(session, reader.line.id)', session'.step \in Granting
          PROVE  pending'.done
      <3>1. Matches(session, reader.line.id) /\ session.step \in Granting
        BY <2>2 DEF Matches, SameScan
      <3>2. pending.done
        BY <2>2, <3>1 DEF WakeFits
      <3>3. QED
        BY <1>2, <3>2
    <2>3. QED
      BY <2>1, <2>2
  <1>5. reader'.at = "cancelling" /\ session' # NoScan => Matches(session, reader.line.id)'
    BY DEF WakeFits, SameScan, Matches
  <1>6. QED
    BY <1>3, <1>4, <1>5 DEF WakeFits

LEMMA MildCommands ==
    ASSUME DownFits, Mild
    PROVE  /\ \A i \in DOMAIN down : i \in DOMAIN down' /\ down'[i] = down[i]
           /\ \A i \in DOMAIN down' : down'[i].cmd \in {"STOP", "LOCK", "AUTHORIZED"} =>
                i \in DOMAIN down
           /\ \A c \in {"STOP", "LOCK"} : Under(c)' <=> Under(c)
           /\ \A c \in {"STOP", "LOCK"} : \A i \in DOMAIN down : Follows(c, i)' <=> Follows(c, i)
  <1>1. /\ \A i \in DOMAIN down : i \in DOMAIN down' /\ down'[i] = down[i]
        /\ \A i \in DOMAIN down' : down'[i].cmd \in {"STOP", "LOCK", "AUTHORIZED"} =>
             i \in DOMAIN down
    <2>1. CASE down' = down
      BY <2>1
    <2>2. ASSUME NEW line \in HostLines, line.cmd \in AuthReplies \ {"AUTHORIZED"},
                 down' = Append(down, line)
          PROVE  /\ \A i \in DOMAIN down : i \in DOMAIN down' /\ down'[i] = down[i]
                 /\ \A i \in DOMAIN down' : down'[i].cmd \in {"STOP", "LOCK", "AUTHORIZED"} =>
                      i \in DOMAIN down
      <3>1. /\ DOMAIN down = 1..Len(down) /\ Len(down) \in Nat
            /\ DOMAIN down' = 1..(Len(down) + 1) /\ down'[Len(down) + 1] = line
            /\ \A i \in 1..Len(down) : down'[i] = down[i]
        BY <2>2 DEF DownFits
      <3>2. line.cmd \notin {"STOP", "LOCK", "AUTHORIZED"}
        BY <2>2 DEF AuthReplies, Refusals
      <3>3. QED
        BY <3>1, <3>2
    <2>3. QED
      BY <2>1, <2>2 DEF Mild
  <1>2. \A c \in {"STOP", "LOCK"} : Under(c)' <=> Under(c)
    BY <1>1 DEF Under
  <1>3. \A c \in {"STOP", "LOCK"} : \A i \in DOMAIN down : Follows(c, i)' <=> Follows(c, i)
    BY <1>1 DEF Follows
  <1>4. QED
    BY <1>1, <1>2, <1>3

(* Nobody is nearer to starting an engine in a car that was locked. *)
LEMMA NearingStays ==
    ASSUME Agreed, SameScan, session'.step \in Nearing => session.step \in Nearing
                                  /\ session' # NoScan /\ recorded' = recorded
    PROVE  NearingFits'
  BY DEF Agreed, NearingFits, SameScan

LEMMA AgreedUnsynced ==
    ASSUME Agreed, ~Synced', SameScan,
           session'.step \in Nearing => session.step \in Nearing
                                  /\ session' # NoScan /\ recorded' = recorded
    PROVE  Agreed'
  BY NearingStays DEF Agreed

LEMMA AgreedStays ==
    ASSUME Agreed, DownFits, Mild, Synced' => Synced,
           UNCHANGED <<locked, engine, recorded, ignition, acted, rebooted>>,
           \/ session'.step = "undo"
           \/ session.step # "undo" /\ (session'.step = "wait" => session' = session)
                /\ (session.step = "wait" => session'.step = "wait"),
           NearingFits'
    PROVE  Agreed'
  <1>1. ASSUME Synced', ~rebooted' PROVE CommandsFit' /\ StateFits'
    <2>1. CommandsFit /\ StateFits
      BY <1>1 DEF Agreed
    <2>2. /\ \A i \in DOMAIN down : i \in DOMAIN down' /\ down'[i] = down[i]
          /\ \A i \in DOMAIN down' : down'[i].cmd \in {"STOP", "LOCK", "AUTHORIZED"} =>
               i \in DOMAIN down
          /\ \A c \in {"STOP", "LOCK"} : Under(c)' <=> Under(c)
          /\ \A c \in {"STOP", "LOCK"} : \A i \in DOMAIN down : Follows(c, i)' <=> Follows(c, i)
      BY MildCommands
    <2>3. CASE session'.step = "undo"
      BY <2>1, <2>2, <2>3 DEF CommandsFit, StateFits
    <2>4. CASE session'.step # "undo"
      <3>1. session.step # "undo" /\ (session'.step = "wait" => session' = session)
              /\ (session.step = "wait" => session'.step = "wait")
        BY <2>4
      <3>2. \A i \in DOMAIN down : Own(i)' <=> Own(i)
        BY <2>2, <3>1 DEF Own
      <3>3. CommandsFit'
        BY <2>1, <2>2, <3>1, <3>2 DEF CommandsFit
      <3>4. Agrees => Agrees'
        BY <2>2 DEF Agrees
      <3>5. Ahead /\ session' = session => Ahead'
        BY <2>2 DEF Ahead
      <3>6. StateFits'
        BY <2>1, <3>1, <3>4, <3>5 DEF StateFits
      <3>7. QED
        BY <3>3, <3>6
    <2>5. QED
      BY <2>3, <2>4
  <1>2. QED
    BY <1>1 DEF Agreed

(* After a STOP and a LOCK the line secures the car whatever was before.   *)
Secured == \E n \in Nat : /\ DOMAIN down' = 1..(n + 2)
                         /\ down'[n + 1].cmd = "STOP" /\ down'[n + 2].cmd = "LOCK"

LEMMA SecureSent ==
    ASSUME DownFits, NEW lines \in Seq(HostLines), lines = Secure, down' = down \o lines
    PROVE  Secured
  <1>1. /\ Raw("STOP") \in HostLines /\ Raw("LOCK") \in HostLines
        /\ Raw("STOP").cmd = "STOP" /\ Raw("LOCK").cmd = "LOCK"
    BY DEF Raw, HostLines, RawCommands
  <1>2. Len(lines) = 2 /\ lines[1] = Raw("STOP") /\ lines[2] = Raw("LOCK")
    BY <1>1 DEF Secure
  <1>3. down \in Seq(HostLines)
    BY DEF DownFits
  <1>4. /\ down' \in Seq(HostLines) /\ Len(down') = Len(down) + Len(lines)
        /\ \A i \in 1..Len(down') : down'[i] = IF i <= Len(down) THEN down[i]
                                               ELSE lines[i - Len(down)]
    BY <1>3
  <1>5. PICK n \in Nat : n = Len(down)
    BY <1>3
  <1>6. /\ DOMAIN down' = 1..(n + 2) /\ down'[n + 1] = lines[1] /\ down'[n + 2] = lines[2]
    BY <1>2, <1>4, <1>5
  <1>7. QED
    BY <1>1, <1>2, <1>6 DEF Secured

LEMMA AgreedLocked ==
    ASSUME Secured, recorded' = "locked", ~ignition', session'.step \notin Nearing
    PROVE  Agreed'
  <1>1. PICK n \in Nat : /\ DOMAIN down' = 1..(n + 2)
                         /\ down'[n + 1].cmd = "STOP" /\ down'[n + 2].cmd = "LOCK"
    BY DEF Secured
  <1>2. n + 1 \in DOMAIN down' /\ n + 2 \in DOMAIN down'
    BY <1>1
  <1>3. ASSUME NEW i \in DOMAIN down', down'[i].cmd = "STOP" PROVE Follows("LOCK", i)'
    <2>1. n + 2 > i
      BY <1>1, <1>3
    <2>2. QED
      BY <1>1, <1>2, <2>1 DEF Follows
  <1>4. ASSUME NEW i \in DOMAIN down', down'[i].cmd = "AUTHORIZED" PROVE Follows("STOP", i)'
    <2>1. n + 1 > i
      BY <1>1, <1>4
    <2>2. QED
      BY <1>1, <1>2, <2>1 DEF Follows
  <1>5. ASSUME NEW i \in DOMAIN down' PROVE ~Own(i)'
    BY DEF Own, Nearing
  <1>6. CommandsFit'
    BY <1>3, <1>4, <1>5 DEF CommandsFit
  <1>7. Under("STOP")' /\ Under("LOCK")'
    BY <1>1, <1>2 DEF Under
  <1>8. StateFits'
    BY <1>7 DEF StateFits, Agrees, Nearing
  <1>9. QED
    BY <1>6, <1>8 DEF Agreed, NearingFits

-----------------------------------------------------------------------------
(* The steps of the host *)

LEMMA Parts ==
    ASSUME SerialInv
    PROVE  /\ LinkInv /\ ValuesFit /\ PortsFit /\ ConnFits /\ WakeFits /\ AskedFits
           /\ QuestionsFit /\ DownFits /\ Agreed
           /\ pending \in Waits /\ reader \in Readers /\ (session = NoScan \/ session \in Scans)
  BY DEF SerialInv, LinkInv, Types, ReaderFits

LEMMA Gone ==
    NoScan.step = "none" /\ NoScan.step \notin (Nearing \cup Deciding \cup Granting \cup LockSteps)
  BY DEF NoScan, Nearing, Deciding, Granting, LockSteps

LEMMA Places1 ==
    ASSUME reader \in Readers, NEW at \in Places,
           Goto(at) \/ (Loop /\ at = "read")
    PROVE  /\ reader'.at = at /\ reader'.conn = reader.conn
           /\ Goto(at) => reader'.line = reader.line
  BY DEF Goto, Loop, Readers

(* A step of the host that neither asks nor authorizes. *)
Quiet ==
    /\ UNCHANGED <<controller, acted>>
    /\ PortMoves /\ UpMoves /\ NothingNew /\ DownFits'
    /\ PlaceMoves /\ (reader'.at = "trigger" => reader' = reader)
    /\ SameScan /\ (session'.step \in Deciding => session.step \in Deciding)

LEMMA QuietSteps ==
    ASSUME SerialInv, LinkInv', Quiet, ValuesFit', WakeFits', Agreed',
           \/ pending'.conn \in {pending.conn, 0}
           \/ session # NoScan /\ pending'.conn = session.conn
    PROVE  SerialInv'
  <1>1. PortsFit' /\ ConnFits'
    <2>1. ScanConn
      BY DEF Quiet, SameScan, ScanConn
    <2>2. QED
      BY <2>1, Parts, PortsHold DEF Quiet
  <1>2. UNCHANGED <<request, purpose, asked, acted>>
    BY DEF Quiet, controller
  <1>3. AskedFits'
    <2>1. reader'.at = "trigger" => reader'.line.id \in asked
      BY Parts DEF Quiet, AskedFits
    <2>2. session' # NoScan => session'.id \in asked
      BY Parts DEF Quiet, SameScan, AskedFits
    <2>3. QED
      BY <1>2, <2>1, <2>2, Parts, AskedStays DEF Quiet
  <1>4. QuestionsFit'
    <2>1. reader'.at = "trigger" => reader.at = "trigger" /\ reader'.line = reader.line
      BY DEF Quiet
    <2>2. session' # NoScan =>
             /\ session # NoScan /\ session'.id = session.id /\ session'.purpose = session.purpose
             /\ session'.step \in Deciding => session.step \in Deciding
      BY DEF Quiet, SameScan
    <2>3. QED
      BY <1>2, <2>1, <2>2, Parts, QuestionsStay DEF Quiet
  <1>5. QED
    BY <1>1, <1>3, <1>4 DEF SerialInv, Quiet

(* An old connection's scan is cancelled. *)
LEMMA CancelAllSafe ==
    ASSUME SerialInv, LinkInv', CancelAll
    PROVE  SerialInv'
  <1>1. /\ reader.at = "cancelAll" /\ LockFree /\ reader'.at = "reset"
        /\ reader'.conn = reader.conn
        /\ UNCHANGED <<controller, serial, link, car, ghost>>
    BY Parts, Places1 DEF CancelAll, Places
  <1>2. /\ SameScan /\ session'.step = session.step
    BY Parts DEF CancelAll, SameScan, Scans, NoScan
  <1>3. session.step \notin LockSteps
    BY <1>1, Gone DEF LockFree
  <1>4. Stays /\ LinkMoves /\ UpMoves /\ NothingNew /\ DownFits'
    BY <1>1, Parts, LinesStay
    DEF serial, link, ghost, Stays, LinkMoves, WaitMoves, UpMoves
  <1>5. Quiet
    BY <1>1, <1>2, <1>4 DEF Quiet, PortMoves, PlaceMoves, ghost
  <1>6. ~Synced'
    BY <1>1 DEF Synced
  <1>7. Agreed'
    BY <1>1, <1>2, <1>3, <1>6, Parts, AgreedUnsynced DEF Nearing, LockSteps, car
  <1>8. WakeFits'
    BY <1>1, <1>2, <1>3, <1>4, Parts, WakeStays DEF Granting, LockSteps, link
  <1>9. ValuesFit' /\ pending' = pending
    BY <1>1, Parts DEF ValuesFit, controller, link, car, ghost
  <1>10. QED
    BY <1>5, <1>7, <1>8, <1>9, QuietSteps

LEMMA PortOrLost ==
    ASSUME LinkInv, PortsFit, Opens \/ Loses
    PROVE  ~Synced'
  BY Numbers DEF PortsFit, Opens, Loses, Synced

(* STOP and LOCK are dispatched, or there is no link that may write. *)
LEMMA DispatchSafe ==
    ASSUME SerialInv, LinkInv', NEW ok \in BOOLEAN,
           DispatchLock(ok), pending' = WaitAfterLock(ok), UNCHANGED <<controller, acted>>,
           SameScan, session'.step = session.step \/ session'.step = "refuse",
           session'.step \notin Nearing,
           ignition' \in BOOLEAN, ok => ~ignition', PlaceMoves,
           reader'.at \in {"trigger", "cancel", "cancelling"} => reader' = reader
    PROVE  SerialInv'
  <1>1. /\ HostMoves
        /\ IF ok THEN /\ Stays \/ Opens
                      /\ down' = down \o Secure /\ recorded' = "locked" /\ rebooted' = FALSE
           ELSE ((port = 0 /\ Stays) \/ Opens \/ Loses) /\ UNCHANGED <<recorded, rebooted>>
    BY Parts, LockMoves
  <1>2. Quiet
    BY <1>1 DEF Quiet, HostMoves, Deciding
  <1>3. Agreed'
    <2>1. CASE ok
      <3>1. Secure \in Seq(HostLines)
        BY HarmlessLines DEF Harmless
      <3>2. Secured
        BY <1>1, <2>1, <3>1, Parts, SecureSent
      <3>3. QED
        BY <1>1, <2>1, <3>2, AgreedLocked
    <2>2. CASE ~ok
      <3>1. ~Synced'
        <4>1. CASE port = 0 /\ Stays
          BY <4>1 DEF Synced, Stays
        <4>2. CASE Opens \/ Loses
          BY <4>2, Parts, PortOrLost
        <4>3. QED
          BY <1>1, <2>2, <4>1, <4>2
      <3>2. QED
        BY <3>1, Parts, AgreedUnsynced
    <2>3. QED
      BY <2>1, <2>2
  <1>4. WakeFits'
    <2>1. conn' \in {conn, 0}
      BY <1>1 DEF HostMoves, PortMoves, Stays, Opens, Loses
    <2>2. session'.step \notin Granting
      BY DEF Granting, Nearing
    <2>3. reader'.conn = reader.conn
      BY DEF PlaceMoves
    <2>4. QED
      BY <1>1, <2>1, <2>2, <2>3, Parts, WakeStays DEF HostMoves
  <1>5. ValuesFit'
    BY <1>1, Parts DEF ValuesFit, controller, HostMoves, LinkMoves
  <1>6. pending'.conn \in {pending.conn, 0}
    BY <1>1 DEF HostMoves, LinkMoves, WaitMoves, NoWait
  <1>7. QED
    BY <1>2, <1>3, <1>4, <1>5, <1>6, QuietSteps

LEMMA Outdated ==
    ASSUME session = NoScan \/ session \in Scans, session' = Outdate(session)
    PROVE  SameScan /\ session'.step = session.step
  BY DEF Outdate, SameScan, Scans, NoScan

LEMMA SyncResetSafe ==
    ASSUME SerialInv, LinkInv', SyncReset
    PROVE  SerialInv'
  <1>1. PICK ok \in BOOLEAN : /\ DispatchLock(ok) /\ pending' = WaitAfterLock(ok)
                              /\ Goto(IF ok THEN "read" ELSE "failed")
    BY DEF SyncReset
  <1>2. /\ reader.at = "reset" /\ LockFree /\ ignition' = FALSE
        /\ UNCHANGED <<controller, acted>>
        /\ SameScan /\ session'.step = session.step
    BY Parts, Outdated DEF SyncReset
  <1>3. session'.step \notin Nearing
    BY <1>2, Gone DEF LockFree, LockSteps, Nearing
  <1>4. reader'.at = (IF ok THEN "read" ELSE "failed") /\ reader'.conn = reader.conn
    BY <1>1, Parts, Places1 DEF Places
  <1>5. ~ok => reader.conn # port'
    <2>1. ~ok => (port = 0 /\ Stays) \/ Opens \/ Loses
      BY <1>1, Parts, LockMoves
    <2>2. reader.conn # 0 /\ reader.conn <= opened
      BY <1>2, Parts DEF PortsFit
    <2>3. QED
      BY <2>1, <2>2, Parts, Numbers DEF Stays, Opens, Loses
  <1>6. PlaceMoves
    BY <1>2, <1>4, <1>5 DEF PlaceMoves
  <1>7. QED
    BY <1>1, <1>2, <1>3, <1>4, <1>6, DispatchSafe

LEMMA ForceLockSafe ==
    ASSUME SerialInv, LinkInv', ForceLock
    PROVE  SerialInv'
  <1>1. PICK ok \in BOOLEAN : /\ DispatchLock(ok) /\ pending' = WaitAfterLock(ok)
                              /\ ignition' = (ignition /\ ~ok)
    BY DEF ForceLock
  <1>2. /\ LockFree /\ UNCHANGED <<controller, acted, reader>>
        /\ SameScan /\ session'.step = session.step
    BY Parts, Outdated DEF ForceLock
  <1>3. session'.step \notin Nearing
    BY <1>2, Gone DEF LockFree, LockSteps, Nearing
  <1>4. PlaceMoves
    BY <1>2 DEF PlaceMoves
  <1>5. ignition' \in BOOLEAN /\ (ok => ~ignition')
    BY <1>1, Parts DEF ValuesFit
  <1>6. QED
    BY <1>1, <1>2, <1>3, <1>4, <1>5, DispatchSafe

LEMMA UndoSafe ==
    ASSUME SerialInv, LinkInv', Undo
    PROVE  SerialInv'
  <1>1. PICK ok \in BOOLEAN : DispatchLock(ok) /\ pending' = WaitAfterLock(ok)
    BY DEF Undo
  <1>2. /\ session \in Scans /\ session' = [session EXCEPT !.step = "refuse"]
        /\ UNCHANGED <<controller, acted, reader>> /\ ignition' = FALSE
    BY Parts, Gone DEF Undo, At, Worker, LockSteps
  <1>3. SameScan /\ session'.step = "refuse"
    BY <1>2 DEF SameScan, Scans, NoScan
  <1>4. PlaceMoves /\ session'.step \notin Nearing
    BY <1>2, <1>3 DEF PlaceMoves, Nearing
  <1>5. QED
    BY <1>1, <1>2, <1>3, <1>4, DispatchSafe

(* A reply is written, refused or lost, and the scan stays or has its end. *)
LEMMA AnswerSafe ==
    ASSUME SerialInv, LinkInv', NEW line \in HostLines,
           line.cmd \in AuthReplies \ {"AUTHORIZED"}, NEW c \in Nat \ {0},
           (\E ok \in BOOLEAN : TryReply(line, c, ok)) \/ UNCHANGED <<serial, link, trouble>>,
           UNCHANGED <<controller, ignition, recorded, acted, rebooted>>,
           PlaceMoves, reader'.at \in {"trigger", "cancel", "cancelling"} => reader' = reader,
           reader.at \in {"cancelAll", "reset"} => reader'.at = reader.at,
           SameScan,
           \/ session' = session
           \/ session.step \in {"start", "scan", "refuse"} /\ session'.step \in {"none", "scan"}
                /\ (session'.step = "scan" => session.step = "start")
    PROVE  SerialInv'
  <1>1. HostMoves /\ ((Stays /\ UNCHANGED link /\ Mild) \/ Loses)
    <2>1. CASE UNCHANGED <<serial, link, trouble>>
      BY <2>1, Parts, LinesStay
      DEF serial, link, HostMoves, PortMoves, Stays, LinkMoves, WaitMoves, UpMoves
    <2>2. CASE \E ok \in BOOLEAN : TryReply(line, c, ok)
      BY <2>2, Parts, ReplyMoves
    <2>3. QED
      BY <2>1, <2>2
  <1>2. session'.step \in Deciding => session.step \in Deciding
    BY DEF Deciding
  <1>3. Quiet
    BY <1>1, <1>2 DEF Quiet, HostMoves
  <1>4. /\ session'.step \in Nearing => session' = session
        /\ session'.step \in Granting => session' = session
    BY DEF Nearing, Granting
  <1>5. session'.step \in Nearing => session' # NoScan
    BY Gone
  <1>6. Agreed'
    <2>1. CASE Loses
      BY <1>4, <1>5, <2>1, Parts, PortOrLost, AgreedUnsynced
    <2>2. CASE Stays /\ UNCHANGED link /\ Mild
      <3>1. Synced' => Synced
        BY <2>2 DEF Stays, Synced, PlaceMoves
      <3>2. \/ session'.step = "undo"
            \/ session.step # "undo" /\ (session'.step = "wait" => session' = session)
                 /\ (session.step = "wait" => session'.step = "wait")
        OBVIOUS
      <3>3. UNCHANGED <<locked, engine, recorded, ignition, acted, rebooted>>
        BY DEF controller
      <3>4. NearingFits'
        BY <1>4, <1>5, Parts, NearingStays
      <3>5. QED
        BY <2>2, <3>1, <3>2, <3>3, <3>4, Parts, AgreedStays
    <2>3. QED
      BY <1>1, <2>1, <2>2
  <1>7. WakeFits'
    <2>1. conn' \in {conn, 0} /\ LinkMoves
      BY <1>1 DEF HostMoves, PortMoves, Stays, Opens, Loses
    <2>2. session'.step \in Granting => session.step \in Granting /\ session' # NoScan
      BY <1>4, Gone
    <2>3. reader'.conn = reader.conn
      BY DEF PlaceMoves
    <2>4. QED
      BY <2>1, <2>2, <2>3, Parts, WakeStays
  <1>8. ValuesFit'
    BY <1>1, Parts DEF ValuesFit, controller, HostMoves, LinkMoves
  <1>9. pending'.conn \in {pending.conn, 0}
    BY <1>1 DEF HostMoves, LinkMoves, WaitMoves, NoWait
  <1>10. QED
    BY <1>3, <1>6, <1>7, <1>8, <1>9, QuietSteps

LEMMA Replies ==
    ASSUME NEW c \in AuthReplies, NEW id \in Ids
    PROVE  Reply(c, id) \in HostLines /\ Reply(c, id).cmd = c
  BY DEF Reply, HostLines

LEMMA ReaderAnswersSafe ==
    ASSUME SerialInv, LinkInv', CancelScan \/ RefuseTrigger
    PROVE  SerialInv'
  <1>1. /\ reader.at \in {"cancelling", "trigger"} /\ Loop
        /\ UNCHANGED <<controller, ignition, recorded, acted, rebooted, session>>
        /\ \/ \E ok \in BOOLEAN : TryReply(Reply("DENIED", reader.line.id), reader.conn, ok)
           \/ UNCHANGED <<serial, link, trouble>>
    BY DEF CancelScan, RefuseTrigger, car
  <1>2. reader.line.id \in Ids
    <2>1. reader.line \in RequestLines
      BY <1>1, Parts DEF WakeFits, LinkInv, Types, ReaderFits
    <2>2. QED
      BY <2>1 DEF RequestLines
  <1>3. reader'.at = "read" /\ reader'.conn = reader.conn
    BY <1>1, Parts, Places1 DEF Places
  <1>4. PlaceMoves
    <2>1. CASE reader.at = "trigger"
      BY <1>3, <2>1 DEF PlaceMoves, Reading
    <2>2. CASE reader.at = "cancelling"
      BY <1>3, <2>2 DEF PlaceMoves, Reading
    <2>3. QED
      BY <1>1, <2>1, <2>2
  <1>5. reader.conn \in Nat \ {0}
    BY <1>1, Parts, Numbers DEF PortsFit
  <1>6. SameScan
    BY <1>1 DEF SameScan
  <1>7. "DENIED" \in AuthReplies \ {"AUTHORIZED"}
    BY DEF AuthReplies, Refusals
  <1>8. QED
    BY <1>1, <1>2, <1>3, <1>4, <1>5, <1>6, <1>7, Replies, AnswerSafe

LEMMA AnswerPendingSafe ==
    ASSUME SerialInv, LinkInv', AnswerPending
    PROVE  SerialInv'
  <1>1. /\ reader.at = "pending" /\ session.step = "start" /\ Loop
        /\ UNCHANGED <<controller, ignition, recorded, acted, rebooted>>
        /\ session' = NoScan \/ session' = [session EXCEPT !.step = "scan"]
        /\ \E ok \in BOOLEAN : TryReply(Reply("AUTH_PENDING", session.id), session.conn, ok)
    BY DEF AnswerPending, car
  <1>2. session \in Scans /\ session.id \in Ids
    BY <1>1, Parts, Gone DEF Scans
  <1>3. reader'.at = "read" /\ reader'.conn = reader.conn
    BY <1>1, Parts, Places1 DEF Places
  <1>4. PlaceMoves
    BY <1>1, <1>3 DEF PlaceMoves, Reading
  <1>5. session.conn \in Nat \ {0}
    BY <1>1, Parts, Numbers, Gone DEF PortsFit
  <1>6. SameScan /\ session'.step \in {"none", "scan"}
    BY <1>1, <1>2, Gone DEF SameScan, Scans, NoScan
  <1>7. "AUTH_PENDING" \in AuthReplies \ {"AUTHORIZED"}
    BY DEF AuthReplies, Refusals
  <1>8. QED
    BY <1>1, <1>2, <1>3, <1>4, <1>5, <1>6, <1>7, Replies, AnswerSafe

LEMMA EndScanSafe ==
    ASSUME SerialInv, LinkInv', EndScan
    PROVE  SerialInv'
  <1>1. /\ session.step \in {"scan", "refuse"} /\ session' = NoScan
        /\ UNCHANGED <<controller, ignition, recorded, acted, rebooted, reader>>
        /\ \/ \E ok \in BOOLEAN : TryReply(Reply("DENIED", session.id), session.conn, ok)
           \/ UNCHANGED <<serial, link, trouble>>
    BY DEF EndScan, At, car
  <1>2. session \in Scans /\ session.id \in Ids
    BY <1>1, Parts, Gone DEF Scans, LockSteps, Deciding
  <1>3. session.conn \in Nat \ {0}
    BY <1>1, Parts, Numbers, Gone DEF PortsFit, LockSteps, Deciding
  <1>4. PlaceMoves /\ SameScan /\ session'.step = "none"
    BY <1>1, Gone DEF PlaceMoves, SameScan
  <1>5. "DENIED" \in AuthReplies \ {"AUTHORIZED"}
    BY DEF AuthReplies, Refusals
  <1>6. QED
    BY <1>1, <1>2, <1>3, <1>4, <1>5, Replies, AnswerSafe

(* What the controller printed to a closed port is lost. *)
LEMMA LineLostSafe ==
    ASSUME SerialInv, LinkInv', LineLost
    PROVE  SerialInv'
  <1>1. /\ UNCHANGED <<controller, port, opened, down, link, reader, session, car, ghost>>
        /\ up # << >> /\ up' = Tail(up) /\ port = 0
    BY DEF LineLost
  <1>2. Stays /\ LinkMoves /\ UpMoves /\ NothingNew /\ DownFits'
    BY <1>1, Parts, LinesStay DEF link, ghost, Stays, LinkMoves, WaitMoves, UpMoves
  <1>3. SameScan /\ PlaceMoves
    BY <1>1 DEF SameScan, PlaceMoves
  <1>4. Quiet
    BY <1>1, <1>2, <1>3 DEF Quiet, PortMoves, ghost
  <1>5. ~Synced'
    BY <1>1 DEF Synced
  <1>6. Agreed'
    BY <1>1, <1>3, <1>5, Parts, Gone, AgreedUnsynced DEF car
  <1>7. WakeFits'
    BY <1>1, <1>2, <1>3, Parts, Gone, WakeStays DEF link
  <1>8. ValuesFit' /\ pending' = pending
    BY <1>1, Parts DEF ValuesFit, controller, link, car, ghost
  <1>9. QED
    BY <1>4, <1>6, <1>7, <1>8, QuietSteps

-----------------------------------------------------------------------------
(* The steps of the worker *)

LEMMA Steps1 ==
    ASSUME session \in Scans, NEW step \in {"start", "scan"} \cup LockSteps, Worker(step)
    PROVE  session' \in Scans /\ session'.step = step /\ SameScan
  BY DEF Worker, Scans, SameScan, NoScan

(* Nothing was written: only the worker, its wait or the record moved. *)
LEMMA UnwrittenSafe ==
    ASSUME SerialInv, LinkInv', UNCHANGED <<controller, serial, conn, dropped, reader, ghost>>,
           SameScan, session'.step \in Deciding => session.step \in Deciding,
           ValuesFit', WakeFits', Agreed',
           \/ pending'.conn \in {pending.conn, 0}
           \/ session # NoScan /\ pending'.conn = session.conn
    PROVE  SerialInv'
  <1>1. Stays /\ UpMoves /\ NothingNew /\ DownFits'
    BY Parts, LinesStay DEF serial, ghost, Stays, UpMoves
  <1>2. PlaceMoves
    BY DEF PlaceMoves
  <1>3. Quiet
    BY <1>1, <1>2 DEF Quiet, PortMoves, ghost
  <1>4. QED
    BY <1>3, QuietSteps

(* What was agreed stands while the worker decides, or turns to its undo.  *)
LEMMA AgreedDecides ==
    ASSUME SerialInv, UNCHANGED <<controller, serial, conn, dropped, reader, ghost>>,
           UNCHANGED <<ignition, recorded>>,
           session.step # "undo", session.step # "wait" \/ session'.step = "undo",
           session'.step # "wait", NearingFits'
    PROVE  Agreed'
  <1>1. UNCHANGED <<locked, engine, recorded, ignition, acted, rebooted>> /\ Mild
    BY DEF controller, serial, ghost, Mild
  <1>2. Synced' => Synced
    BY DEF Synced, serial
  <1>3. QED
    BY <1>1, <1>2, Parts, AgreedStays

LEMMA RecognisedSafe ==
    ASSUME SerialInv, LinkInv', Recognised
    PROVE  SerialInv'
  <1>1. /\ session \in Scans /\ session.step = "scan"
        /\ UNCHANGED <<controller, serial, link, reader, car, ghost>>
    BY Parts, Gone DEF Recognised, At, Deciding
  <1>2. PICK step \in {"authorize", "refuse"} :
          /\ Worker(step)
          /\ step = "authorize" /\ session.purpose = "IGNITION" => recorded = "unlocked"
    BY DEF Recognised
  <1>3. session' \in Scans /\ session'.step = step /\ SameScan
    BY <1>1, <1>2, Steps1 DEF LockSteps
  <1>4. NearingFits'
    BY <1>1, <1>2, <1>3 DEF NearingFits, Nearing, SameScan, Scans, NoScan, car
  <1>5. Agreed'
    BY <1>1, <1>2, <1>3, <1>4, AgreedDecides DEF link, car
  <1>6. WakeFits'
    <2>1. session'.step \notin Granting
      BY <1>3 DEF Granting
    <2>2. LinkMoves /\ conn' \in {conn, 0}
      BY <1>1 DEF LinkMoves, WaitMoves, link
    <2>3. QED
      BY <1>1, <1>3, <2>1, <2>2, Parts, WakeStays
  <1>7. ValuesFit' /\ pending' = pending
    BY <1>1, Parts DEF ValuesFit, controller, link, car, ghost
  <1>8. session.step \in Deciding
    BY <1>1 DEF Deciding
  <1>9. QED
    BY <1>1, <1>3, <1>5, <1>6, <1>7, <1>8, UnwrittenSafe DEF link

LEMMA AuthorizeSafe ==
    ASSUME SerialInv, LinkInv', Authorize
    PROVE  SerialInv'
  <1>1. /\ session \in Scans /\ session.step = "authorize"
        /\ UNCHANGED <<controller, serial, conn, dropped, reader, car, ghost>>
    BY Parts, Gone DEF Authorize, At, LockSteps
  <1>2. PICK step \in {"refuse", "reply", "undo"} :
          /\ Worker(step)
          /\ step # "reply" => pending' = pending
          /\ step = "reply" => /\ session.conn = conn /\ dropped # session.id
                               /\ pending' = [accepted |-> FALSE, done |-> FALSE,
                                              id |-> session.id, conn |-> session.conn]
    BY DEF Authorize
  <1>3. session' \in Scans /\ session'.step = step /\ SameScan
    BY <1>1, <1>2, Steps1 DEF LockSteps
  <1>4. NearingFits'
    <2>1. session'.purpose = session.purpose
      BY <1>3 DEF SameScan, Scans, NoScan
    <2>2. QED
      BY <1>1, <2>1, Parts DEF Agreed, NearingFits, Nearing, car
  <1>5. Agreed'
    BY <1>1, <1>2, <1>3, <1>4, AgreedDecides DEF car
  <1>6. WakeFits'
    <2>1. CASE step # "reply"
      <3>1. session'.step \notin Granting
        BY <1>3, <2>1 DEF Granting
      <3>2. LinkMoves /\ conn' \in {conn, 0}
        BY <1>1, <1>2, <2>1 DEF LinkMoves, WaitMoves
      <3>3. QED
        BY <1>1, <1>3, <3>1, <3>2, Parts, WakeStays
    <2>2. CASE step = "reply"
      <3>1. /\ conn' = conn /\ dropped' = dropped /\ reader' = reader
            /\ session'.conn = session.conn /\ session'.id = session.id
            /\ pending'.conn = session.conn /\ session.conn = conn /\ dropped # session.id
        BY <1>1, <1>2, <1>3, <2>2 DEF SameScan, Scans, NoScan
      <3>2. reader'.at \in {"cancel", "cancelling"} => ~Matches(session, reader.line.id)'
        BY <3>1, Parts DEF WakeFits, Matches
      <3>3. reader'.at = "cancelling" => session = NoScan
        BY <3>1, <3>2, Parts DEF WakeFits, Matches
      <3>4. session # NoScan
        BY <1>1, Gone DEF LockSteps
      <3>5. QED
        BY <3>1, <3>2, <3>3, <3>4, Parts DEF WakeFits
    <2>3. QED
      BY <2>1, <2>2
  <1>7. ValuesFit'
    BY <1>1, Parts DEF ValuesFit, controller, car, ghost
  <1>8. session.step \in Deciding /\ session # NoScan
    BY <1>1, Gone DEF Deciding
  <1>9. pending' = pending \/ pending'.conn = session.conn
    BY <1>2
  <1>10. QED
    BY <1>1, <1>3, <1>5, <1>6, <1>7, <1>8, <1>9, UnwrittenSafe

(* The wait is given up, or the worker goes on to its write. *)
LEMMA CheckReplySafe ==
    ASSUME SerialInv, LinkInv', CheckReply
    PROVE  SerialInv'
  <1>1. /\ session \in Scans /\ session.step = "reply"
        /\ UNCHANGED <<controller, serial, conn, dropped, reader, car, ghost>>
    BY Parts, Gone DEF CheckReply, At, LockSteps
  <1>2. PICK step \in {"write", "undo"} :
          Worker(step) /\ pending' = (IF step = "write" THEN pending ELSE NoWait)
    BY DEF CheckReply
  <1>3. session' \in Scans /\ session'.step = step /\ SameScan
    BY <1>1, <1>2, Steps1 DEF LockSteps
  <1>4. session' # NoScan /\ session'.purpose = session.purpose
    BY <1>3 DEF SameScan, Scans, NoScan
  <1>5. NearingFits'
    BY <1>1, <1>4, Parts DEF Agreed, NearingFits, Nearing, car
  <1>6. Agreed'
    BY <1>1, <1>2, <1>3, <1>5, AgreedDecides DEF car
  <1>7. WakeFits'
    <2>1. session.step \in Granting
      BY <1>1 DEF Granting
    <2>2. LinkMoves /\ conn' \in {conn, 0}
      BY <1>1, <1>2 DEF LinkMoves, WaitMoves
    <2>3. QED
      BY <1>1, <1>3, <1>4, <2>1, <2>2, Parts, WakeStays
  <1>8. ValuesFit' /\ pending'.conn \in {pending.conn, 0}
    BY <1>1, <1>2, Parts DEF ValuesFit, controller, car, ghost, NoWait
  <1>9. session.step \in Deciding
    BY <1>1 DEF Deciding
  <1>10. QED
    BY <1>1, <1>3, <1>6, <1>7, <1>8, <1>9, UnwrittenSafe

(* The grant of the worker's request is added to the line, if anything is. *)
GrantAdded ==
    /\ down' \in Seq(HostLines)
    /\ \A i \in DOMAIN down' : \/ i \in DOMAIN down /\ down'[i] = down[i]
                               \/ i = Len(down) + 1 /\ down'[i] = Reply("AUTHORIZED", session.id)

LEMMA GrantLine ==
    ASSUME LinkInv, DownFits, session \in Scans,
           \/ Sent(<<Reply("AUTHORIZED", session.id)>>)
           \/ CutAfter(<<Reply("AUTHORIZED", session.id)>>, << >>)
    PROVE  GrantAdded
  <1> DEFINE line == Reply("AUTHORIZED", session.id)
  <1>1. line \in HostLines
    <2>1. session.id \in Ids /\ "AUTHORIZED" \in AuthReplies
      BY DEF Scans, AuthReplies
    <2>2. QED
      BY <2>1, Replies
  <1> HIDE DEF line
  <1>2. down \in Seq(HostLines)
    BY DEF DownFits
  <1>3. <<line>> \in Seq(HostLines) /\ << >> \in Seq(HostLines)
    BY <1>1
  <1>4. CASE Sent(<<line>>)
    <2>1. down' = Append(down, line)
      BY <1>1, <1>2, <1>4 DEF Sent
    <2>2. /\ down' \in Seq(HostLines) /\ Len(down') = Len(down) + 1 /\ Len(down) \in Nat
          /\ down'[Len(down) + 1] = line /\ \A i \in 1..Len(down) : down'[i] = down[i]
      BY <1>1, <1>2, <2>1
    <2>3. QED
      BY <1>2, <2>2 DEF GrantAdded, line
  <1>5. CASE CutAfter(<<line>>, << >>)
    <2>1. /\ down' \in Seq(HostLines)
          /\ \A i \in DOMAIN down' : \/ i \in DOMAIN down /\ down'[i] = down[i]
                                     \/ \E j \in DOMAIN <<line>> :
                                          i = Len(down) + j /\ down'[i] = <<line>>[j]
                                     \/ \E j \in DOMAIN << >> : down'[i] = << >>[j]
      BY <1>2, <1>3, <1>5, CutLines
    <2>2. \A i \in DOMAIN down' : \/ i \in DOMAIN down /\ down'[i] = down[i]
                                  \/ i = Len(down) + 1 /\ down'[i] = line
      BY <2>1
    <2>3. QED
      BY <2>1, <2>2 DEF GrantAdded, line
  <1>6. QED
    BY <1>4, <1>5 DEF line

(* The request that is granted was not, and no other is concerned. *)
LEMMA GrantAsked ==
    ASSUME SerialInv, session \in Scans, session.step = "write", GrantAdded,
           UNCHANGED <<controller, up, acted, reader>>, SameScan, session'.step \notin Deciding
    PROVE  DownFits' /\ AskedFits' /\ QuestionsFit'
  <1> DEFINE line == Reply("AUTHORIZED", session.id)
  <1>1. /\ line.cmd = "AUTHORIZED" /\ line.id = session.id /\ "AUTHORIZED" \in HostSays
        /\ \A id : Reply("AUTHORIZED", id).id = id /\ Reply("AUTHORIZED", id).cmd = "AUTHORIZED"
    BY DEF Reply, HostSays, AuthReplies
  <1> HIDE DEF line
  <1>2. /\ session # NoScan /\ session.step \in Deciding
        /\ UNCHANGED <<request, purpose, asked>>
    BY Gone DEF Deciding, LockSteps, controller
  <1>3. Fresh(session.id) /\ session.id \in asked
    BY <1>2, Parts DEF QuestionsFit, AskedFits
  <1>4. \A i \in DOMAIN down : i # Len(down) + 1
    BY Parts DEF DownFits
  <1>5. \A i \in DOMAIN down' : \/ i \in DOMAIN down /\ down'[i] = down[i]
                                \/ i = Len(down) + 1 /\ down'[i] = line
    BY DEF GrantAdded, line
  <1>6. DownFits'
    BY <1>1, <1>5, Parts DEF DownFits, GrantAdded
  <1>7. ASSUME NEW i \in DOMAIN down', down'[i].cmd = "AUTHORIZED"
        PROVE  /\ down'[i].id \in asked /\ down'[i].id \notin acted
               /\ \A j \in DOMAIN down' : down'[j] = down'[i] => j = i
    <2>1. CASE i \in DOMAIN down /\ down'[i] = down[i]
      <3>1. /\ down[i].id \in asked /\ down[i].id \notin acted
            /\ \A j \in DOMAIN down : down[j] = down[i] => j = i
        BY <1>7, <2>1, Parts DEF AskedFits
      <3>2. down[i] # line
        BY <1>3, <2>1 DEF Fresh, line
      <3>3. QED
        BY <1>5, <2>1, <3>1, <3>2
    <2>2. CASE i = Len(down) + 1 /\ down'[i] = line
      <3>1. \A j \in DOMAIN down : down[j] # line
        BY <1>3 DEF Fresh, line
      <3>2. session.id \notin acted
        BY <1>3 DEF Fresh
      <3>3. QED
        BY <1>1, <1>3, <1>5, <2>2, <3>1, <3>2
    <2>3. QED
      BY <1>5, <2>1, <2>2
  <1>8. AskedFits'
    BY <1>2, <1>7, Parts DEF AskedFits, SameScan
  <1>9. ASSUME NEW id, id # session.id, Fresh(id) PROVE Fresh(id)'
    <2>1. Reply("AUTHORIZED", id) # line
      BY <1>1, <1>9
    <2>2. QED
      BY <1>5, <1>9, <2>1 DEF Fresh
  <1>10. \A id, n : Past(id, n) => Past(id, n)'
    BY <1>2 DEF Past
  <1>11. ASSUME NEW k \in DOMAIN up, Asks(k)
         PROVE  /\ Fresh(up[k].id)' /\ (request' = up[k].id => purpose' = up[k].purpose)
                /\ \A i \in DOMAIN up : i < k => Past(up[i].id, k)'
                /\ reader.at = "trigger" => Past(reader.line.id, k)'
                /\ session' # NoScan => Past(session.id, k)'
    <2>1. /\ Unanswered(up[k].id, up[k].purpose) /\ Past(session.id, k)
          /\ \A i \in DOMAIN up : i < k => Past(up[i].id, k)
          /\ reader.at = "trigger" => Past(reader.line.id, k)
      BY <1>2, <1>11, Parts DEF QuestionsFit
    <2>2. k \in Nat
      BY Parts DEF LinkInv, Types, PortTypes
    <2>3. up[k].id # session.id
      BY <2>1, <2>2 DEF Past
    <2>4. session' # NoScan => Past(session.id, k)'
      BY <1>10, <2>1 DEF SameScan
    <2>5. QED
      BY <1>2, <1>9, <1>10, <2>1, <2>3, <2>4 DEF Unanswered
  <1>12. reader.at = "trigger" =>
           /\ Fresh(reader.line.id)'
           /\ request' = reader.line.id => purpose' = reader.line.purpose
           /\ session' # NoScan => Past(session.id, 1)' /\ reader.line.id # session'.id
    <2>1. reader.at = "trigger" =>
            /\ Unanswered(reader.line.id, reader.line.purpose)
            /\ Past(session.id, 1) /\ reader.line.id # session.id
      BY <1>2, Parts DEF QuestionsFit
    <2>2. QED
      BY <1>2, <1>9, <1>10, <2>1 DEF SameScan, Unanswered
  <1>13. session' # NoScan => (request' = session'.id => purpose' = session'.purpose)
    BY <1>2, Parts DEF QuestionsFit, SameScan
  <1>14. QuestionsFit'
    BY <1>11, <1>12, <1>13 DEF QuestionsFit, Unanswered, Asks, Fresh, Past
  <1>15. QED
    BY <1>6, <1>8, <1>14

(* The grant on its way is the worker's own, and nothing follows it. *)
LEMMA GrantAgreed ==
    ASSUME SerialInv, session \in Scans, session.step = "write",
           Sent(<<Reply("AUTHORIZED", session.id)>>),
           UNCHANGED <<controller, port, conn, reader, ignition, recorded, acted, rebooted>>,
           SameScan, session'.step = "wait"
    PROVE  Agreed'
  <1> DEFINE line == Reply("AUTHORIZED", session.id)
  <1>1. /\ line \in HostLines /\ line.cmd = "AUTHORIZED" /\ line.id = session.id
    <2>1. session.id \in Ids /\ "AUTHORIZED" \in AuthReplies
      BY DEF Scans, AuthReplies
    <2>2. QED
      BY <2>1, Replies DEF Reply
  <1>2. down' = Append(down, line)
    BY <1>1, Parts DEF Sent, DownFits
  <1>3. \A i \in DOMAIN down : down[i] # line
    <2>1. Fresh(session.id)
      BY Gone, Parts DEF QuestionsFit, Deciding, LockSteps
    <2>2. QED
      BY <2>1 DEF Fresh
  <1> HIDE DEF line
  <1>4. PICK new \in Nat :
          /\ DOMAIN down' = DOMAIN down \cup {new} /\ down'[new] = line
          /\ \A i \in DOMAIN down : down'[i] = down[i] /\ i < new /\ i \in Nat /\ i # new
          /\ \A i \in DOMAIN down : down[i] \in HostLines
    <2>1. /\ Len(down) + 1 \in Nat /\ DOMAIN down = 1..Len(down)
          /\ DOMAIN down' = 1..(Len(down) + 1) /\ down'[Len(down) + 1] = line
          /\ \A i \in DOMAIN down : down'[i] = down[i] /\ down[i] \in HostLines
      BY <1>1, <1>2, Parts DEF DownFits
    <2>2. QED
      BY <2>1
  <1>5. session' # NoScan /\ session # NoScan /\ session'.id = session.id
    BY Gone DEF SameScan, Nearing, LockSteps
  <1>6. \A c \in {"STOP", "LOCK"} : Under(c)' <=> Under(c)
    BY <1>1, <1>4 DEF Under
  <1>7. ASSUME NEW c \in {"STOP", "LOCK"}, NEW i \in DOMAIN down
        PROVE  Follows(c, i)' <=> Follows(c, i)
    BY <1>1, <1>4 DEF Follows
  <1>8. \A c \in {"STOP", "LOCK"} : ~Follows(c, new)'
    BY <1>4 DEF Follows
  <1>10. ASSUME Synced', ~rebooted'
         PROVE  CommandsFit' /\ StateFits'
    <2>1. CommandsFit /\ Agrees
      BY <1>10, Parts DEF Agreed, Synced, StateFits
    <2>2. ASSUME NEW i \in DOMAIN down', down'[i].cmd = "STOP" PROVE Follows("LOCK", i)'
      BY <1>1, <1>4, <1>7, <2>1, <2>2 DEF CommandsFit
    <2>3. ASSUME NEW i \in DOMAIN down', down'[i].cmd = "AUTHORIZED"
          PROVE  \/ Own(i)' /\ ~Follows("STOP", i)' /\ ~Follows("LOCK", i)'
                 \/ ~Own(i)' /\ Follows("STOP", i)'
      <3>1. CASE i = new
        BY <1>1, <1>4, <1>5, <1>8, <3>1 DEF Own
      <3>2. CASE i \in DOMAIN down
        <4>1. Follows("STOP", i)
          BY <1>4, <2>1, <2>3, <3>2 DEF CommandsFit, Own
        <4>2. ~Own(i)'
          <5>1. down'[i].id # session.id
            BY <1>3, <1>4, <2>3, <3>2 DEF HostLines, Reply, line
          <5>2. QED
            BY <1>5, <5>1 DEF Own
        <4>3. QED
          BY <1>7, <3>2, <4>1, <4>2
      <3>3. QED
        BY <1>4, <3>1, <3>2
    <2>4. CommandsFit'
      BY <1>6, <2>1, <2>2, <2>3 DEF CommandsFit
    <2>5. Agrees'
      BY <1>6, <2>1 DEF Agrees, controller
    <2>6. session'.id \notin acted'
      BY <1>5, Gone, Parts DEF QuestionsFit, Deciding, Fresh
    <2>7. QED
      BY <2>4, <2>5, <2>6 DEF StateFits
  <1>11. NearingFits'
    BY Parts, NearingStays, <1>5 DEF Nearing
  <1>12. QED
    BY <1>10, <1>11 DEF Agreed

(* AUTHORIZED is written, lost with its port, or has no port to go to. *)
LEMMA WriteAuthorizedSafe ==
    ASSUME SerialInv, LinkInv', WriteAuthorized
    PROVE  SerialInv'
  <1> DEFINE line == Reply("AUTHORIZED", session.id)
  <1>1. /\ session \in Scans /\ session # NoScan /\ session.step = "write"
        /\ UNCHANGED <<controller, reader, car, acted, rebooted>>
    BY Parts, Gone DEF WriteAuthorized, At, LockSteps
  <1>2. \/ /\ session.conn = port /\ Sent(<<line>>) /\ Worker("wait")
           /\ UNCHANGED <<port, opened, up, link>>
        \/ /\ session.conn = port /\ CutAfter(<<line>>, << >>)
           /\ ClosePort /\ ConnectionLost(port) /\ pending' = NoWait /\ Worker("undo")
        \/ /\ pending' = NoWait /\ Worker("undo")
           /\ UNCHANGED <<serial, conn, dropped, trouble>>
    BY DEF WriteAuthorized
  <1>3. \E step \in {"wait", "undo"} : Worker(step)
    BY <1>2
  <1>4. /\ session' \in Scans /\ session'.step \in {"wait", "undo"} /\ SameScan
        /\ \A step \in {"wait", "undo"} : Worker(step) => session'.step = step
    BY <1>1, <1>3, Steps1 DEF LockSteps
  <1>5. session' # NoScan /\ session'.purpose = session.purpose /\ session'.step \notin Deciding
    BY <1>4 DEF SameScan, Scans, NoScan, Deciding
  <1>6. NearingFits'
    BY <1>1, <1>5, Parts DEF Agreed, NearingFits, Nearing, car
  <1>7. ValuesFit'
    <2>1. dropped' \in {dropped, NoId}
      BY <1>2 DEF link, ConnectionLost
    <2>2. QED
      BY <1>1, <2>1, Parts DEF ValuesFit, controller, car
  <1>8. PlaceMoves /\ ScanConn
    BY <1>1, <1>4 DEF PlaceMoves, ScanConn, SameScan
  <1>9. PortMoves /\ up' = up /\ conn' \in {conn, 0} /\ LinkMoves
        /\ pending'.conn \in {pending.conn, 0}
    <2>1. port # 0 \/ session.conn # port
      BY <1>1, Parts, Numbers DEF PortsFit
    <2>2. QED
      BY <1>2, <2>1 DEF PortMoves, Stays, Loses, Sent, CutAfter, ClosePort, ConnectionLost,
                        LinkMoves, WaitMoves, link, serial, NoWait
  <1>10. PortsFit' /\ ConnFits'
    BY <1>8, <1>9, Parts, PortsHold
  <1>11. WakeFits'
    <2>1. session.step \in Granting
      BY <1>1 DEF Granting
    <2>2. QED
      BY <1>1, <1>4, <1>5, <1>9, <2>1, Parts, WakeStays
  <1>12. CASE Worker("undo") /\ UNCHANGED <<serial, conn, dropped, trouble>>
    <2>1. Agreed'
      BY <1>1, <1>4, <1>6, <1>12, AgreedDecides DEF ghost, car
    <2>2. QED
      BY <1>1, <1>4, <1>5, <1>7, <1>9, <1>11, <1>12, <2>1, UnwrittenSafe DEF ghost
  <1>13. CASE Sent(<<line>>) \/ CutAfter(<<line>>, << >>)
    <2>1. DownFits' /\ AskedFits' /\ QuestionsFit'
      <3>1. GrantAdded
        BY <1>1, <1>13, Parts, GrantLine
      <3>2. QED
        BY <1>1, <1>4, <1>5, <1>9, <3>1, GrantAsked
    <2>2. Agreed'
      <3>1. CASE Sent(<<line>>) /\ Worker("wait") /\ UNCHANGED <<port, opened, up, link>>
        BY <1>1, <1>4, <3>1, GrantAgreed DEF link, car
      <3>2. CASE Worker("undo") /\ ClosePort
        <4>1. ~Synced'
          BY <3>2 DEF ClosePort, Synced
        <4>2. QED
          BY <1>4, <1>6, <4>1 DEF Agreed
      <3>3. CASE Worker("undo") /\ UNCHANGED <<serial, conn, dropped, trouble>>
        BY <1>1, <1>4, <1>6, <3>3, AgreedDecides DEF ghost, car
      <3>4. QED
        BY <1>2, <3>1, <3>2, <3>3
    <2>3. QED
      BY <1>7, <1>10, <1>11, <2>1, <2>2 DEF SerialInv
  <1>14. QED
    BY <1>2, <1>12, <1>13

(* What the controller has done is what the host records now. *)
LEMMA GrantRecorded ==
    ASSUME SerialInv, session \in Scans, session.step = "wait", session.id \in acted,
           UNCHANGED <<controller, serial, conn, reader, acted, rebooted>>, session' = NoScan,
           IF session.purpose = "UNLOCK" THEN recorded' = "unlocked" /\ ignition' = ignition
                                         ELSE ignition' = TRUE /\ recorded' = recorded
    PROVE  Agreed'
  <1>1. ASSUME Synced', ~rebooted' PROVE CommandsFit' /\ StateFits'
    <2>1. CommandsFit /\ Ahead
      BY <1>1, Parts DEF Agreed, StateFits, Synced, serial
    <2>2. \A i \in DOMAIN down : down[i].cmd # "STOP" /\ down[i].cmd # "LOCK"
      BY <2>1 DEF Ahead, Under
    <2>3. \A i \in DOMAIN down : down[i].cmd # "AUTHORIZED"
      <3>1. \A i \in DOMAIN down : ~Follows("STOP", i)
        BY <2>2 DEF Follows
      <3>2. \A i \in DOMAIN down : down[i].cmd = "AUTHORIZED" => ~Own(i)
        BY Parts DEF AskedFits, Own
      <3>3. QED
        BY <2>1, <3>1, <3>2 DEF CommandsFit
    <2>4. CommandsFit'
      BY <2>2, <2>3 DEF CommandsFit, Under, serial
    <2>5. session'.step = "none"
      BY Gone
    <2>6. ~locked /\ engine = (ignition \/ session.purpose = "IGNITION")
          /\ UNCHANGED <<locked, engine>> /\ engine \in BOOLEAN /\ ignition \in BOOLEAN
      BY <2>1, Parts DEF Ahead, controller, ValuesFit
    <2>7. CASE session.purpose = "UNLOCK"
      BY <2>4, <2>5, <2>6, <2>7, Parts DEF StateFits, Agrees, ValuesFit
    <2>8. CASE session.purpose = "IGNITION"
      <3>1. recorded' = "unlocked" /\ ignition' = TRUE /\ engine' = TRUE /\ ~locked'
        BY <2>6, <2>8, Parts DEF Agreed, NearingFits, Nearing
      <3>2. Agrees'
        BY <2>6, <3>1, Parts DEF Agrees, ValuesFit
      <3>3. QED
        BY <2>4, <2>5, <3>2 DEF StateFits
    <2>9. QED
      BY <2>7, <2>8 DEF Scans
  <1>2. NearingFits'
    BY Gone DEF NearingFits
  <1>3. QED
    BY <1>1, <1>2 DEF Agreed

LEMMA JudgeSafe ==
    ASSUME SerialInv, LinkInv', Judge
    PROVE  SerialInv'
  <1>1. /\ session \in Scans /\ session.step = "wait" /\ pending' = NoWait
        /\ UNCHANGED <<controller, serial, conn, dropped, reader, ghost>>
    BY Parts, Gone DEF Judge, At, LockSteps
  <1>2. CASE Worker("undo") /\ UNCHANGED car
    <2>1. session' \in Scans /\ session'.step = "undo" /\ SameScan
      BY <1>1, <1>2, Steps1 DEF LockSteps
    <2>2. ValuesFit' /\ NearingFits'
      BY <1>1, <1>2, <2>1, Parts DEF ValuesFit, controller, car, ghost, NearingFits, Nearing
    <2>3. Agreed'
      BY <1>1, <1>2, <2>1, <2>2, AgreedDecides DEF car
    <2>4. WakeFits'
      <3>1. LinkMoves /\ conn' \in {conn, 0} /\ session'.step \notin Granting
        BY <1>1, <2>1 DEF LinkMoves, WaitMoves, Granting
      <3>2. QED
        BY <1>1, <2>1, <3>1, Parts, WakeStays
    <2>5. session'.step \notin Deciding /\ pending'.conn \in {pending.conn, 0}
      BY <1>1, <2>1 DEF Deciding, NoWait
    <2>6. QED
      BY <1>1, <2>1, <2>2, <2>3, <2>4, <2>5, UnwrittenSafe
  <1>3. CASE /\ pending.accepted /\ session' = NoScan
             /\ IF session.purpose = "UNLOCK"
                THEN recorded' = "unlocked" /\ UNCHANGED ignition
                ELSE ignition' = TRUE /\ UNCHANGED recorded
    <2>1. SameScan /\ session'.step \notin (Granting \cup Deciding)
      BY <1>3, Gone DEF SameScan
    <2>2. session.id \in acted
      BY <1>1, <1>3, Parts DEF LinkInv, Acks, WaitFits, Granting
    <2>3. Agreed'
      BY <1>1, <1>3, <2>2, GrantRecorded DEF ghost
    <2>4. ValuesFit' /\ pending'.conn \in {pending.conn, 0}
      BY <1>1, <1>3, Parts DEF ValuesFit, controller, ghost, NoWait
    <2>5. WakeFits'
      <3>1. LinkMoves /\ conn' \in {conn, 0}
        BY <1>1 DEF LinkMoves, WaitMoves
      <3>2. QED
        BY <1>1, <2>1, <3>1, Parts, WakeStays
    <2>6. QED
      BY <1>1, <2>1, <2>3, <2>4, <2>5, UnwrittenSafe
  <1>4. QED
    BY <1>2, <1>3 DEF Judge

-----------------------------------------------------------------------------
(* The steps of the thread *)

(* The thread moves, with its line read at most and the link as it was or  *)
(* less.                                                                   *)
LEMMA ThreadSafe ==
    ASSUME SerialInv, LinkInv', UNCHANGED <<controller, down, session, car, acted, rebooted>>,
           UpMoves, reader'.at # "trigger", PortsFit', ConnFits', WakeFits',
           dropped' \in Ids \cup {NoId}, Synced' => Synced
    PROVE  SerialInv'
  <1>1. UNCHANGED <<request, purpose, asked, locked, engine, recorded, ignition>>
    BY DEF controller, car
  <1>2. NothingNew /\ DownFits' /\ Mild
    BY Parts, LinesStay
  <1>3. session' # NoScan => session # NoScan /\ session.id \in asked
    BY Parts DEF AskedFits
  <1>4. AskedFits'
    BY <1>1, <1>2, <1>3, Parts, AskedStays
  <1>5. QuestionsFit'
    BY <1>1, <1>2, Parts, QuestionsStay
  <1>6. NearingFits'
    BY <1>1, Parts DEF Agreed, NearingFits
  <1>7. Agreed'
    BY <1>1, <1>2, <1>6, Parts, AgreedStays
  <1>8. ValuesFit'
    BY <1>1, Parts DEF ValuesFit
  <1>9. QED
    BY <1>2, <1>4, <1>5, <1>7, <1>8 DEF SerialInv

LEMMA GetSafe ==
    ASSUME SerialInv, LinkInv', GetConnection
    PROVE  SerialInv'
  <1>1. /\ UNCHANGED <<controller, down, session, car, acted, rebooted, conn, pending, dropped>>
        /\ reader.at \in {"top", "read"} /\ UpMoves
        /\ (port = 0 /\ port' = opened + 1) \/ port' = port
    BY DEF GetConnection, OpenPort, UpMoves, ghost, link
  <1>2. reader'.at = "got"
    BY Parts DEF GetConnection, Readers
  <1>3. PortsFit' /\ ConnFits'
    BY Parts, GetHolds
  <1>4. WakeFits'
    BY <1>1, <1>2, Parts DEF WakeFits
  <1>5. Synced' => Synced
    BY <1>1, Parts, Numbers DEF Synced, PortsFit
  <1>6. dropped' \in Ids \cup {NoId}
    BY <1>1, Parts DEF ValuesFit
  <1>7. QED
    BY <1>1, <1>2, <1>3, <1>4, <1>5, <1>6, ThreadSafe

(* The wait for an older connection is over. *)
LEMMA AdoptSafe ==
    ASSUME SerialInv, LinkInv', AdoptConnection
    PROVE  SerialInv'
  <1>1. /\ UNCHANGED <<controller, down, session, car, acted, rebooted, up>> /\ UpMoves
        /\ Goto("cancelAll") /\ pending' = LostWait(conn, pending) /\ dropped' = NoId
    <2>1. reader.conn # conn
      BY Parts DEF AdoptConnection, ConnFits
    <2>2. QED
      BY <2>1 DEF AdoptConnection, UpMoves, serial, ghost
  <1>2. reader'.at = "cancelAll"
    BY <1>1, Parts DEF Goto, Readers
  <1>3. PortsFit' /\ ConnFits'
    BY Parts, LoopHolds
  <1>4. pending'.done
    BY <1>1, Parts DEF LostWait, Waits, NoWait
  <1>5. WakeFits'
    BY <1>2, <1>4 DEF WakeFits
  <1>6. QED
    BY <1>1, <1>2, <1>3, <1>5, ThreadSafe DEF Synced

LEMMA LoopSafe ==
    ASSUME SerialInv, LinkInv', NoConnection \/ HandleFailure \/ CloseFailed \/ ReadFails
    PROVE  SerialInv'
  <1>1. /\ UNCHANGED <<controller, down, session, car, acted, rebooted>>
        /\ UpMoves
    BY DEF NoConnection, HandleFailure, CloseFailed, ReadFails, ClosePort, UpMoves,
           serial, ghost
  <1>2. PICK at \in {"top", "failed", "close", "read"} : Goto(at)
    BY DEF NoConnection, HandleFailure, CloseFailed, ReadFails
  <1>3. reader'.at = at /\ reader'.conn = reader.conn
    BY <1>2, Parts DEF Goto, Readers
  <1>4. PortsFit' /\ ConnFits'
    BY Parts, LoopHolds
  <1>5. LinkMoves /\ conn' \in {conn, 0}
    <2>1. CASE UNCHANGED link
      BY <2>1 DEF link, LinkMoves, WaitMoves
    <2>2. CASE \E c : ConnectionLost(c) /\ pending' = LostWait(c, pending)
      BY <2>2, Parts, LosesWait DEF ConnectionLost
    <2>3. QED
      BY <2>1, <2>2 DEF NoConnection, HandleFailure, CloseFailed, ReadFails
  <1>6. WakeFits'
    <2>1. SameScan
      BY <1>1 DEF SameScan
    <2>2. session'.step \in Granting => session' # NoScan
      BY Gone
    <2>3. QED
      BY <1>1, <1>3, <1>5, <2>1, <2>2, Parts, WakeStays
  <1>7. Synced' => Synced
    BY <1>3 DEF Synced, NoConnection, HandleFailure, CloseFailed, ReadFails, ClosePort,
                ConnectionLost, serial, link
  <1>8. dropped' \in Ids \cup {NoId}
    BY <1>5, Parts DEF LinkMoves, ValuesFit
  <1>9. QED
    BY <1>1, <1>3, <1>4, <1>6, <1>7, <1>8, ThreadSafe

(* A line is read. *)
LEMMA ReadLine ==
    ASSUME LinkInv, Reads
    PROVE  /\ UpMoves /\ up # << >> /\ 1 \in DOMAIN up /\ Head(up) = up[1]
           /\ DOMAIN up \subseteq Nat \ {0} /\ DOMAIN up' \subseteq Nat \ {0}
           /\ \A k \in DOMAIN up' : k + 1 \in DOMAIN up /\ up'[k] = up[k + 1]
           /\ \A i \in DOMAIN up : up[i] \in RequestLines
  <1>1. up \in Seq(RequestLines) /\ up # << >> /\ up' = Tail(up)
    BY DEF LinkInv, Types, PortTypes, Reads
  <1>2. /\ Tail(up) \in Seq(RequestLines) /\ Len(Tail(up)) = Len(up) - 1
        /\ \A i \in 1..Len(Tail(up)) : Tail(up)[i] = up[i + 1]
    BY <1>1, HeadTailProperties
  <1>3. Len(up) \in Nat \ {0}
    BY <1>1
  <1>4. DOMAIN up = 1..Len(up) /\ DOMAIN up' = 1..(Len(up) - 1)
    BY <1>1, <1>2, <1>3
  <1>5. UpMoves /\ Head(up) = up[1]
    BY <1>1 DEF UpMoves
  <1>6. \A k \in DOMAIN up' : k + 1 \in DOMAIN up /\ up'[k] = up[k + 1]
    BY <1>1, <1>2, <1>3, <1>4
  <1>7. \A i \in DOMAIN up : up[i] \in RequestLines
    BY <1>1
  <1>8. QED
    BY <1>1, <1>3, <1>4, <1>5, <1>6, <1>7

(* A new question is read with nothing to come on any other. *)
LEMMA ReadTriggerSafe ==
    ASSUME SerialInv, LinkInv', ReadTrigger
    PROVE  SerialInv'
  <1>1. /\ UNCHANGED <<controller, port, opened, down, link, session, car, ghost>>
        /\ Reads /\ Asks(1) /\ reader.at = "read"
        /\ reader'.at = "trigger" /\ reader'.line = up[1] /\ reader'.conn = reader.conn
    <2>1. Reads /\ Head(up) = up[1]
      BY Parts, ReadLine DEF ReadTrigger
    <2>2. QED
      BY <2>1, Parts DEF ReadTrigger, Reads, Asks, Readers
  <1>2. /\ UNCHANGED <<request, purpose, asked, locked, engine, conn, pending, dropped,
                       recorded, ignition, acted, rebooted, trouble, session, down>>
    BY <1>1 DEF controller, link, car, ghost
  <1>3. UpMoves /\ NothingNew /\ DownFits' /\ Mild
    BY <1>1, <1>2, Parts, ReadLine, LinesStay
  <1>4. PortsFit' /\ ConnFits'
    <2>1. Stays /\ PlaceMoves /\ ScanConn
      BY <1>1, <1>2 DEF Stays, PlaceMoves, Reading, ScanConn
    <2>2. QED
      BY <1>2, <2>1, Parts, PortsHold DEF PortMoves
  <1>5. WakeFits'
    BY <1>1, <1>2, Parts DEF WakeFits
  <1>6. NearingFits'
    BY <1>2, Parts DEF Agreed, NearingFits
  <1>7. Agreed'
    <2>1. Synced' => Synced
      BY <1>1, <1>2 DEF Synced
    <2>2. QED
      BY <1>2, <1>3, <1>6, <2>1, Parts, AgreedStays
  <1>8. ValuesFit'
    BY <1>2, Parts DEF ValuesFit
  <1>9. AskedFits'
    <2>1. reader'.line.id \in asked /\ (session # NoScan => session.id \in asked)
      BY <1>1, Parts, ReadLine DEF AskedFits
    <2>2. QED
      BY <1>2, <1>3, <2>1, Parts, AskedStays
  <1>10. QuestionsFit'
    <2>1. /\ 1 \in DOMAIN up /\ DOMAIN up \subseteq Nat \ {0} /\ DOMAIN up' \subseteq Nat \ {0}
          /\ \A k \in DOMAIN up' : k + 1 \in DOMAIN up /\ up'[k] = up[k + 1]
      BY <1>1, Parts, ReadLine
    <2>2. ASSUME NEW id, NEW n \in Nat, Past(id, n + 1)
          PROVE  Past(id, n)'
      BY <1>2, <2>1, <2>2 DEF Past
    <2>3. \A id, p : Unanswered(id, p) => Unanswered(id, p)'
      BY <1>2 DEF Unanswered, Fresh
    <2>4. ASSUME NEW k \in DOMAIN up', Asks(k)'
          PROVE  /\ Unanswered(up[k].id, up[k].purpose)'
                 /\ \A i \in DOMAIN up' : i < k => Past(up[i].id, k)'
                 /\ Past(reader.line.id, k)'
                 /\ session' # NoScan => Past(session.id, k)'
      <3>1. k + 1 \in DOMAIN up /\ up'[k] = up[k + 1] /\ Asks(k + 1) /\ k \in Nat /\ 1 < k + 1
        BY <2>1, <2>4 DEF Asks
      <3>2. /\ Unanswered(up[k + 1].id, up[k + 1].purpose)
            /\ \A i \in DOMAIN up : i < k + 1 => Past(up[i].id, k + 1)
            /\ session # NoScan => Past(session.id, k + 1)
        BY <3>1, Parts DEF QuestionsFit
      <3>3. Unanswered(up[k].id, up[k].purpose)'
        BY <2>3, <3>1, <3>2 DEF Unanswered, Fresh
      <3>4. ASSUME NEW i \in DOMAIN up', i < k PROVE Past(up[i].id, k)'
        <4>1. Past(up[i + 1].id, k + 1) /\ up'[i] = up[i + 1]
          BY <2>1, <3>1, <3>2, <3>4
        <4>2. QED
          BY <2>2, <3>1, <4>1 DEF Past
      <3>5. Past(reader.line.id, k)'
        <4>1. Past(up[1].id, k + 1)
          BY <2>1, <3>1, <3>2
        <4>2. QED
          BY <1>1, <2>2, <3>1, <4>1 DEF Past
      <3>6. session' # NoScan => Past(session.id, k)'
        BY <1>2, <2>2, <3>1, <3>2 DEF Past
      <3>7. QED
        BY <3>3, <3>4, <3>5, <3>6
    <2>5. Unanswered(reader.line.id, reader.line.purpose)'
      <3>1. Unanswered(up[1].id, up[1].purpose)
        BY <1>1, <2>1, Parts DEF QuestionsFit
      <3>2. QED
        BY <1>1, <2>3, <3>1 DEF Unanswered, Fresh
    <2>6. session' # NoScan => Past(session.id, 1)' /\ reader'.line.id # session'.id
      <3>1. session # NoScan => Past(session.id, 1)
        BY <1>1, <2>1, Parts DEF QuestionsFit
      <3>2. QED
        BY <1>1, <1>2, <2>1, <3>1 DEF Past
    <2>7. session' # NoScan =>
            /\ request' = session'.id => purpose' = session'.purpose
            /\ session'.step \in Deciding => Fresh(session.id)'
      BY <1>2, Parts DEF QuestionsFit, Fresh
    <2>8. QED
      BY <2>4, <2>5, <2>6, <2>7 DEF QuestionsFit
  <1>11. QED
    BY <1>3, <1>4, <1>5, <1>7, <1>8, <1>9, <1>10 DEF SerialInv

(* A result wakes the worker whose request it is. *)
LEMMA ReadResultSafe ==
    ASSUME SerialInv, LinkInv', ReadResult
    PROVE  SerialInv'
  <1>1. /\ UNCHANGED <<controller, port, opened, down, conn, session, car, ghost>>
        /\ Reads /\ reader.at = "read" /\ Head(up) \in RequestLines
        /\ ReceiveResult(reader.conn, Head(up).id, Head(up).cmd = "AUTH_ACK")
        /\ \/ reader' = reader
           \/ /\ Head(up).cmd # "AUTH_ACK" /\ reader'.at = "cancel" /\ reader'.line = Head(up)
              /\ reader'.conn = reader.conn
    <2>1. Reads /\ Head(up) \in RequestLines
      BY Parts, ReadLine DEF ReadResult
    <2>2. QED
      BY <2>1, Parts DEF ReadResult, Reads, ReceiveResult, Readers
  <1>2. pending'.conn = pending.conn /\ dropped' \in Ids \cup {NoId}
    <2>1. Head(up).id \in Ids
      BY <1>1 DEF RequestLines
    <2>2. QED
      BY <1>1, <2>1, Parts DEF ReceiveResult, ValuesFit, Waits
  <1>3. UpMoves
    BY <1>1, Parts, ReadLine
  <1>4. PortsFit' /\ ConnFits'
    <2>1. Stays /\ PlaceMoves /\ ScanConn
      BY <1>1 DEF Stays, PlaceMoves, Reading, ScanConn, ghost
    <2>2. QED
      BY <1>2, <2>1, Parts, PortsHold DEF PortMoves
  <1>5. WakeFits'
    <2>1. ~pending'.done => pending' = pending
      BY <1>1, Parts DEF ReceiveResult, Waits
    <2>2. session.step \in Granting /\ ~pending'.done =>
            conn = session.conn /\ pending.conn = session.conn /\ pending.id = session.id
      BY <2>1, Parts DEF WakeFits, LinkInv, Acks, WaitFits
    <2>3. CASE reader' = reader
      BY <1>1, <2>1, <2>2, <2>3 DEF WakeFits
    <2>4. CASE /\ Head(up).cmd # "AUTH_ACK" /\ reader'.at = "cancel" /\ reader'.line = Head(up)
               /\ reader'.conn = reader.conn
      <3>1. conn = reader.conn => dropped' = Head(up).id
        BY <1>1, <2>4 DEF ReceiveResult
      <3>2. pending.conn = reader.conn /\ pending.id = Head(up).id => pending'.done
        BY <1>1, Parts DEF ReceiveResult, Waits
      <3>3. session.step \in Granting /\ Matches(session, reader.line.id)' => pending'.done
        BY <1>1, <2>2, <2>4, <3>2 DEF Matches
      <3>4. QED
        BY <1>1, <2>1, <2>2, <2>4, <3>1, <3>3 DEF WakeFits, Matches
    <2>5. QED
      BY <1>1, <2>3, <2>4
  <1>6. Synced' => Synced
    BY <1>1 DEF Synced
  <1>7. QED
    BY <1>1, <1>2, <1>3, <1>4, <1>5, <1>6, ThreadSafe DEF ghost

(* The scan that is withdrawn was woken before. *)
LEMMA FindCancelledSafe ==
    ASSUME SerialInv, LinkInv', FindCancelled
    PROVE  SerialInv'
  <1>1. /\ UNCHANGED <<controller, serial, link, car, ghost>> /\ reader.at = "cancel"
        /\ \/ /\ Matches(session, reader.line.id) /\ Goto("cancelling")
              /\ session' = [session EXCEPT !.cancelled = TRUE]
           \/ Loop /\ session' = session
    BY DEF FindCancelled
  <1>2. /\ reader'.conn = reader.conn
        /\ \/ /\ Matches(session, reader.line.id) /\ reader'.line = reader.line
              /\ reader'.at = "cancelling" /\ session' = [session EXCEPT !.cancelled = TRUE]
           \/ reader'.at = "read" /\ session' = session
    BY <1>1, Parts DEF Readers, Goto, Loop
  <1>3. SameScan /\ session'.step = session.step /\ (session = NoScan <=> session' = NoScan)
    BY <1>2, Parts DEF SameScan, Scans, NoScan, Matches
  <1>4. Quiet
    <2>1. Stays /\ UpMoves /\ NothingNew /\ DownFits'
      BY <1>1, Parts, LinesStay DEF serial, link, ghost, Stays, UpMoves
    <2>2. PlaceMoves
      BY <1>1, <1>2 DEF PlaceMoves, Reading
    <2>3. QED
      BY <1>1, <1>2, <1>3, <2>1, <2>2 DEF Quiet, PortMoves, ghost
  <1>5. WakeFits'
    <2>1. CASE reader'.at = "read"
      <3>1. LinkMoves /\ conn' \in {conn, 0}
        BY <1>1 DEF LinkMoves, WaitMoves, link
      <3>2. session.step \in Granting => session' # NoScan
        BY <1>3, Gone
      <3>3. QED
        BY <1>2, <1>3, <2>1, <3>1, <3>2, Parts, WakeStays
    <2>2. CASE /\ Matches(session, reader.line.id) /\ reader'.line = reader.line
               /\ reader'.at = "cancelling" /\ session' = [session EXCEPT !.cancelled = TRUE]
      <3>1. /\ session # NoScan /\ session'.id = session.id /\ session'.conn = session.conn
            /\ UNCHANGED <<conn, pending, dropped>>
        BY <1>1, <1>3, <2>2 DEF SameScan, Matches, link
      <3>2. Matches(session, reader.line.id)'
        BY <1>2, <1>3, <2>2, <3>1 DEF Matches
      <3>3. /\ reader'.line \in RequestLines /\ (conn' = reader'.conn => dropped' = reader'.line.id)
            /\ session.step \in Granting => pending'.done
        BY <1>1, <1>2, <2>2, <3>1, Parts DEF WakeFits
      <3>4. session'.step \in Granting /\ ~pending'.done =>
              conn' = session'.conn /\ pending'.conn = session'.conn
        BY <1>3, <3>3
      <3>5. QED
        BY <1>3, <3>2, <3>3, <3>4 DEF WakeFits
    <2>3. QED
      BY <1>2, <2>1, <2>2
  <1>6. NearingFits'
    BY <1>1, <1>3, Parts, Gone, NearingStays DEF car
  <1>7. Agreed'
    <2>1. UNCHANGED <<locked, engine, recorded, ignition, acted, rebooted>> /\ Mild
      BY <1>1, Parts, LinesStay DEF controller, car, ghost, serial
    <2>2. Synced' => Synced
      BY <1>1 DEF Synced, serial, link
    <2>3. ASSUME Synced', ~rebooted' PROVE CommandsFit' /\ StateFits'
      <3>1. CommandsFit /\ StateFits /\ down' = down
        BY <1>1, <2>1, <2>2, <2>3, Parts DEF Agreed, serial
      <3>2. session' # NoScan => session'.id = session.id /\ session'.purpose = session.purpose
        BY <1>3 DEF SameScan
      <3>3. \A i \in DOMAIN down : Own(i)' <=> Own(i)
        BY <1>3, <3>1, <3>2, Gone DEF Own, LockSteps
      <3>4. CommandsFit'
        BY <1>3, <2>1, <3>1, <3>3 DEF CommandsFit, Under, Follows
      <3>5. StateFits'
        BY <1>3, <2>1, <3>1, <3>2, Gone DEF StateFits, Ahead, Agrees, Under, LockSteps
      <3>6. QED
        BY <3>4, <3>5
    <2>4. QED
      BY <1>6, <2>3 DEF Agreed
  <1>8. ValuesFit' /\ pending' = pending
    BY <1>1, Parts DEF ValuesFit, controller, link, car, ghost
  <1>9. QED
    BY <1>4, <1>5, <1>7, <1>8, QuietSteps

(* The scan that starts is for the question that was read. *)
LEMMA StartScanSafe ==
    ASSUME SerialInv, LinkInv', StartScan
    PROVE  SerialInv'
  <1>1. /\ UNCHANGED <<controller, serial, link, car, ghost>>
        /\ reader.at = "trigger" /\ session = NoScan
        /\ session'.step = "start" /\ session'.id = reader.line.id
        /\ session'.purpose = reader.line.purpose /\ session'.conn = reader.conn
        /\ session' # NoScan
    BY DEF StartScan, NoScan
  <1>2. reader'.at = "pending" /\ reader'.conn = reader.conn
    BY Parts DEF StartScan, Goto, Readers
  <1>3. /\ UNCHANGED <<request, purpose, asked, locked, engine, conn, pending, dropped, port,
                       opened, up, down, recorded, ignition, acted, rebooted, trouble>>
    BY <1>1 DEF controller, serial, link, car, ghost
  <1>4. UpMoves /\ NothingNew /\ DownFits' /\ Mild
    BY <1>3, Parts, LinesStay DEF UpMoves
  <1>5. PortsFit' /\ ConnFits'
    <2>1. Stays /\ PlaceMoves /\ ScanConn
      BY <1>1, <1>2, <1>3 DEF Stays, PlaceMoves, Reading, ScanConn
    <2>2. QED
      BY <1>3, <2>1, Parts, PortsHold DEF PortMoves
  <1>6. WakeFits'
    BY <1>1, <1>2 DEF WakeFits, Granting
  <1>7. NearingFits'
    BY <1>1 DEF NearingFits, Nearing
  <1>8. Agreed'
    <2>1. Synced' => Synced
      BY <1>1, <1>3 DEF Synced
    <2>2. session.step = "none" /\ session'.step = "start"
      BY <1>1, Gone
    <2>3. QED
      BY <1>3, <1>4, <1>7, <2>1, <2>2, Parts, AgreedStays
  <1>9. ValuesFit'
    BY <1>3, Parts DEF ValuesFit
  <1>10. AskedFits'
    <2>1. session'.id \in asked
      BY <1>1, Parts DEF AskedFits
    <2>2. QED
      BY <1>2, <1>3, <1>4, <2>1, Parts, AskedStays
  <1>11. QuestionsFit'
    <2>1. \A k \in DOMAIN up : Asks(k) =>
            /\ Unanswered(up[k].id, up[k].purpose) /\ Past(session'.id, k)
            /\ \A i \in DOMAIN up : i < k => Past(up[i].id, k)
      BY <1>1, Parts DEF QuestionsFit
    <2>2. Unanswered(session'.id, session'.purpose)
      BY <1>1, Parts DEF QuestionsFit
    <2>3. QED
      BY <1>2, <1>3, <2>1, <2>2 DEF QuestionsFit, Asks, Unanswered, Fresh, Past
  <1>12. QED
    BY <1>4, <1>5, <1>6, <1>8, <1>9, <1>10, <1>11 DEF SerialInv

-----------------------------------------------------------------------------
(* The steps of the controller *)

LEMMA TakenLine ==
    ASSUME DownFits, NEW line, Take(line)
    PROVE  /\ DownFits' /\ 1 \in DOMAIN down /\ line = down[1] /\ line.cmd \in HostSays
           /\ DOMAIN down \subseteq Nat \ {0} /\ DOMAIN down' \subseteq Nat \ {0}
           /\ \A k \in DOMAIN down' : k + 1 \in DOMAIN down /\ down'[k] = down[k + 1]
           /\ \A k \in DOMAIN down : k = 1 \/ (k - 1 \in DOMAIN down' /\ down'[k - 1] = down[k])
           /\ \A k \in DOMAIN down : down[k] \in HostLines
  <1>1. down \in Seq(HostLines) /\ down # << >> /\ down' = Tail(down) /\ line = Head(down)
    BY DEF DownFits, Take
  <1>2. /\ Tail(down) \in Seq(HostLines) /\ Len(Tail(down)) = Len(down) - 1
        /\ \A i \in 1..Len(Tail(down)) : Tail(down)[i] = down[i + 1]
    BY <1>1, HeadTailProperties
  <1>3. Len(down) \in Nat \ {0}
    BY <1>1
  <1>4. DOMAIN down = 1..Len(down) /\ DOMAIN down' = 1..(Len(down) - 1)
    BY <1>1, <1>2, <1>3
  <1>5. line = down[1] /\ 1 \in DOMAIN down
    BY <1>1, <1>3, <1>4
  <1>6. \A k \in DOMAIN down' : k + 1 \in DOMAIN down /\ down'[k] = down[k + 1]
    BY <1>1, <1>2, <1>3, <1>4
  <1>7. \A k \in DOMAIN down : k = 1 \/ (k - 1 \in DOMAIN down' /\ down'[k - 1] = down[k])
    BY <1>3, <1>4, <1>6
  <1>8. DownFits'
    BY <1>1, <1>2, <1>6 DEF DownFits
  <1>9. \A k \in DOMAIN down : down[k] \in HostLines
    BY <1>1
  <1>10. line.cmd \in HostSays
    BY <1>5 DEF DownFits
  <1>11. QED
    BY <1>3, <1>4, <1>5, <1>6, <1>7, <1>8, <1>9, <1>10

(* What is left on the line is in the order it had. *)
LEMMA TakenFollow ==
    ASSUME DownFits, NEW line, Take(line)
    PROVE  /\ \A c, k : k \in DOMAIN down' => (Follows(c, k)' <=> Follows(c, k + 1))
           /\ \A c : Under(c)' <=> Follows(c, 1)
           /\ \A c : Under(c) <=> line.cmd = c \/ Follows(c, 1)
  <1>1. /\ 1 \in DOMAIN down /\ line = down[1]
        /\ DOMAIN down \subseteq Nat \ {0} /\ DOMAIN down' \subseteq Nat \ {0}
        /\ \A k \in DOMAIN down' : k + 1 \in DOMAIN down /\ down'[k] = down[k + 1]
        /\ \A k \in DOMAIN down : k = 1 \/ (k - 1 \in DOMAIN down' /\ down'[k - 1] = down[k])
    BY TakenLine
  <1>2. ASSUME NEW c, NEW k \in DOMAIN down'
        PROVE  Follows(c, k)' <=> Follows(c, k + 1)
    <2>1. ASSUME NEW j \in DOMAIN down', j > k, down'[j].cmd = c
          PROVE  j + 1 \in DOMAIN down /\ j + 1 > k + 1 /\ down[j + 1].cmd = c
      BY <1>1, <2>1
    <2>2. ASSUME NEW j \in DOMAIN down, j > k + 1, down[j].cmd = c
          PROVE  j - 1 \in DOMAIN down' /\ j - 1 > k /\ down'[j - 1].cmd = c
      BY <1>1, <2>2
    <2>3. QED
      BY <2>1, <2>2 DEF Follows
  <1>3. ASSUME NEW c PROVE Under(c)' <=> Follows(c, 1)
    <2>1. ASSUME NEW j \in DOMAIN down', down'[j].cmd = c
          PROVE  j + 1 \in DOMAIN down /\ j + 1 > 1 /\ down[j + 1].cmd = c
      BY <1>1, <2>1
    <2>2. ASSUME NEW j \in DOMAIN down, j > 1, down[j].cmd = c
          PROVE  j - 1 \in DOMAIN down' /\ down'[j - 1].cmd = c
      BY <1>1, <2>2
    <2>3. QED
      BY <2>1, <2>2 DEF Follows, Under
  <1>4. \A c : Under(c) <=> line.cmd = c \/ Follows(c, 1)
    <2>1. \A j \in DOMAIN down : j = 1 \/ j > 1
      BY <1>1
    <2>2. QED
      BY <1>1, <2>1 DEF Under, Follows
  <1>5. QED
    BY <1>2, <1>3, <1>4

(* The commands that are left fit each other still. *)
LEMMA TakenAgreed ==
    ASSUME SerialInv, NEW line, Take(line),
           UNCHANGED <<port, conn, reader, session, recorded, ignition, rebooted>>,
           CommandsFit /\ StateFits => StateFits'
    PROVE  Agreed'
  <1>1. /\ DOMAIN down' \subseteq Nat \ {0}
        /\ \A k \in DOMAIN down' : k + 1 \in DOMAIN down /\ down'[k] = down[k + 1]
    BY Parts, TakenLine
  <1>2. ASSUME Synced', ~rebooted' PROVE CommandsFit' /\ StateFits'
    <2>1. CommandsFit /\ StateFits
      BY <1>2, Parts DEF Agreed, Synced
    <2>2. /\ \A c, k : k \in DOMAIN down' => (Follows(c, k)' <=> Follows(c, k + 1))
          /\ \A c : Under(c)' => Under(c)
      BY Parts, TakenFollow
    <2>3. \A k \in DOMAIN down' : Own(k)' <=> Own(k + 1)
      BY <1>1 DEF Own
    <2>4. ASSUME NEW k \in DOMAIN down', down'[k].cmd = "STOP"
          PROVE  Follows("LOCK", k)'
      BY <1>1, <2>1, <2>2, <2>4 DEF CommandsFit
    <2>5. ASSUME NEW k \in DOMAIN down', down'[k].cmd = "AUTHORIZED"
          PROVE  \/ session'.step = "undo"
                 \/ Own(k)' /\ ~Follows("STOP", k)' /\ ~Follows("LOCK", k)'
                 \/ ~Own(k)' /\ Follows("STOP", k)'
      BY <1>1, <2>1, <2>2, <2>3, <2>5 DEF CommandsFit
    <2>6. Under("LOCK")' => recorded' = "locked" /\ ~ignition'
      BY <2>1, <2>2 DEF CommandsFit
    <2>7. QED
      BY <2>1, <2>4, <2>5, <2>6 DEF CommandsFit
  <1>3. NearingFits'
    BY Parts DEF Agreed, NearingFits
  <1>4. QED
    BY <1>2, <1>3 DEF Agreed

(* Only a printed acknowledgement acts. *)
LEMMA ActedAdds ==
    ASSUME LinkInv, Controls
    PROVE  /\ up' = up => acted' = acted
           /\ \A line \in RequestLines : up' = Append(up, line) =>
                acted' = IF line.cmd = "AUTH_ACK" THEN acted \cup {line.id} ELSE acted
  <1>1. up \in Seq(RequestLines) /\ Len(up) \in Nat /\ DOMAIN up = 1..Len(up)
    BY DEF LinkInv, Types, PortTypes
  <1> DEFINE news == {j \in DOMAIN up' : j > Len(up) /\ up'[j].cmd = "AUTH_ACK"}
  <1>2. acted' = acted \cup {l.id : l \in {up'[i] : i \in news}}
    BY DEF Controls
  <1>3. ASSUME up' = up PROVE acted' = acted
    <2>1. news = {}
      BY <1>1, <1>3
    <2>2. QED
      BY <1>2, <2>1
  <1>4. ASSUME NEW line \in RequestLines, up' = Append(up, line)
        PROVE  acted' = IF line.cmd = "AUTH_ACK" THEN acted \cup {line.id} ELSE acted
    <2>1. DOMAIN up' = 1..(Len(up) + 1) /\ up'[Len(up) + 1] = line
      BY <1>1, <1>4
    <2>2. news = IF line.cmd = "AUTH_ACK" THEN {Len(up) + 1} ELSE {}
      BY <1>1, <2>1
    <2> HIDE DEF news
    <2>3. QED
      BY <1>2, <2>1, <2>2
  <1>5. QED
    BY <1>3, <1>4

(* The line of the request that ends, if one is printed. *)
Prints(line) ==
    request # NoId /\ line \in RequestLines /\ line.id = request /\ line.cmd # "START_AUTH"
        /\ up' = Append(up, line)

(* A request ends, and acts if its AUTHORIZED is taken. *)
Answers ==
    /\ request' \in {request, NoId}
    /\ up' = up \/ \E line : Prints(line)
    /\ down' = down \/ \E line : Take(line)
    /\ \/ acted' = acted
       \/ /\ request' = NoId /\ request \in Ids /\ Take(Reply("AUTHORIZED", request))
          /\ acted' = acted \cup {request}

LEMMA AnswersUp ==
    ASSUME LinkInv, AskedFits, Answers
    PROVE  /\ DOMAIN up \subseteq Nat \ {0} /\ DOMAIN up' \subseteq Nat \ {0}
           /\ \A k \in DOMAIN up : k \in DOMAIN up' /\ up'[k] = up[k]
           /\ \A k \in DOMAIN up' : \/ k \in DOMAIN up
                                    \/ /\ up'[k].id = request /\ up'[k].cmd # "START_AUTH"
                                       /\ request # NoId
  <1>1. up \in Seq(RequestLines) /\ Len(up) \in Nat /\ DOMAIN up = 1..Len(up)
    BY DEF LinkInv, Types, PortTypes
  <1>2. CASE up' = up
    BY <1>1, <1>2
  <1>3. ASSUME NEW line, Prints(line)
        PROVE  /\ DOMAIN up' \subseteq Nat \ {0}
               /\ \A k \in DOMAIN up : k \in DOMAIN up' /\ up'[k] = up[k]
               /\ \A k \in DOMAIN up' : \/ k \in DOMAIN up
                                        \/ /\ up'[k].id = request /\ up'[k].cmd # "START_AUTH"
                                           /\ request # NoId
    <2>1. up' = Append(up, line) /\ line \in RequestLines
      BY <1>3 DEF Prints
    <2>2. /\ DOMAIN up' = 1..(Len(up) + 1) /\ up'[Len(up) + 1] = line
          /\ \A k \in 1..Len(up) : up'[k] = up[k]
      BY <1>1, <2>1
    <2>3. QED
      BY <1>1, <1>3, <2>2 DEF Prints
  <1>4. QED
    BY <1>1, <1>2, <1>3 DEF Answers

LEMMA AnswersAsked ==
    ASSUME SerialInv, Answers, UNCHANGED <<asked, reader, session>>
    PROVE  AskedFits'
  <1>1. /\ request \in asked \cup {NoId} /\ request \notin acted /\ acted \subseteq asked
        /\ \A i \in DOMAIN up : up[i].id \in asked
        /\ \A i \in DOMAIN down : down[i].cmd = "AUTHORIZED" =>
             /\ down[i].id \in asked /\ down[i].id \notin acted
             /\ \A j \in DOMAIN down : down[j] = down[i] => j = i
    BY Parts DEF AskedFits
  <1>2. asked \subseteq Ids /\ NoId \notin Ids
    BY Parts, RequesterAssumption DEF LinkInv, Types, RequesterTypes
  <1>3. /\ request' \in asked' \cup {NoId} /\ acted' \subseteq asked' /\ request' \notin acted'
    BY <1>1, <1>2 DEF Answers
  <1>4. \A i \in DOMAIN up' : up'[i].id \in asked'
    BY <1>1, Parts, AnswersUp
  <1>5. ASSUME NEW i \in DOMAIN down', down'[i].cmd = "AUTHORIZED"
        PROVE  /\ down'[i].id \in asked /\ down'[i].id \notin acted'
               /\ \A j \in DOMAIN down' : down'[j] = down'[i] => j = i
    <2>1. CASE down' = down /\ acted' = acted
      BY <1>1, <1>5, <2>1
    <2>2. ASSUME NEW line, Take(line), acted' # acted => line = Reply("AUTHORIZED", request)
                                                        /\ acted' = acted \cup {request}
          PROVE  /\ down'[i].id \in asked /\ down'[i].id \notin acted'
                 /\ \A j \in DOMAIN down' : down'[j] = down'[i] => j = i
      <3>1. /\ 1 \in DOMAIN down /\ line = down[1]
            /\ DOMAIN down \subseteq Nat \ {0} /\ DOMAIN down' \subseteq Nat \ {0}
            /\ \A k \in DOMAIN down' : k + 1 \in DOMAIN down /\ down'[k] = down[k + 1]
            /\ \A k \in DOMAIN down : down[k] \in HostLines
        BY <2>2, Parts, TakenLine
      <3>2. /\ down[i + 1].cmd = "AUTHORIZED" /\ down'[i] = down[i + 1] /\ i + 1 \in DOMAIN down
        BY <1>5, <3>1
      <3>3. down'[i].id \in asked /\ down'[i].id \notin acted
        BY <1>1, <3>2
      <3>4. \A j \in DOMAIN down' : down'[j] = down'[i] => j = i
        <4>1. \A j \in DOMAIN down' : down[j + 1] = down[i + 1] => j + 1 = i + 1
          BY <1>1, <3>1, <3>2
        <4>2. \A j \in DOMAIN down' : j \in Nat /\ (j + 1 = i + 1 => j = i)
          BY <3>1
        <4>3. QED
          BY <3>1, <4>1, <4>2
      <3>5. acted' # acted => down'[i].id # request
        <4>1. HAVE acted' # acted
        <4>2. down[i + 1] # Reply("AUTHORIZED", request)
          <5>1. down[1] # down[i + 1]
            <6>1. i + 1 # 1
              BY <3>1
            <6>2. QED
              BY <1>1, <3>1, <3>2, <6>1
          <5>2. QED
            BY <2>2, <3>1, <4>1, <5>1
        <4>3. QED
          BY <3>1, <3>2, <4>2 DEF HostLines, Reply
      <3>6. QED
        BY <2>2, <3>3, <3>4, <3>5
    <2>3. QED
      BY <2>1, <2>2 DEF Answers
  <1>6. QED
    BY <1>1, <1>3, <1>4, <1>5, Parts DEF AskedFits

LEMMA AnswersQuestions ==
    ASSUME SerialInv, Answers, UNCHANGED <<purpose, asked, reader, session>>
    PROVE  QuestionsFit'
  <1>1. /\ DOMAIN up \subseteq Nat \ {0} /\ DOMAIN up' \subseteq Nat \ {0}
        /\ \A k \in DOMAIN up : k \in DOMAIN up' /\ up'[k] = up[k]
        /\ \A k \in DOMAIN up' : \/ k \in DOMAIN up
                                 \/ /\ up'[k].id = request /\ up'[k].cmd # "START_AUTH"
                                    /\ request # NoId
    BY Parts, AnswersUp
  <1>2. ASSUME NEW id, id # NoId, NEW n, Past(id, n)
        PROVE  Past(id, n)'
    BY <1>1, <1>2 DEF Past, Answers
  <1>3. ASSUME NEW id, Fresh(id) PROVE Fresh(id)'
    <2>1. CASE down' = down /\ acted' = acted
      BY <1>3, <2>1 DEF Fresh
    <2>2. ASSUME NEW line, Take(line), acted' # acted => line = Reply("AUTHORIZED", request)
                                                        /\ acted' = acted \cup {request}
          PROVE  Fresh(id)'
      <3>1. /\ 1 \in DOMAIN down /\ line = down[1]
            /\ \A k \in DOMAIN down' : k + 1 \in DOMAIN down /\ down'[k] = down[k + 1]
        BY <2>2, Parts, TakenLine
      <3>2. id \notin acted'
        BY <1>3, <2>2, <3>1 DEF Fresh
      <3>3. QED
        BY <1>3, <3>1, <3>2 DEF Fresh
    <2>3. QED
      BY <2>1, <2>2 DEF Answers
  <1>4. ASSUME NEW id, id # NoId, NEW p, Unanswered(id, p) PROVE Unanswered(id, p)'
    BY <1>3, <1>4 DEF Unanswered, Answers
  <1>5. NoId \notin Ids /\ (\A k \in DOMAIN up : up[k].id \in Ids)
    <2>1. up \in Seq(RequestLines)
      BY Parts DEF LinkInv, Types, PortTypes
    <2>2. \A k \in DOMAIN up : up[k] \in RequestLines
      BY <2>1
    <2>3. QED
      BY <2>2, RequesterAssumption DEF RequestLines
  <1>6. reader.at = "trigger" => reader.line.id \in Ids
    BY Parts DEF LinkInv, Types, ReaderFits, RequestLines
  <1>7. session # NoScan => session.id \in Ids
    BY Parts DEF Scans
  <1>8. ASSUME NEW k \in DOMAIN up', Asks(k)'
        PROVE  /\ Unanswered(up[k].id, up[k].purpose)'
               /\ \A i \in DOMAIN up' : i < k => Past(up[i].id, k)'
               /\ reader'.at = "trigger" => Past(reader.line.id, k)'
               /\ session' # NoScan => Past(session.id, k)'
    <2>1. k \in DOMAIN up /\ Asks(k) /\ up'[k] = up[k] /\ k \in Nat
      BY <1>1, <1>8 DEF Asks
    <2>2. /\ Unanswered(up[k].id, up[k].purpose)
          /\ \A i \in DOMAIN up : i < k => Past(up[i].id, k)
          /\ reader.at = "trigger" => Past(reader.line.id, k)
          /\ session # NoScan => Past(session.id, k)
      BY <2>1, Parts DEF QuestionsFit
    <2>3. Unanswered(up[k].id, up[k].purpose)'
      BY <1>4, <1>5, <2>1, <2>2 DEF Unanswered, Fresh
    <2>4. ASSUME NEW i \in DOMAIN up', i < k PROVE Past(up[i].id, k)'
      <3>1. i \in DOMAIN up /\ up'[i] = up[i]
        <4>1. DOMAIN up = 1..Len(up) /\ Len(up) \in Nat
          BY Parts DEF LinkInv, Types, PortTypes
        <4>2. i \in Nat /\ i > 0 /\ k \in Nat
          BY <1>1, <2>1
        <4>3. i \in DOMAIN up
          BY <2>1, <2>4, <4>1, <4>2
        <4>4. QED
          BY <1>1, <4>3
      <3>2. Past(up[i].id, k) /\ up[i].id # NoId
        BY <1>5, <2>2, <2>4, <3>1
      <3>3. QED
        BY <1>2, <3>1, <3>2 DEF Past
    <2>5. reader'.at = "trigger" => Past(reader.line.id, k)'
      BY <1>2, <1>5, <1>6, <2>2 DEF Past
    <2>6. session' # NoScan => Past(session.id, k)'
      BY <1>2, <1>5, <1>7, <2>2 DEF Past
    <2>7. QED
      BY <2>3, <2>4, <2>5, <2>6
  <1>9. reader'.at = "trigger" =>
          /\ Unanswered(reader.line.id, reader.line.purpose)'
          /\ session' # NoScan => Past(session.id, 1)' /\ reader'.line.id # session'.id
    <2>1. reader.at = "trigger" =>
            /\ Unanswered(reader.line.id, reader.line.purpose)
            /\ session # NoScan => Past(session.id, 1) /\ reader.line.id # session.id
      BY Parts DEF QuestionsFit
    <2>2. reader'.at = "trigger" => Unanswered(reader.line.id, reader.line.purpose)'
      BY <1>4, <1>5, <1>6, <2>1 DEF Unanswered, Fresh
    <2>3. reader'.at = "trigger" /\ session' # NoScan => Past(session.id, 1)'
      BY <1>2, <1>5, <1>7, <2>1 DEF Past
    <2>4. QED
      BY <2>1, <2>2, <2>3
  <1>10. session' # NoScan =>
          /\ request' = session'.id => purpose' = session'.purpose
          /\ session'.step \in Deciding => Fresh(session.id)'
    BY <1>3, <1>5, <1>7, Parts DEF QuestionsFit, Fresh, Answers
  <1>11. QED
    BY <1>8, <1>9, <1>10 DEF QuestionsFit

(* What the controller does by itself leaves the link as it is. *)
LEMMA ControlsKeep ==
    ASSUME SerialInv, LinkInv', locked' \in BOOLEAN, engine' \in BOOLEAN,
           UNCHANGED <<port, opened, link, reader, session, car>>, rebooted' \in BOOLEAN,
           trouble' \in 0..MaxTrouble, trouble <= trouble',
           AskedFits', QuestionsFit', DownFits', Agreed'
    PROVE  SerialInv'
  <1>1. UNCHANGED <<conn, pending, dropped, ignition, recorded>>
    BY DEF link, car
  <1>2. ValuesFit'
    BY <1>1, Parts DEF ValuesFit
  <1>3. PortsFit'
    <2>1. opened \in Nat /\ trouble \in Nat /\ trouble' \in Nat
      BY Parts, Numbers, SerialLinkAssumption DEF PortsFit
    <2>2. (Paid' <=> Paid) /\ UNCHANGED <<port, opened, conn, pending, reader, session>>
      BY <1>1 DEF Paid
    <2>3. opened' + (IF Paid' THEN 1 ELSE 0) <= trouble' + (IF port' = 0 THEN 0 ELSE 1)
      <3>1. opened + (IF Paid THEN 1 ELSE 0) <= trouble + (IF port = 0 THEN 0 ELSE 1)
        BY Parts DEF PortsFit
      <3>2. \A a, b, c, d, e \in Nat : a + b <= c + d /\ c <= e => a + b <= e + d
        OBVIOUS
      <3>3. (IF Paid THEN 1 ELSE 0) \in Nat /\ (IF port = 0 THEN 0 ELSE 1) \in Nat
        OBVIOUS
      <3>4. opened + (IF Paid THEN 1 ELSE 0) <= trouble' + (IF port = 0 THEN 0 ELSE 1)
        BY <2>1, <3>1, <3>2, <3>3
      <3>5. QED
        BY <2>2, <3>4
    <2>4. QED
      BY <2>2, <2>3, Parts DEF PortsFit
  <1>4. ConnFits'
    BY <1>1, Parts DEF ConnFits
  <1>5. WakeFits'
    BY <1>1, Parts DEF WakeFits, Matches
  <1>6. QED
    BY <1>2, <1>3, <1>4, <1>5 DEF SerialInv

(* Neither the line nor the car is touched. *)
LEMMA AgreedIdle ==
    ASSUME SerialInv, UNCHANGED <<down, locked, engine, port, conn, reader, session, recorded,
                                  ignition, acted, rebooted>>
    PROVE  Agreed'
  <1>1. NearingFits'
    BY Parts DEF Agreed, NearingFits
  <1>2. (Synced' <=> Synced) /\ Mild
    BY DEF Synced, Mild
  <1>3. (CommandsFit' <=> CommandsFit) /\ (StateFits' <=> StateFits)
    BY DEF CommandsFit, Own, Under, Follows, StateFits, Ahead, Agrees
  <1>4. QED
    BY <1>1, <1>2, <1>3, Parts DEF Agreed

(* A new id stands apart from all that was asked. *)
LEMMA AskSafe ==
    ASSUME SerialInv, LinkInv', Controls, NEW id \in Ids, Ask(id)
    PROVE  SerialInv'
  <1>1. /\ UNCHANGED <<locked, engine, down, port, opened, link, reader, session, car, rebooted,
                       trouble>>
        /\ id \notin asked /\ request = NoId /\ request' = id /\ asked' = asked \cup {id}
        /\ UNCHANGED <<conn, recorded, ignition>>
    BY DEF Ask, Controls, outputs, link, car
  <1>2. PICK line \in RequestLines : /\ line.id = id /\ line.purpose = purpose'
                                     /\ line.cmd = "START_AUTH" /\ up' = Append(up, line)
    BY DEF Ask, Says, StartAuth, RequestLines
  <1>3. acted' = acted
    BY <1>2, Parts, ActedAdds
  <1>4. /\ acted \subseteq asked /\ NoId \notin Ids /\ asked \subseteq Ids
        /\ \A i \in DOMAIN up : up[i].id \in asked
        /\ \A i \in DOMAIN down : down[i].cmd = "AUTHORIZED" =>
             /\ down[i].id \in asked /\ down[i].id \notin acted
             /\ \A j \in DOMAIN down : down[j] = down[i] => j = i
        /\ reader.at = "trigger" => reader.line.id \in asked
        /\ session # NoScan => session.id \in asked
    BY Parts, RequesterAssumption DEF AskedFits, LinkInv, Types, RequesterTypes
  <1>5. PICK n \in Nat \ {0} :
          /\ DOMAIN up = 1..(n - 1) /\ DOMAIN up' = 1..n /\ up'[n] = line
          /\ \A k \in 1..(n - 1) : up'[k] = up[k]
    <2>1. up \in Seq(RequestLines)
      BY Parts DEF LinkInv, Types, PortTypes
    <2>2. /\ Len(up) \in Nat /\ DOMAIN up = 1..Len(up) /\ DOMAIN up' = 1..(Len(up) + 1)
          /\ up'[Len(up) + 1] = line /\ \A k \in 1..Len(up) : up'[k] = up[k]
      BY <1>2, <2>1
    <2>3. Len(up) + 1 \in Nat \ {0} /\ Len(up) + 1 - 1 = Len(up)
      BY <2>2
    <2>4. QED
      BY <2>2, <2>3
  <1>6. AskedFits'
    <2>1. \A k \in DOMAIN up' : k \in DOMAIN up \/ k = n
      BY <1>5
    <2>2. \A k \in DOMAIN up' : up'[k].id \in asked'
      BY <1>1, <1>2, <1>4, <1>5, <2>1
    <2>3. QED
      BY <1>1, <1>3, <1>4, <2>2 DEF AskedFits
  <1>7. QuestionsFit'
    <2>1. \A x : Fresh(x)' <=> Fresh(x)
      BY <1>1, <1>3 DEF Fresh
    <2>2. Fresh(id)
      BY <1>1, <1>4 DEF Fresh, Reply
    <2>3. ASSUME NEW x \in asked, NEW k, k \in Nat, Past(x, k) \/ k = n
          PROVE  Past(x, k)'
      <3>1. request' # x
        BY <1>1, <2>3
      <3>2. \A j \in DOMAIN up' : j >= k => up'[j].id # x
        BY <1>1, <1>2, <1>5, <2>3 DEF Past
      <3>3. QED
        BY <3>1, <3>2 DEF Past
    <2>4. ASSUME NEW x \in asked, NEW p, Unanswered(x, p)
          PROVE  Unanswered(x, p)'
      BY <1>1, <2>1, <2>4 DEF Unanswered
    <2>5. ASSUME NEW k \in DOMAIN up', Asks(k)'
          PROVE  /\ Unanswered(up[k].id, up[k].purpose)'
                 /\ \A i \in DOMAIN up' : i < k => Past(up[i].id, k)'
                 /\ reader'.at = "trigger" => Past(reader.line.id, k)'
                 /\ session' # NoScan => Past(session.id, k)'
      <3>1. CASE k \in DOMAIN up
        <4>1. up'[k] = up[k] /\ Asks(k) /\ up[k].id \in asked /\ k \in Nat
          BY <1>4, <1>5, <2>5, <3>1 DEF Asks
        <4>2. /\ Unanswered(up[k].id, up[k].purpose)
              /\ \A i \in DOMAIN up : i < k => Past(up[i].id, k)
              /\ reader.at = "trigger" => Past(reader.line.id, k)
              /\ session # NoScan => Past(session.id, k)
          BY <3>1, <4>1, Parts DEF QuestionsFit
        <4>3. Unanswered(up[k].id, up[k].purpose)'
          BY <2>4, <4>1, <4>2 DEF Unanswered, Fresh
        <4>4. ASSUME NEW i \in DOMAIN up', i < k PROVE Past(up[i].id, k)'
          <5>1. i \in DOMAIN up /\ up'[i] = up[i] /\ up[i].id \in asked
            BY <1>4, <1>5, <3>1, <4>4
          <5>2. QED
            BY <2>3, <4>1, <4>2, <4>4, <5>1 DEF Past
        <4>5. reader'.at = "trigger" => Past(reader.line.id, k)'
          BY <1>1, <1>4, <2>3, <4>1, <4>2 DEF Past
        <4>6. session' # NoScan => Past(session.id, k)'
          BY <1>1, <1>4, <2>3, <4>1, <4>2 DEF Past
        <4>7. QED
          BY <4>3, <4>4, <4>5, <4>6
      <3>2. CASE k = n
        <4>1. Unanswered(up[k].id, up[k].purpose)'
          BY <1>1, <1>2, <1>5, <2>1, <2>2, <3>2 DEF Unanswered, Fresh
        <4>2. ASSUME NEW i \in DOMAIN up', i < k PROVE Past(up[i].id, k)'
          <5>1. i \in DOMAIN up /\ up'[i] = up[i] /\ up[i].id \in asked
            BY <1>4, <1>5, <3>2, <4>2
          <5>2. QED
            BY <2>3, <3>2, <5>1 DEF Past
        <4>3. reader'.at = "trigger" => Past(reader.line.id, k)'
          BY <1>1, <1>4, <2>3, <3>2 DEF Past
        <4>4. session' # NoScan => Past(session.id, k)'
          BY <1>1, <1>4, <2>3, <3>2 DEF Past
        <4>5. QED
          BY <4>1, <4>2, <4>3, <4>4
      <3>3. QED
        BY <1>5, <3>1, <3>2
    <2>6. reader'.at = "trigger" =>
            /\ Unanswered(reader.line.id, reader.line.purpose)'
            /\ session' # NoScan => Past(session.id, 1)' /\ reader'.line.id # session'.id
      <3>1. reader.at = "trigger" =>
              /\ Unanswered(reader.line.id, reader.line.purpose)
              /\ session # NoScan => Past(session.id, 1) /\ reader.line.id # session.id
        BY Parts DEF QuestionsFit
      <3>2. reader'.at = "trigger" => Unanswered(reader.line.id, reader.line.purpose)'
        BY <1>1, <1>4, <2>4, <3>1 DEF Unanswered, Fresh
      <3>3. QED
        BY <1>1, <1>4, <2>3, <3>1, <3>2 DEF Past
    <2>7. session' # NoScan =>
            /\ request' = session'.id => purpose' = session'.purpose
            /\ session'.step \in Deciding => Fresh(session.id)'
      BY <1>1, <1>4, <2>1, Parts DEF QuestionsFit, Fresh
    <2>8. QED
      BY <2>5, <2>6, <2>7 DEF QuestionsFit
  <1>8. Agreed'
    BY <1>1, <1>3, AgreedIdle
  <1>9. DownFits' /\ locked' \in BOOLEAN /\ engine' \in BOOLEAN /\ rebooted' \in BOOLEAN
        /\ trouble' \in 0..MaxTrouble /\ trouble <= trouble'
    <2>1. trouble \in Nat
      BY Parts, SerialLinkAssumption DEF PortsFit
    <2>2. QED
      BY <1>1, <2>1, Parts, LinesStay DEF ValuesFit, PortsFit
  <1>10. QED
    BY <1>1, <1>6, <1>7, <1>8, <1>9, ControlsKeep

LEMMA CallsOff ==
    ASSUME LinkInv, Controls, CallOff
    PROVE  request' = NoId /\ (up' = up \/ \E line : Prints(line)) /\ acted' = acted
  <1>1. CASE up' = up
    BY <1>1, ActedAdds DEF CallOff
  <1>2. CASE request # NoId /\ Says(Cancel(request))
    <2>1. /\ Cancel(request) \in RequestLines /\ up' = Append(up, Cancel(request))
          /\ Cancel(request).id = request /\ Cancel(request).cmd = "AUTH_CANCEL"
      BY <1>2 DEF Says, Cancel, RequestLines, LinkInv, Types, RequesterTypes
    <2>2. Prints(Cancel(request))
      BY <1>2, <2>1 DEF Prints
    <2>3. acted' = acted
      BY <2>1, ActedAdds
    <2>4. QED
      BY <2>2, <2>3 DEF CallOff
  <1>3. QED
    BY <1>1, <1>2 DEF CallOff

(* A request that answers, and an agreement that stands, are all there is. *)
LEMMA AnswersSafe ==
    ASSUME SerialInv, LinkInv', Controls, Answers, UNCHANGED <<purpose, asked>>,
           locked' \in BOOLEAN, engine' \in BOOLEAN, Agreed'
    PROVE  SerialInv'
  <1>1. UNCHANGED <<port, opened, link, reader, session, car, rebooted, trouble>>
    BY DEF Controls
  <1>2. AskedFits' /\ QuestionsFit'
    BY <1>1, AnswersAsked, AnswersQuestions
  <1>3. DownFits'
    <2>1. CASE down' = down
      BY <2>1, Parts, LinesStay
    <2>2. ASSUME NEW line, Take(line) PROVE DownFits'
      BY <2>2, Parts, TakenLine
    <2>3. QED
      BY <2>1, <2>2 DEF Answers
  <1>4. rebooted' \in BOOLEAN /\ trouble' \in 0..MaxTrouble /\ trouble <= trouble'
    <2>1. trouble \in Nat
      BY Parts, SerialLinkAssumption DEF PortsFit
    <2>2. QED
      BY <1>1, <2>1, Parts DEF ValuesFit, PortsFit
  <1>5. QED
    BY <1>1, <1>2, <1>3, <1>4, ControlsKeep

LEMMA ExpireSafe ==
    ASSUME SerialInv, LinkInv', Controls, Expire
    PROVE  SerialInv'
  <1>1. CallOff /\ UNCHANGED <<purpose, asked, locked, engine, down>>
    BY DEF Expire, outputs
  <1>2. request' = NoId /\ (up' = up \/ \E line : Prints(line)) /\ acted' = acted
    BY <1>1, Parts, CallsOff
  <1>3. Answers
    BY <1>1, <1>2 DEF Answers
  <1>4. UNCHANGED <<port, conn, reader, session, recorded, ignition, rebooted>>
    BY DEF Controls, link, car
  <1>5. Agreed'
    BY <1>1, <1>2, <1>4, AgreedIdle
  <1>6. QED
    BY <1>1, <1>3, <1>5, Parts, AnswersSafe DEF ValuesFit

(* A STOP and its LOCK put the car in order, whatever it was. *)
LEMMA CommandSafe ==
    ASSUME SerialInv, LinkInv', Controls, TakeCommand
    PROVE  SerialInv'
  <1>1. \A c : Raw(c).cmd = c
    BY DEF Raw
  <1>2. \/ Take(Raw("STOP")) /\ CallOff /\ engine' = FALSE /\ locked' = locked
        \/ Take(Raw("LOCK")) /\ CallOff /\ locked' = TRUE /\ engine' = engine
    <2>1. \A c : Take(Raw(c)) => c \in HostSays
      BY <1>1, Parts, TakenLine
    <2>2. /\ "STATUS" \notin HostSays /\ "START" \notin HostSays /\ "UNLOCK" \notin HostSays
      BY DEF HostSays, AuthReplies, Refusals
    <2>3. QED
      BY <2>1, <2>2 DEF TakeCommand
  <1>3. request' = NoId /\ (up' = up \/ \E line : Prints(line)) /\ acted' = acted
    BY <1>2, Parts, CallsOff
  <1>4. Answers /\ UNCHANGED <<purpose, asked>>
    BY <1>2, <1>3 DEF Answers, TakeCommand
  <1>5. /\ locked \in BOOLEAN /\ engine \in BOOLEAN /\ locked' \in BOOLEAN /\ engine' \in BOOLEAN
        /\ ignition \in BOOLEAN
    BY <1>2, Parts DEF ValuesFit
  <1>6. UNCHANGED <<port, conn, reader, session, recorded, ignition, rebooted>>
    BY DEF Controls, link, car
  <1>7. CASE Take(Raw("STOP")) /\ engine' = FALSE /\ locked' = locked
    <2>1. ASSUME CommandsFit, StateFits PROVE StateFits'
      <3>1. 1 \in DOMAIN down /\ down[1].cmd = "STOP"
        BY <1>1, <1>7, Parts, TakenLine
      <3>2. Under("LOCK")' /\ Under("LOCK")
        BY <1>1, <1>7, <2>1, <3>1, Parts, TakenFollow DEF CommandsFit
      <3>3. recorded = "locked" /\ ~ignition
        BY <2>1, <3>2 DEF CommandsFit
      <3>4. Agrees'
        BY <1>5, <1>6, <1>7, <3>2, <3>3 DEF Agrees
      <3>5. ~(session.step = "wait" /\ session.id \in acted)
        BY <2>1, <3>2 DEF StateFits, Ahead
      <3>6. QED
        BY <1>3, <1>6, <3>4, <3>5 DEF StateFits
    <2>2. Agreed'
      BY <1>6, <1>7, <2>1, TakenAgreed
    <2>3. QED
      BY <1>4, <1>5, <2>2, AnswersSafe
  <1>8. CASE Take(Raw("LOCK")) /\ locked' = TRUE /\ engine' = engine
    <2>1. ASSUME CommandsFit, StateFits PROVE StateFits'
      <3>1. Under("LOCK") /\ (Under("STOP")' <=> Under("STOP"))
        <4>1. Raw("LOCK").cmd # "STOP"
          BY <1>1
        <4>2. QED
          BY <1>1, <1>8, <4>1, Parts, TakenFollow
      <3>2. recorded = "locked" /\ ~ignition
        BY <2>1, <3>1 DEF CommandsFit
      <3>3. session.step # "undo" => Agrees
        BY <2>1, <3>1 DEF StateFits, Ahead
      <3>4. session.step # "undo" => Agrees'
        BY <1>6, <1>8, <3>1, <3>2, <3>3 DEF Agrees
      <3>5. ~(session.step = "wait" /\ session.id \in acted)
        BY <2>1, <3>1 DEF StateFits, Ahead
      <3>6. QED
        BY <1>3, <1>6, <3>4, <3>5 DEF StateFits
    <2>2. Agreed'
      BY <1>6, <1>8, <2>1, TakenAgreed
    <2>3. QED
      BY <1>4, <1>5, <2>2, AnswersSafe
  <1>9. QED
    BY <1>2, <1>7, <1>8

(* A reply that is not acted on only leaves the line. *)
LEMMA HeededNot ==
    ASSUME SerialInv, NEW line, Take(line), line.cmd \in AuthReplies,
           UNCHANGED <<locked, engine, port, conn, reader, session, recorded, ignition,
                       acted, rebooted>>
    PROVE  Agreed'
  <1>1. \A c \in {"STOP", "LOCK"} : Under(c)' <=> Under(c)
    <2>1. line.cmd \notin {"STOP", "LOCK"}
      BY DEF AuthReplies, Refusals
    <2>2. QED
      BY <2>1, Parts, TakenFollow
  <1>2. StateFits => StateFits'
    BY <1>1 DEF StateFits, Ahead, Agrees
  <1>3. QED
    BY <1>2, TakenAgreed

(* The grant is what the worker waits for, or it comes to nothing: a STOP  *)
(* and a LOCK follow, or the worker is about to send them.                 *)
LEMMA GrantTaken ==
    ASSUME SerialInv, Take(Reply("AUTHORIZED", request)), request \in Ids,
           locked' = (locked /\ ~(Fits /\ purpose = "UNLOCK")),
           engine' = (engine \/ (Fits /\ purpose = "IGNITION")),
           acted' = (IF Fits THEN acted \cup {request} ELSE acted),
           UNCHANGED <<port, conn, reader, session, recorded, ignition, rebooted>>
    PROVE  Agreed'
  <1> DEFINE line == Reply("AUTHORIZED", request)
  <1>1. line.cmd = "AUTHORIZED" /\ line.id = request
    BY DEF Reply
  <1>2. Take(line)
    OBVIOUS
  <1> HIDE DEF line
  <1>3. 1 \in DOMAIN down /\ down[1] = line
    BY <1>2, Parts, TakenLine
  <1>4. \A c \in {"STOP", "LOCK"} : (Under(c)' <=> Follows(c, 1)) /\ (Under(c) <=> Follows(c, 1))
    BY <1>1, <1>2, Parts, TakenFollow
  <1>5. request \notin acted
    BY <1>1, <1>3, Parts DEF AskedFits
  <1>6. ASSUME CommandsFit, StateFits PROVE StateFits'
    <2>1. CASE session.step = "undo"
      BY <2>1 DEF StateFits
    <2>2. CASE session.step # "undo" /\ Own(1) /\ ~Follows("STOP", 1) /\ ~Follows("LOCK", 1)
      <3>1. session.step = "wait" /\ session.id = request /\ session # NoScan
        BY <1>1, <1>3, <2>2, Gone DEF Own, LockSteps
      <3>2. session.purpose = purpose
        BY <3>1, Parts DEF QuestionsFit
      <3>3. Agrees
        BY <1>5, <1>6, <3>1 DEF StateFits
      <3>4. /\ locked = (recorded = "locked") /\ engine = ignition
            /\ ~Under("STOP") /\ ~Under("LOCK") /\ ~Under("STOP")' /\ ~Under("LOCK")'
        BY <1>4, <2>2, <3>3 DEF Agrees
      <3>5. CASE Fits
        <4>1. session'.id \in acted'
          BY <3>1, <3>5
        <4>2. purpose \in {"UNLOCK", "IGNITION"} /\ engine \in BOOLEAN /\ locked \in BOOLEAN
              /\ ignition \in BOOLEAN
          BY Parts DEF LinkInv, Types, RequesterTypes, ValuesFit
        <4>3. ~locked'
          BY <3>5, <4>2 DEF Fits
        <4>4. engine' = (ignition' \/ session'.purpose = "IGNITION")
          BY <3>2, <3>4, <3>5, <4>2
        <4>5. Ahead'
          BY <3>4, <4>3, <4>4 DEF Ahead
        <4>6. QED
          BY <3>1, <4>1, <4>5 DEF StateFits
      <3>6. CASE ~Fits
        <4>1. UNCHANGED <<locked, engine, acted>>
          BY <3>6, Parts DEF ValuesFit
        <4>2. Agrees'
          BY <3>4, <4>1 DEF Agrees
        <4>3. QED
          BY <1>5, <3>1, <4>1, <4>2 DEF StateFits
      <3>7. QED
        BY <3>5, <3>6
    <2>3. CASE session.step # "undo" /\ ~Own(1) /\ Follows("STOP", 1)
      <3>1. Under("STOP")' /\ Under("LOCK")' /\ Under("STOP") /\ Under("LOCK")
        <4>1. PICK j \in DOMAIN down : j > 1 /\ down[j].cmd = "STOP"
          BY <2>3 DEF Follows
        <4>2. PICK i \in DOMAIN down : i > j /\ down[i].cmd = "LOCK"
          BY <1>6, <4>1 DEF CommandsFit, Follows
        <4>3. i > 1
          <5>1. DOMAIN down \subseteq Nat
            BY <1>2, Parts, TakenLine
          <5>2. QED
            BY <4>1, <4>2, <5>1
        <4>4. Follows("LOCK", 1)
          BY <4>2, <4>3 DEF Follows
        <4>5. QED
          BY <1>4, <2>3, <4>4
      <3>2. session.step = "wait" => session.id # request /\ session.id \notin acted
        BY <1>1, <1>3, <1>6, <2>3, <3>1 DEF Own, StateFits, Ahead
      <3>3. session'.step = "wait" => session'.id \notin acted'
        BY <3>2
      <3>4. Agrees'
        BY <3>1 DEF Agrees
      <3>5. QED
        BY <3>3, <3>4 DEF StateFits
    <2>4. QED
      BY <1>1, <1>3, <1>6, <2>1, <2>2, <2>3 DEF CommandsFit
  <1>7. QED
    BY <1>2, <1>6, TakenAgreed

LEMMA ReplySafe ==
    ASSUME SerialInv, LinkInv', Controls, TakeReply
    PROVE  SerialInv'
  <1>1. PICK id \in Ids : TakeAuthorized(id) \/ TakeRefusal(id) \/ TakeLate(id) \/ TakeUnheeded(id)
    BY DEF TakeReply
  <1>2. /\ UNCHANGED <<port, conn, reader, session, recorded, ignition, rebooted>>
        /\ UNCHANGED <<purpose, asked>>
    BY <1>1 DEF Controls, link, car, TakeAuthorized, TakeRefusal, TakeLate, TakeUnheeded
  <1>3. locked \in BOOLEAN /\ engine \in BOOLEAN /\ id # NoId /\ up \in Seq(RequestLines)
    BY Parts, RequesterAssumption DEF ValuesFit, LinkInv, Types, PortTypes
  <1>4. CASE TakeAuthorized(id)
    <2> DEFINE answer == IF Fits THEN Ack(id) ELSE Cancel(id)
    <2>1. /\ request = id /\ Take(Reply("AUTHORIZED", request)) /\ request' = NoId
          /\ up' = Append(up, answer)
          /\ locked' = (locked /\ ~(Fits /\ purpose = "UNLOCK"))
          /\ engine' = (engine \/ (Fits /\ purpose = "IGNITION"))
      BY <1>4 DEF TakeAuthorized, Says
    <2>2. /\ answer \in RequestLines /\ answer.id = id /\ answer.cmd # "START_AUTH"
          /\ answer.cmd = "AUTH_ACK" <=> Fits
      BY DEF Ack, Cancel, RequestLines
    <2>3. acted' = (IF Fits THEN acted \cup {request} ELSE acted)
      BY <2>1, <2>2, Parts, ActedAdds
    <2> HIDE DEF answer
    <2>4. Answers
      <3>1. Prints(answer)
        BY <1>3, <2>1, <2>2 DEF Prints
      <3>2. QED
        BY <2>1, <2>3, <3>1 DEF Answers
    <2>5. Agreed'
      BY <1>2, <2>1, <2>3, GrantTaken
    <2>6. locked' \in BOOLEAN /\ engine' \in BOOLEAN
      BY <1>3, <2>1
    <2>7. QED
      BY <1>2, <2>4, <2>5, <2>6, AnswersSafe
  <1>5. CASE TakeRefusal(id) \/ TakeLate(id) \/ TakeUnheeded(id)
    <2>1. PICK c \in AuthReplies : Take(Reply(c, id))
      BY <1>5 DEF TakeRefusal, TakeLate, TakeUnheeded, AuthReplies
    <2>2. UNCHANGED <<locked, engine>>
      BY <1>5 DEF TakeRefusal, TakeLate, TakeUnheeded, outputs
    <2>3. /\ request' \in {request, NoId} /\ acted' = acted
          /\ up' = up \/ \E line : Prints(line)
      <3>1. CASE TakeLate(id)
        BY <3>1, Parts, CallsOff DEF TakeLate
      <3>2. CASE TakeRefusal(id) \/ TakeUnheeded(id)
        BY <3>2, Parts, ActedAdds DEF TakeRefusal, TakeUnheeded
      <3>3. QED
        BY <1>5, <3>1, <3>2
    <2>4. Answers
      BY <2>1, <2>3 DEF Answers
    <2>5. Agreed'
      <3>1. Reply(c, id).cmd \in AuthReplies
        BY DEF Reply
      <3>2. QED
        BY <1>2, <2>1, <2>2, <2>3, <3>1, HeededNot
    <2>6. QED
      BY <1>2, <1>3, <2>2, <2>4, <2>5, AnswersSafe
  <1>6. QED
    BY <1>1, <1>4, <1>5

LEMMA ControlsSafe ==
    ASSUME SerialInv, LinkInv', Controls
    PROVE  SerialInv'
  <1>1. CASE asked # Ids /\ Ask(CHOOSE id \in Ids : id \notin asked)
    <2>1. asked \subseteq Ids
      BY Parts DEF LinkInv, Types, RequesterTypes
    <2>2. (CHOOSE id \in Ids : id \notin asked) \in Ids
      <3>1. \E id \in Ids : id \notin asked
        BY <1>1, <2>1
      <3>2. QED
        BY <3>1
    <2>3. QED
      BY <1>1, <2>2, AskSafe
  <1>2. QED
    BY <1>1, ExpireSafe, CommandSafe, ReplySafe DEF Controls, LoopStep

(* After a restart nothing on the line is meant for the controller.        *)
LEMMA RebootSafe ==
    ASSUME SerialInv, LinkInv', Reboot
    PROVE  SerialInv'
  <1>1. /\ UNCHANGED <<port, opened, link, reader, session, car, acted, asked, up>>
        /\ request' = NoId /\ engine' = FALSE /\ locked' \in BOOLEAN
        /\ down' = << >> /\ rebooted' = TRUE
        /\ trouble < MaxTrouble /\ trouble' = trouble + 1
    BY DEF Reboot, Restart
  <1>2. UNCHANGED <<conn, recorded, ignition>>
    BY <1>1 DEF link, car
  <1>3. NoId \notin Ids /\ asked \subseteq Ids
    BY Parts, RequesterAssumption DEF LinkInv, Types, RequesterTypes
  <1>4. DownFits'
    <2>1. << >> \in Seq(HostLines)
      OBVIOUS
    <2>2. QED
      BY <1>1, <2>1 DEF DownFits
  <1>5. AskedFits'
    BY <1>1, <1>3, Parts DEF AskedFits
  <1>6. QuestionsFit'
    <2>1. \A id : Fresh(id) => Fresh(id)'
      BY <1>1 DEF Fresh
    <2>2. \A id, n : id \in asked /\ Past(id, n) => Past(id, n)'
      BY <1>1, <1>3 DEF Past
    <2>3. \A id, p : id \in asked /\ Unanswered(id, p) => Unanswered(id, p)'
      BY <1>1, <1>3, <2>1 DEF Unanswered
    <2>4. /\ \A i \in DOMAIN up : up[i].id \in asked
          /\ reader.at = "trigger" => reader.line.id \in asked
          /\ session # NoScan => session.id \in asked
      BY Parts DEF AskedFits
    <2>5. ASSUME NEW k \in DOMAIN up', Asks(k)'
          PROVE  /\ Unanswered(up[k].id, up[k].purpose)'
                 /\ \A i \in DOMAIN up' : i < k => Past(up[i].id, k)'
                 /\ reader'.at = "trigger" => Past(reader.line.id, k)'
                 /\ session' # NoScan => Past(session.id, k)'
      <3>1. /\ Asks(k) /\ k \in DOMAIN up /\ Unanswered(up[k].id, up[k].purpose)
            /\ \A i \in DOMAIN up : i < k => Past(up[i].id, k)
            /\ reader.at = "trigger" => Past(reader.line.id, k)
            /\ session # NoScan => Past(session.id, k)
        BY <1>1, <2>5, Parts DEF QuestionsFit, Asks
      <3>2. Unanswered(up[k].id, up[k].purpose)'
        BY <1>1, <2>3, <2>4, <3>1 DEF Unanswered, Fresh
      <3>3. QED
        BY <1>1, <2>2, <2>4, <3>1, <3>2 DEF Past
    <2>6. reader'.at = "trigger" =>
            /\ Unanswered(reader.line.id, reader.line.purpose)'
            /\ session' # NoScan => Past(session.id, 1)' /\ reader'.line.id # session'.id
      <3>1. reader.at = "trigger" =>
              /\ Unanswered(reader.line.id, reader.line.purpose)
              /\ session # NoScan => Past(session.id, 1) /\ reader.line.id # session.id
        BY Parts DEF QuestionsFit
      <3>2. reader'.at = "trigger" => Unanswered(reader.line.id, reader.line.purpose)'
        BY <1>1, <2>3, <2>4, <3>1 DEF Unanswered, Fresh
      <3>3. QED
        BY <1>1, <2>2, <2>4, <3>1, <3>2 DEF Past
    <2>7. session' # NoScan =>
            /\ request' = session'.id => purpose' = session'.purpose
            /\ session'.step \in Deciding => Fresh(session.id)'
      BY <1>1, <1>3, <2>1, <2>4, Parts DEF QuestionsFit, Fresh
    <2>8. QED
      BY <2>5, <2>6, <2>7 DEF QuestionsFit
  <1>7. Agreed'
    BY <1>1, <1>2, Parts DEF Agreed, NearingFits
  <1>8. trouble' \in 0..MaxTrouble /\ trouble <= trouble'
    BY <1>1, Parts, SerialLinkAssumption DEF PortsFit
  <1>9. QED
    BY <1>1, <1>4, <1>5, <1>6, <1>7, <1>8, ControlsKeep

-----------------------------------------------------------------------------
LEMMA InitSafe == Init => SerialInv
  <1> SUFFICES ASSUME Init PROVE SerialInv
    OBVIOUS
  <1>1. /\ request = NoId /\ asked = {} /\ engine = FALSE /\ locked \in BOOLEAN
        /\ down = << >> /\ up = << >> /\ port = 0 /\ opened = 0 /\ conn = 0
        /\ pending = NoWait /\ dropped = NoId /\ session = NoScan
        /\ reader.at = "top" /\ reader.conn = 0 /\ ignition = FALSE
        /\ recorded \in {"locked", "unlocked"} /\ acted = {} /\ rebooted = FALSE /\ trouble = 0
    BY DEF Init, RequesterInit
  <1>2. ValuesFit
    BY <1>1 DEF ValuesFit
  <1>3. PortsFit
    <2>1. ~Paid /\ pending.conn = 0 /\ 0 \in 0..MaxTrouble
      BY <1>1, SerialLinkAssumption DEF Paid, NoWait
    <2>2. opened + (IF Paid THEN 1 ELSE 0) <= trouble + (IF port = 0 THEN 0 ELSE 1)
      BY <1>1, <2>1
    <2>3. QED
      BY <1>1, <2>1, <2>2 DEF PortsFit
  <1>4. ConnFits /\ WakeFits
    BY <1>1, Gone DEF ConnFits, WakeFits
  <1>5. AskedFits /\ QuestionsFit
    BY <1>1 DEF AskedFits, QuestionsFit
  <1>6. DownFits
    <2>1. << >> \in Seq(HostLines)
      OBVIOUS
    <2>2. QED
      BY <1>1, <2>1 DEF DownFits
  <1>7. Agreed
    BY <1>1, Gone DEF Agreed, Synced, NearingFits
  <1>8. QED
    BY <1>2, <1>3, <1>4, <1>5, <1>6, <1>7, InitLinks DEF SerialInv

LEMMA StepSafe == SerialInv /\ [Next]_vars => SerialInv'
  <1> SUFFICES ASSUME SerialInv, [Next]_vars PROVE SerialInv'
    OBVIOUS
  <1>1. LinkInv'
    BY Parts, StepLinks
  <1>2. CASE ReaderStep \/ ReadFails
    BY <1>1, <1>2, GetSafe, AdoptSafe, LoopSafe, CancelAllSafe, SyncResetSafe, ReadTriggerSafe,
       ReadResultSafe, FindCancelledSafe, StartScanSafe, ReaderAnswersSafe, AnswerPendingSafe
    DEF ReaderStep
  <1>3. CASE WorkerStep
    BY <1>1, <1>3, EndScanSafe, RecognisedSafe, AuthorizeSafe, CheckReplySafe,
       WriteAuthorizedSafe, JudgeSafe, UndoSafe
    DEF WorkerStep
  <1>4. CASE ForceLock \/ Controls \/ Reboot \/ LineLost
    BY <1>1, <1>4, ForceLockSafe, ControlsSafe, RebootSafe, LineLostSafe
  <1>5. CASE UNCHANGED vars
    <2>1. UNCHANGED <<down, locked, engine, port, opened, conn, reader, session, recorded,
                      ignition, acted, rebooted, link, car, trouble, request, purpose, asked, up>>
      BY <1>5 DEF vars, controller, serial, link, car, ghost
    <2>2. Agreed' /\ DownFits'
      BY <2>1, Parts, AgreedIdle, LinesStay
    <2>3. AskedFits' /\ QuestionsFit'
      BY <2>1, Parts DEF AskedFits, QuestionsFit, Asks, Unanswered, Fresh, Past
    <2>4. /\ locked' \in BOOLEAN /\ engine' \in BOOLEAN /\ rebooted' \in BOOLEAN
          /\ trouble' \in 0..MaxTrouble /\ trouble <= trouble'
      <3>1. trouble \in Nat
        BY Parts, SerialLinkAssumption DEF PortsFit
      <3>2. QED
        BY <2>1, <3>1, Parts DEF ValuesFit, PortsFit
    <2>5. QED
      BY <1>1, <2>1, <2>2, <2>3, <2>4, ControlsKeep
  <1>6. QED
    BY <1>2, <1>3, <1>4, <1>5 DEF Next

LEMMA AlwaysSerialInv == Spec => []SerialInv
  <1>1. QED
    BY InitSafe, StepSafe, PTL DEF Spec

-----------------------------------------------------------------------------
(* What the invariant is for *)

LEMMA TypesFollow == SerialInv => SerialLinkTypeOK
  <1> SUFFICES ASSUME SerialInv PROVE SerialLinkTypeOK
    OBVIOUS
  <1>1. /\ RequesterTypes /\ PortTypes /\ ReaderFits /\ pending \in Waits
        /\ session = NoScan \/ session \in Scans
    BY Parts DEF LinkInv, Types
  <1>2. /\ port \in Nat /\ opened \in Nat /\ conn \in Nat /\ pending.conn \in Nat
        /\ reader.conn \in Nat /\ trouble \in Nat /\ MaxTrouble \in Nat
        /\ session # NoScan => session.conn \in Nat
    BY Parts, Numbers, SerialLinkAssumption DEF PortsFit
  <1>3. opened <= MaxTrouble + 1
    BY <1>2, Parts DEF PortsFit
  <1>4. /\ port \in Connections \cup {0} /\ opened \in Connections \cup {0}
        /\ conn \in Connections \cup {0} /\ reader.conn \in Connections \cup {0}
        /\ pending.conn \in Connections \cup {0}
        /\ session # NoScan => session.conn \in Connections
    BY <1>2, <1>3, Parts DEF PortsFit, Connections
  <1>5. pending \in [accepted : BOOLEAN, done : BOOLEAN,
                     id : Ids \cup {NoId}, conn : Connections \cup {0}]
    BY <1>1, <1>4 DEF Waits
  <1>6. session = NoScan \/
        session \in [step : {"start", "scan"} \cup LockSteps, id : Ids,
                     purpose : {"UNLOCK", "IGNITION"}, conn : Connections,
                     cancelled : BOOLEAN, fresh : BOOLEAN]
    BY <1>1, <1>4 DEF Scans
  <1>7. asked \subseteq Ids /\ acted \subseteq Ids /\ granted \subseteq Ids
    BY <1>1, Parts DEF RequesterTypes, AskedFits, LinkInv, Acks, GrantedWasActed
  <1>8. QED
    BY <1>1, <1>4, <1>5, <1>6, <1>7, Parts
    DEF SerialLinkTypeOK, RequesterTypes, PortTypes, ReaderFits, Readers, ValuesFit, PortsFit,
        DownFits

(* The link that is up has been reset, and the worker is not at its wait.  *)
LEMMA AgreementFollows == SerialInv => AgreesWhenQuiet
  <1> SUFFICES ASSUME SerialInv, Linked, LockFree, ~rebooted,
                      \A i \in DOMAIN down : down[i].cmd \notin RawCommands
               PROVE  locked = (recorded = "locked") /\ engine = ignition
    BY DEF AgreesWhenQuiet
  <1>1. Synced
    BY DEF Synced, Linked
  <1>2. session.step # "wait" /\ session.step # "undo"
    BY Gone DEF LockFree, LockSteps
  <1>3. ~Under("STOP") /\ ~Under("LOCK")
    BY DEF Under, RawCommands
  <1>4. QED
    BY <1>1, <1>2, <1>3, Parts DEF Agreed, StateFits, Agrees

(* Whatever the reader waits for, the worker that waits has been woken, or *)
(* its acknowledgement will not come.                                      *)
LEMMA ReaderFollows == SerialInv => ReaderFreeForAck
  <1> SUFFICES ASSUME SerialInv, At("wait"), ~pending.done,
                      reader.at \in {"cancelAll", "reset", "trigger", "cancelling"}
               PROVE  /\ reader.at = "trigger" /\ request # session.id
                      /\ \A i \in DOMAIN up : up[i] # Ack(session.id)
    BY DEF ReaderFreeForAck
  <1>1. session.step \in Granting /\ session # NoScan
    BY Gone DEF At, Granting, LockSteps
  <1>2. conn = session.conn
    BY <1>1, Parts DEF WakeFits
  <1>3. reader.at \notin {"cancelAll", "reset"}
    <2>1. ASSUME reader.at \in {"cancelAll", "reset"} PROVE FALSE
      <3>1. conn \in {0, reader.conn} /\ session.conn # reader.conn /\ session.conn # 0
        BY <1>1, <2>1, Parts DEF ConnFits, PortsFit
      <3>2. QED
        BY <1>2, <3>1
    <2>2. QED
      BY <2>1
  <1>4. reader.at # "cancelling"
    BY <1>1, Parts DEF WakeFits
  <1>5. reader.at = "trigger" /\ Past(session.id, 1)
    BY <1>1, <1>3, <1>4, Parts DEF QuestionsFit
  <1>6. \A i \in DOMAIN up : i >= 1
    BY Parts DEF LinkInv, Types, PortTypes
  <1>7. QED
    BY <1>5, <1>6 DEF Past, Ack

(* Types, and the agreement of the car with the host's record whenever the *)
(* link is up and quiet, for any number of requests, failures and lines.   *)
THEOREM LinkAlwaysAgrees == Spec => []LinkAgrees
  <1>1. SerialInv => LinkAgrees
    BY TypesFollow, AgreementFollows DEF LinkAgrees
  <1>2. QED
    BY <1>1, AlwaysSerialInv, PTL

(* The reader never waits for a worker that waits for the reader.          *)
THEOREM ReaderAlwaysFreeForAck == Spec => []ReaderFreeForAck
  <1>1. QED
    BY ReaderFollows, AlwaysSerialInv, PTL
=============================================================================
