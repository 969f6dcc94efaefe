----------------------------- MODULE SerialLink -----------------------------
(***************************************************************************)
(* One face request from the controller's START_AUTH to the host's record  *)
(* of it: Esp32Link and the parts of PiRuntime that it and the scan worker *)
(* call, composed with what module Requester says of the controller.       *)
(*                                                                         *)
(* The reader thread and the scan worker meet at two locks: the link's,    *)
(* held for a moment (one action), and the actuation lock, which the       *)
(* worker keeps while it waits for the acknowledgement.  Whatever the      *)
(* reader does under the actuation lock is one action that waits until     *)
(* LockFree.  Recognition is left out: a scan may be granted at any time.  *)
(* Sent commands wait in "down", so "locked" and "engine" lag behind what  *)
(* the host has recorded.                                                  *)
(***************************************************************************)
EXTENDS Requester

CONSTANTS
    MaxTrouble,  \* bound on failed writes and reads, and restarts
    DownCap      \* nobody else locks the car while this many lines are under way

ASSUME SerialLinkAssumption == MaxTrouble \in Nat /\ DownCap \in Nat

VARIABLES
    port,        \* PiRuntime._serial: the number of the open connection, or 0
    opened,      \* connections opened so far
    conn,        \* Esp32Link._connection, or 0
    pending,     \* _pending: the acknowledgement waited for, or NoWait
    dropped,     \* _cancelled_request_id, or NoId
    reader,      \* where the link thread stands, its connection and line
    session,     \* the hardware scan and where its worker stands, or NoScan
    ignition,    \* RuntimeActuation._ignition_on
    recorded,    \* the lock state in the database
    granted,     \* requests the host granted
    acted,       \* requests the controller acted on
    rebooted,    \* the controller restarted after the last complete reset
    trouble      \* failures so far

controller == <<request, purpose, asked, locked, engine>>
link == <<conn, pending, dropped>>
serial == <<port, opened, down, up>>
car == <<ignition, recorded, granted>>
ghost == <<acted, rebooted, trouble>>
vars == <<controller, serial, link, reader, session, car, ghost>>

Connections == 1..(MaxTrouble + 1)
NoWait == [accepted |-> FALSE, done |-> TRUE, id |-> NoId, conn |-> 0]
NoScan == [step |-> "none"]
NoLine == Cancel(NoId)

(* Where the link thread may stand: reading a line is "read", the others   *)
(* come before a lock, a write or a wait. *)
Places == {"top", "got", "cancelAll", "reset", "read", "trigger", "pending",
           "cancel", "cancelling", "failed", "close"}

(* Steps of the worker under the actuation lock, in their order. *)
LockSteps == {"authorize", "reply", "write", "wait", "undo", "refuse"}
LockFree == session = NoScan \/ session.step \notin LockSteps

Init ==
    /\ RequesterInit
    /\ port = 0 /\ opened = 0 /\ conn = 0
    /\ pending = NoWait /\ dropped = NoId
    /\ reader = [at |-> "top", conn |-> 0, line |-> NoLine]
    /\ session = NoScan
    /\ ignition = FALSE /\ recorded \in {"locked", "unlocked"}
    /\ granted = {} /\ acted = {} /\ rebooted = FALSE /\ trouble = 0

-----------------------------------------------------------------------------
(* The serial port *)

(* connection_lost(c), where the wait it leaves behind is "wait": only the *)
(* link's own connection can be lost, and its loss wakes the worker.       *)
LostWait(c, wait) ==
    IF c = conn /\ wait # NoWait THEN [wait EXCEPT !.accepted = FALSE, !.done = TRUE]
                                 ELSE wait
ConnectionLost(c) ==
    /\ conn' = IF c = conn THEN 0 ELSE conn
    /\ dropped' = IF c = conn THEN NoId ELSE dropped

(* A failure may cut the line anywhere in what was written; "more" follows *)
(* over a new port.                                                        *)
CutAfter(lines, more) ==
    /\ trouble < MaxTrouble /\ trouble' = trouble + 1
    /\ \E n \in 0..Len(down \o lines) : down' = SubSeq(down \o lines, 1, n) \o more

Sent(lines) == down' = down \o lines /\ UNCHANGED trouble

(* _ensure_serial opens a port and discards what had arrived before. *)
OpenPort == opened' = opened + 1 /\ port' = opened + 1 /\ up' = << >>

ClosePort == port' = 0 /\ UNCHANGED <<opened, up>>

(* link.reply: refused unless the request's connection is the link's and   *)
(* the port's.  A failed write closes the port.                            *)
TryReply(line, c, ok) ==
    IF c # conn \/ c # port
    THEN ~ok /\ UNCHANGED <<serial, link, trouble>>
    ELSE \/ ok /\ Sent(<<line>>) /\ UNCHANGED <<port, opened, up, link>>
         \/ /\ ~ok /\ CutAfter(<<line>>, << >>) /\ ClosePort
            /\ ConnectionLost(port) /\ pending' = LostWait(port, pending)

Secure == <<Raw("STOP"), Raw("LOCK")>>

(* _dispatch_lock.  Each of the two writes opens a port when none is open. *)
(* A STOP that fails closes the port, and the LOCK may go to a new one.    *)
DispatchLock(ok) ==
    \/ /\ ok /\ Sent(Secure)
       /\ IF port = 0 THEN OpenPort ELSE UNCHANGED <<port, opened, up>>
       /\ recorded' = "locked" /\ rebooted' = FALSE
       /\ UNCHANGED <<conn, dropped>>
    \/ /\ ~ok /\ port = 0
       /\ \/ UNCHANGED <<serial, trouble>>
          \/ OpenPort /\ Sent(<<Raw("LOCK")>>)
       /\ UNCHANGED <<conn, dropped, rebooted, recorded>>
    \/ /\ ~ok /\ port # 0
       /\ ConnectionLost(port)
       /\ \/ ClosePort /\ CutAfter(Secure, << >>)
          \/ OpenPort /\ CutAfter(<<Raw("STOP")>>, <<Raw("LOCK")>>)
       /\ UNCHANGED <<rebooted, recorded>>

(* The wait that is left when a lock was dispatched: none was lost if the  *)
(* port had been closed before. *)
WaitAfterLock(ok) == IF ok \/ port = 0 THEN pending ELSE LostWait(port, pending)

(* Any generation a scan saw is outdated. *)
Outdate(scan) == IF scan = NoScan THEN NoScan ELSE [scan EXCEPT !.fresh = FALSE]

-----------------------------------------------------------------------------
(* The link thread *)

Goto(at) == reader' = [reader EXCEPT !.at = at]

(* Back to the loop, with nothing left of the line. *)
Loop == reader' = [reader EXCEPT !.at = "read", !.line = NoLine]

(* esp32_link_connection, at every turn of the loop: the port that is open *)
(* by now, or a new one.                                                   *)
GetConnection ==
    /\ reader.at = "top" \/ (reader.at = "read" /\ reader.conn # port)
    /\ IF port = 0 THEN OpenPort ELSE UNCHANGED <<port, opened, up>>
    /\ reader' = [reader EXCEPT !.at = "got", !.conn = port']
    /\ UNCHANGED <<controller, down, link, session, car, ghost>>

(* No port can be opened: the connection the link still held is lost.      *)
NoConnection ==
    /\ reader.at = "top" \/ (reader.at = "read" /\ reader.conn # port)
    /\ port = 0
    /\ ConnectionLost(conn) /\ pending' = LostWait(conn, pending)
    /\ Goto("top")
    /\ UNCHANGED <<controller, serial, session, car, ghost>>

(* By now the port may be closed again, or be another one. *)
AdoptConnection ==
    /\ reader.at = "got"
    /\ IF reader.conn = conn
       THEN Goto("read") /\ UNCHANGED link
       ELSE /\ Goto("cancelAll")
            /\ pending' = LostWait(conn, pending)
            /\ conn' = reader.conn /\ dropped' = NoId
    /\ UNCHANGED <<controller, serial, session, car, ghost>>

(* sync_esp32_state: the scan of an older connection is cancelled; there   *)
(* is nobody to answer any more.                                           *)
CancelAll ==
    /\ reader.at = "cancelAll" /\ LockFree
    /\ Goto("reset")
    /\ session' = IF session = NoScan THEN NoScan ELSE [session EXCEPT !.cancelled = TRUE]
    /\ UNCHANGED <<controller, serial, link, car, ghost>>

(* reset_connection: the engine is forgotten whatever comes of the writes. *)
SyncReset ==
    /\ reader.at = "reset" /\ LockFree
    /\ \E ok \in BOOLEAN :
         /\ DispatchLock(ok) /\ pending' = WaitAfterLock(ok)
         /\ Goto(IF ok THEN "read" ELSE "failed")
    /\ ignition' = FALSE
    /\ session' = Outdate(session)
    /\ UNCHANGED <<controller, granted, acted>>

Reads == reader.at = "read" /\ reader.conn = port /\ up # << >> /\ up' = Tail(up)

ReadTrigger ==
    /\ Reads /\ Head(up).cmd = "START_AUTH"
    /\ reader' = [reader EXCEPT !.at = "trigger", !.line = Head(up)]
    /\ UNCHANGED <<controller, port, opened, down, link, session, car, ghost>>

(* Mutant: the lock is taken before the worker is woken. *)
ReceiveAckOnly(c, id, accepted) ==
    /\ dropped' = IF ~accepted /\ c = conn THEN id ELSE dropped
    /\ pending' = IF accepted /\ pending.conn = c /\ pending.id = id
                  THEN [pending EXCEPT !.accepted = TRUE, !.done = TRUE]
                  ELSE pending
    /\ UNCHANGED conn

(* _receive_result: the worker is woken before anything takes its lock. *)
ReceiveResult(c, id, accepted) ==
    /\ dropped' = IF ~accepted /\ c = conn THEN id ELSE dropped
    /\ pending' = IF pending.conn = c /\ pending.id = id
                  THEN [pending EXCEPT !.accepted = accepted, !.done = TRUE]
                  ELSE pending
    /\ UNCHANGED conn

Matches(scan, id) == scan # NoScan /\ scan.id = id /\ scan.conn = reader.conn

ReadResult ==
    /\ Reads /\ Head(up).cmd \in {"AUTH_ACK", "AUTH_CANCEL"}
    /\ ReceiveResult(reader.conn, Head(up).id, Head(up).cmd = "AUTH_ACK")
    /\ IF Head(up).cmd = "AUTH_ACK"
       THEN UNCHANGED reader
       ELSE reader' = [reader EXCEPT !.at = "cancel", !.line = Head(up)]
    /\ UNCHANGED <<controller, port, opened, down, session, car, ghost>>

(* cancel_esp32_scan, up to the lock *)
FindCancelled ==
    /\ reader.at = "cancel"
    /\ IF Matches(session, reader.line.id)
       THEN Goto("cancelling") /\ session' = [session EXCEPT !.cancelled = TRUE]
       ELSE Loop /\ UNCHANGED session
    /\ UNCHANGED <<controller, serial, link, car, ghost>>

(* and under it.  A scan that ended by now may have had its answer. *)
CancelScan ==
    /\ reader.at = "cancelling" /\ LockFree
    /\ Loop
    /\ \/ \E ok \in BOOLEAN : TryReply(Reply("DENIED", reader.line.id), reader.conn, ok)
       \/ ~Matches(session, reader.line.id) /\ UNCHANGED <<serial, link, trouble>>
    /\ UNCHANGED <<controller, session, car, acted, rebooted>>

(* handle_esp32_trigger: an engine is not started in a locked car. *)
StartScan ==
    /\ reader.at = "trigger" /\ LockFree /\ session = NoScan
    /\ reader.line.purpose = "IGNITION" => recorded = "unlocked"
    /\ session' = [step |-> "start", id |-> reader.line.id, purpose |-> reader.line.purpose,
                   conn |-> reader.conn, cancelled |-> FALSE, fresh |-> TRUE]
    /\ Goto("pending")
    /\ UNCHANGED <<controller, serial, link, car, ghost>>

(* Busy, cooling down, not in a state for it, or a failed check. *)
RefuseTrigger ==
    /\ reader.at = "trigger"
    /\ \E ok \in BOOLEAN : TryReply(Reply("DENIED", reader.line.id), reader.conn, ok)
    /\ Loop
    /\ UNCHANGED <<controller, session, car, acted, rebooted>>

(* The scan starts only once the controller can see AUTH_PENDING. *)
AnswerPending ==
    /\ reader.at = "pending" /\ session.step = "start"
    /\ \E ok \in BOOLEAN :
         /\ TryReply(Reply("AUTH_PENDING", session.id), session.conn, ok)
         /\ session' = IF ok THEN [session EXCEPT !.step = "scan"] ELSE NoScan
    /\ Loop
    /\ UNCHANGED <<controller, car, acted, rebooted>>

(* A read or the STATUS query fails, or the port has been closed. *)
ReadFails ==
    /\ reader.at = "read"
    /\ IF reader.conn = port THEN trouble < MaxTrouble /\ trouble' = trouble + 1
                             ELSE UNCHANGED trouble
    /\ Goto("failed")
    /\ UNCHANGED <<controller, serial, link, session, car, acted, rebooted>>

(* Mutant: the thread keeps reading from the connection that failed. *)
HandleFailureAndRead ==
    /\ reader.at = "failed"
    /\ ConnectionLost(reader.conn) /\ pending' = LostWait(reader.conn, pending)
    /\ Goto(IF reader.conn = port THEN "close" ELSE "read")
    /\ UNCHANGED <<controller, serial, session, car, ghost>>

(* connection_lost, then esp32_link_failed up to its lock *)
HandleFailure ==
    /\ reader.at = "failed"
    /\ ConnectionLost(reader.conn) /\ pending' = LostWait(reader.conn, pending)
    /\ Goto(IF reader.conn = port THEN "close" ELSE "top")
    /\ UNCHANGED <<controller, serial, session, car, ghost>>

(* _close_serial closes whatever port is open by now. *)
CloseFailed ==
    /\ reader.at = "close"
    /\ ClosePort
    /\ ConnectionLost(port) /\ pending' = LostWait(port, pending)
    /\ Goto("top")
    /\ UNCHANGED <<controller, down, session, car, ghost>>

ReaderStep ==
    \/ GetConnection \/ NoConnection \/ AdoptConnection \/ CancelAll \/ SyncReset
    \/ ReadTrigger \/ ReadResult \/ FindCancelled \/ CancelScan
    \/ StartScan \/ RefuseTrigger \/ AnswerPending
    \/ HandleFailure \/ CloseFailed

-----------------------------------------------------------------------------
(* The scan worker *)

At(step) == session.step = step
Worker(step) == session' = [session EXCEPT !.step = step]

(* No match, no time left, an error, or the scan was cancelled, which ends *)
(* it without an answer unless its failure is already being reported.      *)
EndScan ==
    /\ At("scan") \/ At("refuse")
    /\ IF At("scan") /\ session.cancelled
       THEN UNCHANGED <<serial, link, trouble>>
       ELSE \E ok \in BOOLEAN : TryReply(Reply("DENIED", session.id), session.conn, ok)
    /\ session' = NoScan
    /\ UNCHANGED <<controller, reader, car, acted, rebooted>>

(* The face matched: the actuation lock is taken and the scan rechecked. *)
Recognised ==
    /\ At("scan") /\ ~session.cancelled
    /\ Worker(IF /\ session.fresh
                 /\ session.purpose = "IGNITION" => recorded = "unlocked" /\ ~ignition
              THEN "authorize" ELSE "refuse")
    /\ UNCHANGED <<controller, serial, link, reader, car, ghost>>

(* Esp32Link.authorize up to its lock.  A cancelled scan sends nothing;    *)
(* every other doubt is answered with a reset.                             *)
Authorize ==
    /\ At("authorize")
    /\ IF session.cancelled THEN Worker("refuse") /\ UNCHANGED pending
       ELSE IF session.conn = conn /\ pending = NoWait /\ dropped # session.id
       THEN /\ Worker("reply")
            /\ pending' = [accepted |-> FALSE, done |-> FALSE,
                           id |-> session.id, conn |-> session.conn]
       ELSE Worker("undo") /\ UNCHANGED pending
    /\ UNCHANGED <<controller, serial, conn, dropped, reader, car, ghost>>

CheckReply ==
    /\ At("reply")
    /\ IF session.conn = conn THEN Worker("write") /\ UNCHANGED pending
                              ELSE Worker("undo") /\ pending' = NoWait
    /\ UNCHANGED <<controller, serial, conn, dropped, reader, car, ghost>>

(* send_esp32_reply *)
WriteAuthorized ==
    /\ At("write")
    /\ \/ /\ session.conn = port /\ Sent(<<Reply("AUTHORIZED", session.id)>>)
          /\ Worker("wait")
          /\ UNCHANGED <<port, opened, up, link>>
       \/ /\ session.conn = port /\ CutAfter(<<Reply("AUTHORIZED", session.id)>>, << >>)
          /\ ClosePort /\ ConnectionLost(port) /\ pending' = NoWait
          /\ Worker("undo")
       \/ /\ session.conn # port
          /\ pending' = NoWait
          /\ Worker("undo")
          /\ UNCHANGED <<serial, conn, dropped, trouble>>
    /\ UNCHANGED <<controller, reader, car, acted, rebooted>>

(* Mutant: being woken counts as being acknowledged. *)
JudgeWoken ==
    /\ At("wait")
    /\ pending' = NoWait
    /\ IF pending.done /\ session.conn = conn /\ ~session.cancelled
       THEN /\ session' = NoScan
            /\ granted' = granted \cup {session.id}
            /\ recorded' = "unlocked" /\ UNCHANGED ignition
       ELSE Worker("undo") /\ UNCHANGED car
    /\ UNCHANGED <<controller, serial, conn, dropped, reader, ghost>>

(* Mutant: the wait has no time limit. *)
JudgeUntimed ==
    /\ At("wait") /\ pending.done
    /\ pending' = NoWait
    /\ IF pending.accepted /\ session.conn = conn /\ ~session.cancelled
       THEN /\ session' = NoScan
            /\ granted' = granted \cup {session.id}
            /\ IF session.purpose = "UNLOCK"
               THEN recorded' = "unlocked" /\ UNCHANGED ignition
               ELSE ignition' = TRUE /\ UNCHANGED recorded
       ELSE Worker("undo") /\ UNCHANGED car
    /\ UNCHANGED <<controller, serial, conn, dropped, reader, ghost>>

(* The wait is over, woken or timed out.  A grant is recorded as such only *)
(* when this connection acknowledged it and nobody has cancelled it.       *)
Judge ==
    /\ At("wait")
    /\ pending' = NoWait
    /\ IF pending.accepted /\ session.conn = conn /\ ~session.cancelled
       THEN /\ session' = NoScan
            /\ granted' = granted \cup {session.id}
            /\ IF session.purpose = "UNLOCK"
               THEN recorded' = "unlocked" /\ UNCHANGED ignition
               ELSE ignition' = TRUE /\ UNCHANGED recorded
       ELSE Worker("undo") /\ UNCHANGED car
    /\ UNCHANGED <<controller, serial, conn, dropped, reader, ghost>>

(* Mutant: a missing acknowledgement is taken for a refusal. *)
UndoNothing ==
    /\ At("undo")
    /\ ignition' = FALSE
    /\ Worker("refuse")
    /\ UNCHANGED <<controller, serial, link, reader, recorded, granted, ghost>>

(* reset_connection: the controller may have acted, so nothing is retried. *)
Undo ==
    /\ At("undo")
    /\ \E ok \in BOOLEAN : DispatchLock(ok) /\ pending' = WaitAfterLock(ok)
    /\ ignition' = FALSE
    /\ Worker("refuse")
    /\ UNCHANGED <<controller, reader, granted, acted>>

WorkerStep ==
    \/ EndScan \/ Recognised \/ Authorize \/ CheckReply
    \/ WriteAuthorized \/ Judge \/ Undo

-----------------------------------------------------------------------------
(* Everything else *)

(* A person or the relock timer locks the car. *)
ForceLock ==
    /\ LockFree /\ Len(down) < DownCap
    /\ \E ok \in BOOLEAN :
         /\ DispatchLock(ok) /\ pending' = WaitAfterLock(ok)
         /\ ignition' = (ignition /\ ~ok)
    /\ session' = Outdate(session)
    /\ UNCHANGED <<controller, reader, granted, acted>>

(* One piece of the sketch's loop.  Ids are interchangeable. *)
LoopStep ==
    \/ asked # Ids /\ Ask(CHOOSE id \in Ids : id \notin asked)
    \/ Expire \/ TakeCommand \/ TakeReply
Controls ==
    /\ LoopStep
    /\ acted' = acted \cup {l.id : l \in {up'[i] : i \in {j \in DOMAIN up' :
                                            j > Len(up) /\ up'[j].cmd = "AUTH_ACK"}}}
    /\ UNCHANGED <<port, opened, link, reader, session, car, rebooted, trouble>>

Reboot ==
    /\ trouble < MaxTrouble /\ trouble' = trouble + 1
    /\ asked' = asked /\ Restart
    /\ rebooted' = TRUE
    /\ UNCHANGED <<port, opened, link, reader, session, car, acted>>

(* What the controller prints while no port is open is lost. *)
LineLost ==
    /\ port = 0 /\ up # << >> /\ up' = Tail(up)
    /\ UNCHANGED <<controller, port, opened, down, link, reader, session, car, ghost>>

Next ==
    \/ ReaderStep \/ ReadFails \/ WorkerStep
    \/ ForceLock
    \/ Controls \/ Reboot \/ LineLost

Spec == Init /\ [][Next]_vars

(* Threads run, the wait for an acknowledgement ends after two seconds,    *)
(* the controller's loop takes every line, and a port can be opened.       *)
Fairness ==
    /\ WF_vars(ReaderStep) /\ WF_vars(ReadFails /\ UNCHANGED trouble)
    /\ WF_vars(WorkerStep)
    /\ WF_vars(Controls /\ down' # down) /\ WF_vars(Controls /\ Expire)
    /\ WF_vars(LineLost)

FairSpec == Spec /\ Fairness

-----------------------------------------------------------------------------
(* Properties *)

SerialLinkTypeOK ==
    /\ request \in Ids \cup {NoId} /\ purpose \in {"UNLOCK", "IGNITION"}
    /\ asked \subseteq Ids
    /\ locked \in BOOLEAN /\ engine \in BOOLEAN
    /\ down \in Seq(HostLines) /\ up \in Seq(RequestLines)
    /\ port \in Connections \cup {0} /\ opened \in Connections \cup {0}
    /\ conn \in Connections \cup {0}
    /\ pending \in [accepted : BOOLEAN, done : BOOLEAN,
                    id : Ids \cup {NoId}, conn : Connections \cup {0}]
    /\ dropped \in Ids \cup {NoId}
    /\ reader.at \in Places
    /\ reader.conn \in Connections \cup {0}
    /\ session = NoScan \/
       session \in [step : {"start", "scan"} \cup LockSteps, id : Ids,
                    purpose : {"UNLOCK", "IGNITION"}, conn : Connections,
                    cancelled : BOOLEAN, fresh : BOOLEAN]
    /\ ignition \in BOOLEAN /\ recorded \in {"locked", "unlocked"}
    /\ granted \subseteq Ids /\ acted \subseteq Ids
    /\ rebooted \in BOOLEAN /\ trouble \in 0..MaxTrouble

(* The host records a grant only for a request the controller acted on:    *)
(* no stale, foreign or withdrawn acknowledgement is ever taken for one.   *)
GrantedWasActed == granted \subseteq acted

(* The link is up: the thread reads from the port that everybody writes.   *)
Linked ==
    /\ port # 0 /\ conn = port /\ reader.conn = port
    /\ reader.at \in {"read", "trigger", "pending", "cancel", "cancelling"}

(* While the link is up, no grant is in progress and every command has     *)
(* been taken, lock and engine are as the host has recorded them - though  *)
(* grants, cancellations, timeouts and broken writes crossed each other on *)
(* the way.  Only a restart of the controller can break that, until the    *)
(* next reset.                                                             *)
AgreesWhenQuiet ==
    Linked /\ LockFree /\ ~rebooted
        /\ (\A i \in DOMAIN down : down[i].cmd \notin RawCommands)
        => locked = (recorded = "locked") /\ engine = ignition

(* The link's bookkeeping and both ends of the line fit each other. *)
LinkAgrees == SerialLinkTypeOK /\ AgreesWhenQuiet

(* "Keep the reader free to receive ACKs while a scan worker waits for     *)
(* one": whenever the reader has to wait for the worker, it has woken it   *)
(* before.  The exception is a new request of a controller that restarted  *)
(* without a word, and then the acknowledgement will not come.             *)
ReaderFreeForAck ==
    (At("wait") /\ ~pending.done /\ reader.at \in {"cancelAll", "reset", "trigger", "cancelling"})
        => /\ reader.at = "trigger" /\ request # session.id
           /\ \A i \in DOMAIN up : up[i] # Ack(session.id)

(* Every scan comes to an end and gives up the lock. *)
ScanEnds == session # NoScan ~> session = NoScan

(* A car that was opened but not granted, or locked but not yet, gets      *)
(* locked, unless somebody is granted first or the controller restarts.    *)
RecordedLockArrives ==
    (recorded = "locked" /\ ~locked) ~> (locked \/ recorded = "unlocked" \/ rebooted)
=============================================================================
