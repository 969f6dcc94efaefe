-------------------------- MODULE ControllerProofs --------------------------
(***************************************************************************)
(* Proofs about the ESP32 controller, for every number of readings, steps, *)
(* requests and resets and every buffer size.                              *)
(*                                                                         *)
(* The inductive invariant CtlInv is the type invariant with the four      *)
(* parts the run checks with it: none of them is inductive alone.          *)
(* AutoIgnitionFits needs to know that a command which moves the lock ends *)
(* the request first, WaitingFitsLock that a request is only issued at     *)
(* rest, and FlashCurrent what the stepper counter may be.                 *)
(***************************************************************************)
EXTENDS ControllerRequests, TLAPS

(* Serial.print of an authentication line keeps the channel typed. *)
LEMMA SendTyped ==
    ASSUME NEW line \in ControllerLines, tx \in Seq(ControllerLines), Send(line)
    PROVE  tx' \in Seq(ControllerLines)
  BY DEF Send

(* The lines requestAuth and the reply handlers print are controller lines. *)
LEMMA LinesTyped ==
    ASSUME NEW id \in RequestIds \cup {NoRequest}, NEW p \in Purposes
    PROVE  /\ StartAuth(p, id) \in ControllerLines
           /\ Ack(id) \in ControllerLines
           /\ Cancel(id) \in ControllerLines
  BY DEF StartAuth, Ack, Cancel, ControllerLines

(* A STATE line is one of the eight the protocol names. *)
LEMMA StateLineTyped ==
    ASSUME NEW l \in BOOLEAN, NEW m \in BOOLEAN, NEW e \in BOOLEAN
    PROVE  StateLine(l, m, e) \in LockStates \X {"ON", "OFF"}
  BY DEF StateLine, LockStates

(* Reading a line leaves a typed buffer. *)
LEMMA ReceiveTyped ==
    ASSUME NEW line, rx \in Seq(HostLines), Receive(line)
    PROVE  rx' \in Seq(HostLines)
  BY DEF Receive

(* cancelPendingAuth leaves no request open, whatever it found. *)
LEMMA CancelLeavesIdle ==
    ASSUME AuthTypeOK, tx \in Seq(ControllerLines), CancelPendingAuth
    PROVE  /\ AuthTypeOK'
           /\ tx' \in Seq(ControllerLines)
           /\ authState' = "IDLE"
  <1>1. CASE Waiting
    <2>1. Send(Cancel(request)) /\ CloseRequest
      BY <1>1 DEF CancelPendingAuth
    <2>2. Cancel(request) \in ControllerLines
      BY LinesTyped DEF AuthTypeOK, Purposes
    <2>3. QED
      BY <2>1, <2>2, SendTyped DEF CloseRequest, AuthTypeOK
  <1>2. CASE ~Waiting
    BY <1>2 DEF CancelPendingAuth, Waiting, authVars, AuthTypeOK
  <1>3. QED
    BY <1>1, <1>2

(* A new request is typed, is the counter's current one, and its purpose   *)
(* is the one the lock state asks for.                                     *)
LEMMA RequestFits ==
    ASSUME AuthTypeOK, locked \in BOOLEAN, tx \in Seq(ControllerLines),
           RequestAuth
    PROVE  /\ AuthTypeOK'
           /\ tx' \in Seq(ControllerLines)
           /\ authState' = "WAITING"
           /\ (purpose' = "UNLOCK") = locked
           /\ request' = <<boot', issued'>>
  <1>1. issued + 1 \in 1..MaxRequests
    BY ControllerConstants DEF RequestAuth, AuthTypeOK
  <1>2. AuthTypeOK' /\ authState' = "WAITING" /\ request' = <<boot', issued'>>
    BY <1>1 DEF RequestAuth, AuthTypeOK, RequestIds, Purposes
  <1>3. StartAuth(purpose', request') \in ControllerLines
    BY <1>2, LinesTyped DEF AuthTypeOK
  <1>4. tx' \in Seq(ControllerLines)
    BY <1>3, SendTyped DEF RequestAuth
  <1>5. (purpose' = "UNLOCK") = locked
    BY DEF RequestAuth
  <1>6. QED
    BY <1>2, <1>4, <1>5

(* Retargeting the stepper keeps the lock's types, the report and the      *)
(* flash invariant.                                                        *)
LEMMA MoveLockKeeps ==
    ASSUME NEW l \in BOOLEAN, LockTypeOK, ReportCurrent, FlashCurrent,
           report \in LockStates \X {"ON", "OFF"},
           MoveLock(l), UNCHANGED motor
    PROVE  /\ LockTypeOK'
           /\ ReportCurrent'
           /\ FlashCurrent'
           /\ locked' = l
           /\ report' \in LockStates \X {"ON", "OFF"}
  <1>1. LockTypeOK' /\ locked' = l
    BY DEF MoveLock, LockTypeOK
  <1>2. CASE locked = l
    <2>1. moving' = moving /\ report' = report
      BY <1>2 DEF MoveLock, LockTypeOK
    <2>2. QED
      BY <1>1, <1>2, <2>1 DEF MoveLock, ReportCurrent, FlashCurrent
  <1>3. CASE locked # l
    <2>1. moving' = TRUE /\ report' = StateLine(l, TRUE, motor)
      BY <1>3 DEF MoveLock, LockTypeOK
    <2>2. report' \in LockStates \X {"ON", "OFF"}
      BY <2>1, StateLineTyped DEF LockTypeOK
    <2>3. QED
      BY <1>1, <2>1, <2>2 DEF ReportCurrent, FlashCurrent
  <1>4. QED
    BY <1>2, <1>3

(* Switching the engine keeps its type and the report. *)
LEMMA SetEngineKeeps ==
    ASSUME NEW on \in BOOLEAN, LockTypeOK, ReportCurrent,
           report \in LockStates \X {"ON", "OFF"},
           SetEngine(on), UNCHANGED lockVars
    PROVE  /\ LockTypeOK'
           /\ ReportCurrent'
           /\ report' \in LockStates \X {"ON", "OFF"}
  <1>1. LockTypeOK'
    BY DEF SetEngine, LockTypeOK, lockVars
  <1>2. StateLine(locked, moving, on) \in LockStates \X {"ON", "OFF"}
    BY StateLineTyped DEF LockTypeOK
  <1>3. QED
    BY <1>1, <1>2 DEF SetEngine, ReportCurrent, lockVars

-----------------------------------------------------------------------------
(* The inductive invariant *)

(* setup() of the first boot establishes the invariant. *)
LEMMA InitEstablishes == ControllerInit => CtlInv
  <1> SUFFICES ASSUME ControllerInit PROVE CtlInv
    OBVIOUS
  <1>0. /\ locked \in BOOLEAN /\ moving \in BOOLEAN /\ flash \in BOOLEAN
        /\ motor \in BOOLEAN /\ person \in BOOLEAN
        /\ ~locked /\ ~moving /\ flash = locked
    BY Zenon DEF ControllerInit
  <1>1. LockTypeOK /\ FlashCurrent
    BY <1>0, ControllerConstants
       DEF ControllerInit, LockTypeOK, FlashCurrent, Target
  <1>2. AuthTypeOK /\ WaitingFitsLock /\ AutoIgnitionFits
    BY ControllerConstants
       DEF ControllerInit, AuthTypeOK, WaitingFitsLock, AutoIgnitionFits,
           Waiting, Purposes
  <1>3. SenseTypeOK
    BY <1>0, ControllerConstants DEF ControllerInit, SenseTypeOK
  <1>4. SerialTypeOK /\ ReportCurrent
    <2>1. ReportCurrent
      BY Zenon DEF ControllerInit, ReportCurrent
    <2>2. report \in LockStates \X {"ON", "OFF"}
      BY <1>0, <2>1, StateLineTyped DEF ReportCurrent
    <2>3. rx = << >> /\ tx = << >>
      BY DEF ControllerInit
    <2>4. SerialTypeOK
      BY <2>2, <2>3 DEF SerialTypeOK
    <2>5. QED
      BY <2>1, <2>4
  <1>5. QED
    BY <1>1, <1>2, <1>3, <1>4 DEF CtlInv, ControllerTypeOK

(* One step of the stepper: it ends by saving the target to flash. *)
LEMMA StepMotorKeeps == CtlInv /\ StepMotor => CtlInv'
  <1> SUFFICES ASSUME CtlInv, StepMotor PROVE CtlInv'
    OBVIOUS
  <1> DEFINE target == Target(locked)
             next == IF count < target THEN count + 1
                     ELSE IF count > target THEN count - 1 ELSE count
  <1>1. /\ LockTypeOK /\ AuthTypeOK /\ SenseTypeOK /\ SerialTypeOK
        /\ moving /\ count' = next /\ moving' = (next # target)
        /\ flash' = (IF next = target THEN locked ELSE flash)
        /\ report' = (IF next = target THEN StateLine(locked, FALSE, motor)
                                       ELSE report)
        /\ UNCHANGED <<locked, drift, motor, authVars, senseVars, auto, rx, tx>>
    BY DEF CtlInv, ControllerTypeOK, StepMotor
  <1>2. target \in 0..Travel /\ next \in 0..Travel
    BY <1>1, ControllerConstants DEF LockTypeOK, Target
  <1> HIDE DEF target, next
  <1>3. LockTypeOK' /\ FlashCurrent'
    <2>1. LockTypeOK'
      BY <1>1, <1>2 DEF LockTypeOK
    <2>2. ASSUME ~moving' PROVE flash' = locked' /\ count' = Target(locked')
      <3>1. next = target
        BY <1>1, <2>2
      <3>2. QED
        BY <1>1, <3>1 DEF target
    <2>3. QED
      BY <2>1, <2>2 DEF FlashCurrent
  <1>4. ReportCurrent' /\ report' \in LockStates \X {"ON", "OFF"}
    <2>1. CASE next = target
      <3>1. moving' = FALSE /\ report' = StateLine(locked, FALSE, motor)
        BY <1>1, <2>1
      <3>2. QED
        BY <1>1, <3>1, StateLineTyped DEF ReportCurrent, LockTypeOK
    <2>2. CASE next # target
      <3>1. moving' = moving /\ report' = report
        BY <1>1, <2>2 DEF LockTypeOK
      <3>2. QED
        BY <1>1, <3>1 DEF CtlInv, ReportCurrent, SerialTypeOK
    <2>3. QED
      BY <2>1, <2>2
  <1>5. AuthTypeOK' /\ SenseTypeOK' /\ SerialTypeOK'
    BY <1>1, <1>4 DEF authVars, senseVars, AuthTypeOK, SenseTypeOK, SerialTypeOK
  <1>6. authState = "IDLE"
    BY <1>1 DEF CtlInv, WaitingFitsLock, Waiting
  <1>7. WaitingFitsLock' /\ AutoIgnitionFits'
    BY <1>1, <1>6
       DEF CtlInv, WaitingFitsLock, AutoIgnitionFits, Waiting, authVars
  <1>8. QED
    BY <1>3, <1>4, <1>5, <1>7 DEF CtlInv, ControllerTypeOK

(* One reading of the presence sensor: a request is only issued at rest,   *)
(* with no other open, and it uses up a scheduled ignition scan.           *)
LEMMA PollSensorKeeps ==
    ASSUME NEW cm, CtlInv, PollSensor(cm)
    PROVE  CtlInv'
  <1>1. /\ LockTypeOK /\ AuthTypeOK /\ SenseTypeOK /\ SerialTypeOK
        /\ authState = "IDLE" /\ ~moving
        /\ UNCHANGED <<lockVars, motor, report, rx>>
    BY DEF CtlInv, ControllerTypeOK, PollSensor
  <1>2. near' \in 0..Readings /\ far' \in 0..Readings /\ person' \in BOOLEAN
    <2>1. CountReadings(cm)
      BY DEF PollSensor
    <2>2. near' \in 0..Readings /\ far' \in 0..Readings
      BY <1>1, <2>1, ControllerConstants DEF CountReadings, SenseTypeOK
    <2>3. person' \in BOOLEAN
      <3>1. person' = (IF person THEN far' < Readings ELSE near' >= Readings)
        BY <2>1 DEF CountReadings
      <3>2. CASE person
        BY <3>1, <3>2
      <3>3. CASE ~person
        BY <3>1, <3>3
      <3>4. QED
        BY <3>2, <3>3
    <2>4. QED
      BY <2>2, <2>3
  <1>3. sensor' \in {"armed", "disarmed", "rearmable"}
    BY <1>1 DEF PollSensor, AwaitAutoIgnition, FireAutoIgnition, WatchPresence,
                SenseTypeOK
  <1>4. LockTypeOK' /\ ReportCurrent' /\ FlashCurrent'
    BY <1>1 DEF CtlInv, lockVars, LockTypeOK, ReportCurrent, FlashCurrent
  <1>5. AuthTypeOK' /\ tx' \in Seq(ControllerLines)
        /\ WaitingFitsLock' /\ AutoIgnitionFits' /\ auto' \in {"off", "waiting", "elapsed"}
    <2>1. CASE RequestAuth /\ auto' = "off"
      <3>1. /\ AuthTypeOK' /\ tx' \in Seq(ControllerLines)
            /\ (purpose' = "UNLOCK") = locked
            /\ request' = <<boot', issued'>>
        BY <1>1, <2>1, RequestFits DEF LockTypeOK, SerialTypeOK
      <3>2. QED
        BY <1>1, <2>1, <3>1 DEF WaitingFitsLock, AutoIgnitionFits, lockVars
    <2>2. CASE UNCHANGED <<authVars, tx>> /\ (auto' = "off" \/ auto' = auto)
      BY <1>1, <2>2
         DEF CtlInv, AuthTypeOK, SerialTypeOK, SenseTypeOK, authVars, lockVars,
             WaitingFitsLock, AutoIgnitionFits, Waiting
    <2>3. QED
      BY <2>1, <2>2 DEF PollSensor, AwaitAutoIgnition, FireAutoIgnition,
                        WatchPresence
  <1>6. SenseTypeOK' /\ SerialTypeOK'
    BY <1>1, <1>2, <1>3, <1>5 DEF SenseTypeOK, SerialTypeOK
  <1>7. QED
    BY <1>4, <1>5, <1>6 DEF CtlInv, ControllerTypeOK

(* The deadline of a request cancels it and leaves the lock alone. *)
LEMMA ExpireKeeps ==
    ASSUME CtlInv, ExpireAuthRequest,
           UNCHANGED <<lockVars, motor, near, far, person, auto, report>>,
           rx' \in Seq(HostLines)
    PROVE  CtlInv'
  <1>1. /\ LockTypeOK /\ AuthTypeOK /\ SenseTypeOK /\ SerialTypeOK
        /\ Send(Cancel(request)) /\ CloseRequest /\ sensor' = "disarmed"
    BY DEF CtlInv, ControllerTypeOK, ExpireAuthRequest, Disarm
  <1>2. Cancel(request) \in ControllerLines
    BY <1>1, LinesTyped DEF AuthTypeOK, Purposes
  <1>3. AuthTypeOK' /\ tx' \in Seq(ControllerLines) /\ authState' = "IDLE"
    BY <1>1, <1>2, SendTyped DEF CloseRequest, AuthTypeOK, SerialTypeOK
  <1>4. QED
    BY <1>1, <1>3
       DEF CtlInv, ControllerTypeOK, lockVars, LockTypeOK, SenseTypeOK,
           SerialTypeOK, ReportCurrent, FlashCurrent, WaitingFitsLock,
           AutoIgnitionFits, Waiting

(* STOP, LOCK and UNLOCK close whatever request and schedule they find. *)
LEMMA CommandKeeps ==
    ASSUME CtlInv, CancelPendingAuth, Disarm, auto' = "off",
           UNCHANGED <<near, far, person>>, rx' \in Seq(HostLines),
           LockTypeOK', FlashCurrent', ReportCurrent',
           report' \in LockStates \X {"ON", "OFF"}
    PROVE  CtlInv'
  <1>1. /\ AuthTypeOK /\ SenseTypeOK /\ SerialTypeOK
    BY DEF CtlInv, ControllerTypeOK
  <1>2. AuthTypeOK' /\ tx' \in Seq(ControllerLines) /\ authState' = "IDLE"
    BY <1>1, CancelLeavesIdle DEF SerialTypeOK
  <1>3. QED
    BY <1>1, <1>2
       DEF CtlInv, ControllerTypeOK, SenseTypeOK, SerialTypeOK, Disarm,
           WaitingFitsLock, AutoIgnitionFits, Waiting

(* The bare commands. *)
LEMMA CommandsKeep ==
    ASSUME CtlInv, HandleStatus \/ HandleStart \/ HandleStop
                   \/ HandleLock \/ HandleUnlock
    PROVE  CtlInv'
  <1>1. /\ LockTypeOK /\ AuthTypeOK /\ SenseTypeOK /\ SerialTypeOK
        /\ ReportCurrent /\ FlashCurrent
        /\ report \in LockStates \X {"ON", "OFF"}
    BY DEF CtlInv, ControllerTypeOK, SerialTypeOK
  <1>2. rx' \in Seq(HostLines)
    BY <1>1, ReceiveTyped
       DEF HandleStatus, HandleStart, HandleStop, HandleLock, HandleUnlock,
           SerialTypeOK
  <1>3. CASE HandleStatus
    <2>1. report' = StateLine(locked, moving, motor)
      BY <1>3 DEF HandleStatus
    <2>2. report' \in LockStates \X {"ON", "OFF"}
      BY <1>1, <2>1, StateLineTyped DEF LockTypeOK
    <2>3. QED
      BY <1>2, <1>3, <2>1, <2>2
         DEF HandleStatus, CtlInv, ControllerTypeOK, lockVars, authVars,
             senseVars, LockTypeOK, AuthTypeOK, SenseTypeOK, SerialTypeOK,
             ReportCurrent, FlashCurrent, WaitingFitsLock, AutoIgnitionFits,
             Waiting
  <1>4. CASE HandleStart
    <2>1. SetEngine(TRUE)
          /\ UNCHANGED <<lockVars, authVars, senseVars, auto, tx>>
      BY <1>4 DEF HandleStart
    <2>2. LockTypeOK' /\ ReportCurrent'
          /\ report' \in LockStates \X {"ON", "OFF"}
      BY <1>1, <2>1, SetEngineKeeps
    <2>3. QED
      BY <1>2, <2>1, <2>2
         DEF CtlInv, ControllerTypeOK, lockVars, authVars, senseVars,
             AuthTypeOK, SenseTypeOK, SerialTypeOK, FlashCurrent,
             WaitingFitsLock, AutoIgnitionFits, Waiting
  <1>5. CASE HandleStop
    <2>1. CancelPendingAuth /\ auto' = "off" /\ SetEngine(FALSE) /\ Disarm
          /\ UNCHANGED <<lockVars, near, far, person>>
      BY <1>5 DEF HandleStop
    <2>2. LockTypeOK' /\ ReportCurrent'
          /\ report' \in LockStates \X {"ON", "OFF"}
      BY <1>1, <2>1, SetEngineKeeps
    <2>3. FlashCurrent'
      BY <1>1, <2>1 DEF FlashCurrent, lockVars
    <2>4. QED
      BY <1>2, <2>1, <2>2, <2>3, CommandKeeps
  <1>6. ASSUME NEW l \in BOOLEAN, CancelPendingAuth, auto' = "off",
               MoveLock(l), Disarm, UNCHANGED <<motor, near, far, person>>
        PROVE  CtlInv'
    <2>1. LockTypeOK' /\ ReportCurrent' /\ FlashCurrent'
          /\ report' \in LockStates \X {"ON", "OFF"}
      BY <1>1, <1>6, MoveLockKeeps
    <2>2. QED
      BY <1>2, <1>6, <2>1, CommandKeeps
  <1>7. CASE HandleLock
    BY <1>6, <1>7 DEF HandleLock
  <1>8. CASE HandleUnlock
    BY <1>6, <1>8 DEF HandleUnlock
  <1>9. QED
    BY <1>3, <1>4, <1>5, <1>7, <1>8

(* The reply to the request that waits, in time: the request ends with an  *)
(* ACK or a CANCEL, and a scan for the ignition is only scheduled for a    *)
(* car that has just been unlocked.                                        *)
LEMMA AuthorizedKeeps ==
    ASSUME NEW id \in RequestIds, CtlInv, HandleAuthorized(id)
    PROVE  CtlInv'
  <1>1. /\ LockTypeOK /\ AuthTypeOK /\ SenseTypeOK /\ SerialTypeOK
        /\ ReportCurrent /\ FlashCurrent
        /\ report \in LockStates \X {"ON", "OFF"}
        /\ Waiting
        /\ (purpose = "UNLOCK") = locked
    BY DEF CtlInv, ControllerTypeOK, SerialTypeOK, WaitingFitsLock, Waiting,
           InTime, HandleAuthorized
  <1>2. rx' \in Seq(HostLines)
    BY <1>1, ReceiveTyped DEF HandleAuthorized, SerialTypeOK
  <1>3. CloseRequest /\ sensor' = "disarmed" /\ UNCHANGED <<near, far, person>>
    BY DEF HandleAuthorized, Disarm
  <1>4. Ack(id) \in ControllerLines /\ Cancel(id) \in ControllerLines
    BY LinesTyped DEF Purposes
  <1>5. AuthTypeOK' /\ authState' = "IDLE"
    BY <1>1, <1>3 DEF AuthTypeOK, CloseRequest
  <1>6. auto = "off"
    BY <1>1 DEF CtlInv, AutoIgnitionFits, Waiting
  <1>7. ASSUME LockTypeOK', ReportCurrent', FlashCurrent',
               report' \in LockStates \X {"ON", "OFF"},
               Send(Ack(id)) \/ Send(Cancel(id)),
               \/ auto' = auto
               \/ auto' = "waiting" /\ ~locked'
        PROVE  CtlInv'
    <2>1. tx' \in Seq(ControllerLines)
      BY <1>1, <1>4, <1>7, SendTyped DEF SerialTypeOK
    <2>2. SenseTypeOK' /\ SerialTypeOK'
      BY <1>1, <1>2, <1>3, <1>6, <1>7, <2>1 DEF SenseTypeOK, SerialTypeOK
    <2>3. WaitingFitsLock' /\ AutoIgnitionFits'
      BY <1>5, <1>6, <1>7 DEF WaitingFitsLock, AutoIgnitionFits, Waiting
    <2>4. QED
      BY <1>5, <1>7, <2>2, <2>3 DEF CtlInv, ControllerTypeOK
  <1>8. CASE purpose = "UNLOCK" /\ AcceptUnlock(id)
    <2>1. MoveLock(FALSE) /\ Send(Ack(id)) /\ auto' = "waiting"
          /\ UNCHANGED motor
      BY <1>1, <1>8 DEF AcceptUnlock
    <2>2. LockTypeOK' /\ ReportCurrent' /\ FlashCurrent' /\ locked' = FALSE
          /\ report' \in LockStates \X {"ON", "OFF"}
      BY <1>1, <2>1, MoveLockKeeps
    <2>3. QED
      BY <1>7, <2>1, <2>2
  <1>9. CASE purpose = "IGNITION" /\ AcceptIgnition(id)
    <2>1. SetEngine(TRUE) /\ Send(Ack(id)) /\ UNCHANGED <<lockVars, auto>>
      BY <1>1, <1>9 DEF AcceptIgnition
    <2>2. LockTypeOK' /\ ReportCurrent'
          /\ report' \in LockStates \X {"ON", "OFF"}
      BY <1>1, <2>1, SetEngineKeeps
    <2>3. FlashCurrent'
      BY <1>1, <2>1 DEF FlashCurrent, lockVars
    <2>4. QED
      BY <1>7, <2>1, <2>2, <2>3
  <1>10. QED
    BY <1>8, <1>9 DEF HandleAuthorized

(* A step that only takes the serial lines, the deadlines' progress and    *)
(* the sensor's readiness forward.                                         *)
LEMMA QuietKeeps ==
    ASSUME CtlInv,
           UNCHANGED <<lockVars, motor, purpose, request, boot, issued,
                       near, far, person, report>>,
           \/ authState' = authState
           \/ InTime /\ authState' \in {"WAITING", "AGING", "EXPIRED"},
           \/ auto' = auto
           \/ auto = "waiting" /\ auto' = "elapsed",
           sensor' \in {"armed", "disarmed", "rearmable"},
           rx' \in Seq(HostLines), tx' \in Seq(ControllerLines)
    PROVE  CtlInv'
  <1>1. /\ LockTypeOK /\ AuthTypeOK /\ SenseTypeOK /\ SerialTypeOK
    BY DEF CtlInv, ControllerTypeOK
  <1>2. LockTypeOK' /\ AuthTypeOK' /\ SenseTypeOK' /\ SerialTypeOK'
    BY <1>1 DEF lockVars, LockTypeOK, AuthTypeOK, SenseTypeOK, SerialTypeOK
  <1>3. ReportCurrent' /\ FlashCurrent'
    BY DEF CtlInv, lockVars, ReportCurrent, FlashCurrent
  <1>4. WaitingFitsLock' /\ AutoIgnitionFits'
    BY DEF CtlInv, lockVars, WaitingFitsLock, AutoIgnitionFits, Waiting, InTime
  <1>5. QED
    BY <1>2, <1>3, <1>4 DEF CtlInv, ControllerTypeOK

(* The other replies: pending, refused, late, or for another request. *)
LEMMA OtherRepliesKeep ==
    ASSUME NEW id \in RequestIds, CtlInv,
           HandlePending(id) \/ HandleRefusal(id) \/ HandleLateReply(id)
               \/ IgnoreReply(id)
    PROVE  CtlInv'
  <1>1. /\ LockTypeOK /\ AuthTypeOK /\ SenseTypeOK /\ SerialTypeOK
    BY DEF CtlInv, ControllerTypeOK
  <1>2. rx' \in Seq(HostLines)
    BY <1>1, ReceiveTyped
       DEF HandlePending, HandleRefusal, HandleLateReply, IgnoreReply,
           SerialTypeOK
  <1>3. CASE HandlePending(id) \/ IgnoreReply(id)
    BY <1>1, <1>2, <1>3, QuietKeeps
       DEF HandlePending, IgnoreReply, authVars, senseVars, SenseTypeOK,
           SerialTypeOK
  <1>4. CASE HandleRefusal(id)
    <2>1. CloseRequest /\ sensor' = "disarmed"
          /\ UNCHANGED <<lockVars, motor, near, far, person, auto, report, tx>>
      BY <1>4 DEF HandleRefusal, Disarm
    <2>2. AuthTypeOK' /\ authState' = "IDLE"
      BY <1>1, <2>1 DEF CloseRequest, AuthTypeOK
    <2>3. QED
      BY <1>1, <1>2, <2>1, <2>2
         DEF CtlInv, ControllerTypeOK, lockVars, LockTypeOK, SenseTypeOK,
             SerialTypeOK, ReportCurrent, FlashCurrent, WaitingFitsLock,
             AutoIgnitionFits, Waiting
  <1>5. CASE HandleLateReply(id)
    BY <1>2, <1>5, ExpireKeeps DEF HandleLateReply
  <1>6. QED
    BY <1>3, <1>4, <1>5

(* A reset restores the lock from flash and forgets everything else. *)
LEMMA ResetKeeps == CtlInv /\ Reset => CtlInv'
  <1> SUFFICES ASSUME CtlInv, Reset PROVE CtlInv'
    OBVIOUS
  <1>1. /\ LockTypeOK /\ AuthTypeOK /\ SenseTypeOK /\ SerialTypeOK
    BY DEF CtlInv, ControllerTypeOK
  <1>2. /\ ~moving' /\ moving' \in BOOLEAN /\ motor' \in BOOLEAN
        /\ person' \in BOOLEAN /\ locked' = flash /\ flash' = flash
        /\ report' = StateLine(flash, FALSE, FALSE)
        /\ report' = StateLine(locked', moving', motor')
    BY Zenon DEF Reset
  <1>3. LockTypeOK' /\ FlashCurrent'
    <2>1. count' = Target(flash) /\ drift' = count + drift - Target(flash)
      BY DEF Reset
    <2>2. Target(flash) \in 0..Travel
      BY <1>1, ControllerConstants DEF LockTypeOK, Target
    <2>3. QED
      BY <1>1, <1>2, <2>1, <2>2 DEF LockTypeOK, FlashCurrent
  <1>4. AuthTypeOK' /\ authState' = "IDLE" /\ auto' = "off"
    BY <1>1, ControllerConstants DEF Reset, AuthTypeOK, Purposes
  <1>5. SenseTypeOK'
    <2>1. near' = 0 /\ far' = 0 /\ sensor' = "armed" /\ auto' = "off"
      BY DEF Reset
    <2>2. QED
      BY <1>2, <2>1, ControllerConstants DEF SenseTypeOK
  <1>6. SerialTypeOK' /\ ReportCurrent'
    <2>1. report' \in LockStates \X {"ON", "OFF"}
      BY <1>1, <1>2, StateLineTyped DEF LockTypeOK
    <2>2. rx' = << >> /\ tx' = tx
      BY DEF Reset
    <2>3. SerialTypeOK'
      BY <1>1, <2>1, <2>2 DEF SerialTypeOK
    <2>4. QED
      BY <1>2, <2>3 DEF ReportCurrent
  <1>7. WaitingFitsLock' /\ AutoIgnitionFits'
    BY <1>4 DEF WaitingFitsLock, AutoIgnitionFits, Waiting
  <1>8. QED
    BY <1>3, <1>4, <1>5, <1>6, <1>7 DEF CtlInv, ControllerTypeOK

(* The clock and the host only take deadlines and serial lines forward. *)
LEMMA EnvironmentKeeps == CtlInv /\ (Clock \/ Host) => CtlInv'
  <1> SUFFICES ASSUME CtlInv, Clock \/ Host PROVE CtlInv'
    OBVIOUS
  <1>1. SenseTypeOK /\ SerialTypeOK
    BY DEF CtlInv, ControllerTypeOK
  <1>2. rx' \in Seq(HostLines) /\ tx' \in Seq(ControllerLines)
    <2>1. CASE UNCHANGED rx /\ UNCHANGED tx
      BY <1>1, <2>1 DEF SerialTypeOK
    <2>2. CASE \E line \in HostLines : HostWrites(line)
      BY <1>1, <2>2 DEF SerialTypeOK, HostWrites
    <2>3. CASE HostReads
      BY <1>1, <2>3 DEF SerialTypeOK, HostReads
    <2>4. QED
      BY <2>1, <2>2, <2>3
         DEF Clock, AuthDeadline, RearmDeadline, AutoIgnitionDeadline, Host
  <1>3. CASE Clock
    BY <1>1, <1>2, <1>3, QuietKeeps
       DEF Clock, AuthDeadline, RearmDeadline, AutoIgnitionDeadline,
           authVars, senseVars, SenseTypeOK
  <1>4. CASE Host
    BY <1>1, <1>2, <1>4, QuietKeeps
       DEF Host, HostWrites, HostReads, authVars, senseVars, SenseTypeOK
  <1>5. QED
    BY <1>3, <1>4

(* The invariant is inductive: one step per action of the sketch. *)
LEMMA StepKeeps == CtlInv /\ [Next]_ctlVars => CtlInv'
  <1> SUFFICES ASSUME CtlInv, [Next]_ctlVars PROVE CtlInv'
    OBVIOUS
  <1>1. CASE StepMotor
    BY <1>1, StepMotorKeeps
  <1>2. CASE \E cm \in {"near", "gone", "between"} : PollSensor(cm)
    BY <1>2, PollSensorKeeps
  <1>3. CASE CheckAuthTimeout
    BY <1>3, ExpireKeeps
       DEF CheckAuthTimeout, CtlInv, ControllerTypeOK, SerialTypeOK
  <1>4. CASE HandleLine
    <2>1. CASE HandleAuthReply
      <3>1. PICK id \in RequestIds :
                \/ HandleAuthorized(id) \/ HandlePending(id)
                \/ HandleRefusal(id) \/ HandleLateReply(id) \/ IgnoreReply(id)
        BY <2>1 DEF HandleAuthReply
      <3>2. QED
        BY <3>1, AuthorizedKeeps, OtherRepliesKeep
    <2>2. QED
      BY <1>4, <2>1, CommandsKeep DEF HandleLine
  <1>5. CASE Clock \/ Host
    BY <1>5, EnvironmentKeeps
  <1>6. CASE Reset
    BY <1>6, ResetKeeps
  <1>7. CASE UNCHANGED ctlVars
    BY <1>7, QuietKeeps
       DEF ctlVars, lockVars, authVars, senseVars, CtlInv, ControllerTypeOK,
           SenseTypeOK, SerialTypeOK
  <1>8. QED
    BY <1>1, <1>2, <1>3, <1>4, <1>5, <1>6, <1>7 DEF Next, Loop

(* The invariant holds in every state the controller reaches. *)
THEOREM Invariance == Spec => []CtlInv
  <1>1. Init => CtlInv
    BY InitEstablishes DEF Init
  <1>2. QED
    BY <1>1, StepKeeps, PTL DEF Spec

-----------------------------------------------------------------------------
(* The properties *)

(* The sketch's globals and both serial buffers always have their types. *)
THEOREM TypeCorrect == Spec => []ControllerTypeOK
  <1>1. CtlInv => ControllerTypeOK
    BY DEF CtlInv
  <1>2. QED
    BY <1>1, Invariance, PTL

(* The last STATE line printed always describes the controller. *)
THEOREM ReportIsCurrent == Spec => []ReportCurrent
  <1>1. CtlInv => ReportCurrent
    BY DEF CtlInv
  <1>2. QED
    BY <1>1, Invariance, PTL

(* The purpose of the waiting request fits the lock for as long as it      *)
(* waits: pollSensor chose it from a lock that no handler can move without *)
(* closing the request.                                                    *)
THEOREM WaitingRequestFits == Spec => []WaitingFitsLock
  <1>1. CtlInv => WaitingFitsLock
    BY DEF CtlInv
  <1>2. QED
    BY <1>1, Invariance, PTL

(* A scheduled ignition scan belongs to an unlocked car with no request. *)
THEOREM ScheduledScanFits == Spec => []AutoIgnitionFits
  <1>1. CtlInv => AutoIgnitionFits
    BY DEF CtlInv
  <1>2. QED
    BY <1>1, Invariance, PTL

(* At rest, the flash and the stepper counter hold the lock state. *)
THEOREM FlashIsCurrent == Spec => []FlashCurrent
  <1>1. CtlInv => FlashCurrent
    BY DEF CtlInv
  <1>2. QED
    BY <1>1, Invariance, PTL

(* The shaft position is lost only by a reset in the middle of a move: at  *)
(* rest FlashCurrent says that setup() restores the counter it finds.      *)
THEOREM PositionIsKeptAtRest == Spec => PositionKeptAtRest
  <1> DEFINE A == drift' # drift => moving /\ boot' # boot
  <1>1. ASSUME CtlInv, [Next]_ctlVars PROVE A
    <2>1. LockTypeOK /\ boot \in Nat /\ FlashCurrent
      BY <1>1, ControllerConstants DEF CtlInv, ControllerTypeOK, AuthTypeOK
    <2>2. CASE Reset
      <3>1. boot' # boot /\ drift' = count + drift - Target(flash)
        BY <2>1, <2>2 DEF Reset
      <3>2. Target(flash) \in 0..Travel
        BY <2>1, ControllerConstants DEF LockTypeOK, Target
      <3>3. CASE ~moving
        <4>1. count = Target(flash)
          BY <2>1, <3>3 DEF FlashCurrent
        <4>2. drift' = drift
          BY <2>1, <3>1, <3>2, <4>1 DEF LockTypeOK
        <4>3. QED
          BY <4>2
      <3>4. QED
        BY <3>1, <3>3
    <2>3. CASE UNCHANGED drift
      BY <2>3
    <2>4. UNCHANGED drift \/ Reset
      BY <1>1
         DEF Next, Loop, Clock, Host, StepMotor, PollSensor, CheckAuthTimeout,
             HandleLine, HandleStatus, HandleStart, HandleStop, HandleLock,
             HandleUnlock, HandleAuthReply, HandleAuthorized, AcceptUnlock,
             AcceptIgnition, HandlePending, HandleRefusal, HandleLateReply,
             IgnoreReply, MoveLock, AuthDeadline, RearmDeadline,
             AutoIgnitionDeadline, HostWrites, HostReads, ctlVars, lockVars
    <2>5. QED
      BY <2>2, <2>3, <2>4
  <1>2. QED
    BY <1>1, Invariance, PTL DEF Spec, PositionKeptAtRest

(* The car unlocks only for an UNLOCK command, for the reply to the        *)
(* waiting unlock request in time, or by a reset that forgets a locking    *)
(* movement: FlashCurrent rules out a reset at rest, and the identity of   *)
(* the waiting request comes from WaitingFitsLock.                         *)
THEOREM UnlocksWhenTold == Spec => UnlocksOnlyWhenTold
  <1> DEFINE A ==
        (locked /\ ~locked') =>
            \/ boot' # boot /\ moving /\ ~flash
            \/ boot' = boot /\ rx # << >> /\
                 \/ Head(rx) = Command("UNLOCK")
                 \/ /\ InTime /\ purpose = "UNLOCK"
                    /\ Head(rx) = Reply("AUTHORIZED", <<boot, issued>>)
  <1>1. ASSUME CtlInv, [Next]_ctlVars PROVE A
    <2> SUFFICES ASSUME locked, ~locked'
                 PROVE  \/ boot' # boot /\ moving /\ ~flash
                        \/ boot' = boot /\ rx # << >> /\
                             \/ Head(rx) = Command("UNLOCK")
                             \/ /\ InTime /\ purpose = "UNLOCK"
                                /\ Head(rx) = Reply("AUTHORIZED", <<boot, issued>>)
      OBVIOUS
    <2>1. LockTypeOK /\ AuthTypeOK /\ boot \in Nat /\ FlashCurrent
          /\ WaitingFitsLock
      BY <1>1, ControllerConstants DEF CtlInv, ControllerTypeOK, AuthTypeOK
    <2>2. \/ Reset \/ HandleUnlock
          \/ \E id \in RequestIds : HandleAuthorized(id)
      BY <1>1
         DEF Next, Loop, Clock, Host, StepMotor, PollSensor, CheckAuthTimeout,
             HandleLine, HandleStatus, HandleStart, HandleStop, HandleLock,
             HandleAuthReply, HandlePending, HandleRefusal, HandleLateReply,
             IgnoreReply, MoveLock, AuthDeadline, RearmDeadline,
             AutoIgnitionDeadline, HostWrites, HostReads, ctlVars, lockVars
    <2>3. CASE Reset
      <3>1. boot' # boot /\ locked' = flash
        BY <2>1, <2>3 DEF Reset
      <3>2. QED
        BY <2>1, <3>1 DEF FlashCurrent
    <2>4. CASE HandleUnlock
      <3>1. boot' = boot
        BY <2>4 DEF HandleUnlock, CancelPendingAuth, CloseRequest, authVars
      <3>2. QED
        BY <2>4, <3>1 DEF HandleUnlock, Receive
    <2>5. CASE \E id \in RequestIds : HandleAuthorized(id)
      <3>1. PICK id \in RequestIds : HandleAuthorized(id)
        BY <2>5
      <3>2. boot' = boot /\ InTime /\ request = id
            /\ rx # << >> /\ Head(rx) = Reply("AUTHORIZED", id)
        BY <3>1 DEF HandleAuthorized, CloseRequest, Receive
      <3>3. purpose = "UNLOCK" /\ request = <<boot, issued>>
        BY <2>1, <3>2 DEF WaitingFitsLock, Waiting, InTime
      <3>4. QED
        BY <3>2, <3>3
    <2>6. QED
      BY <2>2, <2>3, <2>4, <2>5
  <1>2. QED
    BY <1>1, Invariance, PTL DEF Spec, UnlocksOnlyWhenTold

-----------------------------------------------------------------------------
(***************************************************************************)
(* The sketch implements Requester, for every size of its buffers and any  *)
(* number of requests and resets.                                          *)
(*                                                                         *)
(* The mapping needs one fact more than CtlInv: pendingRequestId is empty  *)
(* exactly while no request waits, so that Requester can tell from it.     *)
(***************************************************************************)

PendingIdFits == (authState = "IDLE") = (request = NoRequest)

ReqInv == CtlInv /\ PendingIdFits

(* No id of a request is the empty one. *)
LEMMA NoRequestIsNoId == NoRequest \notin RequestIds
  BY ControllerConstants DEF NoRequest, RequestIds

(* While neither the boot nor the counter moves, no id is used up. *)
LEMMA AskedStays == UNCHANGED <<boot, issued>> => Asked' = Asked
  BY DEF Asked

(* A new request is one that was never asked before. *)
LEMMA RequestIsAsked ==
    ASSUME ReqInv, RequestAuth, ~motor, authState = "IDLE",
           UNCHANGED <<locked, motor, rx>>
    PROVE  PendingIdFits' /\ \E id \in RequestIds : Promise!Ask(id)
  <1> DEFINE new == <<boot, issued + 1>>
  <1>1. /\ boot \in 0..MaxResets /\ issued \in Nat /\ issued + 1 \in 1..MaxRequests
        /\ request = NoRequest
    BY ControllerConstants
    DEF ReqInv, PendingIdFits, CtlInv, ControllerTypeOK, AuthTypeOK, RequestAuth
  <1>2. new \in RequestIds /\ new \notin Asked
    BY <1>1 DEF RequestIds, Asked
  <1>3. Asked' = Asked \cup {new}
    <2>1. boot' = boot /\ issued' = issued + 1
      BY DEF RequestAuth
    <2>2. ASSUME NEW id \in RequestIds
          PROVE  (id \in Asked') <=> (id \in Asked \/ id = new)
      <3>1. PICK b \in 0..MaxResets, n \in 1..MaxRequests : id = <<b, n>>
        BY DEF RequestIds
      <3>2. QED
        BY <1>1, <2>1, <3>1 DEF Asked
    <2>3. Asked' \subseteq RequestIds /\ Asked \subseteq RequestIds
      BY DEF Asked
    <2>4. QED
      BY <1>2, <2>2, <2>3
  <1>4. request' = new /\ authState' = "WAITING"
    BY DEF RequestAuth
  <1>5. Promise!Ask(new)
    BY <1>1, <1>2, <1>3, <1>4
    DEF RequestAuth, Send, StartAuth, Promise!Ask, Promise!Says,
        Promise!StartAuth, Promise!outputs
  <1>6. PendingIdFits'
    BY <1>2, <1>4, NoRequestIsNoId DEF PendingIdFits
  <1>7. QED
    BY <1>2, <1>5, <1>6

-----------------------------------------------------------------------------
(* The steps, one lemma for each group of them *)

Refined == [Promise!RequesterNext]_(Promise!requesterVars) /\ PendingIdFits'

(* The stepper, a deadline that passes, and everything else that neither   *)
(* reads nor prints a line. *)
LEMMA SilentStep ==
    ASSUME ReqInv, UNCHANGED <<request, purpose, boot, issued, locked, motor, rx, tx>>,
           (authState' = "IDLE") = (authState = "IDLE")
    PROVE  Refined
  <1>1. Asked' = Asked
    BY AskedStays
  <1>2. PendingIdFits'
    BY DEF ReqInv, PendingIdFits
  <1>3. QED
    BY <1>1, <1>2 DEF Refined, Promise!requesterVars, Promise!outputs

(* Calling the waiting request off, where one waits. *)
LEMMA CallOffStep ==
    ASSUME ReqInv, Waiting, Send(Cancel(request)), CloseRequest
    PROVE  Promise!CallOff /\ request # NoRequest /\ PendingIdFits'
           /\ Asked' = Asked /\ purpose' = purpose
  <1>1. Asked' = Asked
    BY AskedStays DEF CloseRequest
  <1>2. request # NoRequest
    BY DEF ReqInv, PendingIdFits, Waiting
  <1>3. Promise!CallOff
    BY <1>2 DEF CloseRequest, Send, Cancel, Promise!CallOff, Promise!Says, Promise!Cancel
  <1>4. QED
    BY <1>1, <1>2, <1>3 DEF CloseRequest, PendingIdFits

LEMMA CancelStep ==
    ASSUME ReqInv, CancelPendingAuth
    PROVE  Promise!CallOff /\ PendingIdFits' /\ Asked' = Asked /\ purpose' = purpose
  <1>1. CASE Waiting
    BY <1>1, CallOffStep DEF CancelPendingAuth
  <1>2. CASE ~Waiting
    <2>1. UNCHANGED <<authState, purpose, request, boot, issued, tx>>
      BY <1>2 DEF CancelPendingAuth, authVars
    <2>2. request = NoRequest
      BY <1>2 DEF ReqInv, PendingIdFits, Waiting
    <2>3. QED
      BY <2>1, <2>2, AskedStays DEF ReqInv, PendingIdFits, Promise!CallOff
  <1>3. QED
    BY <1>1, <1>2

(* The deadline, in checkAuthTimeout or behind a late reply. *)
LEMMA ExpireStep ==
    ASSUME ReqInv, CheckAuthTimeout
    PROVE  Refined
  <1>1. Promise!CallOff /\ request # NoRequest /\ PendingIdFits'
        /\ Asked' = Asked /\ purpose' = purpose
    BY CallOffStep DEF CheckAuthTimeout, ExpireAuthRequest, Waiting
  <1>2. Promise!Expire
    BY <1>1 DEF CheckAuthTimeout, lockVars, Promise!Expire, Promise!outputs
  <1>3. QED
    BY <1>1, <1>2 DEF Refined, Promise!RequesterNext

(* pollSensor may issue a request, from the sensor or for the ignition.    *)
LEMMA PollStep ==
    ASSUME ReqInv, NEW cm, PollSensor(cm)
    PROVE  Refined
  <1>1. authState = "IDLE" /\ ~motor /\ UNCHANGED <<locked, motor, rx>>
    BY DEF PollSensor, lockVars
  <1>2. CASE RequestAuth
    BY <1>1, <1>2, RequestIsAsked DEF Refined, Promise!RequesterNext
  <1>3. CASE UNCHANGED <<authVars, tx>>
    BY <1>1, <1>3, SilentStep DEF authVars
  <1>4. QED
    BY <1>2, <1>3
    DEF PollSensor, AwaitAutoIgnition, FireAutoIgnition, WatchPresence

(* STATUS, START, STOP, LOCK and UNLOCK *)
LEMMA CommandStep ==
    ASSUME ReqInv,
           HandleStatus \/ HandleStart \/ HandleStop \/ HandleLock \/ HandleUnlock
    PROVE  Refined
  <1> USE DEF Promise!Take, Promise!Raw, Command, Receive, Promise!outputs
  <1>1. CASE HandleStatus \/ HandleStart
    <2>1. UNCHANGED <<authState, purpose, request, boot, issued, locked, tx>>
      BY <1>1 DEF HandleStatus, HandleStart, lockVars, authVars
    <2>2. Asked' = Asked /\ PendingIdFits'
      BY <2>1, AskedStays DEF ReqInv, PendingIdFits
    <2>3. Promise!TakeCommand
      BY <1>1, <2>1, <2>2 DEF HandleStatus, HandleStart, SetEngine, Promise!TakeCommand
    <2>4. QED
      BY <2>2, <2>3 DEF Refined, Promise!RequesterNext
  <1>2. CASE HandleStop \/ HandleLock \/ HandleUnlock
    <2>1. Promise!CallOff /\ PendingIdFits' /\ Asked' = Asked /\ purpose' = purpose
      BY <1>2, CancelStep DEF HandleStop, HandleLock, HandleUnlock
    <2>2. Promise!TakeCommand
      <3>1. CASE HandleStop
        BY <2>1, <3>1 DEF HandleStop, SetEngine, lockVars, Promise!TakeCommand
      <3>2. CASE HandleLock
        BY <2>1, <3>2 DEF HandleLock, MoveLock, Promise!TakeCommand
      <3>3. CASE HandleUnlock
        BY <2>1, <3>3 DEF HandleUnlock, MoveLock, Promise!TakeCommand
      <3>4. QED
        BY <1>2, <3>1, <3>2, <3>3
    <2>3. QED
      BY <2>1, <2>2 DEF Refined, Promise!RequesterNext
  <1>3. QED
    BY <1>1, <1>2

(* The reply to the request that waits: it fits, as no command has moved   *)
(* the lock meanwhile, and what the car does is acknowledged.              *)
LEMMA AuthorizedStep ==
    ASSUME ReqInv, NEW id \in RequestIds, HandleAuthorized(id)
    PROVE  Refined
  <1> USE DEF Promise!Says, Promise!Ack, Promise!Cancel, Send, Ack, Cancel
  <1>1. /\ request = id /\ purpose \in Purposes /\ locked \in BOOLEAN /\ motor \in BOOLEAN
        /\ (purpose = "UNLOCK") = locked
    BY DEF ReqInv, CtlInv, ControllerTypeOK, LockTypeOK, AuthTypeOK,
           WaitingFitsLock, Waiting, InTime, HandleAuthorized
  <1>2. request' = NoRequest /\ authState' = "IDLE" /\ UNCHANGED <<purpose, boot, issued>>
    BY DEF HandleAuthorized, CloseRequest
  <1>3. Asked' = Asked /\ PendingIdFits'
    BY <1>2, AskedStays DEF PendingIdFits
  <1>4. Promise!Fits
    BY <1>1 DEF Promise!Fits
  <1>5. Promise!Take(Promise!Reply("AUTHORIZED", id))
    BY DEF HandleAuthorized, Receive, Reply, Promise!Take, Promise!Reply
  <1>6. Promise!Says(Promise!Ack(id)) /\ locked' = FALSE /\ motor' = (motor \/ ~locked)
    <2>1. CASE purpose = "UNLOCK"
      BY <1>1, <2>1 DEF HandleAuthorized, AcceptUnlock, MoveLock
    <2>2. CASE purpose = "IGNITION"
      BY <1>1, <2>2 DEF HandleAuthorized, AcceptIgnition, SetEngine, lockVars
    <2>3. QED
      BY <1>1, <2>1, <2>2 DEF Purposes
  <1>7. Promise!TakeAuthorized(id)
    BY <1>1, <1>2, <1>3, <1>4, <1>5, <1>6 DEF Promise!TakeAuthorized, Purposes
  <1>8. Promise!TakeReply
    BY <1>5, <1>7 DEF Promise!TakeReply, Promise!Take
  <1>9. QED
    BY <1>3, <1>8 DEF Refined, Promise!RequesterNext

(* Every other reply ends a request at most, and moves nothing.            *)
LEMMA OtherReplyStep ==
    ASSUME ReqInv, NEW id \in RequestIds,
           \/ HandlePending(id) \/ HandleRefusal(id)
           \/ HandleLateReply(id) \/ IgnoreReply(id)
    PROVE  Refined
  <1> USE DEF Receive, Reply, Promise!Take, Promise!Reply, Promise!outputs, lockVars
  <1>1. CASE HandlePending(id) \/ IgnoreReply(id)
    <2>1. /\ UNCHANGED <<purpose, request, boot, issued, locked, motor, tx>>
          /\ (authState' = "IDLE") = (authState = "IDLE")
      BY <1>1 DEF HandlePending, IgnoreReply, authVars, InTime
    <2>2. Asked' = Asked /\ PendingIdFits'
      BY <2>1, AskedStays DEF ReqInv, PendingIdFits
    <2>3. HandlePending(id) \/ request # id
      BY <1>1, NoRequestIsNoId DEF IgnoreReply, ReqInv, PendingIdFits, InTime
    <2>4. Promise!TakeUnheeded(id)
      BY <1>1, <2>1, <2>2, <2>3
      DEF HandlePending, IgnoreReply, AuthReplies, Promise!TakeUnheeded,
          Promise!AuthReplies, Promise!Refusals, Refusals
    <2>5. Promise!TakeReply
      BY <2>4 DEF Promise!TakeReply, Promise!TakeUnheeded
    <2>6. QED
      BY <2>2, <2>5 DEF Refined, Promise!RequesterNext
  <1>2. CASE HandleRefusal(id)
    <2>1. Asked' = Asked /\ PendingIdFits'
      BY <1>2, AskedStays DEF HandleRefusal, CloseRequest, PendingIdFits
    <2>2. Promise!TakeRefusal(id)
      BY <1>2, <2>1
      DEF HandleRefusal, CloseRequest, Refusals, Promise!TakeRefusal, Promise!Refusals
    <2>3. Promise!TakeReply
      BY <2>2 DEF Promise!TakeReply, Promise!TakeRefusal
    <2>4. QED
      BY <2>1, <2>3 DEF Refined, Promise!RequesterNext
  <1>3. CASE HandleLateReply(id)
    <2>1. Promise!CallOff /\ request # NoRequest /\ PendingIdFits'
          /\ Asked' = Asked /\ purpose' = purpose
      BY <1>3, CallOffStep DEF HandleLateReply, ExpireAuthRequest, Waiting
    <2>2. Promise!TakeLate(id)
      BY <1>3, <2>1
      DEF HandleLateReply, AuthReplies, Refusals, Promise!TakeLate,
          Promise!AuthReplies, Promise!Refusals
    <2>3. Promise!TakeReply
      BY <2>2 DEF Promise!TakeReply, Promise!TakeLate
    <2>4. QED
      BY <2>1, <2>3 DEF Refined, Promise!RequesterNext
  <1>4. QED
    BY <1>1, <1>2, <1>3

(* A reset forgets the request, and the ids of its boot are used up.       *)
LEMMA ResetStep ==
    ASSUME ReqInv, Reset
    PROVE  Refined
  <1>1. boot \in Nat /\ boot' = boot + 1 /\ flash \in BOOLEAN
    BY ControllerConstants
    DEF Reset, ReqInv, CtlInv, ControllerTypeOK, AuthTypeOK, LockTypeOK
  <1>2. Asked' \in SUBSET RequestIds /\ Asked \subseteq Asked'
    <2>1. ASSUME NEW id \in Asked
          PROVE  id \in Asked'
      <3>1. PICK b \in 0..MaxResets, n \in 1..MaxRequests : id = <<b, n>>
        BY DEF Asked, RequestIds
      <3>2. QED
        BY <1>1, <2>1, <3>1 DEF Asked
    <2>2. QED
      BY <2>1 DEF Asked
  <1>3. PendingIdFits'
    BY DEF Reset, PendingIdFits
  <1>4. Promise!Restart
    BY <1>1, <1>2 DEF Reset, Promise!Restart
  <1>5. QED
    BY <1>3, <1>4 DEF Refined, Promise!RequesterNext

(* The host writes a line or reads one. *)
LEMMA HostStep ==
    ASSUME ReqInv, Host
    PROVE  Refined
  <1>1. UNCHANGED <<authState, purpose, request, boot, issued, locked, motor>>
    BY DEF Host, HostWrites, HostReads, lockVars, authVars
  <1>2. Asked' = Asked /\ PendingIdFits'
    BY <1>1, AskedStays DEF ReqInv, PendingIdFits
  <1>3. CASE HostReads
    BY <1>1, <1>2, <1>3
    DEF HostReads, Refined, Promise!RequesterNext, Promise!outputs
  <1>4. ASSUME NEW line \in HostLines, HostWrites(line)
        PROVE  Refined
    <2>1. line \in Promise!HostLines
      BY DEF HostLines, RawCommands, AuthReplies, Refusals, Promise!HostLines,
             Promise!RawCommands, Promise!AuthReplies, Promise!Refusals
    <2>2. rx \in Seq(HostLines) /\ rx' = Append(rx, line) /\ tx' = tx
      BY <1>4 DEF HostWrites, ReqInv, CtlInv, ControllerTypeOK, SerialTypeOK
    <2>3. Len(rx') > Len(rx)
      BY <2>2
    <2>4. QED
      BY <1>1, <1>2, <2>1, <2>2, <2>3
      DEF Refined, Promise!RequesterNext, Promise!outputs
  <1>5. QED
    BY <1>3, <1>4 DEF Host

-----------------------------------------------------------------------------
LEMMA StepRefines == ReqInv /\ [Next]_ctlVars => Refined
  <1> SUFFICES ASSUME ReqInv, [Next]_ctlVars PROVE Refined
    OBVIOUS
  <1>1. CASE StepMotor
    BY <1>1, SilentStep DEF StepMotor, authVars
  <1>2. CASE \E cm \in {"near", "gone", "between"} : PollSensor(cm)
    BY <1>2, PollStep
  <1>3. CASE CheckAuthTimeout
    BY <1>3, ExpireStep
  <1>4. CASE HandleLine
    <2>1. CASE HandleAuthReply
      BY <2>1, AuthorizedStep, OtherReplyStep DEF HandleAuthReply
    <2>2. QED
      BY <1>4, <2>1, CommandStep DEF HandleLine
  <1>5. CASE Clock
    BY <1>5, SilentStep
    DEF Clock, AuthDeadline, InTime, RearmDeadline, AutoIgnitionDeadline, lockVars,
        authVars
  <1>6. CASE Reset
    BY <1>6, ResetStep
  <1>7. CASE Host
    BY <1>7, HostStep
  <1>8. CASE UNCHANGED ctlVars
    BY <1>8, SilentStep DEF ctlVars, lockVars, authVars
  <1>9. QED
    BY <1>1, <1>2, <1>3, <1>4, <1>5, <1>6, <1>7, <1>8 DEF Next, Loop

(* Over its serial line the controller is a Requester: whatever the host   *)
(* writes and whenever it is reset, each of its requests has a new id, is  *)
(* acted on at most once and only for the matching reply, and ends with at *)
(* most one line. *)
THEOREM KeepsThePromise == Spec => ImplementsRequester
  <1>1. Init => PendingIdFits /\ Promise!RequesterInit
    <2> SUFFICES ASSUME ControllerInit PROVE PendingIdFits /\ Promise!RequesterInit
      BY DEF Init
    <2>1. /\ authState = "IDLE" /\ request = NoRequest /\ purpose = "UNLOCK"
          /\ boot = 0 /\ issued = 0 /\ rx = << >> /\ tx = << >>
          /\ locked \in BOOLEAN /\ motor = FALSE
      BY Zenon DEF ControllerInit
    <2>2. Asked = {}
      <3>1. ASSUME NEW id \in RequestIds
            PROVE  id \notin Asked
        <4>1. PICK b \in 0..MaxResets, n \in 1..MaxRequests : id = <<b, n>>
          BY DEF RequestIds
        <4>2. QED
          BY <2>1, <4>1 DEF Asked
      <3>2. QED
        BY <3>1 DEF Asked
    <2>3. QED
      BY <2>1, <2>2 DEF PendingIdFits, Promise!RequesterInit
  <1>2. PendingIdFits /\ CtlInv /\ [Next]_ctlVars
            => PendingIdFits' /\ [Promise!RequesterNext]_(Promise!requesterVars)
    BY StepRefines DEF Refined, ReqInv
  <1>3. QED
    BY <1>1, <1>2, Invariance, PTL
    DEF Spec, ImplementsRequester, Promise!RequesterSpec
=============================================================================
