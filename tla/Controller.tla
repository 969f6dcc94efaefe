----------------------------- MODULE Controller -----------------------------
(***************************************************************************)
(* The ESP32 lock and ignition controller: ESP32_Program/ESP32_Program.ino *)
(*                                                                         *)
(* The sketch is one loop() that polls the motor, the presence sensor, the *)
(* request deadline and one serial line per pass.  Every piece of a pass   *)
(* is an action; the clock may advance between any two of them.  Elapsed   *)
(* times are states ("EXPIRED", "rearmable", "elapsed") that the clock     *)
(* reaches at an arbitrary moment, so every order of the deadlines is      *)
(* explored.  The LCD text and the engine speed are left out: nothing      *)
(* reads them back.                                                        *)
(*                                                                         *)
(* rx is the serial input (host to controller), tx the authentication      *)
(* lines on their way to the host.  A STATE line only replaces the one     *)
(* before it, so the last one printed is kept in report.                   *)
(***************************************************************************)
EXTENDS Integers, Sequences

CONSTANTS
    Readings,      \* PRESENCE_READINGS, consecutive readings that decide
    Travel,        \* LOCK_STEPS, in steps coarse enough to enumerate
    MaxRequests,   \* bound on authRequestCounter in one boot
    MaxResets,     \* bound on the number of resets
    RxCap,         \* bound on unread serial lines
    TxCap          \* the UART transmit buffer: Serial.print blocks when full

ASSUME ControllerConstants ==
    /\ Readings \in Nat \ {0}
    /\ Travel \in Nat \ {0}
    /\ MaxRequests \in Nat \ {0}
    /\ MaxResets \in Nat
    /\ RxCap \in Nat \ {0}
    /\ TxCap \in Nat \ {0}

VARIABLES
    locked,     \* the commanded lock target
    moving,     \* stepperMoving
    count,      \* AccelStepper's idea of the shaft position
    drift,      \* physical position minus count (no sensor measures it)
    flash,      \* the "locked" key of the Preferences store
    motor,      \* motorRunning
    authState,  \* IDLE, or WAITING with its deadline ahead, near or past
    purpose,    \* pendingPurpose
    request,    \* pendingRequestId
    boot,       \* authBootNonce, fresh at every boot
    issued,     \* authRequestCounter
    near, far,  \* nearCount, farCount
    person,     \* personPresent
    sensor,     \* armed, disarmed, or disarmed for REARM_MS (rearmable)
    auto,       \* autoIgnitionPending: off, waiting, or its delay elapsed
    report,     \* the last STATE line printed
    rx, tx

lockVars == <<locked, moving, count, drift, flash>>
authVars == <<authState, purpose, request, boot, issued>>
senseVars == <<near, far, person, sensor>>
ctlVars == <<lockVars, motor, authVars, senseVars, auto, report, rx, tx>>

-----------------------------------------------------------------------------
(* Types *)

Purposes == {"UNLOCK", "IGNITION"}
RequestIds == (0..MaxResets) \X (1..MaxRequests)
NoRequest == <<0, 0>>

RawCommands == {"STATUS", "START", "STOP", "LOCK", "UNLOCK"}
Refusals == {"UNAUTHORIZED", "DENIED", "BUSY", "ERROR"}
AuthReplies == {"AUTH_PENDING", "AUTHORIZED"} \cup Refusals

(* A line the host writes: a bare command, or a reply that carries an id. *)
Command(c) == [cmd |-> c, id |-> NoRequest]
Reply(c, id) == [cmd |-> c, id |-> id]
HostLines == [cmd : RawCommands, id : {NoRequest}]
                 \cup [cmd : AuthReplies, id : RequestIds]

(* A line the controller writes that the host's parser accepts. *)
StartAuth(p, id) == [cmd |-> "START_AUTH", id |-> id, purpose |-> p]
Ack(id) == [cmd |-> "AUTH_ACK", id |-> id, purpose |-> "none"]
Cancel(id) == [cmd |-> "AUTH_CANCEL", id |-> id, purpose |-> "none"]
ControllerLines ==
    [cmd : {"START_AUTH", "AUTH_ACK", "AUTH_CANCEL"},
     id : RequestIds \cup {NoRequest},
     purpose : Purposes \cup {"none"}]

LockStates == {"LOCKED", "UNLOCKED", "LOCKING", "UNLOCKING"}

LockTypeOK ==
    /\ locked \in BOOLEAN
    /\ moving \in BOOLEAN
    /\ count \in 0..Travel
    /\ drift \in Int
    /\ flash \in BOOLEAN
    /\ motor \in BOOLEAN

AuthTypeOK ==
    /\ authState \in {"IDLE", "WAITING", "AGING", "EXPIRED"}
    /\ purpose \in Purposes
    /\ boot \in 0..MaxResets
    /\ issued \in 0..MaxRequests
    /\ request \in RequestIds \cup {NoRequest}

SenseTypeOK ==
    /\ near \in 0..Readings
    /\ far \in 0..Readings
    /\ person \in BOOLEAN
    /\ sensor \in {"armed", "disarmed", "rearmable"}
    /\ auto \in {"off", "waiting", "elapsed"}

SerialTypeOK ==
    /\ report \in LockStates \X {"ON", "OFF"}
    /\ rx \in Seq(HostLines)
    /\ tx \in Seq(ControllerLines)

(* Type invariant of the sketch's globals and of both serial directions. *)
ControllerTypeOK == LockTypeOK /\ AuthTypeOK /\ SenseTypeOK /\ SerialTypeOK

-----------------------------------------------------------------------------
(* Helpers *)

Target(l) == IF l THEN Travel ELSE 0

(* controllerLockState and the STATE line built from it. *)
StateLine(l, m, e) ==
    << IF m THEN (IF l THEN "LOCKING" ELSE "UNLOCKING")
            ELSE (IF l THEN "LOCKED" ELSE "UNLOCKED"),
       IF e THEN "ON" ELSE "OFF" >>

(* authState is WAITING in the sketch; some of AUTH_TIMEOUT_MS has passed   *)
(* when it is "AGING" here, and all of it when it is "EXPIRED".            *)
Waiting == authState # "IDLE"
InTime == authState \in {"WAITING", "AGING"}

(* Serial.print of one authentication line; it waits for buffer space. *)
Send(line) ==
    /\ Len(tx) < TxCap
    /\ tx' = Append(tx, line)

Disarm == sensor' = "disarmed"

CloseRequest ==
    /\ authState' = "IDLE"
    /\ request' = NoRequest
    /\ UNCHANGED <<purpose, boot, issued>>

(* cancelPendingAuth: nothing to do unless a request is waiting. *)
CancelPendingAuth ==
    \/ /\ Waiting
       /\ Send(Cancel(request))
       /\ CloseRequest
    \/ /\ ~Waiting
       /\ UNCHANGED <<authVars, tx>>

(* requestAuth, from pollSensor: the guards of pollSensor already hold. *)
RequestAuth ==
    /\ issued < MaxRequests
    /\ authState' = "WAITING"
    /\ purpose' = IF locked THEN "UNLOCK" ELSE "IGNITION"
    /\ issued' = issued + 1
    /\ request' = <<boot, issued + 1>>
    /\ UNCHANGED boot
    /\ Send(StartAuth(purpose', request'))

(* lockCar and unlockCar: retarget the stepper, unless already there. *)
MoveLock(l) ==
    /\ locked' = l
    /\ moving' = (moving \/ locked # l)
    /\ report' = IF locked = l THEN report ELSE StateLine(l, TRUE, motor)
    /\ UNCHANGED <<count, drift, flash>>

(* engineOn and engineOff print a STATE line only on a change. *)
SetEngine(on) ==
    /\ motor' = on
    /\ report' = IF motor = on THEN report ELSE StateLine(locked, moving, on)

-----------------------------------------------------------------------------
(* The state at power-up, the first boot after flashing: unlocked. *)

ControllerInit ==
    /\ locked = FALSE /\ moving = FALSE /\ motor = FALSE
    /\ count = 0 /\ drift = 0 /\ flash = FALSE
    /\ authState = "IDLE" /\ purpose = "UNLOCK" /\ request = NoRequest
    /\ boot = 0 /\ issued = 0
    /\ near = 0 /\ far = 0 /\ person = FALSE
    /\ sensor = "armed" /\ auto = "off"
    /\ report = StateLine(FALSE, FALSE, FALSE)
    /\ rx = << >> /\ tx = << >>

-----------------------------------------------------------------------------
(* loop(): the stepper *)

StepMotor ==
    LET target == Target(locked)
        next == IF count < target THEN count + 1
                ELSE IF count > target THEN count - 1 ELSE count
    IN /\ moving
       /\ count' = next
       /\ moving' = (next # target)
       /\ flash' = IF next = target THEN locked ELSE flash
       /\ report' = IF next = target THEN StateLine(locked, FALSE, motor)
                                     ELSE report
       /\ UNCHANGED <<locked, drift, motor, authVars, senseVars, auto, rx, tx>>

(* loop(): the presence sensor.  A reading is near, gone or in between. *)

CountReadings(cm) ==
    LET bump(n) == IF n < Readings THEN n + 1 ELSE n
    IN /\ near' = IF cm = "near" THEN bump(near) ELSE 0
       /\ far' = IF cm = "gone" THEN bump(far) ELSE 0
       /\ person' = IF person THEN far' < Readings ELSE near' >= Readings

Left == person /\ ~person'

(* The second scan after an unlock owns the sensor until its delay ends. *)
AwaitAutoIgnition ==
    /\ auto = "waiting"
    /\ sensor' = IF Left THEN "armed" ELSE sensor
    /\ UNCHANGED <<auto, authVars, tx>>

(* Mutant: the scheduled scan waits for somebody in front of the sensor. *)
FireAutoIgnitionIfPresent ==
    /\ auto = "elapsed"
    /\ sensor' = IF Left THEN "armed" ELSE sensor
    /\ auto' = IF person' THEN "off" ELSE auto
    /\ IF locked \/ ~person' THEN UNCHANGED <<authVars, tx>> ELSE RequestAuth

FireAutoIgnition ==
    /\ auto = "elapsed"
    /\ sensor' = IF Left THEN "armed" ELSE sensor
    /\ auto' = "off"
    /\ IF locked THEN UNCHANGED <<authVars, tx>> ELSE RequestAuth

WatchPresence ==
    /\ auto = "off"
    /\ sensor' = IF Left \/ sensor = "rearmable" THEN "armed" ELSE sensor
    /\ IF person' /\ sensor' = "armed" THEN RequestAuth
                                       ELSE UNCHANGED <<authVars, tx>>
    /\ UNCHANGED auto

PollSensor(cm) ==
    /\ authState = "IDLE" /\ ~moving /\ ~motor
    /\ CountReadings(cm)
    /\ AwaitAutoIgnition \/ FireAutoIgnition \/ WatchPresence
    /\ UNCHANGED <<lockVars, motor, report, rx>>

(* loop(): the request deadline.  expireAuthRequest cancels and disarms. *)

ExpireAuthRequest ==
    /\ Send(Cancel(request))
    /\ CloseRequest
    /\ Disarm

CheckAuthTimeout ==
    /\ authState = "EXPIRED"
    /\ ExpireAuthRequest
    /\ UNCHANGED <<lockVars, motor, near, far, person, auto, report, rx>>

-----------------------------------------------------------------------------
(* handleLine: one serial line per pass of loop() *)

Receive(line) ==
    /\ rx # << >>
    /\ line = Head(rx)
    /\ rx' = Tail(rx)

HandleStatus ==
    /\ Receive(Command("STATUS"))
    /\ report' = StateLine(locked, moving, motor)
    /\ UNCHANGED <<lockVars, motor, authVars, senseVars, auto, tx>>

HandleStart ==
    /\ Receive(Command("START"))
    /\ SetEngine(TRUE)
    /\ UNCHANGED <<lockVars, authVars, senseVars, auto, tx>>

HandleStop ==
    /\ Receive(Command("STOP"))
    /\ CancelPendingAuth
    /\ auto' = "off"
    /\ SetEngine(FALSE)
    /\ Disarm
    /\ UNCHANGED <<lockVars, near, far, person>>

HandleLock ==
    /\ Receive(Command("LOCK"))
    /\ CancelPendingAuth
    /\ auto' = "off"
    /\ MoveLock(TRUE)
    /\ Disarm
    /\ UNCHANGED <<motor, near, far, person>>

(* Mutant: UNLOCK leaves the waiting request open. *)
HandleUnlockKeepsRequest ==
    /\ Receive(Command("UNLOCK"))
    /\ auto' = "off"
    /\ MoveLock(FALSE)
    /\ Disarm
    /\ UNCHANGED <<motor, near, far, person, authVars, tx>>

HandleUnlock ==
    /\ Receive(Command("UNLOCK"))
    /\ CancelPendingAuth
    /\ auto' = "off"
    /\ MoveLock(FALSE)
    /\ Disarm
    /\ UNCHANGED <<motor, near, far, person>>

(* Mutant: an unlock is not acknowledged. *)
AcceptUnlockSilent(id) ==
    IF locked
    THEN /\ MoveLock(FALSE)
         /\ auto' = "waiting"
         /\ UNCHANGED <<motor, tx>>
    ELSE /\ Send(Cancel(id))
         /\ UNCHANGED <<lockVars, motor, report, auto>>

(* acceptAuthorizedReply for an unlock request: the second branch is the   *)
(* sketch's answer to a car that is no longer locked.                      *)
AcceptUnlock(id) ==
    IF locked
    THEN /\ MoveLock(FALSE)
         /\ Send(Ack(id))
         /\ auto' = "waiting"
         /\ UNCHANGED motor
    ELSE /\ Send(Cancel(id))
         /\ UNCHANGED <<lockVars, motor, report, auto>>

(* and for an ignition request: the first branch is a car relocked since. *)
AcceptIgnition(id) ==
    /\ IF locked
       THEN /\ Send(Cancel(id))
            /\ UNCHANGED <<motor, report>>
       ELSE /\ SetEngine(TRUE)
            /\ Send(Ack(id))
    /\ UNCHANGED <<lockVars, auto>>

(* Mutant: the id of the reply is not compared. *)
HandleAuthorizedAnyId(id) ==
    /\ InTime
    /\ Receive(Reply("AUTHORIZED", id))
    /\ \/ purpose = "UNLOCK" /\ AcceptUnlock(id)
       \/ purpose = "IGNITION" /\ AcceptIgnition(id)
    /\ CloseRequest
    /\ Disarm
    /\ UNCHANGED <<near, far, person>>

HandleAuthorized(id) ==
    /\ InTime /\ request = id
    /\ Receive(Reply("AUTHORIZED", id))
    /\ \/ purpose = "UNLOCK" /\ AcceptUnlock(id)
       \/ purpose = "IGNITION" /\ AcceptIgnition(id)
    /\ CloseRequest
    /\ Disarm
    /\ UNCHANGED <<near, far, person>>

(* Mutant: AUTH_PENDING for any request restarts the deadline. *)
HandlePendingAnyId(id) ==
    /\ InTime
    /\ Receive(Reply("AUTH_PENDING", id))
    /\ authState' = "WAITING"
    /\ UNCHANGED <<lockVars, motor, purpose, request, boot, issued,
                   senseVars, auto, report, tx>>

(* AUTH_PENDING restarts the deadline. *)
HandlePending(id) ==
    /\ InTime /\ request = id
    /\ Receive(Reply("AUTH_PENDING", id))
    /\ authState' = "WAITING"
    /\ UNCHANGED <<lockVars, motor, purpose, request, boot, issued,
                   senseVars, auto, report, tx>>

HandleRefusal(id) ==
    /\ InTime /\ request = id
    /\ \E c \in Refusals : Receive(Reply(c, id))
    /\ CloseRequest
    /\ Disarm
    /\ UNCHANGED <<lockVars, motor, near, far, person, auto, report, tx>>

(* A reply at or after the deadline cannot revive an expired request. *)
HandleLateReply(id) ==
    /\ authState = "EXPIRED"
    /\ \E c \in AuthReplies : Receive(Reply(c, id))
    /\ ExpireAuthRequest
    /\ UNCHANGED <<lockVars, motor, near, far, person, auto, report>>

(* No request waiting, or one with another id: the line is dropped. *)
IgnoreReply(id) ==
    /\ \/ authState = "IDLE"
       \/ InTime /\ request # id
    /\ \E c \in AuthReplies : Receive(Reply(c, id))
    /\ UNCHANGED <<lockVars, motor, authVars, senseVars, auto, report, tx>>

HandleAuthReply ==
    \E id \in RequestIds :
        \/ HandleAuthorized(id) \/ HandlePending(id) \/ HandleRefusal(id)
        \/ HandleLateReply(id) \/ IgnoreReply(id)

HandleLine ==
    \/ HandleStatus \/ HandleStart \/ HandleStop
    \/ HandleLock \/ HandleUnlock \/ HandleAuthReply

-----------------------------------------------------------------------------
(* The clock: AUTH_TIMEOUT_MS, REARM_MS and AUTO_IGNITION_MS run out. *)

AuthDeadline ==
    /\ InTime
    /\ authState' = IF authState = "WAITING" THEN "AGING" ELSE "EXPIRED"
    /\ UNCHANGED <<lockVars, motor, purpose, request, boot, issued,
                   senseVars, auto, report, rx, tx>>

RearmDeadline ==
    /\ sensor = "disarmed"
    /\ sensor' = "rearmable"
    /\ UNCHANGED <<lockVars, motor, authVars, near, far, person, auto,
                   report, rx, tx>>

AutoIgnitionDeadline ==
    /\ auto = "waiting"
    /\ auto' = "elapsed"
    /\ UNCHANGED <<lockVars, motor, authVars, senseVars, report, rx, tx>>

Clock == AuthDeadline \/ RearmDeadline \/ AutoIgnitionDeadline

(* Mutant: setup() assumes an unlocked car instead of reading the flash. *)
ResetUnlocked ==
    /\ boot < MaxResets
    /\ boot' = boot + 1
    /\ issued' = 0 /\ request' = NoRequest
    /\ locked' = FALSE /\ count' = 0 /\ drift' = count + drift
    /\ moving' = FALSE /\ motor' = FALSE
    /\ authState' = "IDLE" /\ purpose' = "UNLOCK"
    /\ near' = 0 /\ far' = 0 /\ person' = FALSE
    /\ sensor' = "armed" /\ auto' = "off"
    /\ report' = StateLine(FALSE, FALSE, FALSE)
    /\ rx' = << >>
    /\ UNCHANGED <<flash, tx>>

(* setup() after a reset, a power cut, or the host opening the port: the   *)
(* RAM is lost, the stepper counter restarts from flash, the shaft stays.  *)
Reset ==
    /\ boot < MaxResets
    /\ boot' = boot + 1
    /\ issued' = 0
    /\ locked' = flash
    /\ count' = Target(flash)
    /\ drift' = count + drift - Target(flash)
    /\ moving' = FALSE
    /\ motor' = FALSE
    /\ authState' = "IDLE"
    /\ purpose' = "UNLOCK"
    /\ request' = NoRequest
    /\ near' = 0 /\ far' = 0 /\ person' = FALSE
    /\ sensor' = "armed"
    /\ auto' = "off"
    /\ report' = StateLine(flash, FALSE, FALSE)
    /\ rx' = << >>
    /\ UNCHANGED <<flash, tx>>

Loop ==
    \/ StepMotor
    \/ \E cm \in {"near", "gone", "between"} : PollSensor(cm)
    \/ CheckAuthTimeout
    \/ HandleLine

-----------------------------------------------------------------------------
(* A host that may write any line and reads whatever arrives.  It stands   *)
(* for every host, including one that answers ids of earlier boots.        *)

HostWrites(line) ==
    /\ Len(rx) < RxCap
    /\ rx' = Append(rx, line)
    /\ UNCHANGED <<lockVars, motor, authVars, senseVars, auto, report, tx>>

HostReads ==
    /\ tx # << >>
    /\ tx' = Tail(tx)
    /\ UNCHANGED <<lockVars, motor, authVars, senseVars, auto, report, rx>>

Host == (\E line \in HostLines : HostWrites(line)) \/ HostReads

Next == Loop \/ Clock \/ Reset \/ Host

Init == ControllerInit

Spec == Init /\ [][Next]_ctlVars

(* loop() runs every piece forever, and time passes: AuthDeadline happens  *)
(* again and again while a request waits, and a line from the host may put *)
(* the deadline off between any two of its steps.  Lines that wait need    *)
(* not be handled, and the host owes nothing: the UART drains at its rate. *)
Fairness ==
    /\ WF_ctlVars(StepMotor)
    /\ WF_ctlVars(\E cm \in {"near", "gone", "between"} : PollSensor(cm))
    /\ WF_ctlVars(CheckAuthTimeout)
    /\ WF_ctlVars(AuthDeadline)
    /\ WF_ctlVars(AutoIgnitionDeadline)
    /\ WF_ctlVars(HostReads)

LiveSpec == Spec /\ Fairness

-----------------------------------------------------------------------------
(* Properties *)

(* The last STATE line always describes the controller: every path that    *)
(* changes the lock target, the movement or the engine also reports it.    *)
ReportCurrent == report = StateLine(locked, moving, motor)

(* While a request waits, the lock neither moves nor changes target, so    *)
(* the purpose chosen when it was issued still fits when it is answered.   *)
(* The "Error" and "Car locked" branches of acceptAuthorizedReply are      *)
(* therefore a second line of defence that this firmware never needs.      *)
WaitingFitsLock ==
    Waiting => /\ ~moving
               /\ (purpose = "UNLOCK") = locked
               /\ request = <<boot, issued>>

(* A scheduled ignition scan belongs to an unlocked car with no request    *)
(* open: STOP, LOCK, UNLOCK and a new request never leave one behind.      *)
AutoIgnitionFits == auto # "off" => authState = "IDLE" /\ ~locked

(* At rest the flash holds the lock state a reset would restore. *)
FlashCurrent == ~moving => flash = locked /\ count = Target(locked)

(* What always holds of the controller, whatever its host writes and       *)
(* wherever a reset cuts a move.                                           *)
CtlInv ==
    /\ ControllerTypeOK
    /\ ReportCurrent
    /\ WaitingFitsLock
    /\ AutoIgnitionFits
    /\ FlashCurrent

(* The shaft position is lost only by a reset in the middle of a move: a   *)
(* reset, a replug or a port opened at rest keeps it.                      *)
PositionKeptAtRest == [][drift' # drift => moving /\ boot' # boot]_ctlVars

(* The car unlocks only for an UNLOCK command or for the reply to the      *)
(* request that is waiting, before its deadline; a reset may also forget a *)
(* lock movement that had not finished.                                    *)
UnlocksOnlyWhenTold ==
    [][ (locked /\ ~locked') =>
            \/ boot' # boot /\ moving /\ ~flash
            \/ boot' = boot /\ rx # << >> /\
                 \/ Head(rx) = Command("UNLOCK")
                 \/ /\ InTime /\ purpose = "UNLOCK"
                    /\ Head(rx) = Reply("AUTHORIZED", <<boot, issued>>)
      ]_ctlVars

(* Every request ends - answered, refused, cancelled or timed out - unless *)
(* AUTH_PENDING for that very request restarts its deadline for ever; no   *)
(* other line a host repeats can hold it.  And a scheduled ignition scan   *)
(* is issued or called off, unless the engine runs by then; nobody has to  *)
(* stay in front of the sensor for it.                                     *)
RequestsResolve ==
    /\ \/ []<>(request = NoRequest)
       \/ []<><<Receive(Reply("AUTH_PENDING", request))>>_ctlVars
    /\ (auto # "off" /\ issued < MaxRequests) ~> (auto = "off" \/ motor)
=============================================================================
