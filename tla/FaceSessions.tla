---------------------------- MODULE FaceSessions ----------------------------
(***************************************************************************)
(* The life of a face scan or an enrollment in PiRuntime: one camera, one  *)
(* session slot, a worker thread per session, and the callers that cancel  *)
(* everything and lock the car (force_lock, the link's reset, quiesce and  *)
(* close).  Enrollment sessions also move a durable receipt, so that the   *)
(* phone can ask for the outcome later.                                    *)
(*                                                                         *)
(* A step is what one thread does without giving up the locks it needs.    *)
(* Whether the car may be unlocked at the moment of a grant is module      *)
(* Actuation; here a grant is one step, and a lock only "dispatched".      *)
(***************************************************************************)
EXTENDS Naturals, FiniteSets

CONSTANTS
    Sessions,   \* session ids; the host never uses one twice
    Kinds,      \* which of AllKinds of session are asked for
    Callers,    \* which of AllCallers come
    FaultSets,  \* the sets of faults a behaviour may meet
    None

AllKinds == {"scan", "sensor", "enroll"}
AllCallers == {"force", "sync", "quiesce", "close"}
AllFaults == {"store",      \* a receipt cannot be written
              "capture",    \* the capture thread outlives the close timeout
              "teardown"}   \* stopping or closing the camera raises

ASSUME FaceSessionsAssumption ==
    /\ Kinds \subseteq AllKinds /\ Callers \subseteq AllCallers
    /\ FaultSets \subseteq SUBSET AllFaults /\ None \notin Sessions

VARIABLES
    session,    \* session[s]: the record in _sessions
    receipt,    \* receipt[s]: the enrollment request's row
    slot,       \* _active_session_id
    worker,     \* worker[s]: where the session's thread is
    camera,     \* _camera_owner_id of an open camera, or None
    capture,    \* _camera_capture: its session, and whether it still runs
    waiting,    \* sensor scans whose controller waits for an answer
    cleanup,    \* the session the deferred camera cleanup works for
    caller,     \* a thread in force_lock, sync_esp32_state, quiesce or close
    dispatched, \* that the last such caller has sent STOP and LOCK
    phase,      \* of maintenance and shutdown
    faults      \* which of AllFaults this behaviour meets; never changes

vars == <<session, receipt, slot, worker, camera, capture, waiting, cleanup,
          caller, dispatched, phase, faults>>

Final == {"granted", "denied", "error", "timeout", "cancelled", "completed"}
States == {"absent", "open"} \cup Final
NoSession == [kind |-> "scan", ignition |-> FALSE, state |-> "absent",
              cancel |-> FALSE, revoked |-> FALSE]
Pending == {"accepted", "active"}
Receipts == {"none"} \cup Pending \cup {"error", "timeout", "cancelled", "completed"}
Steps == {"none", "reserved", "created", "begin", "open", "opening", "start",
          "loop", "grant", "close", "defer", "done"}
NoCaller == [op |-> "none", at |-> "none"]

Live(s) == session[s].state = "open"
Enrolling(s) == session[s].kind = "enroll"
Captures(s) == capture # None /\ capture.owner = s
Capturing(s) == Captures(s) /\ capture.runs /\ slot = s /\ Live(s) /\ ~session[s].cancel
Stopped(c) == IF c = None THEN None ELSE [c EXCEPT !.runs = FALSE]

Init ==
    /\ session = [s \in Sessions |-> NoSession]
    /\ receipt = [s \in Sessions |-> "none"]
    /\ worker = [s \in Sessions |-> "none"]
    /\ slot = None /\ camera = None /\ capture = None /\ cleanup = None
    /\ waiting = {}
    /\ caller = NoCaller /\ dispatched = FALSE
    /\ phase = "running"
    /\ faults \in FaultSets

-----------------------------------------------------------------------------
(* Ending a session *)

(* Mutant: the last end that is asked for replaces an earlier one. *)
FinalizedLast(s, r) == r

(* EnrollmentRequests.finalize: the first terminal state stays. *)
Finalized(s, r) == IF receipt[s] \in Pending THEN r ELSE receipt[s]

SetState(s, r) == session' = [session EXCEPT ![s].state = r]

Closable(s) == session[s].state \notin {"absent", "cancelled"}

EndAs(s, r) == IF Closable(s) THEN SetState(s, r) ELSE UNCHANGED session

(* _finish by the session's worker: a scan keeps a cancellation, and an     *)
(* enrollment ends as its receipt does, or in an error when the receipt    *)
(* cannot be written.  Capture stops, and the controller hears the answer.  *)
Finish(s, r) ==
    /\ capture' = IF Captures(s) THEN Stopped(capture) ELSE capture
    /\ IF Enrolling(s) /\ session[s].state # "absent"
       THEN /\ UNCHANGED waiting
            /\ \/ /\ receipt' = [receipt EXCEPT ![s] = Finalized(s, r)]
                  /\ EndAs(s, Finalized(s, r))
               \/ "store" \in faults /\ UNCHANGED receipt /\ EndAs(s, "error")
       ELSE /\ EndAs(s, r)
            /\ waiting' = IF Closable(s) THEN waiting \ {s} ELSE waiting
            /\ UNCHANGED receipt

(* _release_session: the slot is free, and whoever was not told the end of *)
(* its session is cancelled.                                               *)
Release(s) ==
    /\ slot' = IF slot = s THEN None ELSE slot
    /\ session' = IF Live(s) THEN [session EXCEPT ![s].state = "cancelled"] ELSE session

-----------------------------------------------------------------------------
(* Starting one *)

Vacant == phase = "running" /\ slot = None

StartScan(s) ==
    /\ Vacant /\ worker[s] = "none"
    /\ \E kind \in Kinds \ {"enroll"}, ignition \in BOOLEAN :
         /\ session' = [session EXCEPT ![s] =
                          [NoSession EXCEPT !.kind = kind, !.ignition = ignition,
                                            !.state = "open"]]
         /\ waiting' = IF kind = "sensor" THEN waiting \cup {s} ELSE waiting
    /\ slot' = s
    /\ worker' = [worker EXCEPT ![s] = "created"]
    /\ UNCHANGED <<receipt, camera, capture, cleanup, caller, dispatched, phase>>

(* The API reserves a receipt before it asks the runtime. *)
ReserveEnrollment(s) ==
    /\ worker[s] = "none" /\ "enroll" \in Kinds
    /\ receipt' = [receipt EXCEPT ![s] = "accepted"]
    /\ worker' = [worker EXCEPT ![s] = "reserved"]
    /\ UNCHANGED <<session, slot, camera, capture, waiting, cleanup, caller, dispatched, phase>>

StartEnrollment(s) ==
    /\ worker[s] = "reserved" /\ Vacant
    /\ session' = [session EXCEPT ![s] = [NoSession EXCEPT !.kind = "enroll", !.state = "open"]]
    /\ slot' = s
    /\ worker' = [worker EXCEPT ![s] = "created"]
    /\ UNCHANGED <<receipt, camera, capture, waiting, cleanup, caller, dispatched, phase>>

(* Busy, in maintenance, unauthorized: the receipt fails at once. *)
RefuseEnrollment(s) ==
    /\ worker[s] = "reserved"
    /\ \/ receipt' = [receipt EXCEPT ![s] = Finalized(s, "error")]
       \/ "store" \in faults /\ UNCHANGED receipt
    /\ worker' = [worker EXCEPT ![s] = "done"]
    /\ UNCHANGED <<session, slot, camera, capture, waiting, cleanup, caller, dispatched, phase>>

(* _spawn.  A sensor scan whose AUTH_PENDING cannot be sent ends instead.  *)
Spawn(s) ==
    /\ worker[s] = "created"
    /\ \/ /\ worker' = [worker EXCEPT ![s] = "begin"]
          /\ UNCHANGED <<session, slot, waiting>>
       \/ /\ session[s].kind = "sensor"
          /\ worker' = [worker EXCEPT ![s] = "done"]
          /\ session' = IF Live(s) THEN [session EXCEPT ![s].state = "error"] ELSE session
          /\ slot' = IF slot = s THEN None ELSE slot
          /\ waiting' = waiting \ {s}
    /\ UNCHANGED <<receipt, camera, capture, cleanup, caller, dispatched, phase>>

-----------------------------------------------------------------------------
(* The worker thread *)

At(s, step) == worker[s] = step
Go(s, step) == worker' = [worker EXCEPT ![s] = step]

Ends(s) == {"error", "timeout"} \cup (IF Enrolling(s) THEN {} ELSE {"denied"})

(* A step of the worker that ends its session and turns to the camera.     *)
(* The worker looks at the cancel event before it does so, which may be    *)
(* set in between: _finish has to look again.                              *)
End(s, r) ==
    /\ Finish(s, r)
    /\ Go(s, "close")
    /\ UNCHANGED <<slot, camera, cleanup, caller, dispatched, phase>>

(* The cancel event is set: leave without a word. *)
Leave(s) ==
    /\ session[s].cancel \/ session[s].state = "absent"
    /\ Go(s, "close")
    /\ UNCHANGED <<session, receipt, slot, camera, capture, waiting, cleanup, caller,
                   dispatched, phase>>

(* Authorization and settings are checked; an enrollment activates its     *)
(* receipt, or takes over the end the receipt already has.                 *)
Begin(s) ==
    /\ At(s, "begin")
    /\ \/ Leave(s) /\ session[s].state # "absent"
       \/ /\ session[s].state = "absent"
          /\ Go(s, "done")
          /\ UNCHANGED <<session, receipt, slot, camera, capture, waiting, cleanup, caller,
                         dispatched, phase>>
       \/ /\ ~session[s].cancel /\ Live(s)
          /\ Enrolling(s) => receipt[s] = "accepted"
          /\ receipt' = IF Enrolling(s) THEN [receipt EXCEPT ![s] = "active"] ELSE receipt
          /\ Go(s, "open")
          /\ UNCHANGED <<session, slot, camera, capture, waiting, cleanup, caller,
                         dispatched, phase>>
       \/ End(s, "error")
       \/ ~Enrolling(s) /\ End(s, "denied")

(* _open_camera: the check, and the slow opening after it *)
Open(s) ==
    /\ At(s, "open")
    /\ \/ Leave(s)
       \/ /\ ~session[s].cancel /\ Live(s)
          /\ Go(s, IF camera = None THEN "opening" ELSE "start")
          /\ UNCHANGED <<session, receipt, slot, camera, capture, waiting, cleanup,
                         caller, dispatched, phase>>

Opening(s) ==
    /\ At(s, "opening")
    /\ \/ /\ camera' = s
          /\ Go(s, "start")
          /\ UNCHANGED <<session, receipt, slot, capture, waiting, cleanup, caller,
                         dispatched, phase>>
       \/ End(s, "error")
       \/ Leave(s)

(* _start_camera_capture; the controller's second AUTH_PENDING may fail. *)
StartCapture(s) ==
    /\ At(s, "start")
    /\ \/ Leave(s)
       \/ /\ slot = s /\ Live(s) /\ ~session[s].cancel /\ capture = None
          /\ capture' = [owner |-> s, runs |-> TRUE]
          /\ Go(s, "loop")
          /\ UNCHANGED <<session, receipt, slot, camera, waiting, cleanup, caller,
                         dispatched, phase>>
       \/ End(s, "error")

(* Frames are matched until enough agree, the time is up, authorization is *)
(* gone, or the capture stops underneath.                                  *)
Look(s) ==
    /\ At(s, "loop")
    /\ \/ Leave(s)
       \/ /\ Capturing(s) /\ camera # None
          /\ Go(s, "grant")
          /\ UNCHANGED <<session, receipt, slot, camera, capture, waiting, cleanup,
                         caller, dispatched, phase>>
       \/ \E r \in Ends(s) : End(s, r)

(* Mutant: the last look at the cancel event is missing. *)
GrantBlindly(s) ==
    /\ At(s, "grant") /\ Live(s)
    /\ SetState(s, "granted")
    /\ waiting' = waiting \ {s}
    /\ capture' = IF Captures(s) THEN Stopped(capture) ELSE capture
    /\ Go(s, "close")
    /\ UNCHANGED <<receipt, slot, camera, cleanup, caller, dispatched, phase>>

(* _grant_scan, or the saving of an enrollment, under both locks.  The     *)
(* face and its receipt are saved in one transaction.                      *)
Grant(s) ==
    /\ At(s, "grant")
    /\ \/ Leave(s)
       \/ /\ Capturing(s)
          /\ IF Enrolling(s)
             THEN IF receipt[s] = "active"
                  THEN /\ receipt' = [receipt EXCEPT ![s] = "completed"]
                       /\ SetState(s, "completed")
                  ELSE /\ SetState(s, receipt[s])
                       /\ UNCHANGED receipt
             ELSE SetState(s, "granted") /\ UNCHANGED receipt
          /\ waiting' = waiting \ {s}
          /\ capture' = Stopped(capture)
          /\ Go(s, "close")
          /\ UNCHANGED <<slot, camera, cleanup, caller, dispatched, phase>>
       \/ \E r \in Ends(s) : End(s, r)

-----------------------------------------------------------------------------
(* Giving the camera back *)

(* _close_camera(s): the capture thread first, then the camera itself.     *)
Foreign(s) == camera \notin {None, s}

CaptureStuck == capture # None /\ "capture" \in faults
CameraStuck == camera # None /\ "teardown" \in faults

CloseCamera ==
    /\ capture' = None
    /\ camera' = None

(* Mutant: the slot is released although the camera is still held. *)
CloseEarly(s) ==
    /\ At(s, "close")
    /\ Release(s)
    /\ Go(s, "done")
    /\ \/ CloseCamera
       \/ CaptureStuck /\ capture' = Stopped(capture) /\ UNCHANGED camera
    /\ UNCHANGED <<receipt, waiting, cleanup, caller, dispatched, phase>>

Close(s) ==
    /\ At(s, "close")
    /\ \/ /\ Release(s)
          /\ IF Foreign(s) THEN UNCHANGED <<capture, camera>> ELSE CloseCamera
          /\ Go(s, "done")
       \/ /\ ~Foreign(s)
          /\ \/ CaptureStuck /\ capture' = Stopped(capture)
             \/ CameraStuck /\ capture' = None
          /\ Go(s, "defer")
          /\ UNCHANGED <<session, slot, camera>>
    /\ UNCHANGED <<receipt, waiting, cleanup, caller, dispatched, phase>>

(* Mutant: nobody closes the camera after the worker gave up. *)
DeferNever(s) ==
    /\ At(s, "defer")
    /\ Go(s, "done")
    /\ UNCHANGED <<session, receipt, slot, camera, capture, waiting, cleanup, caller,
                   dispatched, phase>>

(* _defer_camera_cleanup: one cleanup thread, which tries once more. *)
Defer(s) ==
    /\ At(s, "defer")
    /\ cleanup' = IF cleanup = None THEN s ELSE cleanup
    /\ Go(s, "done")
    /\ UNCHANGED <<session, receipt, slot, camera, capture, waiting, caller, dispatched, phase>>

Cleanup ==
    /\ cleanup # None
    /\ cleanup' = None
    /\ \/ /\ IF Foreign(cleanup) THEN UNCHANGED <<capture, camera>> ELSE CloseCamera
          /\ Release(cleanup)
       \/ /\ ~Foreign(cleanup) /\ CameraStuck
          /\ capture' = None
          /\ UNCHANGED <<session, slot, camera>>
    /\ UNCHANGED <<receipt, worker, waiting, caller, dispatched, phase>>

-----------------------------------------------------------------------------
(* Cancelling *)

(* _cancel of a scan, under the actuation lock *)
CancelledScan(s) == [session[s] EXCEPT !.cancel = TRUE, !.state = "cancelled"]

(* _cancel_enrollment_session: the receipt first, and its outcome decides. *)
CancelledEnrollment(s) ==
    [session[s] EXCEPT !.cancel = TRUE, !.state = Finalized(s, "cancelled")]

(* Mutant: the controller of a cancelled sensor scan is not told. *)
CancelSilently(s) ==
    /\ Live(s)
    /\ session' = [session EXCEPT ![s] = IF Enrolling(s) THEN CancelledEnrollment(s)
                                                        ELSE CancelledScan(s)]
    /\ receipt' = IF Enrolling(s)
                  THEN [receipt EXCEPT ![s] = Finalized(s, "cancelled")] ELSE receipt
    /\ capture' = IF Captures(s) THEN Stopped(capture) ELSE capture
    /\ UNCHANGED waiting

Cancel(s) ==
    /\ Live(s)
    /\ session' = [session EXCEPT ![s] = IF Enrolling(s) THEN CancelledEnrollment(s)
                                                        ELSE CancelledScan(s)]
    /\ receipt' = IF Enrolling(s)
                  THEN [receipt EXCEPT ![s] = Finalized(s, "cancelled")] ELSE receipt
    /\ capture' = IF Captures(s) THEN Stopped(capture) ELSE capture
    /\ waiting' = waiting \ {s}

(* From the dashboard or the phone, or because a device was revoked *)
CancelRequest(s) ==
    /\ Cancel(s)
    /\ UNCHANGED <<slot, worker, camera, cleanup, caller, dispatched, phase>>

(* AUTH_CANCEL from the controller: the event is set before the locks are  *)
(* taken for the rest, so the worker may see it first.                     *)
SensorCancel(s) ==
    /\ session[s].kind = "sensor" /\ slot = s
    /\ session' = [session EXCEPT ![s].cancel = TRUE]
    /\ waiting' = waiting \ {s}
    /\ UNCHANGED <<receipt, slot, worker, camera, capture, cleanup, caller, dispatched, phase>>

(* An account lost its access: an ignition scan in the slot is cancelled,  *)
(* and every capture stops, that of an enrollment as well.  The controller *)
(* is not told.                                                            *)
Revoke ==
    /\ capture' = Stopped(capture)
    /\ session' = IF slot # None /\ session[slot].ignition /\ Live(slot)
                  THEN [session EXCEPT ![slot] = [CancelledScan(slot) EXCEPT !.revoked = TRUE]]
                  ELSE session
    /\ UNCHANGED <<receipt, slot, worker, camera, waiting, cleanup, caller, dispatched, phase>>

-----------------------------------------------------------------------------
(* Callers that cancel everything and lock: one at a time *)

CallerMoves(at) == caller' = IF at = "none" THEN NoCaller ELSE [caller EXCEPT !.at = at]

Call(op) ==
    /\ caller = NoCaller
    /\ CASE op \in {"force", "sync"} -> phase = "running" /\ UNCHANGED phase
         [] op = "quiesce" -> phase \in {"running", "paused"} /\ phase' = "paused"
         [] op = "close" -> phase # "closed" /\ phase' = "closed"
    /\ caller' = [op |-> op, at |-> "cancel"]
    /\ dispatched' = FALSE
    /\ UNCHANGED <<session, receipt, slot, worker, camera, capture, waiting, cleanup>>

(* _cancel_all_sessions.  At most one session is live.  When its receipt   *)
(* cannot be written the error leaves through the caller.                  *)
CallerCancels ==
    /\ caller.at = "cancel"
    /\ \/ /\ \A s \in Sessions : ~Live(s)
          /\ capture' = Stopped(capture)
          /\ CallerMoves("dispatch")
          /\ UNCHANGED <<session, receipt, waiting>>
       \/ \E s \in Sessions : Cancel(s) /\ CallerMoves("dispatch")
       \/ /\ "store" \in faults
          /\ \E s \in Sessions : Live(s) /\ Enrolling(s)
          /\ CallerMoves("none")
          /\ UNCHANGED <<session, receipt, capture, waiting>>
    /\ UNCHANGED <<slot, worker, camera, cleanup, dispatched, phase>>

(* Mutant: the lock gives up while the camera is still capturing. *)
CallerDispatchesIfIdle ==
    /\ caller.at = "dispatch"
    /\ dispatched' = (capture = None)
    /\ CallerMoves(IF dispatched' /\ caller.op # "sync" THEN "capture" ELSE "none")
    /\ UNCHANGED <<session, receipt, slot, worker, camera, capture, waiting, cleanup, phase>>

(* STOP and LOCK, module Actuation *)
CallerDispatches ==
    /\ caller.at = "dispatch"
    /\ dispatched' = TRUE
    /\ CallerMoves(IF caller.op = "sync" THEN "none" ELSE "capture")
    /\ UNCHANGED <<session, receipt, slot, worker, camera, capture, waiting, cleanup, phase>>

(* _close_camera() of whichever session has it by now *)
CallerStopsCapture ==
    /\ caller.at = "capture"
    /\ \/ capture' = None /\ CallerMoves("camera")
       \/ /\ CaptureStuck
          /\ capture' = Stopped(capture)
          /\ CallerMoves(IF caller.op = "quiesce" THEN "join" ELSE "none")
    /\ UNCHANGED <<session, receipt, slot, worker, camera, waiting, cleanup, dispatched, phase>>

CallerClosesCamera ==
    /\ caller.at = "camera"
    /\ \/ camera' = None
       \/ CameraStuck /\ UNCHANGED camera
    /\ CallerMoves(IF caller.op = "quiesce" THEN "join" ELSE "none")
    /\ UNCHANGED <<session, receipt, slot, worker, capture, waiting, cleanup, dispatched, phase>>

Busy(s) == worker[s] \notin {"none", "reserved", "created", "done"}

(* The rest of quiesce: threads are joined for as long as time allows. *)
QuiesceJoins ==
    /\ caller.at = "join"
    /\ slot' = None
    /\ phase' \in IF camera = None /\ capture = None /\ cleanup = None
                     /\ \A s \in Sessions : ~Busy(s)
                  THEN {"drained", "paused"} ELSE {"paused"}
    /\ CallerMoves("none")
    /\ UNCHANGED <<session, receipt, worker, camera, capture, waiting, cleanup, dispatched>>

(* resume_after_maintenance forgets every session. *)
Resume ==
    /\ phase = "drained" /\ caller = NoCaller
    /\ phase' = "running"
    /\ session' = [s \in Sessions |-> [session[s] EXCEPT !.state = "absent", !.cancel = TRUE]]
    /\ slot' = None /\ cleanup' = None
    /\ UNCHANGED <<receipt, worker, camera, capture, waiting, caller, dispatched>>

-----------------------------------------------------------------------------
Work(s) ==
    \/ Spawn(s)
    \/ Begin(s)
    \/ Open(s)
    \/ Opening(s)
    \/ StartCapture(s)
    \/ Look(s)
    \/ Grant(s)
    \/ Close(s)
    \/ Defer(s)

CallerWorks ==
    \/ CallerCancels
    \/ CallerDispatches
    \/ CallerStopsCapture
    \/ CallerClosesCamera
    \/ QuiesceJoins

Step ==
    \/ \E s \in Sessions :
         \/ StartScan(s)
         \/ ReserveEnrollment(s)
         \/ StartEnrollment(s)
         \/ RefuseEnrollment(s)
         \/ Work(s)
         \/ CancelRequest(s)
         \/ SensorCancel(s)
    \/ Cleanup
    \/ Revoke
    \/ \E op \in Callers : Call(op)
    \/ CallerWorks
    \/ Resume

Next == Step /\ UNCHANGED faults

Spec == Init /\ [][Next]_vars

(* Threads that run get on with it; nobody has to ask for anything. *)
Fairness ==
    /\ \A s \in Sessions : /\ WF_vars(Work(s) /\ UNCHANGED faults)
                          /\ WF_vars(RefuseEnrollment(s) /\ UNCHANGED faults)
    /\ WF_vars(Cleanup /\ UNCHANGED faults)
    /\ WF_vars(CallerWorks /\ UNCHANGED faults)

FairSpec == Spec /\ Fairness
-----------------------------------------------------------------------------
(* Properties *)

SessionsTypeOK ==
    /\ session \in [Sessions -> [kind : AllKinds, ignition : BOOLEAN, state : States,
                                 cancel : BOOLEAN, revoked : BOOLEAN]]
    /\ receipt \in [Sessions -> Receipts]
    /\ worker \in [Sessions -> Steps]
    /\ slot \in Sessions \cup {None} /\ camera \in Sessions \cup {None}
    /\ cleanup \in Sessions \cup {None}
    /\ capture \in [owner : Sessions, runs : BOOLEAN] \cup {None}
    /\ waiting \subseteq Sessions
    /\ caller.op \in AllCallers \cup {"none"}
    /\ dispatched \in BOOLEAN
    /\ phase \in {"running", "paused", "drained", "closed"}
    /\ faults \in FaultSets

(* Outside maintenance and shutdown an open camera belongs to the session  *)
(* in the slot: the slot is not given away before the camera is.           *)
CameraIsHeld == phase = "running" /\ camera # None => slot = camera

(* Drained maintenance leaves no camera, no capture, no live session and   *)
(* no thread beyond one that has not begun or that is about to leave.      *)
DrainedIsQuiet ==
    phase = "drained" =>
        /\ camera = None /\ capture = None /\ slot = None
        /\ \A s \in Sessions : ~Live(s) /\ (Busy(s) => session[s].cancel)

(* Slot, camera and threads fit each other in service and in maintenance.  *)
SessionsInv == SessionsTypeOK /\ CameraIsHeld /\ DrainedIsQuiet

(* A sensor scan that is over has told its controller, which otherwise     *)
(* waits out its own deadline; only a revoked account's is not told.       *)
NobodyLeftWaiting ==
    \A s \in waiting : worker[s] = "done" => session[s].revoked

(* While receipts can be written, an enrollment ends exactly as its        *)
(* receipt does, whichever of worker, canceller and refusal came first.    *)
ReceiptFollowsSession ==
    "store" \notin faults => \A s \in Sessions :
        Enrolling(s) /\ session[s].state \in Final => receipt[s] = session[s].state

(* An enrollment is reported completed only if its receipt says so.        *)
CompletedIsSaved ==
    \A s \in Sessions : session[s].state = "completed" => receipt[s] = "completed"

(* Runtime and receipt tell the phone the same. *)
ReceiptIsTrue == ReceiptFollowsSession /\ CompletedIsSaved

(* The docstring of close: stop, lock, then release hardware.              *)
CloseLocks == phase = "closed" /\ caller = NoCaller => dispatched

(* The outcome of a session is decided once: what it ended as is what it   *)
(* stays, until maintenance forgets it, and once cancelled - by its user,  *)
(* the controller, a lock, a reset or a revocation - it is neither granted *)
(* nor its face saved.                                                     *)
OutcomeIsFinal ==
    [][\A s \in Sessions :
         /\ session[s].state \in Final => session'[s].state \in {session[s].state, "absent"}
         /\ session[s].cancel /\ session[s].state \notin {"granted", "completed"}
              => session'[s].state \notin {"granted", "completed"}]_vars

(* The slot comes free again and again, even when capture threads stop     *)
(* late: the host keeps "ownership until a blocked camera read has actually *)
(* released the device" (backend-camera-preview-plan.md), and no longer.   *)
(* A camera that refuses to be closed keeps its session in the slot: this  *)
(* is about behaviours without the teardown fault.                         *)
SlotComesFree == []<>(slot = None)

(* That does not hold: a thread that maintenance has not seen, because it  *)
(* begins only after the drain, may keep the next session's slot for good  *)
(* (FaceSessionsLate.cfg).                                                 *)
ThreadUnseen == phase = "drained" /\ \E s \in Sessions : worker[s] = "created"

(* Every session gives the slot back, whatever lock, link reset,           *)
(* maintenance or shutdown meets it and however late its capture thread    *)
(* stops - unless a drain has missed a thread.                             *)
SlotIsFreed == []~ThreadUnseen => SlotComesFree

(* While receipts can be written, every lock, link reset, quiesce and close *)
(* reaches the actuator, however late the capture thread stops.            *)
LockIsDispatched == caller # NoCaller ~> dispatched
=============================================================================
