------------------------- MODULE FaceSessionsProofs -------------------------
(***************************************************************************)
(* What FaceSessions guarantees for every set of sessions, of kinds of     *)
(* session, of callers and of faults.                                      *)
(*                                                                         *)
(* The inductive invariant IInv says of each session where slot, state,    *)
(* waiting controller and receipt may be while its thread stands where it  *)
(* stands (RowFits), and of the camera that its session has got as far as  *)
(* opening it and has not let go of the slot (CameraFits).                 *)
(***************************************************************************)
EXTENDS FaceSessions, TLAPS

Records == [kind : AllKinds, ignition : BOOLEAN, state : States, cancel : BOOLEAN,
            revoked : BOOLEAN]

Young == {"none", "reserved"}
Shooting == {"open", "opening", "start", "loop", "grant"}
Early == {"created", "begin"} \cup Shooting

(* Maintenance has forgotten the session, and its thread will leave. *)
Stale(s) == session[s].state = "absent" /\ session[s].cancel

CallerTypeOK == caller \in [op : AllCallers \cup {"none"},
                            at : {"none", "cancel", "dispatch", "capture", "camera", "join"}]

(* In service the thread of a session holds the slot until it has given    *)
(* the camera back; in drained maintenance no session is live.             *)
HoldsSlot(s) ==
    /\ Live(s) => slot = s
    /\ phase = "running" =>
         /\ worker[s] \in Shooting => slot = s
         /\ worker[s] \in {"created", "begin", "close", "defer"} => slot = s \/ Stale(s)
    /\ phase = "drained" =>
         ~Live(s) /\ worker[s] \notin Shooting /\ (Busy(s) => session[s].cancel)

(* A session has no state before its thread is created, and no outcome but *)
(* a cancellation before its thread turns to the camera.                   *)
StateFits(s) ==
    /\ worker[s] \in Young => session[s].state = "absent" /\ ~Enrolling(s)
    /\ worker[s] \in Early => /\ session[s].state \in {"open", "cancelled", "absent"}
                              /\ ~Live(s) => session[s].cancel
    /\ worker[s] \in Shooting => session[s].state # "absent"
    /\ Enrolling(s) => ~session[s].ignition

(* A controller waits for a session that is live and not cancelled, or     *)
(* that was ended with the account's access.                               *)
WaitFits(s) ==
    s \in waiting =>
        /\ session[s].kind = "sensor" /\ worker[s] \notin Young
        /\ \/ session[s].revoked
           \/ Live(s) /\ ~session[s].cancel /\ worker[s] \in Early

(* The receipt of a live enrollment is as far as its thread. *)
ReceiptFits(s) ==
    /\ worker[s] = "reserved" => receipt[s] = "accepted"
    /\ Enrolling(s) => receipt[s] # "none"
    /\ Enrolling(s) /\ Live(s) =>
         /\ ~session[s].cancel /\ worker[s] \in Early
         /\ receipt[s] = IF worker[s] \in Shooting THEN "active" ELSE "accepted"
    /\ session[s].state = "completed" => receipt[s] = "completed"
    /\ "store" \notin faults /\ Enrolling(s) /\ session[s].state \in Final
         => receipt[s] = session[s].state

RowFits(s) == HoldsSlot(s) /\ StateFits(s) /\ WaitFits(s) /\ ReceiptFits(s)

CameraFits ==
    /\ CameraIsHeld
    /\ camera # None => worker[camera] \in {"start", "loop", "grant", "close", "defer", "done"}
    /\ cleanup # None => worker[cleanup] = "done"
    /\ phase = "drained" => camera = None /\ capture = None /\ slot = None

(* A quiesce that is past its cancellations has left no session live. *)
QuiesceFits ==
    /\ caller.op = "quiesce" => phase = "paused"
    /\ caller.at = "join" => caller.op = "quiesce"
    /\ caller.op = "quiesce" /\ caller.at # "cancel" => \A s \in Sessions : ~Live(s)

TypesFit == SessionsTypeOK /\ CallerTypeOK

IInv == TypesFit /\ (\A s \in Sessions : RowFits(s)) /\ CameraFits /\ QuiesceFits

USE FaceSessionsAssumption

-----------------------------------------------------------------------------
(* Steps that concern one session *)

SameRow(t) ==
    /\ session'[t] = session[t] /\ worker'[t] = worker[t] /\ receipt'[t] = receipt[t]
    /\ t \in waiting' => t \in waiting

(* The slot stays, or the session s gives it back or takes it. *)
SlotMoves(s) == slot' = slot \/ (slot = s /\ slot' = None) \/ (slot = None /\ slot' = s)

(* What another session's row says survives a step of s. *)
LEMMA OthersKept ==
  ASSUME IInv, NEW s \in Sessions, NEW t \in Sessions, t # s, SameRow(t), SlotMoves(s),
         phase' = phase, faults' = faults
  PROVE  RowFits(t)'
BY
DEF IInv, SameRow, SlotMoves, RowFits, HoldsSlot, StateFits, WaitFits, ReceiptFits, Live,
       Enrolling, Stale, Busy

(* A stopped capture is one. *)
LEMMA StoppedFits ==
  ASSUME SessionsTypeOK
  PROVE  Stopped(capture) \in [owner : Sessions, runs : BOOLEAN] \cup {None}
BY DEF SessionsTypeOK, Stopped

(* The types of slot and waiting controllers. *)
LEMMA StandingTypes ==
  ASSUME IInv
  PROVE  slot \in Sessions \cup {None} /\ waiting \subseteq Sessions
BY DEF IInv, TypesFit, SessionsTypeOK

(* Types after a step that leaves the camera to whom it belongs. *)
LEMMA TypesKept ==
  ASSUME IInv, session' \in [Sessions -> Records], receipt' \in [Sessions -> Receipts],
         worker' \in [Sessions -> Steps], capture' \in {capture, Stopped(capture), None},
         waiting' \subseteq Sessions, slot' \in Sessions \cup {None},
         UNCHANGED <<camera, cleanup, caller, dispatched, phase, faults>>
  PROVE  TypesFit'
<1>1. SessionsTypeOK /\ CallerTypeOK
  BY DEF IInv, TypesFit
<1>2. capture' \in [owner : Sessions, runs : BOOLEAN] \cup {None}
  BY <1>1, StoppedFits DEF SessionsTypeOK
<1>3. /\ camera' \in Sessions \cup {None} /\ cleanup' \in Sessions \cup {None}
      /\ caller'.op \in AllCallers \cup {"none"} /\ dispatched' \in BOOLEAN
      /\ phase' \in {"running", "paused", "drained", "closed"} /\ faults' \in FaultSets
  BY <1>1 DEF SessionsTypeOK
<1>4. SessionsTypeOK'
  BY <1>2, <1>3 DEF SessionsTypeOK, Records
<1>5. CallerTypeOK'
  BY <1>1 DEF CallerTypeOK
<1> QED
  BY <1>4, <1>5 DEF TypesFit

(* A step of s that keeps what the row of s, the camera and a quiesce say. *)
LEMMA OneRow ==
  ASSUME IInv, NEW s \in Sessions, \A t \in Sessions \ {s} : SameRow(t), SlotMoves(s),
         phase' = phase, faults' = faults,
         TypesFit', RowFits(s)', CameraFits', QuiesceFits'
  PROVE  IInv'
BY OthersKept DEF IInv

LEMMA StartScanKeeps ==
  ASSUME IInv, NEW s \in Sessions, StartScan(s), UNCHANGED faults
  PROVE  IInv'
<1>1. PICK kind \in Kinds \ {"enroll"}, ignition \in BOOLEAN :
        /\ session' = [session EXCEPT ![s] = [NoSession EXCEPT !.kind = kind,
                          !.ignition = ignition, !.state = "open"]]
        /\ waiting' = IF kind = "sensor" THEN waiting \cup {s} ELSE waiting
  BY DEF StartScan
<1>2. /\ phase = "running" /\ slot = None /\ worker[s] = "none" /\ slot' = s
      /\ worker' = [worker EXCEPT ![s] = "created"]
      /\ UNCHANGED <<receipt, camera, capture, cleanup, caller, dispatched, phase, faults>>
  BY DEF StartScan, Vacant
<1>3. TypesFit'
  <2>1. [NoSession EXCEPT !.kind = kind, !.ignition = ignition, !.state = "open"] \in Records
    BY DEF NoSession, Records, States, AllKinds
  <2>2. session' \in [Sessions -> Records]
    BY <1>1, <2>1 DEF IInv, TypesFit, SessionsTypeOK, Records
  <2>3. worker' \in [Sessions -> Steps] /\ receipt' \in [Sessions -> Receipts]
    BY <1>2 DEF IInv, TypesFit, SessionsTypeOK, Steps
  <2> QED
    BY <1>1, <1>2, <2>2, <2>3, StandingTypes, TypesKept
<1>4. \A t \in Sessions \ {s} : SameRow(t)
  BY <1>1, <1>2 DEF SameRow, IInv, TypesFit, SessionsTypeOK
<1>5. /\ session'[s] = [NoSession EXCEPT !.kind = kind, !.ignition = ignition, !.state = "open"]
      /\ worker'[s] = "created" /\ receipt'[s] = receipt[s]
      /\ s \in waiting' => s \in waiting \/ kind = "sensor"
  BY <1>1, <1>2 DEF IInv, TypesFit, SessionsTypeOK
<1>6. RowFits(s)'
  BY <1>2, <1>5 DEF IInv, RowFits, HoldsSlot, StateFits, WaitFits, ReceiptFits, Live,
       Enrolling, Stale, Busy, Young, Early, Shooting, Final, NoSession
<1>7. CameraFits'
  BY <1>2 DEF IInv, TypesFit, SessionsTypeOK, CameraFits, CameraIsHeld
<1>8. QuiesceFits'
  BY <1>2 DEF IInv, QuiesceFits
<1> QED
  BY <1>2, <1>3, <1>4, <1>6, <1>7, <1>8, OneRow DEF SlotMoves

LEMMA ReserveKeeps ==
  ASSUME IInv, NEW s \in Sessions, UNCHANGED faults, ReserveEnrollment(s)
  PROVE  IInv'
<1>1. TypesFit'
  BY DEF IInv, TypesFit, SessionsTypeOK, CallerTypeOK, Steps, Receipts, Pending,
         ReserveEnrollment
<1>2. \A t \in Sessions \ {s} : SameRow(t)
  BY DEF SameRow, IInv, TypesFit, SessionsTypeOK, ReserveEnrollment
<1>3. worker'[s] = "reserved" /\ receipt'[s] = "accepted" /\ worker[s] = "none"
  BY DEF ReserveEnrollment, IInv, TypesFit, SessionsTypeOK
<1>4. RowFits(s)'
  BY <1>3 DEF IInv, RowFits, HoldsSlot, StateFits, WaitFits, ReceiptFits, Live, Enrolling,
       Stale, Busy, Young, Early, Shooting, Final, ReserveEnrollment
<1>5. CameraFits'
  BY DEF IInv, TypesFit, SessionsTypeOK, CameraFits, CameraIsHeld, ReserveEnrollment
<1>6. QuiesceFits'
  BY DEF IInv, QuiesceFits, Live, ReserveEnrollment
<1> QED
  BY <1>1, <1>2, <1>4, <1>5, <1>6, OneRow DEF ReserveEnrollment, SlotMoves

LEMMA StartEnrollmentKeeps ==
  ASSUME IInv, NEW s \in Sessions, UNCHANGED faults, StartEnrollment(s)
  PROVE  IInv'
<1>1. TypesFit'
  <2>1. [NoSession EXCEPT !.kind = "enroll", !.state = "open"] \in Records
    BY DEF NoSession, Records, States, AllKinds
  <2>2. session' \in [Sessions -> Records]
    BY <2>1 DEF StartEnrollment, IInv, TypesFit, SessionsTypeOK, Records
  <2>3. worker' \in [Sessions -> Steps] /\ receipt' \in [Sessions -> Receipts]
    BY DEF StartEnrollment, IInv, TypesFit, SessionsTypeOK, Steps
  <2> QED
    BY <2>2, <2>3, StandingTypes, TypesKept DEF StartEnrollment, Vacant
<1>2. \A t \in Sessions \ {s} : SameRow(t)
  BY DEF SameRow, IInv, TypesFit, SessionsTypeOK, StartEnrollment
<1>3. /\ session'[s] = [NoSession EXCEPT !.kind = "enroll", !.state = "open"]
      /\ worker'[s] = "created" /\ worker[s] = "reserved" /\ slot' = s
      /\ UNCHANGED <<receipt, waiting, phase, faults>> /\ phase = "running"
  BY DEF StartEnrollment, Vacant, IInv, TypesFit, SessionsTypeOK
<1>4. RowFits(s)'
  BY <1>3 DEF IInv, RowFits, HoldsSlot, StateFits, WaitFits, ReceiptFits, Live, Enrolling,
       Stale, Busy, Young, Early, Shooting, Final, NoSession
<1>5. CameraFits'
  BY DEF IInv, TypesFit, SessionsTypeOK, CameraFits, CameraIsHeld, StartEnrollment, Vacant
<1>6. QuiesceFits'
  BY DEF IInv, QuiesceFits, StartEnrollment, Vacant
<1> QED
  BY <1>1, <1>2, <1>4, <1>5, <1>6, OneRow DEF StartEnrollment, SlotMoves, Vacant

LEMMA RefuseKeeps ==
  ASSUME IInv, NEW s \in Sessions, UNCHANGED faults, RefuseEnrollment(s)
  PROVE  IInv'
<1>1. TypesFit'
  BY
  DEF IInv, TypesFit, SessionsTypeOK, CallerTypeOK, Steps, Receipts, Pending, Finalized,
         RefuseEnrollment
<1>2. \A t \in Sessions \ {s} : SameRow(t)
  BY DEF SameRow, IInv, TypesFit, SessionsTypeOK, RefuseEnrollment
<1>3. worker'[s] = "done" /\ worker[s] = "reserved"
  BY DEF RefuseEnrollment, IInv, TypesFit, SessionsTypeOK
<1>4. RowFits(s)'
  BY <1>3 DEF IInv, RowFits, HoldsSlot, StateFits, WaitFits, ReceiptFits, Live, Enrolling,
       Stale, Busy, Young, Early, Shooting, Final, RefuseEnrollment
<1>5. CameraFits'
  BY DEF IInv, TypesFit, SessionsTypeOK, CameraFits, CameraIsHeld, RefuseEnrollment
<1>6. QuiesceFits'
  BY DEF IInv, QuiesceFits, Live, RefuseEnrollment
<1> QED
  BY <1>1, <1>2, <1>4, <1>5, <1>6, OneRow DEF RefuseEnrollment, SlotMoves

-----------------------------------------------------------------------------
(* The worker thread *)

(* A step that moves only the thread of s: what its row may say of the     *)
(* place it goes to is left to show.                                       *)
LEMMA MoveKeeps ==
  ASSUME IInv, NEW s \in Sessions, NEW step \in Steps, Go(s, step),
         UNCHANGED <<session, receipt, slot, waiting, caller, dispatched, phase, faults>>,
         TypesFit', RowFits(s)', CameraFits'
  PROVE  IInv'
<1>1. \A t \in Sessions \ {s} : SameRow(t)
  BY DEF SameRow, IInv, TypesFit, SessionsTypeOK, Go
<1>2. QuiesceFits'
  BY DEF IInv, QuiesceFits, Live
<1> QED
  BY <1>1, <1>2, OneRow DEF SlotMoves

LEMMA LeaveKeeps ==
  ASSUME IInv, NEW s \in Sessions, worker[s] \in Early, Leave(s), UNCHANGED faults
  PROVE  IInv'
<1>1. TypesFit'
  BY DEF IInv, TypesFit, SessionsTypeOK, CallerTypeOK, Steps, Leave, Go
<1>2. worker'[s] = "close" /\ (session[s].cancel \/ session[s].state = "absent")
  BY DEF Leave, Go, IInv, TypesFit, SessionsTypeOK
<1>3. /\ UNCHANGED <<session, receipt, slot, waiting, caller, dispatched, phase, faults>>
      /\ UNCHANGED <<camera, capture, cleanup>>
  BY DEF Leave
<1>4. RowFits(s)'
  BY <1>2, <1>3 DEF IInv, RowFits, HoldsSlot, StateFits, WaitFits, ReceiptFits, Live,
       Enrolling, Stale, Busy, Young, Early, Shooting
<1>5. CameraFits'
  BY <1>3 DEF IInv, TypesFit, SessionsTypeOK, CameraFits, CameraIsHeld, Leave, Go, Early,
       Shooting
<1> QED
  BY <1>1, <1>3, <1>4, <1>5, MoveKeeps DEF Leave, Steps

(* What _finish does to its session: it ends a live one, and keeps what    *)
(* was decided before.                                                     *)
FinishedRow(s) ==
    /\ IF Live(s) THEN session'[s].state \in {"denied", "error", "timeout"}
                  ELSE session'[s].state = session[s].state
    /\ session'[s].kind = session[s].kind /\ session'[s].cancel = session[s].cancel
    /\ session'[s].revoked = session[s].revoked /\ session'[s].ignition = session[s].ignition
    /\ Enrolling(s) => receipt'[s] # "none"
    /\ "store" \notin faults /\ Enrolling(s) /\ session[s].state # "absent"
         => receipt'[s] = session'[s].state
    /\ s \in waiting' => s \in waiting /\ ~Live(s)

LEMMA FinishEffect ==
  ASSUME IInv, NEW s \in Sessions, worker[s] \in Early,
         NEW r \in {"denied", "error", "timeout"}, r = "denied" => ~Enrolling(s),
         Finish(s, r)
  PROVE  /\ session' \in [Sessions -> Records] /\ receipt' \in [Sessions -> Receipts]
         /\ capture' \in {capture, Stopped(capture)} /\ waiting' \subseteq waiting
         /\ FinishedRow(s)
         /\ \A t \in Sessions \ {s} : session'[t] = session[t] /\ receipt'[t] = receipt[t]
<1> DEFINE x == Finalized(s, r)
<1>1. /\ session \in [Sessions -> Records] /\ receipt \in [Sessions -> Receipts]
      /\ session[s].state \in {"open", "cancelled", "absent"}
      /\ Enrolling(s) => receipt[s] # "none"
      /\ Enrolling(s) /\ Live(s) => receipt[s] \in Pending
      /\ "store" \notin faults /\ Enrolling(s) /\ session[s].state \in Final
           => receipt[s] = session[s].state
  BY DEF IInv, TypesFit, SessionsTypeOK, Records, RowFits, StateFits, ReceiptFits, Pending
<1>2. capture' \in {capture, Stopped(capture)}
  BY DEF Finish
<1>3. CASE Enrolling(s) /\ session[s].state # "absent"
  <2>1. x \in {"error", "timeout", "cancelled", "completed"} /\ (Live(s) => x = r)
    BY <1>1, <1>3 DEF Finalized, Receipts, Pending
  <2>2. waiting' = waiting
    BY <1>3 DEF Finish
  <2>3. CASE receipt' = [receipt EXCEPT ![s] = x] /\ EndAs(s, x)
    <3>1. session' = IF Live(s) THEN [session EXCEPT ![s].state = r] ELSE session
      BY <1>1, <1>3, <2>1, <2>3 DEF EndAs, Closable, SetState, Live
    <3>2. Live(s) \/ session[s].state = "cancelled"
      BY <1>1, <1>3 DEF Live
    <3>3. "store" \notin faults /\ ~Live(s) => x = "cancelled"
      BY <1>1, <1>3, <3>2 DEF Finalized, Pending, Final
    <3>4. x \in Receipts /\ r \in States
      BY <2>1 DEF Receipts, States, Final
    <3>5. receipt'[s] = x /\ x # "none"
      BY <1>1, <2>1, <2>3
    <3>6. s \notin waiting
      BY <1>3 DEF IInv, RowFits, WaitFits, Enrolling
    <3> QED
      BY <1>1, <1>2, <1>3, <2>1, <2>2, <2>3, <3>1, <3>2, <3>3, <3>4, <3>5, <3>6
      DEF FinishedRow, Live, Enrolling, Records
  <2>4. CASE "store" \in faults /\ UNCHANGED receipt /\ EndAs(s, "error")
    <3>1. session' = IF Live(s) THEN [session EXCEPT ![s].state = "error"] ELSE session
      BY <1>1, <1>3, <2>4 DEF EndAs, Closable, SetState, Live
    <3>2. "error" \in States
      BY DEF States, Final
    <3>3. s \notin waiting
      BY <1>3 DEF IInv, RowFits, WaitFits, Enrolling
    <3> QED
      BY <1>1, <1>2, <1>3, <2>2, <2>4, <3>1, <3>2, <3>3
      DEF FinishedRow, Live, Enrolling, Records
  <2> QED
    BY <1>3, <2>3, <2>4 DEF Finish
<1>4. CASE ~(Enrolling(s) /\ session[s].state # "absent")
  <2>1. /\ receipt' = receipt
        /\ waiting' = IF Live(s) THEN waiting \ {s} ELSE waiting
        /\ session' = IF Live(s) THEN [session EXCEPT ![s].state = r] ELSE session
    BY <1>1, <1>4 DEF Finish, EndAs, Closable, SetState, Live
  <2>2. r \in States
    BY DEF States, Final
  <2> QED
    BY <1>1, <1>2, <1>4, <2>1, <2>2 DEF FinishedRow, Live, Enrolling, Records
<1> QED
  BY <1>3, <1>4

LEMMA EndKeeps ==
  ASSUME IInv, NEW s \in Sessions, worker[s] \in Early,
         NEW r \in {"denied", "error", "timeout"}, r = "denied" => ~Enrolling(s),
         End(s, r), UNCHANGED faults
  PROVE  IInv'
<1>1. /\ session' \in [Sessions -> Records] /\ receipt' \in [Sessions -> Receipts]
      /\ capture' \in {capture, Stopped(capture)} /\ waiting' \subseteq waiting
      /\ FinishedRow(s)
      /\ \A t \in Sessions \ {s} : session'[t] = session[t] /\ receipt'[t] = receipt[t]
  BY FinishEffect DEF End
<1>2. /\ UNCHANGED <<slot, camera, cleanup, caller, dispatched, phase, faults>>
      /\ worker' = [worker EXCEPT ![s] = "close"]
  BY DEF End, Go
<1>3. TypesFit'
  <2>1. worker' \in [Sessions -> Steps]
    BY <1>2 DEF IInv, TypesFit, SessionsTypeOK, Steps
  <2> QED
    BY <1>1, <1>2, <2>1, StandingTypes, TypesKept
<1>4. \A t \in Sessions \ {s} : SameRow(t)
  BY <1>1, <1>2 DEF SameRow, IInv, TypesFit, SessionsTypeOK
<1>5. worker'[s] = "close"
  BY <1>2 DEF IInv, TypesFit, SessionsTypeOK
<1>6. RowFits(s)'
  BY <1>1, <1>2, <1>5 DEF FinishedRow, IInv, RowFits, HoldsSlot, StateFits, WaitFits,
       ReceiptFits, Live, Enrolling, Stale, Busy, Young, Early, Shooting, Final
<1>7. CameraFits'
  BY <1>1, <1>2
  DEF IInv, TypesFit, SessionsTypeOK, CameraFits, CameraIsHeld, Stopped, Early,
       Shooting
<1>8. QuiesceFits'
  BY <1>1, <1>2 DEF IInv, QuiesceFits, Live, FinishedRow
<1> QED
  BY <1>2, <1>3, <1>4, <1>6, <1>7, <1>8, OneRow DEF SlotMoves

LEMMA SpawnKeeps ==
  ASSUME IInv, NEW s \in Sessions, Spawn(s), UNCHANGED faults
  PROVE  IInv'
<1>1. /\ worker[s] = "created"
      /\ UNCHANGED <<receipt, camera, capture, cleanup, caller, dispatched, phase, faults>>
  BY DEF Spawn
<1>2. CASE Go(s, "begin") /\ UNCHANGED <<session, slot, waiting>>
  <2>1. TypesFit'
    BY <1>1, <1>2 DEF IInv, TypesFit, SessionsTypeOK, CallerTypeOK, Steps, Go
  <2>2. worker'[s] = "begin"
    BY <1>2 DEF Go, IInv, TypesFit, SessionsTypeOK
  <2>3. RowFits(s)'
    BY <1>1, <1>2, <2>2
    DEF IInv, RowFits, HoldsSlot, StateFits, WaitFits, ReceiptFits, Live,
         Enrolling, Stale, Busy, Young, Early, Shooting
  <2>4. CameraFits'
    BY <1>1, <1>2 DEF IInv, TypesFit, SessionsTypeOK, CameraFits, CameraIsHeld, Go
  <2> QED
    BY <1>1, <1>2, <2>1, <2>3, <2>4, MoveKeeps DEF Steps
<1>3. CASE /\ session[s].kind = "sensor" /\ Go(s, "done")
           /\ session' = IF Live(s) THEN [session EXCEPT ![s].state = "error"] ELSE session
           /\ slot' = IF slot = s THEN None ELSE slot
           /\ waiting' = waiting \ {s}
  <2>1. TypesFit'
    BY <1>1, <1>3
    DEF IInv, TypesFit, SessionsTypeOK, CallerTypeOK, Steps, Go, States, Final
  <2>2. \A t \in Sessions \ {s} : SameRow(t)
    BY <1>1, <1>3 DEF SameRow, IInv, TypesFit, SessionsTypeOK, Go
  <2>3. /\ worker'[s] = "done" /\ ~Live(s)' /\ s \notin waiting'
        /\ session'[s].kind = "sensor" /\ session'[s].state # "completed"
        /\ slot' \in {slot, None}
    BY <1>1, <1>3 DEF Go, Live, IInv, TypesFit, SessionsTypeOK, RowFits, StateFits, Early
  <2>4. RowFits(s)'
    BY <1>1, <2>3 DEF IInv, RowFits, HoldsSlot, StateFits, WaitFits, ReceiptFits, Live,
         Enrolling, Stale, Busy, Young, Early, Shooting
  <2>5. CameraFits'
    BY <1>1, <1>3 DEF IInv, TypesFit, SessionsTypeOK, CameraFits, CameraIsHeld, Go
  <2>6. QuiesceFits'
    BY <1>1, <2>2, <2>3 DEF IInv, QuiesceFits, Live, SameRow
  <2> QED
    BY <1>1, <1>3, <2>1, <2>2, <2>4, <2>5, <2>6, OneRow DEF SlotMoves
<1> QED
  BY <1>2, <1>3 DEF Spawn, Go

LEMMA BeginKeeps ==
  ASSUME IInv, NEW s \in Sessions, Begin(s), UNCHANGED faults
  PROVE  IInv'
<1>1. worker[s] = "begin" /\ worker[s] \in Early
  BY DEF Begin, At, Early
<1>2. CASE /\ session[s].state = "absent" /\ Go(s, "done")
           /\ UNCHANGED <<session, receipt, slot, camera, capture, waiting, cleanup, caller,
                          dispatched, phase>>
  <2>1. TypesFit'
    BY <1>1, <1>2 DEF IInv, TypesFit, SessionsTypeOK, CallerTypeOK, Steps, Go
  <2>2. worker'[s] = "done"
    BY <1>2 DEF Go, IInv, TypesFit, SessionsTypeOK
  <2>3. RowFits(s)'
    BY <1>1, <1>2, <2>2
    DEF IInv, RowFits, HoldsSlot, StateFits, WaitFits, ReceiptFits, Live,
         Enrolling, Stale, Busy, Young, Early, Shooting
  <2>4. CameraFits'
    BY <1>1, <1>2 DEF IInv, TypesFit, SessionsTypeOK, CameraFits, CameraIsHeld, Go
  <2> QED
    BY <1>1, <1>2, <2>1, <2>3, <2>4, MoveKeeps DEF Steps
<1>3. CASE /\ ~session[s].cancel /\ Live(s)
           /\ Enrolling(s) => receipt[s] = "accepted"
           /\ receipt' = IF Enrolling(s) THEN [receipt EXCEPT ![s] = "active"] ELSE receipt
           /\ Go(s, "open")
           /\ UNCHANGED <<session, slot, camera, capture, waiting, cleanup, caller,
                          dispatched, phase>>
  <2>1. TypesFit'
    BY <1>1, <1>3
    DEF IInv, TypesFit, SessionsTypeOK, CallerTypeOK, Steps, Go, Receipts, Pending
  <2>2. \A t \in Sessions \ {s} : SameRow(t)
    BY <1>3 DEF SameRow, IInv, TypesFit, SessionsTypeOK, Go
  <2>3. worker'[s] = "open" /\ (Enrolling(s) => receipt'[s] = "active")
    BY <1>3 DEF Go, IInv, TypesFit, SessionsTypeOK
  <2>4. RowFits(s)'
    BY <1>1, <1>3, <2>3
    DEF IInv, RowFits, HoldsSlot, StateFits, WaitFits, ReceiptFits, Live,
         Enrolling, Stale, Busy, Young, Early, Shooting, Final
  <2>5. CameraFits'
    BY <1>1, <1>3 DEF IInv, TypesFit, SessionsTypeOK, CameraFits, CameraIsHeld, Go
  <2>6. QuiesceFits'
    BY <1>3 DEF IInv, QuiesceFits, Live
  <2> QED
    BY <1>3, <2>1, <2>2, <2>4, <2>5, <2>6, OneRow DEF SlotMoves
<1> QED
  BY <1>1, <1>2, <1>3, LeaveKeeps, EndKeeps DEF Begin

(* The thread goes on from one place before the camera to the next. *)
LEMMA ShootingMoves ==
  ASSUME IInv, NEW s \in Sessions, worker[s] \in Shooting, NEW step \in Shooting, Go(s, step),
         UNCHANGED <<session, receipt, slot, waiting, cleanup, caller, dispatched, phase, faults>>,
         capture' = capture \/ (slot = s /\ capture' = [owner |-> s, runs |-> TRUE]),
         \/ camera' = camera /\ (camera = s => step \notin {"open", "opening"})
         \/ camera' = s /\ step = "start",
         phase = "running" => slot = s
  PROVE  IInv'
<1>0. step \in Steps
  BY DEF Shooting, Steps
<1>1. TypesFit'
  <2>1. worker' \in [Sessions -> Steps]
    BY <1>0 DEF IInv, TypesFit, SessionsTypeOK, Go
  <2>2. camera' \in Sessions \cup {None}
    BY DEF IInv, TypesFit, SessionsTypeOK
  <2>3. capture' \in [owner : Sessions, runs : BOOLEAN] \cup {None}
    <3>1. [owner |-> s, runs |-> TRUE] \in [owner : Sessions, runs : BOOLEAN]
      OBVIOUS
    <3> QED
      BY <3>1 DEF IInv, TypesFit, SessionsTypeOK
  <2> QED
    BY <2>1, <2>2, <2>3 DEF IInv, TypesFit, SessionsTypeOK, CallerTypeOK
<1>2. worker'[s] = step
  BY DEF Go, IInv, TypesFit, SessionsTypeOK
<1>3. RowFits(s)'
  BY <1>2 DEF IInv, RowFits, HoldsSlot, StateFits, WaitFits, ReceiptFits, Live, Enrolling,
       Stale, Busy, Young, Early, Shooting
<1>4. CameraFits'
  BY <1>2
  DEF IInv, TypesFit, SessionsTypeOK, RowFits, HoldsSlot, CameraFits, CameraIsHeld, Go, Shooting
<1> QED
  BY <1>1, <1>3, <1>4, <1>0, MoveKeeps

LEMMA OpenKeeps ==
  ASSUME IInv, NEW s \in Sessions, Open(s), UNCHANGED faults
  PROVE  IInv'
<1>1. worker[s] = "open" /\ worker[s] \in Early /\ worker[s] \in Shooting
  BY DEF Open, At, Early, Shooting
<1>2. phase = "running" => slot = s
  BY <1>1 DEF IInv, RowFits, HoldsSlot
<1>3. camera # s
  BY <1>1 DEF IInv, CameraFits
<1>4. ASSUME NEW step \in {"opening", "start"}, Go(s, step),
             UNCHANGED <<session, receipt, slot, camera, capture, waiting, cleanup, caller,
                         dispatched, phase>>
      PROVE  IInv'
  BY <1>1, <1>2, <1>3, <1>4, ShootingMoves DEF Shooting
<1> QED
  BY <1>1, <1>4, LeaveKeeps DEF Open

LEMMA OpeningKeeps ==
  ASSUME IInv, NEW s \in Sessions, Opening(s), UNCHANGED faults
  PROVE  IInv'
<1>1. worker[s] = "opening" /\ worker[s] \in Early /\ worker[s] \in Shooting
  BY DEF Opening, At, Early, Shooting
<1>2. phase = "running" => slot = s
  BY <1>1 DEF IInv, RowFits, HoldsSlot
<1>3. CASE /\ camera' = s /\ Go(s, "start")
           /\ UNCHANGED <<session, receipt, slot, capture, waiting, cleanup, caller,
                          dispatched, phase>>
  BY <1>1, <1>2, <1>3, ShootingMoves DEF Shooting
<1> QED
  BY <1>1, <1>3, LeaveKeeps, EndKeeps DEF Opening

LEMMA StartCaptureKeeps ==
  ASSUME IInv, NEW s \in Sessions, StartCapture(s), UNCHANGED faults
  PROVE  IInv'
<1>1. worker[s] = "start" /\ worker[s] \in Early /\ worker[s] \in Shooting
  BY DEF StartCapture, At, Early, Shooting
<1>2. CASE /\ slot = s /\ capture' = [owner |-> s, runs |-> TRUE] /\ Go(s, "loop")
           /\ UNCHANGED <<session, receipt, slot, camera, waiting, cleanup, caller,
                          dispatched, phase>>
  BY <1>1, <1>2, ShootingMoves DEF Shooting
<1> QED
  BY <1>1, <1>2, LeaveKeeps, EndKeeps DEF StartCapture

(* What a thread may end its session with. *)
LEMMA EndsFit ==
  ASSUME NEW s \in Sessions
  PROVE  \A r \in Ends(s) : r \in {"denied", "error", "timeout"} /\ (r = "denied" => ~Enrolling(s))
BY DEF Ends

LEMMA LookKeeps ==
  ASSUME IInv, NEW s \in Sessions, Look(s), UNCHANGED faults
  PROVE  IInv'
<1>1. worker[s] = "loop" /\ worker[s] \in Early /\ worker[s] \in Shooting
  BY DEF Look, At, Early, Shooting
<1>2. phase = "running" => slot = s
  BY <1>1 DEF IInv, RowFits, HoldsSlot
<1>3. CASE /\ Go(s, "grant")
           /\ UNCHANGED <<session, receipt, slot, camera, capture, waiting, cleanup, caller,
                          dispatched, phase>>
  BY <1>1, <1>2, <1>3, ShootingMoves DEF Shooting
<1> QED
  BY <1>1, <1>3, EndsFit, LeaveKeeps, EndKeeps DEF Look

LEMMA GrantKeeps ==
  ASSUME IInv, NEW s \in Sessions, Grant(s), UNCHANGED faults
  PROVE  IInv'
<1>1. worker[s] = "grant" /\ worker[s] \in Early
  BY DEF Grant, At, Early, Shooting
<1>2. CASE /\ Capturing(s)
           /\ IF Enrolling(s)
              THEN IF receipt[s] = "active"
                   THEN /\ receipt' = [receipt EXCEPT ![s] = "completed"]
                        /\ SetState(s, "completed")
                   ELSE /\ SetState(s, receipt[s])
                        /\ UNCHANGED receipt
              ELSE SetState(s, "granted") /\ UNCHANGED receipt
           /\ waiting' = waiting \ {s}
           /\ capture' = Stopped(capture)
           /\ Go(s, "close")
           /\ UNCHANGED <<slot, camera, cleanup, caller, dispatched, phase>>
  <2>1. Live(s) /\ (Enrolling(s) => receipt[s] = "active")
    BY <1>1, <1>2 DEF Capturing, IInv, RowFits, ReceiptFits, Shooting
  <2>2. /\ session' = [session EXCEPT ![s].state = IF Enrolling(s) THEN "completed" ELSE "granted"]
        /\ receipt' = IF Enrolling(s) THEN [receipt EXCEPT ![s] = "completed"] ELSE receipt
    BY <1>2, <2>1 DEF SetState
  <2>3. TypesFit'
    <3>1. session' \in [Sessions -> Records] /\ receipt' \in [Sessions -> Receipts]
      BY <2>2 DEF IInv, TypesFit, SessionsTypeOK, Records, Receipts, States, Final
    <3>2. worker' \in [Sessions -> Steps] /\ capture' \in {capture, Stopped(capture)}
      BY <1>2 DEF IInv, TypesFit, SessionsTypeOK, Steps, Go
    <3> QED
      BY <1>2, <3>1, <3>2, StandingTypes, TypesKept
  <2>4. \A t \in Sessions \ {s} : SameRow(t)
    BY <1>2, <2>2 DEF SameRow, IInv, TypesFit, SessionsTypeOK, Go
  <2>5. /\ worker'[s] = "close" /\ s \notin waiting'
        /\ session'[s].kind = session[s].kind
        /\ session'[s].state = IF Enrolling(s) THEN "completed" ELSE "granted"
        /\ Enrolling(s) => receipt'[s] = "completed"
        /\ session'[s].cancel = session[s].cancel /\ session'[s].ignition = session[s].ignition
    BY <1>2, <2>2 DEF Go, IInv, TypesFit, SessionsTypeOK
  <2>6. RowFits(s)'
    BY <1>1, <1>2, <2>1, <2>5
    DEF IInv, RowFits, HoldsSlot, StateFits, WaitFits, ReceiptFits,
         Live, Enrolling, Stale, Busy, Young, Early, Shooting, Final
  <2>7. CameraFits'
    BY <1>1, <1>2
    DEF IInv, TypesFit, SessionsTypeOK, CameraFits, CameraIsHeld, Go, Stopped
  <2>8. QuiesceFits'
    BY <1>2, <2>1 DEF IInv, QuiesceFits
  <2> QED
    BY <1>2, <2>3, <2>4, <2>6, <2>7, <2>8, OneRow DEF SlotMoves
<1> QED
  BY <1>1, <1>2, EndsFit, LeaveKeeps, EndKeeps DEF Grant

(* The slot is given back, and a session nobody ended is cancelled. *)
LEMMA ReleaseEffect ==
  ASSUME IInv, NEW s \in Sessions, Release(s)
  PROVE  /\ session' \in [Sessions -> Records] /\ SlotMoves(s) /\ slot' # s
         /\ \A t \in Sessions \ {s} : session'[t] = session[t]
         /\ IF Live(s) THEN session'[s] = [session[s] EXCEPT !.state = "cancelled"]
                       ELSE session'[s] = session[s]
BY DEF Release, SlotMoves, IInv, TypesFit, SessionsTypeOK, Records, States, Final

(* A row after the release of its slot, the thread at its end. *)
LEMMA ReleasedRow ==
  ASSUME IInv, NEW s \in Sessions, worker[s] \in {"close", "done"}, Release(s),
         worker'[s] = "done", UNCHANGED <<receipt, waiting, phase, faults>>
  PROVE  RowFits(s)'
<1>1. /\ slot' # s
      /\ IF Live(s) THEN session'[s] = [session[s] EXCEPT !.state = "cancelled"]
                    ELSE session'[s] = session[s]
  BY ReleaseEffect
<1>2. session[s] \in Records
  BY DEF IInv, TypesFit, SessionsTypeOK, Records
<1>3. /\ session'[s].state = IF Live(s) THEN "cancelled" ELSE session[s].state
      /\ session'[s].kind = session[s].kind /\ session'[s].revoked = session[s].revoked
      /\ session'[s].ignition = session[s].ignition
  BY <1>1, <1>2 DEF Records
<1>4. Live(s) => ~Enrolling(s)
  BY DEF IInv, RowFits, ReceiptFits, Early, Shooting
<1> QED
  BY <1>1, <1>3, <1>4
  DEF IInv, RowFits, HoldsSlot, StateFits, WaitFits, ReceiptFits, Live,
       Enrolling, Stale, Busy, Young, Early, Shooting, Final

LEMMA ReleaseKeeps ==
  ASSUME IInv, NEW s \in Sessions, worker[s] \in {"close", "done"}, Release(s),
         worker' = [worker EXCEPT ![s] = "done"],
         IF Foreign(s) THEN UNCHANGED <<capture, camera>> ELSE CloseCamera,
         cleanup' \in {cleanup, None},
         UNCHANGED <<receipt, waiting, caller, dispatched, phase, faults>>
  PROVE  IInv'
<1>1. /\ session' \in [Sessions -> Records] /\ SlotMoves(s) /\ slot' # s
      /\ \A t \in Sessions \ {s} : session'[t] = session[t]
      /\ Live(s)' => Live(s)
  <2>1. session[s] \in Records
    BY DEF IInv, TypesFit, SessionsTypeOK, Records
  <2> QED
    BY <2>1, ReleaseEffect DEF Live, Records
<1>2. /\ worker' \in [Sessions -> Steps] /\ worker'[s] = "done"
      /\ \A t \in Sessions \ {s} : worker'[t] = worker[t]
  BY DEF IInv, TypesFit, SessionsTypeOK, Steps
<1>3. TypesFit'
  BY <1>1, <1>2
  DEF IInv, TypesFit, SessionsTypeOK, CallerTypeOK, Records, SlotMoves, CloseCamera
<1>4. \A t \in Sessions \ {s} : SameRow(t)
  BY <1>1, <1>2 DEF SameRow
<1>5. RowFits(s)'
  BY <1>2, ReleasedRow
<1>6. CameraFits'
  <2>1. camera' = None \/ (camera' = camera /\ camera # s /\ capture' = capture)
    BY DEF Foreign, CloseCamera
  <2>2. camera \in Sessions => worker'[camera] = worker[camera] \/ camera = s
    BY <1>2
  <2>3. slot' = slot \/ (slot = s /\ slot' = None) \/ (slot = None /\ slot' = s)
    BY <1>1 DEF SlotMoves
  <2>4. capture = None => capture' = None
    BY DEF CloseCamera
  <2>5. cleanup' # None => worker'[cleanup'] = "done"
    BY <1>2 DEF IInv, CameraFits, TypesFit, SessionsTypeOK
  <2> QED
    BY <1>1, <2>1, <2>2, <2>3, <2>4, <2>5
    DEF IInv, TypesFit, SessionsTypeOK, CameraFits, CameraIsHeld
<1>7. QuiesceFits'
  BY <1>1 DEF IInv, QuiesceFits, Live
<1> QED
  BY <1>1, <1>3, <1>4, <1>5, <1>6, <1>7, OneRow

LEMMA CloseKeeps ==
  ASSUME IInv, NEW s \in Sessions, Close(s), UNCHANGED faults
  PROVE  IInv'
<1>1. /\ worker[s] = "close"
      /\ UNCHANGED <<receipt, waiting, cleanup, caller, dispatched, phase, faults>>
  BY DEF Close, At
<1>2. CASE /\ Release(s) /\ Go(s, "done")
           /\ IF Foreign(s) THEN UNCHANGED <<capture, camera>> ELSE CloseCamera
  BY <1>1, <1>2, ReleaseKeeps DEF Go
<1>3. CASE /\ Go(s, "defer") /\ UNCHANGED <<session, slot, camera>>
           /\ capture' = Stopped(capture) \/ capture' = None
  <2>1. TypesFit'
    <3>1. worker' \in [Sessions -> Steps]
      BY <1>3 DEF Go, IInv, TypesFit, SessionsTypeOK, Steps
    <3>2. session' \in [Sessions -> Records] /\ receipt' \in [Sessions -> Receipts]
      BY <1>1, <1>3 DEF IInv, TypesFit, SessionsTypeOK, Records
    <3> QED
      BY <1>1, <1>3, <3>1, <3>2, StandingTypes, TypesKept
  <2>2. worker'[s] = "defer"
    BY <1>3 DEF Go, IInv, TypesFit, SessionsTypeOK
  <2>3. RowFits(s)'
    BY <1>1, <1>3, <2>2
    DEF IInv, RowFits, HoldsSlot, StateFits, WaitFits, ReceiptFits, Live,
         Enrolling, Stale, Busy, Young, Early, Shooting
  <2>4. CameraFits'
    BY <1>1, <1>3
    DEF IInv, TypesFit, SessionsTypeOK, CameraFits, CameraIsHeld, Go, Stopped
  <2> QED
    BY <1>1, <1>3, <2>1, <2>3, <2>4, MoveKeeps DEF Steps
<1> QED
  BY <1>2, <1>3 DEF Close

LEMMA DeferKeeps ==
  ASSUME IInv, NEW s \in Sessions, Defer(s), UNCHANGED faults
  PROVE  IInv'
<1>1. /\ worker[s] = "defer" /\ Go(s, "done") /\ cleanup' \in {cleanup, s}
      /\ UNCHANGED <<session, receipt, slot, camera, capture, waiting, caller, dispatched, phase>>
  BY DEF Defer, At
<1>2. worker'[s] = "done" /\ \A t \in Sessions \ {s} : worker'[t] = worker[t]
  BY <1>1 DEF Go, IInv, TypesFit, SessionsTypeOK
<1>3. TypesFit'
  BY <1>1 DEF IInv, TypesFit, SessionsTypeOK, CallerTypeOK, Steps, Go
<1>4. RowFits(s)'
  BY <1>1, <1>2 DEF IInv, RowFits, HoldsSlot, StateFits, WaitFits, ReceiptFits, Live,
       Enrolling, Stale, Busy, Young, Early, Shooting
<1>5. CameraFits'
  BY <1>1, <1>2 DEF IInv, TypesFit, SessionsTypeOK, CameraFits, CameraIsHeld
<1> QED
  BY <1>1, <1>3, <1>4, <1>5, MoveKeeps DEF Steps

LEMMA CleanupKeeps ==
  ASSUME IInv, Cleanup, UNCHANGED faults
  PROVE  IInv'
<1>1. /\ cleanup \in Sessions /\ worker[cleanup] = "done" /\ cleanup' = None
      /\ UNCHANGED <<receipt, worker, waiting, caller, dispatched, phase, faults>>
  BY DEF Cleanup, IInv, TypesFit, SessionsTypeOK, CameraFits
<1>2. CASE /\ IF Foreign(cleanup) THEN UNCHANGED <<capture, camera>> ELSE CloseCamera
           /\ Release(cleanup)
  <2>1. worker' = [worker EXCEPT ![cleanup] = "done"]
    BY <1>1 DEF IInv, TypesFit, SessionsTypeOK
  <2> QED
    BY <1>1, <1>2, <2>1, ReleaseKeeps
<1>3. CASE capture' = None /\ UNCHANGED <<session, slot, camera>>
  <2>1. TypesFit'
    BY <1>1, <1>3 DEF IInv, TypesFit, SessionsTypeOK, CallerTypeOK
  <2>2. \A s \in Sessions : RowFits(s)'
    BY <1>1, <1>3 DEF IInv, RowFits, HoldsSlot, StateFits, WaitFits, ReceiptFits, Live,
         Enrolling, Stale, Busy
  <2>3. CameraFits' /\ QuiesceFits'
    BY <1>1, <1>3 DEF IInv, CameraFits, CameraIsHeld, QuiesceFits, Live
  <2> QED
    BY <2>1, <2>2, <2>3 DEF IInv
<1> QED
  BY <1>2, <1>3 DEF Cleanup

-----------------------------------------------------------------------------
(* Cancellations *)

(* A live session that is cancelled ends as cancelled, in its receipt too. *)
LEMMA CancelEffect ==
  ASSUME IInv, NEW s \in Sessions, Cancel(s)
  PROVE  /\ Live(s) /\ session' = [session EXCEPT ![s] = CancelledScan(s)]
         /\ receipt' = IF Enrolling(s) THEN [receipt EXCEPT ![s] = "cancelled"] ELSE receipt
         /\ capture' \in {capture, Stopped(capture)} /\ waiting' = waiting \ {s}
<1>1. Enrolling(s) => Finalized(s, "cancelled") = "cancelled"
  BY DEF Cancel, IInv, RowFits, ReceiptFits, Finalized, Pending
<1> QED
  BY <1>1 DEF Cancel, CancelledEnrollment, CancelledScan

LEMMA CancelKeepsRows ==
  ASSUME IInv, NEW s \in Sessions, Cancel(s),
         UNCHANGED <<slot, worker, camera, cleanup, dispatched, phase, faults>>, CallerTypeOK'
  PROVE  TypesFit' /\ (\A t \in Sessions : RowFits(t)' /\ (t # s => Live(t)' = Live(t)))
         /\ ~Live(s)' /\ CameraFits'
<1>1. /\ Live(s) /\ session' = [session EXCEPT ![s] = CancelledScan(s)]
      /\ receipt' = IF Enrolling(s) THEN [receipt EXCEPT ![s] = "cancelled"] ELSE receipt
      /\ capture' \in {capture, Stopped(capture)} /\ waiting' = waiting \ {s}
  BY CancelEffect
<1>2. session[s] \in Records
  BY DEF IInv, TypesFit, SessionsTypeOK, Records
<1>3. /\ CancelledScan(s) \in Records /\ CancelledScan(s).kind = session[s].kind
      /\ CancelledScan(s).state = "cancelled" /\ CancelledScan(s).cancel
      /\ CancelledScan(s).revoked = session[s].revoked
      /\ CancelledScan(s).ignition = session[s].ignition
  BY <1>2 DEF CancelledScan, Records, States, Final
<1>4. session' \in [Sessions -> Records] /\ receipt' \in [Sessions -> Receipts]
  BY <1>1, <1>3 DEF IInv, TypesFit, SessionsTypeOK, Records, Receipts
<1>5. TypesFit'
  <2>1. capture' \in [owner : Sessions, runs : BOOLEAN] \cup {None}
    BY <1>1, StoppedFits DEF IInv, TypesFit, SessionsTypeOK
  <2> QED
    BY <1>1, <1>4, <2>1 DEF IInv, TypesFit, SessionsTypeOK, CallerTypeOK, Records
<1>6. /\ session'[s] = CancelledScan(s) /\ (Enrolling(s) => receipt'[s] = "cancelled")
      /\ \A t \in Sessions \ {s} : SameRow(t)
  BY <1>1 DEF SameRow, IInv, TypesFit, SessionsTypeOK
<1>7. RowFits(s)'
  BY <1>1, <1>3, <1>6
  DEF IInv, RowFits, HoldsSlot, StateFits, WaitFits, ReceiptFits, Live,
       Enrolling, Stale, Busy, Young, Early, Shooting, Final
<1>8. \A t \in Sessions : RowFits(t)'
  BY <1>6, <1>7, OthersKept DEF SlotMoves
<1>9. CameraFits'
  BY <1>1 DEF IInv, CameraFits, CameraIsHeld, Stopped
<1> QED
  BY <1>3, <1>5, <1>6, <1>8, <1>9 DEF SameRow, Live

LEMMA CancelRequestKeeps ==
  ASSUME IInv, NEW s \in Sessions, CancelRequest(s), UNCHANGED faults
  PROVE  IInv'
<1>1. /\ Cancel(s)
      /\ UNCHANGED <<slot, worker, camera, cleanup, caller, dispatched, phase, faults>>
  BY DEF CancelRequest
<1>2. CallerTypeOK'
  BY <1>1 DEF IInv, TypesFit, CallerTypeOK
<1>3. TypesFit' /\ (\A t \in Sessions : RowFits(t)' /\ (t # s => Live(t)' = Live(t)))
         /\ ~Live(s)' /\ CameraFits'
  BY <1>1, <1>2, CancelKeepsRows
<1>4. QuiesceFits'
  BY <1>1, <1>3 DEF IInv, QuiesceFits
<1> QED
  BY <1>3, <1>4 DEF IInv

LEMMA SensorCancelKeeps ==
  ASSUME IInv, NEW s \in Sessions, SensorCancel(s), UNCHANGED faults
  PROVE  IInv'
<1>1. /\ session[s].kind = "sensor" /\ session' = [session EXCEPT ![s].cancel = TRUE]
      /\ waiting' = waiting \ {s}
      /\ UNCHANGED <<receipt, slot, worker, camera, capture, cleanup, caller, dispatched,
                     phase, faults>>
  BY DEF SensorCancel
<1>2. TypesFit'
  <2>1. session \in [Sessions -> Records]
    BY DEF IInv, TypesFit, SessionsTypeOK, Records
  <2>2. [session[s] EXCEPT !.cancel = TRUE] \in Records
    BY <2>1 DEF Records
  <2>3. session' = [session EXCEPT ![s] = [session[s] EXCEPT !.cancel = TRUE]]
    BY <1>1
  <2>4. session' \in [Sessions -> Records]
    BY <2>1, <2>2, <2>3
  <2> QED
    BY <1>1, <2>4 DEF IInv, TypesFit, SessionsTypeOK, CallerTypeOK, Records
<1>3. /\ session'[s].kind = "sensor" /\ session'[s].state = session[s].state
      /\ session'[s].cancel /\ \A t \in Sessions \ {s} : SameRow(t)
  BY <1>1 DEF SameRow, IInv, TypesFit, SessionsTypeOK
<1>4. RowFits(s)'
  BY <1>1, <1>3 DEF IInv, RowFits, HoldsSlot, StateFits, WaitFits, ReceiptFits, Live,
       Enrolling, Stale, Busy, Young, Early, Shooting, Final
<1>5. CameraFits' /\ QuiesceFits'
  BY <1>1, <1>3 DEF IInv, CameraFits, CameraIsHeld, QuiesceFits, Live, SameRow
<1> QED
  BY <1>1, <1>2, <1>3, <1>4, <1>5, OneRow DEF SlotMoves

LEMMA RevokeKeeps ==
  ASSUME IInv, Revoke, UNCHANGED faults
  PROVE  IInv'
<1>1. /\ capture' = Stopped(capture)
      /\ UNCHANGED <<receipt, slot, worker, camera, waiting, cleanup, caller, dispatched,
                     phase, faults>>
  BY DEF Revoke
<1>2. CASE session' = session
  <2>1. TypesFit'
    <3>1. /\ session' \in [Sessions -> Records] /\ receipt' \in [Sessions -> Receipts]
          /\ worker' \in [Sessions -> Steps]
      BY <1>1, <1>2 DEF IInv, TypesFit, SessionsTypeOK, Records
    <3> QED
      BY <1>1, <3>1, StandingTypes, TypesKept
  <2>2. \A s \in Sessions : RowFits(s)'
    BY <1>1, <1>2 DEF IInv, RowFits, HoldsSlot, StateFits, WaitFits, ReceiptFits, Live,
         Enrolling, Stale, Busy
  <2>3. CameraFits' /\ QuiesceFits'
    BY <1>1, <1>2 DEF IInv, CameraFits, CameraIsHeld, QuiesceFits, Live, Stopped
  <2> QED
    BY <2>1, <2>2, <2>3 DEF IInv
<1>3. ASSUME NEW s \in Sessions, s = slot, Live(s), session[s].ignition,
             session' = [session EXCEPT ![s] = [CancelledScan(s) EXCEPT !.revoked = TRUE]]
      PROVE  IInv'
  <2> DEFINE row == [CancelledScan(s) EXCEPT !.revoked = TRUE]
  <2>1. session[s] \in Records
    BY DEF IInv, TypesFit, SessionsTypeOK, Records
  <2>2. /\ row \in Records /\ row.kind = session[s].kind /\ row.state = "cancelled"
        /\ row.cancel /\ row.revoked /\ row.ignition
    BY <1>3, <2>1 DEF CancelledScan, Records, States, Final
  <2>3. ~Enrolling(s)
    BY <1>3 DEF IInv, RowFits, StateFits
  <2>4. TypesFit'
    <3>1. session' \in [Sessions -> Records]
      BY <1>3, <2>2 DEF IInv, TypesFit, SessionsTypeOK, Records
    <3>2. capture' \in [owner : Sessions, runs : BOOLEAN] \cup {None}
      BY <1>1, StoppedFits DEF IInv, TypesFit
    <3> QED
      BY <1>1, <3>1, <3>2 DEF IInv, TypesFit, SessionsTypeOK, CallerTypeOK, Records
  <2>5. session'[s] = row /\ \A t \in Sessions \ {s} : SameRow(t)
    BY <1>1, <1>3 DEF SameRow, IInv, TypesFit, SessionsTypeOK
  <2>6. RowFits(s)'
    BY <1>1, <1>3, <2>2, <2>3, <2>5 DEF IInv, RowFits, HoldsSlot, StateFits, WaitFits,
         ReceiptFits, Live, Enrolling, Stale, Busy, Young, Early, Shooting
  <2>7. CameraFits'
    BY <1>1 DEF IInv, CameraFits, CameraIsHeld, Stopped
  <2>8. QuiesceFits'
    BY <1>1, <2>2, <2>5 DEF IInv, QuiesceFits, Live, SameRow
  <2> QED
    BY <1>1, <2>4, <2>5, <2>6, <2>7, <2>8, OneRow DEF SlotMoves
<1> QED
  BY <1>2, <1>3 DEF Revoke, IInv, TypesFit, SessionsTypeOK

-----------------------------------------------------------------------------
(* Callers *)

(* Steps that leave every session, its receipt and its thread alone. *)
LEMMA RowsStay ==
  ASSUME IInv, UNCHANGED <<session, receipt, slot, worker, waiting, phase, faults>>
  PROVE  \A s \in Sessions : RowFits(s)'
BY
DEF IInv, RowFits, HoldsSlot, StateFits, WaitFits, ReceiptFits, Live, Enrolling, Stale, Busy

LEMMA CallerTypes ==
  ASSUME CallerTypeOK,
         NEW at \in {"none", "cancel", "dispatch", "capture", "camera", "join"}, CallerMoves(at)
  PROVE  /\ CallerTypeOK'
         /\ caller'.at = at /\ caller'.op = IF at = "none" THEN "none" ELSE caller.op
BY DEF CallerTypeOK, CallerMoves, NoCaller

LEMMA CallKeeps ==
  ASSUME IInv, NEW op \in Callers, Call(op), UNCHANGED faults
  PROVE  IInv'
<1>1. /\ op \in AllCallers /\ caller' = [op |-> op, at |-> "cancel"] /\ dispatched' = FALSE
      /\ UNCHANGED <<session, receipt, slot, worker, camera, capture, waiting, cleanup, faults>>
  BY DEF Call
<1>2. CASE op \in {"force", "sync"} /\ phase' = phase
  <2>1. TypesFit'
    BY <1>1, <1>2 DEF IInv, TypesFit, SessionsTypeOK, CallerTypeOK
  <2>2. CameraFits' /\ QuiesceFits'
    BY <1>1, <1>2 DEF IInv, CameraFits, CameraIsHeld, QuiesceFits
  <2> QED
    BY <1>1, <1>2, <2>1, <2>2, RowsStay DEF IInv
<1>3. CASE (op = "quiesce" /\ phase' = "paused") \/ (op = "close" /\ phase' = "closed")
  <2>1. TypesFit'
    BY <1>1, <1>3 DEF IInv, TypesFit, SessionsTypeOK, CallerTypeOK
  <2>2. CameraFits' /\ QuiesceFits'
    BY <1>1, <1>3 DEF IInv, CameraFits, CameraIsHeld, QuiesceFits
  <2>3. \A s \in Sessions : RowFits(s)'
    BY <1>1, <1>3 DEF IInv, RowFits, HoldsSlot, StateFits, WaitFits, ReceiptFits, Live,
         Enrolling, Stale, Busy
  <2> QED
    BY <2>1, <2>2, <2>3 DEF IInv
<1>4. /\ op \in {"force", "sync"} => phase' = phase
      /\ op = "quiesce" => phase' = "paused"
      /\ op = "close" => phase' = "closed"
  BY DEF Call
<1> QED
  BY <1>1, <1>2, <1>3, <1>4 DEF AllCallers

LEMMA CallerCancelsKeeps ==
  ASSUME IInv, CallerCancels, UNCHANGED faults
  PROVE  IInv'
<1>1. /\ caller.at = "cancel" /\ CallerTypeOK
      /\ UNCHANGED <<slot, worker, camera, cleanup, dispatched, phase, faults>>
  BY DEF CallerCancels, IInv, TypesFit
<1>2. CASE /\ capture' = Stopped(capture) /\ CallerMoves("dispatch")
           /\ \A s \in Sessions : ~Live(s)
           /\ UNCHANGED <<session, receipt, waiting>>
  <2>1. CallerTypeOK' /\ caller'.at = "dispatch" /\ caller'.op = caller.op
    BY <1>1, <1>2, CallerTypes
  <2>2. TypesFit'
    BY <1>1, <1>2, <2>1, StoppedFits DEF IInv, TypesFit, SessionsTypeOK, CallerTypeOK
  <2>3. CameraFits' /\ QuiesceFits'
    BY <1>1, <1>2, <2>1 DEF IInv, CameraFits, CameraIsHeld, QuiesceFits, Stopped, Live
  <2> QED
    BY <1>1, <1>2, <2>2, <2>3, RowsStay DEF IInv
<1>3. ASSUME NEW s \in Sessions, Cancel(s), CallerMoves("dispatch")
      PROVE  IInv'
  <2>1. CallerTypeOK' /\ caller'.at = "dispatch" /\ caller'.op = caller.op
    BY <1>1, <1>3, CallerTypes
  <2>2. TypesFit' /\ (\A t \in Sessions : RowFits(t)' /\ (t # s => Live(t)' = Live(t)))
         /\ ~Live(s)' /\ CameraFits'
    BY <1>1, <1>3, <2>1, CancelKeepsRows
  <2>3. \A t \in Sessions : ~Live(t)'
    BY <1>3, <2>2 DEF Cancel, IInv, RowFits, HoldsSlot
  <2>4. QuiesceFits'
    BY <1>1, <2>1, <2>3 DEF IInv, QuiesceFits
  <2> QED
    BY <2>2, <2>4 DEF IInv
<1>4. CASE CallerMoves("none") /\ UNCHANGED <<session, receipt, capture, waiting>>
  <2>1. CallerTypeOK' /\ caller'.at = "none" /\ caller'.op = "none"
    BY <1>1, <1>4, CallerTypes
  <2>2. TypesFit'
    BY <1>1, <1>4, <2>1 DEF IInv, TypesFit, SessionsTypeOK, CallerTypeOK
  <2>3. CameraFits' /\ QuiesceFits'
    BY <1>1, <1>4, <2>1 DEF IInv, CameraFits, CameraIsHeld, QuiesceFits
  <2> QED
    BY <1>1, <1>4, <2>2, <2>3, RowsStay DEF IInv
<1> QED
  BY <1>2, <1>3, <1>4 DEF CallerCancels

(* A caller that goes on after its cancellations. *)
LEMMA CallerGoesOn ==
  ASSUME IInv, caller.at \notin {"none", "cancel"},
         NEW at \in {"none", "dispatch", "capture", "camera", "join"}, CallerMoves(at),
         at = "join" => caller.op = "quiesce",
         UNCHANGED <<session, receipt, slot, worker, waiting, cleanup, phase, faults>>,
         dispatched' \in BOOLEAN, camera' \in {camera, None},
         capture' \in {capture, Stopped(capture), None}
  PROVE  IInv'
<1>1. /\ CallerTypeOK' /\ caller'.at = at
      /\ caller'.op = IF at = "none" THEN "none" ELSE caller.op
  BY CallerTypes DEF IInv, TypesFit
<1>2. TypesFit'
  BY <1>1, StoppedFits DEF IInv, TypesFit, SessionsTypeOK, CallerTypeOK
<1>3. CameraFits' /\ QuiesceFits'
  BY <1>1 DEF IInv, CameraFits, CameraIsHeld, QuiesceFits, Stopped, Live
<1> QED
  BY <1>2, <1>3, RowsStay DEF IInv

LEMMA CallerWorksKeeps ==
  ASSUME IInv, CallerDispatches \/ CallerStopsCapture \/ CallerClosesCamera, UNCHANGED faults
  PROVE  IInv'
<1>1. CASE CallerDispatches
  <2>1. \E at \in {"none", "capture"} : CallerMoves(at)
    BY <1>1 DEF CallerDispatches
  <2> QED
    BY <1>1, <2>1, CallerGoesOn DEF CallerDispatches, IInv, TypesFit, SessionsTypeOK
<1>2. CASE CallerStopsCapture
  <2>1. \E at \in {"none", "camera", "join"} :
          CallerMoves(at) /\ (at = "join" => caller.op = "quiesce")
    BY <1>2 DEF CallerStopsCapture
  <2> QED
    BY <1>2, <2>1, CallerGoesOn DEF CallerStopsCapture, IInv, TypesFit, SessionsTypeOK
<1>3. CASE CallerClosesCamera
  <2>1. \E at \in {"none", "join"} :
          CallerMoves(at) /\ (at = "join" => caller.op = "quiesce")
    BY <1>3 DEF CallerClosesCamera
  <2> QED
    BY <1>3, <2>1, CallerGoesOn DEF CallerClosesCamera, IInv, TypesFit, SessionsTypeOK
<1> QED
  BY <1>1, <1>2, <1>3

LEMMA QuiesceJoinsKeeps ==
  ASSUME IInv, QuiesceJoins, UNCHANGED faults
  PROVE  IInv'
<1>1. /\ phase = "paused" /\ CallerTypeOK /\ slot' = None /\ CallerMoves("none")
      /\ \A s \in Sessions : ~Live(s)
      /\ UNCHANGED <<session, receipt, worker, camera, capture, waiting, cleanup, dispatched,
                     faults>>
  BY DEF QuiesceJoins, IInv, TypesFit, QuiesceFits
<1>2. \/ phase' = "paused"
      \/ /\ phase' = "drained" /\ camera = None /\ capture = None
         /\ \A s \in Sessions : ~Busy(s)
  BY DEF QuiesceJoins
<1>3. CallerTypeOK' /\ caller'.at = "none" /\ caller'.op = "none"
  BY <1>1, CallerTypes
<1>4. TypesFit'
  BY <1>1, <1>2, <1>3 DEF IInv, TypesFit, SessionsTypeOK, CallerTypeOK
<1>5. \A s \in Sessions : RowFits(s)'
  BY <1>1, <1>2 DEF IInv, RowFits, HoldsSlot, StateFits, WaitFits, ReceiptFits, Live,
       Enrolling, Stale, Busy, Shooting
<1>6. CameraFits' /\ QuiesceFits'
  BY <1>1, <1>2, <1>3 DEF IInv, CameraFits, CameraIsHeld, QuiesceFits
<1> QED
  BY <1>4, <1>5, <1>6 DEF IInv

LEMMA ResumeKeeps ==
  ASSUME IInv, Resume, UNCHANGED faults
  PROVE  IInv'
<1>1. /\ phase = "drained" /\ phase' = "running" /\ slot' = None /\ cleanup' = None
      /\ caller = NoCaller /\ camera = None /\ capture = None
      /\ UNCHANGED <<receipt, worker, camera, capture, waiting, caller, dispatched, faults>>
  BY DEF Resume, IInv, CameraFits
<1>2. ASSUME NEW s \in Sessions
      PROVE  /\ session'[s] \in Records /\ session'[s].state = "absent" /\ session'[s].cancel
             /\ session'[s].kind = session[s].kind
             /\ session'[s].revoked = session[s].revoked
             /\ session'[s].ignition = session[s].ignition
  <2>1. session[s] \in Records
    BY DEF IInv, TypesFit, SessionsTypeOK, Records
  <2>2. session'[s] = [session[s] EXCEPT !.state = "absent", !.cancel = TRUE]
    BY DEF Resume
  <2> QED
    BY <2>1, <2>2 DEF Records, States
<1>3. session' \in [Sessions -> Records]
  <2>1. session' = [s \in Sessions |-> session'[s]]
    BY DEF Resume
  <2> QED
    BY <1>2, <2>1
<1>4. TypesFit'
  BY <1>1, <1>3 DEF IInv, TypesFit, SessionsTypeOK, CallerTypeOK, Records
<1>5. ASSUME NEW s \in Sessions PROVE RowFits(s)'
  BY <1>1, <1>2 DEF IInv, RowFits, HoldsSlot, StateFits, WaitFits, ReceiptFits, Live,
       Enrolling, Stale, Busy, Early, Shooting, Final
<1>6. CameraFits' /\ QuiesceFits'
  BY <1>1 DEF IInv, CameraFits, CameraIsHeld, QuiesceFits, NoCaller
<1> QED
  BY <1>4, <1>5, <1>6 DEF IInv

-----------------------------------------------------------------------------
(* The theorems *)

LEMMA Initially == Init => IInv
<1> SUFFICES ASSUME Init PROVE IInv
  OBVIOUS
<1>1. \A s \in Sessions : session[s] = NoSession /\ receipt[s] = "none" /\ worker[s] = "none"
  BY DEF Init
<1>2. NoSession \in Records
  BY DEF NoSession, Records, AllKinds, States
<1>3. TypesFit
  BY <1>2
  DEF Init, TypesFit, SessionsTypeOK, CallerTypeOK, Records, Receipts, Steps, NoCaller
<1>4. ASSUME NEW s \in Sessions PROVE RowFits(s)
  <2>1. /\ session[s].kind = "scan" /\ session[s].state = "absent" /\ ~session[s].ignition
        /\ worker[s] = "none" /\ receipt[s] = "none"
    BY <1>1 DEF NoSession
  <2> QED
    BY <2>1
    DEF Init, RowFits, HoldsSlot, StateFits, WaitFits, ReceiptFits, Live, Enrolling,
         Busy, Early, Shooting, Final
<1>5. CameraFits /\ QuiesceFits
  BY DEF Init, CameraFits, CameraIsHeld, QuiesceFits, NoCaller
<1> QED
  BY <1>3, <1>4, <1>5 DEF IInv

LEMMA Inductive == IInv /\ [Next]_vars => IInv'
<1> SUFFICES ASSUME IInv, [Next]_vars PROVE IInv'
  OBVIOUS
<1>1. CASE UNCHANGED vars
  BY <1>1
  DEF vars, IInv, TypesFit, SessionsTypeOK, CallerTypeOK, RowFits, HoldsSlot, StateFits,
       WaitFits, ReceiptFits, Live, Enrolling, Stale, Busy, CameraFits, CameraIsHeld, QuiesceFits
<1>2. CASE Step /\ UNCHANGED faults
  <2>1. ASSUME NEW s \in Sessions, Work(s) PROVE IInv'
    BY <1>2, <2>1, SpawnKeeps, BeginKeeps, OpenKeeps, OpeningKeeps, StartCaptureKeeps,
       LookKeeps, GrantKeeps, CloseKeeps, DeferKeeps DEF Work
  <2>2. CASE CallerWorks
    BY <1>2, <2>2, CallerCancelsKeeps, CallerWorksKeeps, QuiesceJoinsKeeps DEF CallerWorks
  <2> QED
    BY <1>2, <2>1, <2>2, StartScanKeeps, ReserveKeeps, StartEnrollmentKeeps, RefuseKeeps,
       CancelRequestKeeps, SensorCancelKeeps, CleanupKeeps, RevokeKeeps, CallKeeps, ResumeKeeps
    DEF Step
<1> QED
  BY <1>1, <1>2 DEF Next

LEMMA Always == Spec => []IInv
BY Initially, Inductive, PTL DEF Spec

(* Outside maintenance an open camera belongs to the session in the slot,  *)
(* and drained maintenance is quiet.                                       *)
THEOREM CameraFollowsSlot == Spec => []SessionsInv
<1>1. IInv => SessionsInv
  BY DEF IInv, TypesFit, RowFits, HoldsSlot, SessionsInv, CameraFits, DrainedIsQuiet
<1> QED
  BY <1>1, Always, PTL

(* A sensor scan that is over has told its controller, but for that of a   *)
(* revoked account.                                                        *)
THEOREM ControllersAreTold == Spec => []NobodyLeftWaiting
<1>1. IInv => NobodyLeftWaiting
  BY
  DEF IInv, TypesFit, SessionsTypeOK, RowFits, WaitFits, NobodyLeftWaiting, Early, Shooting
<1> QED
  BY <1>1, Always, PTL

(* A session says completed only if its receipt does, and ends as its      *)
(* receipt does while receipts can be written.                             *)
THEOREM ReceiptsTellTheTruth == Spec => []ReceiptIsTrue
<1>1. IInv => ReceiptIsTrue
  BY
  DEF IInv, RowFits, ReceiptFits, ReceiptIsTrue, ReceiptFollowsSession, CompletedIsSaved
<1> QED
  BY <1>1, Always, PTL

(* What one session may become in a step. *)
Settled(s) ==
    /\ session[s].state \in Final => session'[s].state \in {session[s].state, "absent"}
    /\ session[s].cancel /\ session[s].state \notin {"granted", "completed"}
         => session'[s].state \notin {"granted", "completed"}

LEMMA EndSettles ==
  ASSUME IInv, NEW s \in Sessions, worker[s] \in Early,
         NEW r \in {"denied", "error", "timeout"}, r = "denied" => ~Enrolling(s), End(s, r)
  PROVE  \A t \in Sessions : Settled(t)
<1>1. FinishedRow(s) /\ \A t \in Sessions \ {s} : session'[t] = session[t]
  BY FinishEffect DEF End
<1> QED
  BY <1>1 DEF FinishedRow, Settled, Live, Final

LEMMA ReleaseSettles ==
  ASSUME IInv, NEW s \in Sessions, Release(s)
  PROVE  \A t \in Sessions : Settled(t)
<1>1. session[s] \in Records
  BY DEF IInv, TypesFit, SessionsTypeOK, Records
<1>2. /\ \A t \in Sessions \ {s} : session'[t] = session[t]
      /\ session'[s].state = IF Live(s) THEN "cancelled" ELSE session[s].state
  BY <1>1, ReleaseEffect DEF Records
<1> QED
  BY <1>2 DEF Settled, Live, Final

(* The worker's steps: it ends, grants or saves only what is live, and     *)
(* grants and saves only what is not cancelled.                            *)
LEMMA WorkSettles ==
  ASSUME IInv, NEW s \in Sessions, Work(s)
  PROVE  \A t \in Sessions : Settled(t)
<1>1. CASE session' = session
  BY <1>1 DEF Settled
<1>2. CASE Spawn(s)
  <2>1. session' \in {session, [session EXCEPT ![s].state = "error"]}
    BY <1>2 DEF Spawn
  <2>2. session' # session => Live(s)
    BY <1>2 DEF Spawn
  <2> QED
    BY <2>1, <2>2 DEF Settled, Live, Final, IInv, TypesFit, SessionsTypeOK
<1>3. ASSUME worker[s] \in Early, NEW r \in Ends(s), End(s, r)
      PROVE  \A t \in Sessions : Settled(t)
  BY <1>3, EndsFit, EndSettles
<1>4. ASSUME worker[s] \in Early, End(s, "error")
      PROVE  \A t \in Sessions : Settled(t)
  BY <1>4, EndSettles
<1>5. CASE Begin(s)
  BY <1>1, <1>4, <1>5, EndSettles DEF Begin, Leave, At, Early
<1>6. CASE Open(s) \/ Defer(s)
  BY <1>1, <1>6 DEF Open, Defer, Leave
<1>7. CASE Opening(s)
  BY <1>1, <1>4, <1>7 DEF Opening, Leave, At, Early, Shooting
<1>8. CASE StartCapture(s)
  BY <1>1, <1>4, <1>8 DEF StartCapture, Leave, At, Early, Shooting
<1>9. CASE Look(s)
  BY <1>1, <1>3, <1>9 DEF Look, Leave, At, Early, Shooting
<1>10. CASE Grant(s)
  <2>1. worker[s] \in Early
    BY <1>10 DEF Grant, At, Early, Shooting
  <2>2. ASSUME Capturing(s), NEW state \in {"completed", "granted"}, SetState(s, state)
        PROVE  \A t \in Sessions : Settled(t)
    BY <2>2 DEF Capturing, SetState, Settled, Live, Final, IInv, TypesFit, SessionsTypeOK
  <2>3. Capturing(s) /\ Enrolling(s) => receipt[s] = "active"
    BY <1>10 DEF Grant, At, Capturing, IInv, RowFits, ReceiptFits, Shooting
  <2> QED
    BY <1>1, <1>3, <1>10, <2>1, <2>2, <2>3 DEF Grant, Leave
<1>11. CASE Close(s)
  BY <1>1, <1>11, ReleaseSettles DEF Close
<1> QED
  BY <1>2, <1>5, <1>6, <1>7, <1>8, <1>9, <1>10, <1>11 DEF Work

LEMMA StepsSettle ==
  ASSUME IInv, Step
  PROVE  \A t \in Sessions : Settled(t)
<1>1. CASE session' = session
  BY <1>1 DEF Settled
<1>2. ASSUME NEW s \in Sessions, session[s].state = "absent",
             NEW row, session' = [session EXCEPT ![s] = row], row.state = "open"
      PROVE  \A t \in Sessions : Settled(t)
  BY <1>2 DEF Settled, Final, IInv, TypesFit, SessionsTypeOK
<1>3. ASSUME NEW s \in Sessions, StartScan(s)
      PROVE  \A t \in Sessions : Settled(t)
  <2>1. session[s].state = "absent"
    BY <1>3 DEF StartScan, IInv, RowFits, StateFits, Young
  <2>2. PICK kind \in Kinds \ {"enroll"}, ignition \in BOOLEAN :
          session' = [session EXCEPT ![s] = [NoSession EXCEPT !.kind = kind,
                        !.ignition = ignition, !.state = "open"]]
    BY <1>3 DEF StartScan
  <2>3. [NoSession EXCEPT !.kind = kind, !.ignition = ignition, !.state = "open"].state = "open"
    BY DEF NoSession
  <2> QED
    BY <1>2, <2>1, <2>2, <2>3
<1>4. ASSUME NEW s \in Sessions, StartEnrollment(s)
      PROVE  \A t \in Sessions : Settled(t)
  <2>1. session[s].state = "absent"
    BY <1>4 DEF StartEnrollment, IInv, RowFits, StateFits, Young
  <2>2. session' = [session EXCEPT ![s] = [NoSession EXCEPT !.kind = "enroll", !.state = "open"]]
    BY <1>4 DEF StartEnrollment
  <2>3. [NoSession EXCEPT !.kind = "enroll", !.state = "open"].state = "open"
    BY DEF NoSession
  <2> QED
    BY <1>2, <2>1, <2>2, <2>3
<1>5. ASSUME NEW s \in Sessions, Live(s), NEW row, session' = [session EXCEPT ![s] = row],
             row.state = "cancelled"
      PROVE  \A t \in Sessions : Settled(t)
  BY <1>5 DEF Settled, Live, Final, IInv, TypesFit, SessionsTypeOK
<1>6. ASSUME NEW s \in Sessions, Cancel(s)
      PROVE  \A t \in Sessions : Settled(t)
  <2>1. Live(s) /\ session' = [session EXCEPT ![s] = CancelledScan(s)]
    BY <1>6, CancelEffect
  <2>2. CancelledScan(s).state = "cancelled"
    BY DEF CancelledScan, IInv, TypesFit, SessionsTypeOK
  <2> QED
    BY <1>5, <2>1, <2>2
<1>7. ASSUME NEW s \in Sessions, SensorCancel(s)
      PROVE  \A t \in Sessions : Settled(t)
  BY <1>7 DEF SensorCancel, Settled, IInv, TypesFit, SessionsTypeOK
<1>8. CASE Cleanup
  BY <1>1, <1>8, ReleaseSettles DEF Cleanup, IInv, TypesFit, SessionsTypeOK
<1>9. CASE Revoke
  <2>1. CASE session' # session
    <3> DEFINE row == [CancelledScan(slot) EXCEPT !.revoked = TRUE]
    <3>1. slot \in Sessions /\ Live(slot) /\ session' = [session EXCEPT ![slot] = row]
      BY <1>9, <2>1 DEF Revoke, IInv, TypesFit, SessionsTypeOK
    <3>2. row.state = "cancelled"
      BY <3>1 DEF CancelledScan, IInv, TypesFit, SessionsTypeOK
    <3> QED
      BY <1>5, <3>1, <3>2
  <2> QED
    BY <1>1, <2>1
<1>10. CASE Resume
  BY <1>10 DEF Resume, Settled, IInv, TypesFit, SessionsTypeOK
<1>11. CASE CallerWorks
  BY <1>1, <1>6, <1>11
  DEF CallerWorks, CallerCancels, CallerDispatches, CallerStopsCapture,
       CallerClosesCamera, QuiesceJoins
<1>12. ASSUME NEW s \in Sessions, ReserveEnrollment(s) \/ RefuseEnrollment(s)
       PROVE  \A t \in Sessions : Settled(t)
  BY <1>1, <1>12 DEF ReserveEnrollment, RefuseEnrollment
<1>13. ASSUME NEW op \in Callers, Call(op)
       PROVE  \A t \in Sessions : Settled(t)
  BY <1>1, <1>13 DEF Call
<1> QED
  BY <1>3, <1>4, <1>6, <1>7, <1>8, <1>9, <1>10, <1>11, <1>12, <1>13, WorkSettles
  DEF Step, CancelRequest

(* The outcome of a session is decided once, and what was cancelled is     *)
(* neither granted nor saved, whichever thread comes first.                *)
THEOREM OutcomesAreFinal == Spec => OutcomeIsFinal
<1>1. IInv /\ [Next]_vars =>
        [\A s \in Sessions :
           /\ session[s].state \in Final => session'[s].state \in {session[s].state, "absent"}
           /\ session[s].cancel /\ session[s].state \notin {"granted", "completed"}
                => session'[s].state \notin {"granted", "completed"}]_vars
  BY StepsSettle DEF Next, Settled
<1> QED
  BY <1>1, Always, PTL DEF Spec, OutcomeIsFinal
=============================================================================
