------------------------------ MODULE Actuation ------------------------------
(***************************************************************************)
(* The host's half of locking the car: RuntimeActuation, which sends       *)
(* UNLOCK, LOCK, START and STOP, records the lock state in the database    *)
(* and remembers who unlocked, together with the parts of PiRuntime that   *)
(* start and grant face scans, write the serial line and enter             *)
(* maintenance.                                                            *)
(*                                                                         *)
(* Every operation runs under one re-entrant lock, so each is one action;  *)
(* a grant is two, its checks and what it does after them, because the     *)
(* link may be lost, a deadline may pass and maintenance may begin while   *)
(* it holds the lock.  What interleaves is the dashboard, the controller's *)
(* requests, the two timers, the link thread that restores a safe baseline *)
(* after a lost connection, the account mutations and maintenance.         *)
(*                                                                         *)
(* "car" is what the controller was last told.  What it does with that is  *)
(* module Controller.                                                      *)
(***************************************************************************)
EXTENDS Naturals, FiniteSets

CONSTANTS
    Users,      \* enrolled people with face access
    Timers,     \* identities of threading.Timer objects
    RiskSets,   \* the sets of risks a behaviour may run
    None

AllRisks == {"send",   \* a serial write fails and closes the port
             "save",   \* the database refuses to record a lock state
             "read",   \* the database cannot be read
             "timer",  \* a timer thread cannot be started
             "zero",   \* a time limit is configured as zero, which is none
             "crossed"} \* a request printed before an unlock is read after it

ASSUME ActuationAssumption ==
    /\ RiskSets \subseteq SUBSET AllRisks
    /\ None \notin Users \cup Timers

VARIABLES
    ignition,   \* _ignition_on
    owner,      \* _unlock_owner: who unlocked, or None
    delay,      \* _relock_seconds > 0
    relock,     \* _auto_relock_timer
    stop,       \* _ignition_stop_timer
    fired,      \* timers past their deadline, their callback waiting for the lock
    db,         \* the recorded lock state
    car,        \* what the controller was last told
    owed,       \* the link owes a reset_connection to a new serial connection
    scan,       \* the one scan session, or NoScan
    granting,   \* its worker holds the lock, past every check of the grant
    phase,      \* of maintenance and shutdown
    risks       \* which of AllRisks this behaviour runs; never changes

host == <<ignition, owner, delay>>
timers == <<relock, stop, fired>>
vars == <<ignition, owner, delay, relock, stop, fired, db, car, owed, scan, granting, phase,
          risks>>

NoScan == [source |-> "none"]
(* A scan keeps the owner it saw and, as "fresh", whether the generation   *)
(* it saw is still the current one.  A cancelled scan is not fresh either: *)
(* neither kind is ever granted.                                           *)
ScanSessions == [source : {"dashboard", "controller"}, purpose : {"unlock", "ignition"},
                 owner : Users \cup {None}, fresh : BOOLEAN]
(* quiesce and close refuse new sessions ("paused"), then cancel those that *)
(* run ("cancelled"), then raise _maintenance_requested ("requested"), and  *)
(* only then wait for the lock.                                             *)
Phases == {"running", "paused", "cancelled", "requested", "maintenance", "drained", "closed"}
Open == phase \in {"running", "paused", "cancelled"}   \* no flag is raised
Secured == [locked |-> TRUE, engine |-> FALSE]

Init ==
    /\ ignition = FALSE /\ owner = None /\ delay = FALSE
    /\ relock = None /\ stop = None /\ fired = {}
    /\ db \in {"locked", "unlocked"}
    /\ car \in [locked : BOOLEAN, engine : BOOLEAN]
    /\ owed = TRUE
    /\ scan = NoScan /\ granting = FALSE
    /\ phase = "running"
    /\ risks \in RiskSets

-----------------------------------------------------------------------------
(* Parts of the operations *)

(* Bumping the generation outdates the scan in progress. *)
Outdate == scan' = IF scan = NoScan THEN NoScan ELSE [scan EXCEPT !.fresh = FALSE]

Unused(t) == t \notin {relock, stop} /\ \A k \in {"relock", "stop"} : <<k, t>> \notin fired

(* Whether a configured time is positive. *)
Positive == IF "zero" \in risks THEN BOOLEAN ELSE {TRUE}

(* The timer a grant arms: a new one when the configured time is positive. *)
NewTimer(t, positive) == IF positive THEN t \in Timers /\ Unused(t) ELSE t = None

(* Arming fails when the thread cannot start, or when maintenance is       *)
(* requested between the operation's own check and this one.               *)
ArmingFails ==
    \/ "timer" \in risks /\ UNCHANGED phase
    \/ phase = "cancelled" /\ phase' = "requested"

(* _mark_locked, with both timers cancelled *)
Baseline ==
    /\ ignition' = FALSE /\ owner' = None /\ delay' = FALSE
    /\ relock' = None /\ stop' = None

(* Mutant: LOCK without the STOP before it. *)
DispatchLockOnly(told, sent, saved) ==
    /\ sent \/ "send" \in risks
    /\ saved => sent
    /\ sent => saved \/ "save" \in risks
    /\ car' \in {[told EXCEPT !.locked = told.locked \/ l] :
                    l \in IF sent THEN {TRUE} ELSE BOOLEAN}
    /\ db' = IF saved THEN "locked" ELSE db

(* STOP, then LOCK, each of which may reach the controller even when its   *)
(* write fails; then the database.  "told" is the car before.              *)
DispatchLock(told, sent, saved) ==
    /\ sent \/ "send" \in risks
    /\ saved => sent
    /\ sent => saved \/ "save" \in risks
    /\ car' \in IF sent THEN {Secured}
                ELSE {[locked |-> told.locked \/ l, engine |-> told.engine /\ e] :
                        l \in BOOLEAN, e \in BOOLEAN}
    /\ db' = IF saved THEN "locked" ELSE db

(* _force_lock: the generation moves on before anything is sent. *)
LockDown(sent, saved) ==
    /\ Outdate
    /\ DispatchLock(car, sent, saved)
    /\ owed' = (owed \/ ~sent)

(* One command to the controller: sent, or failed with the port closed. *)
Command(told, sent) ==
    \/ sent /\ car' = told /\ UNCHANGED owed
    \/ ~sent /\ "send" \in risks /\ car' \in {car, told} /\ owed' = TRUE

(* reset_connection: the baseline first, then the lock, whatever comes of it *)
ResetConnection(told, sent, saved) ==
    /\ Baseline
    /\ DispatchLock(told, sent, saved)

-----------------------------------------------------------------------------
(* Scans *)

(* The controller asks for what fits its lock when it prints the request.  *)
(* A line that the host reads late may find the car unlocked since.        *)
Asks(purpose) ==
    /\ ~owed
    /\ "crossed" \in risks \/ purpose = IF car.locked THEN "unlock" ELSE "ignition"

BeginScan(source, purpose) ==
    /\ scan = NoScan /\ phase = "running"
    /\ source = "controller" => Asks(purpose)
    /\ purpose = "ignition" => owner # None /\ db # "locked"
    /\ scan' = [source |-> source, purpose |-> purpose, owner |-> owner, fresh |-> TRUE]
    /\ UNCHANGED <<host, timers, db, car, owed, granting, phase>>

(* Denied, timed out, failed, cancelled or refused by any check before     *)
(* actuation; also a dashboard start of an engine that already runs.       *)
EndScan ==
    /\ scan # NoScan /\ ~granting
    /\ scan' = NoScan
    /\ UNCHANGED <<host, timers, db, car, owed, granting, phase>>

(* The worker takes the lock, makes every check of the grant and of unlock *)
(* or set_ignition, and keeps the lock until it is done.                   *)
BeginGrant ==
    /\ ~granting /\ Open
    /\ scan # NoScan /\ scan.fresh
    /\ scan.purpose = "ignition" => owner # None /\ db # "locked" /\ ~ignition
    /\ granting' = TRUE
    /\ UNCHANGED <<host, timers, db, car, owed, scan, phase>>

Granting(purpose) ==
    /\ granting /\ scan.purpose = purpose
    /\ granting' = FALSE /\ scan' = NoScan

(* The controller acknowledges a request that still waits, and so fits.    *)
Acknowledged ==
    scan.source = "controller" => ~owed /\ (scan.purpose = "unlock") = car.locked

-----------------------------------------------------------------------------
(* Unlocking *)

Opened == [car EXCEPT !.locked = FALSE]

UnlockGranted(u, t, positive) ==
    /\ Granting("unlock")
    /\ NewTimer(t, positive)
    /\ Acknowledged
    /\ Command(Opened, TRUE)
    /\ db' = "unlocked"
    /\ owner' = u /\ delay' = positive /\ relock' = t
    /\ UNCHANGED <<ignition, stop, fired, phase>>

UnlockNotArmed(positive) ==
    /\ Granting("unlock")
    /\ positive /\ "timer" \in risks
    /\ delay' = TRUE
    /\ UNCHANGED <<ignition, owner, timers, db, car, owed, phase>>

(* A failed write, or a controller request cancelled since the checks.     *)
(* The new timer is cancelled, and arming it had cancelled the old one.    *)
UnlockNotSent(positive) ==
    /\ Granting("unlock")
    /\ IF scan.source = "dashboard" THEN Command(Opened, FALSE)
                                    ELSE UNCHANGED <<car, owed>>
    /\ delay' = positive /\ relock' = None
    /\ UNCHANGED <<ignition, owner, stop, fired, db, phase>>

(* The controller's ACK did not come, or came too late: it may have opened. *)
UnlockUnconfirmed ==
    /\ Granting("unlock") /\ scan.source = "controller"
    /\ \E told \in {car, Opened}, sent, saved \in BOOLEAN :
         /\ ResetConnection(told, sent, saved)
         /\ owed' = (owed \/ ~sent)
    /\ UNCHANGED <<fired, phase>>

(* The unlock was sent but not saved: a LOCK undoes it when it can be sent. *)
UnlockNotSaved(t, positive) ==
    /\ Granting("unlock")
    /\ NewTimer(t, positive)
    /\ "save" \in risks
    /\ Acknowledged
    /\ \E undone \in BOOLEAN :
         /\ IF undone
            THEN car' = [car EXCEPT !.locked = TRUE] /\ UNCHANGED owed
            ELSE /\ "send" \in risks
                 /\ car' \in {[car EXCEPT !.locked = l] : l \in BOOLEAN}
                 /\ owed' = TRUE
         /\ relock' = IF undone THEN None ELSE t
    /\ owner' = None /\ delay' = positive
    /\ UNCHANGED <<ignition, stop, fired, db, phase>>

Unlock ==
    \/ \E u \in Users, t \in Timers \cup {None}, d \in Positive : UnlockGranted(u, t, d)
    \/ \E d \in Positive : UnlockNotArmed(d)
    \/ \E d \in Positive : UnlockNotSent(d)
    \/ UnlockUnconfirmed
    \/ \E t \in Timers \cup {None}, d \in Positive : UnlockNotSaved(t, d)

-----------------------------------------------------------------------------
(* The engine *)

Started == [car EXCEPT !.engine = TRUE]

(* The relock countdown pauses while the engine runs. *)
StartGranted(t, positive) ==
    /\ Granting("ignition")
    /\ NewTimer(t, positive)
    /\ Acknowledged
    /\ Command(Started, TRUE)
    /\ ignition' = TRUE /\ relock' = None /\ stop' = t
    /\ UNCHANGED <<owner, delay, fired, db, phase>>

StartNotArmed ==
    /\ Granting("ignition")
    /\ "timer" \in risks
    /\ UNCHANGED <<host, timers, db, car, owed, phase>>

StartNotSent ==
    /\ Granting("ignition")
    /\ IF scan.source = "dashboard" THEN Command(Started, FALSE)
                                    ELSE UNCHANGED <<car, owed>>
    /\ stop' = None
    /\ UNCHANGED <<host, relock, fired, db, phase>>

StartUnconfirmed ==
    /\ Granting("ignition") /\ scan.source = "controller"
    /\ \E told \in {car, Started}, sent, saved \in BOOLEAN :
         /\ ResetConnection(told, sent, saved)
         /\ owed' = (owed \/ ~sent)
    /\ UNCHANGED <<fired, phase>>

StartEngine ==
    \/ \E t \in Timers \cup {None}, l \in Positive : StartGranted(t, l)
    \/ StartNotArmed
    \/ StartNotSent
    \/ StartUnconfirmed

(* _restart_auto_relock: resume the countdown the engine paused.  It gives *)
(* up, with a log line, when the database or the timer thread fails.       *)
RestartRelock ==
    IF delay /\ relock = None /\ db = "unlocked"
    THEN \/ UNCHANGED phase /\ relock' \in {t \in Timers : Unused(t)}
         \/ ArmingFails /\ UNCHANGED relock
         \/ "read" \in risks /\ UNCHANGED <<relock, phase>>
    ELSE UNCHANGED <<relock, phase>>

StopEngine(sent, timer) ==
    /\ Command([car EXCEPT !.engine = FALSE], sent)
    /\ IF sent THEN ignition' = FALSE /\ stop' = None /\ RestartRelock
               ELSE UNCHANGED <<ignition, relock, phase>> /\ stop' = timer
    /\ UNCHANGED <<owner, delay, db, scan>>

IgnitionStop ==
    /\ Open /\ ~granting
    /\ \E sent \in BOOLEAN : StopEngine(sent, stop)
    /\ UNCHANGED <<fired, granting>>

-----------------------------------------------------------------------------
(* Locking and the two timers *)

(* Mutant: the timers are cancelled before the lock is known to be saved. *)
ForceLockTimersFirst ==
    /\ Open /\ ~granting
    /\ \E sent, saved \in BOOLEAN :
         /\ LockDown(sent, saved)
         /\ IF saved THEN Baseline
                     ELSE relock' = None /\ stop' = None /\ UNCHANGED host
    /\ UNCHANGED <<fired, granting, phase>>

ForceLock ==
    /\ Open /\ ~granting
    /\ \E sent, saved \in BOOLEAN :
         /\ LockDown(sent, saved)
         /\ IF saved THEN Baseline ELSE UNCHANGED <<host, relock, stop>>
    /\ UNCHANGED <<fired, granting, phase>>

(* A deadline passes.  Cancelling the timer is now too late to prevent its *)
(* callback, only its effect.                                              *)
TimerFires ==
    /\ \E t \in Timers :
         \/ relock = t /\ <<"relock", t>> \notin fired /\ fired' = fired \cup {<<"relock", t>>}
         \/ stop = t /\ <<"stop", t>> \notin fired /\ fired' = fired \cup {<<"stop", t>>}
    /\ UNCHANGED <<host, relock, stop, db, car, owed, scan, granting, phase>>

(* relock_if_current: its own timer is cleared before the lock is tried. *)
RelockCallback(t) ==
    /\ <<"relock", t>> \in fired /\ ~granting
    /\ fired' = fired \ {<<"relock", t>>}
    /\ \/ /\ relock # t
          /\ UNCHANGED <<host, relock, stop, db, car, owed, scan>>
       \/ /\ relock = t /\ ~Open
          /\ relock' = None
          /\ UNCHANGED <<host, stop, db, car, owed, scan>>
       \/ /\ relock = t /\ Open
          /\ \E sent, saved \in BOOLEAN :
               /\ LockDown(sent, saved)
               /\ IF saved THEN Baseline ELSE relock' = None /\ UNCHANGED <<host, stop>>
    /\ UNCHANGED <<granting, phase>>

(* stop_if_current *)
StopCallback(t) ==
    /\ <<"stop", t>> \in fired /\ ~granting
    /\ fired' = fired \ {<<"stop", t>>}
    /\ \/ /\ stop # t
          /\ UNCHANGED <<host, relock, stop, db, car, owed, scan, phase>>
       \/ /\ stop = t /\ ~Open
          /\ stop' = None
          /\ UNCHANGED <<host, relock, db, car, owed, scan, phase>>
       \/ /\ stop = t /\ Open
          /\ \E sent \in BOOLEAN : StopEngine(sent, None)
    /\ UNCHANGED granting

Callback == \E t \in Timers : RelockCallback(t) \/ StopCallback(t)

-----------------------------------------------------------------------------
(* The serial link *)

(* Unplugged, or a read failed.  A controller that lost its power boots    *)
(* with the engine off.                                                    *)
LoseLink ==
    /\ owed' = TRUE
    /\ car' \in {car, [car EXCEPT !.engine = FALSE]}
    /\ UNCHANGED <<host, timers, db, scan, granting, phase>>

(* Mutant: a connection whose reset failed is kept as if it had been reset. *)
LinkResetOnce ==
    /\ owed /\ ~granting
    /\ \E sent, saved \in BOOLEAN : ResetConnection(car, sent, saved)
    /\ owed' = FALSE
    /\ Outdate
    /\ UNCHANGED <<fired, granting, phase>>

(* sync_esp32_state on a new connection; a failure closes it again.  The   *)
(* link looks at maintenance and shutdown before it opens the port, not    *)
(* here, so a reset already under way still happens in either.             *)
LinkReset ==
    /\ owed /\ ~granting
    /\ \E sent, saved \in BOOLEAN :
         /\ ResetConnection(car, sent, saved)
         /\ owed' = ~saved
    /\ Outdate
    /\ UNCHANGED <<fired, granting, phase>>

-----------------------------------------------------------------------------
(* Accounts, maintenance, shutdown *)

(* Mutant: the generation stays when the owner is cleared. *)
InvalidateQuietly(u) ==
    /\ ~granting
    /\ u = None \/ owner = None \/ u = owner
    /\ owner' = None
    /\ UNCHANGED <<ignition, delay, timers, db, car, owed, scan, granting, phase>>

(* invalidate_authorization(u), or of everybody when u is None *)
Invalidate(u) ==
    /\ ~granting
    /\ u = None \/ owner = None \/ u = owner
    /\ owner' = None
    /\ Outdate
    /\ UNCHANGED <<ignition, delay, timers, db, car, owed, granting, phase>>

(* quiesce and close: no session begins from here on. *)
Pause ==
    /\ phase = "running"
    /\ phase' = "paused"
    /\ UNCHANGED <<host, timers, db, car, owed, scan, granting>>

(* Mutant: the sessions are cancelled without waiting for the lock. *)
CancelSessionsAtOnce ==
    /\ phase = "paused"
    /\ phase' = "cancelled"
    /\ Outdate
    /\ UNCHANGED <<host, timers, db, car, owed, granting>>

(* _cancel_all_sessions: every session that has not ended is cancelled      *)
(* under the lock, and so after a grant that is under way.                  *)
CancelSessions ==
    /\ phase = "paused" /\ ~granting
    /\ phase' = "cancelled"
    /\ Outdate
    /\ UNCHANGED <<host, timers, db, car, owed, granting>>

(* _maintenance_requested is raised without the lock. *)
RequestMaintenance ==
    /\ phase = "cancelled"
    /\ phase' = "requested"
    /\ UNCHANGED <<host, timers, db, car, owed, scan, granting>>

(* Mutant: an unsaved lock still counts as drained. *)
QuiesceRegardless ==
    /\ phase \in {"requested", "maintenance"} /\ ~granting
    /\ \E sent, saved, ended \in BOOLEAN :
         /\ DispatchLock(car, sent, saved)
         /\ IF saved THEN Baseline
                     ELSE relock' = None /\ stop' = None /\ UNCHANGED host
         /\ IF ended THEN phase' = "drained" /\ scan' = NoScan
                     ELSE phase' = "maintenance" /\ Outdate
    /\ owed' = TRUE
    /\ UNCHANGED <<fired, granting>>

(* With the lock held: timers off, car locked, port closed.  Drained only  *)
(* when the lock was recorded and every worker and timer came to an end.   *)
Quiesce ==
    /\ phase \in {"requested", "maintenance"} /\ ~granting
    /\ \E sent, saved, ended \in BOOLEAN :
         /\ DispatchLock(car, sent, saved)
         /\ IF saved THEN Baseline
                     ELSE relock' = None /\ stop' = None /\ UNCHANGED host
         /\ IF saved /\ ended THEN phase' = "drained" /\ scan' = NoScan
                              ELSE phase' = "maintenance" /\ Outdate
    /\ owed' = TRUE
    /\ UNCHANGED <<fired, granting>>

Resume ==
    /\ phase = "drained" /\ ~granting
    /\ Baseline
    /\ scan' = NoScan
    /\ phase' = "running"
    /\ UNCHANGED <<fired, db, car, owed, granting>>

(* Best effort: without hardware nothing is sent, and the state remembered *)
(* in memory no longer matters.                                            *)
Shutdown ==
    /\ phase \in {"requested", "maintenance", "drained"} /\ ~granting
    /\ phase' = "closed"
    /\ relock' = None /\ stop' = None
    /\ Outdate
    /\ \/ UNCHANGED <<host, db, car>>
       \/ \E sent, saved \in BOOLEAN :
            /\ DispatchLock(car, sent, saved)
            /\ IF saved THEN ignition' = FALSE /\ owner' = None /\ delay' = FALSE
                        ELSE UNCHANGED host
    /\ owed' = TRUE
    /\ UNCHANGED <<fired, granting>>

-----------------------------------------------------------------------------
Step ==
    \/ \E source \in {"dashboard", "controller"}, purpose \in {"unlock", "ignition"} :
         BeginScan(source, purpose)
    \/ EndScan
    \/ BeginGrant
    \/ Unlock
    \/ StartEngine
    \/ IgnitionStop
    \/ ForceLock
    \/ TimerFires
    \/ Callback
    \/ LoseLink
    \/ LinkReset
    \/ \E u \in Users \cup {None} : Invalidate(u)
    \/ Pause
    \/ CancelSessions
    \/ RequestMaintenance
    \/ Quiesce
    \/ Resume
    \/ Shutdown

Next == Step /\ UNCHANGED risks

Spec == Init /\ [][Next]_vars

(* Deadlines pass and callbacks get the lock.  The link retries for as     *)
(* long as it takes, and not every one of its retries fails.               *)
Fairness ==
    /\ WF_vars(TimerFires /\ UNCHANGED risks)
    /\ WF_vars(Callback /\ UNCHANGED risks)
    /\ SF_vars(phase = "running" /\ LinkReset /\ ~owed' /\ UNCHANGED risks)

FairSpec == Spec /\ Fairness
-----------------------------------------------------------------------------
(* Properties *)

ActuationTypeOK ==
    /\ ignition \in BOOLEAN /\ delay \in BOOLEAN /\ owed \in BOOLEAN
    /\ owner \in Users \cup {None}
    /\ relock \in Timers \cup {None} /\ stop \in Timers \cup {None}
    /\ fired \subseteq {"relock", "stop"} \X Timers
    /\ db \in {"locked", "unlocked"}
    /\ car \in [locked : BOOLEAN, engine : BOOLEAN]
    /\ scan \in ScanSessions \cup {NoScan} /\ granting \in BOOLEAN
    /\ phase \in Phases
    /\ risks \in RiskSets

(* Whatever fails, somebody is the unlock's owner - the one thing an       *)
(* ignition scan asks for - only while the database says unlocked.         *)
OwnerMeansUnlocked == owner # None => db = "unlocked"

(* A scan whose generation is current saw the present owner, and an        *)
(* ignition scan an unlocked car: nothing that changes either forgets to   *)
(* move the generation on.                                                 *)
FreshScanContext ==
    scan # NoScan /\ scan.fresh =>
        /\ scan.owner = owner
        /\ scan.purpose = "ignition" => owner # None /\ db = "unlocked"

(* What a grant has checked still holds when it writes: in between no other *)
(* thread changes the owner, the lock state or the generation, and          *)
(* maintenance, whose flag is raised without the lock, is not requested.    *)
GrantStillGood ==
    granting =>
        /\ Open /\ scan # NoScan /\ scan.fresh
        /\ scan.purpose = "ignition" => owner # None /\ db = "unlocked" /\ ~ignition

(* What holds of owner, scan and grant whatever fails and in whatever order. *)
ActuationInv == ActuationTypeOK /\ OwnerMeansUnlocked /\ FreshScanContext /\ GrantStillGood

(* While the link owes no reset and the database records what it is told,  *)
(* the host's ignition flag and recorded lock state are what it last told  *)
(* the controller, however commands, timers, scans and resets interleave.  *)
HostAgreesWithCar ==
    "save" \notin risks /\ ~owed =>
        car.engine = ignition /\ car.locked = (db = "locked")

(* Drained maintenance, in which the product may be reset, finds the car   *)
(* told to be locked with the engine off, recorded so, and owned by nobody.*)
DrainedIsSecured ==
    phase = "drained" => car = Secured /\ db = "locked" /\ owner = None /\ ~ignition

(* Both time limits are configured, the timers can be armed, and no request *)
(* of the controller is read after the unlock that ended it.                *)
TimersWork == risks \cap {"read", "timer", "zero", "crossed"} = {}

(* An unlocked car with the engine off and a relock delay configured is    *)
(* never left without a countdown, unless the link is about to lock it.    *)
RelockGuaranteed == Open /\ ~owed /\ ~car.locked /\ ~ignition => relock # None

(* An engine started with a time limit is never left without its timer,    *)
(* unless the link is about to stop it.                                    *)
EngineLimitGuaranteed == Open /\ ~owed /\ ignition => stop # None

(* Nothing is left open or running without its time limit. *)
CountdownGuaranteed == TimersWork => RelockGuaranteed /\ EngineLimitGuaranteed

(* docs/android-wireless.md: an unlock without ignition re-locks after the *)
(* configured delay.  Here the delay is configured and every timer starts. *)
UnlockRelocks == RelockGuaranteed

(* The comment on ignition: no relock countdown while the engine runs.     *)
NeverRelocksWhileRunning == phase = "running" /\ ignition => relock = None

(* Once maintenance is requested, or shutdown is done, nothing tells the   *)
(* controller to unlock or to start.  The flag is raised without the lock, *)
(* so this rests on the cancellation before it, which waits for a grant    *)
(* that is past its own look at the flag.                                  *)
MaintenanceGrantsNothing ==
    [][~Open => (car.locked => car'.locked) /\ (car'.engine => car.engine)]_vars

(* If scans and maintenance stop for good, the time limits and resets      *)
(* bring the car to locked with the engine off, and keep it there, though  *)
(* any single write to the controller may fail.                            *)
SettlesSecured ==
    risks \subseteq {"send"} /\ <>[](scan = NoScan /\ phase = "running")
        => <>[](car = Secured)
=============================================================================
