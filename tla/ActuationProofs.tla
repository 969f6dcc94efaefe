--------------------------- MODULE ActuationProofs ---------------------------
(***************************************************************************)
(* What Actuation guarantees for every set of people, timers and risks.    *)
(*                                                                         *)
(* The types and the safety invariants about owner, scan, grant, drained   *)
(* maintenance and agreement are inductive together with one fact more:    *)
(* from the cancellation of the sessions on, no scan can be granted        *)
(* (CancelledFirst).  The countdowns need two (Countdowns), which say what *)
(* a lasting unlock leaves behind and that a controller's unlock scan      *)
(* stands before a locked car.                                             *)
(***************************************************************************)
EXTENDS Actuation, TLAPS

Cars == [locked : BOOLEAN, engine : BOOLEAN]

(* A controller asks for an unlock before a locked car only, and an unlock *)
(* that lasts leaves the delay and the record that a countdown needs.      *)
Countdowns ==
    /\ TimersWork /\ scan # NoScan /\ scan.source = "controller" /\ scan.purpose = "unlock"
         => car.locked
    /\ TimersWork /\ Open /\ ~owed /\ ~car.locked => delay /\ db = "unlocked"
    /\ CountdownGuaranteed

(* The sessions are cancelled before the flag of maintenance is raised, and *)
(* none begins in between.                                                  *)
CancelledFirst ==
    phase \notin {"running", "paused"} /\ scan # NoScan => ~scan.fresh

Agreement ==
    /\ OwnerMeansUnlocked
    /\ FreshScanContext
    /\ GrantStillGood
    /\ CancelledFirst
    /\ DrainedIsSecured
    /\ HostAgreesWithCar

IInv == ActuationTypeOK /\ Agreement /\ Countdowns

-----------------------------------------------------------------------------
(* What the parts of an operation do *)

(* STOP and LOCK never unlock and never start; sent, they leave the car    *)
(* secured; the database changes only when they were sent.                 *)
Secures(told, sent, saved) ==
    /\ car' \in Cars /\ db' \in {"locked", "unlocked"}
    /\ told.locked => car'.locked
    /\ car'.engine => told.engine
    /\ sent \/ told = Secured => car' = Secured
    /\ saved => sent /\ db' = "locked"
    /\ ~saved => db' = db
    /\ "save" \notin risks /\ sent => saved

(* _dispatch_lock secures, whichever of its parts fails.                   *)
LEMMA DispatchEffect ==
    ASSUME NEW told \in Cars, NEW sent \in BOOLEAN, NEW saved \in BOOLEAN,
           db \in {"locked", "unlocked"}, DispatchLock(told, sent, saved)
    PROVE  Secures(told, sent, saved)
  <1>1. /\ saved => sent /\ db' = "locked"
        /\ ~saved => db' = db
        /\ db' \in {"locked", "unlocked"}
        /\ "save" \notin risks /\ sent => saved
    BY DEF DispatchLock
  <1>2. CASE sent
    <2>1. car' = Secured
      BY <1>2 DEF DispatchLock
    <2>2. QED
      BY <1>1, <1>2, <2>1 DEF Secures, Secured, Cars
  <1>3. CASE ~sent
    <2>1. PICK l \in BOOLEAN, e \in BOOLEAN :
            car' = [locked |-> told.locked \/ l, engine |-> told.engine /\ e]
      BY <1>3 DEF DispatchLock
    <2>2. /\ car' \in Cars
          /\ car'.locked = (told.locked \/ l) /\ car'.engine = (told.engine /\ e)
      BY <2>1 DEF Cars
    <2>3. ASSUME told = Secured
          PROVE  car' = Secured
      <3>1. (told.locked \/ l) = TRUE /\ (told.engine /\ e) = FALSE
        BY <2>3 DEF Secured
      <3>2. QED
        BY <2>1, <3>1 DEF Secured
    <2>4. QED
      BY <1>1, <1>3, <2>2, <2>3 DEF Secures
  <1>4. QED
    BY <1>2, <1>3

(* One command takes effect, or makes the link owe a reset.                *)
LEMMA CommandEffect ==
    ASSUME NEW told \in Cars, NEW sent \in BOOLEAN, car \in Cars, owed \in BOOLEAN,
           Command(told, sent)
    PROVE  /\ car' \in {car, told} /\ car' \in Cars /\ owed' \in BOOLEAN
           /\ sent => car' = told /\ owed' = owed
           /\ ~sent => owed'
  BY DEF Command

(* What an operation's commands aim at. *)
Stopped == [car EXCEPT !.engine = FALSE]

(* Each command changes the half of the car it names.                      *)
LEMMA AimedCars ==
    ASSUME car \in Cars
    PROVE  /\ Opened \in Cars /\ Opened.locked = FALSE /\ Opened.engine = car.engine
           /\ Started \in Cars /\ Started.engine = TRUE /\ Started.locked = car.locked
           /\ Stopped \in Cars /\ Stopped.locked = car.locked /\ Stopped.engine = FALSE
           /\ Secured \in Cars /\ Secured.locked = TRUE /\ Secured.engine = FALSE
  BY DEF Opened, Started, Stopped, Secured, Cars

(* An outdated scan stays the same scan and is not fresh.                  *)
LEMMA OutdateEffect ==
    ASSUME scan \in ScanSessions \cup {NoScan}, Outdate
    PROVE  /\ scan' \in ScanSessions \cup {NoScan}
           /\ scan' # NoScan => ~scan'.fresh /\ scan # NoScan
           /\ scan' # NoScan => scan'.source = scan.source /\ scan'.purpose = scan.purpose
  BY DEF Outdate, ScanSessions, NoScan

(* The parts of the state in the forms the other lemmas ask for.           *)
LEMMA Typed ==
    ASSUME IInv
    PROVE  /\ car \in Cars /\ db \in {"locked", "unlocked"} /\ owed \in BOOLEAN
           /\ scan \in ScanSessions \cup {NoScan}
           /\ scan # NoScan => scan \in ScanSessions
  BY DEF IInv, ActuationTypeOK, Cars

(* What a grant finds: its scan, and everything it has checked.            *)
LEMMA GrantContext ==
    ASSUME IInv, NEW purpose, Granting(purpose)
    PROVE  /\ scan \in ScanSessions /\ scan # NoScan /\ scan.purpose = purpose
           /\ scan.fresh /\ scan' = NoScan /\ granting' = FALSE /\ Open
           /\ purpose = "ignition" => owner # None /\ db = "unlocked" /\ ~ignition
  BY Typed DEF IInv, Agreement, GrantStillGood, Granting

-----------------------------------------------------------------------------
(* Each action keeps the invariant *)

(* A new scan sees the present owner.                                      *)
LEMMA BeginScanStep ==
    ASSUME IInv,
           NEW source \in {"dashboard", "controller"}, NEW purpose \in {"unlock", "ignition"},
           BeginScan(source, purpose), UNCHANGED risks
    PROVE  IInv'
  <1>1. ActuationTypeOK'
    BY ActuationAssumption
       DEF IInv, ActuationTypeOK,
           Cars, Phases, host, timers, NoScan, ScanSessions, BeginScan
  <1>2. Agreement'
    BY ActuationAssumption
       DEF IInv, ActuationTypeOK, Agreement, OwnerMeansUnlocked, FreshScanContext,
           GrantStillGood, CancelledFirst, Open,
           DrainedIsSecured, HostAgreesWithCar,
           Cars, Phases, host, timers, NoScan, ScanSessions, BeginScan
  <1>3. Countdowns'
    BY ActuationAssumption
       DEF IInv, ActuationTypeOK, Agreement, DrainedIsSecured, Countdowns, CountdownGuaranteed,
           RelockGuaranteed, EngineLimitGuaranteed, TimersWork, Open,
           Cars, Phases, host, timers, NoScan, ScanSessions, BeginScan, Asks
  <1>4. QED
    BY <1>1, <1>2, <1>3 DEF IInv, Agreement

(* A scan that ends leaves everything else alone.                          *)
LEMMA EndScanStep ==
    ASSUME IInv, EndScan, UNCHANGED risks
    PROVE  IInv'
  <1>1. ActuationTypeOK'
    BY ActuationAssumption
       DEF IInv, ActuationTypeOK,
           Cars, Phases, host, timers, EndScan
  <1>2. Agreement'
    BY ActuationAssumption
       DEF IInv, ActuationTypeOK, Agreement, OwnerMeansUnlocked, FreshScanContext,
           GrantStillGood, CancelledFirst, Open,
           DrainedIsSecured, HostAgreesWithCar,
           Cars, Phases, host, timers, EndScan
  <1>3. Countdowns'
    BY ActuationAssumption
       DEF IInv, ActuationTypeOK, Agreement, DrainedIsSecured, Countdowns, CountdownGuaranteed,
           RelockGuaranteed, EngineLimitGuaranteed, TimersWork, Open,
           Cars, Phases, host, timers, EndScan
  <1>4. QED
    BY <1>1, <1>2, <1>3 DEF IInv, Agreement

(* A grant begins where everything it will rely on holds.                  *)
LEMMA BeginGrantStep ==
    ASSUME IInv, BeginGrant, UNCHANGED risks
    PROVE  IInv'
  <1>1. ActuationTypeOK'
    BY ActuationAssumption
       DEF IInv, ActuationTypeOK,
           Cars, Phases, host, timers, BeginGrant
  <1>2. Agreement'
    BY ActuationAssumption
       DEF IInv, ActuationTypeOK, Agreement, OwnerMeansUnlocked, FreshScanContext,
           GrantStillGood, CancelledFirst, Open,
           DrainedIsSecured, HostAgreesWithCar,
           Cars, Phases, host, timers, BeginGrant
  <1>3. Countdowns'
    BY ActuationAssumption
       DEF IInv, ActuationTypeOK, Agreement, DrainedIsSecured, Countdowns, CountdownGuaranteed,
           RelockGuaranteed, EngineLimitGuaranteed, TimersWork, Open,
           Cars, Phases, host, timers, BeginGrant
  <1>4. QED
    BY <1>1, <1>2, <1>3 DEF IInv, Agreement

(* A deadline changes only what waits for the lock.                        *)
LEMMA FiresStep ==
    ASSUME IInv, TimerFires, UNCHANGED risks
    PROVE  IInv'
  <1>1. ActuationTypeOK'
    BY ActuationAssumption
       DEF IInv, ActuationTypeOK,
           Cars, Phases, host, timers, TimerFires
  <1>2. Agreement'
    BY ActuationAssumption
       DEF IInv, ActuationTypeOK, Agreement, OwnerMeansUnlocked, FreshScanContext,
           GrantStillGood, CancelledFirst, Open,
           DrainedIsSecured, HostAgreesWithCar,
           Cars, Phases, host, timers, TimerFires
  <1>3. Countdowns'
    BY ActuationAssumption
       DEF IInv, ActuationTypeOK, Agreement, DrainedIsSecured, Countdowns, CountdownGuaranteed,
           RelockGuaranteed, EngineLimitGuaranteed, TimersWork, Open,
           Cars, Phases, host, timers, TimerFires
  <1>4. QED
    BY <1>1, <1>2, <1>3 DEF IInv, Agreement

(* Clearing the owner outdates the scan.                                   *)
LEMMA InvalidateStep ==
    ASSUME IInv, NEW u \in Users \cup {None}, Invalidate(u), UNCHANGED risks
    PROVE  IInv'
  <1>1. Outdate
    BY DEF Invalidate
  <1>2. ActuationTypeOK'
    BY <1>1, Typed, OutdateEffect, ActuationAssumption
       DEF IInv, ActuationTypeOK,
           Cars, Phases, host, timers, Invalidate
  <1>3. Agreement'
    BY <1>1, Typed, OutdateEffect, ActuationAssumption
       DEF IInv, ActuationTypeOK, Agreement, OwnerMeansUnlocked, FreshScanContext,
           GrantStillGood, CancelledFirst, Open,
           DrainedIsSecured, HostAgreesWithCar,
           Cars, Phases, host, timers, Invalidate
  <1>4. Countdowns'
    BY <1>1, Typed, OutdateEffect, ActuationAssumption
       DEF IInv, ActuationTypeOK, Agreement, DrainedIsSecured, Countdowns, CountdownGuaranteed,
           RelockGuaranteed, EngineLimitGuaranteed, TimersWork, Open,
           Cars, Phases, host, timers, Invalidate
  <1>5. QED
    BY <1>2, <1>3, <1>4 DEF IInv, Agreement

(* No session begins from here on.                                         *)
LEMMA PauseStep ==
    ASSUME IInv, Pause, UNCHANGED risks
    PROVE  IInv'
  <1>1. ActuationTypeOK'
    BY ActuationAssumption
       DEF IInv, ActuationTypeOK,
           Cars, Phases, host, timers, Pause
  <1>2. Agreement'
    BY ActuationAssumption
       DEF IInv, ActuationTypeOK, Agreement, OwnerMeansUnlocked, FreshScanContext,
           GrantStillGood, CancelledFirst, Open,
           DrainedIsSecured, HostAgreesWithCar,
           Cars, Phases, host, timers, Pause
  <1>3. Countdowns'
    BY ActuationAssumption
       DEF IInv, ActuationTypeOK, Agreement, DrainedIsSecured, Countdowns, CountdownGuaranteed,
           RelockGuaranteed, EngineLimitGuaranteed, TimersWork, Open,
           Cars, Phases, host, timers, Pause
  <1>4. QED
    BY <1>1, <1>2, <1>3 DEF IInv, Agreement

(* Cancelling the sessions outdates the scan, and waits for a grant.       *)
LEMMA CancelSessionsStep ==
    ASSUME IInv, CancelSessions, UNCHANGED risks
    PROVE  IInv'
  <1>1. Outdate
    BY DEF CancelSessions
  <1>2. ActuationTypeOK'
    BY <1>1, Typed, OutdateEffect, ActuationAssumption
       DEF IInv, ActuationTypeOK,
           Cars, Phases, host, timers, CancelSessions
  <1>3. Agreement'
    BY <1>1, Typed, OutdateEffect, ActuationAssumption
       DEF IInv, ActuationTypeOK, Agreement, OwnerMeansUnlocked, FreshScanContext,
           GrantStillGood, CancelledFirst, Open,
           DrainedIsSecured, HostAgreesWithCar,
           Cars, Phases, host, timers, CancelSessions
  <1>4. Countdowns'
    BY <1>1, Typed, OutdateEffect, ActuationAssumption
       DEF IInv, ActuationTypeOK, Agreement, DrainedIsSecured, Countdowns, CountdownGuaranteed,
           RelockGuaranteed, EngineLimitGuaranteed, TimersWork, Open,
           Cars, Phases, host, timers, CancelSessions
  <1>5. QED
    BY <1>2, <1>3, <1>4 DEF IInv, Agreement

(* The flag is raised when no scan can be granted any more.                *)
LEMMA RequestMaintenanceStep ==
    ASSUME IInv, RequestMaintenance, UNCHANGED risks
    PROVE  IInv'
  <1>1. ActuationTypeOK'
    BY ActuationAssumption
       DEF IInv, ActuationTypeOK,
           Cars, Phases, host, timers, RequestMaintenance
  <1>2. Agreement'
    BY ActuationAssumption
       DEF IInv, ActuationTypeOK, Agreement, OwnerMeansUnlocked, FreshScanContext,
           GrantStillGood, CancelledFirst, Open,
           DrainedIsSecured, HostAgreesWithCar,
           Cars, Phases, host, timers, RequestMaintenance
  <1>3. Countdowns'
    BY ActuationAssumption
       DEF IInv, ActuationTypeOK, Agreement, DrainedIsSecured, Countdowns, CountdownGuaranteed,
           RelockGuaranteed, EngineLimitGuaranteed, TimersWork, Open,
           Cars, Phases, host, timers, RequestMaintenance
  <1>4. QED
    BY <1>1, <1>2, <1>3 DEF IInv, Agreement

(* A drained product is secured, so it may start from the baseline.        *)
LEMMA ResumeStep ==
    ASSUME IInv, Resume, UNCHANGED risks
    PROVE  IInv'
  <1>1. ActuationTypeOK'
    BY ActuationAssumption
       DEF IInv, ActuationTypeOK,
           Cars, Phases, Resume, Baseline, Secured
  <1>2. Agreement'
    BY ActuationAssumption
       DEF IInv, ActuationTypeOK, Agreement, OwnerMeansUnlocked, FreshScanContext,
           GrantStillGood, CancelledFirst, Open,
           DrainedIsSecured, HostAgreesWithCar,
           Cars, Phases, Resume, Baseline, Secured
  <1>3. Countdowns'
    BY ActuationAssumption
       DEF IInv, ActuationTypeOK, Agreement, DrainedIsSecured, Countdowns, CountdownGuaranteed,
           RelockGuaranteed, EngineLimitGuaranteed, TimersWork, Open,
           Cars, Phases, Resume, Baseline, Secured
  <1>4. QED
    BY <1>1, <1>2, <1>3 DEF IInv, Agreement

(* A lost link owes a reset; a drained car stays secured.                  *)
LEMMA LoseLinkStep ==
    ASSUME IInv, LoseLink, UNCHANGED risks
    PROVE  IInv'
  <1>1. /\ car' \in Cars /\ car'.locked = car.locked
        /\ car'.engine => car.engine
        /\ car = Secured => car' = Secured
        /\ owed' = TRUE /\ UNCHANGED <<host, timers, db, scan, granting, phase>>
    BY Typed, AimedCars DEF LoseLink, Stopped, Secured
  <1>2. ActuationTypeOK'
    BY <1>1, ActuationAssumption
       DEF IInv, ActuationTypeOK,
           Cars, Phases, host, timers
  <1>3. Agreement'
    BY <1>1, ActuationAssumption
       DEF IInv, ActuationTypeOK, Agreement, OwnerMeansUnlocked, FreshScanContext,
           GrantStillGood, CancelledFirst, Open,
           DrainedIsSecured, HostAgreesWithCar,
           Cars, Phases, host, timers
  <1>4. Countdowns'
    BY <1>1, ActuationAssumption
       DEF IInv, ActuationTypeOK, Agreement, DrainedIsSecured, Countdowns, CountdownGuaranteed,
           RelockGuaranteed, EngineLimitGuaranteed, TimersWork, Open,
           Cars, Phases, host, timers
  <1>5. QED
    BY <1>2, <1>3, <1>4 DEF IInv, Agreement

(* A lock keeps the countdowns unless it was recorded or the link failed.  *)
LEMMA ForceLockStep ==
    ASSUME IInv, ForceLock, UNCHANGED risks
    PROVE  IInv'
  <1>1. PICK sent \in BOOLEAN, saved \in BOOLEAN :
            /\ LockDown(sent, saved)
            /\ IF saved THEN Baseline ELSE UNCHANGED <<host, relock, stop>>
            /\ Open /\ ~granting /\ UNCHANGED <<granting, phase>>
    BY DEF ForceLock
  <1>2. Secures(car, sent, saved) /\ Outdate /\ owed' = (owed \/ ~sent)
    BY <1>1, Typed, DispatchEffect DEF LockDown
  <1>3. ActuationTypeOK'
    BY <1>1, <1>2, Typed, AimedCars, OutdateEffect, ActuationAssumption
       DEF IInv, ActuationTypeOK,
           Cars, Phases, host, timers, Secures, Baseline, ForceLock
  <1>4. Agreement'
    BY <1>1, <1>2, Typed, AimedCars, OutdateEffect, ActuationAssumption
       DEF IInv, ActuationTypeOK, Agreement, OwnerMeansUnlocked, FreshScanContext,
           GrantStillGood, CancelledFirst, Open,
           DrainedIsSecured, HostAgreesWithCar,
           Cars, Phases, host, timers, Secures, Baseline, ForceLock
  <1>5. Countdowns'
    BY <1>1, <1>2, Typed, AimedCars, OutdateEffect, ActuationAssumption
       DEF IInv, ActuationTypeOK, Agreement, DrainedIsSecured, Countdowns, CountdownGuaranteed,
           RelockGuaranteed, EngineLimitGuaranteed, TimersWork, Open,
           Cars, Phases, host, timers, Secures, Baseline, ForceLock
  <1>6. QED
    BY <1>3, <1>4, <1>5 DEF IInv, Agreement

(* A reset that fails leaves the baseline and still owes a reset.          *)
LEMMA LinkResetStep ==
    ASSUME IInv, LinkReset, UNCHANGED risks
    PROVE  IInv'
  <1>1. PICK sent \in BOOLEAN, saved \in BOOLEAN :
            ResetConnection(car, sent, saved) /\ owed' = ~saved
    BY DEF LinkReset
  <1>2. Secures(car, sent, saved) /\ Baseline /\ Outdate
    BY <1>1, Typed, DispatchEffect DEF LinkReset, ResetConnection
  <1>3. ActuationTypeOK'
    BY <1>1, <1>2, Typed, AimedCars, OutdateEffect, ActuationAssumption
       DEF IInv, ActuationTypeOK,
           Cars, Phases, Secures, Baseline, LinkReset
  <1>4. Agreement'
    BY <1>1, <1>2, Typed, AimedCars, OutdateEffect, ActuationAssumption
       DEF IInv, ActuationTypeOK, Agreement, OwnerMeansUnlocked, FreshScanContext,
           GrantStillGood, CancelledFirst, Open,
           DrainedIsSecured, HostAgreesWithCar,
           Cars, Phases, Secures, Baseline, LinkReset
  <1>5. Countdowns'
    BY <1>1, <1>2, Typed, AimedCars, OutdateEffect, ActuationAssumption
       DEF IInv, ActuationTypeOK, Agreement, DrainedIsSecured, Countdowns, CountdownGuaranteed,
           RelockGuaranteed, EngineLimitGuaranteed, TimersWork, Open,
           Cars, Phases, Secures, Baseline, LinkReset
  <1>6. QED
    BY <1>3, <1>4, <1>5 DEF IInv, Agreement

(* Only a recorded lock drains.                                            *)
LEMMA QuiesceStep ==
    ASSUME IInv, Quiesce, UNCHANGED risks
    PROVE  IInv'
  <1>1. PICK sent \in BOOLEAN, saved \in BOOLEAN, ended \in BOOLEAN :
            /\ DispatchLock(car, sent, saved)
            /\ IF saved THEN Baseline
                        ELSE relock' = None /\ stop' = None /\ UNCHANGED host
            /\ IF saved /\ ended THEN phase' = "drained" /\ scan' = NoScan
                                 ELSE phase' = "maintenance" /\ Outdate
    BY DEF Quiesce
  <1>2. Secures(car, sent, saved)
    BY <1>1, Typed, DispatchEffect
  <1>3. ActuationTypeOK'
    BY <1>1, <1>2, Typed, AimedCars, OutdateEffect, ActuationAssumption
       DEF IInv, ActuationTypeOK,
           Cars, Phases, host, timers, Secures, Baseline, Quiesce
  <1>4. Agreement'
    BY <1>1, <1>2, Typed, AimedCars, OutdateEffect, ActuationAssumption
       DEF IInv, ActuationTypeOK, Agreement, OwnerMeansUnlocked, FreshScanContext,
           GrantStillGood, CancelledFirst, Open,
           DrainedIsSecured, HostAgreesWithCar,
           Cars, Phases, host, timers, Secures, Baseline, Quiesce
  <1>5. Countdowns'
    BY <1>1, <1>2, Typed, AimedCars, OutdateEffect, ActuationAssumption
       DEF IInv, ActuationTypeOK, Agreement, DrainedIsSecured, Countdowns, CountdownGuaranteed,
           RelockGuaranteed, EngineLimitGuaranteed, TimersWork, Open,
           Cars, Phases, host, timers, Secures, Baseline, Quiesce
  <1>6. QED
    BY <1>3, <1>4, <1>5 DEF IInv, Agreement

(* A shutdown outdates the scan and leaves a reset owed.                   *)
LEMMA ShutdownStep ==
    ASSUME IInv, Shutdown, UNCHANGED risks
    PROVE  IInv'
  <1>1. \/ UNCHANGED <<host, db, car>>
        \/ \E sent, saved \in BOOLEAN :
             /\ Secures(car, sent, saved)
             /\ IF saved THEN ignition' = FALSE /\ owner' = None /\ delay' = FALSE
                         ELSE UNCHANGED host
    BY Typed, DispatchEffect DEF Shutdown
  <1>2. Outdate
    BY DEF Shutdown
  <1>3. ActuationTypeOK'
    BY <1>1, <1>2, Typed, AimedCars, OutdateEffect, ActuationAssumption
       DEF IInv, ActuationTypeOK,
           Cars, Phases, host, timers, Secures, Baseline, Shutdown
  <1>4. Agreement'
    BY <1>1, <1>2, Typed, AimedCars, OutdateEffect, ActuationAssumption
       DEF IInv, ActuationTypeOK, Agreement, OwnerMeansUnlocked, FreshScanContext,
           GrantStillGood, CancelledFirst, Open,
           DrainedIsSecured, HostAgreesWithCar,
           Cars, Phases, host, timers, Secures, Baseline, Shutdown
  <1>5. Countdowns'
    BY <1>1, <1>2, Typed, AimedCars, OutdateEffect, ActuationAssumption
       DEF IInv, ActuationTypeOK, Agreement, DrainedIsSecured, Countdowns, CountdownGuaranteed,
           RelockGuaranteed, EngineLimitGuaranteed, TimersWork, Open,
           Cars, Phases, host, timers, Secures, Baseline, Shutdown
  <1>6. QED
    BY <1>3, <1>4, <1>5 DEF IInv, Agreement

(* An engine stop resumes the countdown, or fails and owes a reset.        *)
LEMMA StopEngineStep ==
    ASSUME IInv, UNCHANGED risks,
           NEW sent \in BOOLEAN, NEW timer \in {None, stop}, StopEngine(sent, timer),
           Open, ~granting, UNCHANGED granting, fired' \subseteq fired
    PROVE  IInv'
  <1>1. Command(Stopped, sent) /\ UNCHANGED <<owner, delay, db, scan>>
    BY DEF StopEngine, Stopped
  <1>2. /\ car' \in Cars /\ owed' \in BOOLEAN
        /\ car'.locked = car.locked
        /\ sent => car'.engine = FALSE /\ owed' = owed
        /\ ~sent => owed'
    BY <1>1, Typed, AimedCars, CommandEffect
  <1>3. CASE sent
    <2>1. /\ ignition' = FALSE /\ stop' = None
          /\ relock' \in Timers \cup {None}
          /\ phase' = phase \/ (phase = "cancelled" /\ phase' = "requested")
          /\ relock # None => relock' = relock
          /\ TimersWork /\ delay /\ db = "unlocked" /\ phase' = phase
               => relock' # None
      BY <1>3, ActuationAssumption
         DEF StopEngine, RestartRelock, ArmingFails, TimersWork, IInv, ActuationTypeOK
    <2>2. ActuationTypeOK'
      BY <1>1, <1>2, <1>3, <2>1, ActuationAssumption
         DEF IInv, ActuationTypeOK,
             Cars, Phases
    <2>3. Agreement'
      BY <1>1, <1>2, <1>3, <2>1, ActuationAssumption
         DEF IInv, ActuationTypeOK, Agreement, OwnerMeansUnlocked, FreshScanContext,
             GrantStillGood, CancelledFirst, Open,
             DrainedIsSecured, HostAgreesWithCar,
             Cars, Phases
    <2>4. Countdowns'
      BY <1>1, <1>2, <1>3, <2>1, ActuationAssumption
         DEF IInv, ActuationTypeOK, Agreement, Countdowns, CountdownGuaranteed,
             RelockGuaranteed, EngineLimitGuaranteed, TimersWork, Open,
             Cars, Phases
    <2>5. QED
      BY <2>2, <2>3, <2>4 DEF IInv
  <1>4. CASE ~sent
    <2>1. UNCHANGED <<ignition, relock, phase>> /\ stop' = timer
      BY <1>4 DEF StopEngine
    <2>2. ActuationTypeOK'
      BY <1>1, <1>2, <1>4, <2>1, ActuationAssumption
         DEF IInv, ActuationTypeOK,
             Cars, Phases
    <2>3. Agreement'
      BY <1>1, <1>2, <1>4, <2>1, ActuationAssumption
         DEF IInv, ActuationTypeOK, Agreement, OwnerMeansUnlocked, FreshScanContext,
             GrantStillGood, CancelledFirst, Open,
             DrainedIsSecured, HostAgreesWithCar,
             Cars, Phases
    <2>4. Countdowns'
      BY <1>1, <1>2, <1>4, <2>1, ActuationAssumption
         DEF IInv, ActuationTypeOK, Agreement, Countdowns, CountdownGuaranteed,
             RelockGuaranteed, EngineLimitGuaranteed, TimersWork, Open,
             Cars, Phases
    <2>5. QED
      BY <2>2, <2>3, <2>4 DEF IInv
  <1>5. QED
    BY <1>3, <1>4

(* The dashboard's engine stop.                                            *)
LEMMA IgnitionStopStep ==
    ASSUME IInv, IgnitionStop, UNCHANGED risks
    PROVE  IInv'
  BY StopEngineStep DEF IgnitionStop

(* A timer's callback that finds its timer replaced, or maintenance        *)
(* requested, at most clears its own timer.                                *)
LEMMA IdleCallbackStep ==
    ASSUME IInv, UNCHANGED risks, fired' \subseteq fired,
           UNCHANGED <<host, db, car, owed, scan, granting, phase>>,
           relock' \in {relock, None}, stop' \in {stop, None},
           ~Open \/ UNCHANGED <<relock, stop>>
    PROVE  IInv'
  <1>1. ActuationTypeOK'
    BY ActuationAssumption
       DEF IInv, ActuationTypeOK,
           Cars, Phases, host, timers
  <1>2. Agreement'
    BY ActuationAssumption
       DEF IInv, ActuationTypeOK, Agreement, OwnerMeansUnlocked, FreshScanContext,
           GrantStillGood, CancelledFirst, Open,
           DrainedIsSecured, HostAgreesWithCar,
           Cars, Phases, host, timers
  <1>3. Countdowns'
    BY ActuationAssumption
       DEF IInv, ActuationTypeOK, Agreement, DrainedIsSecured, Countdowns, CountdownGuaranteed,
           RelockGuaranteed, EngineLimitGuaranteed, TimersWork, Open,
           Cars, Phases, host, timers
  <1>4. QED
    BY <1>1, <1>2, <1>3 DEF IInv, Agreement

(* stop_if_current                                                         *)
LEMMA StopCallbackStep ==
    ASSUME IInv, NEW t \in Timers, StopCallback(t), UNCHANGED risks
    PROVE  IInv'
  <1>1. CASE stop = t /\ Open
    BY <1>1, StopEngineStep DEF StopCallback
  <1>2. CASE ~(stop = t /\ Open)
    BY <1>2, IdleCallbackStep DEF StopCallback, host
  <1>3. QED
    BY <1>1, <1>2

(* relock_if_current, when its timer is still the armed one                *)
LEMMA RelockLocksStep ==
    ASSUME IInv, NEW t \in Timers, RelockCallback(t),
           relock = t, Open, UNCHANGED risks
    PROVE  IInv'
  <1>1. PICK sent \in BOOLEAN, saved \in BOOLEAN :
            /\ LockDown(sent, saved)
            /\ IF saved THEN Baseline ELSE relock' = None /\ UNCHANGED <<host, stop>>
            /\ fired' \subseteq fired /\ ~granting /\ UNCHANGED <<granting, phase>>
    BY DEF RelockCallback
  <1>2. Secures(car, sent, saved) /\ Outdate /\ owed' = (owed \/ ~sent)
    BY <1>1, Typed, DispatchEffect DEF LockDown
  <1>3. ActuationTypeOK'
    BY <1>1, <1>2, Typed, AimedCars, OutdateEffect, ActuationAssumption
       DEF IInv, ActuationTypeOK,
           Cars, Phases, host, timers, Secures, Baseline
  <1>4. Agreement'
    BY <1>1, <1>2, Typed, AimedCars, OutdateEffect, ActuationAssumption
       DEF IInv, ActuationTypeOK, Agreement, OwnerMeansUnlocked, FreshScanContext,
           GrantStillGood, CancelledFirst, Open,
           DrainedIsSecured, HostAgreesWithCar,
           Cars, Phases, host, timers, Secures, Baseline
  <1>5. Countdowns'
    BY <1>1, <1>2, Typed, AimedCars, OutdateEffect, ActuationAssumption
       DEF IInv, ActuationTypeOK, Agreement, DrainedIsSecured, Countdowns, CountdownGuaranteed,
           RelockGuaranteed, EngineLimitGuaranteed, TimersWork, Open,
           Cars, Phases, host, timers, Secures, Baseline
  <1>6. QED
    BY <1>3, <1>4, <1>5 DEF IInv, Agreement

(* relock_if_current                                                       *)
LEMMA RelockCallbackStep ==
    ASSUME IInv, NEW t \in Timers, RelockCallback(t), UNCHANGED risks
    PROVE  IInv'
  <1>1. CASE relock = t /\ Open
    BY <1>1, RelockLocksStep
  <1>2. CASE ~(relock = t /\ Open)
    BY <1>2, IdleCallbackStep DEF RelockCallback, host
  <1>3. QED
    BY <1>1, <1>2

(* A granted unlock has an owner, a countdown and a record.                *)
LEMMA UnlockGrantedStep ==
    ASSUME IInv, NEW u \in Users, NEW t \in Timers \cup {None}, NEW d \in Positive,
           UnlockGranted(u, t, d), UNCHANGED risks
    PROVE  IInv'
  <1>1. /\ scan \in ScanSessions /\ scan.purpose = "unlock" /\ scan.fresh
        /\ scan # NoScan /\ scan' = NoScan /\ granting' = FALSE /\ Open
    BY GrantContext DEF UnlockGranted
  <1>2. car' = Opened /\ owed' = owed /\ (TimersWork => d)
    BY DEF UnlockGranted, Command, Positive, TimersWork
  <1>3. /\ d \in BOOLEAN /\ (d => t # None)
        /\ db' = "unlocked" /\ owner' = u /\ delay' = d /\ relock' = t
        /\ UNCHANGED <<ignition, stop, fired, phase>>
    BY ActuationAssumption DEF UnlockGranted, NewTimer, Positive
  <1>4. ActuationTypeOK'
    BY <1>1, <1>2, <1>3, Typed, AimedCars, ActuationAssumption
       DEF IInv, ActuationTypeOK,
           Cars, Phases
  <1>5. Agreement'
    BY <1>1, <1>2, <1>3, Typed, AimedCars, ActuationAssumption
       DEF IInv, ActuationTypeOK, Agreement, OwnerMeansUnlocked, FreshScanContext,
           GrantStillGood, CancelledFirst, Open,
           DrainedIsSecured, HostAgreesWithCar,
           Cars, Phases
  <1>6. Countdowns'
    BY <1>1, <1>2, <1>3, Typed, AimedCars, ActuationAssumption
       DEF IInv, ActuationTypeOK, Agreement, DrainedIsSecured, Countdowns, CountdownGuaranteed,
           RelockGuaranteed, EngineLimitGuaranteed, TimersWork, Open,
           Cars, Phases
  <1>7. QED
    BY <1>4, <1>5, <1>6 DEF IInv, Agreement

(* An unlock whose countdown cannot be armed sends nothing.                *)
LEMMA UnlockNotArmedStep ==
    ASSUME IInv, NEW d \in Positive, UnlockNotArmed(d), UNCHANGED risks
    PROVE  IInv'
  <1>1. /\ scan \in ScanSessions /\ scan.purpose = "unlock" /\ scan.fresh
        /\ scan # NoScan /\ scan' = NoScan /\ granting' = FALSE /\ Open
    BY GrantContext DEF UnlockNotArmed
  <1>2. ActuationTypeOK'
    BY <1>1, Typed, ActuationAssumption
       DEF IInv, ActuationTypeOK,
           Cars, Phases, host, timers, UnlockNotArmed
  <1>3. Agreement'
    BY <1>1, Typed, ActuationAssumption
       DEF IInv, ActuationTypeOK, Agreement, OwnerMeansUnlocked, FreshScanContext,
           GrantStillGood, CancelledFirst, Open,
           DrainedIsSecured, HostAgreesWithCar,
           Cars, Phases, host, timers, UnlockNotArmed
  <1>4. Countdowns'
    BY <1>1, Typed, ActuationAssumption
       DEF IInv, ActuationTypeOK, Agreement, DrainedIsSecured, Countdowns, CountdownGuaranteed,
           RelockGuaranteed, EngineLimitGuaranteed, TimersWork, Open,
           Cars, Phases, host, timers, UnlockNotArmed
  <1>5. QED
    BY <1>2, <1>3, <1>4 DEF IInv, Agreement

(* A failed unlock owes a reset, or was the controller's at a locked car.  *)
LEMMA UnlockNotSentStep ==
    ASSUME IInv, NEW d \in Positive, UnlockNotSent(d), UNCHANGED risks
    PROVE  IInv'
  <1>1. /\ scan \in ScanSessions /\ scan.purpose = "unlock" /\ scan.fresh
        /\ scan # NoScan /\ scan' = NoScan /\ granting' = FALSE /\ Open
    BY GrantContext DEF UnlockNotSent
  <1>2. /\ car' \in Cars /\ owed' \in BOOLEAN
        /\ scan.source = "dashboard" => owed'
        /\ scan.source = "controller" => UNCHANGED <<car, owed>>
    BY <1>1, Typed, AimedCars, CommandEffect DEF UnlockNotSent, ScanSessions
  <1>3. /\ delay' = d /\ d \in BOOLEAN /\ relock' = None
        /\ UNCHANGED <<ignition, owner, stop, fired, db, phase>>
    BY DEF UnlockNotSent, Positive
  <1>4. ActuationTypeOK'
    BY <1>1, <1>2, <1>3, Typed, ActuationAssumption
       DEF IInv, ActuationTypeOK,
           Cars, Phases, host, timers, NoScan, ScanSessions
  <1>5. Agreement'
    BY <1>1, <1>2, <1>3, Typed, ActuationAssumption
       DEF IInv, ActuationTypeOK, Agreement, OwnerMeansUnlocked, FreshScanContext,
           GrantStillGood, CancelledFirst, Open,
           DrainedIsSecured, HostAgreesWithCar,
           Cars, Phases, host, timers, NoScan, ScanSessions
  <1>6. Countdowns'
    BY <1>1, <1>2, <1>3, Typed, ActuationAssumption
       DEF IInv, ActuationTypeOK, Agreement, DrainedIsSecured, Countdowns, CountdownGuaranteed,
           RelockGuaranteed, EngineLimitGuaranteed, TimersWork, Open,
           Cars, Phases, host, timers, NoScan, ScanSessions
  <1>7. QED
    BY <1>4, <1>5, <1>6 DEF IInv, Agreement

(* An unconfirmed unlock ends in the baseline, locked or with a reset owed. *)
LEMMA UnlockUnconfirmedStep ==
    ASSUME IInv, UnlockUnconfirmed, UNCHANGED risks
    PROVE  IInv'
  <1>1. /\ scan \in ScanSessions /\ scan.purpose = "unlock" /\ scan.fresh
        /\ scan # NoScan /\ scan' = NoScan /\ granting' = FALSE /\ Open
    BY GrantContext DEF UnlockUnconfirmed
  <1>2. PICK told \in {car, Opened}, sent \in BOOLEAN, saved \in BOOLEAN :
            ResetConnection(told, sent, saved) /\ owed' = (owed \/ ~sent)
    BY DEF UnlockUnconfirmed
  <1>3. Secures(told, sent, saved) /\ Baseline /\ UNCHANGED <<fired, phase>>
    BY <1>2, Typed, AimedCars, DispatchEffect DEF ResetConnection, UnlockUnconfirmed
  <1>4. ActuationTypeOK'
    BY <1>1, <1>2, <1>3, Typed, AimedCars, ActuationAssumption
       DEF IInv, ActuationTypeOK,
           Cars, Phases, Secures, Baseline
  <1>5. Agreement'
    BY <1>1, <1>2, <1>3, Typed, AimedCars, ActuationAssumption
       DEF IInv, ActuationTypeOK, Agreement, OwnerMeansUnlocked, FreshScanContext,
           GrantStillGood, CancelledFirst, Open,
           DrainedIsSecured, HostAgreesWithCar,
           Cars, Phases, Secures, Baseline
  <1>6. Countdowns'
    BY <1>1, <1>2, <1>3, Typed, AimedCars, ActuationAssumption
       DEF IInv, ActuationTypeOK, Agreement, DrainedIsSecured, Countdowns, CountdownGuaranteed,
           RelockGuaranteed, EngineLimitGuaranteed, TimersWork, Open,
           Cars, Phases, Secures, Baseline
  <1>7. QED
    BY <1>4, <1>5, <1>6 DEF IInv, Agreement

(* An unconfirmed start ends in the same way.                              *)
LEMMA StartUnconfirmedStep ==
    ASSUME IInv, StartUnconfirmed, UNCHANGED risks
    PROVE  IInv'
  <1>1. /\ scan \in ScanSessions /\ scan.purpose = "ignition" /\ scan.fresh
        /\ scan # NoScan /\ scan' = NoScan /\ granting' = FALSE /\ Open
        /\ owner # None /\ db = "unlocked" /\ ~ignition
    BY GrantContext DEF StartUnconfirmed
  <1>2. PICK told \in {car, Started}, sent \in BOOLEAN, saved \in BOOLEAN :
            ResetConnection(told, sent, saved) /\ owed' = (owed \/ ~sent)
    BY DEF StartUnconfirmed
  <1>3. Secures(told, sent, saved) /\ Baseline /\ UNCHANGED <<fired, phase>>
    BY <1>2, Typed, AimedCars, DispatchEffect DEF ResetConnection, StartUnconfirmed
  <1>4. ActuationTypeOK'
    BY <1>1, <1>2, <1>3, Typed, AimedCars, ActuationAssumption
       DEF IInv, ActuationTypeOK,
           Cars, Phases, Secures, Baseline
  <1>5. Agreement'
    BY <1>1, <1>2, <1>3, Typed, AimedCars, ActuationAssumption
       DEF IInv, ActuationTypeOK, Agreement, OwnerMeansUnlocked, FreshScanContext,
           GrantStillGood, CancelledFirst, Open,
           DrainedIsSecured, HostAgreesWithCar,
           Cars, Phases, Secures, Baseline
  <1>6. Countdowns'
    BY <1>1, <1>2, <1>3, Typed, AimedCars, ActuationAssumption
       DEF IInv, ActuationTypeOK, Agreement, DrainedIsSecured, Countdowns, CountdownGuaranteed,
           RelockGuaranteed, EngineLimitGuaranteed, TimersWork, Open,
           Cars, Phases, Secures, Baseline
  <1>7. QED
    BY <1>4, <1>5, <1>6 DEF IInv, Agreement

(* An unlock that is not recorded is undone, or owes a reset.              *)
LEMMA UnlockNotSavedStep ==
    ASSUME IInv, NEW t \in Timers \cup {None}, NEW d \in Positive,
           UnlockNotSaved(t, d), UNCHANGED risks
    PROVE  IInv'
  <1>1. /\ scan \in ScanSessions /\ scan.purpose = "unlock" /\ scan.fresh
        /\ scan # NoScan /\ scan' = NoScan /\ granting' = FALSE /\ Open
    BY GrantContext DEF UnlockNotSaved
  <1>2. PICK undone \in BOOLEAN :
            /\ IF undone
               THEN car' = [car EXCEPT !.locked = TRUE] /\ UNCHANGED owed
               ELSE /\ car' \in {[car EXCEPT !.locked = l] : l \in BOOLEAN}
                    /\ owed' = TRUE
            /\ relock' = IF undone THEN None ELSE t
    BY DEF UnlockNotSaved
  <1>3. /\ car' \in Cars /\ owed' \in BOOLEAN /\ relock' \in Timers \cup {None}
        /\ owed' \/ car'.locked
        /\ owed => owed'
    BY <1>2, Typed DEF Cars
  <1>4. /\ owner' = None /\ delay' = d /\ d \in BOOLEAN /\ "save" \in risks
        /\ UNCHANGED <<ignition, stop, fired, db, phase>>
    BY DEF UnlockNotSaved, Positive
  <1>5. ActuationTypeOK'
    BY <1>1, <1>3, <1>4, Typed, ActuationAssumption
       DEF IInv, ActuationTypeOK,
           Cars, Phases, host, timers
  <1>6. Agreement'
    BY <1>1, <1>3, <1>4, Typed, ActuationAssumption
       DEF IInv, ActuationTypeOK, Agreement, OwnerMeansUnlocked, FreshScanContext,
           GrantStillGood, CancelledFirst, Open,
           DrainedIsSecured, HostAgreesWithCar,
           Cars, Phases, host, timers
  <1>7. Countdowns'
    BY <1>1, <1>3, <1>4, Typed, ActuationAssumption
       DEF IInv, ActuationTypeOK, Agreement, DrainedIsSecured, Countdowns, CountdownGuaranteed,
           RelockGuaranteed, EngineLimitGuaranteed, TimersWork, Open,
           Cars, Phases, host, timers
  <1>8. QED
    BY <1>5, <1>6, <1>7 DEF IInv, Agreement

(* A granted start has its own timer and pauses the countdown.             *)
LEMMA StartGrantedStep ==
    ASSUME IInv, NEW t \in Timers \cup {None}, NEW l \in Positive, StartGranted(t, l), UNCHANGED risks
    PROVE  IInv'
  <1>1. /\ scan \in ScanSessions /\ scan.purpose = "ignition" /\ scan.fresh
        /\ scan # NoScan /\ scan' = NoScan /\ granting' = FALSE /\ Open
        /\ owner # None /\ db = "unlocked" /\ ~ignition
    BY GrantContext DEF StartGranted
  <1>2. car' = Started /\ owed' = owed /\ (TimersWork => t # None)
    BY ActuationAssumption DEF StartGranted, Command, NewTimer, Positive, TimersWork
  <1>3. /\ ignition' = TRUE /\ relock' = None /\ stop' = t
        /\ UNCHANGED <<owner, delay, fired, db, phase>>
    BY DEF StartGranted
  <1>4. ActuationTypeOK'
    BY <1>1, <1>2, <1>3, Typed, AimedCars, ActuationAssumption
       DEF IInv, ActuationTypeOK,
           Cars, Phases
  <1>5. Agreement'
    BY <1>1, <1>2, <1>3, Typed, AimedCars, ActuationAssumption
       DEF IInv, ActuationTypeOK, Agreement, OwnerMeansUnlocked, FreshScanContext,
           GrantStillGood, CancelledFirst, Open,
           DrainedIsSecured, HostAgreesWithCar,
           Cars, Phases
  <1>6. Countdowns'
    BY <1>1, <1>2, <1>3, Typed, AimedCars, ActuationAssumption
       DEF IInv, ActuationTypeOK, Agreement, DrainedIsSecured, Countdowns, CountdownGuaranteed,
           RelockGuaranteed, EngineLimitGuaranteed, TimersWork, Open,
           Cars, Phases
  <1>7. QED
    BY <1>4, <1>5, <1>6 DEF IInv, Agreement

(* A start whose time limit cannot be armed sends nothing.                 *)
LEMMA StartNotArmedStep ==
    ASSUME IInv, StartNotArmed, UNCHANGED risks
    PROVE  IInv'
  <1>1. ActuationTypeOK'
    BY ActuationAssumption
       DEF IInv, ActuationTypeOK,
           Cars, Phases, host, timers, StartNotArmed, Granting
  <1>2. Agreement'
    BY ActuationAssumption
       DEF IInv, ActuationTypeOK, Agreement, OwnerMeansUnlocked, FreshScanContext,
           GrantStillGood, CancelledFirst, Open,
           DrainedIsSecured, HostAgreesWithCar,
           Cars, Phases, host, timers, StartNotArmed, Granting
  <1>3. Countdowns'
    BY ActuationAssumption
       DEF IInv, ActuationTypeOK, Agreement, DrainedIsSecured, Countdowns, CountdownGuaranteed,
           RelockGuaranteed, EngineLimitGuaranteed, TimersWork, Open,
           Cars, Phases, host, timers, StartNotArmed, Granting
  <1>4. QED
    BY <1>1, <1>2, <1>3 DEF IInv, Agreement

(* A failed start owes a reset, or sent nothing; the engine was off.       *)
LEMMA StartNotSentStep ==
    ASSUME IInv, StartNotSent, UNCHANGED risks
    PROVE  IInv'
  <1>1. /\ scan \in ScanSessions /\ scan.purpose = "ignition" /\ scan.fresh
        /\ scan # NoScan /\ scan' = NoScan /\ granting' = FALSE /\ Open
        /\ owner # None /\ db = "unlocked" /\ ~ignition
    BY GrantContext DEF StartNotSent
  <1>2. /\ car' \in Cars /\ owed' \in BOOLEAN
        /\ scan.source = "dashboard" => owed'
        /\ scan.source = "controller" => UNCHANGED <<car, owed>>
    BY <1>1, Typed, AimedCars, CommandEffect DEF StartNotSent, ScanSessions
  <1>3. stop' = None /\ UNCHANGED <<host, relock, fired, db, phase>>
    BY DEF StartNotSent
  <1>4. ActuationTypeOK'
    BY <1>1, <1>2, <1>3, Typed, ActuationAssumption
       DEF IInv, ActuationTypeOK,
           Cars, Phases, host, timers, NoScan, ScanSessions
  <1>5. Agreement'
    BY <1>1, <1>2, <1>3, Typed, ActuationAssumption
       DEF IInv, ActuationTypeOK, Agreement, OwnerMeansUnlocked, FreshScanContext,
           GrantStillGood, CancelledFirst, Open,
           DrainedIsSecured, HostAgreesWithCar,
           Cars, Phases, host, timers, NoScan, ScanSessions
  <1>6. Countdowns'
    BY <1>1, <1>2, <1>3, Typed, ActuationAssumption
       DEF IInv, ActuationTypeOK, Agreement, DrainedIsSecured, Countdowns, CountdownGuaranteed,
           RelockGuaranteed, EngineLimitGuaranteed, TimersWork, Open,
           Cars, Phases, host, timers, NoScan, ScanSessions
  <1>7. QED
    BY <1>4, <1>5, <1>6 DEF IInv, Agreement

-----------------------------------------------------------------------------
(* The theorems *)

(* Every step of the host, and every stutter, keeps the invariant.         *)
LEMMA StepKeepsInvariant ==
    ASSUME IInv, [Next]_vars
    PROVE  IInv'
  <1>1. CASE UNCHANGED vars
    BY <1>1 DEF vars, IInv, ActuationTypeOK, Agreement, OwnerMeansUnlocked,
                FreshScanContext, GrantStillGood, CancelledFirst, Open, DrainedIsSecured,
                HostAgreesWithCar, Countdowns, CountdownGuaranteed, RelockGuaranteed,
                EngineLimitGuaranteed, TimersWork
  <1>2. CASE Next
    <2> USE <1>2 DEF Next
    <2>1. CASE \E source \in {"dashboard", "controller"}, purpose \in {"unlock", "ignition"} :
                 BeginScan(source, purpose)
      BY <2>1, BeginScanStep
    <2>2. CASE EndScan \/ BeginGrant
      BY <2>2, EndScanStep, BeginGrantStep
    <2>3. CASE Unlock
      BY <2>3, UnlockGrantedStep, UnlockNotArmedStep, UnlockNotSentStep,
         UnlockUnconfirmedStep, UnlockNotSavedStep DEF Unlock
    <2>4. CASE StartEngine
      BY <2>4, StartGrantedStep, StartNotArmedStep, StartNotSentStep,
         StartUnconfirmedStep DEF StartEngine
    <2>5. CASE IgnitionStop
      BY <2>5, IgnitionStopStep
    <2>6. CASE ForceLock
      BY <2>6, ForceLockStep
    <2>7. CASE TimerFires
      BY <2>7, FiresStep
    <2>8. CASE Callback
      BY <2>8, RelockCallbackStep, StopCallbackStep DEF Callback
    <2>9. CASE LoseLink
      BY <2>9, LoseLinkStep
    <2>10. CASE LinkReset
      BY <2>10, LinkResetStep
    <2>11. CASE \E u \in Users \cup {None} : Invalidate(u)
      BY <2>11, InvalidateStep
    <2>12. CASE Pause \/ CancelSessions \/ RequestMaintenance
      BY <2>12, PauseStep, CancelSessionsStep, RequestMaintenanceStep
    <2>13. CASE Quiesce
      BY <2>13, QuiesceStep
    <2>14. CASE Resume
      BY <2>14, ResumeStep
    <2>15. CASE Shutdown
      BY <2>15, ShutdownStep
    <2>16. QED
      BY <2>1, <2>2, <2>3, <2>4, <2>5, <2>6, <2>7, <2>8, <2>9, <2>10, <2>11,
         <2>12, <2>13, <2>14, <2>15 DEF Step
  <1>3. QED
    BY <1>1, <1>2

(* A host that has just started owes the reset that establishes the rest.  *)
LEMMA InitInvariant ==
    ASSUME Init
    PROVE  IInv
  <1>1. ActuationTypeOK
    BY DEF Init, ActuationTypeOK, Phases
  <1>2. Agreement
    BY DEF Init, Agreement, OwnerMeansUnlocked, FreshScanContext, GrantStillGood,
           CancelledFirst, Open, DrainedIsSecured, HostAgreesWithCar
  <1>3. Countdowns
    BY DEF Init, Countdowns, CountdownGuaranteed, RelockGuaranteed, EngineLimitGuaranteed,
           TimersWork
  <1>4. QED
    BY <1>1, <1>2, <1>3 DEF IInv

(* The inductive invariant holds in every behaviour.                       *)
THEOREM Invariance == Spec => []IInv
  BY InitInvariant, StepKeepsInvariant, PTL DEF Spec

(* Types; whoever may start the engine unlocked a car that is recorded     *)
(* unlocked; a scan that can still be granted saw owner and lock state;    *)
(* and what a grant has checked holds until it writes.                     *)
THEOREM OwnerAndScanAreCurrent == Spec => []ActuationInv
  <1>1. IInv => ActuationInv
    BY DEF IInv, Agreement, ActuationInv
  <1>2. QED
    BY <1>1, Invariance, PTL

(* Drained maintenance finds the car secured, recorded and without owner.  *)
THEOREM DrainedCarIsSecured == Spec => []DrainedIsSecured
  <1>1. IInv => DrainedIsSecured
    BY DEF IInv, Agreement
  <1>2. QED
    BY <1>1, Invariance, PTL

(* With a working database the host knows what it last told the car.       *)
THEOREM HostKnowsTheCar == Spec => []HostAgreesWithCar
  <1>1. IInv => HostAgreesWithCar
    BY DEF IInv, Agreement
  <1>2. QED
    BY <1>1, Invariance, PTL

(* While timers can be armed, no unlocked car is left without a countdown  *)
(* and no running engine without its limit.                                *)
THEOREM CountdownsAreGuaranteed == Spec => []CountdownGuaranteed
  <1>1. IInv => CountdownGuaranteed
    BY DEF IInv, Countdowns, CountdownGuaranteed
  <1>2. QED
    BY <1>1, Invariance, PTL

-----------------------------------------------------------------------------
(* Once maintenance is requested the car is only ever locked and stopped:   *)
(* a grant that could still write would have found the sessions cancelled.  *)
LEMMA NothingGranted ==
    ASSUME IInv, [Next]_vars, ~Open
    PROVE  (car.locked => car'.locked) /\ (car'.engine => car.engine)
  <1>1. CASE UNCHANGED car
    BY <1>1
  <1>2. CASE LoseLink
    <2>1. car' = car \/ car' = Stopped
      BY <1>2 DEF LoseLink, Stopped
    <2>2. QED
      BY <2>1, Typed, AimedCars
  <1>3. CASE LinkReset \/ Quiesce \/ (Shutdown /\ ~UNCHANGED car)
    <2>1. \E sent, saved \in BOOLEAN : DispatchLock(car, sent, saved)
      BY <1>3 DEF LinkReset, ResetConnection, Quiesce, Shutdown
    <2>2. QED
      BY <2>1, Typed, DispatchEffect DEF Secures
  <1>4. CASE Callback
    BY <1>1, <1>4 DEF Callback, RelockCallback, StopCallback
  <1>5. ~Unlock /\ ~StartEngine
    <2>1. ~granting
      BY DEF IInv, Agreement, GrantStillGood
    <2>2. QED
      BY <2>1
      DEF Unlock, UnlockGranted, UnlockNotArmed, UnlockNotSent, UnlockUnconfirmed,
          UnlockNotSaved, StartEngine, StartGranted, StartNotArmed, StartNotSent,
          StartUnconfirmed, Granting
  <1>6. CASE Next
    BY <1>1, <1>2, <1>3, <1>4, <1>5, <1>6
       DEF Next, Step, BeginScan, EndScan, BeginGrant, IgnitionStop, ForceLock, TimerFires,
           Invalidate, Pause, CancelSessions, RequestMaintenance, Resume
  <1>7. QED
    BY <1>1, <1>6 DEF vars

(* Once its flag is raised, which takes no lock, neither maintenance nor    *)
(* shutdown leaves a grant that unlocks the car or starts its engine.       *)
THEOREM MaintenanceOnlySecures == Spec => MaintenanceGrantsNothing
  <1>1. IInv /\ [Next]_vars =>
          [~Open =>
             (car.locked => car'.locked) /\ (car'.engine => car.engine)]_vars
    BY NothingGranted DEF vars
  <1>2. QED
    BY <1>1, Invariance, PTL DEF Spec, MaintenanceGrantsNothing

=============================================================================
