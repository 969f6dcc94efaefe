# A TLA+ verification of BASS

BASS is a car access system: a Raspberry Pi (the *host*) recognises a face and
tells an ESP32 (the *controller*) to unlock a car or to start its engine.
Phones and PCs reach the host over HTTPS or Bluetooth; a dashboard runs in the
browser.  This directory holds TLA+ modules of the parts in which the order of
events decides whether the car is locked, the TLC runs that check them, and
theorems that TLAPS proves about them.

Paths below are those of the repository.  `PROJECT.json` maps every definition
to the lines it stands for.

## 1. Inventory

| Component | State | Operations | Hard behaviour | Correct when |
|---|---|---|---|---|
| Controller firmware, `ESP32_Program/ESP32_Program.ino` | lock target, stepper, flash, engine, the one pending request, presence counters, scheduled ignition scan | `loop()`, serial commands, `AUTH` replies, `setup()` after a reset | deadlines against replies, retargeting in mid-move, reset in mid-move, a full UART buffer | it unlocks only when told, its reports are current, every request ends |
| Lock, ignition and timers, `car_face_auth/src/runtime_actuation.py` with `runtime_authorization.py`, `runtime_safety.py`, `safety_policy.py` | unlock owner, ignition flag, two timers, generation, recorded lock state | unlock, lock, start, stop, timer callbacks, quiesce, close, invalidate | stale timer callbacks, one of serial write, database and thread failing, maintenance in the middle of an operation | host and controller agree, an unlocked car has a countdown, maintenance grants nothing |
| Serial link, `car_face_auth/src/esp32_link.py` | connection, pending acknowledgement, last cancelled request, last STATE line | read loop, reply, authorize, reset of a new connection | acknowledgement after the wait, cancellation before it, connection replaced under a reply | a grant counts only when this connection acknowledged it |
| Scan and enrollment sessions, `car_face_auth/src/pi_runtime.py`, `camera_capture.py` | session records, the one slot, camera owner, capture thread, deferred cleanup | start, worker steps, cancel, revoke, force lock, quiesce, resume, close | four kinds of canceller against a worker, a camera that does not close | one outcome per session, the slot is freed, a cancelled scan is never granted |
| Enrollment receipts, `wireless/enrollment_requests.py` with `pi_device_api.py` | one row per request: accepted, active, completed, failed, cancelled, interrupted | reserve, activate, finalize, complete, interrupt after restart | replayed requests, an account that changes between acceptance and completion, crash | one terminal state, completed only with the saved face |
| Developer reset, recovery, power, `wireless/developer_reset.py`, `host_lifecycle.py`, `hardware_events.py`, `scripts/factory-owner-qr.py` | reset journal on disk and in memory, event gate, pending ownership change | execute, recover, power switch, offline tool | crash between two durable writes, a write that raises after it took effect, retries | at most one wipe per request, no service of a half-reset product |
| Commissioning, `wireless/commissioning.py`, `request_receipts.py` | generation, activation, recovery proof, receipts | claim, recover, reset | lost answers, replay with another body | one owner, a replay is answered and not repeated |
| Accounts and grants, `wireless/security*.py`, `authorization.py`, `local_security.py` | users, roles, devices, PIN and face lockouts, one-use grants, invitations, auth versions | claim, pairing, login, authorize, consume, revoke, account changes, recovery | a grant used after a role change, a principal read before the barrier, refusals that must still count a wrong PIN, limits | an authority is honoured only while what it rests on stands; only the owner reaches the owner |
| API barrier, `wireless/api.py`, `request_limits.py`, `server.py` | security lock, sliding windows, connection slots | one request | a request that passed the gate just before it closed | nothing runs while the product is in maintenance |
| Developer panel, `wireless/developer_control.py` | sessions of 30 minutes, at most 64 | login, button, power, reset | expiry against a pending reset | a reset's id survives until it is answered |
| Bluetooth gateway, `wireless/ble_gateway.py`, `ble_protocol.py`, `ble_http.py`, `ble_client.py` | tunnels and their generation, waiting writes, registration with BlueZ | open, data, close, poll, disconnect, deadline, shutdown | five threads on one tunnel, a deadline that fires late, a write retried into the next tunnel, shutdown during a registration | bytes arrive whole and in order, CLOSED comes last, no connection is left open |
| Host application, `bass_wireless.py` and configuration, TLS, mDNS | process lock, components in start order | start, shutdown | a start over an incomplete reset | refuses to serve it |
| Database, audit, migration, `db.py`, `event_log.py`, `scripts/migrate-face-templates.py` | SQLite tables | single transactions | a commit that raises after it took effect | all or nothing |
| PC client, `wireless/pc_client*.py`, `ble_client.py` | saved pairing, pending request, recovery card, connection, browser sessions | stage, connect, commission, retry, forget, login, proxy, export, acknowledge | lost and late answers, saves that fail, restarts, sessions that wait through a reconnection | nothing the product accepted is lost, a session never speaks for another pairing |
| Android application, `android-app/` | view model, scheduler, BLE transport, pairing store, PIN | one call at a time, pairing, enrollment polling | close against a pending call, late callbacks | every call ends, stale answers are dropped |
| Web dashboard, `src/` | enrollment polling, operation grants, reset id | poll, retry | an answer for a request that was replaced | the last request's state is shown |

How they interact.  The API and the dashboards call the runtime; the runtime
holds one re-entrant actuation lock around every change of the car and one
around sessions.  The link thread reads the controller and calls back into the
runtime (`handle_esp32_trigger`, `cancel_esp32_scan`, `sync_esp32_state`).
Account changes call `invalidate_authorization`.  The lifecycle lock serializes
reset, recovery and power, and each of them quiesces the runtime first.  The
database is shared by all of it; the reset journal is a file beside it.

## 2. Plan

Modelled first is what moves the car, then what decides who may ask.

| Order | Module | Composes | Status |
|---|---|---|---|
| 1 | `Controller`; `Requester`, which it implements over its serial line | - | checked, safety and refinement proved |
| 2 | `Actuation` | abstracts the controller to what it was told | checked, safety proved |
| 3 | `FaceSessions` | takes a lock of `Actuation` as one step | checked, safety proved |
| 4 | `HostLifecycle`, `ResetContract` | implements `ResetContract` | checked, safety and refinement proved |
| 5 | `SerialLink` | `Requester` with the link's request and acknowledgement bookkeeping: the host grants only what the car did, and both agree again after every failure | checked, safety proved |
| 6 | `SecurityStore`: accounts, roles, devices, grants, lockouts, ownership | - | checked, safety proved |
| 7 | `EnrollmentRequests`, `EnrollmentOutcome` | extends `SecurityStore`; implements `EnrollmentOutcome` | checked, safety and refinement proved |
| 8 | `BleGateway`, `ByteTunnel` | implements `ByteTunnel` | checked, safety and refinement proved |
| 9 | `PcClient` | takes of the product what decides its answers | checked, safety proved |
| 10 | `ApiScheduler` and `BleTransport` of the Android application | - | not written |

Liveness and safety of one module share a run where the state space allows it.
Every safety property that a passing run checks is proved.

## 3. The modules and the code

### Controller

The sketch is one `loop()`.  Each piece of a pass is an action (`StepMotor`,
`PollSensor`, `CheckAuthTimeout` and one `Handle...` per serial line); the clock
may move between any two, so that every order of the deadlines occurs.  Elapsed
time is a state (`EXPIRED`, `rearmable`, `elapsed`) and no number.  `rx` and `tx`
are the two directions of the serial line; `Send` blocks while the transmit
buffer is full, as `Serial.print` does.  `Reset` loses the RAM and keeps the
flash; what the shaft really turned is `count + drift`, which no sensor
measures.  `Host` stands for every host: it may write any line with any id.
`AUTH_PENDING` restarts the deadline of the request that waits (`HandlePending`), as
`authStartedAt = millis()` does, so a host that repeats it for ever keeps that request
waiting for ever; `RequestsResolve` excuses exactly this and no other line.

### Requester and ControllerRequests

`Requester` is what the controller promises whoever talks to it: the request
that waits, the lock target, the engine and the two directions of the line,
without the stepper, the sensor, the flash and the clock.  A request is asked
with a new id, is acted on at most once and only for the reply that names it, and
ends with one line or none.  `ControllerRequests` maps `Controller` to it; the ids
ever used are those below the boot's counter and those of earlier boots.

### SerialLink

`SerialLink` takes `Requester` for the controller and adds `Esp32Link` with the
parts of `PiRuntime` that the link thread and the scan worker call, one scan from
`START_AUTH` to the host's record of it.  `reader.at` is where the link thread stands
in `_run`: it has the connection (`got`) before it adopts it, and holds no lock while
it reads.  `session.step` is where the worker stands.  The actuation lock is not a
variable: the worker holds it exactly in `LockSteps`, and whatever needs it waits for
`LockFree`.  The link's own lock is held for a moment, one action.  `port` numbers the
connections, so that a reader or a request of an old one is told apart; `CutAfter`
lets a failed write deliver any part of what was sent.  Recognition is a choice, and
so are the reasons to refuse a request.  Two variables belong to no code: `acted`
counts what the controller did, and `rebooted` remembers a restart the host cannot
see.

### Actuation

`RuntimeActuation` and the parts of `PiRuntime` that start and grant scans hold one
re-entrant lock, so an operation is an action.  A grant is two: `BeginGrant` holds the
lock and has made its checks (`granting`), `Unlock` or `StartEngine` writes and records.
What needs no lock comes between them: a lost link, a deadline, and
maintenance.  `quiesce` and `close` refuse new sessions (`Pause`), cancel those that run,
each under the lock (`CancelSessions`), and only then raise `_maintenance_requested`, which
takes no lock (`RequestMaintenance`); the drain takes the lock again (`Quiesce`).
The failures of an operation are choices inside
the action, in the order of the code: a write that fails may or may not have
reached the controller (`Command`, `DispatchLock`), then the database may refuse.
A scan asks what the code asks: the owner and the recorded lock state, not the car.  With the
risk `crossed` a controller's request may have been printed before an unlock from the
dashboard reached it, and be read after.
`fired` holds callbacks that wait for the lock when their timer is cancelled or
replaced.  `owed` is the reset that the link performs on a new connection; any
failed write closes the port and makes it true.  `scan.fresh` stands for the
comparison of generations.  `car` is what the controller was last told, not what
it did.

### FaceSessions

One step is what one thread does without giving up the locks it needs.
`worker[s]` is where a session's thread stands (`begin`, `open`, `opening`, `start`,
`loop`, `grant`, `close`, `defer`), `caller` the one thread in `force_lock`,
`sync_esp32_state`, `quiesce` or `close`.  The camera is opened outside the locks,
so `Open` checks and `Opening` acts.  `receipt[s]` is the durable row of an
enrollment, written before the session's own state.  `cleanup` is the one
deferred camera cleanup.

### HostLifecycle and ResetContract

`op` is the operation under `lifecycle_lock`, cut where it writes something
durable or can fail, so that `Crash` comes between any two such steps.  A journal
write that fails may have replaced the file (`NotWritten`), because
`write_private_file` can raise after `os.replace`; a commit that raises may have
happened (`WipeProduct`).  `disk` and `journal` are the two copies.  A product
request holds the security barrier from its look at the gate to its end and is
one step.  `RunTool` is `factory-owner-qr.py reset` on a stopped host, `Boot` an
ordinary start, which refuses while the journal names an active reset.
`ResetContract` is what a reset promises: one wipe per request, no receipt before
it.  `Contract` is the refinement mapping: the receipts in the database are the
wipes that happened.

### SecurityStore

One action is one transaction of `SecurityStore` or `CommissioningStore`, with
what the triggers of `security_schema.py` and `_apply_identity_change` take along: a
new role, PIN or deletion raises the account's version and removes grants,
invitations and devices that rest on it (`Bumped`, `PinReplaced`, `GrantsWithout`).  A
protected request is one step as well, since it holds the product barrier from
`_require_principal` to its last write.  The principal itself is read before that
barrier (`Arrive`); `caller` is a request between the two, and everything may happen
to its account meanwhile.  `Authorize` compares a PIN and issues a one-use grant;
the operation that spends it is a step of its own with the guards of both.  A wrong
PIN is counted by a step that commits and then refuses (`WrongPin`); `wrong` counts
what was guessed, whatever the row says.  `sound` in a grant or invitation is a
history: it turns false when a fact changes that the issuer looked at, so
`AuthorityIsCurrent` says that what is still honoured is still sound.  Time is
not counted: what can expire may expire at any moment.

### EnrollmentRequests and EnrollmentOutcome

`EnrollmentRequests` extends `SecurityStore` with the receipts of
`EnrollmentRequestStore` and the runtime's sessions for them.  `Request` is the reservation
of a receipt with its grant, `Dispatch` the session that is started for it while the
barrier is still held, `SaveFace` the commit that authorizes both the actor and the
target again and writes the template and the receipt together.  `Crash` may come
anywhere; `Boot` is the start with `interrupt_pending`.  `EnrollmentOutcome` is what
the phone may rely on; `trust` is the history it speaks of, the requests whose
authority has held since they were accepted.  What the session does with the camera
is `FaceSessions`' subject.

The write of a receipt's end is a transaction that the database may refuse (`Finalize`): the session
ends all the same, and `refused`, a history, remembers the request until the host is
started again.  A cancellation whose write is refused changes nothing.

### BleGateway and ByteTunnel

A step is one critical section under `peer.condition` or `_lock`, or one blocking call
on a socket.  `tunnel[g]` is the `_Peer` of generation `g` with the place where each of its
threads stands: connector, reader (`looking`, `receiving`, `ending`), writer, deadline
(`armed`, `firing`).  The GLib thread runs GATT callbacks, signals and the 100 ms retries of
waiting writes one after the other, so `Write`, `Retry`, `Read` and `Disconnect` are whole.
`Disconnect` and `CloseEnds` take a tunnel out of the registry in one critical section and
terminate it in another; only the connector looks at the registry in between, and it leaves
the same behind whether it finds itself unwanted before the end or after it.
The deadline looks at the tunnel and poisons it in two steps, as the code does.  `service` is
`serve`: the application, the advertisement, a shutdown that waits for a pending
registration, and `close`.  `ByteTunnel` is the pipe both ends believe in; the refinement
mapping takes the chunks sent, received and what the phone was told.

Left out: the code in an ERROR frame; writes before the advertisement is
registered; fields of ended tunnels that nobody reads (they are set to one value, so
that ended tunnels look alike).

### PcClient

`mem` and `disk` are the two copies of the saved state, which differ exactly when a
save fails between an assignment and its write.  `step` is where the holder of the
setup lock stands in a commissioning request: sent and waiting (`await`), answered
(`completed`, `invalid`, `refused`), saved and signing in (`authenticate`).  A
request can reach the product after the client has given up on it (`flight`), be handled
more than once, or be lost.  `tab[t]` is a browser thread that has read its credential
scope and waits for the lock, or a session that is signed in; `current` says whether the
connection epoch it read is still the client's.  Of the product it has what decides its
answers: the recovery secret it accepts, open invitations and activations, devices and
receipts.  Three variables belong to no code: `forgotten` and `exported` are what the user did,
`unsaved` the requests that were sent while the file did not hold them.

Left out: the choice among several products (a saved pairing pins one), display names, the
grants that a PIN buys (they are spent before anything is sent), and `close` as something
other than the end of the process.

## 4. The runs

Each property has a mutant of the code that breaks it under the same
configuration; the mutants stand beside the definitions they change, with the
word *Mutant* in their comment, and no specification uses them.

| Run | Shows |
|---|---|
| `controller` | under any host and one reset anywhere: a waiting request and a scheduled scan fit the lock, only a reset in mid-move loses the shaft position, the car unlocks only when told; over its serial line it implements `Requester`; a request ends, unless `AUTH_PENDING` for that very request keeps restarting its deadline; a scheduled scan is issued or called off |
| `serial_link` | the host grants only what the controller did; with the link up and the line quiet both agree on lock and engine; the worker is woken before the link thread waits for its lock; every scan ends; a recorded lock arrives |
| `actuation` | unless the link owes a reset, host and controller agree on lock and engine (database works); no unlocked car and no running engine without its countdown (timers can be armed, no crossed request); under every fault an owner means an unlocked record, a fresh scan has the present context, what a grant has checked still holds when it writes, drained is secured, and from the moment the flag of maintenance is raised nothing unlocks or starts; with scans over, the car ends locked with the engine off |
| `actuation_relock_running` | **violated**: a second unlock scan during a drive arms a countdown |
| `face_sessions` | camera and slot agree, drained is quiet, nobody is left waiting, an outcome is decided once, nothing unsaved is called completed; and while receipts can be written they follow the sessions |
| `face_sessions_live` | with every kind of caller and a capture thread that stops late, while receipts can be written and the camera closes: a lock, link reset, quiesce or close reaches the actuator; every session gives the slot back, unless a drain missed a thread |
| `face_sessions_close` | **violated**: a receipt that cannot be written keeps `close` from locking the car |
| `enrollment` | whenever the host answers, a pending receipt has a session or the write of its end was refused; a repeated request spends one grant and gets one session; a face is saved only under an authority that never lapsed (`EnrollmentOutcome`); every receipt is settled, crashes included, a refused one at the latest when the host starts again |
| `host_lifecycle` | a wipe is journaled until completed, happens drained, what is available is whole; the contract is implemented; in behaviours without a recovery a failed reset keeps the product closed, and a retried one ends |
| `security_store` | a grant or invitation that would be honoured rests on facts unchanged since its issue; wrong PINs and devices are counted through every refusal; the owner stays an administrator with at most one other; nobody but the owner, a recovery or a reset changes the owner |
| `ble_gateway` | both ends see a pipe that loses, doubles and moves nothing and tells CLOSED last; no connection to the server outlives its tunnel; a shutdown leaves no registration pending; every exchange, waiting write and shutdown ends |
| `pc_client` | the saved state can always be loaded; a request for a browser session goes out with the token of the pairing it was opened for; no recovery secret and no device token the product accepted is lost, unless the request was sent unsaved |

Five more configurations end in a counterexample too.  They are kept for the traces
section 6 tells, each on the smallest instance that has it:

| Configuration of | Violates | Because |
|---|---|---|
| `ActuationCrossed.cfg` of `MCActuation` | `UnlockRelocks` | a grant that is cancelled after it replaced a running countdown leaves the unlocked car with none |
| `FaceSessionsLate.cfg` of `MCFaceSessions` | `SlotComesFree` | with maintenance in between a slot is never given back |
| `HostLifecycleRecovery.cfg` of `MCHostLifecycle` | `FailureKeepsMaintenance` | a recovery opens the product that a failed reset must keep closed |
| `HostLifecycleStuck.cfg` of `MCHostLifecycle` | `RetriesEnd` | after such a recovery the retries of a committed reset need not end |
| `PcClientUnsaved.cfg` of `MCPcClient` | `AcceptedWasSaved` | a request whose save failed is sent from memory, and its secret is lost with a restart |

### Bounds

- `Controller`: one reading that decides, a travel of two steps (so that a move can
  be retargeted and cut in the middle), two requests per boot (an old and a new
  id), one reset (ids of an earlier boot), one line in each direction (a full
  buffer).  They matter only through "in between" and "at the limit"; how many
  readings it takes only delays the moment somebody counts as present, and no
  property speaks of that moment.
- `SerialLink`: two requests (an old and a new one), one failed write, read or
  restart, at any moment (the failure, and the recovery over a new port), two
  lines printed and not yet read.  Nobody starts another lock while two lines are
  under way to the controller; those of replies and resets are not bounded.
- `Actuation`: three timers - one armed, one whose callback is late, one new -
  and two people, as an invalidation may hit the owner or another.
- `FaceSessions`: two sessions: the one in the slot and the one whose thread or
  camera is late.  One caller at a time; a second one waits for the same locks.
  `face_sessions_live` has no sensor scans, which differ from the others in what their
  controller is told, and only a capture thread that stops late: a refused receipt
  (`store`) makes a cancelled session stay and a close end before its lock
  (`face_sessions_close`), and a camera that refuses to close (`teardown`) keeps its
  session in the slot, as it should.  Maintenance can lose a slot too: `SlotIsFreed`
  leaves out the behaviours in which a drain missed a thread (`ThreadUnseen`), and
  only those.
- `SecurityStore`: three accounts (the owner, the second administrator, and the one
  who wants to be), three devices, one device and one grant per account, two
  changes of identity, two open grants or invitations.  The profiles say which
  operations meet in one behaviour: each takes those that touch the same rows
  (roles, invitations, PINs and access, devices, recovery, an older database).
- `EnrollmentRequests`: two accounts with a device each, two requests (the same
  one repeated, and another), one change of identity, one crash.  Any write of a
  receipt's end may be refused, any number of times.
- `BleGateway`: three scenes - one tunnel with two chunks each way and a service
  that may stop, two devices that want the one place there is, one device that
  opens again while threads of its first tunnel are at work - with a buffer of one
  chunk, so that it is full at once.
- `PcClient`: two requests (a late one and its successor; an activation and the
  recovery that follows), one browser thread, two secrets issued by the product.  The
  proofs cover any number of each.
- `HostLifecycle`: two resets (one active, one repeated), two recoveries (the
  pending one and another), four faults together, so that a failure, the failure
  of its handler, a crash and a failure of the retry fit in one behaviour.  The
  two configurations with a counterexample have one of each, which is all that their
  traces need.

What may fail is chosen once per behaviour (`risks` in `Actuation`, `faults` in
`FaceSessions`), from a few sets the configuration names, because some properties
hold only where the database works or timers start: each states the risks it
excludes, and one run covers all the sets.

Deadlock is checked in `controller` and in `pc_client`, where something can always
happen.  Elsewhere the environment may stop asking, and ids that are used once run out.

### Fairness

- `controller`: `loop()` runs every piece of a pass again and again, time
  passes, and the host takes what was printed.  It owes no line.  Time passes
  means that the deadline of a waiting request is reached again and again
  (`AuthDeadline`), and a line handled before the loop looks may put it off again.
- `serial_link`: the link thread and the worker run, a read from a closed port
  fails, the wait for an acknowledgement ends (after two seconds), the controller's
  loop takes its lines and ends its request, and a port can be opened.  Nothing
  fails for ever: failures are bounded.
- `actuation`: deadlines pass and callbacks get the lock.  The link retries
  for as long as the process runs, so not all of its retries fail: strong
  fairness on a reset that succeeds.
- `face_sessions_live` and `FaceSessionsLate.cfg`: threads that run get on with
  it.  Nobody has to cancel.
- `enrollment`: the runtime's threads run, and systemd starts a dead host again
  (`Restart=`).  Crashes are bounded.  No write is bound to succeed: a receipt whose
  end is refused is held up for as long as that host lives (`HeldUp`).
- `ble_gateway`: connector, writer and deadline run on, calls on sockets have time
  limits, the retry timer and the GLib loop run.  Nothing makes the web server answer or
  the phone poll: the 60 s deadline ends their silence.
- `host_lifecycle` and `HostLifecycleStuck.cfg`: an operation under way goes on.  Whoever asked for a
  reset repeats it until answered; that is what the dashboard's stored request id
  and the operator's manual say.  Faults are bounded, as a fault that comes back
  for ever keeps any system from its end.

## 5. The proofs

The modules whose names end in `Proofs` hold the theorems; they hold for all
values of the constants that satisfy `ControllerConstants`, `RequesterAssumption`,
`SerialLinkAssumption`, `ActuationAssumption`, `FaceSessionsAssumption`,
`HostLifecycleAssumption`, `SecurityStoreAssumption`, `EnrollmentAssumption`,
`PcClientAssumption` and `GatewayAssumption`.

**Controller.** The inductive invariant `CtlInv` is the type invariant with
`ReportCurrent`, `WaitingFitsLock`, `AutoIgnitionFits` and `FlashCurrent`: the four
support each other.  A waiting request fits the lock because the sensor is only
polled with the stepper at rest and because each of `LOCK`, `UNLOCK` and `STOP` cancels it;
the position is kept at rest because flash and counter agree there.  From it
follow the two action properties `PositionKeptAtRest` and `UnlocksOnlyWhenTold`.

**ControllerRequests.** `KeepsThePromise`, in `ControllerProofs` too, is the refinement.  Beside `CtlInv` it
needs that the id is empty exactly while nothing waits (`PendingIdFits`), by which
`Requester` tells the two apart.  The stepper, the sensor and the deadlines that
pass are stutters (`SilentStep`); an authorized reply fits because of
`WaitingFitsLock`, which is why one line of `Requester` stands for the four branches
of `acceptAuthorizedReply`.

**SerialLink.** `GrantsWereActed` rests on where acknowledgements can be (`LinkInv`): one
on the line, or taken for the wait, belongs to a request that was acted on; and from
its reply on the worker's wait is for its own request.  Most steps do
no more to line and wait than to lose something (`Keeps`), and one lemma says that
the invariant survives those; only reading a result, installing a wait, judging it
and the controller's own steps need more.

`LinkAlwaysAgrees` needs to know what the car will be once it has taken the lines that
are under way (`Agreed`): as recorded, or, between the acknowledgement and the
worker's record of it, as it will be recorded (`StateFits`).  For that an `AUTHORIZED` on the
line is the worker's own with no command after it, or a STOP and a LOCK follow it,
or the worker is about to send them (`CommandsFit`).  All of this holds only while the
link may write (`Synced`): whatever breaks it closes the port, and a new connection is
reset, which puts both commands on the line (`Secured`), before anything else is said
over it; that a reset cannot be skipped is `ConnFits`.  That no `AUTHORIZED` is there twice, or for
a request that was answered before, is `AskedFits` and `QuestionsFit`: a request is
asked once, and a question that nobody has read comes after everything that was said of
the others.  Numbers are needed too, as the types bound the connections by the
failures (`PortsFit`).  `ReaderAlwaysFreeForAck` follows from `WakeFits`: a cancellation wakes the
wait it is for before it takes the lock, and a wait that was not woken is for the link's
own connection.

**Actuation.** `IInv` is the types with `Agreement` (the invariants on owner,
scan, grant, drained maintenance and agreement, inductive together with the types)
and `Countdowns`.  The two guarantees of a countdown need two facts that no run
asks for: what is unlocked for good has a delay configured and a record that says
unlocked, which is what the engine stop looks at before it resumes the
countdown; and a controller's unlock scan stands before a locked car, so that
its grant, when it fails without having sent anything, has not cancelled the
countdown of an open one.  There is one lemma per action, and `Secures` says once what
STOP, LOCK and the record do whichever of them fails.
`MaintenanceGrantsNothing` is about a flag that is raised without the lock, so a grant may be past
its own look at it when it is raised.  What excludes that is the order of `quiesce` and
`close`: the sessions are cancelled before, under the lock, so no grant is under way from then
on (`CancelledFirst`, in the invariant as the `Open` of `GrantStillGood`), and a
cancelled scan is not granted any more (`GrantContext`).

**FaceSessions.** None of the invariants is inductive.  `IInv` says for each place where a
session's thread can stand (`RowFits`) what slot, state, waiting controller and receipt
may be there: in service a thread between `open` and `grant` holds the slot; a session
that maintenance has forgotten is marked cancelled, so that its thread leaves when it
gets to look (`Stale`); a controller waits only for a session that is live and
uncancelled before its grant; and a live enrollment's receipt is exactly as far as its
thread.  `CameraFits` adds that whoever has the camera has got as far as opening it.  With
these, `SessionsInv`, `NobodyLeftWaiting` and `ReceiptIsTrue` are conjuncts or follow at
once.  `OutcomeIsFinal` needs one more look at every action that ends a session: each of
them asks first, under the same lock, whether it is still live.

**SecurityStore.** The counter of an account is the number of wrong PINs since the last
right one, or the account is locked (`AccountFits`).  For `AuthorityIsCurrent` the
proof shows more than the run asks: *every* grant that is left is sound, whether it would
be honoured or not (`GrantFits`), because each change removes the grants that rest on
it in the same transaction.  Invitations are not removed; one that is no longer sound
carries a version that its issuer no longer has and can never have again
(`InviteFits`), since versions only grow.  That in turn needs that no row is given out
twice: an account that was never created has version 1, no grants and no invitations.
`Slots` counts the devices of an account, revoked ones included, through eviction and
pairing.  `OwnerKeepsControl` follows by going through the actions: what changes the owner's
version or revokes a device of the owner is either refused by `RoleAllows` or spends a grant
that only the owner's own sign-in issues.

**EnrollmentRequests.** Its theorems stand in `SecurityStoreProofs`, since it extends
the store.  `EInv` adds to the store's invariant that a pending receipt names rows that exist and
versions they have had, that what was refused has no session left and is not completed, and
that the authority of a pending receipt either has held since it was
accepted or has lapsed *visibly*: a version has grown or the device is no longer active
(`PendingFits`).  That is why comparing versions in the commit is enough, and what fails
in the mutant that compares the actor's only.  `Ages` states what the proof needs of the
store: a step that changes anything of an account's standing raises its version,
templates only go, and a device that changed is revoked or gone.  The reset of the product
is the exception, and `Empty` says that it leaves no account active, no face and no open receipt.
`OutcomeIsImplemented` then takes each step to one of `EnrollmentOutcome`: a restart
ends all pending receipts at once (`End`), every other change of accounts is a
`Lapse`, a reset is `Forget`.

**HostLifecycle.** Neither `WipeIsJournaled` nor the contract is inductive.
`Records` adds what each stage of a reset knows: the journal in memory names the
request from the first stage on, the one on disk from the stage `copy` on (not
before: a retry may find a preparation that was never written), the database
has its receipt exactly after the wipe, and in both copies every receipt of the
database is kept or belongs to the active reset.  The same fact about the disk is
what a restart, which reads its journal from there, begins with.  `Gate` adds why
the product is closed: a stage of a reset and a recovery each imply maintenance,
the wipe's stages a drained runtime, and the last stage a running one, so that
whatever opens the gate opens it over a product that works.  The types are proved
first (`HostTypeOK` is inductive by itself), then `Records` and `Gate` with one
step per action; `StepsApart` says that only `WipeProduct` moves the generation, and
the refinement and `WipesDrained` follow from it.

**PcClient.** `PcInv` and `NothingIsLost` follow from one inductive invariant, `IInv`.
The file differs from memory only by a request whose save failed or by a recovery
card whose removal was not saved (`FileFollows`), and who is signed in is the saved pairing
(`LinkFits`).  A generation belongs to one pairing (`ThreadsKnow`): a browser thread that
waited through a reconnection, a forget and a new pairing and still finds its
generation unchanged still has its pairing.  A card that is not open never opens
again (`CardsAreOnce`), so the late copy of a request for it is refused whenever it
arrives.  And a request that may still be accepted, or was, is in the file as
pending, or was kept as a pairing whose secret is in the file or exported
(`Covered`); `Ordered` says in which order a request is asked, saved, sent and granted.
Most steps are `Quiet`, they leave what was saved, sent and accepted alone, so each
conjunct is shown once for them and then for the few that are not
(`QuietOrNot`); `ProductOnlyTakes` and `HandlingGrants` say once what the product can do
to the cards.

**BleGateway.** Four threads, the phone and the server touch a tunnel, but nearly every
step touches only one.  So the inductive invariant is mostly a predicate `Fit` of three
records: the tunnel, what the server has of it and what the phone has of it; each thing
that can happen to them is a lemma of its own.  `ThreadsFit` says which threads, outcomes
and connections go together: an attached tunnel is not over, an end that was asked for
belongs to a tunnel that is not over, and a released one has nothing left.  `UpFits` is the
uplink: what the phone sent is what the server has, the chunk in the writer's hand and the
queue, in this order, with the mark of the end behind all of it; `bytes` counts hand and
queue.  `DownFits` is the same for the other direction, with room for the chunk a reader
is waiting for, and an end of the stream after every chunk.  `Registry` adds that a tunnel
that was opened is registered, gone, or closed and told so.  `GatewayInv` follows with
cardinalities for what is queued (`UnsentIsCounted`); for the refinement only the writer
that sends, the server that sends, an answered write and a read are seen from outside, and
CLOSED is told of a released tunnel, whose hand and queues are empty.  `Devices` is assumed
not empty, since two of the scenes are about one device.

Only model-checked: all liveness (with `ResetEnds`, and what it says of a failed reset
in behaviours without recoveries), which is out of the prover's reach.

## 6. What the code does and its documents do not say

TLC shows each of the first seven: 1 and 3 in a run, with the quoted line under
"findings" in `PROJECT.json`, the others with the configurations named here:

1. `actuation_relock_running`: the comment at the engine start says that no
   relock countdown runs with the engine; a second unlock scan arms one.
2. `ActuationCrossed.cfg`: `docs/android-wireless.md:587-588` says that an unlock without ignition
   re-locks after the configured delay.  A controller's unlock request that crossed an unlock
   from the dashboard is granted over it: the grant replaces the countdown that runs by its
   own, the controller's cancellation makes it give that one up, and none is left.
3. `face_sessions_close`: the docstring of `close` says stop, lock, then release;
   an enrollment receipt that cannot be written ends it before the lock.
4. `FaceSessionsLate.cfg`: a session is to keep the camera until a blocked read has released the
   device (`backend-camera-preview-plan.md:18-19`), and no longer.  A session's thread that starts only after maintenance has
   come and gone occupies the one cleanup thread; the next session, whose capture stops late
   too, finds it taken (`_defer_camera_cleanup` returns), and its slot is never given back.
5. `HostLifecycleRecovery.cfg`: `docs/android-wireless.md:198-200` keeps a product closed after a failed
   reset.  An owner recovery whose own drain failed, repeated after a reset failed before its
   commit, clears the maintenance flag both share.
6. `HostLifecycleStuck.cfg`: the same document says to retry the same reset.  A reset committed over
   a product that a recovery has opened can meet a runtime that is paused and not drained:
   `_finish_committed` only reloads, so its retries fail for as long as the host runs.
   `ResetEnds` therefore speaks of behaviours without recoveries.
7. `PcClientUnsaved.cfg`: `docs/pc-bluetooth.md:115-116` says that commissioning writes save request id
   and credentials before sending.  When the save in `commission` fails, memory keeps the
   request, and `retry_commission` (`wireless/pc_client.py:477`) sends it without saving it: a
   claim and then a restart lose the device token and the new recovery secret.
   `NothingIsLost` leaves out exactly these requests (`unsaved`).

Others appeared in TLC while the modules were written and are built into what the
properties say:

8. A command that fits no position any more: after a reset in mid-move the next
   command turns the shaft past its end, because the flash holds the last position
   at rest.  `PositionKeptAtRest` speaks of steps at rest only.
9. `invalid_recovery` does not clear a pending recovery request, and neither
   staging another card nor forgetting is allowed while one is pending: a wrong
   recovery card cannot be replaced.  A pairing that was revoked before its recovery
   card was downloaded can neither export, acknowledge nor be forgotten.

## 7. What is not modelled

Faces, embeddings and thresholds: a match is a choice.  Frames, previews, the
LCD and engine speed, log lines, wording, QR images, certificates and mDNS.
Single database transactions are steps that happen, roll back, or happen and
raise.  Passwords and signatures belong to libraries.  Simulated runtimes and the
mock API stand in for hardware on a PC.

Of `SecurityStore`: `initial_admin` (its route answers 410), rows of databases older
than `user_security`, what `settings.update` writes, and the texts and codes of
refusals.  Of the gateway: the fragment format of `ble_protocol.py`, BlueZ.  Of the PC
client: the loopback server's routes, the images of cards, TLS inside the tunnel
(`ble_http.py` is the standard library's HTTP over a stream).  `request_limits.py` and
the connection limits of `server.py` count under one lock what nothing else reads.

The Android application and the web dashboard are not modelled: the requests they send
are inputs of the host's modules, which accept any order and any repetition of them.
Their own concurrency is in Kotlin coroutines and React effects, of which
`ApiScheduler.close` against a submission is the case worth a module.

The components with status
`not_modelled` in `PROJECT.json` are in the plan where they have behaviour worth
checking.
