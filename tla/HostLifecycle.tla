---------------------------- MODULE HostLifecycle ----------------------------
(***************************************************************************)
(* The three operations that stop the whole product - a developer reset,   *)
(* an owner's recovery and the simulated power switch - over the runtime's *)
(* maintenance, the event gate, the database and the reset journal; with   *)
(* crashes, restarts, and the offline tool that resumes a reset.           *)
(*                                                                         *)
(* lifecycle_lock serializes the operations: op is the one that holds it.  *)
(* An operation is cut where it writes something durable or can fail.      *)
(* Product requests run in between; each is one step, because it holds the *)
(* security barrier from its look at the gate to its end.                  *)
(***************************************************************************)
EXTENDS Naturals

CONSTANTS
    Requests,    \* request ids of developer resets
    Recoveries,  \* bodies of owner recoveries
    Faults,      \* which of AllFaults may happen
    MaxTrouble,  \* how many of them altogether
    None

AllFaults == {"journal",   \* the journal cannot be written, or its write
                           \* raises although the file was replaced
              "drain",     \* runtime.quiesce fails
              "backup",    \* a backup cannot be made
              "database",  \* a transaction rolls back
              "commit",    \* a commit raises although it took effect
              "reload",    \* runtime.initialize or resume fails
              "crash"}     \* the process dies

ASSUME HostLifecycleAssumption ==
    /\ Faults \subseteq AllFaults
    /\ MaxTrouble \in Nat
    /\ None \notin Requests \cup Recoveries

VARIABLES
    disk,     \* developer-reset-journal.json
    journal,  \* _journal, the same in memory
    db,       \* what the reset and the recovery keep in the database
    host,     \* "up", "down", or "tool": factory-owner-qr.py reset
    runtime,  \* _paused and _maintenance_drained of the runtime
    events,   \* the flags of HardwareEvents
    pending,  \* _pending_ownership_change
    op,       \* the operation under the lifecycle lock
    told,     \* reset requests answered with a receipt
    trouble   \* how many faults have happened

vars == <<disk, journal, db, host, runtime, events, pending, op, told, trouble>>

Phases == {"none", "prepared", "backing_up", "resetting", "committed", "failed_precommit"}

(* maintenance is in the journal as well: it is true while active is set.  *)
EmptyJournal == [active |-> None, phase |-> "none", before |-> 0, receipts |-> {}]

FreshEvents == [powered |-> TRUE, maintenance |-> FALSE, failed |-> "none", window |-> FALSE]

Idle == [kind |-> "none", req |-> None, at |-> "none"]

Init ==
    /\ disk = EmptyJournal /\ journal = EmptyJournal
    /\ db = [generation |-> 1, receipts |-> {}, owned |-> FALSE,
             proof |-> None, recovered |-> {}]
    /\ host = "up" /\ runtime = "running"
    /\ events = FreshEvents
    /\ pending = None /\ op = Idle /\ told = {} /\ trouble = 0

-----------------------------------------------------------------------------
(* Helpers *)

Fault(f) == f \in Faults /\ trouble < MaxTrouble /\ trouble' = trouble + 1

(* require_available, which every product request passes *)
Available ==
    host = "up" /\ events.powered /\ ~events.maintenance /\ op.kind # "power"

Closed(e) == [e EXCEPT !.window = FALSE]
InMaintenance(e) == [e EXCEPT !.maintenance = TRUE, !.window = FALSE]

Doing(kind, at) == op.kind = kind /\ op.at = at
GoOn(at) == op' = [op EXCEPT !.at = at] /\ UNCHANGED host

(* The lock is released; the offline tool has nothing else to do and ends. *)
Done ==
    /\ op' = Idle
    /\ host' = IF host = "tool" THEN "down" ELSE host

(* _persist_journal: a failed write may have replaced the file already.    *)
Written(j) == journal' = j /\ disk' = j
NotWritten(j) == Fault("journal") /\ journal' = j /\ disk' \in {disk, j}

(* runtime.quiesce: nothing to do when drained.  The tool has no runtime.  *)
Drains ==
    /\ runtime' = IF host = "tool" THEN runtime ELSE "drained"
    /\ UNCHANGED trouble

DrainFails ==
    /\ host = "up" /\ runtime # "drained" /\ Fault("drain")
    /\ runtime' = "paused"

(* initialize and resume_after_maintenance, which refuses while the        *)
(* runtime has not drained and returns at once when it runs.               *)
Resumes ==
    /\ host = "tool" \/ runtime # "paused"
    /\ runtime' = IF host = "tool" THEN runtime ELSE "running"
    /\ UNCHANGED trouble

ResumeFails ==
    /\ host = "up"
    /\ IF runtime = "paused" THEN UNCHANGED trouble ELSE Fault("reload")
    /\ UNCHANGED runtime

-----------------------------------------------------------------------------
(* Product requests and the button *)

(* claim: the first owner, whose recovery secret is the one of some body.  *)
Claim ==
    /\ Available /\ ~db.owned
    /\ \E b \in Recoveries : db' = [db EXCEPT !.owned = TRUE, !.proof = b]
    /\ events' = Closed(events)
    /\ UNCHANGED <<disk, journal, host, runtime, pending, op, told, trouble>>

(* press_up after ten seconds, and the end of the window two minutes later *)
HoldButton ==
    /\ Available
    /\ events' = [events EXCEPT !.window = TRUE]
    /\ UNCHANGED <<disk, journal, db, host, runtime, pending, op, told, trouble>>

WindowEnds ==
    /\ events.window
    /\ events' = Closed(events)
    /\ UNCHANGED <<disk, journal, db, host, runtime, pending, op, told, trouble>>

-----------------------------------------------------------------------------
(* DeveloperReset.execute(r) *)

Resetting(r) == [kind |-> "reset", req |-> r, at |-> "ask"]

(* The panel asks, or the operator runs the tool on a stopped host.        *)
AskReset(r) ==
    /\ host = "up" /\ op = Idle
    /\ op' = Resetting(r)
    /\ UNCHANGED <<disk, journal, db, host, runtime, events, pending, told, trouble>>

RunTool(r) ==
    /\ host = "down"
    /\ host' = "tool" /\ op' = Resetting(r)
    /\ journal' = disk
    /\ events' = [FreshEvents EXCEPT !.maintenance = disk.active # None]
    /\ UNCHANGED <<disk, db, runtime, pending, told, trouble>>

(* Another reset is active: 503, and nothing changes.                      *)
RefuseReset ==
    /\ Doing("reset", "ask")
    /\ journal.active \notin {None, op.req}
    /\ Done
    /\ UNCHANGED <<disk, journal, db, runtime, events, pending, told, trouble>>

Mine == Doing("reset", "ask") /\ journal.active \in {None, op.req}

(* Mutant: the receipt that is prepared in the journal counts as one. *)
RepeatReceiptOfActive ==
    /\ Mine
    /\ op.req \in journal.receipts \/ journal.phase = "resetting"
    /\ told' = told \cup {op.req}
    /\ Done
    /\ UNCHANGED <<disk, journal, db, runtime, events, pending, trouble>>

(* The journal has the receipt, or the database has it for a request that  *)
(* is not active any more.                                                 *)
RepeatReceipt ==
    /\ Mine
    /\ op.req \in journal.receipts \/ (op.req \in db.receipts /\ journal.active = None)
    /\ told' = told \cup {op.req}
    /\ journal' = [journal EXCEPT !.receipts = @ \cup {op.req}]
    /\ disk' = IF op.req \in journal.receipts THEN disk ELSE journal'
    /\ Done
    /\ UNCHANGED <<db, runtime, events, pending, trouble>>

New == Mine /\ op.req \notin journal.receipts \cup db.receipts

(* _recover_database_receipt: the wipe has happened, the rest has not.     *)
RecoverReceipt ==
    /\ Mine
    /\ op.req \in db.receipts \ journal.receipts /\ journal.active = op.req
    /\ events' = InMaintenance(events)
    /\ GoOn("finish")
    /\ UNCHANGED <<disk, journal, db, runtime, pending, told, trouble>>

Prepared == [journal EXCEPT !.active = op.req, !.phase = "prepared",
                            !.before = db.generation]

(* A new reset is prepared.  When that cannot be written the product stays *)
(* in service, with a reset in memory that only its own request can end.   *)
Prepare ==
    /\ New /\ journal.active = None
    /\ \/ /\ Written(Prepared)
          /\ events' = InMaintenance(events)
          /\ GoOn("quiesce")
          /\ UNCHANGED trouble
       \/ /\ NotWritten(Prepared)
          /\ Done
          /\ UNCHANGED events
    /\ UNCHANGED <<db, runtime, pending, told>>

Attempt == IF journal.phase = "failed_precommit" THEN [journal EXCEPT !.phase = "prepared"]
                                               ELSE journal

(* Mutant: only a reset that failed in good order can be retried. *)
RetryFailed ==
    /\ New /\ journal.active = op.req /\ journal.phase = "failed_precommit"
    /\ Written(Attempt)
    /\ events' = InMaintenance(events)
    /\ GoOn("quiesce")
    /\ UNCHANGED <<db, runtime, pending, told, trouble>>

(* The same request tries again.  A generation that moved without this     *)
(* request's receipt would fail it for good.                               *)
Retry ==
    /\ New /\ journal.active = op.req
    /\ \/ /\ IF journal.phase = "failed_precommit" THEN Written(Attempt)
                                                   ELSE UNCHANGED <<disk, journal>>
          /\ events' = InMaintenance(events)
          /\ GoOn(IF journal.phase # "committed" /\ journal.before = db.generation
                  THEN "quiesce" ELSE "failed")
          /\ UNCHANGED trouble
       \/ /\ journal.phase = "failed_precommit" /\ NotWritten(Attempt)
          /\ Done
          /\ UNCHANGED events
    /\ UNCHANGED <<db, runtime, pending, told>>

(* Mutant: a reset goes ahead although the runtime has not drained. *)
DrainForResetAnyway ==
    /\ Doing("reset", "quiesce")
    /\ Drains \/ DrainFails
    /\ GoOn("backup")
    /\ UNCHANGED <<disk, journal, db, events, pending, told>>

DrainForReset ==
    /\ Doing("reset", "quiesce")
    /\ \/ Drains /\ GoOn("backup")
       \/ DrainFails /\ GoOn("failed")
    /\ UNCHANGED <<disk, journal, db, events, pending, told>>

Journaled(at, phase, next) ==
    /\ Doing("reset", at)
    /\ \/ Written([journal EXCEPT !.phase = phase]) /\ GoOn(next) /\ UNCHANGED trouble
       \/ NotWritten([journal EXCEPT !.phase = phase]) /\ GoOn("failed")
    /\ UNCHANGED <<db, runtime, events, pending, told>>

BackUp == Journaled("backup", "backing_up", "copy")

(* The copies are verified before the wipe is announced.                   *)
CopyFails ==
    /\ Doing("reset", "copy") /\ Fault("backup")
    /\ GoOn("failed")
    /\ UNCHANGED <<disk, journal, db, runtime, events, pending, told>>

Announce == Journaled("copy", "resetting", "wipe")

Wiped == [db EXCEPT !.generation = @ + 1, !.receipts = @ \cup {op.req},
                    !.owned = FALSE, !.proof = None, !.recovered = {}]

(* reset_product and the receipt, in one transaction                       *)
WipeProduct ==
    /\ Doing("reset", "wipe")
    /\ \/ db' = Wiped /\ GoOn("mark") /\ UNCHANGED trouble
       \/ db' = Wiped /\ GoOn("failed") /\ Fault("commit")
       \/ GoOn("failed") /\ Fault("database") /\ UNCHANGED db
    /\ UNCHANGED <<disk, journal, runtime, events, pending, told>>

Mark == Journaled("mark", "committed", "finish")

(* The handler of whatever was raised: the database decides.               *)
HandleFailure ==
    /\ Doing("reset", "failed")
    /\ LET committed == op.req \in db.receipts
           next == [journal EXCEPT !.phase = IF committed THEN "committed"
                                             ELSE "failed_precommit"]
       IN  /\ \/ Written(next) /\ UNCHANGED trouble
              \/ NotWritten(next)
           /\ IF committed THEN GoOn("finish") ELSE Done
    /\ UNCHANGED <<db, runtime, events, pending, told>>

(* _finish_committed: the product must reload before it is given back.     *)
Finish ==
    /\ Doing("reset", "finish")
    /\ \/ Resumes /\ GoOn("finalize") /\ pending' = None
       \/ ResumeFails /\ GoOn("unloaded") /\ UNCHANGED pending
    /\ UNCHANGED <<disk, journal, db, events, told>>

ReloadFailed ==
    /\ Doing("reset", "unloaded")
    /\ LET next == [journal EXCEPT !.phase = "committed"]
       IN  \/ Written(next) /\ UNCHANGED trouble
           \/ NotWritten(next)
    /\ Done
    /\ UNCHANGED <<db, runtime, events, pending, told>>

Completed == [EmptyJournal EXCEPT !.receipts = journal.receipts \cup {op.req}]

(* The completed journal counts in memory only once it has been written.   *)
Finalize ==
    /\ Doing("reset", "finalize")
    /\ \/ /\ Written(Completed)
          /\ events' = [Closed(events) EXCEPT !.maintenance = FALSE]
          /\ told' = told \cup {op.req}
          /\ UNCHANGED trouble
       \/ /\ Fault("journal")
          /\ disk' \in {disk, Completed}
          /\ UNCHANGED <<journal, events, told>>
    /\ Done
    /\ UNCHANGED <<db, runtime, pending>>

-----------------------------------------------------------------------------
(* _complete_ownership_change(b): an owner's recovery *)

(* Already done: the same answer; not allowed or not proved: an error.     *)
(* Neither changes anything, and neither is a step here.                   *)
AskRecovery(b) ==
    /\ host = "up" /\ op = Idle
    /\ \/ /\ pending = b
          /\ UNCHANGED <<pending, events>>
       \/ /\ pending = None /\ Available /\ events.window
          /\ db.owned /\ db.proof = b /\ b \notin db.recovered
          /\ pending' = b
          /\ events' = InMaintenance(events)
    /\ op' = [kind |-> "recover", req |-> b, at |-> "quiesce"]
    /\ UNCHANGED <<disk, journal, db, host, runtime, told, trouble>>

DrainForRecovery ==
    /\ Doing("recover", "quiesce")
    /\ \/ Drains /\ GoOn("commit")
       \/ DrainFails /\ Done
    /\ UNCHANGED <<disk, journal, db, events, pending, told>>

(* The commit finds its own receipt, or a proof that may have become void. *)
Recovers == db.owned /\ db.proof = op.req /\ op.req \notin db.recovered

CommitRecovery ==
    /\ Doing("recover", "commit")
    /\ \/ /\ Recovers
          /\ \E b \in Recoveries \cup {None} :
               db' = [db EXCEPT !.recovered = @ \cup {op.req}, !.proof = b]
          /\ events' = Closed(events)
          /\ UNCHANGED trouble
       \/ ~Recovers /\ UNCHANGED <<db, events, trouble>>
       \/ Fault("database") /\ UNCHANGED <<db, events>>
    /\ GoOn("resume")
    /\ UNCHANGED <<disk, journal, runtime, pending, told>>

(* Mutant: the gate opens although the product has not started again. *)
ResumeAnyway ==
    /\ Doing("recover", "resume")
    /\ Resumes \/ ResumeFails
    /\ Done
    /\ pending' = None
    /\ events' = [events EXCEPT !.maintenance = FALSE]
    /\ UNCHANGED <<disk, journal, db, told>>

(* The finally block: it opens the gate once the product has resumed.      *)
ResumeAfterRecovery ==
    /\ Doing("recover", "resume")
    /\ \/ /\ Resumes
          /\ pending' = None
          /\ events' = [events EXCEPT !.maintenance = FALSE]
       \/ ResumeFails /\ UNCHANGED <<pending, events>>
    /\ Done
    /\ UNCHANGED <<disk, journal, db, told>>

-----------------------------------------------------------------------------
(* HardwareEvents.power *)

Name(powered) == IF powered THEN "on" ELSE "off"

SwitchPower(powered) ==
    /\ host = "up" /\ op = Idle /\ ~events.maintenance
    /\ events.failed \in {"none", Name(powered)}
    /\ powered # events.powered \/ events.failed = Name(powered)
    /\ op' = [kind |-> "power", req |-> None, at |-> Name(powered)]
    /\ events' = IF powered THEN events ELSE [Closed(events) EXCEPT !.powered = FALSE]
    /\ UNCHANGED <<disk, journal, db, host, runtime, pending, told, trouble>>

Switched(powered) ==
    events' = [events EXCEPT !.powered = powered, !.failed = "none"]

SwitchFailed(powered) == events' = [events EXCEPT !.failed = Name(powered)]

PowerOff ==
    /\ Doing("power", "off")
    /\ \/ Drains /\ Switched(FALSE)
       \/ DrainFails /\ SwitchFailed(FALSE)
    /\ Done
    /\ UNCHANGED <<disk, journal, db, pending, told>>

PowerOn ==
    /\ Doing("power", "on")
    /\ \/ Resumes /\ Switched(TRUE)
       \/ ResumeFails /\ SwitchFailed(TRUE)
    /\ Done
    /\ UNCHANGED <<disk, journal, db, pending, told>>

-----------------------------------------------------------------------------
(* The process *)

Crash ==
    /\ host # "down" /\ Fault("crash")
    /\ host' = "down" /\ op' = Idle
    /\ journal' = EmptyJournal /\ runtime' = "running"
    /\ events' = FreshEvents /\ pending' = None
    /\ UNCHANGED <<disk, db, told>>

(* An ordinary start refuses while a reset is incomplete.                  *)
Boot ==
    /\ host = "down" /\ disk.active = None
    /\ host' = "up" /\ journal' = disk
    /\ events' = FreshEvents /\ runtime' = "running" /\ pending' = None
    /\ UNCHANGED <<disk, db, op, told, trouble>>

-----------------------------------------------------------------------------
ResetStep ==
    \/ RefuseReset
    \/ RepeatReceipt
    \/ RecoverReceipt
    \/ Prepare
    \/ Retry
    \/ DrainForReset
    \/ BackUp
    \/ CopyFails
    \/ Announce
    \/ WipeProduct
    \/ Mark
    \/ HandleFailure
    \/ Finish
    \/ ReloadFailed
    \/ Finalize

OperationStep ==
    \/ ResetStep
    \/ DrainForRecovery
    \/ CommitRecovery
    \/ ResumeAfterRecovery
    \/ PowerOff
    \/ PowerOn

Next ==
    \/ \E r \in Requests : AskReset(r) \/ RunTool(r)
    \/ \E b \in Recoveries : AskRecovery(b)
    \/ OperationStep
    \/ Claim
    \/ HoldButton
    \/ WindowEnds
    \/ \E powered \in BOOLEAN : SwitchPower(powered)
    \/ Crash
    \/ Boot

Spec == Init /\ [][Next]_vars

(* Operations under way go on; whoever started a reset repeats the request *)
(* until it is answered - at the panel, or with the tool once the host is  *)
(* down - and a host that may start is started.                            *)
Fairness ==
    /\ WF_vars(OperationStep)
    /\ \A r \in Requests : SF_vars(journal.active = r /\ AskReset(r))
                          /\ SF_vars(disk.active = r /\ RunTool(r))
    /\ WF_vars(Boot)

FairSpec == Spec /\ Fairness
-----------------------------------------------------------------------------
(* Properties *)

Journals == [active : Requests \cup {None}, phase : Phases, before : Nat,
             receipts : SUBSET Requests]

ResetStages == {"ask", "quiesce", "backup", "copy", "wipe", "mark", "failed",
                "finish", "unloaded", "finalize"}

Operations == {Idle} \cup [kind : {"reset"}, req : Requests, at : ResetStages]
                     \cup [kind : {"recover"}, req : Recoveries,
                           at : {"quiesce", "commit", "resume"}]
                     \cup [kind : {"power"}, req : {None}, at : {"on", "off"}]

HostTypeOK ==
    /\ disk \in Journals /\ journal \in Journals
    /\ db \in [generation : Nat, receipts : SUBSET Requests, owned : BOOLEAN,
               proof : Recoveries \cup {None}, recovered : SUBSET Recoveries]
    /\ host \in {"up", "down", "tool"}
    /\ runtime \in {"running", "paused", "drained"}
    /\ events \in [powered : BOOLEAN, maintenance : BOOLEAN,
                   failed : {"none", "on", "off"}, window : BOOLEAN]
    /\ pending \in Recoveries \cup {None}
    /\ op \in Operations
    /\ told \subseteq Requests
    /\ trouble \in 0 .. MaxTrouble

(* The detailed host implements the contract of a reset: at most one wipe  *)
(* per request, and no receipt before the wipe.                            *)
Contract == INSTANCE ResetContract
                WITH done <- db.receipts, generation <- db.generation

ImplementsContract == Contract!ContractSpec

(* Until a wiped product has been given back, the journal on disk says so: *)
(* no crash, and no journal write that failed, lets an ordinary start      *)
(* serve it half reset.                                                    *)
WipeIsJournaled ==
    \A r \in db.receipts : r \in disk.receipts \/ disk.active = r

(* A wipe happens in a closed and drained product.                         *)
WipesDrained ==
    [][db'.generation # db.generation =>
         /\ events.maintenance
         /\ host = "up" => runtime = "drained"]_vars

(* While an ownership change is unfinished nothing is served.              *)
PendingIsClosed == pending # None => events.maintenance

(* A product that is available has a runtime that works.                   *)
AvailableRuns == Available /\ events.failed = "none" => runtime = "running"

(* What is served is a whole product, whatever failed on the way to it: no *)
(* ownership change is unfinished and the runtime works.                   *)
AvailableIsWhole == PendingIsClosed /\ AvailableRuns

(* Whatever fails, what is on disk and what is served fit each other.      *)
ProductInv == HostTypeOK /\ WipeIsJournaled /\ AvailableIsWhole

(* docs/android-wireless.md:199: a backup or reload failure keeps the      *)
(* product in maintenance - also when the process dies in between.         *)
FailureKeepsMaintenance ==
    host = "up" /\ journal.phase \in {"failed_precommit", "committed"} => ~Available

NoRecovery == [](op.kind # "recover")

(* docs/android-wireless.md:199: retry the same pending reset through the   *)
(* panel - and whoever does so comes to the end of it.                      *)
RetriesEnd == disk.active # None ~> disk.active = None

(* As long as no owner recovery runs - it shares the maintenance flag and  *)
(* may clear it - a failed reset keeps the product closed, and one that is *)
(* retried ends: no crash and no fault leaves a journal that its own       *)
(* request cannot bring to its end.                                        *)
ResetEnds ==
    NoRecovery => /\ []FailureKeepsMaintenance
                  /\ RetriesEnd
=============================================================================
