------------------------- MODULE HostLifecycleProofs -------------------------
(***************************************************************************)
(* What HostLifecycle guarantees for every set of requests and recoveries  *)
(* and every number of faults: each reset wipes the product at most once,  *)
(* its wipe stays journaled until the product has been given back, and     *)
(* nothing is served by a product that is not whole.                       *)
(*                                                                         *)
(* Two inductive invariants, each on top of the types.  Records is about   *)
(* the two copies of the journal and the receipts in the database; Gate is *)
(* about the flags that close the product and the runtime behind them.     *)
(***************************************************************************)
EXTENDS HostLifecycle, TLAPS

In(stages) == op.kind = "reset" /\ op.at \in stages

BeforeWipe == {"quiesce", "backup", "copy", "wipe"}
AfterWipe == {"mark", "finish", "unloaded", "finalize"}
Working == BeforeWipe \cup AfterWipe \cup {"failed"}

(* A receipt in the journal, and one that was given out, is one in the     *)
(* database; and every one in the database is in a journal or belongs to   *)
(* the reset that the journal calls active.                                *)
Kept(j) ==
    /\ j.receipts \subseteq db.receipts
    /\ \A r \in db.receipts : r \in j.receipts \/ j.active = r

Records ==
    /\ told \subseteq db.receipts
    /\ Kept(disk)
    /\ host # "down" => Kept(journal)
    /\ host = "down" => op = Idle
    /\ In(Working) => journal.active = op.req
    /\ In(BeforeWipe) => op.req \notin db.receipts
    /\ In(AfterWipe) => op.req \in db.receipts
    /\ In({"copy", "wipe"}) => disk.active = op.req

(* Whoever works on a closed product keeps it closed until the runtime     *)
(* behind it is in the state that is promised for the next step.           *)
Gate ==
    /\ PendingIsClosed
    /\ AvailableRuns
    /\ host # "up" => pending = None
    /\ host = "tool" => op.kind = "reset"
    /\ host = "down" => op = Idle
    /\ op.kind = "recover" => host = "up" /\ pending = op.req
    /\ In(Working) => events.maintenance
    /\ In({"backup", "copy", "wipe"}) /\ host = "up" => runtime = "drained"
    /\ In({"finalize"}) => pending = None /\ (host = "up" => runtime = "running")

IInv == HostTypeOK /\ Records /\ Gate

-----------------------------------------------------------------------------
(* Types *)

(* The type invariant in parts that a step can be proved to keep one by one. *)
JournalTypes == disk \in Journals /\ journal \in Journals

StoreTypes ==
    /\ db \in [generation : Nat, receipts : SUBSET Requests, owned : BOOLEAN,
               proof : Recoveries \cup {None}, recovered : SUBSET Recoveries]
    /\ told \subseteq Requests

EventTypes ==
    events \in [powered : BOOLEAN, maintenance : BOOLEAN,
               failed : {"none", "on", "off"}, window : BOOLEAN]

HostTypes ==
    /\ host \in {"up", "down", "tool"}
    /\ runtime \in {"running", "paused", "drained"}
    /\ pending \in Recoveries \cup {None}

(* The request of a reset under way is one of Requests, not None.          *)
LEMMA ResetRequest ==
    ASSUME HostTypeOK, op.kind = "reset"
    PROVE  op \in [kind : {"reset"}, req : Requests, at : ResetStages] /\ op.req \in Requests
  <1>1. op \in [kind : {"reset"}, req : Requests, at : ResetStages]
    BY DEF HostTypeOK, Operations, Idle
  <1>2. QED
    BY <1>1

(* and that of a recovery is one of Recoveries.                            *)
LEMMA RecoveryBody ==
    ASSUME HostTypeOK, op.kind = "recover"
    PROVE  /\ op \in [kind : {"recover"}, req : Recoveries, at : {"quiesce", "commit", "resume"}]
           /\ op.req \in Recoveries
  <1>1. op \in [kind : {"recover"}, req : Recoveries, at : {"quiesce", "commit", "resume"}]
    BY DEF HostTypeOK, Operations, Idle
  <1>2. QED
    BY <1>1

(* Every step that is not one of a reset. *)
OtherStep ==
    \/ DrainForRecovery
    \/ CommitRecovery
    \/ ResumeAfterRecovery
    \/ PowerOff
    \/ PowerOn
    \/ Claim
    \/ HoldButton
    \/ WindowEnds
    \/ Crash
    \/ Boot
    \/ \E r \in Requests : AskReset(r) \/ RunTool(r)
    \/ \E r \in Recoveries : AskRecovery(r)
    \/ \E r \in BOOLEAN : SwitchPower(r)

(* A host that starts for the first time is typed.                         *)
LEMMA InitTyped == Init => HostTypeOK
  BY HostLifecycleAssumption
  DEF Init, HostTypeOK, Journals, Phases, EmptyJournal, FreshEvents, Idle, Operations

(* One step per action of a reset. *)
LEMMA ResetStepsTyped ==
    ASSUME HostTypeOK, ResetStep
    PROVE  HostTypeOK'
  <1> USE HostLifecycleAssumption
  <1>1. ASSUME RefuseReset PROVE HostTypeOK'
    BY <1>1 DEF RefuseReset, Doing, Done, Idle, HostTypeOK, Journals,
       Phases, Operations, ResetStages
  <1>2. ASSUME RepeatReceipt PROVE HostTypeOK'
    BY <1>2 DEF RepeatReceipt, Mine, Done, Doing, Idle, HostTypeOK,
       Journals, Phases, Operations, ResetStages
  <1>3. ASSUME RecoverReceipt PROVE HostTypeOK'
    <2>1. JournalTypes' /\ StoreTypes'
      BY <1>3 DEF RecoverReceipt, Mine, InMaintenance, GoOn, Doing,
         HostTypeOK, JournalTypes, Journals, Phases, StoreTypes, Operations,
         Idle
    <2>2. EventTypes'
      BY <1>3 DEF RecoverReceipt, Mine, InMaintenance, GoOn, Doing,
         HostTypeOK, EventTypes
    <2>3. HostTypes' /\ op' \in Operations /\ trouble' \in 0 .. MaxTrouble
      BY <1>3 DEF RecoverReceipt, Mine, InMaintenance, GoOn, Doing,
         HostTypeOK, HostTypes, Operations, ResetStages, Idle
    <2>4. QED
      BY <2>1, <2>2, <2>3, Zenon
      DEF HostTypeOK, JournalTypes, StoreTypes, EventTypes, HostTypes
  <1>4. ASSUME Prepare PROVE HostTypeOK'
    <2>1. op.req \in Requests /\ Prepared \in Journals
      <3>1. op.req \in Requests
        BY <1>4, ResetRequest DEF Prepare, New, Mine, Doing
      <3>2. QED
        BY <3>1 DEF Prepared, HostTypeOK, Journals, Phases
    <2>2. JournalTypes'
      BY <1>4, <2>1 DEF Prepare, Written, NotWritten, HostTypeOK, JournalTypes
    <2>3. StoreTypes'
      BY <1>4 DEF Prepare, HostTypeOK, StoreTypes
    <2>4. EventTypes' /\ HostTypes'
      BY <1>4 DEF Prepare, New, Mine, Doing, GoOn, Done, NotWritten, Fault,
         InMaintenance, HostTypeOK, EventTypes, HostTypes, Operations, Idle
    <2>5. op' \in Operations
      BY <1>4 DEF Prepare, New, Mine, Doing, GoOn, Done, NotWritten, Fault,
         InMaintenance, HostTypeOK, Operations, ResetStages, Idle
    <2>6. trouble' \in 0 .. MaxTrouble
      BY <1>4 DEF Prepare, New, Mine, Doing, GoOn, Done, NotWritten, Fault,
         InMaintenance, HostTypeOK
    <2>7. QED
      BY <2>2, <2>3, <2>4, <2>5, <2>6, Zenon
      DEF HostTypeOK, JournalTypes, StoreTypes, EventTypes, HostTypes
  <1>5. ASSUME Retry PROVE HostTypeOK'
    <2>1. JournalTypes' /\ StoreTypes'
      BY <1>5 DEF Retry, New, Written, Attempt, InMaintenance, GoOn,
         NotWritten, Done, Mine, Fault, Idle, Doing, HostTypeOK, JournalTypes,
         Journals, Phases, StoreTypes, Operations
    <2>2. EventTypes'
      BY <1>5 DEF Retry, New, Written, Attempt, InMaintenance, GoOn,
         NotWritten, Done, Mine, Fault, Idle, Doing, HostTypeOK, EventTypes
    <2>3. HostTypes' /\ op' \in Operations /\ trouble' \in 0 .. MaxTrouble
      BY <1>5 DEF Retry, New, Written, Attempt, InMaintenance, GoOn,
         NotWritten, Done, Mine, Fault, Idle, Doing, HostTypeOK, HostTypes,
         Operations, ResetStages
    <2>4. QED
      BY <2>1, <2>2, <2>3, Zenon
      DEF HostTypeOK, JournalTypes, StoreTypes, EventTypes, HostTypes
  <1>6. ASSUME DrainForReset PROVE HostTypeOK'
    BY <1>6 DEF DrainForReset, Doing, Drains, GoOn, DrainFails, Fault,
       HostTypeOK, Journals, Phases, Operations, ResetStages, Idle
  <1>7. ASSUME BackUp PROVE HostTypeOK'
    BY <1>7 DEF BackUp, Journaled, Doing, Written, GoOn, NotWritten, Fault,
       HostTypeOK, Journals, Phases, Operations, ResetStages, Idle
  <1>8. ASSUME CopyFails PROVE HostTypeOK'
    BY <1>8 DEF CopyFails, Doing, Fault, GoOn, HostTypeOK, Journals,
       Phases, Operations, ResetStages, Idle
  <1>9. ASSUME Announce PROVE HostTypeOK'
    BY <1>9 DEF Announce, Journaled, Doing, Written, GoOn, NotWritten,
       Fault, HostTypeOK, Journals, Phases, Operations, ResetStages, Idle
  <1>10. ASSUME WipeProduct PROVE HostTypeOK'
    <2>1. op.req \in Requests /\ op.kind = "reset"
      BY <1>10 DEF WipeProduct, Doing, HostTypeOK, Operations, Idle
    <2>2. JournalTypes'
      BY <1>10 DEF WipeProduct, HostTypeOK, JournalTypes
    <2>3. StoreTypes'
      <3>1. Wiped \in [generation : Nat, receipts : SUBSET Requests, owned : BOOLEAN,
                   proof : Recoveries \cup {None}, recovered : SUBSET Recoveries]
        <4>1. db \in [generation : Nat, receipts : SUBSET Requests, owned : BOOLEAN,
                      proof : Recoveries \cup {None}, recovered : SUBSET Recoveries]
          BY DEF HostTypeOK
        <4>2. /\ db.generation + 1 \in Nat
              /\ db.receipts \cup {op.req} \in SUBSET Requests
              /\ {} \in SUBSET Recoveries
          BY <2>1, <4>1
        <4>3. QED
          BY <4>1, <4>2 DEF Wiped
      <3>2. db' \in {db, Wiped} /\ told' = told
        BY <1>10 DEF WipeProduct
      <3>3. QED
        BY <3>1, <3>2 DEF HostTypeOK, StoreTypes
    <2>4. EventTypes' /\ HostTypes'
      BY <1>10 DEF WipeProduct, Doing, GoOn, Fault, HostTypeOK, EventTypes, HostTypes, Operations, Idle
    <2>5. op' \in Operations
      BY <1>10 DEF WipeProduct, Doing, GoOn, Fault, HostTypeOK, Operations, ResetStages, Idle
    <2>6. trouble' \in 0 .. MaxTrouble
      BY <1>10 DEF WipeProduct, Doing, GoOn, Fault, HostTypeOK
    <2>7. QED
      BY <2>2, <2>3, <2>4, <2>5, <2>6, Zenon
      DEF HostTypeOK, JournalTypes, StoreTypes, EventTypes, HostTypes
  <1>11. ASSUME Mark PROVE HostTypeOK'
    BY <1>11 DEF Mark, Journaled, Doing, Written, GoOn, NotWritten, Fault,
       HostTypeOK, Journals, Phases, Operations, ResetStages, Idle
  <1>12. ASSUME HandleFailure PROVE HostTypeOK'
    BY <1>12 DEF HandleFailure, Doing, Written, NotWritten, GoOn, Done,
       Fault, Idle, HostTypeOK, Journals, Phases, Operations, ResetStages
  <1>13. ASSUME Finish PROVE HostTypeOK'
    BY <1>13 DEF Finish, Doing, Resumes, GoOn, ResumeFails, Fault,
       HostTypeOK, Journals, Phases, Operations, ResetStages, Idle
  <1>14. ASSUME ReloadFailed PROVE HostTypeOK'
    BY <1>14 DEF ReloadFailed, Doing, Written, NotWritten, Done, Fault,
       Idle, HostTypeOK, Journals, Phases, Operations, ResetStages
  <1>15. ASSUME Finalize PROVE HostTypeOK'
    <2>1. op.req \in Requests /\ Completed \in Journals
      BY <1>15 DEF Finalize, Completed, EmptyJournal, Doing, HostTypeOK, Journals, Phases,
         Operations, Idle
    <2>2. JournalTypes'
      BY <1>15, <2>1 DEF Finalize, Written, HostTypeOK, JournalTypes
    <2>3. StoreTypes'
      BY <1>15, <2>1 DEF Finalize, HostTypeOK, StoreTypes
    <2>4. EventTypes' /\ HostTypes'
      BY <1>15 DEF Finalize, Doing, Done, Fault, Closed, HostTypeOK, EventTypes, HostTypes, Operations, Idle
    <2>5. op' \in Operations
      BY <1>15 DEF Finalize, Doing, Done, Fault, Closed, HostTypeOK, Operations, ResetStages, Idle
    <2>6. trouble' \in 0 .. MaxTrouble
      BY <1>15 DEF Finalize, Doing, Done, Fault, Closed, HostTypeOK
    <2>7. QED
      BY <2>2, <2>3, <2>4, <2>5, <2>6, Zenon
      DEF HostTypeOK, JournalTypes, StoreTypes, EventTypes, HostTypes
  <1>16. QED
    BY <1>1, <1>2, <1>3, <1>4, <1>5, <1>6, <1>7, <1>8, <1>9, <1>10, <1>11,
       <1>12, <1>13, <1>14, <1>15 DEF ResetStep

(* and one per action of everything else. *)
LEMMA OtherStepsTyped ==
    ASSUME HostTypeOK, OtherStep
    PROVE  HostTypeOK'
  <1> USE HostLifecycleAssumption
  <1>1. ASSUME DrainForRecovery PROVE HostTypeOK'
    BY <1>1 DEF DrainForRecovery, Doing, Drains, GoOn, DrainFails, Done,
       Fault, Idle, HostTypeOK, Journals, Phases, Operations, ResetStages
  <1>2. ASSUME CommitRecovery PROVE HostTypeOK'
    <2>1. /\ op \in [kind : {"recover"}, req : Recoveries, at : {"quiesce", "commit", "resume"}]
          /\ op.req \in Recoveries
      BY <1>2, RecoveryBody DEF CommitRecovery, Doing
    <2>2. JournalTypes'
      BY <1>2 DEF CommitRecovery, HostTypeOK, JournalTypes
    <2>3. StoreTypes'
      <3>1. ASSUME NEW b \in Recoveries \cup {None}
            PROVE  [db EXCEPT !.recovered = @ \cup {op.req}, !.proof = b] \in
                     [generation : Nat, receipts : SUBSET Requests, owned : BOOLEAN,
                   proof : Recoveries \cup {None}, recovered : SUBSET Recoveries]
        BY <2>1 DEF HostTypeOK
      <3>2. /\ told' = told
            /\ \/ db' = db
               \/ \E b \in Recoveries \cup {None} :
                    db' = [db EXCEPT !.recovered = @ \cup {op.req}, !.proof = b]
        BY <1>2 DEF CommitRecovery
      <3>3. QED
        BY <3>1, <3>2 DEF HostTypeOK, StoreTypes
    <2>4. EventTypes' /\ HostTypes'
      BY <1>2 DEF CommitRecovery, GoOn, Closed, HostTypeOK, EventTypes, HostTypes
    <2>5. op' \in Operations
      <3>1. op' = [op EXCEPT !.at = "resume"]
        BY <1>2 DEF CommitRecovery, GoOn
      <3>2. QED
        BY <2>1, <3>1 DEF Operations
    <2>6. trouble' \in 0 .. MaxTrouble
      <3>1. trouble' = trouble \/ Fault("database")
        BY <1>2 DEF CommitRecovery
      <3>2. QED
        BY <3>1 DEF Fault, HostTypeOK
    <2>7. QED
      BY <2>2, <2>3, <2>4, <2>5, <2>6, Zenon
      DEF HostTypeOK, JournalTypes, StoreTypes, EventTypes, HostTypes
  <1>3. ASSUME ResumeAfterRecovery PROVE HostTypeOK'
    <2>1. JournalTypes' /\ StoreTypes'
      BY <1>3 DEF ResumeAfterRecovery, Doing, Resumes, ResumeFails, Done,
         Fault, Idle, HostTypeOK, JournalTypes, Journals, Phases, StoreTypes,
         Operations
    <2>2. EventTypes'
      BY <1>3 DEF ResumeAfterRecovery, Doing, Resumes, ResumeFails, Done,
         Fault, Idle, HostTypeOK, EventTypes
    <2>3. HostTypes' /\ op' \in Operations /\ trouble' \in 0 .. MaxTrouble
      BY <1>3 DEF ResumeAfterRecovery, Doing, Resumes, ResumeFails, Done,
         Fault, Idle, HostTypeOK, HostTypes, Operations, ResetStages
    <2>4. QED
      BY <2>1, <2>2, <2>3, Zenon
      DEF HostTypeOK, JournalTypes, StoreTypes, EventTypes, HostTypes
  <1>4. ASSUME PowerOff PROVE HostTypeOK'
    <2>1. JournalTypes' /\ StoreTypes'
      BY <1>4 DEF PowerOff, Doing, Drains, Switched, DrainFails,
         SwitchFailed, Done, Fault, Name, Idle, HostTypeOK, JournalTypes,
         Journals, Phases, StoreTypes, Operations
    <2>2. EventTypes'
      BY <1>4 DEF PowerOff, Doing, Drains, Switched, DrainFails,
         SwitchFailed, Done, Fault, Name, Idle, HostTypeOK, EventTypes
    <2>3. HostTypes' /\ op' \in Operations /\ trouble' \in 0 .. MaxTrouble
      BY <1>4 DEF PowerOff, Doing, Drains, Switched, DrainFails,
         SwitchFailed, Done, Fault, Name, Idle, HostTypeOK, HostTypes,
         Operations, ResetStages
    <2>4. QED
      BY <2>1, <2>2, <2>3, Zenon
      DEF HostTypeOK, JournalTypes, StoreTypes, EventTypes, HostTypes
  <1>5. ASSUME PowerOn PROVE HostTypeOK'
    <2>1. JournalTypes' /\ StoreTypes'
      BY <1>5 DEF PowerOn, Doing, Resumes, Switched, ResumeFails,
         SwitchFailed, Done, Fault, Name, Idle, HostTypeOK, JournalTypes,
         Journals, Phases, StoreTypes, Operations
    <2>2. EventTypes'
      BY <1>5 DEF PowerOn, Doing, Resumes, Switched, ResumeFails,
         SwitchFailed, Done, Fault, Name, Idle, HostTypeOK, EventTypes
    <2>3. HostTypes' /\ op' \in Operations /\ trouble' \in 0 .. MaxTrouble
      BY <1>5 DEF PowerOn, Doing, Resumes, Switched, ResumeFails,
         SwitchFailed, Done, Fault, Name, Idle, HostTypeOK, HostTypes,
         Operations, ResetStages
    <2>4. QED
      BY <2>1, <2>2, <2>3, Zenon
      DEF HostTypeOK, JournalTypes, StoreTypes, EventTypes, HostTypes
  <1>6. ASSUME Claim PROVE HostTypeOK'
    <2>1. JournalTypes' /\ StoreTypes'
      BY <1>6, ZenonT(40) DEF Claim, Available, Closed, HostTypeOK, JournalTypes,
         Journals, Phases, StoreTypes, Operations, Idle
    <2>2. EventTypes'
      BY <1>6 DEF Claim, Available, Closed, HostTypeOK, EventTypes
    <2>3. HostTypes' /\ op' \in Operations /\ trouble' \in 0 .. MaxTrouble
      BY <1>6 DEF Claim, Available, Closed, HostTypeOK, HostTypes,
         Operations, ResetStages, Idle
    <2>4. QED
      BY <2>1, <2>2, <2>3, Zenon
      DEF HostTypeOK, JournalTypes, StoreTypes, EventTypes, HostTypes
  <1>7. ASSUME HoldButton PROVE HostTypeOK'
    <2>1. JournalTypes' /\ StoreTypes'
      BY <1>7 DEF HoldButton, Available, HostTypeOK, JournalTypes,
         Journals, Phases, StoreTypes, Operations, Idle
    <2>2. EventTypes'
      BY <1>7 DEF HoldButton, Available, HostTypeOK, EventTypes
    <2>3. HostTypes' /\ op' \in Operations /\ trouble' \in 0 .. MaxTrouble
      BY <1>7 DEF HoldButton, Available, HostTypeOK, HostTypes, Operations,
         ResetStages, Idle
    <2>4. QED
      BY <2>1, <2>2, <2>3, Zenon
      DEF HostTypeOK, JournalTypes, StoreTypes, EventTypes, HostTypes
  <1>8. ASSUME WindowEnds PROVE HostTypeOK'
    <2>1. JournalTypes' /\ StoreTypes'
      BY <1>8 DEF WindowEnds, Closed, HostTypeOK, JournalTypes, Journals,
         Phases, StoreTypes, Operations, Idle
    <2>2. EventTypes'
      BY <1>8 DEF WindowEnds, Closed, HostTypeOK, EventTypes
    <2>3. HostTypes' /\ op' \in Operations /\ trouble' \in 0 .. MaxTrouble
      BY <1>8 DEF WindowEnds, Closed, HostTypeOK, HostTypes, Operations,
         ResetStages, Idle
    <2>4. QED
      BY <2>1, <2>2, <2>3, Zenon
      DEF HostTypeOK, JournalTypes, StoreTypes, EventTypes, HostTypes
  <1>9. ASSUME Crash PROVE HostTypeOK'
    BY <1>9 DEF Crash, Fault, Idle, EmptyJournal, FreshEvents, HostTypeOK,
       Journals, Phases, Operations, ResetStages
  <1>10. ASSUME Boot PROVE HostTypeOK'
    BY <1>10 DEF Boot, FreshEvents, HostTypeOK, Journals, Phases,
       Operations, ResetStages, Idle
  <1>11. ASSUME NEW r \in Requests, AskReset(r) PROVE HostTypeOK'
    BY <1>11 DEF AskReset, Idle, Resetting, HostTypeOK, Journals, Phases,
       Operations, ResetStages
  <1>12. ASSUME NEW r \in Requests, RunTool(r) PROVE HostTypeOK'
    BY <1>12, ZenonT(40) DEF RunTool, Resetting, FreshEvents, HostTypeOK, Journals,
       Phases, Operations, ResetStages, Idle
  <1>13. ASSUME NEW r \in Recoveries, AskRecovery(r) PROVE HostTypeOK'
    <2>1. JournalTypes' /\ StoreTypes'
      BY <1>13 DEF AskRecovery, Idle, Available, InMaintenance, HostTypeOK,
         JournalTypes, Journals, Phases, StoreTypes, Operations
    <2>2. EventTypes'
      BY <1>13 DEF AskRecovery, Idle, Available, InMaintenance, HostTypeOK,
         EventTypes
    <2>3. HostTypes' /\ op' \in Operations /\ trouble' \in 0 .. MaxTrouble
      BY <1>13 DEF AskRecovery, Idle, Available, InMaintenance, HostTypeOK,
         HostTypes, Operations, ResetStages
    <2>4. QED
      BY <2>1, <2>2, <2>3, Zenon
      DEF HostTypeOK, JournalTypes, StoreTypes, EventTypes, HostTypes
  <1>14. ASSUME NEW r \in BOOLEAN, SwitchPower(r) PROVE HostTypeOK'
    <2>1. JournalTypes' /\ StoreTypes'
      BY <1>14 DEF SwitchPower, Idle, Name, Closed, HostTypeOK,
         JournalTypes, Journals, Phases, StoreTypes, Operations
    <2>2. EventTypes'
      BY <1>14 DEF SwitchPower, Idle, Name, Closed, HostTypeOK, EventTypes
    <2>3. HostTypes' /\ op' \in Operations /\ trouble' \in 0 .. MaxTrouble
      BY <1>14 DEF SwitchPower, Idle, Name, Closed, HostTypeOK, HostTypes,
         Operations, ResetStages
    <2>4. QED
      BY <2>1, <2>2, <2>3, Zenon
      DEF HostTypeOK, JournalTypes, StoreTypes, EventTypes, HostTypes
  <1>15. QED
    BY <1>1, <1>2, <1>3, <1>4, <1>5, <1>6, <1>7, <1>8, <1>9, <1>10, <1>11,
       <1>12, <1>13, <1>14 DEF OtherStep

-----------------------------------------------------------------------------
(* The journal and the receipts *)

(* The steps of a reset keep journal and database in agreement. *)
LEMMA ResetStepsKeepRecords ==
    ASSUME HostTypeOK, Records, ResetStep
    PROVE  Records'
  <1> USE HostLifecycleAssumption
  <1>1. ASSUME RefuseReset PROVE Records'
    BY <1>1 DEF RefuseReset, Doing, Done, Idle, HostTypeOK, Journals,
       Operations, ResetStages, Records, Kept, In, Working, BeforeWipe,
       AfterWipe
  <1>2. ASSUME RepeatReceipt PROVE Records'
    BY <1>2 DEF RepeatReceipt, Mine, Done, Doing, Idle, HostTypeOK,
       Journals, Operations, ResetStages, Records, Kept, In, Working,
       BeforeWipe, AfterWipe
  <1>3. ASSUME RecoverReceipt PROVE Records'
    BY <1>3 DEF RecoverReceipt, Mine, InMaintenance, GoOn, Doing,
       HostTypeOK, Journals, Operations, ResetStages, Idle, Records, Kept, In,
       Working, BeforeWipe, AfterWipe
  <1>4. ASSUME Prepare PROVE Records'
    <2>1. /\ op.req \in Requests /\ op.req \notin db.receipts
          /\ journal.active = None /\ host # "down"
          /\ db.receipts \subseteq Requests /\ told' = told /\ db' = db
      BY <1>4 DEF Prepare, New, Mine, Doing, HostTypeOK, Operations, Idle, Records
    <2>2. /\ journal' = Prepared /\ disk' \in {disk, Prepared}
          /\ host' \in {host, "down"}
          /\ Prepared.active = op.req /\ Prepared.receipts = journal.receipts
      BY <1>4 DEF Prepare, Prepared, Written, NotWritten, GoOn, Done, HostTypeOK, Journals
    <2>3. Kept(journal)' /\ Kept(disk)'
      BY <2>1, <2>2 DEF Records, Kept
    <2>4. \/ op' = Idle
          \/ /\ op'.req = op.req /\ op'.at = "quiesce" /\ host' = host
      BY <1>4 DEF Prepare, GoOn, Done, New, Mine, Doing, HostTypeOK, Operations, Idle
    <2>5. QED
      BY <2>1, <2>2, <2>3, <2>4
      DEF Records, In, Working, BeforeWipe, AfterWipe, Idle
  <1>5. ASSUME Retry PROVE Records'
    BY <1>5 DEF Retry, New, Written, Attempt, InMaintenance, GoOn,
       NotWritten, Done, Mine, Fault, Idle, Doing, HostTypeOK, Journals,
       Operations, ResetStages, Records, Kept, In, Working, BeforeWipe,
       AfterWipe
  <1>6. ASSUME DrainForReset PROVE Records'
    BY <1>6 DEF DrainForReset, Doing, Drains, GoOn, DrainFails, Fault,
       HostTypeOK, Journals, Operations, ResetStages, Idle, Records, Kept, In,
       Working, BeforeWipe, AfterWipe
  <1>7. ASSUME BackUp PROVE Records'
    BY <1>7 DEF BackUp, Journaled, Doing, Written, GoOn, NotWritten, Fault,
       HostTypeOK, Journals, Operations, ResetStages, Idle, Records, Kept, In,
       Working, BeforeWipe, AfterWipe
  <1>8. ASSUME CopyFails PROVE Records'
    BY <1>8 DEF CopyFails, Doing, Fault, GoOn, HostTypeOK, Journals,
       Operations, ResetStages, Idle, Records, Kept, In, Working, BeforeWipe,
       AfterWipe
  <1>9. ASSUME Announce PROVE Records'
    BY <1>9 DEF Announce, Journaled, Doing, Written, GoOn, NotWritten,
       Fault, HostTypeOK, Journals, Operations, ResetStages, Idle, Records,
       Kept, In, Working, BeforeWipe, AfterWipe
  <1>10. ASSUME WipeProduct PROVE Records'
    <2>1. /\ In({"wipe"}) /\ op'.req = op.req /\ op'.kind = "reset"
          /\ op.req \in Requests
          /\ UNCHANGED <<disk, journal, told, host>>
      BY <1>10 DEF WipeProduct, Doing, GoOn, HostTypeOK, Operations, Idle, In
    <2>2. \/ db'.receipts = db.receipts /\ op'.at = "failed"
          \/ db'.receipts = db.receipts \cup {op.req} /\ op'.at \in {"mark", "failed"}
      BY <1>10 DEF WipeProduct, Wiped, Doing, GoOn, HostTypeOK, Operations, Idle
    <2>3. journal.active = op.req /\ disk.active = op.req /\ host # "down"
      BY <2>1 DEF Records, In, Working, BeforeWipe, Idle
    <2>4. QED
      BY <2>1, <2>2, <2>3
      DEF Records, Kept, In, Working, BeforeWipe, AfterWipe, Idle
  <1>11. ASSUME Mark PROVE Records'
    BY <1>11 DEF Mark, Journaled, Doing, Written, GoOn, NotWritten, Fault,
       HostTypeOK, Journals, Operations, ResetStages, Idle, Records, Kept, In,
       Working, BeforeWipe, AfterWipe
  <1>12. ASSUME HandleFailure PROVE Records'
    BY <1>12 DEF HandleFailure, Doing, Written, NotWritten, GoOn, Done,
       Fault, Idle, HostTypeOK, Journals, Operations, ResetStages, Records,
       Kept, In, Working, BeforeWipe, AfterWipe
  <1>13. ASSUME Finish PROVE Records'
    BY <1>13 DEF Finish, Doing, Resumes, GoOn, ResumeFails, Fault,
       HostTypeOK, Journals, Operations, ResetStages, Idle, Records, Kept, In,
       Working, BeforeWipe, AfterWipe
  <1>14. ASSUME ReloadFailed PROVE Records'
    BY <1>14 DEF ReloadFailed, Doing, Written, NotWritten, Done, Fault,
       Idle, HostTypeOK, Journals, Operations, ResetStages, Records, Kept, In,
       Working, BeforeWipe, AfterWipe
  <1>15. ASSUME Finalize PROVE Records'
    BY <1>15 DEF Finalize, Doing, Written, Completed, Closed, Fault, Done,
       EmptyJournal, Idle, HostTypeOK, Journals, Operations, ResetStages,
       Records, Kept, In, Working, BeforeWipe, AfterWipe
  <1>16. QED
    BY <1>1, <1>2, <1>3, <1>4, <1>5, <1>6, <1>7, <1>8, <1>9, <1>10, <1>11,
       <1>12, <1>13, <1>14, <1>15 DEF ResetStep

(* So does everything else. *)
LEMMA OtherStepsKeepRecords ==
    ASSUME HostTypeOK, Records, OtherStep
    PROVE  Records'
  <1> USE HostLifecycleAssumption
  <1>1. ASSUME DrainForRecovery PROVE Records'
    BY <1>1 DEF DrainForRecovery, Doing, Drains, GoOn, DrainFails, Done,
       Fault, Idle, HostTypeOK, Journals, Operations, ResetStages, Records,
       Kept, In, Working, BeforeWipe, AfterWipe
  <1>2. ASSUME CommitRecovery PROVE Records'
    <2>1. /\ op.kind = "recover" /\ op'.kind = "recover"
          /\ db'.receipts = db.receipts
          /\ UNCHANGED <<disk, journal, host, told>>
      BY <1>2 DEF CommitRecovery, Doing, GoOn, HostTypeOK, Operations, Idle
    <2>2. QED
      BY <2>1 DEF Records, Kept, In, Idle
  <1>3. ASSUME ResumeAfterRecovery PROVE Records'
    BY <1>3 DEF ResumeAfterRecovery, Doing, Resumes, ResumeFails, Done,
       Fault, Idle, HostTypeOK, Journals, Operations, ResetStages, Records,
       Kept, In, Working, BeforeWipe, AfterWipe
  <1>4. ASSUME PowerOff PROVE Records'
    BY <1>4 DEF PowerOff, Doing, Drains, Switched, DrainFails,
       SwitchFailed, Done, Fault, Name, Idle, HostTypeOK, Journals,
       Operations, ResetStages, Records, Kept, In, Working, BeforeWipe,
       AfterWipe
  <1>5. ASSUME PowerOn PROVE Records'
    BY <1>5 DEF PowerOn, Doing, Resumes, Switched, ResumeFails,
       SwitchFailed, Done, Fault, Name, Idle, HostTypeOK, Journals,
       Operations, ResetStages, Records, Kept, In, Working, BeforeWipe,
       AfterWipe
  <1>6. ASSUME Claim PROVE Records'
    BY <1>6 DEF Claim, Available, Closed, HostTypeOK, Journals, Operations,
       ResetStages, Idle, Records, Kept, In, Working, BeforeWipe, AfterWipe
  <1>7. ASSUME HoldButton PROVE Records'
    BY <1>7 DEF HoldButton, Available, HostTypeOK, Journals, Operations,
       ResetStages, Idle, Records, Kept, In, Working, BeforeWipe, AfterWipe
  <1>8. ASSUME WindowEnds PROVE Records'
    BY <1>8 DEF WindowEnds, Closed, HostTypeOK, Journals, Operations,
       ResetStages, Idle, Records, Kept, In, Working, BeforeWipe, AfterWipe
  <1>9. ASSUME Crash PROVE Records'
    BY <1>9 DEF Crash, Fault, Idle, EmptyJournal, FreshEvents, HostTypeOK,
       Journals, Operations, ResetStages, Records, Kept, In, Working,
       BeforeWipe, AfterWipe
  <1>10. ASSUME Boot PROVE Records'
    BY <1>10 DEF Boot, FreshEvents, HostTypeOK, Journals, Operations,
       ResetStages, Idle, Records, Kept, In, Working, BeforeWipe, AfterWipe
  <1>11. ASSUME NEW r \in Requests, AskReset(r) PROVE Records'
    BY <1>11 DEF AskReset, Idle, Resetting, HostTypeOK, Journals,
       Operations, ResetStages, Records, Kept, In, Working, BeforeWipe,
       AfterWipe
  <1>12. ASSUME NEW r \in Requests, RunTool(r) PROVE Records'
    BY <1>12 DEF RunTool, Resetting, FreshEvents, HostTypeOK, Journals,
       Operations, ResetStages, Idle, Records, Kept, In, Working, BeforeWipe,
       AfterWipe
  <1>13. ASSUME NEW r \in Recoveries, AskRecovery(r) PROVE Records'
    BY <1>13 DEF AskRecovery, Idle, Available, InMaintenance, HostTypeOK,
       Journals, Operations, ResetStages, Records, Kept, In, Working,
       BeforeWipe, AfterWipe
  <1>14. ASSUME NEW r \in BOOLEAN, SwitchPower(r) PROVE Records'
    BY <1>14 DEF SwitchPower, Idle, Name, Closed, HostTypeOK, Journals,
       Operations, ResetStages, Records, Kept, In, Working, BeforeWipe,
       AfterWipe
  <1>15. QED
    BY <1>1, <1>2, <1>3, <1>4, <1>5, <1>6, <1>7, <1>8, <1>9, <1>10, <1>11,
       <1>12, <1>13, <1>14 DEF OtherStep

-----------------------------------------------------------------------------
(* The gate and the runtime *)

(* A reset closes the product before it drains it, and opens it last. *)
LEMMA ResetStepsKeepGate ==
    ASSUME HostTypeOK, Gate, ResetStep
    PROVE  Gate'
  <1> USE HostLifecycleAssumption
  <1>1. ASSUME RefuseReset PROVE Gate'
    BY <1>1 DEF RefuseReset, Doing, Done, Idle, HostTypeOK, Operations,
       ResetStages, Gate, PendingIsClosed, AvailableRuns, Available, In,
       Working, BeforeWipe, AfterWipe
  <1>2. ASSUME RepeatReceipt PROVE Gate'
    BY <1>2 DEF RepeatReceipt, Mine, Done, Doing, Idle, HostTypeOK,
       Operations, ResetStages, Gate, PendingIsClosed, AvailableRuns,
       Available, In, Working, BeforeWipe, AfterWipe
  <1>3. ASSUME RecoverReceipt PROVE Gate'
    BY <1>3 DEF RecoverReceipt, Mine, InMaintenance, GoOn, Doing,
       HostTypeOK, Operations, ResetStages, Idle, Gate, PendingIsClosed,
       AvailableRuns, Available, In, Working, BeforeWipe, AfterWipe
  <1>4. ASSUME Prepare PROVE Gate'
    <2>1. \/ op' = Idle /\ events' = events /\ host' # "tool"
          \/ /\ events'.maintenance /\ host' = host
             /\ op'.kind = "reset" /\ op'.at = "quiesce"
      BY <1>4 DEF Prepare, InMaintenance, NotWritten, GoOn, Done, New, Mine, Doing,
             HostTypeOK, Operations, Idle
    <2>2. /\ UNCHANGED <<runtime, pending>>
          /\ host' = host \/ (host = "tool" /\ host' = "down" /\ op' = Idle)
          /\ op.kind = "reset"
      BY <1>4 DEF Prepare, GoOn, Done, New, Mine, Doing
    <2>3. CASE op' = Idle /\ events' = events /\ host' # "tool"
      <3>1. Available' => Available
        BY <2>2, <2>3 DEF Available
      <3>2. PendingIsClosed' /\ AvailableRuns'
        BY <2>2, <2>3, <3>1 DEF Gate, PendingIsClosed, AvailableRuns
      <3>3. op'.kind = "none" /\ op' = Idle /\ pending' = pending
        BY <2>2, <2>3 DEF Idle
      <3>4. host' # "up" => pending' = None
        BY <2>2, <3>3 DEF Gate
      <3>5. QED
        BY <2>3, <3>2, <3>3, <3>4 DEF Gate, In
    <2>4. CASE /\ events'.maintenance /\ host' = host
               /\ op'.kind = "reset" /\ op'.at \in {"quiesce", "failed"}
      BY <2>2, <2>4 DEF Gate, PendingIsClosed, AvailableRuns, Available, In, Idle
    <2>5. QED
      BY <2>1, <2>3, <2>4
  <1>5. ASSUME Retry PROVE Gate'
    <2>1. \/ op' = Idle /\ events' = events /\ host' # "tool"
          \/ /\ events'.maintenance /\ host' = host
             /\ op'.kind = "reset" /\ op'.at \in {"quiesce", "failed"}
      BY <1>5 DEF Retry, InMaintenance, NotWritten, GoOn, Done, New, Mine, Doing,
             HostTypeOK, Operations, Idle
    <2>2. /\ UNCHANGED <<runtime, pending>>
          /\ host' = host \/ (host = "tool" /\ host' = "down" /\ op' = Idle)
          /\ op.kind = "reset"
      BY <1>5 DEF Retry, GoOn, Done, New, Mine, Doing
    <2>3. CASE op' = Idle /\ events' = events /\ host' # "tool"
      <3>1. Available' => Available
        BY <2>2, <2>3 DEF Available
      <3>2. PendingIsClosed' /\ AvailableRuns'
        BY <2>2, <2>3, <3>1 DEF Gate, PendingIsClosed, AvailableRuns
      <3>3. op'.kind = "none" /\ op' = Idle /\ pending' = pending
        BY <2>2, <2>3 DEF Idle
      <3>4. host' # "up" => pending' = None
        BY <2>2, <3>3 DEF Gate
      <3>5. QED
        BY <2>3, <3>2, <3>3, <3>4 DEF Gate, In
    <2>4. CASE /\ events'.maintenance /\ host' = host
               /\ op'.kind = "reset" /\ op'.at \in {"quiesce", "failed"}
      BY <2>2, <2>4 DEF Gate, PendingIsClosed, AvailableRuns, Available, In, Idle
    <2>5. QED
      BY <2>1, <2>3, <2>4
  <1>6. ASSUME DrainForReset PROVE Gate'
    BY <1>6 DEF DrainForReset, Doing, Drains, GoOn, DrainFails, Fault,
       HostTypeOK, Operations, ResetStages, Idle, Gate, PendingIsClosed,
       AvailableRuns, Available, In, Working, BeforeWipe, AfterWipe
  <1>7. ASSUME BackUp PROVE Gate'
    BY <1>7 DEF BackUp, Journaled, Doing, Written, GoOn, NotWritten, Fault,
       HostTypeOK, Operations, ResetStages, Idle, Gate, PendingIsClosed,
       AvailableRuns, Available, In, Working, BeforeWipe, AfterWipe
  <1>8. ASSUME CopyFails PROVE Gate'
    BY <1>8 DEF CopyFails, Doing, Fault, GoOn, HostTypeOK, Operations,
       ResetStages, Idle, Gate, PendingIsClosed, AvailableRuns, Available, In,
       Working, BeforeWipe, AfterWipe
  <1>9. ASSUME Announce PROVE Gate'
    BY <1>9 DEF Announce, Journaled, Doing, Written, GoOn, NotWritten,
       Fault, HostTypeOK, Operations, ResetStages, Idle, Gate,
       PendingIsClosed, AvailableRuns, Available, In, Working, BeforeWipe,
       AfterWipe
  <1>10. ASSUME WipeProduct PROVE Gate'
    BY <1>10 DEF WipeProduct, Doing, Wiped, GoOn, Fault, HostTypeOK,
       Operations, ResetStages, Idle, Gate, PendingIsClosed, AvailableRuns,
       Available, In, Working, BeforeWipe, AfterWipe
  <1>11. ASSUME Mark PROVE Gate'
    BY <1>11 DEF Mark, Journaled, Doing, Written, GoOn, NotWritten, Fault,
       HostTypeOK, Operations, ResetStages, Idle, Gate, PendingIsClosed,
       AvailableRuns, Available, In, Working, BeforeWipe, AfterWipe
  <1>12. ASSUME HandleFailure PROVE Gate'
    BY <1>12 DEF HandleFailure, Doing, Written, NotWritten, GoOn, Done,
       Fault, Idle, HostTypeOK, Operations, ResetStages, Gate,
       PendingIsClosed, AvailableRuns, Available, In, Working, BeforeWipe,
       AfterWipe
  <1>13. ASSUME Finish PROVE Gate'
    BY <1>13 DEF Finish, Doing, Resumes, GoOn, ResumeFails, Fault,
       HostTypeOK, Operations, ResetStages, Idle, Gate, PendingIsClosed,
       AvailableRuns, Available, In, Working, BeforeWipe, AfterWipe
  <1>14. ASSUME ReloadFailed PROVE Gate'
    BY <1>14 DEF ReloadFailed, Doing, Written, NotWritten, Done, Fault,
       Idle, HostTypeOK, Operations, ResetStages, Gate, PendingIsClosed,
       AvailableRuns, Available, In, Working, BeforeWipe, AfterWipe
  <1>15. ASSUME Finalize PROVE Gate'
    BY <1>15 DEF Finalize, Doing, Written, Completed, Closed, Fault, Done,
       EmptyJournal, Idle, HostTypeOK, Operations, ResetStages, Gate,
       PendingIsClosed, AvailableRuns, Available, In, Working, BeforeWipe,
       AfterWipe
  <1>16. QED
    BY <1>1, <1>2, <1>3, <1>4, <1>5, <1>6, <1>7, <1>8, <1>9, <1>10, <1>11,
       <1>12, <1>13, <1>14, <1>15 DEF ResetStep

(* Recovery, power and the process keep the gate as well. *)
LEMMA OtherStepsKeepGate ==
    ASSUME HostTypeOK, Gate, OtherStep
    PROVE  Gate'
  <1> USE HostLifecycleAssumption
  <1>1. ASSUME DrainForRecovery PROVE Gate'
    BY <1>1 DEF DrainForRecovery, Doing, Drains, GoOn, DrainFails, Done,
       Fault, Idle, HostTypeOK, Operations, ResetStages, Gate,
       PendingIsClosed, AvailableRuns, Available, In, Working, BeforeWipe,
       AfterWipe
  <1>2. ASSUME CommitRecovery PROVE Gate'
    BY <1>2 DEF CommitRecovery, Doing, Recovers, Closed, Fault, GoOn,
       HostTypeOK, Operations, ResetStages, Idle, Gate, PendingIsClosed,
       AvailableRuns, Available, In, Working, BeforeWipe, AfterWipe
  <1>3. ASSUME ResumeAfterRecovery PROVE Gate'
    BY <1>3 DEF ResumeAfterRecovery, Doing, Resumes, ResumeFails, Done,
       Fault, Idle, HostTypeOK, Operations, ResetStages, Gate,
       PendingIsClosed, AvailableRuns, Available, In, Working, BeforeWipe,
       AfterWipe
  <1>4. ASSUME PowerOff PROVE Gate'
    BY <1>4 DEF PowerOff, Doing, Drains, Switched, DrainFails,
       SwitchFailed, Done, Fault, Name, Idle, HostTypeOK, Operations,
       ResetStages, Gate, PendingIsClosed, AvailableRuns, Available, In,
       Working, BeforeWipe, AfterWipe
  <1>5. ASSUME PowerOn PROVE Gate'
    BY <1>5 DEF PowerOn, Doing, Resumes, Switched, ResumeFails,
       SwitchFailed, Done, Fault, Name, Idle, HostTypeOK, Operations,
       ResetStages, Gate, PendingIsClosed, AvailableRuns, Available, In,
       Working, BeforeWipe, AfterWipe
  <1>6. ASSUME Claim PROVE Gate'
    BY <1>6 DEF Claim, Available, Closed, HostTypeOK, Operations,
       ResetStages, Idle, Gate, PendingIsClosed, AvailableRuns, In, Working,
       BeforeWipe, AfterWipe
  <1>7. ASSUME HoldButton PROVE Gate'
    BY <1>7 DEF HoldButton, Available, HostTypeOK, Operations, ResetStages,
       Idle, Gate, PendingIsClosed, AvailableRuns, In, Working, BeforeWipe,
       AfterWipe
  <1>8. ASSUME WindowEnds PROVE Gate'
    BY <1>8 DEF WindowEnds, Closed, HostTypeOK, Operations, ResetStages,
       Idle, Gate, PendingIsClosed, AvailableRuns, Available, In, Working,
       BeforeWipe, AfterWipe
  <1>9. ASSUME Crash PROVE Gate'
    BY <1>9 DEF Crash, Fault, Idle, EmptyJournal, FreshEvents, HostTypeOK,
       Operations, ResetStages, Gate, PendingIsClosed, AvailableRuns,
       Available, In, Working, BeforeWipe, AfterWipe
  <1>10. ASSUME Boot PROVE Gate'
    BY <1>10 DEF Boot, FreshEvents, HostTypeOK, Operations, ResetStages,
       Idle, Gate, PendingIsClosed, AvailableRuns, Available, In, Working,
       BeforeWipe, AfterWipe
  <1>11. ASSUME NEW r \in Requests, AskReset(r) PROVE Gate'
    BY <1>11 DEF AskReset, Idle, Resetting, HostTypeOK, Operations,
       ResetStages, Gate, PendingIsClosed, AvailableRuns, Available, In,
       Working, BeforeWipe, AfterWipe
  <1>12. ASSUME NEW r \in Requests, RunTool(r) PROVE Gate'
    BY <1>12 DEF RunTool, Resetting, FreshEvents, HostTypeOK, Operations,
       ResetStages, Idle, Gate, PendingIsClosed, AvailableRuns, Available, In,
       Working, BeforeWipe, AfterWipe
  <1>13. ASSUME NEW r \in Recoveries, AskRecovery(r) PROVE Gate'
    BY <1>13 DEF AskRecovery, Idle, Available, InMaintenance, HostTypeOK,
       Operations, ResetStages, Gate, PendingIsClosed, AvailableRuns, In,
       Working, BeforeWipe, AfterWipe
  <1>14. ASSUME NEW r \in BOOLEAN, SwitchPower(r) PROVE Gate'
    BY <1>14 DEF SwitchPower, Idle, Name, Closed, HostTypeOK, Operations,
       ResetStages, Gate, PendingIsClosed, AvailableRuns, Available, In,
       Working, BeforeWipe, AfterWipe
  <1>15. QED
    BY <1>1, <1>2, <1>3, <1>4, <1>5, <1>6, <1>7, <1>8, <1>9, <1>10, <1>11,
       <1>12, <1>13, <1>14 DEF OtherStep

-----------------------------------------------------------------------------
(* The theorems *)

(* A step is one of a reset or one of everything else.                     *)
LEMMA Steps == Next <=> ResetStep \/ OtherStep
  BY Zenon DEF Next, OperationStep, OtherStep

(* The invariant holds of a host that starts for the first time.           *)
LEMMA InitEstablishes == Init => IInv
  <1> SUFFICES ASSUME Init PROVE IInv
    OBVIOUS
  <1>1. HostTypeOK
    BY InitTyped
  <1>2. Records
    BY DEF Init, Records, Kept, In, EmptyJournal, Idle, Working, BeforeWipe, AfterWipe
  <1>3. Gate
    BY DEF Init, Gate, PendingIsClosed, AvailableRuns, Available, In, FreshEvents, Idle
  <1>4. QED
    BY <1>1, <1>2, <1>3 DEF IInv

(* The invariant is inductive.                                             *)
LEMMA StepKeeps == IInv /\ [Next]_vars => IInv'
  <1> SUFFICES ASSUME IInv, [Next]_vars PROVE IInv'
    OBVIOUS
  <1>1. HostTypeOK /\ Records /\ Gate
    BY DEF IInv
  <1>2. CASE ResetStep
    BY <1>1, <1>2, ResetStepsTyped, ResetStepsKeepRecords, ResetStepsKeepGate DEF IInv
  <1>3. CASE OtherStep
    BY <1>1, <1>3, OtherStepsTyped, OtherStepsKeepRecords, OtherStepsKeepGate DEF IInv
  <1>4. CASE UNCHANGED vars
    <2>1. HostTypeOK'
      BY <1>1, <1>4 DEF vars, HostTypeOK
    <2>2. Records'
      BY <1>1, <1>4 DEF vars, Records, Kept, In
    <2>3. Gate'
      BY <1>1, <1>4 DEF vars, Gate, PendingIsClosed, AvailableRuns, Available, In
    <2>4. QED
      BY <2>1, <2>2, <2>3 DEF IInv
  <1>5. QED
    BY <1>2, <1>3, <1>4, Steps

(* Journal, receipts, gate and runtime agree in every reachable state.     *)
THEOREM Invariance == Spec => []IInv
  <1>1. QED
    BY InitEstablishes, StepKeeps, PTL DEF Spec

(* Types; no crash and no journal write that failed makes the journal on   *)
(* disk forget a wipe that has not been completed, so that an ordinary     *)
(* start refuses; and what is served is a whole product: no ownership      *)
(* change is unfinished and the runtime works, whatever failed before.     *)
THEOREM ProductIsWhole == Spec => []ProductInv
  <1>1. IInv => ProductInv
    BY DEF IInv, Records, Kept, Gate, ProductInv, WipeIsJournaled, AvailableIsWhole
  <1>2. QED
    BY <1>1, Invariance, PTL

-----------------------------------------------------------------------------
(* The contract *)

(* Only the wipe touches what the contract of a reset is about, and an     *)
(* operation that answers its request has found the receipt.               *)
Answers ==
    /\ op.req \in Requests /\ op.req \in db.receipts
    /\ told' = told \cup {op.req}

Apart ==
    /\ db'.receipts = db.receipts /\ db'.generation = db.generation
    /\ told' = told \/ Answers

(* A step of a reset wipes, or leaves generation and receipts alone.       *)
LEMMA ResetStepsApart ==
    ASSUME IInv, ResetStep
    PROVE  WipeProduct \/ Apart
  <1>1. CASE RepeatReceipt
    <2>1. op.req \in Requests /\ host # "down"
      BY <1>1, ResetRequest DEF IInv, RepeatReceipt, Mine, Doing, Records, Idle
    <2>2. op.req \in db.receipts
      BY <1>1, <2>1 DEF IInv, RepeatReceipt, Records, Kept
    <2>3. QED
      BY <1>1, <2>1, <2>2 DEF RepeatReceipt, Apart, Answers
  <1>2. CASE Finalize
    <2>1. op.req \in Requests /\ op.req \in db.receipts
      BY <1>2, ResetRequest DEF IInv, Finalize, Doing, Records, In, AfterWipe
    <2>2. QED
      BY <1>2, <2>1 DEF Finalize, Apart, Answers
  <1>3. CASE /\ ~RepeatReceipt /\ ~Finalize /\ ~WipeProduct
    <2>1. UNCHANGED <<db, told>>
      BY <1>3
      DEF ResetStep, RefuseReset, RecoverReceipt, Prepare, Retry, DrainForReset, BackUp,
          Announce, Mark, Journaled, CopyFails, HandleFailure, Finish, ReloadFailed
    <2>2. QED
      BY <2>1 DEF Apart
  <1>4. QED
    BY <1>1, <1>2, <1>3

(* Nothing else wipes or answers.                                          *)
LEMMA OtherStepsApart ==
    ASSUME IInv, OtherStep
    PROVE  Apart
  <1>1. UNCHANGED told
    BY DEF OtherStep, DrainForRecovery, CommitRecovery, ResumeAfterRecovery, PowerOff,
           PowerOn, Claim, HoldButton, WindowEnds, Crash, Boot, AskReset, RunTool,
           AskRecovery, SwitchPower
  <1>2. db \in [generation : Nat, receipts : SUBSET Requests, owned : BOOLEAN,
                proof : Recoveries \cup {None}, recovered : SUBSET Recoveries]
    BY DEF IInv, HostTypeOK
  <1>3. CASE Claim
    BY <1>1, <1>2, <1>3 DEF Claim, Apart
  <1>4. CASE CommitRecovery
    BY <1>1, <1>2, <1>4 DEF CommitRecovery, Apart
  <1>5. CASE ~Claim /\ ~CommitRecovery
    <2>1. UNCHANGED db
      BY <1>5
      DEF OtherStep, DrainForRecovery, ResumeAfterRecovery, PowerOff, PowerOn,
          HoldButton, WindowEnds, Crash, Boot, AskReset, RunTool, AskRecovery, SwitchPower
    <2>2. QED
      BY <1>1, <2>1 DEF Apart
  <1>6. QED
    BY <1>3, <1>4, <1>5

(* Both together, and stuttering.                                          *)
LEMMA StepsApart ==
    ASSUME IInv, [Next]_vars
    PROVE  WipeProduct \/ Apart
  <1>1. CASE UNCHANGED vars
    BY <1>1 DEF vars, Apart
  <1>2. QED
    BY <1>1, ResetStepsApart, OtherStepsApart, Steps

(* A wipe happens in a closed and drained product.                         *)
THEOREM WipesAreDrained == Spec => WipesDrained
  <1> DEFINE A == db'.generation # db.generation =>
                    /\ events.maintenance
                    /\ host = "up" => runtime = "drained"
  <1>1. ASSUME IInv, [Next]_vars PROVE A
    <2>1. CASE WipeProduct
      BY <1>1, <2>1 DEF IInv, Gate, WipeProduct, Doing, In, Working, BeforeWipe
    <2>2. CASE Apart
      BY <2>2 DEF Apart
    <2>3. QED
      BY <1>1, <2>1, <2>2, StepsApart
  <1>2. IInv /\ [Next]_vars => [A]_vars
    BY <1>1
  <1> HIDE DEF A
  <1>3. Spec => [][A]_vars
    BY <1>2, Invariance, PTL DEF Spec
  <1>4. QED
    BY <1>3 DEF WipesDrained, A

(* The host implements the contract of a reset: whatever fails, a request  *)
(* wipes the product at most once, and gets its receipt after that.        *)
THEOREM ContractIsKept == Spec => ImplementsContract
  <1>1. Init => Contract!ContractInit
    BY DEF Init, Contract!ContractInit
  <1>2. ASSUME IInv, [Next]_vars
        PROVE  [Contract!ContractNext]_<<db.receipts, told, db.generation>>
    <2>1. CASE WipeProduct
      <3>1. op.req \in Requests /\ op.req \notin db.receipts /\ told' = told
        BY <1>2, <2>1, ResetRequest
        DEF IInv, Records, WipeProduct, Doing, In, BeforeWipe
      <3>2. db \in [generation : Nat, receipts : SUBSET Requests, owned : BOOLEAN,
                    proof : Recoveries \cup {None}, recovered : SUBSET Recoveries]
        BY <1>2 DEF IInv, HostTypeOK
      <3>3. db' = db \/ db' = Wiped
        BY <2>1 DEF WipeProduct
      <3>4. CASE db' = db
        BY <3>1, <3>4
      <3>5. CASE db' = Wiped
        <4>1. /\ db'.receipts = db.receipts \cup {op.req}
              /\ db'.generation = db.generation + 1
          BY <3>2, <3>5 DEF Wiped
        <4>2. Contract!Wipe(op.req)
          BY <3>1, <4>1 DEF Contract!Wipe
        <4>3. QED
          BY <3>1, <4>2 DEF Contract!ContractNext
      <3>6. QED
        BY <3>3, <3>4, <3>5
    <2>2. CASE Apart
      <3>1. CASE told' = told
        BY <2>2, <3>1 DEF Apart
      <3>2. CASE Answers
        <4>1. Contract!Tell(op.req)
          BY <2>2, <3>2 DEF Apart, Answers, Contract!Tell
        <4>2. QED
          BY <3>2, <4>1 DEF Answers, Contract!ContractNext
      <3>3. QED
        BY <2>2, <3>1, <3>2 DEF Apart
    <2>3. QED
      BY <1>2, <2>1, <2>2, StepsApart
  <1>3. QED
    BY <1>1, <1>2, Invariance, PTL DEF Spec, ImplementsContract, Contract!ContractSpec
=============================================================================
