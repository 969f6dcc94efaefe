------------------------ MODULE EnrollmentRequests -------------------------
(***************************************************************************)
(* An enrollment from the phone's request to the saved face: the receipt   *)
(* of EnrollmentRequestStore, the session of the runtime that works on it, *)
(* the accounts of SecurityStore changing meanwhile, and a host that may   *)
(* die at any point and is started again by systemd.                       *)
(*                                                                         *)
(* The product is claimed and every account has paired one device.  Camera *)
(* and samples are FaceSessions' subject; here a session tries to activate *)
(* its receipt and then to complete it, or ends otherwise.  The database   *)
(* may refuse any write of a receipt's end: the session ends all the same, *)
(* and its receipt stays as it is until the host is started again.         *)
(***************************************************************************)
EXTENDS SecurityStore

CONSTANTS
    Requests,       \* request ids of the phones, taken in order; also the templates
    MaxCrashes      \* bound of the model: deaths of the host

VARIABLES
    receipt,    \* receipt[r]: the row of enrollment_requests
    job,        \* job[r]: the session in memory: none, asked, started, capturing
    host,       \* up or down
    crashes,    \* bound
    spent,      \* history: spent[r], grants consumed for the request
    runs,       \* history: runs[r], sessions dispatched for it
    refused,    \* history: requests whose end this process could not write
    trust       \* history: requests whose authority has held since acceptance

evars == <<receipt, job, host, crashes, spent, runs, refused, trust>>
avars == <<user, device, grants, invites, ownership, owner, caller, wrong>>
allvars == <<svars, evars>>

Pending == {"accepted", "active"}
Final == {"completed", "failed", "cancelled", "interrupted"}
NoReceipt == [state |-> "none", device |-> None, user |-> None, version |-> 0,
              target |-> None, targetVersion |-> 0]

ASSUME EnrollmentAssumption ==
    /\ MaxCrashes \in Nat /\ Requests = Faces /\ Requests \subseteq Nat
    /\ Users \subseteq Devices

EInit ==
    /\ profile \in Profiles
    /\ ownership = "claimed"
    /\ owner \in Users /\ \A u \in Users : owner <= u      \* who claims takes the first id
    /\ \E admin \in Users :
         user = [u \in Users |-> [Account EXCEPT !.admin = u \in {owner, admin}]]
    /\ device = [d \in Devices |-> IF d \in Users THEN Row(d, "mobile") ELSE NoDevice]
    /\ grants = {} /\ invites = {} /\ caller = None
    /\ wrong = [u \in Users |-> 0]
    /\ receipt = [r \in Requests |-> NoReceipt]
    /\ job = [r \in Requests |-> "none"]
    /\ host = "up" /\ crashes = 0
    /\ spent = [r \in Requests |-> 0] /\ runs = [r \in Requests |-> 0]
    /\ refused = {} /\ trust = {}

(* History: what the authority of a request rests on is unchanged.  The PIN *)
(* shows in the device, which a new PIN revokes.                            *)
Standing(u) == <<user[u].state, user[u].admin, user[u].access, user[u].face, owner = u>>
Kept(r) ==
    /\ device'[receipt[r].device] = device[receipt[r].device]
    /\ \A u \in {receipt[r].user, receipt[r].target} : Standing(u)' = Standing(u)
Trusted == {r \in trust : Kept(r)}

NewRequest(r) ==
    /\ receipt[r].state = "none"
    /\ \A q \in Requests : receipt[q].state = "none" => r <= q

Idle == \A r \in Requests : job[r] = "none"
Barrier == \E r \in Requests : job[r] = "asked"     \* held by an enrollment request

-----------------------------------------------------------------------------
(* The request *)

(* Mutant: the grant is taken although the receipt is there already. *)
ReserveAgain(p, r, t) ==
    /\ MayAct(p, "enrollment.start", t) /\ Active(t)
    /\ NewRequest(r) \/ (receipt[r].device = p.device /\ receipt[r].target = t)
    /\ grants' = Left(p, "enrollment.start", t)
    /\ receipt' = IF receipt[r].state # "none" THEN receipt ELSE [receipt EXCEPT ![r] =
         [state |-> "accepted", device |-> p.device, user |-> p.user,
          version |-> p.version, target |-> t, targetVersion |-> user[t].version]]
    /\ job' = IF receipt[r].state # "none" THEN job ELSE [job EXCEPT ![r] = "asked"]
    /\ spent' = [spent EXCEPT ![r] = @ + 1]
    /\ trust' = trust \cup {r}

(* reserve: a new id takes its grant and stores the receipt at once. *)
Reserve(p, r, t) ==
    /\ MayAct(p, "enrollment.start", t) /\ Active(t)
    /\ NewRequest(r)
    /\ grants' = Left(p, "enrollment.start", t)
    /\ receipt' = [receipt EXCEPT ![r] =
         [state |-> "accepted", device |-> p.device, user |-> p.user,
          version |-> p.version, target |-> t, targetVersion |-> user[t].version]]
    /\ job' = [job EXCEPT ![r] = "asked"]
    /\ spent' = [spent EXCEPT ![r] = @ + 1]
    /\ trust' = trust \cup {r}

Request(p, r, t) ==
    /\ host = "up" /\ ~Barrier /\ Served(p)
    /\ Reserve(p, r, t)
    /\ UNCHANGED <<user, device, invites, ownership, owner, wrong, profile, host, crashes, runs,
                   refused>>

(* Mutant: only a receipt that was activated is settled. *)
FinalizedActive(r, state) ==
    IF receipt[r].state = "active" THEN [receipt EXCEPT ![r].state = state] ELSE receipt

(* finalize *)
Finalized(r, state) ==
    IF receipt[r].state \in Pending THEN [receipt EXCEPT ![r].state = state] ELSE receipt

(* finalize is a transaction: when it raises, _finish and                   *)
(* _finalize_unstarted_enrollment end the session without it.               *)
Finalize(r, state) ==
    \/ /\ receipt' = Finalized(r, state)
       /\ UNCHANGED refused
    \/ /\ receipt[r].state \in Pending
       /\ refused' = refused \cup {r}
       /\ UNCHANGED receipt

(* start_enrollment: one session at a time; a refusal fails the receipt. *)
Dispatch(r) ==
    /\ job[r] = "asked"
    /\ \/ /\ \A q \in Requests \ {r} : job[q] \in {"none", "asked"}
          /\ Active(receipt[r].target)
          /\ job' = [job EXCEPT ![r] = "started"]
          /\ runs' = [runs EXCEPT ![r] = @ + 1]
          /\ UNCHANGED <<receipt, refused>>
       \/ /\ job' = [job EXCEPT ![r] = "none"]
          /\ Finalize(r, "failed")
          /\ UNCHANGED runs
    /\ UNCHANGED <<svars, host, crashes, spent, trust>>

-----------------------------------------------------------------------------
(* The session *)

(* Mutant: the receipt's target may have changed meanwhile. *)
AuthorizedActor(r) ==
    LET q == receipt[r] IN
    /\ ActiveDevice(q.device) /\ device[q.device].user = q.user
    /\ user[q.user].version = q.version
    /\ Active(q.target)
    /\ RoleAllows(Principal(q.device), "enrollment.start", q.target)

(* _require_completion_authorization *)
Authorized(r) ==
    LET q == receipt[r] IN
    /\ ActiveDevice(q.device) /\ device[q.device].user = q.user
    /\ user[q.user].version = q.version
    /\ Active(q.target) /\ user[q.target].version = q.targetVersion
    /\ RoleAllows(Principal(q.device), "enrollment.start", q.target)

EndJob(r) == job' = [job EXCEPT ![r] = "none"]

Activate(r) ==
    /\ job[r] = "started"
    /\ IF receipt[r].state = "accepted" /\ Authorized(r)
       THEN /\ receipt' = [receipt EXCEPT ![r].state = "active"]
            /\ job' = [job EXCEPT ![r] = "capturing"]
            /\ UNCHANGED refused
       ELSE /\ Finalize(r, "failed")
            /\ EndJob(r)
    /\ UNCHANGED <<svars, host, crashes, spent, runs, trust>>

(* complete: the face, its trigger and the receipt in one transaction. *)
SaveFace(r) ==
    LET t == receipt[r].target IN
    /\ job[r] = "capturing" /\ EndJob(r)
    /\ receipt[r].state = "active" /\ Authorized(r)
    /\ receipt' = [receipt EXCEPT ![r].state = "completed"]
    /\ user' = [user EXCEPT ![t] = [Bumped(t) EXCEPT !.face = r]]
    /\ IdentityChanged({t}, grants)
    /\ UNCHANGED <<device, ownership, owner, caller, wrong, profile, host, crashes, spent, runs,
                   refused>>
    /\ trust' = Trusted

(* complete finds a final state or is refused; a timeout; an error. *)
GiveUp(r) ==
    /\ job[r] \in {"started", "capturing"} /\ EndJob(r)
    /\ Finalize(r, "failed")
    /\ UNCHANGED <<svars, host, crashes, spent, runs, trust>>

(* _cancel_enrollment_session, whoever asks: the session notices later.  A  *)
(* cancel whose write raises leaves everything as it was.                   *)
Cancel(r) ==
    /\ job[r] \in {"started", "capturing"}
    /\ receipt[r].state \in Pending
    /\ receipt' = Finalized(r, "cancelled")
    /\ UNCHANGED <<svars, job, host, crashes, spent, runs, refused, trust>>

-----------------------------------------------------------------------------
(* The host *)

Crash ==
    /\ host = "up" /\ crashes < MaxCrashes
    /\ host' = "down" /\ crashes' = crashes + 1
    /\ job' = [r \in Requests |-> "none"]
    /\ caller' = None
    /\ UNCHANGED <<user, device, grants, invites, ownership, owner, wrong, profile,
                   receipt, spent, runs, refused, trust>>

(* Mutant: only receipts whose session had begun are interrupted. *)
InterruptActive ==
    [r \in Requests |-> IF receipt[r].state = "active"
                        THEN [receipt[r] EXCEPT !.state = "interrupted"] ELSE receipt[r]]

(* interrupt_pending *)
InterruptPending ==
    [r \in Requests |-> IF receipt[r].state \in Pending
                        THEN [receipt[r] EXCEPT !.state = "interrupted"] ELSE receipt[r]]

Boot ==
    /\ host = "down" /\ host' = "up"
    /\ receipt' = InterruptPending
    /\ refused' = {}
    /\ UNCHANGED <<svars, job, crashes, spent, runs, trust>>

(* The other requests and the passing of time.  A recovery and a reset wait *)
(* until no session is left, and a reset deletes the receipts.              *)
Accounts ==
    /\ host = "up" /\ ~Barrier /\ SNext
    /\ ownership' # ownership \/ (\E d \in Devices : NewDevice(d) /\ Recover(d)) => Idle
    /\ receipt' = IF ownership' = "unclaimed"
                  THEN [r \in Requests |-> IF receipt[r].state = "none" THEN NoReceipt
                                           ELSE [NoReceipt EXCEPT !.state = "gone"]]
                  ELSE receipt
    /\ trust' = IF ownership' = "unclaimed" THEN {} ELSE Trusted
    /\ UNCHANGED <<job, host, crashes, spent, runs, refused>>

Session(r) == Activate(r) \/ SaveFace(r) \/ GiveUp(r)

ENext ==
    \/ \E p \in Presented, r \in Requests, t \in Users : Request(p, r, t)
    \/ \E r \in Requests : Dispatch(r) \/ Session(r) \/ Cancel(r)
    \/ Crash
    \/ Boot
    \/ Accounts

(* Threads run on, and systemd starts the host again (Restart=). *)
EFairness ==
    /\ WF_allvars(Boot)
    /\ \A r \in Requests : WF_allvars(Dispatch(r)) /\ WF_allvars(Session(r))

ESpec == EInit /\ [][ENext]_allvars /\ EFairness

-----------------------------------------------------------------------------
(* Properties *)

(* Type invariant of the receipts, the sessions and the histories. *)
EnrollmentTypeOK ==
    /\ receipt \in [Requests -> [state : Pending \cup Final \cup {"none", "gone"},
                                 device : Devices \cup {None}, user : Users \cup {None},
                                 version : Nat, target : Users \cup {None},
                                 targetVersion : Nat]]
    /\ job \in [Requests -> {"none", "asked", "started", "capturing"}]
    /\ host \in {"up", "down"} /\ crashes \in 0..MaxCrashes
    /\ spent \in [Requests -> Nat] /\ runs \in [Requests -> Nat]
    /\ refused \subseteq Requests /\ trust \subseteq Requests

(* Whenever the host answers, a receipt it calls pending has a session that *)
(* will try to settle it, or the database has refused that session's last   *)
(* write since the host was started: neither a death of the host nor a      *)
(* refused start leaves one behind in silence.  A session that runs on      *)
(* after its receipt was settled can no longer be the second one at the     *)
(* camera, and a receipt nobody works on is never completed.                *)
PendingIsWorkedOn ==
    /\ host = "up" => \A r \in Requests :
         receipt[r].state \in Pending => job[r] # "none" \/ r \in refused
    /\ \A r \in refused : job[r] = "none" /\ receipt[r].state # "completed"
    /\ Cardinality({r \in Requests : job[r] \in {"started", "capturing"}}) <= 1

(* A phone that repeats its request, before or after a restart, spends one  *)
(* grant and gets one session for it.                                       *)
OncePerRequest == \A r \in Requests : spent[r] <= 1 /\ runs[r] <= spent[r]

(* The receipts, the faces and the history of their authority implement     *)
(* EnrollmentOutcome.                                                       *)
Outcome(r) ==
    CASE receipt[r].state = "none" -> "none"
      [] receipt[r].state \in Pending -> "pending"
      [] receipt[r].state = "completed" -> "saved"
      [] receipt[r].state = "gone" -> "forgotten"
      [] OTHER -> "ended"

Contract == INSTANCE EnrollmentOutcome WITH
    People <- Users, Nobody <- None,
    outcome <- [r \in Requests |-> Outcome(r)],
    template <- [u \in Users |-> user[u].face],
    trusted <- trust

ImplementsOutcome == Contract!OutcomeSpec

(* Every accepted enrollment is settled, whatever is revoked meanwhile and  *)
(* even if the host dies.  Only a refused write holds it up, and only while *)
(* that host lives: its death makes the receipt one to be settled again.    *)
HeldUp(r) == r \in refused /\ host = "up"
EnrollmentSettles ==
    \A r \in Requests :
        receipt[r].state \in Pending /\ ~HeldUp(r)
            ~> receipt[r].state \notin Pending \/ HeldUp(r)
=============================================================================
