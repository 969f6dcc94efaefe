--------------------------- MODULE SecurityStore ---------------------------
(***************************************************************************)
(* The accounts of the product: who may sign in, from which device, with   *)
(* which role, and which one operation an entered PIN has paid for.  It is *)
(* the identity database of SecurityStore with the triggers of its schema, *)
(* and the ownership of CommissioningStore.                                *)
(*                                                                         *)
(* One step is one transaction; a protected request is one step too,       *)
(* because it holds the product barrier from the check of its principal to *)
(* its last write.  The principal itself is read before that barrier:      *)
(* `caller` is a request between the two.                                  *)
(*                                                                         *)
(* Time is not counted: what expires (a grant, an invitation, a dashboard  *)
(* session, a lockout) may do so at any moment and in any order.  A row    *)
(* that has expired is dropped at once; the code stops honouring it then   *)
(* and deletes it later.                                                   *)
(***************************************************************************)
EXTENDS Naturals, FiniteSets, FiniteSetsExt

CONSTANTS
    Users,              \* account ids, taken in order; none is used twice
    Devices,            \* ids of paired devices and dashboard sessions, likewise
    Faces,              \* face templates; one names the enrollment it came from
    PinMaxFailures,     \* wrong PINs that lock an account
    FaceLimit,          \* the setting lockout_after
    MaxMobileDevices,   \* device rows kept for one account
    MaxGrants,          \* live grants of one device
    MaxChanges,         \* bound of the model: see Load
    MaxOpen,            \* bound of the model: open grants and invitations
    Profiles,           \* bound of the model: what one behaviour is about
    None

VARIABLES
    user,       \* user[u]: the rows of users and user_security
    device,     \* device[d]: the row of paired_devices
    grants,     \* operation_grants
    invites,    \* pairing_invites
    ownership,  \* commissioning_state: unclaimed, claimed or legacy
    owner,      \* and its owner_user_id
    caller,     \* g.principal of a request that waits for the barrier, or None
    wrong,      \* history: wrong PINs compared for u since its counter was due to restart
    profile     \* the operations and events this behaviour may meet; never changes

svars == <<user, device, grants, invites, ownership, owner, caller, wrong, profile>>

AdminActions == {"user.create", "user.delete", "user.access", "user.pin", "user.role",
                 "device.revoke", "pairing.invite", "settings.update"}
OwnerActions == {"user.role"}
OwnerProtected == {"user.delete", "user.access", "user.pin", "device.revoke",
                   "pairing.invite", "enrollment.start"}
OwnActions == {"scan"}      \* scans, lock, ignition stop and reset: one's own only
Actions == AdminActions \cup OwnActions \cup {"enrollment.start"}
Events == {"failures", "late", "legacy", "recovery", "reset"}

ASSUME SecurityStoreAssumption ==
    /\ PinMaxFailures \in Nat \ {0} /\ FaceLimit \in Nat \ {0}
    /\ MaxMobileDevices \in Nat \ {0} /\ MaxGrants \in Nat \ {0}
    /\ MaxChanges \in Nat /\ MaxOpen \in Nat
    /\ Users \subseteq Nat /\ Devices \subseteq Nat
    /\ Profiles \subseteq SUBSET (Actions \cup Events)
    /\ None \notin Users \cup Devices \cup Faces

NoUser == [state |-> "new", admin |-> FALSE, access |-> TRUE, face |-> None, version |-> 1,
           fails |-> 0, locked |-> FALSE, faceFails |-> 0, faceLocked |-> FALSE]
Account == [NoUser EXCEPT !.state = "active"]
NoDevice == [state |-> "free", user |-> None, kind |-> "mobile"]

Active(u) == user[u].state = "active"
Admins == {u \in Users : Active(u) /\ user[u].admin}
ActiveDevice(d) == device[d].state = "active" /\ Active(device[d].user)
NewUser(u) == user[u].state = "new" /\ \A v \in Users : user[v].state = "new" => u <= v
NewDevice(d) == device[d].state = "free" /\ \A e \in Devices : device[e].state = "free" => d <= e
DevicesOf(u) == {d \in Devices : device[d].user = u /\ device[d].state \in {"active", "revoked"}}

(* A database from before ownership ("legacy") has an administrator. *)
Init ==
    /\ profile \in Profiles
    /\ IF "legacy" \in profile
       THEN /\ ownership = "legacy"
            /\ \E newest \in Users, a \in Users :
                 /\ a <= newest
                 /\ user = [u \in Users |-> [(IF u <= newest THEN Account ELSE NoUser)
                                                EXCEPT !.admin = u = a]]
       ELSE ownership = "unclaimed" /\ user = [u \in Users |-> NoUser]
    /\ device = [d \in Devices |-> NoDevice]
    /\ grants = {} /\ invites = {}
    /\ owner = None /\ caller = None
    /\ wrong = [u \in Users |-> 0]

-----------------------------------------------------------------------------
(* Who is asking, and what a role allows *)

Principal(d) ==
    LET u == device[d].user IN
    [device |-> d, user |-> u, admin |-> user[u].admin, version |-> user[u].version,
     owner |-> u = owner]

(* _require_principal: nothing about the caller has changed. *)
Current(p) == ActiveDevice(p.device) /\ p = Principal(p.device)

Presented == {Principal(d) : d \in {e \in Devices : ActiveDevice(e)}} \cup ({caller} \ {None})
Served(p) == caller' = IF p = caller THEN None ELSE caller

OwnerOf(a, t) == IF a = "device.revoke" THEN device[t].user = owner ELSE t = owner

(* Mutant: an administrator may also work on the account of the owner. *)
RoleIgnoresOwner(p, a, t) ==
    /\ a \in AdminActions => p.admin
    /\ a \in OwnerActions => p.owner
    /\ a = "enrollment.start" => p.admin \/ t = p.user
    /\ a \in OwnActions => t = p.user

RoleAllows(p, a, t) ==
    /\ a \in AdminActions => p.admin
    /\ a \in OwnerActions => p.owner
    /\ a = "enrollment.start" => p.admin \/ t = p.user
    /\ a \in OwnActions => t = p.user
    /\ a \in OwnerProtected /\ owner # None /\ OwnerOf(a, t) => p.owner

Targets(a) ==
    IF a = "user.create" THEN {None}
    ELSE IF a = "device.revoke" THEN {d \in Devices : device[d].state = "active"}
    ELSE {u \in Users : Active(u)}

(* Bound of the model: identities changed, and failures that still count. *)
Load == MapThenSumSet(LAMBDA u : user[u].version - 1 + wrong[u] + user[u].faceFails
                                   + (IF user[u].faceLocked THEN 1 ELSE 0), Users)
Roomy(us) == Load + Cardinality(us) <= MaxChanges
NotFull == Cardinality(grants) + Cardinality(invites) < MaxOpen

-----------------------------------------------------------------------------
(* What a change of an identity takes with it *)

(* Mutant: only the grants of the changed accounts go, not those about them. *)
GrantsOfActorOnly(us) == {g \in grants : g.user \notin us}

GrantsWithout(us) == {g \in grants : g.user \notin us /\ g.target \notin us}
GrantsOff(ds) == {g \in grants : g.device \notin ds}
InvitesOff(ds) == {i \in invites : i.device \notin ds}

(* History: a row does not outlive the facts its issue rested on. *)
Doubt(rows, us, ds) ==
    {[r EXCEPT !.sound = @ /\ r.user \notin us /\ r.target \notin us /\ r.device \notin ds] :
        r \in rows}
DoubtInvites(rows, us, ds, ts) ==
    {[r EXCEPT !.sound = @ /\ r.user \notin us /\ r.device \notin ds /\ r.target \notin ts] :
        r \in rows}

Bumped(u) == [user[u] EXCEPT !.version = @ + 1]
WithPin(row) == [row EXCEPT !.fails = 0, !.locked = FALSE]

(* _revoke_user_credentials *)
Revoked(u) == [d \in Devices |->
    IF device[d].user = u /\ device[d].state = "active"
    THEN [device[d] EXCEPT !.state = "revoked"] ELSE device[d]]
InvitesWithout(u) == {i \in invites : i.user # u /\ i.target # u}

Put(d, row) == [device EXCEPT ![d] = row]
Row(u, kind) == [state |-> "active", user |-> u, kind |-> kind]
Off(d, state) == [device EXCEPT ![d].state = state]

(* The trigger on active, access and template, and _revoke_user_credentials. *)
IdentityChanged(us, left) ==
    /\ grants' = Doubt(left \cap GrantsWithout(us), us, {})
    /\ invites' = DoubtInvites(invites, us, {}, {})

PinReplaced(u, left) ==
    /\ device' = Revoked(u)
    /\ grants' = Doubt(left \cap GrantsWithout({u}), {u}, DevicesOf(u))
    /\ invites' = DoubtInvites(InvitesWithout(u), {u}, DevicesOf(u), {u})
    /\ wrong' = [wrong EXCEPT ![u] = 0]

(* Mutant: only the last administrator is kept. *)
MayLeaveUnlessLast(u) == u \in Admins => Admins # {u}

(* The triggers that keep an administrator, the owner and one regular      *)
(* administrator; a step they abort has no effect but its spent grant.     *)
MayLeave(u) == u # owner /\ (u \in Admins => Admins # {u})

-----------------------------------------------------------------------------
(* PINs *)

(* Mutant: the refusal is raised inside the transaction, which rolls back. *)
MismatchRolledBack(row) == row

(* verify_pin with a wrong PIN, in the caller's transaction. *)
Mismatch(row) ==
    IF row.fails + 1 >= PinMaxFailures THEN [row EXCEPT !.fails = 0, !.locked = TRUE]
    ELSE [row EXCEPT !.fails = @ + 1]

WrongPin(u) ==
    /\ Active(u) /\ ~user[u].locked /\ Roomy({u})
    /\ user' = [user EXCEPT ![u] = Mismatch(@)]
    /\ wrong' = [wrong EXCEPT ![u] = @ + 1]
    /\ UNCHANGED <<device, grants, invites, ownership, owner, caller>>

RightPin(u) ==
    /\ Active(u) /\ ~user[u].locked
    /\ wrong' = [wrong EXCEPT ![u] = 0]

(* confirm_session: the PIN is checked and nothing is granted. *)
ConfirmSession(p) ==
    /\ Current(p) /\ RightPin(p.user) /\ Served(p)
    /\ user' = [user EXCEPT ![p.user] = WithPin(@)]
    /\ UNCHANGED <<device, grants, invites, ownership, owner>>

PinLockoutEnds(u) ==
    /\ user[u].locked
    /\ user' = [user EXCEPT ![u].locked = FALSE]
    /\ wrong' = [wrong EXCEPT ![u] = 0]
    /\ UNCHANGED <<device, grants, invites, ownership, owner, caller>>

-----------------------------------------------------------------------------
(* Face results of a scan, counted apart from the PIN *)

FaceResult(p, matched) ==
    LET row == user[p.user] IN
    /\ Current(p) /\ row.access /\ ~row.faceLocked /\ (matched \/ Roomy({p.user}))
    /\ user' = [user EXCEPT ![p.user] =
         IF matched THEN [row EXCEPT !.faceFails = 0]
         ELSE IF row.faceFails + 1 >= FaceLimit
              THEN [row EXCEPT !.faceFails = 0, !.faceLocked = TRUE]
         ELSE [row EXCEPT !.faceFails = @ + 1]]
    /\ Served(p)
    /\ UNCHANGED <<device, grants, invites, ownership, owner, wrong>>

FaceLockoutEnds(u) ==
    /\ user[u].faceLocked
    /\ user' = [user EXCEPT ![u].faceLocked = FALSE]
    /\ UNCHANGED <<device, grants, invites, ownership, owner, caller, wrong>>

-----------------------------------------------------------------------------
(* Grants *)

(* authorize: the grant replaces one for the same operation and target. *)
Authorize(p, a, t) ==
    LET rest == {g \in grants : ~(g.device = p.device /\ g.action = a /\ g.target = t)} IN
    /\ Current(p) /\ RoleAllows(p, a, t) /\ RightPin(p.user)
    /\ a = "scan" => user[p.user].access
    /\ Cardinality({g \in rest : g.device = p.device}) < MaxGrants /\ NotFull
    /\ user' = [user EXCEPT ![p.user] = WithPin(@)]
    /\ grants' = rest \cup {[device |-> p.device, user |-> p.user, action |-> a, target |-> t,
                              version |-> p.version, sound |-> TRUE]}
    /\ Served(p)
    /\ UNCHANGED <<device, invites, ownership, owner>>

Matching(p, a, t) ==
    {g \in grants : g.device = p.device /\ g.user = p.user /\ g.action = a /\ g.target = t
                    /\ g.version = p.version}

(* consume_grant at the start of a protected request. *)
MayAct(p, a, t) == Current(p) /\ RoleAllows(p, a, t) /\ Matching(p, a, t) # {}
Left(p, a, t) == grants \ Matching(p, a, t)

(* The work is another module's, or the handler refuses, or the host dies. *)
(* An enrollment's grant goes with its receipt only (EnrollmentRequests).   *)
SpendOnly(p, a, t) ==
    /\ a # "enrollment.start" /\ MayAct(p, a, t) /\ Served(p)
    /\ grants' = Left(p, a, t)
    /\ UNCHANGED <<user, device, invites, ownership, owner, wrong>>

-----------------------------------------------------------------------------
(* The operations of an administrator *)

CreateUser(p, u) ==
    /\ MayAct(p, "user.create", None) /\ Served(p)
    /\ NewUser(u)
    /\ user' = [user EXCEPT ![u] = Account]
    /\ grants' = Left(p, "user.create", None)
    /\ UNCHANGED <<device, invites, ownership, owner, wrong>>

DeleteUser(p, u) ==
    /\ MayAct(p, "user.delete", u) /\ Served(p)
    /\ Active(u) /\ MayLeave(u) /\ Roomy({u})
    /\ user' = [user EXCEPT ![u] = [Bumped(u) EXCEPT !.state = "deleted", !.access = FALSE,
                                                     !.face = None]]
    /\ IdentityChanged({u}, Left(p, "user.delete", u))
    /\ UNCHANGED <<device, ownership, owner, wrong>>

SetAccess(p, u, allowed) ==
    /\ MayAct(p, "user.access", u) /\ Served(p)
    /\ Active(u) /\ user[u].access # allowed /\ Roomy({u})
    /\ user' = [user EXCEPT ![u] = [Bumped(u) EXCEPT !.access = allowed]]
    /\ IdentityChanged({u}, Left(p, "user.access", u))
    /\ UNCHANGED <<device, ownership, owner, wrong>>

SetPin(p, u) ==
    /\ MayAct(p, "user.pin", u) /\ Served(p)
    /\ Active(u) /\ Roomy({u})
    /\ user' = [user EXCEPT ![u] = WithPin(Bumped(u))]
    /\ PinReplaced(u, Left(p, "user.pin", u))
    /\ UNCHANGED <<ownership, owner>>

(* set_role: whoever else is an administrator steps down first. *)
Demoted(u, on) == {v \in Users : on /\ user[v].admin /\ v \notin {u, owner}}

SetRole(p, u, on) ==
    LET changed == Demoted(u, on) \cup {v \in {u} : user[u].admin # on} IN
    /\ MayAct(p, "user.role", u) /\ Served(p)
    /\ Active(u) /\ u # owner /\ Roomy(changed)
    /\ user' = [v \in Users |-> IF v \in changed THEN [Bumped(v) EXCEPT !.admin = on /\ v = u]
                                ELSE user[v]]
    /\ grants' = Doubt(Left(p, "user.role", u) \cap GrantsWithout(changed), changed, {})
    /\ invites' = DoubtInvites({i \in invites : i.user \notin changed}, changed, {}, {})
    /\ UNCHANGED <<device, ownership, owner, wrong>>

RevokeDevice(p, d) ==
    /\ MayAct(p, "device.revoke", d) /\ Served(p)
    /\ device[d].state = "active"
    /\ device' = Off(d, "revoked")
    /\ grants' = Doubt(Left(p, "device.revoke", d) \cap GrantsOff({d}), {}, {d})
    /\ invites' = DoubtInvites(InvitesOff({d}), {}, {d}, {})
    /\ UNCHANGED <<user, ownership, owner, wrong>>

IssueInvite(p, u) ==
    LET rest == {i \in invites : i.target # u} IN
    /\ MayAct(p, "pairing.invite", u) /\ Served(p)
    /\ Active(u)
    /\ invites' = rest \cup {[target |-> u, user |-> p.user, device |-> p.device,
                               version |-> p.version, sound |-> TRUE]}
    /\ grants' = Left(p, "pairing.invite", u)
    /\ UNCHANGED <<user, device, ownership, owner, wrong>>

-----------------------------------------------------------------------------
(* Devices *)

(* pair joins the invitation with whoever issued it. *)
Acceptable(i) ==
    /\ Active(i.target) /\ ActiveDevice(i.device) /\ device[i.device].user = i.user
    /\ user[i.user].admin /\ user[i.user].version = i.version

MobilesOf(u) == {d \in DevicesOf(u) : device[d].kind = "mobile"}

(* _make_mobile_device_slot: a revoked device makes room, an active one not. *)
RoomFor(u, evicted) ==
    IF Cardinality(MobilesOf(u)) < MaxMobileDevices THEN evicted = {}
    ELSE \E e \in MobilesOf(u) : device[e].state = "revoked" /\ evicted = {e}

Gone(ds, d, row) == [e \in Devices |->
    IF e = d THEN row ELSE IF e \in ds THEN [device[e] EXCEPT !.state = "gone"] ELSE device[e]]

Pair(i, d) ==
    LET u == i.target IN
    /\ Acceptable(i) /\ RightPin(u) /\ NewDevice(d)
    /\ \E evicted \in SUBSET MobilesOf(u) :
         /\ RoomFor(u, evicted)
         /\ device' = Gone(evicted, d, Row(u, "mobile"))
         /\ grants' = Doubt(GrantsOff(evicted), {}, evicted)
         /\ invites' = DoubtInvites(InvitesOff(evicted) \ {i}, {}, evicted, {})
    /\ user' = [user EXCEPT ![u] = WithPin(@)]
    /\ UNCHANGED <<ownership, owner, caller>>

(* A login replaces the dashboard sessions of its account, and the session *)
(* the browser had, whose ever that was.                                   *)
LocalLogin(u, d, previous) ==
    LET stale == {e \in DevicesOf(u) : device[e].kind = "local"} IN
    /\ RightPin(u) /\ NewDevice(d)
    /\ previous \subseteq {e \in Devices : device[e].kind = "local" /\ device[e].state = "active"}
    /\ Cardinality(previous) <= 1
    /\ device' = [e \in Devices |->
         IF e = d THEN Row(u, "local")
         ELSE IF e \in stale THEN [device[e] EXCEPT !.state = "gone"]
         ELSE IF e \in previous THEN [device[e] EXCEPT !.state = "revoked"] ELSE device[e]]
    /\ grants' = Doubt(GrantsOff(stale \cup previous), {}, stale \cup previous)
    /\ invites' = DoubtInvites(InvitesOff(stale \cup previous), {}, stale \cup previous, {})
    /\ user' = [user EXCEPT ![u] = WithPin(@)]
    /\ UNCHANGED <<ownership, owner, caller>>

(* Logout, and the end of a dashboard session that nobody ended. *)
EndLocal(d, state) ==
    /\ device[d].kind = "local" /\ device[d].state = "active"
    /\ device' = Off(d, state)
    /\ grants' = Doubt(GrantsOff({d}), {}, {d})
    /\ invites' = DoubtInvites(InvitesOff({d}), {}, {d}, {})
    /\ UNCHANGED <<user, ownership, owner, caller, wrong>>

Expire ==
    /\ \/ \E g \in grants : grants' = grants \ {g} /\ UNCHANGED invites
       \/ \E i \in invites : invites' = invites \ {i} /\ UNCHANGED grants
    /\ UNCHANGED <<user, device, ownership, owner, caller, wrong>>

-----------------------------------------------------------------------------
(* Ownership *)

Claim(u, d) ==
    /\ ownership = "unclaimed" /\ NewUser(u) /\ NewDevice(d)
    /\ user' = [user EXCEPT ![u] = [Account EXCEPT !.admin = TRUE]]
    /\ device' = Put(d, Row(u, "mobile"))
    /\ ownership' = "claimed" /\ owner' = u
    /\ UNCHANGED <<grants, invites, caller, wrong>>

(* recover: every device and every open authority goes, the owner stays. *)
Recover(d) ==
    /\ ownership = "claimed" /\ owner \in Admins
    /\ NewDevice(d) /\ Roomy({owner})
    /\ user' = [user EXCEPT ![owner] =
         [WithPin(Bumped(owner)) EXCEPT !.faceFails = 0, !.faceLocked = FALSE]]
    /\ device' = Gone({e \in Devices : device[e].state # "free"}, d, Row(owner, "mobile"))
    /\ grants' = {} /\ invites' = {}
    /\ wrong' = [wrong EXCEPT ![owner] = 0]
    /\ UNCHANGED <<ownership, owner, caller>>

(* recover-host-admin, with the host stopped: an older database only. *)
RecoverAdmin(u) ==
    /\ ownership = "legacy" /\ Active(u) /\ caller = None /\ Roomy({u})
    /\ user' = [user EXCEPT ![u] = [WithPin(Bumped(u)) EXCEPT !.admin = TRUE]]
    /\ PinReplaced(u, grants)
    /\ UNCHANGED <<ownership, owner, caller>>

(* reset_product *)
ResetProduct ==
    /\ ownership' = "unclaimed" /\ owner' = None
    /\ user' = [u \in Users |-> IF user[u].state = "new" THEN user[u]
                                ELSE [NoUser EXCEPT !.state = "gone"]]
    /\ device' = [d \in Devices |-> IF device[d].state = "free" THEN device[d]
                                    ELSE [NoDevice EXCEPT !.state = "gone"]]
    /\ grants' = {} /\ invites' = {}
    /\ wrong' = [u \in Users |-> 0]
    /\ UNCHANGED caller

-----------------------------------------------------------------------------
(* A request reads its principal, and may be turned away at the barrier. *)

Arrive(d) ==
    /\ caller = None /\ ActiveDevice(d)
    /\ caller' = Principal(d)
    /\ UNCHANGED <<user, device, grants, invites, ownership, owner, wrong>>

TurnAway ==
    /\ caller # None /\ caller' = None
    /\ UNCHANGED <<user, device, grants, invites, ownership, owner, wrong>>

AdminStep(p) ==
    \/ \E u \in Users :
        \/ CreateUser(p, u) \/ DeleteUser(p, u) \/ SetPin(p, u) \/ IssueInvite(p, u)
        \/ \E on \in BOOLEAN : SetAccess(p, u, on) \/ SetRole(p, u, on)
    \/ \E d \in Devices : RevokeDevice(p, d)

Asked(p) ==
    \/ grants # {} /\ AdminStep(p)
    \/ ConfirmSession(p)
    \/ "failures" \in profile /\ \E matched \in BOOLEAN : FaceResult(p, matched)
    \/ \E a \in Actions \cap profile : \E t \in Targets(a) : Authorize(p, a, t) \/ SpendOnly(p, a, t)

AccountStep(u) ==
    \/ "failures" \in profile /\ WrongPin(u)
    \/ PinLockoutEnds(u)
    \/ FaceLockoutEnds(u)
    \/ "recovery" \in profile /\ RecoverAdmin(u)
    \/ \E d \in Devices :
        \/ Claim(u, d)
        \/ \E previous \in SUBSET Devices : LocalLogin(u, d, previous)

DeviceStep(d) ==
    \/ "late" \in profile /\ Arrive(d)
    \/ "recovery" \in profile /\ Recover(d)
    \/ \E state \in {"revoked", "gone"} : EndLocal(d, state)
    \/ \E i \in invites : Pair(i, d)

SStep ==
    \/ \E p \in Presented : Asked(p)
    \/ \E u \in Users : AccountStep(u)
    \/ \E d \in Devices : DeviceStep(d)
    \/ Expire
    \/ TurnAway
    \/ "reset" \in profile /\ ResetProduct

SNext == SStep /\ UNCHANGED profile

SSpec == Init /\ [][SNext]_svars

-----------------------------------------------------------------------------
(* Properties *)

GrantRow == [device : Devices, user : Users, action : Actions, sound : BOOLEAN,
             target : Users \cup Devices \cup {None}, version : Nat]
InviteRow == [target : Users, user : Users, device : Devices, version : Nat,
              sound : BOOLEAN]

(* Type invariant: the rows of the identity database and a waiting request. *)
SecurityTypeOK ==
    /\ user \in [Users -> [state : {"new", "active", "deleted", "gone"}, admin : BOOLEAN,
                           access : BOOLEAN, face : Faces \cup {None}, version : Nat,
                           fails : 0..(PinMaxFailures - 1), locked : BOOLEAN,
                           faceFails : 0..(FaceLimit - 1), faceLocked : BOOLEAN]]
    /\ device \in [Devices -> [state : {"free", "active", "revoked", "gone"},
                               user : Users \cup {None}, kind : {"mobile", "local"}]]
    /\ grants \subseteq GrantRow /\ invites \subseteq InviteRow
    /\ ownership \in {"unclaimed", "claimed", "legacy"} /\ owner \in Users \cup {None}
    /\ caller = None \/ (caller.device \in Devices /\ caller.user \in Users)
    /\ wrong \in [Users -> 0..PinMaxFailures] /\ profile \in Profiles

(* A grant or an invitation that would be honoured now rests on facts that  *)
(* have not changed since it was issued: the role, PIN, access, template    *)
(* and activity of whoever asked, the device it was asked on, and the same  *)
(* of the account it is about (its PIN and activity, for an invitation).    *)
AuthorityIsCurrent ==
    /\ \A g \in grants :
         ActiveDevice(g.device) /\ MayAct(Principal(g.device), g.action, g.target) => g.sound
    /\ \A i \in invites : Acceptable(i) => i.sound

(* A claimed product keeps its owner as an administrator and has at most    *)
(* one other; an older database never loses its last one; and an unclaimed  *)
(* product has none.  This is what validate_role_state checks at the start. *)
RolesStand ==
    /\ ownership = "claimed" => owner \in Admins /\ Cardinality(Admins \ {owner}) <= 1
    /\ ownership = "legacy" => Admins # {}
    /\ ownership = "unclaimed" => Admins = {}

(* However the PIN entries of an account interleave over login, pairing,    *)
(* confirmation and authorization, PinMaxFailures wrong ones in a row lock  *)
(* it: no refusal, not even one that raises, loses a count.                 *)
GuessesBounded ==
    \A u \in Users : wrong[u] < PinMaxFailures \/ user[u].locked

(* No account accumulates more device rows than the limit, revoked ones     *)
(* included.                                                                *)
DevicesBounded == \A u \in Users : Cardinality(MobilesOf(u)) <= MaxMobileDevices

(* No order of calls takes a row past its limits. *)
LimitsHold == SecurityTypeOK /\ GuessesBounded /\ DevicesBounded

(* The owner's identity and devices change only when a grant of the owner   *)
(* is spent, or all at once in a recovery or a reset: no administrator      *)
(* reaches them, whatever was authorized before the roles changed.          *)
OwnerChanges ==
    \/ user'[owner].version # user[owner].version
    \/ \E d \in DevicesOf(owner) : device[d].state = "active" /\ device'[d].state = "revoked"
                                    /\ device[d].kind = "mobile"

OwnerKeepsControl ==
    [][owner # None /\ owner' = owner /\ OwnerChanges =>
         \/ \E g \in grants \ grants' : g.user = owner
         \/ \A d \in DevicesOf(owner) : device'[d].state = "gone"]_svars
=============================================================================
