------------------------ MODULE SecurityStoreProofs ------------------------
(***************************************************************************)
(* What SecurityStore and EnrollmentRequests guarantee for every set of    *)
(* accounts, devices and requests and for every limit.                     *)
(*                                                                         *)
(* IInv is inductive for the accounts.  A counter says how many wrong PINs *)
(* there were (AccountFits); a grant goes with the first fact it rests on, *)
(* so those that are left are all sound (GrantFits), while an invitation   *)
(* may stay behind with a version its issuer no longer has (InviteFits).   *)
(*                                                                         *)
(* EInv is inductive for the enrollments.  A pending receipt names rows    *)
(* that exist and versions they have had; its authority has held since it  *)
(* was accepted, or a row shows that it lapsed (PendingFits).              *)
(***************************************************************************)
EXTENDS EnrollmentRequests, FiniteSetTheorems, TLAPS

UserRow == [state : {"new", "active", "deleted", "gone"}, admin : BOOLEAN,
            access : BOOLEAN, face : Faces \cup {None}, version : Nat,
            fails : 0..(PinMaxFailures - 1), locked : BOOLEAN,
            faceFails : 0..(FaceLimit - 1), faceLocked : BOOLEAN]
DeviceRow == [state : {"free", "active", "revoked", "gone"},
              user : Users \cup {None}, kind : {"mobile", "local"}]
CallerOK == caller = None \/ (caller.device \in Devices /\ caller.user \in Users)

AccountFits(u) ==
    /\ ~user[u].locked => wrong[u] = user[u].fails
    /\ user[u].locked => user[u].fails = 0
    /\ user[u].state = "new" =>
         ~user[u].locked /\ wrong[u] = 0 /\ user[u].version = 1 /\ ~user[u].admin

(* A device in use has an account that was created. *)
DeviceFits(d) ==
    device[d].state \in {"active", "revoked"} =>
        device[d].user \in Users /\ user[device[d].user].state # "new"

Slots(u) == IsFiniteSet(MobilesOf(u)) /\ Cardinality(MobilesOf(u)) <= MaxMobileDevices

Of(r) == device[r.device].user = r.user /\ device[r.device].state # "free"

GrantFits(g) == g.sound /\ Of(g)

InviteFits(i) ==
    /\ Of(i) /\ i.version <= user[i.user].version
    /\ ~i.sound => i.version < user[i.user].version

GrantsFit == grants \subseteq GrantRow /\ \A g \in grants : GrantFits(g)
InvitesFit == invites \subseteq InviteRow /\ \A i \in invites : InviteFits(i)

RolesFit ==
    /\ ownership = "claimed" => owner \in Admins /\ \A v, w \in Admins \ {owner} : v = w
    /\ ownership = "legacy" => Admins # {}
    /\ ownership = "unclaimed" => Admins = {}
    /\ (ownership = "claimed") = (owner # None)

Fits ==
    /\ \A u \in Users : AccountFits(u) /\ Slots(u)
    /\ \A d \in Devices : DeviceFits(d)
    /\ \A g \in grants : GrantFits(g)
    /\ \A i \in invites : InviteFits(i)
    /\ RolesFit

IInv == SecurityTypeOK /\ Fits

USE SecurityStoreAssumption

-----------------------------------------------------------------------------
(* Types *)

LEMMA TypeParts ==
  SecurityTypeOK <=>
    /\ user \in [Users -> UserRow] /\ device \in [Devices -> DeviceRow]
    /\ grants \subseteq GrantRow /\ invites \subseteq InviteRow
    /\ ownership \in {"unclaimed", "claimed", "legacy"} /\ owner \in Users \cup {None}
    /\ CallerOK /\ wrong \in [Users -> 0..PinMaxFailures] /\ profile \in Profiles
BY DEF SecurityTypeOK, UserRow, DeviceRow, CallerOK

LEMMA Counts ==
  /\ 0 \in 0..(PinMaxFailures - 1) /\ 0 \in 0..(FaceLimit - 1)
  /\ \A n \in 0..(PinMaxFailures - 1) :
       n + 1 \in 0..PinMaxFailures /\ (n + 1 < PinMaxFailures => n + 1 \in 0..(PinMaxFailures - 1))
  /\ \A n \in 0..(FaceLimit - 1) : n + 1 < FaceLimit => n + 1 \in 0..(FaceLimit - 1)
BY DEF SecurityStoreAssumption

LEMMA NewRows ==
  /\ NoUser \in UserRow /\ Account \in UserRow
  /\ NoUser.state = "new" /\ ~NoUser.admin /\ NoUser.fails = 0 /\ ~NoUser.locked
  /\ NoUser.version = 1
  /\ Account.state = "active" /\ ~Account.admin /\ Account.fails = 0 /\ ~Account.locked
  /\ Account.version = 1
<1>1. NoUser \in UserRow
  BY Counts DEF NoUser, UserRow
<1>2. Account \in UserRow
  BY <1>1 DEF Account, UserRow
<1> QED
  BY <1>1, <1>2 DEF NoUser, Account

LEMMA BumpedFits ==
  ASSUME NEW u \in Users, user[u] \in UserRow
  PROVE  /\ Bumped(u) \in UserRow /\ Bumped(u).version = user[u].version + 1
         /\ Bumped(u).state = user[u].state /\ Bumped(u).admin = user[u].admin
         /\ Bumped(u).fails = user[u].fails /\ Bumped(u).locked = user[u].locked
BY DEF Bumped, UserRow

LEMMA WithPinFits ==
  ASSUME NEW row \in UserRow
  PROVE  /\ WithPin(row) \in UserRow /\ WithPin(row).version = row.version
         /\ WithPin(row).state = row.state /\ WithPin(row).admin = row.admin
         /\ WithPin(row).fails = 0 /\ ~WithPin(row).locked
BY Counts DEF WithPin, UserRow

LEMMA MismatchFits ==
  ASSUME NEW row \in UserRow
  PROVE  /\ Mismatch(row) \in UserRow /\ Mismatch(row).version = row.version
         /\ Mismatch(row).state = row.state /\ Mismatch(row).admin = row.admin
         /\ \/ Mismatch(row).locked /\ Mismatch(row).fails = 0
            \/ Mismatch(row).locked = row.locked /\ Mismatch(row).fails = row.fails + 1
<1>1. row.fails \in 0..(PinMaxFailures - 1) /\ row.fails + 1 \in 0..PinMaxFailures
  BY Counts DEF UserRow
<1>2. CASE row.fails + 1 >= PinMaxFailures
  <2>1. Mismatch(row) = [row EXCEPT !.fails = 0, !.locked = TRUE]
    BY <1>2 DEF Mismatch
  <2> QED
    BY <2>1, Counts DEF UserRow
<1>3. CASE ~(row.fails + 1 >= PinMaxFailures)
  <2>1. Mismatch(row) = [row EXCEPT !.fails = row.fails + 1]
    BY <1>3 DEF Mismatch, UserRow
  <2>2. row.fails + 1 \in 0..(PinMaxFailures - 1)
    BY <1>1, <1>3, Counts DEF SecurityStoreAssumption
  <2> QED
    BY <2>1, <2>2 DEF UserRow
<1> QED
  BY <1>2, <1>3

LEMMA RowFits ==
  ASSUME NEW u \in Users, NEW kind \in {"mobile", "local"}
  PROVE  /\ Row(u, kind) \in DeviceRow /\ Row(u, kind).state = "active"
         /\ Row(u, kind).user = u /\ Row(u, kind).kind = kind
BY DEF Row, DeviceRow

(* A request that is served comes from the account and the device it says. *)
LEMMA CurrentMeans ==
  ASSUME IInv, NEW p \in Presented, Current(p)
  PROVE  /\ p.device \in Devices /\ device[p.device].state = "active"
         /\ p.user \in Users /\ p.user = device[p.device].user /\ Active(p.user)
         /\ p.admin = user[p.user].admin /\ p.version = user[p.user].version
         /\ p.owner = (p.user = owner)
<1>1. p.device \in Devices
  <2>1. CASE p = caller /\ caller # None
    BY <2>1, TypeParts DEF IInv, CallerOK
  <2>2. ASSUME NEW d \in Devices, p = Principal(d) PROVE p.device \in Devices
    BY <2>2 DEF Principal
  <2> QED
    BY <2>1, <2>2 DEF Presented
<1>2. p = Principal(p.device) /\ ActiveDevice(p.device)
  BY DEF Current
<1>3. /\ p.user = device[p.device].user /\ p.admin = user[p.user].admin
      /\ p.version = user[p.user].version /\ p.owner = (p.user = owner)
  BY <1>2 DEF Principal
<1> QED
  BY <1>1, <1>2, <1>3 DEF IInv, Fits, DeviceFits, ActiveDevice

-----------------------------------------------------------------------------
(* Histories of grants and invitations *)

LEMMA DoubtNothing ==
  ASSUME NEW rows \in SUBSET GrantRow, NEW us, NEW ds,
         \A r \in rows : r.sound /\ r.user \notin us /\ r.target \notin us /\ r.device \notin ds
  PROVE  Doubt(rows, us, ds) = rows
<1>1. ASSUME NEW r \in rows
      PROVE  [r EXCEPT !.sound = @ /\ r.user \notin us /\ r.target \notin us
                                    /\ r.device \notin ds] = r
  BY <1>1 DEF GrantRow
<1> QED
  BY <1>1 DEF Doubt

(* An invitation stays as it is, or its issuer has a new version. *)
Follows(i, j) ==
    /\ j \in InviteRow
    /\ j.device = i.device /\ j.user = i.user /\ j.target = i.target /\ j.version = i.version
    /\ j.sound = i.sound \/ user'[i.user].version > user[i.user].version
InvitesFollow == \A j \in invites' : \E i \in invites : Follows(i, j)

LEMMA DoubtedInvites ==
  ASSUME NEW rows \in SUBSET InviteRow, NEW us, NEW ds, NEW ts,
         \A r \in rows : r.target \notin ts /\ r.device \notin ds,
         \A u \in us : user'[u].version > user[u].version
  PROVE  \A j \in DoubtInvites(rows, us, ds, ts) : \E i \in rows : Follows(i, j)
<1> SUFFICES ASSUME NEW r \in rows
             PROVE  Follows(r, [r EXCEPT !.sound = @ /\ r.user \notin us /\ r.device \notin ds
                                                    /\ r.target \notin ts])
  BY DEF DoubtInvites
<1>1. r \in InviteRow
  OBVIOUS
<1>2. CASE r.user \notin us
  <2>1. [r EXCEPT !.sound = @ /\ r.user \notin us /\ r.device \notin ds /\ r.target \notin ts] = r
    BY <1>1, <1>2 DEF InviteRow
  <2> QED
    BY <2>1 DEF Follows
<1>3. CASE r.user \in us
  BY <1>1, <1>3 DEF Follows, InviteRow
<1> QED
  BY <1>2, <1>3

-----------------------------------------------------------------------------
(* What keeps the invariant *)

DevicesStay ==
    \A d \in Devices : device[d].state # "free" =>
        device'[d].state # "free" /\ device'[d].user = device[d].user

LEMMA AuthoritiesKept ==
  ASSUME IInv, DevicesStay, device' \in [Devices -> DeviceRow],
         \A u \in Users : user[u].version \in Nat /\ user'[u].version \in Nat
                             /\ user[u].version <= user'[u].version,
         grants' \subseteq grants, InvitesFollow
  PROVE  GrantsFit' /\ InvitesFit'
<1>1. grants \subseteq GrantRow /\ invites \subseteq InviteRow
  BY TypeParts DEF IInv
<1>2. ASSUME NEW g \in grants' PROVE GrantFits(g)'
  <2>1. g \in GrantRow /\ GrantFits(g)
    BY <1>1, <1>2 DEF IInv, Fits
  <2> QED
    BY <2>1 DEF GrantFits, Of, DevicesStay, GrantRow
<1>3. ASSUME NEW j \in invites' PROVE j \in InviteRow /\ InviteFits(j)'
  <2>1. PICK i \in invites : Follows(i, j)
    BY <1>3 DEF InvitesFollow
  <2>2. i \in InviteRow /\ InviteFits(i)
    BY <1>1 DEF IInv, Fits
  <2>3. j \in InviteRow /\ Of(j)'
    BY <2>1, <2>2 DEF Follows, InviteFits, Of, DevicesStay, InviteRow
  <2> DEFINE v == user[i.user].version
             w == user'[i.user].version
  <2>4. i.user \in Users /\ v \in Nat /\ w \in Nat /\ v <= w /\ i.version \in Nat
    BY <2>2 DEF InviteRow
  <2>5. i.version <= v /\ (~i.sound => i.version < v)
    BY <2>2 DEF InviteFits
  <2>6. j.version = i.version /\ (j.sound = i.sound \/ w > v) /\ user'[j.user].version = w
    BY <2>1 DEF Follows
  <2>7. j.version <= w /\ (~j.sound => j.version < w)
    BY <2>4, <2>5, <2>6
  <2> QED
    BY <2>3, <2>6, <2>7 DEF InviteFits
<1> QED
  BY <1>1, <1>2, <1>3 DEF GrantsFit, InvitesFit

-----------------------------------------------------------------------------
Monotone == \A u \in Users : user[u].version <= user'[u].version
AccountsKept == wrong' \in [Users -> 0..PinMaxFailures] /\ \A u \in Users : AccountFits(u)'
DevicesFit ==
    /\ device \in [Devices -> DeviceRow] /\ \A d \in Devices : DeviceFits(d)
    /\ \A u \in Users : Slots(u)
DevicesKept == DevicesFit' /\ DevicesStay
RolesKept ==
    /\ ownership' \in {"unclaimed", "claimed", "legacy"} /\ owner' \in Users \cup {None}
    /\ RolesFit'

LEMMA Assembled ==
  ASSUME user' \in [Users -> UserRow], CallerOK', profile' \in Profiles,
         AccountsKept, DevicesFit', RolesKept,
         GrantsFit', InvitesFit'
  PROVE  IInv'
<1>1. Fits'
  BY DEF Fits, AccountsKept, DevicesFit, RolesKept, GrantsFit, InvitesFit
<1>2. SecurityTypeOK'
  BY DEF AccountsKept, DevicesFit, RolesKept, SecurityTypeOK, UserRow, DeviceRow, CallerOK,
       GrantsFit, InvitesFit
<1> QED
  BY <1>1, <1>2 DEF IInv

LEMMA InvKept ==
  ASSUME IInv, user' \in [Users -> UserRow], CallerOK', UNCHANGED profile,
         AccountsKept, DevicesKept, RolesKept, Monotone,
         grants' \subseteq grants, InvitesFollow
  PROVE  IInv'
<1>1. user \in [Users -> UserRow] /\ profile \in Profiles
  BY TypeParts DEF IInv
<1>2. \A u \in Users : user[u].version \in Nat /\ user'[u].version \in Nat
                         /\ user[u].version <= user'[u].version
  BY <1>1 DEF UserRow, Monotone
<1>3. GrantsFit' /\ InvitesFit'
  BY <1>2, AuthoritiesKept DEF DevicesKept, DevicesFit
<1>4. profile' \in Profiles
  BY <1>1
<1> QED
  BY <1>3, <1>4, Assembled DEF DevicesKept

(* Counters, access and templates are nobody's business but the account's. *)
RowKept(u) ==
    /\ user'[u].state = user[u].state /\ user'[u].admin = user[u].admin
    /\ user'[u].version = user[u].version

LEMMA RowsKept ==
  ASSUME IInv, \A u \in Users : RowKept(u)
  PROVE  Monotone /\ Admins' = Admins
                  /\ \A u \in Users : user[u].state # "new" => user'[u].state # "new"
<1>1. user \in [Users -> UserRow]
  BY TypeParts DEF IInv
<1>2. Monotone
  BY <1>1 DEF RowKept, Monotone, UserRow
<1>3. Admins' = Admins
  BY DEF RowKept, Admins, Active
<1> QED
  BY <1>2, <1>3 DEF RowKept

LEMMA RolesSame ==
  ASSUME IInv, UNCHANGED <<ownership, owner>>, Admins' = Admins
  PROVE  RolesKept
BY TypeParts DEF IInv, Fits, RolesKept, RolesFit

LEMMA AccountsSame ==
  ASSUME IInv, UNCHANGED wrong,
         \A u \in Users : /\ user'[u].fails = user[u].fails
                          /\ user'[u].locked = user[u].locked
                          /\ user'[u].state = "new" =>
                               /\ user[u].state = "new" /\ user'[u].version = user[u].version
                               /\ user'[u].admin = user[u].admin
  PROVE  AccountsKept
BY TypeParts DEF IInv, Fits, AccountsKept, AccountFits

(* A device keeps its account and its kind, and goes only. *)
Fades(d) ==
    /\ device'[d].user = device[d].user /\ device'[d].kind = device[d].kind
    /\ device[d].state # "free" => device'[d].state # "free"
    /\ device'[d].state \in {"active", "revoked"} => device[d].state \in {"active", "revoked"}

LEMMA DevicesFade ==
  ASSUME IInv, device' \in [Devices -> DeviceRow], \A d \in Devices : Fades(d),
         \A u \in Users : user[u].state # "new" => user'[u].state # "new"
  PROVE  DevicesKept
<1>1. DevicesStay /\ \A d \in Devices : DeviceFits(d)'
  BY DEF IInv, Fits, DevicesStay, Fades, DeviceFits
<1>2. ASSUME NEW u \in Users PROVE Slots(u)'
  <2>1. MobilesOf(u)' \subseteq MobilesOf(u)
    BY DEF MobilesOf, DevicesOf, Fades
  <2>2. Slots(u)
    BY DEF IInv, Fits
  <2>3. IsFiniteSet(MobilesOf(u)') /\ Cardinality(MobilesOf(u)') <= Cardinality(MobilesOf(u))
    BY <2>1, <2>2, FS_Subset DEF Slots
  <2>4. Cardinality(MobilesOf(u)) \in Nat /\ Cardinality(MobilesOf(u)') \in Nat
    BY <2>2, <2>3, FS_CardinalityType DEF Slots
  <2> QED
    BY <2>2, <2>3, <2>4 DEF Slots, SecurityStoreAssumption
<1> QED
  BY <1>1, <1>2 DEF DevicesKept, DevicesFit

LEMMA DevicesSame ==
  ASSUME IInv, UNCHANGED device,
         \A u \in Users : user[u].state # "new" => user'[u].state # "new"
  PROVE  DevicesKept
<1>1. device' \in [Devices -> DeviceRow] /\ \A d \in Devices : Fades(d)
  BY TypeParts DEF IInv, Fades
<1> QED
  BY <1>1, DevicesFade

LEMMA InvitesSame ==
  ASSUME IInv, invites' \subseteq invites
  PROVE  InvitesFollow
BY TypeParts DEF IInv, InvitesFollow, Follows

(* Grants that rest on what changed go, so those that stay are as they were. *)
LEMMA GrantsShrink ==
  ASSUME IInv, NEW rows \in SUBSET grants, NEW us, NEW ds,
         \A r \in rows : r.user \notin us /\ r.target \notin us /\ r.device \notin ds
  PROVE  Doubt(rows, us, ds) = rows
<1>1. rows \in SUBSET GrantRow /\ \A r \in rows : r.sound
  BY TypeParts DEF IInv, Fits, GrantFits
<1> QED
  BY <1>1, DoubtNothing

LEMMA InvitesDoubted ==
  ASSUME IInv, NEW rows \in SUBSET invites, NEW us, NEW ds, NEW ts,
         \A r \in rows : r.target \notin ts /\ r.device \notin ds,
         \A u \in us : user'[u].version > user[u].version,
         invites' = DoubtInvites(rows, us, ds, ts)
  PROVE  InvitesFollow
<1>1. rows \in SUBSET InviteRow
  BY TypeParts DEF IInv
<1>2. \A j \in invites' : \E i \in rows : Follows(i, j)
  BY <1>1, DoubtedInvites
<1> QED
  BY <1>2 DEF InvitesFollow

LEMMA ServedKeeps ==
  ASSUME IInv, NEW p, Served(p)
  PROVE  CallerOK'
BY TypeParts DEF IInv, Served, CallerOK

LEMMA LeftShrinks ==
  ASSUME NEW p, NEW a, NEW t
  PROVE  Left(p, a, t) \subseteq grants
BY DEF Left

-----------------------------------------------------------------------------
(* PINs, face results and grants: only the counters of an account change. *)

LEMMA OneRow ==
  ASSUME IInv, NEW u \in Users, NEW row \in UserRow, user' = [user EXCEPT ![u] = row]
  PROVE  /\ user \in [Users -> UserRow] /\ user[u] \in UserRow
         /\ user' \in [Users -> UserRow] /\ user'[u] = row
         /\ \A v \in Users : v # u => user'[v] = user[v]
<1>1. user \in [Users -> UserRow]
  BY TypeParts DEF IInv
<1> QED
  BY <1>1

LEMMA PinRestarts ==
  ASSUME IInv, NEW u \in Users, NEW row \in UserRow, ~row.locked, row.fails = 0,
         row.state = "new" => /\ user[u].state = "new" /\ row.version = user[u].version
                              /\ row.admin = user[u].admin,
         user' = [user EXCEPT ![u] = row], wrong' = [wrong EXCEPT ![u] = 0]
  PROVE  AccountsKept
<1>1. wrong \in [Users -> 0..PinMaxFailures] /\ 0 \in 0..PinMaxFailures
  BY TypeParts DEF IInv, SecurityStoreAssumption
<1>2. wrong' \in [Users -> 0..PinMaxFailures] /\ wrong'[u] = 0
      /\ \A v \in Users : v # u => wrong'[v] = wrong[v]
  BY <1>1
<1>3. ASSUME NEW v \in Users PROVE AccountFits(v)'
  <2>1. CASE v = u
    <3>1. user'[u] = row
      BY OneRow
    <3>2. row.state = "new" => row.version = 1 /\ ~row.admin
      BY DEF IInv, Fits, AccountFits
    <3> QED
      BY <1>2, <2>1, <3>1, <3>2 DEF AccountFits
  <2>2. CASE v # u
    BY <1>2, <2>2, OneRow DEF AccountFits, IInv, Fits
  <2> QED
    BY <2>1, <2>2
<1> QED
  BY <1>2, <1>3 DEF AccountsKept

LEMMA CountersKeep ==
  ASSUME IInv, UNCHANGED <<device, ownership, owner, profile>>,
         user' \in [Users -> UserRow], \A u \in Users : RowKept(u), AccountsKept,
         grants' \subseteq grants, invites' \subseteq invites, CallerOK'
  PROVE  IInv'
<1>1. Monotone /\ RolesKept /\ DevicesKept
  BY RowsKept, RolesSame, DevicesSame
<1>2. InvitesFollow
  BY InvitesSame
<1> QED
  BY <1>1, <1>2, InvKept

LEMMA RestartedKeep ==
  ASSUME IInv, NEW u \in Users,
         user' = [user EXCEPT ![u] = WithPin(@)], wrong' = [wrong EXCEPT ![u] = 0]
  PROVE  /\ user' \in [Users -> UserRow] /\ AccountsKept
         /\ \A v \in Users : RowKept(v)
<1>1. user[u] \in UserRow
  BY TypeParts DEF IInv
<1>2. /\ WithPin(user[u]) \in UserRow /\ WithPin(user[u]).version = user[u].version
      /\ WithPin(user[u]).state = user[u].state /\ WithPin(user[u]).admin = user[u].admin
      /\ WithPin(user[u]).fails = 0 /\ ~WithPin(user[u]).locked
  BY <1>1, WithPinFits
<1>3. user' = [user EXCEPT ![u] = WithPin(user[u])]
  OBVIOUS
<1>4. AccountsKept
  BY <1>2, <1>3, PinRestarts
<1> QED
  BY <1>2, <1>3, <1>4, OneRow DEF RowKept

LEMMA ConfirmKeeps ==
  ASSUME IInv, UNCHANGED profile, NEW p \in Presented, ConfirmSession(p)
  PROVE  IInv'
<1>1. p.user \in Users
  BY CurrentMeans DEF ConfirmSession
<1>2. /\ user' \in [Users -> UserRow] /\ AccountsKept
      /\ \A v \in Users : RowKept(v)
  BY <1>1, RestartedKeep DEF ConfirmSession, RightPin
<1>3. CallerOK'
  BY ServedKeeps DEF ConfirmSession
<1> QED
  BY <1>2, <1>3, CountersKeep DEF ConfirmSession

LEMMA SpendKeeps ==
  ASSUME IInv, UNCHANGED profile, NEW p \in Presented, NEW a, NEW t, SpendOnly(p, a, t)
  PROVE  IInv'
<1>1. AccountsKept
  BY AccountsSame DEF SpendOnly
<1>2. CallerOK'
  BY ServedKeeps DEF SpendOnly
<1>3. user' \in [Users -> UserRow] /\ \A u \in Users : RowKept(u)
  BY TypeParts DEF IInv, SpendOnly, RowKept
<1> QED
  BY <1>1, <1>2, <1>3, CountersKeep, LeftShrinks DEF SpendOnly

LEMMA WrongPinKeeps ==
  ASSUME IInv, UNCHANGED profile, NEW u \in Users, WrongPin(u)
  PROVE  IInv'
<1> DEFINE row == Mismatch(user[u])
<1>1. user[u] \in UserRow /\ user' = [user EXCEPT ![u] = row]
  BY TypeParts DEF IInv, WrongPin
<1>2. /\ row \in UserRow /\ row.version = user[u].version
      /\ row.state = user[u].state /\ row.admin = user[u].admin
      /\ \/ row.locked /\ row.fails = 0
         \/ row.locked = user[u].locked /\ row.fails = user[u].fails + 1
  BY <1>1, MismatchFits
<1> HIDE DEF row
<1>3. user' \in [Users -> UserRow] /\ \A v \in Users : RowKept(v)
  BY <1>1, <1>2, OneRow DEF RowKept
<1>4. wrong[u] = user[u].fails /\ user[u].fails \in 0..(PinMaxFailures - 1)
  BY <1>1 DEF IInv, Fits, AccountFits, WrongPin, UserRow
<1>5. wrong \in [Users -> 0..PinMaxFailures] /\ wrong' = [wrong EXCEPT ![u] = wrong[u] + 1]
  BY TypeParts DEF IInv, WrongPin
<1>6. wrong[u] + 1 \in 0..PinMaxFailures
  BY <1>4, Counts
<1>7. wrong' \in [Users -> 0..PinMaxFailures] /\ wrong'[u] = user[u].fails + 1
      /\ \A v \in Users : v # u => wrong'[v] = wrong[v]
  BY <1>4, <1>5, <1>6
<1>8. ASSUME NEW v \in Users PROVE AccountFits(v)'
  <2>1. CASE v = u
    <3>1. user'[u] = row /\ user[u].state = "active" /\ ~user[u].locked
      BY <1>1, <1>2, OneRow DEF WrongPin, Active
    <3> QED
      BY <1>2, <1>7, <2>1, <3>1 DEF AccountFits
  <2>2. CASE v # u
    BY <1>1, <1>2, <1>7, <2>2, OneRow DEF AccountFits, IInv, Fits
  <2> QED
    BY <2>1, <2>2
<1>9. AccountsKept
  BY <1>7, <1>8 DEF AccountsKept
<1>10. CallerOK'
  BY TypeParts DEF IInv, WrongPin, CallerOK
<1> QED
  BY <1>3, <1>9, <1>10, CountersKeep DEF WrongPin

LEMMA PinLockoutKeeps ==
  ASSUME IInv, UNCHANGED profile, NEW u \in Users, PinLockoutEnds(u)
  PROVE  IInv'
<1> DEFINE row == [user[u] EXCEPT !.locked = FALSE]
<1>1. user[u] \in UserRow /\ user' = [user EXCEPT ![u] = row] /\ user[u].locked
  BY TypeParts DEF IInv, PinLockoutEnds
<1>2. user[u].fails = 0
  BY <1>1 DEF IInv, Fits, AccountFits
<1>3. /\ row \in UserRow /\ row.version = user[u].version /\ ~row.locked /\ row.fails = 0
      /\ row.state = user[u].state /\ row.admin = user[u].admin
  BY <1>1, <1>2 DEF UserRow
<1> HIDE DEF row
<1>4. user' \in [Users -> UserRow] /\ \A v \in Users : RowKept(v)
  BY <1>1, <1>3, OneRow DEF RowKept
<1>5. AccountsKept
  BY <1>1, <1>3, PinRestarts DEF PinLockoutEnds
<1>6. CallerOK'
  BY TypeParts DEF IInv, PinLockoutEnds, CallerOK
<1> QED
  BY <1>4, <1>5, <1>6, CountersKeep DEF PinLockoutEnds

(* A face result leaves the PIN counter alone. *)
LEMMA FaceCountKeeps ==
  ASSUME IInv, UNCHANGED <<device, grants, invites, ownership, owner, wrong, profile>>,
         CallerOK', NEW u \in Users, NEW row \in UserRow, user' = [user EXCEPT ![u] = row],
         row.version = user[u].version, row.state = user[u].state, row.admin = user[u].admin,
         row.fails = user[u].fails, row.locked = user[u].locked
  PROVE  IInv'
<1>1. user' \in [Users -> UserRow] /\ \A v \in Users : RowKept(v)
  BY OneRow DEF RowKept
<1>2. AccountsKept
  BY OneRow, AccountsSame
<1> QED
  BY <1>1, <1>2, CountersKeep

LEMMA FaceResultKeeps ==
  ASSUME IInv, UNCHANGED profile, NEW p \in Presented, NEW matched \in BOOLEAN,
         FaceResult(p, matched)
  PROVE  IInv'
<1>1. p.user \in Users
  BY CurrentMeans DEF FaceResult
<1> DEFINE old == user[p.user]
           row == IF matched THEN [old EXCEPT !.faceFails = 0]
                  ELSE IF old.faceFails + 1 >= FaceLimit
                       THEN [old EXCEPT !.faceFails = 0, !.faceLocked = TRUE]
                  ELSE [old EXCEPT !.faceFails = old.faceFails + 1]
<1>2. old \in UserRow
  BY <1>1, TypeParts DEF IInv
<1>3. user' = [user EXCEPT ![p.user] = row]
  BY DEF FaceResult
<1>4. /\ row \in UserRow /\ row.version = old.version /\ row.state = old.state
      /\ row.admin = old.admin /\ row.fails = old.fails /\ row.locked = old.locked
  <2>1. CASE matched \/ old.faceFails + 1 >= FaceLimit
    BY <1>2, <2>1, Counts DEF UserRow
  <2>2. CASE ~matched /\ ~(old.faceFails + 1 >= FaceLimit)
    <3>1. old.faceFails \in 0..(FaceLimit - 1)
      BY <1>2 DEF UserRow
    <3>2. old.faceFails + 1 \in 0..(FaceLimit - 1)
      BY <2>2, <3>1, Counts DEF SecurityStoreAssumption
    <3> QED
      BY <1>2, <2>2, <3>2 DEF UserRow
  <2> QED
    BY <2>1, <2>2
<1>5. CallerOK'
  BY ServedKeeps DEF FaceResult
<1> HIDE DEF row
<1> QED
  BY <1>1, <1>3, <1>4, <1>5, FaceCountKeeps DEF FaceResult

LEMMA FaceLockoutKeeps ==
  ASSUME IInv, UNCHANGED profile, NEW u \in Users, FaceLockoutEnds(u)
  PROVE  IInv'
<1> DEFINE row == [user[u] EXCEPT !.faceLocked = FALSE]
<1>1. user[u] \in UserRow /\ user' = [user EXCEPT ![u] = row]
  BY TypeParts DEF IInv, FaceLockoutEnds
<1>2. /\ row \in UserRow /\ row.version = user[u].version /\ row.state = user[u].state
      /\ row.admin = user[u].admin /\ row.fails = user[u].fails /\ row.locked = user[u].locked
  BY <1>1 DEF UserRow
<1>3. CallerOK'
  BY TypeParts DEF IInv, FaceLockoutEnds, CallerOK
<1> HIDE DEF row
<1> QED
  BY <1>1, <1>2, <1>3, FaceCountKeeps DEF FaceLockoutEnds

LEMMA TargetRange ==
  ASSUME NEW a, NEW t \in Targets(a)
  PROVE  t \in Users \cup Devices \cup {None}
BY DEF Targets

LEMMA AuthorizeKeeps ==
  ASSUME IInv, UNCHANGED profile, NEW p \in Presented, NEW a \in Actions,
         NEW t \in Targets(a), Authorize(p, a, t)
  PROVE  IInv'
<1> DEFINE rest == {g \in grants : ~(g.device = p.device /\ g.action = a /\ g.target = t)}
           new == [device |-> p.device, user |-> p.user, action |-> a, target |-> t,
                   version |-> p.version, sound |-> TRUE]
<1>1. /\ p.device \in Devices /\ device[p.device].state = "active" /\ p.user \in Users
      /\ p.user = device[p.device].user /\ p.version = user[p.user].version
  BY CurrentMeans DEF Authorize
<1>2. /\ user' \in [Users -> UserRow] /\ AccountsKept /\ \A v \in Users : RowKept(v)
  BY <1>1, RestartedKeep DEF Authorize, RightPin
<1>3. Monotone /\ RolesKept /\ DevicesKept
  BY <1>2, RowsKept, RolesSame, DevicesSame DEF Authorize
<1>4. user \in [Users -> UserRow] /\ grants \subseteq GrantRow
  BY TypeParts DEF IInv
<1>5. new \in GrantRow /\ new.sound /\ Of(new)
  BY <1>1, <1>4, TargetRange DEF GrantRow, UserRow, Of
<1>6. grants' = rest \cup {new} /\ device' = device
  BY DEF Authorize
<1>7. ASSUME NEW g \in grants' PROVE g \in GrantRow /\ GrantFits(g)'
  <2>1. CASE g = new
    BY <1>5, <1>6, <2>1 DEF GrantFits, Of
  <2>2. CASE g \in grants
    BY <1>4, <1>6, <2>2 DEF IInv, Fits, GrantFits, Of
  <2> QED
    BY <1>6, <1>7, <2>1, <2>2
<1>8. GrantsFit'
  BY <1>7 DEF GrantsFit
<1>9. InvitesFit'
  <2>1. \A i \in invites : i \in InviteRow /\ user'[i.user].version = user[i.user].version
    BY <1>2, TypeParts DEF IInv, RowKept, InviteRow
  <2> QED
    BY <1>6, <2>1 DEF IInv, Fits, InviteFits, InvitesFit, Of, Authorize
<1>10. CallerOK' /\ profile' \in Profiles
  BY ServedKeeps, TypeParts DEF Authorize, IInv
<1> QED
  BY <1>2, <1>3, <1>8, <1>9, <1>10, Assembled DEF DevicesKept

(* Nothing of an account or a device changes. *)
LEMMA ExpireKeeps ==
  ASSUME IInv, UNCHANGED profile, Expire \/ TurnAway \/ UNCHANGED svars
  PROVE  IInv'
<1>1. UNCHANGED <<user, device, ownership, owner, wrong>>
  BY DEF Expire, TurnAway, svars
<1>2. grants' \subseteq grants /\ invites' \subseteq invites
  BY DEF Expire, TurnAway, svars
<1>3. CallerOK'
  BY TypeParts DEF IInv, CallerOK, Expire, TurnAway, svars
<1>4. AccountsKept /\ user' \in [Users -> UserRow] /\ \A u \in Users : RowKept(u)
  BY <1>1, AccountsSame, TypeParts DEF IInv, RowKept
<1> QED
  BY <1>1, <1>2, <1>3, <1>4, CountersKeep

LEMMA ArriveKeeps ==
  ASSUME IInv, UNCHANGED profile, NEW d \in Devices, Arrive(d)
  PROVE  IInv'
<1>1. AccountsKept /\ user' \in [Users -> UserRow] /\ \A u \in Users : RowKept(u)
  BY AccountsSame, TypeParts DEF IInv, RowKept, Arrive
<1>2. CallerOK'
  BY DEF Arrive, CallerOK, Principal, ActiveDevice, IInv, Fits, DeviceFits
<1> QED
  BY <1>1, <1>2, CountersKeep DEF Arrive

-----------------------------------------------------------------------------
(* What an administrator changes *)

LEMMA ActHas ==
  ASSUME IInv, NEW p \in Presented, NEW a, NEW t, MayAct(p, a, t)
  PROVE  /\ p.user \in Users /\ Active(p.user) /\ p.device \in Devices
         /\ device[p.device].state = "active" /\ p.user = device[p.device].user
         /\ p.admin = user[p.user].admin /\ p.version = user[p.user].version
         /\ p.owner = (p.user = owner)
         /\ \E g \in grants \ Left(p, a, t) : g.user = p.user
BY CurrentMeans DEF MayAct, Left, Matching

(* One account has a new version, state or role; its PIN may be replaced. *)
LEMMA IdentityKeeps ==
  ASSUME IInv, NEW us \in SUBSET Users, NEW left \in SUBSET grants,
         IdentityChanged(us, left), \A u \in us : user'[u].version > user[u].version
  PROVE  grants' \subseteq left /\ InvitesFollow
<1>1. left \cap GrantsWithout(us) \in SUBSET grants
      /\ \A r \in left \cap GrantsWithout(us) : r.user \notin us /\ r.target \notin us
  BY DEF GrantsWithout
<1>2. Doubt(left \cap GrantsWithout(us), us, {}) = left \cap GrantsWithout(us)
  BY <1>1, GrantsShrink
<1>3. InvitesFollow
  <2> DEFINE none == {}
  <2>1. /\ invites \in SUBSET invites
        /\ \A r \in invites : r.target \notin none /\ r.device \notin none
    OBVIOUS
  <2>2. invites' = DoubtInvites(invites, us, none, none)
    BY DEF IdentityChanged
  <2> HIDE DEF none
  <2> QED
    BY <2>1, <2>2, InvitesDoubted
<1> QED
  BY <1>2, <1>3 DEF IdentityChanged

LEMMA RevokedFades ==
  ASSUME IInv, NEW u \in Users, device' = Revoked(u)
  PROVE  device' \in [Devices -> DeviceRow] /\ \A d \in Devices : Fades(d)
<1>1. device \in [Devices -> DeviceRow]
  BY TypeParts DEF IInv
<1> QED
  BY <1>1 DEF Revoked, Fades, DeviceRow

LEMMA PinReplacedKeeps ==
  ASSUME IInv, NEW u \in Users, NEW left \in SUBSET grants, NEW row \in UserRow,
         user' = [user EXCEPT ![u] = row], row.version = user[u].version + 1,
         row.fails = 0, ~row.locked, row.state # "new", PinReplaced(u, left)
  PROVE  /\ user' \in [Users -> UserRow] /\ AccountsKept /\ DevicesKept /\ Monotone
         /\ grants' \subseteq left /\ InvitesFollow
<1>1. AccountsKept
  BY PinRestarts DEF PinReplaced
<1>2. user' \in [Users -> UserRow] /\ user[u].version \in Nat /\ user \in [Users -> UserRow]
  BY OneRow DEF UserRow
<1>3. user'[u].version > user[u].version
  BY <1>2, OneRow
<1>4. Monotone
  BY <1>2, <1>3, OneRow DEF Monotone, UserRow
<1>5. DevicesKept
  <2>1. \A v \in Users : user[v].state # "new" => user'[v].state # "new"
    BY OneRow
  <2> QED
    BY <2>1, RevokedFades, DevicesFade DEF PinReplaced
<1>6. grants' \subseteq left
  <2> DEFINE rows == left \cap GrantsWithout({u})
  <2>1. \A r \in rows : r \in grants /\ r.user # u /\ r.target # u
    BY DEF GrantsWithout
  <2>2. \A r \in rows : r.device \notin DevicesOf(u)
    BY <2>1 DEF IInv, Fits, GrantFits, Of, DevicesOf
  <2>3. Doubt(rows, {u}, DevicesOf(u)) = rows
    BY <2>1, <2>2, GrantsShrink
  <2> QED
    BY <2>3 DEF PinReplaced
<1>7. InvitesFollow
  <2>1. \A r \in InvitesWithout(u) : r \in invites /\ r.user # u /\ r.target \notin {u}
    BY DEF InvitesWithout
  <2>2. \A r \in InvitesWithout(u) : r.device \notin DevicesOf(u)
    BY <2>1 DEF IInv, Fits, InviteFits, Of, DevicesOf
  <2> QED
    BY <1>3, <2>1, <2>2, InvitesDoubted DEF PinReplaced
<1> QED
  BY <1>1, <1>2, <1>4, <1>5, <1>6, <1>7

LEMMA CreateKeeps ==
  ASSUME IInv, UNCHANGED profile, NEW p \in Presented, NEW u \in Users, CreateUser(p, u)
  PROVE  IInv'
<1>1. user' = [user EXCEPT ![u] = Account] /\ user[u].state = "new"
  BY DEF CreateUser, NewUser
<1>2. /\ user' \in [Users -> UserRow] /\ user'[u] = Account
      /\ \A v \in Users : v # u => user'[v] = user[v]
  BY <1>1, OneRow, NewRows
<1>3. AccountsKept
  <2>1. wrong[u] = 0 /\ wrong \in [Users -> 0..PinMaxFailures]
    BY <1>1, TypeParts DEF IInv, Fits, AccountFits
  <2>2. wrong' = [wrong EXCEPT ![u] = 0]
    BY <2>1 DEF CreateUser
  <2> QED
    BY <1>1, <2>2, PinRestarts, NewRows
<1>4. user[u].version = 1
  BY <1>1 DEF IInv, Fits, AccountFits
<1>5. Monotone
  <2>1. user \in [Users -> UserRow]
    BY TypeParts DEF IInv
  <2> QED
    BY <1>2, <1>4, <2>1, NewRows DEF Monotone, UserRow
<1>6. RolesKept
  <2>1. Admins' = Admins
    BY <1>1, <1>2, NewRows DEF Admins, Active
  <2> QED
    BY <2>1, RolesSame DEF CreateUser
<1>7. DevicesKept
  <2>1. \A v \in Users : user[v].state # "new" => user'[v].state # "new"
    BY <1>1, <1>2
  <2> QED
    BY <2>1, DevicesSame DEF CreateUser
<1>8. CallerOK' /\ grants' \subseteq grants /\ InvitesFollow
  BY ServedKeeps, LeftShrinks, InvitesSame DEF CreateUser
<1> QED
  BY <1>2, <1>3, <1>5, <1>6, <1>7, <1>8, InvKept

(* The account that changes has a new version and keeps its PIN counter. *)
LEMMA NewVersion ==
  ASSUME IInv, NEW u \in Users, NEW row \in UserRow, user' = [user EXCEPT ![u] = row],
         user[u].state # "new", row.state # "new", row.version = user[u].version + 1
  PROVE  /\ user' \in [Users -> UserRow] /\ Monotone /\ user'[u].version > user[u].version
         /\ \A v \in Users : user[v].state # "new" => user'[v].state # "new"
         /\ row.fails = user[u].fails /\ row.locked = user[u].locked /\ UNCHANGED wrong
              => AccountsKept
<1>1. user[u].version \in Nat /\ user \in [Users -> UserRow]
  BY OneRow DEF UserRow
<1>2. user' \in [Users -> UserRow] /\ user'[u] = row
      /\ \A v \in Users : v # u => user'[v] = user[v]
  BY OneRow
<1>3. user'[u].version > user[u].version
  BY <1>1, <1>2
<1>4. Monotone
  BY <1>1, <1>2, <1>3 DEF Monotone, UserRow
<1>5. ASSUME row.fails = user[u].fails, row.locked = user[u].locked, UNCHANGED wrong
      PROVE  AccountsKept
  BY <1>2, <1>5, AccountsSame
<1> QED
  BY <1>2, <1>3, <1>4, <1>5

LEMMA DeleteKeeps ==
  ASSUME IInv, UNCHANGED profile, NEW p \in Presented, NEW u \in Users, DeleteUser(p, u)
  PROVE  IInv'
<1> DEFINE base == Bumped(u)
           row == [base EXCEPT !.state = "deleted", !.access = FALSE, !.face = None]
<1>1. user[u] \in UserRow /\ user' = [user EXCEPT ![u] = row] /\ user[u].state = "active"
  BY TypeParts DEF IInv, DeleteUser, Active
<1>2. /\ row \in UserRow /\ row.version = user[u].version + 1 /\ row.state = "deleted"
      /\ row.fails = user[u].fails /\ row.locked = user[u].locked
  <2>1. /\ base \in UserRow /\ base.version = user[u].version + 1
        /\ base.fails = user[u].fails /\ base.locked = user[u].locked
    BY <1>1, BumpedFits
  <2> HIDE DEF base
  <2>2. row \in UserRow
    BY <2>1 DEF UserRow
  <2>3. /\ row.version = base.version /\ row.state = "deleted"
        /\ row.fails = base.fails /\ row.locked = base.locked
    BY <2>1 DEF UserRow
  <2> QED
    BY <2>1, <2>2, <2>3
<1> HIDE DEF row
<1>3. /\ user' \in [Users -> UserRow] /\ Monotone /\ user'[u].version > user[u].version
      /\ AccountsKept /\ \A v \in Users : user[v].state # "new" => user'[v].state # "new"
  BY <1>1, <1>2, NewVersion DEF DeleteUser
<1>4. DevicesKept
  BY <1>3, DevicesSame DEF DeleteUser
<1>5. RolesKept
  <2>1. Admins' = Admins \ {u}
    BY <1>1, <1>2, OneRow DEF Admins, Active
  <2>2. u # owner /\ (u \in Admins => Admins # {u}) /\ UNCHANGED <<ownership, owner>>
    BY DEF DeleteUser, MayLeave
  <2>3. RolesFit'
    BY <2>1, <2>2 DEF IInv, Fits, RolesFit
  <2> QED
    BY <2>2, <2>3, TypeParts DEF IInv, RolesKept
<1>6. CallerOK'
  BY ServedKeeps DEF DeleteUser
<1>7. grants' \subseteq grants /\ InvitesFollow
  BY <1>3, IdentityKeeps, LeftShrinks DEF DeleteUser
<1> QED
  BY <1>3, <1>4, <1>5, <1>6, <1>7, InvKept

LEMMA AccessKeeps ==
  ASSUME IInv, UNCHANGED profile, NEW p \in Presented, NEW u \in Users,
         NEW allowed \in BOOLEAN, SetAccess(p, u, allowed)
  PROVE  IInv'
<1> DEFINE row == [Bumped(u) EXCEPT !.access = allowed]
<1>1. user[u] \in UserRow /\ user' = [user EXCEPT ![u] = row] /\ user[u].state = "active"
  BY TypeParts DEF IInv, SetAccess, Active
<1>2. /\ row \in UserRow /\ row.version = user[u].version + 1
      /\ row.state = "active" /\ row.admin = user[u].admin
      /\ row.fails = user[u].fails /\ row.locked = user[u].locked
  BY <1>1, BumpedFits DEF UserRow
<1> HIDE DEF row
<1>3. /\ user' \in [Users -> UserRow] /\ Monotone /\ user'[u].version > user[u].version
      /\ AccountsKept /\ \A v \in Users : user[v].state # "new" => user'[v].state # "new"
  BY <1>1, <1>2, NewVersion DEF SetAccess
<1>4. DevicesKept
  BY <1>3, DevicesSame DEF SetAccess
<1>5. RolesKept
  <2>1. Admins' = Admins
    BY <1>1, <1>2, OneRow DEF Admins, Active
  <2> QED
    BY <2>1, RolesSame DEF SetAccess
<1>6. CallerOK'
  BY ServedKeeps DEF SetAccess
<1>7. grants' \subseteq grants /\ InvitesFollow
  BY <1>3, IdentityKeeps, LeftShrinks DEF SetAccess
<1> QED
  BY <1>3, <1>4, <1>5, <1>6, <1>7, InvKept

LEMMA SetPinKeeps ==
  ASSUME IInv, UNCHANGED profile, NEW p \in Presented, NEW u \in Users, SetPin(p, u)
  PROVE  IInv'
<1> DEFINE row == WithPin(Bumped(u))
<1>1. user[u] \in UserRow /\ user' = [user EXCEPT ![u] = row] /\ user[u].state = "active"
  BY TypeParts DEF IInv, SetPin, Active
<1>2. /\ row \in UserRow /\ row.version = user[u].version + 1
      /\ row.state = "active" /\ row.admin = user[u].admin
      /\ row.fails = 0 /\ ~row.locked
  BY <1>1, BumpedFits, WithPinFits
<1> HIDE DEF row
<1>3. /\ user' \in [Users -> UserRow] /\ AccountsKept /\ DevicesKept /\ Monotone
      /\ grants' \subseteq grants /\ InvitesFollow
  BY <1>1, <1>2, PinReplacedKeeps, LeftShrinks DEF SetPin
<1>4. RolesKept
  <2>1. Admins' = Admins
    BY <1>1, <1>2, OneRow DEF Admins, Active
  <2> QED
    BY <2>1, RolesSame DEF SetPin
<1>5. CallerOK'
  BY ServedKeeps DEF SetPin
<1> QED
  BY <1>3, <1>4, <1>5, InvKept

LEMMA RecoverAdminKeeps ==
  ASSUME IInv, UNCHANGED profile, NEW u \in Users, RecoverAdmin(u)
  PROVE  IInv'
<1> DEFINE base == WithPin(Bumped(u))
           row == [base EXCEPT !.admin = TRUE]
<1>1. user[u] \in UserRow /\ user' = [user EXCEPT ![u] = row] /\ user[u].state = "active"
  BY TypeParts DEF IInv, RecoverAdmin, Active
<1>2. /\ base \in UserRow /\ base.version = user[u].version + 1
      /\ base.state = "active" /\ base.fails = 0 /\ ~base.locked
  BY <1>1, BumpedFits, WithPinFits
<1> HIDE DEF base
<1>3. /\ row \in UserRow /\ row.version = user[u].version + 1
      /\ row.state = "active" /\ row.admin /\ row.fails = 0 /\ ~row.locked
  BY <1>2 DEF UserRow
<1> HIDE DEF row
<1>4. /\ user' \in [Users -> UserRow] /\ AccountsKept /\ DevicesKept /\ Monotone
      /\ grants' \subseteq grants /\ InvitesFollow
  BY <1>1, <1>3, PinReplacedKeeps DEF RecoverAdmin
<1>5. RolesKept
  <2>1. u \in Admins'
    BY <1>1, <1>3, OneRow DEF Admins, Active
  <2>2. ownership = "legacy" /\ UNCHANGED <<ownership, owner>>
    BY DEF RecoverAdmin
  <2>3. RolesFit'
    BY <2>1, <2>2 DEF IInv, Fits, RolesFit
  <2> QED
    BY <2>2, <2>3, TypeParts DEF IInv, RolesKept
<1>6. CallerOK'
  BY TypeParts DEF IInv, CallerOK, RecoverAdmin
<1> QED
  BY <1>4, <1>5, <1>6, InvKept

(* Only the owner changes roles, so the product is claimed. *)
LEMMA RoleKeeps ==
  ASSUME IInv, UNCHANGED profile, NEW p \in Presented, NEW u \in Users, NEW on \in BOOLEAN,
         SetRole(p, u, on)
  PROVE  IInv'
<1> DEFINE changed == Demoted(u, on) \cup {v \in {u} : user[u].admin # on}
           new(v) == [Bumped(v) EXCEPT !.admin = on /\ v = u]
<1>1. /\ user \in [Users -> UserRow] /\ changed \in SUBSET Users
      /\ user' = [v \in Users |-> IF v \in changed THEN new(v) ELSE user[v]]
  BY TypeParts DEF IInv, SetRole, Demoted
<1>2. ASSUME NEW v \in Users
      PROVE  /\ new(v) \in UserRow /\ new(v).version = user[v].version + 1
             /\ new(v).state = user[v].state /\ new(v).admin = (on /\ v = u)
             /\ new(v).fails = user[v].fails /\ new(v).locked = user[v].locked
  <2> DEFINE base == Bumped(v)
  <2>1. /\ base \in UserRow /\ base.version = user[v].version + 1
        /\ base.state = user[v].state
        /\ base.fails = user[v].fails /\ base.locked = user[v].locked
    BY <1>1, BumpedFits
  <2>2. new(v) = [base EXCEPT !.admin = on /\ v = u] /\ (on /\ v = u) \in BOOLEAN
    OBVIOUS
  <2> HIDE DEF base, new
  <2> QED
    BY <2>1, <2>2 DEF UserRow
<1>3. /\ MayAct(p, "user.role", u) /\ Served(p) /\ Active(u) /\ u # owner
      /\ UNCHANGED <<device, ownership, owner, wrong>>
      /\ grants' = Doubt(Left(p, "user.role", u) \cap GrantsWithout(changed), changed, {})
      /\ invites' = DoubtInvites({i \in invites : i.user \notin changed}, changed, {}, {})
  BY DEF SetRole
<1>4. owner # None /\ owner \notin changed /\ changed = {v \in Users :
        (v = u /\ user[u].admin # on) \/ (on /\ user[v].admin /\ v \notin {u, owner})}
  <2>1. p.owner
    BY <1>3 DEF MayAct, RoleAllows, OwnerActions
  <2>2. p.user \in Users /\ p.user = owner
    BY <1>3, <2>1, ActHas
  <2>3. owner # None
    BY <2>2 DEF SecurityStoreAssumption
  <2> QED
    BY <1>3, <2>3 DEF Demoted
<1> HIDE DEF changed, new
<1>5. /\ \A v \in changed : user'[v] = new(v)
      /\ \A v \in Users : v \notin changed => user'[v] = user[v]
  BY <1>1
<1>6. user' \in [Users -> UserRow]
  BY <1>1, <1>2
<1>7. \A v \in changed : user[v].version \in Nat /\ user'[v].version = user[v].version + 1
  BY <1>1, <1>2, <1>5 DEF UserRow
<1>8. Monotone /\ \A v \in changed : user'[v].version > user[v].version
  BY <1>1, <1>5, <1>7 DEF Monotone, UserRow
<1>9. \A v \in Users :
        /\ user'[v].state = user[v].state
        /\ user'[v].fails = user[v].fails /\ user'[v].locked = user[v].locked
        /\ v \notin changed => user'[v] = user[v]
  BY <1>2, <1>5
<1>10. AccountsKept
  <2>1. ASSUME NEW v \in changed PROVE user[v].state # "new"
    <3>1. v \in Users /\ (v = u \/ user[v].admin)
      BY <1>4
    <3>2. CASE v = u
      BY <1>3, <3>2 DEF Active
    <3>3. CASE user[v].admin
      BY <3>1, <3>3 DEF IInv, Fits, AccountFits
    <3> QED
      BY <3>1, <3>2, <3>3
  <2>2. ASSUME NEW v \in Users
        PROVE  /\ user'[v].fails = user[v].fails
               /\ user'[v].locked = user[v].locked
               /\ user'[v].state = "new" =>
                    /\ user[v].state = "new" /\ user'[v].version = user[v].version
                    /\ user'[v].admin = user[v].admin
    <3>1. CASE v \in changed
      BY <1>9, <2>1, <3>1
    <3>2. CASE v \notin changed
      BY <1>9, <3>2
    <3> QED
      BY <3>1, <3>2
  <2> QED
    BY <1>3, <2>2, AccountsSame
<1>11. DevicesKept
  BY <1>3, <1>9, DevicesSame
<1>12. RolesKept
  <2>1. ownership = "claimed" /\ owner \in Admins
    BY <1>4, TypeParts DEF IInv, Fits, RolesFit
  <2>2. owner \in Admins'
    BY <1>3, <1>4, <1>9, <2>1 DEF Admins, Active
  <2>3. CASE on
    <3>1. Admins' \ {owner} \subseteq {u}
      BY <1>2, <1>3, <1>4, <1>5, <2>3 DEF Admins
    <3> QED
      BY <1>3, <1>4, <2>1, <2>2, <3>1, TypeParts DEF RolesKept, RolesFit, IInv
  <2>4. CASE ~on
    <3>1. Admins' \subseteq Admins
      BY <1>2, <1>4, <1>5, <1>9, <2>4 DEF Admins, Active
    <3>2. \A v, w \in Admins' \ {owner} : v = w
      BY <2>1, <3>1 DEF IInv, Fits, RolesFit
    <3> QED
      BY <1>3, <1>4, <2>1, <2>2, <3>2, TypeParts DEF RolesKept, RolesFit, IInv
  <2> QED
    BY <2>3, <2>4
<1>13. grants' \subseteq grants
  <2> DEFINE none == {}
             rows == Left(p, "user.role", u) \cap GrantsWithout(changed)
  <2>1. rows \in SUBSET grants
        /\ \A r \in rows : r.user \notin changed /\ r.target \notin changed /\ r.device \notin none
    BY LeftShrinks DEF GrantsWithout
  <2>2. grants' = Doubt(rows, changed, none)
    BY <1>3
  <2> HIDE DEF rows, none
  <2> QED
    BY <2>1, <2>2, GrantsShrink
<1>14. InvitesFollow
  <2> DEFINE none == {}
             rows == {i \in invites : i.user \notin changed}
  <2>1. rows \in SUBSET invites /\ \A r \in rows : r.target \notin none /\ r.device \notin none
    OBVIOUS
  <2>2. invites' = DoubtInvites(rows, changed, none, none)
    BY <1>3
  <2> HIDE DEF rows, none
  <2> QED
    BY <1>8, <2>1, <2>2, InvitesDoubted
<1>15. CallerOK'
  BY <1>3, ServedKeeps
<1> QED
  BY <1>6, <1>8, <1>10, <1>11, <1>12, <1>13, <1>14, <1>15, InvKept

LEMMA OffShrinks ==
  ASSUME IInv, NEW d \in Devices, NEW left \in SUBSET grants,
         grants' = Doubt(left \cap GrantsOff({d}), {}, {d})
  PROVE  grants' \subseteq left
<1> DEFINE none == {}
           rows == left \cap GrantsOff({d})
<1>1. rows \in SUBSET grants
      /\ \A r \in rows : r.user \notin none /\ r.target \notin none /\ r.device \notin {d}
  BY DEF GrantsOff
<1>2. grants' = Doubt(rows, none, {d}) /\ rows \subseteq left
  OBVIOUS
<1> HIDE DEF rows, none
<1> QED
  BY <1>1, <1>2, GrantsShrink

(* Devices that go take their grants and invitations with them. *)
LEMMA OffKeeps ==
  ASSUME IInv, UNCHANGED <<user, ownership, owner, wrong, profile>>, CallerOK',
         NEW d \in Devices, NEW state \in {"revoked", "gone"}, NEW left \in SUBSET grants,
         device[d].state = "active", device' = Off(d, state),
         grants' = Doubt(left \cap GrantsOff({d}), {}, {d}),
         invites' = DoubtInvites(InvitesOff({d}), {}, {d}, {})
  PROVE  IInv'
<1>1. user' \in [Users -> UserRow] /\ device \in [Devices -> DeviceRow]
      /\ \A u \in Users : RowKept(u)
  BY TypeParts DEF IInv, RowKept
<1>2. device' \in [Devices -> DeviceRow] /\ \A e \in Devices : Fades(e)
  BY <1>1 DEF Off, Fades, DeviceRow
<1>3. Monotone /\ AccountsKept /\ RolesKept /\ DevicesKept
  BY <1>1, <1>2, RowsKept, AccountsSame, RolesSame, DevicesFade
<1> DEFINE none == {}
<1>4. grants' \subseteq grants
  BY OffShrinks
<1>5. InvitesFollow
  <2> DEFINE rows == InvitesOff({d})
  <2>1. rows \in SUBSET invites /\ \A r \in rows : r.target \notin none /\ r.device \notin {d}
    BY DEF InvitesOff
  <2>2. invites' = DoubtInvites(rows, none, {d}, none) /\ \A u \in none : FALSE
    OBVIOUS
  <2> HIDE DEF rows, none
  <2> QED
    BY <2>1, <2>2, InvitesDoubted
<1> QED
  BY <1>1, <1>3, <1>4, <1>5, InvKept

LEMMA RevokeKeeps ==
  ASSUME IInv, UNCHANGED profile, NEW p \in Presented, NEW d \in Devices, RevokeDevice(p, d)
  PROVE  IInv'
<1>1. CallerOK' /\ Left(p, "device.revoke", d) \in SUBSET grants
  BY ServedKeeps, LeftShrinks DEF RevokeDevice
<1> QED
  BY <1>1, OffKeeps DEF RevokeDevice

LEMMA EndLocalKeeps ==
  ASSUME IInv, UNCHANGED profile, NEW d \in Devices, NEW state \in {"revoked", "gone"},
         EndLocal(d, state)
  PROVE  IInv'
<1>1. CallerOK'
  BY TypeParts DEF IInv, CallerOK, EndLocal
<1>2. grants' = Doubt(grants \cap GrantsOff({d}), {}, {d})
  BY DEF EndLocal, GrantsOff
<1> QED
  BY <1>1, <1>2, OffKeeps DEF EndLocal

LEMMA InviteKeeps ==
  ASSUME IInv, UNCHANGED profile, NEW p \in Presented, NEW u \in Users, IssueInvite(p, u)
  PROVE  IInv'
<1> DEFINE rest == {i \in invites : i.target # u}
           new == [target |-> u, user |-> p.user, device |-> p.device,
                   version |-> p.version, sound |-> TRUE]
<1>1. /\ p.device \in Devices /\ device[p.device].state = "active" /\ p.user \in Users
      /\ p.user = device[p.device].user /\ p.version = user[p.user].version
  BY ActHas DEF IssueInvite
<1>2. /\ user' \in [Users -> UserRow] /\ AccountsKept /\ \A v \in Users : RowKept(v)
  BY AccountsSame, TypeParts DEF IInv, RowKept, IssueInvite
<1>3. Monotone /\ RolesKept /\ DevicesKept
  BY <1>2, RowsKept, RolesSame, DevicesSame DEF IssueInvite
<1>4. user \in [Users -> UserRow] /\ invites \subseteq InviteRow /\ grants \subseteq GrantRow
  BY TypeParts DEF IInv
<1>5. new \in InviteRow /\ InviteFits(new)
  <2>1. p.version \in Nat
    BY <1>1, <1>4 DEF UserRow
  <2>2. new \in InviteRow
    BY <1>1, <2>1 DEF InviteRow
  <2> QED
    BY <1>1, <2>1, <2>2 DEF InviteFits, Of
<1>6. /\ invites' = rest \cup {new} /\ grants' \subseteq grants
      /\ device' = device /\ user' = user
  BY LeftShrinks DEF IssueInvite
<1>7. InvitesFit'
  <2>1. ASSUME NEW i \in invites' PROVE i \in InviteRow /\ InviteFits(i)'
    <3>1. i \in InviteRow /\ InviteFits(i)
      BY <1>4, <1>5, <1>6, <2>1 DEF IInv, Fits
    <3> QED
      BY <1>6, <3>1 DEF InviteFits, Of
  <2> QED
    BY <2>1 DEF InvitesFit
<1>8. GrantsFit'
  BY <1>4, <1>6 DEF IInv, Fits, GrantsFit, GrantFits, Of
<1>9. CallerOK' /\ profile' \in Profiles
  BY ServedKeeps, TypeParts DEF IssueInvite, IInv
<1> QED
  BY <1>2, <1>3, <1>7, <1>8, <1>9, Assembled DEF DevicesKept

-----------------------------------------------------------------------------
(* Devices and ownership *)

LEMMA NewDeviceFits ==
  ASSUME IInv, device' \in [Devices -> DeviceRow],
         NEW d \in Devices, NEW w \in Users, NEW kind \in {"mobile", "local"},
         device[d].state = "free", device'[d] = Row(w, kind), user'[w].state # "new",
         \A e \in Devices : e # d => Fades(e),
         \A u \in Users : user[u].state # "new" => user'[u].state # "new",
         kind = "mobile" => /\ IsFiniteSet(MobilesOf(w)')
                            /\ Cardinality(MobilesOf(w)') <= MaxMobileDevices
  PROVE  DevicesKept
<1>1. DevicesStay
  BY DEF DevicesStay, Fades
<1>2. ASSUME NEW e \in Devices PROVE DeviceFits(e)'
  <2>1. CASE e = d
    BY <2>1, RowFits DEF DeviceFits
  <2>2. CASE e # d
    BY <2>2 DEF DeviceFits, Fades, IInv, Fits
  <2> QED
    BY <2>1, <2>2
<1>3. ASSUME NEW u \in Users PROVE Slots(u)'
  <2>1. CASE u = w /\ kind = "mobile"
    BY <2>1 DEF Slots
  <2>2. CASE ~(u = w /\ kind = "mobile")
    <3>1. MobilesOf(u)' \subseteq MobilesOf(u)
      <4> SUFFICES ASSUME NEW e \in Devices, device'[e].user = u, device'[e].kind = "mobile",
                          device'[e].state \in {"active", "revoked"}
                   PROVE  e \in MobilesOf(u)
        BY DEF MobilesOf, DevicesOf
      <4>1. e # d
        BY <2>2, RowFits
      <4> QED
        BY <4>1 DEF MobilesOf, DevicesOf, Fades
    <3>2. Slots(u)
      BY DEF IInv, Fits
    <3>3. IsFiniteSet(MobilesOf(u)') /\ Cardinality(MobilesOf(u)') <= Cardinality(MobilesOf(u))
      BY <3>1, <3>2, FS_Subset DEF Slots
    <3>4. Cardinality(MobilesOf(u)) \in Nat /\ Cardinality(MobilesOf(u)') \in Nat
      BY <3>2, <3>3, FS_CardinalityType DEF Slots
    <3> QED
      BY <3>2, <3>3, <3>4 DEF Slots, SecurityStoreAssumption
  <2> QED
    BY <2>1, <2>2
<1> QED
  BY <1>1, <1>2, <1>3 DEF DevicesKept, DevicesFit

LEMMA CutOff ==
  ASSUME IInv, NEW ds, NEW rows \in SUBSET InvitesOff(ds),
         grants' = Doubt(GrantsOff(ds), {}, ds), invites' = DoubtInvites(rows, {}, ds, {})
  PROVE  grants' \subseteq grants /\ InvitesFollow
<1> DEFINE none == {}
<1>1. grants' \subseteq grants
  <2>1. GrantsOff(ds) \in SUBSET grants
        /\ \A r \in GrantsOff(ds) : r.user \notin none /\ r.target \notin none /\ r.device \notin ds
    BY DEF GrantsOff
  <2>2. grants' = Doubt(GrantsOff(ds), none, ds)
    OBVIOUS
  <2> HIDE DEF none
  <2> QED
    BY <2>1, <2>2, GrantsShrink
<1>2. InvitesFollow
  <2>1. rows \in SUBSET invites /\ \A r \in rows : r.target \notin none /\ r.device \notin ds
    BY DEF InvitesOff
  <2>2. invites' = DoubtInvites(rows, none, ds, none) /\ \A u \in none : FALSE
    OBVIOUS
  <2> HIDE DEF none
  <2> QED
    BY <2>1, <2>2, InvitesDoubted
<1> QED
  BY <1>1, <1>2

(* A pairing takes a free place, or that of one revoked device. *)
LEMMA PlaceTaken ==
  ASSUME IInv, NEW u \in Users, NEW evicted \in SUBSET MobilesOf(u), RoomFor(u, evicted),
         NEW d \in Devices, device[d].state = "free",
         device' = Gone(evicted, d, Row(u, "mobile"))
  PROVE  /\ IsFiniteSet(MobilesOf(u)') /\ Cardinality(MobilesOf(u)') <= MaxMobileDevices
         /\ device' \in [Devices -> DeviceRow] /\ device'[d] = Row(u, "mobile")
         /\ \A e \in Devices : e # d => Fades(e)
<1> DEFINE M == MobilesOf(u)
           row == Row(u, "mobile")
<1>1. /\ row \in DeviceRow /\ row.state = "active" /\ row.user = u /\ row.kind = "mobile"
      /\ device \in [Devices -> DeviceRow]
  BY RowFits, TypeParts DEF IInv
<1>2. /\ IsFiniteSet(M) /\ Cardinality(M) <= MaxMobileDevices /\ d \notin M
      /\ Cardinality(M) \in Nat /\ evicted \subseteq Devices
      /\ \A e \in evicted : device[e].state \in {"active", "revoked"}
  <2>1. IsFiniteSet(M) /\ Cardinality(M) <= MaxMobileDevices
    BY DEF IInv, Fits, Slots
  <2>2. Cardinality(M) \in Nat
    BY <2>1, FS_CardinalityType
  <2> QED
    BY <2>1, <2>2 DEF MobilesOf, DevicesOf
<1>3. device' = [e \in Devices |-> IF e = d THEN row
                   ELSE IF e \in evicted THEN [device[e] EXCEPT !.state = "gone"] ELSE device[e]]
  BY DEF Gone
<1> HIDE DEF row
<1>4. device' \in [Devices -> DeviceRow] /\ device'[d] = row
  BY <1>1, <1>3 DEF DeviceRow
<1>5. ASSUME NEW e \in Devices, e # d PROVE Fades(e)
  BY <1>1, <1>2, <1>3, <1>5 DEF Fades, DeviceRow
<1>6. M' = (M \ evicted) \cup {d}
  <2>1. ASSUME NEW e \in Devices, e # d PROVE (e \in M') = (e \in M \ evicted)
    BY <1>1, <1>3, <2>1 DEF MobilesOf, DevicesOf, DeviceRow
  <2>2. d \in M' /\ M' \subseteq Devices /\ M \subseteq Devices
    BY <1>1, <1>4 DEF MobilesOf, DevicesOf
  <2> QED
    BY <2>1, <2>2
<1> HIDE DEF M
<1>7. IsFiniteSet(M') /\ Cardinality(M') <= MaxMobileDevices
  <2>1. CASE Cardinality(M) < MaxMobileDevices
    <3>1. evicted = {}
      BY <2>1 DEF RoomFor, M
    <3>2. IsFiniteSet(M \cup {d}) /\ Cardinality(M \cup {d}) = Cardinality(M) + 1
      BY <1>2, FS_AddElement
    <3> QED
      BY <1>2, <1>6, <2>1, <3>1, <3>2 DEF SecurityStoreAssumption
  <2>2. CASE ~(Cardinality(M) < MaxMobileDevices)
    <3>1. PICK e \in M : evicted = {e}
      BY <2>2 DEF RoomFor, M
    <3>2. IsFiniteSet(M \ {e}) /\ Cardinality(M \ {e}) = Cardinality(M) - 1
      BY <1>2, FS_RemoveElement
    <3>3. IsFiniteSet((M \ {e}) \cup {d})
          /\ Cardinality((M \ {e}) \cup {d}) = Cardinality(M \ {e}) + 1
      BY <1>2, <3>2, FS_AddElement
    <3> QED
      BY <1>2, <1>6, <3>1, <3>2, <3>3 DEF SecurityStoreAssumption
  <2> QED
    BY <2>1, <2>2
<1> QED
  BY <1>4, <1>5, <1>7 DEF M, row

LEMMA PairKeeps ==
  ASSUME IInv, UNCHANGED profile, NEW i \in invites, NEW d \in Devices, Pair(i, d)
  PROVE  IInv'
<1> DEFINE u == i.target
<1>1. u \in Users
  BY TypeParts DEF IInv, InviteRow
<1> HIDE DEF u
<1>2. /\ user' \in [Users -> UserRow] /\ AccountsKept /\ \A v \in Users : RowKept(v)
  BY <1>1, RestartedKeep DEF Pair, RightPin, u
<1>3. PICK evicted \in SUBSET MobilesOf(u) :
        /\ RoomFor(u, evicted) /\ device' = Gone(evicted, d, Row(u, "mobile"))
        /\ grants' = Doubt(GrantsOff(evicted), {}, evicted)
        /\ invites' = DoubtInvites(InvitesOff(evicted) \ {i}, {}, evicted, {})
  BY DEF Pair, u
<1>4. /\ device[d].state = "free" /\ user[u].state = "active"
      /\ UNCHANGED <<ownership, owner, caller>>
  BY DEF Pair, NewDevice, RightPin, Active, u
<1>5. Monotone /\ RolesKept /\ \A v \in Users : user[v].state # "new" => user'[v].state # "new"
  BY <1>2, <1>4, RowsKept, RolesSame
<1>6. /\ IsFiniteSet(MobilesOf(u)') /\ Cardinality(MobilesOf(u)') <= MaxMobileDevices
      /\ device' \in [Devices -> DeviceRow] /\ device'[d] = Row(u, "mobile")
      /\ \A e \in Devices : e # d => Fades(e)
  BY <1>1, <1>3, <1>4, PlaceTaken
<1>7. DevicesKept
  <2>1. user'[u].state # "new"
    BY <1>1, <1>4, <1>5
  <2> QED
    BY <1>1, <1>4, <1>5, <1>6, <2>1, NewDeviceFits
<1>8. grants' \subseteq grants /\ InvitesFollow
  BY <1>3, CutOff
<1>9. CallerOK'
  BY <1>4, TypeParts DEF IInv, CallerOK
<1> QED
  BY <1>2, <1>5, <1>7, <1>8, <1>9, InvKept

LEMMA LoginKeeps ==
  ASSUME IInv, UNCHANGED profile, NEW u \in Users, NEW d \in Devices,
         NEW previous \in SUBSET Devices, LocalLogin(u, d, previous)
  PROVE  IInv'
<1> DEFINE stale == {e \in DevicesOf(u) : device[e].kind = "local"}
           row == Row(u, "local")
<1>1. /\ user' \in [Users -> UserRow] /\ AccountsKept /\ \A v \in Users : RowKept(v)
  BY RestartedKeep DEF LocalLogin, RightPin
<1>2. /\ device[d].state = "free" /\ user[u].state = "active"
      /\ UNCHANGED <<ownership, owner, caller>>
      /\ \A e \in previous : device[e].state = "active"
  BY DEF LocalLogin, NewDevice, RightPin, Active
<1>3. device' = [e \in Devices |->
         IF e = d THEN row
         ELSE IF e \in stale THEN [device[e] EXCEPT !.state = "gone"]
         ELSE IF e \in previous THEN [device[e] EXCEPT !.state = "revoked"] ELSE device[e]]
  BY DEF LocalLogin
<1>4. \A e \in stale : device[e].state \in {"active", "revoked"}
  BY DEF DevicesOf
<1>5. grants' \subseteq grants /\ InvitesFollow
  <2> DEFINE ds == stale \cup previous
  <2>1. /\ grants' = Doubt(GrantsOff(ds), {}, ds)
        /\ invites' = DoubtInvites(InvitesOff(ds), {}, ds, {})
    BY DEF LocalLogin
  <2> HIDE DEF ds
  <2> QED
    BY <2>1, CutOff
<1> HIDE DEF stale, row
<1>6. Monotone /\ RolesKept /\ \A v \in Users : user[v].state # "new" => user'[v].state # "new"
  BY <1>1, <1>2, RowsKept, RolesSame
<1>7. device \in [Devices -> DeviceRow] /\ row \in DeviceRow
  BY TypeParts, RowFits DEF IInv, row
<1>8. device' \in [Devices -> DeviceRow] /\ device'[d] = row
  BY <1>3, <1>7 DEF DeviceRow
<1>9. ASSUME NEW e \in Devices, e # d PROVE Fades(e)
  BY <1>2, <1>3, <1>4, <1>7, <1>9 DEF Fades, DeviceRow
<1>10. DevicesKept
  <2>1. user'[u].state # "new"
    BY <1>2, <1>6
  <2> QED
    BY <1>2, <1>6, <1>8, <1>9, <2>1, NewDeviceFits DEF row
<1>11. CallerOK'
  BY <1>2, TypeParts DEF IInv, CallerOK
<1> QED
  BY <1>1, <1>5, <1>6, <1>10, <1>11, InvKept

(* The first account of a product, and its device. *)
LEMMA ClaimKeeps ==
  ASSUME IInv, UNCHANGED profile, NEW u \in Users, NEW d \in Devices, Claim(u, d)
  PROVE  IInv'
<1> DEFINE row == [Account EXCEPT !.admin = TRUE]
<1>1. /\ ownership = "unclaimed" /\ ownership' = "claimed" /\ owner' = u
      /\ user[u].state = "new" /\ device[d].state = "free"
      /\ user' = [user EXCEPT ![u] = row] /\ device' = Put(d, Row(u, "mobile"))
      /\ UNCHANGED <<grants, invites, caller, wrong>>
  BY DEF Claim, NewUser, NewDevice
<1>2. /\ row \in UserRow /\ row.state = "active" /\ row.admin /\ row.version = 1
      /\ row.fails = 0 /\ ~row.locked
  BY NewRows DEF UserRow
<1> HIDE DEF row
<1>3. /\ user \in [Users -> UserRow] /\ user' \in [Users -> UserRow] /\ user'[u] = row
      /\ \A v \in Users : v # u => user'[v] = user[v]
  BY <1>1, <1>2, OneRow
<1>4. /\ wrong[u] = 0 /\ user[u].version = 1 /\ wrong \in [Users -> 0..PinMaxFailures]
  BY <1>1, TypeParts DEF IInv, Fits, AccountFits
<1>5. AccountsKept
  <2>1. wrong' = [wrong EXCEPT ![u] = 0]
    BY <1>1, <1>4
  <2> QED
    BY <1>1, <1>2, <2>1, PinRestarts
<1>6. Monotone
  BY <1>2, <1>3, <1>4 DEF Monotone, UserRow
<1>7. RolesKept
  <2>1. Admins' = {u}
    BY <1>1, <1>2, <1>3 DEF Admins, Active, IInv, Fits, RolesFit
  <2>2. u # None
    BY DEF SecurityStoreAssumption
  <2> QED
    BY <1>1, <2>1, <2>2 DEF RolesKept, RolesFit
<1>8. DevicesKept
  <2>1. /\ device \in [Devices -> DeviceRow] /\ Row(u, "mobile") \in DeviceRow
        /\ Row(u, "mobile").state = "active" /\ Row(u, "mobile").user = u
        /\ Row(u, "mobile").kind = "mobile"
    BY RowFits, TypeParts DEF IInv
  <2>2. /\ device' \in [Devices -> DeviceRow] /\ device'[d] = Row(u, "mobile")
        /\ \A e \in Devices : e # d => device'[e] = device[e]
    BY <1>1, <2>1 DEF Put
  <2>3. MobilesOf(u)' = {d}
    <3>1. \A e \in Devices : device[e].state \in {"active", "revoked"} => device[e].user # u
      BY <1>1 DEF IInv, Fits, DeviceFits
    <3> QED
      BY <2>1, <2>2, <3>1 DEF MobilesOf, DevicesOf
  <2>4. IsFiniteSet({d}) /\ Cardinality({d}) <= MaxMobileDevices
    <3>1. IsFiniteSet({d}) /\ Cardinality({d}) = 1
      BY FS_Singleton
    <3>2. 1 <= MaxMobileDevices
      BY DEF SecurityStoreAssumption
    <3> QED
      BY <3>1, <3>2
  <2>5. \A e \in Devices : e # d => Fades(e)
    BY <2>2 DEF Fades
  <2>6. user'[u].state # "new" /\ \A v \in Users : user[v].state # "new" => user'[v].state # "new"
    BY <1>2, <1>3
  <2> QED
    BY <1>1, <2>2, <2>3, <2>4, <2>5, <2>6, NewDeviceFits
<1>9. CallerOK' /\ grants' \subseteq grants /\ InvitesFollow
  BY <1>1, InvitesSame, TypeParts DEF IInv, CallerOK
<1> QED
  BY <1>3, <1>5, <1>6, <1>7, <1>8, <1>9, InvKept

LEMMA RecoverKeeps ==
  ASSUME IInv, UNCHANGED profile, NEW d \in Devices, Recover(d)
  PROVE  IInv'
<1>0. PICK w \in Users : w = owner
  BY DEF Recover, Admins
<1> DEFINE base == WithPin(Bumped(w))
           row == [base EXCEPT !.faceFails = 0, !.faceLocked = FALSE]
           old == {e \in Devices : device[e].state # "free"}
<1>1. /\ w \in Users /\ user[w].state = "active" /\ user[w].admin
      /\ device[d].state = "free" /\ user' = [user EXCEPT ![w] = row]
      /\ device' = Gone(old, d, Row(w, "mobile"))
      /\ grants' = {} /\ invites' = {} /\ wrong' = [wrong EXCEPT ![w] = 0]
      /\ UNCHANGED <<ownership, owner, caller>>
  BY <1>0 DEF Recover, NewDevice, Admins, Active
<1>2. user[w] \in UserRow
  BY <1>1, TypeParts DEF IInv
<1>3. /\ base \in UserRow /\ base.version = user[w].version + 1 /\ base.state = "active"
      /\ base.admin = user[w].admin /\ base.fails = 0 /\ ~base.locked
  BY <1>1, <1>2, BumpedFits, WithPinFits
<1> HIDE DEF base
<1>4. /\ row \in UserRow /\ row.version = user[w].version + 1 /\ row.state = "active"
      /\ row.admin = user[w].admin /\ row.fails = 0 /\ ~row.locked
  BY <1>3, Counts DEF UserRow
<1> HIDE DEF row
<1>5. /\ user' \in [Users -> UserRow] /\ Monotone
      /\ \A v \in Users : user[v].state # "new" => user'[v].state # "new"
  BY <1>1, <1>4, NewVersion
<1>6. AccountsKept
  BY <1>1, <1>4, PinRestarts
<1>7. RolesKept
  <2>1. Admins' = Admins
    BY <1>1, <1>4, OneRow DEF Admins, Active
  <2> QED
    BY <1>1, <2>1, RolesSame
<1>8. DevicesKept
  <2>1. /\ device \in [Devices -> DeviceRow] /\ Row(w, "mobile") \in DeviceRow
        /\ Row(w, "mobile").state = "active" /\ Row(w, "mobile").user = w
        /\ Row(w, "mobile").kind = "mobile"
    BY <1>1, RowFits, TypeParts DEF IInv
  <2>2. device' = [e \in Devices |-> IF e = d THEN Row(w, "mobile")
           ELSE IF e \in old THEN [device[e] EXCEPT !.state = "gone"] ELSE device[e]]
    BY <1>1 DEF Gone
  <2>3. /\ device' \in [Devices -> DeviceRow] /\ device'[d] = Row(w, "mobile")
        /\ \A e \in Devices : e # d => device'[e].state \in {"gone", "free"}
    BY <2>1, <2>2 DEF DeviceRow
  <2>4. \A e \in Devices : e # d => Fades(e)
    BY <2>1, <2>2 DEF Fades, DeviceRow
  <2>5. MobilesOf(w)' = {d}
    <3>1. d \in MobilesOf(w)'
      BY <2>1, <2>3 DEF MobilesOf, DevicesOf
    <3>2. \A e \in Devices : e # d => e \notin MobilesOf(w)'
      BY <2>3 DEF MobilesOf, DevicesOf
    <3>3. MobilesOf(w)' \subseteq Devices
      BY DEF MobilesOf, DevicesOf
    <3> QED
      BY <3>1, <3>2, <3>3
  <2>6. IsFiniteSet({d}) /\ Cardinality({d}) <= MaxMobileDevices
    <3>1. IsFiniteSet({d}) /\ Cardinality({d}) = 1
      BY FS_Singleton
    <3>2. 1 <= MaxMobileDevices
      BY DEF SecurityStoreAssumption
    <3> QED
      BY <3>1, <3>2
  <2>7. user'[w].state # "new"
    BY <1>1, <1>5
  <2>8. IsFiniteSet(MobilesOf(w)') /\ Cardinality(MobilesOf(w)') <= MaxMobileDevices
    BY <2>5, <2>6
  <2>9. device' \in [Devices -> DeviceRow] /\ device'[d] = Row(w, "mobile")
    BY <2>3
  <2>10. device[d].state = "free" /\ "mobile" \in {"mobile", "local"}
    BY <1>1
  <2> QED
    BY <1>5, <2>4, <2>7, <2>8, <2>9, <2>10, NewDeviceFits
<1>9. CallerOK' /\ grants' \subseteq grants /\ InvitesFollow
  BY <1>1, TypeParts DEF IInv, CallerOK, InvitesFollow
<1> QED
  BY <1>5, <1>6, <1>7, <1>8, <1>9, InvKept

LEMMA ResetKeeps ==
  ASSUME IInv, UNCHANGED profile, ResetProduct
  PROVE  IInv'
<1> DEFINE row == [NoUser EXCEPT !.state = "gone"]
           off == [NoDevice EXCEPT !.state = "gone"]
<1>1. /\ ownership' = "unclaimed" /\ owner' = None /\ grants' = {} /\ invites' = {}
      /\ user' = [u \in Users |-> IF user[u].state = "new" THEN user[u] ELSE row]
      /\ device' = [d \in Devices |-> IF device[d].state = "free" THEN device[d] ELSE off]
      /\ wrong' = [u \in Users |-> 0] /\ UNCHANGED caller
  BY DEF ResetProduct
<1>2. /\ row \in UserRow /\ row.state = "gone" /\ ~row.locked /\ row.fails = 0
  <2>1. row \in UserRow
    BY NewRows DEF UserRow
  <2> QED
    BY <2>1 DEF NoUser
<1>3. off \in DeviceRow /\ off.state = "gone"
  BY DEF NoDevice, DeviceRow
<1> HIDE DEF row, off
<1>4. user \in [Users -> UserRow] /\ device \in [Devices -> DeviceRow]
  BY TypeParts DEF IInv
<1>5. user' \in [Users -> UserRow] /\ device' \in [Devices -> DeviceRow]
  BY <1>1, <1>2, <1>3, <1>4
<1>6. AccountsKept
  <2>1. 0 \in 0..PinMaxFailures
    BY DEF SecurityStoreAssumption
  <2>2. ASSUME NEW u \in Users PROVE AccountFits(u)'
    BY <1>1, <1>2, <2>2 DEF AccountFits, IInv, Fits
  <2> QED
    BY <1>1, <2>1, <2>2 DEF AccountsKept
<1>7. RolesKept
  <2>1. Admins' = {}
    BY <1>1, <1>2 DEF Admins, Active
  <2> QED
    BY <1>1, <2>1 DEF RolesKept, RolesFit
<1>8. DevicesFit'
  <2>1. \A d \in Devices : device'[d].state \notin {"active", "revoked"}
    BY <1>1, <1>3
  <2>2. ASSUME NEW u \in Users PROVE Slots(u)'
    <3>1. MobilesOf(u)' = {}
      BY <2>1 DEF MobilesOf, DevicesOf
    <3> QED
      BY <3>1, FS_EmptySet DEF Slots, SecurityStoreAssumption
  <2> QED
    BY <1>5, <2>1, <2>2 DEF DevicesFit, DeviceFits
<1>9. GrantsFit' /\ InvitesFit' /\ CallerOK' /\ profile' \in Profiles
  BY <1>1, TypeParts DEF IInv, CallerOK, GrantsFit, InvitesFit
<1> QED
  BY <1>5, <1>6, <1>7, <1>8, <1>9, Assembled

-----------------------------------------------------------------------------
(* A store that starts: new, or from before ownership. *)
LEMMA StartFits == Init => IInv
<1> SUFFICES ASSUME Init PROVE IInv
  OBVIOUS
<1>1. /\ profile \in Profiles /\ device = [d \in Devices |-> NoDevice]
      /\ grants = {} /\ invites = {} /\ owner = None /\ caller = None
      /\ wrong = [u \in Users |-> 0]
  BY DEF Init
<1>2. NoDevice \in DeviceRow /\ NoDevice.state = "free"
  BY DEF NoDevice, DeviceRow
<1>3. /\ ownership \in {"unclaimed", "legacy"} /\ user \in [Users -> UserRow]
      /\ \A u \in Users : /\ user[u].fails = 0 /\ ~user[u].locked /\ user[u].version = 1
                          /\ user[u].state = "new" => ~user[u].admin
      /\ ownership = "legacy" => Admins # {}
      /\ ownership = "unclaimed" => Admins = {}
  <2>1. CASE "legacy" \notin profile
    <3>1. ownership = "unclaimed" /\ user = [u \in Users |-> NoUser]
      BY <2>1 DEF Init
    <3> QED
      BY <3>1, NewRows DEF Admins, Active
  <2>2. CASE "legacy" \in profile
    <3> DEFINE r(n, a, u) == [(IF u <= n THEN Account ELSE NoUser) EXCEPT !.admin = u = a]
    <3>1. PICK n \in Users, a \in Users : a <= n /\ user = [u \in Users |-> r(n, a, u)]
      BY <2>2 DEF Init
    <3>2. ownership = "legacy"
      BY <2>2 DEF Init
    <3>3. ASSUME NEW u \in Users
          PROVE  /\ r(n, a, u) \in UserRow /\ r(n, a, u).fails = 0 /\ ~r(n, a, u).locked
                 /\ r(n, a, u).version = 1 /\ r(n, a, u).admin = (u = a)
                 /\ r(n, a, u).state = IF u <= n THEN "active" ELSE "new"
      BY NewRows DEF UserRow
    <3> HIDE DEF r
    <3>4. user[a] = r(n, a, a) /\ user[a].state = "active" /\ user[a].admin
      BY <3>1, <3>3
    <3>5. a \in Admins
      BY <3>4 DEF Admins, Active
    <3>6. user \in [Users -> UserRow]
      BY <3>1, <3>3
    <3>7. \A u \in Users : /\ user[u].fails = 0 /\ ~user[u].locked /\ user[u].version = 1
                           /\ user[u].state = "new" => ~user[u].admin
      BY <3>1, <3>3
    <3> QED
      BY <3>2, <3>5, <3>6, <3>7
  <2> QED
    BY <2>1, <2>2
<1>4. 0 \in 0..PinMaxFailures
  BY DEF SecurityStoreAssumption
<1>5. SecurityTypeOK
  BY <1>1, <1>2, <1>3, <1>4, TypeParts DEF CallerOK
<1>6. \A u \in Users : AccountFits(u)
  BY <1>1, <1>3 DEF AccountFits
<1>7. ASSUME NEW u \in Users PROVE Slots(u)
  <2>1. MobilesOf(u) = {}
    BY <1>1, <1>2 DEF MobilesOf, DevicesOf
  <2> QED
    BY <2>1, FS_EmptySet DEF Slots, SecurityStoreAssumption
<1>8. \A d \in Devices : DeviceFits(d)
  BY <1>1, <1>2 DEF DeviceFits
<1>9. RolesFit
  BY <1>1, <1>3 DEF RolesFit
<1> QED
  BY <1>1, <1>5, <1>6, <1>7, <1>8, <1>9 DEF IInv, Fits

-----------------------------------------------------------------------------
LEMMA Inductive == IInv /\ [SNext]_svars => IInv'
<1> SUFFICES ASSUME IInv, [SNext]_svars PROVE IInv'
  OBVIOUS
<1>1. CASE UNCHANGED svars
  BY <1>1, ExpireKeeps DEF svars
<1>2. CASE SNext
  <2>1. UNCHANGED profile /\ SStep
    BY <1>2 DEF SNext
  <2>2. ASSUME NEW p \in Presented, Asked(p) PROVE IInv'
    <3>1. ASSUME AdminStep(p) PROVE IInv'
      BY <2>1, <3>1, CreateKeeps, DeleteKeeps, SetPinKeeps, InviteKeeps, AccessKeeps, RoleKeeps,
         RevokeKeeps DEF AdminStep
    <3>2. ASSUME NEW a \in Actions, NEW t \in Targets(a), Authorize(p, a, t) \/ SpendOnly(p, a, t)
          PROVE  IInv'
      BY <2>1, <3>2, AuthorizeKeeps, SpendKeeps
    <3> QED
      BY <2>1, <2>2, <3>1, <3>2, ConfirmKeeps, FaceResultKeeps DEF Asked
  <2>3. ASSUME NEW u \in Users, AccountStep(u) PROVE IInv'
    BY <2>1, <2>3, WrongPinKeeps, PinLockoutKeeps, FaceLockoutKeeps, RecoverAdminKeeps,
       ClaimKeeps, LoginKeeps DEF AccountStep
  <2>4. ASSUME NEW d \in Devices, DeviceStep(d) PROVE IInv'
    BY <2>1, <2>4, ArriveKeeps, RecoverKeeps, EndLocalKeeps, PairKeeps DEF DeviceStep
  <2> QED
    BY <2>1, <2>2, <2>3, <2>4, ExpireKeeps, ResetKeeps DEF SStep
<1> QED
  BY <1>1, <1>2

LEMMA Always == SSpec => []IInv
BY StartFits, Inductive, PTL DEF SSpec

(* Whatever the order of calls, a row stays within its limits, wrong PINs  *)
(* in a row lock their account, and no account has too many devices.       *)
THEOREM LimitsAlwaysHold == SSpec => []LimitsHold
<1>1. IInv => LimitsHold
  <2> SUFFICES ASSUME IInv PROVE LimitsHold
    OBVIOUS
  <2>1. ASSUME NEW u \in Users PROVE wrong[u] < PinMaxFailures \/ user[u].locked
    <3>1. user[u].fails \in 0..(PinMaxFailures - 1) /\ (~user[u].locked => wrong[u] = user[u].fails)
      BY TypeParts DEF IInv, Fits, AccountFits, UserRow
    <3> QED
      BY <3>1 DEF SecurityStoreAssumption
  <2> QED
    BY <2>1 DEF IInv, Fits, Slots, LimitsHold, GuessesBounded, DevicesBounded
<1> QED
  BY <1>1, Always, PTL

(* A grant or an invitation that would be honoured rests on facts that     *)
(* hold since it was issued.                                               *)
THEOREM AuthorityStaysCurrent == SSpec => []AuthorityIsCurrent
<1>1. IInv => AuthorityIsCurrent
  <2> SUFFICES ASSUME IInv PROVE AuthorityIsCurrent
    OBVIOUS
  <2>1. ASSUME NEW i \in invites, Acceptable(i) PROVE i.sound
    <3>1. i \in InviteRow /\ user \in [Users -> UserRow]
      BY TypeParts DEF IInv
    <3>2. user[i.user].version = i.version /\ i.version \in Nat
      BY <2>1, <3>1 DEF Acceptable, InviteRow
    <3>3. ~i.sound => i.version < user[i.user].version
      BY DEF IInv, Fits, InviteFits
    <3> QED
      BY <3>1, <3>2, <3>3 DEF InviteRow
  <2> QED
    BY <2>1 DEF IInv, Fits, GrantFits, AuthorityIsCurrent
<1> QED
  BY <1>1, Always, PTL

(* The owner stays an administrator, with at most one other; an older      *)
(* database keeps one; an unclaimed product has none.                      *)
THEOREM RolesAlwaysStand == SSpec => []RolesStand
<1>1. IInv => RolesStand
  <2> SUFFICES ASSUME IInv PROVE RolesStand
    OBVIOUS
  <2> DEFINE others == Admins \ {owner}
  <2>1. ASSUME \A v, w \in others : v = w PROVE Cardinality(others) <= 1
    <3> HIDE DEF others
    <3>1. CASE others = {}
      BY <3>1, FS_EmptySet
    <3>2. CASE others # {}
      <4>1. PICK v \in others : others = {v}
        BY <2>1, <3>2
      <4> QED
        BY <4>1, FS_Singleton
    <3> QED
      BY <3>1, <3>2
  <2> QED
    BY <2>1 DEF IInv, Fits, RolesFit, RolesStand
<1> QED
  BY <1>1, Always, PTL

-----------------------------------------------------------------------------
(* The owner *)

SpentByOwner == \E g \in grants \ grants' : g.user = owner
AllGone == \A d \in DevicesOf(owner) : device'[d].state = "gone"

LEMMA OwnerStands ==
  ASSUME IInv, owner # None
  PROVE  /\ ownership = "claimed" /\ owner \in Users
         /\ user[owner].state = "active" /\ user \in [Users -> UserRow]
BY TypeParts DEF IInv, Fits, RolesFit, Admins, Active

(* What is protected for the owner is done with a grant of the owner. *)
LEMMA OwnerAsks ==
  ASSUME IInv, owner # None, NEW p \in Presented, NEW a \in OwnerProtected, NEW t,
         MayAct(p, a, t), OwnerOf(a, t), grants' \subseteq Left(p, a, t)
  PROVE  SpentByOwner
<1>1. p.owner
  BY DEF MayAct, RoleAllows
<1>2. p.user = owner
  BY <1>1, ActHas
<1> QED
  BY <1>2, ActHas DEF SpentByOwner

LEMMA NothingOfOwner ==
  ASSUME user'[owner].version = user[owner].version,
         \A d \in DevicesOf(owner) :
           device[d].state = "active" /\ device[d].kind = "mobile" => device'[d].state # "revoked"
  PROVE  ~OwnerChanges
BY DEF OwnerChanges

LEMMA CountersOfOwner ==
  ASSUME IInv, owner # None, \A u \in Users : RowKept(u), UNCHANGED device
  PROVE  ~OwnerChanges
BY OwnerStands, NothingOfOwner DEF RowKept

(* Another account's row changes. *)
LEMMA OthersRow ==
  ASSUME IInv, owner # None, NEW u \in Users, u # owner, NEW row,
         user' = [user EXCEPT ![u] = row], UNCHANGED device
  PROVE  ~OwnerChanges
<1>1. user'[owner] = user[owner]
  BY OwnerStands
<1> QED
  BY <1>1, NothingOfOwner

LEMMA OwnerAndAdmins ==
  ASSUME IInv, owner # None, NEW p \in Presented, AdminStep(p)
  PROVE  ~OwnerChanges \/ SpentByOwner
<1>1. ASSUME NEW u \in Users, CreateUser(p, u) PROVE ~OwnerChanges
  <2>1. u # owner
    BY <1>1, OwnerStands DEF CreateUser, NewUser
  <2> QED
    BY <1>1, <2>1, OthersRow DEF CreateUser
<1>2. ASSUME NEW u \in Users, DeleteUser(p, u) PROVE ~OwnerChanges
  BY <1>2, OthersRow DEF DeleteUser, MayLeave
<1>3. ASSUME NEW u \in Users, SetPin(p, u) PROVE ~OwnerChanges \/ SpentByOwner
  <2>1. CASE u = owner
    <3> DEFINE row == WithPin(Bumped(u))
               left == Left(p, "user.pin", u)
    <3>1. user[u] \in UserRow /\ user' = [user EXCEPT ![u] = row] /\ user[u].state = "active"
      BY <1>3, TypeParts DEF IInv, SetPin, Active
    <3>2. /\ row \in UserRow /\ row.version = user[u].version + 1
          /\ row.state = "active" /\ row.fails = 0 /\ ~row.locked
      BY <3>1, BumpedFits, WithPinFits
    <3>3. left \in SUBSET grants /\ PinReplaced(u, left)
      BY <1>3, LeftShrinks DEF SetPin
    <3> HIDE DEF row, left
    <3>4. grants' \subseteq left
      BY <3>1, <3>2, <3>3, PinReplacedKeeps
    <3> QED
      BY <1>3, <2>1, <3>4, OwnerAsks DEF SetPin, OwnerOf, OwnerProtected, left
  <2>2. CASE u # owner
    <3>1. user'[owner] = user[owner]
      BY <1>3, <2>2, OwnerStands DEF SetPin
    <3>2. \A d \in DevicesOf(owner) : device'[d] = device[d]
      BY <1>3, <2>2 DEF SetPin, PinReplaced, Revoked, DevicesOf
    <3> QED
      BY <3>1, <3>2, NothingOfOwner
  <2> QED
    BY <2>1, <2>2
<1>4. ASSUME NEW u \in Users, IssueInvite(p, u) PROVE ~OwnerChanges
  BY <1>4, NothingOfOwner DEF IssueInvite
<1>5. ASSUME NEW u \in Users, NEW on \in BOOLEAN, SetAccess(p, u, on)
      PROVE  ~OwnerChanges \/ SpentByOwner
  <2>1. CASE u = owner
    <3>1. user'[u].version > user[u].version
      <4>1. user[u] \in UserRow /\ user \in [Users -> UserRow]
        BY TypeParts DEF IInv
      <4> QED
        BY <1>5, <4>1 DEF SetAccess, Bumped, UserRow
    <3>2. grants' \subseteq Left(p, "user.access", u)
      BY <1>5, <3>1, LeftShrinks, IdentityKeeps DEF SetAccess
    <3> QED
      BY <1>5, <2>1, <3>2, OwnerAsks DEF SetAccess, OwnerOf, OwnerProtected
  <2>2. CASE u # owner
    BY <1>5, <2>2, OthersRow DEF SetAccess
  <2> QED
    BY <2>1, <2>2
<1>6. ASSUME NEW u \in Users, NEW on \in BOOLEAN, SetRole(p, u, on) PROVE ~OwnerChanges
  <2>1. user'[owner] = user[owner] /\ UNCHANGED device
    BY <1>6, OwnerStands DEF SetRole, Demoted
  <2> QED
    BY <2>1, NothingOfOwner
<1>7. ASSUME NEW d \in Devices, RevokeDevice(p, d) PROVE ~OwnerChanges \/ SpentByOwner
  <2>1. CASE device[d].user = owner
    <3>1. grants' \subseteq Left(p, "device.revoke", d)
      <4> DEFINE left == Left(p, "device.revoke", d)
      <4>1. left \in SUBSET grants /\ grants' = Doubt(left \cap GrantsOff({d}), {}, {d})
        BY <1>7, LeftShrinks DEF RevokeDevice
      <4> HIDE DEF left
      <4>2. grants' \subseteq left
        BY <4>1, OffShrinks
      <4> QED
        BY <4>2 DEF left
    <3> QED
      BY <1>7, <2>1, <3>1, OwnerAsks DEF RevokeDevice, OwnerOf, OwnerProtected
  <2>2. CASE device[d].user # owner
    <3>1. \A e \in DevicesOf(owner) : device'[e] = device[e]
      BY <1>7, <2>2, TypeParts DEF IInv, RevokeDevice, Off, DevicesOf
    <3> QED
      BY <1>7, <3>1, NothingOfOwner DEF RevokeDevice
  <2> QED
    BY <2>1, <2>2
<1> QED
  BY <1>1, <1>2, <1>3, <1>4, <1>5, <1>6, <1>7 DEF AdminStep

LEMMA OwnerAndAccounts ==
  ASSUME IInv, owner # None, owner' = owner, NEW u \in Users, AccountStep(u)
  PROVE  ~OwnerChanges
<1>0. user \in [Users -> UserRow]
  BY TypeParts DEF IInv
<1>1. CASE WrongPin(u)
  <2>1. user' = [user EXCEPT ![u] = Mismatch(user[u])]
        /\ Mismatch(user[u]).version = user[u].version
    BY <1>0, <1>1, MismatchFits DEF WrongPin
  <2>2. user'[owner].version = user[owner].version
    BY <1>0, <2>1, OwnerStands
  <2> QED
    BY <1>1, <2>2, NothingOfOwner DEF WrongPin
<1>2. CASE PinLockoutEnds(u) \/ FaceLockoutEnds(u)
  <2>1. user'[owner].version = user[owner].version
    BY <1>0, <1>2, OwnerStands DEF PinLockoutEnds, FaceLockoutEnds, UserRow
  <2> QED
    BY <1>2, <2>1, NothingOfOwner DEF PinLockoutEnds, FaceLockoutEnds
<1>3. ~RecoverAdmin(u) /\ \A d \in Devices : ~Claim(u, d)
  BY OwnerStands DEF RecoverAdmin, Claim
<1>4. ASSUME NEW d \in Devices, NEW previous \in SUBSET Devices, LocalLogin(u, d, previous)
      PROVE  ~OwnerChanges
  <2>1. \A v \in Users : RowKept(v)
    BY <1>4, RestartedKeep DEF LocalLogin, RightPin
  <2>2. \A e \in previous : device[e].kind = "local"
    BY <1>4 DEF LocalLogin
  <2>3. device \in [Devices -> DeviceRow] /\ device[d].state = "free"
    BY <1>4, TypeParts DEF IInv, LocalLogin, NewDevice
  <2>4. ASSUME NEW e \in DevicesOf(owner), device[e].state = "active", device[e].kind = "mobile"
        PROVE  device'[e].state # "revoked"
    BY <1>4, <2>2, <2>3, <2>4 DEF LocalLogin, DevicesOf, DeviceRow
  <2> QED
    BY <2>1, <2>4, OwnerStands, NothingOfOwner DEF RowKept
<1> QED
  BY <1>1, <1>2, <1>3, <1>4 DEF AccountStep

LEMMA OwnerAndDevices ==
  ASSUME IInv, owner # None, owner' = owner, NEW d \in Devices, DeviceStep(d)
  PROVE  ~OwnerChanges \/ AllGone
<1>0. user \in [Users -> UserRow] /\ device \in [Devices -> DeviceRow]
  BY TypeParts DEF IInv
<1>1. CASE Arrive(d)
  BY <1>1, NothingOfOwner DEF Arrive
<1>2. CASE Recover(d)
  <2>1. device[d].state = "free" /\ device' = Gone({e \in Devices : device[e].state # "free"}, d,
                                                   Row(owner, "mobile"))
    BY <1>2 DEF Recover, NewDevice
  <2> QED
    BY <1>0, <2>1 DEF AllGone, DevicesOf, Gone, DeviceRow
<1>3. ASSUME NEW state, EndLocal(d, state) PROVE ~OwnerChanges
  BY <1>0, <1>3, NothingOfOwner DEF EndLocal, Off, DevicesOf
<1>4. ASSUME NEW i \in invites, Pair(i, d) PROVE ~OwnerChanges
  <2>1. i.target \in Users
    BY TypeParts DEF IInv, InviteRow
  <2>2. \A v \in Users : RowKept(v)
    BY <1>4, <2>1, RestartedKeep DEF Pair, RightPin
  <2>3. PICK evicted : device' = Gone(evicted, d, Row(i.target, "mobile"))
    BY <1>4 DEF Pair
  <2>4. device[d].state = "free"
    BY <1>4 DEF Pair, NewDevice
  <2>5. ASSUME NEW e \in DevicesOf(owner), device[e].state = "active"
        PROVE  device'[e].state # "revoked"
    BY <1>0, <2>3, <2>4, <2>5 DEF Gone, DevicesOf, DeviceRow
  <2> QED
    BY <2>2, <2>5, OwnerStands, NothingOfOwner DEF RowKept
<1> QED
  BY <1>1, <1>2, <1>3, <1>4 DEF DeviceStep

LEMMA OwnerSteps ==
  ASSUME IInv, [SNext]_svars, owner # None, owner' = owner
  PROVE  ~OwnerChanges \/ SpentByOwner \/ AllGone
<1>1. CASE UNCHANGED svars \/ Expire \/ TurnAway
  BY <1>1, NothingOfOwner DEF svars, Expire, TurnAway
<1>2. ~ResetProduct
  BY DEF ResetProduct
<1>3. ASSUME NEW p \in Presented, Asked(p) PROVE ~OwnerChanges \/ SpentByOwner
  <2>1. ASSUME ConfirmSession(p) PROVE ~OwnerChanges
    <3>1. p.user \in Users
      BY <2>1, CurrentMeans DEF ConfirmSession
    <3> QED
      BY <2>1, <3>1, RestartedKeep, CountersOfOwner DEF ConfirmSession, RightPin
  <2>2. ASSUME NEW matched \in BOOLEAN, FaceResult(p, matched) PROVE ~OwnerChanges
    <3>1. p.user \in Users /\ user \in [Users -> UserRow] /\ owner \in Users
      BY <2>2, CurrentMeans, OwnerStands DEF FaceResult
    <3>2. user'[owner].version = user[owner].version
      BY <2>2, <3>1 DEF FaceResult, UserRow
    <3> QED
      BY <2>2, <3>2, NothingOfOwner DEF FaceResult
  <2>3. ASSUME NEW a, NEW t, Authorize(p, a, t) PROVE ~OwnerChanges
    <3>1. p.user \in Users
      BY <2>3, CurrentMeans DEF Authorize
    <3> QED
      BY <2>3, <3>1, RestartedKeep, CountersOfOwner DEF Authorize, RightPin
  <2>4. ASSUME NEW a, NEW t, SpendOnly(p, a, t) PROVE ~OwnerChanges
    BY <2>4, NothingOfOwner DEF SpendOnly
  <2> QED
    BY <1>3, <2>1, <2>2, <2>3, <2>4, OwnerAndAdmins DEF Asked
<1> QED
  BY <1>1, <1>2, <1>3, OwnerAndAccounts, OwnerAndDevices DEF SNext, SStep

(* No administrator reaches the owner: it takes a grant of the owner, or a *)
(* recovery, which ends every device.                                      *)
THEOREM OwnerStaysInControl == SSpec => OwnerKeepsControl
<1>1. IInv /\ [SNext]_svars =>
        [owner # None /\ owner' = owner /\ OwnerChanges =>
           \/ \E g \in grants \ grants' : g.user = owner
           \/ \A d \in DevicesOf(owner) : device'[d].state = "gone"]_svars
  BY OwnerSteps DEF SpentByOwner, AllGone
<1> QED
  BY <1>1, Always, PTL DEF SSpec, OwnerKeepsControl
-----------------------------------------------------------------------------
(* How rows age: an account that matters for anyone's authority changes    *)
(* with its version, a template only goes, and so does a device.           *)

RowAges(u) ==
    user[u].state # "new" =>
        /\ user'[u].state # "new"
        /\ \/ user'[u].version > user[u].version
           \/ user'[u].version = user[u].version /\ Standing(u)' = Standing(u)
FaceAges(u) == user'[u].face \in {user[u].face, None}
DeviceAges(d) ==
    device[d].state # "free" =>
        device'[d] = device[d] \/ device'[d].state \in {"revoked", "gone"}
Ages ==
    /\ \A u \in Users : RowAges(u) /\ FaceAges(u)
    /\ \A d \in Devices : DeviceAges(d)

LEMMA OneRowAges ==
  ASSUME IInv, NEW u \in Users, NEW row, user' = [user EXCEPT ![u] = row], owner' = owner,
         row.face \in {user[u].face, None},
         \/ /\ row.version = user[u].version /\ row.state = user[u].state
            /\ row.admin = user[u].admin /\ row.access = user[u].access
            /\ row.face = user[u].face
         \/ row.version > user[u].version /\ row.state # "new"
         \/ user[u].state = "new"
  PROVE  \A v \in Users : RowAges(v) /\ FaceAges(v)
<1>1. user \in [Users -> UserRow]
  BY TypeParts DEF IInv
<1>2. user'[u] = row /\ \A v \in Users : v # u => user'[v] = user[v]
  BY <1>1
<1> QED
  BY <1>2 DEF RowAges, FaceAges, Standing

LEMMA PinAges ==
  ASSUME IInv, NEW u \in Users, user' = [user EXCEPT ![u] = WithPin(@)], owner' = owner
  PROVE  \A v \in Users : RowAges(v) /\ FaceAges(v)
<1> DEFINE row == WithPin(user[u])
<1>1. user[u] \in UserRow /\ user' = [user EXCEPT ![u] = row]
  BY TypeParts DEF IInv
<1>2. /\ row.version = user[u].version /\ row.state = user[u].state
      /\ row.admin = user[u].admin /\ row.access = user[u].access /\ row.face = user[u].face
  BY <1>1 DEF WithPin, UserRow
<1> HIDE DEF row
<1> QED
  BY <1>1, <1>2, OneRowAges

LEMMA UnchangedAges ==
  ASSUME UNCHANGED <<user, owner>>
  PROVE  \A u \in Users : RowAges(u) /\ FaceAges(u)
BY DEF RowAges, FaceAges, Standing

LEMMA DevicesUnchanged ==
  ASSUME UNCHANGED device
  PROVE  \A d \in Devices : DeviceAges(d)
BY DEF DeviceAges

(* Bumped rows *)
LEMMA BumpedRow ==
  ASSUME IInv, NEW u \in Users
  PROVE  /\ user[u] \in UserRow /\ Bumped(u) \in UserRow
         /\ Bumped(u).version > user[u].version
         /\ Bumped(u).state = user[u].state /\ Bumped(u).face = user[u].face
         /\ Bumped(u).admin = user[u].admin
<1>1. user[u] \in UserRow
  BY TypeParts DEF IInv
<1> QED
  BY <1>1 DEF Bumped, UserRow

LEMMA AdminsAge ==
  ASSUME IInv, NEW p \in Presented, AdminStep(p)
  PROVE  Ages
<1>1. ASSUME NEW u \in Users, CreateUser(p, u) PROVE Ages
  <2>1. Account.face = None /\ user[u].state = "new"
    BY <1>1 DEF Account, NoUser, CreateUser, NewUser
  <2> QED
    BY <1>1, <2>1, OneRowAges, DevicesUnchanged DEF CreateUser, Ages
<1>2. ASSUME NEW u \in Users, DeleteUser(p, u) PROVE Ages
  <2> DEFINE row == [Bumped(u) EXCEPT !.state = "deleted", !.access = FALSE, !.face = None]
  <2>1. row.version > user[u].version /\ row.state = "deleted" /\ row.face = None
    BY BumpedRow DEF UserRow
  <2>2. user' = [user EXCEPT ![u] = row]
    BY <1>2 DEF DeleteUser
  <2> HIDE DEF row
  <2> QED
    BY <1>2, <2>1, <2>2, OneRowAges, DevicesUnchanged DEF DeleteUser, Ages
<1>3. ASSUME NEW u \in Users, SetPin(p, u) PROVE Ages
  <2> DEFINE row == WithPin(Bumped(u))
  <2>1. row.version > user[u].version /\ row.state = "active" /\ row.face = user[u].face
    BY <1>3, BumpedRow DEF UserRow, WithPin, SetPin, Active
  <2>2. user' = [user EXCEPT ![u] = row]
    BY <1>3 DEF SetPin
  <2> HIDE DEF row
  <2>3. \A d \in Devices : DeviceAges(d)
    BY <1>3, TypeParts DEF IInv, SetPin, PinReplaced, Revoked, DeviceAges, DeviceRow
  <2> QED
    BY <1>3, <2>1, <2>2, <2>3, OneRowAges DEF SetPin, Ages
<1>4. ASSUME NEW u \in Users, IssueInvite(p, u) PROVE Ages
  BY <1>4, UnchangedAges, DevicesUnchanged DEF IssueInvite, Ages
<1>5. ASSUME NEW u \in Users, NEW on \in BOOLEAN, SetAccess(p, u, on) PROVE Ages
  <2> DEFINE row == [Bumped(u) EXCEPT !.access = on]
  <2>1. row.version > user[u].version /\ row.state = "active" /\ row.face = user[u].face
    BY <1>5, BumpedRow DEF UserRow, SetAccess, Active
  <2>2. user' = [user EXCEPT ![u] = row]
    BY <1>5 DEF SetAccess
  <2> HIDE DEF row
  <2> QED
    BY <1>5, <2>1, <2>2, OneRowAges, DevicesUnchanged DEF SetAccess, Ages
<1>6. ASSUME NEW u \in Users, NEW on \in BOOLEAN, SetRole(p, u, on) PROVE Ages
  <2> DEFINE changed == Demoted(u, on) \cup {v \in {u} : user[u].admin # on}
             new(v) == [Bumped(v) EXCEPT !.admin = on /\ v = u]
  <2>1. /\ user' = [v \in Users |-> IF v \in changed THEN new(v) ELSE user[v]]
        /\ UNCHANGED <<device, owner>>
    BY <1>6 DEF SetRole
  <2>2. ASSUME NEW v \in Users
        PROVE  /\ new(v).version > user[v].version
               /\ new(v).state = user[v].state /\ new(v).face = user[v].face
    BY BumpedRow DEF UserRow
  <2> HIDE DEF changed, new
  <2>3. ASSUME NEW v \in Users PROVE RowAges(v) /\ FaceAges(v)
    <3>1. CASE v \in changed
      BY <2>1, <2>2, <3>1 DEF RowAges, FaceAges
    <3>2. CASE v \notin changed
      BY <2>1, <3>2 DEF RowAges, FaceAges, Standing
    <3> QED
      BY <3>1, <3>2
  <2> QED
    BY <2>1, <2>3, DevicesUnchanged DEF Ages
<1>7. ASSUME NEW d \in Devices, RevokeDevice(p, d) PROVE Ages
  <2>1. \A e \in Devices : DeviceAges(e)
    BY <1>7, TypeParts DEF IInv, RevokeDevice, Off, DeviceAges, DeviceRow
  <2> QED
    BY <1>7, <2>1, UnchangedAges DEF RevokeDevice, Ages
<1> QED
  BY <1>1, <1>2, <1>3, <1>4, <1>5, <1>6, <1>7 DEF AdminStep

LEMMA AccountsAge ==
  ASSUME IInv, NEW u \in Users, AccountStep(u)
  PROVE  Ages
<1>1. user \in [Users -> UserRow] /\ device \in [Devices -> DeviceRow]
  BY TypeParts DEF IInv
<1>2. CASE WrongPin(u)
  <2> DEFINE row == Mismatch(user[u])
  <2>1. /\ row.version = user[u].version /\ row.state = user[u].state
        /\ row.admin = user[u].admin /\ row.access = user[u].access /\ row.face = user[u].face
    BY <1>1 DEF Mismatch, UserRow
  <2>2. user' = [user EXCEPT ![u] = row]
    BY <1>2 DEF WrongPin
  <2> HIDE DEF row
  <2> QED
    BY <1>2, <2>1, <2>2, OneRowAges, DevicesUnchanged DEF WrongPin, Ages
<1>3. CASE PinLockoutEnds(u) \/ FaceLockoutEnds(u)
  <2>1. PICK row : /\ user' = [user EXCEPT ![u] = row] /\ UNCHANGED <<device, owner>>
          /\ row.version = user[u].version /\ row.state = user[u].state
          /\ row.admin = user[u].admin /\ row.access = user[u].access /\ row.face = user[u].face
    <3>1. CASE PinLockoutEnds(u)
      <4> WITNESS [user[u] EXCEPT !.locked = FALSE]
      <4> QED
        BY <1>1, <3>1 DEF PinLockoutEnds, UserRow
    <3>2. CASE FaceLockoutEnds(u)
      <4> WITNESS [user[u] EXCEPT !.faceLocked = FALSE]
      <4> QED
        BY <1>1, <3>2 DEF FaceLockoutEnds, UserRow
    <3> QED
      BY <1>3, <3>1, <3>2
  <2> QED
    BY <2>1, OneRowAges, DevicesUnchanged DEF Ages
<1>4. CASE RecoverAdmin(u)
  <2> DEFINE base == WithPin(Bumped(u))
             row == [base EXCEPT !.admin = TRUE]
  <2>1. /\ base \in UserRow /\ base.version > user[u].version /\ base.state = "active"
        /\ base.face = user[u].face
    <3>1. Bumped(u) \in UserRow /\ Bumped(u).version > user[u].version
      BY BumpedRow
    <3>2. Bumped(u).state = "active" /\ Bumped(u).face = user[u].face
      BY <1>4, BumpedRow DEF RecoverAdmin, Active
    <3>3. base \in UserRow /\ base.version = Bumped(u).version /\ base.state = Bumped(u).state
      BY <3>1, WithPinFits
    <3>4. base.face = Bumped(u).face
      BY <3>1 DEF WithPin, UserRow
    <3> QED
      BY <3>1, <3>2, <3>3, <3>4
  <2> HIDE DEF base
  <2>2. row.version > user[u].version /\ row.state = "active" /\ row.face = user[u].face
    BY <2>1 DEF UserRow
  <2>3. user' = [user EXCEPT ![u] = row]
    BY <1>4 DEF RecoverAdmin, base
  <2> HIDE DEF row
  <2>4. \A d \in Devices : DeviceAges(d)
    BY <1>1, <1>4 DEF RecoverAdmin, PinReplaced, Revoked, DeviceAges, DeviceRow
  <2> QED
    BY <1>4, <2>2, <2>3, <2>4, OneRowAges DEF RecoverAdmin, Ages
<1>5. ASSUME NEW d \in Devices, Claim(u, d) PROVE Ages
  <2>1. user[u].state = "new" /\ owner = None /\ owner' = u /\ device[d].state = "free"
    BY <1>5 DEF Claim, NewUser, NewDevice, IInv, Fits, RolesFit
  <2>2. user'[u].face = None /\ \A v \in Users : v # u => user'[v] = user[v]
    BY <1>1, <1>5 DEF Claim, Account, NoUser
  <2>3. ASSUME NEW v \in Users PROVE RowAges(v) /\ FaceAges(v)
    <3>1. v # None
      BY DEF SecurityStoreAssumption
    <3> QED
      BY <2>1, <2>2, <3>1 DEF RowAges, FaceAges, Standing
  <2>4. \A e \in Devices : DeviceAges(e)
    BY <1>1, <1>5, <2>1 DEF Claim, Put, DeviceAges
  <2> QED
    BY <2>3, <2>4 DEF Ages
<1>6. ASSUME NEW d \in Devices, NEW previous \in SUBSET Devices, LocalLogin(u, d, previous)
      PROVE  Ages
  <2>1. device[d].state = "free"
    BY <1>6 DEF LocalLogin, NewDevice
  <2>2. \A e \in Devices : DeviceAges(e)
    BY <1>1, <1>6, <2>1 DEF LocalLogin, DeviceAges, DeviceRow
  <2> QED
    BY <1>6, <2>2, PinAges DEF LocalLogin, Ages
<1> QED
  BY <1>2, <1>3, <1>4, <1>5, <1>6 DEF AccountStep

LEMMA StepsAge ==
  ASSUME IInv, SNext, ~ResetProduct
  PROVE  Ages
<1>1. user \in [Users -> UserRow] /\ device \in [Devices -> DeviceRow]
  BY TypeParts DEF IInv
<1>2. ASSUME NEW p \in Presented, Asked(p) PROVE Ages
  <2>1. ASSUME ConfirmSession(p) PROVE Ages
    BY <2>1, CurrentMeans, PinAges, DevicesUnchanged DEF ConfirmSession, Ages
  <2>2. ASSUME NEW matched \in BOOLEAN, FaceResult(p, matched) PROVE Ages
    <3>1. p.user \in Users
      BY <2>2, CurrentMeans DEF FaceResult
    <3> DEFINE old == user[p.user]
               row == IF matched THEN [old EXCEPT !.faceFails = 0]
                      ELSE IF old.faceFails + 1 >= FaceLimit
                           THEN [old EXCEPT !.faceFails = 0, !.faceLocked = TRUE]
                      ELSE [old EXCEPT !.faceFails = old.faceFails + 1]
    <3>2. user' = [user EXCEPT ![p.user] = row]
      BY <2>2 DEF FaceResult
    <3>3. /\ row.version = old.version /\ row.state = old.state
          /\ row.admin = old.admin /\ row.access = old.access /\ row.face = old.face
      BY <1>1, <3>1 DEF UserRow
    <3> HIDE DEF row
    <3> QED
      BY <2>2, <3>1, <3>2, <3>3, OneRowAges, DevicesUnchanged DEF FaceResult, Ages
  <2>3. ASSUME NEW a, NEW t, Authorize(p, a, t) PROVE Ages
    BY <2>3, CurrentMeans, PinAges, DevicesUnchanged DEF Authorize, Ages
  <2>4. ASSUME NEW a, NEW t, SpendOnly(p, a, t) PROVE Ages
    BY <2>4, UnchangedAges, DevicesUnchanged DEF SpendOnly, Ages
  <2> QED
    BY <1>2, <2>1, <2>2, <2>3, <2>4, AdminsAge DEF Asked
<1>3. ASSUME NEW d \in Devices, DeviceStep(d) PROVE Ages
  <2>1. CASE Arrive(d)
    BY <2>1, UnchangedAges, DevicesUnchanged DEF Arrive, Ages
  <2>2. CASE Recover(d)
    <3>0. PICK w \in Users : w = owner
      BY <2>2 DEF Recover, Admins
    <3> DEFINE base == WithPin(Bumped(w))
               row == [base EXCEPT !.faceFails = 0, !.faceLocked = FALSE]
    <3>1. /\ base \in UserRow /\ base.version > user[w].version /\ base.state = "active"
          /\ base.face = user[w].face
      BY <2>2, <3>0, BumpedRow, WithPinFits DEF UserRow, WithPin, Recover, Admins, Active
    <3>2. user' = [user EXCEPT ![w] = row]
      BY <2>2, <3>0 DEF Recover
    <3> HIDE DEF base
    <3>3. row.version > user[w].version /\ row.state = "active" /\ row.face = user[w].face
      BY <3>1 DEF UserRow
    <3> HIDE DEF row
    <3>4. \A e \in Devices : DeviceAges(e)
      BY <1>1, <2>2 DEF Recover, NewDevice, Gone, DeviceAges, DeviceRow
    <3> QED
      BY <2>2, <3>0, <3>2, <3>3, <3>4, OneRowAges DEF Recover, Ages
  <2>3. ASSUME NEW state \in {"revoked", "gone"}, EndLocal(d, state) PROVE Ages
    <3>1. \A e \in Devices : DeviceAges(e)
      BY <1>1, <2>3 DEF EndLocal, Off, DeviceAges, DeviceRow
    <3> QED
      BY <2>3, <3>1, UnchangedAges DEF EndLocal, Ages
  <2>4. ASSUME NEW i \in invites, Pair(i, d) PROVE Ages
    <3>1. i.target \in Users
      BY TypeParts DEF IInv, InviteRow
    <3>2. PICK evicted : device' = Gone(evicted, d, Row(i.target, "mobile"))
      BY <2>4 DEF Pair
    <3>3. \A e \in Devices : DeviceAges(e)
      BY <1>1, <2>4, <3>2 DEF Pair, NewDevice, Gone, DeviceAges, DeviceRow
    <3> QED
      BY <2>4, <3>1, <3>3, PinAges DEF Pair, Ages
  <2> QED
    BY <1>3, <2>1, <2>2, <2>3, <2>4 DEF DeviceStep
<1>4. CASE Expire \/ TurnAway
  BY <1>4, UnchangedAges, DevicesUnchanged DEF Expire, TurnAway, Ages
<1> QED
  BY <1>2, <1>3, <1>4, AccountsAge DEF SNext, SStep

-----------------------------------------------------------------------------
(* EnrollmentRequests: the accounts keep their invariant. *)

LEMMA EnrollmentStartFits == EInit => IInv
<1> SUFFICES ASSUME EInit PROVE IInv
  OBVIOUS
<1>1. /\ profile \in Profiles /\ ownership = "claimed" /\ owner \in Users
      /\ device = [d \in Devices |-> IF d \in Users THEN Row(d, "mobile") ELSE NoDevice]
      /\ grants = {} /\ invites = {} /\ caller = None /\ wrong = [u \in Users |-> 0]
  BY DEF EInit
<1>2. PICK admin \in Users :
        user = [u \in Users |-> [Account EXCEPT !.admin = u \in {owner, admin}]]
  BY DEF EInit
<1>3. ASSUME NEW u \in Users
      PROVE  /\ user[u] \in UserRow /\ user[u].state = "active" /\ user[u].fails = 0
             /\ ~user[u].locked /\ user[u].admin = (u \in {owner, admin})
  <2> DEFINE is == u \in {owner, admin}
             row == [Account EXCEPT !.admin = is]
  <2>1. user[u] = row /\ is \in BOOLEAN
    BY <1>2
  <2> HIDE DEF is
  <2>2. /\ row \in UserRow /\ row.state = "active" /\ row.fails = 0
        /\ ~row.locked /\ row.admin = is
    BY <2>1, NewRows DEF UserRow
  <2> QED
    BY <2>1, <2>2 DEF is
<1>4. user \in [Users -> UserRow]
  BY <1>2, <1>3
<1>5. /\ NoDevice \in DeviceRow /\ NoDevice.state = "free"
      /\ \A u \in Users : /\ Row(u, "mobile") \in DeviceRow /\ Row(u, "mobile").user = u
                          /\ Row(u, "mobile").state = "active"
  BY RowFits DEF NoDevice, DeviceRow
<1>6. Admins = {owner, admin}
  BY <1>1, <1>3 DEF Admins, Active
<1>7. RolesFit
  BY <1>1, <1>6 DEF RolesFit, SecurityStoreAssumption
<1>8. ASSUME NEW u \in Users PROVE Slots(u)
  <2>1. MobilesOf(u) \subseteq {u}
    BY <1>1, <1>5 DEF MobilesOf, DevicesOf
  <2>2. IsFiniteSet({u}) /\ Cardinality({u}) = 1
    BY FS_Singleton
  <2>3. IsFiniteSet(MobilesOf(u)) /\ Cardinality(MobilesOf(u)) <= 1
    BY <2>1, <2>2, FS_Subset
  <2>4. Cardinality(MobilesOf(u)) \in Nat /\ MaxMobileDevices \in Nat \ {0}
    BY <2>3, FS_CardinalityType DEF SecurityStoreAssumption
  <2> QED
    BY <2>3, <2>4 DEF Slots
<1>9. \A d \in Devices : DeviceFits(d)
  BY <1>1, <1>3, <1>5 DEF DeviceFits
<1>10. \A u \in Users : AccountFits(u)
  BY <1>1, <1>3 DEF AccountFits
<1>11. SecurityTypeOK
  <2>1. device \in [Devices -> DeviceRow]
    BY <1>1, <1>5
  <2>2. wrong \in [Users -> 0..PinMaxFailures]
    BY <1>1 DEF SecurityStoreAssumption
  <2> QED
    BY <1>1, <1>4, <2>1, <2>2, TypeParts DEF CallerOK
<1> QED
  BY <1>1, <1>7, <1>8, <1>9, <1>10, <1>11 DEF IInv, Fits

LEMMA RequestKeeps ==
  ASSUME IInv, NEW p \in Presented, NEW r, NEW t, Request(p, r, t)
  PROVE  IInv'
<1>1. /\ UNCHANGED <<user, device, invites, ownership, owner, wrong, profile>>
      /\ Served(p) /\ grants' \subseteq grants
  BY LeftShrinks DEF Request, Reserve
<1>2. AccountsKept /\ user' \in [Users -> UserRow] /\ \A u \in Users : RowKept(u)
  BY <1>1, AccountsSame, TypeParts DEF IInv, RowKept
<1>3. CallerOK'
  BY <1>1, ServedKeeps
<1> QED
  BY <1>1, <1>2, <1>3, CountersKeep

LEMMA FaceRow ==
  ASSUME IInv, NEW r \in Requests, NEW t \in Users, Active(t)
  PROVE  LET row == [Bumped(t) EXCEPT !.face = r] IN
         /\ row \in UserRow /\ row.version = user[t].version + 1 /\ row.state = "active"
         /\ row.admin = user[t].admin /\ row.fails = user[t].fails
         /\ row.locked = user[t].locked /\ row.face = r
<1>1. user[t] \in UserRow /\ user[t].state = "active"
  BY TypeParts DEF IInv, Active
<1>2. r \in Faces
  BY EnrollmentAssumption
<1> QED
  BY <1>1, <1>2, BumpedFits DEF UserRow

LEMMA SaveKeeps ==
  ASSUME IInv, NEW r \in Requests, receipt[r].target \in Users, SaveFace(r)
  PROVE  IInv'
<1> DEFINE t == receipt[r].target
           row == [Bumped(t) EXCEPT !.face = r]
<1>1. /\ Active(t) /\ user' = [user EXCEPT ![t] = row] /\ IdentityChanged({t}, grants)
      /\ UNCHANGED <<device, ownership, owner, caller, wrong, profile>>
  BY DEF SaveFace, Authorized
<1>2. /\ row \in UserRow /\ row.version = user[t].version + 1 /\ row.state = "active"
      /\ row.admin = user[t].admin /\ row.fails = user[t].fails
      /\ row.locked = user[t].locked
  BY <1>1, FaceRow
<1> HIDE DEF row
<1>3. /\ user' \in [Users -> UserRow] /\ Monotone /\ user'[t].version > user[t].version
      /\ AccountsKept /\ \A v \in Users : user[v].state # "new" => user'[v].state # "new"
  BY <1>1, <1>2, NewVersion DEF Active
<1>4. DevicesKept
  BY <1>1, <1>3, DevicesSame
<1>5. RolesKept
  <2>1. Admins' = Admins
    BY <1>1, <1>2, OneRow DEF Admins, Active
  <2> QED
    BY <1>1, <2>1, RolesSame
<1>6. CallerOK'
  BY <1>1, TypeParts DEF IInv, CallerOK
<1>7. grants' \subseteq grants /\ InvitesFollow
  BY <1>1, <1>3, IdentityKeeps
<1> QED
  BY <1>1, <1>3, <1>4, <1>5, <1>6, <1>7, InvKept

LEMMA CrashKeeps ==
  ASSUME IInv, Crash
  PROVE  IInv'
<1>1. /\ UNCHANGED <<user, device, grants, invites, ownership, owner, wrong, profile>>
      /\ caller' = None
  BY DEF Crash
<1>2. AccountsKept /\ user' \in [Users -> UserRow] /\ \A u \in Users : RowKept(u)
  BY <1>1, AccountsSame, TypeParts DEF IInv, RowKept
<1>3. CallerOK'
  BY <1>1 DEF CallerOK
<1> QED
  BY <1>1, <1>2, <1>3, CountersKeep

LEMMA AccountsKeep ==
  ASSUME IInv, SNext \/ UNCHANGED svars
  PROVE  IInv'
BY Inductive

-----------------------------------------------------------------------------
(* EnrollmentRequests: receipts, sessions and authority *)

ReceiptRow == [state : Pending \cup Final \cup {"none", "gone"},
               device : Devices \cup {None}, user : Users \cup {None}, version : Nat,
               target : Users \cup {None}, targetVersion : Nat]

(* What the authority of a receipt rested on has changed visibly. *)
Outdated(q) ==
    \/ q.version < user[q.user].version \/ q.targetVersion < user[q.target].version
    \/ device[q.device].state # "active"

ActorFits(q) ==
    /\ q.device \in Devices /\ device[q.device].state # "free"
    /\ q.user \in Users /\ user[q.user].state # "new" /\ q.version <= user[q.user].version
    /\ q.target \in Users /\ user[q.target].state # "new"
    /\ q.targetVersion <= user[q.target].version

PendingFits ==
    \A r \in Requests : receipt[r].state \in Pending =>
        ActorFits(receipt[r]) /\ (r \in trust \/ Outdated(receipt[r]))

CountFits ==
    \A r \in Requests :
        /\ receipt[r].state = "none" => spent[r] = 0 /\ runs[r] = 0
        /\ job[r] = "asked" => spent[r] = 1 /\ runs[r] = 0
        /\ spent[r] \in {0, 1} /\ runs[r] \in {0, 1} /\ runs[r] <= spent[r]

Working(r) == job[r] \in {"started", "capturing"}
WorkFits ==
    /\ host = "up" => \A r \in Requests :
         receipt[r].state \in Pending => job[r] # "none" \/ r \in refused
    /\ \A r \in refused : job[r] = "none" /\ receipt[r].state \notin {"none", "completed"}
    /\ \A q, r \in Requests : Working(q) /\ Working(r) => q = r

(* An unclaimed product has no accounts, no faces and no open receipt. *)
Empty ==
    /\ \A u \in Users : user[u].state # "active" /\ user[u].face = None
    /\ \A r \in Requests : receipt[r].state \in {"none", "gone"}

TemplateFits == \A u \in Users : user[u].face # None => user[u].state # "new"

ETypes ==
    /\ receipt \in [Requests -> ReceiptRow]
    /\ job \in [Requests -> {"none", "asked", "started", "capturing"}]
    /\ host \in {"up", "down"} /\ crashes \in 0..MaxCrashes
    /\ spent \in [Requests -> Nat] /\ runs \in [Requests -> Nat]
    /\ refused \subseteq Requests /\ trust \subseteq Requests

EInv ==
    /\ IInv /\ ETypes /\ PendingFits /\ CountFits /\ WorkFits /\ TemplateFits
    /\ ownership = "unclaimed" => Empty

LEMMA ETypesMean == ETypes <=> EnrollmentTypeOK
BY DEF ETypes, EnrollmentTypeOK, ReceiptRow

(* Receipts settle, and nothing else of an account or a receipt changes. *)
RowSettles(r) ==
    /\ receipt'[r] \in ReceiptRow
    /\ \/ receipt'[r] = receipt[r]
       \/ /\ receipt[r].state \in Pending /\ receipt'[r].state \in Pending \cup Final
          /\ receipt'[r].device = receipt[r].device /\ receipt'[r].user = receipt[r].user
          /\ receipt'[r].version = receipt[r].version
          /\ receipt'[r].target = receipt[r].target
          /\ receipt'[r].targetVersion = receipt[r].targetVersion
Settles ==
    /\ \A r \in Requests : RowSettles(r)
    /\ UNCHANGED <<user, device, ownership, trust>>

LEMMA SettlesKeep ==
  ASSUME EInv, Settles
  PROVE  PendingFits' /\ TemplateFits' /\ (ownership' = "unclaimed" => Empty')
<1>1. PendingFits'
  <2> SUFFICES ASSUME NEW r \in Requests, receipt'[r].state \in Pending
               PROVE  /\ ActorFits(receipt[r])'
                      /\ r \in trust' \/ Outdated(receipt[r])'
    BY DEF PendingFits
  <2>1. /\ receipt[r].state \in Pending
        /\ receipt'[r].device = receipt[r].device /\ receipt'[r].user = receipt[r].user
        /\ receipt'[r].version = receipt[r].version
        /\ receipt'[r].target = receipt[r].target
        /\ receipt'[r].targetVersion = receipt[r].targetVersion
    BY DEF Settles, RowSettles
  <2>2. ActorFits(receipt[r]) /\ (r \in trust \/ Outdated(receipt[r]))
    BY <2>1 DEF EInv, PendingFits
  <2> QED
    BY <2>1, <2>2 DEF Settles, ActorFits, Outdated
<1>2. TemplateFits'
  BY DEF EInv, TemplateFits, Settles
<1>3. ASSUME ownership' = "unclaimed" PROVE Empty'
  <2>1. Empty /\ UNCHANGED user
    BY <1>3 DEF EInv, Settles
  <2>2. \A r \in Requests : receipt'[r].state \in {"none", "gone"}
    BY <2>1 DEF Empty, Settles, RowSettles, Pending
  <2> QED
    BY <2>1, <2>2 DEF Empty
<1> QED
  BY <1>1, <1>2, <1>3

LEMMA FinalizedFits ==
  ASSUME ETypes, NEW r \in Requests, NEW state \in Final
  PROVE  /\ Finalized(r, state) \in [Requests -> ReceiptRow]
         /\ Finalized(r, state)[r].state \notin Pending
         /\ \A q \in Requests : q # r => Finalized(r, state)[q] = receipt[q]
         /\ \/ Finalized(r, state) = receipt /\ receipt[r].state \notin Pending
            \/ /\ receipt[r].state \in Pending
               /\ Finalized(r, state) = [receipt EXCEPT ![r].state = state]
<1>1. receipt \in [Requests -> ReceiptRow] /\ receipt[r] \in ReceiptRow /\ state \notin Pending
  BY DEF ETypes, Final, Pending
<1>2. CASE receipt[r].state \in Pending
  <2>1. Finalized(r, state) = [receipt EXCEPT ![r] = [receipt[r] EXCEPT !.state = state]]
    BY <1>2 DEF Finalized
  <2>2. [receipt[r] EXCEPT !.state = state] \in ReceiptRow
        /\ [receipt[r] EXCEPT !.state = state].state = state
    BY <1>1 DEF ReceiptRow
  <2> QED
    BY <1>1, <1>2, <2>1, <2>2 DEF Finalized
<1>3. CASE receipt[r].state \notin Pending
  BY <1>1, <1>3 DEF Finalized
<1> QED
  BY <1>2, <1>3

LEMMA StateSettles ==
  ASSUME ETypes, NEW r \in Requests, NEW state \in Pending \cup Final,
         receipt[r].state \in Pending, receipt' = [receipt EXCEPT ![r].state = state]
  PROVE  /\ receipt' \in [Requests -> ReceiptRow] /\ \A q \in Requests : RowSettles(q)
         /\ receipt'[r].state = state /\ \A q \in Requests : q # r => receipt'[q] = receipt[q]
<1> DEFINE row == [receipt[r] EXCEPT !.state = state]
<1>1. receipt \in [Requests -> ReceiptRow] /\ receipt[r] \in ReceiptRow
  BY DEF ETypes
<1>2. /\ row \in ReceiptRow /\ row.state = state /\ row.device = receipt[r].device
      /\ row.user = receipt[r].user /\ row.version = receipt[r].version
      /\ row.target = receipt[r].target /\ row.targetVersion = receipt[r].targetVersion
  BY <1>1 DEF ReceiptRow
<1>3. receipt' = [receipt EXCEPT ![r] = row]
  OBVIOUS
<1> HIDE DEF row
<1>4. /\ receipt' \in [Requests -> ReceiptRow] /\ receipt'[r] = row
      /\ \A q \in Requests : q # r => receipt'[q] = receipt[q]
  BY <1>1, <1>2, <1>3
<1>5. ASSUME NEW q \in Requests PROVE RowSettles(q)
  BY <1>1, <1>2, <1>4 DEF RowSettles
<1> QED
  BY <1>2, <1>4, <1>5

LEMMA FinalizedSettles ==
  ASSUME ETypes, NEW r \in Requests, NEW state \in Final, receipt' = Finalized(r, state)
  PROVE  /\ receipt' \in [Requests -> ReceiptRow] /\ \A q \in Requests : RowSettles(q)
         /\ receipt'[r].state \notin Pending
         /\ \A q \in Requests : q # r => receipt'[q] = receipt[q]
<1>1. CASE receipt[r].state \in Pending
  BY <1>1, FinalizedFits, StateSettles
<1>2. CASE receipt[r].state \notin Pending
  <2>1. receipt' = receipt
    BY <1>2 DEF Finalized
  <2> QED
    BY <1>2, <2>1 DEF RowSettles, ETypes
<1> QED
  BY <1>1, <1>2

-----------------------------------------------------------------------------
(* Only a reset makes a product unclaimed, and nobody appears in one. *)

LEMMA UnclaimedStays ==
  ASSUME SNext, ~ResetProduct, ownership' = "unclaimed"
  PROVE  ownership = "unclaimed"
<1>1. ASSUME NEW p, Asked(p) PROVE ownership' = ownership
  BY <1>1 DEF Asked, AdminStep, CreateUser, DeleteUser, SetPin, IssueInvite, SetAccess, SetRole,
     RevokeDevice, ConfirmSession, FaceResult, Authorize, SpendOnly
<1>2. ASSUME NEW u, AccountStep(u) PROVE ownership' \in {ownership, "claimed"}
  BY <1>2 DEF AccountStep, WrongPin, PinLockoutEnds, FaceLockoutEnds, RecoverAdmin, Claim,
     LocalLogin
<1>3. ASSUME NEW d, DeviceStep(d) PROVE ownership' = ownership
  BY <1>3 DEF DeviceStep, Arrive, Recover, EndLocal, Pair
<1> QED
  BY <1>1, <1>2, <1>3 DEF SNext, SStep, Expire, TurnAway

LEMMA NobodyAppears ==
  ASSUME IInv, \A u \in Users : user[u].state # "active", SNext, ~ResetProduct,
         ownership' = "unclaimed"
  PROVE  \A u \in Users : user'[u].state # "active"
<1>0. ownership = "unclaimed" /\ user \in [Users -> UserRow]
  BY UnclaimedStays, TypeParts DEF IInv
<1>1. \A p \in Presented : ~Current(p)
  BY CurrentMeans DEF Active
<1>2. ASSUME NEW p \in Presented PROVE ~Asked(p)
  BY <1>1 DEF Asked, AdminStep, CreateUser, DeleteUser, SetPin, IssueInvite, SetAccess, SetRole,
     RevokeDevice, ConfirmSession, FaceResult, Authorize, SpendOnly, MayAct
<1>3. ASSUME NEW u \in Users, AccountStep(u)
      PROVE  \A v \in Users : user'[v].state = user[v].state
  <2>1. \A d : ~Claim(u, d)
    BY DEF Claim
  <2>2. PinLockoutEnds(u) \/ FaceLockoutEnds(u)
    BY <1>3, <2>1 DEF AccountStep, WrongPin, RecoverAdmin, LocalLogin, RightPin, Active
  <2> QED
    BY <1>0, <2>2 DEF PinLockoutEnds, FaceLockoutEnds, UserRow
<1>4. ASSUME NEW d \in Devices, DeviceStep(d) PROVE user' = user
  <2>1. ~Recover(d)
    BY <1>0 DEF Recover
  <2>2. ASSUME NEW i \in invites PROVE ~Pair(i, d)
    <3>1. i.target \in Users
      BY TypeParts DEF IInv, InviteRow
    <3> QED
      BY <3>1 DEF Pair, RightPin, Active
  <2> QED
    BY <1>4, <2>1, <2>2 DEF DeviceStep, Arrive, EndLocal
<1> QED
  BY <1>2, <1>3, <1>4 DEF SNext, SStep, Expire, TurnAway

(* While an account has its version and a device is active, the authority  *)
(* of a receipt that rests on them has not lapsed.                         *)
LEMMA AgingKeeps ==
  ASSUME EInv, IInv', \A u \in Users : RowAges(u), \A d \in Devices : DeviceAges(d),
         trust' = Trusted,
         \A r \in Requests : receipt'[r] = receipt[r] \/ receipt'[r].state \notin Pending
  PROVE  PendingFits'
<1> SUFFICES ASSUME NEW r \in Requests, receipt'[r].state \in Pending
             PROVE  /\ ActorFits(receipt[r])'
                    /\ r \in trust' \/ Outdated(receipt[r])'
  BY DEF PendingFits
<1>1. receipt'[r] = receipt[r] /\ receipt[r].state \in Pending
  OBVIOUS
<1>2. ActorFits(receipt[r]) /\ (r \in trust \/ Outdated(receipt[r]))
  BY <1>1 DEF EInv, PendingFits
<1>3. PICK a \in Users, t \in Users, d \in Devices, m \in Nat, n \in Nat :
        /\ receipt[r].user = a /\ receipt[r].target = t /\ receipt[r].device = d
        /\ receipt[r].version = m /\ receipt[r].targetVersion = n
  BY <1>2 DEF ActorFits, EInv, ETypes, ReceiptRow
<1>4. \A u \in Users : user[u].version \in Nat /\ user'[u].version \in Nat
  <2>1. user \in [Users -> UserRow]
    BY TypeParts DEF EInv, IInv
  <2>2. user' \in [Users -> UserRow]
    BY DEF IInv, SecurityTypeOK, UserRow
  <2> QED
    BY <2>1, <2>2 DEF UserRow
<1>5. /\ device[d].state # "free" /\ user[a].state # "new" /\ user[t].state # "new"
      /\ m <= user[a].version /\ n <= user[t].version
  BY <1>2, <1>3 DEF ActorFits
<1>6. /\ user'[a].state # "new" /\ user'[t].state # "new"
      /\ \/ user'[a].version > user[a].version
         \/ user'[a].version = user[a].version /\ Standing(a)' = Standing(a)
      /\ \/ user'[t].version > user[t].version
         \/ user'[t].version = user[t].version /\ Standing(t)' = Standing(t)
  BY <1>5 DEF RowAges
<1>7. device'[d] = device[d] \/ device'[d].state \in {"revoked", "gone"}
  BY <1>5 DEF DeviceAges
<1>8. /\ device'[d].state # "free"
      /\ m <= user'[a].version /\ n <= user'[t].version
  BY <1>4, <1>5, <1>6, <1>7
<1>9. \/ r \in trust' \/ m < user'[a].version \/ n < user'[t].version
      \/ device'[d].state # "active"
  <2>1. CASE Outdated(receipt[r])
    <3>1. m < user[a].version \/ n < user[t].version \/ device[d].state # "active"
      BY <1>3, <2>1 DEF Outdated
    <3> QED
      BY <1>4, <1>5, <1>6, <1>7, <3>1
  <2>2. CASE r \in trust /\ Kept(r)
    BY <2>2 DEF Trusted
  <2>3. CASE r \in trust /\ ~Kept(r)
    <3>1. CASE device'[d] # device[d]
      BY <1>7, <3>1
    <3>2. CASE device'[d] = device[d]
      <4>1. Standing(a)' # Standing(a) \/ Standing(t)' # Standing(t)
        BY <1>3, <2>3, <3>2 DEF Kept
      <4>2. user'[a].version > user[a].version \/ user'[t].version > user[t].version
        BY <1>6, <4>1
      <4> QED
        BY <1>4, <1>5, <4>2
    <3> QED
      BY <3>1, <3>2
  <2> QED
    BY <1>2, <2>1, <2>2, <2>3
<1> QED
  BY <1>1, <1>3, <1>6, <1>8, <1>9 DEF ActorFits, Outdated

-----------------------------------------------------------------------------
(* The steps of an enrollment *)

LEMMA FacesAtStart ==
  ASSUME EInit
  PROVE  \A u \in Users : user[u].face = None
<1>1. \A is : [Account EXCEPT !.admin = is].face = None
  BY DEF Account, NoUser
<1>2. PICK admin \in Users :
        user = [u \in Users |-> [Account EXCEPT !.admin = u \in {owner, admin}]]
  BY DEF EInit
<1>3. ASSUME NEW u \in Users PROVE user[u].face = None
  <2> DEFINE is == u \in {owner, admin}
  <2>1. user[u] = [Account EXCEPT !.admin = is]
    BY <1>2
  <2> HIDE DEF is
  <2> QED
    BY <2>1, <1>1
<1> QED
  BY <1>3

LEMMA EnrollmentStart == EInit => EInv
<1> SUFFICES ASSUME EInit PROVE EInv
  OBVIOUS
<1>1. NoReceipt \in ReceiptRow /\ NoReceipt.state = "none" /\ "none" \notin Pending
  BY DEF NoReceipt, ReceiptRow, Pending
<1>2. /\ receipt = [r \in Requests |-> NoReceipt] /\ ownership = "claimed"
      /\ job = [r \in Requests |-> "none"] /\ host = "up" /\ crashes = 0
      /\ spent = [r \in Requests |-> 0] /\ runs = [r \in Requests |-> 0]
      /\ refused = {} /\ trust = {}
  BY DEF EInit
<1>3. ETypes
  BY <1>1, <1>2, EnrollmentAssumption DEF ETypes
<1>4. PendingFits
  BY <1>1, <1>2 DEF PendingFits
<1>5. CountFits
  BY <1>2 DEF CountFits
<1>6. WorkFits
  BY <1>1, <1>2 DEF WorkFits, Working
<1>7. TemplateFits
  BY FacesAtStart DEF TemplateFits
<1> QED
  BY <1>2, <1>3, <1>4, <1>5, <1>6, <1>7, EnrollmentStartFits DEF EInv

LEMMA RequestFits ==
  ASSUME EInv, NEW p \in Presented, NEW r \in Requests, NEW t \in Users, Request(p, r, t)
  PROVE  EInv'
<1> DEFINE row == [state |-> "accepted", device |-> p.device, user |-> p.user,
                   version |-> p.version, target |-> t, targetVersion |-> user[t].version]
<1>1. /\ host = "up" /\ MayAct(p, "enrollment.start", t) /\ Active(t) /\ NewRequest(r)
      /\ receipt' = [receipt EXCEPT ![r] = row]
      /\ job' = [job EXCEPT ![r] = "asked"] /\ spent' = [spent EXCEPT ![r] = @ + 1]
      /\ trust' = trust \cup {r}
      /\ UNCHANGED <<user, device, ownership, owner, host, crashes, runs, refused>>
  BY DEF Request, Reserve
<1>2. /\ p.user \in Users /\ Active(p.user) /\ p.device \in Devices
      /\ device[p.device].state = "active" /\ p.version = user[p.user].version
  BY <1>1, ActHas DEF EInv
<1>3. user \in [Users -> UserRow]
  BY TypeParts DEF EInv, IInv
<1>4. /\ row \in ReceiptRow /\ row.state = "accepted"
      /\ ActorFits(row)
  <2>1. user[p.user].version \in Nat /\ user[t].version \in Nat
    BY <1>2, <1>3 DEF UserRow
  <2>2. row \in ReceiptRow /\ row.state = "accepted"
    BY <1>2, <2>1 DEF ReceiptRow, Pending
  <2> QED
    BY <1>1, <1>2, <2>1, <2>2 DEF ActorFits, Active
<1> HIDE DEF row
<1>5. /\ receipt[r].state = "none" /\ spent[r] = 0 /\ runs[r] = 0
  BY <1>1 DEF NewRequest, EInv, CountFits
<1>6. ETypes /\ ownership # "unclaimed"
  BY <1>1 DEF EInv, Empty, Active
<1>7. /\ receipt' \in [Requests -> ReceiptRow] /\ receipt'[r] = row
      /\ \A q \in Requests : q # r => receipt'[q] = receipt[q]
      /\ job' \in [Requests -> {"none", "asked", "started", "capturing"}] /\ job'[r] = "asked"
      /\ \A q \in Requests : q # r => job'[q] = job[q]
      /\ spent' \in [Requests -> Nat] /\ spent'[r] = 1
      /\ \A q \in Requests : q # r => spent'[q] = spent[q]
  BY <1>1, <1>4, <1>5, <1>6 DEF ETypes
<1>8. ETypes'
  BY <1>1, <1>6, <1>7 DEF ETypes
<1>9. PendingFits'
  <2> SUFFICES ASSUME NEW q \in Requests, receipt'[q].state \in Pending
               PROVE  /\ ActorFits(receipt[q])'
                      /\ q \in trust' \/ Outdated(receipt[q])'
    BY DEF PendingFits
  <2>1. CASE q = r
    BY <1>1, <1>4, <1>7, <2>1 DEF ActorFits
  <2>2. CASE q # r
    BY <1>1, <1>7, <2>2 DEF EInv, PendingFits, ActorFits, Outdated
  <2> QED
    BY <2>1, <2>2
<1>10. CountFits'
  BY <1>1, <1>4, <1>5, <1>7 DEF EInv, CountFits
<1>11. WorkFits'
  <2>1. r \notin refused
    BY <1>5 DEF EInv, WorkFits
  <2>2. \A q \in refused : q # r /\ q \in Requests
    BY <2>1, <1>6 DEF ETypes
  <2> QED
    BY <1>1, <1>7, <2>2 DEF EInv, WorkFits, Working
<1>12. TemplateFits' /\ (ownership' = "unclaimed" => Empty')
  BY <1>1, <1>6 DEF EInv, TemplateFits
<1>13. IInv'
  BY RequestKeeps DEF EInv
<1> QED
  BY <1>8, <1>9, <1>10, <1>11, <1>12, <1>13 DEF EInv

(* A session that ends, or a cancellation, leaves no open receipt behind. *)
LEMMA EndFits ==
  ASSUME EInv, NEW r \in Requests, NEW state \in Final \ {"completed"},
         receipt' = Finalized(r, state),
         UNCHANGED <<svars, host, crashes, spent, runs, refused, trust>>,
         job' = job \/ job' = [job EXCEPT ![r] = "none"]
  PROVE  EInv'
<1>1. /\ receipt' \in [Requests -> ReceiptRow] /\ \A q \in Requests : RowSettles(q)
      /\ receipt'[r].state \notin Pending
      /\ \A q \in Requests : q # r => receipt'[q] = receipt[q]
  BY FinalizedSettles DEF EInv
<1>2. /\ job' \in [Requests -> {"none", "asked", "started", "capturing"}]
      /\ \A q \in Requests : job'[q] = job[q] \/ (q = r /\ job'[q] = "none")
  BY DEF EInv, ETypes
<1>3. ETypes'
  BY <1>1, <1>2 DEF EInv, ETypes
<1>4. PendingFits' /\ TemplateFits' /\ (ownership' = "unclaimed" => Empty')
  BY <1>1, SettlesKeep DEF Settles, svars
<1>5. CountFits'
  <2>1. \A q \in Requests : receipt'[q].state = "none" => receipt[q].state = "none"
    BY <1>1 DEF RowSettles, Pending, Final
  <2> QED
    BY <1>2, <2>1 DEF EInv, CountFits
<1>6. WorkFits'
  <2>1. ASSUME NEW q \in refused
        PROVE  job'[q] = "none" /\ receipt'[q].state \notin {"none", "completed"}
    <3>1. q \in Requests /\ job[q] = "none" /\ receipt[q].state \notin {"none", "completed"}
      BY DEF EInv, ETypes, WorkFits
    <3>2. CASE receipt'[q] = receipt[q]
      BY <1>2, <3>1, <3>2
    <3>3. CASE receipt'[q] # receipt[q]
      <4>1. q = r /\ receipt[r].state \in Pending
        BY <1>1, <3>1, <3>3 DEF RowSettles
      <4>2. receipt' = [receipt EXCEPT ![r].state = state]
        BY <4>1 DEF Finalized
      <4>3. receipt'[r].state = state
        BY <4>1, <4>2, StateSettles DEF EInv
      <4> QED
        BY <1>2, <3>1, <4>1, <4>3 DEF Final
    <3> QED
      BY <3>2, <3>3
  <2> QED
    BY <1>1, <1>2, <2>1 DEF EInv, WorkFits, Working
<1>7. IInv'
  BY AccountsKeep DEF EInv
<1> QED
  BY <1>3, <1>4, <1>5, <1>6, <1>7 DEF EInv

(* A session ends although the database refused its last write. *)
LEMMA HeldFits ==
  ASSUME EInv, NEW r \in Requests, receipt[r].state \in Pending, receipt' = receipt,
         refused' = refused \cup {r}, job' = [job EXCEPT ![r] = "none"],
         UNCHANGED <<svars, host, crashes, spent, runs, trust>>
  PROVE  EInv'
<1>1. /\ job' \in [Requests -> {"none", "asked", "started", "capturing"}] /\ job'[r] = "none"
      /\ \A q \in Requests : q # r => job'[q] = job[q]
  BY DEF EInv, ETypes
<1>2. ETypes'
  BY <1>1 DEF EInv, ETypes
<1>3. Settles
  BY DEF Settles, RowSettles, svars, EInv, ETypes
<1>4. PendingFits' /\ TemplateFits' /\ (ownership' = "unclaimed" => Empty')
  BY <1>3, SettlesKeep
<1>5. CountFits'
  BY <1>1 DEF EInv, CountFits
<1>6. WorkFits'
  <2>1. receipt[r].state \notin {"none", "completed"}
    BY DEF Pending
  <2>2. \A q \in refused : q \in Requests
    BY DEF EInv, ETypes
  <2> QED
    BY <1>1, <2>1, <2>2 DEF EInv, WorkFits, Working
<1>7. IInv'
  BY AccountsKeep DEF EInv
<1> QED
  BY <1>2, <1>4, <1>5, <1>6, <1>7 DEF EInv

LEMMA FinalizeFits ==
  ASSUME EInv, NEW r \in Requests, NEW state \in Final \ {"completed"}, Finalize(r, state),
         job' = [job EXCEPT ![r] = "none"],
         UNCHANGED <<svars, host, crashes, spent, runs, trust>>
  PROVE  EInv'
<1>1. CASE receipt' = Finalized(r, state) /\ UNCHANGED refused
  BY <1>1, EndFits
<1>2. CASE receipt[r].state \in Pending /\ refused' = refused \cup {r} /\ UNCHANGED receipt
  BY <1>2, HeldFits
<1> QED
  BY <1>1, <1>2 DEF Finalize

LEMMA DispatchFits ==
  ASSUME EInv, NEW r \in Requests, Dispatch(r)
  PROVE  EInv'
<1>1. CASE /\ \A q \in Requests \ {r} : job[q] \in {"none", "asked"}
           /\ job' = [job EXCEPT ![r] = "started"]
           /\ runs' = [runs EXCEPT ![r] = @ + 1]
           /\ UNCHANGED <<receipt, refused>>
  <2>1. job[r] = "asked" /\ UNCHANGED <<svars, host, crashes, spent, trust>>
    BY DEF Dispatch
  <2>2. spent[r] = 1 /\ runs[r] = 0
    BY <2>1 DEF EInv, CountFits
  <2>3. /\ job' \in [Requests -> {"none", "asked", "started", "capturing"}] /\ job'[r] = "started"
        /\ \A q \in Requests : q # r => job'[q] = job[q]
        /\ runs' \in [Requests -> Nat] /\ runs'[r] = 1
        /\ \A q \in Requests : q # r => runs'[q] = runs[q]
    BY <1>1, <2>2 DEF EInv, ETypes
  <2>4. ETypes'
    BY <1>1, <2>1, <2>3 DEF EInv, ETypes
  <2>5. PendingFits' /\ TemplateFits' /\ (ownership' = "unclaimed" => Empty')
    <3>1. Settles
      BY <1>1, <2>1 DEF Settles, RowSettles, svars, EInv, ETypes
    <3> QED
      BY <3>1, SettlesKeep
  <2>6. CountFits'
    <3>1. ASSUME NEW q \in Requests
          PROVE  /\ receipt'[q].state = "none" => spent'[q] = 0 /\ runs'[q] = 0
                 /\ job'[q] = "asked" => spent'[q] = 1 /\ runs'[q] = 0
                 /\ spent'[q] \in {0, 1} /\ runs'[q] \in {0, 1} /\ runs'[q] <= spent'[q]
      <4>1. CASE q = r
        BY <1>1, <2>1, <2>2, <2>3, <4>1 DEF EInv, CountFits
      <4>2. CASE q # r
        BY <1>1, <2>1, <2>3, <4>2 DEF EInv, CountFits
      <4> QED
        BY <4>1, <4>2
    <3> QED
      BY <3>1 DEF CountFits
  <2>7. WorkFits'
    <3>1. \A q \in Requests : Working(q)' => q = r
      BY <1>1, <2>3 DEF Working
    <3>2. \A q \in Requests : job[q] # "none" => job'[q] # "none"
      BY <2>3
    <3>3. \A q \in refused : job'[q] = "none"
      BY <2>1, <2>3 DEF EInv, ETypes, WorkFits
    <3> QED
      BY <1>1, <2>1, <3>1, <3>2, <3>3 DEF EInv, WorkFits
  <2>8. IInv'
    BY <2>1, AccountsKeep DEF EInv
  <2> QED
    BY <2>4, <2>5, <2>6, <2>7, <2>8 DEF EInv
<1>2. CASE job' = [job EXCEPT ![r] = "none"] /\ Finalize(r, "failed") /\ UNCHANGED runs
  BY <1>2, FinalizeFits DEF Dispatch, Final
<1> QED
  BY <1>1, <1>2 DEF Dispatch

LEMMA ActivateFits ==
  ASSUME EInv, NEW r \in Requests, Activate(r)
  PROVE  EInv'
<1>1. CASE /\ receipt[r].state = "accepted"
           /\ receipt' = [receipt EXCEPT ![r].state = "active"]
           /\ job' = [job EXCEPT ![r] = "capturing"]
           /\ UNCHANGED refused
  <2>1. job[r] = "started" /\ UNCHANGED <<svars, host, crashes, spent, runs, trust>>
    BY DEF Activate
  <2>2. /\ receipt' \in [Requests -> ReceiptRow] /\ \A q \in Requests : RowSettles(q)
    BY <1>1, StateSettles DEF EInv, Pending
  <2>3. /\ job' \in [Requests -> {"none", "asked", "started", "capturing"}]
        /\ job'[r] = "capturing" /\ \A q \in Requests : q # r => job'[q] = job[q]
    BY <1>1 DEF EInv, ETypes
  <2>4. ETypes'
    BY <1>1, <2>1, <2>2, <2>3 DEF EInv, ETypes
  <2>5. PendingFits' /\ TemplateFits' /\ (ownership' = "unclaimed" => Empty')
    BY <2>1, <2>2, SettlesKeep DEF Settles, svars
  <2>6. CountFits'
    <3>1. \A q \in Requests : receipt'[q].state = "none" => receipt[q].state = "none"
      BY <2>2 DEF RowSettles, Pending, Final
    <3>2. \A q \in Requests : job'[q] = "asked" => job[q] = "asked"
      BY <2>3
    <3> QED
      BY <2>1, <3>1, <3>2 DEF EInv, CountFits
  <2>7. WorkFits'
    <3>1. \A q \in Requests : receipt'[q].state \in Pending => receipt[q].state \in Pending
      BY <2>2 DEF RowSettles
    <3>2. \A q \in Requests : Working(q)' = Working(q) /\ (job[q] # "none" => job'[q] # "none")
      BY <2>1, <2>3 DEF Working
    <3>3. \A q \in refused : q \in Requests /\ q # r
      BY <2>1 DEF EInv, ETypes, WorkFits
    <3>4. \A q \in Requests : q # r => receipt'[q] = receipt[q]
      BY <1>1, StateSettles DEF EInv, Pending
    <3>5. \A q \in refused : job'[q] = "none" /\ receipt'[q] = receipt[q]
      BY <2>3, <3>3, <3>4 DEF EInv, WorkFits
    <3> QED
      BY <1>1, <2>1, <3>1, <3>2, <3>5 DEF EInv, WorkFits
  <2>8. IInv'
    BY <2>1, AccountsKeep DEF EInv
  <2> QED
    BY <2>4, <2>5, <2>6, <2>7, <2>8 DEF EInv
<1>2. CASE Finalize(r, "failed") /\ EndJob(r)
  BY <1>2, FinalizeFits DEF Activate, EndJob, Final
<1> QED
  BY <1>1, <1>2 DEF Activate

LEMMA GiveUpFits ==
  ASSUME EInv, NEW r \in Requests, GiveUp(r) \/ Cancel(r)
  PROVE  EInv'
<1>1. CASE GiveUp(r)
  BY <1>1, FinalizeFits DEF GiveUp, EndJob, Final
<1>2. CASE Cancel(r)
  BY <1>2, EndFits DEF Cancel, Final
<1> QED
  BY <1>1, <1>2

LEMMA CrashFits ==
  ASSUME EInv, Crash
  PROVE  EInv'
<1>1. /\ host' = "down" /\ crashes' = crashes + 1 /\ crashes < MaxCrashes
      /\ job' = [r \in Requests |-> "none"]
      /\ UNCHANGED <<user, device, ownership, receipt, spent, runs, refused, trust>>
  BY DEF Crash
<1>2. ETypes'
  <2>1. crashes' \in 0..MaxCrashes
    BY <1>1, EnrollmentAssumption DEF EInv, ETypes
  <2> QED
    BY <1>1, <2>1 DEF EInv, ETypes
<1>3. Settles
  BY <1>1 DEF Settles, RowSettles, EInv, ETypes
<1>4. PendingFits' /\ TemplateFits' /\ (ownership' = "unclaimed" => Empty')
  BY <1>3, SettlesKeep
<1>5. CountFits' /\ WorkFits'
  <2>1. \A q \in refused : q \in Requests
    BY DEF EInv, ETypes
  <2> QED
    BY <1>1, <2>1 DEF EInv, CountFits, WorkFits, Working
<1>6. IInv'
  BY CrashKeeps DEF EInv
<1> QED
  BY <1>2, <1>4, <1>5, <1>6 DEF EInv

LEMMA BootSettles ==
  ASSUME ETypes, Boot
  PROVE  /\ receipt' \in [Requests -> ReceiptRow] /\ \A r \in Requests : RowSettles(r)
         /\ \A r \in Requests : receipt'[r].state \notin Pending
         /\ \A r \in Requests :
              receipt'[r].state = IF receipt[r].state \in Pending THEN "interrupted"
                                  ELSE receipt[r].state
<1>1. receipt \in [Requests -> ReceiptRow] /\ receipt' = InterruptPending
  BY DEF ETypes, Boot
<1>2. ASSUME NEW r \in Requests
      PROVE  /\ receipt'[r] \in ReceiptRow /\ RowSettles(r) /\ receipt'[r].state \notin Pending
             /\ receipt'[r].state = IF receipt[r].state \in Pending THEN "interrupted"
                                    ELSE receipt[r].state
  <2>1. CASE receipt[r].state \in Pending
    <3> DEFINE row == [receipt[r] EXCEPT !.state = "interrupted"]
    <3>1. receipt'[r] = row
      BY <1>1, <2>1 DEF InterruptPending
    <3>2. /\ row \in ReceiptRow /\ row.state = "interrupted" /\ row.device = receipt[r].device
          /\ row.user = receipt[r].user /\ row.version = receipt[r].version
          /\ row.target = receipt[r].target /\ row.targetVersion = receipt[r].targetVersion
      BY <1>1 DEF ReceiptRow, Final
    <3> HIDE DEF row
    <3> QED
      BY <2>1, <3>1, <3>2 DEF RowSettles, Pending, Final
  <2>2. CASE receipt[r].state \notin Pending
    BY <1>1, <2>2 DEF InterruptPending, RowSettles
  <2> QED
    BY <2>1, <2>2
<1>3. receipt' \in [Requests -> ReceiptRow]
  BY <1>1, <1>2 DEF InterruptPending
<1> QED
  BY <1>2, <1>3

LEMMA BootFits ==
  ASSUME EInv, Boot
  PROVE  EInv'
<1>1. host' = "up" /\ refused' = {} /\ UNCHANGED <<svars, job, crashes, spent, runs, trust>>
  BY DEF Boot
<1>2. /\ receipt' \in [Requests -> ReceiptRow] /\ \A r \in Requests : RowSettles(r)
      /\ \A r \in Requests : receipt'[r].state \notin Pending
  BY BootSettles DEF EInv
<1>3. ETypes'
  BY <1>1, <1>2 DEF EInv, ETypes
<1>4. PendingFits' /\ TemplateFits' /\ (ownership' = "unclaimed" => Empty')
  BY <1>1, <1>2, SettlesKeep DEF Settles, svars
<1>5. CountFits'
  <2>1. \A q \in Requests : receipt'[q].state = "none" => receipt[q].state = "none"
    BY <1>2 DEF RowSettles, Pending, Final
  <2> QED
    BY <1>1, <2>1 DEF EInv, CountFits
<1>6. WorkFits'
  BY <1>1, <1>2 DEF EInv, WorkFits, Working
<1>7. IInv'
  BY <1>1, AccountsKeep DEF EInv
<1> QED
  BY <1>3, <1>4, <1>5, <1>6, <1>7 DEF EInv


-----------------------------------------------------------------------------
(* The steps that change accounts, and the invariant *)

LEMMA SaverFits ==
  ASSUME EInv, NEW r \in Requests, SaveFace(r)
  PROVE  /\ receipt[r].state = "active" /\ receipt[r].state \in Pending
         /\ receipt[r].target \in Users /\ r \in trust /\ Active(receipt[r].target)
<1>1. receipt[r].state = "active" /\ Authorized(r)
  BY DEF SaveFace
<1>2. receipt[r].state \in Pending
  BY <1>1 DEF Pending
<1>3. ActorFits(receipt[r]) /\ (r \in trust \/ Outdated(receipt[r]))
  BY <1>2 DEF EInv, PendingFits
<1>4. PICK a \in Users, t \in Users, m \in Nat, n \in Nat :
        /\ receipt[r].user = a /\ receipt[r].target = t
        /\ receipt[r].version = m /\ receipt[r].targetVersion = n
  BY <1>3 DEF ActorFits, EInv, ETypes, ReceiptRow
<1>5. ~Outdated(receipt[r])
  <2>1. user[a].version = m /\ user[t].version = n
    BY <1>1, <1>4 DEF Authorized
  <2>2. device[receipt[r].device].state = "active"
    BY <1>1 DEF Authorized, ActiveDevice
  <2> QED
    BY <1>4, <2>1, <2>2 DEF Outdated
<1> QED
  BY <1>1, <1>2, <1>3, <1>4, <1>5 DEF Authorized

LEMMA SaveFaceFits ==
  ASSUME EInv, NEW r \in Requests, SaveFace(r)
  PROVE  EInv'
<1> DEFINE t == receipt[r].target
           row == [Bumped(t) EXCEPT !.face = r]
<1>1. /\ receipt[r].state = "active" /\ receipt[r].state \in Pending
      /\ t \in Users /\ Active(t)
  BY SaverFits
<1>2. /\ user' = [user EXCEPT ![t] = row] /\ job' = [job EXCEPT ![r] = "none"]
      /\ receipt' = [receipt EXCEPT ![r].state = "completed"] /\ trust' = Trusted
      /\ UNCHANGED <<device, ownership, owner, host, crashes, spent, runs, refused>>
  BY DEF SaveFace, EndJob
<1>3. IInv'
  BY <1>1, SaveKeeps DEF EInv
<1>4. user \in [Users -> UserRow] /\ user[t] \in UserRow
  BY <1>1, TypeParts DEF EInv, IInv
<1>5. row.version = user[t].version + 1 /\ row.state = "active" /\ user[t].state = "active"
  <2>1. IInv /\ t \in Users /\ Active(t)
    BY <1>1 DEF EInv
  <2>2. row.state = "active"
    BY <2>1, FaceRow
  <2>3. row.version = user[t].version + 1
    <3>1. row.version = Bumped(t).version
      BY <1>1, <1>4, BumpedFits DEF UserRow
    <3> QED
      BY <3>1, <1>1, <1>4, BumpedFits
  <2>4. user[t].state = "active"
    BY <2>1 DEF Active
  <2> QED
    BY <2>2, <2>3, <2>4
<1> HIDE DEF row
<1>6. user'[t] = row /\ \A v \in Users : v # t => user'[v] = user[v]
  BY <1>1, <1>2, <1>4
<1>7. \A v \in Users : RowAges(v)
  <2>1. row.version > user[t].version
    BY <1>4, <1>5 DEF UserRow
  <2> QED
    BY <1>2, <1>5, <1>6, <2>1 DEF RowAges, Standing
<1>8. /\ receipt' \in [Requests -> ReceiptRow] /\ receipt'[r].state = "completed"
      /\ \A q \in Requests : q # r => receipt'[q] = receipt[q]
  BY <1>1, <1>2, StateSettles DEF EInv, Final
<1>9. /\ job' \in [Requests -> {"none", "asked", "started", "capturing"}] /\ job'[r] = "none"
      /\ \A q \in Requests : q # r => job'[q] = job[q]
  BY <1>2 DEF EInv, ETypes
<1>10. ETypes'
  BY <1>2, <1>8, <1>9 DEF EInv, ETypes, Trusted
<1>11. PendingFits'
  <2>1. \A d \in Devices : DeviceAges(d)
    BY <1>2, DevicesUnchanged
  <2>2. \A q \in Requests : receipt'[q] = receipt[q] \/ receipt'[q].state \notin Pending
    BY <1>8 DEF Pending
  <2> QED
    BY <1>2, <1>3, <1>7, <2>1, <2>2, AgingKeeps
<1>12. CountFits'
  <2>1. \A q \in Requests : receipt'[q].state = "none" => receipt[q].state = "none"
    BY <1>8
  <2>2. \A q \in Requests : job'[q] = "asked" => job[q] = "asked"
    BY <1>9
  <2> QED
    BY <1>2, <2>1, <2>2 DEF EInv, CountFits
<1>13. WorkFits'
  <2>1. \A q \in Requests : receipt'[q].state \in Pending => q # r /\ receipt[q].state \in Pending
    BY <1>8 DEF Pending
  <2>2. \A q \in Requests : Working(q)' => Working(q)
    BY <1>9 DEF Working
  <2>3. \A q \in refused : q \in Requests /\ q # r
    BY DEF SaveFace, EInv, ETypes, WorkFits
  <2> QED
    BY <1>2, <1>8, <1>9, <2>1, <2>2, <2>3 DEF EInv, WorkFits
<1>14. TemplateFits'
  BY <1>5, <1>6 DEF EInv, TemplateFits
<1>15. ownership' # "unclaimed"
  BY <1>1, <1>2 DEF EInv, Empty, Active
<1> QED
  BY <1>3, <1>10, <1>11, <1>12, <1>13, <1>14, <1>15 DEF EInv

(* A reset leaves nothing behind. *)
LEMMA ResetEmpties ==
  ASSUME EInv, ResetProduct
  PROVE  /\ \A u \in Users : user'[u].state # "active" /\ user'[u].face = None
<1>1. [NoUser EXCEPT !.state = "gone"].state = "gone"
      /\ [NoUser EXCEPT !.state = "gone"].face = None
  BY DEF NoUser
<1> SUFFICES ASSUME NEW u \in Users PROVE user'[u].state # "active" /\ user'[u].face = None
  OBVIOUS
<1>2. CASE user[u].state = "new"
  BY <1>2 DEF ResetProduct, EInv, TemplateFits
<1>3. CASE user[u].state # "new"
  BY <1>1, <1>3 DEF ResetProduct
<1> QED
  BY <1>2, <1>3

LEMMA ReceiptsGo ==
  ASSUME ETypes, Accounts, ownership' = "unclaimed"
  PROVE  /\ receipt' \in [Requests -> ReceiptRow]
         /\ \A r \in Requests :
              receipt'[r].state = IF receipt[r].state = "none" THEN "none" ELSE "gone"
         /\ trust' = {}
<1>1. /\ NoReceipt \in ReceiptRow /\ NoReceipt.state = "none"
      /\ [NoReceipt EXCEPT !.state = "gone"] \in ReceiptRow
      /\ [NoReceipt EXCEPT !.state = "gone"].state = "gone"
  BY DEF NoReceipt, ReceiptRow
<1>2. /\ receipt' = [r \in Requests |-> IF receipt[r].state = "none" THEN NoReceipt
                                        ELSE [NoReceipt EXCEPT !.state = "gone"]]
      /\ trust' = {}
  BY DEF Accounts
<1> DEFINE gone == [NoReceipt EXCEPT !.state = "gone"]
<1>3. gone \in ReceiptRow /\ gone.state = "gone"
      /\ receipt' = [r \in Requests |-> IF receipt[r].state = "none" THEN NoReceipt ELSE gone]
  BY <1>1, <1>2
<1> HIDE DEF gone
<1> QED
  BY <1>1, <1>2, <1>3

LEMMA AccountsFit ==
  ASSUME EInv, Accounts
  PROVE  EInv'
<1>1. SNext /\ UNCHANGED <<job, host, crashes, spent, runs, refused>>
  BY DEF Accounts
<1>2. IInv'
  BY <1>1, AccountsKeep DEF EInv
<1>3. WorkFits' /\ CountFits' /\ ETypes' /\ PendingFits' /\ (ownership' = "unclaimed" => Empty')
  <2>1. CASE ownership' = "unclaimed"
    <3>1. /\ receipt' \in [Requests -> ReceiptRow] /\ trust' = {}
          /\ \A r \in Requests : /\ receipt'[r].state \in {"none", "gone"}
                                 /\ receipt'[r].state = "none" => receipt[r].state = "none"
      BY <2>1, ReceiptsGo DEF EInv
    <3>2. \A r \in Requests : receipt'[r].state \notin Pending
      BY <3>1 DEF Pending
    <3>3. \A u \in Users : user'[u].state # "active" /\ user'[u].face = None
      <4>1. CASE ResetProduct
        BY <4>1, ResetEmpties
      <4>2. CASE ~ResetProduct
        <5>1. Empty
          BY <1>1, <2>1, <4>2, UnclaimedStays DEF EInv
        <5>2. \A u \in Users : FaceAges(u)
          BY <1>1, <4>2, StepsAge DEF EInv, Ages
        <5> QED
          BY <1>1, <2>1, <4>2, <5>1, <5>2, NobodyAppears DEF EInv, Empty, FaceAges
      <4> QED
        BY <4>1, <4>2
    <3>4. ETypes'
      BY <1>1, <3>1 DEF EInv, ETypes
    <3>5. CountFits'
      BY <1>1, <3>1 DEF EInv, CountFits
    <3>6. WorkFits'
      <4>1. \A r \in refused : r \in Requests
        BY DEF EInv, ETypes
      <4> QED
        BY <1>1, <3>1, <3>2, <4>1 DEF EInv, WorkFits, Working
    <3> QED
      BY <3>1, <3>2, <3>3, <3>4, <3>5, <3>6 DEF PendingFits, Empty
  <2>2. CASE ownership' # "unclaimed"
    <3>1. receipt' = receipt /\ trust' = Trusted /\ ~ResetProduct
      BY <2>2 DEF Accounts, ResetProduct
    <3>2. Ages
      BY <1>1, <3>1, StepsAge DEF EInv
    <3>3. PendingFits'
      BY <1>2, <3>1, <3>2, AgingKeeps DEF Ages
    <3>4. ETypes'
      BY <1>1, <3>1 DEF EInv, ETypes, Trusted
    <3>5. CountFits' /\ WorkFits'
      BY <1>1, <3>1 DEF EInv, CountFits, WorkFits, Working
    <3> QED
      BY <2>2, <3>3, <3>4, <3>5
  <2> QED
    BY <2>1, <2>2
<1>4. TemplateFits'
  <2>1. CASE ResetProduct
    BY <2>1, ResetEmpties DEF TemplateFits
  <2>2. CASE ~ResetProduct
    <3>1. \A u \in Users : RowAges(u) /\ FaceAges(u)
      BY <1>1, <2>2, StepsAge DEF EInv, Ages
    <3> QED
      BY <3>1 DEF EInv, TemplateFits, RowAges, FaceAges
  <2> QED
    BY <2>1, <2>2
<1> QED
  BY <1>2, <1>3, <1>4 DEF EInv

LEMMA EInductive ==
  ASSUME EInv, [ENext]_allvars
  PROVE  EInv'
<1>1. CASE UNCHANGED allvars
  <2>1. IInv'
    BY <1>1, AccountsKeep DEF EInv, allvars
  <2>2. Settles
    BY <1>1 DEF Settles, RowSettles, allvars, svars, evars, EInv, ETypes
  <2>3. ETypes' /\ CountFits' /\ WorkFits'
    BY <1>1 DEF EInv, ETypes, CountFits, WorkFits, Working, allvars, svars, evars
  <2> QED
    BY <2>1, <2>2, <2>3, SettlesKeep DEF EInv
<1>2. CASE ENext
  BY <1>2, RequestFits, DispatchFits, ActivateFits, SaveFaceFits, GiveUpFits, CrashFits, BootFits,
     AccountsFit DEF ENext, Session
<1> QED
  BY <1>1, <1>2

LEMMA EAlways == ESpec => []EInv
BY EnrollmentStart, EInductive, PTL DEF ESpec

(* The receipts, the sessions and the histories keep their types. *)
THEOREM EnrollmentTypesHold == ESpec => []EnrollmentTypeOK
<1>1. EInv => EnrollmentTypeOK
  BY ETypesMean DEF EInv
<1> QED
  BY <1>1, EAlways, PTL

(* A phone that repeats its request spends one grant and gets one session. *)
THEOREM RequestsRunOnce == ESpec => []OncePerRequest
<1>1. EInv => OncePerRequest
  BY DEF EInv, CountFits, OncePerRequest
<1> QED
  BY <1>1, EAlways, PTL

(* While the host answers, a pending receipt has its session or a write of *)
(* its end that was refused; what was refused is neither worked on nor     *)
(* completed; and there is one session at most.                            *)
THEOREM PendingIsAlwaysWorkedOn == ESpec => []PendingIsWorkedOn
<1>1. ASSUME EInv PROVE PendingIsWorkedOn
  <2> DEFINE at == {r \in Requests : job[r] \in {"started", "capturing"}}
  <2>1. \A q, r \in at : q = r
    BY <1>1 DEF EInv, WorkFits, Working
  <2>2. Cardinality(at) <= 1
    <3>1. CASE at = {}
      BY <3>1, FS_EmptySet
    <3>2. CASE at # {}
      <4>1. PICK r : r \in at
        BY <3>2
      <4>2. at = {r}
        BY <2>1, <4>1
      <4>3. Cardinality({r}) = 1
        BY FS_Singleton
      <4> HIDE DEF at
      <4> QED
        BY <4>2, <4>3
    <3> QED
      BY <3>1, <3>2
  <2> QED
    BY <1>1, <2>2 DEF EInv, WorkFits, PendingIsWorkedOn
<1> QED
  BY <1>1, EAlways, PTL

-----------------------------------------------------------------------------
(* EnrollmentOutcome: what each step is for the person who asked *)

outcomes == [r \in Requests |-> Outcome(r)]
faces == [u \in Users |-> user[u].face]

(* The steps of the contract, in the terms of the host. *)
Accepts(r) ==
    /\ Outcome(r) = "none" /\ outcomes' = [outcomes EXCEPT ![r] = "pending"]
    /\ trust' = trust \cup {r} /\ faces' = faces
Lapses ==
    /\ trust' \subseteq trust /\ outcomes' = outcomes
    /\ \A u \in Users : FaceAges(u)
Saves(r, u) ==
    /\ Outcome(r) = "pending" /\ r \in trust
    /\ outcomes' = [outcomes EXCEPT ![r] = "saved"]
    /\ faces' = [faces EXCEPT ![u] = r]
    /\ trust' \subseteq trust
Ends(rs) ==
    /\ \A r \in rs : Outcome(r) = "pending"
    /\ outcomes' = [r \in Requests |-> IF r \in rs THEN "ended" ELSE Outcome(r)]
    /\ trust' = trust /\ faces' = faces
Forgets ==
    /\ outcomes' = [r \in Requests |-> IF Outcome(r) = "none" THEN "none" ELSE "forgotten"]
    /\ faces' = [u \in Users |-> None] /\ trust' = {}

LEMMA OutcomeMeans ==
  ASSUME NEW r
  PROVE  /\ receipt[r].state = "none" <=> Outcome(r) = "none"
         /\ receipt[r].state \in Pending <=> Outcome(r) = "pending"
         /\ receipt[r].state = "completed" <=> Outcome(r) = "saved"
         /\ receipt[r].state = "gone" <=> Outcome(r) = "forgotten"
         /\ receipt[r].state \in Final \ {"completed"} => Outcome(r) = "ended"
BY DEF Outcome, Pending, Final

LEMMA OutcomeFollows ==
  ASSUME NEW r
  PROVE  /\ receipt'[r].state = "none" => Outcome(r)' = "none"
         /\ receipt'[r].state \in Pending => Outcome(r)' = "pending"
         /\ receipt'[r].state = "completed" => Outcome(r)' = "saved"
         /\ receipt'[r].state = "gone" => Outcome(r)' = "forgotten"
         /\ receipt'[r].state \in Final \ {"completed"} => Outcome(r)' = "ended"
         /\ receipt'[r] = receipt[r] => Outcome(r)' = Outcome(r)
BY DEF Outcome, Pending, Final

LEMMA RequestAccepts ==
  ASSUME EInv, NEW p \in Presented, NEW r \in Requests, NEW t \in Users, Request(p, r, t)
  PROVE  Accepts(r)
<1> DEFINE row == [state |-> "accepted", device |-> p.device, user |-> p.user,
                   version |-> p.version, target |-> t, targetVersion |-> user[t].version]
<1>1. /\ receipt[r].state = "none" /\ receipt' = [receipt EXCEPT ![r] = row]
      /\ trust' = trust \cup {r} /\ UNCHANGED user
  BY DEF Request, Reserve, NewRequest
<1>2. row.state = "accepted" /\ row.state \in Pending
  BY DEF Pending
<1> HIDE DEF row
<1>3. receipt'[r] = row /\ \A q \in Requests : q # r => receipt'[q] = receipt[q]
  BY <1>1 DEF EInv, ETypes
<1>4. Outcome(r) = "none" /\ Outcome(r)' = "pending"
      /\ \A q \in Requests : q # r => Outcome(q)' = Outcome(q)
  BY <1>1, <1>2, <1>3, OutcomeMeans, OutcomeFollows
<1>5. outcomes' = [outcomes EXCEPT ![r] = "pending"]
  BY <1>4 DEF outcomes
<1> QED
  BY <1>1, <1>4, <1>5 DEF Accepts, faces

(* One receipt ends without a face, or it had ended before. *)
LEMMA EndEnds ==
  ASSUME EInv, NEW r \in Requests, NEW state \in Final \ {"completed"},
         receipt' = Finalized(r, state), UNCHANGED <<user, trust>>
  PROVE  \E rs \in SUBSET Requests : Ends(rs)
<1>1. CASE receipt[r].state \in Pending
  <2>1. receipt' = [receipt EXCEPT ![r].state = state]
    BY <1>1 DEF Finalized
  <2>2. receipt'[r].state = state /\ \A q \in Requests : q # r => receipt'[q] = receipt[q]
    BY <1>1, <2>1, StateSettles DEF EInv
  <2>3. Outcome(r) = "pending" /\ Outcome(r)' = "ended"
        /\ \A q \in Requests : q # r => Outcome(q)' = Outcome(q)
    BY <1>1, <2>2, OutcomeMeans, OutcomeFollows
  <2>4. outcomes' = [q \in Requests |-> IF q \in {r} THEN "ended" ELSE Outcome(q)]
    BY <2>3 DEF outcomes
  <2>5. Ends({r})
    BY <2>3, <2>4 DEF Ends, faces
  <2> QED
    BY <2>5
<1>2. CASE receipt[r].state \notin Pending
  <2>1. receipt' = receipt
    BY <1>2 DEF Finalized
  <2>2. \A q \in Requests : Outcome(q)' = Outcome(q)
    BY <2>1, OutcomeFollows
  <2>3. outcomes' = [q \in Requests |-> IF q \in {} THEN "ended" ELSE Outcome(q)]
    BY <2>2 DEF outcomes
  <2>4. Ends({})
    BY <2>3 DEF Ends, faces
  <2> QED
    BY <2>4
<1> QED
  BY <1>1, <1>2

LEMMA SameOutcome ==
  ASSUME \A r \in Requests : Outcome(r)' = Outcome(r), UNCHANGED <<user, trust>>
  PROVE  UNCHANGED <<outcomes, faces, trust>>
BY DEF outcomes, faces

LEMMA DispatchEnds ==
  ASSUME EInv, NEW r \in Requests, Dispatch(r) \/ Activate(r) \/ GiveUp(r) \/ Cancel(r)
  PROVE  \/ \E rs \in SUBSET Requests : Ends(rs)
         \/ UNCHANGED <<outcomes, faces, trust>>
<1>1. UNCHANGED <<user, trust>>
  BY DEF Dispatch, Activate, GiveUp, Cancel, svars
<1>2. \/ receipt' = receipt
      \/ \E state \in Final \ {"completed"} : receipt' = Finalized(r, state)
      \/ receipt[r].state = "accepted" /\ receipt' = [receipt EXCEPT ![r].state = "active"]
  BY DEF Dispatch, Activate, GiveUp, Cancel, Finalize, Final
<1>3. CASE receipt' = receipt
  BY <1>1, <1>3, OutcomeFollows, SameOutcome
<1>4. CASE \E state \in Final \ {"completed"} : receipt' = Finalized(r, state)
  BY <1>1, <1>4, EndEnds
<1>5. CASE receipt[r].state = "accepted" /\ receipt' = [receipt EXCEPT ![r].state = "active"]
  <2>1. receipt[r].state \in Pending /\ "active" \in Pending
    BY <1>5 DEF Pending
  <2>2. receipt'[r].state = "active" /\ \A q \in Requests : q # r => receipt'[q] = receipt[q]
    BY <1>5, <2>1, StateSettles DEF EInv
  <2> QED
    BY <1>1, <2>1, <2>2, OutcomeMeans, OutcomeFollows, SameOutcome
<1> QED
  BY <1>2, <1>3, <1>4, <1>5

LEMMA BootEnds ==
  ASSUME EInv, Boot
  PROVE  \E rs \in SUBSET Requests : Ends(rs)
<1> DEFINE open == {r \in Requests : receipt[r].state \in Pending}
<1>1. UNCHANGED <<user, trust>>
  BY DEF Boot, svars
<1>2. ASSUME NEW r \in Requests
      PROVE  Outcome(r)' = IF r \in open THEN "ended" ELSE Outcome(r)
  <2>1. CASE r \in open
    <3>1. receipt'[r].state = "interrupted" /\ "interrupted" \in Final \ {"completed"}
      BY <2>1, BootSettles DEF EInv, Final
    <3> QED
      BY <2>1, <3>1, OutcomeFollows
  <2>2. CASE r \notin open
    <3>1. receipt'[r] = receipt[r]
      BY <2>2 DEF Boot, InterruptPending
    <3> QED
      BY <2>2, <3>1, OutcomeFollows
  <2> QED
    BY <2>1, <2>2
<1>3. \A r \in open : Outcome(r) = "pending"
  BY OutcomeMeans
<1>4. open \in SUBSET Requests
  OBVIOUS
<1> HIDE DEF open
<1>5. Ends(open)
  BY <1>1, <1>2, <1>3 DEF Ends, outcomes, faces
<1> QED
  BY <1>4, <1>5

LEMMA SaveFaceSaves ==
  ASSUME EInv, NEW r \in Requests, SaveFace(r)
  PROVE  \E u \in Users : Saves(r, u)
<1> DEFINE t == receipt[r].target
           row == [Bumped(t) EXCEPT !.face = r]
<1>1. /\ receipt[r].state \in Pending /\ t \in Users /\ r \in trust /\ Active(t)
  BY SaverFits
<1>2. /\ user' = [user EXCEPT ![t] = row] /\ trust' = Trusted
      /\ receipt' = [receipt EXCEPT ![r].state = "completed"]
  BY DEF SaveFace
<1>3. row.face = r
  BY <1>1, FaceRow DEF EInv
<1>4. user \in [Users -> UserRow]
  BY TypeParts DEF EInv, IInv
<1> HIDE DEF row
<1>5. /\ receipt'[r].state = "completed"
      /\ \A q \in Requests : q # r => receipt'[q] = receipt[q]
  BY <1>1, <1>2, StateSettles DEF EInv, Final
<1>6. Outcome(r) = "pending" /\ Outcome(r)' = "saved"
      /\ \A q \in Requests : q # r => Outcome(q)' = Outcome(q)
  BY <1>1, <1>5, OutcomeMeans, OutcomeFollows
<1>7. outcomes' = [outcomes EXCEPT ![r] = "saved"]
  BY <1>6 DEF outcomes
<1>8. faces' = [faces EXCEPT ![t] = r]
  BY <1>1, <1>2, <1>3, <1>4 DEF faces
<1>9. Saves(r, t)
  BY <1>1, <1>2, <1>6, <1>7, <1>8 DEF Saves, Trusted
<1> QED
  BY <1>1, <1>9

LEMMA AccountsLapse ==
  ASSUME EInv, Accounts
  PROVE  Lapses \/ Forgets
<1>1. SNext
  BY DEF Accounts
<1>2. CASE ResetProduct
  <2>1. ownership' = "unclaimed"
    BY <1>2 DEF ResetProduct
  <2>2. trust' = {} /\ \A r \in Requests :
          receipt'[r].state = IF receipt[r].state = "none" THEN "none" ELSE "gone"
    BY <2>1, ReceiptsGo DEF EInv
  <2>3. \A r \in Requests : Outcome(r)' = IF Outcome(r) = "none" THEN "none" ELSE "forgotten"
    BY <2>2, OutcomeMeans, OutcomeFollows
  <2>4. \A u \in Users : user'[u].face = None
    BY <1>2, ResetEmpties
  <2>5. Forgets
    BY <2>2, <2>3, <2>4 DEF Forgets, outcomes, faces
  <2> QED
    BY <2>5
<1>3. CASE ~ResetProduct
  <2>1. \A u \in Users : FaceAges(u)
    BY <1>1, <1>3, StepsAge DEF EInv, Ages
  <2>2. trust' \subseteq trust /\ \A r \in Requests : Outcome(r)' = Outcome(r)
    <3>1. CASE ownership' = "unclaimed"
      <4>1. \A r \in Requests : receipt[r].state \in {"none", "gone"}
        BY <1>1, <1>3, <3>1, UnclaimedStays DEF EInv, Empty
      <4>2. trust' = {} /\ \A r \in Requests : receipt'[r].state = receipt[r].state
        BY <3>1, <4>1, ReceiptsGo DEF EInv
      <4> QED
        BY <4>2 DEF Outcome
    <3>2. CASE ownership' # "unclaimed"
      <4>1. receipt' = receipt /\ trust' = Trusted
        BY <3>2 DEF Accounts
      <4> QED
        BY <4>1, OutcomeFollows DEF Trusted
    <3> QED
      BY <3>1, <3>2
  <2>3. Lapses
    BY <2>1, <2>2 DEF Lapses, outcomes
  <2> QED
    BY <2>3
<1> QED
  BY <1>2, <1>3

LEMMA StepsImplement ==
  ASSUME EInv, [ENext]_allvars
  PROVE  \/ \E r \in Requests : Accepts(r)
         \/ Lapses
         \/ \E r \in Requests, u \in Users : Saves(r, u)
         \/ \E rs \in SUBSET Requests : Ends(rs)
         \/ Forgets
         \/ UNCHANGED <<outcomes, faces, trust>>
<1>1. CASE UNCHANGED allvars
  <2>1. UNCHANGED <<user, trust, receipt>>
    BY <1>1 DEF allvars, svars, evars
  <2> QED
    BY <2>1, OutcomeFollows, SameOutcome
<1>2. CASE Crash
  <2>1. UNCHANGED <<user, trust, receipt>>
    BY <1>2 DEF Crash
  <2> QED
    BY <2>1, OutcomeFollows, SameOutcome
<1>3. CASE ENext /\ ~Crash
  BY <1>3, RequestAccepts, DispatchEnds, SaveFaceSaves, BootEnds, AccountsLapse DEF ENext, Session
<1> QED
  BY <1>1, <1>2, <1>3

(* The host implements the outcome of an enrollment: a request is settled  *)
(* once, a face is saved only by a pending request whose authority never   *)
(* lapsed, and nothing else puts a face in place.                          *)
THEOREM OutcomeIsImplemented == ESpec => ImplementsOutcome
<1>1. EInit => Contract!OutcomeInit
  <2> SUFFICES ASSUME EInit PROVE Contract!OutcomeInit
    OBVIOUS
  <2>1. [r \in Requests |-> Outcome(r)] = [r \in Requests |-> "none"]
    <3>1. NoReceipt.state = "none" /\ receipt = [r \in Requests |-> NoReceipt]
      BY DEF NoReceipt, EInit
    <3>2. \A r \in Requests : Outcome(r) = "none"
      BY <3>1, OutcomeMeans
    <3> QED
      BY <3>2
  <2>2. [u \in Users |-> user[u].face] = [u \in Users |-> None]
    BY FacesAtStart
  <2> QED
    BY <2>1, <2>2 DEF EInit, Contract!OutcomeInit
<1>2. ASSUME EInv, [ENext]_allvars
      PROVE  [Contract!OutcomeNext]_<<outcomes, faces, trust>>
  <2>1. ASSUME NEW r \in Requests, Accepts(r) PROVE Contract!Accept(r)
    BY <2>1 DEF Accepts, Contract!Accept, outcomes, faces
  <2>2. ASSUME Lapses PROVE Contract!Lapse
    BY <2>2 DEF Lapses, Contract!Lapse, outcomes, FaceAges
  <2>3. ASSUME NEW r \in Requests, NEW u \in Users, Saves(r, u) PROVE Contract!SaveFace(r, u)
    BY <2>3 DEF Saves, Contract!SaveFace, outcomes, faces
  <2>4. ASSUME NEW rs \in SUBSET Requests, Ends(rs) PROVE Contract!End(rs)
    BY <2>4 DEF Ends, Contract!End, outcomes, faces
  <2>5. ASSUME Forgets PROVE Contract!Forget
    BY <2>5 DEF Forgets, Contract!Forget, outcomes, faces
  <2> QED
    BY <1>2, <2>1, <2>2, <2>3, <2>4, <2>5, StepsImplement DEF Contract!OutcomeNext
<1>3. [Contract!OutcomeNext]_<<outcomes, faces, trust>> =>
        [Contract!OutcomeNext]_(Contract!ovars)
  BY DEF Contract!ovars, outcomes, faces
<1> QED
  BY <1>1, <1>2, <1>3, EAlways, PTL DEF ESpec, ImplementsOutcome, Contract!OutcomeSpec
=============================================================================
