-------------------------- MODULE PcClientProofs --------------------------
(***************************************************************************)
(* Proofs about the Windows client, for every set of requests and browser  *)
(* threads.  PcInv and NothingIsLost follow from the inductive invariant   *)
(* IInv:                                                                   *)
(*                                                                         *)
(*  - the file differs from memory only by a request whose save failed or  *)
(*    by a recovery card whose removal was not saved (FileFollows);        *)
(*  - whoever is signed in over the connection is the saved pairing        *)
(*    (LinkFits);                                                          *)
(*  - a generation belongs to one pairing, so whoever knows the generation *)
(*    knows the pairing, and a download noted for it is of its card        *)
(*    (ThreadsKnow);                                                       *)
(*  - a card that is not open never opens again (CardsAreOnce), so what is *)
(*    late for it is refused;                                              *)
(*  - a request that may still be or has been accepted is in the file as   *)
(*    pending, or was kept as a pairing and its secret exported (Covered). *)
(***************************************************************************)
EXTENDS PcClient, FiniteSetTheorems, TLAPS

FileFollows ==
    \/ disk = mem
    \/ /\ mem.pending # None /\ mem.paired = None
       /\ disk = [mem EXCEPT !.pending = None]
    \/ /\ mem.card = None /\ disk.card \in exported
       /\ disk = [mem EXCEPT !.card = disk.card]

SavedState ==
    /\ Legal(mem) /\ Legal(disk) /\ FileFollows
    /\ mem.paired # None => mem.generation > 0

(* Whoever is signed in over the connection is the saved pairing. *)
LinkFits == link # None /\ link.auth # None => link.auth = mem.paired

ThreadKnows(t) ==
    /\ tab[t].at # "none" /\ tab[t].generation = mem.generation /\ mem.paired # None
         => tab[t].of = mem.paired
    /\ tab[t].at \in {"exported", "acknowledging"} /\ tab[t].generation = mem.generation
         => mem.card \in exported \cup {None}
    /\ downloaded[t] = mem.generation => mem.card \in exported \cup {None}
    /\ tab[t].generation <= mem.generation /\ downloaded[t] <= mem.generation

ThreadsKnow == \A t \in Tabs : ThreadKnows(t)

CardsAreOnce ==
    /\ IsFiniteSet(host.issued) /\ host.open \subseteq host.issued
    /\ \A c \in host.issued : c.secret <= Cardinality(host.issued)
    /\ \A c \in host.open : (c.purpose = "activation") = ~Claimed
    /\ staged # None /\ staged.purpose # "recovery" => staged \in host.issued
    /\ \A r \in Requests : asks[r] # None /\ asks[r].purpose # "recovery"
                             => asks[r] \in host.issued

(* Nothing has become of a request that was not made. *)
AskedFirst ==
    \A r \in Requests : asks[r] = None =>
        /\ r \notin flight /\ r \notin receipts /\ device[r] = "none"
        /\ host.recovery # r /\ mem.pending # r /\ disk.pending # r

(* What counts at the product was granted, with a receipt. *)
Granted ==
    /\ \A r \in Requests : device[r] = "active" => r \in receipts
    /\ host.recovery \in Requests =>
         host.recovery \in receipts /\ Secretive(host.recovery)

(* A request whose save failed was not sent, unless by a retry. *)
SavedFirst ==
    mem.pending # None /\ disk.pending # mem.pending /\ mem.pending \notin unsaved =>
        mem.pending \notin flight /\ mem.pending \notin receipts /\ step = "idle"

Stages ==
    /\ step \in {"await", "completed", "invalid", "refused"} => mem.pending # None
    /\ step = "authenticate" => mem.paired # None

Ordered == AskedFirst /\ Granted /\ SavedFirst /\ Stages

Dead(r) == asks[r].purpose # "recovery" /\ asks[r] \notin host.open

Kept(r) ==
    /\ r \in forgotten \cup {disk.paired}
    /\ Secretive(r) => r \in exported \cup {disk.card}

Held(r) == r = disk.pending \/ Kept(r)

Covered ==
    /\ \A r \in Requests \ unsaved :
         /\ device[r] = "active" \/ host.recovery = r => Held(r)
         /\ r \in flight => Held(r) \/ Dead(r)
    /\ step = "invalid" => Dead(mem.pending) /\ mem.pending \notin receipts

IInv == PcTypeOK /\ SavedState /\ LinkFits /\ ThreadsKnow /\ CardsAreOnce /\ Ordered /\ Covered

-----------------------------------------------------------------------------
(* Types, in parts that a step can be proved to keep one by one *)

TabRow == [at : {"none", "asked", "confirmed", "in", "exported", "acknowledging"},
           generation : Nat, current : BOOLEAN, of : Requests \cup {None}]

ClientTypes ==
    /\ mem \in States /\ disk \in States
    /\ staged \in Cards \cup {None}
    /\ link \in [usable : BOOLEAN, auth : Requests \cup {None}] \cup {None}
    /\ step \in {"idle", "await", "completed", "invalid", "refused", "authenticate"}
    /\ asks \in [Requests -> Cards \cup {None}] /\ flight \subseteq Requests
    /\ forgotten \subseteq Requests /\ unsaved \subseteq Requests

BridgeTypes ==
    /\ tab \in [Tabs -> TabRow]
    /\ downloaded \in [Tabs -> Nat] /\ exported \subseteq Requests

HostTypes ==
    /\ receipts \subseteq Requests
    /\ host \in [recovery : Requests \cup {None, Elsewhere}, open : SUBSET Cards,
                 issued : SUBSET Cards]
    /\ device \in [Requests -> {"none", "active", "gone"}]

LEMMA TypeParts == PcTypeOK <=> ClientTypes /\ BridgeTypes /\ HostTypes
BY DEF PcTypeOK, ClientTypes, BridgeTypes, HostTypes, TabRow

(* What may become of all threads or of one *)
LEMMA ThreadTypes ==
  ASSUME BridgeTypes
  PROVE  /\ tab' \in {Outdated, SessionsOff, SignedOut, [t \in Tabs |-> NoTab]}
              => tab' \in [Tabs -> TabRow]
         /\ \A t \in Tabs :
              /\ Leaves(t) => tab' \in [Tabs -> TabRow]
              /\ tab' = [Outdated EXCEPT ![t] = NoTab] => tab' \in [Tabs -> TabRow]
              /\ tab' = [Outdated EXCEPT ![t].at = "exported"] => tab' \in [Tabs -> TabRow]
              /\ \A at \in {"confirmed", "in", "exported", "acknowledging"} :
                   Enters(t, at) => tab' \in [Tabs -> TabRow]
<1>1. NoTab \in TabRow
  BY DEF NoTab, TabRow
<1>2. \A t \in Tabs : /\ tab[t] \in TabRow
                      /\ [tab[t] EXCEPT !.current = FALSE] \in TabRow
                      /\ \A at \in {"confirmed", "in", "exported", "acknowledging"} :
                           [tab[t] EXCEPT !.at = at] \in TabRow
  BY DEF BridgeTypes, TabRow
<1>3. Outdated \in [Tabs -> TabRow]
  BY <1>2 DEF Outdated
<1>4. SessionsOff \in [Tabs -> TabRow]
  BY <1>1, <1>2 DEF SessionsOff
<1>5. SignedOut \in [Tabs -> TabRow]
  BY <1>1, <1>3 DEF SignedOut
<1>6. \A t \in Tabs : [Outdated EXCEPT ![t].at = "exported"] \in [Tabs -> TabRow]
  <2> TAKE t \in Tabs
  <2>1. [Outdated[t] EXCEPT !.at = "exported"] \in TabRow
    BY <1>3 DEF TabRow
  <2> QED
    BY <2>1, <1>3
<1>7. ASSUME NEW t \in Tabs, NEW at \in {"confirmed", "in", "exported", "acknowledging"},
             Enters(t, at)
      PROVE  tab' \in [Tabs -> TabRow]
  BY <1>2, <1>7 DEF Enters, BridgeTypes
<1>8. ASSUME NEW t \in Tabs, Leaves(t) PROVE tab' \in [Tabs -> TabRow]
  BY <1>1, <1>8 DEF Leaves, BridgeTypes
<1> QED
  BY <1>1, <1>3, <1>4, <1>5, <1>6, <1>7, <1>8

LEMMA ClientTypesKept == PcTypeOK /\ [Next]_pcvars => ClientTypes'
<1> SUFFICES ASSUME PcTypeOK, [Next]_pcvars PROVE ClientTypes'
  OBVIOUS
<1> USE PcClientAssumption, TypeParts
    DEF ClientTypes, States, pcvars, clientVars, bridgeVars, otherVars, hostVars, history
<1>StageCard. ASSUME NEW c \in Cards, StageCard(c) PROVE ClientTypes'
  BY <1>StageCard DEF StageCard, DropLink
<1>Scan. CASE Scan
  BY <1>Scan, SMTT(20) DEF Scan, DropLink
<1>Connect. CASE Connect
  <2>1. mem.paired \in Requests \cup {None}
    BY TypeParts DEF ClientTypes, States
  <2>2. [usable |-> TRUE, auth |-> mem.paired] \in [usable : BOOLEAN, auth : Requests \cup {None}]
    BY <2>1
  <2> QED
    BY <1>Connect, <2>2 DEF Connect
<1>Disconnect. CASE Disconnect
  BY <1>Disconnect DEF Disconnect
<1>Commission. ASSUME NEW r \in Requests, Commission(r) PROVE ClientTypes'
  BY <1>Commission DEF Commission, SaveFails
<1>RetryCommission. CASE RetryCommission
  BY <1>RetryCommission DEF RetryCommission
<1>OutcomeUnknown. CASE OutcomeUnknown
  BY <1>OutcomeUnknown DEF OutcomeUnknown, DropLink
<1>Refused. CASE Refused
  BY <1>Refused DEF Refused, SaveFails, SaveThenAssign, DropLink
<1>Complete. CASE Complete
  BY <1>Complete DEF Complete, SaveFails, SaveThenAssign, Paired
<1>Authenticate. CASE Authenticate
  BY <1>Authenticate DEF Authenticate, DropLink, Connected
<1>Forget. CASE Forget
  BY <1>Forget DEF Forget, SaveFails, SaveThenAssign, EmptyState
<1>Snapshot. ASSUME NEW t \in Tabs, Snapshot(t) PROVE ClientTypes'
  BY <1>Snapshot DEF Snapshot
<1>Login. ASSUME NEW t \in Tabs, Login(t) PROVE ClientTypes'
  BY <1>Login DEF Login, NotCarried, Carried, Connected
<1>Register. ASSUME NEW t \in Tabs, Register(t) PROVE ClientTypes'
  BY <1>Register DEF Register
<1>Proxy. ASSUME NEW t \in Tabs, Proxy(t) PROVE ClientTypes'
  BY <1>Proxy DEF Proxy, NotCarried, Carried, Connected
<1>Logout. ASSUME NEW t \in Tabs, Logout(t) PROVE ClientTypes'
  BY <1>Logout DEF Logout
<1>Export. ASSUME NEW t \in Tabs, Export(t) PROVE ClientTypes'
  BY <1>Export DEF Export, NotCarried, Carried, Connected
<1>MarkDownloaded. ASSUME NEW t \in Tabs, MarkDownloaded(t) PROVE ClientTypes'
  BY <1>MarkDownloaded DEF MarkDownloaded
<1>AskToAcknowledge. ASSUME NEW t \in Tabs, AskToAcknowledge(t) PROVE ClientTypes'
  BY <1>AskToAcknowledge DEF AskToAcknowledge
<1>Acknowledge. ASSUME NEW t \in Tabs, Acknowledge(t) PROVE ClientTypes'
  BY <1>Acknowledge DEF Acknowledge, SaveFails
<1>LinkLost. CASE LinkLost
  BY <1>LinkLost DEF LinkLost
<1>Restart. CASE Restart
  BY <1>Restart DEF Restart, EmptyState
<1>Handle. ASSUME NEW r \in Requests, Handle(r) PROVE ClientTypes'
  BY <1>Handle DEF Handle
<1>LoseRequest. ASSUME NEW r \in Requests, LoseRequest(r) PROVE ClientTypes'
  BY <1>LoseRequest DEF LoseRequest
<1>Product. CASE Product
  BY <1>Product DEF Product
<1>Stutter. CASE UNCHANGED pcvars
  BY <1>Stutter
<1> QED
  BY <1>StageCard, <1>Scan, <1>Connect, <1>Disconnect, <1>Commission,
     <1>RetryCommission, <1>OutcomeUnknown, <1>Refused, <1>Complete, <1>Authenticate,
     <1>Forget, <1>Snapshot, <1>Login, <1>Register, <1>Proxy, <1>Logout, <1>Export,
     <1>MarkDownloaded, <1>AskToAcknowledge, <1>Acknowledge, <1>LinkLost, <1>Restart,
     <1>Handle, <1>LoseRequest, <1>Product, <1>Stutter
     DEF Next, Setup, Browser

LEMMA BridgeTypesKept == PcTypeOK /\ [Next]_pcvars => BridgeTypes'
<1> SUFFICES ASSUME PcTypeOK, [Next]_pcvars PROVE BridgeTypes'
  OBVIOUS
<1> USE PcClientAssumption, TypeParts
    DEF BridgeTypes, pcvars, clientVars, bridgeVars, otherVars, hostVars, history
<1>StageCard. ASSUME NEW c \in Cards, StageCard(c) PROVE BridgeTypes'
  BY <1>StageCard, ThreadTypes DEF StageCard, DropLink
<1>Scan. CASE Scan
  BY <1>Scan, ThreadTypes DEF Scan, DropLink
<1>Connect. CASE Connect
  BY <1>Connect, ThreadTypes DEF Connect
<1>Disconnect. CASE Disconnect
  BY <1>Disconnect, ThreadTypes DEF Disconnect
<1>Commission. ASSUME NEW r \in Requests, Commission(r) PROVE BridgeTypes'
  BY <1>Commission DEF Commission
<1>RetryCommission. CASE RetryCommission
  BY <1>RetryCommission DEF RetryCommission
<1>OutcomeUnknown. CASE OutcomeUnknown
  BY <1>OutcomeUnknown, ThreadTypes DEF OutcomeUnknown, DropLink
<1>Refused. CASE Refused
  BY <1>Refused, ThreadTypes DEF Refused, DropLink
<1>Complete. CASE Complete
  BY <1>Complete DEF Complete
<1>Authenticate. CASE Authenticate
  BY <1>Authenticate, ThreadTypes DEF Authenticate, DropLink
<1>Forget. CASE Forget
  BY <1>Forget, ThreadTypes DEF Forget
<1>Snapshot. ASSUME NEW t \in Tabs, Snapshot(t) PROVE BridgeTypes'
  <2>1. [at |-> "asked", generation |-> mem.generation, current |-> TRUE, of |-> mem.paired]
          \in TabRow
    BY DEF ClientTypes, States, TabRow
  <2> QED
    BY <1>Snapshot, <2>1 DEF Snapshot
<1>Login. ASSUME NEW t \in Tabs, Login(t) PROVE BridgeTypes'
  BY <1>Login, ThreadTypes DEF Login, NotCarried
<1>Register. ASSUME NEW t \in Tabs, Register(t) PROVE BridgeTypes'
  BY <1>Register, ThreadTypes DEF Register
<1>Proxy. ASSUME NEW t \in Tabs, Proxy(t) PROVE BridgeTypes'
  BY <1>Proxy, ThreadTypes DEF Proxy, NotCarried
<1>Logout. ASSUME NEW t \in Tabs, Logout(t) PROVE BridgeTypes'
  BY <1>Logout, ThreadTypes DEF Logout
<1>Export. ASSUME NEW t \in Tabs, Export(t) PROVE BridgeTypes'
  <2>1. mem.card # None => mem.card \in Requests
    BY DEF ClientTypes, States
  <2>2. exported' \subseteq Requests
    <3>1. CASE exported' = exported
      BY <3>1
    <3>2. CASE mem.card # None /\ exported' = exported \cup {mem.card}
      BY <2>1, <3>2
    <3> QED
      BY <1>Export, <3>1, <3>2 DEF Export
  <2> QED
    BY <1>Export, <2>2, ThreadTypes DEF Export, NotCarried
<1>MarkDownloaded. ASSUME NEW t \in Tabs, MarkDownloaded(t) PROVE BridgeTypes'
  <2>1. tab[t].generation \in Nat
    BY DEF TabRow
  <2> QED
    BY <1>MarkDownloaded, <2>1, ThreadTypes DEF MarkDownloaded
<1>AskToAcknowledge. ASSUME NEW t \in Tabs, AskToAcknowledge(t) PROVE BridgeTypes'
  BY <1>AskToAcknowledge, ThreadTypes DEF AskToAcknowledge
<1>Acknowledge. ASSUME NEW t \in Tabs, Acknowledge(t) PROVE BridgeTypes'
  BY <1>Acknowledge, ThreadTypes DEF Acknowledge
<1>LinkLost. CASE LinkLost
  BY <1>LinkLost DEF LinkLost
<1>Restart. CASE Restart
  BY <1>Restart, ThreadTypes DEF Restart
<1>Handle. ASSUME NEW r \in Requests, Handle(r) PROVE BridgeTypes'
  BY <1>Handle DEF Handle
<1>LoseRequest. ASSUME NEW r \in Requests, LoseRequest(r) PROVE BridgeTypes'
  BY <1>LoseRequest DEF LoseRequest
<1>Product. CASE Product
  BY <1>Product DEF Product
<1>Stutter. CASE UNCHANGED pcvars
  BY <1>Stutter
<1> QED
  BY <1>StageCard, <1>Scan, <1>Connect, <1>Disconnect, <1>Commission,
     <1>RetryCommission, <1>OutcomeUnknown, <1>Refused, <1>Complete, <1>Authenticate,
     <1>Forget, <1>Snapshot, <1>Login, <1>Register, <1>Proxy, <1>Logout, <1>Export,
     <1>MarkDownloaded, <1>AskToAcknowledge, <1>Acknowledge, <1>LinkLost, <1>Restart,
     <1>Handle, <1>LoseRequest, <1>Product, <1>Stutter
     DEF Next, Setup, Browser

-----------------------------------------------------------------------------
(* Most steps of the browser and of the connection leave what is saved, sent *)
(* and accepted as it is.                                                    *)

Quiet == UNCHANGED <<mem, disk, step, exported, otherVars>>

Loud ==
    \/ RetryCommission \/ OutcomeUnknown \/ Refused \/ Complete \/ Authenticate
    \/ Forget \/ Restart \/ Product
    \/ \E r \in Requests : Commission(r) \/ Handle(r) \/ LoseRequest(r)
    \/ \E t \in Tabs : Export(t) \/ Acknowledge(t)

LEMMA QuietOrNot == [Next]_pcvars => Quiet \/ Loud
<1> SUFFICES ASSUME [Next]_pcvars PROVE Quiet \/ Loud
  OBVIOUS
<1>StageCard. ASSUME NEW c \in Cards, StageCard(c) PROVE Quiet \/ Loud
  BY <1>StageCard DEF StageCard, Quiet
<1>Scan. CASE Scan
  BY <1>Scan DEF Scan, Quiet
<1>Connect. CASE Connect
  BY <1>Connect DEF Connect, Quiet, pcvars, clientVars, bridgeVars
<1>Disconnect. CASE Disconnect
  BY <1>Disconnect DEF Disconnect, Quiet, pcvars, clientVars, bridgeVars
<1>Commission. ASSUME NEW r \in Requests, Commission(r) PROVE Quiet \/ Loud
  BY <1>Commission DEF Loud
<1>RetryCommission. CASE RetryCommission
  BY <1>RetryCommission DEF Loud
<1>OutcomeUnknown. CASE OutcomeUnknown
  BY <1>OutcomeUnknown DEF Loud
<1>Refused. CASE Refused
  BY <1>Refused DEF Loud
<1>Complete. CASE Complete
  BY <1>Complete DEF Loud
<1>Authenticate. CASE Authenticate
  BY <1>Authenticate DEF Loud
<1>Forget. CASE Forget
  BY <1>Forget DEF Loud
<1>Snapshot. ASSUME NEW t \in Tabs, Snapshot(t) PROVE Quiet \/ Loud
  BY <1>Snapshot DEF Snapshot, Quiet, pcvars, clientVars, bridgeVars
<1>Login. ASSUME NEW t \in Tabs, Login(t) PROVE Quiet \/ Loud
  BY <1>Login DEF Login, Quiet, pcvars, clientVars, bridgeVars
<1>Register. ASSUME NEW t \in Tabs, Register(t) PROVE Quiet \/ Loud
  BY <1>Register DEF Register, Quiet, pcvars, clientVars, bridgeVars
<1>Proxy. ASSUME NEW t \in Tabs, Proxy(t) PROVE Quiet \/ Loud
  BY <1>Proxy DEF Proxy, Quiet, pcvars, clientVars, bridgeVars
<1>Logout. ASSUME NEW t \in Tabs, Logout(t) PROVE Quiet \/ Loud
  BY <1>Logout DEF Logout, Quiet, pcvars, clientVars, bridgeVars
<1>Export. ASSUME NEW t \in Tabs, Export(t) PROVE Quiet \/ Loud
  BY <1>Export DEF Loud
<1>MarkDownloaded. ASSUME NEW t \in Tabs, MarkDownloaded(t) PROVE Quiet \/ Loud
  BY <1>MarkDownloaded DEF MarkDownloaded, Quiet, pcvars, clientVars, bridgeVars
<1>AskToAcknowledge. ASSUME NEW t \in Tabs, AskToAcknowledge(t) PROVE Quiet \/ Loud
  BY <1>AskToAcknowledge DEF AskToAcknowledge, Quiet, pcvars, clientVars, bridgeVars
<1>Acknowledge. ASSUME NEW t \in Tabs, Acknowledge(t) PROVE Quiet \/ Loud
  BY <1>Acknowledge DEF Loud
<1>LinkLost. CASE LinkLost
  BY <1>LinkLost DEF LinkLost, Quiet, pcvars, clientVars, bridgeVars
<1>Restart. CASE Restart
  BY <1>Restart DEF Loud
<1>Handle. ASSUME NEW r \in Requests, Handle(r) PROVE Quiet \/ Loud
  BY <1>Handle DEF Loud
<1>LoseRequest. ASSUME NEW r \in Requests, LoseRequest(r) PROVE Quiet \/ Loud
  BY <1>LoseRequest DEF Loud
<1>Product. CASE Product
  BY <1>Product DEF Loud
<1>Stutter. CASE UNCHANGED pcvars
  BY <1>Stutter DEF Quiet, pcvars, clientVars, bridgeVars
<1> QED
  BY <1>StageCard, <1>Scan, <1>Connect, <1>Disconnect, <1>Commission,
     <1>RetryCommission, <1>OutcomeUnknown, <1>Refused, <1>Complete, <1>Authenticate,
     <1>Forget, <1>Snapshot, <1>Login, <1>Register, <1>Proxy, <1>Logout, <1>Export,
     <1>MarkDownloaded, <1>AskToAcknowledge, <1>Acknowledge, <1>LinkLost, <1>Restart,
     <1>Handle, <1>LoseRequest, <1>Product, <1>Stutter
     DEF Next, Setup, Browser

LEMMA NextSecretFits ==
  ASSUME IsFiniteSet(host.issued)
  PROVE  NextSecret \in Nat \ {0}
BY FS_CardinalityType DEF NextSecret

LEMMA CardsFit ==
  ASSUME NEW n \in 1..MaxSecrets
  PROVE  Activation(n) \in Cards /\ Invitation(n) \in Cards
BY DEF Activation, Invitation, Cards

LEMMA HostTypesKept ==
  ASSUME PcTypeOK, IsFiniteSet(host.issued), [Next]_pcvars
  PROVE  HostTypes'
<1> USE PcClientAssumption, TypeParts DEF HostTypes, otherVars, hostVars, history
<1>Quiet. CASE Quiet
  BY <1>Quiet DEF Quiet
<1>Commission. ASSUME NEW r \in Requests, Commission(r) PROVE HostTypes'
  BY <1>Commission DEF Commission
<1>RetryCommission. CASE RetryCommission
  BY <1>RetryCommission DEF RetryCommission
<1>OutcomeUnknown. CASE OutcomeUnknown
  BY <1>OutcomeUnknown DEF OutcomeUnknown
<1>Refused. CASE Refused
  BY <1>Refused DEF Refused
<1>Complete. CASE Complete
  BY <1>Complete DEF Complete
<1>Authenticate. CASE Authenticate
  BY <1>Authenticate DEF Authenticate
<1>Forget. CASE Forget
  BY <1>Forget DEF Forget
<1>Export. ASSUME NEW t \in Tabs, Export(t) PROVE HostTypes'
  BY <1>Export DEF Export
<1>Acknowledge. ASSUME NEW t \in Tabs, Acknowledge(t) PROVE HostTypes'
  BY <1>Acknowledge DEF Acknowledge
<1>Restart. CASE Restart
  BY <1>Restart DEF Restart
<1>Handle. ASSUME NEW r \in Requests, Handle(r) PROVE HostTypes'
  <2>1. CASE UNCHANGED hostVars
    BY <2>1
  <2>2. CASE Grants(r)
    <3>1. receipts' \subseteq Requests
      BY <2>2 DEF Grants
    <3>2. host' \in [recovery : Requests \cup {None, Elsewhere}, open : SUBSET Cards,
                     issued : SUBSET Cards]
      BY <2>2 DEF Grants
    <3>3. DevicesGone \in [Requests -> {"none", "active", "gone"}]
      BY DEF DevicesGone
    <3>4. device' \in [Requests -> {"none", "active", "gone"}]
      BY <2>2, <3>3 DEF Grants, WithDevice
    <3> QED
      BY <3>1, <3>2, <3>4
  <2> QED
    BY <1>Handle, <2>1, <2>2 DEF Handle, Declines
<1>LoseRequest. ASSUME NEW r \in Requests, LoseRequest(r) PROVE HostTypes'
  BY <1>LoseRequest DEF LoseRequest
<1>Product. CASE Product
  <2>1. DevicesGone \in [Requests -> {"none", "active", "gone"}]
    BY DEF DevicesGone
  <2>2. CASE Issue
    <3>1. NextSecret \in 1..MaxSecrets
      BY <2>2, NextSecretFits DEF Issue
    <3>2. Invitation(NextSecret) \in Cards
      BY <3>1, CardsFit
    <3> QED
      <4>1. /\ host.issued \cup {Invitation(NextSecret)} \in SUBSET Cards
            /\ host.open \cup {Invitation(NextSecret)} \in SUBSET Cards
        BY <3>2
      <4>2. host' = [recovery |-> host.recovery,
                     open |-> host.open \cup {Invitation(NextSecret)},
                     issued |-> host.issued \cup {Invitation(NextSecret)}]
        BY <2>2 DEF Issue
      <4> QED
        BY <2>2, <4>1, <4>2 DEF Issue
  <2>3. CASE Withdraw
    BY <2>3 DEF Withdraw
  <2>4. CASE RevokeDevice
    BY <2>4 DEF RevokeDevice
  <2>5. CASE TakenOver
    BY <2>1, <2>5 DEF TakenOver
  <2>6. CASE Wiped
    <3>1. NextSecret \in 1..MaxSecrets
      BY <2>6, NextSecretFits DEF Wiped
    <3>2. Activation(NextSecret) \in Cards
      BY <3>1, CardsFit
    <3> QED
      BY <2>1, <2>6, <3>2 DEF Wiped
  <2> QED
    BY <1>Product, <2>2, <2>3, <2>4, <2>5, <2>6 DEF Product
<1> QED
  BY <1>Quiet, <1>Commission, <1>RetryCommission, <1>OutcomeUnknown, <1>Refused,
     <1>Complete, <1>Authenticate, <1>Forget, <1>Export, <1>Acknowledge, <1>Restart,
     <1>Handle, <1>LoseRequest, <1>Product, QuietOrNot
     DEF Loud

-----------------------------------------------------------------------------
(* What is saved *)

LEMMA PendingUndone ==
  ASSUME NEW s \in States, s.pending = None, NEW r \in Requests
  PROVE  LET asked == [s EXCEPT !.pending = r]
         IN  asked.pending = r /\ [asked EXCEPT !.pending = None] = s
BY DEF States

LEMMA SavedStateKept ==
  ASSUME IInv, [Next]_pcvars
  PROVE  SavedState'
<1> USE PcClientAssumption, TypeParts
    DEF IInv, ClientTypes, BridgeTypes, States, SavedState, FileFollows, Legal
<1>Quiet. CASE Quiet
  BY <1>Quiet DEF Quiet
<1>Commission. ASSUME NEW r \in Requests, Commission(r) PROVE SavedState'
  <2>1. mem' = [mem EXCEPT !.pending = r] /\ disk' \in {disk, mem'} /\ exported' = exported
    BY <1>Commission DEF Commission, SaveFails, bridgeVars
  <2>2. mem.paired = None /\ mem.pending = None /\ mem.card = None
    BY <1>Commission DEF Commission
  <2>3. disk = mem
    BY <2>2
  <2>4. disk = [mem' EXCEPT !.pending = None] /\ mem'.pending = r
    BY <2>1, <2>2, <2>3, PendingUndone
  <2>5. r # None
    BY PcClientAssumption
  <2> QED
    BY <2>1, <2>2, <2>3, <2>4, <2>5
<1>RetryCommission. CASE RetryCommission
  BY <1>RetryCommission DEF RetryCommission, bridgeVars
<1>OutcomeUnknown. CASE OutcomeUnknown
  BY <1>OutcomeUnknown DEF OutcomeUnknown
<1>Refused. CASE Refused
  BY <1>Refused DEF Refused, SaveFails, SaveThenAssign
<1>Complete. CASE Complete
  BY <1>Complete DEF Complete, SaveFails, SaveThenAssign, Paired, Secretive, Ordered,
                        Stages, bridgeVars
<1>Authenticate. CASE Authenticate
  BY <1>Authenticate DEF Authenticate
<1>Forget. CASE Forget
  BY <1>Forget DEF Forget, SaveFails, SaveThenAssign, EmptyState
<1>Export. ASSUME NEW t \in Tabs, Export(t) PROVE SavedState'
  BY <1>Export DEF Export
<1>Acknowledge. ASSUME NEW t \in Tabs, Acknowledge(t) PROVE SavedState'
  <2>1. CASE ~SamePairing(t) \/ mem.card = None
    <3>1. mem' = mem /\ disk' = disk
      BY <1>Acknowledge, <2>1 DEF Acknowledge, SaveFails
    <3> QED
      BY <1>Acknowledge, <3>1 DEF Acknowledge
  <2>2. CASE SamePairing(t) /\ mem.card # None
    <3>1. mem.paired # None /\ mem.pending = None /\ disk = mem
      BY <2>2 DEF SamePairing
    <3>2. mem.card \in exported
      BY <1>Acknowledge, <2>2 DEF Acknowledge, SamePairing, ThreadsKnow, ThreadKnows
    <3>3. mem' = [mem EXCEPT !.card = None] /\ disk' \in {disk, mem'}
      BY <1>Acknowledge, <2>2 DEF Acknowledge, SaveFails
    <3>4. exported' = exported
      BY <1>Acknowledge DEF Acknowledge
    <3> QED
      BY <3>1, <3>2, <3>3, <3>4
  <2> QED
    BY <2>1, <2>2
<1>Restart. CASE Restart
  BY <1>Restart DEF Restart
<1>Handle. ASSUME NEW r \in Requests, Handle(r) PROVE SavedState'
  BY <1>Handle DEF Handle, bridgeVars
<1>LoseRequest. ASSUME NEW r \in Requests, LoseRequest(r) PROVE SavedState'
  BY <1>LoseRequest DEF LoseRequest, clientVars, bridgeVars
<1>Product. CASE Product
  BY <1>Product DEF Product, clientVars, bridgeVars
<1> QED
  BY <1>Quiet, <1>Commission, <1>RetryCommission, <1>OutcomeUnknown, <1>Refused,
     <1>Complete, <1>Authenticate, <1>Forget, <1>Export, <1>Acknowledge, <1>Restart,
     <1>Handle, <1>LoseRequest, <1>Product, QuietOrNot
     DEF Loud

LEMMA LinkFitsKept ==
  ASSUME IInv, [Next]_pcvars
  PROVE  LinkFits'
<1> USE PcClientAssumption, TypeParts DEF IInv, ClientTypes, States, LinkFits
<1>StageCard. ASSUME NEW c \in Cards, StageCard(c) PROVE LinkFits'
  BY <1>StageCard DEF StageCard, DropLink
<1>Scan. CASE Scan
  BY <1>Scan DEF Scan, DropLink
<1>Connect. CASE Connect
  BY <1>Connect DEF Connect, clientVars, bridgeVars
<1>Disconnect. CASE Disconnect
  BY <1>Disconnect DEF Disconnect, clientVars, bridgeVars
<1>Commission. ASSUME NEW r \in Requests, Commission(r) PROVE LinkFits'
  BY <1>Commission DEF Commission, clientVars, bridgeVars
<1>RetryCommission. CASE RetryCommission
  BY <1>RetryCommission DEF RetryCommission, clientVars, bridgeVars
<1>OutcomeUnknown. CASE OutcomeUnknown
  BY <1>OutcomeUnknown DEF OutcomeUnknown, DropLink
<1>Refused. CASE Refused
  BY <1>Refused DEF Refused, SaveThenAssign, DropLink
<1>Complete. CASE Complete
  <2>1. mem.pending # None /\ mem.paired = None
    BY <1>Complete DEF Complete, Ordered, Stages, SavedState, Legal
  <2> QED
    BY <1>Complete, <2>1 DEF Complete, bridgeVars
<1>Authenticate. CASE Authenticate
  BY <1>Authenticate DEF Authenticate, DropLink, Connected
<1>Forget. CASE Forget
  BY <1>Forget DEF Forget
<1>Snapshot. ASSUME NEW t \in Tabs, Snapshot(t) PROVE LinkFits'
  BY <1>Snapshot DEF Snapshot, clientVars, bridgeVars
<1>Login. ASSUME NEW t \in Tabs, Login(t) PROVE LinkFits'
  BY <1>Login DEF Login, NotCarried, Carried, Connected
<1>Register. ASSUME NEW t \in Tabs, Register(t) PROVE LinkFits'
  BY <1>Register DEF Register, clientVars, bridgeVars
<1>Proxy. ASSUME NEW t \in Tabs, Proxy(t) PROVE LinkFits'
  BY <1>Proxy DEF Proxy, NotCarried, Carried, Connected
<1>Logout. ASSUME NEW t \in Tabs, Logout(t) PROVE LinkFits'
  BY <1>Logout DEF Logout, clientVars, bridgeVars
<1>Export. ASSUME NEW t \in Tabs, Export(t) PROVE LinkFits'
  BY <1>Export DEF Export, NotCarried, Carried, Connected
<1>MarkDownloaded. ASSUME NEW t \in Tabs, MarkDownloaded(t) PROVE LinkFits'
  BY <1>MarkDownloaded DEF MarkDownloaded, clientVars, bridgeVars
<1>AskToAcknowledge. ASSUME NEW t \in Tabs, AskToAcknowledge(t) PROVE LinkFits'
  BY <1>AskToAcknowledge DEF AskToAcknowledge, clientVars, bridgeVars
<1>Acknowledge. ASSUME NEW t \in Tabs, Acknowledge(t) PROVE LinkFits'
  BY <1>Acknowledge DEF Acknowledge, clientVars, bridgeVars
<1>LinkLost. CASE LinkLost
  BY <1>LinkLost DEF LinkLost
<1>Restart. CASE Restart
  BY <1>Restart DEF Restart, clientVars, bridgeVars
<1>Handle. ASSUME NEW r \in Requests, Handle(r) PROVE LinkFits'
  BY <1>Handle DEF Handle, clientVars, bridgeVars
<1>LoseRequest. ASSUME NEW r \in Requests, LoseRequest(r) PROVE LinkFits'
  BY <1>LoseRequest DEF LoseRequest, clientVars, bridgeVars
<1>Product. CASE Product
  BY <1>Product DEF Product, clientVars, bridgeVars
<1>Stutter. CASE UNCHANGED pcvars
  BY <1>Stutter DEF pcvars, clientVars
<1> QED
  BY <1>StageCard, <1>Scan, <1>Connect, <1>Disconnect, <1>Commission,
     <1>RetryCommission, <1>OutcomeUnknown, <1>Refused, <1>Complete, <1>Authenticate,
     <1>Forget, <1>Snapshot, <1>Login, <1>Register, <1>Proxy, <1>Logout, <1>Export,
     <1>MarkDownloaded, <1>AskToAcknowledge, <1>Acknowledge, <1>LinkLost, <1>Restart,
     <1>Handle, <1>LoseRequest, <1>Product, <1>Stutter
     DEF Next, Setup, Browser

-----------------------------------------------------------------------------
(* What the browser's threads know *)

SameOrGone(q) ==
    \/ tab'[q] = NoTab
    \/ /\ tab'[q].at = tab[q].at /\ tab'[q].generation = tab[q].generation
       /\ tab'[q].of = tab[q].of

LEMMA ThreadsLeave ==
  ASSUME BridgeTypes, NEW q \in Tabs
  PROVE  /\ tab' \in {tab, Outdated, SessionsOff, SignedOut, [t \in Tabs |-> NoTab]}
              => SameOrGone(q)
         /\ \A t \in Tabs : Leaves(t) \/ tab' = [Outdated EXCEPT ![t] = NoTab]
              => SameOrGone(q)
         /\ \A t \in Tabs, at \in {"confirmed", "in", "exported", "acknowledging"} :
              Enters(t, at) \/ tab' = [Outdated EXCEPT ![t].at = at] =>
                /\ q # t => SameOrGone(q)
                /\ q = t => /\ tab'[q].at = at /\ tab'[q].of = tab[q].of
                            /\ tab'[q].generation = tab[q].generation
<1>1. tab[q] \in TabRow /\ [tab[q] EXCEPT !.current = FALSE] \in TabRow
  BY DEF BridgeTypes, TabRow
<1>2. Outdated[q] = [tab[q] EXCEPT !.current = FALSE]
  BY DEF Outdated
<1>3. tab' = Outdated => SameOrGone(q)
  BY <1>1, <1>2 DEF SameOrGone, TabRow
<1>4. tab' \in {tab, SessionsOff, SignedOut, [t \in Tabs |-> NoTab]} => SameOrGone(q)
  BY <1>1, <1>2 DEF SameOrGone, TabRow, SessionsOff, SignedOut
<1>5. ASSUME NEW t \in Tabs, Leaves(t) PROVE SameOrGone(q)
  BY <1>5 DEF Leaves, SameOrGone, BridgeTypes
<1>6. ASSUME NEW t \in Tabs, tab' = [Outdated EXCEPT ![t] = NoTab] PROVE SameOrGone(q)
  <2>1. tab'[q] = IF q = t THEN NoTab ELSE Outdated[q]
    BY <1>6 DEF Outdated
  <2> QED
    BY <2>1, <1>1, <1>2 DEF SameOrGone, TabRow
<1>7. ASSUME NEW t \in Tabs, NEW at \in {"confirmed", "in", "exported", "acknowledging"},
             Enters(t, at) \/ tab' = [Outdated EXCEPT ![t].at = at]
      PROVE  /\ q # t => SameOrGone(q)
             /\ q = t => /\ tab'[q].at = at /\ tab'[q].of = tab[q].of
                         /\ tab'[q].generation = tab[q].generation
  <2>1. CASE Enters(t, at)
    <3>1. tab'[q] = IF q = t THEN [tab[q] EXCEPT !.at = at] ELSE tab[q]
      BY <2>1 DEF Enters, BridgeTypes
    <3> QED
      BY <3>1, <1>1 DEF SameOrGone, TabRow
  <2>2. CASE tab' = [Outdated EXCEPT ![t].at = at]
    <3>1. tab'[q] = IF q = t THEN [Outdated[q] EXCEPT !.at = at] ELSE Outdated[q]
      BY <2>2 DEF Outdated
    <3> QED
      BY <3>1, <1>1, <1>2 DEF SameOrGone, TabRow
  <2> QED
    BY <1>7, <2>1, <2>2
<1> QED
  BY <1>3, <1>4, <1>5, <1>6, <1>7

LEMMA StillKnow ==
  ASSUME PcTypeOK, SavedState, NEW q \in Tabs, ThreadKnows(q), SameOrGone(q),
         exported \subseteq exported', downloaded'[q] \in {downloaded[q], 0},
         mem'.generation = mem.generation, mem'.paired = mem.paired,
         mem'.card \in {mem.card, None} \cup exported'
  PROVE  ThreadKnows(q)'
<1>1. mem.generation \in Nat /\ tab[q].generation \in Nat /\ downloaded[q] \in Nat
  BY TypeParts DEF ClientTypes, BridgeTypes, States, TabRow
<1>2. mem.generation = 0 => mem.card = None
  BY <1>1 DEF SavedState, Legal
<1>3. NoTab.at = "none" /\ NoTab.generation = 0
  BY DEF NoTab
<1>4. mem.card \in exported \cup {None} => mem'.card \in exported' \cup {None}
  OBVIOUS
<1>5. CASE tab'[q] = NoTab
  BY <1>1, <1>2, <1>3, <1>4, <1>5 DEF ThreadKnows
<1>6. CASE /\ tab'[q].at = tab[q].at /\ tab'[q].generation = tab[q].generation
           /\ tab'[q].of = tab[q].of
  BY <1>1, <1>2, <1>4, <1>6 DEF ThreadKnows
<1> QED
  BY <1>5, <1>6 DEF SameOrGone

LEMMA NewGeneration ==
  ASSUME PcTypeOK, NEW q \in Tabs, ThreadKnows(q), SameOrGone(q),
         downloaded'[q] \in {downloaded[q], 0}, mem'.generation = mem.generation + 1
  PROVE  ThreadKnows(q)'
<1>1. mem.generation \in Nat /\ tab[q].generation \in Nat /\ downloaded[q] \in Nat
  BY TypeParts DEF ClientTypes, BridgeTypes, States, TabRow
<1>2. NoTab.at = "none" /\ NoTab.generation = 0
  BY DEF NoTab
<1> QED
  BY <1>1, <1>2 DEF ThreadKnows, SameOrGone

LEMMA ThreadsKnowKept ==
  ASSUME IInv, [Next]_pcvars
  PROVE  ThreadsKnow'
<1> SUFFICES ASSUME NEW q \in Tabs PROVE ThreadKnows(q)'
  BY DEF ThreadsKnow
<1>1. /\ ClientTypes /\ BridgeTypes /\ PcTypeOK /\ SavedState /\ ThreadKnows(q)
  BY TypeParts DEF IInv, ThreadsKnow
<1> USE <1>1
<1>StageCard. ASSUME NEW c \in Cards, StageCard(c) PROVE ThreadKnows(q)'
  BY <1>StageCard, ThreadsLeave, StillKnow DEF StageCard, DropLink
<1>Scan. CASE Scan
  BY <1>Scan, ThreadsLeave, StillKnow DEF Scan, DropLink
<1>Connect. CASE Connect
  BY <1>Connect, ThreadsLeave, StillKnow DEF Connect
<1>Disconnect. CASE Disconnect
  BY <1>Disconnect, ThreadsLeave, StillKnow DEF Disconnect
<1>Commission. ASSUME NEW r \in Requests, Commission(r) PROVE ThreadKnows(q)'
  BY <1>Commission, ThreadsLeave, StillKnow DEF Commission, bridgeVars
<1>RetryCommission. CASE RetryCommission
  BY <1>RetryCommission, ThreadsLeave, StillKnow DEF RetryCommission, bridgeVars
<1>OutcomeUnknown. CASE OutcomeUnknown
  BY <1>OutcomeUnknown, ThreadsLeave, StillKnow DEF OutcomeUnknown, DropLink
<1>Refused. CASE Refused
  <2>1. tab' \in {tab, Outdated} /\ downloaded' = downloaded /\ exported' = exported
    BY <1>Refused DEF Refused, DropLink
  <2>2. /\ mem'.generation = mem.generation /\ mem'.paired = mem.paired
        /\ mem'.card = mem.card
    BY <1>Refused DEF Refused, SaveThenAssign, ClientTypes, States
  <2> QED
    BY <2>1, <2>2, ThreadsLeave, StillKnow
<1>Complete. CASE Complete
  <2>1. tab' = tab /\ downloaded' = downloaded /\ exported' = exported
    BY <1>Complete DEF Complete, bridgeVars
  <2>2. mem' = mem \/ mem'.generation = mem.generation + 1
    BY <1>Complete DEF Complete, SaveThenAssign, Paired
  <2> QED
    BY <2>1, <2>2, ThreadsLeave, StillKnow, NewGeneration
<1>Authenticate. CASE Authenticate
  BY <1>Authenticate, ThreadsLeave, StillKnow DEF Authenticate, DropLink
<1>Forget. CASE Forget
  <2>1. /\ tab' \in {tab, SignedOut} /\ exported' = exported
        /\ downloaded'[q] \in {downloaded[q], 0}
    BY <1>Forget DEF Forget
  <2>2. mem' = mem \/ mem'.generation = mem.generation + 1
    BY <1>Forget DEF Forget, SaveThenAssign, EmptyState
  <2> QED
    BY <2>1, <2>2, ThreadsLeave, StillKnow, NewGeneration
<1>Snapshot. ASSUME NEW t \in Tabs, Snapshot(t) PROVE ThreadKnows(q)'
  <2>1. CASE q # t
    BY <1>Snapshot, <2>1, StillKnow DEF Snapshot, SameOrGone, clientVars, BridgeTypes
  <2>2. CASE q = t
    BY <1>Snapshot, <2>2 DEF Snapshot, ThreadKnows, clientVars, BridgeTypes, ClientTypes, States
  <2> QED
    BY <2>1, <2>2
<1>Login. ASSUME NEW t \in Tabs, Login(t) PROVE ThreadKnows(q)'
  <2>1. /\ mem' = mem /\ exported' = exported /\ downloaded' = downloaded
        /\ SameOrGone(q) \/ (q = t /\ Enters(t, "confirmed"))
    BY <1>Login, ThreadsLeave DEF Login, NotCarried, clientVars
  <2>2. CASE SameOrGone(q)
    BY <2>1, <2>2, StillKnow
  <2>3. CASE q = t /\ Enters(t, "confirmed")
    <3>1. /\ tab'[q].at = "confirmed" /\ tab'[q].of = tab[q].of
          /\ tab'[q].generation = tab[q].generation /\ tab[q].at # "none"
      BY <1>Login, <2>3, ThreadsLeave DEF Login
    <3> QED
      BY <2>1, <3>1 DEF ThreadKnows
  <2> QED
    BY <2>1, <2>2, <2>3
<1>Register. ASSUME NEW t \in Tabs, Register(t) PROVE ThreadKnows(q)'
  <2>1. /\ mem' = mem /\ exported' = exported /\ downloaded' = downloaded
        /\ SameOrGone(q) \/ (q = t /\ Enters(t, "in"))
    BY <1>Register, ThreadsLeave DEF Register, clientVars
  <2>2. CASE SameOrGone(q)
    BY <2>1, <2>2, StillKnow
  <2>3. CASE q = t /\ Enters(t, "in")
    <3>1. /\ tab'[q].at = "in" /\ tab'[q].of = tab[q].of
          /\ tab'[q].generation = tab[q].generation /\ tab[q].at # "none"
      BY <1>Register, <2>3, ThreadsLeave DEF Register
    <3> QED
      BY <2>1, <3>1 DEF ThreadKnows
  <2> QED
    BY <2>1, <2>2, <2>3
<1>Proxy. ASSUME NEW t \in Tabs, Proxy(t) PROVE ThreadKnows(q)'
  BY <1>Proxy, ThreadsLeave, StillKnow DEF Proxy, NotCarried
<1>Logout. ASSUME NEW t \in Tabs, Logout(t) PROVE ThreadKnows(q)'
  BY <1>Logout, ThreadsLeave, StillKnow DEF Logout, clientVars
<1>Export. ASSUME NEW t \in Tabs, Export(t) PROVE ThreadKnows(q)'
  <2>1. /\ mem' = mem /\ downloaded' = downloaded /\ exported \subseteq exported'
    BY <1>Export DEF Export
  <2>2. CASE SameOrGone(q)
    BY <2>1, <2>2, StillKnow
  <2>3. CASE ~SameOrGone(q)
    <3>1. /\ q = t /\ mem.card \in exported'
          /\ Enters(t, "exported") \/ tab' = [Outdated EXCEPT ![t].at = "exported"]
      BY <1>Export, <2>3, ThreadsLeave DEF Export, NotCarried
    <3>2. /\ tab'[q].at = "exported" /\ tab'[q].of = tab[q].of
          /\ tab'[q].generation = tab[q].generation /\ tab[q].at # "none"
      BY <1>Export, <3>1, ThreadsLeave DEF Export
    <3> QED
      BY <2>1, <3>1, <3>2 DEF ThreadKnows
  <2> QED
    BY <2>2, <2>3
<1>MarkDownloaded. ASSUME NEW t \in Tabs, MarkDownloaded(t) PROVE ThreadKnows(q)'
  <2>1. mem' = mem /\ exported' = exported /\ SameOrGone(q)
    BY <1>MarkDownloaded, ThreadsLeave DEF MarkDownloaded, clientVars
  <2>2. CASE q # t
    BY <1>MarkDownloaded, <2>1, <2>2, StillKnow DEF MarkDownloaded, BridgeTypes
  <2>3. CASE q = t
    <3>1. downloaded'[q] = tab[q].generation /\ tab[q].at = "exported" /\ tab'[q] = NoTab
      BY <1>MarkDownloaded, <2>3 DEF MarkDownloaded, Leaves, BridgeTypes
    <3>2. mem.generation \in Nat
      BY DEF ClientTypes, States
    <3> QED
      BY <2>1, <3>1, <3>2 DEF ThreadKnows, NoTab
  <2> QED
    BY <2>2, <2>3
<1>AskToAcknowledge. ASSUME NEW t \in Tabs, AskToAcknowledge(t) PROVE ThreadKnows(q)'
  <2>1. mem' = mem /\ exported' = exported /\ downloaded' = downloaded
    BY <1>AskToAcknowledge DEF AskToAcknowledge, clientVars
  <2>2. CASE SameOrGone(q)
    BY <2>1, <2>2, StillKnow
  <2>3. CASE ~SameOrGone(q)
    <3>1. /\ q = t /\ Enters(t, "acknowledging") /\ tab[q].at = "asked"
          /\ downloaded[q] = tab[q].generation
      BY <1>AskToAcknowledge, <2>3, ThreadsLeave DEF AskToAcknowledge
    <3>2. /\ tab'[q].at = "acknowledging" /\ tab'[q].of = tab[q].of
          /\ tab'[q].generation = tab[q].generation
      BY <3>1, ThreadsLeave
    <3> QED
      BY <2>1, <3>1, <3>2 DEF ThreadKnows
  <2> QED
    BY <2>2, <2>3
<1>Acknowledge. ASSUME NEW t \in Tabs, Acknowledge(t) PROVE ThreadKnows(q)'
  <2>1. /\ SameOrGone(q) /\ exported' = exported
        /\ downloaded'[q] \in {downloaded[q], 0}
    BY <1>Acknowledge, ThreadsLeave DEF Acknowledge
  <2>2. /\ mem'.generation = mem.generation /\ mem'.paired = mem.paired
        /\ mem'.card \in {mem.card, None}
    BY <1>Acknowledge DEF Acknowledge, States, ClientTypes
  <2> QED
    BY <2>1, <2>2, StillKnow
<1>LinkLost. CASE LinkLost
  BY <1>LinkLost, ThreadsLeave, StillKnow DEF LinkLost, bridgeVars
<1>Restart. CASE Restart
  <2>1. /\ mem' = disk /\ tab' = [t \in Tabs |-> NoTab]
        /\ downloaded'[q] = 0 /\ exported' = exported
    BY <1>Restart DEF Restart, SavedState
  <2>2. /\ disk.generation = mem.generation /\ disk.paired = mem.paired
        /\ disk.card \in {mem.card, None} \cup exported
    BY DEF SavedState, FileFollows, States, ClientTypes
  <2> QED
    BY <2>1, <2>2, ThreadsLeave, StillKnow
<1>Handle. ASSUME NEW r \in Requests, Handle(r) PROVE ThreadKnows(q)'
  BY <1>Handle, ThreadsLeave, StillKnow DEF Handle, bridgeVars
<1>LoseRequest. ASSUME NEW r \in Requests, LoseRequest(r) PROVE ThreadKnows(q)'
  BY <1>LoseRequest, ThreadsLeave, StillKnow DEF LoseRequest, clientVars, bridgeVars
<1>Product. CASE Product
  BY <1>Product, ThreadsLeave, StillKnow DEF Product, clientVars, bridgeVars
<1>Stutter. CASE UNCHANGED pcvars
  BY <1>Stutter, ThreadsLeave, StillKnow DEF pcvars, clientVars, bridgeVars
<1> QED
  BY <1>StageCard, <1>Scan, <1>Connect, <1>Disconnect, <1>Commission,
     <1>RetryCommission, <1>OutcomeUnknown, <1>Refused, <1>Complete, <1>Authenticate,
     <1>Forget, <1>Snapshot, <1>Login, <1>Register, <1>Proxy, <1>Logout, <1>Export,
     <1>MarkDownloaded, <1>AskToAcknowledge, <1>Acknowledge, <1>LinkLost, <1>Restart,
     <1>Handle, <1>LoseRequest, <1>Product, <1>Stutter
     DEF Next, Setup, Browser

-----------------------------------------------------------------------------
(* Cards and requests of the product *)

LEMMA NextSecretIsNew ==
  ASSUME CardsAreOnce, NEW c \in host.issued
  PROVE  c.secret # NextSecret
BY FS_CardinalityType DEF CardsAreOnce, NextSecret

LEMMA NewCards ==
  /\ Invitation(NextSecret).secret = NextSecret /\ Activation(NextSecret).secret = NextSecret
  /\ Invitation(NextSecret).purpose = "pairing_invite"
  /\ Activation(NextSecret).purpose = "activation"
BY DEF Invitation, Activation

LEMMA SecretsAreNumbers == \A c \in Cards : c.secret \in Nat
<1>1. \A c \in [purpose : {"activation", "pairing_invite"}, secret : 1..MaxSecrets] :
        c.secret \in Nat
  OBVIOUS
<1>2. \A c \in [purpose : {"recovery"}, secret : Requests \cup {Elsewhere}] : c.secret \in Nat
  <2>1. Requests \cup {Elsewhere} \subseteq Nat
    BY PcClientAssumption DEF Elsewhere
  <2> QED
    BY <2>1
<1> QED
  BY <1>1, <1>2 DEF Cards

LEMMA IssuedGrows ==
  ASSUME CardsAreOnce, host.issued \subseteq Cards, NEW c, c.secret = NextSecret,
         host'.issued = host.issued \cup {c}
  PROVE  /\ IsFiniteSet(host'.issued)
         /\ \A x \in host'.issued : x.secret <= Cardinality(host'.issued)
<1>1. c \notin host.issued
  BY NextSecretIsNew
<1>2. /\ IsFiniteSet(host.issued \cup {c})
      /\ Cardinality(host.issued \cup {c}) = Cardinality(host.issued) + 1
  BY <1>1, FS_AddElement DEF CardsAreOnce
<1>3. Cardinality(host.issued) \in Nat
  BY FS_CardinalityType DEF CardsAreOnce
<1>4. ASSUME NEW x \in host.issued PROVE x.secret <= Cardinality(host.issued) + 1
  <2>1. x.secret <= Cardinality(host.issued)
    BY DEF CardsAreOnce
  <2>2. x.secret \in Nat
    BY SecretsAreNumbers
  <2> QED
    BY <2>1, <2>2, <1>3
<1>5. c.secret <= Cardinality(host.issued) + 1
  BY <1>3 DEF NextSecret
<1>6. \A x \in host.issued \cup {c} : x.secret <= Cardinality(host.issued \cup {c})
  BY <1>2, <1>4, <1>5
<1> QED
  BY <1>2, <1>6

HostCards ==
    /\ IsFiniteSet(host.issued) /\ host.open \subseteq host.issued
    /\ \A c \in host.issued : c.secret <= Cardinality(host.issued)
    /\ \A c \in host.open : (c.purpose = "activation") = ~Claimed

SameCards == host' = host

LEMMA HostCardsKept ==
  ASSUME IInv, [Next]_pcvars
  PROVE  HostCards' /\ host.issued \subseteq host'.issued
<1>1. CardsAreOnce /\ HostTypes
  BY TypeParts DEF IInv
<1>2. SameCards => HostCards' /\ host.issued \subseteq host'.issued
  BY <1>1 DEF SameCards, CardsAreOnce, HostCards, Claimed
<1> USE <1>1, <1>2 DEF HostCards, CardsAreOnce, HostTypes
<1>Quiet. CASE Quiet
  BY <1>Quiet DEF Quiet, SameCards, otherVars, hostVars
<1>Commission. ASSUME NEW r \in Requests, Commission(r)
  PROVE  HostCards' /\ host.issued \subseteq host'.issued
  BY <1>Commission DEF Commission, SameCards, otherVars, hostVars
<1>RetryCommission. CASE RetryCommission
  BY <1>RetryCommission DEF RetryCommission, SameCards, otherVars, hostVars
<1>OutcomeUnknown. CASE OutcomeUnknown
  BY <1>OutcomeUnknown DEF OutcomeUnknown, SameCards, otherVars, hostVars
<1>Refused. CASE Refused
  BY <1>Refused DEF Refused, SameCards, otherVars, hostVars
<1>Complete. CASE Complete
  BY <1>Complete DEF Complete, SameCards, otherVars, hostVars
<1>Authenticate. CASE Authenticate
  BY <1>Authenticate DEF Authenticate, SameCards, otherVars, hostVars
<1>Forget. CASE Forget
  BY <1>Forget DEF Forget, SameCards, otherVars, hostVars
<1>Export. ASSUME NEW t \in Tabs, Export(t)
  PROVE  HostCards' /\ host.issued \subseteq host'.issued
  BY <1>Export DEF Export, SameCards, otherVars, hostVars
<1>Acknowledge. ASSUME NEW t \in Tabs, Acknowledge(t)
  PROVE  HostCards' /\ host.issued \subseteq host'.issued
  BY <1>Acknowledge DEF Acknowledge, SameCards, otherVars, hostVars
<1>Restart. CASE Restart
  BY <1>Restart DEF Restart, SameCards, otherVars, hostVars
<1>Handle. ASSUME NEW r \in Requests, Handle(r)
  PROVE  HostCards' /\ host.issued \subseteq host'.issued
  <2>1. CASE UNCHANGED hostVars
    BY <2>1 DEF SameCards, hostVars
  <2>2. CASE Grants(r)
    <3>1. CASE Secretive(r)
      <4>1. host'.open = {} /\ host'.issued = host.issued
        BY <2>2, <3>1 DEF Grants
      <4> QED
        BY <4>1
    <3>2. CASE ~Secretive(r)
      <4>1. /\ host'.open \subseteq host.open /\ host'.issued = host.issued
            /\ host'.recovery = host.recovery
        BY <2>2, <3>2 DEF Grants
      <4> QED
        BY <4>1 DEF Claimed
    <3> QED
      BY <3>1, <3>2
  <2> QED
    BY <1>Handle, <2>1, <2>2 DEF Handle, Declines
<1>LoseRequest. ASSUME NEW r \in Requests, LoseRequest(r)
  PROVE  HostCards' /\ host.issued \subseteq host'.issued
  BY <1>LoseRequest DEF LoseRequest, SameCards, otherVars, hostVars
<1>Product. CASE Product
  <2>1. CASE Issue
    <3>1. /\ host'.issued = host.issued \cup {Invitation(NextSecret)}
          /\ host'.open = host.open \cup {Invitation(NextSecret)}
          /\ host'.recovery = host.recovery /\ Claimed
      BY <2>1 DEF Issue
    <3> QED
      BY <3>1, NewCards, IssuedGrows DEF Claimed
  <2>2. CASE Withdraw \/ TakenOver
    <3>1. host'.open = {} /\ host'.issued = host.issued
      BY <2>2 DEF Withdraw, TakenOver
    <3> QED
      BY <3>1
  <2>3. CASE RevokeDevice
    BY <2>3 DEF RevokeDevice, SameCards
  <2>4. CASE Wiped
    <3>1. /\ host'.issued = host.issued \cup {Activation(NextSecret)}
          /\ host'.open = {Activation(NextSecret)} /\ host'.recovery = None
      BY <2>4 DEF Wiped
    <3> QED
      BY <3>1, NewCards, IssuedGrows DEF Claimed
  <2> QED
    BY <1>Product, <2>1, <2>2, <2>3, <2>4 DEF Product
<1> QED
  BY <1>Quiet, <1>Commission, <1>RetryCommission, <1>OutcomeUnknown, <1>Refused,
     <1>Complete, <1>Authenticate, <1>Forget, <1>Export, <1>Acknowledge, <1>Restart,
     <1>Handle, <1>LoseRequest, <1>Product, QuietOrNot
     DEF Loud

LEMMA StagedFits ==
  ASSUME IInv, [Next]_pcvars
  PROVE  staged' # None /\ staged'.purpose # "recovery" => staged' \in host'.issued
<1>1. host.issued \subseteq host'.issued
  BY HostCardsKept
<1>2. staged # None /\ staged.purpose # "recovery" => staged \in host.issued
  BY DEF IInv, CardsAreOnce
<1>3. \/ staged' \in {staged, None}
      \/ staged' # None /\ staged'.purpose # "recovery" => staged' \in host.issued
  <2> DEFINE Goal == \/ staged' \in {staged, None}
                     \/ staged' # None /\ staged'.purpose # "recovery"
                          => staged' \in host.issued
  <2> SUFFICES Goal
    OBVIOUS
  <2>StageCard. ASSUME NEW c \in Cards, StageCard(c) PROVE Goal
    BY <2>StageCard DEF StageCard, InHand, otherVars, hostVars
  <2>Scan. CASE Scan
    BY <2>Scan DEF Scan
  <2>Connect. CASE Connect
    BY <2>Connect DEF Connect
  <2>Disconnect. CASE Disconnect
    BY <2>Disconnect DEF Disconnect
  <2>Commission. ASSUME NEW r \in Requests, Commission(r) PROVE Goal
    BY <2>Commission DEF Commission
  <2>RetryCommission. CASE RetryCommission
    BY <2>RetryCommission DEF RetryCommission
  <2>OutcomeUnknown. CASE OutcomeUnknown
    BY <2>OutcomeUnknown DEF OutcomeUnknown
  <2>Refused. CASE Refused
    BY <2>Refused DEF Refused
  <2>Complete. CASE Complete
    BY <2>Complete DEF Complete
  <2>Authenticate. CASE Authenticate
    BY <2>Authenticate DEF Authenticate
  <2>Forget. CASE Forget
    BY <2>Forget DEF Forget
  <2>Snapshot. ASSUME NEW t \in Tabs, Snapshot(t) PROVE Goal
    BY <2>Snapshot DEF Snapshot, clientVars
  <2>Login. ASSUME NEW t \in Tabs, Login(t) PROVE Goal
    BY <2>Login DEF Login
  <2>Register. ASSUME NEW t \in Tabs, Register(t) PROVE Goal
    BY <2>Register DEF Register, clientVars
  <2>Proxy. ASSUME NEW t \in Tabs, Proxy(t) PROVE Goal
    BY <2>Proxy DEF Proxy
  <2>Logout. ASSUME NEW t \in Tabs, Logout(t) PROVE Goal
    BY <2>Logout DEF Logout, clientVars
  <2>Export. ASSUME NEW t \in Tabs, Export(t) PROVE Goal
    BY <2>Export DEF Export
  <2>MarkDownloaded. ASSUME NEW t \in Tabs, MarkDownloaded(t) PROVE Goal
    BY <2>MarkDownloaded DEF MarkDownloaded, clientVars
  <2>AskToAcknowledge. ASSUME NEW t \in Tabs, AskToAcknowledge(t) PROVE Goal
    BY <2>AskToAcknowledge DEF AskToAcknowledge, clientVars
  <2>Acknowledge. ASSUME NEW t \in Tabs, Acknowledge(t) PROVE Goal
    BY <2>Acknowledge DEF Acknowledge
  <2>LinkLost. CASE LinkLost
    BY <2>LinkLost DEF LinkLost
  <2>Restart. CASE Restart
    BY <2>Restart DEF Restart
  <2>Handle. ASSUME NEW r \in Requests, Handle(r) PROVE Goal
    BY <2>Handle DEF Handle
  <2>LoseRequest. ASSUME NEW r \in Requests, LoseRequest(r) PROVE Goal
    BY <2>LoseRequest DEF LoseRequest, clientVars
  <2>Product. CASE Product
    BY <2>Product DEF Product, clientVars
  <2>Stutter. CASE UNCHANGED pcvars
    BY <2>Stutter DEF pcvars, clientVars
  <2> QED
    BY <2>StageCard, <2>Scan, <2>Connect, <2>Disconnect, <2>Commission,
       <2>RetryCommission, <2>OutcomeUnknown, <2>Refused, <2>Complete, <2>Authenticate,
       <2>Forget, <2>Snapshot, <2>Login, <2>Register, <2>Proxy, <2>Logout, <2>Export,
       <2>MarkDownloaded, <2>AskToAcknowledge, <2>Acknowledge, <2>LinkLost, <2>Restart,
       <2>Handle, <2>LoseRequest, <2>Product, <2>Stutter
       DEF Next, Setup, Browser
<1> QED
  BY <1>1, <1>2, <1>3

LEMMA AsksFit ==
  ASSUME IInv, [Next]_pcvars, NEW q \in Requests
  PROVE  /\ asks[q] # None => asks'[q] = asks[q]
         /\ asks'[q] # None /\ asks'[q].purpose # "recovery" => asks'[q] \in host'.issued
<1>1. host.issued \subseteq host'.issued
  BY HostCardsKept
<1>2. /\ asks[q] # None /\ asks[q].purpose # "recovery" => asks[q] \in host.issued
      /\ staged # None /\ staged.purpose # "recovery" => staged \in host.issued
      /\ asks \in [Requests -> Cards \cup {None}]
  BY TypeParts DEF IInv, CardsAreOnce, ClientTypes
<1>3. CASE asks' = asks
  BY <1>1, <1>2, <1>3
<1>4. ASSUME NEW r \in Requests, Commission(r)
      PROVE  /\ asks[q] # None => asks'[q] = asks[q]
             /\ asks'[q] # None /\ asks'[q].purpose # "recovery" => asks'[q] \in host'.issued
  <2>1. asks[r] = None /\ asks'[q] = IF q = r THEN staged ELSE asks[q]
    BY <1>2, <1>4 DEF Commission
  <2> QED
    BY <1>1, <1>2, <2>1
<1>5. asks' = asks \/ \E r \in Requests : Commission(r)
  <2> DEFINE Goal == asks' = asks \/ \E r \in Requests : Commission(r)
  <2> SUFFICES Goal
    OBVIOUS
  <2>Quiet. CASE Quiet
    BY <2>Quiet DEF Quiet, otherVars
  <2>Commission. ASSUME NEW r \in Requests, Commission(r) PROVE Goal
    BY <2>Commission
  <2>RetryCommission. CASE RetryCommission
    BY <2>RetryCommission DEF RetryCommission, otherVars
  <2>OutcomeUnknown. CASE OutcomeUnknown
    BY <2>OutcomeUnknown DEF OutcomeUnknown, otherVars
  <2>Refused. CASE Refused
    BY <2>Refused DEF Refused, otherVars
  <2>Complete. CASE Complete
    BY <2>Complete DEF Complete, otherVars
  <2>Authenticate. CASE Authenticate
    BY <2>Authenticate DEF Authenticate, otherVars
  <2>Forget. CASE Forget
    BY <2>Forget DEF Forget, otherVars
  <2>Export. ASSUME NEW t \in Tabs, Export(t) PROVE Goal
    BY <2>Export DEF Export, otherVars
  <2>Acknowledge. ASSUME NEW t \in Tabs, Acknowledge(t) PROVE Goal
    BY <2>Acknowledge DEF Acknowledge, otherVars
  <2>Restart. CASE Restart
    BY <2>Restart DEF Restart, otherVars
  <2>Handle. ASSUME NEW r \in Requests, Handle(r) PROVE Goal
    BY <2>Handle DEF Handle, otherVars
  <2>LoseRequest. ASSUME NEW r \in Requests, LoseRequest(r) PROVE Goal
    BY <2>LoseRequest DEF LoseRequest, otherVars
  <2>Product. CASE Product
    BY <2>Product DEF Product, otherVars
  <2> QED
    BY <2>Quiet, <2>Commission, <2>RetryCommission, <2>OutcomeUnknown, <2>Refused,
       <2>Complete, <2>Authenticate, <2>Forget, <2>Export, <2>Acknowledge, <2>Restart,
       <2>Handle, <2>LoseRequest, <2>Product, QuietOrNot
       DEF Loud
<1> QED
  BY <1>3, <1>4, <1>5

LEMMA CardsAreOnceKept ==
  ASSUME IInv, [Next]_pcvars
  PROVE  CardsAreOnce'
BY HostCardsKept, StagedFits, AsksFit DEF CardsAreOnce, HostCards

-----------------------------------------------------------------------------
(* The order of what happens to a request *)

NothingOf(r) ==
    asks[r] = None =>
        /\ r \notin flight /\ r \notin receipts /\ device[r] = "none"
        /\ host.recovery # r /\ mem.pending # r /\ disk.pending # r

LEMMA AskedFirstKept ==
  ASSUME IInv, [Next]_pcvars
  PROVE  AskedFirst'
<1> SUFFICES ASSUME NEW q \in Requests PROVE NothingOf(q)'
  BY DEF AskedFirst, NothingOf
<1>1. /\ asks'[q] = None => asks[q] = None
      /\ NothingOf(q) /\ q # None
      /\ \A r \in Requests : r \in flight => asks[r] # None
  BY AsksFit, PcClientAssumption DEF IInv, Ordered, AskedFirst, NothingOf
<1>2. ClientTypes /\ HostTypes
  BY TypeParts DEF IInv
<1> USE PcClientAssumption, <1>1, <1>2 DEF NothingOf, ClientTypes, HostTypes, States
<1>Quiet. CASE Quiet
  BY <1>Quiet DEF Quiet, otherVars, hostVars, history
<1>Commission. ASSUME NEW r \in Requests, Commission(r) PROVE NothingOf(q)'
  <2>1. CASE q = r
    <3>1. asks'[q] # None
      BY <1>Commission, <2>1 DEF Commission
    <3> QED
      BY <3>1
  <2>2. CASE q # r
    <3>1. mem'.pending = r /\ disk'.pending \in {disk.pending, r}
      BY <1>Commission DEF Commission, SaveFails
    <3> QED
      BY <1>Commission, <2>2, <3>1 DEF Commission, hostVars
  <2> QED
    BY <2>1, <2>2
<1>RetryCommission. CASE RetryCommission
  BY <1>RetryCommission DEF RetryCommission, otherVars, hostVars, history, bridgeVars, clientVars
<1>OutcomeUnknown. CASE OutcomeUnknown
  BY <1>OutcomeUnknown DEF OutcomeUnknown, otherVars, hostVars, history, bridgeVars, clientVars
<1>Refused. CASE Refused
  <2>1. mem'.pending \in {mem.pending, None} /\ disk'.pending \in {disk.pending, mem.pending, None}
    BY <1>Refused DEF Refused, SaveFails, SaveThenAssign
  <2> QED
    BY <1>Refused, <2>1 DEF Refused, otherVars, hostVars
<1>Complete. CASE Complete
  <2>1. mem'.pending \in {mem.pending, None} /\ disk'.pending \in {disk.pending, None}
    BY <1>Complete DEF Complete, SaveFails, SaveThenAssign, Paired
  <2> QED
    BY <1>Complete, <2>1 DEF Complete, otherVars, hostVars
<1>Authenticate. CASE Authenticate
  BY <1>Authenticate DEF Authenticate, otherVars, hostVars, history, bridgeVars, clientVars
<1>Forget. CASE Forget
  BY <1>Forget DEF Forget, SaveFails, SaveThenAssign, EmptyState, hostVars
<1>Export. ASSUME NEW t \in Tabs, Export(t) PROVE NothingOf(q)'
  BY <1>Export DEF Export, otherVars, hostVars, history, bridgeVars, clientVars
<1>Acknowledge. ASSUME NEW t \in Tabs, Acknowledge(t) PROVE NothingOf(q)'
  <2>1. mem'.pending = mem.pending /\ disk'.pending \in {disk.pending, mem.pending}
    BY <1>Acknowledge DEF Acknowledge, SaveFails
  <2> QED
    BY <1>Acknowledge, <2>1 DEF Acknowledge, otherVars, hostVars
<1>Restart. CASE Restart
  <2>1. mem' = disk /\ disk' = disk
    BY <1>Restart DEF Restart, IInv, SavedState
  <2> QED
    BY <1>Restart, <2>1 DEF Restart, otherVars, hostVars
<1>Handle. ASSUME NEW r \in Requests, Handle(r) PROVE NothingOf(q)'
  <2>1. asks[r] # None
    BY <1>Handle DEF Handle
  <2>2. CASE UNCHANGED hostVars
    BY <1>Handle, <2>2 DEF Handle, hostVars
  <2>3. CASE Grants(r)
    <3>1. device'[q] = "active" => device[q] = "active" \/ q = r
      BY <2>3 DEF Grants, WithDevice, DevicesGone
    <3>2. asks[q] = None => device'[q] = device[q]
      BY <2>1, <2>3 DEF Grants, WithDevice, DevicesGone
    <3>3. host'.recovery = q => host.recovery = q \/ q = r
      BY <2>3 DEF Grants
    <3> QED
      BY <1>Handle, <2>1, <2>3, <3>2, <3>3 DEF Handle, Grants
  <2> QED
    BY <1>Handle, <2>2, <2>3 DEF Handle, Declines
<1>LoseRequest. ASSUME NEW r \in Requests, LoseRequest(r) PROVE NothingOf(q)'
  BY <1>LoseRequest DEF LoseRequest, otherVars, hostVars, history, bridgeVars, clientVars
<1>Product. CASE Product
  <2>1. asks[q] = None => device'[q] = device[q]
    <3>1. device[q] # "active" => DevicesGone[q] = device[q]
      BY DEF DevicesGone
    <3>2. CASE device' = device \/ device' = DevicesGone
      BY <3>1, <3>2
    <3>3. CASE RevokeDevice
      BY <3>3 DEF RevokeDevice
    <3> QED
      BY <1>Product, <3>2, <3>3 DEF Product, Issue, Withdraw, TakenOver, Wiped
  <2>2. receipts' \subseteq receipts
    BY <1>Product DEF Product, Issue, Withdraw, RevokeDevice, TakenOver, Wiped
  <2>3. host'.recovery \in {host.recovery, None, Elsewhere}
    <3>1. CASE Issue
      BY <3>1 DEF Issue
    <3>2. CASE Withdraw \/ RevokeDevice
      BY <3>2 DEF Withdraw, RevokeDevice
    <3>3. CASE TakenOver
      BY <3>3 DEF TakenOver
    <3>4. CASE Wiped
      BY <3>4 DEF Wiped
    <3> QED
      BY <1>Product, <3>1, <3>2, <3>3, <3>4 DEF Product
  <2> QED
    BY <1>Product, <2>1, <2>2, <2>3 DEF Product, clientVars, Elsewhere
<1> QED
  BY <1>Quiet, <1>Commission, <1>RetryCommission, <1>OutcomeUnknown, <1>Refused,
     <1>Complete, <1>Authenticate, <1>Forget, <1>Export, <1>Acknowledge, <1>Restart,
     <1>Handle, <1>LoseRequest, <1>Product, QuietOrNot
     DEF Loud

LEMMA OnlyTheProduct ==
  ASSUME [Next]_pcvars
  PROVE  UNCHANGED hostVars \/ Product \/ \E r \in Requests : Handle(r)
<1> DEFINE Goal == UNCHANGED hostVars \/ Product \/ \E r \in Requests : Handle(r)
<1> SUFFICES Goal
  OBVIOUS
<1>Quiet. CASE Quiet
  BY <1>Quiet DEF Quiet, otherVars
<1>Commission. ASSUME NEW r \in Requests, Commission(r) PROVE Goal
  BY <1>Commission DEF Commission
<1>RetryCommission. CASE RetryCommission
  BY <1>RetryCommission DEF RetryCommission, otherVars, hostVars
<1>OutcomeUnknown. CASE OutcomeUnknown
  BY <1>OutcomeUnknown DEF OutcomeUnknown, otherVars, hostVars
<1>Refused. CASE Refused
  BY <1>Refused DEF Refused, otherVars, hostVars
<1>Complete. CASE Complete
  BY <1>Complete DEF Complete, otherVars, hostVars
<1>Authenticate. CASE Authenticate
  BY <1>Authenticate DEF Authenticate, otherVars, hostVars
<1>Forget. CASE Forget
  BY <1>Forget DEF Forget, otherVars, hostVars
<1>Export. ASSUME NEW t \in Tabs, Export(t) PROVE Goal
  BY <1>Export DEF Export, otherVars, hostVars
<1>Acknowledge. ASSUME NEW t \in Tabs, Acknowledge(t) PROVE Goal
  BY <1>Acknowledge DEF Acknowledge, otherVars, hostVars
<1>Restart. CASE Restart
  BY <1>Restart DEF Restart, otherVars, hostVars
<1>Handle. ASSUME NEW r \in Requests, Handle(r) PROVE Goal
  BY <1>Handle
<1>LoseRequest. ASSUME NEW r \in Requests, LoseRequest(r) PROVE Goal
  BY <1>LoseRequest DEF LoseRequest, otherVars, hostVars
<1>Product. CASE Product
  BY <1>Product
<1> QED
  BY <1>Quiet, <1>Commission, <1>RetryCommission, <1>OutcomeUnknown, <1>Refused,
     <1>Complete, <1>Authenticate, <1>Forget, <1>Export, <1>Acknowledge, <1>Restart,
     <1>Handle, <1>LoseRequest, <1>Product, QuietOrNot
     DEF Loud

(* The product's other users revoke devices and move the recovery secret   *)
(* away from every request; they accept none.                              *)
ProductTakes(q) ==
    /\ device'[q] = "active" => device[q] = "active" /\ receipts' = receipts
    /\ host'.recovery = q => host.recovery = q /\ receipts' = receipts
    /\ receipts' \subseteq receipts

LEMMA ProductOnlyTakes ==
  ASSUME PcTypeOK, Product, NEW q \in Requests
  PROVE  ProductTakes(q)
<1>1. HostTypes /\ q # None /\ q # Elsewhere
  BY TypeParts, PcClientAssumption DEF Elsewhere
<1>2. DevicesGone[q] # "active"
  BY DEF DevicesGone
<1> USE <1>1 DEF ProductTakes, HostTypes
<1>3. CASE Issue
  BY <1>3 DEF Issue
<1>4. CASE Withdraw
  BY <1>4 DEF Withdraw
<1>5. CASE RevokeDevice
  BY <1>5 DEF RevokeDevice
<1>6. CASE TakenOver
  BY <1>2, <1>6 DEF TakenOver
<1>7. CASE Wiped
  BY <1>2, <1>7 DEF Wiped
<1> QED
  BY <1>3, <1>4, <1>5, <1>6, <1>7 DEF Product

LEMMA HandlingGrants ==
  ASSUME PcTypeOK, NEW r \in Requests, Handle(r), NEW q \in Requests
  PROVE  \/ UNCHANGED hostVars
         \/ /\ Grants(r) /\ r \notin receipts /\ receipts' = receipts \cup {r}
            /\ q # r => /\ device'[q] = "active" => device[q] = "active"
                        /\ host'.recovery = q => host.recovery = q
            /\ host'.recovery = r => host.recovery = r \/ Secretive(r)
<1>1. HostTypes
  BY TypeParts
<1>2. CASE Grants(r) /\ r \notin receipts
  <2>1. q # r => (device'[q] = "active" => device[q] = "active")
    BY <1>1, <1>2 DEF Grants, WithDevice, DevicesGone, HostTypes
  <2>2. host'.recovery = IF Secretive(r) THEN r ELSE host.recovery
    BY <1>1, <1>2 DEF Grants, HostTypes
  <2> QED
    BY <1>2, <2>1, <2>2 DEF Grants
<1> QED
  BY <1>2 DEF Handle, Declines

GrantedAs(q) ==
    /\ device[q] = "active" => q \in receipts
    /\ host.recovery = q => q \in receipts /\ Secretive(q)

LEMMA GrantedKept ==
  ASSUME IInv, [Next]_pcvars
  PROVE  Granted'
<1> SUFFICES ASSUME NEW q \in Requests PROVE GrantedAs(q)'
  BY DEF Granted, GrantedAs
<1>1. /\ GrantedAs(q) /\ PcTypeOK
      /\ q \in receipts \/ q \in flight => asks[q] # None
  BY DEF IInv, Ordered, AskedFirst, Granted, GrantedAs
<1>2. asks[q] # None => asks'[q] = asks[q]
  BY AsksFit
<1>3. UNCHANGED hostVars => GrantedAs(q)'
  BY <1>1, <1>2 DEF GrantedAs, Secretive, hostVars
<1>4. CASE Product
  <2>1. asks' = asks /\ ProductTakes(q)
    BY <1>1, <1>4, ProductOnlyTakes DEF Product
  <2> QED
    BY <1>1, <2>1 DEF GrantedAs, Secretive, ProductTakes
<1>5. ASSUME NEW r \in Requests, Handle(r) PROVE GrantedAs(q)'
  <2>1. asks' = asks
    BY <1>5 DEF Handle
  <2> QED
    BY <1>1, <1>3, <1>5, <2>1, HandlingGrants DEF GrantedAs, Secretive
<1>6. UNCHANGED hostVars \/ Product \/ \E r \in Requests : Handle(r)
  BY OnlyTheProduct
<1> QED
  BY <1>3, <1>4, <1>5, <1>6

LEMMA SavedFirstKept ==
  ASSUME IInv, [Next]_pcvars
  PROVE  SavedFirst'
<1>1. ClientTypes /\ SavedState /\ Ordered /\ PcTypeOK
  BY TypeParts DEF IInv
<1> USE PcClientAssumption, <1>1 DEF ClientTypes, States, SavedFirst, Ordered, Stages
<1>Quiet. CASE Quiet
  BY <1>Quiet DEF Quiet, otherVars, hostVars, history
<1>Commission. ASSUME NEW r \in Requests, Commission(r) PROVE SavedFirst'
  <2>1. r # None /\ mem'.pending = r /\ receipts' = receipts
    BY <1>Commission DEF Commission, hostVars
  <2>2. disk'.pending = r \/ UNCHANGED <<disk, step, flight>>
    BY <1>Commission, <2>1 DEF Commission, SaveFails
  <2>3. r \notin flight /\ r \notin receipts
    BY <1>Commission DEF Commission, Ordered, AskedFirst
  <2> QED
    BY <1>Commission, <2>1, <2>2, <2>3 DEF Commission
<1>RetryCommission. CASE RetryCommission
  BY <1>RetryCommission DEF RetryCommission, otherVars, hostVars, history, bridgeVars, clientVars
<1>OutcomeUnknown. CASE OutcomeUnknown
  BY <1>OutcomeUnknown DEF OutcomeUnknown, otherVars, hostVars, history, bridgeVars, clientVars
<1>Refused. CASE Refused
  <2>1. /\ mem'.pending = None \/ (mem' = mem /\ disk' = disk)
        /\ step' = "idle"
    BY <1>Refused DEF Refused, SaveFails, SaveThenAssign
  <2> QED
    BY <1>Refused, <2>1 DEF Refused, otherVars, hostVars, history
<1>Complete. CASE Complete
  <2>1. /\ mem'.pending = None \/ (mem' = mem /\ disk' = disk /\ step' = "idle")
    BY <1>Complete DEF Complete, SaveFails, SaveThenAssign, Paired
  <2> QED
    BY <1>Complete, <2>1 DEF Complete, otherVars, hostVars, history
<1>Authenticate. CASE Authenticate
  BY <1>Authenticate DEF Authenticate, otherVars, hostVars, history, bridgeVars, clientVars
<1>Forget. CASE Forget
  <2>1. mem'.pending = None
    BY <1>Forget DEF Forget, SaveThenAssign, EmptyState
  <2> QED
    BY <2>1
<1>Export. ASSUME NEW t \in Tabs, Export(t) PROVE SavedFirst'
  BY <1>Export DEF Export, otherVars, hostVars, history, bridgeVars, clientVars
<1>Acknowledge. ASSUME NEW t \in Tabs, Acknowledge(t) PROVE SavedFirst'
  <2>1. CASE mem.pending = None
    <3>1. mem'.pending = None
      BY <1>Acknowledge, <2>1 DEF Acknowledge
    <3> QED
      BY <3>1
  <2>2. CASE mem.pending # None
    <3>1. ~SamePairing(t)
      BY <2>2 DEF SamePairing, SavedState, Legal
    <3>2. UNCHANGED <<mem, disk, step, flight, unsaved, receipts>>
      BY <1>Acknowledge, <3>1 DEF Acknowledge, otherVars, hostVars, history
    <3> QED
      BY <3>2
  <2> QED
    BY <2>1, <2>2
<1>Restart. CASE Restart
  <2>1. mem' = disk /\ disk' = disk
    BY <1>Restart DEF Restart, SavedState
  <2> QED
    BY <2>1
<1>Handle. ASSUME NEW r \in Requests, Handle(r) PROVE SavedFirst'
  <2>1. mem' = mem /\ disk' = disk /\ unsaved' = unsaved /\ flight' \subseteq flight
    BY <1>Handle DEF Handle, history
  <2>2. receipts' \subseteq receipts \cup {r} /\ r \in flight
    BY <1>Handle, HandlingGrants DEF Handle, hostVars
  <2>3. step = "idle" => step' = "idle"
    BY <1>Handle DEF Handle
  <2> QED
    BY <2>1, <2>2, <2>3
<1>LoseRequest. ASSUME NEW r \in Requests, LoseRequest(r) PROVE SavedFirst'
  BY <1>LoseRequest DEF LoseRequest, otherVars, hostVars, history, bridgeVars, clientVars
<1>Product. CASE Product
  <2>1. receipts' \subseteq receipts
    BY <1>Product DEF Product, Issue, Withdraw, RevokeDevice, TakenOver, Wiped
  <2> QED
    BY <1>Product, <2>1 DEF Product, clientVars, history
<1> QED
  BY <1>Quiet, <1>Commission, <1>RetryCommission, <1>OutcomeUnknown, <1>Refused,
     <1>Complete, <1>Authenticate, <1>Forget, <1>Export, <1>Acknowledge, <1>Restart,
     <1>Handle, <1>LoseRequest, <1>Product, QuietOrNot
     DEF Loud

LEMMA StagesKept ==
  ASSUME IInv, [Next]_pcvars
  PROVE  Stages'
<1>1. ClientTypes /\ Stages
  BY TypeParts DEF IInv, Ordered
<1> USE PcClientAssumption, <1>1 DEF ClientTypes, States, Stages
<1>Quiet. CASE Quiet
  BY <1>Quiet DEF Quiet
<1>Commission. ASSUME NEW r \in Requests, Commission(r) PROVE Stages'
  BY <1>Commission DEF Commission, Idle
<1>RetryCommission. CASE RetryCommission
  BY <1>RetryCommission DEF RetryCommission, clientVars, bridgeVars
<1>OutcomeUnknown. CASE OutcomeUnknown
  BY <1>OutcomeUnknown DEF OutcomeUnknown
<1>Refused. CASE Refused
  BY <1>Refused DEF Refused
<1>Complete. CASE Complete
  <2>1. mem'.paired = mem.pending \/ step' = "idle"
    BY <1>Complete DEF Complete, SaveThenAssign, Paired
  <2> QED
    BY <1>Complete, <2>1 DEF Complete
<1>Authenticate. CASE Authenticate
  BY <1>Authenticate DEF Authenticate, clientVars, bridgeVars
<1>Forget. CASE Forget
  BY <1>Forget DEF Forget, Idle
<1>Export. ASSUME NEW t \in Tabs, Export(t) PROVE Stages'
  BY <1>Export DEF Export
<1>Acknowledge. ASSUME NEW t \in Tabs, Acknowledge(t) PROVE Stages'
  BY <1>Acknowledge DEF Acknowledge, Idle
<1>Restart. CASE Restart
  BY <1>Restart DEF Restart
<1>Handle. ASSUME NEW r \in Requests, Handle(r) PROVE Stages'
  BY <1>Handle DEF Handle, clientVars, bridgeVars
<1>LoseRequest. ASSUME NEW r \in Requests, LoseRequest(r) PROVE Stages'
  BY <1>LoseRequest DEF LoseRequest, clientVars, bridgeVars
<1>Product. CASE Product
  BY <1>Product DEF Product, clientVars, bridgeVars
<1> QED
  BY <1>Quiet, <1>Commission, <1>RetryCommission, <1>OutcomeUnknown, <1>Refused,
     <1>Complete, <1>Authenticate, <1>Forget, <1>Export, <1>Acknowledge, <1>Restart,
     <1>Handle, <1>LoseRequest, <1>Product, QuietOrNot
     DEF Loud

-----------------------------------------------------------------------------
(* What is covered stays covered *)

LEMMA DeadStays ==
  ASSUME IInv, [Next]_pcvars, NEW q \in Requests, asks[q] # None, Dead(q)
  PROVE  Dead(q)'
<1>1. asks'[q] = asks[q] /\ asks[q] \in host.issued
  BY AsksFit DEF IInv, CardsAreOnce, Dead
<1>2. HostTypes /\ CardsAreOnce /\ ClientTypes
  BY TypeParts DEF IInv
<1>3. UNCHANGED hostVars => Dead(q)'
  BY <1>1 DEF Dead, hostVars
<1>4. ASSUME NEW r \in Requests, Handle(r) PROVE Dead(q)'
  <2>1. host'.open \subseteq host.open
    BY <1>2, <1>4, ZenonT(40) DEF Handle, Grants, Declines, hostVars, HostTypes
  <2> QED
    BY <1>1, <2>1 DEF Dead
<1>5. CASE Product
  <2>1. asks[q] # Invitation(NextSecret) /\ asks[q] # Activation(NextSecret)
    BY <1>1, <1>2, NextSecretIsNew, NewCards
  <2>2. \/ host'.open \subseteq host.open
        \/ host'.open \subseteq host.open \cup {Invitation(NextSecret)}
        \/ host'.open = {Activation(NextSecret)}
    <3>1. CASE Issue
      BY <1>2, <3>1 DEF Issue, HostTypes
    <3>2. CASE Withdraw \/ RevokeDevice
      BY <1>2, <3>2 DEF Withdraw, RevokeDevice, HostTypes
    <3>3. CASE TakenOver
      BY <1>2, <3>3 DEF TakenOver, HostTypes
    <3>4. CASE Wiped
      BY <3>4 DEF Wiped
    <3> QED
      BY <1>5, <3>1, <3>2, <3>3, <3>4 DEF Product
  <2> QED
    BY <1>1, <2>1, <2>2 DEF Dead
<1> QED
  BY <1>3, <1>4, <1>5, OnlyTheProduct

(* A request keeps its place in the client's or the user's files, unless   *)
(* the product has just refused it for good.                               *)
LEMMA HeldStays ==
  ASSUME IInv, [Next]_pcvars, NEW q \in Requests, Held(q), asks[q] # None
  PROVE  Held(q)' \/ (step = "invalid" /\ q = mem.pending)
<1>1. q # None /\ asks'[q] = asks[q] /\ Secretive(q)' = Secretive(q)
  BY AsksFit, PcClientAssumption DEF Secretive
<1>2. Held(q)' = (q = disk'.pending \/ Kept(q)')
  BY DEF Held
<1>3. Kept(q)' = /\ q \in forgotten' \cup {disk'.paired}
                 /\ Secretive(q) => q \in exported' \cup {disk'.card}
  BY <1>1 DEF Kept
<1>4. disk' = disk /\ forgotten' = forgotten /\ exported \subseteq exported' => Held(q)'
  BY <1>2, <1>3 DEF Held, Kept
<1>5. ClientTypes /\ BridgeTypes /\ SavedState /\ ThreadsKnow /\ Stages
  BY TypeParts DEF IInv, Ordered
<1> DEFINE Goal == Held(q)' \/ (step = "invalid" /\ q = mem.pending)
<1> SUFFICES Goal
  OBVIOUS
<1> USE PcClientAssumption, <1>2, <1>3, <1>5
    DEF ClientTypes, BridgeTypes, States, SavedState, FileFollows, Legal, Held, Stages
<1>Quiet. CASE Quiet
  BY <1>Quiet, <1>4 DEF Quiet, otherVars, history
<1>Commission. ASSUME NEW r \in Requests, Commission(r) PROVE Goal
  <2>1. disk'.pending = r \/ disk' = disk
    BY <1>Commission DEF Commission, SaveFails
  <2>2. mem.paired = None /\ mem.pending = None /\ mem.card = None
    BY <1>Commission DEF Commission
  <2>3. disk = mem
    BY <2>2
  <2>4. disk'.paired = disk.paired /\ disk'.card = disk.card
    BY <1>Commission, <2>3 DEF Commission, SaveFails
  <2>5. UNCHANGED <<exported, forgotten>>
    BY <1>Commission DEF Commission, bridgeVars, history
  <2> QED
    BY <2>2, <2>3, <2>4, <2>5, <1>1 DEF Kept
<1>RetryCommission. CASE RetryCommission
  BY <1>RetryCommission, <1>4 DEF RetryCommission, bridgeVars
<1>OutcomeUnknown. CASE OutcomeUnknown
  BY <1>OutcomeUnknown, <1>4 DEF OutcomeUnknown, otherVars, history
<1>Refused. CASE Refused
  <2>1. UNCHANGED <<exported, forgotten>>
    BY <1>Refused DEF Refused, otherVars, history
  <2>2. CASE disk' = disk
    BY <2>1, <2>2, <1>4
  <2>3. CASE disk' # disk
    <3>1. /\ step = "invalid" /\ mem.pending # None
          /\ disk' = [mem EXCEPT !.pending = None]
      BY <1>Refused, <2>3 DEF Refused, SaveFails, SaveThenAssign
    <3>2. /\ disk.pending \in {mem.pending, None}
          /\ disk.paired = None /\ disk.card = None
          /\ disk'.paired = None /\ disk'.card = None
      BY <3>1
    <3> QED
      BY <2>1, <3>1, <3>2, <1>1, <1>5 DEF Kept
  <2> QED
    BY <2>2, <2>3
<1>Complete. CASE Complete
  <2>1. UNCHANGED <<exported, forgotten>>
    BY <1>Complete DEF Complete, bridgeVars, otherVars, history
  <2>2. CASE disk' = disk
    BY <2>1, <2>2, <1>4
  <2>3. CASE disk' # disk
    <3>1. mem.pending # None /\ disk' = Paired(mem.pending)
      BY <1>Complete, <2>3 DEF Complete, SaveFails, SaveThenAssign
    <3>2. /\ disk.pending \in {mem.pending, None}
          /\ disk.paired = None /\ disk.card = None
      BY <3>1
    <3>3. /\ disk'.paired = mem.pending
          /\ disk'.card = IF Secretive(mem.pending) THEN mem.pending ELSE None
      BY <3>1 DEF Paired
    <3> QED
      BY <2>1, <3>2, <3>3, <1>1 DEF Kept
  <2> QED
    BY <2>2, <2>3
<1>Authenticate. CASE Authenticate
  BY <1>Authenticate, <1>4 DEF Authenticate, otherVars, history
<1>Forget. CASE Forget
  <2>1. exported' = exported
    BY <1>Forget DEF Forget
  <2>2. CASE disk' = disk /\ forgotten' = forgotten
    BY <2>1, <2>2, <1>4
  <2>3. CASE ~(disk' = disk /\ forgotten' = forgotten)
    <3>1. /\ mem.paired # None /\ mem.pending = None /\ mem.card = None
          /\ forgotten' = forgotten \cup {mem.paired}
      BY <1>Forget, <2>3 DEF Forget, SaveFails, SaveThenAssign
    <3>2. disk.pending = None /\ disk.paired = mem.paired /\ disk.card \in exported \cup {None}
      BY <3>1
    <3> QED
      BY <2>1, <3>1, <3>2, <1>1 DEF Kept
  <2> QED
    BY <2>2, <2>3
<1>Export. ASSUME NEW t \in Tabs, Export(t) PROVE Goal
  <2>1. disk' = disk /\ forgotten' = forgotten /\ exported \subseteq exported'
    BY <1>Export DEF Export, otherVars, history
  <2> QED
    BY <2>1, <1>4
<1>Acknowledge. ASSUME NEW t \in Tabs, Acknowledge(t) PROVE Goal
  <2>1. UNCHANGED <<exported, forgotten>>
    BY <1>Acknowledge DEF Acknowledge, otherVars, history
  <2>2. CASE disk' = disk
    BY <2>1, <2>2, <1>4
  <2>3. CASE disk' # disk
    <3>1. SamePairing(t) /\ mem.card # None /\ disk' = mem' /\ mem' = [mem EXCEPT !.card = None]
      BY <1>Acknowledge, <2>3 DEF Acknowledge, SaveFails
    <3>2. disk = mem
      BY <3>1 DEF SamePairing
    <3>3. mem.card \in exported
      BY <1>Acknowledge, <3>1 DEF Acknowledge, SamePairing, ThreadsKnow, ThreadKnows
    <3>4. /\ disk'.pending = disk.pending /\ disk'.paired = disk.paired
          /\ disk.card \in exported
      BY <3>1, <3>2, <3>3
    <3> QED
      BY <2>1, <3>4 DEF Kept
  <2> QED
    BY <2>2, <2>3
<1>Restart. CASE Restart
  BY <1>Restart, <1>4 DEF Restart, otherVars, history
<1>Handle. ASSUME NEW r \in Requests, Handle(r) PROVE Goal
  BY <1>Handle, <1>4 DEF Handle, bridgeVars, history
<1>LoseRequest. ASSUME NEW r \in Requests, LoseRequest(r) PROVE Goal
  BY <1>LoseRequest, <1>4 DEF LoseRequest, clientVars, bridgeVars, history
<1>Product. CASE Product
  BY <1>Product, <1>4 DEF Product, clientVars, bridgeVars, history
<1> QED
  BY <1>Quiet, <1>Commission, <1>RetryCommission, <1>OutcomeUnknown, <1>Refused,
     <1>Complete, <1>Authenticate, <1>Forget, <1>Export, <1>Acknowledge, <1>Restart,
     <1>Handle, <1>LoseRequest, <1>Product, QuietOrNot
     DEF Loud

LEMMA CountsBecause ==
  ASSUME IInv, [Next]_pcvars, NEW q \in Requests
  PROVE  /\ device'[q] = "active" \/ host'.recovery = q =>
              \/ device[q] = "active" \/ host.recovery = q
              \/ Handle(q) /\ Grants(q)
         /\ q \in receipts' => q \in receipts \/ (Handle(q) /\ Grants(q))
<1>1. CASE UNCHANGED hostVars
  BY <1>1 DEF hostVars
<1>2. CASE Product
  BY <1>2, ProductOnlyTakes DEF IInv, ProductTakes
<1>3. ASSUME NEW r \in Requests, Handle(r)
      PROVE  /\ device'[q] = "active" \/ host'.recovery = q =>
                  \/ device[q] = "active" \/ host.recovery = q
                  \/ Handle(q) /\ Grants(q)
             /\ q \in receipts' => q \in receipts \/ (Handle(q) /\ Grants(q))
  BY <1>1, <1>3, HandlingGrants DEF IInv
<1> QED
  BY <1>1, <1>2, <1>3, OnlyTheProduct

LEMMA SentBecause ==
  ASSUME IInv, [Next]_pcvars, NEW q \in Requests, q \in flight'
  PROVE  q \in flight \/ disk'.pending = q \/ q \in unsaved'
<1> DEFINE Goal == q \in flight \/ disk'.pending = q \/ q \in unsaved'
<1> SUFFICES Goal
  OBVIOUS
<1>Quiet. CASE Quiet
  BY <1>Quiet DEF Quiet, otherVars, history
<1>Commission. ASSUME NEW r \in Requests, Commission(r) PROVE Goal
  <2>1. flight' = flight \/ (flight' = flight \cup {r} /\ disk'.pending = r)
    BY <1>Commission, TypeParts DEF Commission, SaveFails, IInv, ClientTypes, States
  <2>2. unsaved' = unsaved
    BY <1>Commission DEF Commission, history
  <2> QED
    BY <2>1, <2>2
<1>RetryCommission. CASE RetryCommission
  <2>1. /\ flight' = flight \cup {mem.pending} /\ disk' = disk
        /\ unsaved \subseteq unsaved'
        /\ disk.pending = mem.pending \/ mem.pending \in unsaved'
    BY <1>RetryCommission DEF RetryCommission
  <2> QED
    BY <2>1
<1>OutcomeUnknown. CASE OutcomeUnknown
  BY <1>OutcomeUnknown DEF OutcomeUnknown, otherVars, hostVars, history, bridgeVars, clientVars
<1>Refused. CASE Refused
  BY <1>Refused DEF Refused, otherVars, hostVars, history, bridgeVars, clientVars
<1>Complete. CASE Complete
  BY <1>Complete DEF Complete, otherVars, history
<1>Authenticate. CASE Authenticate
  BY <1>Authenticate DEF Authenticate, otherVars, hostVars, history, bridgeVars, clientVars
<1>Forget. CASE Forget
  BY <1>Forget DEF Forget, otherVars, hostVars, history, bridgeVars, clientVars
<1>Export. ASSUME NEW t \in Tabs, Export(t) PROVE Goal
  BY <1>Export DEF Export, otherVars, hostVars, history, bridgeVars, clientVars
<1>Acknowledge. ASSUME NEW t \in Tabs, Acknowledge(t) PROVE Goal
  BY <1>Acknowledge DEF Acknowledge, otherVars, hostVars, history, bridgeVars, clientVars
<1>Restart. CASE Restart
  BY <1>Restart DEF Restart, otherVars, hostVars, history, bridgeVars, clientVars
<1>Handle. ASSUME NEW r \in Requests, Handle(r) PROVE Goal
  BY <1>Handle DEF Handle, otherVars, hostVars, history, bridgeVars, clientVars
<1>LoseRequest. ASSUME NEW r \in Requests, LoseRequest(r) PROVE Goal
  BY <1>LoseRequest DEF LoseRequest, otherVars, hostVars, history, bridgeVars, clientVars
<1>Product. CASE Product
  BY <1>Product DEF Product, otherVars, hostVars, history, bridgeVars, clientVars
<1> QED
  BY <1>Quiet, <1>Commission, <1>RetryCommission, <1>OutcomeUnknown, <1>Refused,
     <1>Complete, <1>Authenticate, <1>Forget, <1>Export, <1>Acknowledge, <1>Restart,
     <1>Handle, <1>LoseRequest, <1>Product, QuietOrNot
     DEF Loud

LEMMA UnsavedGrows ==
  ASSUME [Next]_pcvars
  PROVE  unsaved \subseteq unsaved'
<1> DEFINE Goal == unsaved \subseteq unsaved'
<1> SUFFICES Goal
  OBVIOUS
<1>Quiet. CASE Quiet
  BY <1>Quiet DEF Quiet, otherVars, history
<1>Commission. ASSUME NEW r \in Requests, Commission(r) PROVE Goal
  BY <1>Commission DEF Commission, history
<1>RetryCommission. CASE RetryCommission
  BY <1>RetryCommission DEF RetryCommission
<1>OutcomeUnknown. CASE OutcomeUnknown
  BY <1>OutcomeUnknown DEF OutcomeUnknown, otherVars, hostVars, history, bridgeVars, clientVars
<1>Refused. CASE Refused
  BY <1>Refused DEF Refused, otherVars, hostVars, history, bridgeVars, clientVars
<1>Complete. CASE Complete
  BY <1>Complete DEF Complete, otherVars, history
<1>Authenticate. CASE Authenticate
  BY <1>Authenticate DEF Authenticate, otherVars, hostVars, history, bridgeVars, clientVars
<1>Forget. CASE Forget
  BY <1>Forget DEF Forget, otherVars, hostVars, history, bridgeVars, clientVars
<1>Export. ASSUME NEW t \in Tabs, Export(t) PROVE Goal
  BY <1>Export DEF Export, otherVars, hostVars, history, bridgeVars, clientVars
<1>Acknowledge. ASSUME NEW t \in Tabs, Acknowledge(t) PROVE Goal
  BY <1>Acknowledge DEF Acknowledge, otherVars, hostVars, history, bridgeVars, clientVars
<1>Restart. CASE Restart
  BY <1>Restart DEF Restart, otherVars, hostVars, history, bridgeVars, clientVars
<1>Handle. ASSUME NEW r \in Requests, Handle(r) PROVE Goal
  BY <1>Handle DEF Handle, otherVars, hostVars, history, bridgeVars, clientVars
<1>LoseRequest. ASSUME NEW r \in Requests, LoseRequest(r) PROVE Goal
  BY <1>LoseRequest DEF LoseRequest, otherVars, hostVars, history, bridgeVars, clientVars
<1>Product. CASE Product
  BY <1>Product DEF Product, otherVars, hostVars, history, bridgeVars, clientVars
<1> QED
  BY <1>Quiet, <1>Commission, <1>RetryCommission, <1>OutcomeUnknown, <1>Refused,
     <1>Complete, <1>Authenticate, <1>Forget, <1>Export, <1>Acknowledge, <1>Restart,
     <1>Handle, <1>LoseRequest, <1>Product, QuietOrNot
     DEF Loud

LEMMA InvalidBecause ==
  ASSUME [Next]_pcvars, step' = "invalid"
  PROVE  /\ mem' = mem
         /\ step = "invalid" \/ \E r \in Requests : Handle(r) /\ step # "invalid"
<1> DEFINE Goal == /\ mem' = mem
                   /\ step = "invalid" \/ \E r \in Requests : Handle(r) /\ step # "invalid"
<1> SUFFICES Goal
  OBVIOUS
<1>Quiet. CASE Quiet
  BY <1>Quiet DEF Quiet
<1>Commission. ASSUME NEW r \in Requests, Commission(r) PROVE Goal
  BY <1>Commission DEF Commission, Idle
<1>RetryCommission. CASE RetryCommission
  BY <1>RetryCommission DEF RetryCommission, Idle
<1>OutcomeUnknown. CASE OutcomeUnknown
  BY <1>OutcomeUnknown DEF OutcomeUnknown, Idle
<1>Refused. CASE Refused
  BY <1>Refused DEF Refused, Idle
<1>Complete. CASE Complete
  BY <1>Complete DEF Complete, Idle
<1>Authenticate. CASE Authenticate
  BY <1>Authenticate DEF Authenticate, Idle
<1>Forget. CASE Forget
  BY <1>Forget DEF Forget, Idle
<1>Export. ASSUME NEW t \in Tabs, Export(t) PROVE Goal
  BY <1>Export DEF Export, Idle
<1>Acknowledge. ASSUME NEW t \in Tabs, Acknowledge(t) PROVE Goal
  BY <1>Acknowledge DEF Acknowledge, Idle
<1>Restart. CASE Restart
  BY <1>Restart DEF Restart, Idle
<1>Handle. ASSUME NEW r \in Requests, Handle(r) PROVE Goal
  BY <1>Handle DEF Handle
<1>LoseRequest. ASSUME NEW r \in Requests, LoseRequest(r) PROVE Goal
  BY <1>LoseRequest DEF LoseRequest, clientVars
<1>Product. CASE Product
  BY <1>Product DEF Product, clientVars
<1> QED
  BY <1>Quiet, <1>Commission, <1>RetryCommission, <1>OutcomeUnknown, <1>Refused,
     <1>Complete, <1>Authenticate, <1>Forget, <1>Export, <1>Acknowledge, <1>Restart,
     <1>Handle, <1>LoseRequest, <1>Product, QuietOrNot
     DEF Loud

CoveredAs(q) ==
    q \in Requests \ unsaved =>
        /\ device[q] = "active" \/ host.recovery = q => Held(q)
        /\ q \in flight => Held(q) \/ Dead(q)

LEMMA CoveredKept ==
  ASSUME IInv, [Next]_pcvars
  PROVE  Covered'
<1>1. SavedState /\ CardsAreOnce /\ Covered /\ Ordered /\ ClientTypes /\ HostTypes
  BY TypeParts DEF IInv
<1>2. ASSUME NEW q \in Requests, Grants(q), asks[q] # None PROVE ~Dead(q)
  BY <1>2 DEF Grants, Valid, Dead
<1>3. step = "invalid" =>
        /\ mem.pending \in Requests /\ asks[mem.pending] # None
        /\ Dead(mem.pending) /\ mem.pending \notin receipts
  BY <1>1 DEF Covered, Ordered, Stages, AskedFirst, ClientTypes, States
<1>4. ASSUME NEW q \in Requests PROVE CoveredAs(q)'
  <2> SUFFICES ASSUME q \notin unsaved'
               PROVE  /\ device'[q] = "active" \/ host'.recovery = q => Held(q)'
                      /\ q \in flight' => Held(q)' \/ Dead(q)'
    BY DEF CoveredAs
  <2>1. /\ device[q] = "active" \/ host.recovery = q => Held(q) /\ q \in receipts
        /\ q \in flight => Held(q) \/ Dead(q)
    BY <1>1, UnsavedGrows DEF Covered, Ordered, Granted
  <2>2. asks[q] = None =>
          q \notin flight /\ q \notin receipts /\ device[q] = "none" /\ host.recovery # q
    BY <1>1 DEF Ordered, AskedFirst
  <2>3. ASSUME device'[q] = "active" \/ host'.recovery = q PROVE Held(q)'
    <3>1. CASE device[q] = "active" \/ host.recovery = q
      BY <1>3, <2>1, <2>2, <3>1, HeldStays
    <3>2. CASE Handle(q) /\ Grants(q)
      <4>1. q \in flight /\ asks[q] # None
        BY <2>2, <3>2 DEF Handle
      <4> QED
        BY <1>2, <1>3, <2>1, <3>2, <4>1, HeldStays
    <3> QED
      BY <2>3, <3>1, <3>2, CountsBecause
  <2>4. ASSUME q \in flight' PROVE Held(q)' \/ Dead(q)'
    <3>1. CASE q \in flight
      BY <1>3, <2>1, <2>2, <3>1, HeldStays, DeadStays
    <3>2. CASE disk'.pending = q
      BY <3>2 DEF Held
    <3> QED
      BY <2>4, <3>1, <3>2, SentBecause
  <2> QED
    BY <2>3, <2>4
<1>5. ASSUME step' = "invalid" PROVE Dead(mem.pending)' /\ mem'.pending \notin receipts'
  <2>1. mem' = mem
    BY <1>5, InvalidBecause
  <2>2. CASE step = "invalid"
    <3>1. Dead(mem.pending)'
      <4>1. \A q \in Requests : asks[q] # None /\ Dead(q) => Dead(q)'
        BY DeadStays
      <4>2. PICK q \in Requests : q = mem.pending
        BY <1>3, <2>2
      <4> QED
        BY <1>3, <2>1, <2>2, <4>1, <4>2 DEF Dead
    <3>2. mem.pending \notin receipts'
      BY <1>2, <1>3, <2>2, CountsBecause
    <3> QED
      BY <2>1, <3>1, <3>2
  <2>3. ASSUME NEW r \in Requests, Handle(r), step # "invalid"
        PROVE  Dead(mem.pending)' /\ mem'.pending \notin receipts'
    <3>1. /\ mem.pending = r /\ asks[r].purpose # "recovery"
          /\ r \notin receipts /\ Declines(r) /\ asks' = asks
      BY <1>5, <2>3 DEF Handle
    <3>2. asks[r] # None /\ r \in flight
      BY <1>1, <2>3 DEF Handle, Ordered, AskedFirst
    <3>3. asks[r] \notin host.open
      BY <1>1, <3>1 DEF Declines, Valid, CardsAreOnce
    <3> QED
      BY <2>1, <3>1, <3>3 DEF Declines, Dead, hostVars
  <2> QED
    BY <1>5, <2>2, <2>3, InvalidBecause
<1> QED
  BY <1>4, <1>5 DEF Covered, CoveredAs

-----------------------------------------------------------------------------
(* The theorems *)

LEMMA Initially == Init => IInv
<1> SUFFICES ASSUME Init PROVE IInv
  OBVIOUS
<1> USE PcClientAssumption DEF Init
<1>1. Activation(1) \in Cards
  BY CardsFit
<1>2. /\ EmptyState \in States /\ EmptyState.paired = None /\ EmptyState.pending = None
      /\ EmptyState.card = None /\ EmptyState.generation = 0
  BY DEF EmptyState, States
<1>3. NoTab \in TabRow /\ NoTab.at = "none" /\ NoTab.generation = 0
  BY DEF NoTab, TabRow
<1>4. host.recovery = None /\ host.open = {Activation(1)} /\ host.issued = {Activation(1)}
  OBVIOUS
<1>5. PcTypeOK
  <2>1. ClientTypes
    BY <1>2 DEF ClientTypes
  <2>2. BridgeTypes
    BY <1>3 DEF BridgeTypes
  <2>3. HostTypes
    BY <1>1 DEF HostTypes
  <2> QED
    BY <2>1, <2>2, <2>3, TypeParts
<1>6. SavedState /\ LinkFits
  BY <1>2 DEF SavedState, LinkFits, Legal, FileFollows
<1>7. ThreadsKnow
  BY <1>2, <1>3 DEF ThreadsKnow, ThreadKnows
<1>8. CardsAreOnce
  <2>1. IsFiniteSet(host.issued) /\ Cardinality(host.issued) = 1
    BY <1>4, FS_Singleton
  <2>2. Activation(1).purpose = "activation" /\ Activation(1).secret = 1
    BY DEF Activation
  <2> QED
    BY <1>4, <2>1, <2>2 DEF CardsAreOnce, Claimed
<1>9. Ordered
  BY <1>2, <1>4 DEF Ordered, AskedFirst, Granted, SavedFirst, Stages
<1>10. Covered
  BY <1>4 DEF Covered
<1> QED
  BY <1>5, <1>6, <1>7, <1>8, <1>9, <1>10 DEF IInv

LEMMA Inductive == IInv /\ [Next]_pcvars => IInv'
<1> SUFFICES ASSUME IInv, [Next]_pcvars PROVE IInv'
  OBVIOUS
<1>1. PcTypeOK'
  <2>1. PcTypeOK /\ IsFiniteSet(host.issued)
    BY DEF IInv, CardsAreOnce
  <2>2. ClientTypes' /\ BridgeTypes' /\ HostTypes'
    BY <2>1, ClientTypesKept, BridgeTypesKept, HostTypesKept
  <2> QED
    BY <2>2 DEF PcTypeOK, ClientTypes, BridgeTypes, HostTypes, TabRow
<1>2. Ordered'
  BY AskedFirstKept, GrantedKept, SavedFirstKept, StagesKept DEF Ordered
<1> QED
  BY <1>1, <1>2, SavedStateKept, LinkFitsKept, ThreadsKnowKept, CardsAreOnceKept, CoveredKept
     DEF IInv

LEMMA Always == Spec => []IInv
BY Initially, Inductive, PTL DEF Spec

(* The saved state can always be loaded, and a request carried for a       *)
(* browser session goes out with the token of the pairing the session was  *)
(* opened for: for any number of browser threads and requests.             *)
THEOREM SavedAndInScope == Spec => []PcInv
<1>1. IInv => PcInv
  <2> SUFFICES ASSUME IInv PROVE PcInv
    OBVIOUS
  <2>1. FileIsLegal
    BY DEF IInv, SavedState, FileIsLegal
  <2>2. ASSUME NEW t \in Tabs, tab[t].at # "none", Carried(t)
        PROVE  link.auth = tab[t].of /\ mem.paired = tab[t].of
    BY <2>2 DEF IInv, Carried, InScope, SamePairing, Connected, LinkFits, ThreadsKnow,
                ThreadKnows
  <2> QED
    BY <2>1, <2>2 DEF IInv, PcInv, SessionsKeepTheirPairing
<1> QED
  BY <1>1, Always, PTL

(* No recovery secret and no device token that the product accepted is     *)
(* lost to the client and its user - but those of a request that was sent  *)
(* while the file did not hold it.                                         *)
THEOREM NothingAcceptedIsLost == Spec => []NothingIsLost
<1>1. IInv => NothingIsLost
  <2> SUFFICES ASSUME IInv PROVE NothingIsLost
    OBVIOUS
  <2>1. Covered /\ Granted
    BY DEF IInv, Ordered
  <2>2. RecoveryIsPossible
    BY <2>1 DEF RecoveryIsPossible, Covered, Granted, Held, Kept
  <2>3. NoOrphan
    BY <2>1 DEF NoOrphan, Covered, Held, Kept
  <2> QED
    BY <2>2, <2>3 DEF NothingIsLost
<1> QED
  BY <1>1, Always, PTL
=============================================================================
