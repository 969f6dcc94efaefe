----------------------------- MODULE PcClient -----------------------------
(***************************************************************************)
(* The Windows client: one saved pairing, the commissioning request that   *)
(* leads to it, one Bluetooth connection, and the browser sessions served  *)
(* over that connection.  It is PcClientController with PcClientStore,     *)
(* BleApiClient and _BrowserSessions; the product at the other end keeps   *)
(* only what decides its answers (modules SecurityStore and BleGateway     *)
(* have the rest).                                                         *)
(*                                                                         *)
(* The client's setup lock is held while step # "idle": one operation at a *)
(* time, each in as many steps as others can come between.  Others are the *)
(* product and its other users, the connection, the browser threads before *)
(* they take the lock, and the end of the process.  A request may reach    *)
(* the product after the client has given up on it, or never.              *)
(*                                                                         *)
(* A request r stands for its request_id, its device token and, where the  *)
(* purpose has one, the new recovery secret: all are drawn together.       *)
(***************************************************************************)
EXTENDS Naturals, FiniteSets

CONSTANTS
    Requests,    \* request ids, taken in order; none is used twice
    Tabs,        \* requests and sessions of the browser
    MaxSecrets,  \* bound of the model: activation secrets and invitations issued
    None

ASSUME PcClientAssumption ==
    /\ Requests \subseteq Nat \ {0} /\ MaxSecrets \in Nat \ {0}
    /\ None \notin Nat

VARIABLES
    mem,        \* self._state
    disk,       \* the file of PcClientStore
    staged,     \* _staged_card
    link,       \* _client: usable is is_reusable, auth its bearer
    step,       \* where the operation that holds the setup lock is
    asks,       \* the card each request was made from, once it was made
    flight,     \* requests on their way to the product
    tab,        \* what each browser thread or session knows: see NoTab
    downloaded, \* _recovery_downloaded: generations, by setup session
    exported,   \* recovery secrets the user has in a file
    forgotten,  \* history: pairings removed by forget
    host,       \* commissioning_state, and the open invitations
    device,     \* paired_devices of the product: what became of r's device
    receipts,   \* commissioning_attempts
    unsaved     \* history: requests sent although the file did not hold them

clientVars == <<mem, disk, staged, link, step>>
bridgeVars == <<tab, downloaded, exported>>
hostVars == <<host, device, receipts>>
history == <<forgotten, unsaved>>
otherVars == <<hostVars, asks, flight, history>>
pcvars == <<clientVars, bridgeVars, otherVars>>

Elsewhere == 0      \* a recovery secret some other client has drawn

EmptyState == [generation |-> 0, paired |-> None, pending |-> None, card |-> None]

(* of is the pairing the thread means; current is whether the connection   *)
(* epoch it has read is still the client's.                                *)
NoTab == [at |-> "none", generation |-> 0, current |-> FALSE, of |-> None]

Cards == [purpose : {"activation", "pairing_invite"}, secret : 1..MaxSecrets]
    \cup [purpose : {"recovery"}, secret : Requests \cup {Elsewhere}]

Activation(n) == [purpose |-> "activation", secret |-> n]
Invitation(n) == [purpose |-> "pairing_invite", secret |-> n]

Connected == link # None /\ link.usable

Idle == step = "idle"

(* _normalize_state and its validators *)
Legal(s) ==
    /\ s.paired = None \/ s.pending = None
    /\ s.card # None => s.paired # None

-----------------------------------------------------------------------------
(* A new epoch: no thread that has read the last one is current again. *)
Outdated == [t \in Tabs |-> [tab[t] EXCEPT !.current = FALSE]]

(* invalidate_all_auth, without and with a new epoch *)
SessionsOff == [t \in Tabs |-> IF tab[t].at = "in" THEN NoTab ELSE tab[t]]
SignedOut == [t \in Tabs |-> IF tab[t].at = "in" THEN NoTab ELSE Outdated[t]]

(* _drop_unusable_client, _take_client and disconnect: the connection goes *)
(* and with it the epoch. *)
DropLink == link' = None /\ tab' = Outdated

(* PcClientStore.save replaces the file or fails. *)
SaveFails == UNCHANGED disk

(* save first, assign afterwards *)
SaveThenAssign(s) == disk' = s /\ mem' = s

Init ==
    /\ mem = EmptyState /\ disk = EmptyState
    /\ staged = None /\ link = None /\ step = "idle"
    /\ asks = [r \in Requests |-> None] /\ flight = {}
    /\ tab = [t \in Tabs |-> NoTab]
    /\ downloaded = [t \in Tabs |-> 0]
    /\ exported = {} /\ forgotten = {}
    /\ host = [recovery |-> None, open |-> {Activation(1)}, issued |-> {Activation(1)}]
    /\ device = [r \in Requests |-> "none"] /\ receipts = {}
    /\ unsaved = {}

-----------------------------------------------------------------------------
(* Setup: cards, connections, requests *)

(* Any card the user was ever given: spent and revoked ones too. *)
InHand(c) ==
    IF c.purpose = "recovery" THEN c.secret \in exported \cup {Elsewhere}
                              ELSE c \in host.issued

StageCard(c) ==
    /\ Idle /\ mem.paired = None /\ mem.pending = None
    /\ InHand(c)
    /\ staged' = c
    /\ DropLink
    /\ UNCHANGED <<mem, disk, step, downloaded, exported, otherVars>>

(* scan lets go of a connection that was lost. *)
Scan ==
    /\ Idle /\ link # None /\ ~link.usable
    /\ DropLink
    /\ UNCHANGED <<mem, disk, staged, step, downloaded, exported, otherVars>>

(* connect after a scan.  The peer is the one product; without a saved     *)
(* pairing nobody is authenticated.  Whatever fails closes the connection. *)
Connect ==
    /\ Idle
    /\ \/ mem.paired # None \/ mem.pending # None \/ staged # None
    /\ \/ link' = None
       \/ /\ mem.paired # None => device[mem.paired] = "active"
          /\ link' = [usable |-> TRUE, auth |-> mem.paired]
    /\ tab' = IF link = None /\ link' = None THEN SessionsOff ELSE SignedOut
    /\ downloaded' = [t \in Tabs |-> 0]
    /\ UNCHANGED <<mem, disk, staged, step, exported, otherVars>>

Disconnect ==
    /\ Idle
    /\ link' = None /\ tab' = SignedOut
    /\ downloaded' = [t \in Tabs |-> 0]
    /\ UNCHANGED <<mem, disk, staged, step, exported, otherVars>>

(* Mutant: the request is sent before it is saved. *)
CommissionUnsaved(r) ==
    /\ Idle /\ mem.paired = None /\ mem.pending = None /\ staged # None
    /\ Connected
    /\ asks[r] = None /\ \A q \in Requests : q < r => asks[q] # None
    /\ asks' = [asks EXCEPT ![r] = staged]
    /\ mem' = [mem EXCEPT !.pending = r]
    /\ step' = "await" /\ flight' = flight \cup {r}
    /\ UNCHANGED <<disk, staged, link, bridgeVars, hostVars, history>>

(* The request is put in memory, saved, and sent; when the save fails the  *)
(* operation ends there and memory keeps it.                               *)
Commission(r) ==
    /\ Idle /\ mem.paired = None /\ mem.pending = None /\ staged # None
    /\ Connected
    /\ asks[r] = None /\ \A q \in Requests : q < r => asks[q] # None
    /\ asks' = [asks EXCEPT ![r] = staged]
    /\ mem' = [mem EXCEPT !.pending = r]
    /\ \/ disk' = mem' /\ step' = "await" /\ flight' = flight \cup {r}
       \/ SaveFails /\ UNCHANGED <<step, flight>>
    /\ UNCHANGED <<staged, link, bridgeVars, hostVars, history>>

RetryCommission ==
    /\ Idle /\ mem.pending # None /\ Connected
    /\ step' = "await" /\ flight' = flight \cup {mem.pending}
    /\ unsaved' = IF disk.pending = mem.pending THEN unsaved ELSE unsaved \cup {mem.pending}
    /\ UNCHANGED <<mem, disk, staged, link, bridgeVars, hostVars, asks, forgotten>>

(* No answer, or one that cannot be read: the outcome is unknown. *)
OutcomeUnknown ==
    /\ step \in {"await", "completed", "invalid", "refused"}
    /\ step' = "idle"
    /\ \/ DropLink
       \/ UNCHANGED <<link, tab>>
    /\ UNCHANGED <<mem, disk, staged, downloaded, exported, otherVars>>

(* invalid_pairing_invite and invalid_activation end the request, every    *)
(* other refusal leaves it for a retry.                                    *)
Refused ==
    /\ \/ step = "refused" /\ UNCHANGED <<mem, disk, staged, link, tab>>
       \/ step = "invalid" /\ SaveFails /\ UNCHANGED <<mem, staged, link, tab>>
       \/ /\ step = "invalid"
          /\ SaveThenAssign([mem EXCEPT !.pending = None])
          /\ staged' = None
          /\ DropLink
    /\ step' = "idle"
    /\ UNCHANGED <<downloaded, exported, otherVars>>

Secretive(r) == asks[r].purpose \in {"activation", "recovery"}

Paired(r) ==
    [generation |-> mem.generation + 1, paired |-> r, pending |-> None,
     card |-> IF Secretive(r) THEN r ELSE None]

(* _complete_commission up to the save; the connection may be gone since   *)
(* the response was read.                                                  *)
Complete ==
    /\ step = "completed"
    /\ \/ /\ SaveThenAssign(Paired(mem.pending))
          /\ staged' = None
          /\ step' = IF Connected THEN "authenticate" ELSE "idle"
       \/ SaveFails /\ UNCHANGED <<mem, staged>> /\ step' = "idle"
    /\ UNCHANGED <<link, bridgeVars, otherVars>>

(* and its sign-in with the new token *)
Authenticate ==
    /\ step = "authenticate" /\ step' = "idle"
    /\ \/ /\ Connected /\ device[mem.paired] = "active"
          /\ link' = [link EXCEPT !.auth = mem.paired]
          /\ UNCHANGED tab
       \/ DropLink
    /\ UNCHANGED <<mem, disk, staged, downloaded, exported, otherVars>>

Forget ==
    /\ Idle /\ mem.paired # None /\ mem.pending = None /\ mem.card = None
    /\ \/ /\ SaveThenAssign([EmptyState EXCEPT !.generation = mem.generation + 1])
          /\ forgotten' = forgotten \cup {mem.paired}
          /\ staged' = None /\ link' = None /\ tab' = SignedOut
          /\ downloaded' = [t \in Tabs |-> 0]
       \/ SaveFails /\ UNCHANGED <<mem, forgotten, staged, link, tab, downloaded>>
    /\ UNCHANGED <<step, exported, hostVars, asks, flight, unsaved>>

-----------------------------------------------------------------------------
(* The browser: sessions, exports and acknowledgements *)

Enters(t, at) == tab' = [tab EXCEPT ![t].at = at]

Leaves(t) == tab' = [tab EXCEPT ![t] = NoTab]

(* _require_credential_scope, without and with the connection's epoch *)
SamePairing(t) == mem.paired # None /\ tab[t].generation = mem.generation
InScope(t) == SamePairing(t) /\ tab[t].current

(* credential_snapshot, before any lock is taken *)
Snapshot(t) ==
    /\ tab[t] = NoTab /\ mem.paired # None
    /\ tab' = [tab EXCEPT ![t] = [at |-> "asked", generation |-> mem.generation,
                                  current |-> TRUE, of |-> mem.paired]]
    /\ UNCHANGED <<clientVars, downloaded, exported, otherVars>>

(* Mutant: whoever is signed in over the connection answers. *)
CarriedBlindly(t) == Connected /\ link.auth # None

(* A request is carried for t over the signed-in connection: it is         *)
(* answered, refused because the device is gone, or lost.                  *)
Carried(t) == InScope(t) /\ Connected /\ link.auth # None

NotCarried(t) ==
    \/ ~Carried(t) /\ Leaves(t) /\ UNCHANGED link
    \/ Carried(t) /\ link' = None /\ tab' = [Outdated EXCEPT ![t] = NoTab]
    \/ /\ Carried(t) /\ device[link.auth] # "active"
       /\ link' = [link EXCEPT !.auth = None] /\ Leaves(t)

Answered(t) == Carried(t) /\ device[link.auth] = "active"

Login(t) ==
    /\ Idle /\ tab[t].at = "asked"
    /\ \/ Answered(t) /\ Enters(t, "confirmed") /\ UNCHANGED link
       \/ NotCarried(t)
    /\ UNCHANGED <<mem, disk, staged, step, downloaded, exported, otherVars>>

(* register_auth inside credential_scope *)
Register(t) ==
    /\ Idle /\ tab[t].at = "confirmed"
    /\ IF InScope(t) THEN Enters(t, "in") ELSE Leaves(t)
    /\ UNCHANGED <<clientVars, downloaded, exported, otherVars>>

(* require_auth, then proxy_json *)
Proxy(t) ==
    /\ Idle /\ tab[t].at = "in"
    /\ \/ Answered(t) /\ UNCHANGED <<link, tab>>
       \/ NotCarried(t)
    /\ UNCHANGED <<mem, disk, staged, step, downloaded, exported, otherVars>>

(* logout, and the session that expires *)
Logout(t) ==
    /\ tab[t].at = "in" /\ Leaves(t)
    /\ UNCHANGED <<clientVars, downloaded, exported, otherVars>>

(* authorize_recovery_export: a sign-in, the scope once more, and the card *)
(* for the user's file; the connection may not have survived the response. *)
Export(t) ==
    /\ Idle /\ tab[t].at = "asked"
    /\ \/ /\ Answered(t) /\ mem.card # None
          /\ exported' = exported \cup {mem.card}
          /\ \/ Enters(t, "exported") /\ UNCHANGED link
             \/ link' = None /\ tab' = [Outdated EXCEPT ![t].at = "exported"]
       \/ Answered(t) /\ mem.card = None /\ Leaves(t) /\ UNCHANGED <<link, exported>>
       \/ NotCarried(t) /\ UNCHANGED exported
    /\ UNCHANGED <<mem, disk, staged, step, downloaded, otherVars>>

(* mark_recovery_downloaded, under a lock of its own *)
MarkDownloaded(t) ==
    /\ tab[t].at = "exported"
    /\ downloaded' = [downloaded EXCEPT ![t] = tab[t].generation]
    /\ Leaves(t)
    /\ UNCHANGED <<clientVars, exported, otherVars>>

(* require_recovery_downloaded, likewise *)
AskToAcknowledge(t) ==
    /\ tab[t].at = "asked"
    /\ IF downloaded[t] = tab[t].generation THEN Enters(t, "acknowledging") ELSE Leaves(t)
    /\ UNCHANGED <<clientVars, downloaded, exported, otherVars>>

(* The card leaves memory first and the file second. *)
Acknowledge(t) ==
    /\ Idle /\ tab[t].at = "acknowledging"
    /\ \/ /\ ~SamePairing(t)
          /\ UNCHANGED <<mem, disk, downloaded>>
       \/ /\ SamePairing(t)
          /\ mem' = [mem EXCEPT !.card = None]
          /\ \/ disk' = IF mem.card = None THEN disk ELSE mem'
             \/ mem.card # None /\ SaveFails
          /\ downloaded' = IF mem.card # None /\ disk' = disk THEN downloaded
                           ELSE [q \in Tabs |-> 0]
    /\ Leaves(t)
    /\ UNCHANGED <<staged, link, step, exported, otherVars>>

-----------------------------------------------------------------------------
(* What happens to the client *)

(* The disconnected callback, or an exchange that ended badly. *)
LinkLost ==
    /\ Connected
    /\ link' = [usable |-> FALSE, auth |-> None]
    /\ UNCHANGED <<mem, disk, staged, step, bridgeVars, otherVars>>

(* The process ends, by close or otherwise, and starts again from its file. *)
Restart ==
    /\ mem' = IF Legal(disk) THEN disk ELSE EmptyState
    /\ staged' = None /\ link' = None /\ step' = "idle"
    /\ tab' = [t \in Tabs |-> NoTab]
    /\ downloaded' = [t \in Tabs |-> 0]
    /\ UNCHANGED <<disk, exported, otherVars>>

-----------------------------------------------------------------------------
(* The product *)

DevicesGone == [r \in Requests |-> IF device[r] = "active" THEN "gone" ELSE device[r]]

(* A recovery leaves no device but its own. *)
WithDevice(r) ==
    [IF asks[r].purpose = "recovery" THEN DevicesGone ELSE device EXCEPT ![r] = "active"]

Claimed == host.recovery # None

Valid(c) ==
    IF c.purpose = "recovery" THEN Claimed /\ c.secret = host.recovery
    ELSE c \in host.open /\ (c.purpose = "activation") = ~Claimed

(* claim, recover and pair where they have no receipt *)
Grants(r) ==
    /\ Valid(asks[r])
    /\ host' = [host EXCEPT !.recovery = IF Secretive(r) THEN r ELSE host.recovery,
                            !.open = IF Secretive(r) THEN {} ELSE @ \ {asks[r]}]
    /\ device' = WithDevice(r)
    /\ receipts' = receipts \cup {r}

Declines(r) == ~Valid(asks[r]) /\ UNCHANGED hostVars

(* A request that was answered before is answered again; another PIN, a    *)
(* closed window, a lockout or maintenance refuses anything.  A copy sent  *)
(* earlier may still be on its way.                                        *)
Handle(r) ==
    /\ r \in flight /\ flight' \in {flight, flight \ {r}}
    /\ \E reply \in {"completed", "invalid", "refused"} :
         /\ \/ reply = "completed" /\ r \in receipts /\ UNCHANGED hostVars
            \/ reply = "completed" /\ r \notin receipts /\ Grants(r)
            \/ /\ reply = IF asks[r].purpose = "recovery" THEN "refused" ELSE "invalid"
               /\ r \notin receipts /\ Declines(r)
            \/ reply = "refused" /\ UNCHANGED hostVars
         /\ step' = IF step = "await" /\ mem.pending = r THEN reply ELSE step
    /\ UNCHANGED <<mem, disk, staged, link, bridgeVars, asks, history>>

LoseRequest(r) ==
    /\ r \in flight /\ flight' = flight \ {r}
    /\ UNCHANGED <<clientVars, bridgeVars, hostVars, asks, history>>

NextSecret == Cardinality(host.issued) + 1

Issue ==
    /\ Claimed /\ NextSecret <= MaxSecrets
    /\ host' = [host EXCEPT !.issued = @ \cup {Invitation(NextSecret)},
                            !.open = @ \cup {Invitation(NextSecret)}]
    /\ UNCHANGED <<device, receipts>>

(* An invitation expires or its issuer goes. *)
Withdraw ==
    /\ Claimed /\ host.open # {}
    /\ host' = [host EXCEPT !.open = {}]
    /\ UNCHANGED <<device, receipts>>

RevokeDevice ==
    /\ \E r \in Requests : device[r] = "active" /\ device' = [device EXCEPT ![r] = "gone"]
    /\ UNCHANGED <<host, receipts>>

(* Somebody claims the product, or recovers it with a card of the user's. *)
TakenOver ==
    /\ host.recovery \in exported \cup {None, Elsewhere}
    /\ host' = [host EXCEPT !.recovery = Elsewhere, !.open = {}]
    /\ device' = DevicesGone
    /\ UNCHANGED receipts

(* The developer reset *)
Wiped ==
    /\ Claimed /\ NextSecret <= MaxSecrets
    /\ host' = [recovery |-> None, open |-> {Activation(NextSecret)},
                issued |-> host.issued \cup {Activation(NextSecret)}]
    /\ device' = DevicesGone
    /\ receipts' = {}

Product ==
    /\ Issue \/ Withdraw \/ RevokeDevice \/ TakenOver \/ Wiped
    /\ UNCHANGED <<clientVars, bridgeVars, asks, flight, history>>

-----------------------------------------------------------------------------
Setup ==
    \/ \E c \in Cards : StageCard(c)
    \/ Scan \/ Connect \/ Disconnect
    \/ \E r \in Requests : Commission(r)
    \/ RetryCommission \/ OutcomeUnknown \/ Refused
    \/ Complete \/ Authenticate \/ Forget

Browser == \E t \in Tabs :
    \/ Snapshot(t) \/ Login(t) \/ Register(t) \/ Proxy(t) \/ Logout(t)
    \/ Export(t) \/ MarkDownloaded(t) \/ AskToAcknowledge(t) \/ Acknowledge(t)

Next ==
    \/ Setup \/ Browser \/ LinkLost \/ Restart \/ Product
    \/ \E r \in Requests : Handle(r) \/ LoseRequest(r)
Spec == Init /\ [][Next]_pcvars

-----------------------------------------------------------------------------
(* Properties *)

States == [generation : Nat, paired : Requests \cup {None},
           pending : Requests \cup {None}, card : Requests \cup {None}]

PcTypeOK ==
    /\ mem \in States /\ disk \in States
    /\ staged \in Cards \cup {None}
    /\ link \in [usable : BOOLEAN, auth : Requests \cup {None}] \cup {None}
    /\ step \in {"idle", "await", "completed", "invalid", "refused", "authenticate"}
    /\ asks \in [Requests -> Cards \cup {None}] /\ flight \subseteq Requests
    /\ tab \in [Tabs -> [at : {"none", "asked", "confirmed", "in", "exported", "acknowledging"},
                         generation : Nat, current : BOOLEAN, of : Requests \cup {None}]]
    /\ downloaded \in [Tabs -> Nat]
    /\ exported \subseteq Requests /\ forgotten \subseteq Requests /\ receipts \subseteq Requests
    /\ host \in [recovery : Requests \cup {None, Elsewhere}, open : SUBSET Cards, issued : SUBSET Cards]
    /\ device \in [Requests -> {"none", "active", "gone"}]
    /\ unsaved \subseteq Requests

(* Whatever the file holds can be loaded again: a pairing never shares it  *)
(* with a request, and a recovery card always comes with its pairing.      *)
FileIsLegal == Legal(disk) /\ Legal(mem)

(* A request carried for a browser session goes out with the token of the  *)
(* pairing that session was opened for, however many reconnections and     *)
(* pairings came between.                                                  *)
SessionsKeepTheirPairing ==
    \A t \in Tabs : tab[t].at # "none" /\ Carried(t) =>
        link.auth = tab[t].of /\ mem.paired = tab[t].of

PcInv == PcTypeOK /\ FileIsLegal /\ SessionsKeepTheirPairing

(* Whoever the product was claimed or recovered by, its recovery secret is *)
(* still to be had: in the client's file, or in the user's.                *)
RecoveryIsPossible ==
    host.recovery \in Requests \ unsaved =>
        host.recovery \in exported \cup {disk.card, disk.pending}

(* A device that still counts is one whose token the client can find again *)
(* or one the user has chosen to forget.                                   *)
NoOrphan ==
    \A r \in Requests \ unsaved : device[r] = "active" =>
        r \in forgotten \cup {disk.paired, disk.pending}

(* Lost answers, late arrivals, repeats, failed saves and restarts leave   *)
(* no secret of the product's unknown - unless the request was sent while  *)
(* the file did not hold it.                                               *)
NothingIsLost == RecoveryIsPossible /\ NoOrphan

(* docs/pc-bluetooth.md:115: commissioning writes save their request id and *)
(* generated credentials before sending.  So whichever request the product  *)
(* has accepted last, its recovery secret is in the file or the user has it *)
(* - after a save that failed and a retry as well.                          *)
AcceptedWasSaved ==
    host.recovery \in Requests => host.recovery \in exported \cup {disk.card, disk.pending}
=============================================================================
