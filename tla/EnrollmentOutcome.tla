------------------------- MODULE EnrollmentOutcome -------------------------
(***************************************************************************)
(* What a person who asks for an enrollment may rely on, however the host  *)
(* gets there: a request is settled once, a face is saved only by a        *)
(* request that is still pending and whose authority has never lapsed, and *)
(* saving is the only way a face appears.                                  *)
(***************************************************************************)
CONSTANTS Requests, People, Nobody

VARIABLES
    outcome,    \* outcome[r]: none, pending, saved, ended or forgotten
    template,   \* template[u]: the request that saved the face of u, or Nobody
    trusted     \* requests whose authority holds since they were accepted

ovars == <<outcome, template, trusted>>

OutcomeInit ==
    /\ outcome = [r \in Requests |-> "none"]
    /\ template = [u \in People |-> Nobody]
    /\ trusted = {}

Accept(r) ==
    /\ outcome[r] = "none"
    /\ outcome' = [outcome EXCEPT ![r] = "pending"]
    /\ trusted' = trusted \cup {r}
    /\ UNCHANGED template

(* Accounts and devices change: authority lapses, and faces may be erased. *)
Lapse ==
    /\ trusted' \subseteq trusted
    /\ \A u \in People : template'[u] \in {template[u], Nobody}
    /\ UNCHANGED outcome

SaveFace(r, u) ==
    /\ outcome[r] = "pending" /\ r \in trusted
    /\ outcome' = [outcome EXCEPT ![r] = "saved"]
    /\ template' = [template EXCEPT ![u] = r]
    /\ trusted' \subseteq trusted

End(rs) ==
    /\ \A r \in rs : outcome[r] = "pending"
    /\ outcome' = [r \in Requests |-> IF r \in rs THEN "ended" ELSE outcome[r]]
    /\ UNCHANGED <<template, trusted>>

Forget ==
    /\ outcome' = [r \in Requests |-> IF outcome[r] = "none" THEN "none" ELSE "forgotten"]
    /\ template' = [u \in People |-> Nobody]
    /\ trusted' = {}

OutcomeNext ==
    \/ \E r \in Requests : Accept(r)
    \/ Lapse
    \/ \E r \in Requests, u \in People : SaveFace(r, u)
    \/ \E rs \in SUBSET Requests : End(rs)
    \/ Forget

OutcomeSpec == OutcomeInit /\ [][OutcomeNext]_ovars
=============================================================================
