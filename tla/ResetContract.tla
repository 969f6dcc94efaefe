---------------------------- MODULE ResetContract ----------------------------
(***************************************************************************)
(* What a developer reset promises to whoever asks for one: each request   *)
(* wipes the product at most once, each wipe opens a new ownership         *)
(* generation, and a request is answered with a receipt only after its     *)
(* wipe - across crashes, restarts and retries.                            *)
(***************************************************************************)
EXTENDS Naturals

CONSTANT Requests

VARIABLES
    done,       \* the requests whose wipe has happened
    told,       \* the requests answered with a receipt
    generation  \* the product's ownership generation

ContractInit == done = {} /\ told = {} /\ generation = 1

Wipe(r) ==
    /\ r \notin done
    /\ done' = done \cup {r}
    /\ generation' = generation + 1
    /\ UNCHANGED told

Tell(r) ==
    /\ r \in done
    /\ told' = told \cup {r}
    /\ UNCHANGED <<done, generation>>

ContractNext == \E r \in Requests : Wipe(r) \/ Tell(r)

ContractSpec == ContractInit /\ [][ContractNext]_<<done, told, generation>>
=============================================================================
