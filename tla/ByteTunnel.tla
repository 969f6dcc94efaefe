----------------------------- MODULE ByteTunnel -----------------------------
(***************************************************************************)
(* What a phone and the web server behind the gateway may rely on, however *)
(* many threads move the bytes: each side receives a prefix of what the    *)
(* other one sent, and a phone that is told CLOSED has everything and has  *)
(* left nothing behind.                                                    *)
(***************************************************************************)
EXTENDS Naturals

CONSTANT Tunnels

VARIABLES
    sentUp, gotUp,       \* chunks the phone sent, and those the server received
    sentDown, gotDown,   \* chunks the server sent, and those the phone received
    heard                \* heard[g]: open, closed or failed, as the phone was told

bvars == <<sentUp, gotUp, sentDown, gotDown, heard>>

FirstOf(n) == [i \in 1..n |-> i]

TunnelInit ==
    /\ sentUp = [g \in Tunnels |-> 0] /\ sentDown = [g \in Tunnels |-> 0]
    /\ gotUp = [g \in Tunnels |-> FirstOf(0)] /\ gotDown = [g \in Tunnels |-> FirstOf(0)]
    /\ heard = [g \in Tunnels |-> "open"]

SendUp(g) ==
    /\ heard[g] # "closed"
    /\ sentUp' = [sentUp EXCEPT ![g] = @ + 1]
    /\ UNCHANGED <<gotUp, sentDown, gotDown, heard>>

SendDown(g) ==
    /\ heard[g] # "closed"
    /\ sentDown' = [sentDown EXCEPT ![g] = @ + 1]
    /\ UNCHANGED <<sentUp, gotUp, gotDown, heard>>

(* A chunk already on its way may still reach the server of a failed tunnel. *)
ArriveUp(g, n) ==
    /\ n < sentUp[g] /\ gotUp[g] = FirstOf(n)
    /\ gotUp' = [gotUp EXCEPT ![g] = FirstOf(n + 1)]
    /\ UNCHANGED <<sentUp, sentDown, gotDown, heard>>

ArriveDown(g, n) ==
    /\ heard[g] = "open" /\ n < sentDown[g] /\ gotDown[g] = FirstOf(n)
    /\ gotDown' = [gotDown EXCEPT ![g] = FirstOf(n + 1)]
    /\ UNCHANGED <<sentUp, gotUp, sentDown, heard>>

Closed(g) ==
    /\ heard[g] = "open" /\ heard' = [heard EXCEPT ![g] = "closed"]
    /\ gotUp[g] = FirstOf(sentUp[g]) /\ gotDown[g] = FirstOf(sentDown[g])
    /\ UNCHANGED <<sentUp, gotUp, sentDown, gotDown>>

Failed(g) ==
    /\ heard[g] = "open" /\ heard' = [heard EXCEPT ![g] = "failed"]
    /\ UNCHANGED <<sentUp, gotUp, sentDown, gotDown>>

TunnelNext == \E g \in Tunnels :
    \/ SendUp(g) \/ SendDown(g) \/ Closed(g) \/ Failed(g)
    \/ \E n \in 0..sentUp[g] : ArriveUp(g, n)
    \/ \E n \in 0..sentDown[g] : ArriveDown(g, n)

TunnelSpec == TunnelInit /\ [][TunnelNext]_bvars
=============================================================================
