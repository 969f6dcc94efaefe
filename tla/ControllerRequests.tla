------------------------- MODULE ControllerRequests -------------------------
(* The controller seen through its serial line: the sketch implements      *)
(* module Requester.                                                       *)
EXTENDS Controller

(* authRequestCounter and authBootNonce have used these. *)
Asked == {id \in RequestIds : id[1] < boot \/ (id[1] = boot /\ id[2] <= issued)}

Promise == INSTANCE Requester
    WITH Ids <- RequestIds, NoId <- NoRequest, UpCap <- TxCap,
         asked <- Asked, engine <- motor, down <- rx, up <- tx

(* Behind the stepper, the sensor, the flash and the clock, every step of  *)
(* the sketch is one of Requester's: each request has a new id, is acted   *)
(* on at most once and only with the matching reply, and ends with one     *)
(* line or none.                                                           *)
ImplementsRequester == Promise!RequesterSpec
=============================================================================
