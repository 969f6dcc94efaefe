---------------------------- MODULE MCBleGateway ----------------------------
(* BleGateway on a small instance: two peers that share one place. *)
EXTENDS BleGateway, TLC

=============================================================================
