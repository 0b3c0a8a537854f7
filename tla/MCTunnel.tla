------------------------------ MODULE MCTunnel ------------------------------
(* Instances of Tunnel for TLC. *)
EXTENDS Tunnel

(* The timing properties speak of open tunnels only.                       *)
WhileOpen == stage = "open"
=============================================================================
