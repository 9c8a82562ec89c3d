------------------------------ MODULE MCUplink ------------------------------
(* Instances of Uplink; the constants are given in the .cfg files. *)
EXTENDS Uplink
=============================================================================
