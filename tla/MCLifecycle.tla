----------------------------- MODULE MCLifecycle ----------------------------
(* Instances of Lifecycle. *)
EXTENDS Lifecycle

(* Two of the three keys: one is stored before the other.                  *)
TwoKeys == <<"DEVADDR", "NWKSKEY">>
=============================================================================
