--------------------------- MODULE MCLightControl ---------------------------
(* Instances of LightControl. *)
EXTENDS LightControl

(* In range, and out of range in both components. *)
TwoSettings == {[color |-> 6500, bright |-> 10], [color |-> 9000, bright |-> 250]}
OneSetting == {[color |-> 6500, bright |-> 10]}

(* A range that keeps the duty cycle in bounds and one that does not fit   *)
(* eight bits and would make it wrap.                                      *)
TwoProfiles == {[low |-> 60, max |-> 255, gen |-> "DIM"],
                [low |-> 261, max |-> 200, gen |-> "other"]}
=============================================================================
