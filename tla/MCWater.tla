------------------------------ MODULE MCWater ------------------------------
(* Water with as many atoms as a configuration says.                       *)
EXTENDS Water
=============================================================================
