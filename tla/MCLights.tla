------------------------------ MODULE MCLights ------------------------------
(* A player with a light in two rooms. *)
EXTENDS Belongings
=============================================================================
