---------------------------- MODULE MCOutQueue ----------------------------
(* A ring of five slots, scroll limits 2 to 4. *)
EXTENDS OutQueue

CONSTANTS a, b

MCText == {a, b}
MCDefault == {Default}
=============================================================================
