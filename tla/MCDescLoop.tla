----------------------------- MODULE MCDescLoop -----------------------------
(* Six file descriptors, one of them that of the mother socket. *)
EXTENDS DescLoop
=============================================================================
