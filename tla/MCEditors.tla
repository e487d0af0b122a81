----------------------------- MODULE MCEditors -----------------------------
(* One editor, and a table of objects that are firearms. *)
EXTENDS Editors
=============================================================================
