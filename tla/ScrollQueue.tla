---------------------------- MODULE ScrollQueue ----------------------------
(***************************************************************************)
(* What the output queue of a connection promises: the latest strings, at  *)
(* most as many as the scroll limit of the player, in the order they were  *)
(* put.  The oldest is dropped when one more is put; setting the limit     *)
(* with the scroll command drops them all, loading it at login none.       *)
(***************************************************************************)
EXTENDS Naturals, Sequences

CONSTANTS Text,      (* the strings                                        *)
          Size,      (* the scroll limits                                  *)
          Default    (* the limit of a new connection                      *)

VARIABLES q, size

Init == q = <<>> /\ size = Default

Latest(s, n) == IF Len(s) > n THEN Tail(s) ELSE s

Put(t) == q' = Latest(Append(q, t), size) /\ UNCHANGED size

Send == q # <<>> /\ q' = Tail(q) /\ UNCHANGED size

Scroll(n, t) == q' = <<t>> /\ size' = n

Load(n, t) == q' = Append(q, t) /\ size' = n

Close == q' = <<>> /\ size' = Default

Next ==
  \/ \E t \in Text : Put(t) \/ \E n \in Size : Scroll(n, t) \/ Load(n, t)
  \/ Send
  \/ Close

Spec == Init /\ [][Next]_<<q, size>>
=============================================================================
