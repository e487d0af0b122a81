------------------------------ MODULE UnitPool ------------------------------
(***************************************************************************)
(* What the allocator of fixed-size records promises its callers: a record *)
(* that nobody holds, and more memory taken only when every record is held. *)
(***************************************************************************)
EXTENDS Naturals

CONSTANTS Initial,   (* records at the start                               *)
          Delta      (* records added when all are held                    *)

VARIABLES held,      (* the records in somebody's hands                    *)
          used,      (* how many they are                                  *)
          max

Unit == 0 .. max - 1

Init == held = {} /\ used = 0 /\ max = Initial

Alloc ==
  /\ max' = IF held = Unit THEN max + Delta ELSE max
  /\ \E u \in Unit' \ held : held' = held \cup {u}
  /\ used' = used + 1

Free ==
  /\ \E u \in held : held' = held \ {u}
  /\ used' = used - 1
  /\ UNCHANGED max

Spec == Init /\ [][Alloc \/ Free]_<<held, used, max>>
=============================================================================
