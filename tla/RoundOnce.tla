----------------------------- MODULE RoundOnce -----------------------------
(***************************************************************************)
(* What a round of combat promises: everybody who fights when it begins    *)
(* and goes on fighting until his turn comes has one turn, and nobody has  *)
(* two; who joins a fight meanwhile waits for the next round.  So does, at *)
(* most one in an act, who leaves his fight for another one in it.         *)
(***************************************************************************)
CONSTANTS Fighter, None

VARIABLES fighting,   (* who is fighting                                   *)
          waiting,    (* whose turn is still to come in this round         *)
          turn        (* whose turn it is, or None between the rounds      *)

Init == fighting = {} /\ waiting = {} /\ turn = None

Between ==
  /\ turn = None
  /\ fighting' \in SUBSET Fighter
  /\ UNCHANGED <<waiting, turn>>

Begin ==
  /\ turn = None /\ fighting # {}
  /\ turn' \in fighting
  /\ waiting' = fighting \ {turn'}
  /\ UNCHANGED fighting

Act ==
  /\ turn # None
  /\ fighting' \in SUBSET Fighter
  /\ \E again \in Fighter \cup {None} : waiting' = (waiting \cap fighting') \ {again}
  /\ UNCHANGED turn

Pass ==
  /\ turn # None
  /\ IF waiting = {} THEN turn' = None ELSE turn' \in waiting
  /\ waiting' = waiting \ {turn'}
  /\ UNCHANGED fighting

Spec == Init /\ [][Between \/ Begin \/ Act \/ Pass]_<<fighting, waiting, turn>>
=============================================================================
