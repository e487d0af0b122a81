----------------------------- MODULE MCSessions -----------------------------
(* Sessions for TLC: a player, a wizard and a wizard above him. *)
EXTENDS Sessions, TLC

CONSTANTS mortal, wizard, elder

MCName  == {mortal, wizard, elder}
MCTwo   == {mortal, wizard}
MCLevel == mortal :> 1 @@ wizard :> 2 @@ elder :> 3
Sym     == Permutations(Desc) \cup Permutations(Char)
=============================================================================
