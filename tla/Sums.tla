-------------------------------- MODULE Sums --------------------------------
(***************************************************************************)
(* The sum of a function over a set.  It is a recursive function and no    *)
(* fold, so that it can be reasoned about.                                 *)
(***************************************************************************)
EXTENDS Integers

Total(f, S) ==
  LET total[T \in SUBSET S] ==
        IF T = {} THEN 0 ELSE LET x == CHOOSE x \in T : TRUE IN f[x] + total[T \ {x}]
  IN total[S]
=============================================================================
