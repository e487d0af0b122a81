------------------------------ MODULE MCCombat ------------------------------
(* Combat for TLC: a duel of a player and a mob, a melee with one mob more. *)
EXTENDS Combat, TLC

CONSTANTS p, m, n, r, s

Duellists == {m}
Melee     == {m, n}
TwoRooms  == {r, s}
Alike     == Permutations(Melee)

(* What the melee leaves to the duel: lost links and the void, rest.  Of  *)
(* charms and confusions it has one at a time.                             *)
Small ==
  /\ \A c \in Players : world.room[c] \in Rooms => c \in world.linked
  /\ \A c \in Players : world.room[c] # Void
  /\ \A c \in Char : world.pos[c] \notin {SLEEPING, RESTING, SITTING}
  /\ Cardinality({c \in Char : world.hunt[c] # None})
       + Cardinality({c \in Mobs : world.master[c] # None}) <= 1
=============================================================================
