------------------------------ MODULE Company ------------------------------
(***************************************************************************)
(* The characters of the models of followers: who they are, the rooms they *)
(* may be in and the positions they take.                                  *)
(***************************************************************************)
EXTENDS Naturals

CONSTANTS
  Char, Npc,           (* characters; those that are mobs                  *)
  Room,
  Positions,           (* the positions characters take, STANDING with them *)
  NONE                 (* NULL; also in_room of who is not in the world    *)

SLEEPING == 4
RESTING == 5
SITTING == 6
STANDING == 8

ASSUME FollowersAssumption ==
  /\ NONE \notin Char \cup Room
  /\ Npc \subseteq Char
  /\ STANDING \in Positions /\ Positions \subseteq {SLEEPING, RESTING, SITTING, STANDING}

=============================================================================
