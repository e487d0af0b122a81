------------------------------ MODULE MCWorld ------------------------------
(***************************************************************************)
(* The lists and pointers of the world, side by side: the passes over the  *)
(* connections, the affects per round in the records of the allocator,     *)
(* objects and who has them, followers and groups, and the affects that    *)
(* change numbers.  A behaviour runs one of them, its part, and the others *)
(* stay as they start, so that the run has the sum of their states.        *)
(***************************************************************************)
EXTENDS RoundAffects, DescLoop, Belongings, Followers, Affects, TLC
(* RoundAffects: three owners, and at most three affects in a table of two *)
(* that grows.  DescLoop: six file descriptors, one of them that of the    *)
(* mother socket.  Belongings: three objects, a player and a mob, a place  *)
(* for a light and another.  Followers: two players and a mob in two rooms.*)
(* Affects: a spell of two parts, and two that are joined to themselves,   *)
(* of which one gives an ability; a ring that gives it too, and a sword    *)
(* for the evil.                                                           *)

CONSTANTS c1, c2, c3

MCOwner == {c1, c2, c3}
Owners == Permutations(MCOwner)

PiecesOf == [bless |-> {"p", "q"}, strength |-> {"r"}, sleep |-> {"s"}]
ModOf == [p |-> 1, q |-> -2, r |-> 1, s |-> 0]
DurationOf == [bless |-> 0, strength |-> 1, sleep |-> 1]
BitOf == [bless |-> "none", strength |-> "none", sleep |-> "B"]
ItemModOf == [ring |-> 2, sword |-> 1]
ItemBitOf == [ring |-> "B", sword |-> "none"]
RoundBitOf == [fear |-> "B"]

VARIABLE part

-----------------------------------------------------------------------------
world_vars == <<part, vars, loop_vars, w, follow_vars, aff_vars>>

(* Two connections at the end of a pulse: a state DescLoop reaches, too,   *)
(* which spares the search the way to it.                                  *)
TwoConnected ==
  /\ s = 1 /\ 2 < Avail
  /\ desc_list = <<2, 0>> /\ last_desc = 2
  /\ pass = 1 /\ point = 2 /\ next_to_process = NoFd /\ treating = FALSE /\ untreated = {0, 2}
  /\ banned = FALSE

WorldInit ==
  /\ part \in {"rounds", "loop", "things", "band", "pets", "spells"}
  /\ LoopInit \/ (part = "loop" /\ TwoConnected)
  /\ Init /\ BelongInit /\ AffInit
  /\ FollowInit

(* Of the objects one is a light at most.                                  *)
OneLight == Cardinality({o \in Obj : w'.type[o] = "LIGHT"}) <= 1

(* A band of three, who stand, or one of them sleeps; a player and a pet,  *)
(* who also rest and sit.                                                  *)
Upright ==
  /\ \A c \in Char : pos'[c] \in {SLEEPING, STANDING}
  /\ Cardinality({c \in Char : pos'[c] = SLEEPING}) <= 1
Pair == room'["q"] = NONE

RoundStep(A) == part = "rounds" /\ A /\ UNCHANGED <<part, loop_vars, w, follow_vars, aff_vars>>
LoopStep(A) == part = "loop" /\ A /\ UNCHANGED <<part, vars, w, follow_vars, aff_vars>>
ThingStep(A) == part = "things" /\ A /\ UNCHANGED <<part, vars, loop_vars, follow_vars, aff_vars>>
FollowStep(p, A) == part = p /\ A /\ UNCHANGED <<part, vars, loop_vars, w, aff_vars>>
SpellStep(A) == part = "spells" /\ A /\ UNCHANGED <<part, vars, loop_vars, w, follow_vars>>

WorldNext ==
  \/ RoundStep(Next) \/ LoopStep(LoopNext) \/ ThingStep(BelongNext /\ OneLight)
  \/ FollowStep("band", FollowNext /\ Upright) \/ FollowStep("pets", FollowNext /\ Pair)
  \/ SpellStep(AffNext)

WorldSpec == WorldInit /\ [][WorldNext]_world_vars

-----------------------------------------------------------------------------
(* Properties: those of the parts.  ListsAgree, WalkCovers and IsPool are  *)
(* of RoundAffects and its allocator, PassCovers and SelectSeesAll of      *)
(* DescLoop, OnePlace of Belongings, LinksAgree, NoLoops and GroupEnds of  *)
(* Followers, and EffectsAgree of Affects, as they stand.                  *)

(* Every part keeps its types. *)
TypesOK ==
  /\ TypeOK
  /\ LoopOK
  /\ BelongingsOK
  /\ FollowersOK
  /\ AffOK
=============================================================================
