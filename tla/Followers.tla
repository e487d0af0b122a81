----------------------------- MODULE Followers -----------------------------
(***************************************************************************)
(* Who follows whom: the master of a character and the list of its         *)
(* followers, groups, charmed and bought followers (act.group.c, the       *)
(* spells that make followers), what a fight and leaving the world do to   *)
(* them, and how a leader takes his followers along (act.movement.c).      *)
(*                                                                         *)
(* The lists of followers are sets here: no command depends on their       *)
(* order.  Doors, exhaustion, boats and wings decide who gets through: any *)
(* may stay behind.                                                        *)
(***************************************************************************)
EXTENDS Company

VARIABLES
  master, followers,
  group,               (* who has AFF_GROUP                                *)
  charm,               (* AFF_CHARM: by the spell, bought as a pet, or no  *)
  room, pos,
  file                 (* whether a player was saved with the spell on him *)

follow_vars == <<master, followers, group, charm, room, pos, file>>

FollowersOK ==
  /\ master \in [Char -> Char \cup {NONE}]
  /\ followers \in [Char -> SUBSET Char]
  /\ group \in SUBSET Char
  /\ charm \in [Char -> {"no", "spell", "pet"}]
  /\ room \in [Char -> Room \cup {NONE}]
  /\ pos \in [Char -> Positions]
  /\ file \in [Char -> BOOLEAN]

FollowInit ==
  /\ master = [c \in Char |-> NONE] /\ followers = [c \in Char |-> {}]
  /\ group = {} /\ charm = [c \in Char |-> "no"]
  /\ room = [c \in Char |-> NONE] /\ pos = [c \in Char |-> STANDING]
  /\ file = [c \in Char |-> FALSE]

-----------------------------------------------------------------------------
(* Whether c leads l already, himself or through others: he is in every    *)
(* set that has l and the masters of its members.                          *)
Upwards(S) == \A x \in S : master[x] \in S \cup {NONE}
circle_follow(c, l) == \A S \in SUBSET Char : l \in S /\ Upwards(S) => c \in S

(* Those of lost leave their masters, and then c follows l (NONE: nobody). *)
Rebound(lost, c, l) ==
  /\ master' = [x \in Char |-> IF x = c /\ l # NONE THEN l ELSE IF x \in lost THEN NONE ELSE master[x]]
  /\ followers' = [x \in Char |-> {k \in followers[x] : ~(k \in lost /\ master[k] = x)}
                                    \cup (IF x = l THEN {c} ELSE {})]
  /\ charm' = [x \in Char |-> IF x \in lost THEN "no" ELSE charm[x]]

(* Mutant: who takes a new leader stays in the list of the old one. *)
Led_not(c) == {}
Led(c) == IF master[c] = NONE THEN {} ELSE {c}
stop_follower(lost) == Rebound(lost, NONE, NONE)
add_follower(lost, c, l) == Rebound(lost, c, l)

die_follower(c) == Led(c) \cup followers[c]

is_same_group(c, v) ==
  /\ c \in group
  /\ LET m == IF master[c] = NONE THEN c ELSE master[c] IN
     m = v \/ (v \in followers[m] /\ v \in group)

InWorld(c) == room[c] # NONE
Here(c, v) == InWorld(c) /\ room[v] = room[c]

(* interpreter: who is charmed does what he is ordered.                    *)
Typed(c) == InWorld(c) /\ c \notin Npc /\ charm[c] = "no"
Ordered(c) ==
  /\ charm[c] # "no" /\ master[c] # NONE
  /\ Here(c, master[c]) /\ charm[master[c]] = "no" /\ pos[master[c]] >= SITTING
MayAct(c) == Typed(c) \/ Ordered(c)

bodies == <<room, pos, file>>

-----------------------------------------------------------------------------
(* The commands of act.group.c. *)

(* Mutant: that the one to follow is a follower himself is not seen. *)
no_circle(c, l) == FALSE
Circle(c, l) == circle_follow(c, l)

do_follow(c, l) ==
  /\ Typed(c) /\ pos[c] >= RESTING /\ Here(c, l)
  /\ IF l = c THEN master[c] # NONE ELSE ~Circle(c, l)
  /\ IF l = c THEN stop_follower({c}) ELSE add_follower(Led(c), c, l)
  /\ group' = group \ {c}
  /\ UNCHANGED bodies

(* Mutant: the members keep the sign of the group. *)
still_grouped(g, lost, c) == g
ungrouped(g, lost, c) == g \ (lost \cup {c})

do_ungroup(c) ==
  LET lost == Led(c) \cup {k \in followers[c] : k \notin Npc /\ charm[k] = "no"} IN
  /\ Typed(c) /\ pos[c] >= SITTING
  /\ stop_follower(lost)
  /\ group' = ungrouped(group, lost, c)
  /\ UNCHANGED bodies

(* "group all": he need not be the head of the group.                      *)
group_all(c) ==
  /\ MayAct(c) /\ c \notin Npc /\ pos[c] > SLEEPING
  /\ group' = group \cup {c} \cup {k \in followers[c] : Here(c, k)}
  /\ UNCHANGED <<master, followers, charm, bodies>>

do_group(c, v) ==
  /\ MayAct(c) /\ c \notin Npc /\ pos[c] > SLEEPING /\ Here(c, v)
  /\ master[c] = NONE /\ v \in followers[c] \cup {c}
  /\ group' = IF v \in group THEN group \ {v} ELSE group \cup {v}
  /\ UNCHANGED <<master, followers, charm, bodies>>

-----------------------------------------------------------------------------
(* Charms, pets and zombies. *)
spell_charm_person(c, v) ==
  /\ MayAct(c) /\ pos[c] = STANDING /\ Here(c, v) /\ v # c
  /\ charm[c] = "no" /\ charm[v] = "no"
  /\ ~Circle(v, c) /\ ~is_same_group(c, v)
  /\ master' = [master EXCEPT ![v] = c]
  /\ followers' = [x \in Char |-> IF x = c THEN followers[x] \cup {v} ELSE followers[x] \ Led(v)]
  /\ charm' = [charm EXCEPT ![v] = "spell"]
  /\ group' = group \ {v}
  /\ UNCHANGED bodies

(* The spell runs out; he goes on following. *)
charm_ends(v) ==
  /\ InWorld(v) /\ charm[v] = "spell"
  /\ charm' = [charm EXCEPT ![v] = "no"]
  /\ UNCHANGED <<master, followers, group, bodies>>

(* spell_reanimate, and a pet that is bought: a mob is loaded.             *)
new_follower(c, m, tame) ==
  /\ Typed(c) /\ pos[c] = STANDING /\ m \in Npc /\ ~InWorld(m)
  /\ master' = [master EXCEPT ![m] = c]
  /\ followers' = [followers EXCEPT ![c] = @ \cup {m}]
  /\ charm' = [charm EXCEPT ![m] = IF tame THEN "pet" ELSE "no"]
  /\ group' = group \ {m}
  /\ room' = [room EXCEPT ![m] = room[c]]
  /\ pos' = [pos EXCEPT ![m] = STANDING]
  /\ UNCHANGED file

-----------------------------------------------------------------------------
(* damage: one of the group, or one's follower, is one no more. *)
damage(c, v) ==
  LET lost == (IF is_same_group(c, v) THEN die_follower(v) ELSE {}) \cup (IF master[v] = c THEN {v} ELSE {})
  IN
  /\ InWorld(c) /\ Here(c, v) /\ c # v /\ pos[c] = STANDING
  /\ ~(is_same_group(c, v) /\ c \notin Npc /\ v \notin Npc)
  /\ stop_follower(lost)
  /\ group' = IF is_same_group(c, v) THEN group \ (lost \cup {v}) ELSE group \ lost
  /\ UNCHANGED bodies

-----------------------------------------------------------------------------
(* The world. *)
load_mobile(m, r) ==
  /\ m \in Npc /\ ~InWorld(m)
  /\ room' = [room EXCEPT ![m] = r]
  /\ pos' = [pos EXCEPT ![m] = STANDING]
  /\ charm' = [charm EXCEPT ![m] = "no"]
  /\ UNCHANGED <<master, followers, group, file>>

(* With the record he left with, or one that was read again.               *)
nan_enter_game(c, r, again) ==
  /\ c \notin Npc /\ ~InWorld(c)
  /\ room' = [room EXCEPT ![c] = r]
  /\ pos' = [pos EXCEPT ![c] = STANDING]
  /\ charm' = [charm EXCEPT ![c] = IF again /\ file[c] THEN "spell" ELSE "no"]
  /\ UNCHANGED <<master, followers, group, file>>

save_char(c) ==
  /\ InWorld(c) /\ c \notin Npc
  /\ file' = [file EXCEPT ![c] = charm[c] = "spell"]
  /\ UNCHANGED <<master, followers, group, charm, room, pos>>

(* char_from_world, and the record: the dead are saved after it, all      *)
(* others before.                                                          *)
char_from_world(c, killed) ==
  LET lost == die_follower(c) IN
  /\ InWorld(c)
  /\ stop_follower(lost)
  /\ group' = group \ (lost \cup {c})
  /\ room' = [room EXCEPT ![c] = NONE]
  /\ file' = [file EXCEPT ![c] = ~killed /\ c \notin Npc /\ charm[c] = "spell"]
  /\ UNCHANGED pos

-----------------------------------------------------------------------------
(* Moving.  The followers who stand in the room go after him, and theirs   *)
(* after them: the smallest set with c that is closed under this.          *)
Goes(c, k, back) == Here(c, k) /\ pos[k] = STANDING /\ k \notin back
Train(c, back) ==
  {x \in Char : \A S \in SUBSET Char :
     c \in S /\ (\A s \in S, k \in Char : k \in followers[s] /\ Goes(c, k, back) => k \in S) => x \in S}

do_move(c, r, back) ==
  /\ InWorld(c) /\ (c \in Npc \/ MayAct(c)) /\ pos[c] = STANDING
  /\ ~(charm[c] # "no" /\ master[c] # NONE /\ Here(c, master[c]))
  /\ r # room[c]
  /\ room' = [x \in Char |-> IF x \in Train(c, back) THEN r ELSE room[x]]
  /\ UNCHANGED <<master, followers, group, charm, pos, file>>

(* One goes alone: he flees, is carried off by a spell or summoned. *)
char_to_room(c, r) ==
  /\ InWorld(c) /\ r # room[c]
  /\ room' = [room EXCEPT ![c] = r]
  /\ UNCHANGED <<master, followers, group, charm, pos, file>>

Sets(c, p) ==
  /\ p \in Positions /\ p # pos[c]
  /\ pos' = [pos EXCEPT ![c] = p]
  /\ UNCHANGED <<master, followers, group, charm, room, file>>

do_stand(c) == MayAct(c) /\ pos[c] \in {RESTING, SITTING} /\ Sets(c, STANDING)
do_sit(c) == MayAct(c) /\ pos[c] \in {RESTING, STANDING} /\ Sets(c, SITTING)
do_rest(c) == MayAct(c) /\ pos[c] \in {SITTING, STANDING} /\ Sets(c, RESTING)
do_sleep(c) == MayAct(c) /\ pos[c] > SLEEPING /\ Sets(c, SLEEPING)

(* He wakes himself, or another does: he sits up (in an instance without *)
(* SITTING he stands).                                                     *)
do_wake(c, v) ==
  /\ MayAct(c) /\ Here(c, v) /\ (v = c \/ pos[c] > SLEEPING)
  /\ pos[v] = SLEEPING
  /\ Sets(v, IF SITTING \in Positions THEN SITTING ELSE STANDING)

FollowNext ==
  \/ \E c, l \in Char : do_follow(c, l) \/ do_group(c, l) \/ damage(c, l) \/ spell_charm_person(c, l) \/ do_wake(c, l)
  \/ \E c \in Char : do_ungroup(c) \/ group_all(c) \/ charm_ends(c) \/ save_char(c)
  \/ \E c, m \in Char, tame \in BOOLEAN : new_follower(c, m, tame)
  \/ \E c \in Char, r \in Room : load_mobile(c, r) \/ char_to_room(c, r) \/ \E again \in BOOLEAN : nan_enter_game(c, r, again)
  \/ \E c \in Char, killed \in BOOLEAN : char_from_world(c, killed)
  \/ \E c \in Char, r \in Room, back \in SUBSET Char : do_move(c, r, back)
  \/ \E c \in Char : do_stand(c) \/ do_sit(c) \/ do_rest(c) \/ do_sleep(c)

FollowSpec == FollowInit /\ [][FollowNext]_follow_vars

-----------------------------------------------------------------------------
(* The two ways the code knows a follower agree: who is in the list of a   *)
(* leader has him as master, and the other way round.  stop_follower walks *)
(* that list to the end of memory when it does not find him.               *)
LinksAgree == \A c, l \in Char : c \in followers[l] <=> master[c] = l

(* Nobody follows himself over any number of others: do_move, which calls  *)
(* itself for the followers, comes to an end.                              *)
NoLoops == \A S \in SUBSET Char : (\A c \in S : master[c] \in S) => S = {}

(* Who has left the world is nobody's master, follower or fellow: his      *)
(* record is freed.                                                        *)
GoneAreFree == \A c \in Char : ~InWorld(c) => master[c] = NONE /\ followers[c] = {} /\ c \notin group

(* Who gets another master, or loses his, leaves the group he was in.      *)
GroupStep == \A c \in Char : master'[c] # master[c] => c \notin group'
GroupEnds == [][GroupStep]_follow_vars

=============================================================================
