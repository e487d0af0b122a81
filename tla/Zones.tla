-------------------------------- MODULE Zones --------------------------------
(***************************************************************************)
(* Doors, and the zones that set them again (act.movement.c, zone.c,       *)
(* spec.reboot.c).  The two sides of a door are two exits; each command    *)
(* changes its own side and the one it finds behind it, a reset sets the   *)
(* sides its commands name, and the rooms of a maze turn their exits       *)
(* round.  What a reset loads is in Belongings and Followers.              *)
(***************************************************************************)
EXTENDS Integers, FiniteSets, FiniteSetsExt, Functions

CONSTANTS
  Room, Dir, rev_dir,       (* a direction: an exit leads in it           *)
  Exit, From, Aim, To,      (* the exit, the room and direction it has     *)
  Doors, Keyed, Pickproof,  (* exits with EX_ISDOOR, a keyhole, ...        *)
  N, Mode, Lifespan,        (* of the zones 1..N                           *)
  ZoneOf, Sets, Maze,       (* Sets[z]: its 'D' commands; Maze[z]: its 'R' *)
  MAX_RESETS,               (* by one update: 10                           *)
  Player, NOWHERE, NULL

Zone == 1..N

(* Any world files: a room has one exit in a direction, and commands name  *)
(* exits.                                                                  *)
ASSUME Layout ==
  /\ N \in Nat /\ Lifespan \in [Zone -> Nat]
  /\ rev_dir \in [Dir -> Dir] /\ \A d \in Dir : rev_dir[rev_dir[d]] = d
  /\ From \in [Exit -> Room] /\ To \in [Exit -> Room] /\ Aim \in [Exit -> Dir]
  /\ \A e, f \in Exit : From[e] = From[f] /\ Aim[e] = Aim[f] => e = f
  /\ Doors \subseteq Exit /\ NULL \notin Exit /\ NOWHERE \notin Room
  /\ \A z \in Zone : DOMAIN Sets[z] \subseteq Exit

(* The two sides of a way through, where no maze turns them.               *)
Fixed(r) == \A z \in Zone : r \notin Maze[z]
Sides(e, f) ==
  /\ Fixed(From[e]) /\ Fixed(From[f])
  /\ To[e] = From[f] /\ To[f] = From[e] /\ Aim[f] = rev_dir[Aim[e]]

(* The files lay out sides e and f alike: both are doors or none is, and   *)
(* a reset sets both to the same, or none.  Some doors of the world are    *)
(* not laid out so.                                                        *)
SetBy(z, e) == IF e \in DOMAIN Sets[z] THEN {Sets[z][e]} ELSE {}
Laid(e, f) ==
  /\ e \in Doors <=> f \in Doors
  /\ \A z \in Zone : SetBy(z, e) = SetBy(z, f) /\ (SetBy(z, e) # {} => e \in Doors)

VARIABLES dirs, closed, locked, age, place

zone_vars == <<dirs, closed, locked, age, place>>

ZoneTypeOK ==
  /\ dirs \in [Room -> [Dir -> Exit \cup {NULL}]]
  /\ closed \subseteq Exit /\ locked \subseteq Exit
  /\ \A z \in Zone : age[z] \in -2..(Lifespan[z] + 6)
  /\ place \in [Player -> Room \cup {NOWHERE}]

-----------------------------------------------------------------------------
(* Resets. *)
Built == [r \in Room |-> [d \in Dir |->
  IF \E e \in Exit : From[e] = r /\ Aim[e] = d THEN CHOOSE e \in Exit : From[e] = r /\ Aim[e] = d ELSE NULL]]

(* 'D': 0 opens, 1 closes and unlocks, 2 closes and locks. *)
SetTo(Z, how) == {e \in Exit : \E z \in Z : e \in DOMAIN Sets[z] /\ Sets[z][e] \in how}

(* 'R': any order of its exits. *)
Turned(ds, Z) ==
  LET mazes == UNION {Maze[z] : z \in Z} IN
  {[r \in Room |-> IF r \in mazes THEN [d \in Dir |-> ds[r][t[d]]] ELSE ds[r]] : t \in Bijection(Dir, Dir)}

(* A zone of mode -1 is never reset, not even at the boot.                 *)
Resets(Z) == {z \in Z : Mode[z] # -1}

reset_zone(Z) ==
  /\ closed' = (closed \ SetTo(Resets(Z), {0})) \cup SetTo(Resets(Z), {1, 2})
  /\ locked' = (locked \ SetTo(Resets(Z), {0, 1})) \cup SetTo(Resets(Z), {2})
  /\ dirs' \in Turned(dirs, Resets(Z))

ZoneInit ==
  /\ dirs \in Turned(Built, Resets(Zone))
  /\ closed = SetTo(Resets(Zone), {1, 2}) /\ locked = SetTo(Resets(Zone), {2})
  /\ age = [z \in Zone |-> 0]
  /\ place = [p \in Player |-> NOWHERE]

is_empty(z) == \A p \in Player : place[p] = NOWHERE \/ ZoneOf[place[p]] # z

(* An age above Lifespan + 5 acts like any higher one. *)
Older(z) == IF age[z] < Lifespan[z] + 6 THEN age[z] + 1 ELSE age[z]
(* Mutant: the age is not lowered. *)
still_old(z) == Older(z)
Younger(z) == IF Older(z) - Lifespan[z] > 5 THEN 5 ELSE Older(z) - Lifespan[z]

Due(z) == /\ Mode[z] >= 1 /\ Older(z) >= Lifespan[z] - 2
          /\ Mode[z] = 1 => is_empty(z)
Forced(z) == Due(z) /\ Older(z) - Lifespan[z] > 2

(* Z: those whose turn it is, or that are lucky.  After MAX_RESETS of them *)
(* the walk over the zones returns, and the rest does not even age.        *)
update_zones ==
  \E Z \in SUBSET {z \in Zone : Due(z)} :
    LET last == IF Cardinality(Z) = MAX_RESETS THEN Max(Z) ELSE N IN
    /\ Cardinality(Z) <= MAX_RESETS
    /\ \A z \in 1..last : Forced(z) => z \in Z
    /\ age' = [z \in Zone |-> IF Mode[z] < 1 \/ z > last THEN age[z]
                              ELSE IF z \in Z THEN Younger(z) ELSE Older(z)]
    /\ reset_zone(Z)
    /\ UNCHANGED place

(* Reset the reseter forces a zone. *)
auto_reset(z) ==
  /\ Mode[z] # 0
  /\ reset_zone({z})
  /\ age' = [age EXCEPT ![z] = 0]
  /\ UNCHANGED place

-----------------------------------------------------------------------------
(* Doors. *)
At(p, d) == IF place[p] = NOWHERE THEN NULL ELSE dirs[place[p]][d]
Back(p, d) == {b \in {dirs[To[At(p, d)]][rev_dir[d]]} \ {NULL} : To[b] = place[p]}

(* Mutant: the other side is forgotten. *)
OwnSide(p, d) == {At(p, d)}
Both(p, d) == {At(p, d)} \cup Back(p, d)

find_door(p, d) == At(p, d) \in Doors

do_open(p, d) ==
  /\ find_door(p, d) /\ At(p, d) \in closed \ locked
  /\ closed' = closed \ Both(p, d)
  /\ UNCHANGED <<dirs, locked, age, place>>

do_close(p, d) ==
  /\ find_door(p, d) /\ At(p, d) \notin closed
  /\ closed' = closed \cup Both(p, d)
  /\ UNCHANGED <<dirs, locked, age, place>>

(* With the key.                                                           *)
do_lock(p, d) ==
  /\ find_door(p, d) /\ At(p, d) \in (closed \cap Keyed) \ locked
  /\ locked' = locked \cup Both(p, d)
  /\ UNCHANGED <<dirs, closed, age, place>>

do_unlock(p, d) ==
  /\ find_door(p, d) /\ At(p, d) \in closed \cap Keyed \cap locked
  /\ locked' = locked \ Both(p, d)
  /\ UNCHANGED <<dirs, closed, age, place>>

(* Without it; do_bash breaks a lock under the same conditions.            *)
do_pick(p, d) == At(p, d) \notin Pickproof /\ do_unlock(p, d)

do_move(p, d) ==
  /\ At(p, d) \in Exit \ (closed \cup locked)
  /\ place' = [place EXCEPT ![p] = To[At(p, d)]]
  /\ UNCHANGED <<dirs, closed, locked, age>>

(* He enters the game, is recalled, carried off, or leaves. *)
char_to_room(p, r) ==
  /\ place[p] # r
  /\ place' = [place EXCEPT ![p] = r]
  /\ UNCHANGED <<dirs, closed, locked, age>>

ZoneNext ==
  \/ update_zones
  \/ \E z \in Zone : auto_reset(z)
  \/ \E p \in Player, d \in Dir :
       do_open(p, d) \/ do_close(p, d) \/ do_lock(p, d) \/ do_unlock(p, d) \/ do_pick(p, d) \/ do_move(p, d)
  \/ \E p \in Player, r \in Room \cup {NOWHERE} : char_to_room(p, r)

(* The pulse loop calls update_zones every PULSE_ZONE pulses.              *)
ZoneFairness == WF_zone_vars(update_zones)
ZoneSpec == ZoneInit /\ [][ZoneNext]_zone_vars /\ ZoneFairness

-----------------------------------------------------------------------------
(* Where no maze turns its exits, both sides of a door that the files lay  *)
(* out alike are open, closed and locked together, whatever is wrong with  *)
(* the doors beside it; a locked side is closed, or its lock could be      *)
(* reached by nobody; and what is closed is a door, which can be opened.   *)
DoorsAgree ==
  \A r, o \in Room, d \in Dir :
    LET e == dirs[r][d]
        b == dirs[o][rev_dir[d]]
    IN
    (Fixed(r) /\ Fixed(o) /\ e # NULL /\ b # NULL /\ To[e] = o /\ To[b] = r /\ Laid(e, b)) =>
      /\ e \in closed <=> b \in closed
      /\ e \in locked <=> b \in locked
      /\ e \in locked => e \in closed
      /\ e \in closed => e \in Doors

(* Of the other doors: two sides that agree are parted by no command of a  *)
(* player (open, close, lock, unlock, pick), but only by a reset.          *)
SameState(e, f) == (e \in closed <=> f \in closed) /\ (e \in locked <=> f \in locked)
PartedStep ==
  \A e, f \in Exit :
    Sides(e, f) /\ SameState(e, f) /\ ~SameState(e, f)' =>
      ~Laid(e, f) /\ (update_zones \/ \E z \in Zone : auto_reset(z))
OnlyResetsPart == [][PartedStep]_zone_vars

(* Every zone is reset again and again, those of mode 1 unless players     *)
(* keep coming; the early return starves none, and a reset is not repeated *)
(* until its zone is old again.                                            *)
ZonesReset ==
  \A z \in Zone :
    /\ Mode[z] = 2 => []<><<age'[z] < age[z]>>_zone_vars
    /\ Mode[z] = 1 => []<>(~is_empty(z)) \/ []<><<age'[z] < age[z]>>_zone_vars

=============================================================================
