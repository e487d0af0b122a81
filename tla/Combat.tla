------------------------------- MODULE Combat -------------------------------
(***************************************************************************)
(* Fighting: who fights whom, the list of the fighters that perform_violence *)
(* walks while blows kill, frighten and free them, positions, wounds, and  *)
(* what players, mobs and the updates do in between.                       *)
(*                                                                         *)
(* The fields of the characters are gathered in one record, world: the     *)
(* handlers call each other (a blow frightens, a flight ends fights, an    *)
(* end of a fight moves the cursor of the round), so each of them is an    *)
(* operator from a world to the set of the worlds it may leave.            *)
(***************************************************************************)
EXTENDS Naturals, Sequences, SequencesExt

CONSTANTS
  Players, Mobs,
  Rooms,       (* the rooms of the fights, each of them next to the others *)
  Void,        (* the room without exits where divine forces put one       *)
  Nowhere,     (* in_room of who is not in the world                       *)
  None,        (* NULL                                                     *)
  Wounds,      (* what hit may come to: see Well                           *)
  MaxBlows     (* blows a fighter strikes in a turn, at most               *)

Char == Players \cup Mobs

(* Positions.  The first four are also the classes of hit that update_pos  *)
(* tells apart: <= -11, -10 .. -6, -5 .. -3, -2 .. 0; Well is > 0.         *)
DEAD == 0
MORTALLYW == 1
INCAP == 2
STUNNED == 3
SLEEPING == 4
RESTING == 5
SITTING == 6
FIGHTING == 7
STANDING == 8
Well == 4

ASSUME CombatAssumption ==
  /\ Players \cap Mobs = {}
  /\ Void \notin Rooms /\ Nowhere \notin Rooms \cup {Void}
  /\ None \notin Char
  /\ Rooms # {}
  /\ Wounds \subseteq 0 .. Well /\ Well \in Wounds
  /\ MaxBlows \in Nat \ {0}

VARIABLES
  world,   (* list:   combat_list;       next: combat_next_dude            *)
           (* fight, pos, hit, room, was (was_in_room) of each character   *)
           (* linked: the players in the world who have a descriptor       *)
           (* master: of each mob; hunt: whom one confused by a masquerade *)
           (* will go for                                                  *)
  turn,    (* ch of perform_violence, or None                              *)
  blows    (* the blows left in the turn                                   *)

vars == <<world, turn, blows>>

-----------------------------------------------------------------------------
(* The fighters. *)

InWorld(w) == {c \in Char : w.room[c] # Nowhere}
AWAKE(w, c) == w.pos[c] > SLEEPING
Here(w, c) == {v \in Char : w.room[v] = w.room[c]}

Place(list, c) == CHOOSE k \in DOMAIN list : list[k] = c

(* The fighter after c in the list. *)
After(list, c) ==
  LET i == Place(list, c) IN IF i = Len(list) THEN None ELSE list[i + 1]

Unlinked(list, c) == RemoveAt(list, Place(list, c))

(* Mutant: an enemy in another room will do. *)
FightsAfar(w, c) ==
  w.fight[c] # None /\ w.pos[w.fight[c]] # DEAD /\ w.pos[c] # DEAD

is_fighting(w, c) ==
  /\ w.fight[c] # None
  /\ w.pos[w.fight[c]] # DEAD
  /\ w.room[c] = w.room[w.fight[c]]
  /\ w.pos[c] # DEAD

Positioned(pos, hit) ==
  IF hit < Well THEN hit ELSE IF pos > STUNNED THEN pos ELSE STANDING

update_pos(w, c) == [w EXCEPT !.pos[c] = Positioned(@, w.hit[c])]

set_fighting(w, c, v) ==
  IF Contains(w.list, c) THEN w
  ELSE [w EXCEPT !.list = <<c>> \o @, !.fight[c] = v, !.pos[c] = FIGHTING]

(* Mutant: the round keeps its next fighter. *)
StopUnmoved(w, c) ==
  IF w.fight[c] = None THEN w
  ELSE [w EXCEPT !.list = Unlinked(@, c),
                 !.fight[c] = None,
                 !.pos[c] = Positioned(STANDING, w.hit[c])]

(* Mutant: he who has stopped stays in the list. *)
StopListed(w, c) ==
  IF w.fight[c] = None THEN w
  ELSE [w EXCEPT !.next = IF @ = c THEN After(w.list, c) ELSE @,
                 !.fight[c] = None,
                 !.pos[c] = Positioned(STANDING, w.hit[c])]

(* Mutant: his position is only corrected, not set. *)
StopStill(w, c) ==
  IF w.fight[c] = None THEN w
  ELSE [w EXCEPT !.next = IF @ = c THEN After(w.list, c) ELSE @,
                 !.list = Unlinked(@, c),
                 !.fight[c] = None,
                 !.pos[c] = Positioned(@, w.hit[c])]

stop_fighting(w, c) ==
  IF w.fight[c] = None THEN w
  ELSE [w EXCEPT !.next = IF @ = c THEN After(w.list, c) ELSE @,
                 !.list = Unlinked(@, c),
                 !.fight[c] = None,
                 !.pos[c] = Positioned(STANDING, w.hit[c])]

(* A walk along the list stops those of cs that fight. *)
StopAll(w, cs) ==
  LET left[k \in 0 .. Len(w.list)] ==
        IF k = 0 THEN w
        ELSE IF w.list[k] \in cs THEN stop_fighting(left[k - 1], w.list[k])
        ELSE left[k - 1]
  IN  left[Len(w.list)]

Against(w, c) == {x \in Char : w.fight[x] = c}

(* Mutant: those who fight the one who leaves fight on. *)
LeaveFought(w, c) ==
  [stop_fighting(w, c) EXCEPT
     !.room[c] = Nowhere,
     !.was[c] = Nowhere,
     !.linked = @ \ {c},
     !.pos[c] = STANDING,
     !.hit[c] = Well,
     !.hunt = [x \in Char |-> IF c \in {x, @[x]} THEN None ELSE @[x]],
     !.master = [m \in Mobs |-> IF c \in {m, @[m]} THEN None ELSE @[m]]]

(* char_from_world: the character's own fight ends, and every fight        *)
(* against it; nobody hunts it, its followers are free.  Its record is     *)
(* another's, or set anew by reset_char, before it is used again.          *)
char_from_world(w, c) ==
  LET self == stop_fighting(w, c)
      all  == StopAll(self, Against(self, c))
  IN  [all EXCEPT
         !.room[c] = Nowhere,
         !.was[c] = Nowhere,
         !.linked = @ \ {c},
         !.pos[c] = STANDING,
         !.hit[c] = Well,
         !.hunt = [x \in Char |-> IF c \in {x, @[x]} THEN None ELSE @[x]],
         !.master = [m \in Mobs |-> IF c \in {m, @[m]} THEN None ELSE @[m]]]

kill_char(w, c) == char_from_world(w, c)

Moved(w, c, r) == [w EXCEPT !.room[c] = r]

Exits(w, c) == IF w.room[c] \in Rooms THEN Rooms \ {w.room[c]} ELSE {}

(* do_flee: six tries to find a way; then all fights with him end. *)
do_flee(w, c) ==
  {w} \cup
  IF w.pos[c] < STUNNED THEN {}
  ELSE IF w.fight[c] = None THEN {Moved(w, c, r) : r \in Exits(w, c)}
  ELSE {stop_fighting(StopAll(Moved(w, c, r), Against(w, c)), c) :
          r \in Exits(w, c)}

-----------------------------------------------------------------------------
(* A blow. *)

(* May c strike v?  Never oneself.  A player is refused a group member and *)
(* a wizard, and anybody at all while nokillflag is on (its test looks at  *)
(* the striker twice), a mob a wizard: whether that is so is left open.    *)
is_allow_kill(c, v) ==
  IF c = v THEN {FALSE} ELSE IF {c, v} \subseteq Mobs THEN {TRUE} ELSE BOOLEAN

(* Both draw, unless they lie stunned. *)
Draw(w, c, v) ==
  IF w.pos[c] > STUNNED /\ w.fight[c] = None THEN set_fighting(w, c, v) ELSE w

Drawn(w, c, v) ==
  LET x == Draw(w, v, c)
  IN  Draw(IF w.pos[v] > STUNNED THEN [x EXCEPT !.pos[v] = FIGHTING] ELSE x, c, v)

(* Divine forces take one without a link, who does not fight, to the void. *)
Rescued(w, v, dam) ==
  dam /\ v \in Players \ w.linked /\ w.fight[v] = None

Saved(w, v) == [w EXCEPT !.was[v] = w.room[v], !.room[v] = Void]

(* hit falls; the wimpy flee when it is low, who has no link does always.  *)
Wounded(w, v, dam) ==
  {update_pos([w EXCEPT !.hit[v] = h], v) :
     h \in IF dam THEN {k \in Wounds : k <= w.hit[v]} ELSE {w.hit[v]}}

Wimpy(w, v) == IF w.pos[v] >= SLEEPING THEN do_flee(w, v) ELSE {w}

Frightened(w, v, dam) ==
  IF dam /\ v \in Players \ w.linked
  THEN UNION {do_flee(x, v) : x \in Wimpy(w, v)}
  ELSE Wimpy(w, v)

(* The dead are no longer fought, who lies no longer fights. *)
Fallen(w, c, v) ==
  LET x == IF w.pos[v] = DEAD /\ w.fight[c] = v THEN stop_fighting(w, c) ELSE w
      y == IF ~ AWAKE(w, v) THEN stop_fighting(x, v) ELSE x
  IN  IF w.pos[v] = DEAD THEN kill_char(y, v) ELSE y

Suffer(w, c, v, dam) ==
  LET free == IF v \in Mobs /\ w.master[v] = c
              THEN [w EXCEPT !.master[v] = None] ELSE w
  IN  {Fallen(y, c, v) :
         y \in UNION {Frightened(x, v, dam) : x \in Wounded(free, v, dam)}}

Strike(w, c, v, dam) ==
  UNION {IF w.room[c] # w.room[v] \/ ~ allowed THEN {w}
         ELSE IF Rescued(w, v, dam) THEN Suffer(Drawn(Saved(w, v), c, v), c, v, FALSE)
         ELSE Suffer(Drawn(w, c, v), c, v, dam) : allowed \in is_allow_kill(c, v)}

(* hit: parried, missed or struck.  Who sleeps is never missed. *)
Struck(w, c, v) == Strike(w, c, v, TRUE) \cup Strike(w, c, v, FALSE)

(* damage: a mob that strikes a charmed one may turn against its master,   *)
(* who is a player, if he is there.                                        *)
TurnsOnMaster(w, c, v) ==
  /\ {c, v} \subseteq Mobs /\ TRUE \in is_allow_kill(c, v)
  /\ w.room[c] = w.room[v]
  /\ w.pos[c] > STUNNED
  /\ w.master[v] # None /\ w.room[w.master[v]] = w.room[c]

damage(w, c, v, dam) ==
  Strike(w, c, v, dam) \cup
  IF TurnsOnMaster(w, c, v)
  THEN LET x == stop_fighting(Drawn(w, c, v), c)
       IN  {x} \cup Struck(x, c, w.master[v])
  ELSE {}

Blow(w, c, v) == damage(w, c, v, TRUE) \cup damage(w, c, v, FALSE)

hit(w, c, v) == {w} \cup Blow(w, c, v)

-----------------------------------------------------------------------------
(* The round.  Nothing comes in between: turn is None everywhere else. *)

Init ==
  /\ world = [list   |-> <<>>,
              next   |-> None,
              fight  |-> [c \in Char |-> None],
              pos    |-> [c \in Char |-> STANDING],
              hit    |-> [c \in Char |-> Well],
              room   |-> [c \in Char |-> IF c \in Players THEN Nowhere ELSE CHOOSE r \in Rooms : TRUE],
              was    |-> [c \in Char |-> Nowhere],
              linked |-> {},
              master |-> [m \in Mobs |-> None],
              hunt   |-> [c \in Char |-> None]]
  /\ turn = None
  /\ blows = 0

(* The turn of a fighter has come, and he has not been looked at. *)
Unseen == MaxBlows + 1

ToTurn(c) ==
  /\ turn' = c
  /\ world' = [world EXCEPT !.next = IF c = None THEN None ELSE After(world.list, c)]
  /\ blows' = IF c = None THEN 0 ELSE Unseen

RoundBegins == turn = None /\ world.list # <<>> /\ ToTurn(Head(world.list))

(* The swords that act by themselves: some turn on who holds them, some    *)
(* throw down who stood.                                                   *)
Thrown(w, v, pos) == IF w.room[v] # Nowhere THEN [w EXCEPT !.pos[v] = pos] ELSE w

ThrownDown(w, v) == {Thrown(w, v, pos) : pos \in {STUNNED, SITTING}}

magic_weapon_hit(w, c, v) ==
  Blow(w, c, v) \cup Blow(w, v, c)
  \cup UNION {{y \in ThrownDown(x, v) : y.pos[v] < x.pos[v]} : x \in damage(w, c, v, TRUE)}

Turn ==
  /\ turn # None /\ blows = Unseen
  /\ UNCHANGED turn
  /\ IF AWAKE(world, turn) /\ is_fighting(world, turn)
     THEN /\ blows' \in 0 .. MaxBlows
          /\ world' \in {world} \cup
               (IF blows' = 0 THEN {} ELSE magic_weapon_hit(world, turn, world.fight[turn]))
     ELSE blows' = 0 /\ world' = stop_fighting(world, turn)

(* Mutant: the loop of the blows runs once too often. *)
BlowsOver ==
  /\ turn # None /\ blows \in 0 .. MaxBlows
  /\ UNCHANGED turn
  /\ blows' = blows - 1
  /\ world' \in IF is_fighting(world, turn) THEN hit(world, turn, world.fight[turn])
               ELSE {stop_fighting(world, turn)}

Blows ==
  /\ turn # None /\ blows \in 1 .. MaxBlows
  /\ UNCHANGED turn
  /\ IF is_fighting(world, turn)
     THEN /\ blows' = blows - 1
          /\ world' \in hit(world, turn, world.fight[turn])
     ELSE blows' = 0 /\ world' = stop_fighting(world, turn)

TurnEnds == turn # None /\ blows = 0 /\ ToTurn(world.next)

perform_violence == RoundBegins \/ Turn \/ Blows \/ TurnEnds

-----------------------------------------------------------------------------
(* What characters do between the rounds.                                  *)

Between == turn = None /\ UNCHANGED <<turn, blows>>

(* Players give commands when their position allows, and are back from the *)
(* void then; mobs act for themselves, when they are awake.                *)
Acts(c, least) ==
  /\ Between
  /\ world.room[c] # Nowhere
  /\ IF c \in Players
     THEN c \in world.linked /\ world.was[c] = Nowhere /\ world.pos[c] >= least
     ELSE AWAKE(world, c)

Beside(c) == Here(world, c) \ {c}

(* hit, kill, assist, and the mobs that go for somebody. *)
do_hit(c, v) ==
  /\ Acts(c, STANDING) /\ world.pos[c] = STANDING
  /\ v \in Beside(c) /\ world.fight[c] # v
  /\ world' \in hit(world, c, v)

(* kick, punch, chain, multi, serpent, shoot, throw, spells: one damage,   *)
(* and the shocking grasp that stuns before.                               *)
do_kick(c, v) ==
  /\ Acts(c, RESTING)
  /\ v \in Beside(c)
  /\ \E x \in {world, [world EXCEPT !.pos[v] = STUNNED]} : world' \in Blow(x, c, v)

spell_sleep(c, v) ==
  /\ Acts(c, SITTING)
  /\ v \in Beside(c) /\ AWAKE(world, v)
  /\ world' = [world EXCEPT !.pos[v] = SLEEPING]

do_bash(c, v) ==
  /\ Acts(c, FIGHTING)
  /\ v \in Beside(c)
  /\ world' \in
       {Thrown(x, c, SITTING) : x \in damage(world, c, v, FALSE)}
       \cup UNION {ThrownDown(x, v) : x \in damage(world, c, v, TRUE)}

(* Who rescues v fights t in his stead. *)
Stead(w, c, v, t) ==
  LET x == StopAll(w, {t, c} \cup {y \in {v} : w.fight[y] = t})
  IN  set_fighting(set_fighting(x, c, t), t, c)

do_rescue(c, v, t) ==
  /\ Acts(c, FIGHTING)
  /\ v \in Beside(c) /\ world.fight[c] # v
  /\ c \in Mobs \/ v \in Players
  /\ t \in Here(world, c) /\ world.fight[t] = v
  /\ world' = Stead(world, c, v, t)

(* A mob rescues a mob from one who fights it; the daimyo takes over the   *)
(* enemy of musashi, who may be the daimyo himself.                        *)
mob_rescue(c, v, t) ==
  /\ c \in Mobs /\ Acts(c, SITTING)
  /\ v \in Beside(c) \cap Mobs /\ world.fight[v] # None
  /\ \/ is_fighting(world, v) /\ ~ is_fighting(world, c) /\ t = world.fight[v]
     \/ t \in Here(world, c) /\ world.fight[t] = v /\ world.fight[c] \notin Mobs
  /\ world' = Stead(stop_fighting(world, v), c, v, t)

(* One blow more, then neither fights the other; the mob's blow may have   *)
(* ended their fight already.                                              *)
do_light_move(c) ==
  /\ c \in Players /\ Acts(c, FIGHTING) /\ is_fighting(world, c)
  /\ LET v == world.fight[c]
         end(w) == StopAll(w, {c} \cup {y \in {v} : w.fight[y] = c})
         others(w) == {t \in (Here(w, c) \cap Players) \ {c, v} : w.fight[t] = v}
     IN  world' \in UNION {IF is_fighting(x, c)
                           THEN {x, end(x)} \cup UNION {hit(end(x), v, t) : t \in others(end(x))}
                           ELSE {x} : x \in hit(world, c, v)}

mob_light_move(c) ==
  /\ c \in Mobs /\ Acts(c, SITTING) /\ world.fight[c] # None
  /\ world' \in {StopAll(x, {c, world.fight[c]}) : x \in hit(world, c, world.fight[c])}

(* A failure wears out who tried: nobody looks whether it killed him. *)
do_flash(c, v) ==
  /\ Acts(c, FIGHTING)
  /\ v \in Beside(c)
  /\ world' \in UNION {Wounded(x, c, x.room[c] # Nowhere) : x \in damage(world, c, v, FALSE)}

do_masquerade(c, t) ==
  /\ c \in Players /\ Acts(c, FIGHTING) /\ is_fighting(world, c)
  /\ LET v == world.fight[c]
     IN  /\ t \in (Here(world, c) \cap Mobs) \ {v}
         /\ world' \in hit(stop_fighting([world EXCEPT !.hunt[v] = c], v), v, t)

(* Two rounds later the confusion ends. *)
update_masquerade(v) ==
  /\ Between
  /\ world.hunt[v] # None
  /\ LET h == world.hunt[v]
         f == world.fight[v]
         x == StopAll(world, {v} \cup {y \in {f} \ {None} : is_fighting(world, y) /\ world.fight[y] = v})
         y == [x EXCEPT !.hunt[v] = None]
     IN  world' = IF y.room[h] = y.room[v] THEN set_fighting(y, v, h) ELSE y

(* Anybody in the room, oneself too. *)
do_dazzle(c, v) ==
  /\ c \in Players /\ Acts(c, FIGHTING)
  /\ world.fight[c] = None /\ v \in Here(world, c)
  /\ LET x == set_fighting(world, c, v)
     IN  world' = IF AWAKE(x, v) /\ x.fight[v] = None THEN set_fighting(x, v, c) ELSE x

(* m will follow c. *)
spell_charm_person(c, m) ==
  /\ Acts(c, SITTING)
  /\ c \in Players /\ m \in Mobs \cap Beside(c)
  /\ world' = [world EXCEPT !.master[m] = c]

-----------------------------------------------------------------------------
(* Going, resting, coming and leaving. *)

Flee(c) == Acts(c, FIGHTING) /\ world' \in do_flee(world, c)

do_move(c) ==
  /\ Acts(c, STANDING) /\ world.pos[c] >= STANDING
  /\ \E r \in Exits(world, c) : world' = Moved(world, c, r)

(* teleport ends the caster's fight, recall and summon that of no one they *)
(* take along.                                                             *)
spell_teleport(c) ==
  /\ c \in Players /\ Acts(c, SITTING)
  /\ \E r \in Rooms : world' = Moved(stop_fighting(world, c), c, r)

spell_word_of_recall(c, v) ==
  /\ Acts(c, SITTING)
  /\ v \in Beside(c) \cap Players
  /\ \E r \in Rooms : world' = stop_fighting(Moved(world, v, r), c)

Posture(c, pos) ==
  /\ c \in Players /\ Acts(c, SLEEPING)
  /\ world' = [world EXCEPT !.pos[c] = pos]

do_stand(c) == world.pos[c] \in {RESTING, SITTING} /\ Posture(c, STANDING)
do_sit(c)   == world.pos[c] \in {RESTING, STANDING} /\ Posture(c, SITTING)
do_rest(c)  == world.pos[c] \in {SITTING, STANDING} /\ Posture(c, RESTING)
do_sleep(c) == world.pos[c] \in {RESTING, SITTING, STANDING} /\ Posture(c, SLEEPING)
do_wake(c)  == world.pos[c] = SLEEPING /\ Posture(c, SITTING)

Peace(c) ==
  /\ c \in Players /\ Acts(c, DEAD)
  /\ world' = StopAll(world, {v \in Here(world, c) : world.fight[v] # None})

do_quit(c) ==
  /\ c \in Players /\ Acts(c, DEAD)
  /\ world.pos[c] # FIGHTING
  /\ world' = IF world.pos[c] < STUNNED THEN kill_char(world, c)
              ELSE [world EXCEPT !.linked = @ \ {c}]

do_rent(c) == c \in Players /\ Acts(c, DEAD) /\ world' = char_from_world(world, c)

(* A connection breaks, and another one finds the character again. *)
close_socket(c) ==
  Between /\ c \in world.linked /\ world' = [world EXCEPT !.linked = @ \ {c}]

Reconnect(c) ==
  /\ Between
  /\ c \in Players \ world.linked /\ world.room[c] # Nowhere
  /\ world' = [world EXCEPT !.linked = @ \cup {c}]

Returned(c) ==
  /\ Between
  /\ c \in world.linked /\ world.was[c] # Nowhere
  /\ world' = [world EXCEPT !.room[c] = world.was[c], !.was[c] = Nowhere]

(* The idle are taken to the void, fighting or not, and later away. *)
check_idling(c) ==
  /\ Between
  /\ c \in Players /\ world.room[c] # Nowhere
  /\ world' = IF world.was[c] = Nowhere THEN Saved(world, c) ELSE char_from_world(world, c)

(* A player enters from the menu, a mob is loaded: reset_char. *)
Enter(c) ==
  /\ Between
  /\ world.room[c] = Nowhere
  /\ \E r \in Rooms :
       world' = [world EXCEPT !.room[c] = r, !.linked = @ \cup ({c} \cap Players)]

(* A tick heals who is not worse than stunned.  For the others it calls    *)
(* damage(ch, ch, ...), which is_allow_kill refuses: they stay as they are *)
update_tick(c) ==
  /\ Between
  /\ world.room[c] # Nowhere
  /\ LET x == update_pos(world, c)
     IN  world' \in
           IF x.pos[c] < STUNNED THEN {x}
           ELSE {IF x.pos[c] = STUNNED THEN update_pos([x EXCEPT !.hit[c] = h], c)
                 ELSE [x EXCEPT !.hit[c] = h] : h \in {k \in Wounds : k >= x.hit[c]}}

Pair(c, v) ==
  \/ do_hit(c, v) \/ do_kick(c, v) \/ do_bash(c, v) \/ do_flash(c, v)
  \/ do_masquerade(c, v) \/ do_dazzle(c, v)
  \/ spell_sleep(c, v) \/ spell_word_of_recall(c, v)
  \/ \E t \in Char : do_rescue(c, v, t) \/ mob_rescue(c, v, t)

Single(c) ==
  \/ do_light_move(c) \/ mob_light_move(c) \/ update_masquerade(c)
  \/ Flee(c) \/ do_move(c) \/ spell_teleport(c) \/ Peace(c)
  \/ do_stand(c) \/ do_sit(c) \/ do_rest(c) \/ do_sleep(c) \/ do_wake(c)
  \/ do_quit(c) \/ do_rent(c) \/ close_socket(c) \/ Reconnect(c) \/ Returned(c)
  \/ check_idling(c) \/ Enter(c) \/ update_tick(c)
  \/ \E m \in Mobs : spell_charm_person(c, m)

Next ==
  \/ perform_violence
  \/ \E c \in Char : Single(c)
  \/ \E c, v \in Char : Pair(c, v)

Spec == Init /\ [][Next]_vars

(* game_loop calls perform_violence every PULSE_VIOLENCE pulses, and it    *)
(* runs to its end.                                                        *)
FairSpec == Spec /\ WF_vars(perform_violence)

(* And update_tick every few pulses, for everybody in the world.           *)
TickSpec == FairSpec /\ \A c \in Char : WF_vars(update_tick(c))

-----------------------------------------------------------------------------
(* Properties. *)

TypeOK ==
  /\ world.list \in Seq(Char) /\ world.next \in Char \cup {None}
  /\ world.fight \in [Char -> Char \cup {None}]
  /\ world.pos \in [Char -> DEAD .. STANDING]
  /\ world.hit \in [Char -> Wounds]
  /\ world.room \in [Char -> Rooms \cup {Void, Nowhere}]
  /\ world.was \in [Char -> Rooms \cup {Void, Nowhere}]
  /\ world.linked \subseteq Players
  /\ world.master \in [Mobs -> Players \cup {None}]
  /\ world.hunt \in [Char -> Char \cup {None}]
  /\ turn \in Char \cup {None}
  /\ blows \in 0 .. Unseen

(* Who fights is in combat_list, once, and nobody else is: stop_fighting   *)
(* stops the server when it does not find a fighter there.                 *)
FightersListed ==
  /\ IsInjective(world.list)
  /\ \A c \in Char : Contains(world.list, c) <=> world.fight[c] # None

(* Nobody fights, fights against, hunts or follows who has left the world: *)
(* the record may be free, or another's.                                   *)
NoGhostFights ==
  /\ \A c \in Char : world.fight[c] # None =>
       {c, world.fight[c]} \subseteq InWorld(world)
  /\ \A c \in Char : world.hunt[c] # None => {c, world.hunt[c]} \subseteq InWorld(world)
  /\ \A m \in Mobs : world.master[m] # None => {m, world.master[m]} \subseteq InWorld(world)

(* Who stands as a fighter fights: nothing else would let him go, do_quit, *)
(* do_move and do_sleep refuse him.                                        *)
FightingPos == \A c \in Char : world.pos[c] = FIGHTING => world.fight[c] # None

(* Every fighter has one turn in a round, whoever dies, flees or joins in  *)
(* the turns of the others: combat_next_dude is never one who has left the *)
(* list, nor does it skip one who is in it.                                *)
Behind(list, c) ==
  {list[k] : k \in {k \in DOMAIN list : \E i \in 1 .. k : list[i] = c}}

Waiting ==
  IF turn = None \/ world.next = None THEN {} ELSE Behind(world.list, world.next)

Promise == INSTANCE RoundOnce WITH
  Fighter <- Char,
  fighting <- {c \in Char : world.fight[c] # None},
  waiting <- Waiting

OneTurnEach == Promise!Spec

(* A fight across two rooms ends, or brings its fighters together again:   *)
(* after a flight, a rescue by divine forces, a recall, the next round     *)
(* finds it.                                                               *)
Apart(c) == world.fight[c] # None /\ world.room[world.fight[c]] # world.room[c]

FightsApartEnd == \A c \in Char : Apart(c) ~> ~ Apart(c)

(* "You are incapacitated an will slowly die, if not aided."  Who is told  *)
(* so (fight.c:774) does not lie there for ever.                           *)
SlowlyDies ==
  \A c \in Char : world.pos[c] = INCAP ~> world.pos[c] # INCAP
=============================================================================
