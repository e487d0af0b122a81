----------------------------- MODULE Belongings -----------------------------
(***************************************************************************)
(* Where the objects of the world are.  An object is in the contents of a  *)
(* room, in the hands of a character (carrying), in another object, or     *)
(* worn; the list says so, and so does a pointer of the object: in_room,   *)
(* carried_by, in_obj, equiped_by.  Every handler that moves objects does  *)
(* it with the same few primitives, one after the other, and relies on the *)
(* one before it: nothing looks for an object that is in two lists or none.*)
(*                                                                         *)
(* w is that state; a primitive is an operator from states to states, and  *)
(* a handler composes them.  Where the code takes objects one by one, in a *)
(* loop or down a list, the primitive takes the set of them.  Lists are    *)
(* sets: their order decides only which objects a name means, and any of   *)
(* them may be meant here.  Weights, and whether an object can be seen,    *)
(* taken, let go of or would fit are left to the choice of the objects     *)
(* that a handler is given.                                                *)
(***************************************************************************)
EXTENDS Integers, FiniteSets

CONSTANTS
  Obj,                 (* the records of objects                           *)
  Pc, Mob,             (* characters: players, and mobiles                 *)
  Chamber, Slot,       (* rooms; places to wear: "light", "head", ...      *)
  Cap,                 (* can_carry_number                                 *)
  MaxLight,            (* bound on the count of lights of a room           *)
  NOWHERE, NIL

Body == Pc \cup Mob

ASSUME ThingsAssumption ==
  /\ IsFiniteSet(Obj) /\ Obj # {} /\ IsFiniteSet(Body)
  /\ NIL \notin Obj /\ NIL \notin Body /\ NOWHERE \notin Chamber
  /\ "light" \in Slot
  /\ MaxLight \in Nat

VARIABLE w

Loaded == {"CONTAINER", "LIGHT", "OTHER"}
Kind == Loaded \cup {"CORPSE", "MONEY"}
LiveObj == {o \in Obj : w.type[o] # "free"}

(* short: a record was asked for when none was spare.  The program asks    *)
(* the system for more; here such a step is not taken.                     *)
Things ==
  [type       : [Obj -> Kind \cup {"free"}],
   in_room    : [Obj -> Chamber \cup {NOWHERE}],
   carried_by : [Obj -> Body \cup {NIL}],
   equiped_by : [Obj -> Body \cup {NIL}],
   in_obj     : [Obj -> Obj \cup {NIL}],
   contents   : [Chamber -> SUBSET Obj],
   carrying   : [Body -> SUBSET Obj],
   contains   : [Obj -> SUBSET Obj],
   equipment  : [Body -> [Slot -> Obj \cup {NIL}]],
   carry_items : [Body -> Int],
   room       : [Body -> Chamber \cup {NOWHERE}],
   lit        : SUBSET Obj,
   light      : [Chamber -> -MaxLight .. MaxLight],
   short      : BOOLEAN]

BelongingsOK == w \in Things

BelongInit ==
  w = [type       |-> [o \in Obj |-> "free"],
       in_room    |-> [o \in Obj |-> NOWHERE],
       carried_by |-> [o \in Obj |-> NIL],
       equiped_by |-> [o \in Obj |-> NIL],
       in_obj     |-> [o \in Obj |-> NIL],
       contents   |-> [r \in Chamber |-> {}],
       carrying   |-> [c \in Body |-> {}],
       contains   |-> [o \in Obj |-> {}],
       equipment  |-> [c \in Body |-> [p \in Slot |-> NIL]],
       carry_items |-> [c \in Body |-> 0],
       room       |-> [c \in Body |-> NOWHERE],
       lit        |-> {},
       light      |-> [r \in Chamber |-> 0],
       short      |-> FALSE]

-----------------------------------------------------------------------------
(* The primitives, for the set S of objects. *)

(* f, with x for what is in S; the lists without what of S points there.   *)
Point(f, S, x) == [o \in DOMAIN f |-> IF o \in S THEN x ELSE f[o]]
Off(list, ptr, S) == [x \in DOMAIN list |-> list[x] \ {o \in S : ptr[o] = x}]

Spare(v) == {o \in Obj : v.type[o] = "free"}
NewOne(v) == CHOOSE o \in Obj : Spare(v) # {} => o \in Spare(v)

obj_to_char(v, S, c) ==
  [v EXCEPT !.carrying[c] = @ \cup S, !.carry_items[c] = @ + Cardinality(S),
            !.carried_by = Point(@, S, c), !.in_room = Point(@, S, NOWHERE)]

obj_from_char(v, S) ==
  [v EXCEPT !.carrying = Off(@, v.carried_by, S),
            !.carry_items = [c \in Body |-> @[c] - Cardinality({o \in S : v.carried_by[o] = c})],
            !.carried_by = Point(@, S, NIL)]

obj_from_room(v, S) ==
  [v EXCEPT !.contents = Off(@, v.in_room, S), !.in_room = Point(@, S, NOWHERE)]

obj_to_obj(v, S, in) == [v EXCEPT !.contains[in] = @ \cup S, !.in_obj = Point(@, S, in)]

(* Mutant: the pointer to the container stays. *)
obj_from_obj_stale(v, S) == [v EXCEPT !.contains = Off(@, v.in_obj, S)]

obj_from_obj(v, S) ==
  [v EXCEPT !.contains = Off(@, v.in_obj, S), !.in_obj = Point(@, S, NIL)]

(* The records go back to the allocator. *)
destroy_object(v, S) ==
  [v EXCEPT !.type = Point(@, S, "free"), !.in_room = Point(@, S, NOWHERE),
            !.carried_by = Point(@, S, NIL), !.equiped_by = Point(@, S, NIL),
            !.in_obj = Point(@, S, NIL), !.lit = @ \ S]

(* S and what is in it, at any depth. *)
Inside(v, S) ==
  {x \in Obj : \A D \in SUBSET Obj :
     S \subseteq D /\ (\A y \in D : v.contains[y] \subseteq D) => x \in D}

(* Taken from where they are, and destroyed with what is in them. *)
extract_obj(v, S) ==
  LET lying == {o \in S : v.in_room[o] # NOWHERE}
      held  == {o \in S \ lying : v.carried_by[o] # NIL}
      boxed == {o \in S \ (lying \cup held) : v.in_obj[o] # NIL}
      out   == obj_from_obj(obj_from_char(obj_from_room(v, lying), held), boxed)
  IN destroy_object([out EXCEPT !.contains = Point(@, Inside(v, S), {})], Inside(v, S))

wipe_obj_list(v, S) == extract_obj(v, S)

Made(v, kind) ==
  IF Spare(v) = {} THEN [v EXCEPT !.short = TRUE] ELSE [v EXCEPT !.type[NewOne(v)] = kind]
load_a_object(v, kind, lights) ==
  [Made(v, kind) EXCEPT !.lit = IF kind = "LIGHT" /\ lights THEN @ \cup {NewOne(v)} ELSE @]
create_money(v) == Made(v, "MONEY")

Laid(v, S, r) ==
  [v EXCEPT !.contents[r] = @ \cup S, !.in_room = Point(@, S, r), !.carried_by = Point(@, S, NIL)]

(* Coins on coins, those that lie there or are of S: new coins are made,   *)
(* and the old ones extracted.                                             *)
Coins(v, S) == {o \in S : v.type[o] = "MONEY"}
Heap(v, r) == IF Coins(v, v.contents[r]) = {} THEN {} ELSE {CHOOSE x \in Coins(v, v.contents[r]) : TRUE}
obj_to_room(v, S, r) ==
  LET old == Coins(v, S) \cup Heap(v, r)
  IN IF Coins(v, S) = {} \/ Cardinality(old) = 1 THEN Laid(v, S, r)
     ELSE Laid(extract_obj(create_money(v), old), (S \ Coins(v, S)) \cup {NewOne(v)}, r)

Clipped(n) == IF n > MaxLight THEN MaxLight ELSE IF n < -MaxLight THEN -MaxLight ELSE n
Light(v, r, d) == [v EXCEPT !.light[r] = Clipped(@ + d)]

(* Zapped: the object is not for the alignment or class of a player. *)
equip(v, c, o, p, zapped) ==
  IF v.carried_by[o] # NIL \/ v.in_room[o] # NOWHERE \/ v.equiped_by[o] # NIL THEN v
  ELSE IF zapped /\ c \in Pc /\ v.room[c] # NOWHERE THEN obj_to_room(v, {o}, v.room[c])
  ELSE [v EXCEPT !.equipment[c][p] = o, !.equiped_by[o] = c]

(* What the characters cs wear on the places, and they without it. *)
Equipped(v, cs, places) == {v.equipment[q[1]][q[2]] : q \in cs \X places} \ {NIL}
unequip(v, cs, places) ==
  [v EXCEPT !.equiped_by = Point(@, Equipped(v, cs, places), NIL),
            !.equipment = [c \in Body |-> IF c \in cs THEN Point(@[c], places, NIL) ELSE @[c]]]

Worn(v, c) == {p \in Slot : v.equipment[c][p] # NIL}
OnLight(v, c) == v.equipment[c]["light"] \in v.lit

Lights(v, cs, r) == Cardinality({c \in cs : v.room[c] = r /\ OnLight(v, c)})
out_of_room(v, cs) ==
  [v EXCEPT !.room = Point(@, cs, NOWHERE),
            !.light = [r \in Chamber |-> Clipped(@[r] - Lights(v, cs, r))]]

into_room(v, c, r) ==
  LET u == [v EXCEPT !.room[c] = r] IN IF OnLight(v, c) THEN Light(u, r, 1) ELSE u

(* What is in the boxes, or on the places of cs, comes to lie in room r.   *)
Emptied(v, boxes, r) ==
  LET out == UNION {v.contains[x] : x \in boxes} IN obj_to_room(obj_from_obj(v, out), out, r)
Stripped(v, cs, places, r) == obj_to_room(unequip(v, cs, places), Equipped(v, cs, places), r)

-----------------------------------------------------------------------------
(* Getting, dropping, putting, giving (act.get.c). *)

Present(c) == w.room[c] # NOWHERE
Lying(c) == w.contents[w.room[c]]

(* Every object is refused by who has his hands full. *)
Fits(c, S) ==
  S # {} => w.carry_items[c] < Cap /\ w.carry_items[c] + Cardinality(S \ Coins(w, S)) <= Cap

(* Coins that are got become gold. *)
get(v, c, S) ==
  LET had == obj_to_char(v, S, c)
  IN extract_obj(obj_from_char(had, Coins(v, S)), Coins(v, S))

get_objects(c, S) ==
  /\ Present(c) /\ Fits(c, S)
  /\ \/ S \subseteq Lying(c) /\ w' = get(obj_from_room(w, S), c, S)
     \/ /\ S \subseteq UNION {w.contains[sub] : sub \in Lying(c) \cup w.carrying[c]}
        /\ w' = get(obj_from_obj(w, S), c, S)

do_drop(c, S) ==
  /\ Present(c) /\ S \subseteq w.carrying[c]
  /\ w' = obj_to_room(obj_from_char(w, S), S, w.room[c])

drop_coins(c) == Present(c) /\ w' = obj_to_room(create_money(w), {NewOne(w)}, w.room[c])

(* A corpse holds nothing more (value[0] is 0), and no object itself. *)
do_put(c, S, sub) ==
  /\ Present(c) /\ S \subseteq w.carrying[c] \ {sub}
  /\ sub \in w.carrying[c] \cup Lying(c) /\ w.type[sub] = "CONTAINER"
  /\ w' = obj_to_obj(obj_from_char(w, S), S, sub)

do_give(c, S, vict) ==
  /\ Present(c) /\ w.room[vict] = w.room[c] /\ S \subseteq w.carrying[c]
  /\ S \subseteq w.carrying[vict] \/ w.carry_items[vict] + Cardinality(S) <= Cap
  /\ w' = obj_to_char(obj_from_char(w, S), S, vict)

do_reload(c, ammo) ==
  /\ Present(c) /\ ammo \in w.carrying[c]
  /\ w' = extract_obj(w, {ammo})

(* One that is alone to hold what he has stolen, and no trial at Cap. *)
do_steal(c, o, vict) ==
  /\ Present(c) /\ w.room[vict] = w.room[c] /\ o \in w.carrying[vict]
  /\ w.carry_items[c] + 1 < Cap
  /\ w' = obj_to_char(obj_from_char(w, {o}), {o}, c)

(* It falls, is caught, or meets its aim; a potion breaks on it. *)
throw_object(v, o, r, breaks) ==
  IF breaks THEN extract_obj(v, {o}) ELSE obj_to_room(v, {o}, r)

do_throw(c, o, vict) ==
  /\ Present(c) /\ w.room[vict] = w.room[c] /\ o \in w.carrying[c]
  /\ LET thrown == obj_from_char(w, {o})
     IN \/ w' = obj_to_room(thrown, {o}, w.room[c])
        \/ c # vict /\ w' = obj_to_char(thrown, {o}, vict)
        \/ c # vict /\ w' = throw_object(thrown, o, w.room[c], w.type[o] = "OTHER")

-----------------------------------------------------------------------------
(* Wearing (act.wear.c). *)

Fitting(kind) ==
  CASE kind = "LIGHT" -> {"light"} [] kind \in {"CONTAINER", "OTHER"} -> Slot \ {"light"} [] OTHER -> {}
where_wear(o) == Fitting(w.type[o])

wear(v, c, o, p, zapped) ==
  LET on == equip(obj_from_char(v, {o}), c, o, p, zapped)
  IN IF v.equipment[c][p] # NIL THEN v
     ELSE IF p = "light" /\ o \in v.lit THEN Light(on, v.room[c], 1)
     ELSE on

unwear(v, c, places) ==
  LET off == obj_to_char(unequip(v, {c}, places), Equipped(v, {c}, places), c)
  IN IF Equipped(v, {c}, places) \cap v.lit # {} THEN Light(off, v.room[c], -1) ELSE off

(* With the place named, nothing comes off; otherwise what is worn there   *)
(* does, if there are hands for it.                                        *)
Exchanged(c, o, p, zapped) ==
  IF w.equipment[c][p] # NIL /\ w.carry_items[c] >= Cap THEN w
  ELSE wear(unwear(w, c, {p}), c, o, p, zapped)

do_wear(c, o, p, zapped) ==
  /\ Present(c) /\ o \in w.carrying[c] /\ p \in where_wear(o)
  /\ w' = wear(w, c, o, p, zapped) \/ w' = Exchanged(c, o, p, zapped)

do_wield(c, o, p, zapped) ==
  /\ Present(c) /\ o \in w.carrying[c] /\ w.type[o] = "OTHER" /\ p # "light"
  /\ w' = Exchanged(c, o, p, zapped)

do_grab(c, o, zapped) ==
  /\ Present(c) /\ o \in w.carrying[c] /\ w.type[o] = "LIGHT"
  /\ w' = Exchanged(c, o, "light", zapped)

do_remove(c, places) ==
  /\ Present(c) /\ places \subseteq Worn(w, c)
  /\ places = {} \/ w.carry_items[c] + Cardinality(places) <= Cap
  /\ w' = unwear(w, c, places)

(* Each tick of a player: his light burns, and may go out. *)
update_char_objects(c) ==
  /\ c \in Pc /\ OnLight(w, c)
  /\ w' = [w EXCEPT !.lit = @ \ {w.equipment[c]["light"]}]

(* A save takes off all that is worn and puts it on again, on the same     *)
(* places, but for what zaps him.                                          *)
char_to_store(c, zapped) ==
  /\ c \in Pc /\ Present(c) /\ zapped \subseteq Worn(w, c) /\ zapped # {}
  /\ w' = Stripped(w, {c}, zapped, w.room[c])

-----------------------------------------------------------------------------
(* Objects that are used up.                                               *)

(* do_junk, do_eat, do_taste: from the hands. *)
do_junk(c, o) ==
  /\ Present(c) /\ o \in w.carrying[c]
  /\ w' = extract_obj(w, {o})

do_eat(c, o) == w.type[o] = "OTHER" /\ do_junk(c, o)

(* What is not in the hands is held. *)
do_quaff(c, o) ==
  /\ Present(c) /\ w.type[o] = "OTHER"
  /\ \/ o \in w.carrying[c] /\ w' = extract_obj(w, {o})
     \/ \E p \in Slot : /\ w.equipment[c][p] = o
                        /\ w' = extract_obj(unequip(w, {c}, {p}), {o})

do_recite(c, o) == do_quaff(c, o)

(* A wand that is charged too often. *)
spell_recharger(c, o) ==
  /\ Present(c) /\ w.type[o] = "OTHER"
  /\ \/ o \in w.carrying[c] /\ w' = extract_obj(w, {o})
     \/ \E p \in Slot : /\ w.equipment[c][p] = o
                        /\ w' = extract_obj(obj_to_char(unequip(w, {c}, {p}), {o}, c), {o})

(* The breath of fire, frost and lightning destroys what is carried; that  *)
(* of gas melts one thing, and a container lets go of what is in it.       *)
spell_fire_breath(vict, S) ==
  /\ Present(vict) /\ S \subseteq w.carrying[vict]
  /\ w' = wipe_obj_list(w, S)

spell_frost_breath(vict, S) ==
  /\ \A o \in S : w.type[o] = "OTHER"
  /\ spell_fire_breath(vict, S)

spell_lightning_breath(vict, S) ==
  /\ \A o \in S : w.type[o] \in {"LIGHT", "OTHER"}
  /\ spell_fire_breath(vict, S)

Melted(v, S, r) == extract_obj(Emptied(v, {x \in S : v.type[x] = "CONTAINER"}, r), S)

spell_gas_breath(vict, melt) ==
  /\ vict \in Pc /\ Present(vict) /\ melt \in w.carrying[vict]
  /\ w' = Melted(w, {melt}, w.room[vict])

(* A blow that sends things flying. *)
mob_punch_drop(vict, places, S) ==
  /\ Present(vict) /\ places \subseteq Worn(w, vict) /\ S \subseteq w.carrying[vict]
  /\ w' = obj_to_room(obj_from_char(unequip(w, {vict}, places), S),
                      Equipped(w, {vict}, places) \cup S, w.room[vict])

(* An immortal takes what anyone has. *)
do_flick(c, vict, o) ==
  /\ c \in Pc /\ Present(c) /\ c # vict /\ Present(vict)
  /\ \/ o \in w.carrying[vict] /\ w' = obj_to_char(obj_from_char(w, {o}), {o}, c)
     \/ \E p \in Slot : /\ w.equipment[vict][p] = o
                        /\ w' = obj_to_char(unequip(w, {vict}, {p}), {o}, c)

(* do_load, create_food, the goods of a shop and what is unstashed. *)
do_load(c, kind, lights) ==
  /\ c \in Pc /\ Present(c)
  /\ LET new == load_a_object(w, kind, lights)
     IN \/ w' = obj_to_char(new, {NewOne(w)}, c)
        \/ w' = obj_to_room(new, {NewOne(w)}, w.room[c])

(* The janitor and scavengers pick up; the beast eats a corpse; the dump   *)
(* lets vanish what is in its room.                                        *)
janitor(c, o) ==
  /\ c \in Mob /\ Present(c) /\ o \in Lying(c)
  /\ w' = obj_to_char(obj_from_room(w, {o}), {o}, c)

fido(c, o) ==
  /\ c \in Mob /\ Present(c) /\ o \in Lying(c) /\ w.type[o] = "CORPSE"
  /\ w' = extract_obj(Emptied(w, {o}, w.room[c]), {o})

dump(c, S) ==
  /\ Present(c) /\ S \subseteq w.carrying[c]
  /\ LET clean == wipe_obj_list(w, Lying(c))
         given == obj_to_room(obj_from_char(clean, S), S, w.room[c])
     IN w' = wipe_obj_list(given, given.contents[w.room[c]])

-----------------------------------------------------------------------------
(* Death (object.c, fight.c). *)

(* Mutant: the number of things in the hands is kept. *)
GivenUp_kept(v, c, corpse) ==
  [v EXCEPT !.contains[corpse] = @ \cup v.carrying[c], !.carrying[c] = {},
            !.in_obj = Point(@, v.carrying[c], corpse), !.carried_by = Point(@, v.carrying[c], NIL)]

(* The code sets the pointers at the end, and nothing between looks at     *)
(* them.                                                                   *)
GivenUp(v, c, corpse) ==
  [v EXCEPT !.contains[corpse] = @ \cup v.carrying[c], !.carrying[c] = {}, !.carry_items[c] = 0,
            !.in_obj = Point(@, v.carrying[c], corpse), !.carried_by = Point(@, v.carrying[c], NIL)]

(* One piece of the body of c: what is worn on the parts goes into it, and *)
(* with the greater piece what is carried and the gold.  What belonged to  *)
(* a player may break.                                                     *)
make_p_corpse(v, c, parts, major, broken, gold) ==
  LET corpse == NewOne(v)
      body == Made(v, "CORPSE")
      full == IF major THEN GivenUp(body, c, corpse) ELSE body
      paid == IF major /\ gold THEN obj_to_obj(create_money(full), {NewOne(full)}, corpse) ELSE full
      lost == IF c \in Pc THEN Equipped(paid, {c}, parts \cap broken) ELSE {}
      kept == Equipped(paid, {c}, parts) \ lost
      laid == obj_to_obj(unequip(paid, {c}, parts), kept, corpse)
  IN obj_to_room(Melted(laid, lost, v.room[c]), {corpse}, v.room[c])

make_a_corpse(v, c, broken, gold) == make_p_corpse(v, c, Slot, TRUE, broken, gold)

(* A part cut off and the rest.  Most blows name their parts by the        *)
(* conjunction of single bits, which is no part: then the first piece      *)
(* has nothing on it.                                                      *)
NoPart == {}
OnePart(p) == {p}
Parts == {NoPart} \cup {OnePart(p) : p \in Slot \ {"light"}}
make_parts_corpse(v, c, part, broken, gold) ==
  make_p_corpse(make_p_corpse(v, c, part, FALSE, broken, gold), c, Slot \ part, TRUE, broken, gold)

(* The head is crushed: what was on it lies in the room. *)
make_nt_corpse(v, c, broken, gold) ==
  make_p_corpse(Stripped(v, {c}, Slot \cap {"head"}, v.room[c]), c, Slot \ {"head"}, TRUE, broken, gold)

make_vh_corpse(v, c, broken, gold) ==
  make_p_corpse(make_a_corpse(v, c, broken, gold), c, {}, FALSE, broken, gold)

kill_char(c, broken, gold) ==
  /\ Present(c) /\ broken \subseteq Worn(w, c)
  /\ \/ w' = out_of_room(make_a_corpse(w, c, broken, gold), {c})
     \/ w' = out_of_room(make_nt_corpse(w, c, broken, gold), {c})
     \/ w' = out_of_room(make_vh_corpse(w, c, broken, gold), {c})
     \/ \E part \in Parts : w' = out_of_room(make_parts_corpse(w, c, part, broken, gold), {c})

(* What a corpse held goes where the corpse was. *)
Decay(o) ==
  /\ w.type[o] = "CORPSE"
  /\ LET had == w.contains[o]
         moved == IF w.in_obj[o] # NIL
                  THEN obj_to_obj(obj_from_obj(w, had), had, w.in_obj[o])
                  ELSE Emptied(w, {o}, IF w.carried_by[o] # NIL THEN w.room[w.carried_by[o]]
                                       ELSE w.in_room[o])
     IN w' = extract_obj(moved, {o})

-----------------------------------------------------------------------------
(* Coming and going.                                                       *)

(* What the characters cs of room r carry is hung on to the room as it is; *)
(* what they wear, with obj_to_room.                                       *)
Hung(v, cs, r) ==
  LET had == UNION {v.carrying[c] : c \in cs}
  IN [v EXCEPT !.contents[r] = @ \cup had, !.carrying = Point(@, cs, {}),
               !.carried_by = Point(@, had, NIL), !.in_room = Point(@, had, r)]
extract_all_obj(v, cs, r) == Stripped(Hung(v, cs, r), cs, Slot, r)

wipe_all_obj(v, c) ==
  wipe_obj_list(unequip(v, {c}, Slot), Equipped(v, {c}, Slot) \cup v.carrying[c])

(* The records of the characters are freed. *)
free_a_char(v, cs) == [v EXCEPT !.carry_items = Point(@, cs, 0)]

extract_char(v, cs, r) == free_a_char(out_of_room(extract_all_obj(v, cs, r), cs), cs)

(* Stashed objects are wiped from the world: do_rent, and the players that *)
(* idle, are purged or cut off.                                            *)
do_rent(c) ==
  /\ c \in Pc /\ Present(c)
  /\ w' = out_of_room(wipe_all_obj(w, c), {c})

check_idling(c) ==
  /\ c \in Pc /\ Present(c)
  /\ w' = free_a_char(out_of_room(wipe_all_obj(w, c), {c}), {c})

do_police(c) ==
  /\ c \in Pc /\ Present(c)
  /\ w' = extract_char(wipe_all_obj(w, c), {c}, w.room[c])

do_purge(c) ==
  /\ c \in Pc /\ Present(c)
  /\ LET gone == extract_char(w, {m \in Mob : w.room[m] = w.room[c]}, w.room[c])
     IN w' = wipe_obj_list(gone, gone.contents[w.room[c]])

purge_one(c, o) ==
  /\ c \in Pc /\ Present(c) /\ o \in Lying(c)
  /\ w' = extract_obj(w, {o})

purge_mob(m) ==
  /\ m \in Mob /\ Present(m)
  /\ w' = extract_char(w, {m}, w.room[m])

(* A player comes back with what he had in rent: here one object.          *)
menu_select(c, r, p, kind, lights) ==
  /\ c \in Pc /\ ~Present(c)
  /\ \/ w' = into_room(w, c, r)
     \/ w' = into_room(equip(load_a_object(w, kind, lights), c, NewOne(w), p, FALSE), c, r)

(* A zone loads a mobile into a room, then gives or wears him an object:   *)
(* commands M, G, E.                                                       *)
reset_mob(m, r, p, kind, lights) ==
  /\ m \in Mob /\ ~Present(m)
  /\ LET came == into_room(w, m, r)
         new  == load_a_object(came, kind, lights)
     IN \/ w' = came
        \/ w' = obj_to_char(new, {NewOne(w)}, m)
        \/ w' = equip(new, m, NewOne(w), p, FALSE)

(* Commands O, P, X. *)
reset_obj(kind, r, lights) ==
  LET new == load_a_object(w, kind, lights)
  IN \/ w' = obj_to_room(new, {NewOne(w)}, r)
     \/ \E to \in LiveObj : w.type[to] = "CONTAINER" /\ w' = obj_to_obj(new, {NewOne(w)}, to)
     \/ \E o \in w.contents[r] : w' = extract_obj(w, {o})

(* Walking, transfers, the void. *)
move_one(c, r) ==
  /\ Present(c) /\ r # w.room[c]
  /\ w' = into_room(out_of_room(w, {c}), c, r)

-----------------------------------------------------------------------------
Act(c) ==
  \/ \E S \in SUBSET LiveObj :
       \/ get_objects(c, S) \/ do_drop(c, S) \/ dump(c, S)
       \/ spell_fire_breath(c, S) \/ spell_frost_breath(c, S) \/ spell_lightning_breath(c, S)
       \/ \E sub \in LiveObj : do_put(c, S, sub)
       \/ \E vict \in Body : do_give(c, S, vict)
       \/ \E places \in SUBSET Slot : mob_punch_drop(c, places, S)
  \/ \E o \in LiveObj :
       \/ do_reload(c, o) \/ do_junk(c, o) \/ do_eat(c, o) \/ do_quaff(c, o) \/ do_recite(c, o)
       \/ spell_recharger(c, o) \/ spell_gas_breath(c, o)
       \/ janitor(c, o) \/ fido(c, o) \/ purge_one(c, o)
       \/ \E vict \in Body : do_steal(c, o, vict) \/ do_throw(c, o, vict) \/ do_flick(c, vict, o)
       \/ \E zapped \in BOOLEAN :
            \/ do_grab(c, o, zapped)
            \/ \E p \in Slot : do_wear(c, o, p, zapped) \/ do_wield(c, o, p, zapped)
  \/ drop_coins(c) \/ update_char_objects(c)
  \/ \E places \in SUBSET Slot : do_remove(c, places) \/ char_to_store(c, places)
  \/ \E broken \in SUBSET Slot, gold \in BOOLEAN : kill_char(c, broken, gold)

Pass ==
  \/ \E o \in LiveObj : Decay(o)
  \/ \E c \in Pc : do_rent(c) \/ check_idling(c) \/ do_police(c) \/ do_purge(c)
  \/ \E m \in Mob : purge_mob(m)
  \/ \E c \in Pc, kind \in Loaded, lights \in BOOLEAN : do_load(c, kind, lights)
  \/ \E c \in Body, r \in Chamber : move_one(c, r)
  \/ \E kind \in Loaded, lights \in BOOLEAN : \E p \in Fitting(kind), r \in Chamber :
       \/ \E c \in Pc : menu_select(c, r, p, kind, lights)
       \/ \E m \in Mob : reset_mob(m, r, p, kind, lights)
       \/ reset_obj(kind, r, lights)

BelongNext == (Pass \/ \E c \in Body : Act(c)) /\ ~w'.short

BelongSpec == BelongInit /\ [][BelongNext]_w

-----------------------------------------------------------------------------
Places(o) ==
  {<<"room", r>> : r \in {r \in Chamber : o \in w.contents[r]}}
  \cup {<<"hands", c>> : c \in {c \in Body : o \in w.carrying[c]}}
  \cup {<<"inside", x>> : x \in {x \in Obj : o \in w.contains[x]}}
  \cup {<<"worn", q>> : q \in {q \in Body \X Slot : w.equipment[q[1]][q[2]] = o}}

(* An object of the world is in one place, and in none when it is freed:   *)
(* no handler leaves it in a list it has left (transfer.c, find.c).        *)
InOnePlace(o) == Cardinality(Places(o)) = IF o \in LiveObj THEN 1 ELSE 0

(* Its pointers name that place, which is what extract_obj goes by.        *)
PointersAgree(o) ==
  /\ \A r \in Chamber : (w.in_room[o] = r) <=> (o \in w.contents[r])
  /\ \A c \in Body : (w.carried_by[o] = c) <=> (o \in w.carrying[c])
  /\ \A x \in Obj : (w.in_obj[o] = x) <=> (o \in w.contains[x])
  /\ \A c \in Body : (w.equiped_by[o] = c) <=> (\E p \in Slot : w.equipment[c][p] = o)

(* carry_items, which get and give trust, is the number of objects in the  *)
(* hands; who is out of the world has left nothing on himself.             *)
CarryCount(c) ==
  /\ w.carry_items[c] = Cardinality(w.carrying[c])
  /\ Present(c) \/ (w.carrying[c] = {} /\ Worn(w, c) = {})

(* No objects are each in another of them: extract_obj, which goes into    *)
(* what is in an object, comes to an end.                                  *)
Untied(ptr) == \A D \in SUBSET Obj : D # {} => \E o \in D : ptr[o] \notin D

(* Through getting, giving, wearing, dropping, death, purge and the merge  *)
(* of coins, every object stays in one place that it knows, none comes to  *)
(* be in itself, and the count of everybody's hands is true.               *)
OnePlace ==
  /\ \A o \in Obj : InOnePlace(o) /\ PointersAgree(o)
  /\ \A c \in Body : CarryCount(c)
  /\ Untied(w.in_obj)

(* "int light; Number of lightsources in room" (header/world.h:121).       *)
LightCounted ==
  \A r \in Chamber : w.light[r] = Cardinality({c \in Body : w.room[c] = r /\ OnLight(w, c)})
=============================================================================
