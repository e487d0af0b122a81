---------------------------- MODULE ThingsProofs ----------------------------
(***************************************************************************)
(* Where objects are, for any objects, characters, rooms and places to     *)
(* wear: each is in one place, which it knows, and none is in itself.      *)
(*                                                                         *)
(* The code takes an object from one list and puts it on the next, and in  *)
(* between it is nowhere; so does it free a character in several steps.    *)
(* Sound(v, L, C) says that all is in order in the state v but that the    *)
(* objects L are in nobody's hands and the characters C on their way in or *)
(* out.  One lemma per primitive says which L and C it needs and leaves;   *)
(* one per command, that from order it comes back to order.  A state that  *)
(* is short of records is never reached, and nothing is said of it.        *)
(***************************************************************************)
EXTENDS Belongings, DataLemmas

-----------------------------------------------------------------------------
(* Lists and pointers agree; what is worn; an object is in one place.      *)

Agree(list, ptr) == \A x \in DOMAIN list, o \in Obj : o \in list[x] <=> ptr[o] = x

Filed(v) ==
  /\ Agree(v.contents, v.in_room)
  /\ Agree(v.carrying, v.carried_by)
  /\ Agree(v.contains, v.in_obj)
Dressed(v) ==
  /\ \A c \in Body, p \in Slot : v.equipment[c][p] # NIL => v.equiped_by[v.equipment[c][p]] = c
  /\ \A o \in Obj : v.equiped_by[o] # NIL => \E p \in Slot : v.equipment[v.equiped_by[o]][p] = o
  /\ \A c \in Body, p, q \in Slot :
       v.equipment[c][p] = v.equipment[c][q] /\ v.equipment[c][p] # NIL => p = q
Apart(v) ==
  \A o \in Obj :
    /\ v.in_room[o] # NOWHERE => v.carried_by[o] = NIL /\ v.in_obj[o] = NIL /\ v.equiped_by[o] = NIL
    /\ v.carried_by[o] # NIL => v.in_obj[o] = NIL /\ v.equiped_by[o] = NIL
    /\ v.in_obj[o] # NIL => v.equiped_by[o] = NIL
Somewhere(v, o) ==
  v.in_room[o] # NOWHERE \/ v.carried_by[o] # NIL \/ v.in_obj[o] # NIL \/ v.equiped_by[o] # NIL
Housed(v, L) ==
  \A o \in Obj : IF o \in L THEN v.type[o] # "free" /\ ~Somewhere(v, o)
                 ELSE Somewhere(v, o) <=> v.type[o] # "free"
Sorted(v) ==
  /\ \A x \in Obj : v.contains[x] # {} => v.type[x] \in {"CONTAINER", "CORPSE"}
  /\ \A o \in Obj : v.equiped_by[o] # NIL => v.type[o] \in Loaded
Counted(v, C) == \A c \in Body \ C : v.carry_items[c] = Cardinality(v.carrying[c])
LeftBare(v, C) ==
  \A c \in Body \ C : v.room[c] = NOWHERE => v.carrying[c] = {} /\ \A p \in Slot : v.equipment[c][p] = NIL

Orderly(v, L, C) ==
  /\ Filed(v) /\ Dressed(v) /\ Apart(v) /\ Housed(v, L) /\ Sorted(v)
  /\ Counted(v, C) /\ LeftBare(v, C) /\ Untied(v.in_obj)
Sound(v, L, C) == v \in Things /\ (~v.short => Orderly(v, L, C))

(* u is v but for the fields F. *)
Names == {"type", "in_room", "carried_by", "equiped_by", "in_obj", "contents", "carrying", "contains",
          "equipment", "carry_items", "room", "lit", "light", "short"}
Alike(u, v, F) == \A f \in Names \ F : u[f] = v[f]

LEMMA PointIs ==
  ASSUME NEW A, NEW B, NEW f \in [A -> B], NEW S, NEW x \in B
  PROVE  /\ Point(f, S, x) \in [A -> B]
         /\ \A o \in A : Point(f, S, x)[o] = IF o \in S THEN x ELSE f[o]
BY DEF Point

LEMMA OffIs ==
  ASSUME NEW A, NEW list \in [A -> SUBSET Obj], NEW ptr, NEW S
  PROVE  /\ Off(list, ptr, S) \in [A -> SUBSET Obj]
         /\ \A x \in A : Off(list, ptr, S)[x] = list[x] \ {o \in S : ptr[o] = x}
BY DEF Off

LEMMA Fields ==
  ASSUME NEW v \in Things
  PROVE  /\ v.type \in [Obj -> Kind \cup {"free"}] /\ v.in_room \in [Obj -> Chamber \cup {NOWHERE}]
         /\ v.carried_by \in [Obj -> Body \cup {NIL}] /\ v.equiped_by \in [Obj -> Body \cup {NIL}]
         /\ v.in_obj \in [Obj -> Obj \cup {NIL}] /\ v.contents \in [Chamber -> SUBSET Obj]
         /\ v.carrying \in [Body -> SUBSET Obj] /\ v.contains \in [Obj -> SUBSET Obj]
         /\ v.equipment \in [Body -> [Slot -> Obj \cup {NIL}]] /\ v.carry_items \in [Body -> Int]
         /\ v.room \in [Body -> Chamber \cup {NOWHERE}] /\ v.lit \in SUBSET Obj
         /\ v.light \in [Chamber -> -MaxLight .. MaxLight] /\ v.short \in BOOLEAN
BY DEF Things

LEMMA Counting ==
  ASSUME NEW S \in SUBSET Obj
  PROVE  IsFiniteSet(S) /\ Cardinality(S) \in Nat
BY ThingsAssumption, FS_Subset, FS_CardinalityType

LEMMA PointSame ==
  ASSUME NEW A, NEW B, NEW f \in [A -> B], NEW S, NEW x, \A o \in S : f[o] = x
  PROVE  Point(f, S, x) = f
BY DEF Point

(* What is taken off a list, or put on it, with its pointers. *)
LEMMA AgreeOff ==
  ASSUME NEW A, NEW none, none \notin A, NEW list \in [A -> SUBSET Obj], NEW ptr \in [Obj -> A \cup {none}],
         NEW S \in SUBSET Obj, Agree(list, ptr)
  PROVE  Agree(Off(list, ptr, S), Point(ptr, S, none))
BY DEF Agree, Off, Point

LEMMA AgreeOn ==
  ASSUME NEW A, NEW none, none \notin A, NEW list \in [A -> SUBSET Obj], NEW ptr \in [Obj -> A \cup {none}],
         NEW S \in SUBSET Obj, Agree(list, ptr), \A o \in S : ptr[o] = none, NEW x \in A
  PROVE  Agree([list EXCEPT ![x] = @ \cup S], Point(ptr, S, x))
BY DEF Agree, Point

LEMMA CountOn ==
  ASSUME NEW S \in SUBSET Obj, NEW T \in SUBSET Obj, S \cap T = {}
  PROVE  Cardinality(T \cup S) = Cardinality(T) + Cardinality(S)
<1>1. IsFiniteSet(S) /\ IsFiniteSet(T) /\ Cardinality(S) \in Nat /\ Cardinality(T) \in Nat
  BY Counting
<1>2. Cardinality(T \cup S) = Cardinality(T) + Cardinality(S) - Cardinality(T \cap S)
  BY <1>1, FS_Union
<1>3. Cardinality(T \cap S) = 0
  <2>1. T \cap S = {}
    OBVIOUS
  <2> QED
    BY <2>1, FS_EmptySet
<1> QED
  BY <1>1, <1>2, <1>3

LEMMA CountOff ==
  ASSUME NEW T \in SUBSET Obj, NEW S \in SUBSET T
  PROVE  Cardinality(T \ S) = Cardinality(T) - Cardinality(S)
<1>1. Cardinality((T \ S) \cup S) = Cardinality(T \ S) + Cardinality(S)
  <2>1. T \ S \in SUBSET Obj /\ S \in SUBSET Obj /\ S \cap (T \ S) = {}
    OBVIOUS
  <2> QED
    BY <2>1, CountOn
<1>2. (T \ S) \cup S = T
  OBVIOUS
<1>3. Cardinality(T) \in Nat /\ Cardinality(S) \in Nat /\ Cardinality(T \ S) \in Nat
  BY Counting
<1>4. Cardinality(T) = Cardinality(T \ S) + Cardinality(S)
  BY <1>1, <1>2
<1> QED
  BY <1>3, <1>4

LEMMA ToChar ==
  ASSUME NEW v, NEW L \in SUBSET Obj, NEW C, Sound(v, L, C), NEW S \in SUBSET L, NEW c \in Body,
         v.room[c] # NOWHERE
  PROVE  LET u == obj_to_char(v, S, c)
         IN  /\ Sound(u, L \ S, C)
             /\ Alike(u, v, {"carrying", "carry_items", "carried_by", "in_room"})
             /\ \A o \in Obj : u.carried_by[o] = IF o \in S THEN c ELSE v.carried_by[o]
<1> SUFFICES ASSUME NEW u, u = obj_to_char(v, S, c)
             PROVE  /\ Sound(u, L \ S, C)
                    /\ Alike(u, v, {"carrying", "carry_items", "carried_by", "in_room"})
                    /\ \A o \in Obj : u.carried_by[o] = IF o \in S THEN c ELSE v.carried_by[o]
  OBVIOUS
<1>1. v \in Things /\ S \in SUBSET Obj
  BY DEF Sound
<1>2. /\ v.in_room \in [Obj -> Chamber \cup {NOWHERE}] /\ v.carried_by \in [Obj -> Body \cup {NIL}]
      /\ v.carrying \in [Body -> SUBSET Obj] /\ v.carry_items \in [Body -> Int]
      /\ Cardinality(S) \in Nat
  BY <1>1, Fields, Counting
<1>3. /\ Point(v.carried_by, S, c) \in [Obj -> Body \cup {NIL}]
      /\ Point(v.in_room, S, NOWHERE) \in [Obj -> Chamber \cup {NOWHERE}]
  BY <1>2 DEF Point
<1>4. /\ [v.carrying EXCEPT ![c] = @ \cup S] \in [Body -> SUBSET Obj]
      /\ [v.carry_items EXCEPT ![c] = @ + Cardinality(S)] \in [Body -> Int]
  BY <1>1, <1>2
<1>5. /\ u \in Things
      /\ u.carrying = [v.carrying EXCEPT ![c] = @ \cup S]
      /\ u.carry_items = [v.carry_items EXCEPT ![c] = @ + Cardinality(S)]
      /\ u.carried_by = Point(v.carried_by, S, c)
      /\ u.in_room = Point(v.in_room, S, NOWHERE)
      /\ u.type = v.type /\ u.equiped_by = v.equiped_by /\ u.in_obj = v.in_obj
      /\ u.contents = v.contents /\ u.contains = v.contains /\ u.equipment = v.equipment
      /\ u.room = v.room /\ u.short = v.short
  BY <1>1, <1>3, <1>4 DEF obj_to_char, Things
<1>8. \A o \in Obj : u.carried_by[o] = IF o \in S THEN c ELSE v.carried_by[o]
  BY <1>2, <1>5 DEF Point
<1>30. Alike(u, v, {"carrying", "carry_items", "carried_by", "in_room"})
  BY <1>1 DEF obj_to_char, Things, Alike, Names
<1> SUFFICES ASSUME ~v.short, Orderly(v, L, C)
             PROVE  Orderly(u, L \ S, C)
  BY <1>30, <1>5, <1>8 DEF Sound
<1> USE DEF Orderly
<1>6. \A o \in S : v.in_room[o] = NOWHERE /\ v.carried_by[o] = NIL
  BY DEF Housed, Somewhere
<1>7. u.in_room = v.in_room
  <2>1. Point(v.in_room, S, NOWHERE) = v.in_room
    BY <1>2, <1>6 DEF Point
  <2> QED
    BY <2>1, <1>5
<1>9. Filed(u)
  <2>1. Agree([v.carrying EXCEPT ![c] = @ \cup S], Point(v.carried_by, S, c))
    BY <1>1, <1>2, <1>6, AgreeOn, ThingsAssumption DEF Filed
  <2> QED
    BY <2>1, <1>5, <1>7 DEF Filed
<1>10. Dressed(u)
  BY <1>5 DEF Dressed
<1>11. Apart(u)
  BY <1>5, <1>6, <1>7, <1>8, ThingsAssumption DEF Apart, Housed, Somewhere
<1>12. Housed(u, L \ S)
  BY <1>5, <1>7, <1>8, ThingsAssumption DEF Housed, Somewhere
<1>13. Sorted(u)
  BY <1>5 DEF Sorted
<1>14. Counted(u, C)
  <2>1. S \cap v.carrying[c] = {}
    BY <1>2, <1>6, ThingsAssumption DEF Filed, Agree
  <2>2. Cardinality(v.carrying[c] \cup S) = Cardinality(v.carrying[c]) + Cardinality(S)
    BY <2>1, <1>1, <1>2, CountOn
  <2> QED
    BY <2>2, <1>5, <1>2 DEF Counted
<1>15. LeftBare(u, C)
  BY <1>5, <1>2 DEF LeftBare
<1> QED
  BY <1>9, <1>10, <1>11, <1>12, <1>13, <1>14, <1>15, <1>5

LEMMA FromChar ==
  ASSUME NEW v, NEW L \in SUBSET Obj, NEW C, Sound(v, L, C), NEW S \in SUBSET Obj,
         v.short \/ \A o \in S : v.carried_by[o] # NIL
  PROVE  LET u == obj_from_char(v, S)
         IN  /\ Sound(u, L \cup S, C)
             /\ Alike(u, v, {"carrying", "carry_items", "carried_by"})
             /\ u.carrying = Off(v.carrying, v.carried_by, S)
             /\ \A o \in Obj : u.carried_by[o] = IF o \in S THEN NIL ELSE v.carried_by[o]
<1> SUFFICES ASSUME NEW u, u = obj_from_char(v, S)
             PROVE  /\ Sound(u, L \cup S, C)
                    /\ Alike(u, v, {"carrying", "carry_items", "carried_by"})
                    /\ u.carrying = Off(v.carrying, v.carried_by, S)
                    /\ \A o \in Obj : u.carried_by[o] = IF o \in S THEN NIL ELSE v.carried_by[o]
  OBVIOUS
<1> DEFINE Held(c) == {o \in S : v.carried_by[o] = c}
           Left == [c \in Body |-> v.carry_items[c] - Cardinality(Held(c))]
<1>1. v \in Things
  BY DEF Sound
<1>2. /\ v.carried_by \in [Obj -> Body \cup {NIL}]
      /\ v.carrying \in [Body -> SUBSET Obj] /\ v.carry_items \in [Body -> Int]
  BY <1>1, Fields
<1>3. \A c \in Body : Cardinality(Held(c)) \in Nat
  BY Counting
<1>4. /\ Point(v.carried_by, S, NIL) \in [Obj -> Body \cup {NIL}]
      /\ Off(v.carrying, v.carried_by, S) \in [Body -> SUBSET Obj]
  BY <1>2 DEF Point, Off
<1>5. Left \in [Body -> Int]
  <2> HIDE DEF Held
  <2> QED
    BY <1>2, <1>3
<1>6. /\ u \in Things
      /\ u.carrying = Off(v.carrying, v.carried_by, S)
      /\ u.carry_items = Left
      /\ u.carried_by = Point(v.carried_by, S, NIL)
      /\ u.in_room = v.in_room
      /\ u.type = v.type /\ u.equiped_by = v.equiped_by /\ u.in_obj = v.in_obj
      /\ u.contents = v.contents /\ u.contains = v.contains /\ u.equipment = v.equipment
      /\ u.room = v.room /\ u.short = v.short /\ u.lit = v.lit
  BY <1>1, <1>4, <1>5 DEF obj_from_char, Things
<1> HIDE DEF Left
<1>8. \A o \in Obj : u.carried_by[o] = IF o \in S THEN NIL ELSE v.carried_by[o]
  BY <1>2, <1>6 DEF Point
<1>30. Alike(u, v, {"carrying", "carry_items", "carried_by"})
  BY <1>1 DEF obj_from_char, Things, Alike, Names
<1> SUFFICES ASSUME ~v.short, Orderly(v, L, C)
             PROVE  Orderly(u, L \cup S, C)
  BY <1>30, <1>6, <1>8 DEF Sound
<1> USE DEF Orderly
<1>7. \A o \in S : /\ v.carried_by[o] # NIL /\ v.in_room[o] = NOWHERE /\ v.in_obj[o] = NIL
                   /\ v.equiped_by[o] = NIL /\ v.type[o] # "free"
  BY DEF Apart, Housed, Somewhere
<1>9. Filed(u)
  <2>1. Agree(Off(v.carrying, v.carried_by, S), Point(v.carried_by, S, NIL))
    BY <1>2, AgreeOff, ThingsAssumption DEF Filed
  <2> QED
    BY <2>1, <1>6 DEF Filed
<1>10. Dressed(u)
  BY <1>6 DEF Dressed
<1>11. Apart(u)
  BY <1>6, <1>8 DEF Apart
<1>12. Housed(u, L \cup S)
  BY <1>6, <1>7, <1>8 DEF Housed, Somewhere
<1>13. Sorted(u)
  BY <1>6 DEF Sorted
<1>14. Counted(u, C)
  <2> SUFFICES ASSUME NEW c \in Body \ C
               PROVE  u.carry_items[c] = Cardinality(u.carrying[c])
    BY DEF Counted
  <2>1. Held(c) \in SUBSET v.carrying[c] /\ v.carrying[c] \in SUBSET Obj
    BY <1>2 DEF Filed, Agree
  <2>2. u.carrying[c] = v.carrying[c] \ Held(c)
    BY <1>2, <1>6 DEF Off
  <2>3. Cardinality(v.carrying[c] \ Held(c)) = Cardinality(v.carrying[c]) - Cardinality(Held(c))
    <3> HIDE DEF Held
    <3> QED
      BY <2>1, CountOff
  <2>4. u.carry_items[c] = v.carry_items[c] - Cardinality(Held(c))
    BY <1>6 DEF Left
  <2> QED
    BY <2>2, <2>3, <2>4 DEF Counted
<1>15. LeftBare(u, C)
  BY <1>6, <1>2 DEF LeftBare, Off
<1> QED
  BY <1>9, <1>10, <1>11, <1>12, <1>13, <1>14, <1>15, <1>6

LEMMA FromRoom ==
  ASSUME NEW v, NEW L \in SUBSET Obj, NEW C, Sound(v, L, C), NEW S \in SUBSET Obj,
         v.short \/ \A o \in S : v.in_room[o] # NOWHERE
  PROVE  LET u == obj_from_room(v, S)
         IN  /\ Sound(u, L \cup S, C)
             /\ Alike(u, v, {"contents", "in_room"})
             /\ \A o \in Obj : u.in_room[o] = IF o \in S THEN NOWHERE ELSE v.in_room[o]
<1> SUFFICES ASSUME NEW u, u = obj_from_room(v, S)
             PROVE  /\ Sound(u, L \cup S, C)
                    /\ Alike(u, v, {"contents", "in_room"})
                    /\ \A o \in Obj : u.in_room[o] = IF o \in S THEN NOWHERE ELSE v.in_room[o]
  OBVIOUS
<1>1. v \in Things
  BY DEF Sound
<1>2. v.in_room \in [Obj -> Chamber \cup {NOWHERE}] /\ v.contents \in [Chamber -> SUBSET Obj]
  BY <1>1, Fields
<1>3. /\ Point(v.in_room, S, NOWHERE) \in [Obj -> Chamber \cup {NOWHERE}]
      /\ Off(v.contents, v.in_room, S) \in [Chamber -> SUBSET Obj]
  BY <1>2 DEF Point, Off
<1>4. /\ u \in Things
      /\ u.contents = Off(v.contents, v.in_room, S)
      /\ u.in_room = Point(v.in_room, S, NOWHERE)
      /\ u.type = v.type /\ u.carried_by = v.carried_by /\ u.equiped_by = v.equiped_by
      /\ u.in_obj = v.in_obj /\ u.carrying = v.carrying /\ u.carry_items = v.carry_items
      /\ u.contains = v.contains /\ u.equipment = v.equipment
      /\ u.room = v.room /\ u.short = v.short /\ u.lit = v.lit
  BY <1>1, <1>3 DEF obj_from_room, Things
<1>6. \A o \in Obj : u.in_room[o] = IF o \in S THEN NOWHERE ELSE v.in_room[o]
  BY <1>2, <1>4 DEF Point
<1>30. Alike(u, v, {"contents", "in_room"})
  BY <1>1 DEF obj_from_room, Things, Alike, Names
<1> SUFFICES ASSUME ~v.short, Orderly(v, L, C)
             PROVE  Orderly(u, L \cup S, C)
  BY <1>30, <1>4, <1>6 DEF Sound
<1> USE DEF Orderly
<1>5. \A o \in S : /\ v.in_room[o] # NOWHERE /\ v.carried_by[o] = NIL /\ v.in_obj[o] = NIL
                   /\ v.equiped_by[o] = NIL /\ v.type[o] # "free"
  BY DEF Apart, Housed, Somewhere
<1>7. Filed(u)
  <2>1. Agree(Off(v.contents, v.in_room, S), Point(v.in_room, S, NOWHERE))
    BY <1>2, AgreeOff, ThingsAssumption DEF Filed
  <2> QED
    BY <2>1, <1>4 DEF Filed
<1>8. Dressed(u) /\ Sorted(u) /\ Counted(u, C) /\ LeftBare(u, C)
  BY <1>4 DEF Dressed, Sorted, Counted, LeftBare
<1>9. Apart(u)
  BY <1>4, <1>6 DEF Apart
<1>10. Housed(u, L \cup S)
  BY <1>4, <1>5, <1>6 DEF Housed, Somewhere
<1> QED
  BY <1>7, <1>8, <1>9, <1>10, <1>4

LEMMA ToRoom ==
  ASSUME NEW v, NEW L \in SUBSET Obj, NEW C, Sound(v, L, C), NEW S \in SUBSET L, NEW r \in Chamber
  PROVE  LET u == Laid(v, S, r)
         IN  /\ Sound(u, L \ S, C)
             /\ Alike(u, v, {"contents", "in_room", "carried_by"})
<1> SUFFICES ASSUME NEW u, u = Laid(v, S, r)
             PROVE  /\ Sound(u, L \ S, C)
                    /\ Alike(u, v, {"contents", "in_room", "carried_by"})
  OBVIOUS
<1>1. v \in Things /\ S \in SUBSET Obj
  BY DEF Sound
<1>2. /\ v.in_room \in [Obj -> Chamber \cup {NOWHERE}] /\ v.carried_by \in [Obj -> Body \cup {NIL}]
      /\ v.contents \in [Chamber -> SUBSET Obj]
  BY <1>1, Fields
<1>3. /\ Point(v.in_room, S, r) \in [Obj -> Chamber \cup {NOWHERE}]
      /\ Point(v.carried_by, S, NIL) \in [Obj -> Body \cup {NIL}]
      /\ [v.contents EXCEPT ![r] = @ \cup S] \in [Chamber -> SUBSET Obj]
  BY <1>1, <1>2 DEF Point
<1>4. /\ u \in Things
      /\ u.contents = [v.contents EXCEPT ![r] = @ \cup S]
      /\ u.in_room = Point(v.in_room, S, r)
      /\ u.carried_by = Point(v.carried_by, S, NIL)
      /\ u.type = v.type /\ u.equiped_by = v.equiped_by
      /\ u.in_obj = v.in_obj /\ u.carrying = v.carrying /\ u.carry_items = v.carry_items
      /\ u.contains = v.contains /\ u.equipment = v.equipment
      /\ u.room = v.room /\ u.short = v.short
  BY <1>1, <1>3 DEF Laid, Things
<1>30. Alike(u, v, {"contents", "in_room", "carried_by"})
  BY <1>1 DEF Laid, Things, Alike, Names
<1> SUFFICES ASSUME ~v.short, Orderly(v, L, C)
             PROVE  Orderly(u, L \ S, C)
  BY <1>30, <1>4 DEF Sound
<1> USE DEF Orderly
<1>5. \A o \in S : /\ v.in_room[o] = NOWHERE /\ v.carried_by[o] = NIL /\ v.in_obj[o] = NIL
                   /\ v.equiped_by[o] = NIL
  BY DEF Housed, Somewhere
<1>6. u.carried_by = v.carried_by
  <2>1. Point(v.carried_by, S, NIL) = v.carried_by
    BY <1>2, <1>5 DEF Point
  <2> QED
    BY <2>1, <1>4
<1>7. \A o \in Obj : u.in_room[o] = IF o \in S THEN r ELSE v.in_room[o]
  BY <1>2, <1>4 DEF Point
<1>8. Filed(u)
  <2>1. Agree([v.contents EXCEPT ![r] = @ \cup S], Point(v.in_room, S, r))
    BY <1>1, <1>2, <1>5, AgreeOn, ThingsAssumption DEF Filed
  <2> QED
    BY <2>1, <1>4, <1>6 DEF Filed
<1>9. Dressed(u) /\ Sorted(u) /\ Counted(u, C) /\ LeftBare(u, C)
  BY <1>4 DEF Dressed, Sorted, Counted, LeftBare
<1>10. Apart(u)
  BY <1>4, <1>5, <1>6, <1>7 DEF Apart
<1>11. Housed(u, L \ S)
  BY <1>4, <1>6, <1>7, ThingsAssumption DEF Housed, Somewhere
<1> QED
  BY <1>8, <1>9, <1>10, <1>11, <1>4

LEMMA FromBox ==
  ASSUME NEW v, NEW L \in SUBSET Obj, NEW C, Sound(v, L, C), NEW S \in SUBSET Obj,
         v.short \/ \A o \in S : v.in_obj[o] # NIL
  PROVE  LET u == obj_from_obj(v, S)
         IN  /\ Sound(u, L \cup S, C)
             /\ Alike(u, v, {"contains", "in_obj"})
             /\ u.contains = Off(v.contains, v.in_obj, S)
             /\ u.in_obj = Point(v.in_obj, S, NIL)
<1> SUFFICES ASSUME NEW u, u = obj_from_obj(v, S)
             PROVE  /\ Sound(u, L \cup S, C)
                    /\ Alike(u, v, {"contains", "in_obj"})
                    /\ u.contains = Off(v.contains, v.in_obj, S)
                    /\ u.in_obj = Point(v.in_obj, S, NIL)
  OBVIOUS
<1>1. v \in Things
  BY DEF Sound
<1>2. v.in_obj \in [Obj -> Obj \cup {NIL}] /\ v.contains \in [Obj -> SUBSET Obj]
  BY <1>1, Fields
<1>3. /\ Point(v.in_obj, S, NIL) \in [Obj -> Obj \cup {NIL}]
      /\ Off(v.contains, v.in_obj, S) \in [Obj -> SUBSET Obj]
  BY <1>2 DEF Point, Off
<1>4. /\ u \in Things
      /\ u.contains = Off(v.contains, v.in_obj, S)
      /\ u.in_obj = Point(v.in_obj, S, NIL)
      /\ u.type = v.type /\ u.carried_by = v.carried_by /\ u.equiped_by = v.equiped_by
      /\ u.in_room = v.in_room /\ u.carrying = v.carrying /\ u.carry_items = v.carry_items
      /\ u.contents = v.contents /\ u.equipment = v.equipment
      /\ u.room = v.room /\ u.short = v.short /\ u.lit = v.lit
  BY <1>1, <1>3 DEF obj_from_obj, Things
<1>6. \A o \in Obj : u.in_obj[o] = IF o \in S THEN NIL ELSE v.in_obj[o]
  BY <1>2, <1>4 DEF Point
<1>30. Alike(u, v, {"contains", "in_obj"})
  BY <1>1 DEF obj_from_obj, Things, Alike, Names
<1> SUFFICES ASSUME ~v.short, Orderly(v, L, C)
             PROVE  Orderly(u, L \cup S, C)
  BY <1>30, <1>4, <1>6 DEF Sound
<1> USE DEF Orderly
<1>5. \A o \in S : /\ v.in_room[o] = NOWHERE /\ v.carried_by[o] = NIL /\ v.in_obj[o] # NIL
                   /\ v.equiped_by[o] = NIL /\ v.type[o] # "free"
  BY DEF Apart, Housed, Somewhere
<1>7. Filed(u)
  <2>1. Agree(Off(v.contains, v.in_obj, S), Point(v.in_obj, S, NIL))
    BY <1>2, AgreeOff, ThingsAssumption DEF Filed
  <2> QED
    BY <2>1, <1>4 DEF Filed
<1>8. Dressed(u) /\ Counted(u, C) /\ LeftBare(u, C)
  BY <1>4 DEF Dressed, Counted, LeftBare
<1>9. Sorted(u)
  BY <1>2, <1>4 DEF Sorted, Off
<1>10. Apart(u)
  BY <1>4, <1>6 DEF Apart
<1>11. Housed(u, L \cup S)
  BY <1>4, <1>5, <1>6 DEF Housed, Somewhere
<1>12. Untied(u.in_obj)
  BY <1>6, ThingsAssumption DEF Untied
<1> QED
  BY <1>7, <1>8, <1>9, <1>10, <1>11, <1>12

LEMMA IntoBox ==
  ASSUME NEW v, NEW L \in SUBSET Obj, NEW C, Sound(v, L, C), NEW S \in SUBSET L, NEW in \in Obj,
         v.short \/ (v.type[in] \in {"CONTAINER", "CORPSE"} /\ Untied(Point(v.in_obj, S, in)))
  PROVE  LET u == obj_to_obj(v, S, in)
         IN  /\ Sound(u, L \ S, C)
             /\ Alike(u, v, {"contains", "in_obj"})
<1> SUFFICES ASSUME NEW u, u = obj_to_obj(v, S, in)
             PROVE  /\ Sound(u, L \ S, C)
                    /\ Alike(u, v, {"contains", "in_obj"})
  OBVIOUS
<1>1. v \in Things /\ S \in SUBSET Obj
  BY DEF Sound
<1>2. v.in_obj \in [Obj -> Obj \cup {NIL}] /\ v.contains \in [Obj -> SUBSET Obj]
  BY <1>1, Fields
<1>3. /\ Point(v.in_obj, S, in) \in [Obj -> Obj \cup {NIL}]
      /\ [v.contains EXCEPT ![in] = @ \cup S] \in [Obj -> SUBSET Obj]
  BY <1>1, <1>2 DEF Point
<1>4. /\ u \in Things
      /\ u.contains = [v.contains EXCEPT ![in] = @ \cup S]
      /\ u.in_obj = Point(v.in_obj, S, in)
      /\ u.type = v.type /\ u.carried_by = v.carried_by /\ u.equiped_by = v.equiped_by
      /\ u.in_room = v.in_room /\ u.carrying = v.carrying /\ u.carry_items = v.carry_items
      /\ u.contents = v.contents /\ u.equipment = v.equipment
      /\ u.room = v.room /\ u.short = v.short
  BY <1>1, <1>3 DEF obj_to_obj, Things
<1>30. Alike(u, v, {"contains", "in_obj"})
  BY <1>1 DEF obj_to_obj, Things, Alike, Names
<1> SUFFICES ASSUME ~v.short, Orderly(v, L, C)
             PROVE  Orderly(u, L \ S, C)
  BY <1>30, <1>4 DEF Sound
<1> USE DEF Orderly
<1>5. \A o \in S : /\ v.in_room[o] = NOWHERE /\ v.carried_by[o] = NIL /\ v.in_obj[o] = NIL
                   /\ v.equiped_by[o] = NIL
  BY DEF Housed, Somewhere
<1>6. \A o \in Obj : u.in_obj[o] = IF o \in S THEN in ELSE v.in_obj[o]
  BY <1>2, <1>4 DEF Point
<1>7. Filed(u)
  <2>1. Agree([v.contains EXCEPT ![in] = @ \cup S], Point(v.in_obj, S, in))
    BY <1>1, <1>2, <1>5, AgreeOn, ThingsAssumption DEF Filed
  <2> QED
    BY <2>1, <1>4 DEF Filed
<1>8. Dressed(u) /\ Counted(u, C) /\ LeftBare(u, C)
  BY <1>4 DEF Dressed, Counted, LeftBare
<1>9. Sorted(u)
  BY <1>2, <1>4 DEF Sorted
<1>10. Apart(u)
  BY <1>4, <1>5, <1>6 DEF Apart
<1>11. Housed(u, L \ S)
  BY <1>4, <1>6, ThingsAssumption DEF Housed, Somewhere
<1> QED
  BY <1>7, <1>8, <1>9, <1>10, <1>11, <1>4

LEMMA EquippedIs ==
  ASSUME NEW v \in Things, NEW cs \in SUBSET Body, NEW places \in SUBSET Slot
  PROVE  /\ Equipped(v, cs, places) \in SUBSET Obj
         /\ \A o : o \in Equipped(v, cs, places) <=> o # NIL /\ \E c \in cs, p \in places : v.equipment[c][p] = o
<1> DEFINE E == Equipped(v, cs, places)
<1>2. v.equipment \in [Body -> [Slot -> Obj \cup {NIL}]]
  BY Fields
<1>3. E \in SUBSET Obj /\ \A o : o \in E <=> o # NIL /\ \E c \in cs, p \in places : v.equipment[c][p] = o
  <2>1. ASSUME NEW c \in cs, NEW p \in places, v.equipment[c][p] # NIL
        PROVE  v.equipment[c][p] \in E
    <3>1. <<c, p>> \in cs \X places /\ <<c, p>>[1] = c /\ <<c, p>>[2] = p
      OBVIOUS
    <3> QED
      BY <3>1, <2>1 DEF Equipped
  <2>2. ASSUME NEW o \in E
        PROVE  o \in Obj /\ o # NIL /\ \E c \in cs, p \in places : v.equipment[c][p] = o
    <3>1. PICK q \in cs \X places : o = v.equipment[q[1]][q[2]]
      BY DEF Equipped
    <3>2. q[1] \in cs /\ q[2] \in places /\ o # NIL
      BY DEF Equipped
    <3> QED
      BY <3>1, <3>2, <1>2
  <2> QED
    BY <2>1, <2>2
<1> QED
  BY <1>3

Bared(u, v, cs, places) ==
  \A c \in Body, p \in Slot :
    u.equipment[c][p] = IF c \in cs /\ p \in places THEN NIL ELSE v.equipment[c][p]

LEMMA Unequip ==
  ASSUME NEW v, NEW L \in SUBSET Obj, NEW C, Sound(v, L, C), NEW cs \in SUBSET Body,
         NEW places \in SUBSET Slot
  PROVE  LET u == unequip(v, cs, places)
             E == Equipped(v, cs, places)
         IN  /\ Sound(u, L \cup E, C)
             /\ Alike(u, v, {"equiped_by", "equipment"})
             /\ u.equiped_by = Point(v.equiped_by, E, NIL)
             /\ Bared(u, v, cs, places)
<1> DEFINE E == Equipped(v, cs, places)
<1> SUFFICES ASSUME NEW u, u = unequip(v, cs, places)
             PROVE  /\ Sound(u, L \cup E, C)
                    /\ Alike(u, v, {"equiped_by", "equipment"})
                    /\ u.equiped_by = Point(v.equiped_by, E, NIL)
                    /\ Bared(u, v, cs, places)
  OBVIOUS
<1> DEFINE bare == [c \in Body |-> IF c \in cs THEN Point(v.equipment[c], places, NIL) ELSE v.equipment[c]]
<1>1. v \in Things
  BY DEF Sound
<1>2. /\ v.equiped_by \in [Obj -> Body \cup {NIL}]
      /\ v.equipment \in [Body -> [Slot -> Obj \cup {NIL}]]
  BY <1>1, Fields
<1>3. E \in SUBSET Obj /\ \A o : o \in E <=> o # NIL /\ \E c \in cs, p \in places : v.equipment[c][p] = o
  BY <1>1, EquippedIs
<1>4. /\ Point(v.equiped_by, E, NIL) \in [Obj -> Body \cup {NIL}]
      /\ \A o \in Obj : Point(v.equiped_by, E, NIL)[o] = IF o \in E THEN NIL ELSE v.equiped_by[o]
  BY <1>2 DEF Point
<1>5. /\ bare \in [Body -> [Slot -> Obj \cup {NIL}]]
      /\ \A c \in Body, p \in Slot : bare[c][p] = IF c \in cs /\ p \in places THEN NIL ELSE v.equipment[c][p]
  BY <1>2 DEF Point
<1> HIDE DEF bare, E
<1>6. /\ u \in Things
      /\ u.equiped_by = Point(v.equiped_by, E, NIL)
      /\ u.equipment = bare
      /\ u.contents = v.contents /\ u.in_room = v.in_room /\ u.carried_by = v.carried_by
      /\ u.in_obj = v.in_obj /\ u.carrying = v.carrying /\ u.carry_items = v.carry_items
      /\ u.contains = v.contains /\ u.lit = v.lit
      /\ u.type = v.type /\ u.room = v.room /\ u.short = v.short
  BY <1>1, <1>4, <1>5 DEF unequip, Things, bare, E
<1>30. Alike(u, v, {"equiped_by", "equipment"})
  BY <1>1 DEF unequip, Things, Alike, Names
<1> SUFFICES ASSUME ~v.short, Orderly(v, L, C)
             PROVE  Orderly(u, L \cup E, C)
  BY <1>30, <1>3, <1>4, <1>5, <1>6 DEF Sound, Bared
<1> USE DEF Orderly
<1>7. \A o \in E : /\ v.in_room[o] = NOWHERE /\ v.carried_by[o] = NIL /\ v.in_obj[o] = NIL
                   /\ v.equiped_by[o] \in cs /\ v.equiped_by[o] # NIL /\ v.type[o] # "free"
  <2> SUFFICES ASSUME NEW o \in E
               PROVE  /\ v.in_room[o] = NOWHERE /\ v.carried_by[o] = NIL /\ v.in_obj[o] = NIL
                      /\ v.equiped_by[o] \in cs /\ v.equiped_by[o] # NIL /\ v.type[o] # "free"
    OBVIOUS
  <2>1. v.equiped_by[o] \in cs /\ v.equiped_by[o] # NIL /\ o \in Obj
    BY <1>3, ThingsAssumption DEF Dressed
  <2> QED
    BY <2>1 DEF Apart, Housed, Somewhere
<1>8. Dressed(u)
  <2>1. ASSUME NEW c \in Body, NEW p \in Slot, u.equipment[c][p] # NIL
        PROVE  u.equiped_by[u.equipment[c][p]] = c
    <3>1. u.equipment[c][p] = v.equipment[c][p] /\ ~(c \in cs /\ p \in places)
      BY <2>1, <1>5, <1>6
    <3>2. u.equipment[c][p] \in Obj /\ v.equiped_by[v.equipment[c][p]] = c
      BY <2>1, <3>1, <1>2 DEF Dressed
    <3>3. u.equipment[c][p] \notin E
      <4> SUFFICES ASSUME u.equipment[c][p] \in E
                   PROVE  FALSE
        OBVIOUS
      <4>1. PICK d \in cs, q \in places : v.equipment[d][q] = v.equipment[c][p]
        BY <1>3, <3>1
      <4>2. d = c
        BY <4>1, <3>2, <2>1, <3>1 DEF Dressed
      <4> QED
        BY <4>1, <4>2, <3>1, <2>1 DEF Dressed
    <3> QED
      BY <3>1, <3>2, <3>3, <1>4, <1>6
  <2>2. ASSUME NEW o \in Obj, u.equiped_by[o] # NIL
        PROVE  \E p \in Slot : u.equipment[u.equiped_by[o]][p] = o
    <3>1. o \notin E /\ u.equiped_by[o] = v.equiped_by[o]
      BY <2>2, <1>4, <1>6
    <3>2. PICK p \in Slot : v.equipment[v.equiped_by[o]][p] = o
      BY <2>2, <3>1 DEF Dressed
    <3>3. v.equiped_by[o] \in Body /\ o # NIL
      BY <2>2, <3>1, <1>2, ThingsAssumption
    <3>4. ~(v.equiped_by[o] \in cs /\ p \in places)
      BY <3>1, <3>2, <3>3, <1>3
    <3> QED
      BY <3>1, <3>2, <3>3, <3>4, <1>5, <1>6
  <2>3. ASSUME NEW c \in Body, NEW p \in Slot, NEW q \in Slot,
               u.equipment[c][p] = u.equipment[c][q], u.equipment[c][p] # NIL
        PROVE  p = q
    BY <2>3, <1>5, <1>6 DEF Dressed
  <2> QED
    BY <2>1, <2>2, <2>3 DEF Dressed
<1>9. Filed(u) /\ Counted(u, C) /\ Untied(u.in_obj)
  BY <1>6 DEF Filed, Counted
<1>10. LeftBare(u, C)
  BY <1>5, <1>6 DEF LeftBare
<1>11. Sorted(u)
  BY <1>4, <1>6 DEF Sorted
<1>12. Apart(u)
  BY <1>4, <1>6 DEF Apart
<1>13. Housed(u, L \cup E)
  BY <1>3, <1>4, <1>6, <1>7 DEF Housed, Somewhere
<1> QED
  BY <1>8, <1>9, <1>10, <1>11, <1>12, <1>13

LEMMA InsideIs ==
  ASSUME NEW v \in Things, NEW S \in SUBSET Obj
  PROVE  /\ Inside(v, S) \in SUBSET Obj /\ S \subseteq Inside(v, S)
         /\ \A y \in Inside(v, S) : v.contains[y] \subseteq Inside(v, S)
         /\ \A D \in SUBSET Obj : S \subseteq D /\ (\A y \in D : v.contains[y] \subseteq D)
                                    => Inside(v, S) \subseteq D
<1>1. v.contains \in [Obj -> SUBSET Obj]
  BY Fields
<1>2. Inside(v, S) \in SUBSET Obj /\ S \subseteq Inside(v, S)
  BY DEF Inside
<1>3. \A D \in SUBSET Obj : S \subseteq D /\ (\A y \in D : v.contains[y] \subseteq D)
                              => Inside(v, S) \subseteq D
  BY DEF Inside
<1>4. ASSUME NEW y \in Inside(v, S), NEW x \in v.contains[y]
      PROVE  x \in Inside(v, S)
  <2>1. y \in Obj /\ x \in Obj
    BY <1>1, <1>2
  <2>2. ASSUME NEW D \in SUBSET Obj, S \subseteq D, \A z \in D : v.contains[z] \subseteq D
        PROVE  x \in D
    <3>1. y \in D
      BY <1>3, <2>2
    <3> QED
      BY <3>1, <2>2
  <2> QED
    BY <2>1, <2>2 DEF Inside
<1> QED
  BY <1>2, <1>3, <1>4

(* What is inside S and not of it has something of Inside around it. *)
LEMMA InsideHasBox ==
  ASSUME NEW v \in Things, Filed(v), NEW S \in SUBSET Obj, NEW x \in Inside(v, S) \ S
  PROVE  v.in_obj[x] \in Inside(v, S)
<1> DEFINE D == {y \in Inside(v, S) : y \in S \/ v.in_obj[y] \in Inside(v, S)}
<1>1. v.contains \in [Obj -> SUBSET Obj] /\ v.in_obj \in [Obj -> Obj \cup {NIL}]
  BY Fields
<1>2. /\ Inside(v, S) \in SUBSET Obj /\ S \subseteq Inside(v, S)
      /\ \A y \in Inside(v, S) : v.contains[y] \subseteq Inside(v, S)
  BY InsideIs
<1>3. D \in SUBSET Obj /\ S \subseteq D
  BY <1>2
<1>4. ASSUME NEW y \in D, NEW z \in v.contains[y]
      PROVE  z \in D
  <2>1. y \in Inside(v, S) /\ y \in Obj /\ z \in Obj /\ z \in Inside(v, S)
    BY <1>1, <1>2
  <2>2. v.in_obj[z] = y
    BY <2>1, <1>1 DEF Filed, Agree
  <2> QED
    BY <2>1, <2>2
<1>5. Inside(v, S) \subseteq D
  <2> HIDE DEF D
  <2> QED
    BY <1>3, <1>4, InsideIs
<1> QED
  BY <1>5

LEMMA Destroyed ==
  ASSUME NEW v, NEW L \in SUBSET Obj, NEW C, Sound(v, L, C), NEW gone \in SUBSET Obj, NEW S \in SUBSET gone,
         \A y \in gone : v.contains[y] \subseteq gone,
         v.short \/ ((\A o \in S : ~Somewhere(v, o)) /\ (\A o \in gone \ S : v.in_obj[o] \in gone))
  PROVE  LET u == destroy_object([v EXCEPT !.contains = Point(@, gone, {})], gone)
         IN  /\ Sound(u, L \ S, C)
             /\ Alike(u, v, {"type", "in_room", "carried_by", "equiped_by", "in_obj", "contains", "lit"})
             /\ u.equiped_by = Point(v.equiped_by, gone, NIL)
<1> SUFFICES ASSUME NEW u, u = destroy_object([v EXCEPT !.contains = Point(@, gone, {})], gone)
             PROVE  /\ Sound(u, L \ S, C)
                    /\ Alike(u, v, {"type", "in_room", "carried_by", "equiped_by", "in_obj", "contains", "lit"})
                    /\ u.equiped_by = Point(v.equiped_by, gone, NIL)
  OBVIOUS
<1>1. v \in Things
  BY DEF Sound
<1>2. /\ v.type \in [Obj -> Kind \cup {"free"}] /\ v.in_room \in [Obj -> Chamber \cup {NOWHERE}]
      /\ v.carried_by \in [Obj -> Body \cup {NIL}] /\ v.equiped_by \in [Obj -> Body \cup {NIL}]
      /\ v.in_obj \in [Obj -> Obj \cup {NIL}] /\ v.contains \in [Obj -> SUBSET Obj]
      /\ v.lit \in SUBSET Obj
  BY <1>1, Fields
<1>3. /\ Point(v.type, gone, "free") \in [Obj -> Kind \cup {"free"}]
      /\ Point(v.in_room, gone, NOWHERE) \in [Obj -> Chamber \cup {NOWHERE}]
      /\ Point(v.carried_by, gone, NIL) \in [Obj -> Body \cup {NIL}]
      /\ Point(v.equiped_by, gone, NIL) \in [Obj -> Body \cup {NIL}]
      /\ Point(v.in_obj, gone, NIL) \in [Obj -> Obj \cup {NIL}]
      /\ Point(v.contains, gone, {}) \in [Obj -> SUBSET Obj]
      /\ v.lit \ gone \in SUBSET Obj
  BY <1>2 DEF Point
<1>4. /\ u \in Things
      /\ u.type = Point(v.type, gone, "free") /\ u.in_room = Point(v.in_room, gone, NOWHERE)
      /\ u.carried_by = Point(v.carried_by, gone, NIL) /\ u.equiped_by = Point(v.equiped_by, gone, NIL)
      /\ u.in_obj = Point(v.in_obj, gone, NIL) /\ u.contains = Point(v.contains, gone, {})
      /\ u.contents = v.contents /\ u.carrying = v.carrying /\ u.equipment = v.equipment
      /\ u.carry_items = v.carry_items /\ u.room = v.room /\ u.short = v.short
  BY <1>1, <1>3 DEF destroy_object, Things
<1>5. \A o \in Obj : /\ u.type[o] = IF o \in gone THEN "free" ELSE v.type[o]
                     /\ u.equiped_by[o] = IF o \in gone THEN NIL ELSE v.equiped_by[o]
                     /\ u.in_obj[o] = IF o \in gone THEN NIL ELSE v.in_obj[o]
                     /\ u.contains[o] = IF o \in gone THEN {} ELSE v.contains[o]
  <2>1. \A o \in Obj : Point(v.type, gone, "free")[o] = IF o \in gone THEN "free" ELSE v.type[o]
    BY <1>2 DEF Point
  <2>2. \A o \in Obj : Point(v.equiped_by, gone, NIL)[o] = IF o \in gone THEN NIL ELSE v.equiped_by[o]
    BY <1>2 DEF Point
  <2>3. \A o \in Obj : Point(v.in_obj, gone, NIL)[o] = IF o \in gone THEN NIL ELSE v.in_obj[o]
    BY <1>2 DEF Point
  <2>4. \A o \in Obj : Point(v.contains, gone, {})[o] = IF o \in gone THEN {} ELSE v.contains[o]
    BY <1>2 DEF Point
  <2> QED
    BY <2>1, <2>2, <2>3, <2>4, <1>4
<1>30. Alike(u, v, {"type", "in_room", "carried_by", "equiped_by", "in_obj", "contains", "lit"})
  BY <1>1 DEF destroy_object, Things, Alike, Names
<1> SUFFICES ASSUME ~v.short, Orderly(v, L, C)
             PROVE  Orderly(u, L \ S, C)
  BY <1>30, <1>4, <1>5 DEF Sound
<1> USE DEF Orderly
<1>6. \A o \in gone : /\ v.in_room[o] = NOWHERE /\ v.carried_by[o] = NIL /\ v.equiped_by[o] = NIL
                      /\ o \in S => v.in_obj[o] = NIL
                      /\ o \notin S => v.in_obj[o] # NIL
  BY ThingsAssumption DEF Apart, Somewhere
<1>7. u.in_room = v.in_room /\ u.carried_by = v.carried_by /\ u.equiped_by = v.equiped_by
  <2>1. /\ Point(v.in_room, gone, NOWHERE) = v.in_room
        /\ Point(v.carried_by, gone, NIL) = v.carried_by
        /\ Point(v.equiped_by, gone, NIL) = v.equiped_by
    BY <1>2, <1>6 DEF Point
  <2> QED
    BY <2>1, <1>4
<1>8. Filed(u)
  <2>1. ASSUME NEW x \in Obj, NEW o \in Obj
        PROVE  o \in u.contains[x] <=> u.in_obj[o] = x
    <3>1. o \in v.contains[x] <=> v.in_obj[o] = x
      BY <1>2 DEF Filed, Agree
    <3>2. CASE x \in gone
      BY <3>1, <3>2, <1>5, ThingsAssumption
    <3>3. CASE x \notin gone
      <4>1. v.in_obj[o] = x => o \notin gone
        BY <3>3, <1>6, ThingsAssumption
      <4> QED
        BY <3>1, <3>3, <4>1, <1>5, ThingsAssumption
    <3> QED
      BY <3>2, <3>3
  <2>2. DOMAIN u.contains = Obj
    BY <1>2, <1>4 DEF Point
  <2> QED
    BY <2>1, <2>2, <1>4, <1>7 DEF Filed, Agree
<1>9. Dressed(u) /\ Counted(u, C) /\ LeftBare(u, C)
  BY <1>4, <1>7 DEF Dressed, Counted, LeftBare
<1>10. Apart(u)
  BY <1>5, <1>7 DEF Apart
<1>11. Housed(u, L \ S)
  <2>1. \A o \in gone : o \in L => o \in S
    BY <1>6 DEF Housed, Somewhere
  <2> QED
    BY <2>1, <1>5, <1>6, <1>7 DEF Housed, Somewhere
<1>12. Sorted(u)
  BY <1>5, <1>6, <1>7 DEF Sorted
<1>13. Untied(u.in_obj)
  BY <1>5, ThingsAssumption DEF Untied
<1> QED
  BY <1>8, <1>9, <1>10, <1>11, <1>12, <1>13

(* Nobody is given anything, and nobody moves. *)
Calm(u, v) ==
  /\ u.room = v.room /\ (v.short => u.short)
  /\ \A o \in Obj : u.equiped_by[o] \in {v.equiped_by[o], NIL}
  /\ \A c \in Body, p \in Slot : u.equipment[c][p] \in {v.equipment[c][p], NIL}
  /\ \A c \in Body : u.carrying[c] \subseteq v.carrying[c]

LEMMA CalmTwice ==
  ASSUME NEW u, NEW v, NEW x, Calm(u, v), Calm(x, u)
  PROVE  Calm(x, v)
<1>1. x.room = v.room /\ (v.short => x.short)
  BY DEF Calm
<1>2. ASSUME NEW o \in Obj
      PROVE  x.equiped_by[o] \in {v.equiped_by[o], NIL}
  BY DEF Calm
<1>3. ASSUME NEW c \in Body, NEW p \in Slot
      PROVE  x.equipment[c][p] \in {v.equipment[c][p], NIL}
  BY DEF Calm
<1>4. \A c \in Body : x.carrying[c] \subseteq v.carrying[c]
  BY DEF Calm
<1> QED
  BY <1>1, <1>2, <1>3, <1>4 DEF Calm

LEMMA Extract ==
  ASSUME NEW v, NEW L \in SUBSET Obj, NEW C, Sound(v, L, C), NEW S \in SUBSET Obj,
         v.short \/ \A o \in S : v.equiped_by[o] = NIL
  PROVE  LET u == extract_obj(v, S)
         IN  /\ Sound(u, L \ S, C)
             /\ Calm(u, v)
             /\ v.short \/ \A c \in Body : u.carrying[c] = v.carrying[c] \ S
<1> SUFFICES ASSUME NEW u, u = extract_obj(v, S)
             PROVE  /\ Sound(u, L \ S, C)
                    /\ Calm(u, v)
                    /\ v.short \/ \A c \in Body : u.carrying[c] = v.carrying[c] \ S
  OBVIOUS
<1> DEFINE lying == {o \in S : v.in_room[o] # NOWHERE}
           held  == {o \in S \ lying : v.carried_by[o] # NIL}
           boxed == {o \in S \ (lying \cup held) : v.in_obj[o] # NIL}
           gone  == Inside(v, S)
           L1    == L \cup lying
           L2    == L1 \cup held
           L3    == L2 \cup boxed
           a     == obj_from_room(v, lying)
           b     == obj_from_char(a, held)
           out   == obj_from_obj(b, boxed)
<1>1. u = destroy_object([out EXCEPT !.contains = Point(@, gone, {})], gone)
  BY DEF extract_obj
<1>2. v \in Things
  BY DEF Sound
<1>3. /\ v.carried_by \in [Obj -> Body \cup {NIL}] /\ v.carrying \in [Body -> SUBSET Obj]
      /\ v.in_obj \in [Obj -> Obj \cup {NIL}] /\ v.contains \in [Obj -> SUBSET Obj]
  BY <1>2, Fields
<1>4. /\ gone \in SUBSET Obj /\ S \subseteq gone
      /\ \A y \in gone : v.contains[y] \subseteq gone
  BY <1>2, InsideIs
<1>5. v.short \/ \A o \in gone \ S : v.in_obj[o] \in gone
  BY <1>2, InsideHasBox DEF Sound, Orderly
<1> HIDE DEF gone
<1>6. /\ lying \in SUBSET Obj /\ \A o \in lying : v.in_room[o] # NOWHERE
      /\ held \in SUBSET Obj /\ \A o \in held : v.carried_by[o] # NIL
      /\ boxed \in SUBSET Obj /\ \A o \in boxed : v.in_obj[o] # NIL
      /\ \A o \in S : /\ v.in_room[o] # NOWHERE => o \in lying
                      /\ v.carried_by[o] # NIL /\ o \notin lying => o \in held
                      /\ v.in_obj[o] # NIL /\ o \notin lying \cup held => o \in boxed
      /\ lying \cup held \cup boxed \subseteq S
  OBVIOUS
<1>7. L1 \in SUBSET Obj /\ L2 \in SUBSET Obj /\ L3 \in SUBSET Obj /\ L3 \ S = L \ S
  BY <1>6
<1> HIDE DEF lying, held, boxed
<1>8. /\ Sound(a, L1, C) /\ Alike(a, v, {"contents", "in_room"})
      /\ \A o \in Obj : a.in_room[o] = IF o \in lying THEN NOWHERE ELSE v.in_room[o]
  BY <1>6, FromRoom
<1> HIDE DEF a
<1>9. a.carried_by = v.carried_by /\ a.carrying = v.carrying /\ a.in_obj = v.in_obj /\ a.contains = v.contains
      /\ a.equiped_by = v.equiped_by /\ a.equipment = v.equipment /\ a.room = v.room /\ a.short = v.short
  BY <1>8 DEF Alike, Names
<1>10. a.short \/ \A o \in held : a.carried_by[o] # NIL
  BY <1>6, <1>9
<1>11. /\ Sound(b, L2, C) /\ Alike(b, a, {"carrying", "carry_items", "carried_by"})
       /\ b.carrying = Off(a.carrying, a.carried_by, held)
       /\ \A o \in Obj : b.carried_by[o] = IF o \in held THEN NIL ELSE a.carried_by[o]
  BY <1>6, <1>7, <1>8, <1>10, FromChar
<1> HIDE DEF b
<1>12. b.in_room = a.in_room /\ b.in_obj = a.in_obj /\ b.contains = a.contains
       /\ b.equiped_by = a.equiped_by /\ b.equipment = a.equipment /\ b.room = a.room /\ b.short = a.short
  BY <1>11 DEF Alike, Names
<1>13. b.short \/ \A o \in boxed : b.in_obj[o] # NIL
  BY <1>6, <1>9, <1>12
<1>14. /\ Sound(out, L3, C) /\ Alike(out, b, {"contains", "in_obj"})
       /\ out.contains = Off(b.contains, b.in_obj, boxed)
       /\ out.in_obj = Point(b.in_obj, boxed, NIL)
  BY <1>6, <1>7, <1>11, <1>13, FromBox
<1> HIDE DEF out, L1, L2, L3
<1>15. out.in_room = b.in_room /\ out.carried_by = b.carried_by /\ out.carrying = b.carrying
       /\ out.equiped_by = b.equiped_by /\ out.equipment = b.equipment /\ out.room = b.room /\ out.short = b.short
  BY <1>14 DEF Alike, Names
<1>28. b.in_obj \in [Obj -> Obj \cup {NIL}]
  BY <1>11 DEF Sound, Things
<1>27. \A o \in Obj : out.in_obj[o] = IF o \in boxed THEN NIL ELSE b.in_obj[o]
  BY <1>14, <1>28 DEF Point
<1>16. \A y \in gone : out.contains[y] \subseteq gone
  BY <1>3, <1>4, <1>9, <1>12, <1>14 DEF Off
<1>17. out.short = v.short
  BY <1>9, <1>12, <1>15
<1>18. v.short \/ \A o \in S : ~Somewhere(out, o)
  <2> SUFFICES ASSUME ~v.short, NEW o \in S
               PROVE  ~Somewhere(out, o)
    OBVIOUS
  <2>1. o \in Obj /\ v.equiped_by[o] = NIL /\ Apart(v)
    BY DEF Sound, Orderly
  <2>2. out.in_room[o] = NOWHERE
    BY <2>1, <1>6, <1>8, <1>12, <1>15
  <2>3. out.carried_by[o] = NIL
    BY <2>1, <1>6, <1>9, <1>11, <1>15 DEF Apart
  <2>4. out.in_obj[o] = NIL
    BY <2>1, <1>6, <1>9, <1>12, <1>27 DEF Apart
  <2>5. out.equiped_by[o] = NIL
    BY <2>1, <1>9, <1>12, <1>15
  <2> QED
    BY <2>2, <2>3, <2>4, <2>5 DEF Somewhere
<1>19. v.short \/ \A o \in gone \ S : out.in_obj[o] \in gone
  BY <1>4, <1>5, <1>6, <1>9, <1>12, <1>27
<1>20. out.short \/ ((\A o \in S : ~Somewhere(out, o)) /\ (\A o \in gone \ S : out.in_obj[o] \in gone))
  BY <1>17, <1>18, <1>19
<1>21. S \in SUBSET gone /\ gone \in SUBSET Obj
  BY <1>4
<1>22. /\ Sound(u, L3 \ S, C)
       /\ Alike(u, out, {"type", "in_room", "carried_by", "equiped_by", "in_obj", "contains", "lit"})
       /\ u.equiped_by = Point(out.equiped_by, gone, NIL)
  <2>1. L3 \in SUBSET Obj /\ L3 \ S = L \ S /\ Sound(out, L3, C)
    BY <1>7, <1>14
  <2>2. gone \in SUBSET Obj /\ S \in SUBSET gone
    BY <1>21
  <2> DEFINE x == destroy_object([out EXCEPT !.contains = Point(@, gone, {})], gone)
  <2>3. /\ Sound(x, L3 \ S, C)
        /\ Alike(x, out, {"type", "in_room", "carried_by", "equiped_by", "in_obj", "contains", "lit"})
        /\ x.equiped_by = Point(out.equiped_by, gone, NIL)
    BY <1>16, <1>20, <2>1, <2>2, Destroyed
  <2>4. u = x
    BY <1>1
  <2> QED
    BY <2>3, <2>4
<1>23. u.carrying = out.carrying /\ u.equipment = out.equipment /\ u.room = out.room /\ u.short = out.short
  BY <1>22 DEF Alike, Names
<1>24. u.carrying = Off(v.carrying, v.carried_by, held)
  BY <1>9, <1>11, <1>15, <1>23
<1>25. v.short \/ \A c \in Body : u.carrying[c] = v.carrying[c] \ S
  <2> SUFFICES ASSUME ~v.short, NEW c \in Body
               PROVE  u.carrying[c] = v.carrying[c] \ S
    OBVIOUS
  <2>1. u.carrying[c] = v.carrying[c] \ {o \in held : v.carried_by[o] = c}
    BY <1>3, <1>24 DEF Off
  <2>2. \A o \in S : o \in v.carrying[c] => o \in held /\ v.carried_by[o] = c
    BY <1>3, <1>6, ThingsAssumption DEF Sound, Orderly, Filed, Agree, Apart
  <2> QED
    BY <2>1, <2>2, <1>6
<1>26. Calm(u, v)
  <2>1. u.room = v.room /\ u.short = v.short /\ u.equipment = v.equipment
    BY <1>9, <1>12, <1>15, <1>23
  <2>2. \A o \in Obj : u.equiped_by[o] \in {v.equiped_by[o], NIL}
    <3>1. out.equiped_by = v.equiped_by /\ v.equiped_by \in [Obj -> Body \cup {NIL}]
      BY <1>2, <1>9, <1>12, <1>15, Fields
    <3> QED
      BY <1>22, <3>1 DEF Point
  <2>3. \A c \in Body : u.carrying[c] \subseteq v.carrying[c]
    BY <1>3, <1>24 DEF Off
  <2> QED
    BY <2>1, <2>2, <2>3 DEF Calm
<1> QED
  BY <1>7, <1>22, <1>25, <1>26

LEMMA CalmAlike ==
  ASSUME NEW u, NEW v, NEW F, Alike(u, v, F),
         {"room", "short", "equiped_by", "equipment", "carrying"} \cap F = {}
  PROVE  Calm(u, v)
<1>1. u.room = v.room /\ u.short = v.short /\ u.equiped_by = v.equiped_by /\ u.equipment = v.equipment
      /\ u.carrying = v.carrying
  BY DEF Alike, Names
<1> QED
  BY <1>1 DEF Calm

(* A state that is short of records is not looked at any further. *)
LEMMA SoundFor ==
  ASSUME NEW v, NEW L, NEW C, Sound(v, L, C), NEW M, NEW D, v.short \/ (L = M /\ C \subseteq D)
  PROVE  Sound(v, M, D)
BY DEF Sound, Orderly, Counted, LeftBare

LEMMA UntiedOn ==
  ASSUME NEW ptr \in [Obj -> Obj \cup {NIL}], Untied(ptr), NEW S \in SUBSET Obj, NEW in \in Obj \ S, ptr[in] = NIL
  PROVE  Untied(Point(ptr, S, in))
<1> SUFFICES ASSUME NEW D \in SUBSET Obj, D # {}
             PROVE  \E o \in D : Point(ptr, S, in)[o] \notin D
  BY DEF Untied
<1>1. \A o \in Obj : Point(ptr, S, in)[o] = IF o \in S THEN in ELSE ptr[o]
  BY DEF Point
<1>2. CASE in \in D
  BY <1>1, <1>2, ThingsAssumption
<1>3. CASE in \notin D
  <2>1. PICK o \in D : ptr[o] \notin D
    BY DEF Untied
  <2> QED
    BY <1>1, <1>3, <2>1
<1> QED
  BY <1>2, <1>3

(* Nothing is in a new one. *)
LEMMA UntiedNew ==
  ASSUME NEW ptr \in [Obj -> Obj \cup {NIL}], Untied(ptr), NEW n \in Obj, NEW in \in Obj \ {n},
         \A o \in Obj : ptr[o] # n
  PROVE  Untied(Point(ptr, {n}, in))
<1> SUFFICES ASSUME NEW D \in SUBSET Obj, D # {}
             PROVE  \E o \in D : Point(ptr, {n}, in)[o] \notin D
  BY DEF Untied
<1>1. \A o \in Obj : Point(ptr, {n}, in)[o] = IF o = n THEN in ELSE ptr[o]
  BY DEF Point
<1>2. CASE D = {n}
  BY <1>1, <1>2
<1>3. CASE D # {n}
  <2>1. D \ {n} # {} /\ D \ {n} \in SUBSET Obj
    BY <1>3
  <2>2. PICK o \in D \ {n} : ptr[o] \notin D \ {n}
    BY <2>1 DEF Untied
  <2> QED
    BY <1>1, <2>2
<1> QED
  BY <1>2, <1>3

LEMMA NewIs ==
  ASSUME NEW v
  PROVE  NewOne(v) \in Obj /\ (Spare(v) # {} => v.type[NewOne(v)] = "free")
<1>1. \E o \in Obj : Spare(v) # {} => o \in Spare(v)
  BY ThingsAssumption DEF Spare
<1>2. NewOne(v) \in Obj /\ (Spare(v) # {} => NewOne(v) \in Spare(v))
  BY <1>1 DEF NewOne
<1> QED
  BY <1>2 DEF Spare

LEMMA MadeIs ==
  ASSUME NEW v, NEW L \in SUBSET Obj, NEW C, Sound(v, L, C), NEW kind \in Kind
  PROVE  LET u == Made(v, kind)
         IN  /\ Sound(u, L \cup {NewOne(v)}, C)
             /\ Alike(u, v, {"type", "short"})
             /\ v.short => u.short
             /\ NewOne(v) \in Obj
             /\ \A o \in Obj \ {NewOne(v)} : u.type[o] = v.type[o]
             /\ u.short \/ (v.type[NewOne(v)] = "free" /\ u.type[NewOne(v)] = kind)
<1> DEFINE n == NewOne(v)
<1> SUFFICES ASSUME NEW u, u = Made(v, kind)
             PROVE  /\ Sound(u, L \cup {n}, C)
                    /\ Alike(u, v, {"type", "short"})
                    /\ v.short => u.short
                    /\ n \in Obj
                    /\ \A o \in Obj \ {n} : u.type[o] = v.type[o]
                    /\ u.short \/ (v.type[n] = "free" /\ u.type[n] = kind)
  OBVIOUS
<1>1. n \in Obj /\ (Spare(v) # {} => v.type[n] = "free")
  BY NewIs
<1> HIDE DEF n
<1>2. v \in Things
  BY DEF Sound
<1>3. CASE Spare(v) = {}
  <2>1. u = [v EXCEPT !.short = TRUE]
    BY <1>3 DEF Made
  <2>2. u \in Things /\ u.short /\ u.type = v.type
    BY <2>1, <1>2 DEF Things
  <2>3. Alike(u, v, {"type", "short"})
    BY <2>1, <1>2 DEF Things, Alike, Names
  <2> QED
    BY <2>2, <2>3, <1>1 DEF Sound
<1>4. CASE Spare(v) # {}
  <2>1. u = [v EXCEPT !.type = [v.type EXCEPT ![n] = kind]]
    BY <1>4 DEF Made, n
  <2>2. v.type \in [Obj -> Kind \cup {"free"}] /\ [v.type EXCEPT ![n] = kind] \in [Obj -> Kind \cup {"free"}]
    BY <1>1, <1>2, Fields
  <2>3. u \in Things /\ u.type = [v.type EXCEPT ![n] = kind] /\ u.short = v.short
    BY <2>1, <2>2, <1>2 DEF Things
  <2>4. Alike(u, v, {"type", "short"})
    BY <2>1, <1>2 DEF Things, Alike, Names
  <2>5. u.type[n] = kind /\ \A o \in Obj \ {n} : u.type[o] = v.type[o]
    BY <2>2, <2>3, <1>1
  <2>6. ASSUME ~v.short, Orderly(v, L, C)
        PROVE  Orderly(u, L \cup {n}, C)
    <3> USE DEF Orderly
    <3>1. /\ u.in_room = v.in_room /\ u.carried_by = v.carried_by /\ u.equiped_by = v.equiped_by
          /\ u.in_obj = v.in_obj /\ u.contents = v.contents /\ u.carrying = v.carrying
          /\ u.contains = v.contains /\ u.equipment = v.equipment /\ u.carry_items = v.carry_items
          /\ u.room = v.room
      BY <2>4 DEF Alike, Names
    <3>2. Filed(u) /\ Dressed(u) /\ Apart(u) /\ Counted(u, C) /\ LeftBare(u, C) /\ Untied(u.in_obj)
      BY <2>6, <3>1 DEF Filed, Dressed, Apart, Counted, LeftBare
    <3>3. kind # "free"
      BY DEF Kind, Loaded
    <3>4. v.type[n] = "free" /\ ~Somewhere(v, n)
      BY <2>6, <1>1, <1>4 DEF Housed
    <3>5. Housed(u, L \cup {n})
      BY <2>5, <2>6, <3>1, <3>3, <3>4, <1>1 DEF Housed, Somewhere
    <3>6. Sorted(u)
      <4>1. \A x \in Obj : v.contains[x] # {} => x # n
        BY <2>6, <3>4 DEF Sorted
      <4>2. \A o \in Obj : v.equiped_by[o] # NIL => o # n
        BY <3>4 DEF Somewhere
      <4> QED
        BY <4>1, <4>2, <2>5, <2>6, <3>1 DEF Sorted
    <3> QED
      BY <3>2, <3>5, <3>6
  <2>7. Sound(u, L \cup {n}, C)
    BY <2>3, <2>6 DEF Sound
  <2> QED
    BY <2>3, <2>4, <2>5, <2>7, <1>1, <1>4
<1> QED
  BY <1>3, <1>4

LEMMA LightOnly ==
  ASSUME NEW v, NEW L, NEW C, Sound(v, L, C), NEW u \in Things, Alike(u, v, {"lit", "light"})
  PROVE  Sound(u, L, C)
<1>1. /\ u.type = v.type /\ u.short = v.short
      /\ u.in_room = v.in_room /\ u.carried_by = v.carried_by /\ u.equiped_by = v.equiped_by
      /\ u.in_obj = v.in_obj /\ u.contents = v.contents /\ u.carrying = v.carrying
      /\ u.contains = v.contains /\ u.equipment = v.equipment /\ u.carry_items = v.carry_items
      /\ u.room = v.room
  BY DEF Alike, Names
<1> SUFFICES ASSUME ~v.short, Orderly(v, L, C)
             PROVE  Orderly(u, L, C)
  BY <1>1 DEF Sound
<1>2. Filed(u) /\ Dressed(u) /\ Apart(u)
  BY <1>1 DEF Orderly, Filed, Dressed, Apart
<1>3. Housed(u, L) /\ Sorted(u)
  BY <1>1 DEF Orderly, Housed, Somewhere, Sorted
<1>4. Counted(u, C) /\ LeftBare(u, C) /\ Untied(u.in_obj)
  BY <1>1 DEF Orderly, Counted, LeftBare
<1> QED
  BY <1>2, <1>3, <1>4 DEF Orderly

LEMMA LoadIs ==
  ASSUME NEW v, NEW L \in SUBSET Obj, NEW C, Sound(v, L, C), NEW kind \in Loaded, NEW lights \in BOOLEAN
  PROVE  LET u == load_a_object(v, kind, lights)
         IN  /\ Sound(u, L \cup {NewOne(v)}, C)
             /\ Alike(u, v, {"type", "short", "lit"})
             /\ v.short => u.short
             /\ NewOne(v) \in Obj
             /\ \A o \in Obj \ {NewOne(v)} : u.type[o] = v.type[o]
             /\ u.short \/ (v.type[NewOne(v)] = "free" /\ u.type[NewOne(v)] = kind)
<1> DEFINE n == NewOne(v)
           m == Made(v, kind)
           now == IF kind = "LIGHT" /\ lights THEN m.lit \cup {n} ELSE m.lit
<1> SUFFICES ASSUME NEW u, u = load_a_object(v, kind, lights)
             PROVE  /\ Sound(u, L \cup {n}, C)
                    /\ Alike(u, v, {"type", "short", "lit"})
                    /\ v.short => u.short
                    /\ n \in Obj
                    /\ \A o \in Obj \ {n} : u.type[o] = v.type[o]
                    /\ u.short \/ (v.type[n] = "free" /\ u.type[n] = kind)
  OBVIOUS
<1>1. u = [m EXCEPT !.lit = now]
  BY DEF load_a_object
<1>2. /\ Sound(m, L \cup {n}, C) /\ Alike(m, v, {"type", "short"}) /\ (v.short => m.short) /\ n \in Obj
      /\ \A o \in Obj \ {n} : m.type[o] = v.type[o]
      /\ m.short \/ (v.type[n] = "free" /\ m.type[n] = kind)
  BY MadeIs DEF Kind
<1> HIDE DEF m, n
<1>3. m \in Things
  BY <1>2 DEF Sound
<1>4. now \in SUBSET Obj
  BY <1>2, <1>3, Fields
<1> HIDE DEF now
<1>5. u \in Things
  BY <1>1, <1>3, <1>4 DEF Things
<1>6. Alike(u, m, {"lit"}) /\ Alike(u, m, {"lit", "light"})
  BY <1>1, <1>3 DEF Things, Alike, Names
<1>7. u.type = m.type /\ u.short = m.short
  BY <1>6 DEF Alike, Names
<1>8. Alike(u, v, {"type", "short", "lit"})
  BY <1>2, <1>6 DEF Alike, Names
<1>9. Sound(u, L \cup {n}, C)
  BY <1>2, <1>5, <1>6, LightOnly
<1> QED
  BY <1>2, <1>7, <1>8, <1>9

LEMMA Merged ==
  ASSUME NEW v, NEW L \in SUBSET Obj, NEW C, Sound(v, L, C), NEW S \in SUBSET L, NEW r \in Chamber
  PROVE  LET u == obj_to_room(v, S, r) IN Sound(u, L \ S, C) /\ Calm(u, v)
<1> SUFFICES ASSUME NEW u, u = obj_to_room(v, S, r)
             PROVE  Sound(u, L \ S, C) /\ Calm(u, v)
  OBVIOUS
<1> DEFINE coins == Coins(v, S)
           old == coins \cup Heap(v, r)
           n == NewOne(v)
           m == create_money(v)
           e == extract_obj(m, old)
           new == (S \ coins) \cup {n}
           L1 == L \cup {n}
<1>1. v \in Things /\ S \in SUBSET Obj
  BY DEF Sound
<1>2. coins \in SUBSET S /\ \A o \in coins : v.type[o] = "MONEY"
  BY DEF Coins
<1>3. Heap(v, r) \in SUBSET v.contents[r] /\ v.contents[r] \in SUBSET Obj
      /\ \A o \in Heap(v, r) : v.type[o] = "MONEY"
  <2>1. v.contents[r] \in SUBSET Obj
    BY <1>1, Fields
  <2> QED
    BY <2>1 DEF Heap, Coins
<1>4. old \in SUBSET Obj /\ coins \subseteq old /\ \A o \in old : v.type[o] = "MONEY"
  BY <1>1, <1>2, <1>3
<1>5. v.short \/ \A o \in old : v.equiped_by[o] = NIL
  <2> SUFFICES ASSUME ~v.short, NEW o \in old
               PROVE  v.equiped_by[o] = NIL
    OBVIOUS
  <2>1. Filed(v) /\ Apart(v) /\ Housed(v, L)
    BY DEF Sound, Orderly
  <2>2. CASE o \in L
    BY <2>1, <2>2 DEF Housed, Somewhere
  <2>3. CASE o \in v.contents[r]
    <3>1. v.in_room[o] = r /\ o \in Obj /\ v.contents \in [Chamber -> SUBSET Obj]
      BY <1>1, <1>3, <2>1, <2>3, Fields DEF Filed, Agree
    <3> QED
      BY <2>1, <3>1, ThingsAssumption DEF Apart
  <2> QED
    BY <2>2, <2>3, <1>2, <1>3
<1>6. v.short \/ Heap(v, r) \cap L = {}
  <2> SUFFICES ASSUME ~v.short, NEW o \in Heap(v, r), o \in L
               PROVE  FALSE
    OBVIOUS
  <2>1. Filed(v) /\ Housed(v, L) /\ v.contents \in [Chamber -> SUBSET Obj]
    BY <1>1, Fields DEF Sound, Orderly
  <2>2. v.in_room[o] = r
    BY <2>1, <1>3 DEF Filed, Agree
  <2> QED
    BY <2>1, <2>2, ThingsAssumption DEF Housed, Somewhere
<1> HIDE DEF coins, old
<1>7. CASE u = Laid(v, S, r)
  <2>1. Sound(Laid(v, S, r), L \ S, C) /\ Alike(Laid(v, S, r), v, {"contents", "in_room", "carried_by"})
    BY ToRoom
  <2>2. Calm(Laid(v, S, r), v)
    BY <2>1, CalmAlike
  <2> QED
    BY <2>1, <2>2, <1>7
<1>8. CASE u = Laid(e, new, r)
  <2>1. /\ Sound(m, L1, C) /\ Alike(m, v, {"type", "short"}) /\ (v.short => m.short) /\ n \in Obj
        /\ m.short \/ v.type[n] = "free"
    BY MadeIs DEF create_money, Kind
  <2> HIDE DEF m, n
  <2>2. m.equiped_by = v.equiped_by
    BY <2>1 DEF Alike, Names
  <2>3. Calm(m, v)
    <3>1. m.room = v.room /\ m.equipment = v.equipment /\ m.carrying = v.carrying
      BY <2>1 DEF Alike, Names
    <3> QED
      BY <2>1, <2>2, <3>1 DEF Calm
  <2>4. m.short \/ \A o \in old : m.equiped_by[o] = NIL
    BY <1>5, <2>1, <2>2
  <2>5. L1 \in SUBSET Obj
    BY <2>1
  <2>6. Sound(e, L1 \ old, C) /\ Calm(e, m)
    BY <2>1, <2>4, <2>5, <1>4, Extract
  <2> HIDE DEF e
  <2>7. m.short => e.short
    BY <2>6 DEF Calm
  <2>8. m.short \/ ((L1 \ old) \cup new = L1 \ old /\ ((L1 \ old) \cup new) \ new = L \ S)
    <3> SUFFICES ASSUME ~m.short
                 PROVE  (L1 \ old) \cup new = L1 \ old /\ ((L1 \ old) \cup new) \ new = L \ S
      OBVIOUS
    <3>1. ~v.short /\ v.type[n] = "free"
      BY <2>1
    <3>2. n \notin old
      BY <3>1, <1>4
    <3>3. n \notin L
      BY <3>1, <2>1 DEF Sound, Orderly, Housed
    <3> QED
      BY <3>1, <3>2, <3>3, <1>2, <1>4, <1>6 DEF old
  <2>9. new \in SUBSET ((L1 \ old) \cup new) /\ (L1 \ old) \cup new \in SUBSET Obj
    BY <1>1, <2>1, <2>5
  <2>10. Sound(e, (L1 \ old) \cup new, C)
    BY <2>6, <2>7, <2>8, SoundFor
  <2> HIDE DEF new, L1
  <2>11. /\ Sound(Laid(e, new, r), ((L1 \ old) \cup new) \ new, C)
         /\ Alike(Laid(e, new, r), e, {"contents", "in_room", "carried_by"})
    BY <2>9, <2>10, ToRoom
  <2>12. u.short = e.short
    BY <2>11, <1>8 DEF Alike, Names
  <2>13. Sound(u, L \ S, C)
    BY <2>7, <2>8, <2>11, <2>12, <1>8, SoundFor
  <2>14. Calm(u, e)
    BY <2>11, <1>8, CalmAlike
  <2> QED
    BY <2>3, <2>6, <2>13, <2>14, CalmTwice
<1> QED
  BY <1>7, <1>8 DEF obj_to_room, coins, old

(* What is in the boxes, or worn, comes to lie in a room. *)
LEMMA EmptiedIs ==
  ASSUME NEW v, NEW L \in SUBSET Obj, NEW C, Sound(v, L, C), NEW boxes \in SUBSET Obj, NEW r \in Chamber
  PROVE  Sound(Emptied(v, boxes, r), L, C) /\ Calm(Emptied(v, boxes, r), v)
<1> DEFINE out == UNION {v.contains[x] : x \in boxes}
           a == obj_from_obj(v, out)
           u == obj_to_room(a, out, r)
<1>1. u = Emptied(v, boxes, r)
  BY DEF Emptied
<1>2. v \in Things /\ v.contains \in [Obj -> SUBSET Obj]
  BY Fields DEF Sound
<1>3. out \in SUBSET Obj /\ \A o \in out : \E x \in boxes : o \in v.contains[x]
  BY <1>2
<1>4. v.short \/ \A o \in out : v.in_obj[o] # NIL
  <2> SUFFICES ASSUME ~v.short, NEW o \in out
               PROVE  v.in_obj[o] # NIL
    OBVIOUS
  <2>1. PICK x \in boxes : o \in v.contains[x]
    BY <1>3
  <2>2. v.in_obj[o] = x
    BY <2>1, <1>2, <1>3 DEF Sound, Orderly, Filed, Agree
  <2> QED
    BY <2>2, ThingsAssumption
<1>5. v.short \/ (L \cup out) \ out = L
  <2> SUFFICES ASSUME ~v.short, NEW o \in out, o \in L
               PROVE  FALSE
    OBVIOUS
  <2> QED
    BY <1>4 DEF Sound, Orderly, Housed, Somewhere
<1> HIDE DEF out
<1>6. Sound(a, L \cup out, C) /\ Alike(a, v, {"contains", "in_obj"})
  BY <1>3, <1>4, FromBox
<1> HIDE DEF a
<1>7. Calm(a, v)
  BY <1>6, CalmAlike
<1>8. out \in SUBSET (L \cup out) /\ L \cup out \in SUBSET Obj
  BY <1>3
<1>9. Sound(u, (L \cup out) \ out, C) /\ Calm(u, a)
  BY <1>6, <1>8, Merged
<1> HIDE DEF u
<1>10. v.short => u.short
  BY <1>7, <1>9 DEF Calm
<1>11. Sound(u, L, C)
  BY <1>5, <1>9, <1>10, SoundFor
<1>12. Calm(u, v)
  BY <1>7, <1>9, CalmTwice
<1> QED
  BY <1>1, <1>11, <1>12

(* What is worn is not loose, and comes off. *)
LEMMA Undressed ==
  ASSUME NEW v, NEW L \in SUBSET Obj, NEW C, Sound(v, L, C), NEW cs \in SUBSET Body, NEW places \in SUBSET Slot
  PROVE  v.short \/ Equipped(v, cs, places) \cap L = {}
<1> SUFFICES ASSUME ~v.short, NEW o \in Equipped(v, cs, places), o \in L
             PROVE  FALSE
  OBVIOUS
<1>1. v \in Things /\ Dressed(v) /\ Housed(v, L)
  BY DEF Sound, Orderly
<1>2. o # NIL /\ \E c \in cs, p \in places : v.equipment[c][p] = o
  BY <1>1, EquippedIs
<1>3. v.equiped_by[o] # NIL
  BY <1>1, <1>2, ThingsAssumption DEF Dressed
<1> QED
  BY <1>1, <1>3 DEF Housed, Somewhere

Without(u, c, parts) == \A p \in parts : u.equipment[c][p] = NIL
Naked(u, cs, parts) == \A c \in cs : Without(u, c, parts)

LEMMA Doffed ==
  ASSUME NEW v, NEW L \in SUBSET Obj, NEW C, Sound(v, L, C), NEW cs \in SUBSET Body, NEW places \in SUBSET Slot
  PROVE  /\ Calm(unequip(v, cs, places), v)
         /\ Naked(unequip(v, cs, places), cs, places)
<1> DEFINE E == Equipped(v, cs, places)
           a == unequip(v, cs, places)
<1>2. /\ Alike(a, v, {"equiped_by", "equipment"})
      /\ a.equiped_by = Point(v.equiped_by, E, NIL) /\ Bared(a, v, cs, places)
  BY Unequip
<1> HIDE DEF a, E
<1>3. Calm(a, v)
  <2>1. a.room = v.room /\ a.short = v.short /\ a.carrying = v.carrying
    BY <1>2 DEF Alike, Names
  <2>2. v.equiped_by \in [Obj -> Body \cup {NIL}]
    BY Fields DEF Sound
  <2>3. \A o \in Obj : a.equiped_by[o] \in {v.equiped_by[o], NIL}
    BY <1>2, <2>2 DEF Point
  <2>4. \A c \in Body, p \in Slot : a.equipment[c][p] \in {v.equipment[c][p], NIL}
    BY <1>2 DEF Bared
  <2> QED
    BY <2>1, <2>3, <2>4 DEF Calm
<1>4. Naked(a, cs, places)
  BY <1>2 DEF Bared, Naked, Without
<1> QED
  BY <1>3, <1>4 DEF a

LEMMA StrippedIs ==
  ASSUME NEW v, NEW L \in SUBSET Obj, NEW C, Sound(v, L, C), NEW cs \in SUBSET Body,
         NEW places \in SUBSET Slot, NEW r \in Chamber
  PROVE  LET u == Stripped(v, cs, places, r)
         IN  /\ Sound(u, L, C) /\ Calm(u, v)
             /\ Naked(u, cs, places)
<1> DEFINE E == Equipped(v, cs, places)
           a == unequip(v, cs, places)
<1> SUFFICES ASSUME NEW u, u = obj_to_room(a, E, r)
             PROVE  /\ Sound(u, L, C) /\ Calm(u, v)
                    /\ Naked(u, cs, places)
  BY DEF Stripped
<1>1. v.short \/ (L \cup E) \ E = L
  BY Undressed
<1>10. E \in SUBSET Obj
  BY EquippedIs DEF Sound
<1>2. Sound(a, L \cup E, C)
  BY Unequip
<1>3. Calm(a, v) /\ Naked(a, cs, places)
  BY Doffed
<1> HIDE DEF a, E
<1>4. E \in SUBSET (L \cup E) /\ L \cup E \in SUBSET Obj
  BY <1>10
<1>5. Sound(u, (L \cup E) \ E, C) /\ Calm(u, a)
  BY <1>2, <1>4, Merged
<1>6. v.short => u.short
  BY <1>3, <1>5 DEF Calm
<1>7. Sound(u, L, C)
  BY <1>1, <1>5, <1>6, SoundFor
<1>8. Calm(u, v)
  BY <1>3, <1>5, CalmTwice
<1>9. Naked(u, cs, places)
  BY <1>3, <1>5 DEF Calm, Naked, Without
<1> QED
  BY <1>7, <1>8, <1>9

LEMMA MeltedIs ==
  ASSUME NEW v, NEW L \in SUBSET Obj, NEW C, Sound(v, L, C), NEW S \in SUBSET Obj, NEW r \in Chamber,
         v.short \/ \A o \in S : v.equiped_by[o] = NIL
  PROVE  Sound(Melted(v, S, r), L \ S, C) /\ Calm(Melted(v, S, r), v)
<1> DEFINE boxes == {x \in S : v.type[x] = "CONTAINER"}
           a == Emptied(v, boxes, r)
           u == extract_obj(a, S)
<1>1. u = Melted(v, S, r)
  BY DEF Melted
<1>2. boxes \in SUBSET Obj
  OBVIOUS
<1> HIDE DEF boxes
<1>3. Sound(a, L, C) /\ Calm(a, v)
  BY <1>2, EmptiedIs
<1> HIDE DEF a
<1>4. a.short \/ \A o \in S : a.equiped_by[o] = NIL
  BY <1>3 DEF Calm
<1>5. Sound(u, L \ S, C) /\ Calm(u, a)
  BY <1>3, <1>4, Extract
<1> HIDE DEF u
<1>6. Calm(u, v)
  BY <1>3, <1>5, CalmTwice
<1> QED
  BY <1>1, <1>5, <1>6

LEMMA LightIs ==
  ASSUME NEW v, NEW L, NEW C, Sound(v, L, C), NEW r \in Chamber, NEW d \in Int
  PROVE  Sound(Light(v, r, d), L, C) /\ Alike(Light(v, r, d), v, {"light"})
<1> DEFINE now == [v.light EXCEPT ![r] = Clipped(@ + d)]
           u == [v EXCEPT !.light = now]
<1>1. u = Light(v, r, d)
  BY DEF Light
<1>2. v \in Things /\ v.light \in [Chamber -> -MaxLight .. MaxLight]
  BY Fields DEF Sound
<1>3. \A n \in Int : Clipped(n) \in -MaxLight .. MaxLight
  BY ThingsAssumption DEF Clipped
<1>4. now \in [Chamber -> -MaxLight .. MaxLight]
  <2>1. v.light[r] \in Int
    BY <1>2
  <2>2. Clipped(v.light[r] + d) \in -MaxLight .. MaxLight
    BY <2>1, <1>3
  <2> QED
    BY <1>2, <2>2
<1> HIDE DEF now
<1>5. u \in Things /\ Alike(u, v, {"light"}) /\ Alike(u, v, {"lit", "light"})
  BY <1>2, <1>4 DEF Things, Alike, Names
<1> HIDE DEF u
<1> QED
  BY <1>1, <1>5, LightOnly

(* What is carried goes into the corpse. *)
LEMMA GivenUpIs ==
  ASSUME NEW v, NEW L, NEW C, Sound(v, L, C), NEW c \in Body, NEW corpse \in Obj,
         v.short \/ (v.type[corpse] = "CORPSE" /\ v.in_obj[corpse] = NIL /\ v.carried_by[corpse] = NIL)
  PROVE  LET u == GivenUp(v, c, corpse)
         IN  /\ Sound(u, L, C)
             /\ Alike(u, v, {"contains", "carrying", "carry_items", "in_obj", "carried_by"})
             /\ Calm(u, v)
             /\ u.carrying[c] = {}
             /\ v.in_obj[corpse] = NIL /\ corpse \notin v.carrying[c] => u.in_obj[corpse] = NIL
<1> DEFINE S == v.carrying[c]
           F == {"contains", "carrying", "carry_items", "in_obj", "carried_by"}
<1> SUFFICES ASSUME NEW u, u = GivenUp(v, c, corpse)
             PROVE  /\ Sound(u, L, C)
                    /\ Alike(u, v, F)
                    /\ Calm(u, v)
                    /\ u.carrying[c] = {}
                    /\ v.in_obj[corpse] = NIL /\ corpse \notin S => u.in_obj[corpse] = NIL
  OBVIOUS
<1>1. v \in Things
  BY DEF Sound
<1>2. /\ v.carried_by \in [Obj -> Body \cup {NIL}] /\ v.in_obj \in [Obj -> Obj \cup {NIL}]
      /\ v.contains \in [Obj -> SUBSET Obj] /\ v.carrying \in [Body -> SUBSET Obj]
      /\ v.carry_items \in [Body -> Int] /\ S \in SUBSET Obj
  BY <1>1, Fields
<1>3. /\ Point(v.in_obj, S, corpse) \in [Obj -> Obj \cup {NIL}]
      /\ Point(v.carried_by, S, NIL) \in [Obj -> Body \cup {NIL}]
      /\ [v.contains EXCEPT ![corpse] = @ \cup S] \in [Obj -> SUBSET Obj]
      /\ [v.carrying EXCEPT ![c] = {}] \in [Body -> SUBSET Obj]
      /\ [v.carry_items EXCEPT ![c] = 0] \in [Body -> Int]
  BY <1>2 DEF Point
<1>4. /\ u \in Things
      /\ u.contains = [v.contains EXCEPT ![corpse] = @ \cup S]
      /\ u.carrying = [v.carrying EXCEPT ![c] = {}]
      /\ u.carry_items = [v.carry_items EXCEPT ![c] = 0]
      /\ u.in_obj = Point(v.in_obj, S, corpse)
      /\ u.carried_by = Point(v.carried_by, S, NIL)
      /\ u.type = v.type /\ u.equiped_by = v.equiped_by /\ u.in_room = v.in_room
      /\ u.contents = v.contents /\ u.equipment = v.equipment /\ u.room = v.room /\ u.short = v.short
  BY <1>1, <1>3 DEF GivenUp, Things
<1>5. Alike(u, v, F)
  BY <1>1 DEF GivenUp, Things, Alike, Names
<1>6. u.carrying[c] = {} /\ \A d \in Body : u.carrying[d] \subseteq v.carrying[d]
  BY <1>2, <1>4
<1>7. Calm(u, v)
  BY <1>4, <1>6 DEF Calm
<1>8. /\ \A o \in Obj : u.in_obj[o] = IF o \in S THEN corpse ELSE v.in_obj[o]
      /\ \A o \in Obj : u.carried_by[o] = IF o \in S THEN NIL ELSE v.carried_by[o]
  <2>1. \A o \in Obj : Point(v.in_obj, S, corpse)[o] = IF o \in S THEN corpse ELSE v.in_obj[o]
    BY <1>2 DEF Point
  <2>2. \A o \in Obj : Point(v.carried_by, S, NIL)[o] = IF o \in S THEN NIL ELSE v.carried_by[o]
    BY <1>2 DEF Point
  <2> QED
    BY <2>1, <2>2, <1>4
<1>9. v.in_obj[corpse] = NIL /\ corpse \notin S => u.in_obj[corpse] = NIL
  BY <1>8
<1> SUFFICES ASSUME ~v.short, Orderly(v, L, C)
             PROVE  Orderly(u, L, C)
  BY <1>4, <1>5, <1>6, <1>7, <1>9 DEF Sound
<1> USE DEF Orderly
<1>10. \A o \in S : /\ v.carried_by[o] = c /\ v.carried_by[o] # NIL /\ v.in_room[o] = NOWHERE
                    /\ v.in_obj[o] = NIL /\ v.equiped_by[o] = NIL /\ v.type[o] # "free"
  <2>1. \A o \in S : v.carried_by[o] = c /\ v.carried_by[o] # NIL
    BY <1>2, ThingsAssumption DEF Filed, Agree
  <2> QED
    BY <2>1, <1>2 DEF Apart, Housed, Somewhere
<1>11. corpse \notin S
  BY <1>10
<1>12. Filed(u)
  <2>1. Agree([v.contains EXCEPT ![corpse] = @ \cup S], Point(v.in_obj, S, corpse))
    <3>1. v.contains \in [Obj -> SUBSET Obj] /\ v.in_obj \in [Obj -> Obj \cup {NIL}] /\ NIL \notin Obj
      BY <1>2, ThingsAssumption
    <3>2. Agree(v.contains, v.in_obj) /\ S \in SUBSET Obj /\ corpse \in Obj /\ \A o \in S : v.in_obj[o] = NIL
      BY <1>2, <1>10 DEF Filed
    <3> QED
      BY <3>1, <3>2, AgreeOn
  <2>2. Agree(u.carrying, u.carried_by)
    BY <1>2, <1>4, <1>8, ThingsAssumption DEF Filed, Agree
  <2> QED
    BY <2>1, <2>2, <1>4 DEF Filed
<1>13. Dressed(u)
  BY <1>4 DEF Dressed
<1>14. Apart(u)
  BY <1>4, <1>8, <1>10 DEF Apart
<1>15. Housed(u, L)
  BY <1>4, <1>8, <1>10, ThingsAssumption DEF Housed, Somewhere
<1>16. Sorted(u)
  BY <1>2, <1>4 DEF Sorted
<1>17. Counted(u, C)
  <2>1. Cardinality({}) = 0
    BY FS_EmptySet
  <2> QED
    BY <2>1, <1>2, <1>4 DEF Counted
<1>18. LeftBare(u, C)
  BY <1>2, <1>4 DEF LeftBare
<1>19. Untied(u.in_obj)
  BY <1>2, <1>4, <1>11, UntiedOn
<1> QED
  BY <1>12, <1>13, <1>14, <1>15, <1>16, <1>17, <1>18, <1>19

(* What the characters cs carry is hung on to the room: their counts are   *)
(* not true any more.                                                      *)
LEMMA HungIs ==
  ASSUME NEW v, NEW L, NEW C \in SUBSET Body, Sound(v, L, C), NEW cs \in SUBSET Body, NEW r \in Chamber
  PROVE  LET u == Hung(v, cs, r)
         IN  /\ Sound(u, L, C \cup cs)
             /\ Calm(u, v)
             /\ \A c \in cs : u.carrying[c] = {}
<1> DEFINE S == UNION {v.carrying[c] : c \in cs}
<1> SUFFICES ASSUME NEW u, u = Hung(v, cs, r)
             PROVE  /\ Sound(u, L, C \cup cs)
                    /\ Calm(u, v)
                    /\ \A c \in cs : u.carrying[c] = {}
  OBVIOUS
<1>1. v \in Things
  BY DEF Sound
<1>2. /\ v.carried_by \in [Obj -> Body \cup {NIL}] /\ v.in_room \in [Obj -> Chamber \cup {NOWHERE}]
      /\ v.contents \in [Chamber -> SUBSET Obj] /\ v.carrying \in [Body -> SUBSET Obj]
  BY <1>1, Fields
<1>3. S \in SUBSET Obj /\ \A o : o \in S <=> \E c \in cs : o \in v.carrying[c]
  BY <1>2
<1> HIDE DEF S
<1>4. /\ Point(v.in_room, S, r) \in [Obj -> Chamber \cup {NOWHERE}]
      /\ Point(v.carried_by, S, NIL) \in [Obj -> Body \cup {NIL}]
      /\ [v.contents EXCEPT ![r] = @ \cup S] \in [Chamber -> SUBSET Obj]
      /\ Point(v.carrying, cs, {}) \in [Body -> SUBSET Obj]
  BY <1>2, <1>3 DEF Point
<1>5. u = [v EXCEPT !.contents = [v.contents EXCEPT ![r] = @ \cup S], !.carrying = Point(v.carrying, cs, {}),
                    !.carried_by = Point(v.carried_by, S, NIL), !.in_room = Point(v.in_room, S, r)]
  BY DEF Hung, S
<1>6. /\ u \in Things
      /\ u.contents = [v.contents EXCEPT ![r] = @ \cup S]
      /\ u.carrying = Point(v.carrying, cs, {})
      /\ u.in_room = Point(v.in_room, S, r)
      /\ u.carried_by = Point(v.carried_by, S, NIL)
      /\ u.type = v.type /\ u.equiped_by = v.equiped_by /\ u.in_obj = v.in_obj
      /\ u.contains = v.contains /\ u.carry_items = v.carry_items
      /\ u.equipment = v.equipment /\ u.room = v.room /\ u.short = v.short
  <2>1. u \in Things
    BY <1>1, <1>4, <1>5 DEF Things
  <2>2. /\ u.contents = [v.contents EXCEPT ![r] = @ \cup S]
        /\ u.carrying = Point(v.carrying, cs, {})
        /\ u.in_room = Point(v.in_room, S, r)
        /\ u.carried_by = Point(v.carried_by, S, NIL)
    BY <1>1, <1>5 DEF Things
  <2>3. /\ u.type = v.type /\ u.equiped_by = v.equiped_by /\ u.in_obj = v.in_obj
        /\ u.contains = v.contains /\ u.carry_items = v.carry_items
        /\ u.equipment = v.equipment /\ u.room = v.room /\ u.short = v.short
    BY <1>1, <1>5 DEF Things
  <2> QED
    BY <2>1, <2>2, <2>3
<1>7. \A c \in Body : u.carrying[c] = IF c \in cs THEN {} ELSE v.carrying[c]
  BY <1>2, <1>6 DEF Point
<1>8. Calm(u, v)
  BY <1>6, <1>7 DEF Calm
<1>9. /\ \A o \in Obj : u.in_room[o] = IF o \in S THEN r ELSE v.in_room[o]
      /\ \A o \in Obj : u.carried_by[o] = IF o \in S THEN NIL ELSE v.carried_by[o]
  <2>1. \A o \in Obj : Point(v.in_room, S, r)[o] = IF o \in S THEN r ELSE v.in_room[o]
    BY <1>2 DEF Point
  <2>2. \A o \in Obj : Point(v.carried_by, S, NIL)[o] = IF o \in S THEN NIL ELSE v.carried_by[o]
    BY <1>2 DEF Point
  <2> QED
    BY <2>1, <2>2, <1>6
<1> SUFFICES ASSUME ~v.short, Orderly(v, L, C)
             PROVE  Orderly(u, L, C \cup cs)
  BY <1>6, <1>7, <1>8 DEF Sound
<1> USE DEF Orderly
<1>10. \A o \in S : /\ v.carried_by[o] \in cs /\ v.carried_by[o] # NIL /\ v.in_room[o] = NOWHERE
                    /\ v.in_obj[o] = NIL /\ v.equiped_by[o] = NIL /\ v.type[o] # "free"
  <2>1. \A o \in S : v.carried_by[o] \in cs /\ v.carried_by[o] # NIL
    BY <1>2, <1>3, ThingsAssumption DEF Filed, Agree
  <2> QED
    BY <2>1, <1>3 DEF Apart, Housed, Somewhere
<1>11. Filed(u)
  <2>1. Agree([v.contents EXCEPT ![r] = @ \cup S], Point(v.in_room, S, r))
    <3>1. v.contents \in [Chamber -> SUBSET Obj] /\ v.in_room \in [Obj -> Chamber \cup {NOWHERE}]
          /\ NOWHERE \notin Chamber
      BY <1>2, ThingsAssumption
    <3>2. Agree(v.contents, v.in_room) /\ S \in SUBSET Obj /\ \A o \in S : v.in_room[o] = NOWHERE
      BY <1>3, <1>10 DEF Filed
    <3> QED
      BY <3>1, <3>2, AgreeOn
  <2>2. Agree(u.carrying, u.carried_by)
    <3>1. ASSUME NEW c \in Body, NEW o \in Obj
          PROVE  o \in u.carrying[c] <=> u.carried_by[o] = c
      <4>1. o \in v.carrying[c] <=> v.carried_by[o] = c
        BY <1>2 DEF Filed, Agree
      <4>2. o \in S <=> v.carried_by[o] \in cs
        BY <1>2, <1>3, <1>10 DEF Filed, Agree
      <4> QED
        BY <4>1, <4>2, <1>7, <1>9, ThingsAssumption
    <3>2. DOMAIN u.carrying = Body
      BY <1>4, <1>6
    <3> QED
      BY <3>1, <3>2 DEF Agree
  <2> QED
    BY <2>1, <2>2, <1>6 DEF Filed
<1>12. Dressed(u) /\ Sorted(u) /\ Untied(u.in_obj)
  BY <1>6 DEF Dressed, Sorted
<1>13. Apart(u)
  BY <1>6, <1>9, <1>10 DEF Apart
<1>14. Housed(u, L)
  BY <1>6, <1>9, <1>10, ThingsAssumption DEF Housed, Somewhere
<1>15. Counted(u, C \cup cs) /\ LeftBare(u, C \cup cs)
  BY <1>6, <1>7 DEF Counted, LeftBare
<1> QED
  BY <1>11, <1>12, <1>13, <1>14, <1>15

HasNothing(v, c) == v.carrying[c] = {} /\ \A p \in Slot : v.equipment[c][p] = NIL

LEMMA OutOfRoom ==
  ASSUME NEW v, NEW L, NEW C, Sound(v, L, C), NEW cs \in SUBSET Body,
         v.short \/ \A c \in cs \ C : HasNothing(v, c)
  PROVE  LET u == out_of_room(v, cs) IN Sound(u, L, C) /\ Alike(u, v, {"room", "light"})
<1> DEFINE now == [r \in Chamber |-> Clipped(v.light[r] - Lights(v, cs, r))]
<1> SUFFICES ASSUME NEW u, u = [v EXCEPT !.room = Point(v.room, cs, NOWHERE), !.light = now]
             PROVE  Sound(u, L, C) /\ Alike(u, v, {"room", "light"})
  BY DEF out_of_room
<1>1. v \in Things
  BY DEF Sound
<1>2. v.light \in [Chamber -> -MaxLight .. MaxLight] /\ v.room \in [Body -> Chamber \cup {NOWHERE}]
  BY <1>1, Fields
<1>3. \A n \in Int : Clipped(n) \in -MaxLight .. MaxLight
  BY ThingsAssumption DEF Clipped
<1>4. ASSUME NEW r \in Chamber
      PROVE  now[r] \in -MaxLight .. MaxLight
  <2>1. {c \in cs : v.room[c] = r /\ OnLight(v, c)} \in SUBSET Body
    OBVIOUS
  <2>2. Lights(v, cs, r) \in Nat
    BY <2>1, ThingsAssumption, FS_Subset, FS_CardinalityType DEF Lights
  <2>3. v.light[r] \in Int
    BY <1>2
  <2>4. Clipped(v.light[r] - Lights(v, cs, r)) \in -MaxLight .. MaxLight
    BY <2>2, <2>3, <1>3
  <2> QED
    BY <2>4
<1>5. now \in [Chamber -> -MaxLight .. MaxLight]
  BY <1>4
<1> HIDE DEF now
<1>6. Point(v.room, cs, NOWHERE) \in [Body -> Chamber \cup {NOWHERE}]
  BY <1>2 DEF Point
<1>7. u \in Things /\ u.room = Point(v.room, cs, NOWHERE)
  BY <1>1, <1>5, <1>6 DEF Things
<1>8. Alike(u, v, {"room", "light"})
  BY <1>1 DEF Things, Alike, Names
<1>9. /\ u.type = v.type /\ u.short = v.short
      /\ u.in_room = v.in_room /\ u.carried_by = v.carried_by /\ u.equiped_by = v.equiped_by
      /\ u.in_obj = v.in_obj /\ u.contents = v.contents /\ u.carrying = v.carrying
      /\ u.contains = v.contains /\ u.equipment = v.equipment /\ u.carry_items = v.carry_items
  BY <1>8 DEF Alike, Names
<1> SUFFICES ASSUME ~v.short, Orderly(v, L, C)
             PROVE  Orderly(u, L, C)
  BY <1>7, <1>8, <1>9 DEF Sound
<1>10. Filed(u) /\ Dressed(u) /\ Apart(u)
  BY <1>9 DEF Orderly, Filed, Dressed, Apart
<1>11. Housed(u, L) /\ Sorted(u)
  BY <1>9 DEF Orderly, Housed, Somewhere, Sorted
<1>12. Counted(u, C) /\ Untied(u.in_obj)
  BY <1>9 DEF Orderly, Counted
<1>13. LeftBare(u, C)
  <2>1. \A c \in Body : u.room[c] = IF c \in cs THEN NOWHERE ELSE v.room[c]
    BY <1>2, <1>7 DEF Point
  <2> QED
    BY <2>1, <1>9 DEF Orderly, LeftBare, HasNothing
<1> QED
  BY <1>10, <1>11, <1>12, <1>13 DEF Orderly

LEMMA IntoRoom ==
  ASSUME NEW v, NEW L, NEW C, Sound(v, L, C), NEW c \in Body, NEW r \in Chamber,
         v.short \/ v.carry_items[c] = Cardinality(v.carrying[c])
  PROVE  LET u == into_room(v, c, r)
         IN  Sound(u, L, C \ {c}) /\ Alike(u, v, {"room", "light"}) /\ u.room[c] = r
<1> DEFINE a == [v EXCEPT !.room = [v.room EXCEPT ![c] = r]]
           u == into_room(v, c, r)
<1>1. v \in Things
  BY DEF Sound
<1>2. v.room \in [Body -> Chamber \cup {NOWHERE}] /\ [v.room EXCEPT ![c] = r] \in [Body -> Chamber \cup {NOWHERE}]
  <2>1. v.room \in [Body -> Chamber \cup {NOWHERE}]
    BY <1>1, Fields
  <2> QED
    BY <2>1
<1>3. a \in Things /\ a.room = [v.room EXCEPT ![c] = r]
  BY <1>1, <1>2 DEF Things
<1>4. Alike(a, v, {"room"})
  BY <1>1 DEF Things, Alike, Names
<1>5. u = a \/ u = Light(a, r, 1)
  BY DEF into_room
<1> HIDE DEF a, u
<1>6. /\ a.type = v.type /\ a.short = v.short
      /\ a.in_room = v.in_room /\ a.carried_by = v.carried_by /\ a.equiped_by = v.equiped_by
      /\ a.in_obj = v.in_obj /\ a.contents = v.contents /\ a.carrying = v.carrying
      /\ a.contains = v.contains /\ a.equipment = v.equipment /\ a.carry_items = v.carry_items
  BY <1>4 DEF Alike, Names
<1>7. ASSUME ~v.short, Orderly(v, L, C)
      PROVE  Orderly(a, L, C \ {c})
  <2>1. Filed(a) /\ Dressed(a) /\ Apart(a)
    BY <1>6, <1>7 DEF Orderly, Filed, Dressed, Apart
  <2>2. Housed(a, L) /\ Sorted(a)
    BY <1>6, <1>7 DEF Orderly, Housed, Somewhere, Sorted
  <2>3. Counted(a, C \ {c}) /\ Untied(a.in_obj)
    BY <1>6, <1>7 DEF Orderly, Counted
  <2>4. a.room[c] = r /\ \A d \in Body \ {c} : a.room[d] = v.room[d]
    BY <1>2, <1>3
  <2>5. LeftBare(a, C \ {c})
    BY <2>4, <1>6, <1>7, ThingsAssumption DEF Orderly, LeftBare
  <2> QED
    BY <2>1, <2>2, <2>3, <2>5 DEF Orderly
<1>8. Sound(a, L, C \ {c})
  BY <1>3, <1>6, <1>7 DEF Sound
<1>9. CASE u = a
  <2>1. Alike(u, v, {"room", "light"}) /\ u.room[c] = r
    BY <1>2, <1>3, <1>4, <1>9 DEF Alike, Names
  <2> QED
    BY <2>1, <1>8, <1>9 DEF u
<1>10. CASE u = Light(a, r, 1)
  <2>1. Sound(u, L, C \ {c}) /\ Alike(u, a, {"light"})
    BY <1>8, <1>10, LightIs
  <2>2. Alike(u, v, {"room", "light"})
    BY <2>1, <1>4 DEF Alike, Names
  <2>3. u.room = a.room
    BY <2>1 DEF Alike, Names
  <2>4. u.room[c] = r
    BY <2>3, <1>2, <1>3
  <2> QED
    BY <2>1, <2>2, <2>4 DEF u
<1> QED
  BY <1>5, <1>9, <1>10

LEMMA FreeChar ==
  ASSUME NEW v, NEW L, NEW C, Sound(v, L, C), NEW cs \in SUBSET Body,
         v.short \/ \A c \in cs : HasNothing(v, c)
  PROVE  LET u == free_a_char(v, cs) IN Sound(u, L, C \ cs) /\ Alike(u, v, {"carry_items"})
<1> SUFFICES ASSUME NEW u, u = [v EXCEPT !.carry_items = Point(v.carry_items, cs, 0)]
             PROVE  Sound(u, L, C \ cs) /\ Alike(u, v, {"carry_items"})
  BY DEF free_a_char
<1>1. v \in Things
  BY DEF Sound
<1>2. v.carry_items \in [Body -> Int]
  BY <1>1, Fields
<1>3. Point(v.carry_items, cs, 0) \in [Body -> Int]
  BY <1>2 DEF Point
<1>4. u \in Things /\ u.carry_items = Point(v.carry_items, cs, 0)
  BY <1>1, <1>3 DEF Things
<1>5. Alike(u, v, {"carry_items"})
  BY <1>1 DEF Things, Alike, Names
<1>6. /\ u.type = v.type /\ u.short = v.short
      /\ u.in_room = v.in_room /\ u.carried_by = v.carried_by /\ u.equiped_by = v.equiped_by
      /\ u.in_obj = v.in_obj /\ u.contents = v.contents /\ u.carrying = v.carrying
      /\ u.contains = v.contains /\ u.equipment = v.equipment /\ u.room = v.room
  BY <1>5 DEF Alike, Names
<1> SUFFICES ASSUME ~v.short, Orderly(v, L, C)
             PROVE  Orderly(u, L, C \ cs)
  BY <1>4, <1>5, <1>6 DEF Sound
<1>7. Filed(u) /\ Dressed(u) /\ Apart(u)
  BY <1>6 DEF Orderly, Filed, Dressed, Apart
<1>8. Housed(u, L) /\ Sorted(u) /\ Untied(u.in_obj)
  BY <1>6 DEF Orderly, Housed, Somewhere, Sorted
<1>9. LeftBare(u, C \ cs)
  BY <1>6 DEF Orderly, LeftBare, HasNothing
<1>10. Counted(u, C \ cs)
  <2>1. \A c \in Body : u.carry_items[c] = IF c \in cs THEN 0 ELSE v.carry_items[c]
    BY <1>2, <1>4 DEF Point
  <2>2. Cardinality({}) = 0
    BY FS_EmptySet
  <2> QED
    BY <2>1, <2>2, <1>6 DEF Orderly, Counted, HasNothing
<1> QED
  BY <1>7, <1>8, <1>9, <1>10 DEF Orderly

LEMMA EquipIs ==
  ASSUME NEW v, NEW L \in SUBSET Obj, NEW C, Sound(v, L, C), NEW c \in Body, NEW o \in L, NEW p \in Slot,
         NEW zapped \in BOOLEAN,
         v.short \/ (/\ v.equipment[c][p] = NIL /\ v.type[o] \in Loaded
                     /\ v.room[c] # NOWHERE \/ c \in C)
  PROVE  LET u == equip(v, c, o, p, zapped)
         IN  /\ Sound(u, L \ {o}, C)
             /\ v.short => u.short
             /\ u.room = v.room
             /\ ~zapped => u.carrying = v.carrying /\ u.carry_items = v.carry_items
<1> SUFFICES ASSUME NEW u, u = equip(v, c, o, p, zapped)
             PROVE  /\ Sound(u, L \ {o}, C)
                    /\ v.short => u.short
                    /\ u.room = v.room
                    /\ ~zapped => u.carrying = v.carrying /\ u.carry_items = v.carry_items
  OBVIOUS
<1>1. v \in Things /\ o \in Obj
  BY DEF Sound
<1>2. CASE v.carried_by[o] # NIL \/ v.in_room[o] # NOWHERE \/ v.equiped_by[o] # NIL
  <2>1. u = v
    BY <1>2 DEF equip
  <2>2. v.short
    BY <1>2 DEF Sound, Orderly, Housed, Somewhere
  <2> QED
    BY <2>1, <2>2, <1>1 DEF Sound
<1>3. CASE u = obj_to_room(v, {o}, v.room[c]) /\ zapped /\ v.room[c] # NOWHERE
  <2>1. v.room[c] \in Chamber /\ {o} \in SUBSET L
    <3>1. v.room \in [Body -> Chamber \cup {NOWHERE}]
      BY <1>1, Fields
    <3> QED
      BY <3>1, <1>3
  <2>2. Sound(u, L \ {o}, C) /\ Calm(u, v)
    BY <2>1, <1>3, Merged
  <2> QED
    BY <2>2, <1>3 DEF Calm
<1>4. CASE u = [v EXCEPT !.equipment = [v.equipment EXCEPT ![c] = [v.equipment[c] EXCEPT ![p] = o]],
                         !.equiped_by = [v.equiped_by EXCEPT ![o] = c]]
  <2> DEFINE eq == [v.equipment EXCEPT ![c] = [v.equipment[c] EXCEPT ![p] = o]]
             by == [v.equiped_by EXCEPT ![o] = c]
  <2>1. v.equipment \in [Body -> [Slot -> Obj \cup {NIL}]] /\ v.equiped_by \in [Obj -> Body \cup {NIL}]
    BY <1>1, Fields
  <2>2. v.equipment[c] \in [Slot -> Obj \cup {NIL}] /\ [v.equipment[c] EXCEPT ![p] = o] \in [Slot -> Obj \cup {NIL}]
    <3>1. v.equipment[c] \in [Slot -> Obj \cup {NIL}]
      BY <2>1
    <3> QED
      BY <3>1, <1>1
  <2>3. /\ eq \in [Body -> [Slot -> Obj \cup {NIL}]]
        /\ \A d \in Body, q \in Slot : eq[d][q] = IF d = c /\ q = p THEN o ELSE v.equipment[d][q]
    BY <2>1, <2>2
  <2>4. by \in [Obj -> Body \cup {NIL}] /\ \A x \in Obj : by[x] = IF x = o THEN c ELSE v.equiped_by[x]
    BY <2>1, <1>1
  <2>5. u = [v EXCEPT !.equipment = eq, !.equiped_by = by]
    BY <1>4
  <2> HIDE DEF eq, by
  <2>6. u \in Things /\ u.equipment = eq /\ u.equiped_by = by
    BY <2>3, <2>4, <2>5, <1>1 DEF Things
  <2>7. Alike(u, v, {"equipment", "equiped_by"})
    BY <2>5, <1>1 DEF Things, Alike, Names
  <2>8. /\ u.type = v.type /\ u.short = v.short /\ u.in_room = v.in_room /\ u.carried_by = v.carried_by
        /\ u.in_obj = v.in_obj /\ u.contents = v.contents /\ u.carrying = v.carrying
        /\ u.contains = v.contains /\ u.carry_items = v.carry_items /\ u.room = v.room
    BY <2>7 DEF Alike, Names
  <2>9. ASSUME ~v.short, Orderly(v, L, C)
        PROVE  Orderly(u, L \ {o}, C)
    <3> USE DEF Orderly
    <3>1. v.equipment[c][p] = NIL /\ v.type[o] \in Loaded /\ (v.room[c] # NOWHERE \/ c \in C)
          /\ ~Somewhere(v, o)
      BY <2>9 DEF Housed
    <3>2. \A d \in Body, q \in Slot : v.equipment[d][q] # o
      BY <2>9, <3>1, <1>1, ThingsAssumption DEF Dressed, Somewhere
    <3>3. Filed(u) /\ Counted(u, C) /\ Untied(u.in_obj)
      BY <2>8, <2>9 DEF Filed, Counted
    <3>4. Dressed(u)
      <4>1. ASSUME NEW d \in Body, NEW q \in Slot, u.equipment[d][q] # NIL
            PROVE  u.equiped_by[u.equipment[d][q]] = d
        <5>1. CASE d = c /\ q = p
          BY <5>1, <2>3, <2>4, <2>6, <1>1
        <5>2. CASE ~(d = c /\ q = p)
          <6>1. u.equipment[d][q] = v.equipment[d][q] /\ v.equipment[d][q] \in Obj /\ v.equipment[d][q] # o
            BY <5>2, <4>1, <2>1, <2>3, <2>6, <3>2
          <6> QED
            BY <6>1, <4>1, <2>4, <2>6, <2>9 DEF Dressed
        <5> QED
          BY <5>1, <5>2
      <4>2. ASSUME NEW x \in Obj, u.equiped_by[x] # NIL
            PROVE  \E q \in Slot : u.equipment[u.equiped_by[x]][q] = x
        <5>1. CASE x = o
          BY <5>1, <2>3, <2>4, <2>6
        <5>2. CASE x # o
          <6>1. u.equiped_by[x] = v.equiped_by[x] /\ v.equiped_by[x] \in Body
            BY <5>2, <4>2, <2>1, <2>4, <2>6
          <6>2. PICK q \in Slot : v.equipment[v.equiped_by[x]][q] = x
            BY <6>1, <4>2, <2>9 DEF Dressed
          <6>3. ~(v.equiped_by[x] = c /\ q = p)
            BY <6>2, <3>1, ThingsAssumption
          <6> QED
            BY <6>1, <6>2, <6>3, <2>3, <2>6
        <5> QED
          BY <5>1, <5>2
      <4>3. ASSUME NEW d \in Body, NEW q1 \in Slot, NEW q2 \in Slot,
                   u.equipment[d][q1] = u.equipment[d][q2], u.equipment[d][q1] # NIL
            PROVE  q1 = q2
        BY <4>3, <2>3, <2>6, <2>9, <3>2 DEF Dressed
      <4> QED
        BY <4>1, <4>2, <4>3 DEF Dressed
    <3>5. Apart(u)
      BY <2>4, <2>6, <2>8, <2>9, <3>1 DEF Apart, Somewhere
    <3>6. Housed(u, L \ {o})
      BY <2>4, <2>6, <2>8, <2>9, <3>1, ThingsAssumption DEF Housed, Somewhere, Loaded
    <3>7. Sorted(u)
      BY <2>4, <2>6, <2>8, <2>9, <3>1 DEF Sorted
    <3>8. LeftBare(u, C)
      BY <2>3, <2>6, <2>8, <2>9, <3>1 DEF LeftBare
    <3> QED
      BY <3>3, <3>4, <3>5, <3>6, <3>7, <3>8
  <2> QED
    BY <2>6, <2>8, <2>9 DEF Sound
<1> QED
  BY <1>2, <1>3, <1>4 DEF equip

LEMMA CalmMade ==
  ASSUME NEW u, NEW v, NEW F, Alike(u, v, F), v.short => u.short,
         {"room", "equiped_by", "equipment", "carrying"} \cap F = {}
  PROVE  Calm(u, v)
<1>1. u.room = v.room /\ u.equiped_by = v.equiped_by /\ u.equipment = v.equipment /\ u.carrying = v.carrying
  BY DEF Alike, Names
<1> QED
  BY <1>1 DEF Calm

LEMMA LooseIs ==
  ASSUME NEW v, NEW L \in SUBSET Obj, NEW C, Sound(v, L, C), NEW o \in L
  PROVE  v.short \/ (/\ v.in_room[o] = NOWHERE /\ v.carried_by[o] = NIL /\ v.in_obj[o] = NIL
                     /\ v.equiped_by[o] = NIL)
BY DEF Sound, Orderly, Housed, Somewhere

(* Into a box that is loose, or not in anything. *)
LEMMA IntoLoose ==
  ASSUME NEW v, NEW L \in SUBSET Obj, NEW C, Sound(v, L, C), NEW S \in SUBSET L, NEW in \in Obj,
         v.short \/ (v.type[in] \in {"CONTAINER", "CORPSE"} /\ v.in_obj[in] = NIL /\ in \notin S)
  PROVE  LET u == obj_to_obj(v, S, in)
         IN Sound(u, L \ S, C) /\ Alike(u, v, {"contains", "in_obj"}) /\ Calm(u, v)
<1>1. v.short \/ (v.type[in] \in {"CONTAINER", "CORPSE"} /\ Untied(Point(v.in_obj, S, in)))
  <2> SUFFICES ASSUME ~v.short
               PROVE  v.type[in] \in {"CONTAINER", "CORPSE"} /\ Untied(Point(v.in_obj, S, in))
    OBVIOUS
  <2>1. v.in_obj \in [Obj -> Obj \cup {NIL}] /\ Untied(v.in_obj) /\ S \in SUBSET Obj
    BY Fields DEF Sound, Orderly
  <2>2. in \in Obj \ S /\ v.in_obj[in] = NIL
    OBVIOUS
  <2> QED
    BY <2>1, <2>2, UntiedOn
<1>2. /\ Sound(obj_to_obj(v, S, in), L \ S, C)
      /\ Alike(obj_to_obj(v, S, in), v, {"contains", "in_obj"})
  BY <1>1, IntoBox
<1>3. Calm(obj_to_obj(v, S, in), v)
  BY <1>2, CalmAlike
<1> QED
  BY <1>2, <1>3

(* The coins of the dead go into the corpse. *)
LEMMA PaidIs ==
  ASSUME NEW v, NEW L \in SUBSET Obj, NEW C, Sound(v, L, C), NEW k \in L,
         v.short \/ v.type[k] = "CORPSE"
  PROVE  LET u == obj_to_obj(create_money(v), {NewOne(v)}, k)
         IN  Sound(u, L, C) /\ Calm(u, v) /\ (u.short \/ u.type[k] = "CORPSE")
<1> DEFINE n == NewOne(v)
           m == create_money(v)
           u == obj_to_obj(m, {n}, k)
<1>1. /\ Sound(m, L \cup {n}, C) /\ Alike(m, v, {"type", "short"}) /\ (v.short => m.short) /\ n \in Obj
      /\ \A o \in Obj \ {n} : m.type[o] = v.type[o]
      /\ m.short \/ v.type[n] = "free"
  <2> DEFINE x == Made(v, "MONEY")
  <2>0. "MONEY" \in Kind
    BY DEF Kind
  <2>1. Sound(x, L \cup {n}, C)
    BY <2>0, MadeIs
  <2>2. Alike(x, v, {"type", "short"})
    BY <2>0, MadeIs
  <2>3. v.short => x.short
    BY <2>0, MadeIs
  <2>4. n \in Obj
    BY <2>0, MadeIs
  <2>5. \A o \in Obj \ {n} : x.type[o] = v.type[o]
    BY <2>0, MadeIs
  <2>6. x.short \/ (v.type[n] = "free" /\ x.type[n] = "MONEY")
    BY <2>0, MadeIs
  <2>7. m = x
    BY DEF create_money
  <2> HIDE DEF x, m, n
  <2> QED
    BY <2>1, <2>2, <2>3, <2>4, <2>5, <2>6, <2>7
<1> HIDE DEF m, n
<1>2. Calm(m, v)
  BY <1>1, CalmMade
<1>3. k \in Obj /\ L \cup {n} \in SUBSET Obj /\ {n} \in SUBSET (L \cup {n}) /\ k \in L \cup {n}
  BY <1>1
<1>4. m.short \/ (m.type[k] = "CORPSE" /\ k # n)
  BY <1>1, <1>3
<1>5. m.short \/ m.in_obj[k] = NIL
  BY <1>1, <1>3, LooseIs
<1>6. m.short \/ (m.type[k] \in {"CONTAINER", "CORPSE"} /\ m.in_obj[k] = NIL /\ k \notin {n})
  BY <1>4, <1>5
<1>7. Sound(u, (L \cup {n}) \ {n}, C) /\ Alike(u, m, {"contains", "in_obj"}) /\ Calm(u, m)
  BY <1>1, <1>3, <1>6, IntoLoose
<1> HIDE DEF u
<1>8. u.type = m.type /\ u.short = m.short
  BY <1>7 DEF Alike, Names
<1>9. m.short \/ (L \cup {n}) \ {n} = L
  <2> SUFFICES ASSUME ~m.short, n \in L
               PROVE  FALSE
    OBVIOUS
  <2>1. ~v.short /\ v.type[n] = "free"
    BY <1>1
  <2> QED
    BY <2>1, <1>1 DEF Sound, Orderly, Housed
<1>10. Sound(u, L, C)
  BY <1>7, <1>8, <1>9, SoundFor
<1>11. Calm(u, v)
  BY <1>2, <1>7, CalmTwice
<1> QED
  BY <1>4, <1>8, <1>10, <1>11 DEF u, m, n

(* The corpse with what was carried and the coins. *)
Filled(v, c, major, gold) ==
  LET full == IF major THEN GivenUp(Made(v, "CORPSE"), c, NewOne(v)) ELSE Made(v, "CORPSE")
  IN IF major /\ gold THEN obj_to_obj(create_money(full), {NewOne(full)}, NewOne(v)) ELSE full

(* A corpse k that holds everything when the body is all its own. *)
Corpse(paid, k) == paid.short \/ paid.type[k] = "CORPSE"
GaveUpAll(paid, c, major) == major => paid.carrying[c] = {}

LEMMA FilledIs ==
  ASSUME NEW v, NEW L \in SUBSET Obj, NEW C, Sound(v, L, C), NEW c \in Body,
         NEW major \in BOOLEAN, NEW gold \in BOOLEAN
  PROVE  LET k == NewOne(v)
             paid == Filled(v, c, major, gold)
         IN  /\ k \in Obj /\ (paid.short \/ k \notin L)
             /\ Sound(paid, L \cup {k}, C) /\ Calm(paid, v)
             /\ Corpse(paid, k) /\ GaveUpAll(paid, c, major)
<1> DEFINE k == NewOne(v)
           body == Made(v, "CORPSE")
           full == IF major THEN GivenUp(body, c, k) ELSE body
           paid == IF major /\ gold THEN obj_to_obj(create_money(full), {NewOne(full)}, k) ELSE full
<1>0. paid = Filled(v, c, major, gold)
  BY DEF Filled
<1>12. full = IF major THEN GivenUp(body, c, k) ELSE body
  OBVIOUS
<1>13. paid = IF major /\ gold THEN obj_to_obj(create_money(full), {NewOne(full)}, k) ELSE full
  OBVIOUS
<1>1. /\ Sound(body, L \cup {k}, C) /\ Alike(body, v, {"type", "short"}) /\ (v.short => body.short) /\ k \in Obj
      /\ body.short \/ (v.type[k] = "free" /\ body.type[k] = "CORPSE")
  BY MadeIs DEF Kind
<1> HIDE DEF k, body, full, paid
<1>2. Calm(body, v)
  BY <1>1, CalmMade
<1>3. L \cup {k} \in SUBSET Obj /\ k \in L \cup {k}
  BY <1>1
<1>4. body.short \/ (body.in_obj[k] = NIL /\ body.carried_by[k] = NIL)
  BY <1>1, <1>3, LooseIs
<1>5. body.short \/ k \notin L
  BY <1>1 DEF Sound, Orderly, Housed
<1>6. /\ Sound(full, L \cup {k}, C) /\ Calm(full, body)
      /\ full.short \/ full.type[k] = "CORPSE"
      /\ major => full.carrying[c] = {}
  <2>1. CASE major
    <3>1. full = GivenUp(body, c, k)
      BY <2>1, <1>12
    <3>2. body.short \/ (body.type[k] = "CORPSE" /\ body.in_obj[k] = NIL /\ body.carried_by[k] = NIL)
      BY <1>1, <1>4
    <3>3. /\ Sound(full, L \cup {k}, C)
          /\ Alike(full, body, {"contains", "carrying", "carry_items", "in_obj", "carried_by"})
          /\ Calm(full, body) /\ full.carrying[c] = {}
      BY <3>1, <3>2, <1>1, GivenUpIs
    <3>4. full.type = body.type /\ full.short = body.short
      BY <3>3 DEF Alike, Names
    <3> QED
      BY <3>3, <3>4, <1>1
  <2>2. CASE ~major
    <3>1. full = body
      BY <2>2, <1>12
    <3>2. Calm(body, body)
      BY DEF Calm
    <3> QED
      BY <3>1, <3>2, <1>1, <2>2
  <2> QED
    BY <2>1, <2>2
<1>7. Calm(full, v)
  BY <1>2, <1>6, CalmTwice
<1>8. /\ Sound(paid, L \cup {k}, C) /\ Calm(paid, full)
      /\ paid.short \/ paid.type[k] = "CORPSE"
  <2>1. CASE major /\ gold
    <3>1. paid = obj_to_obj(create_money(full), {NewOne(full)}, k)
      BY <2>1, <1>13
    <3> QED
      BY <3>1, <1>3, <1>6, PaidIs
  <2>2. CASE ~(major /\ gold)
    <3>1. paid = full
      BY <2>2, <1>13
    <3>2. Calm(full, full)
      BY DEF Calm
    <3> QED
      BY <3>1, <3>2, <1>6
  <2> QED
    BY <2>1, <2>2
<1>9. Calm(paid, v)
  BY <1>7, <1>8, CalmTwice
<1>10. body.short => paid.short
  BY <1>6, <1>8 DEF Calm
<1>11. major => paid.carrying[c] = {}
  BY <1>6, <1>8 DEF Calm
<1>14. /\ k \in Obj /\ (paid.short \/ k \notin L)
       /\ Sound(paid, L \cup {k}, C) /\ Calm(paid, v)
       /\ paid.short \/ paid.type[k] = "CORPSE"
       /\ major => paid.carrying[c] = {}
  BY <1>1, <1>5, <1>8, <1>9, <1>10, <1>11
<1> QED
  BY <1>0, <1>14 DEF k, Corpse, GaveUpAll

LEMMA PieceIs ==
  ASSUME NEW v, NEW L \in SUBSET Obj, NEW C, Sound(v, L, C), NEW c \in Body, v.room[c] # NOWHERE,
         NEW parts \in SUBSET Slot, NEW major \in BOOLEAN, NEW broken \in SUBSET Slot, NEW gold \in BOOLEAN
  PROVE  LET u == make_p_corpse(v, c, parts, major, broken, gold)
         IN  /\ Sound(u, L, C) /\ Calm(u, v)
             /\ Without(u, c, parts)
             /\ major => u.carrying[c] = {}
<1> DEFINE k == NewOne(v)
           body == Made(v, "CORPSE")
           full == IF major THEN GivenUp(body, c, k) ELSE body
           paid == IF major /\ gold THEN obj_to_obj(create_money(full), {NewOne(full)}, k) ELSE full
           lost == IF c \in Pc THEN Equipped(paid, {c}, parts \cap broken) ELSE {}
           E == Equipped(paid, {c}, parts)
           kept == E \ lost
           worn == unequip(paid, {c}, parts)
           laid == obj_to_obj(worn, kept, k)
           r == v.room[c]
           all == Melted(laid, lost, r)
           u == obj_to_room(all, {k}, r)
           L1 == L \cup {k}
           L2 == L1 \cup E
           L3 == L2 \ kept
           L4 == L3 \ lost
<1>1. u = make_p_corpse(v, c, parts, major, broken, gold)
  BY DEF make_p_corpse
<1>2. r \in Chamber
  <2>1. v.room \in [Body -> Chamber \cup {NOWHERE}]
    BY Fields DEF Sound
  <2> QED
    BY <2>1
<1>3. /\ k \in Obj /\ (paid.short \/ k \notin L)
      /\ Sound(paid, L1, C) /\ Calm(paid, v)
      /\ paid.short \/ paid.type[k] = "CORPSE"
      /\ major => paid.carrying[c] = {}
  <2> DEFINE x == Filled(v, c, major, gold)
  <2>1. k \in Obj /\ (x.short \/ k \notin L)
    BY FilledIs
  <2>2. Sound(x, L1, C)
    BY FilledIs
  <2>3. Calm(x, v)
    BY FilledIs
  <2>4. Corpse(x, k)
    BY FilledIs
  <2>5. GaveUpAll(x, c, major)
    BY FilledIs
  <2>6. paid = x
    BY DEF Filled
  <2> HIDE DEF x, paid
  <2> QED
    BY <2>1, <2>2, <2>3, <2>4, <2>5, <2>6 DEF Corpse, GaveUpAll
<1> HIDE DEF k, body, full, paid, r
<1>4. {c} \in SUBSET Body /\ L1 \in SUBSET Obj /\ paid \in Things
  BY <1>3 DEF Sound
<1>5. E \in SUBSET Obj /\ lost \subseteq E
  <2>1. E \in SUBSET Obj
        /\ \A o : o \in E <=> o # NIL /\ \E d \in {c}, p \in parts : paid.equipment[d][p] = o
    BY <1>4, EquippedIs
  <2>2. \A o : o \in Equipped(paid, {c}, parts \cap broken)
                 <=> o # NIL /\ \E d \in {c}, p \in parts \cap broken : paid.equipment[d][p] = o
    BY <1>4, EquippedIs
  <2>3. \A o \in Equipped(paid, {c}, parts \cap broken) : o \in E
    BY <2>1, <2>2
  <2> QED
    BY <2>1, <2>3
<1>6. Sound(worn, L2, C) /\ Alike(worn, paid, {"equiped_by", "equipment"})
  BY <1>3, <1>4, Unequip
<1>7. Calm(worn, paid) /\ \A p \in parts : worn.equipment[c][p] = NIL
  <2>1. Calm(worn, paid)
    BY <1>3, <1>4, Doffed
  <2>2. Bared(worn, paid, {c}, parts)
    BY <1>3, <1>4, Unequip
  <2> QED
    BY <2>1, <2>2 DEF Bared
<1>8. paid.short \/ E \cap L1 = {}
  BY <1>3, <1>4, Undressed
<1> HIDE DEF worn, E, lost
<1>9. worn.short = paid.short /\ worn.type = paid.type
  BY <1>6 DEF Alike, Names
<1>10. L2 \in SUBSET Obj /\ kept \in SUBSET L2 /\ k \in L2 /\ lost \in SUBSET Obj
  BY <1>4, <1>5
<1>11. worn.short \/ (worn.type[k] \in {"CONTAINER", "CORPSE"} /\ worn.in_obj[k] = NIL /\ k \notin kept)
  <2>1. worn.short \/ worn.in_obj[k] = NIL
    BY <1>6, <1>10, LooseIs
  <2>2. worn.short \/ k \notin kept
    BY <1>8, <1>9
  <2> QED
    BY <2>1, <2>2, <1>3, <1>9
<1>12. Sound(laid, L3, C) /\ Calm(laid, worn)
  <2> HIDE DEF kept, L2
  <2> QED
    BY <1>3, <1>6, <1>10, <1>11, IntoLoose
<1> HIDE DEF laid
<1>13. L3 \in SUBSET Obj /\ (\A o \in lost : o \in L3)
  BY <1>5, <1>10
<1>14. laid.short \/ \A o \in lost : laid.equiped_by[o] = NIL
  <2> HIDE DEF L3
  <2> QED
    BY <1>12, <1>13, LooseIs
<1>15. Sound(all, L4, C) /\ Calm(all, laid)
  <2> HIDE DEF L3
  <2> QED
    BY <1>2, <1>10, <1>12, <1>13, <1>14, MeltedIs
<1> HIDE DEF all
<1>16. Calm(laid, v)
  BY <1>3, <1>7, <1>12, CalmTwice
<1>17. Calm(all, v)
  BY <1>15, <1>16, CalmTwice
<1>18. paid.short => all.short
  BY <1>7, <1>12, <1>15 DEF Calm
<1>19. paid.short \/ (L4 = L1 /\ L1 \ {k} = L)
  BY <1>3, <1>5, <1>8
<1>20. Sound(all, L1, C)
  <2> HIDE DEF L4, L1
  <2> QED
    BY <1>15, <1>18, <1>19, SoundFor
<1>21. {k} \in SUBSET L1
  OBVIOUS
<1>22. Sound(u, L1 \ {k}, C) /\ Calm(u, all)
  <2> HIDE DEF L1
  <2> QED
    BY <1>2, <1>4, <1>20, <1>21, Merged
<1> HIDE DEF u
<1>23. paid.short => u.short
  BY <1>18, <1>22 DEF Calm
<1>24. Sound(u, L, C)
  BY <1>19, <1>22, <1>23, SoundFor
<1>25. Calm(u, v)
  BY <1>17, <1>22, CalmTwice
<1>26. Calm(u, worn)
  BY <1>12, <1>15, <1>22, CalmTwice
<1>27. Without(u, c, parts)
  BY <1>7, <1>26 DEF Calm, Without
<1>28. major => u.carrying[c] = {}
  BY <1>3, <1>7, <1>26 DEF Calm
<1> QED
  BY <1>1, <1>24, <1>25, <1>27, <1>28

(***************************************************************************)
(* The steps.  Before and after each, nothing is loose and every count is  *)
(* true: what one primitive takes off, the next ones put somewhere.        *)
(***************************************************************************)
Right(v) == Sound(v, {}, {})
Loose(v, S) == S \in SUBSET Obj /\ Sound(v, S, {})

LEMMA RoomIs ==
  ASSUME NEW v, NEW L, NEW C, Sound(v, L, C), NEW c \in Body, v.room[c] # NOWHERE
  PROVE  v.room[c] \in Chamber
<1>1. v.room \in [Body -> Chamber \cup {NOWHERE}]
  BY Fields DEF Sound
<1> QED
  BY <1>1

LEMMA CarriedIs ==
  ASSUME NEW v, NEW L, NEW C, Sound(v, L, C), NEW c \in Body, NEW S \in SUBSET v.carrying[c]
  PROVE  /\ S \in SUBSET Obj
         /\ v.short \/ \A o \in S : v.carried_by[o] = c /\ v.carried_by[o] # NIL /\ v.equiped_by[o] = NIL
<1>1. v.carrying \in [Body -> SUBSET Obj]
  BY Fields DEF Sound
<1>2. S \in SUBSET Obj
  BY <1>1
<1> SUFFICES ASSUME ~v.short, NEW o \in S
             PROVE  v.carried_by[o] = c /\ v.carried_by[o] # NIL /\ v.equiped_by[o] = NIL
  BY <1>2
<1>3. v.carried_by[o] = c /\ v.carried_by[o] # NIL
  BY <1>1, ThingsAssumption DEF Sound, Orderly, Filed, Agree
<1> QED
  BY <1>2, <1>3 DEF Sound, Orderly, Apart

LEMMA LyingIs ==
  ASSUME NEW v, NEW L, NEW C, Sound(v, L, C), NEW r \in Chamber, NEW S \in SUBSET v.contents[r]
  PROVE  /\ S \in SUBSET Obj
         /\ v.short \/ \A o \in S : v.in_room[o] # NOWHERE /\ v.carried_by[o] = NIL /\ v.equiped_by[o] = NIL
<1>1. v.contents \in [Chamber -> SUBSET Obj]
  BY Fields DEF Sound
<1>2. S \in SUBSET Obj
  BY <1>1
<1> SUFFICES ASSUME ~v.short, NEW o \in S
             PROVE  v.in_room[o] # NOWHERE /\ v.carried_by[o] = NIL /\ v.equiped_by[o] = NIL
  BY <1>2
<1>3. v.in_room[o] = r /\ v.in_room[o] # NOWHERE
  BY <1>1, ThingsAssumption DEF Sound, Orderly, Filed, Agree
<1> QED
  BY <1>2, <1>3 DEF Sound, Orderly, Apart

LEMMA BoxedIs ==
  ASSUME NEW v, NEW L, NEW C, Sound(v, L, C), NEW boxes \in SUBSET Obj,
         NEW S \in SUBSET UNION {v.contains[x] : x \in boxes}
  PROVE  S \in SUBSET Obj /\ (v.short \/ \A o \in S : v.in_obj[o] # NIL)
<1>1. v.contains \in [Obj -> SUBSET Obj]
  BY Fields DEF Sound
<1>2. S \in SUBSET Obj
  BY <1>1
<1> SUFFICES ASSUME ~v.short, NEW o \in S
             PROVE  v.in_obj[o] # NIL
  BY <1>2
<1>3. PICK x \in boxes : o \in v.contains[x]
  OBVIOUS
<1>4. v.in_obj[o] = x
  BY <1>1, <1>2, <1>3 DEF Sound, Orderly, Filed, Agree
<1> QED
  BY <1>4, ThingsAssumption

LEMMA Dropped ==
  ASSUME NEW v, Right(v), NEW c \in Body, NEW S \in SUBSET v.carrying[c]
  PROVE  LET u == obj_from_char(v, S) IN Loose(u, S) /\ Alike(u, v, {"carrying", "carry_items", "carried_by"})
<1>1. S \in SUBSET Obj /\ (v.short \/ \A o \in S : v.carried_by[o] # NIL)
  BY CarriedIs DEF Right
<1>2. Sound(obj_from_char(v, S), {} \cup S, {}) /\ {} \cup S = S
  BY <1>1, FromChar DEF Right
<1>3. Alike(obj_from_char(v, S), v, {"carrying", "carry_items", "carried_by"})
  BY <1>1, FromChar DEF Right
<1> QED
  BY <1>1, <1>2, <1>3 DEF Loose

LEMMA Down ==
  ASSUME NEW v, NEW S, Loose(v, S), NEW r \in Chamber
  PROVE  Right(obj_to_room(v, S, r)) /\ Calm(obj_to_room(v, S, r), v)
<1>1. S \in SUBSET S /\ S \ S = {}
  OBVIOUS
<1> QED
  BY <1>1, Merged DEF Loose, Right

LEMMA Handed ==
  ASSUME NEW v, NEW S, Loose(v, S), NEW c \in Body, v.room[c] # NOWHERE
  PROVE  LET u == obj_to_char(v, S, c)
         IN  /\ Right(u) /\ Alike(u, v, {"carrying", "carry_items", "carried_by", "in_room"})
             /\ \A o \in Obj : u.carried_by[o] = IF o \in S THEN c ELSE v.carried_by[o]
<1>1. S \in SUBSET S /\ S \ S = {}
  OBVIOUS
<1>2. Sound(obj_to_char(v, S, c), S \ S, {})
  BY <1>1, ToChar DEF Loose
<1>3. Alike(obj_to_char(v, S, c), v, {"carrying", "carry_items", "carried_by", "in_room"})
  BY <1>1, ToChar DEF Loose
<1>4. \A o \in Obj : obj_to_char(v, S, c).carried_by[o] = IF o \in S THEN c ELSE v.carried_by[o]
  BY <1>1, ToChar DEF Loose
<1> QED
  BY <1>1, <1>2, <1>3, <1>4 DEF Right

LEMMA UsedUp ==
  ASSUME NEW v, NEW S, Loose(v, S)
  PROVE  Right(extract_obj(v, S)) /\ Calm(extract_obj(v, S), v)
<1>1. v.short \/ \A o \in S : v.equiped_by[o] = NIL
  BY LooseIs DEF Loose
<1>2. S \ S = {}
  OBVIOUS
<1>3. Sound(extract_obj(v, S), S \ S, {})
  BY <1>1, Extract DEF Loose
<1>4. Calm(extract_obj(v, S), v)
  BY <1>1, Extract DEF Loose
<1> QED
  BY <1>2, <1>3, <1>4 DEF Right

LEMMA Wiped ==
  ASSUME NEW v, Right(v), NEW S \in SUBSET Obj, v.short \/ \A o \in S : v.equiped_by[o] = NIL
  PROVE  /\ Right(extract_obj(v, S)) /\ Calm(extract_obj(v, S), v)
         /\ v.short \/ \A c \in Body : extract_obj(v, S).carrying[c] = v.carrying[c] \ S
<1>1. {} \ S = {}
  OBVIOUS
<1>2. Sound(extract_obj(v, S), {} \ S, {})
  BY Extract DEF Right
<1>3. Calm(extract_obj(v, S), v)
  BY Extract DEF Right
<1>4. v.short \/ \A c \in Body : extract_obj(v, S).carrying[c] = v.carrying[c] \ S
  BY Extract DEF Right
<1> QED
  BY <1>1, <1>2, <1>3, <1>4 DEF Right

LEMMA WipedCarried ==
  ASSUME NEW v, Right(v), NEW c \in Body, NEW S \in SUBSET v.carrying[c]
  PROVE  Right(extract_obj(v, S)) /\ Calm(extract_obj(v, S), v)
<1>1. S \in SUBSET Obj /\ (v.short \/ \A o \in S : v.equiped_by[o] = NIL)
  BY CarriedIs DEF Right
<1> QED
  BY <1>1, Wiped

LEMMA GetIs ==
  ASSUME NEW v, NEW S, Loose(v, S), NEW c \in Body, v.room[c] # NOWHERE
  PROVE  Right(get(v, c, S))
<1> DEFINE coins == Coins(v, S)
           had == obj_to_char(v, S, c)
           out == obj_from_char(had, coins)
<1>1. coins \in SUBSET S /\ coins \in SUBSET Obj
  BY DEF Coins, Loose
<1>2. Right(had) /\ \A o \in Obj : had.carried_by[o] = IF o \in S THEN c ELSE v.carried_by[o]
  BY Handed
<1> HIDE DEF had, coins
<1>3. had.short \/ \A o \in coins : had.carried_by[o] # NIL
  BY <1>1, <1>2, ThingsAssumption
<1>4. Sound(out, {} \cup coins, {}) /\ {} \cup coins = coins
  BY <1>1, <1>2, <1>3, FromChar DEF Right
<1> HIDE DEF out
<1>5. Right(extract_obj(out, coins))
  BY <1>1, <1>4, UsedUp DEF Loose
<1> QED
  BY <1>5 DEF get, out, had, coins

-----------------------------------------------------------------------------
(* The commands, one after the other. *)
LEMMA GetStep ==
  ASSUME Right(w), NEW c \in Body, NEW S, get_objects(c, S)
  PROVE  Right(w')
<1>1. w.room[c] \in Chamber
  BY RoomIs DEF get_objects, Present, Right
<1>2. CASE S \subseteq Lying(c) /\ w' = get(obj_from_room(w, S), c, S)
  <2>1. S \in SUBSET Obj /\ (w.short \/ \A o \in S : w.in_room[o] # NOWHERE)
    BY <1>1, <1>2, LyingIs DEF Lying, Right
  <2>2. Sound(obj_from_room(w, S), {} \cup S, {}) /\ {} \cup S = S
    BY <2>1, FromRoom DEF Right
  <2>3. Alike(obj_from_room(w, S), w, {"contents", "in_room"})
    BY <2>1, FromRoom DEF Right
  <2>4. obj_from_room(w, S).room = w.room
    BY <2>3 DEF Alike, Names
  <2> QED
    BY <1>1, <1>2, <2>1, <2>2, <2>4, GetIs, ThingsAssumption DEF Loose
<1>3. CASE /\ S \subseteq UNION {w.contains[sub] : sub \in Lying(c) \cup w.carrying[c]}
           /\ w' = get(obj_from_obj(w, S), c, S)
  <2>1. Lying(c) \cup w.carrying[c] \in SUBSET Obj
    <3>1. w.contents \in [Chamber -> SUBSET Obj] /\ w.carrying \in [Body -> SUBSET Obj]
      BY Fields DEF Right, Sound
    <3> QED
      BY <1>1, <3>1 DEF Lying
  <2>2. S \in SUBSET Obj /\ (w.short \/ \A o \in S : w.in_obj[o] # NIL)
    BY <1>3, <2>1, BoxedIs DEF Right
  <2>3. Sound(obj_from_obj(w, S), {} \cup S, {}) /\ {} \cup S = S
    BY <2>2, FromBox DEF Right
  <2>4. Alike(obj_from_obj(w, S), w, {"contains", "in_obj"})
    BY <2>2, FromBox DEF Right
  <2>5. obj_from_obj(w, S).room = w.room
    BY <2>4 DEF Alike, Names
  <2> QED
    BY <1>1, <1>3, <2>2, <2>3, <2>5, GetIs, ThingsAssumption DEF Loose
<1> QED
  BY <1>2, <1>3 DEF get_objects

LEMMA DropStep ==
  ASSUME Right(w), NEW c \in Body, NEW S, do_drop(c, S)
  PROVE  Right(w')
<1>1. w.room[c] \in Chamber /\ S \in SUBSET w.carrying[c]
  BY RoomIs DEF do_drop, Present, Right
<1>2. Loose(obj_from_char(w, S), S)
  BY <1>1, Dropped
<1> QED
  BY <1>1, <1>2, Down DEF do_drop

LEMMA NewLoose ==
  ASSUME NEW v, Right(v), NEW kind \in Loaded, NEW lights \in BOOLEAN
  PROVE  LET u == load_a_object(v, kind, lights)
         IN Loose(u, {NewOne(v)}) /\ Alike(u, v, {"type", "short", "lit"}) /\ Calm(u, v)
<1>1. Sound(load_a_object(v, kind, lights), {} \cup {NewOne(v)}, {}) /\ {} \cup {NewOne(v)} = {NewOne(v)}
  BY LoadIs DEF Right
<1>2. Alike(load_a_object(v, kind, lights), v, {"type", "short", "lit"})
      /\ (v.short => load_a_object(v, kind, lights).short)
  BY LoadIs DEF Right
<1>3. Calm(load_a_object(v, kind, lights), v)
  BY <1>2, CalmMade
<1> QED
  BY <1>1, <1>2, <1>3, NewIs DEF Loose

LEMMA CoinsStep ==
  ASSUME Right(w), NEW c \in Body, drop_coins(c)
  PROVE  Right(w')
<1>1. w.room[c] \in Chamber
  BY RoomIs DEF drop_coins, Present, Right
<1>2. Sound(create_money(w), {} \cup {NewOne(w)}, {}) /\ {} \cup {NewOne(w)} = {NewOne(w)}
  BY MadeIs DEF create_money, Right, Kind
<1>3. Loose(create_money(w), {NewOne(w)})
  BY <1>2, NewIs DEF Loose
<1> QED
  BY <1>1, <1>3, Down DEF drop_coins

(* The container is not in anything, and not put into itself. *)
LEMMA PutStep ==
  ASSUME Right(w), NEW c \in Body, NEW S, NEW sub \in Obj, do_put(c, S, sub)
  PROVE  Right(w')
<1> DEFINE a == obj_from_char(w, S)
<1>1. w.room[c] \in Chamber /\ S \in SUBSET w.carrying[c] /\ sub \notin S
  BY RoomIs DEF do_put, Present, Right
<1>2. Loose(a, S) /\ Alike(a, w, {"carrying", "carry_items", "carried_by"})
  BY <1>1, Dropped
<1>3. w' = obj_to_obj(a, S, sub)
  BY DEF do_put
<1> HIDE DEF a
<1>4. a.type = w.type /\ a.in_obj = w.in_obj /\ a.short = w.short
  BY <1>2 DEF Alike, Names
<1>5. w.short \/ w.in_obj[sub] = NIL
  <2> SUFFICES ASSUME ~w.short
               PROVE  w.in_obj[sub] = NIL
    OBVIOUS
  <2>1. Apart(w)
    BY DEF Right, Sound, Orderly
  <2>2. CASE sub \in w.carrying[c]
    <3>1. {sub} \in SUBSET w.carrying[c]
      BY <2>2
    <3>2. w.carried_by[sub] # NIL
      BY <3>1, CarriedIs DEF Right
    <3> QED
      BY <2>1, <3>2 DEF Apart
  <2>3. CASE sub \in Lying(c)
    <3>1. {sub} \in SUBSET w.contents[w.room[c]]
      BY <2>3 DEF Lying
    <3>2. w.in_room[sub] # NOWHERE
      BY <1>1, <3>1, LyingIs DEF Right
    <3> QED
      BY <2>1, <3>2 DEF Apart
  <2> QED
    BY <2>2, <2>3 DEF do_put
<1>6. a.short \/ (a.type[sub] \in {"CONTAINER", "CORPSE"} /\ a.in_obj[sub] = NIL /\ sub \notin S)
  BY <1>1, <1>4, <1>5 DEF do_put
<1>7. S \in SUBSET S /\ S \in SUBSET Obj /\ S \ S = {} /\ Sound(a, S, {})
  BY <1>2 DEF Loose
<1>8. Sound(obj_to_obj(a, S, sub), S \ S, {})
  BY <1>6, <1>7, IntoLoose
<1> QED
  BY <1>3, <1>7, <1>8 DEF Right

LEMMA PassedOn ==
  ASSUME NEW v, Right(v), NEW c \in Body, NEW S \in SUBSET v.carrying[c], NEW vict \in Body,
         v.room[vict] # NOWHERE
  PROVE  Right(obj_to_char(obj_from_char(v, S), S, vict))
<1> DEFINE a == obj_from_char(v, S)
<1>1. Loose(a, S) /\ Alike(a, v, {"carrying", "carry_items", "carried_by"})
  BY Dropped
<1> HIDE DEF a
<1>2. a.room = v.room
  BY <1>1 DEF Alike, Names
<1> QED
  BY <1>1, <1>2, Handed DEF a

LEMMA GiveStep ==
  ASSUME Right(w), NEW c \in Body, NEW S, NEW vict \in Body, do_give(c, S, vict)
  PROVE  Right(w')
<1>1. w.room[vict] # NOWHERE /\ S \in SUBSET w.carrying[c]
  BY DEF do_give, Present
<1> QED
  BY <1>1, PassedOn DEF do_give

LEMMA StealStep ==
  ASSUME Right(w), NEW c \in Body, NEW o, NEW vict \in Body, do_steal(c, o, vict)
  PROVE  Right(w')
<1>1. w.room[c] # NOWHERE /\ {o} \in SUBSET w.carrying[vict]
  BY DEF do_steal, Present
<1> QED
  BY <1>1, PassedOn DEF do_steal

LEMMA JunkStep ==
  ASSUME Right(w), NEW c \in Body, NEW o, do_junk(c, o) \/ do_eat(c, o) \/ do_reload(c, o)
  PROVE  Right(w')
<1>1. {o} \in SUBSET w.carrying[c] /\ w' = extract_obj(w, {o})
  BY DEF do_junk, do_eat, do_reload
<1> QED
  BY <1>1, WipedCarried

LEMMA ThrowStep ==
  ASSUME Right(w), NEW c \in Body, NEW o, NEW vict \in Body, do_throw(c, o, vict)
  PROVE  Right(w')
<1> DEFINE a == obj_from_char(w, {o})
<1>1. w.room[c] \in Chamber /\ w.room[c] # NOWHERE /\ w.room[vict] # NOWHERE /\ {o} \in SUBSET w.carrying[c]
  BY RoomIs DEF do_throw, Present, Right
<1>2. Loose(a, {o}) /\ Alike(a, w, {"carrying", "carry_items", "carried_by"})
  BY <1>1, Dropped
<1>3. \/ w' = obj_to_room(a, {o}, w.room[c])
      \/ w' = obj_to_char(a, {o}, vict)
      \/ w' = extract_obj(a, {o})
  BY DEF do_throw, throw_object
<1> HIDE DEF a
<1>4. a.room = w.room
  BY <1>2 DEF Alike, Names
<1>5. CASE w' = obj_to_room(a, {o}, w.room[c])
  BY <1>1, <1>2, <1>5, Down
<1>6. CASE w' = obj_to_char(a, {o}, vict)
  BY <1>1, <1>2, <1>4, <1>6, Handed
<1>7. CASE w' = extract_obj(a, {o})
  BY <1>2, <1>7, UsedUp
<1> QED
  BY <1>3, <1>5, <1>6, <1>7

(* What is worn, one place or several. *)
LEMMA TakenOff ==
  ASSUME NEW v, Right(v), NEW c \in Body, NEW places \in SUBSET Slot
  PROVE  LET u == unequip(v, {c}, places)
         IN Loose(u, Equipped(v, {c}, places)) /\ Alike(u, v, {"equiped_by", "equipment"})
<1>1. {c} \in SUBSET Body /\ v \in Things
  BY DEF Right, Sound
<1>2. Equipped(v, {c}, places) \in SUBSET Obj
  BY <1>1, EquippedIs
<1>3. Sound(unequip(v, {c}, places), {} \cup Equipped(v, {c}, places), {})
  BY <1>1, Unequip DEF Right
<1>4. Alike(unequip(v, {c}, places), v, {"equiped_by", "equipment"})
  BY <1>1, Unequip DEF Right
<1>5. {} \cup Equipped(v, {c}, places) = Equipped(v, {c}, places)
  OBVIOUS
<1> QED
  BY <1>2, <1>3, <1>4, <1>5 DEF Loose

LEMMA TakenOne ==
  ASSUME NEW v, Right(v), NEW c \in Body, NEW p \in Slot, NEW o \in Obj, v.equipment[c][p] = o
  PROVE  LET u == unequip(v, {c}, {p})
         IN Loose(u, {o}) /\ Alike(u, v, {"equiped_by", "equipment"})
<1>1. {c} \in SUBSET Body /\ {p} \in SUBSET Slot /\ v \in Things
  BY DEF Right, Sound
<1>2. \A x : x \in Equipped(v, {c}, {p}) <=> x # NIL /\ \E d \in {c}, q \in {p} : v.equipment[d][q] = x
  BY <1>1, EquippedIs
<1>3. Equipped(v, {c}, {p}) = {o}
  BY <1>2, ThingsAssumption
<1>4. Loose(unequip(v, {c}, {p}), Equipped(v, {c}, {p})) /\ Alike(unequip(v, {c}, {p}), v, {"equiped_by", "equipment"})
  BY <1>1, TakenOff
<1> QED
  BY <1>3, <1>4

LEMMA UnwearIs ==
  ASSUME NEW v, Right(v), NEW c \in Body, v.room[c] # NOWHERE, NEW places \in SUBSET Slot
  PROVE  LET u == unwear(v, c, places)
         IN  /\ Right(u) /\ u.type = v.type /\ u.room = v.room /\ u.short = v.short
             /\ \A o \in Obj : v.carried_by[o] = c => u.carried_by[o] = c
<1> DEFINE E == Equipped(v, {c}, places)
           a == unequip(v, {c}, places)
           off == obj_to_char(a, E, c)
<1> SUFFICES ASSUME NEW u, u = unwear(v, c, places)
             PROVE  /\ Right(u) /\ u.type = v.type /\ u.room = v.room /\ u.short = v.short
                    /\ \A o \in Obj : v.carried_by[o] = c => u.carried_by[o] = c
  OBVIOUS
<1>1. Loose(a, E) /\ Alike(a, v, {"equiped_by", "equipment"})
  BY TakenOff
<1>2. u = off \/ u = Light(off, v.room[c], -1)
  BY DEF unwear
<1> HIDE DEF a, E
<1>3. a.type = v.type /\ a.room = v.room /\ a.short = v.short /\ a.carried_by = v.carried_by
  BY <1>1 DEF Alike, Names
<1>4. a.room[c] # NOWHERE
  BY <1>3
<1>5. Right(off) /\ Alike(off, a, {"carrying", "carry_items", "carried_by", "in_room"})
  BY <1>1, <1>4, Handed
<1>6. \A o \in Obj : off.carried_by[o] = IF o \in E THEN c ELSE a.carried_by[o]
  BY <1>1, <1>4, Handed
<1> HIDE DEF off
<1>7. off.type = v.type /\ off.room = v.room /\ off.short = v.short
  BY <1>3, <1>5 DEF Alike, Names
<1>8. \A o \in Obj : v.carried_by[o] = c => off.carried_by[o] = c
  BY <1>3, <1>6
<1>9. CASE u = off
  BY <1>5, <1>7, <1>8, <1>9
<1>10. CASE u = Light(off, v.room[c], -1)
  <2>1. v.room[c] \in Chamber /\ -1 \in Int
    BY RoomIs DEF Right
  <2>2. Sound(u, {}, {}) /\ Alike(u, off, {"light"})
    BY <2>1, <1>5, <1>10, LightIs DEF Right
  <2>3. u.type = off.type /\ u.room = off.room /\ u.short = off.short /\ u.carried_by = off.carried_by
    BY <2>2 DEF Alike, Names
  <2> QED
    BY <2>2, <2>3, <1>7, <1>8 DEF Right
<1> QED
  BY <1>2, <1>9, <1>10

LEMMA WearIs ==
  ASSUME NEW v, Right(v), NEW c \in Body, v.room[c] # NOWHERE, NEW o \in Obj, NEW p \in Slot,
         NEW zapped \in BOOLEAN, v.short \/ (v.carried_by[o] = c /\ v.type[o] \in Loaded)
  PROVE  Right(wear(v, c, o, p, zapped))
<1> DEFINE a == obj_from_char(v, {o})
           on == equip(a, c, o, p, zapped)
           u == wear(v, c, o, p, zapped)
<1>1. CASE v.equipment[c][p] # NIL
  BY <1>1 DEF wear
<1>2. CASE v.equipment[c][p] = NIL
  <2>1. u = on \/ u = Light(on, v.room[c], 1)
    BY <1>2 DEF wear
  <2> HIDE DEF u
  <2>2. {o} \in SUBSET Obj /\ (v.short \/ \A x \in {o} : v.carried_by[x] # NIL)
    BY ThingsAssumption
  <2>3. Sound(a, {} \cup {o}, {}) /\ {} \cup {o} = {o}
    BY <2>2, FromChar DEF Right
  <2>4. Alike(a, v, {"carrying", "carry_items", "carried_by"})
    BY <2>2, FromChar DEF Right
  <2> HIDE DEF a
  <2>5. a.type = v.type /\ a.room = v.room /\ a.short = v.short /\ a.equipment = v.equipment
    BY <2>4 DEF Alike, Names
  <2>6. a.short \/ (/\ a.equipment[c][p] = NIL /\ a.type[o] \in Loaded
                    /\ a.room[c] # NOWHERE \/ c \in {})
    BY <1>2, <2>5
  <2>7. o \in {o} /\ Sound(a, {o}, {}) /\ {o} \ {o} = {}
    BY <2>3
  <2>8. Sound(on, {o} \ {o}, {})
    BY <2>2, <2>6, <2>7, EquipIs
  <2>9. Sound(on, {}, {})
    BY <2>7, <2>8
  <2> HIDE DEF on
  <2>10. CASE u = on
    BY <2>9, <2>10 DEF Right, u
  <2>11. CASE u = Light(on, v.room[c], 1)
    <3>1. v.room[c] \in Chamber /\ 1 \in Int
      BY RoomIs DEF Right
    <3> QED
      BY <3>1, <2>9, <2>11, LightIs DEF Right, u
  <2> QED
    BY <2>1, <2>10, <2>11
<1> QED
  BY <1>1, <1>2

LEMMA ExchangedIs ==
  ASSUME Right(w), NEW c \in Body, Present(c), NEW o, o \in w.carrying[c], w.type[o] \in Loaded,
         NEW p \in Slot, NEW zapped \in BOOLEAN
  PROVE  Right(wear(w, c, o, p, zapped)) /\ Right(Exchanged(c, o, p, zapped))
<1> DEFINE a == unwear(w, c, {p})
<1>1. {o} \in SUBSET w.carrying[c] /\ w.room[c] # NOWHERE /\ {p} \in SUBSET Slot
  BY DEF Present
<1>2. o \in Obj /\ (w.short \/ w.carried_by[o] = c)
  BY <1>1, CarriedIs DEF Right
<1>3. Right(wear(w, c, o, p, zapped))
  BY <1>1, <1>2, WearIs
<1>4. Right(a) /\ a.type = w.type /\ a.room = w.room /\ a.short = w.short
  BY <1>1, UnwearIs
<1>5. \A x \in Obj : w.carried_by[x] = c => a.carried_by[x] = c
  BY <1>1, UnwearIs
<1> HIDE DEF a
<1>6. Right(wear(a, c, o, p, zapped))
  BY <1>1, <1>2, <1>4, <1>5, WearIs
<1> QED
  BY <1>3, <1>6 DEF Exchanged, a

LEMMA WearStep ==
  ASSUME Right(w), NEW c \in Body, NEW o, NEW p \in Slot, NEW zapped \in BOOLEAN,
         do_wear(c, o, p, zapped) \/ do_wield(c, o, p, zapped)
  PROVE  Right(w')
<1>1. Present(c) /\ o \in w.carrying[c]
  BY DEF do_wear, do_wield
<1>2. w.type[o] \in Loaded
  <2>1. CASE do_wear(c, o, p, zapped)
    <3>1. p \in Fitting(w.type[o])
      BY <2>1 DEF do_wear, where_wear
    <3> QED
      BY <3>1 DEF Fitting, Loaded
  <2>2. CASE do_wield(c, o, p, zapped)
    BY <2>2 DEF do_wield, Loaded
  <2> QED
    BY <2>1, <2>2
<1>3. Right(wear(w, c, o, p, zapped)) /\ Right(Exchanged(c, o, p, zapped))
  BY <1>1, <1>2, ExchangedIs
<1> QED
  BY <1>3 DEF do_wear, do_wield

LEMMA GrabStep ==
  ASSUME Right(w), NEW c \in Body, NEW o, NEW zapped \in BOOLEAN, do_grab(c, o, zapped)
  PROVE  Right(w')
<1>1. Present(c) /\ o \in w.carrying[c] /\ w.type[o] \in Loaded /\ "light" \in Slot
  BY ThingsAssumption DEF do_grab, Loaded
<1>2. Right(Exchanged(c, o, "light", zapped))
  BY <1>1, ExchangedIs
<1> QED
  BY <1>2 DEF do_grab

LEMMA RemoveStep ==
  ASSUME Right(w), NEW c \in Body, NEW places \in SUBSET Slot, do_remove(c, places)
  PROVE  Right(w')
<1>1. w.room[c] # NOWHERE /\ w' = unwear(w, c, places)
  BY DEF do_remove, Present
<1> QED
  BY <1>1, UnwearIs

LEMMA BurnStep ==
  ASSUME Right(w), NEW c \in Body, update_char_objects(c)
  PROVE  Right(w')
<1> DEFINE now == w.lit \ {w.equipment[c]["light"]}
<1>1. w \in Things /\ now \in SUBSET Obj
  BY Fields DEF Right, Sound
<1>2. w' = [w EXCEPT !.lit = now]
  BY DEF update_char_objects
<1> HIDE DEF now
<1>3. w' \in Things /\ Alike(w', w, {"lit", "light"})
  BY <1>1, <1>2 DEF Things, Alike, Names
<1> QED
  BY <1>3, LightOnly DEF Right

LEMMA StoreStep ==
  ASSUME Right(w), NEW c \in Body, NEW zapped \in SUBSET Slot, char_to_store(c, zapped)
  PROVE  Right(w')
<1>1. w.room[c] \in Chamber /\ {c} \in SUBSET Body
  BY RoomIs DEF char_to_store, Present, Right
<1>2. Sound(Stripped(w, {c}, zapped, w.room[c]), {}, {})
  BY <1>1, StrippedIs DEF Right
<1> QED
  BY <1>2 DEF char_to_store, Right

LEMMA QuaffStep ==
  ASSUME Right(w), NEW c \in Body, NEW o \in Obj, do_quaff(c, o) \/ do_recite(c, o)
  PROVE  Right(w')
<1>1. CASE o \in w.carrying[c] /\ w' = extract_obj(w, {o})
  <2>1. {o} \in SUBSET w.carrying[c]
    BY <1>1
  <2> QED
    BY <2>1, <1>1, WipedCarried
<1>2. ASSUME NEW p \in Slot, w.equipment[c][p] = o, w' = extract_obj(unequip(w, {c}, {p}), {o})
      PROVE  Right(w')
  <2>1. Loose(unequip(w, {c}, {p}), {o})
    BY <1>2, TakenOne
  <2> QED
    BY <2>1, <1>2, UsedUp
<1> QED
  BY <1>1, <1>2 DEF do_quaff, do_recite

(* What was worn is in the hands now. *)
LEMMA HeldUp ==
  ASSUME NEW v, Right(v), NEW c \in Body, NEW vict \in Body, v.room[c] # NOWHERE, NEW p \in Slot, NEW o \in Obj,
         v.equipment[vict][p] = o
  PROVE  LET u == obj_to_char(unequip(v, {vict}, {p}), {o}, c) IN Right(u) /\ u.carried_by[o] = c
<1> DEFINE a == unequip(v, {vict}, {p})
<1>1. Loose(a, {o}) /\ Alike(a, v, {"equiped_by", "equipment"})
  BY TakenOne
<1> HIDE DEF a
<1>2. a.room = v.room
  BY <1>1 DEF Alike, Names
<1>3. Right(obj_to_char(a, {o}, c))
  BY <1>1, <1>2, Handed
<1>4. \A x \in Obj : obj_to_char(a, {o}, c).carried_by[x] = IF x \in {o} THEN c ELSE a.carried_by[x]
  BY <1>1, <1>2, Handed
<1> QED
  BY <1>3, <1>4 DEF a

LEMMA RechargeStep ==
  ASSUME Right(w), NEW c \in Body, NEW o \in Obj, spell_recharger(c, o)
  PROVE  Right(w')
<1>1. CASE o \in w.carrying[c] /\ w' = extract_obj(w, {o})
  <2>1. {o} \in SUBSET w.carrying[c]
    BY <1>1
  <2> QED
    BY <2>1, <1>1, WipedCarried
<1>2. ASSUME NEW p \in Slot, w.equipment[c][p] = o,
             w' = extract_obj(obj_to_char(unequip(w, {c}, {p}), {o}, c), {o})
      PROVE  Right(w')
  <2> DEFINE a == obj_to_char(unequip(w, {c}, {p}), {o}, c)
  <2>3. w.room[c] # NOWHERE
    BY DEF spell_recharger, Present
  <2>4. Right(a)
    BY <1>2, <2>3, HeldUp
  <2>5. a.carried_by[o] = c
    BY <1>2, <2>3, HeldUp
  <2>1. Right(a) /\ a.carried_by[o] = c
    BY <2>4, <2>5
  <2> HIDE DEF a
  <2>2. {o} \in SUBSET Obj /\ (a.short \/ \A x \in {o} : a.equiped_by[x] = NIL)
    BY <2>1, ThingsAssumption DEF Right, Sound, Orderly, Apart
  <2>6. Right(extract_obj(a, {o}))
    BY <2>1, <2>2, Wiped
  <2> QED
    BY <2>6, <1>2 DEF a
<1> QED
  BY <1>1, <1>2 DEF spell_recharger

LEMMA BreathStep ==
  ASSUME Right(w), NEW vict \in Body, NEW S,
         spell_fire_breath(vict, S) \/ spell_frost_breath(vict, S) \/ spell_lightning_breath(vict, S)
  PROVE  Right(w')
<1>1. S \in SUBSET w.carrying[vict] /\ w' = extract_obj(w, S)
  BY DEF spell_fire_breath, spell_frost_breath, spell_lightning_breath, wipe_obj_list
<1> QED
  BY <1>1, WipedCarried

LEMMA GasStep ==
  ASSUME Right(w), NEW vict \in Body, NEW melt, spell_gas_breath(vict, melt)
  PROVE  Right(w')
<1>1. w.room[vict] \in Chamber /\ {melt} \in SUBSET w.carrying[vict]
  BY RoomIs DEF spell_gas_breath, Present, Right
<1>2. {melt} \in SUBSET Obj /\ (w.short \/ \A o \in {melt} : w.equiped_by[o] = NIL)
  BY <1>1, CarriedIs DEF Right
<1>3. Sound(Melted(w, {melt}, w.room[vict]), {} \ {melt}, {}) /\ {} \ {melt} = {}
  BY <1>1, <1>2, MeltedIs DEF Right
<1> QED
  BY <1>3 DEF spell_gas_breath, Right

LEMMA PunchStep ==
  ASSUME Right(w), NEW vict \in Body, NEW places \in SUBSET Slot, NEW S, mob_punch_drop(vict, places, S)
  PROVE  Right(w')
<1> DEFINE E == Equipped(w, {vict}, places)
           a == unequip(w, {vict}, places)
           b == obj_from_char(a, S)
<1>1. w.room[vict] \in Chamber /\ S \in SUBSET w.carrying[vict]
  BY RoomIs DEF mob_punch_drop, Present, Right
<1>2. Loose(a, E) /\ Alike(a, w, {"equiped_by", "equipment"})
  BY TakenOff
<1>3. w' = obj_to_room(b, E \cup S, w.room[vict])
  BY DEF mob_punch_drop
<1> HIDE DEF a, E
<1>4. a.carrying = w.carrying
  BY <1>2 DEF Alike, Names
<1>5. E \in SUBSET Obj /\ Sound(a, E, {}) /\ S \in SUBSET a.carrying[vict]
  BY <1>1, <1>2, <1>4 DEF Loose
<1>6. S \in SUBSET Obj /\ (a.short \/ \A o \in S : a.carried_by[o] # NIL)
  BY <1>5, CarriedIs
<1>7. Sound(b, E \cup S, {})
  BY <1>5, <1>6, FromChar
<1>8. Loose(b, E \cup S)
  BY <1>5, <1>6, <1>7 DEF Loose
<1> QED
  BY <1>1, <1>3, <1>8, Down

LEMMA FlickStep ==
  ASSUME Right(w), NEW c \in Body, NEW vict \in Body, NEW o \in Obj, do_flick(c, vict, o)
  PROVE  Right(w')
<1>1. w.room[c] # NOWHERE
  BY DEF do_flick, Present
<1>2. CASE o \in w.carrying[vict] /\ w' = obj_to_char(obj_from_char(w, {o}), {o}, c)
  <2>1. {o} \in SUBSET w.carrying[vict]
    BY <1>2
  <2> QED
    BY <2>1, <1>1, <1>2, PassedOn
<1>3. ASSUME NEW p \in Slot, w.equipment[vict][p] = o, w' = obj_to_char(unequip(w, {vict}, {p}), {o}, c)
      PROVE  Right(w')
  BY <1>1, <1>3, HeldUp
<1> QED
  BY <1>2, <1>3 DEF do_flick

LEMMA LoadStep ==
  ASSUME Right(w), NEW c \in Body, NEW kind \in Loaded, NEW lights \in BOOLEAN, do_load(c, kind, lights)
  PROVE  Right(w')
<1> DEFINE new == load_a_object(w, kind, lights)
<1>1. w.room[c] \in Chamber /\ w.room[c] # NOWHERE
  BY RoomIs DEF do_load, Present, Right
<1>2. Loose(new, {NewOne(w)}) /\ Alike(new, w, {"type", "short", "lit"})
  BY NewLoose
<1>3. w' = obj_to_char(new, {NewOne(w)}, c) \/ w' = obj_to_room(new, {NewOne(w)}, w.room[c])
  BY DEF do_load
<1> HIDE DEF new
<1>4. new.room = w.room
  BY <1>2 DEF Alike, Names
<1>5. CASE w' = obj_to_char(new, {NewOne(w)}, c)
  BY <1>1, <1>2, <1>4, <1>5, Handed
<1>6. CASE w' = obj_to_room(new, {NewOne(w)}, w.room[c])
  BY <1>1, <1>2, <1>6, Down
<1> QED
  BY <1>3, <1>5, <1>6

LEMMA PickedUp ==
  ASSUME NEW v, Right(v), NEW r \in Chamber, NEW S \in SUBSET v.contents[r]
  PROVE  Loose(obj_from_room(v, S), S) /\ Alike(obj_from_room(v, S), v, {"contents", "in_room"})
<1>1. S \in SUBSET Obj /\ (v.short \/ \A o \in S : v.in_room[o] # NOWHERE)
  BY LyingIs DEF Right
<1>2. Sound(obj_from_room(v, S), {} \cup S, {}) /\ {} \cup S = S
  BY <1>1, FromRoom DEF Right
<1>3. Alike(obj_from_room(v, S), v, {"contents", "in_room"})
  BY <1>1, FromRoom DEF Right
<1> QED
  BY <1>1, <1>2, <1>3 DEF Loose

LEMMA JanitorStep ==
  ASSUME Right(w), NEW c \in Body, NEW o, janitor(c, o)
  PROVE  Right(w')
<1>1. w.room[c] \in Chamber /\ w.room[c] # NOWHERE /\ {o} \in SUBSET w.contents[w.room[c]]
  BY RoomIs DEF janitor, Present, Right, Lying
<1>2. Loose(obj_from_room(w, {o}), {o}) /\ Alike(obj_from_room(w, {o}), w, {"contents", "in_room"})
  BY <1>1, PickedUp
<1>3. obj_from_room(w, {o}).room = w.room
  BY <1>2 DEF Alike, Names
<1>4. obj_from_room(w, {o}).room[c] # NOWHERE
  BY <1>1, <1>3
<1>5. Right(obj_to_char(obj_from_room(w, {o}), {o}, c))
  BY <1>2, <1>4, Handed
<1> QED
  BY <1>5 DEF janitor

LEMMA WipedLying ==
  ASSUME NEW v, Right(v), NEW r \in Chamber, NEW S \in SUBSET v.contents[r]
  PROVE  Right(extract_obj(v, S)) /\ Calm(extract_obj(v, S), v)
<1>1. S \in SUBSET Obj /\ (v.short \/ \A o \in S : v.equiped_by[o] = NIL)
  BY LyingIs DEF Right
<1> QED
  BY <1>1, Wiped

LEMMA FidoStep ==
  ASSUME Right(w), NEW c \in Body, NEW o, fido(c, o)
  PROVE  Right(w')
<1> DEFINE a == Emptied(w, {o}, w.room[c])
<1>1. w.room[c] \in Chamber /\ {o} \in SUBSET w.contents[w.room[c]]
  BY RoomIs DEF fido, Present, Right, Lying
<1>2. {o} \in SUBSET Obj /\ (w.short \/ \A x \in {o} : w.equiped_by[x] = NIL)
  BY <1>1, LyingIs DEF Right
<1>3. Sound(a, {}, {}) /\ Calm(a, w)
  BY <1>1, <1>2, EmptiedIs DEF Right
<1>4. w' = extract_obj(a, {o})
  BY DEF fido
<1> HIDE DEF a
<1>5. a.short \/ \A x \in {o} : a.equiped_by[x] = NIL
  BY <1>2, <1>3 DEF Calm
<1> QED
  BY <1>2, <1>3, <1>4, <1>5, Wiped DEF Right

LEMMA DumpStep ==
  ASSUME Right(w), NEW c \in Body, NEW S, dump(c, S)
  PROVE  Right(w')
<1> DEFINE clean == extract_obj(w, Lying(c))
           r == w.room[c]
           a == obj_from_char(clean, S)
           given == obj_to_room(a, S, r)
<1>1. r \in Chamber /\ Lying(c) = w.contents[r] /\ S \in SUBSET w.carrying[c]
  BY RoomIs DEF dump, Present, Right, Lying
<1>2. w' = extract_obj(given, given.contents[r])
  BY DEF dump, wipe_obj_list
<1>3. Lying(c) \in SUBSET Obj /\ (w.short \/ \A o \in Lying(c) : w.equiped_by[o] = NIL /\ w.carried_by[o] = NIL)
  BY <1>1, LyingIs DEF Right
<1>4. Right(clean) /\ Calm(clean, w)
  BY <1>3, Wiped
<1>5. w.short \/ \A d \in Body : clean.carrying[d] = w.carrying[d] \ Lying(c)
  BY <1>3, Wiped
<1>6. S \in SUBSET Obj /\ (w.short \/ \A o \in S : w.carried_by[o] # NIL)
  BY <1>1, CarriedIs DEF Right
<1> HIDE DEF r, clean
<1>7. clean.short \/ S \in SUBSET clean.carrying[c]
  BY <1>1, <1>3, <1>4, <1>5, <1>6 DEF Calm
<1>8. clean.short \/ \A o \in S : clean.carried_by[o] # NIL
  BY <1>4, <1>7, CarriedIs DEF Right
<1>9. Sound(a, {} \cup S, {}) /\ {} \cup S = S
  BY <1>4, <1>6, <1>8, FromChar DEF Right
<1> HIDE DEF a
<1>10. Right(given)
  BY <1>1, <1>6, <1>9, Down DEF Loose
<1> HIDE DEF given
<1> QED
  BY <1>1, <1>2, <1>10, WipedLying

LEMMA PieceRight ==
  ASSUME NEW v, Right(v), NEW c \in Body, v.room[c] # NOWHERE,
         NEW parts \in SUBSET Slot, NEW major \in BOOLEAN, NEW broken \in SUBSET Slot, NEW gold \in BOOLEAN
  PROVE  LET u == make_p_corpse(v, c, parts, major, broken, gold)
         IN  /\ Right(u) /\ Calm(u, v)
             /\ Without(u, c, parts)
             /\ major => u.carrying[c] = {}
<1> DEFINE u == make_p_corpse(v, c, parts, major, broken, gold)
<1>1. Sound(u, {}, {}) /\ Calm(u, v)
  BY PieceIs DEF Right
<1>2. Without(u, c, parts)
  BY PieceIs DEF Right
<1>3. major => u.carrying[c] = {}
  BY PieceIs DEF Right
<1> HIDE DEF u
<1>5. /\ Right(u) /\ Calm(u, v)
      /\ Without(u, c, parts)
      /\ major => u.carrying[c] = {}
  BY <1>1, <1>2, <1>3 DEF Right
<1> QED
  BY <1>5 DEF u

(* Who is dead has nothing on him, and leaves the room. *)
LEMMA Departed ==
  ASSUME NEW v, Right(v), NEW c \in Body, HasNothing(v, c)
  PROVE  Right(out_of_room(v, {c}))
<1>1. {c} \in SUBSET Body /\ (v.short \/ \A d \in {c} \ {} : HasNothing(v, d))
  OBVIOUS
<1> QED
  BY <1>1, OutOfRoom DEF Right

LEMMA CorpseIs ==
  ASSUME NEW v, Right(v), NEW c \in Body, v.room[c] # NOWHERE, NEW broken \in SUBSET Slot, NEW gold \in BOOLEAN
  PROVE  LET u == make_a_corpse(v, c, broken, gold) IN Right(u) /\ u.room[c] # NOWHERE /\ HasNothing(u, c)
<1> DEFINE u == make_p_corpse(v, c, Slot, TRUE, broken, gold)
<1>1. Right(u) /\ Calm(u, v)
  BY PieceRight
<1>2. Without(u, c, Slot)
  BY PieceRight
<1>3. u.carrying[c] = {}
  BY PieceRight
<1>4. u.room[c] # NOWHERE
  BY <1>1 DEF Calm
<1> QED
  BY <1>1, <1>2, <1>3, <1>4 DEF HasNothing, Without, make_a_corpse

LEMMA BareCalm ==
  ASSUME NEW u, NEW v, Calm(u, v), NEW c \in Body, HasNothing(v, c)
  PROVE  HasNothing(u, c)
<1>1. \A p \in Slot : u.equipment[c][p] = NIL
  BY DEF Calm, HasNothing
<1>2. u.carrying[c] = {}
  BY DEF Calm, HasNothing
<1> QED
  BY <1>1, <1>2 DEF HasNothing

LEMMA KillStep ==
  ASSUME Right(w), NEW c \in Body, NEW broken \in SUBSET Slot, NEW gold \in BOOLEAN, kill_char(c, broken, gold)
  PROVE  Right(w')
<1>1. w.room[c] # NOWHERE /\ w.room[c] \in Chamber
  BY RoomIs DEF kill_char, Present, Right
<1>2. CASE w' = out_of_room(make_a_corpse(w, c, broken, gold), {c})
  <2>1. Right(make_a_corpse(w, c, broken, gold)) /\ HasNothing(make_a_corpse(w, c, broken, gold), c)
    BY <1>1, CorpseIs
  <2> QED
    BY <2>1, <1>2, Departed
<1>3. CASE w' = out_of_room(make_nt_corpse(w, c, broken, gold), {c})
  <2> DEFINE head == Slot \cap {"head"}
             a == Stripped(w, {c}, head, w.room[c])
             u == make_p_corpse(a, c, Slot \ {"head"}, TRUE, broken, gold)
  <2>1. head \in SUBSET Slot /\ {c} \in SUBSET Body /\ Slot \ {"head"} \in SUBSET Slot
    OBVIOUS
  <2>2. Sound(a, {}, {}) /\ Calm(a, w)
    BY <1>1, <2>1, StrippedIs DEF Right
  <2>3. Naked(a, {c}, head)
    BY <1>1, <2>1, StrippedIs DEF Right
  <2> HIDE DEF a
  <2>4. Right(a) /\ a.room[c] # NOWHERE
    BY <1>1, <2>2 DEF Right, Calm
  <2>5. Right(u) /\ Calm(u, a)
    BY <2>1, <2>4, PieceRight
  <2>6. Without(u, c, Slot \ {"head"})
    BY <2>1, <2>4, PieceRight
  <2>7. u.carrying[c] = {}
    BY <2>1, <2>4, PieceRight
  <2>8. u = make_nt_corpse(w, c, broken, gold)
    BY DEF make_nt_corpse, a
  <2> HIDE DEF u
  <2>9. \A p \in Slot : u.equipment[c][p] = NIL
    BY <2>3, <2>5, <2>6 DEF Calm, Naked, Without
  <2>10. HasNothing(u, c)
    BY <2>7, <2>9 DEF HasNothing
  <2> QED
    BY <2>5, <2>8, <2>10, <1>3, Departed
<1>4. CASE w' = out_of_room(make_vh_corpse(w, c, broken, gold), {c})
  <2> DEFINE a == make_a_corpse(w, c, broken, gold)
             u == make_p_corpse(a, c, {}, FALSE, broken, gold)
  <2>1. Right(a) /\ a.room[c] # NOWHERE /\ HasNothing(a, c)
    BY <1>1, CorpseIs
  <2> HIDE DEF a
  <2>2. {} \in SUBSET Slot /\ FALSE \in BOOLEAN
    OBVIOUS
  <2>3. Right(u) /\ Calm(u, a)
    BY <2>1, <2>2, PieceRight
  <2>4. u = make_vh_corpse(w, c, broken, gold)
    BY DEF make_vh_corpse, a
  <2> HIDE DEF u
  <2>5. HasNothing(u, c)
    BY <2>1, <2>3, BareCalm
  <2> QED
    BY <2>3, <2>4, <2>5, <1>4, Departed
<1>5. ASSUME NEW part \in Parts, w' = out_of_room(make_parts_corpse(w, c, part, broken, gold), {c})
      PROVE  Right(w')
  <2> DEFINE a == make_p_corpse(w, c, part, FALSE, broken, gold)
             u == make_p_corpse(a, c, Slot \ part, TRUE, broken, gold)
  <2>1. part \in SUBSET Slot /\ Slot \ part \in SUBSET Slot
    BY DEF Parts, NoPart, OnePart
  <2>9. Right(a) /\ Calm(a, w)
    BY <1>1, <2>1, PieceRight
  <2>3. Without(a, c, part)
    BY <1>1, <2>1, PieceRight
  <2> HIDE DEF a
  <2>2. Right(a) /\ a.room[c] # NOWHERE
    BY <1>1, <2>9 DEF Calm
  <2>4. Right(u) /\ Calm(u, a)
    BY <2>1, <2>2, PieceRight
  <2>5. Without(u, c, Slot \ part)
    BY <2>1, <2>2, PieceRight
  <2>6. u.carrying[c] = {}
    BY <2>1, <2>2, PieceRight
  <2>7. u = make_parts_corpse(w, c, part, broken, gold)
    BY DEF make_parts_corpse, a
  <2> HIDE DEF u
  <2>8. \A p \in Slot : u.equipment[c][p] = NIL
    BY <2>3, <2>4, <2>5 DEF Calm, Without
  <2>10. HasNothing(u, c)
    BY <2>6, <2>8 DEF HasNothing
  <2> QED
    BY <2>4, <2>7, <2>10, <1>5, Departed
<1> QED
  BY <1>2, <1>3, <1>4, <1>5 DEF kill_char

(* The box o gives way to what it is in. *)
LEMMA UntiedUp ==
  ASSUME NEW ptr \in [Obj -> Obj \cup {NIL}], Untied(ptr), NEW o \in Obj, ptr[o] \in Obj,
         NEW mid, NEW S, S = {x \in Obj : ptr[x] = o}, mid = Point(ptr, S, NIL)
  PROVE  Untied(Point(mid, S, ptr[o]))
<1> SUFFICES ASSUME NEW D \in SUBSET Obj, D # {}
             PROVE  \E x \in D : Point(mid, S, ptr[o])[x] \notin D
  BY DEF Untied
<1>1. \A x \in Obj : Point(mid, S, ptr[o])[x] = IF x \in S THEN ptr[o] ELSE ptr[x]
  BY DEF Point
<1>2. CASE D \cap S = {}
  <2>1. PICK x \in D : ptr[x] \notin D
    BY DEF Untied
  <2> QED
    BY <1>1, <1>2, <2>1
<1>3. CASE ptr[o] \notin D /\ D \cap S # {}
  BY <1>1, <1>3
<1>4. CASE ptr[o] \in D /\ D \cap S # {}
  <2>1. PICK x \in D \cup {o} : ptr[x] \notin D \cup {o}
    <3>1. D \cup {o} \in SUBSET Obj /\ D \cup {o} # {}
      OBVIOUS
    <3> QED
      BY <3>1 DEF Untied
  <2>2. x # o /\ x \notin S
    BY <1>4, <2>1
  <2> QED
    BY <1>1, <2>1, <2>2
<1> QED
  BY <1>2, <1>3, <1>4

LEMMA DecayStep ==
  ASSUME Right(w), ~w.short, NEW o \in Obj, Decay(o)
  PROVE  Right(w')
<1> DEFINE had == w.contains[o]
           a == obj_from_obj(w, had)
           b == obj_to_obj(a, had, w.in_obj[o])
<1>1. w \in Things /\ Orderly(w, {}, {})
  BY DEF Right, Sound
<1>2. /\ w.contains \in [Obj -> SUBSET Obj] /\ w.in_obj \in [Obj -> Obj \cup {NIL}]
      /\ w.carried_by \in [Obj -> Body \cup {NIL}] /\ w.in_room \in [Obj -> Chamber \cup {NOWHERE}]
      /\ w.room \in [Body -> Chamber \cup {NOWHERE}] /\ w.carrying \in [Body -> SUBSET Obj]
  BY <1>1, Fields
<1>3. w.type[o] = "CORPSE" /\ w.equiped_by[o] = NIL /\ {o} \in SUBSET Obj
  BY <1>1 DEF Decay, Orderly, Sorted, Loaded
<1>4. Somewhere(w, o)
  BY <1>1, <1>3 DEF Orderly, Housed
<1>5. CASE w.in_obj[o] # NIL
  <2>1. w' = extract_obj(b, {o})
    BY <1>5 DEF Decay
  <2>2. had \in SUBSET Obj /\ \A x \in Obj : x \in had <=> w.in_obj[x] = o
    BY <1>1, <1>2 DEF Orderly, Filed, Agree
  <2>3. had = {x \in Obj : w.in_obj[x] = o} /\ \A x \in had : w.in_obj[x] # NIL
    BY <2>2, ThingsAssumption
  <2>4. w.in_obj[o] \in Obj /\ o \in w.contains[w.in_obj[o]]
    BY <1>1, <1>2, <1>5 DEF Orderly, Filed, Agree
  <2>5. w.type[w.in_obj[o]] \in {"CONTAINER", "CORPSE"}
    BY <1>1, <2>4 DEF Orderly, Sorted
  <2> HIDE DEF had
  <2>6. Sound(a, {} \cup had, {}) /\ {} \cup had = had
    BY <2>2, <2>3, FromBox DEF Right
  <2>7. Alike(a, w, {"contains", "in_obj"})
    BY <2>2, <2>3, FromBox DEF Right
  <2>8. a.in_obj = Point(w.in_obj, had, NIL)
    BY <2>2, <2>3, FromBox DEF Right
  <2> HIDE DEF a
  <2>9. a.type = w.type /\ a.equiped_by = w.equiped_by /\ a.short = w.short
    BY <2>7 DEF Alike, Names
  <2>11. Untied(Point(a.in_obj, had, w.in_obj[o]))
    BY <1>1, <1>2, <2>3, <2>4, <2>8, UntiedUp DEF Orderly
  <2>12. had \in SUBSET had /\ had \ had = {} /\ Sound(a, had, {})
    BY <2>6
  <2>13. a.short \/ (a.type[w.in_obj[o]] \in {"CONTAINER", "CORPSE"} /\ Untied(Point(a.in_obj, had, w.in_obj[o])))
    BY <2>5, <2>9, <2>11
  <2>14. Sound(b, had \ had, {})
    BY <2>2, <2>4, <2>12, <2>13, IntoBox
  <2>15. Alike(b, a, {"contains", "in_obj"})
    BY <2>2, <2>4, <2>12, <2>13, IntoBox
  <2> HIDE DEF b
  <2>16. b.equiped_by = a.equiped_by
    BY <2>15 DEF Alike, Names
  <2>17. Right(b) /\ (b.short \/ \A x \in {o} : b.equiped_by[x] = NIL)
    BY <1>3, <2>9, <2>12, <2>14, <2>16 DEF Right
  <2> QED
    BY <1>3, <2>1, <2>17, Wiped
<1>6. CASE w.in_obj[o] = NIL
  <2> DEFINE r == IF w.carried_by[o] # NIL THEN w.room[w.carried_by[o]] ELSE w.in_room[o]
             e == Emptied(w, {o}, r)
  <2>1. w' = extract_obj(e, {o})
    BY <1>6 DEF Decay
  <2>2. r \in Chamber
    <3>1. CASE w.carried_by[o] # NIL
      <4>1. w.carried_by[o] \in Body /\ o \in w.carrying[w.carried_by[o]]
        BY <1>1, <1>2, <3>1 DEF Orderly, Filed, Agree
      <4>2. w.room[w.carried_by[o]] # NOWHERE
        BY <1>1, <4>1 DEF Orderly, LeftBare
      <4> QED
        BY <1>2, <3>1, <4>1, <4>2
    <3>2. CASE w.carried_by[o] = NIL
      BY <1>2, <1>3, <1>4, <1>6, <3>2 DEF Somewhere
    <3> QED
      BY <3>1, <3>2
  <2> HIDE DEF r
  <2>3. Sound(e, {}, {}) /\ Calm(e, w)
    BY <1>3, <2>2, EmptiedIs DEF Right
  <2> HIDE DEF e
  <2>4. Right(e) /\ (e.short \/ \A x \in {o} : e.equiped_by[x] = NIL)
    BY <1>3, <2>3 DEF Right, Calm
  <2> QED
    BY <1>3, <2>1, <2>4, Wiped
<1> QED
  BY <1>5, <1>6

LEMMA WipedAll ==
  ASSUME NEW v, Right(v), NEW c \in Body
  PROVE  LET u == wipe_all_obj(v, c) IN Right(u) /\ Calm(u, v) /\ (u.short \/ HasNothing(u, c))
<1> DEFINE E == Equipped(v, {c}, Slot)
           a == unequip(v, {c}, Slot)
           S == E \cup v.carrying[c]
           u == extract_obj(a, S)
<1>1. Loose(a, E) /\ Alike(a, v, {"equiped_by", "equipment"})
  BY TakenOff
<1>2. Calm(a, v) /\ \A p \in Slot : a.equipment[c][p] = NIL
  <2>1. {c} \in SUBSET Body /\ {} \in SUBSET Obj
    OBVIOUS
  <2>2. Calm(a, v)
    BY <2>1, Doffed DEF Right
  <2>3. Naked(a, {c}, Slot)
    BY <2>1, Doffed DEF Right
  <2> HIDE DEF a
  <2> QED
    BY <2>2, <2>3 DEF Naked, Without
<1>3. v.carrying[c] \in SUBSET Obj /\ (v.short \/ \A o \in v.carrying[c] : v.equiped_by[o] = NIL)
  BY CarriedIs DEF Right
<1> HIDE DEF a, E
<1>4. S \in SUBSET Obj /\ E \in SUBSET Obj /\ E \ S = {}
  BY <1>1, <1>3 DEF Loose
<1>5. a.carrying = v.carrying
  BY <1>1 DEF Alike, Names
<1>6. a.short \/ \A o \in S : a.equiped_by[o] = NIL
  <2>1. a.short \/ \A o \in E : a.equiped_by[o] = NIL
    BY <1>1, LooseIs DEF Loose
  <2>2. a.short \/ \A o \in v.carrying[c] : a.equiped_by[o] = NIL
    BY <1>2, <1>3 DEF Calm
  <2> QED
    BY <2>1, <2>2
<1> HIDE DEF S
<1>7. Sound(u, E \ S, {})
  BY <1>1, <1>4, <1>6, Extract DEF Loose
<1>8. Calm(u, a)
  BY <1>1, <1>4, <1>6, Extract DEF Loose
<1>9. a.short \/ \A d \in Body : u.carrying[d] = a.carrying[d] \ S
  BY <1>1, <1>4, <1>6, Extract DEF Loose
<1>10. u = wipe_all_obj(v, c)
  BY DEF wipe_all_obj, wipe_obj_list, a, S, E
<1> HIDE DEF u
<1>11. Right(u) /\ Calm(u, v)
  BY <1>2, <1>4, <1>7, <1>8, CalmTwice DEF Right
<1>12. u.short \/ u.carrying[c] = {}
  BY <1>5, <1>8, <1>9 DEF Calm, S
<1>13. \A p \in Slot : u.equipment[c][p] = NIL
  BY <1>2, <1>8 DEF Calm
<1> QED
  BY <1>10, <1>11, <1>12, <1>13 DEF HasNothing

LEMMA ExtractedIs ==
  ASSUME NEW v, Right(v), NEW cs \in SUBSET Body, NEW r \in Chamber
  PROVE  Right(extract_char(v, cs, r))
<1> DEFINE a == Hung(v, cs, r)
           b == Stripped(a, cs, Slot, r)
           d == out_of_room(b, cs)
           u == free_a_char(d, cs)
<1>1. {} \in SUBSET Body /\ {} \in SUBSET Obj /\ {} \cup cs = cs /\ cs \ cs = {} /\ Slot \in SUBSET Slot
  OBVIOUS
<1>2. Sound(a, {}, {} \cup cs)
  BY <1>1, HungIs DEF Right
<1>3. \A c \in cs : a.carrying[c] = {}
  BY <1>1, HungIs DEF Right
<1> HIDE DEF a
<1>4. Sound(a, {}, cs)
  BY <1>1, <1>2
<1>5. Sound(b, {}, cs) /\ Calm(b, a)
  BY <1>1, <1>4, StrippedIs
<1>6. Naked(b, cs, Slot)
  BY <1>1, <1>4, StrippedIs
<1> HIDE DEF b
<1>7. \A c \in cs : HasNothing(b, c)
  BY <1>3, <1>5, <1>6 DEF HasNothing, Calm, Naked, Without
<1>8. b.short \/ \A c \in cs \ cs : HasNothing(b, c)
  OBVIOUS
<1>9. Sound(d, {}, cs) /\ Alike(d, b, {"room", "light"})
  BY <1>5, <1>8, OutOfRoom
<1> HIDE DEF d
<1>10. d.carrying = b.carrying /\ d.equipment = b.equipment
  BY <1>9 DEF Alike, Names
<1>11. d.short \/ \A c \in cs : HasNothing(d, c)
  BY <1>7, <1>10 DEF HasNothing
<1>12. Sound(u, {}, cs \ cs)
  BY <1>9, <1>11, FreeChar
<1> QED
  BY <1>1, <1>12 DEF Right, extract_char, extract_all_obj, u, d, b, a

LEMMA RentStep ==
  ASSUME Right(w), NEW c \in Body, do_rent(c) \/ check_idling(c)
  PROVE  Right(w')
<1> DEFINE a == wipe_all_obj(w, c)
           b == out_of_room(a, {c})
<1>1. w' = b \/ w' = free_a_char(b, {c})
  BY DEF do_rent, check_idling
<1>2. Right(a) /\ (a.short \/ HasNothing(a, c))
  BY WipedAll
<1> HIDE DEF a
<1>3. {c} \in SUBSET Body /\ (a.short \/ \A d \in {c} \ {} : HasNothing(a, d)) /\ {} \ {c} = {}
  BY <1>2
<1>4. Sound(b, {}, {}) /\ Alike(b, a, {"room", "light"})
  BY <1>2, <1>3, OutOfRoom DEF Right
<1> HIDE DEF b
<1>5. b.carrying = a.carrying /\ b.equipment = a.equipment /\ b.short = a.short
  BY <1>4 DEF Alike, Names
<1>6. b.short \/ \A d \in {c} : HasNothing(b, d)
  BY <1>2, <1>5 DEF HasNothing
<1>7. Sound(free_a_char(b, {c}), {}, {} \ {c})
  BY <1>3, <1>4, <1>6, FreeChar
<1> QED
  BY <1>1, <1>3, <1>4, <1>7 DEF Right

LEMMA PoliceStep ==
  ASSUME Right(w), NEW c \in Body, do_police(c)
  PROVE  Right(w')
<1>1. w.room[c] \in Chamber /\ {c} \in SUBSET Body
  BY RoomIs DEF do_police, Present, Right
<1>2. Right(wipe_all_obj(w, c))
  BY WipedAll
<1> QED
  BY <1>1, <1>2, ExtractedIs DEF do_police

LEMMA PurgeStep ==
  ASSUME Right(w), NEW c \in Body, do_purge(c)
  PROVE  Right(w')
<1> DEFINE r == w.room[c]
           cs == {m \in Mob : w.room[m] = w.room[c]}
           gone == extract_char(w, cs, r)
<1>1. r \in Chamber /\ cs \in SUBSET Body
  BY RoomIs DEF do_purge, Present, Right, Body
<1>2. w' = extract_obj(gone, gone.contents[r])
  BY DEF do_purge, wipe_obj_list
<1>3. Right(gone)
  BY <1>1, ExtractedIs
<1> HIDE DEF gone, r
<1> QED
  BY <1>1, <1>2, <1>3, WipedLying

LEMMA PurgeOneStep ==
  ASSUME Right(w), NEW c \in Body, NEW o, purge_one(c, o)
  PROVE  Right(w')
<1>1. w.room[c] \in Chamber /\ {o} \in SUBSET w.contents[w.room[c]]
  BY RoomIs DEF purge_one, Present, Right, Lying
<1> QED
  BY <1>1, WipedLying DEF purge_one

LEMMA PurgeMobStep ==
  ASSUME Right(w), NEW m \in Mob, purge_mob(m)
  PROVE  Right(w')
<1>1. m \in Body
  BY DEF Body
<1>2. w.room[m] \in Chamber /\ {m} \in SUBSET Body
  BY <1>1, RoomIs DEF purge_mob, Present, Right
<1> QED
  BY <1>2, ExtractedIs DEF purge_mob

(* Who is not in the world wears nothing, and the number of things in his  *)
(* hands is true.                                                          *)
LEMMA AwayIs ==
  ASSUME NEW v, Right(v), NEW c \in Body
  PROVE  /\ v.short \/ v.carry_items[c] = Cardinality(v.carrying[c])
         /\ v.short \/ v.room[c] # NOWHERE \/ \A p \in Slot : v.equipment[c][p] = NIL
         /\ Sound(v, {}, {c})
<1>1. v.short \/ v.carry_items[c] = Cardinality(v.carrying[c])
  BY DEF Right, Sound, Orderly, Counted
<1>2. v.short \/ v.room[c] # NOWHERE \/ \A p \in Slot : v.equipment[c][p] = NIL
  BY DEF Right, Sound, Orderly, LeftBare
<1>3. v.short \/ ({} = {} /\ {} \subseteq {c})
  OBVIOUS
<1>4. Sound(v, {}, {c})
  BY <1>3, SoundFor DEF Right
<1> QED
  BY <1>1, <1>2, <1>4

LEMMA MenuStep ==
  ASSUME Right(w), NEW c \in Pc, NEW r \in Chamber, NEW p \in Slot, NEW kind \in Loaded, NEW lights \in BOOLEAN,
         menu_select(c, r, p, kind, lights)
  PROVE  Right(w')
<1> DEFINE n == NewOne(w)
           new == load_a_object(w, kind, lights)
           on == equip(new, c, n, p, FALSE)
<1>1. c \in Body /\ w.room[c] = NOWHERE
  BY DEF menu_select, Present, Body
<1>2. /\ w.short \/ w.carry_items[c] = Cardinality(w.carrying[c])
      /\ w.short \/ \A q \in Slot : w.equipment[c][q] = NIL
      /\ Sound(w, {}, {c})
  BY <1>1, AwayIs
<1>3. {c} \ {c} = {} /\ {n} \ {n} = {} /\ {} \cup {n} = {n} /\ {} \in SUBSET Obj
  OBVIOUS
<1>4. CASE w' = into_room(w, c, r)
  <2>1. Sound(w', {}, {c} \ {c})
    BY <1>1, <1>2, <1>4, IntoRoom
  <2> QED
    BY <1>3, <2>1 DEF Right
<1>5. CASE w' = into_room(on, c, r)
  <2>1. Sound(new, {} \cup {n}, {c})
    BY <1>2, <1>3, LoadIs
  <2>2. Alike(new, w, {"type", "short", "lit"}) /\ (w.short => new.short)
    BY <1>2, <1>3, LoadIs
  <2>3. n \in Obj /\ (new.short \/ new.type[n] = kind)
    BY <1>2, <1>3, LoadIs
  <2> HIDE DEF n, new
  <2>4. new.carrying = w.carrying /\ new.carry_items = w.carry_items /\ new.equipment = w.equipment
    BY <2>2 DEF Alike, Names
  <2>5. {n} \in SUBSET Obj /\ n \in {n} /\ Sound(new, {n}, {c}) /\ FALSE \in BOOLEAN /\ c \in {c}
    BY <1>3, <2>1, <2>3
  <2>6. new.short \/ (/\ new.equipment[c][p] = NIL /\ new.type[n] \in Loaded
                      /\ new.room[c] # NOWHERE \/ c \in {c})
    BY <1>2, <2>2, <2>3, <2>4
  <2>7. Sound(on, {n} \ {n}, {c})
    BY <1>1, <2>5, <2>6, EquipIs
  <2>8. new.short => on.short
    BY <1>1, <2>5, <2>6, EquipIs
  <2>11. on.carrying = new.carrying /\ on.carry_items = new.carry_items
    BY <2>5 DEF equip, Sound, Things
  <2> HIDE DEF on
  <2>9. on.short \/ on.carry_items[c] = Cardinality(on.carrying[c])
    BY <1>2, <2>2, <2>4, <2>8, <2>11
  <2>10. Sound(w', {n} \ {n}, {c} \ {c})
    BY <1>1, <1>5, <2>7, <2>9, IntoRoom
  <2> QED
    BY <1>3, <2>10 DEF Right
<1> QED
  BY <1>4, <1>5 DEF menu_select

LEMMA ResetMobStep ==
  ASSUME Right(w), NEW m \in Mob, NEW r \in Chamber, NEW p \in Slot, NEW kind \in Loaded, NEW lights \in BOOLEAN,
         reset_mob(m, r, p, kind, lights)
  PROVE  Right(w')
<1> DEFINE n == NewOne(w)
           came == into_room(w, m, r)
           new == load_a_object(came, kind, lights)
<1>1. m \in Body /\ w.room[m] = NOWHERE /\ r # NOWHERE
  BY ThingsAssumption DEF reset_mob, Present, Body
<1>2. /\ w.short \/ w.carry_items[m] = Cardinality(w.carrying[m])
      /\ w.short \/ \A q \in Slot : w.equipment[m][q] = NIL
  BY <1>1, AwayIs
<1>3. {} \ {m} = {} /\ {n} \ {n} = {}
  OBVIOUS
<1>4. w' = came \/ w' = obj_to_char(new, {n}, m) \/ w' = equip(new, m, n, p, FALSE)
  BY DEF reset_mob
<1>5. Sound(came, {}, {} \ {m})
  BY <1>1, <1>2, IntoRoom DEF Right
<1>6. Alike(came, w, {"room", "light"}) /\ came.room[m] = r
  BY <1>1, <1>2, IntoRoom DEF Right
<1> HIDE DEF came
<1>7. Right(came)
  BY <1>3, <1>5 DEF Right
<1>8. came.type = w.type /\ came.equipment = w.equipment /\ came.short = w.short
  BY <1>6 DEF Alike, Names
<1>9. NewOne(came) = n
  BY <1>8 DEF NewOne, Spare
<1> HIDE DEF n
<1>10. Loose(new, {n})
  BY <1>7, <1>9, NewLoose
<1>11. Alike(new, came, {"type", "short", "lit"})
  BY <1>7, NewLoose
<1>12. (came.short => new.short) /\ n \in Obj /\ (new.short \/ new.type[n] = kind)
  <2>1. {} \in SUBSET Obj
    OBVIOUS
  <2> QED
    BY <2>1, <1>7, <1>9, LoadIs DEF Right
<1> HIDE DEF new
<1>13. new.room[m] # NOWHERE /\ new.equipment = came.equipment
  <2>1. new.room = came.room /\ new.equipment = came.equipment
    BY <1>11 DEF Alike, Names
  <2> QED
    BY <1>1, <1>6, <2>1
<1>14. Right(obj_to_char(new, {n}, m))
  BY <1>1, <1>10, <1>13, Handed
<1>15. new.short \/ (/\ new.equipment[m][p] = NIL /\ new.type[n] \in Loaded
                     /\ new.room[m] # NOWHERE \/ m \in {})
  BY <1>2, <1>8, <1>12, <1>13
<1>16. {n} \in SUBSET Obj /\ n \in {n} /\ Sound(new, {n}, {}) /\ FALSE \in BOOLEAN
  BY <1>10, <1>12 DEF Loose
<1>17. Sound(equip(new, m, n, p, FALSE), {n} \ {n}, {})
  BY <1>1, <1>15, <1>16, EquipIs
<1>18. Right(equip(new, m, n, p, FALSE))
  BY <1>3, <1>17 DEF Right
<1> QED
  BY <1>4, <1>7, <1>14, <1>18

LEMMA ResetObjStep ==
  ASSUME Right(w), NEW r \in Chamber, NEW kind \in Loaded, NEW lights \in BOOLEAN, reset_obj(kind, r, lights)
  PROVE  Right(w')
<1> DEFINE n == NewOne(w)
           new == load_a_object(w, kind, lights)
<1>1. Loose(new, {n})
  BY NewLoose
<1>2. Alike(new, w, {"type", "short", "lit"})
  BY NewLoose
<1>3. \/ w' = obj_to_room(new, {n}, r)
      \/ \E to \in LiveObj : w.type[to] = "CONTAINER" /\ w' = obj_to_obj(new, {n}, to)
      \/ \E o \in w.contents[r] : w' = extract_obj(w, {o})
  BY DEF reset_obj
<1>9. {} \in SUBSET Obj
  OBVIOUS
<1>10. (w.short => new.short) /\ n \in Obj
  BY <1>9, LoadIs DEF Right
<1>11. \A o \in Obj \ {n} : new.type[o] = w.type[o]
  BY DEF load_a_object, Made, Right, Sound, Things
<1>12. new.short \/ (w.type[n] = "free" /\ new.type[n] = kind)
  BY <1>9, LoadIs DEF Right
<1> HIDE DEF new, n
<1>4. CASE w' = obj_to_room(new, {n}, r)
  BY <1>1, <1>4, Down
<1>5. ASSUME NEW to \in LiveObj, w.type[to] = "CONTAINER", w' = obj_to_obj(new, {n}, to)
      PROVE  Right(w')
  <2>1. to \in Obj
    BY DEF LiveObj
  <2>2. new.in_obj = w.in_obj /\ new.contains = w.contains
    BY <1>2 DEF Alike, Names
  <2>3. new.short \/ (new.type[to] \in {"CONTAINER", "CORPSE"} /\ Untied(Point(new.in_obj, {n}, to)))
    <3> SUFFICES ASSUME ~new.short
                 PROVE  new.type[to] \in {"CONTAINER", "CORPSE"} /\ Untied(Point(new.in_obj, {n}, to))
      OBVIOUS
    <3>1. w \in Things /\ Orderly(w, {}, {})
      BY <1>10 DEF Right, Sound
    <3>2. to \in Obj \ {n} /\ new.type[to] = "CONTAINER"
      BY <1>5, <1>11, <1>12, <2>1
    <3>3. w.contains[n] = {}
      BY <1>10, <1>12, <3>1 DEF Orderly, Sorted
    <3>4. w.in_obj \in [Obj -> Obj \cup {NIL}] /\ w.contains \in [Obj -> SUBSET Obj]
      BY <3>1, Fields
    <3>5. \A o \in Obj : w.in_obj[o] # n
      BY <1>10, <3>1, <3>3, <3>4 DEF Orderly, Filed, Agree
    <3>6. Untied(w.in_obj)
      BY <3>1 DEF Orderly
    <3>7. Untied(Point(w.in_obj, {n}, to))
      BY <1>10, <3>2, <3>4, <3>5, <3>6, UntiedNew
    <3> QED
      BY <2>2, <3>2, <3>7
  <2>4. {n} \in SUBSET Obj /\ {n} \in SUBSET {n} /\ {n} \ {n} = {} /\ Sound(new, {n}, {})
    BY <1>1 DEF Loose
  <2>5. Sound(obj_to_obj(new, {n}, to), {n} \ {n}, {})
    BY <2>1, <2>3, <2>4, IntoBox
  <2> QED
    BY <1>5, <2>4, <2>5 DEF Right
<1>6. ASSUME NEW o \in w.contents[r], w' = extract_obj(w, {o})
      PROVE  Right(w')
  <2>1. {o} \in SUBSET w.contents[r]
    OBVIOUS
  <2> QED
    BY <1>6, <2>1, WipedLying
<1> QED
  BY <1>3, <1>4, <1>5, <1>6

LEMMA MoveStep ==
  ASSUME Right(w), NEW c \in Body, NEW r \in Chamber, move_one(c, r)
  PROVE  Right(w')
<1> DEFINE a == out_of_room(w, {c})
<1>1. /\ w.short \/ w.carry_items[c] = Cardinality(w.carrying[c])
      /\ Sound(w, {}, {c})
  BY AwayIs
<1>2. {c} \in SUBSET Body /\ (w.short \/ \A d \in {c} \ {c} : HasNothing(w, d)) /\ {c} \ {c} = {}
  OBVIOUS
<1>3. Sound(a, {}, {c}) /\ Alike(a, w, {"room", "light"})
  BY <1>1, <1>2, OutOfRoom
<1>4. w' = into_room(a, c, r)
  BY DEF move_one
<1> HIDE DEF a
<1>5. a.carry_items = w.carry_items /\ a.carrying = w.carrying /\ a.short = w.short
  BY <1>3 DEF Alike, Names
<1>6. Sound(w', {}, {c} \ {c})
  BY <1>1, <1>3, <1>4, <1>5, IntoRoom
<1> QED
  BY <1>2, <1>6 DEF Right

-----------------------------------------------------------------------------
(* The steps together. *)
LEMMA FromBegin ==
  ASSUME BelongInit
  PROVE  Right(w) /\ ~w.short
<1>1. /\ w.type = [o \in Obj |-> "free"] /\ w.in_room = [o \in Obj |-> NOWHERE]
      /\ w.carried_by = [o \in Obj |-> NIL] /\ w.equiped_by = [o \in Obj |-> NIL]
      /\ w.in_obj = [o \in Obj |-> NIL] /\ w.contents = [r \in Chamber |-> {}]
      /\ w.carrying = [c \in Body |-> {}] /\ w.contains = [o \in Obj |-> {}]
      /\ w.equipment = [c \in Body |-> [p \in Slot |-> NIL]] /\ w.carry_items = [c \in Body |-> 0]
      /\ w.room = [c \in Body |-> NOWHERE] /\ w.lit = {} /\ w.light = [r \in Chamber |-> 0]
      /\ w.short = FALSE
  BY DEF BelongInit
<1>2. w \in Things
  <2>1. 0 \in -MaxLight .. MaxLight /\ 0 \in Int
    BY ThingsAssumption
  <2>2. [r \in Chamber |-> 0] \in [Chamber -> -MaxLight .. MaxLight]
    BY <2>1
  <2> QED
    BY <2>2 DEF BelongInit, Things
<1>3. Filed(w)
  BY <1>1, ThingsAssumption DEF Filed, Agree
<1>4. Dressed(w) /\ Apart(w)
  BY <1>1 DEF Dressed, Apart
<1>5. Housed(w, {})
  BY <1>1 DEF Housed, Somewhere
<1>6. Sorted(w) /\ LeftBare(w, {})
  BY <1>1 DEF Sorted, LeftBare
<1>7. Counted(w, {})
  BY <1>1, FS_EmptySet DEF Counted
<1>8. Untied(w.in_obj)
  BY <1>1, ThingsAssumption DEF Untied
<1> QED
  BY <1>1, <1>2, <1>3, <1>4, <1>5, <1>6, <1>7, <1>8 DEF Right, Sound, Orderly

LEMMA ActStep ==
  ASSUME Right(w), NEW c \in Body, Act(c)
  PROVE  Right(w')
<1>1. ASSUME NEW S \in SUBSET LiveObj,
             \/ get_objects(c, S) \/ do_drop(c, S) \/ dump(c, S)
             \/ spell_fire_breath(c, S) \/ spell_frost_breath(c, S) \/ spell_lightning_breath(c, S)
             \/ \E sub \in LiveObj : do_put(c, S, sub)
             \/ \E vict \in Body : do_give(c, S, vict)
             \/ \E places \in SUBSET Slot : mob_punch_drop(c, places, S)
      PROVE  Right(w')
  <2>1. CASE get_objects(c, S) \/ do_drop(c, S) \/ dump(c, S)
    BY <2>1, GetStep, DropStep, DumpStep
  <2>2. CASE spell_fire_breath(c, S) \/ spell_frost_breath(c, S) \/ spell_lightning_breath(c, S)
    BY <2>2, BreathStep
  <2>3. CASE \E sub \in LiveObj : do_put(c, S, sub)
    BY <2>3, PutStep DEF LiveObj
  <2>4. CASE \E vict \in Body : do_give(c, S, vict)
    BY <2>4, GiveStep
  <2>5. CASE \E places \in SUBSET Slot : mob_punch_drop(c, places, S)
    BY <2>5, PunchStep
  <2> QED
    BY <1>1, <2>1, <2>2, <2>3, <2>4, <2>5
<1>2. ASSUME NEW o \in LiveObj,
             \/ do_reload(c, o) \/ do_junk(c, o) \/ do_eat(c, o) \/ do_quaff(c, o) \/ do_recite(c, o)
             \/ spell_recharger(c, o) \/ spell_gas_breath(c, o)
             \/ janitor(c, o) \/ fido(c, o) \/ purge_one(c, o)
             \/ \E vict \in Body : do_steal(c, o, vict) \/ do_throw(c, o, vict) \/ do_flick(c, vict, o)
             \/ \E zapped \in BOOLEAN :
                  \/ do_grab(c, o, zapped)
                  \/ \E p \in Slot : do_wear(c, o, p, zapped) \/ do_wield(c, o, p, zapped)
      PROVE  Right(w')
  <2>0. o \in Obj
    BY DEF LiveObj
  <2>1. CASE do_reload(c, o) \/ do_junk(c, o) \/ do_eat(c, o)
    BY <2>1, JunkStep
  <2>2. CASE do_quaff(c, o) \/ do_recite(c, o) \/ spell_recharger(c, o)
    BY <2>0, <2>2, QuaffStep, RechargeStep
  <2>3. CASE spell_gas_breath(c, o) \/ janitor(c, o) \/ fido(c, o) \/ purge_one(c, o)
    BY <2>3, GasStep, JanitorStep, FidoStep, PurgeOneStep
  <2>4. CASE \E vict \in Body : do_steal(c, o, vict) \/ do_throw(c, o, vict) \/ do_flick(c, vict, o)
    BY <2>0, <2>4, StealStep, ThrowStep, FlickStep
  <2>5. CASE \E zapped \in BOOLEAN : do_grab(c, o, zapped)
    BY <2>5, GrabStep
  <2>6. CASE \E zapped \in BOOLEAN : \E p \in Slot : do_wear(c, o, p, zapped) \/ do_wield(c, o, p, zapped)
    BY <2>6, WearStep
  <2> QED
    BY <1>2, <2>1, <2>2, <2>3, <2>4, <2>5, <2>6
<1>3. CASE drop_coins(c) \/ update_char_objects(c)
  BY <1>3, CoinsStep, BurnStep
<1>4. CASE \E places \in SUBSET Slot : do_remove(c, places) \/ char_to_store(c, places)
  BY <1>4, RemoveStep, StoreStep
<1>5. CASE \E broken \in SUBSET Slot, gold \in BOOLEAN : kill_char(c, broken, gold)
  BY <1>5, KillStep
<1> QED
  BY <1>1, <1>2, <1>3, <1>4, <1>5 DEF Act

LEMMA PassStep ==
  ASSUME Right(w), ~w.short, Pass
  PROVE  Right(w')
<1>1. CASE \E o \in LiveObj : Decay(o)
  BY <1>1, DecayStep DEF LiveObj
<1>2. CASE \E c \in Pc : do_rent(c) \/ check_idling(c) \/ do_police(c) \/ do_purge(c)
  BY <1>2, RentStep, PoliceStep, PurgeStep DEF Body
<1>3. CASE \E m \in Mob : purge_mob(m)
  BY <1>3, PurgeMobStep
<1>4. CASE \E c \in Pc, kind \in Loaded, lights \in BOOLEAN : do_load(c, kind, lights)
  BY <1>4, LoadStep DEF Body
<1>5. CASE \E c \in Body, r \in Chamber : move_one(c, r)
  BY <1>5, MoveStep
<1>6. ASSUME NEW kind \in Loaded, NEW lights \in BOOLEAN, NEW p \in Fitting(kind), NEW r \in Chamber,
             \/ \E c \in Pc : menu_select(c, r, p, kind, lights)
             \/ \E m \in Mob : reset_mob(m, r, p, kind, lights)
             \/ reset_obj(kind, r, lights)
      PROVE  Right(w')
  <2>1. p \in Slot
    BY ThingsAssumption DEF Fitting, Loaded
  <2> QED
    BY <1>6, <2>1, MenuStep, ResetMobStep, ResetObjStep
<1> QED
  BY <1>1, <1>2, <1>3, <1>4, <1>5, <1>6 DEF Pass

LEMMA ThingsAlways == BelongSpec => [](Right(w) /\ ~w.short)
<1> DEFINE I == Right(w) /\ ~w.short
<1>1. BelongInit => I
  BY FromBegin
<1>2. I /\ [BelongNext]_w => I'
  <2> SUFFICES ASSUME I, [BelongNext]_w
               PROVE  I'
    OBVIOUS
  <2>1. CASE UNCHANGED w
    BY <2>1 DEF Right, Sound, Orderly
  <2>2. CASE BelongNext
    <3>1. ~w'.short /\ (Pass \/ \E c \in Body : Act(c))
      BY <2>2 DEF BelongNext
    <3>2. Right(w')
      BY <3>1, PassStep, ActStep
    <3>3. Right(w)'
      BY <3>2 DEF Right, Sound, Orderly
    <3> QED
      BY <3>1, <3>3
  <2> QED
    BY <2>1, <2>2
<1> QED
  BY <1>1, <1>2, PTL DEF BelongSpec

-----------------------------------------------------------------------------
(* The lists, pointers and counts of the world keep their types: nothing   *)
(* is hung on to a room, a character or an object that is not there.       *)
THEOREM BelongingsTyped == BelongSpec => []BelongingsOK
<1>1. Right(w) => BelongingsOK
  BY DEF Right, Sound, BelongingsOK
<1> QED
  BY <1>1, ThingsAlways, PTL

LEMMA PlacesIn ==
  ASSUME Right(w), ~w.short, NEW o \in Obj
  PROVE  PointersAgree(o)
<1>1. w \in Things /\ Filed(w) /\ Dressed(w)
  BY DEF Right, Sound, Orderly
<1>2. /\ w.contents \in [Chamber -> SUBSET Obj] /\ w.carrying \in [Body -> SUBSET Obj]
      /\ w.contains \in [Obj -> SUBSET Obj]
  BY <1>1, Fields
<1>3. \A r \in Chamber : (w.in_room[o] = r) <=> (o \in w.contents[r])
  BY <1>1, <1>2 DEF Filed, Agree
<1>4. \A c \in Body : (w.carried_by[o] = c) <=> (o \in w.carrying[c])
  BY <1>1, <1>2 DEF Filed, Agree
<1>5. \A x \in Obj : (w.in_obj[o] = x) <=> (o \in w.contains[x])
  BY <1>1, <1>2 DEF Filed, Agree
<1>6. \A c \in Body : (w.equiped_by[o] = c) <=> (\E p \in Slot : w.equipment[c][p] = o)
  BY <1>1, ThingsAssumption DEF Dressed
<1> QED
  BY <1>3, <1>4, <1>5, <1>6 DEF PointersAgree

LEMMA PlaceIs ==
  ASSUME Right(w), ~w.short, NEW o \in Obj
  PROVE  InOnePlace(o)
<1>1. w \in Things /\ Dressed(w) /\ Apart(w) /\ Housed(w, {})
  BY DEF Right, Sound, Orderly
<1>2. PointersAgree(o)
  BY PlacesIn
<1>3. /\ w.in_room[o] \in Chamber \cup {NOWHERE} /\ w.carried_by[o] \in Body \cup {NIL}
      /\ w.in_obj[o] \in Obj \cup {NIL} /\ w.equiped_by[o] \in Body \cup {NIL}
  BY <1>1, Fields
<1> DEFINE A == {r \in Chamber : o \in w.contents[r]}
           B == {c \in Body : o \in w.carrying[c]}
           D == {x \in Obj : o \in w.contains[x]}
           E == {q \in Body \X Slot : w.equipment[q[1]][q[2]] = o}
<1>4. \A r : r \in A <=> w.in_room[o] = r /\ r # NOWHERE
  BY <1>2, <1>3, ThingsAssumption DEF PointersAgree
<1>5. \A c : c \in B <=> w.carried_by[o] = c /\ c # NIL
  BY <1>2, <1>3, ThingsAssumption DEF PointersAgree
<1>6. \A x : x \in D <=> w.in_obj[o] = x /\ x # NIL
  BY <1>2, <1>3, ThingsAssumption DEF PointersAgree
<1>7. /\ w.equiped_by[o] = NIL => E = {}
      /\ w.equiped_by[o] # NIL => \E q \in E : E = {q}
  <2>1. \A q \in E : w.equiped_by[o] = q[1] /\ q[1] \in Body /\ q[2] \in Slot /\ q = <<q[1], q[2]>>
    BY <1>2 DEF PointersAgree
  <2>2. \A q1, q2 \in E : q1 = q2
    <3> SUFFICES ASSUME NEW q1 \in E, NEW q2 \in E
                 PROVE  q1 = q2
      OBVIOUS
    <3>1. q1[1] = q2[1]
      BY <2>1
    <3>2. w.equipment[q1[1]][q1[2]] = o /\ w.equipment[q1[1]][q2[2]] = o /\ o # NIL
      BY <3>1, ThingsAssumption
    <3>3. q1[2] = q2[2]
      BY <1>1, <2>1, <3>2 DEF Dressed
    <3> QED
      BY <2>1, <3>1, <3>3
  <2>3. ASSUME w.equiped_by[o] # NIL
        PROVE  \E q \in E : E = {q}
    <3>1. PICK p \in Slot : w.equipment[w.equiped_by[o]][p] = o
      BY <1>1, <2>3 DEF Dressed
    <3>2. <<w.equiped_by[o], p>> \in E
      BY <1>3, <2>3, <3>1
    <3> QED
      BY <2>2, <3>2
  <2>4. ASSUME w.equiped_by[o] = NIL
        PROVE  E = {}
    BY <2>1, <2>4, ThingsAssumption
  <2> QED
    BY <2>3, <2>4
<1>8. Places(o) = {<<"room", r>> : r \in A} \cup {<<"hands", c>> : c \in B}
                  \cup {<<"inside", x>> : x \in D} \cup {<<"worn", q>> : q \in E}
  BY DEF Places
<1> HIDE DEF A, B, D, E
<1>9. o \in LiveObj <=> Somewhere(w, o)
  BY <1>1 DEF Housed, LiveObj
<1>10. CASE ~Somewhere(w, o)
  <2>1. A = {} /\ B = {} /\ D = {} /\ E = {}
    BY <1>4, <1>5, <1>6, <1>7, <1>10 DEF Somewhere
  <2>2. Places(o) = {}
    BY <1>8, <2>1
  <2> QED
    BY <1>9, <1>10, <2>2, FS_EmptySet DEF InOnePlace
<1>11. CASE Somewhere(w, o)
  <2>1. \/ A # {} /\ B = {} /\ D = {} /\ E = {}
        \/ A = {} /\ B # {} /\ D = {} /\ E = {}
        \/ A = {} /\ B = {} /\ D # {} /\ E = {}
        \/ A = {} /\ B = {} /\ D = {} /\ E # {}
    BY <1>1, <1>4, <1>5, <1>6, <1>7, <1>11 DEF Somewhere, Apart
  <2>2. /\ A # {} => A = {w.in_room[o]}
        /\ B # {} => B = {w.carried_by[o]}
        /\ D # {} => D = {w.in_obj[o]}
    BY <1>4, <1>5, <1>6
  <2>3. E # {} => \E q : E = {q}
    BY <1>7
  <2>4. \E x : Places(o) = {x}
    <3>1. CASE A # {} /\ B = {} /\ D = {} /\ E = {}
      <4>1. Places(o) = {<<"room", w.in_room[o]>>}
        BY <1>8, <2>2, <3>1
      <4> QED
        BY <4>1
    <3>2. CASE A = {} /\ B # {} /\ D = {} /\ E = {}
      <4>1. Places(o) = {<<"hands", w.carried_by[o]>>}
        BY <1>8, <2>2, <3>2
      <4> QED
        BY <4>1
    <3>3. CASE A = {} /\ B = {} /\ D # {} /\ E = {}
      <4>1. Places(o) = {<<"inside", w.in_obj[o]>>}
        BY <1>8, <2>2, <3>3
      <4> QED
        BY <4>1
    <3>4. CASE A = {} /\ B = {} /\ D = {} /\ E # {}
      <4>1. PICK q : E = {q}
        BY <2>3, <3>4
      <4>2. Places(o) = {<<"worn", q>>}
        BY <1>8, <3>4, <4>1
      <4> QED
        BY <4>2
    <3> QED
      BY <2>1, <3>1, <3>2, <3>3, <3>4
  <2> QED
    BY <1>9, <1>11, <2>4, FS_Singleton DEF InOnePlace
<1> QED
  BY <1>10, <1>11

(* Through every command, spell, death, purge and reset, an object is in   *)
(* one list and its pointers name it; freed records are in none; no object *)
(* is inside itself; carry_items counts what is carried; and who is out of *)
(* the world has left nothing on himself.                                  *)
THEOREM AlwaysOnePlace == BelongSpec => []OnePlace
<1>1. Right(w) /\ ~w.short => OnePlace
  <2> SUFFICES ASSUME Right(w), ~w.short
               PROVE  OnePlace
    OBVIOUS
  <2>1. \A o \in Obj : InOnePlace(o) /\ PointersAgree(o)
    BY PlacesIn, PlaceIs
  <2>2. \A c \in Body : CarryCount(c)
    BY DEF CarryCount, Present, Worn, Right, Sound, Orderly, Counted, LeftBare
  <2>3. Untied(w.in_obj)
    BY DEF Right, Sound, Orderly
  <2> QED
    BY <2>1, <2>2, <2>3 DEF OnePlace
<1> QED
  BY <1>1, ThingsAlways, PTL
=============================================================================
