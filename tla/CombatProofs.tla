---------------------------- MODULE CombatProofs ----------------------------
(***************************************************************************)
(* The fights, whatever the number of players, mobs and rooms: combat_list *)
(* holds exactly those who fight, nobody fights with one who is gone, and  *)
(* the cursor of the round is always a fighter's.                          *)
(***************************************************************************)
EXTENDS Combat, DataLemmas

Worlds ==
  [list   : Seq(Char),
   next   : Char \cup {None},
   fight  : [Char -> Char \cup {None}],
   pos    : [Char -> DEAD .. STANDING],
   hit    : [Char -> Wounds],
   room   : [Char -> Rooms \cup {Void, Nowhere}],
   was    : [Char -> Rooms \cup {Void, Nowhere}],
   linked : SUBSET Players,
   master : [Mobs -> Players \cup {None}],
   hunt   : [Char -> Char \cup {None}]]

Fighters(w) == {c \in Char : w.fight[c] # None}

Once(q) == \A i, k \in 1 .. Len(q) : q[i] = q[k] => i = k

(* The list is the fighters', and each of them is in it once. *)
Listed(w) ==
  /\ Once(w.list)
  /\ \A c \in Char : w.fight[c] # None <=> \E k \in 1 .. Len(w.list) : w.list[k] = c

Bodily(w) ==
  /\ \A c \in Char : w.fight[c] # None => w.room[c] # Nowhere /\ w.room[w.fight[c]] # Nowhere
  /\ \A c \in Char : w.hunt[c] # None => w.room[c] # Nowhere /\ w.room[w.hunt[c]] # Nowhere
  /\ \A m \in Mobs : w.master[m] # None => w.room[m] # Nowhere /\ w.room[w.master[m]] # Nowhere

Postured(w) == \A c \in Char : w.pos[c] = FIGHTING => w.fight[c] # None

Cursor(w) == w.next # None => w.fight[w.next] # None

Sound(w) == w \in Worlds /\ Listed(w) /\ Bodily(w) /\ Postured(w) /\ Cursor(w)

(* Whose turn is to come: the cursor and those behind it. *)
ToCome(w) == IF w.next = None THEN {} ELSE Behind(w.list, w.next)

-----------------------------------------------------------------------------
(* The list. *)

(* A fighter's place is his.  *)
LEMMA PlaceFound ==
  ASSUME NEW S, NEW q \in Seq(S), NEW k \in 1 .. Len(q)
  PROVE  Place(q, q[k]) \in 1 .. Len(q) /\ q[Place(q, q[k])] = q[k]
<1>1. DOMAIN q = 1 .. Len(q)
  BY LenProperties
<1>2. \E i \in DOMAIN q : q[i] = q[k]
  BY <1>1
<1> QED
  BY <1>1, <1>2, Zenon DEF Place

LEMMA BehindPlace ==
  ASSUME NEW S, NEW q \in Seq(S), Once(q)
  PROVE  \A k \in 1 .. Len(q) : Behind(q, q[k]) = {q[i] : i \in k .. Len(q)}
<1> SUFFICES ASSUME NEW k \in 1 .. Len(q)
             PROVE  Behind(q, q[k]) = {q[i] : i \in k .. Len(q)}
  OBVIOUS
<1>1. DOMAIN q = 1 .. Len(q) /\ Len(q) \in Nat
  BY LenProperties
<1>2. ASSUME NEW i \in 1 .. Len(q)
      PROVE  (\E j \in 1 .. i : q[j] = q[k]) <=> i \in k .. Len(q)
  <2>1. ASSUME NEW j \in 1 .. i, q[j] = q[k] PROVE i \in k .. Len(q)
    <3>1. j \in 1 .. Len(q)
      BY <1>1
    <3>2. j = k
      BY <2>1, <3>1 DEF Once
    <3> QED
      BY <1>1, <3>2
  <2>2. ASSUME i \in k .. Len(q) PROVE \E j \in 1 .. i : q[j] = q[k]
    BY <1>1, <2>2
  <2> QED
    BY <2>1, <2>2
<1>3. {i \in DOMAIN q : \E j \in 1 .. i : q[j] = q[k]} = k .. Len(q)
  BY <1>1, <1>2
<1> QED
  BY <1>3 DEF Behind

(* Who is behind the next one is behind this one. *)
LEMMA BehindNext ==
  ASSUME NEW S, NEW q \in Seq(S), Once(q), NEW k \in 1 .. Len(q)
  PROVE  Behind(q, q[k]) \ {q[k]} = IF k = Len(q) THEN {} ELSE Behind(q, q[k + 1])
<1>1. Len(q) \in Nat
  BY LenProperties
<1>0. \A i \in 1 .. Len(q) : Behind(q, q[i]) = {q[j] : j \in i .. Len(q)}
  BY BehindPlace, Zenon
<1>2. Behind(q, q[k]) = {q[i] : i \in k .. Len(q)}
  BY <1>0
<1>3. CASE k = Len(q)
  <2>1. \A i \in k .. Len(q) : i = k
    BY <1>1, <1>3
  <2> QED
    BY <1>2, <1>3, <2>1
<1>4. CASE k # Len(q)
  <2>1. k + 1 \in 1 .. Len(q)
    BY <1>1, <1>4
  <2>2. Behind(q, q[k + 1]) = {q[i] : i \in k + 1 .. Len(q)}
    BY <1>0, <2>1
  <2>3. ASSUME NEW i \in k + 1 .. Len(q) PROVE i \in k .. Len(q) /\ q[i] # q[k]
    BY <1>1 DEF Once
  <2>4. ASSUME NEW i \in k .. Len(q), q[i] # q[k] PROVE i \in k + 1 .. Len(q)
    BY <1>1, <2>4
  <2> QED
    BY <1>2, <1>4, <2>2, <2>3, <2>4
<1> QED
  BY <1>3, <1>4

(* Who is put before all others does not come after one of them. *)
LEMMA BehindPushed ==
  ASSUME NEW S, NEW q \in Seq(S), Once(q), NEW c \in S,
         \A k \in 1 .. Len(q) : q[k] # c
  PROVE  /\ <<c>> \o q \in Seq(S) /\ Once(<<c>> \o q)
         /\ \A d : (\E k \in 1 .. Len(<<c>> \o q) : (<<c>> \o q)[k] = d)
                    <=> d = c \/ \E k \in 1 .. Len(q) : q[k] = d
         /\ \A k \in 1 .. Len(q) : Behind(<<c>> \o q, q[k]) = Behind(q, q[k])
<1> DEFINE p == <<c>> \o q
<1>1. Len(q) \in Nat
  BY LenProperties
<1>2. /\ p \in Seq(S) /\ Len(p) = Len(q) + 1
      /\ p[1] = c /\ \A k \in 1 .. Len(q) : p[k + 1] = q[k]
  BY <1>1
<1> HIDE DEF p
<1>3. \A k \in 1 .. Len(p) : p[k] = IF k = 1 THEN c ELSE q[k - 1]
  <2> SUFFICES ASSUME NEW k \in 1 .. Len(p), k # 1 PROVE p[k] = q[k - 1]
    BY <1>2
  <2>1. k - 1 \in 1 .. Len(q) /\ (k - 1) + 1 = k
    BY <1>1, <1>2
  <2> QED
    BY <1>2, <2>1
<1>4. Once(p)
  <2> SUFFICES ASSUME NEW i \in 1 .. Len(p), NEW k \in 1 .. Len(p), p[i] = p[k]
               PROVE  i = k
    BY DEF Once
  <2>1. \A j \in 1 .. Len(p) : j # 1 => j - 1 \in 1 .. Len(q)
    BY <1>1, <1>2
  <2>2. CASE i = 1 \/ k = 1
    BY <1>3, <2>1, <2>2
  <2>3. CASE i # 1 /\ k # 1
    <3>1. i - 1 \in 1 .. Len(q) /\ k - 1 \in 1 .. Len(q) /\ q[i - 1] = q[k - 1]
      BY <1>3, <2>1, <2>3
    <3>2. i - 1 = k - 1
      BY <3>1 DEF Once
    <3> QED
      BY <1>1, <1>2, <3>2
  <2> QED
    BY <2>2, <2>3
<1>5. ASSUME NEW d
      PROVE  (\E k \in 1 .. Len(p) : p[k] = d) <=> d = c \/ \E k \in 1 .. Len(q) : q[k] = d
  <2>1. ASSUME NEW k \in 1 .. Len(p), p[k] = d PROVE d = c \/ \E j \in 1 .. Len(q) : q[j] = d
    <3>1. CASE k = 1
      BY <1>2, <2>1, <3>1
    <3>2. CASE k # 1
      <4>1. k - 1 \in 1 .. Len(q) /\ p[k] = q[k - 1]
        BY <1>1, <1>2, <1>3, <3>2
      <4> QED
        BY <2>1, <4>1
    <3> QED
      BY <3>1, <3>2
  <2>2. ASSUME NEW k \in 1 .. Len(q), q[k] = d PROVE \E j \in 1 .. Len(p) : p[j] = d
    <3>1. k + 1 \in 1 .. Len(p) /\ p[k + 1] = d
      BY <1>1, <1>2, <2>2
    <3> QED
      BY <3>1
  <2>3. 1 \in 1 .. Len(p) /\ p[1] = c
    BY <1>1, <1>2
  <2> QED
    BY <2>1, <2>2, <2>3
<1>6. ASSUME NEW k \in 1 .. Len(q) PROVE Behind(p, q[k]) = Behind(q, q[k])
  <2>1. k + 1 \in 1 .. Len(p) /\ p[k + 1] = q[k]
    BY <1>1, <1>2
  <2>2. \A j \in 1 .. Len(p) : Behind(p, p[j]) = {p[i] : i \in j .. Len(p)}
    BY <1>2, <1>4, BehindPlace, ZenonT(30)
  <2>3. Behind(p, q[k]) = {p[i] : i \in k + 1 .. Len(p)}
    BY <2>1, <2>2
  <2>4. \A j \in 1 .. Len(q) : Behind(q, q[j]) = {q[i] : i \in j .. Len(q)}
    BY BehindPlace, Zenon
  <2>5. Behind(q, q[k]) = {q[i] : i \in k .. Len(q)}
    BY <2>4
  <2>6. ASSUME NEW i \in k .. Len(q) PROVE i + 1 \in k + 1 .. Len(p) /\ p[i + 1] = q[i]
    BY <1>1, <1>2
  <2>7. ASSUME NEW i \in k + 1 .. Len(p) PROVE i - 1 \in k .. Len(q) /\ q[i - 1] = p[i]
    BY <1>1, <1>2, <1>3
  <2> QED
    BY <2>3, <2>5, <2>6, <2>7
<1> QED
  BY <1>2, <1>4, <1>5, <1>6 DEF p

(* One less in the list: the others keep their order. *)
LEMMA BehindRemoved ==
  ASSUME NEW S, NEW q \in Seq(S), Once(q), NEW k \in 1 .. Len(q)
  PROVE  /\ RemoveAt(q, k) \in Seq(S) /\ Once(RemoveAt(q, k))
         /\ \A d : (\E i \in 1 .. Len(RemoveAt(q, k)) : RemoveAt(q, k)[i] = d)
                    <=> d # q[k] /\ \E i \in 1 .. Len(q) : q[i] = d
         /\ \A i \in 1 .. Len(q) :
              q[i] # q[k] => Behind(RemoveAt(q, k), q[i]) = Behind(q, q[i]) \ {q[k]}
<1> DEFINE p == RemoveAt(q, k)
<1>1. Len(q) \in Nat
  BY LenProperties
<1>2. /\ p \in Seq(S) /\ Len(p) = Len(q) - 1
      /\ \A i \in 1 .. Len(p) : p[i] = IF i < k THEN q[i] ELSE q[i + 1]
  BY RemoveAtProperties
<1> HIDE DEF p
<1>3. \A i \in 1 .. Len(p) :
        /\ i \in 1 .. Len(q) /\ i + 1 \in 1 .. Len(q)
        /\ p[i] = q[IF i < k THEN i ELSE i + 1]
  BY <1>1, <1>2, SMTT(30)
<1>4. Once(p)
  BY <1>1, <1>2, <1>3 DEF Once
<1>5. ASSUME NEW i \in 1 .. Len(q), i # k
      PROVE  /\ (IF i < k THEN i ELSE i - 1) \in 1 .. Len(p)
             /\ p[IF i < k THEN i ELSE i - 1] = q[i]
  <2>1. CASE i < k
    BY <1>1, <1>2, <2>1
  <2>2. CASE i > k
    <3>1. i - 1 \in 1 .. Len(p) /\ ~(i - 1 < k) /\ (i - 1) + 1 = i
      BY <1>1, <1>2, <2>2
    <3> QED
      BY <1>2, <2>2, <3>1
  <2> QED
    BY <1>1, <1>5, <2>1, <2>2
<1>6. ASSUME NEW d
      PROVE  (\E i \in 1 .. Len(p) : p[i] = d) <=> d # q[k] /\ \E i \in 1 .. Len(q) : q[i] = d
  <2>1. ASSUME NEW i \in 1 .. Len(p), p[i] = d
        PROVE  d # q[k] /\ \E j \in 1 .. Len(q) : q[j] = d
    <3>1. PICK j \in 1 .. Len(q) : j # k /\ p[i] = q[j]
      BY <1>1, <1>3
    <3> QED
      BY <2>1, <3>1 DEF Once
  <2>2. ASSUME NEW i \in 1 .. Len(q), q[i] = d, d # q[k] PROVE \E j \in 1 .. Len(p) : p[j] = d
    <3>1. i # k
      BY <2>2
    <3> QED
      BY <1>5, <2>2, <3>1
  <2> QED
    BY <2>1, <2>2
<1>7. ASSUME NEW i \in 1 .. Len(q), q[i] # q[k]
      PROVE  Behind(p, q[i]) = Behind(q, q[i]) \ {q[k]}
  <2> DEFINE h == IF i < k THEN i ELSE i - 1
  <2>1. i # k
    BY <1>7
  <2>2. h \in 1 .. Len(p) /\ p[h] = q[i]
    BY <1>5, <2>1
  <2>3. \A j \in 1 .. Len(p) : Behind(p, p[j]) = {p[n] : n \in j .. Len(p)}
    BY <1>2, <1>4, BehindPlace, Zenon
  <2> HIDE DEF h
  <2>4. Behind(p, q[i]) = {p[n] : n \in h .. Len(p)}
    BY <2>2, <2>3
  <2>5. \A j \in 1 .. Len(q) : Behind(q, q[j]) = {q[n] : n \in j .. Len(q)}
    BY BehindPlace, Zenon
  <2>6. Behind(q, q[i]) = {q[n] : n \in i .. Len(q)}
    BY <2>5
  <2>7. ASSUME NEW n \in h .. Len(p) PROVE \E j \in i .. Len(q) : q[j] = p[n] /\ q[j] # q[k]
    <3>1. n \in 1 .. Len(p)
      BY <1>1, <1>2, <2>2
    <3>2. p[n] = q[IF n < k THEN n ELSE n + 1] /\ (IF n < k THEN n ELSE n + 1) \in 1 .. Len(q)
      BY <1>3, <3>1
    <3>3. (IF n < k THEN n ELSE n + 1) \in i .. Len(q) /\ (IF n < k THEN n ELSE n + 1) # k
      BY <1>1, <1>2, <2>1, <2>2 DEF h
    <3> QED
      BY <3>2, <3>3 DEF Once
  <2>8. ASSUME NEW n \in i .. Len(q), q[n] # q[k] PROVE \E j \in h .. Len(p) : p[j] = q[n]
    <3>1. n \in 1 .. Len(q) /\ n # k
      BY <1>1, <2>8
    <3>2. (IF n < k THEN n ELSE n - 1) \in h .. Len(p)
      BY <1>1, <1>2, <2>1, <3>1 DEF h
    <3> QED
      BY <1>5, <3>1, <3>2
  <2>9. ASSUME NEW y \in Behind(p, q[i])
        PROVE  y \in Behind(q, q[i]) \ {q[k]}
    BY <2>4, <2>6, <2>7
  <2>10. ASSUME NEW y \in Behind(q, q[i]) \ {q[k]}
         PROVE  y \in Behind(p, q[i])
    BY <2>4, <2>6, <2>8
  <2> QED
    BY <2>9, <2>10
<1> QED
  BY <1>2, <1>4, <1>6, <1>7 DEF p

-----------------------------------------------------------------------------
(* What the handlers do to the list of the fighters and to the cursor.     *)

(* Nothing at all. *)
SameFights(w, x) == x.list = w.list /\ x.next = w.next /\ x.fight = w.fight

(* Some no longer fight, and lose the turn they would have had. *)
Stops(w, x) ==
  /\ Fighters(x) \subseteq Fighters(w)
  /\ ToCome(x) = ToCome(w) \cap Fighters(x)

(* Some fight, without a turn before the next round. *)
Joins(w, x) ==
  /\ Fighters(w) \subseteq Fighters(x)
  /\ ToCome(x) = ToCome(w)

(* Both. *)
Kept(w, x) == ToCome(x) = ToCome(w) \cap Fighters(x)

(* The fights of cs have ended. *)
Halted(w, x, cs) ==
  /\ Sound(x) /\ Stops(w, x)
  /\ x.fight = [d \in Char |-> IF d \in cs THEN None ELSE w.fight[d]]
  /\ x.room = w.room /\ x.was = w.was /\ x.hit = w.hit
  /\ x.linked = w.linked /\ x.master = w.master /\ x.hunt = w.hunt

LEMMA ToComeFighters ==
  ASSUME NEW w, Sound(w)
  PROVE  /\ ToCome(w) \subseteq Fighters(w)
         /\ w.next # None => w.next \in ToCome(w)
<1>1. w \in Worlds /\ Listed(w) /\ Cursor(w)
  BY DEF Sound
<1>2. w.list \in Seq(Char) /\ w.next \in Char \cup {None} /\ Once(w.list)
  BY <1>1 DEF Worlds, Listed
<1>3. \A k \in 1 .. Len(w.list) : Behind(w.list, w.list[k]) = {w.list[i] : i \in k .. Len(w.list)}
  BY <1>2, BehindPlace, Zenon
<1>4. CASE w.next = None
  BY <1>4 DEF ToCome
<1>5. CASE w.next # None
  <2>1. PICK k \in 1 .. Len(w.list) : w.list[k] = w.next
    BY <1>1, <1>2, <1>5 DEF Cursor, Listed
  <2>2. ToCome(w) = {w.list[i] : i \in k .. Len(w.list)}
    BY <1>3, <1>5, <2>1 DEF ToCome
  <2>3. Len(w.list) \in Nat /\ \A i \in 1 .. Len(w.list) : w.list[i] \in Char
    BY <1>2, LenProperties, ElementOfSeq
  <2>4. ASSUME NEW i \in k .. Len(w.list) PROVE w.list[i] \in Fighters(w)
    <3>1. i \in 1 .. Len(w.list)
      BY <2>3
    <3> QED
      BY <1>1, <2>3, <3>1 DEF Listed, Fighters
  <2>5. k \in k .. Len(w.list)
    BY <2>3
  <2> QED
    BY <2>1, <2>2, <2>4, <2>5
<1> QED
  BY <1>4, <1>5

LEMMA NotPlayerNone == None \notin Char /\ DEAD .. STANDING = 0 .. 8
  BY CombatAssumption DEF DEAD, STANDING

(* update_pos never makes a fighter. *)
LEMMA PositionedType ==
  ASSUME NEW pos \in DEAD .. STANDING, NEW h \in Wounds
  PROVE  /\ Positioned(pos, h) \in DEAD .. STANDING
         /\ Positioned(pos, h) = FIGHTING => pos = FIGHTING
<1>1. h \in 0 .. 4
  BY CombatAssumption DEF Well
<1> QED
  BY <1>1 DEF Positioned, DEAD, STANDING, STUNNED, FIGHTING, Well

LEMMA SetFighting ==
  ASSUME NEW w, Sound(w), NEW c \in Char, NEW v \in Char,
         w.room[c] # Nowhere, w.room[v] # Nowhere
  PROVE  LET x == set_fighting(w, c, v)
         IN  /\ Sound(x) /\ Joins(w, x)
             /\ x.fight = [w.fight EXCEPT ![c] = IF @ = None THEN v ELSE @]
             /\ \A d \in Char : d # c => x.pos[d] = w.pos[d]
             /\ x.room = w.room /\ x.was = w.was /\ x.hit = w.hit
             /\ x.linked = w.linked /\ x.master = w.master /\ x.hunt = w.hunt
<1> DEFINE x == set_fighting(w, c, v)
<1>1. w \in Worlds /\ Listed(w) /\ Bodily(w) /\ Postured(w) /\ Cursor(w)
  BY DEF Sound
<1>2. w.list \in Seq(Char) /\ Once(w.list) /\ DOMAIN w.list = 1 .. Len(w.list)
  BY <1>1, LenProperties DEF Worlds, Listed
<1>3. Contains(w.list, c) <=> w.fight[c] # None
  BY <1>1, <1>2 DEF Listed, Contains
<1>4. CASE w.fight[c] # None
  <2>1. x = w
    BY <1>3, <1>4 DEF set_fighting
  <2>2. [w.fight EXCEPT ![c] = IF @ = None THEN v ELSE @] = w.fight
    BY <1>1, <1>4 DEF Worlds
  <2> HIDE DEF x
  <2> QED
    BY <2>1, <2>2 DEF Joins, x
<1>5. CASE w.fight[c] = None
  <2>1. x = [w EXCEPT !.list = <<c>> \o w.list, !.fight[c] = v, !.pos[c] = FIGHTING]
    BY <1>3, <1>5 DEF set_fighting
  <2> HIDE DEF x
  <2>2. \A k \in 1 .. Len(w.list) : w.list[k] # c
    BY <1>1, <1>5 DEF Listed
  <2> DEFINE q == <<c>> \o w.list
  <2>3. /\ q \in Seq(Char) /\ Once(q)
        /\ \A d : (\E k \in 1 .. Len(q) : q[k] = d) <=> d = c \/ \E k \in 1 .. Len(w.list) : w.list[k] = d
        /\ \A k \in 1 .. Len(w.list) : Behind(q, w.list[k]) = Behind(w.list, w.list[k])
    BY <1>2, <2>2, BehindPushed, ZenonT(30)
  <2>4. x = [w EXCEPT !.list = q, !.fight[c] = v, !.pos[c] = FIGHTING]
    BY <2>1
  <2> HIDE DEF q
  <2>5. /\ x \in Worlds
        /\ x.list = q /\ x.next = w.next
        /\ x.fight = [w.fight EXCEPT ![c] = v] /\ x.pos = [w.pos EXCEPT ![c] = FIGHTING]
        /\ x.room = w.room /\ x.was = w.was /\ x.hit = w.hit
        /\ x.linked = w.linked /\ x.master = w.master /\ x.hunt = w.hunt
    <3>1. FIGHTING \in DEAD .. STANDING
      BY DEF FIGHTING, DEAD, STANDING
    <3> QED
      BY <1>1, <2>3, <2>4, <3>1 DEF Worlds
  <2>6. w.fight \in [Char -> Char \cup {None}] /\ w.pos \in [Char -> DEAD .. STANDING]
    BY <1>1 DEF Worlds
  <2>7. Fighters(x) = Fighters(w) \cup {c}
    BY <2>5, <2>6, NotPlayerNone DEF Fighters
  <2>8. Listed(x)
    <3>1. ASSUME NEW d \in Char
          PROVE  x.fight[d] # None <=> d = c \/ w.fight[d] # None
      BY <2>5, <2>6, NotPlayerNone
    <3>2. ASSUME NEW d \in Char
          PROVE  x.fight[d] # None <=> \E k \in 1 .. Len(q) : q[k] = d
      BY <1>1, <2>3, <3>1 DEF Listed
    <3> QED
      BY <2>3, <2>5, <3>2 DEF Listed
  <2>9. Bodily(x) /\ Postured(x) /\ Cursor(x)
    BY <1>1, <1>5, <2>5, <2>6, NotPlayerNone DEF Bodily, Postured, Cursor
  <2>10. ToCome(x) = ToCome(w)
    <3>1. CASE w.next = None
      BY <2>5, <3>1 DEF ToCome
    <3>2. CASE w.next # None
      <4>1. w.next \in Char
        BY <1>1, <3>2 DEF Worlds
      <4>2. PICK k \in 1 .. Len(w.list) : w.list[k] = w.next
        BY <1>1, <3>2, <4>1 DEF Cursor, Listed
      <4> QED
        BY <2>3, <2>5, <3>2, <4>2 DEF ToCome
    <3> QED
      BY <3>1, <3>2
  <2> QED
    BY <1>5, <2>5, <2>6, <2>7, <2>8, <2>9, <2>10 DEF Sound, Joins, x
<1> QED
  BY <1>4, <1>5

LEMMA StopFighting ==
  ASSUME NEW w, Sound(w), NEW c \in Char
  PROVE  Halted(w, stop_fighting(w, c), {c})
<1> DEFINE x == stop_fighting(w, c)
<1>1. w \in Worlds /\ Listed(w) /\ Bodily(w) /\ Postured(w) /\ Cursor(w)
  BY DEF Sound
<1>2. w.list \in Seq(Char) /\ Once(w.list) /\ DOMAIN w.list = 1 .. Len(w.list)
  BY <1>1, LenProperties DEF Worlds, Listed
<1>3. w.fight \in [Char -> Char \cup {None}] /\ w.next \in Char \cup {None}
  BY <1>1 DEF Worlds
<1>4. CASE w.fight[c] = None
  <2>1. x = w
    BY <1>4 DEF stop_fighting
  <2>2. ToCome(w) \subseteq Fighters(w)
    BY ToComeFighters
  <2> HIDE DEF x
  <2> QED
    BY <1>3, <1>4, <2>1, <2>2 DEF Halted, Stops, x
<1>5. CASE w.fight[c] # None
  <2> DEFINE k == Place(w.list, c)
             q == RemoveAt(w.list, k)
             n == IF w.next = c THEN After(w.list, c) ELSE w.next
  <2>1. PICK j \in 1 .. Len(w.list) : w.list[j] = c
    BY <1>1, <1>5 DEF Listed
  <2>2. k \in 1 .. Len(w.list) /\ w.list[k] = c
    <3>1. Place(w.list, w.list[j]) \in 1 .. Len(w.list) /\ w.list[Place(w.list, w.list[j])] = w.list[j]
      BY <1>2, PlaceFound, Zenon
    <3> QED
      BY <2>1, <3>1
  <2>3. x = [w EXCEPT !.next = n, !.list = q, !.fight[c] = None,
                      !.pos[c] = Positioned(STANDING, w.hit[c])]
    BY <1>5 DEF stop_fighting, Unlinked
  <2>4. After(w.list, c) = IF k = Len(w.list) THEN None ELSE w.list[k + 1]
    BY DEF After
  <2> HIDE DEF k, x
  <2>5. /\ q \in Seq(Char) /\ Once(q)
        /\ \A d : (\E i \in 1 .. Len(q) : q[i] = d)
                     <=> d # w.list[k] /\ \E i \in 1 .. Len(w.list) : w.list[i] = d
        /\ \A i \in 1 .. Len(w.list) :
             w.list[i] # w.list[k] => Behind(q, w.list[i]) = Behind(w.list, w.list[i]) \ {w.list[k]}
    BY <1>2, <2>2, BehindRemoved, Zenon
  <2>6. Behind(w.list, w.list[k]) \ {w.list[k]}
          = IF k = Len(w.list) THEN {} ELSE Behind(w.list, w.list[k + 1])
    BY <1>2, <2>2, BehindNext, Zenon
  <2> HIDE DEF q
  <2>7. Len(w.list) \in Nat /\ \A i \in 1 .. Len(w.list) : w.list[i] \in Char
    BY <1>2, LenProperties, ElementOfSeq
  <2>8. k # Len(w.list) => k + 1 \in 1 .. Len(w.list) /\ w.list[k + 1] # c
    BY <1>2, <2>2, <2>7 DEF Once
  <2>9. n \in Char \cup {None} /\ n # c
    BY <1>3, <2>4, <2>7, <2>8, NotPlayerNone
  <2>10. ASSUME n # None PROVE w.fight[n] # None
    <3>1. CASE w.next = c
      BY <1>1, <2>4, <2>7, <2>8, <2>10, <3>1 DEF Listed
    <3>2. CASE w.next # c
      BY <1>1, <2>10, <3>2 DEF Cursor
    <3> QED
      BY <3>1, <3>2
  <2>11. (IF n = None THEN {} ELSE Behind(q, n)) = ToCome(w) \ {c}
    <3>1. CASE w.next = None
      BY <3>1, NotPlayerNone DEF ToCome
    <3>2. CASE w.next = c
      <4>1. ToCome(w) = Behind(w.list, c)
        BY <3>2, NotPlayerNone DEF ToCome
      <4>2. CASE k = Len(w.list)
        BY <2>2, <2>4, <2>6, <3>2, <4>1, <4>2
      <4>3. CASE k # Len(w.list)
        <5>1. n = w.list[k + 1] /\ n # None
          BY <2>4, <2>7, <2>8, <3>2, <4>3, NotPlayerNone
        <5>2. Behind(q, n) = Behind(w.list, n) \ {c}
          BY <2>2, <2>5, <2>8, <4>3, <5>1
        <5> QED
          BY <2>2, <2>6, <4>1, <4>3, <5>1, <5>2
      <4> QED
        BY <4>2, <4>3
    <3>3. CASE w.next # None /\ w.next # c
      <4>1. PICK i \in 1 .. Len(w.list) : w.list[i] = w.next
        BY <1>1, <1>3, <3>3 DEF Cursor, Listed
      <4> QED
        BY <2>2, <2>5, <3>3, <4>1 DEF ToCome
    <3> QED
      BY <3>1, <3>2, <3>3
  <2> HIDE DEF n
  <2>12. Positioned(STANDING, w.hit[c]) \in DEAD .. STANDING /\ Positioned(STANDING, w.hit[c]) # FIGHTING
    <3>1. w.hit[c] \in Wounds /\ STANDING \in DEAD .. STANDING /\ STANDING # FIGHTING
      BY <1>1 DEF Worlds, STANDING, DEAD, FIGHTING
    <3> QED
      BY <3>1, PositionedType
  <2> DEFINE p == Positioned(STANDING, w.hit[c])
  <2>13. x = [w EXCEPT !.next = n, !.list = q, !.fight[c] = None, !.pos[c] = p]
    BY <2>3
  <2>14. p \in DEAD .. STANDING /\ p # FIGHTING
    BY <2>12
  <2> HIDE DEF p
  <2>15. /\ x \in Worlds
         /\ x.list = q /\ x.next = n
         /\ x.fight = [w.fight EXCEPT ![c] = None] /\ x.pos = [w.pos EXCEPT ![c] = p]
         /\ x.room = w.room /\ x.was = w.was /\ x.hit = w.hit
         /\ x.linked = w.linked /\ x.master = w.master /\ x.hunt = w.hunt
    BY <1>1, <2>5, <2>9, <2>13, <2>14 DEF Worlds
  <2>16. w.pos \in [Char -> DEAD .. STANDING]
    BY <1>1 DEF Worlds
  <2>17. Fighters(x) = Fighters(w) \ {c}
    BY <1>3, <2>15 DEF Fighters
  <2>18. Listed(x)
    BY <1>1, <1>3, <2>2, <2>5, <2>15, ZenonT(30) DEF Listed
  <2>19. Bodily(x) /\ Postured(x) /\ Cursor(x)
    BY <1>1, <1>3, <2>9, <2>10, <2>14, <2>15, <2>16 DEF Bodily, Postured, Cursor
  <2>20. ToCome(x) = ToCome(w) \ {c}
    BY <2>11, <2>15 DEF ToCome
  <2>21. ToCome(w) \subseteq Fighters(w)
    BY ToComeFighters
  <2>22. x.fight = [d \in Char |-> IF d \in {c} THEN None ELSE w.fight[d]]
    BY <1>3, <2>15
  <2> QED
    BY <2>15, <2>17, <2>18, <2>19, <2>20, <2>21, <2>22 DEF Halted, Sound, Stops, x
<1> QED
  BY <1>4, <1>5

LEMMA HaltedTwice ==
  ASSUME NEW w, NEW x, NEW y, NEW A, NEW B, Halted(w, x, A), Halted(x, y, B)
  PROVE  Halted(w, y, A \cup B)
<1>1. Stops(w, y)
  BY DEF Halted, Stops
<1>2. y.fight = [d \in Char |-> IF d \in A \cup B THEN None ELSE w.fight[d]]
  BY DEF Halted
<1> QED
  BY <1>1, <1>2 DEF Halted

LEMMA HaltedNone ==
  ASSUME NEW w, Sound(w), NEW A, \A c \in A \cap Char : w.fight[c] = None
  PROVE  Halted(w, w, A)
<1>1. w.fight \in [Char -> Char \cup {None}]
  BY DEF Sound, Worlds
<1>2. ToCome(w) \subseteq Fighters(w)
  BY ToComeFighters
<1>3. w.fight = [d \in Char |-> IF d \in A THEN None ELSE w.fight[d]]
  BY <1>1
<1> QED
  BY <1>2, <1>3 DEF Halted, Stops

(* The same end, for fighters named otherwise. *)
LEMMA HaltedSame ==
  ASSUME NEW w, NEW x, NEW A, NEW B, Halted(w, x, A), Sound(w),
         \A c \in Char : w.fight[c] # None => (c \in A <=> c \in B)
  PROVE  Halted(w, x, B)
<1>1. [d \in Char |-> IF d \in A THEN None ELSE w.fight[d]]
        = [d \in Char |-> IF d \in B THEN None ELSE w.fight[d]]
  OBVIOUS
<1> QED
  BY <1>1 DEF Halted

(* The walk of StopAll, a place at a time. *)
Tread(w, cs, x, k) == IF w.list[k] \in cs THEN stop_fighting(x, w.list[k]) ELSE x

Trodden(w, cs, f, n) ==
  f = [k \in 0 .. n |-> IF k = 0 THEN w ELSE Tread(w, cs, f[k - 1], k)]

LEMMA TroddenExists ==
  ASSUME NEW w, NEW cs
  PROVE  \A n \in Nat : \E f : Trodden(w, cs, f, n)
<1> DEFINE T == {n \in Nat : \E f : Trodden(w, cs, f, n)}
<1>1. 0 \in T
  <2> DEFINE f == [k \in 0 .. 0 |-> w]
  <2>1. f = [k \in 0 .. 0 |-> IF k = 0 THEN w ELSE Tread(w, cs, f[k - 1], k)]
    OBVIOUS
  <2> QED
    BY <2>1 DEF Trodden
<1>2. ASSUME NEW n \in T PROVE n + 1 \in T
  <2>1. PICK f : Trodden(w, cs, f, n)
    OBVIOUS
  <2> DEFINE g == [k \in 0 .. n + 1 |-> IF k <= n THEN f[k] ELSE Tread(w, cs, f[n], n + 1)]
  <2>2. ASSUME NEW k \in 0 .. n + 1
        PROVE  g[k] = IF k = 0 THEN w ELSE Tread(w, cs, g[k - 1], k)
    <3>1. CASE k = 0
      BY <2>1, <3>1 DEF Trodden
    <3>2. CASE k \in 1 .. n
      <4>1. g[k] = f[k] /\ g[k - 1] = f[k - 1] /\ k \in 0 .. n
        BY <3>2
      <4>2. f[k] = Tread(w, cs, f[k - 1], k)
        BY <2>1, <3>2, <4>1 DEF Trodden
      <4> QED
        BY <3>2, <4>1, <4>2
    <3>3. CASE k = n + 1
      <4>1. g[k] = Tread(w, cs, f[n], n + 1) /\ g[k - 1] = f[n]
        BY <3>3
      <4> QED
        BY <3>3, <4>1
    <3> QED
      BY <3>1, <3>2, <3>3
  <2>3. DOMAIN g = 0 .. n + 1 /\ g = [k \in 0 .. n + 1 |-> g[k]]
    OBVIOUS
  <2> HIDE DEF g
  <2>4. g = [k \in 0 .. n + 1 |-> IF k = 0 THEN w ELSE Tread(w, cs, g[k - 1], k)]
    BY <2>2, <2>3
  <2>5. Trodden(w, cs, g, n + 1)
    BY <2>4 DEF Trodden
  <2> QED
    BY <2>5
<1> HIDE DEF T
<1>3. T \subseteq Nat
  BY DEF T
<1>4. T = Nat
  BY <1>1, <1>2, <1>3, EveryNumber
<1> QED
  BY <1>4 DEF T

LEMMA StopAllTrodden ==
  ASSUME NEW w, Sound(w), NEW cs
  PROVE  \E f : Trodden(w, cs, f, Len(w.list)) /\ StopAll(w, cs) = f[Len(w.list)]
<1>1. Len(w.list) \in Nat
  BY LenProperties DEF Sound, Worlds
<1>2. \E f : Trodden(w, cs, f, Len(w.list))
  BY <1>1, TroddenExists
<1>3. StopAll(w, cs) = (CHOOSE f : Trodden(w, cs, f, Len(w.list)))[Len(w.list)]
  BY Zenon DEF StopAll, Trodden, Tread
<1> QED
  BY <1>2, <1>3, Zenon

LEMMA StopAllHalts ==
  ASSUME NEW w, Sound(w), NEW cs
  PROVE  Halted(w, StopAll(w, cs), cs)
<1> DEFINE N == Len(w.list)
           Met(n) == cs \cap {w.list[i] : i \in 1 .. n}
<1>1. /\ N \in Nat /\ \A i \in 1 .. N : w.list[i] \in Char
      /\ \A c \in Char : w.fight[c] # None => \E i \in 1 .. N : w.list[i] = c
  BY LenProperties, ElementOfSeq DEF Sound, Worlds, Listed
<1>2. PICK f : Trodden(w, cs, f, N) /\ StopAll(w, cs) = f[N]
  BY StopAllTrodden
<1>3. f[0] = w /\ \A k \in 1 .. N : f[k] = Tread(w, cs, f[k - 1], k)
  BY <1>1, <1>2 DEF Trodden
<1> DEFINE T == {n \in Nat : n <= N => Halted(w, f[n], Met(n))}
<1> HIDE DEF N
<1>4. 0 \in T
  <2>1. Met(0) = {}
    OBVIOUS
  <2>2. Halted(w, w, {})
    BY HaltedNone
  <2> QED
    BY <1>3, <2>1, <2>2
<1>5. ASSUME NEW n \in T, n + 1 <= N PROVE Halted(w, f[n + 1], Met(n + 1))
  <2>1. n + 1 \in 1 .. N /\ (n + 1) - 1 = n /\ n \in Nat
    BY <1>1, <1>5
  <2>2. Halted(w, f[n], Met(n))
    BY <1>1, <1>5
  <2>3. f[n + 1] = Tread(w, cs, f[n], n + 1)
    BY <1>3, <2>1
  <2>4. w.list[n + 1] \in Char /\ Sound(f[n])
    BY <1>1, <2>1, <2>2 DEF Halted
  <2>5. 1 .. n + 1 = (1 .. n) \cup {n + 1}
    BY <2>1
  <2>6. Met(n + 1) = Met(n) \cup (cs \cap {w.list[n + 1]})
    BY <2>5
  <2> HIDE DEF Met
  <2>7. CASE w.list[n + 1] \in cs
    <3>1. Met(n + 1) = Met(n) \cup {w.list[n + 1]}
      BY <2>6, <2>7
    <3>2. Halted(f[n], f[n + 1], {w.list[n + 1]})
      BY <2>3, <2>4, <2>7, StopFighting DEF Tread
    <3> QED
      BY <2>2, <3>1, <3>2, HaltedTwice
  <2>8. CASE w.list[n + 1] \notin cs
    <3>1. Met(n + 1) = Met(n) /\ f[n + 1] = f[n]
      BY <2>3, <2>6, <2>8 DEF Tread
    <3> QED
      BY <2>2, <3>1
  <2> QED
    BY <2>7, <2>8
<1>6. ASSUME NEW n \in T PROVE n + 1 \in T
  <2>1. n + 1 \in Nat
    OBVIOUS
  <2>2. n + 1 <= N => Halted(w, f[n + 1], Met(n + 1))
    BY <1>5
  <2> HIDE DEF Met
  <2> QED
    BY <2>1, <2>2
<1>7. T \subseteq Nat
  OBVIOUS
<1>8. N \in T
  <2> HIDE DEF T
  <2>1. T = Nat
    BY <1>4, <1>6, <1>7, EveryNumber
  <2> QED
    BY <1>1, <2>1
<1>9. Halted(w, StopAll(w, cs), Met(N))
  BY <1>1, <1>2, <1>8
<1>10. \A c \in Char : w.fight[c] # None => (c \in Met(N) <=> c \in cs)
  BY <1>1
<1> HIDE DEF Met
<1> QED
  BY <1>9, <1>10, HaltedSame

-----------------------------------------------------------------------------
(* Changes that leave the fights alone. *)

LEMMA SoundAlike ==
  ASSUME NEW w, Sound(w), NEW x \in Worlds, SameFights(w, x),
         \A c \in Char : x.pos[c] = FIGHTING => w.pos[c] = FIGHTING \/ w.fight[c] # None,
         \A c \in Char : w.room[c] # Nowhere => x.room[c] # Nowhere,
         \A c \in Char : x.hunt[c] \in {None, w.hunt[c]},
         \A m \in Mobs : x.master[m] \in {None, w.master[m]}
  PROVE  /\ Sound(x) /\ Stops(w, x) /\ Joins(w, x)
         /\ ToCome(x) = ToCome(w) /\ Fighters(x) = Fighters(w)
<1>1. /\ w \in Worlds /\ Listed(w) /\ Bodily(w) /\ Postured(w) /\ Cursor(w)
      /\ x.list = w.list /\ x.next = w.next /\ x.fight = w.fight
  BY DEF Sound, SameFights
<1>2. /\ w.fight \in [Char -> Char \cup {None}] /\ w.hunt \in [Char -> Char \cup {None}]
      /\ w.master \in [Mobs -> Players \cup {None}] /\ Mobs \subseteq Char /\ Players \subseteq Char
  BY <1>1 DEF Worlds, Char
<1>3. Listed(x) /\ Cursor(x) /\ Postured(x)
  BY <1>1 DEF Listed, Cursor, Postured
<1>4. Bodily(x)
  <2>1. ASSUME NEW c \in Char, x.fight[c] # None
        PROVE  x.room[c] # Nowhere /\ x.room[x.fight[c]] # Nowhere
    BY <1>1, <1>2, <2>1 DEF Bodily
  <2>2. ASSUME NEW c \in Char, x.hunt[c] # None
        PROVE  x.room[c] # Nowhere /\ x.room[x.hunt[c]] # Nowhere
    BY <1>1, <1>2, <2>2 DEF Bodily
  <2>3. ASSUME NEW m \in Mobs, x.master[m] # None
        PROVE  x.room[m] # Nowhere /\ x.room[x.master[m]] # Nowhere
    BY <1>1, <1>2, <2>3 DEF Bodily
  <2> QED
    BY <2>1, <2>2, <2>3 DEF Bodily
<1>5. ToCome(x) = ToCome(w) /\ Fighters(x) = Fighters(w)
  BY <1>1 DEF ToCome, Fighters
<1>6. ToCome(w) \subseteq Fighters(w)
  BY ToComeFighters
<1> QED
  BY <1>1, <1>3, <1>4, <1>5, <1>6 DEF Sound, Stops, Joins

(* char_from_world leaves no fight, no hunt and no master behind. *)
LEMMA LeaveWorld ==
  ASSUME NEW w, Sound(w), NEW c \in Char
  PROVE  LET x == char_from_world(w, c)
         IN  Sound(x) /\ Stops(w, x)
<1> DEFINE self == stop_fighting(w, c)
           all == StopAll(self, Against(self, c))
           x == char_from_world(w, c)
           gone == {c} \cup Against(self, c)
<1>1. Halted(w, self, {c})
  BY StopFighting
<1>2. Halted(self, all, Against(self, c))
  BY <1>1, StopAllHalts DEF Halted
<1>3. x = [all EXCEPT
             !.room[c] = Nowhere,
             !.was[c] = Nowhere,
             !.linked = @ \ {c},
             !.pos[c] = STANDING,
             !.hit[c] = Well,
             !.hunt = [d \in Char |-> IF c \in {d, @[d]} THEN None ELSE @[d]],
             !.master = [m \in Mobs |-> IF c \in {m, @[m]} THEN None ELSE @[m]]]
  BY DEF char_from_world
<1>4. Halted(w, all, gone)
  BY <1>1, <1>2, HaltedTwice, Zenon
<1>5. \A d \in Char : all.fight[d] # None => d # c /\ all.fight[d] # c
  BY <1>1, <1>2 DEF Halted, Against
<1> HIDE DEF all, x, self
<1>6. Sound(all) /\ Stops(w, all)
  BY <1>4 DEF Halted
<1>7. /\ all \in Worlds /\ Listed(all) /\ Bodily(all) /\ Postured(all) /\ Cursor(all)
      /\ all.hunt \in [Char -> Char \cup {None}] /\ all.master \in [Mobs -> Players \cup {None}]
      /\ all.fight \in [Char -> Char \cup {None}] /\ all.next \in Char \cup {None}
      /\ all.room \in [Char -> Rooms \cup {Void, Nowhere}] /\ all.pos \in [Char -> DEAD .. STANDING]
  BY <1>6 DEF Sound, Worlds
<1> DEFINE hunt == [d \in Char |-> IF c \in {d, all.hunt[d]} THEN None ELSE all.hunt[d]]
           master == [m \in Mobs |-> IF c \in {m, all.master[m]} THEN None ELSE all.master[m]]
<1>8. x = [all EXCEPT
             !.room[c] = Nowhere,
             !.was[c] = Nowhere,
             !.linked = @ \ {c},
             !.pos[c] = STANDING,
             !.hit[c] = Well,
             !.hunt = hunt,
             !.master = master]
  BY <1>3
<1>9. hunt \in [Char -> Char \cup {None}] /\ master \in [Mobs -> Players \cup {None}]
  BY <1>7
<1>10. STANDING \in DEAD .. STANDING /\ STANDING # FIGHTING
  BY DEF STANDING, DEAD, FIGHTING
<1>11. Well \in Wounds
  BY CombatAssumption
<1> HIDE DEF hunt, master
<1>12. /\ x \in Worlds
       /\ x.list = all.list /\ x.next = all.next /\ x.fight = all.fight
       /\ x.room = [all.room EXCEPT ![c] = Nowhere] /\ x.pos = [all.pos EXCEPT ![c] = STANDING]
       /\ x.hunt = hunt /\ x.master = master
  BY <1>7, <1>8, <1>9, <1>10, <1>11 DEF Worlds
<1>13. Listed(x) /\ Cursor(x)
  BY <1>7, <1>12 DEF Listed, Cursor
<1>14. Postured(x)
  BY <1>7, <1>10, <1>12 DEF Postured
<1>15. Bodily(x)
  <2>1. ASSUME NEW d \in Char, x.fight[d] # None
        PROVE  x.room[d] # Nowhere /\ x.room[x.fight[d]] # Nowhere
    BY <1>5, <1>7, <1>12, <2>1 DEF Bodily
  <2>2. ASSUME NEW d \in Char, x.hunt[d] # None
        PROVE  x.room[d] # Nowhere /\ x.room[x.hunt[d]] # Nowhere
    BY <1>7, <1>12, <2>2 DEF Bodily, hunt
  <2>3. ASSUME NEW m \in Mobs, x.master[m] # None
        PROVE  x.room[m] # Nowhere /\ x.room[x.master[m]] # Nowhere
    BY <1>7, <1>12, <2>3 DEF Bodily, master, Char
  <2> QED
    BY <2>1, <2>2, <2>3 DEF Bodily
<1>16. ToCome(x) = ToCome(all) /\ Fighters(x) = Fighters(all)
  BY <1>12 DEF ToCome, Fighters
<1> QED
  BY <1>6, <1>12, <1>13, <1>14, <1>15, <1>16 DEF Sound, Stops, x

LEMMA MovedSound ==
  ASSUME NEW w, Sound(w), NEW c \in Char, NEW r \in Rooms
  PROVE  Sound(Moved(w, c, r)) /\ SameFights(w, Moved(w, c, r)) /\ Stops(w, Moved(w, c, r))
<1> DEFINE x == Moved(w, c, r)
<1>1. x = [w EXCEPT !.room[c] = r]
  BY DEF Moved
<1>2. w \in Worlds /\ w.room \in [Char -> Rooms \cup {Void, Nowhere}] /\ r # Nowhere
  BY CombatAssumption DEF Sound, Worlds
<1> HIDE DEF x
<1>3. /\ x \in Worlds /\ SameFights(w, x)
      /\ x.room = [w.room EXCEPT ![c] = r] /\ x.pos = w.pos /\ x.hunt = w.hunt /\ x.master = w.master
  BY <1>1, <1>2 DEF Worlds, SameFights
<1> QED
  BY <1>2, <1>3, SoundAlike DEF x

LEMMA StopsTwice ==
  ASSUME NEW w, NEW x, NEW y, Stops(w, x), Stops(x, y)
  PROVE  Stops(w, y)
BY DEF Stops

LEMMA StopsNot ==
  ASSUME NEW w, Sound(w)
  PROVE  Stops(w, w)
BY ToComeFighters DEF Stops

LEMMA FleeSound ==
  ASSUME NEW w, Sound(w), NEW c \in Char, NEW x \in do_flee(w, c)
  PROVE  Sound(x) /\ Stops(w, x)
<1>1. CASE x = w
  BY <1>1, StopsNot
<1>2. ASSUME NEW r \in Exits(w, c), x = Moved(w, c, r) PROVE Sound(x) /\ Stops(w, x)
  BY <1>2, MovedSound DEF Exits
<1>3. ASSUME NEW r \in Exits(w, c), x = stop_fighting(StopAll(Moved(w, c, r), Against(w, c)), c)
      PROVE  Sound(x) /\ Stops(w, x)
  <2> DEFINE y == Moved(w, c, r)
             z == StopAll(y, Against(w, c))
  <2>1. Sound(y) /\ Stops(w, y)
    BY MovedSound DEF Exits
  <2>2. Sound(z) /\ Stops(y, z)
    BY <2>1, StopAllHalts DEF Halted
  <2> HIDE DEF y, z
  <2>3. x = stop_fighting(z, c)
    BY <1>3 DEF z, y
  <2>4. Sound(x) /\ Stops(z, x)
    BY <2>2, <2>3, StopFighting DEF Halted
  <2>5. Stops(w, z)
    BY <2>1, <2>2, StopsTwice
  <2> QED
    BY <2>4, <2>5, StopsTwice
<1> QED
  BY <1>1, <1>2, <1>3 DEF do_flee

-----------------------------------------------------------------------------
(* A blow. *)

LEMMA JoinsTwice ==
  ASSUME NEW w, NEW x, NEW y, Joins(w, x), Joins(x, y)
  PROVE  Joins(w, y)
BY DEF Joins

LEMMA JoinsStops ==
  ASSUME NEW w, NEW x, NEW y, Joins(w, x), Stops(x, y)
  PROVE  Kept(w, y)
BY DEF Joins, Stops, Kept

LEMMA StopsKept ==
  ASSUME NEW w, NEW x, Sound(w), Stops(w, x)
  PROVE  Kept(w, x)
BY DEF Stops, Kept

LEMMA DrawSound ==
  ASSUME NEW w, Sound(w), NEW c \in Char, NEW v \in Char,
         w.room[c] # Nowhere, w.room[v] # Nowhere
  PROVE  LET x == Draw(w, c, v)
         IN  /\ Sound(x) /\ Joins(w, x) /\ x.room = w.room
             /\ w.pos[c] > STUNNED => x.fight[c] # None
<1>1. CASE w.pos[c] > STUNNED /\ w.fight[c] = None
  <2>1. LET x == set_fighting(w, c, v)
        IN  /\ Sound(x) /\ Joins(w, x) /\ x.room = w.room
            /\ x.fight = [w.fight EXCEPT ![c] = IF @ = None THEN v ELSE @]
    BY SetFighting
  <2>2. w.fight \in [Char -> Char \cup {None}]
    BY DEF Sound, Worlds
  <2>3. [w.fight EXCEPT ![c] = IF @ = None THEN v ELSE @][c] # None
    BY <1>1, <2>2, NotPlayerNone
  <2> QED
    BY <1>1, <2>1, <2>3 DEF Draw
<1>2. CASE ~(w.pos[c] > STUNNED /\ w.fight[c] = None)
  BY <1>2 DEF Draw, Joins
<1> QED
  BY <1>1, <1>2

LEMMA DrawnSound ==
  ASSUME NEW w, Sound(w), NEW c \in Char, NEW v \in Char,
         w.room[c] # Nowhere, w.room[v] # Nowhere
  PROVE  LET x == Drawn(w, c, v)
         IN  Sound(x) /\ Joins(w, x) /\ x.room = w.room
<1> DEFINE x == Draw(w, v, c)
           y == IF w.pos[v] > STUNNED THEN [x EXCEPT !.pos[v] = FIGHTING] ELSE x
           z == Drawn(w, c, v)
<1>1. /\ Sound(x) /\ Joins(w, x) /\ x.room = w.room
      /\ w.pos[v] > STUNNED => x.fight[v] # None
  BY DrawSound
<1>2. z = Draw(y, c, v)
  BY DEF Drawn
<1> HIDE DEF x, z
<1>3. Sound(y) /\ Joins(x, y) /\ y.room = x.room
  <2>1. CASE w.pos[v] > STUNNED
    <3>1. y = [x EXCEPT !.pos[v] = FIGHTING]
      BY <2>1
    <3> HIDE DEF y
    <3>2. x \in Worlds /\ FIGHTING \in DEAD .. STANDING /\ x.pos \in [Char -> DEAD .. STANDING]
      BY <1>1 DEF Sound, Worlds, FIGHTING, DEAD, STANDING
    <3>3. /\ y \in Worlds /\ SameFights(x, y) /\ y.room = x.room
          /\ y.pos = [x.pos EXCEPT ![v] = FIGHTING] /\ y.hunt = x.hunt /\ y.master = x.master
      BY <3>1, <3>2 DEF Worlds, SameFights
    <3>4. \A d \in Char : y.pos[d] = FIGHTING => x.pos[d] = FIGHTING \/ x.fight[d] # None
      BY <1>1, <2>1, <3>2, <3>3
    <3> QED
      BY <1>1, <3>3, <3>4, SoundAlike
  <2>2. CASE ~(w.pos[v] > STUNNED)
    BY <1>1, <2>2 DEF Joins
  <2> QED
    BY <2>1, <2>2
<1> HIDE DEF y
<1>4. Sound(z) /\ Joins(y, z) /\ z.room = y.room
  BY <1>1, <1>2, <1>3, DrawSound
<1>5. Joins(w, y)
  BY <1>1, <1>3, JoinsTwice
<1>6. Joins(w, z)
  BY <1>4, <1>5, JoinsTwice
<1> QED
  BY <1>1, <1>3, <1>4, <1>6 DEF z

LEMMA SavedSound ==
  ASSUME NEW w, Sound(w), NEW v \in Char
  PROVE  LET x == Saved(w, v)
         IN  /\ Sound(x) /\ SameFights(w, x)
             /\ x.room = [w.room EXCEPT ![v] = Void]
             /\ Stops(w, x) /\ Joins(w, x)
<1> DEFINE x == Saved(w, v)
<1>1. x = [w EXCEPT !.was[v] = w.room[v], !.room[v] = Void]
  BY DEF Saved
<1>2. w \in Worlds /\ w.room \in [Char -> Rooms \cup {Void, Nowhere}] /\ Void # Nowhere
  BY CombatAssumption DEF Sound, Worlds
<1> HIDE DEF x
<1>3. /\ x \in Worlds /\ SameFights(w, x)
      /\ x.room = [w.room EXCEPT ![v] = Void]
      /\ x.pos = w.pos /\ x.hunt = w.hunt /\ x.master = w.master
  BY <1>1, <1>2 DEF Worlds, SameFights
<1>4. Sound(x) /\ Stops(w, x) /\ Joins(w, x)
  BY <1>2, <1>3, SoundAlike
<1> QED
  BY <1>3, <1>4 DEF x

LEMMA HurtSound ==
  ASSUME NEW w, Sound(w), NEW v \in Char, NEW h \in Wounds
  PROVE  LET x == update_pos([w EXCEPT !.hit[v] = h], v)
         IN  Sound(x) /\ SameFights(w, x) /\ Stops(w, x) /\ x.room = w.room
<1> DEFINE x == update_pos([w EXCEPT !.hit[v] = h], v)
           p == Positioned(w.pos[v], h)
<1>1. w \in Worlds /\ w.pos \in [Char -> DEAD .. STANDING] /\ w.hit \in [Char -> Wounds]
  BY DEF Sound, Worlds
<1>2. x = [w EXCEPT !.hit[v] = h, !.pos[v] = p]
  BY <1>1 DEF update_pos, Worlds
<1>3. p \in DEAD .. STANDING /\ (p = FIGHTING => w.pos[v] = FIGHTING)
  BY <1>1, PositionedType
<1> HIDE DEF x, p
<1>4. /\ x \in Worlds /\ SameFights(w, x) /\ x.room = w.room
      /\ x.pos = [w.pos EXCEPT ![v] = p] /\ x.hunt = w.hunt /\ x.master = w.master
  BY <1>1, <1>2, <1>3 DEF Worlds, SameFights
<1>5. \A d \in Char : x.pos[d] = FIGHTING => w.pos[d] = FIGHTING
  BY <1>1, <1>3, <1>4
<1>6. Sound(x) /\ Stops(w, x)
  BY <1>4, <1>5, SoundAlike
<1> QED
  BY <1>4, <1>6 DEF x

LEMMA WoundedSound ==
  ASSUME NEW w, Sound(w), NEW v \in Char, NEW dam, NEW x \in Wounded(w, v, dam)
  PROVE  Sound(x) /\ Stops(w, x)
<1>1. w.hit \in [Char -> Wounds]
  BY DEF Sound, Worlds
<1>2. PICK h \in Wounds : x = update_pos([w EXCEPT !.hit[v] = h], v)
  BY <1>1 DEF Wounded
<1> QED
  BY <1>2, HurtSound

LEMMA FrightenedSound ==
  ASSUME NEW w, Sound(w), NEW v \in Char, NEW dam, NEW x \in Frightened(w, v, dam)
  PROVE  Sound(x) /\ Stops(w, x)
<1>1. ASSUME NEW y \in Wimpy(w, v) PROVE Sound(y) /\ Stops(w, y)
  BY FleeSound, StopsNot DEF Wimpy
<1>2. CASE x \in Wimpy(w, v)
  BY <1>1, <1>2
<1>3. ASSUME NEW y \in Wimpy(w, v), x \in do_flee(y, v) PROVE Sound(x) /\ Stops(w, x)
  <2>1. Sound(x) /\ Stops(y, x)
    BY <1>1, <1>3, FleeSound
  <2> QED
    BY <1>1, <2>1, StopsTwice
<1> QED
  BY <1>2, <1>3 DEF Frightened

LEMMA FallenSound ==
  ASSUME NEW w, Sound(w), NEW c \in Char, NEW v \in Char
  PROVE  Sound(Fallen(w, c, v)) /\ Stops(w, Fallen(w, c, v))
<1> DEFINE x == IF w.pos[v] = DEAD /\ w.fight[c] = v THEN stop_fighting(w, c) ELSE w
           y == IF ~ AWAKE(w, v) THEN stop_fighting(x, v) ELSE x
           z == IF w.pos[v] = DEAD THEN kill_char(y, v) ELSE y
<1>1. Sound(x) /\ Stops(w, x)
  BY StopFighting, StopsNot DEF Halted
<1> HIDE DEF x
<1>2. Sound(y) /\ Stops(x, y)
  BY <1>1, StopFighting, StopsNot DEF Halted
<1> HIDE DEF y
<1>3. Sound(z) /\ Stops(y, z)
  BY <1>2, LeaveWorld, StopsNot DEF kill_char
<1>4. Fallen(w, c, v) = z
  BY DEF Fallen, x, y
<1> HIDE DEF z
<1>5. Stops(w, y)
  BY <1>1, <1>2, StopsTwice
<1>6. Stops(w, z)
  BY <1>3, <1>5, StopsTwice
<1> QED
  BY <1>3, <1>4, <1>6

LEMMA SufferSound ==
  ASSUME NEW w, Sound(w), NEW c \in Char, NEW v \in Char, NEW dam, NEW x \in Suffer(w, c, v, dam)
  PROVE  Sound(x) /\ Stops(w, x)
<1> DEFINE free == IF v \in Mobs /\ w.master[v] = c THEN [w EXCEPT !.master[v] = None] ELSE w
<1>1. Sound(free) /\ Stops(w, free)
  <2>1. CASE v \in Mobs /\ w.master[v] = c
    <3>1. free = [w EXCEPT !.master[v] = None]
      BY <2>1
    <3> HIDE DEF free
    <3>2. w \in Worlds /\ w.master \in [Mobs -> Players \cup {None}]
      BY DEF Sound, Worlds
    <3>3. /\ free \in Worlds /\ SameFights(w, free) /\ free.room = w.room
          /\ free.pos = w.pos /\ free.hunt = w.hunt
          /\ free.master = [w.master EXCEPT ![v] = None]
      BY <2>1, <3>1, <3>2 DEF Worlds, SameFights
    <3>4. \A m \in Mobs : free.master[m] \in {None, w.master[m]}
      BY <3>2, <3>3
    <3> QED
      BY <3>3, <3>4, SoundAlike
  <2>2. CASE ~(v \in Mobs /\ w.master[v] = c)
    BY <2>2, StopsNot
  <2> QED
    BY <2>1, <2>2
<1>2. PICK a \in Wounded(free, v, dam) : \E b \in Frightened(a, v, dam) : x = Fallen(b, c, v)
  BY DEF Suffer
<1>8. PICK b \in Frightened(a, v, dam) : x = Fallen(b, c, v)
  BY <1>2
<1> HIDE DEF free
<1>3. Sound(a) /\ Stops(free, a)
  BY <1>1, <1>2, WoundedSound
<1>4. Sound(b) /\ Stops(a, b)
  BY <1>3, <1>8, FrightenedSound
<1>5. Sound(x) /\ Stops(b, x)
  BY <1>4, <1>8, FallenSound
<1>6. Stops(w, a)
  BY <1>1, <1>3, StopsTwice
<1>7. Stops(w, b)
  BY <1>4, <1>6, StopsTwice
<1> QED
  BY <1>5, <1>7, StopsTwice

LEMMA StrikeSound ==
  ASSUME NEW w, Sound(w), NEW c \in Char, NEW v \in Char,
         w.room[c] # Nowhere \/ w.room[v] # Nowhere,
         NEW dam, NEW x \in Strike(w, c, v, dam)
  PROVE  Sound(x) /\ Kept(w, x)
<1>1. CASE x = w
  BY <1>1, StopsNot, StopsKept
<1>2. CASE w.room[c] = w.room[v] /\ Rescued(w, v, dam) /\ x \in Suffer(Drawn(Saved(w, v), c, v), c, v, FALSE)
  <2> DEFINE s == Saved(w, v)
             d == Drawn(s, c, v)
  <2>1. Sound(s) /\ Joins(w, s) /\ s.room = [w.room EXCEPT ![v] = Void]
    BY SavedSound
  <2> HIDE DEF s
  <2>2. s.room[c] # Nowhere /\ s.room[v] # Nowhere
    BY <1>2, <2>1, CombatAssumption DEF Sound, Worlds
  <2>3. Sound(d) /\ Joins(s, d)
    BY <2>1, <2>2, DrawnSound
  <2>4. x \in Suffer(d, c, v, FALSE)
    BY <1>2 DEF s
  <2> HIDE DEF d
  <2>5. Sound(x) /\ Stops(d, x)
    BY <2>3, <2>4, SufferSound
  <2>6. Joins(w, d)
    BY <2>1, <2>3, JoinsTwice
  <2> QED
    BY <2>5, <2>6, JoinsStops
<1>3. CASE w.room[c] = w.room[v] /\ x \in Suffer(Drawn(w, c, v), c, v, dam)
  <2> DEFINE d == Drawn(w, c, v)
  <2>1. Sound(d) /\ Joins(w, d)
    BY <1>3, DrawnSound
  <2> HIDE DEF d
  <2>2. Sound(x) /\ Stops(d, x)
    BY <1>3, <2>1, SufferSound DEF d
  <2> QED
    BY <2>1, <2>2, JoinsStops
<1>4. \/ x = w
      \/ w.room[c] = w.room[v] /\ Rescued(w, v, dam) /\ x \in Suffer(Drawn(Saved(w, v), c, v), c, v, FALSE)
      \/ w.room[c] = w.room[v] /\ x \in Suffer(Drawn(w, c, v), c, v, dam)
  BY Zenon DEF Strike
<1> QED
  BY <1>1, <1>2, <1>3, <1>4

(* A turn of the next ones is lost by those who stop, and by one at most   *)
(* who stops and fights again: who has turned on the master of his enemy.  *)
KeptButOne(w, x) == \E again \in Char \cup {None} : ToCome(x) = (ToCome(w) \cap Fighters(x)) \ {again}

LEMMA KeptEnough ==
  ASSUME NEW w, NEW x, Sound(x), Kept(w, x)
  PROVE  KeptButOne(w, x)
<1>1. None \notin ToCome(x)
  BY ToComeFighters, NotPlayerNone DEF Fighters
<1> QED
  BY <1>1 DEF Kept, KeptButOne

LEMMA DamageSound ==
  ASSUME NEW w, Sound(w), NEW c \in Char, NEW v \in Char,
         w.room[c] # Nowhere \/ w.room[v] # Nowhere,
         NEW dam, NEW x \in damage(w, c, v, dam)
  PROVE  Sound(x) /\ KeptButOne(w, x)
<1>1. CASE x \in Strike(w, c, v, dam)
  BY <1>1, StrikeSound, KeptEnough
<1>2. CASE TurnsOnMaster(w, c, v) /\ x \notin Strike(w, c, v, dam)
  <2> DEFINE d == Drawn(w, c, v)
             s == stop_fighting(d, c)
             m == w.master[v]
  <2>1. x = s \/ x \in Strike(s, c, m, TRUE) \/ x \in Strike(s, c, m, FALSE)
    BY <1>2 DEF damage, Struck
  <2>2. /\ c \in Char /\ v \in Char /\ w.room[c] = w.room[v] /\ w.room[c] # Nowhere /\ m \in Char
    BY <1>2 DEF TurnsOnMaster, Sound, Worlds, Char
  <2>3. Sound(d) /\ Joins(w, d) /\ d.room = w.room
    BY <2>2, DrawnSound
  <2> HIDE DEF d, m
  <2>4. Sound(s) /\ Stops(d, s) /\ s.room = w.room
    BY <2>3, StopFighting DEF Halted
  <2>5. Fighters(d) \subseteq Fighters(s) \cup {c}
    <3>1. s.fight = [e \in Char |-> IF e \in {c} THEN None ELSE d.fight[e]]
      BY <2>3, StopFighting DEF Halted
    <3> QED
      BY <3>1 DEF Fighters
  <2> HIDE DEF s
  <2>6. Kept(w, s)
    BY <2>3, <2>4, JoinsStops
  <2>7. CASE x = s
    BY <2>4, <2>6, <2>7, KeptEnough
  <2>8. ASSUME x \in Strike(s, c, m, TRUE) \/ x \in Strike(s, c, m, FALSE)
        PROVE  Sound(x) /\ KeptButOne(w, x)
    <3>1. Sound(x) /\ Kept(s, x)
      BY <2>2, <2>4, <2>8, StrikeSound
    <3>2. ToCome(w) \subseteq Fighters(w)
      BY ToComeFighters
    <3>3. ToCome(x) \subseteq ToCome(w) \cap Fighters(x)
      BY <2>6, <3>1 DEF Kept
    <3>4. (ToCome(w) \cap Fighters(x)) \subseteq ToCome(x) \cup {c}
      BY <2>3, <2>5, <2>6, <3>1, <3>2 DEF Kept, Joins
    <3>5. \/ ToCome(x) = (ToCome(w) \cap Fighters(x)) \ {c}
          \/ ToCome(x) = (ToCome(w) \cap Fighters(x)) \ {None}
      <4>1. None \notin Fighters(x)
        BY NotPlayerNone DEF Fighters
      <4> QED
        BY <3>3, <3>4, <4>1
    <3> QED
      BY <3>1, <3>5 DEF KeptButOne
  <2> QED
    BY <2>1, <2>7, <2>8
<1> QED
  BY <1>1, <1>2 DEF damage

LEMMA BlowSound ==
  ASSUME NEW w, Sound(w), NEW c \in Char, NEW v \in Char,
         w.room[c] # Nowhere \/ w.room[v] # Nowhere,
         NEW x \in hit(w, c, v)
  PROVE  Sound(x) /\ KeptButOne(w, x)
<1>1. CASE x = w
  BY <1>1, StopsNot, StopsKept, KeptEnough
<1>2. CASE x \in Blow(w, c, v)
  BY <1>2, DamageSound DEF Blow
<1> QED
  BY <1>1, <1>2 DEF hit

LEMMA ThrownSound ==
  ASSUME NEW w, Sound(w), NEW v \in Char, NEW p \in {STUNNED, SITTING, SLEEPING, RESTING, STANDING}
  PROVE  LET x == [w EXCEPT !.pos[v] = p]
         IN  /\ Sound(x) /\ Stops(w, x) /\ x.room = w.room /\ x.fight = w.fight
             /\ ToCome(x) = ToCome(w) /\ Fighters(x) = Fighters(w)
<1> DEFINE x == [w EXCEPT !.pos[v] = p]
<1>1. w \in Worlds /\ w.pos \in [Char -> DEAD .. STANDING]
  BY DEF Sound, Worlds
<1>2. p \in DEAD .. STANDING /\ p # FIGHTING
  BY DEF STUNNED, SITTING, SLEEPING, RESTING, STANDING, DEAD, FIGHTING
<1>3. /\ x \in Worlds /\ SameFights(w, x) /\ x.room = w.room
      /\ x.pos = [w.pos EXCEPT ![v] = p] /\ x.hunt = w.hunt /\ x.master = w.master
  BY <1>1, <1>2 DEF Worlds, SameFights
<1> HIDE DEF x
<1>4. \A d \in Char : x.pos[d] = FIGHTING => w.pos[d] = FIGHTING
  BY <1>1, <1>2, <1>3
<1>5. Sound(x) /\ Stops(w, x) /\ ToCome(x) = ToCome(w) /\ Fighters(x) = Fighters(w)
  BY <1>3, <1>4, SoundAlike
<1> QED
  BY <1>3, <1>5 DEF x, SameFights

(* Swords and bashes that throw down. *)
LEMMA ThrownAfter ==
  ASSUME NEW w, NEW x, Sound(x), KeptButOne(w, x), NEW v \in Char, NEW p \in {STUNNED, SITTING}
  PROVE  Sound(Thrown(x, v, p)) /\ KeptButOne(w, Thrown(x, v, p))
<1>1. CASE x.room[v] # Nowhere
  <2> DEFINE y == [x EXCEPT !.pos[v] = p]
  <2>1. Sound(y) /\ ToCome(y) = ToCome(x) /\ Fighters(y) = Fighters(x)
    BY ThrownSound, ZenonT(30)
  <2> HIDE DEF y
  <2>2. Thrown(x, v, p) = y
    BY <1>1 DEF Thrown, y
  <2> QED
    BY <2>1, <2>2 DEF KeptButOne
<1>2. CASE x.room[v] = Nowhere
  BY <1>2 DEF Thrown
<1> QED
  BY <1>1, <1>2

LEMMA MagicWeaponSound ==
  ASSUME NEW w, Sound(w), NEW c \in Char, NEW v \in Char,
         w.room[c] # Nowhere \/ w.room[v] # Nowhere,
         NEW x \in magic_weapon_hit(w, c, v)
  PROVE  Sound(x) /\ KeptButOne(w, x)
<1>1. CASE x \in Blow(w, c, v) \cup Blow(w, v, c)
  BY <1>1, DamageSound DEF Blow
<1>2. ASSUME NEW y \in damage(w, c, v, TRUE), x \in ThrownDown(y, v)
      PROVE  Sound(x) /\ KeptButOne(w, x)
  <2>1. Sound(y) /\ KeptButOne(w, y)
    BY DamageSound
  <2>2. PICK p \in {STUNNED, SITTING} : x = Thrown(y, v, p)
    BY <1>2 DEF ThrownDown
  <2> QED
    BY <2>1, <2>2, ThrownAfter
<1> QED
  BY <1>1, <1>2 DEF magic_weapon_hit

-----------------------------------------------------------------------------
(* Between the rounds: whatever characters do, they leave a sound world,   *)
(* and nobody's turn is to come who had none to come before.               *)

Fine(w, x) == Sound(x) /\ ToCome(x) \subseteq ToCome(w)

LEMMA FineFrom ==
  ASSUME NEW w, NEW x, Sound(x), Stops(w, x) \/ Joins(w, x) \/ Kept(w, x) \/ KeptButOne(w, x)
  PROVE  Fine(w, x)
BY DEF Fine, Stops, Joins, Kept, KeptButOne

LEMMA FineTwice ==
  ASSUME NEW w, NEW x, NEW y, Fine(w, x), Fine(x, y)
  PROVE  Fine(w, y)
BY DEF Fine

LEMMA FineBodily ==
  ASSUME NEW w, Sound(w), NEW x \in Worlds, SameFights(w, x), Bodily(x),
         \A c \in Char : x.pos[c] = FIGHTING => w.pos[c] = FIGHTING \/ w.fight[c] # None
  PROVE  Fine(w, x)
<1>1. /\ Listed(w) /\ Postured(w) /\ Cursor(w)
      /\ x.list = w.list /\ x.next = w.next /\ x.fight = w.fight
  BY DEF Sound, SameFights
<1>2. Listed(x) /\ Cursor(x) /\ Postured(x)
  BY <1>1 DEF Listed, Cursor, Postured
<1>3. ToCome(x) = ToCome(w)
  BY <1>1 DEF ToCome
<1> QED
  BY <1>2, <1>3 DEF Fine, Sound

LEMMA FineHits ==
  ASSUME NEW w, Sound(w), NEW c \in Char, NEW v \in Char,
         w.room[c] # Nowhere \/ w.room[v] # Nowhere
  PROVE  /\ \A x \in hit(w, c, v) : Fine(w, x)
         /\ \A x \in Blow(w, c, v) : Fine(w, x)
         /\ \A dam \in BOOLEAN : \A x \in damage(w, c, v, dam) : Fine(w, x) /\ KeptButOne(w, x)
<1>1. \A x \in hit(w, c, v) : Sound(x) /\ KeptButOne(w, x)
  BY BlowSound
<1>2. \A dam \in BOOLEAN : \A x \in damage(w, c, v, dam) : Sound(x) /\ KeptButOne(w, x)
  BY DamageSound
<1>3. Blow(w, c, v) \subseteq hit(w, c, v)
  BY DEF hit
<1> QED
  BY <1>1, <1>2, <1>3, FineFrom

LEMMA FineStops ==
  ASSUME NEW w, Sound(w), NEW c \in Char, NEW cs
  PROVE  /\ Fine(w, stop_fighting(w, c)) /\ stop_fighting(w, c).room = w.room
         /\ Fine(w, StopAll(w, cs)) /\ StopAll(w, cs).room = w.room
         /\ Fine(w, char_from_world(w, c))
         /\ \A r \in Rooms : Fine(w, Moved(w, c, r))
         /\ \A x \in do_flee(w, c) : Fine(w, x)
         /\ Fine(w, Saved(w, c))
<1>1. Fine(w, stop_fighting(w, c)) /\ stop_fighting(w, c).room = w.room
  BY StopFighting, FineFrom DEF Halted
<1>2. Fine(w, StopAll(w, cs)) /\ StopAll(w, cs).room = w.room
  BY StopAllHalts, FineFrom DEF Halted
<1>3. Fine(w, char_from_world(w, c))
  BY LeaveWorld, FineFrom
<1>4. \A r \in Rooms : Fine(w, Moved(w, c, r))
  BY MovedSound, FineFrom
<1>5. \A x \in do_flee(w, c) : Fine(w, x)
  BY FleeSound, FineFrom
<1>6. Fine(w, Saved(w, c))
  BY SavedSound, FineFrom
<1> QED
  BY <1>1, <1>2, <1>3, <1>4, <1>5, <1>6

LEMMA FineSet ==
  ASSUME NEW w, Sound(w), NEW c \in Char, NEW v \in Char,
         w.room[c] # Nowhere, w.room[v] # Nowhere
  PROVE  Fine(w, set_fighting(w, c, v)) /\ set_fighting(w, c, v).room = w.room
BY SetFighting, FineFrom, ZenonT(30)

LEMMA FineThrown ==
  ASSUME NEW w, Sound(w), NEW v \in Char, NEW p \in {STUNNED, SITTING, SLEEPING, RESTING, STANDING}
  PROVE  LET x == [w EXCEPT !.pos[v] = p] IN Fine(w, x) /\ x.room = w.room
<1> DEFINE x == [w EXCEPT !.pos[v] = p]
<1>1. Sound(x) /\ Stops(w, x) /\ x.room = w.room
  BY ThrownSound
<1> HIDE DEF x
<1>2. Fine(w, x)
  BY <1>1, FineFrom
<1> QED
  BY <1>1, <1>2 DEF x

LEMMA FineStead ==
  ASSUME NEW w, Sound(w), NEW c \in Char, NEW v, NEW t \in Char,
         w.room[c] # Nowhere, w.room[t] # Nowhere
  PROVE  Fine(w, Stead(w, c, v, t))
<1> DEFINE x == StopAll(w, {t, c} \cup {y \in {v} : w.fight[y] = t})
           y == set_fighting(x, c, t)
<1>1. Fine(w, x) /\ x.room = w.room
  BY FineStops
<1> HIDE DEF x
<1>2. Fine(x, y) /\ y.room = w.room
  BY <1>1, FineSet DEF Fine
<1> HIDE DEF y
<1>3. Fine(y, set_fighting(y, t, c))
  BY <1>2, FineSet DEF Fine
<1> QED
  BY <1>1, <1>2, <1>3, FineTwice DEF Stead, x, y

LEMMA ActsHere ==
  ASSUME NEW c \in Char, NEW least, Acts(c, least)
  PROVE  world.room[c] # Nowhere /\ \A v \in Beside(c) : world.room[v] # Nowhere /\ v \in Char
BY DEF Acts, Beside, Here

LEMMA HitFine ==
  ASSUME Sound(world), NEW c \in Char, NEW v \in Char, do_hit(c, v)
  PROVE  Fine(world, world')
BY ActsHere, FineHits DEF do_hit

LEMMA KickFine ==
  ASSUME Sound(world), NEW c \in Char, NEW v \in Char, do_kick(c, v)
  PROVE  Fine(world, world')
<1>1. PICK x : /\ x = world \/ x = [world EXCEPT !.pos[v] = STUNNED]
               /\ world' \in Blow(x, c, v)
  BY DEF do_kick
<1>2. world.room[c] # Nowhere
  BY ActsHere DEF do_kick
<1>3. Fine(world, x) /\ x.room = world.room
  <2>1. CASE x = world
    BY <2>1 DEF Fine
  <2>2. CASE x = [world EXCEPT !.pos[v] = STUNNED]
    BY <2>2, FineThrown
  <2> QED
    BY <1>1, <2>1, <2>2
<1>4. Fine(x, world')
  BY <1>1, <1>2, <1>3, FineHits DEF Fine
<1> QED
  BY <1>3, <1>4, FineTwice

LEMMA SleepFine ==
  ASSUME Sound(world), NEW c \in Char, NEW v \in Char, spell_sleep(c, v)
  PROVE  Fine(world, world')
BY FineThrown DEF spell_sleep

LEMMA BashFine ==
  ASSUME Sound(world), NEW c \in Char, NEW v \in Char, do_bash(c, v)
  PROVE  Fine(world, world')
<1>1. world.room[c] # Nowhere
  BY ActsHere DEF do_bash
<1>2. PICK dam \in BOOLEAN, u \in {c, v}, p \in {STUNNED, SITTING} :
        \E x \in damage(world, c, v, dam) : world' = Thrown(x, u, p)
  BY DEF do_bash, ThrownDown
<1>3. PICK x \in damage(world, c, v, dam) : world' = Thrown(x, u, p)
  BY <1>2
<1>4. Fine(world, x) /\ KeptButOne(world, x)
  BY <1>1, FineHits
<1>5. Sound(world') /\ KeptButOne(world, world')
  BY <1>3, <1>4, ThrownAfter DEF Fine
<1> QED
  BY <1>5, FineFrom

LEMMA RescueFine ==
  ASSUME Sound(world), NEW c \in Char, NEW v \in Char, NEW t \in Char, do_rescue(c, v, t)
  PROVE  Fine(world, world')
<1>1. world.room[c] # Nowhere /\ world.room[t] # Nowhere /\ world' = Stead(world, c, v, t)
  BY ActsHere DEF do_rescue, Here
<1> QED
  BY <1>1, FineStead

LEMMA MobRescueFine ==
  ASSUME Sound(world), NEW c \in Char, NEW v \in Char, NEW t \in Char, mob_rescue(c, v, t)
  PROVE  Fine(world, world')
<1> DEFINE x == stop_fighting(world, v)
<1>1. world.room[c] # Nowhere /\ world.room[v] # Nowhere /\ world' = Stead(x, c, v, t)
  BY ActsHere DEF mob_rescue
<1>2. world.room[t] # Nowhere
  BY <1>1, ActsHere DEF mob_rescue, is_fighting, Here
<1>3. Fine(world, x) /\ x.room = world.room
  BY FineStops
<1> HIDE DEF x
<1>4. Fine(x, world')
  BY <1>1, <1>2, <1>3, FineStead DEF Fine
<1> QED
  BY <1>3, <1>4, FineTwice

LEMMA LightMoveFine ==
  ASSUME Sound(world), NEW c \in Char, do_light_move(c)
  PROVE  Fine(world, world')
<1>1. world.room[c] # Nowhere /\ world.fight[c] \in Char
  BY ActsHere DEF do_light_move, is_fighting, Sound, Worlds
<1> DEFINE v == world.fight[c]
           end(w) == StopAll(w, {c} \cup {y \in {v} : w.fight[y] = c})
           others(w) == {t \in (Here(w, c) \cap Players) \ {c, v} : w.fight[t] = v}
           struck(x) == IF is_fighting(x, c)
                        THEN {x, end(x)} \cup UNION {hit(end(x), v, t) : t \in others(end(x))}
                        ELSE {x}
<1>0. PICK x \in hit(world, c, v) : world' \in struck(x)
  <2>1. world' \in UNION {struck(x) : x \in hit(world, c, v)}
    BY DEF do_light_move
  <2> HIDE DEF struck
  <2> QED
    BY <2>1
<1>2. \/ world' = x
      \/ is_fighting(x, c) /\ world' = end(x)
      \/ is_fighting(x, c) /\ \E t \in others(end(x)) : world' \in hit(end(x), v, t)
  <2> HIDE DEF end, others
  <2> QED
    BY <1>0
<1>3. Fine(world, x)
  BY <1>1, FineHits
<1>4. CASE world' = x
  BY <1>3, <1>4
<1>5. CASE is_fighting(x, c) /\ world' = end(x)
  <2>1. Fine(x, world')
    BY <1>3, <1>5, FineStops DEF Fine
  <2> QED
    BY <1>3, <2>1, FineTwice
<1>6. ASSUME is_fighting(x, c), NEW t \in others(end(x)), world' \in hit(end(x), v, t)
      PROVE  Fine(world, world')
  <2> DEFINE e == end(x)
  <2>1. Fine(x, e) /\ e.room = x.room
    BY <1>3, FineStops DEF Fine
  <2>2. t \in Char /\ e.room[t] = e.room[c]
    BY DEF Here, Char
  <2>3. x.room[c] # Nowhere /\ v \in Char
    BY <1>1, <1>3, <1>6 DEF is_fighting, Fine, Sound, Bodily
  <2> HIDE DEF e, v
  <2>4. world' \in hit(e, v, t)
    BY <1>6 DEF e
  <2>5. Fine(e, world')
    BY <2>1, <2>2, <2>3, <2>4, FineHits DEF Fine
  <2>6. Fine(x, world')
    BY <2>1, <2>5, FineTwice
  <2> QED
    BY <1>3, <2>6, FineTwice
<1> QED
  BY <1>2, <1>4, <1>5, <1>6

LEMMA MobLightMoveFine ==
  ASSUME Sound(world), NEW c \in Char, mob_light_move(c)
  PROVE  Fine(world, world')
<1>1. world.room[c] # Nowhere /\ world.fight[c] \in Char
  BY ActsHere DEF mob_light_move, Sound, Worlds
<1>2. PICK x \in hit(world, c, world.fight[c]) : world' = StopAll(x, {c, world.fight[c]})
  BY DEF mob_light_move
<1>3. Fine(world, x)
  BY <1>1, FineHits
<1>4. Fine(x, world')
  BY <1>2, <1>3, FineStops DEF Fine
<1> QED
  BY <1>3, <1>4, FineTwice

LEMMA FlashFine ==
  ASSUME Sound(world), NEW c \in Char, NEW v \in Char, do_flash(c, v)
  PROVE  Fine(world, world')
<1>1. world.room[c] # Nowhere
  BY ActsHere DEF do_flash
<1>2. PICK x \in damage(world, c, v, FALSE) : world' \in Wounded(x, c, x.room[c] # Nowhere)
  BY DEF do_flash
<1>3. Fine(world, x)
  BY <1>1, FineHits
<1>4. Fine(x, world')
  BY <1>2, <1>3, WoundedSound, FineFrom DEF Fine
<1> QED
  BY <1>3, <1>4, FineTwice

LEMMA MasqueradeFine ==
  ASSUME Sound(world), NEW c \in Char, NEW t \in Char, do_masquerade(c, t)
  PROVE  Fine(world, world')
<1> DEFINE v == world.fight[c]
           w == [world EXCEPT !.hunt[v] = c]
           s == stop_fighting(w, v)
<1>1. /\ world.room[c] # Nowhere /\ v \in Char /\ world.room[v] # Nowhere
      /\ t \in Char /\ world.room[t] # Nowhere /\ world' \in hit(s, v, t)
  BY ActsHere DEF do_masquerade, is_fighting, Sound, Worlds, Here
<1> HIDE DEF v
<1>2. world \in Worlds /\ world.hunt \in [Char -> Char \cup {None}] /\ Bodily(world)
  BY DEF Sound, Worlds
<1>3. /\ w \in Worlds /\ SameFights(world, w) /\ w.room = world.room /\ w.pos = world.pos
      /\ w.hunt = [world.hunt EXCEPT ![v] = c] /\ w.master = world.master
  BY <1>1, <1>2 DEF Worlds, SameFights
<1> HIDE DEF w
<1>4. Bodily(w)
  BY <1>1, <1>2, <1>3 DEF Bodily, SameFights
<1>5. Fine(world, w)
  BY <1>3, <1>4, FineBodily
<1>6. Fine(w, s) /\ s.room = world.room
  BY <1>1, <1>3, <1>5, FineStops DEF Fine
<1> HIDE DEF s
<1>7. Fine(s, world')
  BY <1>1, <1>6, FineHits DEF Fine
<1>8. Fine(world, s)
  BY <1>5, <1>6, FineTwice
<1> QED
  BY <1>7, <1>8, FineTwice

LEMMA UpdateMasqueradeFine ==
  ASSUME Sound(world), NEW v \in Char, update_masquerade(v)
  PROVE  Fine(world, world')
<1> DEFINE h == world.hunt[v]
           f == world.fight[v]
           x == StopAll(world, {v} \cup {y \in {f} \ {None} : is_fighting(world, y) /\ world.fight[y] = v})
           y == [x EXCEPT !.hunt[v] = None]
<1>1. h \in Char /\ world.room[h] # Nowhere /\ world.room[v] # Nowhere
  BY DEF update_masquerade, Sound, Worlds, Bodily
<1>2. world' = IF y.room[h] = y.room[v] THEN set_fighting(y, v, h) ELSE y
  BY DEF update_masquerade
<1> HIDE DEF h
<1>3. Fine(world, x) /\ x.room = world.room
  BY FineStops
<1> HIDE DEF x
<1>4. x \in Worlds /\ x.hunt \in [Char -> Char \cup {None}] /\ Sound(x)
  BY <1>3 DEF Fine, Sound, Worlds
<1>5. /\ y \in Worlds /\ SameFights(x, y) /\ y.room = x.room /\ y.pos = x.pos
      /\ y.hunt = [x.hunt EXCEPT ![v] = None] /\ y.master = x.master
  BY <1>4 DEF Worlds, SameFights
<1> HIDE DEF y
<1>6. \A c \in Char : y.hunt[c] \in {None, x.hunt[c]}
  BY <1>4, <1>5
<1>7. Sound(y) /\ Stops(x, y)
  BY <1>4, <1>5, <1>6, SoundAlike
<1>8. Fine(x, y)
  BY <1>7, FineFrom
<1>9. Fine(y, world')
  BY <1>1, <1>2, <1>3, <1>5, <1>7, FineSet DEF Fine
<1>10. Fine(world, y)
  BY <1>3, <1>8, FineTwice
<1> QED
  BY <1>9, <1>10, FineTwice

LEMMA DazzleFine ==
  ASSUME Sound(world), NEW c \in Char, NEW v \in Char, do_dazzle(c, v)
  PROVE  Fine(world, world')
<1> DEFINE x == set_fighting(world, c, v)
<1>1. world.room[c] # Nowhere /\ world.room[v] # Nowhere
  BY ActsHere DEF do_dazzle, Here
<1>2. Fine(world, x) /\ x.room = world.room
  BY <1>1, FineSet
<1>3. world' = set_fighting(x, v, c) \/ world' = x
  BY DEF do_dazzle
<1> HIDE DEF x
<1>4. Fine(x, world')
  BY <1>1, <1>2, <1>3, FineSet DEF Fine
<1> QED
  BY <1>2, <1>4, FineTwice

LEMMA CharmFine ==
  ASSUME Sound(world), NEW c \in Char, NEW m \in Mobs, spell_charm_person(c, m)
  PROVE  Fine(world, world')
<1>1. /\ world \in Worlds /\ Bodily(world) /\ world.master \in [Mobs -> Players \cup {None}]
      /\ world.room[c] # Nowhere /\ world.room[m] # Nowhere /\ c \in Players
      /\ world' = [world EXCEPT !.master[m] = c]
  BY ActsHere DEF spell_charm_person, Sound, Worlds
<1>2. /\ world' \in Worlds /\ SameFights(world, world') /\ world'.room = world.room
      /\ world'.pos = world.pos /\ world'.hunt = world.hunt
      /\ world'.master = [world.master EXCEPT ![m] = c]
  BY <1>1 DEF Worlds, SameFights
<1>3. Bodily(world')
  BY <1>1, <1>2 DEF Bodily, SameFights
<1> QED
  BY <1>2, <1>3, FineBodily

LEMMA GoFine ==
  ASSUME Sound(world), NEW c \in Char,
         Flee(c) \/ do_move(c) \/ spell_teleport(c)
  PROVE  Fine(world, world')
<1>1. CASE Flee(c)
  BY <1>1, FineStops DEF Flee
<1>2. CASE do_move(c)
  BY <1>2, FineStops DEF do_move, Exits
<1>3. CASE spell_teleport(c)
  <2> DEFINE x == stop_fighting(world, c)
  <2>1. PICK r \in Rooms : world' = Moved(x, c, r)
    BY <1>3 DEF spell_teleport
  <2>2. Fine(world, x)
    BY FineStops
  <2> HIDE DEF x
  <2>3. Fine(x, world')
    BY <2>1, <2>2, FineStops DEF Fine
  <2> QED
    BY <2>2, <2>3, FineTwice
<1> QED
  BY <1>1, <1>2, <1>3

LEMMA RecallFine ==
  ASSUME Sound(world), NEW c \in Char, NEW v \in Char, spell_word_of_recall(c, v)
  PROVE  Fine(world, world')
<1>1. PICK r \in Rooms : world' = stop_fighting(Moved(world, v, r), c)
  BY DEF spell_word_of_recall
<1> DEFINE x == Moved(world, v, r)
<1>2. Fine(world, x)
  BY FineStops
<1>3. world' = stop_fighting(x, c)
  BY <1>1
<1> HIDE DEF x
<1>4. Fine(x, world')
  BY <1>2, <1>3, FineStops DEF Fine
<1> QED
  BY <1>2, <1>4, FineTwice

LEMMA PostureFine ==
  ASSUME Sound(world), NEW c \in Char,
         do_stand(c) \/ do_sit(c) \/ do_rest(c) \/ do_sleep(c) \/ do_wake(c)
  PROVE  Fine(world, world')
<1>1. PICK p \in {SITTING, SLEEPING, RESTING, STANDING} : world' = [world EXCEPT !.pos[c] = p]
  BY DEF do_stand, do_sit, do_rest, do_sleep, do_wake, Posture
<1> QED
  BY <1>1, FineThrown

LEMMA LinkFine ==
  ASSUME Sound(world), NEW ls \in SUBSET Players, world' = [world EXCEPT !.linked = ls]
  PROVE  Fine(world, world')
<1>1. world \in Worlds /\ Bodily(world)
  BY DEF Sound
<1>2. /\ world' \in Worlds /\ SameFights(world, world') /\ world'.room = world.room
      /\ world'.pos = world.pos /\ world'.hunt = world.hunt /\ world'.master = world.master
  BY <1>1 DEF Worlds, SameFights
<1>3. Bodily(world')
  BY <1>1, <1>2 DEF Bodily, SameFights
<1> QED
  BY <1>2, <1>3, FineBodily

LEMMA LinksFine ==
  ASSUME Sound(world), NEW c \in Char, close_socket(c) \/ Reconnect(c)
  PROVE  Fine(world, world')
<1>1. world.linked \subseteq Players
  BY DEF Sound, Worlds
<1>2. CASE close_socket(c)
  <2>1. world' = [world EXCEPT !.linked = world.linked \ {c}]
    BY <1>2 DEF close_socket
  <2> QED
    BY <1>1, <2>1, LinkFine
<1>3. CASE Reconnect(c)
  <2>1. world' = [world EXCEPT !.linked = world.linked \cup {c}] /\ c \in Players
    BY <1>3 DEF Reconnect
  <2> QED
    BY <1>1, <2>1, LinkFine
<1> QED
  BY <1>2, <1>3

LEMMA QuitFine ==
  ASSUME Sound(world), NEW c \in Char, do_quit(c) \/ do_rent(c) \/ Peace(c)
  PROVE  Fine(world, world')
<1>1. CASE do_quit(c)
  <2>1. CASE world' = kill_char(world, c)
    BY <2>1, FineStops DEF kill_char
  <2>2. CASE world' = [world EXCEPT !.linked = @ \ {c}]
    <3>1. world.linked \ {c} \subseteq Players
      BY DEF Sound, Worlds
    <3> QED
      BY <2>2, <3>1, LinkFine
  <2> QED
    BY <1>1, <2>1, <2>2 DEF do_quit
<1>2. CASE do_rent(c)
  BY <1>2, FineStops DEF do_rent
<1>3. CASE Peace(c)
  BY <1>3, FineStops DEF Peace
<1> QED
  BY <1>1, <1>2, <1>3

LEMMA PlacedFine ==
  ASSUME Sound(world), NEW c \in Char, NEW r \in Rooms \cup {Void},
         NEW was \in [Char -> Rooms \cup {Void, Nowhere}], NEW ls \in SUBSET Players,
         world' = [world EXCEPT !.room[c] = r, !.was = was, !.linked = ls]
  PROVE  Fine(world, world')
<1>1. world \in Worlds /\ Bodily(world) /\ world.room \in [Char -> Rooms \cup {Void, Nowhere}]
  BY DEF Sound, Worlds
<1>2. /\ world' \in Worlds /\ SameFights(world, world')
      /\ world'.room = [world.room EXCEPT ![c] = r]
      /\ world'.pos = world.pos /\ world'.hunt = world.hunt /\ world'.master = world.master
  BY <1>1 DEF Worlds, SameFights
<1>3. Bodily(world')
  BY <1>1, <1>2, CombatAssumption DEF Bodily, SameFights
<1> QED
  BY <1>2, <1>3, FineBodily

LEMMA ComeFine ==
  ASSUME Sound(world), NEW c \in Char, Returned(c) \/ check_idling(c) \/ Enter(c)
  PROVE  Fine(world, world')
<1>1. /\ world \in Worlds /\ world.linked \subseteq Players
      /\ world.was \in [Char -> Rooms \cup {Void, Nowhere}]
      /\ world.room \in [Char -> Rooms \cup {Void, Nowhere}]
  BY DEF Sound, Worlds
<1>2. CASE Returned(c)
  <2> DEFINE was == [world.was EXCEPT ![c] = Nowhere]
             r == world.was[c]
  <2>1. r \in Rooms \cup {Void} /\ was \in [Char -> Rooms \cup {Void, Nowhere}]
    BY <1>1, <1>2 DEF Returned
  <2>2. world' = [world EXCEPT !.room[c] = r, !.was = was, !.linked = world.linked]
    BY <1>1, <1>2 DEF Returned, Worlds
  <2> HIDE DEF was, r
  <2> QED
    BY <1>1, <2>1, <2>2, PlacedFine
<1>3. CASE check_idling(c)
  BY <1>3, FineStops DEF check_idling
<1>4. CASE Enter(c)
  <2> DEFINE ls == world.linked \cup ({c} \cap Players)
  <2>1. ls \in SUBSET Players
    BY <1>1
  <2>3. PICK r \in Rooms : world' = [world EXCEPT !.room[c] = r, !.linked = ls]
    BY <1>4 DEF Enter
  <2> HIDE DEF ls
  <2>2. world' = [world EXCEPT !.room[c] = r, !.was = world.was, !.linked = ls]
    BY <1>1, <2>3 DEF Worlds
  <2> QED
    BY <1>1, <2>1, <2>2, PlacedFine
<1> QED
  BY <1>2, <1>3, <1>4

LEMMA TickFine ==
  ASSUME Sound(world), NEW c \in Char, update_tick(c)
  PROVE  Fine(world, world')
<1> DEFINE x == update_pos(world, c)
<1>1. world \in Worlds /\ world.hit \in [Char -> Wounds]
  BY DEF Sound, Worlds
<1>2. [world EXCEPT !.hit[c] = world.hit[c]] = world
  BY <1>1 DEF Worlds
<1>3. LET y == update_pos([world EXCEPT !.hit[c] = world.hit[c]], c)
      IN  Sound(y) /\ SameFights(world, y) /\ Stops(world, y) /\ y.room = world.room
  BY <1>1, HurtSound
<1>4. Fine(world, x)
  BY <1>2, <1>3, FineFrom
<1>5. \/ world' = x
      \/ \E h \in Wounds : world' = update_pos([x EXCEPT !.hit[c] = h], c) \/ world' = [x EXCEPT !.hit[c] = h]
  BY DEF update_tick
<1> HIDE DEF x
<1>6. CASE world' = x
  BY <1>4, <1>6
<1>7. ASSUME NEW h \in Wounds, world' = update_pos([x EXCEPT !.hit[c] = h], c)
      PROVE  Fine(world, world')
  <2>1. Fine(x, world')
    BY <1>4, <1>7, HurtSound, FineFrom DEF Fine
  <2> QED
    BY <1>4, <2>1, FineTwice
<1>8. ASSUME NEW h \in Wounds, world' = [x EXCEPT !.hit[c] = h]
      PROVE  Fine(world, world')
  <2>1. x \in Worlds /\ Sound(x) /\ x.hit \in [Char -> Wounds] /\ Bodily(x)
    BY <1>4 DEF Fine, Sound, Worlds
  <2>2. /\ world' \in Worlds /\ SameFights(x, world') /\ world'.room = x.room
        /\ world'.pos = x.pos /\ world'.hunt = x.hunt /\ world'.master = x.master
    BY <1>8, <2>1 DEF Worlds, SameFights
  <2>3. Bodily(world')
    BY <2>1, <2>2 DEF Bodily, SameFights
  <2>4. Fine(x, world')
    BY <2>1, <2>2, <2>3, FineBodily
  <2> QED
    BY <1>4, <2>4, FineTwice
<1> QED
  BY <1>5, <1>6, <1>7, <1>8

-----------------------------------------------------------------------------
(* The invariant.  To what the runs check it adds where the cursor is: on  *)
(* a fighter, or nowhere when no round is fought.  Without that, After     *)
(* would be asked for the next of one who is not in the list.              *)

Turns == turn \in Char \cup {None} /\ blows \in 0 .. Unseen

IInv == Sound(world) /\ Turns /\ (turn = None => world.next = None)

LEMMA InitSound == Init => IInv
<1> SUFFICES ASSUME Init PROVE IInv
  OBVIOUS
<1>1. (CHOOSE r \in Rooms : TRUE) \in Rooms
  BY CombatAssumption
<1> DEFINE r0 == CHOOSE r \in Rooms : TRUE
           room == [c \in Char |-> IF c \in Players THEN Nowhere ELSE r0]
           pos  == [c \in Char |-> STANDING]
<1>2. room \in [Char -> Rooms \cup {Void, Nowhere}] /\ pos \in [Char -> DEAD .. STANDING]
  <2>1. STANDING \in DEAD .. STANDING
    BY DEF STANDING, DEAD
  <2> QED
    BY <1>1, <2>1
<1>3. \A c \in Char : pos[c] # FIGHTING
  BY DEF STANDING, FIGHTING
<1>4. world = [list   |-> <<>>,
               next   |-> None,
               fight  |-> [c \in Char |-> None],
               pos    |-> pos,
               hit    |-> [c \in Char |-> Well],
               room   |-> room,
               was    |-> [c \in Char |-> Nowhere],
               linked |-> {},
               master |-> [m \in Mobs |-> None],
               hunt   |-> [c \in Char |-> None]]
  BY DEF Init
<1> HIDE DEF room, pos
<1>5. <<>> \in Seq(Char) /\ Len(<<>>) = 0 /\ Well \in Wounds
  BY CombatAssumption
<1>6. /\ world \in Worlds
      /\ world.list = <<>> /\ world.next = None /\ world.pos = pos
      /\ world.fight = [c \in Char |-> None] /\ world.hunt = [c \in Char |-> None]
      /\ world.master = [m \in Mobs |-> None]
  BY <1>2, <1>4, <1>5 DEF Worlds
<1>7. Listed(world) /\ Bodily(world) /\ Postured(world) /\ Cursor(world)
  BY <1>3, <1>5, <1>6 DEF Listed, Once, Bodily, Postured, Cursor
<1>8. turn = None /\ blows = 0 /\ 0 \in 0 .. Unseen
  BY CombatAssumption DEF Init, Unseen
<1> QED
  BY <1>6, <1>7, <1>8 DEF IInv, Sound, Turns

LEMMA NextPassed ==
  ASSUME NEW w, Sound(w), NEW c \in Fighters(w)
  PROVE  LET x == [w EXCEPT !.next = After(w.list, c)]
         IN  /\ Sound(x) /\ Fighters(x) = Fighters(w)
             /\ ToCome(x) = Behind(w.list, c) \ {c}
<1> DEFINE n == After(w.list, c)
           x == [w EXCEPT !.next = n]
<1>1. w \in Worlds /\ Listed(w) /\ Bodily(w) /\ Postured(w)
  BY DEF Sound
<1>2. w.list \in Seq(Char) /\ Once(w.list)
  BY <1>1 DEF Worlds, Listed
<1>3. Len(w.list) \in Nat /\ \A i \in 1 .. Len(w.list) : w.list[i] \in Char
  BY <1>2, LenProperties, ElementOfSeq
<1> DEFINE k == Place(w.list, c)
<1>4. k \in 1 .. Len(w.list) /\ w.list[k] = c
  <2>1. PICK j \in 1 .. Len(w.list) : w.list[j] = c
    BY <1>1 DEF Listed, Fighters
  <2>2. Place(w.list, w.list[j]) \in 1 .. Len(w.list) /\ w.list[Place(w.list, w.list[j])] = w.list[j]
    BY <1>2, PlaceFound, Zenon
  <2> QED
    BY <2>1, <2>2
<1>5. n = IF k = Len(w.list) THEN None ELSE w.list[k + 1]
  BY DEF After
<1> HIDE DEF k, n
<1>6. Behind(w.list, w.list[k]) \ {w.list[k]}
        = IF k = Len(w.list) THEN {} ELSE Behind(w.list, w.list[k + 1])
  BY <1>2, <1>4, BehindNext, Zenon
<1>7. k # Len(w.list) => k + 1 \in 1 .. Len(w.list)
  BY <1>3, <1>4
<1>8. n \in Char \cup {None} /\ (n # None => w.fight[n] # None)
  BY <1>1, <1>3, <1>5, <1>7 DEF Listed
<1>9. Behind(w.list, c) \ {c} = IF n = None THEN {} ELSE Behind(w.list, n)
  BY <1>3, <1>4, <1>5, <1>6, <1>7, NotPlayerNone
<1>10. /\ x \in Worlds
       /\ x.list = w.list /\ x.next = n /\ x.fight = w.fight /\ x.pos = w.pos
       /\ x.room = w.room /\ x.hunt = w.hunt /\ x.master = w.master
  BY <1>1, <1>8 DEF Worlds
<1> HIDE DEF x
<1>11. Listed(x) /\ Bodily(x) /\ Postured(x) /\ Cursor(x)
  BY <1>1, <1>8, <1>10 DEF Listed, Bodily, Postured, Cursor
<1>12. Fighters(x) = Fighters(w) /\ ToCome(x) = Behind(w.list, c) \ {c}
  BY <1>9, <1>10 DEF Fighters, ToCome
<1> QED
  BY <1>10, <1>11, <1>12 DEF Sound, x, n

LEMMA TurnFor ==
  ASSUME IInv, NEW c \in Char \cup {None}, ToTurn(c), c # None => c \in Fighters(world)
  PROVE  /\ IInv' /\ Fighters(world') = Fighters(world)
         /\ ToCome(world') = IF c = None THEN {} ELSE Behind(world.list, c) \ {c}
<1>1. Turns'
  <2>1. 0 \in 0 .. Unseen /\ Unseen \in 0 .. Unseen
    BY CombatAssumption DEF Unseen
  <2> QED
    BY <2>1 DEF ToTurn, Turns
<1>2. CASE c = None
  <2>1. world \in Worlds /\ Sound(world)
    BY DEF IInv, Sound
  <2>2. world' = [world EXCEPT !.next = None]
    BY <1>2 DEF ToTurn
  <2>3. /\ world' \in Worlds /\ world'.next = None /\ world'.list = world.list
        /\ world'.fight = world.fight /\ world'.pos = world.pos /\ world'.room = world.room
        /\ world'.hunt = world.hunt /\ world'.master = world.master
    BY <2>1, <2>2 DEF Worlds
  <2>4. Listed(world') /\ Bodily(world') /\ Postured(world') /\ Cursor(world')
    BY <2>1, <2>3 DEF Sound, Listed, Bodily, Postured, Cursor
  <2>5. Fighters(world') = Fighters(world) /\ ToCome(world') = {}
    BY <2>3 DEF Fighters, ToCome
  <2> QED
    BY <1>1, <1>2, <2>3, <2>4, <2>5 DEF IInv, Sound
<1>3. CASE c # None
  <2>1. world' = [world EXCEPT !.next = After(world.list, c)] /\ turn' = c
    BY <1>3 DEF ToTurn
  <2>2. LET x == [world EXCEPT !.next = After(world.list, c)]
        IN  /\ Sound(x) /\ Fighters(x) = Fighters(world)
            /\ ToCome(x) = Behind(world.list, c) \ {c}
    BY <1>3, NextPassed DEF IInv
  <2>3. /\ Sound(world') /\ Fighters(world') = Fighters(world)
        /\ ToCome(world') = Behind(world.list, c) \ {c}
    BY <2>1, <2>2
  <2> QED
    BY <1>1, <1>3, <2>1, <2>3 DEF IInv
<1> QED
  BY <1>2, <1>3

(* The act of a fighter in his turn. *)
LEMMA ActSound ==
  ASSUME IInv, Turn \/ Blows
  PROVE  IInv' /\ KeptButOne(world, world') /\ turn # None /\ UNCHANGED turn
<1>1. turn # None /\ UNCHANGED turn /\ turn \in Char /\ Sound(world)
  BY DEF IInv, Turns, Turn, Blows
<1>2. Turns'
  BY <1>1, CombatAssumption DEF IInv, Turns, Turn, Blows, Unseen
<1>3. Sound(world') /\ KeptButOne(world, world')
  <2>1. CASE world' = stop_fighting(world, turn)
    BY <1>1, <2>1, StopFighting, StopsKept, KeptEnough DEF Halted
  <2>2. CASE world' = world
    BY <1>1, <2>2, StopsNot, StopsKept, KeptEnough
  <2>3. CASE is_fighting(world, turn) /\ world' \in magic_weapon_hit(world, turn, world.fight[turn])
    <3>1. world.fight[turn] \in Char /\ world.room[turn] # Nowhere
      BY <1>1, <2>3 DEF is_fighting, Sound, Worlds, Bodily
    <3> QED
      BY <1>1, <2>3, <3>1, MagicWeaponSound
  <2>4. CASE is_fighting(world, turn) /\ world' \in hit(world, turn, world.fight[turn])
    <3>1. world.fight[turn] \in Char /\ world.room[turn] # Nowhere
      BY <1>1, <2>4 DEF is_fighting, Sound, Worlds, Bodily
    <3> QED
      BY <1>1, <2>4, <3>1, BlowSound
  <2> QED
    BY <2>1, <2>2, <2>3, <2>4 DEF Turn, Blows
<1> QED
  BY <1>1, <1>2, <1>3 DEF IInv

LEMMA BetweenSound ==
  ASSUME IInv, Between, Fine(world, world')
  PROVE  IInv' /\ turn = None /\ UNCHANGED turn /\ ToCome(world) = {} /\ ToCome(world') = {}
<1>1. turn = None /\ turn' = turn /\ blows' = blows /\ world.next = None
  BY DEF IInv, Between
<1>2. ToCome(world) = {}
  BY <1>1 DEF ToCome
<1>3. Sound(world') /\ ToCome(world') = {}
  BY <1>2 DEF Fine
<1>4. world'.next = None
  BY <1>3, ToComeFighters
<1> QED
  BY <1>1, <1>2, <1>3, <1>4 DEF IInv, Turns

LEMMA SingleFine ==
  ASSUME Sound(world), NEW c \in Char, Single(c)
  PROVE  Fine(world, world') /\ Between
<1>1. Fine(world, world')
  BY LightMoveFine, MobLightMoveFine, UpdateMasqueradeFine, CharmFine, GoFine, PostureFine,
     LinksFine, QuitFine, ComeFine, TickFine DEF Single
<1>2. Between
  BY DEF Single, do_light_move, mob_light_move, update_masquerade, Flee, do_move, spell_teleport,
         Peace, do_stand, do_sit, do_rest, do_sleep, do_wake, do_quit, do_rent, close_socket,
         Reconnect, Returned, check_idling, Enter, update_tick, spell_charm_person, Posture, Acts
<1> QED
  BY <1>1, <1>2

LEMMA PairFine ==
  ASSUME Sound(world), NEW c \in Char, NEW v \in Char, Pair(c, v)
  PROVE  Fine(world, world') /\ Between
<1>1. Fine(world, world')
  BY HitFine, KickFine, BashFine, FlashFine, MasqueradeFine, DazzleFine, SleepFine, RecallFine,
     RescueFine, MobRescueFine DEF Pair
<1>2. Between
  BY DEF Pair, do_hit, do_kick, do_bash, do_flash, do_masquerade, do_dazzle, spell_sleep,
         spell_word_of_recall, do_rescue, mob_rescue, Acts
<1> QED
  BY <1>1, <1>2

LEMMA NextSound == IInv /\ [Next]_vars => IInv'
<1> SUFFICES ASSUME IInv, [Next]_vars PROVE IInv'
  OBVIOUS
<1>1. CASE RoundBegins
  <2>1. world.list # <<>> /\ world.list \in Seq(Char) /\ ToTurn(Head(world.list)) /\ Listed(world)
    BY <1>1 DEF RoundBegins, IInv, Sound, Worlds
  <2>2. Len(world.list) \in Nat /\ Len(world.list) # 0 /\ Head(world.list) = world.list[1]
    BY <2>1
  <2>3. Head(world.list) \in Fighters(world)
    BY <2>1, <2>2, ElementOfSeq DEF Listed, Fighters
  <2>4. Head(world.list) \in Char
    BY <2>3 DEF Fighters
  <2> QED
    BY <2>1, <2>3, <2>4, TurnFor
<1>2. CASE Turn \/ Blows
  BY <1>2, ActSound
<1>3. CASE TurnEnds
  <2>1. ToTurn(world.next) /\ world.next \in Char \cup {None} /\ Cursor(world)
    BY <1>3 DEF TurnEnds, IInv, Sound, Worlds
  <2>2. world.next # None => world.next \in Fighters(world)
    BY <2>1 DEF Cursor, Fighters
  <2> QED
    BY <2>1, <2>2, TurnFor
<1>4. ASSUME NEW c \in Char, Single(c) PROVE IInv'
  <2>1. Fine(world, world') /\ Between
    BY <1>4, SingleFine DEF IInv
  <2> QED
    BY <2>1, BetweenSound
<1>5. ASSUME NEW c \in Char, NEW v \in Char, Pair(c, v) PROVE IInv'
  <2>1. Fine(world, world') /\ Between
    BY <1>5, PairFine DEF IInv
  <2> QED
    BY <2>1, BetweenSound
<1>6. CASE UNCHANGED vars
  BY <1>6 DEF vars, IInv, Turns
<1> QED
  BY <1>1, <1>2, <1>3, <1>4, <1>5, <1>6 DEF Next, perform_violence

LEMMA SpecSound == Spec => []IInv
BY InitSound, NextSound, PTL DEF Spec

(* The fields of the fights keep their types: no handler leaves a fighter  *)
(* without a target's record, or the cursor on nothing that is a fighter.  *)
THEOREM TypeCorrect == Spec => []TypeOK
<1>1. IInv => TypeOK
  BY DEF IInv, Sound, Worlds, Turns, TypeOK
<1> QED
  BY <1>1, SpecSound, PTL

(* combat_list holds exactly those who fight, and each of them once, so    *)
(* stop_fighting always finds the fighter it looks for.                    *)
THEOREM FightersAreListed == Spec => []FightersListed
<1>1. IInv => FightersListed
  <2> SUFFICES ASSUME IInv PROVE FightersListed
    OBVIOUS
  <2>1. world.list \in Seq(Char) /\ Listed(world)
    BY DEF IInv, Sound, Worlds
  <2>2. DOMAIN world.list = 1 .. Len(world.list)
    BY <2>1, LenProperties
  <2>3. IsInjective(world.list)
    BY <2>1, <2>2 DEF IsInjective, Listed, Once
  <2>4. \A c \in Char : Contains(world.list, c) <=> world.fight[c] # None
    BY <2>1, <2>2 DEF Contains, Listed
  <2> QED
    BY <2>3, <2>4 DEF FightersListed
<1> QED
  BY <1>1, SpecSound, PTL

(* Who has left the world neither fights nor is fought, is not hunted and  *)
(* has neither master nor charmed ones.                                    *)
THEOREM GhostsDoNotFight == Spec => []NoGhostFights
<1>1. IInv => NoGhostFights
  <2> SUFFICES ASSUME IInv PROVE NoGhostFights
    OBVIOUS
  <2>1. world \in Worlds /\ Bodily(world) /\ Mobs \subseteq Char /\ Players \subseteq Char
    BY DEF IInv, Sound, Char
  <2>2. /\ world.fight \in [Char -> Char \cup {None}] /\ world.hunt \in [Char -> Char \cup {None}]
        /\ world.master \in [Mobs -> Players \cup {None}]
    BY <2>1 DEF Worlds
  <2>3. /\ \A c \in Char : world.fight[c] # None => {c, world.fight[c]} \subseteq InWorld(world)
        /\ \A c \in Char : world.hunt[c] # None => {c, world.hunt[c]} \subseteq InWorld(world)
    BY <2>1, <2>2 DEF Bodily, InWorld
  <2>4. \A m \in Mobs : world.master[m] # None => {m, world.master[m]} \subseteq InWorld(world)
    BY <2>1, <2>2 DEF Bodily, InWorld
  <2> QED
    BY <2>3, <2>4 DEF NoGhostFights
<1> QED
  BY <1>1, SpecSound, PTL

(* Nobody is left standing as a fighter whose fight has ended. *)
THEOREM FightingPostures == Spec => []FightingPos
<1>1. IInv => FightingPos
  BY DEF IInv, Sound, Postured, FightingPos
<1> QED
  BY <1>1, SpecSound, PTL

-----------------------------------------------------------------------------
(* The round as RoundOnce promises it: who waits for his turn is ToCome.   *)

LEMMA WaitingIs == IInv => Waiting = ToCome(world)
BY DEF IInv, Waiting, ToCome

LEMMA ToComePast == IInv => (turn = None => ToCome(world) = {})
BY DEF IInv, ToCome

LEMMA NextPromised ==
  ASSUME IInv, [Next]_vars
  PROVE  \/ Promise!Between \/ Promise!Begin \/ Promise!Act \/ Promise!Pass
         \/ Fighters(world') = Fighters(world) /\ Waiting' = Waiting /\ turn' = turn
<1>0. IInv' /\ Waiting = ToCome(world)
  BY NextSound, WaitingIs
<1>1. IInv' /\ Waiting = ToCome(world) /\ Waiting' = ToCome(world')
  <2>1. turn' = None => world'.next = None
    BY <1>0 DEF IInv
  <2> QED
    BY <1>0, <2>1 DEF Waiting, ToCome
<1>2. Fighters(world') \in SUBSET Char
  BY DEF Fighters
<1>3. CASE RoundBegins
  <2>1. /\ world.list # <<>> /\ world.list \in Seq(Char) /\ ToTurn(Head(world.list))
        /\ Listed(world) /\ turn = None /\ turn' = Head(world.list)
    BY <1>3 DEF RoundBegins, IInv, Sound, Worlds, ToTurn
  <2>2. Len(world.list) \in Nat /\ Len(world.list) # 0 /\ Head(world.list) = world.list[1]
    BY <2>1
  <2>3. turn' \in Fighters(world) /\ turn' \in Char
    BY <2>1, <2>2, ElementOfSeq DEF Listed, Fighters
  <2>4. Fighters(world') = Fighters(world) /\ ToCome(world') = Behind(world.list, turn') \ {turn'}
    BY <2>1, <2>3, TurnFor, NotPlayerNone
  <2>5. \A k \in 1 .. Len(world.list) :
          Behind(world.list, world.list[k]) = {world.list[i] : i \in k .. Len(world.list)}
    <3>1. Once(world.list)
      BY <2>1 DEF Listed
    <3> QED
      BY <2>1, <3>1, BehindPlace, Zenon
  <2>6. Behind(world.list, turn') = {world.list[i] : i \in 1 .. Len(world.list)}
    <3>1. 1 \in 1 .. Len(world.list) /\ turn' = world.list[1]
      BY <2>1, <2>2
    <3> QED
      BY <2>5, <3>1
  <2>7. \A i \in 1 .. Len(world.list) : world.list[i] \in Char
    BY <2>1, ElementOfSeq
  <2>8. {world.list[i] : i \in 1 .. Len(world.list)} = Fighters(world)
    BY <2>1, <2>7 DEF Listed, Fighters
  <2>9. Promise!Begin
    BY <1>1, <2>1, <2>3, <2>4, <2>6, <2>8 DEF Promise!Begin, Fighters
  <2> QED
    BY <2>9
<1>4. CASE Turn \/ Blows
  <2>1. KeptButOne(world, world') /\ turn # None /\ UNCHANGED turn
    BY <1>4, ActSound
  <2>2. Promise!Act
    BY <1>1, <1>2, <2>1 DEF Promise!Act, KeptButOne, Fighters
  <2> QED
    BY <2>2
<1>5. CASE TurnEnds
  <2>1. /\ ToTurn(world.next) /\ world.next \in Char \cup {None} /\ Cursor(world)
        /\ turn # None /\ turn' = world.next
    BY <1>5 DEF TurnEnds, IInv, Sound, Worlds, ToTurn
  <2>2. world.next # None => world.next \in Fighters(world)
    BY <2>1 DEF Cursor, Fighters
  <2>3. /\ Fighters(world') = Fighters(world)
        /\ ToCome(world') = IF world.next = None THEN {} ELSE Behind(world.list, world.next) \ {world.next}
    BY <2>1, <2>2, TurnFor
  <2>4. world.next # None => world.next \in ToCome(world)
    BY ToComeFighters DEF IInv
  <2>5. ToCome(world') = ToCome(world) \ {turn'}
    BY <2>1, <2>3 DEF ToCome
  <2>6. ToCome(world) = {} <=> world.next = None
    BY <2>4 DEF ToCome
  <2>7. Promise!Pass
    BY <1>1, <2>1, <2>3, <2>4, <2>5, <2>6 DEF Promise!Pass, Fighters
  <2> QED
    BY <2>7
<1>6. ASSUME Between, Fine(world, world') PROVE Promise!Between
  <2>1. turn = None /\ UNCHANGED turn /\ ToCome(world) = {} /\ ToCome(world') = {}
    BY <1>6, BetweenSound
  <2> QED
    BY <1>1, <1>2, <2>1 DEF Promise!Between, Fighters
<1>7. ASSUME NEW c \in Char, Single(c) PROVE Promise!Between
  BY <1>6, <1>7, SingleFine DEF IInv
<1>8. ASSUME NEW c \in Char, NEW v \in Char, Pair(c, v) PROVE Promise!Between
  BY <1>6, <1>8, PairFine DEF IInv
<1>9. CASE UNCHANGED vars
  BY <1>9, <1>1 DEF vars
<1> QED
  BY <1>3, <1>4, <1>5, <1>7, <1>8, <1>9 DEF Next, perform_violence

(* A round gives each fighter one turn, though stop_fighting moves the     *)
(* cursor under perform_violence and blows add fighters before it: each    *)
(* step of the fights is one of RoundOnce or changes nothing of it.        *)
THEOREM EveryFighterOnce == Spec => OneTurnEach
<1>1. Init => Promise!Init
  <2> SUFFICES ASSUME Init PROVE Promise!Init
    OBVIOUS
  <2>1. turn = None /\ Waiting = {}
    BY DEF Init, Waiting
  <2>2. world.fight = [c \in Char |-> None]
    BY DEF Init
  <2> QED
    BY <2>1, <2>2 DEF Promise!Init
<1>2. IInv /\ [Next]_vars
        => [Promise!Between \/ Promise!Begin \/ Promise!Act \/ Promise!Pass]_<<Fighters(world), Waiting, turn>>
  BY NextPromised
<1> QED
  BY <1>1, <1>2, SpecSound, PTL DEF Spec, OneTurnEach, Promise!Spec, Fighters
=============================================================================
