---------------------------- MODULE StashProofs ----------------------------
(***************************************************************************)
(* What players own on disk and in the game, for any players and objects,  *)
(* sizes of a locker and a board, and any files the server starts on:      *)
(* which commands can make a second copy of an object, and that an insured *)
(* object stays insured until its owner has it back.                       *)
(*                                                                         *)
(* A copy of an object is counted at six places.  Most commands move what  *)
(* one player has, so that the counts change by what they change at him    *)
(* (CopiesOf); those of the insurance shift the board.                     *)
(***************************************************************************)
EXTENDS Stash, DataLemmas

Phases == {"out", "menu", "play", "linkdead"}
MemOK(g, P) ==
  g \in [carried : [P -> SUBSET Thing], locker : [P -> SUBSET Thing], ground : SUBSET Thing,
         pawn : SUBSET Thing, board : [Slots -> BoardEntry], count : -1 .. MAX_INSURE]
FileOK(f, P) == f \in Files(P)

(* Who is out of the game stands in no room; who is at his locker has in   *)
(* memory what its file has; the file of the board has all its entries.    *)
OutAtRent == \A p \in Players : ~InWorld(p) => room[p] = "rent"
LockerRead ==
  \A p \in Players : InWorld(p) /\ room[p] = "locker" => disk.locker[p] \ Gone \subseteq game.locker[p]
Written(g, f) ==
  \A nr \in 1 .. g.count : \E k \in 1 .. f.insured.count : f.insured.entries[k] = g.board[nr]

StashInv ==
  /\ Players \subseteq Renter
  /\ phase \in [Players -> Phases]
  /\ room \in [Players -> Rooms \cup {"limbo"}]
  /\ MemOK(game, Players)
  /\ FileOK(disk, Players)
  /\ OutAtRent /\ LockerRead
  /\ Written(game, disk)

-----------------------------------------------------------------------------
(* Counting. *)
One(b) == IF b THEN 1 ELSE 0

LEMMA SizeOfPart ==
  ASSUME NEW T, NEW U, IsFiniteSet(T), U \subseteq T
  PROVE  IsFiniteSet(U) /\ Cardinality(U) \in Nat /\ Cardinality(T) \in Nat /\ Cardinality(U) <= Cardinality(T)
BY FS_Subset, FS_CardinalityType

(* A set that changes at one element. *)
LEMMA ChangedAt ==
  ASSUME NEW T, NEW U, NEW p, IsFiniteSet(T), U \ {p} \subseteq T
  PROVE  /\ Cardinality(T) \in Nat /\ Cardinality(U) \in Nat
         /\ Cardinality(U) - One(p \in U) <= Cardinality(T) - One(p \in T)
<1>1. /\ IsFiniteSet(T \cup {p}) /\ U \subseteq T \cup {p}
  BY FS_AddElement
<1>2. IsFiniteSet(U)
  BY <1>1, FS_Subset
<1>3. U \ {p} \subseteq T \ {p} /\ IsFiniteSet(T \ {p})
  BY FS_RemoveElement
<1>4. Cardinality(U \ {p}) <= Cardinality(T \ {p})
  BY <1>3, FS_Subset
<1>5. Cardinality(U \ {p}) = Cardinality(U) - One(p \in U)
  BY <1>2, FS_RemoveElement, FS_CardinalityType DEF One
<1>6. Cardinality(T \ {p}) = Cardinality(T) - One(p \in T)
  BY FS_RemoveElement, FS_CardinalityType DEF One
<1>7. Cardinality(T) \in Nat /\ Cardinality(U) \in Nat
  BY <1>2, FS_CardinalityType
<1> QED
  BY <1>4, <1>5, <1>6, <1>7

LEMMA LyingCount ==
  ASSUME NEW g, NEW i
  PROVE  Cardinality(Lying(g, i)) = One(i \in g.ground) + One(i \in g.pawn)
<1> DEFINE a == <<1, g.ground>>
           b == <<2, g.pawn>>
<1>1. a # b /\ a[2] = g.ground /\ b[2] = g.pawn
  OBVIOUS
<1>2. Lying(g, i) = {S \in {a, b} : i \in S[2]}
  BY DEF Lying
<1> HIDE DEF a, b
<1>3. Cardinality({}) = 0 /\ IsFiniteSet({})
  BY FS_EmptySet
<1>4. Cardinality({a}) = 1 /\ IsFiniteSet({a}) /\ Cardinality({b}) = 1
  <2>1. \A x : {} \cup {x} = {x}
    OBVIOUS
  <2> QED
    BY <1>3, <2>1, FS_AddElement
<1>5. Cardinality({a, b}) = 2
  <2>1. {a} \cup {b} = {a, b} /\ b \notin {a}
    BY <1>1
  <2> QED
    BY <1>4, <2>1, FS_AddElement
<1>6. CASE i \in g.ground /\ i \in g.pawn
  <2>1. Lying(g, i) = {a, b}
    BY <1>1, <1>2, <1>6
  <2> QED
    BY <1>5, <1>6, <2>1 DEF One
<1>7. CASE i \in g.ground /\ i \notin g.pawn
  <2>1. Lying(g, i) = {a}
    BY <1>1, <1>2, <1>7
  <2> QED
    BY <1>4, <1>7, <2>1 DEF One
<1>8. CASE i \notin g.ground /\ i \in g.pawn
  <2>1. Lying(g, i) = {b}
    BY <1>1, <1>2, <1>8
  <2> QED
    BY <1>4, <1>8, <2>1 DEF One
<1>9. CASE i \notin g.ground /\ i \notin g.pawn
  <2>1. Lying(g, i) = {}
    BY <1>1, <1>2, <1>9
  <2> QED
    BY <1>3, <1>9, <2>1 DEF One
<1> QED
  BY <1>6, <1>7, <1>8, <1>9

-----------------------------------------------------------------------------
(* The game in memory and the files, and what a step does to one player's  *)
(* part of them: MemAt gives what he carries and has in his locker, what   *)
(* lies about and is in the shop; FileAt what is in his two files.         *)
MemAt(h, p, C, L, G, W) ==
  /\ MemOK(h, Players) /\ h.board = game.board /\ h.count = game.count
  /\ h.carried[p] = C /\ h.locker[p] = L /\ h.ground = G /\ h.pawn = W
  /\ \A q \in Players \ {p} : h.carried[q] = game.carried[q] /\ h.locker[q] = game.locker[q]
FileAt(f, p, S, K) ==
  /\ FileOK(f, Players) /\ f.insured = disk.insured
  /\ f.stash[p] = S /\ f.locker[p] = K
  /\ \A q \in Players \ {p} : f.stash[q] = disk.stash[q] /\ f.locker[q] = disk.locker[q]

(* What there is of an object that a step of a player may move: with him,  *)
(* who is in phase ph and room rm, and in nobody's hands.                  *)
CopiesOf(i, ph, rm, C, L, G, W, S, K) ==
  One(ph \notin {"play", "linkdead"} /\ i \in S)
    + One(~(ph \in {"play", "linkdead"} /\ rm = "locker") /\ i \in K)
    + One(i \in C) + One(i \in L) + One(i \in G) + One(i \in W)

Had(i, p) == CopiesOf(i, phase[p], room[p], game.carried[p], game.locker[p], game.ground, game.pawn,
                 disk.stash[p], disk.locker[p])
Seated(ph, rm, L, K) ==
  IF ph \in {"play", "linkdead"} THEN rm = "locker" => K \ Gone \subseteq L ELSE rm = "rent"

(* A step that changes the part of one player. *)
StepAt(p, ph, rm, C, L, G, W, S, K) ==
  /\ ph \in Phases /\ rm \in Rooms \cup {"limbo"} /\ Seated(ph, rm, L, K)
  /\ phase' = [phase EXCEPT ![p] = ph] /\ room' = [room EXCEPT ![p] = rm]
  /\ MemAt(game', p, C, L, G, W) /\ FileAt(disk', p, S, K)

LEMMA StepFields ==
  ASSUME StashInv, NEW p \in Players, NEW ph, NEW rm, NEW C, NEW L, NEW G, NEW W, NEW S, NEW K,
         StepAt(p, ph, rm, C, L, G, W, S, K)
  PROVE  /\ Players' = Players
         /\ phase'[p] = ph /\ room'[p] = rm
         /\ \A q \in Players \ {p} : phase'[q] = phase[q] /\ room'[q] = room[q]
         /\ phase' \in [Players -> Phases] /\ room' \in [Players -> Rooms \cup {"limbo"}]
BY DEF StashInv, StepAt, Players

LEMMA StepKeeps ==
  ASSUME StashInv, NEW p \in Players, NEW ph, NEW rm, NEW C, NEW L, NEW G, NEW W, NEW S, NEW K,
         StepAt(p, ph, rm, C, L, G, W, S, K)
  PROVE  StashInv'
<1>1. /\ Players' = Players
      /\ phase'[p] = ph /\ room'[p] = rm
      /\ \A q \in Players \ {p} : phase'[q] = phase[q] /\ room'[q] = room[q]
      /\ phase' \in [Players -> Phases] /\ room' \in [Players -> Rooms \cup {"limbo"}]
  BY StepFields
<1>2. /\ MemAt(game', p, C, L, G, W) /\ FileAt(disk', p, S, K) /\ Seated(ph, rm, L, K)
  BY DEF StepAt
<1>3. MemOK(game', Players) /\ FileOK(disk', Players)
  BY <1>2 DEF MemAt, FileAt
<1>4. OutAtRent'
  <2> SUFFICES ASSUME NEW q \in Players, ~(phase'[q] \in {"play", "linkdead"}) PROVE room'[q] = "rent"
    BY <1>1 DEF OutAtRent, InWorld
  <2>1. CASE q = p
    BY <1>1, <1>2, <2>1 DEF Seated
  <2>2. CASE q # p
    BY <1>1, <2>2 DEF StashInv, OutAtRent, InWorld
  <2> QED
    BY <2>1, <2>2
<1>5. LockerRead'
  <2> SUFFICES ASSUME NEW q \in Players, phase'[q] \in {"play", "linkdead"}, room'[q] = "locker"
               PROVE  disk'.locker[q] \ Gone \subseteq game'.locker[q]
    BY <1>1 DEF LockerRead, InWorld
  <2>1. CASE q = p
    <3>1. K \ Gone \subseteq L
      BY <1>1, <1>2, <2>1 DEF Seated
    <3>2. disk'.locker[p] = K /\ game'.locker[p] = L
      BY <1>2 DEF MemAt, FileAt
    <3> QED
      BY <2>1, <3>1, <3>2
  <2>2. CASE q # p
    <3>1. disk'.locker[q] = disk.locker[q] /\ game'.locker[q] = game.locker[q]
      BY <1>2, <2>2 DEF MemAt, FileAt
    <3>2. InWorld(q) /\ room[q] = "locker"
      BY <1>1, <2>2 DEF InWorld
    <3>3. disk.locker[q] \ Gone \subseteq game.locker[q]
      BY <3>2 DEF StashInv, LockerRead
    <3> QED
      BY <3>1, <3>3
  <2> QED
    BY <2>1, <2>2
<1>6. Written(game', disk')
  <2>1. game'.board = game.board /\ game'.count = game.count /\ disk'.insured = disk.insured
    BY <1>2 DEF MemAt, FileAt
  <2> QED
    BY <2>1 DEF StashInv, Written
<1>7. Players \subseteq Renter
  BY DEF StashInv
<1> QED
  BY <1>1, <1>3, <1>4, <1>5, <1>6, <1>7 DEF StashInv

LEMMA PlayersFinite ==
  ASSUME StashInv
  PROVE  /\ IsFiniteSet(Players)
         /\ \A i : /\ IsFiniteSet(OnFile(disk, i)) /\ IsFiniteSet(Lockers(disk, i))
                   /\ IsFiniteSet(Carried(game, i)) /\ IsFiniteSet(Held(game, i))
<1>1. IsFiniteSet(Players)
  BY StashAssumption, FS_Subset DEF StashInv
<1>2. ASSUME NEW i
      PROVE  /\ OnFile(disk, i) \subseteq Players /\ Lockers(disk, i) \subseteq Players
             /\ Carried(game, i) \subseteq Players /\ Held(game, i) \subseteq Players
  BY DEF OnFile, Lockers, Carried, Held
<1> QED
  BY <1>1, <1>2, FS_Subset

LEMMA BoardFinite ==
  ASSUME StashInv, NEW i
  PROVE  IsFiniteSet(OnBoard(game, i)) /\ Cardinality(OnBoard(game, i)) \in Nat
<1>1. OnBoard(game, i) \subseteq 1 .. game.count /\ game.count \in Int
  BY DEF OnBoard, StashInv, MemOK
<1>2. IsFiniteSet(1 .. game.count)
  BY <1>1, FS_Interval
<1> QED
  BY <1>1, <1>2, FS_Subset, FS_CardinalityType

(* No more copies when there is not more of it with him whom the step is   *)
(* about.                                                                  *)
LEMMA StepCopies ==
  ASSUME StashInv, NEW p \in Players, NEW ph, NEW rm, NEW C, NEW L, NEW G, NEW W, NEW S, NEW K,
         StepAt(p, ph, rm, C, L, G, W, S, K), NEW i,
         CopiesOf(i, ph, rm, C, L, G, W, S, K) <= Had(i, p)
  PROVE  ~(Copies(i)' > Copies(i))
<1>1. /\ Players' = Players
      /\ phase'[p] = ph /\ room'[p] = rm
      /\ \A q \in Players \ {p} : phase'[q] = phase[q] /\ room'[q] = room[q]
  BY StepFields
<1>2. MemAt(game', p, C, L, G, W) /\ FileAt(disk', p, S, K)
  BY DEF StepAt
<1>3. /\ game'.carried[p] = C /\ game'.locker[p] = L /\ game'.ground = G /\ game'.pawn = W
      /\ game'.board = game.board /\ game'.count = game.count
      /\ disk'.stash[p] = S /\ disk'.locker[p] = K
  BY <1>2 DEF MemAt, FileAt
<1>4. ASSUME NEW q \in Players \ {p}
      PROVE  /\ game'.carried[q] = game.carried[q] /\ game'.locker[q] = game.locker[q]
             /\ disk'.stash[q] = disk.stash[q] /\ disk'.locker[q] = disk.locker[q]
  BY <1>2 DEF MemAt, FileAt
<1> DEFINE a == OnFile(disk, i)   a1 == OnFile(disk, i)'
           b == Lockers(disk, i)  b1 == Lockers(disk, i)'
           c == Carried(game, i)  c1 == Carried(game, i)'
           d == Held(game, i)     d1 == Held(game, i)'
           e == OnBoard(game, i)  e1 == OnBoard(game, i)'
<1>5. /\ a1 \ {p} \subseteq a /\ b1 \ {p} \subseteq b
      /\ c1 \ {p} \subseteq c /\ d1 \ {p} \subseteq d
  BY <1>1, <1>4 DEF OnFile, Lockers, Carried, Held, InWorld
<1>6. e1 = e
  BY <1>3 DEF OnBoard
<1>7. /\ One(p \in a) = One(phase[p] \notin {"play", "linkdead"} /\ i \in disk.stash[p])
      /\ One(p \in b) = One(~(phase[p] \in {"play", "linkdead"} /\ room[p] = "locker") /\ i \in disk.locker[p])
      /\ One(p \in c) = One(i \in game.carried[p]) /\ One(p \in d) = One(i \in game.locker[p])
  BY DEF OnFile, Lockers, Carried, Held, InWorld, One
<1>8. /\ One(p \in a1) = One(ph \notin {"play", "linkdead"} /\ i \in S)
      /\ One(p \in b1) = One(~(ph \in {"play", "linkdead"} /\ rm = "locker") /\ i \in K)
      /\ One(p \in c1) = One(i \in C) /\ One(p \in d1) = One(i \in L)
  BY <1>1, <1>3 DEF OnFile, Lockers, Carried, Held, InWorld, One
<1>9. /\ IsFiniteSet(a) /\ IsFiniteSet(b) /\ IsFiniteSet(c) /\ IsFiniteSet(d)
      /\ Cardinality(e) \in Nat
  BY PlayersFinite, BoardFinite
<1>10. /\ Copies(i) = Cardinality(a) + Cardinality(b) + Cardinality(e) + Cardinality(c) + Cardinality(d)
                        + Cardinality(Lying(game, i))
       /\ Copies(i)' = Cardinality(a1) + Cardinality(b1) + Cardinality(e1) + Cardinality(c1)
                        + Cardinality(d1) + Cardinality(Lying(game, i)')
  BY DEF Copies
<1>11. /\ Cardinality(Lying(game, i)) = One(i \in game.ground) + One(i \in game.pawn)
       /\ Cardinality(Lying(game, i)') = One(i \in G) + One(i \in W)
  <2>1. Lying(game, i)' = Lying(game', i)
    BY DEF Lying
  <2> QED
    BY <1>3, <2>1, LyingCount
<1> HIDE DEF a, a1, b, b1, c, c1, d, d1, e, e1
<1>12. /\ Cardinality(a) \in Nat /\ Cardinality(a1) \in Nat
       /\ Cardinality(a1) - One(p \in a1) <= Cardinality(a) - One(p \in a)
  BY <1>5, <1>9, ChangedAt
<1>13. /\ Cardinality(b) \in Nat /\ Cardinality(b1) \in Nat
       /\ Cardinality(b1) - One(p \in b1) <= Cardinality(b) - One(p \in b)
  BY <1>5, <1>9, ChangedAt
<1>14. /\ Cardinality(c) \in Nat /\ Cardinality(c1) \in Nat
       /\ Cardinality(c1) - One(p \in c1) <= Cardinality(c) - One(p \in c)
  BY <1>5, <1>9, ChangedAt
<1>15. /\ Cardinality(d) \in Nat /\ Cardinality(d1) \in Nat
       /\ Cardinality(d1) - One(p \in d1) <= Cardinality(d) - One(p \in d)
  BY <1>5, <1>9, ChangedAt
<1>16. \A x : One(x) \in {0, 1}
  BY DEF One
<1>17. /\ Had(i, p) = One(p \in a) + One(p \in b) + One(p \in c) + One(p \in d)
                        + One(i \in game.ground) + One(i \in game.pawn)
       /\ CopiesOf(i, ph, rm, C, L, G, W, S, K) = One(p \in a1) + One(p \in b1) + One(p \in c1) + One(p \in d1)
                        + One(i \in G) + One(i \in W)
  BY <1>7, <1>8 DEF Had, CopiesOf
<1> DEFINE A == Cardinality(a) A1 == Cardinality(a1) B == Cardinality(b) B1 == Cardinality(b1)
           D == Cardinality(c) D1 == Cardinality(c1) E == Cardinality(d) E1 == Cardinality(d1)
           F == Cardinality(e) na == One(p \in a) na1 == One(p \in a1) nb == One(p \in b)
           nb1 == One(p \in b1) nc == One(p \in c) nc1 == One(p \in c1) nd == One(p \in d)
           nd1 == One(p \in d1) ng == One(i \in game.ground) nw == One(i \in game.pawn)
           ng1 == One(i \in G) nw1 == One(i \in W)
<1>18. /\ Copies(i) = A + B + F + D + E + (ng + nw) /\ Copies(i)' = A1 + B1 + F + D1 + E1 + (ng1 + nw1)
  BY <1>6, <1>10, <1>11
<1>19. na1 + nb1 + nc1 + nd1 + ng1 + nw1 <= na + nb + nc + nd + ng + nw
  BY <1>17
<1>20. /\ na \in Int /\ na1 \in Int /\ nb \in Int /\ nb1 \in Int /\ nc \in Int /\ nc1 \in Int
       /\ nd \in Int /\ nd1 \in Int /\ ng \in Int /\ ng1 \in Int /\ nw \in Int /\ nw1 \in Int
  BY DEF One
<1> HIDE DEF A, A1, B, B1, D, D1, E, E1, F, na, na1, nb, nb1, nc, nc1, nd, nd1, ng, nw, ng1, nw1
<1>21. /\ A \in Int /\ A1 \in Int /\ A1 - na1 <= A - na
       /\ B \in Int /\ B1 \in Int /\ B1 - nb1 <= B - nb
       /\ D \in Int /\ D1 \in Int /\ D1 - nc1 <= D - nc
       /\ E \in Int /\ E1 \in Int /\ E1 - nd1 <= E - nd
       /\ F \in Int
  BY <1>9, <1>12, <1>13, <1>14, <1>15 DEF A, A1, B, B1, D, D1, E, E1, F, na, na1, nb, nb1, nc, nc1, nd, nd1
<1>22. A1 + B1 + F + D1 + E1 + (ng1 + nw1) <= A + B + F + D + E + (ng + nw)
  BY <1>19, <1>20, <1>21
<1>23. A1 + B1 + F + D1 + E1 + (ng1 + nw1) \in Int /\ A + B + F + D + E + (ng + nw) \in Int
  BY <1>20, <1>21
<1> QED
  BY <1>18, <1>22, <1>23

(* The board is as it was, and what is on it is still insured. *)
LEMMA StepInsured ==
  ASSUME StashInv, NEW p \in Players, NEW ph, NEW rm, NEW C, NEW L, NEW G, NEW W, NEW S, NEW K,
         StepAt(p, ph, rm, C, L, G, W, S, K)
  PROVE  KeysStep
<1>1. game'.board = game.board /\ game'.count = game.count
  BY DEF StepAt, MemAt
<1>2. \A q, i : Insured(q, i) => Insured(q, i)'
  BY <1>1 DEF Insured
<1> QED
  BY <1>2 DEF KeysStep

NoMore == \A i \in Thing \ Gone : ~(Copies(i)' > Copies(i))

LEMMA StepFine ==
  ASSUME StashInv, NEW p \in Players, NEW ph, NEW rm, NEW C, NEW L, NEW G, NEW W, NEW S, NEW K,
         StepAt(p, ph, rm, C, L, G, W, S, K),
         \A i \in Thing \ Gone : CopiesOf(i, ph, rm, C, L, G, W, S, K) <= Had(i, p)
  PROVE  StashInv' /\ KeysStep /\ NoMore
BY StepKeeps, StepInsured, StepCopies DEF NoMore

-----------------------------------------------------------------------------
(* The commands of one player. *)
LEMMA StateOf ==
  ASSUME StashInv, NEW p \in Players
  PROVE  /\ phase[p] \in Phases /\ room[p] \in Rooms \cup {"limbo"}
         /\ phase = [phase EXCEPT ![p] = phase[p]] /\ room = [room EXCEPT ![p] = room[p]]
         /\ Seated(phase[p], room[p], game.locker[p], disk.locker[p])
         /\ game.carried[p] \in SUBSET Thing /\ game.locker[p] \in SUBSET Thing
         /\ game.ground \in SUBSET Thing /\ game.pawn \in SUBSET Thing
         /\ disk.stash[p] \in SUBSET Thing /\ disk.locker[p] \in SUBSET Thing
<1>1. phase \in [Players -> Phases] /\ room \in [Players -> Rooms \cup {"limbo"}]
  BY DEF StashInv
<1>2. Seated(phase[p], room[p], game.locker[p], disk.locker[p])
  BY DEF StashInv, OutAtRent, LockerRead, Seated, InWorld
<1>3. /\ game.carried[p] \in SUBSET Thing /\ game.locker[p] \in SUBSET Thing
      /\ game.ground \in SUBSET Thing /\ game.pawn \in SUBSET Thing
  BY DEF StashInv, MemOK
<1>4. disk.stash[p] \in SUBSET Thing /\ disk.locker[p] \in SUBSET Thing
  BY DEF StashInv, FileOK, Files
<1>5. phase = [phase EXCEPT ![p] = phase[p]] /\ room = [room EXCEPT ![p] = room[p]]
  BY <1>1
<1> QED
  BY <1>1, <1>2, <1>3, <1>4, <1>5

LEMMA SamePlaces ==
  ASSUME StashInv, NEW p \in Players
  PROVE  /\ MemAt(game, p, game.carried[p], game.locker[p], game.ground, game.pawn)
         /\ FileAt(disk, p, disk.stash[p], disk.locker[p])
BY DEF StashInv, MemAt, FileAt

LEMMA CarriedSet ==
  ASSUME StashInv, NEW p \in Players, NEW C \in SUBSET Thing
  PROVE  MemAt([game EXCEPT !.carried[p] = C], p, C, game.locker[p], game.ground, game.pawn)
BY DEF StashInv, MemAt, MemOK

LEMMA LockerSet ==
  ASSUME StashInv, NEW p \in Players, NEW L \in SUBSET Thing
  PROVE  MemAt([game EXCEPT !.locker[p] = L], p, game.carried[p], L, game.ground, game.pawn)
BY DEF StashInv, MemAt, MemOK

LEMMA StashSet ==
  ASSUME StashInv, NEW p \in Players, NEW S \in SUBSET Thing
  PROVE  FileAt([disk EXCEPT !.stash[p] = S], p, S, disk.locker[p])
BY DEF StashInv, FileAt, FileOK, Files

LEMMA FilesSet ==
  ASSUME StashInv, NEW p \in Players, NEW S \in SUBSET Thing, NEW K \in SUBSET Thing
  PROVE  /\ FileAt([disk EXCEPT !.stash[p] = S, !.locker[p] = K], p, S, K)
         /\ FileAt([disk EXCEPT !.locker[p] = K], p, disk.stash[p], K)
BY DEF StashInv, FileAt, FileOK, Files

LEMMA GoFine ==
  ASSUME StashInv, NEW p \in Players, NEW r \in Rooms, Go(p, r)
  PROVE  StashInv' /\ KeysStep /\ NoMore
<1> DEFINE L == IF r = "locker" THEN disk.locker[p] \ Gone ELSE {}
<1>1. /\ phase[p] = "play" /\ room[p] # r /\ room' = [room EXCEPT ![p] = r]
      /\ game' = Entering(game, p, r) /\ UNCHANGED <<phase, disk>>
  BY DEF Go
<1>2. MemAt(game', p, game.carried[p], L, game.ground, game.pawn)
  <2>1. L \in SUBSET Thing
    BY StateOf
  <2>2. game' = [game EXCEPT !.locker[p] = L]
    <3>1. CASE r # "locker"
      BY <1>1, <3>1 DEF Entering, char_from_locker
    <3>2. CASE r = "locker"
      <4>1. game' = [[game EXCEPT !.locker[p] = {}] EXCEPT !.locker[p] = L]
        BY <1>1, <3>2 DEF Entering, char_from_locker, char_to_locker, unstash_item
      <4> QED
        BY <4>1 DEF StashInv, MemOK
    <3> QED
      BY <3>1, <3>2
  <2> QED
    BY <2>1, <2>2, LockerSet
<1>3. StepAt(p, "play", r, game.carried[p], L, game.ground, game.pawn, disk.stash[p], disk.locker[p])
  <2>1. phase' = [phase EXCEPT ![p] = "play"]
    BY <1>1, StateOf
  <2>2. Seated("play", r, L, disk.locker[p])
    BY DEF Seated
  <2>3. FileAt(disk', p, disk.stash[p], disk.locker[p])
    BY <1>1, SamePlaces
  <2> QED
    BY <1>1, <1>2, <2>1, <2>2, <2>3 DEF StepAt, Phases
<1>4. ASSUME NEW i \in Thing \ Gone
      PROVE  CopiesOf(i, "play", r, game.carried[p], L, game.ground, game.pawn, disk.stash[p], disk.locker[p]) <= Had(i, p)
  <2>1. Seated("play", room[p], game.locker[p], disk.locker[p])
    BY <1>1, StateOf
  <2>2. room[p] = "locker" /\ i \in disk.locker[p] => i \in game.locker[p]
    BY <2>1 DEF Seated
  <2> QED
    BY <1>1, <2>2 DEF CopiesOf, Had, One
<1> QED
  BY <1>3, <1>4, StepFine

(* In and out of the game: the phase changes, and what is read or saved.   *)
LEMMA EntersFine ==
  ASSUME StashInv, NEW p \in Players, nanny(p) \/ nan_enter_game(p) \/ reconnect(p)
  PROVE  StashInv' /\ KeysStep /\ NoMore
<1>1. CASE nanny(p)
  <2>1. /\ phase[p] = "out" /\ phase' = [phase EXCEPT ![p] = "menu"]
        /\ UNCHANGED <<room, game, disk>>
    BY <1>1 DEF nanny
  <2>2. Seated("menu", room[p], game.locker[p], disk.locker[p])
    BY <2>1, StateOf DEF Seated
  <2>3. StepAt(p, "menu", room[p], game.carried[p], game.locker[p], game.ground, game.pawn,
               disk.stash[p], disk.locker[p])
    BY <2>1, <2>2, StateOf, SamePlaces DEF StepAt, Phases
  <2>4. \A i \in Thing \ Gone :
          CopiesOf(i, "menu", room[p], game.carried[p], game.locker[p], game.ground, game.pawn,
              disk.stash[p], disk.locker[p]) <= Had(i, p)
    BY <2>1 DEF CopiesOf, Had, One
  <2> QED
    BY <2>3, <2>4, StepFine
<1>2. CASE reconnect(p)
  <2>1. /\ phase[p] = "linkdead" /\ phase' = [phase EXCEPT ![p] = "play"]
        /\ UNCHANGED <<room, game, disk>>
    BY <1>2 DEF reconnect
  <2>2. Seated("play", room[p], game.locker[p], disk.locker[p])
    BY <2>1, StateOf DEF Seated
  <2>3. StepAt(p, "play", room[p], game.carried[p], game.locker[p], game.ground, game.pawn,
               disk.stash[p], disk.locker[p])
    BY <2>1, <2>2, StateOf, SamePlaces DEF StepAt, Phases
  <2>4. \A i \in Thing \ Gone :
          CopiesOf(i, "play", room[p], game.carried[p], game.locker[p], game.ground, game.pawn,
              disk.stash[p], disk.locker[p]) <= Had(i, p)
    BY <2>1 DEF CopiesOf, Had, One
  <2> QED
    BY <2>3, <2>4, StepFine
<1>3. CASE nan_enter_game(p)
  <2> DEFINE C == game.carried[p] \cup (disk.stash[p] \ Gone)
  <2>1. /\ phase[p] = "menu" /\ phase' = [phase EXCEPT ![p] = "play"]
        /\ game' = [game EXCEPT !.carried[p] = C] /\ UNCHANGED <<room, disk>>
    BY <1>3 DEF nan_enter_game, unstash_char, unstash_item
  <2>2. room[p] = "rent" /\ C \in SUBSET Thing
    BY <2>1, StateOf DEF Seated
  <2>3. Seated("play", "rent", game.locker[p], disk.locker[p])
    BY DEF Seated
  <2>4. MemAt(game', p, C, game.locker[p], game.ground, game.pawn)
    BY <2>1, <2>2, CarriedSet
  <2>5. StepAt(p, "play", "rent", C, game.locker[p], game.ground, game.pawn, disk.stash[p], disk.locker[p])
    <3>1. room' = [room EXCEPT ![p] = "rent"] /\ FileAt(disk', p, disk.stash[p], disk.locker[p])
      BY <2>1, <2>2, StateOf, SamePlaces
    <3> QED
      BY <2>1, <2>3, <2>4, <3>1 DEF StepAt, Phases, Rooms
  <2>6. \A i \in Thing \ Gone :
          CopiesOf(i, "play", "rent", C, game.locker[p], game.ground, game.pawn, disk.stash[p], disk.locker[p]) <= Had(i, p)
    BY <2>1, <2>2 DEF CopiesOf, Had, One
  <2> QED
    BY <2>5, <2>6, StepFine
<1> QED
  BY <1>1, <1>2, <1>3

LEMMA StashedIs ==
  ASSUME NEW C \in SUBSET Thing
  PROVE  Stashed(C) \in SUBSET Thing /\ Stashed(C) \subseteq C
BY DEF Stashed

LEMMA SavesFine ==
  ASSUME StashInv, NEW p \in Players, do_save(p) \/ lost_link(p)
  PROVE  StashInv' /\ KeysStep /\ NoMore
<1> DEFINE S == Stashed(game.carried[p])
<1>1. PICK ph \in {"play", "linkdead"} :
        /\ phase[p] = "play" /\ phase' = [phase EXCEPT ![p] = ph]
        /\ disk' = [disk EXCEPT !.stash[p] = S] /\ UNCHANGED <<room, game>>
  <2>1. CASE do_save(p)
    <3>1. phase' = [phase EXCEPT ![p] = "play"]
      BY <2>1, StateOf DEF do_save
    <3> QED
      BY <2>1, <3>1 DEF do_save, stash_char
  <2>2. CASE lost_link(p)
    BY <2>2 DEF lost_link, stash_char
  <2> QED
    BY <2>1, <2>2
<1>2. S \in SUBSET Thing
  BY StateOf, StashedIs
<1> HIDE DEF S
<1>3. FileAt(disk', p, S, disk.locker[p])
  BY <1>1, <1>2, StashSet
<1>4. Seated(ph, room[p], game.locker[p], disk.locker[p])
  BY <1>1, StateOf DEF Seated
<1>5. StepAt(p, ph, room[p], game.carried[p], game.locker[p], game.ground, game.pawn, S, disk.locker[p])
  <2>1. room' = [room EXCEPT ![p] = room[p]] /\ room[p] \in Rooms \cup {"limbo"}
        /\ MemAt(game', p, game.carried[p], game.locker[p], game.ground, game.pawn)
    BY <1>1, StateOf, SamePlaces
  <2> QED
    BY <1>1, <1>3, <1>4, <2>1 DEF StepAt, Phases
<1>6. \A i \in Thing \ Gone :
        CopiesOf(i, ph, room[p], game.carried[p], game.locker[p], game.ground, game.pawn, S, disk.locker[p]) <= Had(i, p)
  BY <1>1 DEF CopiesOf, Had, One
<1> QED
  BY <1>5, <1>6, StepFine

(* Out of the game: the locker stays on file, and who was at it had in     *)
(* memory what is there.                                                   *)
LEMMA LeftLocker ==
  ASSUME StashInv, NEW p \in Players, NEW i \in Thing \ Gone, InWorld(p)
  PROVE  room[p] = "locker" /\ i \in disk.locker[p] => i \in game.locker[p]
<1>1. Seated(phase[p], room[p], game.locker[p], disk.locker[p])
  BY StateOf
<1> QED
  BY <1>1 DEF Seated, InWorld

LEMMA WipedSet ==
  ASSUME StashInv, NEW p \in Players
  PROVE  /\ MemAt(char_from_locker(wipe_all_obj(game, p), p), p, {}, {}, game.ground, game.pawn)
         /\ MemAt(char_from_locker(game, p), p, game.carried[p], {}, game.ground, game.pawn)
         /\ MemAt(char_from_locker(Corpse(game, p), p), p, {}, {}, game.ground \cup game.carried[p], game.pawn)
<1>1. MemAt(char_from_locker(wipe_all_obj(game, p), p), p, {}, {}, game.ground, game.pawn)
  BY DEF StashInv, MemAt, MemOK, char_from_locker, wipe_all_obj
<1>2. MemAt(char_from_locker(game, p), p, game.carried[p], {}, game.ground, game.pawn)
  BY DEF StashInv, MemAt, MemOK, char_from_locker
<1>3. MemAt(char_from_locker(Corpse(game, p), p), p, {}, {}, game.ground \cup game.carried[p], game.pawn)
  BY DEF StashInv, MemAt, MemOK, char_from_locker, Corpse
<1> QED
  BY <1>1, <1>2, <1>3

LEMMA OutStep ==
  ASSUME StashInv, NEW p \in Players, NEW f, NEW g, NEW to \in {"menu", "out"}, LeavesGame(p, f, g, to),
         NEW C, NEW G, NEW W, NEW S, NEW K,
         MemAt(char_from_locker(g, p), p, C, {}, G, W), FileAt(f, p, S, K)
  PROVE  StepAt(p, to, "rent", C, {}, G, W, S, K)
<1>1. /\ phase' = [phase EXCEPT ![p] = to] /\ room' = [room EXCEPT ![p] = "rent"]
      /\ game' = char_from_locker(g, p) /\ disk' = f
  BY DEF LeavesGame
<1>2. Seated(to, "rent", {}, K)
  BY DEF Seated
<1> QED
  BY <1>1, <1>2 DEF StepAt, Phases, Rooms

LEMMA SavedFine ==
  ASSUME StashInv, NEW p \in Players, NEW to \in {"menu", "out"}, InWorld(p), Saved(p, to)
  PROVE  StashInv' /\ KeysStep /\ NoMore
<1> DEFINE S == Stashed(game.carried[p])
<1>1. LeavesGame(p, [disk EXCEPT !.stash[p] = S], wipe_all_obj(game, p), to)
  BY DEF Saved, stash_char
<1>2. S \in SUBSET Thing /\ S \subseteq game.carried[p]
  BY StateOf, StashedIs
<1> HIDE DEF S
<1>3. StepAt(p, to, "rent", {}, {}, game.ground, game.pawn, S, disk.locker[p])
  BY <1>1, <1>2, StashSet, WipedSet, OutStep
<1>4. ASSUME NEW i \in Thing \ Gone
      PROVE  CopiesOf(i, to, "rent", {}, {}, game.ground, game.pawn, S, disk.locker[p]) <= Had(i, p)
  <2>1. room[p] = "locker" /\ i \in disk.locker[p] => i \in game.locker[p]
    BY LeftLocker
  <2>2. phase[p] \in {"play", "linkdead"}
    BY DEF InWorld
  <2> QED
    BY <1>2, <2>1, <2>2 DEF CopiesOf, Had, One
<1> QED
  BY <1>3, <1>4, StepFine

LEMMA LimboFine ==
  ASSUME StashInv, NEW p \in Players, InWorld(p), room' = [room EXCEPT ![p] = "limbo"],
         game' = char_from_locker(game, p), UNCHANGED <<phase, disk>>
  PROVE  StashInv' /\ KeysStep /\ NoMore
<1>1. StepAt(p, phase[p], "limbo", game.carried[p], {}, game.ground, game.pawn, disk.stash[p], disk.locker[p])
  <2>1. phase' = [phase EXCEPT ![p] = phase[p]] /\ phase[p] \in Phases
    BY StateOf
  <2>2. Seated(phase[p], "limbo", {}, disk.locker[p])
    BY DEF Seated, InWorld
  <2>3. /\ MemAt(game', p, game.carried[p], {}, game.ground, game.pawn)
        /\ FileAt(disk', p, disk.stash[p], disk.locker[p])
    BY WipedSet, SamePlaces
  <2> QED
    BY <2>1, <2>2, <2>3 DEF StepAt
<1>2. ASSUME NEW i \in Thing \ Gone
      PROVE  CopiesOf(i, phase[p], "limbo", game.carried[p], {}, game.ground, game.pawn,
                 disk.stash[p], disk.locker[p]) <= Had(i, p)
  <2>1. room[p] = "locker" /\ i \in disk.locker[p] => i \in game.locker[p]
    BY LeftLocker
  <2>2. phase[p] \in {"play", "linkdead"}
    BY DEF InWorld
  <2> QED
    BY <2>1, <2>2 DEF CopiesOf, Had, One
<1> QED
  BY <1>1, <1>2, StepFine

LEMMA LeavesFine ==
  ASSUME StashInv, NEW p \in Players, do_rent(p) \/ do_purge(p) \/ check_idling(p)
  PROVE  StashInv' /\ KeysStep /\ NoMore
<1>1. CASE do_rent(p)
  BY <1>1, SavedFine DEF do_rent, Here, InWorld
<1>2. CASE do_purge(p)
  BY <1>2, SavedFine DEF do_purge
<1>3. CASE check_idling(p)
  BY <1>3, SavedFine, LimboFine DEF check_idling
<1> QED
  BY <1>1, <1>2, <1>3

(* Who dies leaves what he carried, and his file is wiped; a dying player  *)
(* who quits keeps it, which is the copy CopiesStep allows.                *)
LEMMA KilledStep ==
  ASSUME StashInv, NEW p \in Players, NEW f, Killed(p, f), NEW S, FileAt(f, p, S, disk.locker[p])
  PROVE  \E to \in {"menu", "out"} :
           StepAt(p, to, "rent", {}, {}, game.ground \cup game.carried[p], game.pawn, S, disk.locker[p])
<1>1. PICK to \in {"menu", "out"} : LeavesGame(p, f, Corpse(game, p), to)
  BY DEF Killed
<1> QED
  BY <1>1, WipedSet, OutStep

LEMMA DamageFine ==
  ASSUME StashInv, NEW p \in Players, damage(p)
  PROVE  StashInv' /\ KeysStep /\ NoMore
<1>1. InWorld(p) /\ Killed(p, [disk EXCEPT !.stash[p] = {}])
  BY DEF damage, wipe_stash
<1>2. FileAt([disk EXCEPT !.stash[p] = {}], p, {}, disk.locker[p])
  BY StashSet
<1>3. PICK to \in {"menu", "out"} :
        StepAt(p, to, "rent", {}, {}, game.ground \cup game.carried[p], game.pawn, {}, disk.locker[p])
  BY <1>1, <1>2, KilledStep
<1>4. ASSUME NEW i \in Thing \ Gone
      PROVE  CopiesOf(i, to, "rent", {}, {}, game.ground \cup game.carried[p], game.pawn, {}, disk.locker[p]) <= Had(i, p)
  <2>1. room[p] = "locker" /\ i \in disk.locker[p] => i \in game.locker[p]
    BY <1>1, LeftLocker
  <2>2. phase[p] \in {"play", "linkdead"}
    BY <1>1 DEF InWorld
  <2> QED
    BY <2>1, <2>2 DEF CopiesOf, Had, One
<1> QED
  BY <1>3, <1>4, StepFine

LEMMA QuitFine ==
  ASSUME StashInv, NEW p \in Players, do_quit(p)
  PROVE  StashInv' /\ KeysStep
<1>1. Killed(p, disk)
  BY DEF do_quit
<1>2. PICK to \in {"menu", "out"} :
        StepAt(p, to, "rent", {}, {}, game.ground \cup game.carried[p], game.pawn, disk.stash[p], disk.locker[p])
  BY <1>1, SamePlaces, KilledStep
<1> QED
  BY <1>2, StepKeeps, StepInsured

LEMMA DeleteFine ==
  ASSUME StashInv, NEW p \in Players, delete_char(p)
  PROVE  StashInv' /\ KeysStep /\ NoMore
<1>1. phase[p] = "menu" /\ LeavesGame(p, [wipe_stash(disk, p) EXCEPT !.locker[p] = {}], game, "out")
  BY DEF delete_char
<1>2. FileAt([wipe_stash(disk, p) EXCEPT !.locker[p] = {}], p, {}, {})
  BY DEF StashInv, FileAt, FileOK, Files, wipe_stash
<1>3. StepAt(p, "out", "rent", game.carried[p], {}, game.ground, game.pawn, {}, {})
  BY <1>1, <1>2, WipedSet, OutStep
<1>4. \A i \in Thing \ Gone :
        CopiesOf(i, "out", "rent", game.carried[p], {}, game.ground, game.pawn, {}, {}) <= Had(i, p)
  BY DEF CopiesOf, Had, One
<1> QED
  BY <1>3, <1>4, StepFine

LEMMA NameFine ==
  ASSUME StashInv, NEW p \in Players, set_name(p)
  PROVE  StashInv' /\ KeysStep /\ NoMore
<1> DEFINE S == Stashed(game.carried[p])
<1>1. /\ phase[p] = "play" /\ UNCHANGED <<phase, room, game>>
      /\ disk' = [[[disk EXCEPT !.stash[p] = {}] EXCEPT !.locker[p] = {}] EXCEPT !.stash[p] = S]
  BY DEF set_name, stash_char, wipe_stash
<1>2. S \in SUBSET Thing
  BY StateOf, StashedIs
<1> HIDE DEF S
<1>3. FileAt(disk', p, S, {})
  BY <1>1, <1>2 DEF StashInv, FileAt, FileOK, Files
<1>4. Seated(phase[p], room[p], game.locker[p], {})
  BY <1>1 DEF Seated
<1>5. StepAt(p, phase[p], room[p], game.carried[p], game.locker[p], game.ground, game.pawn, S, {})
  <2>1. /\ phase' = [phase EXCEPT ![p] = phase[p]] /\ phase[p] \in Phases
        /\ room' = [room EXCEPT ![p] = room[p]] /\ room[p] \in Rooms \cup {"limbo"}
        /\ MemAt(game', p, game.carried[p], game.locker[p], game.ground, game.pawn)
    BY <1>1, StateOf, SamePlaces
  <2> QED
    BY <1>3, <1>4, <2>1 DEF StepAt
<1>6. \A i \in Thing \ Gone :
        CopiesOf(i, phase[p], room[p], game.carried[p], game.locker[p], game.ground, game.pawn, S, {}) <= Had(i, p)
  BY <1>1 DEF CopiesOf, Had, One
<1> QED
  BY <1>5, <1>6, StepFine

(* The commands of immortals on files. *)
LEMMA FilesFine ==
  ASSUME StashInv, NEW w \in Players, NEW p \in Players, do_extractrent(w, p) \/ do_replacerent(w, p)
  PROVE  StashInv' /\ KeysStep
<1>1. CASE do_extractrent(w, p)
  <2> DEFINE C == game.carried[w] \cup (disk.stash[p] \ Gone)
  <2>1. /\ game' = [game EXCEPT !.carried[w] = C] /\ UNCHANGED <<phase, room, disk>>
    BY <1>1 DEF do_extractrent, unstash_char, unstash_item
  <2>2. C \in SUBSET Thing
    BY StateOf
  <2> HIDE DEF C
  <2>3. StepAt(w, phase[w], room[w], C, game.locker[w], game.ground, game.pawn, disk.stash[w], disk.locker[w])
    BY <2>1, <2>2, CarriedSet, SamePlaces, StateOf DEF StepAt
  <2> QED
    BY <2>3, StepKeeps, StepInsured
<1>2. CASE do_replacerent(w, p)
  <2> DEFINE S == Stashed(game.carried[w])
  <2>1. /\ disk' = [disk EXCEPT !.stash[p] = S] /\ UNCHANGED <<phase, room, game>>
    BY <1>2 DEF do_replacerent, stash_char
  <2>2. S \in SUBSET Thing
    BY StateOf, StashedIs
  <2> HIDE DEF S
  <2>3. StepAt(p, phase[p], room[p], game.carried[p], game.locker[p], game.ground, game.pawn, S, disk.locker[p])
    BY <2>1, <2>2, StashSet, SamePlaces, StateOf DEF StepAt
  <2> QED
    BY <2>3, StepKeeps, StepInsured
<1> QED
  BY <1>1, <1>2

-----------------------------------------------------------------------------
(* Things change hands. *)
LEMMA HandsFine ==
  ASSUME StashInv, NEW p \in Players, NEW i \in Thing, do_drop(p, i) \/ do_get(p, i)
  PROVE  StashInv' /\ KeysStep /\ NoMore
<1>1. CASE do_drop(p, i)
  <2> DEFINE C == game.carried[p] \ {i}
             G == game.ground \cup {i}
  <2>1. /\ i \in game.carried[p] /\ game' = [game EXCEPT !.carried[p] = C, !.ground = G]
        /\ UNCHANGED <<phase, room, disk>>
    BY <1>1 DEF do_drop
  <2>2. C \in SUBSET Thing /\ G \in SUBSET Thing
    BY StateOf
  <2>3. \A j \in Thing \ Gone :
          CopiesOf(j, phase[p], room[p], C, game.locker[p], G, game.pawn, disk.stash[p], disk.locker[p]) <= Had(j, p)
    BY <2>1 DEF CopiesOf, Had, One
  <2> HIDE DEF C, G
  <2>4. MemAt(game', p, C, game.locker[p], G, game.pawn)
    BY <2>1, <2>2 DEF StashInv, MemAt, MemOK
  <2>5. StepAt(p, phase[p], room[p], C, game.locker[p], G, game.pawn, disk.stash[p], disk.locker[p])
    BY <2>1, <2>4, SamePlaces, StateOf DEF StepAt
  <2> QED
    BY <2>3, <2>5, StepFine
<1>2. CASE do_get(p, i)
  <2> DEFINE C == game.carried[p] \cup {i}
             G == game.ground \ {i}
  <2>1. /\ i \in game.ground /\ game' = [game EXCEPT !.carried[p] = C, !.ground = G]
        /\ UNCHANGED <<phase, room, disk>>
    BY <1>2 DEF do_get
  <2>2. C \in SUBSET Thing /\ G \in SUBSET Thing
    BY StateOf
  <2>3. \A j \in Thing \ Gone :
          CopiesOf(j, phase[p], room[p], C, game.locker[p], G, game.pawn, disk.stash[p], disk.locker[p]) <= Had(j, p)
    BY <2>1 DEF CopiesOf, Had, One
  <2> HIDE DEF C, G
  <2>4. MemAt(game', p, C, game.locker[p], G, game.pawn)
    BY <2>1, <2>2 DEF StashInv, MemAt, MemOK
  <2>5. StepAt(p, phase[p], room[p], C, game.locker[p], G, game.pawn, disk.stash[p], disk.locker[p])
    BY <2>1, <2>4, SamePlaces, StateOf DEF StepAt
  <2> QED
    BY <2>3, <2>5, StepFine
<1> QED
  BY <1>1, <1>2

(* A gift changes two players: one copy leaves one and comes to the other. *)
LEMMA GiveFine ==
  ASSUME StashInv, NEW p \in Players, NEW q \in Players, NEW i \in Thing, do_give(p, q, i)
  PROVE  StashInv' /\ KeysStep /\ NoMore
<1>1. /\ p # q /\ i \in game.carried[p] /\ UNCHANGED <<phase, room, disk>>
      /\ game' = [game EXCEPT !.carried[p] = @ \ {i}, !.carried[q] = @ \cup {i}]
  BY DEF do_give
<1>2. /\ MemOK(game', Players)
      /\ game'.locker = game.locker /\ game'.ground = game.ground /\ game'.pawn = game.pawn
      /\ game'.board = game.board /\ game'.count = game.count
      /\ game'.carried[p] = game.carried[p] \ {i} /\ game'.carried[q] = game.carried[q] \cup {i}
      /\ \A r \in Players \ {p, q} : game'.carried[r] = game.carried[r]
  BY <1>1 DEF StashInv, MemOK
<1>3. Players' = Players
  BY <1>1 DEF Players
<1>4. StashInv'
  <2>1. OutAtRent' /\ LockerRead' /\ Written(game', disk')
    BY <1>1, <1>2, <1>3 DEF StashInv, OutAtRent, LockerRead, Written, InWorld
  <2> QED
    BY <1>1, <1>2, <1>3, <2>1 DEF StashInv
<1>5. KeysStep
  <2>1. \A r, j : Insured(r, j) => Insured(r, j)'
    BY <1>2 DEF Insured
  <2> QED
    BY <2>1 DEF KeysStep
<1>6. ASSUME NEW j \in Thing \ Gone PROVE ~(Copies(j)' > Copies(j))
  <2>1. /\ OnFile(disk, j)' = OnFile(disk, j) /\ Lockers(disk, j)' = Lockers(disk, j)
        /\ OnBoard(game, j)' = OnBoard(game, j) /\ Held(game, j)' = Held(game, j)
        /\ Lying(game, j)' = Lying(game, j)
    BY <1>1, <1>2, <1>3 DEF OnFile, Lockers, OnBoard, Held, Lying, InWorld
  <2> DEFINE c == Carried(game, j)
             c1 == Carried(game, j)'
  <2>2. \A r : r \in c <=> r \in Players /\ j \in game.carried[r]
    BY DEF Carried
  <2>3. \A r : r \in c1 <=> r \in Players /\ j \in game'.carried[r]
    BY <1>3 DEF Carried
  <2>4. /\ IsFiniteSet(c) /\ Cardinality(OnBoard(game, j)) \in Nat
        /\ Cardinality(OnFile(disk, j)) \in Nat /\ Cardinality(Lockers(disk, j)) \in Nat
        /\ Cardinality(Held(game, j)) \in Nat
    BY PlayersFinite, BoardFinite, FS_CardinalityType
  <2>5. /\ Copies(j) = Cardinality(OnFile(disk, j)) + Cardinality(Lockers(disk, j))
                        + Cardinality(OnBoard(game, j)) + Cardinality(c) + Cardinality(Held(game, j))
                        + Cardinality(Lying(game, j))
        /\ Copies(j)' = Cardinality(OnFile(disk, j)) + Cardinality(Lockers(disk, j))
                        + Cardinality(OnBoard(game, j)) + Cardinality(c1) + Cardinality(Held(game, j))
                        + Cardinality(Lying(game, j))
    BY <2>1 DEF Copies
  <2> HIDE DEF c, c1
  <2>6. Cardinality(c) \in Nat /\ Cardinality(c1) \in Nat /\ Cardinality(c1) <= Cardinality(c)
    <3>1. CASE j # i
      <4>1. c1 \subseteq c
        BY <1>2, <2>2, <2>3, <3>1
      <4> QED
        BY <2>4, <4>1, SizeOfPart
    <3>2. CASE j = i
      <4>1. p \in c /\ c1 \ {q} \subseteq c \ {p}
        BY <1>1, <1>2, <2>2, <2>3, <3>2
      <4>2. IsFiniteSet(c \ {p}) /\ Cardinality(c \ {p}) = Cardinality(c) - 1 /\ Cardinality(c) \in Nat
        BY <2>4, <4>1, FS_RemoveElement, FS_CardinalityType
      <4>3. /\ Cardinality(c \ {p}) \in Nat /\ Cardinality(c1) \in Nat
            /\ Cardinality(c1) - One(q \in c1) <= Cardinality(c \ {p}) - One(q \in c \ {p})
        BY <4>1, <4>2, ChangedAt
      <4>4. One(q \in c1) \in {0, 1} /\ One(q \in c \ {p}) \in {0, 1}
        BY DEF One
      <4> QED
        BY <4>2, <4>3, <4>4
    <3> QED
      BY <3>1, <3>2
  <2>7. Cardinality(Lying(game, j)) \in Int
    BY LyingCount DEF One
  <2> QED
    BY <2>4, <2>5, <2>6, <2>7
<1> QED
  BY <1>4, <1>5, <1>6 DEF NoMore

(* The locker: what goes in is not carried any more, and the other way     *)
(* round; the file is written after both.                                  *)
LEMMA LockerFine ==
  ASSUME StashInv, NEW p \in Players, NEW A, NEW S \in SUBSET A, A # {},
         \/ A \subseteq game.carried[p] /\ put_obj_to_locker(p, A, S)
         \/ A \subseteq game.locker[p] /\ get_obj_from_locker(p, A, S)
  PROVE  StashInv' /\ KeysStep /\ NoMore
<1>1. CASE A \subseteq game.carried[p] /\ put_obj_to_locker(p, A, S)
  <2> DEFINE C == game.carried[p] \ S
             L == game.locker[p] \cup S
             K == IF S = {} THEN disk.locker[p] ELSE Stashed(L)
  <2>1. /\ Here(p, "locker") /\ game' = [game EXCEPT !.carried[p] = C, !.locker[p] = L]
        /\ disk' = IF S = {} THEN disk ELSE stash_off_world(disk, game', p)
        /\ UNCHANGED <<phase, room>>
    BY <1>1 DEF put_obj_to_locker
  <2>2. C \in SUBSET Thing /\ L \in SUBSET Thing /\ S \subseteq game.carried[p]
    BY <1>1, StateOf
  <2>3. MemAt(game', p, C, L, game.ground, game.pawn)
    BY <2>1, <2>2 DEF StashInv, MemAt, MemOK
  <2>4. phase[p] = "play" /\ room[p] = "locker" /\ Seated(phase[p], room[p], game.locker[p], disk.locker[p])
    BY <2>1, StateOf DEF Here
  <2>5. FileAt(disk', p, disk.stash[p], K)
    <3>1. CASE S = {}
      BY <2>1, <3>1, SamePlaces
    <3>2. CASE S # {}
      <4>1. Stashed(L) \in SUBSET Thing /\ game'.locker[p] = L
        BY <2>2, <2>3, StashedIs DEF MemAt
      <4>2. disk' = [disk EXCEPT !.locker[p] = Stashed(L)]
        BY <2>1, <3>2, <4>1 DEF stash_off_world
      <4>3. FileAt(disk', p, disk.stash[p], Stashed(L))
        BY <4>1, <4>2, FilesSet
      <4> QED
        BY <3>2, <4>3
    <3> QED
      BY <3>1, <3>2
  <2>6. Seated(phase[p], room[p], L, K)
    BY <2>2, <2>4, StashedIs DEF Seated
  <2>7. \A j \in Thing \ Gone :
          CopiesOf(j, phase[p], room[p], C, L, game.ground, game.pawn, disk.stash[p], K) <= Had(j, p)
    BY <2>2, <2>4 DEF CopiesOf, Had, One
  <2> HIDE DEF C, L, K
  <2>8. StepAt(p, phase[p], room[p], C, L, game.ground, game.pawn, disk.stash[p], K)
    BY <2>1, <2>3, <2>5, <2>6, StateOf DEF StepAt
  <2> QED
    BY <2>7, <2>8, StepFine
<1>2. CASE A \subseteq game.locker[p] /\ get_obj_from_locker(p, A, S)
  <2> DEFINE C == game.carried[p] \cup S
             L == game.locker[p] \ S
             K == Stashed(L)
  <2>1. /\ Here(p, "locker") /\ game' = [game EXCEPT !.carried[p] = C, !.locker[p] = L]
        /\ disk' = stash_off_world(disk, game', p)
        /\ UNCHANGED <<phase, room>>
    BY <1>2 DEF get_obj_from_locker, get_off_obj, got_file
  <2>2. C \in SUBSET Thing /\ L \in SUBSET Thing /\ S \subseteq game.locker[p]
    BY <1>2, StateOf
  <2>3. MemAt(game', p, C, L, game.ground, game.pawn)
    BY <2>1, <2>2 DEF StashInv, MemAt, MemOK
  <2>4. phase[p] = "play" /\ room[p] = "locker"
    BY <2>1 DEF Here
  <2>5. FileAt(disk', p, disk.stash[p], K)
    <3>1. Stashed(L) \in SUBSET Thing /\ game'.locker[p] = L
      BY <2>2, <2>3, StashedIs DEF MemAt
    <3>2. disk' = [disk EXCEPT !.locker[p] = Stashed(L)]
      BY <2>1, <3>1 DEF stash_off_world
    <3> QED
      BY <3>1, <3>2, FilesSet
  <2>6. Seated(phase[p], room[p], L, K)
    BY <2>2, <2>4, StashedIs DEF Seated
  <2>7. \A j \in Thing \ Gone :
          CopiesOf(j, phase[p], room[p], C, L, game.ground, game.pawn, disk.stash[p], K) <= Had(j, p)
    BY <2>2, <2>4 DEF CopiesOf, Had, One
  <2> HIDE DEF C, L, K
  <2>8. StepAt(p, phase[p], room[p], C, L, game.ground, game.pawn, disk.stash[p], K)
    BY <2>1, <2>3, <2>5, <2>6, StateOf DEF StepAt
  <2> QED
    BY <2>7, <2>8, StepFine
<1> QED
  BY <1>1, <1>2

(* The server starts again on its files. *)
LEMMA BootMem ==
  ASSUME NEW P, NEW f, FileOK(f, P)
  PROVE  /\ MemOK(boot_db(f), P) /\ Written(boot_db(f), f)
         /\ boot_db(f).count = f.insured.count
         /\ \A nr \in 1 .. f.insured.count : nr \in Slots /\ boot_db(f).board[nr] = f.insured.entries[nr]
<1> DEFINE b == f.insured
<1>1. /\ b.count \in -1 .. MAX_INSURE /\ b.entries \in Seq(BoardEntry) /\ b.count <= Len(b.entries)
      /\ DOMAIN f.stash = P /\ f.pawn \in SUBSET Thing /\ f.zones \in SUBSET (Unrentable \ Gone)
  BY DEF FileOK, Files, Boards
<1>2. MAX_INSURE \in Nat /\ Len(b.entries) \in Nat
  BY <1>1, StashAssumption, LenProperties
<1>3. boot_db(f) = [carried |-> [p \in P |-> {}], locker |-> [p \in P |-> {}],
                    ground |-> f.zones, pawn |-> unstash_item(f.pawn),
                    board |-> load_insurance(b), count |-> b.count]
  BY <1>1 DEF boot_db
<1> HIDE DEF b
<1>4. load_insurance(b) \in [Slots -> BoardEntry]
  <2> SUFFICES ASSUME NEW i \in Slots
               PROVE  (IF i <= b.count THEN b.entries[i] ELSE Empty) \in BoardEntry
    BY DEF load_insurance
  <2>1. CASE i <= b.count
    <3>1. i \in 1 .. Len(b.entries)
      BY <1>1, <1>2, <2>1 DEF Slots
    <3> QED
      BY <1>1, <2>1, <3>1, ElementOfSeq
  <2>2. CASE ~(i <= b.count)
    BY <2>2 DEF BoardEntry
  <2> QED
    BY <2>1, <2>2
<1>5. f.zones \in SUBSET Thing
  BY <1>1, StashAssumption
<1>6. MemOK(boot_db(f), P)
  BY <1>1, <1>3, <1>4, <1>5 DEF MemOK, unstash_item
<1>7. \A nr \in 1 .. b.count : nr \in Slots /\ load_insurance(b)[nr] = b.entries[nr]
  BY <1>1, <1>2 DEF load_insurance, Slots
<1>8. Written(boot_db(f), f)
  BY <1>3, <1>7 DEF Written, b
<1> QED
  BY <1>3, <1>6, <1>7, <1>8 DEF b

LEMMA RestartKeeps ==
  ASSUME StashInv, NEW f, FileOK(f, Players), Restart(f)
  PROVE  StashInv' /\ (f.insured = disk.insured => KeysStep)
<1>1. /\ phase' = [p \in Players |-> "out"] /\ room' = [p \in Players |-> "rent"]
      /\ disk' = f /\ game' = boot_db(f)
  BY DEF Restart
<1>2. Players' = Players
  BY <1>1 DEF Players
<1>3. /\ MemOK(game', Players) /\ Written(game', disk') /\ game'.count = f.insured.count
      /\ \A nr \in 1 .. f.insured.count : nr \in Slots /\ game'.board[nr] = f.insured.entries[nr]
  BY <1>1, BootMem
<1>4. StashInv'
  <2>1. /\ phase' \in [Players -> Phases] /\ room' \in [Players -> Rooms \cup {"limbo"}]
    BY <1>1 DEF Phases, Rooms
  <2>2. OutAtRent' /\ LockerRead'
    BY <1>1, <1>2 DEF OutAtRent, LockerRead, InWorld
  <2>3. Players \subseteq Renter
    BY DEF StashInv
  <2> QED
    BY <1>1, <1>2, <1>3, <2>1, <2>2, <2>3 DEF StashInv
<1>5. ASSUME f.insured = disk.insured PROVE KeysStep
  <2> SUFFICES ASSUME NEW p, NEW i, Insured(p, i) PROVE Insured(p, i)'
    BY DEF KeysStep
  <2>1. PICK nr \in 1 .. game.count : game.board[nr] = [obj |-> i, owner |-> p]
    BY DEF Insured
  <2>2. PICK k \in 1 .. disk.insured.count : disk.insured.entries[k] = game.board[nr]
    BY <2>1 DEF StashInv, Written
  <2>3. k \in 1 .. game'.count /\ game'.board[k] = [obj |-> i, owner |-> p]
    BY <1>3, <1>5, <2>1, <2>2
  <2> QED
    BY <2>3 DEF Insured
<1> QED
  BY <1>4, <1>5

LEMMA CrashKeeps == ASSUME StashInv, Crash PROVE StashInv' /\ KeysStep
BY RestartKeeps DEF Crash, StashInv

LEMMA ShutdownKeeps ==
  ASSUME StashInv, NEW auto \in BOOLEAN, shutdown_game(auto)
  PROVE  StashInv' /\ KeysStep
<1>1. FileOK(saveallplayers, Players) /\ saveallplayers.insured = disk.insured
  BY StashedIs DEF saveallplayers, StashInv, FileOK, Files, MemOK
<1>2. CASE auto
  <2> DEFINE f == [saveallplayers EXCEPT !.insured = [count |-> 0, entries |-> <<>>]]
  <2>1. [count |-> 0, entries |-> <<>>] \in Boards
    BY StashAssumption DEF Boards
  <2>2. FileOK(f, Players)
    BY <1>1, <2>1 DEF FileOK, Files
  <2>3. Restart(f)
    BY <1>2 DEF shutdown_game
  <2>4. shutdown_game(TRUE)
    BY <1>2
  <2> HIDE DEF f
  <2>5. StashInv'
    BY <2>2, <2>3, RestartKeeps
  <2> QED
    BY <2>4, <2>5 DEF KeysStep
<1>3. CASE ~auto
  <2>1. Restart(saveallplayers)
    BY <1>3 DEF shutdown_game
  <2> QED
    BY <1>1, <2>1, RestartKeeps
<1> QED
  BY <1>2, <1>3

(* The shop. *)
LEMMA PawnFine ==
  ASSUME StashInv, NEW p \in Players, NEW i \in Thing, NEW bad, pawn_sell(p, i, bad) \/ pawn_buy(p, i)
  PROVE  StashInv' /\ KeysStep /\ (NoMore \/ Crash)
<1>1. CASE pawn_buy(p, i)
  <2> DEFINE C == game.carried[p] \cup {i}
             W == game.pawn \ {i}
  <2>1. /\ i \in game.pawn /\ game' = [game EXCEPT !.carried[p] = C, !.pawn = W]
        /\ UNCHANGED <<phase, room, disk>>
    BY <1>1 DEF pawn_buy
  <2>2. C \in SUBSET Thing /\ W \in SUBSET Thing
    BY StateOf
  <2>3. \A j \in Thing \ Gone :
          CopiesOf(j, phase[p], room[p], C, game.locker[p], game.ground, W, disk.stash[p], disk.locker[p]) <= Had(j, p)
    BY <2>1 DEF CopiesOf, Had, One
  <2> HIDE DEF C, W
  <2>4. MemAt(game', p, C, game.locker[p], game.ground, W)
    BY <2>1, <2>2 DEF StashInv, MemAt, MemOK
  <2>5. StepAt(p, phase[p], room[p], C, game.locker[p], game.ground, W, disk.stash[p], disk.locker[p])
    BY <2>1, <2>4, SamePlaces, StateOf DEF StepAt
  <2> QED
    BY <2>3, <2>5, StepFine
<1>2. CASE pawn_sell(p, i, bad) /\ game.pawn = {}
  BY <1>2, CrashKeeps DEF pawn_sell
<1>3. CASE pawn_sell(p, i, bad) /\ game.pawn # {}
  <2> DEFINE C == game.carried[p] \ {i}
             W == (game.pawn \cup {i}) \ {bad}
  <2>1. /\ i \in game.carried[p] /\ game' = [game EXCEPT !.carried[p] = C, !.pawn = W]
        /\ disk' = [disk EXCEPT !.pawn = Stashed(W)]
        /\ UNCHANGED <<phase, room>>
    BY <1>3 DEF pawn_sell, obj_to_pawn_list
  <2>2. C \in SUBSET Thing /\ W \in SUBSET Thing /\ Stashed(W) \in SUBSET Thing
    BY StateOf, StashedIs
  <2>3. \A j \in Thing \ Gone :
          CopiesOf(j, phase[p], room[p], C, game.locker[p], game.ground, W, disk.stash[p], disk.locker[p]) <= Had(j, p)
    BY <2>1 DEF CopiesOf, Had, One
  <2> HIDE DEF C, W
  <2>4. MemAt(game', p, C, game.locker[p], game.ground, W)
    BY <2>1, <2>2 DEF StashInv, MemAt, MemOK
  <2>5. FileAt(disk', p, disk.stash[p], disk.locker[p])
    BY <2>1, <2>2 DEF StashInv, FileAt, FileOK, Files
  <2>6. StepAt(p, phase[p], room[p], C, game.locker[p], game.ground, W, disk.stash[p], disk.locker[p])
    BY <2>1, <2>4, <2>5, StateOf DEF StepAt
  <2> QED
    BY <2>3, <2>6, StepFine
<1> QED
  BY <1>1, <1>2, <1>3

-----------------------------------------------------------------------------
(* The insurance. *)
LEMMA BoardKeeps ==
  ASSUME StashInv, UNCHANGED <<phase, room>>, MemOK(game', Players), game'.locker = game.locker,
         FileOK(disk', Players), disk'.locker = disk.locker, Written(game', disk')
  PROVE  StashInv'
<1>1. Players' = Players
  BY DEF Players
<1>2. OutAtRent' /\ LockerRead'
  BY <1>1 DEF StashInv, OutAtRent, LockerRead, InWorld
<1> QED
  BY <1>1, <1>2 DEF StashInv

LEMMA BoardIs ==
  ASSUME NEW g, MemOK(g, Players)
  PROVE  /\ g.board \in [Slots -> BoardEntry] /\ g.board \in Seq(BoardEntry) /\ Len(g.board) = MAX_INSURE
         /\ g.count \in Int /\ g.count >= -1 /\ g.count <= MAX_INSURE
         /\ MAX_INSURE \in Nat /\ MAX_INSURE >= 1 /\ Slots = 1 .. MAX_INSURE
<1>1. g.board \in [Slots -> BoardEntry] /\ g.count \in -1 .. MAX_INSURE
  BY DEF MemOK
<1>2. MAX_INSURE \in Nat /\ MAX_INSURE >= 1 /\ Slots = 1 .. MAX_INSURE
  BY StashAssumption DEF Slots
<1>3. g.board \in Seq(BoardEntry) /\ Len(g.board) = MAX_INSURE
  BY <1>1, <1>2
<1> QED
  BY <1>1, <1>2, <1>3

(* The file has every entry of the board that was saved. *)
LEMMA RecordedIs ==
  ASSUME StashInv, NEW g, MemOK(g, Players)
  PROVE  /\ FileOK(Recorded(g), Players)
         /\ Recorded(g).stash = disk.stash /\ Recorded(g).locker = disk.locker
         /\ Written(g, Recorded(g))
<1> DEFINE s == SubSeq(g.board, 1, g.count)
<1>1. /\ g.board \in Seq(BoardEntry) /\ Len(g.board) = MAX_INSURE
      /\ g.count \in Int /\ g.count >= -1 /\ g.count <= MAX_INSURE /\ MAX_INSURE \in Nat
  BY BoardIs
<1>2. /\ s \in Seq(BoardEntry) /\ Len(s) \in Nat /\ g.count <= Len(s)
      /\ \A nr \in 1 .. g.count : s[nr] = g.board[nr]
  BY <1>1
<1>3. Recorded(g) = [disk EXCEPT !.insured = [count |-> g.count, entries |-> s]]
  BY DEF Recorded, save_insurance
<1> HIDE DEF s
<1>4. [count |-> g.count, entries |-> s] \in Boards
  BY <1>1, <1>2 DEF Boards
<1>5. /\ FileOK(Recorded(g), Players)
      /\ Recorded(g).stash = disk.stash /\ Recorded(g).locker = disk.locker
      /\ Recorded(g).insured.count = g.count /\ Recorded(g).insured.entries = s
  BY <1>3, <1>4 DEF StashInv, FileOK, Files
<1> QED
  BY <1>2, <1>5 DEF Written

(* Without an entry: the rest moves down, as long as the board is not full. *)
LEMMA ShiftedBoard ==
  ASSUME StashInv, NEW nr \in Slots
  PROVE  /\ del_insurance(game.board, nr) \in [Slots -> BoardEntry]
         /\ nr <= game.count =>
              \A k \in 1 .. game.count - 1 : \E j \in 1 .. game.count : del_insurance(game.board, nr)[k] = game.board[j]
         /\ nr <= game.count /\ game.count < MAX_INSURE =>
              \A k \in 1 .. game.count - 1 :
                 del_insurance(game.board, nr)[k] = IF k < nr THEN game.board[k] ELSE game.board[k + 1]
<1> DEFINE b == game.board
           c == game.count
           d == del_insurance(b, nr)
<1>1. /\ b \in [Slots -> BoardEntry] /\ c \in Int /\ c <= MAX_INSURE
      /\ MAX_INSURE \in Nat /\ MAX_INSURE >= 1 /\ Slots = 1 .. MAX_INSURE
  BY BoardIs DEF StashInv
<1> HIDE DEF b, c
<1>2. \A k \in Slots : d[k] = IF k = MAX_INSURE THEN Empty
                               ELSE IF k \in nr .. (MAX_INSURE - 2) THEN b[k + 1] ELSE b[k]
  BY DEF del_insurance
<1>3. d \in [Slots -> BoardEntry]
  BY <1>1 DEF del_insurance, BoardEntry
<1> HIDE DEF d
<1>4. ASSUME nr <= c, NEW k \in 1 .. c - 1 PROVE \E j \in 1 .. c : d[k] = b[j]
  <2>1. k \in Slots /\ k # MAX_INSURE /\ k \in 1 .. c /\ k + 1 \in 1 .. c
    BY <1>1
  <2>2. d[k] = b[k + 1] \/ d[k] = b[k]
    BY <1>2, <2>1
  <2> QED
    BY <2>1, <2>2
<1>5. ASSUME nr <= c, c < MAX_INSURE, NEW k \in 1 .. c - 1
      PROVE  d[k] = IF k < nr THEN b[k] ELSE b[k + 1]
  <2>1. k \in Slots /\ k # MAX_INSURE /\ (k \in nr .. (MAX_INSURE - 2) <=> ~(k < nr))
    BY <1>1, <1>5
  <2> QED
    BY <1>2, <2>1
<1> QED
  BY <1>3, <1>4, <1>5 DEF b, c, d

LEMMA ShiftedCount ==
  ASSUME StashInv, NEW nr \in Slots, nr <= game.count, game.count < MAX_INSURE,
         NEW g, g.board = del_insurance(game.board, nr), g.count = game.count - 1, NEW i
  PROVE  /\ Cardinality(OnBoard(g, i)) \in Nat
         /\ Cardinality(OnBoard(g, i)) <= Cardinality(OnBoard(game, i)) - One(game.board[nr].obj = i)
<1> DEFINE T == OnBoard(game, i)
           U == OnBoard(g, i)
           at(k) == IF k < nr THEN k ELSE k + 1
           f == [k \in U |-> at(k)]
<1>1. game.count \in Int /\ MAX_INSURE \in Nat /\ Slots = 1 .. MAX_INSURE
  BY BoardIs DEF StashInv
<1>2. IsFiniteSet(T) /\ Cardinality(T) \in Nat
  BY BoardFinite
<1>3. \A k : k \in T <=> k \in 1 .. game.count /\ game.board[k].obj = i
  BY DEF OnBoard
<1>4. \A k : k \in U <=> k \in 1 .. game.count - 1 /\ g.board[k].obj = i
  BY DEF OnBoard
<1>5. \A k \in 1 .. game.count - 1 : g.board[k] = game.board[at(k)]
  BY ShiftedBoard
<1>6. \A k \in 1 .. game.count - 1 : at(k) \in 1 .. game.count /\ at(k) # nr
  BY <1>1
<1> HIDE DEF T, U
<1>7. \A k \in U : at(k) \in T \ {nr}
  BY <1>3, <1>4, <1>5, <1>6
<1>8. \A j, k \in U : at(j) = at(k) => j = k
  BY <1>1, <1>4
<1>9. f \in Injection(U, T \ {nr})
  BY <1>7, <1>8 DEF Injection, IsInjective
<1>10. /\ IsFiniteSet(T \ {nr})
       /\ Cardinality(T \ {nr}) = IF nr \in T THEN Cardinality(T) - 1 ELSE Cardinality(T)
  BY <1>2, FS_RemoveElement
<1>11. IsFiniteSet(U) /\ Cardinality(U) <= Cardinality(T \ {nr})
  BY <1>9, <1>10, FS_Injection
<1>12. nr \in T <=> game.board[nr].obj = i
  BY <1>1, <1>3
<1>13. Cardinality(U) \in Nat
  BY <1>11, FS_CardinalityType
<1>14. Cardinality(U) <= Cardinality(T) - One(game.board[nr].obj = i)
  <2>1. CASE nr \in T
    <3>1. One(game.board[nr].obj = i) = 1 /\ Cardinality(T \ {nr}) = Cardinality(T) - 1
      BY <1>10, <1>12, <2>1 DEF One
    <3> QED
      BY <1>11, <3>1
  <2>2. CASE nr \notin T
    <3>1. One(game.board[nr].obj = i) = 0 /\ Cardinality(T \ {nr}) = Cardinality(T)
      BY <1>10, <1>12, <2>2 DEF One
    <3>2. Cardinality(T) - 0 = Cardinality(T)
      BY <1>2
    <3> QED
      BY <1>11, <3>1, <3>2
  <2> QED
    BY <2>1, <2>2
<1> QED
  BY <1>13, <1>14 DEF T, U

(* No more copies when the board and its reader together have no more.     *)
LEMMA BoardCopies ==
  ASSUME StashInv, NEW p \in Players, NEW i, UNCHANGED <<phase, room>>,
         disk'.stash = disk.stash, disk'.locker = disk.locker,
         game'.locker = game.locker, game'.ground = game.ground, game'.pawn = game.pawn,
         \A q \in Players \ {p} : game'.carried[q] = game.carried[q],
         Cardinality(OnBoard(game', i)) \in Nat,
         Cardinality(OnBoard(game', i)) + One(i \in game'.carried[p])
           <= Cardinality(OnBoard(game, i)) + One(i \in game.carried[p])
  PROVE  ~(Copies(i)' > Copies(i))
<1>1. Players' = Players
  BY DEF Players
<1>2. /\ OnFile(disk, i)' = OnFile(disk, i) /\ Lockers(disk, i)' = Lockers(disk, i)
      /\ Held(game, i)' = Held(game, i) /\ Lying(game, i)' = Lying(game, i)
      /\ OnBoard(game, i)' = OnBoard(game', i)
  BY <1>1 DEF OnFile, Lockers, OnBoard, Held, Lying, InWorld
<1> DEFINE c == Carried(game, i)
           c1 == Carried(game, i)'
<1>3. \A r : r \in c <=> r \in Players /\ i \in game.carried[r]
  BY DEF Carried
<1>4. \A r : r \in c1 <=> r \in Players /\ i \in game'.carried[r]
  BY <1>1 DEF Carried
<1>5. /\ IsFiniteSet(c) /\ Cardinality(OnBoard(game, i)) \in Nat
      /\ Cardinality(OnFile(disk, i)) \in Nat /\ Cardinality(Lockers(disk, i)) \in Nat
      /\ Cardinality(Held(game, i)) \in Nat
  BY PlayersFinite, BoardFinite, FS_CardinalityType
<1>6. Cardinality(Lying(game, i)) \in Int
  BY LyingCount DEF One
<1> DEFINE a == Cardinality(OnFile(disk, i)) b == Cardinality(Lockers(disk, i)) h == Cardinality(Held(game, i))
           l == Cardinality(Lying(game, i))   n == Cardinality(OnBoard(game, i)) n1 == Cardinality(OnBoard(game', i))
<1>7. /\ Copies(i) = a + b + n + Cardinality(c) + h + l
      /\ Copies(i)' = a + b + n1 + Cardinality(c1) + h + l
  BY <1>2 DEF Copies
<1>8. a \in Nat /\ b \in Nat /\ h \in Nat /\ n \in Nat /\ n1 \in Nat /\ l \in Int
  BY <1>5, <1>6
<1>9. One(p \in c) = One(i \in game.carried[p]) /\ One(p \in c1) = One(i \in game'.carried[p])
  BY <1>3, <1>4 DEF One
<1>10. n1 + One(p \in c1) <= n + One(p \in c)
  BY <1>9
<1> HIDE DEF c, c1, a, b, h, l, n, n1
<1>11. c1 \ {p} \subseteq c
  BY <1>3, <1>4
<1>12. /\ Cardinality(c) \in Nat /\ Cardinality(c1) \in Nat
       /\ Cardinality(c1) - One(p \in c1) <= Cardinality(c) - One(p \in c)
  BY <1>5, <1>11, ChangedAt
<1>13. One(p \in c) \in {0, 1} /\ One(p \in c1) \in {0, 1}
  BY DEF One
<1>14. n1 + Cardinality(c1) <= n + Cardinality(c)
  BY <1>8, <1>10, <1>12, <1>13
<1> QED
  BY <1>7, <1>8, <1>12, <1>14

(* An insured object goes from its owner to the board. *)
LEMMA InsureFine ==
  ASSUME StashInv, NEW p \in Players, NEW i \in Thing, insure_insurance(p, i)
  PROVE  StashInv' /\ KeysStep /\ NoMore
<1> DEFINE c == game.count
           e == [obj |-> i, owner |-> p]
<1>1. /\ c \in 0 .. MAX_INSURE - 1 /\ i \in game.carried[p]
      /\ game' = [game EXCEPT !.carried[p] = @ \ {i}, !.count = c + 1, !.board[c + 1] = e]
      /\ disk' = Recorded(game') /\ UNCHANGED <<phase, room>>
  BY DEF insure_insurance
<1>2. /\ game.board \in [Slots -> BoardEntry] /\ MAX_INSURE \in Nat /\ Slots = 1 .. MAX_INSURE
      /\ c \in Int
  BY BoardIs DEF StashInv
<1>3. c + 1 \in Slots /\ e \in BoardEntry /\ c + 1 \in -1 .. MAX_INSURE
  <2>1. p \in Renter
    BY DEF StashInv
  <2> QED
    BY <1>1, <1>2, <2>1 DEF BoardEntry
<1>4. /\ game'.board = [game.board EXCEPT ![c + 1] = e] /\ game'.count = c + 1
      /\ game'.carried = [game.carried EXCEPT ![p] = game.carried[p] \ {i}]
      /\ game'.locker = game.locker /\ game'.ground = game.ground /\ game'.pawn = game.pawn
  BY <1>1 DEF StashInv, MemOK
<1> HIDE DEF c, e
<1>5. \A k \in 1 .. c : game'.board[k] = game.board[k]
  <2>1. \A k \in 1 .. c : k \in Slots /\ k # c + 1
    BY <1>1, <1>2
  <2> QED
    BY <1>2, <1>4, <2>1
<1>6. game'.board[c + 1] = e
  BY <1>2, <1>3, <1>4
<1>7. MemOK(game', Players)
  <2>1. game'.carried \in [Players -> SUBSET Thing]
    BY <1>4 DEF StashInv, MemOK
  <2>2. game'.board \in [Slots -> BoardEntry]
    BY <1>2, <1>3, <1>4
  <2> QED
    BY <1>1, <1>3, <1>4, <2>1, <2>2 DEF StashInv, MemOK
<1>8. /\ FileOK(disk', Players) /\ disk'.stash = disk.stash /\ disk'.locker = disk.locker
      /\ Written(game', disk')
  BY <1>1, <1>7, RecordedIs
<1>9. StashInv'
  BY <1>1, <1>4, <1>7, <1>8, BoardKeeps
<1>10. KeysStep
  <2> SUFFICES ASSUME NEW q, NEW j, Insured(q, j) PROVE Insured(q, j)'
    BY DEF KeysStep
  <2>1. PICK k \in 1 .. c : game.board[k] = [obj |-> j, owner |-> q]
    BY DEF Insured, c
  <2>2. k \in 1 .. game'.count /\ game'.board[k] = [obj |-> j, owner |-> q]
    BY <1>2, <1>4, <1>5, <2>1
  <2> QED
    BY <2>2 DEF Insured
<1>11. ASSUME NEW j \in Thing \ Gone PROVE ~(Copies(j)' > Copies(j))
  <2> DEFINE T == OnBoard(game, j)
             U == OnBoard(game', j)
  <2>1. IsFiniteSet(T) /\ Cardinality(T) \in Nat
    BY BoardFinite
  <2>2. \A k : k \in T <=> k \in 1 .. c /\ game.board[k].obj = j
    BY DEF OnBoard, c
  <2>3. \A k : k \in U <=> k \in 1 .. c + 1 /\ game'.board[k].obj = j
    BY <1>4 DEF OnBoard
  <2> HIDE DEF T, U
  <2>4. e.obj = i
    BY DEF e
  <2>5. U = IF j = i THEN T \cup {c + 1} ELSE T
    <3>1. \A k : k \in 1 .. c + 1 <=> k \in 1 .. c \/ k = c + 1
      BY <1>1, <1>2
    <3>2. \A k : k \in U <=> k \in T \/ (k = c + 1 /\ j = i)
      <4>1. \A k \in 1 .. c : k \in U <=> k \in T
        BY <1>5, <2>2, <2>3, <3>1
      <4>2. c + 1 \in U <=> j = i
        BY <1>6, <2>3, <2>4, <3>1
      <4> QED
        BY <2>2, <2>3, <3>1, <4>1, <4>2
    <3>3. CASE j = i
      BY <3>2, <3>3
    <3>4. CASE j # i
      BY <3>2, <3>4
    <3> QED
      BY <3>3, <3>4
  <2>6. c + 1 \notin T
    BY <1>2, <2>2
  <2>7. Cardinality(U) = Cardinality(T) + One(j = i)
    <3>1. CASE j = i
      BY <2>1, <2>5, <2>6, <3>1, FS_AddElement DEF One
    <3>2. CASE j # i
      BY <2>1, <2>5, <3>2 DEF One
    <3> QED
      BY <3>1, <3>2
  <2>8. game'.carried[p] = game.carried[p] \ {i} /\ \A q \in Players \ {p} : game'.carried[q] = game.carried[q]
    BY <1>4 DEF StashInv, MemOK
  <2>9. One(j = i) + One(j \in game'.carried[p]) = One(j \in game.carried[p])
    BY <1>1, <2>8 DEF One
  <2>10. One(j = i) \in Nat /\ One(j \in game'.carried[p]) \in Nat
    BY DEF One
  <2>11. Cardinality(U) + One(j \in game'.carried[p]) = Cardinality(T) + One(j \in game.carried[p])
    <3> DEFINE x == One(j = i)  y == One(j \in game'.carried[p])  z == One(j \in game.carried[p])
    <3>1. x + y = z /\ x \in Nat /\ y \in Nat
      BY <2>9, <2>10
    <3> HIDE DEF x, y, z
    <3>2. (Cardinality(T) + x) + y = Cardinality(T) + z
      BY <2>1, <3>1
    <3> QED
      BY <2>7, <3>2 DEF x, y, z
  <2>12. Cardinality(U) \in Nat
    BY <2>1, <2>7, <2>10
  <2>13. Cardinality(U) + One(j \in game'.carried[p]) <= Cardinality(T) + One(j \in game.carried[p])
    BY <2>10, <2>11, <2>12
  <2> QED
    BY <1>1, <1>4, <1>8, <2>8, <2>12, <2>13, BoardCopies DEF T, U
<1> QED
  BY <1>9, <1>10, <1>11 DEF NoMore

(* An entry that is not taken off by hand of its owner stays. *)
LEMMA ShiftInsured ==
  ASSUME StashInv, NEW nr \in Slots, nr <= game.count, game.count < MAX_INSURE,
         game'.board = del_insurance(game.board, nr), game'.count = game.count - 1,
         NEW q, NEW j, Insured(q, j), game.board[nr] # [obj |-> j, owner |-> q]
  PROVE  Insured(q, j)'
<1>1. PICK k \in 1 .. game.count : game.board[k] = [obj |-> j, owner |-> q]
  BY DEF Insured
<1>2. game.count \in Int /\ Slots = 1 .. MAX_INSURE /\ MAX_INSURE \in Nat
  BY BoardIs DEF StashInv
<1>3. \A n \in 1 .. game.count - 1 : game'.board[n] = IF n < nr THEN game.board[n] ELSE game.board[n + 1]
  BY ShiftedBoard
<1>4. k # nr
  BY <1>1
<1>5. CASE k < nr
  <2>1. k \in 1 .. game.count - 1
    BY <1>2, <1>5
  <2> QED
    BY <1>1, <1>3, <1>5, <2>1 DEF Insured
<1>6. CASE k > nr
  <2>1. k - 1 \in 1 .. game.count - 1 /\ ~(k - 1 < nr) /\ (k - 1) + 1 = k
    BY <1>2, <1>6
  <2>2. game'.board[k - 1] = game.board[k]
    BY <1>3, <2>1
  <2> QED
    BY <1>1, <2>1, <2>2 DEF Insured
<1> QED
  BY <1>2, <1>4, <1>5, <1>6

LEMMA NoSlip ==
  ASSUME StashInv, NEW nr \in Slots, ~Slip, game'.count = game.count - 1, game.board[nr] # Empty
  PROVE  nr <= game.count /\ game.count < MAX_INSURE
<1>1. /\ game.count \in Int /\ game.count <= MAX_INSURE /\ MAX_INSURE \in Nat /\ Slots = 1 .. MAX_INSURE
  BY BoardIs DEF StashInv
<1>2. game'.count < game.count
  BY <1>1
<1>3. game.count # MAX_INSURE /\ ~(nr > game.count)
  BY <1>2 DEF Slip
<1> QED
  BY <1>1, <1>3

LEMMA RetrieveFine ==
  ASSUME StashInv, NEW p \in Players, NEW nr \in Slots, retrieve_insurance(p, nr)
  PROVE  StashInv' /\ KeysStep /\ (NoMore \/ Slip)
<1> DEFINE e == game.board[nr]
<1>1. /\ game.count >= 0 /\ e # Empty /\ e.owner = p /\ e.obj \notin Gone
      /\ game' = [game EXCEPT !.carried[p] = @ \cup {e.obj}, !.count = game.count - 1,
                              !.board = del_insurance(game.board, nr)]
      /\ disk' = Recorded(game') /\ UNCHANGED <<phase, room>>
  BY StashAssumption DEF retrieve_insurance, del_retrieved, Own, Slots
<1>2. /\ game.board \in [Slots -> BoardEntry] /\ MAX_INSURE \in Nat /\ Slots = 1 .. MAX_INSURE
      /\ game.count \in Int /\ game.count <= MAX_INSURE
  BY BoardIs DEF StashInv
<1>3. e \in [obj : Thing, owner : Renter]
  BY <1>1, <1>2 DEF BoardEntry
<1>4. /\ game'.board = del_insurance(game.board, nr) /\ game'.count = game.count - 1
      /\ game'.carried = [game.carried EXCEPT ![p] = game.carried[p] \cup {e.obj}]
      /\ game'.locker = game.locker /\ game'.ground = game.ground /\ game'.pawn = game.pawn
  BY <1>1 DEF StashInv, MemOK
<1>5. e = [obj |-> e.obj, owner |-> p] /\ e.obj \in Thing
  BY <1>1, <1>3
<1> HIDE DEF e
<1>6. MemOK(game', Players)
  <2>1. game'.carried \in [Players -> SUBSET Thing]
    BY <1>4, <1>5 DEF StashInv, MemOK
  <2>2. game'.board \in [Slots -> BoardEntry]
    BY <1>4, ShiftedBoard
  <2>3. game'.count \in -1 .. MAX_INSURE
    BY <1>1, <1>2, <1>4
  <2> QED
    BY <1>1, <1>4, <2>1, <2>2, <2>3 DEF StashInv, MemOK
<1>7. /\ FileOK(disk', Players) /\ disk'.stash = disk.stash /\ disk'.locker = disk.locker
      /\ Written(game', disk')
  BY <1>1, <1>6, RecordedIs
<1>8. StashInv'
  BY <1>1, <1>4, <1>6, <1>7, BoardKeeps
<1>9. game'.carried[p] = game.carried[p] \cup {e.obj} /\ \A q \in Players \ {p} : game'.carried[q] = game.carried[q]
  BY <1>4 DEF StashInv, MemOK
<1>10. CASE ~Slip
  <2>1. nr <= game.count /\ game.count < MAX_INSURE
    BY <1>1, <1>4, <1>10, NoSlip DEF e
  <2>2. KeysStep
    <3> SUFFICES ASSUME NEW q \in Players, NEW j, Insured(q, j), ~Insured(q, j)' PROVE j \in game'.carried[q]
      BY DEF KeysStep
    <3>1. e = [obj |-> j, owner |-> q]
      BY <1>4, <2>1, ShiftInsured DEF e
    <3>2. e.obj = j /\ q = p
      BY <1>1, <3>1
    <3> QED
      BY <1>9, <3>2
  <2>3. ASSUME NEW j \in Thing \ Gone PROVE ~(Copies(j)' > Copies(j))
    <3> DEFINE n == Cardinality(OnBoard(game, j))
               n1 == Cardinality(OnBoard(game', j))
               x == One(e.obj = j) y == One(j \in game'.carried[p]) z == One(j \in game.carried[p])
    <3>1. n1 \in Nat /\ n1 <= n - x
      BY <1>4, <2>1, ShiftedCount DEF e
    <3>2. n \in Nat
      BY BoardFinite
    <3>3. x \in Nat /\ y \in Nat /\ z \in Nat /\ y <= z + x
      BY <1>9 DEF One
    <3> HIDE DEF n, n1, x, y, z
    <3>4. n1 + y <= n + z
      <4>1. n1 + y <= (n - x) + (z + x)
        BY <3>1, <3>2, <3>3
      <4>2. (n - x) + (z + x) = n + z
        BY <3>2, <3>3
      <4> QED
        BY <4>1, <4>2
    <3> QED
      BY <1>1, <1>4, <1>7, <1>9, <3>1, <3>4, BoardCopies DEF n, n1, y, z
  <2> QED
    BY <1>8, <2>2, <2>3 DEF NoMore
<1>11. CASE Slip
  BY <1>8, <1>11 DEF KeysStep
<1> QED
  BY <1>10, <1>11

LEMMA LookFine ==
  ASSUME StashInv, NEW p \in Players, NEW nr \in Slots, look_insurance(p, nr)
  PROVE  StashInv' /\ KeysStep /\ (NoMore \/ Slip)
<1>1. /\ nr <= game.count /\ game.board[nr].obj \in Gone
      /\ game' = [game EXCEPT !.count = game.count - 1, !.board = del_insurance(game.board, nr)]
      /\ UNCHANGED <<phase, room, disk>>
  BY DEF look_insurance
<1>2. /\ MAX_INSURE \in Nat /\ Slots = 1 .. MAX_INSURE /\ game.count \in Int /\ game.count <= MAX_INSURE
  BY BoardIs DEF StashInv
<1>3. /\ game'.board = del_insurance(game.board, nr) /\ game'.count = game.count - 1
      /\ game'.carried = game.carried
      /\ game'.locker = game.locker /\ game'.ground = game.ground /\ game'.pawn = game.pawn
  BY <1>1 DEF StashInv, MemOK
<1>4. MemOK(game', Players)
  <2>1. game'.board \in [Slots -> BoardEntry]
    BY <1>3, ShiftedBoard
  <2>2. game'.count \in -1 .. MAX_INSURE
    BY <1>1, <1>2, <1>3
  <2> QED
    BY <1>1, <1>3, <2>1, <2>2 DEF StashInv, MemOK
<1>5. FileOK(disk', Players) /\ disk'.stash = disk.stash /\ disk'.locker = disk.locker
  BY <1>1 DEF StashInv
<1>6. Written(game', disk')
  <2> SUFFICES ASSUME NEW k \in 1 .. game'.count
               PROVE  \E n \in 1 .. disk.insured.count : disk.insured.entries[n] = game'.board[k]
    BY <1>1 DEF Written
  <2>1. PICK j \in 1 .. game.count : game'.board[k] = game.board[j]
    BY <1>1, <1>3, ShiftedBoard
  <2> QED
    BY <2>1 DEF StashInv, Written
<1>7. StashInv'
  BY <1>1, <1>3, <1>4, <1>5, <1>6, BoardKeeps
<1>8. CASE ~Slip
  <2>1. game.count < MAX_INSURE
    BY <1>2, <1>3, <1>8 DEF Slip
  <2>2. KeysStep
    <3> SUFFICES ASSUME NEW q \in Players, NEW j \in Insurable \ Gone, Insured(q, j), ~Insured(q, j)' PROVE FALSE
      BY DEF KeysStep
    <3>1. game.board[nr] = [obj |-> j, owner |-> q]
      BY <1>1, <1>3, <2>1, ShiftInsured
    <3> QED
      BY <1>1, <3>1
  <2>3. ASSUME NEW j \in Thing \ Gone PROVE ~(Copies(j)' > Copies(j))
    <3> DEFINE n == Cardinality(OnBoard(game, j))
               n1 == Cardinality(OnBoard(game', j))
               x == One(game.board[nr].obj = j) y == One(j \in game'.carried[p]) z == One(j \in game.carried[p])
    <3>1. n1 \in Nat /\ n1 <= n - x
      BY <1>1, <1>3, <2>1, ShiftedCount
    <3>2. n \in Nat
      BY BoardFinite
    <3>3. x \in Nat /\ y \in Nat /\ y = z
      BY <1>3 DEF One
    <3>4. \A q \in Players \ {p} : game'.carried[q] = game.carried[q]
      BY <1>3
    <3> HIDE DEF n, n1, x, y, z
    <3>5. n1 + y <= n + z
      BY <3>1, <3>2, <3>3
    <3> QED
      BY <1>1, <1>3, <1>5, <3>1, <3>4, <3>5, BoardCopies DEF n, n1, y, z
  <2> QED
    BY <1>7, <2>2, <2>3 DEF NoMore
<1>9. CASE Slip
  BY <1>7, <1>9 DEF KeysStep
<1> QED
  BY <1>8, <1>9

-----------------------------------------------------------------------------
(* All of it. *)
LEMMA StashInitInv == ASSUME StashInit PROVE StashInv
<1>1. PICK P \in SUBSET Renter : \E files \in Files(P) : StartsOn(files)
  BY DEF StashInit
<1>2. PICK files \in Files(P) : StartsOn(files)
  BY <1>1
<1>3. DOMAIN files.stash = P
  BY DEF Files
<1>4. /\ phase = [p \in P |-> "menu"] /\ room = [p \in P |-> "rent"]
      /\ disk = files /\ game = boot_db(files)
  BY <1>2, <1>3 DEF StartsOn
<1>5. Players = P
  BY <1>4 DEF Players
<1>6. FileOK(disk, Players)
  BY <1>4, <1>5 DEF FileOK
<1>7. MemOK(game, Players) /\ Written(game, disk)
  BY <1>4, <1>6, BootMem
<1>8. /\ phase \in [Players -> Phases] /\ room \in [Players -> Rooms \cup {"limbo"}]
      /\ OutAtRent /\ LockerRead
  BY <1>4, <1>5 DEF Phases, Rooms, OutAtRent, LockerRead, InWorld
<1> QED
  BY <1>5, <1>6, <1>7, <1>8 DEF StashInv

LEMMA StashSame ==
  ASSUME StashInv, UNCHANGED stash_vars
  PROVE  StashInv' /\ KeysStep /\ NoMore
<1>1. phase' = phase /\ room' = room /\ game' = game /\ disk' = disk
  BY DEF stash_vars
<1>2. Players' = Players
  BY <1>1 DEF Players
<1>3. StashInv'
  BY <1>1, <1>2 DEF StashInv, OutAtRent, LockerRead, Written, InWorld
<1>4. \A q, j : Insured(q, j)' <=> Insured(q, j)
  BY <1>1 DEF Insured
<1>5. ASSUME NEW i \in Thing \ Gone PROVE ~(Copies(i)' > Copies(i))
  <2>1. Copies(i)' = Copies(i)
    BY <1>1, <1>2 DEF Copies, OnFile, Lockers, OnBoard, Carried, Held, Lying, InWorld
  <2>2. Copies(i) \in Int
    <3>1. /\ Cardinality(OnFile(disk, i)) \in Nat /\ Cardinality(Lockers(disk, i)) \in Nat
          /\ Cardinality(OnBoard(game, i)) \in Nat /\ Cardinality(Carried(game, i)) \in Nat
          /\ Cardinality(Held(game, i)) \in Nat
      BY PlayersFinite, BoardFinite, FS_CardinalityType
    <3>2. Cardinality(Lying(game, i)) \in Int
      BY LyingCount DEF One
    <3> QED
      BY <3>1, <3>2 DEF Copies
  <2> QED
    BY <2>1, <2>2
<1> QED
  BY <1>3, <1>4, <1>5 DEF KeysStep, NoMore

(* The steps that may make a copy are those CopiesStep names. *)
Exempt ==
  \/ Crash
  \/ \E auto \in BOOLEAN : shutdown_game(auto)
  \/ Slip
  \/ \E p \in Players : do_quit(p)
  \/ \E w, p \in Players : do_extractrent(w, p) \/ do_replacerent(w, p)

LEMMA StashStepOK ==
  ASSUME StashInv, StashNext
  PROVE  StashInv' /\ KeysStep /\ (NoMore \/ Exempt)
<1>1. CASE \E p \in Players, r \in Rooms : Go(p, r)
  BY <1>1, GoFine
<1>2. ASSUME NEW p \in Players, nanny(p) \/ nan_enter_game(p) \/ do_save(p) \/ lost_link(p) \/ reconnect(p)
      PROVE  StashInv' /\ KeysStep /\ NoMore
  BY <1>2, EntersFine, SavesFine
<1>3. ASSUME NEW p \in Players, do_rent(p) \/ do_purge(p) \/ check_idling(p)
      PROVE  StashInv' /\ KeysStep /\ NoMore
  BY <1>3, LeavesFine
<1>4. ASSUME NEW p \in Players, damage(p)
      PROVE  StashInv' /\ KeysStep /\ NoMore
  BY <1>4, DamageFine
<1>5. ASSUME NEW p \in Players, do_quit(p)
      PROVE  StashInv' /\ KeysStep
  BY <1>5, QuitFine
<1>6. ASSUME NEW p \in Players, delete_char(p) \/ set_name(p)
      PROVE  StashInv' /\ KeysStep /\ NoMore
  BY <1>6, DeleteFine, NameFine
<1>7. ASSUME NEW w \in Players, NEW p \in Players, do_extractrent(w, p) \/ do_replacerent(w, p)
      PROVE  StashInv' /\ KeysStep
  BY <1>7, FilesFine
<1>8. ASSUME NEW p \in Players, NEW i \in Thing,
             do_drop(p, i) \/ do_get(p, i) \/ \E q \in Players : do_give(p, q, i)
      PROVE  StashInv' /\ KeysStep /\ NoMore
  BY <1>8, HandsFine, GiveFine
<1>9. ASSUME NEW p \in Players, NEW A, NEW S \in SUBSET A,
             \/ A \in SUBSET game.carried[p] /\ put_obj_to_locker(p, A, S)
             \/ A \in SUBSET game.locker[p] /\ get_obj_from_locker(p, A, S)
      PROVE  StashInv' /\ KeysStep /\ (NoMore \/ Crash)
  <2>1. CASE A # {}
    BY <1>9, <2>1, LockerFine
  <2>2. CASE A = {}
    BY <1>9, <2>2, CrashKeeps DEF put_obj_to_locker, get_obj_from_locker
  <2> QED
    BY <2>1, <2>2
<1>10. ASSUME NEW p \in Players, NEW i \in Thing,
              pawn_buy(p, i) \/ \E bad \in Thing \cup {"none"} : pawn_sell(p, i, bad)
       PROVE  StashInv' /\ KeysStep /\ (NoMore \/ Crash)
  BY <1>10, PawnFine
<1>11. ASSUME NEW p \in Players, NEW i \in Thing, insure_insurance(p, i)
       PROVE  StashInv' /\ KeysStep /\ NoMore
  BY <1>11, InsureFine
<1>12. ASSUME NEW p \in Players, NEW nr \in Slots, retrieve_insurance(p, nr) \/ look_insurance(p, nr)
       PROVE  StashInv' /\ KeysStep /\ (NoMore \/ Slip)
  BY <1>12, RetrieveFine, LookFine
<1>24. ASSUME NEW p \in Players, NEW nr \in {0}, retrieve_insurance(p, nr)
       PROVE  StashInv' /\ KeysStep /\ Crash
  BY <1>24, CrashKeeps DEF retrieve_insurance
<1>13. CASE Crash
  BY <1>13, CrashKeeps DEF Exempt
<1>14. CASE \E auto \in BOOLEAN : shutdown_game(auto)
  BY <1>14, ShutdownKeeps DEF Exempt
<1>15. CASE \E p \in Players : nanny(p) \/ nan_enter_game(p) \/ do_save(p) \/ lost_link(p) \/ reconnect(p)
  BY <1>2, <1>15
<1>16. CASE \E p \in Players : do_rent(p) \/ do_purge(p) \/ check_idling(p) \/ damage(p) \/ do_quit(p)
  BY <1>3, <1>4, <1>5, <1>16 DEF Exempt
<1>17. CASE \E p \in Players : delete_char(p) \/ set_name(p)
  BY <1>6, <1>17
<1>18. CASE \E w, p \in Players : do_extractrent(w, p) \/ do_replacerent(w, p)
  BY <1>7, <1>18 DEF Exempt
<1>19. CASE \E p \in Players, i \in Thing : do_drop(p, i) \/ do_get(p, i) \/ \E q \in Players : do_give(p, q, i)
  BY <1>8, <1>19
<1>20. CASE \/ \E p \in Players : \E A \in SUBSET game.carried[p] : \E S \in SUBSET A : put_obj_to_locker(p, A, S)
            \/ \E p \in Players : \E A \in SUBSET game.locker[p] : \E S \in SUBSET A : get_obj_from_locker(p, A, S)
  BY <1>9, <1>20 DEF Exempt
<1>21. CASE \E p \in Players, i \in Thing : pawn_buy(p, i) \/ \E bad \in Thing \cup {"none"} : pawn_sell(p, i, bad)
  BY <1>10, <1>21 DEF Exempt
<1>22. CASE \E p \in Players, i \in Thing : insure_insurance(p, i)
  BY <1>11, <1>22
<1>23. CASE \/ \E p \in Players, nr \in Slots \cup {0} : retrieve_insurance(p, nr)
            \/ \E p \in Players, nr \in Slots : look_insurance(p, nr)
  BY <1>12, <1>24, <1>23 DEF Exempt
<1> QED
  BY <1>1, <1>13, <1>14, <1>15, <1>16, <1>17, <1>18, <1>19, <1>20, <1>21, <1>22, <1>23 DEF StashNext

LEMMA ExemptStep == ASSUME NoMore \/ Exempt PROVE CopiesStep
BY DEF NoMore, Exempt, CopiesStep

LEMMA StashInvType == ASSUME StashInv PROVE StashTypeOK
BY DEF StashInv, StashTypeOK, MemOK, FileOK, Phases

LEMMA StashInvHolds == StashSpec => []StashInv
<1>1. StashInit => StashInv
  BY StashInitInv
<1>2. StashInv /\ [StashNext]_stash_vars => StashInv'
  BY StashStepOK, StashSame
<1> QED
  BY <1>1, <1>2, PTL DEF StashSpec

(* The files of rent and lockers, the pawn shop's list and the board of    *)
(* the insurance stay what they are declared to be, over crashes and       *)
(* shutdowns, whatever files the server starts on.                         *)
THEOREM StashTyped == StashSpec => []StashTypeOK
<1>1. StashInv => StashTypeOK
  BY StashInvType
<1> QED
  BY <1>1, StashInvHolds, PTL

(* Renting, losing the link, idling, dying, lockers, the pawn shop and the *)
(* insurance (stash.c, act.rent.c, locker.c, pawn.c, insurance.c) never    *)
(* make a second copy of an object; the commands and accidents that can    *)
(* are those CopiesStep names.                                             *)
THEOREM NothingDoubled == StashSpec => NoMoreCopies
<1>1. StashInv /\ [StashNext]_stash_vars => [CopiesStep]_stash_vars
  BY StashStepOK, ExemptStep
<1> QED
  BY <1>1, StashInvHolds, PTL DEF StashSpec, NoMoreCopies

(* What insure_insurance took from a player stands on the board under his  *)
(* name, in memory and after every boot, until retrieve_insurance hands it *)
(* to him, unless a full board shifts wrongly or autoshutdown clears it.   *)
THEOREM InsuredKept == StashSpec => KeysReturned
<1>1. StashInv /\ [StashNext]_stash_vars => [KeysStep]_stash_vars
  BY StashStepOK
<1> QED
  BY <1>1, StashInvHolds, PTL DEF StashSpec, KeysReturned
=============================================================================
