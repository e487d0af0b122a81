--------------------------- MODULE ServicesProofs ---------------------------
(***************************************************************************)
(* The services around the game: boards and mailboxes, doors and zones,    *)
(* purses and banks, pages and the help table, the editors of the world.   *)
(*                                                                         *)
(* The last section puts them beside the stash of rented objects, as       *)
(* MCServices does: a step of the services is a step of one part, and the  *)
(* others do not see it.                                                   *)
(***************************************************************************)
EXTENDS MCServices, StashProofs

-----------------------------------------------------------------------------
(* For any players, items and size of a box: each head stands beside what  *)
(* was posted with it, and nothing posted is lost or doubled.              *)
(*                                                                         *)
(* The files always say what the box holds: the index has its heads, and   *)
(* the bodies are its contents and nothing more, because a removal unlinks *)
(* the one file that the save leaves over.  So a reboot changes nothing.   *)

HeadInv == /\ box \in {"board", "mbox", "silver"}
           /\ heads \in Seq(Entry) /\ Len(heads) <= MAX_MSGS
           /\ contents \in Seq(Item) /\ Len(contents) = Len(heads)
           /\ IsInjective(contents)
           /\ \A k \in 1 .. Len(heads) : heads[k].item = contents[k]
BodiesOf(h, c) == [k \in Place |-> IF k <= Len(h) THEN c[k] ELSE Missing]
FileInv == index = heads /\ bodies = BodiesOf(heads, contents)
HeldInv == /\ held \in [Item -> Person \cup {Nobody}]
           /\ \A i \in Item : held[i] = Nobody <=> \E k \in 1 .. Len(contents) : contents[k] = i
BoxInv == HeadInv /\ FileInv /\ HeldInv

-----------------------------------------------------------------------------
LEMMA Lengths ==
  ASSUME HeadInv
  PROVE  /\ Len(heads) \in Nat /\ Len(contents) = Len(heads)
         /\ DOMAIN heads = 1 .. Len(heads) /\ DOMAIN contents = 1 .. Len(heads)
         /\ 1 .. Len(heads) \subseteq Place
         /\ \A k \in 1 .. Len(heads) : heads[k] \in Entry /\ contents[k] \in Item
         /\ \A j, k \in 1 .. Len(heads) : contents[j] = contents[k] => j = k
<1>1. /\ Len(heads) \in Nat /\ Len(contents) = Len(heads)
      /\ DOMAIN heads = 1 .. Len(heads) /\ DOMAIN contents = 1 .. Len(heads)
      /\ \A k \in 1 .. Len(heads) : heads[k] \in Entry /\ contents[k] \in Item
  BY LenProperties, ElementOfSeq DEF HeadInv
<1>2. 1 .. Len(heads) \subseteq Place
  BY <1>1, BoxAssumption DEF HeadInv, Place
<1>3. \A j, k \in 1 .. Len(heads) : contents[j] = contents[k] => j = k
  BY <1>1 DEF HeadInv, IsInjective
<1> QED
  BY <1>1, <1>2, <1>3

LEMMA BoxInitInv == ASSUME BoxInit PROVE BoxInv
<1>1. heads = <<>> /\ contents = <<>> /\ Len(heads) = 0 /\ Len(contents) = 0
  BY EmptySeq DEF BoxInit
<1>2. HeadInv
  <2>1. heads \in Seq(Entry) /\ contents \in Seq(Item) /\ IsInjective(contents)
    BY <1>1, EmptySeq DEF IsInjective
  <2> QED
    BY <1>1, <2>1, BoxAssumption DEF BoxInit, HeadInv
<1>3. FileInv
  BY <1>1 DEF BoxInit, FileInv, BodiesOf, Place
<1>4. HeldInv
  BY <1>1, BoxAssumption DEF BoxInit, HeldInv
<1> QED
  BY <1>2, <1>3, <1>4 DEF BoxInv

(* What the two saves leave in the files, after a post and a removal. *)
LEMMA Saves ==
  ASSUME BoxInv, NEW h, NEW c, Len(h) \in Nat, Len(c) = Len(h),
         \/ save(h, c) /\ Len(h) >= Len(heads)
         \/ save_removed(h, c) /\ Len(h) = Len(heads) - 1
  PROVE  index' = h /\ bodies' = BodiesOf(h, c)
<1>1. Len(heads) \in Nat /\ \A k \in Place : k \in Nat /\ (k > Len(heads) => bodies[k] = Missing)
  <2>1. Len(heads) \in Nat /\ \A k \in Place : k \in Nat
    <3>1. Len(heads) \in Nat
      BY Lengths DEF BoxInv
    <3> QED
      BY <3>1, BoxAssumption DEF Place
  <2>2. \A k \in Place : k > Len(heads) => ~(k <= Len(heads))
    BY <2>1
  <2> QED
    BY <2>1, <2>2 DEF BoxInv, FileInv, BodiesOf
<1>2. CASE save(h, c) /\ Len(h) >= Len(heads)
  <2>1. /\ index' = h
        /\ \/ bodies' = [k \in Place |-> IF k <= Len(h) THEN c[k] ELSE bodies[k]]
           \/ bodies' = [k \in Place |-> IF k <= Len(h) THEN c[k] ELSE Missing]
    BY <1>2 DEF save, save_board, save_mbox
  <2>2. \A k \in Place : ~(k <= Len(h)) => bodies[k] = Missing
    BY <1>1, <1>2
  <2> QED
    BY <2>1, <2>2 DEF BodiesOf
<1>3. CASE save_removed(h, c) /\ Len(h) = Len(heads) - 1
  <2>1. /\ index' = h
        /\ bodies' = [k \in Place |-> IF k <= Len(h) THEN c[k]
                                      ELSE IF k = Len(h) + 1 \/ box = "silver" THEN Missing
                                      ELSE bodies[k]]
    BY <1>3 DEF save_removed
  <2>2. \A k \in Place : ~(k <= Len(h)) /\ k # Len(h) + 1 => bodies[k] = Missing
    BY <1>1, <1>3
  <2> QED
    BY <2>1, <2>2 DEF BodiesOf
<1> QED
  BY <1>2, <1>3

-----------------------------------------------------------------------------
(* A post: the poster had the item, so it was not in the box. *)
LEMMA PostInv ==
  ASSUME BoxInv, NEW p \in Person, NEW to \in Person \cup {Nobody}, NEW i \in Item,
         held[i] = p, Len(heads) < MAX_MSGS, UNCHANGED box,
         heads' = Append(heads, [writer |-> p, receiver |-> to, item |-> i]),
         contents' = Append(contents, i),
         save(heads', contents'),
         held' = [held EXCEPT ![i] = Nobody]
  PROVE  BoxInv'
<1> DEFINE e == [writer |-> p, receiver |-> to, item |-> i]
           n == Len(heads)
<1>1. /\ n \in Nat /\ Len(contents) = n
      /\ \A k \in 1 .. n : heads[k] \in Entry /\ contents[k] \in Item
      /\ \A j, k \in 1 .. n : contents[j] = contents[k] => j = k
  BY Lengths DEF BoxInv
<1>2. \A k \in 1 .. n : contents[k] # i
  BY <1>1, BoxAssumption DEF BoxInv, HeldInv
<1>3. e \in Entry /\ e.item = i
  BY DEF Entry
<1> HIDE DEF e, n
<1>4. /\ heads' \in Seq(Entry) /\ Len(heads') = n + 1 /\ heads'[n + 1] = e
      /\ \A k \in 1 .. n : heads'[k] = heads[k]
  BY <1>3 DEF BoxInv, HeadInv, n, e
<1>5. /\ contents' \in Seq(Item) /\ Len(contents') = n + 1 /\ contents'[n + 1] = i
      /\ \A k \in 1 .. n : contents'[k] = contents[k]
  <2>1. contents \in Seq(Item)
    BY DEF BoxInv, HeadInv
  <2> QED
    BY <1>1, <2>1
<1>6. \A k \in 1 .. n + 1 : k \in 1 .. n \/ k = n + 1
  BY <1>1
<1>7. HeadInv'
  <2>1. IsInjective(contents')
    <3>1. DOMAIN contents' = 1 .. n + 1
      BY <1>5, LenProperties
    <3> QED
      BY <1>1, <1>2, <1>5, <1>6, <3>1 DEF IsInjective
  <2>2. \A k \in 1 .. n + 1 : heads'[k].item = contents'[k]
    BY <1>3, <1>4, <1>5, <1>6 DEF BoxInv, HeadInv, n
  <2>3. n + 1 <= MAX_MSGS
    BY <1>1, BoxAssumption DEF n
  <2> QED
    BY <1>4, <1>5, <2>1, <2>2, <2>3 DEF BoxInv, HeadInv
<1>8. FileInv'
  <2>1. Len(heads') \in Nat /\ Len(contents') = Len(heads') /\ Len(heads') >= Len(heads)
    BY <1>1, <1>4, <1>5 DEF n
  <2> QED
    BY <2>1, Saves DEF FileInv, BodiesOf
<1>9. HeldInv'
  <2>1. held \in [Item -> Person \cup {Nobody}]
    BY DEF BoxInv, HeldInv
  <2>2. ASSUME NEW x \in Item
        PROVE  held'[x] = Nobody <=> \E k \in 1 .. n + 1 : contents'[k] = x
    <3>1. CASE x = i
      <4>1. n + 1 \in 1 .. n + 1 /\ held'[i] = Nobody
        BY <1>1, <2>1
      <4> QED
        BY <1>5, <3>1, <4>1
    <3>2. CASE x # i
      <4>1. held'[x] = held[x] /\ (held[x] = Nobody <=> \E k \in 1 .. n : contents[k] = x)
        BY <1>1, <2>1, <3>2 DEF BoxInv, HeldInv
      <4>2. \A k \in 1 .. n : k \in 1 .. n + 1
        BY <1>1
      <4> QED
        BY <1>5, <1>6, <3>2, <4>1, <4>2
    <3> QED
      BY <3>1, <3>2
  <2> QED
    BY <1>5, <2>1, <2>2 DEF HeldInv
<1> QED
  BY <1>7, <1>8, <1>9 DEF BoxInv

(* A removal, from the middle too: one head, one body and one place go.    *)
LEMMA RemoveInv ==
  ASSUME BoxInv, NEW p \in Person, NEW k \in 1 .. Len(heads), UNCHANGED box,
         heads' = RemoveAt(heads, k),
         contents' = RemoveAt(contents, k),
         save_removed(heads', contents'),
         held' = [held EXCEPT ![contents[k]] = p]
  PROVE  BoxInv'
<1> DEFINE n == Len(heads)
<1>1. /\ n \in Nat /\ Len(contents) = n /\ k \in 1 .. n /\ k \in 1 .. Len(contents)
      /\ \A j \in 1 .. n : heads[j] \in Entry /\ contents[j] \in Item
  BY Lengths DEF BoxInv
<1>2. /\ heads \in Seq(Entry) /\ contents \in Seq(Item) /\ IsInjective(contents)
      /\ \A j \in 1 .. n : heads[j].item = contents[j]
  BY DEF BoxInv, HeadInv
<1>3. /\ heads' \in Seq(Entry) /\ Len(heads') = n - 1
      /\ \A j \in 1 .. n - 1 : heads'[j] = IF j < k THEN heads[j] ELSE heads[j + 1]
  BY <1>2, RemoveAtProperties
<1>4. /\ contents' \in Seq(Item) /\ Len(contents') = Len(contents) - 1
      /\ \A j \in 1 .. Len(contents) - 1 : contents'[j] = IF j < k THEN contents[j] ELSE contents[j + 1]
  BY <1>1, <1>2, RemoveAtProperties
<1>5. /\ IsInjective(contents')
      /\ \A i \in 1 .. Len(contents) - 1 :
           \E j \in 1 .. Len(contents) : contents'[i] = contents[j] /\ contents[j] # contents[k]
      /\ \A j \in 1 .. Len(contents) :
           contents[j] # contents[k] => \E i \in 1 .. Len(contents) - 1 : contents'[i] = contents[j]
  <2>1. /\ IsInjective(RemoveAt(contents, k))
        /\ \A i \in 1 .. Len(contents) - 1 :
             \E j \in 1 .. Len(contents) : RemoveAt(contents, k)[i] = contents[j] /\ contents[j] # contents[k]
        /\ \A j \in 1 .. Len(contents) :
             contents[j] # contents[k] => \E i \in 1 .. Len(contents) - 1 : RemoveAt(contents, k)[i] = contents[j]
    BY <1>1, <1>2, RemoveAtInjective, Zenon
  <2> QED
    BY <2>1, Zenon
<1> HIDE DEF n
<1>6. HeadInv'
  <2>1. \A j \in 1 .. n - 1 : heads'[j].item = contents'[j]
    <3> SUFFICES ASSUME NEW j \in 1 .. n - 1
                 PROVE  heads'[j].item = contents'[j]
      OBVIOUS
    <3>1. j \in 1 .. n /\ j + 1 \in 1 .. n
      BY <1>1
    <3>2. heads[j].item = contents[j] /\ heads[j + 1].item = contents[j + 1]
      BY <1>2, <3>1
    <3> QED
      BY <1>1, <1>3, <1>4, <3>2
  <2>2. n - 1 <= MAX_MSGS
    BY <1>1, BoxAssumption DEF BoxInv, HeadInv, n
  <2> QED
    BY <1>1, <1>3, <1>4, <1>5, <2>1, <2>2 DEF BoxInv, HeadInv
<1>7. FileInv'
  <2>1. Len(heads') \in Nat /\ Len(contents') = Len(heads') /\ Len(heads') = Len(heads) - 1
    BY <1>1, <1>3, <1>4 DEF n
  <2> QED
    BY <2>1, Saves DEF FileInv, BodiesOf
<1>8. HeldInv'
  <2>1. /\ held \in [Item -> Person \cup {Nobody}] /\ contents[k] \in Item
        /\ \A i \in Item : held[i] = Nobody <=> \E j \in 1 .. n : contents[j] = i
    BY <1>1 DEF BoxInv, HeldInv
  <2>2. \A i \in Item : held'[i] = IF i = contents[k] THEN p ELSE held[i]
    BY <2>1
  <2>3. ASSUME NEW i \in Item
        PROVE  held'[i] = Nobody <=> \E j \in 1 .. n - 1 : contents'[j] = i
    <3>1. CASE i = contents[k]
      BY <1>1, <1>5, <2>2, <3>1, BoxAssumption, SMTT(30)
    <3>2. CASE i # contents[k]
      <4>1. (\E j \in 1 .. n - 1 : contents'[j] = i) <=> \E j \in 1 .. n : contents[j] = i
        <5>1. ASSUME NEW j \in 1 .. n - 1, contents'[j] = i
              PROVE  \E l \in 1 .. n : contents[l] = i
          BY <1>1, <1>5, <5>1
        <5>2. ASSUME NEW j \in 1 .. n, contents[j] = i
              PROVE  \E l \in 1 .. n - 1 : contents'[l] = i
          BY <1>1, <1>5, <3>2, <5>2
        <5> QED
          BY <5>1, <5>2
      <4> QED
        BY <2>1, <2>2, <3>2, <4>1
    <3> QED
      BY <3>1, <3>2
  <2> QED
    BY <1>1, <1>4, <2>1, <2>3 DEF HeldInv
<1> QED
  BY <1>6, <1>7, <1>8 DEF BoxInv

(* A reboot finds in the files what was in the box. *)
LEMMA RebootInv ==
  ASSUME BoxInv, Reboot
  PROVE  BoxInv'
<1> DEFINE n == Len(heads)
<1>1. /\ n \in Nat /\ n <= MAX_MSGS /\ MAX_MSGS \in Nat /\ Len(contents) = n
      /\ DOMAIN contents = 1 .. n /\ \A j \in 1 .. n : contents[j] \in Item /\ j \in Place
  BY Lengths, BoxAssumption DEF BoxInv, HeadInv
<1>2. heads \in Seq(Entry) /\ contents \in Seq(Item) /\ index = heads /\ bodies = BodiesOf(heads, contents)
  BY DEF BoxInv, HeadInv, FileInv
<1> HIDE DEF n
<1>3. /\ \A j \in 1 .. n : bodies[j] = contents[j] /\ bodies[j] # Missing
      /\ n < MAX_MSGS => bodies[n + 1] = Missing
  <2>1. \A j \in 1 .. n : j \in Place /\ j <= n
    BY <1>1
  <2>2. n < MAX_MSGS => n + 1 \in Place /\ ~(n + 1 <= n)
    BY <1>1 DEF Place
  <2> QED
    BY <1>1, <1>2, <2>1, <2>2, BoxAssumption DEF BodiesOf, Missing, n
<1>4. ASSUME NEW m \in {n, MAX_MSGS}
      PROVE  Read(m) = n
  <2>1. m \in Nat /\ n <= m
    BY <1>1
  <2>2. n \in Readable(m)
    BY <1>1, <1>3, <2>1 DEF Readable
  <2>3. ASSUME NEW l \in Readable(m)
        PROVE  l <= n
    <3>1. l \in 0 .. m /\ \A k \in 1 .. l : bodies[k] # Missing
      BY DEF Readable
    <3>2. CASE l > n
      <4>1. n < MAX_MSGS /\ n + 1 \in 1 .. l
        BY <1>1, <3>1, <3>2
      <4> QED
        BY <1>3, <3>1, <4>1
    <3> QED
      BY <1>1, <3>1, <3>2
  <2>4. \A l \in Readable(m) : l \in Nat
    BY DEF Readable
  <2>5. ASSUME NEW r \in Readable(m), \A l \in Readable(m) : l <= r
        PROVE  r = n
    BY <1>1, <2>2, <2>3, <2>4, <2>5
  <2> QED
    BY <2>2, <2>3, <2>5 DEF Read
<1>5. [j \in 1 .. n |-> bodies[j]] = contents
  BY <1>1, <1>2, <1>3
<1>6. heads' = heads /\ contents' = contents
  <2>1. CASE box # "silver"
    <3>1. heads' = SubSeq(heads, 1, n) /\ contents' = [j \in 1 .. n |-> bodies[j]]
      BY <1>2, <1>4, <2>1 DEF Reboot, load_board, load_mbox, BoxInv, n
    <3> QED
      BY <1>2, <1>5, <3>1 DEF n
  <2>2. CASE box = "silver"
    <3>1. heads' = heads /\ contents' = [j \in 1 .. n |-> bodies[j]]
      BY <1>2, <1>4, <2>2 DEF Reboot, load_mbox, n
    <3> QED
      BY <1>5, <3>1
  <2> QED
    BY <2>1, <2>2
<1>7. UNCHANGED <<box, index, bodies, held>>
  BY DEF Reboot
<1> QED
  BY <1>6, <1>7 DEF BoxInv, HeadInv, FileInv, HeldInv, BodiesOf

-----------------------------------------------------------------------------
LEMMA BoxNextInv ==
  ASSUME BoxInv, [BoxNext]_box_vars
  PROVE  BoxInv'
<1>1. ASSUME NEW p \in Person, NEW i \in Item, post_board(p, i)
      PROVE  BoxInv'
  <2>1. save(heads', contents')
    BY <1>1 DEF post_board
  <2> QED
    BY <1>1, <2>1, PostInv DEF post_board
<1>2. ASSUME NEW p \in Person, NEW to \in Person, NEW i \in Item, post_mail(p, i, to)
      PROVE  BoxInv'
  <2>1. contents' = Append(contents, i) /\ save(heads', contents')
    BY <1>2 DEF post_mail, AtEnd
  <2> QED
    BY <1>2, <2>1, PostInv DEF post_mail
<1>3. ASSUME NEW p \in Person, NEW k \in Place, remove_board(p, k)
      PROVE  BoxInv'
  <2>1. k \in 1 .. Len(heads) /\ save_removed(heads', contents')
    BY <1>3 DEF remove_board
  <2> QED
    BY <1>3, <2>1, RemoveInv DEF remove_board
<1>4. ASSUME NEW p \in Person, NEW k \in Place, get_mail(p, k)
      PROVE  BoxInv'
  <2>1. k \in 1 .. Len(heads) /\ save_removed(heads', contents')
    BY <1>4 DEF get_mail, remove_mail
  <2> QED
    BY <1>4, <2>1, RemoveInv DEF get_mail, remove_mail
<1>5. CASE UNCHANGED box_vars
  BY <1>5 DEF box_vars, BoxInv, HeadInv, FileInv, HeldInv, BodiesOf
<1> QED
  BY <1>1, <1>2, <1>3, <1>4, <1>5, RebootInv DEF BoxNext

LEMMA BoxesAlways == BoxSpec => []BoxInv
<1>1. BoxInit => BoxInv
  BY BoxInitInv
<1>2. BoxInv /\ [BoxNext]_box_vars => BoxInv'
  BY BoxNextInv
<1> QED
  BY <1>1, <1>2, PTL DEF BoxSpec

-----------------------------------------------------------------------------
(* Types: a box never holds more than there is room for (board.c, mail.c). *)
THEOREM BoxesTyped == BoxSpec => []BoxTypeOK
<1>1. BoxInv => BoxTypeOK
  <2> SUFFICES ASSUME BoxInv PROVE BoxTypeOK
    OBVIOUS
  <2>1. bodies \in [Place -> Item \cup {Missing}]
    BY Lengths DEF BoxInv, HeadInv, FileInv, BodiesOf, Place
  <2> QED
    BY <2>1 DEF BoxInv, HeadInv, FileInv, HeldInv, BoxTypeOK
<1> QED
  BY <1>1, BoxesAlways, PTL

(* Post, remove, get and reboots in any order keep heads and bodies side   *)
(* by side, and what nobody holds is in the box once (board.c, mail.c).    *)
THEOREM HeadsSafe == BoxSpec => []HeadsMatch
<1>1. BoxInv => HeadsMatch
  BY Lengths DEF BoxInv, HeadInv, HeldInv, HeadsMatch
<1> QED
  BY <1>1, BoxesAlways, PTL

-----------------------------------------------------------------------------
(* For any rooms, exits and zones: outside the mazes both sides of a door  *)
(* that is laid out alike stay together, and those of no door are parted   *)
(* but by a reset.                                                         *)
(*                                                                         *)
(* A command changes the exit it is given and the one behind it.  If one   *)
(* of these is a side of a door, the other is its other side: a fixed room *)
(* has its exits where they were built, and those of a maze start there.   *)

(* The sides of a door that is laid out alike. *)
Pair(e, f) == Sides(e, f) /\ Laid(e, f)

ExitInv == /\ \A r \in Room, d \in Dir : dirs[r][d] # NULL => dirs[r][d] \in Exit /\ From[dirs[r][d]] = r
           /\ \A r \in Room, d \in Dir : Fixed(r) => dirs[r][d] = Built[r][d]
           /\ dirs \in [Room -> [Dir -> Exit \cup {NULL}]]
PlaceInv == place \in [Player -> Room \cup {NOWHERE}]
SideInv == /\ closed \subseteq Exit /\ locked \subseteq Exit
           /\ \A e, f \in Exit : Pair(e, f) =>
                /\ e \in closed => f \in closed /\ e \in Doors
                /\ e \in locked => f \in locked /\ e \in closed
AgeInv == \A z \in Zone : age[z] \in -2 .. (Lifespan[z] + 6)
ZoneInv == ExitInv /\ PlaceInv /\ SideInv /\ AgeInv

-----------------------------------------------------------------------------
LEMMA SidesBoth ==
  ASSUME NEW e \in Exit, NEW f \in Exit, Sides(e, f)
  PROVE  Sides(f, e)
BY Layout DEF Sides

LEMMA PairBoth ==
  ASSUME NEW e \in Exit, NEW f \in Exit, Pair(e, f)
  PROVE  Pair(f, e)
<1>1. Laid(f, e)
  BY DEF Pair, Laid
<1> QED
  BY <1>1, SidesBoth DEF Pair

(* An exit is built where it starts, and nothing else is there. *)
LEMMA WhereBuilt ==
  ASSUME NEW r \in Room, NEW d \in Dir
  PROVE  /\ Built[r][d] # NULL => Built[r][d] \in Exit /\ From[Built[r][d]] = r /\ Aim[Built[r][d]] = d
         /\ \A e \in Exit : From[e] = r /\ Aim[e] = d => Built[r][d] = e
<1>1. Built[r][d] = IF \E e \in Exit : From[e] = r /\ Aim[e] = d
                    THEN CHOOSE e \in Exit : From[e] = r /\ Aim[e] = d ELSE NULL
  BY DEF Built
<1>2. CASE \E e \in Exit : From[e] = r /\ Aim[e] = d
  <2>1. Built[r][d] \in Exit /\ From[Built[r][d]] = r /\ Aim[Built[r][d]] = d
    BY <1>1, <1>2
  <2> QED
    BY <2>1, Layout
<1>3. CASE ~\E e \in Exit : From[e] = r /\ Aim[e] = d
  BY <1>1, <1>3
<1> QED
  BY <1>2, <1>3

(* A reset turns the exits of the mazes of its zones, and no others. *)
ExitsKept(old, new) ==
  /\ new \in [Room -> [Dir -> Exit \cup {NULL}]]
  /\ \A r \in Room : Fixed(r) => new[r] = old[r]
  /\ \A r \in Room, d \in Dir : \E c \in Dir : new[r][d] = old[r][c]
LEMMA TurnedInv ==
  ASSUME NEW Z \in SUBSET Zone, NEW old, NEW new,
         old \in [Room -> [Dir -> Exit \cup {NULL}]], new \in Turned(old, Z)
  PROVE  ExitsKept(old, new)
<1> DEFINE mazes == UNION {Maze[z] : z \in Z}
<1>1. PICK t \in Bijection(Dir, Dir) :
        new = [r \in Room |-> IF r \in mazes THEN [d \in Dir |-> old[r][t[d]]] ELSE old[r]]
  BY DEF Turned
<1>2. t \in [Dir -> Dir]
  BY DEF Bijection, Injection
<1>3. \A r \in Room : Fixed(r) => r \notin mazes
  BY DEF Fixed
<1> QED
  BY <1>1, <1>2, <1>3 DEF ExitsKept

(* Resets set both sides of such a door alike. *)
LEMMA SetAlike ==
  ASSUME NEW Z \in SUBSET Zone, NEW how, NEW e \in Exit, NEW f \in Exit, Pair(e, f), e \in SetTo(Z, how)
  PROVE  e \in Doors /\ f \in SetTo(Z, how)
<1>1. PICK z \in Z : e \in DOMAIN Sets[z] /\ Sets[z][e] \in how
  BY DEF SetTo
<1>2. SetBy(z, e) = {Sets[z][e]} /\ SetBy(z, e) # {}
  BY <1>1 DEF SetBy
<1>3. SetBy(z, f) = {Sets[z][e]} /\ e \in Doors
  BY <1>2 DEF Pair, Laid
<1>4. f \in DOMAIN Sets[z] /\ Sets[z][f] = Sets[z][e]
  BY <1>3 DEF SetBy
<1> QED
  BY <1>1, <1>3, <1>4 DEF SetTo

LEMMA SideCases ==
  ASSUME SideInv, NEW e \in Exit, NEW f \in Exit, Pair(e, f)
  PROVE  /\ e \in closed <=> f \in closed
         /\ e \in locked <=> f \in locked
         /\ e \in closed => e \in Doors
         /\ e \in locked => e \in closed
BY PairBoth DEF SideInv

LEMMA ResetInv ==
  ASSUME ZoneInv, NEW Z \in SUBSET Zone, reset_zone(Z)
  PROVE  ExitInv' /\ SideInv'
<1> DEFINE R == Resets(Z)
<1>1. /\ closed' = (closed \ SetTo(R, {0})) \cup SetTo(R, {1, 2})
      /\ locked' = (locked \ SetTo(R, {0, 1})) \cup SetTo(R, {2})
      /\ dirs' \in Turned(dirs, R) /\ R \in SUBSET Zone
  BY DEF reset_zone, Resets
<1> HIDE DEF R
<1>2. ExitInv'
  <2>1. ExitsKept(dirs, dirs')
    <3>1. dirs \in [Room -> [Dir -> Exit \cup {NULL}]]
      BY DEF ZoneInv, ExitInv
    <3> QED
      BY <1>1, <3>1, TurnedInv
  <2>2. ASSUME NEW r \in Room, NEW d \in Dir
        PROVE  /\ dirs'[r][d] # NULL => dirs'[r][d] \in Exit /\ From[dirs'[r][d]] = r
               /\ Fixed(r) => dirs'[r][d] = Built[r][d]
    BY <2>1 DEF ExitsKept, ZoneInv, ExitInv
  <2> QED
    BY <2>1, <2>2 DEF ExitsKept, ExitInv
<1>3. SideInv'
  <2>1. \A how : SetTo(R, how) \subseteq Exit
    BY DEF SetTo
  <2>2. /\ SetTo(R, {0}) \subseteq SetTo(R, {0, 1}) /\ SetTo(R, {2}) \subseteq SetTo(R, {1, 2})
    BY DEF SetTo
  <2>3. ASSUME NEW e \in Exit, NEW f \in Exit, Pair(e, f)
        PROVE  /\ e \in closed' => f \in closed' /\ e \in Doors
               /\ e \in locked' => f \in locked' /\ e \in closed'
    <3>1. /\ e \in closed <=> f \in closed
          /\ e \in locked <=> f \in locked
          /\ e \in closed => e \in Doors
          /\ e \in locked => e \in closed
      BY <2>3, SideCases DEF ZoneInv
    <3>2. \A how : e \in SetTo(R, how) <=> f \in SetTo(R, how)
      BY <1>1, <2>3, SetAlike, PairBoth
    <3>3. e \in SetTo(R, {1, 2}) => e \in Doors
      BY <1>1, <2>3, SetAlike
    <3> QED
      BY <1>1, <2>2, <3>1, <3>2, <3>3
  <2> QED
    BY <1>1, <2>1, <2>3 DEF ZoneInv, SideInv
<1> QED
  BY <1>2, <1>3

-----------------------------------------------------------------------------
LEMMA ZoneInitInv == ASSUME ZoneInit PROVE ZoneInv
<1> DEFINE R == Resets(Zone)
<1>1. /\ closed = SetTo(R, {1, 2}) /\ locked = SetTo(R, {2})
      /\ age = [z \in Zone |-> 0] /\ place = [p \in Player |-> NOWHERE]
      /\ dirs \in Turned(Built, R) /\ R \in SUBSET Zone
  BY DEF ZoneInit, Resets
<1> HIDE DEF R
<1>2. Built \in [Room -> [Dir -> Exit \cup {NULL}]]
  BY DEF Built
<1>3. ExitInv
  <2>1. ExitsKept(Built, dirs)
    BY <1>1, <1>2, TurnedInv
  <2> QED
    BY <2>1, WhereBuilt DEF ExitsKept, ExitInv
<1>4. SideInv
  <2>1. SetTo(R, {1, 2}) \subseteq Exit /\ SetTo(R, {2}) \subseteq SetTo(R, {1, 2})
    BY DEF SetTo
  <2>2. ASSUME NEW e \in Exit, NEW f \in Exit, Pair(e, f)
        PROVE  /\ e \in SetTo(R, {1, 2}) => e \in Doors /\ f \in SetTo(R, {1, 2})
               /\ e \in SetTo(R, {2}) => f \in SetTo(R, {2})
    BY <1>1, <2>2, SetAlike
  <2> QED
    BY <1>1, <2>1, <2>2 DEF SideInv
<1>5. PlaceInv /\ AgeInv
  BY <1>1, Layout DEF PlaceInv, AgeInv
<1> QED
  BY <1>3, <1>4, <1>5 DEF ZoneInv

(* Of the exits a command changes, one is the one it was given; and if one *)
(* of them is a side of a door, so is the other, of the same door.         *)
LEMMA Touched ==
  ASSUME ZoneInv, NEW p \in Player, NEW d \in Dir, At(p, d) \in Exit,
         NEW e \in Exit, NEW f \in Exit, Sides(e, f), e \in Both(p, d)
  PROVE  f \in Both(p, d) /\ (e = At(p, d) \/ f = At(p, d))
<1> DEFINE r == place[p]
           a == At(p, d)
<1>1. r \in Room /\ a = dirs[r][d]
  BY Layout DEF At, ZoneInv, PlaceInv
<1>2. From[a] = r /\ To[a] \in Room /\ rev_dir[d] \in Dir
  BY <1>1, Layout DEF ZoneInv, ExitInv
<1>3. /\ Fixed(From[e]) /\ Fixed(From[f]) /\ To[e] = From[f] /\ To[f] = From[e]
      /\ Aim[f] = rev_dir[Aim[e]] /\ Aim[e] = rev_dir[Aim[f]]
      /\ From[e] \in Room /\ From[f] \in Room /\ Aim[e] \in Dir /\ Aim[f] \in Dir
  BY Layout DEF Sides
<1>4. /\ dirs[From[e]][Aim[e]] = e /\ dirs[From[f]][Aim[f]] = f
  <2>1. Built[From[e]][Aim[e]] = e /\ Built[From[f]][Aim[f]] = f
    BY <1>3, WhereBuilt
  <2> QED
    BY <1>3, <2>1 DEF ZoneInv, ExitInv
<1>5. \A c \in Dir, x \in Exit : \A o \in Room :
        Fixed(o) /\ dirs[o][c] = x => From[x] = o /\ Aim[x] = c
  <2> SUFFICES ASSUME NEW c \in Dir, NEW x \in Exit, NEW o \in Room, Fixed(o), dirs[o][c] = x
               PROVE  From[x] = o /\ Aim[x] = c
    OBVIOUS
  <2>1. Built[o][c] = x /\ x # NULL
    BY Layout DEF ZoneInv, ExitInv
  <2> QED
    BY <2>1, WhereBuilt
<1>6. CASE e = a
  <2>1. From[e] = r /\ Aim[e] = d
    BY <1>1, <1>2, <1>3, <1>5, <1>6
  <2>2. dirs[To[a]][rev_dir[d]] = f /\ To[f] = place[p] /\ f # NULL
    BY <1>3, <1>4, <1>6, <2>1, Layout
  <2> QED
    BY <1>6, <2>2 DEF Both, Back
<1>7. CASE e # a
  <2>1. e = dirs[To[a]][rev_dir[d]] /\ To[e] = r
    BY <1>7 DEF Both, Back
  <2>2. From[e] = To[a]
    BY <1>2, <2>1, Layout DEF ZoneInv, ExitInv
  <2>3. Aim[e] = rev_dir[d]
    BY <1>2, <1>3, <1>5, <2>1, <2>2
  <2>4. Aim[f] = d /\ From[f] = r
    BY <1>3, <2>1, <2>3, Layout
  <2>5. f = a
    BY <1>1, <1>4, <2>4
  <2> QED
    BY <2>5 DEF Both
<1> QED
  BY <1>6, <1>7

(* The door commands. *)
LEMMA DoorInv ==
  ASSUME ZoneInv, NEW p \in Player, NEW d \in Dir, At(p, d) \in Exit,
         \/ /\ At(p, d) \in closed \ locked
            /\ closed' = closed \ Both(p, d) /\ locked' = locked
         \/ /\ At(p, d) \in Doors
            /\ closed' = closed \cup Both(p, d) /\ locked' = locked
         \/ /\ At(p, d) \in closed
            /\ closed' = closed /\ locked' = locked \cup Both(p, d)
         \/ closed' = closed /\ locked' = locked \ Both(p, d)
  PROVE  SideInv'
<1>1. Both(p, d) \subseteq Exit
  <2>1. \A b \in Back(p, d) : b \in Exit
    BY Layout DEF Back, ZoneInv, ExitInv
  <2> QED
    BY <2>1 DEF Both, Back
<1>2. ASSUME NEW e \in Exit, NEW f \in Exit, Pair(e, f)
      PROVE  /\ e \in closed' => f \in closed' /\ e \in Doors
             /\ e \in locked' => f \in locked' /\ e \in closed'
  <2>1. /\ e \in closed <=> f \in closed
        /\ e \in locked <=> f \in locked
        /\ e \in closed => e \in Doors
        /\ e \in locked => e \in closed
    BY <1>2, SideCases DEF ZoneInv
  <2>2. e \in Both(p, d) <=> f \in Both(p, d)
    BY <1>2, Touched, SidesBoth DEF Pair
  <2>3. e \in Both(p, d) => e = At(p, d) \/ f = At(p, d)
    BY <1>2, Touched DEF Pair
  <2>4. e \in Doors <=> f \in Doors
    BY <1>2 DEF Pair, Laid
  <2> QED
    BY <2>1, <2>2, <2>3, <2>4
<1> QED
  BY <1>1, <1>2 DEF ZoneInv, SideInv

LEMMA ZoneNextInv ==
  ASSUME ZoneInv, [ZoneNext]_zone_vars
  PROVE  ZoneInv'
<1>1. CASE update_zones
  <2>1. PICK Z \in SUBSET {z \in Zone : Due(z)} :
          \E last \in {Max(Z), N} :
          /\ age' = [z \in Zone |-> IF Mode[z] < 1 \/ z > last THEN age[z]
                                    ELSE IF z \in Z THEN Younger(z) ELSE Older(z)]
          /\ reset_zone(Z)
          /\ UNCHANGED place
    BY <1>1 DEF update_zones
  <2>2. AgeInv'
    <3> SUFFICES ASSUME NEW z \in Zone
                 PROVE  age'[z] \in -2 .. (Lifespan[z] + 6)
      BY DEF AgeInv
    <3>1. age[z] \in -2 .. (Lifespan[z] + 6) /\ Lifespan[z] \in Nat
      BY Layout DEF ZoneInv, AgeInv
    <3>2. Older(z) \in -2 .. (Lifespan[z] + 6)
      BY <3>1 DEF Older
    <3>3. Due(z) => Younger(z) \in -2 .. (Lifespan[z] + 6)
      BY <3>1, <3>2 DEF Due, Younger
    <3>4. age'[z] = age[z] \/ age'[z] = Older(z) \/ (z \in Z /\ age'[z] = Younger(z))
      BY <2>1
    <3> QED
      BY <2>1, <3>1, <3>2, <3>3, <3>4
  <2>3. Z \in SUBSET Zone
    BY <2>1
  <2> QED
    BY <2>1, <2>2, <2>3, ResetInv DEF ZoneInv, PlaceInv
<1>2. ASSUME NEW z \in Zone, auto_reset(z)
      PROVE  ZoneInv'
  <2>1. reset_zone({z}) /\ age' = [age EXCEPT ![z] = 0] /\ place' = place
    BY <1>2 DEF auto_reset
  <2>2. AgeInv'
    BY <2>1, Layout DEF ZoneInv, AgeInv
  <2> QED
    BY <2>1, <2>2, ResetInv DEF ZoneInv, PlaceInv
<1>3. ASSUME NEW p \in Player, NEW d \in Dir,
             do_open(p, d) \/ do_close(p, d) \/ do_lock(p, d) \/ do_unlock(p, d) \/ do_pick(p, d)
      PROVE  ZoneInv'
  <2>1. UNCHANGED <<dirs, age, place>>
    BY <1>3 DEF do_open, do_close, do_lock, do_unlock, do_pick
  <2>2. At(p, d) \in Doors /\ At(p, d) \in Exit
    BY <1>3, Layout DEF do_open, do_close, do_lock, do_unlock, do_pick, find_door
  <2>3. SideInv'
    BY <1>3, <2>2, DoorInv DEF do_open, do_close, do_lock, do_unlock, do_pick
  <2> QED
    BY <2>1, <2>3 DEF ZoneInv, ExitInv, PlaceInv, AgeInv
<1>4. ASSUME NEW p \in Player, NEW d \in Dir, do_move(p, d)
      PROVE  ZoneInv'
  <2>1. At(p, d) \in Exit /\ place' = [place EXCEPT ![p] = To[At(p, d)]] /\ UNCHANGED <<dirs, closed, locked, age>>
    BY <1>4 DEF do_move
  <2>2. PlaceInv'
    BY <2>1, Layout DEF ZoneInv, PlaceInv
  <2> QED
    BY <2>1, <2>2 DEF ZoneInv, ExitInv, SideInv, AgeInv
<1>5. ASSUME NEW p \in Player, NEW r \in Room \cup {NOWHERE}, char_to_room(p, r)
      PROVE  ZoneInv'
  <2>1. place' = [place EXCEPT ![p] = r] /\ UNCHANGED <<dirs, closed, locked, age>>
    BY <1>5 DEF char_to_room
  <2>2. PlaceInv'
    BY <2>1 DEF ZoneInv, PlaceInv
  <2> QED
    BY <2>1, <2>2 DEF ZoneInv, ExitInv, SideInv, AgeInv
<1>6. CASE UNCHANGED zone_vars
  BY <1>6 DEF zone_vars, ZoneInv, ExitInv, PlaceInv, SideInv, AgeInv
<1> QED
  BY <1>1, <1>2, <1>3, <1>4, <1>5, <1>6 DEF ZoneNext

LEMMA ZonesAlways == ZoneSpec => []ZoneInv
<1>1. ZoneInit => ZoneInv
  BY ZoneInitInv
<1>2. ZoneInv /\ [ZoneNext]_zone_vars => ZoneInv'
  BY ZoneNextInv
<1> QED
  BY <1>1, <1>2, PTL DEF ZoneSpec

-----------------------------------------------------------------------------
(* The parts of the invariant bound every variable. *)
LEMMA ZoneTyping == ZoneInv => ZoneTypeOK
BY DEF ZoneInv, ExitInv, PlaceInv, SideInv, AgeInv, ZoneTypeOK

(* Types: the age of a zone stays within its bounds (zone.c update_zones). *)
THEOREM ZonesTyped == ZoneSpec => []ZoneTypeOK
BY ZoneTyping, ZonesAlways, PTL

(* The exits of a door are its two sides, which have the same state. *)
LEMMA SidesAgree == ZoneInv => DoorsAgree
<1> SUFFICES ASSUME ZoneInv, NEW r \in Room, NEW o \in Room, NEW d \in Dir,
                    Fixed(r), Fixed(o), dirs[r][d] # NULL, dirs[o][rev_dir[d]] # NULL,
                    To[dirs[r][d]] = o, To[dirs[o][rev_dir[d]]] = r, Laid(dirs[r][d], dirs[o][rev_dir[d]])
             PROVE  LET e == dirs[r][d]
                        b == dirs[o][rev_dir[d]]
                    IN /\ e \in closed <=> b \in closed
                       /\ e \in locked <=> b \in locked
                       /\ e \in locked => e \in closed
                       /\ e \in closed => e \in Doors
  BY DEF DoorsAgree
<1>1. rev_dir[d] \in Dir
  BY Layout
<1>2. /\ dirs[r][d] \in Exit /\ From[dirs[r][d]] = r /\ Aim[dirs[r][d]] = d
      /\ dirs[o][rev_dir[d]] \in Exit /\ From[dirs[o][rev_dir[d]]] = o /\ Aim[dirs[o][rev_dir[d]]] = rev_dir[d]
  BY <1>1, WhereBuilt DEF ZoneInv, ExitInv
<1>3. Pair(dirs[r][d], dirs[o][rev_dir[d]])
  BY <1>2 DEF Sides, Pair
<1> QED
  BY <1>2, <1>3, SideCases DEF ZoneInv

(* However players and resets open, close and lock them, the two sides of  *)
(* a door stay together if its sides are laid out alike, for any rooms and *)
(* zones (act.movement.c, zone.c), however others are laid out.            *)
THEOREM DoorsTogether == ZoneSpec => []DoorsAgree
BY SidesAgree, ZonesAlways, PTL

(* A command changes both sides or none, and a reset parts no door that is *)
(* laid out alike.                                                         *)
LEMMA StepParts ==
  ASSUME ZoneInv, [ZoneNext]_zone_vars, NEW e \in Exit, NEW f \in Exit,
         Sides(e, f), SameState(e, f), ~SameState(e, f)'
  PROVE  ~Laid(e, f) /\ (update_zones \/ \E z \in Zone : auto_reset(z))
<1>1. closed' # closed \/ locked' # locked
  BY DEF SameState
<1>2. ASSUME NEW p \in Player, NEW d \in Dir,
             do_open(p, d) \/ do_close(p, d) \/ do_lock(p, d) \/ do_unlock(p, d) \/ do_pick(p, d)
      PROVE  FALSE
  <2>1. At(p, d) \in Exit
    BY <1>2, Layout DEF do_open, do_close, do_lock, do_unlock, do_pick, find_door
  <2>2. e \in Both(p, d) <=> f \in Both(p, d)
    BY <2>1, Touched, SidesBoth
  <2>3. /\ closed' \in {closed, closed \ Both(p, d), closed \cup Both(p, d)}
        /\ locked' \in {locked, locked \ Both(p, d), locked \cup Both(p, d)}
    BY <1>2 DEF do_open, do_close, do_lock, do_unlock, do_pick
  <2> QED
    BY <2>2, <2>3 DEF SameState
<1>3. update_zones \/ \E z \in Zone : auto_reset(z)
  BY <1>1, <1>2 DEF ZoneNext, zone_vars, do_move, char_to_room
<1>4. ~Laid(e, f)
  <2>1. SideInv'
    BY ZoneNextInv DEF ZoneInv
  <2>2. Laid(e, f) => Pair(e, f) /\ Pair(f, e)
    BY PairBoth DEF Pair
  <2> QED
    BY <2>1, <2>2 DEF SideInv, SameState
<1> QED
  BY <1>3, <1>4

(* The two sides of any door, laid out alike or not, are parted by a reset *)
(* only (zone.c reset_zone), never by the commands of act.movement.c.      *)
THEOREM CommandsAgree == ZoneSpec => OnlyResetsPart
<1>1. ASSUME ZoneInv, [ZoneNext]_zone_vars
      PROVE  [PartedStep]_zone_vars
  <2>1. ASSUME NEW e \in Exit, NEW f \in Exit, Sides(e, f), SameState(e, f), ~SameState(e, f)'
        PROVE  ~Laid(e, f) /\ (update_zones \/ \E z \in Zone : auto_reset(z))
    BY <1>1, <2>1, StepParts
  <2> QED
    BY <2>1 DEF PartedStep
<1> QED
  BY <1>1, ZonesAlways, PTL DEF ZoneSpec, OnlyResetsPart

-----------------------------------------------------------------------------
(* Coins: neither the bank nor the shop makes any, and the file of the     *)
(* accounts is never behind on a member or a coin.                         *)

LEMMA WordSums ==
  ASSUME NEW a \in Word, NEW b \in Word
  PROVE  /\ Sum(a, b) \in Word /\ Sum(a, b) <= a + b
         /\ ~Full(a, b) => a + b \in Word
<1>1. W \in Nat /\ W > 1 /\ a \in Nat /\ b \in Nat /\ a < W /\ b < W
  BY CoinsAssumption DEF Word
<1>2. (a + b) % W = IF a + b < W THEN a + b ELSE a + b - W
  BY <1>1
<1> QED
  BY <1>1, <1>2 DEF Sum, Full, Word

LEMMA WordNumbers == \A x \in Word : x \in Nat /\ x \in Int /\ 0 <= x
  BY CoinsAssumption DEF Word

LEMMA WordLess ==
  ASSUME NEW a \in Word, NEW b \in Word, b <= a
  PROVE  (a + W - b) % W = a - b /\ a - b \in Word
<1>1. W \in Nat /\ W > 1 /\ a \in Nat /\ b \in Nat /\ a < W /\ b < W
  BY CoinsAssumption DEF Word
<1> DEFINE d == a - b
<1>2. d \in Nat /\ d < W /\ a + W - b = d + W
  BY <1>1
<1> HIDE DEF d
<1>3. (d + W) % W = d
  BY <1>1, <1>2
<1> QED
  BY <1>1, <1>2, <1>3 DEF d, Word

(* A table of accounts as the code keeps it. *)
BookOK(x) == /\ DOMAIN x \subseteq Account
             /\ \A a \in DOMAIN x : /\ x[a].allow \in Seq(Customer) /\ Len(x[a].allow) <= BANK_MAX_ALLOW
                                    /\ x[a].amount \in Word /\ x[a] = [allow |-> x[a].allow, amount |-> x[a].amount]
CoinInv == /\ purse \in [Customer -> Word] /\ bank \in [Customer -> Word] /\ till \in Word
           /\ owner \in [Ware -> Customer \cup {Keeper, NoOne}]
           /\ BookOK(accounts) /\ BookOK(file) /\ RebootKeeps

LEMMA BooksTyped == ASSUME CoinInv PROVE CoinTypeOK
  BY DEF CoinInv, BookOK, CoinTypeOK, AccountRec

LEMMA CoinInitInv == ASSUME CoinInit PROVE CoinInv
<1>1. 0 \in Word /\ 1 \in Word /\ W - 1 \in Word
  BY CoinsAssumption DEF Word
<1>2. DOMAIN accounts = {} /\ DOMAIN file = {}
  BY EmptySeq DEF CoinInit
<1> QED
  BY <1>1, <1>2 DEF CoinInit, CoinInv, BookOK, RebootKeeps

(* The command leaves what the file says as it is, or writes all of it.    *)
LEMMA BooksWritten ==
  ASSUME CoinInv, BookOK(accounts'), purse' \in [Customer -> Word], bank' \in [Customer -> Word],
         till' \in Word, owner' \in [Ware -> Customer \cup {Keeper, NoOne}],
         \/ file' = accounts'
         \/ /\ file' = file /\ DOMAIN accounts' = DOMAIN accounts
            /\ \A a \in DOMAIN accounts : /\ accounts'[a].allow = accounts[a].allow
                                          /\ accounts'[a].amount <= accounts[a].amount
  PROVE  CoinInv'
<1>1. CASE file' = accounts'
  BY <1>1 DEF CoinInv, RebootKeeps, BookOK, Word
<1>2. CASE /\ file' = file /\ DOMAIN accounts' = DOMAIN accounts
           /\ \A a \in DOMAIN accounts : /\ accounts'[a].allow = accounts[a].allow
                                         /\ accounts'[a].amount <= accounts[a].amount
  <2>1. \A a \in DOMAIN accounts : /\ accounts[a].amount \in Int /\ accounts'[a].amount \in Int
                                   /\ file[a].amount \in Int
    BY <1>2 DEF CoinInv, BookOK, RebootKeeps, Word
  <2> QED
    BY <1>2, <2>1 DEF CoinInv, RebootKeeps, BookOK
<1> QED
  BY <1>1, <1>2

-----------------------------------------------------------------------------
(* Sums of purses and of deposits. *)
Owns(f, g) == Total([p \in Customer |-> f[p] + g[p]], Customer)
DepositSum(x) == Total([a \in DOMAIN x |-> x[a].amount], DOMAIN x)

LEMMA CoinsAre == /\ Coins = till + Owns(purse, bank) + DepositSum(accounts)
                  /\ Coins' = till' + Owns(purse', bank') + DepositSum(accounts')
  BY DEF Coins, Purses, Deposits, Owns, DepositSum

LEMMA OwnsTyped ==
  ASSUME NEW f \in [Customer -> Word], NEW g \in [Customer -> Word]
  PROVE  Owns(f, g) \in Int /\ Numeric([p \in Customer |-> f[p] + g[p]], Customer)
<1> DEFINE t == [p \in Customer |-> f[p] + g[p]]
<1>1. Numeric(t, Customer)
  BY CoinsAssumption DEF Numeric, Word
<1> HIDE DEF t
<1>2. Total(t, Customer) \in Int
  BY <1>1, TotalSplit, CoinsAssumption
<1> QED
  BY <1>1, <1>2 DEF Owns, t

LEMMA HeldTyped ==
  ASSUME NEW x, BookOK(x)
  PROVE  /\ IsFiniteSet(DOMAIN x) /\ Numeric([a \in DOMAIN x |-> x[a].amount], DOMAIN x)
         /\ DepositSum(x) \in Int
<1> DEFINE t == [a \in DOMAIN x |-> x[a].amount]
<1>1. IsFiniteSet(DOMAIN x)
  <2>1. DOMAIN x \subseteq Account /\ IsFiniteSet(Account)
    BY CoinsAssumption DEF BookOK
  <2> QED
    BY <2>1, FS_Subset
<1>2. Numeric(t, DOMAIN x)
  BY CoinsAssumption DEF Numeric, Word, BookOK
<1> HIDE DEF t
<1>3. Total(t, DOMAIN x) \in Int
  BY <1>1, <1>2, TotalSplit
<1> QED
  BY <1>1, <1>2, <1>3 DEF t, DepositSum

LEMMA HeldMoved ==
  ASSUME NEW x, BookOK(x), NEW y, BookOK(y), DOMAIN y = DOMAIN x, NEW a \in DOMAIN x,
         \A b \in DOMAIN x \ {a} : y[b].amount = x[b].amount
  PROVE  DepositSum(y) = DepositSum(x) + y[a].amount - x[a].amount
<1> DEFINE t == [b \in DOMAIN x |-> x[b].amount]
           u == [b \in DOMAIN x |-> y[b].amount]
<1>1. DepositSum(x) = Total(t, DOMAIN x) /\ DepositSum(y) = Total(u, DOMAIN x)
  BY DEF DepositSum
<1>2. Numeric(t, DOMAIN x) /\ Numeric(u, DOMAIN x) /\ IsFiniteSet(DOMAIN x)
  BY HeldTyped
<1>3. (\A b \in DOMAIN x \ {a} : u[b] = t[b]) /\ t[a] = x[a].amount /\ u[a] = y[a].amount
  OBVIOUS
<1> HIDE DEF t, u
<1>4. Total(u, DOMAIN x) = Total(t, DOMAIN x) + u[a] - t[a]
  BY <1>2, <1>3, TotalMoved
<1> QED
  BY <1>1, <1>3, <1>4

LEMMA HeldSame ==
  ASSUME NEW x, BookOK(x), NEW y, DOMAIN y = DOMAIN x,
         \A b \in DOMAIN x : y[b].amount = x[b].amount
  PROVE  DepositSum(y) = DepositSum(x)
<1>1. [b \in DOMAIN y |-> y[b].amount] = [b \in DOMAIN x |-> x[b].amount]
  OBVIOUS
<1> QED
  BY <1>1, Zenon DEF DepositSum

(* An account more, or less. *)
LEMMA HeldMore ==
  ASSUME NEW x, BookOK(x), NEW a \in DOMAIN x, NEW y, BookOK(y), DOMAIN y = DOMAIN x \ {a},
         \A b \in DOMAIN y : y[b] = x[b]
  PROVE  DepositSum(x) = DepositSum(y) + x[a].amount
<1> DEFINE t == [b \in DOMAIN x |-> x[b].amount]
           u == [b \in DOMAIN y |-> y[b].amount]
<1>1. DepositSum(x) = Total(t, DOMAIN x) /\ DepositSum(y) = Total(u, DOMAIN y)
  BY DEF DepositSum
<1>2. Numeric(t, DOMAIN x) /\ Numeric(u, DOMAIN y) /\ IsFiniteSet(DOMAIN x) /\ IsFiniteSet(DOMAIN y)
  BY HeldTyped
<1>3. (\A b \in DOMAIN y : u[b] = t[b]) /\ t[a] = x[a].amount
  OBVIOUS
<1> HIDE DEF t, u
<1>4. Total(t, DOMAIN x) = t[a] + Total(t, DOMAIN y)
  BY <1>2, TotalSplit
<1>5. Total(t, DOMAIN y) = Total(u, DOMAIN y)
  BY <1>2, <1>3, TotalSame
<1>6. Total(u, DOMAIN y) \in Int /\ t[a] \in Int
  BY <1>2, TotalSplit DEF Numeric
<1> QED
  BY <1>1, <1>3, <1>4, <1>5, <1>6

-----------------------------------------------------------------------------
(* One lemma per command. *)
CoinOK == CoinInv' /\ CoinStep

LEMMA CoinFacts ==
  ASSUME CoinInv
  PROVE  /\ BookOK(accounts) /\ purse \in [Customer -> Word] /\ bank \in [Customer -> Word] /\ till \in Word
         /\ owner \in [Ware -> Customer \cup {Keeper, NoOne}]
         /\ Word \subseteq Nat
         /\ Owns(purse, bank) \in Int /\ DepositSum(accounts) \in Int
         /\ \A a \in DOMAIN accounts :
              /\ a \in Account /\ accounts[a].allow \in Seq(Customer) /\ Len(accounts[a].allow) <= BANK_MAX_ALLOW
              /\ accounts[a].amount \in Word
              /\ accounts[a] = [allow |-> accounts[a].allow, amount |-> accounts[a].amount]
<1>1. /\ BookOK(accounts) /\ purse \in [Customer -> Word] /\ bank \in [Customer -> Word] /\ till \in Word
      /\ owner \in [Ware -> Customer \cup {Keeper, NoOne}]
  BY DEF CoinInv
<1>2. Owns(purse, bank) \in Int /\ DepositSum(accounts) \in Int
  BY <1>1, OwnsTyped, HeldTyped
<1>3. Word \subseteq Nat
  BY DEF Word
<1>4. \A a \in DOMAIN accounts :
        /\ a \in Account /\ accounts[a].allow \in Seq(Customer) /\ Len(accounts[a].allow) <= BANK_MAX_ALLOW
        /\ accounts[a].amount \in Word
        /\ accounts[a] = [allow |-> accounts[a].allow, amount |-> accounts[a].amount]
  BY <1>1 DEF BookOK
<1> QED
  BY <1>1, <1>2, <1>3, <1>4

(* Deposits that stay what they are, with the purses and the till. *)
LEMMA OnlyBooks ==
  ASSUME CoinInv, BookOK(accounts'), UNCHANGED <<purse, bank, till, owner>>, save_accounts,
         DepositSum(accounts') <= DepositSum(accounts)
  PROVE  CoinOK
<1>1. CoinInv'
  BY CoinFacts, BooksWritten DEF save_accounts
<1>2. DepositSum(accounts') \in Int
  BY HeldTyped
<1>3. Owns(purse', bank') = Owns(purse, bank) /\ till' = till
  OBVIOUS
<1>4. Coins' <= Coins
  BY <1>2, <1>3, CoinsAre, CoinFacts
<1> QED
  BY <1>1, <1>4 DEF CoinOK, CoinStep

LEMMA AccountMade ==
  ASSUME CoinInv, NEW p \in Customer, NEW a \in Account, bank_account(p, a)
  PROVE  CoinOK
<1>1. a \notin DOMAIN accounts
  BY DEF bank_account, find_account
<1>2. /\ DOMAIN accounts' = DOMAIN accounts \cup {a} /\ accounts'[a] = [allow |-> <<p>>, amount |-> 0]
      /\ \A b \in DOMAIN accounts : accounts'[b] = accounts[b]
  BY <1>1 DEF bank_account, Put
<1>3. <<p>> \in Seq(Customer) /\ Len(<<p>>) = 1 /\ 0 \in Word
  BY CoinsAssumption DEF Word
<1>4. BookOK(accounts')
  <2>1. 1 <= BANK_MAX_ALLOW /\ DOMAIN accounts \subseteq Account
    BY CoinFacts, CoinsAssumption DEF BookOK
  <2>2. SUFFICES ASSUME NEW b \in DOMAIN accounts'
                 PROVE  /\ accounts'[b].allow \in Seq(Customer) /\ Len(accounts'[b].allow) <= BANK_MAX_ALLOW
                        /\ accounts'[b].amount \in Word
                        /\ accounts'[b] = [allow |-> accounts'[b].allow, amount |-> accounts'[b].amount]
    BY <1>2, <2>1 DEF BookOK
  <2>3. CASE b = a
    <3> DEFINE allow == <<p>>
    <3>1. accounts'[b] = [allow |-> allow, amount |-> 0] /\ allow \in Seq(Customer) /\ Len(allow) = 1
      BY <1>2, <1>3, <2>3
    <3> HIDE DEF allow
    <3>2. accounts'[b].allow = allow /\ accounts'[b].amount = 0
      BY <3>1
    <3> QED
      BY <1>3, <2>1, <3>1, <3>2
  <2>4. CASE b \in DOMAIN accounts
    <3>1. accounts'[b] = accounts[b]
      BY <1>2, <2>4
    <3> QED
      BY <2>4, <3>1, CoinFacts, Zenon
  <2> QED
    BY <1>2, <2>3, <2>4
<1>5. DOMAIN accounts = DOMAIN accounts' \ {a} /\ a \in DOMAIN accounts' /\ BookOK(accounts)
  BY <1>1, <1>2, CoinFacts
<1>6. DepositSum(accounts') = DepositSum(accounts) + accounts'[a].amount
  BY <1>2, <1>4, <1>5, HeldMore
<1>7. DepositSum(accounts') <= DepositSum(accounts)
  BY <1>2, <1>6, CoinFacts
<1> QED
  BY <1>4, <1>7, OnlyBooks DEF bank_account

LEMMA AccountClosed ==
  ASSUME CoinInv, NEW p \in Customer, NEW a \in Account, bank_close(p, a)
  PROVE  CoinOK
<1>1. a \in DOMAIN accounts
  BY DEF bank_close, find_account
<1>2. /\ DOMAIN accounts' = DOMAIN accounts \ {a}
      /\ \A b \in DOMAIN accounts' : accounts'[b] = accounts[b]
  BY DEF bank_close
<1>3. BookOK(accounts')
  BY <1>2, CoinFacts DEF BookOK
<1>4. DepositSum(accounts) = DepositSum(accounts') + accounts[a].amount
  BY <1>1, <1>2, <1>3, HeldMore, CoinFacts
<1>5. accounts[a].amount \in Nat /\ DepositSum(accounts') \in Int
  BY <1>1, <1>3, CoinFacts, HeldTyped
<1> QED
  BY <1>3, <1>4, <1>5, OnlyBooks DEF bank_close

(* Somebody is let in or put out. *)
LEMMA AllowSet ==
  ASSUME CoinInv, NEW a \in DOMAIN accounts, NEW allow \in Seq(Customer), Len(allow) <= BANK_MAX_ALLOW,
         accounts' = [accounts EXCEPT ![a].allow = allow],
         UNCHANGED <<purse, bank, till, owner>>, save_accounts
  PROVE  CoinOK
<1>1. /\ DOMAIN accounts' = DOMAIN accounts \cup {a}
      /\ accounts'[a] = [allow |-> allow, amount |-> accounts[a].amount]
      /\ \A b \in DOMAIN accounts \ {a} : accounts'[b] = accounts[b]
  <2>1. accounts'[a] = [accounts[a] EXCEPT !.allow = allow]
    OBVIOUS
  <2>2. accounts[a] = [allow |-> accounts[a].allow, amount |-> accounts[a].amount]
    BY CoinFacts
  <2>3. accounts'[a] = [allow |-> allow, amount |-> accounts[a].amount]
    BY <2>1, <2>2
  <2> QED
    BY <2>3
<1>2. BookOK(accounts')
  BY <1>1, CoinFacts DEF BookOK
<1>3. BookOK(accounts) /\ DOMAIN accounts' = DOMAIN accounts
      /\ \A b \in DOMAIN accounts : accounts'[b].amount = accounts[b].amount
  BY <1>1, CoinFacts
<1>4. DepositSum(accounts') = DepositSum(accounts)
  BY <1>3, HeldSame
<1> QED
  BY <1>2, <1>4, CoinFacts, OnlyBooks

LEMMA MemberAllowed ==
  ASSUME CoinInv, NEW p \in Customer, NEW q \in Customer, NEW a \in Account, bank_allow(p, a, q)
  PROVE  CoinOK
<1>1. a \in DOMAIN accounts /\ Len(accounts[a].allow) < BANK_MAX_ALLOW
  BY DEF bank_allow, Mine, find_account
<1> DEFINE allow == Append(accounts[a].allow, q)
<1>2. allow \in Seq(Customer) /\ Len(allow) <= BANK_MAX_ALLOW
  BY <1>1, CoinFacts, AppendProperties, LenProperties, CoinsAssumption
<1>3. accounts' = [accounts EXCEPT ![a].allow = allow] /\ save_accounts /\ UNCHANGED <<purse, bank, till, owner>>
  BY DEF bank_allow
<1> HIDE DEF allow
<1> QED
  BY <1>1, <1>2, <1>3, AllowSet

LEMMA MemberDisallowed ==
  ASSUME CoinInv, NEW p \in Customer, NEW q \in Customer, NEW a \in Account, bank_disallow(p, a, q)
  PROVE  CoinOK
<1>1. a \in DOMAIN accounts
  BY DEF bank_disallow, Mine, find_account
<1>2. PICK i \in DOMAIN accounts[a].allow : accounts' = [accounts EXCEPT ![a].allow = RemoveAt(@, i)]
  BY DEF bank_disallow, find_member
<1> DEFINE allow == RemoveAt(accounts[a].allow, i)
<1>3. allow \in Seq(Customer) /\ Len(allow) = Len(accounts[a].allow) - 1
  BY <1>1, CoinFacts, RemoveAtProperties, LenProperties
<1>4. Len(allow) <= BANK_MAX_ALLOW
  BY <1>1, <1>3, CoinFacts, LenProperties, CoinsAssumption
<1>5. accounts' = [accounts EXCEPT ![a].allow = allow] /\ save_accounts /\ UNCHANGED <<purse, bank, till, owner>>
  BY <1>2 DEF bank_disallow
<1> HIDE DEF allow
<1> QED
  BY <1>1, <1>3, <1>4, <1>5, AllowSet

(* One account, one purse, one player's bank gets another amount. *)
LEMMA AmountSet ==
  ASSUME CoinInv, NEW a \in DOMAIN accounts, NEW n \in Word, accounts' = Amount(a, n)
  PROVE  /\ BookOK(accounts') /\ DOMAIN accounts' = DOMAIN accounts
         /\ DepositSum(accounts') = DepositSum(accounts) + n - accounts[a].amount
         /\ \A b \in DOMAIN accounts :
              /\ accounts'[b].allow = accounts[b].allow
              /\ accounts'[b].amount = IF b = a THEN n ELSE accounts[b].amount
<1>1. DOMAIN accounts' = DOMAIN accounts /\ \A b \in DOMAIN accounts \ {a} : accounts'[b] = accounts[b]
  BY DEF Amount
<1>2. accounts'[a] = [allow |-> accounts[a].allow, amount |-> n]
  <2>1. accounts'[a] = [accounts[a] EXCEPT !.amount = n]
    BY DEF Amount
  <2>2. accounts[a] = [allow |-> accounts[a].allow, amount |-> accounts[a].amount]
    BY CoinFacts
  <2> QED
    BY <2>1, <2>2
<1>3. BookOK(accounts')
  <2>1. DOMAIN accounts' \subseteq Account
    BY <1>1, CoinFacts
  <2>2. SUFFICES ASSUME NEW b \in DOMAIN accounts
                 PROVE  /\ accounts'[b].allow \in Seq(Customer) /\ Len(accounts'[b].allow) <= BANK_MAX_ALLOW
                        /\ accounts'[b].amount \in Word
                        /\ accounts'[b] = [allow |-> accounts'[b].allow, amount |-> accounts'[b].amount]
    BY <1>1, <2>1 DEF BookOK
  <2>3. CASE b = a
    BY <1>2, <2>3, CoinFacts
  <2>4. CASE b # a
    <3>1. accounts'[b] = accounts[b]
      BY <1>1, <2>4
    <3> QED
      BY <3>1, CoinFacts, Zenon
  <2> QED
    BY <2>3, <2>4
<1>4. BookOK(accounts)
  BY CoinFacts
<1>5. \A b \in DOMAIN accounts \ {a} : accounts'[b].amount = accounts[b].amount
  BY <1>1
<1>6. DepositSum(accounts') = DepositSum(accounts) + accounts'[a].amount - accounts[a].amount
  BY <1>1, <1>3, <1>4, <1>5, HeldMoved
<1>7. accounts'[a].amount = n /\ accounts'[a].allow = accounts[a].allow
  BY <1>2
<1> QED
  BY <1>1, <1>3, <1>6, <1>7

LEMMA PurseSet ==
  ASSUME CoinInv, NEW p \in Customer, NEW n \in Word, purse' = [purse EXCEPT ![p] = n],
         NEW m \in Word, bank' = [bank EXCEPT ![p] = m]
  PROVE  /\ purse' \in [Customer -> Word] /\ bank' \in [Customer -> Word]
         /\ Owns(purse', bank') = Owns(purse, bank) + (n + m) - (purse[p] + bank[p])
<1> DEFINE t == [q \in Customer |-> purse[q] + bank[q]]
           u == [q \in Customer |-> purse'[q] + bank'[q]]
<1>1. purse \in [Customer -> Word] /\ bank \in [Customer -> Word]
  BY CoinFacts
<1>2. purse' \in [Customer -> Word] /\ bank' \in [Customer -> Word]
  BY <1>1
<1>3. Numeric(t, Customer) /\ Numeric(u, Customer)
  BY <1>1, <1>2, OwnsTyped
<1>4. (\A q \in Customer \ {p} : u[q] = t[q]) /\ t[p] = purse[p] + bank[p] /\ u[p] = n + m
  BY <1>1
<1>5. Owns(purse, bank) = Total(t, Customer) /\ Owns(purse', bank') = Total(u, Customer)
  BY DEF Owns
<1> HIDE DEF t, u
<1>6. Total(u, Customer) = Total(t, Customer) + u[p] - t[p]
  BY <1>3, <1>4, TotalMoved, CoinsAssumption
<1> QED
  BY <1>2, <1>4, <1>5, <1>6

(* At the bank n coins go from the purse into the account, or out of it    *)
(* into the purse; none comes from elsewhere.                              *)
LEMMA BankMoves ==
  ASSUME CoinInv, NEW p \in Customer, NEW n \in Word, NEW a \in Account \cup {NoOne},
         NEW left \in Word, purse' = [purse EXCEPT ![p] = n],
         left + n <= purse[p] + (IF a = NoOne THEN bank[p] ELSE accounts[a].amount),
         a # NoOne => a \in DOMAIN accounts,
         bank' = (IF a = NoOne THEN [bank EXCEPT ![p] = left] ELSE bank),
         accounts' = (IF a = NoOne THEN accounts ELSE Amount(a, left)),
         till' = till, owner' = owner,
         file' = accounts' \/ (file' = file /\ (a # NoOne => left <= accounts[a].amount))
  PROVE  CoinOK
<1> DEFINE h == IF a = NoOne THEN left ELSE bank[p]
<1>1. purse \in [Customer -> Word] /\ bank \in [Customer -> Word] /\ Word \subseteq Nat
  BY CoinFacts
<1>2. bank' = [bank EXCEPT ![p] = h] /\ h \in Word
  BY <1>1
<1> HIDE DEF h
<1>3. /\ purse' \in [Customer -> Word] /\ bank' \in [Customer -> Word]
      /\ Owns(purse', bank') = Owns(purse, bank) + (n + h) - (purse[p] + bank[p])
  BY <1>2, PurseSet
<1>4. CASE a = NoOne
  <2>1. accounts' = accounts /\ h = left /\ BookOK(accounts')
    BY <1>4, CoinFacts DEF h
  <2>2. CoinInv'
    <3>1. \A b \in DOMAIN accounts : accounts[b].amount <= accounts[b].amount
      BY <1>1, CoinFacts
    <3> QED
      BY <1>3, <2>1, <3>1, CoinFacts, BooksWritten
  <2>3. Coins' <= Coins
    <3>1. left + n <= purse[p] + bank[p]
      BY <1>4
    <3>2. DepositSum(accounts') = DepositSum(accounts)
      BY <2>1
    <3>3. /\ till \in Int /\ Owns(purse, bank) \in Int /\ DepositSum(accounts) \in Int
          /\ n \in Int /\ left \in Int /\ purse[p] \in Int /\ bank[p] \in Int
      <4>1. till \in Word /\ purse[p] \in Word /\ bank[p] \in Word
        BY <1>1, CoinFacts
      <4>2. Owns(purse, bank) \in Int /\ DepositSum(accounts) \in Int
        BY CoinFacts
      <4> QED
        BY <4>1, <4>2, WordNumbers
    <3>4. Owns(purse', bank') = Owns(purse, bank) + (n + left) - (purse[p] + bank[p])
      BY <1>3, <2>1
    <3> QED
      BY <3>1, <3>2, <3>3, <3>4, CoinsAre
  <2> QED
    BY <2>2, <2>3 DEF CoinOK, CoinStep
<1>5. CASE a # NoOne
  <2>1. a \in DOMAIN accounts /\ accounts' = Amount(a, left) /\ h = bank[p]
    BY <1>5 DEF h
  <2>2. /\ BookOK(accounts') /\ DOMAIN accounts' = DOMAIN accounts
        /\ DepositSum(accounts') = DepositSum(accounts) + left - accounts[a].amount
        /\ \A b \in DOMAIN accounts :
              /\ accounts'[b].allow = accounts[b].allow
              /\ accounts'[b].amount = IF b = a THEN left ELSE accounts[b].amount
    BY <2>1, AmountSet
  <2>3. CoinInv'
    <3>1. CASE file' = accounts'
      BY <1>3, <2>2, <3>1, CoinFacts, BooksWritten
    <3>2. CASE file' = file /\ left <= accounts[a].amount
      <4>1. \A b \in DOMAIN accounts : accounts'[b].amount <= accounts[b].amount
        <5>1. \A b \in DOMAIN accounts : accounts[b].amount \in Nat
          BY CoinFacts
        <5> QED
          BY <1>1, <2>2, <3>2, <5>1
      <4> QED
        BY <1>3, <2>2, <3>2, <4>1, CoinFacts, BooksWritten
    <3> QED
      BY <1>5, <3>1, <3>2
  <2>4. Coins' <= Coins
    <3>1. left + n <= purse[p] + accounts[a].amount
      BY <1>5
    <3>2. /\ purse[p] \in Int /\ bank[p] \in Int /\ accounts[a].amount \in Int /\ left \in Int /\ n \in Int
          /\ Owns(purse, bank) \in Int /\ DepositSum(accounts) \in Int /\ till \in Int
      <4>1. accounts[a].amount \in Word /\ till \in Word
        BY <2>1, CoinFacts
      <4>2. purse[p] \in Word /\ bank[p] \in Word
        BY <1>1
      <4>3. Owns(purse, bank) \in Int /\ DepositSum(accounts) \in Int
        BY CoinFacts
      <4>4. \A x \in Word : x \in Int
        BY <1>1
      <4> QED
        BY <4>1, <4>2, <4>3, <4>4, Zenon
    <3> QED
      BY <1>3, <2>1, <2>2, <3>1, <3>2, CoinsAre
  <2> QED
    BY <2>3, <2>4 DEF CoinOK, CoinStep
<1> QED
  BY <1>4, <1>5

(* Between a purse and the till no coin is made.                           *)
OwnersOK(o) == o \in [Ware -> Customer \cup {Keeper, NoOne}]

LEMMA Traded ==
  ASSUME CoinInv, NEW p \in Customer, NEW n \in Word, purse' = [purse EXCEPT ![p] = n],
         till' \in Word, till' + n <= till + purse[p],
         UNCHANGED <<bank, accounts, file>>, OwnersOK(owner')
  PROVE  CoinOK
<1>1. purse \in [Customer -> Word] /\ bank \in [Customer -> Word]
  BY CoinFacts
<1>2. bank' = [bank EXCEPT ![p] = bank[p]] /\ bank[p] \in Word /\ purse[p] \in Word
  BY <1>1
<1>3. /\ purse' \in [Customer -> Word] /\ bank' \in [Customer -> Word]
      /\ Owns(purse', bank') = Owns(purse, bank) + (n + bank[p]) - (purse[p] + bank[p])
  BY <1>2, PurseSet
<1>4. CoinInv'
  <2>1. \A b \in DOMAIN accounts : accounts[b].amount <= accounts[b].amount
    <3> SUFFICES ASSUME NEW b \in DOMAIN accounts PROVE accounts[b].amount <= accounts[b].amount
      OBVIOUS
    <3>1. accounts[b].amount \in Word
      BY CoinFacts
    <3> QED
      BY <3>1, WordNumbers
  <2> QED
    BY <1>3, <2>1, CoinFacts, BooksWritten DEF OwnersOK
<1>5. Coins' <= Coins
  <2>1. DepositSum(accounts') = DepositSum(accounts)
    OBVIOUS
  <2>2. DepositSum(accounts) \in Int /\ till \in Word /\ Owns(purse, bank) \in Int
    BY CoinFacts
  <2>3. till \in Int /\ till' \in Int /\ n \in Int /\ purse[p] \in Int /\ bank[p] \in Int
    BY <1>2, <2>2, WordNumbers
  <2> QED
    BY <1>3, <2>1, <2>2, <2>3, CoinsAre
<1> QED
  BY <1>4, <1>5 DEF CoinOK, CoinStep

LEMMA Deposited ==
  ASSUME CoinInv, NEW p \in Customer, NEW n \in Word, NEW a \in Account \cup {NoOne}, Deposit(p, n, a)
  PROVE  CoinOK
<1> DEFINE had == IF a = NoOne THEN bank[p] ELSE accounts[a].amount
           left == purse[p] - n
<1>1. purse \in [Customer -> Word] /\ bank \in [Customer -> Word] /\ Word \subseteq Nat /\ till \in Word
  BY CoinFacts
<1>2. n <= purse[p] /\ (a # NoOne => a \in DOMAIN accounts) /\ purse' = [purse EXCEPT ![p] = left]
  BY DEF Deposit, find_account
<1>3. purse[p] \in Word /\ left \in Word
  BY <1>1, <1>2, WordLess
<1>4. had \in Word
  BY <1>1, <1>2, CoinFacts
<1>5. /\ Full(had, n) => UNCHANGED <<bank, accounts, file>>
      /\ ~Full(had, n) => /\ bank' = (IF a = NoOne THEN [bank EXCEPT ![p] = had + n] ELSE bank)
                          /\ accounts' = (IF a = NoOne THEN accounts ELSE Amount(a, had + n))
                          /\ file' = accounts'
      /\ till' = till /\ owner' = owner
  BY DEF Deposit, saved, save_accounts
<1> HIDE DEF left
<1>6. CASE Full(had, n)
  <2>1. till' + left <= till + purse[p]
    BY <1>1, <1>3, <1>5, WordNumbers DEF left
  <2>2. OwnersOK(owner') /\ till' \in Word
    BY <1>1, <1>5, CoinFacts DEF OwnersOK
  <2> QED
    BY <1>2, <1>3, <1>5, <1>6, <2>1, <2>2, Traded
<1>7. CASE ~Full(had, n)
  <2> DEFINE more == had + n
  <2>1. more \in Word
    BY <1>4, <1>7, WordSums
  <2>2. more + left <= purse[p] + had
    BY <1>1, <1>3, <1>4 DEF left
  <2>3. /\ bank' = (IF a = NoOne THEN [bank EXCEPT ![p] = more] ELSE bank)
        /\ accounts' = (IF a = NoOne THEN accounts ELSE Amount(a, more))
        /\ file' = accounts' /\ till' = till /\ owner' = owner
    BY <1>5, <1>7
  <2> HIDE DEF more
  <2> QED
    BY <1>2, <1>3, <2>1, <2>2, <2>3, BankMoves
<1> QED
  BY <1>6, <1>7

LEMMA Withdrawn ==
  ASSUME CoinInv, NEW p \in Customer, NEW n \in Word, NEW a \in Account \cup {NoOne}, Withdraw(p, n, a)
  PROVE  CoinOK
<1> DEFINE had == IF a = NoOne THEN bank[p] ELSE accounts[a].amount
           more == purse[p] + n
           left == had - n
<1>1. purse \in [Customer -> Word] /\ bank \in [Customer -> Word] /\ Word \subseteq Nat /\ till \in Word
  BY CoinFacts
<1>2. /\ n <= had /\ ~Full(purse[p], n) /\ (a # NoOne => a \in DOMAIN accounts)
      /\ purse' = [purse EXCEPT ![p] = more]
      /\ bank' = (IF a = NoOne THEN [bank EXCEPT ![p] = (had + W - n) % W] ELSE bank)
      /\ accounts' = (IF a = NoOne THEN accounts ELSE Amount(a, (had + W - n) % W))
      /\ file' = accounts' /\ till' = till /\ owner' = owner
  BY DEF Withdraw, find_account, Has, saved, save_accounts
<1>3. purse[p] \in Word /\ had \in Word
  BY <1>1, <1>2, CoinFacts
<1>4. more \in Word
  BY <1>2, <1>3, WordSums
<1>5. (had + W - n) % W = left /\ left \in Word
  BY <1>2, <1>3, WordLess
<1>6. left + more <= purse[p] + had
  <2> HIDE DEF had
  <2>1. purse[p] \in Int /\ had \in Int /\ n \in Int
    BY <1>3, WordNumbers
  <2> QED
    BY <2>1
<1>7. /\ bank' = (IF a = NoOne THEN [bank EXCEPT ![p] = left] ELSE bank)
      /\ accounts' = (IF a = NoOne THEN accounts ELSE Amount(a, left))
  BY <1>2, <1>5
<1> HIDE DEF more, left
<1> QED
  BY <1>2, <1>4, <1>5, <1>6, <1>7, BankMoves

LEMMA OwnerSet ==
  ASSUME CoinInv, NEW i \in Ware, NEW o \in Customer \cup {Keeper, NoOne},
         owner' = [owner EXCEPT ![i] = o]
  PROVE  OwnersOK(owner')
<1>1. owner \in [Ware -> Customer \cup {Keeper, NoOne}]
  BY CoinFacts
<1> QED
  BY <1>1 DEF OwnersOK

LEMMA BoughtOne ==
  ASSUME CoinInv, NEW p \in Customer, NEW i \in Ware, NEW new \in Ware, NEW a \in Account \cup {NoOne},
         shopping_buy(p, i, a, new)
  PROVE  CoinOK
<1> DEFINE cost == Price[i]
           third == cost \div 3
<1>1. purse \in [Customer -> Word] /\ bank \in [Customer -> Word] /\ till \in Word
  BY CoinFacts
<1>2. purse[p] \in Word /\ cost \in Int
  BY <1>1, CoinsAssumption
<1>3. bank' = bank /\ file' = file
  BY DEF shopping_buy
<1>4. CASE cost <= 0
  <2>1. owner' = [owner EXCEPT ![i] = NoOne] /\ purse' = purse /\ till' = till /\ accounts' = accounts
    BY <1>4 DEF shopping_buy
  <2>2. purse' = [purse EXCEPT ![p] = purse[p]] /\ till' + purse[p] <= till + purse[p]
    BY <1>1, <1>2, <2>1, WordNumbers
  <2>3. OwnersOK(owner')
    BY <2>1, OwnerSet
  <2> QED
    BY <1>1, <1>2, <1>3, <2>1, <2>2, <2>3, Traded
<1>5. CASE ~(cost <= 0)
  <2>1. /\ Pays(p, a, cost) /\ cost_from_player(p, a, cost) /\ till' = Sum(till, third)
        /\ owner' = [owner EXCEPT ![new] = p]
    BY <1>5 DEF shopping_buy
  <2>2. OwnersOK(owner')
    BY <2>1, OwnerSet
  <2>3. third \in Nat /\ third <= cost /\ cost \in Nat
    BY <1>2, <1>5
  <2>4. ASSUME NEW had \in Word, cost <= had
        PROVE  had - cost \in Word /\ third \in Word /\ till' \in Word /\ till' <= till + cost
    <3>1. W \in Nat /\ had \in Nat /\ had < W /\ till \in Int
      BY <1>1, CoinsAssumption DEF Word
    <3>2. had - cost \in Word /\ third \in Word
      BY <2>3, <2>4, <3>1 DEF Word
    <3>3. Sum(till, third) \in Word /\ Sum(till, third) <= till + third
      BY <1>1, <3>2, WordSums
    <3>4. till' \in Word /\ till' <= till + third /\ till' \in Int
      BY <2>1, <3>3, WordNumbers
    <3> QED
      BY <2>3, <3>1, <3>2, <3>4
  <2>5. CASE a = NoOne
    <3> DEFINE left == purse[p] - cost
    <3>1. cost <= purse[p] /\ purse' = [purse EXCEPT ![p] = left] /\ accounts' = accounts
      BY <2>1, <2>5 DEF Pays, cost_from_player
    <3>2. left \in Word /\ till' \in Word /\ till' <= till + cost
      BY <1>2, <2>4, <3>1
    <3>3. till' + left <= till + purse[p]
      BY <1>1, <1>2, <3>2, WordNumbers
    <3> HIDE DEF left
    <3> QED
      BY <1>3, <2>2, <3>1, <3>2, <3>3, Traded
  <2>6. CASE a # NoOne
    <3> DEFINE had == accounts[a].amount
               left == had - cost
    <3>1. a \in DOMAIN accounts /\ cost <= had /\ purse' = purse /\ accounts' = Amount(a, left)
      BY <2>1, <2>6 DEF Pays, cost_from_player, find_account
    <3>2. had \in Word
      BY <3>1, CoinFacts
    <3>3. left \in Word /\ till' \in Word /\ till' <= till + cost
      BY <2>4, <3>1, <3>2
    <3>4. left \in Int /\ had \in Int /\ till \in Int /\ till' \in Int /\ left = had - cost
      BY <1>1, <3>2, <3>3, WordNumbers
    <3> HIDE DEF left, had
    <3>5. /\ BookOK(accounts') /\ DOMAIN accounts' = DOMAIN accounts
          /\ DepositSum(accounts') = DepositSum(accounts) + left - accounts[a].amount
          /\ \A b \in DOMAIN accounts :
                /\ accounts'[b].allow = accounts[b].allow
                /\ accounts'[b].amount = IF b = a THEN left ELSE accounts[b].amount
      BY <3>1, <3>3, AmountSet
    <3>6. CoinInv'
      <4>1. SUFFICES ASSUME NEW b \in DOMAIN accounts
                     PROVE  accounts'[b].amount <= accounts[b].amount
        BY <1>1, <1>3, <2>2, <3>1, <3>3, <3>5, BooksWritten DEF OwnersOK
      <4>2. accounts[b].amount \in Word
        BY CoinFacts
      <4>3. left <= had
        BY <1>2, <2>3, <3>4
      <4> QED
        BY <3>5, <4>2, <4>3, WordNumbers DEF had
    <3>7. Coins' <= Coins
      <4>1. Owns(purse', bank') = Owns(purse, bank) /\ DepositSum(accounts') = DepositSum(accounts) + left - had
        BY <1>3, <3>1, <3>5 DEF had
      <4>2. Owns(purse, bank) \in Int /\ DepositSum(accounts) \in Int
        BY CoinFacts
      <4>3. Coins = till + Owns(purse, bank) + DepositSum(accounts)
            /\ Coins' = till' + Owns(purse', bank') + DepositSum(accounts')
        BY CoinsAre
      <4> QED
        BY <1>2, <3>3, <3>4, <4>1, <4>2, <4>3
    <3> QED
      BY <3>6, <3>7 DEF CoinOK, CoinStep
  <2> QED
    BY <2>5, <2>6
<1> QED
  BY <1>4, <1>5

LEMMA SoldOne ==
  ASSUME CoinInv, NEW p \in Customer, NEW i \in Ware, NEW have \in BOOLEAN, shopping_sell(p, i, have)
  PROVE  CoinOK
<1> DEFINE offer == Offer[i]
           more == Sum(purse[p], offer)
<1>1. /\ offer >= 1 /\ offer <= till /\ purse' = [purse EXCEPT ![p] = more] /\ till' = till - offer
      /\ owner' = [owner EXCEPT ![i] = IF have THEN NoOne ELSE Keeper]
      /\ bank' = bank /\ accounts' = accounts /\ file' = file
  BY DEF shopping_sell, trade_with
<1>2. purse \in [Customer -> Word] /\ till \in Word /\ offer \in Int
  BY CoinFacts, CoinsAssumption
<1>3. W \in Nat /\ till \in Nat /\ till < W
  BY <1>2, CoinsAssumption DEF Word
<1>4. offer \in Word /\ till' \in Word /\ purse[p] \in Word
  BY <1>1, <1>2, <1>3 DEF Word
<1>5. more \in Word /\ more <= purse[p] + offer
  BY <1>4, WordSums
<1>6. till' + more <= till + purse[p]
  <2> HIDE DEF more
  <2>1. more \in Int /\ purse[p] \in Int /\ till' = till - offer /\ more <= purse[p] + offer
    BY <1>1, <1>4, <1>5, WordNumbers
  <2> QED
    BY <1>2, <1>3, <2>1
<1>7. OwnersOK(owner')
  BY <1>1, OwnerSet
<1> HIDE DEF more
<1> QED
  BY <1>1, <1>4, <1>5, <1>6, <1>7, Traded

(* The sharing out of coins may make some, and keeps them in words.        *)
LEMMA SplitTyped ==
  ASSUME CoinInv, NEW p \in Customer, NEW n \in Word, NEW followers \in SUBSET Customer,
         NEW grouped \in SUBSET Customer, do_split(p, n, followers, grouped)
  PROVE  CoinInv'
<1> DEFINE k == sum_gr_member(p, grouped)
           divide == n \div k
           gave == divide * Cardinality(followers)
           left == IF n > gave THEN n - gave ELSE 0
<1>1. purse \in [Customer -> Word] /\ n <= purse[p]
  BY CoinFacts DEF do_split
<1>2. purse' = [q \in Customer |-> CASE q = p -> coins_to_char(purse[p] - n, left)
                                     [] q \in followers -> coins_to_char(purse[q], divide)
                                     [] OTHER -> purse[q]]
      /\ UNCHANGED <<bank, till, accounts, file, owner>>
  BY DEF do_split
<1>3. k \in Nat \ {0}
  <2>1. grouped \cup {p} \in SUBSET Customer
    OBVIOUS
  <2>2. IsFiniteSet(grouped \cup {p})
    BY <2>1, FS_Subset, CoinsAssumption
  <2>3. Cardinality(grouped \cup {p}) \in Nat /\ Cardinality(grouped \cup {p}) # 0
    BY <2>2, FS_CardinalityType, FS_EmptySet
  <2> QED
    BY <2>3 DEF sum_gr_member
<1>4. Cardinality(followers) \in Nat
  BY FS_Subset, FS_CardinalityType, CoinsAssumption
<1> HIDE DEF k
<1>5. divide \in Nat /\ divide <= n
  BY <1>3, WordNumbers
<1>6. gave \in Nat
  BY <1>4, <1>5
<1> HIDE DEF divide, gave
<1>7. left \in Nat /\ left <= n
  BY <1>6, WordNumbers
<1>8. left \in Word /\ divide \in Word
  BY <1>5, <1>7, CoinsAssumption DEF Word
<1> HIDE DEF left
<1>9. \A g, m \in Word : coins_to_char(g, m) \in Word
  BY WordSums DEF coins_to_char
<1>10. purse[p] - n \in Word
  BY <1>1, WordLess
<1>11. purse' \in [Customer -> Word]
  BY <1>1, <1>2, <1>8, <1>9, <1>10
<1>12. \A b \in DOMAIN accounts : accounts[b].amount <= accounts[b].amount
  <2> SUFFICES ASSUME NEW b \in DOMAIN accounts PROVE accounts[b].amount <= accounts[b].amount
    OBVIOUS
  <2>1. accounts[b].amount \in Word
    BY CoinFacts
  <2> QED
    BY <2>1, WordNumbers
<1> QED
  BY <1>2, <1>11, <1>12, CoinFacts, BooksWritten

(* init_bank reads the file, which has the accounts.                       *)
LEMMA BankRead ==
  ASSUME CoinInv, init_bank
  PROVE  CoinInv'
<1>1. BookOK(accounts') /\ file' = accounts' /\ UNCHANGED <<purse, bank, till, owner>>
  BY DEF init_bank, load_bank, CoinInv
<1> QED
  BY <1>1, CoinFacts, BooksWritten

-----------------------------------------------------------------------------
LEMMA CoinStepOK == ASSUME CoinInv, [CoinNext]_coin_vars PROVE CoinInv' /\ (CoinStep \/ UNCHANGED coin_vars)
<1>1. CASE UNCHANGED coin_vars
  <2>1. CoinInv'
    BY <1>1 DEF coin_vars, CoinInv, BookOK, RebootKeeps
  <2> QED
    BY <1>1, <2>1
<1>2. ASSUME CoinNext PROVE CoinInv' /\ CoinStep
  <2>1. ASSUME NEW p \in Customer, NEW a \in Account, bank_account(p, a) \/ bank_close(p, a) PROVE CoinOK
    BY <2>1, AccountMade, AccountClosed
  <2>2. ASSUME NEW p \in Customer, NEW q \in Customer, NEW a \in Account,
               bank_allow(p, a, q) \/ bank_disallow(p, a, q)
        PROVE  CoinOK
    BY <2>2, MemberAllowed, MemberDisallowed
  <2>3. ASSUME NEW p \in Customer, NEW n \in Word \ {0}, NEW a \in Account \cup {NoOne},
               Deposit(p, n, a) \/ Withdraw(p, n, a)
        PROVE  CoinOK
    BY <2>3, Deposited, Withdrawn
  <2>4. ASSUME NEW p \in Customer, NEW i \in Ware, NEW new \in Ware, NEW a \in Account \cup {NoOne},
               shopping_buy(p, i, a, new)
        PROVE  CoinOK
    BY <2>4, BoughtOne
  <2>5. ASSUME NEW p \in Customer, NEW i \in Ware, NEW have \in BOOLEAN, shopping_sell(p, i, have)
        PROVE  CoinOK
    BY <2>5, SoldOne
  <2>6. ASSUME NEW p \in Customer, NEW n \in Word \ {0}, NEW followers \in SUBSET Customer,
               NEW grouped \in SUBSET Customer, do_split(p, n, followers, grouped)
        PROVE  CoinInv' /\ CoinStep
    <3>1. CoinInv'
      BY <2>6, SplitTyped
    <3>2. CoinStep
      BY <2>6 DEF CoinStep, MakesCoins
    <3> QED
      BY <3>1, <3>2
  <2>7. CASE init_bank
    BY <2>7, BankRead DEF CoinStep, MakesCoins
  <2>8. CoinOK => CoinInv' /\ CoinStep
    BY DEF CoinOK
  <2> QED
    BY <1>2, <2>1, <2>2, <2>3, <2>4, <2>5, <2>6, <2>7, <2>8 DEF CoinNext
<1> QED
  BY <1>1, <1>2

(* The coins of every purse and account fit in their words, whatever is    *)
(* put in, paid, shared out or does not fit (bank.c, shop.c).              *)
THEOREM CoinsTyped == CoinSpec => []CoinTypeOK
<1>1. CoinInit => CoinInv
  BY CoinInitInv
<1>2. CoinInv /\ [CoinNext]_coin_vars => CoinInv'
  BY CoinStepOK
<1>3. CoinInv => CoinTypeOK
  BY BooksTyped
<1> QED
  BY <1>1, <1>2, <1>3, PTL DEF CoinSpec

(* A reboot takes neither right nor coin from the members of an account:   *)
(* the file is written by every command that gives something to an account *)
(* or takes away a right, and only payments (cost_from_player) are behind. *)
THEOREM RebootTakesNothing == CoinSpec => []RebootKeeps
<1>1. CoinInit => CoinInv
  BY CoinInitInv
<1>2. CoinInv /\ [CoinNext]_coin_vars => CoinInv'
  BY CoinStepOK
<1>3. CoinInv => RebootKeeps
  BY DEF CoinInv
<1> QED
  BY <1>1, <1>2, <1>3, PTL DEF CoinSpec

(* Neither bank nor shop makes coins, also where a sum does not fit into a *)
(* word: only do_split does, and a reboot that forgets payments.           *)
THEOREM CoinsNotMade == CoinSpec => NoCoinsMade
<1>1. CoinInit => CoinInv
  BY CoinInitInv
<1>2. CoinInv /\ [CoinNext]_coin_vars => CoinInv' /\ [CoinStep]_coin_vars
  BY CoinStepOK
<1> QED
  BY <1>1, <1>2, PTL DEF CoinSpec, NoCoinsMade

-----------------------------------------------------------------------------
(* The help table: the search of do_help finds a word if and only if it    *)
(* begins a keyword.                                                       *)
(*                                                                         *)
(* A word is less than, within or greater than a keyword by the first      *)
(* letter that differs, so along a sorted table it is first greater, then  *)
(* within, then less: what the search leaves out, on either side, has none *)
(* that the word begins.                                                   *)

Agree(word, key, n) == \A i \in 1 .. n : i <= Len(key) /\ word[i] = key[i]
LessAt(word, key, i) ==
  i \in 1 .. Len(word) /\ i <= Len(key) /\ word[i] < key[i] /\ Agree(word, key, i - 1)
MoreAt(word, key, i) ==
  i \in 1 .. Len(word) /\ (i > Len(key) \/ word[i] > key[i]) /\ Agree(word, key, i - 1)

LEMMA MinIsLeast ==
  ASSUME NEW T, T \subseteq Nat, T # {}
  PROVE  Min(T) \in T /\ \A n \in T : Min(T) <= n
<1>1. \E n \in T : \A m \in T : n <= m
  BY LeastNumber
<1> QED
  BY <1>1 DEF Min

LEMMA LettersAre ==
  ASSUME NEW word \in Seq(Nat)
  PROVE  Len(word) \in Nat /\ DOMAIN word = 1 .. Len(word) /\ \A i \in 1 .. Len(word) : word[i] \in Nat
  BY LenProperties, ElementOfSeq

LEMMA CompareCases ==
  ASSUME NEW word \in Seq(Nat), NEW key \in Seq(Nat)
  PROVE  \/ Compare(word, key) = 0 /\ Agree(word, key, Len(word))
         \/ Compare(word, key) = -1 /\ \E i : LessAt(word, key, i)
         \/ Compare(word, key) = 1 /\ \E i : MoreAt(word, key, i)
<1> DEFINE d == {i \in DOMAIN word : i > Len(key) \/ word[i] # key[i]}
           i == Min(d)
<1>1. /\ DOMAIN word = 1 .. Len(word) /\ Len(word) \in Nat /\ Len(key) \in Nat
      /\ \A j \in 1 .. Len(word) : word[j] \in Nat
      /\ \A j \in 1 .. Len(key) : key[j] \in Nat
  BY LettersAre
<1>2. Compare(word, key) = IF d = {} THEN 0 ELSE IF i <= Len(key) /\ word[i] < key[i] THEN -1 ELSE 1
  BY DEF Compare
<1>3. \A j : j \in d <=> j \in 1 .. Len(word) /\ (j > Len(key) \/ word[j] # key[j])
  BY <1>1
<1>4. d \subseteq Nat
  BY <1>1
<1> HIDE DEF d
<1>5. d # {} => i \in d /\ \A j \in d : i <= j
  BY <1>4, MinIsLeast
<1> HIDE DEF i
<1>6. CASE d = {}
  <2>1. Agree(word, key, Len(word))
    BY <1>1, <1>3, <1>6 DEF Agree
  <2> QED
    BY <1>2, <1>6, <2>1
<1>7. CASE d # {}
  <2>1. i \in 1 .. Len(word) /\ (i > Len(key) \/ word[i] # key[i])
    BY <1>3, <1>5, <1>7
  <2>2. \A j \in d : i <= j
    BY <1>5, <1>7
  <2>3. Agree(word, key, i - 1)
    <3> SUFFICES ASSUME NEW j \in 1 .. i - 1 PROVE j <= Len(key) /\ word[j] = key[j]
      BY DEF Agree
    <3>1. j \in 1 .. Len(word) /\ ~(i <= j) /\ j \in Nat
      BY <1>1, <2>1
    <3>2. j \notin d
      BY <2>2, <3>1
    <3> QED
      BY <1>1, <1>3, <3>1, <3>2
  <2>4. CASE i <= Len(key) /\ word[i] < key[i]
    <3>1. LessAt(word, key, i)
      BY <2>1, <2>3, <2>4 DEF LessAt
    <3> QED
      BY <1>2, <1>7, <2>4, <3>1
  <2>5. CASE ~(i <= Len(key) /\ word[i] < key[i])
    <3>1. i > Len(key) \/ word[i] > key[i]
      BY <1>1, <2>1, <2>5
    <3>2. MoreAt(word, key, i)
      BY <2>1, <2>3, <3>1 DEF MoreAt
    <3> QED
      BY <1>2, <1>7, <2>5, <3>2
  <2> QED
    BY <2>4, <2>5
<1> QED
  BY <1>6, <1>7

(* There is but one first place. *)
LEMMA OneDecides ==
  ASSUME NEW word \in Seq(Nat), NEW key \in Seq(Nat), NEW i, NEW j
  PROVE  /\ ~(LessAt(word, key, i) /\ MoreAt(word, key, j))
         /\ ~(LessAt(word, key, i) /\ Agree(word, key, Len(word)))
         /\ ~(MoreAt(word, key, i) /\ Agree(word, key, Len(word)))
<1>1. /\ Len(word) \in Nat /\ Len(key) \in Nat
      /\ \A k \in 1 .. Len(word) : word[k] \in Nat
      /\ \A k \in 1 .. Len(key) : key[k] \in Nat
  BY LettersAre
<1>2. ASSUME LessAt(word, key, i), MoreAt(word, key, j) PROVE FALSE
  <2>1. i \in 1 .. Len(word) /\ i \in 1 .. Len(key) /\ word[i] < key[i] /\ j \in 1 .. Len(word)
    BY <1>1, <1>2 DEF LessAt, MoreAt
  <2>2. ~(i < j)
    BY <1>1, <1>2, <2>1 DEF MoreAt, Agree
  <2>3. ~(j < i)
    BY <1>1, <1>2, <2>1 DEF LessAt, MoreAt, Agree
  <2>4. i = j
    BY <1>1, <2>1, <2>2, <2>3
  <2> QED
    BY <1>1, <1>2, <2>1, <2>4 DEF MoreAt
<1>3. ASSUME LessAt(word, key, i), Agree(word, key, Len(word)) PROVE FALSE
  <2>1. i \in 1 .. Len(word) /\ i \in 1 .. Len(key) /\ word[i] < key[i]
    BY <1>1, <1>3 DEF LessAt
  <2> QED
    BY <1>1, <1>3, <2>1 DEF Agree
<1>4. ASSUME MoreAt(word, key, i), Agree(word, key, Len(word)) PROVE FALSE
  <2>1. i \in 1 .. Len(word) /\ (i > Len(key) \/ word[i] > key[i])
    BY <1>4 DEF MoreAt
  <2>2. i <= Len(key) /\ word[i] = key[i]
    BY <1>4, <2>1 DEF Agree
  <2> QED
    BY <1>1, <2>1, <2>2
<1> QED
  BY <1>2, <1>3, <1>4

LEMMA CompareRange ==
  ASSUME NEW word \in Seq(Nat), NEW key \in Seq(Nat)
  PROVE  Compare(word, key) \in {-1, 0, 1}
  BY CompareCases

LEMMA LessMeans ==
  ASSUME NEW word \in Seq(Nat), NEW key \in Seq(Nat)
  PROVE  Compare(word, key) < 0 <=> \E i : LessAt(word, key, i)
<1>1. ASSUME NEW i, LessAt(word, key, i) PROVE Compare(word, key) = -1
  BY <1>1, CompareCases, OneDecides
<1>2. ASSUME Compare(word, key) < 0 PROVE \E i : LessAt(word, key, i)
  <2>1. Compare(word, key) # 0 /\ Compare(word, key) # 1
    BY <1>2, CompareRange
  <2> QED
    BY <2>1, CompareCases
<1> QED
  BY <1>1, <1>2

LEMMA MoreMeans ==
  ASSUME NEW word \in Seq(Nat), NEW key \in Seq(Nat)
  PROVE  Compare(word, key) > 0 <=> \E i : MoreAt(word, key, i)
<1>1. ASSUME NEW i, MoreAt(word, key, i) PROVE Compare(word, key) = 1
  BY <1>1, CompareCases, OneDecides
<1>2. ASSUME Compare(word, key) > 0 PROVE \E i : MoreAt(word, key, i)
  <2>1. Compare(word, key) # 0 /\ Compare(word, key) # -1
    BY <1>2, CompareRange
  <2> QED
    BY <2>1, CompareCases
<1> QED
  BY <1>1, <1>2

LEMMA SameMeans ==
  ASSUME NEW word \in Seq(Nat), NEW key \in Seq(Nat)
  PROVE  Compare(word, key) = 0 <=> Agree(word, key, Len(word))
<1>1. ASSUME Agree(word, key, Len(word)) PROVE Compare(word, key) = 0
  BY <1>1, CompareCases, OneDecides
<1>2. ASSUME Compare(word, key) = 0 PROVE Agree(word, key, Len(word))
  <2>1. Compare(word, key) # 1 /\ Compare(word, key) # -1
    BY <1>2
  <2> QED
    BY <2>1, CompareCases
<1> QED
  BY <1>1, <1>2

(* Agreement goes on to a keyword that agrees with it as far. *)
LEMMA AgreeOn ==
  ASSUME NEW word, NEW a, NEW b, NEW n \in Int, NEW m \in Int, m <= n, Agree(a, b, n), Agree(word, a, m)
  PROVE  Agree(word, b, m)
  BY DEF Agree

LEMMA AgreeBack ==
  ASSUME NEW word, NEW a \in Seq(Nat), NEW b, NEW n \in Int, NEW m \in Int, m <= n, n <= Len(a),
         Agree(a, b, n), Agree(word, b, m)
  PROVE  Agree(word, a, m)
<1>1. Len(a) \in Nat
  BY LenProperties
<1> QED
  BY <1>1 DEF Agree

(* Where the letters are the same, the one after them decides.             *)
LEMMA LessGoesOn ==
  ASSUME NEW word \in Seq(Nat), NEW a \in Seq(Nat), NEW b \in Seq(Nat),
         Compare(a, b) <= 0, Compare(word, a) < 0
  PROVE  Compare(word, b) < 0
<1>1. PICK i : LessAt(word, a, i)
  BY LessMeans
<1>2. /\ Len(word) \in Nat /\ Len(a) \in Nat /\ Len(b) \in Nat
      /\ \A j \in 1 .. Len(word) : word[j] \in Nat
      /\ \A j \in 1 .. Len(a) : a[j] \in Nat
      /\ \A j \in 1 .. Len(b) : b[j] \in Nat
  BY LettersAre
<1>3. i \in 1 .. Len(word) /\ i \in 1 .. Len(a) /\ word[i] < a[i] /\ Agree(word, a, i - 1)
  BY <1>1, <1>2 DEF LessAt
<1>4. ASSUME NEW j, LessAt(word, b, j) PROVE Compare(word, b) < 0
  BY <1>4, LessMeans
<1>5. CASE Compare(a, b) = 0
  <2>1. Agree(a, b, Len(a))
    BY <1>5, SameMeans
  <2>2. Agree(word, b, i - 1)
    BY <1>2, <1>3, <2>1, AgreeOn
  <2>3. i <= Len(b) /\ word[i] < b[i]
    BY <1>3, <2>1 DEF Agree
  <2> QED
    BY <1>3, <1>4, <2>2, <2>3 DEF LessAt
<1>6. CASE Compare(a, b) # 0
  <2>0. Compare(a, b) < 0
    BY <1>6, CompareRange
  <2>1. PICK e : LessAt(a, b, e)
    BY <2>0, LessMeans
  <2>2. e \in 1 .. Len(a) /\ e \in 1 .. Len(b) /\ a[e] < b[e] /\ Agree(a, b, e - 1)
    BY <1>2, <2>1 DEF LessAt
  <2>3. CASE e < i
    <3>1. e \in 1 .. Len(word) /\ word[e] = a[e]
      BY <1>2, <1>3, <2>2, <2>3 DEF Agree
    <3>2. Agree(word, a, e - 1)
      BY <1>2, <1>3, <2>2, <2>3, SMTT(30) DEF Agree
    <3>3. Agree(word, b, e - 1)
      BY <1>2, <2>2, <3>2, AgreeOn
    <3>4. e <= Len(b) /\ word[e] < b[e]
      BY <1>2, <2>2, <3>1
    <3>5. LessAt(word, b, e)
      BY <3>1, <3>3, <3>4 DEF LessAt
    <3> QED
      BY <1>4, <3>5
  <2>4. CASE e = i
    <3>1. word[i] < b[i]
      BY <1>2, <1>3, <2>2, <2>4
    <3>2. Agree(word, b, i - 1)
      BY <1>2, <1>3, <2>2, <2>4, AgreeOn
    <3>3. i <= Len(b)
      BY <1>2, <2>2, <2>4
    <3>4. LessAt(word, b, i)
      BY <1>3, <3>1, <3>2, <3>3 DEF LessAt
    <3> QED
      BY <1>4, <3>4
  <2>5. CASE i < e
    <3>1. i <= Len(b) /\ word[i] < b[i]
      BY <1>2, <1>3, <2>2, <2>5 DEF Agree
    <3>2. Agree(word, b, i - 1)
      <4>1. i - 1 \in Int /\ e - 1 \in Int /\ i - 1 <= e - 1
        BY <1>2, <1>3, <2>2, <2>5
      <4> QED
        BY <1>3, <2>2, <4>1, AgreeOn
    <3> QED
      BY <1>3, <1>4, <3>1, <3>2 DEF LessAt
  <2> QED
    BY <1>2, <1>3, <2>2, <2>3, <2>4, <2>5
<1> QED
  BY <1>5, <1>6

LEMMA MoreGoesBack ==
  ASSUME NEW word \in Seq(Nat), NEW a \in Seq(Nat), NEW b \in Seq(Nat),
         Compare(a, b) <= 0, Compare(word, b) > 0
  PROVE  Compare(word, a) > 0
<1>1. PICK i : MoreAt(word, b, i)
  BY MoreMeans
<1>2. /\ Len(word) \in Nat /\ Len(a) \in Nat /\ Len(b) \in Nat
      /\ \A j \in 1 .. Len(word) : word[j] \in Nat
      /\ \A j \in 1 .. Len(a) : a[j] \in Nat
      /\ \A j \in 1 .. Len(b) : b[j] \in Nat
  BY LettersAre
<1>3. i \in 1 .. Len(word) /\ (i > Len(b) \/ word[i] > b[i]) /\ Agree(word, b, i - 1)
  BY <1>1 DEF MoreAt
<1>4. ASSUME NEW j, MoreAt(word, a, j) PROVE Compare(word, a) > 0
  BY <1>4, MoreMeans
<1>5. CASE Compare(a, b) = 0
  <2>1. Agree(a, b, Len(a))
    BY <1>5, SameMeans
  <2>2. CASE i <= Len(a)
    <3>1. i <= Len(b) /\ a[i] = b[i]
      BY <1>2, <1>3, <2>1, <2>2 DEF Agree
    <3>2. i > Len(a) \/ word[i] > a[i]
      BY <1>2, <1>3, <3>1
    <3>3. i - 1 \in Int /\ i - 1 <= Len(a)
      BY <1>2, <1>3, <2>2
    <3>4. Agree(word, a, i - 1)
      BY <1>2, <1>3, <2>1, <3>3, AgreeBack
    <3> QED
      BY <1>3, <1>4, <3>2, <3>4 DEF MoreAt
  <2>3. CASE i > Len(a)
    <3> DEFINE j == Len(a) + 1
    <3>1. j \in 1 .. Len(word) /\ j > Len(a) /\ j - 1 = Len(a) /\ Len(a) <= i - 1
      BY <1>2, <1>3, <2>3
    <3>2. Agree(word, b, Len(a))
      BY <1>2, <1>3, <2>3 DEF Agree
    <3>3. Agree(word, a, Len(a))
      BY <1>2, <2>1, <3>2, AgreeBack
    <3> HIDE DEF j
    <3>4. MoreAt(word, a, j)
      BY <3>1, <3>3 DEF MoreAt
    <3> QED
      BY <1>4, <3>4
  <2> QED
    BY <1>2, <1>3, <2>2, <2>3
<1>6. CASE Compare(a, b) # 0
  <2>0. Compare(a, b) < 0
    BY <1>6, CompareRange
  <2>1. PICK e : LessAt(a, b, e)
    BY <2>0, LessMeans
  <2>2. e \in 1 .. Len(a) /\ e \in 1 .. Len(b) /\ a[e] < b[e] /\ Agree(a, b, e - 1)
    BY <1>2, <2>1 DEF LessAt
  <2>3. CASE i < e
    <3>1. i <= Len(b) /\ a[i] = b[i]
      BY <1>2, <1>3, <2>2, <2>3 DEF Agree
    <3>2. word[i] > a[i]
      BY <1>2, <1>3, <3>1
    <3>3. /\ i - 1 \in Int /\ e - 1 \in Int
          /\ i - 1 <= e - 1 /\ e - 1 <= Len(a)
      BY <1>2, <1>3, <2>2, <2>3
    <3>4. Agree(word, a, i - 1)
      BY <1>3, <2>2, <3>3, AgreeBack
    <3> QED
      BY <1>3, <1>4, <3>2, <3>4 DEF MoreAt
  <2>4. CASE i = e
    <3>1. word[i] > a[i]
      BY <1>2, <1>3, <2>2, <2>4
    <3>2. i - 1 \in Int /\ i - 1 <= Len(a) /\ Agree(a, b, i - 1)
      BY <1>2, <1>3, <2>2, <2>4
    <3>3. Agree(word, a, i - 1)
      BY <1>3, <3>2, AgreeBack
    <3> QED
      BY <1>3, <1>4, <3>1, <3>3 DEF MoreAt
  <2>5. CASE e < i
    <3>1. e \in 1 .. Len(word) /\ word[e] = b[e]
      BY <1>2, <1>3, <2>2, <2>5 DEF Agree
    <3>2. word[e] > a[e]
      BY <1>2, <2>2, <3>1
    <3>3. Agree(word, b, e - 1)
      BY <1>2, <1>3, <2>2, <2>5, SMTT(30) DEF Agree
    <3>4. e - 1 \in Int /\ e - 1 <= Len(a)
      BY <1>2, <2>2
    <3>5. Agree(word, a, e - 1)
      BY <2>2, <3>3, <3>4, AgreeBack
    <3> QED
      BY <1>4, <3>1, <3>2, <3>5 DEF MoreAt
  <2> QED
    BY <1>2, <1>3, <2>2, <2>3, <2>4, <2>5
<1> QED
  BY <1>5, <1>6

LEMMA PrefixMeans ==
  ASSUME NEW word \in Seq(Nat), NEW key \in Seq(Nat)
  PROVE  IsPrefix(word, key) <=> Compare(word, key) = 0
<1>1. Len(word) \in Nat /\ Len(key) \in Nat
  BY LenProperties
<1>2. SubSeq(word, 1, Len(word)) = word
  BY <1>1, SubSeqFull
<1>3. CASE Len(word) <= Len(key)
  <2> DEFINE sub == SubSeq(key, 1, Len(word))
  <2>1. sub \in Seq(Nat) /\ Len(sub) = Len(word) /\ \A i \in 1 .. Len(word) : sub[i] = key[i]
    BY <1>1, <1>3, SubSeqProperties
  <2>2. word = sub <=> \A i \in 1 .. Len(word) : word[i] = sub[i]
    BY <2>1, SeqEqual
  <2>3. IsPrefix(word, key) <=> word = sub
    BY <1>2, <1>3 DEF IsPrefix
  <2> HIDE DEF sub
  <2>4. Agree(word, key, Len(word)) <=> \A i \in 1 .. Len(word) : word[i] = sub[i]
    BY <1>1, <1>3, <2>1 DEF Agree
  <2> QED
    BY <2>2, <2>3, <2>4, SameMeans
<1>4. CASE ~(Len(word) <= Len(key))
  <2>1. Len(word) \in 1 .. Len(word) /\ ~Agree(word, key, Len(word))
    BY <1>1, <1>4 DEF Agree
  <2>2. Compare(word, key) # 0
    BY <2>1, SameMeans
  <2> QED
    BY <1>4, <2>2 DEF IsPrefix
<1> QED
  BY <1>3, <1>4

(* Along a sorted table a word is first greater, then within, then less.   *)
LEMMA LessToTheEnd ==
  ASSUME NEW list \in Seq(Seq(Nat)), NEW word \in Seq(Nat), Sorted(list),
         NEW i \in 1 .. Len(list), Compare(word, list[i]) < 0
  PROVE  \A j \in i .. Len(list) : Compare(word, list[j]) < 0
<1> DEFINE T == {n \in Nat : i + n <= Len(list) => Compare(word, list[i + n]) < 0}
<1>1. Len(list) \in Nat /\ \A j \in 1 .. Len(list) : list[j] \in Seq(Nat)
  BY LenProperties, ElementOfSeq
<1>2. 0 \in T
  BY <1>1
<1>3. ASSUME NEW n \in T PROVE n + 1 \in T
  <2>1. n \in Nat /\ (i + n <= Len(list) => Compare(word, list[i + n]) < 0)
    OBVIOUS
  <2>2. ASSUME i + (n + 1) <= Len(list) PROVE Compare(word, list[i + (n + 1)]) < 0
    <3> DEFINE k == i + n
    <3>1. k \in 1 .. Len(list) - 1 /\ k \in 1 .. Len(list) /\ k + 1 \in 1 .. Len(list) /\ k + 1 = i + (n + 1)
      BY <1>1, <2>1, <2>2
    <3>2. Compare(word, list[k]) < 0
      BY <2>1, <3>1
    <3> HIDE DEF k
    <3>3. Compare(list[k], list[k + 1]) <= 0 /\ list[k] \in Seq(Nat) /\ list[k + 1] \in Seq(Nat)
      BY <1>1, <3>1 DEF Sorted
    <3>4. Compare(word, list[k + 1]) < 0
      BY <3>2, <3>3, LessGoesOn
    <3> QED
      BY <3>1, <3>4
  <2> QED
    BY <2>1, <2>2
<1>4. T = Nat
  <2> HIDE DEF T
  <2>1. T \subseteq Nat
    BY DEF T
  <2> QED
    BY <1>2, <1>3, <2>1, EveryNumber
<1>5. ASSUME NEW j \in i .. Len(list) PROVE Compare(word, list[j]) < 0
  <2>1. j - i \in Nat /\ i + (j - i) = j /\ j <= Len(list)
    BY <1>1
  <2>2. j - i \in T
    BY <1>4, <2>1
  <2> QED
    BY <2>1, <2>2
<1> QED
  BY <1>5

LEMMA MoreFromTheStart ==
  ASSUME NEW list \in Seq(Seq(Nat)), NEW word \in Seq(Nat), Sorted(list),
         NEW i \in 1 .. Len(list), Compare(word, list[i]) > 0
  PROVE  \A j \in 1 .. i : Compare(word, list[j]) > 0
<1> DEFINE T == {n \in Nat : i - n >= 1 => Compare(word, list[i - n]) > 0}
<1>1. Len(list) \in Nat /\ \A j \in 1 .. Len(list) : list[j] \in Seq(Nat)
  BY LenProperties, ElementOfSeq
<1>2. 0 \in T
  BY <1>1
<1>3. ASSUME NEW n \in T PROVE n + 1 \in T
  <2>1. n \in Nat /\ (i - n >= 1 => Compare(word, list[i - n]) > 0)
    OBVIOUS
  <2>2. ASSUME i - (n + 1) >= 1 PROVE Compare(word, list[i - (n + 1)]) > 0
    <3> DEFINE k == i - (n + 1)
    <3>1. k \in 1 .. Len(list) - 1 /\ k \in 1 .. Len(list) /\ k + 1 \in 1 .. Len(list) /\ k + 1 = i - n /\ i - n >= 1
      BY <1>1, <2>1, <2>2
    <3>2. Compare(word, list[i - n]) > 0
      BY <2>1, <3>1
    <3> HIDE DEF k
    <3>3. Compare(list[k], list[k + 1]) <= 0 /\ list[k] \in Seq(Nat) /\ list[k + 1] \in Seq(Nat)
      BY <1>1, <3>1 DEF Sorted
    <3>5. Compare(word, list[k + 1]) > 0
      BY <3>1, <3>2
    <3>4. Compare(word, list[k]) > 0
      BY <3>5, <3>3, MoreGoesBack
    <3> QED
      BY <3>4 DEF k
  <2> QED
    BY <2>1, <2>2
<1>4. T = Nat
  <2> HIDE DEF T
  <2>1. T \subseteq Nat
    BY DEF T
  <2> QED
    BY <1>2, <1>3, <2>1, EveryNumber
<1>5. ASSUME NEW j \in 1 .. i PROVE Compare(word, list[j]) > 0
  <2>1. i - j \in Nat /\ i - (i - j) = j /\ j >= 1
    BY <1>1
  <2>2. i - j \in T
    BY <1>4, <2>1
  <2> QED
    BY <2>1, <2>2
<1> QED
  BY <1>5

(* The spans of a table, and one look into one of them. *)
Spans(list) == [bot : 0 .. Len(list), top : -1 .. Len(list) - 1]
HalfAfter(r) == [bot |-> Mid(r.bot, r.top) + 1, top |-> r.top]
HalfBefore(r) == [bot |-> r.bot, top |-> Mid(r.bot, r.top) - 1]
OneLook(list, word, seek, r) ==
  LET chk == Compare(word, list[Mid(r.bot, r.top) + 1])
  IN IF chk = 0 THEN Mid(r.bot, r.top)
     ELSE IF Last_look(r.bot, r.top) THEN -1
     ELSE IF chk > 0 THEN seek[HalfAfter(r)] ELSE seek[HalfBefore(r)]
Searches(list, word, seek) == seek = [r \in Spans(list) |-> OneLook(list, word, seek, r)]

(* A look that is not the last goes to a smaller span. *)
LEMMA Halved ==
  ASSUME NEW list, Len(list) \in Nat, NEW r \in Spans(list), ~Last_look(r.bot, r.top)
  PROVE  /\ Mid(r.bot, r.top) \in Nat /\ r.bot <= Mid(r.bot, r.top) /\ Mid(r.bot, r.top) < r.top
         /\ HalfAfter(r) \in Spans(list) /\ HalfBefore(r) \in Spans(list)
         /\ HalfAfter(r).top - HalfAfter(r).bot < r.top - r.bot
         /\ HalfBefore(r).top - HalfBefore(r).bot < r.top - r.bot
<1>1. r.bot \in 0 .. Len(list) /\ r.top \in -1 .. Len(list) - 1 /\ r.bot < r.top
  BY DEF Spans, Last_look
<1> DEFINE mid == Mid(r.bot, r.top)
<1>2. mid = (r.bot + r.top) \div 2
  BY <1>1 DEF Mid
<1>3. mid \in Nat /\ r.bot <= mid /\ mid < r.top
  BY <1>1, <1>2
<1> HIDE DEF mid
<1>4. mid + 1 \in 0 .. Len(list) /\ mid - 1 \in -1 .. Len(list) - 1
  BY <1>1, <1>3
<1>5. HalfAfter(r) = [bot |-> mid + 1, top |-> r.top] /\ HalfBefore(r) = [bot |-> r.bot, top |-> mid - 1]
  BY DEF HalfAfter, HalfBefore, mid
<1> QED
  BY <1>1, <1>3, <1>4, <1>5 DEF Spans, mid

LEMMA LooksSame ==
  ASSUME NEW list, Len(list) \in Nat, NEW word, NEW r \in Spans(list), NEW g, NEW h,
         \A s \in Spans(list) : s.top - s.bot < r.top - r.bot => g[s] = h[s]
  PROVE  OneLook(list, word, g, r) = OneLook(list, word, h, r)
<1>1. ~Last_look(r.bot, r.top) => g[HalfAfter(r)] = h[HalfAfter(r)] /\ g[HalfBefore(r)] = h[HalfBefore(r)]
  BY Halved
<1> QED
  BY <1>1 DEF OneLook

(* The search ends, in a table of its results: grown by the size of spans. *)
LEMMA SearchesExist ==
  ASSUME NEW list, Len(list) \in Nat, NEW word
  PROVE  \E seek : Searches(list, word, seek)
<1> DEFINE Good(g, n) == \A r \in Spans(list) : r.top - r.bot <= n => g[r] = OneLook(list, word, g, r)
           Upto == {n \in Nat : \E g : g = [r \in Spans(list) |-> g[r]] /\ Good(g, n)}
<1>0. \A r \in Spans(list) : r.top - r.bot \in Int /\ r.top - r.bot <= Len(list)
  BY DEF Spans
<1>a. ASSUME NEW n \in Nat \cup {-1}, NEW g, g = [r \in Spans(list) |-> g[r]], Good(g, n)
      PROVE  \E h : h = [r \in Spans(list) |-> h[r]] /\ Good(h, n + 1)
  <2> DEFINE h == [r \in Spans(list) |-> IF r.top - r.bot <= n THEN g[r] ELSE OneLook(list, word, g, r)]
  <2>1. \A r \in Spans(list) : h[r] = OneLook(list, word, g, r)
    BY <1>a
  <2>2. \A s \in Spans(list) : s.top - s.bot <= n => g[s] = h[s]
    OBVIOUS
  <2>3. h = [r \in Spans(list) |-> h[r]]
    OBVIOUS
  <2> HIDE DEF h
  <2>4. ASSUME NEW r \in Spans(list), r.top - r.bot <= n + 1 PROVE h[r] = OneLook(list, word, h, r)
    <3>1. \A s \in Spans(list) : s.top - s.bot < r.top - r.bot => g[s] = h[s]
      BY <1>0, <2>2, <2>4
    <3>2. OneLook(list, word, g, r) = OneLook(list, word, h, r)
      BY <3>1, LooksSame
    <3> QED
      BY <2>1, <3>2
  <2>5. Good(h, n + 1)
    BY <2>4
  <2> HIDE DEF Good
  <2> QED
    BY <2>3, <2>5
<1>1. 0 \in Upto
  <2> DEFINE g == [r \in Spans(list) |-> IF Compare(word, list[Mid(r.bot, r.top) + 1]) = 0
                                         THEN Mid(r.bot, r.top) ELSE -1]
  <2>1. Good(g, 0)
    BY <1>0 DEF OneLook, Last_look, Spans
  <2>2. g = [r \in Spans(list) |-> g[r]]
    OBVIOUS
  <2> HIDE DEF g, Good
  <2> QED
    BY <2>1, <2>2
<1>2. ASSUME NEW n \in Upto PROVE n + 1 \in Upto
  <2>1. n \in Nat
    OBVIOUS
  <2>2. PICK g : g = [r \in Spans(list) |-> g[r]] /\ Good(g, n)
    OBVIOUS
  <2> HIDE DEF Good
  <2>3. \E h : h = [r \in Spans(list) |-> h[r]] /\ Good(h, n + 1)
    BY <1>a, <2>1, <2>2
  <2> QED
    BY <2>1, <2>3
<1>3. Upto = Nat
  <2> HIDE DEF Upto
  <2>1. Upto \subseteq Nat
    BY DEF Upto
  <2> QED
    BY <1>1, <1>2, <2>1, EveryNumber
<1>4. Len(list) \in Upto
  BY <1>3
<1>5. PICK g : g = [r \in Spans(list) |-> g[r]] /\ Good(g, Len(list))
  BY <1>4
<1>6. \A r \in Spans(list) : g[r] = OneLook(list, word, g, r)
  BY <1>0, <1>5
<1>7. Searches(list, word, g)
  BY <1>5, <1>6 DEF Searches
<1> QED
  BY <1>7

LEMMA SearchTable ==
  ASSUME NEW list, Len(list) \in Nat, NEW word
  PROVE  \E seek : Searches(list, word, seek) /\ Search(list, word) = seek[[bot |-> 0, top |-> Len(list) - 1]]
<1> DEFINE seek == CHOOSE seek : Searches(list, word, seek)
<1>1. Searches(list, word, seek)
  <2>1. \E t : Searches(list, word, t)
    BY SearchesExist
  <2> QED
    BY <2>1
<1>2. Search(list, word) = seek[[bot |-> 0, top |-> Len(list) - 1]]
  BY Zenon DEF Search, Searches, Spans, OneLook, HalfAfter, HalfBefore
<1> QED
  BY <1>1, <1>2

(* What the search comes to in a span: no entry of it, or an entry.        *)
Answers(list, word, at, r) ==
  \/ at = -1 /\ \A k \in r.bot + 1 .. r.top + 1 : Compare(word, list[k]) # 0
  \/ at + 1 \in 1 .. Len(list) /\ Compare(word, list[at + 1]) = 0
Proper(list, r) == r \in Spans(list) /\ r.bot <= r.top + 1

LEMMA LookAnswers ==
  ASSUME NEW list \in Seq(Seq(Nat)), Len(list) >= 1, Sorted(list), NEW word \in Seq(Nat),
         NEW seek, NEW r, Proper(list, r),
         \A s : Proper(list, s) /\ s.top - s.bot < r.top - r.bot => Answers(list, word, seek[s], s)
  PROVE  Answers(list, word, OneLook(list, word, seek, r), r)
<1> DEFINE mid == Mid(r.bot, r.top)
           chk == Compare(word, list[mid + 1])
<1>1. Len(list) \in Nat /\ \A k \in 1 .. Len(list) : list[k] \in Seq(Nat)
  BY LenProperties, ElementOfSeq
<1>2. r \in Spans(list) /\ r.bot \in 0 .. Len(list) /\ r.top \in -1 .. Len(list) - 1 /\ r.bot <= r.top + 1
  BY DEF Proper, Spans
<1>3. mid + 1 \in 1 .. Len(list)
  <2>1. CASE r.bot + r.top < 0
    BY <1>1, <2>1 DEF Mid
  <2>2. CASE ~(r.bot + r.top < 0)
    <3>1. mid = (r.bot + r.top) \div 2
      BY <2>2 DEF Mid
    <3>2. mid \in Nat /\ mid <= r.top
      BY <1>2, <2>2, <3>1
    <3> HIDE DEF mid
    <3> QED
      BY <1>1, <1>2, <3>2
  <2> QED
    BY <2>1, <2>2
<1>4. list[mid + 1] \in Seq(Nat)
  BY <1>1, <1>3
<1>5. chk \in {-1, 0, 1}
  BY <1>4, CompareRange
<1>6. OneLook(list, word, seek, r) =
        IF chk = 0 THEN mid
        ELSE IF Last_look(r.bot, r.top) THEN -1
        ELSE IF chk > 0 THEN seek[HalfAfter(r)] ELSE seek[HalfBefore(r)]
  BY DEF OneLook
<1>7. CASE chk = 0
  <2>1. OneLook(list, word, seek, r) = mid
    BY <1>6, <1>7
  <2> HIDE DEF mid
  <2> QED
    BY <1>3, <1>7, <2>1 DEF Answers
<1>8. CASE chk # 0 /\ Last_look(r.bot, r.top)
  <2>1. OneLook(list, word, seek, r) = -1
    BY <1>6, <1>8
  <2>2. ASSUME NEW k \in r.bot + 1 .. r.top + 1 PROVE Compare(word, list[k]) # 0
    <3>1. r.bot = r.top /\ k = r.top + 1 /\ r.top \in Nat
      BY <1>2, <1>8 DEF Last_look
    <3>2. mid = r.top
      BY <3>1 DEF Mid
    <3> QED
      BY <1>8, <3>1, <3>2
  <2> QED
    BY <2>1, <2>2 DEF Answers
<1>9. CASE ~Last_look(r.bot, r.top)
  <2>0. /\ mid \in Nat /\ r.bot <= mid /\ mid < r.top
        /\ HalfAfter(r) \in Spans(list) /\ HalfBefore(r) \in Spans(list)
        /\ HalfAfter(r).top - HalfAfter(r).bot < r.top - r.bot
        /\ HalfBefore(r).top - HalfBefore(r).bot < r.top - r.bot
    BY <1>1, <1>2, <1>9, Halved
  <2>1. CASE chk > 0
    <3>1. HalfAfter(r).bot = mid + 1 /\ HalfAfter(r).top = r.top
      BY DEF HalfAfter
    <3>2. OneLook(list, word, seek, r) = seek[HalfAfter(r)]
      BY <1>6, <1>9, <2>1
    <3>3. \A j \in 1 .. mid + 1 : Compare(word, list[j]) > 0
      BY <1>3, <2>1, MoreFromTheStart
    <3> HIDE DEF mid
    <3>4. Proper(list, HalfAfter(r))
      BY <1>2, <2>0, <3>1 DEF Proper
    <3>5. Answers(list, word, seek[HalfAfter(r)], HalfAfter(r))
      BY <2>0, <3>4
    <3>6. \A k \in r.bot + 1 .. r.top + 1 : k \in 1 .. mid + 1 \/ k \in mid + 2 .. r.top + 1
      BY <1>2, <2>0
    <3>7. \A k \in 1 .. mid + 1 : Compare(word, list[k]) # 0
      BY <3>3
    <3>8. mid + 1 + 1 = mid + 2
      BY <2>0
    <3> QED
      BY <3>1, <3>2, <3>5, <3>6, <3>7, <3>8 DEF Answers
  <2>2. CASE chk < 0
    <3>1. HalfBefore(r).top = mid - 1 /\ HalfBefore(r).bot = r.bot
      BY DEF HalfBefore
    <3>0. chk # 0 /\ ~(chk > 0)
      BY <1>5, <2>2
    <3>2. OneLook(list, word, seek, r) = seek[HalfBefore(r)]
      BY <1>6, <1>9, <3>0
    <3>3. \A j \in mid + 1 .. Len(list) : Compare(word, list[j]) < 0
      BY <1>3, <2>2, LessToTheEnd
    <3> HIDE DEF mid
    <3>4. Proper(list, HalfBefore(r))
      BY <1>2, <2>0, <3>1 DEF Proper
    <3>5. Answers(list, word, seek[HalfBefore(r)], HalfBefore(r))
      BY <2>0, <3>4
    <3>6. \A k \in r.bot + 1 .. r.top + 1 : k \in mid + 1 .. Len(list) \/ k \in r.bot + 1 .. mid
      BY <1>1, <1>2, <2>0
    <3>7. \A k \in mid + 1 .. Len(list) : Compare(word, list[k]) # 0
      BY <3>3
    <3>8. mid - 1 + 1 = mid
      BY <2>0
    <3> QED
      BY <3>1, <3>2, <3>5, <3>6, <3>7, <3>8 DEF Answers
  <2>3. CASE chk = 0
    BY <1>7, <2>3
  <2> QED
    BY <1>5, <2>1, <2>2, <2>3
<1> QED
  BY <1>7, <1>8, <1>9

LEMMA SearchAnswers ==
  ASSUME NEW list \in Seq(Seq(Nat)), Len(list) >= 1, Sorted(list), NEW word \in Seq(Nat),
         NEW seek, Searches(list, word, seek)
  PROVE  \A r : Proper(list, r) => Answers(list, word, seek[r], r)
<1> DEFINE T == {n \in Nat : \A r : Proper(list, r) /\ r.top - r.bot + 1 < n => Answers(list, word, seek[r], r)}
<1>0. Len(list) \in Nat
  BY LenProperties
<1>1. \A r : Proper(list, r) => r.top - r.bot + 1 \in Nat /\ r.top - r.bot \in Int /\ r \in Spans(list)
  BY <1>0 DEF Proper, Spans
<1>2. 0 \in T
  BY <1>1
<1>3. ASSUME NEW n \in T PROVE n + 1 \in T
  <2>1. n \in Nat /\ \A r : Proper(list, r) /\ r.top - r.bot + 1 < n => Answers(list, word, seek[r], r)
    OBVIOUS
  <2>2. ASSUME NEW r, Proper(list, r), r.top - r.bot + 1 < n + 1 PROVE Answers(list, word, seek[r], r)
    <3>1. \A s : Proper(list, s) /\ s.top - s.bot < r.top - r.bot => Answers(list, word, seek[s], s)
      <4>1. ASSUME NEW s, Proper(list, s), s.top - s.bot < r.top - r.bot PROVE s.top - s.bot + 1 < n
        BY <1>1, <2>1, <2>2, <4>1
      <4> QED
        BY <2>1, <4>1
    <3>2. Answers(list, word, OneLook(list, word, seek, r), r)
      BY <2>2, <3>1, LookAnswers
    <3>3. seek[r] = OneLook(list, word, seek, r)
      BY <1>1, <2>2 DEF Searches
    <3> QED
      BY <3>2, <3>3
  <2> QED
    BY <2>1, <2>2
<1>4. T = Nat
  <2> HIDE DEF T
  <2>1. T \subseteq Nat
    BY DEF T
  <2> QED
    BY <1>2, <1>3, <2>1, EveryNumber
<1>5. ASSUME NEW r, Proper(list, r) PROVE Answers(list, word, seek[r], r)
  <2> DEFINE n == r.top - r.bot + 1
  <2>1. n \in Nat /\ n < n + 1 /\ n + 1 \in Nat
    BY <1>1, <1>5
  <2>2. n + 1 \in T
    BY <1>4, <2>1
  <2> QED
    BY <1>5, <2>1, <2>2
<1> QED
  BY <1>5

(* The search of do_help finds an entry, of those the word begins, if there *)
(* is one.                                                                 *)
LEMMA SearchFinds ==
  ASSUME NEW list \in build_help_index, NEW word \in Words
  PROVE  /\ Search(list, word) = -1 => ~\E k \in DOMAIN list : IsPrefix(word, list[k])
         /\ Search(list, word) # -1 => /\ Search(list, word) + 1 \in DOMAIN list
                                       /\ IsPrefix(word, list[Search(list, word) + 1])
<1>1. PICK n \in 1 .. MaxHelp : list \in [1 .. n -> Words] /\ Sorted(list)
  BY DEF build_help_index
<1>2. n \in Nat /\ n >= 1 /\ word \in Seq(Nat) /\ Words \subseteq Seq(Nat)
  BY PagerAssumption
<1>3. list \in [1 .. n -> Seq(Nat)]
  BY <1>1, <1>2
<1>4. list \in Seq(Seq(Nat)) /\ Len(list) = n /\ DOMAIN list = 1 .. n
  <2>1. list \in Seq(Seq(Nat))
    BY <1>2, <1>3, SeqDef
  <2>2. DOMAIN list = 1 .. Len(list) /\ Len(list) \in Nat
    BY <2>1, LenProperties
  <2> QED
    BY <1>2, <1>3, <2>1, <2>2
<1>5. PICK seek : Searches(list, word, seek) /\ Search(list, word) = seek[[bot |-> 0, top |-> Len(list) - 1]]
  BY <1>2, <1>4, SearchTable
<1> DEFINE r == [bot |-> 0, top |-> Len(list) - 1]
           at == Search(list, word)
<1>6. Proper(list, r) /\ r.bot = 0 /\ r.top = n - 1
  BY <1>2, <1>4 DEF Proper, Spans
<1>7. at = seek[r]
  BY <1>5
<1> HIDE DEF r, at
<1>8. Answers(list, word, at, r)
  BY <1>1, <1>2, <1>4, <1>5, <1>6, <1>7, SearchAnswers
<1>9. \A k \in 1 .. n : IsPrefix(word, list[k]) <=> Compare(word, list[k]) = 0
  <2>1. \A k \in 1 .. n : list[k] \in Seq(Nat)
    BY <1>3
  <2> QED
    BY <1>2, <2>1, PrefixMeans
<1>10. r.bot + 1 = 1 /\ r.top + 1 = n
  BY <1>2, <1>6
<1>11. CASE at = -1
  <2>1. ~(at + 1 \in 1 .. Len(list))
    BY <1>11
  <2> QED
    BY <1>4, <1>8, <1>9, <1>10, <1>11, <2>1 DEF Answers, at
<1>12. CASE at # -1
  <2>1. at + 1 \in 1 .. n /\ Compare(word, list[at + 1]) = 0
    BY <1>4, <1>8, <1>12 DEF Answers
  <2> QED
    BY <1>4, <1>9, <1>12, <2>1 DEF at
<1> QED
  BY <1>11, <1>12

-----------------------------------------------------------------------------
(* The pages: the units of a reader lie in the list with the newest first, *)
(* and whose flag is set has one; so the first of his name is the text he  *)
(* was shown last.                                                         *)

NewestFirst(u) == \A j, k \in 1 .. Len(u) : j < k /\ u[j].who = u[k].who => u[j].nr > u[k].nr
UnitsOK(u) ==
  /\ u \in Seq(PageUnit) /\ Len(u) <= MaxUnits
  /\ \A k \in 1 .. Len(u) : u[k].curr <= u[k].pages
  /\ NewestFirst(u)
HasUnit(u, p) == \E k \in 1 .. Len(u) : u[k].who = p

PageInv ==
  /\ UnitsOK(units)
  /\ here \in SUBSET Reader /\ page \in SUBSET here
  /\ screen \in [Reader -> Screens]
  /\ \A p \in page : HasUnit(units, p)
  /\ found \in {"nothing", "right"}

LEMMA MaxIsGreatest ==
  ASSUME NEW n \in Nat, NEW T, T \subseteq 0 .. n, T # {}
  PROVE  Max(T) \in T /\ \A m \in T : m <= Max(T)
<1> DEFINE R == {n - m : m \in T}
<1>1. R \subseteq Nat /\ R # {}
  <2>1. \A m \in T : m \in Nat /\ n - m \in Nat
    OBVIOUS
  <2>2. PICK m : m \in T
    OBVIOUS
  <2>3. n - m \in R
    BY <2>2
  <2> QED
    BY <2>1, <2>3
<1>2. PICK r \in R : \A q \in R : r <= q
  <2> HIDE DEF R
  <2> QED
    BY <1>1, LeastNumber
<1>3. PICK x \in T : r = n - x
  OBVIOUS
<1>4. \A m \in T : n - x <= n - m
  BY <1>2, <1>3
<1>5. \A m \in T : x >= m
  BY <1>4
<1>6. \E y \in T : \A m \in T : y >= m
  BY <1>5
<1>7. Max(T) \in T /\ \A m \in T : Max(T) >= m
  BY <1>6 DEF Max
<1> QED
  BY <1>7

(* A text has no more pages than lines. *)
LEMMA PagesOfLines ==
  ASSUME NEW lines \in Nat, lines >= 1, NEW s \in Nat, s >= 1
  PROVE  (lines + s - 1) \div s \in Nat /\ (lines + s - 1) \div s <= lines
<1> DEFINE q == (lines + s - 1) \div s
           r == (lines + s - 1) % s
<1>1. lines + s - 1 \in Nat
  OBVIOUS
<1>2. q \in Int /\ r \in 0 .. s - 1 /\ lines + s - 1 = s * q + r
  BY <1>1
<1> HIDE DEF q, r
<1>3. q >= 0
  BY <1>1, <1>2
<1>4. q <= lines
  <2> SUFFICES ASSUME q >= lines + 1 PROVE FALSE
    BY <1>2
  <2>1. s * q >= s * (lines + 1)
    BY <1>2
  <2>2. s * (lines + 1) = s * lines + s /\ s * lines >= lines
    OBVIOUS
  <2> QED
    BY <1>2, <2>1, <2>2
<1> QED
  BY <1>2, <1>3, <1>4 DEF q

LEMMA UnitNumbers ==
  ASSUME NEW u, UnitsOK(u)
  PROVE  /\ Len(u) \in Nat /\ DOMAIN u = 1 .. Len(u)
         /\ \A k \in 1 .. Len(u) : /\ u[k] \in PageUnit /\ u[k].who \in Reader
                                   /\ u[k].nr \in Nat /\ u[k].nr <= MaxUnits
                                   /\ u[k].curr \in Nat /\ u[k].pages \in Nat /\ u[k].curr >= 1
                                   /\ u[k].curr <= u[k].pages /\ u[k].pages <= MaxLines
<1>1. u \in Seq(PageUnit)
  BY DEF UnitsOK
<1>2. Len(u) \in Nat /\ DOMAIN u = 1 .. Len(u) /\ \A k \in 1 .. Len(u) : u[k] \in PageUnit
  BY <1>1, LenProperties, ElementOfSeq
<1>3. MaxLines \in Nat /\ MaxUnits \in Nat
  BY PagerAssumption
<1>4. ASSUME NEW k \in 1 .. Len(u)
      PROVE  /\ u[k] \in PageUnit /\ u[k].who \in Reader
             /\ u[k].nr \in Nat /\ u[k].nr <= MaxUnits
             /\ u[k].curr \in Nat /\ u[k].pages \in Nat /\ u[k].curr >= 1
             /\ u[k].curr <= u[k].pages /\ u[k].pages <= MaxLines
  <2>1. u[k] \in PageUnit /\ u[k].curr <= u[k].pages
    BY <1>2 DEF UnitsOK
  <2> QED
    BY <1>3, <2>1 DEF PageUnit
<1> QED
  BY <1>2, <1>4

(* The first unit of a reader. *)
LEMMA FirstUnit ==
  ASSUME UnitsOK(units), NEW p
  PROVE  /\ find_pageunit(p) = 0 <=> ~HasUnit(units, p)
         /\ find_pageunit(p) # 0 => /\ find_pageunit(p) \in 1 .. Len(units)
                                    /\ units[find_pageunit(p)].who = p
                                    /\ \A k \in His(p) : find_pageunit(p) <= k
<1>1. Len(units) \in Nat /\ DOMAIN units = 1 .. Len(units)
  BY UnitNumbers
<1>2. \A k : k \in His(p) <=> k \in 1 .. Len(units) /\ units[k].who = p
  BY <1>1 DEF His
<1>3. HasUnit(units, p) <=> His(p) # {}
  BY <1>2 DEF HasUnit
<1>4. ASSUME His(p) # {} PROVE Min(His(p)) \in His(p) /\ \A k \in His(p) : Min(His(p)) <= k
  BY <1>1, <1>2, <1>4, MinIsLeast
<1>5. CASE His(p) = {}
  BY <1>3, <1>5 DEF find_pageunit
<1>6. CASE His(p) # {}
  <2>1. find_pageunit(p) = Min(His(p))
    BY <1>6 DEF find_pageunit
  <2>2. find_pageunit(p) \in His(p) /\ \A k \in His(p) : find_pageunit(p) <= k
    BY <1>4, <1>6, <2>1
  <2>3. find_pageunit(p) \in 1 .. Len(units) /\ units[find_pageunit(p)].who = p
    BY <1>2, <2>2
  <2>4. find_pageunit(p) # 0
    BY <1>1, <2>3
  <2> QED
    BY <1>3, <1>6, <2>2, <2>3, <2>4
<1> QED
  BY <1>5, <1>6

LEMMA RemoveKeepsUnits ==
  ASSUME NEW u, UnitsOK(u), NEW k \in 1 .. Len(u)
  PROVE  /\ UnitsOK(RemoveAt(u, k))
         /\ \A q : q # u[k].who /\ HasUnit(u, q) => HasUnit(RemoveAt(u, k), q)
<1> DEFINE v == RemoveAt(u, k)
<1>1. u \in Seq(PageUnit) /\ Len(u) \in Nat /\ Len(u) <= MaxUnits
  BY UnitNumbers DEF UnitsOK
<1>2. /\ v \in Seq(PageUnit) /\ Len(v) = Len(u) - 1
      /\ \A i \in 1 .. Len(u) - 1 : v[i] = IF i < k THEN u[i] ELSE u[i + 1]
  BY <1>1, RemoveAtProperties
<1> HIDE DEF v
<1> DEFINE at(i) == IF i < k THEN i ELSE i + 1
<1>3. \A i \in 1 .. Len(v) : at(i) \in 1 .. Len(u) /\ v[i] = u[at(i)]
  BY <1>1, <1>2
<1>4. \A i \in 1 .. Len(v) : v[i].curr <= v[i].pages
  <2> SUFFICES ASSUME NEW i \in 1 .. Len(v) PROVE v[i].curr <= v[i].pages
    OBVIOUS
  <2>1. at(i) \in 1 .. Len(u) /\ v[i] = u[at(i)]
    BY <1>3
  <2> HIDE DEF at
  <2> QED
    BY <2>1 DEF UnitsOK
<1>5. NewestFirst(v)
  <2> SUFFICES ASSUME NEW i \in 1 .. Len(v), NEW j \in 1 .. Len(v), i < j, v[i].who = v[j].who
               PROVE  v[i].nr > v[j].nr
    BY DEF NewestFirst
  <2>1. NewestFirst(u)
    BY DEF UnitsOK
  <2>2. at(i) < at(j)
    BY <1>1, <1>2
  <2>3. /\ at(i) \in 1 .. Len(u) /\ v[i] = u[at(i)]
        /\ at(j) \in 1 .. Len(u) /\ v[j] = u[at(j)]
    BY <1>3
  <2> HIDE DEF at
  <2> QED
    BY <2>1, <2>2, <2>3 DEF NewestFirst
<1>6. ASSUME NEW q, q # u[k].who, HasUnit(u, q) PROVE HasUnit(v, q)
  <2>1. PICK a \in 1 .. Len(u) : u[a].who = q
    BY <1>6 DEF HasUnit
  <2>2. CASE a < k
    <3>1. a \in 1 .. Len(v) /\ v[a] = u[a]
      BY <1>1, <1>2, <2>2
    <3> QED
      BY <2>1, <3>1 DEF HasUnit
  <2>3. CASE a > k
    <3>1. a - 1 \in 1 .. Len(v) /\ v[a - 1] = u[a]
      BY <1>1, <1>2, <2>3
    <3> QED
      BY <2>1, <3>1 DEF HasUnit
  <2>4. a # k
    BY <1>6, <2>1
  <2> QED
    BY <1>1, <2>2, <2>3, <2>4
<1>7. Len(v) <= MaxUnits
  BY <1>1, <1>2, PagerAssumption
<1> QED
  BY <1>2, <1>4, <1>5, <1>6, <1>7 DEF UnitsOK, v

LEMMA AddKeepsUnits ==
  ASSUME NEW u, UnitsOK(u), Len(u) < MaxUnits, NEW e \in PageUnit, e.curr <= e.pages,
         \A k \in 1 .. Len(u) : u[k].who = e.who => u[k].nr < e.nr
  PROVE  /\ UnitsOK(<<e>> \o u) /\ HasUnit(<<e>> \o u, e.who)
         /\ \A q : HasUnit(u, q) => HasUnit(<<e>> \o u, q)
<1> DEFINE v == <<e>> \o u
<1>1. u \in Seq(PageUnit) /\ Len(u) \in Nat /\ \A k \in 1 .. Len(u) : u[k].nr \in Nat
  BY UnitNumbers DEF UnitsOK
<1>0. <<e>> \in Seq(PageUnit) /\ Len(<<e>>) = 1 /\ <<e>>[1] = e
  OBVIOUS
<1>2. /\ v \in Seq(PageUnit) /\ Len(v) = 1 + Len(u)
      /\ \A i \in 1 .. 1 + Len(u) : v[i] = IF i <= 1 THEN <<e>>[i] ELSE u[i - 1]
  BY <1>0, <1>1, ConcatProperties
<1> HIDE DEF v
<1>3. v[1] = e /\ 1 \in 1 .. Len(v)
  BY <1>0, <1>1, <1>2
<1>4. \A i \in 2 .. Len(v) : v[i] = u[i - 1] /\ i - 1 \in 1 .. Len(u) /\ i \in 1 .. Len(v)
  BY <1>1, <1>2
<1>5. \A i \in 1 .. Len(v) : i = 1 \/ i \in 2 .. Len(v)
  BY <1>1, <1>2
<1>6. \A i \in 1 .. Len(v) : v[i].curr <= v[i].pages
  BY <1>3, <1>4, <1>5 DEF UnitsOK
<1>7. NewestFirst(v)
  <2> SUFFICES ASSUME NEW i \in 1 .. Len(v), NEW j \in 1 .. Len(v), i < j, v[i].who = v[j].who
               PROVE  v[i].nr > v[j].nr
    BY DEF NewestFirst
  <2>1. j \in 2 .. Len(v)
    BY <1>1, <1>2
  <2>2. CASE i = 1
    <3>1. v[j].nr < e.nr /\ v[j].nr \in Nat
      BY <1>1, <1>3, <1>4, <2>1, <2>2
    <3>2. e.nr \in Nat
      BY PagerAssumption DEF PageUnit
    <3> QED
      BY <1>3, <2>2, <3>1, <3>2
  <2>3. CASE i \in 2 .. Len(v)
    <3>1. i - 1 < j - 1
      BY <2>1, <2>3
    <3> QED
      BY <1>4, <2>1, <2>3, <3>1 DEF UnitsOK, NewestFirst
  <2> QED
    BY <1>5, <2>2, <2>3
<1>8. HasUnit(v, e.who)
  BY <1>3 DEF HasUnit
<1>9. ASSUME NEW q, HasUnit(u, q) PROVE HasUnit(v, q)
  <2>1. PICK a \in 1 .. Len(u) : u[a].who = q
    BY <1>9 DEF HasUnit
  <2>2. a + 1 \in 2 .. Len(v) /\ a + 1 - 1 = a
    BY <1>1, <1>2
  <2>3. v[a + 1].who = q /\ a + 1 \in 1 .. Len(v)
    BY <1>4, <2>1, <2>2
  <2> QED
    BY <2>3 DEF HasUnit
<1>10. Len(v) <= MaxUnits
  BY <1>1, <1>2, PagerAssumption
<1> QED
  BY <1>2, <1>6, <1>7, <1>8, <1>9, <1>10 DEF UnitsOK, v

LEMMA TurnKeepsUnits ==
  ASSUME NEW u, UnitsOK(u), NEW k \in 1 .. Len(u), NEW c \in 1 .. u[k].pages
  PROVE  /\ UnitsOK([u EXCEPT ![k].curr = c])
         /\ \A q : HasUnit(u, q) => HasUnit([u EXCEPT ![k].curr = c], q)
<1> DEFINE e == [u[k] EXCEPT !.curr = c]
           v == [u EXCEPT ![k] = e]
<1>1. u \in Seq(PageUnit) /\ Len(u) \in Nat /\ Len(u) <= MaxUnits
  BY UnitNumbers DEF UnitsOK
<1>2. /\ u[k] \in PageUnit /\ u[k].pages \in Nat /\ u[k].pages <= MaxLines
  BY UnitNumbers
<1>3. e \in PageUnit /\ e.who = u[k].who /\ e.nr = u[k].nr /\ e.pages = u[k].pages /\ e.curr = c
  BY <1>2, PagerAssumption DEF PageUnit
<1> HIDE DEF e
<1>4. /\ v \in Seq(PageUnit) /\ Len(v) = Len(u)
      /\ \A i \in 1 .. Len(u) : v[i] = IF i = k THEN e ELSE u[i]
  BY <1>1, <1>3, ExceptSeq
<1> HIDE DEF v
<1>5. \A i \in 1 .. Len(v) : v[i].who = u[i].who /\ v[i].nr = u[i].nr
  BY <1>3, <1>4
<1>6. \A i \in 1 .. Len(v) : v[i].curr <= v[i].pages
  <2> SUFFICES ASSUME NEW i \in 1 .. Len(v) PROVE v[i].curr <= v[i].pages
    OBVIOUS
  <2>1. CASE i = k
    <3>1. v[i] = e /\ c <= u[k].pages
      BY <1>2, <1>4, <2>1
    <3> QED
      BY <1>3, <3>1
  <2>2. CASE i # k
    <3>1. v[i] = u[i] /\ i \in 1 .. Len(u)
      BY <1>4, <2>2
    <3> QED
      BY <3>1 DEF UnitsOK
  <2> QED
    BY <2>1, <2>2
<1>7. NewestFirst(v)
  BY <1>4, <1>5 DEF UnitsOK, NewestFirst
<1>8. UnitsOK(v) /\ \A q : HasUnit(u, q) => HasUnit(v, q)
  BY <1>1, <1>4, <1>5, <1>6, <1>7 DEF UnitsOK, HasUnit
<1>9. v = [u EXCEPT ![k].curr = c]
  BY DEF v, e
<1> QED
  BY <1>8, <1>9

LEMMA LeavesKeepsUnits ==
  ASSUME UnitsOK(units), NEW p, Leaves(p)
  PROVE  UnitsOK(units') /\ \A q : q # p /\ HasUnit(units, q) => HasUnit(units', q)
<1> DEFINE k == find_pageunit(p)
<1>1. CASE k = 0
  <2>1. units' = units
    BY <1>1 DEF Leaves
  <2> QED
    BY <2>1
<1>2. CASE k # 0
  <2>1. units' = RemoveAt(units, k)
    BY <1>2 DEF Leaves, del_pageunit
  <2>2. k \in 1 .. Len(units) /\ units[k].who = p
    BY <1>2, FirstUnit
  <2> HIDE DEF k
  <2> QED
    BY <2>1, <2>2, RemoveKeepsUnits
<1> QED
  BY <1>1, <1>2

LEMMA PrintKeeps ==
  ASSUME PageInv, NEW p \in Reader, NEW lines \in 1 .. MaxLines, print_page(p, lines)
  PROVE  PageInv'
<1> DEFINE pages == add_oneline(p, lines)
           nrs == {0} \cup {units[k].nr : k \in His(p)}
           u == [who |-> p, pages |-> pages, curr |-> 1, nr |-> Max(nrs) + 1]
<1>1. /\ p \in here /\ Len(units) < MaxUnits /\ u.nr <= MaxUnits
      /\ units' = IF pages > 1 THEN <<u>> \o units ELSE units
      /\ page' = IF pages > 1 THEN page \cup {p} ELSE page
      /\ here' = here /\ screen' = screen /\ found' = found
  BY DEF print_page, new_pageunit, show_page
<1>2. UnitsOK(units) /\ screen \in [Reader -> Screens] /\ MaxUnits \in Nat /\ MaxLines \in Nat
  BY PagerAssumption DEF PageInv
<1>3. pages \in Nat /\ pages <= lines
  <2>0. screen[p] \in Screens /\ lines \in Nat /\ lines >= 1
    BY <1>2
  <2>1. screen[p] \in Nat /\ screen[p] >= 1 /\ lines \in Nat /\ lines >= 1
    <3>1. screen[p] \in Nat \ {0}
      BY <2>0, PagerAssumption, Zenon
    <3> QED
      BY <2>0, <3>1
  <2> QED
    BY <2>1, PagesOfLines DEF add_oneline
<1> HIDE DEF pages
<1>4. nrs \subseteq 0 .. MaxUnits /\ nrs # {}
  BY <1>2, UnitNumbers DEF His
<1>5. Max(nrs) \in nrs /\ \A n \in nrs : n <= Max(nrs)
  <2> HIDE DEF nrs
  <2> QED
    BY <1>2, <1>4, MaxIsGreatest
<1>6. Max(nrs) \in Nat /\ \A k \in 1 .. Len(units) : units[k].who = p => units[k].nr <= Max(nrs)
  <2>1. \A k \in 1 .. Len(units) : units[k].who = p => units[k].nr \in nrs
    BY <1>2, UnitNumbers DEF His
  <2>2. Max(nrs) \in 0 .. MaxUnits
    BY <1>4, <1>5
  <2> HIDE DEF nrs
  <2> QED
    BY <1>2, <1>5, <2>1, <2>2
<1> HIDE DEF nrs
<1>7. CASE pages > 1
  <2>1. u \in PageUnit /\ u.curr <= u.pages /\ u.who = p /\ u.nr = Max(nrs) + 1
    BY <1>1, <1>2, <1>3, <1>6, <1>7 DEF PageUnit
  <2>2. \A k \in 1 .. Len(units) : units[k].nr \in Nat
    BY <1>2, UnitNumbers
  <2> HIDE DEF u
  <2>3. \A k \in 1 .. Len(units) : units[k].who = u.who => units[k].nr < u.nr
    BY <1>6, <2>1, <2>2
  <2>4. UnitsOK(units') /\ HasUnit(units', p) /\ \A q : HasUnit(units, q) => HasUnit(units', q)
    BY <1>1, <1>2, <1>7, <2>1, <2>3, AddKeepsUnits
  <2>5. page' = page \cup {p}
    BY <1>1, <1>7
  <2> QED
    BY <1>1, <2>4, <2>5 DEF PageInv
<1>8. CASE ~(pages > 1)
  <2>1. units' = units /\ page' = page
    BY <1>1, <1>8
  <2> QED
    BY <1>1, <2>1 DEF PageInv
<1> QED
  BY <1>7, <1>8

LEMMA TypedKeeps ==
  ASSUME PageInv, NEW p \in Reader, NEW key, Typed(p, key)
  PROVE  PageInv'
<1> DEFINE k == find_pageunit(p)
           u == units[k]
           leave == k = 0 \/ key = "q" \/ (key = "Enter" /\ AtLast(u))
           c == CASE key \in {"Enter", "n"} /\ ~AtLast(u) -> u.curr + 1
                  [] key = "p" /\ u.curr > 1 -> u.curr - 1
                  [] OTHER -> u.curr
<1>1. /\ here' = here /\ screen' = screen /\ found' = found
      /\ leave => Leaves(p) /\ page' = page \ {p}
      /\ ~leave => units' = [units EXCEPT ![k].curr = c] /\ page' = page
  BY DEF Typed
<1>2. UnitsOK(units)
  BY DEF PageInv
<1>3. CASE leave
  <2>1. Leaves(p) /\ page' = page \ {p}
    BY <1>1, <1>3
  <2>2. UnitsOK(units') /\ \A q : q # p /\ HasUnit(units, q) => HasUnit(units', q)
    BY <1>2, <2>1, LeavesKeepsUnits
  <2> QED
    BY <1>1, <2>1, <2>2 DEF PageInv
<1>4. CASE ~leave
  <2>1. k \in 1 .. Len(units)
    BY <1>2, <1>4, FirstUnit
  <2>2. u.curr \in Nat /\ u.pages \in Nat /\ u.curr >= 1 /\ u.curr <= u.pages
    BY <1>2, <2>1, UnitNumbers
  <2>3. c \in 1 .. u.pages
    <3>1. \/ c = u.curr + 1 /\ u.curr # u.pages
          \/ c = u.curr - 1 /\ u.curr > 1
          \/ c = u.curr
      BY DEF AtLast
    <3> HIDE DEF c, u
    <3> QED
      BY <2>2, <3>1
  <2>4. units' = [units EXCEPT ![k].curr = c] /\ page' = page
    BY <1>1, <1>4
  <2> HIDE DEF c, k
  <2>5. UnitsOK(units') /\ \A q : HasUnit(units, q) => HasUnit(units', q)
    BY <1>2, <2>1, <2>3, <2>4, TurnKeepsUnits
  <2> QED
    BY <1>1, <2>4, <2>5 DEF PageInv
<1> QED
  BY <1>3, <1>4

LEMMA LeaverKeeps ==
  ASSUME PageInv, NEW p \in Reader, char_leaves(p)
  PROVE  PageInv'
<1>1. /\ here' = here \ {p} /\ page' = page \ {p} /\ Leaves(p)
      /\ screen' = screen /\ found' = found
  BY DEF char_leaves
<1>2. UnitsOK(units') /\ \A q : q # p /\ HasUnit(units, q) => HasUnit(units', q)
  BY <1>1, LeavesKeepsUnits DEF PageInv
<1> QED
  BY <1>1, <1>2 DEF PageInv

LEMMA HelpKeeps ==
  ASSUME PageInv, NEW p \in Reader, NEW list \in build_help_index, NEW word \in Words, do_help(p, word, list)
  PROVE  PageInv'
<1> DEFINE at == Search(list, word)
           there == \E k \in DOMAIN list : IsPrefix(word, list[k])
<1>1. /\ found' = IF at = -1 THEN (IF there THEN "wrong" ELSE "right")
                  ELSE IF at + 1 \in DOMAIN list /\ IsPrefix(word, list[at + 1]) THEN "right" ELSE "wrong"
      /\ here' = here /\ units' = units /\ page' = page /\ screen' = screen
  BY DEF do_help
<1>2. /\ at = -1 => ~there
      /\ at # -1 => at + 1 \in DOMAIN list /\ IsPrefix(word, list[at + 1])
  BY SearchFinds
<1> HIDE DEF at, there
<1>3. found' = "right"
  BY <1>1, <1>2
<1> QED
  BY <1>1, <1>3 DEF PageInv

LEMMA PageInitInv == PageInit => PageInv
<1> SUFFICES ASSUME PageInit PROVE PageInv
  OBVIOUS
<1>1. units = <<>> /\ page = {} /\ here = Reader /\ screen \in [Reader -> Screens] /\ found = "nothing"
  BY DEF PageInit
<1>2. UnitsOK(units)
  BY <1>1, PagerAssumption DEF UnitsOK, NewestFirst
<1> QED
  BY <1>1, <1>2 DEF PageInv

LEMMA PageStepOK == PageInv /\ [PageNext]_page_vars => PageInv'
<1> SUFFICES ASSUME PageInv, [PageNext]_page_vars PROVE PageInv'
  OBVIOUS
<1>1. ASSUME NEW p \in Reader, NEW lines \in 1 .. MaxLines, print_page(p, lines) PROVE PageInv'
  BY <1>1, PrintKeeps
<1>2. ASSUME NEW p \in Reader, page_interpreter(p) PROVE PageInv'
  BY <1>2, TypedKeeps DEF page_interpreter
<1>3. ASSUME NEW p \in Reader, char_leaves(p) PROVE PageInv'
  BY <1>3, LeaverKeeps
<1>4. ASSUME NEW p \in Reader, Enter_world(p) PROVE PageInv'
  BY <1>4 DEF Enter_world, PageInv
<1>5. ASSUME NEW p \in Reader, NEW n \in Screens, do_screen(p, n) PROVE PageInv'
  BY <1>5 DEF do_screen, PageInv
<1>6. ASSUME NEW p \in Reader, NEW list \in build_help_index, NEW word \in Words, do_help(p, word, list)
      PROVE  PageInv'
  BY <1>6, HelpKeeps
<1>7. CASE UNCHANGED page_vars
  BY <1>7 DEF page_vars, PageInv
<1> QED
  BY <1>1, <1>2, <1>3, <1>4, <1>5, <1>6, <1>7 DEF PageNext

LEMMA PageInvMeans == PageInv => PageTypeOK /\ TurnsLatest /\ HelpFinds
<1> SUFFICES ASSUME PageInv PROVE PageTypeOK /\ TurnsLatest /\ HelpFinds
  OBVIOUS
<1>1. UnitsOK(units) /\ Len(units) \in Nat /\ DOMAIN units = 1 .. Len(units)
  BY UnitNumbers DEF PageInv
<1>2. PageTypeOK
  BY <1>1 DEF PageInv, PageTypeOK, UnitsOK
<1>3. TurnsLatest
  <2> SUFFICES ASSUME NEW p \in page
               PROVE  /\ find_pageunit(p) # 0
                      /\ \A k \in His(p) : units[k].nr <= units[find_pageunit(p)].nr
    BY DEF TurnsLatest
  <2> DEFINE f == find_pageunit(p)
  <2>1. HasUnit(units, p)
    BY DEF PageInv
  <2>2. f # 0 /\ f \in 1 .. Len(units) /\ units[f].who = p /\ \A k \in His(p) : f <= k
    BY <1>1, <2>1, FirstUnit
  <2> HIDE DEF f
  <2>3. ASSUME NEW k \in His(p) PROVE units[k].nr <= units[f].nr
    <3>1. k \in 1 .. Len(units) /\ units[k].who = p /\ f <= k
      BY <1>1, <2>2, <2>3 DEF His
    <3>2. units[k].nr \in Nat /\ units[f].nr \in Nat
      BY <1>1, <2>2, <3>1, UnitNumbers
    <3>3. CASE f = k
      BY <3>2, <3>3
    <3>4. CASE f # k
      <4>1. f < k
        BY <2>2, <3>1, <3>4
      <4>2. units[f].nr > units[k].nr
        BY <1>1, <2>2, <3>1, <4>1 DEF UnitsOK, NewestFirst
      <4> QED
        BY <3>2, <4>2
    <3> QED
      BY <3>3, <3>4
  <2> QED
    BY <2>2, <2>3 DEF f
<1>4. HelpFinds
  BY DEF PageInv, HelpFinds
<1> QED
  BY <1>2, <1>3, <1>4

(* The units stay units, and nobody turns to a page that is not there      *)
(* (print_page, page_interpreter and char_from_world).                     *)
THEOREM PagesTyped == PageSpec => []PageTypeOK
<1>1. PageInit => PageInv
  BY PageInitInv
<1>2. PageInv /\ [PageNext]_page_vars => PageInv'
  BY PageStepOK
<1>3. PageInv => PageTypeOK
  BY PageInvMeans
<1> QED
  BY <1>1, <1>2, <1>3, PTL DEF PageSpec

(* Who turns pages turns those of the text he was shown last, however many *)
(* texts were forced on how many readers, and whoever came and went.       *)
THEOREM LatestTurned == PageSpec => []TurnsLatest
<1>1. PageInit => PageInv
  BY PageInitInv
<1>2. PageInv /\ [PageNext]_page_vars => PageInv'
  BY PageStepOK
<1>3. PageInv => TurnsLatest
  BY PageInvMeans
<1> QED
  BY <1>1, <1>2, <1>3, PTL DEF PageSpec

(* The search of do_help finds an entry of the word if there is one, in    *)
(* every sorted table of help.                                             *)
THEOREM HelpAlwaysFinds == PageSpec => []HelpFinds
<1>1. PageInit => PageInv
  BY PageInitInv
<1>2. PageInv /\ [PageNext]_page_vars => PageInv'
  BY PageStepOK
<1>3. PageInv => HelpFinds
  BY PageInvMeans
<1> QED
  BY <1>1, <1>2, <1>3, PTL DEF PageSpec

-----------------------------------------------------------------------------
(* The editors of the world, for any editors, kinds, tables and values: no *)
(* two units are of one entry or of one editor, and who is in an editor    *)
(* has a unit.  A unit is opened only when neither its entry nor its       *)
(* editor has one (find_editing), an answer leaves the editor and number   *)
(* of a unit alone, and every step that ends a unit takes the editor out.  *)

EntriesApart(u) ==
  \A i, j \in 1 .. Len(u) : i # j => u[i].nr # u[j].nr /\ u[i].who # u[j].who
HasEntry(u, e) == \E k \in 1 .. Len(u) : u[k].who = e
EntriesOK(u) == u \in Seq(EditUnit) /\ EntriesApart(u)
TableOK(t) == t \in [Slot -> EntryRecord]
LiveOK(l) == l \in [Slot -> Values]

EditInv ==
  /\ kind \in Kinds /\ down \in BOOLEAN
  /\ mode \in [Editor -> BOOLEAN]
  /\ sub_1 \in [Editor -> {"NONE", "EDIT"}]
  /\ sub_2 \in [Editor -> Stages]
  /\ sub_3 \in [Editor -> {"NONE", "YESNO"}]
  /\ EntriesOK(editing)
  /\ TableOK(table)
  /\ LiveOK(live)
  /\ \A e \in Editor : sub_1[e] = "EDIT" => HasEntry(editing, e)

(* The first number of a set of places, 0 if there is none. *)
LEMMA FirstIs ==
  ASSUME NEW T, T \subseteq Nat \ {0}
  PROVE  /\ First(T) = 0 <=> T = {}
         /\ First(T) # 0 => First(T) \in T
<1>1. CASE T = {}
  BY <1>1 DEF First
<1>2. CASE T # {}
  <2>1. T \subseteq Nat
    OBVIOUS
  <2>2. Min(T) \in T
    BY <1>2, <2>1, MinIsLeast
  <2>3. First(T) = Min(T)
    BY <1>2 DEF First
  <2> QED
    BY <1>2, <2>2, <2>3
<1> QED
  BY <1>1, <1>2

LEMMA EntryNumbers ==
  ASSUME NEW u, EntriesOK(u)
  PROVE  /\ Len(u) \in Nat /\ DOMAIN u = 1 .. Len(u)
         /\ \A k \in 1 .. Len(u) : /\ u[k] \in EditUnit /\ u[k].who \in Editor
                                   /\ u[k].nr \in Slot /\ u[k].copy \in EntryRecord
<1>1. u \in Seq(EditUnit)
  BY DEF EntriesOK
<1>2. Len(u) \in Nat /\ DOMAIN u = 1 .. Len(u) /\ \A k \in 1 .. Len(u) : u[k] \in EditUnit
  BY <1>1, LenProperties, ElementOfSeq
<1>3. \A x \in EditUnit : x.who \in Editor /\ x.nr \in Slot /\ x.copy \in EntryRecord
  BY DEF EditUnit
<1> QED
  BY <1>2, <1>3

(* The unit of an editor. *)
LEMMA EditUnitFound ==
  ASSUME EntriesOK(editing), NEW e
  PROVE  /\ has_unit(e) <=> HasEntry(editing, e)
         /\ has_unit(e) => /\ find_editunit(e) \in 1 .. Len(editing)
                           /\ editing[find_editunit(e)].who = e
                           /\ unit(e) = editing[find_editunit(e)]
                           /\ unit(e).nr \in Slot /\ unit(e).copy \in EntryRecord
<1> DEFINE his == {i \in DOMAIN editing : editing[i].who = e}
<1>1. Len(editing) \in Nat /\ DOMAIN editing = 1 .. Len(editing)
  BY EntryNumbers
<1>2. \A i : i \in his <=> i \in 1 .. Len(editing) /\ editing[i].who = e
  BY <1>1
<1>3. find_editunit(e) = First(his)
  BY DEF find_editunit
<1> HIDE DEF his
<1>4. his \subseteq Nat \ {0}
  BY <1>1, <1>2
<1>5. /\ First(his) = 0 <=> his = {}
      /\ First(his) # 0 => First(his) \in his
  BY <1>4, FirstIs
<1>6. has_unit(e) <=> HasEntry(editing, e)
  BY <1>2, <1>3, <1>5 DEF has_unit, HasEntry
<1>7. ASSUME has_unit(e)
      PROVE  find_editunit(e) \in 1 .. Len(editing) /\ editing[find_editunit(e)].who = e
  BY <1>2, <1>3, <1>5, <1>7 DEF has_unit
<1>8. unit(e) = editing[find_editunit(e)]
  BY DEF unit
<1> QED
  BY <1>6, <1>7, <1>8, EntryNumbers

(* 0: the entry is free, and the editor has none. *)
LEMMA FreeEntry ==
  ASSUME NEW u, EntriesOK(u), NEW e, NEW n, find_editing(u, e, n) = 0
  PROVE  \A k \in 1 .. Len(u) : u[k].who # e /\ u[k].nr # n
<1> DEFINE taken == {i \in DOMAIN u : u[i].who = e \/ u[i].nr = n}
<1>1. Len(u) \in Nat /\ DOMAIN u = 1 .. Len(u)
  BY EntryNumbers
<1>2. \A i : i \in taken <=> i \in 1 .. Len(u) /\ (u[i].who = e \/ u[i].nr = n)
  BY <1>1
<1>3. First(taken) = 0
  BY DEF find_editing
<1> HIDE DEF taken
<1>4. taken \subseteq Nat \ {0}
  BY <1>1, <1>2
<1>5. taken = {}
  BY <1>3, <1>4, FirstIs
<1> QED
  BY <1>2, <1>5

(* 2: the editor has a unit already. *)
LEMMA OwnEntry ==
  ASSUME EntriesOK(editing), NEW e, NEW n, find_editing(editing, e, n) = 2
  PROVE  has_unit(e)
<1> DEFINE taken == {i \in DOMAIN editing : editing[i].who = e \/ editing[i].nr = n}
<1>1. Len(editing) \in Nat /\ DOMAIN editing = 1 .. Len(editing)
  BY EntryNumbers
<1>2. \A i : i \in taken => i \in 1 .. Len(editing)
  BY <1>1
<1>3. First(taken) # 0 /\ editing[First(taken)].who = e
  BY DEF find_editing
<1> HIDE DEF taken
<1>4. taken \subseteq Nat \ {0}
  BY <1>1, <1>2
<1>5. First(taken) \in 1 .. Len(editing)
  BY <1>2, <1>3, <1>4, FirstIs
<1>6. HasEntry(editing, e)
  BY <1>3, <1>5 DEF HasEntry
<1> QED
  BY <1>6, EditUnitFound

LEMMA DelEntry ==
  ASSUME EntriesOK(editing), NEW e, has_unit(e)
  PROVE  /\ EntriesOK(del_editing(e))
         /\ \A d : d # e /\ HasEntry(editing, d) => HasEntry(del_editing(e), d)
<1> DEFINE u == editing
           k == find_editunit(e)
           v == RemoveAt(u, k)
<1>1. u \in Seq(EditUnit) /\ Len(u) \in Nat
  BY EntryNumbers DEF EntriesOK
<1>2. k \in 1 .. Len(u) /\ u[k].who = e
  BY EditUnitFound
<1>3. del_editing(e) = v
  BY DEF del_editing
<1>4. EntriesApart(u)
  BY DEF EntriesOK
<1> HIDE DEF u, k
<1>5. /\ v \in Seq(EditUnit) /\ Len(v) = Len(u) - 1
      /\ \A i \in 1 .. Len(u) - 1 : v[i] = IF i < k THEN u[i] ELSE u[i + 1]
  BY <1>1, <1>2, RemoveAtProperties
<1> HIDE DEF v
<1> DEFINE at(i) == IF i < k THEN i ELSE i + 1
<1>6. \A i \in 1 .. Len(v) : at(i) \in 1 .. Len(u) /\ v[i] = u[at(i)]
  BY <1>1, <1>2, <1>5
<1>7. ASSUME NEW i \in 1 .. Len(v), NEW j \in 1 .. Len(v), i # j
      PROVE  v[i].nr # v[j].nr /\ v[i].who # v[j].who
  <2>1. at(i) # at(j)
    BY <1>1, <1>2, <1>5, <1>7
  <2>2. /\ at(i) \in 1 .. Len(u) /\ v[i] = u[at(i)]
        /\ at(j) \in 1 .. Len(u) /\ v[j] = u[at(j)]
    BY <1>6
  <2> HIDE DEF at
  <2> QED
    BY <1>4, <2>1, <2>2 DEF EntriesApart
<1>8. EntriesOK(v)
  BY <1>5, <1>7 DEF EntriesOK, EntriesApart
<1>9. ASSUME NEW d, d # e, HasEntry(u, d) PROVE HasEntry(v, d)
  <2>1. PICK a \in 1 .. Len(u) : u[a].who = d
    BY <1>9 DEF HasEntry
  <2>2. CASE a < k
    <3>1. a \in 1 .. Len(v) /\ v[a] = u[a]
      BY <1>1, <1>2, <1>5, <2>2
    <3> QED
      BY <2>1, <3>1 DEF HasEntry
  <2>3. CASE a > k
    <3>1. a - 1 \in 1 .. Len(v) /\ v[a - 1] = u[a]
      BY <1>1, <1>2, <1>5, <2>3
    <3> QED
      BY <2>1, <3>1 DEF HasEntry
  <2>4. a # k
    BY <1>2, <1>9, <2>1
  <2> QED
    BY <1>1, <1>2, <2>2, <2>3, <2>4
<1> QED
  BY <1>3, <1>8, <1>9 DEF u

LEMMA NewEntry ==
  ASSUME NEW u, EntriesOK(u), NEW t, TableOK(t), NEW e \in Editor, NEW n \in Slot,
         find_editing(u, e, n) = 0
  PROVE  /\ EntriesOK(new_editing(u, t, e, n)) /\ HasEntry(new_editing(u, t, e, n), e)
         /\ \A d : HasEntry(u, d) => HasEntry(new_editing(u, t, e, n), d)
<1> DEFINE x == [who |-> e, nr |-> n, copy |-> t[n]]
           v == <<x>> \o u
<1>1. u \in Seq(EditUnit) /\ Len(u) \in Nat
  BY EntryNumbers DEF EntriesOK
<1>2. x \in EditUnit /\ x.who = e /\ x.nr = n
  BY DEF TableOK, EditUnit
<1>3. \A k \in 1 .. Len(u) : u[k].who # e /\ u[k].nr # n
  BY FreeEntry
<1>4. new_editing(u, t, e, n) = v
  BY DEF new_editing
<1> HIDE DEF x
<1>5. <<x>> \in Seq(EditUnit) /\ Len(<<x>>) = 1 /\ <<x>>[1] = x
  BY <1>2
<1>6. /\ v \in Seq(EditUnit) /\ Len(v) = 1 + Len(u)
      /\ \A i \in 1 .. 1 + Len(u) : v[i] = IF i <= 1 THEN <<x>>[i] ELSE u[i - 1]
  BY <1>1, <1>5, ConcatProperties
<1> HIDE DEF v
<1>7. v[1] = x /\ 1 \in 1 .. Len(v)
  BY <1>1, <1>5, <1>6
<1>8. \A i \in 2 .. Len(v) : v[i] = u[i - 1] /\ i - 1 \in 1 .. Len(u) /\ i \in 1 .. Len(v)
  BY <1>1, <1>6
<1>9. \A i \in 1 .. Len(v) : i = 1 \/ i \in 2 .. Len(v)
  BY <1>1, <1>6
<1>10. ASSUME NEW i \in 1 .. Len(v), NEW j \in 1 .. Len(v), i # j
       PROVE  v[i].nr # v[j].nr /\ v[i].who # v[j].who
  <2>1. CASE i = 1
    BY <1>2, <1>3, <1>7, <1>8, <1>9, <1>10, <2>1
  <2>2. CASE j = 1
    BY <1>2, <1>3, <1>7, <1>8, <1>9, <1>10, <2>2
  <2>3. CASE i \in 2 .. Len(v) /\ j \in 2 .. Len(v)
    <3>1. i - 1 # j - 1
      BY <1>10, <2>3
    <3> QED
      <4>1. v[i] = u[i - 1] /\ i - 1 \in 1 .. Len(u) /\ v[j] = u[j - 1] /\ j - 1 \in 1 .. Len(u)
        BY <1>8, <2>3
      <4>2. EntriesApart(u)
        BY DEF EntriesOK
      <4> QED
        BY <3>1, <4>1, <4>2 DEF EntriesApart
  <2> QED
    BY <1>9, <2>1, <2>2, <2>3
<1>11. HasEntry(v, e)
  BY <1>2, <1>7 DEF HasEntry
<1>12. ASSUME NEW d, HasEntry(u, d) PROVE HasEntry(v, d)
  <2>1. PICK a \in 1 .. Len(u) : u[a].who = d
    BY <1>12 DEF HasEntry
  <2>2. a + 1 \in 2 .. Len(v) /\ a + 1 - 1 = a
    BY <1>1, <1>6
  <2>3. v[a + 1].who = d /\ a + 1 \in 1 .. Len(v)
    BY <1>8, <2>1, <2>2
  <2> QED
    BY <2>3 DEF HasEntry
<1> QED
  BY <1>4, <1>6, <1>10, <1>11, <1>12 DEF EntriesOK, EntriesApart

(* Another copy: no unit changes its editor or its number. *)
LEMMA CopyKept ==
  ASSUME EntriesOK(editing), NEW e, has_unit(e), NEW copy \in EntryRecord, Edited(e, copy)
  PROVE  /\ EntriesOK(editing')
         /\ \A d : HasEntry(editing, d) => HasEntry(editing', d)
<1> DEFINE u == editing
           k == find_editunit(e)
           x == [u[k] EXCEPT !.copy = copy]
           v == [u EXCEPT ![k] = x]
<1>1. u \in Seq(EditUnit) /\ Len(u) \in Nat
  BY EntryNumbers DEF EntriesOK
<1>2. k \in 1 .. Len(u) /\ u[k] \in EditUnit
  BY EditUnitFound, EntryNumbers
<1>3. EntriesApart(u)
  BY DEF EntriesOK
<1>4. editing' = v
  BY DEF Edited
<1> HIDE DEF u, k
<1>5. x \in EditUnit /\ x.who = u[k].who /\ x.nr = u[k].nr
  BY <1>2 DEF EditUnit
<1> HIDE DEF x
<1>6. /\ v \in Seq(EditUnit) /\ Len(v) = Len(u)
      /\ \A i \in 1 .. Len(u) : v[i] = IF i = k THEN x ELSE u[i]
  BY <1>1, <1>2, <1>5, ExceptSeq
<1> HIDE DEF v
<1>7. \A i \in 1 .. Len(v) : v[i].who = u[i].who /\ v[i].nr = u[i].nr
  BY <1>5, <1>6
<1>8. EntriesApart(v)
  BY <1>3, <1>6, <1>7 DEF EntriesApart
<1>9. \A d : HasEntry(u, d) => HasEntry(v, d)
  BY <1>6, <1>7 DEF HasEntry
<1> QED
  BY <1>4, <1>6, <1>8, <1>9 DEF EntriesOK, u

(* ed_save_edit keeps the entries of a table, and each question is one of the stages. *)
LEMMA TableKept ==
  ASSUME EntriesOK(editing), TableOK(table), LiveOK(live), NEW e, has_unit(e)
  PROVE  TableOK(ed_save_edit(e)) /\ LiveOK(effect(e))
<1>1. unit(e).nr \in Slot /\ unit(e).copy \in EntryRecord
  BY EditUnitFound
<1>2. table[unit(e).nr] \in EntryRecord
  BY <1>1 DEF TableOK
<1>3. Applied(unit(e).nr, unit(e).copy) \in EntryRecord
  BY <1>1, <1>2 DEF Applied, EntryRecord
<1>4. TableOK(ed_save_edit(e))
  BY <1>1, <1>3 DEF TableOK, ed_save_edit
<1>5. unit(e).copy.value \in Values
  BY <1>1 DEF EntryRecord
<1>6. LiveOK(effect(e))
  BY <1>1, <1>5 DEF LiveOK, effect
<1> QED
  BY <1>4, <1>6

LEMMA StagesAre ==
  /\ {"NONE", "QUIT"} \subseteq Stages
  /\ MobHandled \subseteq Stages /\ RoomHandled \subseteq Stages /\ ZoneHandled \subseteq Stages
  /\ ObjHandled \cup {"FIRE_M"} \subseteq Stages
BY DEF Stages

LEMMA ChainsOfNames ==
  ASSUME NEW t, NEW chain \in Chains(t) PROVE chain[2] \in Stages
<1>1. ASSUME chain \in SpellLevel(t) \cup Spells \cup Charges
      PROVE  chain[2] \in ObjHandled
  BY <1>1 DEF SpellLevel, Spells, Charges, ObjHandled
<1>2. ASSUME chain \in Weapons \cup Container(t) \cup Drinks \cup Applies
      PROVE  chain[2] \in ObjHandled
  BY <1>2 DEF Weapons, Container, Drinks, Applies, ObjHandled
<1>3. ASSUME chain \in Hits \cup Damages \cup Positions
      PROVE  chain[2] \in MobHandled
  BY <1>3 DEF Hits, Damages, Positions, MobHandled
<1>4. ASSUME chain \in Exits PROVE chain[2] \in RoomHandled
  BY <1>4 DEF Exits, RoomHandled
<1>5. ASSUME chain \in Levels PROVE chain[2] \in ZoneHandled
  BY <1>5 DEF Levels, ZoneHandled
<1> QED
  BY <1>1, <1>2, <1>3, <1>4, <1>5, StagesAre DEF Chains

LEMMA AfterIsName ==
  ASSUME NEW t, NEW was, NEW stage \in After(was, t) PROVE stage \in Stages
<1> DEFINE next == {chain[2] : chain \in {chain \in Chains(t) : chain[1] = was}}
<1>1. next \subseteq Stages
  BY ChainsOfNames
<1>0. "NONE" \in Stages
  BY StagesAre
<1>2. After(was, t) = IF next = {} THEN {"NONE"} ELSE next
  BY DEF After
<1> HIDE DEF next
<1> QED
  BY <1>0, <1>1, <1>2

LEMMA MenuOfNames ==
  ASSUME kind \in Kinds, NEW t, NEW stage \in Menu(t) PROVE stage \in Stages
<1>1. kind \in {"OBJ", "MOB", "ROOM", "ZONE"}
  BY EditorsAssumption
<1>2. ASSUME kind = "OBJ" PROVE stage \in ObjHandled \cup {"FIRE_M"}
  <2>1. stage \in ObjMenu(t)
    BY <1>2 DEF Menu
  <2>2. ASSUME stage \in ValueStage(t) PROVE stage \in ObjHandled \cup {"FIRE_M"}
    BY <2>2 DEF ValueStage, ObjHandled
  <2>3. ObjMenu(t) \subseteq ObjHandled \cup ValueStage(t)
    BY DEF ObjMenu, ObjHandled
  <2> QED
    BY <2>1, <2>2, <2>3
<1>3. ASSUME kind = "MOB" PROVE stage \in MobHandled
  BY <1>3 DEF Menu, MobHandled
<1>4. ASSUME kind = "ROOM" PROVE stage \in RoomHandled
  BY <1>4 DEF Menu, RoomHandled
<1>5. ASSUME kind = "ZONE" PROVE stage \in ZoneHandled
  BY <1>5 DEF Menu, ZoneHandled
<1> QED
  BY <1>1, <1>2, <1>3, <1>4, <1>5, StagesAre

LEMMA ChangedIsEntry ==
  ASSUME NEW was, NEW copy \in EntryRecord, NEW new \in Changed(was, copy)
  PROVE  new \in EntryRecord
<1>1. CASE was = "TYPE"
  BY <1>1 DEF Changed, EntryRecord
<1>2. CASE was = "ZONE"
  BY <1>2 DEF Changed, EntryRecord
<1>3. CASE was # "TYPE" /\ was # "ZONE"
  BY <1>3 DEF Changed, EntryRecord
<1> QED
  BY <1>1, <1>2, <1>3

(* The steps of an editor. *)
LEMMA ClearedFields ==
  ASSUME EditInv, NEW e \in Editor, Cleared(e)
  PROVE  /\ sub_1' \in [Editor -> {"NONE", "EDIT"}]
         /\ sub_2' \in [Editor -> Stages]
         /\ sub_3' \in [Editor -> {"NONE", "YESNO"}]
         /\ \A d \in Editor : sub_1'[d] = "EDIT" => d # e /\ sub_1[d] = "EDIT"
<1>1. "NONE" \in Stages
  BY StagesAre
<1> QED
  BY <1>1 DEF EditInv, Cleared

LEMMA AskedFields ==
  ASSUME EditInv, NEW e \in Editor, NEW stage \in Stages, Ask(e, stage)
  PROVE  sub_2' \in [Editor -> Stages]
BY DEF EditInv, Ask

LEMMA ModeKeeps ==
  ASSUME EditInv, NEW e \in Editor, do_edit(e) \/ ed_quit(e)
  PROVE  EditInv'
<1>1. CASE do_edit(e)
  <2>1. /\ UNCHANGED <<kind, sub_1, sub_2, sub_3, editing, table, live, down>>
        /\ mode' \in [Editor -> BOOLEAN]
    BY <1>1 DEF do_edit, EditInv
  <2> QED
    BY <2>1 DEF EditInv
<1>2. CASE ed_quit(e)
  <2>1. /\ UNCHANGED <<kind, editing, table, live, down>>
        /\ mode' \in [Editor -> BOOLEAN] /\ Cleared(e)
    BY <1>2 DEF ed_quit, EditInv
  <2> QED
    BY <2>1, ClearedFields DEF EditInv
<1> QED
  BY <1>1, <1>2

LEMMA OpenKeeps ==
  ASSUME EditInv, NEW e \in Editor, NEW n \in Slot, Open(e, n)
  PROVE  EditInv'
<1> DEFINE ret == find_editing(editing, e, n)
<1>1. /\ UNCHANGED <<kind, sub_3, table, live, down>>
      /\ mode' \in [Editor -> BOOLEAN] /\ sub_1[e] = "NONE"
  BY DEF Open, Playing, EditInv
<1>2. CASE ret = 0
  <2>1. /\ editing' = new_editing(editing, table, e, n)
        /\ sub_1' = [sub_1 EXCEPT ![e] = "EDIT"] /\ Ask(e, "NONE")
    BY <1>2 DEF Open
  <2>2. /\ EntriesOK(editing') /\ HasEntry(editing', e)
        /\ \A d : HasEntry(editing, d) => HasEntry(editing', d)
    BY <1>2, <2>1, NewEntry DEF EditInv
  <2>3. sub_2' \in [Editor -> Stages]
    BY <2>1, StagesAre, AskedFields
  <2>4. /\ sub_1' \in [Editor -> {"NONE", "EDIT"}]
        /\ \A d \in Editor : sub_1'[d] = "EDIT" => d = e \/ sub_1[d] = "EDIT"
    BY <2>1 DEF EditInv
  <2> QED
    BY <1>1, <2>2, <2>3, <2>4 DEF EditInv
<1>3. CASE ret # 0
  <2>1. /\ editing' = IF ret = 2 THEN del_editing(e) ELSE editing
        /\ UNCHANGED <<sub_1, sub_2>>
    BY <1>3 DEF Open
  <2>2. CASE ret # 2
    <3>1. editing' = editing
      BY <2>1, <2>2
    <3> QED
      BY <1>1, <2>1, <3>1 DEF EditInv
  <2>3. CASE ret = 2
    <3>1. has_unit(e)
      BY <2>3, OwnEntry DEF EditInv
    <3>2. editing' = del_editing(e)
      BY <2>1, <2>3
    <3>3. /\ EntriesOK(editing')
          /\ \A d : d # e /\ HasEntry(editing, d) => HasEntry(editing', d)
      BY <3>1, <3>2, DelEntry DEF EditInv
    <3>4. \A d \in Editor : sub_1'[d] = "EDIT" => d # e /\ sub_1[d] = "EDIT"
      BY <1>1, <2>1
    <3> QED
      BY <1>1, <2>1, <3>3, <3>4 DEF EditInv
  <2> QED
    BY <2>2, <2>3
<1> QED
  BY <1>2, <1>3

LEMMA ChooseKeeps ==
  ASSUME EditInv, NEW e \in Editor, NEW stage, Choose(e, stage)
  PROVE  EditInv'
<1>1. /\ UNCHANGED <<kind, mode, sub_1, sub_3, table, live, down>>
      /\ has_unit(e) /\ stage \in Menu(unit(e).copy.type) /\ Ask(e, stage)
  BY DEF Choose, AtMenu
<1>2. sub_2' \in [Editor -> Stages]
  <2>1. stage \in Stages
    BY <1>1, MenuOfNames DEF EditInv
  <2> QED
    BY <1>1, <2>1, AskedFields
<1>3. /\ EntriesOK(editing')
      /\ \A d : HasEntry(editing, d) => HasEntry(editing', d)
  <2>1. CASE stage # "D_WORD"
    <3>1. editing' = editing
      BY <2>1 DEF Choose
    <3> QED
      BY <3>1 DEF EditInv
  <2>2. CASE stage = "D_WORD"
    <3>1. PICK v \in Values : Edited(e, [unit(e).copy EXCEPT !.value = v])
      BY <2>2 DEF Choose
    <3>2. unit(e).copy \in EntryRecord
      BY <1>1, EditUnitFound DEF EditInv
    <3>3. [unit(e).copy EXCEPT !.value = v] \in EntryRecord
      BY <3>2 DEF EntryRecord
    <3> QED
      BY <1>1, <3>1, <3>3, CopyKept DEF EditInv
  <2> QED
    BY <2>1, <2>2
<1> QED
  BY <1>1, <1>2, <1>3 DEF EditInv

LEMMA EnterKeeps ==
  ASSUME EditInv, NEW e \in Editor, EmptyLine(e)
  PROVE  EditInv'
<1>1. UNCHANGED <<kind, mode, sub_1, sub_3, editing, table, live, down>>
  BY DEF EmptyLine
<1>2. PICK stage \in After(sub_2[e], unit(e).copy.type) : Ask(e, stage)
  BY DEF EmptyLine
<1>3. sub_2' \in [Editor -> Stages]
  BY <1>2, AfterIsName, AskedFields
<1> QED
  BY <1>1, <1>3 DEF EditInv

LEMMA AnswerKeeps ==
  ASSUME EditInv, NEW e \in Editor, Answer(e)
  PROVE  EditInv'
<1>1. /\ UNCHANGED <<kind, mode, sub_1, sub_3, table, live, down>>
      /\ has_unit(e)
  BY DEF Answer, Asked
<1>2. PICK copy \in Changed(sub_2[e], unit(e).copy) : Edited(e, copy)
  BY DEF Answer
<1>3. copy \in EntryRecord
  <2>1. unit(e).copy \in EntryRecord
    BY <1>1, EditUnitFound DEF EditInv
  <2> QED
    BY <2>1, ChangedIsEntry
<1>4. /\ EntriesOK(editing')
      /\ \A d : HasEntry(editing, d) => HasEntry(editing', d)
  BY <1>1, <1>2, <1>3, CopyKept DEF EditInv
<1>5. \E stage \in IF sub_2[e] \in Toggles THEN {sub_2[e]} ELSE After(sub_2[e], unit(e).copy.type) :
        Ask(e, stage)
  BY DEF Answer
<1>6. sub_2' \in [Editor -> Stages]
  <2>1. CASE sub_2[e] \in Toggles
    <3>1. Ask(e, sub_2[e]) /\ sub_2[e] \in Stages
      BY <1>5, <2>1 DEF EditInv
    <3> QED
      BY <3>1, AskedFields
  <2>2. CASE sub_2[e] \notin Toggles
    <3>1. PICK stage \in After(sub_2[e], unit(e).copy.type) : Ask(e, stage)
      BY <1>5, <2>2
    <3> QED
      BY <3>1, AfterIsName, AskedFields
  <2> QED
    BY <2>1, <2>2
<1> QED
  BY <1>1, <1>4, <1>6 DEF EditInv

LEMMA ToTableKeeps ==
  ASSUME EditInv, NEW e, has_unit(e), ToTable(e) \/ UNCHANGED <<table, live>>
  PROVE  TableOK(table') /\ LiveOK(live')
<1>1. CASE ToTable(e)
  <2>1. table' = ed_save_edit(e) /\ live' = effect(e)
    BY <1>1 DEF ToTable
  <2> QED
    BY <2>1, TableKept DEF EditInv
<1>2. CASE UNCHANGED <<table, live>>
  BY <1>2 DEF EditInv
<1> QED
  BY <1>1, <1>2

LEMMA SaveKeeps ==
  ASSUME EditInv, NEW e \in Editor, Save(e)
  PROVE  EditInv'
<1>1. UNCHANGED <<kind, mode, sub_1, sub_2, sub_3, editing, down>>
  BY DEF Save
<1>2. has_unit(e) /\ (ToTable(e) \/ UNCHANGED <<table, live>>)
  BY DEF Save, AtMenu
<1>3. TableOK(table') /\ LiveOK(live')
  BY <1>2, ToTableKeeps
<1> QED
  BY <1>1, <1>3 DEF EditInv

(* The end of an edit takes the editor out, and his unit away. *)
LEMMA EndKeeps ==
  ASSUME EditInv, NEW e \in Editor, Cleared(e),
         \/ has_unit(e) /\ editing' = del_editing(e)
         \/ editing' = editing,
         mode' \in [Editor -> BOOLEAN], kind' = kind, down' \in BOOLEAN,
         TableOK(table'), LiveOK(live')
  PROVE  EditInv'
<1>1. /\ EntriesOK(editing')
      /\ \A d : d # e /\ HasEntry(editing, d) => HasEntry(editing', d)
  <2>1. CASE has_unit(e) /\ editing' = del_editing(e)
    BY <2>1, DelEntry DEF EditInv
  <2>2. CASE editing' = editing
    BY <2>2 DEF EditInv
  <2> QED
    BY <2>1, <2>2
<1> QED
  BY <1>1, ClearedFields DEF EditInv

LEMMA QuitKeeps ==
  ASSUME EditInv, NEW e \in Editor, Quit(e)
  PROVE  EditInv'
<1>1. UNCHANGED <<kind, mode, table, live, down>>
  BY DEF Quit
<1>2. CASE Cleared(e)
  <2>1. \/ has_unit(e) /\ editing' = del_editing(e)
        \/ editing' = editing
    BY DEF Quit, NotFound
  <2> QED
    BY <1>1, <1>2, <2>1, EndKeeps DEF EditInv
<1>3. CASE ~Cleared(e)
  <2>1. /\ Ask(e, "QUIT") /\ sub_3' = [sub_3 EXCEPT ![e] = "YESNO"]
        /\ UNCHANGED <<sub_1, editing>>
    BY <1>3 DEF Quit, NotFound
  <2>2. sub_2' \in [Editor -> Stages]
    BY <2>1, StagesAre, AskedFields
  <2> QED
    BY <1>1, <2>1, <2>2 DEF EditInv
<1> QED
  BY <1>2, <1>3

LEMMA ConfirmKeeps ==
  ASSUME EditInv, NEW e \in Editor, NEW yes, Confirm(e, yes)
  PROVE  EditInv'
<1>1. /\ UNCHANGED <<kind, mode, down>> /\ has_unit(e)
      /\ Cleared(e) /\ editing' = del_editing(e)
      /\ ToTable(e) \/ UNCHANGED <<table, live>>
  BY DEF Confirm, Asked
<1>2. TableOK(table') /\ LiveOK(live')
  BY <1>1, ToTableKeeps
<1>3. mode' \in [Editor -> BOOLEAN] /\ kind' = kind /\ down' \in BOOLEAN
  BY <1>1 DEF EditInv
<1> QED
  BY <1>1, <1>2, <1>3, EndKeeps

LEMMA AbandonKeeps ==
  ASSUME EditInv, NEW e \in Editor, Abandon(e)
  PROVE  EditInv'
<1>1. /\ UNCHANGED <<kind, mode, table, live, down>> /\ has_unit(e)
      /\ Cleared(e) /\ editing' = del_editing(e)
  BY DEF Abandon, AtMenu
<1>2. /\ mode' \in [Editor -> BOOLEAN] /\ kind' = kind /\ down' \in BOOLEAN
      /\ TableOK(table') /\ LiveOK(live')
  BY <1>1 DEF EditInv
<1> QED
  BY <1>1, <1>2, EndKeeps

(* To another entry: the old unit goes, and the new one is made, or the    *)
(* server stops.                                                           *)
LEMMA GoOnKeeps ==
  ASSUME EditInv, NEW e \in Editor, NEW n \in Slot, has_unit(e), GoOn(e, n, table'),
         UNCHANGED <<kind, mode>>, TableOK(table'), LiveOK(live')
  PROVE  EditInv'
<1> DEFINE rest == del_editing(e)
<1>1. CASE find_editing(rest, e, n) = 0
  <2>1. /\ editing' = new_editing(rest, table', e, n) /\ Ask(e, "NONE")
        /\ UNCHANGED <<sub_1, sub_3, down>>
    BY <1>1 DEF GoOn
  <2>2. /\ EntriesOK(rest)
        /\ \A d : d # e /\ HasEntry(editing, d) => HasEntry(rest, d)
    BY DelEntry DEF EditInv
  <2> HIDE DEF rest
  <2>3. /\ EntriesOK(editing') /\ HasEntry(editing', e)
        /\ \A d : HasEntry(rest, d) => HasEntry(editing', d)
    BY <1>1, <2>1, <2>2, NewEntry
  <2>4. sub_2' \in [Editor -> Stages]
    BY <2>1, StagesAre, AskedFields
  <2>5. \A d : HasEntry(editing, d) => HasEntry(editing', d)
    BY <2>2, <2>3
  <2> QED
    BY <2>1, <2>3, <2>4, <2>5 DEF EditInv
<1>2. CASE find_editing(rest, e, n) # 0
  <2>1. editing' = rest /\ Cleared(e) /\ down' = TRUE
    BY <1>2 DEF GoOn
  <2>2. mode' \in [Editor -> BOOLEAN] /\ kind' = kind /\ down' \in BOOLEAN
    BY <2>1 DEF EditInv
  <2> QED
    BY <2>1, <2>2, EndKeeps
<1> QED
  BY <1>1, <1>2

LEMMA NextKeeps ==
  ASSUME EditInv, NEW e \in Editor, NEW n \in Numbers, NEW keep, Next_edit(e, n, keep)
  PROVE  EditInv'
<1>1. /\ has_unit(e) /\ GoOn(e, n, table') /\ UNCHANGED <<kind, mode>>
      /\ ToTable(e) \/ UNCHANGED <<table, live>>
  BY DEF Next_edit, AtMenu
<1>2. TableOK(table') /\ LiveOK(live')
  BY <1>1, ToTableKeeps
<1>3. n \in Slot
  BY EditorsAssumption DEF Slot, Numbers
<1> QED
  BY <1>1, <1>2, <1>3, GoOnKeeps

LEMMA ChangeKeeps ==
  ASSUME EditInv, NEW e \in Editor, NEW n \in Numbers, Change_edit(e, n)
  PROVE  EditInv'
<1>1. /\ has_unit(e) /\ GoOn(e, n, table') /\ UNCHANGED <<kind, mode, live>>
      /\ table' = ed_save_edit(e) \/ table' = table
  BY DEF Change_edit, AtMenu
<1>2. TableOK(table') /\ LiveOK(live')
  BY <1>1, TableKept DEF EditInv
<1>3. n \in Slot
  BY EditorsAssumption DEF Slot, Numbers
<1> QED
  BY <1>1, <1>2, <1>3, GoOnKeeps

LEMMA LeaveKeeps ==
  ASSUME EditInv, NEW e \in Editor, Leave(e)
  PROVE  EditInv'
<1>1. /\ UNCHANGED <<kind, table, live, down>> /\ Cleared(e)
      /\ mode' = [mode EXCEPT ![e] = FALSE]
  BY DEF Leave
<1>2. \/ has_unit(e) /\ editing' = del_editing(e)
      \/ editing' = editing
  BY DEF Leave, char_from_world
<1>3. /\ mode' \in [Editor -> BOOLEAN] /\ kind' = kind /\ down' \in BOOLEAN
      /\ TableOK(table') /\ LiveOK(live')
  BY <1>1 DEF EditInv
<1> QED
  BY <1>1, <1>2, <1>3, EndKeeps

LEMMA EditInitInv == EditInit => EditInv
<1> SUFFICES ASSUME EditInit PROVE EditInv
  OBVIOUS
<1>1. /\ kind \in Kinds /\ down \in BOOLEAN /\ mode \in [Editor -> BOOLEAN]
      /\ sub_1 \in [Editor -> {"NONE", "EDIT"}] /\ sub_3 \in [Editor -> {"NONE", "YESNO"}]
      /\ \A e \in Editor : sub_1[e] # "EDIT"
  BY DEF EditInit
<1>2. sub_2 \in [Editor -> Stages]
  BY StagesAre DEF EditInit
<1>3. EntriesOK(editing)
  BY DEF EditInit, EntriesOK, EntriesApart
<1>4. TableOK(table) /\ LiveOK(live)
  <2>1. PICK v \in Values, t \in Types :
          /\ table = [n \in Slot |-> [value |-> v, type |-> t, zone |-> 0]]
          /\ live = [n \in Slot |-> v]
    BY DEF EditInit
  <2> QED
    BY <2>1 DEF TableOK, LiveOK, EntryRecord
<1> QED
  BY <1>1, <1>2, <1>3, <1>4 DEF EditInv

LEMMA EditStepOK == EditInv /\ [EditNext]_edit_vars => EditInv'
<1> SUFFICES ASSUME EditInv, [EditNext]_edit_vars PROVE EditInv'
  OBVIOUS
<1>1. CASE EditNext
  <2>1. PICK e \in Editor : EditStep(e)
    BY <1>1 DEF EditNext
  <2>2. CASE do_edit(e) \/ ed_quit(e)
    BY <2>2, ModeKeeps
  <2>3. CASE \E n \in Slot : Open(e, n)
    BY <2>3, OpenKeeps
  <2>4. CASE \E stage \in Menu(unit(e).copy.type) : Choose(e, stage)
    BY <2>4, ChooseKeeps
  <2>5. CASE EmptyLine(e) \/ Answer(e)
    BY <2>5, EnterKeeps, AnswerKeeps
  <2>6. CASE Save(e) \/ Quit(e) \/ Abandon(e)
    BY <2>6, SaveKeeps, QuitKeeps, AbandonKeeps
  <2>7. CASE \E yes \in BOOLEAN : Confirm(e, yes)
    BY <2>7, ConfirmKeeps
  <2>8. CASE \E n \in Numbers, keep \in BOOLEAN : Next_edit(e, n, keep)
    BY <2>8, NextKeeps
  <2>9. CASE \E n \in Numbers : Change_edit(e, n)
    BY <2>9, ChangeKeeps
  <2>10. CASE Leave(e)
    BY <2>10, LeaveKeeps
  <2> QED
    BY <2>1, <2>2, <2>3, <2>4, <2>5, <2>6, <2>7, <2>8, <2>9, <2>10 DEF EditStep
<1>2. CASE UNCHANGED edit_vars
  BY <1>2 DEF edit_vars, EditInv
<1> QED
  BY <1>1, <1>2

LEMMA EditInvMeans == EditInv => EditTypeOK /\ UnitsApart
<1> SUFFICES ASSUME EditInv PROVE EditTypeOK /\ UnitsApart
  OBVIOUS
<1>1. EditTypeOK
  BY DEF EditInv, EditTypeOK, EntriesOK, TableOK, LiveOK
<1>2. DOMAIN editing = 1 .. Len(editing) /\ DOMAIN sub_1 = Editor
  BY EntryNumbers DEF EditInv
<1>3. \A i, j \in DOMAIN editing : i # j => editing[i].nr # editing[j].nr /\ editing[i].who # editing[j].who
  BY <1>2 DEF EditInv, EntriesOK, EntriesApart
<1>4. \A e \in DOMAIN sub_1 : sub_1[e] = "EDIT" => has_unit(e)
  BY <1>2, EditUnitFound DEF EditInv
<1> QED
  BY <1>1, <1>3, <1>4 DEF UnitsApart

(* Every field of the editors keeps its type: a question is always one of  *)
(* the stages of the four kinds, and a unit is of an entry of the table.   *)
THEOREM EditorsTyped == EditSpec => []EditTypeOK
<1>1. EditInit => EditInv
  BY EditInitInv
<1>2. EditInv /\ [EditNext]_edit_vars => EditInv'
  BY EditStepOK
<1>3. EditInv => EditTypeOK
  BY EditInvMeans
<1> QED
  BY <1>1, <1>2, <1>3, PTL DEF EditSpec

(* No two units are of one entry or of one editor, and who is in an editor *)
(* has a unit, whatever the editors open, save, leave and go on with.      *)
THEOREM UnitsStayApart == EditSpec => []UnitsApart
<1>1. EditInit => EditInv
  BY EditInitInv
<1>2. EditInv /\ [EditNext]_edit_vars => EditInv'
  BY EditStepOK
<1>3. EditInv => UnitsApart
  BY EditInvMeans
<1> QED
  BY <1>1, <1>2, <1>3, PTL DEF EditSpec

-----------------------------------------------------------------------------
(* The services side by side, as they are model-checked: a behaviour of    *)
(* them is one of every part.  Only the shutdown has no theorem of its own *)
(* above; its types are an invariant as they stand.                        *)
DownFlags == /\ late \in BOOLEAN /\ lever \in BOOLEAN /\ friend \in BOOLEAN
             /\ stopshutdown \in BOOLEAN /\ autoshutdown \in BOOLEAN
DownCounts == nr \in 0..11 /\ manualshutdown \in Int /\ shutdowngame \in 0..4 /\ typed \in 0..MaxTyped

LEMMA DownTyping == Down!TypeOK <=> DownFlags /\ DownCounts
BY DEF Down!TypeOK, DownFlags, DownCounts

LEMMA DownStarts == Down!Init => Down!TypeOK
<1> SUFFICES ASSUME Down!Init PROVE DownFlags /\ DownCounts
  BY DownTyping
<1>1. DownFlags
  BY Zenon DEF Down!Init, DownFlags
<1>2. nr = 0 /\ manualshutdown = 0 /\ shutdowngame = 0 /\ typed = 0
  BY DEF Down!Init
<1> QED
  BY <1>1, <1>2, DownAssumption DEF DownCounts

(* The flags: which are set, and by whom.                                  *)
LEMMA DownFlagged ==
  ASSUME DownFlags, Down!Next
  PROVE  DownFlags'
<1> USE DEF DownFlags
<1>1. CASE Down!auto_reboot
  <2>1. UNCHANGED <<late, friend, stopshutdown>>
    BY <1>1 DEF Down!auto_reboot
  <2>2. lever' = TRUE \/ UNCHANGED lever
    BY <1>1, Zenon DEF Down!auto_reboot, Down!Missing, Down!Held, Down!ByHand, Down!ByClock, Down!Quiet
  <2>3. autoshutdown' = TRUE \/ UNCHANGED autoshutdown
    BY <1>1, Zenon DEF Down!auto_reboot, Down!Missing, Down!Held, Down!ByHand, Down!ByClock, Down!Quiet
  <2> QED
    BY <2>1, <2>2, <2>3, Zenon
<1>2. CASE Down!pulse
  BY <1>2 DEF Down!pulse
<1>3. CASE Down!do_shutdown \/ Down!shutdown_request
  <2>1. stopshutdown' \in BOOLEAN
    BY <1>3, Zenon DEF Down!do_shutdown, Down!shutdown_request, Down!Typed
  <2>2. UNCHANGED <<late, lever, friend, autoshutdown>>
    BY <1>3 DEF Down!do_shutdown, Down!shutdown_request, Down!Typed
  <2> QED
    BY <2>1, <2>2
<1>4. CASE Down!Hours
  BY <1>4, Zenon DEF Down!Hours
<1>5. CASE \E h, f \in BOOLEAN : Down!Mob(h, f)
  BY <1>5, Zenon DEF Down!Mob
<1> QED
  BY <1>1, <1>2, <1>3, <1>4, <1>5 DEF Down!Next

(* The counter that serves for three things stays below twelve: it ends at *)
(* eleven when Reboot is made again, and at five when he pulls the lever.  *)
LEMMA DownCounted ==
  ASSUME DownCounts, Down!Next
  PROVE  DownCounts'
<1> USE DEF DownCounts
<1>1. CASE Down!auto_reboot
  <2>1. UNCHANGED typed /\ (Down!Missing \/ Down!Held \/ Down!ByHand \/ Down!ByClock \/ Down!Quiet)
    BY <1>1 DEF Down!auto_reboot
  <2>2. Down!Counted \in 0..5
    BY DEF Down!Counted
  <2>3. CASE Down!Missing
    <3>1. nr' \in 0..11 /\ UNCHANGED <<manualshutdown, shutdowngame>>
      BY <2>3 DEF Down!Missing
    <3> QED
      BY <2>1, <3>1
  <2>4. CASE Down!Held \/ Down!Quiet
    <3>1. nr' \in {0, Down!Counted} /\ UNCHANGED <<manualshutdown, shutdowngame>>
      BY <2>4 DEF Down!Held, Down!Quiet
    <3> QED
      BY <2>1, <2>2, <3>1
  <2>5. CASE Down!ByHand
    <3>1. /\ nr' = Down!Counted /\ manualshutdown' = manualshutdown - 1
          /\ shutdowngame' \in {shutdowngame, 4}
      BY <2>5 DEF Down!ByHand
    <3> QED
      BY <2>1, <2>2, <3>1
  <2>6. CASE Down!ByClock
    <3>1. /\ nr' = 5 \/ (nr' = Down!Counted + 1)
          /\ manualshutdown' \in {manualshutdown, -1} /\ shutdowngame' \in {shutdowngame, 4}
      BY <2>6 DEF Down!ByClock
    <3> QED
      BY <2>1, <2>2, <3>1
  <2> QED
    BY <2>1, <2>3, <2>4, <2>5, <2>6
<1>2. CASE Down!pulse
  BY <1>2 DEF Down!pulse
<1>3. CASE Down!do_shutdown \/ Down!shutdown_request
  <2>1. /\ typed < MaxTyped /\ typed' = typed + 1 /\ UNCHANGED nr
        /\ shutdowngame' \in {2, shutdowngame}
        /\ manualshutdown' \in Minutes \cup {0, manualshutdown}
    BY <1>3 DEF Down!do_shutdown, Down!shutdown_request, Down!Typed
  <2> QED
    BY <2>1, DownAssumption
<1>4. CASE Down!Hours \/ \E h, f \in BOOLEAN : Down!Mob(h, f)
  BY <1>4 DEF Down!Hours, Down!Mob
<1> QED
  BY <1>1, <1>2, <1>3, <1>4 DEF Down!Next

LEMMA DownSteps == Down!TypeOK /\ [Down!Next]_down_vars => Down!TypeOK'
<1>1. CASE UNCHANGED down_vars
  BY <1>1 DEF down_vars, Down!TypeOK
<1>2. CASE DownFlags /\ DownCounts /\ Down!Next
  <2>1. DownFlags' /\ DownCounts'
    BY <1>2, DownFlagged, DownCounted
  <2> QED
    BY <2>1 DEF Down!TypeOK, DownFlags, DownCounts
<1> QED
  BY <1>1, <1>2, DownTyping

LEMMA ServicesStart ==
  ServicesInit => /\ BoxInit /\ PageInit /\ CoinInit /\ StashInit
                  /\ ZoneInit /\ EditInit /\ Down!Init
<1> SUFFICES ASSUME ServicesInit PROVE StashInit
  BY DEF ServicesInit
<1> DEFINE p == IF part \in StashParts THEN part ELSE "rented"
<1>1. StartsOn(Starting[p]) /\ p \in StashParts
  BY DEF ServicesInit, StashParts
<1>2. \E players \in SUBSET Renter : Starting[p] \in Files(players)
  BY <1>1, StartingAssumption
<1> QED
  BY <1>1, <1>2 DEF StashInit

LEMMA ServicesSteps ==
  [ServicesNext]_services_vars => /\ [BoxNext]_box_vars
                                  /\ [PageNext]_page_vars
                                  /\ [CoinNext]_coin_vars
                                  /\ [StashNext]_stash_vars
                                  /\ [ZoneNext]_zone_vars
                                  /\ [EditNext]_edit_vars
                                  /\ [Down!Next]_down_vars
BY DEF ServicesNext, EditorStep, BoxStep, PageStep, CoinsStep, StashStep, DoorStep, DownStep, services_vars

LEMMA ServicesParts ==
  ServicesSpec => /\ BoxSpec /\ PageSpec /\ CoinSpec /\ StashSpec
                  /\ []ZoneInv /\ []EditInv /\ []Down!TypeOK
<1>1. ZoneInit => ZoneInv
  BY ZoneInitInv
<1>2. ZoneInv /\ [ZoneNext]_zone_vars => ZoneInv'
  BY ZoneNextInv
<1>3. EditInit => EditInv
  BY EditInitInv
<1>4. EditInv /\ [EditNext]_edit_vars => EditInv'
  BY EditStepOK
<1> QED
  BY <1>1, <1>2, <1>3, <1>4, DownStarts, DownSteps, ServicesStart, ServicesSteps, PTL
     DEF ServicesSpec, BoxSpec, PageSpec, CoinSpec, StashSpec

(* Side by side, too, every part keeps its types; the countdowns of        *)
(* spec.reboot.c and main.c stay within theirs.                            *)
THEOREM ServicesTyped == ServicesSpec => []TypesOK
<1>1. EditTypeOK /\ BoxTypeOK /\ PageTypeOK /\ CoinTypeOK /\ StashTypeOK /\ ZoneTypeOK /\ Down!TypeOK => TypesOK
  BY DEF TypesOK
<1>2. EditInv => EditTypeOK
  BY EditInvMeans
<1> QED
  BY <1>1, <1>2, ServicesParts, BoxesTyped, PagesTyped, CoinsTyped, StashTyped, ZoneTyping, PTL

(* What is promised of the parts holds of the services, in one theorem:    *)
(* heads and doors match, a reboot keeps rights and coins, the latest text *)
(* is turned, help is found, units are apart; no step makes coins or       *)
(* copies, and who has insured a key has it until he gets it back.         *)
THEOREM ServicesKeep ==
  ServicesSpec => /\ [](HeadsMatch /\ DoorsAgree /\ RebootKeeps)
                  /\ [](TurnsLatest /\ HelpFinds /\ UnitsApart)
                  /\ NoCoinsMade /\ NoMoreCopies /\ KeysReturned
<1>1. EditInv => UnitsApart
  BY EditInvMeans
<1> QED
  BY <1>1, ServicesParts, HeadsSafe, SidesAgree, RebootTakesNothing, LatestTurned, HelpAlwaysFinds,
     CoinsNotMade, NothingDoubled, InsuredKept, PTL
=============================================================================
