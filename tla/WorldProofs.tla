----------------------------- MODULE WorldProofs -----------------------------
(***************************************************************************)
(* Four parts of the world, for all their constants, and the four side by  *)
(* side as MCWorld runs them: each step of the world is a step of one part *)
(* and leaves the others as they are, so the world keeps what each keeps.  *)
(*                                                                         *)
(* Connections: whoever closes whom, a pass treats each connection once,   *)
(* and select looks at all of them.  The pass is at a place of the list,   *)
(* and what it has still to treat are the connections from there on.  A    *)
(* connection that is closed before that place, behind it, or at it leaves *)
(* this true, because close_socket moves next_to_process from the record   *)
(* it is about to free.  Without bans the game is full only while its last *)
(* file descriptor is taken.                                               *)
(*                                                                         *)
(* Followers: masters and lists of followers agree, nobody follows         *)
(* himself, and who left the world is free.  Every action changes masters  *)
(* and lists in one of two ways: some leave their masters, and one may get *)
(* another whom he does not lead.  The lemmas say what that does to each   *)
(* part of the invariant.                                                  *)
(*                                                                         *)
(* Timed affects: the number of a player is what is his for good and what  *)
(* is on him.  The lemmas say what sums of modifiers do when affects and   *)
(* objects come and go, and that what affect_total takes off for good is   *)
(* what nothing gives any more.                                            *)
(*                                                                         *)
(* Affects per round: for every initial size, growth and amount of memory  *)
(* the allocator hands out records nobody holds, and grows only when all   *)
(* are held; its invariant says that the array of indices leads from       *)
(* nextfree over all free records, and only over these, to max.  For any   *)
(* owners the global list and the lists of the owners have exactly the     *)
(* records in use, and a walk treats every affect it has to treat.  The    *)
(* invariant says that each list is a chain: a sequence of different       *)
(* records, each linked to the next one and the last to nothing.  Taking   *)
(* one record out of a chain leaves the rest of every chain that ends in   *)
(* it, so what the cursor of a walk leads to is always such a rest.        *)
(***************************************************************************)
EXTENDS MCWorld, ThingsProofs

-----------------------------------------------------------------------------
(* Connections. *)

Loops == pass \in 2 .. 5
NextDue == IF treating THEN next_to_process ELSE point

(* The connections from the k-th one on. *)
Rest(k) == {desc_list[j] : j \in k .. Len(desc_list)}

ListInv == /\ desc_list \in Seq(Fd)
           /\ \A i, j \in 1 .. Len(desc_list) : desc_list[i] = desc_list[j] => i = j
           /\ \A i \in 1 .. Len(desc_list) : desc_list[i] # s
           /\ pass \in 1 .. 6
LastInv == /\ last_desc \in Fd /\ s <= last_desc
           /\ \A i \in 1 .. Len(desc_list) : desc_list[i] <= last_desc
PassInv == Loops => \/ NextDue = NoFd /\ untreated = {}
                    \/ \E k \in 1 .. Len(desc_list) : NextDue = desc_list[k] /\ untreated = Rest(k)
TypeInv == /\ point \in Fd \cup {NoFd} /\ next_to_process \in Fd \cup {NoFd}
           /\ untreated \subseteq Fd
FlagInv == treating \in BOOLEAN /\ banned \in BOOLEAN
LoopInv == ListInv /\ LastInv /\ PassInv /\ TypeInv /\ FlagInv

-----------------------------------------------------------------------------
LEMMA PassCount == Len(Passes) = 6
BY DEF Passes

LEMMA PassNames ==
  ASSUME ListInv
  PROVE  /\ In("accept") <=> pass = 1
         /\ In("updates") <=> pass = 6
         /\ In("except") \/ In("input") \/ In("commands") \/ In("output") <=> Loops
         /\ In("commands") => Loops
BY DEF ListInv, In, Passes, Loops

LEMMA Connections ==
  ASSUME ListInv
  PROVE  /\ Len(desc_list) \in Nat
         /\ DOMAIN desc_list = 1 .. Len(desc_list)
         /\ \A i \in 1 .. Len(desc_list) : desc_list[i] \in Fd
         /\ \A i \in 1 .. Len(desc_list) : PlaceOf(desc_list[i]) = i
         /\ \A d : d \in Connected <=> \E i \in 1 .. Len(desc_list) : desc_list[i] = d
<1>1. Len(desc_list) \in Nat /\ DOMAIN desc_list = 1 .. Len(desc_list)
  BY LenProperties DEF ListInv
<1>2. \A i \in 1 .. Len(desc_list) : desc_list[i] \in Fd
  BY ElementOfSeq DEF ListInv
<1>3. ASSUME NEW i \in 1 .. Len(desc_list)
      PROVE  PlaceOf(desc_list[i]) = i
  BY <1>1, <1>3 DEF ListInv, PlaceOf
<1>4. \A d : d \in Connected <=> \E i \in 1 .. Len(desc_list) : desc_list[i] = d
  BY <1>1 DEF Connected
<1> QED
  BY <1>1, <1>2, <1>3, <1>4

(* Two lists have the same members, but for d. *)
LEMMA SameMembers ==
  ASSUME NEW f, NEW g, NEW A, NEW B, NEW d,
         \A a \in A : f[a] # d => \E b \in B : g[b] = f[a],
         \A b \in B : \E a \in A : g[b] = f[a] /\ f[a] # d
  PROVE  {f[a] : a \in A} \ {d} = {g[b] : b \in B}
<1>1. ASSUME NEW e, e \in {f[a] : a \in A} \ {d}
      PROVE  e \in {g[b] : b \in B}
  BY <1>1
<1>2. ASSUME NEW e, e \in {g[b] : b \in B}
      PROVE  e \in {f[a] : a \in A} \ {d}
  BY <1>2
<1> QED
  BY <1>1, <1>2

(* NextOf leads to the next place, or to the end. *)
LEMMA NextPlace ==
  ASSUME ListInv, NEW k \in 1 .. Len(desc_list)
  PROVE  /\ k < Len(desc_list) => NextOf(desc_list[k]) = desc_list[k + 1] /\ k + 1 \in 1 .. Len(desc_list)
         /\ k = Len(desc_list) => NextOf(desc_list[k]) = NoFd
         /\ Rest(k) \ {desc_list[k]} = Rest(k + 1)
         /\ Rest(Len(desc_list) + 1) = {}
<1>1. PlaceOf(desc_list[k]) = k /\ Len(desc_list) \in Nat
  BY Connections
<1>2. Rest(k) \ {desc_list[k]} = Rest(k + 1)
  BY <1>1 DEF Rest, ListInv
<1>3. Rest(Len(desc_list) + 1) = {}
  BY <1>1 DEF Rest
<1> QED
  BY <1>1, <1>2, <1>3 DEF NextOf

-----------------------------------------------------------------------------
(* The initial state. *)
LEMMA LoopStarts == ASSUME LoopInit PROVE LoopInv
<1>1. desc_list \in Seq(Fd) /\ Len(desc_list) = 0
  BY EmptySeq DEF LoopInit
<1>2. ListInv
  <2>1. pass = 1
    BY DEF LoopInit
  <2> QED
    BY <1>1, <2>1 DEF ListInv
<1>3. LastInv
  BY <1>1, DescAssumption DEF LoopInit, LastInv, Fd
<1>4. ~Loops
  BY DEF LoopInit, Loops
<1>5. TypeInv
  BY DEF LoopInit, TypeInv
<1>6. FlagInv
  BY Zenon DEF LoopInit, FlagInv
<1> QED
  BY <1>2, <1>3, <1>4, <1>5, <1>6 DEF LoopInv, PassInv

(* The next pass begins at the head of the list. *)
LEMMA GotoInv ==
  ASSUME LoopInv, NEW p \in 2 .. 6, Goto(p, desc_list'), ListInv', LastInv'
  PROVE  LoopInv'
<1>1. /\ pass' = p /\ next_to_process' = next_to_process
      /\ point' = IF desc_list' = <<>> THEN NoFd ELSE Head(desc_list')
      /\ untreated' = {desc_list'[i] : i \in DOMAIN desc_list'}
  BY DEF Goto
<1>2. FlagInv' /\ ~treating'
  BY Zenon DEF Goto, LoopInv, FlagInv
<1>3. NextDue' = point'
  BY <1>2 DEF NextDue
<1>4. Len(desc_list') \in Nat /\ DOMAIN desc_list' = 1 .. Len(desc_list') /\ desc_list' \in Seq(Fd)
      /\ \A i \in 1 .. Len(desc_list') : desc_list'[i] \in Fd
  BY LenProperties, ElementOfSeq DEF ListInv
<1>5. CASE desc_list' = <<>>
  <2>1. point' = NoFd /\ untreated' = {}
    BY <1>1, <1>5
  <2> QED
    BY <1>1, <1>2, <1>3, <2>1 DEF LoopInv, PassInv, TypeInv
<1>6. CASE desc_list' # <<>>
  <2>1. 1 \in 1 .. Len(desc_list') /\ Head(desc_list') = desc_list'[1]
    BY <1>4, <1>6, EmptySeq
  <2>2. NextDue' = desc_list'[1] /\ untreated' = Rest(1)'
    BY <1>1, <1>3, <1>4, <1>6, <2>1 DEF Rest
  <2>3. TypeInv'
    BY <1>1, <1>4, <1>6, <2>1 DEF LoopInv, TypeInv
  <2> QED
    BY <1>2, <2>1, <2>2, <2>3 DEF LoopInv, PassInv
<1> QED
  BY <1>5, <1>6

LEMMA ListKept ==
  ASSUME ListInv, desc_list' = desc_list, pass' \in 1 .. 6
  PROVE  ListInv'
BY DEF ListInv

LEMMA LastKept ==
  ASSUME LoopInv, desc_list' = desc_list, last_desc' \in Fd, last_desc' >= last_desc
  PROVE  LastInv'
<1>1. \A i \in 1 .. Len(desc_list) : desc_list[i] \in Fd /\ desc_list[i] <= last_desc
  BY Connections DEF LoopInv, LastInv
<1> QED
  BY <1>1, DescAssumption DEF LoopInv, LastInv, Fd

(* A connection comes: it is the first of the list, and was not in it.     *)
LEMMA NewLoopInv ==
  ASSUME LoopInv, NEW d \in Fd, new_descriptor(d)
  PROVE  LoopInv'
<1>1. /\ d \in Fd /\ d # s /\ d \notin Connected
      /\ last_desc' = IF d > last_desc THEN d ELSE last_desc
      /\ desc_list' = <<d>> \o desc_list
      /\ Goto(2, desc_list')
  BY DEF new_descriptor, Lowest, Free
<1>2. pass' = 2
  BY <1>1 DEF Goto
<1>3. /\ Len(desc_list) \in Nat
      /\ \A i \in 1 .. Len(desc_list) : desc_list[i] \in Fd /\ desc_list[i] # d /\ desc_list[i] # s
  BY <1>1, Connections DEF LoopInv, ListInv
<1>4. /\ desc_list' \in Seq(Fd) /\ Len(desc_list') = Len(desc_list) + 1
      /\ \A i \in 1 .. Len(desc_list) + 1 : desc_list'[i] = IF i = 1 THEN d ELSE desc_list[i - 1]
  BY <1>1, <1>3 DEF LoopInv, ListInv
<1>5. ListInv'
  <2>1. ASSUME NEW i \in 1 .. Len(desc_list'), NEW j \in 1 .. Len(desc_list'), desc_list'[i] = desc_list'[j]
        PROVE  i = j
    <3>1. i \in 1 .. Len(desc_list) + 1 /\ j \in 1 .. Len(desc_list) + 1
      BY <1>4
    <3>2. i # 1 => i - 1 \in 1 .. Len(desc_list)
      BY <1>3, <3>1
    <3>3. j # 1 => j - 1 \in 1 .. Len(desc_list)
      BY <1>3, <3>1
    <3>4. CASE i = 1 \/ j = 1
      BY <1>3, <1>4, <2>1, <3>1, <3>2, <3>3, <3>4
    <3>5. CASE i # 1 /\ j # 1
      <4>1. desc_list[i - 1] = desc_list[j - 1]
        BY <1>4, <2>1, <3>1, <3>5
      <4>2. i - 1 = j - 1
        BY <3>2, <3>3, <3>5, <4>1 DEF LoopInv, ListInv
      <4> QED
        BY <3>1, <4>2
    <3> QED
      BY <3>4, <3>5
  <2>2. ASSUME NEW i \in 1 .. Len(desc_list')
        PROVE  desc_list'[i] # s
    BY <1>1, <1>3, <1>4
  <2> QED
    BY <1>2, <1>4, <2>1, <2>2 DEF ListInv
<1>6. LastInv'
  <2>1. last_desc' \in Fd /\ last_desc' >= last_desc /\ last_desc' >= d /\ s <= last_desc'
    BY <1>1, DescAssumption DEF LoopInv, LastInv, Fd
  <2>2. \A i \in 1 .. Len(desc_list) : desc_list[i] <= last_desc'
    BY <1>3, <2>1, DescAssumption DEF LoopInv, LastInv, Fd
  <2> QED
    BY <1>3, <1>4, <2>1, <2>2 DEF LastInv
<1> QED
  BY <1>1, <1>5, <1>6, GotoInv

(* One that is refused only raises last_desc. *)
LEMMA RefusedInv ==
  ASSUME LoopInv, NEW d \in Fd, unfriendly_domain(d)
  PROVE  LoopInv'
<1>1. /\ last_desc' = IF d > last_desc THEN d ELSE last_desc
      /\ desc_list' = desc_list /\ Goto(2, desc_list')
  BY DEF unfriendly_domain
<1>2. ListInv'
  <2>1. pass' = 2
    BY <1>1 DEF Goto
  <2> QED
    BY <1>1, <2>1, ListKept DEF LoopInv
<1>3. last_desc' \in Fd /\ last_desc' >= last_desc
  BY <1>1, DescAssumption DEF LoopInv, LastInv, Fd
<1>4. LastInv'
  BY <1>1, <1>3, LastKept
<1> QED
  BY <1>1, <1>2, <1>4, GotoInv

(* The end of a pass, and no connection. *)
LEMMA GoneOnInv ==
  ASSUME LoopInv, NoConnection \/ EndPass
  PROVE  LoopInv'
<1>1. UNCHANGED <<desc_list, last_desc>>
  BY DEF NoConnection, EndPass
<1>2. PICK p \in 2 .. 6 : Goto(p, desc_list')
  <2>1. CASE NoConnection
    BY <1>1, <2>1 DEF NoConnection
  <2>2. CASE EndPass
    <3>1. pass + 1 \in 2 .. 6
      BY <2>2, PassCount DEF EndPass, LoopInv, ListInv
    <3>2. Goto(pass + 1, desc_list')
      BY <1>1, <2>2 DEF EndPass
    <3> QED
      BY <3>1, <3>2
  <2> QED
    BY <2>1, <2>2
<1>3. pass' \in 1 .. 6
  BY <1>2 DEF Goto
<1>4. ListInv'
  BY <1>1, <1>3, ListKept DEF LoopInv
<1>5. last_desc' \in Fd /\ last_desc' >= last_desc
  BY <1>1, DescAssumption DEF LoopInv, LastInv, Fd
<1>6. LastInv'
  BY <1>1, <1>5, LastKept
<1> QED
  BY <1>2, <1>4, <1>6, GotoInv

-----------------------------------------------------------------------------
(* A connection is closed: by its own handler, another's, or the updates.  *)
LEMMA CloseSocket ==
  ASSUME LoopInv, NEW d, close_socket(d)
  PROVE  \E m \in 1 .. Len(desc_list) :
           /\ desc_list[m] = d
           /\ desc_list' = RemoveAt(desc_list, m)
           /\ desc_list' \in Seq(Fd) /\ Len(desc_list') = Len(desc_list) - 1
           /\ \A i \in 1 .. Len(desc_list) - 1 :
                desc_list'[i] = IF i < m THEN desc_list[i] ELSE desc_list[i + 1]
           /\ IsInjective(desc_list')
           /\ \A i \in 1 .. Len(desc_list) - 1 :
                \E j \in 1 .. Len(desc_list) : desc_list'[i] = desc_list[j] /\ desc_list[j] # d
<1>1. PICK m \in 1 .. Len(desc_list) : desc_list[m] = d
  BY Connections DEF LoopInv, close_socket
<1>2. PlaceOf(d) = m
  BY <1>1, Connections DEF LoopInv
<1>3. desc_list' = RemoveAt(desc_list, m)
  BY <1>2 DEF close_socket
<1>4. desc_list \in Seq(Fd) /\ IsInjective(desc_list)
  BY Connections DEF LoopInv, ListInv, IsInjective
<1> HIDE DEF close_socket
<1>5. /\ RemoveAt(desc_list, m) \in Seq(Fd)
      /\ Len(RemoveAt(desc_list, m)) = Len(desc_list) - 1
      /\ \A i \in 1 .. Len(desc_list) - 1 :
           RemoveAt(desc_list, m)[i] = IF i < m THEN desc_list[i] ELSE desc_list[i + 1]
  BY <1>4, RemoveAtProperties, Zenon
<1>6. /\ IsInjective(RemoveAt(desc_list, m))
      /\ \A i \in 1 .. Len(desc_list) - 1 :
           \E j \in 1 .. Len(desc_list) :
             RemoveAt(desc_list, m)[i] = desc_list[j] /\ desc_list[j] # desc_list[m]
  BY <1>4, RemoveAtInjective, Zenon
<1> QED
  BY <1>1, <1>3, <1>5, <1>6, Zenon

LEMMA CloseInv ==
  ASSUME LoopInv, NEW d, close_socket(d), treating \/ ~Loops
  PROVE  LoopInv'
<1> DEFINE n == Len(desc_list)
<1>1. PICK m \in 1 .. n :
        /\ desc_list[m] = d
        /\ desc_list' \in Seq(Fd) /\ Len(desc_list') = n - 1
        /\ \A i \in 1 .. n - 1 : desc_list'[i] = IF i < m THEN desc_list[i] ELSE desc_list[i + 1]
        /\ IsInjective(desc_list')
        /\ \A i \in 1 .. n - 1 : \E j \in 1 .. n : desc_list'[i] = desc_list[j] /\ desc_list[j] # d
  BY CloseSocket
<1>2. n \in Nat /\ \A i \in 1 .. n : desc_list[i] \in Fd
  BY Connections DEF LoopInv
<1> HIDE DEF n
<1>3. /\ last_desc' = LastWithout(d) /\ next_to_process' = NextWithout(d) /\ untreated' = untreated \ {d}
      /\ pass' = pass /\ point' = point
  BY DEF close_socket
<1>4. treating' = treating /\ FlagInv'
  BY Zenon DEF close_socket, LoopInv, FlagInv
<1>5. ListInv'
  <2>1. \A i \in 1 .. n - 1 : desc_list'[i] # s
    BY <1>1 DEF LoopInv, ListInv, n
  <2>2. \A i, j \in 1 .. n - 1 : desc_list'[i] = desc_list'[j] => i = j
    BY <1>1, LenProperties DEF IsInjective
  <2> QED
    BY <1>1, <1>3, <2>1, <2>2 DEF LoopInv, ListInv
<1>6. LastInv'
  <2>1. d \in Fd /\ d # s /\ d <= last_desc /\ last_desc \in Fd /\ s <= last_desc
    BY <1>1, <1>2 DEF LoopInv, ListInv, LastInv, n
  <2>2. last_desc' \in Fd /\ s <= last_desc'
    BY <1>3, <2>1, DescAssumption DEF LastWithout, Fd
  <2>3. ASSUME NEW i \in 1 .. n - 1
        PROVE  desc_list'[i] <= last_desc'
    <3>1. PICK j \in 1 .. n : desc_list'[i] = desc_list[j] /\ desc_list[j] # d
      BY <1>1
    <3>2. desc_list[j] \in Fd /\ desc_list[j] <= last_desc
      BY <1>2 DEF LoopInv, LastInv, n
    <3> QED
      BY <1>3, <2>1, <3>1, <3>2, DescAssumption DEF LastWithout, Fd
  <2> QED
    BY <1>1, <2>2, <2>3 DEF LastInv
<1>7. TypeInv'
  <2>1. NextOf(d) \in Fd \cup {NoFd}
    BY <1>1, <1>2, NextPlace DEF LoopInv, n
  <2> QED
    BY <1>3, <2>1 DEF LoopInv, TypeInv, NextWithout
<1>8. PassInv'
  <2> SUFFICES ASSUME Loops
               PROVE  PassInv'
    BY <1>3 DEF PassInv, Loops
  <2>1. NextDue = next_to_process /\ NextDue' = next_to_process'
    BY <1>4 DEF NextDue
  <2>2. Rest(n + 1) = {} /\ Rest(m) \ {d} = Rest(m + 1)
    BY <1>1, NextPlace DEF LoopInv, n
  <2>3. \A k : Rest(k)' = {desc_list'[j] : j \in k .. n - 1}
    BY <1>1 DEF Rest
  <2>6. \A k : Rest(k) = {desc_list[j] : j \in k .. n}
    BY DEF Rest, n
  <2>4. CASE NextDue = NoFd /\ untreated = {}
    <3>1. NextDue # d
      BY <1>1, <1>2, <2>4, DescAssumption DEF Fd
    <3>2. NextDue' = NoFd /\ untreated' = {}
      BY <1>3, <2>1, <2>4, <3>1 DEF NextWithout
    <3> QED
      BY <3>2 DEF PassInv
  <2>5. ASSUME NEW k \in 1 .. n, NextDue = desc_list[k], untreated = Rest(k)
        PROVE  PassInv'
    <3>1. CASE k = m
      <4>1. NextDue' = NextOf(desc_list[m]) /\ untreated' = Rest(m) \ {d} /\ untreated' = Rest(m + 1)
        BY <1>1, <1>3, <2>1, <2>2, <2>5, <3>1 DEF NextWithout
      <4>2. CASE m = n
        <5>1. NextDue' = NoFd /\ untreated' = {}
          BY <2>2, <4>1, <4>2, NextPlace DEF LoopInv, n
        <5> QED
          BY <5>1 DEF PassInv
      <4>3. CASE m < n
        <5>1. m \in 1 .. n - 1 /\ desc_list'[m] = desc_list[m + 1]
          BY <1>1, <1>2, <4>3
        <5>2. NextDue' = desc_list'[m]
          BY <4>1, <4>3, <5>1, NextPlace DEF LoopInv, n
        <5>3. Rest(m) \ {d} = Rest(m)'
          <6>1. \A j \in m .. n - 1 : j + 1 \in m .. n /\ desc_list'[j] = desc_list[j + 1] /\ desc_list[j + 1] # d
            <7> SUFFICES ASSUME NEW j \in m .. n - 1
                         PROVE  j + 1 \in m .. n /\ desc_list'[j] = desc_list[j + 1] /\ desc_list[j + 1] # d
              OBVIOUS
            <7>1. j \in 1 .. n - 1 /\ ~(j < m) /\ j + 1 \in m .. n /\ j + 1 \in 1 .. n /\ j + 1 # m
              BY <1>1, <1>2
            <7>2. desc_list'[j] = desc_list[j + 1]
              BY <1>1, <1>2, <7>1
            <7>3. desc_list[j + 1] # desc_list[m]
              BY <1>1, <7>1 DEF LoopInv, ListInv, n
            <7> QED
              BY <1>1, <7>1, <7>2, <7>3
          <6>2. \A j \in m .. n : desc_list[j] # d => j - 1 \in m .. n - 1 /\ desc_list'[j - 1] = desc_list[j]
            <7> SUFFICES ASSUME NEW j \in m .. n, desc_list[j] # d
                         PROVE  j - 1 \in m .. n - 1 /\ desc_list'[j - 1] = desc_list[j]
              OBVIOUS
            <7>1. j # m /\ j - 1 \in 1 .. n - 1 /\ ~(j - 1 < m) /\ j - 1 + 1 = j
              BY <1>1, <1>2
            <7> QED
              BY <1>1, <1>2, <7>1
          <6> QED
            BY <2>6, <2>3, <6>1, <6>2, SameMembers
        <5> QED
          BY <1>1, <4>1, <5>1, <5>2, <5>3 DEF PassInv
      <4> QED
        BY <1>2, <4>2, <4>3
    <3>2. CASE k < m
      <4>1. k \in 1 .. n - 1 /\ desc_list'[k] = desc_list[k] /\ desc_list[k] # d
        BY <1>1, <1>2, <3>2 DEF LoopInv, ListInv, n
      <4>2. NextDue' = desc_list'[k] /\ untreated' = Rest(k) \ {d}
        BY <1>3, <2>1, <2>5, <4>1 DEF NextWithout
      <4>3. Rest(k) \ {d} = Rest(k)'
        <5>1. \A j \in k .. n - 1 : \E i \in k .. n : desc_list'[j] = desc_list[i] /\ desc_list[i] # d
          BY <1>1, <1>2 DEF LoopInv, ListInv, n
        <5>2. ASSUME NEW i \in k .. n, desc_list[i] # d
              PROVE  \E j \in k .. n - 1 : desc_list'[j] = desc_list[i]
          <6>1. CASE i < m
            BY <1>1, <1>2, <3>2, <6>1
          <6>2. CASE i > m
            <7>1. i - 1 \in k .. n - 1 /\ i - 1 \in 1 .. n - 1 /\ ~(i - 1 < m) /\ i - 1 + 1 = i
              BY <1>2, <3>2, <6>2
            <7> QED
              BY <1>1, <7>1
          <6> QED
            BY <1>1, <1>2, <5>2, <6>1, <6>2
        <5> QED
          BY <2>3, <2>6, <5>1, <5>2, SameMembers
      <4> QED
        BY <1>1, <4>1, <4>2, <4>3 DEF PassInv
    <3>3. CASE k > m
      <4>1. /\ k - 1 \in 1 .. n - 1 /\ desc_list'[k - 1] = desc_list[k]
            /\ \A i \in k .. n : desc_list[i] # d
        BY <1>1, <1>2, <3>3 DEF LoopInv, ListInv, n
      <4>2. NextDue' = desc_list'[k - 1] /\ untreated' = Rest(k) \ {d}
        BY <1>2, <1>3, <2>1, <2>5, <4>1 DEF NextWithout
      <4>3. Rest(k) \ {d} = Rest(k - 1)'
        <5>1. \A j \in k - 1 .. n - 1 : j + 1 \in k .. n /\ desc_list'[j] = desc_list[j + 1] /\ desc_list[j + 1] # d
          BY <1>1, <1>2, <3>3, <4>1
        <5>2. \A j \in k .. n : j - 1 \in k - 1 .. n - 1 /\ desc_list'[j - 1] = desc_list[j]
          BY <1>1, <1>2, <3>3
        <5> QED
          BY <2>3, <2>6, <5>1, <5>2, SameMembers
      <4> QED
        BY <1>1, <4>1, <4>2, <4>3 DEF PassInv
    <3> QED
      BY <1>2, <3>1, <3>2, <3>3
  <2> QED
    BY <2>4, <2>5 DEF LoopInv, PassInv, n
<1> QED
  BY <1>4, <1>5, <1>6, <1>7, <1>8 DEF LoopInv

-----------------------------------------------------------------------------
(* A connection is treated. *)
LEMMA TreatInv ==
  ASSUME LoopInv, Treat
  PROVE  LoopInv'
<1>1. /\ Loops /\ point # NoFd
      /\ next_to_process' = NextOf(point) /\ untreated' = untreated \ {point}
      /\ UNCHANGED <<desc_list, last_desc, pass, point>>
  BY PassNames DEF LoopInv, Treat
<1>2. ~treating /\ treating' /\ FlagInv'
  BY Zenon DEF Treat, LoopInv, FlagInv
<1>3. NextDue = point /\ NextDue' = NextOf(point)
  BY <1>1, <1>2 DEF NextDue
<1>4. PICK k \in 1 .. Len(desc_list) : point = desc_list[k] /\ untreated = Rest(k)
  BY <1>1, <1>3 DEF LoopInv, PassInv
<1>5. untreated' = Rest(k + 1) /\ Len(desc_list) \in Nat /\ desc_list' = desc_list
  BY <1>1, <1>4, NextPlace, Connections DEF LoopInv
<1>6. PassInv'
  <2>1. CASE k = Len(desc_list)
    <3>1. NextDue' = NoFd /\ untreated' = {}
      BY <1>3, <1>4, <1>5, <2>1, NextPlace DEF LoopInv
    <3> QED
      BY <3>1 DEF PassInv
  <2>2. CASE k < Len(desc_list)
    <3>1. k + 1 \in 1 .. Len(desc_list) /\ NextDue' = desc_list[k + 1]
      BY <1>3, <1>4, <2>2, NextPlace DEF LoopInv
    <3>2. Rest(k + 1)' = Rest(k + 1)
      BY <1>5 DEF Rest
    <3> QED
      BY <1>5, <3>1, <3>2 DEF PassInv
  <2> QED
    BY <1>5, <2>1, <2>2
<1>7. TypeInv'
  <2>1. NextOf(point) \in Fd \cup {NoFd}
    <3>1. CASE k = Len(desc_list)
      BY <1>4, <3>1, NextPlace DEF LoopInv
    <3>2. CASE k < Len(desc_list)
      <4>1. NextOf(point) = desc_list[k + 1] /\ k + 1 \in 1 .. Len(desc_list)
        BY <1>4, <3>2, NextPlace DEF LoopInv
      <4> QED
        BY <4>1, Connections DEF LoopInv
    <3> QED
      BY <1>5, <3>1, <3>2
  <2> QED
    BY <1>1, <2>1 DEF LoopInv, TypeInv
<1>8. ListInv' /\ LastInv'
  BY <1>1, ListKept, LastKept, DescAssumption DEF LoopInv, ListInv, LastInv, Fd
<1> QED
  BY <1>2, <1>6, <1>7, <1>8 DEF LoopInv

(* What changes no list, no bound and no place in a pass. *)
LEMMA SamePlace ==
  ASSUME LoopInv, UNCHANGED <<desc_list, last_desc, next_to_process, untreated>>,
         pass' \in 1 .. 6, Loops' => Loops, NextDue' = NextDue, point' \in Fd \cup {NoFd}, FlagInv'
  PROVE  LoopInv'
<1>1. \A k : Rest(k)' = Rest(k)
  BY DEF Rest
<1>2. PassInv'
  BY <1>1 DEF LoopInv, PassInv
<1> QED
  BY <1>2 DEF LoopInv, ListInv, LastInv, TypeInv

LEMMA LoopSteps ==
  ASSUME LoopInv, [LoopNext]_loop_vars
  PROVE  LoopInv'
<1>1. CASE NoConnection \/ EndPass
  BY <1>1, GoneOnInv
<1>2. CASE \E d \in Fd : new_descriptor(d) \/ unfriendly_domain(d)
  BY <1>2, NewLoopInv, RefusedInv
<1>3. CASE Treat
  BY <1>3, TreatInv
<1>4. CASE Fails \/ \E d \in Fd : Closes(d)
  BY <1>4, CloseInv DEF Fails, Closes
<1>5. CASE \E d \in Fd : Extracted(d)
  <2>1. ~Loops
    BY <1>5, PassNames DEF Extracted, LoopInv, Loops
  <2> QED
    BY <1>5, <2>1, CloseInv DEF Extracted
<1>6. CASE Processed
  <2>1. /\ UNCHANGED <<desc_list, last_desc, pass, next_to_process, untreated>>
        /\ point' = next_to_process
    BY <1>6 DEF Processed
  <2>2. treating /\ ~treating' /\ FlagInv'
    BY <1>6, Zenon DEF Processed, LoopInv, FlagInv
  <2>3. NextDue' = NextDue
    BY <2>1, <2>2 DEF NextDue
  <2> QED
    BY <2>1, <2>2, <2>3, SamePlace DEF LoopInv, ListInv, TypeInv, Loops
<1>7. CASE do_wizlock
  <2>1. UNCHANGED <<desc_list, last_desc, pass, point, next_to_process, treating, untreated>>
    BY <1>7 DEF do_wizlock
  <2>2. FlagInv'
    BY <1>7, Zenon DEF do_wizlock, LoopInv, FlagInv
  <2> QED
    BY <2>1, <2>2, SamePlace DEF LoopInv, ListInv, TypeInv, Loops, NextDue
<1>8. CASE EndPulse \/ UNCHANGED loop_vars
  <2>1. UNCHANGED <<desc_list, last_desc, point, next_to_process, treating, untreated, banned>> /\ (pass' = 1 \/ pass' = pass)
    BY <1>8 DEF EndPulse, loop_vars
  <2> QED
    BY <2>1, SamePlace DEF LoopInv, ListInv, TypeInv, Loops, NextDue, FlagInv
<1> QED
  BY <1>1, <1>2, <1>3, <1>4, <1>5, <1>6, <1>7, <1>8 DEF LoopNext

LEMMA LoopAlways == LoopSpec => []LoopInv
<1>1. LoopInit => LoopInv
  BY LoopStarts
<1>2. LoopInv /\ [LoopNext]_loop_vars => LoopInv'
  BY LoopSteps
<1> QED
  BY <1>1, <1>2, PTL DEF LoopSpec

-----------------------------------------------------------------------------
(* The invariant bounds every variable. *)
LEMMA LoopTypes == LoopInv => LoopOK
<1> SUFFICES ASSUME LoopInv PROVE LoopOK
  OBVIOUS
<1>1. IsInjective(desc_list)
  BY Connections DEF LoopInv, ListInv, IsInjective
<1> QED
  BY <1>1, PassCount DEF LoopInv, ListInv, LastInv, TypeInv, FlagInv, LoopOK

(* Types: the cursors and the bound are file descriptors (sockets.c).      *)
THEOREM LoopTyped == LoopSpec => []LoopOK
BY LoopTypes, LoopAlways, PTL

(* What is still to treat is the rest of the list. *)
LEMMA LoopCovers == LoopInv => PassCovers
<1> SUFFICES ASSUME LoopInv, Loops
             PROVE  LET rest == {e \in Connected : NextDue # NoFd /\
                                   \E i, j \in DOMAIN desc_list : desc_list[i] = NextDue /\ desc_list[j] = e /\ i <= j}
                    IN untreated = rest /\ (NextDue # NoFd => NextDue \in Connected)
  BY PassCount DEF PassCovers, LoopInv, ListInv, Loops, NextDue
<1>1. CASE NextDue = NoFd /\ untreated = {}
  BY <1>1
<1>2. ASSUME NEW k \in 1 .. Len(desc_list), NextDue = desc_list[k], untreated = Rest(k)
      PROVE  /\ NextDue \in Connected
             /\ untreated = {e \in Connected : NextDue # NoFd /\
                         \E i, j \in DOMAIN desc_list : desc_list[i] = NextDue /\ desc_list[j] = e /\ i <= j}
  <2>1. NextDue \in Connected /\ NextDue # NoFd
    BY <1>2, Connections, DescAssumption DEF LoopInv, Fd
  <2>2. ASSUME NEW e
        PROVE  e \in Rest(k) <=> e \in Connected /\
                 \E i, j \in DOMAIN desc_list : desc_list[i] = NextDue /\ desc_list[j] = e /\ i <= j
    BY <1>2, Connections DEF LoopInv, ListInv, Rest
  <2> QED
    BY <1>2, <2>1, <2>2
<1> QED
  BY <1>1, <1>2 DEF LoopInv, PassInv

(* Every pass of game_loop treats each connection that was there when it   *)
(* began, and still is, exactly once, for any number of connections.       *)
THEOREM PassesCover == LoopSpec => []PassCovers
BY LoopCovers, LoopAlways, PTL

(* Every connection is at or below last_desc. *)
LEMMA LoopSees == LoopInv => SelectSeesAll
BY Connections DEF LoopInv, LastInv, SelectSeesAll

(* select looks at the socket of every connection (close_socket lowers     *)
(* last_desc only when the last one leaves).                               *)
THEOREM SelectSees == LoopSpec => []SelectSeesAll
BY LoopSees, LoopAlways, PTL

-----------------------------------------------------------------------------
(* As long as no site is banned, the game counts as full only while the    *)
(* last file descriptor for players is taken: who connects gets at most    *)
(* the one after last_desc, which is free.                                 *)
LastTaken == Avail - 1 \in Connected
FullInv == last_desc < Avail /\ (~banned /\ Full => LastTaken)

LEMMA SameFull ==
  ASSUME FullInv, UNCHANGED <<desc_list, last_desc>>, banned' = banned \/ banned' = TRUE
  PROVE  FullInv'
<1>1. Full' <=> Full
  BY DEF Full
<1>2. LastTaken' <=> LastTaken
  BY DEF LastTaken, Connected
<1>3. ~banned' => ~banned
  BY Zenon
<1>4. last_desc' < Avail
  BY DEF FullInv
<1> QED
  BY <1>1, <1>2, <1>3, <1>4, Zenon DEF FullInv

(* A new connection gets at most the file descriptor after last_desc. *)
LEMMA LowestNext ==
  ASSUME LoopInv, NEW d \in Fd, Lowest(d), ~Full
  PROVE  last_desc \in Nat /\ last_desc + 1 < Avail /\ d <= last_desc + 1
<1>1. last_desc \in Nat /\ s <= last_desc /\ last_desc + 1 < Avail
  BY DescAssumption DEF LoopInv, LastInv, Fd, Full
<1>2. last_desc + 1 \notin Connected
  BY <1>1, Connections, DescAssumption DEF LoopInv, LastInv, Fd
<1>3. last_desc + 1 \in Free
  BY <1>1, <1>2, DescAssumption DEF Free, Fd
<1> QED
  BY <1>1, <1>3 DEF Lowest

LEMMA NewFull ==
  ASSUME LoopInv, NEW d \in Fd, new_descriptor(d)
  PROVE  FullInv'
<1>1. /\ ~Full /\ Lowest(d)
      /\ last_desc' = IF d > last_desc THEN d ELSE last_desc
      /\ desc_list' = <<d>> \o desc_list
  BY DEF new_descriptor
<1>2. last_desc \in Nat /\ last_desc + 1 < Avail /\ d <= last_desc + 1 /\ d \in Nat
  BY <1>1, LowestNext DEF Fd
<1>3. CASE d > last_desc
  <2>1. last_desc' = last_desc + 1 /\ d = last_desc + 1
    BY <1>1, <1>2, <1>3
  <2>2. Full' => d = Avail - 1
    BY <1>2, <2>1, DescAssumption DEF Full
  <2>3. /\ desc_list' \in Seq(Fd) /\ Len(desc_list') \in Nat /\ 1 <= Len(desc_list')
        /\ desc_list'[1] = d
    BY <1>1, LenProperties DEF LoopInv, ListInv
  <2>4. d \in Connected'
    BY <2>3, LenProperties DEF Connected
  <2> QED
    BY <1>2, <2>1, <2>2, <2>4 DEF FullInv, LastTaken
<1>4. CASE ~(d > last_desc)
  BY <1>1, <1>2, <1>4, DescAssumption DEF FullInv, Full
<1> QED
  BY <1>3, <1>4

LEMMA CloseFull ==
  ASSUME LoopInv, FullInv, NEW d, close_socket(d), s + 1 < Avail
  PROVE  FullInv'
<1>1. d \in Connected /\ last_desc' = LastWithout(d)
  BY DEF close_socket
<1>2. banned' = banned
  BY DEF close_socket
<1>3. last_desc \in Nat /\ last_desc < Avail /\ d \in Nat /\ d <= last_desc
  BY <1>1, Connections, DescAssumption DEF LoopInv, ListInv, LastInv, Fd, FullInv
<1>4. CASE d = last_desc
  BY <1>1, <1>3, <1>4, DescAssumption DEF FullInv, Full, LastWithout
<1>5. CASE d # last_desc
  <2>1. last_desc' = last_desc
    BY <1>1, <1>5 DEF LastWithout
  <2>2. Full => last_desc = Avail - 1
    BY <1>3, DescAssumption DEF Full
  <2>3. PICK m \in 1 .. Len(desc_list) :
          /\ desc_list[m] = d
          /\ desc_list' \in Seq(Fd) /\ Len(desc_list') = Len(desc_list) - 1
          /\ \A i \in 1 .. Len(desc_list) - 1 :
               desc_list'[i] = IF i < m THEN desc_list[i] ELSE desc_list[i + 1]
    BY CloseSocket
  <2>4. ASSUME NEW j \in 1 .. Len(desc_list), desc_list[j] # d
        PROVE  desc_list[j] \in Connected'
    <3>1. Len(desc_list) \in Nat /\ DOMAIN desc_list' = 1 .. Len(desc_list) - 1
      BY <2>3, Connections, LenProperties DEF LoopInv
    <3>2. CASE j < m
      BY <2>3, <3>1, <3>2 DEF Connected
    <3>3. CASE ~(j < m)
      <4>1. j - 1 \in 1 .. Len(desc_list) - 1 /\ ~(j - 1 < m)
        BY <2>3, <2>4, <3>1, <3>3
      <4>2. desc_list'[j - 1] = desc_list[j]
        BY <2>3, <4>1
      <4> QED
        BY <3>1, <4>1, <4>2 DEF Connected
    <3> QED
      BY <3>2, <3>3
  <2>5. LastTaken /\ d # Avail - 1 => LastTaken'
    BY <2>4, Connections DEF LoopInv, LastTaken
  <2>6. ~banned' /\ Full' => LastTaken'
    <3>1. Full' => Full
      BY <2>1 DEF Full
    <3>2. ~banned' => ~banned
      BY <1>2, Zenon
    <3>3. Full => d # Avail - 1
      BY <1>5, <2>2
    <3> QED
      BY <2>5, <3>1, <3>2, <3>3, Zenon DEF FullInv
  <2> QED
    BY <1>3, <2>1, <2>6 DEF FullInv
<1> QED
  BY <1>4, <1>5

LEMMA RefusedFull ==
  ASSUME LoopInv, NEW d \in Fd, unfriendly_domain(d)
  PROVE  FullInv'
<1>1. ~Full /\ Lowest(d) /\ last_desc' = IF d > last_desc THEN d ELSE last_desc
  BY DEF unfriendly_domain
<1>2. last_desc \in Nat /\ last_desc + 1 < Avail /\ d <= last_desc + 1 /\ d \in Nat
  BY <1>1, LowestNext DEF Fd
<1>3. last_desc' < Avail
  BY <1>1, <1>2, DescAssumption
<1>4. banned /\ banned' = banned
  BY Zenon DEF unfriendly_domain, Goto
<1>5. banned'
  BY <1>4, Zenon
<1> QED
  BY <1>3, <1>5, Zenon DEF FullInv

LEMMA FullSteps ==
  ASSUME LoopInv, FullInv, s + 1 < Avail, [LoopNext]_loop_vars
  PROVE  FullInv'
<1>1. CASE NoConnection \/ EndPass
  BY <1>1, SameFull, Zenon DEF NoConnection, EndPass, Goto
<1>2. CASE Treat \/ Processed \/ EndPulse \/ do_wizlock
  BY <1>2, SameFull, Zenon DEF Treat, Processed, EndPulse, do_wizlock
<1>3. CASE UNCHANGED loop_vars
  BY <1>3, SameFull, Zenon DEF loop_vars
<1>4. CASE Fails
  BY <1>4, CloseFull DEF Fails
<1>5. ASSUME NEW d \in Fd, Closes(d) \/ Extracted(d)
      PROVE  FullInv'
  BY <1>5, CloseFull DEF Closes, Extracted
<1>6. ASSUME NEW d \in Fd, new_descriptor(d)
      PROVE  FullInv'
  BY <1>6, NewFull
<1>7. ASSUME NEW d \in Fd, unfriendly_domain(d)
      PROVE  FullInv'
  BY <1>7, RefusedFull
<1> QED
  BY <1>1, <1>2, <1>3, <1>4, <1>5, <1>6, <1>7 DEF LoopNext

(* Who is told that the game is full finds players in it, unless a site    *)
(* was banned (sockets.c new_descriptor): the bans alone break this.       *)
THEOREM FullOfPlayers ==
  ASSUME s + 1 < Avail
  PROVE  LoopSpec => [](~banned => FullHasPlayers)
<1>1. LoopInit => FullInv
  BY DescAssumption DEF LoopInit, FullInv, Full
<1>2. LoopInv /\ FullInv /\ [LoopNext]_loop_vars => FullInv'
  BY FullSteps
<1>3. LoopInv /\ FullInv => (~banned => FullHasPlayers)
  BY Connections DEF LoopInv, FullInv, LastTaken, FullHasPlayers
<1> QED
  BY <1>1, <1>2, <1>3, LoopAlways, PTL DEF LoopSpec

-----------------------------------------------------------------------------
(* Followers. *)

BandInv == FollowersOK /\ LinksAgree /\ NoLoops /\ GoneAreFree

(* The masters and lists after those of loose were let go and c follows l.  *)
Rewired(loose, c, l) ==
  /\ loose \subseteq Char
  /\ master' = [x \in Char |-> IF x = c /\ l # NONE THEN l ELSE IF x \in loose THEN NONE ELSE master[x]]
  /\ followers' = [x \in Char |-> {k \in followers[x] : ~(k \in loose /\ master[k] = x)}
                                    \cup (IF x = l THEN {c} ELSE {})]

(* c was free or is let go, and is not above l. *)
Proper(loose, c, l) ==
  \/ c = NONE /\ l = NONE
  \/ c \in Char /\ l \in Char /\ (master[c] = NONE \/ c \in loose) /\ ~circle_follow(c, l)

LEMMA RewiredTypes ==
  ASSUME FollowersOK, NEW loose, NEW c, NEW l, Rewired(loose, c, l), Proper(loose, c, l)
  PROVE  master' \in [Char -> Char \cup {NONE}] /\ followers' \in [Char -> SUBSET Char]
BY FollowersAssumption DEF FollowersOK, Rewired, Proper, FollowersAssumption

LEMMA RewiredAgree ==
  ASSUME FollowersOK, LinksAgree, NEW loose, NEW c, NEW l, Rewired(loose, c, l), Proper(loose, c, l)
  PROVE  LinksAgree'
<1> SUFFICES ASSUME NEW k \in Char, NEW x \in Char
             PROVE  k \in followers'[x] <=> master'[k] = x
  BY DEF LinksAgree
<1>1. k \in followers[x] <=> master[k] = x
  BY DEF LinksAgree
<1>2. followers'[x] = {j \in followers[x] : ~(j \in loose /\ master[j] = x)} \cup (IF x = l THEN {c} ELSE {})
  BY DEF Rewired
<1>3. master'[k] = IF k = c /\ l # NONE THEN l ELSE IF k \in loose THEN NONE ELSE master[k]
  BY DEF Rewired
<1> QED
  BY <1>1, <1>2, <1>3, FollowersAssumption DEF Proper, FollowersAssumption, FollowersOK

LEMMA RewiredLoops ==
  ASSUME FollowersOK, NoLoops, NEW loose, NEW c, NEW l, Rewired(loose, c, l), Proper(loose, c, l)
  PROVE  NoLoops'
<1> SUFFICES ASSUME NEW S \in SUBSET Char, \A x \in S : master'[x] \in S
             PROVE  S = {}
  BY DEF NoLoops
<1>1. \A x \in S : master'[x] = IF x = c /\ l # NONE THEN l ELSE IF x \in loose THEN NONE ELSE master[x]
  BY DEF Rewired
<1>2. NONE \notin S
  BY FollowersAssumption DEF FollowersAssumption
<1>3. CASE c \in S /\ l # NONE
  <2>1. l \in S /\ ~circle_follow(c, l) /\ c \in Char
    BY <1>1, <1>3, <1>2 DEF Proper
  <2>2. PICK T \in SUBSET Char : l \in T /\ Upwards(T) /\ c \notin T
    BY <2>1 DEF circle_follow
  <2>3. \A x \in S \cap T : master[x] \in S \cap T
    BY <1>1, <1>2, <2>2, <1>3 DEF Upwards
  <2>4. S \cap T = {}
    BY <2>3, NoLoops DEF NoLoops
  <2> QED
    BY <2>1, <2>2, <2>4
<1>4. CASE ~(c \in S /\ l # NONE)
  <2>1. \A x \in S : master[x] \in S
    BY <1>1, <1>2, <1>4
  <2> QED
    BY <2>1 DEF NoLoops
<1> QED
  BY <1>3, <1>4

(* Who follows nobody and leads nobody stays so. *)
LEMMA RewiredFree ==
  ASSUME FollowersOK, NEW loose, NEW c, NEW l, Rewired(loose, c, l), NEW x \in Char,
         master[x] = NONE, followers[x] = {}, x # c, x # l
  PROVE  master'[x] = NONE /\ followers'[x] = {}
BY DEF Rewired

-----------------------------------------------------------------------------
LEMMA FollowStarts == FollowInit => BandInv
BY FollowersAssumption DEF FollowInit, BandInv, FollowersOK, LinksAgree, NoLoops, GoneAreFree, InWorld, FollowersAssumption

(* A step that lets some go, and nothing else of who is where. *)
LEMMA ReboundInv ==
  ASSUME BandInv, NEW loose, NEW c, NEW l, loose \subseteq Char, Rebound(loose, c, l), Proper(loose, c, l),
         c # NONE => InWorld(c) /\ InWorld(l),
         group' \in SUBSET Char, UNCHANGED bodies,
         \A x \in Char : ~InWorld(x) => x \notin group'
  PROVE  BandInv'
<1> USE DEF BandInv
<1>1. Rewired(loose, c, l)
  BY DEF Rewired, Rebound
<1>2. FollowersOK'
  <2>1. charm' \in [Char -> {"no", "spell", "pet"}]
    BY DEF Rebound, FollowersOK
  <2> QED
    BY <1>1, <2>1, RewiredTypes DEF FollowersOK, bodies
<1>3. LinksAgree' /\ NoLoops'
  BY <1>1, RewiredAgree, RewiredLoops
<1>4. GoneAreFree'
  <2> SUFFICES ASSUME NEW x \in Char, ~InWorld(x)'
               PROVE  master'[x] = NONE /\ followers'[x] = {} /\ x \notin group'
    BY DEF GoneAreFree
  <2>1. ~InWorld(x) /\ master[x] = NONE /\ followers[x] = {}
    BY DEF InWorld, bodies, GoneAreFree
  <2>2. x # c /\ x # l
    BY <2>1, FollowersAssumption DEF Proper, FollowersAssumption
  <2> QED
    BY <1>1, <2>1, <2>2, RewiredFree
<1> QED
  BY <1>2, <1>3, <1>4

LEMMA LedInChar == ASSUME NEW c \in Char PROVE Led(c) \subseteq Char
BY DEF Led

LEMMA DieInChar == ASSUME FollowersOK, NEW c \in Char PROVE die_follower(c) \subseteq Char
BY LedInChar DEF die_follower, FollowersOK

(* A step that leaves masters, lists and the group alone. *)
LEMMA AloneInv ==
  ASSUME BandInv, UNCHANGED <<master, followers, group>>, FollowersOK',
         \A x \in Char : InWorld(x) => InWorld(x)'
  PROVE  BandInv'
BY DEF BandInv, LinksAgree, NoLoops, GoneAreFree

(* A step that leaves masters and lists alone, and puts nobody in the      *)
(* group who is not in the world.                                          *)
LEMMA GroupedInv ==
  ASSUME BandInv, UNCHANGED <<master, followers, charm, bodies>>, group' \in SUBSET Char,
         \A x \in group' : x \in group \/ InWorld(x)
  PROVE  BandInv'
BY DEF BandInv, FollowersOK, LinksAgree, NoLoops, GoneAreFree, InWorld, bodies

(* Two who have something to do with each other are in the world.          *)
LEMMA LinkedInWorld ==
  ASSUME BandInv, NEW c \in Char, NEW k \in Char, k \in followers[c] \/ master[c] = k
  PROVE  InWorld(c) /\ InWorld(k)
BY FollowersAssumption DEF BandInv, FollowersOK, LinksAgree, GoneAreFree, FollowersAssumption

LEMMA HereInWorld ==
  ASSUME NEW c \in Char, NEW v \in Char, Here(c, v)
  PROVE  InWorld(c) /\ InWorld(v)
BY DEF Here, InWorld

-----------------------------------------------------------------------------
LEMMA FollowInv ==
  ASSUME BandInv, NEW c \in Char, NEW l \in Char, do_follow(c, l)
  PROVE  BandInv'
<1>1. InWorld(c) /\ InWorld(l) /\ c # NONE
  BY HereInWorld, FollowersAssumption DEF do_follow, FollowersAssumption
<1>2. group' \in SUBSET Char /\ UNCHANGED bodies /\ \A x \in Char : ~InWorld(x) => x \notin group'
  BY DEF BandInv, FollowersOK, GoneAreFree, do_follow
<1>3. CASE l = c
  <2>1. Rebound({c}, NONE, NONE) /\ Proper({c}, NONE, NONE)
    BY <1>3 DEF do_follow, stop_follower, Proper
  <2> QED
    BY <1>2, <2>1, ReboundInv
<1>4. CASE l # c
  <2>1. Rebound(Led(c), c, l)
    BY <1>4 DEF do_follow, add_follower
  <2>2. Proper(Led(c), c, l)
    BY <1>4 DEF do_follow, Circle, Proper, Led
  <2> QED
    BY <1>1, <1>2, <2>1, <2>2, LedInChar, ReboundInv
<1> QED
  BY <1>3, <1>4

(* The steps in which some leave their masters and nobody gets one. *)
LEMMA StopInv ==
  ASSUME BandInv, NEW loose \in SUBSET Char, stop_follower(loose), group' \subseteq group, UNCHANGED bodies
  PROVE  BandInv'
<1>1. Rebound(loose, NONE, NONE) /\ Proper(loose, NONE, NONE)
  BY DEF stop_follower, Proper
<1>2. group' \in SUBSET Char /\ \A x \in Char : ~InWorld(x) => x \notin group'
  BY DEF BandInv, FollowersOK, GoneAreFree
<1> QED
  BY <1>1, <1>2, ReboundInv

LEMMA UngroupInv == ASSUME BandInv, NEW c \in Char, do_ungroup(c) PROVE BandInv'
<1> DEFINE loose == Led(c) \cup {k \in followers[c] : k \notin Npc /\ charm[k] = "no"}
<1>1. loose \in SUBSET Char
  BY LedInChar DEF BandInv, FollowersOK
<1>2. stop_follower(loose) /\ group' \subseteq group /\ UNCHANGED bodies
  BY DEF do_ungroup, ungrouped
<1> QED
  BY <1>1, <1>2, StopInv

LEMMA DamageInv == ASSUME BandInv, NEW c \in Char, NEW v \in Char, damage(c, v) PROVE BandInv'
<1> DEFINE loose == (IF is_same_group(c, v) THEN die_follower(v) ELSE {}) \cup (IF master[v] = c THEN {v} ELSE {})
<1>1. loose \in SUBSET Char
  BY DieInChar DEF BandInv
<1>2. stop_follower(loose) /\ group' \subseteq group /\ UNCHANGED bodies
  BY DEF damage
<1> QED
  BY <1>1, <1>2, StopInv

LEMMA GroupInv ==
  ASSUME BandInv, NEW c \in Char, NEW v \in Char, group_all(c) \/ do_group(c, v)
  PROVE  BandInv'
<1>1. UNCHANGED <<master, followers, charm, bodies>>
  BY DEF group_all, do_group
<1>2. group' \in SUBSET Char
  BY DEF group_all, do_group, BandInv, FollowersOK
<1>3. \A k \in followers[c] : InWorld(k)
  BY LinkedInWorld DEF BandInv, FollowersOK
<1>4. InWorld(c)
  BY LinkedInWorld DEF group_all, do_group, MayAct, Typed, Ordered, Here, InWorld
<1>5. \A x \in group' : x \in group \/ InWorld(x)
  BY <1>3, <1>4, HereInWorld DEF group_all, do_group
<1> QED
  BY <1>1, <1>2, <1>5, GroupedInv

(* A charmed one leaves his master for the one who charms him.             *)
LEMMA CharmInv ==
  ASSUME BandInv, NEW c \in Char, NEW v \in Char, spell_charm_person(c, v)
  PROVE  BandInv'
<1> USE DEF BandInv
<1>1. InWorld(c) /\ InWorld(v) /\ c # NONE
  BY HereInWorld, FollowersAssumption DEF spell_charm_person, FollowersAssumption
<1>2. Proper(Led(v), v, c)
  BY DEF spell_charm_person, Proper, Circle, Led
<1>3. Rewired(Led(v), v, c)
  <2>1. master' = [x \in Char |-> IF x = v /\ c # NONE THEN c ELSE IF x \in Led(v) THEN NONE ELSE master[x]]
    BY <1>1 DEF spell_charm_person, Led, FollowersOK
  <2>2. ASSUME NEW x \in Char
        PROVE  (IF x = c THEN followers[x] \cup {v} ELSE followers[x] \ Led(v))
                 = {k \in followers[x] : ~(k \in Led(v) /\ master[k] = x)} \cup (IF x = c THEN {v} ELSE {})
    BY DEF Led, LinksAgree, FollowersOK
  <2>3. followers' = [x \in Char |-> {k \in followers[x] : ~(k \in Led(v) /\ master[k] = x)}
                                       \cup (IF x = c THEN {v} ELSE {})]
    BY <2>2 DEF spell_charm_person
  <2> QED
    BY <2>1, <2>3, LedInChar DEF Rewired
<1>4. FollowersOK'
  BY <1>2, <1>3, RewiredTypes DEF spell_charm_person, FollowersOK, bodies
<1>5. LinksAgree' /\ NoLoops'
  BY <1>2, <1>3, RewiredAgree, RewiredLoops
<1>6. GoneAreFree'
  <2> SUFFICES ASSUME NEW x \in Char, ~InWorld(x)'
               PROVE  master'[x] = NONE /\ followers'[x] = {} /\ x \notin group'
    BY DEF GoneAreFree
  <2>1. ~InWorld(x) /\ master[x] = NONE /\ followers[x] = {} /\ x \notin group
    BY DEF spell_charm_person, InWorld, bodies, GoneAreFree
  <2>2. x # c /\ x # v
    BY <1>1, <2>1
  <2>3. x \notin group'
    BY <2>1 DEF spell_charm_person
  <2> QED
    BY <1>3, <2>1, <2>2, <2>3, RewiredFree
<1> QED
  BY <1>4, <1>5, <1>6

(* A mob that is loaded leads nobody, so it is above nobody.               *)
LEMMA NewBandInv ==
  ASSUME BandInv, NEW c \in Char, NEW m \in Char, NEW tame \in BOOLEAN, new_follower(c, m, tame)
  PROVE  BandInv'
<1> USE DEF BandInv
<1>1. InWorld(c) /\ ~InWorld(m) /\ c # NONE /\ c # m
  BY FollowersAssumption DEF new_follower, Typed, FollowersAssumption
<1>2. master[m] = NONE /\ followers[m] = {} /\ m \notin group
  BY <1>1 DEF GoneAreFree
<1>3. ~circle_follow(m, c)
  <2> DEFINE S == Char \ {m}
  <2>1. Upwards(S)
    BY <1>2, FollowersAssumption DEF Upwards, LinksAgree, FollowersOK, FollowersAssumption
  <2> QED
    BY <1>1, <2>1 DEF circle_follow
<1>4. Proper({}, m, c)
  BY <1>2, <1>3 DEF Proper
<1>5. Rewired({}, m, c)
  BY <1>1 DEF new_follower, Rewired, FollowersOK
<1>6. room' \in [Char -> Room \cup {NONE}] /\ \A x \in Char : InWorld(x) \/ x = m <=> InWorld(x)'
  BY <1>1 DEF new_follower, InWorld, FollowersOK
<1>7. FollowersOK'
  <2>1. charm' \in [Char -> {"no", "spell", "pet"}] /\ group' \in SUBSET Char
    BY DEF new_follower, FollowersOK
  <2>2. pos' \in [Char -> Positions] /\ file' \in [Char -> BOOLEAN]
    BY FollowersAssumption DEF new_follower, FollowersOK, FollowersAssumption
  <2> QED
    BY <1>4, <1>5, <1>6, <2>1, <2>2, RewiredTypes DEF FollowersOK
<1>8. LinksAgree' /\ NoLoops'
  BY <1>4, <1>5, RewiredAgree, RewiredLoops
<1>9. GoneAreFree'
  <2> SUFFICES ASSUME NEW x \in Char, ~InWorld(x)'
               PROVE  master'[x] = NONE /\ followers'[x] = {} /\ x \notin group'
    BY DEF GoneAreFree
  <2>1. ~InWorld(x) /\ x # m /\ x # c
    BY <1>1, <1>6
  <2>2. master[x] = NONE /\ followers[x] = {} /\ x \notin group
    BY <2>1 DEF GoneAreFree
  <2> QED
    BY <1>5, <2>1, <2>2, RewiredFree DEF new_follower
<1> QED
  BY <1>7, <1>8, <1>9

(* Loading, entering, moving, falling asleep and saving.                   *)
LEMMA OtherInv ==
  ASSUME BandInv, NEW c \in Char, NEW v \in Char, NEW r \in Room, NEW again \in BOOLEAN, NEW back \in SUBSET Char,
         \/ charm_ends(c) \/ save_char(c) \/ load_mobile(c, r) \/ nan_enter_game(c, r, again)
         \/ do_move(c, r, back) \/ char_to_room(c, r)
         \/ do_stand(c) \/ do_sit(c) \/ do_rest(c) \/ do_sleep(c) \/ do_wake(c, v)
  PROVE  BandInv'
<1> USE DEF BandInv
<1>1. r # NONE /\ STANDING \in Positions
  BY FollowersAssumption DEF FollowersAssumption
<1>2. CASE charm_ends(c)
  <2>1. FollowersOK'
    BY <1>2 DEF charm_ends, FollowersOK, bodies
  <2> QED
    BY <1>2, <2>1, AloneInv DEF charm_ends, InWorld, bodies
<1>3. CASE save_char(c)
  <2>1. FollowersOK'
    BY <1>3 DEF save_char, FollowersOK
  <2> QED
    BY <1>3, <2>1, AloneInv DEF save_char, InWorld
<1>4. CASE load_mobile(c, r)
  <2>1. FollowersOK'
    BY <1>1, <1>4 DEF load_mobile, FollowersOK
  <2>2. \A x \in Char : InWorld(x) => InWorld(x)'
    BY <1>1, <1>4 DEF load_mobile, InWorld, FollowersOK
  <2> QED
    BY <1>4, <2>1, <2>2, AloneInv DEF load_mobile
<1>5. CASE nan_enter_game(c, r, again)
  <2>1. FollowersOK'
    BY <1>1, <1>5 DEF nan_enter_game, FollowersOK
  <2>2. \A x \in Char : InWorld(x) => InWorld(x)'
    BY <1>1, <1>5 DEF nan_enter_game, InWorld, FollowersOK
  <2> QED
    BY <1>5, <2>1, <2>2, AloneInv DEF nan_enter_game
<1>6. CASE do_move(c, r, back)
  <2>1. FollowersOK'
    BY <1>6 DEF do_move, FollowersOK
  <2>2. \A x \in Char : InWorld(x) => InWorld(x)'
    BY <1>1, <1>6 DEF do_move, InWorld, FollowersOK
  <2> QED
    BY <1>6, <2>1, <2>2, AloneInv DEF do_move
<1>7. CASE char_to_room(c, r)
  <2>1. FollowersOK'
    BY <1>7 DEF char_to_room, FollowersOK
  <2>2. \A x \in Char : InWorld(x) => InWorld(x)'
    BY <1>1, <1>7 DEF char_to_room, InWorld, FollowersOK
  <2> QED
    BY <1>7, <2>1, <2>2, AloneInv DEF char_to_room
<1>8. CASE do_stand(c) \/ do_sit(c) \/ do_rest(c) \/ do_sleep(c) \/ do_wake(c, v)
  <2>1. PICK x \in Char, p \in Positions : pos' = [pos EXCEPT ![x] = p]
    BY <1>8 DEF do_stand, do_sit, do_rest, do_sleep, do_wake, Sets
  <2>2. UNCHANGED <<master, followers, group, charm, room, file>>
    BY <1>8 DEF do_stand, do_sit, do_rest, do_sleep, do_wake, Sets
  <2>3. FollowersOK'
    BY <2>1, <2>2 DEF FollowersOK
  <2> QED
    BY <2>2, <2>3, AloneInv DEF InWorld
<1> QED
  BY <1>2, <1>3, <1>4, <1>5, <1>6, <1>7, <1>8

(* Who leaves lets go of his master and of his followers before.           *)
LEMMA GoneInv ==
  ASSUME BandInv, NEW c \in Char, NEW killed \in BOOLEAN, char_from_world(c, killed)
  PROVE  BandInv'
<1> USE DEF BandInv
<1> DEFINE loose == die_follower(c)
<1>1. Rebound(loose, NONE, NONE) /\ Proper(loose, NONE, NONE)
  BY DEF char_from_world, stop_follower, Proper
<1>2. loose \subseteq Char
  BY DieInChar
<1>3. Rewired(loose, NONE, NONE)
  BY <1>1, <1>2 DEF Rewired, Rebound
<1>4. FollowersOK'
  <2>1. charm' \in [Char -> {"no", "spell", "pet"}]
    BY <1>1 DEF Rebound, FollowersOK
  <2>2. master' \in [Char -> Char \cup {NONE}] /\ followers' \in [Char -> SUBSET Char]
    BY <1>1, <1>3, RewiredTypes
  <2>3. group' \in SUBSET Char /\ pos' \in [Char -> Positions]
    BY DEF char_from_world, FollowersOK
  <2>4. room' \in [Char -> Room \cup {NONE}]
    BY DEF char_from_world, FollowersOK
  <2>5. file' \in [Char -> BOOLEAN]
    BY DEF char_from_world, FollowersOK
  <2> QED
    BY <2>1, <2>2, <2>3, <2>4, <2>5 DEF FollowersOK
<1>5. LinksAgree' /\ NoLoops'
  BY <1>1, <1>3, RewiredAgree, RewiredLoops
<1>6. GoneAreFree'
  <2> SUFFICES ASSUME NEW x \in Char, ~InWorld(x)'
               PROVE  master'[x] = NONE /\ followers'[x] = {} /\ x \notin group'
    BY DEF GoneAreFree
  <2>1. CASE x = c
    <3>1. master'[c] = NONE
      BY <1>3 DEF Rewired, die_follower, Led
    <3>2. \A k \in Char : k \notin followers'[c]
      BY <1>3, FollowersAssumption DEF Rewired, die_follower, LinksAgree, FollowersOK, FollowersAssumption
    <3>3. followers'[c] \subseteq Char
      BY <1>4 DEF FollowersOK
    <3> QED
      BY <2>1, <3>1, <3>2, <3>3 DEF char_from_world
  <2>2. CASE x # c
    <3>1. ~InWorld(x)
      BY <2>2 DEF char_from_world, InWorld, FollowersOK
    <3>2. master[x] = NONE /\ followers[x] = {} /\ x \notin group
      BY <3>1 DEF GoneAreFree
    <3>3. x # NONE
      BY FollowersAssumption DEF FollowersAssumption
    <3> QED
      BY <1>3, <3>2, <3>3, RewiredFree DEF char_from_world
  <2> QED
    BY <2>1, <2>2
<1> QED
  BY <1>4, <1>5, <1>6

LEMMA FollowSteps == BandInv /\ [FollowNext]_follow_vars => BandInv'
<1> SUFFICES ASSUME BandInv, [FollowNext]_follow_vars
             PROVE  BandInv'
  OBVIOUS
<1>1. CASE \E c, l \in Char : do_follow(c, l) \/ do_group(c, l) \/ damage(c, l) \/ spell_charm_person(c, l)
  BY <1>1, FollowInv, GroupInv, DamageInv, CharmInv
<1>2. CASE \E c \in Char : do_ungroup(c) \/ group_all(c)
  BY <1>2, UngroupInv, GroupInv
<1>3. CASE \E c, m \in Char, tame \in BOOLEAN : new_follower(c, m, tame)
  BY <1>3, NewBandInv
<1>4. CASE \E c \in Char, killed \in BOOLEAN : char_from_world(c, killed)
  BY <1>4, GoneInv
<1>5. CASE \E c, v \in Char : do_wake(c, v) \/ charm_ends(c) \/ save_char(c)
                                \/ do_stand(c) \/ do_sit(c) \/ do_rest(c) \/ do_sleep(c)
  <2>1. CASE \E r \in Room : TRUE
    BY <1>5, <2>1, OtherInv
  <2>2. CASE Room = {}
    <3>1. \A x \in Char : ~InWorld(x)
      BY <2>2 DEF BandInv, FollowersOK, InWorld
    <3>2. \A x \in Char : master[x] = NONE
      BY <3>1 DEF BandInv, GoneAreFree
    <3> QED
      BY <1>5, <3>1, <3>2 DEF do_wake, charm_ends, save_char, do_stand, do_sit, do_rest, do_sleep, MayAct, Typed, Ordered
  <2> QED
    BY <2>1, <2>2
<1>6. CASE \E c \in Char, r \in Room : load_mobile(c, r) \/ char_to_room(c, r) \/ \E again \in BOOLEAN : nan_enter_game(c, r, again)
  BY <1>6, OtherInv
<1>7. CASE \E c \in Char, r \in Room, back \in SUBSET Char : do_move(c, r, back)
  BY <1>7, OtherInv
<1>8. CASE UNCHANGED follow_vars
  BY <1>8 DEF follow_vars, BandInv, FollowersOK, LinksAgree, NoLoops, GoneAreFree, InWorld
<1> QED
  BY <1>1, <1>2, <1>3, <1>4, <1>5, <1>6, <1>7, <1>8 DEF FollowNext

-----------------------------------------------------------------------------
(* In every reachable state all four parts of the invariant hold.          *)
THEOREM Invariance == FollowSpec => []BandInv
BY FollowStarts, FollowSteps, PTL DEF FollowSpec

(* The values of the model stay in their types.                            *)
THEOREM FollowersTyped == FollowSpec => []FollowersOK
BY Invariance, PTL DEF BandInv

(* stop_follower always finds the one it takes out in the list it walks    *)
(* (act.group.c): master and list of followers agree.                      *)
THEOREM LinksSafe == FollowSpec => []LinksAgree
BY Invariance, PTL DEF BandInv

(* Following makes no loop, of any length, so do_move for the followers of *)
(* followers ends (act.movement.c).                                        *)
THEOREM LoopsNever == FollowSpec => []NoLoops
BY Invariance, PTL DEF BandInv

(* Nothing points to a character whose record is freed (transfer.c).       *)
THEOREM GoneSafe == FollowSpec => []GoneAreFree
BY Invariance, PTL DEF BandInv

LEMMA GroupsEnd == BandInv /\ [FollowNext]_follow_vars => [GroupStep]_follow_vars
<1> SUFFICES ASSUME BandInv, [FollowNext]_follow_vars, NEW x \in Char, master'[x] # master[x]
             PROVE  x \notin group'
  BY DEF GroupStep
<1> USE DEF BandInv
<1>1. CASE \E loose \in SUBSET Char : stop_follower(loose) /\ group' \cap loose = {}
  BY <1>1 DEF stop_follower, Rebound, FollowersOK
<1>2. CASE \E c, l \in Char : do_follow(c, l)
  <2>1. PICK c \in Char, l \in Char : do_follow(c, l)
    BY <1>2
  <2>2. x = c
    BY <2>1 DEF do_follow, stop_follower, add_follower, Rebound, Led, FollowersOK
  <2> QED
    BY <2>1, <2>2 DEF do_follow
<1>3. CASE \E c \in Char : do_ungroup(c)
  <2>1. PICK c \in Char : do_ungroup(c)
    BY <1>3
  <2> DEFINE loose == Led(c) \cup {k \in followers[c] : k \notin Npc /\ charm[k] = "no"}
  <2>2. loose \in SUBSET Char
    BY LedInChar DEF FollowersOK
  <2>3. stop_follower(loose) /\ group' \cap loose = {}
    BY <2>1 DEF do_ungroup, ungrouped
  <2> QED
    BY <1>1, <2>2, <2>3
<1>4. CASE \E c, v \in Char : damage(c, v)
  <2>1. PICK c \in Char, v \in Char : damage(c, v)
    BY <1>4
  <2> DEFINE loose == (IF is_same_group(c, v) THEN die_follower(v) ELSE {}) \cup (IF master[v] = c THEN {v} ELSE {})
  <2>2. loose \in SUBSET Char
    BY DieInChar
  <2>3. stop_follower(loose) /\ group' \cap loose = {}
    BY <2>1 DEF damage
  <2> QED
    BY <1>1, <2>2, <2>3
<1>5. CASE \E c \in Char, killed \in BOOLEAN : char_from_world(c, killed)
  <2>1. PICK c \in Char, killed \in BOOLEAN : char_from_world(c, killed)
    BY <1>5
  <2>2. die_follower(c) \in SUBSET Char
    BY DieInChar
  <2>3. stop_follower(die_follower(c)) /\ group' \cap die_follower(c) = {}
    BY <2>1 DEF char_from_world
  <2> QED
    BY <1>1, <2>2, <2>3
<1>6. CASE \E c, v \in Char : spell_charm_person(c, v)
  BY <1>6 DEF spell_charm_person, FollowersOK
<1>7. CASE \E c, m \in Char, tame \in BOOLEAN : new_follower(c, m, tame)
  BY <1>7 DEF new_follower, FollowersOK
<1>8. CASE UNCHANGED master
  BY <1>8
<1>9. ASSUME \/ \E c, l \in Char : do_group(c, l) \/ do_wake(c, l)
             \/ \E c \in Char : group_all(c) \/ charm_ends(c) \/ save_char(c)
                                  \/ do_stand(c) \/ do_sit(c) \/ do_rest(c) \/ do_sleep(c)
             \/ \E c \in Char, r \in Room : load_mobile(c, r) \/ char_to_room(c, r)
                                              \/ \E again \in BOOLEAN : nan_enter_game(c, r, again)
             \/ \E c \in Char, r \in Room, back \in SUBSET Char : do_move(c, r, back)
             \/ UNCHANGED follow_vars
      PROVE  UNCHANGED master
  BY <1>9 DEF do_group, do_wake, group_all, charm_ends, save_char, do_stand, do_sit, do_rest, do_sleep, Sets,
              load_mobile, char_to_room, nan_enter_game, do_move, follow_vars
<1> QED
  BY <1>2, <1>3, <1>4, <1>5, <1>6, <1>7, <1>8, <1>9 DEF FollowNext

(* Nobody keeps the sign of a group while he changes leaders, or loses     *)
(* his (act.group.c, fight.c, magic.other.c).                              *)
THEOREM GroupSafe == FollowSpec => GroupEnds
<1>1. BandInv /\ [FollowNext]_follow_vars => [GroupStep]_follow_vars
  BY GroupsEnd
<1> QED
  BY Invariance, <1>1, PTL DEF FollowSpec, GroupEnds

-----------------------------------------------------------------------------
(* Timed affects. *)

(* What the modifiers of affects and of objects add up to. *)

LEMMA ModsNumeric ==
  ASSUME NEW A, A \subseteq Affect, NEW B, B \subseteq A
  PROVE  LET f == [a \in A |-> a.mod] IN Numeric(f, B) /\ \A a \in B : f[a] = a.mod
BY DEF Numeric, Affect

LEMMA SumOfPart ==
  ASSUME NEW A, A \subseteq Affect, IsFiniteSet(A), NEW B, B \subseteq A
  PROVE  IsFiniteSet(B) /\ SumOf(B) \in Int /\ SumOf(B) = Total([a \in A |-> a.mod], B)
<1> DEFINE f == [a \in A |-> a.mod]
           g == [a \in B |-> a.mod]
<1>1. IsFiniteSet(B) /\ B \subseteq Affect
  BY FS_Subset
<1>2. Numeric(f, B) /\ Numeric(g, B) /\ \A a \in B : g[a] = f[a]
  BY <1>1, ModsNumeric
<1>3. SumOf(B) = Total(g, B)
  BY DEF SumOf
<1> HIDE DEF f, g
<1>4. Total(g, B) = Total(f, B) /\ Total(f, B) \in Int
  BY <1>1, <1>2, TotalSame, TotalSplit
<1> QED
  BY <1>1, <1>3, <1>4 DEF f

LEMMA SumOfTyped ==
  ASSUME NEW A, A \subseteq Affect, IsFiniteSet(A)
  PROVE  SumOf(A) \in Int
<1>1. A \subseteq A
  OBVIOUS
<1> QED
  BY <1>1, SumOfPart

LEMMA SumOfBoth ==
  ASSUME NEW A, A \subseteq Affect, IsFiniteSet(A), NEW B, B \subseteq Affect, IsFiniteSet(B), A \cap B = {}
  PROVE  SumOf(A \cup B) = SumOf(A) + SumOf(B)
<1> DEFINE C == A \cup B
           f == [a \in C |-> a.mod]
<1>1. C \subseteq Affect /\ IsFiniteSet(C) /\ A \subseteq C /\ B \subseteq C
  BY FS_Union
<1>2. Numeric(f, C)
  BY <1>1, ModsNumeric
<1> HIDE DEF f
<1>3. Total(f, C) = Total(f, A) + Total(f, B)
  BY <1>2, TotalUnion
<1> HIDE DEF C
<1>4. SumOf(A) = Total(f, A) /\ SumOf(B) = Total(f, B) /\ SumOf(C) = Total(f, C)
  BY <1>1, SumOfPart DEF f
<1> QED
  BY <1>3, <1>4 DEF C

(* What comes on and what goes, as Put adds it up. *)
LEMMA SumOfChange ==
  ASSUME NEW A, A \subseteq Affect, IsFiniteSet(A), NEW B, B \subseteq Affect, IsFiniteSet(B)
  PROVE  /\ SumOf(A) \in Int /\ SumOf(B) \in Int /\ SumOf(B \ A) \in Int /\ SumOf(A \ B) \in Int
         /\ SumOf(B) = SumOf(A) + SumOf(B \ A) - SumOf(A \ B)
<1> DEFINE C == A \cap B
           new == B \ A
           old == A \ B
<1>1. A = C \cup old /\ B = C \cup new /\ C \cap old = {} /\ C \cap new = {}
  OBVIOUS
<1>2. /\ IsFiniteSet(C) /\ IsFiniteSet(new) /\ IsFiniteSet(old)
      /\ C \subseteq Affect /\ new \subseteq Affect /\ old \subseteq Affect
  BY FS_Subset
<1> HIDE DEF C, new, old
<1>3. SumOf(C \cup old) = SumOf(C) + SumOf(old) /\ SumOf(C \cup new) = SumOf(C) + SumOf(new)
  BY <1>1, <1>2, SumOfBoth
<1>4. SumOf(A) = SumOf(C) + SumOf(old) /\ SumOf(B) = SumOf(C) + SumOf(new)
  BY <1>1, <1>3, Zenon
<1>5. SumOf(C) \in Int /\ SumOf(old) \in Int /\ SumOf(new) \in Int
  BY <1>2, SumOfPart
<1>6. SumOf(A) \in Int /\ SumOf(B) \in Int /\ SumOf(B) = SumOf(A) + SumOf(new) - SumOf(old)
  BY <1>4, <1>5
<1> QED
  BY <1>5, <1>6 DEF new, old

(* A tick of the durations changes no modifier. *)
Ticked(A) == {[a EXCEPT !.dur = @ - 1] : a \in A}

LEMMA SumOfTicked ==
  ASSUME NEW A, A \subseteq Affect, IsFiniteSet(A), \A a \in A : a.dur # 0
  PROVE  /\ Ticked(A) \subseteq Affect /\ IsFiniteSet(Ticked(A))
         /\ SumOf(Ticked(A)) = SumOf(A)
         /\ Bits(Ticked(A)) = Bits(A)
<1> DEFINE h == [a \in A |-> [a EXCEPT !.dur = a.dur - 1]]
           f == [a \in A |-> a.mod]
           B == Ticked(A)
           g == [b \in B |-> b.mod]
<1>1. \A a \in A : /\ a = [spell |-> a.spell, part |-> a.part, mod |-> a.mod, dur |-> a.dur]
                   /\ a.dur \in Nat /\ a.dur - 1 \in Nat /\ a.mod \in Int
  BY DEF Affect
<1>2. \A a \in A : h[a] = [spell |-> a.spell, part |-> a.part, mod |-> a.mod, dur |-> a.dur - 1]
  BY <1>1
<1>3. B = {h[a] : a \in A}
  BY DEF Ticked
<1>4. \A a, b \in A : h[a] = h[b] => a = b
  BY <1>1, <1>2
<1>5. \A a \in A : g[h[a]] = f[a]
  <2> SUFFICES ASSUME NEW a \in A PROVE g[h[a]] = f[a]
    OBVIOUS
  <2>1. h[a] \in B
    BY <1>3
  <2>2. h[a].mod = a.mod
    BY <1>2
  <2> HIDE DEF h, B
  <2> QED
    BY <2>1, <2>2
<1>6. B \subseteq Affect
  <2>1. \A a \in A : h[a] \in Affect
    BY <1>1, <1>2, ZenonT(30) DEF Affect
  <2> QED
    BY <2>1, <1>3
<1>7. Bits(B) = Bits(A)
  <2>1. \A a \in A : h[a].spell = a.spell
    BY <1>2
  <2> HIDE DEF h, B
  <2>2. {Bit[b.spell] : b \in B} = {Bit[a.spell] : a \in A}
    BY <1>3, <2>1
  <2> QED
    BY <2>2 DEF Bits
<1>8. Numeric(f, A)
  BY ModsNumeric
<1>9. SumOf(A) = Total(f, A) /\ SumOf(B) = Total(g, B)
  BY DEF SumOf
<1> HIDE DEF h, f, g, B
<1>10. IsFiniteSet(B) /\ Total(g, B) = Total(f, A)
  BY <1>3, <1>4, <1>5, <1>8, TotalImage
<1> QED
  BY <1>6, <1>7, <1>9, <1>10 DEF B

LEMMA WeighsNone == Weighs({}) = 0
<1>1. IsFiniteSet({}) /\ Numeric(ItemMod, {})
  BY FS_EmptySet DEF Numeric
<1> QED
  BY <1>1, TotalSplit DEF Weighs

LEMMA WeighsTyped ==
  ASSUME NEW V, V \subseteq Item
  PROVE  Weighs(V) \in Int
<1>1. IsFiniteSet(V) /\ Numeric(ItemMod, V)
  BY FS_Subset, AffectsAssumption DEF AffectsAssumption, Numeric
<1> QED
  BY <1>1, TotalSplit DEF Weighs

LEMMA WeighsParts ==
  ASSUME NEW A, NEW B, A \subseteq Item, B \subseteq Item, A \cap B = {}
  PROVE  /\ Weighs(A) \in Int /\ Weighs(B) \in Int
         /\ Weighs(A \cup B) = Weighs(A) + Weighs(B)
<1>1. IsFiniteSet(A) /\ IsFiniteSet(B) /\ IsFiniteSet({})
  BY FS_Subset, FS_EmptySet, AffectsAssumption DEF AffectsAssumption
<1>2. Numeric(ItemMod, A) /\ Numeric(ItemMod, B) /\ Numeric(ItemMod, A \cup B) /\ Numeric(ItemMod, {})
  BY AffectsAssumption DEF AffectsAssumption, Numeric
<1> QED
  BY <1>1, <1>2, TotalSplit, TotalUnion DEF Weighs

LEMMA WeighsOne ==
  ASSUME NEW i \in Item
  PROVE  Weighs({i}) = ItemMod[i]
<1>1. IsFiniteSet({i}) /\ Numeric(ItemMod, {i}) /\ ItemMod[i] \in Int
  BY FS_Singleton, AffectsAssumption DEF AffectsAssumption, Numeric
<1>2. Total(ItemMod, {i}) = ItemMod[i] + Total(ItemMod, {i} \ {i})
  BY <1>1, TotalSplit
<1>3. {i} \ {i} = {}
  OBVIOUS
<1> QED
  BY <1>1, <1>2, <1>3, WeighsNone DEF Weighs

-----------------------------------------------------------------------------
(* affect_total: what is taken off is put on again by what is left. *)
LEMMA Regiven ==
  ASSUME NEW A, NEW V, NEW R, NEW A1, NEW V1, NEW R1, NEW A2, NEW V2, NEW R2,
         A \subseteq A1 \cup A2, V \subseteq V1 \cup V2, R \subseteq R1 \cup R2
  PROVE  affect_total(Gives(A, V, R) \ Gives(A1, V1, R1), A2, V2, R2) = Gives(A2, V2, R2)
BY DEF affect_total, Gives, Bits, ItemBits

LEMMA GivesOf ==
  /\ \A A : Bits(A) = Gives(A, {}, {})
  /\ \A V : ItemBits(V) = Gives({}, V, {})
  /\ \A r : {RoundBit[r]} = Gives({}, {}, {r})
  /\ Gives({}, {}, {}) = {}
BY DEF Gives, Bits, ItemBits

-----------------------------------------------------------------------------
(* Only who plays wears something or has affects of rounds; of who is out  *)
(* there is only the file.                                                 *)
Away ==
  /\ where # "game" => worn = {} /\ rounds = {}
  /\ where = "out" => bits = {} /\ base = 0

FieldsOK ==
  /\ where \in {"game", "menu", "out"} /\ num \in Int /\ base \in 0..MaxBase
  /\ affected \subseteq Affect /\ IsFiniteSet(affected)
  /\ worn \subseteq Item /\ rounds \subseteq Round /\ lost \subseteq Item \ worn /\ good \in BOOLEAN
  /\ saved.num \in Int /\ saved.affected \subseteq Affect /\ IsFiniteSet(saved.affected)
  /\ saved.base \in 0..MaxBase

NumbersAgree ==
  /\ where # "out" => num = base + SumOf(affected) + Weighs(worn)
  /\ saved.num = saved.base

Enabled == where # "out" => bits = Gives(affected, worn, rounds)

AffInv == FieldsOK /\ NumbersAgree /\ Enabled /\ Away

LEMMA AffStarts == AffInit => AffInv
BY FS_EmptySet, AffectsAssumption DEF AffInit, AffInv, FieldsOK, NumbersAgree, Enabled, Away, AffectsAssumption

LEMMA FreshAffects ==
  ASSUME NEW x \in Spell
  PROVE  Fresh(x) \subseteq Affect /\ IsFiniteSet(Fresh(x))
<1> DEFINE h == [p \in Pieces[x] |-> [spell |-> x, part |-> p, mod |-> Mod[p], dur |-> Lasts[x]]]
<1>1. IsFiniteSet(Pieces[x]) /\ Lasts[x] \in Nat /\ \A p \in Pieces[x] : Mod[p] \in Int
  BY AffectsAssumption DEF AffectsAssumption
<1>2. \A p \in Pieces[x] : h[p] \in Affect
  BY <1>1 DEF Affect
<1>3. Fresh(x) = {h[p] : p \in Pieces[x]}
  BY DEF Fresh
<1> HIDE DEF h
<1>4. IsFiniteSet({h[p] : p \in Pieces[x]})
  BY <1>1, FiniteImage
<1> QED
  BY <1>2, <1>3, <1>4

(* The affects become A, those of off are gone: affect_to_char and the     *)
(* commands that follow it.                                                *)
LEMMA PutKeeps ==
  ASSUME AffInv, Playing, NEW A, A \subseteq Affect, IsFiniteSet(A), NEW off, affected \subseteq A \cup off,
         Put(A, off), UNCHANGED <<where, base, worn, rounds, lost, good, saved>>
  PROVE  AffInv'
<1>1. FieldsOK /\ NumbersAgree /\ Enabled /\ Away /\ where = "game"
  BY DEF AffInv, Playing
<1>2. affected' = A /\ num' = num + SumOf(A \ affected) - SumOf(affected \ A)
  BY DEF Put
<1>3. /\ SumOf(A) \in Int /\ SumOf(affected) \in Int
      /\ SumOf(A \ affected) \in Int /\ SumOf(affected \ A) \in Int
      /\ SumOf(A) = SumOf(affected) + SumOf(A \ affected) - SumOf(affected \ A)
  BY <1>1, SumOfChange DEF FieldsOK
<1>4. FieldsOK'
  BY <1>1, <1>2, <1>3 DEF FieldsOK
<1>5. NumbersAgree'
  <2>1. num = base + SumOf(affected) + Weighs(worn) /\ saved.num = saved.base
    BY <1>1 DEF NumbersAgree
  <2>2. Weighs(worn) \in Int /\ base \in Int
    BY <1>1, WeighsTyped, AffectsAssumption DEF FieldsOK, AffectsAssumption
  <2>3. num + SumOf(A \ affected) - SumOf(affected \ A) = base + SumOf(A) + Weighs(worn)
    BY <1>3, <2>1, <2>2
  <2>4. SumOf(affected') = SumOf(A)
    BY <1>2
  <2> QED
    BY <1>2, <2>1, <2>3, <2>4 DEF NumbersAgree
<1>6. Enabled'
  <2>1. bits' = affect_total(bits \ Gives(off, {}, {}), A, worn, rounds)
    BY GivesOf DEF Put
  <2>2. bits = Gives(affected, worn, rounds)
    BY <1>1 DEF Enabled
  <2>3. bits' = Gives(A, worn, rounds)
    BY <2>1, <2>2, Regiven
  <2> QED
    BY <1>2, <2>3 DEF Enabled
<1>7. Away'
  BY <1>1 DEF Away
<1> QED
  BY <1>4, <1>5, <1>6, <1>7 DEF AffInv

LEMMA AffectToChar ==
  ASSUME AffInv, NEW x \in Spell, affect_to_char(x)
  PROVE  AffInv'
<1> DEFINE A == affected \cup Fresh(x)
<1>1. Playing /\ Put(A, {}) /\ UNCHANGED <<where, base, worn, rounds, lost, good, saved>>
  BY DEF affect_to_char
<1>2. A \subseteq Affect /\ IsFiniteSet(A) /\ affected \subseteq A \cup {}
  BY FreshAffects, FS_Union DEF AffInv, FieldsOK
<1> HIDE DEF A
<1> QED
  BY <1>1, <1>2, PutKeeps

(* Two affects joined make an affect. *)
LEMMA JoinedAffect ==
  ASSUME NEW f \in Affect, NEW a \in Affect
  PROVE  Joined(f, a) \in Affect
<1> DEFINE both == f.dur + a.dur
<1>1. both \in Nat /\ both \div 2 \in Nat /\ f.mod + a.mod \in Int
  BY DEF Affect
<1>2. Joined(f, a) = [f EXCEPT !.mod = f.mod + a.mod, !.dur = IF f.spell \in Averages THEN both \div 2 ELSE both]
  BY DEF Joined
<1> HIDE DEF both
<1> QED
  BY <1>1, <1>2 DEF Affect

LEMMA AffectJoin ==
  ASSUME AffInv, NEW x \in Spell, affect_join(x)
  PROVE  AffInv'
<1>1. /\ Playing /\ affected \subseteq Affect /\ IsFiniteSet(affected)
      /\ UNCHANGED <<where, base, worn, rounds, lost, good, saved>>
  BY DEF affect_join, AffInv, FieldsOK
<1>2. Fresh(x) \subseteq Affect /\ IsFiniteSet(Fresh(x))
  BY FreshAffects
<1>3. ASSUME Put(affected \cup Fresh(x), {})
      PROVE  AffInv'
  <2> DEFINE A == affected \cup Fresh(x)
  <2>1. A \subseteq Affect /\ IsFiniteSet(A) /\ affected \subseteq A \cup {} /\ Put(A, {})
    BY <1>1, <1>2, <1>3, FS_Union
  <2> HIDE DEF A
  <2> QED
    BY <1>1, <2>1, PutKeeps
<1>4. ASSUME NEW a \in affected, Put((affected \ {a}) \cup {Joined(f, a) : f \in Fresh(x)}, {a})
      PROVE  AffInv'
  <2> DEFINE h == [f \in Fresh(x) |-> Joined(f, a)]
             again == {Joined(f, a) : f \in Fresh(x)}
             A == (affected \ {a}) \cup again
  <2>1. again \subseteq Affect
    BY <1>1, <1>2, JoinedAffect
  <2>2. IsFiniteSet(again)
    <3>1. again = {h[f] : f \in Fresh(x)}
      OBVIOUS
    <3> HIDE DEF h, again
    <3> QED
      BY <1>2, <3>1, FiniteImage
  <2>3. Put(A, {a})
    BY <1>4
  <2> HIDE DEF again
  <2>4. A \subseteq Affect /\ IsFiniteSet(A) /\ affected \subseteq A \cup {a}
    BY <1>1, <2>1, <2>2, FS_Union, FS_Subset
  <2> HIDE DEF A
  <2> QED
    BY <1>1, <2>3, <2>4, PutKeeps
<1> QED
  BY <1>3, <1>4 DEF affect_join, Of

LEMMA AffectFromChar ==
  ASSUME AffInv, NEW x \in Spell, affect_from_char(x)
  PROVE  AffInv'
<1> DEFINE A == affected \ Of(x)
<1>1. Playing /\ Put(A, Of(x)) /\ UNCHANGED <<where, base, worn, rounds, lost, good, saved>>
  BY DEF affect_from_char
<1>2. A \subseteq Affect /\ IsFiniteSet(A) /\ affected \subseteq A \cup Of(x)
  BY FS_Subset DEF AffInv, FieldsOK
<1> HIDE DEF A
<1> QED
  BY <1>1, <1>2, PutKeeps

LEMMA UpdateTick ==
  ASSUME AffInv, update_tick
  PROVE  AffInv'
<1> DEFINE ends == {a \in affected : Over(a)}
           stay == affected \ ends
<1>1. FieldsOK /\ NumbersAgree /\ Enabled /\ Away /\ where = "game"
  BY DEF AffInv, Playing, update_tick
<1>2. /\ affected' = Ticked(stay) /\ num' = num - SumOf(ends)
      /\ bits' = affect_total(bits \ Bits(ends), affected', worn, rounds)
      /\ UNCHANGED <<where, base, worn, rounds, lost, good, saved>>
  BY DEF update_tick, Ticked
<1>3. /\ affected \subseteq Affect /\ IsFiniteSet(affected) /\ ends \subseteq affected
      /\ stay \subseteq Affect /\ IsFiniteSet(stay) /\ \A a \in stay : a.dur # 0
  BY <1>1, FS_Subset DEF FieldsOK, Over
<1>4. /\ Ticked(stay) \subseteq Affect /\ IsFiniteSet(Ticked(stay))
      /\ SumOf(Ticked(stay)) = SumOf(stay) /\ Bits(Ticked(stay)) = Bits(stay)
  <2> HIDE DEF stay
  <2> QED
    BY <1>3, SumOfTicked
<1>5. SumOf(ends) \in Int /\ SumOf(stay) \in Int /\ SumOf(affected) = SumOf(stay) + SumOf(ends)
  <2>1. stay \cup ends = affected /\ stay \cap ends = {} /\ IsFiniteSet(ends) /\ ends \subseteq Affect
    BY <1>3, FS_Subset
  <2> HIDE DEF stay, ends
  <2>2. SumOf(stay \cup ends) = SumOf(stay) + SumOf(ends)
    BY <1>3, <2>1, SumOfBoth
  <2>3. SumOf(ends) \in Int /\ SumOf(stay) \in Int
    BY <1>3, <2>1, SumOfTyped
  <2> QED
    BY <2>1, <2>2, <2>3, Zenon
<1>6. FieldsOK'
  BY <1>1, <1>2, <1>4, <1>5 DEF FieldsOK
<1>7. NumbersAgree'
  <2>1. num = base + SumOf(affected) + Weighs(worn) /\ saved.num = saved.base
    BY <1>1 DEF NumbersAgree
  <2>2. Weighs(worn) \in Int /\ base \in Int
    BY <1>1, WeighsTyped, AffectsAssumption DEF FieldsOK, AffectsAssumption
  <2>3. SumOf(affected') = SumOf(stay)
    BY <1>2, <1>4
  <2> HIDE DEF stay, ends
  <2> QED
    BY <1>2, <1>5, <2>1, <2>2, <2>3 DEF NumbersAgree
<1>8. Enabled'
  <2>1. bits = Gives(affected, worn, rounds)
    BY <1>1 DEF Enabled
  <2>2. Gives(Ticked(stay), worn, rounds) = Gives(stay, worn, rounds)
    BY <1>4 DEF Gives
  <2>3. affected \subseteq ends \cup stay
    OBVIOUS
  <2> HIDE DEF stay, ends
  <2>4. bits' = affect_total(bits \ Gives(ends, {}, {}), Ticked(stay), worn, rounds)
    BY <1>2, GivesOf
  <2>5. bits' = affect_total(bits \ Gives(ends, {}, {}), stay, worn, rounds)
    BY <2>2, <2>4 DEF affect_total
  <2>6. bits' = Gives(stay, worn, rounds)
    BY <2>1, <2>3, <2>5, Regiven
  <2> QED
    BY <1>2, <2>2, <2>6 DEF Enabled
<1>9. Away'
  BY <1>1, <1>2 DEF Away
<1> QED
  BY <1>6, <1>7, <1>8, <1>9 DEF AffInv

LEMMA RoundToChar ==
  ASSUME AffInv, NEW r \in Round, round_to_char(r)
  PROVE  AffInv'
<1> USE DEF round_to_char, Playing
<1>1. FieldsOK' /\ NumbersAgree' /\ Away'
  BY DEF AffInv, FieldsOK, NumbersAgree, Away
<1>2. Enabled'
  BY DEF AffInv, Enabled, affect_total, Gives
<1> QED
  BY <1>1, <1>2 DEF AffInv

LEMMA RoundRemove ==
  ASSUME AffInv, NEW r \in Round, round_remove(r)
  PROVE  AffInv'
<1> USE DEF round_remove, Playing
<1>1. FieldsOK' /\ NumbersAgree' /\ Away'
  BY DEF AffInv, FieldsOK, NumbersAgree, Away
<1>2. Enabled'
  <2>1. bits = Gives(affected, worn, rounds)
    BY DEF AffInv, Enabled
  <2>2. rounds \subseteq {r} \cup rounds'
    OBVIOUS
  <2>3. bits' = affect_total(bits \ Gives({}, {}, {r}), affected, worn, rounds')
    BY GivesOf
  <2>4. bits' = Gives(affected, worn, rounds')
    BY <2>1, <2>2, <2>3, Regiven
  <2> QED
    BY <2>4 DEF Enabled
<1> QED
  BY <1>1, <1>2 DEF AffInv

LEMMA EquipChar ==
  ASSUME AffInv, NEW i \in Item, equip_char(i)
  PROVE  AffInv'
<1>1. FieldsOK /\ NumbersAgree /\ Enabled /\ Away /\ where = "game" /\ i \notin worn \cup lost
  BY DEF AffInv, Playing, equip_char
<1>2. CASE Zaps(i)
  <2>1. lost' = lost \cup {i} /\ UNCHANGED <<where, num, base, bits, affected, worn, rounds, good, saved>>
    BY <1>2 DEF equip_char
  <2> QED
    BY <1>1, <2>1 DEF AffInv, FieldsOK, NumbersAgree, Enabled, Away
<1>3. CASE ~Zaps(i)
  <2>1. /\ worn' = worn \cup {i} /\ num' = num + ItemMod[i]
        /\ bits' = affect_total(bits \cup ItemBits({i}), affected, worn', rounds)
        /\ UNCHANGED <<where, base, affected, rounds, lost, good, saved>>
    BY <1>3 DEF equip_char
  <2>2. ItemMod[i] \in Int
    BY AffectsAssumption DEF AffectsAssumption
  <2>3. FieldsOK'
    BY <1>1, <2>1, <2>2 DEF FieldsOK
  <2>4. NumbersAgree'
    <3>1. Weighs(worn \cup {i}) = Weighs(worn) + Weighs({i}) /\ Weighs(worn) \in Int
      BY <1>1, WeighsParts, WeighsTyped DEF FieldsOK
    <3>2. Weighs({i}) = ItemMod[i]
      BY WeighsOne
    <3>3. base \in Int /\ SumOf(affected) \in Int
      BY <1>1, SumOfTyped, AffectsAssumption DEF FieldsOK, AffectsAssumption
    <3>4. num' = base + SumOf(affected) + Weighs(worn')
      BY <1>1, <2>1, <2>2, <3>1, <3>2, <3>3 DEF NumbersAgree
    <3> QED
      BY <1>1, <2>1, <3>4 DEF NumbersAgree
  <2>5. Enabled'
    BY <1>1, <2>1 DEF Enabled, affect_total, Gives, ItemBits
  <2>6. Away'
    BY <1>1, <2>1 DEF Away
  <2> QED
    BY <2>3, <2>4, <2>5, <2>6 DEF AffInv
<1> QED
  BY <1>2, <1>3

LEMMA UnequipChar ==
  ASSUME AffInv, NEW i \in Item, unequip_char(i)
  PROVE  AffInv'
<1> DEFINE left == worn \ {i}
<1>1. FieldsOK /\ NumbersAgree /\ Enabled /\ Away /\ where = "game" /\ i \in worn
  BY DEF AffInv, Playing, unequip_char
<1>2. /\ worn' = left /\ num' = num - ItemMod[i]
      /\ bits' = affect_total(bits \ ItemBits({i}), affected, worn', rounds)
      /\ UNCHANGED <<where, base, affected, rounds, lost, good, saved>>
  BY DEF unequip_char
<1>3. ItemMod[i] \in Int
  BY AffectsAssumption DEF AffectsAssumption
<1>4. left \cup {i} = worn /\ left \cap {i} = {} /\ left \subseteq Item
  BY <1>1 DEF FieldsOK
<1>5. FieldsOK'
  BY <1>1, <1>2, <1>3 DEF FieldsOK
<1> HIDE DEF left
<1>6. NumbersAgree'
  <2>1. Weighs(left \cup {i}) = Weighs(left) + Weighs({i}) /\ Weighs(left) \in Int
    BY <1>4, WeighsParts, WeighsTyped
  <2>2. Weighs(worn) = Weighs(left) + Weighs({i})
    BY <1>4, <2>1, Zenon
  <2>3. Weighs({i}) = ItemMod[i]
    BY WeighsOne
  <2>4. base \in Int /\ SumOf(affected) \in Int
    BY <1>1, SumOfTyped, AffectsAssumption DEF FieldsOK, AffectsAssumption
  <2>5. num' = base + SumOf(affected) + Weighs(worn')
    BY <1>1, <1>2, <1>3, <2>1, <2>2, <2>3, <2>4 DEF NumbersAgree
  <2> QED
    BY <1>1, <1>2, <2>5 DEF NumbersAgree
<1>7. Enabled'
  <2>1. bits = Gives(affected, worn, rounds)
    BY <1>1 DEF Enabled
  <2>2. bits' = affect_total(bits \ Gives({}, {i}, {}), affected, left, rounds)
    BY <1>2, GivesOf
  <2>3. worn \subseteq {i} \cup left
    BY <1>4
  <2>4. bits' = Gives(affected, left, rounds)
    BY <2>1, <2>2, <2>3, Regiven
  <2> QED
    BY <1>2, <2>4 DEF Enabled
<1>8. Away'
  BY <1>1, <1>2 DEF Away
<1> QED
  BY <1>5, <1>6, <1>7, <1>8 DEF AffInv

LEMMA Others ==
  ASSUME AffInv,
         \/ \E i \in Item : do_get(i)
         \/ change_alignment
         \/ \E n \in {1, -1} : advance_level(n)
         \/ UNCHANGED aff_vars
  PROVE  AffInv'
<1>1. CASE (\E i \in Item : do_get(i)) \/ change_alignment \/ UNCHANGED aff_vars
  BY <1>1 DEF AffInv, FieldsOK, NumbersAgree, Enabled, Away, do_get, change_alignment, aff_vars
<1>2. CASE \E n \in {1, -1} : advance_level(n)
  <2>1. PICK n \in {1, -1} : advance_level(n)
    BY <1>2
  <2>2. Weighs(worn) \in Int /\ SumOf(affected) \in Int /\ base \in Int
    BY WeighsTyped, SumOfTyped, AffectsAssumption DEF AffInv, FieldsOK, AffectsAssumption
  <2>3. NumbersAgree'
    BY <2>1, <2>2 DEF AffInv, NumbersAgree, advance_level, Playing
  <2>4. FieldsOK' /\ Enabled' /\ Away'
    BY <2>1 DEF AffInv, FieldsOK, Enabled, Away, advance_level, Playing
  <2> QED
    BY <2>3, <2>4 DEF AffInv
<1> QED
  BY <1>1, <1>2

(* What is written says what is his without anything on him. *)
LEMMA WrittenRight ==
  ASSUME FieldsOK, NumbersAgree, where = "game", NEW n \in Int, NEW V, V \subseteq Item,
         n = base + SumOf(affected) + Weighs(V)
  PROVE  LET f == Stored(n, V) IN
         /\ f.num \in Int /\ f.affected \subseteq Affect /\ IsFiniteSet(f.affected)
         /\ f.base \in 0..MaxBase /\ f.num = f.base
<1>1. Weighs(V) \in Int /\ SumOf(affected) \in Int /\ base \in Int
  BY WeighsTyped, SumOfTyped, AffectsAssumption DEF FieldsOK, AffectsAssumption
<1>2. n - Weighs(V) - SumOf(affected) = base
  BY <1>1
<1> QED
  BY <1>2, AffectsAssumption DEF Stored, FieldsOK, AffectsAssumption

LEMMA SaveRecord ==
  ASSUME AffInv, save_record
  PROVE  AffInv'
<1> DEFINE zapped == {i \in worn : Zaps(i)}
           left == worn \ zapped
<1>1. FieldsOK /\ NumbersAgree /\ Enabled /\ Away /\ where = "game"
  BY DEF AffInv, Playing, save_record
<1>2. /\ saved' = Stored(num, worn)
      /\ worn' = left /\ lost' = lost \cup zapped /\ num' = num - Weighs(zapped)
      /\ bits' = affect_total(bits \ Gives(affected, worn, {}), affected, worn', rounds)
      /\ UNCHANGED <<where, base, affected, rounds, good>>
  BY DEF save_record
<1>3. /\ left \cup zapped = worn /\ left \cap zapped = {}
      /\ left \subseteq Item /\ zapped \subseteq Item /\ worn \subseteq Item
  BY <1>1 DEF FieldsOK
<1> HIDE DEF zapped, left
<1>4. Weighs(left) \in Int /\ Weighs(zapped) \in Int /\ Weighs(worn) = Weighs(left) + Weighs(zapped)
  <2>1. Weighs(left \cup zapped) = Weighs(left) + Weighs(zapped)
    BY <1>3, WeighsParts
  <2>2. Weighs(left) \in Int /\ Weighs(zapped) \in Int
    BY <1>3, WeighsTyped
  <2> QED
    BY <1>3, <2>1, <2>2, Zenon
<1>5. base \in Int /\ SumOf(affected) \in Int /\ num \in Int
  BY <1>1, SumOfTyped, AffectsAssumption DEF FieldsOK, AffectsAssumption
<1>6. num = base + SumOf(affected) + Weighs(worn)
  BY <1>1 DEF NumbersAgree
<1>7. /\ saved'.num \in Int /\ saved'.affected \subseteq Affect /\ IsFiniteSet(saved'.affected)
      /\ saved'.base \in 0..MaxBase /\ saved'.num = saved'.base
  BY <1>1, <1>2, <1>3, <1>5, <1>6, WrittenRight
<1>8. FieldsOK'
  <2>1. lost' \subseteq Item \ worn'
    BY <1>1, <1>2, <1>3 DEF FieldsOK
  <2> QED
    BY <1>1, <1>2, <1>3, <1>4, <1>5, <1>7, <2>1 DEF FieldsOK
<1>9. NumbersAgree'
  <2>1. num' = base + SumOf(affected) + Weighs(left)
    BY <1>2, <1>4, <1>5, <1>6
  <2> QED
    BY <1>2, <1>7, <2>1 DEF NumbersAgree
<1>10. Enabled'
  <2>1. bits = Gives(affected, worn, rounds)
    BY <1>1 DEF Enabled
  <2>2. bits' = Gives(affected, left, rounds)
    BY <1>2, <2>1, Regiven
  <2> QED
    BY <1>2, <2>2 DEF Enabled
<1>11. Away'
  BY <1>1, <1>2 DEF Away
<1> QED
  BY <1>8, <1>9, <1>10, <1>11 DEF AffInv

LEMMA LeaveWorld ==
  ASSUME AffInv, NEW dies \in BOOLEAN, NEW linked \in BOOLEAN, leave_world(dies, linked)
  PROVE  AffInv'
<1>1. FieldsOK /\ NumbersAgree /\ Enabled /\ Away /\ where = "game"
  BY DEF AffInv, Playing, leave_world
<1>2. /\ worn' = {} /\ rounds' = {} /\ lost' = (IF dies THEN Item ELSE lost)
      /\ saved' = Stored(num - Weighs(worn), {}) /\ where' = (IF linked THEN "menu" ELSE "out")
      /\ good' = good
  BY DEF leave_world, Bare
<1>3. /\ Weighs(worn) \in Int /\ SumOf(affected) \in Int /\ base \in Int /\ num \in Int
      /\ Weighs({}) = 0 /\ worn \subseteq Item
  BY <1>1, WeighsTyped, WeighsNone, SumOfTyped, AffectsAssumption DEF FieldsOK, AffectsAssumption
<1>4. num - Weighs(worn) \in Int /\ num - Weighs(worn) = base + SumOf(affected) + Weighs({})
  BY <1>1, <1>3 DEF NumbersAgree
<1>5. /\ saved'.num \in Int /\ saved'.affected \subseteq Affect /\ IsFiniteSet(saved'.affected)
      /\ saved'.base \in 0..MaxBase /\ saved'.num = saved'.base
  <2>1. {} \subseteq Item
    OBVIOUS
  <2> QED
    BY <1>1, <1>2, <1>4, <2>1, WrittenRight
<1>6. lost' \subseteq Item \ worn' /\ worn' \subseteq Item /\ rounds' \subseteq Round
  BY <1>1, <1>2 DEF FieldsOK
<1>7. CASE linked
  <2>1. /\ num' = num - Weighs(worn) /\ where' = "menu" /\ UNCHANGED <<base, affected>>
        /\ bits' = affect_total(bits \ Gives({}, worn, rounds), affected, {}, {})
    BY <1>2, <1>7 DEF leave_world, Bare
  <2>2. FieldsOK'
    BY <1>1, <1>2, <1>4, <1>5, <1>6, <2>1 DEF FieldsOK
  <2>3. NumbersAgree'
    BY <1>2, <1>4, <1>5, <2>1 DEF NumbersAgree
  <2>4. Enabled'
    <3>1. bits = Gives(affected, worn, rounds)
      BY <1>1 DEF Enabled
    <3>2. bits' = Gives(affected, {}, {})
      BY <2>1, <3>1, Regiven
    <3> QED
      BY <1>2, <2>1, <3>2 DEF Enabled
  <2>5. Away'
    BY <1>2, <2>1 DEF Away
  <2> QED
    BY <2>2, <2>3, <2>4, <2>5 DEF AffInv
<1>8. CASE ~linked
  <2>1. num' = 0 /\ base' = 0 /\ bits' = {} /\ affected' = {} /\ where' = "out"
    BY <1>2, <1>8 DEF leave_world
  <2>2. FieldsOK'
    BY <1>1, <1>2, <1>5, <1>6, <2>1, FS_EmptySet, AffectsAssumption DEF FieldsOK, AffectsAssumption
  <2> QED
    BY <1>2, <1>5, <2>1, <2>2 DEF AffInv, NumbersAgree, Enabled, Away
<1> QED
  BY <1>7, <1>8

LEMMA Crash ==
  ASSUME AffInv, crash
  PROVE  AffInv'
<1>1. FieldsOK'
  BY FS_EmptySet, AffectsAssumption DEF AffInv, FieldsOK, crash, AffectsAssumption
<1> QED
  BY <1>1 DEF AffInv, NumbersAgree, Enabled, Away, crash

LEMMA StoreToChar ==
  ASSUME AffInv, store_to_char
  PROVE  AffInv'
<1> DEFINE A == saved.affected
<1>1. FieldsOK /\ NumbersAgree /\ Enabled /\ Away
  BY DEF AffInv
<1>2. /\ where = "out" /\ where' = "menu" /\ affected' = A /\ num' = saved.num + SumOf(A)
      /\ bits' = affect_total(bits, A, {}, {}) /\ base' = saved.base
      /\ UNCHANGED <<worn, rounds, lost, good, saved>>
  BY DEF store_to_char
<1>3. worn = {} /\ rounds = {} /\ bits = {}
  BY <1>1, <1>2 DEF Away
<1>4. /\ A \subseteq Affect /\ IsFiniteSet(A) /\ SumOf(A) \in Int /\ saved.num = saved.base
      /\ saved.num \in Int /\ Weighs({}) = 0
  BY <1>1, SumOfTyped, WeighsNone DEF FieldsOK, NumbersAgree
<1> HIDE DEF A
<1>5. FieldsOK'
  BY <1>1, <1>2, <1>4 DEF FieldsOK
<1>6. NumbersAgree'
  BY <1>2, <1>3, <1>4 DEF NumbersAgree
<1>7. Enabled'
  BY <1>2, <1>3 DEF Enabled, affect_total
<1>8. Away'
  BY <1>2, <1>3 DEF Away
<1> QED
  BY <1>5, <1>6, <1>7, <1>8 DEF AffInv

LEMMA EnterGame ==
  ASSUME AffInv, enter_game
  PROVE  AffInv'
<1>1. FieldsOK /\ NumbersAgree /\ Enabled /\ Away
  BY DEF AffInv
<1>2. /\ where = "menu" /\ where' = "game" /\ num' = (num - SumOf(affected)) + SumOf(affected)
      /\ bits' = affect_total(bits \ Gives(affected, {}, {}), affected, {}, {})
      /\ UNCHANGED <<base, affected, worn, rounds, lost, good, saved>>
  BY GivesOf DEF enter_game, reset_char
<1>3. worn = {} /\ rounds = {}
  BY <1>1, <1>2 DEF Away
<1>4. SumOf(affected) \in Int /\ num \in Int /\ num' = num
  BY <1>1, <1>2, SumOfTyped DEF FieldsOK
<1>5. FieldsOK' /\ NumbersAgree' /\ Away'
  BY <1>1, <1>2, <1>4 DEF FieldsOK, NumbersAgree, Away
<1>6. Enabled'
  <2>1. bits = Gives(affected, {}, {})
    BY <1>1, <1>2, <1>3 DEF Enabled
  <2>2. bits' = Gives(affected, {}, {})
    BY <1>2, <2>1, Regiven
  <2> QED
    BY <1>2, <1>3, <2>2 DEF Enabled
<1> QED
  BY <1>5, <1>6 DEF AffInv

LEMMA AffSteps == AffInv /\ [AffNext]_aff_vars => AffInv'
<1> SUFFICES ASSUME AffInv, [AffNext]_aff_vars PROVE AffInv'
  OBVIOUS
<1>1. CASE \E x \in Spell : affect_to_char(x) \/ affect_join(x) \/ affect_from_char(x)
  BY <1>1, AffectToChar, AffectJoin, AffectFromChar
<1>2. CASE \E r \in Round : round_to_char(r) \/ round_remove(r)
  BY <1>2, RoundToChar, RoundRemove
<1>3. CASE \E i \in Item : equip_char(i) \/ unequip_char(i)
  BY <1>3, EquipChar, UnequipChar
<1>4. CASE \/ \E i \in Item : do_get(i)
           \/ change_alignment
           \/ \E n \in {1, -1} : advance_level(n)
           \/ UNCHANGED aff_vars
  BY <1>4, Others
<1>5. CASE \E dies, linked \in BOOLEAN : leave_world(dies, linked)
  BY <1>5, LeaveWorld
<1>6. CASE update_tick \/ save_record \/ crash \/ store_to_char \/ enter_game
  BY <1>6, UpdateTick, SaveRecord, Crash, StoreToChar, EnterGame
<1> QED
  BY <1>1, <1>2, <1>3, <1>4, <1>5, <1>6 DEF AffNext

LEMMA AffAlways == AffSpec => []AffInv
BY AffStarts, AffSteps, PTL DEF AffSpec

(* The fields of a player and of his record keep their types: no affect    *)
(* that ends, joins or is read leaves one with a duration below zero, and  *)
(* he never wears what he has lost.                                        *)
THEOREM AffectsTyped == AffSpec => []AffOK
<1>1. AffInv => AffOK
  <2> SUFFICES ASSUME AffInv PROVE AffOK
    OBVIOUS
  <2>1. FieldsOK /\ Enabled /\ Away
    BY DEF AffInv
  <2>2. bits \subseteq {Bit[x] : x \in Spell} \cup {ItemBit[i] : i \in Item} \cup {RoundBit[r] : r \in Round}
    BY <2>1 DEF FieldsOK, Enabled, Away, Gives, Bits, ItemBits, Affect
  <2> QED
    BY <2>1, <2>2 DEF FieldsOK, AffOK
<1> QED
  BY <1>1, AffAlways, PTL

(* Whatever is cast, joined, worn, saved, read and taken off, the number   *)
(* is what is his for good and what is on him now, in memory and in the    *)
(* file; affect_total leaves the abilities something gives him, no others. *)
THEOREM EffectsAlwaysAgree == AffSpec => []EffectsAgree
<1>1. AffInv => EffectsAgree
  BY DEF AffInv, NumbersAgree, Enabled, EffectsAgree
<1> QED
  BY <1>1, AffAlways, PTL

-----------------------------------------------------------------------------
(* Affects per round: the allocator of their records, then their lists. *)

(* The n free records c[1] to c[n] in the order of the list, and its end. *)
FreeChain(c, n) ==
  /\ c \in [1 .. n + 1 -> 0 .. max]
  /\ c[1] = nextfree /\ c[n + 1] = max
  /\ \A i \in 1 .. n : c[i] \in Unit \ held /\ index[c[i]] = c[i + 1]
  /\ \A i, j \in 1 .. n + 1 : c[i] = c[j] => i = j
  /\ \A u \in Unit \ held : \E i \in 1 .. n : c[i] = u

UsedCounts == IsFiniteSet(held) /\ used = Cardinality(held)
Chained == \E n \in Nat : \E c \in [1 .. n + 1 -> 0 .. max] : FreeChain(c, n)
TableInv == TableOK /\ UsedCounts /\ Chained

-----------------------------------------------------------------------------
LEMMA TableStarts == init_alloctable => TableInv
<1> SUFFICES ASSUME init_alloctable PROVE TableInv
  OBVIOUS
<1> USE AllocAssumption DEF AllocAssumption, init_alloctable
<1>1. TableOK
  BY DEF TableOK, Unit
<1>2. UsedCounts
  BY FS_EmptySet DEF UsedCounts
<1>3. Chained
  <2> DEFINE c == [i \in 1 .. Initial + 1 |-> i - 1]
  <2>1. c \in [1 .. Initial + 1 -> 0 .. max]
    OBVIOUS
  <2>2. \A i \in 1 .. Initial : c[i] \in Unit \ held /\ index[c[i]] = c[i + 1]
    <3> TAKE i \in 1 .. Initial
    <3>1. c[i] = i - 1 /\ c[i + 1] = i /\ i - 1 \in Unit
      BY DEF Unit
    <3> QED
      BY <3>1 DEF Unit
  <2>3. \A i, j \in 1 .. Initial + 1 : c[i] = c[j] => i = j
    OBVIOUS
  <2>4. \A u \in Unit \ held : \E i \in 1 .. Initial : c[i] = u
    <3> TAKE u \in Unit \ held
    <3>1. u + 1 \in 1 .. Initial /\ c[u + 1] = u
      BY DEF Unit
    <3> QED
      BY <3>1
  <2>5. c[1] = nextfree /\ c[Initial + 1] = max
    OBVIOUS
  <2>6. FreeChain(c, Initial)
    BY <2>1, <2>2, <2>3, <2>4, <2>5 DEF FreeChain
  <2> QED
    BY <2>1, <2>6 DEF Chained
<1> QED
  BY <1>1, <1>2, <1>3 DEF TableInv

-----------------------------------------------------------------------------
(* What alloc_unit does: a free record, and the rest of the list. *)
LEMMA AllocStep ==
  ASSUME TableInv, alloc_unit(nextfree)
  PROVE  TableInv' /\ Pool!Alloc
<1>1. PICK n \in Nat : \E c \in [1 .. n + 1 -> 0 .. max] : FreeChain(c, n)
  BY DEF TableInv, Chained
<1>2. PICK c \in [1 .. n + 1 -> 0 .. max] : FreeChain(c, n)
  BY <1>1
<1> USE DEF FreeChain
<1>3. CASE nextfree < max
  <2>1. /\ max' = max /\ index' = index /\ nextfree' = index[nextfree]
        /\ used' = used + 1 /\ held' = held \cup {nextfree}
    BY <1>3 DEF alloc_unit, TableInv, TableOK
  <2>2. n \in Nat \ {0}
    <3> SUFFICES ASSUME n = 0 PROVE FALSE
      OBVIOUS
    <3> QED
      BY <1>2, <1>3 DEF TableInv, TableOK
  <2>3. nextfree \in Unit \ held /\ nextfree' = c[2]
    <3>1. 1 \in 1 .. n
      BY <2>2
    <3> QED
      BY <1>2, <2>1, <3>1
  <2> DEFINE d == [i \in 1 .. n |-> c[i + 1]]
  <2>4. FreeChain(d, n - 1)'
    <3>1. \A i \in 1 .. n : d[i] = c[i + 1] /\ i + 1 \in 1 .. n + 1 /\ i + 1 # 1
      BY <2>2
    <3>2. (n - 1) + 1 = n /\ n - 1 \in Nat
      BY <2>2
    <3>3. d \in [1 .. n -> 0 .. max]
      BY <3>1, <1>2
    <3>4. d[1] = nextfree' /\ d[n] = max
      BY <2>2, <2>3, <1>2
    <3>5. \A i \in 1 .. n - 1 : d[i] \in Unit \ held' /\ index[d[i]] = d[i + 1]
      <4> TAKE i \in 1 .. n - 1
      <4>1. i + 1 \in 1 .. n /\ i \in 1 .. n /\ (i + 1) + 1 = i + 2 /\ 1 \in 1 .. n + 1
        BY <2>2
      <4>2. d[i] = c[i + 1] /\ d[i + 1] = c[(i + 1) + 1]
        BY <4>1
      <4>3. c[i + 1] \in Unit \ held /\ index[c[i + 1]] = c[(i + 1) + 1]
        BY <4>1, <1>2
      <4>4. c[i + 1] # nextfree
        BY <4>1, <3>1, <1>2
      <4> QED
        BY <4>2, <4>3, <4>4, <2>1
    <3>6. \A i, j \in 1 .. n : d[i] = d[j] => i = j
      <4> TAKE i \in 1 .. n, j \in 1 .. n
      <4> HAVE d[i] = d[j]
      <4>1. c[i + 1] = c[j + 1] /\ i + 1 \in 1 .. n + 1 /\ j + 1 \in 1 .. n + 1
        BY <3>1
      <4>2. i + 1 = j + 1
        BY <4>1, <1>2
      <4> QED
        BY <4>2
    <3>7. \A u \in Unit \ held' : \E i \in 1 .. n - 1 : d[i] = u
      <4> TAKE u \in Unit \ held'
      <4>1. u \in Unit \ held /\ u # nextfree
        BY <2>1
      <4>2. PICK i \in 1 .. n : c[i] = u
        BY <4>1, <1>2
      <4>3. i # 1
        BY <4>1, <4>2, <1>2
      <4>4. i - 1 \in 1 .. n - 1 /\ (i - 1) + 1 = i /\ i - 1 \in 1 .. n
        BY <4>3, <2>2
      <4> QED
        BY <4>2, <4>4
    <3>8. Unit' = Unit
      BY <2>1 DEF Unit
    <3> HIDE DEF d
    <3> QED
      BY <3>2, <3>3, <3>4, <3>5, <3>6, <3>7, <3>8, <2>1
  <2>5. Chained'
    <3>1. n - 1 \in Nat /\ d \in [1 .. (n - 1) + 1 -> 0 .. max']
      BY <2>2, <2>4
    <3> QED
      BY <2>4, <3>1, ZenonT(30) DEF Chained
  <2>6. TableOK'
    <3>1. Unit' = Unit
      BY <2>1 DEF Unit
    <3>2. index[nextfree] \in 0 .. max /\ used + 1 \in Nat
      BY <2>3 DEF TableInv, TableOK
    <3>3. held' \subseteq Unit
      BY <2>1, <2>3 DEF TableInv, TableOK
    <3> QED
      BY <2>1, <3>1, <3>2, <3>3 DEF TableInv, TableOK
  <2>7. UsedCounts'
    BY <2>1, <2>3, FS_AddElement DEF TableInv, UsedCounts
  <2>8. Pool!Alloc
    <3>1. held # Unit /\ max' = max
      BY <2>1, <2>3
    <3>2. nextfree \in Unit' \ held
      BY <2>1, <2>3 DEF Unit
    <3> QED
      BY <2>1, <3>1, <3>2 DEF Pool!Alloc, Pool!Unit, Unit
  <2> QED
    BY <2>5, <2>6, <2>7, <2>8 DEF TableInv
<1>4. CASE nextfree = max
  <2>1. /\ max' = max + Delta /\ nextfree' = Expanded(max + Delta)[max]
        /\ index' = Expanded(max + Delta)
        /\ used' = used + 1 /\ held' = held \cup {max}
    BY <1>4 DEF alloc_unit, TableInv, TableOK
  <2>2. /\ max \in Nat /\ Delta \in Nat \ {0}
        /\ \A i \in 0 .. max + Delta - 1 : index'[i] = IF i < max THEN index[i] ELSE i + 1
        /\ nextfree' = max + 1
    BY <2>1, AllocAssumption DEF AllocAssumption, TableInv, TableOK, Expanded
  <2>3. n = 0
    BY <1>2, <1>4
  <2>4. held = Unit
    BY <1>2, <2>3 DEF TableInv, TableOK
  <2>m. PICK m \in Nat : m = max
    BY <2>2
  <2> DEFINE d == [i \in 1 .. Delta |-> m + i]
  <2>5. FreeChain(d, Delta - 1)'
    <3>1. \A i \in 1 .. Delta : d[i] = max + i
      BY <2>m
    <3>2. Unit' = 0 .. max + Delta - 1 /\ held' = 0 .. max
      BY <2>1, <2>2, <2>4 DEF Unit
    <3>3. (Delta - 1) + 1 = Delta /\ 1 \in 1 .. Delta /\ Delta \in 1 .. Delta
      BY <2>2
    <3>4. d \in [1 .. Delta -> 0 .. max']
      BY <2>1, <2>2, <2>m
    <3>5. d[1] = nextfree' /\ d[Delta] = max'
      BY <3>1, <3>3, <2>1, <2>2
    <3>6. \A i \in 1 .. Delta - 1 : d[i] \in Unit' \ held' /\ index'[d[i]] = d[i + 1]
      <4> TAKE i \in 1 .. Delta - 1
      <4>1. i \in 1 .. Delta /\ i + 1 \in 1 .. Delta
        BY <2>2
      <4>2. max + i \in 0 .. max + Delta - 1 /\ max + i \notin 0 .. max /\ ~(max + i < max)
        BY <2>2
      <4>3. index'[max + i] = max + (i + 1)
        BY <2>2, <4>2
      <4> QED
        BY <3>1, <3>2, <4>1, <4>2, <4>3
    <3>7. \A i, j \in 1 .. Delta : d[i] = d[j] => i = j
      BY <2>2, <2>m
    <3>8. \A u \in Unit' \ held' : \E i \in 1 .. Delta - 1 : d[i] = u
      <4> TAKE u \in Unit' \ held'
      <4>1. u - max \in 1 .. Delta - 1 /\ u - max \in 1 .. Delta /\ max + (u - max) = u
        BY <3>2, <2>2
      <4> QED
        BY <3>1, <4>1
    <3> HIDE DEF d
    <3> QED
      BY <3>3, <3>4, <3>5, <3>6, <3>7, <3>8
  <2>6. Chained'
    <3> HIDE DEF d
    <3>1. Delta - 1 \in Nat /\ d \in [1 .. (Delta - 1) + 1 -> 0 .. max']
      BY <2>2, <2>5
    <3> QED
      BY <2>5, <3>1, ZenonT(30) DEF Chained
  <2>7. TableOK'
    <3>1. Expanded(max + Delta) \in [0 .. (max + Delta) - 1 -> 0 .. max + Delta]
      BY <2>2 DEF TableInv, TableOK, Unit, Expanded
    <3>2. used + 1 \in Nat /\ held \cup {max} \subseteq 0 .. (max + Delta) - 1
      BY <2>2 DEF TableInv, TableOK, Unit
    <3>3. max + 1 \in 0 .. max + Delta /\ max + Delta \in Nat
      BY <2>2
    <3> QED
      BY <2>1, <2>2, <3>1, <3>2, <3>3 DEF TableOK, Unit
  <2>8. UsedCounts'
    <3>1. max \notin held
      BY <2>2, <2>4 DEF Unit
    <3> QED
      BY <2>1, <3>1, FS_AddElement DEF TableInv, UsedCounts
  <2>9. Pool!Alloc
    <3>1. max \in 0 .. max' - 1 /\ max \notin held
      BY <2>1, <2>2, <2>4 DEF Unit
    <3> QED
      BY <2>1, <2>4, <3>1 DEF Pool!Alloc, Pool!Unit, Unit
  <2> QED
    BY <2>6, <2>7, <2>8, <2>9 DEF TableInv
<1> QED
  BY <1>3, <1>4 DEF TableInv, TableOK

(* What free_unit does: the record is put before the list. *)
LEMMA FreeStep ==
  ASSUME TableInv, NEW u \in held, free_unit(u)
  PROVE  TableInv' /\ Pool!Free
<1>1. PICK n \in Nat : \E c \in [1 .. n + 1 -> 0 .. max] : FreeChain(c, n)
  BY DEF TableInv, Chained
<1>2. PICK c \in [1 .. n + 1 -> 0 .. max] : FreeChain(c, n)
  BY <1>1
<1>3. /\ max' = max /\ index' = [index EXCEPT ![u] = nextfree] /\ nextfree' = u
      /\ used' = used - 1 /\ held' = held \ {u} /\ u \in Unit /\ Unit' = Unit
  BY DEF free_unit, Then, Unit
<1>4. max \in Nat /\ u # max /\ u \in 0 .. max
  BY <1>3 DEF TableInv, TableOK, Unit
<1> DEFINE d == [i \in 1 .. n + 2 |-> IF i = 1 THEN u ELSE c[i - 1]]
<1> USE DEF FreeChain
<1>5. FreeChain(d, n + 1)'
  <2>1. \A i \in 2 .. n + 2 : d[i] = c[i - 1] /\ i - 1 \in 1 .. n + 1
    OBVIOUS
  <2>2. d[1] = u
    OBVIOUS
  <2>3. (n + 1) + 1 = n + 2
    OBVIOUS
  <2>4. d \in [1 .. n + 2 -> 0 .. max]
    BY <1>2, <1>4, <2>1, <2>2
  <2>5. \A i \in 1 .. n + 1 : c[i] # u
    <3> TAKE i \in 1 .. n + 1
    <3>1. CASE i \in 1 .. n
      BY <3>1, <1>2
    <3>2. CASE i = n + 1
      BY <3>2, <1>2, <1>4
    <3> QED
      BY <3>1, <3>2
  <2>6. d[n + 2] = max
    <3>1. n + 2 \in 2 .. n + 2 /\ (n + 2) - 1 = n + 1
      OBVIOUS
    <3> QED
      BY <3>1, <2>1, <1>2
  <2>7. \A i \in 1 .. n + 1 : d[i] \in Unit \ held' /\ index'[d[i]] = d[i + 1]
    <3> TAKE i \in 1 .. n + 1
    <3>1. CASE i = 1
      <4>1. d[2] = c[1]
        <5>1. 2 \in 2 .. n + 2 /\ 2 - 1 = 1
          OBVIOUS
        <5> QED
          BY <5>1, <2>1
      <4>2. index'[u] = nextfree
        BY <1>3 DEF TableInv, TableOK
      <4> QED
        BY <3>1, <4>1, <4>2, <2>2, <1>2, <1>3
    <3>2. CASE i \in 2 .. n + 1
      <4>1. /\ i - 1 \in 1 .. n /\ i - 1 \in 1 .. n + 1 /\ i \in 2 .. n + 2
            /\ i + 1 \in 2 .. n + 2 /\ (i + 1) - 1 = i /\ (i - 1) + 1 = i
        BY <3>2
      <4>2. d[i] = c[i - 1] /\ d[i + 1] = c[i]
        BY <4>1, <2>1
      <4>3. c[i - 1] \in Unit \ held /\ index[c[i - 1]] = c[i] /\ c[i - 1] # u
        BY <4>1, <1>2, <2>5
      <4>4. index'[c[i - 1]] = c[i]
        BY <4>3, <1>3 DEF TableInv, TableOK
      <4> QED
        BY <4>2, <4>3, <4>4, <1>3
    <3> QED
      BY <3>1, <3>2
  <2>8. \A i, j \in 1 .. n + 2 : d[i] = d[j] => i = j
    <3> TAKE i \in 1 .. n + 2, j \in 1 .. n + 2
    <3> HAVE d[i] = d[j]
    <3>1. CASE i = 1 /\ j # 1
      BY <3>1, <2>1, <2>2, <2>5
    <3>2. CASE i # 1 /\ j = 1
      BY <3>2, <2>1, <2>2, <2>5
    <3>3. CASE i # 1 /\ j # 1
      <4>1. c[i - 1] = c[j - 1] /\ i - 1 \in 1 .. n + 1 /\ j - 1 \in 1 .. n + 1
        BY <3>3, <2>1
      <4>2. i - 1 = j - 1
        BY <4>1, <1>2
      <4> QED
        BY <4>2
    <3> QED
      BY <3>1, <3>2, <3>3
  <2>9. \A v \in Unit \ held' : \E i \in 1 .. n + 1 : d[i] = v
    <3> TAKE v \in Unit \ held'
    <3>1. CASE v = u
      BY <3>1, <2>2
    <3>2. CASE v # u
      <4>1. v \in Unit \ held
        BY <3>2, <1>3
      <4>2. PICK i \in 1 .. n : c[i] = v
        BY <4>1, <1>2
      <4>3. i + 1 \in 2 .. n + 2 /\ i + 1 \in 1 .. n + 1 /\ (i + 1) - 1 = i
        OBVIOUS
      <4> QED
        BY <4>2, <4>3, <2>1
    <3> QED
      BY <3>1, <3>2
  <2> HIDE DEF d
  <2> QED
    BY <2>2, <2>3, <2>4, <2>6, <2>7, <2>8, <2>9, <1>3
<1>6. Chained'
  <2> HIDE DEF d
  <2>1. n + 1 \in Nat /\ d \in [1 .. (n + 1) + 1 -> 0 .. max']
    BY <1>5
  <2> QED
    BY <1>5, <2>1, ZenonT(30) DEF Chained
<1>7. UsedCounts'
  BY <1>3, FS_RemoveElement DEF TableInv, UsedCounts
<1>8. TableOK'
  <2>1. used' \in Nat
    BY <1>7, FS_CardinalityType DEF UsedCounts
  <2> QED
    BY <1>3, <2>1 DEF TableInv, TableOK, Unit
<1>9. Pool!Free
  BY <1>3 DEF Pool!Free
<1> QED
  BY <1>6, <1>7, <1>8, <1>9 DEF TableInv

-----------------------------------------------------------------------------
LEMMA TableStep == TableInv /\ [AllocNext]_alloc_vars => TableInv' /\ [Pool!Alloc \/ Pool!Free]_<<held, used, max>>
<1> SUFFICES ASSUME TableInv, [AllocNext]_alloc_vars
             PROVE  TableInv' /\ [Pool!Alloc \/ Pool!Free]_<<held, used, max>>
  OBVIOUS
<1>1. CASE alloc_unit(nextfree)
  BY <1>1, AllocStep
<1>2. CASE \E u \in held : free_unit(u)
  BY <1>2, FreeStep
<1>3. CASE UNCHANGED alloc_vars
  <2>1. /\ index' = index /\ nextfree' = nextfree /\ used' = used
        /\ max' = max /\ held' = held
    BY <1>3 DEF alloc_vars
  <2>2. Chained'
    <3>1. PICK n \in Nat : \E c \in [1 .. n + 1 -> 0 .. max] : FreeChain(c, n)
      BY DEF TableInv, Chained
    <3>2. PICK c \in [1 .. n + 1 -> 0 .. max] : FreeChain(c, n)
      BY <3>1
    <3>3. FreeChain(c, n)'
      BY <2>1, <3>2 DEF FreeChain, Unit
    <3> QED
      BY <2>1, <3>3 DEF Chained
  <2>3. TableOK' /\ UsedCounts'
    BY <2>1 DEF TableInv, TableOK, Unit, UsedCounts
  <2> QED
    BY <2>1, <2>2, <2>3 DEF TableInv
<1> QED
  BY <1>1, <1>2, <1>3 DEF AllocNext

(* The table keeps its types: free_unit's check of the index never stops   *)
(* the server (allocate.c:153).                                            *)
THEOREM TableTyped == AllocSpec => []TableOK
<1>1. init_alloctable => TableInv
  BY TableStarts
<1>2. TableInv /\ [AllocNext]_alloc_vars => TableInv'
  BY TableStep
<1>3. TableInv => TableOK
  BY DEF TableInv
<1> QED
  BY <1>1, <1>2, <1>3, PTL DEF AllocSpec

(* alloc_unit never hands out a record that is held, and takes memory only *)
(* when no record is free (allocate.c:125-161).                            *)
THEOREM TableIsPool == AllocSpec => IsPool
<1>1. init_alloctable => TableInv /\ Pool!Init
  BY TableStarts DEF init_alloctable, Pool!Init
<1>2. TableInv /\ [AllocNext]_alloc_vars => TableInv' /\ [Pool!Alloc \/ Pool!Free]_<<held, used, max>>
  BY TableStep
<1> QED
  BY <1>1, <1>2, PTL DEF AllocSpec, IsPool, Pool!Spec

-----------------------------------------------------------------------------
(* Chains. *)

(* The records c[1] to c[n], each linked to the next and the last to NULL. *)
Linked(f, link, c, n) ==
  /\ c \in [1 .. n -> Record]
  /\ f = IF n = 0 THEN NULL ELSE c[1]
  /\ \A i \in 1 .. n : link[c[i]] = IF i = n THEN NULL ELSE c[i + 1]
  /\ \A i, j \in 1 .. n : c[i] = c[j] => i = j

(* S is what a chain that starts at f leads over. *)
Leads(f, link, S) ==
  \E n \in Nat : \E c : Linked(f, link, c, n) /\ S = {c[i] : i \in 1 .. n}

(* A chain is no longer than there are records. *)
LEMMA LinkedLength ==
  ASSUME NEW f, NEW link, NEW n \in Nat, NEW c, Linked(f, link, c, n)
  PROVE  n <= Memory
<1>1. Memory \in Nat
  BY AllocAssumption DEF AllocAssumption
<1>2. IsFiniteSet(1 .. n) /\ Cardinality(1 .. n) = n
  BY FS_Interval
<1>3. IsFiniteSet(Record) /\ Cardinality(Record) = Memory
  <2>1. 0 \in Int /\ Memory - 1 \in Int
    BY <1>1
  <2>2. IsFiniteSet(Record) /\ Cardinality(Record) = IF 0 > Memory - 1 THEN 0 ELSE (Memory - 1) - 0 + 1
    BY <2>1, FS_Interval DEF Record
  <2> QED
    BY <1>1, <2>2
<1> SUFFICES ASSUME Memory < n PROVE FALSE
  BY <1>1
<1>4. c \in [1 .. n -> Record] /\ \A i, j \in 1 .. n : c[i] = c[j] => i = j
  BY DEF Linked
<1>5. \E i, j \in 1 .. n : i # j /\ c[i] = c[j]
  BY <1>2, <1>3, <1>4, FS_PigeonHole
<1> QED
  BY <1>4, <1>5

(* The k-th record after f, as ListOf counts them. *)
Nths(f, link, g) ==
  g = [k \in 0 .. Memory |-> IF k = 0 THEN f ELSE IF g[k - 1] = NULL THEN NULL ELSE link[g[k - 1]]]

LEMMA ListOfNths ==
  ASSUME NEW f, NEW link, \E g : Nths(f, link, g)
  PROVE  \E g : Nths(f, link, g) /\ ListOf(f, link) = {g[k] : k \in 0 .. Memory} \ {NULL}
<1>1. ListOf(f, link) = {(CHOOSE g : Nths(f, link, g))[k] : k \in 0 .. Memory} \ {NULL}
  BY Zenon DEF ListOf, Nths
<1> QED
  BY <1>1, Zenon

LEMMA NullNoRecord == NULL \notin Record
BY NullAssumption, AllocAssumption DEF NullAssumption, AllocAssumption, Record

(* ListOf finds the records of a chain. *)
LEMMA ChainListed ==
  ASSUME NEW f, NEW link, NEW S, Leads(f, link, S)
  PROVE  ListOf(f, link) = S
<1>1. PICK n \in Nat : \E c : Linked(f, link, c, n) /\ S = {c[i] : i \in 1 .. n}
  BY DEF Leads
<1>2. PICK c : Linked(f, link, c, n) /\ S = {c[i] : i \in 1 .. n}
  BY <1>1
<1>3. n <= Memory /\ Memory \in Nat
  BY <1>2, LinkedLength, AllocAssumption DEF AllocAssumption
<1> DEFINE h == [k \in 0 .. Memory |-> IF k < n THEN c[k + 1] ELSE NULL]
<1>4. ASSUME NEW k \in 1 .. Memory
      PROVE  h[k] = IF h[k - 1] = NULL THEN NULL ELSE link[h[k - 1]]
  <2>1. k - 1 \in 0 .. Memory /\ k \in 0 .. Memory
    BY <1>3
  <2>2. CASE k - 1 < n
    <3>1. k \in 1 .. n /\ h[k - 1] = c[k] /\ c[k] # NULL
      BY <1>2, <2>1, <2>2, NullNoRecord DEF Linked
    <3>2. link[c[k]] = IF k = n THEN NULL ELSE c[k + 1]
      BY <1>2, <3>1 DEF Linked
    <3> QED
      BY <2>1, <3>1, <3>2
  <2>3. CASE ~(k - 1 < n)
    BY <2>1, <2>3
  <2> QED
    BY <2>2, <2>3
<1>5. h[0] = f
  BY <1>2, <1>3 DEF Linked
<1>6. Nths(f, link, h)
  <2>1. h = [k \in 0 .. Memory |-> h[k]]
    OBVIOUS
  <2> HIDE DEF h
  <2>2. \A k \in 0 .. Memory : h[k] = IF k = 0 THEN f ELSE IF h[k - 1] = NULL THEN NULL ELSE link[h[k - 1]]
    BY <1>3, <1>4, <1>5
  <2>3. h = [k \in 0 .. Memory |-> IF k = 0 THEN f ELSE IF h[k - 1] = NULL THEN NULL ELSE link[h[k - 1]]]
    BY <2>1, <2>2
  <2> QED
    BY <2>3 DEF Nths
<1>7. PICK g : Nths(f, link, g) /\ ListOf(f, link) = {g[k] : k \in 0 .. Memory} \ {NULL}
  BY <1>6, ListOfNths
<1> HIDE DEF h
<1>8. \A k \in 0 .. Memory : g[k] = h[k]
  <2> DEFINE T == {k \in Nat : k <= Memory => g[k] = h[k]}
  <2>1. 0 \in T
    BY <1>3, <1>5, <1>7 DEF Nths
  <2>2. ASSUME NEW k \in T PROVE k + 1 \in T
    <3> SUFFICES ASSUME k + 1 <= Memory PROVE g[k + 1] = h[k + 1]
      OBVIOUS
    <3>1. k + 1 \in 1 .. Memory /\ (k + 1) - 1 = k /\ k <= Memory /\ k + 1 \in 0 .. Memory /\ k + 1 # 0
      BY <1>3
    <3>2. g[k] = h[k]
      BY <3>1
    <3>3. g[k + 1] = IF g[(k + 1) - 1] = NULL THEN NULL ELSE link[g[(k + 1) - 1]]
      BY <1>7, <3>1 DEF Nths
    <3>4. h[k + 1] = IF h[(k + 1) - 1] = NULL THEN NULL ELSE link[h[(k + 1) - 1]]
      BY <1>4, <3>1
    <3> QED
      BY <3>1, <3>2, <3>3, <3>4
  <2>3. T \subseteq Nat
    OBVIOUS
  <2> HIDE DEF T
  <2>4. T = Nat
    BY <2>1, <2>2, <2>3, EveryNumber
  <2> QED
    BY <1>3, <2>4 DEF T
<1>9. {h[k] : k \in 0 .. Memory} \ {NULL} = S
  <2>1. ASSUME NEW k \in 0 .. Memory, h[k] # NULL PROVE h[k] \in S
    BY <1>2, <1>3, <2>1 DEF h
  <2>2. ASSUME NEW i \in 1 .. n PROVE c[i] \in {h[k] : k \in 0 .. Memory} /\ c[i] # NULL
    <3>1. i - 1 \in 0 .. Memory /\ h[i - 1] = c[i]
      BY <1>3 DEF h
    <3> QED
      BY <1>2, <3>1, NullNoRecord DEF Linked
  <2> QED
    BY <1>2, <2>1, <2>2
<1> QED
  BY <1>7, <1>8, <1>9

(* What a chain leads over, and where it starts. *)
LEMMA LeadsFrom ==
  ASSUME NEW f, NEW link, NEW S, Leads(f, link, S)
  PROVE  /\ S \subseteq Record
         /\ f = NULL => S = {}
         /\ f # NULL => f \in S
         /\ \A p \in S : link[p] \in S \cup {NULL} /\ link[p] # f
         /\ \A r \in S : r # f => \E p \in S : link[p] = r
<1>1. PICK n \in Nat : \E c : Linked(f, link, c, n) /\ S = {c[i] : i \in 1 .. n}
  BY DEF Leads
<1>2. PICK c : Linked(f, link, c, n) /\ S = {c[i] : i \in 1 .. n}
  BY <1>1
<1>3. /\ \A i \in 1 .. n : c[i] \in Record /\ c[i] # NULL
      /\ \A i \in 1 .. n : link[c[i]] = IF i = n THEN NULL ELSE c[i + 1]
      /\ \A i, j \in 1 .. n : c[i] = c[j] => i = j
      /\ f = IF n = 0 THEN NULL ELSE c[1]
  BY <1>2, NullNoRecord DEF Linked
<1>4. S \subseteq Record /\ (f = NULL => S = {}) /\ (f # NULL => f \in S)
  BY <1>2, <1>3
<1>5. ASSUME NEW i \in 1 .. n
      PROVE  link[c[i]] \in S \cup {NULL} /\ link[c[i]] # f
  <2>1. n # 0 /\ 1 \in 1 .. n
    OBVIOUS
  <2>2. CASE i = n
    BY <1>3, <2>1, <2>2
  <2>3. CASE i # n
    <3>1. i + 1 \in 1 .. n /\ i + 1 # 1
      BY <2>3
    <3> QED
      BY <1>2, <1>3, <2>1, <2>3, <3>1
  <2> QED
    BY <2>2, <2>3
<1>6. ASSUME NEW r \in S, r # f PROVE \E p \in S : link[p] = r
  <2>1. PICK i \in 1 .. n : c[i] = r
    BY <1>2
  <2>2. i # 1 /\ i - 1 \in 1 .. n /\ i - 1 # n /\ (i - 1) + 1 = i
    BY <1>3, <1>6, <2>1
  <2>3. link[c[i - 1]] = r /\ c[i - 1] \in S
    BY <1>2, <1>3, <2>1, <2>2
  <2> QED
    BY <2>3
<1> QED
  BY <1>2, <1>4, <1>5, <1>6

LEMMA LeadsNowhere ==
  ASSUME NEW link
  PROVE  Leads(NULL, link, {})
<1> DEFINE c == [i \in 1 .. 0 |-> NULL]
<1>1. Linked(NULL, link, c, 0) /\ {} = {c[i] : i \in 1 .. 0}
  BY DEF Linked
<1> QED
  BY <1>1 DEF Leads

(* Only the links of its own records hold a chain together. *)
LEMMA LeadsStill ==
  ASSUME NEW f, NEW link, NEW S, Leads(f, link, S),
         NEW other, \A p \in S : other[p] = link[p]
  PROVE  Leads(f, other, S)
<1>1. PICK n \in Nat : \E c : Linked(f, link, c, n) /\ S = {c[i] : i \in 1 .. n}
  BY DEF Leads
<1>2. PICK c : Linked(f, link, c, n) /\ S = {c[i] : i \in 1 .. n}
  BY <1>1
<1>3. \A i \in 1 .. n : other[c[i]] = link[c[i]]
  BY <1>2
<1>4. Linked(f, other, c, n)
  BY <1>2, <1>3 DEF Linked
<1>5. \E d : Linked(f, other, d, n) /\ S = {d[i] : i \in 1 .. n}
  BY <1>2, <1>4
<1> QED
  BY <1>5 DEF Leads

(* A new record goes before a chain. *)
LEMMA LeadsPushed ==
  ASSUME NEW f, NEW link, NEW S, Leads(f, link, S), NEW r \in Record \ S,
         NEW other, other[r] = f, \A p \in S : other[p] = link[p]
  PROVE  Leads(r, other, S \cup {r})
<1>0. Leads(f, other, S)
  BY LeadsStill
<1>1. PICK n \in Nat : \E c : Linked(f, other, c, n) /\ S = {c[i] : i \in 1 .. n}
  BY <1>0 DEF Leads
<1>2. PICK c : Linked(f, other, c, n) /\ S = {c[i] : i \in 1 .. n}
  BY <1>1
<1>3. /\ \A i \in 1 .. n : c[i] \in Record /\ c[i] # r
      /\ \A i \in 1 .. n : other[c[i]] = IF i = n THEN NULL ELSE c[i + 1]
      /\ \A i, j \in 1 .. n : c[i] = c[j] => i = j
      /\ f = IF n = 0 THEN NULL ELSE c[1]
  BY <1>2 DEF Linked
<1> DEFINE d == [i \in 1 .. n + 1 |-> IF i = 1 THEN r ELSE c[i - 1]]
<1>4. d[1] = r /\ \A i \in 2 .. n + 1 : d[i] = c[i - 1] /\ i - 1 \in 1 .. n
  OBVIOUS
<1>5. d \in [1 .. n + 1 -> Record]
  BY <1>3, <1>4
<1> HIDE DEF d
<1>6. ASSUME NEW i \in 1 .. n + 1
      PROVE  other[d[i]] = IF i = n + 1 THEN NULL ELSE d[i + 1]
  <2>1. CASE i = 1
    <3>1. n # 0 => d[2] = c[1]
      BY <1>4
    <3> QED
      BY <1>3, <1>4, <2>1, <3>1
  <2>2. CASE i # 1
    <3>1. i \in 2 .. n + 1 /\ i - 1 \in 1 .. n /\ (i - 1) + 1 = i
      BY <2>2
    <3>2. d[i] = c[i - 1] /\ (i # n + 1 => d[i + 1] = c[i])
      BY <1>4, <3>1
    <3>3. other[c[i - 1]] = IF i - 1 = n THEN NULL ELSE c[(i - 1) + 1]
      BY <1>3, <3>1
    <3> QED
      BY <3>1, <3>2, <3>3
  <2> QED
    BY <2>1, <2>2
<1>7. \A i, j \in 1 .. n + 1 : d[i] = d[j] => i = j
  <2> TAKE i \in 1 .. n + 1, j \in 1 .. n + 1
  <2> HAVE d[i] = d[j]
  <2>1. CASE i = 1 \/ j = 1
    BY <1>3, <1>4, <2>1
  <2>2. CASE i # 1 /\ j # 1
    <3>1. i \in 2 .. n + 1 /\ j \in 2 .. n + 1
      BY <2>2
    <3>2. c[i - 1] = c[j - 1] /\ i - 1 \in 1 .. n /\ j - 1 \in 1 .. n
      BY <1>4, <3>1
    <3>3. i - 1 = j - 1
      BY <1>3, <3>2
    <3> QED
      BY <3>3
  <2> QED
    BY <2>1, <2>2
<1>8. S \cup {r} = {d[i] : i \in 1 .. n + 1}
  <2>1. ASSUME NEW i \in 1 .. n + 1 PROVE d[i] \in S \cup {r}
    BY <1>2, <1>4
  <2>2. ASSUME NEW i \in 1 .. n PROVE c[i] \in {d[j] : j \in 1 .. n + 1}
    <3>1. i + 1 \in 2 .. n + 1 /\ (i + 1) - 1 = i /\ i + 1 \in 1 .. n + 1
      OBVIOUS
    <3>2. d[i + 1] = c[i]
      BY <1>4, <3>1
    <3> QED
      BY <3>1, <3>2
  <2>3. r \in {d[j] : j \in 1 .. n + 1}
    BY <1>4
  <2> QED
    BY <1>2, <2>1, <2>2, <2>3
<1>9. n + 1 \in Nat /\ Linked(r, other, d, n + 1)
  BY <1>4, <1>5, <1>6, <1>7 DEF Linked
<1>10. \E e : Linked(r, other, e, n + 1) /\ S \cup {r} = {e[i] : i \in 1 .. n + 1}
  BY <1>8, <1>9
<1> QED
  BY <1>9, <1>10 DEF Leads

(* The chain after its first record. *)
LEMMA LeadsOn ==
  ASSUME NEW f, NEW link, NEW S, Leads(f, link, S), f # NULL
  PROVE  Leads(link[f], link, S \ {f})
<1>1. PICK n \in Nat : \E c : Linked(f, link, c, n) /\ S = {c[i] : i \in 1 .. n}
  BY DEF Leads
<1>2. PICK c : Linked(f, link, c, n) /\ S = {c[i] : i \in 1 .. n}
  BY <1>1
<1>3. /\ \A i \in 1 .. n : c[i] \in Record
      /\ \A i \in 1 .. n : link[c[i]] = IF i = n THEN NULL ELSE c[i + 1]
      /\ \A i, j \in 1 .. n : c[i] = c[j] => i = j
      /\ n # 0 /\ f = c[1] /\ 1 \in 1 .. n /\ n - 1 \in Nat
  BY <1>2 DEF Linked
<1> DEFINE d == [i \in 1 .. n - 1 |-> c[i + 1]]
<1>4. \A i \in 1 .. n - 1 : d[i] = c[i + 1] /\ i + 1 \in 1 .. n /\ i + 1 # 1
  BY <1>3
<1>5. d \in [1 .. n - 1 -> Record]
  BY <1>3, <1>4
<1>6. link[f] = IF n - 1 = 0 THEN NULL ELSE d[1]
  BY <1>3, <1>4
<1> HIDE DEF d
<1>7. ASSUME NEW i \in 1 .. n - 1
      PROVE  link[d[i]] = IF i = n - 1 THEN NULL ELSE d[i + 1]
  <2>1. d[i] = c[i + 1] /\ i + 1 \in 1 .. n
    BY <1>4
  <2>2. link[c[i + 1]] = IF i + 1 = n THEN NULL ELSE c[(i + 1) + 1]
    BY <1>3, <2>1
  <2>3. i # n - 1 => d[i + 1] = c[(i + 1) + 1]
    BY <1>3, <1>4
  <2> QED
    BY <1>3, <2>1, <2>2, <2>3
<1>8. \A i, j \in 1 .. n - 1 : d[i] = d[j] => i = j
  <2> TAKE i \in 1 .. n - 1, j \in 1 .. n - 1
  <2> HAVE d[i] = d[j]
  <2>1. i + 1 = j + 1
    BY <1>3, <1>4
  <2> QED
    BY <2>1
<1>9. S \ {f} = {d[i] : i \in 1 .. n - 1}
  <2>1. ASSUME NEW i \in 1 .. n - 1 PROVE d[i] \in S \ {f}
    BY <1>2, <1>3, <1>4
  <2>2. ASSUME NEW i \in 1 .. n, c[i] # f PROVE c[i] \in {d[j] : j \in 1 .. n - 1}
    <3>1. i # 1 /\ i - 1 \in 1 .. n - 1 /\ (i - 1) + 1 = i
      BY <1>3, <2>2
    <3>2. d[i - 1] = c[i]
      BY <1>4, <3>1
    <3> QED
      BY <3>1, <3>2
  <2> QED
    BY <1>2, <2>1, <2>2
<1>10. Linked(link[f], link, d, n - 1)
  BY <1>5, <1>6, <1>7, <1>8 DEF Linked
<1>11. n - 1 \in Nat
  BY <1>3
<1>12. \E e : Linked(link[f], link, e, n - 1) /\ S \ {f} = {e[i] : i \in 1 .. n - 1}
  BY <1>9, <1>10
<1> QED
  BY <1>11, <1>12 DEF Leads

(* A record behind the first leaves a chain when the one before it gets    *)
(* its link.                                                               *)
LEMMA LeadsPast ==
  ASSUME NEW f, NEW link, NEW S, Leads(f, link, S), NEW r \in S, r # f,
         NEW other, \A p \in S : other[p] = IF link[p] = r THEN link[r] ELSE link[p]
  PROVE  Leads(f, other, S \ {r})
<1>1. PICK n \in Nat : \E c : Linked(f, link, c, n) /\ S = {c[i] : i \in 1 .. n}
  BY DEF Leads
<1>2. PICK c : Linked(f, link, c, n) /\ S = {c[i] : i \in 1 .. n}
  BY <1>1
<1>3. /\ \A i \in 1 .. n : c[i] \in Record /\ c[i] # NULL
      /\ \A i \in 1 .. n : link[c[i]] = IF i = n THEN NULL ELSE c[i + 1]
      /\ \A i, j \in 1 .. n : c[i] = c[j] => i = j
      /\ f = IF n = 0 THEN NULL ELSE c[1]
  BY <1>2, NullNoRecord DEF Linked
<1>4. PICK k \in 1 .. n : c[k] = r
  BY <1>2
<1>5. k # 1 /\ k \in 2 .. n /\ n - 1 \in Nat /\ n - 1 # 0 /\ f = c[1]
  BY <1>3, <1>4
<1> DEFINE d == [i \in 1 .. n - 1 |-> IF i < k THEN c[i] ELSE c[i + 1]]
<1>6. \A i \in 1 .. n - 1 : i < k => d[i] = c[i] /\ i \in 1 .. n
  BY <1>5
<1>7. \A i \in 1 .. n - 1 : ~(i < k) => d[i] = c[i + 1] /\ i + 1 \in 1 .. n
  BY <1>5
<1>8. d \in [1 .. n - 1 -> Record]
  BY <1>3, <1>6, <1>7
<1> HIDE DEF d
<1>9. f = IF n - 1 = 0 THEN NULL ELSE d[1]
  BY <1>5, <1>6
<1>10. \A i \in 1 .. n : other[c[i]] = IF i + 1 = k THEN link[r] ELSE link[c[i]]
  <2> TAKE i \in 1 .. n
  <2>1. other[c[i]] = IF link[c[i]] = r THEN link[r] ELSE link[c[i]]
    BY <1>2
  <2>2. link[c[i]] = r <=> i + 1 = k
    <3>1. CASE i = n
      BY <1>3, <1>4, <3>1
    <3>2. CASE i # n
      <4>1. link[c[i]] = c[i + 1] /\ i + 1 \in 1 .. n
        BY <1>3, <3>2
      <4> QED
        BY <1>3, <1>4, <4>1
    <3> QED
      BY <3>1, <3>2
  <2> QED
    BY <2>1, <2>2
<1>11. ASSUME NEW i \in 1 .. n - 1
       PROVE  other[d[i]] = IF i = n - 1 THEN NULL ELSE d[i + 1]
  <2>1. CASE i + 1 < k
    <3>1. i < k /\ i # n - 1 /\ i + 1 \in 1 .. n - 1 /\ i \in 1 .. n /\ i # n /\ i + 1 # k
      BY <1>5, <2>1
    <3>2. d[i] = c[i] /\ d[i + 1] = c[i + 1]
      BY <1>6, <2>1, <3>1
    <3> QED
      BY <1>3, <1>10, <3>1, <3>2
  <2>2. CASE i + 1 = k
    <3>1. i < k /\ i \in 1 .. n
      BY <1>5, <2>2
    <3>2. d[i] = c[i] /\ other[c[i]] = link[c[k]]
      BY <1>4, <1>6, <1>10, <2>2, <3>1
    <3>3. link[c[k]] = IF k = n THEN NULL ELSE c[k + 1]
      BY <1>3
    <3>4. i = n - 1 <=> k = n
      BY <2>2
    <3>5. k # n => d[k] = c[k + 1]
      <4>1. k # n => k \in 1 .. n - 1 /\ ~(k < k)
        BY <1>5
      <4> QED
        BY <1>7, <4>1
    <3> QED
      BY <2>2, <3>2, <3>3, <3>4, <3>5
  <2>3. CASE k < i + 1
    <3>1. ~(i < k) /\ i + 1 \in 1 .. n /\ (i + 1) + 1 # k
      BY <1>5, <2>3
    <3>2. d[i] = c[i + 1] /\ other[c[i + 1]] = link[c[i + 1]]
      BY <1>7, <1>10, <3>1
    <3>3. link[c[i + 1]] = IF i + 1 = n THEN NULL ELSE c[(i + 1) + 1]
      BY <1>3, <3>1
    <3>4. i # n - 1 => d[i + 1] = c[(i + 1) + 1]
      <4>1. i # n - 1 => i + 1 \in 1 .. n - 1 /\ ~(i + 1 < k)
        BY <1>5, <2>3
      <4> QED
        BY <1>7, <4>1
    <3>5. i = n - 1 <=> i + 1 = n
      OBVIOUS
    <3> QED
      BY <3>2, <3>3, <3>4, <3>5
  <2> QED
    BY <1>5, <2>1, <2>2, <2>3
<1>12. \A i, j \in 1 .. n - 1 : d[i] = d[j] => i = j
  <2> TAKE i \in 1 .. n - 1, j \in 1 .. n - 1
  <2> HAVE d[i] = d[j]
  <2>1. CASE i < k /\ j < k
    BY <1>3, <1>6, <2>1
  <2>2. CASE i < k /\ ~(j < k)
    <3>1. i = j + 1
      BY <1>3, <1>6, <1>7, <2>2
    <3> QED
      BY <1>5, <2>2, <3>1
  <2>3. CASE ~(i < k) /\ j < k
    <3>1. i + 1 = j
      BY <1>3, <1>6, <1>7, <2>3
    <3> QED
      BY <1>5, <2>3, <3>1
  <2>4. CASE ~(i < k) /\ ~(j < k)
    <3>1. i + 1 = j + 1
      BY <1>3, <1>7, <2>4
    <3> QED
      BY <3>1
  <2> QED
    BY <2>1, <2>2, <2>3, <2>4
<1>13. S \ {r} = {d[i] : i \in 1 .. n - 1}
  <2>1. ASSUME NEW i \in 1 .. n - 1 PROVE d[i] \in S \ {r}
    <3>1. CASE i < k
      BY <1>2, <1>3, <1>4, <1>5, <1>6, <3>1
    <3>2. CASE ~(i < k)
      <4>1. i + 1 # k
        BY <1>5, <3>2
      <4> QED
        BY <1>2, <1>3, <1>4, <1>7, <3>2, <4>1
    <3> QED
      BY <3>1, <3>2
  <2>2. ASSUME NEW i \in 1 .. n, c[i] # r PROVE c[i] \in {d[j] : j \in 1 .. n - 1}
    <3>1. CASE i < k
      <4>1. i \in 1 .. n - 1
        BY <1>5, <3>1
      <4> QED
        BY <1>6, <3>1, <4>1
    <3>2. CASE ~(i < k)
      <4>1. i - 1 \in 1 .. n - 1 /\ ~(i - 1 < k) /\ (i - 1) + 1 = i
        BY <1>4, <1>5, <2>2, <3>2
      <4> QED
        BY <1>7, <4>1
    <3> QED
      BY <3>1, <3>2
  <2> QED
    BY <1>2, <2>1, <2>2
<1>14. Linked(f, other, d, n - 1)
  BY <1>8, <1>9, <1>11, <1>12 DEF Linked
<1>15. n - 1 \in Nat
  BY <1>5
<1> DEFINE R == S \ {r}
<1>16. R = {d[i] : i \in 1 .. n - 1}
  BY <1>13
<1> HIDE DEF R
<1>17. \E e : Linked(f, other, e, n - 1) /\ R = {e[i] : i \in 1 .. n - 1}
  BY <1>14, <1>16
<1>18. Leads(f, other, R)
  BY <1>15, <1>17 DEF Leads
<1> QED
  BY <1>18 DEF R

(* The rest of a chain that x starts, when r leaves the whole chain: this  *)
(* is what roundAff_remove does to the lists and to the cursor.            *)
LEMMA LeadsWithout ==
  ASSUME NEW f, NEW link, NEW S, Leads(f, link, S), NEW r \in S,
         NEW x, NEW R \in SUBSET S, Leads(x, link, R)
  PROVE  Leads(IF x = r THEN link[r] ELSE x, Unlinked(f, link, r), R \ {r})
<1> DEFINE other == Unlinked(f, link, r)
<1>1. /\ S \subseteq Record /\ r # NULL
      /\ \A p \in S : link[p] # f
  BY LeadsFrom, NullNoRecord
<1>2. \A p \in S : other[p] = IF f # r /\ link[p] = r THEN link[r] ELSE link[p]
  BY <1>1, ChainListed DEF Unlinked
<1>3. /\ x # NULL => x \in R
      /\ \A p \in R : link[p] \in R \cup {NULL} /\ link[p] # x
      /\ \A q \in R : q # x => \E p \in R : link[p] = q
  BY LeadsFrom
<1> HIDE DEF other
<1>4. CASE r \notin R
  <2>1. x # r /\ R \ {r} = R
    BY <1>1, <1>3, <1>4
  <2>2. \A p \in R : other[p] = link[p]
    BY <1>1, <1>2, <1>3, <1>4
  <2>3. Leads(x, other, R)
    BY <2>2, LeadsStill
  <2> QED
    BY <2>1, <2>3 DEF other
<1>5. CASE r \in R /\ x = r
  <2>1. Leads(link[r], link, R \ {r})
    BY <1>1, <1>5, LeadsOn
  <2>2. \A p \in R \ {r} : other[p] = link[p]
    BY <1>2, <1>3, <1>5
  <2>3. Leads(link[r], other, R \ {r})
    BY <2>1, <2>2, LeadsStill
  <2> QED
    BY <1>5, <2>3 DEF other
<1>6. CASE r \in R /\ x # r
  <2>1. f # r
    BY <1>1, <1>3, <1>6
  <2>2. \A p \in R : other[p] = IF link[p] = r THEN link[r] ELSE link[p]
    BY <1>2, <2>1
  <2>3. Leads(x, other, R \ {r})
    BY <1>6, <2>2, LeadsPast
  <2> QED
    BY <1>6, <2>3 DEF other
<1> QED
  BY <1>4, <1>5, <1>6

-----------------------------------------------------------------------------
(* The invariant. *)

Owned(ch) == {r \in held : owner[r] = ch}

(* The lists, for any state of the walk. *)
Chains ==
  /\ Leads(roundAffs, next, held)
  /\ \A ch \in Owner : Leads(my_roundAffs[ch], my_next, Owned(ch))

(* The affects a walk still comes to, and those of them it has to treat. *)
WalkLeads ==
  \E R \in SUBSET held :
    /\ Leads(IF busy THEN next_roundAffs ELSE rf, next, R)
    /\ due = {r \in R : type[r] = walk}

(* Whose affects are being removed loses the first of his list; and a walk *)
(* waits for him in the middle of an affect, where it has a cursor.        *)
Stages ==
  /\ \A r \in held : owner[r] \in here
  /\ leaving # NULL => rf_next = my_roundAffs[leaving] /\ (walk = "none" \/ busy)
  /\ busy => walk # "none" /\ rf # NULL

Memorized == TableInv /\ max <= Memory

RoundInv == TypeOK /\ Memorized /\ Chains /\ Stages /\ (walk # "none" => WalkLeads)

LEMMA HeldRecords ==
  ASSUME TypeOK, Memorized
  PROVE  held \subseteq Record
BY AllocAssumption DEF AllocAssumption, TypeOK, TableOK, Memorized, Record, Unit

LEMMA RoundStarts == Init => RoundInv
<1> SUFFICES ASSUME Init PROVE RoundInv
  OBVIOUS
<1>1. Memorized
  BY TableStarts, AllocAssumption DEF Init, init_alloctable, Memorized, AllocAssumption
<1>2. TypeOK
  BY <1>1 DEF Init, TypeOK, Memorized, TableInv, Link, Types
<1>3. Chains
  <2>1. held = {} /\ \A ch \in Owner : Owned(ch) = {}
    BY DEF Init, init_alloctable, Owned
  <2> QED
    BY <2>1, LeadsNowhere DEF Init, Chains
<1>4. Stages /\ walk = "none"
  BY DEF Init, init_alloctable, Stages
<1> QED
  BY <1>1, <1>2, <1>3, <1>4 DEF RoundInv

-----------------------------------------------------------------------------
(* What roundAff_to_char does. *)
LEMMA Pushed ==
  ASSUME RoundInv, NEW ch \in here, NEW t \in Types, roundAff_to_char(ch, t)
  PROVE  /\ Memorized' /\ Pool!Alloc /\ TableOK'
         /\ nextfree \in Record \ held /\ held' = held \cup {nextfree}
         /\ Chains'
         /\ roundAffs' \in Link /\ next' \in [Record -> Link] /\ my_next' \in [Record -> Link]
         /\ owner' = [owner EXCEPT ![nextfree] = ch] /\ type' = [type EXCEPT ![nextfree] = t]
         /\ my_roundAffs' \in [Owner -> Link]
         /\ \A x, R : R \subseteq held /\ Leads(x, next, R) => Leads(x, next', R)
<1> DEFINE r == nextfree
<1>1. TypeOK /\ Memorized /\ Chains /\ Stages /\ here \subseteq Owner
  BY DEF RoundInv, TypeOK
<1>2. alloc_unit(nextfree)
  BY DEF roundAff_to_char
<1>3. TableInv' /\ Pool!Alloc
  BY <1>1, <1>2, AllocStep DEF Memorized
<1>4. max' <= Memory /\ held' = held \cup {r}
  <2>1. /\ max' = IF nextfree >= max THEN max + Delta ELSE max
        /\ nextfree >= max => (IF nextfree >= max THEN max + Delta ELSE max) <= Memory
        /\ held' = held \cup {nextfree}
    BY <1>2, Zenon DEF alloc_unit
  <2> QED
    BY <1>1, <2>1 DEF Memorized
<1>5. r \in Record \ held
  <2>1. max' \in Nat /\ Memory \in Nat
    BY <1>3, AllocAssumption DEF AllocAssumption, TableInv, TableOK
  <2>2. PICK m \in Nat : m = max'
    BY <2>1
  <2>3. \E u \in 0 .. m - 1 : u \notin held /\ held' = held \cup {u}
    BY <1>3, <2>2 DEF Pool!Alloc, Pool!Unit
  <2>4. PICK u \in 0 .. m - 1 : u \notin held /\ held' = held \cup {u}
    BY <2>3
  <2>5. u = r
    BY <1>4, <2>4
  <2>6. m <= Memory
    BY <1>4, <2>2
  <2>7. u \in 0 .. Memory - 1
    BY <2>1, <2>6
  <2> QED
    BY <2>4, <2>5, <2>7 DEF Record
<1>6. /\ my_next' = [my_next EXCEPT ![r] = my_roundAffs[ch]]
      /\ my_roundAffs' = [my_roundAffs EXCEPT ![ch] = r]
      /\ next' = [next EXCEPT ![r] = roundAffs]
      /\ roundAffs' = r
      /\ owner' = [owner EXCEPT ![r] = ch]
      /\ type' = [type EXCEPT ![r] = t]
  BY DEF roundAff_to_char
<1>7. /\ next \in [Record -> Link] /\ my_next \in [Record -> Link]
      /\ my_roundAffs \in [Owner -> Link] /\ roundAffs \in Link
      /\ owner \in [Record -> Owner \cup {NULL}]
      /\ ch \in Owner /\ held \subseteq Record
  BY <1>1, HeldRecords DEF TypeOK
<1> HIDE DEF r
<1>8. /\ next'[r] = roundAffs /\ my_next'[r] = my_roundAffs[ch]
      /\ \A p \in held : next'[p] = next[p] /\ my_next'[p] = my_next[p]
      /\ owner'[r] = ch /\ \A p \in held : owner'[p] = owner[p]
  BY <1>5, <1>6, <1>7
<1>9. Chains'
  <2>1. Leads(roundAffs, next, held) /\ \A c \in Owner : Leads(my_roundAffs[c], my_next, Owned(c))
    BY <1>1 DEF Chains
  <2>2. Leads(roundAffs', next', held')
    <3>1. Leads(r, next', held \cup {r})
      BY <1>5, <1>8, <2>1, LeadsPushed
    <3> QED
      BY <1>4, <1>6, <3>1
  <2>3. ASSUME NEW c \in Owner PROVE Leads(my_roundAffs'[c], my_next', Owned(c)')
    <3>1. \A p \in Owned(c) : my_next'[p] = my_next[p]
      BY <1>8 DEF Owned
    <3>2. CASE c = ch
      <4>1. Owned(c)' = Owned(c) \cup {r} /\ r \notin Owned(c)
        BY <1>4, <1>5, <1>8, <3>2 DEF Owned
      <4>2. Leads(my_roundAffs[c], my_next, Owned(c)) /\ my_next'[r] = my_roundAffs[c]
        BY <1>8, <2>1, <3>2
      <4> DEFINE S == Owned(c)
                 f == my_roundAffs[c]
      <4>3. Leads(f, my_next, S) /\ r \in Record \ S /\ my_next'[r] = f /\ \A p \in S : my_next'[p] = my_next[p]
        BY <1>5, <3>1, <4>1, <4>2
      <4> HIDE DEF S, f
      <4>4. Leads(r, my_next', S \cup {r})
        BY <4>3, LeadsPushed
      <4>5. my_roundAffs'[c] = r
        BY <1>6, <1>7, <3>2
      <4> QED
        BY <4>1, <4>4, <4>5 DEF S
    <3>3. CASE c # ch
      <4>1. Owned(c)' = Owned(c) /\ my_roundAffs'[c] = my_roundAffs[c]
        BY <1>4, <1>5, <1>6, <1>7, <1>8, <3>3 DEF Owned
      <4>2. Leads(my_roundAffs[c], my_next', Owned(c))
        BY <2>1, <3>1, LeadsStill
      <4> QED
        BY <4>1, <4>2
    <3> QED
      BY <3>2, <3>3
  <2> QED
    BY <2>2, <2>3 DEF Chains
<1>10. /\ roundAffs' \in Link /\ next' \in [Record -> Link] /\ my_next' \in [Record -> Link]
       /\ my_roundAffs' \in [Owner -> Link]
  BY <1>5, <1>6, <1>7 DEF Link
<1>11. ASSUME NEW x, NEW R, R \subseteq held, Leads(x, next, R) PROVE Leads(x, next', R)
  <2>1. \A p \in R : next'[p] = next[p]
    BY <1>8, <1>11
  <2> QED
    BY <1>11, <2>1, LeadsStill
<1>12. Memorized' /\ TableOK'
  BY <1>3, <1>4 DEF Memorized, TableInv
<1> QED
  BY <1>3, <1>4, <1>5, <1>6, <1>9, <1>10, <1>11, <1>12 DEF r

(* What roundAff_remove does. *)
LEMMA Removed ==
  ASSUME RoundInv, NEW r \in held, roundAff_remove(r)
  PROVE  /\ Memorized' /\ Pool!Free /\ TableOK'
         /\ held' = held \ {r} /\ owner[r] \in Owner
         /\ Chains'
         /\ roundAffs' \in Link /\ next' \in [Record -> Link] /\ my_next' \in [Record -> Link]
         /\ owner' = owner /\ type' = type /\ due' = due \ {r}
         /\ my_roundAffs' \in [Owner -> Link]
         /\ my_roundAffs'[owner[r]] = IF my_roundAffs[owner[r]] = r THEN my_next[r] ELSE my_roundAffs[owner[r]]
         /\ next_roundAffs' = (IF next_roundAffs = r THEN next[r] ELSE next_roundAffs)
         /\ next_roundAffs' \in Link
         /\ \A x : \A R \in SUBSET held : Leads(x, next, R) =>
              Leads(IF x = r THEN next[r] ELSE x, next', R \ {r})
<1> DEFINE ch == owner[r]
<1>1. TypeOK /\ Memorized /\ Chains /\ Stages
  BY DEF RoundInv
<1>2. free_unit(r)
  BY DEF roundAff_remove
<1>3. TableInv' /\ Pool!Free /\ held' = held \ {r} /\ max' = max
  BY <1>1, <1>2, FreeStep DEF Memorized, free_unit
<1>4. Memorized' /\ TableOK'
  BY <1>1, <1>3 DEF Memorized, TableInv
<1>5. /\ my_roundAffs' = [my_roundAffs EXCEPT ![ch] = IF my_roundAffs[ch] = r THEN my_next[r] ELSE my_roundAffs[ch]]
      /\ my_next' = Unlinked(my_roundAffs[ch], my_next, r)
      /\ roundAffs' = IF roundAffs = r THEN next[r] ELSE roundAffs
      /\ next' = Unlinked(roundAffs, next, r)
      /\ due' = due \ {r} /\ owner' = owner /\ type' = type
      /\ next_roundAffs' = IF next_roundAffs = r THEN next[r] ELSE next_roundAffs
  BY DEF roundAff_remove, Cursor
<1>6. /\ next \in [Record -> Link] /\ my_next \in [Record -> Link]
      /\ my_roundAffs \in [Owner -> Link] /\ roundAffs \in Link /\ next_roundAffs \in Link
      /\ held \subseteq Record /\ r \in Record
  BY <1>1, HeldRecords DEF TypeOK
<1>7. ch \in Owner
  BY <1>1 DEF Stages, TypeOK
<1> HIDE DEF ch
<1>8. Leads(roundAffs, next, held) /\ \A c \in Owner : Leads(my_roundAffs[c], my_next, Owned(c))
  BY <1>1 DEF Chains
<1>9. ASSUME NEW x, NEW R \in SUBSET held, Leads(x, next, R)
      PROVE  Leads(IF x = r THEN next[r] ELSE x, next', R \ {r})
  BY <1>5, <1>8, <1>9, LeadsWithout
<1>10. Leads(roundAffs', next', held')
  BY <1>3, <1>5, <1>8, <1>9
<1>11. ASSUME NEW c \in Owner PROVE Leads(my_roundAffs'[c], my_next', Owned(c)')
  <2>1. Owned(c)' = Owned(c) \ {r}
    BY <1>3, <1>5 DEF Owned
  <2>2. CASE c = ch
    <3> DEFINE f == my_roundAffs[ch]
               S == Owned(ch)
    <3>1. Leads(f, my_next, S) /\ r \in S /\ S \in SUBSET S
      BY <1>7, <1>8 DEF Owned, ch
    <3>2. my_next' = Unlinked(f, my_next, r)
      BY <1>5
    <3>3. my_roundAffs'[c] = IF f = r THEN my_next[r] ELSE f
      BY <1>5, <1>6, <1>7, <2>2
    <3>4. Owned(c)' = S \ {r}
      BY <2>1, <2>2
    <3> HIDE DEF f, S
    <3>5. Leads(IF f = r THEN my_next[r] ELSE f, Unlinked(f, my_next, r), S \ {r})
      BY <3>1, LeadsWithout
    <3> QED
      BY <3>2, <3>3, <3>4, <3>5
  <2>3. CASE c # ch
    <3>1. Owned(c)' = Owned(c) /\ \A p \in Owned(c) : p \notin Owned(ch)
      BY <2>1, <2>3 DEF Owned, ch
    <3>2. ListOf(my_roundAffs[ch], my_next) = Owned(ch)
      BY <1>7, <1>8, ChainListed
    <3>3. \A p \in Owned(c) : my_next'[p] = my_next[p]
      <4>1. Owned(c) \subseteq Record
        BY <1>6 DEF Owned
      <4> QED
        BY <1>5, <3>1, <3>2, <4>1 DEF Unlinked
    <3>4. my_roundAffs'[c] = my_roundAffs[c]
      BY <1>5, <1>6, <1>7, <2>3
    <3>5. Leads(my_roundAffs[c], my_next', Owned(c))
      BY <1>8, <3>3, LeadsStill
    <3> QED
      BY <3>1, <3>4, <3>5
  <2> QED
    BY <2>2, <2>3
<1>12. Chains'
  BY <1>10, <1>11 DEF Chains
<1>13. /\ roundAffs' \in Link /\ next_roundAffs' \in Link
       /\ next' \in [Record -> Link] /\ my_next' \in [Record -> Link]
       /\ my_roundAffs' \in [Owner -> Link]
  <2>1. next[r] \in Link /\ my_next[r] \in Link
    BY <1>6
  <2>2. Unlinked(roundAffs, next, r) \in [Record -> Link]
    BY <1>6, <2>1 DEF Unlinked
  <2>3. Unlinked(my_roundAffs[ch], my_next, r) \in [Record -> Link]
    BY <1>6, <2>1 DEF Unlinked
  <2> QED
    BY <1>5, <1>6, <2>1, <2>2, <2>3
<1>14. my_roundAffs'[ch] = IF my_roundAffs[ch] = r THEN my_next[r] ELSE my_roundAffs[ch]
  BY <1>5, <1>6, <1>7
<1> QED
  BY <1>3, <1>4, <1>5, <1>7, <1>9, <1>12, <1>13, <1>14 DEF ch

(* While no list changes, every chain stays one. *)
LEMMA Kept ==
  ASSUME RoundInv, UNCHANGED <<alloc_vars, lists>>
  PROVE  /\ Memorized' /\ TableOK' /\ Chains' /\ UNCHANGED <<held, used, max>>
         /\ held' = held /\ owner' = owner /\ type' = type /\ roundAffs' = roundAffs
         /\ next' = next /\ my_next' = my_next /\ my_roundAffs' = my_roundAffs
<1>1. /\ index' = index /\ nextfree' = nextfree /\ used' = used /\ max' = max /\ held' = held
      /\ owner' = owner /\ type' = type /\ roundAffs' = roundAffs
      /\ next' = next /\ my_next' = my_next /\ my_roundAffs' = my_roundAffs
  BY DEF alloc_vars, lists
<1>2. TableInv'
  BY TableStep DEF RoundInv, Memorized
<1>3. Memorized' /\ TableOK'
  BY <1>1, <1>2 DEF RoundInv, Memorized, TableInv
<1>4. Chains'
  BY <1>1 DEF RoundInv, Chains, Owned
<1> QED
  BY <1>1, <1>3, <1>4

-----------------------------------------------------------------------------
(* Every step keeps the invariant, and is a step of the pool or none. *)

PoolStep == [Pool!Alloc \/ Pool!Free]_<<held, used, max>>

LEMMA EnterStep ==
  ASSUME RoundInv, NEW ch \in Owner, Enter(ch)
  PROVE  RoundInv' /\ PoolStep
<1>1. UNCHANGED <<alloc_vars, lists>>
  BY DEF Enter
<1>2. /\ here' = here \cup {ch} /\ leaving = NULL /\ walk = "none"
      /\ UNCHANGED <<next_roundAffs, walk, rf, busy, leaving, rf_next, due>>
  BY DEF Enter
<1>3. /\ Memorized' /\ TableOK' /\ Chains' /\ UNCHANGED <<held, used, max>>
      /\ held' = held /\ owner' = owner /\ type' = type /\ roundAffs' = roundAffs
      /\ next' = next /\ my_next' = my_next /\ my_roundAffs' = my_roundAffs
  BY <1>1, Kept
<1>4. TypeOK'
  BY <1>2, <1>3 DEF RoundInv, TypeOK
<1>5. Stages'
  BY <1>2, <1>3 DEF RoundInv, Stages
<1> QED
  BY <1>2, <1>3, <1>4, <1>5 DEF RoundInv, PoolStep

LEMMA GivenStep ==
  ASSUME RoundInv, NEW ch \in Owner, NEW t \in Types, Given(ch, t)
  PROVE  RoundInv' /\ PoolStep
<1>1. /\ leaving = NULL /\ ch \in here
      /\ walk = "none" \/ (walk = "second" /\ busy /\ t = "round")
      /\ roundAff_to_char(ch, t)
      /\ UNCHANGED <<next_roundAffs, here, walk, rf, busy, leaving, rf_next, due>>
  BY DEF Given, Acts
<1>2. /\ Memorized' /\ Pool!Alloc /\ TableOK'
      /\ nextfree \in Record \ held /\ held' = held \cup {nextfree}
      /\ Chains'
      /\ roundAffs' \in Link /\ next' \in [Record -> Link] /\ my_next' \in [Record -> Link]
      /\ owner' = [owner EXCEPT ![nextfree] = ch] /\ type' = [type EXCEPT ![nextfree] = t]
      /\ my_roundAffs' \in [Owner -> Link]
      /\ \A x, R : R \subseteq held /\ Leads(x, next, R) => Leads(x, next', R)
  BY <1>1, Pushed
<1>3. TypeOK /\ Stages /\ (walk # "none" => WalkLeads) /\ held \subseteq Record
  BY HeldRecords DEF RoundInv
<1>4. TypeOK'
  BY <1>1, <1>2, <1>3 DEF TypeOK
<1>5. Stages'
  BY <1>1, <1>2, <1>3 DEF TypeOK, Stages
<1>6. walk' # "none" => WalkLeads'
  <2> SUFFICES ASSUME walk # "none" PROVE WalkLeads'
    BY <1>1
  <2> DEFINE x == IF busy THEN next_roundAffs ELSE rf
  <2>1. PICK R \in SUBSET held : Leads(x, next, R) /\ due = {r \in R : type[r] = walk}
    BY <1>3 DEF WalkLeads
  <2>2. x' = x
    BY <1>1
  <2> HIDE DEF x
  <2>3. Leads(x', next', R) /\ R \in SUBSET (held')
    BY <1>2, <2>1, <2>2
  <2>4. due' = {r \in R : type'[r] = walk'}
    <3>1. \A r \in R : type'[r] = type[r]
      BY <1>2, <1>3 DEF TypeOK
    <3> QED
      BY <1>1, <2>1, <3>1
  <2> QED
    BY <2>3, <2>4 DEF WalkLeads, x
<1> QED
  BY <1>2, <1>4, <1>5, <1>6 DEF RoundInv, PoolStep

LEMMA LeavesStep ==
  ASSUME RoundInv, NEW ch \in Owner, Leaves(ch)
  PROVE  RoundInv' /\ PoolStep
<1>1. UNCHANGED <<alloc_vars, lists>>
  BY DEF Leaves
<1>2. /\ leaving' = ch /\ rf_next' = my_roundAffs[ch] /\ (walk = "none" \/ busy)
      /\ here' = here /\ next_roundAffs' = next_roundAffs /\ walk' = walk
      /\ rf' = rf /\ busy' = busy /\ due' = due
  BY DEF Leaves, FirstOf, Acts
<1>3. /\ Memorized' /\ TableOK' /\ Chains' /\ UNCHANGED <<held, used, max>>
      /\ held' = held /\ owner' = owner /\ type' = type /\ roundAffs' = roundAffs
      /\ next' = next /\ my_next' = my_next /\ my_roundAffs' = my_roundAffs
  BY <1>1, Kept
<1>4. TypeOK'
  BY <1>2, <1>3 DEF RoundInv, TypeOK
<1>5. Stages'
  BY <1>2, <1>3 DEF RoundInv, Stages
<1>6. WalkLeads' <=> WalkLeads
  BY <1>2, <1>3 DEF WalkLeads
<1> QED
  BY <1>2, <1>3, <1>4, <1>5, <1>6 DEF RoundInv, PoolStep

(* An affect that leaves the lists in a walk takes nothing else from what  *)
(* the cursor leads to.                                                    *)
LEMMA RemovedInWalk ==
  ASSUME RoundInv, NEW r \in held, roundAff_remove(r), walk = "none" \/ busy,
         walk' = walk, busy' = busy, rf' = rf
  PROVE  walk' # "none" => WalkLeads'
<1> SUFFICES ASSUME walk # "none" PROVE WalkLeads'
  OBVIOUS
<1>1. /\ held' = held \ {r} /\ type' = type /\ due' = due \ {r}
      /\ next_roundAffs' = (IF next_roundAffs = r THEN next[r] ELSE next_roundAffs)
      /\ \A x : \A R \in SUBSET held : Leads(x, next, R) =>
           Leads(IF x = r THEN next[r] ELSE x, next', R \ {r})
  BY Removed
<1>2. PICK R \in SUBSET held : Leads(next_roundAffs, next, R) /\ due = {q \in R : type[q] = walk}
  BY DEF RoundInv, WalkLeads
<1>3. Leads(next_roundAffs', next', R \ {r}) /\ R \ {r} \in SUBSET (held')
  BY <1>1, <1>2
<1>4. due' = {q \in R \ {r} : type'[q] = walk'}
  BY <1>1, <1>2
<1> QED
  BY <1>3, <1>4 DEF WalkLeads

LEMMA LosesStep ==
  ASSUME RoundInv, LosesAffect
  PROVE  RoundInv' /\ PoolStep
<1> DEFINE r == rf_next
<1>1. /\ leaving # NULL /\ r # NULL /\ roundAff_remove(r)
      /\ rf_next' = my_next[r]
      /\ UNCHANGED <<here, walk, rf, busy, leaving>>
  BY DEF LosesAffect
<1>2. TypeOK /\ Stages /\ Chains /\ leaving \in Owner /\ my_roundAffs[leaving] = r /\ (walk = "none" \/ busy)
  BY <1>1 DEF RoundInv, TypeOK, Stages
<1>3. r \in held /\ owner[r] = leaving
  <2>1. Leads(my_roundAffs[leaving], my_next, Owned(leaving))
    BY <1>2 DEF Chains
  <2>2. r \in Owned(leaving)
    BY <1>1, <1>2, <2>1, LeadsFrom
  <2> QED
    BY <2>2 DEF Owned
<1> HIDE DEF r
<1>4. /\ Memorized' /\ Pool!Free /\ TableOK' /\ Chains' /\ held' = held \ {r}
      /\ roundAffs' \in Link /\ next' \in [Record -> Link] /\ my_next' \in [Record -> Link]
      /\ owner' = owner /\ type' = type /\ due' = due \ {r}
      /\ my_roundAffs' \in [Owner -> Link]
      /\ my_roundAffs'[owner[r]] = IF my_roundAffs[owner[r]] = r THEN my_next[r] ELSE my_roundAffs[owner[r]]
      /\ next_roundAffs' \in Link
  BY <1>1, <1>3, Removed
<1>5. rf_next' = my_roundAffs'[leaving]
  BY <1>1, <1>2, <1>3, <1>4
<1>6. TypeOK'
  <2>1. my_next[r] \in Link
    BY <1>2, <1>3, HeldRecords DEF RoundInv, TypeOK
  <2> QED
    BY <1>1, <1>2, <1>4, <2>1 DEF TypeOK
<1>7. Stages'
  BY <1>1, <1>2, <1>4, <1>5 DEF Stages
<1>8. walk' # "none" => WalkLeads'
  BY <1>1, <1>2, <1>3, RemovedInWalk
<1> QED
  BY <1>4, <1>6, <1>7, <1>8 DEF RoundInv, PoolStep

LEMMA LeftStep ==
  ASSUME RoundInv, Left
  PROVE  RoundInv' /\ PoolStep
<1>1. UNCHANGED <<alloc_vars, lists>>
  BY DEF Left
<1>2. /\ leaving # NULL /\ rf_next = NULL
      /\ here' = here \ {leaving} /\ leaving' = NULL
      /\ next_roundAffs' = next_roundAffs /\ walk' = walk
      /\ rf' = rf /\ busy' = busy /\ rf_next' = rf_next /\ due' = due
  BY DEF Left
<1>3. /\ Memorized' /\ TableOK' /\ Chains' /\ UNCHANGED <<held, used, max>>
      /\ held' = held /\ owner' = owner /\ type' = type /\ roundAffs' = roundAffs
      /\ next' = next /\ my_next' = my_next /\ my_roundAffs' = my_roundAffs
  BY <1>1, Kept
<1>4. TypeOK'
  BY <1>2, <1>3 DEF RoundInv, TypeOK
<1>5. \A r \in held : owner[r] # leaving
  <2>1. leaving \in Owner /\ my_roundAffs[leaving] = NULL
    BY <1>2 DEF RoundInv, TypeOK, Stages
  <2>2. Leads(NULL, my_next, Owned(leaving))
    BY <2>1 DEF RoundInv, Chains
  <2>3. Owned(leaving) = {}
    BY <2>2, LeadsFrom
  <2> QED
    BY <2>3 DEF Owned
<1>6. Stages'
  BY <1>2, <1>3, <1>5 DEF RoundInv, Stages
<1>7. WalkLeads' <=> WalkLeads
  BY <1>2, <1>3 DEF WalkLeads
<1> QED
  BY <1>2, <1>3, <1>4, <1>6, <1>7 DEF RoundInv, PoolStep

LEMMA ExpiresStep ==
  ASSUME RoundInv, Expires
  PROVE  RoundInv' /\ PoolStep
<1>1. /\ rf \in held /\ busy /\ leaving = NULL /\ roundAff_remove(rf)
      /\ here' = here /\ walk' = walk /\ rf' = rf /\ busy' = busy
      /\ leaving' = leaving /\ rf_next' = rf_next
  BY DEF Expires, Acts
<1>2. /\ Memorized' /\ Pool!Free /\ TableOK' /\ Chains' /\ held' = held \ {rf}
      /\ roundAffs' \in Link /\ next' \in [Record -> Link] /\ my_next' \in [Record -> Link]
      /\ owner' = owner /\ type' = type /\ due' = due \ {rf}
      /\ my_roundAffs' \in [Owner -> Link]
      /\ next_roundAffs' \in Link
  BY <1>1, Removed
<1>3. TypeOK'
  BY <1>1, <1>2 DEF RoundInv, TypeOK
<1>4. Stages'
  BY <1>1, <1>2 DEF RoundInv, Stages
<1>5. walk' # "none" => WalkLeads'
  BY <1>1, RemovedInWalk
<1> QED
  BY <1>2, <1>3, <1>4, <1>5 DEF RoundInv, PoolStep

(* The steps of a walk that change no list. *)
LEMMA WalkStep ==
  ASSUME RoundInv, (\E t \in Types : StartWalk(t)) \/ Visit \/ Treated \/ EndWalk
  PROVE  RoundInv' /\ PoolStep
<1>1. UNCHANGED <<alloc_vars, lists>> /\ here' = here /\ leaving' = leaving /\ rf_next' = rf_next
  BY DEF StartWalk, Visit, Treated, EndWalk
<1>2. /\ Memorized' /\ TableOK' /\ Chains' /\ UNCHANGED <<held, used, max>>
      /\ held' = held /\ owner' = owner /\ type' = type /\ roundAffs' = roundAffs
      /\ next' = next /\ my_next' = my_next /\ my_roundAffs' = my_roundAffs
  BY <1>1, Kept
<1>3. TypeOK /\ Stages /\ Chains /\ (walk # "none" => WalkLeads) /\ held \subseteq Record
  BY HeldRecords DEF RoundInv
<1>4. CASE \E t \in Types : StartWalk(t)
  <2>1. PICK t \in Types : StartWalk(t)
    BY <1>4
  <2>2. /\ leaving = NULL /\ walk = "none" /\ walk' = t /\ rf' = roundAffs
        /\ due' = {r \in ListOf(roundAffs, next) : type[r] = t}
        /\ next_roundAffs' = next_roundAffs /\ busy' = busy
    BY <2>1 DEF StartWalk
  <2>3. ~busy /\ t # "none"
    BY <1>3, <2>2 DEF Stages, Types
  <2>4. Leads(roundAffs, next, held) /\ ListOf(roundAffs, next) = held
    BY <1>3, ChainListed DEF Chains
  <2>5. TypeOK'
    BY <1>1, <1>2, <1>3, <2>2, <2>4 DEF TypeOK, Types
  <2>6. Stages'
    BY <1>1, <1>2, <1>3, <2>2, <2>3 DEF Stages
  <2>7. WalkLeads'
    BY <1>2, <2>2, <2>3, <2>4 DEF WalkLeads
  <2> QED
    BY <1>2, <2>5, <2>6, <2>7 DEF RoundInv, PoolStep
<1>5. CASE Visit
  <2>1. /\ walk # "none" /\ ~busy /\ rf # NULL
        /\ busy' = TRUE /\ next_roundAffs' = next[rf] /\ due' = due \ {rf}
        /\ walk' = walk /\ rf' = rf
    BY <1>5 DEF Visit
  <2>2. PICK R \in SUBSET held : Leads(rf, next, R) /\ due = {r \in R : type[r] = walk}
    BY <1>3, <2>1 DEF WalkLeads
  <2>3. Leads(next[rf], next, R \ {rf}) /\ rf \in R
    BY <2>1, <2>2, LeadsOn, LeadsFrom
  <2>4. TypeOK'
    <3>1. next[rf] \in Link
      BY <1>3, <2>3 DEF TypeOK
    <3> QED
      BY <1>1, <1>2, <1>3, <2>1, <3>1 DEF TypeOK
  <2>5. Stages'
    BY <1>1, <1>2, <1>3, <2>1 DEF Stages
  <2>6. WalkLeads'
    <3>1. due' = {r \in R \ {rf} : type'[r] = walk'} /\ R \ {rf} \in SUBSET (held')
      BY <1>2, <2>1, <2>2
    <3>2. Leads(next_roundAffs', next', R \ {rf}) /\ busy'
      BY <1>2, <2>1, <2>3
    <3> QED
      BY <3>1, <3>2 DEF WalkLeads
  <2> QED
    BY <1>2, <2>4, <2>5, <2>6 DEF RoundInv, PoolStep
<1>6. CASE Treated
  <2>1. /\ busy /\ leaving = NULL /\ ~busy' /\ busy' = FALSE /\ rf' = next_roundAffs
        /\ next_roundAffs' = next_roundAffs /\ walk' = walk /\ due' = due
    BY <1>6 DEF Treated
  <2>2. TypeOK'
    BY <1>1, <1>2, <1>3, <2>1 DEF TypeOK
  <2>3. Stages'
    BY <1>1, <1>2, <1>3, <2>1 DEF Stages
  <2>4. WalkLeads' <=> WalkLeads
    BY <1>2, <2>1 DEF WalkLeads
  <2> QED
    BY <1>2, <1>3, <2>1, <2>2, <2>3, <2>4 DEF RoundInv, PoolStep
<1>7. CASE EndWalk
  <2>1. /\ rf = NULL /\ walk' = "none" /\ rf' = rf /\ busy' = busy
        /\ next_roundAffs' = next_roundAffs /\ due' = due
    BY <1>7 DEF EndWalk
  <2>2. ~busy
    BY <1>3, <2>1 DEF Stages
  <2>3. TypeOK'
    BY <1>1, <1>2, <1>3, <2>1 DEF TypeOK
  <2>4. Stages'
    BY <1>1, <1>2, <1>3, <2>1, <2>2 DEF Stages
  <2> QED
    BY <1>2, <2>1, <2>3, <2>4 DEF RoundInv, PoolStep
<1> QED
  BY <1>4, <1>5, <1>6, <1>7

LEMMA RoundSteps == RoundInv /\ [Next]_vars => RoundInv' /\ PoolStep
<1> SUFFICES ASSUME RoundInv, [Next]_vars PROVE RoundInv' /\ PoolStep
  OBVIOUS
<1>1. CASE Next
  BY <1>1, EnterStep, LeavesStep, GivenStep, LosesStep, LeftStep, ExpiresStep, WalkStep DEF Next
<1>2. CASE UNCHANGED vars
  <2>1. /\ UNCHANGED <<alloc_vars, lists>>
        /\ next_roundAffs' = next_roundAffs /\ here' = here /\ walk' = walk /\ rf' = rf
        /\ busy' = busy /\ leaving' = leaving /\ rf_next' = rf_next /\ due' = due
    BY <1>2 DEF vars
  <2>2. /\ Memorized' /\ TableOK' /\ Chains' /\ UNCHANGED <<held, used, max>>
        /\ held' = held /\ owner' = owner /\ type' = type /\ roundAffs' = roundAffs
        /\ next' = next /\ my_next' = my_next /\ my_roundAffs' = my_roundAffs
    BY <2>1, Kept
  <2>3. TypeOK' /\ Stages' /\ (WalkLeads' <=> WalkLeads)
    BY <2>1, <2>2 DEF RoundInv, TypeOK, Stages, WalkLeads
  <2> QED
    BY <2>1, <2>2, <2>3 DEF RoundInv, PoolStep
<1> QED
  BY <1>1, <1>2

LEMMA RoundInvariant == Spec => []RoundInv
<1>1. Init => RoundInv
  BY RoundStarts
<1>2. RoundInv /\ [Next]_vars => RoundInv'
  BY RoundSteps
<1> QED
  BY <1>1, <1>2, PTL DEF Spec

(* Links lead to records or to nothing, owners are owners, and the cursors *)
(* of walks and removals are links of the table (affect.c:183-278,         *)
(* update.c:192-286).                                                      *)
THEOREM TypeCorrect == Spec => []TypeOK
<1>1. RoundInv => TypeOK
  BY DEF RoundInv
<1> QED
  BY <1>1, RoundInvariant, PTL

(* roundAff_to_char and roundAff_remove keep both lists of an affect in    *)
(* step with each other and with the allocator: what is in use is in the   *)
(* global list and in that of its owner, who is in the world, and nothing  *)
(* else is in either, whoever leaves in the middle of a walk.              *)
THEOREM ListsInStep == Spec => []ListsAgree
<1>1. RoundInv => ListsAgree
  <2> SUFFICES ASSUME RoundInv PROVE ListsAgree
    OBVIOUS
  <2>1. held = ListOf(roundAffs, next)
    BY ChainListed DEF RoundInv, Chains
  <2>2. \A ch \in Owner : ListOf(my_roundAffs[ch], my_next) = Owned(ch)
    BY ChainListed DEF RoundInv, Chains
  <2>3. leaving # NULL /\ rf_next # NULL => rf_next \in held /\ owner[rf_next] = leaving
    <3> SUFFICES ASSUME leaving # NULL, rf_next # NULL PROVE rf_next \in Owned(leaving)
      BY DEF Owned
    <3>1. leaving \in Owner /\ rf_next = my_roundAffs[leaving]
      BY DEF RoundInv, TypeOK, Stages
    <3>2. Leads(rf_next, my_next, Owned(leaving))
      BY <3>1 DEF RoundInv, Chains
    <3> QED
      BY <3>2, LeadsFrom
  <2> QED
    BY <2>1, <2>2, <2>3 DEF ListsAgree, RoundInv, Stages, Owned
<1> QED
  BY <1>1, RoundInvariant, PTL

(* update_round and update_second come to every affect of theirs that was  *)
(* there when they began and is still there, once: the cursor, moved by    *)
(* roundAff_remove, leads to exactly those they have still to treat.       *)
THEOREM WalkMissesNone == Spec => []WalkCovers
<1>1. RoundInv => WalkCovers
  <2> SUFFICES ASSUME RoundInv, walk # "none"
               PROVE  LET rest == ListOf(IF busy THEN next_roundAffs ELSE rf, next)
                      IN  rest \subseteq held /\ due = {r \in rest : type[r] = walk}
    BY DEF WalkCovers
  <2> DEFINE x == IF busy THEN next_roundAffs ELSE rf
  <2>1. PICK R \in SUBSET held : Leads(x, next, R) /\ due = {r \in R : type[r] = walk}
    BY DEF RoundInv, WalkLeads
  <2> HIDE DEF x
  <2>2. ListOf(x, next) = R
    BY <2>1, ChainListed
  <2> QED
    BY <2>1, <2>2 DEF x
<1> QED
  BY <1>1, RoundInvariant, PTL

(* The table of round affects hands out no record that is still in a list, *)
(* whoever dies in the middle of a walk, and grows only when all are in    *)
(* use (allocate.c:125-161 under affect.c:183-278).                        *)
THEOREM AffectsArePool == Spec => IsPool
<1>1. Init => Pool!Init
  BY DEF Init, init_alloctable, Pool!Init
<1>2. RoundInv /\ [Next]_vars => [Pool!Alloc \/ Pool!Free]_<<held, used, max>>
  BY RoundSteps DEF PoolStep
<1> QED
  BY <1>1, <1>2, RoundInvariant, PTL DEF Spec, IsPool, Pool!Spec

-----------------------------------------------------------------------------
(* The parts side by side, as they are model-checked.  A step of the world *)
(* is a step of one part and leaves the others alone; so a behaviour of    *)
(* the world is one of every part.  Only the connections start in a second *)
(* state, with two of them at the end of a pulse, of which their invariant *)
(* holds as well.                                                          *)
LEMMA TwoStart == ASSUME TwoConnected PROVE LoopInv
<1>1. /\ desc_list = <<2, 0>> /\ last_desc = 2 /\ s = 1 /\ 2 < Avail
      /\ pass = 1 /\ point = 2 /\ next_to_process = NoFd /\ untreated = {0, 2}
  BY DEF TwoConnected
<1>2. {0, 2} \subseteq Fd
  BY <1>1, DescAssumption DEF Fd
<1>3. desc_list \in Seq(Fd) /\ Len(desc_list) = 2 /\ desc_list[1] = 2 /\ desc_list[2] = 0
  BY <1>1, <1>2
<1>4. ListInv
  BY <1>1, <1>3 DEF ListInv
<1>5. LastInv
  BY <1>1, <1>2, <1>3 DEF LastInv
<1>6. PassInv
  BY <1>1 DEF PassInv, Loops
<1>7. TypeInv
  BY <1>1, <1>2 DEF TypeInv
<1>8. FlagInv
  BY Zenon DEF TwoConnected, FlagInv
<1> QED
  BY <1>4, <1>5, <1>6, <1>7, <1>8 DEF LoopInv

LEMMA WorldStarts == WorldInit => Init /\ LoopInv /\ BelongInit /\ FollowInit /\ AffInit
BY LoopStarts, TwoStart DEF WorldInit

LEMMA WorldSteps ==
  [WorldNext]_world_vars => /\ [Next]_vars
                            /\ [LoopNext]_loop_vars
                            /\ [BelongNext]_w
                            /\ [FollowNext]_follow_vars
                            /\ [AffNext]_aff_vars
BY DEF WorldNext, RoundStep, LoopStep, ThingStep, FollowStep, SpellStep, world_vars

(* The world has a behaviour of each part in it.                           *)
LEMMA WorldParts == WorldSpec => Spec /\ []LoopInv /\ BelongSpec /\ FollowSpec /\ AffSpec
<1>1. LoopInv /\ [LoopNext]_loop_vars => LoopInv'
  BY LoopSteps
<1> QED
  BY <1>1, WorldStarts, WorldSteps, PTL DEF WorldSpec, Spec, BelongSpec, FollowSpec, AffSpec

(* Side by side, too, every part keeps its types.                          *)
THEOREM WorldTyped == WorldSpec => []TypesOK
<1>1. TypeOK /\ LoopOK /\ BelongingsOK /\ FollowersOK /\ AffOK => TypesOK
  BY DEF TypesOK
<1> QED
  BY <1>1, WorldParts, TypeCorrect, LoopTypes, BelongingsTyped, FollowersTyped, AffectsTyped, PTL

(* What is promised of the parts holds in the world, in one theorem: the   *)
(* lists of affects, the passes over connections, the places of objects,   *)
(* masters and followers, and the numbers of players are right at the same *)
(* time, the table hands out what is free, and groups end.                 *)
THEOREM WorldKeeps ==
  WorldSpec => /\ [](ListsAgree /\ WalkCovers /\ PassCovers /\ SelectSeesAll)
               /\ [](OnePlace /\ LinksAgree /\ NoLoops /\ EffectsAgree)
               /\ IsPool /\ GroupEnds
BY WorldParts, ListsInStep, WalkMissesNone, LoopCovers, LoopSees, AlwaysOnePlace, LinksSafe, LoopsNever,
   EffectsAlwaysAgree, AffectsArePool, GroupSafe, PTL
=============================================================================
