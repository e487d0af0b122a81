--------------------------- MODULE OutQueueProofs ---------------------------
(***************************************************************************)
(* The output queue implements ScrollQueue, for rings and limits of every  *)
(* size, as long as a limit is never loaded into a queue that holds        *)
(* strings, or is the one every connection starts with.                    *)
(***************************************************************************)
EXTENDS OutQueue, SequenceTheorems, TLAPS

QuietLoads == ~OtherPrompts /\ ~SlowSocket
Loads      == QuietLoads \/ Stored = {Default}

(* The ring: used strings from tail on, head behind them.  A limit that is *)
(* loaded may leave tail, and the one string in the ring, outside of it    *)
(* until that string is sent.                                              *)
RingInv ==
  /\ used <= qSize
  /\ head = At(tail, qSize, used + 1)
  /\ tail <= qSize \/ (/\ used = 1 /\ head = 0
                       /\ state = "LOADED" /\ line = "read" /\ QuietLoads)
LoginInv ==
  /\ state = "CLOSED" => used = 0 /\ head = 0 /\ tail = 0 /\ line = "waits" /\ ~output
  /\ QuietLoads => /\ line # "reading"
                   /\ state \in {"NME", "LOADED"} /\ line = "waits" => used = 0
  /\ Stored = {Default} /\ state \in {"NME", "LOADED"} => qSize = Default
Inv == TypeOK /\ RingInv /\ LoginInv /\ StringsOwned

-----------------------------------------------------------------------------
(* The arithmetic of the ring. *)
LEMMA AtIn ==
  ASSUME NEW n \in Size, NEW i \in Slot, NEW k \in 1 .. n + 1
  PROVE  At(i, n, k) \in Slot
BY QueueAssumption DEF QueueAssumption, Size, Slot, At

LEMMA AtFirst == ASSUME NEW n \in Size, NEW i \in Slot PROVE At(i, n, 1) = i
BY QueueAssumption DEF QueueAssumption, Size, Slot, At

LEMMA AtInjective ==
  ASSUME NEW n \in Size, NEW i \in Slot, NEW j \in 1 .. n + 1, NEW k \in 1 .. n + 1,
         At(i, n, j) = At(i, n, k)
  PROVE  j = k
BY QueueAssumption DEF QueueAssumption, Size, Slot, At

LEMMA AtNext ==
  ASSUME NEW n \in Size, NEW i \in Slot, NEW k \in 1 .. n
  PROVE  /\ At(i, n, k + 1) = After(At(i, n, k), n)
         /\ At(After(i, n), n, k) = At(i, n, k + 1)
         /\ After(i, n) \in 0 .. n
BY QueueAssumption DEF QueueAssumption, Size, Slot, At, After

LEMMA AtAround ==
  ASSUME NEW n \in Size, NEW i \in 0 .. n
  PROVE  /\ After(At(i, n, n + 1), n) = i
         /\ At(After(i, n), n, n + 1) = i
BY QueueAssumption DEF QueueAssumption, Size, Slot, At, After

-----------------------------------------------------------------------------
(* Initially. *)
LEMMA InitInv == Init => Inv
<1> SUFFICES ASSUME Init PROVE Inv
  OBVIOUS
<1>1. TypeOK
  <2>1. output \in BOOLEAN
    BY DEF Init
  <2>2. /\ queue \in [Slot -> Text \cup {NULL}] /\ head \in Slot /\ tail \in Slot
        /\ used \in 0 .. MaxOutque /\ qSize \in Size
    BY QueueAssumption DEF QueueAssumption, Init, Slot, Size, Blank
  <2> QED
    BY <2>1, <2>2 DEF TypeOK, Init
<1>2. RingInv
  BY QueueAssumption DEF QueueAssumption, Init, RingInv, At
<1>3. LoginInv
  BY DEF Init, LoginInv
<1>4. StringsOwned
  BY DEF Init, StringsOwned, Blank
<1> QED
  BY <1>1, <1>2, <1>3, <1>4 DEF Inv

-----------------------------------------------------------------------------
(* What the operations do to the ring. *)

(* The cells that hold a string are those of the strings in the queue. *)
Owned(f, i, n, u) == \A s \in Slot : f[s] # NULL <=> \E k \in 1 .. u : s = At(i, n, k)

(* A string put into a ring with room goes behind the others. *)
LEMMA PutWithRoom ==
  ASSUME TypeOK, StringsOwned, NEW t \in Text, NEW n \in Size, put_to_output(t, n),
         used < n,
         head = At(tail, n, used + 1),
         \A s \in Slot : queue[s] # NULL <=> \E k \in 1 .. used : s = At(tail, n, k)
  PROVE  /\ queue' \in [Slot -> Text \cup {NULL}] /\ head' \in Slot
         /\ tail' = tail /\ used' = used + 1
         /\ head' = At(tail, n, used + 2)
         /\ queue'[head] = t
         /\ \A k \in 1 .. used : queue'[At(tail, n, k)] = queue[At(tail, n, k)]
         /\ Owned(queue', tail, n, used + 1)
<1> USE DEF TypeOK
<1>1. tail \in Slot /\ head \in Slot /\ used \in Nat
  BY QueueAssumption DEF QueueAssumption
<1>2. After(head, n) = At(tail, n, used + 2)
  <2>1. used + 1 \in 1 .. n
    BY <1>1, QueueAssumption DEF QueueAssumption, Size
  <2>2. At(tail, n, (used + 1) + 1) = After(At(tail, n, used + 1), n)
    BY <1>1, <2>1, AtNext
  <2> QED
    BY <2>2, <1>1
<1>3. ~Full(After(head, n))
  <2>1. used + 2 \in 1 .. n + 1 /\ 1 \in 1 .. n + 1 /\ used + 2 # 1
    BY <1>1, QueueAssumption DEF QueueAssumption, Size
  <2>2. SUFFICES ASSUME At(tail, n, used + 2) = tail PROVE FALSE
    BY <1>2 DEF Full
  <2>3. At(tail, n, used + 2) = At(tail, n, 1)
    BY <2>2, <1>1, AtFirst
  <2> QED
    BY <2>1, <2>3, <1>1, AtInjective
<1>4. /\ head' = After(head, n) /\ queue' = [queue EXCEPT ![head] = t]
      /\ used' = used + 1 /\ tail' = tail
  BY <1>3 DEF put_to_output
<1>5. head' \in Slot
  <2>1. used + 2 \in 1 .. n + 1
    BY <1>1, QueueAssumption DEF QueueAssumption, Size
  <2> QED
    BY <2>1, <1>1, <1>2, <1>4, AtIn
<1>6. \A k \in 1 .. used : At(tail, n, k) # head
  <2> SUFFICES ASSUME NEW k \in 1 .. used, At(tail, n, k) = head PROVE FALSE
    OBVIOUS
  <2>1. k \in 1 .. n + 1 /\ used + 1 \in 1 .. n + 1 /\ k # used + 1
    BY <1>1, QueueAssumption DEF QueueAssumption, Size
  <2> QED
    BY <2>1, <1>1, AtInjective
<1>7. \A k \in 1 .. used : queue'[At(tail, n, k)] = queue[At(tail, n, k)]
  <2> TAKE k \in 1 .. used
  <2>1. k \in 1 .. n + 1
    BY <1>1, QueueAssumption DEF QueueAssumption, Size
  <2>2. At(tail, n, k) \in Slot
    BY <2>1, <1>1, AtIn
  <2> QED
    BY <2>2, <1>4, <1>6
<1>8. Owned(queue', tail, n, used + 1)
  <2> SUFFICES ASSUME NEW s \in Slot
               PROVE  queue'[s] # NULL <=> \E k \in 1 .. used + 1 : s = At(tail, n, k)
    BY DEF Owned
  <2>1. (\E k \in 1 .. used + 1 : s = At(tail, n, k))
          <=> s = head \/ \E k \in 1 .. used : s = At(tail, n, k)
    BY <1>1
  <2>2. CASE s = head
    BY <2>1, <2>2, <1>1, <1>4, QueueAssumption DEF QueueAssumption
  <2>3. CASE s # head
    BY <2>1, <2>3, <1>1, <1>4
  <2> QED
    BY <2>2, <2>3
<1> QED
  BY <1>1, <1>2, <1>4, <1>5, <1>7, <1>8

(* A string put into a full ring takes the place of the oldest. *)
LEMMA PutWhenFull ==
  ASSUME TypeOK, StringsOwned, NEW t \in Text, put_to_output(t, qSize),
         used = qSize, tail <= qSize,
         head = At(tail, qSize, used + 1)
  PROVE  /\ queue' \in [Slot -> Text \cup {NULL}] /\ head' \in Slot
         /\ tail' = After(tail, qSize) /\ tail' \in 0 .. qSize /\ used' = used
         /\ head' = At(tail', qSize, used + 1)
         /\ \A k \in 1 .. used - 1 : queue'[At(tail', qSize, k)] = queue[At(tail, qSize, k + 1)]
         /\ queue'[At(tail', qSize, used)] = t
         /\ Owned(queue', tail', qSize, used)
<1> USE DEF TypeOK
<1>1. /\ tail \in Slot /\ head \in Slot /\ tail \in 0 .. qSize
      /\ qSize \in Size /\ qSize \in Nat /\ qSize > 0
  BY QueueAssumption DEF QueueAssumption, Slot, Size
<1>2. After(head, qSize) = tail /\ At(After(tail, qSize), qSize, qSize + 1) = tail
  BY <1>1, AtAround
<1>3. /\ head' = tail /\ queue' = [queue EXCEPT ![head] = t, ![tail] = NULL]
      /\ used' = used /\ tail' = After(tail, qSize)
  BY <1>2 DEF put_to_output, Full
<1>4. \A j, k \in 1 .. qSize + 1 : At(tail, qSize, j) = At(tail, qSize, k) => j = k
  BY <1>1, AtInjective
<1>5. \A k \in 1 .. qSize + 1 : At(tail, qSize, k) \in Slot
  BY <1>1, AtIn
<1>6. /\ tail' \in 0 .. qSize
      /\ \A k \in 1 .. qSize : At(tail', qSize, k) = At(tail, qSize, k + 1)
  <2>1. \A k \in 1 .. qSize : At(After(tail, qSize), qSize, k) = At(tail, qSize, k + 1)
    BY <1>1, AtNext
  <2>2. 1 \in 1 .. qSize
    BY <1>1
  <2>3. After(tail, qSize) \in 0 .. qSize
    BY <1>1, <2>2, AtNext
  <2> QED
    BY <2>1, <2>3, <1>3
<1>7. tail = At(tail, qSize, 1)
  BY <1>1, AtFirst
<1>8. \A k \in 2 .. qSize : At(tail, qSize, k) # head /\ At(tail, qSize, k) # tail
  <2> SUFFICES ASSUME NEW k \in 2 .. qSize
               PROVE  At(tail, qSize, k) # head /\ At(tail, qSize, k) # tail
    OBVIOUS
  <2>1. k \in 1 .. qSize + 1 /\ qSize + 1 \in 1 .. qSize + 1 /\ 1 \in 1 .. qSize + 1
    BY <1>1
  <2>2. k # 1 /\ k # qSize + 1
    BY <1>1
  <2> QED
    BY <2>1, <2>2, <1>4, <1>7
<1>9. head # tail
  <2>1. qSize + 1 \in 1 .. qSize + 1 /\ 1 \in 1 .. qSize + 1 /\ qSize + 1 # 1
    BY <1>1
  <2> QED
    BY <2>1, <1>4, <1>7
<1>10. queue'[head] = t /\ queue'[tail] = NULL /\ \A s \in Slot \ {head, tail} : queue'[s] = queue[s]
  BY <1>1, <1>3, <1>9
<1>11. \A k \in 1 .. used - 1 : queue'[At(tail', qSize, k)] = queue[At(tail, qSize, k + 1)]
  <2> TAKE k \in 1 .. used - 1
  <2>1. k \in 1 .. qSize /\ k + 1 \in 2 .. qSize /\ k + 1 \in 1 .. qSize + 1
    BY <1>1
  <2>2. At(tail', qSize, k) = At(tail, qSize, k + 1)
    BY <2>1, <1>6
  <2> QED
    BY <2>1, <2>2, <1>5, <1>8, <1>10
<1>12. queue'[At(tail', qSize, used)] = t
  BY <1>1, <1>6, <1>10
<1>13. Owned(queue', tail', qSize, used)
  <2> SUFFICES ASSUME NEW s \in Slot
               PROVE  queue'[s] # NULL <=> \E k \in 1 .. used : s = At(tail', qSize, k)
    BY DEF Owned
  <2>1. (\E k \in 1 .. used : s = At(tail', qSize, k))
          <=> \E k \in 2 .. qSize + 1 : s = At(tail, qSize, k)
    <3>1. ASSUME NEW k \in 1 .. used, s = At(tail', qSize, k)
          PROVE  \E j \in 2 .. qSize + 1 : s = At(tail, qSize, j)
      <4>1. k + 1 \in 2 .. qSize + 1 /\ s = At(tail, qSize, k + 1)
        BY <1>1, <1>6, <3>1
      <4> QED
        BY <4>1
    <3>2. ASSUME NEW k \in 2 .. qSize + 1, s = At(tail, qSize, k)
          PROVE  \E j \in 1 .. used : s = At(tail', qSize, j)
      <4>1. k - 1 \in 1 .. used /\ (k - 1) + 1 = k
        BY <1>1
      <4>2. s = At(tail', qSize, k - 1)
        BY <1>6, <3>2, <4>1
      <4> QED
        BY <4>1, <4>2
    <3> QED
      BY <3>1, <3>2
  <2>2. (\E k \in 2 .. qSize + 1 : s = At(tail, qSize, k))
          <=> s = head \/ \E k \in 2 .. qSize : s = At(tail, qSize, k)
    BY <1>1
  <2>3. (\E k \in 1 .. used : s = At(tail, qSize, k))
          <=> s = tail \/ \E k \in 2 .. qSize : s = At(tail, qSize, k)
    BY <1>1, <1>7
  <2>4. queue[s] # NULL <=> \E k \in 1 .. used : s = At(tail, qSize, k)
    BY DEF StringsOwned, SlotAt
  <2>5. CASE s = head
    BY <2>1, <2>2, <2>5, <1>10, QueueAssumption DEF QueueAssumption
  <2>6. CASE s = tail
    <3>1. ~ \E k \in 2 .. qSize + 1 : s = At(tail, qSize, k)
      BY <2>2, <2>6, <1>8, <1>9
    <3> QED
      BY <2>1, <2>6, <3>1, <1>10
  <2>7. CASE s \notin {head, tail}
    BY <2>1, <2>2, <2>3, <2>4, <2>7, <1>10
  <2> QED
    BY <2>5, <2>6, <2>7
<1>14. queue' \in [Slot -> Text \cup {NULL}]
  BY <1>1, <1>3
<1> QED
  BY <1>1, <1>2, <1>3, <1>6, <1>11, <1>12, <1>13, <1>14

(* The string at tail is taken, the others keep their order. *)
LEMMA Got ==
  ASSUME TypeOK, StringsOwned, get_from_output, used <= qSize
  PROVE  /\ queue' \in [Slot -> Text \cup {NULL}] /\ head' = head
         /\ tail' = After(tail, qSize) /\ tail' \in 0 .. qSize /\ used' = used - 1
         /\ head = At(tail, qSize, used + 1) => head' = At(tail', qSize, used' + 1)
         /\ \A k \in 1 .. used' : queue'[At(tail', qSize, k)] = queue[At(tail, qSize, k + 1)]
         /\ Owned(queue', tail', qSize, used')
<1> USE DEF TypeOK
<1>1. /\ tail \in Slot /\ head \in Slot /\ used \in 1 .. qSize
      /\ qSize \in Size /\ qSize \in Nat
  BY QueueAssumption DEF QueueAssumption, Slot, Size, get_from_output
<1>2. /\ queue' = [queue EXCEPT ![tail] = NULL] /\ tail' = After(tail, qSize)
      /\ used' = used - 1 /\ head' = head
  BY DEF get_from_output
<1>3. tail' \in 0 .. qSize /\ \A k \in 1 .. qSize : At(tail', qSize, k) = At(tail, qSize, k + 1)
  BY <1>1, <1>2, AtNext
<1>4. \A k \in 1 .. qSize + 1 : At(tail, qSize, k) \in Slot
  BY <1>1, AtIn
<1>5. \A k \in 2 .. qSize + 1 : At(tail, qSize, k) # tail
  <2> SUFFICES ASSUME NEW k \in 2 .. qSize + 1, At(tail, qSize, k) = tail PROVE FALSE
    OBVIOUS
  <2>1. k \in 1 .. qSize + 1 /\ 1 \in 1 .. qSize + 1 /\ k # 1
    BY <1>1
  <2>2. At(tail, qSize, k) = At(tail, qSize, 1)
    BY <1>1, AtFirst
  <2> QED
    BY <2>1, <2>2, <1>1, AtInjective
<1>6. \A k \in 1 .. used' : queue'[At(tail', qSize, k)] = queue[At(tail, qSize, k + 1)]
  <2> TAKE k \in 1 .. used'
  <2>1. k \in 1 .. qSize /\ k + 1 \in 2 .. qSize + 1 /\ k + 1 \in 1 .. qSize + 1
    BY <1>1, <1>2
  <2> QED
    BY <2>1, <1>1, <1>2, <1>3, <1>4, <1>5
<1>7. Owned(queue', tail', qSize, used')
  <2> SUFFICES ASSUME NEW s \in Slot
               PROVE  queue'[s] # NULL <=> \E k \in 1 .. used' : s = At(tail', qSize, k)
    BY DEF Owned
  <2>1. queue[s] # NULL <=> \E k \in 1 .. used : s = At(tail, qSize, k)
    BY DEF StringsOwned, SlotAt
  <2>2. (\E k \in 1 .. used' : s = At(tail', qSize, k))
          <=> \E k \in 2 .. used : s = At(tail, qSize, k)
    <3>1. ASSUME NEW k \in 1 .. used', s = At(tail', qSize, k)
          PROVE  \E j \in 2 .. used : s = At(tail, qSize, j)
      <4>1. k + 1 \in 2 .. used /\ s = At(tail, qSize, k + 1)
        BY <1>1, <1>2, <1>3, <3>1
      <4> QED
        BY <4>1
    <3>2. ASSUME NEW k \in 2 .. used, s = At(tail, qSize, k)
          PROVE  \E j \in 1 .. used' : s = At(tail', qSize, j)
      <4>1. k - 1 \in 1 .. used' /\ k - 1 \in 1 .. qSize /\ (k - 1) + 1 = k
        BY <1>1, <1>2
      <4>2. s = At(tail', qSize, k - 1)
        BY <1>3, <3>2, <4>1
      <4> QED
        BY <4>1, <4>2
    <3> QED
      BY <3>1, <3>2
  <2>3. tail = At(tail, qSize, 1)
    BY <1>1, AtFirst
  <2>4. CASE s = tail
    <3>1. ~ \E k \in 2 .. used : s = At(tail, qSize, k)
      BY <2>4, <1>1, <1>5
    <3> QED
      BY <2>2, <2>4, <3>1, <1>1, <1>2
  <2>5. CASE s # tail
    <3>1. (\E k \in 1 .. used : s = At(tail, qSize, k)) <=> \E k \in 2 .. used : s = At(tail, qSize, k)
      BY <2>3, <2>5, <1>1
    <3> QED
      BY <2>1, <2>2, <2>5, <3>1, <1>1, <1>2
  <2> QED
    BY <2>4, <2>5
<1>8. head = At(tail, qSize, used + 1) => head' = At(tail', qSize, used' + 1)
  BY <1>1, <1>2, <1>3
<1>9. queue' \in [Slot -> Text \cup {NULL}]
  BY <1>1, <1>2
<1> QED
  BY <1>2, <1>3, <1>6, <1>7, <1>8, <1>9

(* A flushed ring holds no string. *)
LEMMA FlushedIsBlank == TypeOK /\ StringsOwned => Flushed = Blank
BY DEF TypeOK, StringsOwned, Flushed, Blank

-----------------------------------------------------------------------------
(* The queue of the abstract specification, and what the operations do to  *)
(* it while they keep the ring in order.                                   *)
Queued == [k \in 1 .. used |-> queue[SlotAt(k)]]
Limit  == IF state = "CLOSED" THEN Default ELSE qSize

RingOK ==
  /\ queue \in [Slot -> Text \cup {NULL}] /\ head \in Slot /\ tail \in Slot
  /\ used \in Nat /\ used <= qSize /\ qSize \in Size
  /\ head = At(tail, qSize, used + 1)
  /\ StringsOwned

LEMMA RingOKInv == Inv => RingOK
BY QueueAssumption DEF QueueAssumption, Inv, TypeOK, RingInv, RingOK

LEMMA StringsInOrder ==
  ASSUME NEW f \in [Slot -> Text \cup {NULL}], NEW i \in Slot, NEW n \in Size,
         NEW u \in Nat, u <= n, Owned(f, i, n, u)
  PROVE  /\ [k \in 1 .. u |-> f[At(i, n, k)]] \in Seq(Text)
         /\ Len([k \in 1 .. u |-> f[At(i, n, k)]]) = u
<1>1. \A k \in 1 .. u : f[At(i, n, k)] \in Text
  <2> TAKE k \in 1 .. u
  <2>1. k \in 1 .. n + 1
    BY QueueAssumption DEF QueueAssumption, Size
  <2>2. At(i, n, k) \in Slot
    BY <2>1, AtIn
  <2> QED
    BY <2>2 DEF Owned
<1>2. [k \in 1 .. u |-> f[At(i, n, k)]] \in [1 .. u -> Text]
  BY <1>1
<1> QED
  BY <1>2

LEMMA QueuedIs ==
  ASSUME RingOK
  PROVE  /\ Queued \in Seq(Text) /\ Len(Queued) = used
         /\ \A k \in 1 .. used : Queued[k] = queue[At(tail, qSize, k)]
<1>1. Owned(queue, tail, qSize, used)
  BY DEF RingOK, StringsOwned, SlotAt, Owned
<1> QED
  BY <1>1, StringsInOrder DEF RingOK, Queued, SlotAt

LEMMA QueuedNext ==
  ASSUME RingOK', qSize' = qSize
  PROVE  /\ Queued' \in Seq(Text) /\ Len(Queued') = used'
         /\ \A k \in 1 .. used' : Queued'[k] = queue'[At(tail', qSize, k)]
<1>1. Owned(queue', tail', qSize, used')
  BY DEF RingOK, StringsOwned, SlotAt, Owned
<1> QED
  BY <1>1, StringsInOrder DEF RingOK, Queued, SlotAt

LEMMA EmptyStep ==
  ASSUME queue' = Blank, head' = 0, tail' = 0, used' = 0, qSize' \in Size
  PROVE  RingOK' /\ Queued' = << >>
<1>1. 0 \in Slot
  BY QueueAssumption DEF QueueAssumption, Slot
<1>2. 0 = At(0, qSize', 1)
  BY <1>1, AtFirst
<1>3. StringsOwned'
  BY DEF StringsOwned, Blank
<1>4. Blank \in [Slot -> Text \cup {NULL}]
  BY DEF Blank
<1>5. RingOK'
  BY <1>1, <1>2, <1>3, <1>4, QueueAssumption DEF QueueAssumption, RingOK, Size
<1>6. Queued' = << >>
  BY DEF Queued
<1> QED
  BY <1>5, <1>6

(* A string is put into an orderly ring: the latest strings remain. *)
LEMMA PutStep ==
  ASSUME Inv, tail <= qSize, NEW t \in Text, put_to_output(t, qSize), qSize' = qSize
  PROVE  /\ RingOK' /\ tail' <= qSize
         /\ Queued' = Scroll!Latest(Append(Queued, t), qSize)
<1>1. RingOK /\ TypeOK /\ StringsOwned
  BY RingOKInv DEF Inv
<1>2. /\ Queued \in Seq(Text) /\ Len(Queued) = used /\ used \in Nat /\ qSize \in Nat /\ qSize > 0
      /\ \A k \in 1 .. used : Queued[k] = queue[At(tail, qSize, k)]
  BY <1>1, QueuedIs, QueueAssumption DEF QueueAssumption, RingOK, Size
<1>3. /\ Append(Queued, t) \in Seq(Text) /\ Len(Append(Queued, t)) = used + 1
      /\ \A k \in 1 .. used : Append(Queued, t)[k] = Queued[k]
      /\ Append(Queued, t)[used + 1] = t
  BY <1>2, AppendProperties
<1>4. CASE used < qSize
  <2>1. /\ queue' \in [Slot -> Text \cup {NULL}] /\ head' \in Slot
        /\ tail' = tail /\ used' = used + 1
        /\ head' = At(tail, qSize, used + 2)
        /\ queue'[head] = t
        /\ \A k \in 1 .. used : queue'[At(tail, qSize, k)] = queue[At(tail, qSize, k)]
        /\ Owned(queue', tail, qSize, used + 1)
    <3>1. /\ qSize \in Size /\ head = At(tail, qSize, used + 1)
          /\ \A s \in Slot : queue[s] # NULL <=> \E k \in 1 .. used : s = At(tail, qSize, k)
      BY <1>1 DEF RingOK, StringsOwned, SlotAt
    <3> QED
      BY <1>1, <1>4, <3>1, PutWithRoom
  <2>2. StringsOwned'
    BY <2>1 DEF StringsOwned, Owned, SlotAt
  <2>3. RingOK'
    BY <1>1, <1>2, <1>4, <2>1, <2>2 DEF RingOK
  <2>4. /\ Queued' \in Seq(Text) /\ Len(Queued') = used + 1
        /\ \A k \in 1 .. used + 1 : Queued'[k] = queue'[At(tail, qSize, k)]
    BY <2>1, <2>3, QueuedNext
  <2>5. \A k \in 1 .. used + 1 : Queued'[k] = Append(Queued, t)[k]
    <3> TAKE k \in 1 .. used + 1
    <3>1. CASE k \in 1 .. used
      BY <3>1, <1>2, <1>3, <2>1, <2>4
    <3>2. CASE k = used + 1
      <4>1. At(tail, qSize, used + 1) = head
        BY <1>1 DEF RingOK
      <4> QED
        BY <3>2, <4>1, <1>3, <2>1, <2>4
    <3> QED
      BY <3>1, <3>2, <1>2
  <2>6. Queued' = Append(Queued, t)
    BY <1>3, <2>4, <2>5, SeqEqual
  <2> QED
    BY <1>2, <1>3, <1>4, <2>1, <2>3, <2>6 DEF Scroll!Latest, Inv, RingInv
<1>5. CASE used = qSize
  <2>1. /\ queue' \in [Slot -> Text \cup {NULL}] /\ head' \in Slot
        /\ tail' = After(tail, qSize) /\ tail' \in 0 .. qSize /\ used' = used
        /\ head' = At(tail', qSize, used + 1)
        /\ \A k \in 1 .. used - 1 : queue'[At(tail', qSize, k)] = queue[At(tail, qSize, k + 1)]
        /\ queue'[At(tail', qSize, used)] = t
        /\ Owned(queue', tail', qSize, used)
    <3>1. head = At(tail, qSize, used + 1)
      BY <1>1 DEF RingOK
    <3> QED
      BY <1>1, <1>5, <3>1, PutWhenFull
  <2>2. StringsOwned'
    BY <2>1 DEF StringsOwned, Owned, SlotAt
  <2>3. RingOK'
    BY <1>1, <1>2, <1>5, <2>1, <2>2, QueueAssumption DEF QueueAssumption, RingOK, Slot, Size
  <2>4. /\ Queued' \in Seq(Text) /\ Len(Queued') = used
        /\ \A k \in 1 .. used : Queued'[k] = queue'[At(tail', qSize, k)]
    BY <2>1, <2>3, QueuedNext
  <2>5. /\ Tail(Append(Queued, t)) \in Seq(Text) /\ Len(Tail(Append(Queued, t))) = used
        /\ \A k \in 1 .. used : Tail(Append(Queued, t))[k] = Append(Queued, t)[k + 1]
    <3>1. Append(Queued, t) # << >>
      BY <1>2, AppendProperties
    <3> QED
      BY <1>2, <1>3, <3>1, HeadTailProperties
  <2>6. \A k \in 1 .. used : Queued'[k] = Tail(Append(Queued, t))[k]
    <3> TAKE k \in 1 .. used
    <3>1. CASE k = used
      BY <3>1, <1>2, <1>3, <2>1, <2>4, <2>5
    <3>2. CASE k \in 1 .. used - 1
      <4>1. k + 1 \in 1 .. used
        BY <3>2, <1>2
      <4> QED
        BY <3>2, <4>1, <1>2, <1>3, <2>1, <2>4, <2>5, ZenonT(30)
    <3> QED
      BY <3>1, <3>2, <1>2
  <2>7. Queued' = Tail(Append(Queued, t))
    BY <2>4, <2>5, <2>6, SeqEqual
  <2> QED
    BY <1>2, <1>3, <1>5, <2>1, <2>3, <2>7 DEF Scroll!Latest
<1> QED
  BY <1>1, <1>2, <1>4, <1>5 DEF RingOK

(* The oldest string is taken to be sent. *)
LEMMA GetStep ==
  ASSUME Inv, get_from_output, qSize' = qSize
  PROVE  /\ RingOK' /\ tail' <= qSize
         /\ Queued # << >> /\ Queued' = Tail(Queued)
<1>1. RingOK /\ TypeOK /\ StringsOwned
  BY RingOKInv DEF Inv
<1>2. /\ Queued \in Seq(Text) /\ Len(Queued) = used /\ used \in Nat /\ qSize \in Nat
      /\ \A k \in 1 .. used : Queued[k] = queue[At(tail, qSize, k)]
  BY <1>1, QueuedIs, QueueAssumption DEF QueueAssumption, RingOK, Size
<1>3. /\ queue' \in [Slot -> Text \cup {NULL}] /\ head' = head
      /\ tail' = After(tail, qSize) /\ tail' \in 0 .. qSize /\ used' = used - 1
      /\ head = At(tail, qSize, used + 1) => head' = At(tail', qSize, used' + 1)
      /\ \A k \in 1 .. used' : queue'[At(tail', qSize, k)] = queue[At(tail, qSize, k + 1)]
      /\ Owned(queue', tail', qSize, used')
  <2>1. used <= qSize
    BY <1>1 DEF RingOK
  <2> QED
    BY <1>1, <2>1, Got
<1>4. StringsOwned'
  BY <1>3 DEF StringsOwned, Owned, SlotAt
<1>5. used > 0
  BY DEF get_from_output
<1>6. RingOK'
  BY <1>1, <1>2, <1>3, <1>4, <1>5, QueueAssumption DEF QueueAssumption, RingOK, Slot, Size
<1>7. /\ Queued' \in Seq(Text) /\ Len(Queued') = used - 1
      /\ \A k \in 1 .. used - 1 : Queued'[k] = queue'[At(tail', qSize, k)]
  BY <1>3, <1>6, QueuedNext
<1>8. /\ Queued # << >> /\ Tail(Queued) \in Seq(Text) /\ Len(Tail(Queued)) = used - 1
      /\ \A k \in 1 .. used - 1 : Tail(Queued)[k] = Queued[k + 1]
  <2>1. Queued # << >>
    BY <1>2, <1>5
  <2> QED
    BY <1>2, <2>1, HeadTailProperties
<1>9. \A k \in 1 .. used - 1 : Queued'[k] = Tail(Queued)[k]
  <2> TAKE k \in 1 .. used - 1
  <2>1. k + 1 \in 1 .. used
    BY <1>2
  <2> QED
    BY <2>1, <1>2, <1>3, <1>7, <1>8
<1>10. Queued' = Tail(Queued)
  BY <1>7, <1>8, <1>9, SeqEqual
<1> QED
  BY <1>1, <1>2, <1>3, <1>6, <1>8, <1>10

-----------------------------------------------------------------------------
(* Login: a limit is loaded into an empty queue, or it changes nothing. *)
LEMMA LoadStep ==
  ASSUME Inv, Loads, NEW n \in Stored, NEW t \in Text, store_to_char(n, t)
  PROVE  /\ RingOK' /\ LoginInv'
         /\ tail' <= qSize' \/ (used' = 1 /\ head' = 0 /\ QuietLoads)
         /\ \/ Queued' = Append(Queued, t)
            \/ qSize' = qSize /\ Queued' = Scroll!Latest(Append(Queued, t), qSize)
<1>1. RingOK /\ TypeOK
  BY RingOKInv DEF Inv
<1>2. /\ state = "NME" /\ line \in {"waits", "reading"} /\ line' = "read" /\ output' = output
      /\ qSize' = n /\ put_to_output(t, n) /\ state' = "LOADED" /\ tail <= qSize
  BY DEF store_to_char, Reads, Inv, RingInv
<1>3. n \in Size
  BY QueueAssumption DEF QueueAssumption, Size
<1>4. LoginInv'
  <2>1. Stored = {Default} => n = Default
    OBVIOUS
  <2> QED
    BY <1>2, <2>1 DEF LoginInv, QuietLoads
<1>5. CASE QuietLoads
  <2>1. used = 0
    BY <1>2, <1>5 DEF Inv, LoginInv
  <2>2. /\ tail \in Slot /\ head = tail /\ \A s \in Slot : queue[s] = NULL
    <3>1. head = tail
      BY <1>1, <2>1, AtFirst DEF RingOK
    <3>2. \A s \in Slot : queue[s] = NULL
      BY <1>1, <2>1 DEF RingOK, StringsOwned
    <3> QED
      BY <1>1, <3>1, <3>2 DEF RingOK
  <2>3. head = At(tail, n, used + 1)
    BY <2>1, <2>2, <1>3, AtFirst
  <2>4. /\ queue' \in [Slot -> Text \cup {NULL}] /\ head' \in Slot
        /\ tail' = tail /\ used' = used + 1
        /\ head' = At(tail, n, used + 2)
        /\ queue'[head] = t
        /\ Owned(queue', tail, n, used + 1)
    <3>1. used < n /\ StringsOwned
      BY <1>3, <2>1, QueueAssumption DEF QueueAssumption, Size, Inv
    <3>2. \A s \in Slot : queue[s] # NULL <=> \E k \in 1 .. used : s = At(tail, n, k)
      BY <2>1, <2>2
    <3> QED
      BY <1>1, <1>2, <1>3, <2>3, <3>1, <3>2, PutWithRoom
  <2>5. RingOK'
    <3>1. StringsOwned'
      BY <1>2, <2>4 DEF StringsOwned, SlotAt, Owned
    <3> QED
      BY <1>2, <1>3, <2>1, <2>2, <2>4, <3>1, QueueAssumption DEF QueueAssumption, RingOK, Size
  <2>6. Queued = << >>
    BY <2>1 DEF Queued
  <2>7. Queued' = <<t>>
    <3>1. At(tail, n, 1) = head
      BY <1>3, <2>2, AtFirst
    <3>2. Queued' = [k \in 1 .. 1 |-> queue'[At(tail, n, k)]]
      BY <1>2, <2>1, <2>4 DEF Queued, SlotAt
    <3>3. Queued' \in Seq(Text) /\ Len(Queued') = 1 /\ Queued'[1] = t
      <4>1. Queued'[1] = t
        BY <3>1, <3>2, <2>4
      <4>2. Owned(queue', tail, n, 1)
        BY <2>1, <2>4
      <4>3. 1 \in Nat /\ 1 <= n
        BY <1>3, QueueAssumption DEF QueueAssumption, Size
      <4> QED
        BY <4>1, <4>2, <4>3, <3>2, <2>2, <2>4, <1>3, StringsInOrder
    <3> QED
      BY <3>3, SeqEqual
  <2>8. tail <= n \/ head' = 0
    BY <2>1, <2>2, <2>4, <1>3, QueueAssumption DEF QueueAssumption, Slot, Size, At
  <2> QED
    BY <1>2, <1>4, <1>5, <2>1, <2>4, <2>5, <2>6, <2>7, <2>8
<1>6. CASE Stored = {Default}
  <2>1. n = qSize /\ qSize' = qSize /\ put_to_output(t, qSize)
    BY <1>2, <1>6 DEF Inv, LoginInv
  <2> QED
    BY <1>2, <1>4, <2>1, PutStep
<1> QED
  BY <1>5, <1>6 DEF Loads

(* The scroll command: one string in a ring of the new size. *)
LEMMA ScrollStep ==
  ASSUME Inv, NEW n \in Size, NEW t \in Text, do_scroll(n, t)
  PROVE  RingOK' /\ tail' <= qSize' /\ Queued' = <<t>>
<1>1. /\ queue' = [Blank EXCEPT ![0] = t] /\ head' = After(0, n) /\ tail' = 0
      /\ used' = 1 /\ qSize' = n
  BY FlushedIsBlank DEF Inv, do_scroll
<1>2. n \in Nat /\ n > 0 /\ 0 \in Slot /\ After(0, n) = At(0, n, 2) /\ After(0, n) \in Slot
  BY QueueAssumption DEF QueueAssumption, Size, Slot, At, After
<1>3. At(0, n, 1) = 0
  BY <1>2, AtFirst
<1>4. /\ queue' \in [Slot -> Text \cup {NULL}] /\ queue'[0] = t
      /\ \A s \in Slot \ {0} : queue'[s] = NULL
  BY <1>1, <1>2 DEF Blank
<1>5. Owned(queue', 0, n, 1)
  <2> SUFFICES ASSUME NEW s \in Slot
               PROVE  queue'[s] # NULL <=> \E k \in 1 .. 1 : s = At(0, n, k)
    BY DEF Owned
  <2>1. (\E k \in 1 .. 1 : s = At(0, n, k)) <=> s = 0
    BY <1>3
  <2> QED
    BY <2>1, <1>4, QueueAssumption DEF QueueAssumption
<1>6. RingOK'
  <2>1. StringsOwned'
    BY <1>1, <1>5 DEF StringsOwned, SlotAt, Owned
  <2> QED
    BY <1>1, <1>2, <1>4, <2>1 DEF RingOK
<1>7. Queued' = <<t>>
  <2>1. Queued' = [k \in 1 .. 1 |-> queue'[At(0, n, k)]]
    BY <1>1 DEF Queued, SlotAt
  <2>2. Queued'[1] = t
    BY <2>1, <1>3, <1>4
  <2>3. 1 \in Nat /\ 1 <= n
    BY <1>2
  <2>4. Queued' \in Seq(Text) /\ Len(Queued') = 1
    BY <2>1, <2>3, <1>2, <1>4, <1>5, StringsInOrder
  <2> QED
    BY <2>2, <2>4, SeqEqual
<1> QED
  BY <1>1, <1>2, <1>6, <1>7

-----------------------------------------------------------------------------
(* Every step. *)
LEMMA InvFrom ==
  ASSUME RingOK', LoginInv',
         state' \in {"CLOSED", "NME", "LOADED", "OPEN"},
         line' \in {"waits", "reading", "read"}, output' \in BOOLEAN,
         tail' <= qSize' \/ (/\ used' = 1 /\ head' = 0
                             /\ state' = "LOADED" /\ line' = "read" /\ QuietLoads)
  PROVE  Inv'
<1>1. used' \in 0 .. MaxOutque
  BY QueueAssumption DEF QueueAssumption, RingOK, Size
<1>2. TypeOK'
  BY <1>1 DEF RingOK, TypeOK
<1>3. RingInv'
  BY DEF RingOK, RingInv, QuietLoads
<1> QED
  BY <1>2, <1>3 DEF Inv, RingOK

Abs == Scroll!Next \/ (Queued' = Queued /\ Limit' = Limit)

LEMMA Step ==
  ASSUME Inv, Loads, [Next]_vars
  PROVE  Inv' /\ Abs
<1>1. RingOK /\ TypeOK /\ RingInv /\ LoginInv /\ StringsOwned
  BY RingOKInv DEF Inv
<1>2. CASE new_descriptor
  <2>1. /\ queue' = Blank /\ head' = 0 /\ tail' = 0 /\ used' = 0 /\ qSize' = Default
        /\ state = "CLOSED" /\ state' = "NME" /\ line' = "read" /\ output' = output
    BY <1>2 DEF new_descriptor
  <2>2. qSize' \in Size
    BY <2>1, QueueAssumption DEF QueueAssumption, Size
  <2>3. RingOK' /\ Queued' = << >>
    BY <2>1, <2>2, EmptyStep
  <2>4. LoginInv'
    BY <2>1 DEF LoginInv, QuietLoads
  <2>5. tail' <= qSize'
    BY <2>1, QueueAssumption DEF QueueAssumption
  <2>6. Queued = << >> /\ Limit = Default /\ Limit' = Default
    BY <1>1, <2>1 DEF LoginInv, Queued, Limit
  <2>7. output' \in BOOLEAN
    BY <1>1, <2>1 DEF TypeOK
  <2> QED
    BY <2>1, <2>3, <2>4, <2>5, <2>6, <2>7, InvFrom DEF Abs
<1>3. CASE close_socket
  <2>1. /\ queue' = Blank /\ head' = 0 /\ tail' = 0 /\ used' = 0 /\ qSize' = qSize
        /\ state' = "CLOSED" /\ line' = "waits" /\ output' = FALSE
    BY <1>1, <1>3, FlushedIsBlank DEF close_socket
  <2>2. qSize' \in Size
    BY <1>1, <2>1 DEF RingOK
  <2>3. RingOK' /\ Queued' = << >>
    BY <2>1, <2>2, EmptyStep
  <2>4. LoginInv'
    BY <2>1 DEF LoginInv, QuietLoads
  <2>5. tail' <= qSize'
    BY <2>1, <2>2, QueueAssumption DEF QueueAssumption, Size
  <2>6. Scroll!Close
    BY <2>1, <2>3 DEF Scroll!Close, Queued
  <2>7. output' \in BOOLEAN
    BY <2>1
  <2> QED
    BY <2>1, <2>3, <2>4, <2>5, <2>6, <2>7, InvFrom DEF Abs, Scroll!Next
<1>4. ASSUME UNCHANGED <<ring, qSize>>,
             (state' = "CLOSED") <=> (state = "CLOSED")
      PROVE  RingOK' /\ Queued' = Queued /\ Limit' = Limit
  BY <1>1, <1>4 DEF ring, RingOK, StringsOwned, SlotAt, Queued, Limit
<1>5. CASE NameTyped
  <2>1. /\ UNCHANGED <<ring, qSize>> /\ state = "NME" /\ state' \in {"NME", "OPEN"}
        /\ line \in {"waits", "reading"} /\ line' = "read" /\ output' = output
    BY <1>5 DEF NameTyped, Reads
  <2>2. LoginInv'
    BY <1>1, <2>1 DEF LoginInv, QuietLoads, ring
  <2>3. tail' <= qSize'
    BY <1>1, <2>1 DEF RingInv, ring
  <2> QED
    BY <1>1, <1>4, <2>1, <2>2, <2>3, InvFrom DEF Abs, TypeOK
<1>6. CASE PasswordTyped
  <2>1. /\ UNCHANGED <<ring, qSize>> /\ state = "LOADED" /\ state' = "OPEN"
        /\ line \in {"waits", "reading"} /\ line' = "read" /\ output' = output
    BY <1>6 DEF PasswordTyped, Reads
  <2>2. LoginInv'
    BY <1>1, <2>1 DEF LoginInv, QuietLoads, ring
  <2>3. tail' <= qSize'
    BY <1>1, <2>1 DEF RingInv, ring
  <2> QED
    BY <1>1, <1>4, <2>1, <2>2, <2>3, InvFrom DEF Abs, TypeOK
<1>7. CASE \E n \in Stored, t \in Text : store_to_char(n, t)
  <2>1. PICK n \in Stored, t \in Text : store_to_char(n, t)
    BY <1>7
  <2>2. /\ RingOK' /\ LoginInv'
        /\ tail' <= qSize' \/ (used' = 1 /\ head' = 0 /\ QuietLoads)
        /\ \/ Queued' = Append(Queued, t)
           \/ qSize' = qSize /\ Queued' = Scroll!Latest(Append(Queued, t), qSize)
    BY <2>1, LoadStep
  <2>3. /\ state = "NME" /\ state' = "LOADED" /\ line' = "read" /\ output' = output
        /\ qSize' = n /\ n \in Size
    BY <2>1, QueueAssumption DEF QueueAssumption, store_to_char, Reads, Size
  <2>4. Scroll!Load(n, t) \/ Scroll!Put(t)
    BY <2>2, <2>3 DEF Scroll!Load, Scroll!Put, Queued
  <2> QED
    BY <1>1, <2>2, <2>3, <2>4, InvFrom DEF Abs, TypeOK, Scroll!Next
<1>8. CASE \E n \in Size, t \in Text : do_scroll(n, t)
  <2>1. PICK n \in Size, t \in Text : do_scroll(n, t)
    BY <1>8
  <2>2. RingOK' /\ tail' <= qSize' /\ Queued' = <<t>>
    BY <2>1, ScrollStep
  <2>3. /\ state = "OPEN" /\ state' = "OPEN" /\ line' = line /\ output' = output /\ qSize' = n
    BY <2>1 DEF do_scroll
  <2>4. LoginInv'
    BY <1>1, <2>3 DEF LoginInv, QuietLoads
  <2>5. Scroll!Scroll(n, t)
    BY <2>2, <2>3 DEF Scroll!Scroll, Queued
  <2> QED
    BY <1>1, <2>2, <2>3, <2>4, <2>5, InvFrom DEF Abs, TypeOK, Scroll!Next
<1>9. CASE \E t \in Text : Newline(t) \/ Put(t)
  <2>1. PICK t \in Text : Newline(t) \/ Put(t)
    BY <1>9
  <2>2. /\ put_to_output(t, qSize) /\ qSize' = qSize /\ state' = state /\ output' = output
        /\ state \in {"NME", "LOADED", "OPEN"} /\ (state = "LOADED" => line = "waits")
        /\ line' \in {"waits", "reading", "read"}
    BY <2>1, <1>1 DEF Newline, Put, TypeOK
  <2>3. tail <= qSize
    BY <1>1, <2>2 DEF RingInv
  <2>4. RingOK' /\ tail' <= qSize /\ Queued' = Scroll!Latest(Append(Queued, t), qSize)
    BY <2>2, <2>3, PutStep
  <2>5. LoginInv'
    <3>1. CASE Newline(t)
      BY <1>1, <2>2, <3>1 DEF LoginInv, QuietLoads, Newline
    <3>2. CASE Put(t)
      BY <1>1, <2>2, <3>2 DEF LoginInv, QuietLoads, Put
    <3> QED
      BY <2>1, <3>1, <3>2
  <2>6. Scroll!Put(t)
    BY <2>2, <2>4 DEF Scroll!Put, Queued
  <2> QED
    BY <1>1, <2>2, <2>4, <2>5, <2>6, InvFrom DEF Abs, TypeOK, Scroll!Next
<1>10. CASE StartOutput
  <2>1. /\ UNCHANGED <<ring, qSize, state, line>> /\ state # "CLOSED" /\ output' = TRUE
    BY <1>10 DEF StartOutput
  <2>2. LoginInv'
    BY <1>1, <2>1 DEF LoginInv, QuietLoads, ring
  <2>3. tail' <= qSize' \/ (/\ used' = 1 /\ head' = 0
                            /\ state' = "LOADED" /\ line' = "read" /\ QuietLoads)
    BY <1>1, <2>1 DEF RingInv, ring
  <2> QED
    BY <1>1, <1>4, <2>1, <2>2, <2>3, InvFrom DEF Abs, TypeOK
<1>11. CASE process_output
  <2>1. /\ get_from_output /\ UNCHANGED <<qSize, state, line, output>> /\ output
    BY <1>11 DEF process_output
  <2>2. RingOK' /\ tail' <= qSize /\ Queued # << >> /\ Queued' = Tail(Queued)
    BY <2>1, GetStep
  <2>3. used > 0 /\ used' = used - 1
    BY <2>1 DEF get_from_output
  <2>4. LoginInv'
    BY <1>1, <2>1, <2>3 DEF LoginInv, QuietLoads
  <2>5. Scroll!Send
    BY <2>1, <2>2 DEF Scroll!Send, Queued
  <2> QED
    BY <1>1, <2>1, <2>2, <2>4, <2>5, InvFrom DEF Abs, TypeOK, Scroll!Next
<1>12. CASE EndPulse
  <2>1. /\ UNCHANGED <<ring, qSize, state>> /\ (used = 0 \/ SlowSocket)
        /\ line' = "waits" /\ output' = FALSE
    BY <1>12 DEF EndPulse
  <2>2. LoginInv'
    BY <1>1, <2>1 DEF LoginInv, QuietLoads, ring
  <2>3. tail' <= qSize'
    BY <1>1, <2>1 DEF RingInv, QuietLoads, ring
  <2> QED
    BY <1>1, <1>4, <2>1, <2>2, <2>3, InvFrom DEF Abs, TypeOK
<1>13. CASE UNCHANGED vars
  <2>1. UNCHANGED <<ring, qSize, state, line, output>>
    BY <1>13 DEF vars, ring
  <2>2. LoginInv'
    BY <1>1, <2>1 DEF LoginInv, QuietLoads, ring
  <2>3. tail' <= qSize' \/ (/\ used' = 1 /\ head' = 0
                            /\ state' = "LOADED" /\ line' = "read" /\ QuietLoads)
    BY <1>1, <2>1 DEF RingInv, ring
  <2> QED
    BY <1>1, <1>4, <2>1, <2>2, <2>3, InvFrom DEF Abs, TypeOK
<1> QED
  BY <1>2, <1>3, <1>5, <1>6, <1>7, <1>8, <1>9, <1>10, <1>11, <1>12, <1>13 DEF Next

-----------------------------------------------------------------------------
(* The ring is in order in every state, so the variables keep their types, *)
(* for every number of slots and every limit (allocate.c, sockets.c).      *)
THEOREM RingInOrder == ASSUME Loads PROVE Spec => []Inv
<1>1. Init => Inv
  BY InitInv
<1>2. Inv /\ [Next]_vars => Inv'
  BY Step
<1> QED
  BY <1>1, <1>2, PTL DEF Spec

THEOREM TypeCorrect == ASSUME Loads PROVE Spec => []TypeOK
<1>1. Inv => TypeOK
  BY DEF Inv
<1> QED
  BY <1>1, RingInOrder, PTL

(* No string of the queue is freed twice, used after it was freed, or lost *)
(* without being freed (sockets.c put_to_output, get_from_output).         *)
THEOREM EveryStringOwned == ASSUME Loads PROVE Spec => []StringsOwned
<1>1. Inv => StringsOwned
  BY DEF Inv
<1> QED
  BY <1>1, RingInOrder, PTL

(* The ring of sockets.c implements the queue of the latest strings.       *)
THEOREM RingIsScrollQueue == ASSUME Loads PROVE Spec => IsScrollQueue
<1>1. Init => Scroll!Init
  BY DEF Init, Scroll!Init
<1>2. Inv /\ [Next]_vars => [Scroll!Next]_<<Queued, Limit>>
  BY Step DEF Abs
<1>3. [Scroll!Next]_<<Queued, Limit>>
        => [Scroll!Next]_<<[k \in 1 .. used |-> queue[SlotAt(k)]],
                           IF state = "CLOSED" THEN Default ELSE qSize>>
  BY DEF Queued, Limit
<1> QED
  BY <1>1, <1>2, <1>3, RingInOrder, PTL DEF Spec, IsScrollQueue, Scroll!Spec

(* What is sent next is a string, whenever the limit of a record is no     *)
(* smaller than what the ring already holds (sockets.c get_from_output).   *)
THEOREM NextAlwaysString == ASSUME Loads PROVE Spec => []NextIsString
<1>1. ASSUME Inv, used > 0
      PROVE  queue[tail] # NULL
  <2>1. tail \in Slot /\ qSize \in Size /\ used \in Nat
    BY <1>1, QueueAssumption DEF Inv, TypeOK, Slot, Size
  <2>2. 1 \in 1 .. used /\ tail = SlotAt(1)
    BY <1>1, <2>1, AtFirst DEF SlotAt
  <2> QED
    BY <1>1, <2>1, <2>2 DEF Inv, StringsOwned
<1>2. Inv => NextIsString
  BY <1>1 DEF NextIsString
<1> QED
  BY <1>2, RingInOrder, PTL
=============================================================================
