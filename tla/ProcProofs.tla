---------------------------- MODULE ProcProofs ----------------------------
(***************************************************************************)
(* The safety invariants of module Proc, for every number of slots and     *)
(* CPUs, and the lemmas about its run queues that they rest on: what       *)
(* enqueue(), dequeue() and a wakeup do to the queues.                     *)
(***************************************************************************)
EXTENDS Proc, TLAPS

USE ZenonT(30), SMTT(30)

(***************************************************************************)
(* Run queues, as functions from CPUs to sequences of slots.               *)
(***************************************************************************)
Queues == [CPUs -> Seq(Slots)]

\* Slot p is on one of the queues.
In(rq, p) == \E c \in CPUs : \E i \in 1..Len(rq[c]) : rq[c][i] = p

\* No slot is on the queues twice.
Distinct(rq) ==
  \A c, d \in CPUs : \A i \in 1..Len(rq[c]), j \in 1..Len(rq[d]) :
    rq[c][i] = rq[d][j] => (c = d /\ i = j)

\* The queues after slot p is appended to the queue of CPU c, and after position
\* k is removed from it.
Appended(rq, c, p) == [rq EXCEPT ![c] = Append(@, p)]
Removed(rq, c, k)  == [rq EXCEPT ![c] = dequeue(@, k)]

\* dequeue() drops position i and keeps the order of the rest.
LEMMA DequeueProperties ==
  ASSUME NEW S, NEW s \in Seq(S), NEW i \in 1..Len(s)
  PROVE  /\ dequeue(s, i) \in Seq(S)
         /\ Len(dequeue(s, i)) = Len(s) - 1
         /\ \A j \in 1..Len(s)-1 :
              dequeue(s, i)[j] = IF j < i THEN s[j] ELSE s[j+1]
<1> DEFINE n == Len(s) - 1
           t == [j \in 1..n |-> IF j < i THEN s[j] ELSE s[j+1]]
<1>1. n \in Nat /\ \A j \in 1..n : j \in 1..Len(s) /\ j+1 \in 1..Len(s)
  BY SMTT(30)
<1>2. t \in [1..n -> S]
  BY <1>1, SMTT(30)
<1>3. dequeue(s, i) = t
  BY DEF dequeue
<1> HIDE DEF n
<1>4. t \in Seq(S) /\ Len(t) = n
  BY <1>1, <1>2, SMTT(30)
<1>5. QED
  BY <1>3, <1>4 DEF n

\* Appending a slot that is on no queue, as enqueue() does.
LEMMA EnqueueOne ==
  ASSUME NEW rq \in Queues, NEW c \in CPUs, NEW p \in Slots,
         Distinct(rq), ~In(rq, p)
  PROVE  /\ Appended(rq, c, p) \in Queues /\ Distinct(Appended(rq, c, p))
         /\ \A q \in Slots : In(Appended(rq, c, p), q) <=> (In(rq, q) \/ q = p)
         /\ \A d \in CPUs : Len(Appended(rq, c, p)[d]) =
                            IF d = c THEN Len(rq[d]) + 1 ELSE Len(rq[d])
<1> DEFINE rq2 == Appended(rq, c, p)
<1>0. rq2 = [rq EXCEPT ![c] = Append(@, p)]
  BY DEF Appended
<1> HIDE DEF rq2
<1>1. rq[c] \in Seq(Slots)
  BY DEF Queues
<1>2. /\ rq2[c] \in Seq(Slots) /\ Len(rq2[c]) = Len(rq[c]) + 1
      /\ \A i \in 1..Len(rq[c]) : rq2[c][i] = rq[c][i]
      /\ rq2[c][Len(rq[c])+1] = p
  BY <1>0, <1>1, SMTT(30) DEF Queues
<1>3. \A d \in CPUs : d # c => rq2[d] = rq[d]
  BY <1>0 DEF Queues
<1>4. rq2 \in Queues
  BY <1>0, <1>2, <1>3 DEF Queues
<1>5. \A d \in CPUs : Len(rq[d]) \in Nat /\ \A i \in 1..Len(rq[d]) : rq[d][i] \in Slots
  BY SMTT(30) DEF Queues
<1>6. Distinct(rq2)
  BY <1>0, <1>2, <1>3, <1>5, SMTT(30) DEF Distinct, In
<1>7. ASSUME NEW q \in Slots PROVE In(rq2, q) <=> (In(rq, q) \/ q = p)
  <2>1. In(rq2, q) => (In(rq, q) \/ q = p)
    BY <1>2, <1>3, <1>5, SMTT(30) DEF In
  <2>2. In(rq, q) => In(rq2, q)
    BY <1>2, <1>3, <1>5, SMTT(30) DEF In
  <2>3. In(rq2, p)
    BY <1>2, <1>5, SMTT(30) DEF In
  <2>4. QED
    BY <2>1, <2>2, <2>3
<1>8. \A d \in CPUs : Len(rq2[d]) = IF d = c THEN Len(rq[d]) + 1 ELSE Len(rq[d])
  BY <1>2, <1>3, <1>5
<1>9. QED
  BY <1>4, <1>6, <1>7, <1>8 DEF rq2

\* Removing the slot at position k of the queue of CPU c, as dequeue() does.
LEMMA DequeueOne ==
  ASSUME NEW rq \in Queues, NEW c \in CPUs, NEW k \in 1..Len(rq[c]), Distinct(rq)
  PROVE  /\ Removed(rq, c, k) \in Queues /\ Distinct(Removed(rq, c, k))
         /\ \A q \in Slots : In(Removed(rq, c, k), q) <=> (In(rq, q) /\ q # rq[c][k])
         /\ \A d \in CPUs : Len(Removed(rq, c, k)[d]) =
                            IF d = c THEN Len(rq[d]) - 1 ELSE Len(rq[d])
<1> DEFINE rq2 == Removed(rq, c, k)
<1>0. rq2 = [rq EXCEPT ![c] = dequeue(@, k)]
  BY DEF Removed
<1> HIDE DEF rq2
<1>1. rq[c] \in Seq(Slots)
  BY DEF Queues
<1>2. /\ rq2[c] \in Seq(Slots) /\ Len(rq2[c]) = Len(rq[c]) - 1
      /\ \A j \in 1..Len(rq[c])-1 : rq2[c][j] = IF j < k THEN rq[c][j] ELSE rq[c][j+1]
  BY <1>0, <1>1, DequeueProperties DEF Queues
<1>3. \A d \in CPUs : d # c => rq2[d] = rq[d]
  BY <1>0 DEF Queues
<1>4. rq2 \in Queues
  BY <1>0, <1>2, <1>3 DEF Queues
<1>5. \A d \in CPUs : Len(rq[d]) \in Nat /\ \A i \in 1..Len(rq[d]) : rq[d][i] \in Slots
  BY SMTT(30) DEF Queues
\* position i of rq2[d] is position old(d, i) of rq[d]
<1> DEFINE old(d, i) == IF d = c /\ i >= k THEN i + 1 ELSE i
<1>old. ASSUME NEW d \in CPUs, NEW i \in 1..Len(rq2[d])
        PROVE  /\ old(d, i) \in 1..Len(rq[d]) /\ rq2[d][i] = rq[d][old(d, i)]
               /\ d = c => old(d, i) # k
  <2>1. CASE d # c
    BY <2>1, <1>3
  <2>2. CASE d = c
    BY <2>2, <1>2, <1>5, SMTT(30)
  <2>3. QED
    BY <2>1, <2>2
<1> HIDE DEF old
<1>6. Distinct(rq2)
  <2>2. SUFFICES ASSUME NEW d \in CPUs, NEW e \in CPUs, NEW i \in 1..Len(rq2[d]),
                        NEW j \in 1..Len(rq2[e]), rq2[d][i] = rq2[e][j]
                 PROVE  d = e /\ i = j
    BY DEF Distinct
  <2>3. rq[d][old(d, i)] = rq[e][old(e, j)]
    BY <1>old, <2>2
  <2>4. d = e /\ old(d, i) = old(e, j)
    BY <1>old, <2>3, SMTT(30) DEF Distinct
  <2>5. i \in Int /\ j \in Int /\ k \in Int
    BY <1>5, SMTT(30)
  <2>6. (IF d = c /\ i >= k THEN i + 1 ELSE i) = (IF d = c /\ j >= k THEN j + 1 ELSE j)
    BY <2>4 DEF old
  <2>7. i = j
    BY <2>5, <2>6, SMTT(30)
  <2>8. QED
    BY <2>4, <2>7
<1>7. ASSUME NEW q \in Slots PROVE In(rq2, q) <=> (In(rq, q) /\ q # rq[c][k])
  <2>1. ASSUME NEW d \in CPUs, NEW i \in 1..Len(rq2[d]), rq2[d][i] = q
        PROVE  In(rq, q) /\ q # rq[c][k]
    <3>1. old(d, i) \in 1..Len(rq[d]) /\ rq[d][old(d, i)] = q /\ (d = c => old(d, i) # k)
      BY <1>old, <2>1
    <3>2. In(rq, q)
      BY <3>1 DEF In
    <3>3. q = rq[c][k] => d = c /\ old(d, i) = k
      BY <3>1, SMTT(30) DEF Distinct
    <3>4. QED
      BY <3>1, <3>2, <3>3
  <2>2. ASSUME NEW d \in CPUs, NEW i \in 1..Len(rq[d]), rq[d][i] = q, q # rq[c][k]
        PROVE  In(rq2, q)
    <3>1. CASE d # c
      BY <2>2, <3>1, <1>3 DEF In
    <3>2. CASE d = c /\ i < k
      BY <2>2, <3>2, <1>0, <1>2, <1>5, SMTT(30) DEF In
    <3>3. CASE d = c /\ i > k
      <4>1. i-1 \in 1..Len(rq[c])-1 /\ rq2[c][i-1] = q
        BY <2>2, <3>3, <1>2, <1>5, SMTT(30)
      <4>2. QED
        BY <4>1, <1>2 DEF In
    <3>4. QED
      BY <2>2, <3>1, <3>2, <3>3, SMTT(30)
  <2>3. QED
    BY <2>1, <2>2 DEF In
<1>8. \A d \in CPUs : Len(rq2[d]) = IF d = c THEN Len(rq[d]) - 1 ELSE Len(rq[d])
  BY <1>2, <1>3, <1>5
<1>9. QED
  BY <1>4, <1>6, <1>7, <1>8 DEF rq2

\* What EnqueueWoken does to the queues: all the woken slots are added, once
\* each, and the counts follow.
LEMMA EnqueueMany ==
  ASSUME NEW first \in SUBSET Slots, NEW second \in SUBSET Slots,
         runq \in Queues, queue_count \in [CPUs -> Int],
         Distinct(runq), CountsRight,
         \A p \in first \cup second : ~In(runq, p),
         EnqueueWoken(first, second)
  PROVE  /\ runq' \in Queues /\ Distinct(runq')
         /\ \A q \in Slots : In(runq', q) <=> (In(runq, q) \/ q \in first \cup second)
         /\ queue_count' \in [CPUs -> Int] /\ CountsRight'
<1> DEFINE woken == first \cup second
<1>1. PICK place \in [woken -> ECores], added \in [ECores -> Lists(woken)] :
        /\ AddedInTurn(first, woken, place, added)
        /\ runq' = [c \in CPUs |-> IF c \in ECores THEN runq[c] \o added[c] ELSE runq[c]]
        /\ queue_count' = [c \in CPUs |-> IF c \in ECores
                                          THEN queue_count[c] + Len(added[c])
                                          ELSE queue_count[c]]
  BY DEF EnqueueWoken
<1>2. ECores \subseteq CPUs /\ woken \subseteq Slots /\ Slots \subseteq Nat /\ NPROC \in Nat
  BY ProcAssumption, SMTT(30) DEF ECores, Slots
<1> HIDE DEF woken
<1>3. \A c \in ECores : added[c] \in Lists(woken)
  BY <1>1
<1>4. ASSUME NEW c \in ECores
      PROVE  /\ added[c] \in Seq(Slots) /\ Len(added[c]) \in Nat
             /\ DOMAIN added[c] = 1..Len(added[c])
             /\ \A i \in 1..Len(added[c]) : added[c][i] \in woken
  <2>1. PICK n \in 0..NPROC : added[c] \in [1..n -> woken]
    BY <1>3 DEF Lists
  <2> DEFINE s == added[c]
  <2>2. s \in [1..n -> woken] /\ n \in Nat
    BY <2>1, <1>2, SMTT(30)
  <2> HIDE DEF s
  <2>3. s \in [1..n -> Slots] /\ DOMAIN s = 1..n /\ \A i \in 1..n : s[i] \in woken
    BY <2>2, <1>2
  <2>4. s \in Seq(Slots) /\ Len(s) = n
    BY <2>2, <2>3, SMTT(30)
  <2>5. QED
    BY <2>2, <2>3, <2>4 DEF s
<1>5. ASSUME NEW c \in ECores, NEW i \in 1..Len(added[c])
      PROVE  added[c][i] \in woken /\ added[c][i] \in Nat /\ place[added[c][i]] = c
  <2> added[c][i] \in woken /\ added[c][i] \in Nat
    <3>1. added[c][i] \in woken
      BY <1>4
    <3>2. QED
      BY <3>1, <1>2
  <2>1. added[c][i] \in Members(added[c])
    BY <1>4 DEF Members
  <2>2. QED
    BY <2>1, <1>1 DEF AddedInTurn
<1>6. ASSUME NEW c \in ECores, NEW i \in 1..Len(added[c]), NEW j \in 1..Len(added[c]),
             added[c][i] = added[c][j]
      PROVE  i = j
  <2>1. \A k, l \in 1..Len(added[c]) : k < l => Before(first, added[c][k], added[c][l])
    BY <1>1, <1>4 DEF AddedInTurn
  <2>2. added[c][i] \in Nat
    BY <1>5
  <2>3. ~Before(first, added[c][i], added[c][i])
    BY <2>2, SMTT(30) DEF Before
  <2>4. ~(i < j) /\ ~(j < i)
    BY <1>6, <2>1, <2>3
  <2>5. QED
    BY <2>4, <1>4, SMTT(30)
<1>7. ASSUME NEW p \in woken
      PROVE  \E c \in ECores : \E i \in 1..Len(added[c]) : added[c][i] = p
  <2>1. place[p] \in ECores /\ p \in Members(added[place[p]])
    BY <1>1 DEF AddedInTurn
  <2>2. QED
    BY <2>1, <1>4 DEF Members
<1>8. \A c \in CPUs : runq[c] \in Seq(Slots) /\ Len(runq[c]) \in Nat
  BY SMTT(30) DEF Queues
<1>9. ASSUME NEW c \in ECores
      PROVE  /\ runq'[c] \in Seq(Slots)
             /\ Len(runq'[c]) = Len(runq[c]) + Len(added[c])
             /\ \A i \in 1..Len(runq[c]) + Len(added[c]) :
                  runq'[c][i] = IF i <= Len(runq[c]) THEN runq[c][i]
                                                     ELSE added[c][i - Len(runq[c])]
  <2>1. c \in CPUs /\ runq'[c] = runq[c] \o added[c]
    BY <1>1, <1>2
  <2>2. QED
    BY <2>1, <1>4, <1>8, SMTT(30)
<1>10. \A c \in CPUs : c \notin ECores => runq'[c] = runq[c]
  BY <1>1
<1>11. runq' \in Queues
  BY <1>1, <1>8, <1>9, <1>10 DEF Queues
<1>12. ASSUME NEW c \in CPUs, NEW i \in 1..Len(runq[c])
       PROVE  i \in 1..Len(runq'[c]) /\ runq'[c][i] = runq[c][i]
  <2>1. CASE c \in ECores
    BY <2>1, <1>4, <1>8, <1>9, SMTT(30)
  <2>2. QED
    BY <2>1, <1>10
<1>13. ASSUME NEW c \in CPUs, NEW i \in 1..Len(runq'[c]), i \notin 1..Len(runq[c])
       PROVE  /\ c \in ECores /\ i - Len(runq[c]) \in 1..Len(added[c])
              /\ runq'[c][i] = added[c][i - Len(runq[c])] /\ runq'[c][i] \in woken
  <2>1. c \in ECores
    BY <1>10, <1>13
  <2>2. /\ i - Len(runq[c]) \in 1..Len(added[c])
        /\ runq'[c][i] = added[c][i - Len(runq[c])]
    <3>1. Len(runq[c]) \in Nat /\ Len(added[c]) \in Nat
      BY <2>1, <1>4, <1>8
    <3>2. i \in 1..Len(runq[c]) + Len(added[c]) /\ i > Len(runq[c])
      BY <2>1, <3>1, <1>9, <1>13, SMTT(30)
    <3>3. runq'[c][i] = added[c][i - Len(runq[c])]
      BY <2>1, <3>1, <3>2, <1>9, SMTT(30)
    <3>4. \A m, n \in Nat : \A x \in 1..m + n : x > m => x - m \in 1..n
      BY SMTT(30)
    <3>5. QED
      BY <3>1, <3>2, <3>3, <3>4
  <2>3. added[c][i - Len(runq[c])] \in woken
    BY <2>1, <2>2, <1>5
  <2>4. QED
    BY <2>1, <2>2, <2>3
<1>14. Distinct(runq')
  <2>1. SUFFICES ASSUME NEW d \in CPUs, NEW e \in CPUs, NEW i \in 1..Len(runq'[d]),
                        NEW j \in 1..Len(runq'[e]), runq'[d][i] = runq'[e][j]
                 PROVE  d = e /\ i = j
    BY DEF Distinct
  <2>2. CASE i \in 1..Len(runq[d]) /\ j \in 1..Len(runq[e])
    BY <1>12, <2>1, <2>2, SMTT(30) DEF Distinct
  <2>3. CASE i \notin 1..Len(runq[d]) /\ j \notin 1..Len(runq[e])
    <3>1. /\ d \in ECores /\ e \in ECores
          /\ i - Len(runq[d]) \in 1..Len(added[d]) /\ j - Len(runq[e]) \in 1..Len(added[e])
          /\ added[d][i - Len(runq[d])] = added[e][j - Len(runq[e])]
      BY <1>13, <2>1, <2>3
    <3>2. /\ place[added[d][i - Len(runq[d])]] = d
          /\ place[added[e][j - Len(runq[e])]] = e
      BY <1>5, <3>1
    <3>3. d = e
      BY <3>1, <3>2
    <3>4. i - Len(runq[d]) = j - Len(runq[d])
      BY <1>6, <3>1, <3>3
    <3>5. i \in Int /\ j \in Int /\ Len(runq[d]) \in Int
      BY <1>8, SMTT(30)
    <3>6. QED
      BY <3>3, <3>4, <3>5, SMTT(30)
  <2>4. CASE i \in 1..Len(runq[d]) /\ j \notin 1..Len(runq[e])
    <3>1. In(runq, runq[d][i])
      BY <2>4 DEF In
    <3>2. runq'[e][j] \in woken
      BY <1>13, <2>4
    <3>3. QED
      BY <1>12, <2>1, <2>4, <3>1, <3>2 DEF woken
  <2>5. CASE i \notin 1..Len(runq[d]) /\ j \in 1..Len(runq[e])
    <3>1. In(runq, runq[e][j])
      BY <2>5 DEF In
    <3>2. runq'[d][i] \in woken
      BY <1>13, <2>5
    <3>3. QED
      BY <1>12, <2>1, <2>5, <3>1, <3>2 DEF woken
  <2>6. QED
    BY <2>2, <2>3, <2>4, <2>5
<1>15. ASSUME NEW q \in Slots PROVE In(runq', q) <=> (In(runq, q) \/ q \in woken)
  <2>1. In(runq', q) => (In(runq, q) \/ q \in woken)
    <3>1. SUFFICES ASSUME NEW c \in CPUs, NEW i \in 1..Len(runq'[c]), runq'[c][i] = q
                   PROVE  In(runq, q) \/ q \in woken
      BY DEF In
    <3>2. CASE i \in 1..Len(runq[c])
      BY <3>1, <3>2, <1>12 DEF In
    <3>3. CASE i \notin 1..Len(runq[c])
      BY <3>1, <3>3, <1>13
    <3>4. QED
      BY <3>2, <3>3
  <2>2. In(runq, q) => In(runq', q)
    BY <1>12 DEF In
  <2>3. ASSUME q \in woken PROVE In(runq', q)
    <3>1. PICK c \in ECores : \E i \in 1..Len(added[c]) : added[c][i] = q
      BY <1>7, <2>3
    <3> PICK i \in 1..Len(added[c]) : added[c][i] = q
      BY <3>1
    <3>2. c \in CPUs /\ Len(runq[c]) + i \in 1..Len(runq'[c])
      BY <1>2, <1>4, <1>8, <1>9, SMTT(30)
    <3>3. runq'[c][Len(runq[c]) + i] = q
      <4>1. /\ Len(runq[c]) \in Nat /\ Len(added[c]) \in Nat
            /\ (Len(runq[c]) + i) - Len(runq[c]) = i /\ ~(Len(runq[c]) + i <= Len(runq[c]))
            /\ Len(runq[c]) + i \in 1..Len(runq[c]) + Len(added[c])
        BY <1>2, <1>4, <1>8, SMTT(30)
      <4>2. QED
        BY <4>1, <1>9
    <3>4. QED
      BY <3>2, <3>3 DEF In
  <2>4. QED
    BY <2>1, <2>2, <2>3
<1>16. ASSUME NEW c \in CPUs PROVE queue_count'[c] \in Int /\ queue_count'[c] = Len(runq'[c])
  <2>1. queue_count[c] = Len(runq[c])
    BY DEF CountsRight
  <2>2. CASE c \in ECores
    <3>1. queue_count'[c] = queue_count[c] + Len(added[c])
      BY <2>2, <1>1
    <3>2. Len(added[c]) \in Nat /\ Len(runq[c]) \in Nat
      BY <2>2, <1>4, <1>8
    <3>3. QED
      BY <2>1, <2>2, <3>1, <3>2, <1>9, SMTT(30)
  <2>3. CASE c \notin ECores
    BY <2>1, <2>3, <1>1, <1>8, <1>10
  <2>4. QED
    BY <2>2, <2>3
<1>17. queue_count' \in [CPUs -> Int] /\ CountsRight'
  <2>1. queue_count' = [c \in CPUs |-> queue_count'[c]]
    BY <1>1
  <2>2. QED
    BY <1>16, <2>1 DEF CountsRight
<1>18. QED
  BY <1>11, <1>14, <1>15, <1>17 DEF woken

\* What enqueue() does to the queues and the counts.
LEMMA EnqueueStep ==
  ASSUME NEW c \in CPUs, NEW p \in Slots,
         runq \in Queues, queue_count \in [CPUs -> Int],
         Distinct(runq), CountsRight, ~In(runq, p), enqueue(c, p)
  PROVE  /\ runq' \in Queues /\ Distinct(runq')
         /\ \A q \in Slots : In(runq', q) <=> (In(runq, q) \/ q = p)
         /\ queue_count' \in [CPUs -> Int] /\ CountsRight'
<1>1. /\ runq' = Appended(runq, c, p)
      /\ queue_count' = [queue_count EXCEPT ![c] = @ + 1]
  BY DEF enqueue, Appended
<1>2. /\ runq' \in Queues /\ Distinct(runq')
      /\ \A q \in Slots : In(runq', q) <=> (In(runq, q) \/ q = p)
      /\ \A d \in CPUs : Len(runq'[d]) = IF d = c THEN Len(runq[d]) + 1 ELSE Len(runq[d])
  BY <1>1, EnqueueOne, SMTT(30)
<1>3. queue_count' \in [CPUs -> Int]
  BY <1>1, SMTT(30)
<1>4. CountsRight'
  BY <1>1, <1>2 DEF CountsRight
<1>5. QED
  BY <1>2, <1>3, <1>4

\* QueuesDisjoint, CountsRight and RunnableQueued in the terms of the queues above.
QueueInv ==
  /\ runq \in Queues /\ Distinct(runq)
  /\ \A p \in Slots : In(runq, p) => state[p] = "RUNNABLE"
  /\ \A p \in Slots : (state[p] = "RUNNABLE" /\ ~killed[p]) => In(runq, p)
  /\ queue_count \in [CPUs -> Int] /\ CountsRight

\* The inductive invariant: none of its parts is inductive by itself.
IInv == /\ TypeOK /\ QueueInv /\ RunsOnOneCpu /\ EmbryoOwned /\ PidsUnique
        /\ ParentAlive /\ NoMissedExit /\ LifeCycle /\ InitAlive

\* Slot numbers and the null pointer.
LEMMA SlotFacts ==
  /\ initproc \in Slots /\ 0 \notin Slots /\ 0 \in 0..NPROC
  /\ \A q \in 0..NPROC : q # 0 => q \in Slots
  /\ \A q \in Slots : q # 0 /\ q \in 0..NPROC
BY ProcAssumption, SMTT(30) DEF Slots, initproc

\* A process on a CPU that moves on to another place in the kernel, where it
\* neither forks nor waits, or back to user code, and may get processes killed.
LEMMA ContextMove ==
  ASSUME IInv, NEW c \in CPUs, NEW p \in Slots, cpu_proc[c] = p, ctx[p] # "fork",
         NEW x \in {"user", "kern", "ret", "exit", "panic"}, x = "exit" => p # initproc,
         ctx' = [ctx EXCEPT ![p] = x],
         killed' \in [Slots -> BOOLEAN], \A q \in Slots : killed[q] => killed'[q],
         metrics_active' \in BOOLEAN, metrics_start_tick' \in Nat,
         metrics_proc_completed' \in Nat,
         UNCHANGED <<state, chan, slice_ticks, cpu_proc, timer0, ticks, nextpid,
                     procVars, queueVars, etime>>
  PROVE  IInv'
<1> USE DEF IInv, procVars, queueVars, TypeOK
<1>1. TypeOK'
  BY ZenonT(60) DEF Contexts
<1>2. QueueInv'
  BY SMTT(30) DEF QueueInv, CountsRight
<1>3. RunsOnOneCpu'
  BY DEF RunsOnOneCpu
<1>4. EmbryoOwned'
  BY ZenonT(60) DEF EmbryoOwned
<1>5. PidsUnique' /\ ParentAlive'
  BY ZenonT(60) DEF PidsUnique, ParentAlive
<1>6. state[p] = "RUNNING"
  BY SlotFacts DEF RunsOnOneCpu
<1>7. NoMissedExit'
  BY <1>6 DEF NoMissedExit
<1>8. LifeCycle'
  BY <1>6, SMTT(30) DEF LifeCycle
<1>9. InitAlive'
  BY SlotFacts DEF InitAlive
<1>10. QED
  BY <1>1, <1>2, <1>3, <1>4, <1>5, <1>7, <1>8, <1>9, ZenonT(60)

LEMMA ForkAllocStep ==
  ASSUME IInv, NEW c \in CPUs, NEW p \in Slots, ForkAlloc(c, p)
  PROVE  IInv'
<1> USE DEF IInv, queueVars, metricVars, TypeOK, At
<1>1. CASE \A q \in Slots : state[q] # "UNUSED"
  <2>1. ctx' = [ctx EXCEPT ![p] = "ret"] /\ UNCHANGED <<state, chan, killed, slice_ticks,
          cpu_proc, timer0, ticks, nextpid, procVars, queueVars, metricVars>>
    BY <1>1 DEF ForkAlloc, FirstUnused, procVars
  <2>2. cpu_proc[c] = p /\ ctx[p] # "fork"
    BY DEF ForkAlloc
  <2>3. QED
    BY <2>1, <2>2, ContextMove, ZenonT(60)
<1>2. CASE \E q \in Slots : state[q] = "UNUSED"
  <2>1. PICK n \in Slots :
          /\ state[n] = "UNUSED"
          /\ state' = [state EXCEPT ![n] = "EMBRYO"]
          /\ pid' = [pid EXCEPT ![n] = nextpid]
          /\ nextpid' = nextpid + 1
          /\ ctime' = [ctime EXCEPT ![n] = ticks]
          /\ etime' = [etime EXCEPT ![n] = 0]
          /\ slice_ticks' = [slice_ticks EXCEPT ![n] = 0]
          /\ np' = [np EXCEPT ![p] = n]
          /\ ctx' = [ctx EXCEPT ![p] = "fork"]
    BY <1>2, ZenonT(60) DEF ForkAlloc, FirstUnused, NextPid
  <2>2. UNCHANGED <<parent, chan, killed, cpu_proc, timer0, ticks, runq, queue_count,
                    metrics_active, metrics_start_tick, metrics_proc_completed>>
    BY DEF ForkAlloc
  <2>3. cpu_proc[c] = p /\ ctx[p] = "kern" /\ state[p] = "RUNNING"
    BY SlotFacts DEF ForkAlloc, RunsOnOneCpu
  <2>4. TypeOK'
    <3>1. /\ state' \in [Slots -> States] /\ ctx' \in [Slots -> Contexts]
          /\ np' \in [Slots -> 0..NPROC]
      BY SlotFacts, <2>1, ZenonT(60) DEF States, Contexts
    <3>2. /\ pid' \in [Slots -> Nat] /\ nextpid' \in Nat /\ ctime' \in [Slots -> Nat]
          /\ slice_ticks' \in [Slots -> Nat] /\ etime' \in [Slots -> Nat]
      <4>1. /\ pid \in [Slots -> Nat] /\ nextpid \in Nat /\ ctime \in [Slots -> Nat]
            /\ slice_ticks \in [Slots -> Nat] /\ etime \in [Slots -> Nat] /\ ticks \in Nat
        BY SMTT(30)
      <4> HIDE DEF TypeOK, IInv
      <4>2. QED
        BY <2>1, <4>1, SMTT(30)
    <3>3. QED
      BY <2>2, <3>1, <3>2, ZenonT(60)
  <2>5. QueueInv'
    BY <2>1, <2>2, SMTT(30) DEF QueueInv, CountsRight
  <2>6. RunsOnOneCpu'
    BY SlotFacts, <2>1, <2>2, ZenonT(60) DEF RunsOnOneCpu
  <2>7. EmbryoOwned'
    <3>1. ASSUME NEW q \in Slots, q # p, ctx[q] = "fork"
          PROVE  np[q] \in Slots /\ np[q] # n /\ state[np[q]] = "EMBRYO"
      BY SlotFacts, <2>1, <3>1, ZenonT(60) DEF EmbryoOwned
    <3>2. \A q \in Slots : q # p => ctx'[q] = ctx[q] /\ np'[q] = np[q]
      BY <2>1
    <3>3. /\ np'[p] = n /\ n # 0 /\ state'[n] = "EMBRYO"
          /\ \A q \in Slots : q # n => state'[q] = state[q]
      BY SlotFacts, <2>1
    <3>4. ASSUME NEW q \in Slots, ctx'[q] = "fork"
          PROVE  np'[q] # 0 /\ state'[np'[q]] = "EMBRYO"
      <4>1. CASE q = p
        BY <3>3, <4>1
      <4>2. CASE q # p
        <5>1. np'[q] = np[q] /\ np[q] \in Slots /\ np[q] # n /\ state[np[q]] = "EMBRYO"
          BY <3>1, <3>2, <3>4, <4>2, ZenonT(60)
        <5>2. QED
          BY SlotFacts, <5>1, <3>3, ZenonT(60)
      <4>3. QED
        BY <4>1, <4>2
    <3>5. ASSUME NEW q \in Slots, NEW k \in Slots, ctx'[q] = "fork", ctx'[k] = "fork",
                 np'[q] = np'[k]
          PROVE  q = k
      <4>1. CASE q # p /\ k # p
        BY <3>2, <3>5, <4>1, ZenonT(60) DEF EmbryoOwned
      <4>2. CASE q = p /\ k # p
        BY <3>1, <3>2, <3>3, <3>5, <4>2, ZenonT(60)
      <4>3. CASE q # p /\ k = p
        BY <3>1, <3>2, <3>3, <3>5, <4>3, ZenonT(60)
      <4>4. QED
        BY <4>1, <4>2, <4>3, ZenonT(60)
    <3>6. QED
      BY <3>4, <3>5, ZenonT(60) DEF EmbryoOwned
  <2>8. PidsUnique'
    <3>1. /\ n # initproc /\ nextpid \in Nat /\ nextpid' = nextpid + 1 /\ pid'[n] = nextpid
          /\ \A q \in Slots : pid[q] \in Nat /\ (q # n => pid'[q] = pid[q])
      BY SlotFacts, <2>1, ZenonT(60) DEF InitAlive
    <3>2. \A q \in Slots : pid[q] < nextpid /\ pid[q] # nextpid
      BY SMTT(30) DEF PidsUnique
    <3>3. ASSUME NEW q \in Slots PROVE pid'[q] < nextpid'
      <4>1. CASE q = n
        BY <3>1, <4>1, SMTT(30)
      <4>2. CASE q # n
        <5>1. pid'[q] = pid[q] /\ pid[q] \in Nat /\ pid[q] < nextpid
          BY <3>1, <3>2, <4>2
        <5>2. nextpid \in Nat /\ nextpid' = nextpid + 1
          BY <3>1
        <5>3. QED
          BY <5>1, <5>2, SMTT(30)
      <4>3. QED
        BY <4>1, <4>2
    <3>4. ASSUME NEW q \in Slots, NEW k \in Slots, q # k, pid'[q] = pid'[k]
          PROVE  pid'[q] = 0
      <4>1. q # n /\ k # n
        <5>1. CASE q = n
          BY <3>1, <3>2, <3>4, <5>1, ZenonT(60)
        <5>2. CASE k = n
          BY <3>1, <3>2, <3>4, <5>2, ZenonT(60)
        <5>3. QED
          BY <5>1, <5>2
      <4>2. QED
        BY <3>1, <3>4, <4>1, ZenonT(60) DEF PidsUnique
    <3>5. pid'[initproc] = 1
      BY SlotFacts, <3>1, ZenonT(60) DEF PidsUnique
    <3>6. QED
      BY <3>3, <3>4, <3>5, ZenonT(60) DEF PidsUnique
  <2>9. ParentAlive'
    BY SlotFacts, <2>1, <2>2, ZenonT(60) DEF ParentAlive
  <2>10. NoMissedExit'
    BY <2>1, <2>2, <2>3 DEF NoMissedExit
  <2>11. LifeCycle'
    BY <2>1, <2>2, <2>3, ZenonT(60) DEF LifeCycle
  <2>12. InitAlive'
    BY SlotFacts, <2>1, <2>2, ZenonT(60) DEF InitAlive
  <2>13. QED
    BY <2>4, <2>5, <2>6, <2>7, <2>8, <2>9, <2>10, <2>11, <2>12, ZenonT(60)
<1>3. QED
  BY <1>1, <1>2, ZenonT(60)

LEMMA ForkFailStep ==
  ASSUME IInv, NEW c \in CPUs, NEW p \in Slots, ForkFail(c, p)
  PROVE  IInv'
<1> USE DEF IInv, queueVars, metricVars, TypeOK, At
<1>1. cpu_proc[c] = p /\ ctx[p] = "fork" /\ state[p] = "RUNNING"
  BY SlotFacts DEF ForkFail, RunsOnOneCpu
<1>2. np[p] \in Slots /\ state[np[p]] = "EMBRYO"
  BY SlotFacts, <1>1, SMTT(30) DEF EmbryoOwned
<1>3. /\ state' = [state EXCEPT ![np[p]] = "UNUSED"]
      /\ np' = [np EXCEPT ![p] = 0]
      /\ ctx' = [ctx EXCEPT ![p] = "ret"]
      /\ UNCHANGED <<pid, parent, chan, killed, ctime, slice_ticks, cpu_proc, timer0,
                     ticks, nextpid, runq, queue_count, etime, metrics_active,
                     metrics_start_tick, metrics_proc_completed>>
  BY DEF ForkFail
<1>4. TypeOK'
  BY SlotFacts, <1>2, <1>3, ZenonT(60) DEF States, Contexts
<1>5. QueueInv'
  BY <1>2, <1>3, SMTT(30) DEF QueueInv, CountsRight
<1>6. RunsOnOneCpu'
  BY SlotFacts, <1>2, <1>3, ZenonT(60) DEF RunsOnOneCpu
<1>7. EmbryoOwned'
  BY SlotFacts, <1>1, <1>2, <1>3, ZenonT(60) DEF EmbryoOwned
<1>8. PidsUnique'
  BY <1>3, ZenonT(60) DEF PidsUnique
<1>9. ParentAlive'
  BY SlotFacts, <1>2, <1>3, ZenonT(60) DEF ParentAlive
<1>10. NoMissedExit'
  BY <1>1, <1>2, <1>3, SMTT(30) DEF NoMissedExit
<1>11. LifeCycle'
  <2>1. ASSUME NEW q \in Slots
        PROVE  /\ ctx'[q] = IF q = p THEN "ret" ELSE ctx[q]
               /\ state'[q] = IF q = np[p] THEN "UNUSED" ELSE state[q]
    BY <1>3
  <2>2. ctx[np[p]] = "user" /\ parent[np[p]] = 0 /\ np[p] # p
    BY <1>1, <1>2, ZenonT(60) DEF LifeCycle
  <2>3. LifeCycle
    OBVIOUS
  <2> HIDE DEF TypeOK, IInv
  <2>4. QED
    BY <1>1, <1>2, <1>3, <2>1, <2>2, <2>3, SMTT(30) DEF LifeCycle
<1>12. InitAlive'
  BY SlotFacts, <1>2, <1>3, SMTT(30) DEF InitAlive
<1>13. QED
  BY <1>4, <1>5, <1>6, <1>7, <1>8, <1>9, <1>10, <1>11, <1>12, ZenonT(60)

LEMMA ForkDoneStep ==
  ASSUME IInv, NEW c \in CPUs, NEW p \in Slots, ForkDone(c, p)
  PROVE  IInv'
<1> USE DEF IInv, queueVars, metricVars, TypeOK, At
<1>1. cpu_proc[c] = p /\ ctx[p] = "fork" /\ state[p] = "RUNNING"
  BY SlotFacts DEF ForkDone, RunsOnOneCpu
<1> DEFINE n == np[p]
<1>2. n \in Slots /\ state[n] = "EMBRYO" /\ ctx[n] = "user" /\ n # p
  BY SlotFacts, <1>1, ZenonT(60) DEF EmbryoOwned, LifeCycle
<1>3. /\ parent' = [parent EXCEPT ![n] = p]
      /\ state' = [state EXCEPT ![n] = "RUNNABLE"]
      /\ np' = [np EXCEPT ![p] = 0]
      /\ ctx' = [ctx EXCEPT ![p] = "ret", ![n] = "user"]
      /\ UNCHANGED <<pid, chan, killed, ctime, slice_ticks, cpu_proc, timer0, ticks,
                     nextpid, etime, metrics_active, metrics_start_tick,
                     metrics_proc_completed>>
  BY DEF ForkDone
<1>4. PICK e \in CPUs : enqueue(e, n)
  BY DEF ForkDone
<1> HIDE DEF n
<1>5. ~In(runq, n)
  BY <1>2 DEF QueueInv
<1>6. /\ runq' \in Queues /\ Distinct(runq')
      /\ \A q \in Slots : In(runq', q) <=> (In(runq, q) \/ q = n)
      /\ queue_count' \in [CPUs -> Int] /\ CountsRight'
  BY <1>2, <1>4, <1>5, EnqueueStep, ZenonT(60) DEF QueueInv
<1>8. TypeOK'
  BY SlotFacts, <1>2, <1>3, <1>6, ZenonT(60) DEF States, Contexts, Queues
<1>9. QueueInv'
  BY <1>2, <1>3, <1>6, ZenonT(60) DEF QueueInv
<1>10. RunsOnOneCpu'
  BY SlotFacts, <1>2, <1>3, ZenonT(60) DEF RunsOnOneCpu
<1>11. EmbryoOwned'
  BY SlotFacts, <1>1, <1>2, <1>3, ZenonT(60) DEF EmbryoOwned, n
<1>12. PidsUnique'
  BY <1>3, ZenonT(60) DEF PidsUnique
<1>13. ParentAlive'
  BY SlotFacts, <1>1, <1>2, <1>3, ZenonT(60) DEF ParentAlive
<1>14. NoMissedExit'
  BY <1>1, <1>2, <1>3, SMTT(30) DEF NoMissedExit
<1>15. LifeCycle'
  BY <1>1, <1>2, <1>3, ZenonT(60) DEF LifeCycle
<1>16. InitAlive'
  BY SlotFacts, <1>1, <1>2, <1>3, ZenonT(60) DEF InitAlive
<1>17. QED
  BY <1>8, <1>9, <1>10, <1>11, <1>12, <1>13, <1>14, <1>15, <1>16, ZenonT(60)

LEMMA SleepStep ==
  ASSUME IInv, NEW c \in CPUs, NEW p \in Slots, NEW ch \in Chans \cup {p}, Sleep(c, p, ch)
  PROVE  IInv'
<1> USE DEF IInv, TypeOK, metricVars
<1>1. /\ cpu_proc[c] = p /\ ctx[p] \in {"kern", "exit"}
      /\ state' = [state EXCEPT ![p] = "SLEEPING"]
      /\ chan' = [chan EXCEPT ![p] = ch]
      /\ cpu_proc' = [cpu_proc EXCEPT ![c] = 0]
      /\ UNCHANGED <<killed, slice_ticks, ctx, timer0, ticks, nextpid, pid, parent, ctime,
                     np, runq, queue_count, metricVars>>
  BY DEF Sleep, At, procVars, queueVars
<1>2. state[p] = "RUNNING"
  BY SlotFacts, <1>1 DEF RunsOnOneCpu
<1>3. TypeOK'
  BY SlotFacts, <1>1, ZenonT(60) DEF States
<1>4. QueueInv'
  BY <1>1, <1>2 DEF QueueInv, CountsRight
<1>5. RunsOnOneCpu'
  BY SlotFacts, <1>1, <1>2, ZenonT(60) DEF RunsOnOneCpu
<1>6. EmbryoOwned'
  BY SlotFacts, <1>1, <1>2, ZenonT(60) DEF EmbryoOwned
<1>7. PidsUnique'
  BY <1>1, ZenonT(60) DEF PidsUnique
<1>8. ParentAlive'
  BY SlotFacts, <1>1, <1>2, ZenonT(60) DEF ParentAlive
<1>9. NoMissedExit'
  BY <1>1, <1>2 DEF NoMissedExit
<1>10. LifeCycle'
  BY <1>1, <1>2, SMTT(30) DEF LifeCycle
<1>11. InitAlive'
  BY SlotFacts, <1>1 DEF InitAlive
<1>12. QED
  BY <1>3, <1>4, <1>5, <1>6, <1>7, <1>8, <1>9, <1>10, <1>11, ZenonT(60)

LEMMA WakeStep ==
  ASSUME IInv, NEW ch, wakeup1(ch), timer0' \in BOOLEAN, ticks' \in Nat,
         UNCHANGED <<chan, killed, slice_ticks, ctx, cpu_proc, nextpid, procVars, metricVars>>
  PROVE  IInv'
<1> USE DEF IInv, TypeOK, procVars, metricVars
<1> DEFINE woken == SleepersOn(ch)
<1>1. /\ woken \subseteq Slots /\ \A q \in woken : state[q] = "SLEEPING"
      /\ state' = [q \in Slots |-> IF q \in woken THEN "RUNNABLE" ELSE state[q]]
      /\ EnqueueWoken(woken, {})
  BY DEF wakeup1, SleepersOn
<1> HIDE DEF woken
<1>2. \A q \in woken \cup {} : ~In(runq, q)
  BY <1>1 DEF QueueInv
<1>3. /\ runq' \in Queues /\ Distinct(runq')
      /\ \A q \in Slots : In(runq', q) <=> (In(runq, q) \/ q \in woken \cup {})
      /\ queue_count' \in [CPUs -> Int] /\ CountsRight'
  BY <1>1, <1>2, EnqueueMany, ZenonT(60) DEF QueueInv
<1>4. TypeOK'
  BY <1>1, <1>3 DEF States, Queues
<1>5. QueueInv'
  BY <1>1, <1>3 DEF QueueInv
<1>6. RunsOnOneCpu'
  BY SlotFacts, <1>1, ZenonT(60) DEF RunsOnOneCpu
<1>7. EmbryoOwned'
  BY SlotFacts, <1>1 DEF EmbryoOwned
<1>8. PidsUnique'
  BY <1>1 DEF PidsUnique
<1>9. ParentAlive'
  BY SlotFacts, <1>1, SMTT(30) DEF ParentAlive
<1>10. NoMissedExit'
  BY <1>1 DEF NoMissedExit
<1>11. LifeCycle'
  BY <1>1 DEF LifeCycle
<1>12. InitAlive'
  BY SlotFacts, <1>1 DEF InitAlive
<1>13. QED
  BY <1>4, <1>5, <1>6, <1>7, <1>8, <1>9, <1>10, <1>11, <1>12

LEMMA KillStep ==
  ASSUME IInv, NEW c \in CPUs, NEW p \in Slots, NEW target, Kill(c, p, target)
  PROVE  IInv'
<1> USE DEF IInv, TypeOK
<1>1. /\ cpu_proc[c] = p /\ ctx[p] = "kern" /\ ctx' = [ctx EXCEPT ![p] = "ret"]
      /\ UNCHANGED <<chan, slice_ticks, cpu_proc, timer0, ticks, nextpid, pid, parent, ctime,
                     np, runq, queue_count, metricVars>>
  BY DEF Kill, At, procVars, queueVars
<1>2. state[p] = "RUNNING"
  BY SlotFacts, <1>1 DEF RunsOnOneCpu
<1>c. \/ UNCHANGED <<killed, state>>
      \/ \E q \in Slots :
           /\ killed' = [killed EXCEPT ![q] = TRUE]
           /\ state' = [state EXCEPT ![q] = IF @ = "SLEEPING" THEN "RUNNABLE" ELSE @]
  BY DEF Kill
<1>3. /\ killed' \in [Slots -> BOOLEAN] /\ state' \in [Slots -> States]
      /\ \A q \in Slots : /\ killed[q] => killed'[q]
                          /\ \/ state'[q] = state[q]
                             \/ state[q] = "SLEEPING" /\ state'[q] = "RUNNABLE" /\ killed'[q]
  BY <1>c, ZenonT(60) DEF States
<1>a. ASSUME NEW q \in Slots
      PROVE  /\ state'[q] = "RUNNING" <=> state[q] = "RUNNING"
             /\ state'[q] = "EMBRYO" <=> state[q] = "EMBRYO"
             /\ state'[q] = "ZOMBIE" <=> state[q] = "ZOMBIE"
             /\ state'[q] = "SLEEPING" => state[q] = "SLEEPING"
  BY <1>c, ZenonT(60)
<1>b. /\ ctx'[p] = "ret"
      /\ \A q \in Slots : q # p => ctx'[q] = ctx[q]
  BY <1>1
<1>4. TypeOK'
  BY <1>1, <1>3, ZenonT(60) DEF Contexts, metricVars
<1>5. QueueInv'
  BY <1>1, <1>3, SMTT(30) DEF QueueInv, CountsRight
<1>6. RunsOnOneCpu'
  <2>1. \A d \in CPUs : cpu_proc[d] # 0 => cpu_proc[d] \in Slots
    BY SlotFacts, ZenonT(60)
  <2> HIDE DEF TypeOK
  <2>2. QED
    BY <2>1, <1>1, <1>a, SMTT(30) DEF RunsOnOneCpu
<1>7. EmbryoOwned'
  <2>1. \A q \in Slots : np[q] # 0 => np[q] \in Slots
    BY SlotFacts, ZenonT(60)
  <2> HIDE DEF TypeOK
  <2>2. QED
    BY <2>1, <1>1, <1>a, <1>b, SMTT(30) DEF EmbryoOwned
<1>8. PidsUnique'
  BY <1>1, ZenonT(60) DEF PidsUnique
<1>9. ParentAlive'
  BY SlotFacts, <1>1, <1>3, ZenonT(60) DEF ParentAlive
<1>10. NoMissedExit'
  BY <1>1, <1>a, <1>b, ZenonT(60) DEF NoMissedExit
<1>11. LifeCycle'
  BY <1>1, <1>2, <1>3, SMTT(30) DEF LifeCycle
<1>12. InitAlive'
  BY SlotFacts, <1>1, <1>3 DEF InitAlive
<1>13. QED
  BY <1>4, <1>5, <1>6, <1>7, <1>8, <1>9, <1>10, <1>11, <1>12, ZenonT(60)

LEMMA ExitStep ==
  ASSUME IInv, NEW c \in CPUs, NEW p \in Slots, Exit(c, p)
  PROVE  IInv'
<1> USE DEF IInv, TypeOK
<1> DEFINE first  == SleepersOn(parent[p])
           second == InitWoken(p)
<1>1. /\ cpu_proc[c] = p /\ ctx[p] = "exit"
      /\ state' = [q \in Slots |-> IF q = p THEN "ZOMBIE"
                                   ELSE IF q \in first \cup second THEN "RUNNABLE"
                                   ELSE state[q]]
      /\ EnqueueWoken(first, second)
      /\ parent' = [k \in Slots |-> IF parent[k] = p THEN initproc ELSE parent[k]]
      /\ ctx' = [ctx EXCEPT ![p] = "user"]
      /\ cpu_proc' = [cpu_proc EXCEPT ![c] = 0]
      /\ etime' = [etime EXCEPT ![p] = ticks]
      /\ metrics_proc_completed' = Completed
      /\ UNCHANGED <<pid, chan, killed, ctime, slice_ticks, np, timer0, ticks, nextpid,
                     metrics_active, metrics_start_tick>>
  BY DEF Exit, At, Reparented
<1>2. state[p] = "RUNNING" /\ p # initproc /\ parent[p] \in Slots
  BY SlotFacts, <1>1, ZenonT(60) DEF RunsOnOneCpu, InitAlive, ParentAlive
<1>3. /\ first \in SUBSET Slots /\ second \in SUBSET Slots
      /\ \A q \in first \cup second : state[q] = "SLEEPING"
  BY DEF SleepersOn, InitWoken
<1>4. /\ \A q \in Slots : (state[q] = "SLEEPING" /\ chan[q] = parent[p]) => q \in first
      /\ \A k \in Slots : (parent[k] = p /\ state[k] = "ZOMBIE") =>
           ((state[initproc] = "SLEEPING" /\ chan[initproc] = initproc) => initproc \in second)
  BY SlotFacts DEF SleepersOn, InitWoken
<1>5. \A k \in Slots : parent'[k] = IF parent[k] = p THEN initproc ELSE parent[k]
  BY <1>1
<1> HIDE DEF first, second
<1>6. \A q \in Slots :
        /\ q = p => state'[q] = "ZOMBIE"
        /\ (q # p /\ q \in first \cup second) => state'[q] = "RUNNABLE"
        /\ (q # p /\ q \notin first \cup second) => state'[q] = state[q]
  BY <1>1
<1>a. ASSUME NEW q \in Slots
      PROVE  /\ state'[q] = "RUNNING" <=> (state[q] = "RUNNING" /\ q # p)
             /\ state'[q] = "EMBRYO" <=> state[q] = "EMBRYO"
             /\ state'[q] = "UNUSED" <=> state[q] = "UNUSED"
             /\ state'[q] = "ZOMBIE" <=> (state[q] = "ZOMBIE" \/ q = p)
             /\ state'[q] = "SLEEPING" => state[q] = "SLEEPING"
             /\ ctx'[q] = IF q = p THEN "user" ELSE ctx[q]
  BY <1>1, <1>2, <1>3, <1>6, ZenonT(60)
<1>b. /\ \A d \in CPUs : cpu_proc[d] # 0 => cpu_proc[d] \in Slots
      /\ \A q \in Slots : np[q] # 0 => np[q] \in Slots
      /\ \A q \in Slots : parent[q] # 0 => parent[q] \in Slots
      /\ \A d \in CPUs : cpu_proc'[d] = IF d = c THEN 0 ELSE cpu_proc[d]
      /\ \A q \in Slots : state[q] \in States /\ state'[q] \in States
  BY SlotFacts, <1>1, ZenonT(60) DEF States
<1>7. \A q \in first \cup second : ~In(runq, q)
  BY <1>3 DEF QueueInv
<1>8. /\ runq' \in Queues /\ Distinct(runq')
      /\ \A q \in Slots : In(runq', q) <=> (In(runq, q) \/ q \in first \cup second)
      /\ queue_count' \in [CPUs -> Int] /\ CountsRight'
  BY <1>1, <1>3, <1>7, EnqueueMany, ZenonT(60) DEF QueueInv
<1>9. TypeOK'
  <2>1. metrics_proc_completed' \in Nat /\ etime' \in [Slots -> Nat]
    BY <1>1, SMTT(30) DEF Completed
  <2>2. state' \in [Slots -> States] /\ parent' \in [Slots -> 0..NPROC]
    BY SlotFacts, <1>1, ZenonT(60) DEF States
  <2>3. QED
    BY SlotFacts, <1>1, <1>8, <2>1, <2>2, ZenonT(60) DEF Contexts, Queues
<1>10. QueueInv'
  BY <1>1, <1>2, <1>3, <1>6, <1>8, ZenonT(60) DEF QueueInv
<1>11. RunsOnOneCpu'
  <2> HIDE DEF TypeOK
  <2>1. QED
    BY SlotFacts, <1>1, <1>a, <1>b, SMTT(30) DEF RunsOnOneCpu
<1>12. EmbryoOwned'
  <2> HIDE DEF TypeOK
  <2>1. QED
    BY SlotFacts, <1>1, <1>2, <1>a, <1>b, SMTT(30) DEF EmbryoOwned
<1>13. PidsUnique'
  BY <1>1, ZenonT(60) DEF PidsUnique
<1>14. InitAlive'
  BY SlotFacts, <1>1, <1>2, <1>5, <1>6, SMTT(30) DEF InitAlive
<1>15. ParentAlive'
  <2> HIDE DEF TypeOK
  <2>1. QED
    BY SlotFacts, <1>2, <1>5, <1>a, <1>b, <1>14, SMTT(30) DEF ParentAlive, InitAlive
<1>16. NoMissedExit'
  <2> SUFFICES ASSUME NEW q \in Slots, NEW k \in Slots,
                      state'[q] = "SLEEPING", ctx'[q] = "wait", parent'[k] = q,
                      state'[k] = "ZOMBIE"
               PROVE  FALSE
    BY ZenonT(60) DEF NoMissedExit
  <2>1. /\ q # p /\ q \notin first \cup second /\ state[q] = "SLEEPING"
        /\ ctx[q] = "wait" /\ chan[q] = q
    BY <1>1, <1>6, SMTT(30) DEF LifeCycle
  <2>2. CASE k = p
    BY <2>1, <2>2, <1>4, <1>5, SMTT(30) DEF LifeCycle
  <2>3. CASE k # p /\ parent[k] = p
    BY <2>1, <2>3, <1>4, <1>5, <1>6, ZenonT(60)
  <2>4. CASE k # p /\ parent[k] # p
    BY <2>1, <2>4, <1>5, <1>6, ZenonT(60) DEF NoMissedExit
  <2>5. QED
    BY <2>2, <2>3, <2>4
<1>17. LifeCycle'
  <2> HIDE DEF TypeOK
  <2>1. QED
    BY SlotFacts, <1>1, <1>2, <1>5, <1>a, <1>b, SMTT(30) DEF LifeCycle, InitAlive, States
<1>18. QED
  BY <1>9, <1>10, <1>11, <1>12, <1>13, <1>14, <1>15, <1>16, <1>17, ZenonT(60)

\* Process p runs on CPU c until it is in context x, where it has reaped the
\* zombies `reaped` and goes on running, or falls asleep in wait().
RunsUntil(c, p, reaped, x, s) ==
  /\ \A k \in reaped : state[k] = "ZOMBIE"
  /\ \/ s = "RUNNING" /\ x = ctx[p] /\ x # "wait"
     \/ s = "RUNNING" /\ x = "ret" /\ ctx[p] # "fork"
     \/ /\ s = "SLEEPING" /\ x = "wait" /\ chan'[p] = p /\ ctx[p] # "fork"
        /\ \A k \in Slots : parent[k] = p => state[k] # "ZOMBIE"
  /\ state' = [q \in Slots |-> IF q \in reaped THEN "UNUSED" ELSE
                               IF q = p THEN s ELSE state[q]]
  /\ pid' = [q \in Slots |-> IF q \in reaped THEN 0 ELSE pid[q]]
  /\ parent' = [q \in Slots |-> IF q \in reaped THEN 0 ELSE parent[q]]
  /\ killed' = [q \in Slots |-> IF q \in reaped THEN FALSE ELSE killed[q]]
  /\ ctx' = [ctx EXCEPT ![p] = x]
  /\ chan' \in [Slots -> Chans \cup (0..NPROC)]
  /\ \A q \in Slots : q # p => chan'[q] = chan[q]
  /\ cpu_proc' = [cpu_proc EXCEPT ![c] = IF s = "RUNNING" THEN p ELSE 0]

\* This keeps the invariant when p is on the CPU already, or is taken by an idle
\* CPU from its run queue.
LEMMA TakeCpu ==
  ASSUME IInv, NEW c \in CPUs, NEW p \in Slots,
         \/ cpu_proc[c] = p /\ ctx[p] = "kern"
         \/ cpu_proc[c] = 0 /\ state[p] = "RUNNABLE",
         NEW reaped \in SUBSET Slots, NEW x \in Contexts, NEW s \in States,
         RunsUntil(c, p, reaped, x, s),
         runq' \in Queues, Distinct(runq'), queue_count' \in [CPUs -> Int], CountsRight',
         \A q \in Slots : In(runq', q) <=> (In(runq, q) /\ q # p),
         slice_ticks' \in [Slots -> Nat],
         UNCHANGED <<ctime, np, timer0, ticks, nextpid, metricVars>>
  PROVE  IInv'
<1> USE DEF IInv, metricVars, RunsUntil
<1>1. p \notin reaped /\ state[p] \in {"RUNNING", "RUNNABLE"}
  <2>1. state[p] \in {"RUNNING", "RUNNABLE"}
    BY SlotFacts, SMTT(30) DEF RunsOnOneCpu
  <2>2. QED
    BY <2>1
<1>2. ASSUME NEW q \in Slots
      PROVE  /\ q = p => state'[q] = s
             /\ q \in reaped => state[q] = "ZOMBIE" /\ state'[q] = "UNUSED" /\ parent'[q] = 0
                                /\ pid'[q] = 0
             /\ q \notin reaped => parent'[q] = parent[q] /\ pid'[q] = pid[q]
             /\ (q # p /\ q \notin reaped) => state'[q] = state[q]
             /\ ctx'[q] = IF q = p THEN x ELSE ctx[q]
             /\ state[q] \in States
  BY <1>1, SMTT(30) DEF TypeOK
<1>3. /\ \A d \in CPUs : cpu_proc[d] # 0 => cpu_proc[d] \in Slots
      /\ \A q \in Slots : np[q] # 0 => np[q] \in Slots
      /\ \A q \in Slots : parent[q] # 0 => parent[q] \in Slots
      /\ \A d \in CPUs : d # c => cpu_proc'[d] = cpu_proc[d]
      /\ cpu_proc'[c] = IF s = "RUNNING" THEN p ELSE 0
  BY SlotFacts, ZenonT(60) DEF TypeOK
<1>4. TypeOK'
  <2>1. /\ state' \in [Slots -> States] /\ pid' \in [Slots -> Nat]
        /\ parent' \in [Slots -> 0..NPROC] /\ killed' \in [Slots -> BOOLEAN]
    BY SlotFacts, ZenonT(60) DEF TypeOK, States
  <2>2. ctx' \in [Slots -> Contexts] /\ cpu_proc' \in [CPUs -> 0..NPROC]
    BY SlotFacts, ZenonT(60) DEF TypeOK, Contexts
  <2>3. QED
    BY <2>1, <2>2, ZenonT(60) DEF TypeOK, Queues
<1>5. QueueInv'
  <2>1. ASSUME NEW q \in Slots, In(runq', q)
        PROVE  state'[q] = "RUNNABLE"
    BY <1>1, <1>2, <2>1 DEF QueueInv
  <2>2. ASSUME NEW q \in Slots, state'[q] = "RUNNABLE", ~killed'[q]
        PROVE  In(runq', q)
    <3>1. q # p /\ q \notin reaped /\ state[q] = "RUNNABLE"
      BY <1>1, <1>2, <2>2
    <3>2. ~killed[q]
      BY <3>1, <2>2, SMTT(30)
    <3>3. QED
      BY <3>1, <3>2 DEF QueueInv
  <2>3. QED
    BY <2>1, <2>2 DEF QueueInv
<1>6. RunsOnOneCpu'
  BY SlotFacts, <1>1, <1>2, <1>3, SMTT(30) DEF RunsOnOneCpu
<1>7. EmbryoOwned'
  BY SlotFacts, <1>1, <1>2, <1>3, SMTT(30) DEF EmbryoOwned
<1>8. \A k \in reaped : k # initproc
  BY DEF InitAlive
<1>9. PidsUnique'
  <2>1. nextpid' = nextpid /\ nextpid \in Nat /\ \A q \in Slots : pid[q] \in Nat
    BY DEF TypeOK
  <2>2. pid'[initproc] = 1
    BY SlotFacts, <1>2, <1>8 DEF PidsUnique
  <2>3. \A q \in Slots : pid'[q] = pid[q] \/ pid'[q] = 0
    BY <1>2
  <2>4. \A q \in Slots : pid'[q] < nextpid'
    BY SlotFacts, <2>1, <2>3, SMTT(30) DEF PidsUnique
  <2>5. \A q, r \in Slots : (q # r /\ pid'[q] = pid'[r]) => pid'[q] = 0
    BY <2>3, SMTT(30) DEF PidsUnique
  <2>6. QED
    BY <2>2, <2>4, <2>5 DEF PidsUnique
<1>10. ParentAlive'
  BY SlotFacts, <1>1, <1>2, <1>3, SMTT(30) DEF ParentAlive
<1>11. NoMissedExit'
  BY <1>1, <1>2, SMTT(30) DEF NoMissedExit
<1>12. LifeCycle'
  BY SlotFacts, <1>1, <1>2, SMTT(30) DEF LifeCycle
<1>13. InitAlive'
  BY SlotFacts, <1>1, <1>2, <1>8, SMTT(30) DEF InitAlive
<1>14. QED
  BY <1>4, <1>5, <1>6, <1>7, <1>9, <1>10, <1>11, <1>12, <1>13

\* What one turn of wait()'s loop does, in the form TakeCpu asks for.
LEMMA WaitTurnForm ==
  ASSUME TypeOK, NEW c \in CPUs, NEW p \in Slots, state[p] # "ZOMBIE", ctx[p] # "fork",
         WaitTurn(c, p)
  PROVE  \E reaped \in SUBSET Slots, x \in Contexts, s \in States :
           RunsUntil(c, p, reaped, x, s)
<1> USE SlotFacts DEF TypeOK
<1> DEFINE children == {k \in Slots : parent[k] = p}
           zombies  == {k \in children : state[k] = "ZOMBIE"}
           Return   == /\ chan' = [chan EXCEPT ![p] = 0]
                       /\ ctx' = [ctx EXCEPT ![p] = "ret"]
                       /\ cpu_proc' = [cpu_proc EXCEPT ![c] = p]
<1>1. CASE /\ Return
           /\ \E k \in zombies :
                /\ state' = [state EXCEPT ![p] = "RUNNING", ![k] = "UNUSED"]
                /\ pid' = [pid EXCEPT ![k] = 0]
                /\ parent' = [parent EXCEPT ![k] = 0]
                /\ killed' = [killed EXCEPT ![k] = FALSE]
  <2>1. PICK k \in zombies :
             /\ state' = [state EXCEPT ![p] = "RUNNING", ![k] = "UNUSED"]
             /\ pid' = [pid EXCEPT ![k] = 0]
             /\ parent' = [parent EXCEPT ![k] = 0]
             /\ killed' = [killed EXCEPT ![k] = FALSE]
    BY <1>1
  <2>2. k \in Slots /\ k # p /\ state[k] = "ZOMBIE"
    OBVIOUS
  <2>3. /\ state' = [q \in Slots |-> IF q \in {k} THEN "UNUSED" ELSE
                                     IF q = p THEN "RUNNING" ELSE state[q]]
        /\ pid' = [q \in Slots |-> IF q \in {k} THEN 0 ELSE pid[q]]
        /\ parent' = [q \in Slots |-> IF q \in {k} THEN 0 ELSE parent[q]]
        /\ killed' = [q \in Slots |-> IF q \in {k} THEN FALSE ELSE killed[q]]
    BY <2>1, <2>2, ZenonT(60)
  <2>4. /\ ctx' = [ctx EXCEPT ![p] = "ret"]
        /\ chan' \in [Slots -> Chans \cup (0..NPROC)]
        /\ \A q \in Slots : q # p => chan'[q] = chan[q]
        /\ cpu_proc' = [cpu_proc EXCEPT ![c] = IF "RUNNING" = "RUNNING" THEN p ELSE 0]
    BY <1>1, SMTT(30)
  <2>5. {k} \in SUBSET Slots /\ "ret" \in Contexts /\ "RUNNING" \in States
    BY <2>2 DEF Contexts, States
  <2>6. RunsUntil(c, p, {k}, "ret", "RUNNING")
    BY <2>2, <2>3, <2>4 DEF RunsUntil
  <2>7. QED
    BY <2>5, <2>6
<1>2. CASE /\ Return /\ state' = [state EXCEPT ![p] = "RUNNING"]
           /\ UNCHANGED <<pid, parent, killed>>
  <2>1. /\ state' = [q \in Slots |-> IF q \in {} THEN "UNUSED" ELSE
                                     IF q = p THEN "RUNNING" ELSE state[q]]
        /\ pid' = [q \in Slots |-> IF q \in {} THEN 0 ELSE pid[q]]
        /\ parent' = [q \in Slots |-> IF q \in {} THEN 0 ELSE parent[q]]
        /\ killed' = [q \in Slots |-> IF q \in {} THEN FALSE ELSE killed[q]]
    BY <1>2, ZenonT(60)
  <2>2. /\ ctx' = [ctx EXCEPT ![p] = "ret"]
        /\ chan' \in [Slots -> Chans \cup (0..NPROC)]
        /\ \A q \in Slots : q # p => chan'[q] = chan[q]
        /\ cpu_proc' = [cpu_proc EXCEPT ![c] = IF "RUNNING" = "RUNNING" THEN p ELSE 0]
    BY <1>2
  <2>3. {} \in SUBSET Slots /\ "ret" \in Contexts /\ "RUNNING" \in States
    BY DEF Contexts, States
  <2>4. RunsUntil(c, p, {}, "ret", "RUNNING")
    BY <2>1, <2>2 DEF RunsUntil
  <2>5. QED
    BY <2>3, <2>4
<1>3. CASE /\ zombies = {}
           /\ state' = [state EXCEPT ![p] = "SLEEPING"]
           /\ chan' = [chan EXCEPT ![p] = p]
           /\ ctx' = [ctx EXCEPT ![p] = "wait"]
           /\ cpu_proc' = [cpu_proc EXCEPT ![c] = 0]
           /\ UNCHANGED <<pid, parent, killed>>
  <2>1. /\ state' = [q \in Slots |-> IF q \in {} THEN "UNUSED" ELSE
                                     IF q = p THEN "SLEEPING" ELSE state[q]]
        /\ pid' = [q \in Slots |-> IF q \in {} THEN 0 ELSE pid[q]]
        /\ parent' = [q \in Slots |-> IF q \in {} THEN 0 ELSE parent[q]]
        /\ killed' = [q \in Slots |-> IF q \in {} THEN FALSE ELSE killed[q]]
    BY <1>3, ZenonT(60)
  <2>2. /\ ctx' = [ctx EXCEPT ![p] = "wait"]
        /\ chan' \in [Slots -> Chans \cup (0..NPROC)] /\ chan'[p] = p
        /\ \A q \in Slots : q # p => chan'[q] = chan[q]
        /\ cpu_proc' = [cpu_proc EXCEPT ![c] = IF "SLEEPING" = "RUNNING" THEN p ELSE 0]
        /\ \A k \in Slots : parent[k] = p => state[k] # "ZOMBIE"
    BY <1>3
  <2>3. {} \in SUBSET Slots /\ "wait" \in Contexts /\ "SLEEPING" \in States
    BY DEF Contexts, States
  <2>4. RunsUntil(c, p, {}, "wait", "SLEEPING")
    BY <2>1, <2>2 DEF RunsUntil
  <2>5. QED
    BY <2>3, <2>4
<1>4. QED
  BY <1>1, <1>2, <1>3 DEF WaitTurn

LEMMA WaitStep ==
  ASSUME IInv, NEW c \in CPUs, NEW p \in Slots, Wait(c, p)
  PROVE  IInv'
<1>1. /\ cpu_proc[c] = p /\ ctx[p] = "kern" /\ WaitTurn(c, p)
      /\ UNCHANGED <<ctime, np, slice_ticks, timer0, ticks, nextpid, runq, queue_count,
                     metricVars>>
  BY DEF Wait, At, queueVars
<1>2. state[p] = "RUNNING" /\ ~In(runq, p)
  BY SlotFacts, <1>1 DEF IInv, RunsOnOneCpu, QueueInv
<1>3. /\ runq' \in Queues /\ Distinct(runq') /\ queue_count' \in [CPUs -> Int] /\ CountsRight'
      /\ \A q \in Slots : In(runq', q) <=> (In(runq, q) /\ q # p)
      /\ slice_ticks' \in [Slots -> Nat]
  BY <1>1, <1>2, SMTT(30) DEF IInv, QueueInv, CountsRight, TypeOK
<1>4. PICK reaped \in SUBSET Slots, x \in Contexts, s \in States : RunsUntil(c, p, reaped, x, s)
  BY <1>1, <1>2, WaitTurnForm DEF IInv
<1>5. QED
  BY <1>1, <1>2, <1>3, <1>4, TakeCpu

\* The scheduler of an idle CPU, after load_balance() has changed the queues to rq.
LEMMA DispatchStep ==
  ASSUME IInv, NEW c \in CPUs, cpu_proc[c] = 0,
         NEW rq \in Queues, NEW qc \in [CPUs -> Int], Distinct(rq),
         \A d \in CPUs : qc[d] = Len(rq[d]),
         \A q \in Slots : In(rq, q) <=> In(runq, q),
         Dispatch(c, rq, qc),
         UNCHANGED <<ctime, np, timer0, ticks, nextpid, metricVars>>
  PROVE  IInv'
<1>1. PICK i \in DOMAIN rq[c] :
        /\ state[rq[c][i]] = "RUNNABLE"
        /\ runq' = [rq EXCEPT ![c] = dequeue(@, i)]
        /\ queue_count' = [qc EXCEPT ![c] = @ - 1]
        /\ slice_ticks' = [slice_ticks EXCEPT ![rq[c][i]] = 0]
        /\ \/ ctx[rq[c][i]] = "wait" /\ WaitTurn(c, rq[c][i])
           \/ /\ ctx[rq[c][i]] # "wait"
              /\ state' = [state EXCEPT ![rq[c][i]] = "RUNNING"]
              /\ chan' = [chan EXCEPT ![rq[c][i]] = 0]
              /\ cpu_proc' = [cpu_proc EXCEPT ![c] = rq[c][i]]
              /\ UNCHANGED <<pid, parent, killed, ctx>>
  BY DEF Dispatch, Chosen
<1> DEFINE p == rq[c][i]
<1>2. i \in 1..Len(rq[c]) /\ p \in Slots
  BY SMTT(30) DEF Queues
<1>3. /\ Removed(rq, c, i) \in Queues /\ Distinct(Removed(rq, c, i))
      /\ \A q \in Slots : In(Removed(rq, c, i), q) <=> (In(rq, q) /\ q # rq[c][i])
      /\ \A d \in CPUs : Len(Removed(rq, c, i)[d]) =
                         IF d = c THEN Len(rq[d]) - 1 ELSE Len(rq[d])
  BY <1>2, DequeueOne, SMTT(30)
<1>4. runq' = Removed(rq, c, i)
  BY <1>1, SMTT(30) DEF Removed
<1>5. queue_count' \in [CPUs -> Int] /\ CountsRight'
  <2>1. queue_count' \in [CPUs -> Int]
    BY <1>1, SMTT(30)
  <2>2. ASSUME NEW d \in CPUs PROVE queue_count'[d] = IF d = c THEN qc[d] - 1 ELSE qc[d]
    BY <1>1, SMTT(30)
  <2>3. QED
    BY <2>1, <2>2, <1>3, <1>4 DEF CountsRight
<1>6. \A q \in Slots : In(runq', q) <=> (In(runq, q) /\ q # p)
  BY <1>3, <1>4
<1>7. slice_ticks' \in [Slots -> Nat]
  BY <1>1, <1>2 DEF IInv, TypeOK
<1>8. state[p] = "RUNNABLE"
  BY <1>1
<1>9. \E reaped \in SUBSET Slots, x \in Contexts, s \in States : RunsUntil(c, p, reaped, x, s)
  <2>1. CASE ctx[p] = "wait" /\ WaitTurn(c, p)
    BY <1>2, <1>8, <2>1, WaitTurnForm, ZenonT(60) DEF IInv
  <2>2. CASE /\ ctx[p] # "wait"
             /\ state' = [state EXCEPT ![p] = "RUNNING"]
             /\ chan' = [chan EXCEPT ![p] = 0]
             /\ cpu_proc' = [cpu_proc EXCEPT ![c] = p]
             /\ UNCHANGED <<pid, parent, killed, ctx>>
    <3> HIDE DEF p
    <3>1. /\ state' = [q \in Slots |-> IF q \in {} THEN "UNUSED" ELSE
                                       IF q = p THEN "RUNNING" ELSE state[q]]
          /\ pid' = [q \in Slots |-> IF q \in {} THEN 0 ELSE pid[q]]
          /\ parent' = [q \in Slots |-> IF q \in {} THEN 0 ELSE parent[q]]
          /\ killed' = [q \in Slots |-> IF q \in {} THEN FALSE ELSE killed[q]]
      BY <1>2, <2>2, ZenonT(60) DEF IInv, TypeOK
    <3>2. /\ ctx' = [ctx EXCEPT ![p] = ctx[p]]
          /\ chan' \in [Slots -> Chans \cup (0..NPROC)]
          /\ \A q \in Slots : q # p => chan'[q] = chan[q]
          /\ cpu_proc' = [cpu_proc EXCEPT ![c] = IF "RUNNING" = "RUNNING" THEN p ELSE 0]
      BY SlotFacts, <1>2, <2>2, SMTT(30) DEF IInv, TypeOK
    <3>3. {} \in SUBSET Slots /\ ctx[p] \in Contexts /\ "RUNNING" \in States
      BY <1>2 DEF IInv, TypeOK, States
    <3>4. RunsUntil(c, p, {}, ctx[p], "RUNNING")
      BY <2>2, <3>1, <3>2 DEF RunsUntil
    <3>5. QED
      BY <3>3, <3>4
  <2>3. QED
    BY <1>1, <2>1, <2>2
<1>10. PICK reaped \in SUBSET Slots, x \in Contexts, s \in States :
         RunsUntil(c, p, reaped, x, s)
  BY <1>9, ZenonT(60)
<1> HIDE DEF p
<1>11. runq' \in Queues /\ Distinct(runq')
  BY <1>3, <1>4
<1>12. QED
  BY <1>2, <1>5, <1>6, <1>7, <1>8, <1>10, <1>11, TakeCpu, ZenonT(60)

LEMMA ScheduleStep ==
  ASSUME IInv, NEW c \in CPUs, Schedule(c)
  PROVE  IInv'
<1>1. /\ cpu_proc[c] = 0
      /\ UNCHANGED <<ctime, np, timer0, ticks, nextpid, metricVars>>
      /\ \/ Dispatch(c, runq, queue_count)
         \/ \E v \in DOMAIN runq[c], l \in CPUs :
              /\ Pushes(c, v, l)
              /\ Dispatch(c,
                   [runq EXCEPT ![c] = dequeue(@, v), ![l] = Append(@, runq[c][v])],
                   [queue_count EXCEPT ![c] = @ - 1, ![l] = @ + 1])
  BY DEF Schedule
<1>2. /\ runq \in Queues /\ Distinct(runq) /\ queue_count \in [CPUs -> Int]
      /\ \A d \in CPUs : queue_count[d] = Len(runq[d])
  BY DEF IInv, QueueInv, CountsRight
<1>3. CASE Dispatch(c, runq, queue_count)
  BY <1>1, <1>2, <1>3, DispatchStep, SMTT(30)
<1>4. CASE \E v \in DOMAIN runq[c], l \in CPUs :
              /\ Pushes(c, v, l)
              /\ Dispatch(c,
                   [runq EXCEPT ![c] = dequeue(@, v), ![l] = Append(@, runq[c][v])],
                   [queue_count EXCEPT ![c] = @ - 1, ![l] = @ + 1])
  <2>1. PICK v \in DOMAIN runq[c] : \E l \in CPUs :
              /\ Pushes(c, v, l)
              /\ Dispatch(c,
                   [runq EXCEPT ![c] = dequeue(@, v), ![l] = Append(@, runq[c][v])],
                   [queue_count EXCEPT ![c] = @ - 1, ![l] = @ + 1])
    BY <1>4
  <2>2. PICK l \in CPUs :
              /\ Pushes(c, v, l)
              /\ Dispatch(c,
                   [runq EXCEPT ![c] = dequeue(@, v), ![l] = Append(@, runq[c][v])],
                   [queue_count EXCEPT ![c] = @ - 1, ![l] = @ + 1])
    BY <2>1
  <2> DEFINE w  == runq[c][v]
             r1 == Removed(runq, c, v)
             r2 == Appended(r1, l, w)
             qc == [queue_count EXCEPT ![c] = @ - 1, ![l] = @ + 1]
  <2>3. v \in 1..Len(runq[c]) /\ w \in Slots /\ In(runq, w)
    BY <1>2, SMTT(30) DEF Queues, In
  <2>4. c # l
    BY <2>2, SMTT(30) DEF Pushes, get_lightest_p_core, FirstLightest, PCores
  <2>5. /\ r1 \in Queues /\ Distinct(r1)
        /\ \A q \in Slots : In(r1, q) <=> (In(runq, q) /\ q # w)
        /\ \A d \in CPUs : Len(r1[d]) = IF d = c THEN Len(runq[d]) - 1 ELSE Len(runq[d])
    BY <1>2, <2>3, DequeueOne, SMTT(30)
  <2>6. r2 = [runq EXCEPT ![c] = dequeue(@, v), ![l] = Append(@, runq[c][v])]
    BY <1>2, <2>4, ZenonT(60) DEF Removed, Appended, Queues
  <2> HIDE DEF w, r1
  <2>7. /\ r2 \in Queues /\ Distinct(r2)
        /\ \A q \in Slots : In(r2, q) <=> (In(r1, q) \/ q = w)
        /\ \A d \in CPUs : Len(r2[d]) = IF d = l THEN Len(r1[d]) + 1 ELSE Len(r1[d])
    <3>1. ~In(r1, w) /\ w \in Slots
      BY <2>3, <2>5
    <3>2. QED
      BY <2>5, <3>1, EnqueueOne, SMTT(60)
  <2> HIDE DEF r2
  <2>8. qc \in [CPUs -> Int] /\ \A d \in CPUs : qc[d] = Len(r2[d])
    <3>1. qc \in [CPUs -> Int]
      BY <1>2, SMTT(30)
    <3>2. ASSUME NEW d \in CPUs
          PROVE  qc[d] = IF d = c THEN queue_count[d] - 1
                         ELSE IF d = l THEN queue_count[d] + 1 ELSE queue_count[d]
      BY <1>2, <2>4
    <3>3. ASSUME NEW d \in CPUs
          PROVE  Len(r2[d]) = IF d = c THEN Len(runq[d]) - 1
                              ELSE IF d = l THEN Len(runq[d]) + 1 ELSE Len(runq[d])
      BY <2>4, <2>5, <2>7
    <3> HIDE DEF qc
    <3>4. QED
      BY <1>2, <3>1, <3>2, <3>3, SMTT(30)
  <2>9. \A q \in Slots : In(r2, q) <=> In(runq, q)
    BY <2>3, <2>5, <2>7, ZenonT(60)
  <2>10. Dispatch(c, r2, qc)
    BY <2>2, <2>6
  <2> HIDE DEF qc
  <2>11. QED
    BY <1>1, <2>7, <2>8, <2>9, <2>10, DispatchStep
<1>5. QED
  BY <1>1, <1>3, <1>4

LEMMA TimerStep ==
  ASSUME IInv, NEW c \in CPUs, NEW p \in Slots, TimerTrap(c, p)
  PROVE  IInv'
<1> DEFINE dies   == killed[p] /\ ctx[p] = "user"
           slice  == slice_ticks[p] + 1
           yields == ~dies /\ Yields(c, p)
           x      == IF dies THEN ExitContext(p) ELSE IF ctx[p] = "user" THEN "ret" ELSE ctx[p]
<1>1. /\ cpu_proc[c] = p /\ ctx' = [ctx EXCEPT ![p] = x]
      /\ timer0' = IF c = 0 THEN FALSE ELSE timer0
      /\ slice_ticks' = [slice_ticks EXCEPT ![p] = IF yields /\ c \in ECores THEN 0 ELSE slice]
      /\ UNCHANGED <<chan, killed, ticks, nextpid, pid, parent, ctime, np, metricVars>>
  BY DEF TimerTrap, procVars
<1>2. \/ /\ yields /\ state' = [state EXCEPT ![p] = "RUNNABLE"]
         /\ enqueue(c, p) /\ cpu_proc' = [cpu_proc EXCEPT ![c] = 0]
      \/ UNCHANGED <<state, runq, queue_count, cpu_proc>>
  BY DEF TimerTrap
<1>3. timer0' \in BOOLEAN /\ slice_ticks' \in [Slots -> Nat]
  <2>1. slice \in Nat /\ timer0 \in BOOLEAN
    BY SMTT(30) DEF IInv, TypeOK
  <2> HIDE DEF slice, yields
  <2>2. QED
    BY <1>1, <2>1, ZenonT(60) DEF IInv, TypeOK
<1>4. state[p] = "RUNNING" /\ ctx[p] # "wait"
  BY SlotFacts, <1>1, SMTT(30) DEF IInv, RunsOnOneCpu, LifeCycle
<1>5. /\ x \in Contexts /\ x # "wait" /\ (x = "fork" <=> ctx[p] = "fork")
      /\ x = "exit" => (p # initproc \/ ctx[p] = "exit")
      /\ yields => x # "user"
  BY <1>4, SMTT(30) DEF IInv, TypeOK, ExitContext, Contexts
<1> HIDE DEF x, yields, slice, dies
<1>6. ASSUME NEW q \in Slots
      PROVE  ctx'[q] = IF q = p THEN x ELSE ctx[q]
  BY <1>1, SMTT(30) DEF IInv, TypeOK
<1>7. /\ \A d \in CPUs : cpu_proc[d] # 0 => cpu_proc[d] \in Slots
      /\ \A q \in Slots : np[q] # 0 => np[q] \in Slots
      /\ \A q \in Slots : parent[q] # 0 => parent[q] \in Slots
  BY SlotFacts, ZenonT(60) DEF IInv, TypeOK
<1>8. \/ UNCHANGED <<state, runq, queue_count, cpu_proc>>
      \/ /\ x # "user" /\ enqueue(c, p)
         /\ state' = [state EXCEPT ![p] = "RUNNABLE"]
         /\ cpu_proc' = [cpu_proc EXCEPT ![c] = 0]
  BY <1>2, <1>5
<1>9. ctx' \in [Slots -> Contexts]
  BY <1>1, <1>5 DEF IInv, TypeOK
<1>10. CASE UNCHANGED <<state, runq, queue_count, cpu_proc>>
  <2>1. TypeOK'
    BY <1>1, <1>3, <1>9, <1>10, ZenonT(60) DEF IInv, TypeOK, metricVars
  <2>2. QueueInv' /\ RunsOnOneCpu' /\ PidsUnique' /\ ParentAlive'
    BY <1>1, <1>10, ZenonT(60)
    DEF IInv, QueueInv, CountsRight, RunsOnOneCpu, PidsUnique, ParentAlive
  <2>3. EmbryoOwned'
    BY <1>1, <1>5, <1>6, <1>10, SMTT(30) DEF IInv, EmbryoOwned
  <2>4. NoMissedExit'
    BY <1>1, <1>4, <1>6, <1>10, SMTT(30) DEF IInv, NoMissedExit
  <2>5. LifeCycle'
    BY <1>1, <1>4, <1>5, <1>6, <1>10, SMTT(30) DEF IInv, LifeCycle
  <2>6. InitAlive'
    BY SlotFacts, <1>1, <1>5, <1>6, <1>10 DEF IInv, InitAlive
  <2>7. QED
    BY <2>1, <2>2, <2>3, <2>4, <2>5, <2>6 DEF IInv
<1>11. CASE /\ x # "user" /\ enqueue(c, p)
            /\ state' = [state EXCEPT ![p] = "RUNNABLE"]
            /\ cpu_proc' = [cpu_proc EXCEPT ![c] = 0]
  <2>1. /\ runq' \in Queues /\ Distinct(runq')
        /\ \A q \in Slots : In(runq', q) <=> (In(runq, q) \/ q = p)
        /\ queue_count' \in [CPUs -> Int] /\ CountsRight'
    BY <1>4, <1>11, EnqueueStep, ZenonT(60) DEF IInv, QueueInv
  <2>2. ASSUME NEW q \in Slots
        PROVE  state'[q] = IF q = p THEN "RUNNABLE" ELSE state[q]
    BY <1>11 DEF IInv, TypeOK
  <2>3. ASSUME NEW d \in CPUs
        PROVE  cpu_proc'[d] = IF d = c THEN 0 ELSE cpu_proc[d]
    BY <1>11, SMTT(30) DEF IInv, TypeOK
  <2>4. TypeOK'
    BY SlotFacts, <1>1, <1>3, <1>9, <1>11, <2>1, ZenonT(60)
    DEF IInv, TypeOK, States, Queues, metricVars
  <2>5. QueueInv'
    BY <1>1, <2>1, <2>2, ZenonT(60) DEF IInv, QueueInv
  <2>6. RunsOnOneCpu'
    BY SlotFacts, <1>1, <1>4, <1>7, <2>2, <2>3, SMTT(30) DEF IInv, RunsOnOneCpu
  <2>7. EmbryoOwned'
    BY <1>1, <1>4, <1>5, <1>6, <1>7, <2>2, SMTT(30) DEF IInv, EmbryoOwned
  <2>8. PidsUnique' /\ ParentAlive'
    BY <1>1, <1>4, <1>7, <2>2, SMTT(30) DEF IInv, PidsUnique, ParentAlive
  <2>9. NoMissedExit'
    <3> SUFFICES ASSUME NEW q \in Slots, NEW k \in Slots,
                        state'[q] = "SLEEPING", ctx'[q] = "wait", parent'[k] = q
                 PROVE  state'[k] # "ZOMBIE"
      BY DEF NoMissedExit
    <3>1. q # p /\ state[q] = "SLEEPING"
      BY <2>2
    <3>2. ctx[q] = "wait" /\ parent[k] = q
      BY <1>1, <1>6, <3>1
    <3>3. state[k] # "ZOMBIE"
      BY <3>1, <3>2 DEF IInv, NoMissedExit
    <3>4. QED
      BY <2>2, <3>3
  <2>10. LifeCycle'
    BY <1>1, <1>4, <1>5, <1>6, <2>2, SMTT(30) DEF IInv, LifeCycle
  <2>11. InitAlive'
    BY SlotFacts, <1>1, <1>5, <1>6, <2>2 DEF IInv, InitAlive
  <2>12. QED
    BY <2>4, <2>5, <2>6, <2>7, <2>8, <2>9, <2>10, <2>11, SMTT(30) DEF IInv
<1>12. QED
  BY <1>8, <1>10, <1>11

LEMMA InitStep ==
  ASSUME Init
  PROVE  IInv
<1> USE SlotFacts DEF Init
<1>1. 0 \in CPUs /\ \A c \in CPUs : runq[c] = IF c = 0 THEN <<initproc>> ELSE <<>>
  BY ProcAssumption, SMTT(30) DEF CPUs
<1>2. <<initproc>> \in Seq(Slots) /\ Len(<<initproc>>) = 1 /\ <<initproc>>[1] = initproc
      /\ <<>> \in Seq(Slots) /\ Len(<<>>) = 0
  BY SMTT(30)
<1>3. runq \in Queues
  BY <1>2 DEF Queues
<1>4. TypeOK
  <2>1. /\ state \in [Slots -> States] /\ pid \in [Slots -> Nat]
        /\ ctx \in [Slots -> Contexts]
    BY DEF States, Contexts
  <2>2. /\ parent \in [Slots -> 0..NPROC] /\ np \in [Slots -> 0..NPROC]
        /\ chan \in [Slots -> Chans \cup (0..NPROC)] /\ cpu_proc \in [CPUs -> 0..NPROC]
        /\ killed \in [Slots -> BOOLEAN]
    OBVIOUS
  <2>3. /\ ctime \in [Slots -> Nat] /\ etime \in [Slots -> Nat] /\ slice_ticks \in [Slots -> Nat]
        /\ queue_count \in [CPUs -> Int]
    BY SMTT(30)
  <2>4. /\ timer0 \in BOOLEAN /\ ticks \in Nat /\ nextpid \in Nat
        /\ metrics_active \in BOOLEAN /\ metrics_start_tick \in Nat
        /\ metrics_proc_completed \in Nat
    BY ZenonT(60)
  <2>5. QED
    BY <1>3, <2>1, <2>2, <2>3, <2>4 DEF TypeOK, Queues
<1>5. QueueInv
  <2>1. \A c \in CPUs : Len(runq[c]) = IF c = 0 THEN 1 ELSE 0
    BY <1>1, <1>2, SMTT(30)
  <2>2. \A c \in CPUs : \A i \in 1..Len(runq[c]) : c = 0 /\ i = 1 /\ runq[c][i] = initproc
    BY <1>1, <1>2, <2>1, SMTT(30)
  <2>3. Distinct(runq)
    BY <2>2, SMTT(30) DEF Distinct
  <2>4. \A p \in Slots : In(runq, p) <=> p = initproc
    BY <1>1, <1>2, <2>1, <2>2, SMTT(30) DEF In
  <2>5. queue_count \in [CPUs -> Int] /\ CountsRight
    BY <2>1, SMTT(30) DEF CountsRight
  <2>6. QED
    BY <1>3, <2>3, <2>4, <2>5 DEF QueueInv
<1>6. RunsOnOneCpu /\ EmbryoOwned /\ NoMissedExit
  BY DEF RunsOnOneCpu, EmbryoOwned, NoMissedExit
<1>7. PidsUnique /\ ParentAlive
  BY SMTT(30) DEF PidsUnique, ParentAlive
<1>8. LifeCycle /\ InitAlive
  BY DEF LifeCycle, InitAlive
<1>9. QED
  BY <1>4, <1>5, <1>6, <1>7, <1>8 DEF IInv

LEMMA ContextStep ==
  ASSUME IInv, NEW c \in CPUs, NEW p \in Slots,
         \/ Syscall(c, p) \/ SyscallDone(c, p) \/ TrapReturn(c, p) \/ Fault(c, p)
         \/ ExitCall(c, p) \/ start_measure(c, p) \/ end_measure(c, p)
  PROVE  IInv'
<1> USE DEF At, procVars, queueVars, metricVars
<1>1. /\ killed \in [Slots -> BOOLEAN] /\ metrics_active \in BOOLEAN
      /\ metrics_start_tick \in Nat /\ ticks \in Nat /\ metrics_proc_completed \in Nat
  BY DEF IInv, TypeOK
<1>2. /\ ExitContext(p) \in {"exit", "panic"}
      /\ ExitContext(p) = "exit" => p # initproc
  BY SMTT(30) DEF ExitContext
<1>3. CASE Syscall(c, p)
  BY <1>1, <1>2, <1>3, ContextMove, ZenonT(60) DEF Syscall
<1>4. CASE SyscallDone(c, p)
  BY <1>1, <1>4, ContextMove, ZenonT(60) DEF SyscallDone
<1>5. CASE TrapReturn(c, p)
  BY <1>1, <1>2, <1>5, ContextMove, ZenonT(60) DEF TrapReturn
<1>6. CASE Fault(c, p)
  <2>1. killed' \in [Slots -> BOOLEAN] /\ \A q \in Slots : killed[q] => killed'[q]
    BY <1>1, <1>6 DEF Fault
  <2>2. QED
    BY <1>1, <1>2, <1>6, <2>1, ContextMove, ZenonT(60) DEF Fault
<1>7. CASE ExitCall(c, p)
  BY <1>1, <1>2, <1>7, ContextMove, ZenonT(60) DEF ExitCall
<1>8. CASE start_measure(c, p)
  BY <1>1, <1>8, ContextMove, ZenonT(60) DEF start_measure
<1>9. CASE end_measure(c, p)
  BY <1>1, <1>9, ContextMove, ZenonT(60) DEF end_measure
<1>10. QED
  BY <1>3, <1>4, <1>5, <1>6, <1>7, <1>8, <1>9

LEMMA NextStep ==
  ASSUME IInv, [Next]_vars
  PROVE  IInv'
<1>1. ASSUME NEW c \in CPUs, NEW p \in Slots, Step(c, p)
      PROVE  IInv'
  <2>1. CASE \/ Syscall(c, p) \/ SyscallDone(c, p) \/ TrapReturn(c, p) \/ Fault(c, p)
             \/ ExitCall(c, p) \/ start_measure(c, p) \/ end_measure(c, p)
    BY <2>1, ContextStep
  <2>2. CASE ForkAlloc(c, p)
    BY <2>2, ForkAllocStep
  <2>3. CASE ForkFail(c, p)
    BY <2>3, ForkFailStep
  <2>4. CASE ForkDone(c, p)
    BY <2>4, ForkDoneStep, SMTT(30)
  <2>5. CASE Exit(c, p)
    BY <2>5, ExitStep, SMTT(30)
  <2>6. CASE Wait(c, p)
    BY <2>6, WaitStep, SMTT(30)
  <2>7. CASE \E ch \in (Chans \cup {p}) : Sleep(c, p, ch)
    BY <2>7, SleepStep
  <2>8. CASE \E target \in KillPids : Kill(c, p, target)
    BY <2>8, KillStep
  <2>9. CASE TimerTrap(c, p)
    BY <2>9, TimerStep, SMTT(30)
  <2>10. QED
    BY <1>1, <2>1, <2>2, <2>3, <2>4, <2>5, <2>6, <2>7, <2>8, <2>9 DEF Step
<1>2. ASSUME NEW c \in CPUs, Schedule(c)
      PROVE  IInv'
  BY <1>2, ScheduleStep, SMTT(30)
<1>3. ASSUME NEW ch \in (Chans \cup Slots), Wakeup(ch)
      PROVE  IInv'
  BY <1>3, WakeStep, ZenonT(60) DEF Wakeup, IInv, TypeOK
<1>4. CASE Tick
  <2>1. timer0' \in BOOLEAN
    BY <1>4, SMTT(30) DEF Tick
  <2>2. ticks' \in Nat
    BY <1>4, ProcAssumption, SMTT(30) DEF Tick, IInv, TypeOK
  <2>3. QED
    BY <1>4, <2>1, <2>2, WakeStep DEF Tick
<1>5. CASE UNCHANGED vars
  <2>1. TypeOK'
    BY <1>5, ZenonT(60) DEF vars, IInv, TypeOK
  <2>2. QueueInv'
    BY <1>5, ZenonT(60) DEF vars, IInv, QueueInv, CountsRight
  <2>3. RunsOnOneCpu' /\ EmbryoOwned'
    BY <1>5, ZenonT(60) DEF vars, IInv, RunsOnOneCpu, EmbryoOwned
  <2>4. PidsUnique' /\ ParentAlive'
    BY <1>5, ZenonT(60) DEF vars, IInv, PidsUnique, ParentAlive
  <2>5. NoMissedExit' /\ LifeCycle' /\ InitAlive'
    BY <1>5, ZenonT(60) DEF vars, IInv, NoMissedExit, LifeCycle, InitAlive
  <2>6. QED
    BY <2>1, <2>2, <2>3, <2>4, <2>5 DEF IInv
<1>6. QED
  BY <1>1, <1>2, <1>3, <1>4, <1>5 DEF Next

\* The inductive invariant holds in every reachable state.
THEOREM Invariance == Spec => []IInv
<1>1. Init => IInv
  BY InitStep
<1>2. IInv /\ [Next]_vars => IInv'
  BY NextStep
<1>3. QED
  BY <1>1, <1>2, PTL DEF Spec

-----------------------------------------------------------------------------
(***************************************************************************)
(* The properties of module Proc.                                          *)
(***************************************************************************)

\* Every field of struct proc and struct cpu always holds a value of its type.
THEOREM TypeCorrect == Spec => []TypeOK
<1>1. IInv => TypeOK
  BY DEF IInv
<1>2. QED
  BY <1>1, Invariance, PTL

\* enqueue(), dequeue() and load_balance() leave exactly the processes that are to run on
\* the run queues: none is on two queues or twice on one, none is there that is not
\* RUNNABLE, none is missing that was not killed, and queue_count, on which fork(),
\* wakeup1() and load_balance() decide, is the length of the queue.
THEOREM QueuesStaySound == Spec => []QueuesSound
<1>1. IInv => QueuesDisjoint
  <2> SUFFICES ASSUME IInv, NEW c \in CPUs, NEW d \in CPUs,
                      NEW i \in DOMAIN runq[c], NEW j \in DOMAIN runq[d]
               PROVE  /\ state[runq[c][i]] = "RUNNABLE"
                      /\ runq[c][i] = runq[d][j] => (c = d /\ i = j)
    BY DEF QueuesDisjoint
  <2>1. runq \in Queues /\ Distinct(runq)
    BY DEF IInv, QueueInv
  <2>2. i \in 1..Len(runq[c]) /\ j \in 1..Len(runq[d]) /\ runq[c][i] \in Slots
    BY <2>1, SMTT(30) DEF Queues
  <2>3. In(runq, runq[c][i])
    BY <2>2, SMTT(30) DEF In
  <2>4. QED
    BY <2>1, <2>2, <2>3, SMTT(30) DEF IInv, QueueInv, Distinct
<1>2. IInv => CountsRight
  BY SMTT(30) DEF IInv, QueueInv
<1>3. IInv => RunnableQueued
  <2> SUFFICES ASSUME IInv, NEW p \in Slots, state[p] = "RUNNABLE", ~killed[p]
               PROVE  \E c \in CPUs : \E i \in DOMAIN runq[c] : runq[c][i] = p
    BY SMTT(30) DEF RunnableQueued
  <2>1. runq \in Queues /\ In(runq, p)
    BY DEF IInv, QueueInv
  <2>2. QED
    BY <2>1, SMTT(30) DEF In, Queues
<1>4. IInv => QueuesSound
  BY <1>1, <1>2, <1>3 DEF QueuesSound, IInv
<1>5. QED
  BY <1>4, Invariance, PTL

\* A process is RUNNING iff one CPU, and one only, runs it.
THEOREM OneCpuPerProcess == Spec => []RunsOnOneCpu
<1>1. IInv => RunsOnOneCpu
  BY DEF IInv
<1>2. QED
  BY <1>1, Invariance, PTL

\* No two processes have the same pid, exit() leaves no process without a live parent,
\* so every zombie has a reaper, and init is always there to be one.
THEOREM FamilyStaysSound == Spec => []FamilySound
<1>1. IInv => FamilySound
  BY DEF IInv, FamilySound
<1>2. QED
  BY <1>1, Invariance, PTL

\* A process that sleeps in wait() has no zombie child: exit()'s wakeup cannot be
\* lost.
THEOREM NoExitMissed == Spec => []NoMissedExit
<1>1. IInv => NoMissedExit
  BY DEF IInv
<1>2. QED
  BY <1>1, Invariance, PTL
=============================================================================
