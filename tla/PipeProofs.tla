----------------------------- MODULE PipeProofs -----------------------------
(***************************************************************************)
(* The properties of module Pipe, for every number of readers and writers, *)
(* every size of the pipe and every width of its counters.                 *)
(***************************************************************************)
EXTENDS Pipe, Integers, TLAPS

USE SMTT(30), ZenonT(60)

\* An end is open as long as a process has it open.
EndsInv ==
  /\ writeopen <=> \E w \in Writers : pc[w] # "closed"
  /\ readopen <=> \E r \in Readers : pc[r] # "closed"

\* A process inside pipewrite() has bytes left to write, one inside piperead() asked for
\* some; and the bytes the pipe holds were written to it.
CallsInv ==
  /\ \A w \in Writers : (left[w] = <<>>) <=> (pc[w] \in {"out", "closed"})
  /\ \A r \in Readers : pc[r] \notin {"out", "closed"} => want[r] >= 1
  /\ \A i \in 1..Used : Contents[i] \in Byte

PInv == PipeSound /\ EndsInv /\ CallsInv

-----------------------------------------------------------------------------
(***************************************************************************)
(* Arithmetic of the counters.                                             *)
(***************************************************************************)

\* Quotient and remainder.
LEMMA Division ==
  ASSUME NEW a \in Int, NEW b \in Nat, b > 0
  PROVE  /\ a % b \in 0..b-1 /\ a \div b \in Int
         /\ a = b * (a \div b) + (a % b)
<1>1. a % b \in 0..b-1
  OBVIOUS
<1>2. a \div b \in Int
  OBVIOUS
<1>3. a = b * (a \div b) + (a % b)
  OBVIOUS
<1>4. QED
  BY <1>1, <1>2, <1>3

\* The remainder is the only one.
LEMMA Remainder ==
  ASSUME NEW b \in Nat, b > 0, NEW q \in Int, NEW r \in 0..b-1
  PROVE  (b * q + r) % b = r
<1> DEFINE a == b * q + r
           d == a \div b
<1>1. a \in Int /\ a = b * q + r
  OBVIOUS
<1>2. a % b \in 0..b-1 /\ d \in Int /\ a = b * d + (a % b)
  BY <1>1, Division
<1> HIDE DEF a, d
<1>3. CASE d > q
  <2>1. b * (d - q) >= b /\ b * (d - q) = b * d - b * q
    BY <1>2, <1>3
  <2>2. QED
    BY <1>1, <1>2, <2>1
<1>4. CASE d < q
  <2>1. b * (q - d) >= b /\ b * (q - d) = b * q - b * d
    BY <1>2, <1>4
  <2>2. QED
    BY <1>1, <1>2, <2>1
<1>5. CASE d = q
  BY <1>1, <1>2, <1>5 DEF a
<1>6. QED
  BY <1>2, <1>3, <1>4, <1>5

\* Adding a multiple does not change the remainder.
LEMMA Multiple ==
  ASSUME NEW b \in Nat, b > 0, NEW a \in Int, NEW m \in Int
  PROVE  (a + b * m) % b = a % b
<1> DEFINE q == a \div b
           r == a % b
<1>1. r \in 0..b-1 /\ q \in Int /\ a = b * q + r
  BY Division
<1> HIDE DEF q, r
<1>2. q + m \in Int /\ a + b * m = b * (q + m) + r
  BY <1>1
<1>3. (b * (q + m) + r) % b = r
  BY <1>1, <1>2, Remainder
<1>4. QED
  BY <1>2, <1>3 DEF r

\* A counter that has been incremented by less than Wrap.
LEMMA Counter ==
  ASSUME NEW b \in Nat, b > 0, NEW x \in 0..2*b-1
  PROVE  x % b = IF x < b THEN x ELSE x - b
<1>1. CASE x < b
  <2>1. x \in 0..b-1 /\ x = b * 0 + x
    BY <1>1
  <2>2. QED
    BY <1>1, <2>1, Remainder
<1>2. CASE x >= b
  <2>1. x - b \in 0..b-1 /\ x = b * 1 + (x - b)
    BY <1>2
  <2>2. QED
    BY <1>2, <2>1, Remainder
<1>3. QED
  BY <1>1, <1>2

\* PIPESIZE divides Wrap, which is larger.
LEMMA WrapSize ==
  /\ PIPESIZE \in Nat /\ PIPESIZE > 0 /\ Wrap \in Nat /\ Wrap > PIPESIZE
  /\ \E m \in Int : Wrap = PIPESIZE * m
<1> DEFINE m == Wrap \div PIPESIZE
<1>1. PIPESIZE \in Nat /\ PIPESIZE > 0 /\ Wrap \in Nat /\ Wrap > 0 /\ Wrap # PIPESIZE
  BY PipeAssumption
<1>2. m \in Int /\ Wrap = PIPESIZE * m
  BY <1>1, Division, PipeAssumption
<1> HIDE DEF m
<1>3. m > 0 /\ m # 1
  BY <1>1, <1>2
<1>4. PIPESIZE * m >= PIPESIZE * 2 
  BY <1>1, <1>2, <1>3
<1>5. QED
  BY <1>1, <1>2, <1>4

\* The index of a counter in data[] does not depend on the counter's wrapping around.
LEMMA Index ==
  ASSUME NEW x \in Nat, NEW t \in Nat
  PROVE  ((x % Wrap) + t) % PIPESIZE = (x + t) % PIPESIZE
<1> DEFINE q == x \div Wrap
<1>1. x % Wrap \in 0..Wrap-1 /\ q \in Int /\ x = Wrap * q + (x % Wrap)
  <2>1. Wrap \in Nat /\ Wrap > 0 /\ x \in Int
    BY WrapSize
  <2>2. QED
    BY <2>1, Division, Zenon
<1> HIDE DEF q
<1>2. PICK m \in Int : Wrap = PIPESIZE * m
  BY WrapSize
<1>3. m * q \in Int /\ Wrap * q = PIPESIZE * (m * q)
  <2>1. (PIPESIZE * m) * q = PIPESIZE * (m * q)
    BY <1>1, WrapSize
  <2>2. QED
    BY <1>1, <1>2, <2>1
<1> DEFINE y == (x % Wrap) + t
           z == m * q
<1>4. y \in Int /\ z \in Int /\ x + t = y + PIPESIZE * z
  BY <1>1, <1>3, WrapSize
<1> HIDE DEF y, z
<1>5. (y + PIPESIZE * z) % PIPESIZE = y % PIPESIZE
  <2>1. PIPESIZE \in Nat /\ PIPESIZE > 0
    BY WrapSize
  <2>2. QED
    BY <1>4, <2>1, Multiple, Zenon
<1>6. QED
  BY <1>4, <1>5, Zenon DEF y

\* How far the index of a byte is from the index where pipewrite() goes on.
LEMMA Offset ==
  ASSUME NEW a \in Nat, NEW u \in 0..PIPESIZE, NEW t \in 0..PIPESIZE-1
  PROVE  (((a + t) % PIPESIZE) + PIPESIZE - ((a + u) % PIPESIZE)) % PIPESIZE
           = IF t >= u THEN t - u ELSE PIPESIZE + t - u
<1> DEFINE P == PIPESIZE
           q1 == (a + t) \div P
           q2 == (a + u) \div P
           r1 == (a + t) % P
           r2 == (a + u) % P
<1>1. r1 \in 0..P-1 /\ q1 \in Int /\ a + t = P * q1 + r1
  BY WrapSize, Division
<1>2. r2 \in 0..P-1 /\ q2 \in Int /\ a + u = P * q2 + r2
  BY WrapSize, Division
<1> HIDE DEF q1, q2, r1, r2
<1>3. CASE t >= u
  <2>1. q2 - q1 + 1 \in Int /\ P * (q2 - q1 + 1) = P * q2 - P * q1 + P
    BY <1>1, <1>2, WrapSize
  <2>2. r1 + P - r2 = P * (q2 - q1 + 1) + (t - u) /\ t - u \in 0..P-1
    BY <1>1, <1>2, <1>3, <2>1, WrapSize
  <2>3. (P * (q2 - q1 + 1) + (t - u)) % P = t - u
    BY <2>1, <2>2, WrapSize, Remainder, Zenon
  <2>4. QED
    BY <1>3, <2>2, <2>3 DEF r1, r2
<1>4. CASE t < u
  <2>1. q2 - q1 \in Int /\ P * (q2 - q1) = P * q2 - P * q1
    BY <1>1, <1>2, WrapSize
  <2>2. r1 + P - r2 = P * (q2 - q1) + (P + t - u) /\ P + t - u \in 0..P-1
    BY <1>1, <1>2, <1>4, <2>1, WrapSize
  <2>3. (P * (q2 - q1) + (P + t - u)) % P = P + t - u
    BY <2>1, <2>2, WrapSize, Remainder, Zenon
  <2>4. QED
    BY <1>4, <2>2, <2>3 DEF r1, r2
<1>5. QED
  BY <1>3, <1>4

\* u bytes lie between the reader's counter a and the writer's b.
Apart(a, b, u) ==
  /\ a \in 0..Wrap-1 /\ b \in 0..Wrap-1 /\ u \in 0..Wrap-1
  /\ b = IF a + u < Wrap THEN a + u ELSE a + u - Wrap

LEMMA Distance ==
  ASSUME NEW a \in 0..Wrap-1, NEW b \in 0..Wrap-1
  PROVE  Apart(a, b, (b + Wrap - a) % Wrap)
<1> DEFINE x == b + Wrap - a
           u == x % Wrap
<1>1. Wrap \in Nat /\ Wrap > 0
  BY WrapSize
<1>2. x \in 0..2*Wrap-1
  BY <1>1
<1> HIDE DEF x
<1>3. u = IF x < Wrap THEN x ELSE x - Wrap
  BY <1>1, <1>2, Counter
<1> HIDE DEF u
<1>4. Apart(a, b, u)
  BY <1>1, <1>3 DEF Apart, x
<1>5. QED
  BY <1>4 DEF u, x

LEMMA ApartDistance ==
  ASSUME NEW a, NEW b, NEW u, Apart(a, b, u)
  PROVE  (b + Wrap - a) % Wrap = u
<1> DEFINE x == b + Wrap - a
<1>1. Wrap \in Nat /\ Wrap > 0
  BY WrapSize
<1>2. x \in 0..2*Wrap-1 /\ u = IF x < Wrap THEN x ELSE x - Wrap
  BY <1>1 DEF Apart
<1> HIDE DEF x
<1>3. x % Wrap = u
  BY <1>1, <1>2, Counter
<1>4. QED
  BY <1>3 DEF x

\* The writer's counter advances by k.
LEMMA WriterAdvances ==
  ASSUME NEW a, NEW b, NEW u, Apart(a, b, u), NEW k \in Nat, u + k < Wrap
  PROVE  Apart(a, (b + k) % Wrap, u + k)
<1> DEFINE x == b + k
           c == x % Wrap
<1>1. Wrap \in Nat /\ Wrap > 0
  BY WrapSize
<1>2. x \in 0..2*Wrap-1
  BY <1>1 DEF Apart
<1> HIDE DEF x
<1>3. c = IF x < Wrap THEN x ELSE x - Wrap
  BY <1>1, <1>2, Counter
<1> HIDE DEF c
<1>4. Apart(a, c, u + k)
  BY <1>1, <1>2, <1>3 DEF Apart, x
<1>5. QED
  BY <1>4 DEF c, x

\* The reader's counter advances by k.
LEMMA ReaderAdvances ==
  ASSUME NEW a, NEW b, NEW u, Apart(a, b, u), NEW k \in Nat, k <= u
  PROVE  Apart((a + k) % Wrap, b, u - k)
<1> DEFINE x == a + k
           c == x % Wrap
<1>1. Wrap \in Nat /\ Wrap > 0
  BY WrapSize
<1>2. x \in 0..2*Wrap-1
  BY <1>1 DEF Apart
<1> HIDE DEF x
<1>3. c = IF x < Wrap THEN x ELSE x - Wrap
  BY <1>1, <1>2, Counter
<1> HIDE DEF c
<1>4. Apart(c, b, u - k)
  BY <1>1, <1>2, <1>3 DEF Apart, x
<1>5. QED
  BY <1>4 DEF c, x

\* Where the i-th byte of the pipe is.
LEMMA Place ==
  ASSUME NEW n \in Nat, NEW i \in Nat, i > 0
  PROVE  /\ ((n + i - 1) % Wrap) % PIPESIZE = (n + (i - 1)) % PIPESIZE
         /\ (n + (i - 1)) % PIPESIZE \in 0..PIPESIZE-1
<1>1. n + i - 1 \in Nat /\ n + i - 1 = n + (i - 1) /\ 0 \in Nat
  OBVIOUS
<1>2. (n + i - 1) % Wrap \in Nat /\ PIPESIZE \in Nat /\ PIPESIZE > 0
  <2>1. Wrap \in Nat /\ Wrap > 0 /\ PIPESIZE \in Nat /\ PIPESIZE > 0
    BY WrapSize
  <2>2. (n + i - 1) % Wrap \in 0..Wrap-1
    BY <1>1, <2>1, Division
  <2>3. QED
    BY <2>1, <2>2
<1>3. (((n + i - 1) % Wrap) + 0) % PIPESIZE = ((n + i - 1) + 0) % PIPESIZE
  BY <1>1, Index
<1>4. ((n + i - 1) % Wrap) + 0 = (n + i - 1) % Wrap /\ (n + i - 1) + 0 = n + (i - 1)
  BY <1>1, <1>2
<1>5. (n + (i - 1)) % PIPESIZE \in 0..PIPESIZE-1
  BY <1>1, <1>2, Division
<1>6. QED
  BY <1>3, <1>4, <1>5

\* Where pipewrite() goes on, seen from the reader's counter.
LEMMA ApartIndex ==
  ASSUME NEW a, NEW b, NEW u, Apart(a, b, u)
  PROVE  b % PIPESIZE = (a + u) % PIPESIZE
<1> DEFINE x == a + u
           i == u + 1
<1>1. Wrap \in Nat /\ Wrap > 0
  BY WrapSize
<1>2. x \in 0..2*Wrap-1 /\ b = IF x < Wrap THEN x ELSE x - Wrap
  BY <1>1 DEF Apart
<1>3. a \in Nat /\ i \in Nat /\ i > 0 /\ a + i - 1 = x /\ a + (i - 1) = x
  BY <1>1 DEF Apart
<1> HIDE DEF x, i
<1>4. b = x % Wrap
  BY <1>1, <1>2, Counter
<1>5. ((a + i - 1) % Wrap) % PIPESIZE = (a + (i - 1)) % PIPESIZE
  BY <1>3, Place
<1>6. QED
  BY <1>3, <1>4, <1>5, Zenon DEF x
-----------------------------------------------------------------------------
(***************************************************************************)
(* The bytes of the pipe.                                                  *)
(***************************************************************************)

\* What a cell of data[] contains.
Cell == Byte \cup {Junk}

\* The u bytes of d from the counter n on.
Piece(d, n, u) == [i \in 1..u |-> d[(n + (i - 1)) % PIPESIZE]]

\* The bytes from n on are the contents of the pipe.
LEMMA PieceIs ==
  ASSUME NEW d, NEW n \in Nat, NEW u \in Nat
  PROVE  [i \in 1..u |-> d[((n + i - 1) % Wrap) % PIPESIZE]] = Piece(d, n, u)
<1>1. ASSUME NEW i \in 1..u
      PROVE  ((n + i - 1) % Wrap) % PIPESIZE = (n + (i - 1)) % PIPESIZE
  <2>1. i \in Nat /\ i > 0
    OBVIOUS
  <2>2. QED
    BY <2>1, Place
<1>2. QED
  BY <1>1, Zenon DEF Piece

LEMMA PieceSeq ==
  ASSUME NEW d \in [0..PIPESIZE-1 -> Cell], NEW n \in Nat, NEW u \in Nat
  PROVE  Piece(d, n, u) \in Seq(Cell) /\ Len(Piece(d, n, u)) = u
<1>1. ASSUME NEW i \in 1..u PROVE d[(n + (i - 1)) % PIPESIZE] \in Cell
  <2>1. i \in Nat /\ i > 0
    OBVIOUS
  <2>2. (n + (i - 1)) % PIPESIZE \in 0..PIPESIZE-1
    BY <2>1, Place
  <2>3. QED
    BY <2>2
<1> DEFINE f(i) == d[(n + (i - 1)) % PIPESIZE]
<1>2. \A i \in 1..u : f(i) \in Cell
  BY <1>1, Zenon
<1>3. Piece(d, n, u) = [i \in 1..u |-> f(i)]
  BY DEF Piece
<1> HIDE DEF f
<1>4. [i \in 1..u |-> f(i)] \in Seq(Cell) /\ Len([i \in 1..u |-> f(i)]) = u
  BY <1>2
<1>5. QED
  BY <1>3, <1>4

\* What Copy() makes of data[] when it begins at the index b.
CopiedData(d, b, s, k) ==
  [i \in 0..PIPESIZE-1 |-> LET j == (i + PIPESIZE - b) % PIPESIZE
                           IN IF j < k THEN s[j + 1] ELSE d[i]]

\* Copying k bytes of s to where the pipe ends.
LEMMA PieceCopied ==
  ASSUME NEW d \in [0..PIPESIZE-1 -> Cell], NEW n \in Nat, NEW u \in Nat,
         NEW s \in Seq(Cell), NEW k \in 0..Len(s), u + k <= PIPESIZE
  PROVE  Piece(CopiedData(d, (n + u) % PIPESIZE, s, k), n, u + k)
           = Piece(d, n, u) \o SubSeq(s, 1, k)
<1> DEFINE e == CopiedData(d, (n + u) % PIPESIZE, s, k)
           at(i) == (n + (i - 1)) % PIPESIZE
           off(i) == (at(i) + PIPESIZE - ((n + u) % PIPESIZE)) % PIPESIZE
<1>1. ASSUME NEW i \in 1..u+k
      PROVE  /\ at(i) \in 0..PIPESIZE-1
             /\ off(i) = IF i - 1 >= u THEN i - 1 - u ELSE PIPESIZE + (i - 1) - u
  <2>1. i \in Nat /\ i > 0 /\ i - 1 \in 0..PIPESIZE-1 /\ u \in 0..PIPESIZE
    BY WrapSize
  <2>2. at(i) \in 0..PIPESIZE-1
    BY <2>1, Place, Zenon
  <2>3. QED
    BY <2>1, <2>2, Offset, Zenon
<1>2. ASSUME NEW i \in 1..u+k
      PROVE  e[at(i)] = IF off(i) < k THEN s[off(i) + 1] ELSE d[at(i)]
  BY <1>1, Zenon DEF CopiedData
<1> HIDE DEF off, e
<1>3. ASSUME NEW i \in 1..u+k
      PROVE  e[at(i)] = IF i <= u THEN d[at(i)] ELSE s[i - u]
  <2> HIDE DEF at
  <2>1. CASE i <= u
    <3>1. ~(off(i) < k)
      BY <1>1, <2>1, WrapSize
    <3>2. QED
      BY <1>2, <2>1, <3>1, Zenon
  <2>2. CASE i > u
    <3>1. off(i) < k /\ off(i) + 1 = i - u /\ ~(i <= u)
      BY <1>1, <2>2
    <3>2. QED
      BY <1>2, <3>1
  <2>3. QED
    BY <2>1, <2>2
<1>4. /\ Piece(e, n, u + k) = [i \in 1..u+k |-> e[at(i)]]
      /\ Piece(d, n, u) = [i \in 1..u |-> d[at(i)]]
  BY Zenon DEF Piece
<1>5. Piece(d, n, u) \in Seq(Cell) /\ Len(Piece(d, n, u)) = u
  BY PieceSeq, Zenon
<1>6. SubSeq(s, 1, k) \in Seq(Cell) /\ Len(SubSeq(s, 1, k)) = k
      /\ \A i \in 1..k : SubSeq(s, 1, k)[i] = s[i]
  OBVIOUS
<1> HIDE DEF at
<1>7. \A i \in 1..u+k : (Piece(d, n, u) \o SubSeq(s, 1, k))[i]
                          = IF i <= u THEN d[at(i)] ELSE s[i - u]
  BY <1>4, <1>5, <1>6
<1>8. Piece(d, n, u) \o SubSeq(s, 1, k)
        = [i \in 1..u+k |-> (Piece(d, n, u) \o SubSeq(s, 1, k))[i]]
  <2> DEFINE x == Piece(d, n, u) \o SubSeq(s, 1, k)
  <2>1. x \in Seq(Cell) /\ Len(x) = u + k
    BY <1>5, <1>6
  <2> HIDE DEF x
  <2>2. x = [i \in 1..u+k |-> x[i]]
    BY <2>1
  <2>3. QED
    BY <2>2 DEF x
<1>9. \A i \in 1..u+k : e[at(i)] = (Piece(d, n, u) \o SubSeq(s, 1, k))[i]
  BY <1>3, <1>7, Zenon
<1>10. QED
  BY <1>4, <1>8, <1>9, Zenon DEF e

\* What remains when k bytes have been taken.
LEMMA PieceTaken ==
  ASSUME NEW d \in [0..PIPESIZE-1 -> Cell], NEW n \in Nat, NEW u \in Nat, NEW k \in 0..u
  PROVE  Piece(d, (n + k) % Wrap, u - k) = SubSeq(Piece(d, n, u), k + 1, u)
<1>1. ASSUME NEW i \in 1..u-k
      PROVE  (((n + k) % Wrap) + (i - 1)) % PIPESIZE = (n + ((k + i) - 1)) % PIPESIZE
  <2>1. n + k \in Nat /\ i - 1 \in Nat /\ (n + k) + (i - 1) = n + ((k + i) - 1)
    OBVIOUS
  <2>2. (((n + k) % Wrap) + (i - 1)) % PIPESIZE = ((n + k) + (i - 1)) % PIPESIZE
    BY <2>1, Index
  <2>3. QED
    BY <2>1, <2>2
<1> DEFINE f(i) == d[(n + (i - 1)) % PIPESIZE]
<1>2. Piece(d, (n + k) % Wrap, u - k) = [i \in 1..u-k |-> f(k + i)]
  BY <1>1, Zenon DEF Piece
<1>3. Piece(d, n, u) = [i \in 1..u |-> f(i)]
  BY DEF Piece
<1>4. Piece(d, n, u) \in Seq(Cell) /\ Len(Piece(d, n, u)) = u
  BY PieceSeq
<1> HIDE DEF f
<1>5. SubSeq(Piece(d, n, u), k + 1, u) = [i \in 1..u-k |-> f(k + i)]
  BY <1>3, <1>4
<1>6. QED
  BY <1>2, <1>5

\* What the pipe holds.
LEMMA Holds ==
  ASSUME TypeOK
  PROVE  /\ nread \in Nat /\ Used \in 0..PIPESIZE /\ Apart(nread, nwrite, Used)
         /\ Contents = Piece(data, nread, Used)
         /\ Contents \in Seq(Cell) /\ Len(Contents) = Used
<1>1. /\ nread \in 0..Wrap-1 /\ nwrite \in 0..Wrap-1 /\ Used <= PIPESIZE
      /\ data \in [0..PIPESIZE-1 -> Cell]
  BY Zenon DEF TypeOK, Cell
<1>2. Apart(nread, nwrite, Used)
  BY <1>1, Distance, Zenon DEF Used
<1>3. nread \in Nat /\ Used \in 0..PIPESIZE /\ Used \in Nat
  BY <1>1, <1>2, WrapSize DEF Apart
<1>4. Contents = Piece(data, nread, Used)
  BY <1>3, PieceIs, Zenon DEF Contents
<1>5. Contents \in Seq(Cell) /\ Len(Contents) = Used
  BY <1>1, <1>3, <1>4, PieceSeq, Zenon
<1>6. QED
  BY <1>2, <1>3, <1>4, <1>5

\* Copying bytes into the pipe appends them to its contents.
LEMMA Copied ==
  ASSUME TypeOK, NEW s \in Seq(Byte), NEW k \in 0..Len(s), Used + k <= PIPESIZE,
         Copy(s, k), nread' = nread
  PROVE  /\ Used' = Used + k /\ Contents' = Contents \o SubSeq(s, 1, k)
         /\ nwrite' \in 0..Wrap-1 /\ data' \in [0..PIPESIZE-1 -> Cell]
<1>1. /\ nread \in Nat /\ Used \in Nat /\ Apart(nread, nwrite, Used)
      /\ Contents = Piece(data, nread, Used)
  BY Holds
<1>2. k \in Nat /\ Used + k < Wrap /\ Used + k \in Nat
  BY <1>1, WrapSize
<1>3. Apart(nread, nwrite', Used + k)
  BY <1>1, <1>2, WriterAdvances, Zenon DEF Copy
<1>4. Used' = Used + k /\ nwrite' \in 0..Wrap-1
  <2>1. (nwrite' + Wrap - nread) % Wrap = Used + k
    BY <1>3, ApartDistance, Zenon
  <2>2. nwrite' \in 0..Wrap-1
    BY <1>3 DEF Apart
  <2>3. QED
    BY <2>1, <2>2, Zenon DEF Used
<1>5. data \in [0..PIPESIZE-1 -> Cell] /\ s \in Seq(Cell)
  BY DEF TypeOK, Cell
<1>6. nwrite % PIPESIZE = (nread + Used) % PIPESIZE
  BY <1>1, ApartIndex
<1>7. data' = CopiedData(data, (nread + Used) % PIPESIZE, s, k)
  BY <1>6, Zenon DEF Copy, CopiedData
<1>8. Contents' = Contents \o SubSeq(s, 1, k)
  <2>1. Contents' = [i \in 1..Used' |-> data'[((nread' + i - 1) % Wrap) % PIPESIZE]]
    BY Zenon DEF Contents
  <2>2. Contents' = Piece(data', nread, Used + k)
    <3>1. [i \in 1..Used+k |-> data'[((nread + i - 1) % Wrap) % PIPESIZE]]
            = Piece(data', nread, Used + k)
      BY <1>1, <1>2, PieceIs, Zenon
    <3>2. QED
      BY <1>4, <2>1, <3>1, Zenon
  <2>3. Piece(data', nread, Used + k) = Piece(data, nread, Used) \o SubSeq(s, 1, k)
    <3>1. Piece(CopiedData(data, (nread + Used) % PIPESIZE, s, k), nread, Used + k)
            = Piece(data, nread, Used) \o SubSeq(s, 1, k)
      BY <1>1, <1>5, PieceCopied, Zenon
    <3>2. QED
      BY <1>7, <3>1, Zenon
  <2>4. QED
    BY <1>1, <2>2, <2>3, Zenon
<1>9. data' \in [0..PIPESIZE-1 -> Cell]
  <2> DEFINE b == (nread + Used) % PIPESIZE
             j(i) == (i + PIPESIZE - b) % PIPESIZE
  <2>1. PIPESIZE \in Nat /\ PIPESIZE > 0 /\ nread + Used \in Int
    BY <1>1, WrapSize
  <2>2. b \in 0..PIPESIZE-1
    BY <2>1, Division, Zenon
  <2> HIDE DEF b
  <2>3. ASSUME NEW i \in 0..PIPESIZE-1 PROVE j(i) \in Nat
    <3>1. i + PIPESIZE - b \in Int
      BY <2>1, <2>2
    <3>2. j(i) \in 0..PIPESIZE-1
      BY <2>1, <3>1, Division, Zenon
    <3> HIDE DEF j
    <3>3. QED
      BY <2>1, <3>2
  <2>4. data' = [i \in 0..PIPESIZE-1 |-> IF j(i) < k THEN s[j(i) + 1] ELSE data[i]]
    BY <1>7, Zenon DEF CopiedData, b
  <2> HIDE DEF j
  <2>5. QED
    BY <1>2, <1>5, <2>3, <2>4
<1>10. QED
  BY <1>4, <1>8, <1>9

\* Taking bytes from the pipe leaves the others.
LEMMA Taken ==
  ASSUME TypeOK, NEW k \in 0..Used, nread' = (nread + k) % Wrap, UNCHANGED <<data, nwrite>>
  PROVE  /\ Used' = Used - k /\ Contents' = SubSeq(Contents, k + 1, Len(Contents))
         /\ nread' \in 0..Wrap-1
<1>1. /\ nread \in Nat /\ Used \in Nat /\ Apart(nread, nwrite, Used)
      /\ Contents = Piece(data, nread, Used) /\ Len(Contents) = Used
  BY Holds
<1>2. k \in Nat /\ k <= Used /\ Used - k \in Nat
  BY <1>1
<1>3. Apart(nread', nwrite', Used - k)
  BY <1>1, <1>2, ReaderAdvances, Zenon
<1>4. Used' = Used - k /\ nread' \in 0..Wrap-1
  <2>1. (nwrite' + Wrap - nread') % Wrap = Used - k
    BY <1>3, ApartDistance, Zenon
  <2>2. nread' \in 0..Wrap-1
    BY <1>3 DEF Apart
  <2>3. QED
    BY <2>1, <2>2, Zenon DEF Used
<1>5. Contents' = SubSeq(Contents, k + 1, Len(Contents))
  <2>1. Contents' = [i \in 1..Used' |-> data'[((nread' + i - 1) % Wrap) % PIPESIZE]]
    BY Zenon DEF Contents
  <2>2. nread' \in Nat /\ data' = data
    BY <1>4, WrapSize
  <2>3. Contents' = Piece(data, nread', Used - k)
    <3>1. [i \in 1..Used-k |-> data[((nread' + i - 1) % Wrap) % PIPESIZE]]
            = Piece(data, nread', Used - k)
      BY <1>2, <2>2, PieceIs, Zenon
    <3>2. QED
      BY <1>4, <2>1, <2>2, <3>1, Zenon
  <2>4. Piece(data, nread', Used - k) = SubSeq(Piece(data, nread, Used), k + 1, Used)
    <3>1. data \in [0..PIPESIZE-1 -> Cell]
      BY DEF TypeOK, Cell
    <3>2. QED
      BY <1>1, <3>1, PieceTaken, Zenon
  <2>5. QED
    BY <1>1, <2>3, <2>4, Zenon
<1>6. QED
  BY <1>4, <1>5

-----------------------------------------------------------------------------
(***************************************************************************)
(* Every step keeps the invariant.                                         *)
(***************************************************************************)

\* wakeup() makes the sleepers of ps test again, and touches nobody else.
LEMMA WakenedIs ==
  ASSUME NEW ps, NEW pcs \in [Users -> Places]
  PROVE  /\ Wakened(ps, pcs) \in [Users -> Places]
         /\ \A q \in Users : Wakened(ps, pcs)[q]
                               = IF q \in ps /\ pcs[q] = "sleep" THEN "test" ELSE pcs[q]
  BY DEF Wakened, Places

\* A step in which nobody closes an end.
LEMMA EndsKept ==
  ASSUME PInv, \A q \in Users : pc'[q] = "closed" <=> pc[q] = "closed",
         UNCHANGED <<readopen, writeopen, freed>>
  PROVE  EndsInv' /\ FreedWhenUnused'
<1>1. /\ \A w \in Writers : pc'[w] = "closed" <=> pc[w] = "closed"
      /\ \A r \in Readers : pc'[r] = "closed" <=> pc[r] = "closed"
  BY Zenon DEF Users
<1>2. EndsInv /\ FreedWhenUnused
  BY Zenon DEF PInv, PipeSound
<1>3. EndsInv'
  BY <1>1, <1>2 DEF EndsInv
<1>4. FreedWhenUnused'
  BY <1>2 DEF FreedWhenUnused
<1>5. QED
  BY <1>3, <1>4

\* A step that leaves the counters and data[] alone leaves what the pipe holds.
LEMMA SameBytes ==
  ASSUME UNCHANGED <<data, nread, nwrite>>
  PROVE  Used' = Used /\ Contents' = Contents
  BY DEF Used, Contents

LEMMA RoomIs ==
  ASSUME TypeOK, NEW s \in Seq(Byte)
  PROVE  /\ Room(s) \in 0..Len(s) /\ Used + Room(s) <= PIPESIZE
         /\ Room(s) < Len(s) => Used + Room(s) = PIPESIZE
<1>1. Used \in 0..PIPESIZE
  BY Holds, Zenon
<1>2. QED
  BY <1>1, WrapSize DEF Room

\* pipewrite(): what changes.
LEMMA pipewriteEffect ==
  ASSUME PInv, NEW w \in Writers, NEW s \in Seq(Byte), pipewrite(w, s)
  PROVE  LET k == Room(s)
             fails == k < Len(s) /\ (~readopen \/ w \in killed)
         IN /\ pc[w] \in {"out", "test"}
            /\ Used' = Used + k /\ Contents' = Contents \o SubSeq(s, 1, k)
            /\ nwrite' \in 0..Wrap-1 /\ data' \in [0..PIPESIZE-1 -> Cell]
            /\ pc' \in [Users -> Places]
            /\ pc'[w] = IF fails \/ k = Len(s) THEN "out" ELSE "sleep"
            /\ \A q \in Users \ {w} :
                 pc'[q] = IF ~fails /\ q \in Readers /\ pc[q] = "sleep" THEN "test" ELSE pc[q]
            /\ left' \in [Writers -> Seq(Byte)] /\ failed' \in [Writers -> BOOLEAN]
            /\ left'[w] = IF fails THEN <<>> ELSE SubSeq(s, k + 1, Len(s))
            /\ failed'[w] = fails
            /\ \A v \in Writers \ {w} : left'[v] = left[v] /\ failed'[v] = failed[v]
            /\ UNCHANGED <<nread, readopen, writeopen, freed, want, got, killed>>
<1> DEFINE k == Room(s)
           fails == k < Len(s) /\ (~readopen \/ w \in killed)
           place == IF k = Len(s) THEN "out" ELSE "sleep"
<1>1. /\ pc[w] \in {"out", "test"} /\ Copy(s, k)
      /\ failed' = [failed EXCEPT ![w] = fails]
      /\ left' = [left EXCEPT ![w] = IF fails THEN <<>> ELSE SubSeq(s, k + 1, Len(s))]
      /\ pc' = IF fails THEN [pc EXCEPT ![w] = "out"]
                        ELSE Wakened(Readers, [pc EXCEPT ![w] = place])
      /\ UNCHANGED <<nread, readopen, writeopen, freed, want, got, killed>>
  BY DEF pipewrite, CanRun
<1>2. TypeOK /\ w \in Users /\ w \notin Readers
  BY PipeAssumption DEF PInv, PipeSound, Users
<1>3. k \in 0..Len(s) /\ Used + k <= PIPESIZE
  BY <1>2, RoomIs
<1> HIDE DEF k
<1>4. /\ Used' = Used + k /\ Contents' = Contents \o SubSeq(s, 1, k)
      /\ nwrite' \in 0..Wrap-1 /\ data' \in [0..PIPESIZE-1 -> Cell]
  BY <1>1, <1>2, <1>3, Copied
<1>5. pc \in [Users -> Places] /\ left \in [Writers -> Seq(Byte)] /\ failed \in [Writers -> BOOLEAN]
  BY <1>2, Zenon DEF TypeOK
<1>6. SubSeq(s, k + 1, Len(s)) \in Seq(Byte) /\ <<>> \in Seq(Byte)
  BY <1>3
<1> HIDE DEF fails
<1>7. /\ left' \in [Writers -> Seq(Byte)]
      /\ left'[w] = IF fails THEN <<>> ELSE SubSeq(s, k + 1, Len(s))
      /\ \A v \in Writers \ {w} : left'[v] = left[v]
  BY <1>1, <1>5, <1>6
<1>8. /\ failed' \in [Writers -> BOOLEAN] /\ failed'[w] = fails
      /\ \A v \in Writers \ {w} : failed'[v] = failed[v]
  BY <1>1, <1>5, Zenon DEF fails
<1>9. /\ pc' \in [Users -> Places]
      /\ pc'[w] = IF fails \/ k = Len(s) THEN "out" ELSE "sleep"
      /\ \A q \in Users \ {w} :
           pc'[q] = IF ~fails /\ q \in Readers /\ pc[q] = "sleep" THEN "test" ELSE pc[q]
  <2>1. CASE fails
    BY <1>1, <1>2, <1>5, <2>1 DEF Places
  <2>2. CASE ~fails
    <3> DEFINE pcs == [pc EXCEPT ![w] = place]
    <3>1. pcs \in [Users -> Places] /\ pcs[w] = place /\ \A q \in Users \ {w} : pcs[q] = pc[q]
      BY <1>2, <1>5 DEF Places
    <3>2. pc' = Wakened(Readers, pcs)
      BY <1>1, <2>2
    <3> HIDE DEF pcs
    <3>3. /\ pc' \in [Users -> Places]
          /\ \A q \in Users : pc'[q] = IF q \in Readers /\ pcs[q] = "sleep" THEN "test" ELSE pcs[q]
      BY <3>1, <3>2, WakenedIs
    <3>4. QED
      BY <1>2, <2>2, <3>1, <3>3
  <2>3. QED
    BY <2>1, <2>2
<1>10. QED
  BY <1>1, <1>4, <1>7, <1>8, <1>9, Zenon DEF k, fails

LEMMA pipewriteStep ==
  ASSUME PInv, NEW w \in Writers, NEW s \in Seq(Byte), pipewrite(w, s)
  PROVE  PInv'
<1> DEFINE k == Room(s)
           fails == k < Len(s) /\ (~readopen \/ w \in killed)
<1>1. /\ pc[w] \in {"out", "test"}
      /\ Used' = Used + k /\ Contents' = Contents \o SubSeq(s, 1, k)
      /\ nwrite' \in 0..Wrap-1 /\ data' \in [0..PIPESIZE-1 -> Cell]
      /\ pc' \in [Users -> Places]
      /\ pc'[w] = IF fails \/ k = Len(s) THEN "out" ELSE "sleep"
      /\ \A q \in Users \ {w} :
           pc'[q] = IF ~fails /\ q \in Readers /\ pc[q] = "sleep" THEN "test" ELSE pc[q]
      /\ left' \in [Writers -> Seq(Byte)] /\ failed' \in [Writers -> BOOLEAN]
      /\ left'[w] = IF fails THEN <<>> ELSE SubSeq(s, k + 1, Len(s))
      /\ failed'[w] = fails
      /\ \A v \in Writers \ {w} : left'[v] = left[v] /\ failed'[v] = failed[v]
      /\ UNCHANGED <<nread, readopen, writeopen, freed, want, got, killed>>
  BY pipewriteEffect, Zenon
<1>2. TypeOK /\ NoLostWakeup /\ EndsInv /\ CallsInv
  BY Zenon DEF PInv, PipeSound
<1>3. /\ k \in 0..Len(s) /\ Used + k <= PIPESIZE /\ (k < Len(s) => Used + k = PIPESIZE)
      /\ Used \in 0..PIPESIZE /\ Contents \in Seq(Cell) /\ Len(Contents) = Used
  BY <1>2, RoomIs, Holds
<1>4. fails <=> k < Len(s) /\ (~readopen \/ w \in killed)
  OBVIOUS
<1> HIDE DEF k, fails
<1>5. Writers \subseteq Users /\ Readers \subseteq Users /\ \A r \in Readers : r # w
  BY PipeAssumption DEF Users
<1>6. TypeOK'
  <2>1. Used' <= PIPESIZE
    BY <1>1, <1>3
  <2>2. QED
    BY <1>1, <1>2, <2>1, Zenon DEF TypeOK, Cell
<1>7. NoLostWakeup'
  <2>1. ASSUME NEW r \in Readers, pc'[r] = "sleep"
        PROVE  writeopen' /\ \E v \in Writers \cap killed' : failed'[v]
    <3>1. pc[r] = "sleep" /\ fails
      BY <1>1, <1>5, <2>1
    <3>2. readopen /\ writeopen
      BY <1>2, <3>1 DEF EndsInv, NoLostWakeup
    <3>3. QED
      BY <1>1, <1>4, <3>1, <3>2, Zenon
  <2>2. ASSUME NEW v \in Writers, pc'[v] = "sleep"
        PROVE  Used' = PIPESIZE /\ readopen'
    <3>1. CASE v = w
      <4>1. ~fails /\ k < Len(s)
        BY <1>1, <1>3, <2>2, <3>1
      <4>2. QED
        BY <1>1, <1>3, <1>4, <4>1
    <3>2. CASE v # w
      <4>1. pc[v] = "sleep"
        BY <1>1, <1>5, <2>2, <3>2
      <4>2. Used = PIPESIZE /\ readopen
        BY <1>2, <4>1 DEF NoLostWakeup
      <4>3. QED
        BY <1>1, <1>3, <4>2
    <3>3. QED
      BY <3>1, <3>2
  <2>3. QED
    BY <2>1, <2>2, Zenon DEF NoLostWakeup
<1>8. EndsInv' /\ FreedWhenUnused'
  <2>1. \A q \in Users : pc'[q] = "closed" <=> pc[q] = "closed"
    BY <1>1
  <2>2. QED
    BY <1>1, <2>1, EndsKept
<1>9. CallsInv'
  <2>1. ASSUME NEW v \in Writers PROVE (left'[v] = <<>>) <=> (pc'[v] \in {"out", "closed"})
    <3>1. CASE v # w
      <4>a. v \notin Readers /\ v \in Users
        BY <1>5, PipeAssumption
      <4>1. left'[v] = left[v] /\ pc'[v] = pc[v]
        BY <1>1, <3>1, <4>a, Zenon
      <4>2. QED
        BY <1>2, <4>1 DEF CallsInv
    <3>2. CASE v = w
      <4>1. SubSeq(s, k + 1, Len(s)) = <<>> <=> k = Len(s)
        <5> DEFINE x == SubSeq(s, k + 1, Len(s))
        <5>1. Len(x) = Len(s) - k /\ x \in Seq(Byte)
          BY <1>3
        <5> HIDE DEF x
        <5>2. x = <<>> <=> Len(x) = 0
          BY <5>1
        <5>3. x = <<>> <=> k = Len(s)
          BY <1>3, <5>1, <5>2
        <5>4. QED
          BY <5>3 DEF x
      <4>2. fails => k # Len(s)
        BY <1>3, <1>4
      <4>3. QED
        BY <1>1, <3>2, <4>1, <4>2, Zenon
    <3>3. QED
      BY <3>1, <3>2
  <2>2. ASSUME NEW r \in Readers, pc'[r] \notin {"out", "closed"} PROVE want'[r] >= 1
    <3>1. pc[r] \notin {"out", "closed"}
      BY <1>1, <1>5, <2>2
    <3>2. QED
      BY <1>1, <1>2, <3>1 DEF CallsInv
  <2>3. ASSUME NEW i \in 1..Used' PROVE Contents'[i] \in Byte
    <3>1. /\ SubSeq(s, 1, k) \in Seq(Byte) /\ Len(SubSeq(s, 1, k)) = k
          /\ \A j \in 1..k : SubSeq(s, 1, k)[j] \in Byte
      BY <1>3
    <3>2. CASE i <= Used
      <4>1. i \in 1..Used /\ Contents'[i] = Contents[i]
        BY <1>1, <1>3, <2>3, <3>1, <3>2
      <4>2. QED
        BY <1>2, <4>1, Zenon DEF CallsInv
    <3>3. CASE i > Used
      <4>1. i - Used \in 1..k /\ Contents'[i] = SubSeq(s, 1, k)[i - Used]
        BY <1>1, <1>3, <2>3, <3>1, <3>3
      <4>2. QED
        BY <3>1, <4>1, Zenon
    <3>4. QED
      BY <1>1, <1>3, <3>2, <3>3
  <2>4. QED
    BY <2>1, <2>2, <2>3, Zenon DEF CallsInv
<1>10. QED
  BY <1>6, <1>7, <1>8, <1>9, Zenon DEF PInv, PipeSound

\* The parts of the invariant that depend on where processes are and on Used alone, when
\* the pipe is not written to.
LEMMA CallsKept ==
  ASSUME PInv, UNCHANGED <<left, data, nread, nwrite>>,
         \A w \in Writers : pc'[w] \in {"out", "closed"} <=> pc[w] \in {"out", "closed"},
         \A r \in Readers : pc'[r] \notin {"out", "closed"} => want'[r] >= 1
  PROVE  CallsInv'
<1>1. CallsInv
  BY Zenon DEF PInv
<1>2. Used' = Used /\ Contents' = Contents
  BY SameBytes
<1>3. QED
  BY <1>1, <1>2, Zenon DEF CallsInv

\* piperead() that finds the pipe empty.
LEMMA pipereadWaits ==
  ASSUME PInv, NEW r \in Readers, NEW n \in Nat, n >= 1, piperead(r, n), MustWait(r, n)
  PROVE  PInv'
<1>1. /\ pc[r] \in {"out", "test"} /\ Used = 0 /\ writeopen
      /\ \/ pc' = [pc EXCEPT ![r] = "sleep"] /\ want' = [want EXCEPT ![r] = n]
         \/ pc' = [pc EXCEPT ![r] = "out"] /\ want' = want
      /\ UNCHANGED <<data, nread, nwrite, readopen, writeopen, freed, left, failed, got, killed>>
  BY DEF piperead, MustWait, CanRun
<1>2. TypeOK /\ NoLostWakeup /\ CallsInv
  BY Zenon DEF PInv, PipeSound
<1>3. Used' = Used /\ Contents' = Contents
  BY <1>1, SameBytes
<1>4. /\ pc \in [Users -> Places] /\ want \in [Readers -> Nat] /\ r \in Users /\ r \notin Writers
      /\ Readers \subseteq Users /\ Writers \subseteq Users
  BY <1>2, PipeAssumption DEF TypeOK, Users
<1>5. /\ pc' \in [Users -> Places] /\ want' \in [Readers -> Nat]
      /\ \A q \in Users \ {r} : pc'[q] = pc[q]
      /\ pc'[r] = "out" \/ (pc'[r] = "sleep" /\ want'[r] = n)
      /\ \A q \in Readers \ {r} : want'[q] = want[q]
  BY <1>1, <1>4 DEF Places
<1>6. TypeOK'
  BY <1>1, <1>2, <1>3, <1>5, Zenon DEF TypeOK
<1>7. NoLostWakeup'
  BY <1>1, <1>2, <1>3, <1>4, <1>5 DEF NoLostWakeup
<1>8. EndsInv' /\ FreedWhenUnused'
  <2>1. \A q \in Users : pc'[q] = "closed" <=> pc[q] = "closed"
    BY <1>1, <1>5
  <2>2. QED
    BY <1>1, <2>1, EndsKept
<1>9. CallsInv'
  <2>1. \A v \in Writers : pc'[v] = pc[v]
    BY <1>4, <1>5
  <2>2. \A q \in Readers : pc'[q] \notin {"out", "closed"} => want'[q] >= 1
    BY <1>2, <1>4, <1>5 DEF CallsInv
  <2>3. QED
    BY <1>1, <2>1, <2>2, CallsKept
<1>10. QED
  BY <1>6, <1>7, <1>8, <1>9, Zenon DEF PInv, PipeSound

\* piperead() that takes bytes, or finds the end of the stream: what changes.
LEMMA pipereadEffect ==
  ASSUME PInv, NEW r \in Readers, NEW n \in Nat, n >= 1, piperead(r, n), ~MustWait(r, n)
  PROVE  \E k \in 0..Used :
            /\ k = (IF n < Used THEN n ELSE Used)
            /\ pc[r] \in {"out", "test"}
            /\ Used' = Used - k /\ Contents' = SubSeq(Contents, k + 1, Len(Contents))
            /\ nread' \in 0..Wrap-1
            /\ got' = [got EXCEPT ![r] = SubSeq(Contents, 1, k)]
            /\ got' \in [Readers -> Seq(Byte)]
            /\ pc' \in [Users -> Places] /\ pc'[r] = "out"
            /\ \A q \in Users \ {r} :
                 pc'[q] = IF q \in Writers /\ pc[q] = "sleep" THEN "test" ELSE pc[q]
            /\ want' \in [Readers -> Nat] /\ \A q \in Readers \ {r} : want'[q] = want[q]
            /\ UNCHANGED <<data, nwrite, readopen, writeopen, freed, left, failed, killed>>
<1> DEFINE k == IF n < Used THEN n ELSE Used
           pcs == [pc EXCEPT ![r] = "out"]
<1>1. /\ pc[r] \in {"out", "test"} /\ nread' = (nread + k) % Wrap
      /\ got' = [got EXCEPT ![r] = SubSeq(Contents, 1, k)]
      /\ pc' = Wakened(Writers, pcs) /\ want' = [want EXCEPT ![r] = n]
      /\ UNCHANGED <<data, nwrite, readopen, writeopen, freed, left, failed, killed>>
  BY DEF piperead, CanRun
<1>2. TypeOK /\ CallsInv
  BY Zenon DEF PInv, PipeSound
<1>3. /\ Used \in 0..PIPESIZE /\ Contents \in Seq(Cell) /\ Len(Contents) = Used
      /\ k \in 0..Used /\ k = IF n < Used THEN n ELSE Used
  <2>1. Used \in 0..PIPESIZE /\ Contents \in Seq(Cell) /\ Len(Contents) = Used
    BY <1>2, Holds, Zenon
  <2>2. QED
    BY <2>1, WrapSize
<1> HIDE DEF k
<1>4. /\ Used' = Used - k /\ Contents' = SubSeq(Contents, k + 1, Len(Contents))
      /\ nread' \in 0..Wrap-1
  <2>1. UNCHANGED <<data, nwrite>>
    BY <1>1, Zenon
  <2>2. QED
    BY <1>1, <1>2, <1>3, <2>1, Taken, Zenon
<1>5. /\ pc \in [Users -> Places] /\ want \in [Readers -> Nat] /\ got \in [Readers -> Seq(Byte)]
      /\ r \in Users /\ r \notin Writers
  BY <1>2, PipeAssumption DEF TypeOK, Users
<1>6. got' \in [Readers -> Seq(Byte)]
  <2>1. \A i \in 1..Used : Contents[i] \in Byte
    BY <1>2, Zenon DEF CallsInv
  <2>2. /\ Len(SubSeq(Contents, 1, k)) = k /\ SubSeq(Contents, 1, k) \in Seq(Cell)
        /\ \A i \in 1..k : SubSeq(Contents, 1, k)[i] = Contents[i] /\ i \in 1..Used
    BY <1>3
  <2> DEFINE x == SubSeq(Contents, 1, k)
  <2>3. x \in Seq(Cell) /\ Len(x) = k /\ k \in Nat /\ \A i \in 1..k : x[i] \in Byte
    BY <1>3, <2>1, <2>2
  <2>4. got' = [got EXCEPT ![r] = x]
    BY <1>1, Zenon
  <2> HIDE DEF x
  <2>5. x \in Seq(Byte)
    BY <2>3
  <2>6. QED
    BY <1>5, <2>4, <2>5
<1>7. want' \in [Readers -> Nat] /\ \A q \in Readers \ {r} : want'[q] = want[q]
  BY <1>1, <1>5
<1>8. /\ pc' \in [Users -> Places] /\ pc'[r] = "out"
      /\ \A q \in Users \ {r} :
           pc'[q] = IF q \in Writers /\ pc[q] = "sleep" THEN "test" ELSE pc[q]
  <2>1. pcs \in [Users -> Places] /\ pcs[r] = "out" /\ \A q \in Users \ {r} : pcs[q] = pc[q]
    BY <1>5 DEF Places
  <2>2. pc' = Wakened(Writers, pcs)
    BY <1>1, Zenon
  <2> HIDE DEF pcs
  <2>3. /\ pc' \in [Users -> Places]
        /\ \A q \in Users : pc'[q] = IF q \in Writers /\ pcs[q] = "sleep" THEN "test" ELSE pcs[q]
    BY <2>1, <2>2, WakenedIs
  <2>4. QED
    BY <1>5, <2>1, <2>3
<1>9. QED
  BY <1>1, <1>3, <1>4, <1>6, <1>7, <1>8, Zenon

LEMMA pipereadStep ==
  ASSUME PInv, NEW r \in Readers, NEW n \in Nat, n >= 1, piperead(r, n)
  PROVE  PInv'
<1>1. CASE MustWait(r, n)
  BY <1>1, pipereadWaits
<1>2. CASE ~MustWait(r, n)
  <2>1. PICK k \in 0..Used :
            /\ pc[r] \in {"out", "test"}
            /\ Used' = Used - k /\ Contents' = SubSeq(Contents, k + 1, Len(Contents))
            /\ nread' \in 0..Wrap-1
            /\ got' \in [Readers -> Seq(Byte)]
            /\ pc' \in [Users -> Places] /\ pc'[r] = "out"
            /\ \A q \in Users \ {r} :
                 pc'[q] = IF q \in Writers /\ pc[q] = "sleep" THEN "test" ELSE pc[q]
            /\ want' \in [Readers -> Nat] /\ \A q \in Readers \ {r} : want'[q] = want[q]
            /\ UNCHANGED <<data, nwrite, readopen, writeopen, freed, left, failed, killed>>
    BY <1>2, pipereadEffect, Zenon
  <2>2. TypeOK /\ NoLostWakeup /\ CallsInv
    BY Zenon DEF PInv, PipeSound
  <2>3. /\ Used \in 0..PIPESIZE /\ Contents \in Seq(Cell) /\ Len(Contents) = Used
    BY <2>2, Holds, Zenon
  <2>4. Used' <= PIPESIZE /\ (Used = 0 => Used' = 0)
    BY <2>1, <2>3, WrapSize
  <2>5. /\ Readers \subseteq Users /\ Writers \subseteq Users /\ \A w \in Writers : w # r
        /\ \A q \in Readers : q \notin Writers
    BY PipeAssumption DEF Users
  <2>6. TypeOK'
    BY <2>1, <2>2, <2>4, Zenon DEF TypeOK
  <2>7. NoLostWakeup'
    <3>1. \A q \in Readers : pc'[q] = "sleep" => pc[q] = "sleep"
      BY <2>1, <2>5
    <3>2. \A w \in Writers : pc'[w] # "sleep"
      BY <2>1, <2>5
    <3>3. QED
      BY <2>1, <2>2, <2>4, <3>1, <3>2 DEF NoLostWakeup
  <2>8. EndsInv' /\ FreedWhenUnused'
    <3>1. \A q \in Users : pc'[q] = "closed" <=> pc[q] = "closed"
      BY <2>1
    <3>2. QED
      BY <2>1, <3>1, EndsKept
  <2>9. CallsInv'
    <3>1. \A w \in Writers : pc'[w] \in {"out", "closed"} <=> pc[w] \in {"out", "closed"}
      BY <2>1, <2>5
    <3>2. \A q \in Readers : pc'[q] \notin {"out", "closed"} => want'[q] >= 1
      BY <2>1, <2>2, <2>5, Zenon DEF CallsInv
    <3>3. ASSUME NEW i \in 1..Used' PROVE Contents'[i] \in Byte
      <4>1. k + i \in 1..Used /\ Contents'[i] = Contents[k + i]
        BY <2>1, <2>3, <3>3
      <4>2. QED
        BY <2>2, <4>1, Zenon DEF CallsInv
    <3>4. QED
      BY <2>1, <2>2, <3>1, <3>2, <3>3, Zenon DEF CallsInv
  <2>10. QED
    BY <2>6, <2>7, <2>8, <2>9, Zenon DEF PInv, PipeSound
<1>3. QED
  BY <1>1, <1>2

\* pipeclose(): who is where afterwards.
LEMMA pipecloseEffect ==
  ASSUME PInv, NEW side \in {Writers, Readers}, NEW p \in side, pipeclose(p, side)
  PROVE  /\ pc[p] = "out" /\ pc' \in [Users -> Places] /\ pc'[p] = "closed"
         /\ \A q \in Users \ {p} :
              pc'[q] = IF (\A v \in side \ {p} : pc[v] = "closed") /\ q \notin side /\ pc[q] = "sleep"
                       THEN "test" ELSE pc[q]
         /\ UNCHANGED <<data, nread, nwrite, left, failed, want, got, killed>>
<1> DEFINE last == \A v \in side \ {p} : pc[v] = "closed"
           pcs == [pc EXCEPT ![p] = "closed"]
<1>1. /\ pc[p] = "out"
      /\ pc' = Wakened(IF last THEN Users \ side ELSE {}, pcs)
      /\ UNCHANGED <<data, nread, nwrite, left, failed, want, got, killed>>
  BY Zenon DEF pipeclose
<1>2. pc \in [Users -> Places] /\ p \in Users
  BY DEF PInv, PipeSound, TypeOK, Users
<1>3. pcs \in [Users -> Places] /\ pcs[p] = "closed" /\ \A q \in Users \ {p} : pcs[q] = pc[q]
  BY <1>2 DEF Places
<1> HIDE DEF last, pcs
<1>4. /\ pc' \in [Users -> Places]
      /\ \A q \in Users :
           pc'[q] = IF q \in (IF last THEN Users \ side ELSE {}) /\ pcs[q] = "sleep"
                    THEN "test" ELSE pcs[q]
  BY <1>1, <1>3, WakenedIs
<1>5. pc'[p] = "closed"
  BY <1>2, <1>3, <1>4
<1>6. \A q \in Users \ {p} :
        pc'[q] = IF last /\ q \notin side /\ pc[q] = "sleep" THEN "test" ELSE pc[q]
  BY <1>3, <1>4
<1>7. QED
  BY <1>1, <1>4, <1>5, <1>6, Zenon DEF last

\* pipeclose(): an end stays open for those that have it open, and the page is freed with
\* the last of all.
LEMMA pipecloseEnds ==
  ASSUME PInv, NEW side \in {Writers, Readers}, NEW p \in side, pipeclose(p, side)
  PROVE  /\ EndsInv' /\ FreedWhenUnused'
         /\ writeopen' \in BOOLEAN /\ readopen' \in BOOLEAN /\ freed' \in BOOLEAN
         /\ side = Writers => readopen' = readopen
         /\ side = Readers => writeopen' = writeopen
         /\ (\E v \in side \ {p} : pc[v] # "closed") => UNCHANGED <<readopen, writeopen>>
<1> DEFINE last == \A v \in side \ {p} : pc[v] = "closed"
<1>1. /\ pc[p] = "out" /\ pc' \in [Users -> Places] /\ pc'[p] = "closed"
      /\ \A q \in Users \ {p} :
           pc'[q] = IF last /\ q \notin side /\ pc[q] = "sleep" THEN "test" ELSE pc[q]
  BY pipecloseEffect, Zenon
<1>2. /\ writeopen' = (writeopen /\ ~(last /\ side = Writers))
      /\ readopen' = (readopen /\ ~(last /\ side = Readers))
      /\ freed' = (freed \/ (last /\ ~readopen' /\ ~writeopen'))
  BY Zenon DEF pipeclose, FreeOnClose
<1>3. TypeOK /\ EndsInv /\ FreedWhenUnused
  BY Zenon DEF PInv, PipeSound
<1>4. p \in Users /\ Users = Writers \cup Readers /\ Writers \cap Readers = {} /\ Writers # Readers
  BY PipeAssumption DEF Users
<1>5. \A q \in Users \ {p} : pc'[q] = "closed" <=> pc[q] = "closed"
  BY <1>1
<1>6. last <=> \A v \in side : pc'[v] = "closed"
  BY <1>1, <1>4, <1>5
<1>7. \A q \in Users \ side : pc'[q] = "closed" <=> pc[q] = "closed"
  BY <1>5, Zenon
<1> HIDE DEF last
<1>8. writeopen \in BOOLEAN /\ readopen \in BOOLEAN /\ freed = FALSE
  BY <1>1, <1>3, <1>4 DEF TypeOK, FreedWhenUnused
<1>9. CASE side = Writers
  <2>1. writeopen = TRUE /\ writeopen' = ~last /\ readopen' = readopen
    <3>1. writeopen
      BY <1>1, <1>3, <1>9, Zenon DEF EndsInv
    <3>2. QED
      BY <1>2, <1>4, <1>8, <1>9, <3>1, Zenon
  <2>2. \A r \in Readers : pc'[r] = "closed" <=> pc[r] = "closed"
    BY <1>4, <1>7, <1>9
  <2>3. EndsInv'
    BY <1>3, <1>6, <1>9, <2>1, <2>2, Zenon DEF EndsInv
  <2>4. FreedWhenUnused'
    BY <1>2, <1>4, <1>6, <1>8, <1>9, <2>1, <2>3, Zenon DEF FreedWhenUnused, EndsInv
  <2>5. last \/ UNCHANGED <<readopen, writeopen>>
    BY <2>1, Zenon
  <2>6. QED
    BY <1>2, <1>4, <1>8, <1>9, <2>1, <2>3, <2>4, <2>5, Zenon DEF last
<1>10. CASE side = Readers
  <2>1. readopen = TRUE /\ readopen' = ~last /\ writeopen' = writeopen
    <3>1. readopen
      BY <1>1, <1>3, <1>10, Zenon DEF EndsInv
    <3>2. QED
      BY <1>2, <1>4, <1>8, <1>10, <3>1, Zenon
  <2>2. \A w \in Writers : pc'[w] = "closed" <=> pc[w] = "closed"
    BY <1>4, <1>7, <1>10
  <2>3. EndsInv'
    BY <1>3, <1>6, <1>10, <2>1, <2>2, Zenon DEF EndsInv
  <2>4. FreedWhenUnused'
    BY <1>2, <1>4, <1>6, <1>8, <1>10, <2>1, <2>3, Zenon DEF FreedWhenUnused, EndsInv
  <2>5. last \/ UNCHANGED <<readopen, writeopen>>
    BY <2>1, Zenon
  <2>6. QED
    BY <1>2, <1>4, <1>8, <1>10, <2>1, <2>3, <2>4, <2>5, Zenon DEF last
<1>11. QED
  BY <1>9, <1>10

LEMMA pipecloseStep ==
  ASSUME PInv, NEW side \in {Writers, Readers}, NEW p \in side, pipeclose(p, side)
  PROVE  PInv'
<1> DEFINE last == \A v \in side \ {p} : pc[v] = "closed"
<1>1. /\ pc[p] = "out" /\ pc' \in [Users -> Places] /\ pc'[p] = "closed"
      /\ \A q \in Users \ {p} :
           pc'[q] = IF last /\ q \notin side /\ pc[q] = "sleep" THEN "test" ELSE pc[q]
      /\ UNCHANGED <<data, nread, nwrite, left, failed, want, got, killed>>
  BY pipecloseEffect, Zenon
<1>2. /\ EndsInv' /\ FreedWhenUnused'
      /\ writeopen' \in BOOLEAN /\ readopen' \in BOOLEAN /\ freed' \in BOOLEAN
      /\ side = Writers => readopen' = readopen
      /\ side = Readers => writeopen' = writeopen
      /\ ~last => UNCHANGED <<readopen, writeopen>>
  BY pipecloseEnds, Zenon
<1> HIDE DEF last
<1>3. TypeOK /\ NoLostWakeup /\ CallsInv
  BY Zenon DEF PInv, PipeSound
<1>4. Used' = Used
  BY <1>1, SameBytes
<1>5. p \in Users /\ Users = Writers \cup Readers /\ Writers \cap Readers = {}
  BY PipeAssumption DEF Users
<1>6. TypeOK'
  BY <1>1, <1>2, <1>3, <1>4, Zenon DEF TypeOK
<1>7. NoLostWakeup'
  <2>1. ASSUME NEW q \in Users, pc'[q] = "sleep"
        PROVE  pc[q] = "sleep" /\ (q \in side \/ ~last)
    BY <1>1, <2>1
  <2>2. ASSUME NEW r \in Readers, pc'[r] = "sleep"
        PROVE  writeopen' /\ (Used' = 0 \/ \E w \in Writers \cap killed' : failed'[w])
    <3>1. pc[r] = "sleep" /\ writeopen' = writeopen
      BY <1>2, <1>5, <2>1, <2>2
    <3>2. QED
      BY <1>1, <1>3, <1>4, <3>1 DEF NoLostWakeup
  <2>3. ASSUME NEW w \in Writers, pc'[w] = "sleep"
        PROVE  Used' = PIPESIZE /\ readopen'
    <3>1. pc[w] = "sleep" /\ readopen' = readopen
      BY <1>2, <1>5, <2>1, <2>3
    <3>2. QED
      BY <1>3, <1>4, <3>1 DEF NoLostWakeup
  <2>4. QED
    BY <2>2, <2>3, Zenon DEF NoLostWakeup
<1>8. CallsInv'
  <2>1. \A w \in Writers : pc'[w] \in {"out", "closed"} <=> pc[w] \in {"out", "closed"}
    BY <1>1, <1>5
  <2>2. \A r \in Readers : pc'[r] \notin {"out", "closed"} => want'[r] >= 1
    BY <1>1, <1>3, <1>5 DEF CallsInv
  <2>3. UNCHANGED <<left, data, nread, nwrite>>
    BY <1>1, Zenon
  <2>4. QED
    BY <2>1, <2>2, <2>3, CallsKept, Zenon
<1>9. QED
  BY <1>2, <1>6, <1>7, <1>8, Zenon DEF PInv, PipeSound

LEMMA killStep ==
  ASSUME PInv, NEW p \in Users, kill(p)
  PROVE  PInv'
<1>1. /\ p \notin killed /\ pc[p] # "closed" /\ killed' = killed \cup {p}
      /\ pc' = [pc EXCEPT ![p] = IF @ = "sleep" THEN "lost" ELSE @]
      /\ UNCHANGED <<data, nread, nwrite, readopen, writeopen, freed, left, failed, want, got>>
  BY DEF kill
<1>2. TypeOK /\ NoLostWakeup /\ CallsInv
  BY Zenon DEF PInv, PipeSound
<1>3. Used' = Used
  BY <1>1, SameBytes
<1>4. pc \in [Users -> Places] /\ killed \subseteq Users /\ Readers \subseteq Users /\ Writers \subseteq Users
  BY <1>2 DEF TypeOK, Users
<1>5. /\ pc' \in [Users -> Places] /\ killed' \subseteq Users /\ killed \subseteq killed'
      /\ \A q \in Users : pc'[q] = pc[q] \/ (pc[q] = "sleep" /\ pc'[q] = "lost")
  BY <1>1, <1>4 DEF Places
<1>6. TypeOK'
  BY <1>1, <1>2, <1>3, <1>5, Zenon DEF TypeOK
<1>7. NoLostWakeup'
  BY <1>1, <1>2, <1>3, <1>4, <1>5 DEF NoLostWakeup
<1>8. EndsInv' /\ FreedWhenUnused'
  <2>1. \A q \in Users : pc'[q] = "closed" <=> pc[q] = "closed"
    BY <1>5
  <2>2. QED
    BY <1>1, <2>1, EndsKept
<1>9. CallsInv'
  <2>1. \A w \in Writers : pc'[w] \in {"out", "closed"} <=> pc[w] \in {"out", "closed"}
    BY <1>4, <1>5
  <2>2. \A r \in Readers : pc'[r] \notin {"out", "closed"} => want'[r] >= 1
    BY <1>1, <1>2, <1>4, <1>5 DEF CallsInv
  <2>3. UNCHANGED <<left, data, nread, nwrite>>
    BY <1>1, Zenon
  <2>4. QED
    BY <2>1, <2>2, <2>3, CallsKept, Zenon
<1>10. QED
  BY <1>6, <1>7, <1>8, <1>9, Zenon DEF PInv, PipeSound

LEMMA InitPInv ==
  ASSUME Init
  PROVE  PInv
<1>1. nread = 0 /\ nwrite = 0 /\ 0 \in 0..Wrap-1 /\ Used = 0
  <2>1. nread = 0 /\ nwrite = 0 /\ 0 \in 0..Wrap-1
    BY WrapSize DEF Init
  <2>2. Apart(0, 0, 0)
    BY <2>1, WrapSize DEF Apart
  <2>3. QED
    BY <2>1, <2>2, ApartDistance, Zenon DEF Used
<1>2. TypeOK
  <2>1. /\ data \in [0..PIPESIZE-1 -> Byte \cup {Junk}] /\ Used <= PIPESIZE
        /\ pc \in [Users -> Places] /\ killed \subseteq Users
        /\ left \in [Writers -> Seq(Byte)]
        /\ want \in [Readers -> Nat] /\ got \in [Readers -> Seq(Byte)]
    BY <1>1, WrapSize DEF Init, Places
  <2>2. /\ readopen \in BOOLEAN /\ writeopen \in BOOLEAN /\ freed \in BOOLEAN
        /\ failed \in [Writers -> BOOLEAN]
    BY Zenon DEF Init
  <2>3. QED
    BY <1>1, <2>1, <2>2, Zenon DEF TypeOK
<1>3. \A q \in Users : pc[q] = "out"
  BY DEF Init
<1>4. NoLostWakeup /\ FreedWhenUnused /\ EndsInv
  BY <1>3, PipeAssumption DEF NoLostWakeup, FreedWhenUnused, EndsInv, Init, Users
<1>5. CallsInv
  <2>1. \A i \in 1..Used : FALSE
    BY <1>1
  <2>2. QED
    BY <1>3, <2>1, Zenon DEF CallsInv, Init, Users
<1>6. QED
  BY <1>2, <1>4, <1>5, Zenon DEF PInv, PipeSound

\* Write() and Read() call pipewrite() and piperead() with arguments of their types.
LEMMA WriteCalls ==
  ASSUME PInv, NEW w \in Writers, Write(w)
  PROVE  \E s \in Seq(Byte) : /\ s \in IF left[w] = <<>> THEN Buffers ELSE {left[w]}
                              /\ pipewrite(w, s)
<1>1. left[w] \in Seq(Byte) /\ ((left[w] = <<>>) <=> (pc[w] \in {"out", "closed"}))
  BY DEF PInv, PipeSound, TypeOK, CallsInv
<1>2. CASE pc[w] = "out" /\ \E s \in Buffers : pipewrite(w, s)
  BY <1>1, <1>2, PipeAssumption
<1>3. CASE pc[w] = "test" /\ pipewrite(w, left[w])
  BY <1>1, <1>3
<1>4. QED
  BY <1>2, <1>3 DEF Write

LEMMA ReadCalls ==
  ASSUME PInv, NEW r \in Readers, Read(r)
  PROVE  \E n \in Nat : n >= 1 /\ piperead(r, n)
<1>1. want[r] \in Nat /\ (pc[r] = "test" => want[r] >= 1)
  BY DEF PInv, PipeSound, TypeOK, CallsInv
<1>2. CASE \E n \in 1..MaxRead : piperead(r, n)
  BY <1>2, PipeAssumption
<1>3. CASE pc[r] = "test" /\ piperead(r, want[r])
  BY <1>1, <1>3
<1>4. QED
  BY <1>2, <1>3 DEF Read

LEMMA NextPInv ==
  ASSUME PInv, [Next]_vars
  PROVE  PInv'
<1>1. CASE UNCHANGED vars
  <2>1. Used' = Used /\ Contents' = Contents
    BY <1>1, SameBytes DEF vars
  <2>2. TypeOK' /\ NoLostWakeup' /\ FreedWhenUnused'
    BY <1>1, <2>1 DEF vars, PInv, PipeSound, TypeOK, NoLostWakeup, FreedWhenUnused
  <2>3. EndsInv' /\ CallsInv'
    BY <1>1, <2>1 DEF vars, PInv, EndsInv, CallsInv
  <2>4. QED
    BY <2>2, <2>3 DEF PInv, PipeSound
<1>2. ASSUME NEW w \in Writers, Write(w) PROVE PInv'
  BY <1>2, WriteCalls, pipewriteStep, Zenon
<1>3. ASSUME NEW r \in Readers, Read(r) PROVE PInv'
  BY <1>3, ReadCalls, pipereadStep, Zenon
<1>4. ASSUME NEW w \in Writers, pipeclose(w, Writers) PROVE PInv'
  BY <1>4, pipecloseStep, Zenon
<1>5. ASSUME NEW r \in Readers, pipeclose(r, Readers) PROVE PInv'
  BY <1>5, pipecloseStep, Zenon
<1>6. ASSUME NEW p \in Users, kill(p) PROVE PInv'
  BY <1>6, killStep, Zenon
<1>7. QED
  BY <1>1, <1>2, <1>3, <1>4, <1>5, <1>6, Zenon DEF Next

-----------------------------------------------------------------------------
(***************************************************************************)
(* The theorems.                                                           *)
(***************************************************************************)

\* PInv is an invariant of the pipe.
THEOREM PipeInvariance == Spec => []PInv
<1>1. QED
  BY InitPInv, NextPInv, PTL DEF Spec

\* Nobody is left behind: a reader sleeps only while the pipe is empty and may still be
\* written to, a writer only while it is full and may still be read (or a killed writer has
\* returned without its wakeup()); the page is freed exactly when the last process has
\* closed its end; and readers are given bytes that were written.
THEOREM PipeStaysSound == Spec => []PipeSound
<1>1. PInv => PipeSound
  BY DEF PInv
<1>2. QED
  BY <1>1, PipeInvariance, PTL

\* Only a piperead() of r changes what r got.
LEMMA GotStep ==
  ASSUME PInv, [Next]_vars
  PROVE  \/ UNCHANGED got
         \/ \E r \in Readers, n \in Nat : n >= 1 /\ piperead(r, n) /\ ~MustWait(r, n)
<1>1. ASSUME NEW w \in Writers, Write(w) PROVE UNCHANGED got
  BY <1>1, Zenon DEF Write, pipewrite
<1>2. ASSUME NEW r \in Readers, NEW n \in Nat, n >= 1, piperead(r, n)
      PROVE  UNCHANGED got \/ (n >= 1 /\ piperead(r, n) /\ ~MustWait(r, n))
  BY <1>2 DEF piperead
<1>3. ASSUME NEW side, NEW p, pipeclose(p, side) PROVE UNCHANGED got
  BY <1>3 DEF pipeclose
<1>4. ASSUME NEW p, kill(p) PROVE UNCHANGED got
  BY <1>4 DEF kill
<1>5. ASSUME NEW r \in Readers, Read(r)
      PROVE  \/ UNCHANGED got
             \/ \E n \in Nat : n >= 1 /\ piperead(r, n) /\ ~MustWait(r, n)
  BY <1>2, <1>5, ReadCalls, Zenon
<1>6. CASE UNCHANGED vars
  BY <1>6 DEF vars
<1>7. QED
  BY <1>1, <1>3, <1>4, <1>5, <1>6, Zenon DEF Next

LEMMA EndStep ==
  ASSUME PInv, [Next]_vars, NEW r \in Readers, got'[r] = <<>>, got[r] # <<>>
  PROVE  Used = 0 /\ \A w \in Writers : pc[w] = "closed"
<1>1. PICK q \in Readers, n \in Nat : n >= 1 /\ piperead(q, n) /\ ~MustWait(q, n)
  BY GotStep
<1>2. PICK k \in 0..Used :
            /\ k = (IF n < Used THEN n ELSE Used)
            /\ got' = [got EXCEPT ![q] = SubSeq(Contents, 1, k)]
  BY <1>1, pipereadEffect
<1>3. TypeOK /\ EndsInv
  BY Zenon DEF PInv, PipeSound
<1>4. Used \in 0..PIPESIZE /\ Contents \in Seq(Cell) /\ Len(Contents) = Used
  BY <1>3, Holds, Zenon
<1>5. q = r /\ SubSeq(Contents, 1, k) = <<>>
  <2>1. got \in [Readers -> Seq(Byte)]
    BY <1>3, Zenon DEF TypeOK
  <2>2. QED
    BY <1>2, <2>1
<1>6. Used = 0
  <2> DEFINE x == SubSeq(Contents, 1, k)
  <2>1. Len(x) = k /\ x = <<>>
    BY <1>4, <1>5
  <2> HIDE DEF x
  <2>2. k = 0
    BY <2>1
  <2>3. QED
    BY <1>1, <1>2, <1>4, <2>2
<1>7. ~writeopen
  BY <1>1, <1>6, Zenon DEF MustWait
<1>8. QED
  BY <1>3, <1>6, <1>7, Zenon DEF EndsInv

\* The end of the stream is the end: piperead() returns 0 to a process only when every
\* byte has been read and no process has the write end open.
THEOREM PipeEndIsEnd == Spec => EndIsEnd
<1>1. PInv /\ [Next]_vars =>
        [\A r \in Readers :
           (pc[r] \in {"out", "test"} /\ got'[r] = <<>> /\ got[r] # <<>>)
             => (Used = 0 /\ \A w \in Writers : pc[w] = "closed")]_vars
  BY EndStep, Zenon
<1>2. QED
  BY <1>1, PipeInvariance, PTL DEF Spec, EndIsEnd

\* A pipewrite() delivers the bytes there is room for.
LEMMA WriteDelivers ==
  ASSUME PInv, NEW w \in Writers, NEW s \in Seq(Byte), pipewrite(w, s),
         s \in IF left[w] = <<>> THEN Buffers ELSE {left[w]}
  PROVE  Abstract!Next
<1> DEFINE k == Room(s)
           fails == k < Len(s) /\ (~readopen \/ w \in killed)
<1>1. /\ Contents' = Contents \o SubSeq(s, 1, k) /\ UNCHANGED got
      /\ failed' = [failed EXCEPT ![w] = fails]
      /\ left' = [left EXCEPT ![w] = IF fails THEN <<>> ELSE SubSeq(s, k + 1, Len(s))]
  <2>1. Contents' = Contents \o SubSeq(s, 1, k) /\ UNCHANGED got
    BY pipewriteEffect, Zenon
  <2>2. QED
    BY <2>1, Zenon DEF pipewrite
<1>2. TypeOK
  BY Zenon DEF PInv, PipeSound
<1>3. k \in 0..Len(s) /\ Used + k <= PIPESIZE /\ Len(Contents) = Used
  BY <1>2, RoomIs, Holds, Zenon
<1>4. fails \in BOOLEAN
  BY Zenon
<1> HIDE DEF k, fails
<1>5. Abstract!Deliver(w, s, k)
  <2>1. Len(Contents) + k <= PIPESIZE
    BY <1>3, Zenon
  <2>2. CASE fails = TRUE
    BY <1>1, <2>1, <2>2, Zenon DEF Abstract!Deliver
  <2>3. CASE fails = FALSE
    BY <1>1, <2>1, <2>3, Zenon DEF Abstract!Deliver
  <2>4. QED
    BY <1>4, <2>2, <2>3, Zenon
<1>6. QED
  BY <1>3, <1>5, Zenon DEF Abstract!Next

\* A piperead() takes the oldest bytes.
LEMMA ReadTakes ==
  ASSUME PInv, NEW r \in Readers, NEW n \in Nat, n >= 1, piperead(r, n)
  PROVE  Abstract!Next \/ UNCHANGED <<left, failed, Contents, got>>
<1>1. CASE MustWait(r, n)
  <2>1. UNCHANGED <<data, nread, nwrite>> /\ UNCHANGED <<left, failed, got>>
    BY <1>1 DEF piperead
  <2>2. Contents' = Contents
    BY <2>1, SameBytes
  <2>3. QED
    BY <2>1, <2>2, Zenon
<1>2. CASE ~MustWait(r, n)
  <2>1. PICK k \in 0..Used :
            /\ got' = [got EXCEPT ![r] = SubSeq(Contents, 1, k)]
            /\ Contents' = SubSeq(Contents, k + 1, Len(Contents))
            /\ UNCHANGED <<data, nwrite, readopen, writeopen, freed, left, failed, killed>>
    BY <1>2, pipereadEffect, Zenon
  <2>2. Len(Contents) = Used
    BY Holds, Zenon DEF PInv, PipeSound
  <2>3. UNCHANGED <<left, failed>>
    BY <2>1, Zenon
  <2>4. Abstract!Take(r, k)
    BY <2>1, <2>3, Zenon DEF Abstract!Take
  <2>5. QED
    BY <2>2, <2>4, Zenon DEF Abstract!Next
<1>3. QED
  BY <1>1, <1>2

\* Each step of the pipe is a step of the stream, or changes nothing of it.
LEMMA StreamStep ==
  ASSUME PInv, [Next]_vars
  PROVE  Abstract!Next \/ UNCHANGED <<left, failed, Contents, got>>
<1>1. CASE UNCHANGED <<data, nread, nwrite, left, failed, got>>
  <2>1. UNCHANGED <<data, nread, nwrite>> /\ UNCHANGED <<left, failed, got>>
    BY <1>1, Zenon
  <2>2. Contents' = Contents
    BY <2>1, SameBytes
  <2>3. QED
    BY <2>1, <2>2, Zenon
<1>2. ASSUME NEW w \in Writers, Write(w) PROVE Abstract!Next
  BY <1>2, WriteCalls, WriteDelivers, Zenon
<1>3. ASSUME NEW r \in Readers, Read(r)
      PROVE  Abstract!Next \/ UNCHANGED <<left, failed, Contents, got>>
  BY <1>3, ReadCalls, ReadTakes, Zenon
<1>4. ASSUME NEW p, NEW side, pipeclose(p, side)
      PROVE  UNCHANGED <<data, nread, nwrite, left, failed, got>>
  BY <1>4 DEF pipeclose
<1>5. ASSUME NEW p, kill(p) PROVE UNCHANGED <<data, nread, nwrite, left, failed, got>>
  BY <1>5 DEF kill
<1>6. CASE UNCHANGED vars
  BY <1>1, <1>6 DEF vars
<1>7. QED
  BY <1>1, <1>2, <1>3, <1>4, <1>5, <1>6, Zenon DEF Next

\* The pipe is a first-in first-out stream of PIPESIZE bytes: each byte of a buffer enters
\* it once and in order, and leaves it once and in order, whatever the processes and
\* however often the counters wrap around.
THEOREM PipeIsStream == Spec => IsStream
<1>1. Init => Abstract!Init
  <2> SUFFICES ASSUME Init PROVE Abstract!Init
    OBVIOUS
  <2>1. Contents \in Seq(Cell) /\ Len(Contents) = Used /\ Used = 0
    <3>1. TypeOK
      BY InitPInv, Zenon DEF PInv, PipeSound
    <3>2. Apart(0, 0, 0) /\ nread = 0 /\ nwrite = 0
      BY WrapSize DEF Apart, Init
    <3>3. Used = 0
      BY <3>2, ApartDistance, Zenon DEF Used
    <3>4. QED
      BY <3>1, <3>3, Holds, Zenon
  <2>2. Contents = <<>>
    BY <2>1
  <2>3. QED
    BY <2>2, Zenon DEF Init, Abstract!Init
<1>2. PInv /\ [Next]_vars => [Abstract!Next]_<<left, failed, Contents, got>>
  BY StreamStep, Zenon
<1>3. QED
  BY <1>1, <1>2, PipeInvariance, PTL DEF Spec, IsStream, Abstract!Spec
=============================================================================
