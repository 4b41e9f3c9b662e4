----------------------------- MODULE FileContents -----------------------------
(***************************************************************************)
(* The contents of files: blocks, the block map of an inode with its       *)
(* direct and indirect entries, reading, writing and truncation (fs.c),    *)
(* and the offsets of open files (file.c).  readi() and writei() run with  *)
(* the inode locked, so that each is one step.  A unit of a block is at    *)
(* once a byte of a file and an entry of an indirect block.                *)
(***************************************************************************)
EXTENDS Integers, Sequences, FiniteSets, SequencesExt

CONSTANTS Inums, Handles, Bytes,
          NBlocks,      \* data blocks of the disk, numbered from 1
          BSIZE,        \* units in a block, and so NINDIRECT
          NDIRECT,
          MaxChunk,     \* the most that filewrite() writes in an operation
          MaxData,      \* the longest write() of a process
          UintMax,      \* the largest uint
          MaxSteps      \* bound on the number of opens, writes and removals

Blocks   == 1..NBlocks
MAXFILE  == NDIRECT + BSIZE
Zeroes   == [k \in 0..BSIZE - 1 |-> 0]

ASSUME ContentsAssumption ==
  /\ \A x \in {NBlocks, BSIZE, MaxChunk, MaxData} : x \in Nat \ {0}
  /\ NDIRECT \in Nat /\ MaxSteps \in Nat /\ Bytes \subseteq Nat
  /\ 0 \notin Inums /\ UintMax >= MAXFILE * BSIZE + MaxData

VARIABLES
  bitmap,        \* blocks marked in use
  blk,           \* what each block holds
  inode,         \* addrs and size of each inode, in memory
  dinode,        \* the same on the disk
  opened, off,   \* each open file's inode, or 0, and offset
  pending,       \* what is left to write of the write() of each open file
  halted,        \* the argument of panic(), or "no"
  steps

contentsVars == <<bitmap, blk, inode, dinode, opened, off, pending, halted, steps>>

ContentsInit ==
  /\ bitmap = {} /\ blk = [b \in Blocks |-> Zeroes]
  /\ inode = [i \in Inums |-> [addrs |-> [k \in 0..NDIRECT |-> 0], size |-> 0]]
  /\ dinode = inode
  /\ opened = [h \in Handles |-> 0] /\ off = [h \in Handles |-> 0]
  /\ pending = [h \in Handles |-> <<>>] /\ halted = "no" /\ steps = 0
-----------------------------------------------------------------------------
(***************************************************************************)
(* Operations on d = [bitmap, blk, ip, addr, panic]: the disk, the inode   *)
(* that is locked, the block returned and the reason for a panic.          *)
(***************************************************************************)
Disk(i) == [bitmap |-> bitmap, blk |-> blk, ip |-> inode[i], addr |-> 0, panic |-> "no"]

Stop(d, why) == [d EXCEPT !.panic = IF @ = "no" THEN why ELSE @]

ballocDirty(d) ==
  LET free == Blocks \ d.bitmap
      b == CHOOSE x \in free : \A y \in free : x <= y
  IN IF free = {} THEN Stop(d, "balloc: out of blocks")
     ELSE [d EXCEPT !.bitmap = @ \cup {b}, !.addr = b]

\* The first free block, marked and zeroed.
balloc(d) ==
  LET free == Blocks \ d.bitmap
      b == CHOOSE x \in free : \A y \in free : x <= y
  IN IF free = {} THEN Stop(d, "balloc: out of blocks")
     ELSE [d EXCEPT !.bitmap = @ \cup {b}, !.blk[b] = Zeroes, !.addr = b]

bfree(d, b) ==
  IF b \notin d.bitmap THEN Stop(d, "freeing free block") ELSE [d EXCEPT !.bitmap = @ \ {b}]

\* An entry of addrs, allocated if need be.
Direct(d, k) ==
  IF d.ip.addrs[k] # 0 THEN [d EXCEPT !.addr = d.ip.addrs[k]]
  ELSE LET e == balloc(d)
       IN IF e.panic # "no" THEN e ELSE [e EXCEPT !.ip.addrs[k] = e.addr]

bmap(d, bn) ==
  IF bn < NDIRECT THEN Direct(d, bn)
  ELSE IF bn >= MAXFILE THEN Stop(d, "bmap: out of range")
  ELSE LET e == Direct(d, NDIRECT)
           k == bn - NDIRECT
       IN IF e.panic # "no" THEN e
          ELSE IF e.blk[e.addr][k] # 0 THEN [e EXCEPT !.addr = e.blk[e.addr][k]]
          ELSE LET f == balloc(e)
               IN IF f.panic # "no" THEN f ELSE [f EXCEPT !.blk[e.addr][k] = f.addr]

\* The numbers of the blocks of a file with the units from o to o + n - 1, in order.
BlockNumbers(o, n) ==
  IF n = 0 THEN <<>>
  ELSE [k \in 1 .. (o + n - 1) \div BSIZE - o \div BSIZE + 1 |-> o \div BSIZE + k - 1]

\* off > ip->size || off + n < off, in unsigned arithmetic.
OutOfRange(ip, o, n) == o > ip.size \/ (o + n) % (UintMax + 1) < o

\* The units that readi() returns, and the disk after it; n is -1 on failure.
readi(d, o, n) ==
  IF OutOfRange(d.ip, o, n) THEN [n |-> -1, bytes |-> <<>>, disk |-> d]
  ELSE LET m == IF o + n > d.ip.size THEN d.ip.size - o ELSE n
           Block(r, bn) ==
             LET e == bmap(r.disk, bn)
                 from == IF bn = o \div BSIZE THEN o % BSIZE ELSE 0
                 to == IF bn = (o + m - 1) \div BSIZE THEN (o + m - 1) % BSIZE ELSE BSIZE - 1
             IN IF e.panic # "no" THEN [r EXCEPT !.disk = e]
                ELSE [r EXCEPT !.disk = e,
                               !.bytes = @ \o [k \in 1 .. to - from + 1 |->
                                                 e.blk[e.addr][from + k - 1]]]
       IN FoldLeft(Block, [n |-> m, bytes |-> <<>>, disk |-> d], BlockNumbers(o, m))

\* writei() of the sequence src: the disk with the inode, written back if the file grew.
writei(d, src, o) ==
  IF OutOfRange(d.ip, o, Len(src)) \/ o + Len(src) > MAXFILE * BSIZE
  THEN [n |-> -1, update |-> FALSE, disk |-> d]
  ELSE LET n == Len(src)
           Block(e, bn) ==
             LET f == bmap(e, bn)
             IN IF f.panic # "no" THEN f
                ELSE [f EXCEPT !.blk[f.addr] =
                        [k \in 0..BSIZE - 1 |->
                           LET x == bn * BSIZE + k - o + 1
                           IN IF x \in 1..n THEN src[x] ELSE @[k]]]
           e == FoldLeft(Block, d, BlockNumbers(o, n))
           grows == n > 0 /\ o + n > d.ip.size
       IN [n |-> n, update |-> grows,
           disk |-> IF grows /\ e.panic = "no" THEN [e EXCEPT !.ip.size = o + n] ELSE e]

\* Free the direct blocks, those of the indirect block, and the indirect block.
itrunc(d) ==
  LET ind == d.ip.addrs[NDIRECT]
      listed == [k \in 1..NDIRECT |-> d.ip.addrs[k - 1]] \o
                (IF ind = 0 THEN <<>> ELSE [k \in 1..BSIZE |-> d.blk[ind][k - 1]] \o <<ind>>)
      Free(e, b) == IF b = 0 THEN e ELSE bfree(e, b)
  IN [FoldLeft(Free, d, listed) EXCEPT
        !.ip = [addrs |-> [k \in 0..NDIRECT |-> 0], size |-> 0]]
-----------------------------------------------------------------------------
\* Store the disk d, with the inode of i, which is written back if update holds.
Store(i, d, update) ==
  /\ bitmap' = d.bitmap /\ blk' = d.blk /\ halted' = d.panic
  /\ inode' = [inode EXCEPT ![i] = d.ip]
  /\ dinode' = [dinode EXCEPT ![i] = IF update THEN d.ip ELSE @]

Works == halted = "no" /\ steps < MaxSteps /\ steps' = steps + 1

OpenFile(h, i) ==
  /\ Works /\ opened[h] = 0
  /\ opened' = [opened EXCEPT ![h] = i] /\ off' = [off EXCEPT ![h] = 0]
  /\ UNCHANGED <<bitmap, blk, inode, dinode, pending, halted>>

CloseFile(h) ==
  /\ halted = "no" /\ opened[h] # 0 /\ pending[h] = <<>>
  /\ opened' = [opened EXCEPT ![h] = 0]
  /\ UNCHANGED <<bitmap, blk, inode, dinode, off, pending, halted, steps>>

\* write(): filewrite() is about to write d.
StartWrite(h, d) ==
  /\ Works /\ opened[h] # 0 /\ pending[h] = <<>>
  /\ pending' = [pending EXCEPT ![h] = d]
  /\ UNCHANGED <<bitmap, blk, inode, dinode, opened, off, halted>>

\* One operation of the loop of filewrite(): at most MaxChunk units, at the offset that
\* the file has once its inode is locked.
filewrite(h) ==
  /\ halted = "no" /\ pending[h] # <<>>
  /\ LET n1 == IF Len(pending[h]) > MaxChunk THEN MaxChunk ELSE Len(pending[h])
         chunk == SubSeq(pending[h], 1, n1)
     IN \E w \in {writei(Disk(opened[h]), chunk, off[h])} :
          LET stopped == w.n < 0 \/ w.disk.panic # "no"
          IN /\ Store(opened[h], w.disk, w.update)
             /\ off' = [off EXCEPT ![h] = IF stopped THEN @ ELSE @ + w.n]
             /\ pending' = [pending EXCEPT ![h] = IF stopped THEN <<>> ELSE SubSeq(@, n1 + 1, Len(@))]
  /\ UNCHANGED <<opened, steps>>

filereadAll(h, n) ==
  /\ halted = "no" /\ opened[h] # 0 /\ pending[h] = <<>>
  /\ off' = [off EXCEPT ![h] = @ + n]
  /\ UNCHANGED <<bitmap, blk, inode, dinode, halted, opened, pending, steps>>

fileread(h, n) ==
  /\ halted = "no" /\ opened[h] # 0 /\ pending[h] = <<>>
  /\ \E r \in {readi(Disk(opened[h]), off[h], n)} :
     /\ Store(opened[h], r.disk, FALSE)
     /\ off' = [off EXCEPT ![h] = IF r.n > 0 THEN @ + r.n ELSE @]
  /\ UNCHANGED <<opened, pending, steps>>

\* iput() of the last reference to an inode without links.
Truncate(i) ==
  /\ Works /\ \A h \in Handles : opened[h] # i
  /\ \E d \in {itrunc(Disk(i))} : Store(i, d, TRUE)
  /\ UNCHANGED <<opened, off, pending>>

ContentsNext ==
  \/ \E h \in Handles :
       \/ \E i \in Inums : OpenFile(h, i)
       \/ CloseFile(h) \/ filewrite(h)
       \/ \E b \in Bytes, n \in 1..MaxData : StartWrite(h, [k \in 1..n |-> b])
       \/ \E n \in 0..MaxData : fileread(h, n)
  \/ \E i \in Inums : Truncate(i)

ContentsSpec == ContentsInit /\ [][ContentsNext]_contentsVars
-----------------------------------------------------------------------------
\* The system has been used, and has not panicked.
Running == steps > 0 /\ halted = "no"

\* The blocks that inode i refers to, in all its entries.
Refers(i) ==
  LET a == inode[i].addrs
      ind == a[NDIRECT]
  IN [k \in 1..NDIRECT |-> a[k - 1]] \o <<ind>> \o
     (IF ind = 0 THEN <<>> ELSE [k \in 1..BSIZE |-> blk[ind][k - 1]])

Positions == {x \in Inums \X (1..MAXFILE + 1) : x[2] <= Len(Refers(x[1])) /\ Refers(x[1])[x[2]] # 0}

\* What a file holds: the units of its blocks, up to its size.
Content ==
  [i \in Inums |->
     LET a == inode[i].addrs
         At(bn) == IF bn < NDIRECT THEN a[bn] ELSE blk[a[NDIRECT]][bn - NDIRECT]
     IN [k \in 1..inode[i].size |-> blk[At((k - 1) \div BSIZE)][(k - 1) % BSIZE]]]

\* readi() at any offset and length, up to the largest, gives the bytes from the offset
\* as far as the file goes, or fails when the offset is past the end or the sum
\* overflows, and it allocates nothing; so no byte of another file or of a removed one is
\* ever read.
ReadsRight ==
  Running =>
    \A i \in Inums : \A o \in 0..inode[i].size + 1, n \in {0, 1, 3, UintMax} :
      LET size == inode[i].size
          past == o + n > UintMax \/ o > size
      IN \E r \in {readi(Disk(i), o, n)} :
           /\ past <=> r.n = -1
           /\ ~past => r.bytes = SubSeq(Content[i], o + 1, IF o + n > size THEN size ELSE o + n)
           /\ r.disk.bitmap = bitmap /\ r.disk.panic = "no"
           /\ \A k \in DOMAIN r.bytes : r.bytes[k] \in Bytes

\* Every block is in one place at most: no two entries of inodes and indirect blocks name
\* the same block, the bitmap marks the blocks that are named and no other (so that none
\* leaks and none is given away twice), a file has exactly the blocks that its size calls
\* for, the inode on the disk is the one in memory, nothing panics but for want of blocks,
\* and readi() reads right (fs.c balloc, bfree, bmap, itrunc, readi, writei).
BlocksSound ==
  /\ halted \in {"no", "balloc: out of blocks"}
  /\ Running =>
    /\ \A x, y \in Positions : Refers(x[1])[x[2]] = Refers(y[1])[y[2]] => x = y
    /\ bitmap = {Refers(x[1])[x[2]] : x \in Positions}
    /\ \A i \in Inums :
         LET n == (inode[i].size + BSIZE - 1) \div BSIZE
         IN Cardinality({x \in Positions : x[1] = i}) = IF n > NDIRECT THEN n + 1 ELSE n
    /\ dinode = inode
  /\ ReadsRight

BF == INSTANCE ByteFile WITH content <- Content

\* Reads, writes and truncation through the block map are those of a sequence of bytes:
\* a chunk of a write lands at the offset that its file has then, whatever other
\* processes write through the same or another file in between.
IsByteFile == BF!Init /\ [][halted' = "no" => BF!Next]_<<Content, opened, off>>
=============================================================================
