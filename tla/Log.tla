--------------------------------- MODULE Log ---------------------------------
(***************************************************************************)
(* The write-ahead log of the file system (log.c), with the buffer cache   *)
(* reduced to the current contents of each block and its B_DIRTY flag, and *)
(* crashes.  A passage between two operations on log.lock is one action; a *)
(* synchronous bwrite() of one block is one action, and atomic.            *)
(***************************************************************************)
EXTENDS Naturals, Sequences, FiniteSets, Functions

CONSTANTS Procs,         \* processes that make file system calls
          Blocks, Vals,  \* home blocks and their contents
          InitVal,       \* the contents mkfs leaves
          OpBlocks,      \* distinct blocks an operation writes at most
          MAXOPBLOCKS,   \* what begin_op() reckons with for an operation
          LOGSIZE,       \* what it reckons with for all of them
          nlog           \* log.size: blocks of the on-disk log, its header included

\* In the code LOGSIZE = 3 * MAXOPBLOCKS and nlog = LOGSIZE.
ASSUME LogAssumption ==
  /\ InitVal \in Vals
  /\ OpBlocks \in Nat /\ MAXOPBLOCKS \in Nat /\ LOGSIZE \in Nat /\ nlog \in Nat
  /\ 0 < OpBlocks /\ OpBlocks < MAXOPBLOCKS /\ MAXOPBLOCKS < LOGSIZE /\ LOGSIZE <= nlog

VARIABLES
  home, logged, head,  \* on disk: home blocks, log blocks, header
  cache, dirty,        \* in memory: buffer contents, blocks with B_DIRTY
  lh,                  \* log.lh: block numbers, lh.n = Len(lh)
  outstanding, committing,
  pc,                  \* where each process is
  op,                  \* for each process, the blocks its operation has written
  buf,                 \* for each process, the set of blocks it has locked
  tail,                \* loop variable of write_log() and install_trans()
  mode                 \* "run", "recover" or "panic"

diskVars == <<home, logged, head>>
memVars  == <<cache, dirty, lh>>
vars == <<home, logged, head, cache, dirty, lh, outstanding, committing, pc, op, buf, tail,
          mode>>

\* idle: in no operation; asleep: in begin_op(); begin: about to test there; op:
\* inside an operation; logw: in log_write(), past its checks; the others: in
\* commit(), about to write a log block, the header, a home block, the empty header,
\* or to finish.
Places == {"idle", "begin", "asleep", "op", "logw", "write_log", "write_head",
           "install", "clear", "finish"}

Init ==
  /\ home = [b \in Blocks |-> InitVal] /\ cache = home /\ dirty = {}
  /\ logged = [i \in 1..nlog-1 |-> InitVal] /\ head = <<>>
  /\ lh = <<>> /\ outstanding = 0 /\ committing = FALSE
  /\ pc = [p \in Procs |-> "idle"] /\ op = [p \in Procs |-> {}]
  /\ buf = [p \in Procs |-> {}] /\ tail = 1 /\ mode = "run"

At(p, place) == mode = "run" /\ pc[p] = place
Goto(p, place) == pc' = [pc EXCEPT ![p] = place]

\* wakeup(&log) by p, which goes to `place`.
WakeupGoto(p, place) ==
  pc' = [q \in Procs |-> IF q = p THEN place ELSE
                         IF pc[q] = "asleep" THEN "begin" ELSE pc[q]]
-----------------------------------------------------------------------------
Call(p) ==
  /\ At(p, "idle") /\ Goto(p, "begin")
  /\ UNCHANGED <<diskVars, memVars, outstanding, committing, op, buf, tail, mode>>

\* The operation might exhaust the log.
WouldExhaust == Len(lh) + (outstanding + 1) * MAXOPBLOCKS > LOGSIZE

begin_opUnchecked(p) ==
  /\ At(p, "begin") /\ ~committing
  /\ outstanding' = outstanding + 1
  /\ Goto(p, "op")
  /\ UNCHANGED <<diskVars, memVars, committing, op, buf, tail, mode>>

begin_op(p) ==
  /\ At(p, "begin")
  /\ \/ /\ committing \/ WouldExhaust
        /\ Goto(p, "asleep") /\ UNCHANGED outstanding
     \/ /\ ~committing /\ ~WouldExhaust
        /\ outstanding' = outstanding + 1
        /\ Goto(p, "op")
  /\ UNCHANGED <<diskVars, memVars, committing, op, buf, tail, mode>>

Locked(b) == \E q \in Procs : b \in buf[q]

\* bread() a block, modify it and call log_write(), which looks at the size of the
\* transaction before it takes log.lock.
Modify(p, b, v) ==
  /\ At(p, "op") /\ ~Locked(b)
  /\ Cardinality(op[p] \cup {b}) <= OpBlocks
  /\ cache' = [cache EXCEPT ![b] = v]
  /\ op' = [op EXCEPT ![p] = @ \cup {b}]
  /\ IF Len(lh) >= LOGSIZE \/ Len(lh) >= nlog - 1
     THEN mode' = "panic" /\ UNCHANGED <<pc, buf>>
     ELSE Goto(p, "logw") /\ buf' = [buf EXCEPT ![p] = {b}] /\ UNCHANGED mode
  /\ UNCHANGED <<diskVars, dirty, lh, outstanding, committing, tail>>

\* The rest of log_write(): add the block to the transaction unless it is there, and
\* pin its buffer.  Then brelse().
log_write(p) ==
  /\ At(p, "logw") /\ Goto(p, "op")
  /\ \E b \in buf[p] :
       lh' = IF b \in Range(lh) THEN lh ELSE Append(lh, b)
  /\ dirty' = dirty \cup buf[p]
  /\ buf' = [buf EXCEPT ![p] = {}]
  /\ UNCHANGED <<diskVars, cache, outstanding, committing, op, tail, mode>>

\* end_op(): the last operation commits, the others wake whoever waits for space.
end_op(p) ==
  /\ At(p, "op")
  /\ outstanding' = outstanding - 1 /\ op' = [op EXCEPT ![p] = {}]
  /\ IF committing THEN mode' = "panic" /\ UNCHANGED <<committing, pc, tail>> ELSE
     /\ UNCHANGED mode
     /\ committing' = (outstanding' = 0)
     /\ IF outstanding' = 0
        THEN tail' = 1 /\ Goto(p, IF lh = <<>> THEN "finish" ELSE "write_log")
        ELSE WakeupGoto(p, "idle") /\ UNCHANGED tail
  /\ UNCHANGED <<diskVars, memVars, buf>>

\* write_log(): one block from the cache to the log.
write_log(p) ==
  /\ At(p, "write_log")
  /\ logged' = [logged EXCEPT ![tail] = cache[lh[tail]]]
  /\ IF tail = Len(lh) THEN tail' = 1 /\ Goto(p, "write_head")
                       ELSE tail' = tail + 1 /\ UNCHANGED pc
  /\ UNCHANGED <<home, head, memVars, outstanding, committing, op, buf, mode>>

write_headEarly(p) ==
  /\ At(p, "write_log") /\ tail = 1
  /\ head' = lh /\ Goto(p, "install")
  /\ UNCHANGED <<home, logged, memVars, outstanding, committing, op, buf, tail, mode>>

\* write_head(): the commit point.
write_head(p) ==
  /\ At(p, "write_head")
  /\ head' = lh /\ Goto(p, "install")
  /\ UNCHANGED <<home, logged, memVars, outstanding, committing, op, buf, tail, mode>>

\* install_trans(): one block from the log to its home, which unpins its buffer.
InstallBlock ==
  /\ home' = [home EXCEPT ![lh[tail]] = logged[tail]]
  /\ cache' = [cache EXCEPT ![lh[tail]] = logged[tail]]
  /\ dirty' = dirty \ {lh[tail]}

install_trans(p) ==
  /\ At(p, "install")
  /\ InstallBlock
  /\ IF tail = Len(lh) THEN tail' = 1 /\ Goto(p, "clear")
                       ELSE tail' = tail + 1 /\ UNCHANGED pc
  /\ UNCHANGED <<logged, head, lh, outstanding, committing, op, buf, mode>>

\* log.lh.n = 0; write_head()
ClearLog(p) ==
  /\ At(p, "clear")
  /\ lh' = <<>> /\ head' = <<>> /\ Goto(p, "finish")
  /\ UNCHANGED <<home, logged, cache, dirty, outstanding, committing, op, buf, tail, mode>>

FinishSilent(p) ==
  /\ At(p, "finish")
  /\ committing' = FALSE
  /\ Goto(p, "idle")
  /\ UNCHANGED <<diskVars, memVars, outstanding, op, buf, tail, mode>>

\* The end of end_op().
Finish(p) ==
  /\ At(p, "finish")
  /\ committing' = FALSE
  /\ WakeupGoto(p, "idle")
  /\ UNCHANGED <<diskVars, memVars, outstanding, op, buf, tail, mode>>

\* bget() recycles the buffer of a block that is not pinned; the block is read from
\* its home the next time.
Evict(b) ==
  /\ mode = "run" /\ b \notin dirty /\ ~Locked(b)
  /\ cache' = [cache EXCEPT ![b] = home[b]]
  /\ UNCHANGED <<diskVars, dirty, lh, outstanding, committing, pc, op, buf, tail, mode>>

\* The machine stops and starts again; initlog() reads the header.
Crash ==
  /\ mode' = "recover"
  /\ lh' = head
  /\ cache' = home /\ dirty' = {} /\ outstanding' = 0 /\ committing' = FALSE
  /\ pc' = [p \in Procs |-> "idle"] /\ op' = [p \in Procs |-> {}]
  /\ buf' = [p \in Procs |-> {}] /\ tail' = 1
  /\ UNCHANGED diskVars

\* recover_from_log(): install_trans() block by block, then clear the header.
recover_from_log ==
  /\ mode = "recover"
  /\ \/ /\ tail <= Len(lh)
        /\ InstallBlock
        /\ tail' = tail + 1
        /\ UNCHANGED <<head, lh, mode>>
     \/ /\ tail > Len(lh)
        /\ lh' = <<>> /\ head' = <<>> /\ tail' = 1 /\ mode' = "run"
        /\ UNCHANGED <<home, cache, dirty>>
  /\ UNCHANGED <<logged, outstanding, committing, pc, op, buf>>

Step(p) ==
  \/ begin_op(p) \/ log_write(p) \/ write_log(p) \/ write_head(p) \/ install_trans(p)
  \/ ClearLog(p) \/ Finish(p)

Next ==
  \/ \E p \in Procs : \/ Call(p) \/ Step(p) \/ end_op(p)
                      \/ \E b \in Blocks, v \in Vals : Modify(p, b, v)
  \/ \E b \in Blocks : Evict(b)
  \/ Crash \/ recover_from_log

Spec == Init /\ [][Next]_vars

\* Every process goes on, every operation ends, and recovery is not interrupted for
\* ever.
Fairness == /\ WF_vars(recover_from_log)
            /\ \A p \in Procs : WF_vars(Step(p)) /\ SF_vars(end_op(p))
FairSpec == Spec /\ Fairness
-----------------------------------------------------------------------------
(***************************************************************************)
(* Properties.                                                             *)
(***************************************************************************)

\* Type invariant: the transaction never lists a block twice, nor more blocks than
\* the header block has room for.
TypeOK ==
  /\ home \in [Blocks -> Vals] /\ cache \in [Blocks -> Vals] /\ dirty \subseteq Blocks
  /\ DOMAIN logged = 1..nlog-1 /\ head \in Seq(Blocks)
  /\ lh \in Seq(Blocks) /\ IsInjective(lh) /\ Len(lh) <= LOGSIZE
  /\ outstanding \in Nat /\ committing \in BOOLEAN /\ pc \in [Procs -> Places]
  /\ op \in [Procs -> SUBSET Blocks] /\ mode \in {"run", "recover", "panic"}

\* What recovery would make of the disk.
Recovered ==
  [b \in Blocks |-> IF \E i \in DOMAIN head : head[i] = b
                    THEN logged[CHOOSE i \in DOMAIN head : head[i] = b]
                    ELSE home[b]]

Active == {p \in Procs : pc[p] \in {"op", "logw"}}

\* The log makes operations atomic and their commits durable, whenever the machine
\* crashes, during recovery included.
Abstract == INSTANCE AtomicDisk WITH
  stable <- Recovered,
  current <- IF mode = "recover" THEN Recovered ELSE cache,
  active <- Active

IsAtomic == Abstract!Spec

\* log_write() pins what it has logged: a buffer that may be recycled holds what a
\* read from the disk would return.
CleanMatchesHome ==
  \A b \in Blocks : (mode = "run" /\ b \notin dirty /\ ~Locked(b)) => cache[b] = home[b]

\* begin_op() "this op might exhaust log space; wait for commit": operations that
\* write fewer than MAXOPBLOCKS blocks each never fill the log, so log_write() does not
\* panic.
LogSuffices == mode # "panic"

\* The log has room for what it must hold, and the cache and the disk agree otherwise.
LogSound == TypeOK /\ CleanMatchesHome /\ LogSuffices

\* begin_op() sleeps only until an operation ends or a commit is over.
SleeperWoken == \A p \in Procs : (pc[p] = "asleep") ~> (pc[p] # "asleep")
=============================================================================
