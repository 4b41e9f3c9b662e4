-------------------------------- MODULE Pipe --------------------------------
(***************************************************************************)
(* A pipe (pipe.c) between processes that share its two ends.  p->lock is  *)
(* held throughout each function except inside sleep(), so each passage is *)
(* one action.                                                             *)
(***************************************************************************)
EXTENDS Naturals, Sequences

CONSTANTS Writers, Readers,   \* the processes that have the write, the read end open
          PIPESIZE,           \* capacity in bytes
          Wrap,               \* number of values of a uint: 2^32 in the code
          Byte, Junk,         \* what is written, and what a fresh page contains
          Buffers,            \* the buffers programs write
          MaxRead,            \* bound: the largest read
          Killable            \* processes that may be killed

ASSUME PipeAssumption ==
  /\ PIPESIZE \in Nat \ {0} /\ Wrap \in Nat \ {0, PIPESIZE} /\ Wrap % PIPESIZE = 0
  /\ Junk \notin Byte /\ MaxRead \in Nat /\ \A s \in Buffers : s \in Seq(Byte)
  /\ Writers # {} /\ Readers # {} /\ Writers \cap Readers = {}
  /\ Killable \subseteq Writers \cup Readers

Users == Writers \cup Readers

VARIABLES
  data, nread, nwrite, readopen, writeopen,  \* struct pipe
  freed,    \* the page of the pipe has been given back
  pc,       \* where each process is
  left,     \* for each writer, what pipewrite() has still to copy
  failed,   \* for each writer, whether its last pipewrite() returned -1
  want,     \* for each reader, the n of its piperead()
  got,      \* for each reader, the bytes its last piperead() returned
  killed    \* the processes that have been killed

vars == <<data, nread, nwrite, readopen, writeopen, freed, pc, left, failed, want, got,
          killed>>

\* out: not in a pipe function; sleep: asleep in one; test: woken, about to test
\* again; closed: its end is closed; lost: killed in its sleep, hence RUNNABLE but
\* on no run queue (module Proc).
Places == {"out", "sleep", "test", "closed", "lost"}

\* pipealloc(), and fork() of the processes that share the ends.
Init ==
  /\ data = [i \in 0..PIPESIZE-1 |-> Junk]
  /\ nread = 0 /\ nwrite = 0 /\ readopen = TRUE /\ writeopen = TRUE /\ freed = FALSE
  /\ pc = [p \in Users |-> "out"]
  /\ left = [w \in Writers |-> <<>>] /\ failed = [w \in Writers |-> FALSE]
  /\ want = [r \in Readers |-> 0] /\ got = [r \in Readers |-> <<>>]
  /\ killed = {}

\* How many bytes the pipe holds, and the i-th of them.
Used == (nwrite + Wrap - nread) % Wrap

Contents == [i \in 1..Used |-> data[((nread + i - 1) % Wrap) % PIPESIZE]]

WakenedNone(ps, pcs) == pcs

\* wakeup() of the processes of ps that sleep.
Wakened(ps, pcs) == [q \in Users |-> IF q \in ps /\ pcs[q] = "sleep" THEN "test" ELSE pcs[q]]

\* The number of bytes of s that pipewrite() can copy before the pipe is full.
Room(s) == IF Len(s) < PIPESIZE - Used THEN Len(s) ELSE PIPESIZE - Used

CopyFromZero(s, k) ==
  /\ data' = [i \in 0..PIPESIZE-1 |-> IF i + 1 \in 1..k THEN s[i + 1] ELSE data[i]]
  /\ nwrite' = (nwrite + k) % Wrap

\* p->data[p->nwrite++ % PIPESIZE] = addr[i], k times.
Copy(s, k) ==
  /\ data' = [i \in 0..PIPESIZE-1 |->
                LET j == (i + PIPESIZE - (nwrite % PIPESIZE)) % PIPESIZE
                IN IF j < k THEN s[j + 1] ELSE data[i]]
  /\ nwrite' = (nwrite + k) % Wrap

CanRun(p) == pc[p] \in {"out", "test"}

\* pipewrite() of s, or of what is left of it: copies what fits; when the pipe is
\* full before the end it fails if nobody can read or the caller has been killed,
\* and else wakes the readers and sleeps.
pipewrite(w, s) ==
  LET k == Room(s)
      fails == k < Len(s) /\ (~readopen \/ w \in killed)
  IN /\ CanRun(w)
     /\ Copy(s, k)
     /\ failed' = [failed EXCEPT ![w] = fails]
     /\ left' = [left EXCEPT ![w] = IF fails THEN <<>> ELSE SubSeq(s, k + 1, Len(s))]
     /\ pc' = IF fails THEN [pc EXCEPT ![w] = "out"] ELSE
              Wakened(Readers, [pc EXCEPT ![w] = IF k = Len(s) THEN "out" ELSE "sleep"])
     /\ UNCHANGED <<nread, readopen, writeopen, freed, want, got, killed>>

NeverWait(r, n) == FALSE

\* Nothing to read yet, though a writer may still come.
MustWait(r, n) == Used = 0 /\ writeopen

\* piperead() of n bytes: sleeps while the pipe is empty, unless the caller has been
\* killed; then takes what is there.
piperead(r, n) ==
  /\ CanRun(r)
  /\ \/ /\ MustWait(r, n) /\ r \notin killed
        /\ pc' = [pc EXCEPT ![r] = "sleep"]
        /\ want' = [want EXCEPT ![r] = n]
        /\ UNCHANGED <<nread, got>>
     \/ /\ MustWait(r, n) /\ r \in killed
        /\ pc' = [pc EXCEPT ![r] = "out"]
        /\ UNCHANGED <<nread, want, got>>
     \/ /\ ~MustWait(r, n)
        /\ LET k == IF n < Used THEN n ELSE Used
           IN /\ got' = [got EXCEPT ![r] = SubSeq(Contents, 1, k)]
              /\ nread' = (nread + k) % Wrap
        /\ pc' = Wakened(Writers, [pc EXCEPT ![r] = "out"])
        /\ want' = [want EXCEPT ![r] = n]
  /\ UNCHANGED <<data, nwrite, readopen, writeopen, freed, left, failed, killed>>

FreeOnClose == ~readopen' /\ ~writeopen'

\* A process closes its end, or exits; the last one of its side calls pipeclose(),
\* which wakes the other side.
pipeclose(p, side) ==
  /\ pc[p] = "out"
  /\ LET last  == \A q \in side \ {p} : pc[q] = "closed"
         other == Users \ side
     IN /\ writeopen' = (writeopen /\ ~(last /\ side = Writers))
        /\ readopen' = (readopen /\ ~(last /\ side = Readers))
        /\ freed' = (freed \/ (last /\ FreeOnClose))
        /\ pc' = Wakened(IF last THEN other ELSE {}, [pc EXCEPT ![p] = "closed"])
  /\ UNCHANGED <<data, nread, nwrite, left, failed, want, got, killed>>

\* kill(): a process that sleeps becomes RUNNABLE without a run queue.
kill(p) ==
  /\ p \in Killable \ killed /\ pc[p] # "closed"
  /\ killed' = killed \cup {p}
  /\ pc' = [pc EXCEPT ![p] = IF @ = "sleep" THEN "lost" ELSE @]
  /\ UNCHANGED <<data, nread, nwrite, readopen, writeopen, freed, left, failed, want, got>>

Write(w) == \/ /\ pc[w] = "out"
               /\ \E s \in Buffers : pipewrite(w, s)
            \/ pc[w] = "test" /\ pipewrite(w, left[w])

Read(r) == \/ /\ pc[r] = "out"
              /\ \E n \in 1..MaxRead : piperead(r, n)
           \/ pc[r] = "test" /\ piperead(r, want[r])

Next ==
  \/ \E w \in Writers : Write(w) \/ pipeclose(w, Writers)
  \/ \E r \in Readers : Read(r) \/ pipeclose(r, Readers)
  \/ \E p \in Users : kill(p)

Spec == Init /\ [][Next]_vars
-----------------------------------------------------------------------------
(***************************************************************************)
(* Properties.                                                             *)
(***************************************************************************)

\* Type invariant: struct pipe, which holds at most PIPESIZE bytes, and who is where; a
\* reader is given bytes that were written, never what the page held before.
TypeOK ==
  /\ data \in [0..PIPESIZE-1 -> Byte \cup {Junk}]
  /\ nread \in 0..Wrap-1 /\ nwrite \in 0..Wrap-1 /\ Used <= PIPESIZE
  /\ readopen \in BOOLEAN /\ writeopen \in BOOLEAN /\ freed \in BOOLEAN
  /\ pc \in [Users -> Places] /\ killed \subseteq Users
  /\ left \in [Writers -> Seq(Byte)] /\ failed \in [Writers -> BOOLEAN]
  /\ want \in [Readers -> Nat] /\ got \in [Readers -> Seq(Byte)]

\* Nobody sleeps over something to do: a sleeping reader waits for an empty pipe
\* that somebody may still write to, a sleeping writer for a full one that somebody
\* may still read.  The one exception: a writer that finds the pipe full and itself
\* killed returns without waking the readers of the bytes it has copied.
NoLostWakeup ==
  /\ \A r \in Readers : pc[r] = "sleep" =>
       (writeopen /\ (Used = 0 \/ \E w \in Writers \cap killed : failed[w]))
  /\ \A w \in Writers : pc[w] = "sleep" => (Used = PIPESIZE /\ readopen)

\* The page of a pipe is freed once, when nobody can be inside any more.
FreedWhenUnused == freed <=> \A p \in Users : pc[p] = "closed"

\* Nobody is left behind: not asleep in a pipe, nor with a page that is gone.
PipeSound == TypeOK /\ NoLostWakeup /\ FreedWhenUnused

\* piperead() of at least one byte reports the end of the stream only when every
\* writer has closed its end and every byte written has been read.
EndIsEnd ==
  [][\A r \in Readers :
       (pc[r] \in {"out", "test"} /\ got'[r] = <<>> /\ got[r] # <<>>)
         => (Used = 0 /\ \A w \in Writers : pc[w] = "closed")]_vars

\* The pipe is a first-in first-out stream of PIPESIZE bytes, whatever the values
\* its 32-bit counters have reached.
Abstract == INSTANCE Stream WITH Capacity <- PIPESIZE, queue <- Contents

IsStream == Abstract!Spec
=============================================================================
