-------------------------------- MODULE Files --------------------------------
(***************************************************************************)
(* Inodes, directories, the file table and the system calls on them (fs.c, *)
(* file.c, sysfile.c).  What is in a file is the subject of FileContents.  *)
(*                                                                         *)
(* A system call is the list of the steps that its process still has to    *)
(* take; a step that tests something replaces the list.  A step takes at   *)
(* most one sleeplock, and ends before the next acquiresleep(): what a     *)
(* process does to an inode it has locked nobody else sees before that.    *)
(* The inode in memory equals the one on disk whenever it is valid, since  *)
(* every change of it is followed by iupdate() under the same lock.        *)
(***************************************************************************)
EXTENDS Naturals, Sequences, FiniteSets, SequencesExt

CONSTANTS Procs, NoProc,
          NInodes,      \* inodes on the disk, 1 is the root directory
          Names,        \* names that fit in a directory entry; "." and ".." are not among them
          Paths,        \* relative path names: sequences of names
          Copy,         \* the name that make_duplicate() makes of a name
          NFILE, NOFILE,
          MaxOps,       \* operations that the log admits at a time
          Calls,        \* the system calls that processes make
          MaxCalls      \* bound on the number of calls

Inodes == 1..NInodes
root   == 1
Types  == {"none", "DIR", "FILE", "DEV"}
Regs   == {"ip", "dp", "tmp", "cwd"}

ASSUME FilesAssumption ==
  /\ NoProc \notin Procs /\ NInodes \in Nat \ {0}
  /\ Paths \subseteq Seq(Names) \ {<<>>} /\ DOMAIN Copy \subseteq Names
  /\ \A n \in DOMAIN Copy : Copy[n] \in Names
  /\ NFILE \in Nat /\ NOFILE \in Nat /\ MaxOps \in Nat \ {0} /\ MaxCalls \in Nat

VARIABLES
  disk,          \* for each inode its type and nlink
  entries,       \* for each inode that is a directory, the inode number of each name, or 0
  ref, valid,    \* struct inode: references to it, and whether it has been read
  lock,          \* the process that holds the sleeplock of the inode
  file,          \* ftable.file: ref, type and ip
  ofile,         \* struct proc: the file of each descriptor, or 0
  reg,           \* the inodes that a process points to: its current directory and the
                 \* local variables of its call, 0 when they hold no reference
  intrans,       \* processes between begin_op() and end_op()
  todo,          \* the steps that are left of the process's call
  alive,         \* processes that have not exited
  panic,         \* the argument of panic(), or "none"
  ncalls,
  lost           \* inodes that were entered in a directory which had been removed

fs == <<disk, entries, lost>>
cache == <<ref, valid, lock>>
table == <<file, ofile>>
ctl == <<alive, panic, ncalls>>
vars == <<fs, cache, table, reg, intrans, todo, ctl>>
-----------------------------------------------------------------------------
\* A disk with one file, and all processes in the root directory.
Init ==
  /\ \E n \in Names :
       entries = [i \in Inodes |-> [m \in Names |-> IF i = root /\ m = n THEN 2 ELSE 0]]
  /\ disk = [i \in Inodes |->
               CASE i = root -> [type |-> "DIR", nlink |-> 1]
                 [] i = 2    -> [type |-> "FILE", nlink |-> 1]
                 [] OTHER    -> [type |-> "none", nlink |-> 0]]
  /\ ref = [i \in Inodes |-> IF i = root THEN Cardinality(Procs) ELSE 0]
  /\ valid = [i \in Inodes |-> i = root]
  /\ lock = [i \in Inodes |-> NoProc]
  /\ file = [f \in 1..NFILE |-> [ref |-> 0, type |-> "NONE", ip |-> 0]]
  /\ ofile = [p \in Procs |-> [d \in 1..NOFILE |-> 0]]
  /\ reg = [p \in Procs |-> [r \in Regs |-> IF r = "cwd" THEN root ELSE 0]]
  /\ intrans = {} /\ todo = [p \in Procs |-> <<>>]
  /\ alive = Procs /\ panic = "none" /\ ncalls = 0 /\ lost = {}
-----------------------------------------------------------------------------
\* p is about to take the step op.
At(p, op) == panic = "none" /\ todo[p] # <<>> /\ Head(todo[p])[1] = op
Step(p) == Head(todo[p])

\* After its step p goes on with s and then with the rest of its list, or only with s.
Continue(p, s) == todo' = [todo EXCEPT ![p] = s \o Tail(@)]
Goto(p, s) == todo' = [todo EXCEPT ![p] = s]

Panic(why) == panic' = why /\ UNCHANGED <<fs, cache, table, reg, intrans, todo, alive, ncalls>>

Begin == << <<"begin_op">> >>
End == << <<"end_op">> >>
iunlockStep(r) == << <<"iunlock", r>> >>
iputSteps(r) == << <<"iput", r>>, <<"drop", r>> >>
iunlockput(r) == iunlockStep(r) \o iputSteps(r)

\* Nobody has the sleeplock of i, so that acquiresleep() returns.
Free(i) == lock[i] = NoProc

\* A reference more to i: an entry of the cache that nobody refers to is recycled.
iget(i) ==
  /\ ref' = [ref EXCEPT ![i] = @ + 1]
  /\ valid' = [valid EXCEPT ![i] = @ /\ ref[i] > 0]

dirlookup(i, name) == entries[i][name]

\* Inodes that are lost when i is entered in directory dp: dp has been removed.
Lose(dp, i) == IF disk[dp].nlink = 0 THEN {i, dp} ELSE {}

\* begin_op() waits for room in the log.
begin_op(p) ==
  /\ At(p, "begin_op") /\ Cardinality(intrans) < MaxOps
  /\ intrans' = intrans \cup {p} /\ Continue(p, <<>>)
  /\ UNCHANGED <<fs, cache, table, reg, ctl>>

end_op(p) ==
  /\ At(p, "end_op")
  /\ intrans' = intrans \ {p} /\ Continue(p, <<>>)
  /\ UNCHANGED <<fs, cache, table, reg, ctl>>

\* Lock the inode in a register, read it if need be, and go on according to its type.
ilock(p) ==
  /\ At(p, "ilock")
  /\ LET i == reg[p][Step(p)[2]] IN
     /\ Free(i)
     /\ IF ~valid[i] /\ disk[i].type = "none" THEN Panic("ilock: no type")
        ELSE /\ lock' = [lock EXCEPT ![i] = p] /\ valid' = [valid EXCEPT ![i] = TRUE]
             /\ Continue(p, IF disk[i].type \in Step(p)[3] THEN Step(p)[4] ELSE Step(p)[5])
             /\ UNCHANGED <<fs, ref, table, reg, intrans, ctl>>

iunlock(p) ==
  /\ At(p, "iunlock")
  /\ lock' = [lock EXCEPT ![reg[p][Step(p)[2]]] = NoProc] /\ Continue(p, <<>>)
  /\ UNCHANGED <<fs, ref, valid, table, reg, intrans, ctl>>

UnusedByAnyone(i) == valid[i] /\ disk[i].nlink = 0

\* The test of iput(), with the inode locked.
Unused(i) == valid[i] /\ disk[i].nlink = 0 /\ ref[i] = 1

\* iput(): with the inode locked, truncate and free it if it is unused (log_write()
\* panics when no operation is outstanding) ...
iput(p) ==
  /\ At(p, "iput")
  /\ LET i == reg[p][Step(p)[2]] IN
     /\ Free(i)
     /\ IF ~Unused(i)
        THEN Continue(p, <<>>) /\ UNCHANGED <<fs, cache, table, reg, intrans, ctl>>
        ELSE IF intrans = {} THEN Panic("log_write outside of trans")
        ELSE /\ disk' = [disk EXCEPT ![i].type = "none"]
             /\ entries' = [entries EXCEPT ![i] = [n \in Names |-> 0]]
             /\ valid' = [valid EXCEPT ![i] = FALSE]
             /\ Continue(p, <<>>)
             /\ UNCHANGED <<lost, ref, lock, table, reg, intrans, ctl>>

\* ... and then, with the lock released, drop the reference.  In namex() the register
\* goes on to the inode that was looked up.
Drop(p) ==
  /\ At(p, "drop") \/ At(p, "next")
  /\ LET r == Step(p)[2] IN
     /\ ref' = [ref EXCEPT ![reg[p][r]] = @ - 1]
     /\ reg' = [reg EXCEPT ![p] = IF Step(p)[1] = "next"
                                  THEN [@ EXCEPT ![r] = reg[p].tmp, !.tmp = 0]
                                  ELSE [@ EXCEPT ![r] = 0]]
     /\ Continue(p, <<>>)
     /\ UNCHANGED <<fs, valid, lock, table, intrans, ctl>>
-----------------------------------------------------------------------------
(***************************************************************************)
(* Path names.                                                             *)
(***************************************************************************)
namei(r, path, fail) == << <<"namex", r, path, FALSE, fail>> >>
nameiparent(r, path, fail) == << <<"namex", r, path, TRUE, fail>> >>

\* One element of a path: lock the directory, look the element up, unlock and put the
\* directory, go on with the inode found.  On failure p does Step(p)[5] instead of the
\* rest of its call.
namex(p) ==
  /\ At(p, "namex")
  /\ LET r == Step(p)[2]
         path == Step(p)[3]
         parent == Step(p)[4]
         start == reg[p][r] = 0                 \* ip = idup(myproc()->cwd)
         dir == IF start THEN reg[p].cwd ELSE reg[p][r]
         next == dirlookup(dir, Head(path))
         more == IF Len(path) = 1 THEN <<>>
                 ELSE << <<"namex", r, Tail(path), parent, Step(p)[5]>> >>
         One(b) == IF b THEN 1 ELSE 0
     IN /\ Free(dir)
        /\ IF ~valid[dir] /\ disk[dir].type = "none" THEN Panic("ilock: no type")
           ELSE LET stop == disk[dir].type = "DIR" /\ parent /\ Len(path) = 1
                    fails == disk[dir].type # "DIR" \/ (~stop /\ next = 0)
                    on == ~stop /\ ~fails
                IN /\ ref' = [i \in Inodes |-> ref[i] + One(start /\ i = dir)
                                               + One(on /\ i = next)]
                   /\ valid' = [i \in Inodes |->
                                  \/ i = dir
                                  \/ valid[i] /\ ~(on /\ i = next /\ ref[i] = 0)]
                   /\ reg' = [reg EXCEPT ![p][r] = dir, ![p].tmp = IF on THEN next ELSE @]
                   /\ CASE stop -> Continue(p, <<>>)
                        [] fails -> Goto(p, iputSteps(r) \o Step(p)[5])
                        [] OTHER -> Continue(p, << <<"iput", r>>, <<"next", r>> >> \o more)
                   /\ UNCHANGED <<fs, lock, table, intrans, ctl>>

\* Lock the directory dp and look a name up in it, into the register Step(p)[3].
Lookup(p) ==
  /\ At(p, "dirlookup")
  /\ LET dir == reg[p].dp
         i == dirlookup(dir, Step(p)[2])
     IN /\ Free(dir)
        /\ IF disk[dir].type # "DIR" THEN Panic("dirlookup not DIR")
           ELSE /\ lock' = [lock EXCEPT ![dir] = p]
                /\ IF i = 0
                   THEN Goto(p, Step(p)[5]) /\ UNCHANGED <<ref, valid, reg>>
                   ELSE /\ iget(i) /\ reg' = [reg EXCEPT ![p][Step(p)[3]] = i]
                        /\ Goto(p, Step(p)[4])
                /\ UNCHANGED <<fs, table, intrans, ctl>>

\* ialloc() of an inode, locked, initialised and entered in the locked directory dp.
\* A new directory links to dp with "..".
ialloc(p) ==
  /\ At(p, "ialloc")
  /\ LET type == Step(p)[2]
         dir == reg[p].dp
         unused == {i \in Inodes : disk[i].type = "none"}
         i == CHOOSE j \in unused : \A k \in unused : j <= k
     IN IF unused = {} THEN Panic("ialloc: no inodes")
        ELSE /\ Free(i)
             /\ disk' = [disk EXCEPT ![i] = [type |-> type, nlink |-> 1],
                                     ![dir].nlink = IF type = "DIR" THEN @ + 1 ELSE @]
             /\ entries' = [entries EXCEPT ![dir][Step(p)[3]] = i]
             /\ lost' = lost \cup Lose(dir, i)
             /\ ref' = [ref EXCEPT ![i] = @ + 1]
             /\ valid' = [valid EXCEPT ![i] = TRUE]
             /\ lock' = [lock EXCEPT ![i] = p]
             /\ reg' = [reg EXCEPT ![p][Step(p)[4]] = i]
             /\ Continue(p, <<>>)
             /\ UNCHANGED <<table, intrans, ctl>>
-----------------------------------------------------------------------------
(***************************************************************************)
(* link, unlink, create.                                                   *)
(***************************************************************************)
\* sys_link() counts the new link before it enters it, and takes it back on failure.
LinkBad == << <<"link_bad">> >>

sys_link(old, new) ==
  Begin \o namei("ip", old, End) \o
  << <<"link_count", nameiparent("dp", new, LinkBad) \o << <<"dirlink", Last(new)>> >> >> >>

LinkCount(p) ==
  /\ At(p, "link_count")
  /\ LET i == reg[p].ip IN
     /\ Free(i)
     /\ IF ~valid[i] /\ disk[i].type = "none" THEN Panic("ilock: no type")
        ELSE /\ valid' = [valid EXCEPT ![i] = TRUE]
             /\ IF disk[i].type = "DIR"
                THEN Goto(p, iputSteps("ip") \o End) /\ UNCHANGED disk
                ELSE Goto(p, Step(p)[2]) /\ disk' = [disk EXCEPT ![i].nlink = @ + 1]
             /\ UNCHANGED <<entries, lost, ref, lock, table, reg, intrans, ctl>>

\* ilock(dp) and dirlink(): an entry of that name is an error, and iput() of its inode
\* is done with dp locked.
LinkEnter(p) ==
  /\ At(p, "dirlink")
  /\ LET dir == reg[p].dp
         name == Step(p)[2]
         i == dirlookup(dir, name)
     IN /\ Free(dir)
        /\ IF disk[dir].type # "DIR" THEN Panic("dirlookup not DIR")
           ELSE /\ IF i # 0
                   THEN /\ lock' = [lock EXCEPT ![dir] = p]
                        /\ iget(i) /\ reg' = [reg EXCEPT ![p].tmp = i]
                        /\ Goto(p, iputSteps("tmp") \o iunlockput("dp") \o LinkBad)
                        /\ UNCHANGED fs
                   ELSE /\ entries' = [entries EXCEPT ![dir][name] = reg[p].ip]
                        /\ lost' = lost \cup Lose(dir, reg[p].ip)
                        /\ Goto(p, iputSteps("dp") \o iputSteps("ip") \o End)
                        /\ UNCHANGED <<disk, cache, reg>>
                /\ UNCHANGED <<table, intrans, ctl>>

LinkUndoNothing(p) ==
  /\ At(p, "link_bad")
  /\ Free(reg[p].ip)
  /\ Goto(p, iputSteps("ip") \o End)
  /\ UNCHANGED <<fs, cache, table, reg, intrans, ctl>>

LinkUndo(p) ==
  /\ At(p, "link_bad")
  /\ LET i == reg[p].ip IN
     /\ Free(i)
     /\ disk' = [disk EXCEPT ![i].nlink = @ - 1]
     /\ Goto(p, iputSteps("ip") \o End)
     /\ UNCHANGED <<entries, lost, cache, table, reg, intrans, ctl>>

sys_unlink(path) ==
  Begin \o nameiparent("dp", path, End) \o
  << <<"dirlookup", Last(path), "ip", << <<"unlink", Last(path)>> >>, iunlockput("dp") \o End>> >>

isdirempty(i) == \A n \in Names : entries[i][n] = 0

\* With dp locked, sys_unlink() locks the inode of the entry, erases the entry and puts
\* the directory; it takes the link off the inode after that.
Unlink(p) ==
  /\ At(p, "unlink")
  /\ LET i == reg[p].ip
         dir == reg[p].dp
         isdir == disk[i].type = "DIR"
     IN /\ Free(i)
        /\ IF ~valid[i] /\ disk[i].type = "none" THEN Panic("ilock: no type")
           ELSE IF disk[i].nlink < 1 THEN Panic("unlink: nlink < 1")
           ELSE /\ lock' = [lock EXCEPT ![i] = p] /\ valid' = [valid EXCEPT ![i] = TRUE]
                /\ IF isdir /\ ~isdirempty(i)
                   THEN /\ Goto(p, iunlockput("ip") \o iunlockput("dp") \o End)
                        /\ UNCHANGED fs
                   ELSE /\ entries' = [entries EXCEPT ![dir][Step(p)[2]] = 0]
                        /\ disk' = [disk EXCEPT ![dir].nlink = IF isdir THEN @ - 1 ELSE @]
                        /\ Goto(p, iunlockput("dp") \o << <<"unlinked">> >> \o
                                   iunlockput("ip") \o End)
                        /\ UNCHANGED lost
                /\ UNCHANGED <<ref, table, reg, intrans, ctl>>

Unlinked(p) ==
  /\ At(p, "unlinked")
  /\ disk' = [disk EXCEPT ![reg[p].ip].nlink = @ - 1] /\ Continue(p, <<>>)
  /\ UNCHANGED <<entries, lost, cache, table, reg, intrans, ctl>>

\* create(): ends with ip locked and goes on with done, or has nothing and does fail.
create(path, type, done, fail) ==
  nameiparent("dp", path, fail) \o
  << <<"dirlookup", Last(path), "ip",
       iunlockput("dp") \o
       << <<"ilock", "ip", {"FILE"} \cap {type}, done, iunlockput("ip") \o fail>> >>,
       << <<"ialloc", type, Last(path), "ip">> >> \o iunlockput("dp") \o done>> >>

sys_mkdir(path) == Begin \o create(path, "DIR", iunlockput("ip") \o End, End)
sys_mknod(path) == Begin \o create(path, "DEV", iunlockput("ip") \o End, End)

sys_chdirLocked(path) ==
  Begin \o namei("ip", path, End) \o
  << <<"ilock", "ip", {"DIR"}, iputSteps("cwd") \o End \o << <<"chdir">> >>,
       iunlockput("ip") \o End>> >>

sys_chdir(path) ==
  Begin \o namei("ip", path, End) \o
  << <<"ilock", "ip", {"DIR"},
       iunlockStep("ip") \o iputSteps("cwd") \o End \o << <<"chdir">> >>,
       iunlockput("ip") \o End>> >>

Chdir(p) ==
  /\ At(p, "chdir")
  /\ reg' = [reg EXCEPT ![p].cwd = reg[p].ip, ![p].ip = 0] /\ Continue(p, <<>>)
  /\ UNCHANGED <<fs, cache, table, intrans, ctl>>
-----------------------------------------------------------------------------
(***************************************************************************)
(* Open files.                                                             *)
(***************************************************************************)
OpenSteps == << <<"filealloc">> >>

sys_open(path, omode) ==
  Begin \o
  IF omode = "O_CREATE" THEN create(path, "FILE", OpenSteps, End)
  ELSE namei("ip", path, End) \o
       << <<"ilock", "ip", IF omode = "O_RDONLY" THEN Types ELSE Types \ {"DIR"},
            OpenSteps, iunlockput("ip") \o End>> >>

\* The lowest free slot of a table, or 0.
FirstFree(slots, used) ==
  LET free == slots \ used
  IN IF free = {} THEN 0 ELSE CHOOSE s \in free : \A t \in free : s <= t

filealloc == FirstFree(1..NFILE, {f \in 1..NFILE : file[f].ref > 0})
fdalloc(p) == FirstFree(1..NOFILE, {d \in 1..NOFILE : ofile[p][d] # 0})

fileclosePlain(tbl, f) ==
  [file |-> [tbl EXCEPT ![f].ref = @ - 1],
   ip |-> IF tbl[f].ref = 1 /\ tbl[f].type = "INODE" THEN tbl[f].ip ELSE 0]

\* Close file f of the table tbl: the table, and the inode to put, or 0.
fileclose(tbl, f) ==
  IF tbl[f].ref > 1 THEN [file |-> [tbl EXCEPT ![f].ref = @ - 1], ip |-> 0]
  ELSE [file |-> [tbl EXCEPT ![f].ref = 0, ![f].type = "NONE"],
        ip |-> IF tbl[f].type = "INODE" THEN tbl[f].ip ELSE 0]

\* What the caller of fileclose() does with the inode, in register r.
closeSteps(r, i) == IF i = 0 THEN <<>> ELSE Begin \o iputSteps(r) \o End

\* filealloc() and fdalloc(); a file that gets no descriptor is closed again.  The file
\* gets its inode only after end_op().
FileAlloc(p) ==
  /\ At(p, "filealloc")
  /\ LET f == filealloc
         fd == fdalloc(p)
         alloc == [file EXCEPT ![f].ref = 1]
         closed == fileclose(alloc, f)
         failed == iunlockput("ip") \o End
     IN IF f = 0 THEN Goto(p, failed) /\ UNCHANGED <<table, reg>>
        ELSE IF fd = 0
        THEN /\ file' = closed.file /\ reg' = [reg EXCEPT ![p].tmp = closed.ip]
             /\ Goto(p, closeSteps("tmp", closed.ip) \o failed)
             /\ UNCHANGED ofile
        ELSE /\ file' = alloc /\ ofile' = [ofile EXCEPT ![p][fd] = f]
             /\ Goto(p, iunlockStep("ip") \o End \o << <<"setfile", f>> >>)
             /\ UNCHANGED reg
  /\ UNCHANGED <<fs, cache, intrans, ctl>>

SetFile(p) ==
  /\ At(p, "setfile")
  /\ file' = [file EXCEPT ![Step(p)[2]].type = "INODE", ![Step(p)[2]].ip = reg[p].ip]
  /\ reg' = [reg EXCEPT ![p].ip = 0] /\ Continue(p, <<>>)
  /\ UNCHANGED <<fs, cache, ofile, intrans, ctl>>

\* close(fd), and each descriptor of exit(): the last close of a file puts its inode.
FileClose(p) ==
  /\ At(p, "close")
  /\ LET fd == Step(p)[2]
         closed == fileclose(file, ofile[p][fd])
     IN /\ ofile' = [ofile EXCEPT ![p][fd] = 0]
        /\ file' = closed.file
        /\ reg' = [reg EXCEPT ![p].ip = closed.ip]
        /\ Continue(p, closeSteps("ip", closed.ip))
        /\ UNCHANGED <<fs, cache, intrans, ctl>>

OpenFds(p) == {d \in 1..NOFILE : ofile[p][d] # 0}

exit(p) ==
  [k \in 1..Cardinality(OpenFds(p)) |-> <<"close", SetToSeq(OpenFds(p))[k]>>] \o
  Begin \o iputSteps("cwd") \o End \o << <<"exit">> >>

Exit(p) ==
  /\ At(p, "exit")
  /\ alive' = alive \ {p} /\ Continue(p, <<>>)
  /\ UNCHANGED <<fs, cache, table, reg, intrans, panic, ncalls>>

\* dup(fd).
sys_dup(p) ==
  \E fd \in OpenFds(p) :
    /\ fdalloc(p) # 0
    /\ ofile' = [ofile EXCEPT ![p][fdalloc(p)] = ofile[p][fd]]
    /\ file' = [file EXCEPT ![ofile[p][fd]].ref = @ + 1]
    /\ UNCHANGED <<fs, cache, reg, intrans, todo, alive, panic>>

\* fork(): the child gets the open files and the current directory of the parent.
fork(p) ==
  \E q \in Procs \ alive :
    /\ file' = [f \in 1..NFILE |->
                  [file[f] EXCEPT !.ref = @ + Cardinality({d \in OpenFds(p) : ofile[p][d] = f})]]
    /\ ofile' = [ofile EXCEPT ![q] = ofile[p]]
    /\ ref' = [ref EXCEPT ![reg[p].cwd] = @ + 1]
    /\ reg' = [reg EXCEPT ![q].cwd = reg[p].cwd]
    /\ alive' = alive \cup {q}
    /\ UNCHANGED <<fs, valid, lock, intrans, todo, panic>>
-----------------------------------------------------------------------------
\* make_duplicate(): the source stays locked from its namei() to the end; blocks is how
\* often the copying loop runs, one operation for each block.
CopyPath(path) == Append(Front(path), Copy[Last(path)])

make_duplicate(src, blocks) ==
  LET dst == CopyPath(src)
      block == Begin \o << <<"ilock", "tmp", Types, iunlockStep("tmp"), <<>>>> >> \o End
  IN Begin \o namei("ip", src, End) \o
     << <<"ilock", "ip", {"FILE"},
          nameiparent("dp", dst, iunlockput("ip") \o End) \o
          << <<"dirlookup", Last(dst), "tmp",
               iunlockput("dp") \o iputSteps("tmp") \o iunlockput("ip") \o End,
               << <<"ialloc", "FILE", Last(dst), "tmp">> >> \o iunlockput("dp") \o
               iunlockStep("tmp") \o End \o
               (IF blocks = 0 THEN <<>> ELSE block) \o
               iunlockput("ip") \o iputSteps("tmp")>> >>,
          iunlockput("ip") \o End>> >>
-----------------------------------------------------------------------------
\* p, in user mode, makes a system call.
Enters(p, call) ==
  /\ panic = "none" /\ p \in alive /\ todo[p] = <<>> /\ call \in Calls /\ ncalls < MaxCalls
  /\ ncalls' = ncalls + 1

Starts(p, s) == Goto(p, s) /\ UNCHANGED <<fs, cache, table, reg, intrans, alive, panic>>

Call(p) ==
  \/ \E path \in Paths :
       \/ Enters(p, "create") /\ Starts(p, sys_open(path, "O_CREATE"))
       \/ Enters(p, "open") /\ \E m \in {"O_RDONLY", "O_RDWR"} : Starts(p, sys_open(path, m))
       \/ Enters(p, "unlink") /\ Starts(p, sys_unlink(path))
       \/ Enters(p, "mkdir") /\ Starts(p, sys_mkdir(path))
       \/ Enters(p, "mknod") /\ Starts(p, sys_mknod(path))
       \/ Enters(p, "chdir") /\ Starts(p, sys_chdir(path))
       \/ Enters(p, "link") /\ \E new \in Paths : Starts(p, sys_link(path, new))
       \/ /\ Enters(p, "make_duplicate") /\ Last(path) \in DOMAIN Copy
          /\ \E blocks \in 0..1 : Starts(p, make_duplicate(path, blocks))
  \/ Enters(p, "close") /\ \E d \in OpenFds(p) : Starts(p, << <<"close", d>> >>)
  \/ Enters(p, "exit") /\ Starts(p, exit(p))
  \/ Enters(p, "dup") /\ sys_dup(p)
  \/ Enters(p, "fork") /\ fork(p)

Next ==
  \E p \in Procs :
    \/ Call(p)
    \/ begin_op(p) \/ end_op(p) \/ ilock(p) \/ iunlock(p) \/ iput(p) \/ Drop(p)
    \/ namex(p) \/ Lookup(p) \/ ialloc(p)
    \/ LinkCount(p) \/ LinkEnter(p) \/ LinkUndo(p) \/ Unlink(p) \/ Unlinked(p) \/ Chdir(p)
    \/ FileAlloc(p) \/ SetFile(p) \/ FileClose(p) \/ Exit(p)

Spec == Init /\ [][Next]_vars
-----------------------------------------------------------------------------
(***************************************************************************)
(* Properties.                                                             *)
(***************************************************************************)
TypeOK ==
  /\ disk \in [Inodes -> [type : Types, nlink : Nat]]
  /\ entries \in [Inodes -> [Names -> 0..NInodes]]
  /\ ref \in [Inodes -> Nat] /\ valid \in [Inodes -> BOOLEAN]
  /\ lock \in [Inodes -> Procs \cup {NoProc}]
  /\ file \in [1..NFILE -> [ref : Nat, type : {"NONE", "INODE"}, ip : 0..NInodes]]
  /\ ofile \in [Procs -> [1..NOFILE -> 0..NFILE]]
  /\ reg \in [Procs -> [Regs -> 0..NInodes]]
  /\ intrans \subseteq Procs /\ alive \subseteq Procs /\ lost \subseteq Inodes

\* The counts agree with the pointers: ref of an inode is the number of open files,
\* current directories and local variables of system calls that point to it, and ref of a
\* file is the number of descriptors that name it.  So nobody's inode or file is recycled
\* under it, on every error path (fs.c iget/iput, file.c filealloc/filedup/fileclose).
CountsRight ==
  /\ TypeOK
  /\ \A i \in Inodes :
       ref[i] = Cardinality({x \in Procs \X Regs : reg[x[1]][x[2]] = i})
                + Cardinality({f \in 1..NFILE :
                                 file[f].ref > 0 /\ file[f].type = "INODE" /\ file[f].ip = i})
  /\ \A f \in 1..NFILE :
       file[f].ref = Cardinality({x \in Procs \X (1..NOFILE) : ofile[x[1]][x[2]] = f})

Quiet == \A p \in Procs : todo[p] = <<>>

\* Entries of directories that name inode i, and directories whose ".." is i.
LinksTo(i) ==
  Cardinality({x \in Inodes \X Names : entries[x[1]][x[2]] = i})
  + (IF i = root THEN 1 ELSE 0)
  + Cardinality({d \in {entries[i][n] : n \in Names} \ {0} : disk[d].type = "DIR"})

\* A directory entry never names a free inode, nlink is never less than the number of
\* links, and is that number when no call is in progress, but for inodes entered in a
\* directory that was removed while create() or link() waited for it (fs.h nlink: "Number
\* of links to inode in file system").
LinksRight ==
  \A i \in Inodes \ lost :
    /\ LinksTo(i) > 0 => disk[i].type # "none"
    /\ disk[i].type # "none" => disk[i].nlink >= LinksTo(i)
    /\ Quiet /\ panic = "none" /\ disk[i].type # "none" => disk[i].nlink = LinksTo(i)

\* The file system does not panic, but when the inodes run out or in make_duplicate(),
\* whose last two iput()s are outside of an operation; every other iput() is inside of
\* its caller's own operation, as the comment on iput() demands.
PanicsKnown ==
  /\ panic \in {"none", "ialloc: no inodes", "log_write outside of trans"}
  /\ \A p \in Procs : At(p, "iput") /\ p \notin intrans => reg[p].tmp # 0

\* A freed inode is referred to by nobody, but for the process that freed it, which is
\* about to drop its reference: no call goes on with an inode, and no open file or
\* current directory is left with one, that another process's iput() has truncated.  And
\* no panic comes from it.
NoUseAfterFree ==
  /\ PanicsKnown
  /\ \A i \in Inodes : disk[i].type = "none" =>
       /\ \A f \in 1..NFILE : file[f].ref > 0 /\ file[f].type = "INODE" => file[f].ip # i
       /\ \A p \in Procs, r \in Regs :
            reg[p][r] = i => todo[p] # <<>> /\ Step(p) \in {<<"drop", r>>, <<"next", r>>}

\* The inode whose lock the next step of p takes, or 0.
Wants(p) ==
  CASE todo[p] = <<>> -> 0
    [] Step(p)[1] \in {"ilock", "iput"} -> reg[p][Step(p)[2]]
    [] Step(p)[1] = "namex" -> IF reg[p][Step(p)[2]] = 0 THEN reg[p].cwd ELSE reg[p][Step(p)[2]]
    [] Step(p)[1] \in {"dirlookup", "dirlink"} -> reg[p].dp
    [] Step(p)[1] \in {"link_count", "link_bad", "unlink"} -> reg[p].ip
    [] OTHER -> 0

\* The processes of S wait for locks that only processes of S hold: for ever.
Deadlocked(S) == S # {} /\ \A p \in S : Wants(p) # 0 /\ lock[Wants(p)] \in S

\* No set of processes ever waits for itself: reading the source, the separation of
\* ilock() from iget() "helps avoid deadlock and races during pathname lookup".
NoDeadlock == \A S \in SUBSET Procs : ~Deadlocked(S)

\* Two ways only lead to a deadlock on inodes: an iput() that locks an inode while its
\* caller has another one, or the same one, locked (create() and sys_unlink() put the
\* directory with the file locked, link() puts the file with the directory locked), and
\* make_duplicate(), which looks for the directory with the source locked.
DeadlocksKnown ==
  \A S \in SUBSET Procs : Deadlocked(S) =>
    \E p \in S :
      \/ Step(p)[1] = "iput" /\ \E i \in Inodes : lock[i] = p
      \/ Step(p)[1] \in {"namex", "dirlookup"} /\ \E i \in Inodes : i = reg[p].ip /\ lock[i] = p

\* When no call is in progress, an allocated inode has a link or a reference: "If that was
\* the last reference and the inode has no links to it, free the inode" (fs.c iput).
UnusedFreed ==
  Quiet /\ panic = "none" =>
    \A i \in Inodes : disk[i].type # "none" => disk[i].nlink > 0 \/ ref[i] > 0
=============================================================================
