------------------------------- MODULE MCDisk -------------------------------
(***************************************************************************)
(* The log and the buffer cache below it for TLC.  Each has its own idea   *)
(* of the disk, so that a behaviour moves one or the other.                *)
(***************************************************************************)
EXTENDS Log

CONSTANTS NoProc, NBUF, NoBlock

VARIABLES lru, blockno, B_VALID, B_DIRTY, refcnt, data, owner, idequeue, drive, disk, place,
          uses, panicked, latest

cacheVars == <<lru, blockno, B_VALID, B_DIRTY, refcnt, data, owner, idequeue, drive, disk,
               place, uses, panicked, latest>>

Cache == INSTANCE BufCache WITH pc <- place, b <- uses
ASSUME CacheAssumption == Cache!BufCacheConstants

MCInit == Init /\ Cache!Init
MCNext ==
  \/ Next /\ Cache!Init /\ UNCHANGED cacheVars
  \/ Cache!Next /\ Init /\ UNCHANGED vars
MCSpec == MCInit /\ [][MCNext]_<<vars, cacheVars>> /\ Fairness /\ Cache!Fairness

\* A block is in one buffer at most, the queue of the drive is that of the processes which
\* wait for it, and what bread() returns is what was last stored (module BufCache).
CacheSound == Cache!CacheSound

\* Who sleeps in iderw() gets its block (module BufCache).
RequestServed == Cache!RequestServed
=============================================================================
