----------------------------- MODULE Descriptors -----------------------------
(***************************************************************************)
(* fdtable.c over hashtable.c, and the semaphore table of a process in     *)
(* syscall.c.                                                              *)
(*                                                                         *)
(* A process is one thread, so its calls follow one another.  A bucket is  *)
(* the sequence of its list (Lists).  A descriptor is numbered by the call *)
(* that made it; the file under it is external: open_file may find none,   *)
(* and what reads and writes do to one changes nothing here.               *)
(***************************************************************************)
EXTENDS Bitmaps, SequencesExt

CONSTANTS
  FdCount,      \* FDCOUNT, cut down
  SemtableSize, \* SEMTABLE_SIZE, cut down
  MaxOpens

ASSUME DescriptorsAssumption == {FdCount, SemtableSize, MaxOpens} \subseteq Nat /\ FdCount > 2

VARIABLES
  buckets,     \* fdmap
  freefdmap,
  fdNumber,    \* the fd field of the descriptors made so far, in order
  fdFreed,     \* the descriptors that were freed
  semtableMap, \* semtable_map
  semas,       \* what sget has returned
  lost         \* the kernel has followed NULL or a freed descriptor

fdVars == <<buckets, freefdmap, fdNumber, fdFreed>>
descriptorVars == <<fdVars, semtableMap, semas, lost>>

Fd == DOMAIN fdNumber
Bucket == 0 .. 9

(* hash_uint64 of the numbers in use, modulo INIT_BUCKETS *)
HashFd(n) == CASE n = -1 -> 9 [] n = 0 -> 0 [] n = 1 -> 4 [] n = 2 -> 7 [] n = 3 -> 2
               [] n = 4 -> 7 [] OTHER -> 1

(* process_init: create_fdtable and the semaphore table *)
DescriptorsInit ==
  /\ buckets = [b \in Bucket |-> <<>>]
  /\ freefdmap = BitmapSet([i \in 0 .. FdCount - 1 |-> FALSE], 0, 3, TRUE)
  /\ fdNumber = <<>> /\ fdFreed = {}
  /\ semtableMap = [i \in 0 .. SemtableSize - 1 |-> FALSE]
  /\ semas = {}
  /\ lost = FALSE

(* The walk of a bucket stops at the first descriptor with number n or at  *)
(* the end.  It reads the links of those before, and what a freed one      *)
(* holds belongs to the heap.                                              *)
Live(n) == {i \in DOMAIN buckets[HashFd(n)] :
              LET d == buckets[HashFd(n)][i] IN fdNumber[d] = n /\ d \notin fdFreed}
Visited(n) == {buckets[HashFd(n)][i] :
                 i \in IF Live(n) = {} THEN DOMAIN buckets[HashFd(n)] ELSE 1 .. Min(Live(n))}
Strays(n) == Visited(n) \cap fdFreed # {}

(* hashtable_find, as the set of what it finds *)
HashtableFind(n) == IF Live(n) = {} THEN {} ELSE {buckets[HashFd(n)][Min(Live(n))]}

\* Fault: the element that equals the new one stays.
FaultyHashtableInsert(n, d) == [buckets EXCEPT ![HashFd(n)] = Append(@, d)]

HashtableInsert(n, d) ==
  [buckets EXCEPT ![HashFd(n)] =
     Append(IF Live(n) = {} THEN @ ELSE RemoveAt(@, Min(Live(n))), d)]

Lose == lost' = TRUE /\ UNCHANGED <<fdVars, semtableMap, semas>>

(* open: the descriptor is inserted while its number is still 0, and then  *)
(* gets the first number whose bit is set                                  *)
FdtableOpen ==
  LET new == Len(fdNumber) + 1
      number == BitmapScan(freefdmap, 0, 1, TRUE)
  IN
  /\ ~lost /\ Len(fdNumber) < MaxOpens
  /\ IF Strays(0) THEN Lose
     ELSE /\ buckets' = HashtableInsert(0, new)
          /\ fdNumber' = Append(fdNumber, number)
          /\ freefdmap' = IF number = NPOS THEN freefdmap ELSE BitmapFlip(freefdmap, number, 1)
          /\ UNCHANGED <<fdFreed, semtableMap, semas, lost>>

(* close: the descriptor is freed, and neither unlinked nor its number     *)
(* given back; NULL is dereferenced when there is none                     *)
FdtableFree(n) ==
  /\ ~lost
  /\ IF Strays(n) \/ HashtableFind(n) = {} THEN Lose
     ELSE /\ fdFreed' = fdFreed \cup HashtableFind(n)
          /\ UNCHANGED <<buckets, freefdmap, fdNumber, semtableMap, semas, lost>>

(* read, write, eof and chmodfd: they dereference what fdtable_lookupfd    *)
(* found, which may be NULL, and its file, which is NULL where open_file   *)
(* found none                                                              *)
FdUse(n) ==
  /\ ~lost
  /\ \/ Lose
     \/ ~Strays(n) /\ HashtableFind(n) # {} /\ UNCHANGED descriptorVars

(* sget looks for a bit that is set, and there is none; sinc and sdec do    *)
(* nothing for the -1 it returns                                           *)
Sget ==
  LET sema == BitmapScan(semtableMap, 0, 1, TRUE) IN
  /\ ~lost
  /\ semtableMap' = IF sema = NPOS THEN semtableMap ELSE BitmapFlip(semtableMap, sema, 1)
  /\ semas' = semas \cup {sema}
  /\ UNCHANGED <<fdVars, lost>>

(* sunget: for -1 the scan of bitmap_all starts at the last size_t and     *)
(* returns NPOS, which is the same number, and then no bit is set          *)
Sunget(sema) ==
  /\ ~lost
  /\ semtableMap' = IF sema \in DOMAIN semtableMap /\ BitmapAll(semtableMap, sema, 1, TRUE)
                    THEN BitmapSet(semtableMap, sema, 1, FALSE) ELSE semtableMap
  /\ UNCHANGED <<fdVars, semas, lost>>

DescriptorsNext ==
  \/ FdtableOpen
  \/ \E n \in -1 .. FdCount : FdtableFree(n) \/ FdUse(n)
  \/ Sget
  \/ \E sema \in semas : Sunget(sema)

DescriptorsSpec == DescriptorsInit /\ [][DescriptorsNext]_descriptorVars

-----------------------------------------------------------------------------

(* Numbers of open descriptors are distinct as long as there are any to    *)
(* give.  But of all the descriptors a process opens, a lookup finds one   *)
(* at most, the first, and only until the second is opened, which takes    *)
(* its place in bucket 0 and is itself looked for elsewhere, or not under  *)
(* its number: after that every call with a descriptor dereferences NULL.  *)
(* Semaphores are never given out.                                         *)
OnlyFirstFound ==
  /\ \A d, e \in Fd : fdNumber[d] = fdNumber[e] /\ fdNumber[d] # NPOS => d = e
  /\ \A n \in -1 .. FdCount : HashtableFind(n) # {} =>
       n = 0 /\ Fd = {1} /\ HashtableFind(n) = {1} /\ fdFreed = {}
  /\ semas \subseteq {NPOS}

(* What system.h says of open: the number it returns is that of the stream  *)
(* it opened, under which an open descriptor is found.                      *)
OpenedFound ==
  \A d \in Fd \ fdFreed : fdNumber[d] # NPOS => HashtableFind(fdNumber[d]) = {d}
=============================================================================
