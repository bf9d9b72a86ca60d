-------------------------------- MODULE Pages --------------------------------
(***************************************************************************)
(* paging.c: the two pools of pages.                                       *)
(*                                                                         *)
(* Pages are numbered from _reserved_end.  Page 0 holds the bitmap of the  *)
(* kernel's pool, page KernelPages that of the user's pool, and the last   *)
(* page is the first one beyond physical memory.  A bitmap has as many     *)
(* bits as its pool has pages with the one that holds it, so its last bit  *)
(* stands for the page after the pool.  Addresses are counted in pages,    *)
(* modulo the size of the address space.                                   *)
(*                                                                         *)
(* The pool's lock is not taken: an allocation is the scan and, after any  *)
(* number of steps of others, the flip.                                    *)
(***************************************************************************)
EXTENDS Bitmaps

CONSTANTS
  Thread, None,
  KernelPages, UserPages, \* the arguments of page_pool_init
  AddrPages,              \* pages in an address space
  PhysBase,               \* PHYSBASE, in pages
  MaxRun                  \* bound on the argument of page_allocate_multiple

Pool == {"kernel", "user"}
Page == 0 .. KernelPages + UserPages
Start(pool) == IF pool = "kernel" THEN 0 ELSE KernelPages
Pages(pool) == IF pool = "kernel" THEN KernelPages ELSE UserPages

ASSUME PagesAssumption ==
  /\ KernelPages \in Nat \ {0} /\ UserPages \in Nat \ {0} /\ MaxRun \in Nat \ {0}
  /\ PhysBase \in Nat /\ AddrPages \in Nat /\ None \notin Thread
  /\ PhysBase + KernelPages + UserPages < AddrPages
  /\ KernelPages + UserPages < PhysBase

VARIABLES
  bits,     \* occupancy_map of each pool
  request,  \* the allocation a thread is in, with what its scan found
  owners,   \* how many hold each page
  overlaid  \* pages whose bit was set already when an allocation flipped it

pageVars == <<bits, request, owners, overlaid>>

Kernel(page) == (PhysBase + page) % AddrPages
Base(pool) == Kernel(Start(pool) + 1)

InPool(pool, address) ==
  Base(pool) <= address /\ address < Base(pool) + Pages(pool) - 1

(* page_reserve, called by init_timer for the APIC, of a page inside a     *)
(* pool that is not taken; it halts otherwise                              *)
Reserved(page, map) ==
  LET pool == CHOOSE q \in Pool : InPool(q, Kernel(page))
      i    == Kernel(page) - Base(pool)
  IN  IF BitmapAll(map[pool], i, 1, TRUE) THEN {}
      ELSE {[map EXCEPT ![pool] = BitmapSet(@, i, 1, TRUE)]}

(* page_pool_init clears neither the bitmap nor the memory it is laid over: *)
(* the bits are what the memory held                                        *)
PagesInit ==
  \E kernel \in [0 .. KernelPages - 1 -> BOOLEAN],
     user \in [0 .. UserPages - 1 -> BOOLEAN],
     apic \in {p \in Page : \E pool \in Pool : InPool(pool, Kernel(p))} :
    /\ bits \in Reserved(apic, [pool \in Pool |-> IF pool = "kernel" THEN kernel ELSE user])
    /\ owners = [p \in Page |-> IF p = apic THEN 1 ELSE 0]
    /\ request = [t \in Thread |-> None]
    /\ overlaid = {}

(* Whoever holds the page of a bitmap writes over it; the model goes on as *)
(* long as nobody asks that pool for a page.                               *)
Intact(pool) == owners[Start(pool)] = 0

\* Fault: the scan starts where the last run of n bits would begin.
FaultyScan(t, pool, n, c) ==
  /\ request[t] = None /\ Intact(pool)
  /\ request' = [request EXCEPT ![t] =
       [pool |-> pool, pages |-> n, class |-> c,
        index |-> IF n > BitCount(bits[pool]) THEN NPOS
                  ELSE BitmapScan(bits[pool], BitCount(bits[pool]) - n, n, FALSE)]]
  /\ UNCHANGED <<bits, owners, overlaid>>

(* page_pool_alloc: the scan, for a heap arena of class c or for none *)
Scan(t, pool, n, c) ==
  /\ request[t] = None /\ Intact(pool)
  /\ request' = [request EXCEPT ![t] =
       [pool |-> pool, pages |-> n, class |-> c,
        index |-> BitmapScan(bits[pool], 0, n, FALSE)]]
  /\ UNCHANGED <<bits, owners, overlaid>>

Granted(r) == IF r.index = NPOS THEN {}
              ELSE {Start(r.pool) + 1 + r.index + i : i \in 0 .. r.pages - 1}

\* Fault: the pages are not marked.
FaultyFlip(t) ==
  /\ owners' = [p \in Page |-> IF p \in Granted(request[t]) THEN owners[p] + 1 ELSE owners[p]]
  /\ request' = [request EXCEPT ![t] = None]
  /\ UNCHANGED <<bits, overlaid>>

(* page_pool_alloc: the flip *)
Flip(t) ==
  LET r == request[t] IN
  /\ IF r.index = NPOS THEN UNCHANGED bits
     ELSE bits' = [bits EXCEPT ![r.pool] = BitmapFlip(@, r.index, r.pages)]
  /\ overlaid' = overlaid \cup
       {p \in Granted(r) : bits[r.pool][p - Start(r.pool) - 1]}
  /\ owners' = [p \in Page |-> IF p \in Granted(r) THEN owners[p] + 1 ELSE owners[p]]
  /\ request' = [request EXCEPT ![t] = None]

PageAllocate(t, pool, n) == Scan(t, pool, n, None)

PageAllocated(t) == request[t] # None /\ request[t].class = None /\ Flip(t)

\* Fault (of the fault): the kernel's address is kept.
FaultyFreed(page) ==
  LET frame == Kernel(page)
      pool == IF InPool("kernel", frame) THEN "kernel" ELSE "user"
  IN  [bits EXCEPT ![pool] = BitmapSet(@, (frame - Base(pool)) % AddrPages, 1, FALSE)]

(* page_free takes the physical address of the page to a pool that is laid *)
(* out in kernel addresses                                                 *)
Freed(page) ==
  LET frame == page
      pool == IF InPool("kernel", frame) THEN "kernel" ELSE "user"
  IN  [bits EXCEPT ![pool] = BitmapSet(@, (frame - Base(pool)) % AddrPages, 1, FALSE)]

PageFree(page) ==
  /\ owners[page] > 0
  /\ bits' = Freed(page)
  /\ owners' = [owners EXCEPT ![page] = @ - 1]
  /\ UNCHANGED <<request, overlaid>>

-----------------------------------------------------------------------------

(* Whatever the state of the pools, bitmap_scan finds the first run of     *)
(* bits it is asked for.                                                   *)
ScansFindFirst == \A pool \in Pool : FindsFirst(bits[pool])

(* The last bit of a pool stands for a page that is not in it: the page of *)
(* the other pool's bitmap, or memory that does not exist.  First fit      *)
(* gives it out only to a request that nothing else in the pool could      *)
(* satisfy.                                                                *)
LastBit ==
  overlaid' = {} => \A t \in Thread :
    LET r == request[t] IN
    (r # None /\ request'[t] = None /\ Start(r.pool) + Pages(r.pool) \in Granted(r))
      => \A i \in DOMAIN bits[r.pool] :
           Fits(bits[r.pool], i, r.pages, FALSE) => i = r.index
PastEndLast == [][LastBit]_pageVars

(* page_free gives nothing back: a page, once taken, is never free again,  *)
(* unless two allocations flip its bit both.                               *)
StaysTaken ==
  \A pool \in Pool : \A i \in DOMAIN bits[pool] :
    bits[pool][i] /\ ~bits'[pool][i] => overlaid' # overlaid
NothingReturns == [][StaysTaken]_pageVars
=============================================================================
