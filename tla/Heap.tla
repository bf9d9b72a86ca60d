-------------------------------- MODULE Heap --------------------------------
(***************************************************************************)
(* heap.c over the page pools: size classes, their free lists, and arenas  *)
(* of one page cut into blocks of one class.                               *)
(*                                                                         *)
(* A class is its number in descriptors; a caller's size selects the first *)
(* class it fits, and no caller asks for nothing or for more than the      *)
(* largest.  The descriptor lock of its class is held through kmalloc and  *)
(* kfree, so a call is one step, except that kmalloc, when the free list   *)
(* is empty, allocates a page, which others may do at the same time.       *)
(*                                                                         *)
(* Free lists are modelled by the pointers of list.c, because kfree pushes *)
(* a block twice.  A block is zeroed when it is handed out, and its memory *)
(* is then its owner's: a call that follows its pointers finds NULL, and   *)
(* stores to page 0, which is mapped and which no list reads back, or what *)
(* the owner wrote there, and leaves the model (wild).                     *)
(***************************************************************************)
EXTENDS Pages, SequencesExt

CONSTANTS
  Class,     \* numbers of the size classes
  ArenaSize, \* arena_size of each
  MaxPartly, \* bound on the calls of kfree that leave an arena partly in use
  Null

HeadOf(c) == <<c, -2>>
TailOf(c) == <<c, -1>>
Blocks(p, c) == {<<p, i>> : i \in 0 .. ArenaSize[c] - 1}
Block == UNION {Blocks(p, c) : p \in Page, c \in Class}
Node == Block \cup {HeadOf(c) : c \in Class} \cup {TailOf(c) : c \in Class}

FreeLists == [next : [Node -> Node \cup {Null}], prev : [Node -> Node \cup {Null}],
              size : [Class -> Int]]
Arena == [class : Class, free : Int]
Request == [pool : Pool, pages : Nat \ {0}, class : Class \cup {None}, index : Int]

ASSUME HeapAssumption ==
  /\ Class \subseteq Nat \ {0} /\ ArenaSize \in [Class -> Nat \ {0}] /\ MaxPartly \in Nat
  /\ Null \notin Node \cup FreeLists /\ None \notin Class \cup Arena \cup Request

VARIABLES
  link,   \* the free lists: next, prev and size
  arena,  \* the arena in a page: its class and free_count
  lock,   \* desc_lock of each class
  held,   \* how many hold each block
  partly, \* how many calls of kfree left their arena partly in use
  wild    \* the heap has gone through a wild pointer, or an assertion halted the kernel

heapVars == <<link, arena, lock, held, partly, wild>>
vars == <<pageVars, heapVars>>

(* init_heap *)
HeapInit ==
  /\ link = [next |-> [n \in Node |-> IF n[2] = -2 THEN TailOf(n[1]) ELSE Null],
             prev |-> [n \in Node |-> IF n[2] = -1 THEN HeadOf(n[1]) ELSE Null],
             size |-> [c \in Class |-> 0]]
  /\ arena = [p \in Page |-> None]
  /\ lock = [c \in Class |-> None]
  /\ held = [b \in Block |-> 0]
  /\ partly = 0
  /\ wild = FALSE

Init == PagesInit /\ HeapInit

(* Two arenas in one page are beyond the model. *)
Alive == ~wild /\ overlaid = {}
Idle(t) == Alive /\ request[t] = None

(* list_push_back and list_remove; EXCEPT drops what is stored to Null *)
Pushed(l, c, e) ==
  LET last == IF l.size[c] = 0 THEN HeadOf(c) ELSE l.prev[TailOf(c)] IN
  [next |-> [l.next EXCEPT ![last] = e, ![e] = TailOf(c)],
   prev |-> [l.prev EXCEPT ![e] = last, ![TailOf(c)] = e],
   size |-> [l.size EXCEPT ![c] = @ + 1]]

\* Fault: the size is not counted down.
FaultyRemoved(l, c, e) ==
  IF l.size[c] = 0 THEN l
  ELSE [l EXCEPT !.next = [l.next EXCEPT ![l.prev[e]] = l.next[e]],
                 !.prev = [l.prev EXCEPT ![l.next[e]] = l.prev[e]]]

Removed(l, c, e) ==
  IF l.size[c] = 0 THEN l
  ELSE [next |-> [l.next EXCEPT ![l.prev[e]] = l.next[e]],
        prev |-> [l.prev EXCEPT ![l.next[e]] = l.prev[e]],
        size |-> [l.size EXCEPT ![c] = @ - 1]]

(* the end of kmalloc: the first block of the free list is zeroed and      *)
(* counted; the assertion fails for what is no block                       *)
Take(c, l, a) ==
  LET b == l.next[HeadOf(c)] IN
  \/ /\ b \in Block
     /\ link' = [Removed(l, c, b) EXCEPT !.next[b] = Null, !.prev[b] = Null]
     /\ arena' = [a EXCEPT ![b[1]].free = @ - 1]
     /\ held' = [held EXCEPT ![b] = @ + 1]
     /\ UNCHANGED wild
  \/ /\ b \in Block => held[b] > 0
     /\ wild' = TRUE
     /\ held' = [n \in Block |-> IF n = b THEN held[n] + 1 ELSE held[n]]
     /\ UNCHANGED <<link, arena>>

Kmalloc(t, c) ==
  /\ Idle(t) /\ lock[c] = None /\ link.size[c] # 0
  /\ Take(c, link, arena)
  /\ UNCHANGED <<pageVars, lock, partly>>

KmallocGrow(t, c) ==
  /\ Idle(t) /\ lock[c] = None /\ link.size[c] = 0
  /\ Scan(t, "kernel", 1, c)
  /\ lock' = [lock EXCEPT ![c] = t]
  /\ UNCHANGED <<link, arena, held, partly, wild>>

(* list_push_back of every block of an arena *)
Filled(l, p, c) ==
  LET after[n \in 0 .. ArenaSize[c]] ==
        IF n = 0 THEN l ELSE Pushed(after[n - 1], c, <<p, n - 1>>)
  IN  after[ArenaSize[c]]

\* Fault: the descriptor lock is kept.
FaultyKmallocFill(t) ==
  /\ Alive /\ request[t] # None /\ request[t].class # None
  /\ Flip(t)
  /\ wild' = TRUE
  /\ UNCHANGED <<link, arena, held, lock, partly>>

(* kmalloc with its new page; without one it writes the arena to NULL *)
KmallocFill(t) ==
  LET r == request[t]
      p == CHOOSE q \in Granted(r) : TRUE
  IN
  /\ Alive /\ r # None /\ r.class # None
  /\ Flip(t)
  /\ lock' = [lock EXCEPT ![r.class] = None]
  /\ IF Granted(r) = {} \/ overlaid' # {}
     THEN wild' = TRUE /\ UNCHANGED <<link, arena, held>>
     ELSE Take(r.class, Filled(link, p, r.class),
               [arena EXCEPT ![p] = [class |-> r.class, free |-> ArenaSize[r.class]]])
  /\ UNCHANGED partly

(* list_remove of every block of an arena *)
Emptied(l, p, c) ==
  LET after[n \in 0 .. ArenaSize[c]] ==
        IF n = 0 THEN l ELSE Removed(after[n - 1], c, <<p, n - 1>>)
  IN  after[ArenaSize[c]]

KfreeLast(b) ==
  LET p == b[1]
      c == arena[p].class
  IN
  /\ held[b] > 0 /\ Alive /\ lock[c] = None
  /\ arena[p].free + 1 = ArenaSize[c]
  /\ arena' = [arena EXCEPT ![p].free = @ + 1]
  /\ held' = [held EXCEPT ![b] = @ - 1]
  /\ \/ link' = Emptied(Pushed(link, c, b), p, c) /\ PageFree(p) /\ UNCHANGED wild
     \/ /\ \E other \in Blocks(p, c) : held'[other] > 0
        /\ wild' = TRUE /\ UNCHANGED <<link, pageVars>>
  /\ UNCHANGED <<lock, partly>>

\* Fault: the block is pushed once, and the arena not counted.
FaultyKfree(b) ==
  LET c == arena[b[1]].class IN
  /\ held[b] > 0 /\ Alive /\ lock[c] = None
  /\ arena[b[1]].free + 1 # ArenaSize[c]
  /\ link' = Pushed(link, c, b)
  /\ held' = [held EXCEPT ![b] = @ - 1]
  /\ UNCHANGED <<pageVars, arena, lock, wild, partly>>

(* the block is pushed a second time *)
Kfree(b) ==
  LET c == arena[b[1]].class IN
  /\ held[b] > 0 /\ Alive /\ lock[c] = None
  /\ arena[b[1]].free + 1 # ArenaSize[c]
  /\ partly < MaxPartly
  /\ link' = Pushed(Pushed(link, c, b), c, b)
  /\ arena' = [arena EXCEPT ![b[1]].free = @ + 1]
  /\ held' = [held EXCEPT ![b] = @ - 1]
  /\ partly' = partly + 1
  /\ UNCHANGED <<pageVars, lock, wild>>

(* page_allocate and page_free called by others *)
PagesNext ==
  /\ Alive
  /\ \/ \E t \in Thread : \/ \E pool \in Pool, n \in 1 .. MaxRun : PageAllocate(t, pool, n)
                          \/ PageAllocated(t)
     \/ \E p \in Page : arena[p] = None /\ PageFree(p)
  /\ UNCHANGED heapVars

Next ==
  \/ \E t \in Thread : \/ \E c \in Class : Kmalloc(t, c) \/ KmallocGrow(t, c)
                       \/ KmallocFill(t)
  \/ \E b \in Block : Kfree(b) \/ KfreeLast(b)
  \/ PagesNext

Spec == Init /\ [][Next]_vars

-----------------------------------------------------------------------------

(* Every variable stays in its range; a descriptor lock is held exactly by *)
(* the thread that fetches a page for its class.                           *)
MemoryTypeOK ==
  /\ \A pool \in Pool : bits[pool] \in [0 .. Pages(pool) - 1 -> BOOLEAN]
  /\ owners \in [Page -> Nat] /\ overlaid \subseteq Page
  /\ link.next \in [Node -> Node \cup {Null}] /\ link.prev \in [Node -> Node \cup {Null}]
  /\ held \in [Block -> Nat] /\ wild \in BOOLEAN /\ partly \in 0 .. MaxPartly
  /\ \A c \in Class : \A t \in Thread :
       lock[c] = t <=> request[t] # None /\ request[t].class = c

(* The blocks of a free list, in order, as far as its size says. *)
Walk(c) ==
  LET node[n \in 1 .. link.size[c]] ==
        IF n = 1 THEN link.next[HeadOf(c)] ELSE link.next[node[n - 1]]
  IN  node

(* Nothing is handed out twice: a page only if two allocations lay one     *)
(* over the other in the pool whose lock is not taken, and a block only    *)
(* after that, or after a kfree that left its arena partly in use, which   *)
(* pushed its block twice: the next two calls may both get it.             *)
PagesOnce == overlaid = {} => \A p \in Page : owners[p] <= 1
BlocksOnce == (partly = 0 /\ overlaid = {}) => \A b \in Block : held[b] <= 1
OneHolder == PagesOnce /\ BlocksOnce

(* As long as no kfree has left its arena partly in use, a free list links  *)
(* size different blocks of its class between its sentinels, free_count     *)
(* counts the free blocks of an arena, and a block is either in its free    *)
(* list or with its one holder.                                             *)
FreeListsSound ==
  (partly = 0 /\ ~wild /\ overlaid = {}) =>
    /\ \A c \in Class :
         LET w == <<HeadOf(c)>> \o Walk(c) \o <<TailOf(c)>> IN
         /\ IsInjective(w)
         /\ \A i \in 1 .. Len(w) - 1 : link.next[w[i]] = w[i + 1] /\ link.prev[w[i + 1]] = w[i]
         /\ \A i \in 2 .. Len(w) - 1 : w[i] \in Block /\ arena[w[i][1]].class = c
    /\ \A p \in Page : arena[p] # None =>
         LET blocks == Blocks(p, arena[p].class)
             free   == blocks \cap ToSet(Walk(arena[p].class))
         IN  /\ \A b \in blocks : held[b] = IF b \in free \/ owners[p] = 0 THEN 0 ELSE 1
             /\ owners[p] = 1 => arena[p].free = Cardinality(free)

(* The heap follows no wild pointer but after a kfree that left its arena   *)
(* partly in use and so pushed a block twice, after two allocations of one  *)
(* page, or when the kernel's pool is empty.                                *)
WildHasCause ==
  wild => \/ partly > 0
          \/ overlaid # {}
          \/ \A i \in DOMAIN bits["kernel"] : bits["kernel"][i]
=============================================================================
