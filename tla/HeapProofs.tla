----------------------------- MODULE HeapProofs -----------------------------
(***************************************************************************)
(* Theorems about the page pools, the heap's variables and free lists, and *)
(* the pointers that it follows.                                           *)
(***************************************************************************)
EXTENDS Heap, DataLemmas, SequenceTheorems

PagesTypeOK ==
  /\ bits = [pool \in Pool |-> bits[pool]]
  /\ \A pool \in Pool : bits[pool] \in [0 .. Pages(pool) - 1 -> BOOLEAN]
  /\ request \in [Thread -> Request \cup {None}]
  /\ owners \in [Page -> Nat]
  /\ overlaid \subseteq Page

(* The page that bit i of a pool stands for.                               *)
PageOf(pool, i) == Start(pool) + 1 + i

(* What a scan has found lies in its pool, and, as long as no two          *)
(* allocations have met, nothing before it has come to fit since.          *)
AnswerSound(t) ==
  LET r == request[t] IN
  r # None =>
    /\ r.index = NPOS \/ (r.index >= 0 /\ r.index + r.pages <= Pages(r.pool))
    /\ overlaid = {} => \A i \in 0 .. Pages(r.pool) - 1 :
         Fits(bits[r.pool], i, r.pages, FALSE) => r.index # NPOS /\ r.index <= i

(* As long as no two allocations have met, a page that is taken is taken   *)
(* once, and its bit is set.                                               *)
BitsTell ==
  overlaid = {} =>
    \A p \in Page : owners[p] # 0 =>
      owners[p] = 1 /\ \E pool \in Pool : \E i \in 0 .. Pages(pool) - 1 :
                         p = PageOf(pool, i) /\ bits[pool][i]

PagesSound ==
  /\ PagesTypeOK
  /\ \A t \in Thread : AnswerSound(t)
  /\ BitsTell

(* Where the pools lie; no address wraps around.                           *)
LEMMA Bases ==
  /\ \A p \in Page : Kernel(p) = PhysBase + p
  /\ Base("kernel") = PhysBase + 1
  /\ Base("user") = PhysBase + KernelPages + 1
  <1>1. \A x \in Int : 0 <= x /\ x < AddrPages => x % AddrPages = x
    BY PagesAssumption
  <1>2. \A p \in Page : Kernel(p) = PhysBase + p
    <2> SUFFICES ASSUME NEW p \in Page PROVE Kernel(p) = PhysBase + p
      OBVIOUS
    <2>1. PhysBase + p \in Int /\ 0 <= PhysBase + p /\ PhysBase + p < AddrPages
      BY PagesAssumption DEF Page
    <2> QED
      BY <1>1, <2>1 DEF Kernel
  <1>3. 1 \in Page /\ KernelPages + 1 \in Page
    BY PagesAssumption DEF Page
  <1>4. Start("kernel") = 0 /\ Start("user") = KernelPages
    BY DEF Start
  <1> QED
    BY <1>2, <1>3, <1>4, PagesAssumption DEF Base

(* The residue of a number that is negative, but not by more than one       *)
(* address space.                                                          *)
LEMMA WrapsAround ==
  ASSUME NEW m \in Nat \ {0}, NEW x \in Int, x < 0, x >= -m
  PROVE  x % m = x + m
  <1> DEFINE q == x \div m
             r == x % m
  <1>1. q \in Int /\ r \in Int /\ 0 <= r /\ r < m /\ x = q * m + r
    OBVIOUS
  <1> HIDE DEF q, r
  <1>2. ASSUME q >= 0 PROVE FALSE
    <2>1. q * m >= 0
      BY <1>1, <1>2
    <2> QED
      BY <1>1, <2>1
  <1>3. ASSUME q <= -2 PROVE FALSE
    <2>1. q * m <= (-2) * m
      BY <1>1, <1>3
    <2> QED
      BY <1>1, <2>1
  <1>4. q = -1
    BY <1>1, <1>2, <1>3
  <1>5. r = x + m
    BY <1>1, <1>4
  <1> QED
    BY <1>5 DEF r

(* page_free clears a bit that the user's pool does not have.              *)
LEMMA NothingFreed ==
  ASSUME PagesTypeOK, NEW p \in Page
  PROVE  Freed(p) = bits
  <1>1. p \in Int /\ 0 <= p /\ p <= KernelPages + UserPages /\ p < PhysBase
    BY PagesAssumption DEF Page
  <1>2. ~ InPool("kernel", p)
    BY <1>1, Bases, PagesAssumption DEF InPool
  <1> DEFINE x == p - Base("user")
             i == x % AddrPages
  <1>3. /\ x \in Int /\ x < 0 /\ x + AddrPages >= UserPages /\ x >= -AddrPages /\ AddrPages \in Nat \ {0}
        /\ x + AddrPages < AddrPages
    BY <1>1, Bases, PagesAssumption
  <1>4. i = x + AddrPages
    <2> HIDE DEF x
    <2> QED
      BY <1>3, WrapsAround
  <1>5. BitmapSet(bits["user"], i, 1, FALSE) = bits["user"]
    <2>1. bits["user"] \in [0 .. UserPages - 1 -> BOOLEAN]
      BY DEF PagesTypeOK, Pool, Pages
    <2>2. \A k \in 0 .. UserPages - 1 : k \notin i .. i + 1 - 1
      BY <1>3, <1>4, PagesAssumption
    <2> HIDE DEF i
    <2> QED
      BY <2>1, <2>2 DEF BitmapSet
  <1>6. Freed(p) = [bits EXCEPT !["user"] = BitmapSet(@, i, 1, FALSE)]
    BY <1>2 DEF Freed
  <1> HIDE DEF i
  <1> QED
    BY <1>5, <1>6 DEF PagesTypeOK

(* page_pool_init and page_reserve: the page of the APIC is taken once, and *)
(* its bit is set.                                                         *)
LEMMA PagesInitSound ==
  ASSUME PagesInit
  PROVE  PagesSound /\ overlaid = {}
  <1>1. PICK kernel \in [0 .. KernelPages - 1 -> BOOLEAN],
             user \in [0 .. UserPages - 1 -> BOOLEAN],
             apic \in {p \in Page : \E pool \in Pool : InPool(pool, Kernel(p))} :
          /\ bits \in Reserved(apic, [pool \in Pool |-> IF pool = "kernel" THEN kernel ELSE user])
          /\ owners = [p \in Page |-> IF p = apic THEN 1 ELSE 0]
          /\ request = [t \in Thread |-> None]
          /\ overlaid = {}
    BY DEF PagesInit
  <1> DEFINE map == [pool \in Pool |-> IF pool = "kernel" THEN kernel ELSE user]
             home == CHOOSE q \in Pool : InPool(q, Kernel(apic))
             i == Kernel(apic) - Base(home)
  <1>2. home \in Pool /\ InPool(home, Kernel(apic))
    BY <1>1, Zenon
  <1>3. bits = [map EXCEPT ![home] = BitmapSet(@, i, 1, TRUE)]
    BY <1>1 DEF Reserved
  <1> HIDE DEF home
  <1>4. apic = PageOf(home, i) /\ i \in 0 .. Pages(home) - 1
    <2>1. Kernel(apic) = PhysBase + apic /\ apic \in Int
      BY <1>1, Bases DEF Page
    <2>2. CASE home = "kernel"
      BY <1>2, <2>1, <2>2, Bases, PagesAssumption DEF InPool, PageOf, Start, Pages
    <2>3. CASE home = "user"
      BY <1>2, <2>1, <2>3, Bases, PagesAssumption DEF InPool, PageOf, Start, Pages
    <2> QED
      BY <1>2, <2>2, <2>3 DEF Pool
  <1> HIDE DEF i
  <1>5. \A pool \in Pool : map[pool] \in [0 .. Pages(pool) - 1 -> BOOLEAN]
    BY DEF Pool, Pages
  <1> HIDE DEF map
  <1>6. bits[home] = BitmapSet(map[home], i, 1, TRUE) /\ \A q \in Pool \ {home} : bits[q] = map[q]
    <2>1. map = [pool \in Pool |-> map[pool]]
      BY DEF map
    <2> QED
      BY <1>2, <1>3, <2>1
  <1>7. bits[home] \in [0 .. Pages(home) - 1 -> BOOLEAN] /\ bits[home][i] = TRUE
    <2>1. map[home] \in [0 .. Pages(home) - 1 -> BOOLEAN]
      BY <1>2, <1>5
    <2>2. bits[home] = [k \in 0 .. Pages(home) - 1 |-> IF k \in i .. i + 1 - 1 THEN TRUE ELSE map[home][k]]
      BY <1>6, <2>1 DEF BitmapSet
    <2>3. i \in i .. i + 1 - 1
      BY <1>4
    <2>4. \A k \in 0 .. Pages(home) - 1 : map[home][k] \in BOOLEAN
      BY <2>1
    <2> QED
      BY <1>4, <2>2, <2>3, <2>4, Zenon
  <1>8. PagesTypeOK
    <2>1. bits = [pool \in Pool |-> bits[pool]]
      BY <1>3 DEF map
    <2> QED
      BY <1>1, <1>5, <1>6, <1>7, <2>1 DEF PagesTypeOK
  <1>9. BitsTell
    <2>1. \A p \in Page : owners[p] # 0 => p = apic /\ owners[p] = 1
      BY <1>1
    <2> QED
      BY <1>2, <1>4, <1>7, <2>1 DEF BitsTell
  <1> QED
    BY <1>1, <1>8, <1>9 DEF PagesSound, AnswerSound

(* page_pool_alloc: what the scan answers is the first fit.                *)
LEMMA ScanKeeps ==
  ASSUME PagesSound, NEW t \in Thread, NEW pool \in Pool, NEW n \in Nat \ {0},
         NEW c \in Class \cup {None}, Scan(t, pool, n, c)
  PROVE  PagesSound' /\ request'[t] \in Request
  <1> DEFINE bm == bits[pool]
             i == BitmapScan(bm, 0, n, FALSE)
  <1>1. bm \in [0 .. Pages(pool) - 1 -> BOOLEAN] /\ Pages(pool) \in Nat \ {0}
    BY PagesAssumption DEF PagesSound, PagesTypeOK, Pages, Pool
  <1>2. i = FirstFit(bm, 0, n, FALSE) /\ BitCount(bm) = Pages(pool)
    BY <1>1, ScanIsFirstFit, Counted
  <1> DEFINE fit == {k \in 0 .. Pages(pool) - 1 : Fits(bm, k, n, FALSE)}
  <1>3. i = IF fit = {} THEN NPOS ELSE Min(fit)
    BY <1>2 DEF FirstFit
  <1> HIDE DEF i
  <1>4. /\ i \in Int
        /\ i = NPOS \/ (i >= 0 /\ i + n <= Pages(pool))
        /\ \A k \in fit : i # NPOS /\ i <= k
    <2>1. CASE fit = {}
      <3> HIDE DEF fit
      <3> QED
        BY <1>3, <2>1 DEF NPOS
    <2>2. CASE fit # {}
      <3>1. i \in fit /\ \A k \in fit : i <= k
        <4>1. fit \in SUBSET Nat
          <5>1. fit \subseteq 0 .. Pages(pool) - 1
            OBVIOUS
          <5>2. 0 .. Pages(pool) - 1 \subseteq Nat
            BY <1>1
          <5> HIDE DEF fit
          <5> QED
            BY <5>1, <5>2
        <4> HIDE DEF fit
        <4> QED
          BY <1>3, <2>2, <4>1, LeastIsMin
      <3>3. i \in 0 .. Pages(pool) - 1
        BY <3>1
      <3>2. i + n - 1 \in DOMAIN bm
        <4>1. i + n - 1 \in i .. i + n - 1
          BY <3>1
        <4> QED
          BY <3>1, <4>1 DEF Fits
      <3>4. i + n - 1 \in 0 .. Pages(pool) - 1
        BY <1>1, <3>2
      <3> HIDE DEF fit, bm
      <3> QED
        BY <1>1, <3>1, <3>3, <3>4 DEF NPOS
    <2> QED
      BY <2>1, <2>2
  <1>5. request' = [request EXCEPT ![t] = [pool |-> pool, pages |-> n, class |-> c, index |-> i]]
    BY DEF Scan, i
  <1>6. [pool |-> pool, pages |-> n, class |-> c, index |-> i] \in Request
    BY <1>4 DEF Request
  <1>7. bits' = bits /\ owners' = owners /\ overlaid' = overlaid
    BY DEF Scan
  <1>8. PagesTypeOK'
    BY <1>5, <1>6, <1>7 DEF PagesSound, PagesTypeOK
  <1>9. ASSUME NEW u \in Thread PROVE AnswerSound(u)'
    <2>1. CASE u = t
      <3>1. request'[u] = [pool |-> pool, pages |-> n, class |-> c, index |-> i]
        BY <1>5, <2>1 DEF PagesSound, PagesTypeOK
      <3>2. \A k \in 0 .. Pages(pool) - 1 : Fits(bm, k, n, FALSE) => i # NPOS /\ i <= k
        BY <1>4
      <3>3. /\ request'[u].pool = pool /\ request'[u].pages = n /\ request'[u].index = i
            /\ bits'[pool] = bm
        BY <1>7, <3>1
      <3> QED
        BY <1>4, <3>2, <3>3 DEF AnswerSound
    <2>2. CASE u # t
      <3>1. request'[u] = request[u]
        BY <1>5, <2>2 DEF PagesSound, PagesTypeOK
      <3> QED
        BY <1>7, <3>1 DEF PagesSound, AnswerSound
    <2> QED
      BY <2>1, <2>2
  <1>10. BitsTell'
    BY <1>7 DEF PagesSound, BitsTell
  <1>11. request'[t] \in Request
    BY <1>5, <1>6 DEF PagesSound, PagesTypeOK
  <1> QED
    BY <1>8, <1>9, <1>10, <1>11 DEF PagesSound

(* A page is the page of one bit.                                          *)
LEMMA OnePage ==
  ASSUME NEW pool \in Pool, NEW i \in 0 .. Pages(pool) - 1
  PROVE  /\ PageOf(pool, i) \in Page
         /\ PageOf(pool, i) - Start(pool) - 1 = i
         /\ \A q \in Pool : \A j \in 0 .. Pages(q) - 1 :
              PageOf(q, j) = PageOf(pool, i) => q = pool /\ j = i
  <1>1. CASE pool = "kernel"
    BY <1>1, PagesAssumption DEF PageOf, Page, Pages, Start, Pool
  <1>2. CASE pool = "user"
    BY <1>2, PagesAssumption DEF PageOf, Page, Pages, Start, Pool
  <1> QED
    BY <1>1, <1>2 DEF Pool

(* The pages of an answer are those of its run of bits.                    *)
LEMMA GrantedPages ==
  ASSUME PagesSound, NEW t \in Thread, request[t] # None
  PROVE  LET r == request[t] IN
         /\ r \in Request /\ r.pool \in Pool /\ r.pages \in Nat \ {0} /\ r.index \in Int
         /\ Pages(r.pool) \in Nat \ {0}
         /\ bits[r.pool] \in [0 .. Pages(r.pool) - 1 -> BOOLEAN]
         /\ r.index = NPOS => Granted(r) = {}
         /\ r.index # NPOS =>
              /\ r.index >= 0 /\ r.index + r.pages <= Pages(r.pool)
              /\ Granted(r) = {PageOf(r.pool, j) : j \in r.index .. r.index + r.pages - 1}
              /\ r.index .. r.index + r.pages - 1 \subseteq 0 .. Pages(r.pool) - 1
  <1> DEFINE r == request[t]
  <1>1. r \in Request
    BY DEF PagesSound, PagesTypeOK
  <1>2. r.pool \in Pool /\ r.pages \in Nat \ {0} /\ r.index \in Int
    BY <1>1 DEF Request
  <1>3. Pages(r.pool) \in Nat \ {0} /\ Start(r.pool) \in Nat
    BY <1>2, PagesAssumption DEF Pages, Start, Pool
  <1>4. bits[r.pool] \in [0 .. Pages(r.pool) - 1 -> BOOLEAN]
    BY <1>2 DEF PagesSound, PagesTypeOK
  <1>5. r.index # NPOS => r.index >= 0 /\ r.index + r.pages <= Pages(r.pool)
    BY DEF PagesSound, AnswerSound
  <1>6. ASSUME r.index # NPOS
        PROVE  Granted(r) = {PageOf(r.pool, j) : j \in r.index .. r.index + r.pages - 1}
    <2> DEFINE start == Start(r.pool)
               i == r.index
               n == r.pages
    <2>1. Granted(r) = {start + 1 + i + k : k \in 0 .. n - 1}
      BY <1>6 DEF Granted
    <2>2. \A j : PageOf(r.pool, j) = start + 1 + j
      BY DEF PageOf
    <2>3. start \in Nat /\ i \in Int /\ n \in Nat
      BY <1>2, <1>3
    <2> HIDE DEF r, start, i, n
    <2>4. ASSUME NEW k \in 0 .. n - 1
          PROVE  i + k \in i .. i + n - 1 /\ start + 1 + i + k = start + 1 + (i + k)
      BY <2>3
    <2>5. ASSUME NEW j \in i .. i + n - 1
          PROVE  j - i \in 0 .. n - 1 /\ start + 1 + j = start + 1 + i + (j - i)
      BY <2>3
    <2>6. {start + 1 + i + k : k \in 0 .. n - 1} = {start + 1 + j : j \in i .. i + n - 1}
      BY <2>4, <2>5
    <2> QED
      BY <2>1, <2>2, <2>6 DEF r, i, n
  <1>7. r.index = NPOS => Granted(r) = {}
    BY DEF Granted
  <1> HIDE DEF r
  <1>8. r.index # NPOS => r.index .. r.index + r.pages - 1 \subseteq 0 .. Pages(r.pool) - 1
    BY <1>2, <1>3, <1>5
  <1> QED
    BY <1>1, <1>2, <1>3, <1>4, <1>5, <1>6, <1>7, <1>8 DEF r

(* page_pool_alloc, when no two allocations have met before it: if it meets *)
(* none either, it takes what was free; no bit is cleared; and the bit     *)
(* behind the end of the pool goes where nothing else fits.                *)
LEMMA FlipKeeps ==
  ASSUME PagesSound, NEW t \in Thread, request[t] # None, overlaid = {}, Flip(t)
  PROVE  PagesSound' /\ StaysTaken /\ LastBit
  <1> DEFINE r == request[t]
             pool == r.pool
             i == r.index
             n == r.pages
             bm == bits[pool]
  <1>1. /\ r \in Request /\ pool \in Pool /\ n \in Nat \ {0} /\ i \in Int
        /\ Pages(pool) \in Nat \ {0}
        /\ bm \in [0 .. Pages(pool) - 1 -> BOOLEAN]
        /\ i = NPOS => Granted(r) = {}
        /\ i # NPOS =>
             /\ i >= 0 /\ i + n <= Pages(pool)
             /\ Granted(r) = {PageOf(pool, j) : j \in i .. i + n - 1}
             /\ i .. i + n - 1 \subseteq 0 .. Pages(pool) - 1
    BY GrantedPages
  <1>2. /\ i = NPOS => bits' = bits
        /\ i # NPOS => bits' = [bits EXCEPT ![pool] = BitmapFlip(bm, i, n)]
        /\ overlaid' = overlaid \cup {p \in Granted(r) : bm[p - Start(pool) - 1]}
        /\ owners' = [p \in Page |-> IF p \in Granted(r) THEN owners[p] + 1 ELSE owners[p]]
        /\ request' = [request EXCEPT ![t] = None]
    BY DEF Flip
  <1>3. /\ DOMAIN bits = Pool
        /\ \A q \in Pool : bits[q] \in [0 .. Pages(q) - 1 -> BOOLEAN]
        /\ request \in [Thread -> Request \cup {None}]
        /\ owners \in [Page -> Nat]
        /\ bits = [q \in Pool |-> bits[q]]
    BY DEF PagesSound, PagesTypeOK
  <1>4. Granted(r) \subseteq Page
    BY <1>1, OnePage
  <1> HIDE DEF r, pool, i, n, bm
  <1>5. /\ \A q \in Pool : q # pool => bits'[q] = bits[q]
        /\ i = NPOS => bits'[pool] = bm
        /\ i # NPOS => bits'[pool] = [k \in 0 .. Pages(pool) - 1 |->
                                       IF k \in i .. i + n - 1 THEN ~bm[k] ELSE bm[k]]
        /\ bits' = [q \in Pool |-> bits'[q]]
    <2>1. bm = bits[pool] /\ DOMAIN bm = 0 .. Pages(pool) - 1
      BY <1>1 DEF bm
    <2>2. BitmapFlip(bm, i, n) = [k \in 0 .. Pages(pool) - 1 |->
                                       IF k \in i .. i + n - 1 THEN ~bm[k] ELSE bm[k]]
      BY <2>1 DEF BitmapFlip
    <2>3. CASE i = NPOS
      BY <1>2, <1>3, <2>1, <2>3
    <2>4. CASE i # NPOS
      <3>1. bits' = [bits EXCEPT ![pool] = BitmapFlip(bm, i, n)]
        BY <1>2, <2>4
      <3> QED
        BY <1>1, <1>3, <2>2, <2>4, <3>1, Zenon
    <2> QED
      BY <2>3, <2>4
  <1>6. bits'[pool] \in [0 .. Pages(pool) - 1 -> BOOLEAN]
    BY <1>1, <1>5, Zenon
  <1>7. PagesTypeOK'
    <2>1. overlaid' \subseteq Page
      BY <1>2, <1>4 DEF PagesSound, PagesTypeOK
    <2>2. owners' \in [Page -> Nat]
      BY <1>2, <1>3
    <2>3. request' \in [Thread -> Request \cup {None}]
      BY <1>2, <1>3
    <2>4. \A q \in Pool : bits'[q] \in [0 .. Pages(q) - 1 -> BOOLEAN]
      BY <1>3, <1>5, <1>6
    <2> QED
      BY <1>5, <2>1, <2>2, <2>3, <2>4 DEF PagesTypeOK
  <1>8. ASSUME overlaid' = {}, i # NPOS, NEW j \in i .. i + n - 1
        PROVE  bm[j] = FALSE /\ bits'[pool][j] = TRUE
    <2>1. j \in 0 .. Pages(pool) - 1 /\ PageOf(pool, j) \in Granted(r)
      BY <1>1, <1>8
    <2>2. PageOf(pool, j) - Start(pool) - 1 = j
      BY <1>1, <2>1, OnePage
    <2>3. PageOf(pool, j) \notin {p \in Granted(r) : bm[p - Start(pool) - 1]}
      BY <1>2, <1>8
    <2>4. ~ bm[j]
      BY <2>1, <2>2, <2>3
    <2>5. bm[j] \in BOOLEAN
      BY <1>1, <2>1
    <2> QED
      BY <1>5, <1>8, <2>1, <2>4, <2>5, Zenon
  <1>9. ASSUME overlaid' = {}, NEW q \in Pool, NEW k \in 0 .. Pages(q) - 1, bits[q][k]
        PROVE  bits'[q][k]
    <2>1. CASE q = pool /\ i # NPOS
      <3>1. k \notin i .. i + n - 1
        BY <1>8, <1>9, <2>1 DEF bm
      <3> QED
        BY <1>5, <1>9, <2>1, <3>1, Zenon DEF bm
    <2>2. CASE q = pool /\ i = NPOS
      BY <1>5, <1>9, <2>2 DEF bm
    <2>3. CASE q # pool
      BY <1>5, <1>9, <2>3
    <2> QED
      BY <2>1, <2>2, <2>3
  <1>10. StaysTaken
    <2>1. ASSUME overlaid' = {} PROVE StaysTaken
      <3>1. \A q \in Pool : DOMAIN bits[q] = 0 .. Pages(q) - 1
        BY <1>3
      <3> QED
        BY <1>9, <2>1, <3>1, Zenon DEF StaysTaken
    <2>2. ASSUME overlaid' # {} PROVE StaysTaken
      BY <2>2 DEF StaysTaken
    <2> QED
      BY <2>1, <2>2
  <1>11. \A u \in Thread : IF u = t THEN request'[u] = None ELSE request'[u] = request[u]
    BY <1>2, <1>3
  <1>12. ASSUME NEW u \in Thread PROVE AnswerSound(u)'
    <2> DEFINE ru == request[u]
    <2> SUFFICES ASSUME request'[u] # None PROVE AnswerSound(u)'
      BY DEF AnswerSound
    <2>1. request'[u] = ru
      BY <1>11
    <2>2. ru.pool \in Pool /\ AnswerSound(u)
      BY <2>1, GrantedPages DEF PagesSound
    <2>3. ASSUME overlaid' = {}, NEW k \in 0 .. Pages(ru.pool) - 1,
                 Fits(bits'[ru.pool], k, ru.pages, FALSE)
          PROVE  Fits(bits[ru.pool], k, ru.pages, FALSE)
      <3>1. ASSUME NEW j \in k .. k + ru.pages - 1
            PROVE  j \in DOMAIN bits[ru.pool] /\ bits[ru.pool][j] = FALSE
        <4>1. j \in DOMAIN bits'[ru.pool] /\ bits'[ru.pool][j] = FALSE
          BY <2>3 DEF Fits
        <4>2. j \in 0 .. Pages(ru.pool) - 1 /\ DOMAIN bits[ru.pool] = 0 .. Pages(ru.pool) - 1
          BY <1>3, <1>7, <2>2, <4>1 DEF PagesTypeOK
        <4>3. bits[ru.pool][j] \in BOOLEAN /\ ~ bits[ru.pool][j]
          BY <1>3, <1>9, <2>2, <2>3, <4>1, <4>2
        <4> QED
          BY <4>2, <4>3
      <3> QED
        BY <3>1 DEF Fits
    <2>4. /\ ru.index = NPOS \/ (ru.index >= 0 /\ ru.index + ru.pages <= Pages(ru.pool))
          /\ \A k \in 0 .. Pages(ru.pool) - 1 :
               Fits(bits[ru.pool], k, ru.pages, FALSE) => ru.index # NPOS /\ ru.index <= k
      BY <2>1, <2>2 DEF AnswerSound
    <2> HIDE DEF ru
    <2>5. overlaid' = {} => \A k \in 0 .. Pages(ru.pool) - 1 :
            Fits(bits'[ru.pool], k, ru.pages, FALSE) => ru.index # NPOS /\ ru.index <= k
      BY <2>3, <2>4
    <2> QED
      BY <2>1, <2>4, <2>5 DEF AnswerSound
  <1>13. BitsTell'
    <2> SUFFICES ASSUME overlaid' = {}, NEW p \in Page, owners'[p] # 0
                 PROVE  owners'[p] = 1 /\ \E q \in Pool : \E k \in 0 .. Pages(q) - 1 :
                                            p = PageOf(q, k) /\ bits'[q][k]
      BY DEF BitsTell
    <2>1. owners[p] # 0 => /\ owners[p] = 1
                           /\ \E q \in Pool : \E k \in 0 .. Pages(q) - 1 :
                                p = PageOf(q, k) /\ bits[q][k]
      BY DEF PagesSound, BitsTell
    <2>2. CASE p \in Granted(r)
      <3>1. PICK j \in i .. i + n - 1 : p = PageOf(pool, j) /\ i # NPOS
        BY <1>1, <2>2
      <3>2. j \in 0 .. Pages(pool) - 1
        BY <1>1, <3>1
      <3>3. bm[j] = FALSE /\ bits'[pool][j] = TRUE
        BY <1>8, <3>1
      <3>4. ASSUME NEW q \in Pool, NEW k \in 0 .. Pages(q) - 1, p = PageOf(q, k), bits[q][k]
            PROVE  FALSE
        <4>0. \A q1 \in Pool : \A k1 \in 0 .. Pages(q1) - 1 :
                PageOf(q1, k1) = PageOf(pool, j) => q1 = pool /\ k1 = j
          BY <1>1, <3>2, OnePage
        <4>1. q = pool /\ k = j
          BY <3>1, <3>4, <4>0
        <4>2. bits[pool][j]
          BY <3>4, <4>1
        <4>3. ~ bits[pool][j]
          BY <3>3, Zenon DEF bm
        <4> QED
          BY <4>2, <4>3
      <3>5. owners[p] = 0
        BY <2>1, <3>4
      <3>6. owners'[p] = 1
        BY <1>2, <2>2, <3>5
      <3> QED
        BY <1>1, <3>1, <3>2, <3>3, <3>6
    <2>3. CASE p \notin Granted(r)
      <3>1. owners'[p] = owners[p]
        BY <1>2, <2>3
      <3>2. PICK q \in Pool, k \in Nat : k \in 0 .. Pages(q) - 1 /\ p = PageOf(q, k) /\ bits[q][k]
        BY <2>1, <3>1
      <3>3. bits'[q][k]
        BY <1>9, <3>2
      <3> QED
        BY <2>1, <3>1, <3>2, <3>3
    <2> QED
      BY <2>2, <2>3
  <1>14. LastBit
    <2> SUFFICES ASSUME NEW u \in Thread, request[u] # None, request'[u] = None,
                        Start(request[u].pool) + Pages(request[u].pool) \in Granted(request[u]),
                        NEW k \in DOMAIN bits[request[u].pool],
                        Fits(bits[request[u].pool], k, request[u].pages, FALSE)
                 PROVE  k = request[u].index
      BY DEF LastBit
    <2>1. u = t
      BY <1>11
    <2>2. /\ request[u].pool = pool /\ request[u].pages = n /\ request[u].index = i
          /\ bits[pool] = bm /\ request[u] = r
      BY <2>1 DEF r, pool, n, i, bm
    <2>3. i # NPOS
      BY <1>1, <2>2
    <2>4. PICK j \in i .. i + n - 1 : Start(pool) + Pages(pool) = PageOf(pool, j)
      BY <1>1, <2>2, <2>3
    <2>5. Start(pool) \in Nat
      BY <1>1, PagesAssumption DEF Start
    <2>6. j = Pages(pool) - 1 /\ j <= i + n - 1
      BY <1>1, <2>4, <2>5 DEF PageOf
    <2>7. k \in 0 .. Pages(pool) - 1
      BY <1>1, <2>2
    <2>8. i <= k
      BY <2>2, <2>7 DEF PagesSound, AnswerSound
    <2>9. k + n - 1 \in DOMAIN bm
      <3>1. k + n - 1 \in k .. k + n - 1
        BY <1>1, <2>7
      <3> QED
        BY <2>2, <3>1 DEF Fits
    <2>10. k + n - 1 <= Pages(pool) - 1
      BY <1>1, <2>9
    <2> QED
      BY <1>1, <2>2, <2>3, <2>6, <2>7, <2>8, <2>10
  <1> QED
    BY <1>7, <1>10, <1>12, <1>13, <1>14 DEF PagesSound

(* page_free, which frees nothing.                                         *)
LEMMA FreeKeeps ==
  ASSUME PagesSound, NEW p \in Page, overlaid = {}, PageFree(p)
  PROVE  PagesSound' /\ StaysTaken /\ LastBit
  <1>1. bits' = bits
    BY NothingFreed DEF PagesSound, PageFree
  <1>2. /\ owners[p] > 0 /\ owners' = [owners EXCEPT ![p] = @ - 1]
        /\ request' = request /\ overlaid' = overlaid
        /\ owners \in [Page -> Nat]
    BY DEF PageFree, PagesSound, PagesTypeOK
  <1>3. PagesTypeOK'
    BY <1>1, <1>2 DEF PagesSound, PagesTypeOK
  <1>4. BitsTell'
    <2> SUFFICES ASSUME NEW q \in Page, owners'[q] # 0
                 PROVE  owners'[q] = owners[q]
      BY <1>1, <1>2 DEF PagesSound, BitsTell
    <2>1. owners[p] # 0 /\ owners[p] = 1
      BY <1>2 DEF PagesSound, BitsTell
    <2> QED
      BY <1>2, <2>1
  <1>5. \A t \in Thread : AnswerSound(t)'
    BY <1>1, <1>2 DEF PagesSound, AnswerSound
  <1> QED
    BY <1>1, <1>2, <1>3, <1>4, <1>5 DEF PagesSound, StaysTaken, LastBit

(* The pools under the heap: each of its steps scans, takes or frees, while *)
(* no two allocations have met, or leaves them alone.                      *)
LEMMA PagesUnderHeap ==
  ASSUME PagesSound, [Next]_vars
  PROVE  \/ UNCHANGED pageVars
         \/ \E t \in Thread, pool \in Pool, n \in Nat \ {0}, c \in Class \cup {None} :
              Scan(t, pool, n, c)
         \/ \E t \in Thread : overlaid = {} /\ request[t] # None /\ Flip(t)
         \/ \E p \in Page : overlaid = {} /\ PageFree(p)
  <1>1. CASE UNCHANGED vars
    BY <1>1 DEF vars
  <1>2. CASE \E t \in Thread, c \in Class : Kmalloc(t, c)
    BY <1>2 DEF Kmalloc
  <1>3. CASE \E t \in Thread, c \in Class : KmallocGrow(t, c)
    BY <1>3 DEF KmallocGrow, Pool
  <1>4. CASE \E t \in Thread : KmallocFill(t)
    BY <1>4 DEF KmallocFill, Alive
  <1>5. CASE \E b \in Block : Kfree(b)
    BY <1>5 DEF Kfree
  <1>6. CASE \E b \in Block : KfreeLast(b)
    <2>1. PICK b \in Block : KfreeLast(b)
      BY <1>6
    <2>2. b[1] \in Page
      BY DEF Block, Blocks
    <2> QED
      BY <2>1, <2>2 DEF KfreeLast, Alive
  <1>7. CASE PagesNext
    <2>1. Alive /\ (\/ \E t \in Thread : \/ \E pool \in Pool, n \in 1 .. MaxRun : PageAllocate(t, pool, n)
                                         \/ PageAllocated(t)
                    \/ \E p \in Page : arena[p] = None /\ PageFree(p))
      BY <1>7 DEF PagesNext
    <2>2. \A n \in 1 .. MaxRun : n \in Nat \ {0}
      BY PagesAssumption
    <2> QED
      BY <2>1, <2>2 DEF PageAllocate, PageAllocated, Alive
  <1> QED
    BY <1>1, <1>2, <1>3, <1>4, <1>5, <1>6, <1>7 DEF Next

(* Scans, flips and frees keep what the bitmaps, the owners and the         *)
(* requests say of each other.                                             *)
LEMMA PagesStep ==
  ASSUME PagesSound, [Next]_vars
  PROVE  PagesSound' /\ (UNCHANGED pageVars \/ (StaysTaken /\ LastBit))
  <1>1. CASE UNCHANGED pageVars
    BY <1>1 DEF pageVars, PagesSound, PagesTypeOK, AnswerSound, BitsTell
  <1>2. ASSUME NEW t \in Thread, NEW pool \in Pool, NEW n \in Nat \ {0},
               NEW c \in Class \cup {None}, Scan(t, pool, n, c)
        PROVE  PagesSound' /\ StaysTaken /\ LastBit
    <2>1. bits' = bits /\ \A u \in Thread : request[u] # None => request'[u] # None
      BY <1>2 DEF Scan, PagesSound, PagesTypeOK
    <2> QED
      BY <1>2, <2>1, ScanKeeps DEF StaysTaken, LastBit
  <1>3. ASSUME NEW t \in Thread, overlaid = {}, request[t] # None, Flip(t)
        PROVE  PagesSound' /\ StaysTaken /\ LastBit
    BY <1>3, FlipKeeps
  <1>4. ASSUME NEW p \in Page, overlaid = {}, PageFree(p)
        PROVE  PagesSound' /\ StaysTaken /\ LastBit
    BY <1>4, FreeKeeps
  <1> QED
    BY <1>1, <1>2, <1>3, <1>4, PagesUnderHeap

(* The inductive invariant of the page pools.                              *)
THEOREM PagesKept == Spec => []PagesSound
  <1>1. Init => PagesSound
    BY PagesInitSound DEF Init
  <1>2. PagesSound /\ [Next]_vars => PagesSound'
    BY PagesStep
  <1> QED
    BY <1>1, <1>2, PTL DEF Spec

(* bitmap_scan returns the first run of bits there is, whatever page_pool_  *)
(* init found in memory and whatever has been taken since, for pools of    *)
(* any size.                                                               *)
THEOREM ScansRight == Spec => []ScansFindFirst
  <1>1. PagesSound => ScansFindFirst
    <2> SUFFICES ASSUME PagesSound, NEW pool \in Pool PROVE FindsFirst(bits[pool])
      BY DEF ScansFindFirst
    <2>1. bits[pool] \in [0 .. Pages(pool) - 1 -> BOOLEAN] /\ Pages(pool) \in Nat
      BY PagesAssumption DEF PagesSound, PagesTypeOK, Pages, Pool
    <2> QED
      BY <2>1, FirstFound
  <1> QED
    BY <1>1, PagesKept, PTL

(* A page has one holder as long as no two allocations have met between    *)
(* scan and flip.                                                          *)
THEOREM OnePageHolder == Spec => []PagesOnce
  <1>1. PagesSound => PagesOnce
    <2> SUFFICES ASSUME PagesSound, overlaid = {}, NEW p \in Page PROVE owners[p] <= 1
      BY DEF PagesOnce
    <2>1. owners[p] \in Nat /\ (owners[p] # 0 => owners[p] = 1)
      BY DEF PagesSound, PagesTypeOK, BitsTell
    <2> QED
      BY <2>1
  <1> QED
    BY <1>1, PagesKept, PTL

(* page_free frees nothing, for pools of any size at any place.            *)
THEOREM FreesNothing == Spec => NothingReturns
  <1>1. PagesSound /\ [Next]_vars => [StaysTaken]_pageVars
    BY PagesStep
  <1> QED
    BY <1>1, PagesKept, PTL DEF Spec, NothingReturns

(* The bit behind the end of a pool is given only to a request that fits   *)
(* nowhere else in it.                                                     *)
THEOREM PastEndIsLast == Spec => PastEndLast
  <1>1. PagesSound /\ [Next]_vars => [LastBit]_pageVars
    BY PagesStep
  <1> QED
    BY <1>1, PagesKept, PTL DEF Spec, PastEndLast

-----------------------------------------------------------------------------

(* The free list of class c in l holds the blocks of S, in some order.      *)
Holds(l, c, S) ==
  \E w : /\ Chain(l.next, l.prev, w, l.size[c])
         /\ w[0] = HeadOf(c) /\ w[l.size[c] + 1] = TailOf(c)
         /\ S = {w[i] : i \in 1 .. l.size[c]}

(* Every free list of l holds its set of F, and no block is in two.        *)
AllHold(l, F) ==
  /\ l \in FreeLists /\ F \in [Class -> SUBSET Block]
  /\ \A c \in Class : Holds(l, c, F[c])
  /\ \A c, d \in Class : c # d => F[c] \cap F[d] = {}

(* Blocks are no sentinels, and each sentinel belongs to one class.         *)
LEMMA Ends ==
  ASSUME NEW c \in Class
  PROVE  /\ HeadOf(c) \in Node /\ TailOf(c) \in Node /\ HeadOf(c) # TailOf(c)
         /\ HeadOf(c) \notin Block /\ TailOf(c) \notin Block
         /\ \A d \in Class : /\ HeadOf(c) # TailOf(d)
                             /\ HeadOf(c) = HeadOf(d) => c = d
                             /\ TailOf(c) = TailOf(d) => c = d
         /\ Block \subseteq Node /\ Null \notin Node
  <1>1. \A b \in Block : b[2] \in Nat
    <2>1. \A d \in Class : ArenaSize[d] \in Nat
      BY HeapAssumption
    <2> QED
      BY <2>1 DEF Block, Blocks
  <1>2. HeadOf(c)[2] = -2 /\ TailOf(c)[2] = -1 /\ HeadOf(c)[1] = c /\ TailOf(c)[1] = c
    BY DEF HeadOf, TailOf
  <1>3. -2 \notin Nat /\ -1 \notin Nat
    OBVIOUS
  <1>4. HeadOf(c) \notin Block /\ TailOf(c) \notin Block
    BY <1>1, <1>2, <1>3
  <1>5. \A d \in Class : /\ HeadOf(c) # TailOf(d)
                         /\ HeadOf(c) = HeadOf(d) => c = d
                         /\ TailOf(c) = TailOf(d) => c = d
    BY DEF HeadOf, TailOf
  <1> QED
    BY <1>4, <1>5, HeapAssumption DEF Node

(* What list_push_back stores.                                             *)
LEMMA PushStores ==
  ASSUME NEW l \in FreeLists, NEW c \in Class, NEW S \in SUBSET Block, Holds(l, c, S),
         NEW e \in Block
  PROVE  LET m == Pushed(l, c, e)
             last == IF l.size[c] = 0 THEN HeadOf(c) ELSE l.prev[TailOf(c)] IN
         /\ m \in FreeLists
         /\ last \in S \cup {HeadOf(c)}
         /\ \A x \in Node \ {last, e} : m.next[x] = l.next[x]
         /\ \A x \in Node \ {e, TailOf(c)} : m.prev[x] = l.prev[x]
         /\ last # e => m.next[last] = e
         /\ m.next[e] = TailOf(c) /\ m.prev[TailOf(c)] = e /\ m.prev[e] = last
         /\ m.size[c] = l.size[c] + 1 /\ \A d \in Class : d # c => m.size[d] = l.size[d]
  <1> DEFINE last == IF l.size[c] = 0 THEN HeadOf(c) ELSE l.prev[TailOf(c)]
             n == l.size[c]
             m == Pushed(l, c, e)
  <1>1. PICK w : /\ Chain(l.next, l.prev, w, n) /\ w[0] = HeadOf(c) /\ w[n + 1] = TailOf(c)
                 /\ S = {w[i] : i \in 1 .. n}
    BY DEF Holds
  <1>2. n \in Nat /\ \A i \in 0 .. n : l.prev[w[i + 1]] = w[i]
    BY <1>1 DEF Chain
  <1>3. last = w[n]
    <2>1. n \in 0 .. n /\ (n # 0 => n \in 1 .. n)
      BY <1>2
    <2> QED
      BY <1>1, <1>2, <2>1
  <1>4. last \in S \cup {HeadOf(c)}
    <2>1. n = 0 \/ n \in 1 .. n
      BY <1>2
    <2> QED
      BY <1>1, <1>3, <2>1
  <1>5. last \in Node /\ e \in Node /\ TailOf(c) \in Node /\ e # TailOf(c)
    BY <1>4, Ends
  <1>6. /\ l.next \in [Node -> Node \cup {Null}] /\ l.prev \in [Node -> Node \cup {Null}]
        /\ l.size \in [Class -> Int]
    BY DEF FreeLists
  <1> HIDE DEF last
  <1>7. /\ m.next = [l.next EXCEPT ![last] = e, ![e] = TailOf(c)]
        /\ m.prev = [l.prev EXCEPT ![e] = last, ![TailOf(c)] = e]
        /\ m.size = [l.size EXCEPT ![c] = @ + 1]
        /\ m = [next |-> m.next, prev |-> m.prev, size |-> m.size]
    BY DEF Pushed, last
  <1> HIDE DEF m
  <1>8. m \in FreeLists
    <2>1. m.next \in [Node -> Node \cup {Null}]
      BY <1>5, <1>6, <1>7
    <2>2. m.prev \in [Node -> Node \cup {Null}]
      BY <1>5, <1>6, <1>7
    <2>3. m.size \in [Class -> Int]
      BY <1>6, <1>7
    <2> QED
      BY <1>7, <2>1, <2>2, <2>3 DEF FreeLists
  <1>9. /\ \A x \in Node \ {last, e} : m.next[x] = l.next[x]
        /\ last # e => m.next[last] = e
        /\ m.next[e] = TailOf(c)
    BY <1>5, <1>6, <1>7
  <1>10. /\ \A x \in Node \ {e, TailOf(c)} : m.prev[x] = l.prev[x]
         /\ m.prev[TailOf(c)] = e /\ m.prev[e] = last
    BY <1>5, <1>6, <1>7
  <1>11. m.size[c] = l.size[c] + 1 /\ \A d \in Class : d # c => m.size[d] = l.size[d]
    BY <1>6, <1>7
  <1> QED
    BY <1>4, <1>8, <1>9, <1>10, <1>11 DEF m, last

(* Stores to nodes of other lists do not touch a list.                     *)
LEMMA HoldsKept ==
  ASSUME NEW l, NEW m, NEW d \in Class, NEW T, Holds(l, d, T), m.size[d] = l.size[d],
         \A x \in T \cup {HeadOf(d)} : m.next[x] = l.next[x],
         \A x \in T \cup {TailOf(d)} : m.prev[x] = l.prev[x]
  PROVE  Holds(m, d, T)
  <1> DEFINE n == l.size[d]
  <1>1. PICK w : /\ Chain(l.next, l.prev, w, n) /\ w[0] = HeadOf(d) /\ w[n + 1] = TailOf(d)
                 /\ T = {w[i] : i \in 1 .. n}
    BY DEF Holds
  <1>2. n \in Nat
    BY <1>1 DEF Chain
  <1>3. ASSUME NEW i \in 0 .. n
        PROVE  m.next[w[i]] = l.next[w[i]] /\ m.prev[w[i + 1]] = l.prev[w[i + 1]]
    <2>1. (i = 0 \/ i \in 1 .. n) /\ (i + 1 = n + 1 \/ i + 1 \in 1 .. n)
      BY <1>2
    <2> QED
      BY <1>1, <2>1
  <1>4. Chain(m.next, m.prev, w, n)
    <2> HIDE DEF n
    <2> QED
      BY <1>1, <1>3, ChainKept
  <1> QED
    BY <1>1, <1>4 DEF Holds

(* list_push_back of a block that is in no free list.                      *)
LEMMA PushHolds ==
  ASSUME NEW l, NEW F, AllHold(l, F), NEW c \in Class, NEW e \in Block,
         \A d \in Class : e \notin F[d]
  PROVE  AllHold(Pushed(l, c, e), [F EXCEPT ![c] = @ \cup {e}])
  <1> DEFINE m == Pushed(l, c, e)
             last == IF l.size[c] = 0 THEN HeadOf(c) ELSE l.prev[TailOf(c)]
             n == l.size[c]
             S == F[c]
             G == [F EXCEPT ![c] = S \cup {e}]
  <1>1. /\ l \in FreeLists /\ F \in [Class -> SUBSET Block]
        /\ \A d \in Class : Holds(l, d, F[d])
        /\ \A d, h \in Class : d # h => F[d] \cap F[h] = {}
    BY DEF AllHold
  <1>2. S \in SUBSET Block /\ Holds(l, c, S)
    BY <1>1
  <1>3. /\ m \in FreeLists
        /\ last \in S \cup {HeadOf(c)}
        /\ \A x \in Node \ {last, e} : m.next[x] = l.next[x]
        /\ \A x \in Node \ {e, TailOf(c)} : m.prev[x] = l.prev[x]
        /\ last # e => m.next[last] = e
        /\ m.next[e] = TailOf(c) /\ m.prev[TailOf(c)] = e /\ m.prev[e] = last
        /\ m.size[c] = n + 1 /\ \A d \in Class : d # c => m.size[d] = l.size[d]
    <2> HIDE DEF S
    <2> QED
      BY <1>1, <1>2, PushStores
  <1>4. PICK w : /\ Chain(l.next, l.prev, w, n) /\ w[0] = HeadOf(c) /\ w[n + 1] = TailOf(c)
                 /\ S = {w[i] : i \in 1 .. n}
    BY <1>2 DEF Holds
  <1>5. /\ n \in Nat /\ \A i \in 0 .. n : l.prev[w[i + 1]] = w[i]
        /\ \A i, j \in 0 .. n + 1 : w[i] = w[j] => i = j
    BY <1>4 DEF Chain
  <1>6. \A i \in 0 .. n + 1 : w[i] \in Node /\ w[i] # e
    <2> SUFFICES ASSUME NEW i \in 0 .. n + 1 PROVE w[i] \in Node /\ w[i] # e
      OBVIOUS
    <2>1. i = 0 \/ i = n + 1 \/ i \in 1 .. n
      BY <1>5
    <2>2. w[i] \in {HeadOf(c), TailOf(c)} \/ w[i] \in S
      BY <1>4, <2>1
    <2>3. e \notin S
      OBVIOUS
    <2> HIDE DEF S
    <2> QED
      BY <1>2, <2>2, <2>3, Ends
  <1>7. last = w[n]
    <2>1. n \in 0 .. n
      BY <1>5
    <2> QED
      BY <1>4, <1>5, <2>1
  <1>8. n \in 0 .. n /\ n \in 0 .. n + 1 /\ n + 1 \in 0 .. n + 1
    BY <1>5
  <1> HIDE DEF last, m, n, S
  <1> DEFINE v == Longer(w, n, n, e)
  <1>9. Chain(m.next, m.prev, v, n + 1)
    <2>1. m.next[w[n]] = e /\ m.next[e] = w[n + 1] /\ m.prev[e] = w[n] /\ m.prev[w[n + 1]] = e
      BY <1>3, <1>4, <1>6, <1>7, <1>8
    <2>2. ASSUME NEW i \in 0 .. n, i # n
          PROVE  m.next[w[i]] = l.next[w[i]] /\ m.prev[w[i + 1]] = l.prev[w[i + 1]]
      <3>1. i \in 0 .. n + 1 /\ i + 1 \in 0 .. n + 1 /\ i + 1 # n + 1
        BY <1>5, <2>2
      <3>2. w[i] # w[n] /\ w[i + 1] # w[n + 1]
        BY <1>5, <1>8, <2>2, <3>1
      <3> QED
        BY <1>3, <1>4, <1>6, <1>7, <3>1, <3>2
    <2>3. \A i \in 0 .. n : i # n => m.next[w[i]] = l.next[w[i]] /\ m.prev[w[i + 1]] = l.prev[w[i + 1]]
      BY <2>2
    <2>4. \A i \in 0 .. n + 1 : w[i] # e
      BY <1>6
    <2> HIDE DEF v
    <2> DEFINE nx2 == m.next
               pv2 == m.prev
               nx == l.next
               pv == l.prev
    <2>5. /\ nx2[w[n]] = e /\ nx2[e] = w[n + 1] /\ pv2[e] = w[n] /\ pv2[w[n + 1]] = e
          /\ \A i \in 0 .. n : i # n => nx2[w[i]] = nx[w[i]] /\ pv2[w[i + 1]] = pv[w[i + 1]]
          /\ Chain(nx, pv, w, n)
      BY <1>4, <2>1, <2>3
    <2> HIDE DEF nx, pv, nx2, pv2
    <2>6. Chain(nx2, pv2, Longer(w, n, n, e), n + 1)
      BY <1>8, <2>4, <2>5, ChainLonger
    <2> QED
      BY <2>6 DEF v, nx2, pv2
  <1>10. \A i \in 0 .. n + 2 : v[i] = IF i <= n THEN w[i] ELSE IF i = n + 1 THEN e ELSE w[i - 1]
    BY DEF Longer
  <1> HIDE DEF v
  <1>11. v[0] = HeadOf(c) /\ v[n + 1 + 1] = TailOf(c) /\ v[n + 1] = e
    <2>1. /\ 0 \in 0 .. n + 2 /\ 0 <= n /\ n + 1 \in 0 .. n + 2 /\ ~ (n + 1 <= n)
          /\ n + 2 \in 0 .. n + 2 /\ ~ (n + 2 <= n) /\ n + 2 # n + 1
          /\ (n + 2) - 1 = n + 1 /\ n + 1 + 1 = n + 2
      BY <1>5
    <2>2. v[0] = w[0]
      BY <1>10, <2>1
    <2>3. v[n + 2] = w[n + 1]
      BY <1>10, <2>1
    <2>4. v[n + 1] = e
      BY <1>10, <2>1
    <2> QED
      BY <1>4, <2>1, <2>2, <2>3, <2>4
  <1>12. S \cup {e} = {v[i] : i \in 1 .. n + 1}
    <2>1. \A i \in 1 .. n : i \in 1 .. n + 1 /\ i \in 0 .. n + 2 /\ i <= n
      BY <1>5
    <2>2. \A i \in 1 .. n + 1 : i = n + 1 \/ i \in 1 .. n
      BY <1>5
    <2>3. n + 1 \in 1 .. n + 1
      BY <1>5
    <2>4. \A i \in 1 .. n : v[i] = w[i]
      BY <1>10, <2>1
    <2> QED
      BY <1>4, <1>11, <2>1, <2>2, <2>3, <2>4
  <1>13. Holds(m, c, S \cup {e})
    BY <1>3, <1>9, <1>11, <1>12 DEF Holds
  <1>14. ASSUME NEW d \in Class, d # c
         PROVE  Holds(m, d, F[d])
    <2>1. /\ F[d] \in SUBSET Block /\ Holds(l, d, F[d]) /\ F[d] \cap S = {} /\ e \notin F[d]
          /\ m.size[d] = l.size[d]
      BY <1>1, <1>3, <1>14 DEF S
    <2>2. \A x \in F[d] \cup {HeadOf(d)} : x \in Node \ {last, e}
      BY <1>2, <1>3, <1>14, <2>1, Ends
    <2>3. \A x \in F[d] \cup {TailOf(d)} : x \in Node \ {e, TailOf(c)}
      BY <1>14, <2>1, Ends
    <2>4. /\ \A x \in F[d] \cup {HeadOf(d)} : m.next[x] = l.next[x]
          /\ \A x \in F[d] \cup {TailOf(d)} : m.prev[x] = l.prev[x]
      BY <1>3, <2>2, <2>3
    <2> QED
      BY <2>1, <2>4, HoldsKept
  <1>15. AllHold(m, G)
    <2>1. G \in [Class -> SUBSET Block] /\ G[c] = S \cup {e} /\ \A d \in Class : d # c => G[d] = F[d]
      BY <1>1, <1>2
    <2>2. \A d \in Class : Holds(m, d, G[d])
      BY <1>13, <1>14, <2>1
    <2>3. \A d, h \in Class : d # h => G[d] \cap G[h] = {}
      BY <1>1, <2>1 DEF S
    <2> HIDE DEF G
    <2> QED
      BY <1>3, <2>1, <2>2, <2>3 DEF AllHold
  <1> QED
    BY <1>15 DEF m, S

(* list_remove of a block that is in the free list.                        *)
LEMMA RemoveHolds ==
  ASSUME NEW l, NEW F, AllHold(l, F), NEW c \in Class, NEW b \in F[c]
  PROVE  /\ l.size[c] # 0
         /\ AllHold(Removed(l, c, b), [F EXCEPT ![c] = @ \ {b}])
  <1> DEFINE m == Removed(l, c, b)
             n == l.size[c]
             S == F[c]
             G == [F EXCEPT ![c] = S \ {b}]
  <1>1. /\ l \in FreeLists /\ F \in [Class -> SUBSET Block]
        /\ \A d \in Class : Holds(l, d, F[d])
        /\ \A d, h \in Class : d # h => F[d] \cap F[h] = {}
    BY DEF AllHold
  <1>2. S \in SUBSET Block /\ Holds(l, c, S) /\ b \in S
    BY <1>1
  <1>3. PICK w : /\ Chain(l.next, l.prev, w, n) /\ w[0] = HeadOf(c) /\ w[n + 1] = TailOf(c)
                 /\ S = {w[i] : i \in 1 .. n}
    BY <1>2 DEF Holds
  <1>4. /\ n \in Nat /\ \A i, j \in 0 .. n + 1 : w[i] = w[j] => i = j
        /\ \A i \in 0 .. n : l.next[w[i]] = w[i + 1] /\ l.prev[w[i + 1]] = w[i]
    BY <1>3 DEF Chain
  <1>5. PICK k \in 1 .. n : w[k] = b
    BY <1>2, <1>3
  <1>6. /\ k \in 0 .. n /\ k - 1 \in 0 .. n /\ k - 1 \in 0 .. n + 1 /\ k + 1 \in 0 .. n + 1
        /\ (k - 1) + 1 = k /\ k \in Nat /\ 1 <= k /\ k <= n /\ n # 0
    BY <1>4
  <1>7. l.next[b] = w[k + 1] /\ l.prev[b] = w[k - 1]
    BY <1>4, <1>5, <1>6
  <1> HIDE DEF S
  <1>8. \A i \in 0 .. n + 1 : w[i] \in S \cup {HeadOf(c), TailOf(c)} /\ w[i] \in Node
    <2> SUFFICES ASSUME NEW i \in 0 .. n + 1
                 PROVE  w[i] \in S \cup {HeadOf(c), TailOf(c)} /\ w[i] \in Node
      OBVIOUS
    <2>1. i = 0 \/ i = n + 1 \/ i \in 1 .. n
      BY <1>4
    <2>2. w[i] \in {HeadOf(c), TailOf(c)} \/ w[i] \in S
      BY <1>3, <2>1
    <2> QED
      BY <1>2, <2>2, Ends
  <1>9. l.next[b] \in Node /\ l.prev[b] \in Node
    BY <1>6, <1>7, <1>8
  <1>10. /\ m.next = [l.next EXCEPT ![w[k - 1]] = w[k + 1]]
         /\ m.prev = [l.prev EXCEPT ![w[k + 1]] = w[k - 1]]
         /\ m.size = [l.size EXCEPT ![c] = n - 1]
         /\ m = [next |-> m.next, prev |-> m.prev, size |-> m.size]
    BY <1>6, <1>7 DEF Removed
  <1>11. /\ l.next \in [Node -> Node \cup {Null}] /\ l.prev \in [Node -> Node \cup {Null}]
         /\ l.size \in [Class -> Int]
    BY <1>1 DEF FreeLists
  <1>12. w[k - 1] \in Node /\ w[k + 1] \in Node
    BY <1>6, <1>8
  <1> HIDE DEF m, n
  <1>13. m \in FreeLists
    <2>1. m.next \in [Node -> Node \cup {Null}]
      BY <1>10, <1>11, <1>12
    <2>2. m.prev \in [Node -> Node \cup {Null}]
      BY <1>10, <1>11, <1>12
    <2>3. m.size \in [Class -> Int]
      BY <1>4, <1>10, <1>11
    <2> QED
      BY <1>10, <2>1, <2>2, <2>3 DEF FreeLists
  <1>14. /\ m.next[w[k - 1]] = w[k + 1] /\ m.prev[w[k + 1]] = w[k - 1]
         /\ \A x \in Node : x # w[k - 1] => m.next[x] = l.next[x]
         /\ \A x \in Node : x # w[k + 1] => m.prev[x] = l.prev[x]
    BY <1>10, <1>11, <1>12
  <1>15. m.size[c] = n - 1 /\ \A d \in Class : d # c => m.size[d] = l.size[d]
    BY <1>10, <1>11
  <1> DEFINE v == Shorter(w, n, k)
  <1>16. Chain(m.next, m.prev, v, n - 1)
    <2> HIDE DEF v
    <2> DEFINE nx2 == m.next
               pv2 == m.prev
               nx == l.next
               pv == l.prev
    <2>1. ASSUME NEW i \in 0 .. n, i # k - 1 PROVE nx2[w[i]] = nx[w[i]]
      <3>1. i \in 0 .. n + 1
        BY <1>4
      <3> QED
        BY <1>4, <1>6, <1>8, <1>14, <2>1, <3>1
    <2>2. ASSUME NEW i \in 1 .. n + 1, i # k + 1 PROVE pv2[w[i]] = pv[w[i]]
      <3>1. i \in 0 .. n + 1
        BY <1>4
      <3> QED
        BY <1>4, <1>6, <1>8, <1>14, <2>2, <3>1
    <2>3. /\ nx2[w[k - 1]] = w[k + 1] /\ pv2[w[k + 1]] = w[k - 1]
          /\ Chain(nx, pv, w, n)
      BY <1>3, <1>14
    <2> HIDE DEF nx, pv, nx2, pv2
    <2>4. Chain(nx2, pv2, Shorter(w, n, k), n - 1)
      BY <2>1, <2>2, <2>3, ChainShorter
    <2> QED
      BY <2>4 DEF v, nx2, pv2
  <1>17. \A i \in 0 .. n : v[i] = IF i < k THEN w[i] ELSE w[i + 1]
    BY DEF Shorter
  <1> HIDE DEF v
  <1>18. v[0] = HeadOf(c) /\ v[(n - 1) + 1] = TailOf(c)
    <2>1. 0 \in 0 .. n /\ 0 < k /\ n \in 0 .. n /\ ~ (n < k) /\ (n - 1) + 1 = n
      BY <1>4, <1>6
    <2>2. v[0] = w[0] /\ v[n] = w[n + 1]
      BY <1>17, <2>1
    <2> QED
      BY <1>3, <2>1, <2>2
  <1>19. S \ {b} = {v[i] : i \in 1 .. n - 1}
    <2>1. ASSUME NEW i \in 1 .. n - 1 PROVE v[i] \in S \ {b}
      <3>1. i \in 0 .. n /\ i \in 1 .. n /\ i + 1 \in 1 .. n /\ i \in 0 .. n + 1
            /\ i + 1 \in 0 .. n + 1 /\ k \in 0 .. n + 1 /\ (i < k => i # k) /\ (~ (i < k) => i + 1 # k)
        BY <1>4, <1>6
      <3>2. w[i] \in S /\ w[i + 1] \in S /\ (i # k => w[i] # b) /\ (i + 1 # k => w[i + 1] # b)
        BY <1>3, <1>4, <1>5, <3>1
      <3> QED
        BY <1>17, <3>1, <3>2
    <2>2. ASSUME NEW x \in S \ {b} PROVE \E i \in 1 .. n - 1 : x = v[i]
      <3>1. PICK j \in 1 .. n : w[j] = x
        BY <1>3
      <3>2. j # k
        BY <1>5, <3>1
      <3>3. CASE j < k
        <4>1. j \in 1 .. n - 1 /\ j \in 0 .. n
          <5>1. j \in Int /\ 1 <= j /\ j < k /\ n \in Int /\ k \in Int /\ k <= n
            BY <1>4, <1>6, <3>3
          <5> QED
            BY <5>1
        <4> QED
          BY <1>17, <3>1, <3>3, <4>1
      <3>4. CASE j > k
        <4> DEFINE i == j - 1
        <4>1. i \in 1 .. n - 1 /\ i \in 0 .. n /\ ~ (i < k) /\ i + 1 = j
          <5>1. j \in Int /\ j <= n /\ k < j /\ n \in Int /\ k \in Int /\ 1 <= k
            BY <1>4, <1>6, <3>4
          <5> QED
            BY <5>1
        <4> HIDE DEF i
        <4>2. v[i] = w[i + 1]
          BY <1>17, <4>1
        <4> QED
          BY <3>1, <4>1, <4>2
      <3> QED
        BY <1>6, <3>2, <3>3, <3>4
    <2> QED
      BY <2>1, <2>2
  <1>20. Holds(m, c, S \ {b})
    BY <1>15, <1>16, <1>18, <1>19 DEF Holds
  <1>21. ASSUME NEW d \in Class, d # c
         PROVE  Holds(m, d, F[d])
    <2>1. /\ F[d] \in SUBSET Block /\ Holds(l, d, F[d]) /\ F[d] \cap S = {}
          /\ m.size[d] = l.size[d]
      BY <1>1, <1>15, <1>21 DEF S
    <2>2. /\ w[k - 1] \in S \cup {HeadOf(c), TailOf(c)}
          /\ w[k + 1] \in S \cup {HeadOf(c), TailOf(c)}
      BY <1>6, <1>8
    <2>3. \A x \in F[d] \cup {HeadOf(d), TailOf(d)} : x \in Node /\ x # w[k - 1] /\ x # w[k + 1]
      <3>1. \A x \in F[d] \cup {HeadOf(d), TailOf(d)} : x \in Node
        BY <2>1, Ends
      <3>2. \A x \in F[d] \cup {HeadOf(d), TailOf(d)} : x \notin S
        BY <1>2, <2>1, Ends
      <3>3. \A x \in F[d] \cup {HeadOf(d), TailOf(d)} : x # HeadOf(c) /\ x # TailOf(c)
        BY <1>21, <2>1, Ends
      <3> QED
        BY <2>2, <3>1, <3>2, <3>3
    <2>4. /\ \A x \in F[d] \cup {HeadOf(d)} : m.next[x] = l.next[x]
          /\ \A x \in F[d] \cup {TailOf(d)} : m.prev[x] = l.prev[x]
      BY <1>14, <2>3
    <2> QED
      BY <2>1, <2>4, HoldsKept
  <1>22. AllHold(m, G)
    <2>1. G \in [Class -> SUBSET Block] /\ G[c] = S \ {b} /\ \A d \in Class : d # c => G[d] = F[d]
      BY <1>1, <1>2
    <2>2. \A d \in Class : Holds(m, d, G[d])
      BY <1>20, <1>21, <2>1
    <2>3. \A d, h \in Class : d # h => G[d] \cap G[h] = {}
      BY <1>1, <2>1 DEF S
    <2> HIDE DEF G
    <2> QED
      BY <1>13, <2>1, <2>2, <2>3 DEF AllHold
  <1> QED
    BY <1>6, <1>9, <1>22 DEF m, S, n

(* The first block of a free list is one of its blocks, if it has any.      *)
LEMMA FirstHeld ==
  ASSUME NEW l, NEW F, AllHold(l, F), NEW c \in Class
  PROVE  /\ l.size[c] # 0 => l.next[HeadOf(c)] \in F[c]
         /\ F[c] # {} => l.size[c] # 0
  <1> DEFINE n == l.size[c]
  <1>1. Holds(l, c, F[c])
    BY DEF AllHold
  <1>2. PICK w : /\ Chain(l.next, l.prev, w, n) /\ w[0] = HeadOf(c) /\ w[n + 1] = TailOf(c)
                 /\ F[c] = {w[i] : i \in 1 .. n}
    BY <1>1 DEF Holds
  <1>3. n \in Nat /\ \A i \in 0 .. n : l.next[w[i]] = w[i + 1]
    BY <1>2 DEF Chain
  <1>4. n # 0 => 0 \in 0 .. n /\ 0 + 1 = 1 /\ 1 \in 1 .. n
    BY <1>3
  <1>5. n # 0 => l.next[HeadOf(c)] = w[1]
    BY <1>2, <1>3, <1>4
  <1>6. n = 0 => F[c] = {}
    BY <1>2
  <1> QED
    BY <1>2, <1>4, <1>5, <1>6

(* What the owner of a block does to it touches no free list.              *)
LEMMA TakenHolds ==
  ASSUME NEW l, NEW F, AllHold(l, F), NEW b \in Block, \A d \in Class : b \notin F[d]
  PROVE  AllHold([l EXCEPT !.next[b] = Null, !.prev[b] = Null], F)
  <1> DEFINE m == [l EXCEPT !.next[b] = Null, !.prev[b] = Null]
  <1>1. /\ l \in FreeLists /\ F \in [Class -> SUBSET Block]
        /\ \A d \in Class : Holds(l, d, F[d])
        /\ \A d, h \in Class : d # h => F[d] \cap F[h] = {}
    BY DEF AllHold
  <1>2. /\ l = [next |-> l.next, prev |-> l.prev, size |-> l.size]
        /\ l.next \in [Node -> Node \cup {Null}] /\ l.prev \in [Node -> Node \cup {Null}]
        /\ l.size \in [Class -> Int]
    BY <1>1 DEF FreeLists
  <1>3. /\ DOMAIN m = {"next", "prev", "size"}
        /\ m.next = [l.next EXCEPT ![b] = Null] /\ m.prev = [l.prev EXCEPT ![b] = Null]
        /\ m.size = l.size
        /\ m = [i \in {"next", "prev", "size"} |-> m[i]]
    BY <1>1 DEF FreeLists
  <1> HIDE DEF m
  <1>4. /\ m \in FreeLists /\ m.size = l.size
        /\ \A x \in Node : x # b => m.next[x] = l.next[x] /\ m.prev[x] = l.prev[x]
    <2>1. /\ m.next \in [Node -> Node \cup {Null}] /\ m.prev \in [Node -> Node \cup {Null}]
          /\ m.size \in [Class -> Int]
      BY <1>2, <1>3
    <2>2. m \in FreeLists
      BY <1>3, <2>1 DEF FreeLists
    <2>3. \A x \in Node : x # b => m.next[x] = l.next[x] /\ m.prev[x] = l.prev[x]
      BY <1>2, <1>3
    <2> QED
      BY <1>3, <2>2, <2>3
  <1>5. ASSUME NEW d \in Class PROVE Holds(m, d, F[d])
    <2>1. \A x \in F[d] \cup {HeadOf(d), TailOf(d)} : x \in Node /\ x # b
      BY <1>1, Ends
    <2> QED
      BY <1>1, <1>4, <2>1, HoldsKept
  <1> QED
    BY <1>1, <1>4, <1>5 DEF AllHold, m

(* list_push_back, whatever the pointers are, stores pointers.              *)
LEMMA PushTyped ==
  ASSUME NEW l \in FreeLists, NEW c \in Class, NEW e \in Block
  PROVE  Pushed(l, c, e) \in FreeLists
  <1> DEFINE last == IF l.size[c] = 0 THEN HeadOf(c) ELSE l.prev[TailOf(c)]
             nx == [l.next EXCEPT ![last] = e, ![e] = TailOf(c)]
             pv == [l.prev EXCEPT ![e] = last, ![TailOf(c)] = e]
             sz == [l.size EXCEPT ![c] = @ + 1]
  <1>1. /\ l.next \in [Node -> Node \cup {Null}] /\ l.prev \in [Node -> Node \cup {Null}]
        /\ l.size \in [Class -> Int]
    BY DEF FreeLists
  <1>2. HeadOf(c) \in Node /\ TailOf(c) \in Node /\ e \in Node
    BY Ends
  <1>3. last \in Node \cup {Null}
    BY <1>1, <1>2
  <1>4. Pushed(l, c, e) = [next |-> nx, prev |-> pv, size |-> sz]
    BY DEF Pushed
  <1> HIDE DEF last
  <1>5. nx \in [Node -> Node \cup {Null}]
    BY <1>1, <1>2
  <1>6. pv \in [Node -> Node \cup {Null}]
    BY <1>1, <1>2, <1>3
  <1>7. sz \in [Class -> Int]
    BY <1>1
  <1> HIDE DEF nx, pv, sz
  <1> QED
    BY <1>4, <1>5, <1>6, <1>7 DEF FreeLists

(* list_remove, whatever the pointers are, stores pointers.                 *)
LEMMA DropTyped ==
  ASSUME NEW l \in FreeLists, NEW c \in Class, NEW e \in Block
  PROVE  Removed(l, c, e) \in FreeLists
  <1> DEFINE nx == [l.next EXCEPT ![l.prev[e]] = l.next[e]]
             pv == [l.prev EXCEPT ![l.next[e]] = l.prev[e]]
             sz == [l.size EXCEPT ![c] = @ - 1]
  <1>1. /\ l.next \in [Node -> Node \cup {Null}] /\ l.prev \in [Node -> Node \cup {Null}]
        /\ l.size \in [Class -> Int]
    BY DEF FreeLists
  <1>2. l.next[e] \in Node \cup {Null} /\ l.prev[e] \in Node \cup {Null}
    <2>1. e \in Node
      BY Ends
    <2> QED
      BY <1>1, <2>1
  <1>3. Removed(l, c, e) = IF l.size[c] = 0 THEN l ELSE [next |-> nx, prev |-> pv, size |-> sz]
    BY DEF Removed
  <1>5. nx \in [Node -> Node \cup {Null}]
    BY <1>1, <1>2
  <1>6. pv \in [Node -> Node \cup {Null}]
    BY <1>1, <1>2
  <1>7. sz \in [Class -> Int]
    BY <1>1
  <1> HIDE DEF nx, pv, sz
  <1> QED
    BY <1>3, <1>5, <1>6, <1>7 DEF FreeLists

(* The blocks of an arena.                                                 *)
LEMMA ArenaBlocks ==
  ASSUME NEW p \in Page, NEW c \in Class
  PROVE  /\ Blocks(p, c) \subseteq Block /\ Blocks(p, c) # {}
         /\ \A j \in 0 .. ArenaSize[c] - 1 : <<p, j>> \in Blocks(p, c) /\ <<p, j>> \in Block
         /\ \A b \in Blocks(p, c) : b[1] = p
         /\ IsFiniteSet(Blocks(p, c)) /\ Cardinality(Blocks(p, c)) = ArenaSize[c]
  <1> DEFINE n == ArenaSize[c]
             B == Blocks(p, c)
  <1>1. n \in Nat \ {0}
    BY HeapAssumption
  <1>2. \A j \in 0 .. n - 1 : <<p, j>> \in B
    BY DEF Blocks
  <1>3. \A b \in B : \E j \in 0 .. n - 1 : b = <<p, j>>
    BY DEF Blocks
  <1>4. B \subseteq Block
    <2>1. B \in {Blocks(q, d) : q \in Page, d \in Class}
      OBVIOUS
    <2> HIDE DEF B
    <2> QED
      BY <2>1 DEF Block
  <1>5. 0 \in 0 .. n - 1
    BY <1>1
  <1> HIDE DEF B, n
  <1>6. IsFiniteSet(B) /\ Cardinality(B) = n
    <2> DEFINE f == [j \in 0 .. n - 1 |-> <<p, j>>]
    <2>1. f \in Bijection(0 .. n - 1, B)
      BY <1>2, <1>3 DEF Bijection, Injection, Surjection, IsInjective
    <2>2. IsFiniteSet(0 .. n - 1) /\ Cardinality(0 .. n - 1) = n
      BY <1>1, FS_Interval
    <2> HIDE DEF f
    <2>3. Cardinality(0 .. n - 1) = Cardinality(B) /\ IsFiniteSet(B)
      <3>1. ExistsBijection(0 .. n - 1, B)
        BY <2>1 DEF ExistsBijection
      <3> QED
        BY <2>2, <3>1, FS_Bijection
    <2> QED
      BY <2>2, <2>3
  <1>7. /\ B # {} /\ \A j \in 0 .. n - 1 : <<p, j>> \in B /\ <<p, j>> \in Block
        /\ \A b \in B : b[1] = p
    <2>1. \A j : <<p, j>>[1] = p
      OBVIOUS
    <2>2. \A b \in B : b[1] = p
      BY <1>3, <2>1
    <2> QED
      BY <1>2, <1>4, <1>5, <2>2
  <1> QED
    BY <1>4, <1>6, <1>7 DEF B, n

(* The rounds of the loop that fills an arena.                             *)
LEMMA FilledRounds ==
  ASSUME NEW l \in FreeLists, NEW p \in Page, NEW c \in Class
  PROVE  \E f \in [0 .. ArenaSize[c] -> FreeLists] :
           /\ f[0] = l /\ f[ArenaSize[c]] = Filled(l, p, c)
           /\ \A i \in 1 .. ArenaSize[c] : f[i] = Pushed(f[i - 1], c, <<p, i - 1>>)
  <1> DEFINE n == ArenaSize[c]
             G == [k \in 1 .. n |-> [x \in FreeLists |-> Pushed(x, c, <<p, k - 1>>)]]
             Round(f) == [k \in 0 .. n |-> IF k = 0 THEN l ELSE Pushed(f[k - 1], c, <<p, k - 1>>)]
             after == CHOOSE f : f = Round(f)
  <1>1. n \in Nat
    BY HeapAssumption
  <1>2. \A i \in 1 .. n : <<p, i - 1>> \in Block
    <2>1. \A i \in 1 .. n : i - 1 \in 0 .. n - 1
      BY <1>1
    <2> QED
      BY <2>1, ArenaBlocks
  <1>3. G \in [1 .. n -> [FreeLists -> FreeLists]]
    <2>1. ASSUME NEW k \in 1 .. n, NEW x \in FreeLists
          PROVE  Pushed(x, c, <<p, k - 1>>) \in FreeLists
      <3>1. <<p, k - 1>> \in Block
        BY <1>2
      <3> QED
        BY <3>1, PushTyped
    <2> QED
      BY <2>1
  <1>4. PICK f \in [0 .. n -> FreeLists] : f[0] = l /\ \A i \in 1 .. n : f[i] = G[i][f[i - 1]]
    <2>1. n \in Nat /\ G \in [1 .. n -> [FreeLists -> FreeLists]]
      BY <1>1, <1>3
    <2> HIDE DEF G, n
    <2> QED
      BY <2>1, Looped
  <1>5. \A i \in 1 .. n : i - 1 \in 0 .. n /\ i \in 0 .. n
    BY <1>1
  <1>6. \A i \in 1 .. n : f[i] = Pushed(f[i - 1], c, <<p, i - 1>>)
    <2> SUFFICES ASSUME NEW i \in 1 .. n PROVE f[i] = Pushed(f[i - 1], c, <<p, i - 1>>)
      OBVIOUS
    <2>1. f[i - 1] \in FreeLists
      BY <1>4, <1>5
    <2>2. G[i][f[i - 1]] = Pushed(f[i - 1], c, <<p, i - 1>>)
      BY <2>1
    <2>3. f[i] = G[i][f[i - 1]]
      BY <1>4
    <2> HIDE DEF G
    <2> QED
      BY <2>2, <2>3, Zenon
  <1> HIDE DEF G
  <1>7. f = Round(f)
    <2>1. \A i \in 0 .. n : i = 0 \/ i \in 1 .. n
      BY <1>1
    <2>2. \A i \in 0 .. n : f[i] = IF i = 0 THEN l ELSE Pushed(f[i - 1], c, <<p, i - 1>>)
      BY <1>4, <1>6, <2>1
    <2>3. f = [i \in 0 .. n |-> f[i]]
      BY <1>4
    <2> QED
      BY <2>2, <2>3, Zenon
  <1>8. after = Round(after)
    BY <1>7, Zenon
  <1>9. Filled(l, p, c) = after[n]
    BY DEF Filled
  <1> HIDE DEF after
  <1>10. /\ after = [k \in 0 .. n |-> after[k]] /\ after[0] = l
         /\ \A i \in 1 .. n : after[i] = Pushed(after[i - 1], c, <<p, i - 1>>)
    <2>1. 0 \in 0 .. n /\ \A i \in 1 .. n : i \in 0 .. n /\ i # 0
      BY <1>1
    <2>2. \A k \in 0 .. n : after[k] = IF k = 0 THEN l ELSE Pushed(after[k - 1], c, <<p, k - 1>>)
      BY <1>8, Zenon
    <2>3. after = [k \in 0 .. n |-> after[k]]
      BY <1>8
    <2> QED
      BY <2>1, <2>2, <2>3
  <1> DEFINE T == {k \in 0 .. n : after[k] \in FreeLists}
  <1>11. 0 .. n \subseteq T
    <2>1. 0 \in T
      BY <1>1, <1>10
    <2>2. ASSUME NEW i \in 1 .. n, i - 1 \in T PROVE i \in T
      <3>1. after[i - 1] \in FreeLists
        BY <2>2
      <3>2. Pushed(after[i - 1], c, <<p, i - 1>>) \in FreeLists
        BY <1>2, <3>1, PushTyped
      <3> QED
        BY <1>5, <1>10, <3>2
    <2> HIDE DEF T, n
    <2> QED
      BY <1>1, <2>1, <2>2, Ladder
  <1>12. after \in [0 .. n -> FreeLists]
    BY <1>10, <1>11
  <1> QED
    BY <1>9, <1>10, <1>12

(* The rounds of the loop that takes an arena out of its free list.         *)
LEMMA EmptiedRounds ==
  ASSUME NEW l \in FreeLists, NEW p \in Page, NEW c \in Class
  PROVE  \E f \in [0 .. ArenaSize[c] -> FreeLists] :
           /\ f[0] = l /\ f[ArenaSize[c]] = Emptied(l, p, c)
           /\ \A i \in 1 .. ArenaSize[c] : f[i] = Removed(f[i - 1], c, <<p, i - 1>>)
  <1> DEFINE n == ArenaSize[c]
             G == [k \in 1 .. n |-> [x \in FreeLists |-> Removed(x, c, <<p, k - 1>>)]]
             Round(f) == [k \in 0 .. n |-> IF k = 0 THEN l ELSE Removed(f[k - 1], c, <<p, k - 1>>)]
             after == CHOOSE f : f = Round(f)
  <1>1. n \in Nat
    BY HeapAssumption
  <1>2. \A i \in 1 .. n : <<p, i - 1>> \in Block
    <2>1. \A i \in 1 .. n : i - 1 \in 0 .. n - 1
      BY <1>1
    <2> QED
      BY <2>1, ArenaBlocks
  <1>3. G \in [1 .. n -> [FreeLists -> FreeLists]]
    <2>1. ASSUME NEW k \in 1 .. n, NEW x \in FreeLists
          PROVE  Removed(x, c, <<p, k - 1>>) \in FreeLists
      <3>1. <<p, k - 1>> \in Block
        BY <1>2
      <3> QED
        BY <3>1, DropTyped
    <2> QED
      BY <2>1
  <1>4. PICK f \in [0 .. n -> FreeLists] : f[0] = l /\ \A i \in 1 .. n : f[i] = G[i][f[i - 1]]
    <2> DEFINE X == FreeLists
    <2>1. n \in Nat /\ l \in X /\ G \in [1 .. n -> [X -> X]]
      BY <1>1, <1>3
    <2> HIDE DEF G, n, X
    <2>2. \E f \in [0 .. n -> X] : f[0] = l /\ \A i \in 1 .. n : f[i] = G[i][f[i - 1]]
      <3>1. \A a \in X, m \in Nat : \A g \in [1 .. m -> [X -> X]] :
              \E f \in [0 .. m -> X] : f[0] = a /\ \A i \in 1 .. m : f[i] = g[i][f[i - 1]]
        BY Looped
      <3> QED
        BY <2>1, <3>1, Zenon
    <2> QED
      BY <2>2 DEF X
  <1>5. \A i \in 1 .. n : i - 1 \in 0 .. n /\ i \in 0 .. n
    BY <1>1
  <1>6. \A i \in 1 .. n : f[i] = Removed(f[i - 1], c, <<p, i - 1>>)
    <2> SUFFICES ASSUME NEW i \in 1 .. n PROVE f[i] = Removed(f[i - 1], c, <<p, i - 1>>)
      OBVIOUS
    <2>1. f[i - 1] \in FreeLists
      BY <1>4, <1>5
    <2>2. G[i][f[i - 1]] = Removed(f[i - 1], c, <<p, i - 1>>)
      BY <2>1
    <2>3. f[i] = G[i][f[i - 1]]
      BY <1>4
    <2> HIDE DEF G
    <2> QED
      BY <2>2, <2>3, Zenon
  <1> HIDE DEF G
  <1>7. f = Round(f)
    <2>1. \A i \in 0 .. n : i = 0 \/ i \in 1 .. n
      BY <1>1
    <2>2. \A i \in 0 .. n : f[i] = IF i = 0 THEN l ELSE Removed(f[i - 1], c, <<p, i - 1>>)
      BY <1>4, <1>6, <2>1
    <2>3. f = [i \in 0 .. n |-> f[i]]
      BY <1>4
    <2> QED
      BY <2>2, <2>3, Zenon
  <1>8. after = Round(after)
    BY <1>7, Zenon
  <1>9. Emptied(l, p, c) = after[n]
    BY DEF Emptied
  <1> HIDE DEF after
  <1>10. /\ after = [k \in 0 .. n |-> after[k]] /\ after[0] = l
         /\ \A i \in 1 .. n : after[i] = Removed(after[i - 1], c, <<p, i - 1>>)
    <2>1. 0 \in 0 .. n /\ \A i \in 1 .. n : i \in 0 .. n /\ i # 0
      BY <1>1
    <2>2. \A k \in 0 .. n : after[k] = IF k = 0 THEN l ELSE Removed(after[k - 1], c, <<p, k - 1>>)
      BY <1>8, Zenon
    <2>3. after = [k \in 0 .. n |-> after[k]]
      BY <1>8
    <2> QED
      BY <2>1, <2>2, <2>3
  <1> DEFINE T == {k \in 0 .. n : after[k] \in FreeLists}
  <1>11. 0 .. n \subseteq T
    <2>1. 0 \in T
      BY <1>1, <1>10
    <2>2. ASSUME NEW i \in 1 .. n, i - 1 \in T PROVE i \in T
      <3>1. after[i - 1] \in FreeLists
        BY <2>2
      <3>2. Removed(after[i - 1], c, <<p, i - 1>>) \in FreeLists
        BY <1>2, <3>1, DropTyped
      <3> QED
        BY <1>5, <1>10, <3>2
    <2> HIDE DEF T, n
    <2> QED
      BY <1>1, <2>1, <2>2, Ladder
  <1>12. after \in [0 .. n -> FreeLists]
    BY <1>10, <1>11
  <1> QED
    BY <1>9, <1>10, <1>12

(* The first k blocks of an arena.                                         *)
First(p, k) == {<<p, j>> : j \in 0 .. k - 1}

LEMMA FirstBlocks ==
  ASSUME NEW p \in Page, NEW c \in Class
  PROVE  /\ First(p, 0) = {} /\ First(p, ArenaSize[c]) = Blocks(p, c)
         /\ \A k \in 1 .. ArenaSize[c] :
              /\ First(p, k) = First(p, k - 1) \cup {<<p, k - 1>>}
              /\ <<p, k - 1>> \notin First(p, k - 1)
              /\ First(p, k - 1) \subseteq Blocks(p, c) /\ <<p, k - 1>> \in Blocks(p, c)
  <1>1. First(p, 0) = {}
    BY DEF First
  <1>2. First(p, ArenaSize[c]) = Blocks(p, c)
    BY DEF First, Blocks
  <1>3. ASSUME NEW k \in 1 .. ArenaSize[c]
        PROVE  /\ First(p, k) = First(p, k - 1) \cup {<<p, k - 1>>}
               /\ <<p, k - 1>> \notin First(p, k - 1)
               /\ First(p, k - 1) \subseteq Blocks(p, c) /\ <<p, k - 1>> \in Blocks(p, c)
    <2>1. ArenaSize[c] \in Nat
      BY HeapAssumption
    <2>2. \A j \in 0 .. k - 1 : j = k - 1 \/ j \in 0 .. (k - 1) - 1
      BY <2>1
    <2>3. \A j \in 0 .. (k - 1) - 1 : j \in 0 .. k - 1 /\ j \in 0 .. ArenaSize[c] - 1 /\ j # k - 1
      BY <2>1
    <2>4. k - 1 \in 0 .. k - 1 /\ k - 1 \in 0 .. ArenaSize[c] - 1
      BY <2>1
    <2>5. First(p, k) = First(p, k - 1) \cup {<<p, k - 1>>}
      BY <2>2, <2>3, <2>4 DEF First
    <2>6. <<p, k - 1>> \notin First(p, k - 1)
      BY <2>3 DEF First
    <2>7. First(p, k - 1) \subseteq Blocks(p, c) /\ <<p, k - 1>> \in Blocks(p, c)
      BY <2>3, <2>4 DEF First, Blocks
    <2> QED
      BY <2>5, <2>6, <2>7
  <1> QED
    BY <1>1, <1>2, <1>3

(* list_push_back of the blocks of a new arena.                            *)
LEMMA FillHolds ==
  ASSUME NEW l, NEW F, AllHold(l, F), NEW p \in Page, NEW c \in Class,
         \A d \in Class : Blocks(p, c) \cap F[d] = {}
  PROVE  AllHold(Filled(l, p, c), [F EXCEPT ![c] = @ \cup Blocks(p, c)])
  <1> DEFINE n == ArenaSize[c]
             H(k) == [F EXCEPT ![c] = F[c] \cup First(p, k)]
  <1>1. n \in Nat /\ l \in FreeLists /\ F \in [Class -> SUBSET Block]
    BY HeapAssumption DEF AllHold
  <1>2. PICK f \in [0 .. n -> FreeLists] :
          /\ f[0] = l /\ f[n] = Filled(l, p, c)
          /\ \A i \in 1 .. n : f[i] = Pushed(f[i - 1], c, <<p, i - 1>>)
    BY <1>1, FilledRounds
  <1>3. /\ First(p, 0) = {} /\ First(p, n) = Blocks(p, c)
        /\ \A k \in 1 .. n :
              /\ First(p, k) = First(p, k - 1) \cup {<<p, k - 1>>}
              /\ <<p, k - 1>> \notin First(p, k - 1)
              /\ First(p, k - 1) \subseteq Blocks(p, c) /\ <<p, k - 1>> \in Blocks(p, c)
    BY FirstBlocks
  <1> DEFINE T == {k \in 0 .. n : AllHold(f[k], H(k))}
  <1>4. 0 \in T
    <2>1. H(0) = F
      BY <1>1, <1>3
    <2> HIDE DEF H
    <2> QED
      BY <1>1, <1>2, <2>1
  <1>5. ASSUME NEW k \in 1 .. n, k - 1 \in T
        PROVE  k \in T
    <2> DEFINE e == <<p, k - 1>>
               F1 == H(k - 1)
    <2>1. AllHold(f[k - 1], F1)
      BY <1>5
    <2>2. e \in Block /\ e \in Blocks(p, c)
      BY <1>3, ArenaBlocks
    <2>3. \A d \in Class : e \notin F1[d]
      BY <1>1, <1>3, <2>2
    <2>4. [F1 EXCEPT ![c] = F1[c] \cup {e}] = H(k)
      <3>1. F1[c] \cup {e} = F[c] \cup First(p, k)
        BY <1>1, <1>3
      <3>2. [F1 EXCEPT ![c] = F[c] \cup First(p, k)] = H(k)
        BY <1>1
      <3> QED
        BY <3>1, <3>2, Zenon
    <2>5. f[k] = Pushed(f[k - 1], c, e) /\ k \in 0 .. n
      BY <1>1, <1>2
    <2> HIDE DEF F1, e, H
    <2>6. AllHold(Pushed(f[k - 1], c, e), [F1 EXCEPT ![c] = F1[c] \cup {e}])
      BY <2>1, <2>2, <2>3, PushHolds
    <2> QED
      BY <2>4, <2>5, <2>6
  <1>6. n \in T
    <2> HIDE DEF T, n
    <2>1. 0 .. n \subseteq T
      BY <1>1, <1>4, <1>5, Ladder
    <2> QED
      BY <1>1, <2>1
  <1> QED
    BY <1>2, <1>3, <1>6

(* list_remove of the blocks of an arena that are all free.                *)
LEMMA EmptyHolds ==
  ASSUME NEW l, NEW F, AllHold(l, F), NEW p \in Page, NEW c \in Class,
         Blocks(p, c) \subseteq F[c]
  PROVE  AllHold(Emptied(l, p, c), [F EXCEPT ![c] = @ \ Blocks(p, c)])
  <1> DEFINE n == ArenaSize[c]
             H(k) == [F EXCEPT ![c] = F[c] \ First(p, k)]
  <1>1. n \in Nat /\ l \in FreeLists /\ F \in [Class -> SUBSET Block]
    BY HeapAssumption DEF AllHold
  <1>2. PICK f \in [0 .. n -> FreeLists] :
          /\ f[0] = l /\ f[n] = Emptied(l, p, c)
          /\ \A i \in 1 .. n : f[i] = Removed(f[i - 1], c, <<p, i - 1>>)
    BY <1>1, EmptiedRounds
  <1>3. /\ First(p, 0) = {} /\ First(p, n) = Blocks(p, c)
        /\ \A k \in 1 .. n :
              /\ First(p, k) = First(p, k - 1) \cup {<<p, k - 1>>}
              /\ <<p, k - 1>> \notin First(p, k - 1)
              /\ First(p, k - 1) \subseteq Blocks(p, c) /\ <<p, k - 1>> \in Blocks(p, c)
    BY FirstBlocks
  <1> DEFINE T == {k \in 0 .. n : AllHold(f[k], H(k))}
  <1>4. 0 \in T
    <2>1. H(0) = F
      BY <1>1, <1>3
    <2> HIDE DEF H
    <2> QED
      BY <1>1, <1>2, <2>1
  <1>5. ASSUME NEW k \in 1 .. n, k - 1 \in T
        PROVE  k \in T
    <2> DEFINE e == <<p, k - 1>>
               F1 == H(k - 1)
    <2>1. AllHold(f[k - 1], F1)
      BY <1>5
    <2>3. e \in F1[c]
      BY <1>1, <1>3
    <2>4. [F1 EXCEPT ![c] = F1[c] \ {e}] = H(k)
      <3>1. F1[c] \ {e} = F[c] \ First(p, k)
        BY <1>1, <1>3, ZenonT(40)
      <3>2. [F1 EXCEPT ![c] = F[c] \ First(p, k)] = H(k)
        BY <1>1
      <3> QED
        BY <3>1, <3>2, Zenon
    <2>5. f[k] = Removed(f[k - 1], c, e) /\ k \in 0 .. n
      BY <1>1, <1>2
    <2> HIDE DEF F1, e, H
    <2>6. AllHold(Removed(f[k - 1], c, e), [F1 EXCEPT ![c] = F1[c] \ {e}])
      BY <2>1, <2>3, RemoveHolds
    <2> QED
      BY <2>4, <2>5, <2>6
  <1>6. n \in T
    <2> HIDE DEF T, n
    <2>1. 0 .. n \subseteq T
      BY <1>1, <1>4, <1>5, Ladder
    <2> QED
      BY <1>1, <2>1
  <1> QED
    BY <1>2, <1>3, <1>6

-----------------------------------------------------------------------------

(* Every block that a pointer of l leads to is in B.                       *)
PointsInto(l, B) ==
  \A x \in Node : /\ l.next[x] \in Block => l.next[x] \in B
                  /\ l.prev[x] \in Block => l.prev[x] \in B

(* The blocks of the pages that are arenas in a.                           *)
Used(a) == {b \in Block : a[b[1]] # None}

(* Links stay where they may lead: list_push_back, list_remove, and the     *)
(* owner of a block.                                                       *)
LEMMA PushPoints ==
  ASSUME NEW l \in FreeLists, NEW B, PointsInto(l, B), NEW c \in Class, NEW e \in Block, e \in B
  PROVE  PointsInto(Pushed(l, c, e), B)
  <1> DEFINE last == IF l.size[c] = 0 THEN HeadOf(c) ELSE l.prev[TailOf(c)]
             m == Pushed(l, c, e)
  <1>1. /\ l.next \in [Node -> Node \cup {Null}] /\ l.prev \in [Node -> Node \cup {Null}]
    BY DEF FreeLists
  <1>2. HeadOf(c) \notin Block /\ TailOf(c) \notin Block /\ TailOf(c) \in Node
    BY Ends
  <1>3. last \in Block => last \in B
    <2>1. l.prev[TailOf(c)] \in Block => l.prev[TailOf(c)] \in B
      BY <1>2, Zenon DEF PointsInto
    <2> QED
      BY <1>2, <2>1
  <1>4. /\ m.next = [l.next EXCEPT ![last] = e, ![e] = TailOf(c)]
        /\ m.prev = [l.prev EXCEPT ![e] = last, ![TailOf(c)] = e]
    BY DEF Pushed
  <1> HIDE DEF m, last
  <1>5. ASSUME NEW x \in Node
        PROVE  /\ m.next[x] \in {l.next[x], e, TailOf(c)}
               /\ m.prev[x] \in {l.prev[x], e, last}
    BY <1>1, <1>4
  <1>6. \A x \in Node : /\ m.next[x] \in Block => m.next[x] \in B
                        /\ m.prev[x] \in Block => m.prev[x] \in B
    <2> SUFFICES ASSUME NEW x \in Node
                 PROVE  /\ m.next[x] \in Block => m.next[x] \in B
                        /\ m.prev[x] \in Block => m.prev[x] \in B
      OBVIOUS
    <2>1. /\ l.next[x] \in Block => l.next[x] \in B
          /\ l.prev[x] \in Block => l.prev[x] \in B
      BY Zenon DEF PointsInto
    <2>2. /\ m.next[x] = l.next[x] \/ m.next[x] = e \/ m.next[x] = TailOf(c)
          /\ m.prev[x] = l.prev[x] \/ m.prev[x] = e \/ m.prev[x] = last
      BY <1>5
    <2> QED
      BY <1>2, <1>3, <2>1, <2>2, Zenon
  <1> QED
    BY <1>6 DEF PointsInto, m

LEMMA DropPoints ==
  ASSUME NEW l \in FreeLists, NEW B, PointsInto(l, B), NEW c \in Class, NEW e \in Block
  PROVE  PointsInto(Removed(l, c, e), B)
  <1> DEFINE m == Removed(l, c, e)
  <1>1. /\ l.next \in [Node -> Node \cup {Null}] /\ l.prev \in [Node -> Node \cup {Null}]
    BY DEF FreeLists
  <1>2. e \in Node
    BY Ends
  <1>3. \/ m = l
        \/ /\ m.next = [l.next EXCEPT ![l.prev[e]] = l.next[e]]
           /\ m.prev = [l.prev EXCEPT ![l.next[e]] = l.prev[e]]
    BY DEF Removed
  <1> HIDE DEF m
  <1>4. ASSUME NEW x \in Node
        PROVE  /\ m.next[x] \in {l.next[x], l.next[e]}
               /\ m.prev[x] \in {l.prev[x], l.prev[e]}
    BY <1>1, <1>3
  <1>5. \A x \in Node : /\ m.next[x] \in Block => m.next[x] \in B
                        /\ m.prev[x] \in Block => m.prev[x] \in B
    <2> SUFFICES ASSUME NEW x \in Node
                 PROVE  /\ m.next[x] \in Block => m.next[x] \in B
                        /\ m.prev[x] \in Block => m.prev[x] \in B
      OBVIOUS
    <2>1. /\ l.next[x] \in Block => l.next[x] \in B
          /\ l.prev[x] \in Block => l.prev[x] \in B
          /\ l.next[e] \in Block => l.next[e] \in B
          /\ l.prev[e] \in Block => l.prev[e] \in B
      BY <1>2, Zenon DEF PointsInto
    <2>2. /\ m.next[x] = l.next[x] \/ m.next[x] = l.next[e]
          /\ m.prev[x] = l.prev[x] \/ m.prev[x] = l.prev[e]
      BY <1>4
    <2> QED
      BY <2>1, <2>2, Zenon
  <1> QED
    BY <1>5 DEF PointsInto, m

LEMMA TakenPoints ==
  ASSUME NEW l \in FreeLists, NEW B, PointsInto(l, B), NEW b \in Block
  PROVE  LET m == [l EXCEPT !.next[b] = Null, !.prev[b] = Null]
         IN  m \in FreeLists /\ PointsInto(m, B)
  <1> DEFINE m == [l EXCEPT !.next[b] = Null, !.prev[b] = Null]
  <1>1. /\ l.next \in [Node -> Node \cup {Null}] /\ l.prev \in [Node -> Node \cup {Null}]
        /\ l.size \in [Class -> Int]
    BY DEF FreeLists
  <1>2. /\ DOMAIN m = {"next", "prev", "size"}
        /\ m.next = [l.next EXCEPT ![b] = Null] /\ m.prev = [l.prev EXCEPT ![b] = Null]
        /\ m.size = l.size
        /\ m = [i \in {"next", "prev", "size"} |-> m[i]]
    BY DEF FreeLists
  <1>3. Null \notin Block
    BY HeapAssumption DEF Node
  <1> HIDE DEF m
  <1>4. /\ m.next \in [Node -> Node \cup {Null}] /\ m.prev \in [Node -> Node \cup {Null}]
        /\ m.size \in [Class -> Int]
    BY <1>1, <1>2
  <1>5. m \in FreeLists
    BY <1>2, <1>4 DEF FreeLists
  <1>6. \A x \in Node : m.next[x] \in {l.next[x], Null} /\ m.prev[x] \in {l.prev[x], Null}
    BY <1>1, <1>2
  <1>7. PointsInto(m, B)
    <2> SUFFICES ASSUME NEW x \in Node
                 PROVE  /\ m.next[x] \in Block => m.next[x] \in B
                        /\ m.prev[x] \in Block => m.prev[x] \in B
      BY DEF PointsInto
    <2>1. /\ l.next[x] \in Block => l.next[x] \in B
          /\ l.prev[x] \in Block => l.prev[x] \in B
      BY Zenon DEF PointsInto
    <2>2. /\ m.next[x] = l.next[x] \/ m.next[x] = Null
          /\ m.prev[x] = l.prev[x] \/ m.prev[x] = Null
      BY <1>6
    <2> QED
      BY <1>3, <2>1, <2>2, Zenon
  <1> QED
    BY <1>5, <1>7 DEF m

(* The loops over the blocks of an arena.                                  *)
LEMMA FillPoints ==
  ASSUME NEW l \in FreeLists, NEW B, PointsInto(l, B), NEW p \in Page, NEW c \in Class,
         Blocks(p, c) \subseteq B
  PROVE  Filled(l, p, c) \in FreeLists /\ PointsInto(Filled(l, p, c), B)
  <1> DEFINE n == ArenaSize[c]
  <1>1. n \in Nat
    BY HeapAssumption
  <1>2. PICK f \in [0 .. n -> FreeLists] :
          /\ f[0] = l /\ f[n] = Filled(l, p, c)
          /\ \A i \in 1 .. n : f[i] = Pushed(f[i - 1], c, <<p, i - 1>>)
    BY FilledRounds
  <1> DEFINE T == {k \in 0 .. n : PointsInto(f[k], B)}
  <1>3. 0 \in T
    BY <1>1, <1>2
  <1>4. ASSUME NEW k \in 1 .. n, k - 1 \in T PROVE k \in T
    <2>1. k \in 0 .. n /\ k - 1 \in 0 .. n /\ k - 1 \in 0 .. n - 1
      BY <1>1
    <2>2. <<p, k - 1>> \in Block /\ <<p, k - 1>> \in B
      BY <2>1, ArenaBlocks
    <2>3. f[k - 1] \in FreeLists /\ PointsInto(f[k - 1], B)
      BY <1>2, <1>4, <2>1
    <2>4. PointsInto(Pushed(f[k - 1], c, <<p, k - 1>>), B)
      BY <2>2, <2>3, PushPoints
    <2> QED
      BY <1>2, <2>1, <2>4
  <1>5. n \in T
    <2> HIDE DEF T, n
    <2>1. 0 .. n \subseteq T
      BY <1>1, <1>3, <1>4, Ladder
    <2> QED
      BY <1>1, <2>1
  <1> QED
    BY <1>1, <1>2, <1>5

LEMMA EmptyPoints ==
  ASSUME NEW l \in FreeLists, NEW B, PointsInto(l, B), NEW p \in Page, NEW c \in Class
  PROVE  Emptied(l, p, c) \in FreeLists /\ PointsInto(Emptied(l, p, c), B)
  <1> DEFINE n == ArenaSize[c]
  <1>1. n \in Nat
    BY HeapAssumption
  <1>2. PICK f \in [0 .. n -> FreeLists] :
          /\ f[0] = l /\ f[n] = Emptied(l, p, c)
          /\ \A i \in 1 .. n : f[i] = Removed(f[i - 1], c, <<p, i - 1>>)
    BY EmptiedRounds
  <1> DEFINE T == {k \in 0 .. n : PointsInto(f[k], B)}
  <1>3. 0 \in T
    BY <1>1, <1>2
  <1>4. ASSUME NEW k \in 1 .. n, k - 1 \in T PROVE k \in T
    <2>1. k \in 0 .. n /\ k - 1 \in 0 .. n /\ k - 1 \in 0 .. n - 1
      BY <1>1
    <2>2. <<p, k - 1>> \in Block
      BY <2>1, ArenaBlocks
    <2>3. f[k] = Removed(f[k - 1], c, <<p, k - 1>>)
      BY <1>2
    <2>4. f[k - 1] \in FreeLists /\ PointsInto(f[k - 1], B)
      BY <1>2, <1>4, <2>1
    <2>5. PointsInto(Removed(f[k - 1], c, <<p, k - 1>>), B)
      BY <2>2, <2>4, DropPoints
    <2> QED
      BY <2>1, <2>3, <2>5
  <1>5. n \in T
    <2> HIDE DEF T, n
    <2>1. 0 .. n \subseteq T
      BY <1>1, <1>3, <1>4, Ladder
    <2> QED
      BY <1>1, <2>1
  <1>6. n \in 0 .. n
    BY <1>1
  <1> QED
    BY <1>2, <1>5, <1>6

-----------------------------------------------------------------------------

(* The variables of the heap are in their ranges, and what the free lists   *)
(* link and what is handed out are blocks of arenas.                       *)
HeapTypeOK ==
  /\ link \in FreeLists /\ arena \in [Page -> Arena \cup {None}]
  /\ held \in [Block -> Nat] /\ wild \in BOOLEAN /\ partly \in 0 .. MaxPartly
  /\ PointsInto(link, Used(arena))
  /\ \A b \in Block : held[b] # 0 => b \in Used(arena)

(* A thread that fetches a page for a class holds the lock of that class.   *)
Fetching ==
  /\ lock \in [Class -> Thread \cup {None}]
  /\ \A c \in Class : \A t \in Thread :
       lock[c] = t <=> request[t] # None /\ request[t].class = c
  /\ \A t \in Thread : request[t] # None /\ request[t].class # None
                       => request[t].pool = "kernel" /\ request[t].pages = 1

(* A block belongs to a page.                                              *)
LEMMA PageOfBlock ==
  ASSUME NEW b \in Block
  PROVE  b[1] \in Page /\ b \in Node
  <1>1. b \in Node
    BY DEF Node
  <1>2. PICK p \in Page, c \in Class : b \in Blocks(p, c)
    BY DEF Block
  <1> QED
    BY <1>1, <1>2, ArenaBlocks

(* Turning a page into an arena, or counting its free blocks, keeps the     *)
(* arenas there are.                                                       *)
LEMMA UsedKept ==
  ASSUME NEW a \in [Page -> Arena \cup {None}], NEW p \in Page, NEW r \in Arena
  PROVE  /\ [a EXCEPT ![p] = r] \in [Page -> Arena \cup {None}]
         /\ Used(a) \subseteq Used([a EXCEPT ![p] = r])
         /\ \A c \in Class : Blocks(p, c) \subseteq Used([a EXCEPT ![p] = r])
  <1>1. r # None
    BY HeapAssumption
  <1>2. \A b \in Block : b[1] \in Page
    BY PageOfBlock
  <1> DEFINE d == [a EXCEPT ![p] = r]
  <1>3. d \in [Page -> Arena \cup {None}] /\ d[p] = r /\ \A q \in Page : q # p => d[q] = a[q]
    OBVIOUS
  <1> HIDE DEF d
  <1>4. Used(a) \subseteq Used(d)
    BY <1>1, <1>2, <1>3 DEF Used
  <1>5. ASSUME NEW c \in Class PROVE Blocks(p, c) \subseteq Used(d)
    <2>1. \A b \in Blocks(p, c) : b \in Block /\ b[1] = p
      BY ArenaBlocks
    <2> QED
      BY <1>1, <1>3, <2>1 DEF Used
  <1> QED
    BY <1>3, <1>4, <1>5 DEF d

(* Widening the blocks that pointers may lead to.                          *)
LEMMA PointsWider ==
  ASSUME NEW l, NEW A, NEW B, PointsInto(l, A), A \subseteq B
  PROVE  PointsInto(l, B)
  BY DEF PointsInto

(* The end of kmalloc.                                                     *)
LEMMA TakeTyped ==
  ASSUME NEW l \in FreeLists, NEW a \in [Page -> Arena \cup {None}], NEW c \in Class,
         PointsInto(l, Used(a)), HeapTypeOK, Used(arena) \subseteq Used(a), Take(c, l, a)
  PROVE  /\ link' \in FreeLists /\ arena' \in [Page -> Arena \cup {None}]
         /\ held' \in [Block -> Nat] /\ wild' \in BOOLEAN
         /\ PointsInto(link', Used(arena'))
         /\ \A b \in Block : held'[b] # 0 => b \in Used(arena')
  <1> DEFINE b == l.next[HeadOf(c)]
  <1>1. CASE /\ b \in Block
             /\ link' = [Removed(l, c, b) EXCEPT !.next[b] = Null, !.prev[b] = Null]
             /\ arena' = [a EXCEPT ![b[1]].free = @ - 1]
             /\ held' = [held EXCEPT ![b] = @ + 1]
             /\ wild' = wild
    <2> DEFINE m == Removed(l, c, b)
               r == [a[b[1]] EXCEPT !.free = @ - 1]
    <2>1. /\ link' = [m EXCEPT !.next[b] = Null, !.prev[b] = Null]
          /\ arena' = [a EXCEPT ![b[1]].free = @ - 1]
          /\ held' = [held EXCEPT ![b] = @ + 1]
          /\ wild' = wild
      BY <1>1
    <2>2. HeadOf(c) \in Node
      BY Ends
    <2>3. b[1] \in Page /\ b \in Used(a) /\ a[b[1]] # None
      BY <1>1, <2>2, PageOfBlock DEF PointsInto, Used
    <2>4. a[b[1]] \in Arena
      BY <2>3
    <2>5. r \in Arena
      BY <2>4 DEF Arena
    <2>6. arena' = [a EXCEPT ![b[1]] = r]
      BY <2>1
    <2>7. arena' \in [Page -> Arena \cup {None}] /\ Used(a) \subseteq Used(arena')
      <3> HIDE DEF r, b
      <3> QED
        BY <2>3, <2>5, <2>6, UsedKept
    <2>8. m \in FreeLists /\ PointsInto(m, Used(a))
      <3> HIDE DEF b
      <3> QED
        BY <1>1, DropTyped, DropPoints
    <2>9. link' \in FreeLists /\ PointsInto(link', Used(a))
      <3>1. b \in Block /\ link' = [m EXCEPT !.next[b] = Null, !.prev[b] = Null]
        BY <1>1
      <3> HIDE DEF b, m
      <3> QED
        BY <2>8, <3>1, TakenPoints
    <2>10. PointsInto(link', Used(arena'))
      BY <2>7, <2>9, PointsWider
    <2> HIDE DEF b
    <2>11. held' \in [Block -> Nat] /\ \A e \in Block : held'[e] # 0 => held[e] # 0 \/ e = b
      BY <1>1, <2>1 DEF HeapTypeOK
    <2>12. \A e \in Block : held'[e] # 0 => e \in Used(arena')
      BY <2>3, <2>7, <2>11 DEF HeapTypeOK
    <2> QED
      BY <2>1, <2>7, <2>9, <2>10, <2>11, <2>12 DEF HeapTypeOK
  <1>2. CASE /\ b \in Block => held[b] > 0
             /\ wild' = TRUE
             /\ held' = [n \in Block |-> IF n = b THEN held[n] + 1 ELSE held[n]]
             /\ link' = link /\ arena' = arena
    <2> HIDE DEF b
    <2>1. /\ held' \in [Block -> Nat]
          /\ \A e \in Block : held'[e] # 0 => held[e] # 0
      BY <1>2 DEF HeapTypeOK
    <2> QED
      BY <1>2, <2>1 DEF HeapTypeOK
  <1> QED
    BY <1>1, <1>2 DEF Take

(* What is granted are pages.                                              *)
LEMMA GrantedInPage ==
  ASSUME PagesSound, NEW t \in Thread, request[t] # None
  PROVE  Granted(request[t]) \subseteq Page
  <1> DEFINE r == request[t]
  <1>1. /\ r.pool \in Pool
        /\ r.index = NPOS => Granted(r) = {}
        /\ r.index # NPOS =>
             /\ Granted(r) = {PageOf(r.pool, j) : j \in r.index .. r.index + r.pages - 1}
             /\ r.index .. r.index + r.pages - 1 \subseteq 0 .. Pages(r.pool) - 1
    BY GrantedPages
  <1> HIDE DEF r
  <1>2. \A j \in 0 .. Pages(r.pool) - 1 : PageOf(r.pool, j) \in Page
    BY <1>1, OnePage
  <1>3. Granted(r) \subseteq Page
    BY <1>1, <1>2
  <1> QED
    BY <1>3 DEF r

(* init_heap                                                               *)
LEMMA HeapInitTyped ==
  ASSUME PagesInit, HeapInit
  PROVE  HeapTypeOK /\ Fetching
  <1>1. \A n \in Node : /\ n[2] = -2 => TailOf(n[1]) \in Node \ Block
                        /\ n[2] = -1 => HeadOf(n[1]) \in Node \ Block
    <2>1. \A b \in Block : b[2] # -2 /\ b[2] # -1
      <3>1. \A d \in Class : ArenaSize[d] \in Nat
        BY HeapAssumption
      <3>2. \A b \in Block : b[2] \in Nat
        BY <3>1 DEF Block, Blocks
      <3>3. -2 \notin Nat /\ -1 \notin Nat
        OBVIOUS
      <3> QED
        BY <3>2, <3>3
    <2>2. \A c \in Class : /\ HeadOf(c)[1] = c /\ TailOf(c)[1] = c
                          /\ HeadOf(c) \in Node \ Block /\ TailOf(c) \in Node \ Block
      <3>1. \A c \in Class : HeadOf(c)[1] = c /\ TailOf(c)[1] = c
        BY DEF HeadOf, TailOf
      <3> QED
        BY <3>1, Ends
    <2> SUFFICES ASSUME NEW n \in Node
                 PROVE  /\ n[2] = -2 => TailOf(n[1]) \in Node \ Block
                        /\ n[2] = -1 => HeadOf(n[1]) \in Node \ Block
      OBVIOUS
    <2>3. n \in Block \/ \E c \in Class : n = HeadOf(c) \/ n = TailOf(c)
      BY DEF Node
    <2>4. CASE n \in Block
      BY <2>1, <2>4
    <2>5. ASSUME NEW c \in Class, n = HeadOf(c) \/ n = TailOf(c)
          PROVE  TailOf(n[1]) \in Node \ Block /\ HeadOf(n[1]) \in Node \ Block
      <3>1. n[1] = c
        BY <2>2, <2>5
      <3> QED
        BY <2>2, <3>1
    <2> QED
      BY <2>3, <2>4, <2>5
  <1> DEFINE nx == [n \in Node |-> IF n[2] = -2 THEN TailOf(n[1]) ELSE Null]
             pv == [n \in Node |-> IF n[2] = -1 THEN HeadOf(n[1]) ELSE Null]
             sz == [c \in Class |-> 0]
  <1>2. link = [next |-> nx, prev |-> pv, size |-> sz]
    BY DEF HeapInit
  <1>3. \A n \in Node : /\ nx[n] \in Node \cup {Null} /\ nx[n] \notin Block
                        /\ pv[n] \in Node \cup {Null} /\ pv[n] \notin Block
    <2>1. Null \notin Block
      BY HeapAssumption DEF Node
    <2> SUFFICES ASSUME NEW n \in Node
                 PROVE  /\ nx[n] \in Node \cup {Null} /\ nx[n] \notin Block
                        /\ pv[n] \in Node \cup {Null} /\ pv[n] \notin Block
      OBVIOUS
    <2>2. /\ nx[n] = IF n[2] = -2 THEN TailOf(n[1]) ELSE Null
          /\ pv[n] = IF n[2] = -1 THEN HeadOf(n[1]) ELSE Null
      OBVIOUS
    <2> HIDE DEF nx, pv
    <2> QED
      BY <1>1, <2>1, <2>2
  <1>4. /\ nx \in [Node -> Node \cup {Null}] /\ pv \in [Node -> Node \cup {Null}]
        /\ sz \in [Class -> Int]
    <2>1. nx = [n \in Node |-> nx[n]] /\ pv = [n \in Node |-> pv[n]]
      OBVIOUS
    <2>2. sz \in [Class -> Int]
      OBVIOUS
    <2> HIDE DEF nx, pv, sz
    <2> QED
      BY <1>3, <2>1, <2>2
  <1> HIDE DEF nx, pv, sz
  <1>5. link \in FreeLists /\ link.next = nx /\ link.prev = pv
    BY <1>2, <1>4 DEF FreeLists
  <1>6. PointsInto(link, Used(arena))
    BY <1>3, <1>5 DEF PointsInto
  <1>7. /\ arena \in [Page -> Arena \cup {None}] /\ held \in [Block -> Nat]
        /\ wild \in BOOLEAN /\ partly \in 0 .. MaxPartly /\ \A b \in Block : held[b] = 0
        /\ lock \in [Class -> Thread \cup {None}] /\ \A c \in Class : lock[c] = None
    <2>1. /\ arena = [p \in Page |-> None] /\ lock = [c \in Class |-> None]
          /\ held = [b \in Block |-> 0] /\ partly = 0 /\ wild = FALSE
      BY DEF HeapInit
    <2>2. partly \in 0 .. MaxPartly
      BY <2>1, HeapAssumption
    <2>3. arena \in [Page -> Arena \cup {None}] /\ wild \in BOOLEAN
      BY <2>1
    <2>4. held \in [Block -> Nat] /\ \A b \in Block : held[b] = 0
      BY <2>1
    <2>5. lock \in [Class -> Thread \cup {None}] /\ \A c \in Class : lock[c] = None
      BY <2>1
    <2> QED
      BY <2>2, <2>3, <2>4, <2>5
  <1>8. \A t \in Thread : request[t] = None
    BY DEF PagesInit
  <1>9. HeapTypeOK
    BY <1>5, <1>6, <1>7 DEF HeapTypeOK
  <1>10. Fetching
    BY <1>7, <1>8, PagesAssumption DEF Fetching
  <1> QED
    BY <1>9, <1>10

(* The locks of the classes and the requests for their pages.              *)
LEMMA FetchingStep ==
  ASSUME PagesSound, Fetching, [Next]_vars
  PROVE  Fetching'
  <1>0. /\ request \in [Thread -> Request \cup {None}]
        /\ lock \in [Class -> Thread \cup {None}] /\ None \notin Class /\ None \notin Thread
    BY HeapAssumption, PagesAssumption DEF PagesSound, PagesTypeOK, Fetching
  <1>1. CASE lock' = lock /\ request' = request
    BY <1>1 DEF Fetching
  <1>2. ASSUME NEW t \in Thread, NEW c \in Class, KmallocGrow(t, c)
        PROVE  Fetching'
    <2> DEFINE i == BitmapScan(bits["kernel"], 0, 1, FALSE)
               q == [pool |-> "kernel", pages |-> 1, class |-> c, index |-> i]
    <2>1. /\ request[t] = None /\ request' = [request EXCEPT ![t] = q]
          /\ lock[c] = None /\ lock' = [lock EXCEPT ![c] = t]
      BY <1>2 DEF KmallocGrow, Scan
    <2>2. q.pool = "kernel" /\ q.pages = 1 /\ q.class = c /\ q # None
      <3>1. q.class = c
        OBVIOUS
      <3>2. request'[t] \in Request
        <4>1. 1 \in Nat \ {0} /\ "kernel" \in Pool
          BY DEF Pool
        <4> QED
          BY <1>2, <4>1, ScanKeeps DEF KmallocGrow
      <3>3. request'[t] = q
        BY <1>0, <2>1
      <3> QED
        BY <3>1, <3>2, <3>3, HeapAssumption
    <2> HIDE DEF q
    <2>3. /\ \A u \in Thread : IF u = t THEN request'[u] = q ELSE request'[u] = request[u]
          /\ \A d \in Class : IF d = c THEN lock'[d] = t ELSE lock'[d] = lock[d]
          /\ lock' \in [Class -> Thread \cup {None}]
      BY <1>0, <2>1
    <2>4. ASSUME NEW d \in Class, NEW u \in Thread
          PROVE  lock'[d] = u <=> request'[u] # None /\ request'[u].class = d
      BY <1>0, <2>1, <2>2, <2>3 DEF Fetching
    <2>5. \A u \in Thread : request'[u] # None /\ request'[u].class # None
                           => request'[u].pool = "kernel" /\ request'[u].pages = 1
      BY <2>2, <2>3 DEF Fetching
    <2> QED
      BY <2>3, <2>4, <2>5 DEF Fetching
  <1>3. ASSUME NEW t \in Thread, KmallocFill(t)
        PROVE  Fetching'
    <2> DEFINE c == request[t].class
    <2>1. /\ request[t] # None /\ c # None /\ request' = [request EXCEPT ![t] = None]
          /\ lock' = [lock EXCEPT ![c] = None]
      BY <1>3 DEF KmallocFill, Flip
    <2>2. c \in Class /\ lock[c] = t
      <3>1. c \in Class
        BY <1>0, <2>1 DEF Request
      <3> QED
        BY <2>1, <3>1 DEF Fetching
    <2> HIDE DEF c
    <2>3. /\ \A u \in Thread : IF u = t THEN request'[u] = None ELSE request'[u] = request[u]
          /\ \A d \in Class : IF d = c THEN lock'[d] = None ELSE lock'[d] = lock[d]
          /\ lock' \in [Class -> Thread \cup {None}]
      BY <1>0, <2>1, <2>2
    <2>4. ASSUME NEW d \in Class, NEW u \in Thread
          PROVE  lock'[d] = u <=> request'[u] # None /\ request'[u].class = d
      <3>1. lock[d] = u <=> request[u] # None /\ request[u].class = d
        BY DEF Fetching
      <3>2. u = t => (request[u].class = d <=> d = c)
        BY DEF c
      <3> QED
        BY <1>0, <2>1, <2>2, <2>3, <3>1, <3>2
    <2>5. \A u \in Thread : request'[u] # None /\ request'[u].class # None
                           => request'[u].pool = "kernel" /\ request'[u].pages = 1
      BY <2>3 DEF Fetching
    <2> QED
      BY <2>3, <2>4, <2>5 DEF Fetching
  <1>4. ASSUME NEW t \in Thread, lock' = lock, request[t] = None \/ request[t].class = None,
               request'[t] = None \/ request'[t].class = None,
               \A u \in Thread : u # t => request'[u] = request[u]
        PROVE  Fetching'
    <2>1. ASSUME NEW d \in Class, NEW u \in Thread
          PROVE  lock'[d] = u <=> request'[u] # None /\ request'[u].class = d
      BY <1>0, <1>4 DEF Fetching
    <2>2. \A u \in Thread : request'[u] # None /\ request'[u].class # None
                           => request'[u].pool = "kernel" /\ request'[u].pages = 1
      BY <1>4 DEF Fetching
    <2> QED
      BY <1>0, <1>4, <2>1, <2>2 DEF Fetching
  <1>5. ASSUME NEW t \in Thread, NEW pool \in Pool, NEW n \in 1 .. MaxRun,
               PageAllocate(t, pool, n), lock' = lock
        PROVE  Fetching'
    <2> DEFINE q == [pool |-> pool, pages |-> n, class |-> None,
                     index |-> BitmapScan(bits[pool], 0, n, FALSE)]
    <2>1. request[t] = None /\ request' = [request EXCEPT ![t] = q]
      BY <1>5 DEF PageAllocate, Scan
    <2>2. q.class = None
      OBVIOUS
    <2> HIDE DEF q
    <2>3. request'[t].class = None /\ \A u \in Thread : u # t => request'[u] = request[u]
      BY <1>0, <2>1, <2>2
    <2> QED
      BY <1>4, <1>5, <2>1, <2>3
  <1>6. ASSUME NEW t \in Thread, PageAllocated(t), lock' = lock
        PROVE  Fetching'
    <2>1. request[t].class = None /\ request' = [request EXCEPT ![t] = None]
      BY <1>6 DEF PageAllocated, Flip
    <2>2. request'[t] = None /\ \A u \in Thread : u # t => request'[u] = request[u]
      BY <1>0, <2>1
    <2> QED
      BY <1>4, <1>6, <2>1, <2>2
  <1>7. CASE PagesNext
    <2>1. lock' = lock
      BY <1>7 DEF PagesNext, heapVars
    <2>2. \/ \E t \in Thread, pool \in Pool, n \in 1 .. MaxRun : PageAllocate(t, pool, n)
          \/ \E t \in Thread : PageAllocated(t)
          \/ \E p \in Page : PageFree(p)
      BY <1>7 DEF PagesNext
    <2>3. ASSUME NEW p \in Page, PageFree(p) PROVE request' = request
      BY <2>3 DEF PageFree
    <2> QED
      BY <1>1, <1>5, <1>6, <2>1, <2>2, <2>3
  <1>8. CASE UNCHANGED vars
    BY <1>1, <1>8 DEF vars, heapVars, pageVars
  <1>9. ASSUME NEW t \in Thread, NEW c \in Class, Kmalloc(t, c) PROVE Fetching'
    BY <1>1, <1>9 DEF Kmalloc, pageVars
  <1>10. ASSUME NEW b \in Block, Kfree(b) \/ KfreeLast(b) PROVE Fetching'
    <2>1. lock' = lock /\ request' = request
      BY <1>10 DEF Kfree, KfreeLast, PageFree, pageVars
    <2> QED
      BY <1>1, <2>1
  <1> QED
    BY <1>2, <1>3, <1>7, <1>8, <1>9, <1>10 DEF Next

(* What a kfree finds: the block of an arena, and the arena counted up.     *)
LEMMA FreedBlock ==
  ASSUME HeapTypeOK, NEW b \in Block, held[b] > 0
  PROVE  /\ b[1] \in Page /\ b \in Used(arena) /\ arena[b[1]] \in Arena
         /\ arena[b[1]].class \in Class /\ arena[b[1]].free \in Int
         /\ [arena[b[1]] EXCEPT !.free = @ + 1] \in Arena
         /\ [arena EXCEPT ![b[1]].free = @ + 1]
              = [arena EXCEPT ![b[1]] = [arena[b[1]] EXCEPT !.free = @ + 1]]
  <1>1. b[1] \in Page /\ b \in Used(arena) /\ arena[b[1]] # None
    BY PageOfBlock DEF HeapTypeOK, Used
  <1>2. arena[b[1]] \in Arena
    BY <1>1 DEF HeapTypeOK
  <1> QED
    BY <1>1, <1>2 DEF Arena

(* Every step keeps the variables of the heap in their ranges.              *)
LEMMA HeapStepTyped ==
  ASSUME PagesSound, HeapTypeOK, [Next]_vars
  PROVE  HeapTypeOK'
  <1>0. /\ link \in FreeLists /\ arena \in [Page -> Arena \cup {None}]
        /\ held \in [Block -> Nat] /\ wild \in BOOLEAN /\ partly \in 0 .. MaxPartly
        /\ PointsInto(link, Used(arena))
        /\ \A b \in Block : held[b] # 0 => b \in Used(arena)
    BY DEF HeapTypeOK
  <1>1. ASSUME link' = link, arena' = arena, held' = held, wild' \in BOOLEAN, partly' = partly
        PROVE  HeapTypeOK'
    BY <1>0, <1>1 DEF HeapTypeOK
  <1>2. CASE UNCHANGED vars
    BY <1>0, <1>1, <1>2 DEF vars, heapVars
  <1>3. CASE PagesNext
    BY <1>0, <1>1, <1>3 DEF PagesNext, heapVars
  <1>4. ASSUME NEW t \in Thread, NEW c \in Class, KmallocGrow(t, c) PROVE HeapTypeOK'
    BY <1>0, <1>1, <1>4 DEF KmallocGrow
  <1>5. ASSUME NEW t \in Thread, NEW c \in Class, Kmalloc(t, c) PROVE HeapTypeOK'
    <2>1. Take(c, link, arena) /\ partly' = partly
      BY <1>5 DEF Kmalloc
    <2>2. /\ link' \in FreeLists /\ arena' \in [Page -> Arena \cup {None}]
          /\ held' \in [Block -> Nat] /\ wild' \in BOOLEAN
          /\ PointsInto(link', Used(arena'))
          /\ \A b \in Block : held'[b] # 0 => b \in Used(arena')
      BY <1>0, <2>1, TakeTyped
    <2> QED
      BY <1>0, <2>1, <2>2 DEF HeapTypeOK
  <1>6. ASSUME NEW t \in Thread, KmallocFill(t) PROVE HeapTypeOK'
    <2> DEFINE r == request[t]
               p == CHOOSE q \in Granted(r) : TRUE
               d == [class |-> r.class, free |-> ArenaSize[r.class]]
               a == [arena EXCEPT ![p] = d]
               l == Filled(link, p, r.class)
    <2>1. /\ r # None /\ r.class # None /\ partly' = partly
          /\ IF Granted(r) = {} \/ overlaid' # {}
             THEN wild' = TRUE /\ link' = link /\ arena' = arena /\ held' = held
             ELSE Take(r.class, l, a)
      BY <1>6 DEF KmallocFill
    <2>2. CASE Granted(r) = {} \/ overlaid' # {}
      BY <1>1, <2>1, <2>2
    <2>3. CASE ~ (Granted(r) = {} \/ overlaid' # {})
      <3>1. Take(r.class, l, a)
        BY <2>1, <2>3
      <3>2. r.class \in Class
        BY <2>1 DEF PagesSound, PagesTypeOK, Request
      <3>3. p \in Page
        <4>1. Granted(r) \subseteq Page
          BY <2>1, GrantedInPage
        <4>2. p \in Granted(r)
          BY <2>3
        <4> QED
          BY <4>1, <4>2
      <3>4. d \in Arena
        <4> HIDE DEF r
        <4>1. ArenaSize[r.class] \in Int
          <5>1. ArenaSize \in [Class -> Nat \ {0}]
            BY HeapAssumption
          <5> QED
            BY <3>2, <5>1
        <4> QED
          BY <3>2, <4>1 DEF Arena
      <3> HIDE DEF r, p, d
      <3>5. /\ a \in [Page -> Arena \cup {None}] /\ Used(arena) \subseteq Used(a)
            /\ Blocks(p, r.class) \subseteq Used(a)
        BY <1>0, <3>2, <3>3, <3>4, UsedKept
      <3> HIDE DEF a
      <3>6. PointsInto(link, Used(a))
        BY <1>0, <3>5, PointsWider
      <3>7. l \in FreeLists /\ PointsInto(l, Used(a))
        BY <1>0, <3>2, <3>3, <3>5, <3>6, FillPoints
      <3> HIDE DEF l
      <3>8. /\ link' \in FreeLists /\ arena' \in [Page -> Arena \cup {None}]
            /\ held' \in [Block -> Nat] /\ wild' \in BOOLEAN
            /\ PointsInto(link', Used(arena'))
            /\ \A b \in Block : held'[b] # 0 => b \in Used(arena')
        BY <3>1, <3>2, <3>5, <3>7, TakeTyped
      <3> QED
        BY <1>0, <2>1, <3>8 DEF HeapTypeOK
    <2> QED
      BY <2>2, <2>3
  <1>7. ASSUME NEW b \in Block, held[b] > 0, arena' = [arena EXCEPT ![b[1]].free = @ + 1],
               held' = [held EXCEPT ![b] = @ - 1], wild' \in BOOLEAN, partly' \in 0 .. MaxPartly,
               link' \in FreeLists, PointsInto(link', Used(arena))
        PROVE  HeapTypeOK'
    <2>1. /\ b[1] \in Page /\ b \in Used(arena)
          /\ [arena[b[1]] EXCEPT !.free = @ + 1] \in Arena
          /\ arena' = [arena EXCEPT ![b[1]] = [arena[b[1]] EXCEPT !.free = @ + 1]]
      BY <1>7, FreedBlock
    <2>2. arena' \in [Page -> Arena \cup {None}] /\ Used(arena) \subseteq Used(arena')
      BY <1>0, <2>1, UsedKept
    <2>3. held' \in [Block -> Nat] /\ \A e \in Block : held'[e] # 0 => held[e] # 0
      BY <1>0, <1>7
    <2>4. PointsInto(link', Used(arena'))
      BY <1>7, <2>2, PointsWider
    <2>5. \A e \in Block : held'[e] # 0 => e \in Used(arena')
      BY <1>0, <2>2, <2>3
    <2> QED
      BY <1>7, <2>2, <2>3, <2>4, <2>5 DEF HeapTypeOK
  <1>8. ASSUME NEW b \in Block, Kfree(b) PROVE HeapTypeOK'
    <2> DEFINE c == arena[b[1]].class
               m == Pushed(link, c, b)
    <2>1. /\ held[b] > 0 /\ partly < MaxPartly /\ link' = Pushed(m, c, b)
          /\ arena' = [arena EXCEPT ![b[1]].free = @ + 1]
          /\ held' = [held EXCEPT ![b] = @ - 1] /\ partly' = partly + 1 /\ wild' = wild
      BY <1>8 DEF Kfree
    <2>2. c \in Class /\ b \in Used(arena)
      BY <2>1, FreedBlock
    <2> HIDE DEF c
    <2>3. m \in FreeLists /\ PointsInto(m, Used(arena))
      BY <1>0, <2>2, PushTyped, PushPoints
    <2> HIDE DEF m
    <2>4. link' \in FreeLists /\ PointsInto(link', Used(arena))
      BY <2>1, <2>2, <2>3, PushTyped, PushPoints
    <2>5. partly' \in 0 .. MaxPartly
      BY <1>0, <2>1, HeapAssumption
    <2> QED
      BY <1>0, <1>7, <2>1, <2>4, <2>5
  <1>9. ASSUME NEW b \in Block, KfreeLast(b) PROVE HeapTypeOK'
    <2> DEFINE p == b[1]
               c == arena[p].class
               m == Pushed(link, c, b)
               l == Emptied(m, p, c)
    <2>1. /\ held[b] > 0 /\ arena' = [arena EXCEPT ![p].free = @ + 1]
          /\ held' = [held EXCEPT ![b] = @ - 1] /\ partly' = partly
          /\ \/ wild' = TRUE /\ link' = link
             \/ wild' = wild /\ link' = l
      BY <1>9 DEF KfreeLast
    <2>2. p \in Page /\ c \in Class /\ b \in Used(arena)
      BY <2>1, FreedBlock
    <2> HIDE DEF c
    <2>3. m \in FreeLists /\ PointsInto(m, Used(arena))
      BY <1>0, <2>2, PushTyped, PushPoints
    <2> HIDE DEF m
    <2>4. l \in FreeLists /\ PointsInto(l, Used(arena))
      BY <2>2, <2>3, EmptyPoints
    <2> HIDE DEF l
    <2>5. link' \in FreeLists /\ PointsInto(link', Used(arena)) /\ wild' \in BOOLEAN
      BY <1>0, <2>1, <2>4
    <2> QED
      BY <1>0, <1>7, <2>1, <2>5
  <1> QED
    BY <1>2, <1>3, <1>4, <1>5, <1>6, <1>8, <1>9 DEF Next

-----------------------------------------------------------------------------

(* The block is one of those that its arena was cut into.                  *)
InArena(a, b) == a[b[1]] # None /\ b \in Blocks(b[1], a[b[1]].class)

(* The blocks of class c that nobody holds, in the arenas whose page has    *)
(* not been given back.                                                    *)
FreeBlocks(a, o, h, c) ==
  {b \in Block : InArena(a, b) /\ a[b[1]].class = c /\ o[b[1]] = 1 /\ h[b] = 0}

(* The free lists l hold the free blocks, a block has at most one holder,  *)
(* and free_count counts.                                                  *)
Sound(l, a, o, h) ==
  /\ AllHold(l, [c \in Class |-> FreeBlocks(a, o, h, c)])
  /\ \A b \in Block : h[b] # 0 => h[b] = 1 /\ InArena(a, b) /\ o[b[1]] = 1
  /\ \A p \in Page : a[p] # None /\ o[p] = 1
       => a[p].free = Cardinality({b \in Blocks(p, a[p].class) : h[b] = 0})

(* The bit of a page is set.                                               *)
BitOf(p) ==
  \E pool \in Pool : \E i \in 0 .. Pages(pool) - 1 : p = PageOf(pool, i) /\ bits[pool][i]

(* Nothing has gone wrong yet.                                             *)
Sane == partly = 0 /\ ~ wild /\ overlaid = {}

HeapSound ==
  Sane => /\ Sound(link, arena, owners, held)
          /\ \A p \in Page : arena[p] # None => BitOf(p)

(* The end of kmalloc: the first free block goes to the caller.            *)
LEMMA TakeSound ==
  ASSUME NEW l, NEW a \in [Page -> Arena \cup {None}], NEW o, HeapTypeOK,
         Sound(l, a, o, held), NEW c \in Class, FreeBlocks(a, o, held, c) # {},
         Take(c, l, a)
  PROVE  /\ Sound(link', arena', o, held') /\ wild' = wild
         /\ \A p \in Page : arena'[p] # None => a[p] # None
  <1> DEFINE F == [d \in Class |-> FreeBlocks(a, o, held, d)]
             b == l.next[HeadOf(c)]
             p == b[1]
             m == Removed(l, c, b)
             F2 == [F EXCEPT ![c] = @ \ {b}]
  <1>1. AllHold(l, F) /\ F[c] = FreeBlocks(a, o, held, c)
    BY DEF Sound
  <1>2. b \in F[c]
    <2>1. F[c] # {}
      BY <1>1
    <2> HIDE DEF F
    <2> QED
      BY <1>1, <2>1, FirstHeld
  <1>3. /\ b \in Block /\ InArena(a, b) /\ a[p].class = c /\ o[p] = 1 /\ held[b] = 0
        /\ p \in Page /\ a[p] # None /\ a[p] \in Arena
    <2>1. b \in Block /\ InArena(a, b) /\ a[p].class = c /\ o[p] = 1 /\ held[b] = 0
      BY <1>1, <1>2 DEF FreeBlocks
    <2> HIDE DEF b
    <2>2. p \in Page
      BY <2>1, PageOfBlock
    <2> QED
      BY <2>1, <2>2 DEF InArena
  <1>4. AllHold(m, F2)
    <2> HIDE DEF F, b
    <2> QED
      BY <1>1, <1>2, RemoveHolds
  <1>5. \A d \in Class : b \notin F2[d]
    <2>1. F \in [Class -> SUBSET Block] /\ \A d, e \in Class : d # e => F[d] \cap F[e] = {}
      BY <1>1 DEF AllHold
    <2> HIDE DEF F, b
    <2> QED
      BY <1>2, <2>1
  <1>6. /\ link' = [m EXCEPT !.next[b] = Null, !.prev[b] = Null]
        /\ arena' = [a EXCEPT ![p].free = @ - 1]
        /\ held' = [held EXCEPT ![b] = @ + 1]
        /\ wild' = wild
    BY <1>3 DEF Take
  <1>7. AllHold(link', F2)
    <2> HIDE DEF F2, b, m
    <2> QED
      BY <1>3, <1>4, <1>5, <1>6, TakenHolds
  <1> HIDE DEF b
  <1>8. /\ held \in [Block -> Nat]
        /\ \A x \in Block : IF x = b THEN held'[x] = 1 ELSE held'[x] = held[x]
    BY <1>3, <1>6 DEF HeapTypeOK
  <1>9. /\ \A q \in Page : q # p => arena'[q] = a[q]
        /\ arena'[p].class = a[p].class /\ arena'[p].free = a[p].free - 1
        /\ arena'[p] # None
    <2>1. arena'[p] = [a[p] EXCEPT !.free = @ - 1]
      BY <1>3, <1>6
    <2>2. arena'[p] \in Arena
      BY <1>3, <2>1 DEF Arena
    <2>3. arena'[p].class = a[p].class /\ arena'[p].free = a[p].free - 1
      BY <1>3, <2>1 DEF Arena
    <2>4. \A q \in Page : q # p => arena'[q] = a[q]
      BY <1>6
    <2> QED
      BY <2>2, <2>3, <2>4, HeapAssumption
  <1>10. \A q \in Page : (arena'[q] # None <=> a[q] # None) /\ arena'[q].class = a[q].class
    BY <1>3, <1>9
  <1>11. \A x \in Block : InArena(arena', x) <=> InArena(a, x)
    BY <1>10, PageOfBlock DEF InArena
  <1>12. F2 = [d \in Class |-> FreeBlocks(arena', o, held', d)]
    <2>1. \A d \in Class : FreeBlocks(arena', o, held', d) = FreeBlocks(a, o, held, d) \ {b}
      <3> SUFFICES ASSUME NEW d \in Class, NEW x \in Block
                   PROVE  x \in FreeBlocks(arena', o, held', d)
                            <=> x \in FreeBlocks(a, o, held, d) /\ x # b
        BY DEF FreeBlocks
      <3>1. x[1] \in Page
        BY PageOfBlock
      <3> QED
        BY <1>8, <1>10, <1>11, <3>1 DEF FreeBlocks
    <2>2. \A d \in Class : d # c => b \notin FreeBlocks(a, o, held, d)
      BY <1>3 DEF FreeBlocks
    <2>3. \A d \in Class : F2[d] = IF d = c THEN F[d] \ {b} ELSE F[d]
      OBVIOUS
    <2>4. \A d \in Class : F2[d] = FreeBlocks(arena', o, held', d)
      <3> SUFFICES ASSUME NEW d \in Class PROVE F2[d] = FreeBlocks(arena', o, held', d)
        OBVIOUS
      <3>1. F[d] = FreeBlocks(a, o, held, d)
        OBVIOUS
      <3> HIDE DEF F, F2
      <3> QED
        BY <2>1, <2>2, <2>3, <3>1
    <2>5. F2 = [d \in Class |-> F2[d]]
      OBVIOUS
    <2> HIDE DEF F2
    <2> QED
      BY <2>4, <2>5
  <1>13. \A x \in Block : held'[x] # 0 => held'[x] = 1 /\ InArena(arena', x) /\ o[x[1]] = 1
    BY <1>3, <1>8, <1>11 DEF Sound
  <1>14. ASSUME NEW q \in Page, arena'[q] # None, o[q] = 1
         PROVE  arena'[q].free = Cardinality({x \in Blocks(q, arena'[q].class) : held'[x] = 0})
    <2> DEFINE S == {x \in Blocks(q, a[q].class) : held[x] = 0}
               S2 == {x \in Blocks(q, arena'[q].class) : held'[x] = 0}
    <2>0. a[q] # None /\ arena'[q].class = a[q].class /\ a[q].class \in Class
      <3>1. a[q] # None /\ arena'[q].class = a[q].class
        BY <1>10, <1>14
      <3> QED
        BY <3>1 DEF Arena
    <2>1. a[q].free = Cardinality(S)
      BY <1>14, <2>0 DEF Sound
    <2>2. /\ \A x \in Blocks(q, a[q].class) : x \in Block /\ x[1] = q
          /\ IsFiniteSet(Blocks(q, a[q].class))
      BY <2>0, ArenaBlocks
    <2>3. IsFiniteSet(S)
      <3>1. S \in SUBSET Blocks(q, a[q].class)
        OBVIOUS
      <3> HIDE DEF S
      <3> QED
        BY <2>2, <3>1, FS_Subset
    <2>4. CASE q = p
      <3>1. b \in S /\ S2 = S \ {b}
        BY <1>3, <1>8, <2>0, <2>2, <2>4 DEF InArena
      <3> HIDE DEF S, S2
      <3>2. Cardinality(S2) = Cardinality(S) - 1
        BY <2>3, <3>1, FS_RemoveElement
      <3>3. Cardinality(S2) = arena'[q].free
        BY <1>9, <2>1, <2>4, <3>2
      <3> QED
        BY <3>3 DEF S2
    <2>5. CASE q # p
      <3>1. S2 = S
        BY <1>8, <2>0, <2>2, <2>5
      <3> HIDE DEF S, S2
      <3>2. arena'[q].free = Cardinality(S2)
        BY <1>9, <2>1, <2>5, <3>1
      <3> QED
        BY <3>2 DEF S2
    <2> QED
      BY <2>4, <2>5
  <1>15. Sound(link', arena', o, held')
    <2> HIDE DEF F2
    <2> QED
      BY <1>7, <1>12, <1>13, <1>14 DEF Sound
  <1> QED
    BY <1>6, <1>10, <1>15

(* A new arena: all of its blocks are free.                                *)
LEMMA FillSound ==
  ASSUME HeapTypeOK, Sound(link, arena, owners, held), NEW p \in Page, arena[p] = None,
         NEW c \in Class, NEW o, o[p] = 1, \A q \in Page : q # p => o[q] = owners[q]
  PROVE  LET a == [arena EXCEPT ![p] = [class |-> c, free |-> ArenaSize[c]]]
             l == Filled(link, p, c)
         IN  /\ a \in [Page -> Arena \cup {None}]
             /\ Sound(l, a, o, held)
             /\ FreeBlocks(a, o, held, c) # {}
             /\ \A q \in Page : q # p => a[q] = arena[q]
  <1> DEFINE r == [class |-> c, free |-> ArenaSize[c]]
             a == [arena EXCEPT ![p] = r]
             l == Filled(link, p, c)
             F == [d \in Class |-> FreeBlocks(arena, owners, held, d)]
             F2 == [F EXCEPT ![c] = @ \cup Blocks(p, c)]
  <1>1. r \in Arena /\ r.class = c /\ r.free = ArenaSize[c] /\ r # None
    <2>1. ArenaSize[c] \in Int
      BY HeapAssumption
    <2>2. r \in Arena
      BY <2>1 DEF Arena
    <2> QED
      BY <2>2, HeapAssumption
  <1> HIDE DEF r
  <1>2. /\ a \in [Page -> Arena \cup {None}] /\ a[p] = r
        /\ \A q \in Page : q # p => a[q] = arena[q]
    BY <1>1 DEF HeapTypeOK
  <1> HIDE DEF a
  <1>3. /\ \A b \in Blocks(p, c) : b \in Block /\ b[1] = p
        /\ Blocks(p, c) # {}
        /\ Cardinality(Blocks(p, c)) = ArenaSize[c]
    BY ArenaBlocks
  <1>4. \A b \in Block : b[1] \in Page
    BY PageOfBlock
  <1>5. \A b \in Block : b[1] = p => held[b] = 0
    BY DEF Sound, InArena
  <1>6. \A b \in Block : IF b[1] = p THEN InArena(a, b) <=> b \in Blocks(p, c)
                        ELSE InArena(a, b) <=> InArena(arena, b)
    BY <1>1, <1>2, <1>4 DEF InArena
  <1>7. AllHold(link, F)
    BY DEF Sound
  <1>8. \A d \in Class : Blocks(p, c) \cap F[d] = {}
    <2>1. \A d \in Class : F[d] = FreeBlocks(arena, owners, held, d)
      OBVIOUS
    <2>2. \A d \in Class : \A b \in FreeBlocks(arena, owners, held, d) : b[1] # p
      BY DEF FreeBlocks, InArena
    <2> HIDE DEF F
    <2> QED
      BY <1>3, <2>1, <2>2
  <1>9. AllHold(l, F2)
    <2> HIDE DEF F
    <2> QED
      BY <1>7, <1>8, FillHolds
  <1>10. \A d \in Class : FreeBlocks(a, o, held, d)
           = IF d = c THEN FreeBlocks(arena, owners, held, d) \cup Blocks(p, c)
             ELSE FreeBlocks(arena, owners, held, d)
    <2> SUFFICES ASSUME NEW d \in Class, NEW b \in Block
                 PROVE  b \in FreeBlocks(a, o, held, d)
                          <=> b \in FreeBlocks(arena, owners, held, d) \/ (d = c /\ b \in Blocks(p, c))
      BY <1>3 DEF FreeBlocks
    <2>1. CASE b[1] = p
      <3>1. b \in FreeBlocks(a, o, held, d) <=> b \in Blocks(p, c) /\ c = d
        BY <1>1, <1>2, <1>5, <1>6, <2>1 DEF FreeBlocks
      <3>2. b \notin FreeBlocks(arena, owners, held, d)
        BY <2>1 DEF FreeBlocks, InArena
      <3> QED
        BY <3>1, <3>2
    <2>2. CASE b[1] # p
      <3>1. b \notin Blocks(p, c)
        BY <1>3, <2>2
      <3>2. a[b[1]] = arena[b[1]] /\ o[b[1]] = owners[b[1]]
        BY <1>2, <1>4, <2>2
      <3> QED
        BY <1>6, <2>2, <3>1, <3>2 DEF FreeBlocks
    <2> QED
      BY <2>1, <2>2
  <1>11. F2 = [d \in Class |-> FreeBlocks(a, o, held, d)]
    <2>1. \A d \in Class : F2[d] = IF d = c THEN F[d] \cup Blocks(p, c) ELSE F[d]
      OBVIOUS
    <2>2. \A d \in Class : F[d] = FreeBlocks(arena, owners, held, d)
      OBVIOUS
    <2>3. F2 = [d \in Class |-> F2[d]]
      OBVIOUS
    <2> HIDE DEF F, F2
    <2>4. \A d \in Class : F2[d] = FreeBlocks(a, o, held, d)
      BY <1>10, <2>1, <2>2
    <2> QED
      BY <2>3, <2>4
  <1>12. \A b \in Block : held[b] # 0 => held[b] = 1 /\ InArena(a, b) /\ o[b[1]] = 1
    <2> SUFFICES ASSUME NEW b \in Block, held[b] # 0
                 PROVE  held[b] = 1 /\ InArena(a, b) /\ o[b[1]] = 1
      OBVIOUS
    <2>1. b[1] # p /\ held[b] = 1 /\ InArena(arena, b) /\ owners[b[1]] = 1
      BY <1>5 DEF Sound
    <2> QED
      BY <1>4, <1>6, <2>1
  <1>13. ASSUME NEW q \in Page, a[q] # None, o[q] = 1
         PROVE  a[q].free = Cardinality({b \in Blocks(q, a[q].class) : held[b] = 0})
    <2>1. CASE q = p
      <3>1. {b \in Blocks(p, c) : held[b] = 0} = Blocks(p, c)
        BY <1>3, <1>5
      <3> QED
        BY <1>1, <1>2, <1>3, <2>1, <3>1
    <2>2. CASE q # p
      BY <1>2, <1>13, <2>2 DEF Sound
    <2> QED
      BY <2>1, <2>2
  <1>14. Sound(l, a, o, held)
    <2> HIDE DEF l, F2
    <2> QED
      BY <1>9, <1>11, <1>12, <1>13 DEF Sound
  <1>15. FreeBlocks(a, o, held, c) # {}
    BY <1>3, <1>10
  <1> QED
    BY <1>2, <1>14, <1>15 DEF a, l, r

(* The last block of an arena comes back: all are free, and leave the free  *)
(* list together.                                                          *)
LEMMA FreeSound ==
  ASSUME HeapTypeOK, owners \in [Page -> Nat], Sound(link, arena, owners, held),
         NEW b \in Block, KfreeLast(b)
  PROVE  /\ Sound(link', arena', owners', held') /\ wild' = wild
         /\ \A q \in Page : arena'[q] # None => arena[q] # None
         /\ PageFree(b[1])
  <1> DEFINE p == b[1]
             c == arena[p].class
             B == Blocks(p, c)
             S == {x \in B : held[x] = 0}
             F == [d \in Class |-> FreeBlocks(arena, owners, held, d)]
             m == Pushed(link, c, b)
             F1 == [F EXCEPT ![c] = @ \cup {b}]
             l == Emptied(m, p, c)
             F2 == [F1 EXCEPT ![c] = @ \ B]
  <1>1. /\ held[b] > 0 /\ arena[p].free + 1 = ArenaSize[c]
        /\ arena' = [arena EXCEPT ![p].free = @ + 1]
        /\ held' = [held EXCEPT ![b] = @ - 1]
        /\ \/ link' = l /\ PageFree(p) /\ wild' = wild
           \/ \E x \in B : held'[x] > 0
    BY DEF KfreeLast
  <1>2. p \in Page /\ arena[p] \in Arena /\ c \in Class /\ arena[p] # None
    <2>1. b \in Used(arena) /\ b[1] \in Page /\ arena[b[1]] \in Arena /\ arena[b[1]].class \in Class
      BY <1>1, FreedBlock
    <2> QED
      BY <2>1 DEF Used
  <1>3. held[b] = 1 /\ InArena(arena, b) /\ b \in B /\ owners[p] = 1
    BY <1>1 DEF Sound, InArena
  <1>4. /\ \A x \in B : x \in Block /\ x[1] = p
        /\ IsFiniteSet(B) /\ Cardinality(B) = ArenaSize[c]
    BY <1>2, ArenaBlocks
  <1>5. \A x \in B : x = b \/ held[x] = 0
    <2>1. arena[p].free = Cardinality(S)
      BY <1>2, <1>3 DEF Sound
    <2>2. S \in SUBSET B /\ b \notin S
      BY <1>3
    <2>3. S \cup {b} \in SUBSET B
      BY <1>3, <2>2
    <2>4. \A x \in S : held[x] = 0
      OBVIOUS
    <2> HIDE DEF S, B
    <2>5. IsFiniteSet(S) /\ Cardinality(S) \in Nat
      BY <1>4, <2>2, FS_Subset, FS_CardinalityType
    <2>6. Cardinality(S \cup {b}) = Cardinality(S) + 1
      BY <2>2, <2>5, FS_AddElement
    <2>7. Cardinality(S \cup {b}) = Cardinality(B)
      BY <1>1, <1>4, <2>1, <2>6
    <2>8. B = S \cup {b}
      BY <1>4, <2>3, <2>7, FS_Subset
    <2> QED
      BY <2>4, <2>8
  <1>6. AllHold(link, F)
    BY DEF Sound
  <1>7. AllHold(m, F1)
    <2>1. \A d \in Class : F[d] = FreeBlocks(arena, owners, held, d)
      OBVIOUS
    <2>2. \A d \in Class : b \notin FreeBlocks(arena, owners, held, d)
      BY <1>3 DEF FreeBlocks
    <2> HIDE DEF F, c
    <2> QED
      BY <1>2, <1>6, <2>1, <2>2, PushHolds
  <1>8. F[c] \cup {b} = FreeBlocks(arena, owners, held, c) \cup {b} /\ F1[c] = F[c] \cup {b}
    BY <1>2
  <1>9. B \subseteq F1[c]
    <2>1. \A x \in B : x = b \/ x \in FreeBlocks(arena, owners, held, c)
      BY <1>2, <1>3, <1>4, <1>5 DEF FreeBlocks, InArena
    <2> HIDE DEF F, F1, B
    <2> QED
      BY <1>8, <2>1
  <1>10. AllHold(l, F2)
    <2> HIDE DEF F1, m, c, p
    <2> QED
      BY <1>2, <1>7, <1>9, EmptyHolds
  <1>11. link' = l /\ PageFree(p) /\ wild' = wild
    <2>1. \A x \in Block : held'[x] = IF x = b THEN 0 ELSE held[x]
      BY <1>1, <1>3 DEF HeapTypeOK
    <2>2. \A x \in B : ~ (held'[x] > 0)
      BY <1>4, <1>5, <2>1
    <2> QED
      BY <1>1, <2>2
  <1>12. /\ owners'[p] = 0 /\ \A q \in Page : q # p => owners'[q] = owners[q]
    <2>1. owners' = [owners EXCEPT ![p] = @ - 1]
      BY <1>11 DEF PageFree
    <2> QED
      BY <1>2, <1>3, <2>1
  <1>13. /\ \A q \in Page : q # p => arena'[q] = arena[q]
         /\ arena'[p].class = c
         /\ \A q \in Page : arena'[q] # None => arena[q] # None
    <2>1. arena'[p] = [arena[p] EXCEPT !.free = @ + 1]
      BY <1>1, <1>2 DEF HeapTypeOK
    <2>2. arena'[p].class = c
      BY <1>2, <2>1 DEF Arena
    <2>3. \A q \in Page : q # p => arena'[q] = arena[q]
      BY <1>1 DEF HeapTypeOK
    <2> QED
      BY <1>2, <2>2, <2>3
  <1>14. \A x \in Block : IF x = b THEN held'[x] = 0 ELSE held'[x] = held[x]
    BY <1>1, <1>3 DEF HeapTypeOK
  <1>15. \A x \in Block : x[1] \in Page
    BY PageOfBlock
  <1> HIDE DEF c, B
  <1>16. \A x \in Block : x[1] # p => (InArena(arena', x) <=> InArena(arena, x))
    BY <1>13, <1>15 DEF InArena
  <1>17. \A x \in Block : x[1] = p /\ InArena(arena, x) => x \in B
    BY DEF InArena, B, c
  <1>18. \A d \in Class : FreeBlocks(arena', owners', held', d)
           = IF d = c THEN (FreeBlocks(arena, owners, held, c) \cup {b}) \ B
             ELSE FreeBlocks(arena, owners, held, d)
    <2> SUFFICES ASSUME NEW d \in Class, NEW x \in Block
                 PROVE  x \in FreeBlocks(arena', owners', held', d)
                          <=> IF d = c THEN (x \in FreeBlocks(arena, owners, held, c) \/ x = b) /\ x \notin B
                              ELSE x \in FreeBlocks(arena, owners, held, d)
      BY DEF FreeBlocks
    <2>1. CASE x[1] = p
      <3>1. x \notin FreeBlocks(arena', owners', held', d)
        BY <1>12, <2>1 DEF FreeBlocks
      <3>2. x \in FreeBlocks(arena, owners, held, d) => x \in B /\ d = c
        BY <1>17, <2>1 DEF FreeBlocks, c
      <3> QED
        BY <1>2, <1>3, <3>1, <3>2
    <2>2. CASE x[1] # p
      <3>1. x \notin B /\ x # b
        BY <1>4, <2>2
      <3>2. arena'[x[1]] = arena[x[1]] /\ owners'[x[1]] = owners[x[1]] /\ held'[x] = held[x]
        BY <1>12, <1>13, <1>14, <1>15, <2>2, <3>1
      <3> QED
        BY <1>16, <2>2, <3>1, <3>2 DEF FreeBlocks
    <2> QED
      BY <2>1, <2>2
  <1>19. F2 = [d \in Class |-> FreeBlocks(arena', owners', held', d)]
    <2>1. \A d \in Class : F2[d] = IF d = c THEN (F[d] \cup {b}) \ B ELSE F[d]
      BY <1>2
    <2>2. \A d \in Class : F[d] = FreeBlocks(arena, owners, held, d)
      OBVIOUS
    <2>3. F2 = [d \in Class |-> F2[d]]
      OBVIOUS
    <2> HIDE DEF F, F1, F2
    <2>4. \A d \in Class : F2[d] = FreeBlocks(arena', owners', held', d)
      BY <1>18, <2>1, <2>2
    <2> QED
      BY <2>3, <2>4
  <1>20. \A x \in Block : held'[x] # 0 => held'[x] = 1 /\ InArena(arena', x) /\ owners'[x[1]] = 1
    <2> SUFFICES ASSUME NEW x \in Block, held'[x] # 0
                 PROVE  held'[x] = 1 /\ InArena(arena', x) /\ owners'[x[1]] = 1
      OBVIOUS
    <2>1. x # b /\ held'[x] = held[x]
      BY <1>14
    <2>2. held[x] = 1 /\ InArena(arena, x) /\ owners[x[1]] = 1
      BY <2>1 DEF Sound
    <2>3. x[1] # p
      BY <1>5, <1>17, <2>1, <2>2
    <2> QED
      BY <1>12, <1>15, <1>16, <2>1, <2>2, <2>3
  <1>21. ASSUME NEW q \in Page, arena'[q] # None, owners'[q] = 1
         PROVE  arena'[q].free = Cardinality({x \in Blocks(q, arena'[q].class) : held'[x] = 0})
    <2>1. q # p /\ arena'[q] = arena[q] /\ owners[q] = 1
      BY <1>12, <1>13, <1>21
    <2>2. arena[q].class \in Class
      <3>1. arena[q] \in Arena
        BY <1>21, <2>1 DEF HeapTypeOK
      <3> QED
        BY <3>1 DEF Arena
    <2>3. \A x \in Blocks(q, arena[q].class) : x \in Block /\ x # b
      BY <2>1, <2>2, ArenaBlocks
    <2>4. {x \in Blocks(q, arena[q].class) : held'[x] = 0} = {x \in Blocks(q, arena[q].class) : held[x] = 0}
      BY <1>14, <2>3
    <2>5. arena[q].free = Cardinality({x \in Blocks(q, arena[q].class) : held[x] = 0})
      BY <1>21, <2>1 DEF Sound
    <2> QED
      BY <2>1, <2>4, <2>5
  <1>22. Sound(link', arena', owners', held')
    <2> HIDE DEF l, F2, p
    <2> QED
      BY <1>10, <1>11, <1>19, <1>20, <1>21 DEF Sound
  <1> QED
    BY <1>11, <1>13, <1>22

(* page_pool_alloc, when no two allocations meet: the bits of what is       *)
(* granted were clear and are set, and nothing else changes.               *)
LEMMA FlipTakes ==
  ASSUME PagesSound, NEW t \in Thread, request[t] # None, overlaid = {}, overlaid' = {}, Flip(t),
         NEW q \in Page
  PROVE  /\ BitOf(q) => BitOf(q)'
         /\ q \in Granted(request[t]) => ~ BitOf(q) /\ BitOf(q)' /\ owners'[q] = 1
         /\ q \notin Granted(request[t]) => owners'[q] = owners[q]
  <1> DEFINE r == request[t]
  <1>1. /\ r.pool \in Pool
        /\ r.index = NPOS => Granted(r) = {}
        /\ r.index # NPOS =>
             /\ Granted(r) = {PageOf(r.pool, j) : j \in r.index .. r.index + r.pages - 1}
             /\ r.index .. r.index + r.pages - 1 \subseteq 0 .. Pages(r.pool) - 1
    BY GrantedPages
  <1>2. PagesSound' /\ StaysTaken
    BY FlipKeeps
  <1>3. /\ overlaid' = overlaid \cup {p \in Granted(r) : bits[r.pool][p - Start(r.pool) - 1]}
        /\ owners' = [p \in Page |-> IF p \in Granted(r) THEN owners[p] + 1 ELSE owners[p]]
    BY DEF Flip
  <1> HIDE DEF r
  <1>4. BitOf(q) => BitOf(q)'
    <2>1. ASSUME NEW pool \in Pool, NEW i \in 0 .. Pages(pool) - 1, bits[pool][i]
          PROVE  bits'[pool][i]
      <3>1. DOMAIN bits[pool] = 0 .. Pages(pool) - 1
        BY DEF PagesSound, PagesTypeOK
      <3> QED
        BY <1>2, <2>1, <3>1, Zenon DEF StaysTaken
    <2> QED
      BY <2>1 DEF BitOf
  <1>5. owners \in [Page -> Nat] /\ owners' \in [Page -> Nat]
    BY <1>2 DEF PagesSound, PagesTypeOK
  <1>6. ASSUME q \in Granted(r) PROVE ~ BitOf(q) /\ BitOf(q)' /\ owners'[q] = 1
    <2>1. owners'[q] # 0
      BY <1>3, <1>5, <1>6
    <2>2. owners'[q] = 1 /\ BitOf(q)'
      BY <1>2, <2>1 DEF PagesSound, BitsTell, BitOf
    <2>3. PICK j \in 0 .. Pages(r.pool) - 1 : q = PageOf(r.pool, j)
      BY <1>1, <1>6
    <2>4. /\ PageOf(r.pool, j) - Start(r.pool) - 1 = j
          /\ \A u \in Pool : \A k \in 0 .. Pages(u) - 1 :
               PageOf(u, k) = PageOf(r.pool, j) => u = r.pool /\ k = j
      BY <1>1, OnePage
    <2>5. ~ bits[r.pool][j]
      BY <1>3, <1>6, <2>3, <2>4
    <2>6. ~ BitOf(q)
      BY <2>3, <2>4, <2>5 DEF BitOf
    <2> QED
      BY <2>2, <2>6
  <1>7. q \notin Granted(r) => owners'[q] = owners[q]
    BY <1>3
  <1> QED
    BY <1>4, <1>6, <1>7 DEF r

(* Steps that leave the heap alone and the pages of its arenas taken.       *)
LEMMA SoundKept ==
  ASSUME Sound(link, arena, owners, held), link' = link, arena' = arena, held' = held,
         \A p \in Page : arena[p] # None => owners'[p] = owners[p]
  PROVE  Sound(link', arena', owners', held')
  <1>1. \A c \in Class : FreeBlocks(arena, owners', held, c) = FreeBlocks(arena, owners, held, c)
    BY PageOfBlock DEF FreeBlocks, InArena
  <1>2. [c \in Class |-> FreeBlocks(arena, owners', held, c)]
          = [c \in Class |-> FreeBlocks(arena, owners, held, c)]
    BY <1>1
  <1>3. AllHold(link, [c \in Class |-> FreeBlocks(arena, owners', held, c)])
    BY <1>2 DEF Sound
  <1>4. \A b \in Block : held[b] # 0 => held[b] = 1 /\ InArena(arena, b) /\ owners'[b[1]] = 1
    BY PageOfBlock DEF Sound, InArena
  <1>5. \A p \in Page : arena[p] # None /\ owners'[p] = 1
          => arena[p].free = Cardinality({b \in Blocks(p, arena[p].class) : held[b] = 0})
    BY DEF Sound
  <1>6. Sound(link, arena, owners', held)
    BY <1>3, <1>4, <1>5 DEF Sound
  <1> QED
    BY <1>6

(* init_heap: every free list is empty.                                    *)
LEMMA HeapInitSound ==
  ASSUME PagesInit, HeapInit
  PROVE  HeapSound
  <1>1. link \in FreeLists
    BY HeapInitTyped DEF HeapTypeOK
  <1>2. \A p \in Page : arena[p] = None
    BY DEF HeapInit
  <1>3. \A b \in Block : held[b] = 0 /\ ~ InArena(arena, b)
    BY <1>2, PageOfBlock DEF HeapInit, InArena
  <1>4. \A c \in Class : FreeBlocks(arena, owners, held, c) = {}
    BY <1>3 DEF FreeBlocks
  <1>5. ASSUME NEW c \in Class PROVE Holds(link, c, {})
    <2> DEFINE w == [i \in 0 .. 0 + 1 |-> IF i = 0 THEN HeadOf(c) ELSE TailOf(c)]
               h == HeadOf(c)
               e == TailOf(c)
    <2>1. h \in Node /\ e \in Node /\ h # e
      BY Ends
    <2>2. h[1] = c /\ h[2] = -2 /\ e[1] = c /\ e[2] = -1
      BY DEF HeadOf, TailOf
    <2>3. link.size[c] = 0
      BY DEF HeapInit
    <2>4. link.next[h] = e
      <3>1. link.next[h] = IF h[2] = -2 THEN TailOf(h[1]) ELSE Null
        BY <2>1 DEF HeapInit
      <3> HIDE DEF h, e
      <3> QED
        BY <2>2, <3>1 DEF e
    <2>5. link.prev[e] = h
      <3>1. link.prev[e] = IF e[2] = -1 THEN HeadOf(e[1]) ELSE Null
        BY <2>1 DEF HeapInit
      <3> HIDE DEF h, e
      <3> QED
        BY <2>2, <3>1 DEF h
    <2>6. w[0] = h /\ w[0 + 1] = e /\ w = [i \in 0 .. 0 + 1 |-> w[i]]
      OBVIOUS
    <2>7. \A i \in 0 .. 0 + 1 : i = 0 \/ i = 0 + 1
      OBVIOUS
    <2>8. \A i \in 0 .. 0 : i = 0
      OBVIOUS
    <2> HIDE DEF w, h, e
    <2>9. \A i, j \in 0 .. 0 + 1 : w[i] = w[j] => i = j
      BY <2>1, <2>6, <2>7
    <2>10. \A i \in 0 .. 0 : link.next[w[i]] = w[i + 1] /\ link.prev[w[i + 1]] = w[i]
      BY <2>4, <2>5, <2>6, <2>8
    <2>11. Chain(link.next, link.prev, w, 0)
      BY <2>6, <2>9, <2>10 DEF Chain
    <2>12. {} = {w[i] : i \in 1 .. 0}
      OBVIOUS
    <2> QED
      BY <2>3, <2>6, <2>11, <2>12 DEF Holds, h, e
  <1>6. AllHold(link, [c \in Class |-> FreeBlocks(arena, owners, held, c)])
    <2> DEFINE F == [c \in Class |-> FreeBlocks(arena, owners, held, c)]
    <2>1. F \in [Class -> SUBSET Block] /\ \A c \in Class : F[c] = {}
      BY <1>4
    <2> HIDE DEF F
    <2>2. AllHold(link, F)
      BY <1>1, <1>5, <2>1 DEF AllHold
    <2> QED
      BY <2>2 DEF F
  <1>7. Sound(link, arena, owners, held)
    BY <1>2, <1>3, <1>6 DEF Sound
  <1> QED
    BY <1>2, <1>7 DEF HeapSound

(* kmalloc from a free list that is not empty.                             *)
LEMMA KmallocTakes ==
  ASSUME PagesSound, HeapTypeOK, HeapSound, Sane, NEW t \in Thread, NEW c \in Class, Kmalloc(t, c)
  PROVE  /\ Sound(link', arena', owners', held') /\ wild' = wild
         /\ \A p \in Page : arena'[p] # None => BitOf(p)'
  <1>0. /\ Sound(link, arena, owners, held) /\ \A p \in Page : arena[p] # None => BitOf(p)
        /\ overlaid = {} /\ ~ wild
        /\ arena \in [Page -> Arena \cup {None}] /\ owners \in [Page -> Nat]
    BY DEF Sane, HeapSound, HeapTypeOK, PagesSound, PagesTypeOK
  <1>1. /\ link.size[c] # 0 /\ Take(c, link, arena)
        /\ bits' = bits /\ owners' = owners
    BY DEF Kmalloc, pageVars
  <1>2. FreeBlocks(arena, owners, held, c) # {}
    <2> DEFINE F == [d \in Class |-> FreeBlocks(arena, owners, held, d)]
    <2>1. AllHold(link, F) /\ F[c] = FreeBlocks(arena, owners, held, c)
      BY <1>0 DEF Sound
    <2> HIDE DEF F
    <2>2. link.next[HeadOf(c)] \in F[c]
      BY <1>1, <2>1, FirstHeld
    <2> QED
      BY <2>1, <2>2
  <1>3. /\ Sound(link', arena', owners, held') /\ wild' = wild
        /\ \A p \in Page : arena'[p] # None => arena[p] # None
    BY <1>0, <1>1, <1>2, TakeSound
  <1>4. \A p \in Page : BitOf(p) => BitOf(p)'
    BY <1>1 DEF BitOf
  <1> QED
    BY <1>0, <1>1, <1>3, <1>4

(* kmalloc with a new page for its class.                                  *)
LEMMA KmallocFills ==
  ASSUME PagesSound, HeapTypeOK, Fetching, HeapSound, Sane, overlaid' = {},
         NEW t \in Thread, KmallocFill(t), Granted(request[t]) # {}
  PROVE  /\ Sound(link', arena', owners', held') /\ wild' = wild
         /\ \A p \in Page : arena'[p] # None => BitOf(p)'
  <1>0. /\ Sound(link, arena, owners, held) /\ \A p \in Page : arena[p] # None => BitOf(p)
        /\ overlaid = {} /\ ~ wild
        /\ arena \in [Page -> Arena \cup {None}] /\ owners \in [Page -> Nat]
    BY DEF Sane, HeapSound, HeapTypeOK, PagesSound, PagesTypeOK
  <1> DEFINE r == request[t]
             c == r.class
             p == CHOOSE q \in Granted(r) : TRUE
             a == [arena EXCEPT ![p] = [class |-> c, free |-> ArenaSize[c]]]
             l == Filled(link, p, c)
  <1>1. /\ r # None /\ c # None /\ Flip(t) /\ Granted(r) # {} /\ Take(c, l, a)
    BY <1>0 DEF KmallocFill
  <1>2. c \in Class
    BY <1>1 DEF PagesSound, PagesTypeOK, Request
  <1>3. p \in Granted(r) /\ p \in Page
    BY <1>1, GrantedInPage
  <1>4. \A q \in Granted(r) : q = p
    <2>1. r.pages = 1
      BY <1>1 DEF Fetching
    <2>2. \A q \in Granted(r) : \E i \in 0 .. 1 - 1 : q = Start(r.pool) + 1 + r.index + i
      BY <2>1 DEF Granted
    <2>3. \A i \in 0 .. 1 - 1 : i = 0
      OBVIOUS
    <2> HIDE DEF r, p
    <2> QED
      BY <1>3, <2>2, <2>3
  <1>5. ASSUME NEW q \in Page
        PROVE  /\ BitOf(q) => BitOf(q)'
               /\ q \in Granted(r) => ~ BitOf(q) /\ BitOf(q)' /\ owners'[q] = 1
               /\ q \notin Granted(r) => owners'[q] = owners[q]
    BY <1>0, <1>1, FlipTakes
  <1> HIDE DEF r, c, p
  <1>6. arena[p] = None /\ owners'[p] = 1 /\ \A q \in Page : q # p => owners'[q] = owners[q]
    BY <1>0, <1>3, <1>4, <1>5
  <1>7. /\ a \in [Page -> Arena \cup {None}]
        /\ Sound(l, a, owners', held)
        /\ FreeBlocks(a, owners', held, c) # {}
        /\ \A q \in Page : q # p => a[q] = arena[q]
    BY <1>0, <1>2, <1>3, <1>6, FillSound
  <1> HIDE DEF a, l
  <1>8. /\ Sound(link', arena', owners', held') /\ wild' = wild
        /\ \A q \in Page : arena'[q] # None => a[q] # None
    BY <1>1, <1>2, <1>7, TakeSound
  <1>9. \A q \in Page : a[q] # None => BitOf(q)'
    BY <1>0, <1>3, <1>5, <1>7
  <1> QED
    BY <1>8, <1>9

(* Every step keeps the free lists and the arenas in order, as long as      *)
(* nothing has gone wrong.                                                 *)
LEMMA HeapStepSound ==
  ASSUME PagesSound, HeapTypeOK, Fetching, HeapSound, [Next]_vars
  PROVE  HeapSound'
  <1> SUFFICES ASSUME Sane'
               PROVE  /\ Sound(link', arena', owners', held')
                      /\ \A p \in Page : arena'[p] # None => BitOf(p)'
    BY DEF HeapSound
  <1>0. /\ arena \in [Page -> Arena \cup {None}] /\ owners \in [Page -> Nat]
        /\ partly' = 0 /\ ~ wild' /\ overlaid' = {} /\ partly \in Nat
    BY HeapAssumption DEF Sane, HeapTypeOK, PagesSound, PagesTypeOK
  <1> DEFINE Goal == /\ Sound(link', arena', owners', held')
                     /\ \A p \in Page : arena'[p] # None => BitOf(p)'
  <1>1. CASE UNCHANGED vars
    <2>1. /\ link' = link /\ arena' = arena /\ owners' = owners /\ held' = held /\ bits' = bits
          /\ partly' = partly /\ wild' = wild /\ overlaid' = overlaid
      BY <1>1 DEF vars, heapVars, pageVars
    <2>2. Sane /\ Sound(link, arena, owners, held) /\ \A p \in Page : arena[p] # None => BitOf(p)
      BY <1>0, <2>1 DEF HeapSound, Sane
    <2> QED
      BY <2>1, <2>2 DEF BitOf
  <1> SUFFICES ASSUME Next PROVE Goal
    BY <1>1
  <1>2. CASE \E b \in Block : Kfree(b)
    BY <1>0, <1>2 DEF Kfree
  <1> SUFFICES ASSUME ~ \E b \in Block : Kfree(b) PROVE Goal
    BY <1>2
  <1>3. Alive /\ partly' = partly
    <2>1. ASSUME NEW t \in Thread, NEW c \in Class, Kmalloc(t, c) PROVE Alive /\ partly' = partly
      BY <2>1 DEF Kmalloc, Idle
    <2>2. ASSUME NEW t \in Thread, NEW c \in Class, KmallocGrow(t, c) PROVE Alive /\ partly' = partly
      BY <2>2 DEF KmallocGrow, Idle
    <2>3. ASSUME NEW t \in Thread, KmallocFill(t) PROVE Alive /\ partly' = partly
      BY <2>3 DEF KmallocFill
    <2>4. ASSUME NEW b \in Block, KfreeLast(b) PROVE Alive /\ partly' = partly
      BY <2>4 DEF KfreeLast
    <2>5. PagesNext => Alive /\ partly' = partly
      BY DEF PagesNext, heapVars
    <2> QED
      BY <2>1, <2>2, <2>3, <2>4, <2>5 DEF Next
  <1>4. /\ Sound(link, arena, owners, held) /\ \A p \in Page : arena[p] # None => BitOf(p)
        /\ overlaid = {} /\ ~ wild /\ Sane
    BY <1>0, <1>3 DEF Alive, Sane, HeapSound
  <1>5. ASSUME link' = link, arena' = arena, held' = held,
               \A p \in Page : arena[p] # None => owners'[p] = owners[p] /\ BitOf(p)'
        PROVE  Goal
    BY <1>4, <1>5, SoundKept
  <1>6. ASSUME NEW t \in Thread, NEW c \in Class, Kmalloc(t, c) PROVE Goal
    BY <1>4, <1>6, KmallocTakes
  <1>7. ASSUME NEW t \in Thread, NEW c \in Class, KmallocGrow(t, c) PROVE Goal
    <2>1. /\ link' = link /\ arena' = arena /\ held' = held /\ owners' = owners /\ bits' = bits
      BY <1>7 DEF KmallocGrow, Scan
    <2>2. \A p \in Page : BitOf(p) => BitOf(p)'
      BY <2>1 DEF BitOf
    <2> QED
      BY <1>4, <1>5, <2>1, <2>2
  <1>8. ASSUME NEW t \in Thread, KmallocFill(t) PROVE Goal
    <2>1. Granted(request[t]) # {}
      BY <1>0, <1>8 DEF KmallocFill
    <2> QED
      BY <1>0, <1>4, <1>8, <2>1, KmallocFills
  <1>9. ASSUME NEW b \in Block, KfreeLast(b) PROVE Goal
    <2>1. /\ Sound(link', arena', owners', held')
          /\ \A q \in Page : arena'[q] # None => arena[q] # None
          /\ PageFree(b[1])
      BY <1>0, <1>4, <1>9, FreeSound
    <2>2. bits' = bits
      BY <2>1, PageOfBlock, NothingFreed DEF PageFree, PagesSound
    <2>3. \A p \in Page : BitOf(p) => BitOf(p)'
      BY <2>2 DEF BitOf
    <2> QED
      BY <1>4, <2>1, <2>3
  <1>10. CASE PagesNext
    <2>1. link' = link /\ arena' = arena /\ held' = held
      BY <1>10 DEF PagesNext, heapVars
    <2>2. ASSUME NEW t \in Thread, NEW pool \in Pool, NEW n \in 1 .. MaxRun, PageAllocate(t, pool, n)
          PROVE  Goal
      <3>1. bits' = bits /\ owners' = owners
        BY <2>2 DEF PageAllocate, Scan
      <3>2. \A p \in Page : BitOf(p) => BitOf(p)'
        BY <3>1 DEF BitOf
      <3> QED
        BY <1>4, <1>5, <2>1, <3>1, <3>2
    <2>3. ASSUME NEW t \in Thread, PageAllocated(t) PROVE Goal
      <3>1. request[t] # None /\ Flip(t)
        BY <2>3 DEF PageAllocated
      <3>2. ASSUME NEW q \in Page, arena[q] # None
            PROVE  owners'[q] = owners[q] /\ BitOf(q)'
        BY <1>0, <1>4, <3>1, <3>2, FlipTakes
      <3> QED
        BY <1>5, <2>1, <3>2
    <2>4. ASSUME NEW p \in Page, arena[p] = None, PageFree(p) PROVE Goal
      <3>1. bits' = bits
        BY <2>4, NothingFreed DEF PageFree, PagesSound
      <3>2. \A q \in Page : q # p => owners'[q] = owners[q]
        BY <1>0, <2>4 DEF PageFree
      <3>3. \A q \in Page : BitOf(q) => BitOf(q)'
        BY <3>1 DEF BitOf
      <3> QED
        BY <1>4, <1>5, <2>1, <2>4, <3>2, <3>3
    <2> QED
      BY <1>10, <2>2, <2>3, <2>4 DEF PagesNext
  <1> QED
    BY <1>6, <1>7, <1>8, <1>9, <1>10 DEF Next

-----------------------------------------------------------------------------

(* A sequence between two elements.                                        *)
LEMMA Bracketed ==
  ASSUME NEW n \in Nat, NEW v, NEW U, NEW s \in Seq(U), Len(s) = n,
         \A i \in 1 .. n : s[i] = v[i],
         NEW w, w = <<v[0]>> \o s \o <<v[n + 1]>>
  PROVE  /\ DOMAIN w = 1 .. n + 2 /\ Len(w) = n + 2
         /\ \A i \in 1 .. n + 2 : w[i] = v[i - 1]
  <1> DEFINE V == {v[i] : i \in 0 .. n + 1}
             h == <<v[0]>>
             e == <<v[n + 1]>>
             hs == h \o s
  <1>1. \A i \in 0 .. n + 1 : v[i] \in V
    OBVIOUS
  <1>2. 0 \in 0 .. n + 1 /\ n + 1 \in 0 .. n + 1 /\ \A i \in 1 .. n : i \in 0 .. n + 1
    OBVIOUS
  <1> HIDE DEF V
  <1>3. s \in Seq(V) /\ Len(s) = n
    <2>1. s \in [1 .. n -> U]
      BY LenProperties, Zenon
    <2>2. s \in [1 .. n -> V]
      BY <1>1, <1>2, <2>1
    <2> QED
      BY <2>2
  <1>4. h \in Seq(V) /\ Len(h) = 1 /\ h[1] = v[0]
    BY <1>1, <1>2
  <1>5. e \in Seq(V) /\ Len(e) = 1 /\ e[1] = v[n + 1]
    BY <1>1, <1>2
  <1> HIDE DEF h, e
  <1>6. /\ hs \in Seq(V) /\ Len(hs) = 1 + n
        /\ \A i \in 1 .. 1 + n : hs[i] = IF i <= 1 THEN h[i] ELSE s[i - 1]
    <2>1. /\ h \o s \in Seq(V) /\ Len(h \o s) = Len(h) + Len(s)
          /\ \A i \in 1 .. Len(h) + Len(s) :
               (h \o s)[i] = IF i <= Len(h) THEN h[i] ELSE s[i - Len(h)]
      BY <1>3, <1>4, ConcatProperties, Zenon
    <2> QED
      BY <1>3, <1>4, <2>1
  <1> HIDE DEF hs
  <1>7. /\ hs \o e \in Seq(V) /\ Len(hs \o e) = 1 + n + 1
        /\ \A i \in 1 .. 1 + n + 1 : (hs \o e)[i] = IF i <= 1 + n THEN hs[i] ELSE e[i - (1 + n)]
    <2>1. /\ hs \o e \in Seq(V) /\ Len(hs \o e) = Len(hs) + Len(e)
          /\ \A i \in 1 .. Len(hs) + Len(e) :
               (hs \o e)[i] = IF i <= Len(hs) THEN hs[i] ELSE e[i - Len(hs)]
      BY <1>5, <1>6, ConcatProperties, Zenon
    <2> QED
      BY <1>5, <1>6, <2>1
  <1>8. w = hs \o e
    BY DEF hs, h, e
  <1>9. DOMAIN w = 1 .. n + 2 /\ Len(w) = n + 2
    <2>1. w \in Seq(V) /\ Len(w) = 1 + n + 1 /\ 1 + n + 1 = n + 2
      <3>1. w \in Seq(V) /\ Len(w) = 1 + n + 1
        BY <1>7, <1>8, Zenon
      <3> QED
        BY <3>1
    <2>2. DOMAIN w = 1 .. Len(w)
      BY <2>1, LenProperties, Zenon
    <2> QED
      BY <2>1, <2>2
  <1>10. ASSUME NEW i \in 1 .. n + 2 PROVE w[i] = v[i - 1]
    <2>1. i \in 1 .. 1 + n + 1
      OBVIOUS
    <2>2. CASE i = 1
      <3>1. 1 \in 1 .. 1 + n /\ 1 <= 1 + n
        OBVIOUS
      <3> QED
        BY <1>4, <1>6, <1>7, <1>8, <2>1, <2>2, <3>1
    <2>3. CASE i = n + 2
      <3>1. ~ (i <= 1 + n) /\ i - (1 + n) = 1 /\ i - 1 = n + 1
        BY <2>3
      <3> QED
        BY <1>5, <1>7, <1>8, <2>1, <3>1
    <2>4. CASE i # 1 /\ i # n + 2
      <3>1. i \in 1 .. 1 + n /\ i <= 1 + n /\ ~ (i <= 1) /\ i - 1 \in 1 .. n
        BY <2>4
      <3>2. w[i] = s[i - 1]
        BY <1>6, <1>7, <1>8, <2>1, <3>1
      <3> QED
        BY <3>1, <3>2
    <2> QED
      BY <2>2, <2>3, <2>4
  <1> QED
    BY <1>9, <1>10

(* A free list that holds a set is walked along its chain, and met node by  *)
(* node.                                                                   *)
LEMMA HeldWalked ==
  ASSUME NEW c \in Class, NEW S, S \subseteq Block, Holds(link, c, S)
  PROVE  LET w == <<HeadOf(c)>> \o Walk(c) \o <<TailOf(c)>> IN
         /\ IsInjective(w)
         /\ \A i \in 1 .. Len(w) - 1 : link.next[w[i]] = w[i + 1] /\ link.prev[w[i + 1]] = w[i]
         /\ \A i \in 2 .. Len(w) - 1 : w[i] \in S
         /\ ToSet(Walk(c)) = S
  <1> DEFINE n == link.size[c]
             w == <<HeadOf(c)>> \o Walk(c) \o <<TailOf(c)>>
  <1>1. PICK v : /\ Chain(link.next, link.prev, v, n) /\ v[0] = HeadOf(c) /\ v[n + 1] = TailOf(c)
                 /\ S = {v[i] : i \in 1 .. n}
    BY DEF Holds
  <1>2. /\ n \in Nat /\ \A i, j \in 0 .. n + 1 : v[i] = v[j] => i = j
        /\ \A i \in 0 .. n : link.next[v[i]] = v[i + 1] /\ link.prev[v[i + 1]] = v[i]
    BY <1>1 DEF Chain
  <1>3. Walk(c) = [i \in 1 .. n |-> v[i]]
    <2> DEFINE nx == link.next
               pv == link.prev
               first == nx[HeadOf(c)]
    <2>1. n # 0 => first = v[1]
      <3>1. 0 \in 0 .. n /\ 0 + 1 = 1
        BY <1>2
      <3> QED
        BY <1>1, <1>2, <3>1
    <2>2. Walk(c) = Followed(nx, first, n)
      BY DEF Walk, Followed
    <2>3. Chain(nx, pv, v, n)
      BY <1>1
    <2> HIDE DEF n, first, nx, pv
    <2> QED
      BY <2>1, <2>2, <2>3, ChainFollowed
  <1> HIDE DEF n
  <1>4. w = <<v[0]>> \o Walk(c) \o <<v[n + 1]>>
    BY <1>1
  <1> HIDE DEF w
  <1>5. /\ DOMAIN w = 1 .. n + 2 /\ Len(w) = n + 2
        /\ \A i \in 1 .. n + 2 : w[i] = v[i - 1]
    <2> DEFINE U == {v[i] : i \in 1 .. n}
               s == Walk(c)
    <2>1. \A i \in 1 .. n : v[i] \in U
      OBVIOUS
    <2> HIDE DEF U
    <2>2. s \in Seq(U) /\ Len(s) = n /\ \A i \in 1 .. n : s[i] = v[i]
      BY <1>2, <1>3, <2>1
    <2>3. w = <<v[0]>> \o s \o <<v[n + 1]>>
      BY <1>4
    <2>4. n \in Nat
      BY <1>2
    <2> HIDE DEF s
    <2>5. s \in Seq(U) /\ Len(s) = n /\ (\A i \in 1 .. n : s[i] = v[i])
      BY <2>2
    <2> QED
      BY <2>3, <2>4, <2>5, Bracketed, SMTT(60)
  <1>6. IsInjective(w)
    <2>1. \A i \in 1 .. n + 2 : i - 1 \in 0 .. n + 1
      BY <1>2
    <2>2. ASSUME NEW i \in 1 .. n + 2, NEW j \in 1 .. n + 2, w[i] = w[j] PROVE i = j
      <3>1. i - 1 = j - 1
        <4>1. i - 1 \in 0 .. n + 1 /\ j - 1 \in 0 .. n + 1
          BY <2>1
        <4>2. v[i - 1] = v[j - 1]
          BY <1>5, <2>2
        <4> QED
          BY <1>2, <4>1, <4>2, Zenon
      <3> QED
        BY <1>2, <3>1
    <2> QED
      BY <1>5, <2>2 DEF IsInjective
  <1>7. ASSUME NEW i \in 1 .. Len(w) - 1
        PROVE  link.next[w[i]] = w[i + 1] /\ link.prev[w[i + 1]] = w[i]
    <2>1. i \in 1 .. n + 2 /\ i + 1 \in 1 .. n + 2 /\ i - 1 \in 0 .. n /\ (i + 1) - 1 = (i - 1) + 1
      BY <1>2, <1>5
    <2>2. w[i] = v[i - 1] /\ w[i + 1] = v[(i - 1) + 1]
      BY <1>5, <2>1
    <2> QED
      BY <1>2, <2>1, <2>2
  <1>8. ASSUME NEW i \in 2 .. Len(w) - 1 PROVE w[i] \in S
    <2>1. i \in 1 .. n + 2 /\ i - 1 \in 1 .. n
      BY <1>2, <1>5
    <2> QED
      BY <1>1, <1>5, <2>1
  <1>9. ToSet(Walk(c)) = S
    BY <1>1, <1>3 DEF ToSet
  <1> QED
    BY <1>6, <1>7, <1>8, <1>9 DEF w

(* The inductive invariant of the heap.                                    *)
HeapInv == PagesSound /\ HeapTypeOK /\ Fetching /\ HeapSound

LEMMA HeapStep ==
  ASSUME HeapInv, [Next]_vars
  PROVE  HeapInv'
  BY PagesStep, HeapStepTyped, FetchingStep, HeapStepSound DEF HeapInv

LEMMA FreeListsInOrder == HeapInv => FreeListsSound
  <1> SUFFICES ASSUME HeapInv, Sane
               PROVE  /\ \A c \in Class :
                           LET w == <<HeadOf(c)>> \o Walk(c) \o <<TailOf(c)>> IN
                           /\ IsInjective(w)
                           /\ \A i \in 1 .. Len(w) - 1 : link.next[w[i]] = w[i + 1] /\ link.prev[w[i + 1]] = w[i]
                           /\ \A i \in 2 .. Len(w) - 1 : w[i] \in Block /\ arena[w[i][1]].class = c
                      /\ \A p \in Page : arena[p] # None =>
                           LET blocks == Blocks(p, arena[p].class)
                               free   == blocks \cap ToSet(Walk(arena[p].class))
                           IN  /\ \A b \in blocks : held[b] = IF b \in free \/ owners[p] = 0 THEN 0 ELSE 1
                               /\ owners[p] = 1 => arena[p].free = Cardinality(free)
    BY DEF FreeListsSound, Sane
  <1>1. Sound(link, arena, owners, held) /\ HeapTypeOK /\ PagesSound /\ overlaid = {}
    BY DEF HeapInv, HeapSound, Sane
  <1>2. \A c \in Class : Holds(link, c, FreeBlocks(arena, owners, held, c))
    <2> SUFFICES ASSUME NEW c \in Class PROVE Holds(link, c, FreeBlocks(arena, owners, held, c))
      OBVIOUS
    <2> DEFINE F == [d \in Class |-> FreeBlocks(arena, owners, held, d)]
    <2>1. AllHold(link, F) /\ F[c] = FreeBlocks(arena, owners, held, c)
      BY <1>1 DEF Sound
    <2> HIDE DEF F
    <2> QED
      BY <2>1 DEF AllHold
  <1>3. \A c \in Class : FreeBlocks(arena, owners, held, c) \subseteq Block
    BY DEF FreeBlocks
  <1>4. ASSUME NEW c \in Class
        PROVE  LET w == <<HeadOf(c)>> \o Walk(c) \o <<TailOf(c)>> IN
               /\ IsInjective(w)
               /\ \A i \in 1 .. Len(w) - 1 : link.next[w[i]] = w[i + 1] /\ link.prev[w[i + 1]] = w[i]
               /\ \A i \in 2 .. Len(w) - 1 : w[i] \in Block /\ arena[w[i][1]].class = c
    <2> DEFINE w == <<HeadOf(c)>> \o Walk(c) \o <<TailOf(c)>>
    <2>1. /\ IsInjective(w)
          /\ \A i \in 1 .. Len(w) - 1 : link.next[w[i]] = w[i + 1] /\ link.prev[w[i + 1]] = w[i]
          /\ \A i \in 2 .. Len(w) - 1 : w[i] \in FreeBlocks(arena, owners, held, c)
      BY <1>2, <1>3, HeldWalked
    <2> HIDE DEF w
    <2>2. \A b \in FreeBlocks(arena, owners, held, c) : b \in Block /\ arena[b[1]].class = c
      BY DEF FreeBlocks
    <2>3. \A i \in 2 .. Len(w) - 1 : w[i] \in Block /\ arena[w[i][1]].class = c
      BY <2>1, <2>2
    <2> QED
      BY <2>1, <2>3 DEF w
  <1>5. ASSUME NEW p \in Page, arena[p] # None
        PROVE  LET blocks == Blocks(p, arena[p].class)
                   free   == blocks \cap ToSet(Walk(arena[p].class))
               IN  /\ \A b \in blocks : held[b] = IF b \in free \/ owners[p] = 0 THEN 0 ELSE 1
                   /\ owners[p] = 1 => arena[p].free = Cardinality(free)
    <2> DEFINE c == arena[p].class
               blocks == Blocks(p, c)
               free == blocks \cap ToSet(Walk(c))
    <2>1. c \in Class
      <3>1. arena[p] \in Arena
        BY <1>1, <1>5 DEF HeapTypeOK
      <3> QED
        BY <3>1 DEF Arena
    <2>2. \A b \in blocks : b \in Block /\ b[1] = p
      BY <2>1, ArenaBlocks
    <2>3. ToSet(Walk(c)) = FreeBlocks(arena, owners, held, c)
      BY <1>2, <1>3, <2>1, HeldWalked
    <2>4. owners[p] \in Nat /\ (owners[p] # 0 => owners[p] = 1)
      BY <1>1 DEF PagesSound, PagesTypeOK, BitsTell
    <2>5. \A b \in blocks : b \in free <=> owners[p] = 1 /\ held[b] = 0
      BY <1>5, <2>2, <2>3 DEF FreeBlocks, InArena
    <2>6. ASSUME NEW b \in blocks
          PROVE  held[b] = IF b \in free \/ owners[p] = 0 THEN 0 ELSE 1
      <3>1. b \in Block /\ b[1] = p
        BY <2>2
      <3>2. held[b] # 0 => held[b] = 1 /\ owners[p] = 1
        BY <1>1, <3>1 DEF Sound
      <3>3. b \in free <=> owners[p] = 1 /\ held[b] = 0
        BY <2>5
      <3> HIDE DEF free, blocks
      <3> QED
        BY <2>4, <3>2, <3>3
    <2>7. ASSUME owners[p] = 1 PROVE arena[p].free = Cardinality(free)
      <3>1. arena[p].free = Cardinality({b \in blocks : held[b] = 0})
        BY <1>1, <1>5, <2>7 DEF Sound
      <3>2. free = {b \in blocks : held[b] = 0}
        <4>1. free \subseteq blocks
          OBVIOUS
        <4> HIDE DEF free, blocks
        <4> QED
          BY <2>5, <2>7, <4>1
      <3> QED
        BY <3>1, <3>2
    <2> QED
      BY <2>6, <2>7
  <1> QED
    BY <1>4, <1>5

(* A pointer that leads nowhere is followed only after kfree has pushed a   *)
(* block twice, after two allocations have met, or when the kernel's pool  *)
(* has no page left.                                                       *)
LEMMA WildStep ==
  ASSUME HeapInv, [Next]_vars, wild', ~ (partly' > 0), overlaid' = {}
  PROVE  /\ partly = 0 /\ overlaid = {} /\ held' = held
         /\ WildHasCause => \A i \in DOMAIN bits'["kernel"] : bits'["kernel"][i]
  <1> DEFINE Full == \A i \in DOMAIN bits["kernel"] : bits["kernel"][i]
             Goal == /\ partly = 0 /\ overlaid = {} /\ held' = held
                     /\ WildHasCause => Full'
  <1>0. PagesSound /\ HeapTypeOK /\ Fetching /\ HeapSound /\ partly \in Nat
    BY HeapAssumption DEF HeapInv, HeapTypeOK
  <1>1. CASE UNCHANGED vars
    <2>1. /\ wild' = wild /\ partly' = partly /\ overlaid' = overlaid /\ bits' = bits
          /\ held' = held
      BY <1>1 DEF vars, heapVars, pageVars
    <2> QED
      BY <1>0, <2>1 DEF WildHasCause
  <1> SUFFICES ASSUME Next PROVE Goal
    BY <1>1
  <1>2. CASE \E b \in Block : Kfree(b)
    BY <1>0, <1>2 DEF Kfree
  <1>3. ASSUME Alive, partly' = partly PROVE Sane
    BY <1>0, <1>3 DEF Sane, Alive
  <1>4. ASSUME NEW t \in Thread, NEW c \in Class, Kmalloc(t, c) PROVE FALSE
    <2>1. Sane
      BY <1>3, <1>4 DEF Kmalloc, Idle
    <2> QED
      BY <1>0, <1>4, <2>1, KmallocTakes DEF Sane
  <1>5. ASSUME NEW t \in Thread, NEW c \in Class, KmallocGrow(t, c) PROVE FALSE
    BY <1>5 DEF KmallocGrow, Idle, Alive
  <1>6. ASSUME NEW t \in Thread, KmallocFill(t) PROVE Goal
    <2> DEFINE r == request[t]
    <2>1. Sane
      BY <1>3, <1>6 DEF KmallocFill
    <2>2. r # None /\ r.pool = "kernel" /\ r.pages = 1 /\ Flip(t)
      BY <1>0, <1>6 DEF KmallocFill, Fetching
    <2>3. Granted(r) = {}
      BY <1>0, <1>6, <2>1, KmallocFills DEF Sane
    <2>4. r.index = NPOS
      <3>1. 0 \in 0 .. 1 - 1
        OBVIOUS
      <3> QED
        BY <2>2, <2>3, <3>1 DEF Granted
    <2>5. bits' = bits /\ held' = held
      BY <1>6, <2>2, <2>3, <2>4 DEF Flip, KmallocFill
    <2>6. bits["kernel"] \in [0 .. Pages("kernel") - 1 -> BOOLEAN]
      BY <1>0 DEF PagesSound, PagesTypeOK, Pool
    <2>7. ASSUME NEW i \in 0 .. Pages("kernel") - 1, ~ bits["kernel"][i] PROVE FALSE
      <3>1. \A k \in i .. i + 1 - 1 : k = i
        OBVIOUS
      <3>2. Fits(bits["kernel"], i, 1, FALSE)
        BY <2>6, <2>7, <3>1 DEF Fits
      <3> QED
        BY <1>0, <2>1, <2>2, <2>4, <3>2 DEF PagesSound, AnswerSound, Sane
    <2> QED
      BY <2>1, <2>5, <2>6, <2>7 DEF Sane
  <1>7. ASSUME NEW b \in Block, KfreeLast(b) PROVE FALSE
    <2>1. Sane
      BY <1>3, <1>7 DEF KfreeLast
    <2>2. owners \in [Page -> Nat] /\ Sound(link, arena, owners, held)
      BY <1>0, <2>1 DEF HeapSound, PagesSound, PagesTypeOK
    <2> QED
      BY <1>0, <1>7, <2>1, <2>2, FreeSound DEF Sane
  <1>8. CASE PagesNext
    BY <1>8 DEF PagesNext, Alive, heapVars
  <1> QED
    BY <1>2, <1>4, <1>5, <1>6, <1>7, <1>8 DEF Next

-----------------------------------------------------------------------------

(* The inductive invariant of the heap.                                    *)
THEOREM HeapKept == Spec => []HeapInv
  <1>1. Init => HeapInv
    BY PagesInitSound, HeapInitTyped, HeapInitSound DEF Init, HeapInv
  <1>2. HeapInv /\ [Next]_vars => HeapInv'
    BY HeapStep
  <1> QED
    BY <1>1, <1>2, PTL DEF Spec

(* Every variable of the heap stays in its range, for pools, classes and   *)
(* arenas of any number and size: the pointers of the free lists lead to   *)
(* nodes even after kfree has pushed blocks twice, and the lock of a class *)
(* is held by the thread in kmalloc that fetches a page for it.            *)
THEOREM MemoryTyped == Spec => []MemoryTypeOK
  <1>1. HeapInv => MemoryTypeOK
    BY DEF HeapInv, MemoryTypeOK, PagesSound, PagesTypeOK, HeapTypeOK, FreeLists, Fetching
  <1> QED
    BY <1>1, HeapKept, PTL

(* As long as no kfree has left its arena partly in use, kmalloc and kfree *)
(* keep every free list whole and every free_count right.                  *)
THEOREM FreeListsRight == Spec => []FreeListsSound
  BY HeapKept, FreeListsInOrder, PTL

(* kmalloc and kfree follow no pointer that leads nowhere, but for the     *)
(* three causes.                                                           *)
THEOREM WildCaused == Spec => []WildHasCause
  <1>1. Init => WildHasCause
    BY DEF Init, HeapInit, WildHasCause
  <1>2. HeapInv /\ WildHasCause /\ [Next]_vars => WildHasCause'
    BY WildStep DEF WildHasCause
  <1> QED
    BY <1>1, <1>2, HeapKept, PTL DEF Spec

(* No page and no block has two holders before one of the causes: page and *)
(* block allocation never answer the same twice but after two allocations  *)
(* of one page, and kmalloc only after a kfree that left its arena partly  *)
(* in use.                                                                 *)
THEOREM HandedOutOnce == Spec => []OneHolder
  <1>1. Init => BlocksOnce
    BY DEF Init, HeapInit, BlocksOnce
  <1>2. HeapInv /\ BlocksOnce /\ [Next]_vars => BlocksOnce'
    <2> SUFFICES ASSUME HeapInv, BlocksOnce, [Next]_vars, partly' = 0, overlaid' = {},
                        NEW b \in Block
                 PROVE  held'[b] <= 1
      BY DEF BlocksOnce
    <2>1. CASE wild'
      <3>1. partly = 0 /\ overlaid = {} /\ held' = held
        BY <2>1, WildStep
      <3> QED
        BY <3>1 DEF BlocksOnce
    <2>2. CASE ~ wild'
      <3>1. HeapInv'
        BY HeapStep
      <3>2. held' \in [Block -> Nat] /\ (held'[b] # 0 => held'[b] = 1)
        BY <2>2, <3>1 DEF HeapInv, HeapTypeOK, HeapSound, Sane, Sound
      <3> QED
        BY <3>2
    <2> QED
      BY <2>1, <2>2
  <1>3. PagesOnce /\ BlocksOnce => OneHolder
    BY DEF OneHolder
  <1> QED
    BY <1>1, <1>2, <1>3, HeapKept, OnePageHolder, PTL DEF Spec

=============================================================================
