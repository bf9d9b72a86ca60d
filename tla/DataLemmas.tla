------------------------------ MODULE DataLemmas ------------------------------
(***************************************************************************)
(* What list_push_back, list_pop_front and list_remove do to the set of a   *)
(* list's elements, when no element is in the list twice; least and        *)
(* greatest numbers; what the stores of list.c do to a chain of nodes; and *)
(* what bitmap_scan finds.                                                 *)
(***************************************************************************)
EXTENDS Bitmaps, SequencesExt, FiniteSetTheorems, WellFoundedInduction, TLAPS

(* An empty list has no elements. *)
LEMMA EmptyList == Range(<<>>) = {} /\ IsInjective(<<>>)
  BY DEF Range, IsInjective

(* list_push_back adds its element, and does not double one that is not    *)
(* yet in the list.                                                        *)
LEMMA PushedBack ==
  ASSUME NEW S, NEW q \in Seq(S), NEW e \in S
  PROVE  /\ Append(q, e) \in Seq(S)
         /\ Range(Append(q, e)) = Range(q) \cup {e}
         /\ IsInjective(q) /\ e \notin Range(q) => IsInjective(Append(q, e))
  <1>1. /\ Append(q, e) \in Seq(S) /\ Len(Append(q, e)) = Len(q) + 1
        /\ Len(q) \in Nat /\ DOMAIN q = 1..Len(q)
        /\ DOMAIN Append(q, e) = 1..(Len(q) + 1)
        /\ \A i \in 1..Len(q) : Append(q, e)[i] = q[i]
        /\ Append(q, e)[Len(q) + 1] = e
    OBVIOUS
  <1>2. 1..(Len(q) + 1) = 1..Len(q) \cup {Len(q) + 1}
    BY <1>1
  <1>3. Range(Append(q, e)) = Range(q) \cup {e}
    BY <1>1, <1>2 DEF Range
  <1>4. IsInjective(q) /\ e \notin Range(q) => IsInjective(Append(q, e))
    BY <1>1, <1>2 DEF Range, IsInjective
  <1> QED
    BY <1>1, <1>3, <1>4

(* list_pop_front removes the first element, which then is in the list no  *)
(* more, and nothing else.                                                 *)
LEMMA PoppedFront ==
  ASSUME NEW S, NEW q \in Seq(S), q # <<>>
  PROVE  /\ Head(q) \in S /\ Tail(q) \in Seq(S)
         /\ Head(q) \in Range(q)
         /\ Range(q) = Range(Tail(q)) \cup {Head(q)}
         /\ IsInjective(q) => IsInjective(Tail(q)) /\ Head(q) \notin Range(Tail(q))
  <1>1. /\ Head(q) \in S /\ Tail(q) \in Seq(S) /\ Head(q) = q[1]
        /\ Len(q) \in Nat \ {0} /\ DOMAIN q = 1..Len(q)
        /\ Len(Tail(q)) = Len(q) - 1 /\ DOMAIN Tail(q) = 1..(Len(q) - 1)
        /\ \A i \in 1..(Len(q) - 1) : Tail(q)[i] = q[i + 1]
    OBVIOUS
  <1>2. \A i \in 1..Len(q) : i # 1 => i - 1 \in 1..(Len(q) - 1) /\ q[i] = Tail(q)[i - 1]
    BY <1>1
  <1>3. Head(q) \in Range(q)
    BY <1>1 DEF Range
  <1>4. ASSUME NEW x PROVE x \in Range(q) <=> x \in Range(Tail(q)) \cup {Head(q)}
    <2>1. ASSUME x \in Range(q) PROVE x \in Range(Tail(q)) \cup {Head(q)}
      <3>1. PICK i \in 1..Len(q) : q[i] = x
        BY <1>1, <2>1 DEF Range
      <3>2. CASE i # 1
        BY <1>1, <1>2, <3>1, <3>2 DEF Range
      <3> QED
        BY <1>1, <3>1, <3>2
    <2>2. x \in Range(Tail(q)) => x \in Range(q)
      BY <1>1 DEF Range
    <2> QED
      BY <1>3, <2>1, <2>2
  <1>5. ASSUME IsInjective(q) PROVE IsInjective(Tail(q)) /\ Head(q) \notin Range(Tail(q))
    BY <1>1, <1>5 DEF Range, IsInjective
  <1> QED
    BY <1>1, <1>3, <1>4, <1>5

(* list_remove takes out the element it is given and nothing else.         *)
LEMMA ElementRemoved ==
  ASSUME NEW S, NEW q \in Seq(S), NEW i \in DOMAIN q
  PROVE  /\ RemoveAt(q, i) \in Seq(S)
         /\ Range(RemoveAt(q, i)) \subseteq Range(q)
         /\ IsInjective(q) => IsInjective(RemoveAt(q, i)) /\ Range(RemoveAt(q, i)) = Range(q) \ {q[i]}
  <1> DEFINE a == SubSeq(q, 1, i - 1)
             b == SubSeq(q, i + 1, Len(q))
             r == a \o b
  <1>0. Len(q) \in Nat /\ DOMAIN q = 1..Len(q) /\ i \in 1..Len(q)
    OBVIOUS
  <1>1. /\ a \in Seq(S) /\ Len(a) = i - 1
        /\ \A j \in 1..(i - 1) : a[j] = q[j]
    BY <1>0
  <1>2. /\ b \in Seq(S) /\ Len(b) = Len(q) - i
        /\ \A j \in 1..(Len(q) - i) : b[j] = q[i + j]
    BY <1>0
  <1> HIDE DEF a, b
  <1>3. /\ r \in Seq(S) /\ Len(r) = Len(q) - 1 /\ DOMAIN r = 1..(Len(q) - 1)
    <2>1. r \in Seq(S)
      BY <1>1, <1>2
    <2>2. Len(r) = Len(a) + Len(b)
      <3>1. a \in Seq(S) /\ b \in Seq(S)
        BY <1>1, <1>2
      <3> QED
        BY ONLY <3>1 DEF r
    <2>3. Len(a) + Len(b) = Len(q) - 1
      BY <1>0, <1>1, <1>2
    <2> HIDE DEF r
    <2> QED
      BY <2>1, <2>2, <2>3
  <1>4. \A j \in 1..(Len(q) - 1) : r[j] = IF j < i THEN q[j] ELSE q[j + 1]
    <2> TAKE j \in 1..(Len(q) - 1)
    <2>1. CASE j < i
      BY <1>0, <1>1, <1>2, <2>1
    <2>2. CASE ~(j < i)
      <3>1. r[j] = b[j - (i - 1)]
        BY <1>0, <1>1, <1>2, <2>2
      <3>2. j - (i - 1) \in 1..(Len(q) - i) /\ i + (j - (i - 1)) = j + 1
        BY <1>0, <2>2
      <3> QED
        BY <1>2, <2>2, <3>1, <3>2
    <2> QED
      BY <2>1, <2>2
  <1>5. RemoveAt(q, i) = r
    BY DEF RemoveAt, a, b
  <1> HIDE DEF r
  <1>6. Range(r) \subseteq Range(q)
    BY <1>0, <1>3, <1>4 DEF Range
  <1>7. ASSUME IsInjective(q)
        PROVE  IsInjective(r) /\ q[i] \notin Range(r)
    <2> DEFINE k(j) == IF j < i THEN j ELSE j + 1
    <2>1. \A j \in 1..(Len(q) - 1) : k(j) \in 1..Len(q) /\ k(j) # i /\ r[j] = q[k(j)]
      BY <1>0, <1>4
    <2>2. \A j, l \in 1..(Len(q) - 1) : k(j) = k(l) => j = l
      BY <1>0
    <2> HIDE DEF k
    <2>3. \A j, l \in DOMAIN q : q[j] = q[l] => j = l
      BY <1>7 DEF IsInjective
    <2>4. IsInjective(r)
      BY <1>0, <1>3, <2>1, <2>2, <2>3 DEF IsInjective
    <2>5. q[i] \notin Range(r)
      BY <1>0, <1>3, <2>1, <2>3 DEF Range
    <2> QED
      BY <2>4, <2>5
  <1>8. ASSUME NEW x \in Range(q), x # q[i]
        PROVE  x \in Range(r)
    <2>1. PICK j \in 1..Len(q) : q[j] = x
      BY <1>0 DEF Range
    <2>2. CASE j < i
      BY <1>0, <1>3, <1>4, <2>1, <2>2 DEF Range
    <2>3. CASE j > i
      <3>1. j - 1 \in 1..(Len(q) - 1) /\ r[j - 1] = x
        BY <1>0, <1>4, <2>1, <2>3
      <3> QED
        BY <1>3, <3>1 DEF Range
    <2> QED
      BY <1>0, <1>8, <2>1, <2>2, <2>3
  <1> QED
    BY <1>3, <1>5, <1>6, <1>7, <1>8

-----------------------------------------------------------------------------

(* A set of natural numbers has a least element.                           *)
LEMMA LeastNumber ==
  ASSUME NEW T \in SUBSET Nat, T # {}
  PROVE  \E x \in T : \A y \in T : x <= y
  <1>1. \E x \in T : \A y \in T : ~ (<<y, x>> \in OpToRel(<, Nat))
    BY WFMin, NatLessThanWellFounded, Zenon
  <1>2. PICK x \in T : \A y \in T : ~ (<<y, x>> \in OpToRel(<, Nat))
    BY <1>1
  <1>3. \A y \in T : ~ (y < x)
    BY <1>2 DEF OpToRel
  <1> QED
    BY <1>3

(* A bounded set of natural numbers has a greatest element.                *)
LEMMA GreatestNumber ==
  ASSUME NEW n \in Nat, NEW T \in SUBSET (0 .. n), T # {}
  PROVE  \E x \in T : \A y \in T : x >= y
  <1> DEFINE mirror == {k \in 0 .. n : n - k \in T}
  <1>1. mirror \in SUBSET Nat
    OBVIOUS
  <1>2. mirror # {}
    <2>1. PICK y \in T : TRUE
      OBVIOUS
    <2>2. n - y \in 0 .. n /\ n - (n - y) = y
      BY <2>1
    <2> QED
      BY <2>1, <2>2
  <1>3. PICK k \in mirror : \A j \in mirror : k <= j
    BY <1>1, <1>2, LeastNumber
  <1>4. \A y \in T : n - y \in mirror
    <2>1. \A y \in T : n - y \in 0 .. n /\ n - (n - y) = y
      OBVIOUS
    <2> QED
      BY <2>1
  <1>5. n - k \in T /\ \A y \in T : n - k >= y
    BY <1>3, <1>4
  <1> QED
    BY <1>5

(* Min and Max return the least and the greatest element.                  *)
LEMMA LeastIsMin ==
  ASSUME NEW T \in SUBSET Nat, T # {}
  PROVE  Min(T) \in T /\ \A y \in T : Min(T) <= y
  BY LeastNumber, Zenon DEF Min

LEMMA GreatestIsMax ==
  ASSUME NEW n \in Nat, NEW T \in SUBSET (0 .. n), T # {}
  PROVE  Max(T) \in T /\ \A y \in T : Max(T) >= y
  <1>1. \E x \in T : \A y \in T : x >= y
    BY GreatestNumber
  <1> QED
    BY <1>1, Zenon DEF Max

(* The number is in the set, and no other is less.                         *)
LEMMA MinIs ==
  ASSUME NEW T \in SUBSET Nat, NEW x \in T, \A y \in T : x <= y
  PROVE  Min(T) = x
  <1>1. Min(T) \in T /\ Min(T) <= x
    BY LeastIsMin
  <1>2. Min(T) \in Nat /\ x \in Nat /\ x <= Min(T)
    BY <1>1
  <1> QED
    BY <1>1, <1>2

(* Induction up to n, on the set of the numbers for which something holds.  *)
LEMMA Ladder ==
  ASSUME NEW n \in Nat, NEW T, 0 \in T, \A i \in 1 .. n : i - 1 \in T => i \in T
  PROVE  0 .. n \subseteq T
  <1> DEFINE bad == {i \in 0 .. n : i \notin T}
  <1> SUFFICES ASSUME bad # {} PROVE FALSE
    OBVIOUS
  <1>1. bad \in SUBSET Nat
    OBVIOUS
  <1>2. PICK i \in bad : \A j \in bad : i <= j
    <2> HIDE DEF bad
    <2> QED
      BY <1>1, LeastNumber
  <1>3. i \in 1 .. n /\ i - 1 \in 0 .. n /\ ~ (i <= i - 1) /\ i \notin T
    BY <1>2
  <1>4. i - 1 \notin bad
    <2> HIDE DEF bad
    <2> QED
      BY <1>2, <1>3
  <1> QED
    BY <1>3, <1>4

(* A loop of n rounds, the i-th of which turns x into G[x, i].             *)
LEMMA Looped ==
  ASSUME NEW X, NEW a \in X, NEW n \in Nat, NEW G \in [1 .. n -> [X -> X]]
  PROVE  \E f \in [0 .. n -> X] : f[0] = a /\ \A i \in 1 .. n : f[i] = G[i][f[i - 1]]
  <1> DEFINE After(k) == {f \in [0 .. k -> X] : f[0] = a /\ \A i \in 1 .. k : f[i] = G[i][f[i - 1]]}
             T == {k \in 0 .. n : After(k) # {}}
  <1>1. 0 \in T
    <2>1. [i \in 0 .. 0 |-> a] \in After(0)
      OBVIOUS
    <2> HIDE DEF After
    <2> QED
      BY <2>1
  <1>2. ASSUME NEW k \in 1 .. n, k - 1 \in T
        PROVE  k \in T
    <2>1. PICK f : f \in After(k - 1)
      BY <1>2
    <2>2. k \in Nat /\ k >= 1 /\ k - 1 \in 0 .. k - 1
      OBVIOUS
    <2>3. /\ f \in [0 .. k - 1 -> X] /\ f[0] = a
          /\ \A i \in 1 .. k - 1 : f[i] = G[i][f[i - 1]]
      BY <2>1
    <2> DEFINE g == [i \in 0 .. k |-> IF i = k THEN G[k][f[k - 1]] ELSE f[i]]
    <2>4. f[k - 1] \in X /\ G[k][f[k - 1]] \in X
      BY <2>2, <2>3
    <2>5. \A i \in 0 .. k : i # k => i \in 0 .. k - 1
      BY <2>2
    <2>6. g \in [0 .. k -> X]
      BY <2>3, <2>4, <2>5
    <2>7. g[0] = a
      <3>1. 0 \in 0 .. k /\ 0 # k
        BY <2>2
      <3> QED
        BY <2>3, <3>1
    <2>8. ASSUME NEW i \in 1 .. k PROVE g[i] = G[i][g[i - 1]]
      <3>1. i \in 0 .. k /\ i - 1 \in 0 .. k /\ i - 1 # k /\ (i # k => i \in 1 .. k - 1)
        BY <2>2
      <3>2. CASE i = k
        BY <3>1, <3>2
      <3>3. CASE i # k
        BY <2>3, <3>1, <3>3
      <3> QED
        BY <3>2, <3>3
    <2>9. g \in After(k)
      <3> HIDE DEF g
      <3> QED
        BY <2>6, <2>7, <2>8
    <2> HIDE DEF After, g
    <2> QED
      BY <2>2, <2>9
  <1>3. n \in T
    <2> HIDE DEF T
    <2>1. 0 .. n \subseteq T
      BY <1>1, <1>2, Ladder
    <2> QED
      BY <2>1
  <1> QED
    BY <1>3

-----------------------------------------------------------------------------

(* The nodes w[0], ..., w[n + 1] are all different, the pointers nx lead   *)
(* from each to the following, and the pointers pv lead back.              *)
Chain(nx, pv, w, n) ==
  /\ n \in Nat /\ w = [i \in 0 .. n + 1 |-> w[i]]
  /\ \A i, j \in 0 .. n + 1 : w[i] = w[j] => i = j
  /\ \A i \in 0 .. n : nx[w[i]] = w[i + 1] /\ pv[w[i + 1]] = w[i]

(* The chain with a node more after w[k], without w[k], and with w[i] and   *)
(* w[j] exchanged.                                                         *)
Longer(w, n, k, e) ==
  [i \in 0 .. n + 2 |-> IF i <= k THEN w[i] ELSE IF i = k + 1 THEN e ELSE w[i - 1]]
Shorter(w, n, k) == [i \in 0 .. n |-> IF i < k THEN w[i] ELSE w[i + 1]]
Crossed(w, n, i, j) ==
  [k \in 0 .. n + 1 |-> IF k = i THEN w[j] ELSE IF k = j THEN w[i] ELSE w[k]]

(* Stores to other nodes do not touch a chain.                             *)
LEMMA ChainKept ==
  ASSUME NEW nx, NEW pv, NEW w, NEW n, Chain(nx, pv, w, n), NEW nx2, NEW pv2,
         \A i \in 0 .. n : nx2[w[i]] = nx[w[i]] /\ pv2[w[i + 1]] = pv[w[i + 1]]
  PROVE  Chain(nx2, pv2, w, n)
  BY DEF Chain

(* Linking a new node after w[k].                                          *)
LEMMA ChainLonger ==
  ASSUME NEW nx, NEW pv, NEW w, NEW n, Chain(nx, pv, w, n), NEW k \in 0 .. n, NEW e,
         \A i \in 0 .. n + 1 : w[i] # e,
         NEW nx2, NEW pv2,
         nx2[w[k]] = e, nx2[e] = w[k + 1], pv2[e] = w[k], pv2[w[k + 1]] = e,
         \A i \in 0 .. n : i # k => nx2[w[i]] = nx[w[i]] /\ pv2[w[i + 1]] = pv[w[i + 1]]
  PROVE  Chain(nx2, pv2, Longer(w, n, k, e), n + 1)
  <1> DEFINE v == Longer(w, n, k, e)
             at(i) == IF i <= k THEN i ELSE i - 1
  <1>8. n \in Nat
    BY DEF Chain
  <1>0. n \in Nat /\ k \in Nat /\ k <= n
    BY <1>8
  <1>1. /\ n \in Nat /\ k \in Nat /\ k <= n
        /\ \A i, j \in 0 .. n + 1 : w[i] = w[j] => i = j
        /\ \A i \in 0 .. n : nx[w[i]] = w[i + 1] /\ pv[w[i + 1]] = w[i]
    BY <1>0 DEF Chain
  <1>2. /\ v = [i \in 0 .. n + 1 + 1 |-> v[i]]
        /\ \A i \in 0 .. n + 2 : v[i] = IF i = k + 1 THEN e ELSE w[at(i)]
    <2>1. n + 1 + 1 = n + 2
      BY <1>1
    <2>2. \A i \in 0 .. n + 2 : v[i] = IF i <= k THEN w[i] ELSE IF i = k + 1 THEN e ELSE w[i - 1]
      BY DEF Longer
    <2>3. v = [i \in 0 .. n + 2 |-> v[i]]
      BY DEF Longer
    <2> HIDE DEF v
    <2> QED
      BY <1>1, <2>1, <2>2, <2>3
  <1>9. \A i \in 0 .. n + 2 : /\ i <= k => v[i] = w[i]
                              /\ i = k + 1 => v[i] = e
                              /\ i > k + 1 => v[i] = w[i - 1]
    <2>1. \A i \in 0 .. n + 2 : v[i] = IF i <= k THEN w[i] ELSE IF i = k + 1 THEN e ELSE w[i - 1]
      BY DEF Longer
    <2> HIDE DEF v
    <2> QED
      BY <1>0, <2>1
  <1>3. \A i \in 0 .. n + 2 : i # k + 1 => at(i) \in 0 .. n + 1
    BY <1>1
  <1>4. \A i, j \in 0 .. n + 2 : i # k + 1 /\ j # k + 1 /\ at(i) = at(j) => i = j
    BY <1>1
  <1> HIDE DEF v
  <1>5. ASSUME NEW i \in 0 .. n + 2, NEW j \in 0 .. n + 2, v[i] = v[j]
        PROVE  i = j
    <2>1. CASE i = k + 1 \/ j = k + 1
      <3> HIDE DEF at
      <3> QED
        BY <1>2, <1>3, <1>5, <2>1, ZenonT(40)
    <2>2. CASE i # k + 1 /\ j # k + 1
      <3> HIDE DEF at
      <3>1. w[at(i)] = w[at(j)]
        BY <1>2, <1>5, <2>2
      <3>2. at(i) = at(j)
        BY <1>1, <1>3, <2>2, <3>1
      <3> QED
        BY <1>4, <2>2, <3>2
    <2> QED
      BY <2>1, <2>2
  <1>6. ASSUME NEW i \in 0 .. n + 1
        PROVE  nx2[v[i]] = v[i + 1] /\ pv2[v[i + 1]] = v[i]
    <2>1. CASE i < k
      <3>1. i \in 0 .. n /\ i + 1 \in 0 .. n + 2 /\ i \in 0 .. n + 2 /\ i + 1 <= k /\ i # k
        BY <1>0, <2>1
      <3>2. v[i] = w[i] /\ v[i + 1] = w[i + 1]
        BY <1>9, <2>1, <3>1
      <3>3. nx2[w[i]] = w[i + 1] /\ pv2[w[i + 1]] = w[i]
        BY <1>1, <3>1
      <3> QED
        BY <3>2, <3>3
    <2>2. CASE i = k
      <3>1. k \in 0 .. n + 2 /\ k + 1 \in 0 .. n + 2
        BY <1>0
      <3>2. v[k] = w[k] /\ v[k + 1] = e
        BY <1>0, <1>9, <3>1
      <3> QED
        BY <2>2, <3>2
    <2>3. CASE i = k + 1
      <3>1. k + 1 \in 0 .. n + 2 /\ k + 1 + 1 \in 0 .. n + 2 /\ k + 1 + 1 > k + 1
            /\ k + 1 + 1 - 1 = k + 1
        BY <1>0, <2>3
      <3>2. v[k + 1] = e /\ v[k + 1 + 1] = w[k + 1]
        BY <1>9, <3>1
      <3> QED
        BY <2>3, <3>2
    <2>4. CASE i > k + 1
      <3>1. /\ i \in 0 .. n + 2 /\ i + 1 \in 0 .. n + 2 /\ i + 1 > k + 1 /\ i + 1 - 1 = i
            /\ i - 1 \in 0 .. n /\ i - 1 + 1 = i /\ i - 1 # k
        BY <1>0, <2>4
      <3>2. v[i] = w[i - 1] /\ v[i + 1] = w[i]
        BY <1>9, <2>4, <3>1
      <3>3. nx2[w[i - 1]] = w[i - 1 + 1] /\ pv2[w[i - 1 + 1]] = w[i - 1]
        BY <1>1, <3>1
      <3> QED
        BY <3>1, <3>2, <3>3
    <2> QED
      BY <1>0, <2>1, <2>2, <2>3, <2>4
  <1>7. n + 1 \in Nat /\ n + 1 + 1 = n + 2
    BY <1>1
  <1> QED
    BY <1>2, <1>5, <1>6, <1>7 DEF Chain, v

(* Unlinking w[k].                                                         *)
LEMMA ChainShorter ==
  ASSUME NEW nx, NEW pv, NEW w, NEW n, Chain(nx, pv, w, n), NEW k \in 1 .. n,
         NEW nx2, NEW pv2,
         nx2[w[k - 1]] = w[k + 1], pv2[w[k + 1]] = w[k - 1],
         \A i \in 0 .. n : i # k - 1 => nx2[w[i]] = nx[w[i]],
         \A i \in 1 .. n + 1 : i # k + 1 => pv2[w[i]] = pv[w[i]]
  PROVE  Chain(nx2, pv2, Shorter(w, n, k), n - 1)
  <1> DEFINE v == Shorter(w, n, k)
             at(i) == IF i < k THEN i ELSE i + 1
  <1>0. n \in Nat
    BY DEF Chain
  <1>1. /\ n \in Nat /\ k \in Nat /\ 1 <= k /\ k <= n
        /\ \A i, j \in 0 .. n + 1 : w[i] = w[j] => i = j
        /\ \A i \in 0 .. n : nx[w[i]] = w[i + 1] /\ pv[w[i + 1]] = w[i]
    <2>1. k \in Nat /\ 1 <= k /\ k <= n
      BY <1>0
    <2> QED
      BY <1>0, <2>1 DEF Chain
  <1>2. v = [i \in 0 .. n |-> v[i]] /\ \A i \in 0 .. n : v[i] = w[at(i)]
    BY DEF Shorter
  <1>3. \A i \in 0 .. n : at(i) \in 0 .. n + 1
    BY <1>1
  <1>4. \A i, j \in 0 .. n : at(i) = at(j) => i = j
    BY <1>1
  <1> HIDE DEF v
  <1>5. \A i, j \in 0 .. n : v[i] = v[j] => i = j
    <2> HIDE DEF at
    <2> QED
      BY <1>1, <1>2, <1>3, <1>4
  <1>6. ASSUME NEW i \in 0 .. n - 1
        PROVE  nx2[v[i]] = v[i + 1] /\ pv2[v[i + 1]] = v[i]
    <2>0. i \in 0 .. n /\ i + 1 \in 0 .. n /\ i \in Int
      BY <1>1
    <2>1. CASE i < k - 1
      <3>1. v[i] = w[i] /\ v[i + 1] = w[i + 1] /\ i \in 0 .. n /\ i + 1 \in 1 .. n + 1
            /\ i # k - 1 /\ i + 1 # k + 1
        BY <1>1, <1>2, <2>0, <2>1
      <3> QED
        BY <1>1, <3>1
    <2>2. CASE i = k - 1
      <3>1. v[i] = w[k - 1] /\ v[i + 1] = w[k + 1]
        BY <1>1, <1>2, <2>0, <2>2
      <3> QED
        BY <3>1
    <2>3. CASE i > k - 1
      <3>1. v[i] = w[i + 1] /\ v[i + 1] = w[i + 1 + 1] /\ i + 1 \in 0 .. n /\ i + 1 + 1 \in 1 .. n + 1
            /\ i + 1 # k - 1 /\ i + 1 + 1 # k + 1
        BY <1>1, <1>2, <2>0, <2>3
      <3> QED
        BY <1>1, <3>1
    <2> QED
      BY <1>1, <2>0, <2>1, <2>2, <2>3
  <1>7. n - 1 \in Nat /\ n - 1 + 1 = n
    BY <1>1
  <1> QED
    BY <1>2, <1>5, <1>6, <1>7 DEF Chain, v

(* Exchanging two nodes that are not neighbours.                           *)
LEMMA ChainCrossed ==
  ASSUME NEW nx, NEW pv, NEW w, NEW n, Chain(nx, pv, w, n),
         NEW i \in 1 .. n, NEW j \in 1 .. n, i + 1 < j,
         NEW nx2, NEW pv2,
         nx2[w[i - 1]] = w[j], nx2[w[i]] = w[j + 1], nx2[w[j - 1]] = w[i], nx2[w[j]] = w[i + 1],
         pv2[w[i + 1]] = w[j], pv2[w[i]] = w[j - 1], pv2[w[j + 1]] = w[i], pv2[w[j]] = w[i - 1],
         \A k \in 0 .. n : k \notin {i - 1, i, j - 1, j} => nx2[w[k]] = nx[w[k]],
         \A k \in 1 .. n + 1 : k \notin {i + 1, i, j + 1, j} => pv2[w[k]] = pv[w[k]]
  PROVE  Chain(nx2, pv2, Crossed(w, n, i, j), n)
  <1> DEFINE v == Crossed(w, n, i, j)
             at(k) == IF k = i THEN j ELSE IF k = j THEN i ELSE k
  <1>1. n \in Nat
    BY DEF Chain
  <1>2. /\ n \in Nat /\ i \in Nat /\ j \in Nat /\ 1 <= i /\ i + 1 < j /\ j <= n
    BY <1>1
  <1>3. /\ \A k, m \in 0 .. n + 1 : w[k] = w[m] => k = m
        /\ \A k \in 0 .. n : nx[w[k]] = w[k + 1] /\ pv[w[k + 1]] = w[k]
    BY DEF Chain
  <1>4. v = [k \in 0 .. n + 1 |-> v[k]] /\ \A k \in 0 .. n + 1 : v[k] = w[at(k)]
    BY DEF Crossed
  <1>5. \A k \in 0 .. n + 1 : /\ k = i => v[k] = w[j]
                              /\ k = j => v[k] = w[i]
                              /\ k # i /\ k # j => v[k] = w[k]
    BY DEF Crossed
  <1>6. \A k \in 0 .. n + 1 : at(k) \in 0 .. n + 1
    BY <1>2
  <1>7. \A k, m \in 0 .. n + 1 : at(k) = at(m) => k = m
    BY <1>2
  <1> HIDE DEF v
  <1>8. \A k, m \in 0 .. n + 1 : v[k] = v[m] => k = m
    <2> HIDE DEF at
    <2> QED
      BY <1>3, <1>4, <1>6, <1>7
  <1>9. ASSUME NEW k \in 0 .. n
        PROVE  nx2[v[k]] = v[k + 1] /\ pv2[v[k + 1]] = v[k]
    <2>1. CASE k = i - 1
      <3>1. k \in 0 .. n + 1 /\ k # i /\ k # j /\ k + 1 \in 0 .. n + 1 /\ k + 1 = i
        BY <1>2, <2>1
      <3>2. v[k] = w[i - 1] /\ v[k + 1] = w[j]
        BY <1>5, <2>1, <3>1
      <3> QED
        BY <3>2
    <2>2. CASE k = i
      <3>1. k \in 0 .. n + 1 /\ k + 1 \in 0 .. n + 1 /\ k + 1 # i /\ k + 1 # j /\ k + 1 = i + 1
        BY <1>2, <2>2
      <3>2. v[k] = w[j] /\ v[k + 1] = w[i + 1]
        BY <1>5, <2>2, <3>1
      <3> QED
        BY <3>2
    <2>3. CASE k = j - 1
      <3>1. k \in 0 .. n + 1 /\ k # i /\ k # j /\ k + 1 \in 0 .. n + 1 /\ k + 1 = j
        BY <1>2, <2>3
      <3>2. v[k] = w[j - 1] /\ v[k + 1] = w[i]
        BY <1>5, <2>3, <3>1
      <3> QED
        BY <3>2
    <2>4. CASE k = j
      <3>1. k \in 0 .. n + 1 /\ k + 1 \in 0 .. n + 1 /\ k + 1 # i /\ k + 1 # j /\ k + 1 = j + 1
        BY <1>2, <2>4
      <3>2. v[k] = w[i] /\ v[k + 1] = w[j + 1]
        BY <1>5, <2>4, <3>1
      <3> QED
        BY <3>2
    <2>5. CASE k \notin {i - 1, i, j - 1, j}
      <3>1. /\ k \in 0 .. n + 1 /\ k + 1 \in 0 .. n + 1 /\ k + 1 \in 1 .. n + 1
            /\ k # i /\ k # j /\ k + 1 # i /\ k + 1 # j
            /\ k + 1 \notin {i + 1, i, j + 1, j}
        BY <1>2, <2>5
      <3>2. v[k] = w[k] /\ v[k + 1] = w[k + 1]
        BY <1>5, <3>1
      <3>3. nx2[w[k]] = nx[w[k]] /\ pv2[w[k + 1]] = pv[w[k + 1]]
        BY <2>5, <3>1
      <3> QED
        BY <1>3, <3>2, <3>3
    <2> QED
      BY <2>1, <2>2, <2>3, <2>4, <2>5
  <1> QED
    BY <1>2, <1>4, <1>8, <1>9 DEF Chain, v

(* Following nx from a first node, n nodes in all.                         *)
Followed(nx, first, n) ==
  CHOOSE f : f = [i \in 1 .. n |-> IF i = 1 THEN first ELSE nx[f[i - 1]]]

(* Following nx from w[1] leads along the chain.                           *)
LEMMA ChainFollowed ==
  ASSUME NEW nx, NEW pv, NEW w, NEW n, Chain(nx, pv, w, n), NEW first, n # 0 => first = w[1]
  PROVE  Followed(nx, first, n) = [i \in 1 .. n |-> w[i]]
  <1> DEFINE Round(f) == [i \in 1 .. n |-> IF i = 1 THEN first ELSE nx[f[i - 1]]]
             inner == [i \in 1 .. n |-> w[i]]
             node == Followed(nx, first, n)
  <1>1. n \in Nat /\ \A i \in 0 .. n : nx[w[i]] = w[i + 1]
    BY DEF Chain
  <1>2. \A i \in 1 .. n : IF i = 1 THEN w[i] = first ELSE w[i] = nx[w[i - 1]]
    <2> SUFFICES ASSUME NEW i \in 1 .. n, i # 1 PROVE w[i] = nx[w[i - 1]]
      BY <1>1
    <2>1. i - 1 \in 0 .. n /\ i - 1 + 1 = i
      BY <1>1
    <2> QED
      BY <1>1, <2>1
  <1>3. inner = Round(inner)
    <2>1. \A i \in 1 .. n : i # 1 => i - 1 \in 1 .. n
      BY <1>1
    <2> QED
      BY <1>2, <2>1
  <1>4. node = Round(node)
    BY <1>3, Zenon DEF Followed
  <1> HIDE DEF node
  <1>5. /\ node = [i \in 1 .. n |-> node[i]]
        /\ \A i \in 1 .. n : IF i = 1 THEN node[i] = first ELSE node[i] = nx[node[i - 1]]
    BY <1>4
  <1> DEFINE bad == {i \in 1 .. n : node[i] # w[i]}
  <1>6. bad = {}
    <2> SUFFICES ASSUME bad # {} PROVE FALSE
      OBVIOUS
    <2>1. bad \in SUBSET Nat
      BY <1>1
    <2>2. PICK i \in bad : \A j \in bad : i <= j
      <3> HIDE DEF bad
      <3> QED
        BY <2>1, LeastNumber
    <2>3. CASE i = 1
      BY <1>2, <1>5, <2>2, <2>3
    <2>4. CASE i # 1
      <3>1. i - 1 \in 1 .. n /\ i - 1 < i /\ i \in 1 .. n
        BY <1>1, <2>2, <2>4
      <3>2. i - 1 \notin bad
        <4> HIDE DEF bad
        <4>1. ~ (i <= i - 1)
          BY <1>1, <3>1
        <4> QED
          BY <2>2, <4>1
      <3>3. node[i - 1] = w[i - 1]
        BY <3>1, <3>2
      <3> QED
        BY <1>2, <1>5, <2>2, <2>4, <3>1, <3>3
    <2> QED
      BY <2>3, <2>4
  <1>7. \A i \in 1 .. n : node[i] = w[i]
    BY <1>6
  <1>8. [i \in 1 .. n |-> node[i]] = [i \in 1 .. n |-> w[i]]
    BY <1>7
  <1>9. node = [i \in 1 .. n |-> node[i]]
    BY <1>5
  <1> QED
    BY <1>8, <1>9, Zenon DEF node

-----------------------------------------------------------------------------

(* The bitmap has n bits.                                                  *)
LEMMA Counted ==
  ASSUME NEW n \in Nat, NEW bm, DOMAIN bm = 0 .. n - 1
  PROVE  BitCount(bm) = n
  <1>1. Cardinality(0 .. n - 1) = IF 0 > n - 1 THEN 0 ELSE n - 1 - 0 + 1
    BY FS_Interval
  <1> QED
    BY <1>1 DEF BitCount

(* How far a run of bits goes: to its whole length, or to a bit that does  *)
(* not equal the one looked for, or to the end of the bitmap.              *)
LEMMA Scanned ==
  ASSUME NEW bm, NEW start \in Nat, NEW nbits \in Nat, NEW b,
         NEW k, k = BitsScanned(bm, start, nbits, b)
  PROVE  /\ k \in 0 .. nbits
         /\ \A i \in start .. start + k - 1 : i \in DOMAIN bm /\ bm[i] = b
         /\ k = nbits \/ start + k \notin DOMAIN bm \/ bm[start + k] # b
  <1> DEFINE run == {j \in 0 .. nbits : \A i \in start .. start + j - 1 :
                                           i \in DOMAIN bm /\ bm[i] = b}
  <1>1. 0 \in run
    OBVIOUS
  <1>2. k \in run /\ \A j \in run : k >= j
    <2>1. run \in SUBSET (0 .. nbits) /\ run # {}
      BY <1>1
    <2>2. k = Max(run)
      BY DEF BitsScanned
    <2> HIDE DEF run
    <2> QED
      BY <2>1, <2>2, GreatestIsMax
  <1>3. ASSUME k # nbits, start + k \in DOMAIN bm, bm[start + k] = b
        PROVE  FALSE
    <2>1. k + 1 \in 0 .. nbits
      BY <1>2, <1>3
    <2>2. \A i \in start .. start + (k + 1) - 1 : i \in start .. start + k - 1 \/ i = start + k
      BY <1>2
    <2>3. k + 1 \in run
      BY <1>2, <1>3, <2>1, <2>2
    <2> QED
      BY <1>2, <2>3
  <1> QED
    BY <1>2, <1>3

(* The first place at or after start where nbits bits equal b.             *)
FirstFit(bm, start, nbits, b) ==
  LET fit == {i \in start .. BitCount(bm) - 1 : Fits(bm, i, nbits, b)}
  IN  IF fit = {} THEN NPOS ELSE Min(fit)

(* One round of the scan: what it skips fits nowhere.                      *)
LEMMA FirstFitRound ==
  ASSUME NEW n \in Nat, NEW bm, DOMAIN bm = 0 .. n - 1,
         NEW start \in Nat, NEW nbits \in Nat, NEW b,
         NEW k, k = BitsScanned(bm, start, nbits, b)
  PROVE  /\ Max({k, 1}) \in Nat \ {0}
         /\ FirstFit(bm, start, nbits, b) =
              IF start >= BitCount(bm) THEN NPOS
              ELSE IF k = nbits THEN start
              ELSE FirstFit(bm, start + Max({k, 1}), nbits, b)
  <1> DEFINE fit(s) == {i \in s .. n - 1 : Fits(bm, i, nbits, b)}
             m == Max({k, 1})
  <1>1. BitCount(bm) = n
    BY Counted
  <1>2. /\ k \in 0 .. nbits
        /\ \A i \in start .. start + k - 1 : i \in DOMAIN bm /\ bm[i] = b
        /\ k = nbits \/ start + k \notin DOMAIN bm \/ bm[start + k] # b
    BY Scanned
  <1>3. m = IF k = 0 THEN 1 ELSE k
    <2>1. {k, 1} \in SUBSET (0 .. nbits + 1) /\ {k, 1} # {} /\ nbits + 1 \in Nat
      BY <1>2
    <2>2. m \in {k, 1} /\ \A y \in {k, 1} : m >= y
      BY <2>1, GreatestIsMax
    <2> QED
      BY <1>2, <2>2
  <1>8. m \in Nat \ {0} /\ start + m \in Nat
    BY <1>2, <1>3
  <1>4. \A s \in Nat : FirstFit(bm, s, nbits, b) = IF fit(s) = {} THEN NPOS ELSE Min(fit(s))
    BY <1>1 DEF FirstFit
  <1> DEFINE first(s) == FirstFit(bm, s, nbits, b)
  <1>5. start >= n => first(start) = NPOS
    <2> SUFFICES ASSUME start >= n PROVE first(start) = NPOS
      OBVIOUS
    <2>1. fit(start) = {}
      OBVIOUS
    <2> QED
      BY <1>4, <2>1
  <1>6. start < n /\ k = nbits => first(start) = start
    <2> SUFFICES ASSUME start < n, k = nbits PROVE first(start) = start
      OBVIOUS
    <2>1. start \in fit(start)
      BY <1>2 DEF Fits
    <2>2. fit(start) \in SUBSET Nat /\ \A y \in fit(start) : start <= y
      OBVIOUS
    <2>3. Min(fit(start)) = start
      <3> HIDE DEF fit
      <3> QED
        BY <2>1, <2>2, MinIs
    <2> QED
      BY <1>4, <2>1, <2>3
  <1>7. start < n /\ k # nbits => first(start) = first(start + m)
    <2> SUFFICES ASSUME start < n, k # nbits PROVE first(start) = first(start + m)
      OBVIOUS
    <2>1. ASSUME NEW i \in fit(start), i < start + m
          PROVE  FALSE
      <3>1. i \in Int /\ start <= i /\ i <= start + k
        BY <1>2, <1>3, <2>1
      <3>2. start + k \in i .. i + nbits - 1
        BY <1>2, <3>1
      <3>3. start + k \in DOMAIN bm /\ bm[start + k] = b
        BY <2>1, <3>2 DEF Fits
      <3> QED
        BY <1>2, <3>3
    <2>2. fit(start) = fit(start + m)
      <3>1. \A i \in fit(start) : i \in start + m .. n - 1
        <4>1. \A i \in fit(start) : i \in Nat /\ i <= n - 1
          OBVIOUS
        <4>2. \A i \in fit(start) : ~ (i < start + m)
          BY <2>1
        <4> HIDE DEF fit, m
        <4> QED
          BY <1>8, <4>1, <4>2
      <3>2. \A i \in start + m .. n - 1 : i \in start .. n - 1
        BY <1>2, <1>3
      <3> QED
        BY <3>1, <3>2
    <2> QED
      BY <1>4, <1>8, <2>2
  <1>9. start >= n \/ (start < n /\ k = nbits) \/ (start < n /\ k # nbits)
    OBVIOUS
  <1> HIDE DEF fit, first
  <1>10. /\ m \in Nat \ {0}
         /\ first(start) = IF start >= n THEN NPOS ELSE IF k = nbits THEN start ELSE first(start + m)
    BY <1>5, <1>6, <1>7, <1>8, <1>9
  <1> QED
    BY <1>1, <1>10 DEF first

(* bitmap_scan, which skips the bits it has looked at, finds the first      *)
(* fitting place.                                                          *)
LEMMA ScanIsFirstFit ==
  ASSUME NEW n \in Nat, NEW bm, DOMAIN bm = 0 .. n - 1,
         NEW start \in Nat, NEW nbits \in Nat, NEW b
  PROVE  BitmapScan(bm, start, nbits, b) = FirstFit(bm, start, nbits, b)
  <1> DEFINE seen(s) == BitsScanned(bm, s, nbits, b)
             Round(f) == [s \in Nat |-> IF s >= BitCount(bm) THEN NPOS
                                        ELSE IF seen(s) = nbits THEN s
                                        ELSE f[s + Max({seen(s), 1})]]
             scan == CHOOSE f : f = Round(f)
             first == [s \in Nat |-> FirstFit(bm, s, nbits, b)]
  <1>1. BitmapScan(bm, start, nbits, b) = scan[start]
    BY DEF BitmapScan
  <1>2. \A s \in Nat : /\ Max({seen(s), 1}) \in Nat \ {0}
                       /\ first[s] = IF s >= BitCount(bm) THEN NPOS
                                     ELSE IF seen(s) = nbits THEN s
                                     ELSE first[s + Max({seen(s), 1})]
    <2> SUFFICES ASSUME NEW s \in Nat
                 PROVE  /\ Max({seen(s), 1}) \in Nat \ {0}
                        /\ first[s] = IF s >= BitCount(bm) THEN NPOS
                                      ELSE IF seen(s) = nbits THEN s
                                      ELSE first[s + Max({seen(s), 1})]
      OBVIOUS
    <2>1. /\ Max({seen(s), 1}) \in Nat \ {0}
          /\ FirstFit(bm, s, nbits, b) =
               IF s >= BitCount(bm) THEN NPOS
               ELSE IF seen(s) = nbits THEN s
               ELSE FirstFit(bm, s + Max({seen(s), 1}), nbits, b)
      BY FirstFitRound
    <2>2. s + Max({seen(s), 1}) \in Nat
      BY <2>1
    <2> QED
      BY <2>1, <2>2
  <1>3. first = Round(first)
    <2> HIDE DEF seen
    <2> QED
      BY <1>2
  <1>4. scan = Round(scan)
    BY <1>3, Zenon
  <1>5. BitCount(bm) = n
    BY Counted
  <1>6. \A s \in Nat : scan[s] = IF s >= n THEN NPOS
                                 ELSE IF seen(s) = nbits THEN s
                                 ELSE scan[s + Max({seen(s), 1})]
    <2> HIDE DEF seen, scan
    <2> QED
      BY <1>4, <1>5
  <1> HIDE DEF seen, scan, first
  <1> DEFINE bad == {s \in Nat : scan[s] # first[s]}
  <1>7. bad \in SUBSET (0 .. n)
    <2>1. ASSUME NEW s \in Nat, s >= n PROVE scan[s] = first[s]
      BY <1>2, <1>5, <1>6, <2>1
    <2>2. \A s \in Nat : s < n => s \in 0 .. n
      OBVIOUS
    <2> QED
      BY <2>1, <2>2
  <1>8. bad = {}
    <2> SUFFICES ASSUME bad # {} PROVE FALSE
      OBVIOUS
    <2>1. PICK s \in bad : \A y \in bad : s >= y
      <3> HIDE DEF bad
      <3> QED
        BY <1>7, GreatestNumber
    <2>2. s \in Nat /\ Max({seen(s), 1}) \in Nat \ {0}
      BY <1>2, <2>1
    <2>3. s + Max({seen(s), 1}) \in Nat /\ s + Max({seen(s), 1}) \notin bad
      BY <2>1, <2>2
    <2> QED
      BY <1>2, <1>5, <1>6, <2>1, <2>2, <2>3
  <1>9. scan[start] = first[start]
    BY <1>8
  <1> QED
    BY <1>1, <1>9 DEF first

(* Whatever the bitmap holds.                                              *)
LEMMA FirstFound ==
  ASSUME NEW n \in Nat, NEW bm \in [0 .. n - 1 -> BOOLEAN]
  PROVE  FindsFirst(bm)
  <1>1. BitCount(bm) = n
    BY Counted
  <1> SUFFICES ASSUME NEW start \in 0 .. n, NEW nbits \in 0 .. n, NEW b \in BOOLEAN
               PROVE  BitmapScan(bm, start, nbits, b) = FirstFit(bm, start, nbits, b)
    BY <1>1 DEF FindsFirst, FirstFit
  <1> QED
    BY ScanIsFirstFit
=============================================================================
