---------------------------- MODULE ListsProofs ----------------------------
(***************************************************************************)
(* Theorems about list.c: the pointers of any number of lists over any     *)
(* finite set of elements implement sequences.                             *)
(***************************************************************************)
EXTENDS Lists, DataLemmas, SequenceTheorems

(* The nodes of a list with its sentinels.                                 *)
Nodes(l) ==
  [i \in 0 .. size[l] + 1 |->
     IF i = 0 THEN HeadOf(l) ELSE IF i = size[l] + 1 THEN TailOf(l) ELSE Walk(l)[i]]

(* The inductive invariant: every list is a chain of size elements between  *)
(* its sentinels, and no element is in two lists.                          *)
PointersTypeOK ==
  /\ next \in [Node -> Node \cup {Null}] /\ prev \in [Node -> Node \cup {Null}]
  /\ size \in [List -> Nat] /\ result \in Elem \cup {Null}

Chained(l) ==
  /\ Chain(next, prev, Nodes(l), size[l])
  /\ Walk(l) = [i \in 1 .. size[l] |-> Nodes(l)[i]]
  /\ \A i \in 1 .. size[l] : Nodes(l)[i] \in Elem

Disjoint(l, m) ==
  \A i \in 1 .. size[l], j \in 1 .. size[m] : Nodes(l)[i] # Nodes(m)[j]

ListsSound ==
  /\ PointersTypeOK
  /\ \A l \in List : Chained(l)
  /\ \A l, m \in List : l # m => Disjoint(l, m)

-----------------------------------------------------------------------------

(* Sentinels are no elements, and each belongs to one list.                *)
LEMMA Sentinels ==
  ASSUME NEW l \in List
  PROVE  /\ HeadOf(l) \in Node /\ TailOf(l) \in Node /\ HeadOf(l) # TailOf(l)
         /\ HeadOf(l) \notin Elem /\ TailOf(l) \notin Elem
         /\ \A m \in List : /\ HeadOf(l) # TailOf(m)
                            /\ HeadOf(l) = HeadOf(m) => l = m
                            /\ TailOf(l) = TailOf(m) => l = m
  BY NodeAssumption DEF HeadOf, TailOf, Node

(* The nodes of a list, by their places.                                   *)
LEMMA NodesAt ==
  ASSUME ListsSound, NEW l \in List
  PROVE  /\ size[l] \in Nat
         /\ Nodes(l)[0] = HeadOf(l) /\ Nodes(l)[size[l] + 1] = TailOf(l)
         /\ \A i \in 1 .. size[l] : Nodes(l)[i] \in Elem /\ Walk(l)[i] = Nodes(l)[i]
         /\ DOMAIN Walk(l) = 1 .. size[l]
         /\ \A i \in 0 .. size[l] + 1 : Nodes(l)[i] \in Node
  <1>1. size[l] \in Nat
    BY DEF ListsSound, PointersTypeOK
  <1>2. Nodes(l)[0] = HeadOf(l) /\ Nodes(l)[size[l] + 1] = TailOf(l)
    BY <1>1 DEF Nodes
  <1>3. /\ \A i \in 1 .. size[l] : Nodes(l)[i] \in Elem
        /\ Walk(l) = [i \in 1 .. size[l] |-> Nodes(l)[i]]
    BY DEF ListsSound, Chained
  <1>4. ASSUME NEW i \in 0 .. size[l] + 1 PROVE Nodes(l)[i] \in Node
    <2>1. i = 0 \/ i = size[l] + 1 \/ i \in 1 .. size[l]
      BY <1>1
    <2> QED
      BY <1>2, <1>3, <2>1, Sentinels DEF Node
  <1> QED
    BY <1>1, <1>2, <1>3, <1>4

(* Two lists share no node.                                                *)
LEMMA Apart ==
  ASSUME ListsSound, NEW l \in List, NEW m \in List, l # m,
         NEW i \in 0 .. size[l] + 1, NEW j \in 0 .. size[m] + 1
  PROVE  Nodes(l)[i] # Nodes(m)[j]
  <1>1. /\ size[l] \in Nat /\ size[m] \in Nat
        /\ i = 0 \/ i = size[l] + 1 \/ i \in 1 .. size[l]
        /\ j = 0 \/ j = size[m] + 1 \/ j \in 1 .. size[m]
    BY NodesAt
  <1>2. i \in 1 .. size[l] /\ j \in 1 .. size[m] => Nodes(l)[i] # Nodes(m)[j]
    BY DEF ListsSound, Disjoint
  <1>3. /\ Nodes(l)[i] \in {HeadOf(l), TailOf(l)} \/ (Nodes(l)[i] \in Elem /\ i \in 1 .. size[l])
        /\ Nodes(m)[j] \in {HeadOf(m), TailOf(m)} \/ (Nodes(m)[j] \in Elem /\ j \in 1 .. size[m])
    BY <1>1, NodesAt
  <1>4. /\ HeadOf(l) \notin Elem /\ TailOf(l) \notin Elem
        /\ HeadOf(m) \notin Elem /\ TailOf(m) \notin Elem
        /\ HeadOf(l) # HeadOf(m) /\ HeadOf(l) # TailOf(m)
        /\ TailOf(l) # HeadOf(m) /\ TailOf(l) # TailOf(m)
    BY Sentinels
  <1> QED
    BY <1>2, <1>3, <1>4

(* If, after a call, a chain of size nodes leads from one sentinel to the   *)
(* other, it is what list_foreach walks over.                              *)
LEMMA Walked ==
  ASSUME NEW l \in List, NEW w, NEW n, Chain(next', prev', w, n), size'[l] = n,
         w[0] = HeadOf(l), w[n + 1] = TailOf(l)
  PROVE  Walk(l)' = [i \in 1 .. n |-> w[i]] /\ Nodes(l)' = w
  <1> DEFINE first == Begin(l)'
  <1>1. Walk(l)' = CHOOSE f : f = [i \in 1 .. n |-> IF i = 1 THEN first ELSE next'[f[i - 1]]]
    BY DEF Walk
  <1>2. n \in Nat /\ w = [i \in 0 .. n + 1 |-> w[i]] /\ \A i \in 0 .. n : next'[w[i]] = w[i + 1]
    BY DEF Chain
  <1>3. n # 0 => first = w[1]
    <2>1. n # 0 => 0 \in 0 .. n /\ 0 + 1 = 1
      BY <1>2
    <2> QED
      BY <1>2, <2>1 DEF Begin
  <1> HIDE DEF first
  <1>4. Walk(l)' = [i \in 1 .. n |-> w[i]]
    <2>1. Walk(l)' = Followed(next', first, n)
      BY <1>1 DEF Followed
    <2> QED
      BY <1>3, <2>1, ChainFollowed
  <1>5. \A i \in 0 .. n + 1 : w[i] = IF i = 0 THEN HeadOf(l) ELSE IF i = n + 1 THEN TailOf(l)
                                     ELSE [j \in 1 .. n |-> w[j]][i]
    <2>1. \A i \in 0 .. n + 1 : i # 0 /\ i # n + 1 => i \in 1 .. n
      BY <1>2
    <2> QED
      BY <2>1
  <1>6. Nodes(l)' = [i \in 0 .. n + 1 |->
                       IF i = 0 THEN HeadOf(l) ELSE IF i = n + 1 THEN TailOf(l)
                       ELSE [j \in 1 .. n |-> w[j]][i]]
    BY <1>4 DEF Nodes
  <1>7. [i \in 0 .. n + 1 |-> w[i]] = [i \in 0 .. n + 1 |->
                       IF i = 0 THEN HeadOf(l) ELSE IF i = n + 1 THEN TailOf(l)
                       ELSE [j \in 1 .. n |-> w[j]][i]]
    BY <1>5
  <1>8. Nodes(l)' = [i \in 0 .. n + 1 |-> w[i]]
    BY <1>6, <1>7, Zenon
  <1> QED
    BY <1>2, <1>4, <1>8

(* A call that stores to the nodes of one list only leaves the others as    *)
(* they are.                                                               *)
LEMMA OthersKept ==
  ASSUME ListsSound, NEW m \in List, size'[m] = size[m],
         \A i \in 0 .. size[m] : next'[Nodes(m)[i]] = next[Nodes(m)[i]]
                                 /\ prev'[Nodes(m)[i + 1]] = prev[Nodes(m)[i + 1]]
  PROVE  Walk(m)' = Walk(m) /\ Nodes(m)' = Nodes(m) /\ Chained(m)'
  <1>1. Chain(next', prev', Nodes(m), size[m])
    BY ChainKept DEF ListsSound, Chained
  <1>2. Walk(m)' = [i \in 1 .. size[m] |-> Nodes(m)[i]] /\ Nodes(m)' = Nodes(m)
    BY <1>1, NodesAt, Walked
  <1>3. Walk(m) = [i \in 1 .. size[m] |-> Nodes(m)[i]]
    BY DEF ListsSound, Chained
  <1>4. \A i \in 1 .. size[m] : Nodes(m)[i] \in Elem
    BY NodesAt
  <1> QED
    BY <1>1, <1>2, <1>3, <1>4 DEF Chained

(* list_init.                                                              *)
LEMMA InitSound ==
  ASSUME ListsInit
  PROVE  ListsSound /\ \A l \in List : Walk(l) = <<>>
  <1>1. PointersTypeOK
    <2>1. \A n \in Node, l \in List : n = HeadOf(l) => n[1] = l
      BY DEF HeadOf
    <2>2. \A n \in Node, l \in List : n = TailOf(l) => n[1] = l
      BY DEF TailOf
    <2>3. \A l \in List : HeadOf(l) \in Node /\ TailOf(l) \in Node
      BY Sentinels
    <2>4. next \in [Node -> Node \cup {Null}]
      BY <2>1, <2>3 DEF ListsInit
    <2>5. prev \in [Node -> Node \cup {Null}]
      BY <2>2, <2>3 DEF ListsInit
    <2> QED
      BY <2>4, <2>5 DEF ListsInit, PointersTypeOK
  <1>2. ASSUME NEW l \in List
        PROVE  Chained(l) /\ Walk(l) = <<>> /\ size[l] = 0
    <2> DEFINE w == [i \in 0 .. 0 + 1 |-> IF i = 0 THEN HeadOf(l) ELSE TailOf(l)]
    <2>1. size[l] = 0
      BY DEF ListsInit
    <2>2. next[HeadOf(l)] = TailOf(l) /\ prev[TailOf(l)] = HeadOf(l)
      <3>1. HeadOf(l)[1] = l /\ TailOf(l)[1] = l
        BY DEF HeadOf, TailOf
      <3>2. HeadOf(l) \in Node /\ TailOf(l) \in Node
        BY Sentinels
      <3> QED
        BY <3>1, <3>2 DEF ListsInit
    <2>3. HeadOf(l) # TailOf(l)
      BY Sentinels
    <2>4. Chain(next, prev, w, 0)
      <3>1. 0 .. 0 + 1 = {0, 1} /\ 0 .. 0 = {0} /\ w[0] = HeadOf(l) /\ w[1] = TailOf(l)
        OBVIOUS
      <3>2. w = [i \in 0 .. 0 + 1 |-> w[i]]
        OBVIOUS
      <3> HIDE DEF w
      <3> QED
        BY <2>2, <2>3, <3>1, <3>2 DEF Chain
    <2>5. Walk(l) = [i \in 1 .. 0 |-> w[i]]
      <3>1. Walk(l) = Followed(next, Begin(l), 0)
        BY <2>1 DEF Walk, Followed
      <3> HIDE DEF w
      <3> QED
        BY <2>4, <3>1, ChainFollowed
    <2>6. Walk(l) = <<>>
      BY <2>5
    <2>7. Nodes(l) = w
      BY <2>1 DEF Nodes
    <2>8. \A i \in 1 .. 0 : FALSE
      OBVIOUS
    <2> HIDE DEF w
    <2> QED
      BY <2>1, <2>4, <2>5, <2>6, <2>7, <2>8 DEF Chained
  <1>3. \A l, m \in List : l # m => Disjoint(l, m)
    <2>1. \A i \in 1 .. 0 : FALSE
      OBVIOUS
    <2> QED
      BY <1>2, <2>1 DEF Disjoint
  <1> QED
    BY <1>1, <1>2, <1>3 DEF ListsSound

(* A call that leaves a chain of p elements in one list, and none of them in *)
(* another, and stores to no node of another.                              *)
LEMMA Relinked ==
  ASSUME ListsSound, PointersTypeOK', NEW l \in List, NEW v, NEW p,
         Chain(next', prev', v, p), v[0] = HeadOf(l), v[p + 1] = TailOf(l),
         size'[l] = p, \A m \in List : m # l => size'[m] = size[m],
         \A i \in 1 .. p : v[i] \in Elem,
         \A m \in List : m # l => \A i \in 1 .. p, j \in 1 .. size[m] : v[i] # Nodes(m)[j],
         \A m \in List : m # l =>
           \A i \in 0 .. size[m] : next'[Nodes(m)[i]] = next[Nodes(m)[i]]
                                   /\ prev'[Nodes(m)[i + 1]] = prev[Nodes(m)[i + 1]]
  PROVE  /\ ListsSound'
         /\ Walk(l)' = [i \in 1 .. p |-> v[i]]
         /\ \A m \in List : m # l => Walk(m)' = Walk(m)
  <1>1. size'[l] = p /\ \A m \in List : m # l => size'[m] = size[m]
    OBVIOUS
  <1>2. Walk(l)' = [i \in 1 .. p |-> v[i]] /\ Nodes(l)' = v
    BY <1>1, Walked
  <1>3. Chained(l)'
    BY <1>1, <1>2 DEF Chained
  <1>4. ASSUME NEW m \in List, m # l
        PROVE  Walk(m)' = Walk(m) /\ Nodes(m)' = Nodes(m) /\ Chained(m)' /\ size'[m] = size[m]
    BY <1>1, <1>4, OthersKept
  <1>5. ASSUME NEW m \in List, m # l
        PROVE  Disjoint(l, m)' /\ Disjoint(m, l)'
    <2>1. \A i \in 1 .. p, j \in 1 .. size[m] : v[i] # Nodes(m)[j]
      BY <1>5
    <2> QED
      BY <1>1, <1>2, <1>4, <1>5, <2>1 DEF Disjoint
  <1>6. \A m, q \in List : m # q => Disjoint(m, q)'
    <2> SUFFICES ASSUME NEW m \in List, NEW q \in List, m # q, m # l, q # l PROVE Disjoint(m, q)'
      BY <1>5
    <2>1. Disjoint(m, q)
      BY DEF ListsSound
    <2> QED
      BY <1>4, <2>1 DEF Disjoint
  <1> QED
    BY <1>2, <1>3, <1>4, <1>6 DEF ListsSound

(* An element in no list is no node of one.                                *)
LEMMA FreshNode ==
  ASSUME ListsSound, NEW e \in Elem, Unlinked(e), NEW m \in List
  PROVE  \A i \in 0 .. size[m] + 1 : Nodes(m)[i] # e
  <1> SUFFICES ASSUME NEW i \in 0 .. size[m] + 1 PROVE Nodes(m)[i] # e
    OBVIOUS
  <1>1. size[m] \in Nat
    BY NodesAt
  <1>2. i = 0 \/ i = size[m] + 1 \/ i \in 1 .. size[m]
    BY <1>1
  <1>3. CASE i \in 1 .. size[m]
    <2>1. Walk(m)[i] \in Member(m)
      BY <1>3, NodesAt DEF Member, ToSet
    <2> QED
      BY <1>3, <2>1, NodesAt DEF Unlinked
  <1>4. CASE i \notin 1 .. size[m]
    BY <1>2, <1>4, NodesAt, Sentinels
  <1> QED
    BY <1>3, <1>4

(* Linking an element between two neighbours of a list.                    *)
Link(l, k, e) ==
  /\ next' = [next EXCEPT ![Nodes(l)[k]] = e, ![e] = Nodes(l)[k + 1]]
  /\ prev' = [prev EXCEPT ![e] = Nodes(l)[k], ![Nodes(l)[k + 1]] = e]
  /\ size' = [size EXCEPT ![l] = @ + 1]
  /\ result' = Null

LEMMA InsertKeeps ==
  ASSUME ListsSound, NEW l \in List, NEW e \in Elem, Unlinked(e), NEW k \in 0 .. size[l],
         Link(l, k, e)
  PROVE  /\ ListsSound'
         /\ Walk(l)' = [i \in 1 .. size[l] + 1 |-> IF i <= k THEN Walk(l)[i]
                                                   ELSE IF i = k + 1 THEN e ELSE Walk(l)[i - 1]]
         /\ \A m \in List : m # l => Walk(m)' = Walk(m)
  <1> DEFINE w == Nodes(l)
             n == size[l]
             v == Longer(w, n, k, e)
  <1>1. /\ n \in Nat /\ k \in 0 .. n /\ k \in Nat /\ k <= n
        /\ w[0] = HeadOf(l) /\ w[n + 1] = TailOf(l)
        /\ \A i \in 1 .. n : w[i] \in Elem /\ Walk(l)[i] = w[i]
        /\ \A i \in 0 .. n + 1 : w[i] \in Node
        /\ e \in Node
    <2>1. n \in Nat
      BY NodesAt
    <2>2. k \in Nat /\ k <= n
      BY <2>1
    <2> QED
      BY <2>1, <2>2, NodesAt DEF Node
  <1>2. Chain(next, prev, w, n) /\ \A i, j \in 0 .. n + 1 : w[i] = w[j] => i = j
    BY DEF ListsSound, Chained, Chain
  <1>3. \A i \in 0 .. n + 1 : w[i] # e
    BY FreshNode
  <1>4. k \in 0 .. n + 1 /\ k + 1 \in 0 .. n + 1
    BY <1>1
  <1>5. /\ next \in [Node -> Node \cup {Null}] /\ prev \in [Node -> Node \cup {Null}]
        /\ size \in [List -> Nat]
    BY DEF ListsSound, PointersTypeOK
  <1> HIDE DEF w, n
  <1>6. /\ next'[w[k]] = e /\ next'[e] = w[k + 1]
        /\ \A x \in Node : x # w[k] /\ x # e => next'[x] = next[x]
    BY <1>1, <1>3, <1>4, <1>5 DEF w, Link
  <1>7. /\ prev'[e] = w[k] /\ prev'[w[k + 1]] = e
        /\ \A x \in Node : x # w[k + 1] /\ x # e => prev'[x] = prev[x]
    BY <1>1, <1>3, <1>4, <1>5 DEF w, Link
  <1>8. Chain(next', prev', v, n + 1)
    <2>1. ASSUME NEW i \in 0 .. n, i # k
          PROVE  next'[w[i]] = next[w[i]] /\ prev'[w[i + 1]] = prev[w[i + 1]]
      <3>1. i \in 0 .. n + 1 /\ i + 1 \in 0 .. n + 1 /\ i # k /\ i + 1 # k + 1
        BY <1>1, <2>1
      <3>2. w[i] # w[k] /\ w[i + 1] # w[k + 1]
        BY <1>2, <1>4, <3>1
      <3> QED
        BY <1>1, <1>3, <1>6, <1>7, <3>1, <3>2
    <2> HIDE DEF v
    <2>2. \A i \in 0 .. n : i # k => next'[w[i]] = next[w[i]] /\ prev'[w[i + 1]] = prev[w[i + 1]]
      BY <2>1
    <2>3. k \in 0 .. n
      BY <1>1
    <2> DEFINE nx == next'
               pv == prev'
    <2>4. nx[w[k]] = e /\ nx[e] = w[k + 1] /\ pv[e] = w[k] /\ pv[w[k + 1]] = e
      BY <1>6, <1>7
    <2>5. \A i \in 0 .. n : i # k => nx[w[i]] = next[w[i]] /\ pv[w[i + 1]] = prev[w[i + 1]]
      BY <2>2
    <2> HIDE DEF nx, pv
    <2>6. Chain(nx, pv, Longer(w, n, k, e), n + 1)
      BY <1>2, <1>3, <2>3, <2>4, <2>5, ChainLonger
    <2> QED
      BY <2>6 DEF v, nx, pv
  <1>9. v[0] = HeadOf(l) /\ v[n + 1 + 1] = TailOf(l)
    <2>1. 0 \in 0 .. n + 2 /\ 0 <= k /\ n + 2 \in 0 .. n + 2 /\ ~ (n + 2 <= k) /\ n + 2 # k + 1
          /\ (n + 2) - 1 = n + 1 /\ n + 1 + 1 = n + 2
      BY <1>1
    <2>2. \A i \in 0 .. n + 2 : v[i] = IF i <= k THEN w[i] ELSE IF i = k + 1 THEN e ELSE w[i - 1]
      BY DEF Longer
    <2> HIDE DEF v
    <2>4. v[0] = w[0]
      BY <2>1, <2>2
    <2>5. v[n + 2] = w[n + 1]
      BY <2>1, <2>2
    <2>3. v[n + 1 + 1] = v[n + 2]
      BY <2>1
    <2> QED
      BY <1>1, <2>3, <2>4, <2>5
  <1>12. \A i \in 1 .. n + 1 : v[i] = IF i <= k THEN Walk(l)[i]
                                      ELSE IF i = k + 1 THEN e ELSE Walk(l)[i - 1]
    <2> SUFFICES ASSUME NEW i \in 1 .. n + 1
                 PROVE  v[i] = IF i <= k THEN Walk(l)[i]
                               ELSE IF i = k + 1 THEN e ELSE Walk(l)[i - 1]
      OBVIOUS
    <2>1. i \in 0 .. n + 2 /\ (i <= k => i \in 1 .. n)
          /\ (~ (i <= k) /\ i # k + 1 => i - 1 \in 1 .. n)
      BY <1>1
    <2>2. v[i] = IF i <= k THEN w[i] ELSE IF i = k + 1 THEN e ELSE w[i - 1]
      BY <2>1 DEF Longer
    <2> HIDE DEF v
    <2> QED
      BY <1>1, <2>1, <2>2
  <1>13. ASSUME NEW i \in 1 .. n + 1
         PROVE  v[i] = e \/ \E j \in 1 .. n : v[i] = w[j]
    <2>1. (i <= k => i \in 1 .. n) /\ (~ (i <= k) /\ i # k + 1 => i - 1 \in 1 .. n)
      BY <1>1
    <2> HIDE DEF v
    <2> QED
      BY <1>1, <1>12, <2>1
  <1> HIDE DEF v
  <1>14. PointersTypeOK'
    <2>1. next' \in [Node -> Node \cup {Null}]
      BY <1>1, <1>4, <1>5 DEF w, Link
    <2>2. prev' \in [Node -> Node \cup {Null}]
      BY <1>1, <1>4, <1>5 DEF w, Link
    <2> QED
      BY <1>5, <2>1, <2>2 DEF PointersTypeOK, Link
  <1>15. ASSUME NEW m \in List, m # l
         PROVE  /\ \A i \in 1 .. n + 1, j \in 1 .. size[m] : v[i] # Nodes(m)[j]
                /\ \A i \in 0 .. size[m] : next'[Nodes(m)[i]] = next[Nodes(m)[i]]
                                           /\ prev'[Nodes(m)[i + 1]] = prev[Nodes(m)[i + 1]]
    <2>1. ASSUME NEW i \in 1 .. n + 1, NEW j \in 1 .. size[m]
          PROVE  v[i] # Nodes(m)[j]
      <3>1. Nodes(m)[j] # e
        BY NodesAt, FreshNode
      <3>2. \A i1 \in 1 .. n : w[i1] # Nodes(m)[j]
        BY <1>15 DEF ListsSound, Disjoint, w, n
      <3> QED
        BY <1>13, <3>1, <3>2
    <2>2. ASSUME NEW i \in 0 .. size[m]
          PROVE  next'[Nodes(m)[i]] = next[Nodes(m)[i]]
                 /\ prev'[Nodes(m)[i + 1]] = prev[Nodes(m)[i + 1]]
      <3>1. i \in 0 .. size[m] + 1 /\ i + 1 \in 0 .. size[m] + 1
        BY NodesAt
      <3>2. Nodes(m)[i] \in Node /\ Nodes(m)[i + 1] \in Node
        BY <3>1, NodesAt
      <3>3. Nodes(m)[i] # e /\ Nodes(m)[i + 1] # e
        BY <3>1, FreshNode
      <3>4. Nodes(m)[i] # w[k] /\ Nodes(m)[i + 1] # w[k + 1]
        BY <1>4, <1>15, <3>1, Apart DEF w, n
      <3> QED
        BY <1>6, <1>7, <3>2, <3>3, <3>4
    <2> QED
      BY <2>1, <2>2
  <1>16. \A i \in 1 .. n + 1 : v[i] \in Elem
    BY <1>1, <1>13
  <1>17. size'[l] = n + 1 /\ \A m \in List : m # l => size'[m] = size[m]
    BY <1>5 DEF n, Link
  <1>18. /\ ListsSound'
         /\ Walk(l)' = [i \in 1 .. n + 1 |-> v[i]]
         /\ \A m \in List : m # l => Walk(m)' = Walk(m)
    <2> DEFINE p == n + 1
    <2>1. /\ Chain(next', prev', v, p) /\ v[0] = HeadOf(l) /\ v[p + 1] = TailOf(l)
          /\ size'[l] = p /\ \A m \in List : m # l => size'[m] = size[m]
          /\ \A i \in 1 .. p : v[i] \in Elem
          /\ \A m \in List : m # l => \A i \in 1 .. p, j \in 1 .. size[m] : v[i] # Nodes(m)[j]
      BY <1>8, <1>9, <1>15, <1>16, <1>17
    <2> HIDE DEF p
    <2>2. /\ ListsSound'
          /\ Walk(l)' = [i \in 1 .. p |-> v[i]]
          /\ \A m \in List : m # l => Walk(m)' = Walk(m)
      <3>1. \A m \in List : m # l =>
              \A i \in 0 .. size[m] : next'[Nodes(m)[i]] = next[Nodes(m)[i]]
                                      /\ prev'[Nodes(m)[i + 1]] = prev[Nodes(m)[i + 1]]
        BY <1>15
      <3> QED
        BY <1>14, <2>1, <3>1, Relinked
    <2> QED
      BY <2>2 DEF p
  <1>19. [i \in 1 .. n + 1 |-> v[i]] = [i \in 1 .. n + 1 |->
             IF i <= k THEN Walk(l)[i] ELSE IF i = k + 1 THEN e ELSE Walk(l)[i - 1]]
    BY <1>12
  <1> QED
    BY <1>18, <1>19, Zenon DEF n

(* Unlinking the element at place k.                                       *)
LEMMA UnlinkKeeps ==
  ASSUME ListsSound, NEW l \in List, NEW k \in 1 .. size[l], Unlink(l, Nodes(l)[k]),
         result' \in Elem \cup {Null}
  PROVE  /\ ListsSound'
         /\ Walk(l)' = [i \in 1 .. size[l] - 1 |-> IF i < k THEN Walk(l)[i] ELSE Walk(l)[i + 1]]
         /\ \A m \in List : m # l => Walk(m)' = Walk(m)
  <1> DEFINE w == Nodes(l)
             n == size[l]
             v == Shorter(w, n, k)
  <1>1. /\ n \in Nat /\ k \in Nat /\ 1 <= k /\ k <= n
        /\ w[0] = HeadOf(l) /\ w[n + 1] = TailOf(l)
        /\ \A i \in 1 .. n : w[i] \in Elem /\ Walk(l)[i] = w[i]
        /\ \A i \in 0 .. n + 1 : w[i] \in Node
    <2>1. n \in Nat
      BY NodesAt
    <2>2. k \in Nat /\ 1 <= k /\ k <= n
      BY <2>1
    <2> QED
      BY <2>1, <2>2, NodesAt
  <1>2. /\ Chain(next, prev, w, n)
        /\ \A i, j \in 0 .. n + 1 : w[i] = w[j] => i = j
        /\ \A i \in 0 .. n : next[w[i]] = w[i + 1] /\ prev[w[i + 1]] = w[i]
    BY DEF ListsSound, Chained, Chain
  <1>3. /\ k - 1 \in 0 .. n + 1 /\ k + 1 \in 0 .. n + 1 /\ k \in 0 .. n /\ k - 1 \in 0 .. n
        /\ (k - 1) + 1 = k
    BY <1>1
  <1>4. next[w[k]] = w[k + 1] /\ prev[w[k]] = w[k - 1]
    BY <1>2, <1>3
  <1>5. /\ next \in [Node -> Node \cup {Null}] /\ prev \in [Node -> Node \cup {Null}]
        /\ size \in [List -> Nat]
    BY DEF ListsSound, PointersTypeOK
  <1> HIDE DEF w, n
  <1>6. /\ next' = [next EXCEPT ![w[k - 1]] = w[k + 1]]
        /\ prev' = [prev EXCEPT ![w[k + 1]] = w[k - 1]]
        /\ size' = [size EXCEPT ![l] = n - 1]
    BY <1>4 DEF Unlink, w, n
  <1>7. /\ next'[w[k - 1]] = w[k + 1] /\ prev'[w[k + 1]] = w[k - 1]
        /\ \A x \in Node : x # w[k - 1] => next'[x] = next[x]
        /\ \A x \in Node : x # w[k + 1] => prev'[x] = prev[x]
    BY <1>1, <1>3, <1>5, <1>6
  <1>8. Chain(next', prev', v, n - 1)
    <2> HIDE DEF v
    <2> DEFINE nx == next'
               pv == prev'
    <2>1. \A i \in 0 .. n : i # k - 1 => nx[w[i]] = next[w[i]]
      <3> SUFFICES ASSUME NEW i \in 0 .. n, i # k - 1 PROVE nx[w[i]] = next[w[i]]
        OBVIOUS
      <3>1. i \in 0 .. n + 1
        BY <1>1
      <3> QED
        BY <1>1, <1>2, <1>3, <1>7, <3>1
    <2>2. \A i \in 1 .. n + 1 : i # k + 1 => pv[w[i]] = prev[w[i]]
      <3> SUFFICES ASSUME NEW i \in 1 .. n + 1, i # k + 1 PROVE pv[w[i]] = prev[w[i]]
        OBVIOUS
      <3>1. i \in 0 .. n + 1
        BY <1>1
      <3> QED
        BY <1>1, <1>2, <1>3, <1>7, <3>1
    <2>3. nx[w[k - 1]] = w[k + 1] /\ pv[w[k + 1]] = w[k - 1] /\ k \in 1 .. n
      BY <1>7 DEF n
    <2> HIDE DEF nx, pv
    <2>4. Chain(nx, pv, Shorter(w, n, k), n - 1)
      BY <1>2, <2>1, <2>2, <2>3, ChainShorter
    <2> QED
      BY <2>4 DEF v, nx, pv
  <1>9. \A i \in 0 .. n : v[i] = IF i < k THEN w[i] ELSE w[i + 1]
    BY DEF Shorter
  <1> HIDE DEF v
  <1>10. v[0] = HeadOf(l) /\ v[(n - 1) + 1] = TailOf(l)
    <2>1. 0 \in 0 .. n /\ 0 < k /\ n \in 0 .. n /\ ~ (n < k) /\ (n - 1) + 1 = n
      BY <1>1
    <2>2. v[0] = w[0] /\ v[n] = w[n + 1]
      BY <1>9, <2>1
    <2> QED
      BY <1>1, <2>1, <2>2
  <1>11. ASSUME NEW i \in 1 .. n - 1
         PROVE  /\ v[i] = IF i < k THEN Walk(l)[i] ELSE Walk(l)[i + 1]
                /\ v[i] \in Elem
                /\ \E j \in 1 .. n : v[i] = w[j]
    <2>1. i \in 0 .. n /\ i \in 1 .. n /\ i + 1 \in 1 .. n
      BY <1>1
    <2> QED
      BY <1>1, <1>9, <2>1
  <1>12. PointersTypeOK'
    <2>1. next' \in [Node -> Node \cup {Null}]
      BY <1>1, <1>3, <1>5, <1>6
    <2>2. prev' \in [Node -> Node \cup {Null}]
      BY <1>1, <1>3, <1>5, <1>6
    <2>3. n - 1 \in Nat
      BY <1>1
    <2> QED
      BY <1>5, <1>6, <2>1, <2>2, <2>3 DEF PointersTypeOK
  <1>13. ASSUME NEW m \in List, m # l
         PROVE  /\ \A i \in 1 .. n - 1, j \in 1 .. size[m] : v[i] # Nodes(m)[j]
                /\ \A i \in 0 .. size[m] : next'[Nodes(m)[i]] = next[Nodes(m)[i]]
                                           /\ prev'[Nodes(m)[i + 1]] = prev[Nodes(m)[i + 1]]
    <2>1. \A i \in 1 .. n, j \in 1 .. size[m] : w[i] # Nodes(m)[j]
      BY <1>13 DEF ListsSound, Disjoint, w, n
    <2>2. ASSUME NEW i \in 0 .. size[m]
          PROVE  next'[Nodes(m)[i]] = next[Nodes(m)[i]]
                 /\ prev'[Nodes(m)[i + 1]] = prev[Nodes(m)[i + 1]]
      <3>1. i \in 0 .. size[m] + 1 /\ i + 1 \in 0 .. size[m] + 1
        BY NodesAt
      <3>2. Nodes(m)[i] \in Node /\ Nodes(m)[i + 1] \in Node
        BY <3>1, NodesAt
      <3>3. Nodes(m)[i] # w[k - 1] /\ Nodes(m)[i + 1] # w[k + 1]
        BY <1>3, <1>13, <3>1, Apart DEF w, n
      <3> QED
        BY <1>7, <3>2, <3>3
    <2> QED
      BY <1>11, <2>1, <2>2
  <1>14. /\ ListsSound'
         /\ Walk(l)' = [i \in 1 .. n - 1 |-> v[i]]
         /\ \A m \in List : m # l => Walk(m)' = Walk(m)
    <2> DEFINE p == n - 1
    <2>1. /\ Chain(next', prev', v, p) /\ v[p + 1] = TailOf(l)
          /\ \A i \in 1 .. p : v[i] \in Elem
          /\ \A m \in List : m # l => \A i \in 1 .. p, j \in 1 .. size[m] : v[i] # Nodes(m)[j]
      BY <1>8, <1>10, <1>11, <1>13
    <2>2. size'[l] = p /\ \A m \in List : m # l => size'[m] = size[m]
      BY <1>5, <1>6
    <2> HIDE DEF p
    <2>3. /\ ListsSound'
          /\ Walk(l)' = [i \in 1 .. p |-> v[i]]
          /\ \A m \in List : m # l => Walk(m)' = Walk(m)
      BY <1>10, <1>12, <1>13, <2>1, <2>2, Relinked
    <2> QED
      BY <2>3 DEF p
  <1>15. [i \in 1 .. n - 1 |-> v[i]]
           = [i \in 1 .. n - 1 |-> IF i < k THEN Walk(l)[i] ELSE Walk(l)[i + 1]]
    BY <1>11
  <1> QED
    BY <1>14, <1>15, Zenon DEF n

(* Exchanging the elements at places i and j, which are not neighbours.     *)
Cross(l, i, j) ==
  LET w == Nodes(l) IN
  /\ next'[w[i - 1]] = w[j] /\ next'[w[i]] = w[j + 1]
  /\ next'[w[j - 1]] = w[i] /\ next'[w[j]] = w[i + 1]
  /\ prev'[w[i + 1]] = w[j] /\ prev'[w[i]] = w[j - 1]
  /\ prev'[w[j + 1]] = w[i] /\ prev'[w[j]] = w[i - 1]
  /\ \A x \in Node \ {w[i - 1], w[i], w[j - 1], w[j]} : next'[x] = next[x]
  /\ \A x \in Node \ {w[i + 1], w[i], w[j + 1], w[j]} : prev'[x] = prev[x]
  /\ size' = size

LEMMA CrossKeeps ==
  ASSUME ListsSound, NEW l \in List, NEW i \in 1 .. size[l], NEW j \in 1 .. size[l], i + 1 < j,
         PointersTypeOK', Cross(l, i, j)
  PROVE  /\ ListsSound'
         /\ Walk(l)' = [k \in 1 .. size[l] |-> IF k = i THEN Walk(l)[j]
                                               ELSE IF k = j THEN Walk(l)[i] ELSE Walk(l)[k]]
         /\ \A m \in List : m # l => Walk(m)' = Walk(m)
  <1> DEFINE w == Nodes(l)
             n == size[l]
             v == Crossed(w, n, i, j)
  <1>1. /\ n \in Nat /\ i \in Nat /\ j \in Nat /\ 1 <= i /\ i <= n /\ 1 <= j /\ j <= n
        /\ w[0] = HeadOf(l) /\ w[n + 1] = TailOf(l)
        /\ \A k \in 1 .. n : w[k] \in Elem /\ Walk(l)[k] = w[k]
        /\ \A k \in 0 .. n + 1 : w[k] \in Node
    <2>1. n \in Nat
      BY NodesAt
    <2>2. i \in Nat /\ j \in Nat /\ 1 <= i /\ i <= n /\ 1 <= j /\ j <= n
      BY <2>1
    <2> QED
      BY <2>1, <2>2, NodesAt
  <1>2. Chain(next, prev, w, n) /\ \A k, m \in 0 .. n + 1 : w[k] = w[m] => k = m
    BY DEF ListsSound, Chained, Chain
  <1>3. /\ next'[w[i - 1]] = w[j] /\ next'[w[i]] = w[j + 1]
        /\ next'[w[j - 1]] = w[i] /\ next'[w[j]] = w[i + 1]
        /\ prev'[w[i + 1]] = w[j] /\ prev'[w[i]] = w[j - 1]
        /\ prev'[w[j + 1]] = w[i] /\ prev'[w[j]] = w[i - 1]
    BY DEF Cross
  <1>4. /\ \A x \in Node \ {w[i - 1], w[i], w[j - 1], w[j]} : next'[x] = next[x]
        /\ \A x \in Node \ {w[i + 1], w[i], w[j + 1], w[j]} : prev'[x] = prev[x]
        /\ size' = size
    BY DEF Cross
  <1>5. /\ i - 1 \in 0 .. n + 1 /\ i \in 0 .. n + 1 /\ i + 1 \in 0 .. n + 1
        /\ j - 1 \in 0 .. n + 1 /\ j \in 0 .. n + 1 /\ j + 1 \in 0 .. n + 1
        /\ i \in 1 .. n /\ j \in 1 .. n
    BY <1>1
  <1> HIDE DEF w, n
  <1>6. ASSUME NEW k \in 0 .. n, k \notin {i - 1, i, j - 1, j}
        PROVE  next'[w[k]] = next[w[k]]
    <2>1. k \in 0 .. n + 1
      BY <1>1
    <2>2. w[k] \notin {w[i - 1], w[i], w[j - 1], w[j]}
      BY <1>2, <1>5, <1>6, <2>1
    <2> QED
      BY <1>1, <1>4, <2>1, <2>2
  <1>7. ASSUME NEW k \in 1 .. n + 1, k \notin {i + 1, i, j + 1, j}
        PROVE  prev'[w[k]] = prev[w[k]]
    <2>1. k \in 0 .. n + 1
      BY <1>1
    <2>2. w[k] \notin {w[i + 1], w[i], w[j + 1], w[j]}
      BY <1>2, <1>5, <1>7, <2>1
    <2> QED
      BY <1>1, <1>4, <2>1, <2>2
  <1>8. Chain(next', prev', v, n)
    <2> HIDE DEF v
    <2> DEFINE nx == next'
               pv == prev'
    <2>1. /\ nx[w[i - 1]] = w[j] /\ nx[w[i]] = w[j + 1]
          /\ nx[w[j - 1]] = w[i] /\ nx[w[j]] = w[i + 1]
          /\ pv[w[i + 1]] = w[j] /\ pv[w[i]] = w[j - 1]
          /\ pv[w[j + 1]] = w[i] /\ pv[w[j]] = w[i - 1]
          /\ \A k \in 0 .. n : k \notin {i - 1, i, j - 1, j} => nx[w[k]] = next[w[k]]
          /\ \A k \in 1 .. n + 1 : k \notin {i + 1, i, j + 1, j} => pv[w[k]] = prev[w[k]]
      BY <1>3, <1>6, <1>7
    <2> HIDE DEF nx, pv
    <2>2. Chain(nx, pv, Crossed(w, n, i, j), n)
      BY <1>2, <1>5, <2>1, ChainCrossed
    <2> QED
      BY <2>2 DEF v, nx, pv
  <1>9. \A k \in 0 .. n + 1 : v[k] = IF k = i THEN w[j] ELSE IF k = j THEN w[i] ELSE w[k]
    BY DEF Crossed
  <1> HIDE DEF v
  <1>10. v[0] = HeadOf(l) /\ v[n + 1] = TailOf(l)
    <2>1. /\ 0 \in 0 .. n + 1 /\ 0 # i /\ 0 # j
          /\ n + 1 \in 0 .. n + 1 /\ n + 1 # i /\ n + 1 # j
      BY <1>1
    <2> QED
      BY <1>1, <1>9, <2>1
  <1>11. ASSUME NEW k \in 1 .. n
         PROVE  /\ v[k] = IF k = i THEN Walk(l)[j] ELSE IF k = j THEN Walk(l)[i] ELSE Walk(l)[k]
                /\ v[k] \in Elem
                /\ \E m \in 1 .. n : v[k] = w[m]
    <2>1. k \in 0 .. n + 1
      BY <1>1
    <2> QED
      BY <1>1, <1>5, <1>9, <2>1
  <1>12. ASSUME NEW m \in List, m # l
         PROVE  /\ \A k \in 1 .. n, h \in 1 .. size[m] : v[k] # Nodes(m)[h]
                /\ \A k \in 0 .. size[m] : next'[Nodes(m)[k]] = next[Nodes(m)[k]]
                                           /\ prev'[Nodes(m)[k + 1]] = prev[Nodes(m)[k + 1]]
    <2>1. \A k \in 1 .. n, h \in 1 .. size[m] : w[k] # Nodes(m)[h]
      BY <1>12 DEF ListsSound, Disjoint, w, n
    <2>2. ASSUME NEW k \in 0 .. size[m]
          PROVE  next'[Nodes(m)[k]] = next[Nodes(m)[k]]
                 /\ prev'[Nodes(m)[k + 1]] = prev[Nodes(m)[k + 1]]
      <3>1. k \in 0 .. size[m] + 1 /\ k + 1 \in 0 .. size[m] + 1
        BY NodesAt
      <3>2. Nodes(m)[k] \in Node /\ Nodes(m)[k + 1] \in Node
        BY <3>1, NodesAt
      <3>3. \A h \in 0 .. n + 1 : Nodes(m)[k] # w[h] /\ Nodes(m)[k + 1] # w[h]
        BY <1>12, <3>1, Apart DEF w, n
      <3> QED
        BY <1>4, <1>5, <3>2, <3>3
    <2> QED
      BY <1>11, <2>1, <2>2
  <1>13. /\ ListsSound'
         /\ Walk(l)' = [k \in 1 .. n |-> v[k]]
         /\ \A m \in List : m # l => Walk(m)' = Walk(m)
    <2>1. \A k \in 1 .. n : v[k] \in Elem
      BY <1>11
    <2>2. size'[l] = n /\ \A m \in List : m # l => size'[m] = size[m]
      BY <1>4 DEF n
    <2> QED
      BY <1>8, <1>10, <1>12, <2>1, <2>2, Relinked
  <1>14. [k \in 1 .. n |-> v[k]]
           = [k \in 1 .. n |-> IF k = i THEN Walk(l)[j]
                               ELSE IF k = j THEN Walk(l)[i] ELSE Walk(l)[k]]
    BY <1>11
  <1> QED
    BY <1>13, <1>14, Zenon DEF n

(* elem_swap of the elements at two places.                                *)
LEMMA SwapCrosses ==
  ASSUME ListsSound, NEW l \in List, NEW i \in 1 .. size[l], NEW j \in 1 .. size[l], i # j,
         Swap(l, Nodes(l)[i], Nodes(l)[j])
  PROVE  /\ i + 1 # j /\ j + 1 # i
         /\ PointersTypeOK' /\ Cross(l, i, j) /\ Cross(l, j, i)
  <1> DEFINE w == Nodes(l)
             n == size[l]
  <1>1. /\ n \in Nat /\ i \in Nat /\ j \in Nat /\ 1 <= i /\ i <= n /\ 1 <= j /\ j <= n
        /\ \A k \in 0 .. n + 1 : w[k] \in Node
    <2>1. n \in Nat
      BY NodesAt
    <2>2. i \in Nat /\ j \in Nat /\ 1 <= i /\ i <= n /\ 1 <= j /\ j <= n
      BY <2>1
    <2> QED
      BY <2>1, <2>2, NodesAt
  <1>2. /\ \A k, m \in 0 .. n + 1 : w[k] = w[m] => k = m
        /\ \A k \in 0 .. n : next[w[k]] = w[k + 1] /\ prev[w[k + 1]] = w[k]
    BY DEF ListsSound, Chained, Chain
  <1>3. /\ next[w[i]] = w[i + 1] /\ prev[w[i]] = w[i - 1]
        /\ next[w[j]] = w[j + 1] /\ prev[w[j]] = w[j - 1]
    <2>1. /\ i \in 0 .. n /\ i - 1 \in 0 .. n /\ (i - 1) + 1 = i
          /\ j \in 0 .. n /\ j - 1 \in 0 .. n /\ (j - 1) + 1 = j
      BY <1>1
    <2> QED
      BY <1>2, <2>1
  <1>4. next[w[i]] # w[j] /\ next[w[j]] # w[i]
    BY DEF Swap
  <1>5. i + 1 # j /\ j + 1 # i
    BY <1>3, <1>4
  <1>6. /\ i - 1 \in 0 .. n + 1 /\ i \in 0 .. n + 1 /\ i + 1 \in 0 .. n + 1
        /\ j - 1 \in 0 .. n + 1 /\ j \in 0 .. n + 1 /\ j + 1 \in 0 .. n + 1
        /\ i - 1 # j /\ i - 1 # j - 1 /\ i + 1 # j + 1 /\ j - 1 # i /\ i - 1 # i /\ i + 1 # i
        /\ j - 1 # j /\ j + 1 # j
    BY <1>1, <1>5
  <1> HIDE DEF w, n
  <1>7. /\ w[i - 1] # w[i] /\ w[i - 1] # w[j] /\ w[i - 1] # w[j - 1]
        /\ w[j - 1] # w[i] /\ w[j - 1] # w[j] /\ w[i] # w[j]
        /\ w[i + 1] # w[i] /\ w[i + 1] # w[j] /\ w[i + 1] # w[j + 1]
        /\ w[j + 1] # w[i] /\ w[j + 1] # w[j]
    BY <1>2, <1>5, <1>6
  <1>8. /\ w[i - 1] \in Node /\ w[i] \in Node /\ w[i + 1] \in Node
        /\ w[j - 1] \in Node /\ w[j] \in Node /\ w[j + 1] \in Node
    BY <1>1, <1>6
  <1>9. /\ next \in [Node -> Node \cup {Null}] /\ prev \in [Node -> Node \cup {Null}]
        /\ size \in [List -> Nat] /\ result \in Elem \cup {Null}
    BY DEF ListsSound, PointersTypeOK
  <1>10. /\ next' = [next EXCEPT ![w[i - 1]] = w[j], ![w[j - 1]] = w[i],
                                 ![w[i]] = w[j + 1], ![w[j]] = w[i + 1]]
         /\ prev' = [prev EXCEPT ![w[i]] = w[j - 1], ![w[j]] = w[i - 1],
                                 ![w[i + 1]] = w[j], ![w[j + 1]] = w[i]]
         /\ result' = Null /\ size' = size
    BY <1>3 DEF Swap, w, n
  <1>11. /\ next'[w[i - 1]] = w[j] /\ next'[w[i]] = w[j + 1]
         /\ next'[w[j - 1]] = w[i] /\ next'[w[j]] = w[i + 1]
         /\ \A x \in Node \ {w[i - 1], w[i], w[j - 1], w[j]} : next'[x] = next[x]
    BY <1>7, <1>8, <1>9, <1>10
  <1>12. /\ prev'[w[i + 1]] = w[j] /\ prev'[w[i]] = w[j - 1]
         /\ prev'[w[j + 1]] = w[i] /\ prev'[w[j]] = w[i - 1]
         /\ \A x \in Node \ {w[i + 1], w[i], w[j + 1], w[j]} : prev'[x] = prev[x]
    BY <1>7, <1>8, <1>9, <1>10
  <1>13. PointersTypeOK'
    <2>1. next' \in [Node -> Node \cup {Null}]
      BY <1>8, <1>9, <1>10
    <2>2. prev' \in [Node -> Node \cup {Null}]
      BY <1>8, <1>9, <1>10
    <2> QED
      BY <1>9, <1>10, <2>1, <2>2 DEF PointersTypeOK
  <1>14. Cross(l, i, j)
    BY <1>10, <1>11, <1>12 DEF Cross, w
  <1>15. Cross(l, j, i)
    BY <1>10, <1>11, <1>12 DEF Cross, w
  <1> QED
    BY <1>5, <1>13, <1>14, <1>15

(* elem_swap of an element with itself changes nothing.                    *)
LEMMA SwapSame ==
  ASSUME ListsSound, NEW l \in List, NEW i \in 1 .. size[l], Swap(l, Nodes(l)[i], Nodes(l)[i])
  PROVE  UNCHANGED <<next, prev, size>> /\ result' = Null
  <1> DEFINE w == Nodes(l)
             n == size[l]
  <1>1. n \in Nat /\ \A k \in 0 .. n + 1 : w[k] \in Node
    BY NodesAt
  <1>2. \A k \in 0 .. n : next[w[k]] = w[k + 1] /\ prev[w[k + 1]] = w[k]
    BY DEF ListsSound, Chained, Chain
  <1>3. /\ i \in 0 .. n + 1 /\ i - 1 \in 0 .. n + 1 /\ i + 1 \in 0 .. n + 1
        /\ i \in 0 .. n /\ i - 1 \in 0 .. n /\ (i - 1) + 1 = i
    BY <1>1
  <1>4. /\ next[w[i]] = w[i + 1] /\ prev[w[i]] = w[i - 1]
        /\ next[w[i - 1]] = w[i] /\ prev[w[i + 1]] = w[i]
    BY <1>2, <1>3
  <1>5. /\ next \in [Node -> Node \cup {Null}] /\ prev \in [Node -> Node \cup {Null}]
    BY DEF ListsSound, PointersTypeOK
  <1> HIDE DEF w, n
  <1>6. next' = [next EXCEPT ![w[i - 1]] = w[i], ![w[i - 1]] = w[i],
                             ![w[i]] = w[i + 1], ![w[i]] = w[i + 1]]
    BY <1>4 DEF Swap, w
  <1>7. prev' = [prev EXCEPT ![w[i]] = w[i - 1], ![w[i]] = w[i - 1],
                             ![w[i + 1]] = w[i], ![w[i + 1]] = w[i]]
    BY <1>4 DEF Swap, w
  <1>8. next' = next
    BY <1>4, <1>5, <1>6
  <1>9. prev' = prev
    BY <1>4, <1>5, <1>7
  <1> QED
    BY <1>8, <1>9 DEF Swap

-----------------------------------------------------------------------------

(* A sequence with an element more at its back or at its front.            *)
LEMMA AddedAt ==
  ASSUME NEW S, NEW s \in Seq(S), NEW e \in S, NEW k \in Nat, NEW t,
         t = [i \in 1 .. Len(s) + 1 |-> IF i <= k THEN s[i]
                                        ELSE IF i = k + 1 THEN e ELSE s[i - 1]]
  PROVE  /\ k = Len(s) => t = Append(s, e)
         /\ k = 0 => t = <<e>> \o s
  <1>1. Len(s) \in Nat
    OBVIOUS
  <1>2. k = Len(s) => t = Append(s, e)
    <2> SUFFICES ASSUME k = Len(s) PROVE t = Append(s, e)
      OBVIOUS
    <2> DEFINE n == Len(s)
    <2>1. t = [i \in 1 .. n + 1 |-> IF i = n + 1 THEN e ELSE s[i]]
      <3>1. \A i \in 1 .. n + 1 : (i <= n <=> i # n + 1)
        BY <1>1
      <3> QED
        BY <3>1
    <2> HIDE DEF n
    <2> DEFINE c == Append(s, e)
    <2>2. /\ c \in Seq(S) /\ Len(c) = n + 1 /\ c[n + 1] = e
          /\ \A i \in 1 .. n : c[i] = s[i]
      BY AppendProperties DEF n
    <2> HIDE DEF c
    <2>3. c = [i \in 1 .. n + 1 |-> c[i]]
      BY <2>2
    <2>4. \A i \in 1 .. n + 1 : c[i] = IF i = n + 1 THEN e ELSE s[i]
      <3>1. \A i \in 1 .. n + 1 : i # n + 1 => i \in 1 .. n
        BY <1>1 DEF n
      <3> QED
        BY <2>2, <3>1
    <2> QED
      BY <2>1, <2>3, <2>4 DEF c
  <1>3. k = 0 => t = <<e>> \o s
    <2> SUFFICES ASSUME k = 0 PROVE t = <<e>> \o s
      OBVIOUS
    <2> DEFINE n == Len(s)
               c == <<e>> \o s
    <2>1. /\ c \in Seq(S) /\ Len(c) = 1 + n
          /\ \A i \in 1 .. 1 + n : c[i] = IF i <= 1 THEN <<e>>[i] ELSE s[i - 1]
      <3>1. <<e>> \in Seq(S) /\ Len(<<e>>) = 1
        OBVIOUS
      <3> QED
        BY <3>1, ConcatProperties
    <2> HIDE DEF c
    <2>2. c = [i \in 1 .. n + 1 |-> c[i]]
      BY <1>1, <2>1
    <2>3. \A i \in 1 .. n + 1 : c[i] = IF i <= k THEN s[i] ELSE IF i = k + 1 THEN e ELSE s[i - 1]
      <3>1. \A i \in 1 .. n + 1 : ~ (i <= 0) /\ (i <= 1 <=> i = 0 + 1) /\ i \in 1 .. 1 + n
        BY <1>1
      <3>2. <<e>>[1] = e
        OBVIOUS
      <3> QED
        BY <2>1, <3>1, <3>2
    <2> QED
      BY <2>2, <2>3 DEF c
  <1> QED
    BY <1>2, <1>3

(* A sequence without one of its elements, its first and its last one in    *)
(* particular.                                                             *)
LEMMA RemovedAt ==
  ASSUME NEW S, NEW s \in Seq(S), NEW k \in 1 .. Len(s), NEW t,
         t = [i \in 1 .. Len(s) - 1 |-> IF i < k THEN s[i] ELSE s[i + 1]]
  PROVE  /\ t = RemoveAt(s, k)
         /\ k = 1 => t = Tail(s)
         /\ k = Len(s) => t = Front(s)
  <1> DEFINE n == Len(s)
  <1>1. n \in Nat /\ k \in Nat /\ 1 <= k /\ k <= n /\ \A i \in 1 .. n : s[i] \in S
    OBVIOUS
  <1> HIDE DEF n
  <1>2. t = RemoveAt(s, k)
    <2> DEFINE a == SubSeq(s, 1, k - 1)
               b == SubSeq(s, k + 1, n)
               c == a \o b
    <2>1. /\ a \in Seq(S) /\ Len(a) = k - 1
          /\ \A i \in 1 .. k - 1 : a[i] = s[i]
      <3>1. \A i \in 1 .. k - 1 : s[i] \in S
        BY <1>1
      <3>2. /\ a \in Seq(S) /\ Len(a) = IF 1 <= k - 1 THEN (k - 1) - 1 + 1 ELSE 0
            /\ \A i \in 1 .. (k - 1) - 1 + 1 : a[i] = s[1 + i - 1]
        BY <1>1, <3>1, SubSeqProperties
      <3> HIDE DEF a
      <3>3. (k - 1) - 1 + 1 = k - 1 /\ \A i \in 1 .. k - 1 : 1 + i - 1 = i
        BY <1>1
      <3> QED
        BY <1>1, <3>2, <3>3
    <2>2. /\ b \in Seq(S) /\ Len(b) = n - k
          /\ \A i \in 1 .. n - k : b[i] = s[k + i]
      <3>1. \A i \in k + 1 .. n : s[i] \in S
        BY <1>1
      <3>2. /\ b \in Seq(S) /\ Len(b) = IF k + 1 <= n THEN n - (k + 1) + 1 ELSE 0
            /\ \A i \in 1 .. n - (k + 1) + 1 : b[i] = s[(k + 1) + i - 1]
        BY <1>1, <3>1, SubSeqProperties
      <3> HIDE DEF b
      <3>3. n - (k + 1) + 1 = n - k /\ \A i \in 1 .. n - k : (k + 1) + i - 1 = k + i
        BY <1>1
      <3> QED
        BY <1>1, <3>2, <3>3
    <2> HIDE DEF a, b
    <2>3. /\ c \in Seq(S) /\ Len(c) = n - 1
          /\ \A i \in 1 .. n - 1 : c[i] = IF i <= k - 1 THEN a[i] ELSE b[i - (k - 1)]
      <3>1. (k - 1) + (n - k) = n - 1
        BY <1>1
      <3>2. /\ c \in Seq(S) /\ Len(c) = Len(a) + Len(b)
            /\ \A i \in 1 .. Len(a) + Len(b) : c[i] = IF i <= Len(a) THEN a[i] ELSE b[i - Len(a)]
        BY <2>1, <2>2, ConcatProperties
      <3> HIDE DEF c
      <3>3. Len(a) = k - 1 /\ Len(a) + Len(b) = n - 1
        BY <2>1, <2>2, <3>1
      <3> QED
        BY <3>2, <3>3
    <2> HIDE DEF c
    <2>4. \A i \in 1 .. n - 1 : c[i] = IF i < k THEN s[i] ELSE s[i + 1]
      <3> SUFFICES ASSUME NEW i \in 1 .. n - 1 PROVE c[i] = IF i < k THEN s[i] ELSE s[i + 1]
        OBVIOUS
      <3>1. CASE i < k
        <4>1. i \in 1 .. k - 1 /\ i <= k - 1
          BY <1>1, <3>1
        <4> QED
          BY <2>1, <2>3, <3>1, <4>1
      <3>2. CASE ~ (i < k)
        <4>1. ~ (i <= k - 1) /\ i - (k - 1) \in 1 .. n - k /\ k + (i - (k - 1)) = i + 1
          BY <1>1, <3>2
        <4> DEFINE j == i - (k - 1)
        <4>2. c[i] = b[j] /\ j \in 1 .. n - k /\ k + j = i + 1
          BY <2>3, <4>1
        <4> HIDE DEF j
        <4>3. b[j] = s[k + j]
          BY <2>2, <4>2
        <4> QED
          BY <3>2, <4>2, <4>3
      <3> QED
        BY <3>1, <3>2
    <2>5. c = [i \in 1 .. n - 1 |-> c[i]]
      BY <2>3
    <2> QED
      BY <2>4, <2>5 DEF n, a, b, c, RemoveAt
  <1>3. k = 1 => t = Tail(s)
    <2> SUFFICES ASSUME k = 1 PROVE t = Tail(s)
      OBVIOUS
    <2> DEFINE c == Tail(s)
    <2>1. c \in Seq(S) /\ Len(c) = n - 1 /\ \A i \in 1 .. n - 1 : c[i] = s[i + 1]
      <3>1. s # <<>>
        BY <1>1 DEF n
      <3> QED
        BY <3>1, HeadTailProperties DEF n
    <2> HIDE DEF c
    <2>2. c = [i \in 1 .. n - 1 |-> c[i]]
      BY <2>1
    <2>3. \A i \in 1 .. n - 1 : ~ (i < k)
      BY <1>1
    <2> QED
      BY <2>1, <2>2, <2>3 DEF c, n
  <1>4. k = n => t = Front(s)
    <2> SUFFICES ASSUME k = n PROVE t = Front(s)
      OBVIOUS
    <2> DEFINE c == SubSeq(s, 1, n - 1)
    <2>1. /\ c \in Seq(S) /\ Len(c) = n - 1
          /\ \A i \in 1 .. n - 1 : c[i] = s[i]
      <3>1. \A i \in 1 .. n - 1 : s[i] \in S
        BY <1>1
      <3>2. /\ c \in Seq(S) /\ Len(c) = IF 1 <= n - 1 THEN (n - 1) - 1 + 1 ELSE 0
            /\ \A i \in 1 .. (n - 1) - 1 + 1 : c[i] = s[1 + i - 1]
        BY <1>1, <3>1, SubSeqProperties
      <3> HIDE DEF c
      <3>3. (n - 1) - 1 + 1 = n - 1 /\ \A i \in 1 .. n - 1 : 1 + i - 1 = i
        BY <1>1
      <3> QED
        BY <1>1, <3>2, <3>3
    <2> HIDE DEF c
    <2>2. c = [i \in 1 .. n - 1 |-> c[i]]
      BY <2>1
    <2>3. \A i \in 1 .. n - 1 : i < k
      BY <1>1
    <2> QED
      BY <2>1, <2>2, <2>3 DEF c, n, Front
  <1> QED
    BY <1>2, <1>3, <1>4 DEF n

(* list_foreach walks over a sequence of size elements, the nodes between   *)
(* the sentinels.                                                          *)
LEMMA WalkIsSeq ==
  ASSUME ListsSound, NEW l \in List
  PROVE  /\ Walk(l) \in Seq(Elem) /\ Len(Walk(l)) = size[l]
         /\ Member(l) = {Nodes(l)[i] : i \in 1 .. size[l]}
         /\ \A i \in 0 .. size[l] : next[Nodes(l)[i]] = Nodes(l)[i + 1]
                                    /\ prev[Nodes(l)[i + 1]] = Nodes(l)[i]
         /\ \A i, j \in 0 .. size[l] + 1 : Nodes(l)[i] = Nodes(l)[j] => i = j
         /\ size[l] # 0 => Begin(l) = Nodes(l)[1] /\ prev[TailOf(l)] = Nodes(l)[size[l]]
  <1>1. /\ size[l] \in Nat
        /\ Walk(l) = [i \in 1 .. size[l] |-> Nodes(l)[i]]
        /\ \A i \in 1 .. size[l] : Nodes(l)[i] \in Elem
    BY DEF ListsSound, PointersTypeOK, Chained
  <1>2. Walk(l) \in Seq(Elem) /\ Len(Walk(l)) = size[l]
    BY <1>1
  <1>3. Member(l) = {Nodes(l)[i] : i \in 1 .. size[l]}
    BY <1>1 DEF Member, ToSet
  <1>4. /\ \A i \in 0 .. size[l] : next[Nodes(l)[i]] = Nodes(l)[i + 1]
                                   /\ prev[Nodes(l)[i + 1]] = Nodes(l)[i]
        /\ \A i, j \in 0 .. size[l] + 1 : Nodes(l)[i] = Nodes(l)[j] => i = j
    BY DEF ListsSound, Chained, Chain
  <1>5. size[l] # 0 => Begin(l) = Nodes(l)[1] /\ prev[TailOf(l)] = Nodes(l)[size[l]]
    <2>1. 0 \in 0 .. size[l] /\ size[l] \in 0 .. size[l] /\ 0 + 1 = 1
      BY <1>1
    <2>2. Nodes(l)[0] = HeadOf(l) /\ Nodes(l)[size[l] + 1] = TailOf(l)
      BY NodesAt
    <2>3. next[Nodes(l)[0]] = Nodes(l)[0 + 1] /\ prev[Nodes(l)[size[l] + 1]] = Nodes(l)[size[l]]
      BY <1>4, <2>1
    <2> QED
      BY <2>1, <2>2, <2>3 DEF Begin
  <1> QED
    BY <1>2, <1>3, <1>4, <1>5

(* A call that changes what one list holds, and that alone.                *)
LEMMA ContentChange ==
  ASSUME NEW l \in List, NEW q, Walk(l)' = q, \A m \in List : m # l => Walk(m)' = Walk(m)
  PROVE  Sequential!Change(l, q)
  BY DEF Sequential!Change

(* list_push_back and list_push_front.                                     *)
LEMMA PushKeeps ==
  ASSUME ListsSound, NEW l \in List, NEW e \in Elem, PushBack(l, e) \/ PushFront(l, e)
  PROVE  ListsSound' /\ Sequential!Insert(l, e)
  <1>1. /\ size[l] \in Nat /\ Nodes(l)[0] = HeadOf(l) /\ Nodes(l)[size[l] + 1] = TailOf(l)
        /\ Walk(l) \in Seq(Elem) /\ Len(Walk(l)) = size[l]
    BY NodesAt, WalkIsSeq
  <1>2. e \notin Sequential!Linked
    <2>1. \A m \in List : e \notin ToSet(Walk(m))
      BY DEF PushBack, PushFront, Unlinked, Member
    <2>2. \A m \in List : Sequential!ToSet([h \in List |-> Walk(h)][m]) = ToSet(Walk(m))
      BY DEF Sequential!ToSet, ToSet
    <2> QED
      BY <2>1, <2>2, Zenon DEF Sequential!Linked
  <1>3. Unlinked(e) /\ result' = Null
    BY DEF PushBack, PushFront
  <1>4. CASE PushBack(l, e)
    <2>1. Nodes(l)[size[l]] = IF size[l] = 0 THEN HeadOf(l) ELSE prev[TailOf(l)]
      BY <1>1, WalkIsSeq
    <2>2. Link(l, size[l], e)
      BY <1>1, <1>4, <2>1 DEF PushBack, Link
    <2>3. size[l] \in 0 .. size[l]
      BY <1>1
    <2>4. /\ ListsSound'
          /\ Walk(l)' = [i \in 1 .. size[l] + 1 |->
                           IF i <= size[l] THEN Walk(l)[i]
                           ELSE IF i = size[l] + 1 THEN e ELSE Walk(l)[i - 1]]
          /\ \A m \in List : m # l => Walk(m)' = Walk(m)
      BY <1>3, <2>2, <2>3, InsertKeeps
    <2>5. Walk(l)' = Append(Walk(l), e)
      BY <1>1, <2>4, AddedAt
    <2>6. Sequential!Change(l, Append(Walk(l), e))
      BY <2>4, <2>5, ContentChange
    <2> QED
      BY <1>2, <1>3, <2>4, <2>6 DEF Sequential!Insert
  <1>5. CASE PushFront(l, e)
    <2>1. Nodes(l)[0 + 1] = IF size[l] = 0 THEN TailOf(l) ELSE next[HeadOf(l)]
      BY <1>1, WalkIsSeq DEF Begin
    <2>2. Link(l, 0, e)
      <3>1. e # HeadOf(l) /\ e # Nodes(l)[0 + 1]
        BY <1>1, <1>3, FreshNode
      <3>2. next' = [next EXCEPT ![HeadOf(l)] = e, ![e] = Nodes(l)[0 + 1]]
        BY <1>5, <2>1, <3>1 DEF PushFront
      <3>3. prev' = [prev EXCEPT ![e] = HeadOf(l), ![Nodes(l)[0 + 1]] = e]
        BY <1>5, <2>1, <3>1 DEF PushFront
      <3> QED
        BY <1>1, <1>5, <3>2, <3>3 DEF PushFront, Link
    <2>3. 0 \in 0 .. size[l]
      BY <1>1
    <2>4. /\ ListsSound'
          /\ Walk(l)' = [i \in 1 .. size[l] + 1 |->
                           IF i <= 0 THEN Walk(l)[i]
                           ELSE IF i = 0 + 1 THEN e ELSE Walk(l)[i - 1]]
          /\ \A m \in List : m # l => Walk(m)' = Walk(m)
      BY <1>3, <2>2, <2>3, InsertKeeps
    <2>5. Walk(l)' = <<e>> \o Walk(l)
      BY <1>1, <2>4, AddedAt
    <2>6. Sequential!Change(l, <<e>> \o Walk(l))
      BY <2>4, <2>5, ContentChange
    <2> QED
      BY <1>2, <1>3, <2>4, <2>6 DEF Sequential!Insert
  <1> QED
    BY <1>4, <1>5

(* list_pop_back and list_pop_front.                                       *)
LEMMA PopKeeps ==
  ASSUME ListsSound, NEW l \in List, PopNothing(l) \/ PopBack(l) \/ PopFront(l)
  PROVE  ListsSound' /\ Sequential!Pop(l)
  <1>1. /\ size[l] \in Nat /\ Walk(l) \in Seq(Elem) /\ Len(Walk(l)) = size[l]
        /\ \A i \in 1 .. size[l] : Nodes(l)[i] \in Elem /\ Walk(l)[i] = Nodes(l)[i]
    BY NodesAt, WalkIsSeq
  <1>2. CASE PopNothing(l)
    <2>1. Walk(l) = <<>>
      BY <1>1, <1>2 DEF PopNothing
    <2>2. UNCHANGED <<next, prev, size>> /\ result' = Null
      BY <1>2 DEF PopNothing
    <2>3. /\ \A m \in List : Walk(m)' = Walk(m) /\ Nodes(m)' = Nodes(m)
          /\ PointersTypeOK'
      <3>1. \A m \in List : Walk(m)' = Walk(m)
        BY <2>2 DEF Walk, Begin
      <3> QED
        BY <2>2, <3>1 DEF ListsSound, PointersTypeOK, Nodes
    <2>4. ListsSound'
      BY <2>2, <2>3 DEF ListsSound, Chained, Disjoint
    <2> QED
      BY <2>1, <2>2, <2>3, <2>4 DEF Sequential!Pop
  <1>3. CASE PopBack(l)
    <2>1. size[l] \in 1 .. size[l] /\ prev[TailOf(l)] = Nodes(l)[size[l]]
      BY <1>1, <1>3, WalkIsSeq DEF PopBack
    <2>2. Unlink(l, Nodes(l)[size[l]]) /\ result' = Nodes(l)[size[l]]
      BY <1>3, <2>1 DEF PopBack
    <2>3. result' \in Elem \cup {Null} /\ result' = Last(Walk(l)) /\ Walk(l) # <<>>
      BY <1>1, <2>1, <2>2 DEF Last
    <2>4. /\ ListsSound'
          /\ Walk(l)' = [i \in 1 .. size[l] - 1 |->
                           IF i < size[l] THEN Walk(l)[i] ELSE Walk(l)[i + 1]]
          /\ \A m \in List : m # l => Walk(m)' = Walk(m)
      BY <2>1, <2>2, <2>3, UnlinkKeeps
    <2>5. Walk(l)' = Front(Walk(l))
      BY <1>1, <2>1, <2>4, RemovedAt
    <2>6. Sequential!Change(l, Front(Walk(l)))
      BY <2>4, <2>5, ContentChange
    <2>7. /\ Sequential!Front(Walk(l)) = Front(Walk(l))
          /\ Sequential!Last(Walk(l)) = Last(Walk(l))
      BY DEF Sequential!Front, Front, Sequential!Last, Last
    <2> QED
      BY <2>3, <2>4, <2>6, <2>7 DEF Sequential!Pop
  <1>4. CASE PopFront(l)
    <2>1. 1 \in 1 .. size[l] /\ Begin(l) = Nodes(l)[1]
      BY <1>1, <1>4, WalkIsSeq DEF PopFront
    <2>2. Unlink(l, Nodes(l)[1]) /\ result' = Nodes(l)[1]
      BY <1>4, <2>1 DEF PopFront
    <2>3. result' \in Elem \cup {Null} /\ result' = Head(Walk(l)) /\ Walk(l) # <<>>
      BY <1>1, <2>1, <2>2
    <2>4. /\ ListsSound'
          /\ Walk(l)' = [i \in 1 .. size[l] - 1 |->
                           IF i < 1 THEN Walk(l)[i] ELSE Walk(l)[i + 1]]
          /\ \A m \in List : m # l => Walk(m)' = Walk(m)
      BY <2>1, <2>2, <2>3, UnlinkKeeps
    <2>5. Walk(l)' = Tail(Walk(l))
      BY <1>1, <2>1, <2>4, RemovedAt, ZenonT(40)
    <2>6. Sequential!Change(l, Tail(Walk(l)))
      BY <2>4, <2>5, ContentChange
    <2> QED
      BY <2>3, <2>4, <2>6 DEF Sequential!Pop
  <1> QED
    BY <1>2, <1>3, <1>4

(* list_remove.                                                            *)
LEMMA DeleteKeeps ==
  ASSUME ListsSound, NEW l \in List, NEW e \in Elem, Delete(l, e)
  PROVE  ListsSound' /\ Sequential!Delete(l, e)
  <1>1. /\ size[l] \in Nat /\ Walk(l) \in Seq(Elem) /\ Len(Walk(l)) = size[l]
        /\ \A i \in 1 .. size[l] : Nodes(l)[i] \in Elem /\ Walk(l)[i] = Nodes(l)[i]
        /\ DOMAIN Walk(l) = 1 .. size[l]
    BY NodesAt, WalkIsSeq
  <1>2. PICK k \in 1 .. size[l] : Nodes(l)[k] = e
    BY WalkIsSeq DEF Delete
  <1>3. Unlink(l, Nodes(l)[k]) /\ result' = Null
    BY <1>2 DEF Delete
  <1>4. /\ ListsSound'
        /\ Walk(l)' = [i \in 1 .. size[l] - 1 |->
                         IF i < k THEN Walk(l)[i] ELSE Walk(l)[i + 1]]
        /\ \A m \in List : m # l => Walk(m)' = Walk(m)
    BY <1>3, UnlinkKeeps
  <1>5. Walk(l)' = RemoveAt(Walk(l), k)
    BY <1>1, <1>4, RemovedAt
  <1>6. Sequential!Change(l, RemoveAt(Walk(l), k))
    BY <1>4, <1>5, ContentChange
  <1>7. \E i \in DOMAIN Walk(l) :
          Walk(l)[i] = e /\ Sequential!Change(l, Sequential!RemoveAt(Walk(l), i))
    <2>1. Sequential!RemoveAt(Walk(l), k) = RemoveAt(Walk(l), k)
      BY DEF RemoveAt, Sequential!RemoveAt
    <2> QED
      BY <1>1, <1>2, <1>6, <2>1
  <1>8. [h \in List |-> Walk(h)][l] = Walk(l)
    OBVIOUS
  <1> QED
    BY <1>3, <1>4, <1>7, <1>8, Zenon DEF Sequential!Delete

(* A call that leaves every pointer as it was.                             *)
LEMMA SameKeeps ==
  ASSUME ListsSound, UNCHANGED <<next, prev, size>>, result' \in Elem \cup {Null}
  PROVE  ListsSound' /\ \A m \in List : Walk(m)' = Walk(m)
  <1>1. \A m \in List : Walk(m)' = Walk(m)
    BY DEF Walk, Begin
  <1>2. \A m \in List : Nodes(m)' = Nodes(m)
    BY <1>1 DEF Nodes
  <1>3. PointersTypeOK'
    BY DEF ListsSound, PointersTypeOK
  <1> QED
    BY <1>1, <1>2, <1>3 DEF ListsSound, Chained, Disjoint

(* elem_swap.                                                              *)
LEMMA SwapKeeps ==
  ASSUME ListsSound, NEW l \in List, NEW e \in Elem, NEW f \in Elem, Swap(l, e, f)
  PROVE  ListsSound' /\ Sequential!Exchange(l, e, f)
  <1> DEFINE s == Walk(l)
             t == [k \in 1 .. size[l] |-> CASE s[k] = e -> f [] s[k] = f -> e [] OTHER -> s[k]]
  <1>1. /\ size[l] \in Nat /\ s \in Seq(Elem) /\ Len(s) = size[l] /\ DOMAIN s = 1 .. size[l]
        /\ \A k \in 1 .. size[l] : Nodes(l)[k] \in Elem /\ s[k] = Nodes(l)[k]
    BY NodesAt, WalkIsSeq
  <1>2. e \in Member(l) /\ f \in Member(l) /\ result' = Null
    BY DEF Swap
  <1>3. /\ \E k \in 1 .. size[l] : Nodes(l)[k] = e
        /\ \E k \in 1 .. size[l] : Nodes(l)[k] = f
    BY <1>2, WalkIsSeq
  <1>4. PICK i \in 1 .. size[l] : Nodes(l)[i] = e
    BY <1>3
  <1>5. PICK j \in 1 .. size[l] : Nodes(l)[j] = f
    BY <1>3
  <1>6. \A k, m \in 1 .. size[l] : s[k] = s[m] => k = m
    <2>1. \A k \in 1 .. size[l] : k \in 0 .. size[l] + 1
      BY <1>1
    <2> QED
      BY <1>1, <2>1, WalkIsSeq
  <1>7. s[i] = e /\ s[j] = f
    BY <1>1, <1>4, <1>5
  <1> HIDE DEF s
  <1>8. ListsSound' /\ Walk(l)' = t /\ \A m \in List : m # l => Walk(m)' = Walk(m)
    <2>1. CASE i = j
      <3>1. UNCHANGED <<next, prev, size>>
        BY <1>4, <1>5, <2>1, SwapSame
      <3>2. ListsSound' /\ \A m \in List : Walk(m)' = Walk(m)
        BY <1>2, <3>1, SameKeeps
      <3>3. \A k \in 1 .. size[l] : s[k] = CASE s[k] = e -> f [] s[k] = f -> e [] OTHER -> s[k]
        BY <1>4, <1>5, <2>1
      <3>4. s = [k \in 1 .. size[l] |-> s[k]]
        BY <1>1
      <3>5. s = t
        BY <3>3, <3>4
      <3> QED
        BY <3>2, <3>5 DEF s
    <2>2. CASE i # j
      <3>1. /\ i + 1 # j /\ j + 1 # i /\ PointersTypeOK' /\ Cross(l, i, j) /\ Cross(l, j, i)
        BY <1>4, <1>5, <2>2, SwapCrosses
      <3>2. i + 1 < j \/ j + 1 < i
        BY <1>1, <2>2, <3>1
      <3>3. \A k \in 1 .. size[l] :
              /\ (k = i => (CASE s[k] = e -> f [] s[k] = f -> e [] OTHER -> s[k]) = s[j])
              /\ (k = j => (CASE s[k] = e -> f [] s[k] = f -> e [] OTHER -> s[k]) = s[i])
              /\ (k # i /\ k # j =>
                    (CASE s[k] = e -> f [] s[k] = f -> e [] OTHER -> s[k]) = s[k])
        BY <1>6, <1>7, <2>2
      <3>4. CASE i + 1 < j
        <4>1. /\ ListsSound'
              /\ Walk(l)' = [k \in 1 .. size[l] |-> IF k = i THEN s[j]
                                                    ELSE IF k = j THEN s[i] ELSE s[k]]
              /\ \A m \in List : m # l => Walk(m)' = Walk(m)
          BY <3>1, <3>4, CrossKeeps DEF s
        <4>2. [k \in 1 .. size[l] |-> IF k = i THEN s[j] ELSE IF k = j THEN s[i] ELSE s[k]] = t
          BY <3>3
        <4> QED
          BY <4>1, <4>2
      <3>5. CASE j + 1 < i
        <4>1. /\ ListsSound'
              /\ Walk(l)' = [k \in 1 .. size[l] |-> IF k = j THEN s[i]
                                                    ELSE IF k = i THEN s[j] ELSE s[k]]
              /\ \A m \in List : m # l => Walk(m)' = Walk(m)
          BY <3>1, <3>5, CrossKeeps DEF s
        <4>2. [k \in 1 .. size[l] |-> IF k = j THEN s[i] ELSE IF k = i THEN s[j] ELSE s[k]] = t
          BY <3>3
        <4> QED
          BY <4>1, <4>2
      <3> QED
        BY <3>2, <3>4, <3>5
    <2> QED
      BY <2>1, <2>2
  <1>9. Sequential!Change(l, t)
    <2> HIDE DEF t
    <2> QED
      BY <1>8, ContentChange
  <1>10. {e, f} \subseteq Sequential!ToSet(s)
    BY <1>1, <1>4, <1>5, <1>7 DEF Sequential!ToSet
  <1>11. [h \in List |-> Walk(h)][l] = s
    BY DEF s
  <1>12. t = [k \in DOMAIN [h \in List |-> Walk(h)][l] |->
               CASE [h \in List |-> Walk(h)][l][k] = e -> f
                 [] [h \in List |-> Walk(h)][l][k] = f -> e
                 [] OTHER -> [h \in List |-> Walk(h)][l][k]]
    BY <1>1, <1>11
  <1> QED
    BY <1>2, <1>8, <1>9, <1>10, <1>11, <1>12 DEF Sequential!Exchange

-----------------------------------------------------------------------------

(* Every call keeps the invariant and is one of the calls on sequences.    *)
LEMMA CallsKeep ==
  ASSUME ListsSound, ListsNext
  PROVE  ListsSound' /\ Sequential!Next
  <1>1. PICK l \in List :
          \/ PopNothing(l) \/ PopBack(l) \/ PopFront(l)
          \/ \E e \in Elem : PushBack(l, e) \/ PushFront(l, e) \/ Delete(l, e)
          \/ \E e, f \in Elem : Swap(l, e, f)
    BY DEF ListsNext
  <1>2. CASE PopNothing(l) \/ PopBack(l) \/ PopFront(l)
    BY <1>2, PopKeeps DEF Sequential!Next
  <1>3. ASSUME NEW e \in Elem, PushBack(l, e) \/ PushFront(l, e)
        PROVE  ListsSound' /\ Sequential!Next
    BY <1>3, PushKeeps DEF Sequential!Next
  <1>4. ASSUME NEW e \in Elem, Delete(l, e)
        PROVE  ListsSound' /\ Sequential!Next
    BY <1>4, DeleteKeeps DEF Sequential!Next
  <1>5. ASSUME NEW e \in Elem, NEW f \in Elem, Swap(l, e, f)
        PROVE  ListsSound' /\ Sequential!Next
    BY <1>5, SwapKeeps DEF Sequential!Next
  <1> QED
    BY <1>1, <1>2, <1>3, <1>4, <1>5

(* In every reachable state, every list of list.c is a chain of size        *)
(* elements between its own sentinels, linked the same way backward as     *)
(* forward, and no element is in two lists.                                *)
THEOREM ListsKept == ListsSpec => []ListsSound
  <1>1. ListsInit => ListsSound
    BY InitSound
  <1>2. ListsSound /\ [ListsNext]_listVars => ListsSound'
    <2> SUFFICES ASSUME ListsSound, [ListsNext]_listVars PROVE ListsSound'
      OBVIOUS
    <2>1. CASE ListsNext
      BY <2>1, CallsKeep
    <2>2. CASE UNCHANGED listVars
      <3>1. UNCHANGED <<next, prev, size>> /\ result' = result /\ result \in Elem \cup {Null}
        BY <2>2 DEF listVars, ListsSound, PointersTypeOK
      <3> QED
        BY <3>1, SameKeeps
    <2> QED
      BY <2>1, <2>2
  <1> QED
    BY <1>1, <1>2, PTL DEF ListsSpec

(* A chain has no more elements than there are.                            *)
LEMMA SizeBound ==
  ASSUME ListsSound, NEW l \in List
  PROVE  size[l] \in 0 .. Cardinality(Elem)
  <1> DEFINE I == 1 .. size[l]
             f == [i \in I |-> Nodes(l)[i]]
  <1>1. size[l] \in Nat /\ \A i \in I : Nodes(l)[i] \in Elem
    BY NodesAt
  <1>2. IsFiniteSet(I) /\ Cardinality(I) = size[l]
    BY <1>1, FS_Interval
  <1>3. IsFiniteSet(Elem) /\ Cardinality(Elem) \in Nat
    BY NodeAssumption, FS_CardinalityType
  <1>4. \A i, j \in I : Nodes(l)[i] = Nodes(l)[j] => i = j
    <2>1. \A i \in I : i \in 0 .. size[l] + 1
      BY <1>1
    <2> QED
      BY <2>1, WalkIsSeq
  <1> DEFINE Img == {Nodes(l)[i] : i \in I}
  <1>5. f \in Bijection(I, Img)
    BY <1>4 DEF Bijection, Injection, Surjection, IsInjective
  <1>6. IsFiniteSet(Img) /\ Cardinality(Img) = Cardinality(I)
    BY <1>2, <1>5, FS_Bijection, Zenon DEF ExistsBijection
  <1>7. Img \subseteq Elem
    BY <1>1
  <1> HIDE DEF Img, f, I
  <1>8. Cardinality(Img) <= Cardinality(Elem)
    BY <1>3, <1>7, FS_Subset
  <1> QED
    BY <1>1, <1>2, <1>3, <1>6, <1>8

(* The links of a list always lead to nodes, and a list is never longer     *)
(* than there are elements.                                                *)
THEOREM ListsTyped == ListsSpec => []ListsTypeOK
  <1>1. ListsSound => ListsTypeOK
    <2> SUFFICES ASSUME ListsSound PROVE ListsTypeOK
      OBVIOUS
    <2>1. \A l \in List : size[l] \in 0 .. Cardinality(Elem)
      BY SizeBound
    <2> QED
      BY <2>1 DEF ListsSound, PointersTypeOK, ListsTypeOK
  <1> QED
    BY <1>1, ListsKept, PTL

(* From list_begin, size steps of list_next lead to list_end through        *)
(* elements, and prev undoes next on the way.                              *)
THEOREM BothWays == ListsSpec => []Mirrored
  <1>1. ListsSound => Mirrored
    <2> SUFFICES ASSUME ListsSound, NEW l \in List
                 PROVE  /\ Member(l) \subseteq Elem
                        /\ WalksTo(l) = TailOf(l)
                        /\ \A n \in Member(l) \cup {HeadOf(l)} : prev[next[n]] = n
      BY DEF Mirrored
    <2>1. /\ size[l] \in Nat
          /\ Nodes(l)[0] = HeadOf(l) /\ Nodes(l)[size[l] + 1] = TailOf(l)
          /\ \A i \in 1 .. size[l] : Nodes(l)[i] \in Elem /\ Walk(l)[i] = Nodes(l)[i]
          /\ Member(l) = {Nodes(l)[i] : i \in 1 .. size[l]}
          /\ \A i \in 0 .. size[l] : next[Nodes(l)[i]] = Nodes(l)[i + 1]
                                     /\ prev[Nodes(l)[i + 1]] = Nodes(l)[i]
      BY NodesAt, WalkIsSeq
    <2>2. Member(l) \subseteq Elem
      BY <2>1
    <2>3. WalksTo(l) = TailOf(l)
      <3>1. CASE size[l] = 0
        BY <3>1 DEF WalksTo, Begin
      <3>2. CASE size[l] # 0
        <4>1. size[l] \in 1 .. size[l] /\ size[l] \in 0 .. size[l]
          BY <2>1, <3>2
        <4> QED
          BY <2>1, <3>2, <4>1 DEF WalksTo
      <3> QED
        BY <3>1, <3>2
    <2>4. ASSUME NEW n \in Member(l) \cup {HeadOf(l)} PROVE prev[next[n]] = n
      <3>1. \E i \in 0 .. size[l] : n = Nodes(l)[i]
        <4>1. 0 \in 0 .. size[l] /\ \A i \in 1 .. size[l] : i \in 0 .. size[l]
          BY <2>1
        <4> QED
          BY <2>1, <4>1
      <3> QED
        BY <2>1, <3>1
    <2> QED
      BY <2>2, <2>3, <2>4
  <1> QED
    BY <1>1, ListsKept, PTL

(* The pointer code implements sequences of elements, an element being in   *)
(* one of them at most: each call does to the list it is given what its    *)
(* name says, and nothing to another.                                      *)
THEOREM ListsAreSequences == ListsSpec => KeepsOrder
  <1>1. ListsInit => Sequential!Init
    BY InitSound DEF ListsInit, Sequential!Init
  <1>2. ListsSound /\ [ListsNext]_listVars => [Sequential!Next]_<<[l \in List |-> Walk(l)], result>>
    <2> SUFFICES ASSUME ListsSound, [ListsNext]_listVars
                 PROVE  [Sequential!Next]_<<[l \in List |-> Walk(l)], result>>
      OBVIOUS
    <2>1. CASE ListsNext
      BY <2>1, CallsKeep
    <2>2. CASE UNCHANGED listVars
      <3>1. \A m \in List : Walk(m)' = Walk(m)
        BY <2>2 DEF listVars, Walk, Begin
      <3> QED
        BY <2>2, <3>1 DEF listVars
    <2> QED
      BY <2>1, <2>2
  <1> QED
    BY <1>1, <1>2, ListsKept, PTL DEF ListsSpec, KeepsOrder, Sequential!Spec

=============================================================================
