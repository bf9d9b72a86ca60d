----------------------------- MODULE SystemProofs -----------------------------
(***************************************************************************)
(* Theorems about the components that System sets side by side: the file   *)
(* descriptors of a process, the streams over them, formats, lengths of    *)
(* sleep and page tables.                                                  *)
(***************************************************************************)
EXTENDS Streams, Formats, Timespec, AddressSpaces, DataLemmas,
        SequenceTheorems, FiniteSetTheorems

(* The numbers 0 to 2 are given out in turn, and after them none.  The     *)
(* first bucket holds the first descriptor until the second takes its      *)
(* place; those that follow are lined up behind.  Only the first can be    *)
(* freed, and after that no other is made.                                 *)
NumberOf(d) == IF d <= 3 THEN d - 1 ELSE NPOS

NumbersSound ==
  /\ fdNumber \in Seq(Int)
  /\ \A d \in Fd : fdNumber[d] = NumberOf(d)
  /\ freefdmap = [i \in 0 .. FdCount - 1 |-> Len(fdNumber) <= i /\ i < 3]

BucketsSound ==
  /\ buckets \in [Bucket -> Seq(Nat)]
  /\ \A b \in Bucket \ {0} : buckets[b] = <<>>
  /\ buckets[0] = IF Len(fdNumber) < 2 THEN [i \in 1 .. Len(fdNumber) |-> i]
                  ELSE [i \in 1 .. Len(fdNumber) - 1 |-> i + 1]
  /\ fdFreed \subseteq {1}
  /\ fdFreed # {} => Len(fdNumber) = 1

SemtableSound ==
  /\ semtableMap = [i \in 0 .. SemtableSize - 1 |-> FALSE]
  /\ semas \subseteq {NPOS}

DescriptorsSound == NumbersSound /\ BucketsSound /\ SemtableSound

(* A scan for one bit finds the first that is set, or none.                *)
LEMMA BitFound ==
  ASSUME NEW n \in Nat, NEW bm \in [0 .. n - 1 -> BOOLEAN], NEW i \in 0 .. n,
         \A k \in 0 .. i - 1 : ~bm[k], i < n => bm[i]
  PROVE  BitmapScan(bm, 0, 1, TRUE) = IF i < n THEN i ELSE NPOS
  <1> DEFINE fit == {k \in 0 .. n - 1 : Fits(bm, k, 1, TRUE)}
  <1>1. BitmapScan(bm, 0, 1, TRUE) = IF fit = {} THEN NPOS ELSE Min(fit)
    <2>1. BitmapScan(bm, 0, 1, TRUE) = FirstFit(bm, 0, 1, TRUE)
      BY ScanIsFirstFit
    <2> QED
      BY <2>1, Counted DEF FirstFit
  <1>2. fit = {k \in 0 .. n - 1 : bm[k]}
    <2> SUFFICES ASSUME NEW k \in 0 .. n - 1
                 PROVE  Fits(bm, k, 1, TRUE) <=> bm[k]
      BY Zenon
    <2>1. k .. k + 1 - 1 = {k} /\ k \in DOMAIN bm /\ bm[k] \in BOOLEAN
      OBVIOUS
    <2>2. Fits(bm, k, 1, TRUE) <=> bm[k] = TRUE
      BY <2>1, Zenon DEF Fits
    <2> QED
      BY <2>1, <2>2, Zenon
  <1> HIDE DEF fit
  <1>3. CASE i < n
    <2>1. i \in fit /\ fit \in SUBSET Nat /\ \A y \in fit : i <= y
      <3>1. i \in fit /\ fit \in SUBSET Nat
        BY <1>2, <1>3
      <3>2. ASSUME NEW y \in fit, y < i PROVE FALSE
        <4>1. y \in 0 .. i - 1 /\ bm[y]
          BY <1>2, <3>2
        <4> QED
          BY <4>1, Zenon
      <3> QED
        BY <3>1, <3>2
    <2>2. Min(fit) = i
      BY <2>1, MinIs
    <2> QED
      BY <1>1, <1>3, <2>1, <2>2
  <1>4. CASE ~ i < n
    <2>1. i = n
      BY <1>4
    <2>2. fit = {}
      BY <1>2, <2>1, Zenon
    <2> QED
      BY <1>1, <1>4, <2>2
  <1> QED
    BY <1>3, <1>4

(* What a lookup finds in the sound state: the first descriptor under the  *)
(* number 0, as long as it is the only one and was not freed.              *)
LEMMA Looked ==
  ASSUME NEW n \in Int, DescriptorsSound
  PROVE  /\ Strays(n) <=> n = 0 /\ fdFreed # {}
         /\ HashtableFind(n) = IF n = 0 /\ Len(fdNumber) = 1 /\ fdFreed = {} THEN {1} ELSE {}
  <1> DEFINE b == buckets[HashFd(n)]
             live == Live(n)
  <1>1. HashFd(n) \in Bucket /\ (HashFd(n) = 0 <=> n = 0)
    BY DEF HashFd, Bucket
  <1>2. /\ fdNumber \in Seq(Int) /\ Len(fdNumber) \in Nat /\ Fd = 1 .. Len(fdNumber)
        /\ \A d \in Fd : fdNumber[d] = IF d <= 3 THEN d - 1 ELSE -1
    BY DEF DescriptorsSound, NumbersSound, NumberOf, NPOS, Fd
  <1>3. /\ live = {i \in DOMAIN b : fdNumber[b[i]] = n /\ b[i] \notin fdFreed}
        /\ Visited(n) = {b[i] : i \in IF live = {} THEN DOMAIN b ELSE 1 .. Min(live)}
        /\ Strays(n) <=> Visited(n) \cap fdFreed # {}
        /\ HashtableFind(n) = IF live = {} THEN {} ELSE {b[Min(live)]}
    BY DEF Live, Visited, Strays, HashtableFind
  <1>6. Len(fdNumber) \in Nat
    BY <1>2
  <1>4. CASE b = <<>>
    <2>1. DOMAIN b = {} /\ live = {} /\ Visited(n) = {}
      BY <1>3, <1>4
    <2>2. n = 0 => Len(fdNumber) = 0 /\ fdFreed = {}
      <3> SUFFICES ASSUME n = 0 PROVE Len(fdNumber) = 0 /\ fdFreed = {}
        OBVIOUS
      <3>1. b = IF Len(fdNumber) < 2 THEN [i \in 1 .. Len(fdNumber) |-> i]
                ELSE [i \in 1 .. Len(fdNumber) - 1 |-> i + 1]
        BY <1>1, Zenon DEF DescriptorsSound, BucketsSound
      <3>2. DOMAIN b = IF Len(fdNumber) < 2 THEN 1 .. Len(fdNumber) ELSE 1 .. Len(fdNumber) - 1
        BY <3>1
      <3>3. Len(fdNumber) = 0
        <4> HIDE DEF b
        <4> QED
          BY <1>2, <2>1, <3>2
      <3> QED
        BY <3>3 DEF DescriptorsSound, BucketsSound
    <2>3. n = 0 => Len(fdNumber) # 1
      BY <2>2
    <2> QED
      BY <1>3, <2>1, <2>2, <2>3, Zenon
  <1>5. CASE b # <<>>
    <2>1. n = 0
      BY <1>1, <1>5 DEF DescriptorsSound, BucketsSound
    <2>2. b = IF Len(fdNumber) < 2 THEN [i \in 1 .. Len(fdNumber) |-> i]
              ELSE [i \in 1 .. Len(fdNumber) - 1 |-> i + 1]
      BY <1>1, <2>1, Zenon DEF DescriptorsSound, BucketsSound
    <2>3. Len(fdNumber) # 0
      <3> SUFFICES ASSUME Len(fdNumber) = 0 PROVE FALSE
        OBVIOUS
      <3>1. b = [i \in 1 .. 0 |-> i]
        BY <2>2
      <3> QED
        BY <1>5, <3>1
    <2>4. CASE Len(fdNumber) = 1
      <3>1. b = [i \in 1 .. 1 |-> i]
        BY <2>2, <2>4
      <3>2. DOMAIN b = {1} /\ b[1] = 1 /\ fdNumber[1] = 0
        BY <1>2, <2>4, <3>1
      <3>3. {i \in DOMAIN b : fdNumber[b[i]] = n} = {1}
        BY <2>1, <3>2
      <3>4. fdFreed = {} \/ fdFreed = {1}
        BY DEF DescriptorsSound, BucketsSound
      <3>5. CASE fdFreed = {}
        <4>1. live = {1}
          BY <1>3, <3>3, <3>5
        <4>2. Min(live) = 1
          <5> HIDE DEF live
          <5> QED
            BY <4>1, MinIs
        <4> QED
          BY <1>3, <2>1, <2>4, <3>2, <3>5, <4>1, <4>2
      <3>6. CASE fdFreed = {1}
        <4>1. live = {}
          BY <1>3, <3>2, <3>3, <3>6
        <4>2. Visited(n) = {1}
          BY <1>3, <3>2, <4>1
        <4> QED
          BY <1>3, <2>1, <3>6, <4>1, <4>2
      <3> QED
        BY <3>4, <3>5, <3>6
    <2>5. CASE Len(fdNumber) > 1
      <3>1. fdFreed = {}
        BY <2>5 DEF DescriptorsSound, BucketsSound
      <3>2. DOMAIN b = 1 .. Len(fdNumber) - 1 /\ \A i \in DOMAIN b : b[i] = i + 1
        BY <1>2, <2>2, <2>5
      <3>3. \A i \in DOMAIN b : b[i] \in Fd /\ b[i] > 1
        BY <1>2, <3>2
      <3>4. \A i \in DOMAIN b : fdNumber[b[i]] # 0
        <4> HIDE DEF b
        <4> QED
          BY <1>2, <3>3
      <3>5. live = {}
        BY <1>3, <2>1, <3>4
      <3>6. Len(fdNumber) # 1
        BY <2>5
      <3>7. Visited(n) \cap fdFreed = {}
        BY <3>1, Zenon
      <3> QED
        BY <1>3, <3>1, <3>5, <3>6, <3>7, Zenon
    <2>6. Len(fdNumber) = 1 \/ Len(fdNumber) > 1
      BY <1>6, <2>3
    <2> QED
      BY <2>4, <2>5, <2>6, Zenon
  <1> QED
    BY <1>4, <1>5

(* The table starts empty with its bits set, and no semaphore is free.      *)
LEMMA DescriptorsStart == DescriptorsInit => DescriptorsSound
  <1> SUFFICES ASSUME DescriptorsInit PROVE DescriptorsSound
    OBVIOUS
  <1> USE DEF DescriptorsInit
  <1>1. fdNumber = <<>> /\ Len(fdNumber) = 0 /\ fdFreed = {}
    OBVIOUS
  <1>2. NumbersSound
    <2>1. Fd = {}
      BY DEF Fd
    <2>2. freefdmap = [i \in 0 .. FdCount - 1 |-> IF i \in 0 .. 0 + 3 - 1 THEN TRUE ELSE FALSE]
      BY DEF BitmapSet
    <2>3. \A i \in 0 .. FdCount - 1 : (IF i \in 0 .. 0 + 3 - 1 THEN TRUE ELSE FALSE) = (0 <= i /\ i < 3)
      BY DescriptorsAssumption, SMTT(30)
    <2>4. [i \in 0 .. FdCount - 1 |-> IF i \in 0 .. 0 + 3 - 1 THEN TRUE ELSE FALSE]
            = [i \in 0 .. FdCount - 1 |-> 0 <= i /\ i < 3]
      BY <2>3, Zenon
    <2>5. freefdmap = [i \in 0 .. FdCount - 1 |-> Len(fdNumber) <= i /\ i < 3]
      BY <1>1, <2>2, <2>4, Zenon
    <2>6. fdNumber \in Seq(Int)
      OBVIOUS
    <2> QED
      BY <2>1, <2>5, <2>6, Zenon DEF NumbersSound
  <1>3. BucketsSound
    <2>1. [i \in 1 .. 0 |-> i] = <<>> /\ 0 \in Bucket
      BY DEF Bucket
    <2> QED
      BY <1>1, <2>1 DEF BucketsSound
  <1>4. SemtableSound
    BY DEF SemtableSound
  <1> QED
    BY <1>2, <1>3, <1>4 DEF DescriptorsSound

(* open keeps it, and counts one descriptor more.                          *)
LEMMA OpenSound ==
  ASSUME DescriptorsSound, FdtableOpen
  PROVE  /\ DescriptorsSound'
         /\ lost' = (fdFreed # {})
         /\ ~lost' => Len(fdNumber') = Len(fdNumber) + 1
  <1> DEFINE n == Len(fdNumber)
             number == BitmapScan(freefdmap, 0, 1, TRUE)
  <1>1. /\ fdNumber \in Seq(Int) /\ n \in Nat /\ Fd = 1 .. n
        /\ \A d \in Fd : fdNumber[d] = NumberOf(d)
        /\ freefdmap = [i \in 0 .. FdCount - 1 |-> n <= i /\ i < 3]
    BY DEF DescriptorsSound, NumbersSound, Fd
  <1>2. n \in Nat /\ n = Len(fdNumber)
    BY <1>1
  <1>3. /\ Strays(0) <=> fdFreed # {}
        /\ lost = FALSE /\ SemtableSound
    <2>1. Strays(0) <=> 0 = 0 /\ fdFreed # {}
      BY Looked
    <2>2. ~lost /\ SemtableSound
      BY Zenon DEF FdtableOpen, DescriptorsSound
    <2> QED
      BY <2>1, <2>2
  <1> HIDE DEF n, number
  <1>4. CASE Strays(0)
    <2>1. Lose
      BY <1>4 DEF FdtableOpen
    <2>2. lost' = TRUE /\ fdFreed # {} /\ UNCHANGED <<buckets, freefdmap, fdNumber, fdFreed, semtableMap, semas>>
      BY <1>3, <1>4, <2>1 DEF Lose, fdVars
    <2> QED
      BY <2>2 DEF DescriptorsSound, NumbersSound, BucketsSound, SemtableSound, Fd
  <1>5. CASE ~Strays(0)
    <2>1. /\ buckets' = HashtableInsert(0, n + 1)
          /\ fdNumber' = Append(fdNumber, number)
          /\ freefdmap' = IF number = NPOS THEN freefdmap ELSE BitmapFlip(freefdmap, number, 1)
          /\ UNCHANGED <<fdFreed, semtableMap, semas, lost>>
      BY <1>5 DEF FdtableOpen, n, number
    <2>2. fdFreed = {} /\ lost' = FALSE
      BY <1>3, <1>5, <2>1
    <2>3. number = NumberOf(n + 1)
      <3> DEFINE i == IF n < 3 THEN n ELSE FdCount
      <3>1. FdCount \in Nat /\ FdCount > 2 /\ i \in 0 .. FdCount
        BY <1>2, DescriptorsAssumption
      <3>2. freefdmap \in [0 .. FdCount - 1 -> BOOLEAN]
        BY <1>1
      <3>3. /\ \A k \in 0 .. i - 1 : ~freefdmap[k]
            /\ i < FdCount => freefdmap[i]
        <4>1. \A k \in 0 .. FdCount - 1 : freefdmap[k] = (n <= k /\ k < 3)
          BY <1>1
        <4>2. \A k \in 0 .. i - 1 : k \in 0 .. FdCount - 1 /\ ~(n <= k /\ k < 3)
          BY <1>2, <3>1
        <4>3. i < FdCount => i \in 0 .. FdCount - 1 /\ n <= i /\ i < 3
          BY <1>2, <3>1
        <4> HIDE DEF i
        <4> QED
          BY <4>1, <4>2, <4>3, Zenon
      <3> HIDE DEF i
      <3>4. number = IF i < FdCount THEN i ELSE NPOS
        BY <3>1, <3>2, <3>3, BitFound DEF number
      <3> QED
        BY <1>2, <3>1, <3>4 DEF i, NumberOf, NPOS
    <2>4. NumbersSound' /\ Len(fdNumber') = n + 1
      <3>1. number \in Int
        BY <1>2, <2>3 DEF NumberOf, NPOS
      <3>2. /\ fdNumber' \in Seq(Int) /\ Len(fdNumber') = n + 1 /\ Fd' = 1 .. n + 1
            /\ \A d \in 1 .. n : fdNumber'[d] = fdNumber[d]
            /\ fdNumber'[n + 1] = number
        BY <1>2, <1>1, <2>1, <3>1 DEF Fd
      <3>3. \A d \in Fd' : fdNumber'[d] = NumberOf(d)
        <4>1. \A d \in 1 .. n + 1 : d \in 1 .. n \/ d = n + 1
          BY <1>2
        <4> QED
          BY <1>1, <2>3, <3>2, <4>1, Zenon
      <3>4. freefdmap' = [i \in 0 .. FdCount - 1 |-> n + 1 <= i /\ i < 3]
        <4> DEFINE after == [i \in 0 .. FdCount - 1 |-> n + 1 <= i /\ i < 3]
        <4>1. CASE n < 3
          <5>1. number = n
            BY <1>2, <2>3, <4>1 DEF NumberOf
          <5>2. freefdmap' = [i \in 0 .. FdCount - 1 |-> IF i \in n .. n + 1 - 1 THEN ~freefdmap[i] ELSE freefdmap[i]]
            BY <1>2, <1>1, <2>1, <5>1 DEF BitmapFlip, NPOS
          <5>3. \A i \in 0 .. FdCount - 1 :
                  (IF i \in n .. n + 1 - 1 THEN ~freefdmap[i] ELSE freefdmap[i]) = (n + 1 <= i /\ i < 3)
            <6> SUFFICES ASSUME NEW i \in 0 .. FdCount - 1
                         PROVE  (IF i = n THEN ~freefdmap[i] ELSE freefdmap[i]) = (n + 1 <= i /\ i < 3)
              BY <1>2
            <6>1. freefdmap[i] = (n <= i /\ i < 3)
              BY <1>1
            <6>2. FdCount \in Nat /\ i \in Int
              BY DescriptorsAssumption
            <6>3. (IF i = n THEN ~(n <= i /\ i < 3) ELSE (n <= i /\ i < 3)) = (n + 1 <= i /\ i < 3)
              BY <1>2, <4>1, <6>2
            <6> QED
              BY <6>1, <6>3, Zenon
          <5> QED
            BY <5>2, <5>3, Zenon
        <4>2. CASE ~ n < 3
          <5>1. number = NPOS
            BY <1>2, <2>3, <4>2 DEF NumberOf
          <5>2. \A i \in 0 .. FdCount - 1 : (n <= i /\ i < 3) = (n + 1 <= i /\ i < 3)
            <6> SUFFICES ASSUME NEW i \in 0 .. FdCount - 1
                         PROVE  (n <= i /\ i < 3) = (n + 1 <= i /\ i < 3)
              BY Zenon
            <6>1. FdCount \in Nat /\ i \in Int
              BY DescriptorsAssumption
            <6> QED
              BY <1>2, <4>2, <6>1
          <5> QED
            BY <1>1, <2>1, <5>1, <5>2, Zenon
        <4> QED
          BY <4>1, <4>2
      <3>5. freefdmap' = [i \in 0 .. FdCount - 1 |-> Len(fdNumber') <= i /\ i < 3]
        BY <3>2, <3>4, Zenon
      <3>6. Len(fdNumber') = n + 1
        BY <3>2
      <3> QED
        BY <3>2, <3>3, <3>5, <3>6, Zenon DEF NumbersSound
    <2>5. BucketsSound'
      <3> DEFINE b == buckets[0]
                 m == IF n < 2 THEN n ELSE n - 1
      <3>1. /\ buckets \in [Bucket -> Seq(Nat)] /\ 0 \in Bucket /\ b \in Seq(Nat)
            /\ \A c \in Bucket \ {0} : buckets[c] = <<>>
        BY DEF DescriptorsSound, BucketsSound, Bucket
      <3>2. b = IF n < 2 THEN [i \in 1 .. n |-> i] ELSE [i \in 1 .. n - 1 |-> i + 1]
        BY Zenon DEF DescriptorsSound, BucketsSound, n
      <3>3. HashFd(0) = 0
        BY DEF HashFd
      <3>4. HashtableFind(0) = IF Live(0) = {} THEN {} ELSE {b[Min(Live(0))]}
        BY <3>3 DEF HashtableFind
      <3>5. HashtableFind(0) = IF n = 1 THEN {1} ELSE {}
        <4>1. HashtableFind(0) = IF 0 = 0 /\ Len(fdNumber) = 1 /\ fdFreed = {} THEN {1} ELSE {}
          BY Looked
        <4> QED
          BY <1>2, <2>2, <4>1, Zenon
      <3>6. buckets' = [buckets EXCEPT ![0] = Append(IF Live(0) = {} THEN b ELSE RemoveAt(b, Min(Live(0))), n + 1)]
        BY <2>1, <3>3 DEF HashtableInsert
      <3>7. buckets'[0] = IF n + 1 < 2 THEN [i \in 1 .. n + 1 |-> i] ELSE [i \in 1 .. n |-> i + 1]
        <4>1. CASE n = 1
          <5>1. Live(0) # {} /\ Live(0) \subseteq DOMAIN b
            BY <3>3, <3>4, <3>5, <4>1, Zenon DEF Live
          <5>2. b = <<1>> /\ DOMAIN b = {1}
            BY <3>2, <4>1
          <5>3. Min(Live(0)) = 1
            <6>1. Live(0) = {1}
              BY <5>1, <5>2
            <6> QED
              BY <6>1, MinIs
          <5>4. RemoveAt(b, 1) = <<>>
            BY <5>2 DEF RemoveAt
          <5>5. buckets'[0] = <<2>>
            <6>1. buckets'[0] = Append(RemoveAt(b, Min(Live(0))), n + 1)
              BY <3>1, <3>6, <5>1
            <6>2. n + 1 = 2 /\ Append(<<>>, 2) = <<2>>
              BY <4>1
            <6> QED
              BY <5>3, <5>4, <6>1, <6>2, Zenon
          <5> QED
            BY <4>1, <5>5
        <4>2. CASE n # 1
          <5>1. buckets'[0] = Append(b, n + 1)
            BY <3>1, <3>4, <3>5, <3>6, <4>2
          <5>2. CASE n = 0
            BY <3>2, <5>1, <5>2
          <5>3. CASE n > 1
            <6>1. Len(b) = n - 1 /\ \A i \in 1 .. n - 1 : b[i] = i + 1
              BY <1>2, <3>2, <5>3
            <6>2. /\ Append(b, n + 1) \in Seq(Nat) /\ Len(Append(b, n + 1)) = n
                  /\ \A i \in 1 .. n : Append(b, n + 1)[i] = i + 1
              <7> HIDE DEF b
              <7> QED
                BY <1>2, <3>1, <6>1
            <6>3. Append(b, n + 1) = [i \in 1 .. n |-> i + 1]
              <7> HIDE DEF b
              <7> QED
                BY <6>2
            <6> QED
              <7>1. ~ n + 1 < 2
                BY <1>2, <5>3
              <7> QED
                BY <5>1, <6>3, <7>1, Zenon
          <5>4. n = 0 \/ n > 1
            BY <1>2, <4>2
          <5> QED
            BY <5>2, <5>3, <5>4
        <4> QED
          BY <4>1, <4>2
      <3>8. buckets'[0] \in Seq(Nat)
        BY <1>2, <3>7
      <3>9. /\ buckets' \in [Bucket -> Seq(Nat)]
            /\ \A c \in Bucket \ {0} : buckets'[c] = <<>>
        <4>1. buckets' = [buckets EXCEPT ![0] = buckets'[0]]
          BY <3>1, <3>6
        <4> QED
          BY <3>1, <3>8, <4>1
      <3> QED
        BY <1>2, <2>1, <2>2, <2>4, <3>7, <3>9 DEF BucketsSound
    <2>6. SemtableSound'
      BY <1>3, <2>1 DEF SemtableSound
    <2> QED
      BY <1>2, <2>2, <2>4, <2>5, <2>6, Zenon DEF DescriptorsSound
  <1> QED
    BY <1>4, <1>5

(* close and the calls that use a descriptor: only the first can be freed,  *)
(* and only while it is the only one.                                      *)
LEMMA FreeSound ==
  ASSUME DescriptorsSound, NEW n \in Int, FdtableFree(n)
  PROVE  /\ DescriptorsSound' /\ fdNumber' = fdNumber
         /\ lost' = (HashtableFind(n) = {})
  <1>1. /\ Strays(n) <=> n = 0 /\ fdFreed # {}
        /\ HashtableFind(n) = IF n = 0 /\ Len(fdNumber) = 1 /\ fdFreed = {} THEN {1} ELSE {}
    BY Looked
  <1>2. NumbersSound /\ BucketsSound /\ SemtableSound /\ lost = FALSE
    BY DEF DescriptorsSound, FdtableFree
  <1>3. CASE Strays(n) \/ HashtableFind(n) = {}
    <2>1. lost' = TRUE /\ UNCHANGED <<buckets, freefdmap, fdNumber, fdFreed, semtableMap, semas>>
      BY <1>3 DEF FdtableFree, Lose, fdVars
    <2>2. HashtableFind(n) = {}
      BY <1>1, <1>3
    <2> QED
      BY <1>2, <2>1, <2>2 DEF DescriptorsSound, NumbersSound, BucketsSound, SemtableSound, Fd
  <1>4. CASE ~(Strays(n) \/ HashtableFind(n) = {})
    <2>1. /\ fdFreed' = fdFreed \cup HashtableFind(n)
          /\ UNCHANGED <<buckets, freefdmap, fdNumber, semtableMap, semas, lost>>
      BY <1>4 DEF FdtableFree
    <2>2. HashtableFind(n) = {1} /\ Len(fdNumber) = 1
      BY <1>1, <1>4, Zenon
    <2>3. NumbersSound' /\ SemtableSound' /\ lost' = FALSE
      BY <1>2, <2>1 DEF NumbersSound, SemtableSound, Fd
    <2>4. BucketsSound'
      BY <1>2, <2>1, <2>2 DEF BucketsSound
    <2> QED
      BY <1>4, <2>1, <2>3, <2>4, Zenon DEF DescriptorsSound
  <1> QED
    BY <1>3, <1>4

(* A call that only uses a descriptor changes nothing here.                 *)
LEMMA UseSound ==
  ASSUME DescriptorsSound, NEW n, FdUse(n)
  PROVE  DescriptorsSound' /\ fdNumber' = fdNumber
  <1>1. UNCHANGED <<buckets, freefdmap, fdNumber, fdFreed, semtableMap, semas>>
    BY DEF FdUse, Lose, descriptorVars, fdVars
  <1> QED
    BY <1>1 DEF DescriptorsSound, NumbersSound, BucketsSound, SemtableSound, Fd

(* sget finds no bit set, and so none is ever cleared.                     *)
LEMMA SgetSound ==
  ASSUME DescriptorsSound, Sget
  PROVE  DescriptorsSound' /\ fdNumber' = fdNumber /\ lost' = FALSE
  <1>1. /\ NumbersSound /\ BucketsSound /\ semas \subseteq {NPOS} /\ lost = FALSE
        /\ semtableMap = [i \in 0 .. SemtableSize - 1 |-> FALSE]
    BY DEF DescriptorsSound, SemtableSound, Sget
  <1>2. BitmapScan(semtableMap, 0, 1, TRUE) = NPOS
    <2>1. /\ SemtableSize \in Nat /\ SemtableSize \in 0 .. SemtableSize
          /\ semtableMap \in [0 .. SemtableSize - 1 -> BOOLEAN]
          /\ \A k \in 0 .. SemtableSize - 1 : ~semtableMap[k]
          /\ ~ SemtableSize < SemtableSize
      BY <1>1, DescriptorsAssumption
    <2>2. BitmapScan(semtableMap, 0, 1, TRUE) = IF SemtableSize < SemtableSize THEN SemtableSize ELSE NPOS
      BY <2>1, BitFound
    <2> QED
      BY <2>1, <2>2
  <1>3. /\ semtableMap' = semtableMap /\ semas' = semas \cup {NPOS}
        /\ UNCHANGED <<buckets, freefdmap, fdNumber, fdFreed, lost>>
    BY <1>2 DEF Sget, fdVars
  <1>4. NumbersSound' /\ BucketsSound' /\ SemtableSound'
    BY <1>1, <1>3 DEF NumbersSound, BucketsSound, SemtableSound, Fd
  <1> QED
    BY <1>1, <1>3, <1>4 DEF DescriptorsSound

(* There is no semaphore to give back.                                      *)
LEMMA SungetSound ==
  ASSUME DescriptorsSound, NEW sema \in semas, Sunget(sema)
  PROVE  DescriptorsSound'
  <1>1. /\ NumbersSound /\ BucketsSound /\ semas \subseteq {NPOS}
        /\ semtableMap = [i \in 0 .. SemtableSize - 1 |-> FALSE]
    BY DEF DescriptorsSound, SemtableSound
  <1>2. sema \notin DOMAIN semtableMap
    BY <1>1, DescriptorsAssumption DEF NPOS
  <1>3. UNCHANGED <<buckets, freefdmap, fdNumber, fdFreed, semtableMap, semas>>
    BY <1>2 DEF Sunget, fdVars
  <1> QED
    BY <1>1, <1>3 DEF DescriptorsSound, NumbersSound, BucketsSound, SemtableSound, Fd

(* The property that the run checks follows from the sound state.           *)
LEMMA OnlyFirst == DescriptorsSound => OnlyFirstFound
  <1> SUFFICES ASSUME DescriptorsSound PROVE OnlyFirstFound
    OBVIOUS
  <1>1. /\ Len(fdNumber) \in Nat /\ Fd = 1 .. Len(fdNumber)
        /\ \A d \in Fd : fdNumber[d] = IF d <= 3 THEN d - 1 ELSE -1
    BY DEF DescriptorsSound, NumbersSound, NumberOf, NPOS, Fd
  <1>2. ASSUME NEW d \in Fd, NEW e \in Fd, fdNumber[d] = fdNumber[e], fdNumber[d] # NPOS
        PROVE  d = e
    <2>1. d \in Int /\ e \in Int /\ fdNumber[d] # -1
      BY <1>1, <1>2 DEF NPOS
    <2>2. /\ fdNumber[d] = IF d <= 3 THEN d - 1 ELSE -1
          /\ fdNumber[e] = IF e <= 3 THEN e - 1 ELSE -1
      BY <1>1
    <2>3. fdNumber[d] = d - 1 /\ fdNumber[e] = e - 1
      BY <1>2, <2>1, <2>2, Zenon
    <2>4. d - 1 = e - 1
      BY <1>2, <2>3, Zenon
    <2> QED
      BY <2>1, <2>4
  <1>3. ASSUME NEW n \in -1 .. FdCount, HashtableFind(n) # {}
        PROVE  n = 0 /\ Fd = {1} /\ HashtableFind(n) = {1} /\ fdFreed = {}
    <2>1. n \in Int
      BY DescriptorsAssumption
    <2>2. HashtableFind(n) = IF n = 0 /\ Len(fdNumber) = 1 /\ fdFreed = {} THEN {1} ELSE {}
      BY <2>1, Looked
    <2>3. n = 0 /\ Len(fdNumber) = 1 /\ fdFreed = {} /\ HashtableFind(n) = {1}
      BY <1>3, <2>2, Zenon
    <2>4. 1 .. 1 = {1}
      OBVIOUS
    <2> QED
      BY <1>1, <2>3, <2>4, Zenon
  <1>4. semas \subseteq {NPOS}
    BY DEF DescriptorsSound, SemtableSound
  <1> QED
    BY <1>2, <1>3, <1>4, Zenon DEF OnlyFirstFound

(* fdtable.c and the semaphore table: numbers are distinct, only the first  *)
(* descriptor is ever found, and only until the second is opened; no       *)
(* semaphore is given out.                                                 *)
THEOREM DescriptorsInv == DescriptorsSpec => []OnlyFirstFound
  <1>1. DescriptorsInit => DescriptorsSound
    BY DescriptorsStart
  <1>2. DescriptorsSound /\ [DescriptorsNext]_descriptorVars => DescriptorsSound'
    <2> SUFFICES ASSUME DescriptorsSound, [DescriptorsNext]_descriptorVars
                 PROVE  DescriptorsSound'
      OBVIOUS
    <2>1. CASE FdtableOpen
      BY <2>1, OpenSound
    <2>2. ASSUME NEW n \in -1 .. FdCount, FdtableFree(n) \/ FdUse(n)
          PROVE  DescriptorsSound'
      <3>1. n \in Int
        BY DescriptorsAssumption
      <3> QED
        BY <2>2, <3>1, FreeSound, UseSound
    <2>3. CASE Sget
      BY <2>3, SgetSound
    <2>4. ASSUME NEW sema \in semas, Sunget(sema)
          PROVE  DescriptorsSound'
      BY <2>4, SungetSound
    <2>5. CASE UNCHANGED descriptorVars
      BY <2>5 DEF DescriptorsSound, NumbersSound, BucketsSound, SemtableSound, Fd, descriptorVars, fdVars
    <2> QED
      BY <2>1, <2>2, <2>3, <2>4, <2>5 DEF DescriptorsNext
  <1>3. DescriptorsSound => OnlyFirstFound
    BY OnlyFirst
  <1> QED
    BY <1>1, <1>2, <1>3, PTL DEF DescriptorsSpec

-----------------------------------------------------------------------------

(* init_stdio makes the streams once, and since no limit of a cache is      *)
(* ever set, they stay as they were made.                                  *)
StreamsMade == [stdin |-> InitStdfile(0, FALSE, TRUE), stdout |-> InitStdfile(1, TRUE, FALSE),
                stderr |-> InitStdfile(2, TRUE, FALSE)]

Calls == {"SYS_OPEN", "SYS_READ", "SYS_CLOSE", "SYS_SGET"}
Traps == [number : Calls, arg : Int]

StreamsSound ==
  /\ DescriptorsSound
  /\ stream \in {NoStream, StreamsMade}
  /\ traps \in Seq(Traps)

(* The streams are those that InitStdio has made.                           *)
LEMMA StreamsAsMade ==
  ASSUME NEW s \in Std
  PROVE  /\ StreamsMade[s].wrpos = 0 /\ StreamsMade[s].maxwr = 0
         /\ StreamsMade[s].fd \in Int
         /\ [StreamsMade EXCEPT ![s].wrpos = 0] = StreamsMade
         /\ Fflush(StreamsMade[s]) = <<>>
  <1> DEFINE st == StreamsMade[s]
  <1>1. \E fd \in Int, wr, rd \in BOOLEAN : st = InitStdfile(fd, wr, rd)
    <2>1. s = "stdin" \/ s = "stdout" \/ s = "stderr"
      BY DEF Std
    <2>2. /\ StreamsMade["stdin"] = InitStdfile(0, FALSE, TRUE)
          /\ StreamsMade["stdout"] = InitStdfile(1, TRUE, FALSE)
          /\ StreamsMade["stderr"] = InitStdfile(2, TRUE, FALSE)
      BY DEF StreamsMade
    <2>3. {0, 1, 2} \subseteq Int /\ {TRUE, FALSE} \subseteq BOOLEAN
      OBVIOUS
    <2> HIDE DEF StreamsMade
    <2>4. 0 \in Int /\ 1 \in Int /\ 2 \in Int
      BY <2>3
    <2>5. TRUE \in BOOLEAN /\ FALSE \in BOOLEAN
      BY <2>3
    <2>6. CASE s = "stdin"
      BY <2>2, <2>4, <2>5, <2>6, Zenon
    <2>7. CASE s = "stdout"
      BY <2>2, <2>4, <2>5, <2>7, Zenon
    <2>8. CASE s = "stderr"
      BY <2>2, <2>4, <2>5, <2>8, Zenon
    <2> QED
      BY <2>1, <2>6, <2>7, <2>8
  <1>2. st.wrpos = 0 /\ st.maxwr = 0 /\ st.fd \in Int /\ [st EXCEPT !.wrpos = 0] = st
    <2>1. PICK fd \in Int, wr \in BOOLEAN, rd \in BOOLEAN : st = InitStdfile(fd, wr, rd)
      BY <1>1
    <2>2. st = [fd |-> fd, rd |-> rd, wr |-> wr, rdpos |-> 0, wrpos |-> 0, maxrd |-> 0, maxwr |-> 0]
      BY <2>1 DEF InitStdfile
    <2> HIDE DEF st
    <2> QED
      BY <2>2
  <1>3. StreamsMade = [x \in {"stdin", "stdout", "stderr"} |-> StreamsMade[x]]
    BY DEF StreamsMade
  <1> HIDE DEF StreamsMade
  <1>4. [StreamsMade EXCEPT ![s] = st] = StreamsMade
    BY <1>3
  <1>5. [StreamsMade EXCEPT ![s].wrpos = 0] = StreamsMade
    BY <1>2, <1>4
  <1>6. Fflush(st) = <<>>
    BY <1>2 DEF Fflush
  <1> QED
    BY <1>2, <1>5, <1>6

(* A call leaves one trap at most.                                         *)
LEMMA OneTrap ==
  ASSUME NEW number \in Calls, NEW fd \in Int
  PROVE  <<Trap(number, fd)>> \in Seq(Traps)
  <1>1. Trap(number, fd) \in Traps
    BY DEF Trap, Traps
  <1> DEFINE t == Trap(number, fd)
  <1> HIDE DEF t
  <1>2. <<>> \in Seq(Traps) /\ <<t>> = Append(<<>>, t)
    OBVIOUS
  <1>3. Append(<<>>, t) \in Seq(Traps)
    BY <1>1, <1>2 DEF t
  <1> QED
    BY <1>2, <1>3 DEF t

(* The library's part of a call, up to its trap.                           *)
LEMMA LibrarySound ==
  ASSUME StreamsSound, UNCHANGED descriptorVars,
         \/ InitStdio \/ NeedsMemory
         \/ \E s \in Std : Fread(s) \/ Fclose(s) \/ \E n \in Written : Fwrite(s, n)
  PROVE  StreamsSound'
  <1>1. DescriptorsSound'
    BY DEF StreamsSound, DescriptorsSound, NumbersSound, BucketsSound, SemtableSound, Fd, descriptorVars, fdVars
  <1>2. stream \in {NoStream, StreamsMade} /\ traps \in Seq(Traps)
    BY DEF StreamsSound
  <1>3. ASSUME stream' \in {NoStream, StreamsMade}, traps' \in Seq(Traps)
        PROVE  StreamsSound'
    BY <1>1, <1>3, Zenon DEF StreamsSound
  <1>4. CASE InitStdio
    <2>1. stream' = StreamsMade /\ traps' = traps
      BY <1>4 DEF InitStdio, StreamsMade
    <2> QED
      BY <1>2, <1>3, <2>1
  <1>5. CASE Astray
    BY <1>2, <1>3, <1>5 DEF Astray
  <1>6. ASSUME NEW s \in Std, stream # NoStream
        PROVE  /\ stream[s].fd \in Int /\ Fflush(stream[s]) = <<>> /\ stream[s].maxwr = 0
               /\ [stream EXCEPT ![s].wrpos = 0] = stream
    BY <1>2, <1>6, StreamsAsMade
  <1>7. ASSUME NEW s \in Std, stream # NoStream, NEW number \in Calls, stream' = stream,
                traps' = <<Trap(number, stream[s].fd)>>
         PROVE  StreamsSound'
    <2>1. stream[s].fd \in Int
      BY <1>6, <1>7
    <2>2. traps' \in Seq(Traps)
      BY <1>7, <2>1, OneTrap
    <2> QED
      BY <1>2, <1>3, <1>7, <2>2
  <1>8. ASSUME NEW number, NEW fd PROVE <<>> \o <<Trap(number, fd)>> = <<Trap(number, fd)>>
    <2> DEFINE t == Trap(number, fd)
    <2> HIDE DEF t
    <2>1. <<>> \o <<t>> = <<t>>
      OBVIOUS
    <2> QED
      BY <2>1 DEF t
  <1>9. ASSUME NEW s \in Std, Fread(s) PROVE StreamsSound'
    <2>1. CASE stream = NoStream
      BY <1>5, <1>9, <2>1 DEF Fread
    <2>2. CASE stream # NoStream
      <3>1. traps' = <<Trap("SYS_READ", stream[s].fd)>> /\ stream' = stream
        BY <1>9, <2>2, Zenon DEF Fread
      <3> QED
        BY <1>7, <2>2, <3>1 DEF Calls
    <2> QED
      BY <2>1, <2>2
  <1>10. ASSUME NEW s \in Std, Fclose(s) PROVE StreamsSound'
    <2>1. CASE stream = NoStream
      BY <1>5, <1>10, <2>1 DEF Fclose
    <2>2. CASE stream # NoStream
      <3>1. /\ traps' = Fflush(stream[s]) \o <<Trap("SYS_CLOSE", stream[s].fd)>>
            /\ stream' = [stream EXCEPT ![s].wrpos = 0]
        BY <1>10, <2>2, Zenon DEF Fclose
      <3>2. traps' = <<Trap("SYS_CLOSE", stream[s].fd)>> /\ stream' = stream
        BY <1>6, <1>8, <2>2, <3>1
      <3> QED
        BY <1>7, <2>2, <3>2 DEF Calls
    <2> QED
      BY <2>1, <2>2
  <1>11. ASSUME NEW s \in Std, NEW n \in Written, Fwrite(s, n) PROVE StreamsSound'
    <2>1. CASE stream = NoStream
      BY <1>5, <1>11, <2>1 DEF Fwrite
    <2>2. CASE stream # NoStream
      <3> DEFINE cached == n < stream[s].maxwr
      <3>1. /\ ~cached => traps' = Fflush(stream[s]) \o <<WriteTrap(stream[s].fd)>>
            /\ ~cached => stream' = [stream EXCEPT ![s].wrpos = 0]
        BY <1>11, <2>2, Zenon DEF Fwrite
      <3>2. ~cached
        BY <1>6, <2>2, StreamsAssumption
      <3>3. traps' = <<Trap("SYS_OPEN", stream[s].fd)>> /\ stream' = stream
        BY <1>6, <1>8, <2>2, <3>1, <3>2 DEF WriteTrap
      <3> QED
        BY <1>7, <2>2, <3>3 DEF Calls
    <2> QED
      BY <2>1, <2>2
  <1> QED
    BY <1>4, <1>5, <1>9, <1>10, <1>11 DEF NeedsMemory

(* The kernel takes the next trap.                                         *)
LEMMA TakeTrapSound ==
  ASSUME StreamsSound, TakeTrap
  PROVE  StreamsSound'
  <1> DEFINE t == Head(traps)
  <1>1. /\ DescriptorsSound /\ stream \in {NoStream, StreamsMade} /\ traps \in Seq(Traps)
    BY DEF StreamsSound
  <1>2. /\ traps # <<>>
        /\ FdtableOpen \/ FdUse(t.arg) \/ FdtableFree(t.arg) \/ Sget
        /\ traps' = Tail(traps) /\ stream' = stream
    BY DEF TakeTrap
  <1>3. t \in Traps /\ Tail(traps) \in Seq(Traps)
    BY <1>1, <1>2
  <1>4. t.arg \in Int
    BY <1>3 DEF Traps
  <1>5. DescriptorsSound'
    BY <1>1, <1>2, <1>4, OpenSound, UseSound, FreeSound, SgetSound
  <1> QED
    BY <1>1, <1>2, <1>3, <1>5 DEF StreamsSound

(* Every step of the library and of the kernel keeps the state sound.       *)
LEMMA StreamsAlways == StreamsSpec => []StreamsSound
  <1>1. StreamsInit => StreamsSound
    <2> SUFFICES ASSUME StreamsInit PROVE StreamsSound
      OBVIOUS
    <2>1. DescriptorsSound
      BY DescriptorsStart DEF StreamsInit
    <2>2. traps \in Seq(Traps)
      <3>1. traps = [i \in 1 .. UserLocks |-> Trap("SYS_SGET", 1)] /\ UserLocks \in Nat
        BY StreamsAssumption DEF StreamsInit
      <3>2. Trap("SYS_SGET", 1) \in Traps
        BY DEF Trap, Traps, Calls
      <3> QED
        BY <3>1, <3>2
    <2> QED
      BY <2>1, <2>2 DEF StreamsSound, StreamsInit
  <1>2. StreamsSound /\ [StreamsNext]_<<descriptorVars, streamVars>> => StreamsSound'
    <2> SUFFICES ASSUME StreamsSound, [StreamsNext]_<<descriptorVars, streamVars>>
                 PROVE  StreamsSound'
      OBVIOUS
    <2>1. CASE /\ \/ InitStdio \/ NeedsMemory
                  \/ \E s \in Std : Fread(s) \/ Fclose(s) \/ \E n \in Written : Fwrite(s, n)
               /\ UNCHANGED descriptorVars
      BY <2>1, LibrarySound
    <2>2. CASE TakeTrap
      BY <2>2, TakeTrapSound
    <2>3. CASE UNCHANGED <<descriptorVars, streamVars>>
      BY <2>3 DEF StreamsSound, DescriptorsSound, NumbersSound, BucketsSound, SemtableSound,
                  Fd, descriptorVars, fdVars, streamVars
    <2> QED
      BY <2>1, <2>2, <2>3, Zenon DEF StreamsNext
  <1> QED
    BY <1>1, <1>2, PTL DEF StreamsSpec

(* fdbuf.c over the descriptors: whatever calls a program makes, and though *)
(* each of its writes opens a descriptor, they stay as they were.           *)
THEOREM StreamsDescriptorsInv == StreamsSpec => []OnlyFirstFound
  <1>1. StreamsSound => OnlyFirstFound
    BY OnlyFirst DEF StreamsSound
  <1> QED
    BY <1>1, StreamsAlways, PTL

-----------------------------------------------------------------------------

(* Quotient and remainder are what multiplies out.                         *)
LEMMA Divided ==
  ASSUME NEW a \in Int, NEW d \in Nat \ {0}, NEW q \in Int, NEW r \in 0 .. d - 1, a = d * q + r
  PROVE  a \div d = q /\ a % d = r
  <1> DEFINE p == a \div d
             m == a % d
  <1>1. p \in Int /\ m \in 0 .. d - 1 /\ a = d * p + m
    OBVIOUS
  <1> HIDE DEF p, m
  <1>2. d * (p - q) = r - m
    BY <1>1
  <1>3. p - q < 1
    <2> SUFFICES ASSUME p - q >= 1 PROVE FALSE
      BY <1>1
    <2>1. d * (p - q) >= d
      BY <1>1
    <2> QED
      BY <1>1, <1>2, <2>1
  <1>4. p - q > -1
    <2> SUFFICES ASSUME q - p >= 1 PROVE FALSE
      BY <1>1
    <2>1. d * (q - p) >= d
      BY <1>1
    <2> QED
      BY <1>1, <1>2, <2>1
  <1>5. p = q
    BY <1>1, <1>3, <1>4
  <1> QED
    BY <1>1, <1>5 DEF p, m

(* A multiple of 2 * TestBit stays one when it wraps around, and passes    *)
(* the test.                                                               *)
LEMMA TestPassed ==
  ASSUME NEW a \in Nat, a % (2 * TestBit) = 0
  PROVE  /\ a % WordSize \in Nat /\ (a % WordSize) % (2 * TestBit) = 0
         /\ ((a % WordSize) \div TestBit) % 2 = 0
  <1> DEFINE t == TestBit
             w == WordSize
             x == a % w
             q == a \div w
             k == w \div (2 * t)
             l == a \div (2 * t)
             c == l - k * q
  <1>1. t \in Nat \ {0} /\ w \in Nat \ {0} /\ w % (2 * t) = 0
    BY TimespecAssumption
  <1> HIDE DEF t, w
  <1>2. x \in Nat /\ q \in Int /\ a = w * q + x
    BY <1>1
  <1>3. 2 * t \in Nat \ {0} /\ a % (2 * t) = 0
    BY <1>1 DEF t
  <1>4. k \in Int /\ w = (2 * t) * k /\ l \in Int /\ a = (2 * t) * l
    BY <1>1, <1>3
  <1> HIDE DEF x, q, k, l
  <1>5. c \in Int /\ x = (2 * t) * c
    <2>1. x = (2 * t) * l - ((2 * t) * k) * q
      BY <1>2, <1>4
    <2>2. (2 * t) * l - ((2 * t) * k) * q = (2 * t) * (l - k * q)
      BY <1>1, <1>2, <1>4
    <2> QED
      BY <1>2, <1>4, <2>1, <2>2
  <1> HIDE DEF c
  <1>6. x % (2 * t) = 0
    BY <1>2, <1>3, <1>5, Divided
  <1>7. x \div t = 2 * c
    <2>1. x = t * (2 * c) + 0 /\ 2 * c \in Int /\ 0 \in 0 .. t - 1
      BY <1>1, <1>5
    <2> QED
      BY <1>1, <1>2, <2>1, Divided
  <1>8. (2 * c) % 2 = 0
    BY <1>5
  <1> QED
    BY <1>2, <1>6, <1>7, <1>8 DEF x, t, w

(* The ticks of s seconds and n nanoseconds: what is divided is their       *)
(* product.                                                                *)
LEMMA TicksOf ==
  ASSUME NEW s \in Nat, NEW n \in Nat, SleepTimespec(s, n)
  PROVE  \E ticks \in slept' :
           /\ s = 0 \/ n = 0 => ticks = 0
           /\ 2 * (s * NanoPerSec * n + Quantum) <= WordSize =>
                ticks = (s * NanoPerSec * n + Quantum - 1) \div Quantum /\ ticks >= 0
  <1> DEFINE w == WordSize
             x == s * NanoPerSec
             nanos == Product(s, NanoPerSec)
             sum == Product(nanos, n)
             ticks == DivRndUp(Signed(sum), Quantum)
  <1>1. /\ w \in Nat \ {0} /\ NanoPerSec \in Nat \ {0} /\ Quantum \in Nat \ {0}
        /\ 2 * Quantum <= w /\ NanoPerSec % (2 * TestBit) = 0 /\ TestBit \in Nat \ {0}
    BY TimespecAssumption
  <1>2. x \in Nat /\ nanos = x % w /\ nanos \in Nat /\ sum = (nanos * n) % w /\ sum \in Nat
    BY <1>1 DEF Product
  <1>3. \A a, b \in Nat : a % (2 * TestBit) = 0 => (a * b) % (2 * TestBit) = 0
    <2> SUFFICES ASSUME NEW a \in Nat, NEW b \in Nat, a % (2 * TestBit) = 0
                 PROVE  (a * b) % (2 * TestBit) = 0
      OBVIOUS
    <2> DEFINE d == 2 * TestBit
               q == a \div d
    <2>1. d \in Nat \ {0}
      BY <1>1
    <2> HIDE DEF d
    <2>2. q \in Int /\ a = d * q
      BY <2>1 DEF d
    <2> HIDE DEF q
    <2>3. a * b = d * (q * b) + 0 /\ q * b \in Int /\ 0 \in 0 .. d - 1 /\ a * b \in Int
      BY <2>1, <2>2
    <2> QED
      BY <2>1, <2>3, Divided DEF d
  <1>4. SafeMul(s, NanoPerSec) /\ SafeAdd(nanos, n) /\ slept' = {ticks}
    <2>1. x % (2 * TestBit) = 0
      <3>1. x = NanoPerSec * s
        BY <1>1
      <3> QED
        BY <1>1, <1>3, <3>1
    <2>2. nanos % (2 * TestBit) = 0 /\ (nanos \div TestBit) % 2 = 0
      BY <1>2, <2>1, TestPassed
    <2>3. (sum \div TestBit) % 2 = 0
      <3>1. (nanos * n) % (2 * TestBit) = 0 /\ nanos * n \in Nat
        BY <1>2, <1>3, <2>2
      <3> QED
        BY <1>2, <3>1, TestPassed
    <2>4. SafeMul(s, NanoPerSec) /\ SafeAdd(nanos, n)
      BY <2>2, <2>3 DEF SafeMul, SafeAdd
    <2> QED
      BY <2>4 DEF SleepTimespec
  <1>5. ASSUME NEW p \in Nat, sum = p, 2 * (p + Quantum) <= w
        PROVE  ticks = (p + Quantum - 1) \div Quantum /\ ticks >= 0
    <2> DEFINE m == p + Quantum - 1
    <2>1. m \in Nat /\ 2 * p < w /\ 2 * m < w /\ m < w
      BY <1>1, <1>5
    <2> HIDE DEF m
    <2>2. m % w = m
      BY <1>1, <2>1
    <2>3. Signed(p) = p /\ Signed(m) = m
      BY <2>1 DEF Signed
    <2>4. ticks = IF Signed(m % w) >= 0 THEN Signed(m % w) \div Quantum
                  ELSE -((-Signed(m % w)) \div Quantum)
      BY <1>5, <2>3 DEF DivRndUp, m
    <2>5. ticks = m \div Quantum
      BY <2>1, <2>2, <2>3, <2>4
    <2>6. m \div Quantum >= 0
      BY <1>1, <2>1
    <2> QED
      BY <2>5, <2>6 DEF m
  <1> HIDE DEF ticks, sum, nanos
  <1>6. s = 0 \/ n = 0 => ticks = 0
    <2> SUFFICES ASSUME s = 0 \/ n = 0 PROVE ticks = 0
      OBVIOUS
    <2>1. sum = 0
      <3>1. nanos * n = 0
        <4>1. CASE s = 0
          <5>1. x = 0
            BY <1>1, <4>1
          <5>2. nanos = 0
            BY <1>1, <1>2, <5>1
          <5> QED
            BY <5>2
        <4>2. CASE n = 0
          BY <1>2, <4>2
        <4> QED
          BY <4>1, <4>2
      <3> QED
        BY <1>1, <1>2, <3>1
    <2>2. ticks = (0 + Quantum - 1) \div Quantum
      BY <1>1, <1>5, <2>1
    <2>3. 0 + Quantum - 1 = Quantum * 0 + (Quantum - 1) /\ Quantum - 1 \in 0 .. Quantum - 1
      BY <1>1
    <2>4. (0 + Quantum - 1) \div Quantum = 0
      BY <1>1, <2>3, Divided
    <2> QED
      BY <2>2, <2>4
  <1>7. ASSUME 2 * (x * n + Quantum) <= w
        PROVE  ticks = (x * n + Quantum - 1) \div Quantum /\ ticks >= 0
    <2>1. CASE n = 0
      <3>1. x * n = 0
        BY <1>2, <2>1
      <3>2. nanos * n = 0
        BY <1>2, <2>1
      <3>3. sum = x * n
        BY <1>1, <1>2, <3>1, <3>2
      <3> QED
        BY <1>2, <1>5, <1>7, <3>1, <3>3
    <2>2. CASE n > 0
      <3>1. x * n \in Nat /\ x <= x * n
        BY <1>2, <2>2
      <3>2. x * n < w /\ x < w
        BY <1>1, <1>2, <1>7, <3>1
      <3> HIDE DEF x
      <3>3. nanos = x
        BY <1>1, <1>2, <3>2
      <3>4. sum = x * n
        BY <1>1, <1>2, <3>1, <3>2, <3>3
      <3> QED
        BY <1>5, <1>7, <3>1, <3>4
    <2> QED
      BY <2>1, <2>2
  <1>8. ticks \in slept'
    BY <1>4
  <1> QED
    BY <1>6, <1>7, <1>8, Zenon DEF x, w

(* Neither factor is more than the product, nor, from 2 on, their sum.     *)
LEMMA SumBelowProduct ==
  ASSUME NEW x \in Nat, NEW n \in Nat, n >= 2, x > n
  PROVE  x * n >= x + n
  <1>1. x * n = x * 2 + x * (n - 2)
    OBVIOUS
  <1>2. x * (n - 2) >= 0
    OBVIOUS
  <1> QED
    BY <1>1, <1>2

(* A larger dividend has no smaller quotient.                               *)
LEMMA QuotientGrows ==
  ASSUME NEW a \in Nat, NEW b \in Nat, a <= b, NEW d \in Nat \ {0}
  PROVE  a \div d <= b \div d
  <1> DEFINE p == a \div d
             q == b \div d
  <1>1. p \in Int /\ q \in Int /\ a >= d * p /\ b < d * q + d
    OBVIOUS
  <1> HIDE DEF p, q
  <1>2. p - q < 1
    <2> SUFFICES ASSUME p - q >= 1 PROVE FALSE
      BY <1>1
    <2>1. d * (p - q) >= d
      BY <1>1
    <2> QED
      BY <1>1, <2>1
  <1> QED
    BY <1>1, <1>2 DEF p, q

(* What sleep passes on is what was asked for.                             *)
LEMMA MsSplit ==
  ASSUME NEW ms \in Length
  PROVE  /\ ms \div MsPerSec \in Nat
         /\ ((ms * NanoPerSec) \div MsPerSec) % NanoPerSec = (ms % MsPerSec) * (NanoPerSec \div MsPerSec)
         /\ (ms % MsPerSec) * (NanoPerSec \div MsPerSec) \in Nat
  <1> DEFINE g == NanoPerSec \div MsPerSec
             u == ms \div MsPerSec
             v == ms % MsPerSec
  <1>1. /\ ms \in Nat /\ MsPerSec \in Nat \ {0} /\ NanoPerSec \in Nat \ {0}
        /\ NanoPerSec % MsPerSec = 0
    BY TimespecAssumption
  <1>2. g \in Int /\ NanoPerSec = MsPerSec * g
    BY <1>1
  <1>3. u \in Nat /\ v \in 0 .. MsPerSec - 1 /\ ms = MsPerSec * u + v
    BY <1>1
  <1> HIDE DEF g, u, v
  <1>4. g \in Nat \ {0}
    <2> SUFFICES ASSUME g <= 0 PROVE FALSE
      BY <1>2
    <2>1. MsPerSec * g <= 0
      BY <1>1, <1>2
    <2> QED
      BY <1>1, <1>2, <2>1
  <1>5. (ms * NanoPerSec) \div MsPerSec = ms * g
    <2>1. ms * NanoPerSec = MsPerSec * (ms * g) + 0 /\ ms * NanoPerSec \in Int /\ ms * g \in Int
      BY <1>1, <1>2
    <2>2. 0 \in 0 .. MsPerSec - 1
      BY <1>1
    <2> QED
      BY <1>1, <2>1, <2>2, Divided
  <1>6. (ms * g) % NanoPerSec = v * g
    <2>1. ms * g = NanoPerSec * u + v * g
      BY <1>1, <1>2, <1>3, <1>4
    <2>2. v * g \in Nat /\ v * g <= (MsPerSec - 1) * g
      BY <1>1, <1>3, <1>4
    <2>3. (MsPerSec - 1) * g = NanoPerSec - g
      BY <1>1, <1>2, <1>4
    <2>4. v * g \in 0 .. NanoPerSec - 1 /\ ms * g \in Int
      BY <1>1, <1>4, <2>2, <2>3
    <2> DEFINE a == ms * g
               r == v * g
    <2> HIDE DEF a, r
    <2>5. a = NanoPerSec * u + r /\ r \in 0 .. NanoPerSec - 1 /\ a \in Int /\ u \in Int
      BY <1>3, <2>1, <2>4 DEF a, r
    <2>6. a % NanoPerSec = r
      BY <1>1, <2>5, Divided
    <2> QED
      BY <2>6 DEF a, r
  <1>7. v * g \in Nat
    BY <1>3, <1>4
  <1> QED
    BY <1>3, <1>5, <1>6, <1>7 DEF g, u, v

(* sleep and sleep_timespec: no time that is neither whole seconds nor      *)
(* under a second is cut short as long as the product fits a word.          *)
THEOREM SleepsNoLess == TimespecSpec => SleepTimes
  <1> DEFINE Said ==
        LET s == asked'.seconds
            n == asked'.nanoseconds
            fits == 2 * (s * NanoPerSec * n + Quantum) <= WordSize
        IN  \E ticks \in slept' :
              /\ s > 0 /\ n \in 2 .. NanoPerSec - 1 /\ fits => ticks >= Due'
              /\ ticks < 0 => ~fits
  <1>1. ASSUME NEW s \in Nat, NEW n \in Nat, asked' = [seconds |-> s, nanoseconds |-> n],
               SleepTimespec(s, n)
        PROVE  Said
    <2> DEFINE fits == 2 * (s * NanoPerSec * n + Quantum) <= WordSize
               due == (s * NanoPerSec + n + Quantum - 1) \div Quantum
    <2>1. PICK ticks \in slept' :
            /\ s = 0 \/ n = 0 => ticks = 0
            /\ fits => ticks = (s * NanoPerSec * n + Quantum - 1) \div Quantum /\ ticks >= 0
      BY <1>1, TicksOf
    <2>2. asked'.seconds = s /\ asked'.nanoseconds = n /\ Due' = due
      BY <1>1 DEF Due
    <2>3. NanoPerSec \in Nat \ {0} /\ Quantum \in Nat \ {0} /\ WordSize \in Nat
      BY TimespecAssumption
    <2>4. s > 0 /\ n \in 2 .. NanoPerSec - 1 /\ fits => ticks >= due
      <3> SUFFICES ASSUME s > 0, n \in 2 .. NanoPerSec - 1, fits PROVE ticks >= due
        OBVIOUS
      <3> DEFINE x == s * NanoPerSec
      <3>1. x \in Nat /\ x >= NanoPerSec
        BY <2>3
      <3>2. x > n /\ n >= 2
        BY <2>3, <3>1
      <3> HIDE DEF x
      <3>3. x * n >= x + n /\ x * n \in Nat
        BY <3>1, <3>2, SumBelowProduct
      <3> DEFINE a == x + n + Quantum - 1
                 b == x * n + Quantum - 1
      <3>4. a \in Nat /\ b \in Nat /\ a <= b
        BY <2>3, <3>1, <3>3
      <3> HIDE DEF a, b
      <3>5. a \div Quantum <= b \div Quantum
        BY <2>3, <3>4, QuotientGrows
      <3>6. ticks = b \div Quantum /\ due = a \div Quantum
        BY <2>1 DEF a, b, x
      <3>7. a \div Quantum \in Int /\ b \div Quantum \in Int
        BY <2>3, <3>4
      <3> HIDE DEF due
      <3> QED
        BY <3>5, <3>6, <3>7
    <2>5. ticks < 0 => ~fits
      <3> SUFFICES ASSUME fits, ticks < 0 PROVE FALSE
        OBVIOUS
      <3> DEFINE b == s * NanoPerSec * n + Quantum - 1
      <3>1. b \in Int
        BY <2>3
      <3>2. ticks = b \div Quantum /\ ticks >= 0
        BY <2>1
      <3> HIDE DEF b
      <3>3. ticks \in Int
        BY <2>3, <3>1, <3>2
      <3> HIDE DEF fits
      <3> QED
        BY <3>2, <3>3
    <2> HIDE DEF fits
    <2>6. /\ s > 0 /\ n \in 2 .. NanoPerSec - 1 /\ fits => ticks >= Due'
          /\ ticks < 0 => ~fits
      BY <2>1, <2>2, <2>4, <2>5, Zenon
    <2> QED
      BY <2>2, <2>6, Zenon DEF fits
  <1> HIDE DEF Said
  <1>2. [TimespecNext]_timespecVars => [Said]_timespecVars
    <2> SUFFICES ASSUME TimespecNext PROVE Said
      OBVIOUS
    <2>1. ASSUME NEW ms \in Length, SleepMs(ms) PROVE Said
      <3> DEFINE s == ms \div MsPerSec
                 n == (ms % MsPerSec) * (NanoPerSec \div MsPerSec)
      <3>1. /\ s \in Nat /\ n \in Nat
            /\ ((ms * NanoPerSec) \div MsPerSec) % NanoPerSec = n
        BY MsSplit
      <3>2. /\ asked' = [seconds |-> s, nanoseconds |-> n]
            /\ SleepTimespec(s, ((ms * NanoPerSec) \div MsPerSec) % NanoPerSec)
        BY <2>1, Zenon DEF SleepMs
      <3> HIDE DEF s, n
      <3>3. SleepTimespec(s, n)
        BY <3>1, <3>2, Zenon
      <3> QED
        BY <1>1, <3>1, <3>2, <3>3
    <2>2. ASSUME NEW s \in Seconds, NEW n \in Nanos, Sleepts(s, n) PROVE Said
      <3>1. s \in Nat /\ n \in Nat
        BY TimespecAssumption
      <3> QED
        BY <1>1, <2>2, <3>1 DEF Sleepts
    <2> QED
      BY <2>1, <2>2 DEF TimespecNext
  <1>3. SleepTimes <=> [][Said]_timespecVars
    BY DEF SleepTimes, Said
  <1> QED
    BY <1>2, <1>3, PTL DEF TimespecSpec

-----------------------------------------------------------------------------

(* A conversion starts from the defaults.                                  *)
FormatsSound ==
  /\ {szt, ptd} \subseteq BOOLEAN
  /\ printed = Nothing => farg = [alternate |-> FALSE, right |-> FALSE, size |-> 0]
  /\ PrintsAsC

(* The size that read_format leaves for a conversion.                      *)
LEMMA SizeOf ==
  ASSUME NEW c \in Conversion, printed = Nothing, FormatsSound
  PROVE  LET f == ReadFormat(c) IN
         /\ f.alternate = ("#" \in c.flags \/ c.letter = "p")
         /\ f.right = (c.flags \cap {"0", "-"} # {})
         /\ c.size \in {"l", "z", "t"} => f.size = 8
         /\ c.size \in {"ll", "L"} => f.size = 16
         /\ c.size = "h" => f.size = 2
         /\ c.size = "hh" => f.size = 1
         /\ c.size \in {"int", "j"} =>
              f.size = IF c.letter \in {"u", "x", "X", "o", "p", "i"} THEN 4 ELSE 0
  <1> DEFINE f == ReadFormat(c)
             read == SizeRead(c.size)
  <1>1. /\ farg.alternate = FALSE /\ farg.right = FALSE /\ farg.size = 0
        /\ c.size \in {"int", "h", "hh", "l", "ll", "L", "z", "t", "j"}
    BY FormatsAssumption DEF FormatsSound
  <1>2. /\ f.alternate = (farg.alternate \/ "#" \in c.flags \/ c.letter = "p")
        /\ f.right = (farg.right \/ c.flags \cap {"0", "-"} # {})
        /\ f.size = IF read = 0 /\ c.letter \in {"u", "x", "X", "o", "p", "i"} THEN 4 ELSE read
    BY DEF ReadFormat
  <1>3. /\ c.size \in {"l", "z", "t"} => read = 8
        /\ c.size \in {"ll", "L"} => read = 16
        /\ c.size = "h" => read = 2
        /\ c.size = "hh" => read = 1
        /\ c.size \in {"int", "j"} => read = 0
    BY <1>1 DEF SizeRead
  <1> HIDE DEF f, read
  <1>4. /\ f.alternate = ("#" \in c.flags \/ c.letter = "p")
        /\ f.right = (c.flags \cap {"0", "-"} # {})
    BY <1>1, <1>2, Zenon
  <1>5. /\ c.size \in {"l", "z", "t"} => f.size = 8
        /\ c.size \in {"ll", "L"} => f.size = 16
        /\ c.size = "h" => f.size = 2
        /\ c.size = "hh" => f.size = 1
        /\ c.size \in {"int", "j"} =>
             f.size = IF c.letter \in {"u", "x", "X", "o", "p", "i"} THEN 4 ELSE 0
    <2>1. /\ read # 0 => f.size = read
          /\ read = 0 => f.size = IF c.letter \in {"u", "x", "X", "o", "p", "i"} THEN 4 ELSE read
      BY <1>2, Zenon
    <2>2. 8 # 0 /\ 16 # 0 /\ 2 # 0 /\ 1 # 0
      OBVIOUS
    <2> QED
      BY <1>3, <2>1, <2>2, Zenon
  <1> QED
    BY <1>4, <1>5 DEF f

(* Where vsprintf can be relied upon, the value it reads is the argument    *)
(* cut to the size that C gives it.                                        *)
LEMMA ValueRead ==
  ASSUME NEW c \in Conversion, NEW arg \in Argument, printed = Nothing, FormatsSound,
         Convert(c, arg), Reliable(c, arg, szt \/ ptd),
         NEW v \in ValuesRead(ReadFormat(c).size, arg)
  PROVE  v = arg % Bits(CBytes(c.size))
  <1> DEFINE size == ReadFormat(c).size
             bytes == CBytes(c.size)
             n == arg % Bits(bytes)
  <1> SUFFICES v = n
    OBVIOUS
  <1>1. /\ arg \in Nat /\ arg < Bits(8)
        /\ Bits(1) \in Nat \ {0} /\ Bits(2) \in Nat \ {0} /\ Bits(4) \in Nat \ {0} /\ Bits(8) \in Nat \ {0}
        /\ c.size \in {"int", "h", "hh", "l", "ll", "L", "z", "t", "j"}
    <2>1. Bits(8) \in Nat \ {0} /\ arg \in 0 .. Bits(8) - 1
      BY FormatsAssumption
    <2> QED
      BY <2>1, FormatsAssumption
  <1>2. bytes = CASE c.size = "int" -> 4 [] c.size = "h" -> 2 [] c.size = "hh" -> 1 [] OTHER -> 8
    BY DEF CBytes
  <1>3. /\ szt' = (szt \/ c.size = "z") /\ ptd' = (ptd \/ c.size = "t")
        /\ szt \in BOOLEAN /\ ptd \in BOOLEAN
    BY DEF Convert, FormatsSound
  <1>4. /\ c.size \in {"l", "z", "t"} => size = 8
        /\ c.size \in {"ll", "L"} => size = 16
        /\ c.size = "h" => size = 2
        /\ c.size = "hh" => size = 1
        /\ c.size \in {"int", "j"} =>
             size = IF c.letter \in {"u", "x", "X", "o", "p", "i"} THEN 4 ELSE 0
    BY SizeOf, Zenon
  <1>5. v \in CASE szt' \/ ptd' \/ size \in {8, 16} -> {arg}
                [] OTHER ->
                     CASE size \in {1, 2} -> {arg % Bits(size)}
                       [] size = 4 -> {LET int == arg % Bits(4) IN
                                       IF 2 * int < Bits(4) THEN int ELSE int + Bits(8) - Bits(4)}
                       [] OTHER -> Argument
    BY Zenon DEF ValuesRead
  <1>6. /\ szt \/ ptd => bytes = 8
        /\ c.size = "j" => ~(szt \/ ptd) /\ 2 * arg < Bits(4)
        /\ \/ c.letter \in {"u", "x", "X", "o"} /\ (bytes = 4 => 2 * n < Bits(4))
           \/ c.letter = "i" /\ 2 * n < Bits(bytes)
           \/ c.letter = "d" /\ c.size \notin {"int", "j"} /\ 2 * n < Bits(bytes)
    BY Zenon DEF Reliable
  <1> HIDE DEF size, bytes
  <1>7. arg % Bits(8) = arg
    BY <1>1
  <1>8. CASE szt' \/ ptd' \/ size \in {8, 16}
    <2>1. v = arg
      BY <1>5, <1>8, Zenon
    <2>2. bytes = 8
      <3>1. szt \/ ptd => bytes = 8
        BY <1>6, Zenon
      <3>2. c.size \in {"l", "ll", "L", "z", "t"} => bytes = 8
        BY <1>2
      <3>3. szt \/ ptd \/ c.size \in {"l", "ll", "L", "z", "t"}
        <4>1. c.size \in {"int", "h", "hh", "j"} => size \notin {8, 16}
          BY <1>4
        <4>2. szt' \/ ptd' => szt \/ ptd \/ c.size = "z" \/ c.size = "t"
          BY <1>3
        <4> QED
          BY <1>1, <1>8, <4>1, <4>2
      <3> QED
        BY <3>1, <3>2, <3>3, Zenon
    <2> QED
      BY <1>7, <2>1, <2>2
  <1>9. CASE ~(szt' \/ ptd' \/ size \in {8, 16})
    <2>1. v \in CASE size \in {1, 2} -> {arg % Bits(size)}
                  [] size = 4 -> {LET int == arg % Bits(4) IN
                                  IF 2 * int < Bits(4) THEN int ELSE int + Bits(8) - Bits(4)}
                  [] OTHER -> Argument
      BY <1>5, <1>9, Zenon
    <2>2. c.size \in {"int", "h", "hh", "j"}
      BY <1>1, <1>4, <1>9
    <2>3. CASE c.size \in {"h", "hh"}
      <3>1. size \in {1, 2} /\ bytes = size
        BY <1>2, <1>4, <2>3
      <3>2. v = arg % Bits(size)
        <4>1. size # 4
          BY <3>1
        <4> QED
          BY <2>1, <3>1, <4>1
      <3> QED
        BY <3>1, <3>2, Zenon
    <2>4. CASE c.size \in {"int", "j"}
      <3> DEFINE int == arg % Bits(4)
      <3>1. size = 4
        BY <1>4, <1>6, <2>4
      <3>2. v = IF 2 * int < Bits(4) THEN int ELSE int + Bits(8) - Bits(4)
        BY <2>1, <3>1
      <3>3. CASE c.size = "int"
        <4>1. bytes = 4
          BY <1>2, <3>3
        <4>2. 2 * int < Bits(4)
          BY <1>6, <3>3, <4>1
        <4> QED
          BY <3>2, <4>1, <4>2
      <3>4. CASE c.size = "j"
        <4>1. bytes = 8 /\ 2 * arg < Bits(4)
          BY <1>2, <1>6, <3>4
        <4>2. int = arg
          BY <1>1, <4>1
        <4> QED
          BY <1>7, <3>2, <4>1, <4>2
      <3> QED
        BY <2>4, <3>3, <3>4
    <2> QED
      BY <2>2, <2>3, <2>4
  <1> QED
    BY <1>8, <1>9

(* read_format and write_format after any other conversion.                *)
LEMMA ConvertSound ==
  ASSUME FormatsSound, NEW c \in Conversion, NEW arg \in Argument, Convert(c, arg)
  PROVE  FormatsSound'
  <1> DEFINE f == ReadFormat(c)
             stale == szt \/ ptd
             some == szt' \/ ptd' \/ f.size > 0
  <1>1. /\ printed = Nothing /\ farg' = f
        /\ szt' = (szt \/ c.size = "z") /\ ptd' = (ptd \/ c.size = "t")
        /\ szt \in BOOLEAN /\ ptd \in BOOLEAN
    BY DEF Convert, FormatsSound
  <1>2. PICK text, char, taken :
          /\ printed' = [letter |-> c.letter, conversion |-> c, arg |-> arg, text |-> text, char |-> char,
                         taken |-> taken, stale |-> stale]
          /\ c.letter = "c" => char = arg % Bits(1) /\ taken = 1
          /\ c.letter = "%" => text = <<"%">> /\ taken = 0
          /\ c.letter \notin {"c", "s", "%"} =>
               /\ \E v \in ValuesRead(f.size, arg) : text = WriteInt(f, c.letter, v)
               /\ taken = IF some THEN 1 ELSE 0
    <2> DEFINE Printed(text, char, taken) ==
                 [letter |-> c.letter, conversion |-> c, arg |-> arg, text |-> text, char |-> char,
                  taken |-> taken, stale |-> stale]
    <2>1. (CASE c.letter = "c" -> printed' = Printed(<<>>, arg % Bits(1), 1)
             [] c.letter = "s" -> printed' = Printed(<<>>, arg, 1)
             [] c.letter = "%" -> printed' = Printed(<<"%">>, -1, 0)
             [] OTHER -> \E v \in ValuesRead(f.size, arg) :
                           printed' = Printed(WriteInt(f, c.letter, v), -1, IF some THEN 1 ELSE 0))
      BY <1>1, Zenon DEF Convert
    <2> HIDE DEF f, some, Printed
    <2>2. CASE c.letter = "c"
      <3>1. printed' = Printed(<<>>, arg % Bits(1), 1)
        BY <2>1, <2>2
      <3>2. c.letter # "%"
        BY <2>2
      <3> QED
        BY <2>2, <3>1, <3>2, Zenon DEF Printed
    <2>3. CASE c.letter = "s"
      <3>1. printed' = Printed(<<>>, arg, 1)
        BY <2>1, <2>3
      <3>2. c.letter # "%" /\ c.letter # "c"
        BY <2>3
      <3> QED
        BY <2>3, <3>1, <3>2, Zenon DEF Printed
    <2>4. CASE c.letter = "%"
      <3>1. printed' = Printed(<<"%">>, -1, 0)
        BY <2>1, <2>4
      <3>2. c.letter # "c"
        BY <2>4
      <3> QED
        BY <2>4, <3>1, <3>2, Zenon DEF Printed
    <2>5. CASE c.letter \notin {"c", "s", "%"}
      <3>1. PICK v \in ValuesRead(f.size, arg) :
              printed' = Printed(WriteInt(f, c.letter, v), -1, IF some THEN 1 ELSE 0)
        BY <2>1, <2>5
      <3> QED
        BY <2>5, <3>1, Zenon DEF Printed
    <2> QED
      BY <2>2, <2>3, <2>4, <2>5
  <1>3. /\ c.size \in {"l", "z", "t"} => f.size = 8
        /\ c.size \in {"ll", "L"} => f.size = 16
        /\ c.size = "h" => f.size = 2
        /\ c.size = "hh" => f.size = 1
        /\ c.size \in {"int", "j"} => f.size = IF c.letter \in {"u", "x", "X", "o", "p", "i"} THEN 4 ELSE 0
        /\ c.size \in {"int", "h", "hh", "l", "ll", "L", "z", "t", "j"}
        /\ f.alternate = ("#" \in c.flags \/ c.letter = "p")
        /\ f.right = (c.flags \cap {"0", "-"} # {})
    BY <1>1, SizeOf, FormatsAssumption, Zenon
  <1>4. /\ printed'.conversion = c /\ printed'.arg = arg /\ printed'.text = text
        /\ printed'.char = char /\ printed'.taken = taken /\ printed'.stale = stale
        /\ printed' # Nothing
    BY <1>2 DEF Nothing
  <1>5. (szt' = TRUE \/ szt' = FALSE) /\ (ptd' = TRUE \/ ptd' = FALSE)
    BY <1>1
  <1> HIDE DEF f
  <1>6. c.letter \in {"i", "u", "x", "X", "o", "p"} => taken = 1
    <2> SUFFICES ASSUME c.letter \in {"i", "u", "x", "X", "o", "p"} PROVE taken = 1
      OBVIOUS
    <2>1. c.letter \notin {"c", "s", "%"}
      OBVIOUS
    <2>2. f.size \in {1, 2, 4, 8, 16}
      BY <1>3
    <2>3. some
      BY <2>2
    <2> QED
      BY <1>2, <2>1, <2>3, Zenon
  <1>7. c.letter = "d" /\ c.size \in {"int", "j"} /\ ~stale => taken = 0
    <2> SUFFICES ASSUME c.letter = "d", c.size \in {"int", "j"}, ~stale PROVE taken = 0
      OBVIOUS
    <2>1. c.letter \notin {"c", "s", "%"}
      OBVIOUS
    <2>2. f.size = 0 /\ c.size # "z" /\ c.size # "t"
      BY <1>3
    <2>3. ~some
      BY <1>1, <2>2
    <2> QED
      BY <1>2, <2>1, <2>3, Zenon
  <1>8. ASSUME Reliable(c, arg, stale) PROVE text = CPrints(c, arg) /\ taken = 1
    <2> DEFINE n == arg % Bits(CBytes(c.size))
               base == Base(c.letter)
               head == IF "#" \in c.flags /\ c.letter = "x" /\ n # 0 THEN <<"0", "x">> ELSE <<>>
    <2>1. /\ c.flags = {} \/ (c.flags = {"#"} /\ c.letter = "x" /\ n # 0)
          /\ \/ c.letter \in {"u", "x", "X", "o"}
             \/ c.letter = "i" /\ 2 * n < Bits(CBytes(c.size))
             \/ c.letter = "d" /\ c.size \notin {"int", "j"} /\ 2 * n < Bits(CBytes(c.size))
      BY <1>8, Zenon DEF Reliable
    <2>2. c.letter \notin {"c", "s", "%", "p"}
      BY <2>1
    <2>3. PICK v \in ValuesRead(f.size, arg) : text = WriteInt(f, c.letter, v)
      BY <1>2, <2>2
    <2>4. v = n
      BY <1>1, <1>8, <2>3, ValueRead DEF f
    <2>5. n \in Nat /\ n >= 0 /\ Bits(CBytes(c.size)) \in Nat \ {0}
      <3>1. CBytes(c.size) \in {1, 2, 4, 8}
        BY DEF CBytes
      <3>2. Bits(CBytes(c.size)) \in Nat \ {0} /\ arg \in 0 .. Bits(8) - 1 /\ Bits(8) \in Nat
        BY <3>1, FormatsAssumption
      <3> QED
        BY <3>2
    <2>6. f.right = FALSE /\ f.alternate = ("#" \in c.flags)
      <3>1. c.flags \cap {"0", "-"} = {}
        BY <2>1
      <3>2. c.letter # "p"
        BY <2>2
      <3>3. f.right = (c.flags \cap {"0", "-"} # {}) /\ f.alternate = ("#" \in c.flags \/ c.letter = "p")
        BY <1>3, Zenon
      <3>4. f.right = FALSE
        BY <3>1, <3>3
      <3>5. f.alternate = ("#" \in c.flags)
        BY <3>2, <3>3
      <3> QED
        BY <3>4, <3>5
    <2>7. taken = 1
      <3>1. c.letter = "d" => f.size \in {1, 2, 8, 16}
        BY <1>3, <2>1
      <3>2. c.letter = "d" => some
        BY <3>1
      <3>3. c.letter = "d" => taken = 1
        BY <1>2, <2>2, <3>2, Zenon
      <3> QED
        BY <1>6, <2>1, <3>3
    <2>8. "#" \in c.flags => base = 16 /\ c.letter = "x" /\ n # 0
      BY <2>1 DEF Base
    <2> HIDE DEF n, base
    <2>9. (c.letter \in {"X", "p"}) = (c.letter = "X")
      BY <2>2
    <2>10. WriteInt(f, c.letter, v) = head \o Numeral(n, base, c.letter = "X")
      <3>1. WriteInt(f, c.letter, v) =
              IF f.right THEN <<>>
              ELSE (IF f.alternate /\ base = 16 THEN <<"0", "x">> ELSE <<>>)
                     \o Numeral(v, base, c.letter \in {"X", "p"})
        BY Zenon DEF WriteInt, base
      <3>2. (IF f.alternate /\ base = 16 THEN <<"0", "x">> ELSE <<>>) = head
        <4>1. CASE "#" \in c.flags
          BY <2>6, <2>8, <4>1, Zenon
        <4>2. CASE "#" \notin c.flags
          BY <2>6, <4>2, Zenon
        <4> QED
          BY <4>1, <4>2
      <3> QED
        BY <2>4, <2>6, <2>9, <3>1, <3>2, Zenon
    <2>11. CPrints(c, arg) = <<>> \o head \o Numeral(n, base, c.letter = "X")
      <3> DEFINE all == Bits(CBytes(c.size))
                 cv == IF c.letter \in {"d", "i"} /\ 2 * n >= all THEN n - all ELSE n
      <3>1. CPrints(c, arg) =
              (IF cv < 0 THEN <<"-">> ELSE <<>>)
                \o (IF "#" \in c.flags /\ c.letter = "x" /\ cv # 0 THEN <<"0", "x">> ELSE <<>>)
                \o Numeral(IF cv < 0 THEN -cv ELSE cv, base, c.letter = "X")
        BY Zenon DEF CPrints, n, base
      <3>2. cv = n /\ ~ cv < 0
        <4>1. all \in Nat
          BY <2>5
        <4>2. c.letter \in {"d", "i"} => 2 * n < all
          BY <2>1 DEF n
        <4> HIDE DEF all
        <4>3. cv = n
          BY <2>5, <4>1, <4>2
        <4> HIDE DEF cv
        <4> QED
          BY <2>5, <4>3
      <3> HIDE DEF cv
      <3> QED
        BY <3>1, <3>2, Zenon
    <2>12. <<>> \o head = head
      OBVIOUS
    <2> QED
      BY <2>3, <2>7, <2>10, <2>11, <2>12, Zenon
  <1>9. PrintsAsC'
    <2>1. c.letter = "%" => text = <<"%">> /\ taken = 0
      BY <1>2, Zenon
    <2>2. c.letter = "c" => char = arg % Bits(1) /\ taken = 1
      BY <1>2, Zenon
    <2> QED
      BY <1>4, <1>6, <1>7, <1>8, <2>1, <2>2, Zenon DEF PrintsAsC
  <1> QED
    BY <1>4, <1>5, <1>9 DEF FormatsSound

(* vsprintf: what a conversion prints, and the argument it takes, whatever  *)
(* came before it.                                                         *)
THEOREM FormatsInv == FormatsSpec => []PrintsAsC
  <1>1. FormatsInit => FormatsSound
    BY DEF FormatsInit, FormatsSound, FmtDefaults, PrintsAsC
  <1>2. FormatsSound /\ [FormatsNext]_formatVars => FormatsSound'
    <2> SUFFICES ASSUME FormatsSound, [FormatsNext]_formatVars PROVE FormatsSound'
      OBVIOUS
    <2>1. CASE Vsprintf
      BY <2>1 DEF Vsprintf, FormatsSound, FmtDefaults, PrintsAsC
    <2>2. CASE NextConversion
      BY <2>2 DEF NextConversion, FormatsSound, FmtDefaults, PrintsAsC
    <2>3. ASSUME NEW c \in Conversion, NEW arg \in Argument, Convert(c, arg) PROVE FormatsSound'
      BY <2>3, ConvertSound
    <2>4. CASE UNCHANGED formatVars
      BY <2>4 DEF FormatsSound, PrintsAsC, formatVars
    <2> QED
      BY <2>1, <2>2, <2>3, <2>4, Zenon DEF FormatsNext
  <1>3. FormatsSound => PrintsAsC
    BY DEF FormatsSound
  <1> QED
    BY <1>1, <1>2, <1>3, PTL DEF FormatsSpec

-----------------------------------------------------------------------------

(* The tables of boot are a tree: each has a level, that of level 0 is the  *)
(* root, an entry of the upper levels is empty or leads to a table one      *)
(* level down, no two lead to the same table, and the entries of the last   *)
(* level lead to frames.                                                   *)
Target == Nat \cup Frame \cup {NewPage, Elsewhere}
EntrySet == [to : Target, present : BOOLEAN, writable : BOOLEAN, size : BOOLEAN]

LeadsDown(ts, level, t, i) ==
  ts[t][i].to # 0 => ts[t][i].to \in 1 .. Len(ts) /\ level[ts[t][i].to] = level[t] + 1

Tree(ts, level) ==
  /\ ts \in Seq([Slot -> EntrySet])
  /\ level \in [1 .. Len(ts) -> 0 .. 2]
  /\ {1} = {t \in 1 .. Len(ts) : level[t] = 0}
  /\ \A t \in 1 .. Len(ts), i \in Slot : level[t] < 2 => LeadsDown(ts, level, t, i)
  /\ \A t, u \in 1 .. Len(ts), i, j \in Slot :
       /\ level[t] < 2 /\ level[u] < 2
       /\ ts[t][i].to = ts[u][j].to /\ ts[t][i].to # 0
       => t = u /\ i = j
  /\ \A t \in 1 .. Len(ts), i \in Slot : level[t] = 2 => ts[t][i].to \in Frame \cup {0}

(* The entries there are.                                                  *)
LEMMA Entries ==
  /\ EmptyTable \in [Slot -> EntrySet] /\ Empty \in EntrySet
  /\ \A i \in Slot : EmptyTable[i] = Empty
  /\ Empty.to = 0
  /\ Stray \in EntrySet /\ Stray.to = Elsewhere
  /\ \A to \in Target : Points(to) \in EntrySet /\ Points(to).to = to /\ ~Points(to).size
  /\ Frame \cap Nat = {} /\ NewPage \notin Nat /\ Elsewhere \notin Nat /\ NewPage \notin Frame
  /\ Slots \in Nat /\ Skew \in 1 .. Slots - 1 /\ MaxPages \in Nat
  <1>1. /\ Frame \cap Nat = {} /\ NewPage \notin Nat /\ Elsewhere \notin Nat /\ NewPage \notin Frame
        /\ Slots \in Nat /\ Skew \in 1 .. Slots - 1 /\ MaxPages \in Nat
    BY SpacesAssumption
  <1>2. Empty \in EntrySet /\ Empty.to = 0
    BY DEF Empty, EntrySet, Target
  <1>3. Stray \in EntrySet /\ Stray.to = Elsewhere
    BY DEF Stray, EntrySet, Target
  <1>4. \A to \in Target : Points(to) \in EntrySet /\ Points(to).to = to /\ ~Points(to).size
    BY DEF Points, EntrySet
  <1>5. EmptyTable \in [Slot -> EntrySet] /\ \A i \in Slot : EmptyTable[i] = Empty
    BY <1>2 DEF EmptyTable
  <1> QED
    BY <1>1, <1>2, <1>3, <1>4, <1>5

(* A frame in a table of the last level.                                   *)
StoredIn(ts, g, k, e) == [ts EXCEPT ![g][k] = e]

LEMMA BottomStored ==
  ASSUME NEW ts, NEW level, Tree(ts, level),
         NEW g \in 1 .. Len(ts), level[g] = 2, NEW k \in Slot,
         NEW e \in EntrySet, e.to \in Frame
  PROVE  Tree(StoredIn(ts, g, k, e), level)
  <1> DEFINE us == StoredIn(ts, g, k, e)
  <1>1. us = [ts EXCEPT ![g][k] = e]
    BY DEF StoredIn
  <1> HIDE DEF us
  <1>2. ts \in Seq([Slot -> EntrySet]) /\ level \in [1 .. Len(ts) -> 0 .. 2]
    BY DEF Tree
  <1>3. ts[g] \in [Slot -> EntrySet]
    BY <1>2
  <1>4. [ts[g] EXCEPT ![k] = e] \in [Slot -> EntrySet]
    BY <1>3
  <1>5. /\ us \in Seq([Slot -> EntrySet]) /\ Len(us) = Len(ts)
        /\ us[g] = [ts[g] EXCEPT ![k] = e]
        /\ \A t \in 1 .. Len(ts) : t # g => us[t] = ts[t]
    BY <1>1, <1>2, <1>4
  <1>6. \A t \in 1 .. Len(ts) : level[t] < 2 => us[t] = ts[t]
    BY <1>5
  <1>7. \A t \in 1 .. Len(us), i \in Slot : level[t] < 2 => LeadsDown(us, level, t, i)
    BY <1>5, <1>6 DEF Tree, LeadsDown
  <1>8. \A t, u \in 1 .. Len(us), i, j \in Slot :
          /\ level[t] < 2 /\ level[u] < 2
          /\ us[t][i].to = us[u][j].to /\ us[t][i].to # 0
          => t = u /\ i = j
    <2> SUFFICES ASSUME NEW t \in 1 .. Len(us), NEW u \in 1 .. Len(us), NEW i \in Slot, NEW j \in Slot,
                        level[t] < 2, level[u] < 2,
                        us[t][i].to = us[u][j].to, us[t][i].to # 0
                 PROVE  t = u /\ i = j
      OBVIOUS
    <2>1. us[t] = ts[t] /\ us[u] = ts[u] /\ t \in 1 .. Len(ts) /\ u \in 1 .. Len(ts)
      BY <1>5, <1>6
    <2> QED
      BY <2>1 DEF Tree
  <1>9. \A t \in 1 .. Len(us), i \in Slot : level[t] = 2 => us[t][i].to \in Frame \cup {0}
    <2> SUFFICES ASSUME NEW t \in 1 .. Len(us), NEW i \in Slot, level[t] = 2
                 PROVE  us[t][i].to \in Frame \cup {0}
      OBVIOUS
    <2>1. us[t][i] = e \/ us[t][i] = ts[t][i]
      BY <1>3, <1>5
    <2>2. ts[t][i].to \in Frame \cup {0}
      BY <1>5 DEF Tree
    <2> QED
      BY <2>1, <2>2
  <1>10. {1} = {t \in 1 .. Len(us) : level[t] = 0}
    BY <1>5 DEF Tree
  <1>11. Tree(us, level)
    BY <1>2, <1>5, <1>7, <1>8, <1>9, <1>10 DEF Tree
  <1> QED
    BY <1>11 DEF us

(* A table added where there was none.                                     *)
LEMMA TableAdded ==
  ASSUME NEW ts, NEW level, Tree(ts, level),
         NEW t \in 1 .. Len(ts), level[t] < 2, NEW i \in Slot, ts[t][i].to = 0,
         NEW us, us = WithTable(ts, t, i),
         NEW lev, lev = [n \in 1 .. Len(ts) + 1 |-> IF n <= Len(ts) THEN level[n] ELSE level[t] + 1]
  PROVE  Tree(us, lev) /\ us[t][i].to = Len(ts) + 1
  <1> DEFINE n == Len(ts) + 1
             e == Points(n)
             vs == [ts EXCEPT ![t][i] = e]
  <1>1. /\ ts \in Seq([Slot -> EntrySet]) /\ level \in [1 .. Len(ts) -> 0 .. 2]
        /\ Len(ts) \in Nat /\ n \in Nat \ {0} /\ n \notin 1 .. Len(ts)
    BY DEF Tree
  <1>2. e \in EntrySet /\ e.to = n
    <2> n \in Target
      BY <1>1 DEF Target
    <2> QED
      BY Entries
  <1>3. EmptyTable \in [Slot -> EntrySet]
    BY Entries
  <1>4. ts[t] \in [Slot -> EntrySet]
    BY <1>1
  <1> HIDE DEF e
  <1>5. [ts[t] EXCEPT ![i] = e] \in [Slot -> EntrySet]
    BY <1>2, <1>4
  <1>6. /\ vs \in Seq([Slot -> EntrySet]) /\ Len(vs) = Len(ts)
        /\ vs[t] = [ts[t] EXCEPT ![i] = e]
        /\ \A q \in 1 .. Len(ts) : q # t => vs[q] = ts[q]
    BY <1>1, <1>5
  <1>7. us = Append(vs, EmptyTable)
    BY DEF WithTable, e
  <1> HIDE DEF vs
  <1>8. /\ us \in Seq([Slot -> EntrySet]) /\ Len(us) = n
        /\ us[n] = EmptyTable
        /\ \A q \in 1 .. Len(ts) : us[q] = vs[q]
    BY <1>1, <1>3, <1>6, <1>7
  <1>9. /\ us[t][i] = e
        /\ \A q \in 1 .. Len(ts), j \in Slot : q # t \/ j # i => us[q][j] = ts[q][j]
        /\ \A j \in Slot : us[n][j].to = 0
    <2>1. \A j \in Slot : us[n][j].to = 0
      BY <1>8, Entries
    <2>2. us[t][i] = e /\ \A j \in Slot : j # i => us[t][j] = ts[t][j]
      BY <1>4, <1>6, <1>8
    <2>3. \A q \in 1 .. Len(ts) : q # t => us[q] = ts[q]
      BY <1>6, <1>8
    <2> QED
      BY <2>1, <2>2, <2>3
  <1>10. /\ lev \in [1 .. Len(us) -> 0 .. 2] /\ lev[n] = level[t] + 1
         /\ \A q \in 1 .. Len(ts) : lev[q] = level[q]
    <2>1. level[t] + 1 \in 0 .. 2 /\ 1 .. n = 1 .. Len(us)
      <3>1. level[t] \in 0 .. 2
        BY <1>1
      <3>2. Len(us) = n
        BY <1>8
      <3> QED
        BY <3>1, <3>2
    <2>2. \A q \in 1 .. n : q <= Len(ts) => q \in 1 .. Len(ts)
      BY <1>1
    <2>3. n \in 1 .. n /\ ~(n <= Len(ts)) /\ \A q \in 1 .. Len(ts) : q \in 1 .. n /\ q <= Len(ts)
      BY <1>1
    <2>4. \A q \in 1 .. n : (IF q <= Len(ts) THEN level[q] ELSE level[t] + 1) \in 0 .. 2
      BY <1>1, <2>1, <2>2
    <2>5. lev = [q \in 1 .. n |-> IF q <= Len(ts) THEN level[q] ELSE level[t] + 1]
      OBVIOUS
    <2> HIDE DEF n
    <2> QED
      BY <2>1, <2>3, <2>4, <2>5
  <1> HIDE DEF n
  <1>11. \A q \in 1 .. Len(us) : q \in 1 .. Len(ts) \/ q = n
    BY <1>1, <1>8 DEF n
  <1>12. {1} = {q \in 1 .. Len(us) : lev[q] = 0}
    <2>1. {1} = {q \in 1 .. Len(ts) : level[q] = 0}
      BY DEF Tree
    <2>2. level[t] \in 0 .. 2 /\ lev[n] # 0
      BY <1>1, <1>10, SMTT(30)
    <2>3. 1 .. Len(ts) \subseteq 1 .. Len(us)
      BY <1>1, <1>8 DEF n
    <2> QED
      BY <1>10, <1>11, <2>1, <2>2, <2>3
  <1>13. ASSUME NEW q \in 1 .. Len(us), NEW j \in Slot, lev[q] < 2
         PROVE  LeadsDown(us, lev, q, j)
    <2>1. CASE q = t /\ j = i
      BY <2>1, <1>1, <1>2, <1>8, <1>9, <1>10 DEF LeadsDown, n
    <2>2. CASE q = n
      BY <2>2, <1>9 DEF LeadsDown
    <2>3. CASE q \in 1 .. Len(ts) /\ ~(q = t /\ j = i)
      <3>1. LeadsDown(ts, level, q, j)
        BY <2>3, <1>10, <1>13 DEF Tree
      <3>2. us[q][j] = ts[q][j] /\ lev[q] = level[q]
        BY <2>3, <1>9, <1>10
      <3>3. ts[q][j].to # 0 => ts[q][j].to \in 1 .. Len(us) /\ lev[ts[q][j].to] = level[ts[q][j].to]
        BY <3>1, <1>1, <1>8, <1>10 DEF LeadsDown, n
      <3> QED
        BY <3>1, <3>2, <3>3 DEF LeadsDown
    <2> QED
      BY <1>11, <2>1, <2>2, <2>3
  <1>14. ASSUME NEW q \in 1 .. Len(us), NEW u \in 1 .. Len(us), NEW j \in Slot, NEW k \in Slot,
                lev[q] < 2, lev[u] < 2, us[q][j].to = us[u][k].to, us[q][j].to # 0
         PROVE  q = u /\ j = k
    <2>1. q \in 1 .. Len(ts) /\ u \in 1 .. Len(ts)
      BY <1>9, <1>11, <1>14
    <2>2. /\ \A x \in 1 .. Len(ts), y \in Slot : level[x] < 2 => ts[x][y].to # n
          /\ level[q] < 2 /\ level[u] < 2
      <3> n # 0
        BY <1>1
      <3> QED
        BY <1>1, <1>10, <1>14, <2>1 DEF Tree, LeadsDown
    <2>3. CASE q = t /\ j = i
      BY <2>1, <2>2, <2>3, <1>2, <1>9, <1>14
    <2>4. CASE u = t /\ k = i
      BY <2>1, <2>2, <2>4, <1>2, <1>9, <1>14
    <2>5. CASE ~(q = t /\ j = i) /\ ~(u = t /\ k = i)
      <3>1. us[q][j] = ts[q][j] /\ us[u][k] = ts[u][k]
        BY <1>9, <2>1, <2>5
      <3> QED
        BY <1>14, <2>1, <2>2, <3>1 DEF Tree
    <2> QED
      BY <2>3, <2>4, <2>5
  <1>15. ASSUME NEW q \in 1 .. Len(us), NEW j \in Slot, lev[q] = 2
         PROVE  us[q][j].to \in Frame \cup {0}
    <2>1. CASE q = n
      BY <1>9, <2>1
    <2>2. CASE q \in 1 .. Len(ts)
      <3>1. q # t /\ level[q] = 2
        BY <1>10, <1>15, <2>2
      <3>2. us[q][j] = ts[q][j]
        BY <1>9, <2>2, <3>1
      <3> QED
        BY <2>2, <3>1, <3>2 DEF Tree
    <2> QED
      BY <1>11, <2>1, <2>2
  <1>16. Tree(us, lev)
    <2>1. \A q \in 1 .. Len(us), j \in Slot : lev[q] < 2 => LeadsDown(us, lev, q, j)
      BY <1>13
    <2>2. \A q, u \in 1 .. Len(us), j, k \in Slot :
            /\ lev[q] < 2 /\ lev[u] < 2
            /\ us[q][j].to = us[u][k].to /\ us[q][j].to # 0
            => q = u /\ j = k
      BY <1>14
    <2>3. us \in Seq([Slot -> EntrySet]) /\ lev \in [1 .. Len(us) -> 0 .. 2]
      BY <1>8, <1>10
    <2>4. \A q \in 1 .. Len(us), j \in Slot : lev[q] = 2 => us[q][j].to \in Frame \cup {0}
      BY <1>15
    <2> QED
      BY <1>12, <2>1, <2>2, <2>3, <2>4, Zenon DEF Tree
  <1> QED
    BY <1>2, <1>9, <1>16 DEF n

(* One level down, with a new table where there is none.                   *)
Reaching(ts, t, i) == IF ts[t][i].to # 0 THEN ts ELSE WithTable(ts, t, i)

LEMMA ReachingSound ==
  ASSUME NEW ts, NEW level, Tree(ts, level),
         NEW t \in 1 .. Len(ts), level[t] < 2, NEW i \in Slot
  PROVE  \E lev : /\ Tree(Reaching(ts, t, i), lev)
                  /\ Reaching(ts, t, i)[t][i].to \in 1 .. Len(Reaching(ts, t, i))
                  /\ lev[Reaching(ts, t, i)[t][i].to] = level[t] + 1
  <1>1. CASE ts[t][i].to # 0
    <2>1. Reaching(ts, t, i) = ts
      BY <1>1 DEF Reaching
    <2>2. ts[t][i].to \in 1 .. Len(ts) /\ level[ts[t][i].to] = level[t] + 1
      BY <1>1 DEF Tree, LeadsDown
    <2> QED
      BY <2>1, <2>2
  <1>2. CASE ts[t][i].to = 0
    <2> DEFINE us == WithTable(ts, t, i)
               lev == [n \in 1 .. Len(ts) + 1 |-> IF n <= Len(ts) THEN level[n] ELSE level[t] + 1]
    <2>1. Reaching(ts, t, i) = us
      BY <1>2 DEF Reaching
    <2>2. Tree(us, lev) /\ us[t][i].to = Len(ts) + 1
      BY <1>2, TableAdded
    <2>3. Len(ts) \in Nat /\ level[t] \in 0 .. 2
      BY DEF Tree
    <2>4. lev[Len(ts) + 1] = level[t] + 1
      BY <2>3
    <2>5. DOMAIN lev = 1 .. Len(ts) + 1
      OBVIOUS
    <2> HIDE DEF us, lev
    <2>6. DOMAIN lev = 1 .. Len(us)
      BY <2>2 DEF Tree
    <2>7. Len(ts) + 1 \in 1 .. Len(us)
      BY <2>3, <2>5, <2>6
    <2> QED
      BY <2>1, <2>2, <2>4, <2>7
  <1> QED
    BY <1>1, <1>2

LEMMA MappedSound ==
  ASSUME NEW ts, NEW level, Tree(ts, level),
         NEW a \in Slot \X Slot \X Slot, NEW frame \in Frame
  PROVE  \E lev : Tree(MapAddressBuffer(ts, 1, a, frame), lev)
  <1> DEFINE t1 == Reaching(ts, 1, a[1])
             pdp == t1[1][a[1]].to
             t2 == Reaching(t1, pdp, a[2])
             pgd == t2[pdp][a[2]].to
             e == [Points(frame) EXCEPT !.size = TRUE]
  <1>1. MapAddressBuffer(ts, 1, a, frame) = StoredIn(t2, pgd, a[3], e)
    BY Zenon DEF MapAddressBuffer, Reaching, StoredIn
  <1>2. a[1] \in Slot /\ a[2] \in Slot /\ a[3] \in Slot
    OBVIOUS
  <1>3. 1 \in 1 .. Len(ts) /\ level[1] = 0
    BY DEF Tree
  <1>4. PICK lev1 : Tree(t1, lev1) /\ pdp \in 1 .. Len(t1) /\ lev1[pdp] = 1
    BY <1>2, <1>3, ReachingSound
  <1> HIDE DEF t1, pdp
  <1>5. PICK lev2 : Tree(t2, lev2) /\ pgd \in 1 .. Len(t2) /\ lev2[pgd] = 2
    BY <1>2, <1>4, ReachingSound
  <1>6. e \in EntrySet /\ e.to = frame
    BY DEF Points, EntrySet, Target
  <1> HIDE DEF t2, pgd, e
  <1>7. Tree(StoredIn(t2, pgd, a[3], e), lev2)
    BY <1>2, <1>5, <1>6, BottomStored
  <1> QED
    BY <1>1, <1>7

(* What boot builds, one mapping after another.                            *)
Built == {ts \in Seq([Slot -> EntrySet]) : \E level : Tree(ts, level)}

(* The empty pml4 that init_pml4 leaves is a forest of one table.          *)
LEMMA EmptySpace == <<EmptyTable>> \in Built
  <1> DEFINE ts == <<EmptyTable>>
             level == [t \in 1 .. 1 |-> 0]
  <1>1. EmptyTable \in [Slot -> EntrySet]
    BY Entries
  <1>2. \A i \in Slot : EmptyTable[i].to = 0 
    BY Entries
  <1> HIDE DEF EmptyTable
  <1>3. ts \in Seq([Slot -> EntrySet]) /\ Len(ts) = 1 /\ ts[1] = EmptyTable
    BY <1>1
  <1>4. 1 .. Len(ts) = {1} /\ level \in [1 .. Len(ts) -> 0 .. 2] /\ level[1] = 0
    BY <1>3
  <1> HIDE DEF ts, level
  <1>5. \A t \in 1 .. Len(ts), i \in Slot : ts[t][i].to = 0 
    BY <1>2, <1>3, <1>4
  <1>6. {1} = {t \in 1 .. Len(ts) : level[t] = 0}
    BY <1>4
  <1>7. Tree(ts, level)
    BY <1>3, <1>4, <1>5, <1>6 DEF Tree, LeadsDown
  <1> QED
    BY <1>3, <1>7 DEF Built, ts

(* The loop of init_paging keeps them a forest.                            *)
LEMMA BootBuilds == BootTables \in Built
  <1> DEFINE n == Len(BootMap)
             G == [k \in 1 .. n |-> [x \in Built |->
                     MapAddressBuffer(x, 1, BootMap[k].address, BootMap[k].frame)]]
             Round(f) == [k \in 0 .. n |->
                            IF k = 0 THEN <<EmptyTable>>
                            ELSE MapAddressBuffer(f[k - 1], 1, BootMap[k].address, BootMap[k].frame)]
             after == CHOOSE f : f = Round(f)
  <1>1. n \in Nat
    BY SpacesAssumption
  <1>2. ASSUME NEW k \in 1 .. n, NEW x \in Built
        PROVE  MapAddressBuffer(x, 1, BootMap[k].address, BootMap[k].frame) \in Built
    <2>1. BootMap[k] \in [address : Slot \X Slot \X Slot, frame : Frame]
      BY SpacesAssumption, ElementOfSeq
    <2>2. BootMap[k].address \in Slot \X Slot \X Slot /\ BootMap[k].frame \in Frame
      BY <2>1
    <2>3. PICK level : Tree(x, level)
      BY DEF Built
    <2>4. \E lev : Tree(MapAddressBuffer(x, 1, BootMap[k].address, BootMap[k].frame), lev)
      BY <2>2, <2>3, MappedSound
    <2> QED
      BY <2>4 DEF Built, Tree
  <1>3. G \in [1 .. n -> [Built -> Built]]
    BY <1>2
  <1>4. PICK f \in [0 .. n -> Built] :
          f[0] = <<EmptyTable>> /\ \A i \in 1 .. n : f[i] = G[i][f[i - 1]]
    <2> DEFINE first == <<EmptyTable>>
    <2>1. n \in Nat /\ G \in [1 .. n -> [Built -> Built]] /\ first \in Built
      BY <1>1, <1>3, EmptySpace
    <2> HIDE DEF G, n, first
    <2>2. \E f \in [0 .. n -> Built] : f[0] = first /\ \A i \in 1 .. n : f[i] = G[i][f[i - 1]]
      BY <2>1, Looped
    <2> QED
      BY <2>2 DEF first
  <1>5. \A i \in 1 .. n : i - 1 \in 0 .. n /\ i \in 0 .. n /\ i # 0
    BY <1>1
  <1>6. \A i \in 1 .. n : f[i] = MapAddressBuffer(f[i - 1], 1, BootMap[i].address, BootMap[i].frame)
    <2> SUFFICES ASSUME NEW i \in 1 .. n
                 PROVE  f[i] = MapAddressBuffer(f[i - 1], 1, BootMap[i].address, BootMap[i].frame)
      OBVIOUS
    <2>1. f[i - 1] \in Built
      BY <1>4, <1>5
    <2>2. G[i][f[i - 1]] = MapAddressBuffer(f[i - 1], 1, BootMap[i].address, BootMap[i].frame)
      BY <2>1
    <2>3. f[i] = G[i][f[i - 1]]
      BY <1>4
    <2> HIDE DEF G
    <2> QED
      BY <2>2, <2>3, Zenon
  <1> HIDE DEF G
  <1>7. f = Round(f)
    <2>1. \A i \in 0 .. n : i = 0 \/ i \in 1 .. n
      BY <1>1
    <2>2. \A i \in 0 .. n :
            f[i] = IF i = 0 THEN <<EmptyTable>>
                   ELSE MapAddressBuffer(f[i - 1], 1, BootMap[i].address, BootMap[i].frame)
      BY <1>4, <1>6, <2>1, Zenon
    <2>3. f = [i \in 0 .. n |-> f[i]]
      BY <1>4
    <2> QED
      BY <2>2, <2>3, Zenon
  <1>8. after = Round(after)
    BY <1>7, Zenon
  <1>9. BootTables = after[n]
    BY DEF BootTables
  <1> HIDE DEF after
  <1>10. /\ after[0] = <<EmptyTable>>
         /\ \A i \in 1 .. n :
              after[i] = MapAddressBuffer(after[i - 1], 1, BootMap[i].address, BootMap[i].frame)
    <2>1. \A k \in 0 .. n :
            after[k] = IF k = 0 THEN <<EmptyTable>>
                       ELSE MapAddressBuffer(after[k - 1], 1, BootMap[k].address, BootMap[k].frame)
      BY <1>8, Zenon
    <2>2. 0 \in 0 .. n
      BY <1>1
    <2> QED
      BY <1>5, <2>1, <2>2, Zenon
  <1> DEFINE T == {k \in 0 .. n : after[k] \in Built}
  <1>11. 0 .. n \subseteq T
    <2>1. 0 \in T
      BY <1>1, <1>10, EmptySpace, SMTT(30)
    <2>2. ASSUME NEW i \in 1 .. n, i - 1 \in T PROVE i \in T
      <3>1. MapAddressBuffer(after[i - 1], 1, BootMap[i].address, BootMap[i].frame) \in Built
        BY <1>2, <2>2
      <3> QED
        BY <1>5, <1>10, <3>1
    <2> HIDE DEF T, n
    <2> QED
      BY <1>1, <2>1, <2>2, Ladder
  <1>12. n \in 0 .. n
    BY <1>1
  <1> QED
    BY <1>9, <1>11, <1>12


Level == CHOOSE level : Tree(BootTables, level)

LEMMA BootIsTree ==
  /\ Tree(BootTables, Level)
  /\ Boot \in Nat \ {0} /\ 1 \in 1 .. Boot /\ Level[1] = 0
  <1>1. \E level : Tree(BootTables, level)
    BY BootBuilds DEF Built
  <1>2. Tree(BootTables, Level)
    BY <1>1, Zenon DEF Level
  <1>3. 1 \in 1 .. Len(BootTables) /\ Level[1] = 0 /\ Len(BootTables) \in Nat
    BY <1>2 DEF Tree
  <1> QED
    BY <1>2, <1>3 DEF Boot

(* Nothing but the upper entries that boot laid leads to a table of boot.   *)
IntoBoot(to) == to \in 1 .. Boot

LaidTo(t, i) == BootTables[t][i].to

AsLaid(t, i, e) ==
  IntoBoot(e.to) => t \in 1 .. Boot /\ Level[t] < 2 /\ e.to = LaidTo(t, i)

SpacesSound ==
  /\ pages \in Seq([Slot -> EntrySet]) /\ Boot < Len(pages)
  /\ \A t \in 1 .. Len(pages), i \in Slot : AsLaid(t, i, pages[t][i])
  /\ null \in [Slot -> EntrySet]
  /\ \A i \in Slot : ~IntoBoot(null[i].to)
  /\ roots \subseteq {1} \cup Boot + 1 .. Len(pages) - 1

(* What is read through an aligned pointer, and in the table of a root.     *)
LEMMA EntryRead ==
  ASSUME SpacesSound, NEW t \in Target, NEW i \in Slot
  PROVE  /\ Entry(t, i) \in EntrySet
         /\ AsLaid(t, i, Entry(t, i))
         /\ t \in 1 .. Boot => IsTable(t) /\ t # 0 /\ Entry(t, i) = pages[t][i]
  <1>1. pages \in Seq([Slot -> EntrySet]) /\ Len(pages) \in Nat /\ Boot \in Nat /\ Boot < Len(pages)
    BY BootIsTree DEF SpacesSound
  <1>2. CASE t = 0
    <2>1. Entry(t, i) = null[i]
      BY <1>2 DEF Entry
    <2> QED
      BY <1>1, <1>2, <2>1 DEF SpacesSound, AsLaid
  <1>3. CASE t # 0 /\ IsTable(t)
    <2>1. Entry(t, i) = pages[t][i] /\ t \in 1 .. Len(pages)
      BY <1>1, <1>3 DEF Entry, IsTable
    <2> QED
      BY <1>1, <1>3, <2>1 DEF SpacesSound
  <1>4. CASE t # 0 /\ ~IsTable(t)
    <2>1. Entry(t, i) = Stray
      BY <1>4 DEF Entry
    <2>2. ~IntoBoot(Stray.to)
      BY <1>1, Entries DEF IntoBoot
    <2>3. t \notin 1 .. Boot
      BY <1>1, <1>4 DEF IsTable
    <2> QED
      BY <2>1, <2>2, <2>3, Entries DEF AsLaid
  <1> QED
    BY <1>2, <1>3, <1>4

LEMMA WordRead ==
  ASSUME SpacesSound, NEW root \in roots, NEW i \in Slot
  PROVE  LET p == Place(root, i) IN
         /\ p[1] \in 1 .. Len(pages) /\ p[2] \in Slot
         /\ Word(root, i) = pages[p[1]][p[2]] /\ Word(root, i) \in EntrySet
         /\ \/ root = 1 /\ p[1] = 1 /\ p[2] = i
            \/ root > Boot /\ p[1] > Boot
         /\ IntoBoot(Word(root, i).to) => root = 1 /\ Word(root, i) = pages[1][i]
  <1> DEFINE p == Place(root, i)
  <1>1. /\ pages \in Seq([Slot -> EntrySet]) /\ Len(pages) \in Nat /\ Boot \in Nat \ {0}
        /\ Boot < Len(pages) /\ root \in {1} \cup Boot + 1 .. Len(pages) - 1
        /\ Slots \in Nat /\ Skew \in 1 .. Slots - 1 /\ i \in 0 .. Slots - 1
    BY BootIsTree, Entries DEF SpacesSound, Slot
  <1>2. /\ p[1] \in 1 .. Len(pages) /\ p[2] \in Slot
        /\ \/ root = 1 /\ p[1] = 1 /\ p[2] = i
           \/ root > Boot /\ p[1] > Boot
    <2>1. CASE root <= Boot
      <3>1. p = <<root, i>> /\ root = 1
        BY <1>1, <2>1 DEF Place
      <3> HIDE DEF p
      <3> QED
        BY <1>1, <3>1
    <2>2. CASE root > Boot /\ i + Skew < Slots
      <3>1. p = <<root, i + Skew>>
        BY <1>1, <2>2 DEF Place
      <3> HIDE DEF p
      <3> QED
        BY <1>1, <2>2, <3>1 DEF Slot
    <2>3. CASE root > Boot /\ ~(i + Skew < Slots)
      <3>1. p = <<root + 1, i + Skew - Slots>>
        BY <1>1, <2>3 DEF Place
      <3> HIDE DEF p
      <3> QED
        BY <1>1, <2>3, <3>1 DEF Slot
    <2> QED
      BY <1>1, <2>1, <2>2, <2>3
  <1>3. Word(root, i) = pages[p[1]][p[2]]
    BY DEF Word
  <1> HIDE DEF p
  <1>4. Word(root, i) \in EntrySet /\ AsLaid(p[1], p[2], Word(root, i))
    <2>1. pages[p[1]] \in [Slot -> EntrySet]
      BY <1>1, <1>2
    <2>2. AsLaid(p[1], p[2], pages[p[1]][p[2]])
      BY <1>2, Zenon DEF SpacesSound
    <2> QED
      BY <1>2, <1>3, <2>1, <2>2
  <1>5. IntoBoot(Word(root, i).to) => root = 1 /\ Word(root, i) = pages[1][i]
    BY <1>1, <1>2, <1>3, <1>4 DEF AsLaid
  <1> QED
    BY <1>2, <1>3, <1>4, <1>5 DEF p

(* The tables on the way to the entry of an address that boot laid.         *)
Upper(a) == pages[1][a[1]].to
Lower(a) == pages[Upper(a)][a[2]].to

LEMMA LaidPath ==
  ASSUME SpacesSound, NEW a \in Slot \X Slot \X Slot, LaidByBoot(a)
  PROVE  /\ Upper(a) \in 1 .. Boot /\ Lower(a) \in 1 .. Boot
         /\ Level[Upper(a)] = 1 /\ Level[Lower(a)] = 2
         /\ Upper(a) = LaidTo(1, a[1]) /\ Lower(a) = LaidTo(Upper(a), a[2])
  <1>1. /\ pages \in Seq([Slot -> EntrySet]) /\ Len(pages) \in Nat /\ Boot \in Nat /\ Boot < Len(pages)
        /\ 1 \in 1 .. Boot /\ a[1] \in Slot /\ a[2] \in Slot
    BY BootIsTree DEF SpacesSound
  <1>2. Upper(a) \in 1 .. Boot /\ Lower(a) \in 1 .. Boot
    BY DEF LaidByBoot, Upper, Lower
  <1> DEFINE p == Upper(a)
             g == Lower(a)
  <1>3. p = pages[1][a[1]].to /\ g = pages[p][a[2]].to
    BY Zenon DEF Upper, Lower
  <1> HIDE DEF p, g
  <1>4. p \in 1 .. Boot /\ g \in 1 .. Boot
    BY <1>2 DEF p, g
  <1>5. p = LaidTo(1, a[1]) /\ g = LaidTo(p, a[2]) /\ Level[1] < 2 /\ Level[p] < 2
    <2>1. 1 \in 1 .. Len(pages) /\ p \in 1 .. Len(pages)
      BY <1>1, <1>4
    <2>2. AsLaid(1, a[1], pages[1][a[1]]) /\ AsLaid(p, a[2], pages[p][a[2]])
      BY <1>1, <2>1 DEF SpacesSound
    <2> QED
      BY <1>3, <1>4, <2>2 DEF AsLaid, IntoBoot
  <1>6. Level[p] = 1
    <2>1. LeadsDown(BootTables, Level, 1, a[1])
      BY <1>1, <1>5, BootIsTree DEF Tree, Boot
    <2> QED
      BY <1>1, <1>4, <1>5, <2>1, BootIsTree DEF LeadsDown, LaidTo
  <1>7. Level[g] = 2
    <2>1. LeadsDown(BootTables, Level, p, a[2])
      BY <1>1, <1>4, <1>5, BootIsTree DEF Tree, Boot
    <2> QED
      BY <1>1, <1>4, <1>5, <1>6, <2>1 DEF LeadsDown, LaidTo
  <1> QED
    BY <1>4, <1>5, <1>6, <1>7 DEF p, g

(* No two upper entries of boot lead to one table.                         *)
LEMMA OneWay ==
  ASSUME NEW t \in 1 .. Boot, NEW u \in 1 .. Boot, NEW i \in Slot, NEW j \in Slot,
         Level[t] < 2, Level[u] < 2, NEW n \in 1 .. Boot,
         n = LaidTo(t, i), n = LaidTo(u, j)
  PROVE  t = u /\ i = j
  <1>1. Boot \in Nat /\ n # 0
    BY BootIsTree
  <1>2. BootTables[t][i].to = BootTables[u][j].to /\ BootTables[t][i].to # 0
    BY <1>1 DEF LaidTo
  <1> QED
    BY <1>2, BootIsTree DEF Tree, Boot

(* Two addresses that boot laid have different entries.                    *)
LEMMA LaidApart ==
  ASSUME SpacesSound, NEW a \in Slot \X Slot \X Slot, NEW b \in Slot \X Slot \X Slot,
         LaidByBoot(a), LaidByBoot(b), Lower(a) = Lower(b), a[3] = b[3]
  PROVE  a = b
  <1> DEFINE p == Upper(a)
             q == Upper(b)
             g == Lower(a)
  <1>1. /\ p \in 1 .. Boot /\ g \in 1 .. Boot /\ Level[p] = 1
        /\ p = LaidTo(1, a[1]) /\ g = LaidTo(p, a[2])
    BY LaidPath
  <1>2. /\ q \in 1 .. Boot /\ Level[q] = 1
        /\ q = LaidTo(1, b[1]) /\ g = LaidTo(q, b[2])
    BY LaidPath
  <1>3. a[1] \in Slot /\ a[2] \in Slot /\ b[1] \in Slot /\ b[2] \in Slot
    OBVIOUS
  <1>4. 1 \in 1 .. Boot /\ Level[1] = 0
    BY BootIsTree
  <1> HIDE DEF p, q, g
  <1>5. \A i, j, k, m \in Slot :
          /\ p = LaidTo(1, i) /\ g = LaidTo(p, j)
          /\ q = LaidTo(1, k) /\ g = LaidTo(q, m)
          => i = k /\ j = m
    <2> SUFFICES ASSUME NEW i \in Slot, NEW j \in Slot, NEW k \in Slot, NEW m \in Slot,
                        p = LaidTo(1, i), g = LaidTo(p, j),
                        q = LaidTo(1, k), g = LaidTo(q, m)
                 PROVE  i = k /\ j = m
      OBVIOUS
    <2>1. Level[p] < 2 /\ Level[q] < 2 /\ Level[1] < 2
      BY <1>1, <1>2, <1>4
    <2>2. p = q /\ j = m
      BY <1>1, <1>2, <2>1, OneWay
    <2>3. i = k
      BY <1>1, <1>4, <2>1, <2>2, OneWay
    <2> QED
      BY <2>2, <2>3
  <1>6. a[1] = b[1] /\ a[2] = b[2]
    BY <1>1, <1>2, <1>3, <1>5
  <1> QED
    BY <1>6

(* Where a store through the tables of a root goes: if into a table of      *)
(* boot, then to the entry of an address of the root of boot.               *)
Destination(root, a) == Entry(Word(root, a[1]).to, a[2]).to

LEMMA Destined ==
  ASSUME SpacesSound, NEW root \in roots, NEW a \in Slot \X Slot \X Slot
  PROVE  /\ Destination(root, a) \in Target
         /\ Destination(root, a) \in 1 .. Boot =>
              root = 1 /\ LaidByBoot(a) /\ Destination(root, a) = Lower(a)
  <1> DEFINE w == Word(root, a[1])
             e == Entry(w.to, a[2])
  <1>1. a[1] \in Slot /\ a[2] \in Slot
    OBVIOUS
  <1>2. w \in EntrySet /\ (IntoBoot(w.to) => root = 1 /\ w = pages[1][a[1]])
    BY <1>1, WordRead
  <1> HIDE DEF w
  <1>3. w.to \in Target
    BY <1>2 DEF EntrySet
  <1>4. /\ e \in EntrySet /\ AsLaid(w.to, a[2], e)
        /\ w.to \in 1 .. Boot => e = pages[w.to][a[2]]
    BY <1>1, <1>3, EntryRead
  <1>5. Destination(root, a) = e.to
    BY DEF Destination, w
  <1> HIDE DEF e
  <1>6. e.to \in Target
    BY <1>4 DEF EntrySet
  <1>7. ASSUME e.to \in 1 .. Boot
        PROVE  root = 1 /\ LaidByBoot(a) /\ e.to = Lower(a)
    <2>1. w.to \in 1 .. Boot
      BY <1>4, <1>7 DEF AsLaid, IntoBoot
    <2>2. root = 1 /\ w = pages[1][a[1]] /\ e = pages[w.to][a[2]]
      BY <1>2, <1>4, <2>1 DEF IntoBoot
    <2> QED
      BY <1>7, <2>1, <2>2 DEF LaidByBoot, Upper, Lower
  <1> QED
    BY <1>5, <1>6, <1>7

(* What the processor finds where boot laid the tables depends on three     *)
(* entries only.                                                           *)
Seen(x, y, z) ==
  IF x.present /\ y.present /\ z.present /\ z.size /\ z.to \in Frame
  THEN {[frame |-> z.to, writable |-> x.writable /\ y.writable /\ z.writable]}
  ELSE {}

LEMMA FoundLaid ==
  ASSUME SpacesSound, NEW b \in Slot \X Slot \X Slot, LaidByBoot(b)
  PROVE  /\ Translation(1, b) =
              Seen(pages[1][b[1]], pages[Upper(b)][b[2]], pages[Lower(b)][b[3]])
         /\ Len(pages') \in Nat /\ Boot < Len(pages')
            /\ pages'[1][b[1]] = pages[1][b[1]] /\ pages'[Upper(b)][b[2]] = pages[Upper(b)][b[2]]
            => Translation(1, b)' =
                 Seen(pages[1][b[1]], pages[Upper(b)][b[2]], pages'[Lower(b)][b[3]])
  <1> DEFINE p == Upper(b)
             g == Lower(b)
             x == pages[1][b[1]]
             y == pages[p][b[2]]
  <1>1. p \in 1 .. Boot /\ g \in 1 .. Boot
    BY LaidPath
  <1>2. p = x.to /\ g = y.to
    BY Zenon DEF Upper, Lower
  <1>3. 1 \in 1 .. Boot /\ Boot \in Nat /\ Len(pages) \in Nat /\ Boot < Len(pages)
    BY BootIsTree DEF SpacesSound
  <1>4. \A t \in 1 .. Boot : t # 0 /\ IsTable(t)
    BY <1>3 DEF IsTable
  <1> HIDE DEF p, g
  <1>5. Translation(1, b) = Seen(x, y, pages[g][b[3]])
    <2>1. Entry(1, b[1]) = x /\ Entry(p, b[2]) = y /\ Entry(g, b[3]) = pages[g][b[3]]
      BY <1>1, <1>3, <1>4 DEF Entry
    <2> HIDE DEF x, y
    <2>2. Translation(1, b) = Found(x, b)
      BY <2>1 DEF Translation
    <2> QED
      BY <1>2, <2>1, <2>2, Zenon DEF Found, Seen
  <1>6. ASSUME Len(pages') \in Nat, Boot < Len(pages'), pages'[1][b[1]] = x, pages'[p][b[2]] = y
        PROVE  Translation(1, b)' = Seen(x, y, pages'[g][b[3]])
    <2>1. \A t \in 1 .. Boot : t # 0 /\ t \in 1 .. Len(pages') - 1
      BY <1>3, <1>6 DEF IsTable
    <2> DEFINE now(t, i) == IF t = 0 THEN null'[i] ELSE IF t \in 1 .. Len(pages') - 1 THEN pages'[t][i] ELSE Stray
    <2>2. now(1, b[1]) = x /\ now(p, b[2]) = y /\ now(g, b[3]) = pages'[g][b[3]]
      BY <1>1, <1>3, <1>6, <2>1
    <2> DEFINE X == now(1, b[1])
               Y == now(X.to, b[2])
               Z == now(Y.to, b[3])
    <2>3. Translation(1, b)' = Seen(X, Y, Z)
      BY DEF Translation, Found, Seen, Entry, IsTable
    <2> HIDE DEF now, x, y
    <2>4. X = x /\ Y = y /\ Z = pages'[g][b[3]]
      BY <1>2, <2>2, Zenon
    <2> HIDE DEF X, Y, Z
    <2> QED
      BY <2>3, <2>4, Zenon
  <1> QED
    BY <1>5, <1>6 DEF p, g

(* A store into the last level, or elsewhere than in the tables of boot.    *)
LEMMA StoreSound ==
  ASSUME SpacesSound, NEW t, t \in 1 .. Boot => Level[t] = 2,
         NEW i \in Slot, NEW e \in EntrySet, ~IntoBoot(e.to),
         Store(t, i, e), UNCHANGED roots
  PROVE  /\ SpacesSound' /\ Len(pages') = Len(pages)
         /\ \A u \in 1 .. Boot, j \in Slot : u # t \/ j # i => pages'[u][j] = pages[u][j]
         /\ t \in 1 .. Boot => pages'[t][i] = e
  <1>1. pages \in Seq([Slot -> EntrySet]) /\ Len(pages) \in Nat /\ Boot \in Nat /\ Boot < Len(pages)
    BY BootIsTree DEF SpacesSound
  <1>2. CASE IsTable(t) /\ pages' = [pages EXCEPT ![t][i] = e] /\ UNCHANGED null
    <2>1. t \in 1 .. Len(pages) /\ pages[t] \in [Slot -> EntrySet]
      BY <1>1, <1>2 DEF IsTable
    <2>2. [pages[t] EXCEPT ![i] = e] \in [Slot -> EntrySet]
      BY <2>1
    <2>3. /\ pages' \in Seq([Slot -> EntrySet]) /\ Len(pages') = Len(pages)
          /\ pages'[t] = [pages[t] EXCEPT ![i] = e]
          /\ \A u \in 1 .. Len(pages) : u # t => pages'[u] = pages[u]
      BY <1>1, <1>2, <2>1, <2>2
    <2>4. /\ pages'[t][i] = e
          /\ \A u \in 1 .. Len(pages), j \in Slot : u # t \/ j # i => pages'[u][j] = pages[u][j]
      BY <2>1, <2>3
    <2>5. \A u \in 1 .. Len(pages), j \in Slot : AsLaid(u, j, pages'[u][j])
      <3> SUFFICES ASSUME NEW u \in 1 .. Len(pages), NEW j \in Slot
                   PROVE  AsLaid(u, j, pages'[u][j])
        OBVIOUS
      <3>1. CASE u = t /\ j = i
        BY <2>4, <3>1 DEF AsLaid
      <3>2. CASE u # t \/ j # i
        BY <2>4, <3>2 DEF SpacesSound
      <3> QED
        BY <3>1, <3>2
    <2>6. SpacesSound'
      BY <1>2, <2>3, <2>5 DEF SpacesSound, AsLaid, IntoBoot
    <2>7. \A u \in 1 .. Boot : u \in 1 .. Len(pages)
      BY <1>1
    <2> QED
      BY <2>3, <2>4, <2>6, <2>7
  <1>3. CASE t = 0 /\ null' = [null EXCEPT ![i] = e] /\ UNCHANGED pages
    <2>1. /\ null' \in [Slot -> EntrySet]
          /\ \A j \in Slot : null'[j] = e \/ null'[j] = null[j]
      BY <1>3 DEF SpacesSound
    <2>2. \A j \in Slot : ~IntoBoot(null'[j].to)
      BY <2>1 DEF SpacesSound
    <2>3. SpacesSound'
      BY <1>3, <2>1, <2>2 DEF SpacesSound, AsLaid, IntoBoot
    <2> QED
      BY <1>1, <1>3, <2>3
  <1>4. CASE UNCHANGED <<pages, null>> /\ (t = NewPage \/ ~IsTable(t))
    <2>1. SpacesSound'
      BY <1>4 DEF SpacesSound, AsLaid, IntoBoot
    <2>2. t \notin 1 .. Boot
      BY <1>1, <1>4, Entries DEF IsTable
    <2> QED
      BY <1>4, <2>1, <2>2
  <1> QED
    BY <1>2, <1>3, <1>4 DEF Store, Misled

(* So it changes one address of the space of boot at most, the one it is    *)
(* meant for.                                                              *)
OnlyThere(root, a, e) ==
  \A b \in Slot \X Slot \X Slot : LaidByBoot(b) =>
    \/ Translation(1, b)' = Translation(1, b)
    \/ root = 1 /\ b = a /\ (~e.size => Translation(1, b)' = {})

LEMMA OneStored ==
  ASSUME SpacesSound, NEW root \in roots, NEW a \in Slot \X Slot \X Slot,
         NEW e \in EntrySet, ~IntoBoot(e.to),
         Store(Destination(root, a), a[3], e), UNCHANGED roots
  PROVE  SpacesSound' /\ OnlyThere(root, a, e)
  <1> DEFINE t == Destination(root, a)
  <1>1. t \in 1 .. Boot => root = 1 /\ LaidByBoot(a) /\ t = Lower(a)
    BY Destined
  <1>2. t \in 1 .. Boot => Level[t] = 2
    BY <1>1, LaidPath
  <1>3. a[3] \in Slot
    OBVIOUS
  <1> HIDE DEF t
  <1>4. /\ SpacesSound' /\ Len(pages') = Len(pages)
        /\ \A u \in 1 .. Boot, j \in Slot : u # t \/ j # a[3] => pages'[u][j] = pages[u][j]
        /\ t \in 1 .. Boot => pages'[t][a[3]] = e
    BY <1>2, <1>3, StoreSound DEF t
  <1>5. ASSUME NEW b \in Slot \X Slot \X Slot, LaidByBoot(b)
        PROVE  \/ Translation(1, b)' = Translation(1, b)
               \/ root = 1 /\ b = a /\ (~e.size => Translation(1, b)' = {})
    <2> DEFINE p == Upper(b)
               g == Lower(b)
    <2>1. p \in 1 .. Boot /\ g \in 1 .. Boot /\ Level[p] = 1 /\ Level[g] = 2
      BY <1>5, LaidPath
    <2>2. b[1] \in Slot /\ b[2] \in Slot /\ b[3] \in Slot
      OBVIOUS
    <2>3. Len(pages') \in Nat /\ Boot < Len(pages') /\ 1 \in 1 .. Boot /\ Level[1] = 0
      BY <1>4, BootIsTree DEF SpacesSound
    <2> HIDE DEF p, g
    <2>4. pages'[1][b[1]] = pages[1][b[1]] /\ pages'[p][b[2]] = pages[p][b[2]]
      BY <1>2, <1>4, <2>1, <2>2, <2>3
    <2>5. /\ Translation(1, b) = Seen(pages[1][b[1]], pages[p][b[2]], pages[g][b[3]])
          /\ Translation(1, b)' = Seen(pages[1][b[1]], pages[p][b[2]], pages'[g][b[3]])
      BY <1>5, <2>3, <2>4, FoundLaid, Zenon DEF p, g
    <2>6. CASE g # t \/ b[3] # a[3]
      <3>1. pages'[g][b[3]] = pages[g][b[3]]
        BY <1>4, <2>1, <2>2, <2>6
      <3> QED
        BY <2>5, <3>1
    <2>7. CASE g = t /\ b[3] = a[3]
      <3>1. root = 1 /\ b = a
        BY <1>1, <1>5, <2>1, <2>7, LaidApart DEF g
      <3>2. ~e.size => Translation(1, b)' = {}
        BY <1>4, <2>1, <2>5, <2>7 DEF Seen
      <3> QED
        BY <3>1, <3>2
    <2> QED
      BY <2>6, <2>7
  <1> QED
    BY <1>4, <1>5 DEF OnlyThere

(* A step that stores into no table of boot changes nothing there.         *)
LEMMA NoneStored ==
  ASSUME SpacesSound, Len(pages') \in Nat, Boot < Len(pages'),
         \A t \in 1 .. Boot, i \in Slot : pages'[t][i] = pages[t][i]
  PROVE  OwnEntryOnly
  <1> SUFFICES ASSUME NEW b \in Slot \X Slot \X Slot, LaidByBoot(b)
               PROVE  Translation(1, b)' = Translation(1, b)
    BY Zenon DEF OwnEntryOnly
  <1> DEFINE p == Upper(b)
             g == Lower(b)
  <1>1. p \in 1 .. Boot /\ g \in 1 .. Boot /\ 1 \in 1 .. Boot
    BY LaidPath, BootIsTree
  <1>2. b[1] \in Slot /\ b[2] \in Slot /\ b[3] \in Slot
    OBVIOUS
  <1> HIDE DEF p, g
  <1>3. /\ pages'[1][b[1]] = pages[1][b[1]] /\ pages'[p][b[2]] = pages[p][b[2]]
        /\ pages'[g][b[3]] = pages[g][b[3]]
    BY <1>1, <1>2
  <1>4. /\ Translation(1, b) = Seen(pages[1][b[1]], pages[p][b[2]], pages[g][b[3]])
        /\ Translation(1, b)' = Seen(pages[1][b[1]], pages[p][b[2]], pages'[g][b[3]])
    BY <1>3, FoundLaid, Zenon DEF p, g
  <1> QED
    BY <1>3, <1>4, Zenon

LEMMA Unchanged ==
  ASSUME SpacesSound, UNCHANGED <<pages, null, roots>>
  PROVE  SpacesSound' /\ OwnEntryOnly
  <1>1. SpacesSound'
    BY DEF SpacesSound, AsLaid, IntoBoot
  <1>2. Len(pages') \in Nat /\ Boot < Len(pages')
    BY DEF SpacesSound
  <1> QED
    BY <1>1, <1>2, NoneStored

(* A page with an empty table at the end.                                  *)
LEMMA PageAdded ==
  ASSUME SpacesSound, NEW ts, ts \in Seq([Slot -> EntrySet]), Len(ts) = Len(pages),
         \A t \in 1 .. Len(pages), i \in Slot : AsLaid(t, i, ts[t][i]),
         pages' = Append(ts, EmptyTable),
         null' \in [Slot -> EntrySet], \A i \in Slot : ~IntoBoot(null'[i].to),
         UNCHANGED roots
  PROVE  SpacesSound' /\ \A t \in 1 .. Boot : pages'[t] = ts[t]
  <1>1. Len(pages) \in Nat /\ Boot \in Nat /\ Boot < Len(pages)
    BY BootIsTree DEF SpacesSound
  <1>2. /\ EmptyTable \in [Slot -> EntrySet] /\ Empty.to = 0
        /\ \A i \in Slot : EmptyTable[i] = Empty
    BY Entries
  <1>3. /\ pages' \in Seq([Slot -> EntrySet]) /\ Len(pages') = Len(pages) + 1
        /\ \A t \in 1 .. Len(pages) : pages'[t] = ts[t]
        /\ pages'[Len(pages) + 1] = EmptyTable
    BY <1>2
  <1>4. ASSUME NEW t \in 1 .. Len(pages'), NEW i \in Slot PROVE AsLaid(t, i, pages'[t][i])
    <2>1. CASE t \in 1 .. Len(pages)
      BY <1>3, <2>1
    <2>2. CASE t = Len(pages) + 1
      <3>1. pages'[t][i].to = 0
        BY <1>2, <1>3, <2>2
      <3> QED
        BY <1>1, <3>1 DEF AsLaid, IntoBoot
    <2> QED
      BY <1>1, <1>3, <2>1, <2>2
  <1>5. roots' \subseteq {1} \cup Boot + 1 .. Len(pages') - 1
    BY <1>1, <1>3 DEF SpacesSound
  <1>6. SpacesSound'
    BY <1>1, <1>3, <1>4, <1>5 DEF SpacesSound, AsLaid, IntoBoot
  <1> QED
    BY <1>1, <1>3, <1>6

LEMMA PageTableCreateSound ==
  ASSUME SpacesSound, PageTableCreate
  PROVE  SpacesSound' /\ OwnEntryOnly
  <1>1. pages' = Append(pages, EmptyTable) /\ UNCHANGED <<null, roots>>
    BY DEF PageTableCreate
  <1>2. SpacesSound' /\ \A t \in 1 .. Boot : pages'[t] = pages[t]
    BY <1>1, PageAdded DEF SpacesSound
  <1> QED
    BY <1>2, NoneStored DEF SpacesSound

(* page_fault at an address without a translation.                         *)
LEMMA PageFaultSound ==
  ASSUME SpacesSound, NEW root \in roots, NEW a \in Address, PageFault(root, a)
  PROVE  SpacesSound' /\ OwnEntryOnly
  <1> DEFINE e == Points(NewPage)
             w == Word(root, a[1])
             p == Place(root, a[1])
  <1>1. a \in Slot \X Slot \X Slot /\ a[1] \in Slot /\ a[2] \in Slot /\ a[3] \in Slot
    BY SpacesAssumption
  <1>2. /\ Len(pages) \in Nat /\ Boot \in Nat /\ Boot < Len(pages) /\ 1 \in 1 .. Boot
        /\ pages \in Seq([Slot -> EntrySet])
    BY BootIsTree DEF SpacesSound
  <1>3. e \in EntrySet /\ ~IntoBoot(e.to) /\ ~e.size
    <2> NewPage \in Target
      BY DEF Target
    <2> QED
      BY <1>2, Entries DEF IntoBoot
  <1>4. Translation(root, a) = {} /\ UNCHANGED roots
    BY DEF PageFault
  <1> HIDE DEF e
  <1>5. CASE w.to # 0
    <2>1. Store(Destination(root, a), a[3], e)
      BY <1>5, Zenon DEF PageFault, MapAddress, Destination, e
    <2>2. SpacesSound' /\ OnlyThere(root, a, e)
      BY <1>1, <1>3, <1>4, <2>1, OneStored
    <2> QED
      BY <1>3, <1>4, <2>2 DEF OnlyThere, OwnEntryOnly
  <1>6. CASE w.to = 0
    <2> DEFINE f == Points(Len(pages))
               ts == [pages EXCEPT ![p[1]][p[2]] = f]
    <2>1. pages' = Append(ts, EmptyTable) /\ null' = [null EXCEPT ![a[3]] = e]
      BY <1>6, Zenon DEF PageFault, MapAddress, e
    <2>2. /\ p[1] \in 1 .. Len(pages) /\ p[2] \in Slot
          /\ w = pages[p[1]][p[2]]
          /\ (p[1] = 1 /\ p[2] = a[1]) \/ p[1] > Boot
      BY <1>1, WordRead
    <2>3. f \in EntrySet /\ ~IntoBoot(f.to)
      <3>1. Len(pages) \in Target
        BY <1>2 DEF Target
      <3>2. f \in EntrySet /\ f.to = Len(pages)
        BY <3>1, Entries
      <3> HIDE DEF f
      <3> QED
        BY <1>2, <3>2 DEF IntoBoot
    <2> HIDE DEF f, w, p
    <2>4. pages[p[1]] \in [Slot -> EntrySet]
      BY <1>2, <2>2
    <2>5. [pages[p[1]] EXCEPT ![p[2]] = f] \in [Slot -> EntrySet]
      BY <2>3, <2>4
    <2>6. /\ ts \in Seq([Slot -> EntrySet]) /\ Len(ts) = Len(pages)
          /\ ts[p[1]] = [pages[p[1]] EXCEPT ![p[2]] = f]
          /\ \A u \in 1 .. Len(pages) : u # p[1] => ts[u] = pages[u]
      BY <1>2, <2>2, <2>5
    <2> HIDE DEF ts
    <2>7. /\ ts[p[1]][p[2]] = f
          /\ \A u \in 1 .. Len(pages), j \in Slot : u # p[1] \/ j # p[2] => ts[u][j] = pages[u][j]
      BY <2>2, <2>4, <2>6
    <2>8. ASSUME NEW u \in 1 .. Len(pages), NEW j \in Slot PROVE AsLaid(u, j, ts[u][j])
      <3>1. CASE u = p[1] /\ j = p[2]
        BY <2>3, <2>7, <3>1 DEF AsLaid
      <3>2. CASE u # p[1] \/ j # p[2]
        BY <2>7, <3>2 DEF SpacesSound
      <3> QED
        BY <3>1, <3>2
    <2>9. null' \in [Slot -> EntrySet] /\ \A j \in Slot : ~IntoBoot(null'[j].to)
      <3>1. null \in [Slot -> EntrySet] /\ \A j \in Slot : ~IntoBoot(null[j].to)
        BY DEF SpacesSound
      <3>2. null' \in [Slot -> EntrySet] /\ \A j \in Slot : null'[j] = e \/ null'[j] = null[j]
        BY <1>1, <1>3, <2>1, <3>1
      <3> QED
        BY <1>3, <3>1, <3>2
    <2>10. SpacesSound' /\ \A u \in 1 .. Boot : pages'[u] = ts[u]
      BY <1>4, <2>1, <2>6, <2>8, <2>9, PageAdded
    <2>11. ASSUME NEW b \in Slot \X Slot \X Slot, LaidByBoot(b)
           PROVE  Translation(1, b)' = Translation(1, b)
      <3> DEFINE q == Upper(b)
                 g == Lower(b)
      <3>1. q \in 1 .. Boot /\ g \in 1 .. Boot /\ Level[q] = 1 /\ Level[g] = 2 /\ Level[1] = 0
        BY <2>11, LaidPath, BootIsTree
      <3>2. b[1] \in Slot /\ b[2] \in Slot /\ b[3] \in Slot
        OBVIOUS
      <3>3. pages[1][b[1]].to # 0
        BY <1>2, <2>11 DEF LaidByBoot
      <3> HIDE DEF q, g
      <3>4. /\ ts[1][b[1]] = pages[1][b[1]] /\ ts[q][b[2]] = pages[q][b[2]]
            /\ ts[g][b[3]] = pages[g][b[3]]
        <4>1. 1 # p[1] \/ b[1] # p[2]
          BY <1>2, <1>6, <2>2, <3>3
        <4>2. q # p[1] /\ g # p[1]
          BY <1>2, <2>2, <3>1
        <4>3. 1 \in 1 .. Len(pages) /\ q \in 1 .. Len(pages) /\ g \in 1 .. Len(pages)
          BY <1>2, <3>1
        <4> QED
          BY <2>7, <3>2, <4>1, <4>2, <4>3
      <3>5. pages'[1] = ts[1] /\ pages'[q] = ts[q] /\ pages'[g] = ts[g]
        BY <1>2, <2>10, <3>1
      <3>6. Len(pages') \in Nat /\ Boot < Len(pages')
        BY <2>10 DEF SpacesSound
      <3>7. /\ Translation(1, b) = Seen(pages[1][b[1]], pages[q][b[2]], pages[g][b[3]])
            /\ Translation(1, b)' = Seen(pages[1][b[1]], pages[q][b[2]], pages'[g][b[3]])
        BY <2>11, <3>4, <3>5, <3>6, FoundLaid, Zenon DEF q, g
      <3> QED
        BY <3>4, <3>5, <3>7, Zenon
    <2> QED
      BY <2>10, <2>11 DEF OwnEntryOnly
  <1> QED
    BY <1>5, <1>6

(* pml4_clear_mapping and pml4_set_writable store at the place that         *)
(* pml4_compute_ptloc returns.                                             *)
LEMMA ClearMappingSound ==
  ASSUME SpacesSound, NEW root \in roots, NEW a \in Address, ClearMapping(root, a)
  PROVE  SpacesSound' /\ OwnEntryOnly
  <1>1. a \in Slot \X Slot \X Slot
    BY SpacesAssumption
  <1>2. Empty \in EntrySet /\ ~IntoBoot(Empty.to)
    BY Entries, BootIsTree DEF IntoBoot
  <1>3. Store(Destination(root, a), a[3], Empty) /\ UNCHANGED roots
    BY DEF ClearMapping, PtLoc, Destination
  <1>4. SpacesSound' /\ OnlyThere(root, a, Empty)
    BY <1>1, <1>2, <1>3, OneStored
  <1> QED
    BY <1>4 DEF OnlyThere, OwnEntryOnly

(* What the entries of the last level hold.                                *)
LEMMA BottomRead ==
  ASSUME SpacesSound, NEW root \in roots, NEW a \in Slot \X Slot \X Slot
  PROVE  LET f == Entry(Destination(root, a), a[3]) IN f \in EntrySet /\ ~IntoBoot(f.to)
  <1> DEFINE t == Destination(root, a)
             f == Entry(t, a[3])
  <1>1. t \in Target /\ (t \in 1 .. Boot => LaidByBoot(a) /\ t = Lower(a))
    BY Destined
  <1>2. t \in 1 .. Boot => Level[t] = 2
    BY <1>1, LaidPath
  <1>3. a[3] \in Slot
    OBVIOUS
  <1> HIDE DEF t
  <1>4. f \in EntrySet /\ AsLaid(t, a[3], f)
    BY <1>1, <1>3, EntryRead
  <1> HIDE DEF f
  <1>5. f \in EntrySet /\ ~IntoBoot(f.to)
    BY <1>2, <1>4 DEF AsLaid
  <1> QED
    BY <1>5 DEF f, t

LEMMA SetWritableSound ==
  ASSUME SpacesSound, NEW root \in roots, NEW a \in Address, NEW c \in BOOLEAN,
         SetWritable(root, a, c)
  PROVE  SpacesSound' /\ OwnEntryOnly
  <1> DEFINE f == Entry(Destination(root, a), a[3])
             e == [f EXCEPT !.writable = c]
  <1>1. a \in Slot \X Slot \X Slot
    BY SpacesAssumption
  <1>2. Store(Destination(root, a), a[3], e) /\ UNCHANGED roots
    BY DEF SetWritable, PtLoc, PtEntry, Destination
  <1>3. f \in EntrySet /\ ~IntoBoot(f.to)
    BY <1>1, BottomRead
  <1> HIDE DEF f
  <1>4. e \in EntrySet /\ e.to = f.to
    BY <1>3 DEF EntrySet
  <1> HIDE DEF e
  <1>5. SpacesSound' /\ OnlyThere(root, a, e)
    BY <1>1, <1>2, <1>3, <1>4, OneStored
  <1> QED
    BY <1>5 DEF OnlyThere, OwnEntryOnly

(* The elements of a finite set that have a key each are numbered by how    *)
(* many keys are smaller.                                                  *)
Below(S, f, p) == {q \in S : f[q] < f[p]}

LEMMA Ranked ==
  ASSUME NEW S, IsFiniteSet(S), NEW f \in [S -> Int],
         \A p, q \in S : f[p] = f[q] => p = q
  PROVE  /\ Cardinality(S) \in Nat
         /\ \A p \in S : Cardinality(Below(S, f, p)) \in 0 .. Cardinality(S) - 1
         /\ \A n \in 0 .. Cardinality(S) - 1 :
              \E p \in S : Cardinality(Below(S, f, p)) = n
  <1> DEFINE below(p) == {q \in S : f[q] < f[p]}
             C == Cardinality(S)
             rank == [p \in S |-> Cardinality(below(p))]
  <1>1. C \in Nat
    BY FS_CardinalityType
  <1>2. \A p \in S : IsFiniteSet(below(p)) /\ Cardinality(below(p)) \in Nat
    <2> SUFFICES ASSUME NEW p \in S PROVE IsFiniteSet(below(p)) /\ Cardinality(below(p)) \in Nat
      OBVIOUS
    <2>1. below(p) \subseteq S
      OBVIOUS
    <2> HIDE DEF below
    <2> QED
      BY <2>1, FS_Subset, FS_CardinalityType
  <1>3. ASSUME NEW p \in S, NEW T, IsFiniteSet(T), below(p) \cup {p} \subseteq T
        PROVE  Cardinality(below(p)) < Cardinality(T)
    <2>1. p \notin below(p)
      OBVIOUS
    <2> HIDE DEF below
    <2>2. below(p) \subseteq T /\ below(p) # T
      BY <1>3, <2>1
    <2>3. Cardinality(below(p)) \in Nat /\ Cardinality(T) \in Nat
      BY <1>2, <1>3, FS_CardinalityType DEF below
    <2>4. Cardinality(below(p)) <= Cardinality(T) /\ Cardinality(T) # Cardinality(below(p))
      BY <1>3, <2>2, FS_Subset
    <2> QED
      BY <2>3, <2>4
  <1>4. \A p \in S : rank[p] \in 0 .. C - 1
    <2> SUFFICES ASSUME NEW p \in S PROVE Cardinality(below(p)) \in 0 .. C - 1
      OBVIOUS
    <2>1. below(p) \cup {p} \subseteq S
      OBVIOUS
    <2>2. Cardinality(below(p)) < C
      BY <1>3, <2>1
    <2> HIDE DEF below, C
    <2> QED
      BY <1>1, <1>2, <2>2
  <1>5. ASSUME NEW p \in S, NEW q \in S, f[p] < f[q]
        PROVE  rank[p] < rank[q]
    <2>1. below(p) \cup {p} \subseteq below(q)
      BY <1>5
    <2> QED
      BY <1>2, <1>3, <2>1
  <1>6. ASSUME NEW p \in S, NEW q \in S, rank[p] = rank[q]
        PROVE  p = q
    <2>1. rank[p] \in Int /\ f[p] \in Int /\ f[q] \in Int
      BY <1>4
    <2>2. ~(f[p] < f[q]) /\ ~(f[q] < f[p])
      <3> HIDE DEF rank
      <3> QED
        BY <1>5, <1>6, <2>1
    <2> HIDE DEF rank
    <2> QED
      BY <2>1, <2>2
  <1> DEFINE D == 0 .. C - 1
  <1>7. IsFiniteSet(D) /\ Cardinality(D) = C
    <2> HIDE DEF C
    <2> QED
      BY <1>1, FS_Interval
  <1>8. rank \in [S -> D]
    BY <1>4
  <1>9. rank \in Injection(S, D)
    <2> HIDE DEF rank, D
    <2> QED
      BY <1>6, <1>8 DEF Injection, IsInjective
  <1>10. rank \in Surjection(S, D)
    <2> HIDE DEF rank, D
    <2> QED
      BY <1>7, <1>9, FS_Injection
  <1>11. \A n \in D : \E p \in S : rank[p] = n
    <2> HIDE DEF rank, D
    <2> QED
      BY <1>10 DEF Surjection
  <1> QED
    BY <1>1, <1>4, <1>11 DEF Below

(* The paths that _pml_copy follows have at most two slots.                *)
LEMMA SecondAppended ==
  ASSUME NEW S, NEW i \in S, NEW j \in S
  PROVE  Append(<<i>>, j) = <<i, j>>
  <1>1. <<i>> \in Seq(S) /\ <<i, j>> \in Seq(S) /\ Len(<<i>>) = 1 /\ Len(<<i, j>>) = 2
    OBVIOUS
  <1>2. Append(<<i>>, j) \in Seq(S) /\ Len(Append(<<i>>, j)) = 2
    BY <1>1, AppendProperties
  <1>3. Append(<<i>>, j)[1] = i /\ Append(<<i>>, j)[2] = j
    BY <1>1
  <1>4. <<i, j>>[1] = i /\ <<i, j>>[2] = j
    OBVIOUS
  <1>5. \A k \in 1 .. 2 : Append(<<i>>, j)[k] = <<i, j>>[k]
    BY <1>3, <1>4
  <1> QED
    BY <1>1, <1>2, <1>5, SeqEqual

Short == ({<<>>} \cup {<<i>> : i \in Slot}) \cup {<<i, j>> : i \in Slot, j \in Slot}

LEMMA PathsShort ==
  ASSUME NEW root
  PROVE  <<>> \in Paths(root) /\ Paths(root) \subseteq Short
  <1> DEFINE upper == {<<i>> : i \in {j \in Slot : Word(root, j).to # 0}}
             lower(q) == {Append(q, i) : i \in {j \in Slot : SourceEntry(root, q, j).to # 0}}
  <1>1. Paths(root) = {<<>>} \cup upper \cup UNION {lower(q) : q \in upper}
    BY DEF Paths
  <1>2. upper \subseteq {<<i>> : i \in Slot}
    OBVIOUS
  <1>3. \A i \in Slot : lower(<<i>>) \subseteq {<<k, j>> : k \in Slot, j \in Slot}
    <2> SUFFICES ASSUME NEW i \in Slot, NEW x \in lower(<<i>>)
                 PROVE  \E k, j \in Slot : x = <<k, j>>
      OBVIOUS
    <2>1. PICK j \in Slot : x = Append(<<i>>, j)
      OBVIOUS
    <2> QED
      BY <2>1, SecondAppended
  <1> HIDE DEF lower
  <1>4. UNION {lower(q) : q \in upper} \subseteq {<<k, j>> : k \in Slot, j \in Slot}
    BY <1>3
  <1> HIDE DEF upper
  <1> QED
    BY <1>1, <1>2, <1>4 DEF Short

LEMMA ShortFinite == IsFiniteSet(Short)
  <1> DEFINE one == {<<i>> : i \in Slot}
             two == {<<i, j>> : i \in Slot, j \in Slot}
             f == [i \in Slot |-> <<i>>]
             g == [p \in Slot \X Slot |-> <<p[1], p[2]>>]
  <1>1. f \in Surjection(Slot, one) /\ IsFiniteSet(Slot)
    <2>1. IsFiniteSet(Slot)
      BY Entries, FS_Interval DEF Slot
    <2> QED
      BY <2>1 DEF Surjection
  <1>2. IsFiniteSet(Slot \X Slot)
    BY <1>1, FS_Product
  <1>3. two = Slot \X Slot
    OBVIOUS
  <1>4. IsFiniteSet({<<>>})
    BY FS_Singleton
  <1> HIDE DEF f, g, one, two
  <1>5. IsFiniteSet(one)
    BY <1>1, FS_Surjection
  <1>6. IsFiniteSet({<<>>} \cup one)
    BY <1>4, <1>5, FS_Union
  <1>7. IsFiniteSet(two)
    BY <1>2, <1>3
  <1>8. IsFiniteSet(({<<>>} \cup one) \cup two)
    BY <1>6, <1>7, FS_Union
  <1> QED
    BY <1>8 DEF Short, one, two

(* Different paths have different keys.                                    *)
LEMMA Digits ==
  ASSUME NEW B \in Nat, NEW i \in Nat, NEW k \in Nat, NEW x \in 0 .. B - 1, NEW y \in Int,
         0 <= y, i < k
  PROVE  (i + 1) * B + x < (k + 1) * B + y
  <1> DEFINE d == k - (i + 1)
             m == (i + 1) * B
  <1>1. d \in Nat /\ k + 1 = (i + 1) + (1 + d)
    OBVIOUS
  <1>2. d * B \in Nat /\ m \in Nat
    BY <1>1
  <1>3. (k + 1) * B = m + (B + d * B)
    <2> DEFINE n == i + 1
    <2>1. n \in Nat
      OBVIOUS
    <2>2. (n + (1 + d)) * B = n * B + (B + d * B)
      <3> HIDE DEF n, d
      <3> QED
        BY <1>1, <2>1
    <2> QED
      BY <1>1, <2>2
  <1> DEFINE z == d * B
  <1> HIDE DEF m, z, d
  <1>4. m + x < (m + (B + z)) + y
    BY <1>2 DEF z
  <1> QED
    BY <1>3, <1>4 DEF m, z

LEMMA KeysApart ==
  /\ \A p \in Short : Key(p) \in Int
  /\ \A p, q \in Short : Key(p) = Key(q) => p = q
  <1> DEFINE B == Slots + 1
             K(i, x) == (i + 1) * B + x
  <1>1. B \in Nat /\ Slots \in Nat
    BY Entries
  <1>2. Key(<<>>) = 0
    BY DEF Key
  <1>3. \A i \in Slot : Key(<<i>>) = K(i, 0)
    BY <1>1 DEF Key, Slot
  <1>4. \A i, j \in Slot : Key(<<i, j>>) = K(i, j + 1)
    BY <1>1 DEF Key, Slot
  <1>5. \A i \in Slot, x \in 0 .. B - 1 : K(i, x) \in Nat /\ K(i, x) > 0
    <2> SUFFICES ASSUME NEW i \in Slot, NEW x \in 0 .. B - 1
                 PROVE  K(i, x) \in Nat /\ K(i, x) > 0
      OBVIOUS
    <2>1. i \in Nat /\ B > 0 /\ i * B \in Nat /\ (i + 1) * B = i * B + B
      BY <1>1 DEF Slot
    <2> HIDE DEF B
    <2> QED
      BY <1>1, <2>1
  <1>6. \A i, k \in Slot, x, y \in 0 .. B - 1 : K(i, x) = K(k, y) => i = k /\ x = y
    <2> SUFFICES ASSUME NEW i \in Slot, NEW k \in Slot, NEW x \in 0 .. B - 1, NEW y \in 0 .. B - 1,
                        K(i, x) = K(k, y)
                 PROVE  i = k /\ x = y
      OBVIOUS
    <2>1. i \in Nat /\ k \in Nat /\ K(i, x) \in Nat
      BY <1>5 DEF Slot
    <2> HIDE DEF B
    <2>2. ~(i < k) /\ ~(k < i)
      BY <1>1, <2>1, Digits
    <2>3. i = k
      BY <2>1, <2>2
    <2>4. (i + 1) * B \in Nat
      BY <1>1, <2>1
    <2> QED
      BY <2>3, <2>4
  <1>7. /\ 0 \in 0 .. B - 1
        /\ \A j \in Slot : j + 1 \in 0 .. B - 1 /\ j + 1 # 0
        /\ \A i, j \in Slot : i + 1 = j + 1 => i = j
    BY <1>1 DEF Slot
  <1> HIDE DEF K, B
  <1>8. ASSUME NEW p \in Short
        PROVE  \/ p = <<>>
               \/ \E i \in Slot : p = <<i>>
               \/ \E i, j \in Slot : p = <<i, j>>
    BY DEF Short
  <1>9. \A p \in Short : Key(p) \in Int
    <2> SUFFICES ASSUME NEW p \in Short PROVE Key(p) \in Int
      OBVIOUS
    <2>1. CASE p = <<>>
      BY <1>2, <2>1
    <2>2. ASSUME NEW i \in Slot, p = <<i>> PROVE Key(p) \in Int
      BY <1>3, <1>5, <1>7, <2>2
    <2>3. ASSUME NEW i \in Slot, NEW j \in Slot, p = <<i, j>> PROVE Key(p) \in Int
      BY <1>4, <1>5, <1>7, <2>3
    <2> QED
      BY <1>8, <2>1, <2>2, <2>3
  <1> DEFINE Kind(p, i, x) == /\ i \in Slot /\ x \in 0 .. B - 1 /\ Key(p) = K(i, x)
                              /\ (x = 0 /\ p = <<i>>) \/ \E j \in Slot : x = j + 1 /\ p = <<i, j>>
  <1>10. \A p \in Short : p = <<>> \/ \E i, x : Kind(p, i, x)
    <2> SUFFICES ASSUME NEW p \in Short, p # <<>> PROVE \E i, x : Kind(p, i, x)
      OBVIOUS
    <2>1. ASSUME NEW i \in Slot, p = <<i>> PROVE Kind(p, i, 0)
      BY <1>3, <1>7, <2>1
    <2>2. ASSUME NEW i \in Slot, NEW j \in Slot, p = <<i, j>> PROVE Kind(p, i, j + 1)
      BY <1>4, <1>7, <2>2
    <2> HIDE DEF Kind
    <2> QED
      BY <1>8, <2>1, <2>2
  <1>11. \A p, i, x : Kind(p, i, x) => Key(p) # 0
    BY <1>5
  <1>12. ASSUME NEW p, NEW q, NEW i, NEW k, NEW x, NEW y,
                Kind(p, i, x), Kind(q, k, y), Key(p) = Key(q)
         PROVE  p = q
    <2>1. i = k /\ x = y
      <3>1. /\ i \in Slot /\ k \in Slot /\ x \in 0 .. B - 1 /\ y \in 0 .. B - 1
            /\ K(i, x) = K(k, y)
        BY <1>12
      <3> QED
        BY <1>6, <3>1
    <2>2. CASE x = 0
      <3>1. p = <<i>> /\ q = <<i>>
        BY <1>7, <1>12, <2>1, <2>2
      <3> QED
        BY <3>1
    <2>3. CASE x # 0
      <3>1. PICK j \in Slot : x = j + 1 /\ p = <<i, j>>
        BY <1>12, <2>3
      <3>2. PICK m \in Slot : x = m + 1 /\ q = <<i, m>>
        BY <1>12, <2>1, <2>3
      <3>3. j = m
        BY <1>7, <3>1, <3>2
      <3> QED
        BY <3>1, <3>2, <3>3
    <2> QED
      BY <2>2, <2>3
  <1> HIDE DEF Kind
  <1>13. \A p, q \in Short : Key(p) = Key(q) => p = q
    <2> SUFFICES ASSUME NEW p \in Short, NEW q \in Short, Key(p) = Key(q)
                 PROVE  p = q
      OBVIOUS
    <2>1. CASE p = <<>> \/ q = <<>>
      BY <1>2, <1>10, <1>11, <2>1
    <2>2. CASE p # <<>> /\ q # <<>>
      BY <1>10, <1>12, <2>2
    <2> QED
      BY <2>1, <2>2
  <1> QED
    BY <1>9, <1>13

(* The new tables are numbered one by one behind those there are.          *)
LEMMA Numbered ==
  ASSUME SpacesSound, NEW S, S \subseteq Short
  PROVE  LET N == Len(pages)
             C == Cardinality(S)
         IN  /\ C \in Nat
             /\ \A x : Number(S, x) \in Nat /\ N <= Number(S, x)
             /\ \A n \in N .. N + C - 1 : \E p \in S : Number(S, p) = n
  <1> DEFINE N == Len(pages)
             C == Cardinality(S)
             f == [p \in S |-> Key(p)]
             below(x) == {p \in S : Key(p) < Key(x)}
  <1>1. IsFiniteSet(S)
    BY ShortFinite, FS_Subset
  <1>2. N \in Nat
    BY DEF SpacesSound
  <1>3. \A x : Number(S, x) = N + Cardinality(below(x))
    BY DEF Number
  <1>4. \A x : Cardinality(below(x)) \in Nat
    <2> SUFFICES ASSUME NEW x PROVE Cardinality(below(x)) \in Nat
      OBVIOUS
    <2>1. below(x) \subseteq S
      OBVIOUS
    <2> HIDE DEF below
    <2> QED
      BY <1>1, <2>1, FS_Subset, FS_CardinalityType
  <1>5. f \in [S -> Int] /\ \A p, q \in S : f[p] = f[q] => p = q
    <2>1. \A p \in S : p \in Short
      OBVIOUS
    <2> QED
      BY <2>1, KeysApart
  <1>6. \A p \in S : Below(S, f, p) = below(p)
    BY DEF Below
  <1> HIDE DEF f, below, C, N
  <1>7. C \in Nat /\ \A n \in 0 .. C - 1 : \E p \in S : Cardinality(Below(S, f, p)) = n
    BY <1>1, <1>5, Ranked DEF C
  <1>8. \A n \in N .. N + C - 1 : \E p \in S : Number(S, p) = n
    <2> SUFFICES ASSUME NEW n \in N .. N + C - 1 PROVE \E p \in S : Number(S, p) = n
      OBVIOUS
    <2>1. n - N \in 0 .. C - 1 /\ N + (n - N) = n
      BY <1>2, <1>7
    <2>2. PICK p \in S : Cardinality(Below(S, f, p)) = n - N
      BY <1>7, <2>1
    <2>3. Number(S, p) = N + (n - N)
      BY <1>3, <1>6, <2>2
    <2> QED
      BY <2>1, <2>3
  <1>9. \A x : Number(S, x) \in Nat /\ N <= Number(S, x)
    BY <1>2, <1>3, <1>4
  <1> QED
    BY <1>7, <1>8, <1>9 DEF C, N

(* None of their entries leads into the tables of boot.                    *)
LEMMA CopiedEntries ==
  ASSUME SpacesSound, NEW root \in roots, NEW isCow \in BOOLEAN,
         NEW path \in Paths(root), NEW i \in Slot
  PROVE  LET e == PmlCopy(root, isCow)[path][i] IN e \in EntrySet /\ ~IntoBoot(e.to)
  <1> DEFINE s == SourceEntry(root, path, i)
             n == Number(Paths(root), Append(path, i))
             c == CopyOf(s, isCow)
             e == PmlCopy(root, isCow)[path][i]
  <1>1. path \in Short /\ Paths(root) \subseteq Short
    BY PathsShort
  <1>2. s \in EntrySet /\ (Len(path) = 2 => ~IntoBoot(s.to))
    <2>1. CASE path = <<>>
      <3>1. s = Word(root, i) /\ Len(path) = 0
        BY <2>1 DEF SourceEntry
      <3> QED
        BY <3>1, WordRead
    <2>2. ASSUME NEW k \in Slot, path = <<k>>
          PROVE  s \in EntrySet /\ (Len(path) = 2 => ~IntoBoot(s.to))
      <3>1. s = Entry(Word(root, k).to, i) /\ Len(path) = 1
        BY <2>2 DEF SourceEntry
      <3>2. Word(root, k) \in EntrySet
        BY WordRead
      <3>3. Word(root, k).to \in Target
        BY <3>2 DEF EntrySet
      <3>4. Entry(Word(root, k).to, i) \in EntrySet
        BY <3>3, EntryRead
      <3> QED
        BY <3>1, <3>4
    <2>3. ASSUME NEW k \in Slot, NEW m \in Slot, path = <<k, m>>
          PROVE  s \in EntrySet /\ (Len(path) = 2 => ~IntoBoot(s.to))
      <3> DEFINE a == <<k, m, i>>
      <3>1. a \in Slot \X Slot \X Slot /\ a[1] = k /\ a[2] = m /\ a[3] = i
        OBVIOUS
      <3>2. Len(path) = 2 /\ path[1] = k /\ path[2] = m
        BY <2>3
      <3>3. s = Entry(Entry(Word(root, k).to, m).to, i)
        BY <3>2 DEF SourceEntry
      <3> HIDE DEF a
      <3>4. s = Entry(Destination(root, a), a[3])
        BY <3>1, <3>3 DEF Destination
      <3> HIDE DEF s
      <3> QED
        BY <3>1, <3>4, BottomRead
    <2> HIDE DEF s
    <2> QED
      BY <1>1, <2>1, <2>2, <2>3 DEF Short
  <1>3. n \in Nat /\ ~IntoBoot(n) /\ n \in Target
    <2>1. n \in Nat /\ Len(pages) <= n
      BY <1>1, Numbered
    <2>2. Len(pages) \in Nat /\ Boot \in Nat /\ Boot < Len(pages)
      BY BootIsTree DEF SpacesSound
    <2> HIDE DEF n
    <2> QED
      BY <2>1, <2>2 DEF IntoBoot, Target
  <1>4. e = IF Len(path) = 2 THEN c ELSE IF s.to = 0 THEN Empty ELSE [c EXCEPT !.to = n]
    BY DEF PmlCopy
  <1>5. c = [s EXCEPT !.writable = ~isCow]
    BY DEF CopyOf
  <1> HIDE DEF s, n, c, e
  <1>6. c \in EntrySet /\ c.to = s.to
    BY <1>2, <1>5 DEF EntrySet
  <1>7. [c EXCEPT !.to = n] \in EntrySet /\ [c EXCEPT !.to = n].to = n
    BY <1>3, <1>6 DEF EntrySet
  <1>8. Empty \in EntrySet /\ ~IntoBoot(Empty.to)
    BY Entries, BootIsTree DEF IntoBoot
  <1>9. e \in EntrySet /\ ~IntoBoot(e.to)
    BY <1>2, <1>3, <1>4, <1>6, <1>7, <1>8
  <1> QED
    BY <1>9 DEF e

(* The pages when they lie behind those there are.                         *)
LEMMA LaidSound ==
  ASSUME SpacesSound, NEW new, DOMAIN new \subseteq Short,
         \A p \in DOMAIN new, i \in Slot : new[p][i] \in EntrySet /\ ~IntoBoot(new[p][i].to),
         NEW us, us = Laid(new)
  PROVE  /\ us \in Seq([Slot -> EntrySet])
         /\ Len(us) = Len(pages) + Cardinality(DOMAIN new) /\ Len(us) \in Nat
         /\ \A t \in 1 .. Len(us), i \in Slot : AsLaid(t, i, us[t][i])
         /\ \A t \in 1 .. Boot : us[t] = pages[t]
  <1> DEFINE S == DOMAIN new
             N == Len(pages)
             M == N + Cardinality(S)
             at(t) == CHOOSE p \in S : Number(S, p) = t
             entry(t, i) == CASE i >= Skew -> IF t = M THEN Empty ELSE new[at(t)][i - Skew]
                              [] i < Skew /\ t = N -> pages[t][i]
                              [] OTHER -> new[at(t - 1)][Slots + i - Skew]
             table(t) == IF t < N THEN pages[t] ELSE [i \in Slot |-> entry(t, i)]
  <1>1. us = [t \in 1 .. M |-> table(t)]
    BY DEF Laid
  <1>2. M \in Nat /\ N <= M /\ \A n \in N .. M - 1 : \E p \in S : Number(S, p) = n
    <2>1. /\ Cardinality(S) \in Nat
          /\ \A n \in N .. N + Cardinality(S) - 1 : \E p \in S : Number(S, p) = n
      BY Numbered
    <2>2. N \in Nat
      BY DEF SpacesSound
    <2> QED
      BY <2>1, <2>2
  <1>3. /\ N \in Nat /\ Boot \in Nat /\ Boot < N /\ pages \in Seq([Slot -> EntrySet])
        /\ Slots \in Nat /\ Skew \in 1 .. Slots - 1
    BY BootIsTree, Entries DEF SpacesSound
  <1> HIDE DEF N, M, S
  <1>4. \A t \in N .. M - 1 : at(t) \in S
    BY <1>2
  <1>5. ASSUME NEW t \in N .. M, NEW i \in Slot
        PROVE  entry(t, i) \in EntrySet /\ AsLaid(t, i, entry(t, i))
    <2> HIDE DEF at
    <2>1. CASE i >= Skew /\ t = M
      <3>1. entry(t, i) = Empty
        BY <1>3, <2>1 DEF Slot
      <3>2. Empty \in EntrySet /\ ~IntoBoot(Empty.to)
        BY Entries, BootIsTree DEF IntoBoot
      <3> HIDE DEF entry
      <3> QED
        BY <3>1, <3>2 DEF AsLaid
    <2>2. CASE i >= Skew /\ t # M
      <3>1. entry(t, i) = new[at(t)][i - Skew]
        BY <1>3, <2>2 DEF Slot
      <3>2. at(t) \in S /\ i - Skew \in Slot
        BY <1>2, <1>3, <1>4, <2>2 DEF Slot
      <3>3. new[at(t)][i - Skew] \in EntrySet /\ ~IntoBoot(new[at(t)][i - Skew].to)
        BY <3>2 DEF S
      <3> HIDE DEF entry
      <3> QED
        BY <3>1, <3>3 DEF AsLaid
    <2>3. CASE i < Skew /\ t = N
      <3>1. entry(t, i) = pages[t][i]
        BY <1>3, <2>3 DEF Slot
      <3>2. t \in 1 .. N
        BY <1>3, <2>3
      <3>3. pages[t][i] \in EntrySet /\ AsLaid(t, i, pages[t][i])
        BY <1>3, <3>2 DEF SpacesSound, N
      <3> HIDE DEF entry
      <3> QED
        BY <3>1, <3>3
    <2>4. CASE i < Skew /\ t # N
      <3>1. entry(t, i) = new[at(t - 1)][Slots + i - Skew]
        BY <1>3, <2>4 DEF Slot
      <3>2. t - 1 \in N .. M - 1 /\ Slots + i - Skew \in Slot
        BY <1>2, <1>3, <2>4 DEF Slot
      <3>3. at(t - 1) \in S
        BY <1>4, <3>2
      <3>4. /\ new[at(t - 1)][Slots + i - Skew] \in EntrySet
            /\ ~IntoBoot(new[at(t - 1)][Slots + i - Skew].to)
        BY <3>2, <3>3 DEF S
      <3> HIDE DEF entry
      <3> QED
        BY <3>1, <3>4 DEF AsLaid
    <2> QED
      BY <1>3, <2>1, <2>2, <2>3, <2>4 DEF Slot
  <1> HIDE DEF entry
  <1>6. ASSUME NEW t \in 1 .. M
        PROVE  table(t) \in [Slot -> EntrySet] /\ \A i \in Slot : AsLaid(t, i, table(t)[i])
    <2>1. CASE t < N
      <3>1. table(t) = pages[t] /\ t \in 1 .. N
        BY <1>2, <1>3, <2>1
      <3> HIDE DEF table
      <3>2. pages[t] \in [Slot -> EntrySet] /\ \A i \in Slot : AsLaid(t, i, pages[t][i])
        BY <1>3, <3>1 DEF SpacesSound, N
      <3> QED
        BY <3>1, <3>2
    <2>2. CASE ~(t < N)
      <3>1. t \in N .. M
        BY <1>2, <1>3, <2>2
      <3> QED
        BY <1>5, <2>2, <3>1
    <2> QED
      BY <2>1, <2>2
  <1>7. \A t \in 1 .. Boot : t \in 1 .. M /\ table(t) = pages[t]
    BY <1>2, <1>3
  <1> HIDE DEF table
  <1>8. us \in [1 .. M -> [Slot -> EntrySet]]
    BY <1>1, <1>6
  <1>9. us \in Seq([Slot -> EntrySet]) /\ Len(us) = M
    BY <1>2, <1>8
  <1> QED
    BY <1>1, <1>2, <1>6, <1>7, <1>9 DEF M, N, S

LEMMA Pml4CopySound ==
  ASSUME SpacesSound, NEW root \in roots, NEW isCow \in BOOLEAN, Pml4Copy(root, isCow)
  PROVE  SpacesSound' /\ OwnEntryOnly
  <1>1. CASE Misled /\ UNCHANGED <<roots, memory, seen>>
    BY <1>1, Unchanged DEF Misled
  <1>2. CASE ~(Misled /\ UNCHANGED <<roots, memory, seen>>)
    <2> DEFINE new == PmlCopy(root, isCow)
    <2>1. pages' = Laid(new) /\ roots' = roots \cup {Len(pages)} /\ UNCHANGED null
      BY <1>2 DEF Pml4Copy
    <2>2. DOMAIN new = Paths(root)
      BY DEF PmlCopy
    <2>3. DOMAIN new \subseteq Short /\ <<>> \in DOMAIN new
      BY <2>2, PathsShort
    <2>4. \A p \in DOMAIN new, i \in Slot : new[p][i] \in EntrySet /\ ~IntoBoot(new[p][i].to)
      BY <2>2, CopiedEntries
    <2> HIDE DEF new
    <2>5. /\ pages' \in Seq([Slot -> EntrySet])
          /\ Len(pages') = Len(pages) + Cardinality(DOMAIN new) /\ Len(pages') \in Nat
          /\ \A t \in 1 .. Len(pages'), i \in Slot : AsLaid(t, i, pages'[t][i])
          /\ \A t \in 1 .. Boot : pages'[t] = pages[t]
      BY <2>1, <2>3, <2>4, LaidSound
    <2>6. Cardinality(DOMAIN new) \in Nat \ {0}
      <3>1. IsFiniteSet(DOMAIN new)
        BY <2>3, ShortFinite, FS_Subset
      <3> QED
        BY <2>3, <3>1, FS_CardinalityType, FS_EmptySet
    <2>7. Len(pages) \in Nat /\ Boot \in Nat /\ Boot < Len(pages) /\ Len(pages) < Len(pages')
      BY <2>5, <2>6, BootIsTree DEF SpacesSound
    <2>8. roots' \subseteq {1} \cup Boot + 1 .. Len(pages') - 1
      <3>1. Len(pages) \in Boot + 1 .. Len(pages') - 1
        BY <2>5, <2>7
      <3>2. Boot + 1 .. Len(pages) - 1 \subseteq Boot + 1 .. Len(pages') - 1
        BY <2>5, <2>7
      <3>3. roots \subseteq {1} \cup Boot + 1 .. Len(pages) - 1
        BY DEF SpacesSound
      <3> QED
        BY <2>1, <3>1, <3>2, <3>3
    <2>9. SpacesSound'
      BY <2>1, <2>5, <2>7, <2>8 DEF SpacesSound, AsLaid, IntoBoot
    <2> QED
      BY <2>5, <2>7, <2>9, NoneStored
  <1> QED
    BY <1>1, <1>2

(* Boot leaves a tree, and behind it the header of an arena.               *)
LEMMA SpacesInitSound == SpacesInit => SpacesSound
  <1> SUFFICES ASSUME SpacesInit PROVE SpacesSound
    OBVIOUS
  <1> DEFINE header == [i \in Slot |-> IF i < Skew THEN Stray ELSE Empty]
  <1>1. /\ BootTables \in Seq([Slot -> EntrySet]) /\ Len(BootTables) = Boot /\ Boot \in Nat
        /\ \A t \in 1 .. Boot, i \in Slot : Level[t] < 2 => LeadsDown(BootTables, Level, t, i)
        /\ \A t \in 1 .. Boot, i \in Slot : Level[t] = 2 => BootTables[t][i].to \in Frame \cup {0}
        /\ Level \in [1 .. Boot -> 0 .. 2]
    BY BootIsTree DEF Tree, Boot
  <1>2. /\ Stray \in EntrySet /\ ~IntoBoot(Stray.to)
        /\ Empty \in EntrySet /\ ~IntoBoot(Empty.to)
        /\ \A to \in Frame \cup {0} : ~IntoBoot(to)
    BY <1>1, Entries DEF IntoBoot
  <1>3. header \in [Slot -> EntrySet] /\ \A i \in Slot : ~IntoBoot(header[i].to)
    BY <1>2
  <1>4. pages = Append(BootTables, header) /\ roots = {1} /\ null = [i \in Slot |-> Stray]
    BY DEF SpacesInit
  <1> HIDE DEF header
  <1>5. /\ pages \in Seq([Slot -> EntrySet]) /\ Len(pages) = Boot + 1
        /\ pages[Boot + 1] = header
        /\ \A t \in 1 .. Boot : pages[t] = BootTables[t]
    BY <1>1, <1>3, <1>4
  <1>6. ASSUME NEW t \in 1 .. Len(pages), NEW i \in Slot PROVE AsLaid(t, i, pages[t][i])
    <2>1. CASE t = Boot + 1
      BY <1>3, <1>5, <2>1 DEF AsLaid
    <2>2. CASE t \in 1 .. Boot
      <3>1. pages[t][i].to = LaidTo(t, i)
        BY <1>5, <2>2 DEF LaidTo
      <3>2. Level[t] = 2 => ~IntoBoot(LaidTo(t, i))
        BY <1>1, <1>2, <2>2 DEF LaidTo
      <3>3. Level[t] < 2 \/ Level[t] = 2
        BY <1>1, <2>2
      <3> QED
        BY <2>2, <3>1, <3>2, <3>3 DEF AsLaid
    <2> QED
      BY <1>1, <1>5, <2>1, <2>2
  <1>7. null \in [Slot -> EntrySet] /\ \A i \in Slot : ~IntoBoot(null[i].to)
    BY <1>2, <1>4
  <1> QED
    BY <1>1, <1>4, <1>5, <1>6, <1>7 DEF SpacesSound

(* page_fault, pml4_copy, pml4_clear_mapping, pml4_set_writable and writes, *)
(* in any order and in any number of spaces: where boot laid the tables, an *)
(* address changes its meaning only when its own entry is cleared or set.  *)
THEOREM BootTablesKept == SpacesSpec => BootKept
  <1>1. SpacesInit => SpacesSound
    BY SpacesInitSound
  <1>2. SpacesSound /\ [SpacesNext]_spaceVars => SpacesSound' /\ [OwnEntryOnly]_spaceVars
    <2> SUFFICES ASSUME SpacesSound, [SpacesNext]_spaceVars
                 PROVE  SpacesSound' /\ [OwnEntryOnly]_spaceVars
      OBVIOUS
    <2>1. CASE UNCHANGED spaceVars
      BY <2>1, Unchanged DEF spaceVars
    <2>2. CASE PageTableCreate
      BY <2>2, PageTableCreateSound
    <2>3. ASSUME NEW root \in roots, NEW a \in Address, PageFault(root, a)
          PROVE  SpacesSound' /\ OwnEntryOnly
      BY <2>3, PageFaultSound
    <2>4. ASSUME NEW root \in roots, NEW a \in Address, ClearMapping(root, a)
          PROVE  SpacesSound' /\ OwnEntryOnly
      BY <2>4, ClearMappingSound
    <2>5. ASSUME NEW root \in roots, NEW a \in Address, NEW c \in BOOLEAN, SetWritable(root, a, c)
          PROVE  SpacesSound' /\ OwnEntryOnly
      BY <2>5, SetWritableSound
    <2>6. ASSUME NEW root \in roots, NEW a \in Address, Write(root, a)
          PROVE  SpacesSound' /\ OwnEntryOnly
      BY <2>6, Unchanged DEF Write
    <2>7. ASSUME NEW root \in roots, NEW c \in BOOLEAN, Pml4Copy(root, c)
          PROVE  SpacesSound' /\ OwnEntryOnly
      BY <2>7, Pml4CopySound
    <2> QED
      BY <2>1, <2>2, <2>3, <2>4, <2>5, <2>6, <2>7 DEF SpacesNext
  <1> QED
    BY <1>1, <1>2, PTL DEF SpacesSpec, BootKept

=============================================================================
