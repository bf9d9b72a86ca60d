------------------------------- MODULE Bitmaps -------------------------------
(***************************************************************************)
(* bitmap.c: a bitmap is a function from its bit numbers, counted from     *)
(* zero, to BOOLEAN.                                                       *)
(***************************************************************************)
EXTENDS Integers, FiniteSetsExt

NPOS == -1

BitCount(bm) == Cardinality(DOMAIN bm)

(* Bits at and after bitcount are left alone. *)
BitmapSet(bm, start, nbits, b) ==
  [i \in DOMAIN bm |-> IF i \in start .. start + nbits - 1 THEN b ELSE bm[i]]

BitmapFlip(bm, start, nbits) ==
  [i \in DOMAIN bm |-> IF i \in start .. start + nbits - 1 THEN ~bm[i] ELSE bm[i]]

(* how many of the nbits bits from start on equal b, up to the first that  *)
(* does not                                                                *)
BitsScanned(bm, start, nbits, b) ==
  Max({k \in 0 .. nbits : \A i \in start .. start + k - 1 :
                            i \in DOMAIN bm /\ bm[i] = b})

\* Fault: the scan goes on after as many bits as were asked for.
FaultyBitmapScan(bm, start, nbits, b) ==
  LET scan[s \in Nat] ==
        LET scanned == BitsScanned(bm, s, nbits, b) IN
        IF s >= BitCount(bm) THEN NPOS
        ELSE IF scanned = nbits THEN s
        ELSE scan[s + nbits]
  IN  scan[start]

BitmapScan(bm, start, nbits, b) ==
  LET scan[s \in Nat] ==
        LET scanned == BitsScanned(bm, s, nbits, b) IN
        IF s >= BitCount(bm) THEN NPOS
        ELSE IF scanned = nbits THEN s
        ELSE scan[s + Max({scanned, 1})]
  IN  scan[start]

BitmapAll(bm, start, nbits, b) == BitmapScan(bm, start, nbits, b) = start

-----------------------------------------------------------------------------

(* A run of nbits equal bits at place i. *)
Fits(bm, i, nbits, b) ==
  \A k \in i .. i + nbits - 1 : k \in DOMAIN bm /\ bm[k] = b

(* The scan, which skips the bits it has looked at, finds the first fitting *)
(* place at or after start whatever the bitmap, the length and the value,   *)
(* and NPOS when there is none.                                             *)
FindsFirst(bm) ==
  \A start, nbits \in 0 .. BitCount(bm), b \in BOOLEAN :
    LET fit == {i \in start .. BitCount(bm) - 1 : Fits(bm, i, nbits, b)}
    IN  BitmapScan(bm, start, nbits, b) = IF fit = {} THEN NPOS ELSE Min(fit)
=============================================================================
