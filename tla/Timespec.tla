------------------------------ MODULE Timespec -------------------------------
(***************************************************************************)
(* sleep of syscall.c, sleep_timespec of timer.c and the macros safemul,   *)
(* safeadd and div_rnd_up of algo.h: from a length of time to ticks.       *)
(*                                                                         *)
(* Words have Bytes bytes of 8 bits, 8 of them in the code; a second has   *)
(* NanoPerSec nanoseconds.  Lengths are not negative, and short enough for *)
(* sleep to multiply without overflow.                                     *)
(***************************************************************************)
EXTENDS Integers

CONSTANTS
  Bytes, NanoPerSec, MsPerSec, Quantum,
  Length,          \* arguments of sleep, in milliseconds
  Seconds, Nanos   \* parts of the arguments of sleepts

WordSize == 2 ^ (8 * Bytes)

(* 1 << sizeof x - 1: the shift is by the number of bytes, less one *)
TestBit == 2 ^ (Bytes - 1)

(* The second conjunct says of powers of two what follows from the first.  *)
ASSUME TimespecAssumption ==
  /\ Bytes \in Nat /\ Bytes > 1 /\ {NanoPerSec, MsPerSec, Quantum} \subseteq Nat \ {0}
  /\ {WordSize, TestBit} \subseteq Nat \ {0} /\ WordSize % (2 * TestBit) = 0
  /\ NanoPerSec % MsPerSec = 0 /\ NanoPerSec % (2 * TestBit) = 0 /\ 2 * Quantum <= WordSize
  /\ Length \subseteq Nat /\ \A ms \in Length : 2 * ms * NanoPerSec < WordSize
  /\ Seconds \cup Nanos \subseteq 0 .. WordSize - 1

VARIABLES
  asked,  \* the time asked for
  slept   \* the ticks passed to sleep_ticks; none when a test failed

timespecVars == <<asked, slept>>

Signed(word) == IF 2 * word < WordSize THEN word ELSE word - WordSize
(* div_rnd_up of signed words: the sum may wrap, the quotient goes to zero *)
DivRndUp(n, d) ==
  LET m == Signed((n + d - 1) % WordSize) IN IF m >= 0 THEN m \div d ELSE -((-m) \div d)

(* safemul and safeadd, which computes a product as well.  == binds more   *)
(* tightly than &, so that the bits of the operands are masked with 0:     *)
(* what remains of the test is that TestBit of the product is clear.       *)
Product(a, b) == (a * b) % WordSize
SafeMul(a, b) == (Product(a, b) \div TestBit) % 2 = 0
SafeAdd(a, b) == (Product(a, b) \div TestBit) % 2 = 0

(* sleep_timespec *)
SleepTimespec(seconds, nanoseconds) ==
  LET nanos == Product(seconds, NanoPerSec)
      sum == Product(nanos, nanoseconds)
  IN  slept' = IF SafeMul(seconds, NanoPerSec) /\ SafeAdd(nanos, nanoseconds)
               THEN {DivRndUp(Signed(sum), Quantum)} ELSE {}

TimespecInit == asked = [seconds |-> 0, nanoseconds |-> 0] /\ slept = {}

\* Fault: the nanoseconds are reduced with the wrong constant.
FaultySleepMs(ms) ==
  /\ asked' = [seconds |-> ms \div MsPerSec, nanoseconds |-> (ms % MsPerSec) * (NanoPerSec \div MsPerSec)]
  /\ SleepTimespec(ms \div MsPerSec, ((ms * NanoPerSec) \div MsPerSec) % MsPerSec)

SleepMs(ms) ==
  /\ asked' = [seconds |-> ms \div MsPerSec, nanoseconds |-> (ms % MsPerSec) * (NanoPerSec \div MsPerSec)]
  /\ SleepTimespec(ms \div MsPerSec, ((ms * NanoPerSec) \div MsPerSec) % NanoPerSec)

Sleepts(seconds, nanoseconds) ==
  /\ asked' = [seconds |-> seconds, nanoseconds |-> nanoseconds]
  /\ SleepTimespec(seconds, nanoseconds)

TimespecNext ==
  \/ \E ms \in Length : SleepMs(ms)
  \/ \E s \in Seconds, n \in Nanos : Sleepts(s, n)

TimespecSpec == TimespecInit /\ [][TimespecNext]_timespecVars

-----------------------------------------------------------------------------

Due == (asked.seconds * NanoPerSec + asked.nanoseconds + Quantum - 1) \div Quantum

(* The tests that should catch an overflow never fail: a second is a       *)
(* multiple of 2 * TestBit nanoseconds.  Of the times that are neither     *)
(* whole seconds nor under a second (SleepsAsked) none is cut short as     *)
(* long as the product fits a word: the ticks are at least those of the    *)
(* time asked for, unless it is one nanosecond over the second.  Where the *)
(* product does not fit, the number of ticks says nothing, and is negative *)
(* when the word is.                                                       *)
SleepTimes ==
  [][LET s == asked'.seconds
         n == asked'.nanoseconds
         fits == 2 * (s * NanoPerSec * n + Quantum) <= WordSize
     IN  \E ticks \in slept' :
           /\ s > 0 /\ n \in 2 .. NanoPerSec - 1 /\ fits => ticks >= Due'
           /\ ticks < 0 => ~fits]_timespecVars

(* What system.h says of sleep and sleepts: they last for the time given.   *)
(* The seconds are multiplied with the nanoseconds, so that whole seconds   *)
(* and times under a second become no ticks at all.                         *)
SleepsAsked == [][\E ticks \in slept' : ticks >= Due']_timespecVars
=============================================================================
