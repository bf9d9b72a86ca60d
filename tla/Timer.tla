-------------------------------- MODULE Timer --------------------------------
(***************************************************************************)
(* The timer of dunkos over its threads: ticks, the time slice, the queue  *)
(* of sleeping threads and the handler that walks it.  The queue is a list *)
(* of sleep_elem fields linked through pointers; a thread links its        *)
(* element store by store under sleep_queue_lock and with interrupts on,   *)
(* while the handler, which takes no lock, follows the next pointers.      *)
(*                                                                         *)
(* Every action is an action of Threads, or leaves the threads alone, and  *)
(* does what timer.c adds to it.  Client threads only sleep.               *)
(***************************************************************************)
EXTENDS Threads

CONSTANTS
  QueueLock,  \* sleep_queue_lock
  SleepSema,  \* SleepSema[t] is the semaphore t.sleep_sema
  Duration,   \* lengths of sleep, in ticks
  TimeSlice,  \* TIME_SLICE
  MaxTicks    \* bound: ticks counted

ASSUME TimerAssumption ==
  /\ QueueLock \in Lock \ {HeapLock}
  /\ SleepSema \in [Worker -> IsrSema]
  /\ \A t, u \in Worker : SleepSema[t] = SleepSema[u] => t = u
  /\ \A t \in Worker : InitialCount[SleepSema[t]] = 0
  /\ \A t \in Worker : t \notin {"head", "tail", "NULL", "none", "entry", "halted"}
  /\ Duration \subseteq Nat /\ TimeSlice \in Nat /\ MaxTicks \in Nat

VARIABLES
  ticks,       \* ticks
  threadTicks, \* thread_ticks
  sleepEnd,    \* thread.sleep_end
  phase,       \* where a thread stands in sleep_ticks
  next,        \* the next pointers of the elements and of the list's head
  last,        \* sleep_queue.tail.prev
  size,        \* sleep_queue.size
  cursor,      \* sleeper_el, or where the handler stands outside its loop
  action       \* what the handler is going to return

ListHead == "head"
ListTail == "tail"
Null == "NULL"
Phase == {"awake", "lock", "linked", "ended", "queued", "unlock", "wait"}

clock == <<ticks, threadTicks>>
queue == <<next, last, size>>
timer == <<clock, sleepEnd, phase, queue, cursor, action>>
allVars == <<vars, timer>>

(* init_timer *)
TimerInit ==
  /\ Init
  /\ ticks = 0 /\ threadTicks = 0
  /\ sleepEnd = [t \in Worker |-> -1]
  /\ phase = [t \in Worker |-> "awake"]
  /\ next = [e \in Worker \cup {ListHead} |-> IF e = ListHead THEN ListTail ELSE Null]
  /\ last = ListHead /\ size = 0
  /\ cursor = "none" /\ action = "NONE"

-----------------------------------------------------------------------------
(* sleep_ticks *)

InPhase(t, p, q) ==
  phase[t] = p /\ phase' = [phase EXCEPT ![t] = q]

Sleep(t, d) ==
  /\ InPhase(t, "awake", "lock")
  /\ sleepEnd' = [sleepEnd EXCEPT ![t] = ticks + d]
  /\ LockAcquire(t, QueueLock)
  /\ UNCHANGED <<clock, queue, cursor, action>>

(* list_push_back: the element becomes reachable ... *)
PushLink(t) ==
  /\ At(t, "client") /\ QueueLock \in held[t]
  /\ InPhase(t, "lock", "linked")
  /\ next' = [next EXCEPT ![IF size = 0 THEN ListHead ELSE last] = t]
  /\ UNCHANGED <<vars, clock, sleepEnd, last, size, cursor, action>>

\* Fault: the element's own next pointer is not written.
FaultyPushEnd(t) ==
  /\ At(t, "client")
  /\ InPhase(t, "linked", "ended")
  /\ last' = t
  /\ UNCHANGED <<vars, clock, sleepEnd, next, size, cursor, action>>

(* ... then gets its own next pointer ... *)
PushEnd(t) ==
  /\ At(t, "client")
  /\ InPhase(t, "linked", "ended")
  /\ last' = t
  /\ next' = [next EXCEPT ![t] = ListTail]
  /\ UNCHANGED <<vars, clock, sleepEnd, size, cursor, action>>

\* Fault: the element is not counted.
FaultyPushCount(t) ==
  /\ At(t, "client")
  /\ InPhase(t, "ended", "queued")
  /\ UNCHANGED <<vars, clock, sleepEnd, queue, cursor, action>>

(* ... then is counted. *)
PushCount(t) ==
  /\ At(t, "client")
  /\ InPhase(t, "ended", "queued")
  /\ size' = size + 1
  /\ UNCHANGED <<vars, clock, sleepEnd, next, last, cursor, action>>

Unlock(t) ==
  /\ InPhase(t, "queued", "unlock")
  /\ LockRelease(t, QueueLock)
  /\ UNCHANGED <<clock, sleepEnd, queue, cursor, action>>

Wait(t) ==
  /\ InPhase(t, "unlock", "wait")
  /\ SemaphoreDec(t, SleepSema[t])
  /\ UNCHANGED <<clock, sleepEnd, queue, cursor, action>>

Awake(t) ==
  /\ At(t, "client")
  /\ InPhase(t, "wait", "awake")
  /\ UNCHANGED <<vars, clock, sleepEnd, queue, cursor, action>>

-----------------------------------------------------------------------------
(* timer_interrupt, in isr_common_stub on the stack of thread t *)

InHandler(t) == running = t /\ isr[t] = "handler"
Begin == IF size = 0 THEN ListTail ELSE next[ListHead]

Fire ==
  /\ ticks < MaxTicks
  /\ Interrupt
  /\ cursor' = "entry"
  /\ UNCHANGED <<clock, sleepEnd, phase, queue, action>>

Tick(t) ==
  /\ InHandler(t) /\ cursor = "entry"
  /\ ticks' = ticks + 1
  /\ \/ /\ threadTicks < TimeSlice
        /\ threadTicks' = threadTicks + 1
        /\ cursor' = Begin
        /\ action' = "NONE"
     \/ /\ threadTicks >= TimeSlice
        /\ threadTicks' = threadTicks + 1
        /\ cursor' = "halted"
        /\ UNCHANGED action
  /\ UNCHANGED <<vars, sleepEnd, phase, queue>>

\* Fault: thread_ticks is not reset.
FaultyUnhalt(t) ==
  /\ InHandler(t) /\ cursor = "halted"
  /\ action' = "YIELD"
  /\ cursor' = Begin
  /\ UNCHANGED <<vars, clock, sleepEnd, phase, queue>>

(* hlt with IF clear: only an event from outside the modelled machine (an *)
(* NMI, an SMI) continues it, and nothing says that one comes.            *)
Unhalt(t) ==
  /\ InHandler(t) /\ cursor = "halted"
  /\ threadTicks' = 0
  /\ action' = "YIELD"
  /\ cursor' = Begin
  /\ UNCHANGED <<vars, ticks, sleepEnd, phase, queue>>

\* Fault: sleep_end is not compared.
HastyVisit(t) ==
  /\ InHandler(t) /\ cursor \in Worker
  /\ HandlerInc(t, SleepSema[cursor])
  /\ cursor' = next[cursor]
  /\ UNCHANGED <<clock, sleepEnd, phase, queue, action>>

\* Fault: the comparison is off by one.
LateVisit(t) ==
  /\ InHandler(t) /\ cursor \in Worker
  /\ \/ sleepEnd[cursor] < ticks /\ HandlerInc(t, SleepSema[cursor])
     \/ sleepEnd[cursor] >= ticks /\ UNCHANGED vars
  /\ cursor' = next[cursor]
  /\ UNCHANGED <<clock, sleepEnd, phase, queue, action>>

(* One round of the loop.  A thread stays queued after it was woken.  The *)
(* cursor at NULL is the dereference of a wild pointer: no further step.  *)
Visit(t) ==
  /\ InHandler(t) /\ cursor \in Worker
  /\ \/ sleepEnd[cursor] <= ticks /\ HandlerInc(t, SleepSema[cursor])
     \/ sleepEnd[cursor] > ticks /\ UNCHANGED vars
  /\ cursor' = next[cursor]
  /\ UNCHANGED <<clock, sleepEnd, phase, queue, action>>

Finish(t) ==
  /\ cursor = ListTail
  /\ \/ action = "NONE" /\ DeferNone(t)
     \/ action = "YIELD" /\ DeferYield(t) /\ level' = "DISABLED"
  /\ cursor' = "none"
  /\ UNCHANGED <<clock, sleepEnd, phase, queue, action>>

-----------------------------------------------------------------------------

SleepStep(t) ==
  \/ \E d \in Duration : Sleep(t, d)
  \/ PushLink(t) \/ PushEnd(t) \/ PushCount(t) \/ Unlock(t) \/ Wait(t) \/ Awake(t)

(* what Threads does by itself *)
ThreadStep(t) ==
  /\ \/ KernelStep(t)
     \/ Resume(t)
     \/ HeapLock \in held[t] /\ LockRelease(t, HeapLock)
     \/ /\ t \in Worker => phase[t] = "awake"
        /\ Exit(t) \/ \E w \in Worker : CreateThread(t, w)
  /\ UNCHANGED timer

HandlerStep(t) == Tick(t) \/ Visit(t) \/ Finish(t)

TimerNext ==
  \/ \E t \in Thread : ThreadStep(t) \/ HandlerStep(t) \/ Unhalt(t)
  \/ \E t \in Worker : SleepStep(t)
  \/ Fire

TimerSpec == TimerInit /\ [][TimerNext]_allVars

-----------------------------------------------------------------------------

(* Every variable stays in its range. *)
TimerTypeOK ==
  /\ TypeOK
  /\ ticks \in Nat /\ threadTicks \in 0 .. TimeSlice + 1
  /\ sleepEnd \in [Worker -> Int] /\ phase \in [Worker -> Phase]
  /\ next \in [Worker \cup {ListHead} -> Worker \cup {ListTail, Null}]
  /\ last \in Worker \cup {ListHead} /\ size \in Nat
  /\ cursor \in Worker \cup {ListTail, Null, "none", "entry", "halted"}
  /\ action \in {"NONE", "YIELD"}

Queued == {t \in Worker : phase[t] \in {"queued", "unlock", "wait"}
                          \/ (phase[t] = "awake" /\ sleepEnd[t] # -1)}

(* "Sleep for specified number of milliseconds" (system.h:97): a thread    *)
(* returns from its sleep no earlier than asked.                           *)
NeverEarly ==
  \A t \in Worker : phase[t] = "wait" /\ pc[t] = "client" => ticks >= sleepEnd[t]

(* The same promise, the other way round: a sleeper whose time has come    *)
(* and whose semaphore has been incremented does not wait again.           *)
WokenReturns ==
  [][\A t \in Worker : /\ At(t, "test") /\ obj[t] = SleepSema[t]
                       /\ sleepEnd[t] <= ticks /\ value[obj[t]] > 0
                       => pc'[t] # "block"]_allVars

(* sleep_queue_lock serialises the pushes: when none is under way, the     *)
(* next pointers lead from the head through every queued thread, once, to  *)
(* the tail, and size counts them.                                         *)
QueueIntact ==
  (\A t \in Worker : phase[t] \notin {"linked", "ended"}) =>
    /\ size = Cardinality(Queued)
    /\ \E s \in [1 .. size -> Queued] :
         /\ Range(s) = Queued
         /\ next[ListHead] = (IF size = 0 THEN ListTail ELSE s[1])
         /\ \A i \in 1 .. size :
              next[s[i]] = (IF i = size THEN ListTail ELSE s[i + 1])

(* The handler leaves the queue through a wild pointer only if it came     *)
(* between two stores of a push.                                           *)
WildOnlyMidPush ==
  cursor = Null => \E t \in Worker : phase[t] = "linked"

(* When a tick's walk ends, each queued thread whose time has come has a   *)
(* unit of its semaphore to take, or has taken it.                         *)
DueAreWoken ==
  cursor = ListTail =>
    \A t \in Queued : sleepEnd[t] <= ticks /\ phase[t] # "awake" =>
      \/ value[SleepSema[t]] > 0
      \/ phase[t] = "wait" /\ pc[t] \in {"restore", "store", "client"}

-----------------------------------------------------------------------------
(* What makes the handler safe, whatever the threads do. *)

(* A timer interrupt is served to its end before any thread goes on, and a *)
(* thread that can be reached through a pointer has been given its own     *)
(* next pointer, or is just about to write it.                             *)
WalkSound ==
  /\ TimerTypeOK /\ WildOnlyMidPush
  /\ cursor # "none" => isr[running] = "handler"
  /\ cursor # "halted" => threadTicks <= TimeSlice
  /\ next[ListHead] # Null
  /\ \A t \in Worker :
       cursor = t \/ (\E e \in Worker \cup {ListHead} : next[e] = t) =>
         next[t] # Null \/ phase[t] = "linked"

(* What makes sleeping correct as long as no thread that has slept sleeps  *)
(* again: the handler does not take an element off the queue, and a second *)
(* push of it closes the list into a ring.                                 *)
FirstSleep ==
  \A t \in Worker : phase[t] = "awake" /\ phase'[t] = "lock" => sleepEnd[t] = -1
SleepOnce == [][FirstSleep]_allVars

(* the call of sleep_ticks that a thread is in, and nothing else it is in  *)
SleepCall(t) ==
  /\ phase[t] # "awake" =>
       sleepEnd[t] \in Nat /\ making[t] = None /\ HeapLock \notin held[t]
  /\ phase[t] = "lock" => fn[t] = "lock_acquire" /\ obj[t] = QueueLock
  /\ phase[t] \in {"linked", "ended", "queued"} =>
       pc[t] = "client" /\ QueueLock \in held[t]
  /\ phase[t] = "unlock" => fn[t] = "lock_release"
  /\ phase[t] = "wait" =>
       /\ fn[t] = "semaphore_dec" /\ obj[t] = SleepSema[t]
       /\ pc[t] \in {"restore", "store", "client"} => sleepEnd[t] <= ticks

(* the heap's lock is held only within create_thread *)
HeapCall(t) ==
  /\ HeapLock \in held[t] => making[t] # None
  /\ fn[t] = "lock_acquire" /\ obj[t] = HeapLock /\ pc[t] \notin {"client", "exit"} =>
       making[t] # None
  /\ pc[t] = "tid" \/ (fn[t] = "thread_unblock" /\ pc[t] \notin {"client", "exit"}) =>
       HeapLock \notin held[t]

(* sleep_sema has units only for a thread that is linked and due *)
UnitsDue(t) ==
  value[SleepSema[t]] > 0 =>
    sleepEnd[t] # -1 /\ phase[t] # "lock" /\ sleepEnd[t] <= ticks

Pushing == {"linked", "ended"}

(* the pointers lead from the head through s[1], ..., s[n] *)
Threaded(s, n) ==
  /\ \A i, j \in 1 .. n : s[i] = s[j] => i = j
  /\ \A t \in Worker : (\E i \in 1 .. n : s[i] = t) <=> sleepEnd[t] # -1 /\ phase[t] # "lock"
  /\ \A t \in Worker : sleepEnd[t] = -1 \/ phase[t] = "lock" => next[t] = Null
  /\ next[ListHead] = IF n = 0 THEN ListTail ELSE s[1]
  /\ \A i \in 1 .. n :
       /\ next[s[i]] = CASE phase[s[i]] = "linked" -> Null
                         [] phase[s[i]] # "linked" /\ i = n -> ListTail
                         [] OTHER -> s[i + 1]
       /\ phase[s[i]] \in Pushing => i = n
  /\ last = LET k == IF n > 0 /\ phase[s[n]] = "linked" THEN n - 1 ELSE n
            IN  IF k = 0 THEN ListHead ELSE s[k]
  /\ size = IF n > 0 /\ phase[s[n]] \in Pushing THEN n - 1 ELSE n

(* t is not due, has a unit to take, or has taken it *)
Served(t) ==
  \/ sleepEnd[t] > ticks \/ phase[t] = "awake" \/ value[SleepSema[t]] > 0
  \/ phase[t] = "wait" /\ pc[t] \in {"restore", "store", "client"}

(* the handler has served those it has passed *)
Walked(s, n) ==
  /\ cursor \in Worker =>
       \E k \in 1 .. n : s[k] = cursor /\ \A i \in 1 .. k - 1 : Served(s[i])
  /\ cursor = ListTail =>
       \A i \in 1 .. n : phase[s[i]] \in Pushing \/ Served(s[i])

QueueSound ==
  \E n \in {size, size + 1} : \E s \in [1 .. n -> Worker] :
    Threaded(s, n) /\ Walked(s, n)

SleepSound ==
  /\ \A t \in Thread : fn[t] # "semaphore_inc"
  /\ \A t \in Worker : SleepCall(t) /\ HeapCall(t) /\ UnitsDue(t)
  /\ QueueSound

(* All of it, as checked and as proved. *)
TimerSound == WalkSound /\ SleepSound
=============================================================================
