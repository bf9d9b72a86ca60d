------------------------------- MODULE Threads -------------------------------
(***************************************************************************)
(* Kernel threads of dunkos on its single CPU: the ready list and the      *)
(* context switch, the interrupt flag and the level that shadows it, the   *)
(* common interrupt stub, semaphores, locks and the creation of threads.   *)
(*                                                                         *)
(* A step is what the CPU does between two points where an interrupt can   *)
(* be taken, or, with interrupts off, between two reads or writes of       *)
(* shared state.  The code that calls this API is the most general client  *)
(* that respects it: it releases the locks it holds, does not reacquire    *)
(* them, and returns from its entry function with none held.               *)
(***************************************************************************)
EXTENDS Integers, Sequences, FiniteSets, Functions

CONSTANTS
  Worker,       \* threads that create_thread may still make
  Idle,         \* idle_thread
  Initial,      \* initial_thread, the one that boots
  Lock,         \* struct lock objects
  HeapLock,     \* the lock of the heap descriptor that serves threads
  Counter,      \* semaphores used as counters
  InitialCount, \* their initial values
  IsrSema,      \* counters that interrupt handlers increment
  Creator,      \* threads that call create_thread
  MaxCalls,     \* bound: calls a thread makes, releases not counted
  MaxCount      \* bound: a counter that reaches it is not incremented

Thread == Worker \cup {Idle, Initial}
Sema == Lock \cup Counter
None == "None"

ASSUME ThreadAssumption ==
  /\ Idle # Initial
  /\ Idle \notin Worker /\ Initial \notin Worker
  /\ None \notin Thread

ASSUME SemaAssumption ==
  /\ HeapLock \in Lock
  /\ Lock \cap Counter = {}
  /\ Lock \cap Thread = {} /\ Counter \cap Thread = {}
  /\ InitialCount \in [Counter -> Nat]
  /\ IsrSema \subseteq Counter

ASSUME BoundAssumption == MaxCalls \in Nat /\ MaxCount \in Nat

Level == {"ENABLED", "DISABLED", "CONTEXT"}
Status == {"UNBORN", "BLOCKED", "READY", "DEAD"}
Function == {"start_thread", "lock_acquire", "lock_release",
             "semaphore_dec", "semaphore_inc", "thread_unblock"}
Place == {"client", "save", "cli", "critical", "test", "block", "wake",
          "restore", "store", "hold", "tid", "exit"}

VARIABLES
  running,    \* running_thread
  iflag,      \* IF in RFLAGS
  level,      \* intr_level
  inService,  \* the APIC delivered an interrupt that awaits its EOI
  ready,      \* ready_threads
  status,     \* thread.status; UNBORN before its memory is allocated
  value,      \* semaphore.value
  waiters,    \* semaphore.waiters
  holder,     \* lock.holder
  fn,         \* the API function a thread executes
  pc,         \* where it stands in it
  obj,        \* the semaphore or thread it was called with
  old,        \* its local old_level
  val,        \* its local copy of a counter
  held,       \* locks the client code of a thread holds
  making,     \* the thread a thread is creating
  calls,      \* number of calls a thread has made
  isr,        \* "none", or the state of the interrupt stub on its stack
  isrOld,     \* old_level in that stub
  nextTid,    \* next_tid
  tid         \* thread.id

cpu   == <<running, iflag, level, inService>>
sched == <<ready, status>>
synch == <<value, waiters, holder>>
frame == <<fn, pc, obj, old, val>>
user  == <<held, making, calls>>
stub  == <<isr, isrOld>>
ids   == <<nextTid, tid>>
vars  == <<cpu, sched, synch, frame, user, stub, ids>>

-----------------------------------------------------------------------------
(* The lists, seen as sequences of the threads whose status_elem they link. *)

(* schedule_next with ready list q.  Every thread that is not running was  *)
(* suspended with IF clear (SwitchesWithInterruptsOff) or is new, with a   *)
(* zeroed flags word on its stack, so popf leaves IF clear.                *)
Schedule(q) ==
  /\ running' = IF q = <<>> THEN Idle ELSE Head(q)
  /\ ready' = IF q = <<>> THEN q ELSE Tail(q)
  /\ iflag' = FALSE

\* Fault: the status stays BLOCKED.
FaultyMakeReady(w) ==
  /\ ready' = IF w = Idle THEN ready ELSE Append(ready, w)
  /\ UNCHANGED status

(* thread_unblock without its interrupt bracket *)
MakeReady(w) ==
  /\ ready' = IF w = Idle THEN ready ELSE Append(ready, w)
  /\ status' = [status EXCEPT ![w] = "READY"]

\* Fault: list_front instead of list_pop_front.
FaultyWakeFirst(s) ==
  \/ waiters[s] = <<>> /\ UNCHANGED <<waiters, ready, status>>
  \/ waiters[s] # <<>> /\ MakeReady(Head(waiters[s])) /\ UNCHANGED waiters

(* semaphore_inc after value++ *)
WakeFirst(s) ==
  \/ /\ waiters[s] = <<>>
     /\ UNCHANGED <<waiters, ready, status>>
  \/ /\ waiters[s] # <<>>
     /\ waiters' = [waiters EXCEPT ![s] = Tail(@)]
     /\ MakeReady(Head(waiters[s]))

At(t, p) == running = t /\ isr[t] = "none" /\ pc[t] = p
Goto(t, p) == pc' = [pc EXCEPT ![t] = p]

-----------------------------------------------------------------------------
(* init_threads: the boot thread runs with interrupts off and keeps the    *)
(* zeroed status of its memory; the idle thread has been created but is on *)
(* no list.                                                                *)
Init ==
  /\ running = Initial /\ iflag = FALSE
  /\ level = "DISABLED" /\ inService = FALSE
  /\ ready = <<>>
  /\ status = [t \in Thread |-> CASE t = Idle -> "READY"
                                  [] t = Initial -> "BLOCKED"
                                  [] OTHER -> "UNBORN"]
  /\ value = [s \in Sema |-> IF s \in Lock THEN 1 ELSE InitialCount[s]]
  /\ waiters = [s \in Sema |-> <<>>]
  /\ holder = [l \in Lock |-> None]
  /\ fn = [t \in Thread |-> "start_thread"]
  /\ pc = [t \in Thread |-> IF t = Initial THEN "client" ELSE "restore"]
  /\ obj = [t \in Thread |-> HeapLock]
  /\ old = [t \in Thread |-> "ENABLED"]
  /\ val = [t \in Thread |-> 0]
  /\ held = [t \in Thread |-> {}]
  /\ making = [t \in Thread |-> None]
  /\ calls = [t \in Thread |-> 0]
  /\ isr = [t \in Thread |-> "none"]
  /\ isrOld = [t \in Thread |-> "ENABLED"]
  /\ nextTid = 2
  /\ tid = [t \in Thread |-> IF t = Idle THEN 1 ELSE 0]

-----------------------------------------------------------------------------
(* Calls into the API                                                      *)

Enter(t, f, o) ==
  /\ fn' = [fn EXCEPT ![t] = f]
  /\ obj' = [obj EXCEPT ![t] = o]
  /\ Goto(t, "save")
  /\ UNCHANGED <<old, val>>

(* a call the client code of t is free to make *)
Call(t, f, o) ==
  /\ At(t, "client") /\ t # Idle
  /\ making[t] = None /\ calls[t] < MaxCalls
  /\ calls' = [calls EXCEPT ![t] = @ + 1]
  /\ Enter(t, f, o)
  /\ UNCHANGED <<cpu, sched, synch, held, stub, ids>>

LockAcquire(t, l) == /\ l \notin held[t]
                     /\ Call(t, "lock_acquire", l)
                     /\ UNCHANGED making
SemaphoreDec(t, s) == Call(t, "semaphore_dec", s) /\ UNCHANGED making
SemaphoreInc(t, s) == /\ value[s] < MaxCount
                      /\ Call(t, "semaphore_inc", s)
                      /\ UNCHANGED making

(* create_thread: kcalloc locks the heap descriptor first *)
CreateThread(t, w) ==
  /\ t \in Creator /\ HeapLock \notin held[t]
  /\ status[w] = "UNBORN" /\ \A u \in Thread : making[u] # w
  /\ Call(t, "lock_acquire", HeapLock)
  /\ making' = [making EXCEPT ![t] = w]

Creating(t, s) == making[t] # None /\ status[making[t]] = s

\* Fault: the holder is not cleared.
FaultyLockRelease(t, l) ==
  /\ At(t, "client") /\ l \in held[t]
  /\ making[t] = None \/ (l = HeapLock /\ Creating(t, "BLOCKED"))
  /\ held' = [held EXCEPT ![t] = @ \ {l}]
  /\ Enter(t, "lock_release", l)
  /\ UNCHANGED <<cpu, sched, synch, making, calls, stub, ids>>

(* lock_release: the holder is cleared before the semaphore is incremented *)
LockRelease(t, l) ==
  /\ At(t, "client") /\ l \in held[t]
  /\ making[t] = None \/ (l = HeapLock /\ Creating(t, "BLOCKED"))
  /\ holder' = [holder EXCEPT ![l] = None]
  /\ held' = [held EXCEPT ![t] = @ \ {l}]
  /\ Enter(t, "lock_release", l)
  /\ UNCHANGED <<cpu, sched, value, waiters, making, calls, stub, ids>>

-----------------------------------------------------------------------------
(* Interrupt level: set_interrupt_level(INTR_DISABLED) on the way in ...   *)

SaveLevel(t) ==
  /\ At(t, "save")
  /\ old' = [old EXCEPT ![t] = level]
  /\ Goto(t, "cli")
  /\ UNCHANGED <<cpu, sched, synch, fn, obj, val, user, stub, ids>>

\* Fault: intr_level is set but cli is forgotten.
FaultyCli(t) ==
  /\ At(t, "cli")
  /\ level' = "DISABLED"
  /\ Goto(t, "critical")
  /\ UNCHANGED <<running, iflag, inService, sched, synch, fn, obj, old, val,
                 user, stub, ids>>

Cli(t) ==
  /\ At(t, "cli")
  /\ iflag' = FALSE /\ level' = "DISABLED"
  /\ Goto(t, "critical")
  /\ UNCHANGED <<running, inService, sched, synch, fn, obj, old, val, user,
                 stub, ids>>

(* ... and set_interrupt_level(old_level) on the way out, where an         *)
(* interrupt may come between sti and the store to intr_level              *)
Return(t) ==
  /\ Goto(t, IF fn[t] = "lock_acquire" THEN "hold" ELSE "client")
  /\ making' = IF fn[t] = "thread_unblock"
                 THEN [making EXCEPT ![t] = None] ELSE making
  /\ UNCHANGED <<fn, obj, old, val, held, calls>>

RestoreLevel(t) ==
  /\ At(t, "restore")
  /\ \/ /\ old[t] = "ENABLED"
        /\ iflag' = TRUE
        /\ Goto(t, "store")
        /\ UNCHANGED <<level, fn, obj, old, val, user>>
     \/ /\ old[t] # "ENABLED"
        /\ iflag' = IF old[t] = "DISABLED" THEN FALSE ELSE iflag
        /\ level' = old[t]
        /\ Return(t)
  /\ UNCHANGED <<running, inService, sched, synch, stub, ids>>

StoreLevel(t) ==
  /\ At(t, "store")
  /\ level' = old[t]
  /\ Return(t)
  /\ UNCHANGED <<running, iflag, inService, sched, synch, stub, ids>>

-----------------------------------------------------------------------------
(* semaphore_dec: the counter is read once; the loop tests the local copy, *)
(* so a thread that has waited waits again each time it is woken.          *)

DecLoad(t) ==
  /\ At(t, "critical") /\ fn[t] \in {"lock_acquire", "semaphore_dec"}
  /\ val' = [val EXCEPT ![t] = value[obj[t]]]
  /\ Goto(t, "test")
  /\ UNCHANGED <<cpu, sched, synch, fn, obj, old, user, stub, ids>>

DecTake(t) ==
  /\ At(t, "test") /\ val[t] # 0
  /\ value' = [value EXCEPT ![obj[t]] = val[t] - 1]
  /\ Goto(t, "restore")
  /\ UNCHANGED <<cpu, sched, waiters, holder, fn, obj, old, val, user, stub,
                 ids>>

\* Fault: spin on the local copy.
FaultyDecWait(t) == At(t, "test") /\ val[t] = 0 /\ UNCHANGED vars

DecWait(t) ==
  /\ At(t, "test") /\ val[t] = 0
  /\ waiters' = [waiters EXCEPT ![obj[t]] = Append(@, t)]
  /\ Goto(t, "block")
  /\ UNCHANGED <<cpu, sched, value, holder, fn, obj, old, val, user, stub, ids>>

\* Fault: the woken thread returns without taking the unit.
FaultyDecBlock(t) ==
  /\ At(t, "block")
  /\ level' = "DISABLED"
  /\ status' = [status EXCEPT ![t] = "BLOCKED"]
  /\ Schedule(ready)
  /\ Goto(t, "restore")
  /\ UNCHANGED <<inService, synch, fn, obj, old, val, user, stub, ids>>

(* block_current; the thread resumes at the loop test *)
DecBlock(t) ==
  /\ At(t, "block")
  /\ level' = "DISABLED"
  /\ status' = [status EXCEPT ![t] = "BLOCKED"]
  /\ Schedule(ready)
  /\ Goto(t, "test")
  /\ UNCHANGED <<inService, synch, fn, obj, old, val, user, stub, ids>>

(* lock_acquire after semaphore_dec *)
SetHolder(t) ==
  /\ At(t, "hold")
  /\ holder' = [holder EXCEPT ![obj[t]] = running]
  /\ held' = [held EXCEPT ![t] = @ \cup {obj[t]}]
  /\ Goto(t, "client")
  /\ UNCHANGED <<cpu, sched, value, waiters, fn, obj, old, val, making, calls,
                 stub, ids>>

-----------------------------------------------------------------------------
(* semaphore_inc *)

IncAdd(t) ==
  /\ At(t, "critical") /\ fn[t] \in {"lock_release", "semaphore_inc"}
  /\ value' = [value EXCEPT ![obj[t]] = @ + 1]
  /\ Goto(t, "wake")
  /\ UNCHANGED <<cpu, sched, waiters, holder, fn, obj, old, val, user, stub,
                 ids>>

IncWake(t) ==
  /\ At(t, "wake")
  /\ WakeFirst(obj[t])
  /\ Goto(t, "restore")
  /\ UNCHANGED <<cpu, value, holder, fn, obj, old, val, user, stub, ids>>

-----------------------------------------------------------------------------
(* create_thread, between the calls it makes: the block kcalloc returns is *)
(* zeroed (status 0 is BLOCKED); assign_id is a load and a store.          *)

Allocate(t) ==
  /\ At(t, "client") /\ HeapLock \in held[t] /\ Creating(t, "UNBORN")
  /\ status' = [status EXCEPT ![making[t]] = "BLOCKED"]
  /\ UNCHANGED <<cpu, ready, synch, frame, user, stub, ids>>

LoadTid(t) ==
  /\ At(t, "client") /\ HeapLock \notin held[t] /\ Creating(t, "BLOCKED")
  /\ val' = [val EXCEPT ![t] = nextTid]
  /\ Goto(t, "tid")
  /\ UNCHANGED <<cpu, sched, synch, fn, obj, old, user, stub, ids>>

\* Fault: next_tid is not advanced.
FaultyStoreTid(t) ==
  /\ At(t, "tid")
  /\ nextTid' = val[t]
  /\ tid' = [tid EXCEPT ![making[t]] = val[t]]
  /\ Enter(t, "thread_unblock", making[t])
  /\ UNCHANGED <<cpu, sched, synch, user, stub>>

(* the rest of assign_id and thread_init, and the call of thread_unblock *)
StoreTid(t) ==
  /\ At(t, "tid")
  /\ nextTid' = val[t] + 1
  /\ tid' = [tid EXCEPT ![making[t]] = val[t]]
  /\ Enter(t, "thread_unblock", making[t])
  /\ UNCHANGED <<cpu, sched, synch, user, stub>>

Unblock(t) ==
  /\ At(t, "critical") /\ fn[t] = "thread_unblock"
  /\ MakeReady(obj[t])
  /\ Goto(t, "restore")
  /\ UNCHANGED <<cpu, synch, fn, obj, old, val, user, stub, ids>>

\* Fault: exit_thread leaves interrupts on.
FaultyExit(t) ==
  /\ At(t, "client") /\ t # Idle
  /\ held[t] = {} /\ making[t] = None
  /\ status' = [status EXCEPT ![t] = "DEAD"]
  /\ Goto(t, "exit")
  /\ UNCHANGED <<cpu, ready, synch, fn, obj, old, val, user, stub, ids>>

(* exit_thread, from start_thread when the entry function returns *)
Exit(t) ==
  /\ At(t, "client") /\ t # Idle
  /\ held[t] = {} /\ making[t] = None
  /\ iflag' = FALSE /\ level' = "DISABLED"
  /\ status' = [status EXCEPT ![t] = "DEAD"]
  /\ Goto(t, "exit")
  /\ UNCHANGED <<running, inService, ready, synch, fn, obj, old, val, user,
                 stub, ids>>

\* Fault: yield_current instead of schedule_next.
FaultyDepart(t) ==
  /\ At(t, "exit")
  /\ Schedule(Append(ready, t))
  /\ UNCHANGED <<level, inService, status, synch, frame, user, stub, ids>>

Depart(t) ==
  /\ At(t, "exit")
  /\ Schedule(ready)
  /\ UNCHANGED <<level, inService, status, synch, frame, user, stub, ids>>

-----------------------------------------------------------------------------
(* isr_common_stub                                                         *)

(* An interrupt gate clears IF; the local APIC delivers nothing more until *)
(* it gets the EOI of what it delivered.                                   *)
Interrupt ==
  /\ iflag /\ ~inService
  /\ isr' = [isr EXCEPT ![running] = "handler"]
  /\ isrOld' = [isrOld EXCEPT ![running] = level]
  /\ iflag' = FALSE /\ level' = "CONTEXT" /\ inService' = TRUE
  /\ UNCHANGED <<running, sched, synch, frame, user, ids>>

(* Any handler of intr_table: it calls semaphore_inc, with IF clear, a     *)
(* number of times, and defers nothing or a yield.                         *)
HandlerInc(t, s) ==
  /\ running = t /\ isr[t] = "handler"
  /\ value[s] < MaxCount
  /\ value' = [value EXCEPT ![s] = @ + 1]
  /\ WakeFirst(s)
  /\ UNCHANGED <<cpu, holder, frame, user, stub, ids>>

\* Fault: the level is left as it is.
FaultyLeaveStub(t) ==
  /\ iflag' = TRUE /\ inService' = FALSE
  /\ isr' = [isr EXCEPT ![t] = "none"]
  /\ UNCHANGED <<running, level, sched, synch, frame, user, isrOld, ids>>

(* set_interrupt_level(old_level), the EOI and iretq, which sets IF as it  *)
(* was.  One step: the EOI is owed until its end (EoiOwed), and an         *)
(* interrupt between EOI and iretq finds the state iretq leaves.           *)
LeaveStub(t) ==
  /\ level' = isrOld[t] /\ iflag' = TRUE /\ inService' = FALSE
  /\ isr' = [isr EXCEPT ![t] = "none"]
  /\ UNCHANGED <<running, sched, synch, frame, user, isrOld, ids>>

DeferNone(t) == running = t /\ isr[t] = "handler" /\ LeaveStub(t)

\* Fault: schedule_next instead of yield_current.
FaultyDeferYield(t) ==
  /\ running = t /\ isr[t] = "handler"
  /\ level' \in {"CONTEXT", "DISABLED"}
  /\ isr' = [isr EXCEPT ![t] = "yielded"]
  /\ Schedule(ready)
  /\ UNCHANGED <<inService, status, synch, frame, user, isrOld, ids>>

(* The yield comes before the level is restored and the EOI is sent.  The  *)
(* level is what the handler left.                                         *)
DeferYield(t) ==
  /\ running = t /\ isr[t] = "handler"
  /\ level' \in {"CONTEXT", "DISABLED"}
  /\ isr' = [isr EXCEPT ![t] = "yielded"]
  /\ Schedule(IF status[t] # "BLOCKED" THEN Append(ready, t) ELSE ready)
  /\ UNCHANGED <<inService, status, synch, frame, user, isrOld, ids>>

Resume(t) == running = t /\ isr[t] = "yielded" /\ LeaveStub(t)

-----------------------------------------------------------------------------

UserStep(t) ==
  \/ \E l \in Lock : LockAcquire(t, l) \/ LockRelease(t, l)
  \/ \E s \in Counter : SemaphoreDec(t, s) \/ SemaphoreInc(t, s)
  \/ \E w \in Worker : CreateThread(t, w)
  \/ Exit(t)

KernelStep(t) ==
  \/ SaveLevel(t) \/ Cli(t) \/ RestoreLevel(t) \/ StoreLevel(t)
  \/ DecLoad(t) \/ DecTake(t) \/ DecWait(t) \/ DecBlock(t) \/ SetHolder(t)
  \/ IncAdd(t) \/ IncWake(t)
  \/ Allocate(t) \/ LoadTid(t) \/ StoreTid(t) \/ Unblock(t)
  \/ Depart(t)

StubStep(t) ==
  \/ \E s \in IsrSema : HandlerInc(t, s)
  \/ DeferNone(t) \/ DeferYield(t) \/ Resume(t)

Next == \/ \E t \in Thread : UserStep(t) \/ KernelStep(t) \/ StubStep(t)
        \/ Interrupt

Spec == Init /\ [][Next]_vars

(* The CPU executes the running thread, and a stub runs to its end.  The   *)
(* timer's period is long enough for a thread to progress between two      *)
(* interrupts, hence strong fairness.  Client code is finite.              *)
Fairness == \A t \in Thread : /\ SF_vars(UserStep(t) \/ KernelStep(t))
                              /\ WF_vars(StubStep(t))
FairSpec == Spec /\ Fairness

-----------------------------------------------------------------------------
(* Types *)

(* Every variable stays in its range. *)
TypeOK ==
  /\ running \in Thread /\ iflag \in BOOLEAN
  /\ level \in Level /\ inService \in BOOLEAN
  /\ ready \in Seq(Thread) /\ status \in [Thread -> Status]
  /\ value \in [Sema -> Nat] /\ waiters \in [Sema -> Seq(Thread)]
  /\ holder \in [Lock -> Thread \cup {None}]
  /\ fn \in [Thread -> Function] /\ pc \in [Thread -> Place]
  /\ obj \in [Thread -> Sema \cup Thread] /\ old \in [Thread -> Level]
  /\ val \in [Thread -> Nat] /\ held \in [Thread -> SUBSET Lock]
  /\ making \in [Thread -> Worker \cup {None}] /\ calls \in [Thread -> Nat]
  /\ isr \in [Thread -> {"none", "handler", "yielded"}]
  /\ isrOld \in [Thread -> Level]
  /\ nextTid \in Nat /\ tid \in [Thread -> Nat]
=============================================================================
