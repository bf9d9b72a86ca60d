--------------------------- MODULE ThreadsCorrect ---------------------------
(***************************************************************************)
(* What makes Threads correct: atomicity of the critical sections, the     *)
(* interrupt level, the lists, mutual exclusion and the abstract locks and *)
(* counters of Synch that Threads implements.                              *)
(***************************************************************************)
EXTENDS Threads

-----------------------------------------------------------------------------
(* Interrupts and the critical sections *)

Critical == {"critical", "test", "block", "wake", "exit"}

(* Whatever thread is inside semaphore_inc, semaphore_dec or thread_unblock, *)
(* past disable_interrupts, runs with IF clear until it restores the level   *)
(* ("Ensure atomicity", thread.c:252); and a thread that is not running is   *)
(* in such a section only because it gave up the CPU in block_current.       *)
CriticalAtomic ==
  \A t \in Thread : pc[t] \in Critical =>
    /\ isr[t] = "none"
    /\ running = t => ~iflag
    /\ running # t => \/ pc[t] = "test" /\ val[t] = 0
                      \/ pc[t] = "exit"

(* intr_level tells the truth wherever client code can look at it: it is  *)
(* ENABLED if and only if IF is set, and CONTEXT in no thread's code.     *)
LevelTellsTruth ==
  At(running, "client") /\ running # Initial => iflag /\ level = "ENABLED"

(* While an EOI is owed, exactly one thread has an unfinished stub on its  *)
(* stack, and it runs or is in the ready list, so that the EOI can still   *)
(* be sent: no thread blocks, exits or is lost inside isr_common_stub.     *)
EoiOwed ==
  LET inStub == {t \in Thread : isr[t] # "none"} IN
  /\ inService => \E t \in inStub : t = running \/ t \in Range(ready)
  /\ ~inService => inStub = {}
  /\ \A t, u \in inStub : t = u

(* switch_to runs with IF clear, whoever calls it. *)
SwitchesWithInterruptsOff == [][running' # running => ~iflag]_vars

(* interrupt.h:88 calls the deferred action one "to defer to after          *)
(* restoring pre-interrupt state": the level is back to what it was, and    *)
(* no EOI is owed, when the stub yields.                                    *)
YieldsAfterRestoring ==
  [][\A t \in Thread : isr[t] # "yielded" /\ isr'[t] = "yielded" =>
        level = isrOld[t] /\ ~inService]_vars

-----------------------------------------------------------------------------
(* The lists *)

Places(t) ==
  {<<"ready", i>> : i \in {j \in DOMAIN ready : ready[j] = t}} \cup
  UNION {{<<s, i>> : i \in {j \in DOMAIN waiters[s] : waiters[s][j] = t}} :
           s \in Sema}

BeingMade(w) ==
  \E t \in Thread : /\ making[t] = w
                    /\ fn[t] = "thread_unblock" => pc[t] \notin {"restore", "store"}
NeverRan(t) == fn[t] = "start_thread" /\ pc[t] = "restore"

(* status_elem links a thread into at most one list, once.  The running   *)
(* thread is in none, but for the instant between queueing itself and     *)
(* switching away; a dead or unallocated thread is in none; and a thread  *)
(* that is neither running, dead nor in the making is in one: no          *)
(* interleaving of wakeups, preemption and blocking loses a thread.       *)
ListsSound ==
  \A t \in Thread :
    /\ Cardinality(Places(t)) <= 1
    /\ t = running /\ pc[t] # "block" => Places(t) = {}
    /\ status[t] \in {"DEAD", "UNBORN"} => Places(t) = {}
    /\ \/ t = running \/ status[t] \in {"DEAD", "UNBORN"}
       \/ t = Idle /\ NeverRan(Idle)
       \/ BeingMade(t) \/ Places(t) # {}

(* A thread is in the ready list only with status READY, and waits on a    *)
(* semaphore only inside semaphore_dec for that semaphore.                 *)
StatusMatchesList ==
  /\ \A t \in Range(ready) : status[t] = "READY"
  /\ \A s \in Sema : \A t \in Range(waiters[s]) :
       /\ fn[t] \in {"lock_acquire", "semaphore_dec"} /\ obj[t] = s
       /\ status[t] = "BLOCKED" \/ pc[t] = "block"

(* exit_thread never returns: the kfree after switch_to in schedule_next   *)
(* is never reached with a dead thread.                                    *)
StaysDead(t) == status[t] = "DEAD" => status'[t] = "DEAD" /\ running' # t
DeadStaysDead == [][\A t \in Thread : StaysDead(t)]_vars

-----------------------------------------------------------------------------
(* Locks *)

(* t has taken the unit of l's semaphore and not yet given it back *)
Owns(t, l) ==
  \/ l \in held[t]
  \/ fn[t] = "lock_acquire" /\ obj[t] = l /\ pc[t] \in {"restore", "store", "hold"}
  \/ fn[t] = "lock_release" /\ obj[t] = l /\ pc[t] \in {"save", "cli", "critical"}

(* At most one thread owns a lock, and the semaphore's value says whether *)
(* one does.                                                              *)
MutualExclusion ==
  \A l \in Lock :
    /\ \A t, u \in Thread : Owns(t, l) /\ Owns(u, l) => t = u
    /\ value[l] = IF \E t \in Thread : Owns(t, l) THEN 0 ELSE 1

(* holder names only the owner, and names it as long as client code may   *)
(* rely on it: the store in lock_acquire and the one in lock_release,     *)
(* both outside the critical section, never overwrite another owner's.    *)
HolderIsOwner ==
  \A l \in Lock, t \in Thread :
    /\ holder[l] = t => Owns(t, l)
    /\ l \in held[t] => holder[l] = t

(* Ids are unique (in the runs where only the boot thread creates threads, *)
(* with interrupts off: assign_id is not atomic).                          *)
TidsUnique ==
  \A t, u \in Thread : status[t] # "UNBORN" /\ status[u] # "UNBORN"
                       /\ ~BeingMade(t) /\ ~BeingMade(u) /\ tid[t] = tid[u]
                       => t = u

-----------------------------------------------------------------------------
(* The inductive invariant behind the properties above. *)

(* where a thread stands is a place of the function it executes *)
FunctionMatches(t) ==
  /\ fn[t] \in {"lock_acquire", "lock_release"} => obj[t] \in Lock
  /\ fn[t] \in {"semaphore_dec", "semaphore_inc"} => obj[t] \in Counter
  /\ fn[t] = "thread_unblock" => obj[t] \in Thread
  /\ pc[t] \in {"test", "block"} => fn[t] \in {"lock_acquire", "semaphore_dec"}
  /\ pc[t] = "wake" => fn[t] \in {"lock_release", "semaphore_inc"}
  /\ pc[t] = "hold" => fn[t] = "lock_acquire"
  /\ pc[t] = "tid" => making[t] # None

(* one stub at a time, never within a critical section *)
StubSound ==
  /\ \A t \in Thread : isr[t] # "none" =>
       /\ inService /\ pc[t] \notin Critical
       /\ isr[t] = "handler" => running = t
       /\ running = t => ~iflag
  /\ \A t, u \in Thread : isr[t] # "none" /\ isr[u] # "none" => t = u

(* the local copy semaphore_dec decrements is still the semaphore's value, *)
(* and only a zero makes it wait                                           *)
CopyCurrent ==
  \A t \in Thread :
    /\ pc[t] = "test" /\ val[t] # 0 => val[t] = value[obj[t]]
    /\ pc[t] = "block" => val[t] = 0

(* a lock on its way out of lock_release has no holder *)
ReleaseSound ==
  \A t \in Thread :
    fn[t] = "lock_release" /\ pc[t] \in {"save", "cli", "critical"} =>
      obj[t] \notin held[t] /\ holder[obj[t]] = None

(* places outside the bracket of set_interrupt_level calls *)
Outside == {"client", "save", "cli", "hold", "tid"}

(* The level at every place.  Only the boot thread keeps interrupts off    *)
(* all the time; in another thread IF is clear between Cli and             *)
(* RestoreLevel, and the saved level is the one it had outside.  A thread  *)
(* is suspended in block_current or exit_thread, inside a stub, or before  *)
(* its first instruction.                                                  *)
LevelSound ==
  /\ \A t \in Thread :
       LET usual == IF t = Initial THEN "DISABLED" ELSE "ENABLED" IN
       /\ pc[t] \notin {"client", "save", "hold", "tid", "exit"} => old[t] = usual
       /\ running = t /\ isr[t] = "none" =>
            /\ pc[t] \in Outside => level = usual
            /\ iflag <=> t # Initial /\ pc[t] \in Outside \cup {"store"}
       /\ running # t /\ isr[t] = "none" => pc[t] \in {"test", "exit"} \/ NeverRan(t)
       /\ isr[t] # "none" =>
            /\ t # Initial /\ pc[t] \in Outside \cup {"store"}
            /\ pc[t] \in Outside => isrOld[t] = "ENABLED"
       /\ t = Initial => pc[t] # "store"
  /\ inService => \E t \in Thread : isr[t] # "none"

(* What the status of a thread says of its place and of the lists.  The    *)
(* boot thread runs with status BLOCKED until it has waited once.          *)
StatusSound ==
  /\ \A t \in Thread :
       /\ status[t] = "DEAD" <=> pc[t] = "exit"
       /\ status[t] = "UNBORN" => NeverRan(t) /\ t # running
       /\ status[t] = "BLOCKED" /\ t # running =>
            BeingMade(t) \/ \E s \in Sema : t \in Range(waiters[s])
       /\ status[t] = "READY" /\ t # running =>
            t \in Range(ready) \/ (t = Idle /\ NeverRan(Idle))
       /\ pc[t] = "block" => t \in Range(waiters[obj[t]])
  /\ status[running] = "BLOCKED" => running = Initial
  /\ running \notin Range(ready)
  /\ \A s \in Sema : \A t \in Range(waiters[s]) :
       pc[t] = "block" \/ (pc[t] = "test" /\ t # running)
  /\ IsInjective(ready) /\ \A s \in Sema : IsInjective(waiters[s])

(* A thread in the making is nobody else's, and neither runs nor ran; the  *)
(* idle thread makes no call.                                              *)
MakingSound ==
  /\ \A t, u \in Thread : making[t] = making[u] /\ making[t] # None => t = u
  /\ \A t \in Thread :
       fn[t] = "thread_unblock" /\ pc[t] \notin {"client", "tid", "exit"} =>
         making[t] # None /\ obj[t] = making[t]
  /\ \A w \in Worker : BeingMade(w) =>
       status[w] \in {"UNBORN", "BLOCKED"} /\ NeverRan(w) /\ w # running
  /\ fn[Idle] = "start_thread" /\ status[Idle] = "READY"
  /\ held[Idle] = {} /\ making[Idle] = None

(* All of it, as checked and as proved. *)
IInv ==
  /\ TypeOK /\ \A t \in Thread : FunctionMatches(t)
  /\ StubSound /\ CriticalAtomic /\ CopyCurrent
  /\ MutualExclusion /\ ReleaseSound /\ HolderIsOwner
  /\ LevelSound /\ StatusMatchesList /\ StatusSound /\ MakingSound

(* assign_id has stored the id of t *)
Numbered(t) ==
  /\ status[t] # "UNBORN"
  /\ \A u \in Thread : making[u] = t =>
       fn[u] = "thread_unblock" /\ pc[u] \notin {"client", "tid"}

(* What makes ids unique when only the boot thread creates threads: the    *)
(* next_tid it loaded is still next_tid when it stores the id.             *)
IdsSound ==
  /\ \A t \in Thread :
       /\ making[t] # None => t = Initial
       /\ pc[t] = "tid" => val[t] = nextTid
       /\ making[t] # None
         /\ (pc[t] = "tid" \/ (fn[t] = "thread_unblock" /\ pc[t] \in {"save", "cli", "critical"}))
         => status[making[t]] = "BLOCKED"
       /\ Numbered(t) => tid[t] < nextTid
  /\ \A t, u \in Thread : Numbered(t) /\ Numbered(u) /\ tid[t] = tid[u] => t = u

-----------------------------------------------------------------------------
(* Liveness, and what the locks and counters promise *)

(* The ready list is served in order: a thread in it eventually runs, or   *)
(* the idle thread, which never gives up the CPU of its own accord, does.  *)
ReadyRuns ==
  \A t \in Thread : (t \in Range(ready)) ~> (running \in {t, Idle})

OwnerOf(l) == IF \E t \in Thread : Owns(t, l)
                THEN CHOOSE t \in Thread : Owns(t, l) ELSE None

Promise == INSTANCE Synch WITH
  count <- [s \in Counter |-> value[s]], owner <- [l \in Lock |-> OwnerOf(l)]

(* Locks and counters implement the abstract ones of Synch: no interrupt, *)
(* wakeup or preemption makes a unit appear or disappear.                 *)
KeepsPromise == Promise!Spec
=============================================================================
