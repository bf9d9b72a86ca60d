---------------------------- MODULE ThreadsProofs ----------------------------
(***************************************************************************)
(* Proofs about Threads for any threads, locks, counters and bounds.       *)
(***************************************************************************)
EXTENDS ThreadsCorrect, TLAPS

USE DEF None

(* Removing or adding an element keeps a list a list of threads. *)
LEMMA HeadTail ==
  ASSUME NEW S, NEW q \in Seq(S), q # <<>>
  PROVE  Head(q) \in S /\ Tail(q) \in Seq(S)
  OBVIOUS

(* A thread appended to a list (list_push_back) leaves a list of threads. *)
LEMMA Appended ==
  ASSUME NEW S, NEW q \in Seq(S), NEW e \in S
  PROVE  Append(q, e) \in Seq(S)
  OBVIOUS

(* The boot and idle threads are threads of their own, and locks and       *)
(* counters are semaphores.                                                *)
LEMMA Distinct ==
  /\ Idle \in Thread /\ Initial \in Thread
  /\ Worker \subseteq Thread /\ Lock \subseteq Sema /\ Counter \subseteq Sema
  /\ None \notin Worker
  /\ Idle # Initial
  BY ThreadAssumption DEF Thread, Sema

(***************************************************************************)
(* Types.  A step needs, beyond the types, that a thread stands at a place *)
(* of the function it executes.                                            *)
(***************************************************************************)
Typed == TypeOK /\ \A t \in Thread : FunctionMatches(t)

(* What init_threads leaves is well typed. *)
LEMMA InitTyped == Init => Typed
  <1> SUFFICES ASSUME Init PROVE Typed
    OBVIOUS
  <1> USE Distinct, SemaAssumption
  <1>1. TypeOK
    <2>1. value \in [Sema -> Nat]
      BY DEF Init, Sema
    <2>2. /\ ready \in Seq(Thread) /\ waiters \in [Sema -> Seq(Thread)]
          /\ status \in [Thread -> Status]
      BY DEF Init, Status
    <2>3. /\ obj \in [Thread -> Sema \cup Thread]
          /\ fn \in [Thread -> Function] /\ pc \in [Thread -> Place]
          /\ holder \in [Lock -> Thread \cup {None}]
      BY DEF Init, Function, Place
    <2> QED
      BY <2>1, <2>2, <2>3 DEF Init, TypeOK, Level
  <1>2. ASSUME NEW t \in Thread PROVE FunctionMatches(t)
    BY DEF Init, FunctionMatches
  <1> QED
    BY <1>1, <1>2 DEF Typed

(* What a semaphore's increment does to the lists keeps their types. *)
LEMMA WakeTyped ==
  ASSUME TypeOK, NEW s \in Sema, WakeFirst(s)
  PROVE  /\ waiters' \in [Sema -> Seq(Thread)]
         /\ ready' \in Seq(Thread)
         /\ status' \in [Thread -> Status]
  <1>1. CASE waiters[s] = <<>>
    BY <1>1 DEF WakeFirst, TypeOK
  <1>2. CASE waiters[s] # <<>>
    <2> DEFINE w == Head(waiters[s])
    <2>1. w \in Thread /\ Tail(waiters[s]) \in Seq(Thread)
      BY <1>2, HeadTail DEF TypeOK
    <2>2. Append(ready, w) \in Seq(Thread)
      BY <2>1, Appended DEF TypeOK
    <2>3. waiters' = [waiters EXCEPT ![s] = Tail(@)] /\ MakeReady(w)
      BY <1>2 DEF WakeFirst
    <2> QED
      BY <2>1, <2>2, <2>3 DEF MakeReady, TypeOK, Status
  <1> QED
    BY <1>1, <1>2

(* ... and so does a switch. *)
LEMMA ScheduleTyped ==
  ASSUME NEW q \in Seq(Thread), Schedule(q)
  PROVE  running' \in Thread /\ ready' \in Seq(Thread) /\ iflag' = FALSE
  BY HeadTail, Distinct DEF Schedule

(* A call leaves its thread at the start of the function called. *)
LEMMA EnterTyped ==
  ASSUME Typed, NEW t \in Thread, NEW f \in Function, NEW o \in Sema \cup Thread,
         f \in {"lock_acquire", "lock_release"} => o \in Lock,
         f \in {"semaphore_dec", "semaphore_inc"} => o \in Counter,
         f = "thread_unblock" => o \in Thread,
         \A u \in Thread : u # t => making'[u] = making[u],
         Enter(t, f, o)
  PROVE  /\ fn' \in [Thread -> Function] /\ pc' \in [Thread -> Place]
         /\ obj' \in [Thread -> Sema \cup Thread]
         /\ old' = old /\ val' = val
         /\ \A u \in Thread : FunctionMatches(u)'
  <1>1. /\ fn' = [fn EXCEPT ![t] = f] /\ obj' = [obj EXCEPT ![t] = o]
        /\ pc' = [pc EXCEPT ![t] = "save"] /\ old' = old /\ val' = val
    BY DEF Enter, Goto
  <1>2. /\ fn' \in [Thread -> Function] /\ pc' \in [Thread -> Place]
        /\ obj' \in [Thread -> Sema \cup Thread]
    BY <1>1 DEF Typed, TypeOK, Place
  <1>3. ASSUME NEW u \in Thread PROVE FunctionMatches(u)'
    <2>1. CASE u = t
      BY <1>1, <2>1 DEF Typed, TypeOK, FunctionMatches
    <2>2. CASE u # t
      BY <1>1, <2>2 DEF Typed, TypeOK, FunctionMatches
    <2> QED
      BY <2>1, <2>2
  <1> QED
    BY <1>1, <1>2, <1>3

(* Client code, calling the API or ending, keeps the types. *)
LEMMA CallTyped ==
  ASSUME Typed, NEW t \in Thread, UserStep(t)
  PROVE  Typed'
  <1> USE Distinct, SemaAssumption
  <1>1. ASSUME NEW f \in {"lock_acquire", "semaphore_dec", "semaphore_inc"},
               NEW o \in Sema, Call(t, f, o),
               IF f = "lock_acquire" THEN o \in Lock ELSE o \in Counter,
               making' \in [Thread -> Worker \cup {None}],
               \A u \in Thread : u # t => making'[u] = making[u]
        PROVE  Typed'
    <2>1. Enter(t, f, o)
      BY <1>1 DEF Call
    <2>2. f \in Function
      BY DEF Function
    <2>3. /\ fn' \in [Thread -> Function] /\ pc' \in [Thread -> Place]
          /\ obj' \in [Thread -> Sema \cup Thread]
          /\ old' = old /\ val' = val
          /\ \A u \in Thread : FunctionMatches(u)'
      BY <1>1, <2>1, <2>2, EnterTyped
    <2>4. calls' \in [Thread -> Nat]
      BY <1>1, SMTT(30) DEF Call, Typed, TypeOK
    <2>5. UNCHANGED <<cpu, sched, synch, held, stub, ids>>
      BY <1>1 DEF Call
    <2> QED
      BY <1>1, <2>3, <2>4, <2>5 DEF Typed, TypeOK, cpu, sched, synch, stub, ids
  <1>2. ASSUME NEW l \in Lock, LockAcquire(t, l) PROVE Typed'
    BY <1>1, <1>2 DEF LockAcquire, Typed, TypeOK
  <1>3. ASSUME NEW l \in Lock, LockRelease(t, l) PROVE Typed'
    BY <1>3 DEF Typed, TypeOK, FunctionMatches, LockRelease, Enter, Goto,
      cpu, sched, stub, ids, Function, Place
  <1>4. ASSUME NEW s \in Counter, SemaphoreDec(t, s) PROVE Typed'
    BY <1>1, <1>4 DEF SemaphoreDec, Typed, TypeOK
  <1>5. ASSUME NEW s \in Counter, SemaphoreInc(t, s) PROVE Typed'
    BY <1>1, <1>5 DEF SemaphoreInc, Typed, TypeOK
  <1>6. ASSUME NEW w \in Worker, CreateThread(t, w) PROVE Typed'
    BY <1>1, <1>6 DEF CreateThread, Typed, TypeOK
  <1>7. ASSUME Exit(t) PROVE Typed'
    <2>1. UNCHANGED <<running, inService, ready, synch, fn, obj, old, val,
                      user, stub, ids>>
      BY <1>7 DEF Exit
    <2>2. /\ iflag' = FALSE /\ level' = "DISABLED"
          /\ status' = [status EXCEPT ![t] = "DEAD"]
          /\ pc' = [pc EXCEPT ![t] = "exit"]
      BY <1>7 DEF Exit, Goto
    <2>3. TypeOK'
      BY <2>1, <2>2 DEF Typed, TypeOK, synch, user, stub, ids, Status, Level,
        Place
    <2>4. ASSUME NEW u \in Thread PROVE FunctionMatches(u)'
      BY <2>1, <2>2 DEF Typed, TypeOK, FunctionMatches, user
    <2> QED
      BY <2>3, <2>4 DEF Typed
  <1> QED
    BY <1>2, <1>3, <1>4, <1>5, <1>6, <1>7 DEF UserStep

(* A step inside an API function keeps the types. *)
LEMMA KernelTyped ==
  ASSUME Typed, NEW t \in Thread, KernelStep(t)
  PROVE  Typed'
  <1> USE Distinct
  <1> USE DEF Typed, TypeOK, FunctionMatches, At, Goto, Place, Level, Status
  <1>1. CASE SaveLevel(t)
    BY <1>1 DEF SaveLevel, cpu, sched, synch, user, stub, ids
  <1>2. CASE Cli(t)
    BY <1>2 DEF Cli, sched, synch, user, stub, ids
  <1>3. CASE DecLoad(t)
    BY <1>3, SMTT(30) DEF DecLoad, cpu, sched, synch, user, stub, ids
  <1>4. CASE DecTake(t)
    BY <1>4 DEF DecTake, cpu, sched, user, stub, ids
  <1>5. CASE DecWait(t)
    BY <1>5, SMTT(30) DEF DecWait, cpu, sched, user, stub, ids
  <1>6. CASE SetHolder(t)
    BY <1>6 DEF SetHolder, cpu, sched, stub, ids
  <1>7. CASE IncAdd(t)
    BY <1>7 DEF IncAdd, cpu, sched, user, stub, ids
  <1>8. CASE Allocate(t)
    <2>1. /\ UNCHANGED <<cpu, ready, synch, frame, user, stub, ids>>
          /\ status' = [status EXCEPT ![making[t]] = "BLOCKED"]
      BY <1>8 DEF Allocate
    <2>2. status' \in [Thread -> Status]
      BY <2>1
    <2>3. TypeOK'
      BY <2>1, <2>2 DEF cpu, synch, frame, user, stub, ids
    <2>4. \A u \in Thread : FunctionMatches(u)'
      BY <2>1 DEF frame, user
    <2> QED
      BY <2>3, <2>4
  <1>9. CASE LoadTid(t)
    BY <1>9, None \notin Worker DEF LoadTid, Creating, cpu, sched, synch, user,
      stub, ids
  <1>10. CASE RestoreLevel(t)
    <2>1. UNCHANGED <<running, inService, sched, synch, stub, ids,
                      fn, obj, old, val, held, calls>>
      BY <1>10 DEF RestoreLevel, Return, user
    <2>2. iflag' \in BOOLEAN /\ level' \in Level
      BY <1>10 DEF RestoreLevel
    <2>3. \E p \in {"store", "client", "hold"} :
             /\ pc' = [pc EXCEPT ![t] = p]
             /\ p = "hold" => fn[t] = "lock_acquire"
      BY <1>10 DEF RestoreLevel, Return
    <2>4. \/ making' = making
          \/ fn[t] = "thread_unblock" /\ making' = [making EXCEPT ![t] = None]
      BY <1>10 DEF RestoreLevel, Return, user
    <2>5. making' \in [Thread -> Worker \cup {None}]
      BY <2>4, ZenonT(40)
    <2>6. pc' \in [Thread -> Place]
      BY <2>3
    <2>7. TypeOK'
      BY <2>1, <2>2, <2>5, <2>6 DEF sched, synch, stub, ids
    <2>8. ASSUME NEW u \in Thread PROVE FunctionMatches(u)'
      <3>1. CASE u = t
        BY <2>1, <2>3, <3>1
      <3>2. CASE u # t
        BY <2>1, <2>3, <2>4, <3>2
      <3> QED
        BY <3>1, <3>2
    <2> QED
      BY <2>7, <2>8
  <1>11. CASE StoreLevel(t)
    BY <1>11 DEF StoreLevel, Return, sched, synch, stub, ids
  <1>12. CASE DecBlock(t)
    <2>1. running' \in Thread /\ ready' \in Seq(Thread) /\ iflag' = FALSE
      BY <1>12, ScheduleTyped DEF DecBlock
    <2> QED
      BY <1>12, <2>1 DEF DecBlock, synch, user, stub, ids
  <1>13. CASE IncWake(t)
    <2>1. obj[t] \in Sema /\ WakeFirst(obj[t])
      BY <1>13 DEF IncWake
    <2>2. /\ waiters' \in [Sema -> Seq(Thread)] /\ ready' \in Seq(Thread)
          /\ status' \in [Thread -> Status]
      BY <2>1, WakeTyped
    <2> QED
      BY <1>13, <2>2, ZenonT(40) DEF IncWake, cpu, user, stub, ids
  <1>14. CASE StoreTid(t)
    <2>1. making[t] \in Worker /\ Enter(t, "thread_unblock", making[t])
      BY <1>14 DEF StoreTid
    <2>2. /\ fn' \in [Thread -> Function] /\ pc' \in [Thread -> Place]
          /\ obj' \in [Thread -> Sema \cup Thread]
          /\ old' = old /\ val' = val
          /\ \A u \in Thread : FunctionMatches(u)'
      BY <1>14, <2>1, EnterTyped DEF StoreTid, user, Function
    <2>3. nextTid' \in Nat /\ tid' \in [Thread -> Nat]
      BY <1>14 DEF StoreTid
    <2> QED
      BY <1>14, <2>2, <2>3 DEF StoreTid, cpu, sched, synch, user, stub
  <1>15. CASE Unblock(t)
    <2>1. ready' \in Seq(Thread) /\ status' \in [Thread -> Status]
      BY <1>15, Appended DEF Unblock, MakeReady
    <2> QED
      BY <1>15, <2>1, ZenonT(40) DEF Unblock, cpu, synch, user, stub, ids
  <1>16. CASE Depart(t)
    <2>1. running' \in Thread /\ ready' \in Seq(Thread) /\ iflag' = FALSE
      BY <1>16, ScheduleTyped DEF Depart
    <2> QED
      BY <1>16, <2>1 DEF Depart, synch, frame, user, stub, ids
  <1> QED
    BY <1>1, <1>2, <1>3, <1>4, <1>5, <1>6, <1>7, <1>8, <1>9, <1>10, <1>11,
       <1>12, <1>13, <1>14, <1>15, <1>16 DEF KernelStep

(* A step of the interrupt stub keeps the types. *)
LEMMA StubTyped ==
  ASSUME Typed, NEW t \in Thread, StubStep(t)
  PROVE  Typed'
  <1> USE Distinct, SemaAssumption
  <1> USE DEF Typed, TypeOK, Level
  <1>1. ASSUME NEW s \in IsrSema, HandlerInc(t, s) PROVE Typed'
    <2>1. s \in Sema /\ WakeFirst(s)
      BY <1>1 DEF HandlerInc
    <2>2. /\ waiters' \in [Sema -> Seq(Thread)] /\ ready' \in Seq(Thread)
          /\ status' \in [Thread -> Status]
      BY <2>1, WakeTyped
    <2>3. /\ value' = [value EXCEPT ![s] = @ + 1]
          /\ UNCHANGED <<cpu, holder, frame, user, stub, ids>>
      BY <1>1 DEF HandlerInc
    <2>4. value' \in [Sema -> Nat]
      BY <2>3, SMTT(30)
    <2>5. TypeOK'
      BY <2>2, <2>3, <2>4 DEF cpu, frame, user, stub, ids
    <2> QED
      BY <2>3, <2>5 DEF frame, user, FunctionMatches
  <1>2. ASSUME LeaveStub(t) PROVE Typed'
    BY <1>2 DEF LeaveStub, sched, synch, frame, user, ids, FunctionMatches
  <1>3. CASE DeferYield(t)
    <2>1. Append(ready, t) \in Seq(Thread)
      BY Appended
    <2>2. running' \in Thread /\ ready' \in Seq(Thread) /\ iflag' = FALSE
      BY <1>3, <2>1, ScheduleTyped DEF DeferYield
    <2> QED
      BY <1>3, <2>2 DEF DeferYield, synch, frame, user, ids, FunctionMatches
  <1> QED
    BY <1>1, <1>2, <1>3 DEF StubStep, DeferNone, Resume

(* So does every step, an interrupt's arrival included. *)
LEMMA NextTyped == Typed /\ [Next]_vars => Typed'
  <1> SUFFICES ASSUME Typed, [Next]_vars PROVE Typed'
    OBVIOUS
  <1>1. CASE Interrupt
    BY <1>1 DEF Interrupt, sched, synch, frame, user, ids, Typed, TypeOK, Level,
      FunctionMatches
  <1>2. CASE UNCHANGED vars
    BY <1>2 DEF vars, cpu, sched, synch, frame, user, stub, ids, Typed, TypeOK,
      FunctionMatches
  <1> QED
    BY <1>1, <1>2, CallTyped, KernelTyped, StubTyped DEF Next

(* Every variable keeps its type. *)
THEOREM TypeCorrect == Spec => []TypeOK
  <1>1. Typed => TypeOK
    BY DEF Typed
  <1> QED
    BY <1>1, InitTyped, NextTyped, PTL DEF Spec

(***************************************************************************)
(* Interrupts.  A thread in a critical section runs with IF clear, so no   *)
(* interrupt or preemption finds it there, and what it read stays true.    *)
(***************************************************************************)
Undisturbed == StubSound /\ CriticalAtomic /\ CopyCurrent

(* At boot no stub is unfinished and no critical section is entered. *)
LEMMA InitUndisturbed == Init => Undisturbed
  BY DEF Init, Undisturbed, StubSound, CriticalAtomic, CopyCurrent, Critical

(* A step that only moves t, in its own code with interrupts as they were, *)
(* to a place outside the critical sections.                               *)
LEMMA OutsideUndisturbed ==
  ASSUME Typed, Undisturbed, NEW t \in Thread, running = t, isr[t] = "none",
         NEW p \in Place \ Critical,
         pc' = [pc EXCEPT ![t] = p],
         UNCHANGED <<running, inService, isr>>, iflag' \in BOOLEAN,
         \A u \in Thread : u # t => obj'[u] = obj[u] /\ val'[u] = val[u],
         value' = value
  PROVE  Undisturbed'
  BY DEF Typed, TypeOK, Undisturbed, StubSound, CriticalAtomic, CopyCurrent,
    Critical

(* Client code enters no critical section with interrupts on. *)
LEMMA CallUndisturbed ==
  ASSUME Typed, Undisturbed, NEW t \in Thread, UserStep(t)
  PROVE  Undisturbed'
  <1>1. ASSUME NEW f, NEW o, At(t, "client"), Enter(t, f, o),
               UNCHANGED <<cpu, value, stub>>
        PROVE  Undisturbed'
    BY <1>1, OutsideUndisturbed DEF At, Enter, Goto, cpu, stub, Place, Critical,
      Typed, TypeOK
  <1>2. ASSUME NEW f, NEW o, Call(t, f, o) PROVE Undisturbed'
    BY <1>1, <1>2 DEF Call, synch
  <1>3. ASSUME NEW l \in Lock, LockRelease(t, l) PROVE Undisturbed'
    BY <1>1, <1>3 DEF LockRelease
  <1>4. CASE Exit(t)
    BY <1>4 DEF Exit, At, Goto, synch, user, stub, ids, Typed, TypeOK,
      Undisturbed, StubSound, CriticalAtomic, CopyCurrent, Critical
  <1> QED
    BY <1>2, <1>3, <1>4 DEF UserStep, LockAcquire, SemaphoreDec, SemaphoreInc,
      CreateThread

(* Every step inside an API function respects the critical sections: what  *)
(* a section finds, it keeps until it restores the level or switches away.  *)
LEMMA KernelUndisturbed ==
  ASSUME Typed, Undisturbed, NEW t \in Thread, KernelStep(t)
  PROVE  Undisturbed'
  <1> USE DEF Typed, TypeOK, At, Goto, Undisturbed, StubSound, CriticalAtomic,
        CopyCurrent, Critical
  <1>1. CASE SaveLevel(t)
    BY <1>1 DEF SaveLevel, cpu, sched, synch, user, stub, ids
  <1>2. CASE Cli(t)
    BY <1>2 DEF Cli, sched, synch, user, stub, ids
  <1>3. CASE RestoreLevel(t)
    <2>1. \E p \in Place \ Critical : pc' = [pc EXCEPT ![t] = p]
      BY <1>3 DEF RestoreLevel, Return, Place
    <2>2. /\ UNCHANGED <<running, inService, isr, obj, val, value>>
          /\ iflag' \in BOOLEAN
      BY <1>3 DEF RestoreLevel, Return, synch, stub
    <2> QED
      BY <1>3, <2>1, <2>2, OutsideUndisturbed DEF RestoreLevel
  <1>4. CASE StoreLevel(t)
    BY <1>4 DEF StoreLevel, Return, sched, synch, stub, ids
  <1>5. CASE DecLoad(t)
    BY <1>5 DEF DecLoad, cpu, sched, synch, user, stub, ids
  <1>6. CASE DecTake(t)
    BY <1>6 DEF DecTake, cpu, sched, user, stub, ids
  <1>7. CASE DecWait(t)
    BY <1>7 DEF DecWait, cpu, sched, user, stub, ids
  <1>8. CASE DecBlock(t)
    BY <1>8 DEF DecBlock, Schedule, synch, user, stub, ids
  <1>9. CASE SetHolder(t)
    BY <1>9 DEF SetHolder, cpu, sched, stub, ids
  <1>10. CASE IncAdd(t)
    BY <1>10 DEF IncAdd, cpu, sched, user, stub, ids
  <1>11. CASE IncWake(t)
    BY <1>11 DEF IncWake, cpu, user, stub, ids
  <1>12. CASE Allocate(t)
    BY <1>12 DEF Allocate, cpu, synch, frame, user, stub, ids
  <1>13. CASE LoadTid(t)
    BY <1>13 DEF LoadTid, cpu, sched, synch, user, stub, ids
  <1>14. CASE StoreTid(t)
    BY <1>14 DEF StoreTid, Enter, cpu, sched, synch, user, stub
  <1>15. CASE Unblock(t)
    BY <1>15 DEF Unblock, cpu, synch, user, stub, ids
  <1>16. CASE Depart(t)
    BY <1>16 DEF Depart, Schedule, synch, frame, user, stub, ids
  <1> QED
    BY <1>1, <1>2, <1>3, <1>4, <1>5, <1>6, <1>7, <1>8, <1>9, <1>10, <1>11,
       <1>12, <1>13, <1>14, <1>15, <1>16 DEF KernelStep

(* A stub, though it increments semaphores and yields, disturbs no section. *)
LEMMA StubUndisturbed ==
  ASSUME Typed, Undisturbed, NEW t \in Thread, StubStep(t)
  PROVE  Undisturbed'
  <1> USE DEF Typed, TypeOK, Undisturbed, StubSound, CriticalAtomic,
        CopyCurrent, Critical
  <1>1. ASSUME NEW s \in IsrSema, HandlerInc(t, s) PROVE Undisturbed'
    BY <1>1 DEF HandlerInc, cpu, frame, user, stub, ids
  <1>2. ASSUME isr[t] # "none", running = t, LeaveStub(t) PROVE Undisturbed'
    BY <1>2 DEF LeaveStub, sched, synch, frame, user, ids
  <1>3. CASE DeferYield(t)
    BY <1>3 DEF DeferYield, Schedule, synch, frame, user, ids
  <1> QED
    BY <1>1, <1>2, <1>3 DEF StubStep, DeferNone, Resume

(* So no step disturbs a critical section; an interrupt needs IF set. *)
LEMMA NextUndisturbed == Typed /\ Undisturbed /\ [Next]_vars => Undisturbed'
  <1> SUFFICES ASSUME Typed, Undisturbed, [Next]_vars PROVE Undisturbed'
    OBVIOUS
  <1> USE DEF Undisturbed, StubSound, CriticalAtomic, CopyCurrent, Critical
  <1>1. CASE Interrupt
    BY <1>1 DEF Interrupt, sched, synch, frame, user, ids, Typed, TypeOK
  <1>2. CASE UNCHANGED vars
    BY <1>2 DEF vars, cpu, sched, synch, frame, user, stub, ids
  <1> QED
    BY <1>1, <1>2, CallUndisturbed, KernelUndisturbed, StubUndisturbed DEF Next

(* Semaphore operations are atomic: "Ensure atomicity", thread.c:252. *)
THEOREM Atomicity == Spec => []CriticalAtomic
  <1> DEFINE Inv == Typed /\ Undisturbed
  <1>1. Init => Inv
    BY InitTyped, InitUndisturbed
  <1>2. Inv /\ [Next]_vars => Inv'
    BY NextTyped, NextUndisturbed
  <1>3. Inv => CriticalAtomic
    BY DEF Undisturbed
  <1> HIDE DEF Inv
  <1> QED
    BY <1>1, <1>2, <1>3, PTL DEF Spec

(* Every switch_to, from block_current, exit_thread or the stub, runs with *)
(* IF clear.                                                               *)
THEOREM QuietSwitches == Spec => SwitchesWithInterruptsOff
  <1> DEFINE Inv == Typed /\ Undisturbed
  <1>1. Init => Inv
    BY InitTyped, InitUndisturbed
  <1>2. Inv /\ [Next]_vars => Inv'
    BY NextTyped, NextUndisturbed
  <1>3. Inv /\ [Next]_vars => [running' # running => ~iflag]_vars
    <2> SUFFICES ASSUME Typed, Undisturbed, Next, running' # running
                 PROVE  ~iflag
      OBVIOUS
    <2> USE DEF cpu
    <2>1. ~Interrupt
      BY DEF Interrupt
    <2>2. PICK t \in Thread : UserStep(t) \/ KernelStep(t) \/ StubStep(t)
      BY <2>1 DEF Next
    <2>3. ~UserStep(t)
      BY DEF UserStep, LockAcquire, LockRelease, SemaphoreDec, SemaphoreInc,
        CreateThread, Call, Exit
    <2>4. CASE KernelStep(t)
      <3>1. DecBlock(t) \/ Depart(t)
        BY <2>4 DEF KernelStep, SaveLevel, Cli, RestoreLevel, StoreLevel,
          DecLoad, DecTake, DecWait, SetHolder, IncAdd, IncWake, Allocate,
          LoadTid, StoreTid, Unblock
      <3> QED
        BY <3>1 DEF DecBlock, Depart, At, Undisturbed, CriticalAtomic, Critical
    <2>5. CASE StubStep(t)
      <3>1. DeferYield(t)
        BY <2>5 DEF StubStep, HandlerInc, DeferNone, Resume, LeaveStub
      <3> QED
        BY <3>1 DEF DeferYield, Undisturbed, StubSound
    <2> QED
      BY <2>2, <2>3, <2>4, <2>5
  <1> HIDE DEF Inv
  <1> QED
    BY <1>1, <1>2, <1>3, PTL DEF Spec, SwitchesWithInterruptsOff

(***************************************************************************)
(* Locks.  Only DecTake and IncAdd move the unit of a lock, and each moves *)
(* it by the value it finds: everything else keeps the owners.             *)
(***************************************************************************)
Exclusive == MutualExclusion /\ ReleaseSound /\ HolderIsOwner

(* At boot no lock is owned. *)
LEMMA InitExclusive == Init => Exclusive
  <1> SUFFICES ASSUME Init PROVE Exclusive
    OBVIOUS
  <1> USE Distinct, ThreadAssumption
  <1>1. \A t \in Thread, l \in Lock : ~Owns(t, l)
    BY DEF Init, Owns
  <1>2. \A l \in Lock : value[l] = 1 /\ holder[l] = None
    BY DEF Init, Sema
  <1>3. \A t \in Thread : held[t] = {} /\ fn[t] = "start_thread"
    BY DEF Init
  <1> QED
    BY <1>1, <1>2, <1>3 DEF Exclusive, MutualExclusion, ReleaseSound,
      HolderIsOwner

Releasing(t) == fn[t] = "lock_release" /\ pc[t] \in {"save", "cli", "critical"}

(* A step that leaves locks, holders and owners alone keeps Exclusive. *)
LEMMA OwnersKept ==
  ASSUME Typed, Exclusive,
         \A u \in Thread, l \in Lock : Owns(u, l)' <=> Owns(u, l),
         \A l \in Lock : value'[l] = value[l],
         holder' = holder, held' = held,
         \A u \in Thread : Releasing(u)' => Releasing(u) /\ obj'[u] = obj[u]
  PROVE  Exclusive'
  <1>1. MutualExclusion'
    <2>1. ASSUME NEW l \in Lock
          PROVE  /\ \A t, u \in Thread : Owns(t, l)' /\ Owns(u, l)' => t = u
                 /\ (\E t \in Thread : Owns(t, l)') <=> \E t \in Thread : Owns(t, l)
      BY DEF Exclusive, MutualExclusion
    <2> QED
      BY <2>1 DEF Exclusive, MutualExclusion
  <1>2. ReleaseSound'
    BY DEF Exclusive, ReleaseSound, Releasing
  <1>3. HolderIsOwner'
    BY DEF Exclusive, HolderIsOwner
  <1> QED
    BY <1>1, <1>2, <1>3 DEF Exclusive

(* A step of t between places of the same meaning for ownership keeps     *)
(* Exclusive.                                                              *)
LEMMA MoveExclusive ==
  ASSUME Typed, Exclusive, NEW t \in Thread, NEW p \in Place,
         pc' = [pc EXCEPT ![t] = p],
         UNCHANGED <<value, holder, held>>,
         UNCHANGED <<fn, obj>>,
         fn[t] = "lock_release" =>
           (pc[t] \in {"save", "cli", "critical"} <=> p \in {"save", "cli", "critical"}),
         fn[t] = "lock_acquire" =>
           (pc[t] \in {"restore", "store", "hold"} <=> p \in {"restore", "store", "hold"})
  PROVE  Exclusive'
  <1>1. \A u \in Thread, l \in Lock : Owns(u, l)' <=> Owns(u, l)
    BY DEF Owns, Typed, TypeOK
  <1>2. \A u \in Thread : Releasing(u)' => Releasing(u) /\ obj'[u] = obj[u]
    BY DEF Releasing, Typed, TypeOK
  <1> QED
    BY <1>1, <1>2, OwnersKept

(* Client code keeps Exclusive: lock_acquire takes nothing yet, and          *)
(* lock_release has cleared the holder of what it is about to give back.    *)
LEMMA CallExclusive ==
  ASSUME Typed, Exclusive, NEW t \in Thread, UserStep(t)
  PROVE  Exclusive'
  <1>1. ASSUME NEW f \in {"lock_acquire", "semaphore_dec", "semaphore_inc"},
               NEW o, Call(t, f, o)
        PROVE  Exclusive'
    <2>1. /\ fn' = [fn EXCEPT ![t] = f] /\ obj' = [obj EXCEPT ![t] = o]
          /\ pc[t] = "client" /\ pc' = [pc EXCEPT ![t] = "save"]
          /\ UNCHANGED <<value, holder, held>>
      BY <1>1 DEF Call, At, Enter, Goto, synch
    <2>2. \A u \in Thread, l \in Lock : Owns(u, l)' <=> Owns(u, l)
      BY <2>1 DEF Owns, Typed, TypeOK
    <2>3. \A u \in Thread : Releasing(u)' => Releasing(u) /\ obj'[u] = obj[u]
      BY <2>1 DEF Releasing, Typed, TypeOK
    <2> QED
      BY <2>1, <2>2, <2>3, OwnersKept
  <1>2. ASSUME NEW l \in Lock, LockRelease(t, l) PROVE Exclusive'
    <2>1. /\ fn' = [fn EXCEPT ![t] = "lock_release"]
          /\ obj' = [obj EXCEPT ![t] = l] /\ pc[t] = "client"
          /\ pc' = [pc EXCEPT ![t] = "save"] /\ value' = value
          /\ holder' = [holder EXCEPT ![l] = None]
          /\ l \in held[t] /\ held' = [held EXCEPT ![t] = @ \ {l}]
      BY <1>2 DEF LockRelease, At, Enter, Goto
    <2>2. \A u \in Thread, k \in Lock : Owns(u, k)' <=> Owns(u, k)
      BY <2>1 DEF Owns, Typed, TypeOK
    <2>3. MutualExclusion'
      BY <2>1, <2>2 DEF Exclusive, MutualExclusion
    <2>4. ReleaseSound'
      BY <2>1 DEF Exclusive, ReleaseSound, Typed, TypeOK, FunctionMatches
    <2>5. HolderIsOwner'
      <3> SUFFICES ASSUME NEW k \in Lock, NEW u \in Thread
                   PROVE  /\ holder'[k] = u => Owns(u, k)'
                          /\ k \in held'[u] => holder'[k] = u
        BY DEF HolderIsOwner
      <3>1. CASE k = l
        <4>1. holder'[k] = None /\ None \notin Thread
          BY <2>1, <3>1, ThreadAssumption DEF Typed, TypeOK
        <4>2. k \notin held'[u]
          BY <2>1, <3>1 DEF Exclusive, MutualExclusion, Owns, Typed, TypeOK
        <4> QED
          BY <4>1, <4>2
      <3>2. CASE k # l
        BY <2>1, <2>2, <3>2 DEF Exclusive, HolderIsOwner, Typed, TypeOK
      <3> QED
        BY <3>1, <3>2
    <2> QED
      BY <2>3, <2>4, <2>5 DEF Exclusive
  <1>3. CASE Exit(t)
    <2>1. /\ pc[t] = "client" /\ pc' = [pc EXCEPT ![t] = "exit"]
          /\ UNCHANGED <<value, holder, held>> /\ UNCHANGED <<fn, obj>>
      BY <1>3 DEF Exit, At, Goto, synch, user
    <2> QED
      BY <2>1, MoveExclusive DEF Place
  <1> QED
    BY <1>1, <1>2, <1>3 DEF UserStep, LockAcquire, SemaphoreDec, SemaphoreInc,
      CreateThread

(* A step inside an API function keeps Exclusive: the unit is taken and     *)
(* given back together with the value, and the holder is set by the owner.  *)
LEMMA KernelExclusive ==
  ASSUME Typed, Undisturbed, Exclusive, NEW t \in Thread, KernelStep(t)
  PROVE  Exclusive'
  <1> USE DEF At, Goto, Place
  <1>1. CASE SaveLevel(t)
    BY <1>1, MoveExclusive DEF SaveLevel, synch, user
  <1>2. CASE Cli(t)
    BY <1>2, MoveExclusive DEF Cli, synch, user
  <1>3. CASE DecLoad(t)
    BY <1>3, MoveExclusive DEF DecLoad, synch, user
  <1>4. CASE DecWait(t)
    BY <1>4, MoveExclusive DEF DecWait, user
  <1>5. CASE DecBlock(t)
    BY <1>5, MoveExclusive DEF DecBlock, synch, user
  <1>6. CASE IncWake(t)
    <2>1. fn[t] \in {"lock_release", "semaphore_inc"}
      BY <1>6 DEF IncWake, Typed, FunctionMatches
    <2> QED
      BY <1>6, <2>1, MoveExclusive DEF IncWake, user
  <1>7. CASE LoadTid(t)
    BY <1>7, MoveExclusive DEF LoadTid, synch, user
  <1>8. CASE Unblock(t)
    BY <1>8, MoveExclusive DEF Unblock, synch, user
  <1>9. CASE RestoreLevel(t)
    <2>1. \E p \in {"store", "client", "hold"} :
            /\ pc' = [pc EXCEPT ![t] = p]
            /\ fn[t] = "lock_acquire" => p # "client"
      BY <1>9 DEF RestoreLevel, Return
    <2>2. /\ UNCHANGED <<value, holder, held>> /\ UNCHANGED <<fn, obj>>
          /\ pc[t] = "restore"
      BY <1>9 DEF RestoreLevel, Return, synch, user
    <2> QED
      BY <2>1, <2>2, MoveExclusive
  <1>10. CASE StoreLevel(t)
    BY <1>10, MoveExclusive DEF StoreLevel, Return, synch
  <1>11. CASE Depart(t)
    <2>1. pc' = [pc EXCEPT ![t] = "exit"] /\ pc[t] = "exit"
      BY <1>11 DEF Depart, frame, Typed, TypeOK
    <2> QED
      BY <1>11, <2>1, MoveExclusive DEF Depart, frame, synch, user
  <1>12. CASE Allocate(t)
    <2>1. pc' = [pc EXCEPT ![t] = "client"] /\ pc[t] = "client"
      BY <1>12 DEF Allocate, frame, Typed, TypeOK
    <2> QED
      BY <1>12, <2>1, MoveExclusive DEF Allocate, frame, synch, user
  <1>13. CASE StoreTid(t)
    <2>1. /\ fn' = [fn EXCEPT ![t] = "thread_unblock"]
          /\ obj' = [obj EXCEPT ![t] = making[t]]
          /\ pc[t] = "tid" /\ pc' = [pc EXCEPT ![t] = "save"]
          /\ UNCHANGED <<value, holder, held>>
      BY <1>13 DEF StoreTid, Enter, synch, user
    <2>2. \A u \in Thread, l \in Lock : Owns(u, l)' <=> Owns(u, l)
      BY <2>1 DEF Owns, Typed, TypeOK
    <2>3. \A u \in Thread : Releasing(u)' => Releasing(u) /\ obj'[u] = obj[u]
      BY <2>1 DEF Releasing, Typed, TypeOK
    <2> QED
      BY <2>1, <2>2, <2>3, OwnersKept
  <1>14. CASE DecTake(t)
    <2>0. PICK s \in Sema \cup Thread : s = obj[t]
      BY DEF Typed, TypeOK
    <2> USE <2>0
    <2>1. /\ pc[t] = "test" /\ val[t] = value[s] /\ val[t] # 0
          /\ value' = [value EXCEPT ![s] = val[t] - 1]
          /\ pc' = [pc EXCEPT ![t] = "restore"]
          /\ UNCHANGED <<holder, held>> /\ UNCHANGED <<fn, obj>>
      BY <1>14 DEF DecTake, user, Undisturbed, CopyCurrent
    <2>2. CASE fn[t] = "lock_acquire"
      <3>1. s \in Lock /\ s \in Sema
        BY <2>2, Distinct DEF Typed, FunctionMatches
      <3>2. value[s] = 1 /\ \A u \in Thread : ~Owns(u, s)
        BY <2>1, <3>1 DEF Exclusive, MutualExclusion
      <3>3. /\ value'[s] = 0
            /\ \A l \in Lock : l # s => value'[l] = value[l]
        BY <2>1, <3>1, <3>2, Distinct DEF Typed, TypeOK
      <3>4. /\ Owns(t, s)'
            /\ \A u \in Thread : u # t => ~Owns(u, s)'
            /\ \A u \in Thread, l \in Lock : l # s => (Owns(u, l)' <=> Owns(u, l))
        BY <2>1, <2>2, <3>2 DEF Owns, Typed, TypeOK
      <3>5. MutualExclusion'
        <4> SUFFICES ASSUME NEW l \in Lock
                     PROVE  /\ \A u, v \in Thread : Owns(u, l)' /\ Owns(v, l)' => u = v
                            /\ value'[l] = IF \E u \in Thread : Owns(u, l)'
                                            THEN 0 ELSE 1
          BY DEF MutualExclusion
        <4>1. CASE l = s
          BY <3>3, <3>4, <4>1
        <4>2. CASE l # s
          <5>1. (\E u \in Thread : Owns(u, l)') <=> \E u \in Thread : Owns(u, l)
            BY <3>3, <3>4, <4>2
          <5>2. /\ \A u, v \in Thread : Owns(u, l) /\ Owns(v, l) => u = v
                /\ value[l] = IF \E u \in Thread : Owns(u, l) THEN 0 ELSE 1
            BY DEF Exclusive, MutualExclusion
          <5>3. \A u, v \in Thread : Owns(u, l)' /\ Owns(v, l)' => u = v
            BY <3>3, <3>4, <4>2, <5>2
          <5>4. value'[l] = value[l]
            BY <3>3, <3>4, <4>2
          <5> QED
            BY <5>1, <5>2, <5>3, <5>4
        <4> QED
          BY <4>1, <4>2
      <3>6. ReleaseSound'
        BY <2>1 DEF Exclusive, ReleaseSound, Typed, TypeOK
      <3>7. HolderIsOwner'
        <4> SUFFICES ASSUME NEW l \in Lock, NEW u \in Thread
                     PROVE  /\ holder[l] = u => Owns(u, l)'
                            /\ l \in held[u] => holder[l] = u
          BY <2>1 DEF HolderIsOwner
        <4>1. holder[l] = u => Owns(u, l) /\ l # s
          BY <3>2 DEF Exclusive, HolderIsOwner
        <4> QED
          BY <3>4, <4>1 DEF Exclusive, HolderIsOwner
      <3> QED
        BY <3>5, <3>6, <3>7 DEF Exclusive
    <2>3. CASE fn[t] # "lock_acquire"
      <3>1. fn[t] = "semaphore_dec" /\ s \in Counter
        BY <2>1, <2>3 DEF Typed, FunctionMatches
      <3>2. \A l \in Lock : value'[l] = value[l]
        BY <2>1, <3>1, SemaAssumption, Distinct DEF Typed, TypeOK
      <3>3. \A u \in Thread, l \in Lock : Owns(u, l)' <=> Owns(u, l)
        BY <2>1, <3>1 DEF Owns, Typed, TypeOK
      <3>4. \A u \in Thread : Releasing(u)' => Releasing(u) /\ obj'[u] = obj[u]
        BY <2>1, <3>1 DEF Releasing, Typed, TypeOK
      <3> QED
        BY <2>1, <3>2, <3>3, <3>4, OwnersKept
    <2> QED
      BY <2>2, <2>3
  <1>15. CASE IncAdd(t)
    <2>0. PICK s \in Sema \cup Thread : s = obj[t]
      BY DEF Typed, TypeOK
    <2> USE <2>0
    <2>1. /\ pc[t] = "critical" /\ fn[t] \in {"lock_release", "semaphore_inc"}
          /\ value' = [value EXCEPT ![s] = @ + 1]
          /\ pc' = [pc EXCEPT ![t] = "wake"]
          /\ UNCHANGED <<holder, held>> /\ UNCHANGED <<fn, obj>>
      BY <1>15 DEF IncAdd, user
    <2>2. CASE fn[t] = "lock_release"
      <3>1. s \in Lock /\ s \in Sema /\ s \notin held[t] /\ holder[s] = None
        BY <2>1, <2>2, Distinct DEF Typed, FunctionMatches, Exclusive, ReleaseSound
      <3>2. Owns(t, s)
        BY <2>1, <2>2 DEF Owns
      <3>3. value[s] = 0 /\ \A u \in Thread : Owns(u, s) => u = t
        BY <3>1, <3>2 DEF Exclusive, MutualExclusion
      <3>4. /\ value'[s] = 1
            /\ \A l \in Lock : l # s => value'[l] = value[l]
        BY <2>1, <3>1, <3>3, Distinct DEF Typed, TypeOK
      <3>5. /\ \A u \in Thread : ~Owns(u, s)'
            /\ \A u \in Thread, l \in Lock : l # s => (Owns(u, l)' <=> Owns(u, l))
        BY <2>1, <2>2, <3>1, <3>3 DEF Owns, Typed, TypeOK
      <3>6. MutualExclusion'
        <4> SUFFICES ASSUME NEW l \in Lock
                     PROVE  /\ \A u, v \in Thread : Owns(u, l)' /\ Owns(v, l)' => u = v
                            /\ value'[l] = IF \E u \in Thread : Owns(u, l)'
                                            THEN 0 ELSE 1
          BY DEF MutualExclusion
        <4>1. CASE l = s
          BY <3>4, <3>5, <4>1
        <4>2. CASE l # s
          <5>1. (\E u \in Thread : Owns(u, l)') <=> \E u \in Thread : Owns(u, l)
            BY <3>4, <3>5, <4>2
          <5>2. /\ \A u, v \in Thread : Owns(u, l) /\ Owns(v, l) => u = v
                /\ value[l] = IF \E u \in Thread : Owns(u, l) THEN 0 ELSE 1
            BY DEF Exclusive, MutualExclusion
          <5>3. \A u, v \in Thread : Owns(u, l)' /\ Owns(v, l)' => u = v
            BY <3>4, <3>5, <4>2, <5>2
          <5>4. value'[l] = value[l]
            BY <3>4, <3>5, <4>2
          <5> QED
            BY <5>1, <5>2, <5>3, <5>4
        <4> QED
          BY <4>1, <4>2
      <3>7. ReleaseSound'
        BY <2>1 DEF Exclusive, ReleaseSound, Typed, TypeOK
      <3>8. HolderIsOwner'
        <4> SUFFICES ASSUME NEW l \in Lock, NEW u \in Thread
                     PROVE  /\ holder[l] = u => Owns(u, l)'
                            /\ l \in held[u] => holder[l] = u
          BY <2>1 DEF HolderIsOwner
        <4>1. holder[l] = u => Owns(u, l) /\ l # s
          BY <3>1, ThreadAssumption DEF Exclusive, HolderIsOwner
        <4> QED
          BY <3>5, <4>1 DEF Exclusive, HolderIsOwner
      <3> QED
        BY <3>6, <3>7, <3>8 DEF Exclusive
    <2>3. CASE fn[t] = "semaphore_inc"
      <3>1. s \in Counter
        BY <2>3 DEF Typed, FunctionMatches
      <3>2. \A l \in Lock : value'[l] = value[l]
        BY <2>1, <3>1, SemaAssumption, Distinct DEF Typed, TypeOK
      <3>3. \A u \in Thread, l \in Lock : Owns(u, l)' <=> Owns(u, l)
        BY <2>1, <2>3 DEF Owns, Typed, TypeOK
      <3>4. \A u \in Thread : Releasing(u)' => Releasing(u) /\ obj'[u] = obj[u]
        BY <2>1, <2>3 DEF Releasing, Typed, TypeOK
      <3> QED
        BY <2>1, <3>2, <3>3, <3>4, OwnersKept
    <2> QED
      BY <2>1, <2>2, <2>3
  <1>16. CASE SetHolder(t)
    <2>0. PICK l \in Sema \cup Thread : l = obj[t]
      BY DEF Typed, TypeOK
    <2> USE <2>0
    <2>1. /\ pc[t] = "hold" /\ running = t
          /\ holder' = [holder EXCEPT ![l] = t]
          /\ held' = [held EXCEPT ![t] = @ \cup {l}]
          /\ pc' = [pc EXCEPT ![t] = "client"]
          /\ UNCHANGED value /\ UNCHANGED <<fn, obj>>
      BY <1>16 DEF SetHolder
    <2>2. fn[t] = "lock_acquire" /\ l \in Lock
      BY <2>1 DEF Typed, FunctionMatches
    <2>3. Owns(t, l)
      BY <2>1, <2>2 DEF Owns
    <2>4. \A u \in Thread, k \in Lock : Owns(u, k)' <=> Owns(u, k)
      BY <2>1, <2>2 DEF Owns, Typed, TypeOK
    <2>5. MutualExclusion'
      BY <2>1, <2>4 DEF Exclusive, MutualExclusion
    <2>6. \A u \in Thread : Owns(u, l) => u = t
      BY <2>2, <2>3 DEF Exclusive, MutualExclusion
    <2>7. ReleaseSound'
      <3> SUFFICES ASSUME NEW u \in Thread, Releasing(u)'
                   PROVE  obj[u] \notin held'[u] /\ holder'[obj[u]] = None
        BY <2>1 DEF ReleaseSound, Releasing
      <3>1. u # t /\ Releasing(u)
        BY <2>1 DEF Releasing, Typed, TypeOK
      <3>2. obj[u] # l
        BY <2>6, <3>1 DEF Releasing, Owns
      <3> QED
        BY <2>1, <3>1, <3>2 DEF Exclusive, ReleaseSound, Releasing, Typed, TypeOK
    <2>8. HolderIsOwner'
      BY <2>1, <2>2, <2>3, <2>4, <2>6 DEF Exclusive, HolderIsOwner, Owns, Typed,
        TypeOK
    <2> QED
      BY <2>5, <2>7, <2>8 DEF Exclusive
  <1> QED
    BY <1>1, <1>2, <1>3, <1>4, <1>5, <1>6, <1>7, <1>8, <1>9, <1>10, <1>11,
       <1>12, <1>13, <1>14, <1>15, <1>16 DEF KernelStep

(* So does every step. *)
LEMMA NextExclusive ==
  Typed /\ Undisturbed /\ Exclusive /\ [Next]_vars => Exclusive'
  <1> SUFFICES ASSUME Typed, Undisturbed, Exclusive, [Next]_vars
               PROVE  Exclusive'
    OBVIOUS
  <1>1. ASSUME UNCHANGED <<fn, pc, obj, holder, held>>,
               \A l \in Lock : value'[l] = value[l]
        PROVE  Exclusive'
    BY <1>1, OwnersKept DEF Owns, Releasing
  <1>2. ASSUME NEW t \in Thread, StubStep(t) PROVE Exclusive'
    <2>1. UNCHANGED <<fn, pc, obj, holder, held>>
      BY <1>2 DEF StubStep, HandlerInc, DeferNone, Resume, LeaveStub, DeferYield,
        frame, user, synch
    <2>2. \A l \in Lock : value'[l] = value[l]
      BY <1>2, SemaAssumption, Distinct DEF StubStep, HandlerInc, DeferNone,
        Resume, LeaveStub, DeferYield, synch, Typed, TypeOK
    <2> QED
      BY <1>1, <2>1, <2>2
  <1>3. CASE Interrupt \/ UNCHANGED vars
    BY <1>1, <1>3 DEF Interrupt, vars, frame, user, synch
  <1> QED
    BY <1>2, <1>3, CallExclusive, KernelExclusive DEF Next

(* The three groups together are inductive. *)
LEMMA Locks == Spec => [](Typed /\ Undisturbed /\ Exclusive)
  <1> DEFINE Inv == Typed /\ Undisturbed /\ Exclusive
  <1>1. Init => Inv
    BY InitTyped, InitUndisturbed, InitExclusive
  <1>2. Inv /\ [Next]_vars => Inv'
    BY NextTyped, NextUndisturbed, NextExclusive
  <1> HIDE DEF Inv
  <1>3. Spec => []Inv
    BY <1>1, <1>2, PTL DEF Spec
  <1> QED
    BY <1>3 DEF Inv

(* lock_acquire and lock_release exclude each other's callers, and the      *)
(* value of a lock's semaphore says whether it has an owner.               *)
THEOREM Exclusion == Spec => []MutualExclusion
  <1>1. Typed /\ Undisturbed /\ Exclusive => MutualExclusion
    BY DEF Exclusive
  <1> QED
    BY <1>1, Locks, PTL

(* The two stores to lock.holder outside the critical sections never leave  *)
(* a thread there that is not the owner.                                    *)
THEOREM HolderIdentity == Spec => []HolderIsOwner
  <1>1. Typed /\ Undisturbed /\ Exclusive => HolderIsOwner
    BY DEF Exclusive
  <1> QED
    BY <1>1, Locks, PTL

(***************************************************************************)
(* The abstract locks and counters of Synch.                               *)
(***************************************************************************)

SameOwners == \A u \in Thread, l \in Lock : Owns(u, l)' <=> Owns(u, l)
SameCounts == \A c \in Counter : value'[c] = value[c]
OtherCounts(c) == \A d \in Counter \ {c} : value'[d] = value[d]
OtherOwners(l) ==
  \A u \in Thread, k \in Lock : k # l => (Owns(u, k)' <=> Owns(u, k))

(* the five things a step can do to locks and counters *)
Stutters == SameOwners /\ SameCounts
Ups == \E c \in Counter : /\ SameOwners /\ OtherCounts(c)
                          /\ value'[c] = value[c] + 1
Downs == \E c \in Counter : /\ SameOwners /\ OtherCounts(c)
                            /\ value[c] > 0 /\ value'[c] = value[c] - 1
Acquires ==
  \E t \in Thread, l \in Lock :
    /\ SameCounts /\ OtherOwners(l)
    /\ \A u \in Thread : ~Owns(u, l) /\ (Owns(u, l)' <=> u = t)
Releases ==
  \E t \in Thread, l \in Lock :
    /\ SameCounts /\ OtherOwners(l)
    /\ Owns(t, l) /\ \A u \in Thread : ~Owns(u, l)'

(* What client code does with locks is not yet, or no longer, ownership. *)
LEMMA CallStutters ==
  ASSUME Typed, NEW t \in Thread, UserStep(t)
  PROVE  Stutters
  <1>1. ASSUME NEW f \in {"lock_acquire", "semaphore_dec", "semaphore_inc"},
               NEW o, Call(t, f, o)
        PROVE  Stutters
    BY <1>1 DEF Call, At, Enter, Goto, synch, Stutters, SameOwners, SameCounts,
      Owns, Typed, TypeOK
  <1>2. ASSUME NEW l \in Lock, LockRelease(t, l) PROVE Stutters
    BY <1>2 DEF LockRelease, At, Enter, Goto, Stutters, SameOwners, SameCounts,
      Owns, Typed, TypeOK
  <1>3. CASE Exit(t)
    BY <1>3 DEF Exit, At, Goto, synch, user, Stutters, SameOwners, SameCounts,
      Owns, Typed, TypeOK
  <1> QED
    BY <1>1, <1>2, <1>3 DEF UserStep, LockAcquire, SemaphoreDec, SemaphoreInc,
      CreateThread

(* DecTake is the only step that takes a unit, and takes one there is. *)
LEMMA TakeMoves ==
  ASSUME Typed, Undisturbed, Exclusive, NEW t \in Thread, DecTake(t)
  PROVE  Acquires \/ Downs
  <1>1. PICK s \in Sema : obj[t] = s
    BY Distinct DEF DecTake, At, Typed, FunctionMatches
  <1>2. /\ pc[t] = "test" /\ val[t] = value[s] /\ val[t] # 0
        /\ value' = [value EXCEPT ![s] = val[t] - 1]
        /\ pc' = [pc EXCEPT ![t] = "restore"]
        /\ UNCHANGED held /\ UNCHANGED <<fn, obj>>
    BY <1>1 DEF DecTake, At, Goto, user, Undisturbed, CopyCurrent
  <1>3. CASE fn[t] = "lock_acquire"
    <2>1. s \in Lock /\ \A u \in Thread : ~Owns(u, s)
      BY <1>1, <1>2, <1>3 DEF Exclusive, MutualExclusion, Typed, FunctionMatches
    <2>2. SameCounts
      BY <1>2, <2>1, SemaAssumption, Distinct DEF SameCounts, Typed, TypeOK
    <2>3. \A u \in Thread : Owns(u, s)' <=> u = t
      BY <1>1, <1>2, <1>3, <2>1 DEF Owns, Typed, TypeOK
    <2>4. OtherOwners(s)
      BY <1>1, <1>2, <1>3 DEF OtherOwners, Owns, Typed, TypeOK
    <2> QED
      BY <2>1, <2>2, <2>3, <2>4 DEF Acquires
  <1>4. CASE fn[t] # "lock_acquire"
    <2>1. s \in Counter
      BY <1>1, <1>2, <1>4 DEF Typed, FunctionMatches
    <2>2. /\ OtherCounts(s) /\ value[s] > 0 /\ value'[s] = value[s] - 1
      BY <1>2, <2>1, Distinct DEF OtherCounts, Typed, TypeOK
    <2>3. SameOwners
      BY <1>2, <1>4 DEF SameOwners, Owns, Typed, TypeOK
    <2> QED
      BY <2>1, <2>2, <2>3 DEF Downs
  <1> QED
    BY <1>3, <1>4

(* IncAdd is the only step of a thread that gives a unit back. *)
LEMMA GiveMoves ==
  ASSUME Typed, Undisturbed, Exclusive, NEW t \in Thread, IncAdd(t)
  PROVE  Releases \/ Ups
  <1>1. PICK s \in Sema : obj[t] = s
    BY Distinct DEF IncAdd, At, Typed, FunctionMatches
  <1>2. /\ pc[t] = "critical" /\ fn[t] \in {"lock_release", "semaphore_inc"}
        /\ value' = [value EXCEPT ![s] = @ + 1]
        /\ pc' = [pc EXCEPT ![t] = "wake"]
        /\ UNCHANGED held /\ UNCHANGED <<fn, obj>>
    BY <1>1 DEF IncAdd, At, Goto, user
  <1>3. CASE fn[t] = "lock_release"
    <2>1. s \in Lock /\ Owns(t, s) /\ s \notin held[t]
      BY <1>1, <1>2, <1>3 DEF Owns, Exclusive, ReleaseSound, Typed, FunctionMatches
    <2>2. \A u \in Thread : Owns(u, s) => u = t
      BY <2>1 DEF Exclusive, MutualExclusion
    <2>3. SameCounts
      BY <1>2, <2>1, SemaAssumption, Distinct DEF SameCounts, Typed, TypeOK
    <2>4. \A u \in Thread : ~Owns(u, s)'
      BY <1>1, <1>2, <1>3, <2>1, <2>2 DEF Owns, Typed, TypeOK
    <2>5. OtherOwners(s)
      BY <1>1, <1>2, <1>3 DEF OtherOwners, Owns, Typed, TypeOK
    <2> QED
      BY <2>1, <2>3, <2>4, <2>5 DEF Releases
  <1>4. CASE fn[t] = "semaphore_inc"
    <2>1. s \in Counter
      BY <1>1, <1>4 DEF Typed, FunctionMatches
    <2>2. OtherCounts(s) /\ value'[s] = value[s] + 1
      BY <1>2, <2>1, Distinct DEF OtherCounts, Typed, TypeOK
    <2>3. SameOwners
      BY <1>2, <1>4 DEF SameOwners, Owns, Typed, TypeOK
    <2> QED
      BY <2>1, <2>2, <2>3 DEF Ups
  <1> QED
    BY <1>2, <1>3, <1>4

(* The other steps inside the API move no unit. *)
LEMMA KernelStutters ==
  ASSUME Typed, Undisturbed, Exclusive, NEW t \in Thread, KernelStep(t),
         ~DecTake(t), ~IncAdd(t)
  PROVE  Stutters
  <1> USE DEF At, Goto, synch, user, Stutters, SameOwners, SameCounts, Owns, Typed,
        TypeOK
  <1>1. CASE SaveLevel(t)
    BY <1>1 DEF SaveLevel
  <1>2. CASE Cli(t)
    BY <1>2 DEF Cli
  <1>3. CASE RestoreLevel(t)
    BY <1>3 DEF RestoreLevel, Return
  <1>4. CASE StoreLevel(t)
    BY <1>4 DEF StoreLevel, Return
  <1>5. CASE DecLoad(t)
    BY <1>5 DEF DecLoad
  <1>6. CASE DecWait(t)
    BY <1>6 DEF DecWait
  <1>7. CASE DecBlock(t)
    BY <1>7 DEF DecBlock
  <1>8. CASE SetHolder(t)
    BY <1>8 DEF SetHolder, FunctionMatches
  <1>9. CASE IncWake(t)
    BY <1>9 DEF IncWake, FunctionMatches
  <1>10. CASE Allocate(t) \/ Depart(t)
    BY <1>10 DEF Allocate, Depart, frame
  <1>11. CASE LoadTid(t)
    BY <1>11 DEF LoadTid
  <1>12. CASE StoreTid(t)
    BY <1>12 DEF StoreTid, Enter
  <1>13. CASE Unblock(t)
    BY <1>13 DEF Unblock
  <1> QED
    BY <1>1, <1>2, <1>3, <1>4, <1>5, <1>6, <1>7, <1>8, <1>9, <1>10, <1>11, <1>12,
       <1>13 DEF KernelStep

(* So every step does one of the five things. *)
LEMMA NextMoves ==
  Typed /\ Undisturbed /\ Exclusive /\ [Next]_vars =>
    Stutters \/ Ups \/ Downs \/ Acquires \/ Releases
  <1> SUFFICES ASSUME Typed, Undisturbed, Exclusive, [Next]_vars
               PROVE  Stutters \/ Ups \/ Downs \/ Acquires \/ Releases
    OBVIOUS
  <1>1. ASSUME NEW t \in Thread, NEW s \in IsrSema, HandlerInc(t, s) PROVE Ups
    <2>1. /\ s \in Counter /\ value' = [value EXCEPT ![s] = @ + 1]
          /\ UNCHANGED <<fn, pc, obj, held>>
      BY <1>1, SemaAssumption DEF HandlerInc, frame, user
    <2>2. SameOwners
      BY <2>1 DEF SameOwners, Owns
    <2>3. OtherCounts(s) /\ value'[s] = value[s] + 1
      BY <2>1, Distinct DEF OtherCounts, Typed, TypeOK
    <2> QED
      BY <2>1, <2>2, <2>3 DEF Ups
  <1>2. ASSUME UNCHANGED <<fn, pc, obj, held>>, UNCHANGED value PROVE Stutters
    BY <1>2 DEF Stutters, SameOwners, SameCounts, Owns
  <1>3. ASSUME NEW t \in Thread, LeaveStub(t) \/ DeferYield(t) PROVE Stutters
    BY <1>2, <1>3 DEF LeaveStub, DeferYield, synch, frame, user
  <1>4. CASE Interrupt \/ UNCHANGED vars
    BY <1>2, <1>4 DEF Interrupt, vars, synch, frame, user
  <1> QED
    BY <1>1, <1>3, <1>4, CallStutters, TakeMoves, GiveMoves, KernelStutters
    DEF Next, StubStep, DeferNone, Resume

(* Threads implements Synch: for its callers, a lock is free or has one     *)
(* owner, and a counter counts, whatever interrupts and switches there are. *)
THEOREM Refinement == Spec => KeepsPromise
  <1> DEFINE Inv == Typed /\ Undisturbed /\ Exclusive
             count == [s \in Counter |-> value[s]]
             owner == [l \in Lock |-> OwnerOf(l)]
  <1>1. Init => Promise!Init
    <2> SUFFICES ASSUME Init PROVE Promise!Init
      OBVIOUS
    <2>1. count = InitialCount
      BY SemaAssumption DEF Init, Sema
    <2>2. \A l \in Lock : OwnerOf(l) = None
      BY DEF Init, OwnerOf, Owns
    <2> QED
      BY <2>1, <2>2 DEF Promise!Init
  <1>2. Inv /\ Inv' /\ [Next]_vars => [Promise!Next]_<<count, owner>>
    <2> SUFFICES ASSUME Inv, Inv', [Next]_vars
                 PROVE  [Promise!Next]_<<count, owner>>
      OBVIOUS
    <2>1. ASSUME NEW l \in Lock, NEW t \in Thread, Owns(t, l) PROVE OwnerOf(l) = t
      BY <2>1 DEF Exclusive, MutualExclusion, OwnerOf
    <2>2. ASSUME NEW l \in Lock, NEW t \in Thread, Owns(t, l)' PROVE OwnerOf(l)' = t
      BY <2>2 DEF Exclusive, MutualExclusion, OwnerOf
    <2>3. ASSUME NEW l \in Lock, \A t \in Thread : ~Owns(t, l) PROVE OwnerOf(l) = None
      BY <2>3 DEF OwnerOf
    <2>4. ASSUME NEW l \in Lock, \A t \in Thread : ~Owns(t, l)'
          PROVE  OwnerOf(l)' = None
      BY <2>4 DEF OwnerOf
    <2>5. ASSUME NEW l \in Lock, \A t \in Thread : Owns(t, l)' <=> Owns(t, l)
          PROVE  OwnerOf(l)' = OwnerOf(l)
      BY <2>1, <2>2, <2>3, <2>4, <2>5
    <2> HIDE DEF Inv
    <2>6. SameOwners => owner' = owner
      BY <2>5 DEF SameOwners
    <2>7. SameCounts => count' = count
      BY DEF SameCounts
    <2>8. ASSUME NEW l \in Lock, OtherOwners(l)
          PROVE  owner' = [owner EXCEPT ![l] = OwnerOf(l)']
      BY <2>5, <2>8 DEF OtherOwners
    <2>9. ASSUME NEW c \in Counter, OtherCounts(c)
          PROVE  count' = [count EXCEPT ![c] = value'[c]]
      BY <2>9 DEF OtherCounts
    <2>10. CASE Stutters
      BY <2>6, <2>7, <2>10 DEF Stutters
    <2>11. CASE Ups
      BY <2>6, <2>9, <2>11 DEF Ups, Promise!Next, Promise!Up
    <2>12. CASE Downs
      BY <2>6, <2>9, <2>12 DEF Downs, Promise!Next, Promise!Down
    <2>13. CASE Acquires
      <3>1. PICK t \in Thread, l \in Lock :
              /\ SameCounts /\ OtherOwners(l)
              /\ \A u \in Thread : ~Owns(u, l) /\ (Owns(u, l)' <=> u = t)
        BY <2>13 DEF Acquires
      <3>2. OwnerOf(l) = None /\ OwnerOf(l)' = t
        BY <2>2, <2>3, <3>1
      <3>3. Promise!Acquire(t, l)
        BY <2>7, <2>8, <3>1, <3>2 DEF Promise!Acquire
      <3> QED
        BY <3>3 DEF Promise!Next
    <2>14. CASE Releases
      <3>1. PICK t \in Thread, l \in Lock :
              /\ SameCounts /\ OtherOwners(l)
              /\ Owns(t, l) /\ \A u \in Thread : ~Owns(u, l)'
        BY <2>14 DEF Releases
      <3>2. OwnerOf(l) = t /\ OwnerOf(l)' = None
        BY <2>1, <2>4, <3>1
      <3>3. Promise!Release(t, l)
        BY <2>7, <2>8, <3>1, <3>2 DEF Promise!Release
      <3> QED
        BY <3>3 DEF Promise!Next
    <2> QED
      BY <2>10, <2>11, <2>12, <2>13, <2>14, NextMoves DEF Inv
  <1>3. Spec => []Inv
    BY Locks
  <1> HIDE DEF Inv
  <1> QED
    BY <1>1, <1>2, <1>3, PTL DEF Spec, KeepsPromise, Promise!Spec
=============================================================================
