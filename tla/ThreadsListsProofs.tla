-------------------------- MODULE ThreadsListsProofs --------------------------
(***************************************************************************)
(* Proofs about the interrupt level, the lists and the lives of threads.   *)
(***************************************************************************)
EXTENDS ThreadsProofs, DataLemmas

(***************************************************************************)
(* The level.                                                              *)
(***************************************************************************)

(* At boot only the boot thread runs, with interrupts off. *)
LEMMA InitLevel == Init => LevelSound
  BY DEF Init, LevelSound, NeverRan, Outside

(* Client code keeps the level, and exit_thread turns interrupts off. *)
LEMMA CallLevel ==
  ASSUME Typed, Undisturbed, LevelSound, NEW t \in Thread, UserStep(t)
  PROVE  LevelSound'
  <1> USE DEF Typed, TypeOK, LevelSound, NeverRan, Outside, At
  <1>1. ASSUME NEW f, NEW o, At(t, "client"), Enter(t, f, o),
               UNCHANGED <<cpu, stub>>
        PROVE  LevelSound'
    BY <1>1 DEF Enter, Goto, cpu, stub
  <1>2. ASSUME NEW f, NEW o, Call(t, f, o) PROVE LevelSound'
    BY <1>1, <1>2 DEF Call
  <1>3. ASSUME NEW l \in Lock, LockRelease(t, l) PROVE LevelSound'
    BY <1>1, <1>3 DEF LockRelease
  <1>4. CASE Exit(t)
    BY <1>4 DEF Exit, Goto, synch, user, stub, ids
  <1> QED
    BY <1>2, <1>3, <1>4 DEF UserStep, LockAcquire, SemaphoreDec, SemaphoreInc,
      CreateThread

(* Every step inside an API function keeps the level: Cli and RestoreLevel *)
(* move IF and the place of the thread together.                           *)
LEMMA KernelLevel ==
  ASSUME Typed, Undisturbed, LevelSound, NEW t \in Thread, KernelStep(t)
  PROVE  LevelSound'
  <1> USE DEF Typed, TypeOK, At, Goto, LevelSound, NeverRan, Outside, Undisturbed,
        StubSound, CriticalAtomic, Critical
  <1>1. CASE SaveLevel(t)
    BY <1>1 DEF SaveLevel, cpu, stub
  <1>2. CASE Cli(t)
    BY <1>2 DEF Cli, stub
  <1>3. CASE RestoreLevel(t)
    <2>1. /\ running = t /\ isr[t] = "none" /\ pc[t] = "restore"
          /\ UNCHANGED <<running, inService, isr, isrOld, fn, old>>
      BY <1>3 DEF RestoreLevel, Return, stub
    <2>2. CASE t # Initial
      <3>1. iflag' = TRUE /\ pc' = [pc EXCEPT ![t] = "store"] /\ level' = level
        BY <1>3, <2>1, <2>2 DEF RestoreLevel
      <3> QED
        BY <2>1, <2>2, <3>1
    <2>3. CASE t = Initial
      <3>1. PICK p \in {"client", "hold"} : pc' = [pc EXCEPT ![t] = p]
        BY <1>3, <2>1, <2>3 DEF RestoreLevel, Return
      <3>2. iflag' = FALSE /\ level' = "DISABLED"
        BY <1>3, <2>1, <2>3 DEF RestoreLevel
      <3> QED
        BY <2>1, <2>3, <3>1, <3>2
    <2> QED
      BY <2>2, <2>3
  <1>4. CASE StoreLevel(t)
    BY <1>4, Distinct DEF StoreLevel, Return, stub
  <1>5. CASE DecLoad(t)
    BY <1>5 DEF DecLoad, cpu, stub
  <1>6. CASE DecTake(t)
    BY <1>6 DEF DecTake, cpu, stub
  <1>7. CASE DecWait(t)
    BY <1>7 DEF DecWait, cpu, stub
  <1>8. CASE DecBlock(t)
    BY <1>8 DEF DecBlock, Schedule, stub
  <1>9. CASE SetHolder(t)
    BY <1>9 DEF SetHolder, cpu, stub
  <1>10. CASE IncAdd(t)
    BY <1>10 DEF IncAdd, cpu, stub
  <1>11. CASE IncWake(t)
    BY <1>11 DEF IncWake, cpu, stub
  <1>12. CASE Allocate(t)
    BY <1>12 DEF Allocate, cpu, frame, stub
  <1>13. CASE LoadTid(t)
    BY <1>13 DEF LoadTid, cpu, stub
  <1>14. CASE StoreTid(t)
    BY <1>14 DEF StoreTid, Enter, cpu, stub
  <1>15. CASE Unblock(t)
    BY <1>15 DEF Unblock, cpu, stub
  <1>16. CASE Depart(t)
    BY <1>16 DEF Depart, Schedule, frame, stub
  <1> QED
    BY <1>1, <1>2, <1>3, <1>4, <1>5, <1>6, <1>7, <1>8, <1>9, <1>10, <1>11,
       <1>12, <1>13, <1>14, <1>15, <1>16 DEF KernelStep

(* A stub saves the level, and restores it only when it leaves. *)
LEMMA NextLevel == Typed /\ Undisturbed /\ LevelSound /\ [Next]_vars => LevelSound'
  <1> SUFFICES ASSUME Typed, Undisturbed, LevelSound, [Next]_vars PROVE LevelSound'
    OBVIOUS
  <1> USE DEF Typed, TypeOK, LevelSound, NeverRan, Outside, Undisturbed, StubSound,
        CriticalAtomic, Critical
  <1>1. CASE Interrupt
    BY <1>1 DEF Interrupt, frame
  <1>2. ASSUME NEW t \in Thread, NEW s \in IsrSema, HandlerInc(t, s)
        PROVE  LevelSound'
    BY <1>2 DEF HandlerInc, cpu, frame, stub
  <1>3. ASSUME NEW t \in Thread, isr[t] # "none", running = t, LeaveStub(t)
        PROVE  LevelSound'
    BY <1>3 DEF LeaveStub, frame
  <1>4. ASSUME NEW t \in Thread, DeferYield(t) PROVE LevelSound'
    BY <1>4, SMTT(30) DEF DeferYield, Schedule, frame
  <1>5. CASE UNCHANGED vars
    BY <1>5 DEF vars, cpu, frame, stub
  <1> QED
    BY <1>1, <1>2, <1>3, <1>4, <1>5, CallLevel, KernelLevel
    DEF Next, StubStep, DeferNone, Resume

(* Outside the critical sections the level is ENABLED and IF is set, for   *)
(* every thread but the boot thread.                                       *)
THEOREM LevelTruth == Spec => []LevelTellsTruth
  <1> DEFINE Inv == Typed /\ Undisturbed /\ LevelSound
  <1>1. Init => Inv
    BY InitTyped, InitUndisturbed, InitLevel
  <1>2. Inv /\ [Next]_vars => Inv'
    BY NextTyped, NextUndisturbed, NextLevel
  <1>3. Inv => LevelTellsTruth
    BY DEF LevelSound, LevelTellsTruth, At, Outside, Typed, TypeOK
  <1> HIDE DEF Inv
  <1> QED
    BY <1>1, <1>2, <1>3, PTL DEF Spec

(***************************************************************************)
(* The lists and the status of threads.                                    *)
(***************************************************************************)
Listed == StatusMatchesList /\ StatusSound

(* At boot the lists are empty, and nobody waits. *)
LEMMA InitListed == Init => Listed /\ MakingSound
  <1> SUFFICES ASSUME Init PROVE Listed /\ MakingSound
    OBVIOUS
  <1> USE Distinct, ThreadAssumption
  <1>1. Range(ready) = {} /\ \A s \in Sema : Range(waiters[s]) = {}
    BY EmptyList DEF Init
  <1>2. IsInjective(ready) /\ \A s \in Sema : IsInjective(waiters[s])
    BY EmptyList DEF Init
  <1>3. \A w : ~BeingMade(w) \/ w = None
    BY DEF Init, BeingMade
  <1>4. StatusMatchesList
    BY <1>1 DEF StatusMatchesList
  <1>5. StatusSound
    BY <1>1, <1>2 DEF Init, StatusSound, NeverRan
  <1>6. MakingSound
    BY <1>3 DEF Init, MakingSound
  <1> QED
    BY <1>4, <1>5, <1>6 DEF Listed

(* A step of the running thread that touches no list, no status, and moves *)
(* neither into nor out of "block" and "exit", keeps Listed.               *)
LEMMA FrameListed ==
  ASSUME Typed, Undisturbed, Listed, NEW t \in Thread, running = t,
         UNCHANGED <<running, ready, status, waiters>>,
         \A u \in Thread : u # t => fn'[u] = fn[u] /\ pc'[u] = pc[u] /\ obj'[u] = obj[u],
         pc[t] \notin {"block", "exit"}, pc'[t] \notin {"block", "exit"},
         \A w \in Thread : BeingMade(w) => BeingMade(w)'
  PROVE  Listed'
  <1>1. \A s \in Sema : t \notin Range(waiters[s])
    BY DEF Listed, StatusSound
  <1>2. StatusMatchesList'
    BY <1>1, SMTT(30) DEF Listed, StatusMatchesList, Typed, TypeOK, Range
  <1>3. \A s \in Sema : \A u \in Range(waiters[s]) : u \in Thread /\ u # t
    BY <1>1 DEF Range, Typed, TypeOK
  <1>4. StatusSound'
    <2>1. ASSUME NEW s \in Sema, NEW u \in Range(waiters[s])
          PROVE  pc'[u] = "block" \/ (pc'[u] = "test" /\ u # t)
      BY <1>3 DEF Listed, StatusSound
    <2> QED
      BY <1>1, <2>1 DEF Listed, StatusSound, NeverRan, Typed, TypeOK
  <1> QED
    BY <1>2, <1>4 DEF Listed

(* Client code keeps the lists; a thread that ends was in none, and one     *)
(* that create_thread is called for never ran.                             *)
LEMMA CallListed ==
  ASSUME Typed, Undisturbed, Listed, MakingSound, NEW t \in Thread, UserStep(t)
  PROVE  Listed' /\ MakingSound'
  <1> USE ThreadAssumption
  <1>1. ASSUME NEW f, NEW o, f # "thread_unblock", At(t, "client"), Enter(t, f, o),
               UNCHANGED <<running, sched, waiters>>,
               \/ UNCHANGED making
               \/ \E w \in Worker :
                    /\ making[t] = None /\ status[w] = "UNBORN"
                    /\ \A u \in Thread : making[u] # w
                    /\ making' = [making EXCEPT ![t] = w],
               t # Idle, held'[Idle] = held[Idle]
        PROVE  Listed' /\ MakingSound'
    <2>1. /\ running = t /\ pc[t] = "client"
          /\ fn' = [fn EXCEPT ![t] = f] /\ obj' = [obj EXCEPT ![t] = o]
          /\ pc' = [pc EXCEPT ![t] = "save"] /\ UNCHANGED <<running, ready, status, waiters>>
      BY <1>1 DEF At, Enter, Goto, sched
    <2>2. \A w \in Thread : BeingMade(w) => BeingMade(w)'
      BY <1>1, <2>1 DEF BeingMade, Typed, TypeOK
    <2>3. Listed'
      BY <2>1, <2>2, FrameListed DEF Typed, TypeOK
    <2>4. \A w \in Worker : BeingMade(w)' => BeingMade(w) \/ status[w] = "UNBORN"
      BY <1>1, <2>1 DEF BeingMade, Typed, TypeOK
    <2>5. MakingSound'
      <3>1. \A u, v \in Thread : making'[u] = making'[v] /\ making'[u] # None => u = v
        <4>1. CASE UNCHANGED making
          BY <4>1 DEF MakingSound
        <4>2. ASSUME NEW w \in Worker, \A u \in Thread : making[u] # w,
                     making' = [making EXCEPT ![t] = w]
              PROVE  \A u, v \in Thread : making'[u] = making'[v] /\ making'[u] # None
                                          => u = v
          BY <4>2 DEF MakingSound, Typed, TypeOK
        <4> QED
          BY <1>1, <4>1, <4>2
      <3>2. ASSUME NEW u \in Thread, fn'[u] = "thread_unblock",
                   pc'[u] \notin {"client", "tid", "exit"}
            PROVE  making'[u] # None /\ obj'[u] = making'[u]
        <4>1. u # t
          BY <1>1, <2>1, <3>2 DEF Typed, TypeOK
        <4> QED
          BY <1>1, <2>1, <3>2, <4>1 DEF MakingSound, Typed, TypeOK
      <3>3. ASSUME NEW w \in Worker, BeingMade(w)'
            PROVE  status[w] \in {"UNBORN", "BLOCKED"} /\ NeverRan(w) /\ w # running
        BY <2>4, <3>3, Distinct DEF Listed, StatusSound, MakingSound
      <3>4. \A w \in Worker : w # running => (NeverRan(w)' <=> NeverRan(w))
        BY <2>1, Distinct DEF NeverRan, Typed, TypeOK
      <3>5. making'[Idle] = None /\ fn'[Idle] = "start_thread"
        BY <1>1, <2>1, Distinct DEF MakingSound, Typed, TypeOK
      <3> QED
        BY <1>1, <2>1, <3>1, <3>2, <3>3, <3>4, <3>5 DEF MakingSound
    <2> QED
      BY <2>3, <2>5
  <1>2. ASSUME NEW l \in Lock, LockAcquire(t, l) PROVE Listed' /\ MakingSound'
    BY <1>1, <1>2 DEF LockAcquire, Call, cpu, synch
  <1>3. ASSUME NEW l \in Lock, LockRelease(t, l) PROVE Listed' /\ MakingSound'
    <2>1. l \in held[t] /\ t # Idle
      BY <1>3 DEF LockRelease, MakingSound
    <2>2. held'[Idle] = held[Idle]
      BY <1>3, <2>1, Distinct DEF LockRelease, Typed, TypeOK
    <2> QED
      BY <1>1, <1>3, <2>1, <2>2 DEF LockRelease, cpu
  <1>4. ASSUME NEW s \in Counter, SemaphoreDec(t, s) \/ SemaphoreInc(t, s)
        PROVE  Listed' /\ MakingSound'
    BY <1>1, <1>4 DEF SemaphoreDec, SemaphoreInc, Call, cpu, synch
  <1>5. ASSUME NEW w \in Worker, CreateThread(t, w) PROVE Listed' /\ MakingSound'
    BY <1>1, <1>5 DEF CreateThread, Call, cpu, synch
  <1>6. CASE Exit(t)
    <2>1. /\ running = t /\ pc[t] = "client" /\ t # Idle /\ making[t] = None
          /\ status' = [status EXCEPT ![t] = "DEAD"]
          /\ pc' = [pc EXCEPT ![t] = "exit"]
          /\ UNCHANGED <<running, ready, waiters>> /\ UNCHANGED <<fn, obj, held, making>>
      BY <1>6 DEF Exit, At, Goto, synch, user
    <2>2. \A s \in Sema : t \notin Range(waiters[s])
      BY <2>1 DEF Listed, StatusSound
    <2>3. t \notin Range(ready)
      BY <2>1 DEF Listed, StatusSound
    <2>4. \A w \in Thread : BeingMade(w)' <=> BeingMade(w)
      BY <2>1 DEF BeingMade, Typed, TypeOK
    <2>5. StatusMatchesList'
      BY <2>1, <2>2, <2>3, SMTT(30) DEF Listed, StatusMatchesList, Typed, TypeOK, Range
    <2>6. StatusSound'
      BY <2>1, <2>2, <2>3, <2>4 DEF Listed, StatusSound, NeverRan, Typed, TypeOK
    <2>7. MakingSound'
      BY <2>1, <2>4, Distinct DEF MakingSound, NeverRan, Typed, TypeOK
    <2> QED
      BY <2>5, <2>6, <2>7 DEF Listed
  <1> QED
    BY <1>2, <1>3, <1>4, <1>5, <1>6 DEF UserStep

(* A step of the running thread from place to place, within a function and  *)
(* without touching lists or statuses, keeps them.                          *)
LEMMA MoveListed ==
  ASSUME Typed, Undisturbed, Listed, MakingSound,
         NEW t \in Thread, running = t, NEW p \in Place,
         pc' = [pc EXCEPT ![t] = p],
         UNCHANGED <<running, ready, status, waiters>>,
         UNCHANGED <<fn, obj, making>>, held'[Idle] = held[Idle],
         {pc[t], p} \cap {"block", "exit"} = {},
         fn[t] = "thread_unblock" =>
           /\ pc[t] \in {"client", "tid"} <=> p \in {"client", "tid"}
           /\ pc[t] \in {"restore", "store"} <=> p \in {"restore", "store"}
  PROVE  Listed' /\ MakingSound'
  <1>1. \A w \in Thread : BeingMade(w)' <=> BeingMade(w)
    BY DEF BeingMade, Typed, TypeOK
  <1>2. Listed'
    BY <1>1, FrameListed DEF Typed, TypeOK
  <1>3. \A w \in Worker : w # running => (NeverRan(w)' <=> NeverRan(w))
    BY Distinct DEF NeverRan, Typed, TypeOK
  <1>4. ASSUME NEW u \in Thread, fn[u] = "thread_unblock",
               pc'[u] \notin {"client", "tid", "exit"}
        PROVE  making[u] # None /\ obj[u] = making[u]
    BY <1>4 DEF MakingSound, Typed, TypeOK
  <1>5. MakingSound'
    BY <1>1, <1>3, <1>4, Distinct DEF MakingSound
  <1> QED
    BY <1>2, <1>5

(* The end of an API function: only thread_unblock gives up the thread made. *)
LEMMA ReturnListed ==
  ASSUME Typed, Undisturbed, Listed, MakingSound,
         NEW t \in Thread, running = t, pc[t] \in {"restore", "store"}, Return(t),
         UNCHANGED <<running, ready, status, waiters>>
  PROVE  Listed' /\ MakingSound'
  <1>1. PICK p \in {"hold", "client"} : /\ pc' = [pc EXCEPT ![t] = p]
                                        /\ fn[t] = "thread_unblock" => p = "client"
    BY DEF Return, Goto
  <1>2. /\ UNCHANGED <<fn, obj, held>>
        /\ \A u \in Thread : u # t => making'[u] = making[u]
        /\ making'[t] = IF fn[t] = "thread_unblock" THEN None ELSE making[t]
    BY DEF Return, Typed, TypeOK
  <1>3. \A w \in Thread : BeingMade(w)' <=> BeingMade(w)
    <2> SUFFICES ASSUME NEW w \in Thread, NEW u \in Thread
                 PROVE  /\ making'[u] = w
                        /\ fn[u] = "thread_unblock" => pc'[u] \notin {"restore", "store"}
                        <=> /\ making[u] = w
                            /\ fn[u] = "thread_unblock" => pc[u] \notin {"restore", "store"}
      BY <1>2 DEF BeingMade
    <2>1. CASE u = t
      BY <1>1, <1>2, <2>1, ThreadAssumption DEF Typed, TypeOK
    <2>2. CASE u # t
      BY <1>1, <1>2, <2>2 DEF Typed, TypeOK
    <2> QED
      BY <2>1, <2>2
  <1>4. Listed'
    BY <1>1, <1>2, <1>3, FrameListed DEF Typed, TypeOK
  <1>5. \A w \in Worker : w # running => (NeverRan(w)' <=> NeverRan(w))
    BY <1>1, <1>2, Distinct DEF NeverRan, Typed, TypeOK
  <1>6. ASSUME NEW u \in Thread, fn[u] = "thread_unblock",
               pc'[u] \notin {"client", "tid", "exit"}
        PROVE  making'[u] # None /\ obj[u] = making'[u]
    BY <1>1, <1>2, <1>6 DEF MakingSound, Typed, TypeOK
  <1>7. \A u, v \in Thread : making'[u] = making'[v] /\ making'[u] # None => u = v
    BY <1>2 DEF MakingSound
  <1>8. fn[Idle] = "start_thread" /\ status[Idle] = "READY" /\ held[Idle] = {}
        /\ making'[Idle] = None
    BY <1>2, Distinct DEF MakingSound
  <1>9. MakingSound'
    BY <1>2, <1>3, <1>5, <1>6, <1>7, <1>8, Distinct DEF MakingSound
  <1> QED
    BY <1>4, <1>9

(* A switch takes the new running thread from the front of the list, and    *)
(* nothing else; the idle thread stands in for an empty list.               *)
LEMMA SwitchedTo ==
  ASSUME NEW q \in Seq(Thread), IsInjective(q), Schedule(q)
  PROVE  /\ running' \in Range(q) \/ (running' = Idle /\ Range(q) = {})
         /\ Range(q) \subseteq Range(ready') \cup {running'}
         /\ Range(ready') \subseteq Range(q)
         /\ running' \notin Range(ready')
         /\ IsInjective(ready')
  <1>1. CASE q = <<>>
    BY <1>1, EmptyList DEF Schedule
  <1>2. CASE q # <<>>
    <2>1. /\ Head(q) \in Range(q) /\ Range(q) = Range(Tail(q)) \cup {Head(q)}
          /\ IsInjective(Tail(q)) /\ Head(q) \notin Range(Tail(q))
      BY <1>2, PoppedFront
    <2>2. running' = Head(q) /\ ready' = Tail(q)
      BY <1>2 DEF Schedule
    <2> QED
      BY <2>1, <2>2
  <1> QED
    BY <1>1, <1>2

(* Making a thread ready that was waiting, or that has just been made,     *)
(* keeps the lists, if it leaves the list it waited in.                    *)
LEMMA MadeReady ==
  ASSUME Typed, Undisturbed, Listed, NEW t \in Thread, running = t, running' = t,
         NEW w \in Thread, w # t, w # Idle, status[w] \in {"UNBORN", "BLOCKED"},
         MakeReady(w),
         \A s \in Sema : /\ IsInjective(waiters'[s])
                         /\ Range(waiters'[s]) = Range(waiters[s]) \ {w},
         UNCHANGED <<fn, obj>>,
         \A u \in Thread : u # t => pc'[u] = pc[u],
         pc[t] \notin {"block", "exit"}, pc'[t] \notin {"block", "exit"},
         \A u \in Thread : u # w /\ BeingMade(u) => BeingMade(u)'
  PROVE  Listed'
  <1>1. /\ ready' = Append(ready, w) /\ status' = [status EXCEPT ![w] = "READY"]
    BY DEF MakeReady
  <1>2. w \notin Range(ready)
    BY DEF Listed, StatusMatchesList
  <1>3. Range(ready') = Range(ready) \cup {w} /\ IsInjective(ready')
    BY <1>1, <1>2, PushedBack DEF Typed, TypeOK, Listed, StatusSound
  <1>4. pc[w] # "block" /\ \A s \in Sema : t \notin Range(waiters[s])
    BY DEF Listed, StatusSound, Undisturbed, CriticalAtomic, Critical
  <1>5. \A s \in Sema : \A u \in Range(waiters[s]) : u \in Thread
    BY DEF Range, Typed, TypeOK
  <1>6. \A u \in Range(ready) : u \in Thread
    BY DEF Range, Typed, TypeOK
  <1>7. StatusMatchesList'
    <2>1. \A u \in Range(ready') : status'[u] = "READY"
      BY <1>1, <1>3, <1>6 DEF Listed, StatusMatchesList, Typed, TypeOK
    <2>2. ASSUME NEW s \in Sema, NEW u \in Range(waiters'[s])
          PROVE  /\ fn'[u] \in {"lock_acquire", "semaphore_dec"} /\ obj'[u] = s
                 /\ status'[u] = "BLOCKED" \/ pc'[u] = "block"
      <3>1. u \in Range(waiters[s]) /\ u # w /\ u # t /\ u \in Thread
        BY <1>4, <1>5, <2>2
      <3> QED
        BY <1>1, <3>1 DEF Listed, StatusMatchesList, Typed, TypeOK
    <2> QED
      BY <2>1, <2>2 DEF StatusMatchesList
  <1>8. StatusSound'
    <2>1. ASSUME NEW u \in Thread
          PROVE  /\ status'[u] = "DEAD" <=> pc'[u] = "exit"
                 /\ status'[u] = "UNBORN" => NeverRan(u)' /\ u # t
                 /\ pc'[u] = "block" => u \in Range(waiters'[obj'[u]])
      BY <1>1, <1>4, ZenonT(40) DEF Listed, StatusSound, Undisturbed, CriticalAtomic, Critical,
        NeverRan, Typed, TypeOK
    <2>2. ASSUME NEW u \in Thread, status'[u] = "BLOCKED", u # t
          PROVE  BeingMade(u)' \/ \E s \in Sema : u \in Range(waiters'[s])
      BY <1>1, <2>2 DEF Listed, StatusSound, Typed, TypeOK
    <2>3. ASSUME NEW u \in Thread, status'[u] = "READY", u # t
          PROVE  u \in Range(ready') \/ (u = Idle /\ NeverRan(Idle)')
      BY <1>1, <1>3, <2>3, Distinct DEF Listed, StatusSound, NeverRan, Typed, TypeOK
    <2>4. /\ status'[t] = "BLOCKED" => t = Initial
          /\ t \notin Range(ready') /\ \A s \in Sema : t \notin Range(waiters'[s])
      BY <1>1, <1>3, <1>4 DEF Listed, StatusSound, Typed, TypeOK
    <2>5. ASSUME NEW s \in Sema, NEW u \in Range(waiters'[s])
          PROVE  pc'[u] = "block" \/ (pc'[u] = "test" /\ u # t)
      <3>1. u \in Range(waiters[s]) /\ u # t /\ u \in Thread
        BY <1>4, <1>5, <2>5
      <3> QED
        BY <3>1 DEF Listed, StatusSound
    <2> QED
      BY <1>3, <2>1, <2>2, <2>3, <2>4, <2>5 DEF StatusSound
  <1> QED
    BY <1>7, <1>8 DEF Listed

(* semaphore_inc, called from a thread or from a handler, readies a waiting *)
(* thread and no other.                                                     *)
LEMMA WakeListed ==
  ASSUME Typed, Undisturbed, Listed, MakingSound,
         NEW t \in Thread, running = t, running' = t,
         NEW s \in Sema, WakeFirst(s),
         UNCHANGED <<fn, obj, making>>, held' = held,
         \A u \in Thread : u # t => pc'[u] = pc[u],
         pc[t] \notin {"block", "exit"}, pc'[t] \notin {"block", "exit"},
         fn[t] = "thread_unblock" => pc'[t] = pc[t]
  PROVE  Listed' /\ MakingSound'
  <1>1. \A u \in Thread : BeingMade(u)' <=> BeingMade(u)
    BY DEF BeingMade
  <1>2. MakingSound' <=> /\ \A w \in Worker : BeingMade(w) =>
                              /\ status'[w] \in {"UNBORN", "BLOCKED"}
                              /\ NeverRan(w)
                         /\ status'[Idle] = "READY"
    <2>1. \A w \in Worker : w # t => (NeverRan(w)' <=> NeverRan(w))
      BY Distinct DEF NeverRan
    <2>2. ASSUME NEW u \in Thread, fn[u] = "thread_unblock",
                 pc'[u] \notin {"client", "tid", "exit"}
          PROVE  making[u] # None /\ obj[u] = making[u]
      BY <2>2 DEF MakingSound
    <2>3. \A w \in Worker : BeingMade(w) => w # t
      BY DEF MakingSound
    <2> QED
      BY <1>1, <2>1, <2>2, <2>3, Distinct DEF MakingSound
  <1>3. CASE waiters[s] = <<>>
    <2>1. UNCHANGED <<ready, status, waiters>>
      BY <1>3 DEF WakeFirst
    <2>2. Listed'
      BY <1>1, <2>1, FrameListed
    <2> QED
      BY <1>2, <2>1, <2>2 DEF MakingSound
  <1>4. CASE waiters[s] # <<>>
    <2> DEFINE w == Head(waiters[s])
    <2>1. /\ waiters' = [waiters EXCEPT ![s] = Tail(@)] /\ MakeReady(w)
      BY <1>4 DEF WakeFirst
    <2>2. /\ w \in Thread /\ w \in Range(waiters[s])
          /\ Range(waiters[s]) = Range(Tail(waiters[s])) \cup {w}
          /\ IsInjective(Tail(waiters[s])) /\ w \notin Range(Tail(waiters[s]))
      BY <1>4, PoppedFront DEF Typed, TypeOK, Listed, StatusSound
    <2> HIDE DEF w
    <2>3. /\ w # t /\ fn[w] \in {"lock_acquire", "semaphore_dec"} /\ obj[w] = s
          /\ status[w] = "BLOCKED"
      BY <2>2 DEF Listed, StatusSound, StatusMatchesList, Undisturbed, CriticalAtomic,
        Critical
    <2>4. w # Idle
      BY <2>3 DEF MakingSound
    <2>5. ASSUME NEW r \in Sema
          PROVE  /\ IsInjective(waiters'[r])
                 /\ Range(waiters'[r]) = Range(waiters[r]) \ {w}
      <3>1. CASE r = s
        BY <2>1, <2>2, <3>1 DEF Typed, TypeOK
      <3>2. CASE r # s
        <4>1. waiters'[r] = waiters[r] /\ w \notin Range(waiters[r])
          BY <2>1, <2>3, <3>2 DEF Typed, TypeOK, Listed, StatusMatchesList
        <4> QED
          BY <4>1 DEF Listed, StatusSound
      <3> QED
        BY <3>1, <3>2
    <2>6. Listed'
      BY <1>1, <2>1, <2>2, <2>3, <2>4, <2>5, MadeReady
    <2>7. status' = [status EXCEPT ![w] = "READY"]
      BY <2>1 DEF MakeReady
    <2>8. \A x \in Worker : BeingMade(x) => x # w
      BY <2>3 DEF MakingSound, NeverRan
    <2> QED
      BY <1>2, <2>2, <2>4, <2>6, <2>7, <2>8, Distinct DEF MakingSound, Typed, TypeOK
  <1> QED
    BY <1>3, <1>4

(* Queueing itself and blocking: semaphore_dec and block_current. *)
LEMMA WaitListed ==
  ASSUME Typed, Undisturbed, Listed, MakingSound, NEW t \in Thread,
         DecWait(t) \/ DecBlock(t)
  PROVE  Listed' /\ MakingSound'
  <1>1. CASE DecWait(t)
    <2>1. /\ running = t /\ pc[t] = "test" /\ pc' = [pc EXCEPT ![t] = "block"]
          /\ waiters' = [waiters EXCEPT ![obj[t]] = Append(@, t)]
          /\ UNCHANGED <<running, ready, status>>
          /\ UNCHANGED <<fn, obj, making, held>>
      BY <1>1 DEF DecWait, At, Goto, cpu, sched, user
    <2>2. fn[t] \in {"lock_acquire", "semaphore_dec"} /\ obj[t] \in Sema
      BY <2>1, Distinct DEF Typed, FunctionMatches
    <2>3. PICK o \in Sema : obj[t] = o
      BY <2>2
    <2>4. \A s \in Sema : t \notin Range(waiters[s])
      BY <2>1 DEF Listed, StatusSound
    <2>5. ASSUME NEW s \in Sema
          PROVE  /\ IsInjective(waiters'[s])
                 /\ s = o => Range(waiters'[s]) = Range(waiters[s]) \cup {t}
                 /\ s # o => waiters'[s] = waiters[s]
      <3>1. waiters'[s] = IF s = o THEN Append(waiters[s], t) ELSE waiters[s]
        BY <2>3, <2>1 DEF Typed, TypeOK
      <3>2. waiters[s] \in Seq(Thread) /\ IsInjective(waiters[s])
        BY DEF Listed, StatusSound, Typed, TypeOK
      <3> QED
        BY <2>4, <3>1, <3>2, PushedBack
    <2>6. \A w \in Thread : BeingMade(w)' <=> BeingMade(w)
      BY <2>1, <2>2 DEF BeingMade, Typed, TypeOK
    <2>7. \A w \in Thread : w # t => (NeverRan(w)' <=> NeverRan(w))
      BY <2>1 DEF NeverRan, Typed, TypeOK
    <2>8. StatusMatchesList'
      <3>1. \A s \in Sema : \A u \in Range(waiters[s]) : u \in Thread /\ u # t
        BY <2>4 DEF Range, Typed, TypeOK
      <3>2. ASSUME NEW s \in Sema, NEW u \in Range(waiters'[s])
            PROVE  /\ fn'[u] \in {"lock_acquire", "semaphore_dec"} /\ obj'[u] = s
                   /\ status'[u] = "BLOCKED" \/ pc'[u] = "block"
        <4>1. CASE u = t
          <5>1. s = o
            BY <2>4, <2>5, <3>2, <4>1
          <5> QED
            BY <2>3, <2>1, <2>2, <4>1, <5>1 DEF Typed, TypeOK
        <4>2. CASE u # t
          <5>1. u \in Range(waiters[s])
            BY <2>5, <3>2, <4>2
          <5> QED
            BY <2>1, <3>1, <4>2, <5>1 DEF Listed, StatusMatchesList, Typed, TypeOK
        <4> QED
          BY <4>1, <4>2
      <3>3. \A u \in Range(ready') : status'[u] = "READY"
        BY <2>1 DEF Listed, StatusMatchesList
      <3> QED
        BY <3>2, <3>3 DEF StatusMatchesList
    <2>9. StatusSound'
      <3>1. ASSUME NEW u \in Thread, pc'[u] = "block"
            PROVE  u \in Range(waiters'[obj'[u]])
        <4>1. u = t
          BY <2>1, <3>1 DEF Undisturbed, CriticalAtomic, Critical, Typed, TypeOK
        <4> QED
          BY <2>3, <2>1, <2>5, <4>1
      <3>2. \A u \in Thread : (\E s \in Sema : u \in Range(waiters[s]))
                              => \E s \in Sema : u \in Range(waiters'[s])
        BY <2>5
      <3>3. ASSUME NEW u \in Thread
            PROVE  /\ status[u] = "DEAD" <=> pc'[u] = "exit"
                   /\ status[u] = "UNBORN" => NeverRan(u)' /\ u # t
        BY <2>1, <2>7, Distinct, SMTT(30) DEF Listed, StatusSound, Typed, TypeOK
      <3>4. ASSUME NEW u \in Thread, u # t
            PROVE  /\ status[u] = "BLOCKED" =>
                        BeingMade(u)' \/ \E s \in Sema : u \in Range(waiters'[s])
                   /\ status[u] = "READY" =>
                        u \in Range(ready) \/ (u = Idle /\ NeverRan(Idle)')
        BY <2>1, <2>6, <2>7, <3>2, <3>4, Distinct DEF Listed, StatusSound
      <3>5. ASSUME NEW s \in Sema, NEW u \in Range(waiters'[s])
            PROVE  pc'[u] = "block" \/ (pc'[u] = "test" /\ u # t)
        <4>1. u = t \/ u \in Range(waiters[s])
          BY <2>5, <3>5
        <4>2. u \in Thread
          BY <4>1 DEF Range, Typed, TypeOK
        <4> QED
          BY <2>1, <4>1, <4>2 DEF Listed, StatusSound, Typed, TypeOK
      <3> QED
        BY <2>1, <2>5, <3>1, <3>3, <3>4, <3>5 DEF Listed, StatusSound
    <2>10. MakingSound'
      <3>1. fn[t] # "thread_unblock" /\ \A u \in Thread : u # t => pc'[u] = pc[u]
        BY <2>1, <2>2 DEF Typed, TypeOK
      <3> QED
        BY <2>1, <2>6, <2>7, <3>1, Distinct DEF MakingSound
    <2> QED
      BY <2>8, <2>9, <2>10 DEF Listed
  <1>2. CASE DecBlock(t)
    <2>1. /\ running = t /\ pc[t] = "block" /\ pc' = [pc EXCEPT ![t] = "test"]
          /\ status' = [status EXCEPT ![t] = "BLOCKED"]
          /\ Schedule(ready) /\ UNCHANGED waiters
          /\ UNCHANGED <<fn, obj, making, held>>
      BY <1>2 DEF DecBlock, At, Goto, synch, user
    <2>2. /\ running' \in Range(ready) \/ (running' = Idle /\ Range(ready) = {})
          /\ Range(ready) \subseteq Range(ready') \cup {running'}
          /\ Range(ready') \subseteq Range(ready)
          /\ running' \notin Range(ready') /\ IsInjective(ready')
      BY <2>1, SwitchedTo DEF Listed, StatusSound, Typed, TypeOK
    <2>3. fn[t] \in {"lock_acquire", "semaphore_dec"} /\ obj[t] \in Sema
      BY <2>1, Distinct DEF Typed, FunctionMatches
    <2>4. t # Idle /\ t \notin Range(ready) /\ t \in Range(waiters[obj[t]])
      BY <2>1, <2>3 DEF Listed, StatusSound, MakingSound
    <2>5. /\ running' # t /\ running' \in Thread /\ status[running'] = "READY"
          /\ \A s \in Sema : running' \notin Range(waiters[s])
      <3>1. running' # t /\ status[running'] = "READY"
        BY <2>2, <2>4 DEF Listed, StatusMatchesList, MakingSound
      <3>2. running' \in Thread
        BY <2>2, Distinct DEF Range, Typed, TypeOK
      <3>3. pc[running'] # "block"
        BY <2>1, <3>1, <3>2 DEF Undisturbed, CriticalAtomic, Critical
      <3> QED
        BY <3>1, <3>2, <3>3 DEF Listed, StatusMatchesList
    <2>6. \A w \in Thread : BeingMade(w)' <=> BeingMade(w)
      BY <2>1, <2>3 DEF BeingMade, Typed, TypeOK
    <2>7. \A w \in Thread : w # t => (NeverRan(w)' <=> NeverRan(w))
      BY <2>1 DEF NeverRan, Typed, TypeOK
    <2>8. StatusMatchesList'
      <3>1. \A s \in Sema : \A u \in Range(waiters[s]) : u \in Thread
        BY DEF Range, Typed, TypeOK
      <3>2. \A u \in Range(ready') : status'[u] = "READY"
        BY <2>1, <2>2, <2>4 DEF Listed, StatusMatchesList, Typed, TypeOK
      <3>3. ASSUME NEW s \in Sema, NEW u \in Range(waiters[s])
            PROVE  /\ fn[u] \in {"lock_acquire", "semaphore_dec"} /\ obj[u] = s
                   /\ status'[u] = "BLOCKED" \/ pc'[u] = "block"
        BY <2>1, <3>1 DEF Listed, StatusMatchesList, Typed, TypeOK
      <3> QED
        BY <2>1, <3>2, <3>3 DEF StatusMatchesList
    <2>9. StatusSound'
      <3>1. ASSUME NEW u \in Thread
            PROVE  /\ status'[u] = "DEAD" <=> pc'[u] = "exit"
                   /\ status'[u] = "UNBORN" => NeverRan(u)' /\ u # running'
                   /\ pc'[u] # "block"
        BY <2>1, <2>5, <2>7 DEF Listed, StatusSound, Undisturbed, CriticalAtomic,
          Critical, Typed, TypeOK
      <3>2. ASSUME NEW u \in Thread, status'[u] = "BLOCKED"
            PROVE  BeingMade(u)' \/ \E s \in Sema : u \in Range(waiters[s])
        BY <2>1, <2>3, <2>4, <2>6, <3>2 DEF Listed, StatusSound, Typed, TypeOK
      <3>3. ASSUME NEW u \in Thread, status'[u] = "READY", u # running'
            PROVE  u \in Range(ready') \/ (u = Idle /\ NeverRan(Idle)')
        <4>1. u # t /\ status[u] = "READY"
          BY <2>1, <3>3 DEF Typed, TypeOK
        <4> QED
          BY <2>1, <2>2, <2>4, <2>7, <3>3, <4>1, Distinct DEF Listed, StatusSound
      <3>4. status'[running'] = "READY"
        BY <2>1, <2>5 DEF Typed, TypeOK
      <3> QED
        BY <2>1, <2>2, <2>5, <3>1, <3>2, <3>3, <3>4 DEF Listed, StatusSound
    <2>10. MakingSound'
      <3>1. fn[t] # "thread_unblock" /\ \A u \in Thread : u # t => pc'[u] = pc[u]
        BY <2>1, <2>3 DEF Typed, TypeOK
      <3>2. \A u \in Thread : u # t => status'[u] = status[u]
        BY <2>1 DEF Typed, TypeOK
      <3>3. \A w \in Worker : BeingMade(w) => w # t /\ w # running'
        BY <2>1, <2>5 DEF MakingSound
      <3> QED
        BY <2>1, <2>4, <2>6, <2>7, <3>1, <3>2, <3>3, Distinct DEF MakingSound
    <2> QED
      BY <2>8, <2>9, <2>10 DEF Listed
  <1> QED
    BY <1>1, <1>2

(* A thread that has ended leaves for good. *)
LEMMA DepartListed ==
  ASSUME Typed, Undisturbed, Listed, MakingSound, NEW t \in Thread, Depart(t)
  PROVE  Listed' /\ MakingSound'
  <1>1. /\ running = t /\ pc[t] = "exit" /\ Schedule(ready)
        /\ UNCHANGED <<status, waiters>> /\ UNCHANGED <<fn, pc, obj, making, held>>
    BY DEF Depart, At, synch, frame, user
  <1>2. /\ running' \in Range(ready) \/ (running' = Idle /\ Range(ready) = {})
        /\ Range(ready) \subseteq Range(ready') \cup {running'}
        /\ Range(ready') \subseteq Range(ready)
        /\ running' \notin Range(ready') /\ IsInjective(ready')
    BY <1>1, SwitchedTo DEF Listed, StatusSound, Typed, TypeOK
  <1>3. status[t] = "DEAD"
    BY <1>1 DEF Listed, StatusSound
  <1>4. /\ running' # t /\ running' \in Thread /\ status[running'] = "READY"
        /\ \A s \in Sema : running' \notin Range(waiters[s])
    <2>1. running' # t /\ status[running'] = "READY"
      BY <1>2, <1>3 DEF Listed, StatusMatchesList, MakingSound
    <2>2. running' \in Thread
      BY <1>2, Distinct DEF Range, Typed, TypeOK
    <2>3. pc[running'] # "block"
      BY <1>1, <2>1, <2>2 DEF Undisturbed, CriticalAtomic, Critical
    <2> QED
      BY <2>1, <2>2, <2>3 DEF Listed, StatusMatchesList
  <1>5. \A w : (BeingMade(w)' <=> BeingMade(w)) /\ (NeverRan(w)' <=> NeverRan(w))
    BY <1>1 DEF BeingMade, NeverRan
  <1>6. StatusMatchesList'
    BY <1>1, <1>2 DEF Listed, StatusMatchesList
  <1>7. StatusSound'
    <2>1. ASSUME NEW u \in Thread
          PROVE  /\ status[u] = "UNBORN" => NeverRan(u) /\ u # running'
                 /\ status[u] = "BLOCKED" =>
                      BeingMade(u) \/ \E s \in Sema : u \in Range(waiters[s])
                 /\ status[u] = "READY" /\ u # running' =>
                      u \in Range(ready') \/ (u = Idle /\ NeverRan(Idle))
      BY <1>1, <1>2, <1>3, <1>4 DEF Listed, StatusSound
    <2> QED
      BY <1>1, <1>2, <1>4, <1>5, <2>1 DEF Listed, StatusSound
  <1>8. MakingSound'
    BY <1>1, <1>4, <1>5 DEF MakingSound
  <1> QED
    BY <1>6, <1>7, <1>8 DEF Listed

(* The deferred yield puts the interrupted thread, which is READY and in no *)
(* list, at the end of the ready list.                                      *)
LEMMA YieldListed ==
  ASSUME Typed, Undisturbed, LevelSound, Listed, MakingSound,
         NEW t \in Thread, DeferYield(t)
  PROVE  Listed' /\ MakingSound'
  <1>1. /\ running = t /\ isr[t] = "handler"
        /\ Schedule(IF status[t] # "BLOCKED" THEN Append(ready, t) ELSE ready)
        /\ UNCHANGED <<status, waiters>> /\ UNCHANGED <<fn, pc, obj, making, held>>
    BY DEF DeferYield, synch, frame, user
  <1>2. t # Initial /\ pc[t] \in Outside \cup {"store"}
    BY <1>1 DEF LevelSound
  <1>3. /\ status[t] = "READY" /\ t \notin Range(ready)
        /\ \A s \in Sema : t \notin Range(waiters[s])
    BY <1>1, <1>2 DEF Listed, StatusSound, Outside, Typed, TypeOK, Status
  <1> DEFINE q == Append(ready, t)
  <1>4. q \in Seq(Thread) /\ IsInjective(q) /\ Range(q) = Range(ready) \cup {t}
    BY <1>3, PushedBack DEF Listed, StatusSound, Typed, TypeOK
  <1>5. Schedule(q)
    BY <1>1, <1>3
  <1> HIDE DEF q
  <1>6. /\ running' \in Range(q)
        /\ Range(q) \subseteq Range(ready') \cup {running'}
        /\ Range(ready') \subseteq Range(q)
        /\ running' \notin Range(ready') /\ IsInjective(ready')
    BY <1>4, <1>5, SwitchedTo
  <1>7. /\ running' \in Thread /\ status[running'] = "READY"
        /\ \A s \in Sema : running' \notin Range(waiters[s])
    <2>1. status[running'] = "READY"
      BY <1>3, <1>4, <1>6 DEF Listed, StatusMatchesList
    <2>2. running' \in Thread
      BY <1>4, <1>6 DEF Range
    <2>3. pc[running'] # "block"
      BY <1>1, <1>2, <2>2 DEF Undisturbed, CriticalAtomic, Critical, Outside
    <2> QED
      BY <2>1, <2>2, <2>3 DEF Listed, StatusMatchesList
  <1>8. \A w : (BeingMade(w)' <=> BeingMade(w)) /\ (NeverRan(w)' <=> NeverRan(w))
    BY <1>1 DEF BeingMade, NeverRan
  <1>9. StatusMatchesList'
    BY <1>1, <1>3, <1>4, <1>6 DEF Listed, StatusMatchesList
  <1>10. StatusSound'
    <2>1. ASSUME NEW u \in Thread
          PROVE  /\ status[u] = "UNBORN" => NeverRan(u) /\ u # running'
                 /\ status[u] = "BLOCKED" =>
                      BeingMade(u) \/ \E s \in Sema : u \in Range(waiters[s])
                 /\ status[u] = "READY" /\ u # running' =>
                      u \in Range(ready') \/ (u = Idle /\ NeverRan(Idle))
      BY <1>1, <1>3, <1>4, <1>6, <1>7 DEF Listed, StatusSound
    <2> QED
      BY <1>1, <1>6, <1>7, <1>8, <2>1 DEF Listed, StatusSound
  <1>11. MakingSound'
    BY <1>1, <1>7, <1>8 DEF MakingSound
  <1> QED
    BY <1>9, <1>10, <1>11 DEF Listed

(* create_thread's own steps: the thread allocated, its id, and its first   *)
(* place in the ready list.                                                 *)
LEMMA CreateListed ==
  ASSUME Typed, Undisturbed, Listed, MakingSound, NEW t \in Thread,
         Allocate(t) \/ StoreTid(t) \/ Unblock(t)
  PROVE  Listed' /\ MakingSound'
  <1>1. CASE Allocate(t)
    <2> DEFINE w == making[t]
    <2>1. /\ running = t /\ pc[t] = "client" /\ w \in Worker /\ status[w] = "UNBORN"
          /\ status' = [status EXCEPT ![w] = "BLOCKED"]
          /\ UNCHANGED <<running, ready, waiters>>
          /\ UNCHANGED <<fn, pc, obj, making, held>>
      BY <1>1 DEF Allocate, At, Creating, cpu, synch, frame, user, Typed, TypeOK
    <2>2. \A u : (BeingMade(u)' <=> BeingMade(u)) /\ (NeverRan(u)' <=> NeverRan(u))
      BY <2>1 DEF BeingMade, NeverRan
    <2>3. BeingMade(w) /\ NeverRan(w) /\ w # t
      BY <2>1 DEF BeingMade, MakingSound
    <2> HIDE DEF w
    <2>4. w \notin Range(ready) /\ w # Idle /\ w \in Thread
      BY <2>1, ThreadAssumption, Distinct DEF Listed, StatusMatchesList
    <2>5. \A u \in Thread : u # w => status'[u] = status[u]
      BY <2>1 DEF Typed, TypeOK
    <2>6. status'[w] = "BLOCKED"
      BY <2>1, <2>4 DEF Typed, TypeOK
    <2>7. StatusMatchesList'
      <3>1. /\ \A u \in Range(ready) : u \in Thread
            /\ \A s \in Sema : \A u \in Range(waiters[s]) : u \in Thread
        BY DEF Range, Typed, TypeOK
      <3> QED
        BY <2>1, <2>4, <2>5, <2>6, <3>1 DEF Listed, StatusMatchesList
    <2>8. StatusSound'
      <3>1. status'[t] = status[t] /\ pc[w] = "restore"
        BY <2>3, <2>5 DEF NeverRan
      <3>2. ASSUME NEW u \in Thread
            PROVE  /\ status'[u] = "DEAD" <=> pc[u] = "exit"
                   /\ status'[u] = "UNBORN" => NeverRan(u) /\ u # t
                   /\ status'[u] = "BLOCKED" /\ u # t =>
                        BeingMade(u) \/ \E s \in Sema : u \in Range(waiters[s])
                   /\ status'[u] = "READY" /\ u # t =>
                        u \in Range(ready) \/ (u = Idle /\ NeverRan(Idle))
        BY <2>1, <2>3, <2>5, <2>6, <3>1 DEF Listed, StatusSound
      <3> QED
        BY <2>1, <2>2, <3>1, <3>2 DEF Listed, StatusSound
    <2>9. MakingSound'
      BY <2>1, <2>2, <2>4, <2>5, <2>6, Distinct DEF MakingSound
    <2> QED
      BY <2>7, <2>8, <2>9 DEF Listed
  <1>2. CASE StoreTid(t)
    <2>1. /\ running = t /\ pc[t] = "tid" /\ pc' = [pc EXCEPT ![t] = "save"]
          /\ fn' = [fn EXCEPT ![t] = "thread_unblock"]
          /\ obj' = [obj EXCEPT ![t] = making[t]]
          /\ UNCHANGED <<running, ready, status, waiters>>
          /\ UNCHANGED <<making, held>>
      BY <1>2 DEF StoreTid, Enter, At, Goto, cpu, sched, synch, user
    <2>2. making[t] # None
      BY <2>1 DEF Typed, FunctionMatches
    <2>3. \A w \in Thread : BeingMade(w)' <=> BeingMade(w)
      BY <2>1 DEF BeingMade, Typed, TypeOK
    <2>4. Listed'
      BY <2>1, <2>3, FrameListed DEF Typed, TypeOK
    <2>5. ASSUME NEW u \in Thread, fn'[u] = "thread_unblock",
                 pc'[u] \notin {"client", "tid", "exit"}
          PROVE  making[u] # None /\ obj'[u] = making[u]
      BY <2>1, <2>2, <2>5 DEF MakingSound, Typed, TypeOK
    <2>6. \A u \in Thread : u # t => (NeverRan(u)' <=> NeverRan(u)) /\ fn'[u] = fn[u]
      BY <2>1 DEF NeverRan, Typed, TypeOK
    <2>7. t # Idle
      BY <2>2 DEF MakingSound
    <2>8. MakingSound'
      BY <2>1, <2>3, <2>5, <2>6, <2>7, Distinct DEF MakingSound
    <2> QED
      BY <2>4, <2>8
  <1>3. CASE Unblock(t)
    <2>1. /\ running = t /\ pc[t] = "critical" /\ fn[t] = "thread_unblock"
          /\ MakeReady(obj[t]) /\ pc' = [pc EXCEPT ![t] = "restore"]
          /\ UNCHANGED <<running, waiters>> /\ UNCHANGED <<fn, obj, making, held>>
      BY <1>3 DEF Unblock, At, Goto, cpu, synch, user
    <2>2. PICK w \in Worker : obj[t] = w /\ making[t] = w
      BY <2>1 DEF MakingSound, Typed, TypeOK
    <2>3. BeingMade(w)
      BY <2>1, <2>2 DEF BeingMade
    <2>4. /\ w \in Thread /\ w # t /\ w # Idle /\ NeverRan(w)
          /\ status[w] \in {"UNBORN", "BLOCKED"}
      BY <2>1, <2>3, ThreadAssumption, Distinct DEF MakingSound
    <2>5. \A s \in Sema : w \notin Range(waiters[s])
      BY <2>4 DEF NeverRan, Listed, StatusMatchesList
    <2>6. \A u \in Thread : u # w => (BeingMade(u)' <=> BeingMade(u))
      BY <2>1, <2>2 DEF BeingMade, Typed, TypeOK
    <2>7. ~BeingMade(w)'
      <3>1. \A u \in Thread : making[u] = w => u = t
        BY <2>2, Distinct DEF MakingSound
      <3> QED
        BY <2>1, <3>1 DEF BeingMade, Typed, TypeOK
    <2>8. \A s \in Sema : /\ IsInjective(waiters'[s])
                          /\ Range(waiters'[s]) = Range(waiters[s]) \ {w}
      BY <2>1, <2>5 DEF Listed, StatusSound
    <2>9. Listed'
      BY <2>1, <2>2, <2>4, <2>6, <2>8, MadeReady DEF Typed, TypeOK
    <2>10. status' = [status EXCEPT ![w] = "READY"]
      BY <2>1, <2>2 DEF MakeReady
    <2>11. MakingSound'
      <3>1. \A u \in Worker : BeingMade(u)' => /\ u # t /\ BeingMade(u)
                                              /\ NeverRan(u)' /\ status'[u] = status[u]
        BY <2>1, <2>6, <2>7, <2>10, Distinct DEF MakingSound, NeverRan, Typed, TypeOK
      <3>2. ASSUME NEW u \in Thread, fn[u] = "thread_unblock",
                   pc'[u] \notin {"client", "tid", "exit"}
            PROVE  making[u] # None /\ obj[u] = making[u]
        BY <2>1, <3>2 DEF MakingSound, Typed, TypeOK
      <3>3. status'[Idle] = "READY"
        BY <2>4, <2>10, Distinct DEF MakingSound, Typed, TypeOK
      <3> QED
        BY <2>1, <3>1, <3>2, <3>3 DEF MakingSound
    <2> QED
      BY <2>9, <2>11
  <1> QED
    BY <1>1, <1>2, <1>3

(* Every step inside an API function keeps the lists. *)
LEMMA KernelListed ==
  ASSUME Typed, Undisturbed, LevelSound, Listed, MakingSound,
         NEW t \in Thread, KernelStep(t)
  PROVE  Listed' /\ MakingSound'
  <1> USE DEF At, Goto, Place
  <1>1. CASE SaveLevel(t)
    BY <1>1, MoveListed DEF SaveLevel, cpu, sched, synch, user
  <1>2. CASE Cli(t)
    BY <1>2, MoveListed DEF Cli, sched, synch, user
  <1>3. CASE RestoreLevel(t)
    <2>1. CASE pc' = [pc EXCEPT ![t] = "store"] /\ UNCHANGED <<fn, obj, user>>
      BY <1>3, <2>1, MoveListed DEF RestoreLevel, sched, synch, user
    <2>2. CASE Return(t)
      BY <1>3, <2>2, ReturnListed DEF RestoreLevel, sched, synch
    <2> QED
      BY <1>3, <2>1, <2>2 DEF RestoreLevel
  <1>4. CASE StoreLevel(t)
    BY <1>4, ReturnListed DEF StoreLevel, sched, synch
  <1>5. CASE DecLoad(t)
    BY <1>5, MoveListed DEF DecLoad, cpu, sched, synch, user
  <1>6. CASE DecTake(t)
    <2>1. fn[t] # "thread_unblock"
      BY <1>6 DEF DecTake, Typed, FunctionMatches
    <2> QED
      BY <1>6, <2>1, MoveListed DEF DecTake, cpu, sched, user
  <1>7. CASE SetHolder(t)
    <2>1. fn[t] = "lock_acquire"
      BY <1>7 DEF SetHolder, Typed, FunctionMatches
    <2>2. held'[Idle] = held[Idle]
      BY <1>7, <2>1, Distinct DEF SetHolder, MakingSound, Typed, TypeOK
    <2> QED
      BY <1>7, <2>1, <2>2, MoveListed DEF SetHolder, cpu, sched
  <1>8. CASE IncAdd(t)
    BY <1>8, MoveListed DEF IncAdd, cpu, sched, user
  <1>9. CASE IncWake(t)
    <2>1. fn[t] \in {"lock_release", "semaphore_inc"} /\ obj[t] \in Sema
      BY <1>9, Distinct DEF IncWake, Typed, FunctionMatches
    <2>2. pc'[t] = "restore" /\ \A u \in Thread : u # t => pc'[u] = pc[u]
      BY <1>9 DEF IncWake, Typed, TypeOK
    <2> QED
      BY <1>9, <2>1, <2>2, WakeListed DEF IncWake, cpu, user
  <1>10. CASE LoadTid(t)
    BY <1>10, MoveListed DEF LoadTid, cpu, sched, synch, user
  <1> QED
    BY <1>1, <1>2, <1>3, <1>4, <1>5, <1>6, <1>7, <1>8, <1>9, <1>10,
       WaitListed, DepartListed, CreateListed DEF KernelStep

(* So does every step. *)
LEMMA NextListed ==
  Typed /\ Undisturbed /\ LevelSound /\ Listed /\ MakingSound /\ [Next]_vars
    => Listed' /\ MakingSound'
  <1> SUFFICES ASSUME Typed, Undisturbed, LevelSound, Listed, MakingSound, [Next]_vars
               PROVE  Listed' /\ MakingSound'
    OBVIOUS
  <1>1. ASSUME UNCHANGED <<running, ready, status, waiters>>,
               UNCHANGED <<fn, pc, obj, making, held>>
        PROVE  Listed' /\ MakingSound'
    BY <1>1 DEF Listed, StatusMatchesList, StatusSound, MakingSound, BeingMade, NeverRan
  <1>2. ASSUME NEW t \in Thread, NEW s \in IsrSema, HandlerInc(t, s)
        PROVE  Listed' /\ MakingSound'
    <2>1. /\ running = t /\ isr[t] # "none" /\ s \in Sema /\ WakeFirst(s)
          /\ UNCHANGED running /\ UNCHANGED <<fn, pc, obj, making, held>>
      BY <1>2, SemaAssumption, Distinct DEF HandlerInc, cpu, frame, user
    <2>2. pc[t] \notin {"block", "exit"}
      BY <2>1 DEF Undisturbed, StubSound, Critical
    <2> QED
      BY <2>1, <2>2, WakeListed
  <1>3. ASSUME NEW t \in Thread, LeaveStub(t), running = t PROVE Listed' /\ MakingSound'
    BY <1>1, <1>3 DEF LeaveStub, sched, synch, frame, user
  <1>4. CASE Interrupt \/ UNCHANGED vars
    BY <1>1, <1>4 DEF Interrupt, vars, cpu, sched, synch, frame, user
  <1> QED
    BY <1>2, <1>3, <1>4, CallListed, KernelListed, YieldListed
    DEF Next, StubStep, DeferNone, Resume

(***************************************************************************)
(* The theorems.                                                           *)
(***************************************************************************)

(* The whole invariant, which the run checks, is inductive. *)
THEOREM Invariance == Spec => []IInv
  <1> DEFINE Inv == /\ Typed /\ Undisturbed /\ Exclusive
                    /\ LevelSound /\ Listed /\ MakingSound
  <1>1. Init => Inv
    BY InitTyped, InitUndisturbed, InitExclusive, InitLevel, InitListed
  <1>2. Inv /\ [Next]_vars => Inv'
    BY NextTyped, NextUndisturbed, NextExclusive, NextLevel, NextListed
  <1>3. Inv => IInv
    BY DEF IInv, Typed, Undisturbed, Exclusive, Listed
  <1> HIDE DEF Inv
  <1> QED
    BY <1>1, <1>2, <1>3, PTL DEF Spec

(* A thread in the ready list is READY, and one in a semaphore's list waits *)
(* for that semaphore.                                                      *)
THEOREM StatusOfListed == Spec => []StatusMatchesList
  <1>1. IInv => StatusMatchesList
    BY DEF IInv
  <1> QED
    BY <1>1, Invariance, PTL

(* No EOI is lost, and no two are owed. *)
THEOREM EoiDelivered == Spec => []EoiOwed
  <1>1. IInv => EoiOwed
    <2> SUFFICES ASSUME IInv PROVE EoiOwed
      OBVIOUS
    <2> DEFINE inStub == {t \in Thread : isr[t] # "none"}
    <2>1. \A t, u \in inStub : t = u
      BY DEF IInv, StubSound
    <2>2. ~inService => inStub = {}
      BY DEF IInv, StubSound
    <2>3. ASSUME NEW t \in inStub PROVE t = running \/ t \in Range(ready)
      <3> SUFFICES ASSUME t # running PROVE t \in Range(ready)
        OBVIOUS
      <3>1. pc[t] \in Outside \cup {"store"} /\ t \in Thread
        BY <2>3 DEF IInv, LevelSound
      <3>2. pc[t] \notin {"exit", "restore", "block"}
        BY <3>1 DEF Outside
      <3>3. status[t] = "READY"
        <4>1. ~BeingMade(t)
          BY <3>1, <3>2, ThreadAssumption DEF IInv, MakingSound, BeingMade, NeverRan,
            TypeOK, Thread
        <4>2. \A s \in Sema : t \notin Range(waiters[s])
          BY <3>1 DEF IInv, StatusSound, Outside
        <4> QED
          BY <3>1, <3>2, <4>1, <4>2 DEF IInv, StatusSound, NeverRan, TypeOK, Status
      <3> QED
        BY <3>1, <3>2, <3>3 DEF IInv, StatusSound, NeverRan
    <2>4. inService => \E t \in inStub : TRUE
      BY DEF IInv, LevelSound
    <2> QED
      BY <2>1, <2>2, <2>3, <2>4 DEF EoiOwed
  <1> QED
    BY <1>1, Invariance, PTL

(* Where a thread is linked, seen as membership in the lists. *)
LEMMA PlacesOf ==
  ASSUME TypeOK, NEW t \in Thread
  PROVE  Places(t) # {} <=> t \in Range(ready) \/ \E s \in Sema : t \in Range(waiters[s])
  <1>1. (\E i \in DOMAIN ready : ready[i] = t) <=> t \in Range(ready)
    BY DEF Range
  <1>2. \A s \in Sema : (\E i \in DOMAIN waiters[s] : waiters[s][i] = t)
                        <=> t \in Range(waiters[s])
    BY DEF Range
  <1>3. Places(t) # {} <=> \/ \E i \in DOMAIN ready : ready[i] = t
                           \/ \E s \in Sema : \E i \in DOMAIN waiters[s] : waiters[s][i] = t
    <2>1. ASSUME NEW p \in Places(t)
          PROVE  \/ \E i \in DOMAIN ready : ready[i] = t
                 \/ \E s \in Sema : \E i \in DOMAIN waiters[s] : waiters[s][i] = t
      BY DEF Places
    <2>2. ASSUME NEW i \in DOMAIN ready, ready[i] = t
          PROVE  <<"ready", i>> \in Places(t)
      BY <2>2 DEF Places
    <2>3. ASSUME NEW s \in Sema, NEW i \in DOMAIN waiters[s], waiters[s][i] = t
          PROVE  <<s, i>> \in Places(t)
      BY <2>3 DEF Places
    <2> QED
      BY <2>1, <2>2, <2>3
  <1> QED
    BY <1>1, <1>2, <1>3

(* No thread is lost or linked twice, whatever wakes, blocks or preempts it. *)
THEOREM NoThreadLost == Spec => []ListsSound
  <1>1. IInv => ListsSound
    <2> SUFFICES ASSUME IInv, NEW t \in Thread
                 PROVE  /\ Cardinality(Places(t)) <= 1
                        /\ t = running /\ pc[t] # "block" => Places(t) = {}
                        /\ status[t] \in {"DEAD", "UNBORN"} => Places(t) = {}
                        /\ \/ t = running \/ status[t] \in {"DEAD", "UNBORN"}
                           \/ t = Idle /\ NeverRan(Idle)
                           \/ BeingMade(t) \/ Places(t) # {}
      BY DEF ListsSound
    <2>1. /\ t \in Range(ready) => status[t] = "READY" /\ t # running
          /\ \A s \in Sema : t \in Range(waiters[s]) =>
               /\ obj[t] = s /\ fn[t] \in {"lock_acquire", "semaphore_dec"}
               /\ status[t] = "BLOCKED" \/ pc[t] = "block"
               /\ t = running => pc[t] = "block"
      BY DEF IInv, StatusMatchesList, StatusSound
    <2>2. pc[t] = "block" => t = running
      BY DEF IInv, CriticalAtomic, Critical
    <2>3. \A p, q \in Places(t) : p = q
      <3>1. \A i, j \in DOMAIN ready : ready[i] = t /\ ready[j] = t => i = j
        BY DEF IInv, StatusSound, IsInjective
      <3>2. \A s \in Sema : \A i, j \in DOMAIN waiters[s] :
              waiters[s][i] = t /\ waiters[s][j] = t => i = j
        BY DEF IInv, StatusSound, IsInjective
      <3>3. \A i \in DOMAIN ready : ready[i] = t => t \in Range(ready)
        BY DEF Range
      <3>4. \A s \in Sema : \A i \in DOMAIN waiters[s] :
              waiters[s][i] = t => t \in Range(waiters[s])
        BY DEF Range
      <3>5. \A s \in Sema : ~(t \in Range(ready) /\ t \in Range(waiters[s]))
        BY <2>1, <2>2
      <3>6. \A r, s \in Sema : t \in Range(waiters[r]) /\ t \in Range(waiters[s]) => r = s
        BY <2>1
      <3>7. ASSUME NEW p \in Places(t)
            PROVE  \/ \E i \in DOMAIN ready : ready[i] = t /\ p = <<"ready", i>>
                   \/ \E s \in Sema : \E i \in DOMAIN waiters[s] :
                        waiters[s][i] = t /\ p = <<s, i>>
        BY DEF Places
      <3> QED
        BY <3>1, <3>2, <3>3, <3>4, <3>5, <3>6, <3>7
    <2>4. Cardinality(Places(t)) <= 1
      <3>1. CASE Places(t) = {}
        BY <3>1, FS_EmptySet
      <3>2. CASE Places(t) # {}
        <4>1. PICK p : Places(t) = {p}
          BY <2>3, <3>2
        <4> QED
          BY <4>1, FS_Singleton
      <3> QED
        BY <3>1, <3>2
    <2>5. Places(t) # {} <=> t \in Range(ready) \/ \E s \in Sema : t \in Range(waiters[s])
      BY PlacesOf DEF IInv
    <2>6. status[t] \in {"DEAD", "UNBORN"} => pc[t] # "block"
      BY DEF IInv, StatusSound, NeverRan
    <2>7. \/ t = running \/ status[t] \in {"DEAD", "UNBORN"}
          \/ t = Idle /\ NeverRan(Idle)
          \/ BeingMade(t) \/ Places(t) # {}
      BY <2>5 DEF IInv, StatusSound, TypeOK, Status
    <2> QED
      BY <2>1, <2>2, <2>4, <2>5, <2>6, <2>7
  <1> QED
    BY <1>1, Invariance, PTL

(* A thread that has called exit_thread never runs again. *)
THEOREM DeadForGood == Spec => DeadStaysDead
  <1>1. IInv /\ [Next]_vars =>
          [\A t \in Thread : StaysDead(t)]_vars
    <2> SUFFICES ASSUME IInv, Next, NEW u \in Thread, status[u] = "DEAD"
                 PROVE  status'[u] = "DEAD" /\ running' # u
      BY DEF StaysDead
    <2>1. /\ pc[u] = "exit" /\ isr[u] = "none" /\ u # Idle /\ u \notin Range(ready)
          /\ \A s \in Sema : u \notin Range(waiters[s])
      BY DEF IInv, StatusSound, StatusMatchesList, LevelSound, MakingSound, Outside
    <2>2. u = running => ~iflag
      BY <2>1 DEF IInv, LevelSound, Outside
    <2>3. ASSUME NEW q \in Seq(Thread), Schedule(q), u \notin Range(q)
          PROVE  running' # u
      <3>1. CASE q = <<>>
        BY <2>1, <2>3, <3>1 DEF Schedule
      <3>2. CASE q # <<>>
        BY <2>3, <3>2, PoppedFront DEF Schedule
      <3> QED
        BY <3>1, <3>2
    <2>4. ASSUME NEW w \in Thread, w # u, status' = [status EXCEPT ![w] = "READY"]
          PROVE  status'[u] = "DEAD"
      BY <2>4 DEF IInv, TypeOK
    <2>5. ASSUME NEW s \in Sema, WakeFirst(s) PROVE status'[u] = "DEAD"
      <3>1. CASE waiters[s] = <<>>
        BY <2>5, <3>1 DEF WakeFirst
      <3>2. CASE waiters[s] # <<>>
        <4>1. Head(waiters[s]) \in Thread /\ Head(waiters[s]) # u
          BY <2>1, <3>2, PoppedFront DEF IInv, TypeOK
        <4> QED
          BY <2>4, <2>5, <3>2, <4>1 DEF WakeFirst, MakeReady
      <3> QED
        BY <3>1, <3>2
    <2>6. CASE Interrupt
      BY <2>2, <2>6 DEF Interrupt, sched
    <2>7. ASSUME NEW t \in Thread, UserStep(t)
          PROVE  status'[u] = "DEAD" /\ running' # u
      <3>1. running = t /\ running' = t /\ pc[t] = "client"
        BY <2>7 DEF UserStep, LockAcquire, LockRelease, SemaphoreDec, SemaphoreInc,
          CreateThread, Exit, Call, At, cpu
      <3>2. status' = status \/ status' = [status EXCEPT ![t] = "DEAD"]
        BY <2>7 DEF UserStep, LockAcquire, LockRelease, SemaphoreDec, SemaphoreInc,
          CreateThread, Exit, Call, sched
      <3> QED
        BY <2>1, <3>1, <3>2 DEF IInv, TypeOK
    <2>8. ASSUME NEW t \in Thread, KernelStep(t)
          PROVE  status'[u] = "DEAD" /\ running' # u
      <3>1. CASE DecBlock(t)
        <4>1. t # u /\ status' = [status EXCEPT ![t] = "BLOCKED"] /\ Schedule(ready)
          BY <2>1, <3>1 DEF DecBlock, At
        <4> QED
          BY <2>1, <2>3, <4>1 DEF IInv, TypeOK
      <3>2. CASE Depart(t)
        BY <2>1, <2>3, <3>2 DEF Depart, IInv, TypeOK
      <3>3. CASE Unblock(t)
        <4>1. running = t /\ running' = t /\ pc[t] = "critical"
              /\ status' = [status EXCEPT ![obj[t]] = "READY"]
          BY <3>3 DEF Unblock, At, MakeReady, cpu
        <4>2. obj[t] \in Thread /\ obj[t] # u
          <5>1. PICK w \in Worker : obj[t] = w /\ making[t] = w
            BY <3>3 DEF Unblock, At, IInv, MakingSound, TypeOK
          <5>2. BeingMade(w) /\ w \in Thread
            BY <4>1, <5>1, Distinct DEF BeingMade
          <5>3. NeverRan(w)
            BY <5>2 DEF IInv, MakingSound
          <5> QED
            BY <2>1, <5>1, <5>2, <5>3 DEF NeverRan
        <4> QED
          BY <2>1, <2>4, <4>1, <4>2
      <3>4. CASE IncWake(t)
        <4>1. obj[t] \in Sema /\ WakeFirst(obj[t]) /\ running' = t /\ pc[t] = "wake"
          BY <3>4, Distinct DEF IncWake, At, cpu, IInv, FunctionMatches
        <4> QED
          BY <2>1, <2>5, <4>1
      <3>5. CASE Allocate(t)
        <4>1. /\ running' = t /\ pc[t] = "client" /\ status[making[t]] = "UNBORN"
              /\ status' = [status EXCEPT ![making[t]] = "BLOCKED"]
          BY <3>5 DEF Allocate, At, Creating, cpu
        <4> QED
          BY <2>1, <4>1 DEF IInv, TypeOK
      <3>6. CASE \/ SaveLevel(t) \/ Cli(t) \/ RestoreLevel(t) \/ StoreLevel(t)
                 \/ DecLoad(t) \/ DecTake(t) \/ DecWait(t) \/ SetHolder(t)
                 \/ IncAdd(t) \/ LoadTid(t) \/ StoreTid(t)
        <4>1. status' = status /\ running' = t /\ pc[t] # "exit"
          BY <3>6 DEF SaveLevel, Cli, RestoreLevel, StoreLevel, DecLoad, DecTake,
            DecWait, SetHolder, IncAdd, LoadTid, StoreTid, At, cpu, sched
        <4> QED
          BY <2>1, <4>1
      <3> QED
        BY <2>8, <3>1, <3>2, <3>3, <3>4, <3>5, <3>6 DEF KernelStep
    <2>9. ASSUME NEW t \in Thread, StubStep(t)
          PROVE  status'[u] = "DEAD" /\ running' # u
      <3>1. running = t /\ isr[t] # "none" /\ t # u
        BY <2>1, <2>9 DEF StubStep, HandlerInc, DeferNone, Resume, DeferYield
      <3>2. ASSUME NEW s \in IsrSema, HandlerInc(t, s)
            PROVE  status'[u] = "DEAD" /\ running' # u
        BY <2>5, <3>1, <3>2, SemaAssumption, Distinct DEF HandlerInc, cpu
      <3>3. CASE LeaveStub(t)
        BY <3>1, <3>3 DEF LeaveStub, sched
      <3>4. CASE DeferYield(t)
        <4>1. /\ Append(ready, t) \in Seq(Thread) /\ ready \in Seq(Thread)
              /\ u \notin Range(Append(ready, t))
          BY <2>1, <3>1, PushedBack DEF IInv, TypeOK
        <4> QED
          BY <2>1, <2>3, <3>4, <4>1 DEF DeferYield
      <3> QED
        BY <2>9, <3>2, <3>3, <3>4 DEF StubStep, DeferNone, Resume
    <2> QED
      BY <2>6, <2>7, <2>8, <2>9 DEF Next
  <1> QED
    BY <1>1, Invariance, PTL DEF Spec, DeadStaysDead

(***************************************************************************)
(* Thread ids, when only the boot thread creates threads.                  *)
(***************************************************************************)

(* What a step does to the status of a thread that create_thread is still   *)
(* working on: nothing, unless it is create_thread's own.                   *)
LEMMA MakingKept ==
  ASSUME Typed, Undisturbed, LevelSound, Listed, MakingSound, Next,
         \A t \in Thread : ~Allocate(t) /\ ~Unblock(t)
  PROVE  \A x \in Thread : /\ status'[x] = "UNBORN" <=> status[x] = "UNBORN"
                           /\ BeingMade(x) => status'[x] = status[x]
  <1>1. ASSUME NEW x \in Thread, BeingMade(x)
        PROVE  /\ NeverRan(x) /\ x # running /\ status[x] # "DEAD"
               /\ \A s \in Sema : x \notin Range(waiters[s])
    <2>1. x \in Worker
      BY <1>1, ThreadAssumption DEF BeingMade, Typed, TypeOK, Thread
    <2> QED
      BY <1>1, <2>1 DEF MakingSound, NeverRan, Listed, StatusMatchesList
  <1>2. ASSUME NEW w \in Thread, NEW st \in {"READY", "BLOCKED", "DEAD"},
               status[w] # "UNBORN", ~BeingMade(w), status' = [status EXCEPT ![w] = st]
        PROVE  \A x \in Thread : /\ status'[x] = "UNBORN" <=> status[x] = "UNBORN"
                                 /\ BeingMade(x) => status'[x] = status[x]
    BY <1>2 DEF Typed, TypeOK
  <1>3. status[running] # "UNBORN" /\ ~BeingMade(running) /\ running \in Thread
    BY <1>1 DEF Listed, StatusSound, Typed, TypeOK
  <1>4. ASSUME NEW s \in Sema, WakeFirst(s), status' # status
        PROVE  \E w \in Thread : /\ status[w] # "UNBORN" /\ ~BeingMade(w)
                                 /\ status' = [status EXCEPT ![w] = "READY"]
    <2>1. waiters[s] # <<>> /\ MakeReady(Head(waiters[s]))
      BY <1>4 DEF WakeFirst
    <2>2. Head(waiters[s]) \in Thread /\ Head(waiters[s]) \in Range(waiters[s])
      BY <2>1, PoppedFront DEF Typed, TypeOK
    <2>3. status[Head(waiters[s])] # "UNBORN" /\ ~BeingMade(Head(waiters[s]))
      BY <1>1, <2>2 DEF Listed, StatusMatchesList, StatusSound, NeverRan
    <2> QED
      BY <2>1, <2>2, <2>3 DEF MakeReady
  <1>5. CASE status' = status
    BY <1>5
  <1>6. CASE Interrupt
    BY <1>5, <1>6 DEF Interrupt, sched
  <1>7. ASSUME NEW t \in Thread, UserStep(t)
        PROVE  \/ status' = status
               \/ running = t /\ status' = [status EXCEPT ![t] = "DEAD"]
    BY <1>7 DEF UserStep, LockAcquire, LockRelease, SemaphoreDec, SemaphoreInc,
      CreateThread, Exit, Call, At, sched
  <1>8. ASSUME NEW t \in Thread, KernelStep(t)
        PROVE  \/ status' = status
               \/ running = t /\ status' = [status EXCEPT ![t] = "BLOCKED"]
               \/ \E s \in Sema : WakeFirst(s)
    <2>1. CASE IncWake(t)
      BY <2>1, Distinct DEF IncWake, At, Typed, FunctionMatches
    <2>2. CASE DecBlock(t)
      BY <2>2 DEF DecBlock, At
    <2>3. CASE ~IncWake(t) /\ ~DecBlock(t)
      BY <1>8, <2>3 DEF KernelStep, SaveLevel, Cli, RestoreLevel, StoreLevel, DecLoad,
        DecTake, DecWait, SetHolder, IncAdd, LoadTid, StoreTid, Depart, sched
    <2> QED
      BY <2>1, <2>2, <2>3
  <1>9. ASSUME NEW t \in Thread, StubStep(t)
        PROVE  status' = status \/ \E s \in Sema : WakeFirst(s)
    BY <1>9, SemaAssumption, Distinct DEF StubStep, HandlerInc, DeferNone, Resume,
      LeaveStub, DeferYield, sched
  <1>10. CASE \E s \in Sema : WakeFirst(s)
    BY <1>2, <1>4, <1>5, <1>10
  <1>11. CASE \E st \in {"BLOCKED", "DEAD"} : status' = [status EXCEPT ![running] = st]
    BY <1>2, <1>3, <1>11
  <1> QED
    BY <1>5, <1>6, <1>7, <1>8, <1>9, <1>10, <1>11 DEF Next

(* At boot the boot thread has id 0 and the idle thread id 1. *)
LEMMA InitIds == Init => IdsSound
  <1> SUFFICES ASSUME Init PROVE IdsSound
    OBVIOUS
  <1>1. \A t \in Thread : making[t] = None /\ pc[t] # "tid" /\ fn[t] = "start_thread"
    BY DEF Init
  <1>2. \A t \in Thread : Numbered(t) => t \in {Idle, Initial}
    BY DEF Init, Numbered
  <1>3. nextTid = 2 /\ \A t \in Thread : tid[t] = IF t = Idle THEN 1 ELSE 0
    BY DEF Init
  <1> QED
    BY <1>1, <1>2, <1>3 DEF IdsSound

(* A step that stores no id keeps the ids, if it numbers no thread. *)
LEMMA IdsKept ==
  ASSUME IdsSound, UNCHANGED ids,
         \A t \in Thread : Numbered(t)' => Numbered(t),
         \A t \in Thread :
           /\ making'[t] # None => t = Initial
           /\ pc'[t] = "tid" => val'[t] = nextTid
           /\ making'[t] # None
              /\ (pc'[t] = "tid" \/ (fn'[t] = "thread_unblock" /\ pc'[t] \in {"save", "cli", "critical"}))
              => status'[making'[t]] = "BLOCKED"
  PROVE  IdsSound'
  BY DEF IdsSound, ids

(* The id that assign_id stores is new. *)
LEMMA StoreIds ==
  ASSUME Typed, MakingSound, IdsSound, NEW t \in Thread, StoreTid(t)
  PROVE  IdsSound'
  <1>1. /\ running = t /\ pc[t] = "tid" /\ pc' = [pc EXCEPT ![t] = "save"]
        /\ fn' = [fn EXCEPT ![t] = "thread_unblock"]
        /\ UNCHANGED <<status, making>> /\ val' = val
        /\ nextTid' = val[t] + 1 /\ tid' = [tid EXCEPT ![making[t]] = val[t]]
    BY DEF StoreTid, Enter, At, Goto, sched, user
  <1>2. PICK w \in Worker : making[t] = w
    BY <1>1 DEF Typed, TypeOK, FunctionMatches
  <1>3. val[t] = nextTid /\ nextTid' = nextTid + 1 /\ nextTid \in Nat
    BY <1>1 DEF IdsSound, Typed, TypeOK
  <1>4. /\ w \in Thread /\ tid'[w] = nextTid
        /\ \A x \in Thread : x # w => tid'[x] = tid[x]
    BY <1>1, <1>2, <1>3, Distinct DEF Typed, TypeOK
  <1>5. \A x \in Thread : x # w /\ Numbered(x)' => Numbered(x)
    BY <1>1, <1>2 DEF Numbered, Typed, TypeOK
  <1>6. \A x \in Thread : tid[x] \in Nat
    BY DEF Typed, TypeOK
  <1>7. \A x \in Thread : making[x] # None => x = t
    BY <1>2, Distinct DEF IdsSound
  <1>8. \A x \in Thread : x # t => pc'[x] = pc[x]
    BY <1>1 DEF Typed, TypeOK
  <1>9. \A x \in Thread : pc'[x] # "tid"
    BY <1>1, <1>7, <1>8 DEF Typed, TypeOK, FunctionMatches
  <1> QED
    BY <1>1, <1>2, <1>3, <1>4, <1>5, <1>6, <1>7, <1>9, Distinct DEF IdsSound

(* Every step keeps the ids sound. *)
LEMMA NextIds ==
  ASSUME Creator \subseteq {Initial},
         Typed, Undisturbed, LevelSound, Listed, MakingSound, IdsSound, [Next]_vars
  PROVE  IdsSound'
  <1> USE ThreadAssumption
  <1>1. CASE UNCHANGED vars
    BY <1>1 DEF vars, sched, frame, user, ids, IdsSound, Numbered
  <1>2. ASSUME NEW t \in Thread, Allocate(t) PROVE IdsSound'
    <2>1. /\ pc[t] = "client" /\ making[t] \in Thread
          /\ status' = [status EXCEPT ![making[t]] = "BLOCKED"]
          /\ UNCHANGED <<fn, pc, val, making>> /\ UNCHANGED ids
      BY <1>2, Distinct DEF Allocate, At, Creating, frame, user, Typed, TypeOK
    <2>2. \A x \in Thread : Numbered(x)' => Numbered(x)
      BY <2>1 DEF Numbered, Typed, TypeOK
    <2>3. \A x \in Thread : making[x] # None => x = t
      BY <2>1 DEF IdsSound
    <2> QED
      BY <2>1, <2>2, <2>3, IdsKept DEF IdsSound
  <1>3. ASSUME NEW t \in Thread, Unblock(t) PROVE IdsSound'
    <2>1. /\ pc[t] = "critical" /\ fn[t] = "thread_unblock"
          /\ pc' = [pc EXCEPT ![t] = "restore"]
          /\ status' = [status EXCEPT ![obj[t]] = "READY"]
          /\ UNCHANGED <<fn, val, making>> /\ UNCHANGED ids
      BY <1>3 DEF Unblock, At, Goto, MakeReady, user
    <2>2. obj[t] = making[t] /\ making[t] # None /\ making[t] \in Thread
      BY <2>1, Distinct DEF MakingSound, Typed, TypeOK
    <2>3. status[making[t]] = "BLOCKED" /\ t = Initial
      BY <2>1, <2>2 DEF IdsSound
    <2>4. \A x \in Thread : Numbered(x)' => Numbered(x)
      BY <2>1, <2>2, <2>3 DEF Numbered, Typed, TypeOK
    <2>5. \A x \in Thread : making[x] # None => x = t
      BY <2>3 DEF IdsSound
    <2>6. pc'[t] = "restore" /\ \A x \in Thread : x # t => pc'[x] = pc[x]
      BY <2>1 DEF Typed, TypeOK
    <2> QED
      BY <2>1, <2>4, <2>5, <2>6, IdsKept DEF IdsSound
  <1>4. ASSUME Next, \A t \in Thread : ~Allocate(t) /\ ~Unblock(t) /\ ~StoreTid(t)
        PROVE  IdsSound'
    <2>1. \A x \in Thread : /\ status'[x] = "UNBORN" <=> status[x] = "UNBORN"
                            /\ BeingMade(x) => status'[x] = status[x]
      BY <1>4, MakingKept
    <2>2. CASE UNCHANGED <<fn, pc, val, making>> /\ UNCHANGED ids
      <3>1. \A t \in Thread : pc[t] \in {"tid", "save", "cli", "critical"} /\ making[t] # None
                              => BeingMade(making[t]) /\ making[t] \in Thread
        BY Distinct DEF BeingMade, Typed, TypeOK
      <3>2. \A x \in Thread : Numbered(x)' => Numbered(x)
        BY <2>1, <2>2 DEF Numbered
      <3> QED
        BY <2>1, <2>2, <3>1, <3>2, IdsKept DEF IdsSound
    <2>3. ASSUME NEW t \in Thread, UNCHANGED ids,
                 \A u \in Thread : u # t => /\ fn'[u] = fn[u] /\ pc'[u] = pc[u]
                                           /\ making'[u] = making[u] /\ val'[u] = val[u],
                 making'[t] # None => t = Initial,
                 pc'[t] = "tid" => val'[t] = nextTid,
                 /\ making'[t] # None
                 /\ pc'[t] = "tid" \/ (fn'[t] = "thread_unblock"
                                         /\ pc'[t] \in {"save", "cli", "critical"})
                 => /\ making'[t] = making[t] /\ status[making[t]] = "BLOCKED"
                    /\ BeingMade(making[t]),
                 /\ making[t] # None
                 /\ fn[t] = "thread_unblock" => pc[t] \in {"client", "tid"}
                 => /\ making'[t] = making[t]
                    /\ fn'[t] = "thread_unblock" => pc'[t] \in {"client", "tid"}
          PROVE  IdsSound'
      <3>1. ASSUME NEW x \in Thread, Numbered(x)' PROVE Numbered(x)
        BY <2>1, <2>3, <3>1 DEF Numbered
      <3>2. \A u \in Thread : making[u] # None => making[u] \in Thread
        BY Distinct DEF Typed, TypeOK
      <3>3. \A u \in Thread : pc[u] \in {"tid", "save", "cli", "critical"} /\ making[u] # None
                              => BeingMade(making[u])
        BY DEF BeingMade
      <3>4. ASSUME NEW u \in Thread
            PROVE  /\ making'[u] # None => u = Initial
                   /\ pc'[u] = "tid" => val'[u] = nextTid
                   /\ making'[u] # None
                      /\ (pc'[u] = "tid" \/ (fn'[u] = "thread_unblock"
                                               /\ pc'[u] \in {"save", "cli", "critical"}))
                      => status'[making'[u]] = "BLOCKED"
        <4>1. CASE u = t
          BY <2>1, <2>3, <3>2, <4>1
        <4>2. CASE u # t
          BY <2>1, <2>3, <3>2, <3>3, <4>2 DEF IdsSound
        <4> QED
          BY <4>1, <4>2
      <3> QED
        BY <2>3, <3>1, <3>4, IdsKept
    <2>4. ASSUME NEW t \in Thread, UserStep(t) PROVE IdsSound'
      <3>1. ASSUME NEW f, NEW o, f # "thread_unblock", At(t, "client"), Enter(t, f, o),
                   UNCHANGED ids, \A u \in Thread : u # t => making'[u] = making[u],
                   making'[t] # None => t = Initial,
                   making[t] # None => making'[t] = making[t]
            PROVE  IdsSound'
        <4>1. /\ fn'[t] = f /\ pc'[t] = "save" /\ val' = val
              /\ \A u \in Thread : u # t => fn'[u] = fn[u] /\ pc'[u] = pc[u]
          BY <3>1 DEF Enter, Goto, Typed, TypeOK
        <4> QED
          BY <2>3, <3>1, <4>1
      <3>2. ASSUME NEW f, NEW o, f # "thread_unblock", Call(t, f, o), making' = making
            PROVE  IdsSound'
        BY <3>1, <3>2 DEF Call
      <3>3. ASSUME NEW l \in Lock, LockRelease(t, l) PROVE IdsSound'
        BY <3>1, <3>3 DEF LockRelease, IdsSound
      <3>4. ASSUME NEW w \in Worker, CreateThread(t, w) PROVE IdsSound'
        <4>1. /\ t = Initial /\ making[t] = None
              /\ \A u \in Thread : u # t => making'[u] = making[u]
          BY <3>4 DEF CreateThread, Call, Typed, TypeOK
        <4> QED
          BY <3>1, <3>4, <4>1 DEF CreateThread, Call
      <3>5. CASE Exit(t)
        <4>1. /\ making[t] = None /\ UNCHANGED <<fn, val, making>> /\ UNCHANGED ids
              /\ pc' = [pc EXCEPT ![t] = "exit"]
          BY <3>5 DEF Exit, Goto, user
        <4>2. pc'[t] = "exit" /\ \A u \in Thread : u # t => pc'[u] = pc[u]
          BY <4>1 DEF Typed, TypeOK
        <4> QED
          BY <2>3, <4>1, <4>2
      <3> QED
        BY <2>4, <3>2, <3>3, <3>4, <3>5 DEF UserStep, LockAcquire, SemaphoreDec, SemaphoreInc
    <2>5. ASSUME NEW t \in Thread, NEW p \in Place, pc' = [pc EXCEPT ![t] = p],
                 UNCHANGED <<fn, making>> /\ UNCHANGED ids,
                 \A u \in Thread : u # t => val'[u] = val[u],
                 p = "tid" => /\ val'[t] = nextTid /\ pc[t] = "client"
                              /\ status[making[t]] = "BLOCKED",
                 fn[t] = "thread_unblock" =>
                   /\ p \in {"save", "cli", "critical"} => pc[t] \in {"save", "cli", "critical"}
                   /\ pc[t] \in {"client", "tid"} => p \in {"client", "tid"}
          PROVE  IdsSound'
      <3>1. pc'[t] = p /\ \A u \in Thread : u # t => pc'[u] = pc[u]
        BY <2>5 DEF Typed, TypeOK
      <3>2. making[t] # None /\ pc[t] \in {"client", "save", "cli", "critical"}
            => BeingMade(making[t])
        BY DEF BeingMade
      <3> QED
        BY <2>3, <2>5, <3>1, <3>2 DEF IdsSound
    <2>6. ASSUME NEW t \in Thread, pc[t] \in {"restore", "store"}, Return(t), UNCHANGED ids
          PROVE  IdsSound'
      <3>1. /\ UNCHANGED <<fn, val>> /\ pc'[t] \in {"hold", "client"}
            /\ \A u \in Thread : u # t => pc'[u] = pc[u] /\ making'[u] = making[u]
            /\ making'[t] = IF fn[t] = "thread_unblock" THEN None ELSE making[t]
        BY <2>6 DEF Return, Goto, Typed, TypeOK
      <3> QED
        BY <2>3, <2>6, <3>1 DEF IdsSound
    <2>7. ASSUME NEW t \in Thread, KernelStep(t) PROVE IdsSound'
      <3> USE DEF At, Goto, Place, user
      <3>1. CASE SaveLevel(t)
        BY <2>5, <3>1 DEF SaveLevel
      <3>2. CASE Cli(t)
        BY <2>5, <3>2 DEF Cli
      <3>3. CASE RestoreLevel(t)
        <4>1. CASE Return(t)
          BY <2>6, <3>3, <4>1 DEF RestoreLevel
        <4>2. CASE pc' = [pc EXCEPT ![t] = "store"] /\ UNCHANGED <<fn, val, user>>
          BY <2>5, <3>3, <4>2 DEF RestoreLevel
        <4> QED
          BY <3>3, <4>1, <4>2 DEF RestoreLevel
      <3>4. CASE StoreLevel(t)
        BY <2>6, <3>4 DEF StoreLevel
      <3>5. CASE DecLoad(t)
        <4>1. \A u \in Thread : u # t => val'[u] = val[u]
          BY <3>5 DEF DecLoad, Typed, TypeOK
        <4> QED
          BY <2>5, <3>5, <4>1 DEF DecLoad
      <3>6. CASE DecTake(t)
        BY <2>5, <3>6 DEF DecTake
      <3>7. CASE DecWait(t)
        BY <2>5, <3>7 DEF DecWait
      <3>8. CASE DecBlock(t)
        BY <2>5, <3>8 DEF DecBlock
      <3>9. CASE SetHolder(t)
        <4>1. fn[t] # "thread_unblock"
          BY <3>9 DEF SetHolder, Typed, FunctionMatches
        <4> QED
          BY <2>5, <3>9, <4>1 DEF SetHolder
      <3>10. CASE IncAdd(t)
        BY <2>5, <3>10 DEF IncAdd
      <3>11. CASE IncWake(t)
        BY <2>5, <3>11 DEF IncWake
      <3>12. CASE LoadTid(t)
        <4>1. val'[t] = nextTid /\ \A u \in Thread : u # t => val'[u] = val[u]
          BY <3>12 DEF LoadTid, Typed, TypeOK
        <4> QED
          BY <2>5, <3>12, <4>1 DEF LoadTid, Creating
      <3>13. CASE Depart(t)
        BY <2>2, <3>13 DEF Depart, frame
      <3> QED
        BY <1>4, <2>7, <3>1, <3>2, <3>3, <3>4, <3>5, <3>6, <3>7, <3>8, <3>9, <3>10,
           <3>11, <3>12, <3>13 DEF KernelStep
    <2>8. CASE Interrupt \/ \E t \in Thread : StubStep(t)
      BY <2>2, <2>8 DEF Interrupt, StubStep, HandlerInc, DeferNone, Resume, LeaveStub,
        DeferYield, frame, user
    <2> QED
      BY <1>4, <2>4, <2>7, <2>8 DEF Next
  <1> QED
    BY <1>1, <1>2, <1>3, <1>4, StoreIds

(* If only the boot thread creates threads, no two threads have the same    *)
(* id: the load and the store of next_tid in assign_id are one step to      *)
(* everybody else.                                                          *)
THEOREM UniqueTids == ASSUME Creator \subseteq {Initial} PROVE Spec => []TidsUnique
  <1> DEFINE Inv == /\ Typed /\ Undisturbed
                    /\ LevelSound /\ Listed /\ MakingSound /\ IdsSound
  <1>1. Init => Inv
    BY InitTyped, InitUndisturbed, InitLevel, InitListed, InitIds
  <1>2. Inv /\ [Next]_vars => Inv'
    BY NextTyped, NextUndisturbed, NextLevel, NextListed, NextIds
  <1>3. Inv => TidsUnique
    <2> SUFFICES ASSUME Inv, NEW t \in Thread, status[t] # "UNBORN", ~BeingMade(t)
                 PROVE  Numbered(t)
      BY DEF TidsUnique, IdsSound
    <2> QED
      BY DEF BeingMade, Numbered
  <1> HIDE DEF Inv
  <1> QED
    BY <1>1, <1>2, <1>3, PTL DEF Spec
=============================================================================
