------------------------------ MODULE TimerProofs ------------------------------
(***************************************************************************)
(* Proofs about Timer: its steps are steps of Threads, the handler only    *)
(* leaves the queue through a push that is under way, and, as long as no   *)
(* thread sleeps a second time, nobody returns early from its sleep, the   *)
(* queue stays intact and every due thread is woken.                       *)
(***************************************************************************)
EXTENDS Timer, ThreadsListsProofs

-----------------------------------------------------------------------------
(* Timer implements Threads *)

(* Each step of the timer is a step of Threads or leaves it alone. *)
LEMMA TimerSteps == [TimerNext]_allVars => [Next]_vars
  <1> SUFFICES ASSUME [TimerNext]_allVars PROVE [Next]_vars
    OBVIOUS
  <1> USE TimerAssumption, SemaAssumption
  <1>1. CASE UNCHANGED allVars
    BY <1>1 DEF allVars
  <1>2. CASE Fire
    BY <1>2 DEF Fire, Next
  <1>3. ASSUME NEW t \in Thread, ThreadStep(t) PROVE [Next]_vars
    BY <1>3 DEF ThreadStep, Next, UserStep, StubStep
  <1>4. ASSUME NEW t \in Thread, HandlerStep(t) PROVE [Next]_vars
    <2>1. CASE Tick(t)
      BY <2>1 DEF Tick
    <2>2. CASE Visit(t)
      <3>1. cursor \in Worker /\ SleepSema[cursor] \in IsrSema
        BY <2>2 DEF Visit
      <3> QED
        BY <2>2, <3>1 DEF Visit, Next, StubStep
    <2>3. CASE Finish(t)
      BY <2>3 DEF Finish, Next, StubStep
    <2> QED
      BY <1>4, <2>1, <2>2, <2>3 DEF HandlerStep
  <1>5. ASSUME NEW t \in Thread, Unhalt(t) PROVE [Next]_vars
    BY <1>5 DEF Unhalt
  <1>6. ASSUME NEW t \in Worker, SleepStep(t) PROVE [Next]_vars
    <2>1. t \in Thread /\ SleepSema[t] \in Counter
      BY DEF Thread
    <2>2. LockAcquire(t, QueueLock) \/ LockRelease(t, QueueLock)
          \/ SemaphoreDec(t, SleepSema[t]) \/ UNCHANGED vars
      BY <1>6 DEF SleepStep, Sleep, PushLink, PushEnd, PushCount, Unlock, Wait, Awake
    <2> QED
      BY <2>1, <2>2 DEF Next, UserStep
  <1> QED
    BY <1>1, <1>2, <1>3, <1>4, <1>5, <1>6 DEF TimerNext

(* timer.c does to the threads nothing but what thread.c, synch.c and the  *)
(* interrupt stub allow: every result on Threads holds of it.              *)
THEOREM TimerIsThreads == TimerSpec => Spec
  <1>1. TimerInit => Init
    BY DEF TimerInit
  <1> QED
    BY <1>1, TimerSteps, PTL DEF TimerSpec, Spec

-----------------------------------------------------------------------------
(* The walk of the handler *)

(* No thread takes a step of its own while the handler runs on its stack. *)
LEMMA ThreadsPause ==
  ASSUME WalkSound, NEW t \in Thread,
         ThreadStep(t) \/ (t \in Worker /\ SleepStep(t))
  PROVE  cursor = "none" /\ cursor' = "none"
  <1>1. running = t /\ isr[t] # "handler" /\ cursor' = cursor
    <2>1. CASE ThreadStep(t)
      BY <2>1 DEF ThreadStep, timer, KernelStep, SaveLevel, Cli, RestoreLevel, StoreLevel,
        DecLoad, DecTake, DecWait, DecBlock, SetHolder, IncAdd, IncWake, Allocate,
        LoadTid, StoreTid, Unblock, Depart, Resume, LockRelease, CreateThread, Call,
        Exit, At
    <2>2. CASE t \in Worker /\ SleepStep(t)
      BY <2>2 DEF SleepStep, Sleep, PushLink, PushEnd, PushCount, Unlock, Wait, Awake,
        LockAcquire, LockRelease, SemaphoreDec, Call, At, queue
    <2> QED
      BY <2>1, <2>2
  <1> QED
    BY <1>1 DEF WalkSound

(* Before the first interrupt and the first sleep. *)
LEMMA InitWalk == IInv /\ TimerInit => WalkSound
  BY TimerAssumption DEF TimerInit, WalkSound, TimerTypeOK, WildOnlyMidPush, IInv,
    Phase, ListHead, ListTail, Null

(* No step leads to a pointer that has never been written. *)
LEMMA NextWalk == IInv /\ IInv' /\ WalkSound /\ [TimerNext]_allVars => WalkSound'
  <1> SUFFICES ASSUME IInv, IInv', WalkSound, [TimerNext]_allVars PROVE WalkSound'
    OBVIOUS
  <1> USE TimerAssumption DEF ListHead, ListTail, Null
  <1>1. TypeOK /\ TypeOK'
    BY DEF IInv
  <1>2. /\ TimerTypeOK /\ WildOnlyMidPush
        /\ cursor # "none" => isr[running] = "handler"
        /\ cursor # "halted" => threadTicks <= TimeSlice
        /\ next[ListHead] # Null
        /\ \A t \in Worker :
             cursor = t \/ (\E e \in Worker \cup {ListHead} : next[e] = t) =>
               next[t] # Null \/ phase[t] = "linked"
    BY DEF WalkSound
  <1>3. CASE UNCHANGED allVars
    BY <1>1, <1>2, <1>3 DEF WalkSound, TimerTypeOK, WildOnlyMidPush, allVars, vars, timer, clock,
      queue, cpu, stub
  <1>4. CASE Fire
    <2>1. cursor = "none"
      BY <1>1, <1>2, <1>4 DEF Fire, Interrupt, IInv, StubSound, TypeOK
    <2>2. cursor' = "entry" /\ isr'[running'] = "handler"
      BY <1>1, <1>4 DEF Fire, Interrupt, TypeOK
    <2> QED
      BY <1>1, <1>2, <1>4, <2>1, <2>2 DEF WalkSound, TimerTypeOK, WildOnlyMidPush, Fire,
        clock, queue
  <1>5. ASSUME NEW t \in Thread, ThreadStep(t) PROVE WalkSound'
    <2>1. cursor = "none" /\ UNCHANGED timer
      BY <1>5, ThreadsPause DEF ThreadStep
    <2> QED
      BY <1>1, <1>2, <2>1 DEF WalkSound, TimerTypeOK, WildOnlyMidPush, timer, clock, queue
  <1>6. ASSUME NEW t \in Thread, Tick(t) PROVE WalkSound'
    BY <1>1, <1>2, <1>6 DEF WalkSound, TimerTypeOK, WildOnlyMidPush, Tick, InHandler, Begin, queue, vars, cpu, stub
  <1>7. ASSUME NEW t \in Thread, Unhalt(t) PROVE WalkSound'
    BY <1>1, <1>2, <1>7 DEF WalkSound, TimerTypeOK, WildOnlyMidPush, Unhalt, InHandler, Begin, queue, vars, cpu, stub
  <1>8. ASSUME NEW t \in Thread, Visit(t) PROVE WalkSound'
    BY <1>1, <1>2, <1>8 DEF WalkSound, TimerTypeOK, WildOnlyMidPush, Visit, InHandler, HandlerInc, queue, clock, vars, cpu, stub
  <1>9. ASSUME NEW t \in Thread, Finish(t) PROVE WalkSound'
    BY <1>1, <1>2, <1>9 DEF WalkSound, TimerTypeOK, WildOnlyMidPush, Finish, queue, clock
  <1>10. ASSUME NEW t \in Worker, SleepStep(t) PROVE WalkSound'
    <2>1. cursor = "none" /\ cursor' = "none"
      BY <1>10, ThreadsPause DEF Thread
    <2>2. ASSUME NEW d \in Duration, Sleep(t, d) PROVE WalkSound'
      BY <1>1, <1>2, <2>1, <2>2 DEF WalkSound, TimerTypeOK, WildOnlyMidPush, Sleep, InPhase, Phase, queue, clock
    <2>3. CASE PushLink(t)
      BY <1>1, <1>2, <2>1, <2>3 DEF WalkSound, TimerTypeOK, WildOnlyMidPush, PushLink, InPhase, Phase, queue, clock
    <2>4. CASE PushEnd(t)
      BY <1>1, <1>2, <2>1, <2>4 DEF WalkSound, TimerTypeOK, WildOnlyMidPush, PushEnd, InPhase, Phase, queue, clock
    <2>5. CASE PushCount(t)
      BY <1>1, <1>2, <2>1, <2>5 DEF WalkSound, TimerTypeOK, WildOnlyMidPush, PushCount, InPhase, Phase, queue, clock
    <2>6. CASE Unlock(t)
      BY <1>1, <1>2, <2>1, <2>6 DEF WalkSound, TimerTypeOK, WildOnlyMidPush, Unlock, InPhase, Phase, queue, clock
    <2>7. CASE Wait(t)
      BY <1>1, <1>2, <2>1, <2>7 DEF WalkSound, TimerTypeOK, WildOnlyMidPush, Wait, InPhase, Phase, queue, clock
    <2>8. CASE Awake(t)
      BY <1>1, <1>2, <2>1, <2>8 DEF WalkSound, TimerTypeOK, WildOnlyMidPush, Awake, InPhase, Phase, queue, clock
    <2> QED
      BY <1>10, <2>2, <2>3, <2>4, <2>5, <2>6, <2>7, <2>8 DEF SleepStep
  <1> QED
    BY <1>3, <1>4, <1>5, <1>6, <1>7, <1>8, <1>9, <1>10 DEF TimerNext, HandlerStep

(* The inductive invariant of the handler's walk, however often threads    *)
(* sleep and however long the queue becomes.                               *)
THEOREM WalkKept == TimerSpec => []WalkSound
  <1>1. Spec => []IInv
    BY Invariance
  <1> QED
    BY <1>1, TimerIsThreads, InitWalk, NextWalk, PTL DEF TimerSpec

(* Every variable of the timer keeps its type; in particular thread_ticks  *)
(* never passes the time slice by more than one.                           *)
THEOREM TimerTypes == TimerSpec => []TimerTypeOK
  <1>1. WalkSound => TimerTypeOK
    BY DEF WalkSound
  <1> QED
    BY <1>1, WalkKept, PTL

(* The handler follows a wild pointer only if it came between two stores   *)
(* of list_push_back, however often threads sleep.                         *)
THEOREM WildPointers == TimerSpec => []WildOnlyMidPush
  <1>1. WalkSound => WildOnlyMidPush
    BY DEF WalkSound
  <1> QED
    BY <1>1, WalkKept, PTL

-----------------------------------------------------------------------------
(* A thread within sleep_ticks *)

(* What a thread does by itself is its own business. *)
OwnStep(t) ==
  \/ KernelStep(t) \/ Resume(t) \/ Exit(t)
  \/ \E l \in Lock : LockAcquire(t, l) \/ LockRelease(t, l)
  \/ \E s \in Counter : SemaphoreDec(t, s)
  \/ \E w \in Worker : CreateThread(t, w)

LEMMA OthersKept ==
  ASSUME IInv, NEW t \in Thread, OwnStep(t), NEW u \in Thread, u # t
  PROVE  /\ fn'[u] = fn[u] /\ obj'[u] = obj[u] /\ pc'[u] = pc[u]
         /\ held'[u] = held[u] /\ making'[u] = making[u]
  <1> USE DEF IInv, TypeOK, Goto, frame, user
  <1>1. CASE KernelStep(t)
    BY <1>1 DEF KernelStep, SaveLevel, Cli, RestoreLevel, StoreLevel, Return,
      DecLoad, DecTake, DecWait, DecBlock, SetHolder, IncAdd, IncWake, Allocate,
      LoadTid, StoreTid, Unblock, Depart, Enter
  <1>2. CASE Resume(t) \/ Exit(t)
    BY <1>2 DEF Resume, LeaveStub, Exit
  <1>3. CASE \E l \in Lock : LockAcquire(t, l) \/ LockRelease(t, l)
    BY <1>3 DEF LockAcquire, LockRelease, Call, Enter
  <1>4. CASE \E s \in Counter : SemaphoreDec(t, s)
    BY <1>4 DEF SemaphoreDec, Call, Enter
  <1>5. CASE \E w \in Worker : CreateThread(t, w)
    BY <1>5 DEF CreateThread, Call, Enter
  <1> QED
    BY <1>1, <1>2, <1>3, <1>4, <1>5 DEF OwnStep

(* Client threads increment no counter, so that only the handler adds a    *)
(* unit to one.                                                            *)
LEMMA UnitsKept ==
  ASSUME IInv, NEW t \in Thread, OwnStep(t), fn[t] # "semaphore_inc"
  PROVE  /\ fn'[t] # "semaphore_inc"
         /\ \A c \in Counter : value'[c] > 0 => value[c] > 0
  <1> USE DEF IInv, TypeOK, synch
  <1>1. \A c \in Counter : c \in Sema /\ c \notin Lock /\ value[c] \in Nat
    BY SemaAssumption DEF Sema
  <1>2. CASE KernelStep(t)
    <2>1. CASE DecTake(t)
      <3>1. /\ fn[t] \in {"lock_acquire", "semaphore_dec"} /\ obj[t] \in Sema
            /\ val[t] = value[obj[t]] /\ val[t] \in Nat \ {0}
        BY <2>1 DEF DecTake, At, FunctionMatches, CopyCurrent, Sema
      <3>2. value' = [value EXCEPT ![obj[t]] = val[t] - 1] /\ fn' = fn
        BY <2>1 DEF DecTake
      <3>3. ASSUME NEW c \in Counter PROVE value'[c] > 0 => value[c] > 0
        <4>1. CASE c = obj[t]
          BY <1>1, <3>1, <4>1
        <4>2. CASE c # obj[t]
          BY <1>1, <3>1, <3>2, <4>2
        <4> QED
          BY <4>1, <4>2
      <3> QED
        BY <3>1, <3>2, <3>3
    <2>2. CASE IncAdd(t)
      <3>1. obj[t] \in Lock /\ value' = [value EXCEPT ![obj[t]] = @ + 1] /\ fn' = fn
        BY <2>2 DEF IncAdd, FunctionMatches
      <3> QED
        BY <1>1, <2>2, <3>1 DEF IncAdd
    <2>3. CASE value' = value
      BY <1>2, <2>3 DEF KernelStep, SaveLevel, Cli, RestoreLevel, StoreLevel, Return,
        DecLoad, DecTake, DecWait, DecBlock, SetHolder, IncAdd, IncWake, Allocate,
        LoadTid, StoreTid, Unblock, Depart, Enter, frame
    <2> QED
      BY <1>2, <2>1, <2>2, <2>3 DEF KernelStep, SaveLevel, Cli, RestoreLevel, StoreLevel,
        DecLoad, DecWait, DecBlock, SetHolder, IncWake, Allocate, LoadTid, StoreTid,
        Unblock, Depart
  <1>3. CASE Resume(t) \/ Exit(t)
    BY <1>3 DEF Resume, LeaveStub, Exit, frame
  <1>4. CASE \E l \in Lock : LockAcquire(t, l) \/ LockRelease(t, l)
    BY <1>4 DEF LockAcquire, LockRelease, Call, Enter
  <1>5. CASE \E s \in Counter : SemaphoreDec(t, s)
    BY <1>5 DEF SemaphoreDec, Call, Enter
  <1>6. CASE \E w \in Worker : CreateThread(t, w)
    BY <1>6 DEF CreateThread, Call, Enter
  <1> QED
    BY <1>2, <1>3, <1>4, <1>5, <1>6 DEF OwnStep

(* The kernel brings a call of sleep_ticks to its end, and lets it return  *)
(* from semaphore_dec only with a unit.                                    *)
LEMMA KernelCalls ==
  ASSUME IInv, NEW t \in Worker, KernelStep(t), UNCHANGED timer,
         fn[t] # "semaphore_inc", SleepCall(t), HeapCall(t), UnitsDue(t)
  PROVE  SleepCall(t)' /\ HeapCall(t)'
  <1>1. t \in Thread
    BY DEF Thread
  <1>2. sleepEnd' = sleepEnd /\ phase' = phase /\ ticks' = ticks
    BY DEF timer, clock
  <1>3. TypeOK /\ FunctionMatches(t) /\ (pc[t] = "test" /\ val[t] # 0 => val[t] = value[obj[t]])
    BY <1>1 DEF IInv, CopyCurrent
  <1> USE <1>1, <1>2, <1>3 DEF TypeOK, At, Goto, SleepCall, HeapCall
  <1>4. CASE SaveLevel(t) \/ Cli(t)
    BY <1>4 DEF SaveLevel, Cli, user
  <1>5. ASSUME pc[t] \in {"restore", "store"}, Return(t) PROVE SleepCall(t)' /\ HeapCall(t)'
    BY <1>5 DEF Return
  <1>6. CASE RestoreLevel(t)
    BY <1>5, <1>6 DEF RestoreLevel, user
  <1>7. CASE StoreLevel(t)
    BY <1>5, <1>7 DEF StoreLevel
  <1>8. CASE DecLoad(t) \/ DecWait(t) \/ DecBlock(t)
    BY <1>8 DEF DecLoad, DecWait, DecBlock, user
  <1>9. CASE DecTake(t)
    <2>1. phase[t] = "wait" => sleepEnd[t] <= ticks
      <3>1. CASE phase[t] = "wait"
        <4>1. obj[t] = SleepSema[t] /\ val[t] \in Nat /\ val[t] # 0 /\ value[obj[t]] = val[t]
          BY <1>9, <3>1 DEF DecTake
        <4> QED
          BY <4>1 DEF UnitsDue
      <3> QED
        BY <3>1
    <2> QED
      BY <1>9, <2>1 DEF DecTake, user
  <1>10. CASE SetHolder(t)
    BY <1>10, TimerAssumption DEF SetHolder, FunctionMatches
  <1>11. CASE IncAdd(t) \/ IncWake(t)
    BY <1>11 DEF IncAdd, IncWake, user, FunctionMatches
  <1>12. CASE Allocate(t) \/ LoadTid(t) \/ StoreTid(t)
    BY <1>12 DEF Allocate, LoadTid, StoreTid, Creating, Enter, user, frame, FunctionMatches
  <1>13. CASE Unblock(t) \/ Depart(t)
    BY <1>13 DEF Unblock, Depart, user, frame
  <1> QED
    BY <1>4, <1>6, <1>7, <1>8, <1>9, <1>10, <1>11, <1>12, <1>13 DEF KernelStep

CallSound(t) == SleepCall(t) /\ HeapCall(t) /\ UnitsDue(t)
CallsSound ==
  /\ \A t \in Thread : fn[t] # "semaphore_inc"
  /\ \A t \in Worker : CallSound(t)

(* Nobody's call is disturbed by what leaves his frame alone. *)
LEMMA CallKept ==
  ASSUME TimerTypeOK, NEW u \in Worker, SleepCall(u), HeapCall(u),
         fn'[u] = fn[u], obj'[u] = obj[u], pc'[u] = pc[u],
         held'[u] = held[u], making'[u] = making[u],
         sleepEnd'[u] = sleepEnd[u], phase'[u] = phase[u], ticks' \in Nat, ticks' >= ticks
  PROVE  SleepCall(u)' /\ HeapCall(u)'
  <1>1. sleepEnd[u] \in Int /\ ticks \in Nat
    BY DEF TimerTypeOK
  <1>2. sleepEnd[u] <= ticks => sleepEnd[u] <= ticks'
    BY <1>1
  <1> QED
    BY <1>2 DEF SleepCall, HeapCall

LEMMA DueKept ==
  ASSUME TimerTypeOK, NEW u \in Worker, UnitsDue(u),
         value'[SleepSema[u]] > 0 => value[SleepSema[u]] > 0,
         sleepEnd'[u] = sleepEnd[u],
         phase'[u] = phase[u] \/ (phase[u] # "awake" /\ phase'[u] # "lock"),
         ticks' \in Nat, ticks' >= ticks
  PROVE  UnitsDue(u)'
  <1>1. sleepEnd[u] \in Int /\ ticks \in Nat
    BY DEF TimerTypeOK
  <1>2. sleepEnd[u] <= ticks => sleepEnd[u] <= ticks'
    BY <1>1
  <1> QED
    BY <1>2 DEF UnitsDue

(* Before any call. *)
LEMMA InitCalls == TimerInit => CallsSound
  <1> SUFFICES ASSUME TimerInit PROVE CallsSound
    OBVIOUS
  <1>1. \A t \in Thread : fn[t] = "start_thread" /\ held[t] = {} /\ pc[t] # "tid"
    BY DEF TimerInit, Init
  <1>2. ASSUME NEW t \in Worker PROVE CallSound(t)
    <2>1. t \in Thread /\ phase[t] = "awake" /\ sleepEnd[t] = -1
      BY DEF Thread, TimerInit
    <2>2. SleepSema[t] \in Counter /\ SleepSema[t] \notin Lock /\ SleepSema[t] \in Sema
      BY TimerAssumption, SemaAssumption DEF Sema
    <2>3. value[SleepSema[t]] = 0
      BY <2>2, TimerAssumption DEF TimerInit, Init
    <2> QED
      BY <1>1, <2>1, <2>3 DEF CallSound, SleepCall, HeapCall, UnitsDue
  <1> QED
    BY <1>1, <1>2 DEF CallsSound

(* A step of Threads keeps every call. *)
LEMMA ThreadCalls ==
  ASSUME IInv, TimerTypeOK, CallsSound, NEW t \in Thread, ThreadStep(t)
  PROVE  CallsSound'
  <1>1. UNCHANGED timer /\ ticks' \in Nat /\ ticks' >= ticks
        /\ sleepEnd' = sleepEnd /\ phase' = phase
    BY DEF ThreadStep, timer, clock, TimerTypeOK
  <1>2. OwnStep(t)
    BY SemaAssumption DEF ThreadStep, OwnStep
  <1>3. \A u \in Thread : fn'[u] # "semaphore_inc"
    <2>1. \A u \in Thread : fn[u] # "semaphore_inc"
      BY DEF CallsSound
    <2>2. fn'[t] # "semaphore_inc"
      BY <1>2, <2>1, UnitsKept
    <2> QED
      BY <1>2, <2>1, <2>2, OthersKept
  <1>4. ASSUME NEW u \in Worker PROVE CallSound(u)'
    <2>1. u \in Thread /\ SleepSema[u] \in Counter /\ fn[t] # "semaphore_inc"
          /\ fn[u] # "semaphore_inc"
      BY TimerAssumption, SemaAssumption DEF Thread, CallsSound
    <2>2. SleepCall(u) /\ HeapCall(u) /\ UnitsDue(u)
      BY DEF CallsSound, CallSound
    <2>3. UnitsDue(u)'
      <3>1. value'[SleepSema[u]] > 0 => value[SleepSema[u]] > 0
        BY <1>2, <2>1, UnitsKept
      <3>2. sleepEnd'[u] = sleepEnd[u] /\ phase'[u] = phase[u]
        BY <1>1
      <3> QED
        BY <1>1, <2>2, <3>1, <3>2, DueKept
    <2>4. CASE u # t
      BY <1>1, <1>2, <2>1, <2>2, <2>3, <2>4, OthersKept, CallKept DEF CallSound
    <2>5. CASE u = t
      <3> USE <2>1, <2>2, <1>1 DEF IInv, TypeOK, SleepCall, HeapCall
      <3>1. CASE KernelStep(t)
        BY <2>3, <2>5, <3>1, KernelCalls DEF CallSound
      <3>2. CASE Resume(t)
        <4>1. UNCHANGED <<frame, user>>
          BY <3>2 DEF Resume, LeaveStub
        <4> QED
          BY <2>3, <2>5, <4>1, CallKept DEF frame, user, CallSound
      <3>3. CASE HeapLock \in held[t] /\ LockRelease(t, HeapLock)
        BY <2>3, <2>5, <3>3 DEF LockRelease, Enter, Goto, CallSound
      <3>4. CASE (t \in Worker => phase[t] = "awake")
                 /\ (Exit(t) \/ \E w \in Worker : CreateThread(t, w))
        <4>1. CASE Exit(t)
          <5>1. /\ UNCHANGED <<fn, obj, user>> /\ pc' = [pc EXCEPT ![t] = "exit"]
                /\ phase[t] = "awake"
            BY <2>5, <3>4, <4>1 DEF Exit, Goto
          <5> QED
            BY <2>3, <2>5, <5>1 DEF user, CallSound
        <4>2. ASSUME NEW w \in Worker, CreateThread(t, w) PROVE CallSound(t)'
          BY <2>3, <2>5, <3>4, <4>2, ThreadAssumption DEF CreateThread, Call, Enter, Goto, At,
            CallSound, Thread
        <4> QED
          BY <2>5, <3>4, <4>1, <4>2
      <3> QED
        BY <3>1, <3>2, <3>3, <3>4 DEF ThreadStep
    <2> QED
      BY <2>4, <2>5
  <1> QED
    BY <1>3, <1>4 DEF CallsSound

(* What neither counts up a semaphore nor touches a frame keeps the calls. *)
LEMMA QuietCalls ==
  ASSUME TimerTypeOK, CallsSound, UNCHANGED <<frame, user, sleepEnd, phase>>,
         ticks' \in Nat, ticks' >= ticks,
         \A u \in Worker : value'[SleepSema[u]] > 0 =>
             \/ value[SleepSema[u]] > 0
             \/ sleepEnd[u] # -1 /\ phase[u] # "lock" /\ sleepEnd[u] <= ticks
  PROVE  CallsSound'
  <1>1. \A t \in Thread : fn'[t] # "semaphore_inc"
    BY DEF CallsSound, frame
  <1>2. ASSUME NEW u \in Worker PROVE CallSound(u)'
    <2>1. SleepCall(u) /\ HeapCall(u) /\ UnitsDue(u)
      BY DEF CallsSound, CallSound
    <2>2. SleepCall(u)' /\ HeapCall(u)'
      BY <2>1, CallKept DEF frame, user
    <2>3. sleepEnd[u] \in Int /\ ticks \in Nat
      BY DEF TimerTypeOK
    <2>4. sleepEnd[u] <= ticks => sleepEnd[u] <= ticks'
      BY <2>3
    <2>5. UnitsDue(u)'
      BY <2>1, <2>4 DEF UnitsDue
    <2> QED
      BY <2>2, <2>5 DEF CallSound
  <1> QED
    BY <1>1, <1>2 DEF CallsSound

(* sleep_ticks makes its calls one after the other. *)
LEMMA SleepCalls ==
  ASSUME IInv, TimerTypeOK, CallsSound, FirstSleep, NEW t \in Worker, SleepStep(t)
  PROVE  CallsSound'
  <1> USE DEF InPhase
  <1>1. t \in Thread /\ SleepSema[t] \in Counter /\ QueueLock \in Lock \ {HeapLock}
        /\ ticks \in Nat /\ phase \in [Worker -> Phase] /\ sleepEnd \in [Worker -> Int]
        /\ Duration \subseteq Nat
    BY TimerAssumption, SemaAssumption DEF Thread, TimerTypeOK
  <1>2. TypeOK
    BY DEF IInv
  <1>3. OwnStep(t) \/ UNCHANGED vars
    BY <1>1 DEF SleepStep, Sleep, PushLink, PushEnd, PushCount, Unlock, Wait, Awake, OwnStep
  <1>4. ticks' = ticks
    BY DEF SleepStep, Sleep, PushLink, PushEnd, PushCount, Unlock, Wait, Awake, clock
  <1>5. \A u \in Worker : u # t => sleepEnd'[u] = sleepEnd[u] /\ phase'[u] = phase[u]
    BY <1>1 DEF SleepStep, Sleep, PushLink, PushEnd, PushCount, Unlock, Wait, Awake
  <1>6. \A u \in Thread : fn[u] # "semaphore_inc"
    BY DEF CallsSound
  <1>7. \A u \in Thread : fn'[u] # "semaphore_inc"
    <2>1. fn'[t] # "semaphore_inc"
      BY <1>1, <1>3, <1>6, UnitsKept DEF vars, frame
    <2> QED
      BY <1>1, <1>3, <1>6, <2>1, OthersKept DEF vars, frame
  <1>8. \A c \in Counter : value'[c] > 0 => value[c] > 0
    BY <1>1, <1>3, <1>6, UnitsKept DEF vars, synch
  <1>9. ASSUME NEW u \in Worker, u # t PROVE CallSound(u)'
    <2>1. u \in Thread /\ SleepSema[u] \in Counter
      BY TimerAssumption, SemaAssumption DEF Thread
    <2>2. SleepCall(u) /\ HeapCall(u) /\ UnitsDue(u)
      BY DEF CallsSound, CallSound
    <2>3. /\ fn'[u] = fn[u] /\ obj'[u] = obj[u] /\ pc'[u] = pc[u]
          /\ held'[u] = held[u] /\ making'[u] = making[u]
      BY <1>1, <1>3, <1>9, <2>1, OthersKept DEF vars, frame, user
    <2>4. SleepCall(u)' /\ HeapCall(u)'
      BY <1>1, <1>4, <1>5, <1>9, <2>2, <2>3, CallKept
    <2>5. UnitsDue(u)'
      BY <1>1, <1>4, <1>5, <1>8, <1>9, <2>1, <2>2, DueKept
    <2> QED
      BY <2>4, <2>5 DEF CallSound
  <1>10. CallSound(t)'
    <2>1. SleepCall(t) /\ HeapCall(t) /\ UnitsDue(t)
      BY DEF CallsSound, CallSound
    <2>2. ASSUME phase[t] # "awake", phase'[t] # "lock", sleepEnd'[t] = sleepEnd[t]
          PROVE  UnitsDue(t)'
      BY <1>1, <1>4, <1>8, <2>1, <2>2, DueKept
    <2> USE <1>1, <1>2, <1>4, <2>1 DEF TypeOK, CallSound, SleepCall, HeapCall
    <2>3. ASSUME NEW d \in Duration, Sleep(t, d) PROVE CallSound(t)'
      <3>1. /\ phase[t] = "awake" /\ phase'[t] = "lock"
            /\ sleepEnd'[t] = ticks + d /\ ticks + d \in Nat
        BY <2>3 DEF Sleep
      <3>2. /\ making[t] = None /\ making' = making /\ held' = held /\ value' = value
            /\ fn'[t] = "lock_acquire" /\ obj'[t] = QueueLock /\ pc'[t] = "save"
        BY <2>3 DEF Sleep, LockAcquire, Call, Enter, Goto, synch
      <3>3. ~ value[SleepSema[t]] > 0
        BY <3>1 DEF UnitsDue, FirstSleep
      <3>4. UnitsDue(t)'
        BY <3>2, <3>3 DEF UnitsDue
      <3> QED
        BY <3>1, <3>2, <3>4
    <2>4. CASE PushLink(t)
      <3>1. UNCHANGED <<frame, user, sleepEnd>> /\ At(t, "client") /\ QueueLock \in held[t]
            /\ phase[t] = "lock" /\ phase'[t] = "linked"
        BY <2>4 DEF PushLink, vars
      <3> QED
        BY <2>2, <3>1 DEF frame, user, At
    <2>5. CASE PushEnd(t)
      <3>1. UNCHANGED <<frame, user, sleepEnd>> /\ phase[t] = "linked" /\ phase'[t] = "ended"
        BY <2>5 DEF PushEnd, vars
      <3> QED
        BY <2>2, <3>1 DEF frame, user
    <2>6. CASE PushCount(t)
      <3>1. UNCHANGED <<frame, user, sleepEnd>> /\ phase[t] = "ended" /\ phase'[t] = "queued"
        BY <2>6 DEF PushCount, vars
      <3> QED
        BY <2>2, <3>1 DEF frame, user
    <2>7. CASE Unlock(t)
      <3>1. /\ phase[t] = "queued" /\ phase'[t] = "unlock" /\ UNCHANGED <<sleepEnd, making>>
            /\ fn'[t] = "lock_release" /\ held'[t] \subseteq held[t]
        BY <2>7 DEF Unlock, LockRelease, Enter
      <3>2. pc'[t] = "save"
        BY <2>7 DEF Unlock, LockRelease, Enter, Goto
      <3> QED
        BY <2>2, <3>1, <3>2
    <2>8. CASE Wait(t)
      <3>1. /\ phase[t] = "unlock" /\ phase'[t] = "wait" /\ UNCHANGED <<sleepEnd, making, held>>
            /\ fn'[t] = "semaphore_dec" /\ obj'[t] = SleepSema[t] /\ pc'[t] = "save"
        BY <2>8 DEF Wait, SemaphoreDec, Call, Enter, Goto
      <3> QED
        BY <2>2, <3>1
    <2>9. CASE Awake(t)
      <3>1. UNCHANGED <<frame, user, sleepEnd>> /\ phase[t] = "wait" /\ phase'[t] = "awake"
        BY <2>9 DEF Awake, vars
      <3> QED
        BY <2>2, <3>1 DEF frame, user
    <2> QED
      BY <2>3, <2>4, <2>5, <2>6, <2>7, <2>8, <2>9 DEF SleepStep
  <1> QED
    BY <1>7, <1>9, <1>10 DEF CallsSound

(* The handler adds units only for threads that are queued and due. *)
LEMMA NextCalls ==
  ASSUME IInv, WalkSound, CallsSound, QueueSound, [TimerNext]_allVars, [FirstSleep]_allVars
  PROVE  CallsSound'
  <1> USE DEF WalkSound
  <1>1. ticks \in Nat /\ TypeOK
    BY DEF TimerTypeOK, IInv
  <1>2. CASE UNCHANGED allVars
    BY <1>1, <1>2, QuietCalls DEF allVars, vars, timer, clock, synch
  <1>3. CASE Fire
    BY <1>1, <1>3, QuietCalls DEF Fire, Interrupt, clock, synch
  <1>4. ASSUME NEW t \in Thread, ThreadStep(t) PROVE CallsSound'
    BY <1>4, ThreadCalls
  <1>5. ASSUME NEW t \in Thread, Tick(t) \/ Unhalt(t) PROVE CallsSound'
    BY <1>1, <1>5, QuietCalls DEF Tick, Unhalt, vars, synch
  <1>6. ASSUME NEW t \in Thread, Finish(t) PROVE CallsSound'
    BY <1>1, <1>6, QuietCalls DEF Finish, DeferNone, DeferYield, LeaveStub, clock, synch
  <1>7. ASSUME NEW t \in Thread, Visit(t) PROVE CallsSound'
    <2>1. /\ UNCHANGED <<frame, user, sleepEnd, phase, ticks>>
          /\ \/ sleepEnd[cursor] <= ticks /\ HandlerInc(t, SleepSema[cursor])
             \/ value' = value
      BY <1>7 DEF Visit, HandlerInc, vars, synch, clock
    <2>2. cursor \in Worker /\ sleepEnd[cursor] # -1 /\ phase[cursor] # "lock"
      BY <1>7 DEF Visit, QueueSound, Threaded, Walked
    <2>3. ASSUME NEW u \in Worker, value'[SleepSema[u]] > 0
          PROVE  \/ value[SleepSema[u]] > 0
                 \/ sleepEnd[u] # -1 /\ phase[u] # "lock" /\ sleepEnd[u] <= ticks
      <3>1. SleepSema[u] \in Sema /\ value \in [Sema -> Nat]
        BY <1>1, TimerAssumption, SemaAssumption DEF Sema, TypeOK
      <3>2. CASE u = cursor
        BY <2>1, <2>2, <2>3, <3>2
      <3>3. CASE u # cursor
        <4>1. SleepSema[u] # SleepSema[cursor]
          BY <2>2, <3>3, TimerAssumption
        <4> QED
          BY <2>1, <2>3, <3>1, <4>1 DEF HandlerInc
      <3> QED
        BY <3>2, <3>3
    <2> QED
      BY <1>1, <2>1, <2>3, QuietCalls
  <1>8. ASSUME NEW t \in Worker, SleepStep(t) PROVE CallsSound'
    <2>1. FirstSleep \/ UNCHANGED phase
      BY DEF allVars, timer
    <2>2. FirstSleep
      BY <2>1 DEF FirstSleep
    <2> QED
      BY <1>8, <2>2, SleepCalls
  <1> QED
    BY <1>2, <1>3, <1>4, <1>5, <1>6, <1>7, <1>8 DEF TimerNext, HandlerStep

-----------------------------------------------------------------------------
(* The queue of sleeping threads *)

(* At boot the queue is empty. *)
LEMMA InitQueue == TimerInit => QueueSound
  <1> SUFFICES ASSUME TimerInit PROVE QueueSound
    OBVIOUS
  <1> DEFINE s == [i \in 1 .. 0 |-> CHOOSE t \in Worker : TRUE]
  <1>1. s \in [1 .. 0 -> Worker]
    OBVIOUS
  <1>2. Threaded(s, 0) /\ Walked(s, 0)
    BY TimerAssumption DEF TimerInit, Threaded, Walked, Pushing, ListHead, ListTail, Null
  <1> QED
    BY <1>1, <1>2 DEF TimerInit, QueueSound

(* The pointers are only written by a push. *)
LEMMA ThreadedKept ==
  ASSUME NEW n, NEW s \in [1 .. n -> Worker], Threaded(s, n), UNCHANGED <<queue, sleepEnd, phase>>
  PROVE  Threaded(s, n)'
  BY DEF Threaded, queue

(* A walk begins at the first thread, or at the tail. *)
LEMMA WalkBegun ==
  ASSUME NEW n \in Nat, n \in {size, size + 1}, size \in Nat,
         NEW s \in [1 .. n -> Worker], Threaded(s, n),
         UNCHANGED <<queue, sleepEnd, phase>>, cursor' = Begin
  PROVE  Walked(s, n)'
  <1> USE TimerAssumption DEF ListTail
  <1>1. phase' = phase
    OBVIOUS
  <1>2. CASE size = 0
    <2>1. cursor' = ListTail
      BY <1>2 DEF Begin
    <2>2. \A i \in 1 .. n : phase[s[i]] \in Pushing
      BY <1>2 DEF Threaded
    <2> QED
      BY <1>1, <2>1, <2>2 DEF Walked
  <1>3. CASE size # 0
    <2>1. 1 \in 1 .. n /\ cursor' = s[1]
      BY <1>3 DEF Begin, Threaded
    <2>2. s[1] \in Worker /\ 1 .. 1 - 1 = {}
      BY <2>1
    <2> QED
      BY <2>1, <2>2 DEF Walked
  <1> QED
    BY <1>2, <1>3

(* A round serves the thread it visits and goes on to the next one. *)
LEMMA WalkOn ==
  ASSUME IInv, TimerTypeOK, NEW n \in Nat, NEW s \in [1 .. n -> Worker], Threaded(s, n),
         Walked(s, n), NEW t \in Thread, Visit(t)
  PROVE  Walked(s, n)'
  <1> USE TimerAssumption DEF ListTail, Null
  <1>1. PICK k \in 1 .. n : s[k] = cursor /\ \A i \in 1 .. k - 1 : Served(s[i])
    BY DEF Visit, Walked
  <1>2. /\ cursor' = next[s[k]] /\ pc' = pc
        /\ sleepEnd' = sleepEnd /\ phase' = phase /\ ticks' = ticks
        /\ \/ sleepEnd[cursor] <= ticks /\ value' = [value EXCEPT ![SleepSema[cursor]] = @ + 1]
           \/ sleepEnd[cursor] > ticks /\ value' = value
    BY <1>1 DEF Visit, HandlerInc, vars, frame, synch, clock
  <1>3. value \in [Sema -> Nat] /\ \A w \in Worker : SleepSema[w] \in Sema
    BY SemaAssumption DEF IInv, TypeOK, Sema
  <1>4. ASSUME NEW w \in Worker, Served(w) PROVE Served(w)'
    <2>1. value[SleepSema[w]] > 0 => value'[SleepSema[w]] > 0
      BY <1>2, <1>3
    <2> QED
      BY <1>2, <1>4, <2>1 DEF Served
  <1>5. Served(s[k])'
    <2>1. s[k] \in Worker /\ sleepEnd[s[k]] \in Int /\ ticks \in Nat
      BY DEF TimerTypeOK
    <2>2. CASE sleepEnd[s[k]] > ticks
      BY <1>1, <1>2, <2>1, <2>2 DEF Served
    <2>3. CASE sleepEnd[s[k]] <= ticks
      <3>1. value'[SleepSema[s[k]]] > 0
        BY <1>1, <1>2, <1>3, <2>1, <2>3
      <3> QED
        BY <3>1 DEF Served
    <2> QED
      BY <2>1, <2>2, <2>3
  <1>6. \A i \in 1 .. k : Served(s[i])'
    <2> SUFFICES ASSUME NEW i \in 1 .. k PROVE Served(s[i])'
      OBVIOUS
    <2>1. s[i] \in Worker /\ (i = k \/ i \in 1 .. k - 1)
      OBVIOUS
    <2> QED
      BY <1>1, <1>4, <1>5, <2>1
  <1>7. CASE phase[s[k]] = "linked"
    <2>1. cursor' = Null
      BY <1>2, <1>7 DEF Threaded
    <2> QED
      BY <2>1 DEF Walked
  <1>8. CASE phase[s[k]] # "linked" /\ k = n
    <2>1. cursor' = ListTail
      BY <1>2, <1>8 DEF Threaded
    <2> QED
      BY <1>6, <1>8, <2>1 DEF Walked
  <1>9. CASE phase[s[k]] # "linked" /\ k # n
    <2>1. cursor' = s[k + 1] /\ k + 1 \in 1 .. n /\ (k + 1) - 1 = k
      BY <1>2, <1>9 DEF Threaded
    <2> QED
      BY <1>6, <2>1 DEF Walked
  <1> QED
    BY <1>7, <1>8, <1>9

(* Leaving the list's code does not move an element. *)
LEMMA ThreadedMoved ==
  ASSUME NEW n, NEW s \in [1 .. n -> Worker], Threaded(s, n), UNCHANGED <<queue, sleepEnd>>,
         phase \in [Worker -> Phase], NEW t \in Worker, NEW q, phase' = [phase EXCEPT ![t] = q],
         phase[t] \notin {"lock", "linked", "ended"}, q \notin {"lock", "linked", "ended"}
  PROVE  Threaded(s, n)'
  <1>1. \A u \in Worker : /\ phase'[u] = "lock" <=> phase[u] = "lock"
                          /\ phase'[u] = "linked" <=> phase[u] = "linked"
                          /\ phase'[u] \in Pushing <=> phase[u] \in Pushing
    BY DEF Pushing
  <1>2. next' = next /\ last' = last /\ size' = size /\ sleepEnd' = sleepEnd
    BY DEF queue
  <1>3. n > 0 /\ n \in Nat => s[n] \in Worker
    OBVIOUS
  <1> QED
    BY <1>1, <1>2, <1>3 DEF Threaded

(* A thread that begins its first sleep is not in the queue. *)
LEMMA ThreadedSlept ==
  ASSUME NEW n \in Nat, NEW s \in [1 .. n -> Worker], Threaded(s, n), UNCHANGED queue,
         phase \in [Worker -> Phase], sleepEnd \in [Worker -> Int], NEW t \in Worker,
         sleepEnd[t] = -1, NEW e, sleepEnd' = [sleepEnd EXCEPT ![t] = e],
         phase' = [phase EXCEPT ![t] = "lock"]
  PROVE  Threaded(s, n)'
  <1>1. \A i \in 1 .. n : s[i] \in Worker /\ s[i] # t
    BY DEF Threaded
  <1>2. \A u \in Worker : u # t => phase'[u] = phase[u] /\ sleepEnd'[u] = sleepEnd[u]
    OBVIOUS
  <1>3. next' = next /\ last' = last /\ size' = size
    BY DEF queue
  <1>4. n > 0 => n \in 1 .. n
    OBVIOUS
  <1>5. \A i \in 1 .. n : phase'[s[i]] = phase[s[i]]
    BY <1>1, <1>2
  <1>6. \A u \in Worker : (\E i \in 1 .. n : s[i] = u) <=> sleepEnd'[u] # -1 /\ phase'[u] # "lock"
    BY <1>1, <1>2 DEF Threaded
  <1>7. \A u \in Worker : sleepEnd'[u] = -1 \/ phase'[u] = "lock" => next[u] = Null
    BY <1>2 DEF Threaded
  <1> QED
    BY <1>3, <1>4, <1>5, <1>6, <1>7 DEF Threaded

(* Only one thread at a time is within the list's code. *)
LEMMA OnePusher ==
  ASSUME IInv, CallsSound, NEW t \in Worker, QueueLock \in held[t],
         NEW u \in Worker, phase[u] \in {"linked", "ended", "queued"}
  PROVE  u = t
  <1>1. QueueLock \in held[u]
    BY DEF CallsSound, CallSound, SleepCall
  <1>2. Owns(t, QueueLock) /\ Owns(u, QueueLock)
    BY <1>1 DEF Owns
  <1> QED
    BY <1>2, TimerAssumption DEF IInv, MutualExclusion, Thread

(* The first store of a push appends the element to the list. *)
LEMMA ThreadedLink ==
  ASSUME IInv, TimerTypeOK, CallsSound, NEW n \in Nat, NEW s \in [1 .. n -> Worker],
         Threaded(s, n), NEW t \in Worker, PushLink(t)
  PROVE  /\ n = size /\ size' = size
         /\ \E r \in [1 .. n + 1 -> Worker] : Threaded(r, n + 1)'
  <1> USE TimerAssumption DEF ListHead, ListTail, Null, Pushing
  <1>1. /\ QueueLock \in held[t] /\ phase[t] = "lock" /\ phase' = [phase EXCEPT ![t] = "linked"]
        /\ sleepEnd' = sleepEnd /\ last' = last /\ size' = size
        /\ next' = [next EXCEPT ![IF size = 0 THEN ListHead ELSE last] = t]
        /\ phase \in [Worker -> Phase]
        /\ next \in [Worker \cup {ListHead} -> Worker \cup {ListTail, Null}]
    BY DEF PushLink, InPhase, TimerTypeOK
  <1>2. \A i \in 1 .. n : s[i] \in Worker /\ s[i] # t /\ phase[s[i]] \notin Pushing
    <2>1. \A i \in 1 .. n : s[i] \in Worker /\ s[i] # t
      BY <1>1 DEF Threaded
    <2> QED
      BY <1>1, <2>1, OnePusher
  <1>3. n = size /\ last = IF n = 0 THEN ListHead ELSE s[n]
    BY <1>2 DEF Threaded
  <1> DEFINE r == [i \in 1 .. n + 1 |-> IF i = n + 1 THEN t ELSE s[i]]
  <1>4. /\ r \in [1 .. n + 1 -> Worker] /\ r[n + 1] = t
        /\ \A i \in 1 .. n : i \in 1 .. n + 1 /\ i # n + 1 /\ r[i] = s[i]
        /\ \A i \in 1 .. n + 1 : i = n + 1 \/ i \in 1 .. n
    BY <1>2
  <1> HIDE DEF r
  <1>5. \A i \in 1 .. n : phase'[s[i]] = phase[s[i]] /\ phase'[s[i]] \notin Pushing
    BY <1>1, <1>2
  <1>6. phase'[t] = "linked"
    BY <1>1
  <1>7. \A i, j \in 1 .. n + 1 : r[i] = r[j] => i = j
    BY <1>2, <1>4 DEF Threaded
  <1>8. \A u \in Worker : (\E i \in 1 .. n + 1 : r[i] = u) <=> sleepEnd'[u] # -1 /\ phase'[u] # "lock"
    <2>1. sleepEnd[t] # -1
      BY <1>1 DEF CallsSound, CallSound, SleepCall
    <2> SUFFICES ASSUME NEW u \in Worker
                 PROVE (\E i \in 1 .. n + 1 : r[i] = u) <=> sleepEnd'[u] # -1 /\ phase'[u] # "lock"
      OBVIOUS
    <2>2. CASE u = t
      BY <1>1, <1>4, <1>6, <2>1, <2>2
    <2>3. CASE u # t
      <3>1. (\E i \in 1 .. n + 1 : r[i] = u) <=> \E i \in 1 .. n : s[i] = u
        BY <1>4, <2>3
      <3> QED
        BY <1>1, <2>3, <3>1 DEF Threaded
    <2> QED
      BY <2>2, <2>3
  <1>9. next[t] = Null
    BY <1>1 DEF Threaded
  <1>10. next'[ListHead] = r[1]
    <2>1. CASE n = 0
      BY <1>1, <1>3, <1>4, <2>1
    <2>2. CASE n # 0
      <3>1. 1 \in 1 .. n /\ n \in 1 .. n
        BY <2>2
      <3>2. last \in Worker
        BY <1>2, <1>3, <2>2, <3>1
      <3>3. next[ListHead] = s[1]
        BY <2>2 DEF Threaded
      <3> QED
        BY <1>1, <1>3, <1>4, <2>2, <3>1, <3>2, <3>3
    <2> QED
      BY <2>1, <2>2
  <1>11. next'[t] = Null
    <2>1. CASE n = 0
      BY <1>1, <1>3, <1>9, <2>1
    <2>2. CASE n # 0
      <3>1. n \in 1 .. n /\ last # t
        BY <1>2, <1>3, <2>2
      <3> QED
        BY <1>1, <1>3, <1>9, <2>2, <3>1
    <2> QED
      BY <2>1, <2>2
  <1>12. ASSUME NEW i \in 1 .. n PROVE next'[s[i]] = r[i + 1]
    <2>1. last = s[n] /\ size # 0 /\ s[n] \in Worker /\ s[i] \in Worker
      BY <1>3
    <2>2. CASE i = n
      BY <1>1, <1>4, <2>1, <2>2
    <2>3. CASE i # n
      <3>1. s[i] # s[n] /\ i + 1 \in 1 .. n /\ next[s[i]] = s[i + 1]
        BY <1>2, <2>3 DEF Threaded
      <3> QED
        BY <1>1, <1>4, <2>1, <3>1
    <2> QED
      BY <2>2, <2>3
  <1>13. \A u \in Worker : sleepEnd'[u] = -1 \/ phase'[u] = "lock" => next'[u] = Null
    <2> SUFFICES ASSUME NEW u \in Worker, sleepEnd'[u] = -1 \/ phase'[u] = "lock"
                 PROVE  next'[u] = Null
      OBVIOUS
    <2>1. u # t => next[u] = Null /\ \A i \in 1 .. n : s[i] # u
      BY <1>1 DEF Threaded
    <2>2. u # t => u # IF size = 0 THEN ListHead ELSE last
      <3>1. CASE n = 0
        BY <1>3, <3>1
      <3>2. CASE n # 0
        BY <1>3, <2>1, <3>2
      <3> QED
        BY <3>1, <3>2
    <2> QED
      BY <1>1, <1>11, <2>1, <2>2
  <1>14. Threaded(r, n + 1)'
    <2>1. \A i \in 1 .. n + 1 :
            /\ next'[r[i]] = CASE phase'[r[i]] = "linked" -> Null
                              [] phase'[r[i]] # "linked" /\ i = n + 1 -> ListTail
                              [] OTHER -> r[i + 1]
            /\ phase'[r[i]] \in Pushing => i = n + 1
      <3> SUFFICES ASSUME NEW i \in 1 .. n + 1
                   PROVE /\ next'[r[i]] = CASE phase'[r[i]] = "linked" -> Null
                              [] phase'[r[i]] # "linked" /\ i = n + 1 -> ListTail
                              [] OTHER -> r[i + 1]
                         /\ phase'[r[i]] \in Pushing => i = n + 1
        OBVIOUS
      <3>1. CASE i = n + 1
        BY <1>4, <1>6, <1>11, <3>1
      <3>2. CASE i # n + 1
        <4>1. i \in 1 .. n /\ r[i] = s[i] /\ phase'[r[i]] # "linked"
          BY <1>4, <1>5, <3>2
        <4> QED
          BY <1>5, <1>12, <3>2, <4>1
      <3> QED
        BY <3>1, <3>2
    <2>2. last' = LET k == IF n + 1 > 0 /\ phase'[r[n + 1]] = "linked" THEN (n + 1) - 1 ELSE n + 1
                  IN  IF k = 0 THEN ListHead ELSE r[k]
      <3>1. (n + 1) - 1 = n /\ n + 1 > 0
        OBVIOUS
      <3>2. CASE n = 0
        BY <1>1, <1>3, <1>4, <1>6, <3>1, <3>2
      <3>3. CASE n # 0
        <4>1. r[n] = s[n]
          BY <1>4, <3>3
        <4> QED
          BY <1>1, <1>3, <1>4, <1>6, <3>1, <3>3, <4>1
      <3> QED
        BY <3>2, <3>3
    <2>3. size' = IF n + 1 > 0 /\ phase'[r[n + 1]] \in Pushing THEN (n + 1) - 1 ELSE n + 1
      BY <1>1, <1>3, <1>4, <1>6
    <2>4. n + 1 # 0
      OBVIOUS
    <2> QED
      BY <1>7, <1>8, <1>10, <1>13, <2>1, <2>2, <2>3, <2>4 DEF Threaded
  <1> QED
    BY <1>1, <1>3, <1>4, <1>14

(* The second store closes the list behind the element. *)
LEMMA ThreadedEnd ==
  ASSUME TimerTypeOK, CallsSound, NEW n \in Nat, NEW s \in [1 .. n -> Worker],
         Threaded(s, n), NEW t \in Worker, PushEnd(t)
  PROVE  size' = size /\ Threaded(s, n)'
  <1> USE TimerAssumption DEF ListHead, ListTail, Null, Pushing
  <1>1. /\ phase[t] = "linked" /\ phase' = [phase EXCEPT ![t] = "ended"]
        /\ sleepEnd' = sleepEnd /\ last' = t /\ size' = size
        /\ next' = [next EXCEPT ![t] = ListTail] /\ phase \in [Worker -> Phase]
        /\ next \in [Worker \cup {ListHead} -> Worker \cup {ListTail, Null}]
    BY DEF PushEnd, InPhase, TimerTypeOK
  <1>2. sleepEnd[t] # -1
    BY <1>1 DEF CallsSound, CallSound, SleepCall
  <1>3. n # 0 /\ n \in 1 .. n /\ s[n] = t
    <2>1. PICK i \in 1 .. n : s[i] = t
      BY <1>1, <1>2 DEF Threaded
    <2>2. i = n
      BY <1>1, <2>1 DEF Threaded
    <2> QED
      BY <2>1, <2>2
  <1>4. \A i \in 1 .. n : i # n => s[i] # t /\ s[i] \in Worker /\ phase'[s[i]] = phase[s[i]]
                                /\ next'[s[i]] = next[s[i]]
    BY <1>1, <1>3 DEF Threaded
  <1>5. phase'[t] = "ended" /\ next'[t] = ListTail /\ next'[ListHead] = next[ListHead]
    BY <1>1
  <1>6. \A u \in Worker : (\E i \in 1 .. n : s[i] = u) <=> sleepEnd'[u] # -1 /\ phase'[u] # "lock"
    BY <1>1 DEF Threaded
  <1>7. \A u \in Worker : sleepEnd'[u] = -1 \/ phase'[u] = "lock" => next'[u] = Null
    BY <1>1, <1>2, <1>5 DEF Threaded
  <1>8. ASSUME NEW i \in 1 .. n
        PROVE  /\ next'[s[i]] = CASE phase'[s[i]] = "linked" -> Null
                                [] phase'[s[i]] # "linked" /\ i = n -> ListTail
                                [] OTHER -> s[i + 1]
               /\ phase'[s[i]] \in Pushing => i = n
    <2>1. CASE i = n
      BY <1>3, <1>5, <2>1
    <2>2. CASE i # n
      BY <1>4, <2>2 DEF Threaded
    <2> QED
      BY <2>1, <2>2
  <1>9. size' = IF n > 0 /\ phase'[s[n]] \in Pushing THEN n - 1 ELSE n
    BY <1>1, <1>3, <1>5 DEF Threaded
  <1>10. last' = LET k == IF n > 0 /\ phase'[s[n]] = "linked" THEN n - 1 ELSE n
                 IN  IF k = 0 THEN ListHead ELSE s[k]
    BY <1>1, <1>3, <1>5
  <1>11. next'[ListHead] = IF n = 0 THEN ListTail ELSE s[1]
    BY <1>5 DEF Threaded
  <1>12. \A i, j \in 1 .. n : s[i] = s[j] => i = j
    BY DEF Threaded
  <1> QED
    BY <1>1, <1>6, <1>7, <1>8, <1>9, <1>10, <1>11, <1>12 DEF Threaded

(* The third one counts it. *)
LEMMA ThreadedCount ==
  ASSUME TimerTypeOK, CallsSound, NEW n \in Nat, NEW s \in [1 .. n -> Worker],
         Threaded(s, n), NEW t \in Worker, PushCount(t)
  PROVE  n = size' /\ Threaded(s, n)'
  <1> USE DEF Pushing
  <1>1. /\ phase[t] = "ended" /\ phase' = [phase EXCEPT ![t] = "queued"]
        /\ sleepEnd' = sleepEnd /\ last' = last /\ size' = size + 1
        /\ next' = next /\ phase \in [Worker -> Phase]
    BY DEF PushCount, InPhase, TimerTypeOK
  <1>2. sleepEnd[t] # -1
    BY <1>1 DEF CallsSound, CallSound, SleepCall
  <1>3. n # 0 /\ n \in 1 .. n /\ s[n] = t
    <2>1. PICK i \in 1 .. n : s[i] = t
      BY <1>1, <1>2 DEF Threaded
    <2>2. i = n
      BY <1>1, <2>1 DEF Threaded
    <2> QED
      BY <2>1, <2>2
  <1>4. \A u \in Worker : /\ phase'[u] = "linked" <=> phase[u] = "linked"
                          /\ phase'[u] = "lock" <=> phase[u] = "lock"
                          /\ phase'[u] \in Pushing => phase[u] \in Pushing
    BY <1>1
  <1>5. phase'[s[n]] = "queued" /\ s[n] \in Worker
    BY <1>1, <1>3
  <1>6. size' = n /\ size' = IF n > 0 /\ phase'[s[n]] \in Pushing THEN n - 1 ELSE n
    BY <1>1, <1>3, <1>5 DEF Threaded
  <1>7. last' = LET k == IF n > 0 /\ phase'[s[n]] = "linked" THEN n - 1 ELSE n
                IN  IF k = 0 THEN ListHead ELSE s[k]
    BY <1>1, <1>3, <1>5 DEF Threaded
  <1>8. \A i \in 1 .. n : s[i] \in Worker
    OBVIOUS
  <1>9. ASSUME NEW i \in 1 .. n
        PROVE  /\ next'[s[i]] = CASE phase'[s[i]] = "linked" -> Null
                                [] phase'[s[i]] # "linked" /\ i = n -> ListTail
                                [] OTHER -> s[i + 1]
               /\ phase'[s[i]] \in Pushing => i = n
    BY <1>1, <1>4, <1>8 DEF Threaded
  <1>10. \A u \in Worker : (\E i \in 1 .. n : s[i] = u) <=> sleepEnd'[u] # -1 /\ phase'[u] # "lock"
    BY <1>1, <1>4 DEF Threaded
  <1>11. \A u \in Worker : sleepEnd'[u] = -1 \/ phase'[u] = "lock" => next'[u] = Null
    BY <1>1, <1>4 DEF Threaded
  <1>12. next'[ListHead] = IF n = 0 THEN ListTail ELSE s[1]
    BY <1>1 DEF Threaded
  <1>13. \A i, j \in 1 .. n : s[i] = s[j] => i = j
    BY DEF Threaded
  <1> QED
    BY <1>6, <1>7, <1>9, <1>10, <1>11, <1>12, <1>13 DEF Threaded

(* A sleeping thread's step keeps the queue. *)
LEMMA SleepQueue ==
  ASSUME IInv, WalkSound, CallsSound, QueueSound, FirstSleep, NEW t \in Worker, SleepStep(t)
  PROVE  QueueSound'
  <1> USE DEF InPhase
  <1>1. TimerTypeOK /\ size \in Nat /\ phase \in [Worker -> Phase] /\ sleepEnd \in [Worker -> Int]
    BY DEF WalkSound, TimerTypeOK
  <1>2. PICK n \in {size, size + 1} : \E s \in [1 .. n -> Worker] : Threaded(s, n) /\ Walked(s, n)
    BY DEF QueueSound
  <1>s. PICK s \in [1 .. n -> Worker] : Threaded(s, n) /\ Walked(s, n)
    BY <1>2
  <1>3. n \in Nat
    BY <1>1
  <1>4. cursor' = "none"
    BY ThreadsPause DEF Thread
  <1>5. ASSUME NEW m \in {size', size' + 1}, NEW r \in [1 .. m -> Worker], Threaded(r, m)'
        PROVE  QueueSound'
    <2>1. Walked(r, m)'
      BY <1>4, TimerAssumption DEF Walked, ListTail
    <2> QED
      BY <1>5, <2>1 DEF QueueSound
  <1>6. ASSUME UNCHANGED queue, Threaded(s, n)' PROVE QueueSound'
    BY <1>2, <1>s, <1>5, <1>6 DEF queue
  <1>7. ASSUME NEW d \in Duration, Sleep(t, d) PROVE QueueSound'
    <2>1. /\ UNCHANGED queue /\ sleepEnd' = [sleepEnd EXCEPT ![t] = ticks + d]
          /\ phase[t] = "awake" /\ phase' = [phase EXCEPT ![t] = "lock"]
      BY <1>7 DEF Sleep
    <2>2. sleepEnd[t] = -1
      BY <1>1, <2>1 DEF FirstSleep
    <2>3. Threaded(s, n)'
      BY <1>1, <1>2, <1>s, <1>3, <2>1, <2>2, ThreadedSlept
    <2> QED
      BY <1>6, <2>1, <2>3
  <1>8. CASE PushLink(t)
    <2>1. PICK r \in [1 .. n + 1 -> Worker] : Threaded(r, n + 1)'
      BY <1>1, <1>2, <1>s, <1>3, <1>8, ThreadedLink
    <2>2. n = size /\ size' = size
      BY <1>1, <1>2, <1>s, <1>3, <1>8, ThreadedLink
    <2> QED
      BY <1>5, <2>1, <2>2
  <1>9. CASE PushEnd(t)
    <2>1. size' = size /\ Threaded(s, n)'
      BY <1>1, <1>2, <1>s, <1>3, <1>9, ThreadedEnd
    <2> QED
      BY <1>2, <1>s, <1>5, <2>1
  <1>10. CASE PushCount(t)
    <2>1. n = size' /\ Threaded(s, n)'
      BY <1>1, <1>2, <1>s, <1>3, <1>10, ThreadedCount
    <2> QED
      BY <1>2, <1>s, <1>5, <2>1
  <1>11. CASE Unlock(t) \/ Wait(t) \/ Awake(t)
    <2>1. PICK p \in {"queued", "unlock", "wait"}, q \in {"unlock", "wait", "awake"} :
            phase[t] = p /\ phase' = [phase EXCEPT ![t] = q]
      BY <1>11 DEF Unlock, Wait, Awake
    <2>2. UNCHANGED <<queue, sleepEnd>>
      BY <1>11 DEF Unlock, Wait, Awake
    <2>3. Threaded(s, n)'
      BY <1>1, <1>2, <1>s, <2>1, <2>2, ThreadedMoved
    <2> QED
      BY <1>6, <2>2, <2>3
  <1> QED
    BY <1>7, <1>8, <1>9, <1>10, <1>11 DEF SleepStep

(* So does everything else. *)
LEMMA NextQueue ==
  ASSUME IInv, WalkSound, CallsSound, QueueSound, [TimerNext]_allVars, [FirstSleep]_allVars
  PROVE  QueueSound'
  <1>1. TimerTypeOK /\ size \in Nat
    BY DEF WalkSound, TimerTypeOK
  <1>2. PICK n \in {size, size + 1} : \E s \in [1 .. n -> Worker] : Threaded(s, n) /\ Walked(s, n)
    BY DEF QueueSound
  <1>s. PICK s \in [1 .. n -> Worker] : Threaded(s, n) /\ Walked(s, n)
    BY <1>2
  <1>3. n \in Nat
    BY <1>1
  <1>4. ASSUME UNCHANGED <<queue, sleepEnd, phase>>, Walked(s, n)' PROVE QueueSound'
    <2>1. Threaded(s, n)' /\ size' = size
      BY <1>2, <1>s, <1>4, ThreadedKept DEF queue
    <2> QED
      BY <1>2, <1>s, <1>4, <2>1 DEF QueueSound
  <1>5. ASSUME UNCHANGED <<queue, sleepEnd, phase>>, cursor' \in {"none", "entry", "halted"}
        PROVE  QueueSound'
    <2>1. Walked(s, n)'
      BY <1>5, TimerAssumption DEF Walked, ListTail
    <2> QED
      BY <1>4, <1>5, <2>1
  <1>6. ASSUME UNCHANGED <<queue, sleepEnd, phase>>, cursor' = Begin PROVE QueueSound'
    <2>1. Walked(s, n)'
      BY <1>1, <1>2, <1>s, <1>3, <1>6, WalkBegun
    <2> QED
      BY <1>4, <1>6, <2>1
  <1>7. CASE UNCHANGED allVars
    <2>1. UNCHANGED <<queue, sleepEnd, phase, ticks, cursor, pc, value>>
      BY <1>7 DEF allVars, timer, clock, vars, frame, synch
    <2>2. Walked(s, n)'
      BY <1>2, <1>s, <2>1 DEF Walked, Served
    <2> QED
      BY <1>4, <2>1, <2>2
  <1>8. CASE Fire
    BY <1>5, <1>8 DEF Fire
  <1>9. ASSUME NEW t \in Thread, ThreadStep(t) PROVE QueueSound'
    <2>1. cursor' = "none"
      BY <1>9, ThreadsPause
    <2> QED
      BY <1>5, <1>9, <2>1 DEF ThreadStep, timer
  <1>10. ASSUME NEW t \in Thread, Tick(t) \/ Unhalt(t) PROVE QueueSound'
    BY <1>5, <1>6, <1>10 DEF Tick, Unhalt
  <1>11. ASSUME NEW t \in Thread, Finish(t) PROVE QueueSound'
    BY <1>5, <1>11 DEF Finish
  <1>12. ASSUME NEW t \in Thread, Visit(t) PROVE QueueSound'
    <2>1. Walked(s, n)'
      BY <1>1, <1>2, <1>s, <1>3, <1>12, WalkOn
    <2> QED
      BY <1>4, <1>12, <2>1 DEF Visit
  <1>13. ASSUME NEW t \in Worker, SleepStep(t) PROVE QueueSound'
    <2>1. FirstSleep \/ UNCHANGED phase
      BY DEF allVars, timer
    <2>2. FirstSleep
      BY <2>1 DEF FirstSleep
    <2> QED
      BY <1>13, <2>2, SleepQueue
  <1> QED
    BY <1>7, <1>8, <1>9, <1>10, <1>11, <1>12, <1>13 DEF TimerNext, HandlerStep

(* The inductive invariant of sleeping, while no thread that has slept     *)
(* sleeps again: the place of each thread in sleep_ticks, what the units   *)
(* of its semaphore mean, the queue store by store, and how far the        *)
(* handler has served it.                                                  *)
LEMMA SleepKept == TimerSpec /\ SleepOnce => []SleepSound
  <1>1. SleepSound <=> CallsSound /\ QueueSound
    BY DEF SleepSound, CallsSound, CallSound
  <1>2. TimerInit => SleepSound
    BY <1>1, InitCalls, InitQueue
  <1>3. IInv /\ WalkSound /\ SleepSound /\ [TimerNext]_allVars /\ [FirstSleep]_allVars
          => SleepSound'
    BY <1>1, NextCalls, NextQueue DEF SleepSound, CallsSound, CallSound
  <1>4. Spec => []IInv
    BY Invariance
  <1> QED
    BY <1>2, <1>3, <1>4, TimerIsThreads, WalkKept, PTL DEF TimerSpec, SleepOnce

(* The handler's invariant and the sleepers' together.                     *)
THEOREM TimerKept == TimerSpec /\ SleepOnce => []TimerSound
  <1>1. WalkSound /\ SleepSound => TimerSound
    BY DEF TimerSound
  <1> QED
    BY <1>1, WalkKept, SleepKept, PTL

(* A thread returns from its first sleep no earlier than it asked.         *)
THEOREM NoEarlyReturn == TimerSpec /\ SleepOnce => []NeverEarly
  <1>1. SleepSound => NeverEarly
    BY DEF SleepSound, SleepCall, NeverEarly
  <1> QED
    BY <1>1, SleepKept, PTL

(* When a tick's walk ends, whoever is counted and due has his unit.       *)
THEOREM DueThreadsWoken == TimerSpec /\ SleepOnce => []DueAreWoken
  <1>1. WalkSound /\ SleepSound => DueAreWoken
    <2> SUFFICES ASSUME WalkSound, SleepSound, cursor = ListTail, NEW t \in Queued,
                        sleepEnd[t] <= ticks, phase[t] # "awake"
                 PROVE  \/ value[SleepSema[t]] > 0
                        \/ phase[t] = "wait" /\ pc[t] \in {"restore", "store", "client"}
      BY DEF DueAreWoken
    <2>1. t \in Worker /\ phase[t] \in {"queued", "unlock", "wait"} /\ sleepEnd[t] # -1
      BY DEF Queued, SleepSound, SleepCall
    <2>2. PICK n \in {size, size + 1} : \E s \in [1 .. n -> Worker] : Threaded(s, n) /\ Walked(s, n)
      BY DEF SleepSound, QueueSound
    <2>s. PICK s \in [1 .. n -> Worker] : Threaded(s, n) /\ Walked(s, n)
      BY <2>2
    <2>3. PICK i \in 1 .. n : s[i] = t
      BY <2>1, <2>s DEF Threaded
    <2>4. Served(t)
      BY <2>1, <2>s, <2>3 DEF Walked, Pushing
    <2>5. sleepEnd[t] \in Int /\ ticks \in Nat
      BY <2>1 DEF WalkSound, TimerTypeOK
    <2> QED
      BY <2>4, <2>5 DEF Served
  <1> QED
    BY <1>1, SleepKept, WalkKept, PTL

(* Between pushes the list runs through every queued thread once, and its  *)
(* size field counts them.                                                 *)
THEOREM QueueKept == TimerSpec /\ SleepOnce => []QueueIntact
  <1>1. WalkSound /\ SleepSound => QueueIntact
    <2> SUFFICES ASSUME WalkSound, SleepSound,
                        \A t \in Worker : phase[t] \notin {"linked", "ended"}
                 PROVE  /\ size = Cardinality(Queued)
                        /\ \E s \in [1 .. size -> Queued] :
                             /\ Range(s) = Queued
                             /\ next[ListHead] = (IF size = 0 THEN ListTail ELSE s[1])
                             /\ \A i \in 1 .. size :
                                  next[s[i]] = (IF i = size THEN ListTail ELSE s[i + 1])
      BY DEF QueueIntact
    <2>1. size \in Nat /\ phase \in [Worker -> Phase]
      BY DEF WalkSound, TimerTypeOK
    <2>2. PICK n \in {size, size + 1} : \E s \in [1 .. n -> Worker] : Threaded(s, n)
      BY DEF SleepSound, QueueSound
    <2>3. PICK s \in [1 .. n -> Worker] : Threaded(s, n)
      BY <2>2
    <2>4. n = size
      <3>1. n > 0 => s[n] \in Worker
        BY <2>1
      <3> QED
        BY <2>1, <2>3, <3>1 DEF Threaded, Pushing
    <2>5. \A t \in Worker : t \in Queued <=> sleepEnd[t] # -1 /\ phase[t] # "lock"
      <3>1. \A t \in Worker : phase[t] # "awake" => sleepEnd[t] # -1
        BY DEF SleepSound, SleepCall
      <3> QED
        BY <2>1, <3>1 DEF Queued, Phase
    <2>6. \A t \in Queued : t \in Worker
      BY DEF Queued
    <2>7. s \in [1 .. size -> Queued]
      <3>1. \A i \in 1 .. size : s[i] \in Worker /\ sleepEnd[s[i]] # -1 /\ phase[s[i]] # "lock"
        BY <2>3, <2>4 DEF Threaded
      <3> QED
        BY <2>4, <2>5, <3>1
    <2>8. \A t \in Queued : \E i \in 1 .. size : s[i] = t
      BY <2>3, <2>4, <2>5, <2>6 DEF Threaded
    <2>9. Range(s) = Queued
      BY <2>7, <2>8 DEF Range
    <2>10. s \in Bijection(1 .. size, Queued)
      <3>1. \A i, j \in 1 .. size : s[i] = s[j] => i = j
        BY <2>3, <2>4 DEF Threaded
      <3> QED
        BY <2>7, <2>8, <3>1 DEF Bijection, Injection, Surjection, IsInjective
    <2>11. Cardinality(Queued) = size
      BY <2>1, <2>10, FS_CountingElements DEF ExistsBijection
    <2>12. next[ListHead] = (IF size = 0 THEN ListTail ELSE s[1])
      BY <2>3, <2>4 DEF Threaded
    <2>13. ASSUME NEW i \in 1 .. size
           PROVE  next[s[i]] = (IF i = size THEN ListTail ELSE s[i + 1])
      <3>1. s[i] \in Worker /\ phase[s[i]] # "linked"
        BY <2>4
      <3> QED
        BY <2>3, <2>4, <3>1 DEF Threaded
    <2> QED
      BY <2>7, <2>9, <2>11, <2>12, <2>13
  <1> QED
    BY <1>1, SleepKept, WalkKept, PTL

=============================================================================
