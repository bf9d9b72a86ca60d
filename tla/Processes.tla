------------------------------ MODULE Processes ------------------------------
(***************************************************************************)
(* Processes: fork, wait, exit and the handshake between a parent and its  *)
(* children through wait_sema and reap_sema.                               *)
(*                                                                         *)
(* A step is what a process does between two accesses to state that others *)
(* use; semaphore operations are atomic (Threads keeps the promise of      *)
(* Synch), and one that finds zero never returns: it tests its old copy    *)
(* each time it is woken, so that a process that waits is stuck.  A list   *)
(* of children is used by its process only.  The user code of a process    *)
(* calls fork, wait and exit in any order.  The locals of a call are reset *)
(* when it is over.                                                        *)
(***************************************************************************)
EXTENDS Integers, SequencesExt

CONSTANTS
  Proc,   \* processes that may ever be
  First,  \* the process that starts the others
  Code    \* exit statuses

ASSUME ProcessAssumption == First \in Proc /\ Code \subseteq Nat

VARIABLES
  phase,     \* where a process stands
  pid,       \* base.id; 0 before it is assigned
  nextTid,   \* next_tid
  loaded,    \* the local copy of next_tid in assign_id
  making,    \* the processes a call of fork has still to make
  children,  \* process.children
  exitCode,  \* process.exit_code
  waitSema,  \* process.wait_sema
  reapSema,  \* process.reap_sema
  want,      \* the argument of wait
  todo,      \* the children that wait or exit_process has still to visit
  answer     \* what fork or wait returned, or is about to

forks == <<nextTid, pid, loaded, making>>
handoff == <<waitSema, reapSema>>
walk  == <<want, todo>>
processVars  == <<phase, forks, children, exitCode, handoff, walk, answer>>

Phase == {"unborn", "dormant", "user", "fork", "id", "unblock",
          "look", "took", "reap", "exit", "announced", "stuck", "dead"}

ProcessesInit ==
  /\ phase = [p \in Proc |-> IF p = First THEN "user" ELSE "unborn"]
  /\ pid = [p \in Proc |-> IF p = First THEN 2 ELSE 0]
  /\ nextTid = 3
  /\ loaded = [p \in Proc |-> 0]
  /\ making = [p \in Proc |-> <<>>]
  /\ children = [p \in Proc |-> <<>>]
  /\ exitCode = [p \in Proc |-> -1]
  /\ waitSema = [p \in Proc |-> 0]
  /\ reapSema = [p \in Proc |-> 0]
  /\ want = [p \in Proc |-> 0]
  /\ todo = [p \in Proc |-> <<>>]
  /\ answer = [p \in Proc |-> -1]

Step(p, from, to) == phase[p] = from /\ phase' = [phase EXCEPT ![p] = to]

-----------------------------------------------------------------------------
(* fork: fork_process, thread_unblock, and fork_process once more          *)

(* the memory of both is fresh *)
Fork(p, c, d) ==
  /\ Step(p, "user", "fork")
  /\ c # d /\ \A q \in {c, d} : /\ phase[q] = "unborn"
                                /\ \A r \in Proc : q \notin Range(making[r])
  /\ making' = [making EXCEPT ![p] = <<c, d>>]
  /\ answer' = [answer EXCEPT ![p] = -1]
  /\ UNCHANGED <<pid, nextTid, loaded, children, exitCode, handoff, walk>>

LoadId(p) ==
  /\ Step(p, "fork", "id")
  /\ loaded' = [loaded EXCEPT ![p] = nextTid]
  /\ UNCHANGED <<pid, nextTid, making, children, exitCode, handoff, walk, answer>>

(* the rest of process_init, and list_push_back to the children; the       *)
(* second time, fork returns                                               *)
StoreId(p) ==
  LET child == Head(making[p])
      second == Len(making[p]) = 1
  IN
  /\ phase[p] = "id"
  /\ phase' = [phase EXCEPT ![p] = IF second THEN "user" ELSE "unblock",
                            ![child] = "dormant"]
  /\ nextTid' = loaded[p] + 1
  /\ pid' = [pid EXCEPT ![child] = loaded[p]]
  /\ children' = [children EXCEPT ![p] = Append(@, child)]
  /\ making' = IF second THEN [making EXCEPT ![p] = <<>>] ELSE making
  /\ answer' = IF second THEN [answer EXCEPT ![p] = loaded[p]] ELSE answer
  /\ loaded' = [loaded EXCEPT ![p] = 0]
  /\ UNCHANGED <<exitCode, handoff, walk>>

Unblock(p) ==
  /\ phase[p] = "unblock"
  /\ phase' = [phase EXCEPT ![p] = "fork", ![Head(making[p])] = "user"]
  /\ making' = [making EXCEPT ![p] = Tail(@)]
  /\ UNCHANGED <<pid, nextTid, loaded, children, exitCode, handoff, walk, answer>>

-----------------------------------------------------------------------------
(* wait: it walks all children, and takes each one that has the id         *)

Wait(p, i) ==
  /\ Step(p, "user", "look")
  /\ want' = [want EXCEPT ![p] = i]
  /\ todo' = [todo EXCEPT ![p] = children[p]]
  /\ answer' = [answer EXCEPT ![p] = -1]
  /\ UNCHANGED <<forks, children, exitCode, handoff>>

Return(p) ==
  /\ todo[p] = <<>>
  /\ Step(p, "look", "user")
  /\ want' = [want EXCEPT ![p] = 0]
  /\ UNCHANGED <<forks, children, exitCode, handoff, todo, answer>>

Pass(p) ==
  /\ phase[p] = "look" /\ todo[p] # <<>> /\ pid[Head(todo[p])] # want[p]
  /\ todo' = [todo EXCEPT ![p] = Tail(@)]
  /\ UNCHANGED <<phase, forks, children, exitCode, handoff, want, answer>>

\* Fault: wait_sema is not taken.
FaultyTake(p) ==
  /\ todo[p] # <<>> /\ pid[Head(todo[p])] = want[p]
  /\ Step(p, "look", "took")
  /\ UNCHANGED <<forks, children, exitCode, handoff, walk, answer>>

(* semaphore_dec(&chld->wait_sema) *)
Take(p) ==
  LET child == Head(todo[p]) IN
  /\ todo[p] # <<>> /\ pid[child] = want[p]
  /\ \/ /\ waitSema[child] > 0
        /\ waitSema' = [waitSema EXCEPT ![child] = @ - 1]
        /\ Step(p, "look", "took")
     \/ /\ waitSema[child] = 0
        /\ Step(p, "look", "stuck")
        /\ UNCHANGED waitSema
  /\ UNCHANGED <<forks, children, exitCode, reapSema, walk, answer>>

\* Fault: the child stays in the list.
FaultyCollect(p) ==
  /\ Step(p, "took", "reap")
  /\ answer' = [answer EXCEPT ![p] = exitCode[Head(todo[p])]]
  /\ UNCHANGED <<forks, children, exitCode, handoff, walk>>

Collect(p) ==
  /\ Step(p, "took", "reap")
  /\ answer' = [answer EXCEPT ![p] = exitCode[Head(todo[p])]]
  /\ \E i \in DOMAIN children[p] :
       /\ children[p][i] = Head(todo[p])
       /\ children' = [children EXCEPT ![p] = RemoveAt(@, i)]
  /\ UNCHANGED <<forks, exitCode, handoff, walk>>

Reap(p) ==
  /\ Step(p, "reap", "look")
  /\ reapSema' = [reapSema EXCEPT ![Head(todo[p])] = @ + 1]
  /\ todo' = [todo EXCEPT ![p] = Tail(@)]
  /\ UNCHANGED <<forks, children, exitCode, waitSema, want, answer>>

-----------------------------------------------------------------------------
(* exit_process *)

Exit(p, s) ==
  /\ Step(p, "user", "exit")
  /\ exitCode' = [exitCode EXCEPT ![p] = s]
  /\ todo' = [todo EXCEPT ![p] = children[p]]
  /\ answer' = [answer EXCEPT ![p] = -1]
  /\ UNCHANGED <<forks, children, handoff, want>>

(* one round of the loop: the child need not wait for its parent *)
Orphan(p) ==
  /\ phase[p] = "exit" /\ todo[p] # <<>>
  /\ reapSema' = [reapSema EXCEPT ![Head(todo[p])] = @ + 1]
  /\ todo' = [todo EXCEPT ![p] = Tail(@)]
  /\ UNCHANGED <<phase, forks, children, exitCode, waitSema, want, answer>>

Announce(p) ==
  /\ todo[p] = <<>>
  /\ Step(p, "exit", "announced")
  /\ waitSema' = [waitSema EXCEPT ![p] = @ + 1]
  /\ UNCHANGED <<forks, children, exitCode, reapSema, walk, answer>>

\* Fault: a process that announced its end disappears at once.
FaultyVanish(p) ==
  /\ Step(p, "announced", "dead")
  /\ reapSema' = [reapSema EXCEPT ![p] = @ - 1]
  /\ UNCHANGED <<forks, children, exitCode, waitSema, walk, answer>>

(* semaphore_dec(&cur->reap_sema) and exit_thread *)
Vanish(p) ==
  /\ \/ /\ reapSema[p] > 0
        /\ reapSema' = [reapSema EXCEPT ![p] = @ - 1]
        /\ Step(p, "announced", "dead")
     \/ /\ reapSema[p] = 0
        /\ Step(p, "announced", "stuck")
        /\ UNCHANGED reapSema
  /\ UNCHANGED <<forks, children, exitCode, waitSema, walk, answer>>

-----------------------------------------------------------------------------

ProcessesNext ==
  \E p \in Proc :
    \/ \E c, d \in Proc : Fork(p, c, d)
    \/ LoadId(p) \/ StoreId(p) \/ Unblock(p)
    \/ \E q \in Proc : pid[q] # 0 /\ Wait(p, pid[q])
    \/ Return(p) \/ Pass(p) \/ Take(p) \/ Collect(p) \/ Reap(p)
    \/ \E s \in Code : Exit(p, s)
    \/ Orphan(p) \/ Announce(p) \/ Vanish(p)

ProcessesSpec == ProcessesInit /\ [][ProcessesNext]_processVars

-----------------------------------------------------------------------------

Exiting(p) == exitCode[p] # -1
Announced(p) == Exiting(p) /\ phase[p] # "exit"

(* Every variable stays in its range. *)
ProcessTypeOK ==
  /\ phase \in [Proc -> Phase] /\ pid \in [Proc -> Nat] /\ nextTid \in Nat
  /\ loaded \in [Proc -> Nat] /\ making \in [Proc -> Seq(Proc)]
  /\ children \in [Proc -> Seq(Proc)] /\ todo \in [Proc -> Seq(Proc)]
  /\ exitCode \in [Proc -> Code \cup {-1}]
  /\ waitSema \in [Proc -> Nat] /\ reapSema \in [Proc -> Nat]
  /\ want \in [Proc -> Nat] /\ answer \in [Proc -> Nat \cup {-1}]

(* "Used to ensure resources aren't deallocated prior to the parent needing *)
(* them" (process.h:23): a child that is still in its parent's list lives   *)
(* on, unless the parent is exiting itself.                                 *)
KeptForParent ==
  \A p, c \in Proc :
    c \in Range(children[p]) /\ phase[c] = "dead" => Exiting(p)

(* What wait is about to return is the status of a process with that id,   *)
(* given in its call of exit_process, and that process is taken off the    *)
(* caller's list: no status is returned early, and none twice.             *)
WaitTruth ==
  \A p \in Proc : phase[p] \in {"look", "reap"} /\ answer[p] # -1 =>
    \E c \in Proc : /\ pid[c] = want[p] /\ exitCode[c] = answer[p]
                    /\ Announced(c)
                    /\ c \notin Range(children[p])

(* A child is released once, by the parent's wait or by its exit: no unit *)
(* of reap_sema is left when it is gone.                                  *)
ReapedOnce ==
  \A c \in Proc : reapSema[c] + (IF phase[c] = "dead" THEN 1 ELSE 0) <= 1

(* "Spawn an identical process with a new pid" (system.h:42): the process  *)
(* whose pid fork returns has been made ready.                             *)
ForkedRuns ==
  [][\A p \in Proc : phase[p] = "id" /\ phase'[p] = "user" =>
       \E c \in Proc : pid'[c] = answer'[p] /\ phase'[c] # "dormant"]_processVars

-----------------------------------------------------------------------------
(* Why the above holds.                                                    *)

(* The processes a call of fork has still to make are nobody else's.       *)
ForksApart ==
  \A p \in Proc :
    /\ phase[p] \in {"fork", "id"} =>
         making[p] # <<>> /\ \A c \in Range(making[p]) : phase[c] = "unborn"
    /\ phase[p] = "unblock" =>
         /\ Tail(making[p]) # <<>> /\ phase[Head(making[p])] = "dormant"
         /\ \A c \in Range(Tail(making[p])) : phase[c] = "unborn"
    /\ phase[p] \notin {"fork", "id", "unblock"} <=> making[p] = <<>>
    /\ IsInjective(making[p])
    /\ \A q \in Proc \ {p} : \A c \in Range(making[p]) : c \notin Range(making[q])

(* The children of a process, and those it is about to release. *)
Kin(p) == Range(children[p]) \cup Range(todo[p])

(* A process has one parent, which has it in its list once; wait and       *)
(* exit_process visit children of their process only.                      *)
OneParent ==
  \A p \in Proc :
    /\ IsInjective(children[p]) /\ IsInjective(todo[p])
    /\ \A c \in Kin(p) : phase[c] # "unborn"
    /\ \A q \in Proc \ {p} : \A c \in Kin(p) : c \notin Kin(q)
    /\ phase[p] \in {"took", "reap"} => todo[p] # <<>>
    /\ phase[p] # "reap" => Range(todo[p]) \subseteq Range(children[p])
    /\ phase[p] = "reap" => /\ Head(todo[p]) \notin Range(children[p])
                            /\ Range(Tail(todo[p])) \subseteq Range(children[p])
    /\ todo[p] # <<>> => phase[p] \in {"look", "took", "reap", "exit", "stuck"}

(* p has still to release c: c is a child of p, which does not exit; or p  *)
(* exits and has not visited c; or wait has just taken c off the list.     *)
Owes(p, c) ==
  \/ ~Exiting(p) /\ c \in Range(children[p])
  \/ phase[p] = "exit" /\ c \in Range(todo[p])
  \/ phase[p] = "reap" /\ c = Head(todo[p])

(* A child that has not been released is there and has no unit to leave by. *)
Unreleased ==
  /\ \A p, c \in Proc : Owes(p, c) => reapSema[c] = 0 /\ phase[c] # "dead"
  /\ \A c \in Proc : phase[c] = "unborn" => reapSema[c] = 0

(* Exit statuses are given once and announced once, and a wait that took   *)
(* wait_sema of a child took it of one that has announced its status.      *)
ExitsOnce ==
  \A p \in Proc :
    /\ phase[p] \in {"exit", "announced", "dead"} => Exiting(p)
    /\ Exiting(p) => phase[p] \in {"exit", "announced", "stuck", "dead"}
    /\ waitSema[p] > 0 => Announced(p)
    /\ phase[p] = "took" => /\ pid[Head(todo[p])] = want[p]
                            /\ Announced(Head(todo[p]))

(* The inductive invariant of the handshake. *)
Handshake ==
  /\ ProcessTypeOK /\ ForksApart /\ OneParent /\ Unreleased /\ ExitsOnce
  /\ KeptForParent /\ WaitTruth /\ ReapedOnce
=============================================================================
