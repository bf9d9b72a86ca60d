--------------------------- MODULE ProcessesProofs ---------------------------
(***************************************************************************)
(* The handshake of Processes holds for any number of processes: what is   *)
(* kept for a parent, what wait returns, and how often a child is released. *)
(***************************************************************************)
EXTENDS Processes, DataLemmas

(* Handshake, without what follows from the rest. *)
Sound ==
  /\ ProcessTypeOK /\ ForksApart /\ OneParent /\ Unreleased /\ ExitsOnce
  /\ WaitTruth /\ ReapedOnce

(* A list of processes has processes in it. *)
LEMMA Within ==
  ASSUME NEW S, NEW q \in Seq(S)
  PROVE  Range(q) \subseteq S
  <1> DOMAIN q = 1..Len(q) /\ \A i \in 1..Len(q) : q[i] \in S
    OBVIOUS
  <1> QED
    BY DEF Range

(* The lists of a process, and what is first in those it walks.            *)
LEMMA Heads ==
  ASSUME ProcessTypeOK, NEW p \in Proc
  PROVE  /\ Range(todo[p]) \subseteq Proc /\ Range(children[p]) \subseteq Proc
         /\ Range(making[p]) \subseteq Proc
         /\ \A q \in {todo[p], making[p]} : q # <<>> =>
              /\ Head(q) \in Proc /\ Tail(q) \in Seq(Proc)
              /\ Head(q) \in Range(q) /\ Range(Tail(q)) \subseteq Proc
              /\ \A c \in Proc : c \in Range(q) <=> c \in Range(Tail(q)) \/ c = Head(q)
              /\ IsInjective(q) => IsInjective(Tail(q)) /\ Head(q) \notin Range(Tail(q))
  <1>1. todo[p] \in Seq(Proc) /\ children[p] \in Seq(Proc) /\ making[p] \in Seq(Proc)
    BY DEF ProcessTypeOK
  <1>2. Range(todo[p]) \subseteq Proc /\ Range(children[p]) \subseteq Proc
        /\ Range(making[p]) \subseteq Proc
    BY <1>1, Within
  <1>3. ASSUME NEW q \in {todo[p], making[p]}, q # <<>>
        PROVE  /\ Head(q) \in Proc /\ Tail(q) \in Seq(Proc)
               /\ Head(q) \in Range(q)
               /\ Range(q) = Range(Tail(q)) \cup {Head(q)}
               /\ IsInjective(q) => IsInjective(Tail(q)) /\ Head(q) \notin Range(Tail(q))
    BY <1>1, <1>3, PoppedFront
  <1> QED
    BY <1>2, <1>3, Within

-----------------------------------------------------------------------------
(* What a step leaves alone keeps a conjunct that does not speak of the    *)
(* rest.                                                                   *)

(* fork is not concerned with what other calls do. *)
LEMMA ForksKept ==
  ASSUME ProcessTypeOK, ForksApart, making' = making,
         \A q \in Proc : /\ phase'[q] = "unborn" <=> phase[q] = "unborn"
                         /\ phase'[q] = "dormant" <=> phase[q] = "dormant"
                         /\ phase'[q] = "unblock" <=> phase[q] = "unblock"
                         /\ phase'[q] \in {"fork", "id"} <=> phase[q] \in {"fork", "id"}
  PROVE  ForksApart'
  <1> SUFFICES ASSUME NEW q \in Proc
               PROVE  ForksApart!(q)'
    BY DEF ForksApart
  <1>1. Range(making[q]) \subseteq Proc /\ (making[q] # <<>> => Head(making[q]) \in Proc /\ Range(Tail(making[q])) \subseteq Proc)
    BY Heads
  <1>2. phase'[q] \in {"fork", "id"} =>
          making'[q] # <<>> /\ \A c \in Range(making'[q]) : phase'[c] = "unborn"
    BY <1>1 DEF ForksApart
  <1>3. phase'[q] = "unblock" =>
          /\ Tail(making'[q]) # <<>> /\ phase'[Head(making'[q])] = "dormant"
          /\ \A c \in Range(Tail(making'[q])) : phase'[c] = "unborn"
    BY <1>1 DEF ForksApart
  <1>4. phase'[q] \notin {"fork", "id", "unblock"} <=> making'[q] = <<>>
    BY DEF ForksApart
  <1> QED
    BY <1>2, <1>3, <1>4 DEF ForksApart

(* A process that fork has still to make does nothing yet. *)
LEMMA Unmade ==
  ASSUME ProcessTypeOK, ForksApart, NEW q \in Proc, NEW x \in Range(making[q])
  PROVE  x \in Proc /\ phase[x] \in {"unborn", "dormant"}
  <1>1. x \in Proc
    BY Heads
  <1>2. making[q] # <<>>
    BY EmptyList
  <1>3. CASE phase[q] \in {"fork", "id"}
    BY <1>1, <1>3 DEF ForksApart
  <1>4. CASE phase[q] = "unblock"
    <2>1. x \in Range(Tail(making[q])) \/ x = Head(making[q])
      BY <1>1, <1>2, Heads
    <2> QED
      BY <1>1, <1>4, <2>1 DEF ForksApart
  <1> QED
    BY <1>2, <1>3, <1>4 DEF ForksApart

(* A call of fork whose process and whose children do not move. *)
LEMMA ForkKept ==
  ASSUME ProcessTypeOK, ForksApart, NEW q \in Proc, making'[q] = making[q],
         phase'[q] # phase[q] => {phase[q], phase'[q]} \cap {"fork", "id", "unblock"} = {},
         \A x \in Range(making[q]) : phase'[x] = phase[x]
  PROVE  /\ phase'[q] \in {"fork", "id"} =>
              making'[q] # <<>> /\ \A c \in Range(making'[q]) : phase'[c] = "unborn"
         /\ phase'[q] = "unblock" =>
              /\ Tail(making'[q]) # <<>> /\ phase'[Head(making'[q])] = "dormant"
              /\ \A c \in Range(Tail(making'[q])) : phase'[c] = "unborn"
         /\ phase'[q] \notin {"fork", "id", "unblock"} <=> making'[q] = <<>>
         /\ IsInjective(making'[q])
  <1>1. phase[q] \in {"fork", "id", "unblock"} \/ phase'[q] \in {"fork", "id", "unblock"}
          => phase'[q] = phase[q]
    OBVIOUS
  <1>2. making[q] # <<>> => /\ Head(making[q]) \in Range(making[q])
                            /\ Range(Tail(making[q])) \subseteq Range(making[q])
    BY Heads
  <1>3. ASSUME phase'[q] = "unblock"
        PROVE  /\ Tail(making[q]) # <<>> /\ phase'[Head(making[q])] = "dormant"
               /\ \A c \in Range(Tail(making[q])) : phase'[c] = "unborn"
    <2>1. /\ Tail(making[q]) # <<>> /\ phase[Head(making[q])] = "dormant"
          /\ making[q] # <<>>
          /\ \A x \in Range(Tail(making[q])) : phase[x] = "unborn"
      BY <1>1, <1>3 DEF ForksApart
    <2> QED
      BY <1>2, <2>1
  <1>4. phase'[q] \in {"fork", "id"} =>
          making'[q] # <<>> /\ \A c \in Range(making'[q]) : phase'[c] = "unborn"
    BY <1>1 DEF ForksApart
  <1>5. /\ phase'[q] \notin {"fork", "id", "unblock"} <=> making'[q] = <<>>
        /\ IsInjective(making'[q])
    BY <1>1 DEF ForksApart
  <1> QED
    BY <1>3, <1>4, <1>5

(* The lists of children stay as they are. *)
LEMMA ParentsKept ==
  ASSUME ProcessTypeOK, OneParent, children' = children, todo' = todo,
         \A q \in Proc : /\ phase'[q] = "unborn" => phase[q] = "unborn"
                         /\ phase'[q] = "reap" <=> phase[q] = "reap"
                         /\ phase'[q] = "took" => todo[q] # <<>>
                         /\ todo[q] # <<>> => phase'[q] \in {"look", "took", "reap", "exit", "stuck"}
  PROVE  OneParent'
  <1> SUFFICES ASSUME NEW q \in Proc
               PROVE  OneParent!(q)'
    BY DEF OneParent
  <1>1. \A c \in Kin(q) : c \in Proc
    BY Heads DEF Kin
  <1>2. \A c \in Kin(q)' : phase'[c] # "unborn"
    BY <1>1 DEF OneParent, Kin
  <1>3. \A r \in Proc \ {q} : \A c \in Kin(q)' : c \notin Kin(r)'
    BY DEF OneParent, Kin
  <1> QED
    BY <1>2, <1>3 DEF OneParent

(* One walk goes on, or starts.                                            *)
LEMMA WalkKept ==
  ASSUME ProcessTypeOK, OneParent, NEW p \in Proc, NEW T \in Seq(Proc),
         children' = children, todo' = [todo EXCEPT ![p] = T],
         IsInjective(T), Range(T) \subseteq Range(children[p]),
         phase'[p] \notin {"took", "reap"},
         T # <<>> => phase'[p] \in {"look", "exit"},
         \A q \in Proc : phase'[q] = "unborn" => phase[q] = "unborn",
         \A q \in Proc \ {p} : phase'[q] = phase[q]
  PROVE  OneParent'
  <1>1. /\ todo'[p] = T /\ \A q \in Proc \ {p} : todo'[q] = todo[q]
        /\ \A q \in Proc : Range(children[q]) \subseteq Proc /\ Range(todo[q]) \subseteq Proc
    BY Heads DEF ProcessTypeOK
  <1>2. \A q \in Proc : Range(todo'[q]) \cup Range(children'[q]) \subseteq Range(todo[q]) \cup Range(children[q])
    BY <1>1
  <1> SUFFICES ASSUME NEW q \in Proc
               PROVE  OneParent!(q)'
    BY DEF OneParent
  <1>3. \A c \in Kin(q)' : phase'[c] # "unborn"
    BY <1>1, <1>2 DEF OneParent, Kin
  <1>4. \A r \in Proc \ {q} : \A c \in Kin(q)' : c \notin Kin(r)'
    BY <1>2 DEF OneParent, Kin
  <1>5. CASE q = p
    <2>1. /\ IsInjective(children'[q]) /\ IsInjective(todo'[q])
          /\ phase'[q] \in {"took", "reap"} => todo'[q] # <<>>
          /\ phase'[q] # "reap" => Range(todo'[q]) \subseteq Range(children'[q])
          /\ phase'[q] # "reap"
          /\ todo'[q] # <<>> => phase'[q] \in {"look", "took", "reap", "exit", "stuck"}
      BY <1>1, <1>5 DEF OneParent
    <2> QED
      BY <1>3, <1>4, <2>1
  <1>6. CASE q # p
    <2>1. todo'[q] = todo[q] /\ children'[q] = children[q] /\ phase'[q] = phase[q]
      BY <1>1, <1>6
    <2> QED
      BY <1>3, <1>4, <2>1 DEF OneParent
  <1> QED
    BY <1>5, <1>6

(* No debt is new, and none that stays is paid. *)
LEMMA DebtsKept ==
  ASSUME ProcessTypeOK, Unreleased, reapSema' = reapSema,
         \A q, c \in Proc : Owes(q, c)' => Owes(q, c) \/ (reapSema[c] = 0 /\ phase'[c] # "dead"),
         \A c \in Proc : /\ phase'[c] = "unborn" => phase[c] = "unborn"
                         /\ phase'[c] = "dead" => phase[c] = "dead"
  PROVE  Unreleased'
  BY DEF Unreleased

(* No process exits or announces, and no one starts to take. *)
LEMMA ExitsKept ==
  ASSUME ProcessTypeOK, OneParent, ExitsOnce, UNCHANGED <<exitCode, waitSema>>,
         \A q \in Proc : /\ phase'[q] \in {"exit", "announced", "dead"} => Exiting(q)
                         /\ Exiting(q) => phase'[q] \in {"exit", "announced", "stuck", "dead"}
                         /\ phase'[q] = "exit" => phase[q] = "exit"
                         /\ phase'[q] = "took" => /\ phase[q] = "took" /\ todo'[q] = todo[q]
                                                  /\ want'[q] = want[q],
         \A q \in Proc : Exiting(q) => pid'[q] = pid[q]
  PROVE  ExitsOnce'
  <1> SUFFICES ASSUME NEW q \in Proc
               PROVE  ExitsOnce!(q)'
    BY DEF ExitsOnce
  <1>1. \A r \in Proc : Announced(r) => Announced(r)'
    BY DEF Announced, Exiting
  <1>2. waitSema'[q] > 0 => Announced(q)'
    BY <1>1 DEF ExitsOnce
  <1>3. ASSUME phase'[q] = "took"
        PROVE  /\ pid'[Head(todo'[q])] = want'[q]
               /\ Announced(Head(todo[q]))'
    <2>1. PICK h \in Proc : h = Head(todo[q])
      BY <1>3, Heads DEF OneParent
    <2>2. pid[h] = want[q] /\ Announced(h)
      BY <1>3, <2>1 DEF ExitsOnce
    <2>3. pid'[h] = want'[q] /\ Announced(h)' /\ h = Head(todo'[q])
      BY <1>1, <1>3, <2>1, <2>2 DEF Announced
    <2> QED
      BY <2>3 DEF Announced, Exiting
  <1>4. /\ phase'[q] \in {"exit", "announced", "dead"} => Exiting(q)'
        /\ Exiting(q)' => phase'[q] \in {"exit", "announced", "stuck", "dead"}
    BY DEF Exiting
  <1> QED
    BY <1>2, <1>3, <1>4 DEF ExitsOnce, Announced, Exiting

(* No answer is new, and what an answer rests on does not change. *)
LEMMA AnswersKept ==
  ASSUME ProcessTypeOK, ExitsOnce, WaitTruth,
         \A q \in Proc : /\ Exiting(q) => /\ exitCode'[q] = exitCode[q]
                                          /\ pid'[q] = pid[q]
                         /\ phase'[q] = "exit" => phase[q] = "exit" \/ ~Exiting(q),
         \A q \in Proc : phase'[q] \in {"look", "reap"} /\ answer'[q] # -1 =>
            /\ phase[q] \in {"look", "reap"} /\ answer'[q] = answer[q] /\ want'[q] = want[q]
            /\ Range(children'[q]) \subseteq Range(children[q])
  PROVE  WaitTruth'
  <1> SUFFICES ASSUME NEW q \in Proc, phase'[q] \in {"look", "reap"}, answer'[q] # -1
               PROVE  \E c \in Proc : /\ pid'[c] = want'[q] /\ exitCode'[c] = answer'[q]
                                      /\ Announced(c)'
                                      /\ c \notin Range(children'[q])
    BY DEF WaitTruth
  <1>1. PICK c \in Proc : /\ pid[c] = want[q] /\ exitCode[c] = answer[q]
                          /\ Announced(c)
                          /\ c \notin Range(children[q])
    BY DEF WaitTruth
  <1> QED
    BY <1>1 DEF Announced, Exiting

(* fork chooses two processes nobody makes. *)
LEMMA ForkKeeps ==
  ASSUME ProcessAssumption, Sound, NEW p \in Proc, NEW c \in Proc, NEW d \in Proc, Fork(p, c, d)
  PROVE  Sound'
  <1> USE DEF Step, forks, handoff, walk
  <1>1. /\ ProcessTypeOK /\ ForksApart /\ OneParent /\ Unreleased /\ ExitsOnce
        /\ WaitTruth /\ ReapedOnce
    BY DEF Sound
  <1>2. ProcessTypeOK'
    <2>1. <<c, d>> \in Seq(Proc)
      OBVIOUS
    <2> QED
      BY <1>1, <2>1 DEF Fork, ProcessTypeOK, Phase
  <1>3. ForksApart'
    <2>1. /\ <<c, d>> \in Seq(Proc) /\ <<c, d>> # <<>> /\ Range(<<c, d>>) = {c, d}
          /\ IsInjective(<<c, d>>)
      BY DEF Fork, Range, IsInjective
    <2> SUFFICES ASSUME NEW q \in Proc
                 PROVE  ForksApart!(q)'
      BY DEF ForksApart
    <2>2. /\ phase[p] = "user" /\ phase' = [phase EXCEPT ![p] = "fork"]
          /\ making' = [making EXCEPT ![p] = <<c, d>>] /\ phase \in [Proc -> Phase]
          /\ making \in [Proc -> Seq(Proc)]
          /\ \A x \in {c, d} : phase[x] = "unborn" /\ \A r \in Proc : x \notin Range(making[r])
      BY <1>1 DEF Fork, ProcessTypeOK
    <2>3. CASE q = p
      <3>1. /\ phase'[q] = "fork" /\ making'[q] = <<c, d>>
            /\ \A x \in {c, d} : x \in Proc /\ phase'[x] = "unborn"
        BY <2>2, <2>3
      <3>2. \A r \in Proc \ {q} : \A x \in Range(making'[q]) : x \notin Range(making'[r])
        BY <2>1, <2>2, <2>3, <3>1
      <3> QED
        BY <2>1, <3>1, <3>2
    <2>4. CASE q # p
      <3>1. /\ phase'[q] = phase[q] /\ making'[q] = making[q]
            /\ \A x \in Proc : phase[x] # "user" => phase'[x] = phase[x]
        BY <2>2, <2>4
      <3>2. ASSUME NEW r \in Proc \ {q}, NEW x \in Range(making'[q])
            PROVE  x \notin Range(making'[r])
        <4>1. CASE r = p
          BY <2>1, <2>2, <3>1, <4>1
        <4>2. CASE r # p
          BY <1>1, <2>2, <3>1, <4>2 DEF ForksApart
        <4> QED
          BY <4>1, <4>2
      <3>3. \A x \in Range(making[q]) : phase'[x] = phase[x]
        BY <1>1, <3>1, Unmade
      <3> QED
        BY <1>1, <3>1, <3>2, <3>3, ForkKept
    <2> QED
      BY <2>3, <2>4
  <1>4. OneParent'
    BY <1>1, ParentsKept DEF Fork, ProcessTypeOK, OneParent
  <1>5. Unreleased'
    <2>1. \A q, x \in Proc : Owes(q, x)' => Owes(q, x)
      BY <1>1 DEF Fork, Owes, Exiting, ProcessTypeOK
    <2>2. \A x \in Proc : /\ phase'[x] = "unborn" => phase[x] = "unborn"
                          /\ phase'[x] = "dead" => phase[x] = "dead"
      BY <1>1 DEF Fork, ProcessTypeOK
    <2>3. reapSema' = reapSema
      BY DEF Fork
    <2> QED
      BY <1>1, <2>1, <2>2, <2>3, DebtsKept
  <1>6. ExitsOnce'
    BY <1>1, ExitsKept DEF Fork, ProcessTypeOK, Exiting, ExitsOnce
  <1>7. WaitTruth'
    BY <1>1, AnswersKept DEF Fork, ProcessTypeOK, Exiting, ExitsOnce
  <1>8. ReapedOnce'
    BY <1>1 DEF Fork, ReapedOnce, ProcessTypeOK
  <1> QED
    BY <1>2, <1>3, <1>4, <1>5, <1>6, <1>7, <1>8 DEF Sound

(* The first access of assign_id. *)
LEMMA LoadIdKeeps ==
  ASSUME ProcessAssumption, Sound, NEW p \in Proc, LoadId(p)
  PROVE  Sound'
  <1> USE DEF Step, forks, handoff, walk
  <1>1. /\ ProcessTypeOK /\ ForksApart /\ OneParent /\ Unreleased /\ ExitsOnce
        /\ WaitTruth /\ ReapedOnce
    BY DEF Sound
  <1>2. ProcessTypeOK'
    BY <1>1, Heads, ProcessAssumption DEF LoadId, ProcessTypeOK, Phase
  <1>3. ForksApart'
    BY <1>1, ForksKept DEF LoadId, ProcessTypeOK
  <1>4. OneParent'
    BY <1>1, ParentsKept DEF LoadId, ProcessTypeOK, OneParent
  <1>5. Unreleased'
    <2>1. \A q, c \in Proc : Owes(q, c)' => Owes(q, c)
      BY <1>1 DEF LoadId, Owes, Exiting, ProcessTypeOK
    <2>2. \A c \in Proc : /\ phase'[c] = "unborn" => phase[c] = "unborn"
                          /\ phase'[c] = "dead" => phase[c] = "dead"
      BY <1>1 DEF LoadId, ProcessTypeOK
    <2>3. reapSema' = reapSema
      BY DEF LoadId
    <2> QED
      BY <1>1, <2>1, <2>2, <2>3, DebtsKept
  <1>6. ExitsOnce'
    BY <1>1, ExitsKept DEF LoadId, ProcessTypeOK, Exiting, ExitsOnce
  <1>7. WaitTruth'
    BY <1>1, AnswersKept DEF LoadId, ProcessTypeOK, Exiting, ExitsOnce
  <1>8. ReapedOnce'
    BY <1>1 DEF LoadId, ReapedOnce, ProcessTypeOK
  <1> QED
    BY <1>2, <1>3, <1>4, <1>5, <1>6, <1>7, <1>8 DEF Sound

(* A process is made, and becomes a child of its maker. *)
LEMMA StoreIdKeeps ==
  ASSUME ProcessAssumption, Sound, NEW p \in Proc, StoreId(p)
  PROVE  Sound'
  <1> USE DEF Step, forks, handoff, walk
  <1>1. /\ ProcessTypeOK /\ ForksApart /\ OneParent /\ Unreleased /\ ExitsOnce
        /\ WaitTruth /\ ReapedOnce
    BY DEF Sound
  <1>a. PICK child \in Proc :
          /\ child = Head(making[p]) /\ child \in Range(making[p])
          /\ child \notin Range(Tail(making[p])) /\ Range(Tail(making[p])) \subseteq Range(making[p])
          /\ phase[child] = "unborn" /\ phase[p] = "id" /\ child # p
    <2>1. making[p] # <<>> /\ IsInjective(making[p]) /\ phase[p] = "id"
      BY <1>1 DEF StoreId, ForksApart
    <2>2. /\ Head(making[p]) \in Range(making[p]) /\ Head(making[p]) \in Proc
          /\ Head(making[p]) \notin Range(Tail(making[p]))
          /\ Range(Tail(making[p])) \subseteq Range(making[p])
      BY <1>1, <2>1, Heads
    <2>3. phase[Head(making[p])] = "unborn"
      BY <1>1, <2>1, <2>2 DEF ForksApart
    <2> QED
      BY <2>1, <2>2, <2>3
  <1>b. PICK to \in {"user", "unblock"} :
          /\ phase' = [phase EXCEPT ![p] = to, ![child] = "dormant"]
          /\ to = "user" => making' = [making EXCEPT ![p] = <<>>]
          /\ to = "unblock" => making' = making /\ Len(making[p]) # 1
          /\ to = "unblock" => answer' = answer
          /\ to = "user" => answer' = [answer EXCEPT ![p] = loaded[p]]
    BY <1>a DEF StoreId
  <1>c. /\ phase'[p] = to /\ phase'[child] = "dormant" /\ phase' \in [Proc -> Phase]
        /\ \A q \in Proc \ {p, child} : phase'[q] = phase[q]
    BY <1>1, <1>a, <1>b DEF ProcessTypeOK, Phase
  <1>d. /\ children' = [children EXCEPT ![p] = Append(@, child)] /\ todo' = todo
        /\ exitCode' = exitCode /\ waitSema' = waitSema /\ reapSema' = reapSema
        /\ want' = want /\ pid' = [pid EXCEPT ![child] = loaded[p]]
    BY <1>a DEF StoreId
  <1>e. /\ children'[p] \in Seq(Proc) /\ Range(children'[p]) = Range(children[p]) \cup {child}
        /\ IsInjective(children[p]) /\ child \notin Range(children[p]) => IsInjective(children'[p])
        /\ children' \in [Proc -> Seq(Proc)]
        /\ \A q \in Proc \ {p} : children'[q] = children[q]
    <2>1. children \in [Proc -> Seq(Proc)] /\ children[p] \in Seq(Proc)
      BY <1>1 DEF ProcessTypeOK
    <2>2. /\ Append(children[p], child) \in Seq(Proc)
          /\ Range(Append(children[p], child)) = Range(children[p]) \cup {child}
          /\ IsInjective(children[p]) /\ child \notin Range(children[p])
               => IsInjective(Append(children[p], child))
      BY <2>1, PushedBack
    <2> QED
      BY <1>d, <2>1, <2>2
  <1>f. ~Exiting(child) /\ ~Exiting(p)
    BY <1>1, <1>a DEF ExitsOnce
  <1>2. ProcessTypeOK'
    <2>1. making' \in [Proc -> Seq(Proc)]
      <3>1. making \in [Proc -> Seq(Proc)] /\ <<>> \in Seq(Proc)
        BY <1>1 DEF ProcessTypeOK
      <3> QED
        BY <1>b, <3>1
    <2>2. /\ loaded[p] \in Nat
          /\ pid \in [Proc -> Nat] /\ loaded \in [Proc -> Nat]
          /\ answer \in [Proc -> Nat \cup {-1}]
      BY <1>1 DEF ProcessTypeOK
    <2>3. /\ nextTid' = loaded[p] + 1 /\ loaded' = [loaded EXCEPT ![p] = 0]
      BY DEF StoreId
    <2>4. pid' \in [Proc -> Nat] /\ loaded' \in [Proc -> Nat] /\ nextTid' \in Nat
      BY <1>d, <2>2, <2>3
    <2>5. answer' \in [Proc -> Nat \cup {-1}]
      BY <1>b, <2>2
    <2> QED
      BY <1>1, <1>c, <1>d, <1>e, <2>1, <2>4, <2>5 DEF ProcessTypeOK
  <1>3. ForksApart'
    <2> SUFFICES ASSUME NEW q \in Proc
                 PROVE  ForksApart!(q)'
      BY DEF ForksApart
    <2>1. \A r \in Proc : Range(making'[r]) \subseteq Range(making[r])
      BY <1>1, <1>b, EmptyList DEF ProcessTypeOK
    <2>2. \A r \in Proc \ {q} : \A x \in Range(making'[q]) : x \notin Range(making'[r])
      BY <1>1, <2>1, ZenonT(40) DEF ForksApart
    <2>3. CASE q = p /\ to = "user"
      BY <1>1, <1>b, <1>c, <2>2, <2>3, EmptyList DEF ProcessTypeOK
    <2>4. CASE q = p /\ to = "unblock"
      <3>1. making[q] \in Seq(Proc) /\ making[q] # <<>> /\ IsInjective(making[q])
        BY <1>1, <1>a, <2>4 DEF ProcessTypeOK, ForksApart
      <3>2. Tail(making[q]) # <<>>
        <4>1. Len(making[q]) # 1 /\ Len(making[q]) # 0 /\ Len(making[q]) \in Nat
          BY <1>b, <2>4, <3>1
        <4>2. Len(Tail(making[q])) = Len(making[q]) - 1
          BY <3>1
        <4>3. Len(Tail(making[q])) # 0
          BY <4>1, <4>2
        <4>4. Len(<<>>) = 0
          OBVIOUS
        <4> QED
          BY <4>3, <4>4, Zenon
      <3>3. \A x \in Range(Tail(making[q])) : phase'[x] = "unborn"
        <4> SUFFICES ASSUME NEW x \in Range(Tail(making[q]))
                     PROVE  phase'[x] = "unborn"
          OBVIOUS
        <4>1. x \in Range(making[p]) /\ x # child
          BY <1>a, <2>4
        <4>2. phase[x] = "unborn" /\ x \in Proc
          BY <1>1, <1>a, <4>1, Heads DEF ForksApart
        <4> QED
          BY <1>a, <1>c, <4>1, <4>2
      <3>4. making'[q] = making[q] /\ phase'[q] = "unblock" /\ phase'[Head(making[q])] = "dormant"
        BY <1>a, <1>b, <1>c, <2>4
      <3> QED
        BY <2>2, <3>1, <3>2, <3>3, <3>4
    <2>5. CASE q # p
      <3>1. making'[q] = making[q]
        BY <1>1, <1>b, <2>5 DEF ProcessTypeOK
      <3>2. phase'[q] # phase[q] => {phase[q], phase'[q]} \cap {"fork", "id", "unblock"} = {}
        BY <1>a, <1>c, <2>5
      <3>3. ASSUME NEW x \in Range(making[q])
            PROVE  phase'[x] = phase[x]
        <4>1. x \in Proc /\ x # child
          BY <1>1, <1>a, <2>5, Heads DEF ForksApart
        <4>2. x # p
          BY <1>1, <1>a, Unmade
        <4> QED
          BY <1>c, <4>1, <4>2
      <3> QED
        BY <1>1, <2>2, <3>1, <3>2, <3>3, ForkKept
    <2> QED
      BY <2>3, <2>4, <2>5
  <1>4. OneParent'
    <2> SUFFICES ASSUME NEW q \in Proc
                 PROVE  OneParent!(q)'
      BY DEF OneParent
    <2>1. \A r \in Proc : child \notin Range(children[r]) /\ child \notin Range(todo[r])
      BY <1>1, <1>a DEF OneParent, Kin
    <2>2. \A r \in Proc : /\ r # p => Range(children'[r]) = Range(children[r])
                          /\ Range(children'[p]) = Range(children[p]) \cup {child}
                          /\ Range(children[r]) \subseteq Proc /\ Range(todo[r]) \subseteq Proc
      BY <1>1, <1>e, Heads
    <2>3. \A c \in Kin(q)' : phase'[c] # "unborn"
      BY <1>1, <1>b, <1>c, <1>d, <2>2 DEF OneParent, Kin
    <2>4. \A r \in Proc \ {q} : \A c \in Kin(q)' : c \notin Kin(r)'
      BY <1>1, <1>d, <2>1, <2>2, SMTT(30) DEF OneParent, Kin
    <2>5. todo[p] = <<>> /\ todo[child] = <<>>
      BY <1>1, <1>a DEF OneParent
    <2>6. IsInjective(children'[q]) /\ IsInjective(todo'[q])
      BY <1>1, <1>d, <1>e, <2>1 DEF OneParent
    <2>7. CASE q \in {p, child}
      BY <1>c, <1>d, <2>3, <2>4, <2>5, <2>6, <2>7, EmptyList
    <2>8. CASE q \notin {p, child}
      <3>1. phase'[q] = phase[q] /\ todo'[q] = todo[q] /\ children'[q] = children[q]
        BY <1>c, <1>d, <1>e, <2>8
      <3> QED
        BY <1>1, <2>3, <2>4, <3>1 DEF OneParent
    <2> QED
      BY <2>7, <2>8
  <1>5. Unreleased'
    <2>1. reapSema[child] = 0 /\ phase'[child] # "dead"
      BY <1>1, <1>a, <1>c DEF Unreleased
    <2>2. \A c \in Proc : Owes(p, c)' => Owes(p, c) \/ c = child
      BY <1>b, <1>c, <1>d, <1>e, <1>f DEF Owes, Exiting
    <2>3. \A c \in Proc : ~Owes(child, c)' \/ Owes(child, c)
      BY <1>a, <1>c, <1>d, <1>e DEF Owes, Exiting
    <2>4. \A q \in Proc \ {p, child} : \A c \in Proc : Owes(q, c)' => Owes(q, c)
      BY <1>c, <1>d, <1>e DEF Owes, Exiting
    <2>5. \A q, c \in Proc : Owes(q, c)' => Owes(q, c) \/ (reapSema[c] = 0 /\ phase'[c] # "dead")
      BY <2>1, <2>2, <2>3, <2>4
    <2>6. \A c \in Proc : /\ phase'[c] = "unborn" => phase[c] = "unborn"
                          /\ phase'[c] = "dead" => phase[c] = "dead"
      BY <1>b, <1>c
    <2> QED
      BY <1>1, <1>d, <2>5, <2>6, DebtsKept
  <1>6. ExitsOnce'
    <2>1. \A q \in Proc : /\ phase'[q] \in {"exit", "announced", "dead"} => Exiting(q)
                          /\ Exiting(q) => phase'[q] \in {"exit", "announced", "stuck", "dead"}
                          /\ phase'[q] = "exit" => phase[q] = "exit"
                          /\ phase'[q] = "took" => /\ phase[q] = "took" /\ todo'[q] = todo[q]
                                                   /\ want'[q] = want[q]
      BY <1>1, <1>a, <1>b, <1>c, <1>d, <1>f DEF ExitsOnce
    <2>2. \A q \in Proc : Exiting(q) => pid'[q] = pid[q]
      BY <1>1, <1>d, <1>f DEF ProcessTypeOK
    <2> QED
      BY <1>1, <1>d, <2>1, <2>2, ExitsKept
  <1>7. WaitTruth'
    <2>1. \A q \in Proc : /\ Exiting(q) => /\ exitCode'[q] = exitCode[q]
                                           /\ pid'[q] = pid[q]
                          /\ phase'[q] = "exit" => phase[q] = "exit" \/ ~Exiting(q)
      BY <1>1, <1>b, <1>c, <1>d, <1>f DEF ProcessTypeOK
    <2>2. \A q \in Proc : phase'[q] \in {"look", "reap"} =>
            /\ phase[q] \in {"look", "reap"} /\ answer'[q] = answer[q] /\ want'[q] = want[q]
            /\ Range(children'[q]) \subseteq Range(children[q])
      BY <1>1, <1>b, <1>c, <1>d, <1>e DEF ProcessTypeOK
    <2> QED
      BY <1>1, <2>1, <2>2, AnswersKept
  <1>8. ReapedOnce'
    <2>1. \A c \in Proc : phase'[c] = "dead" => phase[c] = "dead"
      BY <1>b, <1>c
    <2> SUFFICES ASSUME NEW c \in Proc
                 PROVE  reapSema'[c] + (IF phase'[c] = "dead" THEN 1 ELSE 0) <= 1
      BY DEF ReapedOnce
    <2>2. reapSema[c] + (IF phase[c] = "dead" THEN 1 ELSE 0) <= 1 /\ reapSema[c] \in Nat
      BY <1>1 DEF ReapedOnce, ProcessTypeOK
    <2> QED
      BY <1>d, <2>1, <2>2
  <1> QED
    BY <1>2, <1>3, <1>4, <1>5, <1>6, <1>7, <1>8 DEF Sound

(* The first of the two is made ready. *)
LEMMA UnblockKeeps ==
  ASSUME ProcessAssumption, Sound, NEW p \in Proc, Unblock(p)
  PROVE  Sound'
  <1> USE DEF Step, forks, handoff, walk
  <1>1. /\ ProcessTypeOK /\ ForksApart /\ OneParent /\ Unreleased /\ ExitsOnce
        /\ WaitTruth /\ ReapedOnce
    BY DEF Sound
  <1>a. PICK child \in Proc :
          /\ child = Head(making[p]) /\ child \in Range(making[p])
          /\ child \notin Range(Tail(making[p])) /\ Range(Tail(making[p])) \subseteq Range(making[p])
          /\ Tail(making[p]) \in Seq(Proc) /\ IsInjective(Tail(making[p]))
          /\ phase[child] = "dormant" /\ phase[p] = "unblock" /\ child # p
    <2>1. making[p] # <<>> /\ IsInjective(making[p]) /\ phase[p] = "unblock"
      BY <1>1 DEF Unblock, ForksApart
    <2>2. /\ Head(making[p]) \in Range(making[p]) /\ Head(making[p]) \in Proc
          /\ Head(making[p]) \notin Range(Tail(making[p]))
          /\ Range(Tail(making[p])) \subseteq Range(making[p])
          /\ Tail(making[p]) \in Seq(Proc) /\ IsInjective(Tail(making[p]))
      BY <1>1, <2>1, Heads
    <2>3. phase[Head(making[p])] = "dormant"
      BY <1>1, <2>1 DEF ForksApart
    <2> QED
      BY <2>1, <2>2, <2>3
  <1>b. /\ phase' = [phase EXCEPT ![p] = "fork", ![child] = "user"]
        /\ making' = [making EXCEPT ![p] = Tail(@)]
        /\ phase \in [Proc -> Phase] /\ making \in [Proc -> Seq(Proc)]
    BY <1>1, <1>a DEF Unblock, ProcessTypeOK
  <1>c. /\ phase'[p] = "fork" /\ phase'[child] = "user" /\ phase' \in [Proc -> Phase]
        /\ \A q \in Proc \ {p, child} : phase'[q] = phase[q]
        /\ making'[p] = Tail(making[p]) /\ making' \in [Proc -> Seq(Proc)]
        /\ \A q \in Proc \ {p} : making'[q] = making[q]
    BY <1>a, <1>b DEF Phase
  <1>2. ProcessTypeOK'
    BY <1>1, <1>c DEF Unblock, ProcessTypeOK
  <1>3. ForksApart'
    <2> SUFFICES ASSUME NEW q \in Proc
                 PROVE  ForksApart!(q)'
      BY DEF ForksApart
    <2>1. \A r \in Proc : Range(making'[r]) \subseteq Range(making[r])
      BY <1>a, <1>c
    <2>2. \A r \in Proc \ {q} : \A x \in Range(making'[q]) : x \notin Range(making'[r])
      BY <1>1, <2>1 DEF ForksApart
    <2>3. CASE q = p
      <3>1. /\ Tail(making[q]) # <<>>
            /\ \A x \in Range(Tail(making[q])) : phase[x] = "unborn"
        BY <1>1, <1>a, <2>3 DEF ForksApart
      <3>2. \A x \in Range(Tail(making[q])) : x \in Proc /\ x # child /\ x # p
        BY <1>1, <1>a, <2>3, <3>1, Heads
      <3>3. \A x \in Range(making'[q]) : phase'[x] = "unborn"
        BY <1>c, <2>3, <3>1, <3>2
      <3> QED
        BY <1>a, <1>c, <2>2, <2>3, <3>1, <3>3
    <2>4. CASE q # p
      <3>1. making'[q] = making[q]
        BY <1>c, <2>4
      <3>2. phase'[q] # phase[q] => {phase[q], phase'[q]} \cap {"fork", "id", "unblock"} = {}
        BY <1>a, <1>c, <2>4
      <3>3. ASSUME NEW x \in Range(making[q])
            PROVE  phase'[x] = phase[x]
        <4>1. x \in Proc /\ x # p
          BY <1>1, <1>a, Unmade
        <4>2. x # child
          BY <1>1, <1>a, <2>4, <4>1 DEF ForksApart
        <4> QED
          BY <1>c, <4>1, <4>2
      <3> QED
        BY <1>1, <2>2, <3>1, <3>2, <3>3, ForkKept
    <2> QED
      BY <2>3, <2>4
  <1>4. OneParent'
    <2>1. todo[p] = <<>> /\ todo[child] = <<>>
      BY <1>1, <1>a DEF OneParent
    <2>2. \A q \in Proc : /\ phase'[q] = "unborn" => phase[q] = "unborn"
                          /\ phase'[q] = "reap" <=> phase[q] = "reap"
                          /\ phase'[q] = "took" => todo[q] # <<>>
                          /\ todo[q] # <<>> => phase'[q] \in {"look", "took", "reap", "exit", "stuck"}
      BY <1>1, <1>a, <1>c, <2>1 DEF OneParent
    <2>3. children' = children /\ todo' = todo
      BY DEF Unblock
    <2> QED
      BY <1>1, <2>2, <2>3, ParentsKept
  <1>5. Unreleased'
    <2>1. children' = children /\ todo' = todo /\ exitCode' = exitCode /\ reapSema' = reapSema
      BY DEF Unblock
    <2>2. \A q \in Proc : phase'[q] \in {"exit", "reap"} => phase'[q] = phase[q]
      BY <1>c
    <2>3. \A q, c \in Proc : Owes(q, c)' => Owes(q, c)
      BY <2>1, <2>2 DEF Owes, Exiting
    <2>4. \A c \in Proc : /\ phase'[c] = "unborn" => phase[c] = "unborn"
                          /\ phase'[c] = "dead" => phase[c] = "dead"
      BY <1>c
    <2> QED
      BY <1>1, <2>1, <2>3, <2>4, DebtsKept
  <1>6. ExitsOnce'
    <2>1. UNCHANGED <<exitCode, waitSema, pid, todo, want>>
      BY DEF Unblock
    <2>2. \A q \in Proc : /\ phase'[q] \in {"exit", "announced", "dead"} => Exiting(q)
                          /\ Exiting(q) => phase'[q] \in {"exit", "announced", "stuck", "dead"}
                          /\ phase'[q] = "exit" => phase[q] = "exit"
                          /\ phase'[q] = "took" => /\ phase[q] = "took" /\ todo'[q] = todo[q]
                                                   /\ want'[q] = want[q]
      BY <1>1, <1>a, <1>c, <2>1 DEF ExitsOnce
    <2> QED
      BY <1>1, <2>1, <2>2, ExitsKept
  <1>7. WaitTruth'
    BY <1>1, AnswersKept DEF Unblock, ProcessTypeOK, Exiting, ExitsOnce
  <1>8. ReapedOnce'
    <2>1. \A c \in Proc : phase'[c] = "dead" => phase[c] = "dead"
      BY <1>c
    <2> SUFFICES ASSUME NEW c \in Proc
                 PROVE  reapSema'[c] + (IF phase'[c] = "dead" THEN 1 ELSE 0) <= 1
      BY DEF ReapedOnce
    <2>2. reapSema[c] + (IF phase[c] = "dead" THEN 1 ELSE 0) <= 1 /\ reapSema[c] \in Nat
      BY <1>1 DEF ReapedOnce, ProcessTypeOK
    <2>3. reapSema' = reapSema
      BY DEF Unblock
    <2> QED
      BY <2>1, <2>2, <2>3
  <1> QED
    BY <1>2, <1>3, <1>4, <1>5, <1>6, <1>7, <1>8 DEF Sound

(* wait starts to walk the children. *)
LEMMA WaitKeeps ==
  ASSUME ProcessAssumption, Sound, NEW p \in Proc, NEW i \in Nat, Wait(p, i)
  PROVE  Sound'
  <1> USE DEF Step, forks, handoff, walk
  <1>1. /\ ProcessTypeOK /\ ForksApart /\ OneParent /\ Unreleased /\ ExitsOnce
        /\ WaitTruth /\ ReapedOnce
    BY DEF Sound
  <1>2. ProcessTypeOK'
    BY <1>1, Heads, ProcessAssumption DEF Wait, ProcessTypeOK, Phase
  <1>3. ForksApart'
    BY <1>1, ForksKept DEF Wait, ProcessTypeOK
  <1>4. OneParent'
    <2>1. children[p] \in Seq(Proc) /\ IsInjective(children[p])
      BY <1>1 DEF OneParent, ProcessTypeOK
    <2>2. /\ children' = children /\ todo' = [todo EXCEPT ![p] = children[p]]
          /\ phase'[p] \in {"look", "exit"}
          /\ \A q \in Proc : phase'[q] = "unborn" => phase[q] = "unborn"
          /\ \A q \in Proc \ {p} : phase'[q] = phase[q]
      BY <1>1 DEF Wait, ProcessTypeOK
    <2> QED
      BY <1>1, <2>1, <2>2, WalkKept
  <1>5. Unreleased'
    <2>1. \A q, c \in Proc : Owes(q, c)' => Owes(q, c)
      BY <1>1 DEF Wait, Owes, Exiting, ProcessTypeOK
    <2>2. \A c \in Proc : /\ phase'[c] = "unborn" => phase[c] = "unborn"
                          /\ phase'[c] = "dead" => phase[c] = "dead"
      BY <1>1 DEF Wait, ProcessTypeOK
    <2>3. reapSema' = reapSema
      BY DEF Wait
    <2> QED
      BY <1>1, <2>1, <2>2, <2>3, DebtsKept
  <1>6. ExitsOnce'
    BY <1>1, ExitsKept DEF Wait, ProcessTypeOK, Exiting, ExitsOnce
  <1>7. WaitTruth'
    BY <1>1, AnswersKept DEF Wait, ProcessTypeOK, Exiting, ExitsOnce
  <1>8. ReapedOnce'
    BY <1>1 DEF Wait, ReapedOnce, ProcessTypeOK
  <1> QED
    BY <1>2, <1>3, <1>4, <1>5, <1>6, <1>7, <1>8 DEF Sound

(* wait has seen all children. *)
LEMMA ReturnKeeps ==
  ASSUME ProcessAssumption, Sound, NEW p \in Proc, Return(p)
  PROVE  Sound'
  <1> USE DEF Step, forks, handoff, walk
  <1>1. /\ ProcessTypeOK /\ ForksApart /\ OneParent /\ Unreleased /\ ExitsOnce
        /\ WaitTruth /\ ReapedOnce
    BY DEF Sound
  <1>2. ProcessTypeOK'
    BY <1>1, Heads, ProcessAssumption DEF Return, ProcessTypeOK, Phase
  <1>3. ForksApart'
    BY <1>1, ForksKept DEF Return, ProcessTypeOK
  <1>4. OneParent'
    BY <1>1, ParentsKept DEF Return, ProcessTypeOK, OneParent
  <1>5. Unreleased'
    <2>1. \A q, c \in Proc : Owes(q, c)' => Owes(q, c)
      BY <1>1 DEF Return, Owes, Exiting, ProcessTypeOK
    <2>2. \A c \in Proc : /\ phase'[c] = "unborn" => phase[c] = "unborn"
                          /\ phase'[c] = "dead" => phase[c] = "dead"
      BY <1>1 DEF Return, ProcessTypeOK
    <2>3. reapSema' = reapSema
      BY DEF Return
    <2> QED
      BY <1>1, <2>1, <2>2, <2>3, DebtsKept
  <1>6. ExitsOnce'
    BY <1>1, ExitsKept DEF Return, ProcessTypeOK, Exiting, ExitsOnce
  <1>7. WaitTruth'
    BY <1>1, AnswersKept DEF Return, ProcessTypeOK, Exiting, ExitsOnce
  <1>8. ReapedOnce'
    BY <1>1 DEF Return, ReapedOnce, ProcessTypeOK
  <1> QED
    BY <1>2, <1>3, <1>4, <1>5, <1>6, <1>7, <1>8 DEF Sound

(* wait passes a child with another id. *)
LEMMA PassKeeps ==
  ASSUME ProcessAssumption, Sound, NEW p \in Proc, Pass(p)
  PROVE  Sound'
  <1> USE DEF Step, forks, handoff, walk
  <1>1. /\ ProcessTypeOK /\ ForksApart /\ OneParent /\ Unreleased /\ ExitsOnce
        /\ WaitTruth /\ ReapedOnce
    BY DEF Sound
  <1>2. ProcessTypeOK'
    BY <1>1, Heads, ProcessAssumption DEF Pass, ProcessTypeOK, Phase
  <1>3. ForksApart'
    BY <1>1, ForksKept DEF Pass, ProcessTypeOK
  <1>4. OneParent'
    <2>1. todo[p] # <<>>
      BY <1>1 DEF Pass, OneParent
    <2>2. /\ Tail(todo[p]) \in Seq(Proc) /\ IsInjective(Tail(todo[p]))
          /\ Range(Tail(todo[p])) \subseteq Range(children[p])
      <3>1. /\ Tail(todo[p]) \in Seq(Proc) /\ IsInjective(Tail(todo[p]))
            /\ Range(Tail(todo[p])) \subseteq Proc
            /\ \A c \in Range(Tail(todo[p])) : c \in Proc => c \in Range(todo[p])
        BY <1>1, <2>1, Heads DEF OneParent
      <3> QED
        BY <1>1, <3>1 DEF Pass, OneParent
    <2>3. /\ children' = children /\ todo' = [todo EXCEPT ![p] = Tail(todo[p])]
          /\ phase'[p] \in {"look", "exit"}
          /\ \A q \in Proc : phase'[q] = "unborn" => phase[q] = "unborn"
          /\ \A q \in Proc \ {p} : phase'[q] = phase[q]
      BY <1>1 DEF Pass, ProcessTypeOK
    <2> QED
      BY <1>1, <2>2, <2>3, WalkKept
  <1>5. Unreleased'
    <2>1. \A q, c \in Proc : Owes(q, c)' => Owes(q, c)
      BY <1>1 DEF Pass, Owes, Exiting, ProcessTypeOK
    <2>2. \A c \in Proc : /\ phase'[c] = "unborn" => phase[c] = "unborn"
                          /\ phase'[c] = "dead" => phase[c] = "dead"
      BY <1>1 DEF Pass, ProcessTypeOK
    <2>3. reapSema' = reapSema
      BY DEF Pass
    <2> QED
      BY <1>1, <2>1, <2>2, <2>3, DebtsKept
  <1>6. ExitsOnce'
    BY <1>1, ExitsKept DEF Pass, ProcessTypeOK, Exiting, ExitsOnce
  <1>7. WaitTruth'
    BY <1>1, AnswersKept DEF Pass, ProcessTypeOK, Exiting, ExitsOnce
  <1>8. ReapedOnce'
    BY <1>1 DEF Pass, ReapedOnce, ProcessTypeOK
  <1> QED
    BY <1>2, <1>3, <1>4, <1>5, <1>6, <1>7, <1>8 DEF Sound

(* wait takes wait_sema of a child. *)
LEMMA TakeKeeps ==
  ASSUME ProcessAssumption, Sound, NEW p \in Proc, Take(p)
  PROVE  Sound'
  <1> USE DEF Step, forks, handoff, walk
  <1>1. /\ ProcessTypeOK /\ ForksApart /\ OneParent /\ Unreleased /\ ExitsOnce
        /\ WaitTruth /\ ReapedOnce
    BY DEF Sound
  <1>2. ProcessTypeOK'
    <2>1. PICK h \in Proc : h = Head(todo[p])
      BY <1>1, Heads DEF Take
    <2>2. waitSema' \in [Proc -> Nat]
      <3>1. CASE waitSema[h] > 0
        <4>1. waitSema \in [Proc -> Nat] /\ waitSema[h] \in Nat
          BY <1>1 DEF ProcessTypeOK
        <4>2. waitSema[h] # 0 /\ waitSema[h] - 1 \in Nat
          BY <3>1, <4>1
        <4>3. waitSema' = [waitSema EXCEPT ![h] = @ - 1]
          BY <2>1, <4>2 DEF Take
        <4> QED
          BY <4>1, <4>2, <4>3
      <3>2. CASE ~(waitSema[h] > 0)
        BY <1>1, <2>1, <3>2 DEF Take, ProcessTypeOK
      <3> QED
        BY <3>1, <3>2
    <2> QED
      BY <1>1, <2>2 DEF Take, ProcessTypeOK, Phase
  <1>3. ForksApart'
    BY <1>1, ForksKept DEF Take, ProcessTypeOK
  <1>4. OneParent'
    BY <1>1, ParentsKept DEF Take, ProcessTypeOK, OneParent
  <1>5. Unreleased'
    <2>1. \A q, c \in Proc : Owes(q, c)' => Owes(q, c)
      BY <1>1 DEF Take, Owes, Exiting, ProcessTypeOK
    <2>2. \A c \in Proc : /\ phase'[c] = "unborn" => phase[c] = "unborn"
                          /\ phase'[c] = "dead" => phase[c] = "dead"
      BY <1>1 DEF Take, ProcessTypeOK
    <2>3. reapSema' = reapSema
      BY DEF Take
    <2> QED
      BY <1>1, <2>1, <2>2, <2>3, DebtsKept
  <1>6. ExitsOnce'
    <2>1. PICK h \in Proc : h = Head(todo[p])
      BY <1>1, Heads DEF Take
    <2>2. /\ exitCode' = exitCode /\ pid' = pid /\ want' = want /\ todo' = todo
          /\ phase[p] = "look" /\ pid[h] = want[p]
          /\ \/ waitSema[h] > 0 /\ phase' = [phase EXCEPT ![p] = "took"]
             \/ phase' = [phase EXCEPT ![p] = "stuck"]
          /\ \A q \in Proc : waitSema'[q] > 0 => waitSema[q] > 0
          /\ phase \in [Proc -> Phase]
      BY <1>1, <2>1 DEF Take, ProcessTypeOK
    <2>3. ~Exiting(p) /\ \A q \in Proc : Announced(q) => Announced(q)'
      BY <1>1, <2>2 DEF ExitsOnce, Announced, Exiting
    <2> SUFFICES ASSUME NEW q \in Proc
                 PROVE  ExitsOnce!(q)'
      BY DEF ExitsOnce
    <2>4. /\ phase'[q] \in {"exit", "announced", "dead"} => Exiting(q)'
          /\ Exiting(q)' => phase'[q] \in {"exit", "announced", "stuck", "dead"}
      BY <1>1, <2>2, <2>3 DEF ExitsOnce, Exiting
    <2>5. waitSema'[q] > 0 => Announced(q)'
      BY <1>1, <2>2, <2>3 DEF ExitsOnce
    <2>6. ASSUME phase'[q] = "took"
          PROVE  /\ pid'[Head(todo'[q])] = want'[q]
                 /\ Announced(Head(todo[q]))'
      <3>1. PICK g \in Proc : g = Head(todo[q])
        BY <1>1, <2>1, <2>2, <2>6, Heads DEF OneParent
      <3>2. pid[g] = want[q] /\ Announced(g)
        BY <1>1, <2>1, <2>2, <2>6, <3>1 DEF ExitsOnce
      <3> QED
        BY <2>2, <2>3, <3>1, <3>2 DEF Announced, Exiting
    <2> QED
      BY <2>4, <2>5, <2>6 DEF ExitsOnce
  <1>7. WaitTruth'
    BY <1>1, AnswersKept DEF Take, ProcessTypeOK, Exiting, ExitsOnce
  <1>8. ReapedOnce'
    BY <1>1 DEF Take, ReapedOnce, ProcessTypeOK
  <1> QED
    BY <1>2, <1>3, <1>4, <1>5, <1>6, <1>7, <1>8 DEF Sound

(* wait reads the status and takes the child off the list. *)
LEMMA CollectKeeps ==
  ASSUME ProcessAssumption, Sound, NEW p \in Proc, Collect(p)
  PROVE  Sound'
  <1> USE DEF Step, forks, handoff, walk
  <1>1. /\ ProcessTypeOK /\ ForksApart /\ OneParent /\ Unreleased /\ ExitsOnce
        /\ WaitTruth /\ ReapedOnce
    BY DEF Sound
  <1>2. ProcessTypeOK'
    <2>1. PICK h \in Proc : h = Head(todo[p])
      BY <1>1, Heads DEF Collect, OneParent
    <2>2. PICK i \in DOMAIN children[p] : children' = [children EXCEPT ![p] = RemoveAt(@, i)]
      BY DEF Collect
    <2>3. RemoveAt(children[p], i) \in Seq(Proc)
      BY <1>1, ElementRemoved DEF ProcessTypeOK
    <2>4. children' \in [Proc -> Seq(Proc)]
      BY <1>1, <2>2, <2>3 DEF ProcessTypeOK
    <2>5. answer' \in [Proc -> Nat \cup {-1}]
      <3>1. answer' = [answer EXCEPT ![p] = exitCode[h]]
        BY <2>1 DEF Collect
      <3>2. exitCode[h] \in Nat \cup {-1}
        BY <1>1, ProcessAssumption DEF ProcessTypeOK
      <3> QED
        BY <1>1, <3>1, <3>2 DEF ProcessTypeOK
    <2> QED
      BY <1>1, <2>4, <2>5 DEF Collect, ProcessTypeOK, Phase
  <1>a. PICK h \in Proc :
          /\ h = Head(todo[p]) /\ h \in Range(todo[p])
          /\ h \notin Range(Tail(todo[p])) /\ Range(Tail(todo[p])) \subseteq Range(todo[p])
    <2>1. todo[p] # <<>> /\ IsInjective(todo[p])
      BY <1>1 DEF Collect, OneParent
    <2> QED
      BY <1>1, <2>1, Heads
  <1>b. /\ children'[p] \in Seq(Proc) /\ IsInjective(children'[p])
        /\ Range(children'[p]) = Range(children[p]) \ {h}
        /\ \A q \in Proc \ {p} : children'[q] = children[q]
    <2>1. PICK i \in DOMAIN children[p] :
            children[p][i] = h /\ children' = [children EXCEPT ![p] = RemoveAt(@, i)]
      BY <1>a DEF Collect
    <2>2. children[p] \in Seq(Proc) /\ IsInjective(children[p])
      BY <1>1 DEF OneParent, ProcessTypeOK
    <2>3. /\ RemoveAt(children[p], i) \in Seq(Proc) /\ IsInjective(RemoveAt(children[p], i))
          /\ Range(RemoveAt(children[p], i)) = Range(children[p]) \ {h}
      BY <2>1, <2>2, ElementRemoved
    <2> QED
      BY <1>1, <2>1, <2>3 DEF ProcessTypeOK
  <1>c. /\ todo' = todo /\ exitCode' = exitCode /\ pid' = pid /\ want' = want
        /\ phase[p] = "took" /\ phase' = [phase EXCEPT ![p] = "reap"]
        /\ answer' = [answer EXCEPT ![p] = exitCode[h]]
        /\ phase \in [Proc -> Phase] /\ answer \in [Proc -> Nat \cup {-1}]
    BY <1>1, <1>a DEF Collect, ProcessTypeOK
  <1>3. ForksApart'
    BY <1>1, ForksKept DEF Collect, ProcessTypeOK
  <1>4. OneParent'
    <2> SUFFICES ASSUME NEW q \in Proc
                 PROVE  OneParent!(q)'
      BY DEF OneParent
    <2>1. \A r \in Proc : Range(children'[r]) \subseteq Range(children[r])
      BY <1>b
    <2>2. \A c \in Kin(q)' : phase'[c] # "unborn"
      BY <1>1, <1>c, <2>1, Heads DEF OneParent, Kin
    <2>3. \A r \in Proc \ {q} : \A c \in Kin(q)' : c \notin Kin(r)'
      BY <1>1, <1>c, <2>1 DEF OneParent, Kin
    <2>4. CASE q = p
      <3>1. /\ todo[q] # <<>> /\ IsInjective(todo[q])
            /\ Range(Tail(todo[q])) \subseteq Range(children'[q])
            /\ Head(todo[q]) \notin Range(children'[q])
        BY <1>1, <1>a, <1>b, <1>c, <2>4 DEF OneParent
      <3> QED
        BY <1>b, <1>c, <2>2, <2>3, <2>4, <3>1
    <2>5. CASE q # p
      <3>1. phase'[q] = phase[q] /\ todo'[q] = todo[q] /\ children'[q] = children[q]
        BY <1>b, <1>c, <2>5
      <3> QED
        BY <1>1, <2>2, <2>3, <3>1 DEF OneParent
    <2> QED
      BY <2>4, <2>5
  <1>5. Unreleased'
    <2>1. \A q, c \in Proc : Owes(q, c)' => Owes(q, c)
      <3>1. \A c \in Proc : Owes(p, c)' => Owes(p, c)
        BY <1>1, <1>a, <1>b, <1>c DEF Owes, Exiting, OneParent, ExitsOnce
      <3>2. \A q \in Proc \ {p} : \A c \in Proc : Owes(q, c)' => Owes(q, c)
        BY <1>b, <1>c DEF Owes, Exiting
      <3> QED
        BY <3>1, <3>2
    <2>2. \A c \in Proc : /\ phase'[c] = "unborn" => phase[c] = "unborn"
                          /\ phase'[c] = "dead" => phase[c] = "dead"
      BY <1>1 DEF Collect, ProcessTypeOK
    <2>3. reapSema' = reapSema
      BY DEF Collect
    <2> QED
      BY <1>1, <2>1, <2>2, <2>3, DebtsKept
  <1>6. ExitsOnce'
    BY <1>1, ExitsKept DEF Collect, ProcessTypeOK, Exiting, ExitsOnce
  <1>7. WaitTruth'
    <2> SUFFICES ASSUME NEW q \in Proc, phase'[q] \in {"look", "reap"}, answer'[q] # -1
                 PROVE  \E c \in Proc : /\ pid'[c] = want'[q] /\ exitCode'[c] = answer'[q]
                                        /\ Announced(c)'
                                        /\ c \notin Range(children'[q])
      BY DEF WaitTruth
    <2>1. \A c \in Proc : Announced(c) => Announced(c)'
      BY <1>c DEF Announced, Exiting
    <2>2. CASE q = p
      <3>1. pid[h] = want[p] /\ Announced(h)
        BY <1>1, <1>a, <1>c DEF ExitsOnce
      <3>2. exitCode'[h] = answer'[q] /\ h \notin Range(children'[q])
        BY <1>b, <1>c, <2>2
      <3> QED
        BY <1>c, <2>1, <2>2, <3>1, <3>2
    <2>3. CASE q # p
      <3>1. phase'[q] = phase[q] /\ answer'[q] = answer[q] /\ children'[q] = children[q]
        BY <1>b, <1>c, <2>3
      <3>2. PICK c \in Proc : /\ pid[c] = want[q] /\ exitCode[c] = answer[q]
                              /\ Announced(c)
                              /\ c \notin Range(children[q])
        BY <1>1, <3>1 DEF WaitTruth
      <3> QED
        BY <1>c, <2>1, <3>1, <3>2
    <2> QED
      BY <2>2, <2>3
  <1>8. ReapedOnce'
    BY <1>1 DEF Collect, ReapedOnce, ProcessTypeOK
  <1> QED
    BY <1>2, <1>3, <1>4, <1>5, <1>6, <1>7, <1>8 DEF Sound

(* wait releases the child. *)
LEMMA ReapKeeps ==
  ASSUME ProcessAssumption, Sound, NEW p \in Proc, Reap(p)
  PROVE  Sound'
  <1> USE DEF Step, forks, handoff, walk
  <1>1. /\ ProcessTypeOK /\ ForksApart /\ OneParent /\ Unreleased /\ ExitsOnce
        /\ WaitTruth /\ ReapedOnce
    BY DEF Sound
  <1>2. ProcessTypeOK'
    <2>1. Head(todo[p]) \in Proc /\ Tail(todo[p]) \in Seq(Proc)
      BY <1>1, Heads DEF Reap, OneParent
    <2>2. reapSema' \in [Proc -> Nat]
      <3>1. PICK h \in Proc : h = Head(todo[p])
        BY <2>1
      <3>2. reapSema \in [Proc -> Nat]
        BY <1>1 DEF ProcessTypeOK
      <3>3. reapSema' = [reapSema EXCEPT ![h] = @ + 1]
        BY <3>1 DEF Reap
      <3> QED
        BY <3>2, <3>3
    <2> QED
      BY <1>1, <2>1, <2>2 DEF Reap, ProcessTypeOK, Phase
  <1>3. ForksApart'
    BY <1>1, ForksKept DEF Reap, ProcessTypeOK
  <1>4. OneParent'
    <2>1. todo[p] # <<>>
      BY <1>1 DEF Reap, OneParent
    <2>2. /\ Tail(todo[p]) \in Seq(Proc) /\ IsInjective(Tail(todo[p]))
          /\ Range(Tail(todo[p])) \subseteq Range(children[p])
      <3>1. /\ Tail(todo[p]) \in Seq(Proc) /\ IsInjective(Tail(todo[p]))
            /\ Range(Tail(todo[p])) \subseteq Proc
            /\ \A c \in Range(Tail(todo[p])) : c \in Proc => c \in Range(todo[p])
        BY <1>1, <2>1, Heads DEF OneParent
      <3> QED
        BY <1>1, <3>1 DEF Reap, OneParent
    <2>3. /\ children' = children /\ todo' = [todo EXCEPT ![p] = Tail(todo[p])]
          /\ phase'[p] \in {"look", "exit"}
          /\ \A q \in Proc : phase'[q] = "unborn" => phase[q] = "unborn"
          /\ \A q \in Proc \ {p} : phase'[q] = phase[q]
      BY <1>1 DEF Reap, ProcessTypeOK
    <2> QED
      BY <1>1, <2>2, <2>3, WalkKept
  <1>5. Unreleased'
    <2>1. PICK h \in Proc : h = Head(todo[p]) /\ h \in Range(todo[p])
      BY <1>1, Heads DEF Reap, OneParent
    <2>2. /\ h \notin Range(Tail(todo[p])) /\ Range(Tail(todo[p])) \subseteq Range(todo[p])
          /\ phase[p] = "reap" => Owes(p, h)
      <3>1. /\ todo[p] # <<>> /\ h \notin Range(Tail(todo[p])) /\ Range(Tail(todo[p])) \subseteq Proc
            /\ \A c \in Proc : c \in Range(Tail(todo[p])) => c \in Range(todo[p])
        BY <1>1, <2>1, Heads DEF Reap, OneParent
      <3> QED
        BY <2>1, <3>1 DEF Owes
    <2>3. /\ reapSema' = [reapSema EXCEPT ![h] = @ + 1] /\ children' = children
          /\ todo' = [todo EXCEPT ![p] = Tail(todo[p])] /\ exitCode' = exitCode
          /\ phase[p] = "reap" /\ phase' = [phase EXCEPT ![p] = "look"]
          /\ phase \in [Proc -> Phase] /\ reapSema \in [Proc -> Nat]
          /\ todo \in [Proc -> Seq(Proc)]
      BY <1>1, <2>1 DEF Reap, ProcessTypeOK
    <2>4. \A q, c \in Proc : Owes(q, c)' => Owes(q, c) /\ c # h
      <3> SUFFICES ASSUME NEW q \in Proc, NEW c \in Proc, Owes(q, c)'
                   PROVE  Owes(q, c) /\ c # h
        OBVIOUS
      <3>1. CASE q = p
        BY <1>1, <2>1, <2>2, <2>3, <3>1 DEF Owes, Exiting, OneParent, ExitsOnce
      <3>2. CASE q # p
        <4>1. Owes(q, c)
          BY <2>3, <3>2 DEF Owes, Exiting
        <4>2. c \in Kin(q) /\ h \in Kin(p)
          BY <1>1, <2>1, <4>1, Heads DEF Owes, Kin, OneParent
        <4> QED
          BY <1>1, <3>2, <4>1, <4>2 DEF OneParent
      <3> QED
        BY <3>1, <3>2
    <2>5. \A c \in Proc : phase'[c] = "unborn" => phase[c] = "unborn" /\ c # h
      BY <1>1, <2>1, <2>3 DEF OneParent, Kin
    <2>6. \A c \in Proc : phase'[c] = "dead" => phase[c] = "dead"
      BY <2>3
    <2> QED
      BY <1>1, <2>3, <2>4, <2>5, <2>6 DEF Unreleased
  <1>6. ExitsOnce'
    BY <1>1, ExitsKept DEF Reap, ProcessTypeOK, Exiting, ExitsOnce
  <1>7. WaitTruth'
    BY <1>1, AnswersKept DEF Reap, ProcessTypeOK, Exiting, ExitsOnce
  <1>8. ReapedOnce'
    <2>1. PICK h \in Proc : h = Head(todo[p]) /\ h \in Range(todo[p])
      BY <1>1, Heads DEF Reap, OneParent
    <2>2. reapSema[h] = 0 /\ phase[h] # "dead"
      BY <1>1, <2>1 DEF Reap, Unreleased, Owes
    <2>3. /\ reapSema' = [reapSema EXCEPT ![h] = @ + 1]
          /\ phase \in [Proc -> Phase] /\ reapSema \in [Proc -> Nat]
          /\ \A c \in Proc : phase'[c] = "dead" => phase[c] = "dead"
      BY <1>1, <2>1 DEF Reap, ProcessTypeOK
    <2> SUFFICES ASSUME NEW c \in Proc
                 PROVE  reapSema'[c] + (IF phase'[c] = "dead" THEN 1 ELSE 0) <= 1
      BY DEF ReapedOnce
    <2>4. CASE c = h
      BY <2>2, <2>3, <2>4
    <2>5. CASE c # h
      BY <1>1, <2>3, <2>5 DEF ReapedOnce
    <2> QED
      BY <2>4, <2>5
  <1> QED
    BY <1>2, <1>3, <1>4, <1>5, <1>6, <1>7, <1>8 DEF Sound

(* exit_process stores the status. *)
LEMMA ExitKeeps ==
  ASSUME ProcessAssumption, Sound, NEW p \in Proc, NEW s \in Code, Exit(p, s)
  PROVE  Sound'
  <1> USE DEF Step, forks, handoff, walk
  <1>1. /\ ProcessTypeOK /\ ForksApart /\ OneParent /\ Unreleased /\ ExitsOnce
        /\ WaitTruth /\ ReapedOnce
    BY DEF Sound
  <1>2. ProcessTypeOK'
    BY <1>1, Heads, ProcessAssumption DEF Exit, ProcessTypeOK, Phase
  <1>3. ForksApart'
    BY <1>1, ForksKept DEF Exit, ProcessTypeOK
  <1>4. OneParent'
    <2>1. children[p] \in Seq(Proc) /\ IsInjective(children[p])
      BY <1>1 DEF OneParent, ProcessTypeOK
    <2>2. /\ children' = children /\ todo' = [todo EXCEPT ![p] = children[p]]
          /\ phase'[p] \in {"look", "exit"}
          /\ \A q \in Proc : phase'[q] = "unborn" => phase[q] = "unborn"
          /\ \A q \in Proc \ {p} : phase'[q] = phase[q]
      BY <1>1 DEF Exit, ProcessTypeOK
    <2> QED
      BY <1>1, <2>1, <2>2, WalkKept
  <1>5. Unreleased'
    <2>1. \A q, c \in Proc : Owes(q, c)' => Owes(q, c)
      BY <1>1 DEF Exit, Owes, Exiting, ExitsOnce, ProcessTypeOK
    <2>2. \A c \in Proc : /\ phase'[c] = "unborn" => phase[c] = "unborn"
                          /\ phase'[c] = "dead" => phase[c] = "dead"
      BY <1>1 DEF Exit, ProcessTypeOK
    <2>3. reapSema' = reapSema
      BY DEF Exit
    <2> QED
      BY <1>1, <2>1, <2>2, <2>3, DebtsKept
  <1>6. ExitsOnce'
    <2>1. /\ waitSema' = waitSema /\ pid' = pid /\ want' = want
          /\ phase[p] = "user" /\ phase' = [phase EXCEPT ![p] = "exit"]
          /\ exitCode' = [exitCode EXCEPT ![p] = s] /\ s # -1
          /\ todo' = [todo EXCEPT ![p] = children[p]]
          /\ phase \in [Proc -> Phase] /\ exitCode \in [Proc -> Code \cup {-1}]
          /\ todo \in [Proc -> Seq(Proc)]
      BY <1>1, ProcessAssumption, SMTT(30) DEF Exit, ProcessTypeOK
    <2>2. /\ ~Exiting(p) /\ Exiting(p)'
          /\ \A q \in Proc : Announced(q) => Announced(q)'
      BY <1>1, <2>1 DEF ExitsOnce, Announced, Exiting
    <2> SUFFICES ASSUME NEW q \in Proc
                 PROVE  ExitsOnce!(q)'
      BY DEF ExitsOnce
    <2>3. /\ phase'[q] \in {"exit", "announced", "dead"} => Exiting(q)'
          /\ Exiting(q)' => phase'[q] \in {"exit", "announced", "stuck", "dead"}
      BY <1>1, <2>1 DEF ExitsOnce, Exiting
    <2>4. waitSema'[q] > 0 => Announced(q)'
      BY <1>1, <2>1, <2>2 DEF ExitsOnce
    <2>5. ASSUME phase'[q] = "took"
          PROVE  /\ pid'[Head(todo'[q])] = want'[q]
                 /\ Announced(Head(todo[q]))'
      <3>1. phase[q] = "took" /\ todo'[q] = todo[q]
        BY <2>1, <2>5
      <3>2. PICK g \in Proc : g = Head(todo[q])
        BY <1>1, <3>1, Heads DEF OneParent
      <3>3. pid[g] = want[q] /\ Announced(g)
        BY <1>1, <3>1, <3>2 DEF ExitsOnce
      <3>4. Announced(g)' /\ pid'[g] = want'[q]
        BY <2>1, <2>2, <3>3
      <3> QED
        BY <3>1, <3>2, <3>4 DEF Announced, Exiting
    <2> QED
      BY <2>3, <2>4, <2>5 DEF ExitsOnce
  <1>7. WaitTruth'
    BY <1>1, AnswersKept DEF Exit, ProcessTypeOK, Exiting, ExitsOnce
  <1>8. ReapedOnce'
    BY <1>1 DEF Exit, ReapedOnce, ProcessTypeOK
  <1> QED
    BY <1>2, <1>3, <1>4, <1>5, <1>6, <1>7, <1>8 DEF Sound

(* exit_process releases a child. *)
LEMMA OrphanKeeps ==
  ASSUME ProcessAssumption, Sound, NEW p \in Proc, Orphan(p)
  PROVE  Sound'
  <1> USE DEF Step, forks, handoff, walk
  <1>1. /\ ProcessTypeOK /\ ForksApart /\ OneParent /\ Unreleased /\ ExitsOnce
        /\ WaitTruth /\ ReapedOnce
    BY DEF Sound
  <1>2. ProcessTypeOK'
    <2>1. Head(todo[p]) \in Proc /\ Tail(todo[p]) \in Seq(Proc)
      BY <1>1, Heads DEF Orphan, OneParent
    <2>2. reapSema' \in [Proc -> Nat]
      <3>1. PICK h \in Proc : h = Head(todo[p])
        BY <2>1
      <3>2. reapSema \in [Proc -> Nat]
        BY <1>1 DEF ProcessTypeOK
      <3>3. reapSema' = [reapSema EXCEPT ![h] = @ + 1]
        BY <3>1 DEF Orphan
      <3> QED
        BY <3>2, <3>3
    <2> QED
      BY <1>1, <2>1, <2>2 DEF Orphan, ProcessTypeOK, Phase
  <1>3. ForksApart'
    BY <1>1, ForksKept DEF Orphan, ProcessTypeOK
  <1>4. OneParent'
    <2>1. todo[p] # <<>>
      BY <1>1 DEF Orphan, OneParent
    <2>2. /\ Tail(todo[p]) \in Seq(Proc) /\ IsInjective(Tail(todo[p]))
          /\ Range(Tail(todo[p])) \subseteq Range(children[p])
      <3>1. /\ Tail(todo[p]) \in Seq(Proc) /\ IsInjective(Tail(todo[p]))
            /\ Range(Tail(todo[p])) \subseteq Proc
            /\ \A c \in Range(Tail(todo[p])) : c \in Proc => c \in Range(todo[p])
        BY <1>1, <2>1, Heads DEF OneParent
      <3> QED
        BY <1>1, <3>1 DEF Orphan, OneParent
    <2>3. /\ children' = children /\ todo' = [todo EXCEPT ![p] = Tail(todo[p])]
          /\ phase'[p] \in {"look", "exit"}
          /\ \A q \in Proc : phase'[q] = "unborn" => phase[q] = "unborn"
          /\ \A q \in Proc \ {p} : phase'[q] = phase[q]
      BY <1>1 DEF Orphan, ProcessTypeOK
    <2> QED
      BY <1>1, <2>2, <2>3, WalkKept
  <1>5. Unreleased'
    <2>1. PICK h \in Proc : h = Head(todo[p]) /\ h \in Range(todo[p])
      BY <1>1, Heads DEF Orphan, OneParent
    <2>2. /\ h \notin Range(Tail(todo[p])) /\ Range(Tail(todo[p])) \subseteq Range(todo[p])
          /\ phase[p] = "exit" => Owes(p, h)
      <3>1. /\ todo[p] # <<>> /\ h \notin Range(Tail(todo[p])) /\ Range(Tail(todo[p])) \subseteq Proc
            /\ \A c \in Proc : c \in Range(Tail(todo[p])) => c \in Range(todo[p])
        BY <1>1, <2>1, Heads DEF Orphan, OneParent
      <3> QED
        BY <2>1, <3>1 DEF Owes
    <2>3. /\ reapSema' = [reapSema EXCEPT ![h] = @ + 1] /\ children' = children
          /\ todo' = [todo EXCEPT ![p] = Tail(todo[p])] /\ exitCode' = exitCode
          /\ phase[p] = "exit" /\ phase' = phase
          /\ phase \in [Proc -> Phase] /\ reapSema \in [Proc -> Nat]
          /\ todo \in [Proc -> Seq(Proc)]
      BY <1>1, <2>1 DEF Orphan, ProcessTypeOK
    <2>4. \A q, c \in Proc : Owes(q, c)' => Owes(q, c) /\ c # h
      <3> SUFFICES ASSUME NEW q \in Proc, NEW c \in Proc, Owes(q, c)'
                   PROVE  Owes(q, c) /\ c # h
        OBVIOUS
      <3>1. CASE q = p
        BY <1>1, <2>1, <2>2, <2>3, <3>1 DEF Owes, Exiting, OneParent, ExitsOnce
      <3>2. CASE q # p
        <4>1. Owes(q, c)
          BY <2>3, <3>2 DEF Owes, Exiting
        <4>2. c \in Kin(q) /\ h \in Kin(p)
          BY <1>1, <2>1, <4>1, Heads DEF Owes, Kin, OneParent
        <4> QED
          BY <1>1, <3>2, <4>1, <4>2 DEF OneParent
      <3> QED
        BY <3>1, <3>2
    <2>5. \A c \in Proc : phase'[c] = "unborn" => phase[c] = "unborn" /\ c # h
      BY <1>1, <2>1, <2>3 DEF OneParent, Kin
    <2>6. \A c \in Proc : phase'[c] = "dead" => phase[c] = "dead"
      BY <2>3
    <2> QED
      BY <1>1, <2>3, <2>4, <2>5, <2>6 DEF Unreleased
  <1>6. ExitsOnce'
    BY <1>1, ExitsKept DEF Orphan, ProcessTypeOK, Exiting, ExitsOnce
  <1>7. WaitTruth'
    BY <1>1, AnswersKept DEF Orphan, ProcessTypeOK, Exiting, ExitsOnce
  <1>8. ReapedOnce'
    <2>1. PICK h \in Proc : h = Head(todo[p]) /\ h \in Range(todo[p])
      BY <1>1, Heads DEF Orphan, OneParent
    <2>2. reapSema[h] = 0 /\ phase[h] # "dead"
      BY <1>1, <2>1 DEF Orphan, Unreleased, Owes
    <2>3. /\ reapSema' = [reapSema EXCEPT ![h] = @ + 1]
          /\ phase \in [Proc -> Phase] /\ reapSema \in [Proc -> Nat]
          /\ \A c \in Proc : phase'[c] = "dead" => phase[c] = "dead"
      BY <1>1, <2>1 DEF Orphan, ProcessTypeOK
    <2> SUFFICES ASSUME NEW c \in Proc
                 PROVE  reapSema'[c] + (IF phase'[c] = "dead" THEN 1 ELSE 0) <= 1
      BY DEF ReapedOnce
    <2>4. CASE c = h
      BY <2>2, <2>3, <2>4
    <2>5. CASE c # h
      BY <1>1, <2>3, <2>5 DEF ReapedOnce
    <2> QED
      BY <2>4, <2>5
  <1> QED
    BY <1>2, <1>3, <1>4, <1>5, <1>6, <1>7, <1>8 DEF Sound

(* exit_process announces the status. *)
LEMMA AnnounceKeeps ==
  ASSUME ProcessAssumption, Sound, NEW p \in Proc, Announce(p)
  PROVE  Sound'
  <1> USE DEF Step, forks, handoff, walk
  <1>1. /\ ProcessTypeOK /\ ForksApart /\ OneParent /\ Unreleased /\ ExitsOnce
        /\ WaitTruth /\ ReapedOnce
    BY DEF Sound
  <1>2. ProcessTypeOK'
    <2>1. waitSema' \in [Proc -> Nat]
      BY <1>1 DEF Announce, ProcessTypeOK
    <2> QED
      BY <1>1, <2>1 DEF Announce, ProcessTypeOK, Phase
  <1>3. ForksApart'
    BY <1>1, ForksKept DEF Announce, ProcessTypeOK
  <1>4. OneParent'
    BY <1>1, ParentsKept DEF Announce, ProcessTypeOK, OneParent
  <1>5. Unreleased'
    <2>1. \A q, c \in Proc : Owes(q, c)' => Owes(q, c)
      BY <1>1 DEF Announce, Owes, Exiting, ProcessTypeOK
    <2>2. \A c \in Proc : /\ phase'[c] = "unborn" => phase[c] = "unborn"
                          /\ phase'[c] = "dead" => phase[c] = "dead"
      BY <1>1 DEF Announce, ProcessTypeOK
    <2>3. reapSema' = reapSema
      BY DEF Announce
    <2> QED
      BY <1>1, <2>1, <2>2, <2>3, DebtsKept
  <1>6. ExitsOnce'
    <2>1. /\ exitCode' = exitCode /\ pid' = pid /\ want' = want /\ todo' = todo
          /\ phase[p] = "exit" /\ phase' = [phase EXCEPT ![p] = "announced"]
          /\ \A q \in Proc : waitSema'[q] > 0 => waitSema[q] > 0 \/ q = p
          /\ phase \in [Proc -> Phase]
      BY <1>1 DEF Announce, ProcessTypeOK
    <2>2. Announced(p)' /\ \A q \in Proc : Announced(q) => Announced(q)'
      BY <1>1, <2>1 DEF ExitsOnce, Announced, Exiting
    <2> SUFFICES ASSUME NEW q \in Proc
                 PROVE  ExitsOnce!(q)'
      BY DEF ExitsOnce
    <2>3. /\ phase'[q] \in {"exit", "announced", "dead"} => Exiting(q)'
          /\ Exiting(q)' => phase'[q] \in {"exit", "announced", "stuck", "dead"}
      BY <1>1, <2>1 DEF ExitsOnce, Exiting
    <2>4. waitSema'[q] > 0 => Announced(q)'
      BY <1>1, <2>1, <2>2 DEF ExitsOnce
    <2>5. ASSUME phase'[q] = "took"
          PROVE  /\ pid'[Head(todo'[q])] = want'[q]
                 /\ Announced(Head(todo[q]))'
      <3>1. phase[q] = "took"
        BY <2>1, <2>5
      <3>2. PICK g \in Proc : g = Head(todo[q])
        BY <1>1, <3>1, Heads DEF OneParent
      <3>3. pid[g] = want[q] /\ Announced(g)
        BY <1>1, <3>1, <3>2 DEF ExitsOnce
      <3> QED
        BY <2>1, <2>2, <3>2, <3>3 DEF Announced, Exiting
    <2> QED
      BY <2>3, <2>4, <2>5 DEF ExitsOnce
  <1>7. WaitTruth'
    BY <1>1, AnswersKept DEF Announce, ProcessTypeOK, Exiting, ExitsOnce
  <1>8. ReapedOnce'
    BY <1>1 DEF Announce, ReapedOnce, ProcessTypeOK
  <1> QED
    BY <1>2, <1>3, <1>4, <1>5, <1>6, <1>7, <1>8 DEF Sound

(* A released process is gone. *)
LEMMA VanishKeeps ==
  ASSUME ProcessAssumption, Sound, NEW p \in Proc, Vanish(p)
  PROVE  Sound'
  <1> USE DEF Step, forks, handoff, walk
  <1>1. /\ ProcessTypeOK /\ ForksApart /\ OneParent /\ Unreleased /\ ExitsOnce
        /\ WaitTruth /\ ReapedOnce
    BY DEF Sound
  <1>2. ProcessTypeOK'
    <2>1. reapSema' \in [Proc -> Nat]
      <3>1. reapSema \in [Proc -> Nat] /\ reapSema[p] \in Nat
        BY <1>1 DEF ProcessTypeOK
      <3>2. \/ /\ reapSema[p] > 0
               /\ reapSema' = [reapSema EXCEPT ![p] = @ - 1]
            \/ reapSema' = reapSema
        BY DEF Vanish
      <3>3. reapSema[p] > 0 => reapSema[p] - 1 \in Nat
        BY <3>1
      <3> QED
        BY <3>1, <3>2, <3>3
    <2>2. phase' \in [Proc -> Phase]
      BY <1>1 DEF Vanish, ProcessTypeOK, Phase
    <2> QED
      BY <1>1, <2>1, <2>2 DEF Vanish, ProcessTypeOK
  <1>3. ForksApart'
    BY <1>1, ForksKept DEF Vanish, ProcessTypeOK
  <1>4. OneParent'
    BY <1>1, ParentsKept DEF Vanish, ProcessTypeOK, OneParent
  <1>5. Unreleased'
    <2>1. /\ children' = children /\ todo' = todo /\ exitCode' = exitCode
          /\ phase[p] = "announced" /\ phase \in [Proc -> Phase] /\ reapSema \in [Proc -> Nat]
          /\ \/ /\ reapSema[p] > 0 /\ reapSema' = [reapSema EXCEPT ![p] = @ - 1]
                /\ phase' = [phase EXCEPT ![p] = "dead"]
             \/ reapSema' = reapSema /\ phase' = [phase EXCEPT ![p] = "stuck"]
      BY <1>1 DEF Vanish, ProcessTypeOK
    <2>2. \A q, c \in Proc : Owes(q, c)' => Owes(q, c)
      BY <2>1 DEF Owes, Exiting
    <2>3. \A q, c \in Proc : Owes(q, c)' => reapSema'[c] = 0 /\ phase'[c] # "dead"
      BY <1>1, <2>1, <2>2 DEF Unreleased
    <2> QED
      BY <1>1, <2>1, <2>3 DEF Unreleased
  <1>6. ExitsOnce'
    BY <1>1, ExitsKept DEF Vanish, ProcessTypeOK, Exiting, ExitsOnce
  <1>7. WaitTruth'
    BY <1>1, AnswersKept DEF Vanish, ProcessTypeOK, Exiting, ExitsOnce
  <1>8. ReapedOnce'
    <2>1. /\ phase[p] = "announced" /\ phase \in [Proc -> Phase] /\ reapSema \in [Proc -> Nat]
          /\ \/ /\ reapSema' = [reapSema EXCEPT ![p] = @ - 1]
                /\ phase' = [phase EXCEPT ![p] = "dead"]
             \/ reapSema' = reapSema /\ phase' = [phase EXCEPT ![p] = "stuck"]
      BY <1>1 DEF Vanish, ProcessTypeOK
    <2> SUFFICES ASSUME NEW c \in Proc
                 PROVE  reapSema'[c] + (IF phase'[c] = "dead" THEN 1 ELSE 0) <= 1
      BY DEF ReapedOnce
    <2>2. reapSema[c] + (IF phase[c] = "dead" THEN 1 ELSE 0) <= 1
      BY <1>1 DEF ReapedOnce
    <2> QED
      BY <2>1, <2>2
  <1> QED
    BY <1>2, <1>3, <1>4, <1>5, <1>6, <1>7, <1>8 DEF Sound

-----------------------------------------------------------------------------

(* The first process has no children and nothing to wait for. *)
LEMMA FirstSound ==
  ASSUME ProcessesInit
  PROVE  Sound
  <1>1. Range(<<>>) = {} /\ IsInjective(<<>>) /\ <<>> \in Seq(Proc)
    BY EmptyList
  <1>2. /\ \A p \in Proc : /\ phase[p] \in {"user", "unborn"} /\ making[p] = <<>> /\ children[p] = <<>>
                           /\ todo[p] = <<>> /\ exitCode[p] = -1 /\ waitSema[p] = 0
                           /\ reapSema[p] = 0 /\ answer[p] = -1
    BY DEF ProcessesInit
  <1>3. ProcessTypeOK
    BY <1>1, ProcessAssumption DEF ProcessesInit, ProcessTypeOK, Phase
  <1>4. ForksApart /\ OneParent
    BY <1>1, <1>2 DEF ForksApart, OneParent, Kin
  <1>5. Unreleased
    <2>1. \A p, c \in Proc : ~Owes(p, c)
      BY <1>1, <1>2 DEF Owes
    <2> QED
      BY <1>2, <2>1 DEF Unreleased
  <1>6. ExitsOnce /\ WaitTruth /\ ReapedOnce
    BY <1>2 DEF ExitsOnce, WaitTruth, ReapedOnce, Exiting, Announced
  <1> QED
    BY <1>3, <1>4, <1>5, <1>6 DEF Sound

(* No step of a process disturbs the handshake. *)
LEMMA SoundStays ==
  ASSUME Sound, [ProcessesNext]_processVars
  PROVE  Sound'
  <1>1. CASE UNCHANGED processVars
    <2> USE <1>1 DEF processVars, forks, handoff, walk, Sound
    <2>1. ProcessTypeOK'
      BY DEF ProcessTypeOK
    <2>2. ForksApart' /\ OneParent'
      BY ForksKept, ParentsKept DEF OneParent
    <2>3. Unreleased'
      BY DEF Unreleased, Owes, Exiting
    <2>4. ExitsOnce' /\ WaitTruth' /\ ReapedOnce'
      BY DEF ExitsOnce, WaitTruth, ReapedOnce, Exiting, Announced
    <2> QED
      BY <2>1, <2>2, <2>3, <2>4
  <1>2. ASSUME NEW p \in Proc, NEW c \in Proc, NEW d \in Proc, Fork(p, c, d)
        PROVE  Sound'
    BY <1>2, ForkKeeps, ProcessAssumption
  <1>3. ASSUME NEW p \in Proc, LoadId(p) \/ StoreId(p) \/ Unblock(p)
        PROVE  Sound'
    BY <1>3, LoadIdKeeps, StoreIdKeeps, UnblockKeeps, ProcessAssumption
  <1>4. ASSUME NEW p \in Proc, NEW q \in Proc, Wait(p, pid[q])
        PROVE  Sound'
    <2>1. PICK i \in Nat : i = pid[q]
      BY DEF Sound, ProcessTypeOK
    <2>2. Wait(p, i)
      BY <1>4, <2>1
    <2> QED
      BY <2>2, WaitKeeps, ProcessAssumption
  <1>5. ASSUME NEW p \in Proc, Return(p) \/ Pass(p) \/ Take(p) \/ Collect(p) \/ Reap(p)
        PROVE  Sound'
    BY <1>5, ReturnKeeps, PassKeeps, TakeKeeps, CollectKeeps, ReapKeeps, ProcessAssumption
  <1>6. ASSUME NEW p \in Proc, NEW s \in Code, Exit(p, s)
        PROVE  Sound'
    BY <1>6, ExitKeeps, ProcessAssumption
  <1>7. ASSUME NEW p \in Proc, Orphan(p) \/ Announce(p) \/ Vanish(p)
        PROVE  Sound'
    BY <1>7, OrphanKeeps, AnnounceKeeps, VanishKeeps, ProcessAssumption
  <1> QED
    BY <1>1, <1>2, <1>3, <1>4, <1>5, <1>6, <1>7 DEF ProcessesNext

(* A child in the list of a process that does not exit is owed a release,  *)
(* and so it is not dead.                                                  *)
LEMMA SoundIsEnough ==
  ASSUME Sound
  PROVE  Handshake
  <1>1. KeptForParent
    BY DEF Sound, KeptForParent, Unreleased, Owes
  <1> QED
    BY <1>1 DEF Sound, Handshake

(* The handshake of parents and children, of fork, wait and exit_process,  *)
(* is in order whatever the processes do.                                  *)
THEOREM HandshakeKept == ProcessesSpec => []Handshake
  <1>1. ProcessesInit => Sound
    BY FirstSound
  <1>2. Sound /\ [ProcessesNext]_processVars => Sound'
    BY SoundStays
  <1>3. Sound => Handshake
    BY SoundIsEnough
  <1> QED
    BY <1>1, <1>2, <1>3, PTL DEF ProcessesSpec

(* A child whose status its parent may still ask for does not disappear    *)
(* ("aren't deallocated prior to the parent needing them", process.h:23).  *)
THEOREM ChildrenKept == ProcessesSpec => []KeptForParent
  <1>1. Handshake => KeptForParent
    BY DEF Handshake
  <1> QED
    BY <1>1, HandshakeKept, PTL

(* What wait returns is a status some child with that id gave exit_process, *)
(* and the child is off the list.                                          *)
THEOREM WaitsTrue == ProcessesSpec => []WaitTruth
  <1>1. Handshake => WaitTruth
    BY DEF Handshake
  <1> QED
    BY <1>1, HandshakeKept, PTL

(* wait and exit_process together release a child at most once. *)
THEOREM ReleasedOnce == ProcessesSpec => []ReapedOnce
  <1>1. Handshake => ReapedOnce
    BY DEF Handshake
  <1> QED
    BY <1>1, HandshakeKept, PTL
==============================================================================
