-------------------------------- MODULE Lists --------------------------------
(***************************************************************************)
(* list.c: doubly linked lists threaded through a field of their elements, *)
(* between two sentinels.  Each operation runs to its end undisturbed: the *)
(* callers of these lists hold a lock or keep interrupts off (Timer models *)
(* the one list that is read in the middle of a push).                     *)
(*                                                                         *)
(* The caller pushes only elements that are in no list, and removes an     *)
(* element only from the list it is in; an element that left a list keeps  *)
(* its stale pointers.                                                     *)
(***************************************************************************)
EXTENDS Integers, FiniteSets, SequencesExt

CONSTANTS Elem, List, Null

HeadOf(l) == <<l, "head">>
TailOf(l) == <<l, "tail">>
Node == Elem \cup {HeadOf(l) : l \in List} \cup {TailOf(l) : l \in List}

ASSUME NodeAssumption ==
  /\ Null \notin Node /\ IsFiniteSet(Elem)
  /\ \A l \in List : HeadOf(l) \notin Elem /\ TailOf(l) \notin Elem

VARIABLES
  next, prev, \* the pointers of every node
  size,       \* list.size
  result      \* what the last call returned

listVars == <<next, prev, size, result>>

(* list_init *)
ListsInit ==
  /\ next = [n \in Node |-> IF \E l \in List : n = HeadOf(l)
                              THEN TailOf(n[1]) ELSE Null]
  /\ prev = [n \in Node |-> IF \E l \in List : n = TailOf(l)
                              THEN HeadOf(n[1]) ELSE Null]
  /\ size = [l \in List |-> 0]
  /\ result = Null

(* list_begin, and the walk of list_foreach: the nodes it visits before it *)
(* has seen size of them, and the one it comes to then.                    *)
Begin(l) == IF size[l] = 0 THEN TailOf(l) ELSE next[HeadOf(l)]
Walk(l) == LET node[n \in 1 .. size[l]] == IF n = 1 THEN Begin(l) ELSE next[node[n - 1]]
           IN  node
WalksTo(l) == IF size[l] = 0 THEN Begin(l) ELSE next[Walk(l)[size[l]]]

Member(l) == ToSet(Walk(l))
Unlinked(e) == \A l \in List : e \notin Member(l)

\* Fault: el->prev is not written.
FaultyPushBack(l, e) ==
  LET tp == IF size[l] = 0 THEN HeadOf(l) ELSE prev[TailOf(l)] IN
  /\ Unlinked(e)
  /\ next' = [next EXCEPT ![tp] = e, ![e] = TailOf(l)]
  /\ prev' = [prev EXCEPT ![TailOf(l)] = e]
  /\ size' = [size EXCEPT ![l] = @ + 1]
  /\ result' = Null

PushBack(l, e) ==
  LET tp == IF size[l] = 0 THEN HeadOf(l) ELSE prev[TailOf(l)] IN
  /\ Unlinked(e)
  /\ next' = [next EXCEPT ![tp] = e, ![e] = TailOf(l)]
  /\ prev' = [prev EXCEPT ![e] = tp, ![TailOf(l)] = e]
  /\ size' = [size EXCEPT ![l] = @ + 1]
  /\ result' = Null

\* Fault: the list is taken to be empty.
FaultyPushFront(l, e) ==
  /\ Unlinked(e)
  /\ next' = [next EXCEPT ![e] = TailOf(l), ![HeadOf(l)] = e]
  /\ prev' = [prev EXCEPT ![TailOf(l)] = e, ![e] = HeadOf(l)]
  /\ size' = [size EXCEPT ![l] = @ + 1]
  /\ result' = Null

PushFront(l, e) ==
  LET hn == IF size[l] = 0 THEN TailOf(l) ELSE next[HeadOf(l)] IN
  /\ Unlinked(e)
  /\ next' = [next EXCEPT ![e] = hn, ![HeadOf(l)] = e]
  /\ prev' = [prev EXCEPT ![hn] = e, ![e] = HeadOf(l)]
  /\ size' = [size EXCEPT ![l] = @ + 1]
  /\ result' = Null

Unlink(l, e) ==
  /\ next' = [next EXCEPT ![prev[e]] = next[e]]
  /\ prev' = [prev EXCEPT ![next[e]] = prev[e]]
  /\ size' = [size EXCEPT ![l] = @ - 1]

(* list_pop_back and list_pop_front of an empty list *)
PopNothing(l) ==
  /\ size[l] = 0
  /\ result' = Null
  /\ UNCHANGED <<next, prev, size>>

PopBack(l) ==
  /\ size[l] # 0
  /\ result' = prev[TailOf(l)]
  /\ Unlink(l, prev[TailOf(l)])

\* Fault: the list is not tested for emptiness.
FaultyPopFront(l) ==
  /\ result' = Begin(l)
  /\ Unlink(l, Begin(l))

PopFront(l) ==
  /\ size[l] # 0
  /\ result' = Begin(l)
  /\ Unlink(l, Begin(l))

(* list_remove; the list is not empty, since e is in it *)
Delete(l, e) ==
  /\ e \in Member(l)
  /\ Unlink(l, e)
  /\ result' = Null

(* elem_swap of elements that are not neighbours; it would link neighbours *)
(* to themselves                                                           *)
Swap(l, e, f) ==
  /\ {e, f} \subseteq Member(l)
  /\ next[e] # f /\ next[f] # e
  /\ next' = [next EXCEPT ![prev[e]] = f, ![prev[f]] = e,
                          ![e] = next[f], ![f] = next[e]]
  /\ prev' = [prev EXCEPT ![e] = prev[f], ![f] = prev[e],
                          ![next[e]] = f, ![next[f]] = e]
  /\ result' = Null
  /\ UNCHANGED size

ListsNext == \E l \in List :
          \/ PopNothing(l) \/ PopBack(l) \/ PopFront(l)
          \/ \E e \in Elem : PushBack(l, e) \/ PushFront(l, e) \/ Delete(l, e)
          \/ \E e, f \in Elem : Swap(l, e, f)

ListsSpec == ListsInit /\ [][ListsNext]_listVars

-----------------------------------------------------------------------------

(* Every variable stays in its range. *)
ListsTypeOK ==
  /\ next \in [Node -> Node \cup {Null}] /\ prev \in [Node -> Node \cup {Null}]
  /\ size \in [List -> 0 .. Cardinality(Elem)] /\ result \in Elem \cup {Null}

(* From list_begin, size steps of list_next lead through elements to        *)
(* list_end and no further, and each prev pointer undoes the next pointer   *)
(* into its node, so that both ends of a list tell the same story, whatever *)
(* stale pointers its elements were pushed with.                            *)
Mirrored ==
  \A l \in List :
    /\ Member(l) \subseteq Elem
    /\ WalksTo(l) = TailOf(l)
    /\ \A n \in Member(l) \cup {HeadOf(l)} : prev[next[n]] = n

Sequential == INSTANCE Queues WITH content <- [l \in List |-> Walk(l)]

(* Pointers implement sequences: a push adds at its end, a pop returns and  *)
(* removes the element at its end, and nothing else is gained, lost or      *)
(* reordered, in this list or another.                                      *)
KeepsOrder == Sequential!Spec
=============================================================================
