------------------------------- MODULE Queues -------------------------------
(***************************************************************************)
(* What the lists of dunkos promise: sequences of elements, an element     *)
(* being in one of them at most.                                           *)
(***************************************************************************)
EXTENDS Sequences, SequencesExt

CONSTANTS Elem, List, Null

VARIABLES
  content,  \* the elements of each list, in order
  result    \* what the last operation returned; Null for none

Linked == UNION {ToSet(content[l]) : l \in List}

Init == content = [l \in List |-> <<>>] /\ result = Null

Change(l, q) == content' = [content EXCEPT ![l] = q]

Insert(l, e) ==
  /\ e \notin Linked
  /\ Change(l, Append(content[l], e)) \/ Change(l, <<e>> \o content[l])
  /\ result' = Null

Pop(l) ==
  IF content[l] = <<>>
    THEN result' = Null /\ UNCHANGED content
    ELSE \/ result' = Head(content[l]) /\ Change(l, Tail(content[l]))
         \/ result' = Last(content[l]) /\ Change(l, Front(content[l]))

Delete(l, e) ==
  /\ \E i \in DOMAIN content[l] : content[l][i] = e /\ Change(l, RemoveAt(content[l], i))
  /\ result' = Null

Exchange(l, e, f) ==
  /\ {e, f} \subseteq ToSet(content[l])
  /\ Change(l, [i \in DOMAIN content[l] |->
                  CASE content[l][i] = e -> f
                    [] content[l][i] = f -> e
                    [] OTHER -> content[l][i]])
  /\ result' = Null

Next == \E l \in List :
          \/ Pop(l)
          \/ \E e \in Elem : Insert(l, e) \/ Delete(l, e)
          \/ \E e, f \in Elem : Exchange(l, e, f)

Spec == Init /\ [][Next]_<<content, result>>
=============================================================================
