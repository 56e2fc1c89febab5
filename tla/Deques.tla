------------------------------- MODULE Deques -------------------------------
(***************************************************************************)
(* What lib/kernel/list.h promises of its lists (list.h:15-29): each is a  *)
(* sequence that grows at both ends and gives back its first element.      *)
(***************************************************************************)
EXTENDS Sequences

CONSTANTS Node, List, NULL

VARIABLES
  queue,   \* the contents of each list
  result   \* what the last pop returned

Elements == UNION {{queue[l][i] : i \in DOMAIN queue[l]} : l \in List}

Init == queue = [l \in List |-> <<>>] /\ result = NULL

AddLast(l, n) == /\ n \notin Elements
                 /\ queue' = [queue EXCEPT ![l] = Append(@, n)]
                 /\ UNCHANGED result

AddFirst(l, n) == /\ n \notin Elements
                  /\ queue' = [queue EXCEPT ![l] = <<n>> \o @]
                  /\ UNCHANGED result

TakeFirst(l) == /\ queue[l] # <<>>
                /\ result' = Head(queue[l])
                /\ queue' = [queue EXCEPT ![l] = Tail(@)]

Next == \E l \in List : \/ TakeFirst(l)
                        \/ \E n \in Node : AddLast(l, n) \/ AddFirst(l, n)

Spec == Init /\ [][Next]_<<queue, result>>
=============================================================================
