------------------------------ MODULE PcbList ------------------------------
(***************************************************************************)
(* The intrusive doubly linked list of lib/kernel/list.h.  IMPLEMENT_LIST  *)
(* gives every struct ONE pair of link fields and one container field,     *)
(* whatever number of lists it is put on, so the links are kept per node   *)
(* and not per list.                                                       *)
(*                                                                         *)
(* A memory m is the links of all nodes and the headers of all lists.  An  *)
(* operator below is the whole body of the C function between its          *)
(* spin_lock and its spin_unlock.  A store through the null pointer lands  *)
(* in the exception vectors at address 0 and changes no node, so it is     *)
(* dropped.  PopPcb is defined for a list whose head is a node; its        *)
(* callers say what happens when it is not.                                *)
(***************************************************************************)
EXTENDS Integers, FiniteSets

CONSTANTS
  Pcb,    \* the nodes: process control blocks
  List,   \* the list headers
  NULL    \* the null pointer

ASSUME NullAssumption == NULL \notin Pcb /\ NULL \notin List
ASSUME PcbAssumption  == IsFiniteSet(Pcb)   \* they are in memory

Ptr == Pcb \cup {NULL}

LinkFields == [next : Ptr, prev : Ptr, container : List \cup {NULL}]
Header     == [head : Ptr, tail : Ptr, size : Int]
Memory     == [link : [Pcb -> LinkFields], list : [List -> Header]]

\* INITIALIZE_LIST
EmptyHeader == [head |-> NULL, tail |-> NULL, size |-> 0]

NoLinks == [next |-> NULL, prev |-> NULL, container |-> NULL]

\* The links after p->next := v and after p->prev := v, where p may be NULL.
WithNext(link, p, v) ==
  [x \in Pcb |-> IF x = p THEN [link[x] EXCEPT !.next = v] ELSE link[x]]
WithPrev(link, p, v) ==
  [x \in Pcb |-> IF x = p THEN [link[x] EXCEPT !.prev = v] ELSE link[x]]

\* next_pcb_list, and NULL after NULL
NextOf(m, p) == IF p = NULL THEN NULL ELSE m.link[p].next

\* Mutant of AppendPcb: without list.h:69, the node keeps its old next field.
AppendPcbStale(m, l, n) ==
  LET tail == m.list[l].tail
      head == m.list[l].head
  IN  [link |-> [WithNext(m.link, tail, n) EXCEPT ![n].prev = tail,
                                                  ![n].container = l],
       list |-> [m.list EXCEPT
                   ![l] = [head |-> IF head = NULL THEN n ELSE head,
                           tail |-> n,
                           size |-> m.list[l].size + 1]]]

\* append_pcb_list
AppendPcb(m, l, n) ==
  LET tail == m.list[l].tail
      head == m.list[l].head
  IN  [link |-> [WithNext(m.link, tail, n) EXCEPT
                   ![n] = [next |-> NULL, prev |-> tail, container |-> l]],
       list |-> [m.list EXCEPT
                   ![l] = [head |-> IF head = NULL THEN n ELSE head,
                           tail |-> n,
                           size |-> m.list[l].size + 1]]]

\* Mutant of PushPcb: without the test of tail at list.h:84.
PushPcbNoTail(m, l, n) ==
  [link |-> [m.link EXCEPT
               ![n] = [next |-> m.list[l].head, prev |-> NULL, container |-> l]],
   list |-> [m.list EXCEPT ![l].head = n, ![l].size = @ + 1]]

\* push_pcb_list: the prev field of the old head keeps its value.
PushPcb(m, l, n) ==
  LET tail == m.list[l].tail
      head == m.list[l].head
  IN  [link |-> [m.link EXCEPT
                   ![n] = [next |-> head, prev |-> NULL, container |-> l]],
       list |-> [m.list EXCEPT
                   ![l] = [head |-> n,
                           tail |-> IF tail = NULL THEN n ELSE tail,
                           size |-> m.list[l].size + 1]]]

\* Mutant of PopPcb: without the reset of tail at list.h:101.
PopPcbKeepsTail(m, l) ==
  LET res  == m.list[l].head
      head == m.link[res].next
  IN  [link |-> [WithPrev(m.link, head, NULL) EXCEPT ![res].container = NULL],
       list |-> [m.list EXCEPT ![l].head = head, ![l].size = @ - 1]]

\* pop_pcb_list of a list whose head is not NULL.  The popped node keeps its
\* next and prev fields.
PopPcb(m, l) ==
  LET res  == m.list[l].head
      head == m.link[res].next
  IN  [link |-> [WithPrev(m.link, head, NULL) EXCEPT ![res].container = NULL],
       list |-> [m.list EXCEPT
                   ![l] = [head |-> head,
                           tail |-> IF head = NULL THEN NULL ELSE m.list[l].tail,
                           size |-> m.list[l].size - 1]]]

\* remove_pcb: list.h:123 and list.h:128 assign to the node's own prev and next
\* fields where a neighbour's field is meant, and size keeps its value.
RemovePcb(m, l, n) ==
  LET next == m.link[n].next
      prev == IF m.link[n].prev = NULL THEN NULL ELSE next
      on   == m.link[n].container = l
  IN  [link |-> [m.link EXCEPT
                   ![n] = [next |-> IF on /\ next # NULL THEN prev ELSE next,
                           prev |-> IF on THEN prev ELSE m.link[n].prev,
                           container |-> NULL]],
       list |-> [m.list EXCEPT
                   ![l] = [head |-> IF on /\ m.link[n].prev = NULL
                                    THEN next ELSE m.list[l].head,
                           tail |-> IF on /\ next = NULL
                                    THEN prev ELSE m.list[l].tail,
                           size |-> m.list[l].size]]]
=============================================================================
