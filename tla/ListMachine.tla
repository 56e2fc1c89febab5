---------------------------- MODULE ListMachine ----------------------------
(***************************************************************************)
(* Lists of lib/kernel/list.h used the way their one pair of links allows: *)
(* a node is put on a list while it is on none, and a list is popped while *)
(* its size is not 0.  So used they implement deques, whatever stale links *)
(* the nodes keep from the lists they were on before.                      *)
(***************************************************************************)
EXTENDS PcbList, Sequences, FiniteSets

VARIABLES m, result

\* The k-th node of list l, from head along next, NULL after the last.
Hop(l) == LET hop[k \in 0 .. Cardinality(Pcb)] ==
                IF k = 0 THEN m.list[l].head ELSE NextOf(m, hop[k - 1])
          IN  hop

Contents(l) ==
  LET hop == Hop(l)
      len == Cardinality({k \in DOMAIN hop : hop[k] # NULL})
  IN  [i \in 1 .. len |-> hop[i - 1]]

OnNoList(n) == \A l \in List : \A i \in DOMAIN Contents(l) : Contents(l)[i] # n

\* INITIALIZE_LIST of every list.
Init == /\ m = [link |-> [n \in Pcb |-> NoLinks], list |-> [l \in List |-> EmptyHeader]]
        /\ result = NULL

append_pcb_list(l, n) == /\ OnNoList(n)
                         /\ m' = AppendPcb(m, l, n)
                         /\ UNCHANGED result

push_pcb_list(l, n) == /\ OnNoList(n)
                       /\ m' = PushPcb(m, l, n)
                       /\ UNCHANGED result

pop_pcb_list(l) == /\ m.list[l].size # 0
                   /\ result' = m.list[l].head
                   /\ m' = PopPcb(m, l)

Next == \E l \in List :
          \/ pop_pcb_list(l)
          \/ \E n \in Pcb : append_pcb_list(l, n) \/ push_pcb_list(l, n)

Spec == Init /\ [][Next]_<<m, result>>

-----------------------------------------------------------------------------
\* The lists are deques: appends, pushes and pops in any order give the nodes
\* back in the order of a sequence (list.h:15-26).
D == INSTANCE Deques WITH Node <- Pcb, queue <- [l \in List |-> Contents(l)]
DequesSpec == D!Spec

\* size_list is the number of nodes (list.h:28), tail the last of them, and
\* container tells on which list a node is.
HeadersAgree ==
  \A l \in List :
    LET c == Contents(l)
    IN  /\ m.list[l].size = Len(c)
        /\ m.list[l].tail = IF c = <<>> THEN NULL ELSE c[Len(c)]
        /\ \A n \in Pcb : m.link[n].container = l <=> \E i \in DOMAIN c : c[i] = n

=============================================================================
