------------------------- MODULE ListMachineProofs -------------------------
(***************************************************************************)
(* For every finite set of nodes and every set of lists: lists that share  *)
(* one pair of links implement deques.  The invariant says that the        *)
(* headers and the next fields spell out the sequences one gets by         *)
(* following the links; no others are spelt out by them.                   *)
(***************************************************************************)
EXTENDS ListMachine, PcbListProofs

Queue == [l \in List |-> Contents(l)]

Inv == m \in Memory /\ result \in Ptr /\ Queues(m, List, Queue)

\* Following the links gives the sequence.
LEMMA HopIs ==
  ASSUME NEW l \in List, NEW s \in Seq(Pcb), Linked(m, l, s)
  PROVE  Hop(l) = HopOf(s, Cardinality(Pcb))
<1>1. Cardinality(Pcb) \in Nat
  BY PcbAssumption, FS_CardinalityType
<1>2. Hop(l) = CHOOSE h : IsHop(m, l, Cardinality(Pcb), h)
  BY Zenon DEF Hop, IsHop
<1> QED
  BY <1>1, <1>2, HopsAreElements

LEMMA ContentsAre ==
  ASSUME NEW q, Queues(m, List, q), NEW l \in List
  PROVE  Contents(l) = q[l]
<1>1. /\ q[l] \in Seq(Pcb) /\ Linked(m, l, q[l])
      /\ \A i, j \in 1 .. Len(q[l]) : q[l][i] = q[l][j] => i = j
  BY DEF Queues
<1>2. Hop(l) = HopOf(q[l], Cardinality(Pcb))
  BY <1>1, HopIs
<1> QED
  BY <1>1, <1>2, HopsSpell, Zenon DEF Contents

LEMMA ContentsQueue == \A q : Queues(m, List, q) => Queue = q
<1> SUFFICES ASSUME NEW q, Queues(m, List, q) PROVE Queue = q
  OBVIOUS
<1>1. q = [l \in List |-> q[l]]
  BY DEF Queues
<1> QED
  BY <1>1, ContentsAre, Zenon DEF Queue

LEMMA OnNoListIsFree ==
  ASSUME NEW q, Queues(m, List, q), NEW n \in Pcb
  PROVE  OnNoList(n) <=> Free(List, q, n)
<1>1. \A l \in List : Contents(l) = q[l] /\ DOMAIN q[l] = 1 .. Len(q[l])
  BY ContentsAre, LenProperties DEF Queues
<1> QED
  BY <1>1 DEF OnNoList, Free, Holds

-----------------------------------------------------------------------------
(* Each operation is the deque's.                                          *)

LEMMA InitInv ==
  ASSUME Init
  PROVE  m \in Memory /\ result \in Ptr /\ Queues(m, List, [l \in List |-> <<>>])
<1>1. m \in Memory /\ result \in Ptr
  BY DEF Init, Memory, LinkFields, Header, NoLinks, EmptyHeader, Ptr
<1>2. [l \in List |-> <<>>] \in [List -> Seq(Pcb)]
  BY EmptySeq
<1>3. \A l \in List : Linked(m, l, <<>>)
  BY DEF Init, Linked, EmptyHeader
<1>4. \A n \in Pcb : m.link[n].container \notin List
  BY NullAssumption DEF Init, NoLinks
<1> QED
  BY <1>1, <1>2, <1>3, <1>4 DEF Queues

LEMMA PopStep ==
  ASSUME m \in Memory, NEW q, Queues(m, List, q), NEW l \in List, pop_pcb_list(l)
  PROVE  /\ m' \in Memory /\ result' \in Ptr /\ q[l] # <<>> /\ result' = Head(q[l])
         /\ Queues(m', List, [q EXCEPT ![l] = Tail(@)])
<1>1. q[l] # <<>>
  <2>1. Linked(m, l, q[l]) /\ m.list[l].size # 0
    BY DEF Queues, pop_pcb_list
  <2> QED
    BY <2>1, EmptySeq DEF Linked
<1>2. m.list[l].head = Head(q[l]) /\ Head(q[l]) \in Pcb
      /\ Queues(PopPcb(m, l), List, [q EXCEPT ![l] = Tail(@)])
  BY <1>1, PopQueues
<1>3. PopPcb(m, l) \in Memory
  BY <1>2, PopMemory, NullAssumption
<1> QED
  BY <1>1, <1>2, <1>3 DEF pop_pcb_list, Ptr

LEMMA AppendStep ==
  ASSUME m \in Memory, NEW q, Queues(m, List, q), NEW l \in List, NEW n \in Pcb,
         append_pcb_list(l, n)
  PROVE  /\ m' \in Memory /\ result' = result /\ Free(List, q, n)
         /\ Queues(m', List, [q EXCEPT ![l] = Append(@, n)])
<1>1. Free(List, q, n)
  BY OnNoListIsFree DEF append_pcb_list
<1> QED
  BY <1>1, AppendQueues, AppendMemory DEF append_pcb_list, Ptr

LEMMA PushStep ==
  ASSUME m \in Memory, NEW q, Queues(m, List, q), NEW l \in List, NEW n \in Pcb,
         push_pcb_list(l, n)
  PROVE  /\ m' \in Memory /\ result' = result /\ Free(List, q, n)
         /\ Queues(m', List, [q EXCEPT ![l] = <<n>> \o @])
<1>1. Free(List, q, n)
  BY OnNoListIsFree DEF push_pcb_list
<1> QED
  BY <1>1, PushQueues, PushMemory DEF push_pcb_list, Ptr

LEMMA InvNext ==
  ASSUME Inv, [Next]_<<m, result>>
  PROVE  Inv'
<1>1. m \in Memory /\ result \in Ptr /\ Queues(m, List, Queue)
  BY DEF Inv
<1>2. (\A q : Queues(m, List, q) => Queue = q)'
  BY ContentsQueue, PTL
<1>3. m' \in Memory /\ result' \in Ptr /\ (\E q : Queues(m', List, q)) => Inv'
  BY <1>2 DEF Inv
<1>4. CASE UNCHANGED <<m, result>>
  BY <1>1, <1>3, <1>4
<1>5. ASSUME NEW l \in List, pop_pcb_list(l) PROVE Inv'
  BY <1>1, <1>3, <1>5, PopStep
<1>6. ASSUME NEW l \in List, NEW n \in Pcb, append_pcb_list(l, n) PROVE Inv'
  BY <1>1, <1>3, <1>6, AppendStep
<1>7. ASSUME NEW l \in List, NEW n \in Pcb, push_pcb_list(l, n) PROVE Inv'
  BY <1>1, <1>3, <1>7, PushStep
<1> QED
  BY <1>4, <1>5, <1>6, <1>7 DEF Next

LEMMA InvAlways == Spec => []Inv
<1>1. Init => Inv
  BY InitInv, ContentsQueue DEF Inv
<1> QED
  BY <1>1, InvNext, PTL DEF Spec

-----------------------------------------------------------------------------
LEMMA InvGivesHeaders == Inv => HeadersAgree
<1> SUFFICES ASSUME Inv PROVE HeadersAgree
  OBVIOUS
<1>1. ASSUME NEW l \in List
      PROVE  /\ m.list[l].size = Len(Contents(l))
             /\ m.list[l].tail = IF Contents(l) = <<>> THEN NULL
                                 ELSE Contents(l)[Len(Contents(l))]
             /\ \A n \in Pcb : m.link[n].container = l
                                 <=> \E i \in DOMAIN Contents(l) : Contents(l)[i] = n
  <2>1. /\ Linked(m, l, Contents(l)) /\ DOMAIN Contents(l) = 1 .. Len(Contents(l))
        /\ \A n \in Pcb : m.link[n].container = l => Holds(Contents(l), n)
    BY LenProperties DEF Inv, Queues, Queue
  <2> QED
    BY <2>1 DEF Linked, Holds
<1> QED
  BY <1>1 DEF HeadersAgree

\* The size, the tail and the container fields tell the truth (list.h:28, 64-104),
\* for every finite set of nodes and every order of the operations.
THEOREM ListHeaders == Spec => []HeadersAgree
<1> QED
  BY InvGivesHeaders, InvAlways, PTL

LEMMA FreeIsNoElement ==
  ASSUME Queues(m, List, Queue), NEW n, Free(List, Queue, n)
  PROVE  n \notin D!Elements
<1>1. \A l \in List : DOMAIN Queue[l] = 1 .. Len(Queue[l])
  BY LenProperties DEF Queues
<1>2. \A l \in List : \A i \in DOMAIN Queue[l] : Queue[l][i] # n
  BY <1>1 DEF Free, Holds
<1> QED
  BY <1>2 DEF D!Elements, Queue

LEMMA ListStepRefines ==
  ASSUME Inv, [Next]_<<m, result>>
  PROVE  [D!Next]_<<Queue, result>>
<1>1. m \in Memory /\ result \in Ptr /\ Queues(m, List, Queue)
  BY DEF Inv
<1>2. (\A q : Queues(m, List, q) => Queue = q)'
  BY ContentsQueue, PTL
<1>3. CASE UNCHANGED <<m, result>>
  BY <1>1, <1>2, <1>3
<1>4. ASSUME NEW l \in List, pop_pcb_list(l) PROVE D!Next
  <2>1. Queue[l] # <<>> /\ result' = Head(Queue[l]) /\ Queue' = [Queue EXCEPT ![l] = Tail(@)]
    BY <1>1, <1>2, <1>4, PopStep
  <2> QED
    BY <2>1 DEF D!Next, D!TakeFirst, Queue
<1>5. ASSUME NEW l \in List, NEW n \in Pcb, append_pcb_list(l, n) PROVE D!Next
  <2>1. /\ Free(List, Queue, n) /\ result' = result
        /\ Queue' = [Queue EXCEPT ![l] = Append(@, n)]
    BY <1>1, <1>2, <1>5, AppendStep
  <2>2. n \notin D!Elements
    BY <2>1, <1>1, FreeIsNoElement
  <2> QED
    BY <2>1, <2>2 DEF D!Next, D!AddLast, Queue
<1>6. ASSUME NEW l \in List, NEW n \in Pcb, push_pcb_list(l, n) PROVE D!Next
  <2>1. /\ Free(List, Queue, n) /\ result' = result
        /\ Queue' = [Queue EXCEPT ![l] = <<n>> \o @]
    BY <1>1, <1>2, <1>6, PushStep
  <2>2. n \notin D!Elements
    BY <2>1, <1>1, FreeIsNoElement
  <2> QED
    BY <2>1, <2>2 DEF D!Next, D!AddFirst, Queue
<1> QED
  BY <1>3, <1>4, <1>5, <1>6 DEF Next

\* Appends, pushes and pops in any order are those of deques (list.h:15-29),
\* whatever links the nodes keep from the lists they were on before.
THEOREM ListsAreDeques == Spec => DequesSpec
<1>1. Init => D!Init
  <2> SUFFICES ASSUME Init PROVE D!Init
    OBVIOUS
  <2>1. Queue = [l \in List |-> <<>>]
    BY InitInv, ContentsQueue
  <2> QED
    BY <2>1 DEF D!Init, Queue, Init
<1>2. Inv /\ [Next]_<<m, result>> => [D!Next]_<<[l \in List |-> Contents(l)], result>>
  BY ListStepRefines DEF Queue
<1> QED
  BY <1>1, <1>2, InvAlways, PTL DEF Spec, DequesSpec, D!Spec
=============================================================================
