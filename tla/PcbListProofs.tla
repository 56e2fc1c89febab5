--------------------------- MODULE PcbListProofs ---------------------------
(***************************************************************************)
(* The list functions keep the links and the headers well typed, whatever  *)
(* state the lists are in and whatever pointer they are given.  On lists   *)
(* that share no node, and a node that is on none, appends, pushes and     *)
(* pops are those of sequences, whatever stale links the nodes keep.       *)
(***************************************************************************)
EXTENDS PcbList, SequenceTheorems, FiniteSetTheorems, TLAPS

\* p->next = v and p->prev = v store a pointer in one node.
LEMMA LinkStores ==
  ASSUME NEW link \in [Pcb -> LinkFields], NEW p \in Ptr, NEW v \in Ptr
  PROVE  /\ WithNext(link, p, v) \in [Pcb -> LinkFields]
         /\ WithPrev(link, p, v) \in [Pcb -> LinkFields]
BY DEF WithNext, WithPrev, LinkFields

\* append_pcb_list (list.h:64) keeps the memory well typed.
LEMMA AppendMemory ==
  ASSUME NEW m \in Memory, NEW l \in List, NEW n \in Ptr
  PROVE  AppendPcb(m, l, n) \in Memory
<1> DEFINE tail == m.list[l].tail
           a    == WithNext(m.link, tail, n)
           new  == [next |-> NULL, prev |-> tail, container |-> l]
<1>1. m.link \in [Pcb -> LinkFields] /\ m.list \in [List -> Header]
  BY DEF Memory
<1>2. m.list[l] \in Header /\ tail \in Ptr
  BY <1>1 DEF Header
<1>3. a \in [Pcb -> LinkFields]
  BY <1>1, <1>2, LinkStores
<1>4. new \in LinkFields
  BY <1>2 DEF LinkFields, Ptr
<1>5. [a EXCEPT ![n] = new] \in [Pcb -> LinkFields]
  BY <1>3, <1>4
<1>6. [head |-> IF m.list[l].head = NULL THEN n ELSE m.list[l].head,
       tail |-> n, size |-> m.list[l].size + 1] \in Header
  BY <1>2 DEF Header
<1> QED
  BY <1>1, <1>5, <1>6 DEF AppendPcb, Memory

\* push_pcb_list (list.h:78) keeps the memory well typed.
LEMMA PushMemory ==
  ASSUME NEW m \in Memory, NEW l \in List, NEW n \in Ptr
  PROVE  PushPcb(m, l, n) \in Memory
<1>1. m.link \in [Pcb -> LinkFields] /\ m.list \in [List -> Header]
  BY DEF Memory
<1>2. m.list[l] \in Header
  BY <1>1
<1>3. [next |-> m.list[l].head, prev |-> NULL, container |-> l] \in LinkFields
  BY <1>2 DEF LinkFields, Header, Ptr
<1>4. [head |-> n, tail |-> IF m.list[l].tail = NULL THEN n ELSE m.list[l].tail,
       size |-> m.list[l].size + 1] \in Header
  BY <1>2 DEF Header
<1> QED
  BY <1>1, <1>3, <1>4 DEF PushPcb, Memory

\* pop_pcb_list (list.h:95) of a list with a head keeps the memory well typed.
LEMMA PopMemory ==
  ASSUME NEW m \in Memory, NEW l \in List, m.list[l].head # NULL
  PROVE  PopPcb(m, l) \in Memory /\ m.list[l].head \in Pcb
<1> DEFINE res  == m.list[l].head
           head == m.link[res].next
           a    == WithPrev(m.link, head, NULL)
<1>1. m.link \in [Pcb -> LinkFields] /\ m.list \in [List -> Header]
  BY DEF Memory
<1>2. m.list[l] \in Header /\ res \in Pcb
  BY <1>1 DEF Header, Ptr
<1>3. head \in Ptr
  BY <1>1, <1>2 DEF LinkFields
<1>4. a \in [Pcb -> LinkFields]
  BY <1>1, <1>3, LinkStores DEF Ptr
<1>5. [a EXCEPT ![res].container = NULL] \in [Pcb -> LinkFields]
  BY <1>2, <1>4 DEF LinkFields
<1>6. [head |-> head, tail |-> IF head = NULL THEN NULL ELSE m.list[l].tail,
       size |-> m.list[l].size - 1] \in Header
  BY <1>2, <1>3 DEF Header, Ptr
<1> QED
  BY <1>1, <1>2, <1>5, <1>6 DEF PopPcb, Memory

\* remove_pcb (list.h:117) keeps the memory well typed.
LEMMA RemoveMemory ==
  ASSUME NEW m \in Memory, NEW l \in List, NEW n \in Pcb
  PROVE  RemovePcb(m, l, n) \in Memory
<1>1. m.link \in [Pcb -> LinkFields] /\ m.list \in [List -> Header]
  BY DEF Memory
<1>2. m.link[n] \in LinkFields /\ m.list[l] \in Header
  BY <1>1
<1> QED
  BY <1>1, <1>2 DEF RemovePcb, Memory, LinkFields, Header, Ptr

-----------------------------------------------------------------------------
(* Lists as sequences.                                                     *)

\* What is on list l, from its head along next.
Linked(m, l, s) ==
  /\ m.list[l].head = IF s = <<>> THEN NULL ELSE s[1]
  /\ m.list[l].tail = IF s = <<>> THEN NULL ELSE s[Len(s)]
  /\ m.list[l].size = Len(s)
  /\ \A i \in 1 .. Len(s) :
       /\ m.link[s[i]].next = IF i = Len(s) THEN NULL ELSE s[i + 1]
       /\ m.link[s[i]].container = l

Holds(s, n) == \E i \in 1 .. Len(s) : s[i] = n

\* The lists in L are the sequences in q; container is right, and no node is
\* there twice.
Queues(m, L, q) ==
  /\ L \subseteq List /\ q \in [L -> Seq(Pcb)]
  /\ \A l \in L : Linked(m, l, q[l])
  /\ \A l \in L : \A i, j \in 1 .. Len(q[l]) : q[l][i] = q[l][j] => i = j
  /\ \A n \in Pcb : m.link[n].container \in L => Holds(q[m.link[n].container], n)

Free(L, q, n) == \A l \in L : ~Holds(q[l], n)

\* container says on which list a node is, so that it is on one list at most.
LEMMA OnOneList ==
  ASSUME NEW m, NEW L, NEW q, Queues(m, L, q),
         NEW l \in L, NEW r \in L, NEW n, Holds(q[l], n), Holds(q[r], n)
  PROVE  l = r
BY DEF Queues, Linked, Holds

\* What pop_pcb_list changes when res is the head of l, but for the prev fields,
\* which nothing here reads.
Popped(m, p, l, res) ==
  /\ \A n \in Pcb : /\ p.link[n].next = m.link[n].next
                    /\ p.link[n].container = IF n = res THEN NULL ELSE m.link[n].container
  /\ \A r \in List : r # l => p.list[r] = m.list[r]
  /\ p.list[l].head = m.link[res].next
  /\ p.list[l].tail = IF m.link[res].next = NULL THEN NULL ELSE m.list[l].tail
  /\ p.list[l].size = m.list[l].size - 1

LEMMA PopEffect ==
  ASSUME NEW m \in Memory, NEW l \in List, NEW res \in Pcb, m.list[l].head = res
  PROVE  Popped(m, PopPcb(m, l), l, res)
<1> DEFINE hd == m.link[res].next
           w  == WithPrev(m.link, hd, NULL)
           p  == PopPcb(m, l)
<1>1. m.link \in [Pcb -> LinkFields] /\ m.list \in [List -> Header] /\ hd \in Ptr
  BY DEF Memory, LinkFields
<1>2. w \in [Pcb -> LinkFields]
  BY <1>1, LinkStores DEF Ptr
<1>3. \A n \in Pcb : w[n].next = m.link[n].next /\ w[n].container = m.link[n].container
  BY <1>1 DEF WithPrev, LinkFields
<1>4. /\ p.link = [w EXCEPT ![res].container = NULL]
      /\ p.list = [m.list EXCEPT
                    ![l] = [head |-> hd, tail |-> IF hd = NULL THEN NULL ELSE m.list[l].tail,
                            size |-> m.list[l].size - 1]]
  BY DEF PopPcb
<1> HIDE DEF w, p
<1>5. \A n \in Pcb : /\ p.link[n].next = w[n].next
                     /\ p.link[n].container = IF n = res THEN NULL ELSE w[n].container
  BY <1>2, <1>4 DEF LinkFields
<1>6. /\ \A r \in List : r # l => p.list[r] = m.list[r]
      /\ p.list[l].head = hd /\ p.list[l].size = m.list[l].size - 1
      /\ p.list[l].tail = IF hd = NULL THEN NULL ELSE m.list[l].tail
  BY <1>1, <1>4
<1>7. Popped(m, p, l, res)
  BY <1>3, <1>5, <1>6 DEF Popped
<1> QED
  BY <1>7 DEF p

\* The elements behind the first are linked when it is gone.
LEMMA PopLinked ==
  ASSUME NEW m, NEW p, NEW l, NEW s \in Seq(Pcb), s # <<>>, Linked(m, l, s),
         \A i, j \in 1 .. Len(s) : s[i] = s[j] => i = j,
         Popped(m, p, l, s[1])
  PROVE  Linked(p, l, Tail(s))
<1> DEFINE t == Tail(s)
<1>1. /\ Len(s) \in Nat \ {0}
      /\ t \in Seq(Pcb) /\ Len(t) = Len(s) - 1
      /\ \A i \in 1 .. Len(t) : t[i] = s[i + 1]
      /\ \A i \in 1 .. Len(s) : s[i] \in Pcb
  BY HeadTailProperties, EmptySeq, LenProperties
<1>2. t = <<>> <=> Len(s) = 1
  <2>1. t = <<>> => Len(t) = 0
    BY EmptySeq
  <2>2. t # <<>> => Len(t) # 0
    BY <1>1, EmptySeq
  <2> QED
    BY <1>1, <2>1, <2>2
<1> HIDE DEF t
<1>3. m.link[s[1]].next = IF Len(s) = 1 THEN NULL ELSE s[2]
  BY <1>1 DEF Linked
<1>4. Len(s) # 1 => s[2] \in Pcb /\ t[1] = s[2] /\ t[Len(t)] = s[Len(s)]
  BY <1>1
<1>5. m.list[l].tail = s[Len(s)] /\ m.list[l].size = Len(s)
  BY DEF Linked
<1>6. ASSUME NEW i \in 1 .. Len(t)
      PROVE  /\ p.link[t[i]].next = IF i = Len(t) THEN NULL ELSE t[i + 1]
             /\ p.link[t[i]].container = l
  <2>1. i + 1 \in 1 .. Len(s) /\ i + 1 # 1 /\ 1 \in 1 .. Len(s)
        /\ t[i] = s[i + 1] /\ s[i + 1] \in Pcb
    BY <1>1
  <2>2. s[i + 1] # s[1]
    BY <2>1
  <2>3. i # Len(t) => t[i + 1] = s[i + 1 + 1]
    BY <1>1
  <2>4. /\ m.link[s[i + 1]].next = IF i + 1 = Len(s) THEN NULL ELSE s[i + 1 + 1]
        /\ m.link[s[i + 1]].container = l
    BY <2>1 DEF Linked
  <2> QED
    BY <2>1, <2>2, <2>3, <2>4, <1>1 DEF Popped
<1>7. /\ p.list[l].head = m.link[s[1]].next /\ p.list[l].size = Len(s) - 1
      /\ p.list[l].tail = IF m.link[s[1]].next = NULL THEN NULL ELSE s[Len(s)]
  BY <1>5 DEF Popped
<1>8. Linked(p, l, t)
  BY <1>1, <1>2, <1>3, <1>4, <1>6, <1>7, NullAssumption DEF Linked
<1> QED
  BY <1>8 DEF t

\* A list that a function does not work on stays as it is.
LEMMA OtherLinked ==
  ASSUME NEW m, NEW p, NEW r, NEW s \in Seq(Pcb), Linked(m, r, s), p.list[r] = m.list[r],
         \A n \in Pcb : Holds(s, n) => /\ p.link[n].next = m.link[n].next
                                       /\ p.link[n].container = m.link[n].container
  PROVE  Linked(p, r, s)
<1>1. \A i \in 1 .. Len(s) : s[i] \in Pcb /\ Holds(s, s[i])
  BY LenProperties DEF Holds
<1> QED
  BY <1>1 DEF Linked

\* pop_pcb_list (list.h:95) takes the first element of a sequence that has one.
LEMMA PopQueues ==
  ASSUME NEW m \in Memory, NEW L, NEW q, Queues(m, L, q), NEW l \in L, q[l] # <<>>
  PROVE  /\ m.list[l].head = Head(q[l]) /\ Head(q[l]) \in Pcb
         /\ Queues(PopPcb(m, l), L, [q EXCEPT ![l] = Tail(@)])
<1> DEFINE s   == q[l]
           res == s[1]
           p   == PopPcb(m, l)
           Q   == [q EXCEPT ![l] = Tail(@)]
<1>1. /\ L \subseteq List /\ l \in List /\ q \in [L -> Seq(Pcb)]
      /\ s \in Seq(Pcb) /\ Linked(m, l, s) /\ s # <<>>
      /\ \A i, j \in 1 .. Len(s) : s[i] = s[j] => i = j
      /\ m.link \in [Pcb -> LinkFields]
  BY DEF Queues, Memory
<1>2. /\ Head(s) = res /\ res \in Pcb /\ m.list[l].head = res
      /\ Len(s) \in Nat \ {0}
  <2>1. Len(s) \in Nat \ {0} /\ s[1] \in Pcb /\ Head(s) = s[1]
    BY <1>1, EmptySeq, LenProperties
  <2> QED
    BY <2>1, <1>1 DEF Linked
<1>3. Popped(m, p, l, res)
  BY <1>1, <1>2, PopEffect
<1>4. /\ Tail(s) \in Seq(Pcb) /\ Len(Tail(s)) = Len(s) - 1
      /\ \A i \in 1 .. Len(Tail(s)) : Tail(s)[i] = s[i + 1]
  BY <1>1, HeadTailProperties
<1>5. Q \in [L -> Seq(Pcb)] /\ Q[l] = Tail(s) /\ \A r \in L : r # l => Q[r] = q[r]
  BY <1>1, <1>4
<1>6. Linked(p, l, Tail(s))
  BY <1>1, <1>3, PopLinked
<1> HIDE DEF s, res, p, Q
<1>7. ASSUME NEW r \in L, r # l PROVE Linked(p, r, q[r])
  <2>1. \A n \in Pcb : Holds(q[r], n) => n # res
    <3>1. Holds(s, res)
      BY <1>2 DEF Holds, res
    <3> QED
      BY <3>1, <1>7, OnOneList DEF s
  <2>2. Linked(m, r, q[r]) /\ q[r] \in Seq(Pcb) /\ r \in List
    BY <1>1 DEF Queues
  <2>3. \A n \in Pcb : Holds(q[r], n) => /\ p.link[n].next = m.link[n].next
                                         /\ p.link[n].container = m.link[n].container
    BY <2>1, <1>3 DEF Popped
  <2> QED
    BY <2>2, <2>3, <1>3, <1>7, OtherLinked DEF Popped
<1>8. ASSUME NEW r \in L, NEW i \in 1 .. Len(Q[r]), NEW j \in 1 .. Len(Q[r]), Q[r][i] = Q[r][j]
      PROVE  i = j
  <2>1. CASE r = l
    <3>1. i + 1 \in 1 .. Len(s) /\ j + 1 \in 1 .. Len(s)
      BY <2>1, <1>2, <1>4, <1>5
    <3>2. s[i + 1] = s[j + 1]
      BY <2>1, <1>4, <1>5, <1>8
    <3> QED
      BY <3>1, <3>2, <1>1
  <2>2. CASE r # l
    BY <2>2, <1>5, <1>8 DEF Queues
  <2> QED
    BY <2>1, <2>2
<1>9. ASSUME NEW n \in Pcb, p.link[n].container \in L
      PROVE  Holds(Q[p.link[n].container], n)
  <2>1. n # res /\ p.link[n].container = m.link[n].container
    BY <1>1, <1>3, <1>9, NullAssumption DEF Popped
  <2>2. Holds(q[m.link[n].container], n)
    BY <2>1, <1>9 DEF Queues
  <2>3. CASE m.link[n].container = l
    <3>1. PICK i \in 1 .. Len(s) : s[i] = n
      BY <2>2, <2>3 DEF Holds, s
    <3>2. i - 1 \in 1 .. Len(Tail(s)) /\ i - 1 + 1 = i
      BY <3>1, <2>1, <1>2, <1>4 DEF res
    <3>3. Holds(Tail(s), n)
      BY <3>1, <3>2, <1>4 DEF Holds
    <3> QED
      BY <3>3, <2>1, <2>3, <1>5
  <2>4. CASE m.link[n].container # l
    BY <2>1, <2>2, <2>4, <1>5, <1>9
  <2> QED
    BY <2>3, <2>4
<1>10. \A r \in L : Linked(p, r, Q[r])
  BY <1>5, <1>6, <1>7
<1>11. Queues(p, L, Q)
  BY <1>1, <1>5, <1>8, <1>9, <1>10 DEF Queues
<1> QED
  BY <1>2, <1>11 DEF p, Q, s, res

\* A node that was on no list is put on l, and the other lists stay as they are.
Put(m, p, l, n) ==
  /\ \A x \in Pcb : p.link[x].container = IF x = n THEN l ELSE m.link[x].container
  /\ \A r \in List : r # l => p.list[r] = m.list[r]
  /\ \A x \in Pcb : x # n /\ x # m.list[l].tail => p.link[x].next = m.link[x].next

\* The tail of a list is on no other.
LEMMA TailElsewhere ==
  ASSUME NEW m, NEW L, NEW q, Queues(m, L, q), NEW l \in L, NEW r \in L, r # l,
         NEW x \in Pcb, Holds(q[r], x)
  PROVE  x # m.list[l].tail
<1>1. q[l] \in Seq(Pcb) /\ Linked(m, l, q[l])
  BY DEF Queues
<1>2. q[l] # <<>> => Len(q[l]) \in 1 .. Len(q[l])
  BY <1>1, EmptySeq
<1>3. m.list[l].tail = NULL \/ Holds(q[l], m.list[l].tail)
  BY <1>1, <1>2 DEF Linked, Holds
<1>4. ~Holds(q[l], x)
  BY OnOneList
<1> QED
  BY <1>3, <1>4, NullAssumption

LEMMA PutQueues ==
  ASSUME NEW m, NEW p, NEW L, NEW q, Queues(m, L, q), NEW l \in L, NEW n \in Pcb,
         Free(L, q, n), Put(m, p, l, n),
         NEW t \in Seq(Pcb), Linked(p, l, t),
         \A i, j \in 1 .. Len(t) : t[i] = t[j] => i = j,
         \A x : Holds(t, x) <=> x = n \/ Holds(q[l], x)
  PROVE  Queues(p, L, [q EXCEPT ![l] = t])
<1> DEFINE Q == [q EXCEPT ![l] = t]
<1>1. L \subseteq List /\ q \in [L -> Seq(Pcb)]
  BY DEF Queues
<1>2. Q \in [L -> Seq(Pcb)] /\ Q[l] = t /\ \A r \in L : r # l => Q[r] = q[r]
  BY <1>1
<1> HIDE DEF Q
<1>3. ASSUME NEW r \in L, r # l PROVE Linked(p, r, q[r])
  <2>1. Linked(m, r, q[r]) /\ q[r] \in Seq(Pcb) /\ r \in List
    BY <1>1 DEF Queues
  <2>3. \A x \in Pcb : Holds(q[r], x) => x # n /\ x # m.list[l].tail
    BY <1>3, TailElsewhere DEF Free
  <2>4. \A x \in Pcb : Holds(q[r], x) => /\ p.link[x].next = m.link[x].next
                                         /\ p.link[x].container = m.link[x].container
    BY <2>3 DEF Put
  <2> QED
    BY <2>1, <2>4, <1>3, OtherLinked DEF Put
<1>4. \A r \in L : Linked(p, r, Q[r])
  BY <1>2, <1>3
<1>5. \A r \in L : \A i, j \in 1 .. Len(Q[r]) : Q[r][i] = Q[r][j] => i = j
  BY <1>2 DEF Queues
<1>6. ASSUME NEW x \in Pcb, p.link[x].container \in L
      PROVE  Holds(Q[p.link[x].container], x)
  <2>1. CASE x = n
    BY <2>1, <1>2 DEF Put
  <2>2. CASE x # n
    <3>1. p.link[x].container = m.link[x].container
      BY <2>2 DEF Put
    <3>2. Holds(q[m.link[x].container], x)
      BY <3>1, <1>6 DEF Queues
    <3> QED
      BY <3>1, <3>2, <1>2, <1>6
  <2> QED
    BY <2>1, <2>2
<1>7. Queues(p, L, Q)
  BY <1>1, <1>2, <1>4, <1>5, <1>6 DEF Queues
<1> QED
  BY <1>7 DEF Q

\* append_pcb_list (list.h:64) puts a node that is on no list behind the last.
LEMMA AppendEffect ==
  ASSUME NEW m \in Memory, NEW l \in List, NEW n \in Pcb, m.list[l].tail # n
  PROVE  LET p == AppendPcb(m, l, n) IN
         /\ Put(m, p, l, n) /\ p.link[n].next = NULL
         /\ \A x \in Pcb : x = m.list[l].tail => p.link[x].next = n
         /\ p.list[l].head = IF m.list[l].head = NULL THEN n ELSE m.list[l].head
         /\ p.list[l].tail = n /\ p.list[l].size = m.list[l].size + 1
<1> DEFINE tail == m.list[l].tail
           w    == WithNext(m.link, tail, n)
           p    == AppendPcb(m, l, n)
<1>1. m.link \in [Pcb -> LinkFields] /\ m.list \in [List -> Header] /\ tail \in Ptr
  BY DEF Memory, Header
<1>2. w \in [Pcb -> LinkFields]
  BY <1>1, LinkStores DEF Ptr
<1>3. \A x \in Pcb : /\ w[x].next = IF x = tail THEN n ELSE m.link[x].next
                     /\ w[x].container = m.link[x].container
  BY <1>1 DEF WithNext, LinkFields
<1>4. /\ p.link = [w EXCEPT ![n] = [next |-> NULL, prev |-> tail, container |-> l]]
      /\ p.list = [m.list EXCEPT
                    ![l] = [head |-> IF m.list[l].head = NULL THEN n ELSE m.list[l].head,
                            tail |-> n, size |-> m.list[l].size + 1]]
  BY DEF AppendPcb
<1> HIDE DEF w, p
<1>5. /\ \A x \in Pcb : x # n => p.link[x] = w[x]
      /\ p.link[n].next = NULL /\ p.link[n].container = l
  BY <1>2, <1>4
<1>6. /\ \A r \in List : r # l => p.list[r] = m.list[r]
      /\ p.list[l].head = IF m.list[l].head = NULL THEN n ELSE m.list[l].head
      /\ p.list[l].tail = n /\ p.list[l].size = m.list[l].size + 1
  BY <1>1, <1>4
<1>7. Put(m, p, l, n)
  BY <1>3, <1>5, <1>6 DEF Put
<1>8. \A x \in Pcb : x = tail => p.link[x].next = n
  BY <1>3, <1>5
<1> QED
  BY <1>5, <1>6, <1>7, <1>8 DEF p

LEMMA AppendQueues ==
  ASSUME NEW m \in Memory, NEW L, NEW q, Queues(m, L, q), NEW l \in L, NEW n \in Pcb,
         Free(L, q, n)
  PROVE  Queues(AppendPcb(m, l, n), L, [q EXCEPT ![l] = Append(@, n)])
<1> DEFINE s == q[l]
           t == Append(s, n)
           p == AppendPcb(m, l, n)
<1>1. /\ l \in List /\ s \in Seq(Pcb) /\ Linked(m, l, s)
      /\ \A i, j \in 1 .. Len(s) : s[i] = s[j] => i = j
  BY DEF Queues
<1>2. /\ Len(s) \in Nat /\ (s = <<>> <=> Len(s) = 0)
      /\ \A i \in 1 .. Len(s) : s[i] \in Pcb /\ s[i] # n
  <2>1. \A i \in 1 .. Len(s) : s[i] # n
    BY DEF Free, Holds
  <2> QED
    BY <1>1, <2>1, LenProperties, EmptySeq
<1>3. /\ t \in Seq(Pcb) /\ Len(t) = Len(s) + 1 /\ t # <<>> /\ t[Len(s) + 1] = n
      /\ \A i \in 1 .. Len(s) : t[i] = s[i]
  BY <1>1, AppendProperties
<1>4. m.list[l].tail # n
  <2>1. Len(s) # 0 => Len(s) \in 1 .. Len(s)
    BY <1>2
  <2> QED
    BY <2>1, <1>1, <1>2, NullAssumption DEF Linked
<1>5. /\ Put(m, p, l, n) /\ p.link[n].next = NULL
      /\ \A x \in Pcb : x = m.list[l].tail => p.link[x].next = n
      /\ p.list[l].head = IF m.list[l].head = NULL THEN n ELSE m.list[l].head
      /\ p.list[l].tail = n /\ p.list[l].size = m.list[l].size + 1
  BY <1>1, <1>4, AppendEffect
<1> HIDE DEF s, t, p
<1>6. ASSUME NEW i \in 1 .. Len(t)
      PROVE  /\ p.link[t[i]].next = IF i = Len(t) THEN NULL ELSE t[i + 1]
             /\ p.link[t[i]].container = l
  <2>1. CASE i = Len(s) + 1
    BY <2>1, <1>2, <1>3, <1>5 DEF Put
  <2>2. CASE i = Len(s)
    BY <2>2, <1>1, <1>2, <1>3, <1>5 DEF Put, Linked
  <2>3. CASE i \in 1 .. Len(s) /\ i # Len(s)
    <3>1. m.list[l].tail = s[Len(s)] /\ s[i] # s[Len(s)]
      BY <2>3, <1>1, <1>2 DEF Linked
    <3>2. p.link[s[i]].next = s[i + 1] /\ p.link[s[i]].container = l
      BY <2>3, <3>1, <1>1, <1>2, <1>5 DEF Put, Linked
    <3> QED
      BY <2>3, <3>2, <1>2, <1>3
  <2> QED
    BY <2>1, <2>2, <2>3, <1>2, <1>3
<1>7. Linked(p, l, t)
  <2>1. p.list[l].head = t[1]
    BY <1>1, <1>2, <1>3, <1>5, NullAssumption DEF Linked
  <2> QED
    BY <2>1, <1>1, <1>3, <1>5, <1>6 DEF Linked
<1>8. \A i, j \in 1 .. Len(t) : t[i] = t[j] => i = j
  BY <1>1, <1>2, <1>3
<1>9. \A x : Holds(t, x) <=> x = n \/ Holds(s, x)
  BY <1>2, <1>3 DEF Holds
<1>10. Queues(p, L, [q EXCEPT ![l] = t])
  BY <1>3, <1>5, <1>7, <1>8, <1>9, PutQueues DEF s
<1> QED
  BY <1>10 DEF p, s, t

\* push_pcb_list (list.h:78) puts a node that is on no list before the first.
LEMMA PushEffect ==
  ASSUME NEW m \in Memory, NEW l \in List, NEW n \in Pcb
  PROVE  LET p == PushPcb(m, l, n) IN
         /\ Put(m, p, l, n) /\ p.link[n].next = m.list[l].head
         /\ \A x \in Pcb : x # n => p.link[x].next = m.link[x].next
         /\ p.list[l].tail = IF m.list[l].tail = NULL THEN n ELSE m.list[l].tail
         /\ p.list[l].head = n /\ p.list[l].size = m.list[l].size + 1
<1> DEFINE p == PushPcb(m, l, n)
<1>1. m.link \in [Pcb -> LinkFields] /\ m.list \in [List -> Header]
  BY DEF Memory
<1>2. /\ p.link = [m.link EXCEPT ![n] = [next |-> m.list[l].head, prev |-> NULL,
                                         container |-> l]]
      /\ p.list = [m.list EXCEPT
                    ![l] = [head |-> n,
                            tail |-> IF m.list[l].tail = NULL THEN n ELSE m.list[l].tail,
                            size |-> m.list[l].size + 1]]
  BY DEF PushPcb
<1> HIDE DEF p
<1>3. /\ \A x \in Pcb : x # n => p.link[x] = m.link[x]
      /\ p.link[n].next = m.list[l].head /\ p.link[n].container = l
  BY <1>1, <1>2
<1>4. /\ \A r \in List : r # l => p.list[r] = m.list[r]
      /\ p.list[l].tail = IF m.list[l].tail = NULL THEN n ELSE m.list[l].tail
      /\ p.list[l].head = n /\ p.list[l].size = m.list[l].size + 1
  BY <1>1, <1>2
<1>5. Put(m, p, l, n)
  BY <1>3, <1>4 DEF Put
<1> QED
  BY <1>3, <1>4, <1>5 DEF p

LEMMA PushQueues ==
  ASSUME NEW m \in Memory, NEW L, NEW q, Queues(m, L, q), NEW l \in L, NEW n \in Pcb,
         Free(L, q, n)
  PROVE  Queues(PushPcb(m, l, n), L, [q EXCEPT ![l] = <<n>> \o @])
<1> DEFINE s == q[l]
           t == <<n>> \o s
           p == PushPcb(m, l, n)
<1>1. /\ l \in List /\ s \in Seq(Pcb) /\ Linked(m, l, s)
      /\ \A i, j \in 1 .. Len(s) : s[i] = s[j] => i = j
  BY DEF Queues
<1>2. /\ Len(s) \in Nat /\ (s = <<>> <=> Len(s) = 0)
      /\ \A i \in 1 .. Len(s) : s[i] \in Pcb /\ s[i] # n
  <2>1. \A i \in 1 .. Len(s) : s[i] # n
    BY DEF Free, Holds
  <2> QED
    BY <1>1, <2>1, LenProperties, EmptySeq
<1>3. /\ t \in Seq(Pcb) /\ Len(t) = Len(s) + 1 /\ t # <<>> /\ t[1] = n
      /\ \A i \in 1 .. Len(s) : t[i + 1] = s[i]
  <2>1. <<n>> \in Seq(Pcb) /\ Len(<<n>>) = 1 /\ <<n>>[1] = n
    OBVIOUS
  <2>2. /\ t \in Seq(Pcb) /\ Len(t) = 1 + Len(s)
        /\ \A i \in 1 .. 1 + Len(s) : t[i] = IF i <= 1 THEN n ELSE s[i - 1]
    BY <1>1, <2>1, ConcatProperties
  <2> HIDE DEF t
  <2>3. t # <<>>
    BY <2>2, <1>2, EmptySeq
  <2>4. t[1] = n
    <3>1. 1 \in 1 .. 1 + Len(s)
      BY <1>2
    <3> QED
      BY <3>1, <2>2
  <2>5. ASSUME NEW i \in 1 .. Len(s) PROVE t[i + 1] = s[i]
    <3>1. i + 1 \in 1 .. 1 + Len(s) /\ ~(i + 1 <= 1) /\ i + 1 - 1 = i
      BY <1>2
    <3> QED
      BY <3>1, <2>2
  <2> QED
    BY <2>2, <2>3, <2>4, <2>5, <1>2
<1>4. /\ Put(m, p, l, n) /\ p.link[n].next = m.list[l].head
      /\ \A x \in Pcb : x # n => p.link[x].next = m.link[x].next
      /\ p.list[l].tail = IF m.list[l].tail = NULL THEN n ELSE m.list[l].tail
      /\ p.list[l].head = n /\ p.list[l].size = m.list[l].size + 1
  BY <1>1, PushEffect
<1> HIDE DEF s, t, p
<1>5. ASSUME NEW i \in 1 .. Len(t)
      PROVE  /\ p.link[t[i]].next = IF i = Len(t) THEN NULL ELSE t[i + 1]
             /\ p.link[t[i]].container = l
  <2>1. CASE i = 1
    BY <2>1, <1>1, <1>2, <1>3, <1>4 DEF Put, Linked
  <2>2. CASE i # 1
    <3>1. PICK j \in 1 .. Len(s) : i = j + 1
      BY <2>2, <1>2, <1>3
    <3>2. p.link[s[j]].next = m.link[s[j]].next /\ p.link[s[j]].container = l
      BY <1>1, <1>2, <1>4 DEF Put, Linked
    <3>3. j # Len(s) => t[i + 1] = s[j + 1]
      BY <3>1, <1>2, <1>3
    <3> QED
      BY <3>1, <3>2, <3>3, <1>1, <1>2, <1>3 DEF Linked
  <2> QED
    BY <2>1, <2>2
<1>6. Linked(p, l, t)
  <2>1. p.list[l].tail = t[Len(t)]
    <3>1. CASE s = <<>>
      BY <3>1, <1>1, <1>2, <1>3, <1>4 DEF Linked
    <3>2. CASE s # <<>>
      BY <3>2, <1>1, <1>2, <1>3, <1>4, NullAssumption DEF Linked
    <3> QED
      BY <3>1, <3>2
  <2> QED
    BY <2>1, <1>1, <1>3, <1>4, <1>5 DEF Linked
<1>7. \A i, j \in 1 .. Len(t) : t[i] = t[j] => i = j
  <2> SUFFICES ASSUME NEW i \in 1 .. Len(t), NEW j \in 1 .. Len(t), t[i] = t[j]
               PROVE  i = j
    OBVIOUS
  <2>1. \A k \in 1 .. Len(t) : k = 1 \/ (k - 1 \in 1 .. Len(s) /\ t[k] = s[k - 1])
    BY <1>2, <1>3
  <2>2. CASE i = 1 \/ j = 1
    BY <2>1, <2>2, <1>2, <1>3
  <2>3. CASE i # 1 /\ j # 1
    <3>1. s[i - 1] = s[j - 1] /\ i - 1 \in 1 .. Len(s) /\ j - 1 \in 1 .. Len(s)
      BY <2>1, <2>3
    <3>2. i - 1 = j - 1
      BY <3>1, <1>1
    <3> QED
      BY <3>2
  <2> QED
    BY <2>2, <2>3
<1>8. \A x : Holds(t, x) <=> x = n \/ Holds(s, x)
  <2>1. \A k \in 1 .. Len(t) : k = 1 \/ (k - 1 \in 1 .. Len(s) /\ t[k] = s[k - 1])
    BY <1>2, <1>3
  <2>2. 1 \in 1 .. Len(t) /\ \A k \in 1 .. Len(s) : k + 1 \in 1 .. Len(t)
    BY <1>2, <1>3
  <2> QED
    BY <2>1, <2>2, <1>2, <1>3 DEF Holds
<1>9. Queues(p, L, [q EXCEPT ![l] = t])
  BY <1>3, <1>4, <1>6, <1>7, <1>8, PutQueues DEF s
<1> QED
  BY <1>9 DEF p, s, t

-----------------------------------------------------------------------------
(* A list followed from its head, hop by hop.                              *)

\* Every set of naturals has a least member.
LEMMA LeastNat ==
  ASSUME NEW S \in SUBSET Nat, S # {}
  PROVE  \E x \in S : \A y \in S : ~(y < x)
<1>1. IsWellFoundedOn(OpToRel(<, Nat), Nat)
  BY NatLessThanWellFounded
<1>2. \E x \in S : \A y \in S : ~(<<y, x>> \in OpToRel(<, Nat))
  BY <1>1, WFMin
<1> QED
  BY <1>2 DEF OpToRel

\* h is the recursive function of the hops along l.
IsHop(m, l, N, h) ==
  h = [k \in 0 .. N |-> IF k = 0 THEN m.list[l].head ELSE NextOf(m, h[k - 1])]

HopOf(s, N) == [k \in 0 .. N |-> IF k < Len(s) THEN s[k + 1] ELSE NULL]

\* The elements, and NULL behind them, are the hops,
LEMMA HopExists ==
  ASSUME NEW m, NEW l, NEW s \in Seq(Pcb), NEW N \in Nat, Linked(m, l, s)
  PROVE  IsHop(m, l, N, HopOf(s, N))
<1> DEFINE h == HopOf(s, N)
           g == [k \in 0 .. N |-> IF k = 0 THEN m.list[l].head ELSE NextOf(m, h[k - 1])]
<1>0. Len(s) \in Nat /\ (s = <<>> <=> Len(s) = 0) /\ \A i \in 1 .. Len(s) : s[i] \in Pcb
  BY EmptySeq, LenProperties
<1>1. ASSUME NEW k \in 0 .. N PROVE h[k] = g[k]
  <2>1. CASE k = 0
    BY <2>1, <1>0 DEF HopOf, Linked
  <2>2. CASE k # 0
    <3>1. k - 1 \in 0 .. N /\ h[k - 1] = IF k - 1 < Len(s) THEN s[k] ELSE NULL
      BY <2>2 DEF HopOf
    <3>2. CASE k - 1 < Len(s)
      <4>1. k \in 1 .. Len(s) /\ s[k] \in Pcb
        BY <2>2, <3>2, <1>0
      <4>2. NextOf(m, h[k-1]) = m.link[s[k]].next
        BY <3>1, <3>2, <4>1, NullAssumption DEF NextOf
      <4> QED
        BY <4>1, <4>2, <3>1, <2>2 DEF HopOf, Linked
    <3>3. CASE ~(k - 1 < Len(s))
      BY <3>3, <3>1, <2>2, <1>0 DEF HopOf, NextOf
    <3> QED
      BY <3>2, <3>3
  <2> QED
    BY <2>1, <2>2
<1>2. h = [k \in 0 .. N |-> h[k]] /\ g = [k \in 0 .. N |-> g[k]]
  BY DEF HopOf
<1>3. h = g
  BY <1>1, <1>2, Zenon
<1> QED
  BY <1>3, Zenon DEF IsHop

\* and the only ones: else there would be a first hop at which they differ.
LEMMA HopUnique ==
  ASSUME NEW m, NEW l, NEW N \in Nat, NEW h, NEW g, IsHop(m, l, N, h), IsHop(m, l, N, g)
  PROVE  h = g
<1> DEFINE S == {k \in 0 .. N : h[k] # g[k]}
<1>1. S = {}
  <2> SUFFICES ASSUME S # {} PROVE FALSE
    OBVIOUS
  <2>1. PICK x \in S : \A y \in S : ~(y < x)
    <3>1. S \in SUBSET Nat
      OBVIOUS
    <3> QED
      BY <3>1, LeastNat
  <2>2. h[x] = IF x = 0 THEN m.list[l].head ELSE NextOf(m, h[x - 1])
    BY Zenon DEF IsHop
  <2>3. g[x] = IF x = 0 THEN m.list[l].head ELSE NextOf(m, g[x - 1])
    BY Zenon DEF IsHop
  <2>4. x # 0 => x - 1 \in 0 .. N /\ x - 1 < x
    OBVIOUS
  <2>5. x # 0 => h[x - 1] = g[x - 1]
    BY <2>1, <2>4
  <2> QED
    BY <2>2, <2>3, <2>5
<1>2. h = [k \in 0 .. N |-> h[k]] /\ g = [k \in 0 .. N |-> g[k]]
  BY DEF IsHop
<1> QED
  BY <1>1, <1>2, Zenon

LEMMA HopsAreElements ==
  ASSUME NEW m, NEW l, NEW s \in Seq(Pcb), NEW N \in Nat, Linked(m, l, s)
  PROVE  (CHOOSE h : IsHop(m, l, N, h)) = HopOf(s, N)
<1>1. IsHop(m, l, N, CHOOSE h : IsHop(m, l, N, h))
  BY HopExists, Zenon
<1> QED
  BY <1>1, HopExists, HopUnique

\* No list is longer than there are nodes.
LEMMA LengthBounded ==
  ASSUME NEW s \in Seq(Pcb), \A i, j \in 1 .. Len(s) : s[i] = s[j] => i = j
  PROVE  Len(s) <= Cardinality(Pcb) /\ Cardinality(Pcb) \in Nat
<1>1. Len(s) \in Nat /\ s \in [1 .. Len(s) -> Pcb] /\ Cardinality(Pcb) \in Nat
  BY LenProperties, FS_CardinalityType, PcbAssumption
<1>2. IsFiniteSet(1 .. Len(s)) /\ Cardinality(1 .. Len(s)) = Len(s)
  <2>1. 1 \in Int /\ Len(s) \in Int
    BY <1>1
  <2>2. /\ IsFiniteSet(1 .. Len(s))
        /\ Cardinality(1 .. Len(s)) = IF 1 > Len(s) THEN 0 ELSE Len(s) - 1 + 1
    BY <2>1, FS_Interval, Zenon
  <2> QED
    BY <2>2, <1>1
<1> SUFFICES ASSUME Cardinality(Pcb) < Cardinality(1 .. Len(s)) PROVE FALSE
  BY <1>1, <1>2
<1> QED
  BY <1>1, <1>2, FS_PigeonHole, PcbAssumption
\* The hops before the first NULL are as many as the elements,
LEMMA HopsCount ==
  ASSUME NEW s \in Seq(Pcb), \A i, j \in 1 .. Len(s) : s[i] = s[j] => i = j,
         NEW hop, hop = HopOf(s, Cardinality(Pcb)),
         NEW K, K = {k \in DOMAIN hop : hop[k] # NULL}
  PROVE  K = 0 .. Len(s) - 1 /\ Cardinality(K) = Len(s)
<1> DEFINE N == Cardinality(Pcb)
<1>1. Len(s) \in Nat /\ N \in Nat /\ Len(s) <= N /\ \A i \in 1 .. Len(s) : s[i] \in Pcb
  BY LenProperties, LengthBounded
<1>2. K = 0 .. Len(s) - 1
  <2>1. DOMAIN hop = 0 .. N
    BY DEF HopOf
  <2>2. \A k \in 0 .. N : hop[k] # NULL <=> k < Len(s)
    BY <1>1, NullAssumption DEF HopOf
  <2> QED
    BY <2>1, <2>2, <1>1
<1>3. 0 \in Int /\ Len(s) - 1 \in Int
  BY <1>1
<1>4. Cardinality(0 .. Len(s) - 1) = IF 0 > Len(s) - 1 THEN 0 ELSE Len(s) - 1 - 0 + 1
  BY <1>3, FS_Interval, Zenon
<1>5. Cardinality(K) = Cardinality(0 .. Len(s) - 1)
  BY <1>2, Zenon
<1> QED
  BY <1>1, <1>2, <1>4, <1>5

\* and spell the sequence.
LEMMA HopsSpell ==
  ASSUME NEW s \in Seq(Pcb), \A i, j \in 1 .. Len(s) : s[i] = s[j] => i = j,
         NEW hop, hop = HopOf(s, Cardinality(Pcb))
  PROVE  [i \in 1 .. Cardinality({k \in DOMAIN hop : hop[k] # NULL}) |-> hop[i - 1]] = s
<1> DEFINE K == {k \in DOMAIN hop : hop[k] # NULL}
<1>1. Cardinality(K) = Len(s)
  BY HopsCount
<1>2. Len(s) \in Nat /\ Len(s) <= Cardinality(Pcb) /\ Cardinality(Pcb) \in Nat
  BY LenProperties, LengthBounded
<1>3. \A i \in 1 .. Len(s) : hop[i - 1] = s[i]
  BY <1>2 DEF HopOf
<1>4. s = [i \in 1 .. Len(s) |-> s[i]]
  BY LenProperties
<1>5. [i \in 1 .. Cardinality(K) |-> hop[i - 1]] = [i \in 1 .. Len(s) |-> hop[i - 1]]
  BY <1>1, Zenon
<1> QED
  BY <1>3, <1>4, <1>5, Zenon
=============================================================================
