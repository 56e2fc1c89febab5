---------------------------- MODULE QueueProofs ----------------------------
(***************************************************************************)
(* Where the threads are, for every number of threads that take and free   *)
(* the mutex, print, poll, yield and return, wherever the timer interrupts *)
(* them.  A state of the queues is seen as sequences, a current thread,    *)
(* the pcbs in hands and the live threads (Placed); each step of the       *)
(* kernel does one of five things to these.                                *)
(***************************************************************************)
EXTENDS KernelProofs

\* The queues of threads that are ready and of threads that wait for the mutex.
Ready == {"run", "wait"}

\* Every live thread is in exactly one place: c has the CPU, q are the queues,
\* h what each thread has in its hand, and V the live threads.
Placed(q, c, h, V) ==
  /\ c \in V
  /\ \A u \in Pcb : h[u] # NULL => /\ h[u] \in V /\ h[u] # c /\ Free(Ready, q, h[u])
                                   /\ \A v \in Pcb : h[v] = h[u] => v = u
  /\ \A t \in Pcb : ~Free(Ready, q, t) => t \in V /\ t # c
  /\ \A t \in V : t = c \/ ~Free(Ready, q, t) \/ \E u \in Pcb : h[u] = t

-----------------------------------------------------------------------------
(* Queues as sequences.                                                    *)

\* What the first element, and the last, make of what a sequence holds.
LEMMA HoldsTail ==
  ASSUME NEW s \in Seq(Pcb), s # <<>>, \A i, j \in 1 .. Len(s) : s[i] = s[j] => i = j,
         NEW x
  PROVE  Holds(Tail(s), x) <=> Holds(s, x) /\ x # Head(s)
<1>1. /\ Len(s) \in Nat \ {0} /\ Head(s) = s[1] /\ Len(Tail(s)) = Len(s) - 1
      /\ \A i \in 1 .. Len(Tail(s)) : Tail(s)[i] = s[i + 1]
  BY HeadTailProperties, EmptySeq
<1>2. ASSUME NEW i \in 1 .. Len(Tail(s)), Tail(s)[i] = x
      PROVE  Holds(s, x) /\ x # Head(s)
  <2>1. i + 1 \in 1 .. Len(s) /\ 1 \in 1 .. Len(s) /\ i + 1 # 1 /\ s[i + 1] = x
    BY <1>1, <1>2
  <2> QED
    BY <2>1, <1>1 DEF Holds
<1>3. ASSUME NEW i \in 1 .. Len(s), s[i] = x, x # Head(s)
      PROVE  Holds(Tail(s), x)
  <2>1. i - 1 \in 1 .. Len(Tail(s)) /\ i - 1 + 1 = i
    BY <1>1, <1>3
  <2>2. Tail(s)[i - 1] = x
    BY <2>1, <1>1, <1>3
  <2> QED
    BY <2>1, <2>2 DEF Holds
<1> QED
  BY <1>2, <1>3 DEF Holds

LEMMA HoldsAppend ==
  ASSUME NEW s \in Seq(Pcb), NEW n \in Pcb, NEW x
  PROVE  Holds(Append(s, n), x) <=> Holds(s, x) \/ x = n
<1>1. /\ Len(s) \in Nat /\ Len(Append(s, n)) = Len(s) + 1
      /\ \A i \in 1 .. Len(s) : Append(s, n)[i] = s[i]
      /\ Append(s, n)[Len(s) + 1] = n
  BY AppendProperties, LenProperties
<1>2. \A i \in 1 .. Len(s) + 1 : i \in 1 .. Len(s) \/ i = Len(s) + 1
  BY <1>1
<1>3. Len(s) + 1 \in 1 .. Len(s) + 1 /\ 1 .. Len(s) \subseteq 1 .. Len(s) + 1
  BY <1>1
<1> QED
  BY <1>1, <1>2, <1>3 DEF Holds

LEMMA HoldsPush ==
  ASSUME NEW s \in Seq(Pcb), NEW n \in Pcb, NEW x
  PROVE  Holds(<<n>> \o s, x) <=> Holds(s, x) \/ x = n
<1>1. <<n>> \in Seq(Pcb) /\ Len(<<n>>) = 1 /\ <<n>>[1] = n
  OBVIOUS
<1>2. /\ Len(s) \in Nat /\ Len(<<n>> \o s) = 1 + Len(s)
      /\ \A i \in 1 .. 1 + Len(s) : (<<n>> \o s)[i] = IF i <= 1 THEN n ELSE s[i - 1]
  BY <1>1, ConcatProperties, LenProperties
<1>3. ASSUME NEW i \in 1 .. 1 + Len(s), (<<n>> \o s)[i] = x
      PROVE  Holds(s, x) \/ x = n
  <2>1. CASE i = 1
    BY <2>1, <1>2, <1>3
  <2>2. CASE i # 1
    <3>1. i - 1 \in 1 .. Len(s) /\ s[i - 1] = x
      BY <2>2, <1>2, <1>3
    <3> QED
      BY <3>1 DEF Holds
  <2> QED
    BY <2>1, <2>2
<1>4. ASSUME NEW i \in 1 .. Len(s), s[i] = x
      PROVE  Holds(<<n>> \o s, x)
  <2>1. i + 1 \in 1 .. 1 + Len(s) /\ (<<n>> \o s)[i + 1] = x
    BY <1>2, <1>4
  <2> QED
    BY <2>1, <1>2 DEF Holds
<1>5. Holds(<<n>> \o s, n)
  <2>1. 1 \in 1 .. 1 + Len(s) /\ (<<n>> \o s)[1] = n
    BY <1>2
  <2> QED
    BY <2>1, <1>2 DEF Holds
<1> QED
  BY <1>2, <1>3, <1>4, <1>5 DEF Holds
\* A pop takes its element off all queues.
LEMMA PopOff ==
  ASSUME NEW m, NEW q, Queues(m, Ready, q), NEW l \in Ready, q[l] # <<>>
  PROVE  LET p == [q EXCEPT ![l] = Tail(@)] IN
         /\ ~Free(Ready, q, Head(q[l]))
         /\ \A x : ~Free(Ready, p, x) <=> ~Free(Ready, q, x) /\ x # Head(q[l])
<1> DEFINE p == [q EXCEPT ![l] = Tail(@)]
           n == Head(q[l])
<1>1. /\ q \in [Ready -> Seq(Pcb)] /\ q[l] \in Seq(Pcb)
      /\ \A i, j \in 1 .. Len(q[l]) : q[l][i] = q[l][j] => i = j
  BY DEF Queues
<1>2. p[l] = Tail(q[l]) /\ \A r \in Ready : r # l => p[r] = q[r]
  BY <1>1
<1>3. Holds(q[l], n)
  <2>1. Len(q[l]) \in Nat \ {0} /\ n = q[l][1]
    BY <1>1, EmptySeq
  <2> QED
    BY <2>1 DEF Holds
<1>4. \A x : Holds(p[l], x) <=> Holds(q[l], x) /\ x # n
  BY <1>1, <1>2, HoldsTail
<1>5. \A r \in Ready : r # l => ~Holds(q[r], n)
  BY <1>3, OnOneList
<1> HIDE DEF p, n
<1>6. ~Free(Ready, q, n) /\ \A x : ~Free(Ready, p, x) <=> ~Free(Ready, q, x) /\ x # n
  BY <1>2, <1>3, <1>4, <1>5 DEF Free
<1> QED
  BY <1>6 DEF p, n

\* An append and a push put their element on one.
LEMMA AppendOn ==
  ASSUME NEW q \in [Ready -> Seq(Pcb)], NEW l \in Ready, NEW n \in Pcb
  PROVE  \A x : ~Free(Ready, [q EXCEPT ![l] = Append(@, n)], x) <=> ~Free(Ready, q, x) \/ x = n
<1> DEFINE p == [q EXCEPT ![l] = Append(@, n)]
<1>1. p[l] = Append(q[l], n) /\ \A r \in Ready : r # l => p[r] = q[r]
  OBVIOUS
<1>2. \A x : Holds(p[l], x) <=> Holds(q[l], x) \/ x = n
  BY <1>1, HoldsAppend
<1> HIDE DEF p
<1>3. \A x : ~Free(Ready, p, x) <=> ~Free(Ready, q, x) \/ x = n
  BY <1>1, <1>2 DEF Free
<1> QED
  BY <1>3 DEF p

LEMMA PushOn ==
  ASSUME NEW q \in [Ready -> Seq(Pcb)], NEW l \in Ready, NEW n \in Pcb
  PROVE  \A x : ~Free(Ready, [q EXCEPT ![l] = <<n>> \o @], x) <=> ~Free(Ready, q, x) \/ x = n
<1> DEFINE p == [q EXCEPT ![l] = <<n>> \o @]
<1>1. p[l] = <<n>> \o q[l] /\ \A r \in Ready : r # l => p[r] = q[r]
  OBVIOUS
<1>2. \A x : Holds(p[l], x) <=> Holds(q[l], x) \/ x = n
  BY <1>1, HoldsPush
<1> HIDE DEF p
<1>3. \A x : ~Free(Ready, p, x) <=> ~Free(Ready, q, x) \/ x = n
  BY <1>1, <1>2 DEF Free
<1> QED
  BY <1>3 DEF p

-----------------------------------------------------------------------------
(* A thread moves from one place to another.                               *)

\* From a queue into the hand of u,
LEMMA TakenInHand ==
  ASSUME NEW q, NEW c, NEW h \in [Pcb -> Ptr], NEW V \in SUBSET Pcb, Placed(q, c, h, V),
         NEW p, NEW u \in Pcb, h[u] = NULL, NEW n \in Pcb, ~Free(Ready, q, n),
         \A x : ~Free(Ready, p, x) <=> ~Free(Ready, q, x) /\ x # n
  PROVE  Placed(p, c, [h EXCEPT ![u] = n], V)
<1> DEFINE g == [h EXCEPT ![u] = n]
<1>1. g[u] = n /\ \A v \in Pcb : v # u => g[v] = h[v]
  OBVIOUS
<1>2. n \in V /\ n # c /\ Free(Ready, p, n) /\ \A v \in Pcb : h[v] # n
  BY NullAssumption DEF Placed
<1> HIDE DEF g
<1>3. c \in V /\ \A t \in Pcb : ~Free(Ready, p, t) => t \in V /\ t # c
  BY DEF Placed
<1>4. ASSUME NEW v \in Pcb, g[v] # NULL
      PROVE  /\ g[v] \in V /\ g[v] # c /\ Free(Ready, p, g[v])
             /\ \A w \in Pcb : g[w] = g[v] => w = v
  <2>1. CASE v = u
    BY <2>1, <1>1, <1>2
  <2>2. CASE v # u
    BY <2>2, <1>1, <1>2, <1>4 DEF Placed
  <2> QED
    BY <2>1, <2>2
<1>5. ASSUME NEW t \in V, t # c, Free(Ready, p, t) PROVE \E v \in Pcb : g[v] = t
  <2>1. CASE t = n
    BY <2>1, <1>1
  <2>2. CASE t # n
    <3>1. PICK v \in Pcb : h[v] = t
      BY <2>2, <1>5 DEF Placed
    <3>2. t # NULL
      BY NullAssumption
    <3> QED
      BY <3>1, <3>2, <1>1
  <2> QED
    BY <2>1, <2>2
<1>6. Placed(p, c, g, V)
  BY <1>3, <1>4, <1>5 DEF Placed
<1> QED
  BY <1>6 DEF g

\* from that hand onto a queue,
LEMMA PutFromHand ==
  ASSUME NEW q, NEW c, NEW h \in [Pcb -> Ptr], NEW V \in SUBSET Pcb, Placed(q, c, h, V),
         NEW p, NEW u \in Pcb, h[u] # NULL,
         \A x : ~Free(Ready, p, x) <=> ~Free(Ready, q, x) \/ x = h[u]
  PROVE  Placed(p, c, [h EXCEPT ![u] = NULL], V)
<1> DEFINE g == [h EXCEPT ![u] = NULL]
<1>1. g[u] = NULL /\ \A v \in Pcb : v # u => g[v] = h[v]
  BY DEF Ptr
<1> HIDE DEF g
<1>2. Placed(p, c, g, V)
  BY <1>1 DEF Placed
<1> QED
  BY <1>2 DEF g

\* from a queue to the CPU and from the CPU to a queue,
LEMMA Switched ==
  ASSUME NEW q, NEW c \in Pcb, NEW h \in [Pcb -> Ptr], NEW V \in SUBSET Pcb,
         Placed(q, c, h, V), NEW p, NEW n \in Pcb, ~Free(Ready, q, n),
         \A x : ~Free(Ready, p, x) <=> (~Free(Ready, q, x) /\ x # n) \/ x = c
  PROVE  Placed(p, n, h, V)
BY DEF Placed

\* and to the CPU from which a thread has gone for ever.
LEMMA Reaped ==
  ASSUME NEW q, NEW c \in Pcb, NEW h \in [Pcb -> Ptr], NEW V \in SUBSET Pcb,
         Placed(q, c, h, V), NEW p, NEW n \in Pcb, ~Free(Ready, q, n),
         \A x : ~Free(Ready, p, x) <=> ~Free(Ready, q, x) /\ x # n
  PROVE  Placed(p, n, h, V \ {c})
BY DEF Placed
-----------------------------------------------------------------------------
(* The invariant.                                                          *)

\* The queues as their links spell them, the hands, and the live threads.
Elements(l) ==
  LET chain == Chain(l)
  IN  [i \in 1 .. Cardinality({k \in DOMAIN chain : chain[k] # NULL}) |-> chain[i - 1]]

Queue   == [l \in Ready |-> Elements(l)]
Hand    == [u \in Pcb |-> IF HasInHand(u) THEN tmp[u] ELSE NULL]
Alive   == {t \in Pcb : Live(t)}

\* Who has gone to sleep on the mutex and is not yet back on the run queue.
Waiting == {t \in Pcb : Holds(Queue["wait"], t) \/ \E u \in Pcb : Hand[u] = t}

\* Nobody is blocked, and no semaphore is to be looked at.
NobodyBlocked == mem.list["block"] = EmptyHeader /\ sems_pending = {}

\* What a hand holds, when it is said to hold something, is a pcb.
HandsHold == \A u \in Pcb : HasInHand(u) => tmp[u] \in Pcb

\* The state is that of the queues q, which the links spell.
QueuesAre(q) == Queues(mem, Ready, q) /\ Placed(q, current, Hand, Alive)

QueueInv == TypeOK /\ NobodyBlocked /\ HandsHold /\ QueuesAre(Queue)

LEMMA ChainIs ==
  ASSUME NEW l, NEW s \in Seq(Pcb), Linked(mem, l, s)
  PROVE  Chain(l) = HopOf(s, Cardinality(Pcb))
<1>1. Cardinality(Pcb) \in Nat
  BY PcbAssumption, FS_CardinalityType
<1>2. Chain(l) = CHOOSE h : IsHop(mem, l, Cardinality(Pcb), h)
  BY Zenon DEF Chain, IsHop
<1> QED
  BY <1>1, <1>2, HopsAreElements

LEMMA ElementsAre ==
  ASSUME NEW q, Queues(mem, Ready, q), NEW l \in Ready
  PROVE  Elements(l) = q[l]
<1>1. /\ q[l] \in Seq(Pcb) /\ Linked(mem, l, q[l])
      /\ \A i, j \in 1 .. Len(q[l]) : q[l][i] = q[l][j] => i = j
  BY DEF Queues
<1>2. Chain(l) = HopOf(q[l], Cardinality(Pcb))
  BY <1>1, ChainIs
<1> QED
  BY <1>1, <1>2, HopsSpell, Zenon DEF Elements

LEMMA QueueIs == \A q : Queues(mem, Ready, q) => Queue = q
<1> SUFFICES ASSUME NEW q, Queues(mem, Ready, q) PROVE Queue = q
  OBVIOUS
<1>1. q = [l \in Ready |-> q[l]]
  BY DEF Queues
<1> QED
  BY <1>1, ElementsAre, Zenon DEF Queue

LEMMA QueueNextIs == (\A q : Queues(mem, Ready, q) => Queue = q)'
BY QueueIs, PTL

\* It is enough to know some sequences that the queues are.
LEMMA SomeQueues ==
  TypeOK /\ NobodyBlocked /\ HandsHold /\ (\E q : QueuesAre(q)) => QueueInv
BY QueueIs DEF QueueInv, QueuesAre

-----------------------------------------------------------------------------
(* What the invariant says of the places.                                  *)

\* Where t is on list l.
OnChain(l, t) == {<<l, k>> : k \in {j \in DOMAIN Chain(l) : Chain(l)[j] = t}}

LEMMA OnChainOnce ==
  ASSUME NEW l, NEW s \in Seq(Pcb), Linked(mem, l, s), NEW t \in Pcb,
         \A i, j \in 1 .. Len(s) : s[i] = s[j] => i = j
  PROVE  IF Holds(s, t) THEN \E k : OnChain(l, t) = {<<l, k>>} ELSE OnChain(l, t) = {}
<1> DEFINE N == Cardinality(Pcb)
<1>1. Len(s) \in Nat /\ N \in Nat /\ Len(s) <= N
  BY LenProperties, LengthBounded
<1>2. Chain(l) = HopOf(s, N) /\ DOMAIN HopOf(s, N) = 0 .. N
  BY ChainIs DEF HopOf
<1>3. t # NULL
  BY NullAssumption
<1>4. \A k \in 0 .. N : HopOf(s, N)[k] = t <=> k + 1 \in 1 .. Len(s) /\ s[k + 1] = t
  BY <1>1, <1>3 DEF HopOf
<1>5. CASE Holds(s, t)
  <2>1. PICK i \in 1 .. Len(s) : s[i] = t
    BY <1>5 DEF Holds
  <2>2. i - 1 \in 0 .. N /\ i - 1 + 1 = i
    BY <2>1, <1>1
  <2>3. \A k \in 0 .. N : HopOf(s, N)[k] = t <=> k = i - 1
    BY <1>1, <1>4, <2>1, <2>2
  <2>4. {j \in DOMAIN Chain(l) : Chain(l)[j] = t} = {i - 1}
    BY <1>2, <2>2, <2>3
  <2>5. OnChain(l, t) = {<<l, i - 1>>}
    BY <2>4 DEF OnChain
  <2> QED
    BY <1>5, <2>5
<1>6. CASE ~Holds(s, t)
  <2>1. {j \in DOMAIN Chain(l) : Chain(l)[j] = t} = {}
    BY <1>2, <1>4, <1>6 DEF Holds
  <2> QED
    BY <2>1, <1>6 DEF OnChain
<1> QED
  BY <1>5, <1>6

\* A live thread is in one place.
LEMMA OnePlace == QueueInv => NoThreadLost
<1> SUFFICES ASSUME QueueInv, NEW t \in Pcb, Live(t) PROVE Cardinality(Places(t)) = 1
  BY DEF NoThreadLost
<1> DEFINE q    == Queue
           cpu  == {<<"cpu", 0>> : u \in {current} \cap {t}}
           hand == {<<"hand", u>> : u \in {v \in Pcb : HasInHand(v) /\ tmp[v] = t}}
           run  == OnChain("run", t)
           wait == OnChain("wait", t)
<1>1. Queues(mem, Ready, q) /\ Placed(q, current, Hand, Alive) /\ t \in Alive /\ t # NULL
  BY NullAssumption DEF QueueInv, QueuesAre, Alive
<1>2. Places(t) = cpu \cup hand \cup run \cup wait
  <2>1. OnChain("block", t) = {}
    <3>1. Linked(mem, "block", <<>>) /\ <<>> \in Seq(Pcb) /\ ~Holds(<<>>, t)
      BY EmptySeq DEF QueueInv, NobodyBlocked, EmptyHeader, Linked, Holds
    <3>2. \A i, j \in 1 .. Len(<<>>) : <<>>[i] = <<>>[j] => i = j
      BY EmptySeq
    <3> QED
      BY <3>1, <3>2, OnChainOnce
  <2>2. Places(t) = cpu \cup hand \cup UNION {OnChain(l, t) : l \in {"run", "block", "wait"}}
    BY Zenon DEF Places, OnChain
  <2>3. UNION {OnChain(l, t) : l \in {"run", "block", "wait"}} = run \cup OnChain("block", t) \cup wait
    OBVIOUS
  <2> QED
    BY <2>1, <2>2, <2>3
<1>3. ASSUME NEW l \in Ready
      PROVE  IF Holds(q[l], t) THEN \E k : OnChain(l, t) = {<<l, k>>} ELSE OnChain(l, t) = {}
  <2>1. /\ q[l] \in Seq(Pcb) /\ Linked(mem, l, q[l])
        /\ \A i, j \in 1 .. Len(q[l]) : q[l][i] = q[l][j] => i = j
    BY <1>1 DEF Queues
  <2> QED
    BY <2>1, OnChainOnce
<1>4. \A u \in Pcb : HasInHand(u) /\ tmp[u] = t <=> Hand[u] = t
  BY <1>1 DEF Hand
<1>5. hand = {<<"hand", u>> : u \in {v \in Pcb : Hand[v] = t}}
  BY <1>4
<1>6. "run" \in Ready /\ "wait" \in Ready
  BY DEF Ready
<1> HIDE DEF q, cpu, hand, run, wait
<1>7. \E e : Places(t) = {e}
  <2>1. CASE t = current
    <3>1. Free(Ready, q, t) /\ \A u \in Pcb : Hand[u] # t
      BY <1>1, <2>1 DEF Placed
    <3>2. run = {} /\ wait = {} /\ hand = {} /\ cpu = {<<"cpu", 0>>}
      BY <1>3, <1>5, <1>6, <2>1, <3>1 DEF Free, run, wait, cpu
    <3> QED
      BY <1>2, <3>2
  <2>2. CASE ~Free(Ready, q, t)
    <3>1. t # current /\ \A u \in Pcb : Hand[u] # t
      BY <1>1, <2>2 DEF Placed
    <3>2. hand = {} /\ cpu = {}
      BY <1>5, <3>1 DEF cpu
    <3>3. Holds(q["run"], t) \/ Holds(q["wait"], t)
      BY <2>2 DEF Free, Ready
    <3>4. ~(Holds(q["run"], t) /\ Holds(q["wait"], t))
      BY <1>1, <1>6, OnOneList
    <3> QED
      BY <1>2, <1>3, <1>6, <3>2, <3>3, <3>4 DEF run, wait
  <2>3. CASE t # current /\ Free(Ready, q, t)
    <3>1. PICK u \in Pcb : Hand[u] = t
      BY <1>1, <2>3 DEF Placed
    <3>2. \A v \in Pcb : Hand[v] = t => v = u
      BY <1>1, <3>1 DEF Placed
    <3>3. {v \in Pcb : Hand[v] = t} = {u}
      BY <3>1, <3>2
    <3>4. hand = {<<"hand", u>>}
      BY <1>5, <3>3
    <3>5. run = {} /\ wait = {} /\ cpu = {}
      BY <1>3, <1>6, <2>3 DEF Free, run, wait, cpu
    <3> QED
      BY <1>2, <3>4, <3>5
  <2> QED
    BY <2>1, <2>2, <2>3
<1> QED
  BY <1>7, FS_Singleton

\* The headers of the queues agree with their chains.
LEMMA HeaderFollows ==
  ASSUME NEW l, NEW s \in Seq(Pcb), Linked(mem, l, s),
         \A i, j \in 1 .. Len(s) : s[i] = s[j] => i = j
  PROVE  LET chain  == Chain(l)
             queued == {k \in DOMAIN chain : chain[k] # NULL}
             n      == Cardinality(queued)
         IN  /\ queued = 0 .. n - 1
             /\ mem.list[l].size = n
             /\ mem.list[l].tail = IF n = 0 THEN NULL ELSE chain[n - 1]
<1> DEFINE chain  == Chain(l)
           queued == {k \in DOMAIN chain : chain[k] # NULL}
<1>1. chain = HopOf(s, Cardinality(Pcb))
  BY ChainIs
<1>2. queued = 0 .. Len(s) - 1 /\ Cardinality(queued) = Len(s)
  BY <1>1, HopsCount
<1>3. /\ Len(s) \in Nat /\ (s = <<>> <=> Len(s) = 0) /\ Len(s) <= Cardinality(Pcb)
      /\ Cardinality(Pcb) \in Nat
  BY EmptySeq, LenProperties, LengthBounded
<1>4. Len(s) # 0 => chain[Len(s) - 1] = s[Len(s)]
  BY <1>1, <1>3 DEF HopOf
<1>5. /\ mem.list[l].size = Len(s)
      /\ mem.list[l].tail = IF Len(s) = 0 THEN NULL ELSE chain[Len(s) - 1]
  BY <1>3, <1>4 DEF Linked
<1> QED
  BY <1>2, <1>5, Zenon

LEMMA HeadersFollow == QueueInv => QueueConsistent
<1> SUFFICES ASSUME QueueInv PROVE QueueConsistent
  OBVIOUS
<1>1. \A l \in {"run", "wait"} :
        /\ Queue[l] \in Seq(Pcb) /\ Linked(mem, l, Queue[l])
        /\ \A i, j \in 1 .. Len(Queue[l]) : Queue[l][i] = Queue[l][j] => i = j
  BY DEF QueueInv, QueuesAre, Queues, Ready
<1> QED
  BY <1>1, HeaderFollows, Zenon DEF QueueConsistent
-----------------------------------------------------------------------------
(* Steps that move nobody.                                                 *)

\* The threads print, poll, yield, loop and return; they create none and use no
\* semaphore.
MutexOnly == \A t \in Pcb : \A i \in DOMAIN Prog[t] :
               Prog[t][i].op \notin {"create", "wait", "signal"}

LEMMA MutexPoints ==
  ASSUME TypeOK, MutexOnly, NEW t \in Pcb
  PROVE  /\ Call(t).op \notin {"create", "wait", "signal"}
         /\ pc[t] \in {"none", "op", "reap", "dead", "pop_wait", "push_run"} \cup MutexPoint
<1>1. ip[t] \in DOMAIN Prog[t] /\ pc[t] \in Point
  BY DEF TypeOK, PointsOK, SchedulerTypeOK
<1>2. Call(t).op \notin {"create", "wait", "signal"}
  BY <1>1 DEF MutexOnly, Call
<1>3. pc[t] \in DOMAIN CallAt => CallAt[pc[t]] \notin {"create", "wait", "signal"}
  BY <1>2 DEF TypeOK, PointsOK
<1>4. pc[t] \notin {"app_all", "app_run", "rem_block", "app_woken"} \cup SemPoint
  BY <1>3, Tables, CallAtValues DEF Point, SemPoint
<1> QED
  BY <1>1, <1>2, <1>4, Tables DEF Point

\* HasInHand with the points that are left.
LEMMA MutexHands ==
  ASSUME TypeOK, MutexOnly, NEW t \in Pcb
  PROVE  HasInHand(t) <=> \/ pc[t] = "pop_wait" /\ phase[t] = "done"
                          \/ pc[t] = "push_run" /\ phase[t] # "done"
BY MutexPoints DEF HasInHand, MutexPoint

MovesNobody ==
  /\ UNCHANGED <<mem, current, sems_pending, tmp>>
  /\ \A u \in Pcb : (Live(u)' <=> Live(u)) /\ (HasInHand(u)' <=> HasInHand(u))

LEMMA MovesNobodyInv ==
  ASSUME QueueInv, TypeOK', MovesNobody
  PROVE  QueueInv' /\ Waiting' = Waiting
<1>1. Alive' = Alive /\ Hand' = Hand
  BY DEF Alive, Hand, MovesNobody
<1>2. (TypeOK /\ NobodyBlocked /\ HandsHold /\ (\E q : QueuesAre(q)) => QueueInv)'
  BY SomeQueues, PTL
<1>3. NobodyBlocked' /\ HandsHold'
  BY DEF QueueInv, NobodyBlocked, HandsHold, MovesNobody
<1>4. Queues(mem', Ready, Queue) /\ Placed(Queue, current', Hand', Alive')
  BY <1>1 DEF QueueInv, QueuesAre, MovesNobody
<1>5. Queue' = Queue
  BY <1>4, QueueNextIs
<1> QED
  BY <1>1, <1>2, <1>3, <1>4, <1>5 DEF QueuesAre, Waiting

\* Thread t goes from one point to another.
LEMMA OneGoes ==
  ASSUME NEW t \in Pcb, UNCHANGED <<mem, current, sems_pending, tmp>>,
         \A u \in Pcb \ {t} : pc'[u] = pc[u] /\ phase'[u] = phase[u],
         Live(t)' <=> Live(t), HasInHand(t)' <=> HasInHand(t)
  PROVE  MovesNobody
<1>1. ASSUME NEW u \in Pcb, u # t
      PROVE  (Live(u)' <=> Live(u)) /\ (HasInHand(u)' <=> HasInHand(u))
  BY <1>1 DEF Live, HasInHand
<1> QED
  BY <1>1 DEF MovesNobody

\* A crash moves nobody, nor does a step that leaves the points and the lists.
LEMMA NoneGoes ==
  ASSUME UNCHANGED <<mem, current, sems_pending, tmp, pc, phase>>
  PROVE  MovesNobody
BY DEF MovesNobody, Live, HasInHand

LEMMA CrashMovesNobody ==
  ASSUME Crash
  PROVE  MovesNobody
BY NoneGoes DEF Crash, listVars, cpuVars, wakeVars
\* Between two points of its call, or two calls, t stays where it is.
LEMMA CallGoesOn ==
  ASSUME TypeOK, MutexOnly, NEW t \in Pcb, UNCHANGED <<mem, current, sems_pending, tmp, phase>>,
         NEW p \in {"op", "reap"} \cup MutexPoint,
         pc[t] \in {"op"} \cup MutexPoint, pc' = [pc EXCEPT ![t] = p]
  PROVE  MovesNobody
<1>1. pc \in [Pcb -> Point]
  BY DEF TypeOK, SchedulerTypeOK
<1>2. pc'[t] = p /\ \A u \in Pcb \ {t} : pc'[u] = pc[u] /\ phase'[u] = phase[u]
  BY <1>1
<1>3. (Live(t)' <=> Live(t)) /\ (HasInHand(t)' <=> HasInHand(t))
  BY <1>2 DEF Live, HasInHand, MutexPoint
<1> QED
  BY <1>2, <1>3, OneGoes

\* The steps of the mutex, but for Sleep, move nobody, even on the way into
\* pop_pcb_list: it has taken nothing yet.
LEMMA MutexMovesNobody ==
  ASSUME TypeOK, MutexOnly, NEW t \in Pcb, MutexThread(t), ~Sleep(t)
  PROVE  MovesNobody
<1> USE DEF cpuVars, listVars, wakeVars, mutexVars, Goto, NextCall, At, Calls, MutexPoint
<1>1. CASE try_lock(t)
  BY <1>1, CallGoesOn DEF try_lock
<1>2. CASE SetLocker(t)
  BY <1>2, CallGoesOn DEF SetLocker
<1>3. CASE DisableToSleep(t)
  BY <1>3, CallGoesOn DEF DisableToSleep
<1>4. CASE SleepsAlone(t)
  BY <1>4, CrashMovesNobody DEF SleepsAlone
<1>5. CASE mutex_unlock(t)
  BY <1>5, CallGoesOn DEF mutex_unlock
<1>6. CASE ClearLocker(t)
  BY <1>6, CallGoesOn DEF ClearLocker
<1>7. CASE TestWaitQueue(t)
  <2>1. CASE Goto(t, "pop_wait")
    <3>1. pc \in [Pcb -> Point] /\ phase[t] = "enter"
      BY <1>7, Tables DEF TestWaitQueue, TypeOK, SchedulerTypeOK, PointsOK
    <3>2. pc'[t] = "pop_wait" /\ \A u \in Pcb \ {t} : pc'[u] = pc[u] /\ phase'[u] = phase[u]
      BY <1>7, <2>1, <3>1 DEF TestWaitQueue
    <3>3. (Live(t)' <=> Live(t)) /\ (HasInHand(t)' <=> HasInHand(t))
      BY <1>7, <3>1, <3>2 DEF TestWaitQueue, Live, HasInHand
    <3> QED
      BY <1>7, <3>2, <3>3, OneGoes DEF TestWaitQueue
  <2>2. CASE NextCall(t)
    BY <1>7, <2>2, CallGoesOn DEF TestWaitQueue
  <2> QED
    BY <1>7, <2>1, <2>2 DEF TestWaitQueue
<1> QED
  BY <1>1, <1>2, <1>3, <1>4, <1>5, <1>6, <1>7 DEF MutexThread

\* Nor do those of the scheduler's functions, but for reap and the bodies of the
\* list functions; the spin locks around a body change nothing in the hand.
LEMMA SchedulerMovesNobody ==
  ASSUME TypeOK, MutexOnly, NEW t \in Pcb, SchedulerThread(t), ~reap(t), ~ListBody(t)
  PROVE  MovesNobody
<1> USE DEF cpuVars, listVars, wakeVars, Goto, NextCall, At, Calls
<1>1. CASE yield(t)
  BY <1>1, CallGoesOn DEF yield
<1>2. CASE create_kernel_thread(t)
  BY <1>2, MutexPoints DEF create_kernel_thread
<1>3. CASE Jump(t)
  BY <1>3, NoneGoes DEF Jump
<1>4. CASE get_line(t)
  BY <1>4, CallGoesOn DEF get_line
<1>5. CASE Return(t)
  BY <1>5, CallGoesOn DEF Return
<1>6. CASE PopsNothing(t)
  BY <1>6, CrashMovesNobody DEF PopsNothing
<1>7. CASE SpinLock(t)
  <2>1. /\ phase[t] = "enter" /\ phase'[t] = "locked" /\ pc' = pc
        /\ \A u \in Pcb \ {t} : phase'[u] = phase[u]
    BY <1>7 DEF SpinLock, TypeOK, SchedulerTypeOK
  <2>2. (Live(t)' <=> Live(t)) /\ (HasInHand(t)' <=> HasInHand(t))
    BY <2>1 DEF Live, HasInHand
  <2> QED
    BY <1>7, <2>1, <2>2, OneGoes DEF SpinLock
<1>8. CASE SpinUnlock(t)
  <2>1. /\ phase[t] = "done" /\ phase'[t] = "enter"
        /\ pc \in [Pcb -> Point] /\ pc[t] \in DOMAIN CalledList
        /\ \A u \in Pcb \ {t} : phase'[u] = phase[u]
    BY <1>8 DEF SpinUnlock, TypeOK, SchedulerTypeOK, PointsOK
  <2>2. pc[t] = "pop_wait" \/ pc[t] = "push_run"
    BY <2>1, MutexPoints, Tables DEF MutexPoint
  <2>3. CASE pc[t] = "pop_wait"
    <3>1. AfterCall[pc[t]] = "push_run"
      BY <2>3 DEF AfterCall
    <3>2. pc' = [pc EXCEPT ![t] = "push_run"]
      BY <1>8, <3>1 DEF SpinUnlock
    <3>3. pc'[t] = "push_run" /\ \A u \in Pcb \ {t} : pc'[u] = pc[u]
      BY <2>1, <3>2
    <3>4. (Live(t)' <=> Live(t)) /\ (HasInHand(t)' <=> HasInHand(t))
      BY <2>1, <2>3, <3>3 DEF Live, HasInHand
    <3> QED
      BY <1>8, <2>1, <3>3, <3>4, OneGoes DEF SpinUnlock
  <2>4. CASE pc[t] = "push_run"
    <3>1. AfterCall[pc[t]] = "op"
      BY <2>4 DEF AfterCall
    <3>2. pc' = [pc EXCEPT ![t] = "op"]
      BY <1>8, <3>1 DEF SpinUnlock
    <3>3. pc'[t] = "op" /\ \A u \in Pcb \ {t} : pc'[u] = pc[u]
      BY <2>1, <3>2
    <3>4. (Live(t)' <=> Live(t)) /\ (HasInHand(t)' <=> HasInHand(t))
      BY <2>1, <2>4, <3>3 DEF Live, HasInHand
    <3> QED
      BY <1>8, <2>1, <3>3, <3>4, OneGoes DEF SpinUnlock
  <2> QED
    BY <2>2, <2>3, <2>4
<1> QED
  BY <1>1, <1>2, <1>3, <1>4, <1>5, <1>6, <1>7, <1>8 DEF SchedulerThread

\* Nobody is at a point of a semaphore's function.
LEMMA NoSemThread ==
  ASSUME TypeOK, MutexOnly, NEW t \in Pcb
  PROVE  ~SemThread(t)
<1>1. /\ Call(t).op \notin {"create", "wait", "signal"}
      /\ pc[t] \notin SemPoint
  BY MutexPoints DEF SemPoint, MutexPoint
<1> QED
  BY <1>1 DEF SemThread, sem_wait, StoreDec, TestDec, SetBlockerId, DisableToBlock, block,
              BlocksAlone, sem_signal, StoreInc, TestInc, LoadHead, Walk, Advance, ClearBlockerId,
              LoadPending, StorePending, Calls, At, SemPoint
-----------------------------------------------------------------------------
(* Steps that move a thread.                                               *)

LEMMA SomeQueuesNext ==
  ASSUME TypeOK', NobodyBlocked', HandsHold',
         \E r : Queues(mem', Ready, r) /\ Placed(r, current', Hand', Alive')
  PROVE  QueueInv'
<1>1. (TypeOK /\ NobodyBlocked /\ HandsHold /\ (\E q : QueuesAre(q)) => QueueInv)'
  BY SomeQueues, PTL
<1> QED
  BY <1>1 DEF QueuesAre

\* What the invariant gives to a function that pops list l.
LEMMA PopStep ==
  ASSUME QueueInv, NEW l \in Ready, mem.list[l].head # NULL
  PROVE  LET q == Queue
             n == mem.list[l].head
             p == [q EXCEPT ![l] = Tail(@)]
         IN  /\ n \in Pcb /\ PopPcb(mem, l) \in Memory
             /\ Queues(PopPcb(mem, l), Ready, p) /\ ~Free(Ready, q, n)
             /\ \A x : ~Free(Ready, p, x) <=> ~Free(Ready, q, x) /\ x # n
             /\ PopPcb(mem, l).list["block"] = mem.list["block"]
<1>1. Queues(mem, Ready, Queue) /\ mem \in Memory /\ l \in List /\ "block" \in List /\ l # "block"
  BY ListAssumption DEF QueueInv, QueuesAre, TypeOK, SchedulerTypeOK, KernelLists, Ready
<1>2. Queue[l] # <<>>
  BY <1>1 DEF Queues, Linked
<1>3. mem.list[l].head = Head(Queue[l]) /\ Head(Queue[l]) \in Pcb
      /\ Queues(PopPcb(mem, l), Ready, [Queue EXCEPT ![l] = Tail(@)])
  BY <1>1, <1>2, PopQueues
<1>4. PopPcb(mem, l) \in Memory
  BY <1>1, PopMemory
<1>5. PopPcb(mem, l).list["block"] = mem.list["block"]
  BY <1>1, <1>3, PopEffect DEF Popped
<1> QED
  BY <1>1, <1>2, <1>3, <1>4, <1>5, PopOff

\* A switch puts the current thread at the back of a queue.
LEMMA SwitchStep ==
  ASSUME QueueInv, TypeOK', NEW l \in Ready, SwitchOut(current, l),
         UNCHANGED <<sems_pending, tmp>>,
         \A u \in Pcb : (Live(u)' <=> Live(u)) /\ (HasInHand(u)' <=> HasInHand(u))
  PROVE  QueueInv' /\ Waiting' \subseteq IF l = "run" THEN Waiting ELSE Waiting \cup {current}
<1> DEFINE n == mem.list["run"].head
           p == [Queue EXCEPT !["run"] = Tail(@)]
           o == PopPcb(mem, "run")
<1>1. /\ n # NULL /\ mem' = AppendPcb(o, l, current) /\ current' = n
      /\ current \in Pcb
  BY DEF SwitchOut, SwitchTo, NextToRun, QueueInv, TypeOK, SchedulerTypeOK
<1>2. "run" \in Ready /\ l \in List /\ "block" \in List /\ l # "block"
  BY ListAssumption DEF Ready, KernelLists
<1>3. /\ n \in Pcb /\ o \in Memory /\ Queues(o, Ready, p) /\ ~Free(Ready, Queue, n)
      /\ \A x : ~Free(Ready, p, x) <=> ~Free(Ready, Queue, x) /\ x # n
      /\ o.list["block"] = mem.list["block"]
  BY <1>1, <1>2, PopStep
<1>4. Placed(Queue, current, Hand, Alive) /\ Free(Ready, Queue, current)
  BY <1>1 DEF QueueInv, QueuesAre, Placed
<1> HIDE DEF n, p, o
<1>5. Free(Ready, p, current)
  BY <1>3, <1>4
<1> DEFINE r == [p EXCEPT ![l] = Append(@, current)]
<1>6. Queues(mem', Ready, r)
  BY <1>1, <1>3, <1>5, AppendQueues
<1>7. p \in [Ready -> Seq(Pcb)]
  BY <1>3 DEF Queues
<1>8. \A x : ~Free(Ready, r, x) <=> ~Free(Ready, p, x) \/ x = current
  BY <1>1, <1>7, AppendOn
<1>9. \A x : Holds(r["wait"], x) => Holds(Queue["wait"], x) \/ (x = current /\ l = "wait")
  <2>1. p["wait"] = Queue["wait"] /\ Queue["wait"] \in Seq(Pcb) /\ "wait" \in Ready
    BY DEF p, QueueInv, QueuesAre, Queues, Ready
  <2>2. l # "wait" => r["wait"] = p["wait"]
    BY <1>7, <2>1
  <2>3. l = "wait" => r["wait"] = Append(p["wait"], current)
    BY <1>7, <2>1
  <2> HIDE DEF r
  <2> QED
    BY <1>1, <2>1, <2>2, <2>3, HoldsAppend
<1> HIDE DEF r
<1>10. Hand \in [Pcb -> Ptr] /\ Alive \in SUBSET Pcb
  BY DEF Hand, Alive, HandsHold, QueueInv, Ptr
<1>11. Placed(r, n, Hand, Alive)
  BY <1>1, <1>3, <1>4, <1>8, <1>10, Switched
<1>12. Hand' = Hand /\ Alive' = Alive /\ HandsHold'
  BY DEF Hand, Alive, HandsHold, QueueInv
<1>13. NobodyBlocked'
  <2>1. o.list[l].tail # current
    <3>1. Linked(o, l, p[l]) /\ p[l] \in Seq(Pcb)
      BY <1>3 DEF Queues
    <3>2. p[l] # <<>> => Len(p[l]) \in 1 .. Len(p[l])
      BY <3>1, EmptySeq
    <3>3. o.list[l].tail = NULL \/ Holds(p[l], o.list[l].tail)
      BY <3>1, <3>2 DEF Linked, Holds
    <3> QED
      BY <3>3, <1>1, <1>5, NullAssumption DEF Free
  <2>2. mem'.list["block"] = o.list["block"]
    BY <2>1, <1>1, <1>2, <1>3, AppendEffect DEF Put
  <2> QED
    BY <2>2, <1>3 DEF NobodyBlocked, QueueInv
<1>14. Queue' = r
  BY <1>6, QueueNextIs
<1>15. Waiting' \subseteq IF l = "run" THEN Waiting ELSE Waiting \cup {current}
  BY <1>1, <1>9, <1>12, <1>14 DEF Waiting, Ready
<1> QED
  BY <1>1, <1>6, <1>11, <1>12, <1>13, <1>15, SomeQueuesNext

\* reap switches to the next thread, and its own is dead.
LEMMA ReapStep ==
  ASSUME QueueInv, TypeOK', MutexOnly, NEW t \in Pcb, reap(t)
  PROVE  QueueInv' /\ Waiting' = Waiting
<1> DEFINE n == mem.list["run"].head
           p == [Queue EXCEPT !["run"] = Tail(@)]
           o == PopPcb(mem, "run")
<1>1. /\ n # NULL /\ mem' = o /\ current' = n /\ current = t /\ pc[t] = "reap"
      /\ pc' = [pc EXCEPT ![t] = "dead"] /\ phase' = phase /\ tmp' = tmp
      /\ sems_pending' = sems_pending /\ pc \in [Pcb -> Point]
  BY DEF reap, SwitchTo, NextToRun, At, Running, Goto, wakeVars, QueueInv, TypeOK,
         SchedulerTypeOK
<1>2. "run" \in Ready
  BY DEF Ready
<1>3. /\ n \in Pcb /\ Queues(o, Ready, p) /\ ~Free(Ready, Queue, n)
      /\ \A x : ~Free(Ready, p, x) <=> ~Free(Ready, Queue, x) /\ x # n
      /\ o.list["block"] = mem.list["block"]
  BY <1>1, <1>2, PopStep
<1> HIDE DEF n, p, o
<1>4. pc'[t] = "dead" /\ \A u \in Pcb \ {t} : pc'[u] = pc[u]
  BY <1>1
<1>5. /\ \A u \in Pcb : HasInHand(u)' <=> HasInHand(u)
      /\ ~Live(t)' /\ \A u \in Pcb \ {t} : Live(u)' <=> Live(u)
  BY <1>1, <1>4 DEF HasInHand, Live
<1>6. Alive' = Alive \ {current}
  BY <1>1, <1>5 DEF Alive
<1>7. Hand' = Hand /\ HandsHold' /\ NobodyBlocked'
  BY <1>1, <1>3, <1>5 DEF Hand, HandsHold, NobodyBlocked, QueueInv
<1>8. Placed(Queue, current, Hand, Alive) /\ Hand \in [Pcb -> Ptr] /\ Alive \in SUBSET Pcb
  BY DEF QueueInv, QueuesAre, Hand, Alive, HandsHold, Ptr
<1>9. Placed(p, n, Hand, Alive \ {current})
  BY <1>1, <1>3, <1>8, Reaped
<1>10. Queue' = p /\ p["wait"] = Queue["wait"]
  <2>1. Queue \in [Ready -> Seq(Pcb)]
    BY DEF QueueInv, QueuesAre, Queues
  <2>2. p["wait"] = Queue["wait"]
    BY <2>1 DEF p, Ready
  <2> QED
    BY <1>1, <1>3, <2>2, QueueNextIs
<1> QED
  BY <1>1, <1>3, <1>6, <1>7, <1>9, <1>10, SomeQueuesNext DEF Waiting
\* mutex_unlock takes the first waiter in its hand,
LEMMA PopWaitStep ==
  ASSUME QueueInv, TypeOK', MutexOnly, NEW t \in Pcb, ListBody(t), pc[t] = "pop_wait"
  PROVE  QueueInv' /\ Waiting' \subseteq Waiting
<1> DEFINE n == mem.list["wait"].head
           p == [Queue EXCEPT !["wait"] = Tail(@)]
           o == PopPcb(mem, "wait")
           g == [Hand EXCEPT ![t] = n]
<1>1. /\ n # NULL /\ mem' = o /\ current' = current /\ pc' = pc /\ phase[t] = "locked"
      /\ phase' = [phase EXCEPT ![t] = "done"] /\ tmp' = [tmp EXCEPT ![t] = n]
      /\ sems_pending' = sems_pending /\ phase \in [Pcb -> Phase] /\ tmp \in [Pcb -> Ptr]
  BY DEF ListBody, cpuVars, wakeVars, QueueInv, TypeOK, SchedulerTypeOK
<1>2. "wait" \in Ready
  BY DEF Ready
<1>3. /\ n \in Pcb /\ Queues(o, Ready, p) /\ ~Free(Ready, Queue, n)
      /\ \A x : ~Free(Ready, p, x) <=> ~Free(Ready, Queue, x) /\ x # n
      /\ o.list["block"] = mem.list["block"]
  BY <1>1, <1>2, PopStep
<1> HIDE DEF n, p, o
<1>4. /\ phase'[t] = "done" /\ tmp'[t] = n
      /\ \A u \in Pcb \ {t} : phase'[u] = phase[u] /\ tmp'[u] = tmp[u]
  BY <1>1
<1>5. /\ HasInHand(t)' /\ ~HasInHand(t)
      /\ \A u \in Pcb \ {t} : HasInHand(u)' <=> HasInHand(u)
      /\ \A u \in Pcb : Live(u)' <=> Live(u)
  BY <1>1, <1>4 DEF HasInHand, Live
<1>6. Placed(Queue, current, Hand, Alive) /\ Hand \in [Pcb -> Ptr] /\ Alive \in SUBSET Pcb
  BY DEF QueueInv, QueuesAre, Hand, Alive, HandsHold, Ptr
<1>7. Hand[t] = NULL
  BY <1>5 DEF Hand
<1>8. Alive' = Alive /\ HandsHold' /\ NobodyBlocked'
  BY <1>1, <1>3, <1>4, <1>5 DEF Alive, HandsHold, NobodyBlocked, QueueInv
<1>9. Hand' = g
  <2>1. \A u \in Pcb : Hand'[u] = g[u]
    BY <1>4, <1>5 DEF Hand
  <2>2. Hand' = [u \in Pcb |-> Hand'[u]] /\ g = [u \in Pcb |-> g[u]]
    BY DEF Hand
  <2> QED
    BY <2>1, <2>2, Zenon
<1>10. Placed(p, current, g, Alive)
  BY <1>3, <1>6, <1>7, TakenInHand
<1>11. Waiting' \subseteq Waiting
  <2>1. Queues(mem, Ready, Queue) /\ "wait" \in Ready /\ n = mem.list["wait"].head /\ n # NULL
    BY <1>1 DEF QueueInv, QueuesAre, Ready, n
  <2>2. Queue' = p /\ p["wait"] = Tail(Queue["wait"]) /\ Queue["wait"] \in Seq(Pcb)
    BY <1>1, <1>3, <2>1, QueueNextIs DEF p, Queues
  <2>3. /\ Queue["wait"] # <<>> /\ n = Head(Queue["wait"])
        /\ \A i, j \in 1 .. Len(Queue["wait"]) : Queue["wait"][i] = Queue["wait"][j] => i = j
    BY <2>1 DEF Queues, Linked
  <2>4. \A x : Holds(p["wait"], x) => Holds(Queue["wait"], x)
    BY <2>2, <2>3, HoldsTail
  <2>5. Holds(Queue["wait"], n)
    <3>1. Len(Queue["wait"]) \in Nat \ {0} /\ n = Queue["wait"][1]
      BY <2>2, <2>3, EmptySeq
    <3> QED
      BY <3>1 DEF Holds
  <2>6. \A u \in Pcb : g[u] = Hand[u] \/ g[u] = n
    BY <1>6
  <2> HIDE DEF g
  <2> QED
    BY <1>9, <2>2, <2>4, <2>5, <2>6 DEF Waiting
<1> HIDE DEF g
<1> QED
  BY <1>1, <1>3, <1>8, <1>9, <1>10, <1>11, SomeQueuesNext

\* and puts it at the front of the run queue.
LEMMA PushRunStep ==
  ASSUME QueueInv, TypeOK', MutexOnly, NEW t \in Pcb, ListBody(t), pc[t] = "push_run"
  PROVE  QueueInv' /\ Waiting' \subseteq Waiting
<1> DEFINE n == tmp[t]
           p == [Queue EXCEPT !["run"] = <<n>> \o @]
           o == PushPcb(mem, "run", n)
           g == [Hand EXCEPT ![t] = NULL]
<1>1. /\ mem' = o /\ current' = current /\ pc' = pc /\ phase[t] = "locked"
      /\ phase' = [phase EXCEPT ![t] = "done"] /\ tmp' = tmp
      /\ sems_pending' = sems_pending /\ phase \in [Pcb -> Phase]
      /\ mem \in Memory
  BY DEF ListBody, cpuVars, wakeVars, QueueInv, TypeOK, SchedulerTypeOK
<1>2. "run" \in Ready /\ "run" \in List /\ "block" \in List /\ "run" # "block"
  BY ListAssumption DEF Ready, KernelLists
<1>3. phase'[t] = "done" /\ \A u \in Pcb \ {t} : phase'[u] = phase[u]
  BY <1>1
<1>4. /\ HasInHand(t) /\ ~HasInHand(t)'
      /\ \A u \in Pcb \ {t} : HasInHand(u)' <=> HasInHand(u)
      /\ \A u \in Pcb : Live(u)' <=> Live(u)
  BY <1>1, <1>3 DEF HasInHand, Live
<1>5. /\ Queues(mem, Ready, Queue)
      /\ Placed(Queue, current, Hand, Alive) /\ Hand \in [Pcb -> Ptr] /\ Alive \in SUBSET Pcb
  BY DEF QueueInv, QueuesAre, Hand, Alive, HandsHold, Ptr
<1>6. n \in Pcb /\ Hand[t] = n /\ n # NULL
  BY <1>4, NullAssumption DEF Hand, HandsHold, QueueInv
<1> HIDE DEF n
<1>7. Free(Ready, Queue, n)
  BY <1>5, <1>6 DEF Placed
<1>8. Queues(o, Ready, p)
  BY <1>1, <1>2, <1>5, <1>6, <1>7, PushQueues
<1>9. \A x : ~Free(Ready, p, x) <=> ~Free(Ready, Queue, x) \/ x = n
  <2>1. Queue \in [Ready -> Seq(Pcb)]
    BY <1>5 DEF Queues
  <2> QED
    BY <2>1, <1>2, <1>6, PushOn
<1>10. o.list["block"] = mem.list["block"]
  BY <1>1, <1>2, <1>6, PushEffect DEF Put
<1>14. Queue' = p /\ p["wait"] = Queue["wait"]
  BY <1>1, <1>5, <1>8, QueueNextIs DEF Queues, Ready
<1> HIDE DEF p, o
<1>11. Alive' = Alive /\ HandsHold' /\ NobodyBlocked'
  BY <1>1, <1>4, <1>10 DEF Alive, HandsHold, NobodyBlocked, QueueInv
<1>12. Hand' = g
  <2>1. \A u \in Pcb : Hand'[u] = g[u]
    BY <1>1, <1>4 DEF Hand
  <2>2. Hand' = [u \in Pcb |-> Hand'[u]] /\ g = [u \in Pcb |-> g[u]]
    BY DEF Hand
  <2> QED
    BY <2>1, <2>2, Zenon
<1>13. Placed(p, current, g, Alive)
  BY <1>5, <1>6, <1>9, PutFromHand
<1>15. Waiting' \subseteq Waiting
  <2>1. \A u \in Pcb : g[u] = Hand[u] \/ g[u] = NULL
    BY <1>5
  <2> HIDE DEF g
  <2> QED
    BY <1>12, <1>14, <2>1, NullAssumption DEF Waiting
<1> HIDE DEF g
<1> QED
  BY <1>1, <1>8, <1>11, <1>12, <1>13, <1>15, SomeQueuesNext

\* schedule() switches to the next thread, or finds none and returns.
LEMMA ScheduleStep ==
  ASSUME QueueInv, TypeOK', Schedule
  PROVE  QueueInv' /\ Waiting' \subseteq Waiting
<1> USE DEF cpuVars, listVars, wakeVars
<1>1. CASE Tick
  BY <1>1, NoneGoes, MovesNobodyInv DEF Tick
<1>2. CASE schedule
  <2>1. UNCHANGED <<sems_pending, tmp, pc, phase>>
    BY <1>2 DEF schedule
  <2>2. \A u \in Pcb : (Live(u)' <=> Live(u)) /\ (HasInHand(u)' <=> HasInHand(u))
    BY <2>1 DEF Live, HasInHand
  <2>3. CASE UNCHANGED <<mem, current>>
    BY <2>1, <2>3, NoneGoes, MovesNobodyInv
  <2>4. CASE SwitchOut(current, "run")
    BY <2>1, <2>2, <2>4, SwitchStep DEF Ready
  <2> QED
    BY <1>2, <2>3, <2>4 DEF schedule
<1>3. CASE SwitchesToNothing
  BY <1>3, CrashMovesNobody, MovesNobodyInv DEF SwitchesToNothing
<1>4. CASE CheckBlockeds
  BY <1>4 DEF CheckBlockeds, check_blockeds, QueueInv, NobodyBlocked
<1> QED
  BY <1>1, <1>2, <1>3, <1>4 DEF Schedule, SchedulerStep

LEMMA ThreadStepInv ==
  ASSUME QueueInv, TypeOK', MutexOnly, NEW t \in Pcb, Thread(t)
  PROVE  QueueInv' /\ Waiting' \subseteq IF Sleep(t) THEN Waiting \cup {t} ELSE Waiting
<1>0. TypeOK
  BY DEF QueueInv
<1>1. CASE Sleep(t)
  <2>1. /\ current = t /\ pc[t] = "sleep" /\ pc' = [pc EXCEPT ![t] = "op"]
        /\ SwitchOut(current, "wait") /\ pc \in [Pcb -> Point]
        /\ UNCHANGED <<sems_pending, tmp, phase>>
    BY <1>0, <1>1 DEF Sleep, At, Running, Goto, wakeVars, TypeOK, SchedulerTypeOK
  <2>2. pc'[t] = "op" /\ \A u \in Pcb \ {t} : pc'[u] = pc[u]
    BY <2>1
  <2>3. \A u \in Pcb : (Live(u)' <=> Live(u)) /\ (HasInHand(u)' <=> HasInHand(u))
    BY <2>1, <2>2 DEF Live, HasInHand
  <2> QED
    <3>1. QueueInv' /\ Waiting' \subseteq Waiting \cup {current}
      BY <2>1, <2>3, SwitchStep DEF Ready
    <3> QED
      BY <1>1, <2>1, <3>1
<1>2. CASE reap(t)
  BY <1>2, ReapStep
<1>3. CASE ListBody(t)
  <2>1. pc[t] \in DOMAIN CalledList
    BY <1>0, <1>3 DEF ListBody, TypeOK, PointsOK
  <2>2. pc[t] = "pop_wait" \/ pc[t] = "push_run"
    BY <1>0, <2>1, MutexPoints, Tables DEF MutexPoint
  <2> QED
    BY <1>3, <2>2, PopWaitStep, PushRunStep
<1>4. CASE ~Sleep(t) /\ ~reap(t) /\ ~ListBody(t)
  <2>1. MovesNobody
    BY <1>0, <1>4, MutexMovesNobody, SchedulerMovesNobody, NoSemThread DEF Thread
  <2> QED
    BY <2>1, MovesNobodyInv
<1> QED
  BY <1>1, <1>2, <1>3, <1>4

LEMMA QueueNext == MutexOnly /\ QueueInv /\ [Next]_vars => QueueInv'
<1> SUFFICES ASSUME MutexOnly, QueueInv, [Next]_vars PROVE QueueInv'
  OBVIOUS
<1>1. TypeOK'
  BY NextType DEF QueueInv
<1>2. CASE UNCHANGED vars
  BY <1>1, <1>2, NoneGoes, MovesNobodyInv
  DEF vars, schedVars, listVars, cpuVars, wakeVars
<1> QED
  BY <1>1, <1>2, ScheduleStep, ThreadStepInv DEF Next
\* The boot sequence leaves the threads of Boot on the run queue.
LEMMA BootQueues == Queues(BootMemory, Ready, [l \in Ready |-> IF l = "run" THEN Boot ELSE <<>>])
<1> DEFINE q       == [l \in Ready |-> IF l = "run" THEN Boot ELSE <<>>]
           boot(i) == IF i \in DOMAIN Boot THEN Boot[i] ELSE NULL
           n       == Len(Boot)
           m       == BootMemory
<1>1. /\ n \in Nat /\ DOMAIN Boot = 1 .. n /\ Boot \in Seq(Pcb)
      /\ \A i \in 1 .. n : Boot[i] \in Pcb /\ Boot[i] # Main
      /\ \A i, j \in 1 .. n : Boot[i] = Boot[j] => i = j
      /\ Boot = <<>> <=> n = 0
  BY BootAssumption, EmptySeq
<1>2. Ready \subseteq List /\ "run" \in List /\ "wait" \in List /\ "run" # "wait"
  BY ListAssumption DEF Ready, KernelLists
<1>3. q \in [Ready -> Seq(Pcb)] /\ q["run"] = Boot /\ q["wait"] = <<>>
  BY <1>1, EmptySeq DEF Ready
<1>4. /\ m.list["run"] = [head |-> boot(1), tail |-> boot(n), size |-> n]
      /\ m.list["wait"] = EmptyHeader
  BY <1>2 DEF BootMemory
<1>5. ASSUME NEW i \in 1 .. n
      PROVE  m.link[Boot[i]].next = boot(i + 1) /\ m.link[Boot[i]].container = "run"
  <2>1. \E j \in DOMAIN Boot : Boot[j] = Boot[i]
    BY <1>1
  <2>2. (CHOOSE j \in DOMAIN Boot : Boot[j] = Boot[i]) = i
    BY <1>1
  <2>3. m.link[Boot[i]] = [next |-> boot(i + 1), prev |-> boot(i - 1), container |-> "run"]
    BY <1>1, <2>1, <2>2 DEF BootMemory
  <2> QED
    BY <2>3
<1>6. \A p \in Pcb : m.link[p].container \in Ready =>
                       m.link[p].container = "run" /\ \E i \in 1 .. n : Boot[i] = p
  <2> SUFFICES ASSUME NEW p \in Pcb, m.link[p].container \in Ready
               PROVE  m.link[p].container = "run" /\ \E i \in 1 .. n : Boot[i] = p
    OBVIOUS
  <2>1. p # Main
    <3>1. p = Main => m.link[p].container = "all"
      BY DEF BootMemory
    <3> QED
      BY <3>1 DEF Ready
  <2>2. \E i \in DOMAIN Boot : Boot[i] = p
    <3>1. ~(\E i \in DOMAIN Boot : Boot[i] = p) => m.link[p].container = NULL
      BY <2>1 DEF BootMemory, NoLinks
    <3> QED
      BY <3>1, <1>2, NullAssumption
  <2> QED
    BY <2>2, <1>1, <1>5
<1> HIDE DEF m, q
<1>7. Linked(m, "run", Boot)
  <2>1. n = 0 => boot(1) = NULL /\ boot(n) = NULL
    BY <1>1
  <2>2. n # 0 => boot(1) = Boot[1] /\ boot(n) = Boot[n]
    BY <1>1
  <2>3. ASSUME NEW i \in 1 .. n
        PROVE  boot(i + 1) = IF i = n THEN NULL ELSE Boot[i + 1]
    <3>1. CASE i = n
      <4>1. i + 1 \notin DOMAIN Boot
        BY <1>1, <3>1
      <4> QED
        BY <4>1, <3>1
    <3>2. CASE i # n
      <4>0. n \in Nat
        BY <1>1
      <4>1. i + 1 \in 1 .. n
        <5> HIDE DEF n
        <5> QED
          BY <4>0, <3>2
      <4>2. i + 1 \in DOMAIN Boot
        BY <1>1, <4>1, Zenon
      <4> QED
        BY <4>2, <3>2
    <3> QED
      BY <3>1, <3>2
  <2> HIDE DEF boot
  <2>4. \A i \in 1 .. n : /\ m.link[Boot[i]].next = IF i = n THEN NULL ELSE Boot[i + 1]
                          /\ m.link[Boot[i]].container = "run"
    BY <1>5, <2>3
  <2>5. m.list["run"].head = boot(1) /\ m.list["run"].tail = boot(n) /\ m.list["run"].size = n
    BY <1>4
  <2> QED
    BY <1>1, <2>1, <2>2, <2>4, <2>5 DEF Linked
<1>8. Linked(m, "wait", <<>>)
  BY <1>4, EmptySeq DEF Linked, EmptyHeader
<1>9. \A l \in Ready : Linked(m, l, q[l])
  BY <1>3, <1>7, <1>8 DEF Ready
<1>10. \A l \in Ready : \A i, j \in 1 .. Len(q[l]) : q[l][i] = q[l][j] => i = j
  <2>1. \A i, j \in 1 .. Len(<<>>) : <<>>[i] = <<>>[j] => i = j
    BY EmptySeq
  <2> QED
    BY <1>1, <1>3, <2>1 DEF Ready
<1>11. \A p \in Pcb : m.link[p].container \in Ready => Holds(q[m.link[p].container], p)
  BY <1>3, <1>6 DEF Holds
<1>12. Queues(m, Ready, q)
  BY <1>2, <1>3, <1>9, <1>10, <1>11 DEF Queues
<1> QED
  BY <1>12 DEF m, q

LEMMA QueueInit == Init => QueueInv
<1> SUFFICES ASSUME Init PROVE QueueInv
  OBVIOUS
<1> DEFINE q == [l \in Ready |-> IF l = "run" THEN Boot ELSE <<>>]
<1>1. mem = BootMemory /\ current = Main /\ sems_pending = {} /\ TypeOK
  BY InitType DEF Init, SchedulerInit
<1>2. Queues(mem, Ready, q)
  BY <1>1, BootQueues
<1>3. NobodyBlocked
  BY <1>1, ListAssumption DEF NobodyBlocked, BootMemory, KernelLists
<1>4. \A u \in Pcb : ~HasInHand(u)
  BY DEF Init, SchedulerInit, HasInHand
<1>5. HandsHold /\ \A u \in Pcb : Hand[u] = NULL
  BY <1>4 DEF HandsHold, Hand
<1>6. DOMAIN Boot = 1 .. Len(Boot) /\ Main \in Pcb
      /\ \A i \in 1 .. Len(Boot) : Boot[i] \in Pcb /\ Boot[i] # Main
  BY BootAssumption
<1>7. Alive = {Main} \cup {Boot[i] : i \in 1 .. Len(Boot)}
  BY <1>6 DEF Alive, Live, Init, SchedulerInit, Booted
<1>8. \A t : ~Free(Ready, q, t) <=> \E i \in 1 .. Len(Boot) : Boot[i] = t
  <2>1. q["run"] = Boot /\ q["wait"] = <<>> /\ Len(<<>>) = 0
    BY EmptySeq DEF Ready
  <2> HIDE DEF q
  <2> QED
    BY <2>1 DEF Free, Holds, Ready
<1> HIDE DEF q
<1>9. Placed(q, current, Hand, Alive)
  BY <1>1, <1>5, <1>6, <1>7, <1>8 DEF Placed
<1> QED
  BY <1>1, <1>2, <1>3, <1>5, <1>9, SomeQueues DEF QueuesAre

LEMMA QueueAlways ==
  ASSUME MutexOnly
  PROVE  Spec => []QueueInv
<1> QED
  BY QueueInit, QueueNext, PTL DEF Spec
-----------------------------------------------------------------------------
(* Theorems: the threads and the queues.                                   *)

\* Whatever the number of threads and wherever they are interrupted, a live
\* thread is on the CPU, on one queue once, or in the hand of the one that moves
\* it (process.c:42-48, 98-103, 222-227, 242-244).
THEOREM ThreadsInOnePlace ==
  ASSUME MutexOnly
  PROVE  Spec => []NoThreadLost
<1> QED
  BY QueueAlways, OnePlace, PTL

\* The sizes and the tails of the queues, which process.c:94, 140 and 242 test,
\* agree with their chains (list.h:64-104).
THEOREM QueuesConsistent ==
  ASSUME MutexOnly
  PROVE  Spec => []QueueConsistent
<1> QED
  BY QueueAlways, HeadersFollow, PTL

\* No switch gives the CPU to a pcb that was freed (process.c:158) or was never
\* made.
THEOREM RunsTheLiving ==
  ASSUME MutexOnly
  PROVE  Spec => []CurrentIsLive
<1>1. QueueInv => CurrentIsLive
  BY DEF QueueInv, QueuesAre, Placed, Alive, CurrentIsLive
<1> QED
  BY <1>1, QueueAlways, PTL

-----------------------------------------------------------------------------
(* A thread that is always ready: the empty thread.                        *)

\* e, created at boot, does nothing but loop.
Loops(e) == /\ e \in Booted /\ e \in Pcb
            /\ \A i \in DOMAIN Prog[e] : Prog[e][i].op \in {"busy", "goto"}

ReadyInv(e) ==
  /\ QueueInv
  /\ pc[e] = "op" /\ e \notin Waiting
  /\ isr = "yield" => current # e
  /\ IrqsOnInThreads
  /\ NullOnlyInUnlock

\* So the run queue has an element whenever e does not run,
LEMMA SomebodyReady ==
  ASSUME NEW e \in Pcb, ReadyInv(e), current # e
  PROVE  mem.list["run"].head # NULL /\ mem.list["run"].size # 0
<1>1. /\ Queues(mem, Ready, Queue) /\ Placed(Queue, current, Hand, Alive)
      /\ e \in Alive /\ e \notin Waiting
  BY DEF ReadyInv, QueueInv, QueuesAre, Alive, Live
<1>2. ~Free(Ready, Queue, e) /\ ~Holds(Queue["wait"], e)
  BY <1>1 DEF Placed, Waiting
<1>3. Holds(Queue["run"], e)
  BY <1>2 DEF Free, Ready
<1>4. Queue["run"] \in Seq(Pcb) /\ Linked(mem, "run", Queue["run"])
  BY <1>1 DEF Queues, Ready
<1>5. Len(Queue["run"]) \in Nat \ {0} /\ Queue["run"] # <<>> /\ Queue["run"][1] \in Pcb
  <2>1. PICK i \in 1 .. Len(Queue["run"]) : Queue["run"][i] = e
    BY <1>3 DEF Holds
  <2>2. Len(Queue["run"]) \in Nat
    BY <1>4, LenProperties
  <2>3. Len(Queue["run"]) # 0
    BY <2>1, <2>2
  <2> QED
    BY <2>2, <2>3, <1>4, EmptySeq, LenProperties
<1> QED
  BY <1>4, <1>5, NullAssumption DEF Linked

\* and a size is never without a head.
LEMMA SizeHasHead ==
  ASSUME QueueInv, mem.list["run"].size # 0
  PROVE  mem.list["run"].head # NULL
<1>1. Queue["run"] \in Seq(Pcb) /\ Linked(mem, "run", Queue["run"])
  BY DEF QueueInv, QueuesAre, Queues, Ready
<1>2. Queue["run"] # <<>>
  BY <1>1, EmptySeq DEF Linked
<1>3. Queue["run"][1] \in Pcb
  BY <1>1, <1>2, EmptySeq, LenProperties
<1> QED
  BY <1>1, <1>2, <1>3, NullAssumption DEF Linked

\* e itself does nothing but jump.
LEMMA LoopsOnly ==
  ASSUME NEW e \in Pcb, Loops(e), TypeOK, MutexOnly, pc[e] = "op", Thread(e)
  PROVE  Jump(e)
<1>1. ip[e] \in DOMAIN Prog[e]
  BY DEF TypeOK, PointsOK
<1>2. Call(e).op \in {"busy", "goto"}
  BY <1>1 DEF Loops, Call
<1>3. pc[e] \notin DOMAIN CalledList /\ phase[e] = "enter"
  BY Tables DEF TypeOK, PointsOK
<1>4. ~MutexThread(e)
  BY <1>2 DEF MutexThread, try_lock, SetLocker, DisableToSleep, Sleep, SleepsAlone,
              mutex_unlock, ClearLocker, TestWaitQueue, At, Calls
<1>5. SchedulerThread(e)
  BY <1>4, NoSemThread DEF Thread
<1> QED
  BY <1>2, <1>3, <1>5 DEF SchedulerThread, yield, create_kernel_thread, get_line, Return, reap,
              SpinLock, ListBody, PopsNothing, SpinUnlock, At, Calls

\* What a step of t does to the points, the mask and the fault.
LEMMA ThreadEffects ==
  ASSUME TypeOK, MutexOnly, NEW t \in Pcb, Thread(t), IrqsOnInThreads
  PROVE  /\ current = t /\ isr = "none" /\ ~fault
         /\ \A u \in Pcb \ {t} : pc'[u] = pc[u]
         /\ isr' \in {"none", "yield"}
         /\ isr' = "yield" => Call(t).op = "yield" /\ current' = t
         /\ isr' = "none" /\ ~irq' => current' = t /\ pc'[t] \in {"sleep", "reap"}
         /\ fault' => \/ pc[t] = "pop_wait" /\ pc' = pc /\ current' = t
                      \/ pc[t] = "sleep" /\ mem.list["run"].head = NULL
<1> USE DEF cpuVars, At, Calls, Running, Goto, NextCall, IrqsOnInThreads
<1>0. pc \in [Pcb -> Point] /\ irq \in BOOLEAN /\ fault \in BOOLEAN
  BY DEF TypeOK, SchedulerTypeOK
<1>1. CASE yield(t)
  BY <1>0, <1>1 DEF yield
<1>2. CASE create_kernel_thread(t)
  BY <1>2, MutexPoints DEF create_kernel_thread
<1>3. CASE Jump(t)
  BY <1>0, <1>3 DEF Jump
<1>4. CASE get_line(t)
  BY <1>0, <1>4 DEF get_line
<1>5. CASE Return(t)
  BY <1>0, <1>5 DEF Return
<1>6. CASE reap(t)
  BY <1>0, <1>6 DEF reap, SwitchTo
<1>7. CASE SpinLock(t)
  BY <1>0, <1>7, Tables DEF SpinLock
<1>8. CASE ListBody(t)
  <2>1. pc[t] \in DOMAIN CalledList /\ pc' = pc /\ UNCHANGED <<current, isr, irq, fault>> /\ Running(t)
    BY <1>8 DEF ListBody, TypeOK, PointsOK
  <2> QED
    BY <1>0, <2>1, Tables
<1>9. CASE PopsNothing(t)
  BY <1>0, <1>9 DEF PopsNothing, Crash
<1>10. CASE SpinUnlock(t)
  <2>1. pc[t] \in DOMAIN CalledList /\ UNCHANGED <<current, isr, irq, fault>> /\ Running(t)
    BY <1>10 DEF SpinUnlock, TypeOK, PointsOK
  <2>2. \A u \in Pcb \ {t} : pc'[u] = pc[u]
    BY <1>0, <1>10 DEF SpinUnlock
  <2> QED
    BY <1>0, <2>1, <2>2, Tables
<1>11. CASE try_lock(t)
  BY <1>0, <1>11 DEF try_lock
<1>12. CASE SetLocker(t)
  BY <1>0, <1>12 DEF SetLocker
<1>13. CASE DisableToSleep(t)
  BY <1>0, <1>13 DEF DisableToSleep
<1>14. CASE Sleep(t)
  BY <1>0, <1>14 DEF Sleep, SwitchOut, SwitchTo
<1>15. CASE SleepsAlone(t)
  BY <1>0, <1>15 DEF SleepsAlone, Crash, NobodyToRun, NextToRun
<1>16. CASE mutex_unlock(t)
  BY <1>0, <1>16 DEF mutex_unlock
<1>17. CASE ClearLocker(t)
  BY <1>0, <1>17 DEF ClearLocker
<1>18. CASE TestWaitQueue(t)
  BY <1>0, <1>18 DEF TestWaitQueue
<1>19. SchedulerThread(t) \/ MutexThread(t)
  BY NoSemThread DEF Thread
<1> QED
  BY <1>1, <1>2, <1>3, <1>4, <1>5, <1>6, <1>7, <1>8, <1>9, <1>10, <1>11, <1>12, <1>13, <1>14,
     <1>15, <1>16, <1>17, <1>18, <1>19 DEF SchedulerThread, MutexThread
LEMMA ReadyThread ==
  ASSUME MutexOnly, NEW e \in Pcb, Loops(e), ReadyInv(e), NEW t \in Pcb, Thread(t)
  PROVE  ReadyInv(e)'
<1>1. QueueInv /\ TypeOK /\ IrqsOnInThreads /\ TypeOK'
  BY NextType DEF ReadyInv, QueueInv, Next
<1>2. /\ current = t /\ isr = "none" /\ ~fault
      /\ \A u \in Pcb \ {t} : pc'[u] = pc[u]
      /\ isr' \in {"none", "yield"}
      /\ isr' = "yield" => Call(t).op = "yield" /\ current' = t
      /\ isr' = "none" /\ ~irq' => current' = t /\ pc'[t] \in {"sleep", "reap"}
      /\ fault' => \/ pc[t] = "pop_wait" /\ pc' = pc /\ current' = t
                   \/ pc[t] = "sleep" /\ mem.list["run"].head = NULL
  BY <1>1, ThreadEffects
<1>3. QueueInv' /\ Waiting' \subseteq IF Sleep(t) THEN Waiting \cup {t} ELSE Waiting
  BY <1>1, ThreadStepInv
<1>4. pc'[e] = "op"
  <2>1. CASE t = e
    BY <2>1, <1>1, LoopsOnly DEF Jump, ReadyInv
  <2>2. CASE t # e
    BY <2>2, <1>2 DEF ReadyInv
  <2> QED
    BY <2>1, <2>2
<1>5. e \notin Waiting'
  <2>1. Sleep(t) => t # e
    BY DEF Sleep, At, ReadyInv
  <2> QED
    BY <2>1, <1>3 DEF ReadyInv
<1>6. isr' = "yield" => current' # e
  <2>1. t = e => Jump(t)
    BY <1>1, LoopsOnly DEF ReadyInv
  <2>2. Jump(t) => Call(t).op = "goto"
    BY DEF Jump, Calls
  <2> QED
    BY <2>1, <2>2, <1>2
<1>7. IrqsOnInThreads'
  BY <1>2 DEF IrqsOnInThreads
<1>8. NullOnlyInUnlock'
  <2>1. pc[t] = "sleep" => mem.list["run"].head # NULL
    BY <1>2, SomebodyReady DEF ReadyInv
  <2> QED
    BY <2>1, <1>2 DEF NullOnlyInUnlock
<1> QED
  BY <1>3, <1>4, <1>5, <1>6, <1>7, <1>8 DEF ReadyInv

LEMMA ReadySchedule ==
  ASSUME MutexOnly, NEW e \in Pcb, Loops(e), ReadyInv(e), Schedule
  PROVE  ReadyInv(e)'
<1>1. QueueInv /\ TypeOK' /\ sems_pending = {}
  BY NextType DEF ReadyInv, QueueInv, Next, NobodyBlocked
<1>2. QueueInv' /\ Waiting' \subseteq Waiting
  BY <1>1, ScheduleStep
<1>3. CASE Tick
  BY <1>2, <1>3 DEF Tick, ReadyInv, IrqsOnInThreads, NullOnlyInUnlock, cpuVars
<1>4. CASE schedule
  <2>1. isr # "none" /\ ~fault /\ isr' = "none" /\ UNCHANGED <<fault, pc>>
        /\ isr \in {"none", "tick", "yield"}
    BY <1>1, <1>4 DEF schedule, QueueInv, TypeOK, SchedulerTypeOK
  <2>2. irq' = TRUE
    <3>1. CASE mem.list["run"].size = 0 /\ irq' = (isr = "tick")
      <4>1. current = e
        BY <3>1, SomebodyReady
      <4> QED
        BY <2>1, <3>1, <4>1 DEF ReadyInv
    <3>2. CASE SwitchOut(current, "run")
      BY <3>2 DEF SwitchOut, SwitchTo
    <3> QED
      BY <1>4, <3>1, <3>2 DEF schedule
  <2> QED
    BY <1>2, <2>1, <2>2 DEF ReadyInv, IrqsOnInThreads, NullOnlyInUnlock
<1>5. CASE SwitchesToNothing
  BY <1>1, <1>5, SizeHasHead DEF SwitchesToNothing, NobodyToRun, NextToRun
<1>6. CASE CheckBlockeds
  BY <1>1, <1>6 DEF CheckBlockeds, check_blockeds
<1> QED
  BY <1>3, <1>4, <1>5, <1>6 DEF Schedule, SchedulerStep

LEMMA ReadyNext ==
  ASSUME MutexOnly, NEW e \in Pcb, Loops(e)
  PROVE  ReadyInv(e) /\ [Next]_vars => ReadyInv(e)'
<1> SUFFICES ASSUME ReadyInv(e), [Next]_vars PROVE ReadyInv(e)'
  OBVIOUS
<1>1. CASE UNCHANGED vars
  <2> USE DEF vars, schedVars, listVars, cpuVars, wakeVars
  <2>1. QueueInv /\ TypeOK' /\ MovesNobody
    BY <1>1, NextType, NoneGoes DEF ReadyInv, QueueInv
  <2>2. QueueInv' /\ Waiting' = Waiting
    BY <2>1, MovesNobodyInv
  <2> QED
    BY <1>1, <2>2 DEF ReadyInv, IrqsOnInThreads, NullOnlyInUnlock
<1> QED
  BY <1>1, ReadySchedule, ReadyThread DEF Next

LEMMA ReadyInit ==
  ASSUME NEW e \in Pcb, Loops(e)
  PROVE  Init => ReadyInv(e)
<1> SUFFICES ASSUME Init PROVE ReadyInv(e)
  OBVIOUS
<1>1. QueueInv /\ Queue = [l \in Ready |-> IF l = "run" THEN Boot ELSE <<>>]
  BY QueueInit, BootQueues, QueueIs DEF Init, SchedulerInit
<1>2. Queue["wait"] = <<>>
  BY <1>1 DEF Ready
<1>3. \A t : ~Holds(Queue["wait"], t)
  BY <1>2, EmptySeq DEF Holds
<1>4. \A u \in Pcb : Hand[u] = NULL
  BY DEF Hand, HasInHand, Init, SchedulerInit
<1>5. e \notin Waiting
  BY <1>3, <1>4, NullAssumption DEF Waiting
<1>6. pc[e] = "op"
  BY DEF Init, SchedulerInit, Loops
<1> QED
  BY <1>1, <1>5, <1>6
  DEF ReadyInv, IrqsOnInThreads, NullOnlyInUnlock, Init, SchedulerInit

LEMMA ReadyAlways ==
  ASSUME MutexOnly, NEW e \in Pcb, Loops(e)
  PROVE  Spec => [](IrqsOnInThreads /\ NullOnlyInUnlock)
<1>1. Init => ReadyInv(e)
  BY ReadyInit
<1>2. ReadyInv(e) /\ [Next]_vars => ReadyInv(e)'
  BY ReadyNext
<1>3. ReadyInv(e) => IrqsOnInThreads /\ NullOnlyInUnlock
  BY DEF ReadyInv
<1> QED
  BY <1>1, <1>2, <1>3, PTL DEF Spec

\* One of the threads of the boot sequence loops for ever (kernel.c:71, 118).
SomebodyLoops == \E e \in Pcb : Loops(e)

\* With a thread that is always ready, schedule() never returns to a thread with
\* IRQs disabled (process.c:94).
THEOREM ThreadsRunInterruptible ==
  ASSUME MutexOnly, SomebodyLoops
  PROVE  Spec => []IrqsOnInThreads
<1>1. PICK e \in Pcb : Loops(e)
  BY DEF SomebodyLoops
<1>2. Spec => [](IrqsOnInThreads /\ NullOnlyInUnlock)
  BY <1>1, ReadyAlways
<1> QED
  BY <1>2, PTL

\* With such a thread only mutex_unlock can pop an empty list (process.c:242-244).
THEOREM PopsNothingElsewhere ==
  ASSUME MutexOnly, SomebodyLoops
  PROVE  Spec => []NullOnlyInUnlock
<1>1. PICK e \in Pcb : Loops(e)
  BY DEF SomebodyLoops
<1>2. Spec => [](IrqsOnInThreads /\ NullOnlyInUnlock)
  BY <1>1, ReadyAlways
<1> QED
  BY <1>2, PTL
=============================================================================
