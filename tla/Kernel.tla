------------------------------- MODULE Kernel -------------------------------
(***************************************************************************)
(* The running kernel: kernel_main's threads under the scheduler, with the *)
(* mutex input_lock and the semaphores, from the end of the boot sequence. *)
(* One CPU executes one step at a time: a step of the current thread, of   *)
(* schedule(), or the timer interrupt.                                     *)
(***************************************************************************)
EXTENDS Mutex, Semaphore

vars == <<schedVars, mutexVars, semVars>>

\* The call in whose code a point lies.
CallAt == [own |-> "lock", dis |-> "lock", sleep |-> "lock",
           clear_locker |-> "unlock", test_wait |-> "unlock",
           pop_wait |-> "unlock", push_run |-> "unlock",
           app_all |-> "create", app_run |-> "create",
           store_dec |-> "wait", test_dec |-> "wait", set_id |-> "wait",
           dis_block |-> "wait", block |-> "wait",
           store_inc |-> "signal", test_inc |-> "signal", load_head |-> "signal",
           walk |-> "signal", advance |-> "signal",
           rem_block |-> "signal", clear_id |-> "signal", app_woken |-> "signal",
           load_pending |-> "signal", store_pending |-> "signal",
           reap |-> "return", dead |-> "return"]

\* A thread is where its call has it, and in the spin lock of a list only while
\* it calls one of the list's functions.
PointsOK ==
  \A t \in Pcb :
    /\ ip[t] \in DOMAIN Prog[t]
    /\ pc[t] = "none" => ip[t] = 1
    /\ pc[t] \in DOMAIN CallAt => Call(t).op = CallAt[pc[t]]
    /\ phase[t] # "enter" => pc[t] \in DOMAIN CalledList

\* Every variable has its type, every thread is at a point of its program.
TypeOK == SchedulerTypeOK /\ MutexTypeOK /\ SemTypeOK /\ PointsOK

Init == SchedulerInit /\ MutexInit /\ SemInit

Thread(t) ==
  \/ SchedulerThread(t) /\ UNCHANGED <<mutexVars, semVars>>
  \/ MutexThread(t) /\ UNCHANGED semVars
  \/ SemThread(t) /\ UNCHANGED mutexVars

Schedule ==
  \/ SchedulerStep /\ UNCHANGED <<mutexVars, semVars>>
  \/ CheckBlockeds /\ UNCHANGED mutexVars

Next == Schedule \/ \E t \in Pcb : Thread(t)

Spec == Init /\ [][Next]_vars

\* The CPU executes: a step that can be taken is taken.  Nobody has to press
\* enter, so get_line may poll for ever, like the loop of the empty thread.
Step(t) == Thread(t) /\ ~Calls(t, "poll")

CpuStep == \/ (schedule \/ SwitchesToNothing) /\ UNCHANGED <<mutexVars, semVars>>
           \/ CheckBlockeds /\ UNCHANGED mutexVars
           \/ \E t \in Pcb : Step(t)

\* A timer match stays pending while IRQs are masked and interrupts in the end.
TimerStep == Tick /\ UNCHANGED <<mutexVars, semVars>>

FairSpec == Spec /\ WF_vars(CpuStep) /\ SF_vars(TimerStep)

\* A quantum is long enough for a thread to get on.
ThreadFairSpec == FairSpec /\ \A t \in Pcb : SF_vars(Step(t))

-----------------------------------------------------------------------------
(* Where the threads are.                                                  *)

\* The k-th pcb of list l, from head along next, NULL after the last one.  A
\* chain longer than the number of pcbs runs in a circle.
Chain(l) ==
  LET hop[k \in 0 .. Cardinality(Pcb)] ==
        IF k = 0 THEN mem.list[l].head ELSE NextOf(mem, hop[k - 1])
  IN  hop

\* u has taken a pcb off a list, or made it, and has not yet put it on the next.
HasInHand(u) ==
  \/ pc[u] \in {"pop_wait", "rem_block"} /\ phase[u] = "done"
  \/ pc[u] \in {"app_all", "clear_id"}
  \/ pc[u] \in {"push_run", "app_run", "app_woken"} /\ phase[u] # "done"

Live(t) == pc[t] \notin {"none", "dead"}

\* The places where t is to be found.
Places(t) ==
  {<<"cpu", 0>> : u \in {current} \cap {t}}
  \cup {<<"hand", u>> : u \in {v \in Pcb : HasInHand(v) /\ tmp[v] = t}}
  \cup UNION {LET chain == Chain(l)
               IN  {<<l, k>> : k \in {j \in DOMAIN chain : chain[j] = t}} :
              l \in {"run", "block", "wait"}}

-----------------------------------------------------------------------------
(* Safety.                                                                 *)

\* At most one thread is between its successful try_lock and the store that
\* frees the lock (process.c:218-238), and the word is 0 all that time.
MutualExclusion ==
  \A t \in Pcb : Owns(t) => lock = 0 /\ \A u \in Pcb : Owns(u) => u = t

\* The mutex keeps the promise of Exclusion, whichever call, switch or
\* interrupt comes between try_lock and the store that frees the lock.
Owners == {t \in Pcb : Owns(t)}

L == INSTANCE Exclusion WITH Threads <- Pcb, inside <- Owners
LockSpec == L!OneAtATime

\* The locker field is written after the lock is taken and cleared after it is
\* free again (process.c:233, 239), so a late clear may wipe out the next
\* owner's entry; but it never names a thread that has gone: the one it names
\* has the lock or is about to clear the field.
LockerIsOwner == locker # NULL => Owns(locker) \/ pc[locker] = "clear_locker"

\* Through every switch, sleep and wake-up (process.c:42-48, 98-103, 142-148,
\* 222-227, 242-244), preempted anywhere, a thread that has been created and
\* not reaped is in exactly one place: on the CPU, on exactly one queue once,
\* or in the hands of a thread that moves it.
NoThreadLost == \A t \in Pcb : Live(t) => Cardinality(Places(t)) = 1

\* A pcb that has been freed (process.c:158), or was never made, never gets the
\* CPU, although reap() leaves it linked on all_proc_list, whose next append
\* writes to its fields (process.c:193, list.h:66).
CurrentIsLive == Live(current)

\* The size and the tail of a queue agree with its chain (list.h:66-74, 80-87,
\* 97-104), on which the tests at process.c:94, 140 and 242 rely.
QueueConsistent ==
  \A l \in {"run", "wait"} :
    LET chain  == Chain(l)
        queued == {k \in DOMAIN chain : chain[k] # NULL}
        n      == Cardinality(queued)
    IN  /\ queued = 0 .. n - 1
        /\ mem.list[l].size = n
        /\ mem.list[l].tail = IF n = 0 THEN NULL ELSE chain[n - 1]

\* While some thread is always ready to run, a thread's own code runs with
\* IRQs disabled only on its way off the CPU: schedule() never takes the early
\* return (process.c:94) that leaves them disabled after yield().
IrqsOnInThreads ==
  ~irq /\ isr = "none" => pc[current] \in {"sleep", "block", "reap"}

\* With such a thread mutex_lock and block always find a thread to run.  The only
\* one who may pop an empty list (list.h:98) is mutex_unlock, which tests the wait
\* queue (process.c:242) and pops it in two steps: two unlockers may want one waiter.
NullOnlyInUnlock == fault => pc[current] = "pop_wait"

\* A sem_signal wakes at most one thread, but leaves the bit of its semaphore
\* set in sems_pending (process.c:64), with which check_blockeds wakes another
\* one that nobody signalled.  It never gets worse than that: with one
\* semaphore at most two threads are woken for every signal.
SpuriousWakesBounded ==
  NSems = 1 => wakes + Cardinality(sems_pending) <= 2 * signals

-----------------------------------------------------------------------------
(* Liveness.                                                               *)

Queued(t) == \E k \in 0 .. Cardinality(Pcb) : Chain("run")[k] = t

\* IRQs are off and the current thread, or schedule(), wants the spin lock of a
\* list that a thread it has interrupted holds.
SpinsForEver ==
  ~irq /\ \/ spin["run"] = 0
          \/ spin["wait"] = 0 /\ At(current, "sleep")

\* The CPU executes nothing any more: it has followed a null pointer or spins.
Stuck == fault \/ SpinsForEver

\* Round robin (process.c:42, 97): a thread on the run queue runs, although
\* mutex_unlock pushes those it wakes to the front.
RoundRobin == \A t \in Pcb : Queued(t) ~> current = t \/ Stuck

\* synch2 and synch1 meet (kernel.c:102-116): a thread that has only to be
\* woken once to return does return.
Finishes(t) == <>(pc[t] = "dead")
=============================================================================
