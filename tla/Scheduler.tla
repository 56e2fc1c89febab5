----------------------------- MODULE Scheduler -----------------------------
(***************************************************************************)
(* The round-robin scheduler of src/kernel/process.c on its single core:   *)
(* the current thread, the lists of process control blocks, the IRQ mask,  *)
(* the one-shot timer whose interrupt calls schedule(), thread creation    *)
(* and reaping.                                                            *)
(*                                                                         *)
(* A thread runs a fixed program, Prog[t], of calls of the kernel API; pc  *)
(* is the point it has reached inside the current call.  Code that runs    *)
(* with IRQs enabled is cut into one step per access of shared state, and  *)
(* the timer may interrupt it between two steps.  Code between             *)
(* DISABLE_INTERRUPTS and context_switch is one step, or several steps     *)
(* between which nothing else can happen.                                  *)
(***************************************************************************)
EXTENDS PcbList, Sequences, FiniteSets

CONSTANTS
  Main,       \* the pcb process_init makes for kernel_main
  Boot,       \* the threads kernel_main creates at boot, in order
  NSems,      \* TOTAL_SEMS
  MaxProcs,   \* bound: the length all_proc_list may reach
  Prog,       \* the program of each thread
  TickAt,     \* bound: the points of a call where the timer may interrupt it
  TickInSpin  \* bound: may the timer interrupt a list function's spin lock?

Sem   == 0 .. NSems - 1
NoSem == -1

\* The lists: all_proc_list, run_queue, block_queue and the wait_queue of the
\* kernel's one mutex, input_lock.
KernelLists == {"all", "run", "block", "wait"}

\* Points of a call at which list functions run with IRQs enabled: the list.
CalledList == [pop_wait  |-> "wait",  push_run |-> "run",
               app_all   |-> "all",   app_run  |-> "run",
               rem_block |-> "block", app_woken |-> "run"]

\* Where the thread goes on after such a list function ("op": next call).
AfterCall == [pop_wait  |-> "push_run",  push_run |-> "op",
              app_all   |-> "app_run",   app_run  |-> "op",
              rem_block |-> "clear_id",  app_woken |-> "load_pending"]

MutexPoint == {"own", "dis", "sleep", "clear_locker", "test_wait"}
SemPoint   == {"store_dec", "test_dec", "set_id", "dis_block", "block",
               "store_inc", "test_inc", "load_head", "walk", "advance",
               "clear_id", "load_pending", "store_pending"}
Point == {"none", "op", "reap", "dead"}
         \cup DOMAIN CalledList \cup MutexPoint \cup SemPoint
Phase == {"enter", "locked", "done"}

OpName == {"lock", "unlock", "poll", "wait", "signal",
           "yield", "create", "goto", "busy", "return"}

\* sem is the semaphore of wait and signal, to the targets of goto, and holds
\* says whether the caller is between mutex_lock and mutex_unlock there.
Instr == [op : OpName, sem : Sem, to : SUBSET Nat, holds : BOOLEAN]

ASSUME ListAssumption == List = KernelLists
ASSUME BootAssumption == /\ Main \in Pcb
                         /\ Boot \in Seq(Pcb \ {Main})
                         /\ \A i, j \in DOMAIN Boot : Boot[i] = Boot[j] => i = j
ASSUME SemsAssumption == NSems \in Nat \ {0} /\ MaxProcs \in Nat
ASSUME ProgAssumption == /\ Prog \in [Pcb -> Seq(Instr)]
                         /\ \A t \in Pcb : Prog[t] # <<>>
ASSUME TickAssumption == TickAt \subseteq Point /\ TickInSpin \in BOOLEAN

VARIABLES
  mem,          \* links and headers of the lists
  spin,         \* the spin lock of each list, 1 when it is free
  current,      \* current_process
  irq,          \* are IRQs enabled?
  timer,        \* will the timer compare register still match?
  isr,          \* who is in schedule(): "tick" the interrupt, "yield" a thread
  scan,         \* semaphores the loop of check_blockeds still has to look at
  fault,        \* a null pointer was popped and used: the machine is lost
  pc, ip,       \* per thread: point inside the current call, and the call
  phase,        \* per thread: before, in or after the body of a list function
  tmp,          \* per thread: the pcb in a local variable
  sems_pending, \* the bits set in sems_pending
  blocker_id    \* per thread

listVars  == <<mem, spin>>
cpuVars   == <<current, irq, timer, isr, scan>>
wakeVars  == <<sems_pending, blocker_id>>
schedVars == <<listVars, cpuVars, wakeVars, fault, pc, ip, phase, tmp>>

Call(t) == Prog[t][ip[t]]

\* Thread t is executing its own code.
Running(t) == current = t /\ isr = "none" /\ ~fault

At(t, point)   == Running(t) /\ pc[t] = point
Calls(t, name) == At(t, "op") /\ Call(t).op = name

Goto(t, point) == pc' = [pc EXCEPT ![t] = point] /\ UNCHANGED ip

NextCall(t) == /\ pc' = [pc EXCEPT ![t] = "op"]
               /\ ip' = [ip EXCEPT ![t] = @ + 1]

-----------------------------------------------------------------------------
(* Context switches.  All of them run with IRQs disabled.                  *)

\* Mutants of SwitchTo: without timer_set, and without ENABLE_INTERRUPTS.
SwitchToNoTimer(new)  == current' = new /\ irq' = TRUE /\ UNCHANGED timer
SwitchToMasked(new)   == current' = new /\ timer' = TRUE /\ UNCHANGED irq

\* context_switch: the timer is set again, and the new thread goes on with
\* IRQs enabled, by its initial cpsr or by its own ENABLE_INTERRUPTS.
SwitchTo(new) == current' = new /\ irq' = TRUE /\ timer' = TRUE

\* pop_pcb_list of an empty list stores through the null pointer into the IRQ
\* vector: nothing that follows is defined.
Crash == /\ fault' = TRUE
         /\ UNCHANGED <<listVars, cpuVars, wakeVars, pc, ip, phase, tmp>>

\* A function that gives up the CPU pops the run queue.  IRQs are off, so a
\* spin lock that is held now is held for ever and the pop never returns.
CanPopRun   == spin["run"] = 1
NextToRun   == mem.list["run"].head
NobodyToRun == CanPopRun /\ NextToRun = NULL

\* Mutant of SwitchOut: without append_pcb_list.
SwitchOutForgets(t, l) ==
  /\ CanPopRun /\ spin[l] = 1 /\ NextToRun # NULL
  /\ mem' = PopPcb(mem, "run")
  /\ SwitchTo(NextToRun)

\* The next thread runs, and t goes to the back of list l.
SwitchOut(t, l) ==
  /\ CanPopRun /\ spin[l] = 1 /\ NextToRun # NULL
  /\ mem' = AppendPcb(PopPcb(mem, "run"), l, t)
  /\ SwitchTo(NextToRun)

-----------------------------------------------------------------------------
(* schedule(), called by the timer interrupt and by yield().               *)

\* irq_handler clears the one-shot timer match and calls timer_irq_handler.
Tick ==
  /\ irq /\ timer /\ isr = "none" /\ ~fault
  /\ pc[current] \in TickAt
  /\ phase[current] = "enter" \/ TickInSpin
  /\ isr' = "tick" /\ irq' = FALSE /\ timer' = FALSE /\ scan' = Sem
  /\ UNCHANGED <<listVars, wakeVars, current, fault, pc, ip, phase, tmp>>

yield(t) ==
  /\ Calls(t, "yield")
  /\ isr' = "yield" /\ irq' = FALSE /\ scan' = Sem
  /\ NextCall(t)
  /\ UNCHANGED <<listVars, wakeVars, current, timer, fault, phase, tmp>>

\* The pcb the loop of wake_up stops at: the first of block_queue blocked on s,
\* or NULL.  Nothing when the chain runs in a circle: the loop never ends.
WalkResult(s) ==
  LET Stop(p)   == p = NULL \/ blocker_id[p] = s
      After(p)  == IF Stop(p) THEN p ELSE NextOf(mem, p)
      hop[k \in 0 .. Cardinality(Pcb)] ==
        IF k = 0 THEN mem.list["block"].head ELSE After(hop[k - 1])
  IN  {p \in {hop[Cardinality(Pcb)]} : Stop(p)}

\* Mutant of check_blockeds: its wake_up leaves the bit set.
check_blockeds_keeps_bit ==
  /\ isr # "none" /\ ~fault
  /\ \E s \in scan \cap sems_pending, p \in Ptr :
       /\ \A r \in scan \cap sems_pending : s <= r
       /\ p \in WalkResult(s)
       /\ scan' = {r \in scan : r > s}
       /\ IF p = NULL
          THEN UNCHANGED <<mem, blocker_id>>
          ELSE /\ spin["block"] = 1 /\ CanPopRun
               /\ mem' = AppendPcb(RemovePcb(mem, "block", p), "run", p)
               /\ blocker_id' = [blocker_id EXCEPT ![p] = NoSem]
  /\ UNCHANGED <<spin, current, irq, timer, isr, fault, pc, ip, phase, tmp,
                 sems_pending>>

\* check_blockeds: wake_up(s) for the next s whose bit is set.  wake_up flips
\* the bit of the semaphore it has found a thread for.
check_blockeds ==
  /\ isr # "none" /\ ~fault
  /\ \E s \in scan \cap sems_pending, p \in Ptr :
       /\ \A r \in scan \cap sems_pending : s <= r
       /\ p \in WalkResult(s)
       /\ scan' = {r \in scan : r > s}
       /\ IF p = NULL
          THEN UNCHANGED <<mem, wakeVars>>
          ELSE /\ spin["block"] = 1 /\ CanPopRun
               /\ mem' = AppendPcb(RemovePcb(mem, "block", p), "run", p)
               /\ blocker_id' = [blocker_id EXCEPT ![p] = NoSem]
               /\ sems_pending' = sems_pending \ {s}
  /\ UNCHANGED <<spin, current, irq, timer, isr, fault, pc, ip, phase, tmp>>

\* The rest of schedule().  When the run queue is empty it returns with the
\* timer not set again and IRQs as DISABLE_INTERRUPTS left them: the return
\* from an interrupt restores the mask, the return from yield() does not.  A
\* match latched before the last context switch still interrupts once more.
schedule ==
  /\ isr # "none" /\ ~fault
  /\ scan \cap sems_pending = {}
  /\ isr' = "none" /\ scan' = {}
  /\ \/ /\ mem.list["run"].size = 0
        /\ irq' = (isr = "tick")
        /\ timer' \in IF isr = "tick" THEN BOOLEAN ELSE {timer}
        /\ UNCHANGED <<mem, current>>
     \/ /\ mem.list["run"].size # 0
        /\ SwitchOut(current, "run")
  /\ UNCHANGED <<spin, wakeVars, fault, pc, ip, phase, tmp>>

-----------------------------------------------------------------------------
(* List functions called with IRQs enabled: the timer may interrupt them   *)
(* while they hold the spin lock of the list.                              *)

\* try_lock succeeds; while it fails spin_lock loops and changes nothing.
SpinLock(t) ==
  /\ Running(t) /\ pc[t] \in DOMAIN CalledList /\ phase[t] = "enter"
  /\ spin[CalledList[pc[t]]] = 1
  /\ spin' = [spin EXCEPT ![CalledList[pc[t]]] = 0]
  /\ phase' = [phase EXCEPT ![t] = "locked"]
  /\ UNCHANGED <<mem, cpuVars, wakeVars, fault, pc, ip, tmp>>

\* The bodies.  tmp[t] is the argument, and the result of pop_pcb_list.
ListBody(t) ==
  /\ Running(t) /\ phase[t] = "locked"
  /\ \/ /\ pc[t] = "pop_wait"
        /\ mem.list["wait"].head # NULL
        /\ tmp' = [tmp EXCEPT ![t] = mem.list["wait"].head]
        /\ mem' = PopPcb(mem, "wait")
     \/ /\ pc[t] = "push_run"
        /\ mem' = PushPcb(mem, "run", tmp[t])
        /\ UNCHANGED tmp
     \/ /\ pc[t] \in {"app_all", "app_run", "app_woken"}
        /\ mem' = AppendPcb(mem, CalledList[pc[t]], tmp[t])
        /\ UNCHANGED tmp
     \/ /\ pc[t] = "rem_block" /\ tmp[t] # NULL   \* wake_up has found it
        /\ mem' = RemovePcb(mem, "block", tmp[t])
        /\ UNCHANGED tmp
  /\ phase' = [phase EXCEPT ![t] = "done"]
  /\ UNCHANGED <<spin, cpuVars, wakeVars, fault, pc, ip>>

PopsNothing(t) ==
  /\ At(t, "pop_wait") /\ phase[t] = "locked"
  /\ mem.list["wait"].head = NULL
  /\ Crash

SpinUnlock(t) ==
  /\ Running(t) /\ phase[t] = "done"
  /\ spin' = [spin EXCEPT ![CalledList[pc[t]]] = 1]
  /\ phase' = [phase EXCEPT ![t] = "enter"]
  /\ IF AfterCall[pc[t]] = "op" THEN NextCall(t) ELSE Goto(t, AfterCall[pc[t]])
  /\ UNCHANGED <<mem, cpuVars, wakeVars, fault, tmp>>

-----------------------------------------------------------------------------
(* Threads.                                                                *)

\* create_kernel_thread up to its two append_pcb_list calls.  The new pcb is
\* fresh memory or that of a reaped thread, freed by mem_free.  Bounds: MaxProcs
\* and the members of Pcb; mem_alloc never returns NULL.
create_kernel_thread(t) ==
  /\ Calls(t, "create") /\ mem.list["all"].size < MaxProcs
  /\ \E n \in {u \in Pcb : pc[u] \in {"none", "dead"}} :
       /\ tmp' = [tmp EXCEPT ![t] = n]
       /\ pc' = [pc EXCEPT ![t] = "app_all", ![n] = "op"]
       /\ ip' = [ip EXCEPT ![n] = 1]
       /\ blocker_id' = [blocker_id EXCEPT ![n] = NoSem]
  /\ UNCHANGED <<listVars, cpuVars, sems_pending, fault, phase>>

\* Any jump of the program: a loop, or a branch on something not modelled.
Jump(t) ==
  /\ Calls(t, "goto")
  /\ \E i \in Call(t).to : ip' = [ip EXCEPT ![t] = i]
  /\ UNCHANGED <<listVars, cpuVars, wakeVars, fault, pc, phase, tmp>>

\* The body of get_line: the loop that polls the keyboard ends when the user
\* presses enter.
get_line(t) ==
  /\ Calls(t, "poll")
  /\ NextCall(t)
  /\ UNCHANGED <<listVars, cpuVars, wakeVars, fault, phase, tmp>>

\* The thread function returns into reap(), which disables IRQs,
Return(t) ==
  /\ Calls(t, "return")
  /\ irq' = FALSE
  /\ Goto(t, "reap")
  /\ UNCHANGED <<listVars, wakeVars, current, timer, isr, scan, fault, phase, tmp>>

\* Mutant of reap: it queues the thread again, as schedule() does.
reap_requeues(t) ==
  /\ At(t, "reap")
  /\ mem.list["run"].size # 0
  /\ SwitchOut(t, "run")
  /\ Goto(t, "dead")
  /\ UNCHANGED <<spin, isr, scan, wakeVars, fault, phase, tmp>>

\* waits for the run queue to have a size, frees the thread and switches.
reap(t) ==
  /\ At(t, "reap")
  /\ mem.list["run"].size # 0
  /\ CanPopRun /\ NextToRun # NULL
  /\ mem' = PopPcb(mem, "run")
  /\ SwitchTo(NextToRun)
  /\ Goto(t, "dead")
  /\ UNCHANGED <<spin, isr, scan, wakeVars, fault, phase, tmp>>

\* The places where the run queue has a size but no head.
SwitchesToNothing ==
  /\ ~fault /\ mem.list["run"].size # 0 /\ NobodyToRun
  /\ \/ isr # "none" /\ scan \cap sems_pending = {}
     \/ At(current, "reap")
  /\ Crash

\* The lists after process_init has appended Main to all_proc_list and
\* kernel_main has created the threads of Boot, none of which has run.  Each was
\* appended to all_proc_list and then to the run queue, so next links them all.
BootMemory ==
  LET boot(i) == IF i \in DOMAIN Boot THEN Boot[i] ELSE NULL
      n       == Len(Boot)
      last    == IF n = 0 THEN Main ELSE Boot[n]
  IN
  [link |-> [p \in Pcb |->
               IF p = Main
               THEN [next |-> boot(1), prev |-> NULL, container |-> "all"]
               ELSE IF \E i \in DOMAIN Boot : Boot[i] = p
               THEN LET i == CHOOSE i \in DOMAIN Boot : Boot[i] = p
                    IN  [next |-> boot(i + 1), prev |-> boot(i - 1), container |-> "run"]
               ELSE NoLinks],
   list |-> [l \in List |->
               CASE l = "all" -> [head |-> Main, tail |-> last, size |-> n + 1]
                 [] l = "run" -> [head |-> boot(1), tail |-> boot(n), size |-> n]
                 [] OTHER     -> EmptyHeader]]

Booted == {Main} \cup {Boot[i] : i \in DOMAIN Boot}

SchedulerInit ==
  /\ mem = BootMemory
  /\ spin = [l \in List |-> 1]
  /\ current = Main
  /\ irq = TRUE /\ timer = TRUE
  /\ isr = "none" /\ scan = {}
  /\ fault = FALSE
  /\ pc = [t \in Pcb |-> IF t \in Booted THEN "op" ELSE "none"]
  /\ ip = [t \in Pcb |-> 1]
  /\ phase = [t \in Pcb |-> "enter"]
  /\ tmp = [t \in Pcb |-> NULL]
  /\ sems_pending = {}
  /\ blocker_id = [t \in Pcb |-> NoSem]

SchedulerThread(t) ==
  \/ yield(t) \/ create_kernel_thread(t) \/ Jump(t) \/ get_line(t)
  \/ Return(t) \/ reap(t)
  \/ SpinLock(t) \/ ListBody(t) \/ PopsNothing(t) \/ SpinUnlock(t)

\* Steps of schedule(), but for those of check_blockeds.
SchedulerStep == Tick \/ schedule \/ SwitchesToNothing

SchedulerTypeOK ==
  /\ mem \in Memory
  /\ spin \in [List -> {0, 1}]
  /\ current \in Pcb
  /\ irq \in BOOLEAN /\ timer \in BOOLEAN /\ fault \in BOOLEAN
  /\ isr \in {"none", "tick", "yield"}
  /\ scan \in SUBSET Sem
  /\ pc \in [Pcb -> Point]
  /\ ip \in [Pcb -> Nat \ {0}]
  /\ phase \in [Pcb -> Phase]
  /\ tmp \in [Pcb -> Ptr]
  /\ sems_pending \in SUBSET Sem
  /\ blocker_id \in [Pcb -> Sem \cup {NoSem}]
=============================================================================
