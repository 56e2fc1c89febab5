----------------------------- MODULE Semaphore -----------------------------
(***************************************************************************)
(* The counting semaphores of src/kernel/process.c after sem_init.         *)
(* sem_wait and sem_signal run with IRQs enabled and without any lock, so  *)
(* every load and every store of val and of sems_pending is a step.        *)
(***************************************************************************)
EXTENDS Scheduler

CONSTANT InitVal   \* the value each semaphore is initialised with

ASSUME InitValAssumption == InitVal \in [Sem -> Int]

VARIABLES
  val,       \* val of each semaphore
  reg,       \* per thread: the register val is loaded into
  word,      \* per thread: the register sems_pending is loaded into
  signals,   \* history: how many sem_signal calls found val > 0
  wakes      \* history: how many threads left the block queue

semVars == <<val, reg, word, signals, wakes>>

SemTypeOK == /\ val \in [Sem -> Int]
             /\ reg \in [Pcb -> Int]
             /\ word \in [Pcb -> SUBSET Sem]
             /\ signals \in Nat /\ wakes \in Nat

\* sem_init of every semaphore.
SemInit == /\ val = InitVal
           /\ reg = [t \in Pcb |-> 0]
           /\ word = [t \in Pcb |-> {}]
           /\ signals = 0 /\ wakes = 0

ThreadStep(t, point) ==
  /\ Goto(t, point)
  /\ UNCHANGED <<listVars, cpuVars, fault, phase, tmp>>

-----------------------------------------------------------------------------
(* sem_wait: sem->val -= 1; if (sem->val <= 0) block(sem->id)              *)

sem_wait(t) ==
  /\ Calls(t, "wait")
  /\ reg' = [reg EXCEPT ![t] = val[Call(t).sem]]
  /\ ThreadStep(t, "store_dec")
  /\ UNCHANGED <<wakeVars, val, word, signals, wakes>>

StoreDec(t) ==
  /\ At(t, "store_dec")
  /\ val' = [val EXCEPT ![Call(t).sem] = reg[t] - 1]
  /\ ThreadStep(t, "test_dec")
  /\ UNCHANGED <<wakeVars, reg, word, signals, wakes>>

TestDec(t) ==
  /\ At(t, "test_dec")
  /\ IF val[Call(t).sem] <= 0 THEN Goto(t, "set_id") ELSE NextCall(t)
  /\ UNCHANGED <<listVars, cpuVars, wakeVars, fault, phase, tmp, semVars>>

\* block: current_process->blocker_id = blocker_id
SetBlockerId(t) ==
  /\ At(t, "set_id")
  /\ blocker_id' = [blocker_id EXCEPT ![t] = Call(t).sem]
  /\ ThreadStep(t, "dis_block")
  /\ UNCHANGED <<sems_pending, semVars>>

DisableToBlock(t) ==
  /\ At(t, "dis_block")
  /\ irq' = FALSE
  /\ Goto(t, "block")
  /\ UNCHANGED <<listVars, wakeVars, current, timer, isr, scan, fault, phase, tmp,
                 semVars>>

\* When t runs again sem_wait returns.
block(t) ==
  /\ At(t, "block")
  /\ SwitchOut(t, "block")
  /\ NextCall(t)
  /\ UNCHANGED <<spin, isr, scan, wakeVars, fault, phase, tmp, semVars>>

BlocksAlone(t) ==
  At(t, "block") /\ NobodyToRun /\ Crash /\ UNCHANGED semVars

-----------------------------------------------------------------------------
(* sem_signal: sem->val += 1; if (sem->val > 0) wake_up(sem->id)           *)

sem_signal(t) ==
  /\ Calls(t, "signal")
  /\ reg' = [reg EXCEPT ![t] = val[Call(t).sem]]
  /\ ThreadStep(t, "store_inc")
  /\ UNCHANGED <<wakeVars, val, word, signals, wakes>>

StoreInc(t) ==
  /\ At(t, "store_inc")
  /\ val' = [val EXCEPT ![Call(t).sem] = reg[t] + 1]
  /\ ThreadStep(t, "test_inc")
  /\ UNCHANGED <<wakeVars, reg, word, signals, wakes>>

\* Mutant of TestInc: process.c:277 compares with 1.
TestIncLate(t) ==
  /\ At(t, "test_inc")
  /\ IF val[Call(t).sem] > 1
     THEN Goto(t, "load_head") /\ signals' = signals + 1
     ELSE NextCall(t) /\ UNCHANGED signals
  /\ UNCHANGED <<listVars, cpuVars, wakeVars, fault, phase, tmp, val, reg, word, wakes>>

TestInc(t) ==
  /\ At(t, "test_inc")
  /\ IF val[Call(t).sem] > 0
     THEN Goto(t, "load_head") /\ signals' = signals + 1
     ELSE NextCall(t) /\ UNCHANGED signals
  /\ UNCHANGED <<listVars, cpuVars, wakeVars, fault, phase, tmp, val, reg, word, wakes>>

\* wake_up starts at block_queue.head; tmp[t] is blocked_thread.
LoadHead(t) ==
  /\ At(t, "load_head")
  /\ tmp' = [tmp EXCEPT ![t] = mem.list["block"].head]
  /\ Goto(t, "walk")
  /\ UNCHANGED <<listVars, cpuVars, wakeVars, fault, phase, semVars>>

\* The loop's two tests; a match goes on with remove_pcb.
Walk(t) ==
  /\ At(t, "walk")
  /\ \/ tmp[t] = NULL /\ NextCall(t)
     \/ tmp[t] # NULL /\ blocker_id[tmp[t]] = Call(t).sem /\ Goto(t, "rem_block")
     \/ tmp[t] # NULL /\ blocker_id[tmp[t]] # Call(t).sem /\ Goto(t, "advance")
  /\ UNCHANGED <<listVars, cpuVars, wakeVars, fault, phase, tmp, semVars>>

Advance(t) ==
  /\ At(t, "advance")
  /\ tmp' = [tmp EXCEPT ![t] = NextOf(mem, tmp[t])]
  /\ Goto(t, "walk")
  /\ UNCHANGED <<listVars, cpuVars, wakeVars, fault, phase, semVars>>

\* Mutant of ClearBlockerId: without the append_pcb_list of process.c:62.
ClearAndForget(t) ==
  /\ At(t, "clear_id")
  /\ blocker_id' = [blocker_id EXCEPT ![tmp[t]] = NoSem]
  /\ ThreadStep(t, "load_pending")
  /\ wakes' = wakes + 1
  /\ UNCHANGED <<sems_pending, val, reg, word, signals>>

\* blocked_thread->blocker_id = -1, then append_pcb_list to the run queue
ClearBlockerId(t) ==
  /\ At(t, "clear_id")
  /\ blocker_id' = [blocker_id EXCEPT ![tmp[t]] = NoSem]
  /\ ThreadStep(t, "app_woken")
  /\ wakes' = wakes + 1
  /\ UNCHANGED <<sems_pending, val, reg, word, signals>>

\* sems_pending = sems_pending ^ (0x1 << waker_id), a load and a store; then
\* the loop ends.
LoadPending(t) ==
  /\ At(t, "load_pending")
  /\ word' = [word EXCEPT ![t] = sems_pending]
  /\ ThreadStep(t, "store_pending")
  /\ UNCHANGED <<wakeVars, val, reg, signals, wakes>>

StorePending(t) ==
  LET s == Call(t).sem IN
  /\ At(t, "store_pending")
  /\ sems_pending' = IF s \in word[t] THEN word[t] \ {s} ELSE word[t] \cup {s}
  /\ NextCall(t)
  /\ UNCHANGED <<listVars, cpuVars, blocker_id, fault, phase, tmp, semVars>>

\* check_blockeds, with the threads it wakes counted.
CheckBlockeds ==
  /\ check_blockeds
  /\ wakes' = IF mem' # mem THEN wakes + 1 ELSE wakes
  /\ UNCHANGED <<val, reg, word, signals>>

SemThread(t) ==
  \/ sem_wait(t) \/ StoreDec(t) \/ TestDec(t)
  \/ SetBlockerId(t) \/ DisableToBlock(t) \/ block(t) \/ BlocksAlone(t)
  \/ sem_signal(t) \/ StoreInc(t) \/ TestInc(t)
  \/ LoadHead(t) \/ Walk(t) \/ Advance(t)
  \/ ClearBlockerId(t) \/ LoadPending(t) \/ StorePending(t)
=============================================================================
