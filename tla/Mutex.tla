------------------------------- MODULE Mutex -------------------------------
(***************************************************************************)
(* The mutex of src/kernel/process.c, on its one instance in the kernel:   *)
(* input_lock of src/kernel/kerio.c, which printf and getline take.        *)
(* mutex_lock sleeps on the mutex's wait queue, mutex_unlock moves the     *)
(* first sleeper to the front of the run queue.                            *)
(***************************************************************************)
EXTENDS Scheduler

VARIABLES
  lock,    \* the word try_lock swaps: 1 free, 0 taken
  locker   \* the owner's pcb as the mutex records it

mutexVars == <<lock, locker>>

MutexTypeOK == lock \in {0, 1} /\ locker \in Ptr

\* mutex_init
MutexInit == lock = 1 /\ locker = NULL

\* Mutants of try_lock: its result is ignored; it counts the lock down.
try_lock_ignored(t) ==
  /\ Calls(t, "lock")
  /\ lock' = 0
  /\ Goto(t, "own")
  /\ UNCHANGED <<listVars, cpuVars, wakeVars, fault, phase, tmp, locker>>
try_lock_counts(t) ==
  /\ Calls(t, "lock")
  /\ lock' = lock - 1
  /\ Goto(t, IF lock = 1 THEN "own" ELSE "dis")
  /\ UNCHANGED <<listVars, cpuVars, wakeVars, fault, phase, tmp, locker>>

\* try_lock: one swp.
try_lock(t) ==
  /\ Calls(t, "lock")
  /\ lock' = 0
  /\ Goto(t, IF lock = 1 THEN "own" ELSE "dis")
  /\ UNCHANGED <<listVars, cpuVars, wakeVars, fault, phase, tmp, locker>>

\* lock->locker = current_process
SetLocker(t) ==
  /\ At(t, "own")
  /\ locker' = current
  /\ NextCall(t)
  /\ UNCHANGED <<listVars, cpuVars, wakeVars, fault, phase, tmp, lock>>

DisableToSleep(t) ==
  /\ At(t, "dis")
  /\ irq' = FALSE
  /\ Goto(t, "sleep")
  /\ UNCHANGED <<listVars, wakeVars, current, timer, isr, scan, fault, phase, tmp,
                 mutexVars>>

\* Mutant of Sleep: mutex_lock tests the lock with if where it has while.
SleepOnce(t) ==
  /\ At(t, "sleep")
  /\ SwitchOut(t, "wait")
  /\ NextCall(t)
  /\ UNCHANGED <<spin, isr, scan, wakeVars, fault, phase, tmp, mutexVars>>

\* Give up the CPU; when t runs again it tries the lock again.
Sleep(t) ==
  /\ At(t, "sleep")
  /\ SwitchOut(t, "wait")
  /\ Goto(t, "op")
  /\ UNCHANGED <<spin, isr, scan, wakeVars, fault, phase, tmp, mutexVars>>

SleepsAlone(t) ==
  At(t, "sleep") /\ NobodyToRun /\ Crash /\ UNCHANGED mutexVars

\* mutex_unlock: lock->lock = 1
mutex_unlock(t) ==
  /\ Calls(t, "unlock")
  /\ lock' = 1
  /\ Goto(t, "clear_locker")
  /\ UNCHANGED <<listVars, cpuVars, wakeVars, fault, phase, tmp, locker>>

\* Mutant of ClearLocker: without process.c:239.
LeaveLocker(t) ==
  /\ At(t, "clear_locker")
  /\ Goto(t, "test_wait")
  /\ UNCHANGED <<listVars, cpuVars, wakeVars, fault, phase, tmp, mutexVars>>

\* lock->locker = 0
ClearLocker(t) ==
  /\ At(t, "clear_locker")
  /\ locker' = NULL
  /\ Goto(t, "test_wait")
  /\ UNCHANGED <<listVars, cpuVars, wakeVars, fault, phase, tmp, lock>>

\* Is there anyone waiting?  Then pop_pcb_list and push_pcb_list follow.
TestWaitQueue(t) ==
  /\ At(t, "test_wait")
  /\ IF mem.list["wait"].size # 0 THEN Goto(t, "pop_wait") ELSE NextCall(t)
  /\ UNCHANGED <<listVars, cpuVars, wakeVars, fault, phase, tmp, mutexVars>>

MutexThread(t) ==
  \/ try_lock(t) \/ SetLocker(t) \/ DisableToSleep(t) \/ Sleep(t) \/ SleepsAlone(t)
  \/ mutex_unlock(t) \/ ClearLocker(t) \/ TestWaitQueue(t)

-----------------------------------------------------------------------------
\* Points of mutex_unlock after it has freed the lock.
Unlocked == {"clear_locker", "test_wait", "pop_wait", "push_run"}

\* t has won try_lock and has not yet freed the lock.
Owns(t) == pc[t] = "own" \/ (Call(t).holds /\ pc[t] \notin Unlocked)

\* A program brackets its calls: lock outside, unlock inside, and every call
\* leaves the caller where it was otherwise.
Bracketed(prog) ==
  /\ ~prog[1].holds
  /\ \A i \in DOMAIN prog :
       LET call == prog[i]
           next == prog[i + 1].holds
       IN  /\ call.op = "lock"   => ~call.holds /\ next
           /\ call.op = "unlock" => call.holds /\ ~next
           /\ call.op = "return" => ~call.holds
           /\ call.op = "goto"   => /\ call.to \subseteq DOMAIN prog
                                    /\ \A j \in call.to : prog[j].holds = call.holds
           /\ call.op \in {"poll", "wait", "signal", "yield", "create"}
                => next = call.holds
           /\ call.op \notin {"goto", "busy", "return"} => i + 1 \in DOMAIN prog

ASSUME BracketAssumption == \A t \in Pcb : Bracketed(Prog[t])
=============================================================================
