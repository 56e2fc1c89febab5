---------------------------- MODULE KernelProofs ----------------------------
(***************************************************************************)
(* Theorems about the kernel for every set of pcbs, every number of        *)
(* semaphores, every program and every choice of the points where the      *)
(* timer may interrupt.                                                    *)
(***************************************************************************)
EXTENDS Kernel, PcbListProofs

-----------------------------------------------------------------------------
(* Points and calls.                                                       *)

\* The points of a call as one set, and what the tables say of each.
LEMMA Tables ==
  /\ DOMAIN CalledList = {"pop_wait", "push_run", "app_all", "app_run",
                          "rem_block", "app_woken"}
  /\ DOMAIN CallAt = Point \ {"none", "op"}
  /\ \A p \in DOMAIN CalledList : /\ CalledList[p] \in KernelLists
                                  /\ AfterCall[p] \in Point \ {"none"}
                                  /\ AfterCall[p] # "op" => CallAt[AfterCall[p]] = CallAt[p]
                                  /\ CallAt[p] \in {"unlock", "create", "signal"}
<1>1. DOMAIN CalledList = {"pop_wait", "push_run", "app_all", "app_run",
                           "rem_block", "app_woken"}
  BY DEF CalledList
<1>2. DOMAIN CallAt = Point \ {"none", "op"}
  BY <1>1 DEF CallAt, Point, MutexPoint, SemPoint
<1>3. ASSUME NEW p \in DOMAIN CalledList
      PROVE  /\ CalledList[p] \in KernelLists
             /\ AfterCall[p] \in Point \ {"none"}
             /\ AfterCall[p] # "op" => CallAt[AfterCall[p]] = CallAt[p]
             /\ CallAt[p] \in {"unlock", "create", "signal"}
  <2>1. CASE p = "pop_wait" BY <2>1 DEF CalledList, AfterCall, CallAt, KernelLists, Point, MutexPoint, SemPoint
  <2>2. CASE p = "push_run" BY <2>2 DEF CalledList, AfterCall, CallAt, KernelLists, Point, MutexPoint, SemPoint
  <2>3. CASE p = "app_all" BY <2>3 DEF CalledList, AfterCall, CallAt, KernelLists, Point, MutexPoint, SemPoint
  <2>4. CASE p = "app_run" BY <2>4 DEF CalledList, AfterCall, CallAt, KernelLists, Point, MutexPoint, SemPoint
  <2>5. CASE p = "rem_block" BY <2>5 DEF CalledList, AfterCall, CallAt, KernelLists, Point, MutexPoint, SemPoint
  <2>6. CASE p = "app_woken" BY <2>6 DEF CalledList, AfterCall, CallAt, KernelLists, Point, MutexPoint, SemPoint
  <2> QED BY <1>1, <2>1, <2>2, <2>3, <2>4, <2>5, <2>6
<1> QED BY <1>1, <1>2, <1>3

LEMMA CallAtValues ==
  /\ CallAt["own"] = "lock" /\ CallAt["dis"] = "lock" /\ CallAt["sleep"] = "lock"
  /\ CallAt["clear_locker"] = "unlock" /\ CallAt["test_wait"] = "unlock"
  /\ CallAt["pop_wait"] = "unlock" /\ CallAt["push_run"] = "unlock"
  /\ CallAt["app_all"] = "create" /\ CallAt["app_run"] = "create"
  /\ CallAt["store_dec"] = "wait" /\ CallAt["test_dec"] = "wait"
  /\ CallAt["set_id"] = "wait" /\ CallAt["dis_block"] = "wait"
  /\ CallAt["block"] = "wait"
  /\ CallAt["store_inc"] = "signal" /\ CallAt["test_inc"] = "signal"
  /\ CallAt["load_head"] = "signal" /\ CallAt["walk"] = "signal"
  /\ CallAt["advance"] = "signal" /\ CallAt["rem_block"] = "signal"
  /\ CallAt["clear_id"] = "signal" /\ CallAt["app_woken"] = "signal"
  /\ CallAt["load_pending"] = "signal" /\ CallAt["store_pending"] = "signal"
  /\ CallAt["reap"] = "return" /\ CallAt["dead"] = "return"
BY DEF CallAt

\* A thread that is at a point of its program is at an instruction of it.
LEMMA CallType ==
  ASSUME PointsOK, NEW t \in Pcb
  PROVE  Call(t) \in Instr
BY ProgAssumption DEF PointsOK, Call

\* Goto keeps every thread at a point of its call.
LEMMA GotoPoints ==
  ASSUME PointsOK, pc \in [Pcb -> Point],
         NEW t \in Pcb, NEW p \in Point \ {"none"}, Goto(t, p),
         p \in DOMAIN CallAt => Call(t).op = CallAt[p],
         \A u \in Pcb \ {t} : phase'[u] = phase[u],
         phase'[t] # "enter" => p \in DOMAIN CalledList
  PROVE  pc' \in [Pcb -> Point] /\ PointsOK'
<1>1. pc' \in [Pcb -> Point]
  BY DEF Goto
<1>2. ASSUME NEW u \in Pcb
      PROVE  /\ ip'[u] \in DOMAIN Prog[u]
             /\ pc'[u] = "none" => ip'[u] = 1
             /\ pc'[u] \in DOMAIN CallAt => Prog[u][ip'[u]].op = CallAt[pc'[u]]
             /\ phase'[u] # "enter" => pc'[u] \in DOMAIN CalledList
  <2>1. CASE u = t
    BY <2>1 DEF Goto, PointsOK, Call
  <2>2. CASE u # t
    BY <2>2 DEF Goto, PointsOK, Call
  <2> QED BY <2>1, <2>2
<1> QED BY <1>1, <1>2 DEF PointsOK, Call

\* So does going on with the next call, which the bracketing of programs gives.
LEMMA NextCallPoints ==
  ASSUME PointsOK, pc \in [Pcb -> Point], ip \in [Pcb -> Nat \ {0}],
         NEW t \in Pcb, NextCall(t),
         Call(t).op \notin {"goto", "busy", "return"},
         \A u \in Pcb \ {t} : phase'[u] = phase[u],
         phase'[t] = "enter"
  PROVE  pc' \in [Pcb -> Point] /\ ip' \in [Pcb -> Nat \ {0}] /\ PointsOK'
<1>1. pc' \in [Pcb -> Point]
  BY DEF NextCall, Point
<1>2. ip[t] + 1 \in DOMAIN Prog[t]
  BY BracketAssumption DEF PointsOK, Bracketed, Call
<1>3. \A u \in Pcb : DOMAIN Prog[u] \subseteq Nat \ {0}
  BY ProgAssumption
<1>4. "op" \notin DOMAIN CallAt /\ "op" # "none"
  BY Tables
<1>5. ASSUME NEW u \in Pcb
      PROVE  /\ ip'[u] \in DOMAIN Prog[u]
             /\ pc'[u] = "none" => ip'[u] = 1
             /\ pc'[u] \in DOMAIN CallAt => Prog[u][ip'[u]].op = CallAt[pc'[u]]
             /\ phase'[u] # "enter" => pc'[u] \in DOMAIN CalledList
  <2>1. CASE u = t
    BY <1>2, <1>4, <2>1 DEF NextCall, PointsOK
  <2>2. CASE u # t
    BY <2>2 DEF NextCall, PointsOK, Call
  <2> QED BY <2>1, <2>2
<1>6. PointsOK'
  BY <1>5 DEF PointsOK, Call
<1> QED BY <1>1, <1>3, <1>5, <1>6 DEF NextCall

-----------------------------------------------------------------------------
(* Types.  A step of a thread changes the types of what it writes only.    *)

USE DEF vars

\* Every step of the mutex keeps the types.
LEMMA MutexThreadType ==
  ASSUME TypeOK, NEW t \in Pcb, MutexThread(t), UNCHANGED semVars
  PROVE  TypeOK'
<1> USE DEF TypeOK, SchedulerTypeOK, MutexTypeOK, SemTypeOK, semVars, listVars,
            cpuVars, wakeVars, mutexVars
<1>1. CASE try_lock(t)
  <2> DEFINE p == IF lock = 1 THEN "own" ELSE "dis"
  <2>1. Goto(t, p) /\ Call(t).op = "lock" /\ phase' = phase /\ phase[t] = "enter"
    BY <1>1, Tables DEF try_lock, Calls, At, PointsOK
  <2>2. p \in Point \ {"none"} /\ CallAt[p] = "lock"
    BY CallAtValues DEF Point, MutexPoint
  <2>3. pc' \in [Pcb -> Point] /\ PointsOK'
    BY <2>1, <2>2, GotoPoints
  <2> QED BY <1>1, <2>3 DEF try_lock, Goto
<1>2. CASE SetLocker(t)
  <2>1. NextCall(t) /\ Call(t).op = "lock" /\ phase' = phase /\ phase[t] = "enter"
    BY <1>2, Tables, CallAtValues DEF SetLocker, Calls, At, PointsOK, Point, MutexPoint, SemPoint
  <2>2. pc' \in [Pcb -> Point] /\ ip' \in [Pcb -> Nat \ {0}] /\ PointsOK'
    BY <2>1, NextCallPoints
  <2> QED BY <1>2, <2>2 DEF SetLocker, At, Running, Ptr
<1>3. CASE DisableToSleep(t)
  <2>1. Goto(t, "sleep") /\ Call(t).op = "lock" /\ phase' = phase /\ phase[t] = "enter"
    BY <1>3, Tables, CallAtValues DEF DisableToSleep, Calls, At, PointsOK, Point, MutexPoint, SemPoint
  <2>2. pc' \in [Pcb -> Point] /\ PointsOK'
    BY <2>1, Tables, CallAtValues, GotoPoints DEF Point, MutexPoint, SemPoint
  <2> QED BY <1>3, <2>2 DEF DisableToSleep, Goto
<1>4. CASE Sleep(t)
  <2>1. Goto(t, "op") /\ Call(t).op = "lock" /\ phase' = phase /\ phase[t] = "enter"
    BY <1>4, Tables, CallAtValues DEF Sleep, Calls, At, PointsOK, Point, MutexPoint, SemPoint
  <2>2. pc' \in [Pcb -> Point] /\ PointsOK'
    BY <2>1, Tables, CallAtValues, GotoPoints DEF Point, MutexPoint, SemPoint
  <2>3. mem' \in Memory /\ NextToRun \in Pcb
    BY <1>4, PopMemory, AppendMemory, ListAssumption DEF Sleep, SwitchOut, NextToRun, KernelLists, Ptr
  <2> QED BY <1>4, <2>2, <2>3 DEF Sleep, Goto, SwitchOut, SwitchTo
<1>5. CASE SleepsAlone(t)
  BY <1>5 DEF SleepsAlone, Crash, PointsOK, Call
<1>6. CASE mutex_unlock(t)
  <2>1. Goto(t, "clear_locker") /\ Call(t).op = "unlock" /\ phase' = phase /\ phase[t] = "enter"
    BY <1>6, Tables, CallAtValues DEF mutex_unlock, Calls, At, PointsOK, Point, MutexPoint, SemPoint
  <2>2. pc' \in [Pcb -> Point] /\ PointsOK'
    BY <2>1, Tables, CallAtValues, GotoPoints DEF Point, MutexPoint, SemPoint
  <2> QED BY <1>6, <2>2 DEF mutex_unlock, Goto
<1>7. CASE ClearLocker(t)
  <2>1. Goto(t, "test_wait") /\ Call(t).op = "unlock" /\ phase' = phase /\ phase[t] = "enter"
    BY <1>7, Tables, CallAtValues DEF ClearLocker, Calls, At, PointsOK, Point, MutexPoint, SemPoint
  <2>2. pc' \in [Pcb -> Point] /\ PointsOK'
    BY <2>1, Tables, CallAtValues, GotoPoints DEF Point, MutexPoint, SemPoint
  <2> QED BY <1>7, <2>2 DEF ClearLocker, Goto, Ptr
<1>8. CASE TestWaitQueue(t)
  <2>1. Call(t).op = "unlock" /\ phase' = phase /\ phase[t] = "enter"
    BY <1>8, Tables, CallAtValues DEF TestWaitQueue, At, PointsOK, Point, MutexPoint
  <2>2. CASE Goto(t, "pop_wait")
    <3>1. pc' \in [Pcb -> Point] /\ PointsOK'
      BY <2>1, <2>2, Tables, CallAtValues, GotoPoints DEF Point
    <3> QED BY <1>8, <2>2, <3>1 DEF TestWaitQueue, Goto
  <2>3. CASE NextCall(t)
    <3>1. pc' \in [Pcb -> Point] /\ ip' \in [Pcb -> Nat \ {0}] /\ PointsOK'
      BY <2>1, <2>3, NextCallPoints
    <3> QED BY <1>8, <3>1 DEF TestWaitQueue
  <2> QED BY <1>8, <2>2, <2>3 DEF TestWaitQueue
<1> QED
  BY <1>1, <1>2, <1>3, <1>4, <1>5, <1>6, <1>7, <1>8 DEF MutexThread

\* Every step of the semaphores keeps the types.
LEMMA SemThreadType ==
  ASSUME TypeOK, NEW t \in Pcb, SemThread(t), UNCHANGED mutexVars
  PROVE  TypeOK'
<1> USE DEF TypeOK, SchedulerTypeOK, MutexTypeOK, SemTypeOK, semVars, listVars,
            cpuVars, wakeVars, mutexVars
<1>0. Call(t).sem \in Sem /\ Sem \subseteq Int
  BY CallType, SemsAssumption DEF Instr, Sem
<1>1. CASE sem_wait(t)
  <2>1. Goto(t, "store_dec") /\ Call(t).op = "wait" /\ phase' = phase /\ phase[t] = "enter"
    BY <1>1, Tables, CallAtValues DEF sem_wait, Calls, At, PointsOK, Point, MutexPoint, SemPoint, ThreadStep
  <2>2. pc' \in [Pcb -> Point] /\ PointsOK'
    BY <2>1, Tables, CallAtValues, GotoPoints DEF Point, MutexPoint, SemPoint
  <2> QED BY <1>1, <2>2, <1>0 DEF sem_wait, Goto, ThreadStep
<1>2. CASE StoreDec(t)
  <2>1. Goto(t, "test_dec") /\ Call(t).op = "wait" /\ phase' = phase /\ phase[t] = "enter"
    BY <1>2, Tables, CallAtValues DEF StoreDec, Calls, At, PointsOK, Point, MutexPoint, SemPoint, ThreadStep
  <2>2. pc' \in [Pcb -> Point] /\ PointsOK'
    BY <2>1, Tables, CallAtValues, GotoPoints DEF Point, MutexPoint, SemPoint
  <2> QED BY <1>2, <2>2, <1>0 DEF StoreDec, Goto, ThreadStep
<1>3. CASE TestDec(t)
  <2>1. Call(t).op = "wait" /\ phase' = phase /\ phase[t] = "enter"
    BY <1>3, Tables, CallAtValues DEF TestDec, At, PointsOK, Point, SemPoint
  <2>2. CASE Goto(t, "set_id")
    <3>1. pc' \in [Pcb -> Point] /\ PointsOK'
      BY <2>1, <2>2, Tables, CallAtValues, GotoPoints DEF Point, SemPoint
    <3> QED BY <1>3, <2>2, <3>1 DEF TestDec, Goto
  <2>3. CASE NextCall(t)
    <3>1. pc' \in [Pcb -> Point] /\ ip' \in [Pcb -> Nat \ {0}] /\ PointsOK'
      BY <2>1, <2>3, NextCallPoints
    <3> QED BY <1>3, <2>3, <3>1 DEF TestDec
  <2> QED BY <1>3, <2>2, <2>3 DEF TestDec
<1>4. CASE SetBlockerId(t)
  <2>1. Goto(t, "dis_block") /\ Call(t).op = "wait" /\ phase' = phase /\ phase[t] = "enter"
    BY <1>4, Tables, CallAtValues DEF SetBlockerId, Calls, At, PointsOK, Point, MutexPoint, SemPoint, ThreadStep
  <2>2. pc' \in [Pcb -> Point] /\ PointsOK'
    BY <2>1, Tables, CallAtValues, GotoPoints DEF Point, MutexPoint, SemPoint
  <2> QED BY <1>4, <2>2, <1>0 DEF SetBlockerId, Goto, ThreadStep
<1>5. CASE DisableToBlock(t)
  <2>1. Goto(t, "block") /\ Call(t).op = "wait" /\ phase' = phase /\ phase[t] = "enter"
    BY <1>5, Tables, CallAtValues DEF DisableToBlock, Calls, At, PointsOK, Point, MutexPoint, SemPoint, ThreadStep
  <2>2. pc' \in [Pcb -> Point] /\ PointsOK'
    BY <2>1, Tables, CallAtValues, GotoPoints DEF Point, MutexPoint, SemPoint
  <2> QED BY <1>5, <2>2, <1>0 DEF DisableToBlock, Goto, ThreadStep
<1>6. CASE block(t)
  <2>1. NextCall(t) /\ Call(t).op = "wait" /\ phase' = phase /\ phase[t] = "enter"
    BY <1>6, Tables, CallAtValues DEF block, Calls, At, PointsOK, Point, MutexPoint, SemPoint
  <2>2. pc' \in [Pcb -> Point] /\ ip' \in [Pcb -> Nat \ {0}] /\ PointsOK'
    BY <2>1, NextCallPoints
  <2>3. mem' \in Memory /\ NextToRun \in Pcb
    BY <1>6, PopMemory, AppendMemory, ListAssumption DEF block, SwitchOut, NextToRun, KernelLists, Ptr
  <2> QED BY <1>6, <2>2, <1>0, <2>3 DEF block, SwitchOut, SwitchTo
<1>7. CASE BlocksAlone(t)
  BY <1>7 DEF BlocksAlone, Crash, PointsOK, Call
<1>8. CASE sem_signal(t)
  <2>1. Goto(t, "store_inc") /\ Call(t).op = "signal" /\ phase' = phase /\ phase[t] = "enter"
    BY <1>8, Tables, CallAtValues DEF sem_signal, Calls, At, PointsOK, Point, MutexPoint, SemPoint, ThreadStep
  <2>2. pc' \in [Pcb -> Point] /\ PointsOK'
    BY <2>1, Tables, CallAtValues, GotoPoints DEF Point, MutexPoint, SemPoint
  <2> QED BY <1>8, <2>2, <1>0 DEF sem_signal, Goto, ThreadStep
<1>9. CASE StoreInc(t)
  <2>1. Goto(t, "test_inc") /\ Call(t).op = "signal" /\ phase' = phase /\ phase[t] = "enter"
    BY <1>9, Tables, CallAtValues DEF StoreInc, Calls, At, PointsOK, Point, MutexPoint, SemPoint, ThreadStep
  <2>2. pc' \in [Pcb -> Point] /\ PointsOK'
    BY <2>1, Tables, CallAtValues, GotoPoints DEF Point, MutexPoint, SemPoint
  <2> QED BY <1>9, <2>2, <1>0 DEF StoreInc, Goto, ThreadStep
<1>10. CASE TestInc(t)
  <2>0. signals + 1 \in Nat
    OBVIOUS
  <2>1. Call(t).op = "signal" /\ phase' = phase /\ phase[t] = "enter"
    BY <1>10, Tables, CallAtValues DEF TestInc, At, PointsOK, Point, SemPoint
  <2>2. CASE Goto(t, "load_head")
    <3>1. pc' \in [Pcb -> Point] /\ PointsOK'
      BY <2>1, <2>2, Tables, CallAtValues, GotoPoints DEF Point, SemPoint
    <3> QED BY <1>10, <2>2, <2>0, <3>1 DEF TestInc, Goto
  <2>3. CASE NextCall(t)
    <3>1. pc' \in [Pcb -> Point] /\ ip' \in [Pcb -> Nat \ {0}] /\ PointsOK'
      BY <2>1, <2>3, NextCallPoints
    <3> QED BY <1>10, <2>0, <2>3, <3>1 DEF TestInc
  <2> QED BY <1>10, <2>2, <2>3 DEF TestInc
<1>11. CASE Walk(t)
  <2>1. Call(t).op = "signal" /\ phase' = phase /\ phase[t] = "enter"
    BY <1>11, Tables, CallAtValues DEF Walk, At, PointsOK, Point, SemPoint
  <2>2. CASE NextCall(t)
    <3>1. pc' \in [Pcb -> Point] /\ ip' \in [Pcb -> Nat \ {0}] /\ PointsOK'
      BY <2>1, <2>2, NextCallPoints
    <3> QED BY <1>11, <2>2, <3>1 DEF Walk
  <2>3. CASE Goto(t, "rem_block")
    <3>1. pc' \in [Pcb -> Point] /\ PointsOK'
      BY <2>1, <2>3, Tables, CallAtValues, GotoPoints DEF Point
    <3> QED BY <1>11, <2>3, <3>1 DEF Walk, Goto
  <2>4. CASE Goto(t, "advance")
    <3>1. pc' \in [Pcb -> Point] /\ PointsOK'
      BY <2>1, <2>4, Tables, CallAtValues, GotoPoints DEF Point, SemPoint
    <3> QED BY <1>11, <2>4, <3>1 DEF Walk, Goto
  <2> QED BY <1>11, <2>2, <2>3, <2>4 DEF Walk
<1>12. CASE ClearBlockerId(t)
  <2>1. Goto(t, "app_woken") /\ Call(t).op = "signal" /\ phase' = phase /\ phase[t] = "enter"
    BY <1>12, Tables, CallAtValues DEF ClearBlockerId, Calls, At, PointsOK, Point, MutexPoint, SemPoint, ThreadStep
  <2>2. pc' \in [Pcb -> Point] /\ PointsOK'
    BY <2>1, Tables, CallAtValues, GotoPoints DEF Point, MutexPoint, SemPoint
  <2>3. blocker_id' = [blocker_id EXCEPT ![tmp[t]] = NoSem] /\ wakes' = wakes + 1
    BY <1>12 DEF ClearBlockerId
  <2>4. blocker_id' \in [Pcb -> Sem \cup {NoSem}]
    BY <2>3
  <2>5. wakes' \in Nat
    BY <2>3
  <2> QED BY <1>12, <2>2, <2>4, <2>5 DEF ClearBlockerId, Goto, ThreadStep
<1>13. CASE LoadPending(t)
  <2>1. Goto(t, "store_pending") /\ Call(t).op = "signal" /\ phase' = phase /\ phase[t] = "enter"
    BY <1>13, Tables, CallAtValues DEF LoadPending, Calls, At, PointsOK, Point, MutexPoint, SemPoint, ThreadStep
  <2>2. pc' \in [Pcb -> Point] /\ PointsOK'
    BY <2>1, Tables, CallAtValues, GotoPoints DEF Point, MutexPoint, SemPoint
  <2> QED BY <1>13, <2>2, <1>0 DEF LoadPending, Goto, ThreadStep
<1>14. CASE StorePending(t)
  <2>1. NextCall(t) /\ Call(t).op = "signal" /\ phase' = phase /\ phase[t] = "enter"
    BY <1>14, Tables, CallAtValues DEF StorePending, Calls, At, PointsOK, Point, MutexPoint, SemPoint
  <2>2. pc' \in [Pcb -> Point] /\ ip' \in [Pcb -> Nat \ {0}] /\ PointsOK'
    BY <2>1, NextCallPoints
  <2> QED BY <1>14, <2>2, <1>0 DEF StorePending
<1>15. CASE LoadHead(t)
  <2>1. Goto(t, "walk") /\ Call(t).op = "signal" /\ phase' = phase /\ phase[t] = "enter"
    BY <1>15, Tables, CallAtValues DEF LoadHead, At, PointsOK, Point, SemPoint
  <2>2. pc' \in [Pcb -> Point] /\ PointsOK'
    BY <2>1, Tables, CallAtValues, GotoPoints DEF Point, SemPoint
  <2>3. mem.list["block"].head \in Ptr
    BY ListAssumption DEF KernelLists, Memory, Header
  <2>4. tmp' \in [Pcb -> Ptr]
    BY <1>15, <2>3 DEF LoadHead
  <2> QED BY <1>15, <2>2, <2>4 DEF LoadHead, Goto
<1>16. CASE Advance(t)
  <2>1. Goto(t, "walk") /\ Call(t).op = "signal" /\ phase' = phase /\ phase[t] = "enter"
    BY <1>16, Tables, CallAtValues DEF Advance, At, PointsOK, Point, SemPoint
  <2>2. pc' \in [Pcb -> Point] /\ PointsOK'
    BY <2>1, Tables, CallAtValues, GotoPoints DEF Point, SemPoint
  <2>3. NextOf(mem, tmp[t]) \in Ptr
    BY DEF NextOf, Memory, LinkFields, Ptr
  <2>4. tmp' \in [Pcb -> Ptr]
    BY <1>16, <2>3 DEF Advance
  <2> QED BY <1>16, <2>2, <2>4 DEF Advance, Goto
<1> QED
  BY <1>1, <1>2, <1>3, <1>4, <1>5, <1>6, <1>7, <1>8, <1>9, <1>10, <1>11, <1>12,
     <1>13, <1>14, <1>15, <1>16 DEF SemThread

\* Every step of a thread in the scheduler's own functions keeps the types.
LEMMA SchedulerThreadType ==
  ASSUME TypeOK, NEW t \in Pcb, SchedulerThread(t), UNCHANGED <<mutexVars, semVars>>
  PROVE  TypeOK'
<1> USE DEF TypeOK, SchedulerTypeOK, MutexTypeOK, SemTypeOK, semVars, listVars,
            cpuVars, wakeVars, mutexVars
<1>1. CASE yield(t)
  <2>1. NextCall(t) /\ Call(t).op = "yield" /\ phase' = phase /\ phase[t] = "enter"
    BY <1>1, Tables DEF yield, Calls, At, PointsOK
  <2>2. pc' \in [Pcb -> Point] /\ ip' \in [Pcb -> Nat \ {0}] /\ PointsOK'
    BY <2>1, NextCallPoints
  <2> QED BY <1>1, <2>2 DEF yield
<1>2. CASE create_kernel_thread(t)
  <2>1. PICK n \in {u \in Pcb : pc[u] \in {"none", "dead"}} :
          /\ tmp' = [tmp EXCEPT ![t] = n]
          /\ pc' = [pc EXCEPT ![t] = "app_all", ![n] = "op"]
          /\ ip' = [ip EXCEPT ![n] = 1]
          /\ blocker_id' = [blocker_id EXCEPT ![n] = NoSem]
    BY <1>2 DEF create_kernel_thread
  <2>2. pc[t] = "op" /\ Call(t).op = "create" /\ n # t /\ phase' = phase
    BY <1>2, <2>1 DEF create_kernel_thread, Calls, At
  <2>3. 1 \in DOMAIN Prog[n]
    BY ProgAssumption
  <2>4. ASSUME NEW u \in Pcb
        PROVE  /\ ip'[u] \in DOMAIN Prog[u]
               /\ pc'[u] = "none" => ip'[u] = 1
               /\ pc'[u] \in DOMAIN CallAt => Prog[u][ip'[u]].op = CallAt[pc'[u]]
               /\ phase'[u] # "enter" => pc'[u] \in DOMAIN CalledList
    <3>1. CASE u = t
      BY <2>1, <2>2, <3>1, Tables, CallAtValues DEF PointsOK, Call
    <3>2. CASE u = n
      BY <2>1, <2>2, <2>3, <3>2, Tables DEF PointsOK, Call
    <3>3. CASE u # t /\ u # n
      BY <2>1, <2>2, <3>3 DEF PointsOK, Call
    <3> QED BY <3>1, <3>2, <3>3
  <2>5. PointsOK'
    BY <2>4 DEF PointsOK, Call
  <2>6. pc' \in [Pcb -> Point] /\ ip' \in [Pcb -> Nat \ {0}] /\ tmp' \in [Pcb -> Ptr]
    BY <2>1, Tables DEF Point, Ptr
  <2> QED BY <1>2, <2>1, <2>5, <2>6 DEF create_kernel_thread
<1>3. CASE Jump(t)
  <2>1. PICK i \in Call(t).to : ip' = [ip EXCEPT ![t] = i]
    BY <1>3 DEF Jump
  <2>2. Call(t).op = "goto" /\ pc[t] = "op" /\ pc' = pc /\ phase' = phase
    BY <1>3 DEF Jump, Calls, At
  <2>3. i \in DOMAIN Prog[t]
    BY <2>2, BracketAssumption DEF Bracketed, Call, PointsOK
  <2>4. i \in Nat \ {0}
    BY <2>3, ProgAssumption
  <2>5. ASSUME NEW u \in Pcb
        PROVE  /\ ip'[u] \in DOMAIN Prog[u]
               /\ pc'[u] = "none" => ip'[u] = 1
               /\ pc'[u] \in DOMAIN CallAt => Prog[u][ip'[u]].op = CallAt[pc'[u]]
               /\ phase'[u] # "enter" => pc'[u] \in DOMAIN CalledList
    BY <2>1, <2>2, <2>3, Tables DEF PointsOK, Call
  <2>6. PointsOK'
    BY <2>5 DEF PointsOK, Call
  <2> QED BY <1>3, <2>1, <2>4, <2>6 DEF Jump
<1>4. CASE get_line(t)
  <2>1. NextCall(t) /\ Call(t).op = "poll" /\ phase' = phase /\ phase[t] = "enter"
    BY <1>4, Tables DEF get_line, Calls, At, PointsOK
  <2>2. pc' \in [Pcb -> Point] /\ ip' \in [Pcb -> Nat \ {0}] /\ PointsOK'
    BY <2>1, NextCallPoints
  <2> QED BY <1>4, <2>2 DEF get_line
<1>5. CASE Return(t)
  <2>1. Goto(t, "reap") /\ Call(t).op = "return" /\ phase' = phase /\ phase[t] = "enter"
    BY <1>5, Tables, CallAtValues DEF Return, Calls, At, PointsOK, Point
  <2>2. pc' \in [Pcb -> Point] /\ PointsOK'
    BY <2>1, Tables, CallAtValues, GotoPoints DEF Point
  <2> QED BY <1>5, <2>2 DEF Return, Goto
<1>6. CASE reap(t)
  <2>1. Goto(t, "dead") /\ Call(t).op = "return" /\ phase' = phase /\ phase[t] = "enter"
    BY <1>6, Tables, CallAtValues DEF reap, Calls, At, PointsOK, Point
  <2>2. pc' \in [Pcb -> Point] /\ PointsOK'
    BY <2>1, Tables, CallAtValues, GotoPoints DEF Point
  <2>3. mem' \in Memory /\ NextToRun \in Pcb
    BY <1>6, PopMemory, ListAssumption DEF reap, NextToRun, KernelLists
  <2> QED BY <1>6, <2>2, <2>3 DEF reap, Goto, SwitchTo
<1>7. CASE SpinLock(t)
  <2>1. CalledList[pc[t]] \in List
    BY <1>7, Tables, ListAssumption DEF SpinLock
  <2>2. PointsOK'
    BY <1>7 DEF SpinLock, PointsOK, Call
  <2>3. phase' \in [Pcb -> Phase]
    BY <1>7 DEF SpinLock, Phase
  <2> QED BY <1>7, <2>1, <2>2, <2>3 DEF SpinLock
<1>8. CASE ListBody(t)
  <2>1. phase[t] = "locked" /\ phase' = [phase EXCEPT ![t] = "done"]
        /\ UNCHANGED <<pc, ip>>
    BY <1>8 DEF ListBody
  <2>2. PointsOK'
    BY <2>1 DEF PointsOK, Call
  <2>3. phase' \in [Pcb -> Phase]
    BY <2>1 DEF Phase
  <2>4. CalledList[pc[t]] \in List /\ "run" \in List /\ "wait" \in List /\ "block" \in List
    BY <2>1, Tables, ListAssumption DEF KernelLists, PointsOK
  <2>5. tmp[t] \in Ptr
    OBVIOUS
  <2>6. mem' \in Memory /\ tmp' \in [Pcb -> Ptr]
    <3>1. CASE /\ mem.list["wait"].head # NULL
               /\ tmp' = [tmp EXCEPT ![t] = mem.list["wait"].head]
               /\ mem' = PopPcb(mem, "wait")
      BY <2>4, <3>1, PopMemory DEF Ptr
    <3>2. CASE mem' = PushPcb(mem, "run", tmp[t]) /\ UNCHANGED tmp
      BY <2>4, <2>5, <3>2, PushMemory
    <3>3. CASE mem' = AppendPcb(mem, CalledList[pc[t]], tmp[t]) /\ UNCHANGED tmp
      BY <2>4, <2>5, <3>3, AppendMemory
    <3>4. CASE tmp[t] # NULL /\ mem' = RemovePcb(mem, "block", tmp[t]) /\ UNCHANGED tmp
      BY <2>4, <2>5, <3>4, RemoveMemory DEF Ptr
    <3> QED BY <1>8, <3>1, <3>2, <3>3, <3>4 DEF ListBody
  <2> QED BY <1>8, <2>1, <2>2, <2>3, <2>6 DEF ListBody
<1>9. CASE PopsNothing(t)
  BY <1>9 DEF PopsNothing, Crash, PointsOK, Call
<1>10. CASE SpinUnlock(t)
  <2>1. pc[t] \in DOMAIN CalledList /\ phase' = [phase EXCEPT ![t] = "enter"]
    BY <1>10 DEF SpinUnlock, PointsOK
  <2>2. CalledList[pc[t]] \in List /\ phase' \in [Pcb -> Phase] /\ phase'[t] = "enter"
    BY <2>1, Tables, ListAssumption DEF Phase
  <2>3. Call(t).op = CallAt[pc[t]] /\ Call(t).op \in {"unlock", "create", "signal"}
    BY <2>1, Tables DEF PointsOK, Point
  <2>4. CASE NextCall(t)
    <3>1. pc' \in [Pcb -> Point] /\ ip' \in [Pcb -> Nat \ {0}] /\ PointsOK'
      BY <2>1, <2>2, <2>3, <2>4, NextCallPoints
    <3> QED BY <1>10, <2>2, <2>4, <3>1 DEF SpinUnlock
  <2>5. CASE AfterCall[pc[t]] # "op" /\ Goto(t, AfterCall[pc[t]])
    <3>1. AfterCall[pc[t]] \in Point \ {"none"} /\ CallAt[AfterCall[pc[t]]] = CallAt[pc[t]]
      BY <2>1, <2>5, Tables
    <3>2. pc' \in [Pcb -> Point] /\ PointsOK'
      BY <2>1, <2>2, <2>3, <2>5, <3>1, GotoPoints
    <3> QED BY <1>10, <2>2, <2>5, <3>2 DEF SpinUnlock, Goto
  <2> QED BY <1>10, <2>4, <2>5 DEF SpinUnlock
<1> QED
  BY <1>1, <1>2, <1>3, <1>4, <1>5, <1>6, <1>7, <1>8, <1>9, <1>10
  DEF SchedulerThread

\* Every step of schedule() and the timer interrupt keep the types.
LEMMA ScheduleType ==
  ASSUME TypeOK, Schedule
  PROVE  TypeOK'
<1> USE DEF TypeOK, SchedulerTypeOK, MutexTypeOK, SemTypeOK, semVars, listVars,
            cpuVars, wakeVars, mutexVars
<1>1. CASE Tick /\ UNCHANGED <<mutexVars, semVars>>
  BY <1>1 DEF Tick, PointsOK, Call
<1>2. CASE schedule /\ UNCHANGED <<mutexVars, semVars>>
  <2>1. mem' \in Memory /\ current' \in Pcb /\ irq' \in BOOLEAN /\ timer' \in BOOLEAN
    <3>1. CASE SwitchOut(current, "run")
      BY <3>1, PopMemory, AppendMemory, ListAssumption
      DEF SwitchOut, SwitchTo, NextToRun, KernelLists, Ptr
    <3>2. CASE /\ irq' = (isr = "tick")
               /\ timer' \in IF isr = "tick" THEN BOOLEAN ELSE {timer}
               /\ UNCHANGED <<mem, current>>
      BY <3>2
    <3> QED BY <1>2, <3>1, <3>2 DEF schedule
  <2> QED BY <1>2, <2>1 DEF schedule, PointsOK, Call
<1>3. CASE SwitchesToNothing /\ UNCHANGED <<mutexVars, semVars>>
  BY <1>3 DEF SwitchesToNothing, Crash, PointsOK, Call
<1>4. CASE CheckBlockeds /\ UNCHANGED mutexVars
  <2>1. PICK s \in scan \cap sems_pending, p \in Ptr :
          /\ scan' = {r \in scan : r > s}
          /\ IF p = NULL
             THEN UNCHANGED <<mem, wakeVars>>
             ELSE /\ mem' = AppendPcb(RemovePcb(mem, "block", p), "run", p)
                  /\ blocker_id' = [blocker_id EXCEPT ![p] = NoSem]
                  /\ sems_pending' = sems_pending \ {s}
    BY <1>4 DEF CheckBlockeds, check_blockeds
  <2>2. /\ mem' \in Memory
        /\ blocker_id' \in [Pcb -> Sem \cup {NoSem}]
        /\ sems_pending' \in SUBSET Sem
    <3>1. CASE p = NULL
      BY <2>1, <3>1
    <3>2. CASE p # NULL
      <4>1. p \in Pcb /\ "block" \in List /\ "run" \in List
        BY <3>2, ListAssumption DEF Ptr, KernelLists
      <4>2. RemovePcb(mem, "block", p) \in Memory
        BY <4>1, RemoveMemory
      <4>3. mem' \in Memory
        BY <2>1, <3>2, <4>1, <4>2, AppendMemory DEF Ptr
      <4> QED BY <2>1, <3>2, <4>3
    <3> QED BY <3>1, <3>2
  <2>3. scan' \in SUBSET Sem
    BY <2>1
  <2>4. wakes' \in Nat
    BY <1>4 DEF CheckBlockeds
  <2> QED BY <1>4, <2>2, <2>3, <2>4 DEF CheckBlockeds, check_blockeds, PointsOK, Call
<1> QED
  BY <1>1, <1>2, <1>3, <1>4 DEF Schedule, SchedulerStep

\* The boot sequence leaves the memory well typed.
LEMMA BootMemoryType == BootMemory \in Memory
<1> DEFINE boot(i) == IF i \in DOMAIN Boot THEN Boot[i] ELSE NULL
           n       == Len(Boot)
           last    == IF n = 0 THEN Main ELSE Boot[n]
<1>1. n \in Nat /\ DOMAIN Boot = 1 .. n /\ \A i \in DOMAIN Boot : Boot[i] \in Pcb
  BY BootAssumption
<1>2. \A i : boot(i) \in Ptr
  BY <1>1 DEF Ptr
<1>3. last \in Ptr /\ Main \in Ptr
  BY <1>1, BootAssumption DEF Ptr
<1> HIDE DEF boot, last, n
<1>4. ASSUME NEW p \in Pcb
      PROVE  (IF p = Main
              THEN [next |-> boot(1), prev |-> NULL, container |-> "all"]
              ELSE IF \E i \in DOMAIN Boot : Boot[i] = p
              THEN LET i == CHOOSE i \in DOMAIN Boot : Boot[i] = p
                   IN  [next |-> boot(i + 1), prev |-> boot(i - 1), container |-> "run"]
              ELSE NoLinks) \in LinkFields
  BY <1>2, ListAssumption DEF KernelLists, LinkFields, NoLinks, Ptr
<1>5. ASSUME NEW l \in List
      PROVE  (CASE l = "all" -> [head |-> Main, tail |-> last, size |-> n + 1]
                [] l = "run" -> [head |-> boot(1), tail |-> boot(n), size |-> n]
                [] OTHER     -> EmptyHeader) \in Header
  BY <1>1, <1>2, <1>3 DEF Header, EmptyHeader, Ptr
<1> QED
  BY <1>4, <1>5 DEF BootMemory, Memory, boot, last, n

\* The initial state is well typed.
LEMMA InitType == Init => TypeOK
<1> SUFFICES ASSUME Init PROVE TypeOK
  OBVIOUS
<1> USE DEF Init, SchedulerInit, MutexInit, SemInit
<1>1. SchedulerTypeOK
  <2>1. mem \in Memory /\ spin \in [List -> {0, 1}] /\ current \in Pcb
    BY BootMemoryType, BootAssumption
  <2>2. /\ irq \in BOOLEAN /\ timer \in BOOLEAN /\ fault \in BOOLEAN
        /\ isr \in {"none", "tick", "yield"}
    OBVIOUS
  <2>3. scan \in SUBSET Sem /\ sems_pending \in SUBSET Sem
    OBVIOUS
  <2>4. pc \in [Pcb -> Point] /\ phase \in [Pcb -> Phase]
    BY DEF Point, Phase
  <2>5. ip \in [Pcb -> Nat \ {0}] /\ tmp \in [Pcb -> Ptr]
    BY DEF Ptr
  <2>6. blocker_id \in [Pcb -> Sem \cup {NoSem}]
    OBVIOUS
  <2> QED BY <2>1, <2>2, <2>3, <2>4, <2>5, <2>6 DEF SchedulerTypeOK
<1>2. MutexTypeOK /\ SemTypeOK
  BY InitValAssumption DEF MutexTypeOK, SemTypeOK, Ptr
<1>3. ASSUME NEW t \in Pcb PROVE 1 \in DOMAIN Prog[t]
  <2>1. Prog[t] \in Seq(Instr) /\ Prog[t] # <<>>
    BY ProgAssumption
  <2> QED BY <2>1
<1>4. PointsOK
  BY <1>3, Tables DEF PointsOK
<1> QED BY <1>1, <1>2, <1>4 DEF TypeOK

\* Every step keeps the types.
LEMMA NextType == TypeOK /\ [Next]_vars => TypeOK'
<1> SUFFICES ASSUME TypeOK, [Next]_vars PROVE TypeOK'
  OBVIOUS
<1>1. CASE Schedule
  BY <1>1, ScheduleType
<1>2. ASSUME NEW t \in Pcb, Thread(t) PROVE TypeOK'
  BY <1>2, SchedulerThreadType, MutexThreadType, SemThreadType DEF Thread
<1>3. CASE UNCHANGED vars
  BY <1>3 DEF TypeOK, SchedulerTypeOK, MutexTypeOK, SemTypeOK, PointsOK, Call,
              schedVars, listVars, cpuVars, wakeVars, mutexVars, semVars
<1> QED BY <1>1, <1>2, <1>3 DEF Next

\* Type correctness: whatever the threads do and wherever the timer interrupts
\* them, every variable keeps its type and every thread is at a point of the
\* call it makes.
THEOREM TypeCorrect == Spec => []TypeOK
BY InitType, NextType, PTL DEF Spec

-----------------------------------------------------------------------------
(* The mutex.  Each step of the kernel does one of five things to it       *)
(* (MutexStep); of those, the invariants and the refinement follow.        *)

\* Who owns the lock, and who is about to clear the locker field, stays, but
\* for the threads in S.
SameOwners(S)   == \A u \in Pcb \ S : Owns(u)' <=> Owns(u)
SameClearers(S) == \A u \in Pcb \ S : pc'[u] = "clear_locker" <=> pc[u] = "clear_locker"

Leaves == SameOwners({}) /\ SameClearers({}) /\ UNCHANGED mutexVars

Takes(t) == /\ lock = 1 /\ lock' = 0 /\ UNCHANGED locker
            /\ ~Owns(t) /\ Owns(t)'
            /\ SameOwners({t}) /\ SameClearers({})

Records(t) == /\ Owns(t) /\ locker' = t /\ UNCHANGED lock
              /\ SameOwners({}) /\ SameClearers({})

Frees(t) == /\ lock' = 1 /\ UNCHANGED locker
            /\ Owns(t) /\ ~Owns(t)' /\ pc'[t] = "clear_locker"
            /\ SameOwners({t}) /\ SameClearers({t})

Clears(t) == locker' = NULL /\ UNCHANGED lock /\ SameOwners({})

MutexStep == \/ Leaves
             \/ \E t \in Pcb : Takes(t) \/ Records(t) \/ Frees(t) \/ Clears(t)

-----------------------------------------------------------------------------
(* Moves inside a call and to the next one.                                *)

\* The points of mutex_unlock, by the calls they belong to.
LEMMA UnlockedPoints ==
  \A p \in Point : p \in Unlocked => p \in DOMAIN CallAt /\ CallAt[p] = "unlock"
BY Tables, CallAtValues DEF Unlocked, Point, MutexPoint

\* A move between two points of which both or none are past the unlocking.
LEMMA GotoOwners ==
  ASSUME PointsOK, pc \in [Pcb -> Point],
         NEW t \in Pcb, NEW p \in Point, Goto(t, p),
         pc[t] # "own", p # "own", p \in Unlocked <=> pc[t] \in Unlocked
  PROVE  /\ SameOwners({})
         /\ pc[t] # "clear_locker" /\ p # "clear_locker" => SameClearers({})
<1>1. ASSUME NEW u \in Pcb PROVE Owns(u)' <=> Owns(u)
  <2>1. CASE u = t BY <2>1 DEF Goto, Owns, Call
  <2>2. CASE u # t BY <2>2 DEF Goto, Owns, Call
  <2> QED BY <2>1, <2>2
<1>2. pc[t] # "clear_locker" /\ p # "clear_locker" => SameClearers({})
  BY DEF SameClearers, Goto
<1> QED BY <1>1, <1>2 DEF SameOwners

\* The next call finds the caller with the lock exactly if this one leaves it so.
LEMMA NextCallOwners ==
  ASSUME PointsOK, pc \in [Pcb -> Point], ip \in [Pcb -> Nat \ {0}],
         NEW t \in Pcb, NextCall(t),
         \/ Call(t).op = "lock" /\ pc[t] = "own"
         \/ Call(t).op = "unlock" /\ pc[t] \in Unlocked
         \/ Call(t).op \in {"poll", "wait", "signal", "yield", "create"}
  PROVE  /\ SameOwners({})
         /\ pc[t] # "clear_locker" => SameClearers({})
<1>1. Prog[t][ip[t]] = Call(t) /\ ip[t] \in DOMAIN Prog[t]
  BY DEF Call, PointsOK
<1>2. /\ Call(t).op = "lock" => Prog[t][ip[t] + 1].holds
      /\ Call(t).op = "unlock" => ~Prog[t][ip[t] + 1].holds
      /\ Call(t).op \in {"poll", "wait", "signal", "yield", "create"}
           => Prog[t][ip[t] + 1].holds = Call(t).holds
  BY <1>1, BracketAssumption DEF Bracketed
<1>3. /\ pc'[t] = "op" /\ ip'[t] = ip[t] + 1
      /\ \A u \in Pcb \ {t} : pc'[u] = pc[u] /\ ip'[u] = ip[u]
  BY DEF NextCall
<1>4. Owns(t)' <=> Prog[t][ip[t] + 1].holds
  BY <1>3 DEF Owns, Call, Unlocked
<1>5. Owns(t)' <=> Owns(t)
  <2>1. CASE Call(t).op = "lock" /\ pc[t] = "own"
    BY <2>1, <1>2, <1>4 DEF Owns
  <2>2. CASE Call(t).op = "unlock" /\ pc[t] \in Unlocked
    BY <2>2, <1>2, <1>4 DEF Owns, Unlocked
  <2>3. CASE Call(t).op \in {"poll", "wait", "signal", "yield", "create"}
    <3>1. pc[t] # "own" /\ pc[t] \notin Unlocked
      <4>1. pc[t] \in DOMAIN CallAt => Call(t).op = CallAt[pc[t]]
        BY DEF PointsOK
      <4>2. "own" \in DOMAIN CallAt /\ CallAt["own"] = "lock"
        BY Tables, CallAtValues DEF Point, MutexPoint
      <4>3. pc[t] \in Unlocked => CallAt[pc[t]] = "unlock" /\ pc[t] \in DOMAIN CallAt
        BY UnlockedPoints
      <4> QED BY <2>3, <4>1, <4>2, <4>3
    <3>2. Owns(t) <=> Call(t).holds
      BY <3>1 DEF Owns
    <3>3. Prog[t][ip[t] + 1].holds = Call(t).holds
      BY <2>3, <1>2
    <3> QED BY <3>2, <3>3, <1>4
  <2> QED BY <2>1, <2>2, <2>3
<1>6. \A u \in Pcb \ {t} : Owns(u)' <=> Owns(u)
  BY <1>3 DEF Owns, Call
<1> QED BY <1>3, <1>5, <1>6 DEF SameOwners, SameClearers

-----------------------------------------------------------------------------
(* What each action does to the mutex.                                     *)

\* The actions of mutex_lock and mutex_unlock.
LEMMA MutexThreadStep ==
  ASSUME TypeOK, NEW t \in Pcb, MutexThread(t)
  PROVE  MutexStep
<1> USE DEF TypeOK, SchedulerTypeOK, MutexTypeOK, mutexVars
<1>0. SUFFICES Leaves \/ Takes(t) \/ Records(t) \/ Frees(t) \/ Clears(t)
  BY DEF MutexStep
<1>1. CASE try_lock(t)
  <2>1. pc[t] = "op" /\ Call(t).op = "lock" /\ "op" \notin Unlocked
    BY <1>1 DEF try_lock, Calls, At, Unlocked
  <2>2. ~Owns(t)
    BY <2>1, BracketAssumption DEF Owns, Bracketed, Call, PointsOK
  <2>3. CASE lock = 1
    <3>1. Goto(t, "own") /\ lock' = 0 /\ UNCHANGED locker
      BY <1>1, <2>3 DEF try_lock
    <3>2. Owns(t)' /\ SameOwners({t}) /\ SameClearers({})
      BY <2>1, <3>1 DEF Goto, Owns, Call, SameOwners, SameClearers
    <3> QED BY <2>2, <2>3, <3>1, <3>2 DEF Takes
  <2>4. CASE lock # 1
    <3>1. Goto(t, "dis") /\ UNCHANGED mutexVars
      BY <1>1, <2>4 DEF try_lock
    <3>2. SameOwners({}) /\ SameClearers({})
      BY <2>1, <3>1, GotoOwners DEF Unlocked, Point, MutexPoint
    <3> QED BY <3>1, <3>2 DEF Leaves
  <2> QED BY <2>3, <2>4
<1>2. CASE SetLocker(t)
  <2>1. pc[t] = "own" /\ current = t /\ locker' = current /\ UNCHANGED lock /\ NextCall(t)
    BY <1>2 DEF SetLocker, At, Running
  <2>2. Call(t).op = "lock"
    BY <2>1, Tables, CallAtValues DEF PointsOK, Point, MutexPoint
  <2>3. SameOwners({}) /\ SameClearers({})
    BY <2>1, <2>2, NextCallOwners
  <2> QED BY <2>1, <2>3 DEF Records, Owns
<1>3. CASE DisableToSleep(t)
  <2>1. pc[t] = "dis" /\ Goto(t, "sleep") /\ UNCHANGED mutexVars
    BY <1>3 DEF DisableToSleep, At
  <2>2. SameOwners({}) /\ SameClearers({})
    BY <2>1, GotoOwners DEF Unlocked, Point, MutexPoint
  <2> QED BY <2>1, <2>2 DEF Leaves
<1>4. CASE Sleep(t)
  <2>1. pc[t] = "sleep" /\ Goto(t, "op") /\ UNCHANGED mutexVars
    BY <1>4 DEF Sleep, At
  <2>2. SameOwners({}) /\ SameClearers({})
    BY <2>1, GotoOwners DEF Unlocked, Point
  <2> QED BY <2>1, <2>2 DEF Leaves
<1>5. CASE SleepsAlone(t)
  BY <1>5 DEF SleepsAlone, Crash, Leaves, SameOwners, SameClearers, Owns, Call
<1>6. CASE mutex_unlock(t)
  <2>1. /\ pc[t] = "op" /\ Call(t).op = "unlock"
        /\ Goto(t, "clear_locker") /\ lock' = 1 /\ UNCHANGED locker
    BY <1>6 DEF mutex_unlock, Calls, At
  <2>2. Owns(t)
    BY <2>1, BracketAssumption DEF Owns, Unlocked, Bracketed, Call, PointsOK
  <2>3. pc'[t] = "clear_locker" /\ ~Owns(t)' /\ SameOwners({t}) /\ SameClearers({t})
    BY <2>1 DEF Goto, Owns, Unlocked, Call, SameOwners, SameClearers
  <2> QED BY <2>1, <2>2, <2>3 DEF Frees
<1>7. CASE ClearLocker(t)
  <2>1. /\ pc[t] = "clear_locker" /\ Goto(t, "test_wait")
        /\ locker' = NULL /\ UNCHANGED lock
    BY <1>7 DEF ClearLocker, At
  <2>2. SameOwners({})
    BY <2>1, GotoOwners DEF Unlocked, Point, MutexPoint
  <2> QED BY <2>1, <2>2 DEF Clears
<1>8. CASE TestWaitQueue(t)
  <2>1. pc[t] = "test_wait" /\ UNCHANGED mutexVars
    BY <1>8 DEF TestWaitQueue, At
  <2>2. CASE Goto(t, "pop_wait")
    BY <2>1, <2>2, Tables, GotoOwners DEF Leaves, Unlocked, Point
  <2>3. CASE NextCall(t)
    <3>1. Call(t).op = "unlock"
      BY <2>1, Tables, CallAtValues DEF PointsOK, Point, MutexPoint
    <3> QED BY <2>1, <2>3, <3>1, NextCallOwners DEF Leaves, Unlocked
  <2> QED BY <1>8, <2>2, <2>3 DEF TestWaitQueue
<1> QED
  BY <1>1, <1>2, <1>3, <1>4, <1>5, <1>6, <1>7, <1>8 DEF MutexThread

\* The actions of the semaphores leave it alone.
LEMMA SemThreadStep ==
  ASSUME TypeOK, NEW t \in Pcb, SemThread(t), UNCHANGED mutexVars
  PROVE  MutexStep
<1> USE DEF TypeOK, SchedulerTypeOK, ThreadStep
<1>0. SUFFICES SameOwners({}) /\ SameClearers({})
  BY DEF MutexStep, Leaves
<1>1. ASSUME NEW p \in SemPoint \cup {"rem_block", "app_woken"}, Goto(t, p),
             pc[t] \in SemPoint \cup {"op"}
      PROVE  SameOwners({}) /\ SameClearers({})
  <2>1. p \in Point /\ p \notin Unlocked /\ pc[t] \notin Unlocked
        /\ p # "own" /\ pc[t] # "own" /\ p # "clear_locker" /\ pc[t] # "clear_locker"
    BY <1>1, Tables DEF Unlocked, Point, SemPoint
  <2> QED BY <1>1, <2>1, GotoOwners
<1>2. ASSUME pc[t] \in SemPoint, NextCall(t)
      PROVE  SameOwners({}) /\ SameClearers({})
  <2>1. Call(t).op \in {"wait", "signal"} /\ pc[t] # "clear_locker"
    <3>1. CallAt[pc[t]] \in {"wait", "signal"}
      BY <1>2, CallAtValues DEF SemPoint
    <3>2. pc[t] \in DOMAIN CallAt
      BY <1>2, Tables DEF SemPoint, Point
    <3> QED BY <1>2, <3>1, <3>2 DEF PointsOK, SemPoint
  <2> QED BY <1>2, <2>1, NextCallOwners
<1>3. ASSUME UNCHANGED <<pc, ip>>
      PROVE  SameOwners({}) /\ SameClearers({})
  BY <1>3 DEF SameOwners, SameClearers, Owns, Call
<1>4. CASE sem_wait(t) BY <1>4, <1>1 DEF sem_wait, Calls, At, SemPoint
<1>5. CASE StoreDec(t) BY <1>5, <1>1 DEF StoreDec, At, SemPoint
<1>6. CASE TestDec(t) BY <1>6, <1>1, <1>2 DEF TestDec, At, SemPoint
<1>7. CASE SetBlockerId(t) BY <1>7, <1>1 DEF SetBlockerId, At, SemPoint
<1>8. CASE DisableToBlock(t) BY <1>8, <1>1 DEF DisableToBlock, At, SemPoint
<1>9. CASE block(t) BY <1>9, <1>2 DEF block, At, SemPoint
<1>10. CASE BlocksAlone(t) BY <1>10, <1>3 DEF BlocksAlone, Crash
<1>11. CASE sem_signal(t) BY <1>11, <1>1 DEF sem_signal, Calls, At, SemPoint
<1>12. CASE StoreInc(t) BY <1>12, <1>1 DEF StoreInc, At, SemPoint
<1>13. CASE TestInc(t) BY <1>13, <1>1, <1>2 DEF TestInc, At, SemPoint
<1>14. CASE Walk(t) BY <1>14, <1>1, <1>2 DEF Walk, At, SemPoint
<1>15. CASE ClearBlockerId(t) BY <1>15, <1>1 DEF ClearBlockerId, At, SemPoint
<1>16. CASE LoadPending(t) BY <1>16, <1>1 DEF LoadPending, At, SemPoint
<1>17. CASE StorePending(t) BY <1>17, <1>2 DEF StorePending, At, SemPoint
<1>18. CASE LoadHead(t) BY <1>18, <1>1 DEF LoadHead, At, SemPoint
<1>19. CASE Advance(t) BY <1>19, <1>1 DEF Advance, At, SemPoint
<1> QED
  BY <1>4, <1>5, <1>6, <1>7, <1>8, <1>9, <1>10, <1>11, <1>12, <1>13, <1>14, <1>15,
     <1>16, <1>17, <1>18, <1>19 DEF SemThread

\* So do those of the scheduler; a new thread comes without the lock, and one
\* that is reaped has given it back.
LEMMA SchedulerThreadStep ==
  ASSUME TypeOK, NEW t \in Pcb, SchedulerThread(t), UNCHANGED mutexVars
  PROVE  MutexStep
<1> USE DEF TypeOK, SchedulerTypeOK
<1>0. SUFFICES SameOwners({}) /\ SameClearers({})
  BY DEF MutexStep, Leaves
<1>1. CASE yield(t)
  BY <1>1, NextCallOwners DEF yield, Calls, At
<1>2. CASE create_kernel_thread(t)
  <2>1. PICK n \in {u \in Pcb : pc[u] \in {"none", "dead"}} :
          /\ pc' = [pc EXCEPT ![t] = "app_all", ![n] = "op"]
          /\ ip' = [ip EXCEPT ![n] = 1]
    BY <1>2 DEF create_kernel_thread
  <2>2. pc[t] = "op" /\ n # t
    BY <1>2, <2>1 DEF create_kernel_thread, Calls, At
  <2>3. Owns(t)' <=> Owns(t)
    BY <2>1, <2>2 DEF Owns, Unlocked, Call
  <2>4. ~Owns(n)
    <3>1. CASE pc[n] = "none"
      BY <3>1, BracketAssumption DEF Owns, Bracketed, Call, PointsOK
    <3>2. CASE pc[n] = "dead"
      <4>1. Call(n).op = "return"
        BY <3>2, Tables, CallAtValues DEF PointsOK, Point
      <4> QED BY <3>2, <4>1, BracketAssumption DEF Owns, Bracketed, Call, PointsOK
    <3> QED BY <2>1, <3>1, <3>2
  <2>5. ~Owns(n)'
    BY <2>1, <2>2, BracketAssumption DEF Owns, Bracketed, Call
  <2>6. \A u \in Pcb \ {t, n} : Owns(u)' <=> Owns(u)
    BY <2>1 DEF Owns, Call
  <2>7. SameClearers({})
    BY <2>1, <2>2 DEF SameClearers
  <2> QED BY <2>3, <2>4, <2>5, <2>6, <2>7 DEF SameOwners
<1>3. CASE Jump(t)
  <2>1. PICK i \in Call(t).to : ip' = [ip EXCEPT ![t] = i]
    BY <1>3 DEF Jump
  <2>2. pc[t] = "op" /\ Call(t).op = "goto" /\ pc' = pc
    BY <1>3 DEF Jump, Calls, At
  <2>3. Prog[t][i].holds = Call(t).holds
    BY <2>2, BracketAssumption DEF Bracketed, Call, PointsOK
  <2>4. Owns(t)' <=> Owns(t)
    BY <2>1, <2>2, <2>3 DEF Owns, Call
  <2> QED BY <2>1, <2>2, <2>4 DEF SameOwners, SameClearers, Owns, Call
<1>4. CASE get_line(t)
  BY <1>4, NextCallOwners DEF get_line, Calls, At
<1>5. CASE Return(t)
  <2>1. pc[t] = "op" /\ Goto(t, "reap")
    BY <1>5 DEF Return, Calls, At
  <2> QED BY <2>1, GotoOwners DEF Unlocked, Point
<1>6. CASE reap(t)
  <2>1. pc[t] = "reap" /\ Goto(t, "dead")
    BY <1>6 DEF reap, At
  <2> QED BY <2>1, GotoOwners DEF Unlocked, Point
<1>7. CASE UNCHANGED <<pc, ip>>
  BY <1>7 DEF SameOwners, SameClearers, Owns, Call
<1>8. CASE SpinUnlock(t)
  <2>1. pc[t] \in DOMAIN CalledList
    BY <1>8 DEF SpinUnlock, PointsOK
  <2>2. /\ pc[t] \notin {"own", "clear_locker"} /\ pc[t] \in DOMAIN CallAt
        /\ Call(t).op = CallAt[pc[t]]
    BY <2>1, Tables DEF PointsOK, Point
  <2>3. /\ Call(t).op \in {"unlock", "create", "signal"}
        /\ Call(t).op = "unlock" <=> pc[t] \in Unlocked
    BY <2>1, <2>2, Tables, CallAtValues DEF Unlocked
  <2>4. CASE NextCall(t)
    BY <2>2, <2>3, <2>4, NextCallOwners
  <2>5. CASE AfterCall[pc[t]] # "op" /\ Goto(t, AfterCall[pc[t]])
    <3>1. /\ AfterCall[pc[t]] \in Point
          /\ AfterCall[pc[t]] \notin {"own", "clear_locker"}
          /\ AfterCall[pc[t]] \in Unlocked <=> pc[t] \in Unlocked
      BY <2>1, <2>5, Tables DEF AfterCall, Unlocked
    <3> QED BY <2>2, <2>5, <3>1, GotoOwners
  <2> QED BY <1>8, <2>4, <2>5 DEF SpinUnlock
<1> QED
  BY <1>1, <1>2, <1>3, <1>4, <1>5, <1>6, <1>7, <1>8
  DEF SchedulerThread, SpinLock, ListBody, PopsNothing, Crash

\* Every step of the kernel.
LEMMA NextMutexStep ==
  ASSUME TypeOK, [Next]_vars
  PROVE  MutexStep
<1>1. CASE Schedule \/ UNCHANGED vars
  <2>1. UNCHANGED <<pc, ip, mutexVars>>
    BY <1>1 DEF Schedule, SchedulerStep, Tick, schedule, SwitchesToNothing, Crash,
                CheckBlockeds, check_blockeds, vars, schedVars
  <2> QED BY <2>1 DEF MutexStep, Leaves, SameOwners, SameClearers, Owns, Call
<1>2. ASSUME NEW t \in Pcb, Thread(t) PROVE MutexStep
  BY <1>2, SchedulerThreadStep, MutexThreadStep, SemThreadStep DEF Thread
<1> QED BY <1>1, <1>2 DEF Next

-----------------------------------------------------------------------------
(* The invariants.                                                         *)

MutexInv == MutualExclusion /\ LockerIsOwner

\* Initially nobody owns the lock.
LEMMA InitNobodyOwns == Init => \A t \in Pcb : ~Owns(t)
<1> SUFFICES ASSUME Init, NEW t \in Pcb PROVE ~Owns(t)
  OBVIOUS
<1>1. pc[t] \in {"op", "none"} /\ ip[t] = 1
  BY DEF Init, SchedulerInit
<1> QED BY <1>1, BracketAssumption DEF Owns, Bracketed, Call

LEMMA InitMutexInv == Init => MutexInv
BY InitNobodyOwns DEF Init, MutexInit, MutexInv, MutualExclusion, LockerIsOwner

\* Only one thread takes the lock, for it is 0 while anybody owns it, and only
\* the owner sets it back to 1.
LEMMA NextMutexInv == TypeOK /\ MutexInv /\ [Next]_vars => MutexInv'
<1> SUFFICES ASSUME TypeOK, MutexInv, [Next]_vars PROVE MutexInv'
  OBVIOUS
<1> USE DEF MutexInv, MutualExclusion, LockerIsOwner
<1>0. locker \in Ptr /\ NULL \notin Pcb
  BY NullAssumption DEF TypeOK, MutexTypeOK
<1>1. CASE Leaves
  BY <1>0, <1>1 DEF Leaves, SameOwners, SameClearers, mutexVars, Ptr
<1>2. ASSUME NEW t \in Pcb, Takes(t) PROVE MutexInv'
  BY <1>0, <1>2 DEF Takes, SameOwners, SameClearers, Ptr
<1>3. ASSUME NEW t \in Pcb, Records(t) PROVE MutexInv'
  BY <1>0, <1>3 DEF Records, SameOwners, SameClearers, Ptr
<1>4. ASSUME NEW t \in Pcb, Frees(t) PROVE MutexInv'
  BY <1>0, <1>4 DEF Frees, SameOwners, SameClearers, Ptr
<1>5. ASSUME NEW t \in Pcb, Clears(t) PROVE MutexInv'
  BY <1>0, <1>5 DEF Clears, SameOwners
<1> QED BY <1>1, <1>2, <1>3, <1>4, <1>5, NextMutexStep DEF MutexStep

\* Mutual exclusion: at most one thread is between its successful try_lock and
\* the store that frees the lock (process.c:218-238).
THEOREM MutexExcludes == Spec => []MutualExclusion
<1>1. Init => TypeOK /\ MutexInv
  BY InitType, InitMutexInv
<1>2. TypeOK /\ MutexInv /\ [Next]_vars => (TypeOK /\ MutexInv)'
  BY NextType, NextMutexInv
<1>3. MutexInv => MutualExclusion
  BY DEF MutexInv
<1> QED BY <1>1, <1>2, <1>3, PTL DEF Spec

\* The locker field (process.c:233, 239) never names a thread that has neither
\* the lock nor that field still to clear.
THEOREM LockerOwns == Spec => []LockerIsOwner
<1>1. Init => TypeOK /\ MutexInv
  BY InitType, InitMutexInv
<1>2. TypeOK /\ MutexInv /\ [Next]_vars => (TypeOK /\ MutexInv)'
  BY NextType, NextMutexInv
<1>3. MutexInv => LockerIsOwner
  BY DEF MutexInv
<1> QED BY <1>1, <1>2, <1>3, PTL DEF Spec

-----------------------------------------------------------------------------
(* The refinement.                                                         *)

MayChange == \E t \in Pcb : L!mutex_lock(t) \/ L!mutex_unlock(t)

\* A step of the kernel locks the abstract lock, unlocks it or leaves it.
LEMMA NextLock ==
  ASSUME TypeOK, MutexInv, MutexInv', [Next]_vars
  PROVE  [MayChange]_Owners
<1>1. MutualExclusion /\ MutualExclusion'
  BY DEF MutexInv
<1>2. ASSUME SameOwners({}) PROVE UNCHANGED Owners
  BY <1>2 DEF SameOwners, Owners
<1>3. ASSUME NEW t \in Pcb, Takes(t) PROVE L!mutex_lock(t)
  <2>1. lock = 1 /\ Owns(t)'
    BY <1>3 DEF Takes
  <2>2. \A u \in Pcb : ~Owns(u)
    BY <1>1, <2>1 DEF MutualExclusion
  <2>3. \A u \in Pcb : Owns(u)' => u = t
    BY <1>1, <2>1 DEF MutualExclusion
  <2>4. Owners = {} /\ Owners' = {t}
    BY <2>1, <2>2, <2>3 DEF Owners
  <2> QED BY <2>4 DEF L!mutex_lock, L!Unlocked, L!LockedBy
<1>4. ASSUME NEW t \in Pcb, Frees(t) PROVE L!mutex_unlock(t)
  <2>1. Owns(t) /\ ~Owns(t)' /\ SameOwners({t})
    BY <1>4 DEF Frees
  <2>2. \A u \in Pcb : Owns(u) => u = t
    BY <1>1, <2>1 DEF MutualExclusion
  <2>3. \A u \in Pcb : ~Owns(u)'
    BY <2>1, <2>2 DEF SameOwners
  <2>4. Owners = {t} /\ Owners' = {}
    BY <2>1, <2>2, <2>3 DEF Owners
  <2> QED BY <2>4 DEF L!mutex_unlock, L!Unlocked, L!LockedBy
<1> QED
  BY <1>2, <1>3, <1>4, NextMutexStep
  DEF MayChange, MutexStep, Leaves, Records, Clears

\* mutex_lock and mutex_unlock (process.c:215-247) implement the abstract lock.
THEOREM MutexImplementsLock == Spec => LockSpec
<1>1. Init => TypeOK /\ MutexInv /\ L!Unlocked
  BY InitType, InitMutexInv, InitNobodyOwns DEF L!Unlocked, Owners
<1>2. TypeOK /\ MutexInv /\ [Next]_vars => (TypeOK /\ MutexInv)'
  BY NextType, NextMutexInv
<1>3. TypeOK /\ MutexInv /\ MutexInv' /\ [Next]_vars => [MayChange]_Owners
  BY NextLock
<1> QED BY <1>1, <1>2, <1>3, PTL DEF Spec, LockSpec, L!OneAtATime, MayChange
-----------------------------------------------------------------------------
(* Wake-ups.  With one semaphore a signal that has found val > 0 is worth  *)
(* two: the thread it wakes, and the bit that it may leave set.  What a    *)
(* thread in sem_signal has not yet spent is owed to it.                   *)

\* Threads that may still wake a thread and set the bit, and those that may
\* still set the bit.
OwedTwo == {t \in Pcb : pc[t] \in {"load_head", "walk", "advance", "rem_block", "clear_id"}}
OwedOne == {t \in Pcb : pc[t] \in {"app_woken", "load_pending", "store_pending"}}

WakesInv ==
  wakes + Cardinality(sems_pending) + 2 * Cardinality(OwedTwo) + Cardinality(OwedOne)
    <= 2 * signals

\* The six things a step of the kernel does to these.
Nothing   == UNCHANGED <<OwedTwo, OwedOne, wakes, signals, sems_pending>>
Signals   == \E t \in Pcb : /\ OwedTwo' = OwedTwo \cup {t} /\ signals' = signals + 1
                            /\ UNCHANGED <<OwedOne, wakes, sems_pending>>
FindsNone == \E t \in Pcb : /\ OwedTwo' = OwedTwo \ {t}
                            /\ UNCHANGED <<OwedOne, wakes, signals, sems_pending>>
Wakes     == \E t \in OwedTwo : /\ OwedTwo' = OwedTwo \ {t} /\ OwedOne' = OwedOne \cup {t}
                                /\ wakes' = wakes + 1 /\ UNCHANGED <<signals, sems_pending>>
Flips     == \E t \in OwedOne : /\ OwedOne' = OwedOne \ {t} /\ sems_pending' \in SUBSET Sem
                                /\ UNCHANGED <<OwedTwo, wakes, signals>>
WakesLate == \E s \in sems_pending : /\ sems_pending' = sems_pending \ {s}
                                     /\ wakes' \in {wakes, wakes + 1}
                                     /\ UNCHANGED <<OwedTwo, OwedOne, signals>>

WakeStep == Nothing \/ Signals \/ FindsNone \/ Wakes \/ Flips \/ WakesLate

\* Each of them keeps the invariant.
LEMMA WakeStepKeeps ==
  ASSUME TypeOK, TypeOK', NSems = 1, WakesInv, WakeStep
  PROVE  WakesInv'
<1> DEFINE c == Cardinality(sems_pending)
           d == Cardinality(OwedTwo)
           e == Cardinality(OwedOne)
<1>1. /\ IsFiniteSet(OwedTwo) /\ IsFiniteSet(OwedOne) /\ IsFiniteSet(Sem)
      /\ Cardinality(Sem) = 1
  <2>1. Sem = {0}
    BY DEF Sem
  <2>2. OwedTwo \in SUBSET Pcb /\ OwedOne \in SUBSET Pcb
    BY DEF OwedTwo, OwedOne
  <2> QED
    BY <2>1, <2>2, PcbAssumption, FS_Subset, FS_Singleton
<1>2. \A S \in SUBSET Sem : IsFiniteSet(S) /\ Cardinality(S) <= 1 /\ Cardinality(S) \in Nat
  BY <1>1, FS_Subset, FS_CardinalityType
<1>3. /\ sems_pending \in SUBSET Sem /\ sems_pending' \in SUBSET Sem
      /\ wakes \in Nat /\ signals \in Nat
  BY DEF TypeOK, SchedulerTypeOK, SemTypeOK
<1>4. c \in Nat /\ d \in Nat /\ e \in Nat /\ wakes + c + 2 * d + e <= 2 * signals
      /\ Cardinality(sems_pending') \in Nat /\ Cardinality(sems_pending') <= 1
  BY <1>1, <1>2, <1>3, FS_CardinalityType DEF WakesInv
<1> DEFINE d1 == Cardinality(OwedTwo')
           e1 == Cardinality(OwedOne')
           c1 == Cardinality(sems_pending')
<1>5. WakesInv' <=> wakes' + c1 + 2 * d1 + e1 <= 2 * signals'
  BY DEF WakesInv
<1> HIDE DEF c, d, e, c1, d1, e1
<1>6. CASE Nothing
  BY <1>4, <1>5, <1>6 DEF Nothing, c, d, e, c1, d1, e1
<1>7. CASE Signals
  <2>1. PICK t \in Pcb : /\ OwedTwo' = OwedTwo \cup {t} /\ signals' = signals + 1
                         /\ UNCHANGED <<OwedOne, wakes, sems_pending>>
    BY <1>7 DEF Signals
  <2>2. d1 <= d + 1 /\ d1 \in Nat /\ e1 = e /\ c1 = c
    <3>1. d1 = IF t \in OwedTwo THEN d ELSE d + 1
      BY <1>1, <2>1, FS_AddElement DEF d, d1
    <3> QED
      BY <1>4, <2>1, <3>1 DEF e, e1, c, c1
  <2> QED
    BY <1>3, <1>4, <1>5, <2>1, <2>2
<1>8. CASE FindsNone
  <2>1. PICK t \in Pcb : /\ OwedTwo' = OwedTwo \ {t}
                         /\ UNCHANGED <<OwedOne, wakes, signals, sems_pending>>
    BY <1>8 DEF FindsNone
  <2>2. d1 <= d /\ d1 \in Int /\ e1 = e /\ c1 = c
    <3>1. d1 = IF t \in OwedTwo THEN d - 1 ELSE d
      BY <1>1, <2>1, FS_RemoveElement DEF d, d1
    <3> QED
      BY <1>4, <2>1, <3>1 DEF e, e1, c, c1
  <2> QED
    BY <1>3, <1>4, <1>5, <2>1, <2>2
<1>9. CASE Wakes
  <2>1. PICK t \in OwedTwo : /\ OwedTwo' = OwedTwo \ {t} /\ OwedOne' = OwedOne \cup {t}
                             /\ wakes' = wakes + 1 /\ UNCHANGED <<signals, sems_pending>>
    BY <1>9 DEF Wakes
  <2>2. d1 = d - 1 /\ e1 <= e + 1 /\ e1 \in Int /\ c1 = c
    <3>1. d1 = d - 1
      BY <1>1, <2>1, FS_RemoveElement DEF d, d1
    <3>2. e1 = IF t \in OwedOne THEN e ELSE e + 1
      BY <1>1, <2>1, FS_AddElement DEF e, e1
    <3> QED
      BY <1>4, <2>1, <3>1, <3>2 DEF c, c1
  <2> QED
    BY <1>3, <1>4, <1>5, <2>1, <2>2
<1>10. CASE Flips
  <2>1. PICK t \in OwedOne : /\ OwedOne' = OwedOne \ {t}
                             /\ UNCHANGED <<OwedTwo, wakes, signals>>
    BY <1>10 DEF Flips
  <2>2. e1 = e - 1 /\ d1 = d
    BY <1>1, <2>1, FS_RemoveElement DEF d, d1, e, e1
  <2>3. c1 <= 1 /\ c1 \in Nat
    BY <1>4 DEF c1
  <2> QED
    BY <1>3, <1>4, <1>5, <2>1, <2>2, <2>3
<1>11. CASE WakesLate
  <2>1. PICK s \in sems_pending : /\ sems_pending' = sems_pending \ {s}
                                  /\ wakes' \in {wakes, wakes + 1}
                                  /\ UNCHANGED <<OwedTwo, OwedOne, signals>>
    BY <1>11 DEF WakesLate
  <2>2. c1 = c - 1 /\ d1 = d /\ e1 = e
    BY <1>2, <1>3, <2>1, FS_RemoveElement DEF c, c1, d, d1, e, e1
  <2>3. signals' = signals /\ (wakes' = wakes \/ wakes' = wakes + 1)
    BY <2>1
  <2>4. wakes' + c1 + 2 * d1 + e1 <= 2 * signals'
    BY <1>3, <1>4, <2>2, <2>3
  <2> QED
    BY <1>5, <2>4
<1> QED
  BY <1>6, <1>7, <1>8, <1>9, <1>10, <1>11 DEF WakeStep
Two == {"load_head", "walk", "advance", "rem_block", "clear_id"}
One == {"app_woken", "load_pending", "store_pending"}

\* A step that moves only thread t changes what only t is owed.
LEMMA OwedAt ==
  ASSUME NEW t \in Pcb, \A u \in Pcb \ {t} : pc'[u] = pc[u]
  PROVE  /\ OwedTwo' = IF pc'[t] \in Two THEN OwedTwo \cup {t} ELSE OwedTwo \ {t}
         /\ OwedOne' = IF pc'[t] \in One THEN OwedOne \cup {t} ELSE OwedOne \ {t}
BY DEF OwedTwo, OwedOne, Two, One

LEMMA OwedSame ==
  ASSUME UNCHANGED <<wakes, signals, sems_pending>>,
         \A u \in Pcb : /\ pc'[u] \in Two <=> pc[u] \in Two
                        /\ pc'[u] \in One <=> pc[u] \in One
  PROVE  Nothing
BY DEF Nothing, OwedTwo, OwedOne, Two, One

\* A move of t within or outside these points.
LEMMA OwedMove ==
  ASSUME pc \in [Pcb -> Point], NEW t \in Pcb, NEW p, pc' = [pc EXCEPT ![t] = p],
         UNCHANGED <<wakes, signals, sems_pending>>,
         p \in Two <=> pc[t] \in Two, p \in One <=> pc[t] \in One
  PROVE  Nothing
<1>1. pc'[t] = p /\ \A u \in Pcb \ {t} : pc'[u] = pc[u]
  OBVIOUS
<1> QED
  BY <1>1, OwedSame

LEMMA SchedulerWakes ==
  ASSUME TypeOK, NEW t \in Pcb, SchedulerThread(t), UNCHANGED semVars
  PROVE  Nothing
<1> USE DEF cpuVars, listVars, wakeVars, semVars, Goto, NextCall, At, Calls, Two, One
<1>0. pc \in [Pcb -> Point]
  BY DEF TypeOK, SchedulerTypeOK
<1>1. CASE yield(t)
  BY <1>0, <1>1, OwedMove DEF yield
<1>2. CASE create_kernel_thread(t)
  <2>1. PICK n \in {u \in Pcb : pc[u] \in {"none", "dead"}} :
          pc' = [pc EXCEPT ![t] = "app_all", ![n] = "op"]
    BY <1>2 DEF create_kernel_thread
  <2>2. ASSUME NEW u \in Pcb
        PROVE  pc'[u] = pc[u] \/ (pc[u] \in {"op", "none", "dead"} /\ pc'[u] \in {"op", "app_all"})
    BY <1>0, <1>2, <2>1 DEF create_kernel_thread
  <2> QED
    BY <1>2, <2>2, OwedSame DEF create_kernel_thread
<1>3. CASE Jump(t)
  BY <1>3, OwedSame DEF Jump
<1>4. CASE get_line(t)
  BY <1>0, <1>4, OwedMove DEF get_line
<1>5. CASE Return(t)
  BY <1>0, <1>5, OwedMove DEF Return
<1>6. CASE reap(t)
  BY <1>0, <1>6, OwedMove DEF reap
<1>7. CASE SpinLock(t)
  BY <1>7, OwedSame DEF SpinLock
<1>8. CASE ListBody(t)
  BY <1>8, OwedSame DEF ListBody
<1>9. CASE PopsNothing(t)
  BY <1>9, OwedSame DEF PopsNothing, Crash
<1>10. CASE SpinUnlock(t)
  <2>1. pc[t] \in DOMAIN CalledList /\ UNCHANGED <<wakes, signals, sems_pending>>
    BY <1>10 DEF SpinUnlock, TypeOK, PointsOK
  <2>2. pc' = [pc EXCEPT ![t] = AfterCall[pc[t]]]
    BY <1>10 DEF SpinUnlock
  <2>3. (AfterCall[pc[t]] \in Two <=> pc[t] \in Two) /\ (AfterCall[pc[t]] \in One <=> pc[t] \in One)
    <3>1. AfterCall["pop_wait"] = "push_run" /\ AfterCall["push_run"] = "op"
          /\ AfterCall["app_all"] = "app_run" /\ AfterCall["app_run"] = "op"
          /\ AfterCall["rem_block"] = "clear_id" /\ AfterCall["app_woken"] = "load_pending"
      BY DEF AfterCall
    <3> QED
      BY <2>1, <3>1, Tables
  <2> QED
    BY <1>0, <2>1, <2>2, <2>3, OwedMove
<1> QED
  BY <1>1, <1>2, <1>3, <1>4, <1>5, <1>6, <1>7, <1>8, <1>9, <1>10 DEF SchedulerThread

LEMMA MutexWakes ==
  ASSUME TypeOK, NEW t \in Pcb, MutexThread(t), UNCHANGED semVars
  PROVE  Nothing
<1> USE DEF cpuVars, listVars, wakeVars, semVars, Goto, NextCall, At, Calls, Two, One
<1>0. pc \in [Pcb -> Point]
  BY DEF TypeOK, SchedulerTypeOK
<1>1. CASE try_lock(t)
  BY <1>0, <1>1, OwedMove DEF try_lock
<1>2. CASE SetLocker(t)
  BY <1>0, <1>2, OwedMove DEF SetLocker
<1>3. CASE DisableToSleep(t)
  BY <1>0, <1>3, OwedMove DEF DisableToSleep
<1>4. CASE Sleep(t)
  BY <1>0, <1>4, OwedMove DEF Sleep
<1>5. CASE SleepsAlone(t)
  BY <1>5, OwedSame DEF SleepsAlone, Crash
<1>6. CASE mutex_unlock(t)
  BY <1>0, <1>6, OwedMove DEF mutex_unlock
<1>7. CASE ClearLocker(t)
  BY <1>0, <1>7, OwedMove DEF ClearLocker
<1>8. CASE TestWaitQueue(t)
  <2>1. CASE Goto(t, "pop_wait")
    BY <1>0, <1>8, <2>1, OwedMove DEF TestWaitQueue
  <2>2. CASE NextCall(t)
    BY <1>0, <1>8, <2>2, OwedMove DEF TestWaitQueue
  <2> QED
    BY <1>8, <2>1, <2>2 DEF TestWaitQueue
<1> QED
  BY <1>1, <1>2, <1>3, <1>4, <1>5, <1>6, <1>7, <1>8 DEF MutexThread

LEMMA SemWakes ==
  ASSUME TypeOK, TypeOK', NEW t \in Pcb, SemThread(t)
  PROVE  WakeStep
<1> USE DEF cpuVars, listVars, wakeVars, semVars, Goto, NextCall, At, Calls, Two, One, ThreadStep
<1>0. pc \in [Pcb -> Point] /\ sems_pending' \in SUBSET Sem
  BY DEF TypeOK, SchedulerTypeOK
<1>1. CASE sem_wait(t)
  BY <1>0, <1>1, OwedMove DEF sem_wait, WakeStep
<1>2. CASE StoreDec(t)
  BY <1>0, <1>2, OwedMove DEF StoreDec, WakeStep
<1>3. CASE TestDec(t)
  <2>1. CASE Goto(t, "set_id")
    BY <1>0, <1>3, <2>1, OwedMove DEF TestDec, WakeStep
  <2>2. CASE NextCall(t)
    BY <1>0, <1>3, <2>2, OwedMove DEF TestDec, WakeStep
  <2> QED
    BY <1>3, <2>1, <2>2 DEF TestDec
<1>4. CASE SetBlockerId(t)
  BY <1>0, <1>4, OwedMove DEF SetBlockerId, WakeStep
<1>5. CASE DisableToBlock(t)
  BY <1>0, <1>5, OwedMove DEF DisableToBlock, WakeStep
<1>6. CASE block(t)
  BY <1>0, <1>6, OwedMove DEF block, WakeStep
<1>7. CASE BlocksAlone(t)
  BY <1>7, OwedSame DEF BlocksAlone, Crash, WakeStep
<1>8. CASE sem_signal(t)
  BY <1>0, <1>8, OwedMove DEF sem_signal, WakeStep
<1>9. CASE StoreInc(t)
  BY <1>0, <1>9, OwedMove DEF StoreInc, WakeStep
<1>10. CASE TestInc(t)
  <2>1. CASE Goto(t, "load_head") /\ signals' = signals + 1
    <3>1. pc'[t] = "load_head" /\ pc[t] = "test_inc" /\ \A u \in Pcb \ {t} : pc'[u] = pc[u]
      BY <1>0, <1>10, <2>1 DEF TestInc
    <3>2. OwedTwo' = OwedTwo \cup {t} /\ OwedOne' = OwedOne \ {t} /\ t \notin OwedOne
      BY <3>1, OwedAt DEF OwedOne
    <3>3. Signals
      BY <1>10, <2>1, <3>2 DEF TestInc, Signals
    <3> QED
      BY <3>3 DEF WakeStep
  <2>2. CASE NextCall(t) /\ UNCHANGED signals
    BY <1>0, <1>10, <2>2, OwedMove DEF TestInc, WakeStep
  <2> QED
    BY <1>10, <2>1, <2>2 DEF TestInc
<1>11. CASE Walk(t)
  <2>1. CASE NextCall(t)
    <3>1. pc'[t] = "op" /\ pc[t] = "walk" /\ \A u \in Pcb \ {t} : pc'[u] = pc[u]
      BY <1>0, <1>11, <2>1 DEF Walk
    <3>2. OwedTwo' = OwedTwo \ {t} /\ OwedOne' = OwedOne \ {t} /\ t \notin OwedOne
      BY <3>1, OwedAt DEF OwedOne
    <3>3. FindsNone
      BY <1>11, <3>2 DEF Walk, FindsNone
    <3> QED
      BY <3>3 DEF WakeStep
  <2>2. CASE Goto(t, "rem_block")
    BY <1>0, <1>11, <2>2, OwedMove DEF Walk, WakeStep
  <2>3. CASE Goto(t, "advance")
    BY <1>0, <1>11, <2>3, OwedMove DEF Walk, WakeStep
  <2> QED
    BY <1>11, <2>1, <2>2, <2>3 DEF Walk
<1>12. CASE ClearBlockerId(t)
  <2>1. pc'[t] = "app_woken" /\ pc[t] = "clear_id" /\ \A u \in Pcb \ {t} : pc'[u] = pc[u]
    BY <1>0, <1>12 DEF ClearBlockerId
  <2>2. OwedTwo' = OwedTwo \ {t} /\ OwedOne' = OwedOne \cup {t} /\ t \in OwedTwo
    BY <2>1, OwedAt DEF OwedTwo
  <2>3. Wakes
    BY <1>12, <2>2 DEF ClearBlockerId, Wakes
  <2> QED
    BY <2>3 DEF WakeStep
<1>13. CASE LoadPending(t)
  BY <1>0, <1>13, OwedMove DEF LoadPending, WakeStep
<1>14. CASE StorePending(t)
  <2>1. /\ pc'[t] = "op" /\ pc[t] = "store_pending" /\ UNCHANGED <<wakes, signals>>
        /\ \A u \in Pcb \ {t} : pc'[u] = pc[u]
    BY <1>0, <1>14 DEF StorePending
  <2>2. OwedTwo' = OwedTwo \ {t} /\ OwedOne' = OwedOne \ {t} /\ t \in OwedOne /\ t \notin OwedTwo
    BY <2>1, OwedAt DEF OwedOne, OwedTwo
  <2>3. OwedTwo' = OwedTwo /\ sems_pending' \in SUBSET Sem
    BY <1>0, <2>2
  <2>4. /\ OwedOne' = OwedOne \ {t} /\ sems_pending' \in SUBSET Sem
        /\ UNCHANGED <<OwedTwo, wakes, signals>>
    BY <2>1, <2>2, <2>3
  <2>5. Flips
    BY <2>2, <2>4, Zenon DEF Flips
  <2> QED
    BY <2>5 DEF WakeStep
<1>15. CASE LoadHead(t)
  BY <1>0, <1>15, OwedMove DEF LoadHead, WakeStep
<1>16. CASE Advance(t)
  BY <1>0, <1>16, OwedMove DEF Advance, WakeStep
<1> QED
  BY <1>1, <1>2, <1>3, <1>4, <1>5, <1>6, <1>7, <1>8, <1>9, <1>10, <1>11, <1>12, <1>13, <1>14,
     <1>15, <1>16
  DEF SemThread

LEMMA ScheduleWakes ==
  ASSUME TypeOK, Schedule
  PROVE  WakeStep
<1> USE DEF cpuVars, listVars, wakeVars, semVars
<1>1. CASE Tick /\ UNCHANGED semVars
  BY <1>1, OwedSame DEF Tick, WakeStep
<1>2. CASE schedule /\ UNCHANGED semVars
  BY <1>2, OwedSame DEF schedule, WakeStep
<1>3. CASE SwitchesToNothing /\ UNCHANGED semVars
  BY <1>3, OwedSame DEF SwitchesToNothing, Crash, WakeStep
<1>4. CASE CheckBlockeds
  <2>1. /\ UNCHANGED <<pc, signals>> /\ wakes' = IF mem' # mem THEN wakes + 1 ELSE wakes
    BY <1>4 DEF CheckBlockeds, check_blockeds
  <2>2. UNCHANGED <<OwedTwo, OwedOne>>
    BY <2>1 DEF OwedTwo, OwedOne
  <2>3. CASE UNCHANGED <<mem, wakeVars>>
    BY <2>1, <2>3, OwedSame DEF WakeStep
  <2>4. CASE \E s \in sems_pending : sems_pending' = sems_pending \ {s}
    <3>1. WakesLate
      BY <2>1, <2>2, <2>4 DEF WakesLate
    <3> QED
      BY <3>1 DEF WakeStep
  <2>5. UNCHANGED <<mem, wakeVars>> \/ \E s \in sems_pending : sems_pending' = sems_pending \ {s}
    BY <1>4 DEF CheckBlockeds, check_blockeds
  <2> QED
    BY <2>3, <2>4, <2>5
<1> QED
  BY <1>1, <1>2, <1>3, <1>4 DEF Schedule, SchedulerStep

LEMMA NextWakes == TypeOK /\ TypeOK' /\ [Next]_vars => WakeStep
<1> SUFFICES ASSUME TypeOK, TypeOK', [Next]_vars PROVE WakeStep
  OBVIOUS
<1>1. CASE UNCHANGED vars
  BY <1>1, OwedSame DEF WakeStep, vars, schedVars, listVars, cpuVars, wakeVars, semVars
<1>2. ASSUME NEW t \in Pcb, Thread(t) PROVE WakeStep
  BY <1>2, SchedulerWakes, MutexWakes, SemWakes DEF Thread, WakeStep
<1> QED
  BY <1>1, <1>2, ScheduleWakes DEF Next

\* With one semaphore at most two threads are woken for every signal that found
\* val > 0, whatever the threads do (process.c:51-66, 81-90, 273-280).
THEOREM WakesBounded == Spec => []SpuriousWakesBounded
<1>1. CASE NSems = 1
  <2>1. Init => WakesInv
    <3> SUFFICES ASSUME Init PROVE WakesInv
      OBVIOUS
    <3>1. OwedTwo = {} /\ OwedOne = {} /\ sems_pending = {} /\ wakes = 0 /\ signals = 0
      BY DEF Init, SchedulerInit, SemInit, OwedTwo, OwedOne
    <3> QED
      BY <3>1, FS_EmptySet DEF WakesInv
  <2>2. TypeOK /\ TypeOK' /\ WakesInv /\ [Next]_vars => WakesInv'
    BY <1>1, NextWakes, WakeStepKeeps
  <2>3. TypeOK /\ WakesInv => SpuriousWakesBounded
    <3> SUFFICES ASSUME TypeOK, WakesInv PROVE wakes + Cardinality(sems_pending) <= 2 * signals
      BY DEF SpuriousWakesBounded
    <3>1. /\ IsFiniteSet(OwedTwo) /\ IsFiniteSet(OwedOne)
          /\ Cardinality(OwedTwo) \in Nat /\ Cardinality(OwedOne) \in Nat
      <4>1. OwedTwo \in SUBSET Pcb /\ OwedOne \in SUBSET Pcb
        BY DEF OwedTwo, OwedOne
      <4> QED
        BY <4>1, PcbAssumption, FS_Subset, FS_CardinalityType
    <3>2. wakes \in Nat /\ signals \in Nat /\ Cardinality(sems_pending) \in Nat
      <4>1. Sem = {0} /\ sems_pending \in SUBSET Sem
        BY <1>1 DEF Sem, TypeOK, SchedulerTypeOK
      <4>2. IsFiniteSet(sems_pending)
        BY <4>1, FS_Singleton, FS_Subset
      <4> QED
        BY <4>2, FS_CardinalityType DEF TypeOK, SemTypeOK
    <3> QED
      BY <3>1, <3>2 DEF WakesInv
  <2> QED
    BY <2>1, <2>2, <2>3, TypeCorrect, PTL DEF Spec
<1>2. CASE NSems # 1
  <2>1. SpuriousWakesBounded
    BY <1>2 DEF SpuriousWakesBounded
  <2> QED
    BY <2>1, PTL
<1> QED
  BY <1>1, <1>2
=============================================================================
