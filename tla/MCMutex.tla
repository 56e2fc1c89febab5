------------------------------ MODULE MCMutex ------------------------------
(***************************************************************************)
(* The shell, two threads that print in turn with it and the empty thread. *)
(***************************************************************************)
EXTENDS Kernel, TLC

CONSTANTS t0, t1, t2, te

T == INSTANCE KernelThreads

MCPcb  == {t0, t1, t2, te}
MCBoot == <<t1, t2, te>>

\* The shell prints and yields for ever, the threads print once and return.
MCProg == (t0 :> T!printf \o T!Yield \o T!Goto({1})) @@ (t1 :> T!thread(1))
          @@ (t2 :> T!thread(1)) @@ (te :> T!empty)

MCInitVal == [s \in Sem |-> 1]

\* The same, and the shell prints only once.
MCOnce == [MCProg EXCEPT ![t0] = T!printf \o T!Yield \o T!Goto({3})]

\* The timer may interrupt everywhere.
Everywhere == Point

\* Only between two calls, and before a thread that has failed to take the lock
\* disables interrupts.
BeforeSleep == {"op", "dis"}

-----------------------------------------------------------------------------
\* process.c:241: "If there is anyone waiting on this, put them back in the run
\* queue": nobody sleeps for good on a mutex that is free.
FreeLockWakesWaiter ==
  \A t \in Pcb : LET asleep == \E k \in DOMAIN Chain("wait") : Chain("wait")[k] = t
                 IN  (asleep /\ lock = 1) ~> (~asleep \/ lock = 0)
=============================================================================
