---------------------------- MODULE MCSemaphore ----------------------------
(***************************************************************************)
(* The threads of kernel.c that meet through semaphores, with the shell    *)
(* that prints and yields, and the empty thread.                            *)
(***************************************************************************)
EXTENDS Kernel, TLC

CONSTANTS t0, s1, s2, te

T == INSTANCE KernelThreads

MCPcb  == {t0, s1, s2, te}
MCBoot == <<s1, s2, te>>
MCProg == (t0 :> T!printf \o T!Yield \o T!Goto({1})) @@ (s1 :> T!synch1(<<>>))
          @@ (s2 :> T!synch2(<<>>)) @@ (te :> T!empty)

\* Two threads wait for one semaphore, which kernel_main's thread signals twice
\* before it waits as well; nobody is always ready to run.
Waiters     == {t0, s1, s2}
BootWaiters == <<s1, s2>>
MCSignals   == (t0 :> T!Signal(0) \o T!Signal(0) \o T!Wait(0) \o T!Yield \o T!Goto({4}))
               @@ (s1 :> T!Wait(0) \o T!Return) @@ (s2 :> T!Wait(0) \o T!Return)

\* kernel_main initialises both semaphores with 1 (kernel.c:59).
MCInitVal == [s \in Sem |-> 1]

Synch2Finishes == Finishes(s2)

\* Bound: not while sem_wait counts and decides.
OutsideSemWait == Point \ {"store_dec", "test_dec", "set_id", "dis_block", "store_inc"}
Everywhere == Point

=============================================================================
