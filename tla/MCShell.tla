------------------------------ MODULE MCShell ------------------------------
(***************************************************************************)
(* The shell creating threads while others run, return and are reaped,     *)
(* with and without the empty thread.                                      *)
(***************************************************************************)
EXTENDS Kernel, TLC

CONSTANTS t0, t1, t2, te

T == INSTANCE KernelThreads

WithEmpty     == {t0, t1, t2, te}
BootWithEmpty == <<t1, te>>
NoEmpty       == {t0, t1, t2}
BootNoEmpty   == <<t1>>

MCProg == [t \in Pcb |-> CASE t = t0 -> T!shell
                           [] t = te -> T!empty
                           [] OTHER  -> T!thread(1)]

MCInitVal == [s \in Sem |-> 1]

BetweenCalls == {"op"}
=============================================================================
