--------------------------- MODULE KernelThreads ---------------------------
(***************************************************************************)
(* The programs of the kernel's own threads, as calls of the kernel API:   *)
(* kernel_main's shell and synch1, synch2 and empty of src/kernel/kernel.c,*)
(* thread1, thread2 and master_mind of src/kernel/system_user_threads.c.   *)
(* Output, delays and computations are left out.                           *)
(***************************************************************************)
EXTENDS Integers, Sequences

LOCAL INSTANCE SequencesExt

LOCAL Call(op, holds) == [op |-> op, sem |-> 0, to |-> {}, holds |-> holds]
LOCAL One(op)         == << Call(op, FALSE) >>

input_request == 0   \* the ids sem_init gives to the first two semaphores
input_data    == 1

Wait(s)   == << [Call("wait", FALSE) EXCEPT !.sem = s] >>
Signal(s) == << [Call("signal", FALSE) EXCEPT !.sem = s] >>
Goto(to)  == << [Call("goto", FALSE) EXCEPT !.to = to] >>
Yield     == One("yield")
Create    == One("create")
Return    == One("return")
Busy      == One("busy")

\* printf and getline of src/kernel/kerio.c
printf  == << Call("lock", FALSE), Call("unlock", TRUE) >>
getline == << Call("lock", FALSE), Call("poll", TRUE), Call("unlock", TRUE) >>

\* The loop of kernel_main (kernel.c:77): a prompt and a line.  A name of a
\* thread creates it, any other text prints an error, and then, as after an
\* empty line, the shell yields.
shell ==
  printf \o getline \o Goto({7, 9, 11})
    \o Create \o Goto({11})
    \o printf
    \o Yield \o Goto({1})

\* thread1 and thread2: n prints.
thread(n) == FlattenSeq([i \in 1 .. n |-> printf]) \o Return

\* synch1 and synch2 print before each call; say is printf, or nothing.
synch1(say) == say \o Wait(input_request) \o say \o Signal(input_data) \o Goto({1})
synch2(say) == say \o Signal(input_request) \o say \o Wait(input_data) \o Return

empty == Busy
=============================================================================
