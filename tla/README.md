# PrimalOs: models, checks and proofs

PrimalOs is a small kernel for the Raspberry Pi 1 (one ARM11 core, no MMU
protection in use).  It has preemptive round-robin threads that share one
address space, mutexes and semaphores, a page allocator and a heap, drivers for
the USB keyboard, the SD card, the framebuffer and the UART, and a shell that
starts threads by name.  This directory holds TLA+ modules of its core and of its
drivers, the TLC runs that check them and proofs that TLAPS checks.

Paths are those of the repository: `process.c` is `src/kernel/process.c`,
`list.h` is `lib/kernel/list.h`, and so on.

    tlc -workers 2 -config mutex.cfg MCMutex      # one run
    tlapm KernelProofs.tla                        # one module of proofs

Contents: [1 The system](#1-the-system), [2 Modules](#2-modules),
[3 Runs](#3-runs), [4 Bounds](#4-bounds), [5 Fairness](#5-fairness),
[6 What the code does wrong](#6-what-the-code-does-wrong),
[7 Proofs](#7-proofs), [8 Not modelled](#8-not-modelled), [9 Plan](#9-plan).

## 1 The system

| Component | State | Operations | What makes it correct |
|---|---|---|---|
| Intrusive lists (`list.h`) | per list: head, tail, size, spin lock; per struct: ONE next, prev and container, whatever number of lists it is put on | append, push, pop, peek, next, size, remove | a list is a deque; size, tail and container agree with the chain |
| Scheduler (`process.c`, `context_switch.S`) | `current_process`, `run_queue`, `all_proc_list`, `block_queue`, the IRQ mask, the timer's compare register | `schedule`, `yield`, `create_kernel_thread`, `reap`, `context_switch` | a live thread is in one place; each gets the CPU again; only live threads run; no empty queue is popped |
| Mutex (`process.c`, `lock_asm.S`) | `lock`, `locker`, `wait_queue` | `mutex_lock`, `mutex_unlock` | mutual exclusion; a waiter is woken |
| Semaphores (`process.c`) | `val`, `id`; `sems_taken`, `sems_pending`; each thread's `blocker_id` | `sem_init`, `sem_wait`, `sem_signal`, `sem_destroy`, `block`, `wake_up`, `check_blockeds` | a signal wakes one waiter; none is lost |
| Interrupts and timer (`interrupts.c`, `timer.c`, `interrupt_vector.S`) | table of handlers, IRQ mask, pending matches | `irq_handler`, `register_irq_handler`, `timer_set` | a thread goes on where it was interrupted, with the mask it had |
| Threads (`kernel.c`, `system_user_threads.c`, `kerio.c`) | what each thread has done | the shell's loop, `thread1`, `thread2`, `synch1`, `synch2`, `empty`, `master_mind`, `metric`; `printf` and `getline` take `input_lock` | a thread that calls the API rightly gets on |
| Pages and heap (`mem.c`) | `all_pages`, `free_pages`; the heap's segments, a list in the memory it hands out | `page_alloc`, `page_free`, `mem_alloc`, `mem_free` | no memory is given out twice and none is lost |
| USB keyboard (`usb.c`) | device status, control and interrupt phase, `transfer_active`, `can_poll`, `line_buffer` and `cursor`, `enter_pressed` | the interrupt handler and clearer, `usb_poll`, `keyboard_enum`, `key_poll`, `get_line` | a line that is typed is returned whole; a poll ends |
| SD card (`sd_card.c`) | the struct `device`: address, kind, flags, blocks to move, the last command's success and error; the host's registers; the card's own state | `sd_card_init`, `sd_read_write`, command issue, data transfer, recovery | what is reported as moved was moved, to the right place; an error leaves the driver where it can try again |
| Mailbox, framebuffer, GPU | the two FIFOs; the screen's cursor | `mailbox_read`, `mailbox_send`, `framebuffer_init`, `gpu_init`, `gpu_putc` | an answer belongs to its request |
| Board power (`board_power.c`) | `bcm2835_power_mask` | `bcm2835_setpower` | the driver knows what is switched on |
| UART, boot, MMIO, atags | registers | straight-line I/O | - |
| Library (`src/common`) | none | `div`, `divmod`, `itoa`, `atoi`, `memcpy`, ... | each computes its function, and returns |

How they interact:

* `irq_handler` clears the timer match and calls `schedule()` on the stack of
  the thread it interrupted; `yield()` calls the same `schedule()`.
  `context_switch` sets the timer again.  The timer is one-shot.
* Every queue is an intrusive list of the same pcbs.  `mutex_lock` and `block`
  move the running thread from the CPU to their queue with IRQs disabled;
  `mutex_unlock` and `sem_signal` move a waiter back with IRQs *enabled*.
* `create_kernel_thread` and `reap` use the heap and the page allocator, and
  put a pcb on `all_proc_list`, which nothing ever reads.
* `printf` and `getline` hold `input_lock`; `getline` holds it while it polls the
  keyboard, whose handler fills `line_buffer`.  `printf` holds it while `itoa`
  divides.
* `usb_init` and `sd_card_init` have the GPU switch their device on, through the
  mailbox that `framebuffer_init` uses as well.

What is hard here: preemption between any two accesses of shared state; spin
locks on one CPU, wanted again with IRQs disabled; one pair of links for several
lists; a sleep that is decided before IRQs are disabled; the one-shot timer;
memory that is freed while it is linked, or under the walk of an allocation; a
processor without a division; cards and controllers that answer late, wrongly or
not at all.  `PROJECT.json` lists the hazards with
their lines.

## 2 Modules

| Module | Models | Extends |
|---|---|---|
| `PcbList` | the functions of `IMPLEMENT_LIST` as operators on a memory of links and headers | |
| `Scheduler` | scheduler, thread creation and reaping, spin locks of the lists, timer interrupt | `PcbList` |
| `Mutex` | `mutex_lock`, `mutex_unlock` on `input_lock` | `Scheduler` |
| `Semaphore` | `sem_wait`, `sem_signal`, `block`, `wake_up` | `Scheduler` |
| `Kernel` | the composition: `Init`, `Next`, fairness, properties | `Mutex`, `Semaphore` |
| `Exclusion` | abstract specification of the mutex | |
| `Deques` | abstract specification of the lists | |
| `ListMachine` | lists used as their links allow, refining `Deques` | `PcbList` |
| `KernelThreads` | the programs of the kernel's threads | |
| `MCMutex`, `MCShell`, `MCSemaphore` | instances for TLC | `Kernel` |
| `Keyboard` | the USB driver of the keyboard: interrupt handler and clearer, `usb_poll`, `keyboard_enum`, `key_poll`, `get_line`; the host channel, the port and the keyboard | |
| `MCKeyboard` | its instance for TLC | `Keyboard` |
| `Heap` | `mem_alloc` and `mem_free`, one step per turn of their loops | |
| `Allocator` | abstract specification of the heap | |
| `Memory` | the pages, and the heap and pages as `process_init`, `create_kernel_thread` and `reap` use them | `Heap` |
| `Division` | `div`, one step per turn of its loops | |
| `Library` | `itoa`, `atoi`, and the arithmetic of `metric` and `master_mind`, as sequences of divisions | `Division` |
| `Mailbox` | the mailboxes with the GPU, `framebuffer_init` and `bcm2835_setpower` | |
| `SdHost` | one command: `sd_issue_command` with the controller and the card | `Mailbox` |
| `SdCard` | `sd_card_init`, `sd_read_write` and what they call | `SdHost` |
| `MCMemory`, `MCLibrary`, `MCSdCard` | instances for TLC | |
| `PcbListProofs` | what the list functions do to links that hold sequences | `PcbList` |
| `ListMachineProofs` | proofs of `ListMachine` | `ListMachine`, `PcbListProofs` |
| `KernelProofs`, `QueueProofs` | types, mutex and semaphores; the queues of the scheduler | `Kernel`, `PcbListProofs` |
| `MemoryProofs` | proofs of `Heap` and `Memory` | `Memory` |
| `LibraryProofs` | proofs of `Division` and `Library` | `Library` |
| `KeyboardProofs`, `SdCardProofs` | proofs of the drivers | `Keyboard`, `SdCard` |

**Steps.**  There is one CPU, so a behaviour is a sequence of steps of the
current thread, of `schedule()`, and of the timer interrupt.  Code that runs with
IRQs enabled is cut into one step per access of shared state; `pc[t]` names the
point between two of them, and `Tick` may happen there.  Code that runs with IRQs
disabled, from `DISABLE_INTERRUPTS` to the end of `context_switch`, is one step:
nothing can happen inside.  `check_blockeds` is a loop of steps of its own, between
which nothing else is enabled.

**Lists.**  A `mem` is the links of all pcbs and the headers of all lists, and each
C function is an operator from a `mem` to a `mem`, as in the code including its
stores through stale links.  A store through the null pointer (`list.h:66` when
the list is empty, `list.h:99` when it becomes empty) goes to address 0, which on
this machine is mapped and holds the exception vectors; it changes no pcb and
is dropped.  *Popping* an empty list makes garbage of the queue and switches to the
thread at address 0: `fault` is set and the machine stops there.

**Spin locks.**  Functions called with IRQs enabled (`mutex_unlock`, `wake_up`,
`create_kernel_thread`) take three steps: `SpinLock`, `ListBody`, `SpinUnlock`, and
may be interrupted in between.  A function called with IRQs disabled needs the
lock to be free, and if it is not, the loop of `spin_lock` never ends: the step is
not enabled and the machine stands still.

**Threads.**  A thread's code is a sequence of calls, `Prog[t]`, read from
`kernel.c` and `system_user_threads.c` by `KernelThreads`.  `goto` stands for loops
and for branches on things that are not modelled; `busy` is a loop that calls
nothing (`empty`); `poll` is the body of `get_line`.

**Reading and writing `val` and `sems_pending`.**  `sem->val -= 1` is a load and a
store; `reg[t]` and `word[t]` are the registers in between.  `wake_up` walks `block_queue` in steps: the load of
the head, the test of a node, the load of its `next`.

**Keyboard.**  `Keyboard` stands beside the kernel's modules: `get_line` is one step of
theirs, and here the thread that calls it is cut into one step per access of what it
shares with the handler.  `usb_interrupt_clearer` and `usb_interrupt_handler` run with
IRQs masked and are one step, `Interrupt`, with one operator per branch of the
handler's switch.  The host channel is external: it executes the stage it is given
and halts.  A key is a character; a report is the sequence of those that
`buf_key_data_check` reads before the first byte that is none.
`usb_poll` is cut the same way, from the test of `can_poll` to the store that enables the channel
(`at` goes from `poll` to `program`), with the handler in between.  `poll_wait` delays
only between two calls of it, so the call that finds `can_poll` set may come at once after the handler has set
it, at the *start* of the last stage (`usb.c:335`), whatever the length of the delay.  Such a call is `Untimely`, and so is a poll
of `key_poll` that goes on after a disconnect between its two tests (`usb.c:628`).  What follows is in the model: the
halt of the old stage is taken for the new request's, the descriptor is read before it is there, or the
channel is programmed while it is busy.  What the hardware does then is not known; `clash` is set and the model
stops.

**Heap and pages.**  `hdr` maps every address of the heap to the header that is, or
was, stored there, so that the walk of `mem_alloc` reads what the code reads, also
from a header that was merged away.  `mem_alloc` runs with IRQs enabled and is cut into steps: the body of its
loop (`Test`) and the load of `next` (`Advance`), and in the split the load of `best->next` (`SaveNext`),
the store of the rest's address there (`LinkRest`), the stores of the rest's header (`FillRest`), that of the
size (`Shrink`) and that of the flag (`Allocate`).  `mem_free`
comes from `reap` with IRQs disabled, so its loops, once begun, exclude `mem_alloc`.  An
address counts headers of 16 bytes, to which `mem_alloc` rounds.  `damaged` is set
by the steps that destroy the list of segments, and the model ends there: what the
code does with such a list depends on what lies behind a null pointer.  `page_alloc` is
one step, although it takes the spin lock of `free_pages`: that an interrupt inside it
makes `reap` spin for ever is the hazard `Scheduler` has for its own queues.

**Library.**  `div`, `divmod` and the `__aeabi_uidiv` that the compiler calls for `/` have
the same body, `Division`.  Each function that uses it is a sequence of calls.  Shifts
and negations wrap.  `Half` stands for 2^31.

**SD card.**  A step of `SdCard` is one command with all that `sd_issue_command_int` makes
of it: `SdHost` computes the set of results, one for each thing the controller and the
card may do.  `card` is the card's own state (SD physical layer: idle, ready,
ident, stby, tran, data, rcv), external to the repository, with what the driver
has set in it; `device` is the driver's struct.  The controller is of one of three sorts:
`quiet` shows nothing when a command is not answered, the others report it, and a `slow` one
needs more than a second to reset its command line.  An application command is two steps,
`Announce` for its APP_CMD.  A *fault* is a lost command, a garbled or late answer, a
failing transfer, a GPU that does not obey, or another card in the slot.  After a late
answer the next command reads its flag as its own success (`stale`), and the words it reads
are those of another command: the model lets them be anything.  A lost GO_IDLE_STATE, which
has no answer, is a success to the driver (`Lost`), and the card stays what it was.  A command refused for too many
blocks leaves `last_error` as the command before has set it (`sd_card.c:329`).  `mailbox_send` and
`bcm2835_mailbox_write` wait on the status of the mailbox that is *read* (`mailbox.c:29`), so for room in `from_gpu`.

## 3 Runs

| Run | Module | Instance | Shows |
|---|---|---|---|
| `mutex` | `MCMutex` | shell that prints and yields, two threads that print once, `empty`; preemption everywhere, spin locks included | `TypeOK`, `MutualExclusion`, `LockerIsOwner`, `NoThreadLost`, `QueueConsistent`, `IrqsOnInThreads`, `NullOnlyInUnlock`; the mutex implements `Exclusion` (`LockSpec`); `RoundRobin` under fairness |
| `shell` | `MCShell` | the shell creates threads that print, return and are reaped, no `empty` | `CurrentIsLive` holds although queues get corrupted |
| `handshake` | `MCSemaphore` | `synch1` and `synch2` with two semaphores; not preempted inside the counting | `NoThreadLost`, `Synch2Finishes` under fairness |
| `signals` | `MCSemaphore` | two waiters, one semaphore signalled twice, preemption everywhere | `SpuriousWakesBounded` |
| `lists` | `ListMachine` | four nodes on two lists | `HeadersAgree`, and lists implement deques (`DequesSpec`) |
| `keyboard` | `MCKeyboard` | a keyboard that is plugged in, enumerated, typed on, pulled out and put in again; `usb_poll` called at any moment | `TypeOK`, `OneTransfer`, `PollStartsFresh`, `KnowsDevice`, `FirstReportAtMost`, `AtMostOnePast`; `EnumEnds` and `EnterReturns` under fairness |
| `memory` | `MCMemory` | seven threads created one after the other and reaped at any moment, also between two steps of `mem_alloc`'s walk and split, until memory, pages or pids run out | `TypeOK`, `SegmentsTile`, `BestFit`, `PcbsAreBlocks`, `StacksDistinct`; the heap implements `Allocator` (`AllocatorSpec`); `WalkEnds` under fairness |
| `library` | `MCLibrary` | words of ten bits; every number printed in both bases, `metric` and `master_mind` around the boundaries | `DivIsQuotient`, `TextReadsBack`, `PercentBounds`; `CallsReturn` under fairness |
| `sd_card` | `MCSdCard` | initialisations, reads and writes of five sizes, every kind of card and controller, up to two faults | `TypeOK`, `SuccessMovesAll`, `InitNeedsSilence`, `PoweredWhenUsed`, `ClockInRange`; `Recovery` under fairness |
| `create_loses_thread` | `MCShell` | the shell creates threads | finding: `NoThreadLost` is violated |
| `waiter_left_asleep` | `MCMutex` | as `mutex`, preempted before a sleep | finding: `FreeLockWakesWaiter` is violated |
| `lost_wake_up` | `MCSemaphore` | as `handshake`, preempted everywhere | finding: `Synch2Finishes` is violated |

`CHECK_DEADLOCK FALSE` stands in the runs of the kernel because the machine does stop
there: at a null pop, in a spin lock that is never released, or when every thread
has returned but one that waits; in `keyboard`
because it waits for a keyboard or, for ever, for one that was pulled out; in `memory` because the
list of segments is destroyed in the end or `MaxThreads` threads were made.  `lists`, `library` and
`sd_card` check deadlock.

Each property has a mutant: a definition next to the original, with the change a
slip in the C code would make (the `while` of `mutex_lock` as an `if`, no
`timer_set` in `context_switch`, no reset of `tail`, ...), under which the same
run finds the property violated.

## 4 Bounds

* **Threads.**  Four pcbs at most.  Three contenders are the smallest number at
  which a woken waiter can lose the race for the lock to a third thread, and an
  unlocker can meet another unlocker; the fourth is `empty`.
* **`TickAt`**, the points at which the timer may interrupt.  `Everywhere` in
  `mutex` and `signals`.  Elsewhere it leaves out points whose preemption breaks the
  code in a way another run already shows (section 6), to ask what holds
  when that does not happen.
* **`TickInSpin`**, whether it may interrupt a list function that holds a spin
  lock.  When it does and `schedule()` wants the same lock, the machine stands
  still.  `RoundRobin` is worded up to that; the runs of semaphores' liveness do
  without.
* **`MaxProcs`**, the length of `all_proc_list`, which only grows: four, so that one
  pcb is made, reaped and its memory used again.
* **`NSems`**, one or two of 32: `kernel_main` takes two.
* **`BufLen`**, three characters for 256, and `RepLen`, two keys of a report for six:
  a report may just fill the buffer, overflow it, or meet it full.  `LineLen`, two, is
  the caller's buffer: shorter, equal and longer lines occur.  `Leftover` is
  the byte read past a full report.
* **`MaxTyped`**, three characters on a line before enter must come: as many as the
  buffer holds, so that enter may find it full; the byte read past a full report makes more.
* **`Patient`**: the three delays of 2 s that `keyboard_enum` makes after a request (`Settle`) outlast that request,
  which takes milliseconds.  Nothing is assumed of the 200 ms of `poll_wait`, which lie between two tests of
  `can_poll` and not between the test and the channel.
* The keyboard is pulled out only after its enumeration, and is put in again only
  after the driver has noticed and the channel is at rest.
* `val`, `wakes` and `signals` are bounded by the programs.
* **`memory`.**  A heap of 17 headers holds five pcbs of 3 with a rest of 2, which is
  too small to be split off, so that both ways to take a segment occur; it begins
  inside a page of 4, as `kernel_end_addr` may.  `MaxPid` is 4 for 256 and `MaxThreads` 7, so that pids pass the
  limit and pages or memory run out first or last.
* **`library`.**  `Half` is 512: all 1024 numbers are printed in both bases, and `Times` lie
  at 0, at the divisors near 32 and 100, and on both sides of 512 and 1024.  The proof
  covers every width.
* **`sd_card`.**  `MaxBlocks` is 2 for 0xffff and `BlockSize` 2 for 512, so `Sizes` are less than a
  block, one, one and a half, two, and too many.  Two faults (`MaxFaults`) are what the
  properties need to be interesting: one to leave something behind, one to go wrong over it.  The theorems on
  `PoweredWhenUsed`, `InitNeedsSilence` and `MovesItsBlocks` have no bound on faults.
  A controller that reports no base clock (`BaseClocks` is 0, as on this board) gets the
  100 MHz the driver assumes.  A mailbox holds one message (`BoxSize`), so that writers do wait.
  A card with 1.8 V is SDHC and one that is SDHC is of version 2 (`Kinds`).

## 5 Fairness

* `WF_vars(CpuStep)`: the CPU executes; a step that stays enabled is taken.
  Only `get_line` is left out, since nobody has to press enter.
* `SF_vars(TimerStep)`: a match of the compare register stays pending while IRQs
  are masked, and is delivered once they are enabled.  IRQs are masked again and
  again by other threads' calls, so weak fairness would be too little; the hardware
  latches the match, so strong fairness is right.
* `ThreadFairSpec` adds strong fairness of each thread's steps: a quantum of 10 ms is
  long enough for a thread that has the CPU again and again to get a step
  done.  Without it the timer might interrupt a thread before its first
  instruction each time.

* In `Keyboard`, weak fairness of the thread (the kernel gives it the CPU again and
  again, `RoundRobin`), of the interrupt and of the end of a stage.  Nobody has
  to plug in or to type: `EnterReturns` *assumes* that the keyboard stays in and that
  enter comes again and again as long as it is polled.
* In `Memory`, weak fairness of the walk of `mem_alloc`, whose thread gets the CPU
  again and again, and of `mem_free`, which IRQs do not interrupt.  Nobody has to create or
  to return.
* In `Library`, weak fairness of the function that has been called.
* In `SdCard`, weak fairness of the driver's thread and of the GPU.  `ServedCall` is also fair:
  `Recovery` is about a caller that tries again.  The card and the controller answer
  each command or do not; the waits for the command and data lines to be free are taken to end.

## 6 What the code does wrong

Three findings are runs of their own, with the line each contradicts in
`PROJECT.json`:

1. `create_kernel_thread` appends a pcb to `all_proc_list` (`process.c:193`) and to
   `run_queue` (194).  A pcb has one pair of links, so the first append writes the
   `next` field of the last pcb created, wherever that is: a thread waiting
   in the middle of a queue is cut off from those behind it.
2. `mutex_lock` decides to sleep at `process.c:218` and disables IRQs at 221.  An unlock
   in between wakes nobody, and the thread sleeps on a free mutex until
   somebody else locks and unlocks it.
3. `sem_wait` counts at `process.c:270` and blocks at 272.  A signal in between finds
   nobody to wake.  (`sem_signal` remembers nothing: it flips a bit of
   `sems_pending` only when it *has* found somebody.)

Five more are in the model, and either the words of a property name them or the bounds of
the passing runs avoid them:

* Two threads in `mutex_unlock` after its store of 1 may both find one waiter
  (`process.c:242-243`); the second pops an empty queue.  `NullOnlyInUnlock` says that
  nobody else does.
* A timer interrupt inside the spin lock of `run_queue` (`process.c:194`, 244): `schedule()`
  spins on it with IRQs disabled, for ever.  `RoundRobin` excepts it (`SpinsForEver`).
* `yield` of the only thread that is ready returns at `process.c:95` with IRQs
  disabled and they stay so until the next switch.  Any run of `IrqsOnInThreads`
  without `empty` shows it.
* `wake_up` flips (`^`) the bit of its semaphore instead of clearing it
  (`process.c:64`): called by `sem_signal` it *sets* it, and the next `schedule()` wakes
  a second thread.  `SpuriousWakesBounded` says how bad it gets.
* `remove_pcb` assigns to the node's own links (`list.h:123`, 128) where its
  neighbours' are meant, and leaves `size` alone.  Removing from the middle leaves the
  node reachable; `NoThreadLost` holds in `handshake` only because at most
  one thread is ever blocked there.

And in the keyboard's driver, as its properties are worded:

* A report that comes while `get_line` empties its buffer (`usb.c:684-686`) is lost or
  becomes zeros from some character on (`FirstReportAtMost`).
* A line of just `len` characters puts the final 0 one past the caller's buffer
  (`usb.c:708`, `AtMostOnePast`).
* `usb_poll` may find `can_poll` set while the last stage of the request before is executed
  (`usb.c:335`), and programs the busy channel or takes the halt of that stage for the end of the new
  request.  `key_poll` may do the same after a disconnect between its two tests (628).  `OneTransfer` says that
  nothing else does; `KnowsDevice` and `EnterReturns` claim nothing after it, and `EnumEnds` nothing after the
  busy channel is programmed.
* Six keys held are read as seven (`usb.c:78`).
* A keyboard that is pulled out and put in again is never polled again, and `get_line`
  waits for ever with `input_lock` held (`usb.c:428`, 687): `EnterReturns` does not
  hold without its first assumption.

In the memory (`damaged` marks the first four; the properties of the heap, and that pcbs are distinct, hold until then):

* A free next to the free tail of the heap goes through a null pointer: the merge to
  the right steps on before it adds (`mem.c:263-267`), the merge to the left stores through
  `seg->next` (257).  Nearly every history of frees ends there.
* A split leaves the `prev` of the segment behind stale (`mem.c:236-239`).
* A `mem_free` under the walk of `mem_alloc` may merge away the segment it has chosen.
* A `mem_free` between the load of `best->next` (`mem.c:234`) and the store of the rest's address (235)
  may merge the segment behind into the one that is split (or that one into its neighbour).  The rest then
  gets the saved pointer, to a dead header inside itself, for its `next`: segments overlap, an address
  is handed out twice, and a segment may become its own next.
* `page_free(stack, -1)` clears the entry of the stack's page but appends `all_pages[-1]`
  (`mem.c:203`): the page is lost, and what lies before the table is on the list.
* A thread with a pid of 256 or more has no stack (`mem.c:171`), and a full heap puts a pcb at
  address 0; `create_kernel_thread` tests neither.

In the library:

* A dividend of 2^31 or more, or the divisor 0, makes `div` loop for ever once `denom` has
  overflowed to 0 (`stdlib.c:17-20`): `%x` of a word with the top bit, with `input_lock` held, and
  `master_mind` for half of all random numbers.  `Terminates` names the calls that return.
* `metric` divides by a quotient that is 0 when the total is less than the system's time.

In the SD card's driver, which `kernel_main` does not start yet (`kernel.c:54`):

* `sd_reset_cmd` and `sd_reset_dat` report a failure when the reset has worked
  (`sd_card.c:174`, 190): with a controller that reports unanswered commands no card is ever
  initialised.  `InitNeedsSilence` states this.
* More than 0xffff blocks are refused (329), and so is every later command, CMD0 included
  (`Poisoned`).
* An SDHC card whose answer to CMD8 was missed stays busy in the endless loop of ACMD41
  (860, `WaitsForBusy`).
* A failed voltage switch calls `sd_card_init` from itself without a bound; the flag of
  support for 1.8 V is inverted (867), so only a card that offers it unasked gets there.
* The address is kept when an initialisation fails after it was stored (1013, 1150): the next
  call takes the card for initialised and skips the block length and the bus width.
  `SuccessMovesAll` excepts the block length then (`cut_short`).
* The flag of a late answer counts as the next command's success (356).  Five such answers in a row, from
  CMD5 to ACMD41, make the driver read from the wrong answer whether the card is SDHC, and
  it then addresses blocks in the wrong unit; TLC finds this with `MaxFaults = 5`.
  `SuccessMovesAll` claims the unit only after fewer faults (`FewFaults`).
* The divisor of the clock is reduced, not increased, when the division leaves a remainder
  (215): `ClockInRange` claims only base clocks without one.

## 7 Proofs

`tlapm` proves, for every number of threads, every program of calls, every set of
points of preemption, every width of a word, every size of heap, pages and pcb, and every
bound:

| Theorem | Says | Assumes besides |
|---|---|---|
| `ListMachineProofs!ListHeaders` | `Spec => []HeadersAgree` | |
| `ListMachineProofs!ListsAreDeques` | `Spec => DequesSpec` | |
| `KernelProofs!TypeCorrect` | `Spec => []TypeOK` | |
| `KernelProofs!MutexExcludes` | `Spec => []MutualExclusion` | |
| `KernelProofs!LockerOwns` | `Spec => []LockerIsOwner` | |
| `KernelProofs!MutexImplementsLock` | `Spec => LockSpec` | |
| `KernelProofs!WakesBounded` | `Spec => []SpuriousWakesBounded` | |
| `QueueProofs!ThreadsInOnePlace` | `Spec => []NoThreadLost` | `MutexOnly` |
| `QueueProofs!QueuesConsistent` | `Spec => []QueueConsistent` | `MutexOnly` |
| `QueueProofs!RunsTheLiving` | `Spec => []CurrentIsLive` | `MutexOnly` |
| `QueueProofs!ThreadsRunInterruptible` | `Spec => []IrqsOnInThreads` | `MutexOnly`, `SomebodyLoops` |
| `QueueProofs!PopsNothingElsewhere` | `Spec => []NullOnlyInUnlock` | `MutexOnly`, `SomebodyLoops` |
| `MemoryProofs!HeapTypes` | `HeapSpec => []HeapTypeOK` | |
| `MemoryProofs!HeapIsTiled` | `HeapSpec => []SegmentsTile` | |
| `MemoryProofs!HeapBlocksDisjoint` | `HeapSpec => []BlocksDisjoint` | |
| `MemoryProofs!HeapFindsBest` | `HeapSpec => []BestFit` | |
| `MemoryProofs!HeapImplementsAllocator` | `HeapSpec => AllocatorSpec` | |
| `MemoryProofs!MemoryTypes` | `Spec => []TypeOK` | |
| `MemoryProofs!MemoryPcbs` | `Spec => []PcbsAreBlocks` | |
| `MemoryProofs!MemoryStacks` | `Spec => []StacksDistinct` | |
| `MemoryProofs!MemoryStacksOutside` | `Spec => []StacksOutsideHeap` | |
| `LibraryProofs!DivTypes` | `DivSpec => []DivTypeOK` | |
| `LibraryProofs!DivisionCorrect` | `DivSpec => []DivIsQuotient` | |
| `LibraryProofs!ShareInBounds` | `Spec => []PercentBounds` | `Half > 100` |
| `LibraryProofs!PrintsReadable` | `Spec => []TextReadsBack` | `IsPower2(Half)`, `Half > 100` |
| `KeyboardProofs!KeyboardTypes` | `Spec => []TypeOK` | |
| `KeyboardProofs!LinesFit` | `Spec => []AtMostOnePast` | |
| `KeyboardProofs!LineIsTyped` | `Spec => []FirstReportAtMost` | |
| `KeyboardProofs!PollsStartFresh` | `Spec => []PollStartsFresh` | |
| `KeyboardProofs!ChannelShared` | `Spec => []OneTransfer` | `Patient` |
| `KeyboardProofs!DeviceKnown` | `Spec => []KnowsDevice` | `Patient` |
| `SdCardProofs!CardTypeOK` | `Spec => []TypeOK` | |
| `SdCardProofs!CardPowered` | `Spec => []PoweredWhenUsed` | |
| `SdCardProofs!SuccessMovesBlocks` | `Spec => []MovesItsBlocks` | |
| `SdCardProofs!SuccessMoves` | `Spec => []SuccessMovesAll` | |
| `SdCardProofs!ClockServed` | `Spec => []ClockInRange` | |
| `SdCardProofs!PromptControllerFails` | `Spec => []InitNeedsSilence` | |

With these every invariant and every refinement that a passing run checks has a theorem.

Assumptions: those the modules name (`ListAssumption`, `BootAssumption`,
`SemsAssumption`, `ProgAssumption`, `TickAssumption`, `NullAssumption`, `PcbAssumption`,
`InitValAssumption`, `WordAssumption`, `TimesAreWords`, `HeapAssumption`, `MemoryAssumption`,
`CharAssumption`, `SizeAssumption`, `BoundAssumption`, `BoxAssumption`, `SdAssumption`,
`CallsAssumption`, `ClockAssumption`), and
`BracketAssumption`: a program calls `mutex_unlock` exactly while it holds the lock, as the
threads of the repository do.  `MemoryAssumption` has one conjunct that is more than a type: there
are as many free pages as pids, as on the board.  `ClockAssumption` is the host's register: its field
for the base clock has eight bits and counts MHz.  `PcbAssumption`: there are finitely many pcbs.
TLC evaluates all of them in the runs.

The hypotheses of the last column belong to their theorems:

* `MutexOnly`: no program creates threads or uses semaphores.  This is what the `mutex` run is about, and
  what the code allows: with `create_kernel_thread` `NoThreadLost` is false
  (`create_loses_thread`), and `remove_pcb` breaks the chain of `block_queue` when several threads are blocked.
  Any number of threads, the points of preemption, spin locks included, and all programs of `lock`,
  `unlock`, `yield`, `poll`, `busy` and `goto` remain.
* `SomebodyLoops`: one thread of the boot sequence is in a loop that calls nothing, as `empty` of
  `kernel.c` is.  Without it the only thread that is ready gets IRQs disabled (section 6).
* `Half > 100` and `IsPower2(Half)`: a word holds the 100 of `metric` and 16, and its
  size is a power of two, so that the hexadecimal digits are those of the number.
* `Patient`: the delays of 2 s outlast the request before them (section 4).  `ChannelShared` and `DeviceKnown` are about
  what happens before, and besides, the two untimely starts of a transfer; neither assumes that they do not occur.

*Type correctness.*  `TypeOK` is inductive with one part that is more than a type:
`PointsOK`, that a thread at a point of a call is making that call.  Without it the
operand of a step (`Call(t).sem`) is not known to exist, nor that a list function is
called with a pcb.  `PcbListProofs` has one lemma per list function, that it maps
memories to memories; `KernelProofs` has a lemma per group of actions.

*Mutual exclusion.*  `MutualExclusion` is not inductive: a thread owns the mutex by
where it is in its program, so the proof needs that the lock's word is 1 exactly
when nobody owns it.  The invariant says: `lock \in {0, 1}`, an owner implies the word is
0, there is at most one owner, and `locker` names the owner or a thread about to
clear it.  Every step of the kernel either leaves the owners, the word and `locker`
alone, or is one of the mutex's five; a lemma per module sorts the steps
(`MutexThreadStep`, `SemThreadStep`, `SchedulerThreadStep`), and `NextMutexInv` then has
one case per kind.  Preemption, sleeping and waking do not appear: the argument
does not depend on the scheduler at all, which is why exclusion survives the corruption
of queues that `shell` meets.

*Lists.*  `Queues(m, L, q)` (`PcbListProofs`) relates the links and headers of a memory to one sequence per
list: no node is twice on the lists of `L`, each `next` leads to the successor, the last one's is
null, and the containers, tails and sizes are those of the sequences.  There is a lemma per C function: on
links that hold sequences, `append` is `Append`, `push` puts in front, `pop` is `Tail`.  `ListsAreDeques`
follows from these, since a chain is determined by the links: `Queue` of `ListMachine` reads it from a recursive
function whose values are found by an argument on the least position at which a claim fails.

*Queues.*  `QueueInv` says that the links hold two sequences, those of `run_queue` and of the mutex's
`wait_queue`, and that every live thread is exactly one of: on the CPU, on one sequence once,
in the hand of the one thread that has popped it and is about to append it (`Placed`).  Each step of the kernel does one
of five things to `Placed`: nothing, a switch, an append of what is in a hand, a pop to a hand, an end; there is a
lemma for each and one per action that says which it does.  `ReadyInv` adds that a thread which never calls the kernel is
always on the CPU or ready, so that `schedule` finds a queue that is not empty, returns with IRQs enabled and pops nothing.

*Wakes.*  A signal is worth two wakes: the thread that `sem_signal` has found, and the one that the bit which its `wake_up`
leaves set costs at the next `check_blockeds`.  `WakesInv` adds up the wakes, the bits that are set and what the threads inside
`sem_signal` have not yet spent (`OwedTwo`, `OwedOne`): never more than two for a signal.  Each step of the kernel moves one of these to the next.

*Refinement.*  `Owners`, the threads between a successful `try_lock` and the store of 1 at `process.c:238`, maps the
state to `Exclusion`'s; that `try_lock` is the abstract `mutex_lock`, the store is `mutex_unlock`, all else stutters.

*Library.*  `DivIsQuotient` is about the last state only.  `ValueInv` relates every
turn to it, for a dividend below the top bit: `current` is a power of two (or, in the
end, 0), `denom` is the divisor times `current`, and `answer` times the divisor with what is left of the
dividend, less than twice `denom`, makes `n`.  It needs that a doubling
of a divisor that is at most the dividend stays in the word, and that halving a power of two
other than 1 loses nothing.  For `PercentBounds` the two divisions of `metric` are multiplied out.  `TextReadsBack` is about
folds over the text.  While `itoa` runs, `Digits` says that the buffer holds the digits of what has been taken off the
number: there are numbers, from the whole down to what is left, of which each is the quotient of the one before.
A fold is a recursive function, hence a `CHOOSE`; that the function exists, and what it computes on these
digits, is shown with the least index at which it would fail (`FoldExists`, `FoldFollows`), since the induction
theorems of the library cannot be instantiated here.

*Heap.*  `SegmentsTile` is not inductive: a split relies on what the walk has found some
steps before, with frees in between.  `HeapInv` adds that a block in use lies in an allocated
segment of its own (`BlocksInSegments`), that what the walk has chosen, if it is still a segment, is free
and as large as `best_diff` says or larger by what was merged into it (`WalkIsSound`), and that
`mem_free` works on a free segment (`MergeIsSound`); and, for each point of a split, what of it is stored and that the
saved pointer is still `best->next`, or a free has made it stale and the next step says so (`SavedIsStale`).  There is a lemma per action: the two
segments of a split, and the one of a merge, tile what the old ones tiled; while the rest is linked and not yet a segment, `Behind`
says where `next` leads.  A free that comes then finds its `prev` pointing at a segment whose `next` is not itself, which is
one of the failing merges.  *Refinement*:
`mem_alloc`'s last step is `Alloc` of a block that lies in a free segment, hence apart from the
others; `mem_free`'s first is `Free`; what destroys the list is `Break`; all else stutters.

*Best fit.*  `QuietWalk` describes the walk of `mem_alloc` as long as no `mem_free` has come in: what is chosen is the first of
the smallest free segments that fit among those already passed.

*Memory.*  A step of `Memory` is a step of `Heap` or leaves it alone, so that `HeapInv` carries
over.  `MemoryInv` adds which page each pid gets: pages leave the free list in order and
none comes back, since `page_free` appends the entry before the first, so pid n has the
n-th page behind the heap's; and that the pcb under construction is a block that no live thread
has.  It is that defect of `page_free` which makes the stacks distinct for so simple a reason.

*Keyboard.*  `PhaseInv` says why `key_poll` finds phase 0: while polls are on, no transfer is
active unless it is in a phase the handler will take to its end, and a disconnect, the one thing
that cuts a transfer off, turns polls off in the same interrupt.  It needs nothing of time.  The other two
properties do: `ChannelInv`, `DeviceInv` and `EnumInv`, together `Timely`, hold as long as no transfer was started before the last
one was over (`untimely`) and the delays of 2 s outlast a request (`Patient`, which the theorems assume), and need each other.  They say
that from the test of `can_poll` to the programming of the channel no stage is executed and no interrupt is pending, because
the test found none and nothing but the thread can start one; that the driver is past a
request only when the keyboard has executed its status stage or is just doing so; and which request each turn
of the enumeration has in hand, whether or not its last interrupt has been served.  Every step that is not untimely keeps them, so that
`OneTransfer` follows: the first transfer that meets a busy channel, or that is lost to the halt of the one before, is one of the two.
`LineInv` is about the line: after its first report no poll is in progress while `get_line` empties the buffer
(`Late`), so that there is at most one such report; while `bzero` runs, the report has its characters from some `w` up
to the byte that is next replaced by zeros (`Wiping`); from then on the buffer shows the first report as it is left, or not at all, and the
others whole, as far as there is room (`Collecting`).

*SD card.*  `PoweredWhenUsed` needs to know what is in the mailboxes: one message for the call in
progress, the mask wanted or what the GPU made of it (`InFlight`), whence the driver's mask is the GPU's
whenever none is under way (`PowerInv`).  A read goes straight to a command when the driver has an
address, so the invariant also says that a call which keeps an address leaves the card powered, failed
voltage switches included.  For `MovesItsBlocks` a lemma goes through all results of a command: one
that succeeds with data counts every block (`CommandResult`); the rest is that `device.blocks` is that of the buffer
at each try.  For `ClockInRange` the invariant is which divisor goes
with which state of the card, and that a power of two that is at least a quotient serves the clock.  `InitNeedsSilence` has as its invariant how far the driver gets behind a controller
that works: to CMD5, and from there to the end of the call (`SilenceInv`).

`SuccessMovesAll` claims the unit of addresses for histories with at most four faults, so its invariant (`CardInv`) counts them.  The flag of a late answer comes only with a fault,
and is still there after a command that succeeds only with one more (`LateInv`): it takes five to carry it from CMD5 past ACMD41.
A card that has not heard GO_IDLE_STATE has cost a fault too, which is then not left for that (`Spare`).
Hence after four the card is idle until ACMD41 has ended, and once it is past that the driver knows its unit
(`UnitInv`).  `LenInv` says when the card's block length is 512 or `cut_short` holds, and `MovedInv` that what is reported was moved by
a command that the card took with this unit and this length.

TLC checked `WakesInv`, `QueueInv`, `LineInv` and `CardInv` as invariants before they were proved, `CardInv` with up to
five faults.

Only model-checked: `NoThreadLost` in `handshake`, where semaphores are used, and `CurrentIsLive` in `shell`,
where threads are created: the theorems on these two exclude such programs.  And all liveness: `RoundRobin`,
`Synch2Finishes`, `EnumEnds`, `EnterReturns`, `WalkEnds`, `CallsReturn` and `Recovery`.  Liveness under fairness and
ENABLED are beyond the prover that is used here.

## 8 Not modelled

* Registers and stacks: `context_switch` is reduced to the point a thread has
  reached.  That its two halves save and restore the same frame is not checked.
* Interrupts other than the timer's.  While `irq_handler` runs IRQs are masked, so the
  USB handler is one step; it touches only the state of `usb.c`, and `Keyboard`
  models it.
* What a fault handler does after a null pop (it prints and loops, and printing
  takes the mutex).
* In the scheduler's modules, the failure of `mem_alloc` and `page_alloc` in
  `create_kernel_thread`, which `Memory` models.
* Output, delays, computations, the commands the shell recognises.
* `sem_init` beyond the initial state, and `sem_destroy`, which nothing calls.
* In `usb.c`: the controller's reset and start-up, the fields of the descriptors, address
  and endpoint numbers, key repeat (a key held is reported by each poll, which is one of the
  reports the model allows), a stage that fails, the delays.
* In `mem.c`: the two levels of page tables, which nothing uses while the MMU is off, and
  the copies of bytes.
* In the library: bases 2 and 8, the sequence of `rand`, `memcpy`, `bzero` and the string
  functions.
* In the SD card's driver: the handlers of card interrupts, `sd_read_cid_or_csd` and
  `sd_log_regs`, which nothing calls, the DMA that is commented out, and the words of a block.
* `send_messages` (`mailbox.c`), `bcm2835_power_init` and `peek_list`, which have no caller.
* Hardware bring-up: boot, UART, MMIO, tags, pixels.

## 9 Plan

Done: lists, scheduler, mutex and semaphores; the keyboard; heap and pages;
division and conversions; mailbox, board power and SD card; the theorems of §7 on each.  Left, in order:

1. `NoThreadLost` with semaphores, as long as at most one thread is blocked; `CurrentIsLive` with
   `create_kernel_thread`, over links that no longer hold sequences.
2. `sem_init` and `sem_destroy` with the 32 ids of `sems_taken`.
3. In `Keyboard`, a stage that fails and a keyboard pulled out during its enumeration.

Composition that is foreseen: `Memory` under the scheduler's `create_kernel_thread` and `reap`; `Keyboard`
refining the kernel's `get_line`.
