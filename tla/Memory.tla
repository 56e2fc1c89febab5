------------------------------- MODULE Memory -------------------------------
(***************************************************************************)
(* The memory of threads: the pages of src/kernel/mem.c, its heap, and the *)
(* two functions of src/kernel/process.c that use them.  kernel_main       *)
(* creates threads, each with a pcb on the heap and a page for its stack;  *)
(* a thread that returns is reaped, with IRQs disabled, between any two    *)
(* steps of a creation.                                                    *)
(*                                                                         *)
(* A list of pages is the sequence of their indices: a page is on one list *)
(* only, and the lists are used as deques.                                 *)
(***************************************************************************)
EXTENDS Heap, Sequences

CONSTANTS
  PageSize,    \* PAGE_SIZE, in headers
  KernelEnd,   \* kernel_end_addr, in headers: where the heap begins
  NumPages,    \* num_pages
  PcbSize,     \* a pcb and its header, rounded up, in headers
  MaxPid,      \* proc_t_num_entries
  MaxThreads   \* bound: the threads ever created

\* get_needed_page_count
get_needed_page_count(total) ==
  IF total < PageSize THEN 1
  ELSE IF total % PageSize = 0 THEN total \div PageSize
  ELSE total \div PageSize + 1

\* mem_init: the kernel's pages, then the heap's, then the free ones.
FirstFree == get_needed_page_count(KernelEnd) + get_needed_page_count(HeapSize)

ASSUME MemoryAssumption ==
  /\ {PageSize, PcbSize, MaxPid} \subseteq Nat \ {0}
  /\ {KernelEnd, NumPages, MaxThreads} \subseteq Nat
  /\ FirstFree + MaxPid <= NumPages

Page     == 0 .. NumPages - 1
NullPage == 0            \* a null stack_page
Bogus    == -1           \* all_pages[-1], which page_free takes for a page

VARIABLES
  free_pages,      \* the list
  entry,           \* all_pages: is the page in use, and by which pid?
  next_proc_num,
  pcb,             \* at the address of a pcb: its pid and stack_page
  live,            \* the pcbs of the threads that may run, but for kernel_main's
  making           \* kernel_main: "no", in "alloc", in "page", or "lost"

pageVars   == <<free_pages, entry>>
threadVars == <<next_proc_num, pcb, live, making>>
vars       == <<heapVars, pageVars, threadVars>>

NoPid == [pid |-> 0, stack_page |-> NullPage]

\* After mem_init.  The pages of the heap have the pid 0 of the kernel.
Init ==
  /\ HeapInit
  /\ free_pages = [i \in 1 .. NumPages - FirstFree |-> FirstFree + i - 1]
  /\ entry = [p \in Page |-> [allocated |-> p < FirstFree, pid |-> 0]]
  /\ next_proc_num = 0
  /\ pcb = [a \in Addr |-> NoPid] /\ live = {} /\ making = "no"

-----------------------------------------------------------------------------
\* process_init makes the first pcb, and create_kernel_thread the others.
create_kernel_thread ==
  /\ making = "no" /\ next_proc_num <= MaxThreads
  /\ mem_alloc(PcbSize)
  /\ making' = "alloc"
  /\ UNCHANGED <<pageVars, next_proc_num, pcb, live>>

InAlloc == AllocStep /\ UNCHANGED <<pageVars, threadVars>>

\* The pcb gets its pid.  kernel_main has the stack of the boot.
NewPid ==
  /\ making = "alloc" /\ ret # Null /\ ~damaged
  /\ Return
  /\ pcb' = [pcb EXCEPT ![ret] = [NoPid EXCEPT !.pid = next_proc_num]]
  /\ next_proc_num' = next_proc_num + 1
  /\ making' = IF next_proc_num = 0 THEN "no" ELSE "page"
  /\ UNCHANGED <<pageVars, live>>

\* The result of mem_alloc is not tested: the fields of the pcb are stored over
\* the exception vectors at address 0.
NullPcb ==
  /\ making = "alloc" /\ ret = Null /\ ~damaged
  /\ Return
  /\ making' = "lost"
  /\ UNCHANGED <<pageVars, next_proc_num, pcb, live>>

\* Mutant of HasNoPage: one pid too many.
HasNoPageOffByOne(pid) == free_pages = <<>> \/ MaxPid < pid

HasNoPage(pid) == free_pages = <<>> \/ MaxPid <= pid

\* Mutant of page_alloc: the first page stays on the list.
page_alloc_peeks ==
  /\ making = "page" /\ MayRun
  /\ LET pid == pcb[ret].pid
     IN  IF HasNoPage(pid)
         THEN UNCHANGED <<pageVars, pcb>>
         ELSE /\ entry' = [entry EXCEPT ![Head(free_pages)] = [allocated |-> TRUE, pid |-> pid]]
              /\ pcb' = [pcb EXCEPT ![ret].stack_page = Head(free_pages)]
              /\ UNCHANGED free_pages
  /\ live' = live \cup {ret} /\ making' = "no"
  /\ UNCHANGED <<heapVars, next_proc_num>>

\* page_alloc, which fails for a pid that does not fit in its bits of an entry.
\* Its result is not tested either.  Then the thread is queued.  reap only appends
\* to the list and never stores to the page that is popped; that it may come while
\* the list's spin lock is held, and then waits for ever, is left out.
page_alloc ==
  /\ making = "page" /\ MayRun
  /\ LET pid == pcb[ret].pid
     IN  IF HasNoPage(pid)
         THEN UNCHANGED <<pageVars, pcb>>
         ELSE /\ entry' = [entry EXCEPT ![Head(free_pages)] = [allocated |-> TRUE, pid |-> pid]]
              /\ pcb' = [pcb EXCEPT ![ret].stack_page = Head(free_pages)]
              /\ free_pages' = Tail(free_pages)
  /\ live' = live \cup {ret} /\ making' = "no"
  /\ UNCHANGED <<heapVars, next_proc_num>>

\* page_free(stack, -1) clears the entry of the page and appends another: the
\* page is lost.
page_free(stack) ==
  /\ entry' = IF stack = NullPage
              THEN entry
              ELSE [entry EXCEPT ![stack] = [allocated |-> FALSE, pid |-> 0]]
  /\ free_pages' = Append(free_pages, Bogus)

\* Mutant of reap: the pcb is freed and the thread goes back to the run queue.
reap_requeues(t) ==
  /\ t \in live /\ making # "lost"
  /\ page_free(pcb[t].stack_page)
  /\ mem_free(t)
  /\ UNCHANGED <<threadVars>>

\* A thread has returned.
reap(t) ==
  /\ t \in live /\ making # "lost"
  /\ page_free(pcb[t].stack_page)
  /\ mem_free(t)
  /\ live' = live \ {t}
  /\ UNCHANGED <<next_proc_num, pcb, making>>

InFree == FreeStep /\ UNCHANGED <<pageVars, threadVars>>

Next ==
  \/ create_kernel_thread \/ InAlloc \/ NewPid \/ NullPcb \/ page_alloc
  \/ \E t \in Addr : reap(t)
  \/ InFree

Spec == Init /\ [][Next]_vars

\* mem_free runs with IRQs disabled, and kernel_main gets its turn.
FairSpec == Spec /\ WF_vars(InAlloc) /\ WF_vars(InFree)

-----------------------------------------------------------------------------
\* Every variable has its type: a pid fits in the bits that an entry has for it.
TypeOK ==
  /\ HeapTypeOK
  /\ free_pages \in Seq(Page \cup {Bogus})
  /\ entry \in [Page -> [allocated : BOOLEAN, pid : 0 .. MaxPid - 1]]
  /\ next_proc_num \in Nat
  /\ pcb \in [Addr -> [pid : Nat, stack_page : Page]]
  /\ live \subseteq Addr /\ making \in {"no", "alloc", "page", "lost"}

\* The pcbs of threads that may run are blocks of their own, and so is the one
\* under construction: reap has never freed one of them, and create_kernel_thread
\* is not given the address of one (process.c:173).
PcbsAreBlocks ==
  ~damaged =>
    /\ \A t \in live : len[t] = PcbSize
    /\ making = "page" => len[ret] = PcbSize /\ ret \notin live

\* Threads whose pids page_alloc accepts have stacks of their own, each with an
\* entry that names its thread.
StacksDistinct ==
  \A t \in live : pcb[t].pid < MaxPid =>
    /\ pcb[t].stack_page \in Page
    /\ entry[pcb[t].stack_page] = [allocated |-> TRUE, pid |-> pcb[t].pid]
    /\ \A u \in live : pcb[u].stack_page = pcb[t].stack_page => u = t

\* No stack lies in the kernel, its page tables or the heap, though the heap
\* begins in the middle of a page.
StacksOutsideHeap ==
  \A t \in live : pcb[t].pid < MaxPid => pcb[t].stack_page * PageSize >= KernelEnd + HeapSize
=============================================================================
