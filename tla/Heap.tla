-------------------------------- MODULE Heap --------------------------------
(***************************************************************************)
(* The kernel's heap: mem_alloc and mem_free of src/kernel/mem.c.  It has  *)
(* no lock.  mem_alloc runs in a thread and may be interrupted between the *)
(* loads of its loop and the stores of its split; mem_free is called by    *)
(* reap() with IRQs disabled, so its loops, once begun, run to their end.  *)
(* Addresses and sizes count headers (16 bytes, to which mem_alloc rounds  *)
(* a size up).                                                             *)
(*                                                                         *)
(* Some steps of the code destroy the list of segments; damaged says that  *)
(* one of them has been taken, and the model stops there:                  *)
(*   - the merge to the right (mem.c:263-267), which adds the size of the  *)
(*     wrong segment, or goes through a null pointer;                      *)
(*   - the merge to the left of the last segment (mem.c:257), which goes   *)
(*     through a null pointer;                                             *)
(*   - the merge to the left through a prev that a split has left stale    *)
(*     (mem.c:236-239), that leads to a header that is gone, or to the     *)
(*     segment that mem_alloc is splitting;                                *)
(*   - the choice of a segment merged away under the walk of mem_alloc;    *)
(*   - the split with a next that is stale: the segment behind was merged  *)
(*     into the one that is split, or that one into another, between the   *)
(*     load (mem.c:234) and the store (235).                               *)
(***************************************************************************)
EXTENDS Integers

CONSTANT HeapSize   \* KERNEL_HEAP_SIZE in headers

ASSUME HeapAssumption == HeapSize \in Nat \ {0}

Null    == -1
Addr    == 0 .. HeapSize - 1
SegPtr  == Addr \cup {Null}
heap_segment == [next : SegPtr, prev : SegPtr, is_allocated : BOOLEAN, segment_size : Nat]

Segment(next, prev, is_allocated, segment_size) ==
  [next |-> next, prev |-> prev, is_allocated |-> is_allocated, segment_size |-> segment_size]

VARIABLES
  hdr,      \* what is, or was, stored at an address as a header
  alloc,    \* where mem_alloc is: "idle", in its walk, in its split, "returned"
  bytes, cur, best, best_diff,   \* its locals
  ret,      \* what it has returned
  mode,     \* where mem_free is: "no", "left", "right"
  seg,      \* its local
  \* The rest is not in the code: the segments there are, the length of the block
  \* handed out at an address (0: none), whether nothing was freed since
  \* mem_alloc began, and whether the list is destroyed.
  segs, len, quiet, damaged

walkVars  == <<alloc, bytes, cur, best, best_diff, ret>>
mergeVars == <<mode, seg>>
heapVars  == <<hdr, walkVars, mergeVars, segs, len, quiet, damaged>>

HeapTypeOK ==
  /\ hdr \in [Addr -> heap_segment]
  /\ alloc \in {"idle", "walk", "tested", "saved", "linked", "filled", "shrunk", "returned"}
  /\ mode \in {"no", "left", "right"}
  /\ bytes \in Nat /\ best_diff \in Int
  /\ {cur, best, ret, seg} \subseteq SegPtr
  /\ segs \subseteq Addr /\ len \in [Addr -> Nat]
  /\ quiet \in BOOLEAN /\ damaged \in BOOLEAN

\* bzero of the first header and its size: one segment that is the whole heap.
Boot == Segment(Null, Null, FALSE, HeapSize)

HeapInit ==
  /\ hdr = [a \in Addr |-> Boot]
  /\ alloc = "idle" /\ bytes = 0 /\ cur = Null /\ best = Null /\ best_diff = 0
  /\ ret = Null /\ mode = "no" /\ seg = Null
  /\ segs = {0} /\ len = [a \in Addr |-> 0] /\ quiet = TRUE /\ damaged = FALSE

-----------------------------------------------------------------------------
(* mem_alloc.  IRQs are enabled, so it runs only while mem_free does not.  *)

MayRun == mode = "no" /\ ~damaged

\* The call, for b headers, its own included.
mem_alloc(b) ==
  /\ MayRun /\ alloc = "idle"
  /\ alloc' = "walk" /\ bytes' = b
  /\ cur' = 0 /\ best' = Null /\ best_diff' = HeapSize + 1
  /\ quiet' = TRUE
  /\ UNCHANGED <<hdr, ret, mergeVars, segs, len, damaged>>

Fits == LET diff == hdr[cur].segment_size - bytes
        IN  ~hdr[cur].is_allocated /\ diff < best_diff /\ diff >= 0

\* Mutant of Test: with <= for <, the last of equal segments.
TestTakesLast ==
  /\ MayRun /\ alloc = "walk" /\ cur # Null
  /\ LET diff == hdr[cur].segment_size - bytes
     IN  IF ~hdr[cur].is_allocated /\ diff <= best_diff /\ diff >= 0
         THEN best' = cur /\ best_diff' = diff
         ELSE UNCHANGED <<best, best_diff>>
  /\ alloc' = "tested"
  /\ UNCHANGED <<hdr, bytes, cur, ret, mergeVars, segs, len, quiet, damaged>>

\* The body of the loop.  It loads the size before the flag; a mem_free between
\* the two might as well have come before the first, or after the second.
Test ==
  /\ MayRun /\ alloc = "walk" /\ cur # Null
  /\ IF Fits
     THEN best' = cur /\ best_diff' = hdr[cur].segment_size - bytes
     ELSE UNCHANGED <<best, best_diff>>
  /\ alloc' = "tested"
  /\ UNCHANGED <<hdr, bytes, cur, ret, mergeVars, segs, len, quiet, damaged>>

Advance ==
  /\ MayRun /\ alloc = "tested"
  /\ cur' = hdr[cur].next
  /\ alloc' = "walk"
  /\ UNCHANGED <<hdr, bytes, best, best_diff, ret, mergeVars, segs, len, quiet, damaged>>

FindsNothing ==
  /\ MayRun /\ alloc = "walk" /\ cur = Null /\ best = Null
  /\ alloc' = "returned" /\ ret' = Null
  /\ UNCHANGED <<hdr, bytes, cur, best, best_diff, mergeVars, segs, len, quiet, damaged>>

Chosen == MayRun /\ alloc = "walk" /\ cur = Null /\ best # Null

\* Mutant of rest: the header is not counted where the rest begins.
rest_inside == best + bytes - 1

\* ((void*)(best)) + bytes
rest == best + bytes

\* A header is made for the rest, and best->next is saved.
SaveNext ==
  /\ Chosen /\ best \in segs /\ best_diff > 2
  /\ hdr' = [hdr EXCEPT ![rest] = Segment(Null, Null, FALSE, 0)]
  /\ cur' = hdr[best].next
  /\ alloc' = "saved"
  /\ UNCHANGED <<bytes, best, best_diff, ret, mergeVars, segs, len, quiet, damaged>>

\* What mem_free has merged since then makes the saved pointer stale.
SavedIsStale == best \notin segs \/ hdr[best].next # cur

\* Mutant of LinkRest: best->next is saved after it is overwritten.
LinkThenSave ==
  /\ MayRun /\ alloc = "saved"
  /\ hdr' = [hdr EXCEPT ![best].next = rest]
  /\ cur' = rest
  /\ damaged' = SavedIsStale
  /\ alloc' = "linked"
  /\ UNCHANGED <<bytes, best, best_diff, ret, mergeVars, segs, len, quiet>>

LinkRest ==
  /\ MayRun /\ alloc = "saved"
  /\ hdr' = [hdr EXCEPT ![best].next = rest]
  /\ damaged' = SavedIsStale
  /\ alloc' = "linked"
  /\ UNCHANGED <<bytes, cur, best, best_diff, ret, mergeVars, segs, len, quiet>>

\* The header of the rest is stored.  The prev of the one behind it stays as it
\* is.  best->next now leads to a header that nothing else leads to.
FillRest ==
  /\ MayRun /\ alloc = "linked"
  /\ hdr' = [hdr EXCEPT ![rest] = Segment(cur, best, FALSE, hdr[best].segment_size - bytes)]
  /\ alloc' = "filled"
  /\ UNCHANGED <<bytes, cur, best, best_diff, ret, mergeVars, segs, len, quiet, damaged>>

\* The rest becomes a segment.
Shrink ==
  /\ MayRun /\ alloc = "filled"
  /\ hdr' = [hdr EXCEPT ![best].segment_size = bytes]
  /\ segs' = segs \cup {rest}
  /\ alloc' = "shrunk"
  /\ UNCHANGED <<bytes, cur, best, best_diff, ret, mergeVars, len, quiet, damaged>>

\* The split is done, or the rest was not worth two headers.
Decided == (Chosen /\ best_diff <= 2) \/ (MayRun /\ alloc = "shrunk")

Allocate ==
  /\ Decided /\ best \in segs
  /\ hdr' = [hdr EXCEPT ![best].is_allocated = TRUE]
  /\ len' = [len EXCEPT ![best] = bytes]
  /\ alloc' = "returned" /\ ret' = best
  /\ UNCHANGED <<bytes, cur, best, best_diff, mergeVars, segs, quiet, damaged>>

\* best was merged into its neighbour between its turn in the loop, or before it,
\* and now: the block lies inside a free segment.
TakesMergedAway ==
  /\ Chosen \/ Decided
  /\ best \notin segs
  /\ damaged' = TRUE /\ alloc' = "returned" /\ ret' = best
  /\ UNCHANGED <<hdr, bytes, cur, best, best_diff, mergeVars, segs, len, quiet>>

\* The caller goes on with the result.
Return ==
  /\ alloc = "returned" /\ mode = "no"
  /\ alloc' = "idle"
  /\ UNCHANGED <<hdr, bytes, cur, best, best_diff, ret, mergeVars, segs, len, quiet, damaged>>

-----------------------------------------------------------------------------
(* mem_free.                                                               *)

\* The call, for a block that was handed out.
mem_free(a) ==
  /\ MayRun /\ len[a] > 0
  /\ hdr' = [hdr EXCEPT ![a].is_allocated = FALSE]
  /\ len' = [len EXCEPT ![a] = 0]
  /\ mode' = "left" /\ seg' = a /\ quiet' = FALSE
  /\ UNCHANGED <<walkVars, segs, damaged>>

prev == hdr[seg].prev
next == hdr[seg].next

\* The loops read a header through prev that is gone, or a free one that is not
\* just before seg, or store through the null next of seg.
PrevIsStale == prev \notin segs \/ (~hdr[prev].is_allocated /\ hdr[prev].next # seg)
LeftIsFree  == ~hdr[prev].is_allocated

\* Mutant of MergeLeft: the sizes are not added.
MergeLeftForgetsSize ==
  /\ mode = "left" /\ ~damaged
  /\ prev # Null /\ ~PrevIsStale /\ LeftIsFree /\ next # Null
  /\ hdr' = [a \in Addr |->
              CASE a = prev -> [hdr[a] EXCEPT !.next = next]
                [] a = next /\ a # prev -> [hdr[a] EXCEPT !.prev = prev]
                [] OTHER    -> hdr[a]]
  /\ seg' = prev /\ segs' = segs \ {seg}
  /\ UNCHANGED <<walkVars, mode, len, quiet, damaged>>

\* One turn of the first loop.
MergeLeft ==
  /\ mode = "left" /\ ~damaged
  /\ prev # Null /\ ~PrevIsStale /\ LeftIsFree /\ next # Null
  /\ hdr' = [a \in Addr |->
              CASE a = prev -> Segment(next, hdr[a].prev, FALSE,
                                       hdr[a].segment_size + hdr[seg].segment_size)
                [] a = next /\ a # prev -> [hdr[a] EXCEPT !.prev = prev]
                [] OTHER    -> hdr[a]]
  /\ seg' = prev /\ segs' = segs \ {seg}
  /\ UNCHANGED <<walkVars, mode, len, quiet, damaged>>

\* It goes wrong.
MergeLeftFails ==
  /\ mode = "left" /\ ~damaged
  /\ prev # Null /\ (PrevIsStale \/ (LeftIsFree /\ next = Null))
  /\ damaged' = TRUE
  /\ UNCHANGED <<hdr, walkVars, mergeVars, segs, len, quiet>>

EndLeft ==
  /\ mode = "left" /\ ~damaged
  /\ prev # Null => ~PrevIsStale /\ ~LeftIsFree
  /\ mode' = "right"
  /\ UNCHANGED <<hdr, walkVars, seg, segs, len, quiet, damaged>>

\* One turn of the second loop: seg->next has moved on when its size is added.
MergeRight ==
  /\ mode = "right" /\ ~damaged
  /\ next # Null /\ ~hdr[next].is_allocated
  /\ LET after == hdr[next].next
     IN  IF after = Null
         THEN UNCHANGED <<hdr, seg>>
         ELSE /\ hdr' = [a \in Addr |->
                          CASE a = seg -> Segment(after, hdr[a].prev, FALSE,
                                                  hdr[a].segment_size + hdr[after].segment_size)
                            [] a = after /\ a # seg -> [hdr[a] EXCEPT !.prev = seg]
                            [] OTHER    -> hdr[a]]
              /\ seg' = after
  /\ damaged' = TRUE
  /\ UNCHANGED <<walkVars, mode, segs, len, quiet>>

EndRight ==
  /\ mode = "right" /\ ~damaged
  /\ next # Null => hdr[next].is_allocated
  /\ mode' = "no"
  /\ UNCHANGED <<hdr, walkVars, seg, segs, len, quiet, damaged>>

-----------------------------------------------------------------------------
\* A step inside mem_alloc or mem_free.
AllocStep ==
  \/ Test \/ Advance \/ FindsNothing
  \/ SaveNext \/ LinkRest \/ FillRest \/ Shrink
  \/ Allocate \/ TakesMergedAway
FreeStep  == MergeLeft \/ MergeLeftFails \/ EndLeft \/ MergeRight \/ EndRight

\* The heap on its own: any caller, any size.
HeapNext ==
  \/ \E b \in Nat \ {0} : mem_alloc(b)
  \/ \E a \in Addr : mem_free(a)
  \/ AllocStep
  \/ FreeStep
  \/ Return

HeapSpec == HeapInit /\ [][HeapNext]_heapVars

-----------------------------------------------------------------------------
End(a) == a + hdr[a].segment_size

\* best->next leads to the rest, which is not yet a segment.
InSplit == alloc \in {"linked", "filled"}

\* Where next leads from a segment.
Behind(a) == IF InSplit /\ a = best THEN rest
             ELSE IF End(a) = HeapSize THEN Null ELSE End(a)

\* The segments cover the heap without gap or overlap, and next leads from each
\* to the one behind it, or to the rest on the way to it: no memory is lost, or
\* given to two segments, by splits and merges to the left, though a merge may
\* come between two stores of a split (mem.c:232-239).
SegmentsTile ==
  ~damaged =>
    /\ 0 \in segs
    /\ \A a \in segs :
         /\ hdr[a].segment_size >= 1 /\ End(a) <= HeapSize
         /\ hdr[a].next = Behind(a)
         /\ End(a) < HeapSize => End(a) \in segs
         /\ \A b \in segs : a < b => End(a) <= b

\* Two blocks handed out and not yet freed never overlap, whatever is freed
\* between two steps of mem_alloc, as long as the list is not destroyed.
BlocksDisjoint ==
  ~damaged =>
    \A a, b \in Addr : len[a] > 0 /\ len[b] > 0 /\ a < b => a + len[a] <= b

\* A walk that no mem_free has interrupted finds the first of the smallest
\* segments that are large enough, and nothing only if there is none.
BestFit ==
  ~damaged /\ quiet /\ alloc = "walk" /\ cur = Null =>
    LET large == {a \in segs : ~hdr[a].is_allocated /\ hdr[a].segment_size >= bytes}
    IN  IF best = Null
        THEN large = {}
        ELSE /\ best \in large
             /\ \A a \in large : \/ hdr[best].segment_size < hdr[a].segment_size
                                 \/ hdr[best].segment_size = hdr[a].segment_size /\ best <= a

\* The walk of mem_alloc ends, though mem_free changes the list under it: next
\* always leads on, also from a header that was merged away, and no split makes
\* a segment its own next.
WalkEnds == alloc = "walk" ~> alloc = "returned" \/ damaged

\* What the heap implements, until the list is destroyed: an allocator.
Blocks    == {<<a, len[a]>> : a \in {b \in Addr : len[b] > 0}}
Allocator == INSTANCE Allocator WITH blocks <- Blocks, broken <- damaged
AllocatorSpec == Allocator!Spec
=============================================================================
