---------------------------- MODULE MemoryProofs ----------------------------
(***************************************************************************)
(* The heap: for every size, all sizes of blocks and all frees between     *)
(* the steps of mem_alloc, the segments tile the heap and blocks do not    *)
(* overlap, until the list is destroyed.  The invariant adds to these what *)
(* they rest on: a block lies in an allocated segment of its own; what the *)
(* walk has chosen, if it is still a segment, is free and as large as      *)
(* best_diff says, or larger by what was merged into it; once the rest of  *)
(* a split is linked, no merge reaches the segment that is split; and      *)
(* mem_free works on a free segment.                                       *)
(*                                                                         *)
(* The memory of threads, for every number of pages and pids: pcbs are     *)
(* blocks of the heap, and stacks are distinct pages behind it.  The       *)
(* invariant says which page each pid gets: pages leave the free list in   *)
(* order and none comes back, since page_free appends the page before the  *)
(* first, so pid n has the n-th.                                           *)
(***************************************************************************)
EXTENDS Memory, TLAPS

Tiles ==
  /\ 0 \in segs
  /\ \A a \in segs :
       /\ hdr[a].segment_size >= 1 /\ End(a) <= HeapSize
       /\ hdr[a].next = Behind(a)
       /\ End(a) < HeapSize => End(a) \in segs
       /\ \A b \in segs : a < b => End(a) <= b

BlocksInSegments ==
  \A a \in Addr : len[a] > 0 =>
    a \in segs /\ hdr[a].is_allocated /\ len[a] <= hdr[a].segment_size

WalkIsSound ==
  alloc \in {"walk", "tested", "saved"} =>
    /\ bytes >= 1
    /\ alloc = "tested" => cur # Null
    /\ alloc = "saved" => best_diff > 2 /\ best \in Addr /\ rest \in Addr
    /\ best \in segs => /\ ~hdr[best].is_allocated
                        /\ best_diff >= 0
                        /\ hdr[best].segment_size >= bytes + best_diff

SplitIsSound ==
  /\ alloc \in {"linked", "filled", "shrunk"} => bytes >= 1
  /\ InSplit =>
       /\ best \in segs /\ ~hdr[best].is_allocated /\ best_diff > 2
       /\ hdr[best].segment_size >= bytes + best_diff
       /\ cur = IF End(best) = HeapSize THEN Null ELSE End(best)
  /\ alloc = "filled" =>
       /\ hdr[rest].next = cur
       /\ hdr[rest].segment_size = hdr[best].segment_size - bytes
  /\ alloc = "shrunk" /\ best \in segs =>
       ~hdr[best].is_allocated /\ hdr[best].segment_size >= bytes

MergeIsSound == mode # "no" =>
  seg \in segs /\ ~hdr[seg].is_allocated /\ (InSplit => seg # best)

Sound == Tiles /\ BlocksInSegments /\ WalkIsSound /\ SplitIsSound /\ MergeIsSound

HeapInv == HeapTypeOK /\ (~damaged => Sound)

-----------------------------------------------------------------------------
LEMMA HeapInvInit == HeapInit => HeapInv
<1> SUFFICES ASSUME HeapInit PROVE HeapInv
  OBVIOUS
<1> USE HeapAssumption DEF HeapInit, Addr, SegPtr, Null
<1>0. Boot \in heap_segment /\ 0 \in Addr
  BY DEF Boot, Segment, heap_segment
<1>1. HeapTypeOK
  <2>1. hdr \in [Addr -> heap_segment] /\ len \in [Addr -> Nat]
    BY <1>0, Zenon DEF HeapInit
  <2>2. quiet \in BOOLEAN /\ damaged \in BOOLEAN
    BY Zenon DEF HeapInit
  <2> QED
    BY <1>0, <2>1, <2>2 DEF HeapTypeOK
<1>2. Tiles
  BY <1>0 DEF Tiles, End, Boot, Segment, Behind, InSplit
<1>3. BlocksInSegments /\ WalkIsSound /\ SplitIsSound /\ MergeIsSound
  BY DEF BlocksInSegments, WalkIsSound, SplitIsSound, MergeIsSound, InSplit
<1> QED
  BY <1>1, <1>2, <1>3 DEF HeapInv, Sound

\* A step that leaves the sizes and next fields of segments alone keeps the tiles.
LEMMA TilesKept ==
  ASSUME HeapTypeOK, Tiles, UNCHANGED segs,
         InSplit' <=> InSplit, InSplit => UNCHANGED <<best, bytes>>,
         \A a \in segs : /\ hdr'[a].segment_size = hdr[a].segment_size
                         /\ hdr'[a].next = hdr[a].next
  PROVE  Tiles'
<1>1. \A a \in segs : End(a)' = End(a)
  BY DEF End
<1>2. \A a \in segs : Behind(a)' = Behind(a)
  BY <1>1 DEF Behind, rest
<1> QED
  BY <1>1, <1>2 DEF Tiles

LEMMA TilesFramed ==
  ASSUME HeapTypeOK, Tiles, UNCHANGED <<hdr, segs>>,
         InSplit' <=> InSplit, InSplit => UNCHANGED <<best, bytes>>
  PROVE  Tiles'
BY TilesKept

\* The rest begins inside the segment that is split.
LEMMA RestInside ==
  ASSUME HeapTypeOK, Tiles, best \in segs, bytes >= 1, best_diff > 2,
         hdr[best].segment_size >= bytes + best_diff
  PROVE  /\ best \in Addr /\ rest \in Addr /\ rest \notin segs
         /\ best < rest /\ rest < End(best) /\ End(best) <= HeapSize
         /\ bytes \in Nat /\ best_diff \in Int /\ hdr[best].segment_size \in Nat
<1>1. /\ best \in Addr /\ best \in Nat /\ bytes \in Nat /\ best_diff \in Int
      /\ hdr[best].segment_size \in Nat
  BY HeapAssumption DEF HeapTypeOK, heap_segment, Addr
<1>2. End(best) <= HeapSize /\ End(best) = best + hdr[best].segment_size
  BY DEF Tiles, End
<1>3. best < rest /\ rest < End(best) /\ rest \in Nat
  BY <1>1, <1>2 DEF rest
<1>4. rest \in Addr
  BY <1>1, <1>2, <1>3, HeapAssumption DEF Addr
<1>5. rest \notin segs
  <2> SUFFICES ASSUME rest \in segs PROVE FALSE
    OBVIOUS
  <2>1. End(best) <= rest
    BY <1>3 DEF Tiles
  <2> QED
    BY <2>1, <1>1, <1>2, <1>3
<1> QED
  BY <1>1, <1>2, <1>3, <1>4, <1>5

-----------------------------------------------------------------------------
(* One lemma per action.                                                   *)

LEMMA AllocBegins ==
  ASSUME HeapInv, NEW b \in Nat \ {0}, mem_alloc(b)
  PROVE  HeapInv'
<1> USE HeapAssumption DEF HeapInv, Sound, mem_alloc, MayRun, mergeVars
<1>1. HeapTypeOK'
  BY DEF HeapTypeOK, Addr, SegPtr, Null
<1>2. Tiles'
  BY TilesFramed DEF InSplit
<1>3. (BlocksInSegments /\ SplitIsSound /\ MergeIsSound)'
  BY DEF BlocksInSegments, SplitIsSound, MergeIsSound, InSplit
<1>4. WalkIsSound'
  BY DEF WalkIsSound, HeapTypeOK, Null, Addr
<1> QED
  BY <1>1, <1>2, <1>3, <1>4

LEMMA TestKeeps ==
  ASSUME HeapInv, Test
  PROVE  HeapInv'
<1> USE HeapAssumption DEF HeapInv, Sound, Test, MayRun, mergeVars
<1>0. cur \in Addr /\ hdr[cur] \in heap_segment
  BY DEF HeapTypeOK, SegPtr
<1>1. HeapTypeOK'
  BY <1>0 DEF HeapTypeOK, heap_segment, SegPtr
<1>2. Tiles'
  BY TilesFramed DEF InSplit
<1>3. (BlocksInSegments /\ SplitIsSound /\ MergeIsSound)'
  BY DEF BlocksInSegments, SplitIsSound, MergeIsSound, InSplit
<1>4. WalkIsSound'
  BY <1>0 DEF WalkIsSound, Fits, heap_segment, HeapTypeOK
<1> QED
  BY <1>1, <1>2, <1>3, <1>4

LEMMA AdvanceKeeps ==
  ASSUME HeapInv, Advance
  PROVE  HeapInv'
<1> USE HeapAssumption DEF HeapInv, Sound, Advance, MayRun, mergeVars
<1>0. cur \in Addr /\ hdr[cur] \in heap_segment
  BY DEF HeapTypeOK, WalkIsSound, SegPtr
<1>1. HeapTypeOK'
  BY <1>0 DEF HeapTypeOK, heap_segment
<1>2. Tiles'
  BY TilesFramed DEF InSplit
<1>3. (BlocksInSegments /\ SplitIsSound /\ MergeIsSound)'
  BY DEF BlocksInSegments, SplitIsSound, MergeIsSound, InSplit
<1>4. WalkIsSound'
  BY DEF WalkIsSound
<1> QED
  BY <1>1, <1>2, <1>3, <1>4

LEMMA NothingFound ==
  ASSUME HeapInv, FindsNothing \/ TakesMergedAway \/ Return
  PROVE  HeapInv'
<1> USE HeapAssumption
    DEF HeapInv, Sound, FindsNothing, TakesMergedAway, Return, MayRun, Chosen, Decided, mergeVars
<1>1. HeapTypeOK'
  BY DEF HeapTypeOK, SegPtr
<1>2. ~damaged' => Tiles'
  BY TilesFramed DEF InSplit
<1>3. ~damaged' => (BlocksInSegments /\ MergeIsSound /\ WalkIsSound /\ SplitIsSound)'
  BY DEF BlocksInSegments, MergeIsSound, WalkIsSound, SplitIsSound, InSplit
<1> QED
  BY <1>1, <1>2, <1>3

\* The header that is cleared lies inside best.
LEMMA SaveNextKeeps ==
  ASSUME HeapInv, SaveNext
  PROVE  HeapInv'
<1>1. /\ ~damaged /\ alloc = "walk" /\ mode = "no" /\ best \in segs /\ best_diff > 2
      /\ hdr' = [hdr EXCEPT ![rest] = Segment(Null, Null, FALSE, 0)]
      /\ cur' = hdr[best].next /\ alloc' = "saved"
      /\ UNCHANGED <<bytes, best, best_diff, ret, mode, seg, segs, len, quiet, damaged>>
  BY DEF SaveNext, Chosen, MayRun, mergeVars
<1>2. /\ HeapTypeOK /\ Tiles /\ BlocksInSegments /\ bytes >= 1 /\ ~hdr[best].is_allocated
      /\ hdr[best].segment_size >= bytes + best_diff
  BY <1>1 DEF HeapInv, Sound, WalkIsSound
<1>3. best \in Addr /\ rest \in Addr /\ rest \notin segs /\ rest' = rest
  BY <1>1, <1>2, RestInside DEF rest
<1>4. hdr \in [Addr -> heap_segment] /\ segs \subseteq Addr /\ ~InSplit /\ ~InSplit'
  BY <1>1, <1>2 DEF HeapTypeOK, InSplit
<1>5. hdr' \in [Addr -> heap_segment] /\ \A a \in segs : hdr'[a] = hdr[a]
  <2>1. Segment(Null, Null, FALSE, 0) \in heap_segment
    BY DEF Segment, heap_segment, SegPtr
  <2> QED
    BY <2>1, <1>1, <1>3, <1>4
<1>6. HeapTypeOK'
  <2>1. cur' \in SegPtr
    BY <1>1, <1>3, <1>4 DEF heap_segment
  <2> QED
    BY <2>1, <1>1, <1>2, <1>5 DEF HeapTypeOK
<1>7. Tiles'
  BY <1>1, <1>2, <1>4, <1>5, TilesKept
<1>8. BlocksInSegments'
  BY <1>1, <1>2, <1>5 DEF BlocksInSegments
<1>9. WalkIsSound'
  <2>1. hdr'[best] = hdr[best]
    BY <1>1, <1>5, Zenon
  <2>3. best_diff >= 0
    <3>1. best_diff \in Int /\ best_diff > 2
      BY <1>1, <1>2 DEF HeapTypeOK
    <3> QED
      BY <3>1
  <2>2. ~hdr'[best].is_allocated /\ hdr'[best].segment_size >= bytes + best_diff
    BY <2>1, <1>2
  <2> QED
    BY <2>1, <2>2, <2>3, <1>1, <1>2, <1>3 DEF WalkIsSound
<1>10. (SplitIsSound /\ MergeIsSound)'
  BY <1>1, <1>4 DEF SplitIsSound, MergeIsSound
<1> QED
  BY <1>6, <1>7, <1>8, <1>9, <1>10 DEF HeapInv, Sound

\* What was saved is what is behind best, or the list is destroyed.
LEMMA LinkRestKeeps ==
  ASSUME HeapInv, LinkRest
  PROVE  HeapInv'
<1>1. /\ ~damaged /\ alloc = "saved" /\ mode = "no" /\ alloc' = "linked"
      /\ hdr' = [hdr EXCEPT ![best].next = rest] /\ damaged' = SavedIsStale
      /\ UNCHANGED <<bytes, cur, best, best_diff, ret, mode, seg, segs, len, quiet>>
  BY DEF LinkRest, MayRun, mergeVars
<1>2. /\ HeapTypeOK /\ Tiles /\ BlocksInSegments /\ WalkIsSound
      /\ best \in Addr /\ rest \in Addr /\ best_diff > 2 /\ bytes >= 1
  BY <1>1 DEF HeapInv, Sound, WalkIsSound
<1>3. hdr \in [Addr -> heap_segment] /\ segs \subseteq Addr
  BY <1>2 DEF HeapTypeOK
<1>4. /\ hdr' \in [Addr -> heap_segment] /\ hdr'[best].next = rest
      /\ \A a \in Addr : /\ hdr'[a].segment_size = hdr[a].segment_size
                         /\ hdr'[a].is_allocated = hdr[a].is_allocated
                         /\ a # best => hdr'[a].next = hdr[a].next
  BY <1>1, <1>2, <1>3 DEF heap_segment, SegPtr
<1>5. HeapTypeOK'
  <2>1. damaged' \in BOOLEAN
    BY <1>1, Zenon DEF SavedIsStale
  <2> QED
    BY <2>1, <1>1, <1>2, <1>4 DEF HeapTypeOK
<1>6. ASSUME ~damaged' PROVE Sound'
  <2>1. best \in segs /\ hdr[best].next = cur
    BY <1>1, <1>6 DEF SavedIsStale
  <2>2. /\ ~hdr[best].is_allocated /\ hdr[best].segment_size >= bytes + best_diff
        /\ ~InSplit /\ InSplit' /\ rest' = rest
    BY <2>1, <1>1, <1>2 DEF WalkIsSound, InSplit, rest
  <2>3. \A a \in segs : /\ End(a)' = End(a)
                        /\ Behind(a)' = IF a = best THEN rest ELSE Behind(a)
    <3>1. \A a \in segs : End(a)' = End(a)
      BY <1>3, <1>4 DEF End
    <3> QED
      BY <3>1, <2>2, <1>1 DEF Behind
  <2>4. Tiles'
    BY <2>3, <1>1, <1>2, <1>3, <1>4 DEF Tiles
  <2>5. BlocksInSegments'
    BY <1>1, <1>2, <1>4 DEF BlocksInSegments
  <2>6. cur = IF End(best) = HeapSize THEN Null ELSE End(best)
    BY <2>1, <2>2, <1>2 DEF Tiles, Behind
  <2>7. SplitIsSound'
    BY <2>1, <2>2, <2>3, <2>6, <1>1, <1>2, <1>4 DEF SplitIsSound
  <2>8. (WalkIsSound /\ MergeIsSound)'
    BY <1>1 DEF WalkIsSound, MergeIsSound
  <2> QED
    BY <2>4, <2>5, <2>7, <2>8 DEF Sound
<1> QED
  BY <1>5, <1>6 DEF HeapInv

LEMMA FillRestKeeps ==
  ASSUME HeapInv, FillRest
  PROVE  HeapInv'
<1>1. /\ ~damaged /\ alloc = "linked" /\ mode = "no" /\ alloc' = "filled"
      /\ hdr' = [hdr EXCEPT ![rest] =
                   Segment(cur, best, FALSE, hdr[best].segment_size - bytes)]
      /\ UNCHANGED <<bytes, cur, best, best_diff, ret, mode, seg, segs, len, quiet, damaged>>
  BY DEF FillRest, MayRun, mergeVars
<1>2. /\ HeapTypeOK /\ Tiles /\ BlocksInSegments /\ InSplit /\ InSplit' /\ rest' = rest
      /\ best \in segs /\ ~hdr[best].is_allocated /\ best_diff > 2 /\ bytes >= 1
      /\ hdr[best].segment_size >= bytes + best_diff
      /\ cur = IF End(best) = HeapSize THEN Null ELSE End(best)
  BY <1>1 DEF HeapInv, Sound, SplitIsSound, InSplit, rest
<1>3. /\ best \in Addr /\ rest \in Addr /\ rest \notin segs /\ bytes \in Nat
      /\ best_diff \in Int /\ hdr[best].segment_size \in Nat
  BY <1>2, RestInside
<1>4. hdr \in [Addr -> heap_segment] /\ segs \subseteq Addr /\ cur \in SegPtr
  BY <1>2 DEF HeapTypeOK
<1>5. Segment(cur, best, FALSE, hdr[best].segment_size - bytes) \in heap_segment
  <2>1. hdr[best].segment_size - bytes \in Nat
    BY <1>2, <1>3
  <2> QED
    BY <2>1, <1>3, <1>4 DEF Segment, heap_segment, SegPtr
<1>6. /\ hdr' \in [Addr -> heap_segment] /\ \A a \in segs : hdr'[a] = hdr[a]
      /\ hdr'[rest] = Segment(cur, best, FALSE, hdr[best].segment_size - bytes)
  BY <1>1, <1>3, <1>4, <1>5
<1>7. HeapTypeOK'
  BY <1>1, <1>2, <1>6 DEF HeapTypeOK
<1>8. Tiles'
  BY <1>1, <1>2, <1>6, TilesKept
<1>9. BlocksInSegments'
  BY <1>1, <1>2, <1>6 DEF BlocksInSegments
<1>10. SplitIsSound'
  <2>1. hdr'[rest].next = cur /\ hdr'[rest].segment_size = hdr[best].segment_size - bytes
    BY <1>6 DEF Segment
  <2>2. End(best)' = End(best) /\ hdr'[best] = hdr[best]
    BY <1>1, <1>2, <1>6 DEF End
  <2> QED
    BY <2>1, <2>2, <1>1, <1>2 DEF SplitIsSound
<1>11. (WalkIsSound /\ MergeIsSound)'
  BY <1>1 DEF WalkIsSound, MergeIsSound
<1> QED
  BY <1>7, <1>8, <1>9, <1>10, <1>11 DEF HeapInv, Sound

\* Two segments for one.
LEMMA ShrinkKeeps ==
  ASSUME HeapInv, Shrink
  PROVE  HeapInv'
<1>1. /\ ~damaged /\ alloc = "filled" /\ mode = "no" /\ alloc' = "shrunk"
      /\ hdr' = [hdr EXCEPT ![best].segment_size = bytes] /\ segs' = segs \cup {rest}
      /\ UNCHANGED <<bytes, cur, best, best_diff, ret, mode, seg, len, quiet, damaged>>
  BY DEF Shrink, MayRun, mergeVars
<1>2. /\ HeapTypeOK /\ Tiles /\ BlocksInSegments /\ InSplit /\ ~InSplit' /\ rest' = rest
      /\ best \in segs /\ ~hdr[best].is_allocated /\ best_diff > 2 /\ bytes >= 1
      /\ hdr[best].segment_size >= bytes + best_diff
      /\ cur = IF End(best) = HeapSize THEN Null ELSE End(best)
      /\ hdr[rest].next = cur /\ hdr[rest].segment_size = hdr[best].segment_size - bytes
  BY <1>1 DEF HeapInv, Sound, SplitIsSound, InSplit, rest
<1>3. /\ best \in Addr /\ rest \in Addr /\ rest \notin segs /\ bytes \in Nat
      /\ best < rest /\ rest < End(best) /\ End(best) <= HeapSize
      /\ best_diff \in Int /\ hdr[best].segment_size \in Nat
  BY <1>2, RestInside
<1>4. hdr \in [Addr -> heap_segment] /\ segs \subseteq Addr /\ len \in [Addr -> Nat]
  BY <1>2 DEF HeapTypeOK
<1>5. /\ hdr' \in [Addr -> heap_segment]
      /\ hdr'[best].segment_size = bytes
      /\ \A a \in Addr : /\ hdr'[a].next = hdr[a].next
                         /\ hdr'[a].is_allocated = hdr[a].is_allocated
                         /\ a # best => hdr'[a].segment_size = hdr[a].segment_size
  BY <1>1, <1>3, <1>4 DEF heap_segment
<1>6. hdr[best].next = rest
  BY <1>2 DEF Tiles, Behind
<1>7. HeapTypeOK'
  BY <1>1, <1>2, <1>3, <1>5 DEF HeapTypeOK
<1>8. Tiles'
  <2>1. End(best)' = rest /\ End(rest)' = End(best)
    BY <1>1, <1>2, <1>3, <1>5 DEF End, rest, Addr
  <2>2. \A a \in segs : a # best => End(a)' = End(a)
    BY <1>4, <1>5 DEF End
  <2>3. \A a \in segs : /\ a \in Addr /\ hdr[a].segment_size \in Nat /\ End(a) \in Nat
                        /\ End(a) > a
    BY <1>2, <1>4 DEF Tiles, End, heap_segment, Addr
  <2>4. \A a \in segs : a # best => Behind(a) = IF End(a) = HeapSize THEN Null ELSE End(a)
    BY DEF Behind
  <2>5. 0 \in segs'
    BY <1>1, <1>2 DEF Tiles
  <2>6. ASSUME NEW a \in segs'
        PROVE  /\ hdr'[a].segment_size >= 1 /\ End(a)' <= HeapSize
               /\ hdr'[a].next = IF End(a)' = HeapSize THEN Null ELSE End(a)'
               /\ End(a)' < HeapSize => End(a)' \in segs'
               /\ \A b \in segs' : a < b => End(a)' <= b
    <3>1. CASE a = best
      <4>0. End(a)' = rest
        BY <3>1, <2>1, <1>1 DEF End
      <4>1. ASSUME NEW b \in segs', a < b PROVE End(a)' <= b
        <5>1. b = rest \/ (b \in segs /\ End(best) <= b)
          BY <4>1, <3>1, <1>1, <1>2 DEF Tiles
        <5>2. End(best) \in Nat /\ rest < End(best) /\ rest \in Int
          BY <2>3, <1>2, <1>3 DEF Addr
        <5>3. b \in segs => b \in Int
          BY <2>3 DEF Addr
        <5>4. rest <= b
          BY <5>1, <5>2, <5>3
        <5> QED
          BY <5>4, <4>0
      <4> QED
        BY <4>0, <4>1, <3>1, <1>1, <1>2, <1>3, <1>5, <1>6, HeapAssumption DEF Addr, Null
    <3>2. CASE a = rest
      <4>0. End(a)' = End(best)
        BY <3>2, <2>1, <1>2 DEF End
      <4>1. ASSUME NEW b \in segs', a < b PROVE End(a)' <= b
        <5>1. b \in segs /\ b \in Addr /\ best < b
          BY <4>1, <3>2, <2>3, <1>1, <1>3 DEF Addr
        <5> QED
          BY <5>1, <4>0, <1>2 DEF Tiles
      <4>2. End(best) < HeapSize => End(best) \in segs
        BY <1>2 DEF Tiles
      <4>3. hdr'[a].segment_size >= 1 /\ hdr'[a].next = cur
        BY <3>2, <1>2, <1>3, <1>5
      <4> QED
        BY <4>0, <4>1, <4>2, <4>3, <1>1, <1>2, <1>3
    <3>3. CASE a # best /\ a # rest
      <4>1. /\ a \in segs /\ a \in Addr /\ End(a)' = End(a)
            /\ hdr'[a].segment_size = hdr[a].segment_size /\ hdr'[a].next = hdr[a].next
            /\ Behind(a) = IF End(a) = HeapSize THEN Null ELSE End(a)
        BY <3>3, <2>2, <2>3, <2>4, <1>1, <1>5
      <4>2. a < rest => a < best
        BY <4>1, <3>3, <2>3, <1>2, <1>3 DEF Tiles, Addr
      <4>3. a < rest => End(a) <= rest
        BY <4>1, <4>2, <2>3, <1>2, <1>3 DEF Tiles, Addr
      <4> QED
        BY <4>1, <4>3, <1>1, <1>2 DEF Tiles
    <3> QED
      BY <3>1, <3>2, <3>3
  <2>7. \A a \in segs' : Behind(a)' = IF End(a)' = HeapSize THEN Null ELSE End(a)'
    BY <1>2 DEF Behind
  <2> QED
    BY <2>5, <2>6, <2>7 DEF Tiles
<1>9. BlocksInSegments'
  BY <1>1, <1>2, <1>5 DEF BlocksInSegments
<1>10. SplitIsSound'
  BY <1>1, <1>2, <1>3, <1>5 DEF SplitIsSound
<1>11. (WalkIsSound /\ MergeIsSound)'
  BY <1>1 DEF WalkIsSound, MergeIsSound
<1> QED
  BY <1>7, <1>8, <1>9, <1>10, <1>11 DEF HeapInv, Sound

\* What is handed out was free and is large enough.
LEMMA AllocateTakes ==
  ASSUME HeapInv, Allocate
  PROVE  /\ ~damaged /\ mode = "no" /\ alloc \in {"walk", "shrunk"} /\ ~InSplit
         /\ best \in segs /\ best \in Addr /\ ~hdr[best].is_allocated
         /\ bytes \in Nat /\ bytes >= 1 /\ hdr[best].segment_size >= bytes
         /\ hdr[best].segment_size \in Nat
<1>1. /\ ~damaged /\ mode = "no" /\ alloc \in {"walk", "shrunk"} /\ best \in segs
  BY DEF Allocate, Decided, Chosen, MayRun
<1>2. /\ best \in Addr /\ hdr[best].segment_size \in Nat /\ bytes \in Nat /\ best_diff \in Int
  BY <1>1 DEF HeapInv, HeapTypeOK, heap_segment
<1>3. WalkIsSound /\ SplitIsSound /\ ~InSplit
  BY <1>1 DEF HeapInv, Sound, InSplit
<1>4. CASE alloc = "walk"
  BY <1>1, <1>2, <1>3, <1>4 DEF WalkIsSound
<1>5. CASE alloc = "shrunk"
  BY <1>1, <1>2, <1>3, <1>5 DEF SplitIsSound
<1> QED
  BY <1>1, <1>2, <1>3, <1>4, <1>5

LEMMA AllocateKeeps ==
  ASSUME HeapInv, Allocate
  PROVE  HeapInv'
<1>1. /\ ~damaged /\ mode = "no" /\ ~InSplit
      /\ best \in segs /\ best \in Addr /\ hdr[best].segment_size >= bytes /\ bytes \in Nat
      /\ hdr[best].segment_size \in Nat
  BY AllocateTakes
<1>2. /\ hdr \in [Addr -> heap_segment] /\ segs \subseteq Addr /\ len \in [Addr -> Nat]
      /\ HeapTypeOK /\ Tiles /\ BlocksInSegments
  BY <1>1 DEF HeapInv, Sound, HeapTypeOK
<1>3. /\ hdr' = [hdr EXCEPT ![best].is_allocated = TRUE] /\ len' = [len EXCEPT ![best] = bytes]
      /\ alloc' = "returned" /\ ret' = best /\ ~InSplit'
      /\ UNCHANGED <<bytes, cur, best, best_diff, mode, seg, segs, quiet, damaged>>
  BY DEF Allocate, mergeVars, InSplit
<1>4. /\ hdr' \in [Addr -> heap_segment]
      /\ hdr'[best].is_allocated
      /\ \A a \in Addr : /\ hdr'[a].segment_size = hdr[a].segment_size
                         /\ hdr'[a].next = hdr[a].next
                         /\ hdr[a].is_allocated => hdr'[a].is_allocated
  BY <1>1, <1>2, <1>3 DEF heap_segment
<1>5. HeapTypeOK'
  BY <1>1, <1>2, <1>3, <1>4 DEF HeapTypeOK, SegPtr
<1>6. Tiles'
  BY <1>1, <1>2, <1>3, <1>4, TilesKept
<1>7. BlocksInSegments'
  BY <1>1, <1>2, <1>3, <1>4 DEF BlocksInSegments
<1>8. (WalkIsSound /\ SplitIsSound /\ MergeIsSound)'
  BY <1>1, <1>3 DEF WalkIsSound, SplitIsSound, MergeIsSound
<1> QED
  BY <1>5, <1>6, <1>7, <1>8 DEF HeapInv, Sound

LEMMA FreeBegins ==
  ASSUME HeapInv, NEW a \in Addr, mem_free(a)
  PROVE  HeapInv'
<1>1. /\ ~damaged /\ len[a] > 0
      /\ hdr \in [Addr -> heap_segment] /\ segs \subseteq Addr /\ len \in [Addr -> Nat]
      /\ hdr' = [hdr EXCEPT ![a].is_allocated = FALSE] /\ len' = [len EXCEPT ![a] = 0]
      /\ mode' = "left" /\ seg' = a /\ quiet' = FALSE
      /\ UNCHANGED <<alloc, bytes, cur, best, best_diff, ret, segs, damaged>>
  BY DEF mem_free, MayRun, walkVars, HeapInv, HeapTypeOK
<1>2. a \in segs /\ hdr[a].is_allocated
  BY <1>1 DEF HeapInv, Sound, BlocksInSegments
<1>3. /\ hdr' \in [Addr -> heap_segment]
      /\ ~hdr'[a].is_allocated
      /\ \A b \in Addr : /\ hdr'[b].segment_size = hdr[b].segment_size
                         /\ hdr'[b].next = hdr[b].next
                         /\ ~hdr[b].is_allocated => ~hdr'[b].is_allocated
                         /\ b # a => hdr'[b] = hdr[b]
  BY <1>1 DEF heap_segment
<1>4. InSplit' = InSplit /\ rest' = rest
  BY <1>1 DEF InSplit, rest
<1>5. HeapTypeOK'
  BY <1>1, <1>3 DEF HeapInv, HeapTypeOK, SegPtr
<1>6. Tiles'
  BY <1>1, <1>3, <1>4, TilesKept DEF HeapInv, Sound
<1>7. BlocksInSegments'
  BY <1>1, <1>3 DEF HeapInv, Sound, BlocksInSegments
<1>8. WalkIsSound'
  BY <1>1, <1>3, <1>4 DEF HeapInv, Sound, WalkIsSound
<1>9. SplitIsSound'
  <2>1. SplitIsSound
    BY <1>1 DEF HeapInv, Sound
  <2>2. best \in segs => best \in Addr /\ End(best)' = End(best)
    BY <1>1, <1>3 DEF End
  <2>3. alloc = "filled" => rest \in Addr
    <3>1. alloc = "filled" => InSplit
      BY DEF InSplit
    <3>2. HeapTypeOK /\ Tiles
      BY <1>1 DEF HeapInv, Sound
    <3> QED
      BY <3>1, <3>2, <2>1, RestInside DEF SplitIsSound
  <2> QED
    BY <2>1, <2>2, <2>3, <1>1, <1>3, <1>4 DEF SplitIsSound, InSplit
<1>10. MergeIsSound'
  <2>1. InSplit => a # best
    BY <1>1, <1>2 DEF HeapInv, Sound, SplitIsSound
  <2> QED
    BY <2>1, <1>1, <1>2, <1>3, <1>4 DEF MergeIsSound
<1> QED
  BY <1>5, <1>6, <1>7, <1>8, <1>9, <1>10 DEF HeapInv, Sound

\* The segment merged away is the one just behind, and all of it is counted.
LEMMA MergeLeftKeeps ==
  ASSUME HeapInv, MergeLeft
  PROVE  HeapInv'
<1>1. /\ ~damaged /\ mode = "left" /\ prev # Null /\ next # Null
      /\ prev \in segs /\ ~hdr[prev].is_allocated /\ hdr[prev].next = seg
      /\ seg \in segs /\ ~hdr[seg].is_allocated
      /\ hdr \in [Addr -> heap_segment] /\ segs \subseteq Addr /\ len \in [Addr -> Nat]
      /\ InSplit => seg # best
  BY DEF MergeLeft, PrevIsStale, LeftIsFree, HeapInv, Sound, HeapTypeOK, MergeIsSound
<1>2. PICK p \in Addr, s \in Addr, n \in Addr : p = prev /\ s = seg /\ n = next
  BY <1>1 DEF heap_segment, SegPtr, next
<1>3. /\ hdr' = [a \in Addr |->
                CASE a = p -> Segment(n, hdr[a].prev, FALSE,
                                      hdr[a].segment_size + hdr[s].segment_size)
                  [] a = n /\ a # p -> [hdr[a] EXCEPT !.prev = p]
                  [] OTHER    -> hdr[a]]
      /\ seg' = p /\ segs' = segs \ {s}
      /\ UNCHANGED <<alloc, bytes, cur, best, best_diff, ret, mode, len, quiet, damaged>>
  BY <1>2 DEF MergeLeft, walkVars
<1>0. /\ HeapTypeOK /\ Tiles /\ BlocksInSegments /\ WalkIsSound /\ SplitIsSound
      /\ InSplit' = InSplit /\ rest' = rest
      /\ InSplit => s # best /\ p # best /\ rest \notin segs /\ rest \in Addr
  <2>1. HeapTypeOK /\ Tiles /\ BlocksInSegments /\ WalkIsSound /\ SplitIsSound
    BY <1>1 DEF HeapInv, Sound
  <2>2. ASSUME InSplit PROVE s # best /\ p # best /\ rest \notin segs /\ rest \in Addr
    <3>1. /\ best \in segs /\ hdr[best].segment_size >= bytes + best_diff /\ best_diff > 2
          /\ bytes >= 1
      BY <2>1, <2>2 DEF SplitIsSound, InSplit
    <3>2. rest \notin segs /\ rest \in Addr
      BY <2>1, <3>1, RestInside
    <3>3. hdr[best].next = rest
      BY <2>1, <2>2, <3>1 DEF Tiles, Behind
    <3> QED
      BY <2>2, <3>2, <3>3, <1>1, <1>2
  <2> QED
    BY <2>1, <2>2, <1>3 DEF InSplit, rest
<1>4. /\ hdr[p].segment_size \in Nat /\ hdr[s].segment_size \in Nat
      /\ hdr[p].segment_size >= 1 /\ hdr[s].segment_size >= 1
      /\ End(p) = s /\ n = End(s) /\ p < s /\ s < n
      /\ p \in Nat /\ s \in Nat /\ n \in Nat /\ n < HeapSize
      /\ p \in segs /\ s \in segs
  <2>1. hdr[p] \in heap_segment /\ hdr[s] \in heap_segment
    BY <1>1, <1>2
  <2>2. /\ hdr[p].segment_size \in Nat /\ hdr[s].segment_size \in Nat
        /\ p \in Nat /\ s \in Nat /\ n \in Nat /\ n < HeapSize
    BY <2>1, HeapAssumption DEF heap_segment, Addr
  <2>3. End(p) = s
    BY <1>0, <1>1, <1>2, <2>2 DEF Tiles, Behind, Null
  <2>4. n = End(s)
    BY <1>0, <1>1, <1>2 DEF Tiles, Behind, next
  <2>5. hdr[p].segment_size >= 1 /\ hdr[s].segment_size >= 1
    BY <1>0, <1>1, <1>2 DEF Tiles
  <2> QED
    BY <1>1, <1>2, <2>2, <2>3, <2>4, <2>5 DEF End
<1>5. /\ hdr'[p] = Segment(n, hdr[p].prev, FALSE, hdr[p].segment_size + hdr[s].segment_size)
      /\ hdr'[n] = [hdr[n] EXCEPT !.prev = p]
      /\ \A a \in Addr : a # p /\ a # n => hdr'[a] = hdr[a]
  <2>1. n # p
    BY <1>4
  <2>2. hdr'[p] = Segment(n, hdr[p].prev, FALSE, hdr[p].segment_size + hdr[s].segment_size)
    BY <1>3, Zenon
  <2>3. hdr'[n] = [hdr[n] EXCEPT !.prev = p]
    BY <1>3, <2>1, Zenon
  <2>4. \A a \in Addr : a # p /\ a # n => hdr'[a] = hdr[a]
    BY <1>3, Zenon
  <2> QED
    BY <2>2, <2>3, <2>4
<1>6. /\ hdr'[p].next = n /\ ~hdr'[p].is_allocated
      /\ hdr'[p].segment_size = hdr[p].segment_size + hdr[s].segment_size
  BY <1>5 DEF Segment
<1>7. \A a \in Addr : a # p => /\ hdr'[a].segment_size = hdr[a].segment_size
                              /\ hdr'[a].next = hdr[a].next
                              /\ hdr'[a].is_allocated = hdr[a].is_allocated
  <2> SUFFICES ASSUME NEW a \in Addr, a # p
               PROVE  /\ hdr'[a].segment_size = hdr[a].segment_size
                      /\ hdr'[a].next = hdr[a].next
                      /\ hdr'[a].is_allocated = hdr[a].is_allocated
    OBVIOUS
  <2>1. CASE a = n
    <3>1. hdr[n] \in heap_segment
      BY <1>1
    <3> QED
      BY <2>1, <3>1, <1>5 DEF heap_segment
  <2>2. CASE a # n
    BY <2>2, <1>5
  <2> QED
    BY <2>1, <2>2
<1>8. HeapTypeOK'
  <2>1. hdr'[p] \in heap_segment /\ hdr'[n] \in heap_segment
    <3>1. hdr[p] \in heap_segment /\ hdr[n] \in heap_segment
      BY <1>1
    <3> QED
      BY <1>4, <1>5, <3>1 DEF Segment, heap_segment, SegPtr
  <2>2. hdr' \in [Addr -> heap_segment]
    BY <1>1, <1>3, <1>5, <2>1
  <2> QED
    BY <1>1, <1>3, <2>2 DEF HeapInv, HeapTypeOK, SegPtr
<1>9. Tiles'
  <2>1. Tiles
    BY <1>0
  <2>2. End(p)' = n
    BY <1>4, <1>6 DEF End
  <2>3. \A a \in segs : /\ a \in Nat /\ End(a) \in Nat /\ End(a) > a
    <3> SUFFICES ASSUME NEW a \in segs PROVE a \in Nat /\ End(a) \in Nat /\ End(a) > a
      OBVIOUS
    <3>1. a \in Nat /\ hdr[a] \in heap_segment /\ hdr[a].segment_size >= 1
      BY <1>1, <2>1, HeapAssumption DEF Tiles, Addr
    <3> QED
      BY <3>1 DEF End, heap_segment
  <2>4. \A a \in segs : a # p => End(a)' = End(a)
    BY <1>1, <1>7 DEF End
  <2>7. \A a \in segs : a # p => Behind(a)' = Behind(a)
    BY <2>4, <1>0, <1>3 DEF Behind
  <2>8. Behind(p)' = IF End(p)' = HeapSize THEN Null ELSE End(p)'
    BY <1>0, <1>3 DEF Behind
  <2>5. 0 \in segs'
    BY <1>3, <1>4, <2>1 DEF Tiles
  <2>6. ASSUME NEW a \in segs'
        PROVE  /\ hdr'[a].segment_size >= 1 /\ End(a)' <= HeapSize
               /\ hdr'[a].next = Behind(a)'
               /\ End(a)' < HeapSize => End(a)' \in segs'
               /\ \A b \in segs' : a < b => End(a)' <= b
    <3>0. a \in segs /\ a # s
      BY <1>3
    <3>1. CASE a = p
      <4>1. End(a)' = n
        BY <3>1, <2>2
      <4>2. n \in segs'
        BY <1>3, <1>4, <2>1 DEF Tiles
      <4>3. ASSUME NEW b \in segs', a < b PROVE n <= b
        <5>1. b \in segs /\ b # s
          BY <1>3
        <5>2. s <= b
          BY <5>1, <4>3, <3>1, <1>4, <2>1 DEF Tiles
        <5>3. s < b
          BY <5>1, <5>2, <1>4, <2>3
        <5> QED
          BY <5>1, <5>3, <1>4, <2>1 DEF Tiles
      <4>4. hdr'[a].segment_size >= 1 /\ hdr'[a].next = n /\ n # HeapSize /\ n <= HeapSize
        BY <3>1, <1>4, <1>6, HeapAssumption
      <4>5. hdr'[a].next = Behind(a)'
        BY <4>1, <4>4, <3>1, <2>2, <2>8
      <4> QED
        BY <4>1, <4>2, <4>3, <4>4, <4>5
    <3>2. CASE a # p
      <4>1. End(a)' = End(a) /\ hdr'[a].segment_size = hdr[a].segment_size
            /\ hdr'[a].next = hdr[a].next /\ Behind(a)' = Behind(a)
        BY <3>0, <3>2, <1>1, <1>7, <2>4, <2>7
      <4>2. End(a) # s
        <5>1. CASE a < p
          BY <5>1, <3>0, <1>4, <2>1, <2>3 DEF Tiles
        <5>2. CASE p < a
          BY <5>2, <3>0, <1>4, <2>1, <2>3 DEF Tiles
        <5> QED
          BY <5>1, <5>2, <3>0, <3>2, <1>4, <2>3
      <4> QED
        BY <4>1, <4>2, <3>0, <1>3, <2>1 DEF Tiles
    <3> QED
      BY <3>1, <3>2
  <2> QED
    BY <2>5, <2>6 DEF Tiles
<1>10. BlocksInSegments'
  <2> SUFFICES ASSUME NEW a \in Addr, len[a] > 0
               PROVE  a \in segs' /\ hdr'[a].is_allocated /\ len[a] <= hdr'[a].segment_size
    BY <1>3 DEF BlocksInSegments
  <2>1. a \in segs /\ hdr[a].is_allocated /\ len[a] <= hdr[a].segment_size
    BY <1>0 DEF BlocksInSegments
  <2>2. a # p /\ a # s
    BY <1>1, <1>2, <2>1
  <2> QED
    BY <2>1, <2>2, <1>3, <1>7
<1>11. WalkIsSound'
  <2> SUFFICES ASSUME alloc \in {"walk", "tested", "saved"}, best \in segs'
               PROVE  /\ ~hdr'[best].is_allocated
                      /\ best_diff >= 0
                      /\ hdr'[best].segment_size >= bytes + best_diff
    BY <1>0, <1>3 DEF WalkIsSound
  <2>1. bytes \in Nat /\ best_diff \in Int
    BY <1>0 DEF HeapTypeOK
  <2>2. CASE best = p
    <3>1. best_diff >= 0 /\ hdr[p].segment_size >= bytes + best_diff
      BY <2>2, <1>0, <1>4 DEF WalkIsSound
    <3>2. hdr'[best].segment_size >= bytes + best_diff
      BY <3>1, <2>1, <2>2, <1>4, <1>6
    <3> QED
      BY <3>1, <3>2, <2>2, <1>6
  <2>3. CASE best # p
    BY <2>3, <1>0, <1>1, <1>3, <1>7 DEF WalkIsSound
  <2> QED
    BY <2>2, <2>3
<1>12. SplitIsSound'
  <2>1. CASE InSplit
    <3>1. /\ best \in segs /\ best # p /\ best # s /\ best \in Addr /\ rest \in Addr /\ rest # p
      BY <2>1, <1>0, <1>1, <1>4 DEF SplitIsSound
    <3>2. End(best)' = End(best)
      BY <3>1, <1>3, <1>7 DEF End
    <3> QED
      BY <3>1, <3>2, <2>1, <1>0, <1>3, <1>7 DEF SplitIsSound, InSplit
  <2>2. CASE ~InSplit
    <3>1. ASSUME alloc = "shrunk", best \in segs'
          PROVE  ~hdr'[best].is_allocated /\ hdr'[best].segment_size >= bytes
      <4>1. ~hdr[best].is_allocated /\ hdr[best].segment_size >= bytes /\ best \in Addr
            /\ bytes \in Nat
        BY <3>1, <1>0, <1>1, <1>3 DEF SplitIsSound, HeapTypeOK
      <4>2. CASE best = p
        BY <4>1, <4>2, <1>4, <1>6
      <4>3. CASE best # p
        BY <4>1, <4>3, <1>7
      <4> QED
        BY <4>2, <4>3
    <3> QED
      BY <3>1, <2>2, <1>0, <1>3 DEF SplitIsSound, InSplit
  <2> QED
    BY <2>1, <2>2
<1>13. MergeIsSound'
  <2>1. p \in segs'
    BY <1>3, <1>4
  <2> QED
    BY <2>1, <1>0, <1>3, <1>6 DEF MergeIsSound
<1> QED
  BY <1>8, <1>9, <1>10, <1>11, <1>12, <1>13 DEF HeapInv, Sound

LEMMA LoopEnds ==
  ASSUME HeapInv, EndLeft \/ EndRight \/ MergeLeftFails
  PROVE  HeapInv'
<1> USE DEF HeapInv, Sound, EndLeft, EndRight, MergeLeftFails, walkVars, mergeVars
<1>1. HeapTypeOK'
  BY DEF HeapTypeOK
<1>2. ~damaged' => Tiles'
  BY TilesFramed DEF InSplit
<1>3. ~damaged' => (BlocksInSegments /\ MergeIsSound /\ WalkIsSound)'
  BY DEF BlocksInSegments, MergeIsSound, WalkIsSound, InSplit, rest
<1>4. ~damaged' => SplitIsSound'
  BY DEF SplitIsSound, InSplit, rest, End
<1> QED
  BY <1>1, <1>2, <1>3, <1>4

LEMMA MergeRightKeeps ==
  ASSUME HeapInv, MergeRight
  PROVE  HeapInv'
<1>1. /\ ~damaged /\ damaged' /\ next # Null /\ seg \in Addr /\ damaged' \in BOOLEAN
      /\ hdr \in [Addr -> heap_segment]
      /\ UNCHANGED <<alloc, bytes, cur, best, best_diff, ret, mode, segs, len, quiet>>
  BY DEF MergeRight, HeapInv, Sound, HeapTypeOK, MergeIsSound, walkVars
<1>2. hdr[seg] \in heap_segment /\ next \in Addr
  BY <1>1 DEF next, heap_segment, SegPtr
<1>3. hdr' \in [Addr -> heap_segment] /\ seg' \in SegPtr
  <2> DEFINE after == hdr[next].next
  <2>1. after \in SegPtr
    BY <1>1, <1>2 DEF heap_segment
  <2>2. CASE after = Null
    BY <2>2, <1>1 DEF MergeRight, SegPtr
  <2>3. CASE after # Null
    <3>1. after \in Addr /\ seg' = after
      BY <2>1, <2>3 DEF SegPtr, MergeRight
    <3>2. hdr' = [a \in Addr |->
                    CASE a = seg -> Segment(after, hdr[a].prev, FALSE,
                                            hdr[a].segment_size + hdr[after].segment_size)
                      [] a = after /\ a # seg -> [hdr[a] EXCEPT !.prev = seg]
                      [] OTHER    -> hdr[a]]
      BY <2>3 DEF MergeRight
    <3> HIDE DEF after
    <3>3. ASSUME NEW a \in Addr PROVE hdr'[a] \in heap_segment
      <4>1. hdr[a] \in heap_segment /\ hdr[after] \in heap_segment
        BY <1>1, <3>1
      <4>2. CASE a = seg
        BY <4>1, <4>2, <3>1, <3>2 DEF Segment, heap_segment, SegPtr
      <4>3. CASE a # seg
        BY <4>1, <4>3, <3>1, <3>2, <1>1 DEF heap_segment, SegPtr
      <4> QED
        BY <4>2, <4>3
    <3> QED
      BY <3>1, <3>2, <3>3 DEF SegPtr
  <2> QED
    BY <2>2, <2>3
<1> QED
  BY <1>1, <1>3 DEF HeapInv, HeapTypeOK

-----------------------------------------------------------------------------
LEMMA HeapInvNext ==
  ASSUME HeapInv, [HeapNext]_heapVars
  PROVE  HeapInv'
<1>1. CASE \E b \in Nat \ {0} : mem_alloc(b)
  BY <1>1, AllocBegins
<1>2. CASE \E a \in Addr : mem_free(a)
  BY <1>2, FreeBegins
<1>3. CASE AllocStep \/ Return
  BY <1>3, TestKeeps, AdvanceKeeps, NothingFound, SaveNextKeeps, LinkRestKeeps, FillRestKeeps,
     ShrinkKeeps, AllocateKeeps
  DEF AllocStep
<1>4. CASE FreeStep
  BY <1>4, MergeLeftKeeps, LoopEnds, MergeRightKeeps DEF FreeStep
<1>5. CASE UNCHANGED heapVars
  <2>1. UNCHANGED <<hdr, alloc, bytes, cur, best, best_diff, ret, mode, seg, segs, len, quiet,
                    damaged>>
    BY <1>5 DEF heapVars, walkVars, mergeVars
  <2>2. HeapTypeOK' /\ (HeapTypeOK /\ Tiles => Tiles')
    BY <2>1, TilesFramed DEF HeapInv, HeapTypeOK, InSplit
  <2>3. BlocksInSegments /\ WalkIsSound /\ MergeIsSound
          => (BlocksInSegments /\ WalkIsSound /\ MergeIsSound)'
    BY <2>1 DEF BlocksInSegments, WalkIsSound, MergeIsSound, InSplit, rest
  <2>4. SplitIsSound => SplitIsSound'
    BY <2>1 DEF SplitIsSound, InSplit, rest, End
  <2> QED
    BY <2>1, <2>2, <2>3, <2>4 DEF HeapInv, Sound
<1> QED
  BY <1>1, <1>2, <1>3, <1>4, <1>5 DEF HeapNext

LEMMA HeapInvAlways == HeapSpec => []HeapInv
<1> QED
  BY HeapInvInit, HeapInvNext, PTL DEF HeapSpec

\* Every header, local and block of mem_alloc and mem_free keeps its type, also
\* while the list is being destroyed.
THEOREM HeapTypes == HeapSpec => []HeapTypeOK
<1>1. HeapInv => HeapTypeOK
  BY DEF HeapInv
<1> QED
  BY <1>1, HeapInvAlways, PTL

\* Splits and merges to the left keep the heap covered by its segments, also when
\* merges come between the stores of a split, until the list is destroyed.
THEOREM HeapIsTiled == HeapSpec => []SegmentsTile
<1>1. HeapInv => SegmentsTile
  BY DEF HeapInv, Sound, Tiles, SegmentsTile
<1> QED
  BY <1>1, HeapInvAlways, PTL

LEMMA InvGivesDisjoint == HeapInv => BlocksDisjoint
<1> SUFFICES ASSUME HeapInv, ~damaged,
                    NEW a \in Addr, NEW b \in Addr, len[a] > 0, len[b] > 0, a < b
             PROVE  a + len[a] <= b
  BY DEF BlocksDisjoint
<1>1. a \in segs /\ b \in segs /\ len[a] <= hdr[a].segment_size
  BY DEF HeapInv, Sound, BlocksInSegments
<1>2. End(a) <= b
  BY <1>1 DEF HeapInv, Sound, Tiles
<1>3. hdr[a].segment_size \in Nat /\ len[a] \in Nat
  BY DEF HeapInv, HeapTypeOK, heap_segment
<1> QED
  BY <1>1, <1>2, <1>3 DEF End, Addr

\* Blocks in use do not overlap, for every size of the heap, of the blocks, and
\* every free between two steps of mem_alloc, until the list is destroyed.
THEOREM HeapBlocksDisjoint == HeapSpec => []BlocksDisjoint
<1> QED
  BY InvGivesDisjoint, HeapInvAlways, PTL

-----------------------------------------------------------------------------
(* The heap implements the allocator: a block appears when a walk ends,    *)
(* disappears when mem_free is called, and every other step is a stutter   *)
(* or breaks the heap.                                                     *)

LEMMA BlocksFramed ==
  ASSUME UNCHANGED len
  PROVE  Blocks' = Blocks
BY DEF Blocks

\* A step that hands out a block is an Alloc, by the invariant after it.
LEMMA HandsOut ==
  ASSUME HeapInv, HeapInv', NEW a \in Addr, NEW b \in Nat \ {0},
         ~damaged, damaged' = damaged, len[a] = 0, len' = [len EXCEPT ![a] = b]
  PROVE  Allocator!Next
<1>1. len \in [Addr -> Nat] /\ len'[a] = b /\ \A c \in Addr : c # a => len'[c] = len[c]
  BY DEF HeapInv, HeapTypeOK
<1>2. Blocks' = Blocks \cup {<<a, b>>}
  <2>1. Blocks' = {<<c, len'[c]>> : c \in {d \in Addr : len'[d] > 0}}
    BY DEF Blocks
  <2>2. {d \in Addr : len'[d] > 0} = {d \in Addr : len[d] > 0} \cup {a}
    BY <1>1
  <2>3. a \notin {d \in Addr : len[d] > 0}
    OBVIOUS
  <2>4. \A c \in {d \in Addr : len[d] > 0} : len'[c] = len[c]
    BY <1>1, <2>3
  <2> QED
    BY <1>1, <2>1, <2>2, <2>4, Zenon DEF Blocks
<1>3. BlocksDisjoint'
  <2>1. HeapInv' => BlocksDisjoint'
    BY InvGivesDisjoint, PTL
  <2> QED
    BY <2>1
<1>4. a + b <= HeapSize
  <2>1. a \in segs' /\ b <= hdr'[a].segment_size
    BY <1>1 DEF HeapInv, Sound, BlocksInSegments
  <2>2. End(a)' <= HeapSize
    BY <2>1 DEF HeapInv, Sound, Tiles
  <2>3. hdr'[a].segment_size \in Nat
    BY DEF HeapInv, HeapTypeOK, heap_segment
  <2> QED
    BY <2>1, <2>2, <2>3, HeapAssumption DEF End, Addr
<1>5. ASSUME NEW c \in Blocks PROVE Allocator!Apart(c, <<a, b>>)
  <2>1. PICK d \in Addr : len[d] > 0 /\ c = <<d, len[d]>>
    BY DEF Blocks
  <2>2. d # a /\ len'[d] = len[d]
    BY <1>1, <2>1
  <2>3. d + len[d] <= a \/ a + b <= d
    BY <1>1, <1>3, <2>1, <2>2 DEF BlocksDisjoint, Addr
  <2> QED
    BY <2>1, <2>3 DEF Allocator!Apart
<1>6. a \in 0 .. HeapSize - 1 /\ b \in 1 .. HeapSize
  BY <1>4, HeapAssumption DEF Addr
<1> QED
  BY <1>2, <1>4, <1>5, <1>6 DEF Allocator!Next, Allocator!Alloc

LEMMA TakesBack ==
  ASSUME HeapInv, NEW a \in Addr, mem_free(a)
  PROVE  Allocator!Next
<1>1. /\ ~damaged /\ damaged' = damaged /\ len \in [Addr -> Nat] /\ len[a] > 0
      /\ len'[a] = 0 /\ \A c \in Addr : c # a => len'[c] = len[c]
  BY DEF mem_free, MayRun, HeapInv, HeapTypeOK
<1>2. Blocks' = {<<c, len'[c]>> : c \in {d \in Addr : len'[d] > 0}}
  BY DEF Blocks
<1>3. {d \in Addr : len'[d] > 0} = {d \in Addr : len[d] > 0} \ {a}
  BY <1>1
<1>4. Blocks' = Blocks \ {<<a, len[a]>>} /\ <<a, len[a]>> \in Blocks
  <2>1. <<a, len[a]>> \in Blocks
    BY <1>1 DEF Blocks
  <2>2. ASSUME NEW x \in Blocks' PROVE x \in Blocks /\ x # <<a, len[a]>>
    <3>1. PICK c \in Addr : c # a /\ len[c] > 0 /\ x = <<c, len'[c]>>
      BY <1>2, <1>3
    <3> QED
      BY <3>1, <1>1 DEF Blocks
  <2>3. ASSUME NEW x \in Blocks, x # <<a, len[a]>> PROVE x \in Blocks'
    <3>1. PICK c \in Addr : len[c] > 0 /\ x = <<c, len[c]>>
      BY DEF Blocks
    <3>2. c # a /\ len'[c] = len[c]
      BY <3>1, <2>3, <1>1
    <3> QED
      BY <3>1, <3>2, <1>2, <1>3
  <2> QED
    BY <2>1, <2>2, <2>3
<1> QED
  BY <1>1, <1>4 DEF Allocator!Next, Allocator!Free

LEMMA HeapStepRefines ==
  ASSUME HeapInv, HeapInv', [HeapNext]_heapVars
  PROVE  [Allocator!Next]_<<Blocks, damaged>>
<1>1. CASE Allocate
  <2>1. /\ ~damaged /\ best \in segs /\ best \in Addr /\ ~hdr[best].is_allocated
        /\ bytes \in Nat /\ bytes >= 1
    BY <1>1, AllocateTakes
  <2>2. damaged' = damaged /\ len' = [len EXCEPT ![best] = bytes] /\ len \in [Addr -> Nat]
    BY <1>1 DEF Allocate, HeapInv, HeapTypeOK
  <2>3. len[best] = 0
    BY <2>1, <2>2 DEF HeapInv, Sound, BlocksInSegments
  <2>4. PICK a \in Addr, b \in Nat \ {0} : a = best /\ b = bytes
    BY <2>1
  <2> QED
    BY <2>1, <2>2, <2>3, <2>4, HandsOut
<1>2. CASE \E a \in Addr : mem_free(a)
  BY <1>2, TakesBack
<1>3. CASE TakesMergedAway \/ MergeLeftFails \/ MergeRight \/ (LinkRest /\ SavedIsStale)
  <2>1. ~damaged /\ damaged' = TRUE /\ UNCHANGED len
    BY <1>3 DEF TakesMergedAway, Decided, Chosen, MayRun, MergeLeftFails, MergeRight, LinkRest,
                SavedIsStale
  <2> QED
    BY <2>1, BlocksFramed DEF Allocator!Next, Allocator!Break
<1>4. CASE LinkRest /\ ~SavedIsStale
  <2>1. ~damaged /\ ~damaged' /\ UNCHANGED len /\ {damaged, damaged'} \subseteq BOOLEAN
    BY <1>4 DEF LinkRest, MayRun, HeapInv, HeapTypeOK
  <2>2. UNCHANGED damaged
    BY <2>1
  <2> QED
    BY <2>1, <2>2, BlocksFramed
<1>5. CASE \/ \E b \in Nat \ {0} : mem_alloc(b)
           \/ Test \/ Advance \/ FindsNothing \/ SaveNext \/ FillRest \/ Shrink \/ Return
           \/ MergeLeft \/ EndLeft \/ EndRight
           \/ UNCHANGED heapVars
  <2>1. UNCHANGED <<len, damaged>>
    BY <1>5 DEF mem_alloc, Test, Advance, FindsNothing, SaveNext, FillRest, Shrink, Return,
                MergeLeft, EndLeft, EndRight, heapVars
  <2> QED
    BY <2>1, BlocksFramed
<1> QED
  BY <1>1, <1>2, <1>3, <1>4, <1>5 DEF HeapNext, AllocStep, FreeStep

\* mem_alloc and mem_free implement the allocator, whatever is freed between two
\* steps of mem_alloc, until the list is destroyed.
THEOREM HeapImplementsAllocator == HeapSpec => AllocatorSpec
<1>1. HeapInit => Allocator!Init
  BY DEF HeapInit, Allocator!Init, Blocks
<1> QED
  BY <1>1, HeapStepRefines, HeapInvAlways, PTL DEF HeapSpec, AllocatorSpec, Allocator!Spec

-----------------------------------------------------------------------------
(* Best fit.  A walk that no mem_free interrupts sees each segment once:   *)
(* those before cur, and cur once it is tested, are behind it, and best is *)
(* the first of the smallest of them that are large enough.                *)

Large(a)  == ~hdr[a].is_allocated /\ hdr[a].segment_size >= bytes
Passed(a) == cur = Null \/ a < cur \/ (alloc = "tested" /\ a = cur)

BestOfPassed ==
  /\ best = Null => best_diff = HeapSize + 1 /\ \A a \in segs : Passed(a) => ~Large(a)
  /\ best # Null =>
       /\ best \in segs /\ Passed(best) /\ ~hdr[best].is_allocated
       /\ best_diff >= 0 /\ hdr[best].segment_size = bytes + best_diff
       /\ \A a \in segs : Passed(a) /\ Large(a) =>
            \/ hdr[best].segment_size < hdr[a].segment_size
            \/ hdr[best].segment_size = hdr[a].segment_size /\ best <= a

QuietWalk ==
  ~damaged /\ quiet /\ alloc \in {"walk", "tested"} =>
    /\ mode = "no" /\ cur \in segs \cup {Null} /\ BestOfPassed
    /\ alloc = "tested" => cur \in segs

\* A test passes cur; the load of its next passes nothing.
LEMMA TestPasses ==
  ASSUME HeapInv, Test, cur \in segs
  PROVE  \A a \in segs : Passed(a)' <=> Passed(a) \/ a = cur
<1>1. alloc = "walk" /\ alloc' = "tested" /\ cur' = cur
  BY DEF Test
<1>2. cur # Null
  BY HeapAssumption DEF HeapInv, HeapTypeOK, Addr, Null
<1> QED
  BY <1>1, <1>2 DEF Passed

LEMMA AdvancePasses ==
  ASSUME HeapInv, ~damaged, cur \in segs, Advance
  PROVE  /\ cur' \in segs \cup {Null}
         /\ \A a \in segs : Passed(a)' <=> Passed(a)
<1>1. /\ Tiles /\ segs \subseteq Addr /\ cur \in Addr /\ cur' = hdr[cur].next
      /\ hdr[cur] \in heap_segment /\ alloc = "tested" /\ alloc' = "walk" /\ ~InSplit
  BY DEF HeapInv, Sound, HeapTypeOK, Advance, InSplit
<1>2. /\ End(cur) <= HeapSize /\ cur' = IF End(cur) = HeapSize THEN Null ELSE End(cur)
      /\ End(cur) < HeapSize => End(cur) \in segs
      /\ \A b \in segs : cur < b => End(cur) <= b
      /\ End(cur) \in Nat /\ End(cur) > cur
  <2>1. End(cur) \in Nat /\ End(cur) > cur
    BY <1>1, HeapAssumption DEF Tiles, End, heap_segment, Addr
  <2> QED
    BY <1>1, <2>1 DEF Tiles, Behind
<1>3. \A a \in segs : a \in Nat /\ a < HeapSize
  BY <1>1, HeapAssumption DEF Addr
<1>4. cur' \in segs \cup {Null}
  BY <1>2, HeapAssumption
<1>5. ASSUME NEW a \in segs PROVE Passed(a)' <=> Passed(a)
  <2>1. Passed(a) <=> a < cur \/ a = cur
    BY <1>1, <1>3 DEF Passed, Null
  <2>2. CASE End(cur) = HeapSize
    BY <1>1, <1>2, <1>3, <2>1, <2>2, HeapAssumption DEF Passed
  <2>3. CASE End(cur) # HeapSize
    BY <1>1, <1>2, <1>3, <2>1, <2>3, HeapAssumption DEF Passed, Null
  <2> QED
    BY <2>2, <2>3
<1> QED
  BY <1>4, <1>5

LEMMA AdvanceIsQuiet ==
  ASSUME HeapInv, QuietWalk, Advance
  PROVE  QuietWalk'
<1> SUFFICES ASSUME quiet
             PROVE  mode' = "no" /\ cur' \in segs' \cup {Null} /\ BestOfPassed'
  BY DEF QuietWalk, Advance
<1>1. /\ ~damaged /\ mode = "no" /\ alloc = "tested" /\ BestOfPassed /\ cur \in segs
      /\ UNCHANGED <<hdr, bytes, segs, mode, best, best_diff>>
  BY DEF QuietWalk, Advance, MayRun, mergeVars
<1>2. /\ cur' \in segs \cup {Null}
      /\ \A a \in segs : Passed(a)' <=> Passed(a)
  BY <1>1, AdvancePasses
<1>3. \A a \in segs : Large(a)' <=> Large(a)
  BY <1>1 DEF Large
<1>4. best # Null => Passed(best)'
  <2> SUFFICES ASSUME best # Null PROVE Passed(best)'
    OBVIOUS
  <2>1. PICK c \in segs : c = best /\ Passed(c)
    BY <1>1 DEF BestOfPassed
  <2>2. Passed(c)'
    BY <2>1, <1>2
  <2> QED
    BY <2>1, <2>2, <1>1 DEF Passed
<1> QED
  BY <1>1, <1>2, <1>3, <1>4 DEF BestOfPassed

LEMMA TestIsQuiet ==
  ASSUME HeapInv, QuietWalk, Test
  PROVE  QuietWalk'
<1> SUFFICES ASSUME quiet
             PROVE  mode' = "no" /\ cur' \in segs' \cup {Null} /\ BestOfPassed' /\ cur' \in segs'
  BY DEF QuietWalk, Test
<1>1. /\ ~damaged /\ mode = "no" /\ alloc = "walk" /\ BestOfPassed /\ cur \in segs /\ cur # Null
      /\ UNCHANGED <<hdr, bytes, segs, mode, cur>>
  BY DEF QuietWalk, Test, MayRun, mergeVars
<1>2. /\ cur' \in segs
      /\ \A a \in segs : Passed(a)' <=> Passed(a) \/ a = cur
  BY <1>1, TestPasses
<1>3. /\ \A a \in segs : a \in Nat /\ a # Null /\ hdr[a].segment_size \in Nat
                         /\ hdr[a].segment_size <= HeapSize
      /\ bytes \in Nat /\ bytes >= 1 /\ best_diff \in Int /\ HeapSize \in Nat
  <2>1. \A a \in segs : a \in Nat /\ a # Null /\ hdr[a] \in heap_segment
    BY HeapAssumption DEF HeapInv, HeapTypeOK, Addr, Null
  <2>2. \A a \in segs : hdr[a].segment_size <= HeapSize
    BY <1>1, <2>1, HeapAssumption DEF HeapInv, Sound, Tiles, End, heap_segment
  <2> QED
    BY <1>1, <2>1, <2>2, HeapAssumption DEF HeapInv, Sound, WalkIsSound, HeapTypeOK, heap_segment
<1>4. \A a \in segs : Large(a)' <=> Large(a)
  BY <1>1 DEF Large
<1>5. \A a \in segs : Passed(a) => a < cur
  BY <1>1 DEF Passed
<1>6. CASE Fits
  <2>1. /\ best' = cur /\ best_diff' = hdr[cur].segment_size - bytes
        /\ ~hdr[cur].is_allocated /\ best_diff' < best_diff /\ best_diff' >= 0
    BY <1>6 DEF Test, Fits
  <2>2. ASSUME NEW a \in segs, Passed(a), Large(a)
        PROVE  hdr[cur].segment_size < hdr[a].segment_size
    <3>1. best # Null /\ hdr[best].segment_size = bytes + best_diff
      BY <2>2, <1>1 DEF BestOfPassed
    <3>2. bytes + best_diff <= hdr[a].segment_size
      BY <2>2, <3>1, <1>1, <1>3 DEF BestOfPassed
    <3> QED
      BY <3>2, <2>1, <1>1, <1>3
  <2>3. /\ hdr'[best'].segment_size = bytes' + best_diff' /\ best' \in segs' /\ best' # Null
        /\ ~hdr'[best'].is_allocated
    BY <2>1, <1>1, <1>3
  <2>4. Passed(best)'
    <3>1. PICK c \in segs : c = cur
      BY <1>1
    <3>2. Passed(c)'
      BY <3>1, <1>2
    <3> QED
      BY <3>1, <3>2, <2>1 DEF Passed
  <2>5. \A a \in segs : Passed(a)' /\ Large(a)' =>
            \/ hdr'[best'].segment_size < hdr'[a].segment_size
            \/ hdr'[best'].segment_size = hdr'[a].segment_size /\ best' <= a
    BY <1>1, <1>2, <1>3, <1>4, <2>1, <2>2
  <2> QED
    BY <1>1, <1>2, <2>1, <2>3, <2>4, <2>5 DEF BestOfPassed
<1>7. CASE ~Fits
  <2>1. UNCHANGED <<best, best_diff>>
    BY <1>7 DEF Test
  <2>2. Large(cur) => hdr[cur].segment_size - bytes >= best_diff
    BY <1>1, <1>3, <1>7 DEF Fits, Large
  <2>3. CASE best = Null
    <3>1. ~Large(cur)
      BY <2>2, <2>3, <1>1, <1>3 DEF BestOfPassed
    <3>2. \A a \in segs : Passed(a)' => ~Large(a)'
      BY <3>1, <2>3, <1>1, <1>2, <1>4 DEF BestOfPassed
    <3> QED
      BY <3>2, <2>1, <2>3, <1>1, <1>2 DEF BestOfPassed
  <2>4. CASE best # Null
    <3>1. /\ best \in segs /\ Passed(best) /\ ~hdr[best].is_allocated
          /\ best_diff >= 0 /\ hdr[best].segment_size = bytes + best_diff
      BY <2>4, <1>1 DEF BestOfPassed
    <3>2. \A a \in segs : Passed(a)' /\ Large(a)' =>
            \/ hdr[best].segment_size < hdr[a].segment_size
            \/ hdr[best].segment_size = hdr[a].segment_size /\ best <= a
      <4> SUFFICES ASSUME NEW a \in segs, Passed(a) \/ a = cur, Large(a)
                   PROVE  \/ hdr[best].segment_size < hdr[a].segment_size
                          \/ hdr[best].segment_size = hdr[a].segment_size /\ best <= a
        BY <1>2, <1>4
      <4>1. CASE Passed(a)
        BY <4>1, <2>4, <1>1 DEF BestOfPassed
      <4>2. CASE a = cur
        <5>1. best < cur
          BY <3>1, <1>5
        <5> QED
          BY <5>1, <4>2, <2>2, <3>1, <1>3
      <4> QED
        BY <4>1, <4>2
    <3>3. Passed(best)'
      BY <3>1, <2>1, <1>2 DEF Passed
    <3> QED
      BY <3>1, <3>2, <3>3, <2>1, <2>4, <1>1, <1>2 DEF BestOfPassed
  <2> QED
    BY <2>3, <2>4
<1> QED
  BY <1>6, <1>7

LEMMA QuietNext ==
  ASSUME HeapInv, QuietWalk, [HeapNext]_heapVars
  PROVE  QuietWalk'
<1>1. ASSUME NEW b \in Nat \ {0}, mem_alloc(b) PROVE QuietWalk'
  <2>1. /\ best' = Null /\ best_diff' = HeapSize + 1 /\ cur' = 0 /\ UNCHANGED <<segs, damaged>>
        /\ mode' = "no" /\ ~damaged
    BY <1>1 DEF mem_alloc, MayRun, mergeVars
  <2>2. 0 \in segs /\ \A a \in segs : ~(a < 0)
    BY <2>1, HeapAssumption DEF HeapInv, Sound, Tiles, HeapTypeOK, Addr
  <2> QED
    BY <1>1, <2>1, <2>2 DEF mem_alloc, QuietWalk, BestOfPassed, Passed, Null
<1>2. CASE Test \/ Advance
  BY <1>2, TestIsQuiet, AdvanceIsQuiet
<1>3. CASE \/ FindsNothing \/ SaveNext \/ LinkRest \/ FillRest \/ Shrink \/ Allocate
           \/ TakesMergedAway \/ Return
  BY <1>3 DEF FindsNothing, SaveNext, LinkRest, FillRest, Shrink, Allocate, TakesMergedAway,
              Return, QuietWalk
<1>4. CASE \E a \in Addr : mem_free(a)
  BY <1>4 DEF mem_free, QuietWalk
<1>5. CASE FreeStep
  <2>1. mode # "no" /\ UNCHANGED <<alloc, quiet>> /\ (damaged \/ damaged' = damaged \/ damaged')
    BY <1>5 DEF FreeStep, MergeLeft, MergeLeftFails, EndLeft, MergeRight, EndRight, walkVars
  <2>2. ~damaged
    BY <1>5 DEF FreeStep, MergeLeft, MergeLeftFails, EndLeft, MergeRight, EndRight
  <2> QED
    BY <2>1, <2>2 DEF QuietWalk
<1>6. CASE UNCHANGED heapVars
  BY <1>6 DEF heapVars, walkVars, mergeVars, QuietWalk, BestOfPassed, Passed, Large
<1> QED
  BY <1>1, <1>2, <1>3, <1>4, <1>5, <1>6 DEF HeapNext, AllocStep

\* A walk that no mem_free has interrupted finds the first of the smallest
\* segments that are large enough, and nothing only if there is none: for every
\* size of the heap and every list of segments (mem.c:218-230).
THEOREM HeapFindsBest == HeapSpec => []BestFit
<1>1. HeapInit => QuietWalk
  BY DEF HeapInit, QuietWalk
<1>2. HeapInv /\ QuietWalk => BestFit
  <2> SUFFICES ASSUME HeapInv, QuietWalk, ~damaged, quiet, alloc = "walk", cur = Null
               PROVE  BestFit
    BY DEF BestFit
  <2> DEFINE large == {a \in segs : ~hdr[a].is_allocated /\ hdr[a].segment_size >= bytes}
  <2>1. BestOfPassed /\ \A a \in segs : Passed(a) /\ (a \in large <=> Large(a))
    BY DEF QuietWalk, Passed, Large
  <2>2. best = Null => large = {}
    BY <2>1 DEF BestOfPassed
  <2>3. ASSUME best # Null
        PROVE  /\ best \in large
               /\ \A a \in large : \/ hdr[best].segment_size < hdr[a].segment_size
                                   \/ hdr[best].segment_size = hdr[a].segment_size /\ best <= a
    <3>1. bytes \in Nat /\ best_diff \in Int
      BY DEF HeapInv, HeapTypeOK
    <3>2. best \in large
      BY <2>1, <2>3, <3>1 DEF BestOfPassed
    <3> QED
      BY <2>1, <2>3, <3>2 DEF BestOfPassed
  <2> QED
    BY <2>2, <2>3 DEF BestFit
<1> QED
  BY <1>1, <1>2, QuietNext, HeapInvAlways, PTL DEF HeapSpec

-----------------------------------------------------------------------------
(* The memory of threads.                                                  *)

\* The number of pids that have asked for a page, and of pages taken.
Asked == IF next_proc_num <= 1 THEN 0
         ELSE IF making = "page" THEN next_proc_num - 2 ELSE next_proc_num - 1
Taken == IF Asked < MaxPid THEN Asked ELSE MaxPid - 1

PageTypes ==
  /\ free_pages \in Seq(Page \cup {Bogus})
  /\ entry \in [Page -> [allocated : BOOLEAN, pid : 0 .. MaxPid - 1]]
  /\ next_proc_num \in Nat
  /\ pcb \in [Addr -> [pid : Nat, stack_page : Page]]
  /\ live \subseteq Addr /\ making \in {"no", "alloc", "page", "lost"}

PagesInOrder ==
  /\ Len(free_pages) >= NumPages - FirstFree - Taken
  /\ \A i \in 1 .. NumPages - FirstFree - Taken : free_pages[i] = FirstFree + Taken + i - 1

StackOf(t) == IF pcb[t].pid < MaxPid
              THEN /\ pcb[t].stack_page = FirstFree + pcb[t].pid - 1
                   /\ entry[pcb[t].stack_page] = [allocated |-> TRUE, pid |-> pcb[t].pid]
              ELSE pcb[t].stack_page = NullPage

ThreadsApart ==
  \A t \in live : /\ pcb[t].pid \in 1 .. Asked
                  /\ StackOf(t)
                  /\ \A u \in live : pcb[u].pid = pcb[t].pid => u = t

\* kernel_main between two steps of a creation.
Creation ==
  /\ alloc # "idle" => making = "alloc" /\ bytes = PcbSize
  /\ making = "alloc" /\ alloc = "returned" /\ ret # Null /\ ~damaged =>
       ret \in Addr /\ ret \notin live /\ len[ret] = PcbSize
  /\ making = "page" =>
       /\ ret \in Addr /\ ret \notin live
       /\ next_proc_num >= 2 /\ pcb[ret] = [NoPid EXCEPT !.pid = next_proc_num - 1]
       /\ ~damaged => len[ret] = PcbSize

LivePcbs == ~damaged => \A t \in live : len[t] = PcbSize

MemoryInv == PageTypes /\ PagesInOrder /\ ThreadsApart /\ Creation /\ LivePcbs

-----------------------------------------------------------------------------
LEMMA Quotient ==
  ASSUME NEW t \in Nat, NEW d \in Nat \ {0}
  PROVE  t = d * (t \div d) + (t % d) /\ t \div d \in Nat /\ t % d \in 0 .. d - 1
BY SMT

\* Pages enough, and at least one.
LEMMA PageCount ==
  ASSUME NEW t \in Nat
  PROVE  /\ get_needed_page_count(t) \in Nat \ {0}
         /\ get_needed_page_count(t) * PageSize >= t
<1>0. PageSize \in Nat \ {0}
  BY MemoryAssumption
<1>1. PICK q \in Nat, r \in 0 .. PageSize - 1 :
        q = t \div PageSize /\ r = t % PageSize /\ t = PageSize * q + r
  BY <1>0, Quotient
<1>2. get_needed_page_count(t) = IF t < PageSize THEN 1 ELSE IF r = 0 THEN q ELSE q + 1
  BY <1>1 DEF get_needed_page_count
<1>3. t >= PageSize /\ r = 0 => q >= 1
  BY <1>0, <1>1
<1>4. PageSize * q = q * PageSize /\ (q + 1) * PageSize = q * PageSize + PageSize
  BY <1>0
<1>5. get_needed_page_count(t) \in Nat \ {0}
  BY <1>0, <1>1, <1>2, <1>3
<1>6. CASE t < PageSize
  BY <1>0, <1>2, <1>6
<1>7. CASE t >= PageSize /\ r = 0
  BY <1>0, <1>1, <1>2, <1>4, <1>7
<1>8. CASE t >= PageSize /\ r # 0
  <2>1. get_needed_page_count(t) = q + 1
    BY <1>0, <1>1, <1>2, <1>8
  <2>2. q * PageSize \in Nat
    BY <1>0
  <2> QED
    BY <1>0, <1>1, <1>4, <2>1, <2>2
<1> QED
  BY <1>0, <1>5, <1>6, <1>7, <1>8

LEMMA MemoryFacts ==
  /\ PageSize \in Nat \ {0} /\ PcbSize \in Nat \ {0} /\ MaxPid \in Nat \ {0}
  /\ KernelEnd \in Nat /\ NumPages \in Nat /\ FirstFree \in Nat \ {0}
  /\ FirstFree + MaxPid <= NumPages
  /\ FirstFree * PageSize >= KernelEnd + HeapSize
<1> DEFINE k == get_needed_page_count(KernelEnd)
           h == get_needed_page_count(HeapSize)
<1>1. PageSize \in Nat \ {0} /\ KernelEnd \in Nat /\ HeapSize \in Nat
  BY MemoryAssumption, HeapAssumption
<1>2. /\ k \in Nat \ {0} /\ h \in Nat \ {0}
      /\ k * PageSize >= KernelEnd /\ h * PageSize >= HeapSize
  BY <1>1, PageCount
<1>3. FirstFree = k + h
  BY DEF FirstFree
<1> HIDE DEF k, h
<1>4. (k + h) * PageSize = k * PageSize + h * PageSize
      /\ k * PageSize \in Nat /\ h * PageSize \in Nat
  BY <1>1, <1>2
<1>5. (k + h) * PageSize >= KernelEnd + HeapSize
  BY <1>1, <1>2, <1>4
<1> QED
  BY <1>2, <1>3, <1>5, MemoryAssumption

\* Every step is one of the heap, or none of it.
LEMMA MemoryStepsHeap ==
  ASSUME [Next]_vars
  PROVE  [HeapNext]_heapVars
<1>1. CASE create_kernel_thread
  BY <1>1, MemoryFacts DEF create_kernel_thread, HeapNext
<1>2. CASE InAlloc \/ InFree \/ NewPid \/ NullPcb
  BY <1>2 DEF InAlloc, InFree, NewPid, NullPcb, HeapNext
<1>3. CASE page_alloc
  BY <1>3 DEF page_alloc
<1>4. CASE \E t \in Addr : reap(t)
  BY <1>4 DEF reap, HeapNext
<1>5. CASE UNCHANGED vars
  BY <1>5 DEF vars
<1> QED
  BY <1>1, <1>2, <1>3, <1>4, <1>5 DEF Next

LEMMA MemoryUsesHeap == Spec => HeapSpec
<1>1. Init => HeapInit
  BY DEF Init
<1> QED
  BY <1>1, MemoryStepsHeap, PTL DEF Spec, HeapSpec

-----------------------------------------------------------------------------
LEMMA MemoryInvInit ==
  ASSUME Init
  PROVE  MemoryInv
<1> USE DEF Init, HeapInit
<1>1. Asked = 0 /\ Taken = 0
  BY MemoryFacts DEF Asked, Taken
<1>2. free_pages \in Seq(Page \cup {Bogus}) /\ Len(free_pages) = NumPages - FirstFree
  BY MemoryFacts DEF Page, Bogus
<1>3. PageTypes
  <2>1. entry \in [Page -> [allocated : BOOLEAN, pid : 0 .. MaxPid - 1]]
    BY MemoryFacts DEF Page
  <2>2. pcb \in [Addr -> [pid : Nat, stack_page : Page]]
    BY MemoryFacts DEF Page, NoPid, NullPage
  <2> QED
    BY <1>2, <2>1, <2>2 DEF PageTypes
<1>4. PagesInOrder
  BY <1>1, <1>2, MemoryFacts DEF PagesInOrder
<1> QED
  BY <1>3, <1>4 DEF MemoryInv, ThreadsApart, Creation, LivePcbs

\* A step of the heap alone leaves pages and threads as they are.
LEMMA PagesFramed ==
  ASSUME MemoryInv, UNCHANGED <<pageVars, next_proc_num, pcb, live>>,
         Asked' = Asked
  PROVE  (PagesInOrder /\ ThreadsApart)'
BY DEF MemoryInv, pageVars, PagesInOrder, Taken, ThreadsApart, StackOf

LEMMA CreateKeeps ==
  ASSUME MemoryInv, create_kernel_thread
  PROVE  MemoryInv'
<1> USE DEF MemoryInv, create_kernel_thread, mem_alloc, MayRun
<1>1. PageTypes'
  BY DEF PageTypes, pageVars
<1>2. (PagesInOrder /\ ThreadsApart)'
  BY PagesFramed DEF Asked
<1>3. (Creation /\ LivePcbs)'
  BY DEF Creation, LivePcbs
<1> QED
  BY <1>1, <1>2, <1>3

LEMMA InAllocKeeps ==
  ASSUME HeapInv, MemoryInv, InAlloc
  PROVE  MemoryInv'
<1>1. UNCHANGED <<pageVars, threadVars>> /\ Asked' = Asked
  BY DEF InAlloc, threadVars, Asked
<1>2. PageTypes'
  BY <1>1 DEF MemoryInv, PageTypes, pageVars, threadVars
<1>3. (PagesInOrder /\ ThreadsApart)'
  BY <1>1, PagesFramed DEF threadVars
<1>4. ~damaged /\ alloc # "idle" /\ alloc # "returned" /\ making = "alloc" /\ bytes = PcbSize
  <2>1. ~damaged /\ alloc # "idle" /\ alloc # "returned"
    BY DEF InAlloc, AllocStep, Test, Advance, FindsNothing, SaveNext, LinkRest, FillRest, Shrink,
           Allocate, TakesMergedAway, Decided, Chosen, MayRun
  <2> QED
    BY <2>1 DEF MemoryInv, Creation
<1>5. CASE Allocate
  <2>1. /\ best \in segs /\ best \in Addr /\ ret' = best /\ len' = [len EXCEPT ![best] = bytes]
        /\ len \in [Addr -> Nat] /\ alloc' = "returned" /\ UNCHANGED <<bytes, damaged>>
        /\ ~hdr[best].is_allocated
    BY <1>5, AllocateTakes DEF Allocate, HeapInv, HeapTypeOK
  <2>2. len[best] = 0
    BY <1>4, <2>1 DEF HeapInv, Sound, BlocksInSegments
  <2>3. best \notin live
    BY <1>4, <2>1, <2>2, MemoryFacts DEF MemoryInv, LivePcbs
  <2>4. Creation'
    BY <1>1, <1>4, <2>1, <2>3 DEF MemoryInv, Creation, threadVars
  <2>5. LivePcbs'
    BY <1>1, <1>4, <2>1 DEF MemoryInv, LivePcbs, threadVars, PageTypes
  <2> QED
    BY <1>2, <1>3, <2>4, <2>5 DEF MemoryInv
<1>6. CASE \/ Test \/ Advance \/ FindsNothing \/ SaveNext \/ LinkRest \/ FillRest \/ Shrink
           \/ TakesMergedAway
  <2>1. /\ UNCHANGED <<len, bytes>>
        /\ alloc' = "returned" => ret' = Null \/ damaged'
    BY <1>6 DEF Test, Advance, FindsNothing, SaveNext, LinkRest, FillRest, Shrink,
                TakesMergedAway
  <2>2. (Creation /\ LivePcbs)'
    BY <1>1, <1>4, <2>1 DEF MemoryInv, Creation, LivePcbs, threadVars
  <2> QED
    BY <1>2, <1>3, <2>2 DEF MemoryInv
<1> QED
  BY <1>5, <1>6 DEF InAlloc, AllocStep

LEMMA InFreeKeeps ==
  ASSUME MemoryInv, InFree
  PROVE  MemoryInv'
<1>1. /\ UNCHANGED <<pageVars, threadVars, walkVars, len>> /\ Asked' = Asked
      /\ ~damaged
  BY DEF InFree, threadVars, Asked, FreeStep, MergeLeft, MergeLeftFails, EndLeft, MergeRight,
         EndRight
<1>2. PageTypes'
  BY <1>1 DEF MemoryInv, PageTypes, pageVars, threadVars
<1>3. (PagesInOrder /\ ThreadsApart)'
  BY <1>1, PagesFramed DEF threadVars
<1>4. (Creation /\ LivePcbs)'
  BY <1>1 DEF MemoryInv, Creation, LivePcbs, threadVars, walkVars
<1> QED
  BY <1>2, <1>3, <1>4 DEF MemoryInv

LEMMA NewPidKeeps ==
  ASSUME HeapInv, MemoryInv, NewPid
  PROVE  MemoryInv'
<1>1. /\ making = "alloc" /\ alloc = "returned" /\ alloc' = "idle" /\ ~damaged
      /\ ret \in Addr /\ ret \notin live /\ len[ret] = PcbSize
      /\ UNCHANGED <<pageVars, live, len, ret, damaged>>
      /\ pcb' = [pcb EXCEPT ![ret] = [NoPid EXCEPT !.pid = next_proc_num]]
      /\ next_proc_num' = next_proc_num + 1
      /\ making' = IF next_proc_num = 0 THEN "no" ELSE "page"
  BY DEF NewPid, Return, MemoryInv, Creation
<1>2. /\ next_proc_num \in Nat /\ pcb \in [Addr -> [pid : Nat, stack_page : Page]]
      /\ live \subseteq Addr
  BY DEF MemoryInv, PageTypes
<1>3. Asked' = Asked
  BY <1>1, <1>2 DEF Asked
<1>4. [NoPid EXCEPT !.pid = next_proc_num] \in [pid : Nat, stack_page : Page]
  BY <1>2, MemoryFacts DEF NoPid, NullPage, Page
<1>5. pcb' \in [Addr -> [pid : Nat, stack_page : Page]]
      /\ pcb'[ret] = [NoPid EXCEPT !.pid = next_proc_num]
      /\ \A t \in live : pcb'[t] = pcb[t]
  BY <1>1, <1>2, <1>4
<1>6. PageTypes'
  BY <1>1, <1>2, <1>5 DEF MemoryInv, PageTypes, pageVars
<1>7. PagesInOrder'
  BY <1>1, <1>3 DEF MemoryInv, PagesInOrder, Taken, pageVars
<1>8. ThreadsApart'
  BY <1>1, <1>3, <1>5 DEF MemoryInv, ThreadsApart, StackOf, pageVars
<1>9. Creation'
  BY <1>1, <1>2, <1>5 DEF Creation
<1>10. LivePcbs'
  BY <1>1 DEF MemoryInv, LivePcbs
<1> QED
  BY <1>6, <1>7, <1>8, <1>9, <1>10 DEF MemoryInv

LEMMA NullPcbKeeps ==
  ASSUME MemoryInv, NullPcb
  PROVE  MemoryInv'
<1>1. /\ making = "alloc" /\ making' = "lost" /\ alloc' = "idle"
      /\ UNCHANGED <<pageVars, next_proc_num, pcb, live, len, damaged>>
  BY DEF NullPcb, Return
<1>2. PageTypes'
  BY <1>1 DEF MemoryInv, PageTypes, pageVars
<1>3. (PagesInOrder /\ ThreadsApart)'
  BY <1>1, PagesFramed DEF Asked
<1>4. (Creation /\ LivePcbs)'
  BY <1>1 DEF MemoryInv, Creation, LivePcbs
<1> QED
  BY <1>2, <1>3, <1>4 DEF MemoryInv

\* Pid n takes the n-th free page.
LEMMA PageAllocKeeps ==
  ASSUME MemoryInv, page_alloc
  PROVE  MemoryInv'
<1> DEFINE pid == next_proc_num - 1
<1>1. /\ making = "page" /\ making' = "no" /\ live' = live \cup {ret}
      /\ ret \in Addr /\ ret \notin live /\ next_proc_num \in Nat /\ next_proc_num >= 2
      /\ pcb \in [Addr -> [pid : Nat, stack_page : Page]] /\ live \subseteq Addr
      /\ pcb[ret].pid = pid /\ pcb[ret].stack_page = NullPage
      /\ UNCHANGED <<heapVars, next_proc_num>>
  BY DEF page_alloc, MemoryInv, Creation, PageTypes, NoPid
<1>2. UNCHANGED <<alloc, bytes, ret, len, damaged>>
  BY <1>1 DEF heapVars, walkVars
<1>3. Asked = pid - 1 /\ Asked' = pid /\ pid \in Nat \ {0}
  BY <1>1 DEF Asked
<1>4. /\ Taken \in Nat /\ Taken < MaxPid /\ Taken' \in Nat
      /\ pid < MaxPid => Taken = pid - 1 /\ Taken' = pid
      /\ pid >= MaxPid => Taken' = Taken
  <2>1. PICK k \in Nat \ {0} : k = pid
    BY <1>3
  <2>2. Asked = k - 1 /\ Asked' = k
    BY <1>3, <2>1
  <2>3. /\ Taken = IF k - 1 < MaxPid THEN k - 1 ELSE MaxPid - 1
        /\ Taken' = IF k < MaxPid THEN k ELSE MaxPid - 1
    BY <2>2 DEF Taken
  <2>4. MaxPid \in Nat \ {0}
    BY MemoryFacts
  <2>5. next_proc_num \in Nat
    BY <1>1
  <2>6. CASE k < MaxPid
    <3>1. Taken = k - 1 /\ Taken' = k
      BY <2>3, <2>4, <2>6
    <3> QED
      BY <2>1, <2>4, <2>6, <2>5, <3>1
  <2>7. CASE k = MaxPid
    <3>1. Taken = k - 1 /\ Taken' = k - 1
      BY <2>3, <2>4, <2>7
    <3> QED
      BY <2>1, <2>4, <2>7, <2>5, <3>1
  <2>8. CASE k > MaxPid
    <3>1. Taken = MaxPid - 1 /\ Taken' = MaxPid - 1
      BY <2>1, <2>3, <2>4, <2>8
    <3> QED
      BY <2>1, <2>4, <2>8, <2>5, <3>1
  <2> QED
    BY <2>1, <2>4, <2>6, <2>7, <2>8
<1>5. /\ free_pages \in Seq(Page \cup {Bogus})
      /\ entry \in [Page -> [allocated : BOOLEAN, pid : 0 .. MaxPid - 1]]
      /\ Len(free_pages) >= 1 /\ free_pages # <<>>
      /\ Head(free_pages) = FirstFree + Taken /\ FirstFree + Taken \in Page
      /\ Len(free_pages) >= NumPages - FirstFree - Taken
      /\ \A i \in 1 .. NumPages - FirstFree - Taken : free_pages[i] = FirstFree + Taken + i - 1
  <2>1. /\ free_pages \in Seq(Page \cup {Bogus})
        /\ entry \in [Page -> [allocated : BOOLEAN, pid : 0 .. MaxPid - 1]]
        /\ Len(free_pages) >= NumPages - FirstFree - Taken
        /\ \A i \in 1 .. NumPages - FirstFree - Taken : free_pages[i] = FirstFree + Taken + i - 1
    BY DEF MemoryInv, PageTypes, PagesInOrder
  <2>2. NumPages - FirstFree - Taken >= 1
    BY <1>4, MemoryFacts
  <2>3. Len(free_pages) >= 1 /\ free_pages # <<>>
    BY <1>4, <2>1, <2>2, MemoryFacts
  <2>4. free_pages[1] = FirstFree + Taken
    BY <1>4, <2>1, <2>2, MemoryFacts
  <2>5. Head(free_pages) = free_pages[1]
    BY <2>1, <2>3
  <2> QED
    BY <1>4, <2>1, <2>3, <2>4, <2>5, MemoryFacts DEF Page
<1>6. (Creation /\ LivePcbs)'
  BY <1>1, <1>2 DEF MemoryInv, Creation, LivePcbs
<1>7. CASE pid >= MaxPid
  <2>1. UNCHANGED <<pageVars, pcb>>
    BY <1>1, <1>7 DEF page_alloc, HasNoPage
  <2>2. PageTypes'
    BY <1>1, <2>1 DEF MemoryInv, PageTypes, pageVars
  <2>3. PagesInOrder'
    BY <1>4, <1>7, <2>1 DEF MemoryInv, PagesInOrder, pageVars
  <2>4. ThreadsApart'
    <3> SUFFICES ASSUME NEW t \in live'
                 PROVE  /\ pcb[t].pid \in 1 .. pid
                        /\ StackOf(t)
                        /\ \A u \in live' : pcb[u].pid = pcb[t].pid => u = t
      BY <1>3, <2>1 DEF ThreadsApart, StackOf, pageVars
    <3>1. \A u \in live : /\ pcb[u].pid \in 1 .. pid - 1 /\ StackOf(u)
                         /\ \A v \in live : pcb[v].pid = pcb[u].pid => u = v
      BY <1>3 DEF MemoryInv, ThreadsApart
    <3>2. StackOf(ret)
      BY <1>1, <1>3, <1>7, MemoryFacts DEF StackOf
    <3> QED
      BY <3>1, <3>2, <1>1, <1>3
  <2> QED
    BY <1>6, <2>2, <2>3, <2>4 DEF MemoryInv
<1>8. CASE pid < MaxPid
  <2> DEFINE page == FirstFree + pid - 1
  <2>1. /\ entry' = [entry EXCEPT ![Head(free_pages)] = [allocated |-> TRUE, pid |-> pid]]
        /\ pcb' = [pcb EXCEPT ![ret].stack_page = Head(free_pages)]
        /\ free_pages' = Tail(free_pages)
    <3>1. ~HasNoPage(pid)
      BY <1>3, <1>5, <1>8, MemoryFacts DEF HasNoPage
    <3> QED
      BY <1>1, <3>1 DEF page_alloc
  <2>2. Head(free_pages) = page /\ page \in Page
    BY <1>3, <1>4, <1>5, <1>8, MemoryFacts
  <2> HIDE DEF page
  <2>3. /\ entry' = [entry EXCEPT ![page] = [allocated |-> TRUE, pid |-> pid]]
        /\ pcb' = [pcb EXCEPT ![ret].stack_page = page]
    BY <2>1, <2>2
  <2>4. /\ free_pages' \in Seq(Page \cup {Bogus}) /\ Len(free_pages') = Len(free_pages) - 1
        /\ \A i \in 1 .. Len(free_pages) - 1 : free_pages'[i] = free_pages[i + 1]
    BY <1>5, <2>1
  <2>5. /\ pcb' \in [Addr -> [pid : Nat, stack_page : Page]]
        /\ pcb'[ret].pid = pid /\ pcb'[ret].stack_page = page
        /\ \A t \in Addr : t # ret => pcb'[t] = pcb[t]
    BY <1>1, <2>2, <2>3
  <2>6. /\ entry' \in [Page -> [allocated : BOOLEAN, pid : 0 .. MaxPid - 1]]
        /\ entry'[page] = [allocated |-> TRUE, pid |-> pid]
        /\ \A p \in Page : p # page => entry'[p] = entry[p]
    BY <1>3, <1>5, <1>8, <2>2, <2>3, MemoryFacts
  <2>7. PageTypes'
    BY <1>1, <2>4, <2>5, <2>6 DEF MemoryInv, PageTypes
  <2>8. PagesInOrder'
    <3>1. Taken' = Taken + 1 /\ Taken \in Nat
      BY <1>3, <1>4, <1>8
    <3>2. Len(free_pages') >= NumPages - FirstFree - Taken'
      BY <1>5, <2>4, <3>1, MemoryFacts
    <3>3. ASSUME NEW i \in 1 .. NumPages - FirstFree - Taken'
          PROVE  free_pages'[i] = FirstFree + Taken' + i - 1
      <4>1. i + 1 \in 1 .. NumPages - FirstFree - Taken /\ i \in 1 .. Len(free_pages) - 1
        BY <1>5, <3>1, MemoryFacts
      <4>2. free_pages'[i] = FirstFree + Taken + (i + 1) - 1
        BY <4>1, <1>5, <2>4
      <4> QED
        BY <4>2, <3>1, MemoryFacts
    <3> QED
      BY <3>2, <3>3 DEF PagesInOrder
  <2>9. ThreadsApart'
    <3>1. \A u \in live : /\ pcb[u].pid \in 1 .. pid - 1 /\ StackOf(u)
                         /\ \A v \in live : pcb[v].pid = pcb[u].pid => u = v
      BY <1>3 DEF MemoryInv, ThreadsApart
    <3>2. \A u \in live : u # ret /\ u \in Addr /\ pcb'[u] = pcb[u]
      BY <1>1, <2>5
    <3>3. \A u \in live : pcb[u].pid < MaxPid =>
            pcb[u].stack_page \in Page /\ pcb[u].stack_page # page
      <4> SUFFICES ASSUME NEW u \in live, pcb[u].pid < MaxPid
                   PROVE  pcb[u].stack_page \in Page /\ pcb[u].stack_page # page
        OBVIOUS
      <4>1. /\ pcb[u].stack_page = FirstFree + pcb[u].pid - 1 /\ pcb[u].pid \in 1 .. pid - 1
            /\ pcb[u].stack_page \in Page
        BY <3>1, <1>1 DEF StackOf
      <4> QED
        BY <4>1, <1>3, MemoryFacts DEF page
    <3>4. \A u \in live : StackOf(u)'
      BY <3>1, <3>2, <3>3, <2>6 DEF StackOf
    <3>5. StackOf(ret)'
      BY <1>1, <1>2, <2>5, <2>6, <1>8 DEF StackOf, page
    <3> SUFFICES ASSUME NEW t \in live'
                 PROVE  /\ pcb'[t].pid \in 1 .. pid
                        /\ StackOf(t)'
                        /\ \A u \in live' : pcb'[u].pid = pcb'[t].pid => u = t
      BY <1>3 DEF ThreadsApart
    <3> QED
      BY <3>1, <3>2, <3>4, <3>5, <1>1, <1>2, <1>3, <2>5
  <2> QED
    BY <1>6, <2>7, <2>8, <2>9 DEF MemoryInv
<1> QED
  BY <1>3, <1>7, <1>8, MemoryFacts

\* reap clears the entry of one stack, which no other thread has.
LEMMA ReapKeeps ==
  ASSUME HeapInv, MemoryInv, NEW t \in Addr, reap(t)
  PROVE  MemoryInv'
<1>1. /\ t \in live /\ live' = live \ {t} /\ ~damaged
      /\ UNCHANGED <<next_proc_num, pcb, making, alloc, bytes, ret, damaged>>
      /\ len' = [len EXCEPT ![t] = 0] /\ len \in [Addr -> Nat]
      /\ entry' = IF pcb[t].stack_page = NullPage
                  THEN entry
                  ELSE [entry EXCEPT ![pcb[t].stack_page] = [allocated |-> FALSE, pid |-> 0]]
      /\ free_pages' = Append(free_pages, Bogus)
  BY DEF reap, page_free, mem_free, MayRun, walkVars, HeapInv, HeapTypeOK
<1>2. /\ free_pages \in Seq(Page \cup {Bogus})
      /\ entry \in [Page -> [allocated : BOOLEAN, pid : 0 .. MaxPid - 1]]
      /\ next_proc_num \in Nat /\ pcb \in [Addr -> [pid : Nat, stack_page : Page]]
      /\ live \subseteq Addr
  BY DEF MemoryInv, PageTypes
<1>3. Asked' = Asked /\ Taken' = Taken /\ Asked \in Nat /\ Taken \in Nat
  BY <1>1, <1>2, MemoryFacts DEF Asked, Taken
<1>4. /\ free_pages' \in Seq(Page \cup {Bogus}) /\ Len(free_pages') = Len(free_pages) + 1
      /\ \A i \in 1 .. Len(free_pages) : free_pages'[i] = free_pages[i]
  BY <1>1, <1>2
<1>5. /\ entry' \in [Page -> [allocated : BOOLEAN, pid : 0 .. MaxPid - 1]]
      /\ \A p \in Page : p # pcb[t].stack_page => entry'[p] = entry[p]
      /\ pcb[t].stack_page = NullPage => entry' = entry
  <2>1. [allocated |-> FALSE, pid |-> 0] \in [allocated : BOOLEAN, pid : 0 .. MaxPid - 1]
    BY MemoryFacts
  <2>2. pcb[t].stack_page \in Page
    BY <1>2
  <2> QED
    BY <1>1, <1>2, <2>1, <2>2
<1>6. PageTypes'
  BY <1>1, <1>2, <1>4, <1>5 DEF MemoryInv, PageTypes
<1>7. PagesInOrder'
  BY <1>2, <1>3, <1>4, MemoryFacts DEF MemoryInv, PagesInOrder
<1>8. ThreadsApart'
  <2>1. ASSUME NEW u \in live'
        PROVE  StackOf(u)'
    <3>1. u \in live /\ u # t /\ StackOf(u) /\ StackOf(t) /\ pcb[u].pid # pcb[t].pid
          /\ pcb[u].pid \in 1 .. Asked /\ pcb[t].pid \in 1 .. Asked
      BY <1>1 DEF MemoryInv, ThreadsApart
    <3>2. CASE pcb[u].pid < MaxPid
      <4>1. /\ pcb[u].stack_page = FirstFree + pcb[u].pid - 1
            /\ entry[pcb[u].stack_page] = [allocated |-> TRUE, pid |-> pcb[u].pid]
            /\ pcb[u].stack_page \in Page
        BY <3>1, <3>2, <1>2 DEF StackOf
      <4>2. pcb[t].stack_page = NullPage \/ pcb[t].stack_page = FirstFree + pcb[t].pid - 1
        BY <3>1 DEF StackOf
      <4>3. entry'[pcb[u].stack_page] = entry[pcb[u].stack_page]
        BY <4>1, <4>2, <3>1, <1>3, <1>5, MemoryFacts
      <4> QED
        BY <4>1, <4>3, <3>2, <1>1 DEF StackOf
    <3>3. CASE ~(pcb[u].pid < MaxPid)
      BY <3>1, <3>3, <1>1 DEF StackOf
    <3> QED
      BY <3>2, <3>3
  <2> QED
    BY <2>1, <1>1, <1>3 DEF MemoryInv, ThreadsApart
<1>9. Creation'
  BY <1>1, <1>2 DEF MemoryInv, Creation
<1>10. LivePcbs'
  BY <1>1, <1>2 DEF MemoryInv, LivePcbs
<1> QED
  BY <1>6, <1>7, <1>8, <1>9, <1>10 DEF MemoryInv

-----------------------------------------------------------------------------
LEMMA MemoryInvNext ==
  ASSUME HeapInv, MemoryInv, [Next]_vars
  PROVE  MemoryInv'
<1>1. CASE create_kernel_thread
  BY <1>1, CreateKeeps
<1>2. CASE InAlloc
  BY <1>2, InAllocKeeps
<1>3. CASE NewPid
  BY <1>3, NewPidKeeps
<1>4. CASE NullPcb
  BY <1>4, NullPcbKeeps
<1>5. CASE page_alloc
  BY <1>5, PageAllocKeeps
<1>6. CASE \E t \in Addr : reap(t)
  BY <1>6, ReapKeeps
<1>7. CASE InFree
  BY <1>7, InFreeKeeps
<1>8. CASE UNCHANGED vars
  <2>1. UNCHANGED <<pageVars, threadVars, walkVars, len, damaged>> /\ Asked' = Asked
    BY <1>8 DEF vars, heapVars, Asked, threadVars
  <2>2. PageTypes'
    BY <2>1 DEF MemoryInv, PageTypes, pageVars, threadVars
  <2>3. (PagesInOrder /\ ThreadsApart)'
    BY <2>1, PagesFramed DEF threadVars
  <2>4. (Creation /\ LivePcbs)'
    BY <2>1 DEF MemoryInv, Creation, LivePcbs, threadVars, walkVars
  <2> QED
    BY <2>2, <2>3, <2>4 DEF MemoryInv
<1> QED
  BY <1>1, <1>2, <1>3, <1>4, <1>5, <1>6, <1>7, <1>8 DEF Next

LEMMA MemoryInvAlways == Spec => [](HeapInv /\ MemoryInv)
<1> QED
  BY MemoryUsesHeap, HeapInvAlways, MemoryInvInit, MemoryInvNext, PTL DEF Spec

\* Everything has its type; the pid in an entry fits in its bits.
THEOREM MemoryTypes == Spec => []TypeOK
<1>1. HeapInv /\ MemoryInv => TypeOK
  BY DEF HeapInv, MemoryInv, PageTypes, TypeOK
<1> QED
  BY <1>1, MemoryInvAlways, PTL

\* The pcbs of threads are blocks of their own.
THEOREM MemoryPcbs == Spec => []PcbsAreBlocks
<1>1. MemoryInv => PcbsAreBlocks
  BY DEF MemoryInv, LivePcbs, Creation, PcbsAreBlocks
<1> QED
  BY <1>1, MemoryInvAlways, PTL

\* Threads with a pid that page_alloc accepts have stacks of their own.
THEOREM MemoryStacks == Spec => []StacksDistinct
<1>1. ASSUME MemoryInv PROVE StacksDistinct
  <2> SUFFICES ASSUME NEW t \in live, pcb[t].pid < MaxPid
               PROVE  /\ pcb[t].stack_page \in Page
                      /\ entry[pcb[t].stack_page] = [allocated |-> TRUE, pid |-> pcb[t].pid]
                      /\ \A u \in live : pcb[u].stack_page = pcb[t].stack_page => u = t
    BY DEF StacksDistinct
  <2>1. /\ StackOf(t) /\ pcb[t].pid \in 1 .. Asked /\ pcb[t].stack_page \in Page
        /\ Asked \in Nat
    BY <1>1 DEF MemoryInv, ThreadsApart, PageTypes, Asked
  <2>2. ASSUME NEW u \in live, pcb[u].stack_page = pcb[t].stack_page PROVE u = t
    <3>1. StackOf(u) /\ pcb[u].pid \in 1 .. Asked /\ (pcb[u].pid = pcb[t].pid => u = t)
      BY <1>1 DEF MemoryInv, ThreadsApart
    <3> QED
      BY <3>1, <2>1, <2>2, MemoryFacts DEF StackOf, NullPage
  <2> QED
    BY <2>1, <2>2 DEF StackOf
<1> QED
  BY <1>1, MemoryInvAlways, PTL

\* No such stack reaches into the kernel or its heap.
THEOREM MemoryStacksOutside == Spec => []StacksOutsideHeap
<1>1. ASSUME MemoryInv PROVE StacksOutsideHeap
  <2> SUFFICES ASSUME NEW t \in live, pcb[t].pid < MaxPid
               PROVE  pcb[t].stack_page * PageSize >= KernelEnd + HeapSize
    BY DEF StacksOutsideHeap
  <2>1. StackOf(t) /\ pcb[t].pid \in 1 .. Asked /\ Asked \in Nat
    BY <1>1 DEF MemoryInv, ThreadsApart, PageTypes, Asked
  <2>2. PICK k \in Nat : pcb[t].stack_page = FirstFree + k
    <3>1. /\ pcb[t].stack_page = FirstFree + pcb[t].pid - 1
          /\ pcb[t].pid \in Nat /\ pcb[t].pid >= 1
      BY <2>1 DEF StackOf
    <3>2. pcb[t].pid - 1 \in Nat /\ pcb[t].stack_page = FirstFree + (pcb[t].pid - 1)
      BY <3>1, MemoryFacts
    <3> QED
      BY <3>2
  <2>3. (FirstFree + k) * PageSize = FirstFree * PageSize + k * PageSize
        /\ k * PageSize \in Nat /\ FirstFree * PageSize \in Nat
    BY MemoryFacts
  <2> QED
    BY <2>2, <2>3, MemoryFacts, HeapAssumption
<1> QED
  BY <1>1, MemoryInvAlways, PTL
=============================================================================
