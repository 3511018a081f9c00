-------------------------------- MODULE Heap --------------------------------
(***************************************************************************)
(* The memory allocators heap_1.c, heap_2.c, heap_4.c and heap_5.c (heap_3 *)
(* wraps the malloc of the C library).  Every call runs with the scheduler *)
(* locked, so that it is one step.  heap is a record of                    *)
(*   scheme       which of the files                                       *)
(*   next         xNextFreeByte (heap_1)                                   *)
(*   free         the free list from xStart on: block addresses            *)
(*   end          pxEnd (heap_4, heap_5)                                   *)
(*   size         xBlockSize of each block, free or allocated              *)
(*   used         the allocated blocks, each with the size asked for       *)
(*   remaining    xFreeBytesRemaining                                      *)
(*   minimum      xMinimumEverFreeBytesRemaining                           *)
(* Sizes are computed as a size_t: heap_2 does not look whether the sum of  *)
(* a request and its header wraps, and SizeAssumption keeps the requests    *)
(* away from that.  Where heap_1 aligns a request or adds it up, a sum that *)
(* wraps is refused like one that is too large.                             *)
(***************************************************************************)
EXTENDS Integers, FiniteSets, Sequences, SequencesExt

CONSTANTS
  Alignment,    \* portBYTE_ALIGNMENT
  LinkSize,     \* heapSTRUCT_SIZE, xHeapStructSize
  Regions,      \* the array of heap_5, each [at, size]; the others have the first only
  SizeMod,      \* the number of values of a size_t
  Requests      \* bound: the sizes asked for

VARIABLE heap

\* f with v for x, which need not be in its domain.
Updated(f, x, v) == [y \in DOMAIN f \cup {x} |-> IF y = x THEN v ELSE f[y]]

RoundDown(n) == n - (n % Alignment)
RoundUp(n) == IF n % Alignment = 0 THEN n ELSE n + Alignment - (n % Alignment)
MinimumBlockSize == 2 * LinkSize

RegionStart(region) == RoundUp(region.at)
RegionEnd(region) == RoundDown(region.at + region.size - LinkSize)

\* The regions have room for a block and an end marker each, and are given in the
\* order of their addresses (configASSERT of vPortDefineHeapRegions).
ASSUME HeapAssumption ==
  /\ Alignment \in Nat \ {0} /\ LinkSize \in Nat \ {0} /\ Requests \subseteq Nat
  /\ LinkSize % Alignment = 0
  /\ Regions \in Seq([at : Nat, size : Nat]) /\ Regions # <<>>
  /\ Regions[1].size > Alignment
  /\ \A i \in DOMAIN Regions :
       /\ RegionStart(Regions[i]) < RegionEnd(Regions[i])
       /\ \A j \in DOMAIN Regions : i < j => RegionEnd(Regions[i]) < RegionStart(Regions[j])

\* With its header and aligned, no request wraps.
ASSUME SizeAssumption ==
  SizeMod \in Nat \ {0} /\ \A wanted \in Requests : RoundUp(wanted + LinkSize) < SizeMod

-----------------------------------------------------------------------------
(* Initialisation                                                          *)

NoHeap(scheme) ==
  [scheme |-> scheme, next |-> 0, free |-> <<>>, end |-> 0, size |-> <<>>, used |-> <<>>,
   remaining |-> 0, minimum |-> 0]

\* heap_1 and heap_2 waste up to one alignment at each end of ucHeap.
AdjustedSize == Regions[1].size - Alignment
AlignedHeap == RoundDown(Regions[1].at + Alignment)

\* prvHeapInit of heap_2
OneBlock ==
  [NoHeap(2) EXCEPT !.free = <<AlignedHeap>>, !.size = Updated(@, AlignedHeap, AdjustedSize),
                    !.remaining = AdjustedSize]

\* One block and an end marker; the marker of the region before links to it.
AddRegion(h, region) ==
  LET first == RegionStart(region)
      end == RegionEnd(region)
  IN  [h EXCEPT !.free = IF @ = <<>> THEN <<first>> ELSE @ \o <<h.end, first>>,
                !.size = Updated(Updated(@, h.end, 0), first, end - first),
                !.end = end, !.remaining = @ + end - first, !.minimum = @ + end - first]

\* prvHeapInit of heap_4, vPortDefineHeapRegions
prvHeapInit == AddRegion(NoHeap(4), Regions[1])

vPortDefineHeapRegions ==
  LET defined[n \in 0..Len(Regions)] ==
        IF n = 0 THEN NoHeap(5) ELSE AddRegion(defined[n - 1], Regions[n])
  IN  defined[Len(Regions)]

-----------------------------------------------------------------------------
(* The free list                                                           *)

\* heap_2 keeps it in the order of the sizes.
InsertBySize(h, b) ==
  LET larger == SelectInSeq(h.free, LAMBDA c : h.size[c] >= h.size[b])
  IN  [h EXCEPT !.free = InsertAt(@, IF larger = 0 THEN Len(@) + 1 ELSE larger, b)]

Ends(h, b) == b + h.size[b]

\* The block at position i absorbs the next one if that begins where it ends;
\* so an end marker that is not the last leaves the list.
JoinNext(h, i) ==
  IF i = Len(h.free) \/ Ends(h, h.free[i]) # h.free[i + 1] THEN h
  ELSE [h EXCEPT !.size[h.free[i]] = @ + h.size[h.free[i + 1]], !.free = RemoveAt(@, i + 1)]

\* Mutant: only the block behind is joined.
InsertByAddress_NextOnly(h, b) ==
  LET later == SelectInSeq(h.free, LAMBDA c : c >= b)
      i == IF later = 0 THEN Len(h.free) + 1 ELSE later
  IN  JoinNext([h EXCEPT !.free = InsertAt(@, i, b)], i)

\* heap_4 and heap_5 keep it in the order of the addresses, and join neighbours.
InsertByAddress(h, b) ==
  LET later == SelectInSeq(h.free, LAMBDA c : c >= b)
      i == IF later = 0 THEN Len(h.free) + 1 ELSE later
      joined == [h EXCEPT !.size[h.free[i - 1]] = @ + h.size[b]]
  IN  IF i > 1 /\ Ends(h, h.free[i - 1]) = b THEN JoinNext(joined, i - 1)
      ELSE JoinNext([h EXCEPT !.free = InsertAt(@, i, b)], i)

prvInsertBlockIntoFreeList(h, b) ==
  IF h.scheme = 2 THEN InsertBySize(h, b) ELSE InsertByAddress(h, b)

-----------------------------------------------------------------------------
(* pvPortMalloc and vPortFree                                              *)

\* heap_1: nothing is ever given back.
TakeNext(h, wanted) ==
  LET n == RoundUp(wanted)
      b == AlignedHeap + h.next
  IN  IF h.next + n < AdjustedSize /\ n > 0
      THEN [h EXCEPT !.next = @ + n, !.used = Updated(@, b, wanted),
                     !.size = Updated(@, b, n)]
      ELSE h

\* What is too large for the request is split, if the rest can hold a block.
Split(h, b, n) ==
  IF h.size[b] - n > MinimumBlockSize
  THEN prvInsertBlockIntoFreeList(
         [h EXCEPT !.size = Updated(Updated(@, b, n), b + n, h.size[b] - n)], b + n)
  ELSE h

Allocate(h, i, n, wanted) ==
  LET b == h.free[i]
      taken == Split([h EXCEPT !.free = RemoveAt(@, i)], b, n)
      left == h.remaining - taken.size[b]
  IN  [taken EXCEPT !.used = Updated(@, b, wanted), !.remaining = left,
                    !.minimum = IF h.scheme = 2 THEN @ ELSE Min({@, left})]

\* The first block of the list that is large enough.  heap_4 and heap_5 refuse sizes
\* with the bit that marks allocated blocks.
TakeFirstFit(h, wanted) ==
  LET n == RoundUp((wanted + LinkSize) % SizeMod) % SizeMod
      i == SelectInSeq(h.free, LAMBDA b : h.size[b] >= n)
      allowed == /\ wanted > 0 /\ n > 0
                 /\ IF h.scheme = 2 THEN n < AdjustedSize ELSE wanted < SizeMod \div 2
  IN  IF allowed /\ i # 0 THEN Allocate(h, i, n, wanted) ELSE h

pvPortMalloc(h, wanted) ==
  IF h.scheme = 1 THEN TakeNext(h, wanted) ELSE TakeFirstFit(h, wanted)

GivenBack(h, b) ==
  [h EXCEPT !.remaining = @ + h.size[b], !.used = Restrict(@, DOMAIN @ \ {b})]

\* The headers of blocks that were joined to others mean nothing any more.
vPortFree(h, b) ==
  LET listed == prvInsertBlockIntoFreeList(GivenBack(h, b), b)
  IN  [listed EXCEPT !.size = Restrict(@, ToSet(listed.free) \cup DOMAIN listed.used)]

-----------------------------------------------------------------------------
HeapInit ==
  heap \in {NoHeap(1), OneBlock, prvHeapInit, vPortDefineHeapRegions}

Malloc == \E wanted \in Requests : heap' = pvPortMalloc(heap, wanted)
Free == heap.scheme # 1 /\ \E b \in DOMAIN heap.used : heap' = vPortFree(heap, b)

\* vPortInitialiseBlocks of heap_1, before the scheduler is started again
InitialiseBlocks == heap.scheme = 1 /\ heap' = NoHeap(1)

HeapNext == Malloc \/ Free \/ InitialiseBlocks
HeapSpec == HeapInit /\ [][HeapNext]_heap

-----------------------------------------------------------------------------
Listed(h) == ToSet(h.free)
Allocated(h) == DOMAIN h.used
Blocks(h) == Listed(h) \cup Allocated(h)
Bytes(h, blocks) == UNION {b..(Ends(h, b) - 1) : b \in blocks}

\* The stretches of memory that blocks are cut from: first address, and the one behind.
Spaces(scheme) ==
  CASE scheme \in {1, 2} -> {<<AlignedHeap, AlignedHeap + AdjustedSize>>}
    [] scheme = 4 -> {<<RegionStart(Regions[1]), RegionEnd(Regions[1])>>}
    [] scheme = 5 -> {<<RegionStart(Regions[i]), RegionEnd(Regions[i])>> : i \in DOMAIN Regions}

\* Blocks lie side by side, each aligned and within one space.
InPlace(h) ==
  \A b \in Blocks(h) :
    /\ b % Alignment = 0
    /\ \E space \in Spaces(h.scheme) : b >= space[1] /\ Ends(h, b) =< space[2]
    /\ \A c \in Blocks(h) : b < c => Ends(h, b) =< c

\* None is free and allocated, and an allocated one holds what was asked for.
Apart(h) ==
  /\ Listed(h) \cap Allocated(h) = {}
  /\ \A b \in Allocated(h) :
       h.size[b] >= h.used[b] + (IF h.scheme = 1 THEN 0 ELSE LinkSize)

\* Every byte is in a block, and those of the free ones are counted.
Accounted(h) ==
  h.scheme # 1 =>
    /\ h.remaining = Cardinality(Bytes(h, Listed(h)))
    /\ Bytes(h, Blocks(h)) = UNION {space[1]..(space[2] - 1) : space \in Spaces(h.scheme)}

\* No two free blocks lie next to each other, but for an end marker.
Joined(h) ==
  h.scheme \in {4, 5} =>
    /\ h.minimum =< h.remaining
    /\ \A b, c \in Listed(h) : Ends(h, b) = c => h.size[c] = 0

\* After any sequence of requests and releases the blocks lie side by side, none
\* over another or over an end marker, each is aligned and holds what was asked
\* for; no byte is lost, the free ones are counted, and the allocators that join
\* blocks leave no two free ones next to each other (pvPortMalloc and vPortFree).
HeapSound == InPlace(heap) /\ Apart(heap) /\ Accounted(heap) /\ Joined(heap)
=============================================================================
