---------------------------- MODULE WorstFitList ----------------------------
(***************************************************************************)
(* The worst-fit segment allocator of src/betree/src/allocator/           *)
(* worst_fit_list.rs.  One instance owns the allocation bitmap of one      *)
(* segment (`data`, here the set of set bits) and the list of free runs    *)
(* (`free_segments`, a sequence of [offset, size] records).  It is         *)
(* single-threaded: every operation takes `&mut self`, so each operation   *)
(* is one atomic action.  `ret` records the last call and its result so    *)
(* that properties can speak about what a call returned.                  *)
(***************************************************************************)
EXTENDS Naturals, Sequences, SequencesExt, TLC

CONSTANT SEGMENT_SIZE   \* number of blocks (bits) in a segment

ASSUME SEGMENT_SIZE \in Nat \ {0}

VARIABLES data, free_segments, ret

vars == <<data, free_segments, ret>>

Blocks == 0 .. SEGMENT_SIZE - 1

\* The blocks [offset, offset + size).
Span(offset, size) == offset .. offset + size - 1

SegEnd(r) == r.offset + r.size

Run(o, s) == [offset |-> o, size |-> s]

Ret(op, size, offset, ok) == [op |-> op, size |-> size, offset |-> offset, ok |-> ok]

(***************************************************************************)
(* mark(offset, size, action) of the Allocator trait: sets (Allocate) or   *)
(* clears (Deallocate) the bits of a range.                                *)
(***************************************************************************)
MarkAllocate(offset, size) == data \cup Span(offset, size)
MarkDeallocate(offset, size) == data \ Span(offset, size)

(***************************************************************************)
(* initialize_free_segments: the while loop that scans the bitmap from     *)
(* offset 0 and pushes every maximal run of clear bits, followed by the    *)
(* sort by offset.                                                         *)
(***************************************************************************)
RECURSIVE ClearRunLength(_, _)
ClearRunLength(bits, offset) ==
  IF offset < SEGMENT_SIZE /\ offset \notin bits
  THEN 1 + ClearRunLength(bits, offset + 1)
  ELSE 0

RECURSIVE ScanFrom(_, _)
ScanFrom(bits, offset) ==
  IF offset >= SEGMENT_SIZE THEN << >>
  ELSE IF offset \in bits THEN ScanFrom(bits, offset + 1)
  ELSE LET len == ClearRunLength(bits, offset)
       IN  << Run(offset, len) >> \o ScanFrom(bits, offset + len)

initialize_free_segments(bits) ==
  SortSeq(ScanFrom(bits, 0), LAMBDA a, b : a.offset < b.offset)

(***************************************************************************)
(* allocate(size): the loop keeps the index of a run with                  *)
(* `segment_size >= size && segment_size > worst_fit_segment_size`, so it  *)
(* selects the largest fitting run, the first one on ties; 0 means none.   *)
(***************************************************************************)
\* Seeded fault: the loop without its `segment_size >= size` test.
WorstFitIndexNoFitTest(size) ==
  LET fits == 1 .. Len(free_segments)
      worst == {i \in fits : \A j \in fits : free_segments[j].size <= free_segments[i].size}
  IN  IF fits = {} THEN 0 ELSE Min(worst)

WorstFitIndex(size) ==
  LET fits == {i \in 1 .. Len(free_segments) : free_segments[i].size >= size}
      worst == {i \in fits : \A j \in fits : free_segments[j].size <= free_segments[i].size}
  IN  IF fits = {} THEN 0 ELSE Min(worst)

\* Seeded fault: the run is shortened but its offset is not advanced.
TakeFrontKeepOffset(r, size) == Run(r.offset, r.size - size)

\* The chosen run, truncated from the front by `size` blocks.  The code
\* never removes a run that this leaves empty.
TakeFront(r, size) == Run(r.offset + size, r.size - size)

AllocateZero ==
  /\ ret' = Ret("allocate", 0, 0, TRUE)
  /\ UNCHANGED <<data, free_segments>>

AllocateNone(size) ==
  /\ size > 0
  /\ WorstFitIndex(size) = 0
  /\ ret' = Ret("allocate", size, 0, FALSE)
  /\ UNCHANGED <<data, free_segments>>

AllocateWorstFit(size) ==
  /\ size > 0
  /\ WorstFitIndex(size) # 0
  /\ LET i == WorstFitIndex(size)
         r == free_segments[i]
     IN  /\ data' = MarkAllocate(r.offset, size)
         /\ free_segments' = [free_segments EXCEPT ![i] = TakeFront(r, size)]
         /\ ret' = Ret("allocate", size, r.offset, TRUE)

allocate(size) ==
  IF size = 0 THEN AllocateZero
  ELSE AllocateNone(size) \/ AllocateWorstFit(size)

(***************************************************************************)
(* allocate_at(size, offset): the four ways the loop places the range in  *)
(* a run, tested in this order, and the runs that replace it.             *)
(***************************************************************************)
Placement(r, size, offset) ==
  CASE r.offset = offset /\ r.size = size -> "whole"
    [] r.offset = offset /\ r.size > size -> "prefix"
    [] offset > r.offset /\ offset + size = SegEnd(r) -> "suffix"
    [] offset > r.offset /\ offset < SegEnd(r) /\ offset + size < SegEnd(r) -> "interior"
    [] OTHER -> "none"

Remainder(r, size, offset) ==
  CASE Placement(r, size, offset) = "whole" -> << >>
    [] Placement(r, size, offset) = "prefix" -> << TakeFront(r, size) >>
    [] Placement(r, size, offset) = "suffix" -> << Run(r.offset, r.size - size) >>
    [] Placement(r, size, offset) = "interior" ->
         << Run(r.offset, offset - r.offset),
            Run(offset + size, r.size - (size + (offset - r.offset))) >>

PlaceIndex(size, offset) ==
  SelectInSeq(free_segments, LAMBDA r : Placement(r, size, offset) # "none")

\* The early returns: size 0 succeeds, a range past the segment end or one
\* with a set bit fails, as does a range that lies in no run.
AllocateAtRejected(size, offset) ==
  /\ size > 0
  /\ \/ offset + size > SEGMENT_SIZE
     \/ Span(offset, size) \cap data # {}
     \/ PlaceIndex(size, offset) = 0
  /\ ret' = Ret("allocate_at", size, offset, FALSE)
  /\ UNCHANGED <<data, free_segments>>

AllocateAtPlaced(size, offset) ==
  /\ size > 0
  /\ offset + size <= SEGMENT_SIZE
  /\ Span(offset, size) \cap data = {}
  /\ PlaceIndex(size, offset) # 0
  /\ LET i == PlaceIndex(size, offset)
     IN  free_segments' = SubSeq(free_segments, 1, i - 1)
                            \o Remainder(free_segments[i], size, offset)
                            \o SubSeq(free_segments, i + 1, Len(free_segments))
  /\ data' = MarkAllocate(offset, size)
  /\ ret' = Ret("allocate_at", size, offset, TRUE)

allocate_at(size, offset) ==
  IF size = 0
  THEN /\ ret' = Ret("allocate_at", 0, offset, TRUE)
       /\ UNCHANGED <<data, free_segments>>
  ELSE AllocateAtRejected(size, offset) \/ AllocateAtPlaced(size, offset)

(***************************************************************************)
(* deallocate(offset, size): clears the bits, then walks the runs and     *)
(* stops at the first one that ends at `offset` (merge into it, and also  *)
(* absorb the next run if that starts at the freed end), that starts at   *)
(* the freed end (grow it downwards), or that starts after `offset`       *)
(* (insert before it).  With no such run the range is appended.           *)
(***************************************************************************)
StopsAt(r, offset, size) ==
  \/ SegEnd(r) = offset
  \/ offset + size = r.offset
  \/ r.offset > offset

MergeFreed(fs, offset, size) ==
  LET j == SelectInSeq(fs, LAMBDA r : StopsAt(r, offset, size))
      r == fs[j]
  IN  IF j = 0 THEN Append(fs, Run(offset, size))
      ELSE IF SegEnd(r) = offset
      THEN IF j + 1 <= Len(fs) /\ fs[j + 1].offset = offset + size
           THEN RemoveAt([fs EXCEPT ![j] = Run(r.offset, r.size + size + fs[j + 1].size)], j + 1)
           ELSE [fs EXCEPT ![j] = Run(r.offset, r.size + size)]
      ELSE IF offset + size = r.offset
      THEN [fs EXCEPT ![j] = Run(offset, r.size + size)]
      ELSE InsertAt(fs, j, Run(offset, size))

deallocate(offset, size) ==
  /\ IF offset + size > SEGMENT_SIZE
     THEN UNCHANGED <<data, free_segments>>
     ELSE /\ data' = MarkDeallocate(offset, size)
          /\ free_segments' = MergeFreed(free_segments, offset, size)
  /\ ret' = Ret("deallocate", size, offset, TRUE)

-----------------------------------------------------------------------------
(***************************************************************************)
(* new(bitmap) from any bitmap; then any sequence of calls.  A caller only *)
(* frees blocks it holds: deallocate is called on set bits, or with a      *)
(* range past the segment end (a no-op).                                   *)
(***************************************************************************)
Init ==
  /\ data \in SUBSET Blocks
  /\ free_segments = initialize_free_segments(data)
  /\ ret = Ret("new", 0, 0, TRUE)

Sizes == 0 .. SEGMENT_SIZE + 1
Offsets == 0 .. SEGMENT_SIZE

Next ==
  \/ \E size \in Sizes : allocate(size)
  \/ \E size \in Sizes, offset \in Offsets : allocate_at(size, offset)
  \/ \E size \in 1 .. SEGMENT_SIZE, offset \in Blocks :
       /\ offset + size > SEGMENT_SIZE \/ Span(offset, size) \subseteq data
       /\ deallocate(offset, size)

Spec == Init /\ [][Next]_vars

-----------------------------------------------------------------------------
TypeOK ==
  /\ data \subseteq Blocks
  /\ free_segments \in Seq([offset : 0 .. SEGMENT_SIZE, size : 0 .. SEGMENT_SIZE])
  /\ ret \in [op : {"new", "allocate", "allocate_at", "deallocate"},
              size : Sizes, offset : Offsets, ok : BOOLEAN]

NoDoubleAllocation ==
  [][ ret'.op = "allocate" /\ ret'.ok /\ ret'.size > 0 =>
        /\ Span(ret'.offset, ret'.size) \subseteq Blocks \ data
        /\ Span(ret'.offset, ret'.size) \subseteq data' ]_vars

(***************************************************************************)
(* allocate(n) fails only when the bitmap has no n consecutive clear       *)
(* blocks: the free list is merged at all times (spec 3, 8(a)), so a       *)
(* contiguous free range is always one run.                                *)
(***************************************************************************)
AllocateFindsFreeRange ==
  [][ ret'.op = "allocate" /\ ~ret'.ok =>
        ~\E o \in Blocks : Span(o, ret'.size) \subseteq Blocks \ data ]_vars

=============================================================================
