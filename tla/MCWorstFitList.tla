--------------------------- MODULE MCWorstFitList ---------------------------
(* Model-checking instance of WorstFitList.  Stale zero-size runs let the  *)
(* free list grow without bound, so the state space is cut at MaxFreeRuns *)
(* entries; a maximal-run list of SEGMENT_SIZE blocks has at most          *)
(* (SEGMENT_SIZE + 1) \div 2 entries, so the bound leaves room for the     *)
(* stale ones.                                                             *)
EXTENDS WorstFitList

CONSTANT MaxFreeRuns

ASSUME MaxFreeRuns >= (SEGMENT_SIZE + 1) \div 2

FreeListBound == Len(free_segments) <= MaxFreeRuns
=============================================================================
