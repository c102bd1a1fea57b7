---------------------------- MODULE DatasetRange ----------------------------
(***************************************************************************)
(* The range operations of a dataset, src/betree/src/database/dataset.rs:  *)
(* range_delete and migrate_range walk the entries of tree.range(range)    *)
(* and delete or migrate each one.  Their calls take &self, so another     *)
(* thread writes to the same dataset between two entries.                  *)
(*                                                                         *)
(* The dataset's tree is the key-value map of KVStore: the run `tree`      *)
(* shows that the tree's inserts and flushes implement it.  The range      *)
(* iterator (RangeIterator, not under src/) is modelled from spec.md: it   *)
(* yields the entries of the range in key order as they are when it gets  *)
(* to them, and reading a leaf may fail, which it reports as an Err item.  *)
(***************************************************************************)
EXTENDS Naturals, FiniteSets

CONSTANTS
  Keys,         \* keys, as integers in key order
  Values,       \* values
  NoValue,      \* model value: the key is absent
  IterResults,  \* what the iterator may yield for an entry: "ok", "err"
  WriteResults, \* what a tree insert may return: "ok", "err" (DML error)
  DiskCounts    \* disk_count of the storage tier a migration names

VARIABLES
  store,    \* the dataset's key-value map
  op,       \* the range operation in progress
  touched,  \* ghost: keys of the range the other thread wrote during op
  migrated, \* ghost: keys whose migration message op has inserted
  ret       \* the result of the last range operation

vars == <<store, op, touched, migrated, ret>>

Idle == [kind |-> "none", lo |-> 0, hi |-> 0, cursor |-> 0, res |-> "ok"]

\* The entry the iterator yields next: the smallest key of the range at or
\* after the cursor that has a value, or 0 when there is none.
NextEntry ==
  LET E == {k \in op.cursor .. op.hi : store[k] # NoValue}
  IN  IF E = {} THEN 0 ELSE CHOOSE k \in E : \A j \in E : k <= j

-----------------------------------------------------------------------------
(***************************************************************************)
(* tree.range(range)? fails with InvalidRange on an empty range            *)
(* (is_inclusive_non_empty); otherwise the walk starts at the low bound.   *)
(***************************************************************************)
\* Mutant: the range check dropped.
RangeStartUnchecked(kind, lo, hi) ==
  /\ op.kind = "none"
  /\ op' = [kind |-> kind, lo |-> lo, hi |-> hi, cursor |-> lo, res |-> "ok"]
  /\ touched' = {} /\ migrated' = {}
  /\ UNCHANGED <<store, ret>>

RangeStart(kind, lo, hi) ==
  /\ op.kind = "none"
  /\ IF lo > hi
     THEN ret' = [kind |-> kind, res |-> "InvalidRange"] /\ UNCHANGED op
     ELSE op' = [kind |-> kind, lo |-> lo, hi |-> hi, cursor |-> lo, res |-> "ok"]
          /\ UNCHANGED ret
  /\ touched' = {} /\ migrated' = {}
  /\ UNCHANGED store

\* Mutant: the delete's error dropped.
FirstErrorNone(res, delRes) == res

\* `if del_res.is_err() && res.is_ok() { res = del_res }`
FirstError(res, delRes) == IF delRes # "ok" /\ res = "ok" THEN delRes ELSE res

(***************************************************************************)
(* One turn of range_delete's loop: an Err item is skipped (`if let Ok`);  *)
(* for an Ok item the key is deleted, and the first failing delete is the  *)
(* result, the loop going on.  With no entry left the loop returns res.    *)
(***************************************************************************)
RangeDeleteStep ==
  /\ op.kind = "range_delete"
  /\ IF NextEntry = 0
     THEN ret' = [kind |-> op.kind, res |-> op.res] /\ op' = Idle /\ UNCHANGED store
     ELSE \E item \in IterResults, delRes \in WriteResults :
            /\ store' = IF item = "ok" /\ delRes = "ok"
                        THEN [store EXCEPT ![NextEntry] = NoValue] ELSE store
            /\ op' = [op EXCEPT !.cursor = NextEntry + 1,
                                !.res = IF item = "ok" THEN FirstError(@, delRes) ELSE @]
            /\ UNCHANGED ret
  /\ UNCHANGED <<touched, migrated>>

(***************************************************************************)
(* One turn of migrate_range's loop: an Err item is skipped; for an Ok     *)
(* item migrate(k, pref)? returns DoesNotExist if the tier has no disk,    *)
(* and the insert of its no-op message may fail; the first error ends the  *)
(* loop.  A no-op message changes no value.                                *)
(***************************************************************************)
\* Mutant: the result of migrate(k, pref) ignored (`let _ = ...`).
MigrateRangeStepIgnoreErr ==
  /\ op.kind = "migrate_range"
  /\ IF NextEntry = 0
     THEN ret' = [kind |-> op.kind, res |-> "ok"] /\ op' = Idle /\ UNCHANGED migrated
     ELSE \E item \in IterResults, diskCount \in DiskCounts, insRes \in WriteResults :
            LET res == IF diskCount = 0 THEN "DoesNotExist" ELSE insRes
            IN  /\ op' = [op EXCEPT !.cursor = NextEntry + 1]
                /\ migrated' = IF item = "ok" /\ res = "ok" THEN migrated \cup {NextEntry} ELSE migrated
                /\ UNCHANGED ret
  /\ UNCHANGED <<store, touched>>

MigrateRangeStep ==
  /\ op.kind = "migrate_range"
  /\ IF NextEntry = 0
     THEN ret' = [kind |-> op.kind, res |-> "ok"] /\ op' = Idle /\ UNCHANGED migrated
     ELSE \E item \in IterResults, diskCount \in DiskCounts, insRes \in WriteResults :
            LET res == IF diskCount = 0 THEN "DoesNotExist" ELSE insRes
            IN  IF item = "ok" /\ res # "ok"
                THEN ret' = [kind |-> op.kind, res |-> res] /\ op' = Idle
                     /\ UNCHANGED migrated
                ELSE /\ op' = [op EXCEPT !.cursor = NextEntry + 1]
                     /\ migrated' = IF item = "ok" THEN migrated \cup {NextEntry} ELSE migrated
                     /\ UNCHANGED ret
  /\ UNCHANGED <<store, touched>>

\* Another thread inserts or deletes a key of the dataset.
Write(k, v) ==
  /\ store' = [store EXCEPT ![k] = v]
  /\ touched' = IF op.kind # "none" /\ k \in op.lo .. op.hi THEN touched \cup {k} ELSE touched
  /\ UNCHANGED <<op, migrated, ret>>

-----------------------------------------------------------------------------
Init ==
  /\ store \in [Keys -> Values \cup {NoValue}]
  /\ op = Idle
  /\ touched = {}
  /\ migrated = {}
  /\ ret = [kind |-> "none", res |-> "ok"]

Next ==
  \/ \E kind \in {"range_delete", "migrate_range"}, lo, hi \in Keys : RangeStart(kind, lo, hi)
  \/ RangeDeleteStep
  \/ MigrateRangeStep
  \/ \E k \in Keys, v \in Values \cup {NoValue} : Write(k, v)

Spec == Init /\ [][Next]_vars

-----------------------------------------------------------------------------
TypeOK ==
  /\ store \in [Keys -> Values \cup {NoValue}]
  /\ op.kind \in {"none", "range_delete", "migrate_range"}
  /\ op.kind # "none" => op.lo <= op.hi /\ op.cursor \in op.lo .. op.hi + 1
  /\ touched \cup migrated \subseteq Keys

(***************************************************************************)
(* range_delete reports what it did not do (spec 7: it keeps going, still  *)
(* attempts every entry and returns the earliest error): when it returns   *)
(* Ok, every key of the range that the other thread did not write in the   *)
(* meantime is gone.                                                       *)
(***************************************************************************)
RangeDeleteOkClears ==
  [][op.kind = "range_delete" /\ op'.kind = "none" /\ ret'.res = "ok" =>
       \A k \in op.lo .. op.hi \ touched : store'[k] = NoValue]_vars

(***************************************************************************)
(* migrate_range reports what it did not do: when it returns Ok, every key *)
(* of the range that holds a value and that the other thread did not write *)
(* in the meantime has had its migration message inserted.                 *)
(***************************************************************************)
MigrateOkCoversRange ==
  [][op.kind = "migrate_range" /\ op'.kind = "none" /\ ret'.res = "ok" =>
       \A k \in op.lo .. op.hi \ touched : store'[k] # NoValue => k \in migrated]_vars

=============================================================================
