------------------------------- MODULE Dataset -------------------------------
(***************************************************************************)
(* The dataset router of src/betree/src/database/dataset.rs: the name->id *)
(* index and dataset records kept in the root tree, the in-memory map      *)
(* open_datasets, the handler's last_snapshot_generation entries, and the  *)
(* user's Dataset handles.                                                 *)
(*                                                                         *)
(* The Database methods take &mut self, so they run one at a time; each   *)
(* is one action.  Every root-tree get or insert, and every sync, may fail *)
(* with an I/O error: the action chooses the step at which the call fails  *)
(* (or none), and the steps before it have taken effect.                   *)
(*                                                                         *)
(* A handle is a slot holding a Dataset value: None, or the id of the      *)
(* DatasetInner it holds.  close_dataset consumes its handle.               *)
(***************************************************************************)
EXTENDS Naturals, Sequences, SequencesExt

CONSTANTS
  Names,      \* dataset names the user passes
  Handles,    \* slots for the user's Dataset values
  MaxIds,     \* bound on the last allocated DatasetId
  MaxGen,     \* bound on snapshot generations
  None,       \* model value: no entry / Option::None
  Absent      \* model value: no DatasetData under the id

ASSUME MaxIds \in Nat /\ MaxGen \in Nat

Ids == 1 .. MaxIds
Gens == 1 .. MaxGen

VARIABLES
  lastId,     \* root tree key [0]: the last allocated DatasetId (0 if none)
  names,      \* root tree keys [1, name..]: name -> DatasetId
  dsData,     \* root tree dataset-data keys: id -> previous_snapshot or Absent
  open,       \* open_datasets (its key set)
  lastSnap,   \* handler.last_snapshot_generation: id -> generation or None
  handle,     \* user Dataset values: handle -> id of its inner or None
  generation, \* the generation a new snapshot is taken at
  result      \* outcome of the last Database call

vars == <<lastId, names, dsData, open, lastSnap, handle, generation, result>>

Errors == {"ok", "Io", "DoesNotExist", "AlreadyExists", "InUse"}

\* The root-tree and handler state a call reads and writes.
DB == [lastId |-> lastId, names |-> names, dsData |-> dsData, open |-> open,
       lastSnap |-> lastSnap]

\* The outcome of a call: the state it leaves, its error, the id it opened.
Out(db, err, id) == [db |-> db, err |-> err, id |-> id]

\* The fallible steps of a call, in the order the code takes them; a call
\* failing at step f has done exactly the steps before f.
Done(steps, f, s) ==
  f = "none" \/ \E i, j \in DOMAIN steps : steps[i] = s /\ steps[j] = f /\ i < j

-----------------------------------------------------------------------------
(***************************************************************************)
(* open_dataset_with_id_and_name: fetch the DatasetData (DoesNotExist if   *)
(* absent), refuse an id already in open_datasets, load the dataset's      *)
(* previous snapshot generation into the handler, register the tree.       *)
(***************************************************************************)
\* Mutant: the open_datasets check dropped.
OpenWithIdNoInUse(db, id, fetchFails) ==
  CASE fetchFails              -> Out(db, "Io", id)
    [] db.dsData[id] = Absent  -> Out(db, "DoesNotExist", id)
    [] OTHER ->
         Out([db EXCEPT !.open = @ \cup {id},
                        !.lastSnap = IF db.dsData[id] = None THEN @
                                     ELSE [@ EXCEPT ![id] = db.dsData[id]]],
             "ok", id)

\* Mutant: previous_snapshot not loaded into the handler.
OpenWithIdNoSnapshot(db, id, fetchFails) ==
  CASE fetchFails              -> Out(db, "Io", id)
    [] db.dsData[id] = Absent  -> Out(db, "DoesNotExist", id)
    [] id \in db.open          -> Out(db, "InUse", id)
    [] OTHER -> Out([db EXCEPT !.open = @ \cup {id}], "ok", id)

OpenWithId(db, id, fetchFails) ==
  CASE fetchFails              -> Out(db, "Io", id)
    [] db.dsData[id] = Absent  -> Out(db, "DoesNotExist", id)
    [] id \in db.open          -> Out(db, "InUse", id)
    [] OTHER ->
         Out([db EXCEPT !.open = @ \cup {id},
                        !.lastSnap = IF db.dsData[id] = None THEN @
                                     ELSE [@ EXCEPT ![id] = db.dsData[id]]],
             "ok", id)

\* open_custom_dataset: lookup_dataset_id then open by id.
OpenSteps == <<"lookup", "fetch">>

OpenByName(db, n, f) ==
  CASE f = "lookup"          -> Out(db, "Io", None)
    [] db.names[n] = None    -> Out(db, "DoesNotExist", None)
    [] OTHER -> OpenWithId(db, db.names[n], f = "fetch")

(***************************************************************************)
(* create_custom_dataset: lookup (AlreadyExists if bound), allocate_ds_id  *)
(* (get and insert of key [0]), sync of the empty tree, insert of the      *)
(* DatasetData, insert of the name binding.                                *)
(***************************************************************************)
CreateSteps == <<"lookup", "get_counter", "insert_counter", "sync",
                 "insert_data", "insert_name">>

\* allocate_ds_id: last_ds_id.next() (DatasetId::default() is 0).
allocate_ds_id(db) == db.lastId + 1

\* Mutant: the new id is not written back to key [0].
CreateNoCounter(db, n, f) ==
  LET id == allocate_ds_id(db)
      D(s) == Done(CreateSteps, f, s)
  IN  CASE f = "lookup"          -> Out(db, "Io", None)
        [] db.names[n] # None    -> Out(db, "AlreadyExists", None)
        [] OTHER ->
             Out([db EXCEPT
                    !.dsData = IF D("insert_data") THEN [@ EXCEPT ![id] = None] ELSE @,
                    !.names  = IF D("insert_name") THEN [@ EXCEPT ![n] = id] ELSE @],
                 IF f = "none" THEN "ok" ELSE "Io", None)

Create(db, n, f) ==
  LET id == allocate_ds_id(db)
      D(s) == Done(CreateSteps, f, s)
  IN  CASE f = "lookup"          -> Out(db, "Io", None)
        [] db.names[n] # None    -> Out(db, "AlreadyExists", None)
        [] OTHER ->
             Out([db EXCEPT
                    !.lastId = IF D("insert_counter") THEN id ELSE @,
                    !.dsData = IF D("insert_data") THEN [@ EXCEPT ![id] = None] ELSE @,
                    !.names  = IF D("insert_name") THEN [@ EXCEPT ![n] = id] ELSE @],
                 IF f = "none" THEN "ok" ELSE "Io", None)

\* Write a call's outcome back to the variables.
Commit(r, op) ==
  /\ lastId' = r.db.lastId
  /\ names' = r.db.names
  /\ dsData' = r.db.dsData
  /\ open' = r.db.open
  /\ lastSnap' = r.db.lastSnap
  /\ result' = [op |-> op, err |-> r.err, id |-> r.id]

\* A call that may create a dataset needs a fresh id below the bound.
IdAvailable(n) == names[n] # None \/ lastId < MaxIds

FailPoints(steps) == {"none"} \cup ToSet(steps)

-----------------------------------------------------------------------------
open_custom_dataset(h, n) ==
  /\ handle[h] = None
  /\ \E f \in FailPoints(OpenSteps) :
       LET r == OpenByName(DB, n, f)
       IN  /\ Commit(r, "open")
           /\ handle' = IF r.err = "ok" THEN [handle EXCEPT ![h] = r.id] ELSE handle
  /\ UNCHANGED generation

create_custom_dataset(n) ==
  /\ IdAvailable(n)
  /\ \E f \in FailPoints(CreateSteps) : Commit(Create(DB, n, f), "create")
  /\ UNCHANGED <<handle, generation>>

\* open_or_create_custom_dataset: open if the name is bound, otherwise
\* create and then open; a failed lookup or create is returned as is.
open_or_create_custom_dataset(h, n) ==
  /\ handle[h] = None
  /\ IdAvailable(n)
  /\ \E fl \in {"none", "lookup"}, fc \in FailPoints(CreateSteps),
        fo \in FailPoints(OpenSteps) :
       LET c == Create(DB, n, fc)
           r == CASE fl = "lookup"    -> Out(DB, "Io", None)
                  [] names[n] # None  -> OpenByName(DB, n, fo)
                  [] c.err # "ok"     -> c
                  [] OTHER            -> OpenByName(c.db, n, fo)
       IN  /\ Commit(r, "open_or_create")
           /\ handle' = IF r.err = "ok" THEN [handle EXCEPT ![h] = r.id] ELSE handle
  /\ UNCHANGED generation

\* Mutant: the entry reset to the default generation instead of removed.
close_dataset_reset(h) ==
  /\ handle[h] # None
  /\ LET id == handle[h] IN
     \E syncFails \in BOOLEAN :
       /\ handle' = [handle EXCEPT ![h] = None]
       /\ open' = IF syncFails THEN open ELSE open \ {id}
       /\ lastSnap' = IF syncFails THEN lastSnap ELSE [lastSnap EXCEPT ![id] = 0]
       /\ result' = [op |-> "close", err |-> IF syncFails THEN "Io" ELSE "ok",
                     id |-> id]
  /\ UNCHANGED <<lastId, names, dsData, generation>>

(***************************************************************************)
(* close_dataset: take the inner out of the handle (the handle is          *)
(* consumed whatever follows), sync the dataset (`?`: an error returns     *)
(* here), remove it from open_datasets, forget its snapshot generation.    *)
(***************************************************************************)
close_dataset(h) ==
  /\ handle[h] # None
  /\ LET id == handle[h] IN
     \E syncFails \in BOOLEAN :
       /\ handle' = [handle EXCEPT ![h] = None]
       /\ open' = IF syncFails THEN open ELSE open \ {id}
       /\ lastSnap' = IF syncFails THEN lastSnap ELSE [lastSnap EXCEPT ![id] = None]
       /\ result' = [op |-> "close", err |-> IF syncFails THEN "Io" ELSE "ok",
                     id |-> id]
  /\ UNCHANGED <<lastId, names, dsData, generation>>

(***************************************************************************)
(* Snapshot creation (not under src/, from spec.md 4.3 and 2): the         *)
(* snapshot of an open dataset at the current generation becomes its      *)
(* previous_snapshot and its last_snapshot_generation.                     *)
(***************************************************************************)
CreateSnapshot(h) ==
  /\ handle[h] # None
  /\ generation <= MaxGen
  /\ dsData' = [dsData EXCEPT ![handle[h]] = generation]
  /\ lastSnap' = [lastSnap EXCEPT ![handle[h]] = generation]
  /\ generation' = generation + 1
  /\ result' = [op |-> "snapshot", err |-> "ok", id |-> handle[h]]
  /\ UNCHANGED <<lastId, names, open, handle>>

-----------------------------------------------------------------------------
Init ==
  /\ lastId = 0
  /\ names = [n \in Names |-> None]
  /\ dsData = [i \in Ids |-> Absent]
  /\ open = {}
  /\ lastSnap = [i \in Ids |-> None]
  /\ handle = [h \in Handles |-> None]
  /\ generation = 1
  /\ result = [op |-> "none", err |-> "ok", id |-> None]

Next ==
  \/ \E h \in Handles, n \in Names :
       open_custom_dataset(h, n) \/ open_or_create_custom_dataset(h, n)
  \/ \E n \in Names : create_custom_dataset(n)
  \/ \E h \in Handles : close_dataset(h) \/ CreateSnapshot(h)

Spec == Init /\ [][Next]_vars

-----------------------------------------------------------------------------
TypeOK ==
  /\ lastId \in 0 .. MaxIds
  /\ names \in [Names -> Ids \cup {None}]
  /\ dsData \in [Ids -> {Absent, None} \cup Gens]
  /\ open \subseteq Ids
  /\ lastSnap \in [Ids -> {None} \cup Gens]
  /\ handle \in [Handles -> Ids \cup {None}]
  /\ generation \in 1 .. MaxGen + 1
  /\ result.err \in Errors


(***************************************************************************)
(* Single-opener exclusivity (spec 4.4): no two Dataset values hold the    *)
(* same dataset.  Rests on the open_datasets check of                      *)
(* open_dataset_with_id_and_name across open, open_or_create and close.    *)
(***************************************************************************)
SingleOpener ==
  \A h1, h2 \in Handles :
    h1 # h2 /\ handle[h1] # None => handle[h1] # handle[h2]

(***************************************************************************)
(* Every name binding in the root tree resolves to a DatasetData, and no   *)
(* two names share an id, whichever step of create_custom_dataset failed:  *)
(* allocate_ds_id persists the counter before the id is used, and the      *)
(* DatasetData is inserted before the name.                                *)
(***************************************************************************)
NameBindingsResolve ==
  \A n \in Names : names[n] # None =>
    /\ dsData[names[n]] # Absent
    /\ \A m \in Names \ {n} : names[m] # names[n]

(***************************************************************************)
(* Snapshot protection survives close and reopen: an open dataset whose    *)
(* DatasetData names a previous snapshot has that generation in the        *)
(* handler's last_snapshot_generation, so copy_on_write preserves the      *)
(* snapshot's blocks.  Rests on open loading previous_snapshot and close   *)
(* forgetting the entry only together with the open_datasets entry.        *)
(***************************************************************************)
SnapshotGenerationLoaded ==
  \A i \in open : dsData[i] \in Gens => lastSnap[i] = dsData[i]

(***************************************************************************)
(* Spec 8, test 6: "Close, then reopen succeeds".  An open fails with      *)
(* InUse only while some Dataset value still holds the dataset.           *)
(***************************************************************************)
OpenInUseOnlyWhenHeld ==
  [][result'.err = "InUse" => \E h \in Handles : handle[h] = result'.id]_vars

=============================================================================
