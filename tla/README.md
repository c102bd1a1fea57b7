# TLA+ models of the bepsi B^e-tree storage stack

This directory holds TLA+ models of the storage engine under `src/betree/`, the TLC
configurations that check them, and `PROJECT.json`, which lists the components,
runs, mutants, the definition-to-source map, the findings and the hazards.

## The system and how its parts interact

| Part | Source | State | Operations |
|---|---|---|---|
| Segment allocator | `allocator/worst_fit_list.rs` | segment bitmap `data`, sorted list of free runs `free_segments` | `new` (scan the bitmap), `allocate`, `allocate_at`, `deallocate` |
| Database handler | `database/handler.rs` | `free_space` counters, `delayed_messages`, `last_snapshot_generation`, `current_generation`, root tree and its snapshot | `update_allocation_bitmap`, `copy_on_write`, `get_allocation_bitmap`, `bump_generation` |
| Storage info | `database/storage_info.rs` | `{free, total}` | the atomic conversions; f32 helpers |
| Dataset router | `database/dataset.rs` | root-tree keys `[0]`, `[1,name]` and dataset data, `open_datasets`, `Dataset` handles | open, create, open-or-create, close, `allocate_ds_id`, per-key `insert`/`delete`/`migrate`, `range_delete`, `migrate_range` |
| Tree engine | `tree/imp/mod.rs`, `tree/imp/flush.rs` | nodes with child buffers and leaves, DML cache | `insert`, `get_with_info`, `rebalance_tree` |

How they interact:
- A dataset operation becomes a message that `insert` puts into a leaf or into a child buffer.
- `rebalance_tree` flushes the buffers down.
- On sync, the DML (not under `src/`) writes nodes and allocates blocks through the allocator that `get_allocation_bitmap` builds. It reports each allocation through `update_allocation_bitmap` and each rewritten block through `copy_on_write`.
- These update the free counters at once. The bitmap and space-accounting entries are updated in the root tree, which the handler writes through the same tree engine, either at once or as delayed messages flushed at sync.
- Snapshots pin blocks: `copy_on_write` keeps a block on the dead list while a snapshot generation of its dataset is at least the block's birth generation.

## Modules

| Module | Models | State (VARIABLES) | Actions |
|---|---|---|---|
| `WorstFitList` | `WorstFitList` | `data` (set of set bits), `free_segments` (sequence of `[offset, size]`), `ret` (last call and result) | `allocate`, `allocate_at`, `deallocate`, each as one action with its early returns |
| `MCWorstFitList` | bounds | | |
| `Handler` | `Handler` with DML threads | counters, root-tree entries, `delayed`, per-thread `pc/arg/act/val`, ghosts `live/birth/snap/durable` | one action per step of `update_allocation_bitmap` and `copy_on_write` that another thread can observe. From spec.md: DML allocate, release and rewrite, sync flush and commit, snapshot creation |
| `MCHandler` | bounds, symmetry | | |
| `Dataset` | dataset router | `lastId`, `names`, `dsData`, `open`, `lastSnap`, `handle`, `generation`, `result` | `open_custom_dataset`, `create_custom_dataset`, `open_or_create_custom_dataset`, `close_dataset`, snapshot creation (spec.md) |
| `MCDataset` | symmetry | | |
| `Tree` | `insert`, `get_with_info`, `rebalance_tree`, dataset `insert`/`delete`/`migrate`/`upsert` | `rootLeaf`, `pivots`, `buf` (the root's child buffers), `leaf`, `ret`, `panicked`, ghost `lastWrite` | `insert` into the root leaf (with `split_root_node`), into a leaf (split loop), into the root buffer (flush, leaf merge or rebalance, split), the empty-key error, the upsert `MessageTooLarge` error, `get_with_info` |
| `KVStore` | what a tree promises | `store`, `lastWrite` | `Put`, `Delete`, `Upsert` |
| `MCTree` | instance | | |
| `DatasetRange` | `range_delete`, `migrate_range`, `Tree::range` | `store`, `op` (the walk in progress), ghost `touched`, `ret` | range start, one loop turn of each walk, a write of another thread |

### How each model follows the code

**Allocator (`WorstFitList`):**
- Every action is a whole call.
  - `allocate` has the `size == 0` early return, the worst-fit scan (`WorstFitIndex`: the first run of maximal size that fits), the mark, and the in-place shrink of the run.
  - `allocate_at` has the bound and any-bit-set early returns, then the first run matching one of the four placement cases (whole, prefix, suffix, interior), in list order.
  - `deallocate` has the out-of-range early return, the clear, and the first run it abuts or precedes.
- Init is every bitmap, with `free_segments` computed by `initialize_free_segments` (scan plus sort).
- `Sizes` and `Offsets` go one past the segment so that the out-of-range paths are reached.
- `deallocate` is only called on ranges that are allocated or out of range. That is how the DML calls it.

**Handler (`Handler`):**
- `update_allocation_bitmap` is four steps: counter update, bitmap insert, counter read, storage-info insert. Another thread can run between any two.
- `copy_on_write` is two steps: the snapshot test with the counter update, then the push under the `delayed_messages` mutex.
- The root tree holds only the entries the handler writes. Each insert of one key is atomic.
- Sync is two steps:
  - `SyncFlush` applies the delayed messages.
  - `SyncCommit` makes the tree durable, takes the root-tree snapshot that `get_allocation_bitmap` ORs in, and bumps the generation.
  
  DML work runs between the two.
- Either root-tree insert of `update_allocation_bitmap` may fail (`UabInsertFails`, at most `MaxFailures` times). The `?` returns at once, leaving the counter update in place.
- The callers (DML, sync, snapshot creation) are not under `src/`. They are modelled from spec.md and marked `spec_modelled` in the map.

**Dataset router (`Dataset`):**
- `Database` methods take `&mut self`, so each call is one action.
- Every root-tree get or insert, and every sync, may fail. The action chooses the failing step, and the steps before it have taken effect (`Done`, `CreateSteps`, `OpenSteps`).
- `close_dataset` consumes the handle before syncing, as the code does.

**Tree (`Tree`):**
- The tree starts as one leaf. When it exceeds `MaxLeaf` entries, `split_root_node` turns it into an internal root over two leaves, split by a set of pivot keys.
- A child buffer holds one merged message per key (`merge`: a no-op over a message keeps the older one, an upsert over an insert or delete becomes the insert of the value the two give, and an upsert over an upsert replaces it).
- An upsert overwrites a byte range of the value, zero-padding an absent one. In the model every upsert writes at one offset, so an upserted value is its base value with the datum of the last upsert (`UpsertedValue`, `Upserted` in `KVStore`). The abstract value keeps what separates an upsert over a value from one over nothing. The tree run has two data, so a wrong order of two upserts (in the buffer, or between buffer and leaf) changes the contents. `lastWrite` records the datum, so a dropped upsert cannot pass as a repeat of the earlier one.
- `insert` descends into the child only if `try_walk` hands out the buffer (no message buffered for the key) and `try_get_mut` gets the child; the step chooses whether the child is available. The leaf then runs the split loop of `rebalance_tree` (`SplitWhileTooLarge`).
- Otherwise `insert` buffers the message at the root and runs `rebalance_tree` on it (`rebalance_tree`, recursive): flush the largest buffer (`FlushCandidate`) into its leaf, merge or rebalance the leaf with a sibling when it is below `MinLeaf` (`leaf_merge`), split it while it is above `MaxLeaf`, and repeat while the root holds more than `MaxRootMsgs` messages.
- An insert into a root with one child and no pivots reaches `unimplemented!()` (`root_needs_merge`); the model sets `panicked` and stops.
- `get_with_info` follows the code: messages collected from the buffer are applied only when the leaf has a base value, and `tmp.unwrap()` panics when a delete removed it.
- Whole operations are atomic. Insert keeps the root's write guard through the rebalance, and get couples the read guards down the path.
- Sizes are counted in entries. With every non-empty buffer a flush candidate, an internal root always has one to flush and never splits, so trees have at most two levels.

**Range operations (`DatasetRange`):**
- The dataset's tree is the key-value map that the `tree` run shows the tree implements.
- `range_delete` and `migrate_range` take `&self`, so each turn of their loop is a step, and `Write` (another thread's insert or delete) can run between two turns.
- The range iterator (not under `src/`) is modelled from spec.md: it yields the next key of the range that has a value when it gets there, and an item may be `Err`.
- `range_delete` skips an `Err` item, deletes an `Ok` one, and keeps the first failing delete's error (`FirstError`). `migrate_range` returns on the first failing `migrate`, which is `DoesNotExist` for a tier with no disk.
- Ghosts: `touched` holds the keys of the range that the writer wrote during the walk, and `migrated` holds the keys whose no-op message was inserted.


## Runs

| Run | Config | Expect | What it shows |
|---|---|---|---|
| allocator | `WorstFitList.cfg` | pass | The free list covers the clear bits exactly (each clear block is in one run; no set block is in any run). An allocation never returns a set block. This holds from any bitmap of 4 blocks and for any sequence of calls. |
| allocator_merged | `WorstFitList_merged.cfg` | violation | `allocate(4)` fails on a fully free segment. See the findings. |
| handler | `Handler.cfg` | pass | With one root-tree insert of `update_allocation_bitmap` allowed to fail: a block the allocator hands out is in no current tree, snapshot or durable tree, and is not held by another thread (`AllocatedBlockUnshared`). While no insert has failed and no call is in progress, the free counter equals the number of clear bits plus the frees still waiting for sync (`SpaceAccountingUnlessFailed`). |
| handler_storage_info | `Handler_info.cfg` | violation | Two concurrent `update_allocation_bitmap` calls leave a stale `StorageInfo` in the root tree. |
| dataset | `Dataset.cfg` | pass | With failures at every step:<br>- a dataset is held by at most one handle;<br>- every name binding resolves to its own DatasetData;<br>- a reopened dataset has its snapshot generation loaded. |
| dataset_reopen | `Dataset_reopen.cfg` | violation | After a failed close, `InUse` is returned with no handle holding the dataset. |
| handler_partial | `Handler_partial.cfg` | violation | A failed bitmap insert leaves the counter updated and the bitmap not. |
| tree | `Tree.cfg` | pass | Inserts, deletes, migrations and upserts through every insert path, root split, flushes, leaf splits and leaf merges refine `KVStore` (`KVRefinement`) Upserts write two different data, so the order of two upserts of a key is checked as well. |
| tree_get | `Tree_get.cfg` | violation | `get` misses a buffered insert. |
| tree_root_merge | `Tree_rootmerge.cfg` | violation | A leaf merge leaves the root with one child, and the next buffered insert reaches `unimplemented!()`. |
| dataset_range | `DatasetRange.cfg` | pass | With failing deletes and migrations and a concurrent writer, a `range_delete` that returns Ok has removed, and a `migrate_range` that returns Ok has migrated, every key of the range the writer did not touch (`RangeDeleteOkClears`, `MigrateOkCoversRange`). |
| dataset_range_iter | `DatasetRange_iter.cfg` | violation | An `Err` item from the iterator is skipped and `range_delete` still returns Ok. |

Every property of a passing run has a mutant in `PROJECT.json`: a plausible bug in a mapped definition that TLC finds as a violation of that property.

## Findings

1. **Allocator: stale zero-size runs** (`worst_fit_list.rs:48`).
   - `allocate` leaves a zero-size run when it takes a whole run.
   - `deallocate` then inserts the freed range before that stale run and does not merge it with its neighbours.
   - Trace: start with bit 2 set. `allocate(2)`, then `deallocate(0,3)`, leaves a list that makes `allocate(4)` fail on a free segment.
   - spec.md says the emptied run is removed and the list is always merged.
2. **Handler: stale storage info** (`handler.rs:141`). The counter value for the space-accounting insert is read outside any lock, so two calls can persist their values in the wrong order.
3. **Dataset: a failed close locks the dataset for good** (`dataset.rs:225`). The handle is consumed before `sync_ds` can fail, and the early return skips the removal from `open_datasets`. Every later open fails with `InUse`.
4. **Tree: get drops buffered messages** (`mod.rs:360`).
   - With no base value in the leaf, `get_with_info` returns `None` without applying the messages collected from the buffers, so an insert is invisible until it is flushed.
   - With a base value, a buffered delete makes `tmp.unwrap()` panic.
   - spec.md 4.2 and 8 say the messages are folded over the leaf's value.
5. **Handler: counter updated, bitmap not** (`handler.rs:139`). `update_allocation_bitmap` updates the free counters before its root-tree inserts and returns an insert error with `?` without undoing them. The block stays clear in the bitmap. An allocator view built from it can hand the block out again, and the counter then drops below 0, which wraps the u64. `TypeOK` of the handler run bounds the counter by the number of failures for this reason.
6. **Tree: root merge panics** (`mod.rs:445`). A flush that empties a leaf merges it with its sibling; a root left with one child reaches `unimplemented!()` on the next insert buffered there.
7. **Dataset: range_delete drops iterator errors** (`dataset.rs:479`). `if let Ok(..)` skips an unreadable entry, and the call returns Ok with the key in place. spec.md 7 says every entry is attempted and the earliest error returned.

A further divergence is listed as a hazard without a run: `rebalance_tree` on a leaf returns as soon as the leaf is not too large (`flush.rs:55`). A delete applied directly to a leaf therefore leaves it below `MIN_LEAF_NODE_SIZE`, which spec.md 8 states as an invariant. The tree model reaches such states.

## Bounds and why they are enough

- **Allocator:** `SEGMENT_SIZE = 4` gives every bitmap of 4 blocks as an initial state, so every placement case and every merge case occurs, including runs at both ends. `MaxFreeRuns = 4` caps the list: because of finding 1, the list can grow without bound with zero-size runs. 58k distinct states.
- **Handler:** two threads, 2 blocks and 3 generations. That is enough for two allocations to race, for a free to wait across a sync, for a snapshot at the block's birth generation, and for a rewrite between flush and commit.
- **Dataset:** 2 names, 2 handles, 3 ids, 2 snapshot generations. That is enough for two handles on one dataset, for a create that fails after the id is allocated followed by a second create, and for snapshot, close and reopen. 5.5k distinct states.
- The handler run allows one failing insert (`MaxFailures = 1`): 5.4M distinct states in under 2 minutes. `Handler_info.cfg` runs with no failures.
- **Tree:** 4 keys, 1 value (the value is irrelevant to the sizes; deletes and no-ops give the other messages), upserts of two data (`d1`, `d2`) on key 3, `MaxLeaf` 2, `MinLeaf` 1, root bound 2 messages. The root leaf splits, leaves split after a flush, both leaf-merge branches (with the right and the left sibling) and both rebalance branches occur, an upsert merges over a buffered insert, a buffered delete and a buffered upsert of the other datum, and a root shrinks to one child. The cfgs set `VIEW StateView`, which leaves out `ret` and `lastWrite`. No action's effect on the tree depends on them, so states that differ only in them have the same successors. The properties read only their new values, except that a step that changes neither `Contents` nor `lastWrite` is a `KVStore` stutter. Every `KVStore` write is idempotent, so such a step is also a repeat of the last write, and the choice of `lastWrite` hides no violation. 32k distinct states in under a minute. Larger bounds are out of reach: a leaf pushed past twice its maximum by one flush (hazard `flush.rs:141`) needs 7 keys and a root bound of 3.
- **Range operations:** 3 keys, 1 value, every initial map. Ranges of 1 to 3 keys with writes between every two turns, so the writer can add a key ahead of the cursor or delete the next one. 11.4k distinct states.

## Fairness

The code under `src/` starts no threads of its own (spec.md). Every step is a call of a client or of the DML, whose scheduling is outside `src/`. So the only fairness the code justifies is that a thread inside a call keeps running that call.

- **`DatasetRange`** states no liveness. The walk of `range_delete` and `migrate_range` ends with fairness on the calling thread, but over a finite key set it ends by construction: the iterator's cursor only moves forward. Its real hazard, a writer inserting keys ahead of the cursor without end (keys are byte strings), needs unboundedly many keys, which no finite model has.
- **Elsewhere** no liveness is stated either. The progress the handler could promise (a delayed message applied, a pinned block freed) happens only if the client calls `sync` or drops a snapshot. Such a property would hold only under a fairness assumption on the client, not on the code.
- Tree operations are single atomic steps in the model. Their internal loops (`rebalance_tree`, the split loop) are recursive operators that TLC evaluates to the end.

## Not modelled, and why

- **DML, storage pool, the message-action code, node internals:** not under `src/`. Where a model needs them, they are modelled from spec.md and marked `spec_modelled`.
- **Handler:**
  - the `allocations` counter: written, never read;
  - `old_root_allocation` and `free_space_tier`: the tier counter gets exactly the updates of the one disk's counter;
  - several disks;
  - a failed root-tree insert that has already changed the tree: `UabInsertFails` models the `?` returns with the insert having no effect.
- **Tree:**
  - trees deeper than two levels and the split of an internal root: with sizes counted in entries they are not reached (see above);
  - byte sizes of nodes and the storage-preference bookkeeping;
  - the range iterator's internals (not under `src/`), modelled abstractly in `DatasetRange`;
  - the bytes of an upsert: one datum at one offset stands for the byte range, so overlapping upserts at different offsets are not told apart.
- **Handler:** the counter's u64 width. A value below 0 stands for the wrap; no property reads the wrapped value.
- **Dataset:** `iter_datasets` and `report_node_pointers` with the tree's `node_iter`, which only read. `node_iter` visits only the children of a node that are unmodified, and skips a child whose `get_node` fails. Its output only feeds storage-tier profiling (`ProfileMsg::Discover`), no state of the storage stack.
- **`percent_free`, `percent_full`, `block_overshoot`:** f32 functions of `free` and `total` with no caller under `src/` and no state. (`block_overshoot` converts the u64 counts to f32, which holds integers exactly only up to 2^24.)
- **`tests/`:** no system state.

## Plan for the next sittings

1. **Handler.** Add dead-list reaping when a snapshot is dropped.
2. **Composition.** Compose the allocator with the handler: the DML allocates through a `WorstFitList` built from `AllocatorView`. Check snapshot safety end to end.
3. **Persistence.** Model insert, sync, reopen and get across a crash between the flush and commit steps of sync.
