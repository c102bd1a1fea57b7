------------------------------- MODULE Handler -------------------------------
(***************************************************************************)
(* The database handler of src/betree/src/database/handler.rs: the bridge  *)
(* between the data management layer (DML), the segment bitmaps kept in    *)
(* the root tree, the free-space counters and snapshots.                   *)
(*                                                                         *)
(* One disk with one segment of Blocks; every object occupies one block.   *)
(* Threads are DML writers.  Each runs one handler call at a time, split   *)
(* at the points where another thread can observe its effects:             *)
(*   update_allocation_bitmap: counter update | bitmap insert | read of    *)
(*     the counter for the storage-info message | storage-info insert;     *)
(*   copy_on_write: snapshot check and counter update | push of the        *)
(*     delayed messages under the delayed_messages mutex.                  *)
(* Root-tree inserts are atomic per key (the tree serialises them), so     *)
(* the root tree is modelled by its two entries: the segment bitmap and    *)
(* the disk's storage info.                                                *)
(*                                                                         *)
(* The callers (DML allocation, object rewrite, sync, snapshot creation)   *)
(* are not under src/ and are modelled from spec.md.                       *)
(***************************************************************************)
EXTENDS Naturals, Sequences, SequencesExt, FiniteSets

CONSTANTS
  Threads,    \* DML writer threads
  Blocks,     \* the blocks of the one modelled segment
  MaxGen,     \* bound on current_generation
  NoSnapshot, \* model value: no entry in last_snapshot_generation
  NoBlock,    \* model value: a thread holds no block
  MaxFailures \* bound on failed root-tree inserts

ASSUME MaxGen \in Nat /\ NoBlock \notin Blocks

VARIABLES
  free,        \* free_space[disk].free (free_space_tier receives the same updates)
  bitmap,      \* root tree: the segment's bitmap entry (set bits)
  info,        \* root tree: the disk's space-accounting entry (StorageInfo.free)
  deadlist,    \* root tree: dead-list entries
  delayed,     \* delayed_messages
  lastSnap,    \* last_snapshot_generation[dataset]
  generation,  \* current_generation
  prevBitmap,  \* root_tree_snapshot: the bitmap entry as of the last sync
  pc, arg, act, val,  \* per thread: step, block, Allocate (TRUE) or
                      \* Deallocate, value read from the counter
  live,        \* ghost: blocks the dataset's current tree references
  birth,       \* ghost: generation in which each block was written
  snap,        \* ghost: blocks the snapshot references
  durable,     \* ghost: blocks the last synced tree references
  syncing,     \* a sync has flushed the delayed messages and not yet committed
  failures     \* root-tree inserts that have failed so far

vars == <<free, bitmap, info, deadlist, delayed, lastSnap, generation,
          prevBitmap, pc, arg, act, val, live, birth, snap, durable, syncing, failures>>

N == Cardinality(Blocks)

Steps == {"idle", "uab_counter", "uab_bitmap", "uab_read", "uab_write",
          "cow_check", "cow_push"}

Allocating(t) == pc[t] \in {"uab_counter", "uab_bitmap", "uab_read", "uab_write"}

Quiescent == \A t \in Threads : pc[t] = "idle"

\* Root-tree messages: bitmap update, storage-info upsert, dead-list insert.
BitmapMsg(b, alloc) == [key |-> "segment", block |-> b, alloc |-> alloc]
InfoMsg(v) == [key |-> "space", free |-> v]
DeadMsg(b, g, at) == [key |-> "deadlist", block |-> b, birth |-> g, gen |-> at]

(***************************************************************************)
(* The upsert_bits message applied to a bitmap entry.                     *)
(***************************************************************************)
ApplyBits(bits, m) == IF m.alloc THEN bits \cup {m.block} ELSE bits \ {m.block}

Goto(t, s) == pc' = [pc EXCEPT ![t] = s]

-----------------------------------------------------------------------------
(***************************************************************************)
(* update_allocation_bitmap(offset, size, action) for a block held in      *)
(* arg[t].  The Allocate and Deallocate arms differ in the sign of the     *)
(* counter update and of the bitmap message.                               *)
(***************************************************************************)
\* Mutant: the arms of the counter update swapped.
UabCounterSwapped(t) ==
  /\ pc[t] = "uab_counter"
  /\ free' = IF act[t] THEN free + 1 ELSE free - 1
  /\ Goto(t, "uab_bitmap")
  /\ UNCHANGED <<bitmap, info, deadlist, delayed, lastSnap, generation, prevBitmap,
                 arg, act, val, live, birth, snap, durable, syncing, failures>>

UabCounter(t) ==
  /\ pc[t] = "uab_counter"
  /\ free' = IF act[t] THEN free - 1 ELSE free + 1
  /\ Goto(t, "uab_bitmap")
  /\ UNCHANGED <<bitmap, info, deadlist, delayed, lastSnap, generation, prevBitmap,
                 arg, act, val, live, birth, snap, durable, syncing, failures>>

UabBitmap(t) ==
  /\ pc[t] = "uab_bitmap"
  /\ bitmap' = ApplyBits(bitmap, BitmapMsg(arg[t], act[t]))
  /\ Goto(t, "uab_read")
  /\ UNCHANGED <<free, info, deadlist, delayed, lastSnap, generation, prevBitmap,
                 arg, act, val, live, birth, snap, durable, syncing, failures>>

\* update_storage_info(&self.free_space.get(&disk_key).unwrap().into())
UabRead(t) ==
  /\ pc[t] = "uab_read"
  /\ val' = [val EXCEPT ![t] = free]
  /\ Goto(t, "uab_write")
  /\ UNCHANGED <<free, bitmap, info, deadlist, delayed, lastSnap, generation,
                 prevBitmap, arg, act, live, birth, snap, durable, syncing, failures>>

\* The insert at the space-accounting key; an allocated block then holds
\* the object the DML writes.
UabWrite(t) ==
  /\ pc[t] = "uab_write"
  /\ info' = val[t]
  /\ live' = IF act[t] THEN live \cup {arg[t]} ELSE live
  /\ birth' = IF act[t] THEN [birth EXCEPT ![arg[t]] = generation] ELSE birth
  /\ Goto(t, "idle")
  /\ UNCHANGED <<free, bitmap, deadlist, delayed, lastSnap, generation, prevBitmap,
                 arg, act, val, snap, durable, syncing, failures>>

(***************************************************************************)
(* Either root-tree insert may fail, and `?` returns the error at once:    *)
(* the counter update before it stays, and so does the bitmap insert when  *)
(* the storage-info insert fails.  The DML does not use the block.         *)
(***************************************************************************)
UabInsertFails(t) ==
  /\ pc[t] \in {"uab_bitmap", "uab_write"}
  /\ failures < MaxFailures
  /\ failures' = failures + 1
  /\ Goto(t, "idle")
  /\ UNCHANGED <<free, bitmap, info, deadlist, delayed, lastSnap, generation, prevBitmap,
                 arg, act, val, live, birth, snap, durable, syncing>>

(***************************************************************************)
(* copy_on_write(offset, size, generation, dataset_id) for the block in   *)
(* arg[t], born in birth[arg[t]].  `last_snapshot_generation < Some(g)`:   *)
(* with no snapshot (None < Some(_)) or one older than the block's birth,  *)
(* the block is freed: counter first, then the delayed bitmap and          *)
(* storage-info messages under the mutex.  Otherwise a dead-list entry is  *)
(* queued and the block stays allocated.                                   *)
(***************************************************************************)
\* Mutant: `<=` for `<`, a block born in the snapshot's generation freed.
SafeToFreeLe(g) == IF lastSnap = NoSnapshot THEN TRUE ELSE lastSnap <= g

SafeToFree(g) == IF lastSnap = NoSnapshot THEN TRUE ELSE lastSnap < g

\* Mutant: the free counter is not credited.
CowRemoveNoCounter(t) ==
  /\ pc[t] = "cow_check"
  /\ SafeToFree(birth[arg[t]])
  /\ Goto(t, "cow_push")
  /\ UNCHANGED <<free, bitmap, info, deadlist, delayed, lastSnap, generation, prevBitmap,
                 arg, act, val, live, birth, snap, durable, syncing, failures>>

CowRemove(t) ==
  /\ pc[t] = "cow_check"
  /\ SafeToFree(birth[arg[t]])
  /\ free' = free + 1
  /\ Goto(t, "cow_push")
  /\ UNCHANGED <<bitmap, info, deadlist, delayed, lastSnap, generation, prevBitmap,
                 arg, act, val, live, birth, snap, durable, syncing, failures>>

CowPushRemoved(t) ==
  /\ pc[t] = "cow_push"
  /\ delayed' = delayed \o << BitmapMsg(arg[t], FALSE), InfoMsg(free) >>
  /\ Goto(t, "idle")
  /\ UNCHANGED <<free, bitmap, info, deadlist, lastSnap, generation, prevBitmap,
                 arg, act, val, live, birth, snap, durable, syncing, failures>>

CowPreserve(t) ==
  /\ pc[t] = "cow_check"
  /\ ~SafeToFree(birth[arg[t]])
  /\ delayed' = Append(delayed, DeadMsg(arg[t], birth[arg[t]], generation))
  /\ Goto(t, "idle")
  /\ UNCHANGED <<free, bitmap, info, deadlist, lastSnap, generation, prevBitmap,
                 arg, act, val, live, birth, snap, durable, syncing, failures>>

\* bump_generation
bump_generation == generation' = generation + 1

-----------------------------------------------------------------------------
(***************************************************************************)
(* The callers, from spec.md.                                              *)
(*                                                                         *)
(* DML allocation: the segment allocator obtained from                     *)
(* get_allocation_bitmap sees a block as used if the current bitmap or     *)
(* the root-tree snapshot's bitmap has it set; the DML's cached allocator  *)
(* also holds the blocks other threads have picked and not yet recorded.   *)
(***************************************************************************)
AllocatorView == bitmap \cup prevBitmap

DmlAllocate(t, b) ==
  /\ pc[t] = "idle"
  /\ b \notin AllocatorView
  /\ \A u \in Threads : Allocating(u) => arg[u] # b
  /\ arg' = [arg EXCEPT ![t] = b]
  /\ act' = [act EXCEPT ![t] = TRUE]
  /\ Goto(t, "uab_counter")
  /\ UNCHANGED <<free, bitmap, info, deadlist, delayed, lastSnap, generation,
                 prevBitmap, val, live, birth, snap, durable, syncing, failures>>

\* A block written in the current generation and not yet synced or
\* snapshotted is given back directly (Action::Deallocate).
DmlRelease(t, b) ==
  /\ pc[t] = "idle"
  /\ b \in live \ (durable \cup snap)
  /\ birth[b] = generation
  /\ live' = live \ {b}
  /\ arg' = [arg EXCEPT ![t] = b]
  /\ act' = [act EXCEPT ![t] = FALSE]
  /\ Goto(t, "uab_counter")
  /\ UNCHANGED <<free, bitmap, info, deadlist, delayed, lastSnap, generation,
                 prevBitmap, val, birth, snap, durable, syncing, failures>>

\* An object is rewritten elsewhere: its old block leaves the tree and the
\* DML reports it through copy_on_write.
DmlRewrite(t, b) ==
  /\ pc[t] = "idle"
  /\ b \in live
  /\ live' = live \ {b}
  /\ arg' = [arg EXCEPT ![t] = b]
  /\ Goto(t, "cow_check")
  /\ UNCHANGED <<free, bitmap, info, deadlist, delayed, lastSnap, generation,
                 prevBitmap, act, val, birth, snap, durable, syncing, failures>>

\* Sync, in two steps.  Flush: the delayed messages are inserted into the
\* root tree in order.  Commit: the written tree becomes the durable one,
\* the root-tree snapshot is taken and the generation is bumped.  Between
\* the two the write-back allocates blocks and rewrites objects.
SegmentMsgBlocks(msgs) ==
  {msgs[i].block : i \in {j \in DOMAIN msgs : msgs[j].key = "segment"}}

LastInfo(msgs, current) ==
  LET i == SelectLastInSeq(msgs, LAMBDA m : m.key = "space")
  IN  IF i = 0 THEN current ELSE msgs[i].free

SyncFlush ==
  /\ ~syncing
  /\ bitmap' = bitmap \ SegmentMsgBlocks(delayed)
  /\ info' = LastInfo(delayed, info)
  /\ deadlist' = deadlist \cup {delayed[i] : i \in {j \in DOMAIN delayed : delayed[j].key = "deadlist"}}
  /\ delayed' = << >>
  /\ syncing' = TRUE
  /\ UNCHANGED <<free, lastSnap, generation, prevBitmap, pc, arg, act, val,
                 live, birth, snap, durable, failures>>

SyncCommit ==
  /\ syncing
  /\ syncing' = FALSE
  /\ prevBitmap' = bitmap
  /\ durable' = live
  /\ bump_generation
  /\ UNCHANGED <<free, bitmap, info, deadlist, delayed, lastSnap, pc, arg, act,
                 val, live, birth, snap, failures>>

\* Snapshot creation records the current generation for the dataset.
CreateSnapshot ==
  /\ ~syncing
  /\ lastSnap = NoSnapshot
  /\ lastSnap' = generation
  /\ snap' = live
  /\ UNCHANGED <<free, bitmap, info, deadlist, delayed, generation, prevBitmap,
                 pc, arg, act, val, live, birth, durable, syncing, failures>>

-----------------------------------------------------------------------------
Init ==
  /\ free = N
  /\ bitmap = {}
  /\ info = N
  /\ deadlist = {}
  /\ delayed = << >>
  /\ lastSnap = NoSnapshot
  /\ generation = 1
  /\ prevBitmap = {}
  /\ pc = [t \in Threads |-> "idle"]
  /\ arg = [t \in Threads |-> NoBlock]
  /\ act = [t \in Threads |-> TRUE]
  /\ val = [t \in Threads |-> 0]
  /\ live = {}
  /\ birth = [b \in Blocks |-> 0]
  /\ snap = {}
  /\ durable = {}
  /\ syncing = FALSE
  /\ failures = 0

Next ==
  \/ \E t \in Threads :
       \/ \E b \in Blocks : DmlAllocate(t, b) \/ DmlRewrite(t, b) \/ DmlRelease(t, b)
       \/ UabCounter(t) \/ UabBitmap(t)
       \/ UabRead(t) \/ UabWrite(t) \/ UabInsertFails(t)
       \/ CowRemove(t) \/ CowPushRemoved(t) \/ CowPreserve(t)
  \/ SyncFlush \/ SyncCommit
  \/ CreateSnapshot

Spec == Init /\ [][Next]_vars

-----------------------------------------------------------------------------
TypeOK ==
  \* A failed insert (UabInsertFails) lets the counter leave 0..N; below 0
  \* stands for the wrap of the AtomicU64.
  /\ free \in -(MaxFailures * N) .. N + MaxFailures * N
  /\ info \in -(MaxFailures * N) .. N + MaxFailures * N
  /\ bitmap \subseteq Blocks /\ prevBitmap \subseteq Blocks
  /\ lastSnap \in {NoSnapshot} \cup 1 .. MaxGen
  /\ generation \in 1 .. MaxGen + 1
  /\ pc \in [Threads -> Steps]
  /\ arg \in [Threads -> Blocks \cup {NoBlock}]
  /\ act \in [Threads -> BOOLEAN]
  /\ live \cup snap \cup durable \subseteq Blocks

(***************************************************************************)
(* Snapshot and crash safety: a block the allocator hands out is not       *)
(* referenced by the current tree, by the snapshot, by the last synced     *)
(* tree, or by another thread's pending allocation.  This rests on the     *)
(* snapshot-generation test of copy_on_write, on deferring its frees to    *)
(* the next sync, and on get_allocation_bitmap OR-ing in the bitmap of the *)
(* root-tree snapshot.                                                     *)
(***************************************************************************)
AllocatedBlockUnshared ==
  \A t \in Threads :
    Allocating(t) =>
      /\ arg[t] \notin live \cup snap \cup durable
      /\ \A u \in Threads \ {t} : Allocating(u) => arg[u] # arg[t]

(***************************************************************************)
(* Space accounting: whenever no handler call is in progress, the free     *)
(* counter equals the blocks clear in the bitmap plus the blocks whose     *)
(* deallocation is queued in delayed_messages (copy_on_write counts them   *)
(* free at once, the bitmap only at the next sync).                        *)
(***************************************************************************)
PendingFrees ==
  {delayed[i].block : i \in {j \in DOMAIN delayed : delayed[j].key = "segment"}}

SpaceAccounting ==
  Quiescent => free = N - Cardinality(bitmap) + Cardinality(PendingFrees)

(***************************************************************************)
(* Space accounting holds in every behaviour in which no root-tree insert  *)
(* of update_allocation_bitmap has failed (a failed insert breaks it: run  *)
(* handler_partial).                                                       *)
(***************************************************************************)
SpaceAccountingUnlessFailed == failures = 0 => SpaceAccounting

(***************************************************************************)
(* The persisted storage info is current: once no call is in progress and *)
(* the delayed messages have been flushed, the space-accounting entry of   *)
(* the root tree holds the value of the free counter (spec 5: the          *)
(* counters are reconciled on sync).                                       *)
(***************************************************************************)
StorageInfoCurrent ==
  Quiescent /\ delayed = << >> => info = free

=============================================================================
