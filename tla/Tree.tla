-------------------------------- MODULE Tree --------------------------------
(***************************************************************************)
(* The read and write paths of the B^e-tree, src/betree/src/tree/imp/      *)
(* mod.rs (get_with_info, insert) and flush.rs (rebalance_tree), driven by *)
(* the per-key operations of a dataset, src/betree/src/database/dataset.rs *)
(* (insert, delete, migrate).                                              *)
(*                                                                         *)
(* The tree starts as one leaf.  When that leaf grows too large it is      *)
(* split into an internal root over two leaves; from then on the root      *)
(* keeps one child buffer per child, split by the sorted pivot keys (keys  *)
(* <= a pivot go left).  A buffer holds at most one message per key (a new *)
(* message is merged over the buffered one).                               *)
(*                                                                         *)
(* Sizes are counted in entries: a leaf's size is the number of keys it    *)
(* holds a value for, the root's size the number of buffered messages.     *)
(* Every non-empty buffer is a flush candidate, so an internal root always *)
(* has one when it is too large and never splits: trees have at most two  *)
(* levels.                                                                 *)
(*                                                                         *)
(* A tree operation holds the root lock while it works below it (insert    *)
(* keeps the root's write guard through rebalance_tree; get couples the    *)
(* root's read guard with the child's), so each operation is one step.     *)
(* try_get_mut of a child may fail because the child is not cached or is   *)
(* locked by another thread; the step chooses.                             *)
(*                                                                         *)
(* The node code (internal.rs, child_buffer.rs, leaf.rs, split) and        *)
(* DefaultMessageAction are not under src/ and are modelled from spec.md.  *)
(***************************************************************************)
EXTENDS Naturals, FiniteSets

CONSTANTS
  Keys,         \* keys, as integers in key order
  Values,       \* values of insert messages
  UpsertKeys,   \* keys that upserts are applied to
  UpsertData,   \* the data an upsert writes at its offset
  MaxLeaf,      \* MAX_LEAF_NODE_SIZE, in entries
  MinLeaf,      \* MIN_LEAF_NODE_SIZE, in entries
  MaxRootMsgs,  \* MAX_INTERNAL_NODE_SIZE, in buffered messages
  NoValue,      \* model value: no value for the key
  NoMsg,        \* model value: no buffered message for the key
  EmptyKey      \* model value: the empty key

ASSUME Keys \subseteq Nat /\ UpsertKeys \subseteq Keys /\ 1 <= MinLeaf /\ 2 * MinLeaf <= MaxLeaf

VARIABLES
  rootLeaf, \* the root is a leaf (the tree has one level)
  pivots,   \* the root's pivot keys (child i holds the keys above i-1 pivots)
  buf,      \* root: key -> message in the child buffer of the key's child
  leaf,     \* leaves: key -> base value in the leaf holding the key
  ret,      \* the last operation and its result
  panicked, \* an insert hit unimplemented!() and the program stopped
  lastWrite \* ghost: key and value the last write set

vars == <<rootLeaf, pivots, buf, leaf, ret, panicked, lastWrite>>

-----------------------------------------------------------------------------
(***************************************************************************)
(* DefaultMessageAction: an insert message sets the value, a delete        *)
(* removes it, a no-op (a migration hint) leaves it, an upsert overwrites  *)
(* part of it with its datum, zero-padding an absent value.  All upserts   *)
(* write at one offset, so an upserted value is its base value with the    *)
(* datum of the last upsert.  Merging a newer message over an older one in *)
(* a buffer composes them: an upsert over an insert or delete becomes the  *)
(* insert of the value it yields, and over an upsert it replaces it, the   *)
(* later datum overwriting the earlier at the same offset.                 *)
(***************************************************************************)
InsertMsg(v) == [type |-> "insert", val |-> v]
DeleteMsg == [type |-> "delete", val |-> NoValue]
NoopMsg == [type |-> "noop", val |-> NoValue]
UpsertMsg(d) == [type |-> "upsert", val |-> d]

UpsertedValues == [base : Values \cup {NoValue}, datum : UpsertData]
UpsertedValue(v, d) ==
  IF v \in UpsertedValues THEN [v EXCEPT !.datum = d] ELSE [base |-> v, datum |-> d]
AllValues == Values \cup UpsertedValues

Msgs == {InsertMsg(v) : v \in AllValues} \cup {DeleteMsg, NoopMsg} \cup {UpsertMsg(d) : d \in UpsertData}

\* Mutant: the message itself stored as the value.
apply_whole(m, v) == CASE m.type = "insert" -> m [] m.type = "noop" -> v [] OTHER -> NoValue

apply(m, v) ==
  CASE m.type = "insert" -> m.val
    [] m.type = "noop"   -> v
    [] m.type = "upsert" -> UpsertedValue(v, m.val)
    [] OTHER             -> NoValue

merge(newer, older) ==
  IF older = NoMsg THEN newer
  ELSE CASE newer.type = "noop" -> older
         [] newer.type = "upsert" /\ older.type \in {"insert", "delete"} ->
              InsertMsg(apply(newer, apply(older, NoValue)))
         [] OTHER -> newer

\* The pivots cut the key space: child i of the root holds the keys with
\* i-1 pivots below them; the pivot of child i is its largest key.
Fanout(P) == Cardinality(P) + 1
ChildOf(P, k) == Cardinality({p \in P : p < k}) + 1
ChildKeys(P, i) == {k \in Keys : ChildOf(P, k) = i}
PivotAt(P, i) == CHOOSE p \in P : ChildOf(P, p) = i

\* Entries of a leaf over key range R and the leaf's size.
Entries(l, R) == {k \in R : l[k] # NoValue}
LeafSize(l, R) == Cardinality(Entries(l, R))

\* Splitting a leaf in half by key: the left half takes the lower half of
\* the entries (the middle one on an odd count); its last key is the pivot.
SplitPivot(E) ==
  CHOOSE p \in E : 2 * Cardinality({e \in E : e <= p}) \in {Cardinality(E), Cardinality(E) + 1}

\* A child buffer and the root's size.
Buffer(b, R) == {k \in R : b[k] # NoMsg}
RootSize(b) == Cardinality(Buffer(b, Keys))

\* try_find_flush_candidate: the largest child buffer (the first on a tie).
FlushCandidate(P, b) ==
  CHOOSE c \in 1..Fanout(P) :
    \A d \in 1..Fanout(P) :
      LET sc == Cardinality(Buffer(b, ChildKeys(P, c)))
          sd == Cardinality(Buffer(b, ChildKeys(P, d)))
      IN  sd < sc \/ (sd = sc /\ c <= d)

\* take_buffer and insert_msg_buffer: the buffer's messages are applied to
\* the child's base values and the buffer is emptied.
insert_msg_buffer(b, l, R) ==
  [k \in Keys |-> IF k \in Buffer(b, R) THEN apply(b[k], l[k]) ELSE l[k]]

take_buffer(b, R) == [k \in Keys |-> IF k \in R THEN NoMsg ELSE b[k]]

(***************************************************************************)
(* Splitting a too-large leaf child (flush.rs step 7, and step 1.1 with a  *)
(* parent): split_node installs the pivot in the root and hands back the   *)
(* larger half, and the loop goes on with it while it is too large.        *)
(* Returns the root's pivots.                                              *)
(***************************************************************************)
RECURSIVE SplitWhileTooLarge(_, _, _)
SplitWhileTooLarge(P, R, l) ==
  IF LeafSize(l, R) <= MaxLeaf THEN P
  ELSE LET p  == SplitPivot(Entries(l, R))
           lo == {k \in R : k <= p}
           hi == R \ lo
       IN  SplitWhileTooLarge(P \cup {p}, IF LeafSize(l, hi) > LeafSize(l, lo) THEN hi ELSE lo, l)

(***************************************************************************)
(* Step 6: a too-small leaf child c merges with its right sibling, or its  *)
(* left one if it is the last child.  leaf_rebalance redistributes the two *)
(* (a new pivot) if both can hold MinLeaf entries, and merges them (the    *)
(* pivot between them removed) otherwise.  Returns the pivots and the keys *)
(* left in the node `child` refers to.                                     *)
(***************************************************************************)
leaf_merge(P, c, l) ==
  LET right == c < Fanout(P)
      sib   == IF right THEN c + 1 ELSE c - 1
      piv   == PivotAt(P, IF right THEN c ELSE sib)
      R     == ChildKeys(P, c) \cup ChildKeys(P, sib)
      np    == SplitPivot(Entries(l, R))
      rebalanced == LeafSize(l, R) >= 2 * MinLeaf
  IN  [pv    |-> IF rebalanced THEN (P \ {piv}) \cup {np} ELSE P \ {piv},
       child |-> CASE ~rebalanced /\ right -> R
                   [] ~rebalanced          -> {}
                   [] right                -> {k \in R : k <= np}
                   [] OTHER                -> {k \in R : k > np}]

(***************************************************************************)
(* rebalance_tree from an internal root: while the root is too large,      *)
(* drain its flush candidate into the child leaf (steps 4-5), merge the    *)
(* child if it is now too small (6), split it while too large (7), and     *)
(* check the root again (8; otherwise step 9 descends to the child, which  *)
(* is within bounds).                                                      *)
(***************************************************************************)
RECURSIVE rebalance_tree(_)
rebalance_tree(s) ==
  IF RootSize(s.buf) <= MaxRootMsgs THEN s
  ELSE LET R == ChildKeys(s.pv, FlushCandidate(s.pv, s.buf))
           l == insert_msg_buffer(s.buf, s.leaf, R)
           m == IF LeafSize(l, R) < MinLeaf
                THEN leaf_merge(s.pv, FlushCandidate(s.pv, s.buf), l)
                ELSE [pv |-> s.pv, child |-> R]
       IN  rebalance_tree([pv   |-> SplitWhileTooLarge(m.pv, m.child, l),
                           buf  |-> take_buffer(s.buf, R),
                           leaf |-> l])

\* Mutant: the child buffer handed out whatever it holds for the key.
try_walk_any(k) == TRUE

\* try_walk: the root hands out the child buffer of the key only if it
\* holds no message for the key, so that no newer message overtakes it.
try_walk(k) == buf[k] = NoMsg

\* root_needs_merge: an internal root with a single child.
root_needs_merge == ~rootLeaf /\ pivots = {}

-----------------------------------------------------------------------------
\* The result of a write: the call and its error (the key is not kept).
WriteRet(op, err) == [op |-> op, key |-> EmptyKey, val |-> NoValue, err |-> err]

(***************************************************************************)
(* insert(key, msg).  A leaf root takes the message and, if now too large, *)
(* is split by split_root_node.  Under an internal root, the message goes  *)
(* into the child leaf if try_walk and try_get_mut succeed, and the leaf   *)
(* is split while too large; otherwise it goes into the root's buffer, a   *)
(* root with one child hits unimplemented!(), and the root is rebalanced.  *)
(***************************************************************************)
InsertIntoRootLeaf(k, m) ==
  LET l == [leaf EXCEPT ![k] = apply(m, @)]
  IN  /\ rootLeaf
      /\ leaf' = l
      /\ IF LeafSize(l, Keys) > MaxLeaf
         THEN rootLeaf' = FALSE /\ pivots' = {SplitPivot(Entries(l, Keys))}
         ELSE UNCHANGED <<rootLeaf, pivots>>
      /\ UNCHANGED <<buf, panicked>>

InsertIntoLeaf(k, m) ==
  LET l == [leaf EXCEPT ![k] = apply(m, @)]
  IN  /\ ~rootLeaf
      /\ try_walk(k)
      /\ leaf' = l
      /\ pivots' = SplitWhileTooLarge(pivots, ChildKeys(pivots, ChildOf(pivots, k)), l)
      /\ UNCHANGED <<rootLeaf, buf, panicked>>

InsertIntoRoot(k, m) ==
  LET b == [buf EXCEPT ![k] = merge(m, @)]
      s == rebalance_tree([pv |-> pivots, buf |-> b, leaf |-> leaf])
  IN  /\ ~rootLeaf
      /\ IF root_needs_merge
         THEN buf' = b /\ panicked' = TRUE /\ UNCHANGED <<pivots, leaf>>
         ELSE buf' = s.buf /\ pivots' = s.pv /\ leaf' = s.leaf /\ UNCHANGED panicked
      /\ UNCHANGED rootLeaf

insert(k, m) ==
  /\ ~panicked
  /\ InsertIntoRootLeaf(k, m) \/ InsertIntoLeaf(k, m) \/ InsertIntoRoot(k, m)
  /\ ret' = WriteRet("insert", "ok")
  /\ lastWrite' = CASE m.type = "noop"   -> lastWrite
                    [] m.type = "upsert" -> [key |-> k, val |-> [upsert |-> m.val]]
                    [] OTHER             -> [key |-> k, val |-> apply(m, NoValue)]

\* ensure!(!key.is_empty(), EmptyKey): an empty key is rejected.
InsertEmptyKey ==
  /\ ~panicked
  /\ ret' = WriteRet("insert", "EmptyKey")
  /\ UNCHANGED <<rootLeaf, pivots, buf, leaf, panicked, lastWrite>>

\* The dataset's writes: insert and delete put a message into the tree;
\* migrate first fails with DoesNotExist if the tier has no disk, and
\* otherwise puts a no-op message carrying the preference.
dataset_insert(k, v) == insert(k, InsertMsg(v))

dataset_delete(k) == insert(k, DeleteMsg)

\* upsert_with_pref: ensure!(offset + data.len() <= MAX_MESSAGE_SIZE,
\* MessageTooLarge), then the upsert message.
dataset_upsert(k, d) == insert(k, UpsertMsg(d))

UpsertTooLarge ==
  /\ ~panicked
  /\ ret' = WriteRet("upsert", "MessageTooLarge")
  /\ UNCHANGED <<rootLeaf, pivots, buf, leaf, panicked, lastWrite>>

migrate(k, diskCount) ==
  IF diskCount = 0
  THEN /\ ~panicked
       /\ ret' = WriteRet("migrate", "DoesNotExist")
       /\ UNCHANGED <<rootLeaf, pivots, buf, leaf, panicked, lastWrite>>
  ELSE insert(k, NoopMsg)

(***************************************************************************)
(* get_with_info(key): collect the root's message for the key (if the root *)
(* is internal), take the leaf's base value; with no base value return     *)
(* None, otherwise fold the messages over it and unwrap the result ("This  *)
(* may never be false").                                                   *)
(***************************************************************************)
get_with_info(k) ==
  LET data == leaf[k]
      tmp  == IF buf[k] = NoMsg THEN data ELSE apply(buf[k], data)
  IN  /\ ~panicked
      /\ ret' = IF data = NoValue
                THEN [op |-> "get", key |-> k, val |-> NoValue, err |-> "ok"]
                ELSE [op |-> "get", key |-> k, val |-> tmp,
                      err |-> IF tmp = NoValue THEN "panic" ELSE "ok"]
      /\ UNCHANGED <<rootLeaf, pivots, buf, leaf, panicked, lastWrite>>

-----------------------------------------------------------------------------
Init ==
  /\ rootLeaf = TRUE
  /\ pivots = {}
  /\ buf = [k \in Keys |-> NoMsg]
  /\ leaf = [k \in Keys |-> NoValue]
  /\ ret = [op |-> "none", key |-> CHOOSE k \in Keys : TRUE, val |-> NoValue, err |-> "ok"]
  /\ panicked = FALSE
  /\ lastWrite = [key |-> CHOOSE k \in Keys : TRUE, val |-> NoValue]

Next ==
  \/ InsertEmptyKey
  \/ UpsertTooLarge
  \/ \E k \in Keys :
       \/ get_with_info(k)
       \/ dataset_delete(k)
       \/ \E d \in UpsertData : k \in UpsertKeys /\ dataset_upsert(k, d)
       \/ \E v \in Values : dataset_insert(k, v)
       \/ \E diskCount \in {0, 1} : migrate(k, diskCount)

Spec == Init /\ [][Next]_vars

\* The state that determines the next steps.  No action's effect on the
\* tree depends on ret or lastWrite, so states differing only in them have
\* the same successors.  The properties read ret' and lastWrite' only,
\* except that a step leaving Contents and lastWrite unchanged is a
\* stuttering step of KVStore; it also matches KVStore's Put, Delete or
\* Upsert of that last write, which are idempotent, so the choice of
\* lastWrite in a state hides no violation.
StateView == <<rootLeaf, pivots, buf, leaf, panicked>>

\* The map the tree stands for: each key's base value with its buffered
\* message applied.
Contents == [k \in Keys |-> IF buf[k] = NoMsg THEN leaf[k] ELSE apply(buf[k], leaf[k])]

\* The leaves under an internal root, as key ranges.
Leaves == {ChildKeys(pivots, i) : i \in 1..Fanout(pivots)}

-----------------------------------------------------------------------------
TypeOK ==
  /\ rootLeaf \in BOOLEAN /\ pivots \subseteq Keys
  /\ buf \in [Keys -> Msgs \cup {NoMsg}]
  /\ leaf \in [Keys -> AllValues \cup {NoValue}]
  /\ ret.val \in AllValues \cup {NoValue}

(***************************************************************************)
(* Inserts, deletes, migrations and the flushes, splits and merges of      *)
(* rebalance_tree implement the key-value map (spec 8, tree round trip;    *)
(* spec 5, per-key order): every write changes the contents as its message *)
(* says, whether it lands in a leaf or in a buffer still holding an older  *)
(* message for the key, and restructuring the tree changes nothing.        *)
(***************************************************************************)
KV == INSTANCE KVStore WITH store <- Contents, lastWrite <- lastWrite

KVRefinement == KV!Spec

(***************************************************************************)
(* No insert reaches the unimplemented!() root merge of insert             *)
(* (mod.rs:443-446): the root is never an internal node with one child.    *)
(***************************************************************************)
NoRootMergePanic == ~panicked

(***************************************************************************)
(* A get returns the stored value (spec 4.2 read path, step 4: the final   *)
(* Option<value> of the fold is the result) and does not panic.            *)
(***************************************************************************)
GetReturnsContents ==
  [][ret'.op = "get" => ret'.err = "ok" /\ ret'.val = Contents[ret'.key]]_vars

=============================================================================
