------------------------------- MODULE KVStore -------------------------------
(***************************************************************************)
(* What a dataset tree promises (spec 8, tree round trip): a map from keys *)
(* to values in which an insert sets the key's value, a delete removes it  *)
(* an upsert overwrites part of it (zero-padding an absent value) and a    *)
(* read changes nothing.  Each write is recorded as the last one.          *)
(***************************************************************************)
CONSTANTS
  Keys,     \* the keys
  Values,   \* the values
  UpsertData, \* the data an upsert writes at its offset
  NoValue   \* model value: the key is absent

VARIABLES
  store,      \* the map
  lastWrite   \* the key and value (or upsert datum) of the last write

Put(k, v) ==
  /\ store' = [store EXCEPT ![k] = v]
  /\ lastWrite' = [key |-> k, val |-> v]

Delete(k) ==
  /\ store' = [store EXCEPT ![k] = NoValue]
  /\ lastWrite' = [key |-> k, val |-> NoValue]

\* The value after an upsert of datum d: all upserts write at one offset,
\* so the later datum replaces the earlier and the base value stays.
UpsertedValues == [base : Values \cup {NoValue}, datum : UpsertData]

Upserted(v, d) ==
  IF v \in UpsertedValues THEN [v EXCEPT !.datum = d] ELSE [base |-> v, datum |-> d]

Upsert(k, d) ==
  /\ store' = [store EXCEPT ![k] = Upserted(@, d)]
  /\ lastWrite' = [key |-> k, val |-> [upsert |-> d]]

Init ==
  /\ store = [k \in Keys |-> NoValue]
  /\ lastWrite = [key |-> CHOOSE k \in Keys : TRUE, val |-> NoValue]

Next == \E k \in Keys : Delete(k) \/ \E d \in UpsertData : Upsert(k, d)
                        \/ \E v \in Values : Put(k, v)

Spec == Init /\ [][Next]_<<store, lastWrite>>

TypeOK ==
  /\ store \in [Keys -> Values \cup UpsertedValues \cup {NoValue}]
  /\ lastWrite \in [key : Keys, val : Values \cup {NoValue} \cup [upsert : UpsertData]]
=============================================================================
