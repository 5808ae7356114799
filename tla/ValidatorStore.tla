--------------------------- MODULE ValidatorStore ---------------------------
(***************************************************************************)
(* The validators of the epochs.  Cassandra does not store the score of a  *)
(* validator, which reads as zero; its key is the address and the epoch,   *)
(* as that of Postgres.                                                    *)
(***************************************************************************)
EXTENDS Integers, FiniteSets, Store

CONSTANTS Address, Epoch, Stake, Xscore,
          MaxBatch      \* bound on the validators stored at once

Validator == [address : Address, epoch : Epoch, stake : Stake, xscore : Xscore]
Batches == {vs \in SUBSET Validator : Cardinality(vs) <= MaxBatch}

Key(v) == <<v.address, v.epoch>>
RowsAt(t, K) == {t[k] : k \in K \cap DOMAIN t}
Of(a) == {<<a, e>> : e \in Epoch}
At(e) == {<<a, e>> : a \in Address}
SomeOrNone(rows) == IF rows = {} THEN NULL ELSE rows

-----------------------------------------------------------------------------
\* validator/src/state_pg.rs

pg_create(t, v) == InsertOrIgnore(t, Key(v), v)
pg_update(t, v) == UpdateWhere(t, {Key(v)}, v)
pg_raw_query(t) == Truncate(t)

\* The row of any epoch of the address.
pg_load_validator(t, a) ==
    IF RowsAt(t, Of(a)) = {} THEN Fail(t) ELSE Done(t, RowsAt(t, Of(a)))
pg_load_all_validators(t, e) == Done(t, SomeOrNone(RowsAt(t, At(e))))

pg_is_validator(t, a, e) == Done(t, Has(t, <<a, e>>))

\* One statement; of two rows of the batch with one key the first stays.
pg_batch_store_validators(t, vs) ==
    Done([k \in DOMAIN t \cup {Key(v) : v \in vs} |->
            IF Has(t, k) THEN t[k] ELSE CHOOSE v \in vs : Key(v) = k], Unit)
pg_create_or_update(t, v) == IF Has(t, Key(v)) THEN pg_update(t, v) ELSE pg_create(t, v)

-----------------------------------------------------------------------------
\* validator/src/state_cas.rs; a row is read by single_row

cas_create(t, v) == Upsert(t, Key(v), [v EXCEPT !.xscore = 0])
cas_raw_query(t) == Truncate(t)
cas_load_validator(t, a) ==
    IF Cardinality(Of(a) \cap DOMAIN t) # 1 THEN Fail(t) ELSE Done(t, RowsAt(t, Of(a)))
cas_load_all_validators(t, e) == Done(t, SomeOrNone(RowsAt(t, At(e))))
cas_is_validator(t, a, e) == Done(t, Has(t, <<a, e>>))
cas_batch_store_validators(t, vs) == Unsupported(t)
cas_create_or_update(t, v) == Unsupported(t)

-----------------------------------------------------------------------------
\* validator/src/state_rock.rs

rock_create(t, v) == Todo(t)
rock_raw_query(t) == Truncate(t)
rock_load_validator(t, a) == Todo(t)
rock_load_all_validators(t, e) == Todo(t)
rock_is_validator(t, a, e) == Todo(t)
rock_batch_store_validators(t, vs) == Unsupported(t)
rock_create_or_update(t, v) == Unsupported(t)

-----------------------------------------------------------------------------
\* validator/src/validator_state.rs

store_validator(b, t, v) == On(b, pg_create(t, v), cas_create(t, v), rock_create(t, v))

upsert_validator(b, t, v) ==
    On(b, pg_create_or_update(t, v), cas_create_or_update(t, v), rock_create_or_update(t, v))

batch_store_validators(b, t, vs) ==
    On(b, pg_batch_store_validators(t, vs), cas_batch_store_validators(t, vs),
          rock_batch_store_validators(t, vs))

load_validator(b, t, a) ==
    On(b, pg_load_validator(t, a), cas_load_validator(t, a), rock_load_validator(t, a))

load_all_validators(b, t, e) ==
    On(b, pg_load_all_validators(t, e), cas_load_all_validators(t, e),
          rock_load_all_validators(t, e))

is_validator(b, t, a, e) ==
    On(b, pg_is_validator(t, a, e), cas_is_validator(t, a, e), rock_is_validator(t, a, e))

raw_query(b, t) == On(b, pg_raw_query(t), cas_raw_query(t), rock_raw_query(t))
-----------------------------------------------------------------------------
Init == Empty([b \in Backends |-> NoRows])

Next ==
    \/ \E v \in Validator :
        \/ Call("store_validator", v, [b \in Backends |-> store_validator(b, db[b], v)])
        \/ Call("upsert_validator", v, [b \in Backends |-> upsert_validator(b, db[b], v)])
    \/ \E vs \in Batches :
        Call("batch_store_validators", vs, [b \in Backends |-> batch_store_validators(b, db[b], vs)])
    \/ \E a \in Address :
        \/ Call("load_validator", a, [b \in Backends |-> load_validator(b, db[b], a)])
        \/ \E e \in Epoch :
            Call("is_validator", <<a, e>>, [b \in Backends |-> is_validator(b, db[b], a, e)])
    \/ \E e \in Epoch :
        Call("load_all_validators", e, [b \in Backends |-> load_all_validators(b, db[b], e)])
    \/ Call("raw_query", Unit, [b \in Backends |-> raw_query(b, db[b])])

-----------------------------------------------------------------------------
\* RocksDB answers nothing but raw_query.
Compared == {"pg", "cas"}

Contents(b) == db[b]

(* A validator that is stored again keeps its row in Postgres and gets a   *)
(* new one in Cassandra; an address with two epochs can only be read from  *)
(* Postgres.                                                               *)
Differs(t, op, arg) ==
    CASE op = "store_validator" ->
            IF Has(t, Key(arg)) THEN t[Key(arg)] # [arg EXCEPT !.xscore = 0] ELSE arg.xscore # 0
      [] op = "load_validator" -> Cardinality(RowsAt(t, Of(arg))) > 1
      [] OTHER -> FALSE
=============================================================================
