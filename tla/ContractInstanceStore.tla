------------------------ MODULE ContractInstanceStore ------------------------
(***************************************************************************)
(* Contract instances and the keys and values that contracts store.  An    *)
(* instance address is derived from its contract, so the contract of an    *)
(* instance is CodeOf[instance].                                           *)
(***************************************************************************)
EXTENDS Integers, FiniteSets, Store

CONSTANTS Address, Key, Val, CodeOf, Owner,
          DevMode       \* the flag dev_mode of the configuration

NoInstances == [code_map |-> NoRows, instance |-> NoRows]

KeysOf(t, a) == {k \in DOMAIN t.instance : k[1] = a}

\* The answer and the new state of one of the two tables.
InCodeMap(t, out) == [out EXCEPT !.t = [t EXCEPT !.code_map = out.t]]
InInstance(t, out) == [out EXCEPT !.t = [t EXCEPT !.instance = out.t]]

-----------------------------------------------------------------------------
\* contract_instance/src/state_pg.rs

pg_create(t, a, owner) ==
    InCodeMap(t, IF DevMode THEN Upsert(t.code_map, a, [contract |-> CodeOf[a], owner |-> owner])
                 ELSE Insert(t.code_map, a, [contract |-> CodeOf[a], owner |-> owner]))

pg_raw_query(t) == Done(NoInstances, Unit)

pg_get_contract_instance(t, a) ==
    IF Has(t.code_map, a) THEN Done(t, t.code_map[a]) ELSE Fail(t)

\* The statement has no condition on the key: the only row of the instance
\* gets the new key, and two rows cannot have the same one.
pg_update_state_key_value(t, a, k, v) ==
    CASE Cardinality(KeysOf(t, a)) > 1 -> Fail(t)
      [] KeysOf(t, a) = {} -> Done(t, Unit)
      [] OTHER -> InInstance(t, Upsert(Without(t.instance, KeysOf(t, a)), <<a, k>>, v))

pg_store_state_key_value(t, a, k, v) == InInstance(t, Upsert(t.instance, <<a, k>>, v))

pg_delete_state_key_value(t, a, k) == InInstance(t, Done(Without(t.instance, {<<a, k>>}), Unit))

pg_get_state_key_value(t, a, k) ==
    Done(t, IF Has(t.instance, <<a, k>>) THEN {t.instance[<<a, k>>]} ELSE {})

pg_is_valid_contract_instance(t, a) == Done(t, Has(t.code_map, a))

-----------------------------------------------------------------------------
\* contract_instance/src/state_cas.rs

cas_create(t, a, owner) ==
    InCodeMap(t, Upsert(t.code_map, a, [contract |-> CodeOf[a], owner |-> owner]))

cas_raw_query(t) == Done(NoInstances, Unit)

cas_get_contract_instance(t, a) ==
    IF Has(t.code_map, a) THEN Done(t, t.code_map[a]) ELSE Fail(t)

cas_update_state_key_value(t, a, k, v) == InInstance(t, Upsert(t.instance, <<a, k>>, v))

cas_store_state_key_value(t, a, k, v) == InInstance(t, Upsert(t.instance, <<a, k>>, v))

cas_delete_state_key_value(t, a, k) == InInstance(t, Done(Without(t.instance, {<<a, k>>}), Unit))

cas_get_state_key_value(t, a, k) ==
    Done(t, IF Has(t.instance, <<a, k>>) THEN {t.instance[<<a, k>>]} ELSE {})

cas_is_valid_contract_instance(t, a) == Done(t, Has(t.code_map, a))

-----------------------------------------------------------------------------
\* contract_instance/src/state_rock.rs.  Two further keys that create writes,
\* by contract and by owner, are never read.

rock_create(t, a, owner) ==
    InCodeMap(t, Upsert(t.code_map, a, [contract |-> CodeOf[a], owner |-> owner]))

rock_raw_query(t) == Done(NoInstances, Unit)

rock_get_contract_instance(t, a) ==
    IF Has(t.code_map, a) THEN Done(t, t.code_map[a]) ELSE Fail(t)

rock_store_state_key_value(t, a, k, v) == InInstance(t, Upsert(t.instance, <<a, k>>, v))

rock_update_state_key_value(t, a, k, v) == InInstance(t, Upsert(t.instance, <<a, k>>, v))

rock_delete_state_key_value(t, a, k) == Todo(t)

rock_get_state_key_value(t, a, k) ==
    Done(t, IF Has(t.instance, <<a, k>>) THEN {t.instance[<<a, k>>]} ELSE {})

rock_is_valid_contract_instance(t, a) == Done(t, Has(t.code_map, a))

-----------------------------------------------------------------------------
\* contract_instance/src/contract_instance_state.rs

store_contract_instance(b, t, a, owner) ==
    On(b, pg_create(t, a, owner), cas_create(t, a, owner), rock_create(t, a, owner))
raw_query(b, t) == On(b, pg_raw_query(t), cas_raw_query(t), rock_raw_query(t))
get_contract_instance(b, t, a) ==
    On(b, pg_get_contract_instance(t, a), cas_get_contract_instance(t, a),
          rock_get_contract_instance(t, a))
store_state_key_value(b, t, a, k, v) ==
    On(b, pg_store_state_key_value(t, a, k, v), cas_store_state_key_value(t, a, k, v),
          rock_store_state_key_value(t, a, k, v))
update_state_key_value(b, t, a, k, v) ==
    On(b, pg_update_state_key_value(t, a, k, v), cas_update_state_key_value(t, a, k, v),
          rock_update_state_key_value(t, a, k, v))
delete_state_key_value(b, t, a, k) ==
    On(b, pg_delete_state_key_value(t, a, k), cas_delete_state_key_value(t, a, k),
          rock_delete_state_key_value(t, a, k))
get_state_key_value(b, t, a, k) ==
    On(b, pg_get_state_key_value(t, a, k), cas_get_state_key_value(t, a, k),
          rock_get_state_key_value(t, a, k))
is_valid_contract_instance(b, t, a) ==
    On(b, pg_is_valid_contract_instance(t, a), cas_is_valid_contract_instance(t, a),
          rock_is_valid_contract_instance(t, a))

-----------------------------------------------------------------------------
Init == Empty([b \in Backends |-> NoInstances])

Next ==
    \/ \E a \in Address :
        \/ \E o \in Owner : Call("store_contract_instance", <<a, o>>,
                [b \in Backends |-> store_contract_instance(b, db[b], a, o)])
        \/ Call("get_contract_instance", a, [b \in Backends |-> get_contract_instance(b, db[b], a)])
        \/ Call("is_valid_contract_instance", a,
                [b \in Backends |-> is_valid_contract_instance(b, db[b], a)])
    \/ \E a \in Address, k \in Key :
        \/ \E v \in Val :
            \/ Call("store_state_key_value", <<a, k, v>>,
                    [b \in Backends |-> store_state_key_value(b, db[b], a, k, v)])
            \/ Call("update_state_key_value", <<a, k, v>>,
                    [b \in Backends |-> update_state_key_value(b, db[b], a, k, v)])
        \/ Call("delete_state_key_value", <<a, k>>,
                [b \in Backends |-> delete_state_key_value(b, db[b], a, k)])
        \/ Call("get_state_key_value", <<a, k>>,
                [b \in Backends |-> get_state_key_value(b, db[b], a, k)])
    \/ Call("raw_query", Unit, [b \in Backends |-> raw_query(b, db[b])])

-----------------------------------------------------------------------------
Compared == Backends

Contents(b) == db[b]

(* Outside dev mode Postgres refuses an instance that is there.  Its       *)
(* update_state_key_value agrees with the others only when the instance    *)
(* has that key and no other.                                              *)
Differs(t, op, arg) ==
    CASE op = "store_contract_instance" -> ~DevMode /\ Has(t.code_map, arg[1])
      [] op = "update_state_key_value" -> KeysOf(t, arg[1]) # {<<arg[1], arg[2]>>}
      [] OTHER -> FALSE
=============================================================================
