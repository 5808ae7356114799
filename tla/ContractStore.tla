---------------------------- MODULE ContractStore ----------------------------
(***************************************************************************)
(* The table of contracts.  RocksDB has, besides a row per contract, a     *)
(* list of everything ever stored; a list is read as its elements and      *)
(* their number.                                                           *)
(***************************************************************************)
EXTENDS Integers, Sequences, FiniteSets, Store

CONSTANTS Address, Code,
          MaxListed     \* bound on the list of RocksDB

Contract == [address : Address, access : {0, 1}, type : {"L1XVM"}, code : Code,
             owner_address : Address]

Rows(t) == {t[k] : k \in DOMAIN t}
Listed(rows, number) == [rows |-> rows, number |-> number]
Readable(row) == \A c \in DOMAIN row : row[c] # NULL

-----------------------------------------------------------------------------
\* contract/src/state_pg.rs

pg_create(t, c) == Insert(t, c.address, c)
pg_update(t, c) == UpdateWhere(t, {c.address}, [code |-> c.code])
pg_raw_query(t) == Truncate(t)
pg_get_all_contract(t) == Done(t, Listed(Rows(t), Cardinality(DOMAIN t)))
pg_get_contract(t, a) == IF Has(t, a) THEN Done(t, t[a]) ELSE Fail(t)
pg_get_contract_owner(t, a) ==
    IF Has(t, a) THEN Done(t, <<t[a].access, t[a].owner_address>>) ELSE Fail(t)
pg_is_valid_contract(t, a) == Done(t, Has(t, a))

-----------------------------------------------------------------------------
\* contract/src/state_cas.rs.  A column that was never set does not convert.

cas_create(t, c) == Upsert(t, c.address, c)
cas_update(t, c) ==
    UpdateOrPartial(t, c.address, DOMAIN c, [address |-> c.address, code |-> c.code])
cas_raw_query(t) == Truncate(t)
cas_get_all_contract(t) ==
    IF \A k \in DOMAIN t : Readable(t[k])
    THEN Done(t, Listed(Rows(t), Cardinality(DOMAIN t)))
    ELSE Fail(t)
cas_get_contract(t, a) ==
    IF Has(t, a) /\ Readable(t[a]) THEN Done(t, t[a]) ELSE Fail(t)
cas_get_contract_owner(t, a) ==
    IF Has(t, a) /\ t[a].access # NULL /\ t[a].owner_address # NULL
    THEN Done(t, <<t[a].access, t[a].owner_address>>)
    ELSE Fail(t)
cas_is_valid_contract(t, a) == Done(t, Has(t, a))

-----------------------------------------------------------------------------
\* contract/src/state_rock.rs

rock_create(t, c) ==
    Done([rows |-> Put(t.rows, c.address, c), contract_list |-> Append(t.contract_list, c)], Unit)
rock_update(t, c) ==
    Done([rows |-> Put(t.rows, c.address, c), contract_list |-> Append(t.contract_list, c)], Unit)
rock_raw_query(t) == Done([rows |-> NoRows, contract_list |-> << >>], Unit)
rock_get_all_contract(t) ==
    Done(t, Listed({t.contract_list[i] : i \in DOMAIN t.contract_list}, Len(t.contract_list)))
rock_get_contract(t, a) == IF Has(t.rows, a) THEN Done(t, t.rows[a]) ELSE Fail(t)
rock_get_contract_owner(t, a) ==
    IF Has(t.rows, a) THEN Done(t, <<t.rows[a].access, t.rows[a].owner_address>>) ELSE Fail(t)
rock_is_valid_contract(t, a) == Done(t, Has(t.rows, a))

-----------------------------------------------------------------------------
\* contract/src/contract_state.rs

store_contract(b, t, c) == On(b, pg_create(t, c), cas_create(t, c), rock_create(t, c))
update_contract_code(b, t, c) == On(b, pg_update(t, c), cas_update(t, c), rock_update(t, c))
raw_query(b, t) == On(b, pg_raw_query(t), cas_raw_query(t), rock_raw_query(t))
get_all_contract(b, t) ==
    On(b, pg_get_all_contract(t), cas_get_all_contract(t), rock_get_all_contract(t))
get_contract(b, t, a) ==
    On(b, pg_get_contract(t, a), cas_get_contract(t, a), rock_get_contract(t, a))
get_contract_owner(b, t, a) ==
    On(b, pg_get_contract_owner(t, a), cas_get_contract_owner(t, a), rock_get_contract_owner(t, a))
is_valid_contract(b, t, a) ==
    On(b, pg_is_valid_contract(t, a), cas_is_valid_contract(t, a), rock_is_valid_contract(t, a))

-----------------------------------------------------------------------------
Init == Empty([pg |-> NoRows, cas |-> NoRows, rock |-> [rows |-> NoRows, contract_list |-> << >>]])

Next ==
    \/ \E c \in Contract :
        /\ Len(db.rock.contract_list) < MaxListed
        /\ \/ Call("store_contract", c, [b \in Backends |-> store_contract(b, db[b], c)])
           \/ Call("update_contract_code", c, [b \in Backends |-> update_contract_code(b, db[b], c)])
    \/ \E a \in Address :
        \/ Call("get_contract", a, [b \in Backends |-> get_contract(b, db[b], a)])
        \/ Call("get_contract_owner", a, [b \in Backends |-> get_contract_owner(b, db[b], a)])
        \/ Call("is_valid_contract", a, [b \in Backends |-> is_valid_contract(b, db[b], a)])
    \/ Call("get_all_contract", Unit, [b \in Backends |-> get_all_contract(b, db[b])])
    \/ Call("raw_query", Unit, [b \in Backends |-> raw_query(b, db[b])])

-----------------------------------------------------------------------------
Compared == Backends

Contents(b) == IF b = "rock" THEN db[b].rows ELSE db[b]

(* Postgres refuses a contract that is there.  An update sets the code of  *)
(* an existing contract in Postgres, makes a row of two columns in         *)
(* Cassandra if there is none, and replaces the row in RocksDB, which      *)
(* lists the contract once more.                                           *)
Differs(t, op, arg) ==
    CASE op = "store_contract" -> Has(t, arg.address)
      [] op = "update_contract_code" -> ~Has(t, arg.address) \/ [t[arg.address] EXCEPT !.code = arg.code] # arg
      [] op = "get_all_contract" -> Len(db.rock.contract_list) # Cardinality(DOMAIN t)
      [] OTHER -> FALSE
=============================================================================
