---------------------------- MODULE AccountStore ----------------------------
(***************************************************************************)
(* The table of accounts: one operation per method of the three drivers,   *)
(* and one action per method of AccountState, which makes the same call on *)
(* whichever driver the node was configured with.  All three are called    *)
(* here, each on its own table.                                            *)
(***************************************************************************)
EXTENDS Integers, Store

CONSTANTS Address, Balance, MaxNonce

Account == [address : Address, balance : Balance, nonce : 0 .. MaxNonce,
            account_type : {"System", "User"}]

new(a) == [address |-> a, balance |-> 0, nonce |-> 0, account_type |-> "User"]
new_system(a) == [new(a) EXCEPT !.account_type = "System"]

-----------------------------------------------------------------------------
\* account/src/state_pg.rs

pg_create(t, acc) == InsertOrIgnore(t, acc.address, acc)

pg_is_valid_account(t, a) == Done(t, Has(t, a))

pg_update(t, acc) ==
    IF Has(t, acc.address)
    THEN UpdateWhere(t, {acc.address}, [balance |-> acc.balance, nonce |-> acc.nonce])
    ELSE pg_create(t, acc)

pg_update_balance(t, acc) ==
    IF Has(t, acc.address)
    THEN UpdateWhere(t, {acc.address}, [balance |-> acc.balance])
    ELSE pg_create(t, acc)

pg_get_account(t, a) == IF Has(t, a) THEN Done(t, t[a]) ELSE Fail(t)

pg_get_nonce(t, a) == Done(t, IF Has(t, a) THEN t[a].nonce ELSE 0)

pg_get_balance(t, a) == IF Has(t, a) THEN Done(t, t[a].balance) ELSE Fail(t)

pg_increment_nonce(t, a) ==
    Then(pg_get_nonce(t, a), LAMBDA u, n : UpdateWhere(u, {a}, [nonce |-> n + 1]))

pg_raw_query(t) == Truncate(t)

-----------------------------------------------------------------------------
\* account/src/state_cas.rs

cas_create(t, acc) == Upsert(t, acc.address, acc)

cas_is_valid_account(t, a) == Done(t, Has(t, a))

cas_update(t, acc) ==
    IF Has(t, acc.address)
    THEN UpdateOrPartial(t, acc.address, DOMAIN acc,
                         [balance |-> acc.balance, nonce |-> acc.nonce])
    ELSE cas_create(t, acc)

cas_update_balance(t, acc) ==
    IF Has(t, acc.address)
    THEN UpdateOrPartial(t, acc.address, DOMAIN acc, [balance |-> acc.balance])
    ELSE cas_create(t, acc)

\* A read of an account that is not there creates it.
cas_get_account(t, a) ==
    LET u == IF Has(t, a) THEN t ELSE cas_create(t, new(a)).t IN Done(u, u[a])

cas_get_nonce(t, a) ==
    LET u == IF Has(t, a) THEN t ELSE cas_create(t, new(a)).t IN Done(u, u[a].nonce)

cas_get_balance(t, a) ==
    LET u == IF Has(t, a) THEN t ELSE cas_create(t, new(a)).t IN Done(u, u[a].balance)

cas_increment_nonce(t, a) ==
    Then(cas_get_nonce(t, a),
         LAMBDA u, n : UpdateOrPartial(u, a, DOMAIN u[a], [nonce |-> n + 1]))

cas_raw_query(t) == Truncate(t)

-----------------------------------------------------------------------------
\* account/src/state_rock.rs

rock_create(t, acc) == Upsert(t, acc.address, acc)

rock_update(t, acc) == Upsert(t, acc.address, acc)

rock_is_valid_account(t, a) == Done(t, Has(t, a))

rock_get_account(t, a) ==
    LET u == IF Has(t, a) THEN t ELSE rock_create(t, new(a)).t IN Done(u, u[a])

rock_update_balance(t, acc) ==
    Then(rock_get_account(t, acc.address),
         LAMBDA u, old : Upsert(u, acc.address, [old EXCEPT !.balance = acc.balance]))

rock_increment_nonce(t, a) ==
    Then(rock_get_account(t, a),
         LAMBDA u, old : Upsert(u, a, [old EXCEPT !.nonce = @ + 1]))

rock_get_nonce(t, a) ==
    Then(rock_get_account(t, a), LAMBDA u, acc : Done(u, acc.nonce))

rock_get_balance(t, a) ==
    Then(rock_get_account(t, a), LAMBDA u, acc : Done(u, acc.balance))

rock_raw_query(t) == Done(t, Unit)

-----------------------------------------------------------------------------
\* account/src/account_state.rs

create_account(b, t, acc) ==
    On(b, pg_create(t, acc), cas_create(t, acc), rock_create(t, acc))

update_account(b, t, acc) ==
    On(b, pg_update(t, acc), cas_update(t, acc), rock_update(t, acc))

update_balance(b, t, acc) ==
    On(b, pg_update_balance(t, acc), cas_update_balance(t, acc), rock_update_balance(t, acc))

increment_nonce(b, t, a) ==
    On(b, pg_increment_nonce(t, a), cas_increment_nonce(t, a), rock_increment_nonce(t, a))

get_account(b, t, a) ==
    On(b, pg_get_account(t, a), cas_get_account(t, a), rock_get_account(t, a))

get_nonce(b, t, a) ==
    On(b, pg_get_nonce(t, a), cas_get_nonce(t, a), rock_get_nonce(t, a))

get_balance(b, t, a) ==
    On(b, pg_get_balance(t, a), cas_get_balance(t, a), rock_get_balance(t, a))

is_valid_account(b, t, a) ==
    On(b, pg_is_valid_account(t, a), cas_is_valid_account(t, a), rock_is_valid_account(t, a))

raw_query(b, t) == On(b, pg_raw_query(t), cas_raw_query(t), rock_raw_query(t))

-----------------------------------------------------------------------------
\* account/src/account_manager.rs.  The manager works on its own copy of the
\* account, acc, which it does not read again.

transfer(b, t, acc, to, amount) ==
    IF acc.balance < amount THEN Fail(t)
    ELSE Then(update_balance(b, t, [acc EXCEPT !.balance = @ - amount]),
              LAMBDA u, x :
                  Then(IF Has(u, to) THEN get_account(b, u, to) ELSE Done(u, new(to)),
                       LAMBDA v, receiver :
                           update_balance(b, v, [receiver EXCEPT !.balance = @ + amount])))

mint(b, t, acc, amount) == update_balance(b, t, [acc EXCEPT !.balance = @ + amount])

-----------------------------------------------------------------------------
Init == Empty([b \in Backends |-> NoRows])

Next ==
    \/ \E acc \in Account :
        \/ Call("create_account", acc, [b \in Backends |-> create_account(b, db[b], acc)])
        \/ Call("update_account", acc, [b \in Backends |-> update_account(b, db[b], acc)])
        \/ Call("update_balance", acc, [b \in Backends |-> update_balance(b, db[b], acc)])
    \/ \E a \in Address :
        \/ /\ \A b \in Backends : Has(db[b], a) => db[b][a].nonce < MaxNonce
           /\ Call("increment_nonce", a, [b \in Backends |-> increment_nonce(b, db[b], a)])
        \/ Call("get_account", a, [b \in Backends |-> get_account(b, db[b], a)])
        \/ Call("get_nonce", a, [b \in Backends |-> get_nonce(b, db[b], a)])
        \/ Call("get_balance", a, [b \in Backends |-> get_balance(b, db[b], a)])
        \/ Call("is_valid_account", a, [b \in Backends |-> is_valid_account(b, db[b], a)])
    \/ \E a, to \in Address, amount \in Balance :
        /\ \A b \in Backends : Has(db[b], a)
        /\ \A b \in Backends : Has(db[b], to) => db[b][to].balance + amount \in Balance
        /\ Call("transfer", <<a, to, amount>>,
                [b \in Backends |-> transfer(b, db[b], db[b][a], to, amount)])
    \/ \E a \in Address, amount \in Balance :
        Call("mint", new(a), [b \in Backends |-> mint(b, db[b], new(a), amount)])
    \/ Call("raw_query", "TRUNCATE", [b \in Backends |-> raw_query(b, db[b])])

-----------------------------------------------------------------------------
Compared == Backends

Contents(b) == db[b]

(* The calls on table t for which the drivers differ.  Postgres keeps an   *)
(* account that is created again, does not create one that is only read,   *)
(* and RocksDB replaces the whole row where the others set two columns.    *)
Differs(t, op, arg) ==
    CASE op = "create_account" -> Has(t, arg.address) /\ t[arg.address] # arg
      [] op = "update_account" ->
            Has(t, arg.address) /\ t[arg.address].account_type # arg.account_type
      [] op = "update_balance" ->
            ~Has(t, arg.address) /\ (arg.nonce # 0 \/ arg.account_type # "User")
      [] op \in {"increment_nonce", "get_account", "get_nonce", "get_balance"} -> ~Has(t, arg)
      [] op = "raw_query" -> t # NoRows
      [] OTHER -> FALSE
=============================================================================
