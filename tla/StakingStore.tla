---------------------------- MODULE StakingStore ----------------------------
(***************************************************************************)
(* Staking pools, the stakes of accounts, the staking manager that the     *)
(* initial state of a chain is built with, and the validation of stakes.   *)
(* An optional value is a set with at most one element.  RocksDB has no    *)
(* staking: every method of its driver is todo!().                         *)
(***************************************************************************)
EXTENDS Integers, FiniteSets, Functions, Store

CONSTANTS Pool, User, Owner, Limits, MaxBlock, MaxBalance

A == INSTANCE AccountStore
        WITH Address <- Pool \cup User, Balance <- 0 .. MaxBalance, MaxNonce <- 0

\* min_pool_balance and staking_period are treated like the other limits.
StakingPool == [owner : {Owner}, contract : {{}}, created : {0}, updated : {0},
                min_stake : Limits, max_stake : Limits, max_pool_balance : Limits]

NoStaking == [pool |-> NoRows, stake |-> NoRows, account |-> NoRows]

InPool(t, out) == [out EXCEPT !.t = [t EXCEPT !.pool = out.t]]
InStake(t, out) == [out EXCEPT !.t = [t EXCEPT !.stake = out.t]]
InAccount(t, out) == [out EXCEPT !.t = [t EXCEPT !.account = out.t]]

-----------------------------------------------------------------------------
\* staking/src/state_pg.rs.  An absent limit is stored as zero, and read back
\* as the limit zero; the contract is not read back.

OrZero(limit) == IF limit = {} THEN {0} ELSE limit

pg_create(t, p, pool) ==
    InPool(t, Insert(t.pool, p, [pool EXCEPT !.min_stake = OrZero(@), !.max_stake = OrZero(@),
                                             !.max_pool_balance = OrZero(@)]))

pg_raw_query(t) == Done(NoStaking, Unit)

pg_is_staking_account_exists(t, a, p) == Done(t, Has(t.stake, <<p, a>>))

pg_is_staking_pool_exists(t, p) == Done(t, Has(t.pool, p))

pg_update_staking_pool_block_number(t, p, n) ==
    InPool(t, UpdateWhere(t.pool, {p}, [updated |-> n]))

pg_update_contract(t, c, p, n) ==
    InPool(t, UpdateWhere(t.pool, {p}, [updated |-> n, contract |-> {c}]))

pg_get_staking_pool(t, p) ==
    IF Has(t.pool, p) THEN Done(t, [t.pool[p] EXCEPT !.contract = {}]) ELSE Fail(t)

pg_insert_staking_account(t, a, p, v) == InStake(t, Insert(t.stake, <<p, a>>, [balance |-> v]))

pg_update_staking_account(t, a, p, v) ==
    InStake(t, UpdateWhere(t.stake, {<<p, a>>}, [balance |-> v]))

pg_get_staking_account(t, a, p) ==
    IF Has(t.stake, <<p, a>>) THEN Done(t, t.stake[<<p, a>>].balance) ELSE Fail(t)

pg_get_all_pool_stakers(t, p) ==
    Done(t, {<<k, t.stake[k].balance>> : k \in {k \in DOMAIN t.stake : k[1] = p}})

-----------------------------------------------------------------------------
\* staking/src/state_cas.rs.  create stores an Option, which a read needs in
\* every column; update_contract stores the bare address.

Bare(c) == {"bare", c}

PoolColumns == {"owner", "contract", "created", "updated", "min_stake", "max_stake",
                "max_pool_balance"}

cas_create(t, p, pool) == InPool(t, Upsert(t.pool, p, pool))

cas_raw_query(t) == Done(NoStaking, Unit)

cas_update_staking_pool_block_number(t, p, n) ==
    InPool(t, UpdateOrPartial(t.pool, p, PoolColumns, [updated |-> n]))

cas_update_contract(t, c, p, n) ==
    InPool(t, UpdateOrPartial(t.pool, p, PoolColumns, [contract |-> Bare(c), updated |-> n]))

cas_is_staking_pool_exists(t, p) == Done(t, Has(t.pool, p))

cas_get_staking_pool(t, p) ==
    IF /\ Has(t.pool, p)
       /\ \A c \in PoolColumns : t.pool[p][c] # NULL
       /\ \A c \in User : t.pool[p].contract # Bare(c)
    THEN Done(t, t.pool[p])
    ELSE Fail(t)

cas_is_staking_account_exists(t, a, p) == Done(t, Has(t.stake, <<p, a>>))

cas_insert_staking_account(t, a, p, v) == InStake(t, Upsert(t.stake, <<p, a>>, [balance |-> v]))

cas_update_staking_account(t, a, p, v) == InStake(t, Upsert(t.stake, <<p, a>>, [balance |-> v]))

cas_get_staking_account(t, a, p) ==
    IF Has(t.stake, <<p, a>>) THEN Done(t, t.stake[<<p, a>>].balance) ELSE Fail(t)

cas_get_all_pool_stakers(t, p) ==
    Done(t, {<<k, t.stake[k].balance>> : k \in {k \in DOMAIN t.stake : k[1] = p}})

-----------------------------------------------------------------------------
\* staking/src/state_rock.rs

rock_create(t, p, pool) == Todo(t)
rock_raw_query(t) == Done(NoStaking, Unit)
rock_is_staking_account_exists(t, a, p) == Todo(t)
rock_is_staking_pool_exists(t, p) == Todo(t)
rock_update_staking_pool_block_number(t, p, n) == Todo(t)
rock_update_contract(t, c, p, n) == Todo(t)
rock_get_staking_pool(t, p) == Todo(t)
rock_insert_staking_account(t, a, p, v) == Todo(t)
rock_update_staking_account(t, a, p, v) == Todo(t)
rock_get_staking_account(t, a, p) == Todo(t)
rock_get_all_pool_stakers(t, p) == Todo(t)

-----------------------------------------------------------------------------
\* staking/src/staking_state.rs

insert_staking_pool(b, t, p, pool) ==
    On(b, pg_create(t, p, pool), cas_create(t, p, pool), rock_create(t, p, pool))
raw_query(b, t) == On(b, pg_raw_query(t), cas_raw_query(t), rock_raw_query(t))
update_staking_pool_block_number(b, t, p, n) ==
    On(b, pg_update_staking_pool_block_number(t, p, n),
          cas_update_staking_pool_block_number(t, p, n),
          rock_update_staking_pool_block_number(t, p, n))
update_contract(b, t, c, p, n) ==
    On(b, pg_update_contract(t, c, p, n), cas_update_contract(t, c, p, n),
          rock_update_contract(t, c, p, n))
is_staking_pool_exists(b, t, p) ==
    On(b, pg_is_staking_pool_exists(t, p), cas_is_staking_pool_exists(t, p),
          rock_is_staking_pool_exists(t, p))
get_staking_pool(b, t, p) ==
    On(b, pg_get_staking_pool(t, p), cas_get_staking_pool(t, p), rock_get_staking_pool(t, p))
is_staking_account_exists(b, t, a, p) ==
    On(b, pg_is_staking_account_exists(t, a, p), cas_is_staking_account_exists(t, a, p),
          rock_is_staking_account_exists(t, a, p))
insert_staking_account(b, t, a, p, v) ==
    On(b, pg_insert_staking_account(t, a, p, v), cas_insert_staking_account(t, a, p, v),
          rock_insert_staking_account(t, a, p, v))
update_staking_account(b, t, a, p, v) ==
    On(b, pg_update_staking_account(t, a, p, v), cas_update_staking_account(t, a, p, v),
          rock_update_staking_account(t, a, p, v))
get_staking_account(b, t, a, p) ==
    On(b, pg_get_staking_account(t, a, p), cas_get_staking_account(t, a, p),
          rock_get_staking_account(t, a, p))
get_all_pool_stakers(b, t, p) ==
    On(b, pg_get_all_pool_stakers(t, p), cas_get_all_pool_stakers(t, p),
          rock_get_all_pool_stakers(t, p))

-----------------------------------------------------------------------------
\* staking_manager/src/staking_manager.rs.  Its writes are not in one
\* transaction: those before the call that fails stay.

create_pool_account(b, t, p) == InAccount(t, A!create_account(b, t.account, A!new_system(p)))

create_pool(b, t, p, pool) ==
    Then(insert_staking_pool(b, t, p, pool), LAMBDA u, x : create_pool_account(b, u, p))

transfer_token(b, t, from, to, amount) ==
    InAccount(t, Then(A!get_account(b, t.account, from),
                      LAMBDA u, acc : A!transfer(b, u, acc, to, amount)))

stake(b, t, a, p, n, amount) ==
    Then(get_staking_pool(b, t, p),
         LAMBDA t1, pool :
             Then(transfer_token(b, t1, a, p, amount),
                  LAMBDA t2, x :
                      Then(IF Has(t2.stake, <<p, a>>)
                           THEN update_staking_account(b, t2, a, p, t2.stake[<<p, a>>].balance + amount)
                           ELSE insert_staking_account(b, t2, a, p, amount),
                           LAMBDA t3, y : update_staking_pool_block_number(b, t3, p, n))))

un_stake(b, t, a, p, n, amount) ==
    Then(get_staking_pool(b, t, p),
         LAMBDA t1, pool :
             LET read == A!get_balance(b, t1.account, p)
                 t2 == InAccount(t1, read).t
             IN IF ~IsOk(read.r) \/ Value(read.r) < amount THEN Fail(t2)
                ELSE Then(get_staking_account(b, t2, a, p),
                          LAMBDA t3, staked :
                              IF staked <= amount THEN Fail(t3)
                              ELSE Then(update_staking_pool_block_number(b, t3, p, n),
                                        LAMBDA t4, x :
                                            Then(update_staking_account(b, t4, a, p, staked - amount),
                                                 LAMBDA t5, y : transfer_token(b, t5, p, a, amount)))))

\* validate/src/validate_staking.rs
Exceeds(v, limit) == \E m \in limit : v > m

validate_stake(b, t, a, p, amount) ==
    Then(get_staking_pool(b, t, p),
         LAMBDA t1, pool :
             IF (\E m \in pool.min_stake : amount < m) \/ Exceeds(amount, pool.max_stake) THEN Fail(t1)
             ELSE Then(IF pool.max_pool_balance = {} THEN Done(t1, 0)
                       ELSE InAccount(t1, A!get_balance(b, t1.account, p)),
                       LAMBDA t2, held :
                           IF Exceeds(held + amount, pool.max_pool_balance) THEN Fail(t2)
                           ELSE Then(InAccount(t2, A!get_balance(b, t2.account, a)),
                                     LAMBDA t3, own : IF own <= amount THEN Fail(t3) ELSE Done(t3, Unit))))

validate_unstake(b, t, a, p, amount) ==
    Then(get_staking_pool(b, t, p),
         LAMBDA t1, pool :
             Then(get_staking_account(b, t1, a, p),
                  LAMBDA t2, staked : IF staked < amount THEN Fail(t2) ELSE Done(t2, Unit)))

-----------------------------------------------------------------------------
Init == Empty([b \in Backends |-> NoStaking])

\* Calls on the tables.
Next ==
    \/ \E p \in Pool :
        \/ \E pool \in StakingPool : Call("insert_staking_pool", <<p, pool>>,
                [b \in Backends |-> insert_staking_pool(b, db[b], p, pool)])
        \/ \E n \in 1 .. MaxBlock : Call("update_staking_pool_block_number", p,
                [b \in Backends |-> update_staking_pool_block_number(b, db[b], p, n)])
        \/ \E c \in User, n \in 1 .. MaxBlock : Call("update_contract", p,
                [b \in Backends |-> update_contract(b, db[b], c, p, n)])
        \/ Call("is_staking_pool_exists", p, [b \in Backends |-> is_staking_pool_exists(b, db[b], p)])
        \/ Call("get_staking_pool", p, [b \in Backends |-> get_staking_pool(b, db[b], p)])
        \/ Call("get_all_pool_stakers", p, [b \in Backends |-> get_all_pool_stakers(b, db[b], p)])
    \/ \E a \in User, p \in Pool :
        \/ Call("is_staking_account_exists", <<p, a>>,
                [b \in Backends |-> is_staking_account_exists(b, db[b], a, p)])
        \/ \E v \in 0 .. MaxBalance :
            \/ Call("insert_staking_account", <<p, a>>,
                    [b \in Backends |-> insert_staking_account(b, db[b], a, p, v)])
            \/ Call("update_staking_account", <<p, a>>,
                    [b \in Backends |-> update_staking_account(b, db[b], a, p, v)])
        \/ Call("get_staking_account", <<p, a>>,
                [b \in Backends |-> get_staking_account(b, db[b], a, p)])
    \/ Call("raw_query", Unit, [b \in Backends |-> raw_query(b, db[b])])

\* The initial state of a chain: accounts with a balance, then pools and stakes.
ManagerInit ==
    Empty([b \in Backends |-> [NoStaking EXCEPT !.account =
              [a \in User |-> [A!new(a) EXCEPT !.balance = MaxBalance]]]])

ManagerNext ==
    \/ \E p \in Pool, pool \in StakingPool :
        Call("create_pool", <<p, pool>>, [b \in Backends |-> create_pool(b, db[b], p, pool)])
    \/ \E a \in User, p \in Pool, amount \in 1 .. MaxBalance :
        \/ Call("stake", <<a, p, amount>>, [b \in Backends |-> stake(b, db[b], a, p, 1, amount)])
        \/ Call("un_stake", <<a, p, amount>>, [b \in Backends |-> un_stake(b, db[b], a, p, 1, amount)])

-----------------------------------------------------------------------------
\* RocksDB answers nothing but raw_query.
Compared == {"pg", "cas"}

Contents(b) == db[b]

(* The calls for which Postgres and Cassandra differ.  Postgres forgets    *)
(* that a pool has no limit, refuses rows that are there and updates only  *)
(* those that are; Cassandra cannot read a pool back once its contract was *)
(* updated.                                                                *)
Differs(t, op, arg) ==
    CASE op = "insert_staking_pool" ->
            \/ Has(t.pool, arg[1])
            \/ {} \in {arg[2].min_stake, arg[2].max_stake, arg[2].max_pool_balance}
      [] op = "update_staking_pool_block_number" -> ~Has(t.pool, arg)
      [] op = "update_contract" -> TRUE
      [] op = "insert_staking_account" -> Has(t.stake, arg)
      [] op = "update_staking_account" -> ~Has(t.stake, arg)
      [] OTHER -> FALSE

\* What is staked in p, and what the pool holds, in table t.
Staked(t, p) ==
    LET keys == {k \in DOMAIN t.stake : k[1] = p}
    IN FoldFunctionOnSet(+, 0, [k \in keys |-> t.stake[k].balance], keys)

(* The account of a pool holds at least what was staked in it, and a stake *)
(* or an unstake of less than everything that validation accepts is then   *)
(* carried out (staking_manager.rs, validate_staking.rs).  With Cassandra  *)
(* a pool that is created again loses its balance.                         *)
ValidStakingSucceeds ==
    LET t == db.pg IN
    \A p \in Pool :
        /\ Has(t.pool, p) => Has(t.account, p) /\ t.account[p].balance >= Staked(t, p)
        /\ \A a \in User, amount \in 1 .. MaxBalance :
            /\ IsOk(validate_stake("pg", t, a, p, amount).r) => IsOk(stake("pg", t, a, p, 1, amount).r)
            /\ /\ IsOk(validate_unstake("pg", t, a, p, amount).r)
               /\ amount < t.stake[<<p, a>>].balance
               => IsOk(un_stake("pg", t, a, p, 1, amount).r)

(* A stake conserves what accounts hold, even if a later write fails.      *)
HoldingsConserved ==
    FoldFunction(+, 0, [x \in DOMAIN db.pg.account |-> db.pg.account[x].balance])
        = MaxBalance * Cardinality(User)
=============================================================================
