----------------------------- MODULE Execution ------------------------------
(* How a node executes a block: every read goes through a cache, the changes *)
(* of a block are collected beside the database, those of a transaction in a *)
(* copy of them, and copies are merged back when the transaction succeeds.   *)
(* The database changes in one transaction at the end, in which the block is *)
(* also marked as executed. The node may stop, or the database may fail, at  *)
(* any moment before that.                                                   *)
EXTENDS Ledger

CONSTANTS
    ConfigKey, PrevConfigKey,  \* where the config contract keeps its configs
    ValidConfigs               \* the values RuntimeConfigCache::refresh accepts

ASSUME ExecutionAssumption == ConfigKey \in Keys /\ PrevConfigKey \in Keys

VARIABLES
    executing,       \* the number of the block being executed, or 0
    queue,           \* its transactions that are still to be executed
    block_updated_state,
    runtime_config   \* RuntimeConfigCache, or None

memory == <<executing, queue, block_updated_state, runtime_config>>
vars == <<ledgerVars, memory>>

-----------------------------------------------------------------------------
(* An UpdatedState. An entry of a slot is absent, was read from the database *)
(* or holds a new value, None when the row is deleted.                       *)
Absent == [tag |-> "absent", value |-> None]
Cached(v) == [tag |-> "cached", value |-> v]
Updated(v) == [tag |-> "updated", value |-> v]
NewState == [slots |-> [k \in Slots |-> Absent], metadata |-> <<>>, events |-> <<>>]

(* A read through the cache: the value, and the state after it. A missing    *)
(* row is remembered for the values of contracts only.                       *)
Inner(s, k) == IF s.slots[k] = Absent THEN table[k] ELSE s.slots[k].value
get(s, k) ==
    IF s.slots[k] = Absent /\ (table[k] # None \/ k \in {Value(x) : x \in Keys})
    THEN [s EXCEPT !.slots[k] = Cached(table[k])] ELSE s
update(s, k, v) == [s EXCEPT !.slots[k] = Updated(v)]

(* A merge that appends the lists instead of replacing them.                 *)
merge_appending(s, another) ==
    [slots |-> [k \in Slots |-> IF another.slots[k] = Absent THEN s.slots[k] ELSE another.slots[k]],
     metadata |-> s.metadata \o another.metadata,
     events |-> s.events \o another.events]

(* Every entry of the other state wins; the lists are replaced by its lists. *)
merge(s, another) ==
    [slots |-> [k \in Slots |-> IF another.slots[k] = Absent THEN s.slots[k] ELSE another.slots[k]],
     metadata |-> another.metadata,
     events |-> another.events]

(* An operation returns whether it succeeded, the state and the burnt gas.   *)
Ok(s) == [ok |-> TRUE, state |-> s, burnt |-> 0]
Err(s) == [ok |-> FALSE, state |-> s, burnt |-> 0]

increment_nonce(s, a) ==
    IF Inner(s, Account(a)) = None THEN Err(s)
    ELSE Ok(update(s, Account(a), [Inner(s, Account(a)) EXCEPT !.nonce = @ + 1]))

mint(s, amount, to) ==
    LET account == Inner(s, Account(to))
    IN IF account = None THEN Err(s)
       ELSE IF account.balance + amount > MaxBalance THEN Err(get(s, Account(to)))
       ELSE Ok(update(s, Account(to), [account EXCEPT !.balance = @ + amount]))

(* A transfer that credits the account as it was before the debit.           *)
transfer_without_self(s, from, to, amount) ==
    LET payer == Inner(s, Account(from))
        debited == [payer EXCEPT !.balance = @ - amount]
        read == get(get(s, Account(from)), Account(to))
        receiver == Inner(s, Account(to))
        known == IF receiver = None THEN update(read, Account(to), NewAccount) ELSE read
        credited == IF receiver = None THEN NewAccount ELSE receiver
    IN IF payer = None THEN Err(s)
       ELSE IF payer.balance < amount THEN Err(get(s, Account(from)))
       ELSE IF credited.balance + amount > MaxBalance THEN Err(known)
       ELSE Ok(update(update(known, Account(from), debited),
                      Account(to), [credited EXCEPT !.balance = @ + amount]))

(* A missing receiver is created before the balance is checked.              *)
transfer(s, from, to, amount) ==
    LET payer == Inner(s, Account(from))
        debited == [payer EXCEPT !.balance = @ - amount]
        read == get(get(s, Account(from)), Account(to))
        receiver == Inner(s, Account(to))
        known == IF receiver = None THEN update(read, Account(to), NewAccount) ELSE read
        credited == IF receiver = None THEN NewAccount
                    ELSE IF from = to THEN debited ELSE receiver
    IN IF payer = None THEN Err(s)
       ELSE IF payer.balance < amount THEN Err(get(s, Account(from)))
       ELSE IF credited.balance + amount > MaxBalance THEN Err(known)
       ELSE Ok(update(update(known, Account(from), debited),
                      Account(to), [credited EXCEPT !.balance = @ + amount]))

execute_native_token_transfer(s, from, to, amount) ==
    IF from = to /\ from = MintMaster THEN mint(s, amount, to) ELSE transfer(s, from, to, amount)

create_system_account(s, a) ==
    IF Inner(s, Account(a)) # None THEN Err(get(s, Account(a)))
    ELSE Ok(update(s, Account(a), NewAccount))

create_pool(s, tx, number) ==
    LET address == Derived[tx.sender][Inner(s, Account(tx.sender)).nonce]
        created == create_system_account(s, address)
    IN IF ~created.ok THEN created
       ELSE Ok(update(created.state, Pool(address), [tx.pool EXCEPT !.updated = number]))

get_staked(s, p, a) == IF Inner(s, Stake(p, a)) = None THEN 0 ELSE Inner(s, Stake(p, a))

(* The stake and the block number of the pool, as both operations leave them. *)
SetStake(s, tx, staked, number) ==
    update(update(s, Stake(tx.to, tx.sender), staked),
           Pool(tx.to), [Inner(s, Pool(tx.to)) EXCEPT !.updated = number])

(* A limit that a pool does not have is 0 or MaxBalance.                     *)
stake(s, tx, number) ==
    LET pool == Inner(s, Pool(tx.to))
        balance == Inner(s, Account(tx.to)).balance
        paid == transfer(get(s, Pool(tx.to)), tx.sender, tx.to, tx.amount)
        staked == get_staked(s, tx.to, tx.sender) + tx.amount
    IN IF pool = None THEN Err(s)
       ELSE IF \/ pool.min_stake > tx.amount \/ pool.max_stake < tx.amount
               \/ Max({pool.max_pool_balance - tx.amount, 0}) < balance
       THEN Err(get(s, Pool(tx.to)))
       ELSE IF ~paid.ok \/ staked > MaxBalance THEN Err(paid.state)
       ELSE Ok(SetStake(paid.state, tx, staked, number))

(* An unstake that pays the whole stake back but only deducts the amount.    *)
un_stake_keeping_rest(s, tx, number) ==
    LET staked == get_staked(s, tx.to, tx.sender)
        rest == staked - tx.amount
        all == rest > 0 /\ rest < Inner(s, Pool(tx.to)).min_stake
    IN IF Inner(s, Pool(tx.to)) = None \/ staked = 0 \/ rest < 0 THEN Err(s)
       ELSE transfer(SetStake(s, tx, rest, number), tx.to, tx.sender,
                     IF all THEN staked ELSE tx.amount)

(* Everything is paid back when less than the minimum stake would remain.    *)
un_stake(s, tx, number) ==
    LET pool == Inner(s, Pool(tx.to))
        staked == get_staked(s, tx.to, tx.sender)
        rest == staked - tx.amount
        all == rest > 0 /\ rest < pool.min_stake
        read == get(get(s, Pool(tx.to)), Stake(tx.to, tx.sender))
    IN IF pool = None \/ Inner(s, Stake(tx.to, tx.sender)) = None \/ rest < 0 THEN Err(read)
       ELSE transfer(SetStake(read, tx, IF all THEN 0 ELSE rest, number), tx.to, tx.sender,
                     IF all THEN staked ELSE tx.amount)

update_contract(s, tx, number) ==
    LET pool == Inner(s, Pool(tx.to))
    IN IF pool = None THEN Err(s)
       ELSE Ok(update(s, Pool(tx.to), [pool EXCEPT !.contract = tx.contract, !.updated = number]))

-----------------------------------------------------------------------------
(* Contracts. A program is a sequence of host calls; what it computes, the   *)
(* gas it burns and whether it returns are given with the transaction.       *)
HostCall(r, op) ==
    IF ~r.ok THEN r
    ELSE CASE op.op = "store" -> Ok(update(r.state, Value(op.key), op.value))
           [] op.op = "delete" -> Ok(update(r.state, Value(op.key), None))
           [] op.op = "load" -> Ok(get(r.state, Value(op.key)))
           [] op.op = "transfer" -> transfer(r.state, op.from, op.to, op.amount)

(* The program works on a copy, which is merged when it returns; an event is *)
(* added after that. A program that does not return burns no gas.            *)
execute_contract_function_call(s, tx, gas_limit) ==
    LET ran == FoldLeft(HostCall, Ok(s), tx.ops)
    IN IF ~tx.returns \/ tx.gas > gas_limit \/ ~ran.ok THEN Err(s)
       ELSE [Ok([merge(s, ran.state) EXCEPT !.events = Append(@, tx.hash)])
               EXCEPT !.burnt = tx.gas]

execute_contract_deployment(s, tx) ==
    LET address == Derived[tx.sender][Inner(s, Account(tx.sender)).nonce]
        created == create_system_account(s, address)
    IN IF ~created.ok THEN created
       ELSE Ok([update(created.state, Contract(address), tx.sender)
                  EXCEPT !.events = Append(@, tx.hash)])

execute_contract_init(s, tx, gas_limit) ==
    LET address == Derived[tx.sender][Inner(s, Account(tx.sender)).nonce]
        created == create_system_account(s, address)
    IN IF ~created.ok THEN created
       ELSE execute_contract_function_call(update(created.state, Instance(address), tx.to),
                                           tx, gas_limit)

-----------------------------------------------------------------------------
(* One transaction: the result of its operation and the fee it owes.         *)
Operation(s, tx, number, gas_limit) ==
    CASE tx.kind = "transfer" -> execute_native_token_transfer(s, tx.sender, tx.to, tx.amount)
      [] tx.kind = "deploy" -> execute_contract_deployment(s, tx)
      [] tx.kind = "init" -> execute_contract_init(s, tx, gas_limit)
      [] tx.kind = "call" ->
           IF Inner(s, Instance(tx.to)) = None
           THEN execute_native_token_transfer(s, tx.sender, tx.to, tx.amount)
           ELSE execute_contract_function_call(get(s, Instance(tx.to)), tx, gas_limit)
      [] tx.kind = "create_pool" -> create_pool(s, tx, number)
      [] tx.kind = "stake" -> stake(s, tx, number)
      [] tx.kind = "un_stake" -> un_stake(s, tx, number)
      [] tx.kind = "pool_contract" -> update_contract(s, tx, number)

execute_transaction(s, tx, number) ==
    LET sized == update_fee(new_manager(tx.fee_limit), transaction_size_fee(tx))
        typed == update_fee(sized, type_fee)
        done == Operation(s, tx, number, buy_gas(typed.left))
        paid == update_gas_and_fee_used(typed, done.burnt)
        result(ok, manager) == [ok |-> ok, state |-> done.state,
                                fee |-> get_fee_used(tx.fee_limit, manager)]
        early(manager) == [ok |-> FALSE, state |-> s, fee |-> get_fee_used(tx.fee_limit, manager)]
    IN IF ~sized.ok THEN early(sized)
       ELSE IF tx.kind = "init" /\ Inner(s, Contract(tx.to)) = None THEN early(sized)
       ELSE IF ~typed.ok THEN early(typed)
       ELSE result(done.ok /\ paid.ok, paid)

-----------------------------------------------------------------------------
(* The body of the loop over the transactions of a block, b being the state  *)
(* of the block. A step that fails goes on to the next transaction with what *)
(* has been merged into b by then.                                           *)
store_transaction_metadata(b, tx, fee, ok) ==
    [b EXCEPT !.metadata = Append(@, [tx |-> tx.hash, fee |-> fee, is_successful |-> ok])]

(* The transaction failed: its state is dropped, the rest is refunded in b.  *)
RefundFailed(b, tx, fee) ==
    LET refunded == transfer(b, FeeRecipient, tx.sender, tx.fee_limit - fee)
    IN IF refunded.ok THEN store_transaction_metadata(refunded.state, tx, fee, FALSE)
                      ELSE refunded.state

(* The transaction succeeded: merged into b, refunded, and merged again.     *)
RefundSucceeded(b, t, tx, fee) ==
    LET merged == merge(b, t)
        refunded == transfer(t, FeeRecipient, tx.sender, tx.fee_limit - fee)
    IN IF refunded.ok
       THEN store_transaction_metadata(merge(merged, refunded.state), tx, fee, TRUE)
       ELSE merged

ExecutePaid(b, tx, number) ==
    LET counted == increment_nonce(b, tx.sender)
        locked == transfer(counted.state, tx.sender, FeeRecipient, tx.fee_limit)
        saved == merge(b, locked.state)
        done == execute_transaction(locked.state, tx, number)
    IN IF ~counted.ok \/ ~locked.ok THEN b
       ELSE IF done.ok THEN RefundSucceeded(saved, done.state, tx, done.fee)
       ELSE RefundFailed(saved, tx, done.fee)

ExecuteFree(b, tx, number) ==
    LET counted == increment_nonce(b, tx.sender)
        saved == merge(b, counted.state)
        done == execute_transaction(counted.state, tx, number)
    IN IF ~counted.ok THEN b
       ELSE store_transaction_metadata(IF done.ok THEN merge(saved, done.state) ELSE saved,
                                       tx, 0, done.ok)

(* RuntimeConfigCache after a block: an invalid config leaves the one in use, *)
(* or, when there is none yet, the previous config of the contract applies.   *)
refresh(s) ==
    LET config == Inner(s, Value(ConfigKey))
        previous == Inner(s, Value(PrevConfigKey))
        apply(c) == [ok |-> TRUE, config |-> c]
    IN IF config \in ValidConfigs THEN apply(config)
       ELSE IF runtime_config # None THEN apply(runtime_config)
       ELSE IF previous \in ValidConfigs THEN apply(previous)
       ELSE [ok |-> FALSE, config |-> None]

(* The call that reads the config may fail: readable is whether it does not. *)
apply_system_contracts_changes(s, readable) ==
    IF \A k \in {ConfigKey, PrevConfigKey} : s.slots[Value(k)].tag # "updated"
    THEN [ok |-> TRUE, config |-> runtime_config]
    ELSE IF readable THEN refresh(s)
    ELSE [ok |-> FALSE, config |-> runtime_config]

-----------------------------------------------------------------------------
Init ==
    /\ LedgerInit
    /\ executing = 0 /\ queue = <<>> /\ block_updated_state = NewState
    /\ runtime_config = IF table[Value(ConfigKey)] \in ValidConfigs
                        THEN table[Value(ConfigKey)] ELSE None

is_block_executed(n) == n <= executed

Idle == executing' = 0 /\ queue' = <<>> /\ block_updated_state' = NewState

(* Blocks are handed over in order; one that was executed before, by this    *)
(* node or before a restart, is left alone.                                  *)
execute_block(n) ==
    /\ executing = 0
    /\ n \in 1..Len(chain) /\ n <= executed + 1
    /\ ~is_block_executed(n)
    /\ executing' = n
    /\ queue' = SortedByNonce(chain[n].txs)
    /\ block_updated_state' = NewState
    /\ UNCHANGED <<ledgerVars, runtime_config>>

ExecuteTransaction ==
    /\ executing # 0 /\ queue # <<>>
    /\ block_updated_state' =
         IF chain[executing].kind = "system"
         THEN ExecuteFree(block_updated_state, Head(queue), executing)
         ELSE ExecutePaid(block_updated_state, Head(queue), executing)
    /\ queue' = Tail(queue)
    /\ UNCHANGED <<ledgerVars, executing, runtime_config>>

(* What commit writes to a row: of a pool that exists only two columns.      *)
CommittedRow(k, entry) ==
    IF entry.tag # "updated" THEN table[k]
    ELSE IF k \in {Pool(a) : a \in Addresses} /\ table[k] # None
    THEN [table[k] EXCEPT !.updated = entry.value.updated,
                          !.contract = IF entry.value.contract = None THEN @ ELSE entry.value.contract]
    ELSE entry.value

commit(s) ==
    /\ table' = [k \in Slots |-> CommittedRow(k, s.slots[k])]
    /\ rows' = [metadata |-> rows.metadata \cup Range(s.metadata),
                events |-> rows.events \o s.events]

MayCommit(refreshed) == chain[executing].kind = "system" => refreshed.ok

CommitBlock(readable) ==
    LET refreshed == apply_system_contracts_changes(block_updated_state, readable)
    IN /\ executing # 0 /\ queue = <<>>
       /\ MayCommit(refreshed)
       /\ commit(block_updated_state)
       /\ executed' = Max({executed, executing})
       /\ runtime_config' = refreshed.config
       /\ Idle /\ UNCHANGED chain

(* The config of a system block could not be applied, or the database failed *)
(* in the commit: nothing of the block is kept but what is in the cache.     *)
RollBack(readable) ==
    LET refreshed == apply_system_contracts_changes(block_updated_state, readable)
    IN /\ executing # 0 /\ queue = <<>>
       /\ runtime_config' = refreshed.config
       /\ Idle /\ UNCHANGED ledgerVars

(* The node stops at any moment and reads its config from the database when  *)
(* it starts again.                                                          *)
Restart ==
    /\ runtime_config' = LET config == table[Value(ConfigKey)]
                             previous == table[Value(PrevConfigKey)]
                         IN IF config \in ValidConfigs THEN config
                            ELSE IF previous \in ValidConfigs THEN previous ELSE None
    /\ Idle /\ UNCHANGED ledgerVars

Next ==
    \/ executing = 0 /\ StoreBlock /\ UNCHANGED memory
    \/ \E n \in 1..MaxBlocks : execute_block(n)
    \/ ExecuteTransaction
    \/ \E readable \in BOOLEAN : CommitBlock(readable) \/ RollBack(readable)
    \/ Restart

Spec == Init /\ [][Next]_vars

-----------------------------------------------------------------------------
Accounts == [balance : 0..MaxBalance, nonce : 0..MaxNonce] \cup {None}

(* Executing a block through caches, copies and merges does to the database  *)
(* what applying its transactions one by one does, once, in one step, also   *)
(* when the node stops in between or is given a block twice.                 *)
ImplementsLedger == LedgerSpec

=============================================================================
