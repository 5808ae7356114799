------------------------------ MODULE Proposal ------------------------------
(***************************************************************************)
(* What gets into a block and who accepts it: a transaction is validated   *)
(* when it enters the mempool (mempool/src/mempool.rs), the proposer       *)
(* chooses from the mempool and adds the rewards of the voters of the last *)
(* block, and every node validates the whole block again (validate/src)    *)
(* before it votes.  The nodes have one table, the one after the last      *)
(* block.  Limits, replacement and expiry of the pool are in Mempool, the  *)
(* way to a vote result is in Finalization, what a transaction does is in  *)
(* Ledger; here a transaction pays its whole fee limit and a program       *)
(* succeeds or not.                                                        *)
(***************************************************************************)
EXTENDS Integers, FiniteSets, FiniteSetsExt, Sequences, SequencesExt, TLC

CONSTANTS
    Users, Wallets, Distributor, MintMaster,   \* accounts; SYSTEM_REWARDS_DISTRIBUTOR
    Transactions,       \* what users may send: [from, nonce, type, to, amount, fee, ...]
    Voters, Org,        \* nodes, those of the organisation (rt_config.org_nodes)
    Proposer,
    Reward, RewardFee,  \* validated_block_reward, fee of a token transfer
    MinStake, MaxStake, MaxPool,
    Tables,             \* tables to begin with
    MaxBlocks,          \* bound
    MaxFaults,          \* bound: restarts and vote results that differ
    None

VARIABLES
    table,      \* accounts, stakes, contracts and the caches of deny list and staking
    pool,       \* transactions in the mempool of the node that proposes next
    block,      \* transactions of the pending block, or None
    votes,      \* per node: the voters in its vote_result row of the last block
    executed,   \* number of blocks
    faults

vars == <<table, pool, block, votes, executed, faults>>

Accounts == Users \cup Wallets \cup {Distributor}
PoolStaked(t) == SumFunction(t.staked)
MinVotes == (3 * Cardinality(Voters) + 4) \div 5

-----------------------------------------------------------------------------
(* Validation of a transaction.                                             *)
is_mint(tx) == tx.type = "transfer" /\ tx.from = tx.to /\ tx.from = MintMaster

\* A denied sender may still send to an allowed receiver; without an allow list
\* every receiver is one.
is_transfer_allowed(t, from, to) ==
    LET allowed == t.deny.allowed = {} \/ to \in t.deny.allowed
    IN  ~ (to \in t.deny.receivers \/ (from \in t.deny.senders /\ ~ allowed))

validate_common(t, tx) ==
    tx.nonce = t.nonce[tx.from] + 1 /\ t.balance[tx.from] >= tx.amount + tx.fee

validate_native_token(t, tx) ==
    /\ tx.nonce > t.nonce[tx.from]
    /\ tx.amount > 0
    /\ is_mint(tx) \/ t.balance[tx.from] >= tx.amount + tx.fee

validate_contract(t, tx) ==
    /\ tx.machine # "XTALK"
    /\ validate_common(t, tx)
    /\ CASE tx.type = "deploy" -> tx.machine = "EVM" \/ tx.verified
         [] tx.type = "init" -> /\ tx.machine = "L1XVM"
                                /\ tx.to \in DOMAIN t.code
                                /\ t.code[tx.to] \in {"public", tx.from}
         [] tx.type = "call" -> \/ tx.to \in t.instances
                                \/ tx.machine = "EVM" /\ tx.args = << >> /\ tx.amount > 0

validate_stake(t, tx) ==
    /\ tx.amount \in MinStake .. MaxStake
    /\ PoolStaked(t) + tx.amount <= MaxPool
    /\ t.balance[tx.from] > tx.amount

validate_unstake(t, tx) == t.staked[tx.from] >= tx.amount

validate_tx(t, tx) ==
    CASE tx.type = "transfer" ->
             is_transfer_allowed(t, tx.from, tx.to) /\ validate_native_token(t, tx)
      [] tx.type \in {"deploy", "init", "call"} -> validate_contract(t, tx)
      [] tx.type = "stake" -> validate_stake(t, tx)
      [] tx.type = "unstake" -> validate_unstake(t, tx)
      [] OTHER -> TRUE   \* CreateStakingPool and StakingPoolContract

-----------------------------------------------------------------------------
(* The block of the proposer.  From a sender it takes transactions with     *)
(* consecutive nonces as long as the balance covers them; of what they move *)
(* only the amount of a transfer counts.                                    *)
Cost(tx) == tx.fee + (IF tx.type = "transfer" THEN tx.amount ELSE 0)
UpTo(txs, t, tx) ==
    {u \in txs : u.from = tx.from /\ u.nonce \in t.nonce[tx.from] + 1 .. tx.nonce}
CostOf(txs) == MapThenSumSet(Cost, txs)

build_with_any_nonce(t, txs) ==
    {tx \in txs : CostOf(UpTo(txs, t, tx)) <= t.balance[tx.from]}
build_with_each_alone(t, txs) ==
    {tx \in txs : /\ tx.nonce > t.nonce[tx.from]
                  /\ Cardinality(UpTo(txs, t, tx)) = tx.nonce - t.nonce[tx.from]
                  /\ Cost(tx) <= t.balance[tx.from]}
build_new_block_transactions_list(t, txs) ==
    {tx \in txs : /\ tx.nonce > t.nonce[tx.from]
                  /\ Cardinality(UpTo(txs, t, tx)) = tx.nonce - t.nonce[tx.from]
                  /\ CostOf(UpTo(txs, t, tx)) <= t.balance[tx.from]}

RewardTx(n, wallet) ==
    [from |-> Distributor, nonce |-> n, type |-> "transfer", to |-> wallet,
     amount |-> Reward, fee |-> RewardFee]

\* The balance of the distributor covers a number of rewards.
funds(t, count) == t.balance[Distributor] >= count * (Reward + RewardFee)

\* A reward for every voter that has a pool, but for those of the organisation.
build_rewards_for_all(t, voters) ==
    LET paid == SetToSeq({v \in voters : v \in DOMAIN t.info})
    IN  IF Reward = 0 \/ ~ funds(t, Len(paid)) THEN {}
        ELSE {RewardTx(t.nonce[Distributor] + i, t.info[paid[i]]) : i \in DOMAIN paid}
build_reward_transactions(t, voters) ==
    LET paid == SetToSeq({v \in voters \ Org : v \in DOMAIN t.info})
    IN  IF Reward = 0 \/ ~ funds(t, Len(paid)) THEN {}
        ELSE {RewardTx(t.nonce[Distributor] + i, t.info[paid[i]]) : i \in DOMAIN paid}

-----------------------------------------------------------------------------
(* Validation of a block.                                                   *)
Rewards(txs) == {tx \in txs : tx.from = Distributor}

get_eligible_validators_for_reward(t, voters) ==
    IF funds(t, Cardinality(voters \ Org)) THEN voters \ Org ELSE {}

\* The owner of a wallet; the last of several is kept, in the order of a hash map.
reward_node_maps(t) ==
    LET owners(w) == {v \in DOMAIN t.info : t.info[v] = w}
        wallets == {t.info[v] : v \in DOMAIN t.info}
    IN  {m \in [wallets -> DOMAIN t.info] : \A w \in wallets : m[w] \in owners(w)}

\* Each reward is for one of the eligible validators and none is left out.
validate_rewards(t, txs, voters, map) ==
    LET eligible == get_eligible_validators_for_reward(t, voters)
    IN  /\ Rewards(txs) # {} => Reward # 0
        /\ \A tx \in Rewards(txs) : tx.amount = Reward /\ tx.to \in DOMAIN map
        /\ Cardinality(Rewards(txs)) = Cardinality(eligible)
        /\ {map[tx.to] : tx \in Rewards(txs)} = eligible

validate_proposed_block(t, txs, voters, map) ==
    /\ \A tx \in txs \ Rewards(txs) : validate_tx(t, tx)
    /\ validate_rewards(t, txs, voters, map)

-----------------------------------------------------------------------------
(* Execution, in the order of the nonces.  A transaction that cannot pay    *)
(* its fee is passed over and leaves the nonce as it is.                    *)
Move(t, from, to, amount) ==
    [t EXCEPT !.balance = [a \in Accounts |->
        @[a] - (IF a = from THEN amount ELSE 0) + (IF a = to THEN amount ELSE 0)]]

\* The limit less the amount, at least zero: for an amount above the limit only a
\* pool that is not empty is too full.
pool_has_room(t, amount) == Max({MaxPool - amount, 0}) >= PoolStaked(t)

Effect(t, tx) ==
    LET spent == Move(t, tx.from, tx.to, tx.amount)
        staked == t.staked[tx.from]
        \* The whole stake is returned when less than the minimum would be left.
        returned == IF staked - tx.amount < MinStake THEN staked ELSE tx.amount IN
    CASE is_mint(tx) -> [t EXCEPT !.balance[tx.from] = @ + tx.amount]
      [] tx.type = "unstake" -> IF staked < tx.amount THEN t
                                ELSE [t EXCEPT !.staked[tx.from] = @ - returned,
                                               !.balance[tx.from] = @ + returned]
      [] tx.type \notin {"unstake", "other"} /\ t.balance[tx.from] < tx.amount -> t
      [] tx.type = "stake" ->
             IF tx.amount \in MinStake .. MaxStake /\ pool_has_room(t, tx.amount)
             THEN [spent EXCEPT !.staked[tx.from] = @ + tx.amount] ELSE t
      [] tx.type = "deploy" -> [spent EXCEPT !.code = (tx.to :> tx.access) @@ @]
      [] tx.type = "init" -> [spent EXCEPT !.instances = @ \cup {tx.to}]
      [] tx.type = "call" -> [spent EXCEPT
                                !.deny = IF "deny" \in DOMAIN tx THEN tx.deny ELSE @,
                                !.info = IF "info" \in DOMAIN tx THEN tx.info ELSE @]
      [] tx.type = "transfer" -> spent
      [] OTHER -> t

execute_transaction(t, tx, fails) ==
    IF t.balance[tx.from] < tx.fee THEN t
    ELSE LET paid == [t EXCEPT !.nonce[tx.from] = @ + 1, !.balance[tx.from] = @ - tx.fee]
         IN  IF tx \in fails THEN paid ELSE Effect(paid, tx)

\* create_block puts the transactions of one sender after those of another, in the
\* order of a hash map; execution sorts them by nonce and keeps that order for
\* equal nonces.
Orders(txs) ==
    LET before(senders, a, b) ==
            \/ a.nonce < b.nonce
            \/ a.nonce = b.nonce /\ \E i, j \in DOMAIN senders :
                                      i < j /\ senders[i] = a.from /\ senders[j] = b.from
    IN  {SetToSortSeq(txs, LAMBDA a, b : before(senders, a, b)) :
            senders \in SetToSeqs({tx.from : tx \in txs})}

-----------------------------------------------------------------------------
Init ==
    /\ table \in Tables
    /\ pool = {} /\ block = None
    /\ votes = [n \in Voters |-> {}]
    /\ executed = 0 /\ faults = 0

\* A transaction that conflicts with another one replaces it or is refused.
add_transaction(tx) ==
    /\ tx \notin pool
    /\ validate_tx(table, tx)
    /\ pool' = {u \in pool : u.from # tx.from \/ u.nonce # tx.nonce} \cup {tx}
    /\ UNCHANGED <<table, block, votes, executed, faults>>

\* add_and_broadcast_block does not validate the block; it is acknowledged and
\* the whole pool is cleared.  The pool of a node that proposes the next block in
\* another epoch is not.
propose_block ==
    /\ block = None
    /\ executed < MaxBlocks
    /\ block' = build_new_block_transactions_list(table, pool)
                   \cup build_reward_transactions(table, votes[Proposer])
    /\ pool' \in {{}, pool}
    /\ UNCHANGED <<table, votes, executed, faults>>

Accepts(n) == \E map \in reward_node_maps(table) :
                  validate_proposed_block(table, block, votes[n], map)

\* Enough nodes accept the block.  They store one vote result, unless the
\* proposer made a second one before it could finalize with the first.
Finalize(result, other, fails) ==
    /\ block # None
    /\ Accepts(Proposer)
    /\ \A v \in result \cup other : v = Proposer \/ Accepts(v)
    /\ Proposer \in result /\ Cardinality(result) >= MinVotes
    /\ \E order \in Orders(block) :
         table' = FoldLeft(LAMBDA t, tx : execute_transaction(t, tx, fails), table, order)
    /\ IF other = result
       THEN faults' = faults /\ votes' = [n \in Voters |-> result]
       ELSE /\ faults < MaxFaults /\ faults' = faults + 1
            /\ \E n \in Voters : votes' = [m \in Voters |-> IF m = n THEN other ELSE result]
    /\ pool' = pool \ block
    /\ block' = None /\ executed' = executed + 1

\* The proposer restarts: its pending block and its pool are gone.
Restart ==
    /\ faults < MaxFaults /\ faults' = faults + 1
    /\ pool' = {} /\ block' = None
    /\ UNCHANGED <<table, votes, executed>>

Next ==
    \/ \E tx \in Transactions : add_transaction(tx)
    \/ propose_block
    \/ \E result, other \in SUBSET Voters :
         /\ result \subseteq other
         /\ \E fails \in SUBSET {tx \in Transactions : tx.type \in {"init", "call"}} :
              block # None /\ fails \subseteq block /\ Finalize(result, other, fails)
    \/ Restart

Spec == Init /\ [][Next]_vars

-----------------------------------------------------------------------------
\* "Validate transactions to be sure all of them are valid at this moment"
\* (propose_block, mempool.rs:461): every transaction of users in a block passes
\* validate_tx on the table the block was built on.
AllValidAtThisMoment ==
    block # None => \A tx \in block \ Rewards(block) : validate_tx(table, tx)

\* A transaction that was valid when it was admitted and is in a block later, after
\* other blocks and restarts, can be invalid there only if it stakes or unstakes,
\* or if the deny list has changed: nonce and balance are checked again, and the
\* other checks stay true (build_new_block_transactions_list).
OnlyStakesTurnInvalid ==
    block # None => \A tx \in block \ Rewards(block) :
        \/ validate_tx(table, tx)
        \/ tx.type \in {"stake", "unstake"}
        \/ tx.type = "transfer" /\ ~ is_transfer_allowed(table, tx.from, tx.to)

\* The rewards of a block are accepted by every node with the vote result of the
\* proposer, if every voter has a pool with a wallet of its own and the reward is
\* not zero (build_reward_transactions against validate_block_header_and_transactions).
RewardsAreAccepted ==
    block # None =>
        \A n \in Voters :
            LET E == votes[n] \ Org
            IN  /\ votes[n] = votes[Proposer]
                /\ E \subseteq DOMAIN table.info
                /\ \A v \in E : \A w \in DOMAIN table.info : table.info[v] = table.info[w] => v = w
                /\ Reward # 0
                => \A map \in reward_node_maps(table) :
                       validate_rewards(table, block, votes[n], map)

\* Every transfer of a block is carried out, in whatever order the nodes execute them:
\* if a block has only transfers, every account ends with what it had, less what its
\* transfers cost, plus what was sent to it (execute_block_inner relies on the sums
\* of build_new_block_transactions_list).
TransfersAreExecuted ==
    (/\ executed' # executed
     /\ \A tx \in block : tx.type = "transfer" /\ ~ is_mint(tx)) =>
        \A a \in Accounts :
            LET own == {tx \in block : tx.from = a}
                received == MapThenSumSet(LAMBDA tx : tx.amount, {tx \in block : tx.to = a})
            IN  /\ table'.nonce[a] = table.nonce[a] + Cardinality(own)
                /\ table'.balance[a] = table.balance[a] - CostOf(own) + received
=============================================================================
