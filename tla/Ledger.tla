------------------------------- MODULE Ledger -------------------------------
(* What executing a block promises: its transactions are applied one after   *)
(* the other, in the order of their nonces, to one table, and the block is   *)
(* either executed entirely or not at all. There is no cache and no copy of  *)
(* the state here: a row has one value.                                      *)
EXTENDS Integers, Sequences, SequencesExt, FiniteSets

CONSTANTS
    Addresses,       \* users, pools, contracts and contract instances
    FeeRecipient,    \* FEE_RECIPIENT_MASTER_ADDRESS
    MintMaster,      \* MINT_MASTER_ADDRESS
    Keys,            \* the keys of all contract instances
    Derived,         \* [Addresses -> [nonce -> the address made from both]]
    MaxBalance,      \* the largest value of the type Balance
    MaxNonce,        \* bound on the nonces of the transactions
    MaxBlocks,       \* bound on the length of the chain
    BlockChoices,    \* the blocks that may be appended to the chain
    InitialTable,
    GasPrice,        \* units of gas for one token
    MaxGas,          \* the largest value of the type Gas
    None

ASSUME LedgerAssumption ==
    /\ FeeRecipient \in Addresses /\ MintMaster \in Addresses /\ FeeRecipient # MintMaster
    /\ MaxBalance \in Nat /\ MaxNonce \in Nat /\ MaxBlocks \in Nat
    /\ GasPrice \in Nat \ {0} /\ MaxGas \in Nat

VARIABLES
    table,     \* the rows: accounts, pools, stakes, contracts, instances, values
    rows,      \* the tables that only grow: metadata and events
    chain,     \* the blocks stored so far
    executed   \* how many of them are executed

ledgerVars == <<table, rows, chain, executed>>

Account(a) == <<"account", a>>
Pool(a) == <<"pool", a>>
Stake(p, a) == <<"stake", p, a>>
Contract(a) == <<"contract", a>>
Instance(a) == <<"instance", a>>
Value(k) == <<"value", k>>
Slots == {Account(a) : a \in Addresses} \cup {Pool(a) : a \in Addresses}
           \cup {Stake(p, a) : p \in Addresses, a \in Addresses}
           \cup {Contract(a) : a \in Addresses} \cup {Instance(a) : a \in Addresses}
           \cup {Value(k) : k \in Keys}

NewAccount == [balance |-> 0, nonce |-> 0]

(* Equal nonces keep the order of the block.                                 *)
SortedByNonce(txs) ==
    FlattenSeq([n \in 1..MaxNonce |-> SelectSeq(txs, LAMBDA tx : tx.nonce = n)])

-----------------------------------------------------------------------------
(* What a transaction costs: the fee manager that keeps the part of the fee  *)
(* limit not spent yet, and the gas station that sells gas for it.           *)

(* Every fee but the one for the size is one token.                          *)
type_fee == 1
transaction_size_fee(tx) == 1 + tx.size

buy_gas(balance) == Min({balance * GasPrice, MaxGas})
sell_gas(gas) == IF gas = 0 THEN 0 ELSE gas \div GasPrice + 1

(* The manager of one transaction: what is left of its limit, and whether    *)
(* every charge so far fitted. A charge that does not fit takes the rest.    *)
new_manager(fee_limit) == [ok |-> TRUE, left |-> fee_limit]
update_fee(manager, fee) ==
    IF fee <= manager.left THEN [manager EXCEPT !.left = @ - fee]
                           ELSE [ok |-> FALSE, left |-> 0]
update_gas_and_fee_used(manager, burnt_gas) == update_fee(manager, sell_gas(burnt_gas))
get_fee_used(fee_limit, manager) == fee_limit - manager.left

-----------------------------------------------------------------------------
(* An operation returns the new rows, or Failed.                             *)
Failed == None
Balance(t, a) == IF t[Account(a)] = None THEN 0 ELSE t[Account(a)].balance
Exists(t, slot) == t # Failed /\ t[slot] # None

SetBalance(t, a, balance) ==
    [t EXCEPT ![Account(a)] = [balance |-> balance,
                               nonce |-> IF @ = None THEN 0 ELSE @.nonce]]

Move(t, from, to, amount) ==
    IF ~Exists(t, Account(from)) \/ Balance(t, from) < amount THEN Failed
    ELSE IF from = to THEN t
    ELSE IF Balance(t, to) + amount > MaxBalance THEN Failed
    ELSE SetBalance(SetBalance(t, from, Balance(t, from) - amount), to, Balance(t, to) + amount)

Pay(t, from, to, amount) ==
    IF from = MintMaster /\ to = MintMaster
    THEN IF ~Exists(t, Account(to)) \/ Balance(t, to) + amount > MaxBalance THEN Failed
         ELSE SetBalance(t, to, Balance(t, to) + amount)
    ELSE Move(t, from, to, amount)

Create(t, a, slot, value) ==
    IF Exists(t, Account(a)) THEN Failed
    ELSE [t EXCEPT ![Account(a)] = NewAccount, ![slot] = value]

Staked(t, p, a) == IF t[Stake(p, a)] = None THEN 0 ELSE t[Stake(p, a)]

StakeIn(t, tx, number) ==
    LET pool == t[Pool(tx.to)]
        paid == Move(t, tx.sender, tx.to, tx.amount)
    IN IF \/ pool = None \/ paid = Failed
          \/ tx.amount < pool.min_stake \/ tx.amount > pool.max_stake
          \/ Max({pool.max_pool_balance - tx.amount, 0}) < Balance(t, tx.to)
       THEN Failed
       ELSE [paid EXCEPT ![Stake(tx.to, tx.sender)] = Staked(t, tx.to, tx.sender) + tx.amount,
                         ![Pool(tx.to)].updated = number]

(* The whole stake is returned when less than the minimum would be left.     *)
UnStakeFrom(t, tx, number) ==
    LET pool == t[Pool(tx.to)]
        staked == Staked(t, tx.to, tx.sender)
        left == staked - tx.amount
        kept == IF left < pool.min_stake THEN 0 ELSE left
        paid == Move(t, tx.to, tx.sender, staked - kept)
    IN IF pool = None \/ t[Stake(tx.to, tx.sender)] = None THEN Failed
       ELSE IF left < 0 \/ paid = Failed THEN Failed
       ELSE [paid EXCEPT ![Stake(tx.to, tx.sender)] = kept, ![Pool(tx.to)].updated = number]

Perform(t, op) ==
    IF t = Failed THEN Failed
    ELSE CASE op.op = "store" -> [t EXCEPT ![Value(op.key)] = op.value]
           [] op.op = "delete" -> [t EXCEPT ![Value(op.key)] = None]
           [] op.op = "load" -> t
           [] op.op = "transfer" -> Move(t, op.from, op.to, op.amount)

Program(t, tx) == FoldLeft(Perform, t, tx.ops)

-----------------------------------------------------------------------------
(* The effect of a transaction and the gas it burns, when it can pay for it. *)
IsPayment(t, tx) == tx.kind = "transfer" \/ (tx.kind = "call" /\ ~Exists(t, Instance(tx.to)))

Effect(t, tx, number) ==
    LET made == Derived[tx.sender][t[Account(tx.sender)].nonce]
    IN CASE IsPayment(t, tx) -> Pay(t, tx.sender, tx.to, tx.amount)
         [] tx.kind = "create_pool" -> Create(t, made, Pool(made), [tx.pool EXCEPT !.updated = number])
         [] tx.kind = "stake" -> StakeIn(t, tx, number)
         [] tx.kind = "un_stake" -> UnStakeFrom(t, tx, number)
         [] tx.kind = "pool_contract" ->
              IF ~Exists(t, Pool(tx.to)) THEN Failed
              ELSE [t EXCEPT ![Pool(tx.to)].contract = tx.contract, ![Pool(tx.to)].updated = number]
         [] tx.kind = "deploy" -> Create(t, made, Contract(made), tx.sender)
         [] tx.kind = "init" ->
              LET new == Create(t, made, Instance(made), tx.to)
              IN IF new = Failed \/ ~tx.returns THEN Failed ELSE Program(new, tx)
         [] OTHER -> IF tx.returns THEN Program(t, tx) ELSE Failed

RunsProgram(t, tx) == tx.kind = "init" \/ (tx.kind = "call" /\ Exists(t, Instance(tx.to)))

(* What is left of the limit for gas, and the outcome: a program that needs  *)
(* more gas than was bought fails without burning any, one that burns all it *)
(* bought cannot pay for it.                                                 *)
Outcome(t, tx, number) ==
    LET base == transaction_size_fee(tx)
        left == tx.fee_limit - base - type_fee
        effect == Effect(t, tx, number)
        enough == RunsProgram(t, tx) => tx.gas <= buy_gas(left)
        burnt == IF RunsProgram(t, tx) THEN sell_gas(tx.gas) ELSE 0
        fails(fee) == [table |-> Failed, fee |-> fee]
    IN IF base > tx.fee_limit THEN fails(tx.fee_limit)
       ELSE IF tx.kind = "init" /\ ~Exists(t, Contract(tx.to)) THEN fails(base)
       ELSE IF left < 0 THEN fails(tx.fee_limit)
       ELSE IF effect = Failed \/ ~enough THEN fails(base + type_fee)
       ELSE IF burnt > left THEN fails(tx.fee_limit)
       ELSE [table |-> effect, fee |-> base + type_fee + burnt]

Emits(t, tx) == tx.kind = "deploy" \/ RunsProgram(t, tx)

-----------------------------------------------------------------------------
(* One transaction of a block, s = [table, rows]. A sender that cannot lock  *)
(* the whole limit is skipped. The fee goes to the recipient whether or not  *)
(* the transaction succeeds; a transaction that succeeds but whose refund    *)
(* fails keeps its effect, costs the whole limit and gets no metadata.       *)
Bump(t, a) == [t EXCEPT ![Account(a)].nonce = @ + 1]

Settle(s, tx, done, rest, ok) ==
    LET refunded == Move(done, FeeRecipient, tx.sender, rest)
        row == [tx |-> tx.hash, fee |-> tx.fee_limit - rest, is_successful |-> ok]
    IN IF refunded = Failed THEN [s EXCEPT !.table = done]
       ELSE [s EXCEPT !.table = refunded, !.metadata = @ \cup {row}]

ApplyPaid(number, s, tx) ==
    LET locked == IF ~Exists(s.table, Account(tx.sender)) THEN Failed
                  ELSE Move(Bump(s.table, tx.sender), tx.sender, FeeRecipient, tx.fee_limit)
        out == Outcome(locked, tx, number)
        rest == tx.fee_limit - out.fee
    IN IF locked = Failed THEN s
       ELSE IF out.table = Failed THEN Settle(s, tx, locked, rest, FALSE)
       ELSE Settle([s EXCEPT !.events = IF Emits(locked, tx) THEN Append(@, tx.hash) ELSE @],
                   tx, out.table, rest, TRUE)

(* The transactions of a system block pay nothing.                           *)
ApplyFree(number, s, tx) ==
    LET bumped == Bump(s.table, tx.sender)
        out == Outcome(bumped, tx, number)
        row(ok) == [tx |-> tx.hash, fee |-> 0, is_successful |-> ok]
    IN IF ~Exists(s.table, Account(tx.sender)) THEN s
       ELSE IF out.table = Failed
       THEN [s EXCEPT !.table = bumped, !.metadata = @ \cup {row(FALSE)}]
       ELSE [s EXCEPT !.table = out.table, !.metadata = @ \cup {row(TRUE)},
                      !.events = IF Emits(bumped, tx) THEN Append(@, tx.hash) ELSE @]

Apply(s, number, block) ==
    FoldLeft(LAMBDA t, tx : IF block.kind = "system" THEN ApplyFree(number, t, tx)
                                                     ELSE ApplyPaid(number, t, tx),
             s, SortedByNonce(block.txs))

-----------------------------------------------------------------------------
LedgerInit ==
    /\ table = InitialTable
    /\ rows = [metadata |-> {}, events |-> <<>>]
    /\ chain = <<>> /\ executed = 0

(* Validation lets a transaction into one block of the chain only.           *)
Hashes(block) == {block.txs[i].hash : i \in DOMAIN block.txs}
StoreBlock ==
    /\ Len(chain) < MaxBlocks
    /\ \E block \in BlockChoices :
         /\ \A i \in DOMAIN chain : Hashes(block) \cap Hashes(chain[i]) = {}
         /\ chain' = Append(chain, block)
    /\ UNCHANGED <<table, rows, executed>>

ExecuteNext ==
    /\ executed < Len(chain)
    /\ LET s == Apply([table |-> table, metadata |-> rows.metadata, events |-> rows.events],
                      executed + 1, chain[executed + 1])
       IN table' = s.table /\ rows' = [metadata |-> s.metadata, events |-> s.events]
    /\ executed' = executed + 1
    /\ UNCHANGED chain

LedgerNext == StoreBlock \/ ExecuteNext
LedgerSpec == LedgerInit /\ [][LedgerNext]_ledgerVars

-----------------------------------------------------------------------------
ExecutedTransactions == UNION {Range(chain[i].txs) : i \in 1..executed}
Succeeded == {tx \in ExecutedTransactions :
                \E row \in rows.metadata : row.tx = tx.hash /\ row.is_successful}

TotalBalance(t) == MapThenSumSet(LAMBDA a : Balance(t, a), Addresses)
(* A call of an address that is no instance is a transfer as well.           *)
IsMint(tx) == tx.kind \in {"transfer", "call"} /\ tx.sender = MintMaster /\ tx.to = MintMaster
Amounts(txs) == MapThenSumSet(LAMBDA tx : tx.amount, txs)
Recorded(a) == {tx \in ExecutedTransactions :
                  tx.sender = a /\ \E row \in rows.metadata : row.tx = tx.hash}
UsedNonces(a) == table[Account(a)].nonce - InitialTable[Account(a)].nonce

(* Tokens only appear by minting: locking, charging and refunding fees,      *)
(* paying, staking and unstaking move them, and failed transactions lose     *)
(* none. A mint counts when its metadata says it succeeded. One that leaves  *)
(* no room for its own refund is kept by execute_block_inner but gets no     *)
(* metadata: it counts as one of the nonces used without metadata.           *)
SupplyConserved ==
    LET mints == {tx \in ExecutedTransactions : IsMint(tx)}
    IN \E unrecorded \in SUBSET (mints \ Recorded(MintMaster)) :
         /\ Cardinality(unrecorded) <= UsedNonces(MintMaster) - Cardinality(Recorded(MintMaster))
         /\ TotalBalance(table) = TotalBalance(InitialTable)
                                    + Amounts(mints \cap Succeeded) + Amounts(unrecorded)

(* The account of a pool holds at least what all its stakers have staked, so *)
(* every stake can be paid back (UpdatedState::stake and un_stake).          *)
StakesBacked ==
    \A p \in Addresses :
        table[Pool(p)] # None =>
            MapThenSumSet(LAMBDA a : Staked(table, p, a), Addresses) <= Balance(table, p)

=============================================================================
