---------------------------- MODULE MCExecution -----------------------------
(* Two users, one of which makes pools and contracts, the fee recipient, the *)
(* mint master, two addresses derived from the maker's nonces, and one       *)
(* contract that is there from the beginning.                                *)
EXTENDS Execution

CONSTANTS u, v, r, m, d1, d2, c, config_key, previous_key, good, better, bad, MaxTxs

MCDerived == [a \in Addresses |-> [n \in 0..MaxNonce |->
                IF a = v THEN (IF n = 1 THEN d1 ELSE IF n = 2 THEN d2 ELSE c) ELSE c]]

MCInitialTable == [k \in Slots |->
    CASE k = Account(u) -> [balance |-> 12, nonce |-> 0]
      [] k = Account(v) -> [balance |-> 9, nonce |-> 0]
      [] k = Account(r) -> [balance |-> 1, nonce |-> 0]
      [] k = Account(m) -> [balance |-> 4, nonce |-> 0]
      [] k \in {Account(c)} -> NewAccount
      [] k = Contract(c) -> v
      [] k = Instance(c) -> c
      [] k = Value(config_key) -> good
      [] OTHER -> None]

Tx(hash, kind, sender, to, amount, fee_limit, nonce) ==
    [hash |-> hash, kind |-> kind, sender |-> sender, to |-> to, amount |-> amount,
     fee_limit |-> fee_limit, nonce |-> nonce, size |-> 1, ops |-> <<>>, gas |-> 0, returns |-> TRUE,
     contract |-> c, pool |-> [min_stake |-> 2, max_stake |-> 5, max_pool_balance |-> 6,
                               contract |-> None, updated |-> 0]]
With(tx, ops, gas, returns) == [tx EXCEPT !.ops = ops, !.gas = gas, !.returns = returns]

Store(k, x) == [op |-> "store", key |-> k, value |-> x]
Load(k) == [op |-> "load", key |-> k]
Delete(k) == [op |-> "delete", key |-> k]
Send(a, b, n) == [op |-> "transfer", from |-> a, to |-> b, amount |-> n]

Transactions == <<
    Tx("pay", "transfer", u, v, 2, 4, 1),
    Tx("pay_pool", "transfer", u, d1, 7, 3, 3),
    Tx("pay_cheaply", "transfer", v, u, 1, 2, 3),
    Tx("recipient_pays", "transfer", r, u, 4, 4, 2),
    Tx("mint", "transfer", m, m, 4, 4, 1),
    Tx("mint_to_the_limit", "transfer", m, m, 40, 4, 2),
    Tx("create_pool", "create_pool", v, v, 0, 3, 1),
    Tx("stake", "stake", u, d1, 3, 3, 2),
    Tx("stake_more", "stake", u, d1, 2, 4, 3),
    Tx("un_stake", "un_stake", u, d1, 2, 3, 4),
    Tx("pool_contract", "pool_contract", v, d1, 0, 3, 3),
    Tx("deploy", "deploy", v, v, 0, 3, 1),
    With(Tx("init", "init", v, d1, 0, 5, 3), <<Store(previous_key, good)>>, 1, TRUE),
    With(Tx("call", "call", u, c, 0, 4, 1),
         <<Load(config_key), Send(u, c, 2), Store(config_key, better), Store(previous_key, good)>>, 1, TRUE),
    With(Tx("call_all_gas", "call", u, c, 0, 4, 2), <<Store(config_key, bad)>>, 2, TRUE),
    With(Tx("call_bad", "call", v, c, 0, 5, 3), <<Load(config_key), Store(config_key, bad), Delete(previous_key)>>, 1, TRUE) >>

SystemInit == With(Tx("system_init", "init", v, c, 0, 9, 2), <<Store(config_key, better)>>, 1, TRUE)

(* Blocks list their transactions in the opposite order of the table above.  *)
Orders == {<<>>} \cup {<<i>> : i \in DOMAIN Transactions}
            \cup {q \in (DOMAIN Transactions) \X (DOMAIN Transactions) : q[1] > q[2]}
Regular == {[kind |-> "regular", txs |-> [k \in 1..Len(q) |-> Transactions[q[k]]]] : q \in Orders}
MCBlockChoices == {b \in Regular : Len(b.txs) <= MaxTxs}
                    \cup {[kind |-> "system", txs |-> <<SystemInit>>]}

(* The next block arrives when the ones before it are executed.              *)
OneBlockAtATime == chain' # chain => executed = Len(chain)
=============================================================================
