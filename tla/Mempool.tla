------------------------------ MODULE Mempool ------------------------------
(***************************************************************************)
(* The memory pool of a node: mempool/src/mempool.rs, driven by the        *)
(* messages of the process_mempool task of node/src/node.rs.               *)
(*                                                                         *)
(* The pool stores each transaction twice: in the map `transactions`       *)
(* (sender -> timestamp -> Vec) and in the queue `transactions_priority`.  *)
(* This module keeps what the two hold and forgets the order of the queue  *)
(* (MempoolQueue has the order and implements this module).  The map is    *)
(* two variables here: `transactions`, its contents, and `records`, the    *)
(* <<sender, timestamp>> keys of its Vecs, because a Vec can be left empty *)
(* and the number of senders is used as an index.                          *)
(***************************************************************************)
EXTENDS Integers, FiniteSets

CONSTANTS
    Senders,      \* account addresses
    Nonces,       \* transaction nonces
    Fees,         \* values of Transaction.fee_limit
    Bodies,       \* the rest of a transaction
    MaxSize,      \* Mempool.max_size
    FeeLimit,     \* Mempool.fee_limit
    RateLimit,    \* Mempool.rate_limit
    TimeFrame,    \* Mempool.time_frame_seconds
    Expiration,   \* Mempool.expiration_seconds
    MaxTime       \* bound of the clock

ASSUME PoolAssumption ==
    /\ Fees \subseteq Nat
    /\ MaxSize \in Nat /\ FeeLimit \in Nat /\ RateLimit \in Nat
    /\ TimeFrame \in Nat /\ Expiration \in Nat /\ MaxTime \in Nat

VARIABLES
    transactions,            \* set of entries stored in the map
    records,                 \* <<sender, timestamp>> keys of the map
    transactions_priority,   \* set of entries stored in the queue
    now                      \* wall clock of the node

vars == <<transactions, records, transactions_priority, now>>

\* The signature is computed over all the fields, so comparing signatures is
\* comparing transactions.
Transaction == [sender : Senders, nonce : Nonces, fee_limit : Fees, body : Bodies]

Time == 0 .. MaxTime

Entry == [tx : Transaction, ts : Time]

TypeOK ==
    /\ transactions \subseteq Entry
    /\ records \subseteq Senders \X Time
    /\ transactions_priority \subseteq Entry
    /\ now \in Time

Init ==
    /\ transactions = {}
    /\ records = {}
    /\ transactions_priority = {}
    /\ now = 0

-----------------------------------------------------------------------------
(* Helpers of the operations. *)

has_conflict(existing_tx, new_tx) ==
    /\ existing_tx.sender = new_tx.sender
    /\ existing_tx.nonce = new_tx.nonce

Live(ts) == ts + Expiration >= now

\* What remove_expired_transactions leaves in the map, in its keys and in the
\* queue.  The queue drops a transaction by value, not by timestamp.
LiveTransactions == {e \in transactions : Live(e.ts)}

LiveRecords == {r \in records : Live(r[2])}

\* Defect: expiry forgets the queue.
LivePriorityForgotten == transactions_priority

LivePriority ==
    {p \in transactions_priority :
        \A e \in transactions : ~Live(e.ts) => e.tx # p.tx}

\* Transactions of the sender within the rate limit's time frame at time t.
SenderEntries(entries, sender, t) ==
    {e \in entries : e.tx.sender = sender /\ e.ts + TimeFrame >= t}

\* Defect: only a resubmission of the same transaction is a conflict.
get_identical(queue, tx) == {p \in queue : p.tx = tx}

get_conflicts(queue, tx) == {p \in queue : has_conflict(p.tx, tx)}

\* Defect: the newest transaction always wins.
newest_wins(conflicts, tx, t) == {[tx |-> tx, ts |-> t]}

\* The conflicting transaction survives only if it pays strictly more; it
\* then keeps its old timestamp.
handle_conflicts(conflicts, tx, t) ==
    LET better == {c \in conflicts : tx.fee_limit < c.tx.fee_limit}
    IN  IF better = {} THEN {[tx |-> tx, ts |-> t]} ELSE better

WithoutConflicts(entries, conflicts) ==
    {e \in entries : ~ \E c \in conflicts :
        /\ e.tx.sender = c.tx.sender
        /\ e.ts = c.ts
        /\ e.tx.nonce = c.tx.nonce}

-----------------------------------------------------------------------------
(* One action per message of the process_mempool task. *)

\* Every message but RemoveTrasaction first drops the expired transactions.
remove_expired_transactions ==
    /\ transactions' = LiveTransactions
    /\ records' = LiveRecords
    /\ transactions_priority' = LivePriority

\* add_transaction fails: the pool is full, the fee limit is exceeded,
\* validate_tx rejects (left open here), or the sender is too fast.
RejectTransaction(t) ==
    /\ now <= t
    /\ remove_expired_transactions
    /\ now' = t

\* Defect: room is checked one too late.
AdmissibleWhenFull(tx, t) ==
    /\ Cardinality(LivePriority) <= MaxSize
    /\ tx.fee_limit <= FeeLimit
    /\ Cardinality(SenderEntries(LiveTransactions, tx.sender, t)) < RateLimit

\* The checks of add_transaction that the pool makes itself.
Admissible(tx, t) ==
    /\ Cardinality(LivePriority) < MaxSize
    /\ tx.fee_limit <= FeeLimit
    /\ Cardinality(SenderEntries(LiveTransactions, tx.sender, t)) < RateLimit

AcceptTransaction(tx, t, kept) ==
    LET conflicts == get_conflicts(LivePriority, tx)
    IN  /\ now <= t
        /\ Admissible(tx, t)
        /\ transactions' =
               WithoutConflicts(LiveTransactions, conflicts) \union {kept}
        /\ records' = LiveRecords \union {<<tx.sender, kept.ts>>}
        /\ transactions_priority' = (LivePriority \ conflicts) \union {kept}
        /\ now' = t

\* The clock is read once to expire and once more, after validate_tx awaited
\* the database, to stamp the transaction.
AddTransaction ==
    \E t \in Time :
        \/ RejectTransaction(t)
        \/ \E tx \in Transaction :
               \E kept \in handle_conflicts(get_conflicts(LivePriority, tx), tx, t) :
                   AcceptTransaction(tx, t, kept)

\* Defect: the empty Vecs of the sender stay.
remove_transaction_only(tx) ==
    /\ transactions' = {e \in transactions : e.tx # tx}
    /\ transactions_priority' = {p \in transactions_priority : p.tx # tx}
    /\ UNCHANGED <<records, now>>

\* remove_transaction also clears the empty Vecs of the sender.
remove_transaction(tx) ==
    LET left == {e \in transactions : e.tx # tx}
    IN  /\ transactions' = left
        /\ records' = {r \in records : r[1] = tx.sender =>
                           \E e \in left : e.tx.sender = r[1] /\ e.ts = r[2]}
        /\ transactions_priority' = {p \in transactions_priority : p.tx # tx}
        /\ UNCHANGED now

RemoveTransaction == \E tx \in Transaction : remove_transaction(tx)

\* ProposeBlockOnBlockTime and ProposeBlockOnMempoolFull when no block comes
\* of it: not the proposer, head not executed, refused by the consensus task.
NotProposed ==
    /\ remove_expired_transactions
    /\ UNCHANGED now

\* The block was accepted: the whole pool is dropped, whether or not the
\* block includes a transaction.
clear_transactions ==
    /\ transactions' = {}
    /\ records' = {}
    /\ transactions_priority' = {}
    /\ UNCHANGED now

ProposeBlock == NotProposed \/ clear_transactions

Tick ==
    /\ now < MaxTime
    /\ now' = now + 1
    /\ UNCHANGED <<transactions, records, transactions_priority>>

Next == AddTransaction \/ RemoveTransaction \/ ProposeBlock \/ Tick

Spec == Init /\ [][Next]_vars

-----------------------------------------------------------------------------
(* Properties. *)

\* The map and the queue hold the same transactions with the same timestamps,
\* after every message.  validate_queues only logs when they differ.
QueuesAgree == transactions = transactions_priority

\* A sender has at most one transaction per nonce: add_transaction removes
\* every conflict before it inserts, from both structures.
OnePerNonce ==
    \A e, f \in transactions_priority : has_conflict(e.tx, f.tx) => e = f

SendersOf(recs) == {r[1] : r \in recs}

\* The number of sender records never exceeds the length of the queue, so
\* `transactions.len() - 1` in add_transaction is a valid index for
\* Vec::insert, which panics on an index past the end.
InsertionInRange ==
    Cardinality(SendersOf(records)) <= Cardinality(transactions_priority)

\* The pool never outgrows max_size, conflicts and expiry included.
WithinMaxSize == Cardinality(transactions_priority) <= MaxSize

\* No sender has more than rate_limit transactions of the last time frame in
\* the pool, whatever was replaced, removed or expired in between.
WithinRateLimit ==
    \A s \in Senders :
        Cardinality(SenderEntries(transactions, s, now)) <= RateLimit

\* Both limits of the configuration hold after every message (add_transaction).
WithinLimits == WithinMaxSize /\ WithinRateLimit

\* Replacement by fee is monotone: as long as a transaction has not expired,
\* the transaction that takes over its nonce pays at least as much and is not
\* stamped earlier (handle_conflicts).
ReplacementPaysMore ==
    [][\A e \in transactions_priority, f \in transactions_priority' :
           has_conflict(e.tx, f.tx) /\ Live(e.ts)
               => f.tx.fee_limit >= e.tx.fee_limit /\ f.ts >= e.ts]_vars

-----------------------------------------------------------------------------
(* What makes InsertionInRange inductive. *)

\* An empty Vec is left behind by a conflict; its sender then has a
\* transaction that is at least as young, and that expires no earlier.
RecordsBacked ==
    \A r \in records :
        \E e \in transactions : e.tx.sender = r[1] /\ e.ts >= r[2]

StampsPast ==
    /\ \A r \in records : r[2] <= now
    /\ \A e \in transactions : <<e.tx.sender, e.ts>> \in records

\* The inductive invariant of the proofs: the structures agree and no record
\* outlives its sender's youngest transaction.
IInv ==
    /\ TypeOK
    /\ QueuesAgree
    /\ OnePerNonce
    /\ RecordsBacked
    /\ StampsPast

=============================================================================
