---------------------------- MODULE MempoolQueue ----------------------------
(***************************************************************************)
(* The memory pool with its two data structures as they are in             *)
(* mempool/src/mempool.rs: `transactions` is a map from senders to maps    *)
(* from timestamps to Vecs, `transactions_priority` is a Vec of entries.   *)
(* It implements Mempool, which forgets the order of the Vecs.  The index  *)
(* at which add_transaction inserts may be past the end of the queue;      *)
(* Vec::insert then panics and the process_mempool task is gone.           *)
(***************************************************************************)
EXTENDS Integers, Sequences, FiniteSets, SequencesExt

CONSTANTS Senders, Nonces, Fees, Bodies, MaxSize, FeeLimit, RateLimit,
          TimeFrame, Expiration, MaxTime

VARIABLES
    transactions,            \* sender -> timestamp -> Vec of transactions
    transactions_priority,   \* Vec of entries
    panicked,                \* Vec::insert was out of range
    now

vars == <<transactions, transactions_priority, panicked, now>>

\* The contents of the map, and the keys of its Vecs.
Contents ==
    UNION {UNION {{[tx |-> tx, ts |-> ts] : tx \in ToSet(transactions[s][ts])} :
                      ts \in DOMAIN transactions[s]} : s \in DOMAIN transactions}

Keys == UNION {{s} \X DOMAIN transactions[s] : s \in DOMAIN transactions}

Pool == INSTANCE Mempool WITH
            transactions <- Contents,
            records <- Keys,
            transactions_priority <- ToSet(transactions_priority)

Time == Pool!Time

Init ==
    /\ transactions = <<>>
    /\ transactions_priority = <<>>
    /\ panicked = FALSE
    /\ now = 0

-----------------------------------------------------------------------------
Live(ts) == ts + Expiration >= now

Expired ==
    UNION {UNION {ToSet(transactions[s][ts]) :
                      ts \in {u \in DOMAIN transactions[s] : ~Live(u)}} :
              s \in DOMAIN transactions}

\* The map, and the queue, after remove_expired_transactions.
LiveMap ==
    LET live == [s \in DOMAIN transactions |->
                    Restrict(transactions[s],
                             {ts \in DOMAIN transactions[s] : Live(ts)})]
    IN  Restrict(live, {s \in DOMAIN live : DOMAIN live[s] # {}})

LiveQueue == SelectSeq(transactions_priority, LAMBDA p : p.tx \notin Expired)

Record(map, sender) == IF sender \in DOMAIN map THEN map[sender] ELSE <<>>

\* sender_transaction_count: what the sender has within the time frame.
SenderCount(sender, t) ==
    LET recent == {ts \in DOMAIN Record(LiveMap, sender) : ts + TimeFrame >= t}
    IN  FoldFunctionOnSet(LAMBDA v, n : Len(v) + n, 0, Record(LiveMap, sender), recent)

get_conflicts(tx) == SelectSeq(LiveQueue, LAMBDA p : Pool!has_conflict(p.tx, tx))

handle_conflicts(conflicts, tx, t) ==
    LET better == SelectSeq(conflicts, LAMBDA c : tx.fee_limit < c.tx.fee_limit)
    IN  IF better = <<>> THEN [tx |-> tx, ts |-> t] ELSE Last(better)

\* Defect: the conflicts stay in the map.
StripNothing(map, conflicts, tx) == map

\* Each conflict is retained out of the Vec of its timestamp, by nonce.
StripConflicts(map, conflicts, tx) ==
    [s \in DOMAIN map |-> [ts \in DOMAIN map[s] |->
        IF s = tx.sender /\ \E c \in ToSet(conflicts) : c.ts = ts
        THEN SelectSeq(map[s][ts], LAMBDA x : x.nonce # tx.nonce)
        ELSE map[s][ts]]]

Push(map, kept) ==
    LET s == kept.tx.sender
        record == Record(map, s)
        vec == IF kept.ts \in DOMAIN record THEN record[kept.ts] ELSE <<>>
    IN  (s :> ((kept.ts :> Append(vec, kept.tx)) @@ record)) @@ map

\* Position (from 1) in the queue before the first cheaper transaction; if
\* there is none, the number of senders.
insertion_pos(queue, kept, map) ==
    LET cheaper == {i \in DOMAIN queue : queue[i].tx.fee_limit < kept.tx.fee_limit}
    IN  IF cheaper = {} THEN Cardinality(DOMAIN map) ELSE Min(cheaper)

-----------------------------------------------------------------------------
RejectTransaction(t) ==
    /\ ~panicked
    /\ t >= now
    /\ transactions' = LiveMap
    /\ transactions_priority' = LiveQueue
    /\ now' = t
    /\ UNCHANGED panicked

AcceptTransaction(tx, t) ==
    LET conflicts == get_conflicts(tx)
        queue == SelectSeq(LiveQueue, LAMBDA p : ~Pool!has_conflict(p.tx, tx))
        kept == handle_conflicts(conflicts, tx, t)
        map == Push(StripConflicts(LiveMap, conflicts, tx), kept)
        pos == insertion_pos(queue, kept, map)
    IN  /\ ~panicked
        /\ t >= now
        /\ Len(LiveQueue) < MaxSize
        /\ tx.fee_limit <= FeeLimit
        /\ SenderCount(tx.sender, t) < RateLimit
        /\ transactions' = map
        /\ IF pos <= Len(queue) + 1
           THEN /\ transactions_priority' = InsertAt(queue, pos, kept)
                /\ UNCHANGED panicked
           ELSE /\ transactions_priority' = queue
                /\ panicked' = TRUE
        /\ now' = t

AddTransaction ==
    \E t \in Time :
        \/ RejectTransaction(t)
        \/ \E tx \in Pool!Transaction : AcceptTransaction(tx, t)

remove_transaction(tx) ==
    LET s == tx.sender
        left == [ts \in DOMAIN Record(transactions, s) |->
                    SelectSeq(transactions[s][ts], LAMBDA x : x # tx)]
        kept == Restrict(left, {ts \in DOMAIN left : left[ts] # <<>>})
    IN  /\ ~panicked
        /\ transactions' =
               IF DOMAIN kept = {}
               THEN Restrict(transactions, DOMAIN transactions \ {s})
               ELSE (s :> kept) @@ transactions
        /\ transactions_priority' =
               SelectSeq(transactions_priority, LAMBDA p : p.tx # tx)
        /\ UNCHANGED <<panicked, now>>

RemoveTransaction == \E tx \in Pool!Transaction : remove_transaction(tx)

NotProposed ==
    /\ ~panicked
    /\ transactions' = LiveMap
    /\ transactions_priority' = LiveQueue
    /\ UNCHANGED <<panicked, now>>

clear_transactions ==
    /\ ~panicked
    /\ transactions' = <<>>
    /\ transactions_priority' = <<>>
    /\ UNCHANGED <<panicked, now>>

ProposeBlock == NotProposed \/ clear_transactions

Tick ==
    /\ ~panicked
    /\ now < MaxTime
    /\ now' = now + 1
    /\ UNCHANGED <<transactions, transactions_priority, panicked>>

Next == AddTransaction \/ RemoveTransaction \/ ProposeBlock \/ Tick

Spec == Init /\ [][Next]_vars

\* SystemTime is not monotone: the operating system may set the clock back.
StepBack ==
    /\ ~panicked
    /\ now' \in 0 .. now - 1
    /\ UNCHANGED <<transactions, transactions_priority, panicked>>

SteppedClockNext == Next \/ StepBack

-----------------------------------------------------------------------------
(* Properties. *)

\* The pool with its real data structures does nothing that the pool seen as
\* two sets may not do; the Vecs never hold a transaction twice.
ImplementsMempool == Pool!Spec

\* "Highest fee" first: the order the comment in add_transaction and the test
\* test_mempool_transactions_priority give the queue.
HighestFeeFirst ==
    \A i, j \in DOMAIN transactions_priority :
        i < j => transactions_priority[i].tx.fee_limit
                     >= transactions_priority[j].tx.fee_limit

\* "Length of `transactions` is used in `add_transaction`. So need to remove
\* empty records": no sender is left in the map without a transaction.
NoEmptySender ==
    \A s \in DOMAIN transactions :
        \E ts \in DOMAIN transactions[s] : transactions[s][ts] # <<>>

=============================================================================
