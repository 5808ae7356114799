----------------------------- MODULE BlockStore -----------------------------
(***************************************************************************)
(* Blocks, headers, transactions, the head of the chain and the executed   *)
(* flags, for one cluster.  A block is its number and its hash; Txs[n] are *)
(* the transactions of block n.  store_block and batch_store_blocks are    *)
(* sequences of statements: a call runs them to the end, and in the second *)
(* half of the module a node may stop between any two of them.             *)
(* The answer to a query without an order is the set of its rows.          *)
(***************************************************************************)
EXTENDS Integers, Sequences, FiniteSets, SequencesExt, Store

CONSTANTS Txs,             \* the transactions of every block number
          Sender,          \* the sender of every transaction
          Batches,         \* the sequences of numbers stored as one batch
          OverflowChecks   \* u128 subtraction panics (else it wraps)

Number == DOMAIN Txs
Tx == DOMAIN Sender

VARIABLE job    \* the driver of a node and the statements it has yet to run

\* sent and list are the two indexes of RocksDB, order the age of a row.
NoBlocks ==
    [meta |-> NoRows, header |-> NoRows, tx |-> NoRows, head |-> NULL, metadata |-> NoRows,
     genesis |-> NoRows, list |-> [n \in Number |-> << >>], sent |-> << >>, executed |-> {}]

ChainHead(t) == IF t.head = NULL THEN 0 ELSE t.head
InBlock(t, n) == {k \in DOMAIN t.tx : k[2] = n}
SentBy(t, a) == {k \in DOMAIN t.tx : Sender[k[1]] = a}
InOrder(t, K) ==
    LET s == SetToSortSeq(K, LAMBDA k1, k2 : t.tx[k1].sequence < t.tx[k2].sequence)
    IN [i \in DOMAIN s |-> s[i][1]]

Receipt(tx, n, status, fee) == [tx |-> tx, block_number |-> n, status |-> status, fee_used |-> fee]

\* The rows of the transactions of the blocks ns, numbered through.
RowsOf(ns) ==
    LET before(i) == FoldLeft(LAMBDA x, n : x + Len(Txs[n]), 0, SubSeq(ns, 1, i - 1)) IN
    UNION {{<<Txs[ns[i]][j], ns[i], before(i) + j>> : j \in DOMAIN Txs[ns[i]]} : i \in DOMAIN ns}

WithRows(t, rows, replace) ==
    LET new == {r \in rows : replace \/ <<r[1], r[2]>> \notin DOMAIN t.tx}
        keys == {<<r[1], r[2]>> : r \in new}
        row(k) == CHOOSE r \in new : <<r[1], r[2]>> = k
        age == Cardinality(DOMAIN t.tx)
    IN [t EXCEPT !.tx = [k \in DOMAIN @ \cup keys |->
            IF k \in keys THEN [sequence |-> row(k)[3], age |-> age + row(k)[3]] ELSE @[k]]]

WithKeys(f, K, v(_), replace) ==
    [k \in DOMAIN f \cup K |-> IF k \in K /\ (replace \/ k \notin DOMAIN f) THEN v(k) ELSE f[k]]

No(k) == FALSE
Parent(n) == n - 1
Self(n) == n

Statement(do, arg) == [do |-> do, arg |-> arg]

\* Whether the subtraction that asks for the k last blocks wraps.
TooMany(t, k) == k > ChainHead(t)
LastBlocks(t, k, some) ==
    IF TooMany(t, k)
    THEN IF OverflowChecks THEN [t |-> t, r |-> <<"overflow">>] ELSE Done(t, {})
    ELSE some

-----------------------------------------------------------------------------
\* block/src/state_pg.rs

pg_raw_query(t) == Done(NoBlocks, Unit)

pg_is_block_head(t) == Done(t, t.head # NULL)

pg_store_block_head(t, n) == Done(IF t.head = NULL THEN [t EXCEPT !.head = n] ELSE t, Unit)

pg_update_block_head(t, n) ==
    IF ~Value(pg_is_block_head(t).r) THEN pg_store_block_head(t, n)
    ELSE Done([t EXCEPT !.head = n], Unit)

pg_load_chain_state(t) == Done(t, ChainHead(t))

pg_load_genesis_block_time(t) ==
    IF t.genesis = NoRows THEN Fail(t)
    ELSE Done(t, {<<n, t.genesis[n]>> : n \in DOMAIN t.genesis})

pg_store_genesis_block_time(t, n, e) ==
    Done([t EXCEPT !.genesis = WithKeys(@, {n}, LAMBDA k : e, FALSE)], Unit)

pg_store_transaction(t, rows) == Done(WithRows(t, rows, FALSE), Unit)
pg_batch_store_transactions(t, rows) == Done(WithRows(t, rows, FALSE), Unit)
pg_store_block_header(t, n) ==
    Done([t EXCEPT !.header = WithKeys(@, {n}, Parent, FALSE)], Unit)
pg_batch_store_block_headers(t, N) ==
    Done([t EXCEPT !.header = WithKeys(@, N, Parent, FALSE)], Unit)

pg_store_meta(t, N) == Done([t EXCEPT !.meta = WithKeys(@, N, No, FALSE)], Unit)

\* The head moves by one block at a time.
pg_next_block_head(t, n) ==
    IF ChainHead(t) = n - 1 THEN pg_update_block_head(t, n) ELSE Done(t, Unit)

\* Defect: the header is stored before the transactions.
pg_store_block_header_first(n) ==
    <<Statement("store_block_header", n)>>
        \o [i \in DOMAIN Txs[n] |-> Statement("store_transaction", {<<Txs[n][i], n, i>>})]
        \o <<Statement("next_block_head", n), Statement("store_meta", {n})>>

pg_store_block(n) ==
    [i \in DOMAIN Txs[n] |-> Statement("store_transaction", {<<Txs[n][i], n, i>>})]
        \o <<Statement("store_block_header", n), Statement("next_block_head", n),
             Statement("store_meta", {n})>>

pg_batch_store_blocks(ns) ==
    <<Statement("store_meta", Range(ns)), Statement("batch_store_transactions", RowsOf(ns)),
      Statement("batch_store_block_headers", Range(ns)), Statement("update_block_head", Last(ns))>>

pg_store_transaction_metadata(t, tx, ok) ==
    Done([t EXCEPT !.metadata = WithKeys(@, {tx}, LAMBDA k : ok, FALSE)], Unit)

pg_load_transaction_metadata(t, tx) ==
    IF Has(t.metadata, tx) THEN Done(t, t.metadata[tx]) ELSE Fail(t)

\* Mutant of pg_get_transaction_count: the block itself is not counted.
pg_get_transaction_count_before(t, a, n) ==
    Done(t, Cardinality({k \in SentBy(t, a) : n # NULL => k[2] < n}))

pg_get_transaction_count(t, a, n) ==
    Done(t, Cardinality({k \in SentBy(t, a) : n # NULL => k[2] <= n}))

pg_load_block_header(t, n) == IF Has(t.header, n) THEN Done(t, n) ELSE Fail(t)

pg_load_transactions(t, n) == Done(t, InOrder(t, InBlock(t, n)))

\* Neither the metadata nor the executed flag is read.
pg_load_transactions_response(t, n) ==
    Done(t, {Receipt(k[1], n, TRUE, "limit") : k \in InBlock(t, n)})

pg_load_block(t, n) ==
    Then(pg_load_block_header(t, n), LAMBDA t1, h : pg_load_transactions(t1, n))

pg_load_block_response(t, n) ==
    Then(pg_load_block_header(t, n), LAMBDA t1, h : pg_load_transactions_response(t1, n))

pg_block_head(t) == pg_load_block(t, ChainHead(t))
pg_block_head_header(t) == pg_load_block_header(t, ChainHead(t))

pg_get_block_number_by_hash(t, n) == pg_load_block_header(t, n)

pg_load_transaction(t, tx) ==
    IF \E k \in DOMAIN t.tx : k[1] = tx THEN Done(t, tx) ELSE Fail(t)

pg_is_block_executed(t, n) == Done(t, Has(t.meta, n) /\ t.meta[n])

\* The youngest row of the transaction.  Without metadata the transaction is
\* taken to have succeeded when the block has transactions.
pg_load_transaction_receipt(t, tx) ==
    LET rows == {k \in DOMAIN t.tx : k[1] = tx}
        last == CHOOSE k \in rows : \A k1 \in rows : t.tx[k1].age <= t.tx[k].age
        metadata == pg_load_transaction_metadata(t, tx)
    IN IF rows = {} THEN Fail(t)
       ELSE IF ~Value(pg_is_block_executed(t, last[2]).r) THEN Fail(t)
       ELSE Done(t, IF IsOk(metadata.r)
                    THEN Receipt(tx, last[2], Value(metadata.r), "used")
                    ELSE Receipt(tx, last[2], Has(t.header, last[2]), "none"))

pg_load_transaction_receipt_by_address(t, a) ==
    Done(t, {Receipt(k[1], k[2], TRUE, "limit") : k \in SentBy(t, a)})

pg_load_latest_block_headers(t, k) ==
    LastBlocks(t, k, Done(t, {n \in DOMAIN t.header : n > ChainHead(t) - k}))

\* Any rows; the answer here is how many.
pg_load_latest_transactions(t, k) ==
    Done(t, IF k < Cardinality(DOMAIN t.tx) THEN k ELSE Cardinality(DOMAIN t.tx))

pg_is_block_header_stored(t, n) == Done(t, Has(t.header, n))

\* No row, no flag, no error.
pg_set_block_executed(t, n) ==
    Done(IF Has(t.meta, n) THEN [t EXCEPT !.meta[n] = TRUE] ELSE t, Unit)

-----------------------------------------------------------------------------
\* block/src/state_cas.rs.  A header is read with nine columns, three more than
\* the table has.

cas_raw_query(t) == Done(NoBlocks, Unit)
cas_is_block_head(t) == Done(t, t.head # NULL)
cas_store_block_head(t, n) == Done([t EXCEPT !.head = n], Unit)
cas_update_block_head(t, n) == cas_store_block_head(t, n)
cas_load_chain_state(t) == Done(t, ChainHead(t))
cas_load_genesis_block_time(t) == Todo(t)

\* The table is never made.
cas_store_genesis_block_time(t, n, e) == Fail(t)

cas_store_transaction(t, rows) == Done(WithRows(t, rows, TRUE), Unit)
cas_batch_store_transactions(t, rows) == Done(WithRows(t, rows, TRUE), Unit)

\* The hash of the block is stored as that of its parent.
cas_store_block_header(t, n) ==
    Done([t EXCEPT !.header = WithKeys(@, {n}, Self, TRUE)], Unit)
cas_batch_store_block_headers(t, N) ==
    Done([t EXCEPT !.header = WithKeys(@, N, Parent, TRUE)], Unit)
cas_store_meta(t, N) == Done([t EXCEPT !.meta = WithKeys(@, N, No, TRUE)], Unit)

cas_store_block(n) ==
    <<Statement("store_meta", {n}), Statement("store_block_header", n)>>
        \o [i \in DOMAIN Txs[n] |-> Statement("store_transaction", {<<Txs[n][i], n, i>>})]
        \o <<Statement("update_block_head", n)>>

cas_batch_store_blocks(ns) ==
    <<Statement("store_meta", Range(ns)), Statement("batch_store_block_headers", Range(ns)),
      Statement("batch_store_transactions", RowsOf(ns)), Statement("update_block_head", Last(ns))>>

cas_store_transaction_metadata(t, tx, ok) == Fail(t)
cas_get_transaction_count(t, a, n) == pg_get_transaction_count(t, a, n)
cas_load_block_header(t, n) == Fail(t)
cas_load_transactions(t, n) == Done(t, InOrder(t, InBlock(t, n)))
cas_load_transactions_response(t, n) ==
    Done(t, {Receipt(k[1], n, FALSE, "limit") : k \in InBlock(t, n)})
cas_load_block(t, n) ==
    Then(cas_load_block_header(t, n), LAMBDA t1, h : cas_load_transactions(t1, n))
cas_load_block_response(t, n) ==
    Then(cas_load_block_header(t, n), LAMBDA t1, h : cas_load_transactions_response(t1, n))
cas_block_head(t) == cas_load_block(t, ChainHead(t))
cas_block_head_header(t) == cas_load_block_header(t, ChainHead(t))
cas_get_block_number_by_hash(t, n) == Todo(t)
cas_load_transaction(t, tx) == Done(t, IF \E k \in DOMAIN t.tx : k[1] = tx THEN tx ELSE NULL)

\* A transaction in two blocks is an error.
cas_load_transaction_receipt(t, tx) ==
    LET rows == {k \in DOMAIN t.tx : k[1] = tx} IN
    IF Cardinality(rows) # 1 THEN Fail(t)
    ELSE Done(t, Receipt(tx, (CHOOSE k \in rows : TRUE)[2], FALSE, "limit"))

cas_load_transaction_receipt_by_address(t, a) ==
    Done(t, {Receipt(k[1], k[2], FALSE, "limit") : k \in SentBy(t, a)})

cas_load_latest_block_headers(t, k) ==
    LastBlocks(t, k, IF \E n \in DOMAIN t.header : n > ChainHead(t) - k THEN Fail(t)
                     ELSE Done(t, {}))

cas_load_latest_transactions(t, k) == pg_load_latest_transactions(t, k)
cas_is_block_executed(t, n) == IF Has(t.meta, n) THEN Done(t, t.meta[n]) ELSE Fail(t)
cas_is_block_header_stored(t, n) == Unsupported(t)
cas_set_block_executed(t, n) ==
    Done([t EXCEPT !.meta = WithKeys(@, {n}, LAMBDA k : TRUE, TRUE)], Unit)

-----------------------------------------------------------------------------
\* block/src/state_rock.rs.  A transaction has one entry, that of the last block
\* it was stored for; the lists grow with every call.

rock_raw_query(t) == Done(NoBlocks, Unit)
rock_is_block_head(t) == Done(t, t.head # NULL)
rock_store_block_head(t, n) == Done([t EXCEPT !.head = n], Unit)
rock_update_block_head(t, n) == Done([t EXCEPT !.head = n], Unit)
rock_load_chain_state(t) == Done(t, ChainHead(t))
rock_load_genesis_block_time(t) == Todo(t)
rock_store_genesis_block_time(t, n, e) == Todo(t)

add_transaction_to_address(t, tx) == [t EXCEPT !.sent = Append(@, tx)]
get_transactions_for_address(t, a) == SelectSeq(t.sent, LAMBDA tx : Sender[tx] = a)
store_transaction_for_block_number(t, n, tx) == [t EXCEPT !.list[n] = Append(@, tx)]
get_transactions_for_block(t, n) == t.list[n]

rock_store_transaction(t, rows) ==
    LET r == CHOOSE r \in rows : TRUE
        put == [t EXCEPT !.tx = Put(@, r[1], [block_number |-> r[2], sequence |-> r[3]])]
    IN Done(store_transaction_for_block_number(add_transaction_to_address(put, r[1]), r[2], r[1]),
            Unit)

rock_store_block_header(t, n) == Done([t EXCEPT !.header = Put(@, n, n - 1)], Unit)
rock_store_meta(t, N) == Done([t EXCEPT !.meta = WithKeys(@, N, No, TRUE)], Unit)

rock_store_block(n) == cas_store_block(n)

rock_store_transaction_metadata(t, tx, ok) == Done([t EXCEPT !.metadata = Put(@, tx, ok)], Unit)

\* With a block number, the transactions of that block, whoever sent them.
rock_get_transaction_count(t, a, n) ==
    Done(t, IF n # NULL THEN Len(get_transactions_for_block(t, n))
            ELSE Len(get_transactions_for_address(t, a)))

rock_load_block_header(t, n) == IF Has(t.header, n) THEN Done(t, n) ELSE Fail(t)
rock_load_transaction(t, tx) == Done(t, IF Has(t.tx, tx) THEN tx ELSE NULL)
rock_load_transactions(t, n) ==
    IF \A i \in DOMAIN t.list[n] : Has(t.tx, t.list[n][i])
    THEN Done(t, get_transactions_for_block(t, n)) ELSE Fail(t)
rock_receipts(t, txs) ==
    {Receipt(txs[i], t.tx[txs[i]].block_number, FALSE, "limit") : i \in DOMAIN txs}
rock_load_transactions_response(t, n) ==
    Then(rock_load_transactions(t, n), LAMBDA t1, txs : Done(t1, rock_receipts(t1, txs)))
rock_load_block(t, n) ==
    Then(rock_load_block_header(t, n), LAMBDA t1, h : rock_load_transactions(t1, n))
rock_load_block_response(t, n) ==
    Then(rock_load_block_header(t, n), LAMBDA t1, h : rock_load_transactions_response(t1, n))
rock_block_head(t) == IF t.head = NULL THEN Fail(t) ELSE rock_load_block(t, t.head)
rock_block_head_header(t) == rock_load_block_header(t, ChainHead(t))
rock_get_block_number_by_hash(t, n) == Todo(t)
rock_load_transaction_receipt(t, tx) ==
    IF Has(t.tx, tx) THEN Done(t, Receipt(tx, t.tx[tx].block_number, FALSE, "limit")) ELSE Fail(t)
rock_load_transaction_receipt_by_address(t, a) ==
    Done(t, rock_receipts(t, get_transactions_for_address(t, a)))

\* The keys have the number in decimal and are searched from a hexadecimal one
\* with leading zeros, so from the first; the scan ends at a number that is too
\* low.  Numbers of one digit are in the order of their keys.
get_all_block_headers(t, lower) ==
    IF \A n \in DOMAIN t.header : n > lower THEN DOMAIN t.header ELSE {}
rock_load_latest_block_headers(t, k) ==
    LastBlocks(t, k, Done(t, get_all_block_headers(t, ChainHead(t) - k)))

rock_load_latest_transactions(t, k) ==
    Done(t, IF k < Cardinality(DOMAIN t.tx) THEN k ELSE Cardinality(DOMAIN t.tx))
rock_is_block_executed(t, n) == Done(t, n \in t.executed)
rock_is_block_header_stored(t, n) == Unsupported(t)
rock_set_block_executed(t, n) == Done([t EXCEPT !.executed = @ \cup {n}], Unit)

-----------------------------------------------------------------------------
\* block/src/block_state.rs

raw_query(b, t) == On(b, pg_raw_query(t), cas_raw_query(t), rock_raw_query(t))

store_block_head(b, t, n) ==
    On(b, pg_store_block_head(t, n), cas_store_block_head(t, n), rock_store_block_head(t, n))

update_block_head(b, t, n) ==
    On(b, pg_update_block_head(t, n), cas_update_block_head(t, n), rock_update_block_head(t, n))

load_chain_state(b, t) ==
    On(b, pg_load_chain_state(t), cas_load_chain_state(t), rock_load_chain_state(t))

block_head(b, t) == On(b, pg_block_head(t), cas_block_head(t), rock_block_head(t))

block_head_header(b, t) ==
    On(b, pg_block_head_header(t), cas_block_head_header(t), rock_block_head_header(t))

store_transaction_metadata(b, t, tx, ok) ==
    On(b, pg_store_transaction_metadata(t, tx, ok), cas_store_transaction_metadata(t, tx, ok),
          rock_store_transaction_metadata(t, tx, ok))

get_transaction_count(b, t, a, n) ==
    On(b, pg_get_transaction_count(t, a, n), cas_get_transaction_count(t, a, n),
          rock_get_transaction_count(t, a, n))

load_block(b, t, n) == On(b, pg_load_block(t, n), cas_load_block(t, n), rock_load_block(t, n))

get_block_number_by_hash(b, t, n) ==
    On(b, pg_get_block_number_by_hash(t, n), cas_get_block_number_by_hash(t, n),
          rock_get_block_number_by_hash(t, n))

load_block_response(b, t, n) ==
    On(b, pg_load_block_response(t, n), cas_load_block_response(t, n),
          rock_load_block_response(t, n))

load_block_header(b, t, n) ==
    On(b, pg_load_block_header(t, n), cas_load_block_header(t, n), rock_load_block_header(t, n))

load_transaction(b, t, tx) ==
    On(b, pg_load_transaction(t, tx), cas_load_transaction(t, tx), rock_load_transaction(t, tx))

load_transaction_receipt(b, t, tx) ==
    On(b, pg_load_transaction_receipt(t, tx), cas_load_transaction_receipt(t, tx),
          rock_load_transaction_receipt(t, tx))

load_transaction_receipt_by_address(b, t, a) ==
    On(b, pg_load_transaction_receipt_by_address(t, a),
          cas_load_transaction_receipt_by_address(t, a),
          rock_load_transaction_receipt_by_address(t, a))

load_latest_block_headers(b, t, k) ==
    On(b, pg_load_latest_block_headers(t, k), cas_load_latest_block_headers(t, k),
          rock_load_latest_block_headers(t, k))

load_latest_transactions(b, t, k) ==
    On(b, pg_load_latest_transactions(t, k), cas_load_latest_transactions(t, k),
          rock_load_latest_transactions(t, k))

load_transactions(b, t, n) ==
    On(b, pg_load_transactions(t, n), cas_load_transactions(t, n), rock_load_transactions(t, n))

load_transactions_response(b, t, n) ==
    On(b, pg_load_transactions_response(t, n), cas_load_transactions_response(t, n),
          rock_load_transactions_response(t, n))

is_block_head(b, t) == On(b, pg_is_block_head(t), cas_is_block_head(t), rock_is_block_head(t))

is_block_executed(b, t, n) ==
    On(b, pg_is_block_executed(t, n), cas_is_block_executed(t, n), rock_is_block_executed(t, n))

is_block_header_stored(b, t, n) ==
    On(b, pg_is_block_header_stored(t, n), cas_is_block_header_stored(t, n),
          rock_is_block_header_stored(t, n))

set_block_executed(b, t, n) ==
    On(b, pg_set_block_executed(t, n), cas_set_block_executed(t, n),
          rock_set_block_executed(t, n))

load_genesis_block_time(b, t) ==
    On(b, pg_load_genesis_block_time(t), cas_load_genesis_block_time(t),
          rock_load_genesis_block_time(t))

store_genesis_block_time(b, t, n, e) ==
    On(b, pg_store_genesis_block_time(t, n, e), cas_store_genesis_block_time(t, n, e),
          rock_store_genesis_block_time(t, n, e))

Run(b, t, s) ==
    CASE s.do = "store_transaction" ->
            On(b, pg_store_transaction(t, s.arg), cas_store_transaction(t, s.arg),
                  rock_store_transaction(t, s.arg))
      [] s.do = "batch_store_transactions" ->
            On(b, pg_batch_store_transactions(t, s.arg), cas_batch_store_transactions(t, s.arg),
                  Todo(t))
      [] s.do = "store_block_header" ->
            On(b, pg_store_block_header(t, s.arg), cas_store_block_header(t, s.arg),
                  rock_store_block_header(t, s.arg))
      [] s.do = "batch_store_block_headers" ->
            On(b, pg_batch_store_block_headers(t, s.arg), cas_batch_store_block_headers(t, s.arg),
                  Todo(t))
      [] s.do = "store_meta" ->
            On(b, pg_store_meta(t, s.arg), cas_store_meta(t, s.arg), rock_store_meta(t, s.arg))
      [] s.do = "next_block_head" -> pg_next_block_head(t, s.arg)
      [] s.do = "update_block_head" -> update_block_head(b, t, s.arg)

RunAll(b, t, statements) ==
    Done(FoldLeft(LAMBDA u, s : Run(b, u, s).t, t, statements), Unit)

StoreBlock(b, n) == On(b, pg_store_block(n), cas_store_block(n), rock_store_block(n))
BatchStoreBlocks(b, ns) == IF b = "pg" THEN pg_batch_store_blocks(ns) ELSE cas_batch_store_blocks(ns)

store_block(b, t, n) == RunAll(b, t, StoreBlock(b, n))

batch_store_blocks(b, t, ns) ==
    IF b = "rock" THEN Todo(t)
    ELSE IF ns = << >> THEN Fail(t)
    ELSE RunAll(b, t, BatchStoreBlocks(b, ns))

-----------------------------------------------------------------------------
NoJob == [driver |-> NULL, rest |-> << >>]

Init == Empty([b \in Backends |-> NoBlocks]) /\ job = NoJob

Next ==
    /\ UNCHANGED job
    /\ \/ \E n \in Number :
          \/ Call("store_block_head", n,
                  [b \in Backends |-> store_block_head(b, db[b], n)])
          \/ Call("update_block_head", n,
                  [b \in Backends |-> update_block_head(b, db[b], n)])
          \/ Call("store_block", n,
                  [b \in Backends |-> store_block(b, db[b], n)])
          \/ Call("load_block", n,
                  [b \in Backends |-> load_block(b, db[b], n)])
          \/ Call("load_block_header", n,
                  [b \in Backends |-> load_block_header(b, db[b], n)])
          \/ Call("load_block_response", n,
                  [b \in Backends |-> load_block_response(b, db[b], n)])
          \/ Call("get_block_number_by_hash", n,
                  [b \in Backends |-> get_block_number_by_hash(b, db[b], n)])
          \/ Call("load_latest_block_headers", n,
                  [b \in Backends |-> load_latest_block_headers(b, db[b], n)])
          \/ Call("load_latest_transactions", n,
                  [b \in Backends |-> load_latest_transactions(b, db[b], n)])
          \/ Call("load_transactions", n,
                  [b \in Backends |-> load_transactions(b, db[b], n)])
          \/ Call("load_transactions_response", n,
                  [b \in Backends |-> load_transactions_response(b, db[b], n)])
          \/ Call("is_block_executed", n,
                  [b \in Backends |-> is_block_executed(b, db[b], n)])
          \/ Call("is_block_header_stored", n,
                  [b \in Backends |-> is_block_header_stored(b, db[b], n)])
          \/ Call("set_block_executed", n,
                  [b \in Backends |-> set_block_executed(b, db[b], n)])
          \/ \E a \in {Sender[tx] : tx \in Tx}, m \in {n, NULL} :
                Call("get_transaction_count", <<a, m>>,
                     [b \in Backends |-> get_transaction_count(b, db[b], a, m)])
          \/ Call("store_genesis_block_time", n,
                  [b \in Backends |-> store_genesis_block_time(b, db[b], n, 0)])
       \/ \E ns \in Batches :
            Call("batch_store_blocks", ns, [b \in Backends |-> batch_store_blocks(b, db[b], ns)])
       \/ \E tx \in Tx :
          \/ Call("load_transaction", tx,
                  [b \in Backends |-> load_transaction(b, db[b], tx)])
          \/ Call("load_transaction_receipt", tx,
                  [b \in Backends |-> load_transaction_receipt(b, db[b], tx)])
          \/ \E ok \in BOOLEAN :
                Call("store_transaction_metadata", tx,
                     [b \in Backends |-> store_transaction_metadata(b, db[b], tx, ok)])
       \/ \E a \in {Sender[tx] : tx \in Tx} :
            Call("load_transaction_receipt_by_address", a,
                 [b \in Backends |-> load_transaction_receipt_by_address(b, db[b], a)])
       \/ Call("load_chain_state", Unit, [b \in Backends |-> load_chain_state(b, db[b])])
       \/ Call("block_head", Unit, [b \in Backends |-> block_head(b, db[b])])
       \/ Call("block_head_header", Unit, [b \in Backends |-> block_head_header(b, db[b])])
       \/ Call("is_block_head", Unit, [b \in Backends |-> is_block_head(b, db[b])])
       \/ Call("load_genesis_block_time", Unit, [b \in Backends |-> load_genesis_block_time(b, db[b])])
       \/ Call("raw_query", Unit, [b \in Backends |-> raw_query(b, db[b])])

-----------------------------------------------------------------------------
Compared == Backends

LoadedTxs(b, n) == Value((On(b, pg_load_transactions(db[b], n), cas_load_transactions(db[b], n),
                                rock_load_transactions(db[b], n))).r)

Executed(b) ==
    IF b = "rock" THEN db[b].executed ELSE {n \in DOMAIN db[b].meta : db[b].meta[n]}

Contents(b) ==
    [head |-> db[b].head, header |-> DOMAIN db[b].header, meta |-> DOMAIN db[b].meta,
     txs |-> [n \in Number |-> LoadedTxs(b, n)], executed |-> Executed(b)]

(* Postgres ignores a row that is there, moves the head by one block only  *)
(* and marks no block that has no row.  Cassandra cannot read its headers  *)
(* back and forgets that a block was executed when it is stored again;     *)
(* RocksDB then lists its transactions twice.                              *)
Differs(t, op, arg) ==
    LET head == IF t.head = NULL THEN 0 ELSE t.head
        stored == {n \in Number : t.txs[n] # << >>}
        blocks(tx) == {n \in Number : tx \in Range(t.txs[n])}
        rows(a, N) == {<<n, i>> \in N \X (1 .. 2) :
                            i \in DOMAIN t.txs[n] /\ a \in {NULL, Sender[t.txs[n][i]]}}
        distinct == UNION {Range(t.txs[n]) : n \in Number}
        capped(k, n) == IF k < n THEN k ELSE n
    IN CASE op = "store_block_head" -> t.head \notin {NULL, arg}
         [] op \in {"block_head", "block_head_header"} -> head \in t.header
         [] op \in {"load_block", "load_block_header", "load_block_response"} -> arg \in t.header
         [] op = "store_block" -> arg \in stored \cup t.executed \/ head \notin {arg, arg - 1}
         [] op = "batch_store_blocks" -> Range(arg) \cap t.executed # {}
         [] op = "store_transaction_metadata" -> TRUE
         [] op = "store_genesis_block_time" -> TRUE
         [] op = "get_transaction_count" ->
                /\ arg[2] # NULL
                /\ Cardinality(rows(arg[1], {n \in Number : n <= arg[2]})) # Len(t.txs[arg[2]])
         [] op = "load_transaction" -> blocks(arg) = {}
         [] op = "load_transaction_receipt" -> blocks(arg) # {}
         [] op = "load_transaction_receipt_by_address" -> rows(arg, Number) # {}
         [] op = "load_latest_block_headers" ->
                arg <= head /\ \E n \in t.header : n > head - arg
         [] op = "load_latest_transactions" ->
                capped(arg, Cardinality(rows(NULL, Number))) # capped(arg, Cardinality(distinct))
         [] op = "load_transactions_response" -> arg \in stored
         [] op \in {"is_block_executed", "set_block_executed"} -> arg \notin t.meta
         [] OTHER -> FALSE

-----------------------------------------------------------------------------
(* A node with one driver stores blocks, one by one or in batches, again   *)
(* when it likes, and marks those it executed.  It may stop between any    *)
(* two statements.                                                         *)

NodeInit ==
    /\ Empty([b \in Backends |-> NoBlocks])
    /\ \E b \in Backends : job = [driver |-> b, rest |-> << >>]

Own == db[job.driver]
SetOwn(out) == db' = [db EXCEPT ![job.driver] = out.t] /\ UNCHANGED <<result, call>>

BeginStore ==
    /\ job.rest = << >>
    /\ \/ \E n \in Number : job' = [job EXCEPT !.rest = StoreBlock(job.driver, n)]
       \/ /\ job.driver # "rock"
          /\ \E ns \in Batches \ {<< >>} :
                job' = [job EXCEPT !.rest = BatchStoreBlocks(job.driver, ns)]
    /\ UNCHANGED vars

RunStatement ==
    /\ job.rest # << >>
    /\ SetOwn(Run(job.driver, Own, Head(job.rest)))
    /\ job' = [job EXCEPT !.rest = Tail(@)]

Stop == job.rest # << >> /\ job' = [job EXCEPT !.rest = << >>] /\ UNCHANGED vars

\* execute_block.rs marks a block whose header it has read.
Execute(n) ==
    /\ job.rest = << >>
    /\ Has(Own.header, n) /\ n \notin Executed(job.driver)
    /\ SetOwn(set_block_executed(job.driver, Own, n))
    /\ UNCHANGED job

NodeNext == BeginStore \/ RunStatement \/ Stop \/ \E n \in Number : Execute(n)

\* Bound: metadata of one transaction, or one genesis time.
OneRow == Cardinality(DOMAIN db.pg.metadata) + Cardinality(DOMAIN db.pg.genesis) <= 1

\* Bound: RocksDB lists no transaction more than twice.
Listed == \A n \in Number : Len(db.rock.list[n]) <= 2 * Len(Txs[n])

\* With Postgres a block that is read while it is being stored, or after the node
\* stopped while storing it, is there with all its transactions or not at all.
ReadBlockIsWhole ==
    job.driver = "pg" =>
        \A n \in Number : LET block == pg_load_block(Own, n) IN
            IsOk(block.r) => Value(block.r) = Txs[n]

\* The block at the head of the chain has its header and all its transactions, with
\* every driver and wherever the node stopped.
HeadIsStored ==
    Own.head # NULL =>
        /\ Has(Own.header, Own.head)
        /\ Range(Txs[Own.head]) \subseteq Range(LoadedTxs(job.driver, Own.head))

=============================================================================
