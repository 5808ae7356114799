------------------------- MODULE BlockProposerStore -------------------------
(***************************************************************************)
(* The proposers of the epochs.  The Postgres table has no key, so that an *)
(* epoch may have several rows; a query that reads the first of them may   *)
(* return any, and its answer here is the set of what it may return.       *)
(* RocksDB has the last proposer of an epoch and two lists.                *)
(***************************************************************************)
EXTENDS Integers, Sequences, FiniteSets, FiniteSetsExt, Store

CONSTANTS Cluster, Epoch, Address,
          MaxRows       \* bound on the rows of Postgres and the lists of RocksDB

Row(c, e, a, selected) == [cluster |-> c, epoch |-> e, address |-> a, selected |-> selected]

RowsOf(t) == {t[i] : i \in DOMAIN t}

\* What a query for the first row may return, an error if there is none.
FirstOf(t, values) == IF values = {} THEN Fail(t) ELSE Done(t, values)

Number(t, a) == Cardinality({i \in DOMAIN t : t[i].address = a})

\* The proposer of every epoch of the cluster that rows may give.
ByEpoch(rows, c) ==
    [e \in {r.epoch : r \in {r \in rows : r.cluster = c}} |->
        {r.address : r \in {r \in rows : r.cluster = c /\ r.epoch = e}}]

MaxEpoch(rows, c) == Max({r.epoch : r \in {r \in rows : r.cluster = c}})

-----------------------------------------------------------------------------
\* block_proposer/src/state_pg.rs; the table is the sequence of its rows

pg_create(t, c, e, a) == Done(Append(t, Row(c, e, a, FALSE)), Unit)

\* The rows of the epoch in every cluster.
pg_update(t, c, e, a) ==
    Done([i \in DOMAIN t |-> IF t[i].epoch = e THEN Row(c, e, a, FALSE) ELSE t[i]], Unit)

pg_raw_query(t) == Done(<< >>, Unit)

pg_store_block_proposer(t, c, e, a) == pg_create(t, c, e, a)

pg_load_selectors_block_epochs(t, a) ==
    Done(t, <<{r.epoch : r \in {r \in RowsOf(t) : r.address = a}}, Number(t, a)>>)

pg_update_selected_next(t, a, c) ==
    Done([i \in DOMAIN t |-> IF t[i].address = a /\ t[i].cluster = c
                             THEN [t[i] EXCEPT !.selected = TRUE] ELSE t[i]], Unit)

\* One proposer is selected at a time; the selector is not used.
pg_store_block_proposers(t, c, e, a, selector) == pg_store_block_proposer(t, c, e, a)

pg_load_last_block_proposer_epoch(t, c) ==
    IF \E r \in RowsOf(t) : r.cluster = c THEN Done(t, MaxEpoch(RowsOf(t), c)) ELSE Fail(t)

pg_load_block_proposer(t, c, e) ==
    FirstOf(t, {r.address : r \in {r \in RowsOf(t) : r.cluster = c /\ r.epoch = e}})

pg_load_block_proposers(t, c) == Done(t, ByEpoch(RowsOf(t), c))

pg_find_cluster_address(t, a) ==
    FirstOf(t, {r.cluster : r \in {r \in RowsOf(t) : r.address = a}})

\* An address without rows counts as selected.
pg_is_selected_next(t, a) == Done(t, \A r \in RowsOf(t) : r.address = a => r.selected)

pg_create_or_update(t, c, e, a) ==
    IF \E r \in RowsOf(t) : r.epoch = e THEN pg_update(t, c, e, a) ELSE pg_create(t, c, e, a)

-----------------------------------------------------------------------------
\* block_proposer/src/state_cas.rs; the table is a function from
\* (address, cluster, epoch) to the flag

CasRows(t) == {Row(k[2], k[3], k[1], t[k]) : k \in DOMAIN t}

cas_store_block_proposer(t, c, e, a) == Upsert(t, <<a, c, e>>, FALSE)

cas_raw_query(t) == Truncate(t)

\* None if there is no row, which reads like an empty list.
cas_load_selectors_block_epochs(t, a) ==
    LET epochs == {k[3] : k \in {k \in DOMAIN t : k[1] = a}}
    IN IF epochs = {} THEN Done(t, NULL)
       ELSE Done(t, <<epochs, Cardinality({k \in DOMAIN t : k[1] = a})>>)

\* The update makes the rows that are not there.
cas_update_selected_next(t, a, c) ==
    LET keys == {<<a, c, k[3]>> : k \in {k \in DOMAIN t : k[1] = a}}
    IN Done([k \in DOMAIN t \cup keys |-> IF k \in keys THEN TRUE ELSE t[k]], Unit)

cas_store_block_proposers(t, c, e, a, selector) ==
    Then(cas_store_block_proposer(t, c, e, a),
         LAMBDA u, x : IF selector = NULL THEN Done(u, Unit)
                       ELSE cas_update_selected_next(u, selector, c))

cas_load_last_block_proposer_epoch(t, c) ==
    IF \E k \in DOMAIN t : k[2] = c THEN Done(t, MaxEpoch(CasRows(t), c)) ELSE Fail(t)

cas_load_block_proposer(t, c, e) ==
    FirstOf(t, {k[1] : k \in {k \in DOMAIN t : k[2] = c /\ k[3] = e}})

cas_load_block_proposers(t, c) == Done(t, ByEpoch(CasRows(t), c))

cas_find_cluster_address(t, a) == FirstOf(t, {k[2] : k \in {k \in DOMAIN t : k[1] = a}})

cas_is_selected_next(t, a) == Done(t, \A k \in DOMAIN t : k[1] = a => t[k])

cas_create_or_update(t, c, e, a) == Unsupported(t)

-----------------------------------------------------------------------------
\* block_proposer/src/state_rocks.rs; last is the row of a cluster and epoch,
\* list is the list of a cluster or an address, as one list of everything

rock_store_block_proposer(t, c, e, a) ==
    Done([last |-> Put(t.last, <<c, e>>, a), list |-> Append(t.list, Row(c, e, a, FALSE))], Unit)

rock_raw_query(t) == Done([last |-> NoRows, list |-> << >>], Unit)

rock_load_selectors_block_epochs(t, a) ==
    LET epochs == {r.epoch : r \in {r \in RowsOf(t.list) : r.address = a}}
    IN IF epochs = {} THEN Done(t, NULL) ELSE Done(t, <<epochs, Number(t.list, a)>>)

rock_update_selected_next(t, a, c) == Todo(t)

rock_store_block_proposers(t, c, e, a, selector) ==
    Then(rock_store_block_proposer(t, c, e, a),
         LAMBDA u, x : IF selector = NULL THEN Done(u, Unit)
                       ELSE rock_update_selected_next(u, selector, c))

\* Zero if there is none.
rock_load_last_block_proposer_epoch(t, c) ==
    Done(t, IF \E r \in RowsOf(t.list) : r.cluster = c THEN MaxEpoch(RowsOf(t.list), c) ELSE 0)

rock_load_block_proposer(t, c, e) ==
    IF Has(t.last, <<c, e>>) THEN Done(t, {t.last[<<c, e>>]}) ELSE Fail(t)

\* Of the rows of an epoch the last one inserted.
rock_load_block_proposers(t, c) ==
    Done(t, [e \in {k[2] : k \in {k \in DOMAIN t.last : k[1] = c}} |-> {t.last[<<c, e>>]}])

rock_find_cluster_address(t, a) == Todo(t)

rock_is_selected_next(t, a) == Todo(t)

rock_create_or_update(t, c, e, a) == Unsupported(t)

-----------------------------------------------------------------------------
\* block_proposer/src/block_proposer_state.rs

store_block_proposer(b, t, c, e, a) ==
    On(b, pg_store_block_proposer(t, c, e, a), cas_store_block_proposer(t, c, e, a),
          rock_store_block_proposer(t, c, e, a))

upsert_block_proposer(b, t, c, e, a) ==
    On(b, pg_create_or_update(t, c, e, a), cas_create_or_update(t, c, e, a),
          rock_create_or_update(t, c, e, a))

load_selectors_block_epochs(b, t, a) ==
    On(b, pg_load_selectors_block_epochs(t, a), cas_load_selectors_block_epochs(t, a),
          rock_load_selectors_block_epochs(t, a))

update_selected_next(b, t, a, c) ==
    On(b, pg_update_selected_next(t, a, c), cas_update_selected_next(t, a, c),
          rock_update_selected_next(t, a, c))

store_block_proposers(b, t, c, e, a, selector) ==
    On(b, pg_store_block_proposers(t, c, e, a, selector),
          cas_store_block_proposers(t, c, e, a, selector),
          rock_store_block_proposers(t, c, e, a, selector))

load_last_block_proposer_epoch(b, t, c) ==
    On(b, pg_load_last_block_proposer_epoch(t, c), cas_load_last_block_proposer_epoch(t, c),
          rock_load_last_block_proposer_epoch(t, c))

load_block_proposer(b, t, c, e) ==
    On(b, pg_load_block_proposer(t, c, e), cas_load_block_proposer(t, c, e),
          rock_load_block_proposer(t, c, e))

load_block_proposers(b, t, c) ==
    On(b, pg_load_block_proposers(t, c), cas_load_block_proposers(t, c),
          rock_load_block_proposers(t, c))

find_cluster_address(b, t, a) ==
    On(b, pg_find_cluster_address(t, a), cas_find_cluster_address(t, a),
          rock_find_cluster_address(t, a))

is_selected_next(b, t, a) ==
    On(b, pg_is_selected_next(t, a), cas_is_selected_next(t, a), rock_is_selected_next(t, a))

raw_query(b, t) == On(b, pg_raw_query(t), cas_raw_query(t), rock_raw_query(t))

-----------------------------------------------------------------------------
Init == Empty([pg |-> << >>, cas |-> NoRows, rock |-> [last |-> NoRows, list |-> << >>]])

Room == Len(db.pg) < MaxRows /\ Len(db.rock.list) < MaxRows

Next ==
    \/ \E c \in Cluster, e \in Epoch, a \in Address :
        /\ Room
        /\ \/ Call("store_block_proposer", <<c, e, a>>,
                   [b \in Backends |-> store_block_proposer(b, db[b], c, e, a)])
           \/ Call("upsert_block_proposer", <<c, e, a>>,
                   [b \in Backends |-> upsert_block_proposer(b, db[b], c, e, a)])
           \/ \E selector \in {NULL, a} :
                Call("store_block_proposers", <<c, e, a, selector>>,
                     [b \in Backends |-> store_block_proposers(b, db[b], c, e, a, selector)])
    \/ \E a \in Address :
        \/ Call("load_selectors_block_epochs", a,
                [b \in Backends |-> load_selectors_block_epochs(b, db[b], a)])
        \/ Call("find_cluster_address", a, [b \in Backends |-> find_cluster_address(b, db[b], a)])
        \/ Call("is_selected_next", a, [b \in Backends |-> is_selected_next(b, db[b], a)])
        \/ \E c \in Cluster : Call("update_selected_next", <<a, c>>,
                [b \in Backends |-> update_selected_next(b, db[b], a, c)])
    \/ \E c \in Cluster :
        \/ Call("load_last_block_proposer_epoch", c,
                [b \in Backends |-> load_last_block_proposer_epoch(b, db[b], c)])
        \/ Call("load_block_proposers", c, [b \in Backends |-> load_block_proposers(b, db[b], c)])
        \/ \E e \in Epoch : Call("load_block_proposer", <<c, e>>,
                [b \in Backends |-> load_block_proposer(b, db[b], c, e)])
    \/ Call("raw_query", Unit, [b \in Backends |-> raw_query(b, db[b])])

-----------------------------------------------------------------------------
Compared == Backends

Unselected(rows) == {[r EXCEPT !.selected = FALSE] : r \in rows}

Contents(b) == Unselected(CASE b = "pg" -> RowsOf(db[b])
                            [] b = "cas" -> CasRows(db[b])
                            [] b = "rock" -> RowsOf(db[b].list))

(* The calls on the set of rows t for which the drivers that support them  *)
(* differ.  They agree on the rows, but not on the flag, on how often a    *)
(* row is there, nor on which of two proposers of an epoch is read.        *)
Differs(t, op, arg) ==
    LET proposers(c, e) == {r.address : r \in {r \in t : r.cluster = c /\ r.epoch = e}}
        of(a) == {r \in t : r.address = a}
        \* a has an epoch in another cluster that it does not have in c
        elsewhere(a, c, u) == \E r \in of(a) : [r EXCEPT !.cluster = c] \notin u
        selected(rows, a) == \A r \in rows : r.address = a => r.selected
    IN CASE op = "load_selectors_block_epochs" ->
                of(arg) = {} \/ Number(db.pg, arg) > Cardinality(of(arg))
         [] op = "update_selected_next" -> elsewhere(arg[1], arg[2], t)
         [] op = "store_block_proposers" ->
                /\ arg[4] # NULL
                /\ elsewhere(arg[4], arg[1], t \cup {Row(arg[1], arg[2], arg[3], FALSE)})
         [] op = "load_last_block_proposer_epoch" -> \A r \in t : r.cluster # arg
         [] op = "load_block_proposer" -> Cardinality(proposers(arg[1], arg[2])) > 1
         [] op = "load_block_proposers" -> \E e \in Epoch : Cardinality(proposers(arg, e)) > 1
         [] op = "is_selected_next" -> selected(RowsOf(db.pg), arg) # selected(CasRows(db.cas), arg)
         [] OTHER -> FALSE
=============================================================================
