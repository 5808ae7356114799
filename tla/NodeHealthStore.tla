--------------------------- MODULE NodeHealthStore ---------------------------
(***************************************************************************)
(* What nodes measured of each other in an epoch.  A row is named by the   *)
(* node that was measured (measured_peer_id), the node that measured it    *)
(* (peer_id) and the epoch.  The answer of a query for the first row is    *)
(* the set of rows it may return.                                          *)
(***************************************************************************)
EXTENDS Integers, FiniteSets, Functions, Store

CONSTANTS Peer, Epoch, Report,
          MaxRows       \* bound on the rows of a table

NodeHealth == [measured_peer_id : Peer, peer_id : Peer, epoch : Epoch, report : Report]

Key(h) == <<h.measured_peer_id, h.peer_id, h.epoch>>
AnyOf(rows) == IF rows = {} THEN NULL ELSE rows
Measured(t, p, e) == {r \in Range(t) : r.peer_id = p /\ r.epoch = e}

-----------------------------------------------------------------------------
\* l1x_node_health/src/state_pg.rs

pg_create(t, h) == Insert(t, Key(h), h)

\* The rows of the measured node, whoever measured it.
pg_update(t, h) ==
    UpdateWhere(t, {k \in DOMAIN t : k[1] = h.measured_peer_id /\ k[3] = h.epoch},
                [report |-> h.report])
pg_raw_query(t) == Truncate(t)
pg_load_node_health(t, p, e) == Done(t, AnyOf(Measured(t, p, e)))
pg_load_node_healths(t, e) == Done(t, {r \in Range(t) : r.epoch = e})

\* Any row of the epoch makes this an update.
pg_create_or_update(t, h) ==
    IF \E r \in Range(t) : r.epoch = h.epoch THEN pg_update(t, h) ELSE pg_create(t, h)

-----------------------------------------------------------------------------
\* l1x_node_health/src/state_cas.rs

cas_create(t, h) == Upsert(t, Key(h), h)
cas_update(t, h) == Done(t, Unit)
cas_raw_query(t) == Truncate(t)
cas_load_node_health(t, p, e) == Done(t, AnyOf(Measured(t, p, e)))
cas_load_node_healths(t, e) == Unsupported(t)
cas_create_or_update(t, h) == Unsupported(t)

-----------------------------------------------------------------------------
\* l1x_node_health/src/state_rocks.rs.  The prefix that is read has a star in
\* the place of the measured node; the iterator begins at the next key, which
\* is that of any row.

rock_create(t, h) == Upsert(t, Key(h), h)
rock_update(t, h) == Done(t, Unit)
rock_raw_query(t) == Unsupported(t)
rock_load_node_health(t, p, e) == Done(t, AnyOf(Range(t)))
rock_load_node_healths(t, e) == Unsupported(t)
rock_create_or_update(t, h) == Unsupported(t)

-----------------------------------------------------------------------------
\* l1x_node_health/src/node_health_state.rs

store_node_health(b, t, h) == On(b, pg_create(t, h), cas_create(t, h), rock_create(t, h))

load_node_health(b, t, p, e) ==
    On(b, pg_load_node_health(t, p, e), cas_load_node_health(t, p, e),
          rock_load_node_health(t, p, e))

update_node_health(b, t, h) == On(b, pg_update(t, h), cas_update(t, h), rock_update(t, h))

load_node_healths(b, t, e) ==
    On(b, pg_load_node_healths(t, e), cas_load_node_healths(t, e), rock_load_node_healths(t, e))

upsert_node_health(b, t, h) ==
    On(b, pg_create_or_update(t, h), cas_create_or_update(t, h), rock_create_or_update(t, h))

raw_query(b, t) == On(b, pg_raw_query(t), cas_raw_query(t), rock_raw_query(t))
-----------------------------------------------------------------------------
Init == Empty([b \in Backends |-> NoRows])

Next ==
    \/ \E h \in NodeHealth :
        /\ \A b \in Backends : Cardinality(DOMAIN db[b]) < MaxRows
        /\ Call("store_node_health", h, [b \in Backends |-> store_node_health(b, db[b], h)])
    \/ \E h \in NodeHealth :
        \/ Call("update_node_health", h, [b \in Backends |-> update_node_health(b, db[b], h)])
        \/ /\ Cardinality(DOMAIN db.pg) < MaxRows
           /\ Call("upsert_node_health", h, [b \in Backends |-> upsert_node_health(b, db[b], h)])
    \/ \E p \in Peer, e \in Epoch :
        Call("load_node_health", <<p, e>>, [b \in Backends |-> load_node_health(b, db[b], p, e)])
    \/ \E e \in Epoch :
        Call("load_node_healths", e, [b \in Backends |-> load_node_healths(b, db[b], e)])
    \/ Call("raw_query", Unit, [b \in Backends |-> raw_query(b, db[b])])

-----------------------------------------------------------------------------
Compared == Backends

Contents(b) == db[b]

(* Only Postgres refuses a row that is there and updates one; RocksDB may  *)
(* answer a query with the row of another node or epoch.                   *)
Differs(t, op, arg) ==
    CASE op = "store_node_health" -> Has(t, Key(arg))
      [] op = "update_node_health" -> pg_update(t, arg).t # t
      [] op = "load_node_health" -> Measured(t, arg[1], arg[2]) # Range(t)
      [] OTHER -> FALSE
=============================================================================
