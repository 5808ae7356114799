---------------------------- MODULE NodeInfoStore ----------------------------
(***************************************************************************)
(* The members of the clusters, the temporary cache in front of the table, *)
(* and the operations of NodeInfoManager.  A table is kept with the cache  *)
(* of the NodeInfoState that reads it.  Signatures verify, and the address *)
(* of a node is that of its key.                                           *)
(***************************************************************************)
EXTENDS Integers, FiniteSets, Functions, Store

CONSTANTS Address, Cluster, Peer, Joined

NoPeer == "no peer"     \* the empty peer_id

NodeInfo == [address : Address, cluster : Cluster, peer_id : Peer \cup {NoPeer}, joined_epoch : Joined]

NoNodes == [rows |-> NoRows, temp_cache |-> NoRows]

InRows(t, out) == [out EXCEPT !.t = [t EXCEPT !.rows = out.t]]
Listed(rows) == [a \in {r.address : r \in rows} |-> CHOOSE r \in rows : r.address = a]

-----------------------------------------------------------------------------
\* node_info/src/state_pg.rs

pg_create(t, n) == InsertOrIgnore(t, n.address, n)
pg_update(t, n) == UpdateWhere(t, {n.address}, n)
pg_raw_query(t) == Truncate(t)
pg_store_nodes(t, nodes) ==
    Done([a \in DOMAIN t \cup DOMAIN nodes |-> IF Has(t, a) THEN t[a] ELSE nodes[a]], Unit)
pg_find_node_info(t, a) == IF Has(t, a) THEN Done(t, <<t[a].cluster, t[a]>>) ELSE Fail(t)
pg_load_node_info(t, a) == IF Has(t, a) THEN Done(t, t[a]) ELSE Fail(t)
pg_load_nodes(t, c) == Done(t, Listed({r \in Range(t) : r.cluster = c}))
pg_remove_node_info(t, a) == Done(Without(t, {a}), Unit)
pg_has_address_exists(t, a) == Done(t, Has(t, a))

\* A row that has a peer_id stays as it is.
pg_create_or_update(t, n) ==
    IF ~Has(t, n.address) THEN pg_create(t, n)
    ELSE IF t[n.address].peer_id = NoPeer THEN pg_update(t, n)
    ELSE Done(t, Unit)

-----------------------------------------------------------------------------
\* node_info/src/state_cas.rs.  create names eight columns and six values,
\* load_node_info a column that the table does not have, and load_nodes reads
\* seven columns as eight.

Columns == {"address", "cluster", "peer_id", "joined_epoch"}

cas_create(t, n) == Fail(t)
cas_update(t, n) ==
    UpdateOrPartial(t, n.address, Columns,
                    [address |-> n.address, cluster |-> n.cluster, peer_id |-> n.peer_id])
cas_raw_query(t) == Truncate(t)
cas_store_nodes(t, nodes) == IF nodes = NoRows THEN Done(t, Unit) ELSE Fail(t)
cas_find_node_info(t, a) ==
    IF Has(t, a) /\ t[a].joined_epoch # NULL THEN Done(t, <<t[a].cluster, t[a]>>) ELSE Fail(t)
cas_load_node_info(t, a) == Fail(t)
cas_load_nodes(t, c) ==
    IF \E r \in Range(t) : r.cluster = c THEN Fail(t) ELSE Done(t, NoRows)
cas_remove_node_info(t, a) == Done(Without(t, {a}), Unit)
cas_has_address_exists(t, a) == Todo(t)
cas_create_or_update(t, n) == Unsupported(t)

-----------------------------------------------------------------------------
\* node_info/src/state_rock.rs, which stores nothing

rock_create(t, n) == Done(t, Unit)
rock_update(t, n) == Done(t, Unit)
rock_raw_query(t) == Truncate(t)
rock_store_nodes(t, nodes) == Todo(t)
rock_find_node_info(t, a) == Done(t, <<NULL, NULL>>)
rock_load_node_info(t, a) == Todo(t)
rock_load_nodes(t, c) == Todo(t)
rock_remove_node_info(t, a) == Todo(t)
rock_has_address_exists(t, a) == Todo(t)
rock_create_or_update(t, n) == Unsupported(t)

-----------------------------------------------------------------------------
\* node_info/src/node_info_state.rs

new(b, t) == Done([t EXCEPT !.temp_cache = NoRows], Unit)

\* What could not be written stays in the cache.
Cached(t, n, out) ==
    [out EXCEPT !.t = [rows |-> out.t,
                       temp_cache |-> IF IsOk(out.r) THEN Without(t.temp_cache, {n.address})
                                      ELSE Put(t.temp_cache, n.address, n)]]

store_node_info(b, t, n) ==
    Cached(t, n, On(b, pg_create(t.rows, n), cas_create(t.rows, n), rock_create(t.rows, n)))

update_node_info(b, t, n) ==
    Cached(t, n, On(b, pg_update(t.rows, n), cas_update(t.rows, n), rock_update(t.rows, n)))

store_nodes(b, t, nodes) ==
    InRows(t, On(b, pg_store_nodes(t.rows, nodes), cas_store_nodes(t.rows, nodes),
                    rock_store_nodes(t.rows, nodes)))

find_node_info(b, t, a) ==
    InRows(t, On(b, pg_find_node_info(t.rows, a), cas_find_node_info(t.rows, a),
                    rock_find_node_info(t.rows, a)))

load_node_info(b, t, a) ==
    IF Has(t.temp_cache, a) THEN Done(t, t.temp_cache[a])
    ELSE InRows(t, On(b, pg_load_node_info(t.rows, a), cas_load_node_info(t.rows, a),
                         rock_load_node_info(t.rows, a)))

load_nodes(b, t, c) ==
    InRows(t, On(b, pg_load_nodes(t.rows, c), cas_load_nodes(t.rows, c), rock_load_nodes(t.rows, c)))

remove_node_info(b, t, a) ==
    LET u == [t EXCEPT !.temp_cache = Without(@, {a})]
    IN InRows(u, On(b, pg_remove_node_info(t.rows, a), cas_remove_node_info(t.rows, a),
                       rock_remove_node_info(t.rows, a)))

has_address_exists(b, t, a) ==
    InRows(t, On(b, pg_has_address_exists(t.rows, a), cas_has_address_exists(t.rows, a),
                    rock_has_address_exists(t.rows, a)))

upsert_node_info(b, t, n) ==
    InRows(t, On(b, pg_create_or_update(t.rows, n), cas_create_or_update(t.rows, n),
                    rock_create_or_update(t.rows, n)))

raw_query(b, t) == InRows(t, On(b, pg_raw_query(t.rows), cas_raw_query(t.rows), rock_raw_query(t.rows)))

-----------------------------------------------------------------------------
\* node_info/src/node_info_manager.rs

join_cluster(b, t, n) ==
    LET found == find_node_info(b, t, n.address).r
    IN IF IsOk(found) /\ Value(found)[1] # NULL THEN update_node_info(b, t, n)
       ELSE store_node_info(b, t, n)

leave_cluster(b, t, n) == remove_node_info(b, t, n.address)

\* A node that is in no cluster: the unwrap of what is printed panics.
update_cluster(b, t, n) ==
    Then(find_node_info(b, t, n.address),
         LAMBDA u, found : IF found[1] = NULL THEN Todo(u) ELSE update_node_info(b, u, n))

-----------------------------------------------------------------------------
Init == Empty([b \in Backends |-> NoNodes])

Next ==
    \/ \E n \in NodeInfo :
        \/ Call("store_node_info", n, [b \in Backends |-> store_node_info(b, db[b], n)])
        \/ Call("update_node_info", n, [b \in Backends |-> update_node_info(b, db[b], n)])
        \/ Call("upsert_node_info", n, [b \in Backends |-> upsert_node_info(b, db[b], n)])
        \/ Call("join_cluster", n, [b \in Backends |-> join_cluster(b, db[b], n)])
        \/ Call("leave_cluster", n, [b \in Backends |-> leave_cluster(b, db[b], n)])
        \/ Call("update_cluster", n, [b \in Backends |-> update_cluster(b, db[b], n)])
        \/ Call("store_nodes", {n},
                [b \in Backends |-> store_nodes(b, db[b], [a \in {n.address} |-> n])])
    \/ \E a \in Address :
        \/ Call("find_node_info", a, [b \in Backends |-> find_node_info(b, db[b], a)])
        \/ Call("load_node_info", a, [b \in Backends |-> load_node_info(b, db[b], a)])
        \/ Call("has_address_exists", a, [b \in Backends |-> has_address_exists(b, db[b], a)])
    \/ \E c \in Cluster : Call("load_nodes", c, [b \in Backends |-> load_nodes(b, db[b], c)])
    \/ Call("new", Unit, [b \in Backends |-> new(b, db[b])])
    \/ Call("raw_query", Unit, [b \in Backends |-> raw_query(b, db[b])])

-----------------------------------------------------------------------------
=============================================================================
