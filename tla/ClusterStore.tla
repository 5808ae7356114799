---------------------------- MODULE ClusterStore ----------------------------
(***************************************************************************)
(* The addresses of clusters and of sub clusters.  RocksDB keeps clusters  *)
(* as a list and stores no sub clusters.  A list of addresses is read as   *)
(* a function from an address to how often it is there.                    *)
(***************************************************************************)
EXTENDS Integers, Sequences, FiniteSets, Store

CONSTANTS Address,
          MaxListed     \* bound on the list of RocksDB

SomeOrNone(f) == IF f = NoRows THEN NULL ELSE f
Once(t) == [a \in DOMAIN t |-> 1]
Times(s) == [a \in {s[i] : i \in DOMAIN s} |-> Cardinality({i \in DOMAIN s : s[i] = a})]

\* The addresses are stored one by one; those before one that fails stay.
Each(t, as, store(_, _)) ==
    LET F[i \in 0 .. Len(as)] ==
            IF i = 0 THEN Done(t, Unit) ELSE Then(F[i - 1], LAMBDA u, x : store(u, as[i]))
    IN F[Len(as)]

-----------------------------------------------------------------------------
\* cluster/src/state_pg.rs, sub_cluster/src/state_pg.rs

pg_raw_query(t) == Truncate(t)
pg_store_cluster_address(t, a) == Insert(t, a, a)
pg_store_cluster_addresses(t, as) == Each(t, as, pg_store_cluster_address)
pg_load_all_cluster_addresses(t) == Done(t, SomeOrNone(Once(t)))
pg_store_sub_cluster_address(t, a) == Insert(t, a, a)
pg_store_sub_cluster_addresses(t, as) == Each(t, as, pg_store_sub_cluster_address)
pg_load_all_sub_cluster_addresses(t) == Done(t, SomeOrNone(Once(t)))

-----------------------------------------------------------------------------
\* cluster/src/state_cas.rs, sub_cluster/src/state_cas.rs

cas_raw_query(t) == Truncate(t)
cas_store_cluster_address(t, a) == Upsert(t, a, a)
cas_store_cluster_addresses(t, as) == Each(t, as, cas_store_cluster_address)
cas_load_all_cluster_addresses(t) == Done(t, SomeOrNone(Once(t)))
cas_store_sub_cluster_address(t, a) == Upsert(t, a, a)
cas_store_sub_cluster_addresses(t, as) == Each(t, as, cas_store_sub_cluster_address)
cas_load_all_sub_cluster_addresses(t) == Done(t, SomeOrNone(Once(t)))

-----------------------------------------------------------------------------
\* cluster/src/state_rock.rs, sub_cluster/src/state_rocks.rs

rock_raw_query(t) == Done(<< >>, Unit)
rock_store_cluster_address(t, a) == Done(<<a>> \o t, Unit)
rock_store_cluster_addresses(t, as) == Each(t, as, rock_store_cluster_address)
rock_load_all_cluster_addresses(t) == Done(t, SomeOrNone(Times(t)))
rock_store_sub_cluster_address(t, a) == Done(t, Unit)
rock_store_sub_cluster_addresses(t, as) == Todo(t)
rock_load_all_sub_cluster_addresses(t) == Todo(t)

-----------------------------------------------------------------------------
\* cluster/src/cluster_state.rs, sub_cluster/src/sub_cluster_state.rs

store_cluster_address(b, t, a) ==
    On(b, pg_store_cluster_address(t, a), cas_store_cluster_address(t, a),
          rock_store_cluster_address(t, a))

store_cluster_addresses(b, t, as) ==
    On(b, pg_store_cluster_addresses(t, as), cas_store_cluster_addresses(t, as),
          rock_store_cluster_addresses(t, as))

load_all_cluster_addresses(b, t) ==
    On(b, pg_load_all_cluster_addresses(t), cas_load_all_cluster_addresses(t),
          rock_load_all_cluster_addresses(t))

store_sub_cluster_address(b, t, a) ==
    On(b, pg_store_sub_cluster_address(t, a), cas_store_sub_cluster_address(t, a),
          rock_store_sub_cluster_address(t, a))

store_sub_cluster_addresses(b, t, as) ==
    On(b, pg_store_sub_cluster_addresses(t, as), cas_store_sub_cluster_addresses(t, as),
          rock_store_sub_cluster_addresses(t, as))

load_all_sub_cluster_addresses(b, t) ==
    On(b, pg_load_all_sub_cluster_addresses(t), cas_load_all_sub_cluster_addresses(t),
          rock_load_all_sub_cluster_addresses(t))

raw_query(b, t) == On(b, pg_raw_query(t), cas_raw_query(t), rock_raw_query(t))
-----------------------------------------------------------------------------
\* Each database has the two tables.
InTable(t, name, out) == [out EXCEPT !.t = [t EXCEPT ![name] = out.t]]

Init ==
    Empty([b \in Backends |->
              LET t == IF b = "rock" THEN << >> ELSE NoRows IN [cluster |-> t, sub_cluster |-> t]])

\* The calls of one table, named by its operators.
Table(name, store(_, _, _), store_all(_, _, _), load(_, _)) ==
    LET On_(arg, op(_, _)) ==
            Call(<<name, arg[1]>>, arg[2],
                 [b \in Backends |-> InTable(db[b], name, op(b, db[b][name]))])
    IN \/ \E a \in Address :
            /\ Len(db.rock[name]) < MaxListed
            /\ On_(<<"store", a>>, LAMBDA b, t : store(b, t, a))
       \/ \E as \in [1 .. 2 -> Address] :
            /\ Len(db.rock[name]) < MaxListed - 1
            /\ On_(<<"store_all", as>>, LAMBDA b, t : store_all(b, t, as))
       \/ On_(<<"load", Unit>>, LAMBDA b, t : load(b, t))
       \/ On_(<<"raw_query", Unit>>, LAMBDA b, t : raw_query(b, t))

Next ==
    \/ Table("cluster", store_cluster_address, store_cluster_addresses, load_all_cluster_addresses)
    \/ Table("sub_cluster", store_sub_cluster_address, store_sub_cluster_addresses,
             load_all_sub_cluster_addresses)

-----------------------------------------------------------------------------
Compared == Backends

\* RocksDB is not compared on sub clusters, of which it has none.
Contents(b) ==
    LET names(t) == IF b = "rock" THEN {t[i] : i \in DOMAIN t} ELSE DOMAIN t
    IN [cluster |-> names(db[b].cluster),
        sub_cluster |-> names(IF b = "rock" THEN db.pg.sub_cluster ELSE db[b].sub_cluster)]

(* Postgres refuses an address that is there, and with it the rest of a    *)
(* list; RocksDB has it twice.                                             *)
Differs(t, op, arg) ==
    LET stored == IF op[1] = "cluster" THEN t.cluster ELSE t.sub_cluster IN
    CASE op[2] = "store" -> arg \in stored
      [] op[2] = "store_all" -> arg[1] \in stored \/ arg[2] \in stored \/ arg[1] = arg[2]
      [] op[2] = "load" -> op[1] = "cluster" /\ Len(db.rock.cluster) # Cardinality(stored)
      [] OTHER -> FALSE
=============================================================================
