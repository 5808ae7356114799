----------------------------- MODULE EventStore -----------------------------
(***************************************************************************)
(* The events of transactions.  A row of Postgres has an id of its own;    *)
(* the key of Cassandra is the time of the insertion and the transaction.  *)
(* A list of events is read as a function from an event to how often it is *)
(* there.  A filter has a range of blocks, an address and the first topic, *)
(* each optional; topics after the first are treated like it.              *)
(***************************************************************************)
EXTENDS Integers, Sequences, FiniteSets, Functions, Store

CONSTANTS Tx, Address, Topic, Block,
          Latest,       \* a BlockNumber that is a name
          Time,         \* readings of the clock, in milliseconds
          MaxEvents     \* bound on the rows of Postgres

Types == {"L1XVM", "EVM"}
Event == [transaction_hash : Tx, block_number : Block, contract_address : Address,
          event_type : Types, topic0 : Topic]

Filter == [from_block : Block \cup {NULL, Latest}, to_block : Block \cup {NULL, Latest},
           address : Address \cup {NULL}, topic0 : Topic \cup {NULL, "several"}]

Stamped(e, now) == [event |-> e, time |-> now]
Bag(t, Ok(_)) ==
    LET ids == {i \in DOMAIN t : Ok(t[i])}
    IN [e \in {t[i].event : i \in ids} |-> Cardinality({i \in ids : t[i].event = e})]

InRange(r, from, to) == from <= r.event.block_number /\ r.event.block_number <= to
FirstBlock(f) == IF f.from_block \in Block THEN f.from_block ELSE 0

-----------------------------------------------------------------------------
\* event/src/state_pg.rs

pg_create(t, e, now) == Done(Append(t, Stamped(e, now)), Unit)
pg_raw_query(t) == Done(<< >>, Unit)

\* With a start, only the events of that very moment.
pg_get_events(t, h, start) ==
    Done(t, Bag(t, LAMBDA r : r.event.transaction_hash = h /\ (start # 0 => r.time = start)))
pg_get_all_events(t, h) == Done(t, Bag(t, LAMBDA r : r.event.transaction_hash = h))

\* The address is not used, nor is the type.
pg_get_filtered_events(t, f) ==
    IF f.to_block \notin Block \/ f.topic0 = "several" THEN Fail(t)
    ELSE Done(t, Bag(t, LAMBDA r : /\ InRange(r, FirstBlock(f), f.to_block)
                                   /\ f.topic0 \in {NULL, r.event.topic0}))
pg_is_valid_event(t, h) == Done(t, \E i \in DOMAIN t : t[i].event.transaction_hash = h)

-----------------------------------------------------------------------------
\* event/src/state_cas.rs

cas_create(t, e, now) == Upsert(t, <<now, e.transaction_hash>>, Stamped(e, now))
cas_raw_query(t) == Truncate(t)
cas_get_events(t, h, start) ==
    Done(t, Bag(t, LAMBDA r : r.event.transaction_hash = h /\ r.time > start))
cas_get_all_events(t, h) == Done(t, Bag(t, LAMBDA r : r.event.transaction_hash = h))

\* Only events of the EVM.
cas_get_filtered_events(t, f) ==
    IF f.to_block = Latest \/ f.topic0 = "several" THEN Fail(t)
    ELSE Done(t, Bag(t, LAMBDA r :
                            /\ r.event.event_type = "EVM"
                            /\ r.event.block_number >= FirstBlock(f)
                            /\ f.to_block # NULL => r.event.block_number <= f.to_block
                            /\ f.address \in {NULL, r.event.contract_address}
                            /\ f.topic0 \in {NULL, r.event.topic0}))
cas_is_valid_event(t, h) == Done(t, \E k \in DOMAIN t : k[2] = h)

-----------------------------------------------------------------------------
\* event/src/state_rock.rs

rock_create(t, e, now) == Todo(t)
rock_raw_query(t) == Truncate(t)
rock_get_events(t, h, start) == Todo(t)
rock_get_all_events(t, h) == Todo(t)
rock_get_filtered_events(t, f) == Todo(t)
rock_is_valid_event(t, h) == Todo(t)

-----------------------------------------------------------------------------
\* event/src/event_state.rs

create_event(b, t, e, now) ==
    On(b, pg_create(t, e, now), cas_create(t, e, now), rock_create(t, e, now))

get_events(b, t, h, start) ==
    On(b, pg_get_events(t, h, start), cas_get_events(t, h, start), rock_get_events(t, h, start))

get_all_events(b, t, h) ==
    On(b, pg_get_all_events(t, h), cas_get_all_events(t, h), rock_get_all_events(t, h))

get_filtered_events(b, t, f) ==
    On(b, pg_get_filtered_events(t, f), cas_get_filtered_events(t, f),
          rock_get_filtered_events(t, f))

is_valid_event(b, t, h) ==
    On(b, pg_is_valid_event(t, h), cas_is_valid_event(t, h), rock_is_valid_event(t, h))

raw_query(b, t) == On(b, pg_raw_query(t), cas_raw_query(t), rock_raw_query(t))
-----------------------------------------------------------------------------
Init == Empty([pg |-> << >>, cas |-> NoRows, rock |-> NoRows])

Next ==
    \/ \E e \in Event, now \in Time :
        /\ Len(db.pg) < MaxEvents
        /\ Call("create_event", <<e, now>>, [b \in Backends |-> create_event(b, db[b], e, now)])
    \/ \E h \in Tx :
        \/ \E start \in Time \cup {0} :
            Call("get_events", <<h, start>>, [b \in Backends |-> get_events(b, db[b], h, start)])
        \/ Call("get_all_events", h, [b \in Backends |-> get_all_events(b, db[b], h)])
        \/ Call("is_valid_event", h, [b \in Backends |-> is_valid_event(b, db[b], h)])
    \/ \E f \in Filter :
        Call("get_filtered_events", f, [b \in Backends |-> get_filtered_events(b, db[b], f)])
    \/ Call("raw_query", Unit, [b \in Backends |-> raw_query(b, db[b])])

-----------------------------------------------------------------------------
\* RocksDB answers nothing but raw_query.
Compared == {"pg", "cas"}

\* The rows, and how often each is there.
Contents(b) ==
    [r \in Range(db[b]) |-> Cardinality({i \in DOMAIN db[b] : db[b][i] = r})]

(* Of two events of a transaction in one millisecond Cassandra keeps one.  *)
(* Asked for the events since a moment, Postgres has those of that moment  *)
(* and Cassandra the later ones.  A filter of Postgres must have a last    *)
(* block; it ignores the address and the type.                             *)
Differs(t, op, arg) ==
    LET rows == DOMAIN t IN
    CASE op = "create_event" ->
            \E r \in rows : r.time = arg[2] /\ r.event.transaction_hash = arg[1].transaction_hash
      [] op = "get_events" ->
            /\ arg[2] # 0
            /\ \E e \in Event :
                /\ e.transaction_hash = arg[1]
                /\ LET now == {r \in rows : r.event = e /\ r.time = arg[2]}
                       later == {r \in rows : r.event = e /\ r.time > arg[2]}
                   IN Cardinality(now) # Cardinality(later)
      [] op = "get_filtered_events" ->
            /\ arg.to_block # Latest /\ arg.topic0 # "several"
            /\ \/ arg.to_block = NULL
               \/ \E r \in rows : /\ InRange(r, FirstBlock(arg), arg.to_block)
                                  /\ arg.topic0 \in {NULL, r.event.topic0}
                                  /\ \/ arg.address \notin {NULL, r.event.contract_address}
                                     \/ r.event.event_type # "EVM"
      [] OTHER -> FALSE
=============================================================================
