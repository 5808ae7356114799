------------------------------- MODULE Store -------------------------------
(***************************************************************************)
(* Tables of a database and the answers of a storage driver.               *)
(*                                                                         *)
(* A table is a function from keys to rows.  A driver operation is an      *)
(* operator from the table and the arguments of the call to the new table  *)
(* and the answer: a value, an error, a panic (todo!()), or the error of   *)
(* an operation that the driver does not support.                          *)
(* The engines differ in what one statement does: INSERT of Postgres       *)
(* refuses a key that is there, INSERT of Cassandra and put of RocksDB     *)
(* replace its row; UPDATE of Postgres skips a key that is not there,      *)
(* UPDATE of Cassandra makes a row with the columns it sets.               *)
(***************************************************************************)
LOCAL INSTANCE Naturals
LOCAL INSTANCE Sequences

CONSTANT NULL      \* a column without a value

Backends == {"pg", "cas", "rock"}

Unit == "()"
NoRows == << >>

Done(t, v) == [t |-> t, r |-> <<"ok", v>>]
Fail(t) == [t |-> t, r |-> <<"err">>]
Todo(t) == [t |-> t, r |-> <<"panic">>]
Unsupported(t) == [t |-> t, r |-> <<"unsupported">>]

IsOk(r) == r[1] = "ok"
Value(r) == r[2]
Implements(r) == r[1] \notin {"panic", "unsupported"}

\* The rest of an operation after a call that may fail (the operator `?`).
Then(out, rest(_, _)) == IF IsOk(out.r) THEN rest(out.t, Value(out.r)) ELSE out

Has(t, k) == k \in DOMAIN t
Put(t, k, row) == [x \in DOMAIN t \cup {k} |-> IF x = k THEN row ELSE t[x]]
Without(t, K) == [x \in DOMAIN t \ K |-> t[x]]

\* The columns of new replace those of old.
Set(old, new) == [c \in DOMAIN old |-> IF c \in DOMAIN new THEN new[c] ELSE old[c]]

Insert(t, k, row) == IF Has(t, k) THEN Fail(t) ELSE Done(Put(t, k, row), Unit)
InsertOrIgnore(t, k, row) == Done(IF Has(t, k) THEN t ELSE Put(t, k, row), Unit)
Upsert(t, k, row) == Done(Put(t, k, row), Unit)

\* UPDATE ... SET of Postgres: every key of K that is there.
UpdateWhere(t, K, new) ==
    Done([x \in DOMAIN t |-> IF x \in K THEN Set(t[x], new) ELSE t[x]], Unit)

\* UPDATE ... SET of Cassandra: columns not set are NULL in a new row.
UpdateOrPartial(t, k, columns, new) ==
    Done(Put(t, k, Set(IF Has(t, k) THEN t[k] ELSE [c \in columns |-> NULL], new)), Unit)

Truncate(t) == Done(NoRows, Unit)

-----------------------------------------------------------------------------
(* A node is configured with one driver.  Here every call is made on all   *)
(* three, each with a database of its own, so that they can be compared.   *)

VARIABLES
    db,       \* the database of each driver
    result,   \* its answer to the last call
    call      \* the last call

vars == <<db, result, call>>

On(b, pg, cas, rock) ==
    CASE b = "pg" -> pg
      [] b = "cas" -> cas
      [] b = "rock" -> rock

\* The drivers in B have the same value of c.
Agree(B, c) == \A b1, b2 \in B : c[b1] = c[b2]

Empty(t) ==
    /\ db = [b \in Backends |-> t[b]]
    /\ result = [b \in Backends |-> <<"ok", Unit>>]
    /\ call = [op |-> "new"]

\* The answer of each driver is out[b].
Call(op, arg, out) ==
    /\ db' = [b \in Backends |-> out[b].t]
    /\ result' = [b \in Backends |-> out[b].r]
    /\ call' = [op |-> op, arg |-> arg]
=============================================================================
