------------------------------ MODULE VoteStore ------------------------------
(***************************************************************************)
(* The tables of votes and of vote results.  Both are keyed by the block   *)
(* and the validator that signed.  A vote result has the set of its votes. *)
(***************************************************************************)
EXTENDS Integers, FiniteSets, Functions, Store

CONSTANTS Hash, Validator

Vote == [block_hash : Hash, validator_address : Validator, vote : BOOLEAN]
VoteResult == [block_hash : Hash, validator_address : Validator, votes : SUBSET Validator]

Key(v) == <<v.block_hash, v.validator_address>>
OfBlock(t, h) == {t[k] : k \in {k \in DOMAIN t : k[1] = h}}
ByValidator(rows) == [a \in {r.validator_address : r \in rows} |->
                        (CHOOSE r \in rows : r.validator_address = a).vote]

NoVotes == [vote |-> NoRows, vote_result |-> NoRows]
InVote(t, out) == [out EXCEPT !.t = [t EXCEPT !.vote = out.t]]
InResult(t, out) == [out EXCEPT !.t = [t EXCEPT !.vote_result = out.t]]

-----------------------------------------------------------------------------
\* vote/src/state_pg.rs

pg_create(t, v) == InsertOrIgnore(t, Key(v), v)
pg_raw_query(t) == Truncate(t)
pg_load_all_votes(t, h) == Done(t, OfBlock(t, h))
pg_load_all_votes_hashmap(t, h) == Done(t, ByValidator(OfBlock(t, h)))

-----------------------------------------------------------------------------
\* vote/src/state_cas.rs.  load_all_votes reads the columns of SELECT * in the
\* order of the CREATE TABLE, but those of the key come first.

cas_create(t, v) == Upsert(t, Key(v), v)
cas_raw_query(t) == Truncate(t)
cas_load_all_votes(t, h) == IF OfBlock(t, h) = {} THEN Done(t, NULL) ELSE Fail(t)
cas_load_all_votes_hashmap(t, h) ==
    Done(t, IF OfBlock(t, h) = {} THEN NULL ELSE ByValidator(OfBlock(t, h)))

-----------------------------------------------------------------------------
\* vote/src/state_rock.rs

rock_create(t, v) == Todo(t)
rock_raw_query(t) == Truncate(t)
rock_load_all_votes(t, h) == Todo(t)
rock_load_all_votes_hashmap(t, h) == Todo(t)

-----------------------------------------------------------------------------
\* vote_result/src/state_pg.rs.  The epoch is that of the first vote.

pg_create_vote_result(t, r) == IF r.votes = {} THEN Fail(t) ELSE InsertOrIgnore(t, Key(r), r)

\* One statement: a row that is there, or twice in the batch, refuses them all.
pg_batch_store_vote_results(t, rs) ==
    IF \/ \E r \in rs : r.votes = {} \/ Has(t, Key(r))
       \/ \E r1, r2 \in rs : r1 # r2 /\ Key(r1) = Key(r2)
    THEN Fail(t)
    ELSE Done([k \in DOMAIN t \cup {Key(r) : r \in rs} |->
                IF Has(t, k) THEN t[k] ELSE CHOOSE r \in rs : Key(r) = k], Unit)

\* The first row of the block.
pg_load_vote_result(t, h) == IF OfBlock(t, h) = {} THEN Fail(t) ELSE Done(t, OfBlock(t, h))

\* vote_result/src/state_cas.rs, vote_result/src/state_rock.rs
cas_create_vote_result(t, r) == Unsupported(t)
cas_batch_store_vote_results(t, rs) == Unsupported(t)
cas_load_vote_result(t, h) == Unsupported(t)
rock_create_vote_result(t, r) == Todo(t)
rock_batch_store_vote_results(t, rs) == Unsupported(t)
rock_load_vote_result(t, h) == Todo(t)

-----------------------------------------------------------------------------
\* vote/src/vote_state.rs, vote_result/src/vote_result_state.rs

store_vote(b, t, v) == On(b, pg_create(t, v), cas_create(t, v), rock_create(t, v))

load_all_votes(b, t, h) ==
    On(b, pg_load_all_votes(t, h), cas_load_all_votes(t, h), rock_load_all_votes(t, h))

load_all_votes_hashmap(b, t, h) ==
    On(b, pg_load_all_votes_hashmap(t, h), cas_load_all_votes_hashmap(t, h),
          rock_load_all_votes_hashmap(t, h))

raw_query(b, t) == On(b, pg_raw_query(t), cas_raw_query(t), rock_raw_query(t))

store_vote_result(b, t, r) ==
    On(b, pg_create_vote_result(t, r), cas_create_vote_result(t, r),
          rock_create_vote_result(t, r))

batch_store_vote_results(b, t, rs) ==
    On(b, pg_batch_store_vote_results(t, rs), cas_batch_store_vote_results(t, rs),
          rock_batch_store_vote_results(t, rs))

load_vote_result(b, t, h) ==
    On(b, pg_load_vote_result(t, h), cas_load_vote_result(t, h), rock_load_vote_result(t, h))
-----------------------------------------------------------------------------
Init == Empty([b \in Backends |-> NoVotes])

Next ==
    \/ \E v \in Vote : Call("store_vote", v,
            [b \in Backends |-> InVote(db[b], store_vote(b, db[b].vote, v))])
    \/ \E h \in Hash :
        \/ Call("load_all_votes", h,
                [b \in Backends |-> InVote(db[b], load_all_votes(b, db[b].vote, h))])
        \/ Call("load_all_votes_hashmap", h,
                [b \in Backends |-> InVote(db[b], load_all_votes_hashmap(b, db[b].vote, h))])
        \/ Call("load_vote_result", h,
                [b \in Backends |-> InResult(db[b], load_vote_result(b, db[b].vote_result, h))])
    \/ \E r \in VoteResult : Call("store_vote_result", r,
            [b \in Backends |-> InResult(db[b], store_vote_result(b, db[b].vote_result, r))])
    \/ \E rs \in {{r1, r2} : r1, r2 \in VoteResult} : Call("batch_store_vote_results", rs,
            [b \in Backends |-> InResult(db[b], batch_store_vote_results(b, db[b].vote_result, rs))])
    \/ Call("raw_query", Unit, [b \in Backends |-> InVote(db[b], raw_query(b, db[b].vote))])

-----------------------------------------------------------------------------
\* Only Postgres has vote results, and RocksDB has no votes either.
Compared == {"pg", "cas"}

Contents(b) == db[b].vote

(* A second vote of a validator for a block is ignored by Postgres and     *)
(* replaces the first in Cassandra, which cannot read its votes back as a  *)
(* list and says None where Postgres has an empty list.                    *)
Differs(t, op, arg) ==
    CASE op = "store_vote" -> Has(t, Key(arg)) /\ t[Key(arg)] # arg
      [] op = "load_all_votes" -> TRUE
      [] op = "load_all_votes_hashmap" -> OfBlock(t, arg) = {}
      [] OTHER -> FALSE

=============================================================================
