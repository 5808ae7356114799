---------------------------- MODULE Finalization ----------------------------
(***************************************************************************)
(* How a cluster of full nodes turns proposed blocks into executed ones:   *)
(* the consensus task of every node (consensus/src/consensus.rs), its      *)
(* in-memory list of pending blocks (consensus/src/pending_blocks.rs), the *)
(* checks of validate/src and vote_result/src, and the rows of the node's  *)
(* database that they read and write.                                      *)
(*                                                                         *)
(* A node runs one consensus task, which handles one message at a time.    *)
(* Finalizing a block writes the database several times, so a handler that *)
(* gets that far is split into the steps of `job': a node may stop between *)
(* any two of them.  A block is identified with its hash; `parent' is the  *)
(* parent hash and `by' the key its payload is signed with.  Every vote    *)
(* the code creates is an aye, so a vote is a validator and a block.       *)
(***************************************************************************)
EXTENDS Integers, Sequences, FiniteSets

CONSTANTS
    Nodes,            \* full nodes of the cluster
    BootNodes,        \* nodes started without boot nodes: they may restart
    Validators,       \* Validators[e]: the validators selected for epoch e
    Staked,           \* nodes whose stake is not zero
    InitialProposer,  \* proposer of epoch 0
    Elect,            \* Elect[e][b]: proposer of epoch e seeded by header b
    Blocks, Genesis,  \* every block that may be built, and block number 0
    SlotsPerEpoch, MaxBlockHeight, QueryThreshold,
    MaxNumber,        \* bound: the highest block number considered
    None

VARIABLES
    pending,          \* PendingBlocks.blocks: [node -> [number -> entry]]
    job,              \* what the consensus task of a node is doing
    stored,           \* block_header table: [node -> [number -> block]]
    head,             \* block_head table: [node -> number]
    executed,         \* block_meta_info: numbers whose block_executed is set
    vote_results,     \* vote_result table
    block_proposer,   \* block_proposer table: [node -> [epoch -> node]]
    blocks, votes, results,   \* gossip, delivered any number of times
    queries, responses,       \* block requests and their answers
    cast              \* history: every vote ever signed

db == <<stored, head, executed, vote_results, block_proposer>>
network == <<blocks, votes, results, queries, responses>>
vars == <<pending, job, db, network, cast>>

-----------------------------------------------------------------------------
calculate_current_epoch(number) == number \div SlotsPerEpoch

Numbers == 0..MaxNumber
Epochs == {calculate_current_epoch(h) : h \in 0..(MaxNumber + 1)}
Vote == [validator : Nodes, block : Blocks]
VoteResult == [block : Blocks, votes : SUBSET Vote]
PendingBlock == [block : Blocks \cup {None}, votes : Seq(Vote),
                 vote_results : Seq(VoteResult)]
Steps == {"idle", "scan", "store", "head", "execute"}
Job == [step : Steps, block : Blocks \cup {None},
        result : VoteResult \cup {None}, queried : BOOLEAN]

EpochOf(b) == calculate_current_epoch(b.number)
ValidatorsOf(b) == Validators[EpochOf(b)]

(* 60% of the validators, rounded up by the node that counts the votes and *)
(* rounded down by the nodes that receive the count.                       *)
calculate_min_votes(n) == (6 * n + 9) \div 10
min_passed_votes(n) == (6 * n) \div 10

ASSUME ConstantAssumption ==
    /\ BootNodes \subseteq Nodes /\ InitialProposer \in Nodes
    /\ SlotsPerEpoch \in Nat \ {0} /\ MaxNumber \in Nat
    /\ MaxBlockHeight \in Nat /\ QueryThreshold \in Nat
    /\ Validators \in [Epochs -> SUBSET Nodes]
    /\ Elect \in [Epochs -> [Blocks -> Nodes]]
    /\ None \notin Nodes \cup Blocks \cup VoteResult

ASSUME BlockAssumption ==
    /\ Genesis \in Blocks
    /\ \A b \in Blocks : b.number \in Numbers /\ b.by \in Nodes
    /\ \A b \in Blocks : b.number = 0 <=> b = Genesis

(* The validators that may lose their pending blocks are fewer than any two *)
(* sets of 60% of the validators share.                                    *)
ASSUME QuorumAssumption ==
    \A e \in Epochs :
        /\ IsFiniteSet(Validators[e])
        /\ Cardinality(Validators[e] \cap BootNodes) + Cardinality(Validators[e])
             < 2 * calculate_min_votes(Cardinality(Validators[e]))

-----------------------------------------------------------------------------
EmptyEntry == [block |-> None, votes |-> <<>>, vote_results |-> <<>>]
Idle == [step |-> "idle", block |-> None, result |-> None, queried |-> FALSE]
Scanning == [Idle EXCEPT !.step = "scan"]

Init ==
    /\ pending = [n \in Nodes |-> [h \in Numbers |-> EmptyEntry]]
    /\ job = [n \in Nodes |-> Idle]
    /\ stored = [n \in Nodes |-> [h \in Numbers |-> IF h = 0 THEN Genesis ELSE None]]
    /\ head = [n \in Nodes |-> 0]
    /\ executed = [n \in Nodes |-> {0}]
    /\ vote_results = [n \in Nodes |-> {}]
    /\ block_proposer =
         [n \in Nodes |-> [e \in Epochs |-> IF e = 0 THEN InitialProposer ELSE None]]
    /\ blocks = {} /\ votes = {} /\ results = {}
    /\ queries = {} /\ responses = {}
    /\ cast = {}

Elements(s) == {s[i] : i \in DOMAIN s}
(* A second copy of a vote or a vote result changes nothing: votes are     *)
(* counted once per validator and results are tried in order.              *)
Push(s, x) == IF x \in Elements(s) THEN s ELSE Append(s, x)

HasEntry(n, h) == pending[n][h] # EmptyEntry
PendingNumbers(n) == {h \in Numbers : HasEntry(n, h)}
First(i, S) == i \in S /\ \A j \in S : i <= j
SetEntry(n, h, entry) == pending' = [pending EXCEPT ![n][h] = entry]

is_block_proposer(n, p, b) == block_proposer[n][EpochOf(b)] = p
is_idle(n) == job[n].step = "idle"

-----------------------------------------------------------------------------
(* Counting votes: vote_result/src/vote_result_manager.rs                  *)

get_unique_votes(s) ==
    {s[i] : i \in {k \in DOMAIN s : \A j \in 1..(k - 1) : s[j].validator # s[k].validator}}

VotesOfValidators(vs, b) == {v \in vs : v.validator \in ValidatorsOf(b)}

(* With ayes only, 60% of the voting stake means some voting stake.        *)
is_passed(vs, b, min) ==
    /\ Cardinality(VotesOfValidators(vs, b)) >= min
    /\ \E v \in VotesOfValidators(vs, b) : v.validator \in Staked

(* The votes of an entry pass, whichever of its blocks they are for; the   *)
(* vote result names the block of the first vote.                          *)
can_generate_vote_result(s) ==
    LET unique == get_unique_votes(s)
        min == calculate_min_votes(Cardinality(ValidatorsOf(s[1].block)))
    IN  Cardinality(unique) >= min /\ is_passed(unique, s[1].block, min)

generate_vote_result(s) == [block |-> s[1].block, votes |-> get_unique_votes(s)]

is_vote_result_passed(r, b) ==
    is_passed(r.votes, b, min_passed_votes(Cardinality(ValidatorsOf(b))))

validate_vote_result(r, b) == r.block = b /\ \A v \in r.votes : v.block = b

-----------------------------------------------------------------------------
(* Checks on a block: validate/src/validate_block.rs                       *)

HeadHeader(n) == stored[n][head[n]]

validate_signature_only(n, b) == b.number > 0

(* The field checks are skipped for the block that already is the head.    *)
validate_block_header(n, b) ==
    \/ HeadHeader(n) = b
    \/ b.number = HeadHeader(n).number + 1 /\ b.parent = HeadHeader(n)

validate_proposed_block(n, b) ==
    /\ is_block_proposer(n, b.by, b)
    /\ validate_block_header(n, b)

(* PendingBlock::try_to_finalize up to the vote.                           *)
CanVote(n, b) ==
    /\ b # None
    /\ b.number < MaxBlockHeight
    /\ validate_proposed_block(n, b)

-----------------------------------------------------------------------------
(* The proposer hands over a block it has built on its head of then:       *)
(* Mempool::propose_block, Consensus::add_and_broadcast_block.             *)

(* The branch for a block number that is pending already: the old block is *)
(* sent again, or dropped when another key signed it.                      *)
ProposePending(n, b) ==
    LET entry == pending[n][b.number]
        own == {v \in Elements(entry.votes) : v.validator = n}
    IN  /\ entry.block # None
        /\ IF entry.block.by = n
           THEN /\ blocks' = blocks \cup {entry.block}
                /\ votes' = votes \cup own
                /\ UNCHANGED pending
           ELSE /\ SetEntry(n, b.number, EmptyEntry)
                /\ UNCHANGED <<blocks, votes>>
        /\ UNCHANGED cast

ProposeNew(n, b) ==
    LET vote == [validator |-> n, block |-> b]
    IN  /\ blocks' = blocks \cup {b}
        /\ cast' = cast \cup {vote}
        /\ SetEntry(n, b.number, [block |-> b, votes |-> <<vote>>, vote_results |-> <<>>])
        /\ UNCHANGED votes

add_and_broadcast_block(n, b) ==
    /\ is_idle(n)
    /\ b.by = n /\ b.number \in 1..(head[n] + 1) /\ b.parent = stored[n][b.number - 1]
    /\ b.number - 1 \in executed[n]
    /\ is_block_proposer(n, n, b)
    /\ stored[n][b.number] = None
    /\ PendingNumbers(n) = {} \/ HasEntry(n, b.number - 1)
    /\ IF HasEntry(n, b.number) THEN ProposePending(n, b) ELSE ProposeNew(n, b)
    /\ UNCHANGED <<job, db, results, queries, responses>>

-----------------------------------------------------------------------------
(* Gossip handlers of the consensus task.                                  *)

receive_validate_block(n, b) ==
    /\ is_idle(n)
    /\ is_block_proposer(n, b.by, b)
    /\ b.number \notin executed[n]
    /\ SetEntry(n, b.number, [pending[n][b.number] EXCEPT !.block = b])
    /\ blocks' = blocks \cup {b}
    /\ job' = [job EXCEPT ![n] = Scanning]
    /\ UNCHANGED <<db, votes, results, queries, responses, cast>>

receive_vote_without_broadcast(n, v) ==
    LET h == v.block.number
        entry == [pending[n][h] EXCEPT !.votes = Push(@, v)]
        r == generate_vote_result(entry.votes)
    IN  /\ is_idle(n)
        /\ is_block_proposer(n, n, v.block)
        /\ HasEntry(n, h) \/ h \notin executed[n]
        /\ IF can_generate_vote_result(entry.votes)
           THEN /\ SetEntry(n, h, [entry EXCEPT !.vote_results = Push(@, r)])
                /\ job' = [job EXCEPT ![n] = Scanning]
           ELSE SetEntry(n, h, entry) /\ UNCHANGED job
        /\ UNCHANGED <<db, network, cast>>

(* Only the proposer of the epoch counts votes.                            *)
receive_vote(n, v) ==
    LET h == v.block.number
        entry == [pending[n][h] EXCEPT !.votes = Push(@, v)]
        r == generate_vote_result(entry.votes)
    IN  /\ is_idle(n)
        /\ is_block_proposer(n, n, v.block)
        /\ HasEntry(n, h) \/ h \notin executed[n]
        /\ IF can_generate_vote_result(entry.votes)
           THEN /\ SetEntry(n, h, [entry EXCEPT !.vote_results = Push(@, r)])
                /\ results' = results \cup {r}
                /\ job' = [job EXCEPT ![n] = Scanning]
           ELSE /\ SetEntry(n, h, entry)
                /\ UNCHANGED <<results, job>>
        /\ UNCHANGED <<db, blocks, votes, queries, responses, cast>>

receive_vote_result(n, r) ==
    LET h == r.block.number
    IN  /\ is_idle(n)
        /\ SetEntry(n, h, [pending[n][h] EXCEPT !.vote_results = Push(@, r)])
        /\ job' = [job EXCEPT ![n] = Scanning]
        /\ UNCHANGED <<db, network, cast>>

-----------------------------------------------------------------------------
(* PendingBlocks::try_to_finalize: the pending numbers in ascending order, *)
(* until one of them cannot be finalized.                                  *)

(* The end of the loop asks for the next block when too many are pending.  *)
query_missed_block(n, numbers) ==
    queries' = IF Cardinality(numbers) > QueryThreshold
               THEN queries \cup {[from |-> n, number |-> head[n] + 1]}
               ELSE queries

ScanEnd(n) ==
    /\ job[n].step = "scan"
    /\ PendingNumbers(n) = {}
    /\ job' = [job EXCEPT ![n] = Idle]
    /\ UNCHANGED <<pending, db, network, cast>>

DropExecuted(n, h) ==
    /\ job[n].step = "scan"
    /\ First(h, PendingNumbers(n))
    /\ h \in executed[n]
    /\ SetEntry(n, h, EmptyEntry)
    /\ UNCHANGED <<job, db, network, cast>>

Unfinalized(n, h) ==
    /\ job[n].step = "scan"
    /\ First(h, PendingNumbers(n))
    /\ h \notin executed[n]

RejectBlock(n, h) ==
    /\ Unfinalized(n, h)
    /\ ~ CanVote(n, pending[n][h].block)
    /\ query_missed_block(n, PendingNumbers(n))
    /\ job' = [job EXCEPT ![n] = Idle]
    /\ UNCHANGED <<pending, db, blocks, votes, results, responses, cast>>

publish_vote_per_block(n, entry) ==
    LET b == entry.block
        new == [validator |-> n, block |-> b]
    IN  IF n \notin ValidatorsOf(b) \/ is_block_proposer(n, n, b)
        THEN UNCHANGED <<pending, votes, cast>>
        ELSE /\ votes' = votes \cup {new}
             /\ cast' = cast \cup {new}
             /\ SetEntry(n, b.number, [entry EXCEPT !.votes = Push(@, new)])

(* A validator that is not the proposer repeats the vote it has given at   *)
(* this height, and gives one if there is none.                            *)
publish_vote(n, entry) ==
    LET b == entry.block
        own == {i \in DOMAIN entry.votes : entry.votes[i].validator = n}
        new == [validator |-> n, block |-> b]
    IN  IF n \notin ValidatorsOf(b) \/ is_block_proposer(n, n, b)
        THEN UNCHANGED <<pending, votes, cast>>
        ELSE IF own # {}
        THEN /\ \E i \in own : First(i, own) /\ votes' = votes \cup {entry.votes[i]}
             /\ UNCHANGED <<pending, cast>>
        ELSE /\ votes' = votes \cup {new}
             /\ cast' = cast \cup {new}
             /\ SetEntry(n, b.number, [entry EXCEPT !.votes = Append(@, new)])

(* validate_vote_results fails on the first invalid result of the entry.   *)
PassingResults(entry) ==
    {i \in DOMAIN entry.vote_results :
        /\ \A j \in DOMAIN entry.vote_results :
               validate_vote_result(entry.vote_results[j], entry.block)
        /\ is_vote_result_passed(entry.vote_results[i], entry.block)}

VoteAndWait(n, h) ==
    LET entry == pending[n][h]
    IN  /\ Unfinalized(n, h)
        /\ CanVote(n, entry.block)
        /\ PassingResults(entry) = {}
        /\ publish_vote(n, entry)
        /\ query_missed_block(n, PendingNumbers(n))
        /\ job' = [job EXCEPT ![n] = Idle]
        /\ UNCHANGED <<db, blocks, results, responses>>

select_at_every_block(n, b) ==
    block_proposer' = [block_proposer EXCEPT
        ![n][calculate_current_epoch(b.number + 1)] =
            Elect[calculate_current_epoch(b.number + 1)][HeadHeader(n)]]

(* The last block of an epoch selects the proposer of the next one, seeded *)
(* by the header that is the head now.  Rows are only inserted, and the    *)
(* first one inserted is the one load_block_proposer finds.                *)
select_and_store_proposer(n, b) ==
    LET e == calculate_current_epoch(b.number + 1)
    IN  block_proposer' =
            IF e > EpochOf(b) /\ block_proposer[n][e] = None
            THEN [block_proposer EXCEPT ![n][e] = Elect[e][HeadHeader(n)]]
            ELSE block_proposer

VoteAndFinalize(n, h, i) ==
    LET entry == pending[n][h]
    IN  /\ Unfinalized(n, h)
        /\ CanVote(n, entry.block)
        /\ First(i, PassingResults(entry))
        /\ publish_vote(n, entry)
        /\ select_and_store_proposer(n, entry.block)
        /\ job' = [job EXCEPT ![n] = [step |-> "store", block |-> entry.block,
                                      result |-> entry.vote_results[i], queried |-> FALSE]]
        /\ UNCHANGED <<stored, head, executed, vote_results>>
        /\ UNCHANGED <<blocks, results, queries, responses>>

-----------------------------------------------------------------------------
(* Writing a finalized block.  A header is inserted unless its number has  *)
(* one; the head only advances by one; a block counts as executed last.    *)

InsertResult(n, r) ==
    vote_results' = IF \E q \in vote_results[n] : q.block = r.block THEN vote_results
                    ELSE [vote_results EXCEPT ![n] = @ \cup {r}]

store_block_header(n) ==
    LET b == job[n].block
    IN  /\ job[n].step = "store"
        /\ IF job[n].queried THEN UNCHANGED vote_results
                             ELSE InsertResult(n, job[n].result)
        /\ stored' = IF stored[n][b.number] = None
                     THEN [stored EXCEPT ![n][b.number] = b] ELSE stored
        /\ job' = [job EXCEPT ![n].step = "head"]
        /\ UNCHANGED <<pending, head, executed, block_proposer, network, cast>>

update_head_of_answer_only(n) ==
    LET b == job[n].block
    IN  /\ job[n].step = "head"
        /\ head' = IF head[n] = b.number - 1 THEN [head EXCEPT ![n] = b.number] ELSE head
        /\ IF job[n].queried THEN InsertResult(n, job[n].result) ELSE UNCHANGED vote_results
        /\ job' = [job EXCEPT ![n] = IF @.queried THEN Idle ELSE [@ EXCEPT !.step = "execute"]]
        /\ UNCHANGED <<pending, stored, executed, block_proposer, network, cast>>

(* receive_block checks the vote result of an answer only now.             *)
update_block_head(n) ==
    LET b == job[n].block
        rejected == job[n].queried /\ ~ validate_vote_result(job[n].result, b)
    IN  /\ job[n].step = "head"
        /\ head' = IF head[n] = b.number - 1 THEN [head EXCEPT ![n] = b.number] ELSE head
        /\ IF job[n].queried /\ ~ rejected THEN InsertResult(n, job[n].result)
                                           ELSE UNCHANGED vote_results
        /\ job' = [job EXCEPT ![n] = IF rejected THEN Idle ELSE [@ EXCEPT !.step = "execute"]]
        /\ UNCHANGED <<pending, stored, executed, block_proposer, network, cast>>

execute_block(n) ==
    /\ job[n].step = "execute"
    /\ executed' = [executed EXCEPT ![n] = @ \cup {job[n].block.number}]
    /\ job' = [job EXCEPT ![n] = Scanning]
    /\ UNCHANGED <<pending, stored, head, vote_results, block_proposer, network, cast>>

-----------------------------------------------------------------------------
(* Asking a peer for a block.                                              *)

handle_query_block_request(n, q, r) ==
    /\ is_idle(n)
    /\ q.from # n
    /\ q.number \in Numbers
    /\ stored[n][q.number] = r.block
    /\ responses' = responses \cup {[to |-> q.from, block |-> r.block, result |-> r]}
    /\ UNCHANGED <<pending, job, db, blocks, votes, results, queries, cast>>

(* The answer is signed by the peer, so only the header is checked.        *)
receive_block(n, m) ==
    /\ is_idle(n)
    /\ m.to = n
    /\ m.block.number \notin executed[n]
    /\ validate_block_header(n, m.block)
    /\ job' = [job EXCEPT ![n] = [step |-> "store", block |-> m.block,
                                  result |-> m.result, queried |-> TRUE]]
    /\ UNCHANGED <<pending, db, network, cast>>

(* A boot node restarts from its database.  The pending blocks are gone,   *)
(* and it makes itself the proposer of the epoch of its next block.        *)
Restart(n) ==
    /\ pending' = [pending EXCEPT ![n] = [h \in Numbers |-> EmptyEntry]]
    /\ job' = [job EXCEPT ![n] = Idle]
    /\ block_proposer' =
         [block_proposer EXCEPT ![n][calculate_current_epoch(head[n] + 1)] = n]
    /\ UNCHANGED <<stored, head, executed, vote_results, network, cast>>

Write(n) == store_block_header(n) \/ update_block_head(n) \/ execute_block(n)

try_to_finalize(n) ==
    \/ ScanEnd(n)
    \/ \E h \in Numbers :
        \/ DropExecuted(n, h) \/ RejectBlock(n, h) \/ VoteAndWait(n, h)
        \/ \E i \in DOMAIN pending[n][h].vote_results : VoteAndFinalize(n, h, i)

Next ==
    \/ \E n \in Nodes :
        \/ \E b \in Blocks : add_and_broadcast_block(n, b)
        \/ \E b \in blocks : receive_validate_block(n, b)
        \/ \E v \in votes : receive_vote(n, v)
        \/ \E r \in results : receive_vote_result(n, r)
        \/ try_to_finalize(n)
        \/ Write(n)
        \/ \E q \in queries : \E r \in vote_results[n] : handle_query_block_request(n, q, r)
        \/ \E m \in responses : receive_block(n, m)
    \/ \E n \in BootNodes : Restart(n)

Spec == Init /\ [][Next]_vars

-----------------------------------------------------------------------------
(* The production timer keeps asking for a block, a handler runs to its    *)
(* end, and a message that tells a node something new is handled in the    *)
(* end: the task takes them from a queue one by one, in between others.    *)
HandleBlock(n) ==
    \E b \in blocks : pending[n][b.number].block # b /\ receive_validate_block(n, b)
HandleVote(n) ==
    \E v \in votes : /\ v \notin Elements(pending[n][v.block.number].votes)
                     /\ receive_vote(n, v)
HandleVoteResult(n) ==
    \E r \in results : /\ r.block.number \notin executed[n]
                       /\ r \notin Elements(pending[n][r.block.number].vote_results)
                       /\ receive_vote_result(n, r)

Fairness ==
    \A n \in Nodes :
        /\ SF_vars(\E b \in Blocks : add_and_broadcast_block(n, b))
        /\ WF_vars(try_to_finalize(n)) /\ WF_vars(Write(n))
        /\ SF_vars(HandleBlock(n)) /\ SF_vars(HandleVote(n)) /\ SF_vars(HandleVoteResult(n))

LiveSpec == Spec /\ Fairness

(* A block that is sent may reach nobody else, but not for ever if it is   *)
(* sent again and again.                                                   *)
LoseBlock(b) ==
    /\ blocks' = blocks \ {b}
    /\ UNCHANGED <<pending, job, db, votes, results, queries, responses, cast>>

LossySpec == Init /\ [][Next \/ \E b \in blocks : LoseBlock(b)]_vars /\ Fairness

-----------------------------------------------------------------------------
(* The tables, the pending entries and the messages are well formed.       *)
TypeOK ==
    /\ pending \in [Nodes -> [Numbers -> PendingBlock]]
    /\ job \in [Nodes -> Job]
    /\ stored \in [Nodes -> [Numbers -> Blocks \cup {None}]]
    /\ head \in [Nodes -> Numbers]
    /\ executed \in [Nodes -> SUBSET Numbers]
    /\ vote_results \in [Nodes -> SUBSET VoteResult]
    /\ block_proposer \in [Nodes -> [Epochs -> Nodes \cup {None}]]
    /\ blocks \subseteq Blocks /\ votes \subseteq Vote /\ cast \subseteq Vote
    /\ results \subseteq VoteResult
    /\ queries \subseteq [from : Nodes, number : Nat]
    /\ responses \subseteq [to : Nodes, block : Blocks, result : VoteResult]

(* A node that keeps its pending blocks votes once per height, also when   *)
(* its pending block is replaced by another one of the same number.        *)
OneVotePerHeight ==
    \A v, w \in cast :
        v.validator = w.validator /\ v.block.number = w.block.number
            => v = w \/ v.validator \in BootNodes

(* No two nodes hold different blocks under the same number, however the   *)
(* messages are delayed and whichever boot node restarts in between.       *)
Agreement ==
    \A m, n \in Nodes : \A h \in Numbers :
        stored[m][h] = None \/ stored[n][h] = None \/ stored[m][h] = stored[n][h]

(* What Agreement rests on, whatever is in flight: every vote that is      *)
(* counted was cast, every vote result was counted by 60% of the           *)
(* validators, every block that is being stored, served or kept has its    *)
(* quorum, and a vote stays in the pending list until its height is        *)
(* executed.                                                               *)
Supporters(b, vs) == {p \in ValidatorsOf(b) : [validator |-> p, block |-> b] \in vs}
Certified(b, vs) ==
    \/ b = Genesis
    \/ Cardinality(Supporters(b, vs)) >= calculate_min_votes(Cardinality(ValidatorsOf(b)))

HasQuorum(r) ==
    Cardinality(VotesOfValidators(r.votes, r.block))
        >= calculate_min_votes(Cardinality(ValidatorsOf(r.block)))

VotesAreCast ==
    /\ votes \subseteq cast
    /\ \A n \in Nodes : \A h \in Numbers : Elements(pending[n][h].votes) \subseteq cast

ResultsAreCounted ==
    /\ \A r \in results : r.votes \subseteq cast /\ HasQuorum(r)
    /\ \A n \in Nodes : vote_results[n] \subseteq results
    /\ \A n \in Nodes : \A h \in Numbers :
         Elements(pending[n][h].vote_results) \subseteq results

PendingBlocksFit ==
    \A n \in Nodes : \A h \in Numbers :
        LET b == pending[n][h].block
        IN  b # None => /\ b.number = h
                        /\ n \in BootNodes \/ block_proposer[n][EpochOf(b)] = b.by

StoredIsCertified ==
    /\ \A n \in Nodes : \A h \in Numbers :
         stored[n][h] # None => stored[n][h].number = h /\ Certified(stored[n][h], cast)
    /\ \A m \in responses : m.result \in results /\ Certified(m.block, cast)
    /\ \A n \in Nodes : job[n].step \in {"store", "head", "execute"} =>
         job[n].block \in Blocks /\ job[n].result \in results /\ Certified(job[n].block, cast)

WritesInOrder ==
    \A n \in Nodes :
        /\ stored[n][head[n]] # None
        /\ \A h \in executed[n] : stored[n][h] # None
        /\ job[n].step \in {"head", "execute"} => stored[n][job[n].block.number] # None

VotesAreKept ==
    \A v \in cast :
        \/ v.validator \in BootNodes
        \/ v \in Elements(pending[v.validator][v.block.number].votes)
        \/ v.block.number \in executed[v.validator]

IInv ==
    /\ TypeOK /\ VotesAreCast /\ ResultsAreCounted /\ PendingBlocksFit
    /\ StoredIsCertified /\ WritesInOrder /\ VotesAreKept /\ OneVotePerHeight

(* The chain of a node is linked by parent hashes from the genesis block   *)
(* to its head, and nothing is executed that is not on it.                 *)
ChainLinked ==
    \A n \in Nodes :
        /\ \A h \in 1..head[n] : /\ stored[n][h] # None
                                 /\ stored[n][h].number = h
                                 /\ stored[n][h].parent = stored[n][h - 1]
        /\ \A h \in executed[n] : h <= head[n]

(* A block is executed after its parent.                                   *)
ParentExecuted ==
    \A n \in Nodes : \A h \in executed[n] : h = 0 \/ h - 1 \in executed[n]

(* Nodes that have selected the proposer of an epoch have selected the     *)
(* same one, unless the node has restarted.                                *)
ProposersAgree ==
    \A m, n \in Nodes \ BootNodes : \A e \in Epochs :
        \/ block_proposer[m][e] = None \/ block_proposer[n][e] = None
        \/ block_proposer[m][e] = block_proposer[n][e]

(* All votes of a vote result are for the block it is about.               *)
VotesForSameBlock == \A r \in results : \A v \in r.votes : v.block = r.block

-----------------------------------------------------------------------------
(* Every block below the maximal height that is proposed ends up executed  *)
(* by every node, and the proposer of the next epoch takes over, when no   *)
(* message is lost and no node restarts (PendingBlocks::try_to_finalize).  *)
ProposedIsExecuted ==
    \A b \in {c \in Blocks : c.number < MaxBlockHeight} : \A n \in Nodes :
        (b \in blocks) ~> (b.number \in executed[n])

(* A proposer sends a block that is still pending once more when it        *)
(* proposes again, so the block gets to every node.                        *)
ProposedBlockArrives ==
    \A b \in Blocks : \A n \in Nodes :
        (b \in blocks) ~> (b.number \in executed[n] \/ pending[n][b.number].block = b)

=============================================================================
