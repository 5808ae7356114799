------------------------ MODULE FinalizationProofs ------------------------
(***************************************************************************)
(* Proofs about Finalization, for every cluster, every assignment of       *)
(* validators to epochs that satisfies QuorumAssumption, and every set of  *)
(* blocks: the nodes agree on the block of every number.                   *)
(***************************************************************************)
EXTENDS FinalizationQuorums

-----------------------------------------------------------------------------
(* The finalization loop: one lemma per action.                            *)

(* The end of the loop may ask for the next block.                         *)
LEMMA QueryFacts ==
    ASSUME IInv, NEW n \in Nodes, NEW S, query_missed_block(n, S)
    PROVE  queries' \subseteq [from : Nodes, number : Nat]
<1>1. head[n] + 1 \in Nat
      BY ConstantAssumption DEF IInv, TypeOK, Numbers
<1> QED  BY <1>1, NetworkFacts DEF query_missed_block

(* The loop ends, drops an executed entry or meets one it rejects.         *)
LEMMA ScanStep ==
    ASSUME IInv, NEW n \in Nodes, NEW h \in Numbers,
           ScanEnd(n) \/ DropExecuted(n, h) \/ RejectBlock(n, h)
    PROVE  IInv'
<1>1. /\ UNCHANGED <<stored, head, executed, vote_results, block_proposer>>
      /\ UNCHANGED <<responses, results, blocks, votes, cast>>
      BY DEF ScanEnd, DropExecuted, RejectBlock, db, network
<1>2. TablesKept /\ ProposersKept
      BY <1>1, SameProposers DEF TablesKept
<1>3. NetworkKept
  <2>1. queries' \subseteq [from : Nodes, number : Nat]
        BY QueryFacts, NetworkFacts DEF ScanEnd, DropExecuted, RejectBlock, network
  <2> QED  BY <1>1, <2>1, SameNetwork, NetworkFacts
<1>4. CASE ScanEnd(n) \/ RejectBlock(n, h)
  <2>1. UNCHANGED pending /\ job' = [job EXCEPT ![n] = Idle]
        BY <1>4 DEF ScanEnd, RejectBlock
  <2>2. JobsKept
        BY Zenon, <2>1, NextJob
  <2> QED  BY <1>1, <1>2, <1>3, <2>1, <2>2, SameEntry, EntryStep
<1>5. CASE DropExecuted(n, h)
  <2>1. UNCHANGED job /\ SetEntry(n, h, EmptyEntry) /\ h \in executed[n]
        BY <1>5 DEF DropExecuted
  <2>2. JobsKept
        BY <2>1, SameJobs
  <2> QED  BY <1>1, <1>2, <1>3, <2>1, <2>2, EmptyEntryFits, EntryStep
<1> QED  BY <1>4, <1>5

(* A vote is given only where the pending entry holds none of the node.    *)
PublishedEntry(n, h, new) ==
    /\ SetEntry(n, h, new) /\ EntryFits(n, h, new)
    /\ cast \subseteq cast' /\ cast' \subseteq Vote /\ votes' \subseteq cast'

LEMMA PublishFacts ==
    ASSUME IInv, NEW n \in Nodes, NEW h \in Numbers, UNCHANGED results,
           pending[n][h].block # None, h \notin executed[n], publish_vote(n, pending[n][h])
    PROVE  \E new \in PendingBlock : PublishedEntry(n, h, new)
<1> DEFINE entry == pending[n][h]
           b == entry.block
           own == {i \in DOMAIN entry.votes : entry.votes[i].validator = n}
           vote == [validator |-> n, block |-> b]
           vs == Append(entry.votes, vote)
           new == [entry EXCEPT !.votes = vs]
<1>1. /\ entry \in PendingBlock /\ BlockFits(n, h, b) /\ entry.votes \in Seq(Vote)
      /\ Elements(entry.votes) \subseteq cast /\ Elements(entry.vote_results) \subseteq results
      BY EntryFacts
<1>2. b \in Blocks /\ b.number = h /\ vote \in Vote /\ vote.validator = n /\ vote.block = b
      BY <1>1 DEF Vote, BlockFits
<1>3. \/ UNCHANGED <<pending, votes, cast>>
      \/ (\E i \in own : votes' = votes \cup {entry.votes[i]}) /\ UNCHANGED <<pending, cast>>
      \/ /\ own = {} /\ votes' = votes \cup {vote} /\ cast' = cast \cup {vote}
         /\ SetEntry(n, b.number, new)
      BY Zenon DEF publish_vote
<1>4. CASE UNCHANGED <<pending, cast>> /\ votes' \subseteq cast
      BY <1>4, SameEntry, NetworkFacts DEF PublishedEntry
<1>5. CASE (\E i \in own : votes' = votes \cup {entry.votes[i]}) /\ UNCHANGED <<pending, cast>>
  <2>1. votes' \subseteq cast
        BY <1>1, <1>5, NetworkFacts DEF Elements
  <2> QED  BY <1>4, <1>5, <2>1
<1>6. CASE /\ own = {} /\ votes' = votes \cup {vote} /\ cast' = cast \cup {vote}
           /\ SetEntry(n, b.number, new)
  <2>1. \A w \in cast : w.validator = n /\ w.block.number = h => n \in BootNodes
        BY <1>6 DEF IInv, VotesAreKept, Elements
  <2> HIDE DEF own, vote, b, entry
  <2>2. vs \in Seq(Vote) /\ Elements(vs) = Elements(entry.votes) \cup {vote}
        BY <1>1, <1>2, PushElements
  <2> HIDE DEF vs
  <2>3. /\ new \in PendingBlock /\ new.votes = vs /\ new.block = b
        /\ new.vote_results = entry.vote_results
        BY <1>1, <2>2, EntryWithVotes DEF b
  <2> HIDE DEF new
  <2>4. cast \subseteq cast' /\ cast' \subseteq Vote /\ votes' \subseteq cast'
        BY <1>2, <1>6, NetworkFacts
  <2>5. \A v \in cast' \ cast :
          /\ v.validator = n /\ v.block.number = h /\ v \in Elements(new.votes)
          /\ \A w \in cast' : w.validator = n /\ w.block.number = h => w = v \/ n \in BootNodes
        BY <1>2, <1>6, <2>1, <2>2, <2>3
  <2>6. EntryFits(n, h, new)
        BY <1>1, <1>6, <2>2, <2>3, <2>4, <2>5 DEF EntryFits, entry
  <2>7. SetEntry(n, h, new)
        BY <1>2, <1>6
  <2>8. PublishedEntry(n, h, new)
        BY <2>4, <2>6, <2>7 DEF PublishedEntry
  <2> QED  BY <2>3, <2>8
<1> QED  BY Zenon, <1>3, <1>4, <1>5, <1>6, NetworkFacts

(* The messages of a node that has voted.                                  *)
LEMMA PublishNetwork ==
    ASSUME IInv, NEW n, NEW h, NEW new, PublishedEntry(n, h, new), UNCHANGED <<blocks, results>>,
           queries' \subseteq [from : Nodes, number : Nat]
    PROVE  NetworkKept
BY NetworkFacts DEF NetworkKept, PublishedEntry

(* A node that votes and has no passing vote result yet.                   *)
LEMMA VoteAndWaitStep ==
    ASSUME IInv, NEW n \in Nodes, NEW h \in Numbers, VoteAndWait(n, h)
    PROVE  IInv'
<1>1. /\ UNCHANGED <<stored, head, executed, vote_results, block_proposer>>
      /\ UNCHANGED <<responses, results, blocks>>
      /\ job' = [job EXCEPT ![n] = Idle]
      /\ query_missed_block(n, PendingNumbers(n))
      /\ pending[n][h].block # None /\ h \notin executed[n] /\ publish_vote(n, pending[n][h])
      BY DEF VoteAndWait, Unfinalized, CanVote, db
<1>2. TablesKept /\ ProposersKept /\ JobsKept
      BY Zenon, <1>1, SameProposers, NextJob DEF TablesKept
<1>3. PICK new \in PendingBlock : PublishedEntry(n, h, new)
      BY <1>1, PublishFacts
<1>4. NetworkKept
      BY <1>1, <1>3, QueryFacts, PublishNetwork
<1>5. SetEntry(n, h, new) /\ EntryFits(n, h, new)
      BY <1>3 DEF PublishedEntry
<1> QED  BY <1>2, <1>4, <1>5, EntryStep

(* Selecting a proposer never replaces one.                                *)
LEMMA SelectFacts ==
    ASSUME IInv, NEW n \in Nodes, NEW b \in Blocks, select_and_store_proposer(n, b)
    PROVE  ProposersKept
<1> DEFINE e == calculate_current_epoch(b.number + 1)
           p == Elect[e][HeadHeader(n)]
<1>1. HeadHeader(n) \in Blocks
      BY DEF HeadHeader, IInv, TypeOK, WritesInOrder
<1>2. e \in Epochs /\ p \in Nodes
      BY <1>1, EpochsOfBlocks, ConstantAssumption
<1>3. \/ block_proposer' = block_proposer
      \/ block_proposer[n][e] = None /\ block_proposer' = [block_proposer EXCEPT ![n][e] = p]
      BY DEF select_and_store_proposer
<1>4. block_proposer \in [Nodes -> [Epochs -> Nodes \cup {None}]]
      BY DEF IInv, TypeOK
<1> HIDE DEF e, p
<1>5. CASE block_proposer' = block_proposer
      BY <1>4, <1>5 DEF ProposersKept
<1>6. CASE block_proposer[n][e] = None /\ block_proposer' = [block_proposer EXCEPT ![n][e] = p]
  <2>1. block_proposer' \in [Nodes -> [Epochs -> Nodes \cup {None}]]
        BY <1>2, <1>4, <1>6
  <2>2. \A m \in Nodes : \A k \in Epochs :
            block_proposer[m][k] # None => block_proposer'[m][k] = block_proposer[m][k]
        BY <1>2, <1>4, <1>6
  <2> QED  BY <2>1, <2>2 DEF ProposersKept
<1> QED  BY <1>3, <1>5, <1>6

(* A block is handed to storage with a vote result that certifies it.      *)
LEMMA VoteAndFinalizeStep ==
    ASSUME IInv, NEW n \in Nodes, NEW h \in Numbers,
           NEW i \in DOMAIN pending[n][h].vote_results, VoteAndFinalize(n, h, i)
    PROVE  IInv'
<1> DEFINE b == pending[n][h].block
           r == pending[n][h].vote_results[i]
<1>1. /\ UNCHANGED <<stored, head, executed, vote_results>>
      /\ UNCHANGED <<responses, results, blocks, queries>>
      /\ job' = [job EXCEPT ![n] = [step |-> "store", block |-> b, result |-> r, queried |-> FALSE]]
      /\ b # None /\ h \notin executed[n] /\ publish_vote(n, pending[n][h])
      /\ select_and_store_proposer(n, b)
      /\ i \in PassingResults(pending[n][h])
      BY DEF VoteAndFinalize, Unfinalized, CanVote, First
<1>2. /\ BlockFits(n, h, b) /\ Elements(pending[n][h].vote_results) \subseteq results
      BY EntryFacts
<1>3. b \in Blocks /\ r \in results
      BY <1>1, <1>2 DEF Elements, BlockFits
<1>4. validate_vote_result(r, b)
      BY <1>1 DEF PassingResults
<1>5. PICK new \in PendingBlock : PublishedEntry(n, h, new)
      BY <1>1, PublishFacts
<1> HIDE DEF b, r
<1>6. Certified(b, cast)
      BY <1>3, <1>4, ResultCertifies DEF IInv
<1>7. JobsKept
      BY Zenon, <1>1, <1>3, <1>6, StartJob
<1>8. TablesKept /\ ProposersKept
      BY <1>1, <1>3, SelectFacts DEF TablesKept
<1>9. NetworkKept
      BY <1>1, <1>5, PublishNetwork, NetworkFacts
<1>10. SetEntry(n, h, new) /\ EntryFits(n, h, new)
       BY <1>5 DEF PublishedEntry
<1> QED  BY <1>7, <1>8, <1>9, <1>10, EntryStep

(* An answer is handed to storage with its certificate.                    *)
LEMMA ReceiveAnswerStep ==
    ASSUME IInv, NEW n \in Nodes, NEW m \in responses, receive_block(n, m)
    PROVE  IInv'
<1>1. /\ UNCHANGED <<stored, head, executed, vote_results, block_proposer>>
      /\ UNCHANGED <<responses, results, blocks, queries, votes, cast, pending>>
      /\ job' = [job EXCEPT ![n] = [step |-> "store", block |-> m.block,
                                    result |-> m.result, queried |-> TRUE]]
      BY DEF receive_block, db, network
<1>2. /\ m.block \in Blocks /\ m.result \in results /\ Certified(m.block, cast)
      BY DEF IInv, TypeOK, StoredIsCertified
<1>3. JobsKept
      BY Zenon, <1>1, <1>2, StartJob
<1>4. TablesKept /\ ProposersKept
      BY <1>1, SameProposers DEF TablesKept
<1>5. NetworkKept
      BY <1>1, SameNetwork, NetworkFacts
<1>6. 0 \in Numbers
      BY ConstantAssumption DEF Numbers
<1> QED  BY <1>1, <1>3, <1>4, <1>5, <1>6, SameEntry, EntryStep


-----------------------------------------------------------------------------
(* The steps that write a finalized block, answer a query or restart.      *)

(* A row of the vote result table is inserted at most once.                *)
LEMMA InsertFacts ==
    ASSUME IInv, NEW n \in Nodes, NEW r \in results,
           InsertResult(n, r) \/ vote_results' = vote_results
    PROVE  /\ vote_results' \in [Nodes -> SUBSET VoteResult]
           /\ \A m \in Nodes : vote_results'[m] \subseteq results
<1>1. /\ vote_results \in [Nodes -> SUBSET VoteResult] /\ r \in VoteResult
      /\ \A m \in Nodes : vote_results[m] \subseteq results
      BY DEF IInv, TypeOK, ResultsAreCounted
<1>2. \/ vote_results' = vote_results
      \/ vote_results' = [vote_results EXCEPT ![n] = vote_results[n] \cup {r}]
      BY DEF InsertResult
<1> QED  BY <1>1, <1>2

(* The three writes of a finalized block.                                  *)
LEMMA WriteStep ==
    ASSUME IInv, NEW n \in Nodes, Write(n)
    PROVE  IInv'
<1> DEFINE b == job[n].block
<1>1. /\ b \in Blocks /\ job[n].result \in results /\ Certified(b, cast)
      /\ b.number \in Numbers /\ b.number \in Nat
  <2>1. job[n].step \in {"store", "head", "execute"}
        BY DEF Write, store_block_header, update_block_head, execute_block
  <2> QED  BY <2>1, BlockAssumption, ConstantAssumption DEF IInv, StoredIsCertified, Numbers
<1>2. UNCHANGED <<pending, block_proposer, blocks, votes, results, queries, responses, cast>>
      BY DEF Write, store_block_header, update_block_head, execute_block, network
<1>3. /\ vote_results' \in [Nodes -> SUBSET VoteResult]
      /\ \A m \in Nodes : vote_results'[m] \subseteq results
      BY <1>1, InsertFacts
      DEF Write, store_block_header, update_block_head, execute_block
<1>4. /\ stored' \in [Nodes -> [Numbers -> Blocks \cup {None}]]
      /\ \A m \in Nodes : \A h \in Numbers :
            /\ stored[m][h] # None => stored'[m][h] = stored[m][h]
            /\ stored'[m][h] # stored[m][h] => h = b.number /\ stored'[m][h] = b
  <2>1. \/ stored' = stored
        \/ stored[n][b.number] = None /\ stored' = [stored EXCEPT ![n][b.number] = b]
        BY DEF Write, store_block_header, update_block_head, execute_block
  <2>2. stored \in [Nodes -> [Numbers -> Blocks \cup {None}]]
        BY DEF IInv, TypeOK
  <2> HIDE DEF b
  <2> QED  BY <1>1, <2>1, <2>2
<1>5. \A m \in Nodes \ {n} : job'[m] = job[m] /\ head'[m] = head[m] /\ executed'[m] = executed[m]
      BY DEF Write, store_block_header, update_block_head, execute_block, IInv, TypeOK
<1>6. \/ /\ job[n].step = "store" /\ job'[n] = [job[n] EXCEPT !.step = "head"]
         /\ stored'[n][b.number] # None /\ head'[n] = head[n] /\ executed'[n] = executed[n]
      \/ /\ job[n].step = "head" /\ executed'[n] = executed[n]
         /\ job'[n] = Idle \/ job'[n] = [job[n] EXCEPT !.step = "execute"]
         /\ head'[n] \in {head[n], b.number}
      \/ /\ job[n].step = "execute" /\ job'[n] = Scanning
         /\ head'[n] = head[n] /\ executed'[n] = executed[n] \cup {b.number}
  <2>1. CASE store_block_header(n)
        BY <1>1, <2>1, ConstantAssumption DEF store_block_header, IInv, TypeOK
  <2>2. CASE update_block_head(n)
        BY <2>2 DEF update_block_head, IInv, TypeOK
  <2>3. CASE execute_block(n)
        BY <2>3 DEF execute_block, IInv, TypeOK
  <2> QED  BY <2>1, <2>2, <2>3 DEF Write
<1>7. TypeOK'
  <2>1. job'[n] \in Job
    <3>1. job[n] \in Job /\ Idle \in Job /\ Scanning \in Job
          BY Zenon DEF IInv, TypeOK, Job, Steps, Idle, Scanning
    <3>2. \A j \in Job : [j EXCEPT !.step = "head"] \in Job /\ [j EXCEPT !.step = "execute"] \in Job
          BY DEF Job, Steps
    <3> QED  BY <1>6, <3>1, <3>2
  <2>2. job' \in [Nodes -> Job]
    <3>1. \E j : job' = [job EXCEPT ![n] = j]
          BY DEF Write, store_block_header, update_block_head, execute_block
    <3> QED  BY <2>1, <3>1 DEF IInv, TypeOK
  <2>3. head' \in [Nodes -> Numbers] /\ executed' \in [Nodes -> SUBSET Numbers]
    <3>1. /\ head' = head \/ head' = [head EXCEPT ![n] = b.number]
          /\ executed' = executed \/ executed' = [executed EXCEPT ![n] = executed[n] \cup {b.number}]
          BY DEF Write, store_block_header, update_block_head, execute_block
    <3>2. head \in [Nodes -> Numbers] /\ executed \in [Nodes -> SUBSET Numbers]
          BY DEF IInv, TypeOK
    <3> HIDE DEF b
    <3> QED  BY <1>1, <3>1, <3>2
  <2> QED  BY <1>2, <1>3, <1>4, <2>2, <2>3 DEF IInv, TypeOK
<1>8. VotesAreCast' /\ PendingBlocksFit' /\ OneVotePerHeight'
      BY <1>2 DEF IInv, VotesAreCast, PendingBlocksFit, EpochOf, OneVotePerHeight
<1>9. ResultsAreCounted'
      BY <1>2, <1>3 DEF IInv, ResultsAreCounted, HasQuorum, VotesOfValidators
<1>10. StoredIsCertified'
  <2>1. \A m \in Nodes : \A h \in Numbers :
            stored'[m][h] # None => stored'[m][h].number = h /\ Certified(stored'[m][h], cast)
        BY <1>1, <1>4 DEF IInv, StoredIsCertified
  <2>2. job'[n].step \in {"store", "head", "execute"} => job'[n].block = b /\ job'[n].result = job[n].result
        BY <1>6 DEF IInv, TypeOK, Job, Idle, Scanning
  <2>3. \A m \in Nodes : job'[m].step \in {"store", "head", "execute"} =>
            job'[m].block \in Blocks /\ job'[m].result \in results /\ Certified(job'[m].block, cast)
        BY <1>1, <1>5, <2>2 DEF IInv, StoredIsCertified
  <2> QED  BY <1>2, <2>1, <2>3 DEF IInv, StoredIsCertified
<1>11. WritesInOrder'
  <2>1. \A m \in Nodes \ {n} :
           /\ stored'[m][head'[m]] # None
           /\ \A h \in executed'[m] : stored'[m][h] # None
           /\ job'[m].step \in {"head", "execute"} => stored'[m][job'[m].block.number] # None
        BY SMTT(20), <1>4, <1>5, BlockAssumption DEF IInv, TypeOK, WritesInOrder, StoredIsCertified
  <2>2. job[n].step \in {"head", "execute"} => stored'[n][b.number] # None
        BY <1>1, <1>4 DEF IInv, WritesInOrder
  <2>3. /\ head[n] \in Numbers /\ executed[n] \subseteq Numbers
        /\ stored[n][head[n]] # None /\ \A h \in executed[n] : stored[n][h] # None
        BY DEF IInv, TypeOK, WritesInOrder
  <2>4. /\ stored'[n][head[n]] # None /\ \A h \in executed[n] : stored'[n][h] # None
        BY <1>4, <2>3
  <2>5. /\ stored'[n][head'[n]] # None
        /\ \A h \in executed'[n] : stored'[n][h] # None
        BY <1>6, <2>2, <2>4
  <2>6. job'[n].step \in {"head", "execute"} => stored'[n][job'[n].block.number] # None
    <3>1. job[n] \in Job /\ Idle.step = "idle" /\ Scanning.step = "scan"
          BY DEF IInv, TypeOK, Idle, Scanning
    <3>2. \A j \in Job : /\ [j EXCEPT !.step = "head"].block = j.block
                         /\ [j EXCEPT !.step = "execute"].block = j.block
          BY ZenonT(30) DEF Job
    <3> QED  BY ZenonT(30), <1>6, <2>2, <3>1, <3>2
  <2> QED  BY <2>1, <2>5, <2>6 DEF WritesInOrder
<1>12. VotesAreKept'
  <2>1. \A m \in Nodes : executed[m] \subseteq executed'[m]
        BY <1>5, <1>6
  <2> QED  BY <1>2, <2>1 DEF IInv, TypeOK, Vote, VotesAreKept
<1> QED  BY <1>7, <1>8, <1>9, <1>10, <1>11, <1>12 DEF IInv

(* What a node serves is what it stores.                                   *)
LEMMA AnswerStep ==
    ASSUME IInv, NEW n \in Nodes, NEW q \in queries, NEW r \in vote_results[n],
           handle_query_block_request(n, q, r)
    PROVE  IInv'
<1> DEFINE m == [to |-> q.from, block |-> r.block, result |-> r]
<1>1. /\ UNCHANGED <<pending, job, stored, head, executed, vote_results, block_proposer>>
      /\ UNCHANGED <<blocks, votes, results, queries, cast>>
      /\ responses' = responses \cup {m}
      /\ q.number \in Numbers /\ stored[n][q.number] = r.block
      BY DEF handle_query_block_request, db
<1>2. r \in results /\ r \in VoteResult /\ r.block \in Blocks /\ r.block # None /\ q.from \in Nodes
      BY ConstantAssumption DEF IInv, TypeOK, ResultsAreCounted, VoteResult
<1>3. Certified(r.block, cast)
      BY <1>1, <1>2 DEF IInv, StoredIsCertified
<1>4. TypeOK'
      BY <1>1, <1>2 DEF IInv, TypeOK
<1>5. /\ VotesAreCast' /\ ResultsAreCounted' /\ PendingBlocksFit' /\ WritesInOrder'
      /\ VotesAreKept' /\ OneVotePerHeight'
  <2>1. VotesAreCast' /\ PendingBlocksFit'
        BY <1>1 DEF IInv, VotesAreCast, PendingBlocksFit, EpochOf
  <2>2. ResultsAreCounted'
        BY <1>1 DEF IInv, ResultsAreCounted, HasQuorum, VotesOfValidators
  <2>3. WritesInOrder' /\ VotesAreKept' /\ OneVotePerHeight'
        BY <1>1 DEF IInv, WritesInOrder, VotesAreKept, OneVotePerHeight
  <2> QED  BY <2>1, <2>2, <2>3
<1>6. StoredIsCertified'
      BY <1>1, <1>2, <1>3 DEF IInv, StoredIsCertified
<1> QED  BY <1>4, <1>5, <1>6 DEF IInv

(* A restart forgets votes, but only of a node that may restart.           *)
LEMMA RestartStep ==
    ASSUME IInv, NEW n \in BootNodes, Restart(n)
    PROVE  IInv'
<1> DEFINE none == [h \in Numbers |-> EmptyEntry]
           e == calculate_current_epoch(head[n] + 1)
<1>1. /\ UNCHANGED <<stored, head, executed, vote_results>>
      /\ UNCHANGED <<blocks, votes, results, queries, responses, cast>>
      /\ pending' = [pending EXCEPT ![n] = none]
      /\ job' = [job EXCEPT ![n] = Idle]
      /\ block_proposer' = [block_proposer EXCEPT ![n][e] = n]
      BY DEF Restart, network
<1>2. n \in Nodes
      BY ConstantAssumption
<1>3. /\ EmptyEntry \in PendingBlock /\ EmptyEntry.block = None
      /\ Elements(EmptyEntry.votes) = {} /\ Elements(EmptyEntry.vote_results) = {}
      BY DEF EmptyEntry, PendingBlock, Elements
<1>4. /\ pending' \in [Nodes -> [Numbers -> PendingBlock]]
      /\ \A m \in Nodes : \A h \in Numbers :
            pending'[m][h] = IF m = n THEN EmptyEntry ELSE pending[m][h]
      BY <1>1, <1>2, <1>3 DEF IInv, TypeOK
<1>5. /\ job' \in [Nodes -> Job]
      /\ \A m \in Nodes : job'[m] = job[m] \/ job'[m].step = "idle"
  <2>1. Idle \in Job /\ Idle.step = "idle" /\ job \in [Nodes -> Job]
        BY DEF Idle, Job, Steps, IInv, TypeOK
  <2> QED  BY <1>1, <1>2, <2>1
<1>6. /\ block_proposer' \in [Nodes -> [Epochs -> Nodes \cup {None}]]
      /\ \A m \in Nodes \ {n} : block_proposer'[m] = block_proposer[m]
  <2>1. block_proposer \in [Nodes -> [Epochs -> Nodes \cup {None}]]
        BY DEF IInv, TypeOK
  <2> HIDE DEF e
  <2> QED  BY Zenon, <1>1, <1>2, <2>1
<1>7. TypeOK'
      BY <1>1, <1>4, <1>5, <1>6 DEF IInv, TypeOK
<1>8. VotesAreCast' /\ ResultsAreCounted'
  <2>1. VotesAreCast'
        BY Zenon, <1>1, <1>3, <1>4 DEF IInv, VotesAreCast
  <2>2. ResultsAreCounted'
    <3>1. \A r \in results' : r.votes \subseteq cast' /\ HasQuorum(r)
          BY <1>1 DEF IInv, ResultsAreCounted
    <3>2. \A m \in Nodes : vote_results'[m] \subseteq results'
          BY <1>1 DEF IInv, ResultsAreCounted
    <3>3. \A m \in Nodes : \A h \in Numbers :
             Elements(pending'[m][h].vote_results) \subseteq results'
          BY Zenon, <1>1, <1>3, <1>4 DEF IInv, ResultsAreCounted
    <3> QED  BY <3>1, <3>2, <3>3 DEF ResultsAreCounted
  <2> QED  BY <2>1, <2>2
<1>9. PendingBlocksFit'
  <2>1. ASSUME NEW m \in Nodes, NEW h \in Numbers, m # n, pending[m][h].block # None
        PROVE  /\ pending'[m][h].block = pending[m][h].block /\ pending[m][h].block.number = h
               /\ \/ m \in BootNodes
                  \/ block_proposer'[m][EpochOf(pending[m][h].block)] = pending[m][h].block.by
        BY <1>4, <1>6, <2>1 DEF IInv, PendingBlocksFit
  <2>2. ASSUME NEW m \in Nodes, NEW h \in Numbers, pending'[m][h].block # None
        PROVE  m # n /\ pending[m][h].block # None
        BY <1>3, <1>4, <2>2
  <2> QED  BY <2>1, <2>2 DEF PendingBlocksFit, EpochOf
<1>10. StoredIsCertified' /\ WritesInOrder' /\ OneVotePerHeight'
  <2>1. StoredIsCertified'
        BY <1>1, <1>5 DEF IInv, StoredIsCertified
  <2>2. WritesInOrder' /\ OneVotePerHeight'
        BY <1>1, <1>5 DEF IInv, WritesInOrder, OneVotePerHeight
  <2> QED  BY <2>1, <2>2
<1>11. VotesAreKept'
  <2>1. \A v \in cast : v.validator \in Nodes /\ v.block.number \in Numbers
        BY NetworkFacts, BlockAssumption DEF Vote
  <2> QED  BY <1>1, <1>4, <2>1 DEF IInv, VotesAreKept
<1> QED  BY <1>7, <1>8, <1>9, <1>10, <1>11 DEF IInv

(* Every step of the cluster keeps the invariant.                          *)
LEMMA NextInvariant ==
    ASSUME IInv, [Next]_vars
    PROVE  IInv'
<1>1. ASSUME NEW n \in Nodes, NEW b \in Blocks, add_and_broadcast_block(n, b)
      PROVE  IInv'
      BY <1>1, ProposeStep
<1>2. ASSUME NEW n \in Nodes, NEW b \in blocks, receive_validate_block(n, b)
      PROVE  IInv'
      BY <1>2, ReceiveBlockStep
<1>3. ASSUME NEW n \in Nodes, NEW v \in votes, receive_vote(n, v)
      PROVE  IInv'
      BY <1>3, ReceiveVoteStep
<1>4. ASSUME NEW n \in Nodes, NEW r \in results, receive_vote_result(n, r)
      PROVE  IInv'
      BY <1>4, ReceiveResultStep
<1>5. ASSUME NEW n \in Nodes, try_to_finalize(n)
      PROVE  IInv'
  <2>1. CASE ScanEnd(n)
    <3>1. 0 \in Numbers
          BY ConstantAssumption DEF Numbers
    <3> QED  BY <2>1, <3>1, ScanStep
  <2>2. ASSUME NEW h \in Numbers, DropExecuted(n, h) \/ RejectBlock(n, h)
        PROVE  IInv'
        BY <2>2, ScanStep
  <2>3. ASSUME NEW h \in Numbers, VoteAndWait(n, h)
        PROVE  IInv'
        BY <2>3, VoteAndWaitStep
  <2>4. ASSUME NEW h \in Numbers, NEW i \in DOMAIN pending[n][h].vote_results, VoteAndFinalize(n, h, i)
        PROVE  IInv'
        BY <2>4, VoteAndFinalizeStep
  <2> QED  BY <1>5, <2>1, <2>2, <2>3, <2>4 DEF try_to_finalize
<1>6. ASSUME NEW n \in Nodes, Write(n)
      PROVE  IInv'
      BY <1>6, WriteStep
<1>7. ASSUME NEW n \in Nodes, NEW q \in queries, NEW r \in vote_results[n],
             handle_query_block_request(n, q, r)
      PROVE  IInv'
      BY <1>7, AnswerStep
<1>8. ASSUME NEW n \in Nodes, NEW m \in responses, receive_block(n, m)
      PROVE  IInv'
      BY <1>8, ReceiveAnswerStep
<1>9. ASSUME NEW n \in BootNodes, Restart(n)
      PROVE  IInv'
      BY <1>9, RestartStep
<1>10. CASE UNCHANGED vars
  <2>1. /\ UNCHANGED <<pending, job, stored, head, executed, vote_results, block_proposer>>
        /\ UNCHANGED <<blocks, votes, results, queries, responses, cast>>
        BY <1>10 DEF vars, db, network
  <2>2. TablesKept /\ JobsKept /\ ProposersKept /\ NetworkKept
        BY <2>1, SameJobs, SameProposers, SameNetwork, NetworkFacts DEF TablesKept
  <2>3. InitialProposer \in Nodes /\ 0 \in Numbers
        BY ConstantAssumption DEF Numbers
  <2> QED  BY <2>1, <2>2, <2>3, SameEntry, EntryStep
<1> QED  BY <1>1, <1>2, <1>3, <1>4, <1>5, <1>6, <1>7, <1>8, <1>9, <1>10 DEF Next

-----------------------------------------------------------------------------
(* The inductive invariant holds in every reachable state.                 *)
THEOREM FinalizationInvariant == Spec => []IInv
<1>1. Init => IInv
      BY InitInvariant
<1>2. IInv /\ [Next]_vars => IInv'
      BY NextInvariant
<1> QED  BY <1>1, <1>2, PTL DEF Spec

(* The tables, the pending entries and the messages stay well formed.      *)
THEOREM TypeCorrect == Spec => []TypeOK
<1>1. IInv => TypeOK
      BY DEF IInv
<1> QED  BY <1>1, FinalizationInvariant, PTL

(* No two nodes ever store different blocks under the same number: a block *)
(* is stored only with 60% of the votes, two such sets of validators share *)
(* one that does not restart, and that one votes once per height.          *)
THEOREM NodesAgree == Spec => []Agreement
<1>1. IInv => Agreement
      BY InvariantImpliesAgreement
<1> QED  BY <1>1, FinalizationInvariant, PTL

(* A node that does not restart never gives two votes at one height.       *)
THEOREM VotesOnce == Spec => []OneVotePerHeight
<1>1. IInv => OneVotePerHeight
      BY DEF IInv
<1> QED  BY <1>1, FinalizationInvariant, PTL

(* While no node restarts, blocks are proposed, voted for, written and     *)
(* executed in order, in every reachable state.                            *)
THEOREM FinalizationInOrder ==
    ASSUME BootNodes = {}
    PROVE  Spec => []OrderInv
<1>1. Init => OrderInv
      BY InitOrder
<1>2. IInv /\ OrderInv /\ [Next]_vars => OrderInv'
      BY InvariantImpliesAgreement, NextOrder
<1> QED  BY <1>1, <1>2, FinalizationInvariant, PTL DEF Spec

(* While no node restarts, all nodes that know the proposer of an epoch    *)
(* know the same one: select_and_store_proposer is seeded by a header that *)
(* the nodes agree on.                                                     *)
THEOREM ProposersAlwaysAgree ==
    ASSUME BootNodes = {}
    PROVE  Spec => []ProposersAgree
<1>1. IInv /\ OrderInv => ProposersAgree
      BY InvariantImpliesAgreement, SameProposer DEF OrderInv
<1> QED  BY <1>1, FinalizationInvariant, FinalizationInOrder, PTL

(* While no node restarts, all votes of a vote result are for its block,   *)
(* so no node rejects one in validate_vote_result.                         *)
THEOREM VotesAlwaysMatch ==
    ASSUME BootNodes = {}
    PROVE  Spec => []VotesForSameBlock
<1>1. OrderInv => VotesForSameBlock
      BY DEF OrderInv
<1> QED  BY <1>1, FinalizationInOrder, PTL

(* While no node restarts, the chain of every node is linked by parent     *)
(* hashes and every block is executed after its parent, whether it was     *)
(* voted for or came as an answer to a query.                              *)
THEOREM ChainsAreLinked ==
    ASSUME BootNodes = {}
    PROVE  Spec => [](ChainLinked /\ ParentExecuted)
<1>1. IInv /\ OrderInv => ChainLinked /\ ParentExecuted
      BY OrderLinks
<1> QED  BY <1>1, FinalizationInvariant, FinalizationInOrder, PTL
=============================================================================
