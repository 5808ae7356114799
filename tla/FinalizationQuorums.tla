------------------------ MODULE FinalizationQuorums -----------------------
(***************************************************************************)
(* Lemmas about Finalization: quorums intersect in a validator that votes  *)
(* once, the invariant holds initially and implies agreement, what a step  *)
(* that replaces one pending entry has to satisfy to keep it, and that the *)
(* steps that propose, receive gossip and vote do.                         *)
(***************************************************************************)
EXTENDS FinalizationOrder, FiniteSetTheorems

-----------------------------------------------------------------------------
(* Quorums.                                                                *)

(* A quorum stays one when more votes are cast.                            *)
LEMMA CertifiedGrows ==
    ASSUME NEW b \in Blocks, Certified(b, cast), cast \subseteq cast'
    PROVE  Certified(b, cast')
<1>1. CASE b = Genesis
      BY <1>1 DEF Certified
<1>2. CASE b # Genesis
  <2>1. IsFiniteSet(Supporters(b, cast')) /\ IsFiniteSet(Supporters(b, cast))
        BY Zenon, EpochsOfBlocks, FS_Subset DEF Supporters
  <2>2. Supporters(b, cast) \subseteq Supporters(b, cast')
        BY DEF Supporters
  <2>3. Cardinality(Supporters(b, cast)) <= Cardinality(Supporters(b, cast'))
        BY <2>1, <2>2, FS_Subset
  <2>4. Cardinality(ValidatorsOf(b)) \in Nat /\ calculate_min_votes(Cardinality(ValidatorsOf(b))) \in Int
        BY EpochsOfBlocks, FS_CardinalityType DEF calculate_min_votes
  <2>5. Cardinality(Supporters(b, cast)) \in Nat /\ Cardinality(Supporters(b, cast')) \in Nat
        BY <2>1, FS_CardinalityType
  <2> QED  BY <1>2, <2>3, <2>4, <2>5 DEF Certified
<1> QED  BY <1>1, <1>2

(* A vote result that was counted and that only holds votes for its block  *)
(* certifies that block.                                                   *)
LEMMA ResultCertifies ==
    ASSUME TypeOK, ResultsAreCounted, NEW b \in Blocks, NEW r \in results,
           validate_vote_result(r, b)
    PROVE  Certified(b, cast)
<1> DEFINE VB == VotesOfValidators(r.votes, b)
           VoteFor(p) == [validator |-> p, block |-> b]
           f == [p \in Supporters(b, cast) |-> VoteFor(p)]
<1>1. r.block = b /\ r.votes \subseteq cast /\ r.votes \subseteq Vote /\ \A v \in r.votes : v.block = b
      BY DEF validate_vote_result, ResultsAreCounted, TypeOK, VoteResult
<1>2. IsFiniteSet(Supporters(b, cast))
      BY Zenon, EpochsOfBlocks, FS_Subset DEF Supporters
<1>3. \A v \in VB : v.validator \in Supporters(b, cast) /\ v = VoteFor(v.validator)
      BY <1>1 DEF VotesOfValidators, Supporters, Vote
<1>4. VB \subseteq {f[p] : p \in Supporters(b, cast)}
      BY <1>3
<1>5. /\ IsFiniteSet({f[p] : p \in Supporters(b, cast)})
      /\ Cardinality({f[p] : p \in Supporters(b, cast)}) <= Cardinality(Supporters(b, cast))
  <2> DEFINE T == {f[p] : p \in Supporters(b, cast)}
  <2>1. f \in Surjection(Supporters(b, cast), T)
        BY DEF Surjection
  <2> QED  BY <1>2, <2>1, FS_Surjection
<1>6. /\ Cardinality(VB) \in Nat /\ Cardinality(Supporters(b, cast)) \in Nat
      /\ Cardinality(VB) <= Cardinality(Supporters(b, cast))
      BY <1>2, <1>4, <1>5, FS_Subset, FS_CardinalityType
<1>7. Cardinality(VB) >= calculate_min_votes(Cardinality(ValidatorsOf(b)))
      BY <1>1 DEF ResultsAreCounted, HasQuorum
<1>8. calculate_min_votes(Cardinality(ValidatorsOf(b))) \in Int
      BY EpochsOfBlocks, FS_CardinalityType DEF calculate_min_votes
<1> QED  BY <1>6, <1>7, <1>8 DEF Certified

(* Two certified blocks of one number share a validator that does not      *)
(* restart; it votes once, so they are the same block.                     *)
LEMMA CertifiedUnique ==
    ASSUME OneVotePerHeight, NEW b \in Blocks, NEW c \in Blocks,
           Certified(b, cast), Certified(c, cast), b.number = c.number
    PROVE  b = c
<1>1. CASE b = Genesis \/ c = Genesis
      BY <1>1, BlockAssumption
<1>2. CASE b # Genesis /\ c # Genesis
  <2> DEFINE V == ValidatorsOf(b)
             B == Supporters(b, cast)
             C == Supporters(c, cast)
  <2>1. V = ValidatorsOf(c) /\ V = Validators[EpochOf(b)] /\ EpochOf(b) \in Epochs
        BY EpochsOfBlocks DEF ValidatorsOf, EpochOf
  <2>2. IsFiniteSet(V) /\ B \subseteq V /\ C \subseteq V
        BY <2>1, EpochsOfBlocks DEF Supporters
  <2>3. /\ IsFiniteSet(B) /\ IsFiniteSet(C) /\ IsFiniteSet(B \cup C) /\ IsFiniteSet(B \cap C)
        /\ IsFiniteSet(V \cap BootNodes)
        BY <2>2, FS_Subset
  <2>4. /\ Cardinality(B \cup C) = Cardinality(B) + Cardinality(C) - Cardinality(B \cap C)
        /\ Cardinality(B \cup C) <= Cardinality(V)
    <3>1. B \cup C \subseteq V
          BY <2>2
    <3>2. Cardinality(B \cup C) <= Cardinality(V)
          BY <2>2, <3>1, FS_Subset
    <3>3. Cardinality(B \cup C) = Cardinality(B) + Cardinality(C) - Cardinality(B \cap C)
          BY <2>3, FS_Union
    <3> QED  BY <3>2, <3>3
  <2>5. /\ Cardinality(B) >= calculate_min_votes(Cardinality(V))
        /\ Cardinality(C) >= calculate_min_votes(Cardinality(V))
        BY <1>2, <2>1 DEF Certified
  <2>6. Cardinality(V \cap BootNodes) + Cardinality(V) < 2 * calculate_min_votes(Cardinality(V))
        BY <2>1, QuorumAssumption
  <2>7. /\ Cardinality(B) \in Nat /\ Cardinality(C) \in Nat /\ Cardinality(B \cap C) \in Nat
        /\ Cardinality(B \cup C) \in Nat /\ Cardinality(V) \in Nat
        /\ Cardinality(V \cap BootNodes) \in Nat
        /\ calculate_min_votes(Cardinality(V)) \in Int
        BY <2>2, <2>3, FS_CardinalityType DEF calculate_min_votes
  <2>8. ~ (B \cap C \subseteq V \cap BootNodes)
    <3>1. Cardinality(B \cap C) > Cardinality(V \cap BootNodes)
          BY <2>4, <2>5, <2>6, <2>7
    <3> QED  BY <3>1, <2>3, <2>7, FS_Subset
  <2>9. PICK p \in B \cap C : p \notin BootNodes
        BY <2>2, <2>8
  <2>10. /\ [validator |-> p, block |-> b] \in cast
         /\ [validator |-> p, block |-> c] \in cast
         BY <2>9 DEF Supporters
  <2>11. [validator |-> p, block |-> b] = [validator |-> p, block |-> c]
         BY <2>9, <2>10 DEF OneVotePerHeight
  <2> QED  BY <2>11
<1> QED  BY <1>1, <1>2

(* The invariant implies agreement.                                        *)
LEMMA InvariantImpliesAgreement ==
    ASSUME IInv
    PROVE  Agreement
<1> SUFFICES ASSUME NEW m \in Nodes, NEW n \in Nodes, NEW h \in Numbers,
                    stored[m][h] # None, stored[n][h] # None
             PROVE  stored[m][h] = stored[n][h]
    BY DEF Agreement
<1>1. /\ stored[m][h] \in Blocks /\ Certified(stored[m][h], cast) /\ stored[m][h].number = h
      /\ stored[n][h] \in Blocks /\ Certified(stored[n][h], cast) /\ stored[n][h].number = h
      BY DEF IInv, TypeOK, StoredIsCertified
<1> QED  BY <1>1, CertifiedUnique DEF IInv

-----------------------------------------------------------------------------
(* The invariant is inductive.                                             *)

(* It holds of empty tables and empty lists.                               *)
LEMMA InitInvariant ==
    ASSUME Init
    PROVE  IInv
<1>1. EmptyEntry \in PendingBlock /\ Elements(EmptyEntry.votes) = {} /\ Elements(EmptyEntry.vote_results) = {}
      BY DEF EmptyEntry, PendingBlock, Elements
<1>2. TypeOK
  <2>1. Idle \in Job
        BY DEF Idle, Job, Steps
  <2>2. Genesis \in Blocks /\ InitialProposer \in Nodes /\ 0 \in Numbers
        BY ConstantAssumption, BlockAssumption DEF Numbers
  <2>3. /\ pending \in [Nodes -> [Numbers -> PendingBlock]]
        /\ job \in [Nodes -> Job]
        BY <1>1, <2>1 DEF Init
  <2>4. /\ stored \in [Nodes -> [Numbers -> Blocks \cup {None}]]
        /\ head \in [Nodes -> Numbers]
        /\ executed \in [Nodes -> SUBSET Numbers]
        /\ vote_results \in [Nodes -> SUBSET VoteResult]
        /\ block_proposer \in [Nodes -> [Epochs -> Nodes \cup {None}]]
        BY <2>2 DEF Init
  <2> QED  BY <2>3, <2>4 DEF Init, TypeOK
<1>3. VotesAreCast /\ ResultsAreCounted
      BY <1>1 DEF Init, VotesAreCast, ResultsAreCounted
<1>4. PendingBlocksFit
      BY DEF Init, PendingBlocksFit, EmptyEntry
<1>5. StoredIsCertified
      BY BlockAssumption DEF Init, StoredIsCertified, Certified, Idle
<1>6. WritesInOrder
      BY ConstantAssumption, BlockAssumption DEF Init, WritesInOrder, Idle, Numbers
<1>7. VotesAreKept /\ OneVotePerHeight
      BY DEF Init, VotesAreKept, OneVotePerHeight
<1> QED  BY <1>2, <1>3, <1>4, <1>5, <1>6, <1>7 DEF IInv

(* A step that replaces one pending entry, and may cast a vote, count a    *)
(* vote result, start a job or select a proposer.  What each part of the   *)
(* state has to satisfy for the invariant to be kept:                      *)
TablesKept == UNCHANGED <<stored, head, executed, vote_results, responses>>

NetworkKept ==
    /\ blocks' \subseteq Blocks /\ queries' \subseteq [from : Nodes, number : Nat]
    /\ cast \subseteq cast' /\ cast' \subseteq Vote /\ votes' \subseteq cast'
    /\ results \subseteq results' /\ results' \subseteq VoteResult
    /\ \A r \in results' \ results : r.votes \subseteq cast /\ HasQuorum(r)

ProposersKept ==
    /\ block_proposer' \in [Nodes -> [Epochs -> Nodes \cup {None}]]
    /\ \A m \in Nodes : \A e \in Epochs :
          block_proposer[m][e] # None => block_proposer'[m][e] = block_proposer[m][e]

JobsKept ==
    /\ job' \in [Nodes -> Job]
    /\ \A m \in Nodes : \/ job'[m] = job[m]
                         \/ job'[m].step \in {"idle", "scan"}
                         \/ /\ job'[m].step = "store" /\ job'[m].block \in Blocks
                            /\ job'[m].result \in results /\ Certified(job'[m].block, cast)

BlockFits(n, h, b) ==
    b # None => /\ b \in Blocks /\ b.number = h
                /\ n \in BootNodes \/ block_proposer[n][EpochOf(b)] = b.by

EntryFits(n, h, entry) ==
    /\ BlockFits(n, h, entry.block)
    /\ Elements(entry.votes) \subseteq cast' /\ Elements(entry.vote_results) \subseteq results'
    /\ \/ n \in BootNodes \/ h \in executed[n]
       \/ Elements(pending[n][h].votes) \subseteq Elements(entry.votes)
    /\ \A v \in cast' \ cast :
          /\ v.validator = n /\ v.block.number = h /\ v \in Elements(entry.votes)
          /\ \A w \in cast' : w.validator = n /\ w.block.number = h => w = v \/ n \in BootNodes

(* Such a step keeps the invariant.                                        *)
LEMMA EntryStep ==
    ASSUME IInv, NEW n \in Nodes, NEW h \in Numbers, NEW entry \in PendingBlock,
           SetEntry(n, h, entry), EntryFits(n, h, entry),
           TablesKept, NetworkKept, ProposersKept, JobsKept
    PROVE  IInv'
<1>1. /\ pending' \in [Nodes -> [Numbers -> PendingBlock]]
      /\ \A m \in Nodes : \A k \in Numbers :
            pending'[m][k] = IF m = n /\ k = h THEN entry ELSE pending[m][k]
      BY DEF SetEntry, IInv, TypeOK
<1>2. TypeOK'
  <2>1. /\ stored' \in [Nodes -> [Numbers -> Blocks \cup {None}]]
        /\ head' \in [Nodes -> Numbers] /\ executed' \in [Nodes -> SUBSET Numbers]
        /\ vote_results' \in [Nodes -> SUBSET VoteResult]
        /\ responses' \subseteq [to : Nodes, block : Blocks, result : VoteResult]
        BY DEF IInv, TypeOK, TablesKept
  <2>2. job' \in [Nodes -> Job] /\ block_proposer' \in [Nodes -> [Epochs -> Nodes \cup {None}]]
        BY DEF JobsKept, ProposersKept
  <2>3. /\ blocks' \subseteq Blocks /\ votes' \subseteq Vote /\ cast' \subseteq Vote
        /\ results' \subseteq VoteResult /\ queries' \subseteq [from : Nodes, number : Nat]
        BY DEF NetworkKept
  <2> QED  BY <1>1, <2>1, <2>2, <2>3 DEF TypeOK
<1>3. VotesAreCast'
  <2>1. /\ votes' \subseteq cast' /\ cast \subseteq cast' /\ Elements(entry.votes) \subseteq cast'
        BY DEF NetworkKept, EntryFits
  <2>2. \A m \in Nodes : \A k \in Numbers : Elements(pending[m][k].votes) \subseteq cast
        BY DEF IInv, VotesAreCast
  <2> QED  BY <1>1, <2>1, <2>2 DEF VotesAreCast
<1>4. ResultsAreCounted'
  <2>1. \A r \in results' : r.votes \subseteq cast' /\ HasQuorum(r)
        BY DEF IInv, ResultsAreCounted, NetworkKept
  <2>2. results \subseteq results' /\ Elements(entry.vote_results) \subseteq results'
        BY DEF NetworkKept, EntryFits
  <2>3. /\ \A m \in Nodes : vote_results'[m] \subseteq results'
        /\ \A m \in Nodes : \A k \in Numbers : Elements(pending[m][k].vote_results) \subseteq results'
        BY <2>2 DEF IInv, ResultsAreCounted, TablesKept
  <2>4. \A m \in Nodes : \A k \in Numbers : Elements(pending'[m][k].vote_results) \subseteq results'
        BY <1>1, <2>2, <2>3
  <2> QED  BY <2>1, <2>3, <2>4 DEF ResultsAreCounted, HasQuorum, VotesOfValidators
<1>5. PendingBlocksFit'
  <2> SUFFICES ASSUME NEW m \in Nodes, NEW k \in Numbers, pending'[m][k].block # None
               PROVE  /\ pending'[m][k].block.number = k
                      /\ m \in BootNodes
                         \/ block_proposer'[m][EpochOf(pending'[m][k].block)] = pending'[m][k].block.by
      BY DEF PendingBlocksFit, EpochOf
  <2> DEFINE b == pending'[m][k].block
  <2>1. b \in Blocks
        BY <1>1 DEF PendingBlock
  <2>2. b.number = k /\ (m \in BootNodes \/ block_proposer[m][EpochOf(b)] = b.by)
        BY <1>1 DEF IInv, PendingBlocksFit, EntryFits, BlockFits
  <2>3. b.by # None /\ EpochOf(b) \in Epochs
        BY <2>1, EpochsOfBlocks, BlockAssumption, ConstantAssumption
  <2> QED  BY <2>2, <2>3 DEF ProposersKept
<1>6. \A b \in Blocks : Certified(b, cast) => Certified(b, cast')
      BY CertifiedGrows DEF NetworkKept
<1>7. StoredIsCertified'
  <2>1. \A m \in Nodes : \A k \in Numbers :
            stored'[m][k] # None => stored'[m][k].number = k /\ Certified(stored'[m][k], cast')
        BY <1>6 DEF IInv, TypeOK, StoredIsCertified, TablesKept
  <2>2. \A m \in responses' : m.result \in results' /\ Certified(m.block, cast')
        BY <1>6 DEF IInv, TypeOK, StoredIsCertified, TablesKept, NetworkKept
  <2>3. \A m \in Nodes : job'[m].step \in {"store", "head", "execute"} =>
            job'[m].block \in Blocks /\ job'[m].result \in results' /\ Certified(job'[m].block, cast')
        BY <1>6 DEF IInv, StoredIsCertified, JobsKept, NetworkKept
  <2> QED  BY <2>1, <2>2, <2>3 DEF StoredIsCertified
<1>8. WritesInOrder'
      BY DEF IInv, WritesInOrder, TablesKept, JobsKept
<1>9. VotesAreKept'
  <2> SUFFICES ASSUME NEW v \in cast', v.validator \notin BootNodes,
                      v.block.number \notin executed[v.validator]
               PROVE  v \in Elements(pending'[v.validator][v.block.number].votes)
      BY DEF VotesAreKept, TablesKept
  <2>1. v.validator \in Nodes /\ v.block.number \in Numbers
        BY BlockAssumption DEF Vote, NetworkKept
  <2>2. CASE v \notin cast
        BY <1>1, <2>1, <2>2 DEF EntryFits
  <2>3. CASE v \in cast
    <3>1. v \in Elements(pending[v.validator][v.block.number].votes)
          BY <2>3 DEF IInv, VotesAreKept
    <3> QED  BY <1>1, <2>1, <3>1 DEF EntryFits
  <2> QED  BY <2>2, <2>3
<1>10. OneVotePerHeight'
       BY DEF IInv, OneVotePerHeight, EntryFits
<1> QED  BY <1>2, <1>3, <1>4, <1>5, <1>7, <1>8, <1>9, <1>10 DEF IInv

(* What the invariant says of one pending entry.                           *)
LEMMA EntryFacts ==
    ASSUME IInv, NEW n \in Nodes, NEW h \in Numbers
    PROVE  LET entry == pending[n][h]
           IN  /\ entry \in PendingBlock /\ BlockFits(n, h, entry.block)
               /\ entry.votes \in Seq(Vote) /\ entry.vote_results \in Seq(VoteResult)
               /\ Elements(entry.votes) \subseteq cast
               /\ Elements(entry.vote_results) \subseteq results
<1>1. pending[n][h] \in PendingBlock
      BY DEF IInv, TypeOK
<1>2. /\ pending[n][h].votes \in Seq(Vote) /\ pending[n][h].vote_results \in Seq(VoteResult)
      /\ pending[n][h].block \in Blocks \cup {None}
      BY <1>1 DEF PendingBlock
<1>3. BlockFits(n, h, pending[n][h].block)
      BY <1>2 DEF IInv, PendingBlocksFit, BlockFits
<1>4. Elements(pending[n][h].votes) \subseteq cast /\ Elements(pending[n][h].vote_results) \subseteq results
      BY DEF IInv, VotesAreCast, ResultsAreCounted
<1> QED  BY <1>1, <1>2, <1>3, <1>4

(* Parts of the state that a step leaves alone.                            *)
LEMMA SameEntry ==
    ASSUME IInv, NEW n \in Nodes, NEW h \in Numbers, UNCHANGED <<pending, cast, results>>
    PROVE  /\ pending[n][h] \in PendingBlock
           /\ SetEntry(n, h, pending[n][h]) /\ EntryFits(n, h, pending[n][h])
<1>1. pending' = [pending EXCEPT ![n][h] = pending[n][h]]
      BY DEF IInv, TypeOK
<1> QED  BY Zenon, <1>1, EntryFacts DEF SetEntry, EntryFits

LEMMA SameNetwork ==
    ASSUME IInv, UNCHANGED <<cast, results>>, blocks' \subseteq Blocks, votes' \subseteq cast,
           queries' \subseteq [from : Nodes, number : Nat]
    PROVE  NetworkKept
BY NetworkFacts DEF NetworkKept

LEMMA SameProposers ==
    ASSUME IInv, UNCHANGED block_proposer
    PROVE  ProposersKept
BY DEF IInv, TypeOK, ProposersKept

LEMMA SameJobs ==
    ASSUME IInv, UNCHANGED job
    PROVE  JobsKept
BY DEF IInv, TypeOK, JobsKept

(* A task that stops or goes on scanning, or starts to store a block.      *)
LEMMA NextJob ==
    ASSUME IInv, NEW n \in Nodes, NEW j \in {Idle, Scanning}, job' = [job EXCEPT ![n] = j]
    PROVE  JobsKept
<1>1. Idle \in Job /\ Idle.step = "idle" /\ Scanning \in Job /\ Scanning.step = "scan"
      BY Zenon DEF Idle, Scanning, Job, Steps
<1>2. job \in [Nodes -> Job]
      BY DEF IInv, TypeOK
<1> QED  BY <1>1, <1>2 DEF JobsKept

LEMMA StartJob ==
    ASSUME IInv, NEW n \in Nodes, NEW b \in Blocks, NEW r \in results, NEW q \in BOOLEAN,
           Certified(b, cast),
           job' = [job EXCEPT ![n] = [step |-> "store", block |-> b, result |-> r, queried |-> q]]
    PROVE  JobsKept
<1> DEFINE j == [step |-> "store", block |-> b, result |-> r, queried |-> q]
<1>1. j \in Job /\ j.step = "store" /\ j.block = b /\ j.result = r
      BY NetworkFacts DEF Job, Steps
<1>2. job \in [Nodes -> Job] /\ job' = [job EXCEPT ![n] = j]
      BY DEF IInv, TypeOK
<1> HIDE DEF j
<1> QED  BY <1>1, <1>2 DEF JobsKept

(* An entry without block, votes and results.                              *)
LEMMA EmptyEntryFits ==
    ASSUME NEW n, NEW h, UNCHANGED cast, n \in BootNodes \/ h \in executed[n]
    PROVE  EmptyEntry \in PendingBlock /\ EntryFits(n, h, EmptyEntry)
<1>1. /\ EmptyEntry \in PendingBlock /\ EmptyEntry.block = None
      /\ Elements(EmptyEntry.votes) = {} /\ Elements(EmptyEntry.vote_results) = {}
      BY DEF EmptyEntry, PendingBlock, Elements
<1> QED  BY <1>1 DEF EntryFits, BlockFits


-----------------------------------------------------------------------------
(* One lemma per action.                                                   *)

(* A proposer that sends a new block has not voted at this height.         *)
LEMMA ProposeStep ==
    ASSUME IInv, NEW n \in Nodes, NEW b \in Blocks, add_and_broadcast_block(n, b)
    PROVE  IInv'
<1> DEFINE h == b.number
           entry == pending[n][h]
<1>1. h \in Numbers
      BY BlockAssumption
<1>2. /\ UNCHANGED <<stored, head, executed, vote_results, responses>>
      /\ UNCHANGED <<job, block_proposer, results, queries>>
      BY DEF add_and_broadcast_block, db
<1>3. TablesKept /\ JobsKept /\ ProposersKept
      BY <1>2, SameJobs, SameProposers DEF TablesKept
<1>4. /\ block_proposer[n][EpochOf(b)] = n /\ b.by = n /\ stored[n][h] = None
      BY DEF add_and_broadcast_block, is_block_proposer
<1>5. CASE ProposePending(n, b) /\ entry.block.by = n
  <2>1. /\ UNCHANGED <<pending, cast>> /\ entry.block # None
        /\ blocks' = blocks \cup {entry.block}
        /\ votes' = votes \cup {v \in Elements(entry.votes) : v.validator = n}
        BY <1>5 DEF ProposePending
  <2>2. entry.block \in Blocks /\ Elements(entry.votes) \subseteq cast
        BY <1>1, <2>1, EntryFacts DEF BlockFits
  <2>3. NetworkKept
        BY <1>2, <2>1, <2>2, SameNetwork, NetworkFacts
  <2> QED  BY <1>1, <1>2, <1>3, <2>1, <2>3, SameEntry, EntryStep
<1>6. CASE ProposePending(n, b) /\ entry.block.by # n
  <2>1. UNCHANGED <<blocks, votes, cast>> /\ SetEntry(n, h, EmptyEntry) /\ entry.block # None
        BY <1>6 DEF ProposePending
  <2>2. entry.block.number = b.number /\ (n \in BootNodes \/ block_proposer[n][EpochOf(entry.block)] = entry.block.by)
        BY <1>1, <2>1, EntryFacts DEF BlockFits
  <2>3. n \in BootNodes
        BY <1>4, <1>6, <2>2 DEF EpochOf
  <2>4. NetworkKept
        BY <1>2, <2>1, SameNetwork, NetworkFacts
  <2> QED  BY <1>1, <1>3, <2>1, <2>3, <2>4, EmptyEntryFits, EntryStep
<1>7. CASE ~ HasEntry(n, h) /\ ProposeNew(n, b)
  <2> DEFINE vote == [validator |-> n, block |-> b]
             new == [block |-> b, votes |-> <<vote>>, vote_results |-> <<>>]
  <2>1. /\ blocks' = blocks \cup {b} /\ cast' = cast \cup {vote} /\ UNCHANGED votes
        /\ SetEntry(n, h, new)
        BY <1>7 DEF ProposeNew
  <2>2. vote \in Vote /\ vote.validator = n /\ vote.block = b
        BY DEF Vote
  <2>3. /\ new \in PendingBlock /\ new.block = b
        /\ Elements(new.votes) = {vote} /\ Elements(new.vote_results) = {}
    <3>1. <<vote>> \in Seq(Vote) /\ <<>> \in Seq(VoteResult)
          BY <2>2
    <3>2. Elements(<<vote>>) = {vote} /\ Elements(<<>>) = {}
          BY DEF Elements
    <3> QED  BY <3>1, <3>2 DEF PendingBlock
  <2> HIDE DEF vote, new
  <2>4. h \notin executed[n]
        BY <1>4 DEF IInv, WritesInOrder
  <2>5. Elements(entry.votes) = {}
        BY <1>7 DEF HasEntry, EmptyEntry, Elements
  <2>6. \A w \in cast : w.validator = n /\ w.block.number = h => n \in BootNodes
        BY <2>4, <2>5 DEF IInv, VotesAreKept
  <2>7. NetworkKept
        BY <1>2, <2>1, <2>2, NetworkFacts DEF NetworkKept
  <2>8. BlockFits(n, h, new.block)
        BY <1>4, <2>3 DEF BlockFits
  <2>9. EntryFits(n, h, new)
        BY <2>1, <2>2, <2>3, <2>5, <2>6, <2>8 DEF EntryFits
  <2> QED  BY <1>1, <1>3, <2>1, <2>3, <2>7, <2>9, EntryStep
<1> QED  BY <1>5, <1>6, <1>7 DEF add_and_broadcast_block

(* A received block replaces the pending one and keeps the votes.          *)
LEMMA ReceiveBlockStep ==
    ASSUME IInv, NEW n \in Nodes, NEW b \in blocks, receive_validate_block(n, b)
    PROVE  IInv'
<1> DEFINE h == b.number
           entry == pending[n][h]
           new == [entry EXCEPT !.block = b]
<1>1. b \in Blocks /\ h \in Numbers
      BY NetworkFacts, BlockAssumption
<1>2. /\ UNCHANGED <<stored, head, executed, vote_results, block_proposer>>
      /\ UNCHANGED <<responses, results, queries, votes, cast>>
      /\ blocks' = blocks \cup {b} /\ SetEntry(n, h, new) /\ job' = [job EXCEPT ![n] = Scanning]
      BY DEF receive_validate_block, db
<1>3. entry \in PendingBlock
      BY <1>1, EntryFacts
<1>4. /\ new \in PendingBlock /\ new.block = b
      /\ new.votes = entry.votes /\ new.vote_results = entry.vote_results
      BY ZenonT(30), <1>1, <1>3 DEF PendingBlock
<1>5. BlockFits(n, h, b)
      BY <1>1 DEF receive_validate_block, is_block_proposer, BlockFits
<1> HIDE DEF new
<1>6. EntryFits(n, h, new)
      BY <1>1, <1>2, <1>4, <1>5, EntryFacts DEF EntryFits
<1>7. TablesKept /\ JobsKept /\ ProposersKept
      BY Zenon, <1>2, NextJob, SameProposers DEF TablesKept
<1>8. NetworkKept
      BY <1>1, <1>2, SameNetwork, NetworkFacts
<1> QED  BY <1>1, <1>2, <1>4, <1>6, <1>7, <1>8, EntryStep

(* Replacing one field of an entry.                                        *)
LEMMA EntryWithVotes ==
    ASSUME NEW e \in PendingBlock, NEW vs \in Seq(Vote)
    PROVE  /\ [e EXCEPT !.votes = vs] \in PendingBlock
           /\ [e EXCEPT !.votes = vs].votes = vs
           /\ [e EXCEPT !.votes = vs].block = e.block
           /\ [e EXCEPT !.votes = vs].vote_results = e.vote_results
BY ZenonT(30) DEF PendingBlock

LEMMA EntryWithResults ==
    ASSUME NEW e \in PendingBlock, NEW rs \in Seq(VoteResult)
    PROVE  /\ [e EXCEPT !.vote_results = rs] \in PendingBlock
           /\ [e EXCEPT !.vote_results = rs].vote_results = rs
           /\ [e EXCEPT !.vote_results = rs].block = e.block
           /\ [e EXCEPT !.vote_results = rs].votes = e.votes
BY ZenonT(30) DEF PendingBlock

(* A vote that is counted was cast; a result that is sent has its quorum.  *)
LEMMA CountedResult ==
    ASSUME IInv, NEW s \in Seq(Vote), s # <<>>, Elements(s) \subseteq cast, can_generate_vote_result(s)
    PROVE  LET r == generate_vote_result(s)
           IN  r \in VoteResult /\ r.votes \subseteq cast /\ HasQuorum(r)
<1> DEFINE r == generate_vote_result(s)
<1>1. s[1] \in Vote
      OBVIOUS
<1>2. r.votes = get_unique_votes(s) /\ r.block = s[1].block
      BY DEF generate_vote_result
<1>3. r.block \in Blocks /\ r.votes \subseteq cast
      BY <1>1, <1>2, UniqueVotesListed DEF Vote
<1>4. r \in VoteResult
      BY <1>3, NetworkFacts DEF VoteResult, generate_vote_result
<1>5. HasQuorum(r)
      BY DEF can_generate_vote_result, generate_vote_result, is_passed, HasQuorum
<1> QED  BY <1>3, <1>4, <1>5

LEMMA ReceiveVoteStep ==
    ASSUME IInv, NEW n \in Nodes, NEW v \in votes, receive_vote(n, v)
    PROVE  IInv'
<1> DEFINE h == v.block.number
           old == pending[n][h]
           vs == Push(old.votes, v)
           entry == [old EXCEPT !.votes = vs]
           r == generate_vote_result(vs)
           rs == Push(old.vote_results, r)
           new == [entry EXCEPT !.vote_results = rs]
<1>1. v \in Vote /\ v \in cast /\ v.block \in Blocks /\ h \in Numbers
      BY NetworkFacts, BlockAssumption DEF Vote
<1>2. /\ old \in PendingBlock /\ BlockFits(n, h, old.block) /\ old.votes \in Seq(Vote)
      /\ Elements(old.votes) \subseteq cast
      /\ old.vote_results \in Seq(VoteResult) /\ Elements(old.vote_results) \subseteq results
      BY <1>1, EntryFacts
<1>3. vs \in Seq(Vote) /\ Elements(vs) = Elements(old.votes) \cup {v}
  <2> DEFINE before == old.votes
  <2>1. before \in Seq(Vote) /\ v \in Vote
        BY <1>1, <1>2
  <2> HIDE DEF before
  <2>2. Push(before, v) \in Seq(Vote) /\ Elements(Push(before, v)) = Elements(before) \cup {v}
        BY <2>1, PushElements
  <2> QED  BY <2>2 DEF before
<1>4. /\ UNCHANGED <<stored, head, executed, vote_results, block_proposer>>
      /\ UNCHANGED <<responses, queries, blocks, votes, cast>>
      /\ \/ SetEntry(n, h, entry) /\ UNCHANGED <<results, job>>
         \/ /\ can_generate_vote_result(vs) /\ results' = results \cup {r}
            /\ SetEntry(n, h, new) /\ job' = [job EXCEPT ![n] = Scanning]
  <2>1. [old EXCEPT !.votes = Push(@, v)] = entry /\ entry.votes = vs
        /\ entry.vote_results = old.vote_results
    <3> HIDE DEF old
    <3> QED  BY Zenon, <1>2, <1>3, EntryWithVotes
  <2> HIDE DEF entry, vs
  <2> QED  BY Zenon, <2>1 DEF receive_vote, db
<1> HIDE DEF h, old, vs
<1>5. /\ entry \in PendingBlock /\ entry.block = old.block
      /\ entry.votes = vs /\ entry.vote_results = old.vote_results
      BY <1>2, <1>3, EntryWithVotes
<1>6. TablesKept /\ ProposersKept
      BY <1>4, SameProposers DEF TablesKept
<1> HIDE DEF entry
<1>7. CASE SetEntry(n, h, entry) /\ UNCHANGED <<results, job>>
  <2>1. EntryFits(n, h, entry)
        BY <1>1, <1>2, <1>3, <1>4, <1>5, <1>7 DEF EntryFits, old
  <2>2. NetworkKept /\ JobsKept
        BY <1>4, <1>7, SameNetwork, SameJobs, NetworkFacts
  <2> QED  BY <1>1, <1>5, <1>6, <1>7, <2>1, <2>2, EntryStep
<1>8. CASE /\ can_generate_vote_result(vs) /\ results' = results \cup {r}
           /\ SetEntry(n, h, new) /\ job' = [job EXCEPT ![n] = Scanning]
  <2>1. vs # <<>> /\ Elements(vs) \subseteq cast
    <3>1. Elements(<<>>) = {}
          BY DEF Elements
    <3>2. v \in Elements(vs) /\ Elements(vs) \subseteq cast
          BY <1>1, <1>2, <1>3
    <3> QED  BY <3>1, <3>2
  <2>2. r \in VoteResult /\ r.votes \subseteq cast /\ HasQuorum(r)
        BY <1>3, <1>8, <2>1, CountedResult
  <2> HIDE DEF r
  <2>3. rs \in Seq(VoteResult) /\ Elements(rs) = Elements(old.vote_results) \cup {r}
        BY <1>2, <2>2, PushElements
  <2> HIDE DEF rs
  <2>4. /\ new \in PendingBlock /\ new.block = old.block
        /\ new.votes = vs /\ new.vote_results = rs
        BY <1>3, <1>5, <2>3, EntryWithResults
  <2> HIDE DEF new
  <2>5. EntryFits(n, h, new)
        BY <1>2, <1>3, <1>4, <1>8, <2>1, <2>3, <2>4 DEF EntryFits, old
  <2>6. NetworkKept
        BY <1>4, <1>8, <2>2, NetworkFacts DEF NetworkKept
  <2>7. JobsKept
        BY Zenon, <1>8, NextJob
  <2> QED  BY <1>1, <1>6, <1>8, <2>4, <2>5, <2>6, <2>7, EntryStep
<1> QED  BY <1>4, <1>7, <1>8

(* A received vote result joins the entry of its block number.             *)
LEMMA ReceiveResultStep ==
    ASSUME IInv, NEW n \in Nodes, NEW r \in results, receive_vote_result(n, r)
    PROVE  IInv'
<1> DEFINE h == r.block.number
           old == pending[n][h]
           rs == Push(old.vote_results, r)
           new == [old EXCEPT !.vote_results = rs]
<1>1. r \in VoteResult /\ r.block \in Blocks /\ h \in Numbers
      BY NetworkFacts, BlockAssumption DEF VoteResult
<1>2. /\ UNCHANGED <<stored, head, executed, vote_results, block_proposer>>
      /\ UNCHANGED <<responses, results, queries, blocks, votes, cast>>
      /\ SetEntry(n, h, new) /\ job' = [job EXCEPT ![n] = Scanning]
      BY DEF receive_vote_result, db, network
<1>3. /\ old \in PendingBlock /\ BlockFits(n, h, old.block) /\ Elements(old.votes) \subseteq cast
      /\ old.votes \in Seq(Vote)
      /\ old.vote_results \in Seq(VoteResult) /\ Elements(old.vote_results) \subseteq results
      BY <1>1, EntryFacts
<1>4. TablesKept /\ JobsKept /\ ProposersKept
      BY Zenon, <1>2, NextJob, SameProposers DEF TablesKept
<1> HIDE DEF h, old
<1>5. rs \in Seq(VoteResult) /\ Elements(rs) \subseteq results
      BY <1>1, <1>3, PushElements
<1> HIDE DEF rs
<1>6. /\ new \in PendingBlock /\ new.votes = old.votes /\ new.block = old.block
      /\ new.vote_results = rs
      BY <1>3, <1>5, EntryWithResults
<1> HIDE DEF new
<1>7. EntryFits(n, h, new)
      BY <1>2, <1>3, <1>5, <1>6 DEF EntryFits, old
<1>8. NetworkKept
      BY <1>2, SameNetwork, NetworkFacts
<1> QED  BY <1>1, <1>2, <1>4, <1>6, <1>7, <1>8, EntryStep

=============================================================================
