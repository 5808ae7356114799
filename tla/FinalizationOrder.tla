------------------------- MODULE FinalizationOrder -------------------------
(***************************************************************************)
(* Lemmas about Finalization when no node restarts: every node executes    *)
(* the blocks one after the other, along parent hashes, and all nodes      *)
(* select the same proposers.  The proposer of an epoch decides which      *)
(* block of a number there is to vote for, and the block that is agreed on *)
(* decides who the proposer of a later epoch is, so the two are shown      *)
(* together: OrderInv is preserved by every step from a state with IInv,   *)
(* in which the nodes agree.                                               *)
(***************************************************************************)
EXTENDS Finalization, TLAPS

(* The block was proposed: its signer has voted for it.                    *)
Proposed(b, vs) == [validator |-> b.by, block |-> b] \in vs

(* Only proposed blocks are sent and voted for, and a vote is given for a  *)
(* block of the proposer that the validator knows.                         *)
ProposalsSigned ==
    /\ \A v \in cast : /\ block_proposer[v.validator][EpochOf(v.block)] = v.block.by
                       /\ Proposed(v.block, cast)
    /\ \A b \in blocks : Proposed(b, cast)

(* A pending block was proposed, and votes lie in the entry of their       *)
(* height.                                                                 *)
EntryOrdered(h, entry, vs) ==
    /\ entry.block # None => Proposed(entry.block, vs)
    /\ \A v \in Elements(entry.votes) : v.block.number = h

PendingOrdered == \A n \in Nodes : \A h \in Numbers : EntryOrdered(h, pending[n][h], cast)

(* Block k is the last of its epoch and the one before it is stored: its   *)
(* header seeds the proposer p of epoch e.                                 *)
Seeds(n, k, e, p) ==
    /\ calculate_current_epoch(k) < e /\ calculate_current_epoch(k + 1) = e
    /\ k > 0 /\ stored[n][k - 1] # None /\ p = Elect[e][stored[n][k - 1]]

ProposersElected ==
    \A n \in Nodes : \A e \in Epochs :
        \/ block_proposer[n][e] = None
        \/ e = 0 /\ block_proposer[n][e] = InitialProposer
        \/ \E k \in Numbers : Seeds(n, k, e, block_proposer[n][e])

AnswersMatch == \A m \in responses : m.result.block = m.block

(* A node with the executed numbers ex, the headers st, the head h and the *)
(* job j has executed all blocks up to its head, but the head itself while *)
(* that is executed, and works on the next block, which it stores before   *)
(* it moves the head.                                                      *)
InOrder(ex, st, h, j) ==
    /\ ex = IF j.step = "execute" THEN 0..(h - 1) ELSE 0..h
    /\ \A k \in Numbers : st[k] # None <=> k <= h \/ (j.step = "head" /\ k = h + 1)
    /\ \A k \in 1..h : st[k].parent = st[k - 1]
    /\ j.step \in {"store", "head", "execute"} => j.result.block = j.block
    /\ j.step \in {"store", "head"} => j.block.number = h + 1 /\ j.block.parent = st[h]
    /\ j.step = "head" => st[h + 1] = j.block
    /\ j.step = "execute" => j.block.number = h

WorkInOrder == \A n \in Nodes : InOrder(executed[n], stored[n], head[n], job[n])

OrderInv ==
    /\ ProposalsSigned /\ PendingOrdered /\ VotesForSameBlock /\ ProposersElected
    /\ AnswersMatch /\ WorkInOrder

-----------------------------------------------------------------------------
(* Facts about the helpers.                                                *)

(* The epoch of a block number is one that validators are known for.       *)
LEMMA EpochsOfBlocks ==
    ASSUME NEW b \in Blocks
    PROVE  /\ EpochOf(b) \in Epochs
           /\ calculate_current_epoch(b.number + 1) \in Epochs
           /\ ValidatorsOf(b) \in SUBSET Nodes
           /\ IsFiniteSet(ValidatorsOf(b))
<1>1. b.number \in Nat /\ b.number \in 0..(MaxNumber + 1) /\ b.number + 1 \in 0..(MaxNumber + 1)
      BY BlockAssumption, ConstantAssumption DEF Numbers
<1>2. EpochOf(b) \in Epochs /\ calculate_current_epoch(b.number + 1) \in Epochs
      BY <1>1 DEF EpochOf, Epochs
<1> QED  BY Zenon, <1>2, ConstantAssumption, QuorumAssumption DEF ValidatorsOf

(* Adding a vote or a vote result to a list keeps what is on it.           *)
LEMMA PushElements ==
    ASSUME NEW S, NEW s \in Seq(S), NEW x \in S
    PROVE  /\ Push(s, x) \in Seq(S)
           /\ Elements(Push(s, x)) = Elements(s) \cup {x}
           /\ Append(s, x) \in Seq(S)
           /\ Elements(Append(s, x)) = Elements(s) \cup {x}
<1> DEFINE t == Append(s, x)
<1>1. /\ t \in Seq(S) /\ DOMAIN s = 1..Len(s) /\ DOMAIN t = 1..(Len(s) + 1)
      /\ \A i \in 1..Len(s) : t[i] = s[i]
      /\ t[Len(s) + 1] = x /\ Len(s) \in Nat
      OBVIOUS
<1>2. Elements(t) \subseteq Elements(s) \cup {x}
      BY <1>1 DEF Elements
<1>3. Elements(s) \subseteq Elements(t)
      BY <1>1 DEF Elements
<1>4. x \in Elements(t)
      BY <1>1 DEF Elements
<1>5. Elements(t) = Elements(s) \cup {x}
      BY <1>2, <1>3, <1>4
<1> QED  BY <1>1, <1>5 DEF Push

(* Every vote that is counted is on the list.                              *)
LEMMA UniqueVotesListed ==
    ASSUME NEW s
    PROVE  get_unique_votes(s) \subseteq Elements(s)
BY DEF get_unique_votes, Elements

LEMMA NetworkFacts ==
    ASSUME IInv
    PROVE  /\ blocks \subseteq Blocks /\ queries \subseteq [from : Nodes, number : Nat]
           /\ cast \subseteq Vote /\ votes \subseteq cast /\ results \subseteq VoteResult
BY DEF IInv, TypeOK, VotesAreCast

(* The epoch of a block number grows with it.                              *)
LEMMA EpochsGrow ==
    ASSUME NEW i \in Nat, NEW j \in Nat, i <= j
    PROVE  /\ calculate_current_epoch(i) \in Nat /\ calculate_current_epoch(j) \in Nat
           /\ calculate_current_epoch(i) <= calculate_current_epoch(j)
<1> DEFINE s == SlotsPerEpoch  p == i \div s  q == j \div s
<1>1. s \in Nat /\ s > 0
      BY ConstantAssumption
<1> HIDE DEF s
<1>2. /\ p \in Nat /\ s * p <= i /\ i < s * (p + 1)
      /\ q \in Nat /\ s * q <= j /\ j < s * (q + 1)
      BY <1>1
<1> HIDE DEF p, q
<1>3. s * p < s * (q + 1)
      BY <1>1, <1>2
<1>4. p <= q
  <2> SUFFICES ASSUME q + 1 <= p PROVE FALSE
      BY <1>2
  <2>1. s * (q + 1) <= s * p
        BY <1>1, <1>2
  <2> QED  BY <1>1, <1>2, <1>3, <2>1
<1> QED  BY <1>2, <1>4 DEF calculate_current_epoch, p, q, s

(* The proposer of an epoch follows from the stored blocks, which are the  *)
(* same for all nodes.                                                     *)
LEMMA SameProposer ==
    ASSUME IInv, Agreement, ProposersElected
    PROVE  ProposersAgree
<1> SUFFICES ASSUME NEW m \in Nodes, NEW n \in Nodes, NEW e \in Epochs,
                    block_proposer[m][e] # None, block_proposer[n][e] # None
             PROVE  block_proposer[m][e] = block_proposer[n][e]
      BY DEF ProposersAgree
<1>1. \A k \in Numbers : k \in Nat /\ calculate_current_epoch(k) \in Nat
      BY EpochsGrow DEF Numbers
<1>2. ASSUME NEW j \in Numbers, NEW k \in Numbers,
             Seeds(m, j, e, block_proposer[m][e]), Seeds(n, k, e, block_proposer[n][e])
      PROVE  block_proposer[m][e] = block_proposer[n][e]
  <2>1. ASSUME NEW x \in Numbers, NEW y \in Numbers, x < y, calculate_current_epoch(x + 1) = e
        PROVE  ~ (calculate_current_epoch(y) < e)
    <3>1. x + 1 \in Nat /\ y \in Nat /\ x + 1 <= y
          BY <1>1, <2>1
    <3>2. /\ calculate_current_epoch(x + 1) <= calculate_current_epoch(y)
          /\ calculate_current_epoch(y) \in Nat /\ calculate_current_epoch(x + 1) \in Nat
          BY <3>1, EpochsGrow
    <3> QED  BY <2>1, <3>2
  <2>2. j = k
    <3>1. ~ (j < k) /\ ~ (k < j)
          BY <1>2, <2>1 DEF Seeds
    <3> QED  BY <1>1, <3>1
  <2>3. k - 1 \in Numbers
    <3>1. k > 0
          BY <1>2 DEF Seeds
    <3> QED  BY <3>1, ConstantAssumption DEF Numbers
  <2>4. stored[m][k - 1] = stored[n][k - 1]
        BY <1>2, <2>2, <2>3 DEF Seeds, Agreement
  <2> QED  BY <1>2, <2>2, <2>4 DEF Seeds
<1>3. ASSUME NEW k \in Numbers, NEW x \in Nodes, NEW p, Seeds(x, k, e, p), e = 0
      PROVE  FALSE
      BY <1>1, <1>3 DEF Seeds
<1> QED  BY <1>2, <1>3 DEF ProposersElected

(* At most one block of a number is proposed.                              *)
LEMMA OneProposal ==
    ASSUME IInv, Agreement, BootNodes = {}, ProposersElected, ProposalsSigned,
           NEW b \in Blocks, NEW c \in Blocks, Proposed(b, cast), Proposed(c, cast), b.number = c.number
    PROVE  b = c
<1> DEFINE e == EpochOf(b)
           vote(x) == [validator |-> x.by, block |-> x]
<1>1. b.by \in Nodes /\ c.by \in Nodes /\ e \in Epochs /\ e = EpochOf(c)
      BY BlockAssumption, EpochsOfBlocks DEF EpochOf
<1>2. block_proposer[b.by][e] = b.by /\ block_proposer[c.by][e] = c.by
  <2>1. ASSUME NEW x \in Blocks, Proposed(x, cast) PROVE block_proposer[x.by][EpochOf(x)] = x.by
    <3>1. vote(x) \in cast /\ vote(x).validator = x.by /\ vote(x).block = x
          BY <2>1 DEF Proposed
    <3> HIDE DEF vote
    <3> QED  BY <3>1 DEF ProposalsSigned
  <2> QED  BY <1>1, <2>1
<1>3. b.by = c.by
  <2>1. None \notin Nodes
        BY ConstantAssumption
  <2> QED  BY <1>1, <1>2, <2>1, SameProposer DEF ProposersAgree
<1>4. vote(b) \in cast /\ vote(c) \in cast
      BY DEF Proposed
<1>5. vote(b) = vote(c)
  <2>1. OneVotePerHeight
        BY DEF IInv
  <2> QED  BY <1>3, <1>4, <2>1 DEF OneVotePerHeight
<1> QED  BY <1>5

-----------------------------------------------------------------------------
(* What a step has to satisfy to keep OrderInv.                            *)

RowsKept ==
    \A n \in Nodes : \A e \in Epochs :
        block_proposer[n][e] # None => block_proposer'[n][e] = block_proposer[n][e]

(* The votes and the blocks that a step sends.                             *)
Signed(v) == block_proposer'[v.validator][EpochOf(v.block)] = v.block.by /\ Proposed(v.block, cast')
Sends ==
    /\ cast \subseteq cast' /\ \A v \in cast' \ cast : Signed(v)
    /\ \A b \in blocks' \ blocks : Proposed(b, cast')
    /\ \A r \in results' \ results : \A v \in r.votes : v.block = r.block

(* At most one entry is replaced.                                          *)
Replaces(n, h, entry) ==
    pending' = pending \/ (SetEntry(n, h, entry) /\ EntryOrdered(h, entry, cast'))

LEMMA NetworkStep ==
    ASSUME IInv, OrderInv, RowsKept, Sends, NEW n \in Nodes, NEW h \in Numbers, NEW entry,
           Replaces(n, h, entry), AnswersMatch', ProposersElected', WorkInOrder'
    PROVE  OrderInv'
<1>0. TypeOK /\ ProposalsSigned /\ PendingOrdered /\ VotesForSameBlock
      BY DEF IInv, OrderInv
<1>1. \A b : Proposed(b, cast) => Proposed(b, cast')
      BY DEF Sends, Proposed
<1>2. ProposalsSigned'
  <2>1. ASSUME NEW v \in cast PROVE Signed(v)
    <3>1. v.validator \in Nodes /\ v.block \in Blocks
          BY <1>0 DEF TypeOK, Vote
    <3>2. EpochOf(v.block) \in Epochs /\ v.block.by # None
          BY <3>1, EpochsOfBlocks, BlockAssumption, ConstantAssumption
    <3>3. block_proposer[v.validator][EpochOf(v.block)] = v.block.by /\ Proposed(v.block, cast)
          BY <1>0 DEF ProposalsSigned
    <3>4. block_proposer'[v.validator][EpochOf(v.block)] = v.block.by
          BY <3>1, <3>2, <3>3 DEF RowsKept
    <3> QED  BY <1>1, <3>3, <3>4 DEF Signed
  <2>2. \A v \in cast' : Signed(v)
        BY <2>1 DEF Sends
  <2>3. \A b \in blocks' : Proposed(b, cast')
        BY <1>0, <1>1 DEF Sends, ProposalsSigned
  <2>4. \A v \in cast' : /\ block_proposer'[v.validator][EpochOf(v.block)] = v.block.by
                         /\ Proposed(v.block, cast')
        BY <2>2 DEF Signed
  <2> QED  BY <2>3, <2>4 DEF ProposalsSigned
<1>3. PendingOrdered'
  <2>1. ASSUME NEW m \in Nodes, NEW k \in Numbers PROVE EntryOrdered(k, pending'[m][k], cast')
    <3>1. EntryOrdered(k, pending[m][k], cast')
      <4>1. EntryOrdered(k, pending[m][k], cast)
            BY <1>0 DEF PendingOrdered
      <4> QED  BY <1>1, <4>1 DEF EntryOrdered
    <3>2. pending \in [Nodes -> [Numbers -> PendingBlock]]
          BY <1>0 DEF TypeOK
    <3>3. \/ pending'[m][k] = pending[m][k]
          \/ k = h /\ pending'[m][k] = entry /\ EntryOrdered(h, entry, cast')
          BY <3>2 DEF Replaces, SetEntry
    <3> QED  BY <3>1, <3>3
  <2> QED  BY <2>1 DEF PendingOrdered
<1>4. VotesForSameBlock'
      BY <1>0 DEF Sends, VotesForSameBlock
<1> QED  BY <1>2, <1>3, <1>4 DEF OrderInv

(* The node does not write and goes on with the job j, or with its own.    *)
Quiet(n, j) ==
    /\ job[n].step \in {"idle", "scan"} /\ j.step \in {"idle", "scan"}
    /\ job' = job \/ job' = [job EXCEPT ![n] = j]

(* A step that leaves the tables alone, of a node that writes nothing.     *)
LEMMA MessageStep ==
    ASSUME IInv, OrderInv, UNCHANGED <<stored, head, executed, block_proposer, responses>>, Sends,
           NEW n \in Nodes, NEW h \in Numbers, NEW entry, Replaces(n, h, entry),
           NEW j, Quiet(n, j)
    PROVE  OrderInv'
<1>0. WorkInOrder /\ job \in [Nodes -> Job]
      BY DEF IInv, OrderInv, TypeOK
<1>1. RowsKept /\ AnswersMatch' /\ ProposersElected'
  <2>1. ProposersElected'
        BY DEF OrderInv, ProposersElected, Seeds
  <2> QED  BY <2>1 DEF RowsKept, OrderInv, AnswersMatch
<1>2. ASSUME NEW m \in Nodes
      PROVE  InOrder(executed[m], stored[m], head[m], job'[m])
  <2>1. InOrder(executed[m], stored[m], head[m], job[m])
        BY <1>0 DEF WorkInOrder
  <2>2. job'[m] = job[m] \/ (m = n /\ job'[m] = j)
        BY <1>0 DEF Quiet
  <2>3. CASE m = n /\ job'[m] = j
        BY <2>1, <2>3 DEF InOrder, Quiet
  <2> QED  BY <2>1, <2>2, <2>3
<1>3. WorkInOrder'
      BY <1>2 DEF WorkInOrder
<1> QED  BY <1>1, <1>3, NetworkStep

-----------------------------------------------------------------------------
(* The steps that propose, receive gossip and vote.                        *)

(* Nothing is sent.                                                        *)
LEMMA SendsNothing ==
    ASSUME UNCHANGED <<cast, blocks, results>>
    PROVE  Sends
BY DEF Sends

LEMMA OrderFacts ==
    ASSUME IInv, OrderInv, NEW n \in Nodes, NEW h \in Numbers
    PROVE  /\ pending[n][h] \in PendingBlock /\ EntryOrdered(h, pending[n][h], cast)
           /\ pending[n][h].block # None =>
                pending[n][h].block \in Blocks /\ pending[n][h].block.number = h
           /\ pending[n][h].votes \in Seq(Vote)
           /\ InOrder(executed[n], stored[n], head[n], job[n])
<1>1. pending[n][h] \in PendingBlock /\ EntryOrdered(h, pending[n][h], cast)
      BY DEF IInv, TypeOK, OrderInv, PendingOrdered
<1>2. pending[n][h].block # None => pending[n][h].block.number = h
      BY DEF IInv, PendingBlocksFit
<1>3. InOrder(executed[n], stored[n], head[n], job[n])
      BY DEF OrderInv, WorkInOrder
<1> QED  BY <1>1, <1>2, <1>3 DEF PendingBlock

LEMMA EmptyEntryOrdered == \A h, vs : EntryOrdered(h, EmptyEntry, vs)
BY DEF EntryOrdered, EmptyEntry, Elements

LEMMA QuietJobs ==
    ASSUME NEW n \in Nodes, job[n].step \in {"idle", "scan"}
    PROVE  /\ job' = job => Quiet(n, Idle) /\ Quiet(n, Scanning)
           /\ job' = [job EXCEPT ![n] = Idle] => Quiet(n, Idle)
           /\ job' = [job EXCEPT ![n] = Scanning] => Quiet(n, Scanning)
<1>1. Scanning.step = "scan" /\ Idle.step = "idle"
      BY DEF Scanning, Idle
<1> QED  BY <1>1 DEF Quiet

LEMMA ProposeOrder ==
    ASSUME IInv, OrderInv, NEW n \in Nodes, NEW b \in Blocks, add_and_broadcast_block(n, b)
    PROVE  OrderInv'
<1> DEFINE h == b.number
<1>1. /\ UNCHANGED <<stored, head, executed, block_proposer, responses, job, results>>
      /\ h \in Numbers /\ is_idle(n)
      /\ b.by = n /\ block_proposer[n][EpochOf(b)] = n
      /\ ProposePending(n, b) \/ ProposeNew(n, b)
      BY BlockAssumption DEF add_and_broadcast_block, db, is_block_proposer
<1>0. Quiet(n, Idle)
      BY <1>1, QuietJobs DEF is_idle
<1>2. CASE ProposePending(n, b)
  <2>1. /\ UNCHANGED cast /\ pending[n][h].block # None
        /\ \/ blocks' = blocks \cup {pending[n][h].block} /\ pending' = pending
           \/ blocks' = blocks /\ SetEntry(n, h, EmptyEntry)
        BY <1>2 DEF ProposePending
  <2>2. Sends
    <3>1. Proposed(pending[n][h].block, cast)
          BY <1>1, <2>1, OrderFacts DEF EntryOrdered
    <3> QED  BY <1>1, <2>1, <3>1 DEF Sends
  <2>3. Replaces(n, h, EmptyEntry)
        BY <2>1, EmptyEntryOrdered DEF Replaces
  <2> QED  BY <1>0, <1>1, <2>2, <2>3, MessageStep
<1>3. CASE ProposeNew(n, b)
  <2> DEFINE vote == [validator |-> n, block |-> b]
             entry == [block |-> b, votes |-> <<vote>>, vote_results |-> <<>>]
  <2>1. /\ blocks' = blocks \cup {b} /\ cast' = cast \cup {vote} /\ SetEntry(n, h, entry)
        BY <1>3 DEF ProposeNew
  <2>2. Proposed(b, cast') /\ vote.block = b /\ vote.validator = n
        BY <1>1, <2>1 DEF Proposed
  <2>3. Signed(vote)
        BY <1>1, <2>2 DEF Signed
  <2>4. Sends
    <3> HIDE DEF vote
    <3> QED  BY <1>1, <2>1, <2>2, <2>3 DEF Sends
  <2>5. EntryOrdered(h, entry, cast')
    <3>1. entry.block = b /\ Elements(entry.votes) = {vote}
          BY DEF Elements
    <3> QED  BY <2>2, <3>1 DEF EntryOrdered
  <2>6. Replaces(n, h, entry)
        BY <2>1, <2>5 DEF Replaces
  <2> HIDE DEF entry
  <2> QED  BY <1>0, <1>1, <2>4, <2>6, MessageStep
<1> QED  BY <1>1, <1>2, <1>3

LEMMA ReceiveBlockOrder ==
    ASSUME IInv, OrderInv, NEW n \in Nodes, NEW b \in blocks, receive_validate_block(n, b)
    PROVE  OrderInv'
<1> DEFINE h == b.number
           old == pending[n][h]
           entry == [old EXCEPT !.block = b]
<1>1. /\ UNCHANGED <<stored, head, executed, block_proposer, responses, results, cast>>
      /\ job[n].step \in {"idle", "scan"} /\ SetEntry(n, h, entry)
      /\ blocks' = blocks \cup {b} /\ job' = [job EXCEPT ![n] = Scanning]
      BY DEF receive_validate_block, db, is_idle
<1>2. b \in Blocks /\ h \in Numbers /\ Proposed(b, cast)
      BY BlockAssumption DEF IInv, TypeOK, OrderInv, ProposalsSigned
<1>3. Sends
  <2>1. blocks' = blocks
        BY <1>1
  <2> QED  BY <1>1, <2>1, SendsNothing
<1>4. EntryOrdered(h, entry, cast')
  <2>1. old \in PendingBlock /\ EntryOrdered(h, old, cast)
        BY <1>2, OrderFacts
  <2> HIDE DEF old
  <2>2. entry.block = b /\ entry.votes = old.votes
        BY <2>1 DEF PendingBlock
  <2> QED  BY <1>1, <1>2, <2>1, <2>2 DEF EntryOrdered
<1>5. Replaces(n, h, entry)
      BY <1>1, <1>4 DEF Replaces
<1>6. Quiet(n, Scanning)
      BY <1>1, QuietJobs
<1> HIDE DEF entry
<1> QED  BY <1>1, <1>2, <1>3, <1>5, <1>6, MessageStep

LEMMA ReceiveVoteOrder ==
    ASSUME IInv, Agreement, OrderInv, BootNodes = {}, NEW n \in Nodes, NEW v \in votes, receive_vote(n, v)
    PROVE  OrderInv'
<1> DEFINE h == v.block.number
           old == pending[n][h]
           vs == Push(old.votes, v)
           entry == [old EXCEPT !.votes = vs]
           r == generate_vote_result(vs)
           new == [entry EXCEPT !.vote_results = Push(@, r)]
<1>1. v \in cast /\ v \in Vote /\ v.block \in Blocks /\ h \in Numbers
      BY BlockAssumption, NetworkFacts DEF Vote
<1>2. /\ old \in PendingBlock /\ EntryOrdered(h, old, cast) /\ old.votes \in Seq(Vote)
      /\ Elements(old.votes) \subseteq cast
      BY <1>1, OrderFacts DEF IInv, VotesAreCast
<1>3. vs \in Seq(Vote) /\ Elements(vs) = Elements(old.votes) \cup {v}
  <2> DEFINE before == old.votes
  <2>1. before \in Seq(Vote)
        BY <1>2
  <2> HIDE DEF before
  <2>2. Push(before, v) \in Seq(Vote) /\ Elements(Push(before, v)) = Elements(before) \cup {v}
        BY <1>1, <2>1, PushElements
  <2> QED  BY <2>2 DEF before
<1>4. /\ UNCHANGED <<stored, head, executed, block_proposer, responses, blocks, cast>>
      /\ job[n].step \in {"idle", "scan"}
      /\ \/ /\ can_generate_vote_result(vs) /\ SetEntry(n, h, new) /\ results' = results \cup {r}
            /\ job' = [job EXCEPT ![n] = Scanning]
         \/ SetEntry(n, h, entry) /\ results' = results /\ job' = job
  <2>1. entry.votes = vs
    <3> HIDE DEF old, vs
    <3> QED  BY <1>2 DEF PendingBlock
  <2> QED  BY <2>1 DEF receive_vote, db, is_idle
<1>5. \A w \in Elements(vs) : w \in cast /\ w.block \in Blocks /\ w.block.number = h
                               /\ Proposed(w.block, cast)
  <2>1. \A w \in Elements(vs) : w \in cast /\ w.block.number = h
        BY <1>1, <1>2, <1>3 DEF EntryOrdered
  <2>2. \A w \in cast : w.block \in Blocks /\ Proposed(w.block, cast)
        BY DEF IInv, TypeOK, Vote, OrderInv, ProposalsSigned
  <2> QED  BY <2>1, <2>2
<1> HIDE DEF vs
<1>6. EntryOrdered(h, entry, cast') /\ EntryOrdered(h, new, cast')
  <2> HIDE DEF old
  <2>1. entry.block = old.block /\ entry.votes = vs /\ new.block = old.block /\ new.votes = vs
        BY <1>2 DEF PendingBlock
  <2> QED  BY <1>2, <1>4, <1>5, <2>1 DEF EntryOrdered
<1>7. ASSUME NEW w \in r.votes PROVE w.block = r.block
  <2>1. r.block = vs[1].block /\ r.votes \subseteq Elements(vs)
        BY UniqueVotesListed DEF generate_vote_result
  <2>2. vs[1] \in Elements(vs)
    <3>1. Len(vs) \in Nat /\ DOMAIN vs = 1..Len(vs)
          BY <1>3
    <3>2. v \in Elements(vs)
          BY <1>3
    <3>3. Len(vs) # 0
          BY <3>1, <3>2 DEF Elements
    <3>4. 1 \in DOMAIN vs
          BY <3>1, <3>3
    <3> QED  BY <3>4 DEF Elements
  <2>3. w \in Elements(vs)
        BY <1>7, <2>1
  <2> QED  BY <1>5, <2>1, <2>2, <2>3, OneProposal DEF OrderInv
<1> HIDE DEF r
<1>8. Sends
  <2>1. \A x \in results' \ results : \A w \in x.votes : w.block = x.block
        BY <1>4, <1>7
  <2> QED  BY <1>4, <2>1 DEF Sends
<1> HIDE DEF entry, new
<1>9. Quiet(n, Scanning)
      BY <1>4, QuietJobs
<1>10. CASE SetEntry(n, h, new) /\ job' = [job EXCEPT ![n] = Scanning]
  <2>1. Replaces(n, h, new)
        BY <1>6, <1>10 DEF Replaces
  <2> QED  BY <1>1, <1>4, <1>8, <1>9, <2>1, MessageStep
<1>11. CASE SetEntry(n, h, entry) /\ job' = job
  <2>1. Replaces(n, h, entry)
        BY <1>6, <1>11 DEF Replaces
  <2> QED  BY <1>1, <1>4, <1>8, <1>9, <2>1, MessageStep
<1> QED  BY <1>4, <1>10, <1>11

LEMMA ReceiveResultOrder ==
    ASSUME IInv, OrderInv, NEW n \in Nodes, NEW r \in results, receive_vote_result(n, r)
    PROVE  OrderInv'
<1> DEFINE h == r.block.number
           old == pending[n][h]
           entry == [old EXCEPT !.vote_results = Push(@, r)]
<1>1. /\ UNCHANGED <<stored, head, executed, block_proposer, responses, blocks, results, cast>>
      /\ job[n].step \in {"idle", "scan"} /\ SetEntry(n, h, entry)
      /\ job' = [job EXCEPT ![n] = Scanning]
      BY DEF receive_vote_result, db, network, is_idle
<1>2. h \in Numbers
      BY BlockAssumption DEF IInv, TypeOK, VoteResult
<1>3. EntryOrdered(h, entry, cast')
  <2>1. old \in PendingBlock /\ EntryOrdered(h, old, cast)
        BY <1>2, OrderFacts
  <2> HIDE DEF old
  <2>2. entry.block = old.block /\ entry.votes = old.votes
        BY <2>1 DEF PendingBlock
  <2> QED  BY <1>1, <2>1, <2>2 DEF EntryOrdered
<1>4. Replaces(n, h, entry)
      BY <1>1, <1>3 DEF Replaces
<1>5. Quiet(n, Scanning)
      BY <1>1, QuietJobs
<1> HIDE DEF entry
<1> QED  BY <1>1, <1>2, <1>4, <1>5, SendsNothing, MessageStep

-----------------------------------------------------------------------------
(* The finalization loop.                                                  *)

LEMMA ScanOrder ==
    ASSUME IInv, OrderInv, NEW n \in Nodes, NEW h \in Numbers,
           ScanEnd(n) \/ DropExecuted(n, h) \/ RejectBlock(n, h)
    PROVE  OrderInv'
<1>1. /\ UNCHANGED <<stored, head, executed, block_proposer, responses, blocks, results, cast>>
      /\ job[n].step \in {"idle", "scan"} /\ (job' = job \/ job' = [job EXCEPT ![n] = Idle])
      /\ pending' = pending \/ SetEntry(n, h, EmptyEntry)
      BY DEF ScanEnd, DropExecuted, RejectBlock, Unfinalized, db, network
<1>2. Quiet(n, Idle)
      BY <1>1, QuietJobs
<1>3. Replaces(n, h, EmptyEntry)
      BY <1>1, EmptyEntryOrdered DEF Replaces
<1> QED  BY <1>1, <1>2, <1>3, SendsNothing, MessageStep

(* A vote that is published is for the pending block, which the proposer   *)
(* of its epoch has signed.                                                *)
LEMMA PublishOrder ==
    ASSUME IInv, OrderInv, NEW n \in Nodes, NEW h \in Numbers, CanVote(n, pending[n][h].block),
           publish_vote(n, pending[n][h]), RowsKept, UNCHANGED <<blocks, results>>
    PROVE  Sends /\ \E entry : Replaces(n, h, entry)
<1> DEFINE old == pending[n][h]
           b == old.block
           vote == [validator |-> n, block |-> b]
           entry == [old EXCEPT !.votes = Append(@, vote)]
<1>1. /\ old \in PendingBlock /\ EntryOrdered(h, old, cast) /\ b \in Blocks /\ b.number = h
      /\ old.votes \in Seq(Vote) /\ Proposed(b, cast)
      BY OrderFacts DEF CanVote, EntryOrdered
<1>2. block_proposer[n][EpochOf(b)] = b.by
      BY DEF CanVote, validate_proposed_block, is_block_proposer
<1>3. \/ UNCHANGED <<pending, cast>>
      \/ cast' = cast \cup {vote} /\ SetEntry(n, h, entry)
      BY <1>1 DEF publish_vote
<1>4. CASE UNCHANGED <<pending, cast>>
      BY <1>4, SendsNothing DEF Replaces
<1>5. CASE cast' = cast \cup {vote} /\ SetEntry(n, h, entry)
  <2>1. vote \in Vote /\ vote.validator = n /\ vote.block = b
        BY <1>1 DEF Vote
  <2>2. Signed(vote)
    <3>1. EpochOf(b) \in Epochs /\ b.by # None
          BY <1>1, EpochsOfBlocks, BlockAssumption, ConstantAssumption
    <3>2. block_proposer'[n][EpochOf(b)] = b.by
          BY <1>2, <3>1 DEF RowsKept
    <3>3. Proposed(b, cast')
          BY <1>1, <1>5 DEF Proposed
    <3> HIDE DEF vote
    <3> QED  BY <2>1, <3>2, <3>3 DEF Signed
  <2> HIDE DEF vote
  <2>3. Sends
        BY <1>5, <2>2 DEF Sends
  <2>4. Elements(Append(old.votes, vote)) = Elements(old.votes) \cup {vote}
    <3> DEFINE before == old.votes
    <3>1. before \in Seq(Vote)
          BY <1>1
    <3> HIDE DEF before
    <3>2. Elements(Append(before, vote)) = Elements(before) \cup {vote}
          BY <2>1, <3>1, PushElements
    <3> QED  BY <3>2 DEF before
  <2>5. entry.block = b /\ entry.votes = Append(old.votes, vote)
    <3> HIDE DEF old
    <3> QED  BY <1>1 DEF PendingBlock
  <2> HIDE DEF entry, old
  <2>6. EntryOrdered(h, entry, cast')
    <3>1. Proposed(b, cast')
          BY <1>1, <1>5 DEF Proposed
    <3> QED  BY <1>1, <2>1, <2>4, <2>5, <3>1 DEF EntryOrdered
  <2> QED  BY <1>5, <2>3, <2>6 DEF Replaces
<1> QED  BY <1>3, <1>4, <1>5

LEMMA VoteAndWaitOrder ==
    ASSUME IInv, OrderInv, NEW n \in Nodes, NEW h \in Numbers, VoteAndWait(n, h)
    PROVE  OrderInv'
<1>1. /\ UNCHANGED <<stored, head, executed, block_proposer, responses, blocks, results>>
      /\ job[n].step \in {"idle", "scan"} /\ job' = [job EXCEPT ![n] = Idle]
      /\ CanVote(n, pending[n][h].block) /\ publish_vote(n, pending[n][h])
      BY DEF VoteAndWait, Unfinalized, db
<1>2. RowsKept
      BY <1>1 DEF RowsKept
<1>3. Sends /\ \E entry : Replaces(n, h, entry)
      BY <1>1, <1>2, PublishOrder
<1>4. Quiet(n, Idle)
      BY <1>1, QuietJobs
<1> QED  BY <1>1, <1>3, <1>4, MessageStep

(* The block a node starts to write is the one after its head: its head is *)
(* executed, so the block is not the head itself.                          *)
LEMMA NextOnHead ==
    ASSUME IInv, OrderInv, NEW n \in Nodes, NEW b \in Blocks, job[n].step \in {"idle", "scan"},
           b.number \notin executed[n], validate_block_header(n, b)
    PROVE  b.number = head[n] + 1 /\ b.parent = stored[n][head[n]] /\ head[n] \in Nat
<1>1. /\ head[n] \in Nat /\ head[n] \in Numbers /\ stored[n][head[n]] # None
      BY DEF IInv, TypeOK, Numbers, WritesInOrder
<1>2. stored[n][head[n]].number = head[n]
      BY <1>1 DEF IInv, StoredIsCertified
<1>3. executed[n] = 0..head[n]
      BY DEF OrderInv, WorkInOrder, InOrder
<1>4. head[n] \in executed[n]
      BY <1>1, <1>3
<1> QED  BY <1>1, <1>2, <1>4 DEF validate_block_header, HeadHeader

(* A node starts to write the block of the job j.                          *)
Starts(n, j) ==
    /\ job[n].step \in {"idle", "scan"} /\ job' = [job EXCEPT ![n] = j]
    /\ j.step = "store" /\ j.result.block = j.block
    /\ j.block.number = head[n] + 1 /\ j.block.parent = stored[n][head[n]]

LEMMA StartOrder ==
    ASSUME IInv, OrderInv, UNCHANGED <<stored, head, executed>>,
           NEW n \in Nodes, NEW j, Starts(n, j)
    PROVE  WorkInOrder'
<1>1. job \in [Nodes -> Job]
      BY DEF IInv, TypeOK
<1>2. ASSUME NEW m \in Nodes PROVE InOrder(executed[m], stored[m], head[m], job'[m])
  <2>1. InOrder(executed[m], stored[m], head[m], job[m])
        BY DEF OrderInv, WorkInOrder
  <2>2. CASE m # n
        BY <1>1, <2>1, <2>2 DEF Starts
  <2>3. CASE m = n
    <3>1. job'[m] = j
          BY <1>1, <2>3 DEF Starts
    <3> QED  BY <2>1, <2>3, <3>1 DEF InOrder, Starts
  <2> QED  BY <2>2, <2>3
<1> QED  BY <1>2 DEF WorkInOrder

LEMMA VoteAndFinalizeOrder ==
    ASSUME IInv, OrderInv, NEW n \in Nodes, NEW h \in Numbers,
           NEW i \in DOMAIN pending[n][h].vote_results, VoteAndFinalize(n, h, i)
    PROVE  OrderInv'
<1> DEFINE old == pending[n][h]
           b == old.block
           e == calculate_current_epoch(b.number + 1)
           j == [step |-> "store", block |-> b, result |-> old.vote_results[i], queried |-> FALSE]
<1>1. /\ UNCHANGED <<stored, head, executed, responses, blocks, results>>
      /\ job[n].step \in {"idle", "scan"} /\ job' = [job EXCEPT ![n] = j]
      /\ CanVote(n, b) /\ publish_vote(n, old) /\ h \notin executed[n]
      /\ select_and_store_proposer(n, b) /\ i \in PassingResults(old)
      BY DEF VoteAndFinalize, Unfinalized, First
<1>2. b \in Blocks /\ b.number = h
      BY <1>1, OrderFacts DEF CanVote
<1>3. h = head[n] + 1 /\ b.parent = stored[n][head[n]] /\ head[n] \in Nat
      BY <1>1, <1>2, NextOnHead DEF CanVote, validate_proposed_block
<1>4. /\ block_proposer \in [Nodes -> [Epochs -> Nodes \cup {None}]]
      /\ e \in Epochs /\ stored[n][head[n]] # None
      BY <1>2, EpochsOfBlocks DEF IInv, TypeOK, WritesInOrder
<1> HIDE DEF e
<1>5. \/ block_proposer' = block_proposer
      \/ /\ e > calculate_current_epoch(h) /\ block_proposer[n][e] = None
         /\ block_proposer' = [block_proposer EXCEPT ![n][e] = Elect[e][stored[n][head[n]]]]
      BY <1>1, <1>2 DEF select_and_store_proposer, HeadHeader, EpochOf, e
<1>6. RowsKept
  <2>1. ASSUME NEW m \in Nodes, NEW f \in Epochs, m # n \/ f # e,
               block_proposer' = [block_proposer EXCEPT ![n][e] = Elect[e][stored[n][head[n]]]]
        PROVE  block_proposer'[m][f] = block_proposer[m][f]
        BY <1>4, <2>1
  <2> QED  BY <1>5, <2>1 DEF RowsKept
<1>7. ProposersElected'
  <2>1. ASSUME NEW m \in Nodes, NEW f \in Epochs
        PROVE  \/ block_proposer'[m][f] = None
               \/ f = 0 /\ block_proposer'[m][f] = InitialProposer
               \/ \E k \in Numbers : Seeds(m, k, f, block_proposer'[m][f])
    <3>1. CASE block_proposer'[m][f] = block_proposer[m][f]
          BY <3>1 DEF OrderInv, ProposersElected
    <3>2. CASE block_proposer'[m][f] # block_proposer[m][f]
      <4>1. /\ m = n /\ f = e /\ e > calculate_current_epoch(h)
            /\ block_proposer'[m][f] = Elect[e][stored[n][head[n]]]
            BY <1>4, <1>5, <3>2
      <4>2. h > 0 /\ h - 1 = head[n]
            BY <1>3
      <4>3. calculate_current_epoch(h) < e
            BY <4>1
      <4>4. Seeds(n, h, e, Elect[e][stored[n][head[n]]])
            BY <1>2, <1>4, <4>2, <4>3 DEF Seeds, e
      <4> QED  BY <4>1, <4>4
    <3> QED  BY <3>1, <3>2
  <2> QED  BY <1>1, <2>1 DEF ProposersElected, Seeds
<1>8. WorkInOrder'
  <2>1. j.result.block = b
        BY <1>1 DEF PassingResults, validate_vote_result
  <2>2. j.step = "store" /\ j.block = b
        OBVIOUS
  <2> HIDE DEF j
  <2>3. Starts(n, j)
        BY <1>1, <1>2, <1>3, <2>1, <2>2 DEF Starts
  <2> QED  BY <1>1, <2>3, StartOrder
<1>9. AnswersMatch'
      BY <1>1 DEF OrderInv, AnswersMatch
<1>10. Sends /\ \E entry : Replaces(n, h, entry)
      BY <1>1, <1>6, PublishOrder
<1> QED  BY <1>6, <1>7, <1>8, <1>9, <1>10, NetworkStep

-----------------------------------------------------------------------------
(* Writing a block, and asking a peer for one.                             *)

(* The node n writes its own tables, and keeps their order.                *)
Writes(n) ==
    /\ \A m \in Nodes \ {n} : /\ executed'[m] = executed[m] /\ stored'[m] = stored[m]
                              /\ head'[m] = head[m] /\ job'[m] = job[m]
    /\ \A k \in Numbers : stored[n][k] # None => stored'[n][k] = stored[n][k]
    /\ InOrder(executed'[n], stored'[n], head'[n], job'[n])

LEMMA TableStep ==
    ASSUME IInv, OrderInv, UNCHANGED <<pending, block_proposer, blocks, results, cast, responses>>,
           NEW n \in Nodes, Writes(n)
    PROVE  OrderInv'
<1>0. AnswersMatch'
      BY DEF OrderInv, AnswersMatch
<1>1. RowsKept /\ Sends /\ Replaces(n, 0, EmptyEntry) /\ 0 \in Numbers
      BY SendsNothing, ConstantAssumption DEF RowsKept, Replaces, Numbers
<1>2. WorkInOrder'
  <2>1. \A m \in Nodes : InOrder(executed[m], stored[m], head[m], job[m])
        BY DEF OrderInv, WorkInOrder
  <2>2. \A m \in Nodes : InOrder(executed'[m], stored'[m], head'[m], job'[m])
        BY <2>1 DEF Writes
  <2> QED  BY <2>2 DEF WorkInOrder
<1>3. ProposersElected'
  <2>1. ASSUME NEW m \in Nodes, NEW k \in Numbers, NEW e, NEW p, Seeds(m, k, e, p)
        PROVE  /\ calculate_current_epoch(k) < e /\ calculate_current_epoch(k + 1) = e
               /\ k > 0 /\ stored'[m][k - 1] # None /\ p = Elect[e][stored'[m][k - 1]]
    <3>1. k - 1 \in Numbers /\ stored[m][k - 1] # None
          BY <2>1, ConstantAssumption DEF Seeds, Numbers
    <3>2. stored'[m][k - 1] = stored[m][k - 1]
          BY <3>1 DEF Writes
    <3> QED  BY <2>1, <3>1, <3>2 DEF Seeds
  <2>2. ASSUME NEW m \in Nodes, NEW e \in Epochs
        PROVE  (\/ block_proposer[m][e] = None
                \/ e = 0 /\ block_proposer[m][e] = InitialProposer
                \/ \E k \in Numbers : Seeds(m, k, e, block_proposer[m][e]))'
    <3>1. CASE block_proposer[m][e] = None \/ (e = 0 /\ block_proposer[m][e] = InitialProposer)
          BY <3>1
    <3>2. CASE \E k \in Numbers : Seeds(m, k, e, block_proposer[m][e])
      <4>1. PICK k \in Numbers : Seeds(m, k, e, block_proposer[m][e])
            BY <3>2
      <4>2. Seeds(m, k, e, block_proposer[m][e])'
            BY <2>1, <4>1 DEF Seeds
      <4> QED  BY <4>2
    <3> QED  BY <3>1, <3>2 DEF OrderInv, ProposersElected
  <2> QED  BY <2>2 DEF ProposersElected
<1> QED  BY <1>0, <1>1, <1>2, <1>3, NetworkStep

LEMMA StoreOrder ==
    ASSUME IInv, OrderInv, NEW n \in Nodes, store_block_header(n)
    PROVE  OrderInv'
<1> DEFINE b == job[n].block
           next == head[n] + 1
<1>1. /\ UNCHANGED <<pending, head, executed, block_proposer, blocks, results, responses, cast>>
      /\ job[n].step = "store" /\ job' = [job EXCEPT ![n].step = "head"]
      /\ stored' = IF stored[n][b.number] = None
                   THEN [stored EXCEPT ![n][b.number] = b] ELSE stored
      BY DEF store_block_header, network
<1>2. InOrder(executed[n], stored[n], head[n], job[n])
      BY DEF OrderInv, WorkInOrder
<1>3. b \in Blocks /\ b.number = next /\ next \in Numbers /\ head[n] \in Nat
  <2>1. b \in Blocks
        BY <1>1 DEF IInv, StoredIsCertified
  <2> QED  BY <1>1, <1>2, <2>1, BlockAssumption DEF InOrder, IInv, TypeOK, Numbers
<1>4. stored[n][next] = None
  <2>1. ~ (next <= head[n])
        BY <1>3
  <2> QED  BY <1>1, <1>2, <1>3, <2>1 DEF InOrder
<1>5. /\ job \in [Nodes -> Job] /\ stored \in [Nodes -> [Numbers -> Blocks \cup {None}]]
      BY DEF IInv, TypeOK
<1> HIDE DEF next
<1>6. /\ \A m \in Nodes \ {n} : stored'[m] = stored[m] /\ job'[m] = job[m]
      /\ \A k \in Numbers : stored'[n][k] = IF k = next THEN b ELSE stored[n][k]
      BY <1>1, <1>3, <1>4, <1>5
<1>7. /\ job'[n].step = "head" /\ job'[n].block = b /\ job'[n].result = job[n].result
      BY <1>1, <1>5 DEF Job
<1>8. InOrder(executed'[n], stored'[n], head'[n], job'[n])
  <2> DEFINE st == stored[n]  tt == stored'[n]  ex == executed[n]  h == head[n]
             j == job[n]  jj == job'[n]
  <2>1. ex = 0..h
        BY <1>1, <1>2 DEF InOrder
  <2>2. \A k \in Numbers : st[k] # None <=> k <= h
        BY <1>1, <1>2 DEF InOrder
  <2>3. /\ \A k \in 1..h : st[k].parent = st[k - 1]
        /\ j.result.block = b /\ b.parent = st[h]
        BY <1>1, <1>2 DEF InOrder
  <2>4. b # None
        BY <1>3, ConstantAssumption
  <2>5. next = h + 1 /\ \A k \in Numbers : k # next => tt[k] = st[k]
        BY <1>6 DEF next
  <2>6. tt[next] = b
        BY <1>3, <1>6
  <2>7. h \in Nat /\ h \in Numbers /\ h # next
    <3>1. h \in Numbers
          BY DEF IInv, TypeOK
    <3> QED  BY <1>3, <2>5, <3>1
  <2> HIDE DEF st, tt, ex, h, j, jj
  <2>8. \A k \in Numbers : tt[k] # None <=> k <= h \/ k = h + 1
    <3> SUFFICES ASSUME NEW k \in Numbers PROVE tt[k] # None <=> k <= h \/ k = h + 1
        OBVIOUS
    <3>1. CASE k = next  BY <2>4, <2>5, <2>6, <3>1
    <3>2. CASE k # next  BY <2>2, <2>5, <3>2
    <3> QED  BY <3>1, <3>2
  <2>9. \A k \in 1..h : tt[k].parent = tt[k - 1]
    <3> SUFFICES ASSUME NEW k \in 1..h PROVE tt[k].parent = tt[k - 1]
        OBVIOUS
    <3>1. k \in Numbers /\ k - 1 \in Numbers /\ k # next /\ k - 1 # next
          BY <2>5, <2>7, ConstantAssumption DEF Numbers
    <3> QED  BY <2>3, <2>5, <3>1
  <2>10. b.parent = tt[h]
        BY <2>3, <2>5, <2>7
  <2>11. jj.step = "head" /\ jj.block = b /\ jj.result = j.result
        BY <1>7 DEF j, jj
  <2>12. InOrder(ex, tt, h, jj)
        BY <1>3, <2>1, <2>3, <2>5, <2>6, <2>8, <2>9, <2>10, <2>11 DEF InOrder
  <2>13. executed' = executed /\ head' = head
        BY <1>1
  <2> QED  BY <2>12, <2>13 DEF ex, tt, h, jj
<1>9. Writes(n)
      BY <1>1, <1>4, <1>6, <1>8 DEF Writes
<1> QED  BY <1>1, <1>9, TableStep

LEMMA HeadOrder ==
    ASSUME IInv, OrderInv, NEW n \in Nodes, update_block_head(n)
    PROVE  OrderInv'
<1> DEFINE b == job[n].block
<1>1. /\ UNCHANGED <<pending, stored, executed, block_proposer>>
      /\ UNCHANGED <<blocks, results, cast, responses>> /\ job[n].step = "head"
      /\ head' = IF head[n] = b.number - 1 THEN [head EXCEPT ![n] = b.number] ELSE head
      BY DEF update_block_head, network
<1>2. InOrder(executed[n], stored[n], head[n], job[n])
      BY DEF OrderInv, WorkInOrder
<1>3. b \in Blocks /\ job[n].result \in results /\ b.number = head[n] + 1 /\ head[n] \in Nat
  <2>1. b \in Blocks /\ job[n].result \in results
        BY <1>1 DEF IInv, StoredIsCertified
  <2> QED  BY <1>1, <1>2, <2>1 DEF InOrder, IInv, TypeOK, Numbers
<1>4. validate_vote_result(job[n].result, b)
  <2>1. job[n].result.block = b
        BY <1>1, <1>2 DEF InOrder
  <2> QED  BY <1>3, <2>1 DEF OrderInv, VotesForSameBlock, validate_vote_result
<1>5. /\ job \in [Nodes -> Job] /\ head \in [Nodes -> Numbers]
      BY DEF IInv, TypeOK
<1>6. job' = [job EXCEPT ![n] = [@ EXCEPT !.step = "execute"]]
      BY <1>4 DEF update_block_head
<1>7. /\ \A m \in Nodes \ {n} : head'[m] = head[m] /\ job'[m] = job[m]
      /\ head'[n] = head[n] + 1
      BY <1>1, <1>3, <1>5, <1>6
<1>8. job'[n].step = "execute" /\ job'[n].block = b /\ job'[n].result = job[n].result
      BY <1>5, <1>6 DEF Job
<1>9. InOrder(executed'[n], stored'[n], head'[n], job'[n])
  <2> DEFINE st == stored[n]  ex == executed[n]  h == head[n]  j == job[n]  jj == job'[n]
  <2>1. ex = 0..h /\ \A k \in Numbers : st[k] # None <=> k <= h \/ k = h + 1
        BY <1>1, <1>2 DEF InOrder
  <2>2. /\ \A k \in 1..h : st[k].parent = st[k - 1]
        /\ j.result.block = b /\ b.parent = st[h] /\ st[h + 1] = b
        BY <1>1, <1>2 DEF InOrder
  <2>3. h \in Nat /\ jj.step = "execute" /\ jj.block = b /\ jj.result = j.result
        /\ b.number = h + 1
        BY <1>3, <1>8
  <2>4. stored' = stored /\ executed' = executed /\ head'[n] = h + 1
        BY <1>1, <1>7
  <2> HIDE DEF st, ex, h, j, jj
  <2>5. ex = 0..((h + 1) - 1)
    <3>1. h \in Nat
          BY <2>3
    <3>2. (h + 1) - 1 = h
          BY <3>1
    <3> QED  BY <2>1, <3>2
  <2>6. \A k \in 1..(h + 1) : st[k].parent = st[k - 1]
    <3> SUFFICES ASSUME NEW k \in 1..(h + 1) PROVE st[k].parent = st[k - 1]
        OBVIOUS
    <3>1. k \in 1..h \/ (k = h + 1 /\ k - 1 = h)
          BY <2>3
    <3> QED  BY <2>2, <3>1
  <2>7. \A k \in Numbers : st[k] # None <=> k <= h + 1
        BY <2>1, <2>3 DEF Numbers
  <2>8. InOrder(ex, st, h + 1, jj)
        BY <2>2, <2>3, <2>5, <2>6, <2>7 DEF InOrder
  <2> QED  BY <2>4, <2>8 DEF ex, st, h, jj
<1>10. Writes(n)
      BY <1>1, <1>7, <1>9 DEF Writes
<1> QED  BY <1>1, <1>10, TableStep

LEMMA OneMore ==
    ASSUME NEW i \in Nat
    PROVE  0..(i - 1) \cup {i} = 0..i
OBVIOUS

LEMMA ExecuteOrder ==
    ASSUME IInv, OrderInv, NEW n \in Nodes, execute_block(n)
    PROVE  OrderInv'
<1> DEFINE h == head[n]
<1>1. /\ UNCHANGED <<pending, stored, head, block_proposer, blocks, results, cast, responses>>
      /\ job[n].step = "execute" /\ job' = [job EXCEPT ![n] = Scanning]
      /\ executed' = [executed EXCEPT ![n] = @ \cup {job[n].block.number}]
      BY DEF execute_block, network
<1>2. InOrder(executed[n], stored[n], h, job[n])
      BY DEF OrderInv, WorkInOrder
<1>3. h \in Nat /\ job[n].block.number = h /\ executed[n] = 0..(h - 1)
      BY <1>1, <1>2 DEF InOrder, IInv, TypeOK, Numbers
<1>4. job \in [Nodes -> Job] /\ executed \in [Nodes -> SUBSET Numbers]
      BY DEF IInv, TypeOK
<1>5. /\ \A m \in Nodes \ {n} : executed'[m] = executed[m] /\ job'[m] = job[m]
      /\ executed'[n] = 0..(h - 1) \cup {h} /\ job'[n] = Scanning
      BY <1>1, <1>3, <1>4
<1>6. executed'[n] = 0..h /\ job'[n].step = "scan"
  <2>1. 0..(h - 1) \cup {h} = 0..h
        BY <1>3, OneMore
  <2> QED  BY <1>5, <2>1 DEF Scanning, Idle
<1>7. InOrder(executed'[n], stored'[n], head'[n], job'[n])
  <2>1. /\ \A k \in Numbers : stored[n][k] # None <=> k <= h
        /\ \A k \in 1..h : stored[n][k].parent = stored[n][k - 1]
        BY <1>1, <1>2 DEF InOrder
  <2>2. stored' = stored /\ head'[n] = h
        BY <1>1
  <2>3. InOrder(executed'[n], stored[n], h, job'[n])
        BY <1>6, <2>1 DEF InOrder
  <2> QED  BY <2>2, <2>3
<1>8. Writes(n)
      BY <1>1, <1>5, <1>7 DEF Writes
<1> QED  BY <1>1, <1>8, TableStep

LEMMA AnswerOrder ==
    ASSUME IInv, OrderInv, NEW n \in Nodes, NEW q \in queries, NEW r \in vote_results[n],
           handle_query_block_request(n, q, r)
    PROVE  OrderInv'
<1>1. /\ UNCHANGED <<pending, job, stored, head, executed, block_proposer>>
      /\ UNCHANGED <<blocks, results, cast>>
      /\ responses' = responses \cup {[to |-> q.from, block |-> r.block, result |-> r]}
      BY DEF handle_query_block_request, db
<1>2. AnswersMatch'
  <2> DEFINE m == [to |-> q.from, block |-> r.block, result |-> r]
  <2>1. m.result.block = m.block
        OBVIOUS
  <2> HIDE DEF m
  <2>2. responses' = responses \cup {m}
        BY <1>1 DEF m
  <2> QED  BY <2>1, <2>2 DEF OrderInv, AnswersMatch
<1> QED  BY <1>1, <1>2 DEF OrderInv, ProposalsSigned, PendingOrdered, VotesForSameBlock,
                           ProposersElected, Seeds, WorkInOrder

LEMMA ReceiveAnswerOrder ==
    ASSUME IInv, OrderInv, NEW n \in Nodes, NEW m \in responses, receive_block(n, m)
    PROVE  OrderInv'
<1> DEFINE j == [step |-> "store", block |-> m.block, result |-> m.result, queried |-> TRUE]
<1>1. /\ UNCHANGED <<pending, stored, head, executed, block_proposer>>
      /\ UNCHANGED <<blocks, results, cast, responses>>
      /\ job[n].step \in {"idle", "scan"} /\ job' = [job EXCEPT ![n] = j]
      /\ m.block.number \notin executed[n] /\ validate_block_header(n, m.block)
      BY DEF receive_block, db, network, is_idle
<1>2. m.block \in Blocks /\ m.result.block = m.block
      BY DEF IInv, TypeOK, OrderInv, AnswersMatch
<1>3. m.block.number = head[n] + 1 /\ m.block.parent = stored[n][head[n]]
      BY <1>1, <1>2, NextOnHead
<1>4. j.step = "store" /\ j.block = m.block /\ j.result = m.result
      OBVIOUS
<1> HIDE DEF j
<1>5. Starts(n, j)
      BY <1>1, <1>2, <1>3, <1>4 DEF Starts
<1>6. WorkInOrder'
      BY <1>1, <1>5, StartOrder
<1> QED  BY <1>1, <1>6 DEF OrderInv, ProposalsSigned, PendingOrdered, VotesForSameBlock,
                           ProposersElected, Seeds, AnswersMatch

-----------------------------------------------------------------------------
LEMMA InitOrder == Init => OrderInv
<1> SUFFICES ASSUME Init PROVE OrderInv
      OBVIOUS
<1>1. ProposalsSigned /\ VotesForSameBlock /\ AnswersMatch
      BY DEF Init, ProposalsSigned, VotesForSameBlock, AnswersMatch
<1>2. PendingOrdered
      BY EmptyEntryOrdered DEF Init, PendingOrdered
<1>3. ProposersElected
      BY DEF Init, ProposersElected
<1>4. WorkInOrder
  <2> SUFFICES ASSUME NEW n \in Nodes PROVE InOrder({0}, stored[n], 0, Idle)
      BY DEF Init, WorkInOrder
  <2>1. \A k \in Numbers : stored[n][k] = IF k = 0 THEN Genesis ELSE None
        BY DEF Init
  <2>2. \A k \in Numbers : stored[n][k] # None <=> k <= 0
        BY <2>1, ConstantAssumption, BlockAssumption DEF Numbers
  <2>3. Idle.step = "idle" /\ {0} = 0..0 /\ 1..0 = {}
        BY DEF Idle
  <2> QED  BY <2>2, <2>3 DEF InOrder
<1> QED  BY <1>1, <1>2, <1>3, <1>4 DEF OrderInv

LEMMA NextOrder ==
    ASSUME IInv, Agreement, OrderInv, BootNodes = {}, [Next]_vars
    PROVE  OrderInv'
<1>1. ASSUME NEW n \in Nodes, NEW b \in Blocks, add_and_broadcast_block(n, b)
      PROVE  OrderInv'
      BY <1>1, ProposeOrder
<1>2. ASSUME NEW n \in Nodes, NEW b \in blocks, receive_validate_block(n, b)
      PROVE  OrderInv'
      BY <1>2, ReceiveBlockOrder
<1>3. ASSUME NEW n \in Nodes, NEW v \in votes, receive_vote(n, v)
      PROVE  OrderInv'
      BY <1>3, ReceiveVoteOrder
<1>4. ASSUME NEW n \in Nodes, NEW r \in results, receive_vote_result(n, r)
      PROVE  OrderInv'
      BY <1>4, ReceiveResultOrder
<1>5. ASSUME NEW n \in Nodes, try_to_finalize(n)
      PROVE  OrderInv'
  <2>1. ASSUME NEW h \in Numbers, ScanEnd(n) \/ DropExecuted(n, h) \/ RejectBlock(n, h)
        PROVE  OrderInv'
        BY <2>1, ScanOrder
  <2>2. 0 \in Numbers
        BY ConstantAssumption DEF Numbers
  <2>3. ASSUME NEW h \in Numbers, VoteAndWait(n, h)
        PROVE  OrderInv'
        BY <2>3, VoteAndWaitOrder
  <2>4. ASSUME NEW h \in Numbers, NEW i \in DOMAIN pending[n][h].vote_results, VoteAndFinalize(n, h, i)
        PROVE  OrderInv'
        BY <2>4, VoteAndFinalizeOrder
  <2> QED  BY <1>5, <2>1, <2>2, <2>3, <2>4 DEF try_to_finalize
<1>6. ASSUME NEW n \in Nodes, Write(n)
      PROVE  OrderInv'
      BY <1>6, StoreOrder, HeadOrder, ExecuteOrder DEF Write
<1>7. ASSUME NEW n \in Nodes, NEW q \in queries, NEW r \in vote_results[n],
             handle_query_block_request(n, q, r)
      PROVE  OrderInv'
      BY <1>7, AnswerOrder
<1>8. ASSUME NEW n \in Nodes, NEW m \in responses, receive_block(n, m)
      PROVE  OrderInv'
      BY <1>8, ReceiveAnswerOrder
<1>9. CASE UNCHANGED vars
  <2>1. /\ UNCHANGED <<pending, job, stored, head, executed, block_proposer>>
        /\ UNCHANGED <<blocks, results, responses, cast>>
        BY <1>9 DEF vars, db, network
  <2> QED  BY <2>1 DEF OrderInv, ProposalsSigned, PendingOrdered, VotesForSameBlock,
                       ProposersElected, Seeds, AnswersMatch, WorkInOrder
<1> QED  BY <1>1, <1>2, <1>3, <1>4, <1>5, <1>6, <1>7, <1>8, <1>9 DEF Next

(* The blocks up to the head are linked, and those executed are an initial *)
(* part of them.                                                           *)
LEMMA OrderLinks ==
    ASSUME IInv, OrderInv
    PROVE  ChainLinked /\ ParentExecuted
<1>1. ASSUME NEW n \in Nodes
      PROVE  /\ head[n] \in Numbers /\ InOrder(executed[n], stored[n], head[n], job[n])
             /\ \A k \in Numbers : stored[n][k] # None => stored[n][k].number = k
      BY DEF OrderInv, WorkInOrder, IInv, TypeOK, StoredIsCertified
<1>2. ASSUME NEW n \in Nodes, NEW h \in 1..head[n]
      PROVE  stored[n][h] # None /\ stored[n][h].number = h /\ stored[n][h].parent = stored[n][h - 1]
  <2>1. h \in Numbers /\ h <= head[n]
        BY <1>1, ConstantAssumption DEF Numbers
  <2> QED  BY <1>1, <2>1 DEF InOrder
<1>3. ASSUME NEW n \in Nodes
      PROVE  \A h \in executed[n] : h <= head[n] /\ (h = 0 \/ h - 1 \in executed[n])
  <2>1. executed[n] = 0..(head[n] - 1) \/ executed[n] = 0..head[n]
        BY <1>1 DEF InOrder
  <2>2. head[n] \in Nat
        BY <1>1 DEF Numbers
  <2>3. ASSUME NEW h \in executed[n] PROVE h <= head[n] /\ (h = 0 \/ h - 1 \in executed[n])
    <3>1. CASE executed[n] = 0..head[n]
          BY <2>2, <3>1
    <3>2. CASE executed[n] = 0..(head[n] - 1)
          BY <2>2, <3>2
    <3> QED  BY <2>1, <3>1, <3>2
  <2> QED  BY <2>3
<1> QED  BY <1>2, <1>3 DEF ChainLinked, ParentExecuted
=============================================================================
