------------------------------- MODULE MCNode -------------------------------
(***************************************************************************)
(* The parts of a node and of a cluster, each in a world of its own: the   *)
(* finalization of blocks in three clusters (Finalization), the caches of  *)
(* the system contracts of two nodes (RuntimeConfig), the tasks and        *)
(* channels of a running node (NodeTasks), the commands that make a chain  *)
(* and the start of a follower (Bootstrap), the choice of validators and   *)
(* proposers with the health data it needs (Epochs, twice), and what gets  *)
(* into a block and is accepted (Proposal, for the transactions of users   *)
(* and for rewards).  The last four share x1 .. x14.                       *)
(***************************************************************************)
EXTENDS MCFinalization, RuntimeConfig, TLC

CONSTANT NULL

VARIABLES world, x1, x2, x3, x4, x5, x6, x7, x8, x9, x10, x11, x12, x13, x14

shared == <<x1, x2, x3, x4, x5, x6, x7, x8, x9, x10, x11, x12, x13, x14>>
From6 == <<x6, x7, x8, x9, x10, x11, x12, x13, x14>>
From7 == <<x7, x8, x9, x10, x11, x12, x13, x14>>
From9 == <<x9, x10, x11, x12, x13, x14>>
NoneFrom9 == x9 = 0 /\ x10 = 0 /\ x11 = 0 /\ x12 = 0 /\ x13 = 0 /\ x14 = 0
NoneFrom7 == x7 = 0 /\ x8 = 0 /\ NoneFrom9
NoneFrom6 == x6 = 0 /\ NoneFrom7
NoneFrom1 == x1 = 0 /\ x2 = 0 /\ x3 = 0 /\ x4 = 0 /\ x5 = 0 /\ NoneFrom6

-----------------------------------------------------------------------------
(* The cluster of the constants has a boot node that restarts and may build *)
(* two first blocks.  The other two are three nodes with epochs of two      *)
(* slots, and two validators with an observer in one epoch.                 *)
OneBody ==
    LET first == Above({MCGenesis}, {n1}, BodiesAbove)
    IN  {MCGenesis} \cup first \cup Above(first, {n1, n2}, BodiesAbove)
OneBodyElect == [b \in OneBody |-> IF b = MCGenesis THEN n2 ELSE n1]

C == INSTANCE Finalization WITH
       Nodes <- {n1, n2, n3}, BootNodes <- {}, Validators <- [e \in 0 .. 1 |-> {n1, n2, n3}],
       Staked <- {n1}, Elect <- [e \in 0 .. 1 |-> OneBodyElect], Blocks <- OneBody,
       SlotsPerEpoch <- 2, MaxBlockHeight <- 3, QueryThreshold <- 0, MaxNumber <- 2
G == INSTANCE Finalization WITH
       Nodes <- {n1, n2, n3}, BootNodes <- {}, Validators <- [e \in {0} |-> {n1, n2}],
       Staked <- {n1}, Elect <- [e \in {0} |-> OneBodyElect], Blocks <- OneBody,
       SlotsPerEpoch <- 9, MaxBlockHeight <- 3, QueryThreshold <- 0, MaxNumber <- 2

(* The first block makes the system contracts; each of the next three       *)
(* writes to some of them, as a system block or not.                        *)
WriteBlock(system, config, deny, staking) ==
    [system |-> system, config |-> config, deny |-> deny, staking |-> staking]
MCWrites ==
    {WriteBlock(TRUE, Invalid, Unset, Unset), WriteBlock(TRUE, "c2", Unset, Unset),
     WriteBlock(FALSE, Invalid, "d2", Unset), WriteBlock(TRUE, Unset, Invalid, "k2"),
     WriteBlock(FALSE, Unset, "d2", Invalid)}
MCChains == {<<WriteBlock(TRUE, "c1", "d1", "k1")>> \o s : s \in [1 .. 3 -> MCWrites]}

(* Channels with room for one message.                                      *)
T == INSTANCE NodeTasks WITH queue <- x1, todo <- x2, answered <- x3, alive <- x4, inputs <- x5,
       Capacity <- [c \in {"command", "event", "network_receive", "network_client", "mempool",
                           "mempool_res", "timer"} |-> 1],
       BlockSize <- 1, MaxInputs <- 1
(* Two genesis validators, three system contracts, epochs of two slots.     *)
B == INSTANCE Bootstrap WITH db <- x1, peer <- x2, files <- x3, broken <- x4, cmd <- x5,
       outcome <- x6, starting <- x7, faults <- x8,
       Root <- "v1", Follower <- "f", GenesisNode <- "v1", InitialProposer <- "v1",
       Accounts <- {"g", "v1", "v2"}, Validators <- <<"v1", "v2">>, NumContracts <- 2,
       SlotsPerEpoch <- 2, Elected <- [e \in 1 .. 9 |-> IF e % 2 = 1 THEN "v1" ELSE "v2"],
       MaxHead <- 3, OverflowChecks <- FALSE, MaxFaults <- 1

-----------------------------------------------------------------------------
(* Three staked nodes, one of them of the organisation, which has another   *)
(* one without a stake.  The first world sees two epochs end with the       *)
(* requests of the timer handled in time, the second one has late requests, *)
(* a stop and configurations that select nobody or fail.                    *)
MCPool ==
    [a |-> [staked_balance |-> 5, min_pool_balance |-> 1, max_pool_balance |-> 9, age_months |-> 6],
     b |-> [staked_balance |-> 9, min_pool_balance |-> 1, max_pool_balance |-> 9, age_months |-> 14],
     o |-> [staked_balance |-> 5, min_pool_balance |-> 1, max_pool_balance |-> 9, age_months |-> 1]]
Base ==
    [org_nodes |-> <<"o", "p">>, max_validators |-> 3, xscore_threshold |-> 50,
     whitelisted_nodes |-> NULL, blacklisted_nodes |-> NULL,
     whitelisted_block_proposers |-> NULL, blacklisted_block_proposers |-> {"p"},
     weights |-> <<50, 50>>, kin_weights |-> <<70, 10, 10, 10>>,
     stake_weights |-> (6 :> <<60, 20, 20>> @@ 12 :> <<50, 30, 20>> @@ 18 :> <<40, 40, 20>>),
     min_stake_age |-> 0, max_stake_age |-> 20, min_uptime |-> 0, max_uptime |-> 100,
     min_response_time |-> 0, max_response_time |-> 10]
MCSeed == [h \in 0 .. 40 |-> [e \in 0 .. 3 |-> h + e]]

P == INSTANCE Epochs WITH config <- x1, checks <- x2, reports <- x3, health <- x4, validators <- x5,
       proposer <- x6, head <- x7, monitor <- x8, events <- x9, gossip <- x10, received <- x11,
       alive <- x12, chosen <- x13, faults <- x14,
       Nodes <- {"a", "o"}, Addresses <- <<"a", "b", "o", "p">>, Pool <- MCPool,
       Peers <- {"a", "b", "o"}, ResponseTime <- [a |-> 5, b |-> 5, o |-> 5],
       Pings <- {[a |-> 4, b |-> 1, o |-> 4]}, Seed <- MCSeed, InitialProposer <- "o",
       DefaultMaxValidators <- 2, SlotsPerEpoch <- 20,
       Configs <- {Base}, Heights <- {18, 19, 38}, Prompt <- TRUE, MaxFaults <- 0
F == INSTANCE Epochs WITH config <- x1, checks <- x2, reports <- x3, health <- x4, validators <- x5,
       proposer <- x6, head <- x7, monitor <- x8, events <- x9, gossip <- x10, received <- x11,
       alive <- x12, chosen <- x13, faults <- x14,
       Nodes <- {"a", "o"}, Addresses <- <<"a", "b", "o", "p">>, Pool <- MCPool,
       Peers <- {"a", "b", "o"}, ResponseTime <- [a |-> 5, b |-> 5, o |-> 5],
       Pings <- {[a |-> 4, b |-> 1, o |-> 4]}, Seed <- MCSeed, InitialProposer <- "o",
       DefaultMaxValidators <- 2, SlotsPerEpoch <- 20,
       Configs <- {Base, [Base EXCEPT !.whitelisted_block_proposers = {"b"}],
                   [Base EXCEPT !.kin_weights = <<70, 10, 10, 5>>]},
       Heights <- {16, 18, 19}, Prompt <- FALSE, MaxFaults <- 1

-----------------------------------------------------------------------------
(* A user, the mint master, a pool, and contracts for the deny list and the *)
(* staking pools.  In the first world transactions of all types and of both *)
(* machines compete for nonces and balances, in the second one three nodes  *)
(* vote and the distributor can pay for some blocks; one change of the      *)
(* pools leaves a voter without a wallet.                                   *)
Tx(from, nonce, type, to, amount) ==
    [from |-> from, nonce |-> nonce, type |-> type, to |-> to, amount |-> amount, fee |-> 1]
ContractTx(from, nonce, type, to, amount, machine) ==
    Tx(from, nonce, type, to, amount)
        @@ [machine |-> machine, args |-> << >>, verified |-> TRUE, access |-> "public"]
UserTxs ==
    {Tx("u", 1, "transfer", "m", 2), Tx("u", 2, "transfer", "m", 3), Tx("u", 2, "stake", "p", 3),
     Tx("u", 3, "unstake", "p", 2), ContractTx("u", 1, "call", "x", 3, "EVM"),
     Tx("m", 2, "transfer", "m", 4), Tx("m", 1, "other", "p", 0),
     Tx("m", 1, "stake", "p", 2), Tx("u", 1, "stake", "p", 5),
     ContractTx("m", 1, "deploy", "c", 0, "L1XVM"), ContractTx("m", 2, "init", "c", 0, "L1XVM"),
     ContractTx("m", 1, "call", "denylist", 0, "L1XVM")
         @@ [deny |-> [allowed |-> {"u"}, senders |-> {"u"}, receivers |-> {}]]}
PoolTxs ==
    {Tx("u", 1, "transfer", "m", 2),
     ContractTx("m", 1, "call", "pools", 0, "L1XVM") @@ [info |-> [n2 |-> "w2"]]}
Table(info, funds) ==
    [nonce |-> [a \in {"u", "m", "w1", "w2", "w3", "r"} |-> 0],
     balance |-> [u |-> 6, m |-> 4, w1 |-> 0, w2 |-> 0, w3 |-> 0, r |-> funds],
     staked |-> [u |-> 0, m |-> 0], code |-> << >>, instances |-> {"denylist", "pools"},
     deny |-> [allowed |-> {}, senders |-> {}, receivers |-> {}], info |-> info]

U == INSTANCE Proposal WITH table <- x1, pool <- x2, block <- x3, votes <- x4, executed <- x5,
       faults <- x6, Users <- {"u", "m"}, Wallets <- {}, Distributor <- "r", MintMaster <- "m",
       Transactions <- UserTxs, Voters <- {"n1"}, Org <- {"n1"}, Proposer <- "n1", Reward <- 0,
       RewardFee <- 1, MinStake <- 1, MaxStake <- 5, MaxPool <- 4, Tables <- {Table(<< >>, 0)},
       MaxBlocks <- 2, MaxFaults <- 0, None <- NULL
W == INSTANCE Proposal WITH table <- x1, pool <- x2, block <- x3, votes <- x4, executed <- x5,
       faults <- x6, Users <- {"u", "m"}, Wallets <- {"w1", "w2", "w3"}, Distributor <- "r",
       MintMaster <- "m", Transactions <- PoolTxs, Voters <- {"n1", "n2", "n3"}, Org <- {"n1"},
       Proposer <- "n1", Reward <- 2, RewardFee <- 1, MinStake <- 1, MaxStake <- 3, MaxPool <- 4,
       Tables <- {Table([n1 |-> "w1", n2 |-> "w2", n3 |-> "w3"], 8),
                  Table([n1 |-> "w1", n2 |-> "w2", n3 |-> "w2"], 9)},
       MaxBlocks <- 3, MaxFaults <- 1, None <- NULL

-----------------------------------------------------------------------------
WorldsInit ==
    /\ \/ world \in {"restart", "config"} /\ Init /\ NoneFrom1
       \/ world = "epochs" /\ C!Init /\ NoneFrom1
       \/ world = "gap" /\ G!Init /\ NoneFrom1
       \/ world = "tasks" /\ Init /\ T!Init /\ NoneFrom6
       \/ world = "bootstrap" /\ Init /\ B!Init /\ NoneFrom9
       \/ world = "prompt" /\ Init /\ P!Init
       \/ world = "faulty" /\ Init /\ F!Init
       \/ world = "admission" /\ Init /\ U!Init /\ NoneFrom7
       \/ world = "rewards" /\ Init /\ W!Init /\ NoneFrom7
    /\ ConfigInit
    /\ world # "config" => chain = CHOOSE c \in Chains : TRUE

WorldsNext ==
    /\ \/ /\ \/ world = "restart" /\ Next
             \/ world = "epochs" /\ C!Next
             \/ world = "gap" /\ G!Next
          /\ RunToCompletion
          /\ UNCHANGED <<configVars, shared>>
       \/ world = "config" /\ ConfigNext /\ UNCHANGED <<vars, shared>>
       \/ /\ \/ world = "tasks" /\ T!Next /\ UNCHANGED From6
             \/ world = "bootstrap" /\ B!Next /\ UNCHANGED From9
             \/ world = "prompt" /\ P!Next
             \/ world = "faulty" /\ F!Next
             \/ world = "admission" /\ U!Next /\ UNCHANGED From7
             \/ world = "rewards" /\ W!Next /\ UNCHANGED From7
          /\ UNCHANGED <<vars, configVars>>
    /\ UNCHANGED world

WorldsSpec == WorldsInit /\ [][WorldsNext]_<<world, vars, configVars, shared>>

-----------------------------------------------------------------------------
\* Where no boot node restarts, a block is executed after its parent, the chain of
\* a node is linked from the genesis block to its head, and nodes that have selected
\* the proposer of an epoch have selected the same one, whoever missed which message
\* (try_to_finalize, update_block_head, select_and_store_validators_and_proposer).
ExecutedInOrder ==
    /\ world = "epochs" => C!Agreement /\ C!ParentExecuted /\ C!ChainLinked /\ C!ProposersAgree
    /\ world = "gap" => G!Agreement /\ G!ParentExecuted /\ G!ChainLinked /\ G!ProposersAgree

\* The tasks wait for each other in a circle only through a full channel or when
\* the event loop waits for its own dial (node.rs, event_loop.rs).
CircleNeedsFullChannel == world = "tasks" => T!CircleNeedsFullChannel

\* A follower that executes all blocks of the root node has its system contracts
\* and its nonce, if the root node executed all of them (sync_node).
ReplayAgrees == world = "bootstrap" => B!ReplayAgrees

\* A stored proposer is among the stored validators of its epoch
\* (select_and_store_validators_and_proposer).
ProposerIsValidator ==
    (world = "prompt" => P!ProposerIsValidator) /\ (world = "faulty" => F!ProposerIsValidator)

\* Nodes hold different health of a peer only if they know two proposers of the
\* epoch (receive_signed_node_health).
HealthAgrees == (world = "prompt" => P!HealthAgrees) /\ (world = "faulty" => F!HealthAgrees)

\* A transaction that was valid when it was admitted can be invalid in the block it
\* gets into only if it stakes or unstakes, or if the deny list has changed
\* (build_new_block_transactions_list).
OnlyStakesTurnInvalid ==
    /\ world = "admission" => U!OnlyStakesTurnInvalid
    /\ world = "rewards" => W!OnlyStakesTurnInvalid

\* "Validate transactions to be sure all of them are valid at this moment"
\* (propose_block, mempool.rs:461).
AllValidAtThisMoment == world = "admission" => U!AllValidAtThisMoment

\* If a block has only transfers, all of them are carried out, in whatever order the
\* nodes execute them (execute_block_inner).
TransfersAreExecuted ==
    [][/\ world = "admission" => U!TransfersAreExecuted
       /\ world = "rewards" => W!TransfersAreExecuted]_<<world, shared>>

\* The rewards the proposer adds are accepted by every node with its vote result, if
\* every voter has a wallet of its own (build_reward_transactions,
\* validate_block_header_and_transactions).
RewardsAreAccepted == world = "rewards" => W!RewardsAreAccepted
=============================================================================
