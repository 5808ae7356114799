----------------------------- MODULE Bootstrap -----------------------------
(***************************************************************************)
(* How a chain comes up.  On the root node, which has no boot nodes, the   *)
(* commands init, add-system-block, update-node-info and start; on a       *)
(* follower start, with the root node as boot node.  Every statement of a  *)
(* command that changes the database is a step, and the process may stop   *)
(* before any of them.                                                     *)
(*                                                                         *)
(* The address of a contract is computed from the nonce of its owner: the  *)
(* code deployed with nonce n is at n, the instance made from code c with  *)
(* nonce n is at <<c, n>>.  The five system contracts are 1..NumContracts; *)
(* the last one is the deny list.                                          *)
(***************************************************************************)
EXTENDS Integers, Sequences, FiniteSets, FiniteSetsExt, SequencesExt

CONSTANTS Root, Follower,
          GenesisNode,        \* the hard-coded node address of the genesis
          InitialProposer,    \* initial_epoch.block_proposer of the follower
          Accounts,           \* the genesis accounts
          Validators,         \* the genesis validators, a sequence
          NumContracts,
          SlotsPerEpoch,
          Elected,            \* Elected[e]: the proposer the network selects for epoch e
          OverflowChecks,     \* the build checks integer overflow
          MaxHead,            \* bound on the height of the chain
          MaxFaults           \* bound on stops, rollbacks and unanswered requests

VARIABLES db,         \* database of the root node
          peer,       \* database of the follower
          files,      \* which of config.toml and genesis.json the root node has
          broken,     \* system contracts whose init function fails
          cmd,        \* the command running on the root node and its position
          outcome,    \* how the last command ended
          starting,   \* position of the follower in FullNode::new, and what it read
          faults

vars == <<db, peer, files, broken, cmd, outcome, starting, faults>>

Contracts == 1..NumContracts
Epoch(h) == h \div SlotsPerEpoch
Epochs == 0..Epoch(MaxHead + 1)
GenesisValidators == {Validators[i] : i \in DOMAIN Validators}

\* After the migrations.
EmptyDatabase ==
    [pool |-> FALSE, funded |-> {}, genesis |-> FALSE, genesis_time |-> FALSE, head |-> {},
     staked |-> [v \in GenesisValidators |-> 0],
     validators |-> [e \in Epochs |-> {}], proposer |-> [e \in Epochs |-> {}],
     info |-> [n \in {Root, Follower, GenesisNode} |-> "none"],
     health |-> [e \in Epochs |-> {}], owner |-> FALSE, nonce |-> 0, code |-> << >>, instances |-> {},
     blocks |-> << >>, executed |-> {}]

\* What init promises.
GenesisDatabase ==
    [EmptyDatabase EXCEPT !.pool = TRUE, !.funded = Accounts, !.genesis = TRUE, !.head = {0},
        !.staked = [v \in GenesisValidators |-> 1], !.validators[0] = GenesisValidators,
        !.proposer[0] = {GenesisNode}, !.info[GenesisNode] = "set"]

Idle == [name |-> "none", at |-> 0, infos |-> << >>]
Init ==
    /\ db = EmptyDatabase
    /\ peer = GenesisDatabase
    /\ files = {}
    /\ broken \in SUBSET Contracts
    /\ cmd = Idle
    /\ outcome = "none"
    /\ starting = [at |-> "off", current |-> 0, latest |-> 0, answered |-> TRUE]
    /\ faults = 0

Other == UNCHANGED <<peer, files, broken, starting, faults>>
At(name, n) == cmd.name = name /\ cmd.at = n
Continue == cmd' = [cmd EXCEPT !.at = @ + 1] /\ UNCHANGED outcome
Return(result) == cmd' = Idle /\ outcome' = result

\* A new chain is begun only before a follower has joined the old one.
Begin(name) ==
    /\ cmd.name = "none"
    /\ name = "init" => starting.at = "off" /\ peer = GenesisDatabase
    /\ cmd' = [name |-> name, at |-> 1, infos |-> << >>]
    /\ UNCHANGED <<db, outcome>>
    /\ Other

-----------------------------------------------------------------------------
\* The init command

upsert_block_proposer(d, e, n) == [d EXCEPT !.proposer[e] = {n}]
store_block_proposer(d, e, n) == [d EXCEPT !.proposer[e] = @ \cup {n}]

\* The database is dropped and created again.
re_initialize(d) == EmptyDatabase

create_validators_pool(d) == [d EXCEPT !.funded = {}, !.pool = TRUE]

create_fund_genesis_accounts(d) == [d EXCEPT !.funded = @ \cup Accounts]

set_block_proposer(d) ==
    store_block_proposer([d EXCEPT !.proposer = EmptyDatabase.proposer], 0, GenesisNode)

set_genesis_block_header(d) == [d EXCEPT !.genesis = TRUE, !.head = {0}]

set_genesis_node_info(d) == [d EXCEPT !.info[GenesisNode] = "set"]

\* Stake, then the row of the validator, for one validator after the other.
stake(d, v) == [d EXCEPT !.staked[v] = @ + 1]
store_validator(d, v) == [d EXCEPT !.validators[0] = @ \cup {v}]

set_genesis_validators(d, n) ==
    LET v == Validators[(n + 1) \div 2] IN IF n % 2 = 1 THEN stake(d, v) ELSE store_validator(d, v)

InitStatement(d, n) ==
    CASE n = 1 -> re_initialize(d)
      [] n = 2 -> create_validators_pool(d)
      [] n = 3 -> create_fund_genesis_accounts(d)
      [] n = 4 -> set_block_proposer(d)
      [] n = 5 -> set_genesis_block_header(d)
      [] n = 6 -> set_genesis_node_info(d)
      [] OTHER -> set_genesis_validators(d, n - 6)

LastStatement == 6 + 2 * Len(Validators)

\* InitCmd::execute
init ==
    /\ cmd.name = "init"
    /\ IF cmd.at <= LastStatement
       THEN db' = InitStatement(db, cmd.at) /\ Continue /\ UNCHANGED files
       ELSE /\ UNCHANGED db
            /\ IF cmd.at = LastStatement + 1
               THEN files' = files \cup {"config.toml"} /\ Continue
               ELSE files' = files \cup {"genesis.json"} /\ Return("init")
    /\ UNCHANGED <<peer, broken, starting, faults>>

-----------------------------------------------------------------------------
\* The add-system-block command

Code(i) == 2 * i - 1
Instance(i) == <<Code(i), 2 * i>>

contract_is_initialized(d, i) == Code(i) \in DOMAIN d.code /\ Instance(i) \in d.instances

\* The deny list is not asked for.
AllInitialized(d) == \A i \in Contracts \ {NumContracts} : contract_is_initialized(d, i)

\* The contracts to deploy, in order, and what generate_deploy_transactions
\* makes of the n-th of them: the nonces start from zero.
Missing(d) == SetToSortSeq({i \in Contracts : ~contract_is_initialized(d, i)}, <)

generate_deploy_transactions(i, n) ==
    LET nonce == 2 * n - 1
    IN [contract |-> i, code |-> nonce, instance |-> <<nonce, nonce + 1>>,
        transactions |-> << [nonce |-> nonce, deploy |-> i, init |-> 0],
                            [nonce |-> nonce + 1, deploy |-> 0, init |-> nonce] >>]

Infos(d) == [n \in DOMAIN Missing(d) |-> generate_deploy_transactions(Missing(d)[n], n)]

AddressesMatch(infos) ==
    \A n \in DOMAIN infos : /\ infos[n].code = Code(infos[n].contract)
                            /\ infos[n].instance = Instance(infos[n].contract)

Transactions(infos) ==
    FlattenSeq([n \in DOMAIN infos |-> infos[n].transactions])

\* BlockManager::validate_nonce: the transactions that continue the nonce of
\* the owner.
validate_nonce(d, txs) ==
    LET fits(n) == \A m \in 1..n : txs[m].nonce = d.nonce + m
    IN SubSeq(txs, 1, Max({n \in 0..Len(txs) : fits(n)}))

\* The number of the next block and the new head.
Height(d) == IF d.head = {} THEN 0 ELSE CHOOSE h \in d.head : TRUE
store_block(d, txs) ==
    [d EXCEPT !.blocks = Append(@, txs), !.head = {Height(d) + 1}]

\* One transaction of a system block: the nonce is counted whatever becomes
\* of it, and the addresses are computed from the nonce of the account.
execute_transaction(d, tx) ==
    LET counted == [d EXCEPT !.nonce = @ + 1]
        n == counted.nonce
    IN IF tx.deploy # 0
       THEN [counted EXCEPT !.code =
                [c \in DOMAIN @ \cup {n} |-> IF c = n THEN tx.deploy ELSE @[c]]]
       ELSE IF tx.init \in DOMAIN d.code /\ d.code[tx.init] \notin broken
            THEN [counted EXCEPT !.instances = @ \cup {<<tx.init, n>>}]
            ELSE counted

execute_system_block_inner(d, b) ==
    [FoldLeft(execute_transaction, d, d.blocks[b]) EXCEPT !.executed = @ \cup {b}]

\* The accounts that the contracts of infos should have now.
Verified(d, infos) ==
    /\ \A i \in infos : i.code \in DOMAIN d.code /\ i.instance \in d.instances
    /\ d.nonce = 2 * Cardinality(infos)

\* add_system_block.  Of the database only what is written and whether the
\* chain is running matters to it.
add_system_block ==
    /\ cmd.name = "add_system_block"
    /\ \/ /\ cmd.at = 1
          /\ db' = [db EXCEPT !.owner = TRUE]
          /\ Continue
       \/ /\ cmd.at = 2
          /\ UNCHANGED db
          /\ IF AllInitialized(db) THEN Return("added")
             ELSE IF ~AddressesMatch(Infos(db)) THEN Return("panic")
             ELSE cmd' = [cmd EXCEPT !.at = 3, !.infos = Infos(db)] /\ UNCHANGED outcome
       \/ /\ cmd.at = 3
          /\ Height(db) < MaxHead
          /\ db' = store_block(db, validate_nonce(db, Transactions(cmd.infos)))
          /\ Continue
       \/ /\ cmd.at = 4
          /\ db' = execute_system_block_inner(db, Height(db))
          /\ Continue
       \/ /\ cmd.at = 5
          /\ UNCHANGED db
          /\ Return(IF Verified(db, ToSet(cmd.infos)) THEN "added" ELSE "panic")
    /\ Other

\* The refresh of the config cache or the commit fails: the execution is
\* rolled back.
RollBack ==
    /\ At("add_system_block", 4)
    /\ faults < MaxFaults
    /\ faults' = faults + 1
    /\ Return("panic")
    /\ UNCHANGED <<db, peer, files, broken, starting>>

-----------------------------------------------------------------------------
\* The update-node-info command: the row is removed before it is stored, and
\* config.toml is written last

update_node_info_cmd ==
    /\ cmd.name = "update_node_info"
    /\ \/ /\ cmd.at = 1
          /\ db' = [db EXCEPT !.info[Root] = "none"]
          /\ Continue
          /\ UNCHANGED files
       \/ /\ cmd.at = 2
          /\ IF db.head = {} THEN Return("panic") /\ UNCHANGED db
             ELSE db' = [db EXCEPT !.info[Root] = "set"] /\ Continue
          /\ UNCHANGED files
       \/ /\ cmd.at = 3
          /\ files' = files \cup {"config.toml"}
          /\ Return("updated")
          /\ UNCHANGED db
    /\ UNCHANGED <<peer, broken, starting, faults>>

-----------------------------------------------------------------------------
\* FullNode::new on the root node

latest_epoch(d) == Max({Epoch(Height(d)), Epoch(Height(d) + 1)})

load_or_store_node_info(d, n) == [d EXCEPT !.info[n] = IF @ = "none" THEN "set" ELSE @]

start_root ==
    /\ cmd.name = "start"
    /\ \/ /\ cmd.at = 1
          /\ IF db.head = {} THEN Return("panic") /\ UNCHANGED db
             ELSE db' = load_or_store_node_info(db, Root) /\ Continue
       \/ cmd.at = 2 /\ db' = [db EXCEPT !.genesis_time = TRUE] /\ Continue
       \/ /\ cmd.at = 3
          /\ db' = upsert_block_proposer(db, latest_epoch(db), Root)
          /\ cmd' = [cmd EXCEPT !.name = "running", !.at = 0]
          /\ UNCHANGED outcome
    /\ Other

\* The node works: a block without system transactions is stored and executed,
\* and the last block of an epoch brings the health of the nodes in it and the
\* proposer of the next one.
Extended(d) ==
    LET h == Height(d) + 1
        measured == [d EXCEPT !.health[Epoch(h)] = {Root, Follower}]
        next == IF Epoch(h + 1) > Epoch(h)
                THEN store_block_proposer(measured, Epoch(h + 1), Elected[Epoch(h + 1)]) ELSE d
    IN [store_block(next, << >>) EXCEPT !.executed = @ \cup {h}]

Produce ==
    /\ cmd.name = "running"
    /\ Height(db) < MaxHead
    /\ db' = Extended(db)
    /\ UNCHANGED <<cmd, outcome>>
    /\ Other

\* The process of the root node stops, before or after any statement.
Stop ==
    /\ cmd.name # "none"
    /\ faults < MaxFaults
    /\ faults' = faults + 1
    /\ Return("stopped")
    /\ UNCHANGED <<db, peer, files, broken, starting>>

-----------------------------------------------------------------------------
\* FullNode::new on the follower

Unchanged == UNCHANGED <<db, files, broken, cmd, outcome>>
Move(from, to) == starting.at = from /\ starting' = [starting EXCEPT !.at = to]

sync_node_again(d) ==
    LET stored == [d EXCEPT !.blocks = db.blocks, !.head = {Len(db.blocks)}]
        from == Max({1, Len(d.blocks)})
    IN FoldLeft(LAMBDA s, n : execute_system_block_inner(s, n), stored,
                [k \in 1..(Len(db.blocks) - from + 1) |-> from + k - 1])

\* sync_node: the missing blocks are executed one after the other.
sync_node(d) ==
    LET from == Len(d.blocks) + 1
        stored == [d EXCEPT !.blocks = db.blocks, !.head = {Len(db.blocks)}]
    IN FoldLeft(LAMBDA s, n : execute_system_block_inner(s, n), stored,
                [k \in 1..(Len(db.blocks) - from + 1) |-> from + k - 1])

Synchronise ==
    /\ cmd.name = "running"
    /\ \/ Move("off", "synced") \/ Move("synced", "informed")
    /\ peer' = sync_node(peer)
    /\ UNCHANGED faults
    /\ Unchanged

\* The records the boot node knows, the time of the genesis, and the record
\* of the node itself; the epochs are computed here.
InformedOf(answer) ==
    LET known(n) == answer /\ db.info[n] # "none"
    IN [peer EXCEPT !.info = [n \in DOMAIN @ |-> IF known(n) THEN db.info[n] ELSE @[n]],
                    !.genesis_time = @ \/ (answer /\ db.genesis_time)]

Ask(answer) == (answer \/ faults < MaxFaults) /\ faults' = faults + (IF answer THEN 0 ELSE 1)

update_node_info ==
    \E answer \in BOOLEAN :
        /\ Ask(answer)
        /\ starting.at = "informed"
        /\ peer' = load_or_store_node_info(InformedOf(answer), Follower)
        /\ starting' = [at |-> "proposer", current |-> Epoch(Height(peer)),
                        latest |-> latest_epoch(peer), answered |-> TRUE]
        /\ Unchanged

\* In epoch 0 the proposer is the configured one, and its row is one more row.
set_initial_block_proposer ==
    /\ starting.latest = 0
    /\ Move("proposer", "running")
    /\ peer' = store_block_proposer(peer, starting.current, InitialProposer)
    /\ UNCHANGED faults
    /\ Unchanged

\* One row of the epoch, or of the epoch before if there is none; before epoch
\* 0 the subtraction overflows.
update_node_healths ==
    /\ starting.latest > 0
    /\ cmd.name = "running"
    /\ \E answer \in BOOLEAN :
          LET e == starting.current
              rows(epoch) == IF answer /\ epoch \in Epochs THEN db.health[epoch] ELSE {}
              from == IF rows(e) # {} THEN e ELSE e - 1
          IN /\ Ask(answer)
             /\ IF from < 0 /\ OverflowChecks THEN Move("proposer", "off") /\ UNCHANGED peer
                ELSE /\ Move("proposer", "health")
                     /\ \/ rows(from) = {} /\ UNCHANGED peer
                        \/ \E r \in rows(from) : peer' = [peer EXCEPT !.health[from] = @ \cup {r}]
    /\ Unchanged

update_block_proposer_and_validator ==
    /\ starting.at = "health"
    /\ cmd.name = "running"
    /\ \E answer \in BOOLEAN :
          /\ Ask(answer)
          /\ starting' = [starting EXCEPT !.at = "running", !.answered = answer]
          /\ LET e == starting.latest
                 rows == IF answer THEN db.proposer[e] ELSE {}
                 known == IF answer THEN db.validators[e] ELSE {}
                 joined == [peer EXCEPT !.validators[e] = @ \cup known]
             IN \/ rows = {} /\ peer' = joined
                \/ \E n \in rows : peer' = upsert_block_proposer(joined, e, n)
    /\ Unchanged

\* Its tasks run before the proposer is asked for: it takes part in finalizing
\* the next block, and selects at the end of an epoch like the others.
Follow ==
    /\ starting.at \in {"proposer", "health", "running"}
    /\ Height(peer) < Height(db)
    /\ Height(peer) + 1 \in db.executed
    /\ db.blocks[Height(peer) + 1] = << >>
    /\ peer' = Extended(peer)
    /\ UNCHANGED <<starting, faults>>
    /\ Unchanged

StopFollower ==
    /\ starting.at # "off"
    /\ faults < MaxFaults
    /\ faults' = faults + 1
    /\ starting' = [starting EXCEPT !.at = "off", !.answered = TRUE]
    /\ UNCHANGED peer
    /\ Unchanged

Next ==
    \/ \E name \in {"init", "add_system_block", "update_node_info", "start"} : Begin(name)
    \/ init \/ add_system_block \/ RollBack \/ update_node_info_cmd \/ start_root
    \/ Produce \/ Stop
    \/ Synchronise \/ update_node_info \/ set_initial_block_proposer
    \/ update_node_healths \/ update_block_proposer_and_validator \/ Follow \/ StopFollower

Spec == Init /\ [][Next]_vars

-----------------------------------------------------------------------------

(* A follower that executes all blocks of the root node has the same system  *)
(* contracts and owner nonce, provided the root node executed all of them.   *)
(* The proviso is needed: when the command stops between storing a block and *)
(* executing it (add_system_block.rs:365-369), the next run stores a second  *)
(* block with the same transactions, a follower executes both, and the       *)
(* contracts of the second get other addresses.                              *)
ReplayAgrees ==
    (peer.blocks = db.blocks /\ db.executed = DOMAIN db.blocks) =>
        peer.code = db.code /\ peer.instances = db.instances /\ peer.nonce = db.nonce

=============================================================================
