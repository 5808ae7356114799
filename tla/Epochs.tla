------------------------------- MODULE Epochs -------------------------------
(***************************************************************************)
(* From pings to the validators of the next epoch.  Nodes count the        *)
(* answers of their peers, report them near the end of an epoch to its     *)
(* proposer, who stores and gossips one health row per peer.  Every node   *)
(* that finalizes the last block of the epoch then chooses validators and  *)
(* a proposer from what its own database holds at that moment.             *)
(*                                                                         *)
(* A peer id is the address of the node.  Scores are percentages, rounded  *)
(* down; a score that is not a number is the empty set.  Signatures        *)
(* verify.  A message of one content reaches a node at most once: the      *)
(* gossip layer names messages by a hash of their content.                 *)
(***************************************************************************)
EXTENDS Integers, FiniteSets, Sequences, SequencesExt

CONSTANTS
    Nodes,          \* the nodes whose tasks are modelled
    Addresses,      \* every address, in ascending order
    Pool,           \* RuntimeStakingInfoCache.nodes
    Peers,          \* addresses with a node info record and a peer id
    ResponseTime,   \* average response time of each peer
    Configs,        \* RuntimeConfigCache, one per behaviour
    Pings,          \* bound: counts of answers that may come in at a time
    Seed,           \* Seed[h][e]: calculate_seed for block number h and epoch e
    InitialProposer,
    DefaultMaxValidators, SlotsPerEpoch,
    Heights,        \* bound: the heights at which timers look at the chain
    Prompt,         \* bound: requests of the timer are handled before the next block
    MaxFaults, NULL

VARIABLES
    config,
    checks,      \* checks[n][p]: answers of p, RealTimeChecks.online_checks
    reports,     \* reports[n][p]: Consensus.node_health_reports
    health,      \* health[n]: rows of the table node_health
    validators,  \* validators[n][e], a table
    proposer,    \* proposer[n][e]: the addresses of the rows of a table
    head,        \* head[n]: last block executed
    monitor,     \* last epochs the health timer has asked for
    events,      \* events[n]: requests of the timer not yet handled
    gossip,      \* messages sent
    received,    \* received[n]: messages handled
    alive,       \* alive[n]: the consensus task has not panicked
    chosen,      \* history: what a node has chosen, and from what
    faults

vars == <<config, checks, reports, health, validators, proposer, head, monitor, events,
          gossip, received, alive, chosen, faults>>
tables == <<health, validators, proposer, head, chosen>>
timers == <<monitor, events>>

-----------------------------------------------------------------------------
\* block/src/block_manager.rs

calculate_current_epoch(number) == number \div SlotsPerEpoch
slots_elapsed_in_epoch(number) == number - calculate_current_epoch(number) * SlotsPerEpoch

is_approaching_epoch_end(number, part) ==
    SlotsPerEpoch - slots_elapsed_in_epoch(number) <= SlotsPerEpoch \div part

Epochs == {calculate_current_epoch(number + 1) : number \in Heights}

-----------------------------------------------------------------------------
\* xscore, as used by validator_manager.rs

NaN == {}

Weighted(weights, scores) ==
    IF \E i \in DOMAIN scores : scores[i] = NaN THEN NaN
    ELSE LET value(i) == CHOOSE v \in scores[i] : TRUE
         IN  {FoldFunctionOnSet(+, 0, [i \in DOMAIN scores |-> weights[i] * value(i)],
                                DOMAIN scores) \div 100}

validate_weightage(weights) == FoldFunctionOnSet(+, 0, weights, DOMAIN weights) = 100

Within(value, min, max) == IF min = max THEN NaN ELSE {((value - min) * 100) \div (max - min)}

membership_function(value, min, max) ==
    CASE value < min -> {0} [] value > max -> {100} [] OTHER -> Within(value, min, max)

\* Inside the range a longer time scores more.
response_time_membership(value, min, max) ==
    CASE value < min -> {100} [] value > max -> {0} [] OTHER -> Within(value, min, max)

\* The age selects the weights; the period asked for does not.
new_weights(c, months) ==
    CASE months \in 2..6 -> c.stake_weights[6]
      [] months \in 13..18 -> c.stake_weights[18]
      [] OTHER -> c.stake_weights[12]

calculate_stake_score(c, pool) ==
    IF pool.staked_balance < pool.min_pool_balance THEN {0}
    ELSE Weighted(new_weights(c, pool.age_months),
                  <<membership_function(pool.staked_balance, pool.min_pool_balance,
                                        pool.max_pool_balance),
                    membership_function(pool.age_months, c.min_stake_age, c.max_stake_age),
                    {100}>>)

calculate_kin_score(c, row) ==
    Weighted(c.kin_weights,
             <<membership_function(row.uptime, c.min_uptime, c.max_uptime), {100},
               response_time_membership(row.response_time, c.min_response_time,
                                        c.max_response_time), {100}>>)

\* Of the three checks of weights only that of the kin weights is an error.
XScoreFails(c) ==
    validate_weightage(c.stake_weights[12]) /\ ~ validate_weightage(c.kin_weights)

calculate_xscore(c, address, row) ==
    IF ~ (validate_weightage(c.stake_weights[12]) /\ validate_weightage(c.weights)) THEN {0}
    ELSE Weighted(c.weights, <<calculate_stake_score(c, Pool[address]),
                               calculate_kin_score(c, row)>>)

-----------------------------------------------------------------------------
\* validator/src/validator_manager.rs, block_proposer_manager.rs

RowOf(rows, p, e) == {row \in rows : row.measured = p /\ row.epoch = e}

Candidates(rows, e) ==
    {a \in DOMAIN Pool :
        /\ a \notin Range(config.org_nodes)
        /\ Pool[a].staked_balance >= Pool[a].min_pool_balance
        /\ a \in Peers
        /\ RowOf(rows, a, e) # {}}

PassesThreshold(rows, a, e) ==
    \E row \in RowOf(rows, a, e) :
        \E score \in calculate_xscore(config, a, row) : score > config.xscore_threshold

\* A white list, if there is one, else a black list, else nothing is left out.
Listed(white, black, a) == IF white # NULL THEN a \in white ELSE black # NULL => a \notin black

max_validators == IF config.max_validators > DefaultMaxValidators THEN config.max_validators
                  ELSE DefaultMaxValidators

Before(a, b) == \E i, j \in DOMAIN Addresses : i < j /\ Addresses[i] = a /\ Addresses[j] = b
SortByAddress(s) == SortSeq(s, Before)

\* The first places of a permutation that the seed and the length determine.
partial_shuffle(s, seed, amount) ==
    LET shuffled == [i \in DOMAIN s |-> s[((i + seed) % Len(s)) + 1]]
    IN  SubSeq(shuffled, 1, IF amount < Len(s) THEN amount ELSE Len(s))

\* order: the candidates as the hash map yields them.
select_validators_for_epoch(rows, order, number, e) ==
    LET current == calculate_current_epoch(number)
        passed == SelectSeq(order, LAMBDA a :
                      /\ PassesThreshold(rows, a, current)
                      /\ Listed(config.whitelisted_nodes, config.blacklisted_nodes, a))
        needed == max_validators - Len(passed)
        orgs == SubSeq(config.org_nodes, 1,
                       IF needed < Len(config.org_nodes) THEN needed ELSE Len(config.org_nodes))
        filled == SortByAddress(passed) \o (IF needed > 0 THEN orgs ELSE <<>>)
    IN  partial_shuffle(filled, Seed[number][e], max_validators)

EligibleProposers_unselected(selected) ==
    SelectSeq(Addresses, LAMBDA a :
        Listed(config.whitelisted_block_proposers, config.blacklisted_block_proposers, a))

\* Without any list nobody is eligible.
EligibleProposers(selected) ==
    SelectSeq(selected, LAMBDA a :
        /\ config.whitelisted_block_proposers # NULL \/ config.blacklisted_block_proposers # NULL
        /\ Listed(config.whitelisted_block_proposers, config.blacklisted_block_proposers, a))

calculate_proposer_index(seed, count) == (seed % count) + 1

-----------------------------------------------------------------------------
Init ==
    /\ config \in Configs
    /\ checks = [n \in Nodes |-> [p \in Peers \ {n} |-> 0]]
    /\ reports = [n \in Nodes |-> [p \in Peers |-> <<>>]]
    /\ health = [n \in Nodes |-> {}]
    /\ validators = [n \in Nodes |-> [e \in Epochs |-> IF e = 0 THEN {InitialProposer} ELSE {}]]
    /\ proposer = [n \in Nodes |-> [e \in Epochs |-> IF e = 0 THEN {InitialProposer} ELSE {}]]
    /\ head = [n \in Nodes |-> CHOOSE number \in Heights : \A other \in Heights : number <= other]
    /\ monitor = [n \in Nodes |-> [processed |-> NULL, aggregated |-> NULL]]
    /\ events = [n \in Nodes |-> <<>>]
    /\ gossip = {}
    /\ received = [n \in Nodes |-> {}]
    /\ alive = [n \in Nodes |-> TRUE]
    /\ chosen = {}
    /\ faults = 0

-----------------------------------------------------------------------------
\* Only answers are counted: no event tells of a peer that did not answer.  The
\* counts are read by the next report alone, so they may as well come just before.
handle_ping_result(n) ==
    /\ alive[n]
    /\ events[n] # <<>> /\ Head(events[n]).do = "process"
    /\ \A p \in DOMAIN checks[n] : checks[n][p] = 0
    /\ \E counts \in Pings :
           checks' = [checks EXCEPT ![n] = [p \in DOMAIN checks[n] |-> counts[p]]]
    /\ UNCHANGED <<config, reports, tables, timers, gossip, received, alive, faults>>

\* start_node_health_monitoring: one tick of the timer.
Tick(n) ==
    LET e == calculate_current_epoch(head[n])
        process == monitor[n].processed # e /\ is_approaching_epoch_end(head[n], 5)
        aggregate == monitor[n].aggregated # e /\ is_approaching_epoch_end(head[n], 10)
    IN  /\ process \/ aggregate
        /\ events' = [events EXCEPT ![n] =
               @ \o (IF process THEN <<[do |-> "process", epoch |-> e]>> ELSE <<>>)
                 \o (IF aggregate THEN <<[do |-> "aggregate", epoch |-> e]>> ELSE <<>>)]
        /\ monitor' = [monitor EXCEPT ![n] =
               [processed |-> IF process THEN e ELSE @.processed,
                aggregated |-> IF aggregate THEN e ELSE @.aggregated]]
        /\ UNCHANGED <<config, checks, reports, tables, gossip, received, alive, faults>>

Handled(n, kind) ==
    /\ alive[n]
    /\ events[n] # <<>> /\ Head(events[n]).do = kind
    /\ events' = [events EXCEPT ![n] = Tail(@)]
    /\ UNCHANGED monitor

\* What the database may answer: any row of the epoch.
load_block_proposer(n, e) == IF proposer[n][e] = {} THEN {NULL} ELSE proposer[n][e]

Measured(n) == {p \in DOMAIN checks[n] : checks[n][p] > 0}

\* A peer with few answers is filled up with silence to one less than the most.
create_health_report(n, p, e) ==
    LET most == CHOOSE c \in Range(checks[n]) : \A d \in Range(checks[n]) : d <= c
        total == IF checks[n][p] < most - 1 THEN most - 1 ELSE checks[n][p]
    IN  [epoch |-> e, uptime |-> (checks[n][p] * 100) \div total,
         response_time |-> ResponseTime[p]]

Collected(n, list) ==
    [reports EXCEPT ![n] = [p \in Peers |->
        IF p \in DOMAIN list THEN Append(@[p], list[p]) ELSE @[p]]]

\* Consensus::process_health_update.  One answer per peer is not enough.
process_health_update(n) ==
    LET e == Head(events[n]).epoch
        mine == [p \in Measured(n) |-> create_health_report(n, p, e)]
    IN  /\ Handled(n, "process")
        /\ IF \E p \in Measured(n) : checks[n][p] > 1
           THEN /\ \E loaded \in load_block_proposer(n, e) :
                       reports' = IF loaded = n THEN Collected(n, mine) ELSE reports
                /\ gossip' = gossip \union {[kind |-> "health", from |-> n, epoch |-> e,
                                             reports |-> mine]}
                /\ checks' = [checks EXCEPT ![n] = [p \in DOMAIN @ |-> 0]]
           ELSE UNCHANGED <<reports, gossip, checks>>
        /\ UNCHANGED <<config, tables, received, alive, faults>>

Receive(n, m) ==
    /\ alive[n]
    /\ m \in gossip \ received[n] /\ m.from # n
    /\ received' = [received EXCEPT ![n] = @ \union {m}]

\* The reports are kept if this node is the proposer of their epoch, whenever
\* they come.  A message without effect is as one that never comes.
Collects(n, m) == load_block_proposer(n, m.epoch)

receive_node_health(n, m) ==
    /\ m.kind = "health" /\ Receive(n, m)
    /\ n \in Collects(n, m)
    /\ reports' = Collected(n, m.reports)
    /\ UNCHANGED <<config, checks, tables, timers, gossip, alive, faults>>

median(values) ==
    LET sorted == SortSeq(values, <)
        mid == Len(values) \div 2
    IN  IF Len(values) % 2 = 0 THEN (sorted[mid] + sorted[mid + 1]) \div 2 ELSE sorted[mid + 1]

\* The epoch is that of the first report.  of: history, the epochs of them all.
aggregate(n, p, list) ==
    [measured |-> p, epoch |-> list[1].epoch,
     uptime |-> median([i \in DOMAIN list |-> list[i].uptime]),
     response_time |-> median([i \in DOMAIN list |-> list[i].response_time]),
     by |-> n, of |-> {list[i].epoch : i \in DOMAIN list}]

aggregate_network_health(n) ==
    {aggregate(n, p, reports[n][p]) : p \in {p \in Peers : reports[n][p] # <<>>}}

\* Rows are inserted in no certain order, and the first that is there already
\* ends it.
Conflicts(rows, table) == {row \in rows : RowOf(table, row.measured, row.epoch) # {}}
Stored_replacing(rows, table) == {(table \ {row \in table : RowOf(rows, row.measured, row.epoch) # {}}) \union rows}
Stored(rows, table) ==
    IF Conflicts(rows, table) = {} THEN {table \union rows}
    ELSE {table \union some : some \in SUBSET (rows \ Conflicts(rows, table))}

\* Consensus::aggregate_and_broadcast_node_health
aggregate_and_broadcast_node_health(n) ==
    LET e == Head(events[n]).epoch
        rows == aggregate_network_health(n)
    IN  /\ Handled(n, "aggregate")
        /\ \E loaded \in load_block_proposer(n, e) :
           IF loaded # n THEN UNCHANGED <<reports, health, gossip>>
           ELSE /\ reports' = [reports EXCEPT ![n] = [p \in Peers |-> <<>>]]
                /\ \E table \in Stored(rows, health[n]) : health' = [health EXCEPT ![n] = table]
                /\ gossip' = IF Conflicts(rows, health[n]) = {}
                             THEN gossip \union {[kind |-> "signed", from |-> n, rows |-> rows]}
                             ELSE gossip
        /\ UNCHANGED <<config, checks, validators, proposer, head, chosen, received, alive, faults>>

receive_signed_node_health(n, m) ==
    /\ m.kind = "signed" /\ Receive(n, m)
    /\ \E table \in Stored(m.rows, health[n]) \ {health[n]} : health' = [health EXCEPT ![n] = table]
    /\ UNCHANGED <<config, checks, reports, validators, proposer, head, timers, gossip, alive,
                   chosen, faults>>

-----------------------------------------------------------------------------
NextHeight(n) ==
    CHOOSE number \in Heights :
        /\ number > head[n]
        /\ \A other \in Heights : other > head[n] => number <= other
HasNext(n) == alive[n] /\ (Prompt => events[n] = <<>>) /\ \E number \in Heights : number > head[n]

\* The last block of an epoch is stored and executed, or is not: then it is tried
\* again later.
Completes(n) ==
    \/ head' = [head EXCEPT ![n] = NextHeight(n)] /\ UNCHANGED faults
    \/ faults < MaxFaults /\ faults' = faults + 1 /\ UNCHANGED head

\* consensus.rs, select_and_store_validators_and_proposer.  The validators are
\* stored beside those of an earlier attempt before a proposer is looked for;
\* without an eligible one the index is taken modulo zero.
select_and_store_validators_and_proposer(n, e) ==
    LET current == calculate_current_epoch(head[n])
        seed == Seed[head[n]][e]
    IN  \E order \in SetToSeqs(Candidates(health[n], current)) :
            LET selected == select_validators_for_epoch(health[n], order, head[n], e)
                eligible == EligibleProposers(selected)
                new == eligible[calculate_proposer_index(seed, Len(eligible))]
            IN  CASE XScoreFails(config) /\ order # <<>> ->
                       UNCHANGED <<validators, proposer, chosen, alive, head, faults>>
                  [] eligible = <<>> ->
                       /\ validators' = [validators EXCEPT ![n][e] = @ \union Range(selected)]
                       /\ alive' = [alive EXCEPT ![n] = FALSE]
                       /\ UNCHANGED <<proposer, chosen, head, faults>>
                  [] OTHER ->
                       /\ validators' = [validators EXCEPT ![n][e] = @ \union Range(selected)]
                       /\ proposer' = [proposer EXCEPT ![n][e] = @ \union {new}]
                       /\ chosen' = chosen \union
                              {[node |-> n, epoch |-> e, header |-> head[n],
                                rows |-> {row \in health[n] : row.epoch = current},
                                validators |-> selected, proposer |-> new]}
                       /\ Completes(n)
                       /\ UNCHANGED alive

EndsEpoch(number) == calculate_current_epoch(number + 1) > calculate_current_epoch(number)

\* PendingBlock::try_to_finalize: the last block of an epoch selects first.
try_to_finalize(n) ==
    /\ HasNext(n)
    /\ IF EndsEpoch(NextHeight(n))
       THEN select_and_store_validators_and_proposer(n, calculate_current_epoch(NextHeight(n) + 1))
       ELSE /\ head' = [head EXCEPT ![n] = NextHeight(n)]
            /\ UNCHANGED <<validators, proposer, chosen, alive, faults>>
    /\ UNCHANGED <<config, checks, reports, health, timers, gossip, received>>

\* Consensus::receive_block: a block that was asked for is executed, and
\* nothing is selected.
receive_block(n) ==
    /\ HasNext(n)
    /\ \E other \in Nodes : head[other] >= NextHeight(n)
    /\ head' = [head EXCEPT ![n] = NextHeight(n)]
    /\ UNCHANGED <<config, checks, reports, health, validators, proposer, chosen, timers, gossip,
                   received, alive, faults>>

Next ==
    \E n \in Nodes :
        \/ handle_ping_result(n)
        \/ Tick(n)
        \/ process_health_update(n)
        \/ aggregate_and_broadcast_node_health(n)
        \/ \E m \in gossip : receive_node_health(n, m) \/ receive_signed_node_health(n, m)
        \/ try_to_finalize(n)
        \/ receive_block(n)

Spec == Init /\ [][Next]_vars

-----------------------------------------------------------------------------
TypeOK ==
    /\ \A n \in Nodes : checks[n] \in [Peers \ {n} -> Nat]
    /\ validators \in [Nodes -> [Epochs -> SUBSET Range(Addresses)]]
    /\ proposer \in [Nodes -> [Epochs -> SUBSET Range(Addresses)]]
    /\ \A n \in Nodes : \A row \in health[n] : row.measured \in Peers /\ row.uptime \in 0..100

\* A node that stored a proposer for an epoch has stored it among the validators
\* of the epoch, also after a selection that was repeated from other data
\* (select_and_store_validators_and_proposer).
ProposerIsValidator ==
    \A n \in Nodes : \A e \in Epochs :
        proposer[n][e] \subseteq validators[n][e]

\* Two nodes hold different health of a peer for an epoch only if some nodes have
\* different proposers for it, or one node has two: one proposer makes one row
\* (receive_signed_node_health, aggregate_and_broadcast_node_health).
HealthAgrees ==
    \A n, o \in Nodes : \A row \in health[n], other \in health[o] :
        (row.measured = other.measured /\ row.epoch = other.epoch /\ row # other)
            => Cardinality(UNION {proposer[m][row.epoch] : m \in Nodes}) > 1

=============================================================================
