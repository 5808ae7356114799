----------------------------- MODULE MCProgress -----------------------------
(***************************************************************************)
(* How a node comes to its tables, and what must happen in the end inside  *)
(* it.  The worlds are a full node that starts and catches up (Sync), two  *)
(* archive nodes that catch up for ever, one with a maximal height, the    *)
(* snapshot of an archive node that another one applies (Snapshot), and    *)
(* the requests between the tasks of a running node (NodeTasks, with room  *)
(* for two messages in a channel, the timer and the calls of a server).    *)
(***************************************************************************)
EXTENDS Sync, Snapshot

VARIABLES world, queue, todo, answered, alive, inputs

taskVars == <<queue, todo, answered, alive, inputs>>
v == <<world, vars, snapshotVars, taskVars>>

MCSources == <<"s", "t">>
MCTables == <<"account", "block_head">>

A == INSTANCE Sync WITH
       Chain <- 3, BatchSize <- 2, SlotsPerEpoch <- 3, MaxBlockHeight <- 0, Archive <- TRUE,
       OverflowChecks <- FALSE, MaxFaults <- 1, MaxSyncs <- 2
L == INSTANCE Sync WITH
       Chain <- 3, BatchSize <- 1, SlotsPerEpoch <- 3, MaxBlockHeight <- 2, Archive <- TRUE,
       OverflowChecks <- TRUE, MaxFaults <- 0, MaxSyncs <- 2
Q == INSTANCE NodeTasks WITH
       Capacity <- [c \in {"command", "event", "network_receive", "network_client", "mempool",
                           "mempool_res", "timer"} |-> 2],
       BlockSize <- 1, MaxInputs <- 0

(* The tables and the caller of sync_node as they are in the other worlds.  *)
NoSync == Init /\ db.header = {} /\ remote.executed = 0
NoSnapshot == SnapshotInit /\ \A t \in Tables : tables[t] = Own

WorldsInit ==
    /\ \/ world = "sync" /\ Init /\ NoSnapshot
       \/ world = "archive" /\ A!Init /\ NoSnapshot
       \/ world = "limited" /\ L!Init /\ NoSnapshot
       \/ world = "snapshot" /\ SnapshotInit /\ NoSync
       \/ world = "requests" /\ NoSnapshot /\ NoSync
    /\ Q!Init

InSync(Step) == world = "sync" /\ Step /\ UNCHANGED <<world, snapshotVars, taskVars>>
InRequests(Step) == world = "requests" /\ Step /\ UNCHANGED <<world, vars, snapshotVars>>

WorldsNext ==
    \/ InSync(Next)
    \/ world = "archive" /\ A!Next /\ UNCHANGED <<world, snapshotVars, taskVars>>
    \/ world = "limited" /\ L!Next /\ UNCHANGED <<world, snapshotVars, taskVars>>
    \/ world = "snapshot" /\ SnapshotNext /\ UNCHANGED <<world, vars, taskVars>>
    \/ InRequests(Q!Next)

WorldsSpec ==
    /\ WorldsInit /\ [][WorldsNext]_v
    /\ WF_v(InSync(Main)) /\ \A i \in 1 .. 2 : WF_v(InSync(Syncing(i)))
    /\ WF_v(InRequests(Q!Tick)) /\ \A task \in Q!Task : WF_v(InRequests(Q!Proceed(task)))

-----------------------------------------------------------------------------
\* A full node that starts from tables it can go on from, and meets no further
\* fault, ends its two syncs and goes live (FullNode::new).
SyncCompletes == (world = "sync" /\ CanComplete) ~> (world = "sync" => main.pc = "live")

\* As long as no channel is full and the event loop does not wait for its own
\* dial, every task comes back from every handler (node.rs, event_loop.rs).
HandlersEnd ==
    [](world = "requests" => ~ Q!Backpressure /\ ~ Q!SelfWait)
        => \A task \in Q!Task : []<>(world = "requests" => Q!Idle(task))
=============================================================================
