-------------------------------- MODULE Sync --------------------------------
(***************************************************************************)
(* How a node catches up (node/src/sync.rs, FullNode::new in               *)
(* node/src/node.rs, sync_with_boot_node in server/src/commands/start.rs). *)
(* A call of sync_node downloads batches and owns two tasks: one stores    *)
(* the batches, one executes the blocks.  A full node calls it twice when  *)
(* it starts and ends on any error; an archive node calls it for ever and  *)
(* only logs errors, so the tasks of a failed call go on.  The tables      *)
(* survive a crash.  Statements of the store task are separate steps.      *)
(***************************************************************************)
EXTENDS Integers, Sequences, FiniteSets, FiniteSetsExt

CONSTANTS
    Chain,            \* bound: the last block of the chain
    BatchSize,
    SlotsPerEpoch,
    MaxBlockHeight,   \* of the runtime config; 0 when there is none
    Archive,          \* an archive node, or a full node
    OverflowChecks,
    MaxFaults,        \* bound: crashes and failed requests
    MaxSyncs          \* bound: calls of sync_node since the process began

\* A batch holds a block; a limit of 0 is none.
ASSUME SyncAssumption ==
    /\ Chain \in Nat \ {0} /\ BatchSize \in Nat \ {0} /\ SlotsPerEpoch \in Nat \ {0}
    /\ MaxBlockHeight \in Nat

VARIABLES
    db,      \* the tables; `ledger' is the state as the blocks applied to it, and
             \* `repeatable' records the blocks that were committed without a row for
             \* their executed flag, or while another task was past its check of it
    remote,  \* what the boot nodes have
    main,    \* the task that calls sync_node
    syncs,   \* per call of sync_node: its channel and its two tasks
    live,    \* the finalization of a running full node
    faults

vars == <<db, remote, main, syncs, live, faults>>

Block == 1 .. Chain
NoHead == -1

calculate_current_epoch(n) == n \div SlotsPerEpoch
has_epoch_ended(n) == calculate_current_epoch(n + 1) > calculate_current_epoch(n)

is_block_executed(n) == n \in DOMAIN db.meta /\ db.meta[n]

NoLive == [pc |-> "idle", number |-> 0, base |-> << >>]

\* server/src/commands/init.rs leaves header 0 as the head; a snapshot that was
\* not restored leaves empty tables.
Init ==
    /\ db \in {[header |-> h, meta |-> << >>, head |-> IF h = {} THEN NoHead ELSE 0,
                vote_result |-> {}, validator |-> {}, ledger |-> << >>, repeatable |-> {}] : h \in {{}, {0}}}
    /\ remote \in {[height |-> 1, executed |-> e] : e \in {0, 1}}
    /\ main = [pc |-> "start", round |-> 1, next |-> 0, last |-> 0]
    /\ syncs = << >>
    /\ live = NoLive
    /\ faults = 0

-----------------------------------------------------------------------------
\* The process.

Down == main' = [main EXCEPT !.pc = "down"] /\ syncs' = << >> /\ live' = NoLive

\* sync_node returns: its sender is dropped, so its store task ends after what
\* is in the channel.
Return(pc) ==
    /\ main' = [main EXCEPT !.pc = pc]
    /\ syncs' = IF syncs = << >> THEN syncs ELSE [syncs EXCEPT ![Len(syncs)].open = FALSE]
    /\ UNCHANGED live

Err == IF Archive THEN Return("start") ELSE Down

Panic == IF Archive THEN Return("dead") ELSE Down

Ok ==
    IF Archive THEN Return("start")
    ELSE IF main.round = 1
    THEN main' = [main EXCEPT !.pc = "start", !.round = 2] /\ UNCHANGED <<syncs, live>>
    ELSE Return("join")

Fault == faults < MaxFaults /\ faults' = faults + 1

Crash == Fault /\ main.pc # "down" /\ Down /\ UNCHANGED <<db, remote>>

Restart ==
    /\ main.pc = "down"
    /\ main' = [main EXCEPT !.pc = "start", !.round = 1]
    /\ UNCHANGED <<db, remote, syncs, live, faults>>

\* The chain goes on.
Grow ==
    /\ \/ remote.height < Chain /\ remote' = [remote EXCEPT !.height = @ + 1]
       \/ remote.executed < remote.height /\ remote' = [remote EXCEPT !.executed = @ + 1]
    /\ UNCHANGED <<db, main, syncs, live, faults>>

-----------------------------------------------------------------------------
\* sync_node

Below == NoHead

(* From the head downwards until an executed block; it stops at block 1    *)
(* without looking at it, unless the head is block 1: then it goes on      *)
(* below 0.                                                                *)
find_highest_local_executed_block(from) ==
    LET found == {n \in 2 .. from : is_block_executed(n)}
    IN  IF from = 0 THEN 0
        ELSE IF found # {} THEN Max(found)
        ELSE IF from = 1 /\ ~ is_block_executed(1) THEN Below
        ELSE 1

NewSync(highest) ==
    [channel |-> << >>, open |-> TRUE,
     store |-> [pc |-> "recv", batch |-> {}],
     execute |-> [pc |-> "load", first |-> highest + 1, number |-> highest + 1, base |-> << >>],
     last |-> remote.executed]

\* No boot node answers, or one has another protocol version.
sync_node_refused ==
    /\ main.pc = "start"
    /\ Fault
    /\ Err
    /\ UNCHANGED <<db, remote>>

sync_node ==
    LET highest == IF db.head = NoHead THEN 0 ELSE find_highest_local_executed_block(db.head)
    IN  /\ main.pc = "start"
        /\ IF db.head = NoHead /\ remote.height = 1 THEN Ok
           ELSE IF highest = Below
           THEN IF OverflowChecks THEN Panic
                ELSE main' = [main EXCEPT !.pc = "lost"] /\ UNCHANGED <<syncs, live>>
           ELSE IF highest >= remote.executed THEN Ok
           ELSE /\ Len(syncs) < MaxSyncs
                /\ syncs' = Append(syncs, NewSync(highest))
                /\ main' = [main EXCEPT !.pc = "download", !.last = remote.executed,
                                !.next = IF db.head = NoHead THEN 1 ELSE db.head + 1]
                /\ UNCHANGED live
        /\ UNCHANGED <<db, remote, faults>>

Current == syncs[Len(syncs)]

batch_upper_limit ==
    IF main.next + BatchSize > main.last THEN main.last + 1 ELSE main.next + BatchSize

fetch_block(n, include_validators) == [number |-> n, validators |-> include_validators]

\* The batch, where `missing' are the blocks that only the second attempt got.
Batch(missing) ==
    {fetch_block(n, n \in missing \/ n = main.next \/ has_epoch_ended(n)) :
        n \in main.next .. batch_upper_limit - 1}

TooHigh == MaxBlockHeight # 0 /\ batch_upper_limit - 1 >= MaxBlockHeight

Downloading == main.pc = "download" /\ main.next <= main.last

\* The store task has ended when the channel refuses a batch.
Send(missing) ==
    IF Current.store.pc = "failed" THEN Err
    ELSE /\ syncs' = [syncs EXCEPT ![Len(syncs)].channel = Append(@, Batch(missing))]
         /\ main' = [main EXCEPT !.next = batch_upper_limit]
         /\ UNCHANGED live

DownloadBatch ==
    /\ Downloading /\ ~ TooHigh
    /\ Send({})
    /\ UNCHANGED <<db, remote, faults>>

get_missing_blocks ==
    /\ Downloading /\ ~ TooHigh
    /\ Fault
    /\ \/ \E n \in main.next .. batch_upper_limit - 1 : Send({n})
       \/ Panic
    /\ UNCHANGED <<db, remote>>

max_block_height ==
    /\ Downloading /\ TooHigh
    /\ Err
    /\ UNCHANGED <<db, remote, faults>>

DownloadFinished ==
    /\ main.pc = "download" /\ main.next > main.last
    /\ main' = [main EXCEPT !.pc = "await_store"]
    /\ UNCHANGED <<db, remote, syncs, live, faults>>

AwaitStore ==
    /\ main.pc = "await_store"
    /\ \/ Current.store.pc = "failed" /\ Err
       \/ /\ Current.store.pc = "done"
          /\ main' = [main EXCEPT !.pc = "await_execute"]
          /\ UNCHANGED <<syncs, live>>
    /\ UNCHANGED <<db, remote, faults>>

AwaitExecute ==
    /\ main.pc = "await_execute"
    /\ \/ Current.execute.pc = "failed" /\ Err
       \/ Current.execute.pc = "done" /\ Ok
    /\ UNCHANGED <<db, remote, faults>>

\* The rest of FullNode::new reads the header of the head.  The proposer and
\* the validators of the epoch come from the boot nodes.
Join ==
    /\ main.pc = "join"
    /\ IF db.head = NoHead THEN Down /\ UNCHANGED db
       ELSE /\ main' = [main EXCEPT !.pc = "live"]
            /\ db' = [db EXCEPT !.validator = @ \cup {calculate_current_epoch(db.head + 1)}]
            /\ UNCHANGED <<syncs, live>>
    /\ UNCHANGED <<remote, faults>>

-----------------------------------------------------------------------------
\* validate_and_store_blocks of call i

SetStore(i, s) == syncs' = [syncs EXCEPT ![i].store = s]

LastOf(batch) == Max({b.number : b \in batch})
NumbersOf(batch) == {b.number : b \in batch}

ReceiveBatch(i) ==
    /\ syncs[i].store.pc = "recv"
    /\ \/ /\ syncs[i].channel # << >>
          /\ syncs' = [syncs EXCEPT ![i].store = [pc |-> "meta", batch |-> Head(syncs[i].channel)],
                                    ![i].channel = Tail(@)]
       \/ /\ syncs[i].channel = << >> /\ ~ syncs[i].open
          /\ SetStore(i, [pc |-> "done", batch |-> {}])
    /\ UNCHANGED <<db, remote, main, live, faults>>

\* Mutant of NextStatement: the head moves before the headers are stored.
NextStatement_head_first(pc) ==
    CASE pc = "meta" -> "head" [] pc = "head" -> "header" [] pc = "header" -> "vote_result"
      [] pc = "vote_result" -> "validator"

NextStatement(pc) ==
    CASE pc = "meta" -> "header" [] pc = "header" -> "head" [] pc = "head" -> "vote_result"
      [] pc = "vote_result" -> "validator"

\* batch_store_blocks, batch_store_vote_results, batch_store_validators: the
\* first inserts what is not there and moves the head, the second fails on a
\* vote result that is there.
Statement(pc, batch) ==
    LET numbers == NumbersOf(batch)
    IN  CASE pc = "meta" ->
                [db EXCEPT !.meta = [n \in DOMAIN @ \cup numbers |->
                                        IF n \in DOMAIN @ THEN @[n] ELSE FALSE]]
          [] pc = "header" -> [db EXCEPT !.header = @ \cup numbers]
          [] pc = "head" -> [db EXCEPT !.head = LastOf(batch)]
          [] pc = "vote_result" -> [db EXCEPT !.vote_result = @ \cup numbers]
          [] pc = "validator" ->
                [db EXCEPT !.validator = @ \cup {calculate_current_epoch(b.number) :
                                                    b \in {b \in batch : b.validators}}]

\* Mutant of StoreBatch: the task waits for another batch after the last one.
StoreBatch_waiting(i) ==
    LET s == syncs[i].store
        refused == s.pc = "vote_result" /\ NumbersOf(s.batch) \cap db.vote_result # {}
    IN  /\ s.pc \in {"meta", "header", "head", "vote_result", "validator"}
        /\ IF refused
           THEN SetStore(i, [pc |-> "failed", batch |-> {}]) /\ UNCHANGED db
           ELSE /\ db' = Statement(s.pc, s.batch)
                /\ SetStore(i, IF s.pc # "validator" THEN [s EXCEPT !.pc = NextStatement(s.pc)]
                               ELSE [pc |-> "recv", batch |-> {}])
        /\ UNCHANGED <<remote, main, live, faults>>

StoreBatch(i) ==
    LET s == syncs[i].store
        refused == s.pc = "vote_result" /\ NumbersOf(s.batch) \cap db.vote_result # {}
    IN  /\ s.pc \in {"meta", "header", "head", "vote_result", "validator"}
        /\ IF refused
           THEN SetStore(i, [pc |-> "failed", batch |-> {}]) /\ UNCHANGED db
           ELSE /\ db' = Statement(s.pc, s.batch)
                /\ SetStore(i, IF s.pc # "validator" THEN [s EXCEPT !.pc = NextStatement(s.pc)]
                               ELSE [pc |-> IF LastOf(s.batch) = syncs[i].last
                                            THEN "done" ELSE "recv",
                                     batch |-> {}])
        /\ UNCHANGED <<remote, main, live, faults>>

-----------------------------------------------------------------------------
\* execute_blocks of call i, and ExecuteBlock::execute_block, which looks at the
\* executed flag before it opens its transaction.

SetExecute(i, e) == syncs' = [syncs EXCEPT ![i].execute = e]

PastCheck(n) ==
    {i \in DOMAIN syncs : syncs[i].execute.number = n /\ syncs[i].execute.pc \in {"read", "commit"}}

Commit(n, base) ==
    db' = [db EXCEPT !.ledger = Append(base, n),
                     !.repeatable = IF n \in DOMAIN db.meta /\ Cardinality(PastCheck(n)) <= 1
                                     THEN @ ELSE @ \cup {n},
                     !.meta = [m \in DOMAIN @ |-> IF m = n THEN TRUE ELSE @[m]]]

NextBlock(e, last) ==
    [e EXCEPT !.number = @ + 1, !.base = << >>, !.pc = IF e.number = last THEN "done" ELSE "load"]

LoadBlock(i) ==
    LET e == syncs[i].execute
    IN  /\ e.pc = "load" /\ e.number \in db.header
        /\ SetExecute(i, [e EXCEPT !.pc = "parent"])
        /\ UNCHANGED <<db, remote, main, live, faults>>

\* Mutant of CheckParent: the parent is not looked at.
CheckParent_none(i) ==
    /\ syncs[i].execute.pc = "parent"
    /\ SetExecute(i, [syncs[i].execute EXCEPT !.pc = "check"])
    /\ UNCHANGED <<db, remote, main, live, faults>>

CheckParent(i) ==
    LET e == syncs[i].execute
    IN  /\ e.pc = "parent"
        /\ SetExecute(i, [e EXCEPT !.pc = IF e.number > 1 /\ ~ is_block_executed(e.number - 1)
                                          THEN "failed" ELSE "check"])
        /\ UNCHANGED <<db, remote, main, live, faults>>

\* Mutant of CheckExecuted: the executed flag is not looked at.
CheckExecuted_none(i) ==
    /\ syncs[i].execute.pc = "check"
    /\ SetExecute(i, [syncs[i].execute EXCEPT !.pc = "read"])
    /\ UNCHANGED <<db, remote, main, live, faults>>

CheckExecuted(i) ==
    LET e == syncs[i].execute
    IN  /\ e.pc = "check"
        /\ SetExecute(i, IF is_block_executed(e.number) THEN NextBlock(e, syncs[i].last)
                         ELSE [e EXCEPT !.pc = "read"])
        /\ UNCHANGED <<db, remote, main, live, faults>>

ReadState(i) ==
    LET e == syncs[i].execute
    IN  /\ e.pc = "read"
        /\ SetExecute(i, [e EXCEPT !.pc = "commit", !.base = db.ledger])
        /\ UNCHANGED <<db, remote, main, live, faults>>

CommitBlock(i) ==
    LET e == syncs[i].execute
    IN  /\ e.pc = "commit"
        /\ Commit(e.number, e.base)
        /\ SetExecute(i, NextBlock(e, syncs[i].last))
        /\ UNCHANGED <<remote, main, live, faults>>

\* A transaction that is not valid, or a commit that fails.
ExecuteFails(i) ==
    LET e == syncs[i].execute
    IN  /\ e.pc \in {"parent", "commit"}
        /\ Fault
        /\ SetExecute(i, [e EXCEPT !.pc = "failed"])
        /\ UNCHANGED <<db, remote, main, live>>

-----------------------------------------------------------------------------
\* finalize_block of a running full node (consensus/src/pending_blocks.rs).

Finalize ==
    /\ main.pc = "live" /\ live.pc = "idle"
    /\ db.head < remote.height
    /\ live' = [NoLive EXCEPT !.pc = "vote_result", !.number = db.head + 1]
    /\ UNCHANGED <<db, remote, main, syncs, faults>>

FinalizeStep ==
    LET n == live.number
        To(pc) == live' = [live EXCEPT !.pc = pc]
    IN  /\ \/ /\ live.pc = "vote_result" /\ To("header")
              /\ db' = [db EXCEPT !.vote_result = @ \cup {n}]
           \/ /\ live.pc = "header" /\ To("head")
              /\ db' = [db EXCEPT !.header = @ \cup {n}]
           \/ /\ live.pc = "head" /\ To("meta")
              /\ db' = IF db.head = n - 1 THEN [db EXCEPT !.head = n] ELSE db
           \/ /\ live.pc = "meta" /\ To("check")
              /\ db' = Statement("meta", {[number |-> n, validators |-> FALSE]})
           \/ /\ live.pc = "check" /\ UNCHANGED db
              /\ live' = IF is_block_executed(n) THEN NoLive
                         ELSE [live EXCEPT !.pc = "commit", !.base = db.ledger]
           \/ live.pc = "commit" /\ Commit(n, live.base) /\ live' = NoLive
    /\ UNCHANGED <<remote, main, syncs, faults>>

-----------------------------------------------------------------------------
Task(i) ==
    \/ ReceiveBatch(i) \/ StoreBatch(i)
    \/ LoadBlock(i) \/ CheckParent(i) \/ CheckExecuted(i) \/ ReadState(i) \/ CommitBlock(i)

Main ==
    \/ sync_node \/ DownloadBatch \/ max_block_height \/ DownloadFinished
    \/ AwaitStore \/ AwaitExecute \/ Join

Next ==
    \/ Main
    \/ \E i \in DOMAIN syncs : Task(i) \/ ExecuteFails(i)
    \/ sync_node_refused \/ get_missing_blocks
    \/ Finalize \/ FinalizeStep
    \/ Crash \/ Restart \/ Grow

Spec == Init /\ [][Next]_vars

\* Every task that can go on does, and so does the process.  Nothing is assumed
\* of faults, of the operator, of the chain and of new blocks.
Syncing(i) == i \in DOMAIN syncs /\ Task(i)

Fairness == WF_vars(Main) /\ \A i \in 1 .. MaxSyncs : WF_vars(Syncing(i))

FairSpec == Spec /\ Fairness

-----------------------------------------------------------------------------
\* Properties.

\* A block that a sync executes has an executed parent (execute_blocks checks it
\* "for safety"), although the search for the first block to execute may answer
\* 1 when block 1 was never executed, and although tasks of earlier calls go on.
ParentFirst ==
    \A i \in DOMAIN syncs :
        (/\ syncs[i].execute.pc = "commit" /\ syncs[i].execute.number > 1
         /\ db'.ledger # db.ledger
         /\ i \in DOMAIN syncs' /\ syncs'[i].execute.pc # "commit")
        => is_block_executed(syncs[i].execute.number - 1)
SyncInOrder == [][ParentFirst]_vars

Times(n) == Cardinality({k \in DOMAIN db.ledger : db.ledger[k] = n})

\* The effect of a block is applied once, whatever was interrupted, except when
\* its row in block_meta_info was missing (store_block writes it last, so a crash
\* can leave the block without it and set_block_executed changes nothing), or
\* when the tasks of two calls of sync_node met at the block (execute_block looks
\* at the flag before its transaction begins).
AppliedOnce == \A n \in Block : Times(n) > 1 => n \in db.repeatable

\* The head has no holes below it: whatever stored it, every block up to the
\* head is there (the next download begins above the head and never looks back).
HeadCovered == \A n \in 1 .. db.head : n \in db.header

\* The tables a start can go on from: block 1 is executed when there is one,
\* every block has its meta row, the blocks up to some number are executed, no
\* vote result is ahead of the head, and the blocks that are not executed are
\* not the last ones of the chain (sync_node then waits for its store task,
\* which waits for a batch that is never sent).
Resumable ==
    LET done == {n \in Block : is_block_executed(n)}
    IN  /\ db.head # NoHead
        /\ DOMAIN db.meta = 1 .. db.head
        /\ \E k \in 0 .. db.head : done = 1 .. k /\ (db.head > 0 => k > 0)
        /\ db.vote_result \subseteq 1 .. db.head
        /\ is_block_executed(db.head) \/ db.head < remote.executed \/ db.head = 0

\* A full node that starts from such tables, and meets no further fault.
CanComplete ==
    ~ Archive /\ MaxBlockHeight = 0 /\ main.pc = "start" /\ Resumable /\ faults = MaxFaults
=============================================================================
