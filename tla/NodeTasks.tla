----------------------------- MODULE NodeTasks ------------------------------
(***************************************************************************)
(* The tasks of a full node and the channels between them (node/src/node.rs, *)
(* p2p/src/network.rs).  A task takes a message from its channel and runs  *)
(* the handler to its end.  All that matters here of a handler are the     *)
(* points where it can wait: it sends to a bounded channel, it waits for   *)
(* the answer of a request it sent, or it answers one.  Which of its       *)
(* branches a handler takes depends on data and is left open.              *)
(***************************************************************************)
EXTENDS Integers, Sequences, FiniteSets

CONSTANTS
    Capacity,    \* of each channel
    BlockSize,   \* transactions of a block that is finalized
    MaxInputs    \* bound: events of the swarm and ticks of monitors

Channel == {"command", "event", "network_receive", "network_client", "mempool", "mempool_res", "timer"}
Monitor == {"health_monitoring", "node_monitoring", "ping_eligible_peers"}
Server == {"event_loop", "event_receiver", "process_mempool", "receive_network", "broadcast_network",
           "mempool_response"}
Task == Server \cup Monitor \cup {"block_production_timer", "rpc"}

VARIABLES
    queue,         \* what is in each channel
    todo,          \* what is left of the handler a task is running
    answered,      \* tasks whose one-shot channel holds the answer
    alive,         \* the event loop has not panicked
    inputs

vars == <<queue, todo, answered, alive, inputs>>

\* The points of a handler.  A request carries the task that waits for the answer.
Send(channel, kind) == [op |-> "send", arg |-> channel, kind |-> kind]
Reply(task) == [op |-> "reply", arg |-> task, kind |-> ""]
Await == [op |-> "await", arg |-> "", kind |-> ""]
Recv(channel) == [op |-> "recv", arg |-> channel, kind |-> ""]
Requests == {"AddTransaction", "AddBlock", "Command"}


\* Events that the consensus task handles alike are one kind.
MayBroadcast == {"NodeInfo", "BlockProposer", "ProcessNodeHealth", "AggregateNodeHealth", "CheckNodeStatus"}
Rebroadcast == {"NodeHealth", "AggregatedNodeHealth", "QueryBlockRequest"}
Local == {"PingResult", "PingEligiblePeers"}

Event(kind) ==
    Send("event", CASE kind \in MayBroadcast -> "MayBroadcast" [] kind \in Rebroadcast -> "Rebroadcast"
                    [] kind \in Local -> "Local" [] OTHER -> kind)
\* What is broadcast makes no difference to the tasks.
Broadcast == Send("network_client", "Broadcast")

\* The channel a task reads.
Inbox(task) ==
    CASE task = "event_loop" -> "command" [] task = "event_receiver" -> "event"
      [] task = "process_mempool" -> "mempool" [] task = "receive_network" -> "network_receive"
      [] task = "broadcast_network" -> "network_client" [] task = "mempool_response" -> "mempool_res"

-----------------------------------------------------------------------------
\* EventLoop::handle_event: the swarm hands over an event.

Gossip == {"NodeInfo", "Transaction", "ValidateBlock", "BlockProposer", "Vote", "VoteResult",
           "NodeHealth", "AggregatedNodeHealth"}
SwarmEvent == Gossip \cup {"Bootstrap", "GetClosestPeers", "QueryBlockRequest",
                           "QueryBlockResponse", "QueryNodeStatus", "NodeStatusResponse", "Other"}

PingPeers == <<Event("PingEligiblePeers")>>

\* A message that cannot be deserialized is dropped, hence << >>.
gossipsub_message(kind) == {<< >>, <<Event(kind)>>}

\* The first block of an epoch lets the node ping its peers.
validate_block_message == gossipsub_message("ValidateBlock") \cup {PingPeers \o <<Event("ValidateBlock")>>}

\* GetClosestPeers: there is no peer, no public address or the dial is refused; or
\* the end of a dial is awaited.
kademlia_progressed(kind) ==
    {<< >>, PingPeers} \cup (IF kind = "GetClosestPeers" THEN {<<Await>> \o PingPeers} ELSE {})

request_response_message(kind) ==
    CASE kind = "QueryBlockRequest" -> {<<Event(kind)>>}
      [] kind = "QueryBlockResponse" -> {<< >>, <<Event(kind)>>}
      [] kind = "NodeStatusResponse" -> {<< >>, <<Event("PingResult")>>}
      [] kind = "QueryNodeStatus" -> {<< >>}

\* Listening, connections and identify.
connection_event == {<< >>}

handle_event(kind) ==
    CASE kind \in Gossip \ {"ValidateBlock"} -> gossipsub_message(kind)
      [] kind = "ValidateBlock" -> validate_block_message
      [] kind \in {"Bootstrap", "GetClosestPeers"} -> kademlia_progressed(kind)
      [] kind = "Other" -> connection_event
      [] OTHER -> request_response_message(kind)

\* EventLoop::handle_command: each command is answered, whether the swarm takes it
\* or not.
publish(from) == {<<Reply(from)>>}
swarm_command(from) == {<<Reply(from)>>}
handle_command(from) == publish(from) \cup swarm_command(from)

\* Client: a command, then its answer.
Request(channel, kind) == <<Send(channel, kind), Await>>
broadcast_network == {Request("command", "Command")}

\* The tasks that start_node_health_monitoring, start_node_monitoring and
\* start_ping_eligible_peers spawn.
monitoring(task) ==
    CASE task = "health_monitoring" ->
            {<<Event("ProcessNodeHealth")>>, <<Event("AggregateNodeHealth")>>,
             <<Event("ProcessNodeHealth"), Event("AggregateNodeHealth")>>}
      [] task = "node_monitoring" -> {<<Event("CheckNodeStatus")>>}
      [] task = "ping_eligible_peers" -> {PingPeers}

-----------------------------------------------------------------------------
\* node.rs

mempool_add_transaction == Request("mempool", "AddTransaction")

event_receiver_process(kind) ==
    IF kind = "Transaction" THEN {mempool_add_transaction} ELSE {<<Send("network_receive", kind)>>}

\* The two forms of the request differ only in when a block is proposed.
block_production_timer == {<<Send("mempool", "ProposeBlock"), Recv("timer")>>}

\* propose_block hands the block to the consensus task and waits for its word.
propose_block == {<< >>, Request("network_receive", "AddBlock")}

process_mempool(kind, from) ==
    CASE kind = "AddTransaction" ->
            {<<Reply(from), Send("mempool_res", "Response")>>,
             <<Broadcast, Reply(from), Send("mempool_res", "Response")>>}
      [] kind = "RemoveTransaction" -> {<< >>}
      [] kind = "ProposeBlock" -> {p \o <<Send("timer", "ProposeBlockStatus")>> : p \in propose_block}

-----------------------------------------------------------------------------
\* The handlers of the consensus task.

\* A block is voted for or finalized; a missing one is asked for at the end.
try_to_finalize ==
    LET vote == {<< >>, <<Broadcast>>}
        remove == {<< >>, [i \in 1 .. BlockSize |-> Send("mempool", "RemoveTransaction")]}
        query == {<< >>, <<Broadcast>>}
    IN  {v \o r \o q : v \in vote, r \in remove, q \in query}

receive_block == {<< >>} \cup
    {[i \in 1 .. BlockSize |-> Send("mempool", "RemoveTransaction")] \o f : f \in {<< >>} \cup try_to_finalize}

receive_validate_block ==
    {<< >>, <<Broadcast>>} \cup {<<Broadcast>> \o f : f \in try_to_finalize}

receive_vote == {<< >>} \cup {<<Broadcast, Broadcast>> \o f : f \in try_to_finalize}

receive_vote_result == try_to_finalize \cup {f \o <<Broadcast>> : f \in try_to_finalize}

\* Mutants of add_and_broadcast_block: the consensus task asks the mempool task
\* before it answers it; a block that is refused is not answered.
add_and_broadcast_block_asking(from) == {Request("mempool", "AddTransaction") \o <<Reply(from)>>}

add_and_broadcast_block_silent(from) ==
    {<< >>, <<Broadcast, Reply(from)>>, <<Broadcast, Broadcast, Reply(from)>>}

\* handle_block_proposer_event_type: the mempool task is told whether it worked.
add_and_broadcast_block(from) ==
    {<<Reply(from)>>, <<Broadcast, Reply(from)>>,
     <<Broadcast, Broadcast, Reply(from)>>}

handle_network_event_type(kind) ==
    CASE kind = "MayBroadcast" -> {<< >>, <<Broadcast>>}
      [] kind = "Rebroadcast" -> {<<Broadcast>>}
      [] kind = "Local" -> {<< >>}
      [] kind = "ValidateBlock" -> receive_validate_block
      [] kind = "Vote" -> receive_vote
      [] kind = "VoteResult" -> receive_vote_result
      [] kind = "QueryBlockResponse" -> receive_block

receive_network(kind, from) ==
    IF kind = "AddBlock" THEN add_and_broadcast_block(from) ELSE handle_network_event_type(kind)

-----------------------------------------------------------------------------
Init ==
    /\ queue = [c \in Channel |-> << >>]
    /\ todo = [t \in Task |-> << >>]
    /\ answered = {}
    /\ alive = TRUE
    /\ inputs = 0

Idle(task) == todo[task] = << >>
Full(channel) == Len(queue[channel]) = Capacity[channel]

\* What the handler of a message may do.
Handler(task, message) ==
    CASE task = "event_loop" -> handle_command(message.from)
      [] task = "event_receiver" -> event_receiver_process(message.kind)
      [] task = "process_mempool" -> process_mempool(message.kind, message.from)
      [] task = "receive_network" -> receive_network(message.kind, message.from)
      [] task = "broadcast_network" -> broadcast_network
      [] task = "mempool_response" -> {<< >>}

\* A task runs until it has to wait: an answer goes out with the step before it.
Run(task, handler) ==
    IF handler # << >> /\ Head(handler).op = "reply"
    THEN /\ todo' = [todo EXCEPT ![task] = Tail(handler)]
         /\ answered' = (answered \ {task}) \cup {Head(handler).arg}
    ELSE /\ todo' = [todo EXCEPT ![task] = handler]
         /\ answered' = answered \ {task}

Receive(task) ==
    /\ Idle(task)
    /\ task = "event_loop" => alive
    /\ queue[Inbox(task)] # << >>
    /\ \E handler \in Handler(task, Head(queue[Inbox(task)])) : Run(task, handler)
    /\ queue' = [queue EXCEPT ![Inbox(task)] = Tail(@)]
    /\ UNCHANGED <<alive, inputs>>

\* Work that comes from outside.
Input == inputs < MaxInputs /\ inputs' = inputs + 1

Start(task, handlers) ==
    /\ Idle(task)
    /\ Input
    /\ \E handler \in handlers : Run(task, handler)
    /\ UNCHANGED <<queue, alive>>

Swarm == alive /\ \E kind \in SwarmEvent : Start("event_loop", handle_event(kind))
Monitoring == \E task \in Monitor : Start(task, monitoring(task))

\* The timer fires for ever, and calls of the servers keep coming.
Again(task, handlers) ==
    /\ Idle(task)
    /\ \E handler \in handlers : Run(task, handler)
    /\ UNCHANGED <<queue, alive, inputs>>

Tick == Again("block_production_timer", block_production_timer)
Rpc == Again("rpc", {mempool_add_transaction})

-----------------------------------------------------------------------------
\* A task goes on with its handler.

At(task, op) == ~ Idle(task) /\ Head(todo[task]).op = op

DoSend(task) ==
    LET channel == Head(todo[task]).arg
        message == [kind |-> Head(todo[task]).kind,
                    from |-> IF Head(todo[task]).kind \in Requests THEN task ELSE ""]
    IN  /\ At(task, "send")
        /\ alive \/ channel # "command"
        /\ ~ Full(channel)
        /\ queue' = [queue EXCEPT ![channel] = Append(@, message)]
        /\ Run(task, Tail(todo[task]))
        /\ UNCHANGED <<alive, inputs>>

DoAwait(task) ==
    /\ At(task, "await")
    /\ task \in answered
    /\ Run(task, Tail(todo[task]))
    /\ UNCHANGED <<queue, alive, inputs>>

DoRecv(task) ==
    LET channel == Head(todo[task]).arg
    IN  /\ At(task, "recv")
        /\ queue[channel] # << >>
        /\ queue' = [queue EXCEPT ![channel] = Tail(@)]
        /\ Run(task, Tail(todo[task]))
        /\ UNCHANGED <<alive, inputs>>

\* todo!("Already dialing peer."), for the second address of a peer, ends the
\* event loop: its channel is closed and the requests in it are answered so.
DialAgain ==
    /\ alive /\ Idle("event_loop")
    /\ Input
    /\ alive' = FALSE
    /\ answered' = answered \cup {queue["command"][i].from : i \in DOMAIN queue["command"]}
    /\ queue' = [queue EXCEPT !["command"] = << >>]
    /\ UNCHANGED todo

\* A request to the event loop that is gone fails at once.
SendFails(task) ==
    /\ At(task, "send") /\ Head(todo[task]).arg = "command"
    /\ ~ alive
    /\ Run(task, Tail(Tail(todo[task])))
    /\ UNCHANGED <<queue, alive, inputs>>

Step(task) == DoSend(task) \/ DoAwait(task) \/ DoRecv(task) \/ SendFails(task)

Next ==
    \/ Swarm \/ DialAgain \/ Monitoring \/ Rpc \/ Tick
    \/ \E task \in Server : Receive(task)
    \/ \E task \in Task : Step(task)

Spec == Init /\ [][Next]_vars

\* The runtime polls every task that can go on; nothing is assumed of inputs.
Proceed(task) == Step(task) \/ (task \in Server /\ Receive(task))

Fairness ==
    /\ WF_vars(Tick)
    /\ \A task \in Task : WF_vars(Proceed(task))

FairSpec == Spec /\ Fairness

-----------------------------------------------------------------------------
\* Properties.

Ready(task) ==
    \/ Idle(task) /\ task \in Server /\ queue[Inbox(task)] # << >> /\ (task = "event_loop" => alive)
    \/ /\ ~ Idle(task)
       /\ LET step == Head(todo[task])
          IN  CASE step.op = "send" -> ~ Full(step.arg) \/ (~ alive /\ step.arg = "command")
                [] step.op = "await" -> task \in answered
                [] step.op = "recv" -> queue[step.arg] # << >>
                [] OTHER -> TRUE

\* A task waits for room in a channel.
Backpressure ==
    \E task \in Task : ~ Idle(task) /\ ~ Ready(task) /\ Head(todo[task]).op = "send"

\* The event loop waits for the end of a dial, which only the event loop sees.
SelfWait == ~ Idle("event_loop") /\ Head(todo["event_loop"]).op = "await"

\* The tasks wait for each other in a circle only through a full channel or when
\* the event loop waits for its own dial: answers alone never make a circle.
CircleNeedsFullChannel ==
    (\E task \in Task : ~ Idle(task)) /\ (\A task \in Task : ~ Ready(task)) => Backpressure \/ SelfWait

\* As long as no channel is full and the event loop does not wait for its own
\* dial, every task comes back from every handler: requests are answered and
\* blocks are proposed for ever.
HandlersEnd ==
    [](~ Backpressure /\ ~ SelfWait) => \A task \in Task : []<>Idle(task)
=============================================================================
