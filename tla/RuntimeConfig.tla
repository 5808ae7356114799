---------------------------- MODULE RuntimeConfig ----------------------------
(***************************************************************************)
(* The caches of what the system contracts hold: the runtime config, the   *)
(* deny list and the staking pools (runtime_config/src).  Nodes execute    *)
(* one chain of blocks.  A block that writes to a system contract makes    *)
(* the node read it again before the block is committed, and a node that   *)
(* starts reads all three.  What a contract holds is a value that its      *)
(* cache accepts, or one it does not (Invalid).                            *)
(***************************************************************************)
EXTENDS Integers, Sequences, FiniteSets

CONSTANTS
    Replicas,     \* nodes
    Chains,       \* sequences of blocks: what each writes, and whether it is a system block
    Invalid,      \* contents that RuntimeConfigCache::refresh and the others refuse
    Unset,        \* an empty cache, or a contract that is not written
    MaxFaults     \* bound: failed reads, failed commits and restarts

VARIABLES
    chain,     \* the blocks all nodes execute
    height,    \* per node: the blocks it has executed
    cache,     \* per node: CACHED_CONFIG of the two modules, CACHED_STAKING_INFO
    starting,  \* per node: it synchronises and will initialize its caches again
    errors,    \* per node: since it was started a read failed, or an error was only logged
    attempt,   \* per node: "none", or how the last attempt at the next block ended
    faults

configVars == <<chain, height, cache, starting, errors, attempt, faults>>

Caches == {"config", "deny", "staking"}
NoCache == [c \in Caches |-> Unset]

-----------------------------------------------------------------------------
\* What the contracts hold after h blocks.  The config contract also keeps the
\* config before the one it was last given.
Writes(c, h) == {n \in 1 .. h : chain[n][c] # Unset}
Latest(numbers) == CHOOSE n \in numbers : \A m \in numbers : m <= n
Content(c, h) == IF Writes(c, h) = {} THEN Unset ELSE chain[Latest(Writes(c, h))][c]
PrevConfig(h) ==
    IF Writes("config", h) = {} THEN Unset
    ELSE Content("config", Latest(Writes("config", h)) - 1)

IsValid(value) == value # Unset /\ value # Invalid

-----------------------------------------------------------------------------
\* The three reads.  lost are the reads that fail; so does the read of a
\* contract that does not exist.  A result is the error and the caches after it.
Read(c, h, lost) == IF c \in lost THEN Unset ELSE Content(c, h)
Ok(caches) == [ok |-> TRUE, cache |-> caches]
Err(caches) == [ok |-> FALSE, cache |-> caches]

refresh_without_prev(caches, h, lost) ==
    LET config == Read("config", h, lost)
    IN  IF IsValid(config) THEN Ok([caches EXCEPT !.config = config])
        ELSE IF config # Unset /\ caches.config # Unset THEN Ok(caches)
        ELSE Err(caches)
refresh_system_runtime_config(caches, h, lost) ==
    LET config == Read("config", h, lost)
    IN  IF config = Unset THEN Err(caches)
        ELSE IF IsValid(config) THEN Ok([caches EXCEPT !.config = config])
        ELSE IF caches.config # Unset THEN Ok(caches)
        ELSE IF IsValid(PrevConfig(h)) THEN Ok([caches EXCEPT !.config = PrevConfig(h)])
        ELSE Err(caches)

refresh_system_runtime_deny_config(caches, h, lost) ==
    LET deny == Read("deny", h, lost)
    IN  IF IsValid(deny) THEN Ok([caches EXCEPT !.deny = deny])
        ELSE IF deny # Unset /\ caches.deny # Unset THEN Ok(caches)
        ELSE Err(caches)

refresh_system_staking_config(caches, h, lost) ==
    LET staking == Read("staking", h, lost)
    IN  IF IsValid(staking) THEN Ok([caches EXCEPT !.staking = staking]) ELSE Err(caches)

\* The caches of the contracts that the block wrote to, up to the first error.
apply_first_change(caches, h, lost) ==
    LET wrote(c) == chain[h][c] # Unset
    IN  IF wrote("config") THEN refresh_system_runtime_config(caches, h, lost)
        ELSE IF wrote("deny") THEN refresh_system_runtime_deny_config(caches, h, lost)
        ELSE IF wrote("staking") THEN refresh_system_staking_config(caches, h, lost)
        ELSE Ok(caches)
apply_system_contracts_changes(caches, h, lost) ==
    LET wrote(c) == chain[h][c] # Unset
        r1 == IF wrote("config") THEN refresh_system_runtime_config(caches, h, lost) ELSE Ok(caches)
        r2 == IF r1.ok /\ wrote("deny") THEN refresh_system_runtime_deny_config(r1.cache, h, lost)
              ELSE r1
    IN  IF r2.ok /\ wrote("staking") THEN refresh_system_staking_config(r2.cache, h, lost) ELSE r2

\* A node that starts reads all three and ignores the errors.
try_initialize_runtime_configs(caches, h, lost) ==
    LET r1 == refresh_system_runtime_config(caches, h, lost)
        r2 == refresh_system_staking_config(r1.cache, h, lost)
    IN  refresh_system_runtime_deny_config(r2.cache, h, lost).cache

-----------------------------------------------------------------------------
ConfigInit ==
    /\ chain \in Chains
    /\ height = [n \in Replicas |-> 0]
    /\ cache = [n \in Replicas |-> NoCache]
    /\ starting = [n \in Replicas |-> FALSE]
    /\ errors = [n \in Replicas |-> FALSE]
    /\ attempt = [n \in Replicas |-> "none"]
    /\ faults = 0

\* The reads that fail, at the price of a fault each.
Lost(lost) == faults + Cardinality(lost) <= MaxFaults /\ faults' = faults + Cardinality(lost)

\* execute_block_inner only logs an error of the refresh, execute_system_block_inner
\* returns it; the caches keep what was refreshed before it.
Execute(n, lost) ==
    /\ height[n] < Len(chain)
    /\ LET h == height[n] + 1
           refreshed == apply_system_contracts_changes(cache[n], h, lost)
           refused == chain[h].system /\ ~ refreshed.ok
       IN  /\ cache' = [cache EXCEPT ![n] = refreshed.cache]
           /\ errors' = [errors EXCEPT ![n] = @ \/ lost # {} \/ (~ refreshed.ok /\ ~ refused)]
           /\ height' = [height EXCEPT ![n] = IF refused THEN @ ELSE h]
           /\ attempt' = [attempt EXCEPT ![n] = IF ~ refused THEN "none"
                                                ELSE IF lost = {} THEN "refused" ELSE "failed"]
    /\ Lost(lost)
    /\ UNCHANGED <<chain, starting>>

\* The database fails in the commit.
CommitFails(n) ==
    /\ height[n] < Len(chain)
    /\ LET h == height[n] + 1
           refreshed == apply_system_contracts_changes(cache[n], h, {})
       IN  /\ ~ chain[h].system \/ refreshed.ok
           /\ cache' = [cache EXCEPT ![n] = refreshed.cache]
           /\ errors' = [errors EXCEPT ![n] = @ \/ ~ refreshed.ok]
           /\ attempt' = [attempt EXCEPT ![n] = "failed"]
    /\ faults < MaxFaults /\ faults' = faults + 1
    /\ UNCHANGED <<chain, height, starting>>

\* The node stops and starts again: attempt 1 of the initialisation.
RestartNode(n, lost) ==
    /\ cache' = [cache EXCEPT ![n] = try_initialize_runtime_configs(NoCache, height[n], lost)]
    /\ starting' = [starting EXCEPT ![n] = TRUE]
    /\ errors' = [errors EXCEPT ![n] = lost # {}]
    /\ attempt' = [attempt EXCEPT ![n] = "none"]
    /\ faults + Cardinality(lost) < MaxFaults
    /\ faults' = faults + 1 + Cardinality(lost)
    /\ UNCHANGED <<chain, height>>

\* After the synchronisation: attempt 2.
Initialize(n, lost) ==
    /\ starting[n]
    /\ cache' = [cache EXCEPT ![n] = try_initialize_runtime_configs(@, height[n], lost)]
    /\ starting' = [starting EXCEPT ![n] = FALSE]
    /\ errors' = [errors EXCEPT ![n] = @ \/ lost # {}]
    /\ Lost(lost)
    /\ UNCHANGED <<chain, height, attempt>>

ConfigNext ==
    \E n \in Replicas :
        \/ CommitFails(n)
        \/ \E lost \in SUBSET Caches : Execute(n, lost) \/ RestartNode(n, lost) \/ Initialize(n, lost)

ConfigSpec == ConfigInit /\ [][ConfigNext]_configVars

-----------------------------------------------------------------------------
\* The last value of the first h blocks that the cache accepts.
LastValid(c, h) ==
    LET valid == {n \in Writes(c, h) : IsValid(chain[n][c])}
    IN  IF valid = {} THEN Unset ELSE chain[Latest(valid)][c]

\* A restart cannot find a valid value: the contract holds none.
Unreadable(c, h) ==
    ~ IsValid(Content(c, h)) /\ (c = "config" => ~ IsValid(PrevConfig(h)))

\* As long as no read failed and no error was passed over since a node was started,
\* each of its caches is the last valid value of the blocks it executed, or of one
\* block more while the last attempt at that block was rolled back, or empty
\* because the node was started when the contract held no valid value.
CachesAreCurrent ==
    \A n \in Replicas : ~ errors[n] =>
        \A c \in Caches :
            \/ cache[n][c] = LastValid(c, height[n])
            \/ attempt[n] # "none" /\ cache[n][c] = LastValid(c, height[n] + 1)
            \/ cache[n][c] = Unset /\ Unreadable(c, height[n])

\* A node whose reads did not fail refuses a system block that another node
\* executed only when a restart emptied its cache of a contract that then held
\* no valid value.
RefusalNeedsLoss ==
    \A n, m \in Replicas :
        attempt[n] = "refused" /\ ~ errors[n] /\ height[m] > height[n] =>
            \E c \in Caches : cache[n][c] = Unset /\ Unreadable(c, height[n])
=============================================================================
