----------------------------- MODULE MCContracts -----------------------------
(***************************************************************************)
(* The machines that run contracts and the tables of a node, each in a     *)
(* world of its own: the EVM interpreter (Evm), the calls between          *)
(* contracts of all kinds (ContractCalls), the eBPF machine (Rbpf), the    *)
(* arithmetic of both (EvmArith on words of six bits, RbpfArith on words   *)
(* of eight), where a state is a pair of words, and the tables (the        *)
(* modules that extend Store), on which a behaviour makes any sequence of  *)
(* calls.  The worlds of the machines but Rbpf share one .. four.          *)
(***************************************************************************)
EXTENDS EvmOpcodes, Rbpf, TLC
LOCAL INSTANCE SequencesExt

CONSTANTS NULL, a1, a2, p1, latest

VARIABLES world, one, two, three, four, db, result, call, job

machine == <<one, two, three, four>>
tableVars == <<db, result, call, job>>

-----------------------------------------------------------------------------
(* EVM: programs of a few instructions for the contracts 11 and 12.         *)
P(n) == <<Op.PUSH1, n>>
Push(words) == FoldLeft(LAMBDA s, n : s \o P(n), <<>>, words)
store(k, x) == Push(<<x, k>>) \o <<Op.SSTORE>>
create(x, len) == Push(<<len, 0, x>>) \o <<Op.CREATE>>
exit(o, n) == Push(<<n, 0>>) \o <<o>>

\* A call with an input and an output range, and one without.
calling(o, to, x) == P(0) \o P(0) \o P(0) \o P(0)
                  \o (IF o \in {Op.CALL, Op.CALLCODE} THEN P(x) ELSE <<>>) \o P(to) \o <<Op.GAS, o>>
copying(to) == Push(<<32, 64, 4, 0, 0, to>>) \o <<Op.GAS, Op.CALL>>

CallsOf(to) == {calling(Op.CALL, to, 0), calling(Op.CALL, to, 3), calling(Op.CALLCODE, to, 2),
                calling(Op.DELEGATECALL, to, 0), calling(Op.STATICCALL, to, 0)}
Effects == {store(1, 1), Push(<<0, 0>>) \o <<Op.LOG0>>, Push(<<1, 32>>) \o <<Op.MSTORE>>,
            P(10) \o <<Op.SUICIDE>>, create(1, 2), create(1, 5), create(1, 6)}
Ends == {<<>>, exit(Op.RETURN, 3), exit(Op.REVERT, 3), <<Op.INVALID>>}

\* Two contracts that call each other.
Pairs == {11 :> c \o store(1, 0) @@ 12 :> d \o x :
            c \in CallsOf(12), d \in Effects \cup CallsOf(11) \cup {copying(4), copying(2)}, x \in Ends}
\* Every instruction on a stack of small words.
Singles == {11 :> Push(<<1, 2, 0, 1, 1, 12, 1>>) \o <<o>> : o \in 0 .. 255}
\* Short programs of jumps, some into the data of a push, some that loop.
JumpPrograms == {11 :> p : p \in [1 .. 5 -> {Op.PUSH1, 4, Op.JUMP, Op.JUMPDEST}]
                           \cup [1 .. 4 -> {Op.PUSH1, 0, Op.JUMP, Op.JUMPI, Op.JUMPDEST}]}

Call(g) == [kind |-> "Call", caller |-> 10, address |-> 11, value |-> 1, data |-> 4, code |-> <<>>,
            gas_limit |-> g, gas_price |-> 2]
Create(c) == [Call(100000) EXCEPT !.kind = "Create", !.code = c]
MCTransactions == {Call(g) : g \in {20000, 21400, 50000, 120000}} \cup
                  {Create(c) : c \in {store(1, 1) \o exit(Op.RETURN, n) : n \in {0, 3, 5}}
                                      \cup {exit(Op.REVERT, 0)}} \cup
                  {[Call(50000) EXCEPT !.caller = 12]}

E == INSTANCE Evm WITH calls <- one, layers <- two, tx <- three,
       U64Max <- 1048575, StackLimit <- 8, CallStackLimit <- 3, CreateContractLimit <- 4,
       MaxInitcodeSize <- 5, ByteBits <- 8, Bytes <- 3,
       Transactions <- MCTransactions, Accounts <- Pairs \cup Singles \cup JumpPrograms,
       Funds <- 10 :> 900000 @@ 11 :> 5 @@ 12 :> 4,
       AnyWord <- {0, 11}, BuiltCode <- {exit(Op.RETURN, 3), <<Op.STOP, 1, 2>>, <<Op.EOFMAGIC, 0, 0>>},
       ModexpLengths <- {0, 1}, Blake2Rounds <- {5}

\* Jumping programs meet the small transactions, the others the large ones.
SmallTransaction == three.args.kind = "Create" \/ three.args.caller = 12 \/ three.args.gas_limit < 50000
EvmInit ==
    /\ E!Init
    /\ SmallTransaction <=> two[1].code \in JumpPrograms
    /\ SmallTransaction /\ three.args.gas_limit # 21400 => two[1].code[11] = <<91, 91, 91, 91>>
    /\ four = 0

-----------------------------------------------------------------------------
(* Calls: one contract of each kind, a user, a precompiled contract.        *)
C == INSTANCE ContractCalls WITH state <- one, frames <- two, outcome <- three, steps <- four,
       User <- "u", Nobody <- "z", Contracts <- [a |-> "l1xvm", b |-> "evm", x |-> "xtalk"],
       Precompile <- "p", Created <- [u |-> <<"n">>, b |-> <<"m">>], Amounts <- {1}, Funds <- 1,
       GasLimits <- {3, 6}, HostFee <- 1, MaxDepth <- 1, MaxSteps <- 4

-----------------------------------------------------------------------------
(* eBPF: all texts of up to four of nine instructions, longer ones with the *)
(* other instructions, and one text with all kinds of relocations.          *)
End == Insn("exit", 0, 0, 0, 0)
Lddw(dst) == <<Insn("lddw", dst, 0, 0, 0), Insn("pad", 0, 0, 0, 0)>>
CallTo(imm) == Insn("call", 0, 1, 0, imm)

Common == Range(Lddw(6)) \cup
    {Insn("alu", 6, 0, 0, 0), Insn("jcond", 0, 0, 1, 0), Insn("jcond", 0, 0, -2, 0),
     Insn("ja", 0, 0, 0, 0), CallTo(-1), CallTo(1), End}
OtherInsns ==
    {Insn("ld", 0, 0, 0, 0), Insn("ldx", 6, 10, 0, 0), Insn("st", 10, 0, 0, 0), Insn("stx", 1, 11, 0, 0),
     Insn("end", 0, 0, 0, 32), Insn("end", 0, 0, 0, 8), Insn("xadd", 0, 0, 0, 0),
     Insn("unknown", 0, 0, 0, 0), Insn("jcond32", 0, 0, 0, 0), Insn("div32_reg", 0, 0, 0, 0),
     Insn("checked64", 10, 0, 0, 0), Insn("checked64", 0, 0, 0, 0), Insn("tail_call", 0, 0, 0, 0),
     Insn("lddw", 10, 0, 0, 0)}
Texts == UNION {[1 .. n -> Common] : n \in 1 .. 4} \cup [1 .. 2 -> Common \cup OtherInsns]
    \cup {<<a, b, End>> : a \in Common \cup OtherInsns, b \in Common \cup OtherInsns}
    \cup {<<CallTo(-1)>> \o Lddw(10) \o <<End>>, <<Insn("st", 10, 0, 0, 0), CallTo(-2), End>>}

Version(o, r) == [object |-> o, runtime |-> r]
Plain(text) ==
    [text |-> text, relocs |-> <<>>, sections |-> {"data", "_version"}, version |-> Version(1, 1),
     memory |-> {}, functions |-> [main |-> 1]]
Reloc(type, at, symbol, value) == [type |-> type, at |-> at, symbol |-> symbol, value |-> value]
Base == Plain(Lddw(1) \o <<CallTo(-1), End, CallTo(-1), Insn("ja", 0, 0, -2, 0)>>)
CallRelocs ==
    {Reloc("64_32", 3, s, 0) :
       s \in {"env_msg", "env_transfer_from_caller", "syscall_memory_op64", "unknown"}}
    \cup {Reloc("64_32", 3, "function", n) : n \in {1, 2, 5, 9}}
DataRelocs ==
    {Reloc(t, 1, s, 0) : t \in {"64_64", "abs64"}, s \in {"data", "unknown", "long"}}
    \cup {Reloc("relative", 1, "data", 0)}
Linked ==
    {[Base EXCEPT !.relocs = r, !.version = n, !.memory = m, !.functions = f] :
       r \in {<<>>} \cup {<<d, c, Reloc("64_32", 5, "syscall_memory_op64", 0)>> :
                            d \in DataRelocs, c \in CallRelocs},
       n \in {Version(1, 1), Version(1, 2)},
       m \in {{}, {[min |-> 1, max |-> 0]}, {[min |-> 3, max |-> 1]}, {[min |-> 1, max |-> 2]}},
       f \in {[main |-> 1], [main |-> 5, other |-> 3]}}
    \cup {[Base EXCEPT !.version = n] : n \in {Version(2, 1), Version(1, 3), Version(1, 0)}}
    \cup {[Base EXCEPT !.sections = {}]}
MCObjects == {Plain(t) : t \in Texts} \cup Linked

MCHash == [env_msg |-> 40, env_transfer_from_caller |-> 41, syscall_memory_op64 |-> 42]

-----------------------------------------------------------------------------
(* Arithmetic.                                                              *)
A256 == INSTANCE EvmArith WITH ByteBits <- 2, Bytes <- 3
A64 == INSTANCE RbpfArith WITH Bits <- 4, OverflowChecks <- FALSE
\* The words whose halves are next to where a carry or a sign changes.
EdgeWords == {w \in A64!Word : w % 16 \in {0, 1, 7, 8, 15}}

-----------------------------------------------------------------------------
(* The tables.                                                              *)
Tables == INSTANCE Store
Accounts == INSTANCE AccountStore
    WITH Address <- {a1, a2}, Balance <- 0 .. 2, MaxNonce <- 1
Contracts == INSTANCE ContractStore
    WITH Address <- {a1, a2}, Code <- {"old", "new"}, MaxListed <- 2
Instances == INSTANCE ContractInstanceStore
    WITH Address <- {a1, a2}, Key <- {"k", "l"}, Val <- {"v", "w"}, Owner <- {a1, a2},
         CodeOf <- [a \in {a1, a2} |-> a], DevMode <- FALSE
Staking == INSTANCE StakingStore
    WITH Pool <- {p1}, User <- {a1, a2}, Owner <- a1, Limits <- {{}, {1}}, MaxBlock <- 1,
         MaxBalance <- 2
Events == INSTANCE EventStore
    WITH Tx <- {"t"}, Address <- {a1, a2}, Topic <- {"x", "y"}, Block <- {1, 2}, Latest <- latest,
         Time <- {1, 2}, MaxEvents <- 2
Proposers == INSTANCE BlockProposerStore
    WITH Cluster <- {"c", "d"}, Epoch <- {1, 2}, Address <- {a1, a2}, MaxRows <- 2
Validators == INSTANCE ValidatorStore
    WITH Address <- {a1, a2}, Epoch <- {1, 2}, Stake <- {1, 2}, Xscore <- {0, 1}, MaxBatch <- 2
Healths == INSTANCE NodeHealthStore
    WITH Peer <- {a1, a2}, Epoch <- {1, 2}, Report <- {"up", "down"}, MaxRows <- 3
Nodes == INSTANCE NodeInfoStore
    WITH Address <- {a1, a2}, Cluster <- {"c"}, Peer <- {"p"}, Joined <- {1}
Votes == INSTANCE VoteStore
    WITH Hash <- {"h"}, Validator <- {a1, a2}
Clusters == INSTANCE ClusterStore
    WITH Address <- {a1, a2}, MaxListed <- 3
Blocks == INSTANCE BlockStore
    WITH Txs <- <<<<"t", "u">>, <<"u">>>>,
         Sender <- [tx \in {"t", "u"} |-> IF tx = "t" THEN a1 ELSE a2],
         Batches <- {<< >>, <<1, 2>>}, OverflowChecks <- FALSE

-----------------------------------------------------------------------------
TablesInit ==
    \/ /\ job = Blocks!NoJob
       /\ \/ world = "account" /\ Accounts!Init
          \/ world = "contract" /\ Contracts!Init
          \/ world = "instance" /\ Instances!Init
          \/ world = "staking" /\ Staking!Init
          \/ world = "manager" /\ Staking!ManagerInit
          \/ world = "event" /\ Events!Init
          \/ world = "proposer" /\ Proposers!Init
          \/ world = "validator" /\ Validators!Init
          \/ world = "health" /\ Healths!Init
          \/ world = "node" /\ Nodes!Init
          \/ world = "vote" /\ Votes!Init
          \/ world = "cluster" /\ Clusters!Init
    \/ world = "block" /\ Blocks!Init
    \/ world = "storing" /\ Blocks!NodeInit

WorldsInit ==
    /\ \/ /\ \/ world = "evm" /\ EvmInit
             \/ world = "calls" /\ C!Init
             \/ world = "ebpf" /\ one = 0 /\ two = 0 /\ three = 0 /\ four = 0
             \/ world = "evm_words" /\ one \in A256!U256 /\ two \in A256!U256 /\ three = 0 /\ four = 0
             \/ world = "ebpf_words" /\ one \in A64!Word /\ two \in EdgeWords /\ three = 0 /\ four = 0
          /\ Tables!Empty([b \in Tables!Backends |-> Tables!NoRows]) /\ job = Blocks!NoJob
       \/ TablesInit /\ one = 0 /\ two = 0 /\ three = 0 /\ four = 0
    /\ Init

TablesNext ==
    \/ /\ UNCHANGED job
       /\ \/ world = "account" /\ Accounts!Next
          \/ world = "contract" /\ Contracts!Next
          \/ world = "instance" /\ Instances!Next
          \/ world = "staking" /\ Staking!Next
          \/ world = "manager" /\ Staking!ManagerNext
          \/ world = "event" /\ Events!Next
          \/ world = "proposer" /\ Proposers!Next
          \/ world = "validator" /\ Validators!Next
          \/ world = "health" /\ Healths!Next
          \/ world = "node" /\ Nodes!Next
          \/ world = "vote" /\ Votes!Next
          \/ world = "cluster" /\ Clusters!Next
    \/ world = "block" /\ Blocks!Next
    \/ world = "storing" /\ Blocks!NodeNext

WorldsNext ==
    /\ \/ world = "evm" /\ E!Next /\ UNCHANGED <<four, vars, tableVars>>
       \/ world = "calls" /\ C!Next /\ UNCHANGED <<vars, tableVars>>
       \/ world = "ebpf" /\ Next /\ UNCHANGED <<machine, tableVars>>
       \/ TablesNext /\ UNCHANGED <<machine, vars>>
    /\ UNCHANGED world

\* Every call on a table is a step; the name of the operation is compared first.
allVars == <<call.op, world, machine, vars, tableVars>>

WorldsSpec == WorldsInit /\ [][WorldsNext]_allVars

\* Neither the last call on a table nor its answers decide what happens next.
View == <<world, machine, vars, db, job>>

-----------------------------------------------------------------------------
(* The drivers of a table are compared from equal tables.                   *)
StateWorlds == {"account", "contract", "instance", "staking", "event"}
ConsensusWorlds == {"proposer", "validator", "health", "vote", "cluster"}

Contents(b) ==
    CASE world = "account" -> Accounts!Contents(b)
      [] world = "contract" -> Contracts!Contents(b)
      [] world = "instance" -> Instances!Contents(b)
      [] world = "staking" -> Staking!Contents(b)
      [] world = "event" -> Events!Contents(b)
      [] world = "proposer" -> Proposers!Contents(b)
      [] world = "validator" -> Validators!Contents(b)
      [] world = "health" -> Healths!Contents(b)
      [] world = "vote" -> Votes!Contents(b)
      [] world = "cluster" -> Clusters!Contents(b)
      [] world = "block" -> Blocks!Contents(b)

Compared ==
    CASE world \in {"account", "contract", "instance", "proposer", "health", "cluster",
                   "block"} -> Tables!Backends
      [] OTHER -> {"pg", "cas"}

Differs(op, arg) ==
    LET t == Contents("pg") IN
    CASE world = "account" -> Accounts!Differs(t, op, arg)
      [] world = "contract" -> Contracts!Differs(t, op, arg)
      [] world = "instance" -> Instances!Differs(t, op, arg)
      [] world = "staking" -> Staking!Differs(t, op, arg)
      [] world = "event" -> Events!Differs(t, op, arg)
      [] world = "proposer" -> Proposers!Differs(t, op, arg)
      [] world = "validator" -> Validators!Differs(t, op, arg)
      [] world = "health" -> Healths!Differs(t, op, arg)
      [] world = "vote" -> Votes!Differs(t, op, arg)
      [] world = "cluster" -> Clusters!Differs(t, op, arg)
      [] world = "block" -> Blocks!Differs(t, op, arg)

Agreed == Tables!Agree(Compared, [b \in Compared |-> Contents(b)])

\* Calls are compared from equal tables; the tables of node information and of
\* the staking manager are not compared.
EqualTables ==
    /\ world \in StateWorlds \cup ConsensusWorlds \cup {"block"} => Agreed
    /\ world = "block" => Blocks!OneRow
    /\ world = "storing" => Blocks!Listed

\* The drivers that implement a call leave equal tables and give one answer,
\* unless the call is one for which they are known to differ.
SameCall ==
    LET B == {b \in Compared : Tables!Implements(result'[b])}
        same == Tables!Agree(B, [b \in Compared |-> Contents(b)]') /\ Tables!Agree(B, result')
    IN same <=> ~Differs(call'.op, call'.arg)

-----------------------------------------------------------------------------
\* No EVM meter is overdrawn, and a caller has paid at least what its callee may
\* give back (merge, gas64).
MetersCovered == world = "evm" => E!MetersCovered

\* Below a static EVM frame nothing but access marks changes, however the calls
\* are made (extra_check and the static checks).
StaticIsPure == world = "evm" => E!StaticIsPure

\* Balances and the held fee of an EVM transaction add up to what there was
\* before, unless a contract is its own heir (invoker, coinbase_reward).
ValueConserved == world = "evm" => E!ValueConserved

\* A contract that fails leaves the state of its caller as it was when the call
\* began (merge only on success).
FailedCallLeavesNothing == [][world = "calls" => C!FailedCallLeavesNothing]_<<world, machine>>

\* However contracts call each other, no frame makes or destroys tokens, no event is
\* lost or doubled although a merge replaces the whole list, a read-only contract and
\* what it calls change nothing unless a static EVM contract delegates, and a contract
\* reports no more gas than it was given (transfer, create_event, write_perm,
\* record_gas64).
CallsAreSound == world = "calls" => C!CallsAreSound

\* The signed operations of the EVM on sign and magnitude are two's complement
\* arithmetic, EXP, SIGNEXTEND, BYTE and shifts agree with their definitions, the
\* 32-bit operations of eBPF are the 64-bit ones on the low half, and so are those of
\* its math system call (I256, eval/arithmetic.rs, execute_program, syscall_math).
ArithmeticAgrees ==
    /\ world = "evm_words" => A256!SignedArithmetic(one, two) /\ A256!BitArithmetic(one, two)
    /\ world = "ebpf_words" => A64!HalvesAgree(one, two) /\ A64!MathAgrees(one, two)

\* From equal tables the drivers of Postgres, Cassandra and RocksDB that implement a
\* call leave equal tables and give one answer, but for exactly the calls that Differs
\* of each module names (state_pg.rs, state_cas.rs and state_rock.rs of each crate).
DriversAgree ==
    [][(world \in StateWorlds \cup ConsensusWorlds \cup {"block"} /\ Agreed) => SameCall]_allVars

\* Wherever a node stops while it stores blocks, a block that can be read has all its
\* transactions and the head is stored (store_block of block/src/state_pg.rs); and what
\* validate_stake and validate_unstake accept is carried out to the last write without
\* making tokens (staking_manager.rs).
TablesStaySound ==
    /\ world = "storing" => Blocks!ReadBlockIsWhole /\ Blocks!HeadIsStored
    /\ world = "manager" => Staking!ValidStakingSucceeds /\ Staking!HoldingsConserved
=============================================================================
