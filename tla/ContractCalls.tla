---------------------------- MODULE ContractCalls ----------------------------
(* One transaction, or one read-only query, that runs a contract, and the    *)
(* contracts it calls in turn. Every contract runs on a copy of the state of *)
(* its caller; the copy is merged back when the contract returns. A program  *)
(* is not given: at every moment the contract on top may make any host call. *)
EXTENDS Integers, Sequences, FiniteSets, Functions

CONSTANTS
    User,            \* the account that sends the transaction
    Nobody,          \* the zero address a query is made from
    Contracts,       \* what is deployed: [address -> "l1xvm", "evm" or "xtalk"]
    Precompile,      \* one of the addresses 1 to 9
    Created,         \* [address -> sequence of the addresses it creates, by nonce]
    Amounts,         \* what can be transferred
    Funds,           \* the balance every account starts with
    GasLimits,       \* the limits given to a call
    HostFee,         \* the gas of a host call, and of an EVM transaction
    MaxDepth,        \* MAX_CROSS_CONTRACT_CALL_DEPTH
    MaxSteps         \* bound: host calls of one behaviour

Addresses == {User, Nobody, Precompile} \cup DOMAIN Contracts
             \cup UNION {{Created[a][i] : i \in DOMAIN Created[a]} : a \in DOMAIN Created}

VARIABLES
    state,           \* the UpdatedState of the transaction
    frames,          \* the contracts that are running, the innermost last
    outcome,         \* how the last contract ended
    steps            \* host calls made so far

vars == <<state, frames, outcome, steps>>

(* What an UpdatedState shows: accounts, instances, values and events.       *)
InitialState ==
    [exists |-> {User} \cup DOMAIN Contracts,
     balance |-> [a \in Addresses |-> IF a \in {User} \cup DOMAIN Contracts THEN Funds ELSE 0],
     nonce |-> [a \in Addresses |-> 0],
     code |-> [a \in Addresses |-> IF a \in DOMAIN Contracts THEN Contracts[a] ELSE "none"],
     value |-> [a \in Addresses |-> 0],
     events |-> 0]

(* A copy is taken when a contract starts and its caller waits for it, so    *)
(* the entries of the copy replace all that the caller knew.                 *)
merge(s, another) == another

create_event(s) == [s EXCEPT !.events = @ + 1]

(* The receiver is created when it is missing. The set is empty on an error. *)
transfer(s, from, to, amount) ==
    IF from \notin s.exists \/ s.balance[from] < amount THEN {}
    ELSE {[s EXCEPT !.exists = @ \cup {to},
                    !.balance = [[@ EXCEPT ![from] = @ - amount] EXCEPT ![to] = @ + amount]]}

create_account(s, a) ==
    IF a \in s.exists THEN {} ELSE {[s EXCEPT !.exists = @ \cup {a}]}

(* The address of a contract follows from its creator and the nonce.         *)
create_evm_address(a, nonce) ==
    IF a \in DOMAIN Created /\ nonce < Len(Created[a]) THEN {Created[a][nonce + 1]} ELSE {}

-----------------------------------------------------------------------------
(* A contract that runs. `passed` is the state the caller handed over, with  *)
(* the deposit moved; `own` the copy of its ContractInstanceManager. `logged`*)
(* counts what should be in the events of `own`, and `delegated` remembers   *)
(* that a read-only EVM contract delegated below this one.                   *)
Frame(kind, vm, self, caller, readonly, limit, deposit, passed) ==
    [kind |-> kind, vm |-> vm, self |-> self, caller |-> caller, readonly |-> readonly,
     limit |-> limit, burnt |-> 0, deposit |-> deposit, passed |-> passed, own |-> passed,
     logged |-> passed.events, delegated |-> FALSE]

Top == frames[Len(frames)]
Running(vm) == frames # <<>> /\ Top.vm = vm
left(f) == IF f.burnt >= f.limit THEN 0 ELSE f.limit - f.burnt

Set(f) == frames' = [frames EXCEPT ![Len(frames)] = f]

(* A transfer that fails is reported to the program, which goes on.          *)
MoveValue(f, from, to, amount) ==
    LET paid == transfer(f.own, from, to, amount)
    IN IF paid = {} THEN f ELSE [f EXCEPT !.own = CHOOSE s \in paid : TRUE]

(* EVM gas is recorded only if it fits; the caller logs an error and goes on. *)
record_gas64(f, gas) == IF f.burnt + gas > f.limit THEN f ELSE [f EXCEPT !.burnt = @ + gas]

(* A caller that keeps what a failed call has done.                          *)
CallEnds_merging(f, c, ok, burnt, out) ==
    [f EXCEPT !.own = merge(@, out), !.logged = c.logged, !.burnt = @ + burnt]

(* What the caller f does with the end of the contract c that it started:    *)
(* out is the state that it had handed over, as c leaves it.                 *)
CallEnds(f, c, ok, burnt, out) ==
    LET merged == [f EXCEPT !.own = merge(@, out), !.logged = c.logged,
                            !.delegated = @ \/ c.delegated]
    IN IF f.vm = "l1xvm"
       THEN [(IF ok THEN [merged EXCEPT !.burnt = @ + burnt] ELSE f) EXCEPT !.burnt = @ + 1]
       ELSE IF c.kind = "create" /\ ~ok THEN f
       ELSE record_gas64(IF ok THEN merged ELSE f, burnt)

(* The contract on top ends and its caller goes on.                          *)
End(c, ok, burnt, out) ==
    /\ outcome' = [ok |-> ok, burnt |-> burnt, limit |-> c.limit]
    /\ IF Len(frames) = 1
       THEN frames' = <<>> /\ state' = (IF ok THEN out ELSE state)
       ELSE /\ frames' = [SubSeq(frames, 1, Len(frames) - 1) EXCEPT ![Len(frames) - 1] =
                            CallEnds(@, c, ok, burnt, out)]
            /\ UNCHANGED state

(* A call that ends before a contract has started: no gas, nothing merged.   *)
Refuse(f) ==
    /\ Set(IF f.vm = "l1xvm" THEN [f EXCEPT !.burnt = @ + 1] ELSE f)
    /\ UNCHANGED <<state, outcome>>

-----------------------------------------------------------------------------
(* The three ways in which a contract starts, on the copy s. The set is      *)
(* empty when the start is refused. A deposit is paid by `account`.          *)
Deposited(s, readonly, account, to, deposit) ==
    IF ~readonly /\ deposit > 0 THEN transfer(s, account, to, deposit) ELSE {s}

execute_l1xvm_contract_call(s, account, to, readonly, limit, deposit, depth) ==
    IF depth > MaxDepth THEN {}
    ELSE {Frame("call", "l1xvm", to, account, readonly, limit, deposit, p) :
            p \in Deposited(s, readonly, account, to, deposit)}

(* The context says on whose storage the code of `to` runs, and for whom.    *)
execute_evm_contract_call(s, context, account, to, readonly, limit, deposit, depth) ==
    IF depth > MaxDepth THEN {}
    ELSE {Frame("call", "evm", context.address, context.caller, readonly, limit, deposit, p) :
            p \in Deposited(s, readonly, account, to, deposit)}

execute_evm_contract_deployment(s, account, a, limit, deposit, depth) ==
    IF depth > MaxDepth THEN {}
    ELSE {Frame("create", "evm", a, account, FALSE, limit, deposit, p) :
            p \in UNION {Deposited(made, FALSE, account, a, deposit) : made \in create_account(s, a)}}

(* An instance of an L1XVM contract: stored, then its function "new" is run. *)
execute_contract_init(s, account, a, limit, deposit) ==
    UNION {execute_l1xvm_contract_call([made EXCEPT !.code[a] = "l1xvm"], account, a, FALSE,
                                       limit, deposit, 0) : made \in create_account(s, a)}

(* The caller f waits for the contract it has started, if it has.            *)
Enter(f, started) ==
    IF started = {} THEN Refuse(f)
    ELSE /\ \E c \in started : frames' = Append([frames EXCEPT ![Len(frames)] = f], c)
         /\ UNCHANGED <<state, outcome>>

(* A transaction. The nonce of its sender is counted before it.              *)
execute_transaction ==
    /\ frames = <<>> /\ steps = 0 /\ steps' = 1
    /\ state' = [state EXCEPT !.nonce[User] = @ + 1]
    /\ \E limit \in GasLimits, deposit \in Amounts \cup {0} :
       \E c \in
         UNION {execute_l1xvm_contract_call(state', User, to, FALSE, limit, deposit, 0) :
                  to \in {a \in Addresses : state.code[a] = "l1xvm"}}
         \cup UNION {execute_evm_contract_call(state', [address |-> to, caller |-> User], User,
                                               to, FALSE, limit, deposit, 0) :
                       to \in {a \in Addresses : state.code[a] = "evm"}}
         \cup UNION {execute_evm_contract_deployment(state', User, a, limit, deposit, 0)
                       \cup execute_contract_init(state', User, a, limit, deposit) :
                       a \in create_evm_address(User, state.nonce[User])} :
         frames' = <<c>>
    /\ UNCHANGED outcome

(* A query of a server: nobody pays, nothing is written.                     *)
smart_contract_read_only_call ==
    /\ frames = <<>> /\ steps = 0 /\ steps' = 1
    /\ \E limit \in GasLimits, to \in Addresses :
         LET context == [address |-> to, caller |-> Nobody]
         IN \E c \in IF state.code[to] = "l1xvm"
                     THEN execute_l1xvm_contract_call(state, Nobody, to, TRUE, limit, 0, 0)
                     ELSE IF state.code[to] = "evm"
                     THEN execute_evm_contract_call(state, context, to, to, TRUE, limit, 0, 0)
                     ELSE {} :
              frames' = <<c>>
    /\ UNCHANGED <<state, outcome>>

-----------------------------------------------------------------------------
(* The L1X machine. An instruction needs gas to be left; a host call pays    *)
(* its fee, which must not use up the gas, and then one unit for the call.   *)
Fails == End(Top, FALSE, 0, Top.passed) /\ UNCHANGED steps

HostCall ==
    /\ Running("l1xvm") /\ left(Top) > 0
    /\ steps < MaxSteps /\ steps' = steps + 1

try_burn_gas(f) == [f EXCEPT !.burnt = @ + HostFee]
Paid(f) == [f EXCEPT !.burnt = @ + 1]

(* Any instruction may fail: the machine is stopped and nothing is merged.   *)
Trap == Running("l1xvm") /\ Fails

storage_write ==
    /\ HostCall
    /\ ~Top.readonly
    /\ LET f == try_burn_gas(Top)
       IN left(f) > 0 /\ Set(Paid([f EXCEPT !.own.value[f.self] = 1]))
    /\ UNCHANGED <<state, outcome>>

storage_remove ==
    /\ HostCall
    /\ ~Top.readonly
    /\ LET f == try_burn_gas(Top)
       IN left(f) > 0 /\ Set(Paid([f EXCEPT !.own.value[f.self] = 0]))
    /\ UNCHANGED <<state, outcome>>

(* Host calls that read: a value, a balance, an owner.                       *)
Reading ==
    /\ HostCall
    /\ left(try_burn_gas(Top)) > 0 /\ Set(Paid(try_burn_gas(Top)))
    /\ UNCHANGED <<state, outcome>>

emit_event ==
    /\ HostCall
    /\ ~Top.readonly
    /\ LET f == try_burn_gas(Top)
       IN left(f) > 0 /\ Set(Paid([f EXCEPT !.own = create_event(@), !.logged = @ + 1]))
    /\ UNCHANGED <<state, outcome>>


(* Neither this host call nor the next one looks at readonly.                *)
transfer_to ==
    /\ HostCall
    /\ LET f == try_burn_gas(Top)
       IN left(f) > 0 /\ \E to \in Addresses, n \in Amounts : Set(Paid(MoveValue(f, f.self, to, n)))
    /\ UNCHANGED <<state, outcome>>

(* With a deposit, the transfer is only compared with what was deposited.    *)
transfer_from_caller ==
    /\ HostCall
    /\ LET f == try_burn_gas(Top)
       IN /\ left(f) > 0
          /\ \E n \in Amounts :
               Set(Paid(IF f.deposit > 0 THEN f ELSE MoveValue(f, f.caller, f.self, n)))
    /\ UNCHANGED <<state, outcome>>

(* The contract that is called. An EVM contract pays its deposit itself; it  *)
(* is 0 in every version of the host call that is in use.                    *)
StartInstance(f, to, readonly, limit) ==
    LET context == [address |-> to, caller |-> f.self]
    IN CASE f.own.code[to] = "none" -> Refuse(f)
         [] f.own.code[to] = "l1xvm" ->
              Enter(f, execute_l1xvm_contract_call(f.own, f.self, to, readonly, limit, 0,
                                                   Len(frames)))
         [] f.own.code[to] = "evm" ->
              Enter(f, execute_evm_contract_call(f.own, context, to, to, readonly, limit, 0,
                                                 Len(frames)))
         [] f.own.code[to] = "xtalk" -> Set(Paid(f)) /\ UNCHANGED <<state, outcome>>

(* Versions 1 and 2 carry no deposit. A read-only contract may only make     *)
(* read-only calls. The gas of a failed call is not charged.                 *)
call_contract ==
    /\ HostCall
    /\ \E to \in Addresses, limit \in GasLimits, readonly \in BOOLEAN :
         LET f == try_burn_gas(Top)
         IN /\ Top.readonly => readonly
            /\ left(f) > 0 /\ left(f) >= limit
            /\ StartInstance(f, to, readonly, limit)

(* An end that adds the event before the copy is merged.                     *)
Exit_event_first ==
    /\ Running("l1xvm") /\ left(Top) > 0
    /\ End([Top EXCEPT !.logged = @ + 1], TRUE, Top.burnt,
           merge(create_event(Top.passed), Top.own))
    /\ UNCHANGED steps

(* The end of a program: its copy is merged, then its event is added.        *)
Exit ==
    /\ Running("l1xvm") /\ left(Top) > 0
    /\ LET out == merge(Top.passed, Top.own)
       IN IF Top.readonly THEN End(Top, TRUE, Top.burnt, out)
          ELSE End([Top EXCEPT !.logged = @ + 1], TRUE, Top.burnt, create_event(out))
    /\ UNCHANGED steps

-----------------------------------------------------------------------------
(* The handler of the EVM. Its opcodes burn no gas of the meter.             *)
Handler ==
    /\ Running("evm")
    /\ steps < MaxSteps /\ steps' = steps + 1

set_storage ==
    /\ Handler
    /\ ~Top.readonly
    /\ Set([Top EXCEPT !.own.value[Top.self] = 1 - @])
    /\ UNCHANGED <<state, outcome>>

log ==
    /\ Handler
    /\ ~Top.readonly
    /\ Set([Top EXCEPT !.own = create_event(@), !.logged = @ + 1])
    /\ UNCHANGED <<state, outcome>>

(* The nonce is counted on the contract's own state, so it stays counted     *)
(* when the deployment fails.                                                *)
create ==
    /\ Handler
    /\ ~Top.readonly
    /\ \E limit \in GasLimits, deposit \in Amounts \cup {0} :
       \E a \in create_evm_address(Top.self, Top.own.nonce[Top.self]) :
         LET f == [Top EXCEPT !.own.nonce[Top.self] = @ + 1]
         IN Enter(f, execute_evm_contract_deployment(f.own, f.self, a, limit, deposit,
                                                     Len(frames)))

(* CALL, CALLCODE, DELEGATECALL and STATICCALL, as the machine passes them:  *)
(* the first two carry a transfer, and the last is the only static one, so   *)
(* that what a static contract delegates to is not read-only.                *)
Call(scheme, to, value) ==
    [static |-> scheme = "staticcall", transfers |-> scheme \in {"call", "callcode"},
     value |-> value,
     context |-> [address |-> IF scheme \in {"call", "staticcall"} THEN to ELSE Top.self,
                  caller |-> IF scheme = "delegatecall" THEN Top.caller ELSE Top.self]]

(* Where there is no contract, only the value moves.                         *)
CallInstance(f, to, c, limit) ==
    CASE f.own.code[to] = "none" ->
           /\ Set(IF c.transfers THEN MoveValue(f, f.self, c.context.address, c.value) ELSE f)
           /\ UNCHANGED <<state, outcome>>
      [] f.own.code[to] = "l1xvm" ->
           Enter(f, execute_l1xvm_contract_call(f.own, c.context.caller, to, c.static, limit,
                                                c.value, Len(frames)))
      [] f.own.code[to] = "evm" ->
           Enter(f, execute_evm_contract_call(f.own, c.context, c.context.caller, to, c.static,
                                              limit, c.value, Len(frames)))
      [] f.own.code[to] = "xtalk" -> Refuse(f)

(* A precompile moves no value.                                              *)
call ==
    /\ Handler
    /\ \E to \in Addresses, limit \in GasLimits, value \in Amounts \cup {0},
          scheme \in {"call", "callcode", "delegatecall", "staticcall"} :
         LET c == Call(scheme, to, value)
             f == [Top EXCEPT !.delegated = @ \/ (Top.readonly /\ scheme = "delegatecall")]
         IN /\ ~c.transfers => value = 0
            /\ IF (Top.readonly /\ c.transfers) \/ to = Precompile THEN Refuse(Top)
               ELSE CallInstance(f, to, c, limit)

(* The machine has stopped: the transaction cost is recorded, and the copy   *)
(* is merged if the run succeeded.                                           *)
Stopped(f, ok) ==
    LET paid == record_gas64(f, HostFee)
    IN [paid EXCEPT !.passed = IF ok THEN merge(@, f.own) ELSE @]

store_evm_contract(s, a) == create_event([s EXCEPT !.code[a] = "evm"])

(* A call leaves an event even if it has failed.                             *)
execute_evm_runtime ==
    /\ Running("evm")
    /\ \E ok \in BOOLEAN :
         LET f == Stopped(Top, ok)
             logged == [f EXCEPT !.logged = @ + 1]
         IN IF f.kind = "create"
            THEN IF ok THEN End(logged, ok, f.burnt, store_evm_contract(f.passed, f.self))
                 ELSE End(f, ok, f.burnt, f.passed)
            ELSE IF f.readonly THEN End(f, ok, f.burnt, f.passed)
            ELSE End(logged, ok, f.burnt, create_event(f.passed))
    /\ UNCHANGED steps

-----------------------------------------------------------------------------
Init ==
    /\ state = InitialState
    /\ frames = <<>>
    /\ outcome = [ok |-> TRUE, burnt |-> 0, limit |-> 1]
    /\ steps = 0

Next ==
    \/ execute_transaction \/ smart_contract_read_only_call
    \/ storage_write \/ storage_remove \/ Reading \/ emit_event \/ transfer_to \/ transfer_from_caller
    \/ call_contract \/ Trap \/ Exit
    \/ set_storage \/ log \/ create \/ call \/ execute_evm_runtime

Spec == Init /\ [][Next]_vars

-----------------------------------------------------------------------------
(* No frame, in any state of it, makes or destroys tokens: UpdatedState::    *)
(* transfer, the deposits and the merges only move them.                     *)
Supply(s) == FoldFunction(+, 0, s.balance)
TokensOnlyMove ==
    /\ Supply(state) = Supply(InitialState)
    /\ \A i \in DOMAIN frames :
         Supply(frames[i].own) = Supply(InitialState) /\ Supply(frames[i].passed) = Supply(InitialState)

(* A contract that fails, after whatever it and the contracts it called had  *)
(* done, leaves the state of its caller as it was when the call began: the   *)
(* handlers give it a copy and merge the copy only on success.               *)
FailedCallLeavesNothing ==
    Len(frames') < Len(frames) /\ ~outcome'.ok =>
        IF frames' = <<>> THEN state' = state
        ELSE frames'[Len(frames')].own = frames[Len(frames')].own

(* The gas that a contract reports to the one who pays for it is within the  *)
(* limit it was given, nested calls included.                                *)
BurntWithinLimit == outcome.burnt <= outcome.limit

(* Nothing a contract logs is lost and nothing is logged twice: the list of  *)
(* events is replaced by every merge, so its order with create_event counts. *)
EventsAreKept == \A i \in DOMAIN frames : frames[i].own.events = frames[i].logged

(* A read-only contract, and what it calls, writes no value, adds no event   *)
(* and creates no contract, unless a static EVM contract delegates.          *)
ReadOnlyWritesNothing ==
    \A i \in DOMAIN frames :
      LET f == frames[i]
      IN f.readonly /\ ~f.delegated =>
           /\ f.own.value = f.passed.value /\ f.own.events = f.passed.events
           /\ f.own.code = f.passed.code /\ f.own.nonce = f.passed.nonce

(* However contracts of the three kinds call each other, tokens only move,   *)
(* no event is lost or doubled, a read-only call writes nothing, and the gas *)
(* that is reported is within the limit (merge, create_event, record_gas64). *)
CallsAreSound == TokensOnlyMove /\ EventsAreKept /\ ReadOnlyWritesNothing /\ BurntWithinLimit
=============================================================================
