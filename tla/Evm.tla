-------------------------------- MODULE Evm --------------------------------
(***************************************************************************)
(* The EVM of the workspace: the machine and opcode tables of the crate    *)
(* evm_interpreter, the gasometer (EvmGas), and the invoker of the crate   *)
(* evm_precompile that enters and leaves calls and creates.                *)
(*                                                                         *)
(* Code is a sequence of bytes.  Words have EvmArith's width.  Of memory   *)
(* the model keeps the two lengths, of call data and return data the       *)
(* length: a byte read from them can be any of AnyWord, and code built in  *)
(* memory any of BuiltCode.  The backend is external: a record per layer.  *)
(***************************************************************************)
EXTENDS EvmOpcodes, EvmGas, EvmArith, Sequences, FiniteSetsExt
LOCAL INSTANCE Bitwise

CONSTANTS Transactions,  \* records: kind, caller, address, value, code, gas_limit, gas_price
          Accounts,      \* the possible codes of the contracts: functions address -> code
          Funds,         \* balances before the transaction: a function on addresses
          AnyWord,       \* words that memory, hashes and the block may hold
          BuiltCode      \* codes that memory may hold

VARIABLES calls,         \* the call stack: frames, the last one runs
          layers,        \* substates of the backend, the last one is current
          tx             \* the transaction, its fee and its outcome

vars == <<calls, layers, tx>>

Coinbase == 15

-----------------------------------------------------------------------------
\* Where instructions start in a code: every position but the data of a push.
Instructions(code) ==
  LET data[i \in 0 .. Len(code)] ==      \* bytes of push data still to come at position i
        IF i = 0 THEN 0
        ELSE LET left == data[i - 1] IN IF left > 0 THEN left - 1 ELSE is_push(code[i])
  IN  {i \in 0 .. Len(code) - 1 : data[i] = 0}

Valids(code) == {i \in Instructions(code) : code[i + 1] = Op.JUMPDEST}

Calls == {Op.CALL, Op.CALLCODE, Op.DELEGATECALL, Op.STATICCALL}
Creates == {Op.CREATE, Op.CREATE2}
Logs == Op.LOG0 .. Op.LOG4

-----------------------------------------------------------------------------
(* The backend, used through the traits of runtime.rs *)

Empty == [x \in {} |-> 0]
At(f, k) == IF k \in DOMAIN f THEN f[k] ELSE 0
Set(f, k, v) ==
  [x \in (DOMAIN f \ {k}) \cup (IF v = 0 THEN {} ELSE {k}) |-> IF x = k THEN v ELSE f[x]]

Address(word) == word % 256                 \* H256 to H160
balance(h, a) == At(h.balance, a)
nonce(h, a) == At(h.nonce, a)
code(h, a) == IF a \in DOMAIN h.code THEN h.code[a] ELSE <<>>
storage(h, a, index) == At(h.storage, <<a, index>>)
exists(h, a) == balance(h, a) # 0 \/ nonce(h, a) # 0 \/ code(h, a) # <<>>
is_cold(h, key) == key \notin h.hot
mark_hot(h, key) == [h EXCEPT !.hot = @ \cup {key}]
deposit(h, a, v) == [h EXCEPT !.balance = Set(@, a, balance(h, a) + v)]

\* The states a withdrawal leads to: none when the balance is too small.
withdrawal(h, a, v) ==
  IF balance(h, a) < v THEN {} ELSE {[h EXCEPT !.balance = Set(@, a, balance(h, a) - v)]}

transfer(h, t) == {deposit(w, t.target, t.value) : w \in withdrawal(h, t.source, t.value)}
inc_nonce(h, a) == [h EXCEPT !.nonce = Set(@, a, nonce(h, a) + 1)]

reset_storage(h, a) ==
  [h EXCEPT !.storage = [k \in {x \in DOMAIN @ : x[1] # a} |-> h.storage[k]]]

\* Everything of a layer but the marks of what was accessed.
World(h) == [balance |-> h.balance, nonce |-> h.nonce, code |-> h.code, storage |-> h.storage,
             logs |-> h.logs, deleted |-> h.deleted]

Layer == layers[Len(layers)]
Original == layers[1]

-----------------------------------------------------------------------------
(* Frames: a Machine, its interpreter and how it was entered *)

Frame(program, data, gas, context, invoke) ==
  [code |-> program, data |-> data, position |-> 0, stack |-> <<>>, mem |-> 0, effective |-> 0,
   retbuf |-> 0, retval |-> 0, gas |-> gas, context |-> context, invoke |-> invoke,
   status |-> IF program = <<>> THEN "Stopped" ELSE "Running"]

Succeeds == {"Stopped", "Returned", "Suicided"}
Exit(f, result) == [f EXCEPT !.status = result, !.position = Len(f.code)]
peek(f, n) == f.stack[n + 1]
Deep(f, n) == Len(f.stack) >= n

\* interpreter/etable.rs, step: running off the end stops the machine.
Goto(f, p) == IF p >= Len(f.code) THEN Exit(f, "Stopped") ELSE [f EXCEPT !.position = p]
Continue(f) == Goto(f, f.position + 1)

\* stack.rs: pop n words, then push the words of v, top last.
Operate(f, n, v) ==
  IF ~ Deep(f, n) \/ Len(f.stack) - n + Len(v) > config.stack_limit THEN Exit(f, "Exception")
  ELSE Continue([f EXCEPT !.stack = v \o SubSeq(@, n + 1, Len(@))])

\* stack.rs, perform_popn_push1: its check counts one word more.
check_pop_push(f, pop, push) ==
  Deep(f, pop) /\ ~ Len(f.stack) - pop + push + 1 > config.stack_limit

-----------------------------------------------------------------------------
(* memory.rs: no outcome is an error *)

resize_end(f, end) ==
  IF end <= f.effective THEN {f}
  ELSE IF 32 * Words32(end) >= Modulus THEN {}
  ELSE {[f EXCEPT !.effective = 32 * Words32(end)]}

resize_offset(f, offset, len) ==
  IF len = 0 THEN {f} ELSE IF offset + len >= Modulus THEN {} ELSE resize_end(f, offset + len)

set(f, offset, size) ==
  IF size = 0 THEN {f}
  ELSE IF offset + size > U64Max THEN {}
  ELSE {[f EXCEPT !.mem = IF @ < offset + size THEN offset + size ELSE @]}

copy_large(f, offset, len) ==
  IF len = 0 THEN {f} ELSE IF offset > U64Max \/ len > U64Max THEN {} ELSE set(f, offset, len)

\* pop_u256!, resize and write, as the instructions that touch memory do.
Touch(f, offset, len, write) ==
  UNION {IF write THEN copy_large(r, offset, len) ELSE {r} : r \in resize_offset(f, offset, len)}

OrFail(f, outcomes, result) == IF outcomes = {} THEN {Exit(f, result)} ELSE outcomes

-----------------------------------------------------------------------------
(* evmgasometer/mod.rs: eval, run before the instruction *)

Pushes == {Op.PUSH0} \cup Op.PUSH1 .. Op.PUSH32
Dups == Op.DUP1 .. Op.DUP16
Swaps == Op.SWAP1 .. Op.SWAP16
Binary == {Op.ADD, Op.MUL, Op.SUB, Op.DIV, Op.SDIV, Op.MOD, Op.SMOD, Op.EXP, Op.SIGNEXTEND, Op.LT,
           Op.GT, Op.SLT, Op.SGT, Op.EQ, Op.AND, Op.OR, Op.XOR, Op.BYTE, Op.SHL, Op.SHR, Op.SAR}
Environment == {Op.ADDRESS, Op.ORIGIN, Op.CALLER, Op.CALLVALUE, Op.CALLDATASIZE, Op.GASPRICE,
                Op.RETURNDATASIZE, Op.COINBASE, Op.TIMESTAMP, Op.NUMBER, Op.DIFFICULTY,
                Op.GASLIMIT, Op.CHAINID, Op.SELFBALANCE, Op.BASEFEE, Op.PC, Op.MSIZE, Op.GAS}
Dynamic == {Op.CHAINID, Op.SELFBALANCE, Op.BASEFEE, Op.RETURNDATASIZE}

STATIC_COST_TABLE(o) ==
  CASE o = Op.STOP -> {0}
    [] o \in (Environment \ Dynamic) \cup {Op.CODESIZE, Op.POP} -> {G.BASE}
    [] o \in {Op.MUL, Op.DIV, Op.SDIV, Op.MOD, Op.SMOD, Op.SIGNEXTEND} -> {G.LOW}
    [] o \in {Op.ADDMOD, Op.MULMOD, Op.JUMP} -> {G.MID}
    [] o = Op.JUMPI -> {G.HIGH}
    [] o = Op.JUMPDEST -> {G.JUMPDEST}
    [] o \in (Binary \ {Op.EXP, Op.SHL, Op.SHR, Op.SAR}) \cup (Pushes \ {Op.PUSH0}) \cup Dups
             \cup Swaps \cup {Op.NOT, Op.ISZERO, Op.CALLDATALOAD} -> {G.VERYLOW}
    [] OTHER -> {}

\* The words dynamic_opcode_cost peeks at: fewer on the stack is an error.
Peeked(o) ==
  CASE o \in {Op.CALL, Op.CALLCODE} -> 7
    [] o \in {Op.DELEGATECALL, Op.STATICCALL} -> 6
    [] o = Op.EXTCODECOPY -> 4
    [] o \in Creates \cup {Op.CALLDATACOPY, Op.CODECOPY, Op.RETURNDATACOPY} -> 3
    [] o \in Logs \cup {Op.SHA3, Op.RETURN, Op.REVERT, Op.EXP, Op.SSTORE} -> 2
    [] o \in {Op.EXTCODESIZE, Op.BALANCE, Op.EXTCODEHASH, Op.SLOAD, Op.SUICIDE, Op.MLOAD,
              Op.MSTORE, Op.MSTORE8} -> 1
    [] OTHER -> 0

\* Mutant of dynamic_opcode_cost's guard: CALL with value is allowed in a static frame.
Forbidden_but_call(f, o) == f.gas.static /\ o \in {Op.SSTORE, Op.SUICIDE} \cup Logs \cup Creates

\* What a static frame may not do.
Forbidden(f, o) ==
  f.gas.static /\ \/ o \in {Op.SSTORE, Op.SUICIDE} \cup Logs \cup Creates
                  \/ o = Op.CALL /\ peek(f, 2) # 0

\* The cost of an instruction, before memory; the empty set is an error.
dynamic_opcode_cost(f, h, o) ==
  LET self == f.context.address
      cold(n) == is_cold(h, <<Address(peek(f, n))>>)
      new(n) == ~ exists(h, Address(peek(f, n)))
      slot == <<self, peek(f, 0)>>
  IN  CASE Forbidden(f, o) -> {}
        [] o \in {Op.RETURN, Op.REVERT} -> {0}
        [] o \in {Op.MLOAD, Op.MSTORE, Op.MSTORE8, Op.SHL, Op.SHR, Op.SAR} -> {G.VERYLOW}
        [] o \in {Op.CHAINID, Op.BASEFEE, Op.RETURNDATASIZE, Op.PUSH0} -> {G.BASE}
        [] o = Op.SELFBALANCE -> {G.LOW}
        [] o = Op.BLOCKHASH -> {G.BLOCKHASH}
        [] o \in {Op.EXTCODESIZE, Op.BALANCE, Op.EXTCODEHASH} -> {address_access_cost(cold(0))}
        [] o = Op.SHA3 -> {sha3_cost(peek(f, 1))}
        [] o = Op.EXTCODECOPY -> {extcodecopy_cost(peek(f, 3), cold(0))}
        [] o \in {Op.CALLDATACOPY, Op.CODECOPY, Op.RETURNDATACOPY} -> {verylowcopy_cost(peek(f, 2))}
        [] o = Op.EXP -> {exp_cost(peek(f, 1))}
        [] o = Op.SLOAD -> {sload_cost(is_cold(h, slot))}
        [] o = Op.CALL -> {call_cost(peek(f, 2), cold(1), TRUE, TRUE, new(1))}
        [] o = Op.CALLCODE -> {call_cost(peek(f, 2), cold(1), TRUE, FALSE, new(1))}
        [] o = Op.DELEGATECALL -> {call_cost(0, cold(1), FALSE, FALSE, new(1))}
        [] o = Op.STATICCALL -> {call_cost(0, cold(1), FALSE, TRUE, new(1))}
        [] o = Op.SSTORE -> sstore_cost(storage(Original, self, peek(f, 0)), At(h.storage, slot),
                                        peek(f, 1), gas64(f.gas), is_cold(h, slot))
        [] o \in Logs -> {log_cost(o - Op.LOG0, peek(f, 1))}
        [] o = Op.CREATE -> {G.CREATE}
        [] o = Op.CREATE2 -> {create2_cost(peek(f, 2))}
        [] o = Op.SUICIDE -> {suicide_cost(balance(h, self), cold(0), ~ new(0))}
        [] OTHER -> {}

Range32(f, at, len) == [offset |-> peek(f, at), len |-> peek(f, len)]

\* The memory an instruction touches; length zero when none.
memory_cost(f, o) ==
  CASE o \in Logs \cup {Op.SHA3, Op.RETURN, Op.REVERT} -> Range32(f, 0, 1)
    [] o \in {Op.CODECOPY, Op.CALLDATACOPY, Op.RETURNDATACOPY} -> Range32(f, 0, 2)
    [] o = Op.EXTCODECOPY -> Range32(f, 1, 3)
    [] o \in {Op.MLOAD, Op.MSTORE} -> [offset |-> peek(f, 0), len |-> 32]
    [] o = Op.MSTORE8 -> [offset |-> peek(f, 0), len |-> 1]
    [] o \in Creates -> Range32(f, 1, 2)
    [] o \in {Op.CALL, Op.CALLCODE} -> join(Range32(f, 3, 4), Range32(f, 5, 6))
    [] o \in {Op.DELEGATECALL, Op.STATICCALL} -> join(Range32(f, 2, 3), Range32(f, 4, 5))
    [] OTHER -> [offset |-> 0, len |-> 0]

refund(g, f, h, o) ==
  LET self == f.context.address
      r == IF o = Op.SSTORE
           THEN sstore_refund(storage(Original, self, peek(f, 0)), storage(h, self, peek(f, 0)),
                              peek(f, 1))
           ELSE IF o = Op.SUICIDE /\ ~ config.decrease_clears_refund
           THEN suicide_refund(self \in h.deleted) ELSE 0
  IN  [g EXCEPT !.refunded = IF @ + r < 0 THEN 0 ELSE @ + r]

\* The meter after the charge; no outcome when the charge fails.
eval_to_result(f, h, o) ==
  IF STATIC_COST_TABLE(o) # {}
  THEN UNION {record_gas64(f.gas, c) : c \in STATIC_COST_TABLE(o)}
  ELSE IF ~ Deep(f, Peeked(o)) THEN {}
  ELSE UNION {charge_memory(refund(g, f, h, o), memory_cost(f, o)) :
                g \in UNION {record_gas64(f.gas, c) : c \in dynamic_opcode_cost(f, h, o)}}
-----------------------------------------------------------------------------
(* eval: what an instruction does once it is paid; pairs of a frame and a layer *)

Binary_result(o, a, b) ==
  CASE o = Op.ADD -> (a + b) % Modulus
    [] o = Op.MUL -> (a * b) % Modulus
    [] o = Op.SUB -> (a + Modulus - b) % Modulus
    [] o = Op.DIV -> div(a, b)
    [] o = Op.SDIV -> sdiv(a, b)
    [] o = Op.MOD -> rem(a, b)
    [] o = Op.SMOD -> srem(a, b)
    [] o = Op.EXP -> exp(a, b)
    [] o = Op.SIGNEXTEND -> signextend(a, b)
    [] o = Op.LT -> Bool(a < b)
    [] o = Op.GT -> Bool(a > b)
    [] o = Op.SLT -> slt(a, b)
    [] o = Op.SGT -> sgt(a, b)
    [] o = Op.EQ -> Bool(a = b)
    [] o = Op.AND -> a & b
    [] o = Op.OR -> a | b
    [] o = Op.XOR -> a ^^ b
    [] o = Op.BYTE -> byte(a, b)
    [] o = Op.SHL -> shl(a, b)
    [] o = Op.SHR -> shr(a, b)
    [] o = Op.SAR -> sar(a, b)

eval_arithmetic(f, o) ==
  CASE o \in Binary -> Operate(f, 2, <<Binary_result(o, peek(f, 0), peek(f, 1))>>)
    [] o = Op.ADDMOD -> Operate(f, 3, <<addmod(peek(f, 0), peek(f, 1), peek(f, 2))>>)
    [] o = Op.MULMOD -> Operate(f, 3, <<mulmod(peek(f, 0), peek(f, 1), peek(f, 2))>>)
    [] o = Op.NOT -> Operate(f, 1, <<not(peek(f, 0))>>)
    [] o = Op.ISZERO -> Operate(f, 1, <<iszero(peek(f, 0))>>)

\* The words the environment may answer with.
EnvironmentWords(f, h, o) ==
  CASE o = Op.ADDRESS -> {f.context.address}
    [] o = Op.ORIGIN -> {tx.args.caller}
    [] o = Op.CALLER -> {f.context.caller}
    [] o = Op.CALLVALUE -> {f.context.value}
    [] o = Op.CALLDATASIZE -> {f.data}
    [] o = Op.RETURNDATASIZE -> {f.retbuf}
    [] o = Op.GASPRICE -> {tx.args.gas_price}
    [] o = Op.COINBASE -> {Coinbase}
    [] o = Op.SELFBALANCE -> {balance(h, f.context.address)}
    [] o = Op.PC -> {f.position}
    [] o = Op.MSIZE -> {f.effective}
    [] o = Op.GAS -> {gas64(f.gas)}
    [] OTHER -> AnyWord

eval_codesize(f) ==
  IF check_pop_push(f, 0, 1) THEN Operate(f, 0, <<Len(f.code)>>) ELSE Exit(f, "Exception")

\* Bytes past the end of the code are zero.
eval_push(f, n) ==
  LET at(i) == IF f.position + i < Len(f.code) THEN f.code[f.position + i + 1] ELSE 0
      word[i \in 0 .. n] == IF i = 0 THEN 0 ELSE (word[i - 1] * 256 + at(i)) % Modulus
      pushed == Operate(f, 0, <<word[n]>>)
  IN  IF pushed.status = "Exception" THEN pushed
      ELSE Goto([f EXCEPT !.stack = pushed.stack], f.position + 1 + n)

eval_dup(f, n) == IF Deep(f, n) THEN Operate(f, 0, <<peek(f, n - 1)>>) ELSE Exit(f, "Exception")

eval_swap(f, n) ==
  IF ~ Deep(f, n + 1) THEN Exit(f, "Exception")
  ELSE Continue([f EXCEPT !.stack[1] = peek(f, n), !.stack[n + 1] = peek(f, 0)])

Jump(f, dest) ==
  IF dest \in Valids(f.code) THEN [f EXCEPT !.position = dest] ELSE Exit(f, "Exception")

eval_jump(f, o) ==
  LET n == IF o = Op.JUMP THEN 1 ELSE 2
      popped == [f EXCEPT !.stack = SubSeq(@, n + 1, Len(@))]
  IN  IF ~ Deep(f, n) THEN Exit(f, "Exception")
      ELSE IF o = Op.JUMPI /\ peek(f, 1) = 0 THEN Continue(popped)
      ELSE Jump(popped, peek(f, 0))

\* The frames of an instruction that pops n words, resizes the memory and then
\* writes it, or reads it and pushes a word of the set given.
UseMemory(f, n, m, write, words) ==
  IF ~ Deep(f, n) THEN {Exit(f, "Exception")}
  ELSE IF resize_offset(f, m.offset, m.len) = {} THEN {Exit(f, "Exception")}
  ELSE OrFail(f, UNION {{IF words = {} THEN Operate(r, n, <<>>) ELSE Operate(r, n, <<w>>) :
                           w \in IF words = {} THEN {0} ELSE words} :
                          r \in Touch(f, m.offset, m.len, write)}, "Fatal")

eval_memory(f, o) ==
  CASE o = Op.MLOAD -> UseMemory(f, 1, memory_cost(f, o), FALSE, AnyWord)
    [] o \in {Op.MSTORE, Op.MSTORE8} -> UseMemory(f, 2, memory_cost(f, o), TRUE, {})
    [] o = Op.SHA3 -> UseMemory(f, 2, memory_cost(f, o), FALSE, AnyWord)
    [] o \in {Op.CALLDATACOPY, Op.CODECOPY} -> UseMemory(f, 3, memory_cost(f, o), TRUE, {})
    [] o = Op.EXTCODECOPY -> UseMemory(f, 4, memory_cost(f, o), TRUE, {})
    [] o = Op.RETURNDATACOPY ->
         IF Deep(f, 3) /\ peek(f, 1) + peek(f, 2) > f.retbuf THEN {Exit(f, "Exception")}
         ELSE UseMemory(f, 3, memory_cost(f, o), TRUE, {})

\* RETURN and REVERT: the range becomes the return value, the memory is cleared.
eval_exit(f, o) ==
  LET result == IF o = Op.RETURN THEN "Returned" ELSE "Reverted"
  IN  IF ~ Deep(f, 2) \/ resize_offset(f, peek(f, 0), peek(f, 1)) = {} THEN Exit(f, "Exception")
      ELSE [Exit(f, result) EXCEPT !.retval = peek(f, 1), !.mem = 0, !.effective = 0]

\* BALANCE, EXTCODESIZE and EXTCODEHASH.
AccountWords(h, o, a) ==
  CASE o = Op.BALANCE -> {balance(h, a)}
    [] o = Op.EXTCODESIZE -> {Len(code(h, a))}
    [] o = Op.EXTCODEHASH -> AnyWord

eval_log(f, h, o) ==
  {<<g, IF g.status = "Exception" \/ g.status = "Fatal" THEN h ELSE [h EXCEPT !.logs = @ + 1]>> :
     g \in UseMemory(f, 2 + o - Op.LOG0, memory_cost(f, o), FALSE, {})}

\* The balance moves to the target, then what is left here is dropped.
eval_suicide(f, h) ==
  LET self == f.context.address
      t == [source |-> self, target |-> Address(peek(f, 0)), value |-> balance(h, self)]
  IN  IF ~ check_pop_push(f, 1, 0) THEN {<<Exit(f, "Exception"), h>>}
      ELSE {<<Exit(f, "Suicided"),
              [m EXCEPT !.deleted = @ \cup {self}, !.balance = Set(@, self, 0)]>> :
              m \in transfer(h, t)}

eval(f, h, o) ==
  LET self == f.context.address
      slot == <<self, peek(f, 0)>>
      touched == mark_hot(h, <<Address(peek(f, 0))>>)
      fails == {<<Exit(f, "Exception"), h>>}
  IN  CASE o = Op.STOP -> {<<Exit(f, "Stopped"), h>>}
        [] o = Op.JUMPDEST -> {<<Continue(f), h>>}
        [] o \in Binary \cup {Op.ADDMOD, Op.MULMOD, Op.NOT, Op.ISZERO} ->
             {<<eval_arithmetic(f, o), h>>}
        [] o \in Environment -> {<<Operate(f, 0, <<w>>), h>> : w \in EnvironmentWords(f, h, o)}
        [] o = Op.CODESIZE -> {<<eval_codesize(f), h>>}
        [] o \in {Op.CALLDATALOAD, Op.BLOCKHASH} ->
             {<<Operate(f, 1, <<w>>), h>> : w \in AnyWord}
        [] o = Op.POP -> {<<Operate(f, 1, <<>>), h>>}
        [] o \in Pushes -> {<<eval_push(f, is_push(o)), h>>}
        [] o \in Dups -> {<<eval_dup(f, o - Op.DUP1 + 1), h>>}
        [] o \in Swaps -> {<<eval_swap(f, o - Op.SWAP1 + 1), h>>}
        [] o \in {Op.JUMP, Op.JUMPI} -> {<<eval_jump(f, o), h>>}
        [] o = Op.EXTCODECOPY -> {<<g, touched>> : g \in eval_memory(f, o)}
        [] o \in {Op.MLOAD, Op.MSTORE, Op.MSTORE8, Op.SHA3, Op.CALLDATACOPY, Op.CODECOPY,
                  Op.RETURNDATACOPY} -> {<<g, h>> : g \in eval_memory(f, o)}
        [] o \in {Op.RETURN, Op.REVERT} -> {<<eval_exit(f, o), h>>}
        [] o \in {Op.BALANCE, Op.EXTCODESIZE, Op.EXTCODEHASH} ->
             {<<Operate(f, 1, <<w>>), touched>> : w \in AccountWords(h, o, Address(peek(f, 0)))}
        [] o = Op.SLOAD ->
             {<<Operate(f, 1, <<storage(h, self, peek(f, 0))>>), mark_hot(h, slot)>>}
        [] o = Op.SSTORE ->
             {<<Operate(f, 2, <<>>),
                [mark_hot(h, slot) EXCEPT !.storage = Set(@, slot, peek(f, 1))]>>}
        [] o \in Logs -> eval_log(f, h, o)
        [] o = Op.SUICIDE -> eval_suicide(f, h)
        [] OTHER -> fails
-----------------------------------------------------------------------------
(* call_create.rs: the data of a call or create trap *)

Max2(a, b) == IF a > b THEN a ELSE b
Min2(a, b) == IF a < b THEN a ELSE b

\* Codes that a range of memory, or a return value, of this length may hold.
AnyCode(len) == {c \in BuiltCode : Len(c) = len} \cup {[i \in 1 .. len |-> 0]}

\* The hash is external: addresses 128.. for CREATE, 192.. for CREATE2.
create_address(h, scheme) ==
  IF scheme.salt = {} THEN 128 + ((scheme.caller % 4) * 16) + (nonce(h, scheme.caller) % 16)
  ELSE 192 + ((scheme.caller % 4) * 16) + ((CHOOSE s \in scheme.salt : TRUE) % 16)

\* The frame after the pops and the trap; none when a range is invalid.
CallTrapData(f, o) ==
  LET n == IF o \in {Op.CALL, Op.CALLCODE} THEN 1 ELSE 0
      value == IF n = 1 THEN peek(f, 2) ELSE 0
      to == Address(peek(f, 1))
      self == f.context.address
      in_end == peek(f, 2 + n) + peek(f, 3 + n)
      out_end == peek(f, 4 + n) + peek(f, 5 + n)
      popped == [f EXCEPT !.stack = SubSeq(@, 7 + n, Len(@)), !.retbuf = 0]
      context == CASE o \in {Op.CALL, Op.STATICCALL} ->
                        [address |-> to, caller |-> self, value |-> value]
                   [] o = Op.CALLCODE -> [address |-> self, caller |-> self, value |-> value]
                   [] o = Op.DELEGATECALL -> f.context
      moves == CASE o = Op.CALL -> {[source |-> self, target |-> to, value |-> value]}
                 [] o = Op.CALLCODE -> {[source |-> self, target |-> self, value |-> value]}
                 [] OTHER -> {}
  IN  IF in_end >= Modulus \/ out_end >= Modulus THEN {}
      ELSE {[frame |-> r,
             trap |-> [kind |-> "Call", target |-> to, transfer |-> moves,
                       input |-> peek(f, 3 + n), gas |-> {peek(f, 0)},
                       is_static |-> o = Op.STATICCALL, out_offset |-> peek(f, 4 + n),
                       out_len |-> peek(f, 5 + n), context |-> context]] :
              r \in resize_end(popped, Max2(in_end, out_end))}

CreateTrapData(f, h, o) ==
  LET n == IF o = Op.CREATE2 THEN 4 ELSE 3
      scheme == [caller |-> f.context.address,
                 salt |-> IF o = Op.CREATE2 THEN {peek(f, 3)} ELSE {}]
      address == create_address(h, scheme)
  IN  IF ~ Deep(f, n) THEN {}
      ELSE {[frame |-> [f EXCEPT !.stack = SubSeq(@, n + 1, Len(@)), !.retbuf = 0],
             trap |-> [kind |-> "Create", target |-> address, gas |-> {}, is_static |-> FALSE,
                       code |-> c,
                       transfer |-> {[source |-> scheme.caller, target |-> address,
                                      value |-> peek(f, 0)]},
                       context |-> [address |-> address, caller |-> scheme.caller,
                                    value |-> peek(f, 0)]]] :
              c \in AnyCode(peek(f, 2))}

has_value(trap) == trap.kind = "Call" /\ \E t \in trap.transfer : t.value # 0

-----------------------------------------------------------------------------
(* routines.rs and resolver.rs: entering a call or a create.  Each gives the *)
(* new frame and the layer it runs in, and nothing when it is refused.       *)

Transfer(h, moves) == IF moves = {} THEN {h} ELSE UNION {transfer(h, t) : t \in moves}

resolve_call(h, address, input, gas, context, invoke) ==
  IF address \in Precompiles
  THEN {<<[Frame(<<>>, input, r.gas, context, invoke) EXCEPT !.status = r.status,
                                                             !.retval = r.len], h>> :
          r \in execute(address, input, gas)}
  ELSE {<<Frame(code(h, address), input, gas, context, invoke), h>>}

make_enter_call_machine(h, address, input, moves, gas, context, invoke) ==
  UNION {resolve_call(m, address, input, gas, context, invoke) :
           m \in Transfer(mark_hot(h, <<context.address>>), moves)}

make_enter_create_machine(h, init_code, moves, gas, context, invoke) ==
  LET hot == mark_hot(mark_hot(h, <<context.caller>>), <<context.address>>)
      entered(m) == reset_storage(inc_nonce(inc_nonce(m, context.caller), context.address),
                                  context.address)
  IN  IF \E limit \in config.max_initcode_size : Len(init_code) > limit THEN {}
      ELSE {<<Frame(init_code, 0, gas, context, invoke), entered(m)>> :
              m \in {w \in Transfer(hot, moves) :
                       code(w, context.address) = <<>> /\ nonce(w, context.address) = 0}}

enter_machine(h, trap, gas) ==
  IF trap.kind = "Call"
  THEN make_enter_call_machine(h, trap.target, trap.input, trap.transfer, gas, trap.context, trap)
  ELSE make_enter_create_machine(h, trap.code, trap.transfer, gas, trap.context, trap)

\* The meter and the layer after a deployment, and whether it was refused.
deploy_create_code(h, address, program, gas) ==
  IF program # <<>> /\ Head(program) = Op.EOFMAGIC THEN [gas |-> gas, layer |-> h, ok |-> FALSE]
  ELSE IF Len(program) > config.create_contract_limit THEN [gas |-> gas, layer |-> h, ok |-> FALSE]
  ELSE IF record_codedeposit(gas, Len(program)) = {}
  THEN [gas |-> oog(gas), layer |-> h, ok |-> FALSE]
  ELSE [gas |-> perform(gas, record_codedeposit(gas, Len(program))),
        layer |-> [h EXCEPT !.code = [a \in DOMAIN @ \cup {address} |->
                                        IF a = address THEN program ELSE h.code[a]]],
        ok |-> TRUE]
-----------------------------------------------------------------------------
(* The invoker *)

Depth == Len(calls)
Top == calls[Depth]
Opcode == Top.code[Top.position + 1]
Lower(s) == SubSeq(s, 1, Len(s) - 1)
Replace(f) == [calls EXCEPT ![Depth] = f]
SetLayer(h) == [layers EXCEPT ![Len(layers)] = h]

Running == tx.status = "running" /\ Top.status = "Running"

\* The frame once the gasometer has charged for its instruction.
Charged == LET paid == eval_to_result(Top, Layer, Opcode)
           IN  IF paid = {} THEN [Exit(Top, "Exception") EXCEPT !.gas = oog(Top.gas)]
               ELSE [Top EXCEPT !.gas = CHOOSE g \in paid : TRUE]

\* An instruction that stays in its frame.
Step ==
  /\ Running
  /\ LET f == Charged
     IN  /\ Opcode \notin Calls \cup Creates \/ f.status # "Running"
         /\ \E r \in IF f.status # "Running" THEN {<<f, Layer>>} ELSE eval(f, Layer, Opcode) :
              calls' = Replace(r[1]) /\ layers' = SetLayer(r[2])
  /\ UNCHANGED tx

l64(gas) == gas - (gas \div 64)

TrapData(f) == IF Opcode \in Calls THEN CallTrapData(f, Opcode) ELSE CreateTrapData(f, Layer, Opcode)

\* What enter_substack does with a trap: the caller, the callee and its layer.
Entered(t) ==
  LET after_gas == l64(gas64(t.frame.gas))
      gas_limit == IF t.trap.gas = {} THEN after_gas
                   ELSE Min2(after_gas, CHOOSE g \in t.trap.gas : TRUE)
  IN  UNION {{<<[t.frame EXCEPT !.gas = m[1]], e[1], e[2]>> :
                e \in enter_machine(Layer, t.trap, m[2])} :
               m \in submeter(t.frame.gas, gas_limit, t.frame.gas.static \/ t.trap.is_static,
                              has_value(t.trap))}

\* A call or create.  What is refused ends the frame that trapped.
enter_substack ==
  /\ Running /\ Opcode \in Calls \cup Creates
  /\ LET f == Charged
         traps == IF Depth >= config.call_stack_limit THEN {} ELSE TrapData(f)
     IN  /\ f.status = "Running"
         /\ \/ \E t \in traps : \E e \in Entered(t) :
                 /\ calls' = Append(Replace(e[1]), e[2])
                 /\ layers' = Append(layers, e[3])
            \/ /\ traps = {} \/ \E t \in traps : Entered(t) = {}
               /\ calls' = Replace(Exit(f, "Exception"))
               /\ UNCHANGED layers
  /\ UNCHANGED tx

Strategy(status) ==
  IF status \in Succeeds THEN "Commit" ELSE IF status = "Reverted" THEN "Revert" ELSE "Discard"

pop_substate(h, strategy) ==
  IF strategy = "Commit" THEN Append(SubSeq(layers, 1, Len(layers) - 2), h) ELSE Lower(layers)

\* feedback: the word pushed, and the output copied into the caller's memory.
feedback(parent, trap, status, len) ==
  LET copied == copy_large(parent, trap.out_offset, Min2(trap.out_len, len))
      kept == IF copied = {} THEN parent ELSE CHOOSE r \in copied : TRUE
      pushed == IF trap.kind = "Create"
                THEN Operate(parent, 0, <<IF status \in Succeeds THEN trap.target ELSE 0>>)
                ELSE IF status \in Succeeds
                THEN Operate(kept, 0, <<IF copied = {} THEN 0 ELSE 1>>)
                ELSE Operate(IF status = "Reverted" THEN kept ELSE parent, 0, <<0>>)
  IN  IF status = "Fatal" THEN Exit(parent, "Fatal") ELSE [pushed EXCEPT !.retbuf = len]

\* The strategy is chosen from the result of the machine, before the deployment.
exit_substack ==
  /\ tx.status = "running" /\ Depth > 1 /\ Top.status # "Running"
  /\ LET strategy == Strategy(Top.status)
         parent == calls[Depth - 1]
         leave(gas, h, status) ==
           /\ calls' = Append(SubSeq(calls, 1, Depth - 2),
                              feedback([parent EXCEPT !.gas = merge(@, gas, strategy)],
                                       Top.invoke, status, Top.retval))
           /\ layers' = pop_substate(h, strategy)
     IN  IF Top.invoke.kind = "Create" /\ Top.status \in Succeeds
         THEN \E c \in AnyCode(Top.retval) :
                LET d == deploy_create_code(Layer, Top.invoke.target, c, Top.gas)
                IN  leave(d.gas, d.layer, IF d.ok THEN Top.status ELSE "Exception")
         ELSE leave(Top.gas, Layer, Top.status)
  /\ UNCHANGED tx

\* The first frame and its layer; nothing when the transaction is refused.
TransactWork(h, t, address) ==
  LET context == [address |-> address, caller |-> t.caller, value |-> t.value]
      moves == {[source |-> t.caller, target |-> address, value |-> t.value]}
      warm(m) == [m EXCEPT !.hot = @ \cup {<<Coinbase>>, <<t.caller>>, <<address>>}]
      invoke == [kind |-> t.kind]
  IN  IF t.kind = "Call"
      THEN UNION {{<<e[1], warm(e[2])>> :
                     e \in make_enter_call_machine(h, address, t.data, moves, g, context, invoke)} :
                    g \in new_transact(t.gas_limit, call_transaction_cost(0, t.data))}
      ELSE UNION {make_enter_create_machine(h, t.code, moves, g, context, invoke) :
                    g \in new_transact(t.gas_limit, create_transaction_cost(0, Len(t.code)))}

\* The fee is taken and the nonce spent before the substate is pushed.
new_transact_action ==
  /\ tx.status = "new"
  /\ LET t == tx.args
         fee == t.gas_limit * t.gas_price
     IN  \/ /\ withdrawal(Layer, t.caller, fee) = {}
            /\ tx' = [tx EXCEPT !.status = "refused"]
            /\ UNCHANGED <<calls, layers>>
         \/ \E w \in withdrawal(Layer, t.caller, fee) :
              LET h == inc_nonce(w, t.caller)
                  address == IF t.kind = "Call" THEN t.address
                             ELSE create_address(h, [caller |-> t.caller, salt |-> {}])
                  work == TransactWork(h, t, address)
              IN  \/ /\ work = {}
                     /\ tx' = [tx EXCEPT !.status = "refused", !.held = fee]
                     /\ layers' = <<h>>
                     /\ UNCHANGED calls
                  \/ \E e \in work :
                       /\ tx' = [tx EXCEPT !.status = "running", !.held = fee,
                                           !.create_address = address]
                       /\ calls' = <<e[1]>>
                       /\ layers' = <<h, e[2]>>

\* Mutant of coinbase_reward: the refunded part is paid as well.
coinbase_reward_of_fee(gas_fee, refunded_fee) == gas_fee

coinbase_reward(gas_fee, refunded_fee) ==
  IF refunded_fee > gas_fee THEN 0 ELSE gas_fee - refunded_fee

\* The gas left is read before the code of a created contract is paid for.
finalize_transact ==
  /\ tx.status = "running" /\ Depth = 1 /\ Top.status # "Running"
  /\ LET left_gas == effective_gas(Top.gas)
         settle(h, status) ==
           LET left == IF status \in Succeeds \cup {"Reverted"} THEN left_gas ELSE 0
               refunded == left * tx.args.gas_price
               base == IF status \in Succeeds THEN h ELSE layers[1]
           IN  /\ layers' = <<deposit(deposit(base, tx.args.caller, refunded), Coinbase,
                                      coinbase_reward(tx.held, refunded))>>
               /\ tx' = [tx EXCEPT !.status = "done", !.held = 0]
               /\ calls' = <<>>
     IN  IF tx.args.kind = "Create" /\ Top.status \in Succeeds
         THEN \E c \in AnyCode(Top.retval) :
                LET d == deploy_create_code(Layer, tx.create_address, c, Top.gas)
                IN  settle(d.layer, IF d.ok THEN Top.status ELSE "Exception")
         ELSE settle(Layer, Top.status)

Init ==
  /\ \E t \in Transactions : tx = [args |-> t, status |-> "new", held |-> 0, create_address |-> 0]
  /\ calls = <<>>
  /\ \E programs \in Accounts :
       layers = <<[balance |-> Funds, nonce |-> Empty, code |-> programs, storage |-> Empty,
                   hot |-> {}, logs |-> 0, deleted |-> {}]>>

Next == new_transact_action \/ Step \/ enter_substack \/ exit_substack \/ finalize_transact

Spec == Init /\ [][Next]_vars
-----------------------------------------------------------------------------
(* Properties *)

TotalBalance(h) == MapThenSumSet(LAMBDA a : h.balance[a], DOMAIN h.balance)

\* No meter is overdrawn, and a caller has paid at least what its callee may still
\* give back: the subtraction of merge and the ones of gas64 cannot underflow.
MetersCovered ==
  /\ \A i \in DOMAIN calls : 0 <= gas64(calls[i].gas) /\ gas64(calls[i].gas) <= calls[i].gas.limit
  /\ \A i \in 1 .. Depth - 1 : gas64(calls[i + 1].gas) <= calls[i].gas.used

\* From the moment a static frame starts, nothing but access marks changes, in it or
\* in any call made below it, however the call is made.
StaticIsPure ==
  \A i \in DOMAIN calls : calls[i].gas.static =>
    \A j \in i + 1 .. Len(layers) : World(layers[j]) = World(layers[i])

\* Balances and the fee held by the invoker add up to what there was before the
\* transaction, whatever is called, created, reverted or refunded; only a contract
\* that names itself as the heir of its SUICIDE destroys value.
ValueConserved ==
  LET total == TotalBalance(Layer) + tx.held
      funds == MapThenSumSet(LAMBDA a : Funds[a], DOMAIN Funds)
  IN  total <= funds /\ (Layer.deleted = {} => total = funds)

=============================================================================
