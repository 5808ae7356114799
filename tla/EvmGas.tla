------------------------------- MODULE EvmGas -------------------------------
(***************************************************************************)
(* The gasometer of the EVM: evm_interpreter/src/evmgasometer and the      *)
(* Shanghai configuration of config.rs.  Gas is a u64; U64Max stands for   *)
(* its largest value.  A cost the code cannot represent is larger than     *)
(* every gas limit, so its OutOfGas is the one of recording it.  After it   *)
(* the contracts that are only charges: the precompiled ones.              *)
(***************************************************************************)
EXTENDS Integers

CONSTANTS U64Max,        \* u64::MAX and usize::MAX, scaled
          StackLimit, CallStackLimit, CreateContractLimit, MaxInitcodeSize,
          ModexpLengths,  \* lengths an input of Modexp may state
          Blake2Rounds    \* rounds an input of Blake2F may state

-----------------------------------------------------------------------------
(* config.rs *)

DerivedConfigInputs_shanghai ==
  [gas_storage_read_warm |-> 100, gas_sload_cold |-> 2100, gas_access_list_storage_key |-> 1900,
   decrease_clears_refund |-> TRUE, max_initcode_size |-> {MaxInitcodeSize}]

config_with_derived_values(inputs) ==
  LET gas_sstore_reset == 5000 - inputs.gas_sload_cold
  IN  [gas_ext_code |-> 0, gas_ext_code_hash |-> 0, gas_balance |-> 0, gas_call |-> 0,
       gas_sload |-> inputs.gas_storage_read_warm, gas_sload_cold |-> inputs.gas_sload_cold,
       gas_sstore_set |-> 20000, gas_sstore_reset |-> gas_sstore_reset,
       refund_sstore_clears |-> IF inputs.decrease_clears_refund
                                THEN gas_sstore_reset + inputs.gas_access_list_storage_key
                                ELSE 15000,
       max_refund_quotient |-> IF inputs.decrease_clears_refund THEN 5 ELSE 2,
       gas_suicide |-> 5000, gas_suicide_new_account |-> 25000, gas_expbyte |-> 50,
       gas_transaction_create |-> 53000, gas_transaction_call |-> 21000,
       gas_transaction_zero_data |-> 4, gas_transaction_non_zero_data |-> 16,
       gas_account_access_cold |-> 2600, gas_storage_read_warm |-> inputs.gas_storage_read_warm,
       stack_limit |-> StackLimit, call_stack_limit |-> CallStackLimit,
       create_contract_limit |-> CreateContractLimit,
       max_initcode_size |-> inputs.max_initcode_size, call_stipend |-> 2300,
       decrease_clears_refund |-> inputs.decrease_clears_refund]

config == config_with_derived_values(DerivedConfigInputs_shanghai)

-----------------------------------------------------------------------------
(* consts.rs *)

G == [BASE |-> 2, VERYLOW |-> 3, LOW |-> 5, MID |-> 8, HIGH |-> 10, JUMPDEST |-> 1,
      CREATE |-> 32000, CALLVALUE |-> 9000, NEWACCOUNT |-> 25000, EXP |-> 10, MEMORY |-> 3,
      LOG |-> 375, LOGDATA |-> 8, LOGTOPIC |-> 375, SHA3 |-> 30, SHA3WORD |-> 6, COPY |-> 3,
      BLOCKHASH |-> 20, CODEDEPOSIT |-> 200, SUICIDE_REFUND |-> 24000]

-----------------------------------------------------------------------------
(* costs.rs *)

Words32(len) == (len + 31) \div 32

suicide_refund(already_removed) == IF already_removed THEN 0 ELSE G.SUICIDE_REFUND

sstore_refund(original, current, new) ==
  IF current = new THEN 0
  ELSE IF original = current /\ new = 0 THEN config.refund_sstore_clears
  ELSE (IF original = 0 THEN 0
        ELSE IF current = 0 THEN -config.refund_sstore_clears
        ELSE IF new = 0 THEN config.refund_sstore_clears ELSE 0)
     + (IF original # new THEN 0
        ELSE IF original = 0 THEN config.gas_sstore_set - config.gas_sload
        ELSE config.gas_sstore_reset - config.gas_sload)

create2_cost(len) == G.CREATE + G.SHA3WORD * Words32(len)

\* util.rs: log2floor(power) / 8 + 1 is the number of bytes of power.
exp_cost(power) ==
  G.EXP + config.gas_expbyte *
    (IF power = 0 THEN 0 ELSE IF power < 256 THEN 1 ELSE IF power < 65536 THEN 2 ELSE 3)

verylowcopy_cost(len) == G.VERYLOW + G.COPY * Words32(len)

address_access_cost(is_cold) ==
  IF is_cold THEN config.gas_account_access_cold ELSE config.gas_storage_read_warm

extcodecopy_cost(len, is_cold) == address_access_cost(is_cold) + G.COPY * Words32(len)
log_cost(n, len) == G.LOG + G.LOGDATA * len + G.LOGTOPIC * n
sha3_cost(len) == G.SHA3 + G.SHA3WORD * Words32(len)
sload_cost(is_cold) == IF is_cold THEN config.gas_sload_cold ELSE config.gas_storage_read_warm

\* An empty set is the error of a call with no more than the stipend left.
sstore_cost(original, current, new, gas, is_cold) ==
  IF gas <= config.call_stipend THEN {}
  ELSE {(IF new = current \/ original # current THEN config.gas_sload
         ELSE IF original = 0 THEN config.gas_sstore_set ELSE config.gas_sstore_reset)
        + (IF is_cold THEN config.gas_sload_cold ELSE 0)}

suicide_cost(value, is_cold, target_exists) ==
  config.gas_suicide
  + (IF value # 0 /\ ~ target_exists THEN config.gas_suicide_new_account ELSE 0)
  + (IF is_cold THEN config.gas_account_access_cold ELSE 0)

xfer_cost(is_call_or_callcode, transfers_value) ==
  IF is_call_or_callcode /\ transfers_value THEN G.CALLVALUE ELSE 0

new_cost(is_call_or_staticcall, new_account, transfers_value) ==
  IF is_call_or_staticcall /\ transfers_value /\ new_account THEN G.NEWACCOUNT ELSE 0

call_cost(value, is_cold, is_call_or_callcode, is_call_or_staticcall, new_account) ==
  address_access_cost(is_cold) + xfer_cost(is_call_or_callcode, value # 0)
  + new_cost(is_call_or_staticcall, new_account, value # 0)

memory_gas(a) == G.MEMORY * a + ((a * a) \div 512)

-----------------------------------------------------------------------------
(* mod.rs: GasometerState.  A failing operation gives the empty set. *)

Gasometer(gas_limit, is_static) ==
  [limit |-> gas_limit, memory |-> 0, used |-> 0, refunded |-> 0, static |-> is_static]

oog(g) == [g EXCEPT !.memory = 0, !.refunded = 0, !.used = g.limit]
total_used_gas(g) == g.used + g.memory
gas64(g) == g.limit - g.memory - g.used

record_gas64(g, cost) ==
  IF g.limit < total_used_gas(g) + cost THEN {} ELSE {[g EXCEPT !.used = @ + cost]}

set_memory_gas(g, memory_cost) ==
  IF g.limit < g.used + memory_cost THEN {} ELSE {[g EXCEPT !.memory = memory_cost]}

perform(g, result) == IF result = {} THEN oog(g) ELSE CHOOSE r \in result : TRUE

record_codedeposit(g, len) == record_gas64(g, len * G.CODEDEPOSIT)

\* TransactionCost::cost; the access list is empty.
call_transaction_cost(zeros, non_zeros) ==
  config.gas_transaction_call + zeros * config.gas_transaction_zero_data
  + non_zeros * config.gas_transaction_non_zero_data

create_transaction_cost(zeros, non_zeros) ==
  config.gas_transaction_create + zeros * config.gas_transaction_zero_data
  + non_zeros * config.gas_transaction_non_zero_data
  + (IF config.max_initcode_size = {} THEN 0 ELSE 2 * Words32(zeros + non_zeros))

new_transact(gas_limit, cost) ==
  IF gas_limit > U64Max THEN {} ELSE record_gas64(Gasometer(gas_limit, FALSE), cost)

effective_gas(g) ==
  LET cap == total_used_gas(g) \div config.max_refund_quotient
  IN  g.limit - (total_used_gas(g) - (IF g.refunded < cap THEN g.refunded ELSE cap))

\* Mutant of WithStipend: every call gets the stipend.
WithStipend_always(gas_limit, call_has_value) == gas_limit + config.call_stipend

\* Limit of a callee: what the caller gives and, when value moves, the stipend.
WithStipend(gas_limit, call_has_value) ==
  LET limit == gas_limit + (IF call_has_value THEN config.call_stipend ELSE 0)
  IN  IF limit > U64Max THEN U64Max ELSE limit

\* The meter of the caller and the one of the callee.
submeter(g, gas_limit, is_static, call_has_value) ==
  IF gas_limit > U64Max THEN {}
  ELSE {<<r, Gasometer(WithStipend(gas_limit, call_has_value), is_static)>> :
          r \in record_gas64(g, gas_limit)}

merge(g, other, strategy) ==
  [g EXCEPT !.used = IF strategy = "Discard" THEN @ ELSE @ - gas64(other),
            !.refunded = IF strategy = "Commit" THEN @ + other.refunded ELSE @]

-----------------------------------------------------------------------------
(* MemoryCost: an offset and a length *)

join(m, n) ==
  IF m.len = 0 THEN n
  ELSE IF n.len = 0 THEN m
  ELSE IF m.offset + m.len >= n.offset + n.len THEN m ELSE n

\* The gas a meter ends with when the memory reaches m; no charge for length zero.
charge_memory(g, m) ==
  IF m.len = 0 THEN {g}
  ELSE IF m.offset + m.len > U64Max THEN {}
  ELSE LET cost == memory_gas(Words32(m.offset + m.len))
       IN  set_memory_gas(g, IF cost > g.memory THEN cost ELSE g.memory)

-----------------------------------------------------------------------------
(* The contracts at addresses 1 to 9, crate evm_precompile.  What they     *)
(* compute is left out; the model keeps the order of their checks and      *)
(* charges, how they end and the length of their output.  The bytes of the *)
(* input are not known, so an outcome is a member of a set.                *)

Returned(g, len) == [gas |-> g, status |-> "Returned", len |-> len]
Failed(g) == [gas |-> g, status |-> "Exception", len |-> 0]

\* record_gas, then one of the results, or the OutOfGas of recording.
Charge(g, cost, Result(_)) ==
  IF record_gas64(g, cost) = {} THEN {Failed(g)}
  ELSE UNION {Result(r) : r \in record_gas64(g, cost)}

linear_cost(len, base, word) == base + word * Words32(len)

\* A v that is not 27 or 28 returns nothing; a bad signature is an error.
ECRecover(len, g) ==
  Charge(g, linear_cost(len, 3000, 0),
         LAMBDA r : {Returned(r, 0)} \cup (IF len < 64 THEN {} ELSE {Failed(r), Returned(r, 32)}))

Sha256(len, g) == Charge(g, linear_cost(len, 600, 120), LAMBDA r : {Returned(r, 32)})
Ripemd160(len, g) == Charge(g, linear_cost(len, 60, 12), LAMBDA r : {Returned(r, 32)})
Identity(len, g) == Charge(g, linear_cost(len, 15, 3), LAMBDA r : {Returned(r, len)})

calculate_gas_cost(base_length, mod_length, exp_length, bits, mod_is_even) ==
  LET longer == IF base_length > mod_length THEN base_length ELSE mod_length
      words == (longer + 7) \div 8
      count == IF exp_length > 32 THEN 8 * (exp_length - 32) + bits - 1 ELSE bits - 1
      cost == (words * words * (IF count < 1 THEN 1 ELSE count)) \div 3
  IN  (IF cost < 200 THEN 200 ELSE cost) * (IF mod_is_even THEN 20 ELSE 1)

\* The lengths are read from the first 96 bytes; what is missing is zero.
Modexp(len, g) ==
  UNION {IF \E l \in {b, e, m} : l > 1024 THEN {Failed(g)}
         ELSE IF m = 0 THEN {Returned(g, 0)}
         ELSE UNION {Charge(g, calculate_gas_cost(b, m, e, bits, even),
                            LAMBDA r : {Returned(r, m)}) :
                       bits \in {0, 8 * (IF e < 32 THEN e ELSE 32)}, even \in BOOLEAN} :
           b \in {l \in ModexpLengths : l = 0 \/ len > 0},
           e \in {l \in ModexpLengths : l = 0 \/ len > 32},
           m \in {l \in ModexpLengths : l = 0 \/ len > 64}}

\* A point is read with zeros for what is missing, and need not be on the curve.
Bn128Add(len, g) ==
  Charge(g, 150, LAMBDA r : {Returned(r, 64)} \cup (IF len = 0 THEN {} ELSE {Failed(r)}))
Bn128Mul(len, g) ==
  Charge(g, 6000, LAMBDA r : {Returned(r, 64)} \cup (IF len = 0 THEN {} ELSE {Failed(r)}))

Bn128Pairing(len, g) ==
  IF len % 192 > 0 THEN {Failed(g)}
  ELSE Charge(g, 45000 + (len \div 192) * 34000,
              LAMBDA r : {Returned(r, 32)} \cup (IF len = 0 THEN {} ELSE {Failed(r)}))

\* The flag of the final block is checked after the charge.
Blake2F(len, g) ==
  IF len # 213 THEN {Failed(g)}
  ELSE UNION {Charge(g, rounds, LAMBDA r : {Returned(r, 64), Failed(r)}) : rounds \in Blake2Rounds}

Precompiles == 1 .. 9

\* StandardPrecompileSet::execute
execute(address, len, g) ==
  CASE address = 1 -> ECRecover(len, g)
    [] address = 2 -> Sha256(len, g)
    [] address = 3 -> Ripemd160(len, g)
    [] address = 4 -> Identity(len, g)
    [] address = 5 -> Modexp(len, g)
    [] address = 6 -> Bn128Add(len, g)
    [] address = 7 -> Bn128Mul(len, g)
    [] address = 8 -> Bn128Pairing(len, g)
    [] address = 9 -> Blake2F(len, g)
=============================================================================
