----------------------------- MODULE EvmOpcodes -----------------------------
(***************************************************************************)
(* The instructions of the EVM by their byte (opcode.rs).                  *)
(***************************************************************************)
EXTENDS Integers

Op == [STOP |-> 0, ADD |-> 1, MUL |-> 2, SUB |-> 3, DIV |-> 4, SDIV |-> 5, MOD |-> 6, SMOD |-> 7,
       ADDMOD |-> 8, MULMOD |-> 9, EXP |-> 10, SIGNEXTEND |-> 11, LT |-> 16, GT |-> 17,
       SLT |-> 18, SGT |-> 19, EQ |-> 20, ISZERO |-> 21, AND |-> 22, OR |-> 23, XOR |-> 24,
       NOT |-> 25, BYTE |-> 26, SHL |-> 27, SHR |-> 28, SAR |-> 29, SHA3 |-> 32, ADDRESS |-> 48,
       BALANCE |-> 49, ORIGIN |-> 50, CALLER |-> 51, CALLVALUE |-> 52, CALLDATALOAD |-> 53,
       CALLDATASIZE |-> 54, CALLDATACOPY |-> 55, CODESIZE |-> 56, CODECOPY |-> 57,
       GASPRICE |-> 58, EXTCODESIZE |-> 59, EXTCODECOPY |-> 60, RETURNDATASIZE |-> 61,
       RETURNDATACOPY |-> 62, EXTCODEHASH |-> 63, BLOCKHASH |-> 64, COINBASE |-> 65,
       TIMESTAMP |-> 66, NUMBER |-> 67, DIFFICULTY |-> 68, GASLIMIT |-> 69, CHAINID |-> 70,
       SELFBALANCE |-> 71, BASEFEE |-> 72, POP |-> 80, MLOAD |-> 81, MSTORE |-> 82,
       MSTORE8 |-> 83, SLOAD |-> 84, SSTORE |-> 85, JUMP |-> 86, JUMPI |-> 87, PC |-> 88,
       MSIZE |-> 89, GAS |-> 90, JUMPDEST |-> 91, PUSH0 |-> 95, PUSH1 |-> 96, PUSH32 |-> 127,
       DUP1 |-> 128, DUP16 |-> 143, SWAP1 |-> 144, SWAP16 |-> 159, LOG0 |-> 160, LOG4 |-> 164,
       CREATE |-> 240, CALL |-> 241, CALLCODE |-> 242, RETURN |-> 243, DELEGATECALL |-> 244,
       CREATE2 |-> 245, EOFMAGIC |-> 239, STATICCALL |-> 250, REVERT |-> 253, INVALID |-> 254,
       SUICIDE |-> 255]

is_push(o) == IF o \in Op.PUSH1 .. Op.PUSH32 THEN o - Op.PUSH1 + 1 ELSE 0
=============================================================================
