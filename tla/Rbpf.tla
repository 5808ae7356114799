-------------------------------- MODULE Rbpf --------------------------------
(***************************************************************************)
(* The eBPF machine of L1XVM contracts: what is checked when an object is  *)
(* deployed and when it is run (l1x-ebpf-runtime lib.rs), the verifier and *)
(* the interpreter (l1x-rbpf verifier.rs, lib.rs) and the shared memory.   *)
(* An instruction keeps its class, registers, offset and immediate;        *)
(* positions count instructions from 1.  Values are left out except r6,    *)
(* which stands for the callee-saved registers, and the frame pointer r10, *)
(* which counts stack frames from the bottom of the stack.                 *)
(***************************************************************************)
EXTENDS Integers, Sequences, FiniteSets

CONSTANTS Objects, Functions, Hash, MaxCallDepth, MaxSharedMemoryPages,
          CurrentObjectVersion, CurrentRuntimeVersion, DepositFeature,
          GasLimit, GasMax, basic_instruction, api_call

Instruction == [opc : STRING, dst : Int, src : Int, off : Int, imm : Int]
Relocation == [type : STRING, at : Int, symbol : STRING, value : Int]

\* An object is what the ELF reader returns, and every name has a hash.
ASSUME RbpfAssumption ==
  /\ MaxCallDepth \in Nat /\ MaxSharedMemoryPages \in Nat
  /\ GasLimit \in Nat /\ GasMax \in Nat /\ basic_instruction \in Nat /\ api_call \in Nat
  /\ \A name \in DOMAIN Hash : Hash[name] \in Int
  /\ \A o \in Objects :
       /\ o.text \in Seq(Instruction) /\ o.relocs \in Seq(Relocation)
       /\ \A f \in DOMAIN o.functions : o.functions[f] \in Int
       /\ \A m \in o.memory : m.min \in Nat /\ m.max \in Nat
       /\ \A i \in DOMAIN o.relocs :
            o.relocs[i].type = "64_32" =>
              o.relocs[i].symbol \in DOMAIN Hash \cup {"unknown", "function"}

VARIABLES object,     \* the contract code, or NoObject
          deployed,   \* the verdict of its deployment
          vm          \* the running program

vars == <<object, deployed, vm>>

NoObject == [text |-> <<>>]
DataAddress == 2 * MaxCallDepth

\* opcodes by what the verifier and the interpreter do with them; "pad" is 0
JmpClass == {"ja", "jcond", "call", "exit", "tail_call"}
Arithmetic == {"alu", "div32_reg", "checked64"}
Known == {"ld", "lddw", "ldx", "st", "stx", "end", "jcond32"} \cup Arithmetic \cup JmpClass
Jumps == {"ja", "jcond", "jcond32"}
Stores == {"lddw", "st", "stx"}
Insn(opc, dst, src, off, imm) ==
  [opc |-> opc, dst |-> dst, src |-> src, off |-> off, imm |-> imm]

-----------------------------------------------------------------------------
(* verifier.rs *)

check_prog_len(prog) ==
  IF prog = <<>> \/ prog[Len(prog)].opc \notin JmpClass THEN "reject" ELSE "ok"

check_imm_endian(insn) == IF insn.imm \in {16, 32, 64} THEN "ok" ELSE "reject"

check_load_dw(prog, p) == IF prog[p + 1].opc = "pad" THEN "ok" ELSE "reject"

\* Mutant of check_jmp_offset: the target may be the second half of an LD_DW.
check_jmp_offset_range(prog, p) ==
  IF p + 1 + prog[p].off \in DOMAIN prog THEN "ok" ELSE "reject"

check_jmp_offset(prog, p) ==
  LET target == p + 1 + prog[p].off
  IN  IF target \in DOMAIN prog /\ prog[target].opc # "pad" THEN "ok" ELSE "reject"

check_registers(insn) ==
  IF /\ insn.src <= 10
     /\ insn.dst <= 9 \/ (insn.dst = 10 /\ insn.opc \in Stores)
  THEN "ok" ELSE "reject"

check_insn(prog, p) ==
  LET insn == prog[p]
      first == CASE insn.opc \in {"xadd", "tail_call"} -> "panic"
                 [] insn.opc \notin Known \cup {"xadd"} -> "reject"
                 [] insn.opc = "lddw" -> check_load_dw(prog, p)
                 [] insn.opc = "end" -> check_imm_endian(insn)
                 [] insn.opc \in Jumps -> check_jmp_offset(prog, p)
                 [] OTHER -> "ok"
  IN  IF first = "ok" THEN check_registers(insn) ELSE first

\* The loop goes from instruction to instruction and past the second half of an
\* LD_DW; it ends at the first one that check_insn does not accept.
check(prog) ==
  LET second(p) == prog[p].opc = "pad" /\ p > 1 /\ prog[p - 1].opc = "lddw"
      failing == {p \in DOMAIN prog : ~second(p) /\ check_insn(prog, p) # "ok"}
  IN  IF check_prog_len(prog) # "ok" THEN check_prog_len(prog)
      ELSE IF failing = {} THEN "ok"
      ELSE check_insn(prog, CHOOSE p \in failing : \A q \in failing : p <= q)

-----------------------------------------------------------------------------
(* l1x-ebpf-runtime lib.rs: relocation and the sections of an object.  A    *)
(* relocation names an instruction of .text and a symbol; a symbol is a     *)
(* function of the object, an undefined name, or data.                      *)

is_allowed_syscall(version, name) ==
  ~(version.runtime >= DepositFeature /\ name = "env_transfer_from_caller")

R_BPF_64_64(o, text, r) ==
  IF r.symbol = "unknown" THEN [verdict |-> "reject", text |-> text]
  ELSE [verdict |-> "ok",
        text |-> [p \in DOMAIN text |->
                    IF p \in {r.at, r.at + 1} THEN [text[p] EXCEPT !.imm = DataAddress]
                    ELSE text[p]]]

\* Copies a string next to the data; past the end of the buffer the index panics.
R_BPF_64_ABS64(o, text, r) ==
  [verdict |-> CASE r.symbol = "unknown" -> "reject"
                 [] r.symbol = "long" -> "panic"
                 [] OTHER -> "ok",
   text |-> text]

\* The distance of a function, or the number of a system call.  Register fields
\* share a byte, which a system call clears.
R_BPF_64_32(o, text, r) ==
  IF r.symbol = "unknown" THEN [verdict |-> "reject", text |-> text]
  ELSE IF r.symbol = "function"
  THEN IF r.value \notin DOMAIN text THEN [verdict |-> "reject", text |-> text]
       ELSE [verdict |-> "ok", text |-> [text EXCEPT ![r.at].imm = r.value - (r.at + 1)]]
  ELSE IF ~is_allowed_syscall(o.version, r.symbol) THEN [verdict |-> "reject", text |-> text]
  ELSE [verdict |-> "ok",
        text |-> [text EXCEPT ![r.at] = [@ EXCEPT !.dst = 0, !.src = 0, !.imm = Hash[r.symbol]]]]

relocate_entry(o, state, r) ==
  CASE state.verdict # "ok" -> state
    [] r.type = "64_64" -> R_BPF_64_64(o, state.text, r)
    [] r.type = "abs64" -> R_BPF_64_ABS64(o, state.text, r)
    [] r.type = "64_32" -> R_BPF_64_32(o, state.text, r)
    [] OTHER -> [verdict |-> "reject", text |-> state.text]

\* After the first n relocations.
relocations(o) ==
  LET after[n \in 0 .. Len(o.relocs)] ==
        IF n = 0 THEN [verdict |-> "ok", text |-> o.text]
        ELSE relocate_entry(o, after[n - 1], o.relocs[n])
  IN  after

relocate(o) ==
  IF "data" \notin o.sections \/ "_version" \notin o.sections
  THEN [verdict |-> "reject", text |-> o.text] ELSE relocations(o)[Len(o.relocs)]

find_function(o, name) == IF name \in DOMAIN o.functions THEN {o.functions[name]} ELSE {}

\* The memory a program starts with; the empty set is an error.
create_shared_memory(o) ==
  IF o.memory = {} THEN {[max |-> 0, pages |-> 0]}
  ELSE {[max |-> IF m.max = 0 THEN MaxSharedMemoryPages ELSE m.max, pages |-> m.min] :
          m \in {n \in o.memory : n.min <= MaxSharedMemoryPages /\ n.max <= MaxSharedMemoryPages}}

verify_version(v) ==
  IF v.object = CurrentObjectVersion /\ v.runtime \in 1 .. CurrentRuntimeVersion
  THEN "ok" ELSE "reject"

verify_ebpf(o) ==
  LET relocated == relocate(o)
  IN  IF relocated.verdict # "ok" THEN relocated.verdict
      ELSE IF check(relocated.text) # "ok" THEN check(relocated.text)
      ELSE IF verify_version(o.version) # "ok" THEN "reject"
      ELSE IF create_shared_memory(o) = {} THEN "reject" ELSE "ok"

-----------------------------------------------------------------------------
Idle == [status |-> "idle", why |-> "", prog |-> <<>>, pc |-> 0, frames |-> <<>>, r6 |-> 0,
         r10 |-> MaxCallDepth, burnt |-> 0, memory |-> [max |-> 0, pages |-> 0]]

Init == object = NoObject /\ deployed = "no" /\ vm = Idle

\* validate_contract_l1xvm: a deployment is refused unless verify_ebpf accepts it.
Deploy ==
  /\ deployed = "no"
  /\ object' \in Objects /\ deployed' = verify_ebpf(object')
  /\ UNCHANGED vm

\* run_internal up to the first instruction.
run_internal(name) ==
  LET relocated == relocate(object)
      refused(why) == [Idle EXCEPT !.status = "refused", !.why = why]
  IN  /\ deployed = "ok" /\ vm.status = "idle"
      /\ vm' = IF verify_version(object.version) # "ok" THEN refused("version")
               ELSE IF relocated.verdict # "ok" THEN refused("relocation")
               ELSE IF find_function(object, name) = {} THEN refused("function")
               ELSE IF check(relocated.text) # "ok" THEN refused("program")
               ELSE IF create_shared_memory(object) = {} THEN refused("memory")
               ELSE LET memory == CHOOSE m \in create_shared_memory(object) : TRUE
                    IN  [Idle EXCEPT !.status = "running", !.prog = relocated.text,
                                     !.pc = CHOOSE p \in find_function(object, name) : TRUE,
                                     !.memory = memory]
      /\ UNCHANGED <<object, deployed>>

-----------------------------------------------------------------------------
(* lib.rs: execute_program, one instruction per step.  left() = 0 ends the   *)
(* program before the instruction, burn follows it.                          *)

left == IF vm.burnt >= GasLimit THEN 0 ELSE GasLimit - vm.burnt
burn(burnt, gas) == IF burnt + gas > GasMax THEN GasMax ELSE burnt + gas

Fetch(classes) ==
  /\ vm.status = "running" /\ vm.pc \in DOMAIN vm.prog /\ left > 0
  /\ vm.prog[vm.pc].opc \in classes

insn == vm.prog[vm.pc]
Halt(status) == vm' = [vm EXCEPT !.status = status] /\ UNCHANGED <<object, deployed>>

\* The end of the loop: the program goes on at pc and has paid for the instruction.
Continue(next, pc) ==
  /\ vm' = [next EXCEPT !.pc = pc, !.burnt = burn(next.burnt, basic_instruction)]
  /\ UNCHANGED <<object, deployed>>

\* A result of an instruction goes to its destination; only r6 is followed.
Written(dst) ==
  IF dst = 6 THEN {[vm EXCEPT !.r6 = v] : v \in {0, 1}} ELSE {vm}

OutOfGas == vm.status = "running" /\ vm.pc \in DOMAIN vm.prog /\ left = 0 /\ Halt("error")

\* The address is in the metadata, the argument memory or the stack, or not.
\* Through r10 it is the slot below the frame pointer.
check_mem(base) ==
  IF base = 10 /\ vm.r10 <= MaxCallDepth THEN {vm.r10 - 1 \in 0 .. MaxCallDepth - 1} ELSE BOOLEAN

\* LD_ABS and LD_IND read from the argument memory into r0.
LoadArgument ==
  /\ Fetch({"ld"})
  /\ Continue(vm, vm.pc + 1) \/ Halt("error")

Load ==
  /\ Fetch({"ldx"})
  /\ \E ok \in check_mem(insn.src) :
       IF ok THEN \E next \in Written(insn.dst) : Continue(next, vm.pc + 1) ELSE Halt("error")

Store ==
  /\ Fetch({"st", "stx"})
  /\ \E ok \in check_mem(insn.dst) : IF ok THEN Continue(vm, vm.pc + 1) ELSE Halt("error")

LoadImmediate ==
  /\ Fetch({"lddw"})
  /\ \E next \in Written(insn.dst) :
       Continue(IF insn.dst = 10 THEN [next EXCEPT !.r10 = insn.imm] ELSE next, vm.pc + 2)

\* "div32_reg" divides by the low half of a register that is not zero as a
\* whole; "checked64" are the operations that overflow checks can stop.
Compute ==
  /\ Fetch(Arithmetic \cup {"end"})
  /\ \/ \E next \in Written(insn.dst) : Continue(next, vm.pc + 1)
     \/ insn.opc \in {"div32_reg", "checked64"} /\ Halt("panic")

Jump ==
  /\ Fetch(Jumps)
  /\ \/ Continue(vm, vm.pc + 1 + insn.off)
     \/ insn.opc # "ja" /\ Continue(vm, vm.pc + 1)

MemoryGrow(pages) ==
  IF vm.memory.pages + pages <= vm.memory.max
  THEN {[vm EXCEPT !.memory.pages = @ + pages]} ELSE {}

\* The helpers: growing the memory, and the others, which fail or return.
Helper(name) ==
  IF name = "syscall_memory_op64" THEN {vm} \cup MemoryGrow(0) \cup MemoryGrow(1) ELSE {vm}

HelperCall ==
  /\ Fetch({"call"}) /\ insn.src = 0
  /\ \/ \E name \in DOMAIN Hash :
          /\ insn.imm = Hash[name]
          /\ \E next \in Helper(name) :
               Continue([next EXCEPT !.burnt = burn(@, api_call)], vm.pc + 1)
     \/ Halt("error")

CallFrame == [r6 |-> vm.r6, r10 |-> vm.r10, pc |-> vm.pc + 1]

\* Mutant of LocalCall: one more frame than the stack has.
LocalCall_deeper ==
  /\ Fetch({"call"}) /\ insn.src # 0
  /\ IF Len(vm.frames) > MaxCallDepth THEN Halt("error")
     ELSE Continue([vm EXCEPT !.frames = Append(@, CallFrame), !.r10 = @ - 1],
                   vm.pc + 1 + insn.imm)

LocalCall ==
  /\ Fetch({"call"}) /\ insn.src # 0
  /\ IF Len(vm.frames) >= MaxCallDepth THEN Halt("error")
     ELSE Continue([vm EXCEPT !.frames = Append(@, CallFrame), !.r10 = @ - 1],
                   vm.pc + 1 + insn.imm)

Exit ==
  /\ Fetch({"exit"})
  /\ IF vm.frames = <<>> THEN Halt("returned")
     ELSE LET frame == vm.frames[Len(vm.frames)]
          IN  Continue([vm EXCEPT !.frames = SubSeq(@, 1, Len(@) - 1), !.r6 = frame.r6,
                                  !.r10 = frame.r10], frame.pc)

\* The interpreter meets what it has no case for: unreachable!(), in the match
\* or behind the loop.
Unreachable ==
  /\ vm.status = "running"
  /\ \/ vm.pc \notin DOMAIN vm.prog
     \/ Fetch({"pad", "xadd", "tail_call", "unknown"})
  /\ Halt("panic")

Next ==
  \/ Deploy
  \/ \E name \in Functions : run_internal(name)
  \/ OutOfGas \/ LoadArgument \/ Load \/ Store \/ LoadImmediate \/ Compute \/ Jump
  \/ HelperCall \/ LocalCall \/ Exit \/ Unreachable

Spec == Init /\ [][Next]_vars

-----------------------------------------------------------------------------
\* What the verifier leaves to the compiler: the last instruction does not fall
\* through, and functions are entered at instructions.
WellFormed(prog) ==
  LET entered == {object.functions[f] : f \in DOMAIN object.functions} \cup
                 {p + 1 + prog[p].imm :
                    p \in {q \in DOMAIN prog : prog[q].opc = "call" /\ prog[q].src # 0}}
  IN  /\ prog[Len(prog)].opc \in {"exit", "ja"}
      /\ \A p \in entered : p \in DOMAIN prog /\ prog[p].opc # "pad"

\* The interpreter stops the node only at an arithmetic instruction: every
\* other unreachable!() of execute_program, and the one behind its loop, is kept
\* out by verifier::check, for programs that end in EXIT or JA and whose calls
\* and entry points are instructions.
StopsOnlyAtArithmetic ==
  vm.status = "panic" /\ WellFormed(vm.prog) =>
    vm.pc \in DOMAIN vm.prog /\ insn.opc \in {"div32_reg", "checked64"}

\* The frame pointer follows the call depth: each frame of execute_program has
\* its own slot of the stack and a return gives the caller its slot back, as long
\* as no LD_DW writes r10.
FramesMatch ==
  (\A p \in DOMAIN vm.prog : vm.prog[p].opc = "lddw" => vm.prog[p].dst # 10) =>
    /\ Len(vm.frames) <= MaxCallDepth
    /\ \A i \in DOMAIN vm.frames : vm.frames[i].r10 = MaxCallDepth - i + 1
    /\ vm.r10 = MaxCallDepth - Len(vm.frames)

=============================================================================
