----------------------------- MODULE RbpfProofs -----------------------------
(***************************************************************************)
(* The properties of Rbpf for every set of objects, every call depth and   *)
(* every price of the instructions.  The interpreter does not check where  *)
(* it fetches from, so what verifier::check accepted has to be carried     *)
(* along: while a program runs its code is accepted, and the next          *)
(* instruction and the return addresses of all frames are instructions,    *)
(* never the second half of an LD_DW.                                      *)
(***************************************************************************)
EXTENDS Rbpf, SequenceTheorems, WellFoundedInduction, TLAPS

Frame == [r6 : Int, r10 : Int, pc : Int]
Memory == [max : Int, pages : Int]
Status == {"idle", "refused", "running", "error", "returned", "panic"}
Reasons == {"", "version", "relocation", "function", "program", "memory"}
Machine ==
  [status : Status, why : Reasons, prog : Seq(Instruction), pc : Int, frames : Seq(Frame),
   r6 : Int, r10 : Int, burnt : Int, memory : Memory]

RbpfTypes ==
  /\ vm \in Machine
  /\ deployed # "no" => object \in Objects
  /\ vm.status # "idle" => deployed # "no"

AtInstruction(prog, p) == p \in DOMAIN prog /\ prog[p].opc # "pad"

\* Where the machine v goes on, and where its callers do.
AtInstructions(v) ==
  WellFormed(v.prog) =>
    AtInstruction(v.prog, v.pc) /\ \A i \in DOMAIN v.frames : AtInstruction(v.prog, v.frames[i].pc)

\* FramesMatch, of the machine v.
FramesFit(v) ==
  (\A p \in DOMAIN v.prog : v.prog[p].opc = "lddw" => v.prog[p].dst # 10) =>
    /\ Len(v.frames) <= MaxCallDepth
    /\ \A i \in DOMAIN v.frames : v.frames[i].r10 = MaxCallDepth - i + 1
    /\ v.r10 = MaxCallDepth - Len(v.frames)

IInv ==
  /\ RbpfTypes
  /\ vm.status = "running" => check(vm.prog) = "ok" /\ AtInstructions(vm)
  /\ StopsOnlyAtArithmetic
  /\ FramesFit(vm)

-----------------------------------------------------------------------------
\* What verifier::check accepts.

LEMMA Smallest ==
  ASSUME NEW S \in SUBSET Nat, S # {}
  PROVE  \E p \in S : \A q \in S : p <= q
<1>1. PICK y \in S : \A z \in S : ~ (<<z, y>> \in OpToRel(<, Nat))
  BY WFMin, NatLessThanWellFounded
<1>2. \A z \in S : y <= z
  <2> TAKE z \in S
  <2>1. z \in Nat /\ y \in Nat
    OBVIOUS
  <2>2. ~ (z < y)
    BY <1>1, <2>1 DEF OpToRel
  <2> QED BY <2>1, <2>2
<1> QED BY <1>2

LEMMA SeqFacts ==
  ASSUME NEW S, NEW s \in Seq(S)
  PROVE  Len(s) \in Nat /\ DOMAIN s = 1 .. Len(s) /\ \A i \in 1 .. Len(s) : s[i] \in S
BY LenProperties, ElementOfSeq

\* Every instruction but the second half of an LD_DW was checked.
LEMMA Accepted ==
  ASSUME NEW prog \in Seq(Instruction), check(prog) = "ok"
  PROVE  /\ Len(prog) \in Nat \ {0} /\ DOMAIN prog = 1 .. Len(prog)
         /\ \A p \in 1 .. Len(prog) :
              \/ prog[p].opc = "pad" /\ p > 1 /\ prog[p - 1].opc = "lddw"
              \/ check_insn(prog, p) = "ok"
<1> DEFINE second(p) == prog[p].opc = "pad" /\ p > 1 /\ prog[p - 1].opc = "lddw"
           failing == {p \in DOMAIN prog : ~second(p) /\ check_insn(prog, p) # "ok"}
<1>1. Len(prog) \in Nat /\ DOMAIN prog = 1 .. Len(prog)
  BY SeqFacts
<1>2. check_prog_len(prog) = "ok"
  BY DEF check
<1>3. prog # <<>>
  BY <1>2 DEF check_prog_len
<1>4. Len(prog) # 0
  BY <1>3, EmptySeq
<1>5. failing = {}
  <2> SUFFICES ASSUME failing # {} PROVE FALSE
    OBVIOUS
  <2> DEFINE first == CHOOSE p \in failing : \A q \in failing : p <= q
  <2>1. failing \in SUBSET Nat
    BY <1>1
  <2>2. check(prog) = check_insn(prog, first)
    BY <1>2 DEF check
  <2> HIDE DEF failing
  <2>3. first \in failing
    BY <2>1, Smallest
  <2> HIDE DEF first
  <2>4. check_insn(prog, first) # "ok"
    BY <2>3 DEF failing
  <2> QED BY <2>2, <2>4
<1> QED BY <1>1, <1>4, <1>5

\* What follows an instruction of an accepted, well-formed program.
LEMMA NextInstruction ==
  ASSUME NEW prog \in Seq(Instruction), check(prog) = "ok", WellFormed(prog),
         NEW p, AtInstruction(prog, p)
  PROVE  /\ p \in Int /\ prog[p].opc \in Known \ {"tail_call"}
         /\ prog[p].opc \notin {"exit", "ja", "lddw"} => AtInstruction(prog, p + 1)
         /\ prog[p].opc = "lddw" => AtInstruction(prog, p + 2)
         /\ prog[p].opc \in Jumps => AtInstruction(prog, p + 1 + prog[p].off)
<1>1. /\ Len(prog) \in Nat \ {0} /\ DOMAIN prog = 1 .. Len(prog)
      /\ \A q \in 1 .. Len(prog) :
           \/ prog[q].opc = "pad" /\ q > 1 /\ prog[q - 1].opc = "lddw"
           \/ check_insn(prog, q) = "ok"
  BY Accepted
<1>0. Len(prog) \in Nat
  BY <1>1
<1>2. p \in 1 .. Len(prog) /\ prog[p].opc # "pad"
  BY <1>1 DEF AtInstruction
<1>3. check_insn(prog, p) = "ok"
  BY <1>1, <1>2
<1>4. prog[Len(prog)].opc \in {"exit", "ja"}
  BY DEF WellFormed
<1>5. prog[p].opc \in Known \ {"tail_call"}
  BY <1>3 DEF check_insn, Known, Jumps, Arithmetic, JmpClass
<1>6. \A q \in 1 .. Len(prog) :
         check_insn(prog, q) = "ok" => prog[q].opc # "pad"
  BY DEF check_insn, Known, Jumps, Arithmetic, JmpClass
<1>7. ASSUME prog[p].opc \notin {"exit", "ja", "lddw"} PROVE AtInstruction(prog, p + 1)
  <2>1. p + 1 \in 1 .. Len(prog)
    BY <1>1, <1>2, <1>4, <1>7
  <2>2. (p + 1) - 1 = p
    BY <1>2
  <2>3. prog[p + 1].opc # "pad"
    BY <1>1, <1>6, <1>7, <2>1, <2>2
  <2> QED BY <1>1, <2>1, <2>3 DEF AtInstruction
<1>8. ASSUME prog[p].opc = "lddw" PROVE AtInstruction(prog, p + 2)
  <2>1. prog[p + 1].opc = "pad"
    BY <1>3, <1>8 DEF check_insn, check_load_dw, Known, Jumps, Arithmetic, JmpClass
  <2>2. p + 1 \in 1 .. Len(prog) /\ p + 2 \in 1 .. Len(prog)
    <3>1. p # Len(prog)
      BY <1>4, <1>8
    <3>2. p + 1 \in 1 .. Len(prog)
      BY <1>0, <1>2, <3>1
    <3>3. p + 1 # Len(prog)
      BY <1>4, <2>1
    <3> QED BY <1>0, <1>2, <3>2, <3>3
  <2>3. (p + 2) - 1 = p + 1
    BY <1>2
  <2>4. prog[p + 2].opc # "pad"
    BY <1>1, <1>6, <2>1, <2>2, <2>3
  <2> QED BY <1>1, <2>2, <2>4 DEF AtInstruction
<1>9. ASSUME prog[p].opc \in Jumps PROVE AtInstruction(prog, p + 1 + prog[p].off)
  <2>1. check_jmp_offset(prog, p) = "ok"
    BY <1>3, <1>9 DEF check_insn, Known, Jumps, Arithmetic, JmpClass
  <2> QED BY <2>1 DEF check_jmp_offset, AtInstruction
<1> QED BY <1>2, <1>5, <1>7, <1>8, <1>9

-----------------------------------------------------------------------------
\* Relocation changes instructions, never their number.

Linked == [verdict : {"ok", "reject", "panic"}, text : Seq(Instruction)]

LEMMA TextUpdated ==
  ASSUME NEW text \in Seq(Instruction), NEW t, t = [p \in DOMAIN text |-> t[p]],
         \A p \in DOMAIN text : t[p] \in Instruction
  PROVE  t \in Seq(Instruction)
<1>1. Len(text) \in Nat /\ DOMAIN text = 1 .. Len(text)
  BY SeqFacts
<1>2. t \in [1 .. Len(text) -> Instruction]
  BY <1>1
<1> QED BY <1>1, <1>2, SeqDef

LEMMA SyscallInsn ==
  ASSUME NEW x \in Instruction, NEW v \in Int
  PROVE  [x EXCEPT !.dst = 0, !.src = 0, !.imm = v] \in Instruction
<1>1. [x EXCEPT !.dst = 0] \in Instruction
  BY DEF Instruction
<1>2. [[x EXCEPT !.dst = 0] EXCEPT !.src = 0] \in Instruction
  BY <1>1 DEF Instruction
<1>3. [[[x EXCEPT !.dst = 0] EXCEPT !.src = 0] EXCEPT !.imm = v] \in Instruction
  BY <1>2 DEF Instruction
<1> QED BY <1>3

LEMMA EntryTyped ==
  ASSUME NEW o \in Objects, NEW i \in DOMAIN o.relocs, NEW state \in Linked
  PROVE  relocate_entry(o, state, o.relocs[i]) \in Linked
<1> DEFINE r == o.relocs[i]  text == state.text
<1>1. /\ r \in Relocation /\ text \in Seq(Instruction)
      /\ r.type = "64_32" => r.symbol \in DOMAIN Hash \cup {"unknown", "function"}
  <2>1. o.relocs \in Seq(Relocation)
    BY RbpfAssumption
  <2>2. r \in Relocation
    BY <2>1, SeqFacts
  <2> QED BY <2>2, RbpfAssumption DEF Linked
<1>2. /\ DOMAIN text = 1 .. Len(text) /\ DOMAIN text \subseteq Int
      /\ \A p \in DOMAIN text : text[p] \in Instruction
  BY <1>1, SeqFacts
<1>3. DataAddress \in Int
  BY RbpfAssumption DEF DataAddress
<1>4. R_BPF_64_64(o, text, r) \in Linked
  <2> DEFINE t == [p \in DOMAIN text |->
                     IF p \in {r.at, r.at + 1} THEN [text[p] EXCEPT !.imm = DataAddress]
                     ELSE text[p]]
  <2>1. \A p \in DOMAIN text : t[p] \in Instruction
    BY <1>2, <1>3 DEF Instruction
  <2>2. t = [p \in DOMAIN text |-> t[p]]
    OBVIOUS
  <2>3. t \in Seq(Instruction)
    <3> HIDE DEF t
    <3> QED BY <1>1, <2>1, <2>2, TextUpdated
  <2> QED BY <1>1, <2>3 DEF R_BPF_64_64, Linked
<1>5. R_BPF_64_ABS64(o, text, r) \in Linked
  BY <1>1 DEF R_BPF_64_ABS64, Linked
<1>6. ASSUME r.type = "64_32" PROVE R_BPF_64_32(o, text, r) \in Linked
  <2> DEFINE t == [text EXCEPT ![r.at].imm = r.value - (r.at + 1)]
             u == [text EXCEPT ![r.at] = [@ EXCEPT !.dst = 0, !.src = 0, !.imm = Hash[r.symbol]]]
  <2>1. r.at \in Int /\ r.value - (r.at + 1) \in Int
    BY <1>1 DEF Relocation
  <2>2. t \in Seq(Instruction)
    <3>1. \A p \in DOMAIN text : t[p] \in Instruction
      BY <1>2, <2>1 DEF Instruction
    <3>2. t = [p \in DOMAIN text |-> t[p]]
      OBVIOUS
    <3> HIDE DEF t
    <3> QED BY <1>1, <3>1, <3>2, TextUpdated
  <2>3. r.symbol \notin {"unknown", "function"} => u \in Seq(Instruction)
    <3> SUFFICES ASSUME r.symbol \notin {"unknown", "function"} PROVE u \in Seq(Instruction)
      OBVIOUS
    <3>0. Hash[r.symbol] \in Int
      BY <1>1, <1>6, RbpfAssumption
    <3>1. ASSUME NEW p \in DOMAIN text PROVE u[p] \in Instruction
      <4>1. u[p] = IF p = r.at THEN [text[p] EXCEPT !.dst = 0, !.src = 0, !.imm = Hash[r.symbol]]
                   ELSE text[p]
        OBVIOUS
      <4>2. [text[p] EXCEPT !.dst = 0, !.src = 0, !.imm = Hash[r.symbol]] \in Instruction
        BY <1>2, <3>0, SyscallInsn
      <4> QED BY <1>2, <4>1, <4>2
    <3>2. u = [p \in DOMAIN text |-> u[p]]
      OBVIOUS
    <3> HIDE DEF u
    <3> QED BY <1>1, <3>1, <3>2, TextUpdated
  <2> QED BY <1>1, <2>2, <2>3 DEF R_BPF_64_32, Linked
<1>7. [verdict |-> "reject", text |-> text] \in Linked
  BY <1>1 DEF Linked
<1> QED BY <1>4, <1>5, <1>6, <1>7 DEF relocate_entry

\* The recursive function of relocations exists: were there a last index for which
\* it does not, it would for the one before, and could be extended.
LEMMA RelocationsAre ==
  ASSUME NEW o \in Objects
  PROVE  /\ Len(o.relocs) \in Nat
         /\ relocations(o) = [n \in 0 .. Len(o.relocs) |->
              IF n = 0 THEN [verdict |-> "ok", text |-> o.text]
              ELSE relocate_entry(o, relocations(o)[n - 1], o.relocs[n])]
<1> DEFINE N == Len(o.relocs)
           start == [verdict |-> "ok", text |-> o.text]
           Step(x, n) == relocate_entry(o, x, o.relocs[n])
           Body(f, m) == [n \in 0 .. m |-> IF n = 0 THEN start ELSE Step(f[n - 1], n)]
           Bad == {m \in 0 .. N : ~ \E f : f = Body(f, m)}
<1>0. N \in Nat
  BY RbpfAssumption, SeqFacts
<1>1. relocations(o) = CHOOSE f : f = Body(f, N)
  BY DEF relocations
<1>2. Bad = {}
  <2> SUFFICES ASSUME Bad # {} PROVE FALSE
    OBVIOUS
  <2>1. Bad \in SUBSET Nat
    OBVIOUS
  <2> HIDE DEF Bad
  <2>2. PICK m \in Bad : \A q \in Bad : m <= q
    BY <2>1, Smallest
  <2>3. m \in 0 .. N /\ ~ \E f : f = Body(f, m)
    BY <2>2 DEF Bad
  <2> HIDE DEF start, Step
  <2>4. CASE m = 0
    <3> DEFINE f == [n \in 0 .. 0 |-> start]
    <3>1. f = Body(f, 0)
      OBVIOUS
    <3> QED BY <2>3, <2>4, <3>1
  <2>5. CASE m # 0
    <3>1. m - 1 \in 0 .. N /\ m - 1 \notin Bad
      BY <1>0, <2>1, <2>2, <2>3, <2>5
    <3>2. PICK f : f = Body(f, m - 1)
      BY <3>1 DEF Bad
    <3> DEFINE g == [n \in 0 .. m |-> IF n < m THEN f[n] ELSE Step(f[m - 1], m)]
    <3>3. ASSUME NEW n \in 0 .. m
          PROVE  g[n] = IF n = 0 THEN start ELSE Step(g[n - 1], n)
      <4>1. CASE n = 0
        <5>1. 0 \in 0 .. m - 1 /\ 0 < m
          BY <2>3, <2>5
        <5>2. f[0] = start
          BY <3>2, <5>1, Zenon
        <5>3. g[0] = f[0]
          BY <3>3, <4>1, <5>1
        <5> QED BY <4>1, <5>2, <5>3
      <4>2. CASE n # 0 /\ n < m
        <5>1. n \in 0 .. m - 1 /\ n - 1 \in 0 .. m /\ n - 1 < m
          BY <2>3, <3>3, <4>2
        <5>2. f[n] = Step(f[n - 1], n)
          BY <3>2, <4>2, <5>1, Zenon
        <5>3. g[n] = f[n] /\ g[n - 1] = f[n - 1]
          BY <3>3, <4>2, <5>1
        <5> QED BY <4>2, <5>2, <5>3
      <4>3. CASE n = m
        <5>1. m - 1 \in 0 .. m /\ m - 1 < m /\ ~ (m < m)
          BY <2>3, <2>5
        <5>2. g[m] = Step(f[m - 1], m) /\ g[m - 1] = f[m - 1]
          BY <3>3, <4>3, <5>1
        <5> QED BY <2>5, <4>3, <5>2
      <4> QED BY <2>3, <3>3, <4>1, <4>2, <4>3
    <3>4. g = [n \in 0 .. m |-> g[n]]
      OBVIOUS
    <3> HIDE DEF g
    <3>5. g = Body(g, m)
      BY <3>3, <3>4, Zenon
    <3> QED BY <2>3, <3>5
  <2> QED BY <2>4, <2>5
<1>3. \E f : f = Body(f, N)
  BY <1>0, <1>2
<1> HIDE DEF start, Step
<1>4. relocations(o) = Body(relocations(o), N)
  BY <1>1, <1>3, Zenon
<1> QED BY <1>0, <1>4 DEF start, Step

\* A relocated text is a sequence of instructions.
LEMMA RelocatedTyped ==
  ASSUME NEW o \in Objects
  PROVE  relocate(o) \in Linked
<1> DEFINE f == relocations(o)  N == Len(o.relocs)
           Bad == {m \in 0 .. N : f[m] \notin Linked}
<1>1. /\ N \in Nat
      /\ f = [n \in 0 .. N |-> IF n = 0 THEN [verdict |-> "ok", text |-> o.text]
                               ELSE relocate_entry(o, f[n - 1], o.relocs[n])]
  BY RelocationsAre
<1>2. [verdict |-> "ok", text |-> o.text] \in Linked /\ [verdict |-> "reject", text |-> o.text] \in Linked
  BY RbpfAssumption DEF Linked
<1>3. DOMAIN o.relocs = 1 .. N
  BY RbpfAssumption, SeqFacts
<1> HIDE DEF f
<1>4. Bad = {}
  <2> SUFFICES ASSUME Bad # {} PROVE FALSE
    OBVIOUS
  <2>1. Bad \in SUBSET Nat
    OBVIOUS
  <2> HIDE DEF Bad
  <2>2. PICK m \in Bad : \A q \in Bad : m <= q
    BY <2>1, Smallest
  <2>3. m \in 0 .. N /\ f[m] \notin Linked
    BY <2>2 DEF Bad
  <2>4. CASE m = 0
    <3>1. f[0] = [verdict |-> "ok", text |-> o.text]
      BY <1>1, <2>3, <2>4, Zenon
    <3> QED BY <1>2, <2>3, <2>4, <3>1
  <2>5. CASE m # 0
    <3>1. m - 1 \in 0 .. N /\ m - 1 \notin Bad /\ m \in 1 .. N
      BY <1>1, <2>1, <2>2, <2>3, <2>5
    <3>2. f[m - 1] \in Linked
      BY <3>1 DEF Bad
    <3>3. f[m] = relocate_entry(o, f[m - 1], o.relocs[m])
      BY <1>1, <2>3, <2>5, Zenon
    <3> QED BY <1>3, <2>3, <3>1, <3>2, <3>3, EntryTyped
  <2> QED BY <2>4, <2>5
<1>5. f[N] \in Linked
  <2>1. N \in Nat
    BY <1>1
  <2> QED BY <1>4, <2>1
<1> QED BY <1>2, <1>5 DEF relocate, f

-----------------------------------------------------------------------------
\* Steps of the machine.

LEMMA SameObject ==
  ASSUME object' = object
  PROVE  \A prog : WellFormed(prog)' <=> WellFormed(prog)
BY DEF WellFormed

\* A machine that runs on, in the code it has.
LEMMA GoesOn ==
  ASSUME IInv, vm.status = "running", UNCHANGED <<object, deployed>>,
         vm' \in Machine, vm'.status = "running", vm'.prog = vm.prog,
         WellFormed(vm.prog) =>
           /\ AtInstruction(vm.prog, vm'.pc)
           /\ \A i \in DOMAIN vm'.frames : AtInstruction(vm.prog, vm'.frames[i].pc),
         FramesFit(vm')
  PROVE  IInv'
<1>1. RbpfTypes'
  BY DEF IInv, RbpfTypes
<1>2. check(vm'.prog) = "ok"
  BY DEF IInv
<1>3. AtInstructions(vm)'
  BY SameObject DEF AtInstructions
<1>4. StopsOnlyAtArithmetic'
  BY DEF StopsOnlyAtArithmetic
<1>5. FramesFit(vm)'
  BY DEF FramesFit
<1> QED BY <1>1, <1>2, <1>3, <1>4, <1>5 DEF IInv

LEMMA Halted ==
  ASSUME IInv, vm.status = "running", NEW s \in {"error", "returned", "panic"}, Halt(s),
         s = "panic" /\ WellFormed(vm.prog) =>
           vm.pc \in DOMAIN vm.prog /\ vm.prog[vm.pc].opc \in {"div32_reg", "checked64"}
  PROVE  IInv'
<1>1. vm \in Machine /\ deployed # "no" /\ object \in Objects
  BY DEF IInv, RbpfTypes
<1>2. /\ vm' \in Machine /\ vm'.status = s /\ vm'.prog = vm.prog /\ vm'.pc = vm.pc
      /\ vm'.frames = vm.frames /\ vm'.r10 = vm.r10 /\ UNCHANGED <<object, deployed>>
  <2>1. vm' = [vm EXCEPT !.status = s] /\ UNCHANGED <<object, deployed>>
    BY DEF Halt
  <2>2. s \in Status
    BY DEF Status
  <2> QED BY <1>1, <2>1, <2>2 DEF Machine
<1>3. RbpfTypes'
  BY <1>1, <1>2 DEF RbpfTypes
<1>4. StopsOnlyAtArithmetic'
  BY <1>2, SameObject DEF StopsOnlyAtArithmetic, insn
<1>5. FramesFit(vm)'
  BY <1>2 DEF IInv, FramesFit
<1> QED BY <1>2, <1>3, <1>4, <1>5 DEF IInv

\* The end of the loop of execute_program: next is the machine but for pc and gas.
LEMMA Continued ==
  ASSUME IInv, vm.status = "running", NEW next \in Machine, NEW pc \in Int,
         next.status = "running", next.prog = vm.prog, Continue(next, pc),
         WellFormed(vm.prog) =>
           /\ AtInstruction(vm.prog, pc)
           /\ \A i \in DOMAIN next.frames : AtInstruction(vm.prog, next.frames[i].pc),
         FramesFit(next)
  PROVE  IInv'
<1>1. /\ vm' = [next EXCEPT !.pc = pc, !.burnt = burn(next.burnt, basic_instruction)]
      /\ UNCHANGED <<object, deployed>>
  BY DEF Continue
<1>2. burn(next.burnt, basic_instruction) \in Int
  BY RbpfAssumption DEF burn, Machine
<1> DEFINE half == [next EXCEPT !.pc = pc]
<1>3. /\ half \in Machine /\ half.pc = pc /\ half.status = next.status /\ half.prog = next.prog
      /\ half.frames = next.frames /\ half.r10 = next.r10
  BY DEF Machine
<1>4. vm' = [half EXCEPT !.burnt = burn(next.burnt, basic_instruction)]
  BY <1>1
<1> HIDE DEF half
<1>5. /\ vm' \in Machine /\ vm'.pc = pc /\ vm'.status = "running" /\ vm'.prog = vm.prog
      /\ vm'.frames = next.frames /\ vm'.r10 = next.r10
  BY <1>2, <1>3, <1>4 DEF Machine
<1>6. FramesFit(vm')
  BY <1>5 DEF FramesFit
<1> QED BY <1>1, <1>5, <1>6, GoesOn

\* The machine stays at its depth and keeps its frame pointer.
LEMMA Stays ==
  ASSUME IInv, vm.status = "running", NEW next \in Machine, NEW pc \in Int,
         next.status = "running", next.prog = vm.prog, next.frames = vm.frames,
         next.r10 = vm.r10, Continue(next, pc),
         WellFormed(vm.prog) => AtInstruction(vm.prog, pc)
  PROVE  IInv'
<1>1. WellFormed(vm.prog) => \A i \in DOMAIN vm.frames : AtInstruction(vm.prog, vm.frames[i].pc)
  BY DEF IInv, AtInstructions
<1>2. FramesFit(next)
  BY DEF IInv, FramesFit
<1> QED BY <1>1, <1>2, Continued

LEMMA Running ==
  ASSUME IInv, NEW classes, Fetch(classes)
  PROVE  /\ vm \in Machine /\ vm.status = "running" /\ vm.pc \in DOMAIN vm.prog
         /\ insn.opc \in classes /\ insn \in Instruction /\ insn = vm.prog[vm.pc]
         /\ vm.pc \in Int /\ vm.prog \in Seq(Instruction) /\ check(vm.prog) = "ok"
         /\ vm.frames \in Seq(Frame) /\ vm.memory \in Memory /\ vm.r10 \in Int /\ vm.r6 \in Int
         /\ WellFormed(vm.prog) => AtInstruction(vm.prog, vm.pc)
<1>1. vm \in Machine /\ vm.status = "running" /\ vm.pc \in DOMAIN vm.prog
  BY DEF IInv, RbpfTypes, Fetch
<1>2. /\ vm.prog \in Seq(Instruction) /\ vm.pc \in Int /\ vm.frames \in Seq(Frame)
      /\ vm.memory \in Memory /\ vm.r10 \in Int /\ vm.r6 \in Int
  BY <1>1 DEF Machine
<1>3. insn \in Instruction
  BY <1>1, <1>2, SeqFacts DEF insn
<1> QED BY <1>1, <1>2, <1>3 DEF IInv, AtInstructions, Fetch, insn

\* A result in a register leaves the code, the frames and r10 alone.
LEMMA WrittenKeeps ==
  ASSUME IInv, vm.status = "running", NEW dst, NEW next \in Written(dst)
  PROVE  /\ next \in Machine /\ next.status = "running" /\ next.prog = vm.prog
         /\ next.frames = vm.frames /\ next.r10 = vm.r10
BY DEF IInv, RbpfTypes, Written, Machine

-----------------------------------------------------------------------------
\* One lemma per instruction.

\* An instruction that is followed by the next one.
LEMMA Falls ==
  ASSUME IInv, NEW classes, Fetch(classes),
         classes \cap {"exit", "ja", "lddw"} = {}
  PROVE  vm.pc + 1 \in Int /\ (WellFormed(vm.prog) => AtInstruction(vm.prog, vm.pc + 1))
<1>1. insn.opc \notin {"exit", "ja", "lddw"}
  BY Running
<1> QED BY <1>1, Running, NextInstruction

LEMMA MemoryHolds ==
  ASSUME IInv, LoadArgument \/ Load \/ Store
  PROVE  IInv'
<1>1. CASE LoadArgument
  <2>1. Fetch({"ld"})
    BY <1>1 DEF LoadArgument
  <2>2. vm \in Machine /\ vm.status = "running"
    BY <2>1, Running
  <2>3. vm.pc + 1 \in Int /\ (WellFormed(vm.prog) => AtInstruction(vm.prog, vm.pc + 1))
    BY <2>1, Falls
  <2>4. CASE Continue(vm, vm.pc + 1)
    BY <2>2, <2>3, <2>4, Stays
  <2>5. CASE Halt("error")
    BY <2>2, <2>5, Halted
  <2> QED BY <1>1, <2>4, <2>5 DEF LoadArgument
<1>2. CASE Load
  <2>1. Fetch({"ldx"})
    BY <1>2 DEF Load
  <2>2. vm \in Machine /\ vm.status = "running"
    BY <2>1, Running
  <2>3. vm.pc + 1 \in Int /\ (WellFormed(vm.prog) => AtInstruction(vm.prog, vm.pc + 1))
    BY <2>1, Falls
  <2>4. ASSUME NEW next \in Written(insn.dst), Continue(next, vm.pc + 1) PROVE IInv'
    BY <2>2, <2>3, <2>4, WrittenKeeps, Stays
  <2>5. CASE Halt("error")
    BY <2>2, <2>5, Halted
  <2> QED BY <1>2, <2>4, <2>5 DEF Load
<1>3. CASE Store
  <2>1. Fetch({"st", "stx"})
    BY <1>3 DEF Store
  <2>2. vm \in Machine /\ vm.status = "running"
    BY <2>1, Running
  <2>3. vm.pc + 1 \in Int /\ (WellFormed(vm.prog) => AtInstruction(vm.prog, vm.pc + 1))
    BY <2>1, Falls
  <2>4. CASE Continue(vm, vm.pc + 1)
    BY <2>2, <2>3, <2>4, Stays
  <2>5. CASE Halt("error")
    BY <2>2, <2>5, Halted
  <2> QED BY <1>3, <2>4, <2>5 DEF Store
<1> QED BY <1>1, <1>2, <1>3

LEMMA LoadImmediateHolds ==
  ASSUME IInv, LoadImmediate
  PROVE  IInv'
<1>1. Fetch({"lddw"})
  BY DEF LoadImmediate
<1>2. /\ vm \in Machine /\ vm.status = "running" /\ vm.pc \in DOMAIN vm.prog
      /\ insn.opc = "lddw" /\ insn \in Instruction /\ insn = vm.prog[vm.pc] /\ vm.pc + 2 \in Int
  BY <1>1, Running
<1>3. WellFormed(vm.prog) => AtInstruction(vm.prog, vm.pc + 2)
  BY <1>1, <1>2, Running, NextInstruction
<1>4. PICK next \in Written(insn.dst) :
        Continue(IF insn.dst = 10 THEN [next EXCEPT !.r10 = insn.imm] ELSE next, vm.pc + 2)
  BY DEF LoadImmediate
<1>5. /\ next \in Machine /\ next.status = "running" /\ next.prog = vm.prog
      /\ next.frames = vm.frames /\ next.r10 = vm.r10
  BY <1>2, WrittenKeeps
<1>6. CASE insn.dst # 10
  <2>1. Continue(next, vm.pc + 2)
    BY <1>4, <1>6
  <2> QED BY <1>2, <1>3, <1>5, <2>1, Stays
<1>7. CASE insn.dst = 10
  <2> DEFINE n == [next EXCEPT !.r10 = insn.imm]
  <2>1. Continue(n, vm.pc + 2)
    BY <1>4, <1>7
  <2>2. insn.imm \in Int
    BY <1>2 DEF Instruction
  <2>3. /\ n \in Machine /\ n.status = "running" /\ n.prog = vm.prog /\ n.frames = vm.frames
    BY <1>5, <2>2 DEF Machine
  <2> HIDE DEF n
  <2>4. FramesFit(n)
    BY <1>2, <1>7, <2>3 DEF FramesFit
  <2>5. WellFormed(vm.prog) => \A i \in DOMAIN vm.frames : AtInstruction(vm.prog, vm.frames[i].pc)
    BY <1>2 DEF IInv, AtInstructions
  <2> QED BY <1>2, <1>3, <2>1, <2>3, <2>4, <2>5, Continued
<1> QED BY <1>6, <1>7

LEMMA ComputeHolds ==
  ASSUME IInv, Compute
  PROVE  IInv'
<1>1. Fetch(Arithmetic \cup {"end"})
  BY DEF Compute
<1>2. vm \in Machine /\ vm.status = "running" /\ vm.pc \in DOMAIN vm.prog /\ insn = vm.prog[vm.pc]
  BY <1>1, Running
<1>3. (Arithmetic \cup {"end"}) \cap {"exit", "ja", "lddw"} = {}
  BY DEF Arithmetic
<1>4. vm.pc + 1 \in Int /\ (WellFormed(vm.prog) => AtInstruction(vm.prog, vm.pc + 1))
  BY <1>1, <1>3, Falls
<1>5. ASSUME NEW next \in Written(insn.dst), Continue(next, vm.pc + 1) PROVE IInv'
  BY <1>2, <1>4, <1>5, WrittenKeeps, Stays
<1>6. CASE insn.opc \in {"div32_reg", "checked64"} /\ Halt("panic")
  BY <1>2, <1>6, Halted
<1> QED BY <1>5, <1>6 DEF Compute

LEMMA JumpHolds ==
  ASSUME IInv, Jump
  PROVE  IInv'
<1>1. Fetch(Jumps)
  BY DEF Jump
<1>2. /\ vm \in Machine /\ vm.status = "running" /\ insn = vm.prog[vm.pc] /\ insn \in Instruction
      /\ vm.pc \in Int /\ insn.opc \in Jumps
      /\ vm.prog \in Seq(Instruction) /\ check(vm.prog) = "ok"
      /\ WellFormed(vm.prog) => AtInstruction(vm.prog, vm.pc)
  BY <1>1, Running
<1>3. vm.pc + 1 \in Int /\ vm.pc + 1 + insn.off \in Int
  <2>1. vm.pc \in Int /\ insn.off \in Int
    BY <1>2 DEF Instruction
  <2> QED BY <2>1
<1>4. WellFormed(vm.prog) => AtInstruction(vm.prog, vm.pc + 1 + insn.off)
  BY <1>2, NextInstruction
<1>5. insn.opc # "ja" /\ WellFormed(vm.prog) => AtInstruction(vm.prog, vm.pc + 1)
  <2>1. insn.opc \notin {"exit", "lddw"}
    BY <1>2 DEF Jumps
  <2> QED BY <1>2, <2>1, NextInstruction
<1>6. CASE Continue(vm, vm.pc + 1 + insn.off)
  BY <1>2, <1>3, <1>4, <1>6, Stays
<1>7. CASE insn.opc # "ja" /\ Continue(vm, vm.pc + 1)
  BY <1>2, <1>3, <1>5, <1>7, Stays
<1> QED BY <1>6, <1>7 DEF Jump

LEMMA HelperCallHolds ==
  ASSUME IInv, HelperCall
  PROVE  IInv'
<1>1. Fetch({"call"})
  BY DEF HelperCall
<1>2. vm \in Machine /\ vm.status = "running" /\ vm.memory \in Memory
  BY <1>1, Running
<1>3. vm.pc + 1 \in Int /\ (WellFormed(vm.prog) => AtInstruction(vm.prog, vm.pc + 1))
  BY <1>1, Falls
<1>4. ASSUME NEW name, NEW next \in Helper(name),
             Continue([next EXCEPT !.burnt = burn(@, api_call)], vm.pc + 1)
      PROVE  IInv'
  <2>1. /\ next \in Machine /\ next.status = "running" /\ next.prog = vm.prog
        /\ next.frames = vm.frames /\ next.r10 = vm.r10
    <3>1. PICK memory \in Memory : next = [vm EXCEPT !.memory = memory]
      <4>1. CASE next = vm
        <5>1. next = [vm EXCEPT !.memory = vm.memory]
          BY <1>2, <4>1 DEF Machine
        <5> QED BY <1>2, <5>1
      <4>2. ASSUME NEW n \in {0, 1}, next = [vm EXCEPT !.memory.pages = @ + n]
            PROVE  \E memory \in Memory : next = [vm EXCEPT !.memory = memory]
        <5>1. [vm.memory EXCEPT !.pages = @ + n] \in Memory
          BY <1>2, <4>2 DEF Memory
        <5>2. next = [vm EXCEPT !.memory = [vm.memory EXCEPT !.pages = @ + n]]
          BY <1>2, <4>2 DEF Machine
        <5> QED BY <5>1, <5>2
      <4>3. next = vm \/ \E n \in {0, 1} : next \in MemoryGrow(n)
        <5>1. next \in Helper(name)
          BY <1>4
        <5>2. next \in {vm} \cup MemoryGrow(0) \cup MemoryGrow(1)
          BY <5>1 DEF Helper
        <5> QED BY <5>2
      <4>4. ASSUME NEW n \in {0, 1}, next \in MemoryGrow(n)
            PROVE  next = [vm EXCEPT !.memory.pages = @ + n]
        BY <4>4 DEF MemoryGrow
      <4> QED BY <4>1, <4>2, <4>3, <4>4
    <3> QED BY <1>2, <3>1 DEF Machine
  <2> DEFINE m == [next EXCEPT !.burnt = burn(@, api_call)]
  <2>2. burn(next.burnt, api_call) \in Int
    BY <2>1, RbpfAssumption DEF burn, Machine
  <2>3. /\ m \in Machine /\ m.status = "running" /\ m.prog = vm.prog
        /\ m.frames = vm.frames /\ m.r10 = vm.r10
    BY <2>1, <2>2 DEF Machine
  <2>4. Continue(m, vm.pc + 1)
    BY <1>4
  <2> HIDE DEF m
  <2> QED BY <1>2, <1>3, <2>3, <2>4, Stays
<1>5. CASE Halt("error")
  BY <1>2, <1>5, Halted
<1> QED BY <1>4, <1>5 DEF HelperCall

LEMMA LocalCallHolds ==
  ASSUME IInv, LocalCall
  PROVE  IInv'
<1>1. Fetch({"call"}) /\ insn.src # 0
  BY DEF LocalCall
<1>2. /\ vm \in Machine /\ vm.status = "running" /\ vm.pc \in Int /\ vm.pc \in DOMAIN vm.prog
      /\ insn = vm.prog[vm.pc] /\ insn.opc = "call" /\ insn \in Instruction
      /\ vm.frames \in Seq(Frame) /\ vm.r10 \in Int /\ vm.r6 \in Int
  BY <1>1, Running
<1>3. vm.pc + 1 \in Int /\ (WellFormed(vm.prog) => AtInstruction(vm.prog, vm.pc + 1))
  BY <1>1, Falls
<1>4. CASE Halt("error")
  BY <1>2, <1>4, Halted
<1> DEFINE frames == Append(vm.frames, CallFrame)
           next == [vm EXCEPT !.frames = Append(@, CallFrame), !.r10 = @ - 1]
           pc == vm.pc + 1 + insn.imm
           depth == Len(vm.frames)
<1>5. CASE depth < MaxCallDepth /\ Continue(next, pc)
  <2>1. CallFrame \in Frame /\ CallFrame.pc = vm.pc + 1 /\ CallFrame.r10 = vm.r10
    BY <1>2, <1>3 DEF CallFrame, Frame
  <2>2. depth \in Nat /\ DOMAIN vm.frames = 1 .. depth
    BY <1>2, SeqFacts
  <2>3. /\ frames \in Seq(Frame) /\ Len(frames) = depth + 1 /\ DOMAIN frames = 1 .. depth + 1
        /\ \A i \in 1 .. depth : frames[i] = vm.frames[i]
        /\ frames[depth + 1] = CallFrame
    BY <1>2, <2>1, <2>2, AppendProperties, SeqFacts
  <2>4. /\ next \in Machine /\ next.status = "running" /\ next.prog = vm.prog
        /\ next.frames = frames /\ next.r10 = vm.r10 - 1
    <3> DEFINE one == [vm EXCEPT !.frames = frames]  r10 == vm.r10 - 1
    <3>1. next = [one EXCEPT !.r10 = r10] /\ r10 = vm.r10 - 1 /\ r10 \in Int
      BY <1>2 DEF Machine
    <3> HIDE DEF frames, next
    <3>2. one \in Machine /\ one.status = "running" /\ one.prog = vm.prog /\ one.frames = frames
      BY <1>2, <2>3 DEF Machine
    <3> HIDE DEF one, r10
    <3> QED BY <3>1, <3>2 DEF Machine
  <2> HIDE DEF frames, next
  <2>5. pc \in Int
    BY <1>2 DEF Instruction
  <2>6. ASSUME WellFormed(vm.prog)
        PROVE  /\ AtInstruction(vm.prog, pc)
               /\ \A i \in DOMAIN next.frames : AtInstruction(vm.prog, next.frames[i].pc)
    <3>1. AtInstruction(vm.prog, pc)
      BY <1>1, <1>2, <2>6 DEF WellFormed, AtInstruction
    <3>2. \A i \in DOMAIN vm.frames : AtInstruction(vm.prog, vm.frames[i].pc)
      BY <1>2, <2>6 DEF IInv, AtInstructions
    <3>3. \A i \in 1 .. depth + 1 : i \in 1 .. depth \/ i = depth + 1
      BY <2>2
    <3> QED BY <1>3, <2>1, <2>2, <2>3, <2>4, <2>6, <3>1, <3>2, <3>3
  <2>7. FramesFit(next)
    <3> SUFFICES ASSUME \A p \in DOMAIN vm.prog : vm.prog[p].opc = "lddw" => vm.prog[p].dst # 10
                 PROVE  /\ Len(frames) <= MaxCallDepth
                        /\ \A i \in DOMAIN frames : frames[i].r10 = MaxCallDepth - i + 1
                        /\ vm.r10 - 1 = MaxCallDepth - Len(frames)
      BY <2>4 DEF FramesFit
    <3>1. /\ \A i \in 1 .. depth : vm.frames[i].r10 = MaxCallDepth - i + 1
          /\ vm.r10 = MaxCallDepth - depth
      BY <2>2 DEF IInv, FramesFit
    <3>2. Len(frames) <= MaxCallDepth /\ vm.r10 - 1 = MaxCallDepth - Len(frames)
      BY <1>5, <2>2, <2>3, <3>1, RbpfAssumption
    <3>3. frames[depth + 1].r10 = MaxCallDepth - (depth + 1) + 1
      BY <2>1, <2>2, <2>3, <3>1, RbpfAssumption
    <3>4. ASSUME NEW i \in 1 .. depth + 1 PROVE frames[i].r10 = MaxCallDepth - i + 1
      <4>1. i \in 1 .. depth \/ i = depth + 1
        BY <2>2
      <4> QED BY <2>3, <3>1, <3>3, <4>1
    <3> QED BY <2>3, <3>2, <3>4
  <2> HIDE DEF pc
  <2> QED BY <1>2, <1>5, <2>4, <2>5, <2>6, <2>7, Continued
<1> HIDE DEF next, pc
<1>6. Halt("error") \/ (depth < MaxCallDepth /\ Continue(next, pc))
  <2>1. depth \in Nat
    BY <1>2, SeqFacts
  <2> QED BY <2>1, RbpfAssumption DEF LocalCall, next, pc
<1> QED BY <1>4, <1>5, <1>6

LEMMA ExitHolds ==
  ASSUME IInv, Exit
  PROVE  IInv'
<1>1. Fetch({"exit"})
  BY DEF Exit
<1>2. /\ vm \in Machine /\ vm.status = "running" /\ vm.frames \in Seq(Frame)
  BY <1>1, Running
<1>3. CASE vm.frames = <<>> /\ Halt("returned")
  BY <1>2, <1>3, Halted
<1> DEFINE depth == Len(vm.frames)
           frame == vm.frames[depth]
           frames == SubSeq(vm.frames, 1, depth - 1)
           next == [vm EXCEPT !.frames = SubSeq(@, 1, Len(@) - 1), !.r6 = frame.r6,
                              !.r10 = frame.r10]
<1>4. CASE vm.frames # <<>> /\ Continue(next, frame.pc)
  <2>1. depth \in Nat /\ depth # 0 /\ DOMAIN vm.frames = 1 .. depth
    BY <1>2, <1>4, SeqFacts, EmptySeq
  <2>2. frame \in Frame
    BY <1>2, <2>1, SeqFacts
  <2>3. /\ frames \in Seq(Frame) /\ Len(frames) = depth - 1 /\ DOMAIN frames = 1 .. depth - 1
        /\ \A i \in 1 .. depth - 1 : frames[i] = vm.frames[i]
    <3>1. 1 \in 1 .. depth + 1 /\ depth - 1 \in 0 .. depth
      BY <2>1
    <3>2. /\ frames \in Seq(Frame) /\ Len(frames) = depth - 1
          /\ \A i \in 1 .. depth - 1 : frames[i] = vm.frames[i]
      BY <1>2, <2>1
    <3> QED BY <3>2, SeqFacts
  <2>4. /\ next \in Machine /\ next.status = "running" /\ next.prog = vm.prog
        /\ next.frames = frames /\ next.r10 = frame.r10
    <3>0. frame.r6 \in Int /\ frame.r10 \in Int
      BY <2>2 DEF Frame
    <3>1. next = [[[vm EXCEPT !.frames = frames] EXCEPT !.r6 = frame.r6] EXCEPT !.r10 = frame.r10]
      BY <1>2 DEF Machine
    <3> HIDE DEF frames, frame, next
    <3> DEFINE one == [vm EXCEPT !.frames = frames]
               two == [one EXCEPT !.r6 = frame.r6]
    <3>2. one \in Machine /\ one.status = "running" /\ one.prog = vm.prog /\ one.frames = frames
      BY <1>2, <2>3 DEF Machine
    <3>3. next = [two EXCEPT !.r10 = frame.r10]
      BY <3>1
    <3> HIDE DEF one
    <3>4. two \in Machine /\ two.status = "running" /\ two.prog = vm.prog /\ two.frames = frames
      BY <3>0, <3>2 DEF Machine
    <3> HIDE DEF two
    <3> QED BY <3>0, <3>3, <3>4 DEF Machine
  <2>5. frame.pc \in Int
    BY <2>2 DEF Frame
  <2> HIDE DEF frames, next
  <2>6. ASSUME WellFormed(vm.prog)
        PROVE  /\ AtInstruction(vm.prog, frame.pc)
               /\ \A i \in DOMAIN next.frames : AtInstruction(vm.prog, next.frames[i].pc)
    <3>1. \A i \in 1 .. depth : AtInstruction(vm.prog, vm.frames[i].pc)
      BY <1>2, <2>1, <2>6 DEF IInv, AtInstructions
    <3>2. depth \in 1 .. depth /\ \A i \in 1 .. depth - 1 : i \in 1 .. depth
      BY <2>1
    <3> QED BY <2>3, <2>4, <3>1, <3>2
  <2>7. FramesFit(next)
    <3> SUFFICES ASSUME \A p \in DOMAIN vm.prog : vm.prog[p].opc = "lddw" => vm.prog[p].dst # 10
                 PROVE  /\ Len(frames) <= MaxCallDepth
                        /\ \A i \in DOMAIN frames : frames[i].r10 = MaxCallDepth - i + 1
                        /\ frame.r10 = MaxCallDepth - Len(frames)
      BY <2>4 DEF FramesFit
    <3>1. /\ \A i \in 1 .. depth : vm.frames[i].r10 = MaxCallDepth - i + 1
          /\ depth <= MaxCallDepth
      BY <2>1 DEF IInv, FramesFit
    <3>2. depth \in 1 .. depth /\ \A i \in 1 .. depth - 1 : i \in 1 .. depth
      BY <2>1
    <3>3. frame.r10 = MaxCallDepth - depth + 1
      BY <3>1, <3>2
    <3>4. Len(frames) <= MaxCallDepth /\ frame.r10 = MaxCallDepth - Len(frames)
      BY <2>1, <2>3, <3>1, <3>3, RbpfAssumption
    <3> QED BY <2>3, <3>1, <3>2, <3>4
  <2> HIDE DEF frame
  <2> QED BY <1>2, <1>4, <2>4, <2>5, <2>6, <2>7, Continued
<1>5. \/ vm.frames = <<>> /\ Halt("returned")
      \/ vm.frames # <<>> /\ Continue(next, frame.pc)
  BY DEF Exit
<1> QED BY <1>3, <1>4, <1>5

LEMMA StopHolds ==
  ASSUME IInv, OutOfGas \/ Unreachable
  PROVE  IInv'
<1>1. CASE OutOfGas
  BY <1>1, Halted DEF OutOfGas
<1>2. CASE Unreachable
  <2>1. vm.status = "running" /\ Halt("panic") /\ vm \in Machine /\ check(vm.prog) = "ok"
    BY <1>2 DEF Unreachable, IInv, RbpfTypes
  <2>2. vm.prog \in Seq(Instruction)
    BY <2>1 DEF Machine
  <2>3. ~ WellFormed(vm.prog)
    <3> SUFFICES ASSUME WellFormed(vm.prog) PROVE FALSE
      OBVIOUS
    <3>1. AtInstruction(vm.prog, vm.pc)
      BY <2>1 DEF IInv, AtInstructions
    <3>2. vm.prog[vm.pc].opc \in Known \ {"tail_call"}
      BY <2>1, <2>2, <3>1, NextInstruction
    <3>3. vm.prog[vm.pc].opc \notin {"pad", "xadd", "tail_call", "unknown"}
      BY <3>2 DEF Known, Arithmetic, JmpClass
    <3> QED BY <1>2, <3>1, <3>3 DEF Unreachable, Fetch, AtInstruction
  <2> QED BY <2>1, <2>3, Halted
<1> QED BY <1>1, <1>2

LEMMA IdleHolds ==
  /\ Idle \in Machine /\ Idle.status = "idle" /\ Idle.frames = <<>> /\ Idle.r10 = MaxCallDepth
  /\ Len(<<>>) = 0 /\ DOMAIN <<>> = {}
<1>1. <<>> \in Seq(Frame) /\ <<>> \in Seq(Instruction) /\ Len(<<>>) = 0 /\ DOMAIN <<>> = {}
  BY EmptySeq
<1>2. MaxCallDepth \in Int
  BY RbpfAssumption
<1>3. [max |-> 0, pages |-> 0] \in Memory
  BY DEF Memory
<1> QED BY <1>1, <1>2, <1>3 DEF Idle, Machine, Status, Reasons

LEMMA InitHolds == Init => IInv
<1> SUFFICES ASSUME Init PROVE IInv
  OBVIOUS
<1>1. vm \in Machine /\ vm.status = "idle" /\ vm.frames = <<>> /\ vm.r10 = MaxCallDepth
  BY IdleHolds DEF Init
<1>2. RbpfTypes
  BY <1>1 DEF Init, RbpfTypes
<1>3. FramesFit(vm)
  BY <1>1, IdleHolds, RbpfAssumption DEF FramesFit
<1> QED BY <1>1, <1>2, <1>3 DEF IInv, StopsOnlyAtArithmetic

LEMMA DeployHolds ==
  ASSUME IInv, Deploy
  PROVE  IInv'
<1>1. vm \in Machine /\ vm.status = "idle" /\ vm' = vm /\ object' \in Objects
  BY DEF IInv, RbpfTypes, Deploy
<1>2. RbpfTypes'
  BY <1>1 DEF RbpfTypes
<1>3. FramesFit(vm)'
  BY <1>1 DEF IInv, FramesFit
<1> QED BY <1>1, <1>2, <1>3 DEF IInv, StopsOnlyAtArithmetic

\* A program that was refused, or that stands before its first instruction.
LEMMA Started ==
  ASSUME UNCHANGED <<object, deployed>>, deployed # "no", object \in Objects,
         vm' \in Machine, vm'.frames = <<>>, vm'.r10 = MaxCallDepth,
         \/ vm'.status = "refused"
         \/ /\ vm'.status = "running" /\ check(vm'.prog) = "ok"
            /\ WellFormed(vm'.prog) => AtInstruction(vm'.prog, vm'.pc)
  PROVE  IInv'
<1>1. RbpfTypes'
  BY DEF RbpfTypes
<1>2. StopsOnlyAtArithmetic'
  BY DEF StopsOnlyAtArithmetic
<1>3. FramesFit(vm')
  BY IdleHolds, RbpfAssumption DEF FramesFit
<1>4. FramesFit(vm)'
  BY <1>3 DEF FramesFit
<1>5. (vm.status = "running" => check(vm.prog) = "ok" /\ AtInstructions(vm))'
  <2>1. WellFormed(vm.prog)' => WellFormed(vm'.prog)
    BY DEF WellFormed
  <2>2. check(vm.prog)' = check(vm'.prog)
    BY DEF check, check_insn
  <2>3. vm'.status = "running" => AtInstructions(vm)'
    BY <2>1, IdleHolds DEF AtInstructions, AtInstruction
  <2> QED BY <2>2, <2>3
<1> QED BY <1>1, <1>2, <1>4, <1>5 DEF IInv

LEMMA RunHolds ==
  ASSUME IInv, NEW name \in Functions, run_internal(name)
  PROVE  IInv'
<1> DEFINE relocated == relocate(object)
           refused(why) == [Idle EXCEPT !.status = "refused", !.why = why]
           memory == CHOOSE m \in create_shared_memory(object) : TRUE
           entry == CHOOSE p \in find_function(object, name) : TRUE
           started == [Idle EXCEPT !.status = "running", !.prog = relocated.text,
                                   !.pc = entry, !.memory = memory]
<1>1. deployed = "ok" /\ vm.status = "idle" /\ UNCHANGED <<object, deployed>>
  BY DEF run_internal
<1>2. object \in Objects
  BY <1>1 DEF IInv, RbpfTypes
<1>3. \/ \E why \in Reasons : vm' = refused(why)
      \/ /\ find_function(object, name) # {} /\ check(relocated.text) = "ok"
         /\ create_shared_memory(object) # {} /\ vm' = started
  BY DEF run_internal, Reasons
<1>4. ASSUME NEW why \in Reasons, vm' = refused(why)
      PROVE  IInv'
  <2>1. vm' \in Machine /\ vm'.frames = <<>> /\ vm'.r10 = MaxCallDepth /\ vm'.status = "refused"
    BY <1>4, IdleHolds DEF Machine, Status
  <2> QED BY <1>1, <1>2, <2>1, Started
<1>5. CASE /\ find_function(object, name) # {} /\ check(relocated.text) = "ok"
           /\ create_shared_memory(object) # {} /\ vm' = started
  <2>1. relocated.text \in Seq(Instruction)
    BY <1>2, RelocatedTyped DEF Linked
  <2>2. name \in DOMAIN object.functions /\ entry = object.functions[name]
    BY <1>5 DEF find_function
  <2>3. entry \in Int
    BY <1>2, <2>2, RbpfAssumption
  <2>4. memory \in Memory
    <3>1. memory \in create_shared_memory(object)
      BY <1>5
    <3>2. CASE object.memory = {}
      BY <3>1, <3>2 DEF create_shared_memory, Memory
    <3>3. CASE object.memory # {}
      <4>1. PICK m \in object.memory :
              memory = [max |-> IF m.max = 0 THEN MaxSharedMemoryPages ELSE m.max, pages |-> m.min]
        BY <3>1, <3>3 DEF create_shared_memory
      <4>2. m.max \in Int /\ m.min \in Int /\ MaxSharedMemoryPages \in Int
        BY <1>2, RbpfAssumption
      <4> HIDE DEF memory
      <4> QED BY <4>1, <4>2 DEF Memory
    <3> QED BY <3>2, <3>3
  <2> DEFINE text == relocated.text
  <2>5. WellFormed(text) => AtInstruction(text, entry)
    BY <2>2 DEF WellFormed, AtInstruction
  <2> HIDE DEF text, entry, memory
  <2>6. vm' = [Idle EXCEPT !.status = "running", !.prog = text, !.pc = entry, !.memory = memory]
    BY <1>5 DEF text
  <2>7. /\ vm' \in Machine /\ vm'.frames = <<>> /\ vm'.r10 = MaxCallDepth
        /\ vm'.status = "running" /\ vm'.prog = text /\ vm'.pc = entry
    <3> DEFINE one == [Idle EXCEPT !.status = "running"]
               two == [one EXCEPT !.prog = text]
               three == [two EXCEPT !.pc = entry]
    <3>1. vm' = [three EXCEPT !.memory = memory]
      BY <2>6, IdleHolds DEF Machine
    <3>2. one \in Machine /\ one.frames = <<>> /\ one.r10 = MaxCallDepth /\ one.status = "running"
      BY IdleHolds DEF Machine, Status
    <3> HIDE DEF one
    <3>3. /\ two \in Machine /\ two.frames = <<>> /\ two.r10 = MaxCallDepth
          /\ two.status = "running" /\ two.prog = text
      BY <3>2, <2>1 DEF Machine, text
    <3> HIDE DEF two
    <3>4. /\ three \in Machine /\ three.frames = <<>> /\ three.r10 = MaxCallDepth
          /\ three.status = "running" /\ three.prog = text /\ three.pc = entry
      BY <3>3, <2>3 DEF Machine
    <3> HIDE DEF three
    <3> QED BY <3>1, <3>4, <2>4 DEF Machine
  <2>8. check(text) = "ok"
    BY <1>5 DEF text
  <2> HIDE DEF started, relocated
  <2> QED BY <1>1, <1>2, <2>5, <2>7, <2>8, Started
<1> HIDE DEF started, relocated, refused
<1> QED BY <1>3, <1>4, <1>5

\* IInv holds of every behaviour of the interpreter.
THEOREM RbpfInvariant == Spec => []IInv
<1>1. Init => IInv
  BY InitHolds
<1>2. IInv /\ [Next]_vars => IInv'
  <2> SUFFICES ASSUME IInv, [Next]_vars PROVE IInv'
    OBVIOUS
  <2>1. CASE Deploy BY <2>1, DeployHolds
  <2>2. ASSUME NEW name \in Functions, run_internal(name) PROVE IInv'
    BY <2>2, RunHolds
  <2>3. CASE OutOfGas \/ Unreachable BY <2>3, StopHolds
  <2>4. CASE LoadArgument \/ Load \/ Store BY <2>4, MemoryHolds
  <2>5. CASE LoadImmediate BY <2>5, LoadImmediateHolds
  <2>6. CASE Compute BY <2>6, ComputeHolds
  <2>7. CASE Jump BY <2>7, JumpHolds
  <2>8. CASE HelperCall BY <2>8, HelperCallHolds
  <2>9. CASE LocalCall BY <2>9, LocalCallHolds
  <2>10. CASE Exit BY <2>10, ExitHolds
  <2>11. CASE UNCHANGED vars
    <3>1. object' = object /\ deployed' = deployed /\ vm' = vm
      BY <2>11 DEF vars
    <3>2. RbpfTypes'
      BY <3>1 DEF IInv, RbpfTypes
    <3>3. WellFormed(vm.prog)' <=> WellFormed(vm.prog)
      BY <3>1 DEF WellFormed
    <3>4. (vm.status = "running" => check(vm.prog) = "ok" /\ AtInstructions(vm))'
      BY <3>1, <3>3 DEF IInv, AtInstructions, AtInstruction
    <3>5. StopsOnlyAtArithmetic'
      BY <3>1, <3>3 DEF IInv, StopsOnlyAtArithmetic, insn
    <3>6. FramesFit(vm)'
      BY <3>1 DEF IInv, FramesFit
    <3> QED BY <3>2, <3>4, <3>5, <3>6 DEF IInv
  <2> QED BY <2>1, <2>2, <2>3, <2>4, <2>5, <2>6, <2>7, <2>8, <2>9, <2>10, <2>11 DEF Next
<1> QED BY <1>1, <1>2, PTL DEF Spec

\* Whatever object is deployed, execute_program panics only at an arithmetic
\* instruction: none of its unreachable!() is met.
THEOREM OnlyArithmeticPanics == Spec => []StopsOnlyAtArithmetic
<1>1. IInv => StopsOnlyAtArithmetic
  BY DEF IInv
<1> QED BY <1>1, RbpfInvariant, PTL

\* Every frame of execute_program has its own slot of the stack, at every depth.
THEOREM FramesAlwaysMatch == Spec => []FramesMatch
<1>1. IInv => FramesMatch
  BY DEF IInv, FramesFit, FramesMatch
<1> QED BY <1>1, RbpfInvariant, PTL
=============================================================================
