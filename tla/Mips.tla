-------------------------------- MODULE Mips --------------------------------
(***************************************************************************)
(* The MIPS simulator of machine/mipssim.cc: one user program, with the    *)
(* branch delay slot, the delayed load, exceptions and instructions that   *)
(* are started again after a page fault.                                   *)
(*                                                                         *)
(* An instruction is given by its fields.  name stands for the opcode and  *)
(* the function code; field is what the format has besides registers: the  *)
(* immediate operand, the shift amount or the index of a jump.  The        *)
(* program is any sequence of instructions that keeps the rules of the     *)
(* machine for delay slots.                                                *)
(***************************************************************************)
EXTENDS MipsWords, TLC

CONSTANTS
    Program,            \* the instructions that occur
    Registers,          \* the general registers that they use
    Machines,           \* initial states of the machine
    StackTop,           \* where InitRegisters puts the stack
    MaxSteps            \* bound: how many instructions are executed

VARIABLES
    m,                  \* the machine, see Machines
    instr,              \* the instruction at PCReg
    missing,            \* what the next access to a page that is not valid is: fetch, data or none
    steps,
    stopped,            \* whether the kernel has given up
    common              \* (ghost) whether bin/execute.c means to do the same so far, see Common

vars == <<m, instr, missing, steps, stopped, common>>

-----------------------------------------------------------------------------
(* Instruction::Decode, opTable and specialTable.                          *)

RFMT == {"ADD", "ADDU", "AND", "DIV", "DIVU", "JALR", "JR", "MFHI", "MFLO", "MTHI", "MTLO", "MULT",
         "MULTU", "NOR", "OR", "SLL", "SLLV", "SLT", "SLTU", "SRA", "SRAV", "SRL", "SRLV", "SUB",
         "SUBU", "SYSCALL", "XOR"}
JFMT == {"J", "JAL"}
IFMT == {"ADDI", "ADDIU", "ANDI", "BEQ", "BGEZ", "BGEZAL", "BGTZ", "BLEZ", "BLTZ", "BLTZAL", "BNE",
         "LB", "LBU", "LH", "LHU", "LUI", "LW", "LWL", "LWR", "ORI", "SB", "SH", "SLTI", "SLTIU",
         "SW", "SWL", "SWR", "XORI"}

Decode(i) ==
    [op |-> IF i.name \in RFMT \cup JFMT \cup IFMT THEN i.name ELSE "UNIMP",
     rs |-> i.rs, rt |-> i.rt, rd |-> i.rd,
     extra |-> IF i.name \in IFMT THEN SignExtend(i.field, Half) ELSE i.field]

-----------------------------------------------------------------------------
(* Results of the cases of OneInstruction, in the order of the switch,     *)
(* from the contents of registers rs and rt.                               *)

AddAnd(op, rs, rt, extra) ==
    CASE op \in {"ADD", "ADDU"} -> Word(rs + rt)
      [] op \in {"ADDI", "ADDIU"} -> Word(rs + extra)
      [] op = "AND" -> rs & rt
      [] op = "ANDI" -> rs & (extra % 2^Half)

NorOr(op, rs, rt, extra) ==
    CASE op = "NOR" -> Complement(rs | rt)
      [] op = "OR" -> rs | rs
      [] op = "ORI" -> rs | (extra % 2^Half)

ShiftSetSub(op, rs, rt, extra) ==
    CASE op = "SLL" -> ShiftLeft(rt, extra)
      [] op = "SLLV" -> ShiftLeft(rt, rs % W)
      [] op = "SLT" -> Bool(ToInt(rs) < ToInt(rt))
      [] op = "SLTI" -> Bool(ToInt(rs) < ToInt(extra))
      [] op = "SLTIU" -> Bool(rs < extra)
      [] op = "SLTU" -> Bool(rs < rt)
      [] op \in {"SRA", "SRL"} -> ShiftRightInt(rt, extra)
      [] op \in {"SRAV", "SRLV"} -> ShiftRightInt(rt, rs % W)
      [] op \in {"SUB", "SUBU"} -> Word(rs - rt)

XorOrXori(op, rs, rt, extra) == rs ^^ (IF op = "XOR" THEN rt ELSE extra % 2^Half)

(* The instructions with a result in rd, and in rt.                        *)
RtOps == {"ADDI", "ADDIU", "ANDI", "LUI", "ORI", "SLTI", "SLTIU", "XORI"}
RdOps == {"ADD", "ADDU", "AND", "NOR", "OR", "SLL", "SLLV", "SLT", "SLTU", "SRA", "SRAV", "SRL",
          "SRLV", "SUB", "SUBU", "XOR"}

Computed(op, rs, rt, extra) ==
    CASE op \in {"ADD", "ADDU", "ADDI", "ADDIU", "AND", "ANDI"} -> AddAnd(op, rs, rt, extra)
      [] op = "LUI" -> ShiftLeft(extra, Half)
      [] op \in {"NOR", "OR", "ORI"} -> NorOr(op, rs, rt, extra)
      [] op \in {"XOR", "XORI"} -> XorOrXori(op, rs, rt, extra)
      [] OTHER -> ShiftSetSub(op, rs, rt, extra)

(* The tests on SIGN_BIT of ADD, ADDI and SUB.                             *)
Overflows(op, rs, rt, extra) ==
    \/ op = "ADD" /\ Negative(rs) = Negative(rt) /\ Negative(rs) # Negative(Word(rs + rt))
    \/ op = "ADDI" /\ Negative(rs) = Negative(extra)
                   /\ Negative(extra) # Negative(Word(rs + extra))
    \/ op = "SUB" /\ Negative(rs) # Negative(rt) /\ Negative(rs) # Negative(Word(rs - rt))

(* Fault: the carry out of the low word is forgotten.                      *)
NoCarry(lo, bLo) == 0

(* Mult: the carry out of lo, after bLo has been added to it.              *)
Carry(lo, bLo) == Bool(lo < bLo)

(* Mult: the bits of a one at a time, adding a shifted b.                  *)
RECURSIVE MultLoop(_, _, _, _, _, _)
MultLoop(i, a, bHi, bLo, hi, lo) ==
    LET odd == a % 2 = 1
        sum == Word(lo + bLo)
        lo1 == IF odd THEN sum ELSE lo
        hi1 == IF odd THEN Word(hi + Carry(sum, bLo) + bHi) ELSE hi
    IN  IF i = W \/ a = 0 THEN <<hi, lo>>
        ELSE MultLoop(i + 1, ShiftRightInt(a, 1), Word(2 * bHi + Bool(Negative(bLo))),
                      Word(2 * bLo), hi1, lo1)

(* Mult: in positive numbers, with the sign put back at the end.           *)
Mult(a, b, signedArith) ==
    LET negative == signedArith /\ Negative(a) # Negative(b)
        Positive(w) == IF signedArith /\ Negative(w) THEN Word(-w) ELSE w
        p == MultLoop(0, Positive(a), 0, Positive(b), 0, 0)
        lo == Word(Complement(p[2]) + 1)
    IN  IF a = 0 \/ b = 0 THEN <<0, 0>>
        ELSE IF ~negative THEN p
        ELSE <<IF lo = 0 THEN Word(Complement(p[1]) + 1) ELSE Complement(p[1]), lo>>

(* The division that the host's processor cannot do either.                *)
DivisionTraps(rs, rt) == rs = 2^(W - 1) /\ ToInt(rt) = -1

Divide(op, rs, rt) ==
    IF rt = 0 THEN <<0, 0>>
    ELSE IF op = "DIVU" THEN <<rs % rt, rs \div rt>>
    ELSE <<Word(Remainder(ToInt(rs), ToInt(rt))), Word(Quotient(ToInt(rs), ToInt(rt)))>>

MoveOrMult(op, rs, rt, hi, lo) ==
    CASE op = "MTHI" -> <<rs, lo>>
      [] op = "MTLO" -> <<hi, rs>>
      [] op \in {"MULT", "MULTU"} -> Mult(rs, rt, op = "MULT")

HiLoOps == {"DIV", "DIVU", "MTHI", "MTLO", "MULT", "MULTU"}
HiLoResult(op, rs, rt, hi, lo) ==
    IF op \in {"DIV", "DIVU"} THEN Divide(op, rs, rt) ELSE MoveOrMult(op, rs, rt, hi, lo)

Branches == {"BEQ", "BGEZ", "BGEZAL", "BGTZ", "BLEZ", "BLTZ", "BLTZAL", "BNE"}
Taken(op, rs, rt) ==
    CASE op = "BEQ" -> rs = rt
      [] op = "BNE" -> rs # rt
      [] op \in {"BGEZ", "BGEZAL"} -> ~Negative(rs)
      [] op \in {"BLTZ", "BLTZAL"} -> Negative(rs)
      [] op = "BGTZ" -> ToInt(rs) > 0
      [] op = "BLEZ" -> ToInt(rs) <= 0

Loads == {"LB", "LBU", "LH", "LHU", "LW", "LWL", "LWR"}
Stores == {"SB", "SH", "SW", "SWL", "SWR"}
Size(op) == IF op \in {"LB", "LBU", "SB"} THEN 1 ELSE IF op \in {"LH", "LHU", "SH"} THEN 2 ELSE 4

(* What LB, LBU, LH, LHU and LW put in rt.                                 *)
LoadResult(op, value) ==
    CASE op = "LB" -> SignExtend(value, Byte)
      [] op = "LH" -> SignExtend(value, Half)
      [] OTHER -> value

(* LWL and LWR merge the word with what rt will hold, SWL and SWR rt with  *)
(* the word; k is the position in the word (the code asserts that it is 0).*)
LoadPart(op, value, old, k) ==
    LET kept == Byte * (k + 1)
    IN  IF op = "LWL" THEN (old % 2^(Byte * k)) + ShiftLeft(value, Byte * k)
        ELSE (old - (old % 2^kept)) + ShiftRightUnsigned(value, W - kept)

StorePart(op, value, rt, k) ==
    LET moved == IF op = "SWL" THEN Byte * (4 - k) ELSE Byte * (3 - k)
    IN  IF op = "SWL" THEN (value - (value % 2^moved)) + ShiftRightUnsigned(rt, W - moved)
        ELSE (value % 2^moved) + ShiftLeft(rt, moved)

-----------------------------------------------------------------------------
(* The machine: registers, HiReg, LoReg, PCReg, NextPCReg, PrevPCReg,      *)
(* LoadReg and LoadValueReg, and memory.                                   *)

(* Machine::DelayedLoad.                                                   *)
DelayedLoad(s, nextReg, nextValue) ==
    [s EXCEPT !.reg = [[@ EXCEPT ![s.load] = s.value] EXCEPT ![0] = 0],
              !.load = nextReg, !.value = nextValue]

Done(s, pcAfter, loadReg, loadValue) ==
    [exception |-> "none",
     state |-> [DelayedLoad(s, loadReg, loadValue) EXCEPT
                   !.prev = s.pc, !.pc = s.next, !.next = pcAfter]]

(* Fault: a load under way is dropped.                                     *)
RaiseDropsLoad(s, exception) ==
    [exception |-> exception, state |-> [s EXCEPT !.load = 0, !.value = 0]]

(* Machine::RaiseException, up to the call of the handler.                 *)
Raise(s, exception) == [exception |-> exception, state |-> DelayedLoad(s, 0, 0)]

(* What ReadMem or WriteMem raises.                                        *)
Access(s, address, size, absent) ==
    CASE address % size # 0 -> "AddressError"
      [] address % size = 0 /\ address + size - 1 \notin DOMAIN s.mem -> "AddressError"
      [] address % size = 0 /\ address + size - 1 \in DOMAIN s.mem ->
            IF absent = "data" THEN "PageFault" ELSE "none"

(* What LWL and LWR start from.                                            *)
OldValue(s, r) == IF s.load = r THEN s.value ELSE s.reg[r]

-----------------------------------------------------------------------------
(* The cases of OneInstruction: i is decoded, absent names the page that   *)
(* is not valid.                                                           *)

After(s) == Word(s.next + 4)
Linked(s, r) == [s EXCEPT !.reg[r] = After(s)]

Compute(s, i) ==
    LET dest == IF i.op \in RdOps THEN i.rd ELSE i.rt
        value == Computed(i.op, s.reg[i.rs], s.reg[i.rt], i.extra)
    IN  IF Overflows(i.op, s.reg[i.rs], s.reg[i.rt], i.extra) THEN Raise(s, "Overflow")
        ELSE Done([s EXCEPT !.reg[dest] = value], After(s), 0, 0)

Branch(s, i) ==
    LET t == IF i.op \in {"BGEZAL", "BLTZAL"} THEN Linked(s, 31) ELSE s
    IN  Done(t, IF Taken(i.op, t.reg[i.rs], t.reg[i.rt]) THEN Word(s.next + 4 * i.extra)
                ELSE After(s), 0, 0)

HiLo(s, i) ==
    LET p == HiLoResult(i.op, s.reg[i.rs], s.reg[i.rt], s.hi, s.lo)
    IN  CASE i.op = "DIV" /\ DivisionTraps(s.reg[i.rs], s.reg[i.rt]) ->
                [exception |-> "SIGFPE", state |-> s]
          [] i.op \in {"MFHI", "MFLO"} ->
                Done([s EXCEPT !.reg[i.rd] = IF i.op = "MFHI" THEN s.hi ELSE s.lo], After(s), 0, 0)
          [] OTHER -> Done([s EXCEPT !.hi = p[1], !.lo = p[2]], After(s), 0, 0)

Jump(s, i) ==
    LET t == CASE i.op = "JAL" -> Linked(s, 31)
               [] i.op = "JALR" -> Linked(s, i.rd)
               [] OTHER -> s
    IN  Done(t, IF i.op \in {"J", "JAL"} THEN Region(After(s)) + 4 * i.extra ELSE t.reg[i.rs], 0, 0)

Load(s, i, address) ==
    LET value == LoadBytes(s.mem, address, Size(i.op))
    IN  Done(s, After(s), i.rt,
             IF i.op \in {"LWL", "LWR"} THEN LoadPart(i.op, value, OldValue(s, i.rt), address % 4)
             ELSE LoadResult(i.op, value))

Store(s, i, address) ==
    LET old == LoadBytes(s.mem, address, Size(i.op))
        value == IF i.op \in {"SWL", "SWR"} THEN StorePart(i.op, old, s.reg[i.rt], address % 4)
                 ELSE s.reg[i.rt]
    IN  Done([s EXCEPT !.mem = StoreBytes(@, address, Size(i.op), value)], After(s), 0, 0)

LoadOrStore(s, i, absent) ==
    LET address == Word(s.reg[i.rs] + i.extra)
        access == IF i.op \in {"LWL", "LWR", "SWL", "SWR"} /\ address % 4 # 0 THEN "assertion"
                  ELSE Access(s, address, Size(i.op), absent)
    IN  CASE access # "none" -> Raise(s, access)
          [] access = "none" /\ i.op \in Loads -> Load(s, i, address)
          [] access = "none" /\ i.op \in Stores -> Store(s, i, address)

(* Machine::OneInstruction.                                                *)
OneInstruction(s, raw, absent) ==
    LET i == Decode(raw)
    IN  CASE s.pc % 4 # 0 -> Raise(s, "AddressError")
          [] s.pc % 4 = 0 /\ absent = "fetch" -> Raise(s, "PageFault")
          [] OTHER ->
                CASE i.op \in RdOps \cup RtOps -> Compute(s, i)
                  [] i.op \in Branches -> Branch(s, i)
                  [] i.op \in HiLoOps \cup {"MFHI", "MFLO"} -> HiLo(s, i)
                  [] i.op \in {"J", "JAL", "JR", "JALR"} -> Jump(s, i)
                  [] i.op \in Loads \cup Stores -> LoadOrStore(s, i, absent)
                  [] i.op = "SYSCALL" -> Raise(s, "Syscall")
                  [] i.op = "UNIMP" -> Raise(s, "IllegalInstr")

(* Fault: NextPCReg is not advanced.                                       *)
returnFromSystemCallTwice(s) == [s EXCEPT !.prev = s.pc, !.pc = s.next]

(* returnFromSystemCall of userprog/exception.cc.                          *)
returnFromSystemCall(s) == [s EXCEPT !.prev = s.pc, !.pc = s.next, !.next = Word(s.next + 4)]

(* AddrSpace::InitRegisters.                                               *)
StackReg == 29

InitRegisters(s) ==
    [reg |-> [r \in Registers |-> IF r = StackReg THEN StackTop ELSE 0], hi |-> 0, lo |-> 0,
     pc |-> 0, next |-> 4, prev |-> 0, load |-> 0, value |-> 0, mem |-> s.mem]

(* Thread::SaveUserState and RestoreUserState.                             *)
SaveUserState(s) == [r \in DOMAIN s \ {"mem"} |-> s[r]]

RestoreUserState(s, userRegisters) == userRegisters @@ ("mem" :> s.mem)

(* What CheckIfDue does to the machine before it calls a handler.          *)
BeforeHandler(s) == DelayedLoad(s, 0, 0)

-----------------------------------------------------------------------------
(* The rules that programs keep: no branch in a delay slot, no other use   *)
(* of a register in the delay slot of its load than by LWL and LWR, and no *)
(* jump that sets the register it jumps to.                                *)

Uses(i) == (CASE i.name \in RFMT -> {i.rs, i.rt, i.rd}
              [] i.name \in {"LWL", "LWR"} -> {i.rs}
              [] i.name \in IFMT \ {"LWL", "LWR"} -> {i.rs, i.rt}
              [] OTHER -> {})
           \cup (IF i.name \in {"JAL", "BGEZAL", "BLTZAL"} THEN {31} ELSE {})
Jumps == Branches \cup {"J", "JAL", "JR", "JALR"}

MayFollow(s, i) ==
    /\ s.load # 0 => s.load \notin Uses(i)
    /\ i.name \in Jumps => s.next = Word(s.pc + 4)
    /\ i.name = "JALR" => i.rd # i.rs

(* Instructions that the two simulators mean to execute alike.  They       *)
(* differ, besides LWL, LWR, SWL and SWR: mipssim.cc has OR of rs with     *)
(* itself, and SRL and SRLV that keep the sign; execute.c extends the sign *)
(* of the immediate of ANDI, ORI and XORI, does not reduce the amount of a *)
(* variable shift, does not test for a zero divisor, and drops carries in  *)
(* products of large numbers; they take the region of a jump from          *)
(* different addresses.                                                    *)
Common(s, i) ==
    LET rs == s.reg[i.rs]
        rt == s.reg[i.rt]
        Small(w) == w < 2^Half
    IN  /\ i.name \notin {"OR", "SRL", "SRLV", "LWL", "LWR", "SWL", "SWR"}
        /\ i.name \in {"ANDI", "ORI", "XORI"} => i.field < 2^(Half - 1)
        /\ i.name \in {"SLLV", "SRAV"} => rs < W
        /\ i.name \in {"DIV", "DIVU"} => rt # 0
        /\ i.name \in {"J", "JAL"} => Region(s.pc) = Region(Word(s.next + 4))
        /\ i.name \in {"MULT", "MULTU"} => Small(rs) /\ Small(rt)

-----------------------------------------------------------------------------
(* The next instruction; after the last one nothing is fetched.            *)
Fetch(s) ==
    IF steps + 1 < MaxSteps
    THEN /\ instr' \in {i \in Program : MayFollow(s, i)}
         /\ missing' \in {"fetch", "data", "none"}
    ELSE UNCHANGED <<instr, missing>>

Init ==
    /\ m \in Machines
    /\ instr \in {i \in Program : MayFollow(m, i)}
    /\ missing \in {"fetch", "data", "none"}
    /\ steps = 0
    /\ stopped = FALSE
    /\ common = TRUE

Result == OneInstruction(m, instr, missing)

(* What follows an instruction or a system call.                           *)
GoOn(s) ==
    /\ m' = s
    /\ Fetch(s)
    /\ steps' = steps + 1
    /\ common' = (common /\ Common(m, instr))
    /\ UNCHANGED stopped

Runs == ~stopped /\ steps < MaxSteps

Execute ==
    /\ Runs
    /\ Result.exception = "none"
    /\ GoOn(Result.state)

Syscall ==
    /\ Runs
    /\ Result.exception = "Syscall"
    /\ GoOn(returnFromSystemCall(Result.state))

(* The kernel makes the page valid and the instruction is started again.   *)
PageFault ==
    /\ Runs
    /\ Result.exception = "PageFault"
    /\ m' = Result.state
    /\ missing' = "none"
    /\ UNCHANGED <<instr, steps, stopped, common>>

(* After an instruction an interrupt comes whose handler lets a new thread *)
(* run, until this one is switched to again.                               *)
Interrupt ==
    /\ Runs
    /\ LET before == BeforeHandler(m)
           other == InitRegisters(before)
       IN  m' = RestoreUserState(other, SaveUserState(before))
    /\ UNCHANGED <<instr, missing, steps, stopped, common>>

(* ExceptionHandler has no other cases.                                    *)
Unexpected ==
    /\ Runs
    /\ Result.exception \notin {"none", "Syscall", "PageFault"}
    /\ stopped' = TRUE
    /\ UNCHANGED <<m, instr, missing, steps, common>>

Next == Execute \/ Syscall \/ PageFault \/ Interrupt \/ Unexpected

Spec == Init /\ [][Next]_vars

-----------------------------------------------------------------------------
(* Properties.                                                             *)

(* The machine with the load that is under way done.                       *)
Settled(s) == DelayedLoad(s, 0, 0)

Simple == INSTANCE Execute WITH
              Reg <- Settled(m).reg, HI <- m.hi, LO <- m.lo, mem <- m.mem, pc <- m.pc, npc <- m.next

(* For programs that keep the rules of the delay slots, the simulator      *)
(* with its delayed loads, page faults and restarts does what the simple   *)
(* interpreter of bin/execute.c does, instruction by instruction, on all   *)
(* that they have in common.                                               *)
ImplementsExecute == [][common' => Simple!runprogram(instr)]_<<Simple!vars, common>>

(* "re-start the instruction execution from the beginning": whether an     *)
(* instruction is interrupted by a page fault or not, which finishes the   *)
(* load under way before it, makes no difference.                          *)
RestartTransparent ==
    LET direct == OneInstruction(m, instr, "none")
        restarted == OneInstruction(Raise(m, "PageFault").state, instr, "none")
    IN  Runs => /\ direct.exception = restarted.exception
                /\ Settled(direct.state) = Settled(restarted.state)

(* MULT and MULTU leave the double-length product of their registers in    *)
(* HiReg and LoReg, with and without a sign.                               *)
MultExact ==
    Runs /\ instr.name \in {"MULT", "MULTU"} =>
        LET Value(r) == IF instr.name = "MULT" THEN ToInt(m.reg[r]) ELSE m.reg[r]
            s == OneInstruction(m, instr, "none").state
        IN  s.hi * 2^W + s.lo = (Value(instr.rs) * Value(instr.rt)) % 2^(2 * W)
=============================================================================
