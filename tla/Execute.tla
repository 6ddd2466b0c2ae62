------------------------------ MODULE Execute ------------------------------
(***************************************************************************)
(* The stand-alone MIPS interpreter of bin/execute.c: one instruction      *)
(* after the other, without exceptions, and with loads that take effect at *)
(* once.  The instruction is given by its fields; name is the operation    *)
(* that the opcode, the function code or (for I_BCOND) rt selects.  SWL,   *)
(* SWR and BREAK end the interpreter; of a system call only the return is  *)
(* modelled.                                                               *)
(***************************************************************************)
EXTENDS MipsWords

VARIABLES Reg, HI, LO, mem, pc, npc

vars == <<Reg, HI, LO, mem, pc, npc>>

rs(i) == Reg[i.rs]
rt(i) == Reg[i.rt]
immed(i) == SignExtend(i.field, Half)

-----------------------------------------------------------------------------
(* The cases of the two switches.                                          *)

Shifts == {"SLL", "SRL", "SRA", "SLLV", "SRLV", "SRAV"}
Shifted(i) ==
    LET amount == IF i.name \in {"SLL", "SRL", "SRA"} THEN i.field ELSE rs(i) IN
    CASE i.name \in {"SLL", "SLLV"} -> ShiftLeft(rt(i), amount)
      [] i.name \in {"SRL", "SRLV"} -> ShiftRightUnsigned(rt(i), amount)
      [] i.name \in {"SRA", "SRAV"} -> ShiftRightInt(rt(i), amount)

(* The double word of a product from products of half words; what the low  *)
(* halves of the sums carry is dropped.                                    *)
Product(t1, t2) ==
    LET High(t) == t \div 2^Half
        Low(t) == t % 2^Half
    IN  <<Word(High(t1) * High(t2) + ShiftRightInt(Word(High(t1) * Low(t2)), Half)
               + ShiftRightInt(Word(High(t2) * Low(t1)), Half)),
          Word(t1 * t2)>>

Negated(p) ==
    LET lo == Word(Complement(p[2]) + 1)
    IN  <<IF lo = 0 THEN Word(Complement(p[1]) + 1) ELSE Complement(p[1]), lo>>

HiLoNames == {"MTHI", "MTLO", "MULT", "MULTU", "DIV", "DIVU"}
HiLo(i) ==
    CASE i.name = "MTHI" -> <<rs(i), LO>>
      [] i.name = "MTLO" -> <<HI, rs(i)>>
      [] i.name = "MULT" ->
            LET p == Product(Word(Abs(ToInt(rs(i)))), Word(Abs(ToInt(rt(i)))))
            IN  IF Negative(rs(i)) = Negative(rt(i)) THEN p ELSE Negated(p)
      [] i.name = "MULTU" -> Product(rs(i), rt(i))
      [] i.name = "DIV" -> <<Word(Remainder(ToInt(rs(i)), ToInt(rt(i)))),
                             Word(Quotient(ToInt(rs(i)), ToInt(rt(i))))>>
      [] i.name = "DIVU" -> <<rs(i) % rt(i), rs(i) \div rt(i)>>

Arithmetics == {"ADD", "ADDU", "SUB", "SUBU", "AND", "OR", "XOR", "NOR", "SLT", "SLTU"}
Arithmetic(i) ==
    CASE i.name \in {"ADD", "ADDU"} -> Word(rs(i) + rt(i))
      [] i.name \in {"SUB", "SUBU"} -> Word(rs(i) - rt(i))
      [] i.name = "AND" -> rs(i) & rt(i)
      [] i.name = "OR" -> rs(i) | rt(i)
      [] i.name = "XOR" -> rs(i) ^^ rt(i)
      [] i.name = "NOR" -> Complement(rs(i) | rt(i))
      [] i.name = "SLT" -> Bool(ToInt(rs(i)) < ToInt(rt(i)))
      [] i.name = "SLTU" -> Bool(rs(i) < rt(i))

(* Register 31 is set before the test of BLTZAL and BGEZAL.                *)
Taken(i) ==
    LET linked == IF i.rs = 31 THEN Word(pc + 8) ELSE rs(i) IN
    CASE i.name = "BLTZ" -> ToInt(rs(i)) < 0
      [] i.name = "BGEZ" -> ToInt(rs(i)) >= 0
      [] i.name = "BLTZAL" -> ToInt(linked) < 0
      [] i.name = "BGEZAL" -> ToInt(linked) >= 0
      [] i.name = "BEQ" -> rs(i) = rt(i)
      [] i.name = "BNE" -> rs(i) # rt(i)
      [] i.name = "BLEZ" -> ToInt(rs(i)) <= 0
      [] i.name = "BGTZ" -> ToInt(rs(i)) > 0

Branches == {"BLTZ", "BLTZAL", "BGEZ", "BGEZAL", "BEQ", "BNE", "BLEZ", "BGTZ"}

Immediates == {"ADDI", "ADDIU", "SLTI", "SLTIU", "ANDI", "ORI", "XORI", "LUI"}
Immediate(i) ==
    CASE i.name \in {"ADDI", "ADDIU"} -> Word(rs(i) + immed(i))
      [] i.name = "SLTI" -> Bool(ToInt(rs(i)) < ToInt(immed(i)))
      [] i.name = "SLTIU" -> Bool(rs(i) < immed(i))
      [] i.name = "ANDI" -> rs(i) & immed(i)
      [] i.name = "ORI" -> rs(i) | immed(i)
      [] i.name = "XORI" -> rs(i) ^^ immed(i)
      [] i.name = "LUI" -> ShiftLeft(i.field, Half)

Loads == {"LB", "LH", "LWL", "LW", "LBU", "LHU", "LWR"}
Loaded(i) ==
    LET address == Word(rs(i) + immed(i))
        k == address % 4
        word == LoadBytes(mem, address - k, 4)
    IN  CASE i.name = "LB" -> SignExtend(LoadBytes(mem, address, 1), Byte)
          [] i.name = "LH" -> SignExtend(LoadBytes(mem, address, 2), Half)
          [] i.name = "LWL" -> rt(i) | ShiftLeft(word, Byte * k)
          [] i.name = "LW" -> LoadBytes(mem, address, 4)
          [] i.name = "LBU" -> LoadBytes(mem, address, 1)
          [] i.name = "LHU" -> LoadBytes(mem, address, 2)
          [] i.name = "LWR" -> IF k = 0 THEN word
                               ELSE (rt(i) & ShiftLeft(2^W - 1, Byte * k))
                                    | ShiftRightInt(word, Byte * (4 - k))

Stored(i) ==
    LET address == Word(rs(i) + immed(i)) IN
    CASE i.name = "SB" -> StoreBytes(mem, address, 1, rt(i))
      [] i.name = "SH" -> StoreBytes(mem, address, 2, rt(i))
      [] i.name = "SW" -> StoreBytes(mem, address, 4, rt(i))
      [] OTHER -> mem

-----------------------------------------------------------------------------
(* One turn of the loop of runprogram.                                     *)
runprogram(i) ==
    /\ i.name \notin {"SWL", "SWR", "BREAK"}
    /\ pc' = npc
    /\ npc' = CASE i.name \in Branches /\ Taken(i) -> Word(pc + 4 + 4 * immed(i))
                [] i.name \in {"J", "JAL"} -> Region(pc) + 4 * i.field
                [] i.name \in {"JR", "JALR"} -> rs(i)
                [] OTHER -> Word(npc + 4)
    /\ Reg' = [r \in DOMAIN Reg |->
                  CASE r = 0 -> 0
                    [] r # 0 /\ r = i.rd /\ i.name \in Shifts -> Shifted(i)
                    [] r # 0 /\ r = i.rd /\ i.name \in Arithmetics -> Arithmetic(i)
                    [] r # 0 /\ r = i.rd /\ i.name \in {"MFHI", "MFLO"} ->
                          IF i.name = "MFHI" THEN HI ELSE LO
                    [] r # 0 /\ r = i.rt /\ i.name \in Immediates -> Immediate(i)
                    [] r # 0 /\ r = i.rt /\ i.name \in Loads -> Loaded(i)
                    [] r = i.rd /\ i.name = "JALR" -> Word(pc + 8)
                    [] r = 31 /\ i.name \in {"JAL", "BLTZAL", "BGEZAL"} -> Word(pc + 8)
                    [] OTHER -> Reg[r]]
    /\ <<HI', LO'>> = IF i.name \in HiLoNames THEN HiLo(i) ELSE <<HI, LO>>
    /\ mem' = Stored(i)
=============================================================================
