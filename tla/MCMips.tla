------------------------------- MODULE MCMips -------------------------------
(***************************************************************************)
(* Mips with words of eight bits, so that bytes have two and immediate     *)
(* operands four.                                                          *)
(***************************************************************************)
EXTENDS Mips

Instruction(name, a, b, c, f) == [name |-> name, rs |-> a, rt |-> b, rd |-> c, field |-> f]

(* Addresses 128 and above are another region for jumps.                   *)
Start(a) == IF a = 8 THEN 120 ELSE 64

MCMachines ==
    {[reg |-> (0 :> 0) @@ (1 :> a) @@ (2 :> b) @@ (29 :> 8) @@ (31 :> 4), hi |-> 1, lo |-> 2,
      mem |-> [k \in 0..7 |-> (3 * k + 1) % 4], pc |-> Start(a), next |-> Start(a) + 4, prev |-> 0,
      load |-> 0, value |-> 0] : a \in {1, 4, 8, 15, 127, 128, 255}, b \in {0, 3, 16, 128, 130, 255}}
    \cup {InitRegisters([mem |-> [k \in 0..7 |-> 2]])}

MCProgram ==
    {Instruction(n, 1, 2, 2, 0) : n \in RdOps \ {"SLL", "SRA", "SRL"}}
    \cup {Instruction(n, 0, 2, 1, f) : n \in {"SLL", "SRA", "SRL"}, f \in {0, 3, 7}}
    \cup {Instruction(n, 1, 2, 0, 0) : n \in HiLoOps}
    \cup {Instruction("MFHI", 0, 0, 1, 0), Instruction("MFLO", 0, 0, 31, 0)}
    \cup {Instruction(n, 1, 2, 0, f) : n \in RtOps, f \in {7, 15}}
    \cup {Instruction(n, 1, 2, 0, 15) : n \in {"BEQ", "BNE"}}
    \cup {Instruction(n, 1, 0, 0, 3) : n \in {"BGEZ", "BGTZ", "BLEZ", "BLTZ"}}
    \cup {Instruction(n, 31, 0, 0, 3) : n \in {"BGEZAL", "BLTZAL"}}
    \cup {Instruction(n, 0, 0, 0, 17) : n \in {"J", "JAL"}}
    \cup {Instruction("JR", 31, 0, 0, 0), Instruction("JALR", 1, 0, 31, 0)}
    \cup {Instruction(n, 1, 2, 0, 0) : n \in Loads \cup Stores}
    \cup {Instruction(n, 0, 2, 0, 4) : n \in {"LB", "LW", "LWL", "LWR", "SH"}}
    \cup {Instruction("SYSCALL", 0, 0, 0, 0), Instruction("BREAK", 0, 0, 0, 0)}
=============================================================================
