--------------------------- MODULE InstructionSet ---------------------------
(***************************************************************************)
(* What RV32I says of the same instructions: where each bit of an          *)
(* immediate comes from, and what each arithmetic instruction and branch   *)
(* relates, bit by bit.                                                    *)
(***************************************************************************)
EXTENDS Instructions

\* The bit of the instruction that gives bit b of the immediate.
Absent == -1
ISource(b) == IF b <= 10 THEN b + 20 ELSE 31
SSource(b) == CASE b <= 4 -> b + 7 [] b \in 5 .. 10 -> b + 20 [] OTHER -> 31
BSource(b) ==
    CASE b = 0 -> Absent
      [] b \in 1 .. 4 -> b + 7
      [] b \in 5 .. 10 -> b + 20
      [] b = 11 -> 7
      [] OTHER -> 31
USource(b) == IF b <= 11 THEN Absent ELSE b
JSource(b) ==
    CASE b = 0 -> Absent
      [] b \in 1 .. 10 -> b + 20
      [] b = 11 -> 20
      [] b \in 12 .. 19 -> b
      [] OTHER -> 31

Picked(w, source(_)) ==
    [b \in 0 .. 31 |-> IF source(b) = Absent THEN 0 ELSE w[source(b)]]

FormatImmediate(w) ==
    CASE OpCode(w) \in {"LUI", "AUIPC"} -> Picked(w, USource)
      [] OpCode(w) = "JAL" -> Picked(w, JSource)
      [] OpCode(w) = "BR" -> Picked(w, BSource)
      [] OpCode(w) = "ST" -> Picked(w, SSource)
      [] OTHER -> Picked(w, ISource)

\* The instructions of the base set among the encodings of OP and OPI.
Arithmetic == <<"ADD", "SLL", "SLT", "SLTU", "XOR", "SRL", "OR", "AND">>
Mnemonic(w) ==
    LET funct7 == Num(w, 25, 7)
        plain == Arithmetic[Funct3(w) + 1]
    IN  CASE OpCode(w) = "OPI" /\ Funct3(w) \notin {1, 5} -> plain
          [] OpCode(w) \in {"OP", "OPI"} /\ funct7 = 0 -> plain
          [] OpCode(w) = "OP" /\ funct7 = 32 /\ Funct3(w) = 0 -> "SUB"
          [] OpCode(w) \in {"OP", "OPI"} /\ funct7 = 32 /\ Funct3(w) = 5 -> "SRA"
          [] OTHER -> "none"

Below(m, n) ==
    LET top == Xlen - 1 IN
    BitOf(m, top) > BitOf(n, top) \/ (BitOf(m, top) = BitOf(n, top) /\ m < n)

\* Bit b of m moved by s, "fill" where there is none.
ShiftedBit(m, b, s, fill) == IF b + s \in 0 .. Xlen - 1 THEN BitOf(m, b + s) ELSE fill

Means(name, lhs, rhs, result) ==
    LET each(P(_, _, _)) ==
            \A b \in 0 .. Xlen - 1 : P(BitOf(lhs, b), BitOf(rhs, b), BitOf(result, b))
        s == rhs % Xlen
    IN  CASE name = "ADD" -> \E c \in Bit : result + c * Pow2[Xlen] = lhs + rhs
          [] name = "SUB" -> \E c \in Bit : result + rhs = lhs + c * Pow2[Xlen]
          [] name = "SLT" -> result \in Bit /\ (result = 1 <=> Below(lhs, rhs))
          [] name = "SLTU" -> result \in Bit /\ (result = 1 <=> lhs < rhs)
          [] name = "XOR" -> each(LAMBDA x, y, z : z = 1 <=> x # y)
          [] name = "OR" -> each(LAMBDA x, y, z : z = 0 <=> x = 0 /\ y = 0)
          [] name = "AND" -> each(LAMBDA x, y, z : z = 1 <=> x = 1 /\ y = 1)
          [] name = "SLL" -> \A b \in 0 .. Xlen - 1 : BitOf(result, b) = ShiftedBit(lhs, b, -s, 0)
          [] name = "SRL" -> \A b \in 0 .. Xlen - 1 : BitOf(result, b) = ShiftedBit(lhs, b, s, 0)
          [] name = "SRA" -> \A b \in 0 .. Xlen - 1 :
                BitOf(result, b) = ShiftedBit(lhs, b, s, BitOf(lhs, Xlen - 1))

-----------------------------------------------------------------------------
(* Properties.                                                             *)

\* Every bit of the immediate decode() puts together is the one the format
\* of its opcode names, sign extension included.
ImmediatesFollowFormats == dctoEx.we => dctoEx.imm = FormatImmediate(input.word)

\* execute() computes what each arithmetic instruction of the base set means,
\* the funct7 bit read where it is part of the encoding and nowhere else; JALR
\* links the address behind its own, whatever its operands, and past the last
\* address too; and no field is left unassigned that decode() has announced
\* for a register, but by the M extension.
ResultsFollowMeaning ==
    extoMem.we =>
        /\ Mnemonic(input.word) # "none" =>
              Means(Mnemonic(input.word), input.lhs, input.rhs, extoMem.result)
        /\ OpCode(input.word) = "JALR" =>
              ((input.pc + 4) - extoMem.result) % Pow2[Xlen] = 0
        /\ extoMem.useRd /\ ~MExtension(input.word) => extoMem.result \in Values

\* The branches come in three pairs, equality, signed and unsigned order; of
\* the two that differ in funct3[0] exactly one is taken.
Condition(w, lhs, rhs) ==
    CASE Funct3(w) \in {0, 1} -> lhs = rhs
      [] Funct3(w) \in {4, 5} -> Below(lhs, rhs)
      [] Funct3(w) \in {6, 7} -> lhs < rhs

BranchesFollowMeaning ==
    extoMem.we /\ OpCode(input.word) = "BR" /\ Recognized(input.word) =>
        extoMem.isBranch =
            (Condition(input.word, input.lhs, input.rhs) # (Funct3(input.word) % 2 = 1))

\* The monitor's table and the two switches agree: a word it counts as
\* unrecognised neither writes a register, nor redirects the fetch, nor
\* accesses the memory.
UnrecognizedHasNoEffect ==
    extoMem.we /\ ~Recognized(input.word) =>
        /\ ~extoMem.useRd /\ ~extoMem.isBranch
        /\ OpCode(input.word) \notin {"LD", "ST"}
=============================================================================
