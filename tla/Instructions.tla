---------------------------- MODULE Instructions ----------------------------
(***************************************************************************)
(* What decode() slices out of the 32 bits of an instruction, what         *)
(* execute() computes from two operands, and what isRecognized() says of   *)
(* it: the data Core takes as parameters.                                  *)
(*                                                                         *)
(* An instruction is a function from its bit numbers, as slc() and         *)
(* set_slc() see it.  A register has Xlen bits, 32 in the code; the        *)
(* operands and the result are unsigned numbers.                           *)
(***************************************************************************)
EXTENDS Integers

CONSTANTS
    Xlen,        \* width of a register, a power of two
    Inputs,      \* records word, pc, lhs, rhs: what is decoded and executed
    Undef        \* a field no statement assigned

ASSUME XlenAssumption == Xlen \in Nat \ {0}

Bit == {0, 1}
InstrWord == [0 .. 31 -> Bit]

\* Powers of two up to the first one a register does not hold.
Pow2[n \in 0 .. Xlen] == IF n = 0 THEN 1 ELSE 2 * Pow2[n - 1]

Values == 0 .. Pow2[Xlen] - 1

ASSUME InputAssumption ==
    \A i \in Inputs : /\ i.word \in InstrWord
                      /\ i.pc \in Values /\ i.lhs \in Values /\ i.rhs \in Values

Slc(w, n, from) == [b \in 0 .. n - 1 |-> w[from + b]]
SetSlc(w, from, n, slice) ==
    [b \in DOMAIN w |-> IF b \in from .. from + n - 1 THEN slice[b - from] ELSE w[b]]
Zeros(n) == [b \in 0 .. n - 1 |-> 0]

\* A signed n-bit number assigned to a 32-bit register.
Extended(w, n) == [b \in 0 .. 31 |-> IF b < n THEN w[b] ELSE w[n - 1]]

\* The number n bits stand for, n at most 7.
Num(w, from, n) ==
    LET bit(b) == IF b < n THEN w[from + b] ELSE 0
    IN  bit(0) + 2 * bit(1) + 4 * bit(2) + 8 * bit(3)
          + 16 * bit(4) + 32 * bit(5) + 64 * bit(6)

OpCodeNames ==
    [n \in 0 .. 127 |->
        CASE n = 55 -> "LUI"  [] n = 23 -> "AUIPC" [] n = 111 -> "JAL"
          [] n = 103 -> "JALR" [] n = 99 -> "BR"   [] n = 3 -> "LD"
          [] n = 35 -> "ST"   [] n = 19 -> "OPI"   [] n = 51 -> "OP"
          [] n = 15 -> "MISC_MEM" [] n = 115 -> "SYSTEM"
          [] OTHER -> "UNKNOWN"]

OpCode(w) == OpCodeNames[Num(w, 0, 7)]
Funct3(w) == Num(w, 12, 3)
Rd(w) == Num(w, 7, 5)

-----------------------------------------------------------------------------
(* The immediates of decode().                                             *)

Imm12I(w) == Extended(Slc(w, 12, 20), 12)

Imm12S(w) ==
    LET high == SetSlc(Zeros(12), 5, 7, Slc(w, 7, 25))
    IN  Extended(SetSlc(high, 0, 5, Slc(w, 5, 7)), 12)

\* Mutant: bits 11 and 12 of a branch offset change places.
Imm13Swapped(w) ==
    LET middle == SetSlc(Zeros(13), 5, 6, Slc(w, 6, 25))
        low == SetSlc(middle, 1, 4, Slc(w, 4, 8))
    IN  Extended([low EXCEPT ![12] = w[7], ![11] = w[31]], 13)

Imm13(w) ==
    LET middle == SetSlc([Zeros(13) EXCEPT ![12] = w[31]], 5, 6, Slc(w, 6, 25))
        low == SetSlc(middle, 1, 4, Slc(w, 4, 8))
    IN  Extended([low EXCEPT ![11] = w[7]], 13)

Imm3112(w) == SetSlc(Zeros(32), 12, 20, Slc(w, 20, 12))

Imm21(w) ==
    LET high == [SetSlc(Zeros(21), 12, 8, Slc(w, 8, 12)) EXCEPT ![11] = w[20]]
        low == SetSlc(high, 1, 10, Slc(w, 10, 21))
    IN  Extended([low EXCEPT ![20] = w[31]], 21)

\* The one each arm of the switch takes.
Immediate(w) ==
    CASE OpCode(w) \in {"LUI", "AUIPC"} -> Imm3112(w)
      [] OpCode(w) = "JAL" -> Imm21(w)
      [] OpCode(w) = "BR" -> Imm13(w)
      [] OpCode(w) = "ST" -> Imm12S(w)
      [] OTHER -> Imm12I(w)

UseRd(w) ==
    /\ OpCode(w) \in {"LUI", "AUIPC", "JAL", "JALR", "LD", "OPI", "OP"}
    /\ Rd(w) # 0

-----------------------------------------------------------------------------
(* The arms of execute() that compute.                                     *)

Wrap(n) == n % Pow2[Xlen]
Signed(n) == IF n < Pow2[Xlen - 1] THEN n ELSE n - Pow2[Xlen]
Flag(b) == IF b THEN 1 ELSE 0

\* The bits of a number, and bitwise operators from them.
BitOf(n, b) == (n \div Pow2[b]) % 2
FromBits(bits) ==
    CHOOSE n \in Values : \A b \in 0 .. Xlen - 1 : BitOf(n, b) = bits[b]
Xor(m, n) == FromBits([b \in 0 .. Xlen - 1 |-> (BitOf(m, b) + BitOf(n, b)) % 2])
Or(m, n) ==
    FromBits([b \in 0 .. Xlen - 1 |->
                 BitOf(m, b) + BitOf(n, b) - BitOf(m, b) * BitOf(n, b)])
And(m, n) == FromBits([b \in 0 .. Xlen - 1 |-> BitOf(m, b) * BitOf(n, b)])

\* The cast to ac_int<5>: log2(Xlen) bits.
ShiftAmount(n) == n % Xlen

\* One table serves OPI and OP: "alternate" is funct7[5] where the arm looks
\* at it.
Compute(funct3, alternate, lhs, rhs) ==
    CASE funct3 = 0 -> Wrap(IF alternate THEN lhs - rhs ELSE lhs + rhs)
      [] funct3 = 1 -> Wrap(lhs * Pow2[ShiftAmount(rhs)])
      [] funct3 = 2 -> Flag(Signed(lhs) < Signed(rhs))
      [] funct3 = 3 -> Flag(lhs < rhs)
      [] funct3 = 4 -> Xor(lhs, rhs)
      [] funct3 = 5 -> Wrap((IF alternate THEN Signed(lhs) ELSE lhs)
                               \div Pow2[ShiftAmount(rhs)])
      [] funct3 = 6 -> Or(lhs, rhs)
      [] funct3 = 7 -> And(lhs, rhs)

\* Mutant: ADDI looks at bit 30 as ADD does.
AlternateEverywhere(w) == w[30] = 1

Alternate(w) == w[30] = 1 /\ (OpCode(w) = "OP" \/ Funct3(w) = 5)

\* RISCV_OP with funct7[0] set: execute()'s arm for it is empty.
MExtension(w) == OpCode(w) = "OP" /\ w[25] = 1

\* The CSR instructions: funct3 0 is the environment's, 4 is no instruction.
IsCsr(w) == OpCode(w) = "SYSTEM" /\ Funct3(w) \notin {0, 4}

\* extoMem.result.  Undef where no statement assigns it: the M extension, the
\* branches, MISC_MEM, the system calls, no instruction.
Result(w, pc, lhs, rhs) ==
    CASE OpCode(w) \in {"OPI", "OP"} /\ ~MExtension(w) ->
            Compute(Funct3(w), Alternate(w), lhs, rhs)
      [] OpCode(w) \in {"LUI", "JAL"} -> lhs
      [] OpCode(w) \in {"AUIPC", "LD", "ST"} -> Wrap(lhs + rhs)
      [] OpCode(w) = "JALR" -> Wrap(pc + 4)
      [] IsCsr(w) -> lhs
      [] OTHER -> Undef

\* Mutant: BGE and BGEU compare the same way.
TakenUnsigned(w, lhs, rhs) ==
    /\ OpCode(w) = "BR"
    /\ CASE Funct3(w) = 0 -> lhs = rhs
         [] Funct3(w) = 1 -> lhs # rhs
         [] Funct3(w) = 4 -> Signed(lhs) < Signed(rhs)
         [] Funct3(w) = 6 -> lhs < rhs
         [] Funct3(w) \in {5, 7} -> lhs >= rhs
         [] OTHER -> FALSE

Taken(w, lhs, rhs) ==
    /\ OpCode(w) = "BR"
    /\ CASE Funct3(w) = 0 -> lhs = rhs
         [] Funct3(w) = 1 -> lhs # rhs
         [] Funct3(w) = 4 -> Signed(lhs) < Signed(rhs)
         [] Funct3(w) = 5 -> Signed(lhs) >= Signed(rhs)
         [] Funct3(w) = 6 -> lhs < rhs
         [] Funct3(w) = 7 -> lhs >= rhs
         [] OTHER -> FALSE

\* extoMem.isBranch or dctoEx.isBranch.
Redirects(w, lhs, rhs) == OpCode(w) \in {"JAL", "JALR"} \/ Taken(w, lhs, rhs)

\* Mutant: the table of the monitor stops at the loads.
RecognizedWithoutStores(w) ==
    /\ OpCode(w) \notin {"UNKNOWN", "ST"}
    /\ OpCode(w) = "BR" => Funct3(w) \notin {2, 3}
    /\ OpCode(w) = "SYSTEM" => Funct3(w) # 4

\* isRecognized(): the funct3 tables of OPI and OP are full.
Recognized(w) ==
    /\ OpCode(w) # "UNKNOWN"
    /\ OpCode(w) = "BR" => Funct3(w) \notin {2, 3}
    /\ OpCode(w) = "SYSTEM" => Funct3(w) # 4

-----------------------------------------------------------------------------
(* One instruction through the two functions.                              *)

VARIABLES
    input,     \* the instruction and its operands
    dctoEx,    \* what decode() makes of it, once it has run
    extoMem    \* what execute() makes of it, once it has run

None == [we |-> FALSE]

Init == input \in Inputs /\ dctoEx = None /\ extoMem = None

Decode ==
    /\ dctoEx = None
    /\ dctoEx' = [we |-> TRUE, imm |-> Immediate(input.word),
                  useRd |-> UseRd(input.word)]
    /\ UNCHANGED <<input, extoMem>>

Execute ==
    /\ dctoEx # None /\ extoMem = None
    /\ extoMem' = [we |-> TRUE, useRd |-> dctoEx.useRd,
                   result |-> Result(input.word, input.pc, input.lhs, input.rhs),
                   isBranch |-> Redirects(input.word, input.lhs, input.rhs)]
    /\ UNCHANGED <<input, dctoEx>>

Next == Decode \/ Execute

Spec == Init /\ [][Next]_<<input, dctoEx, extoMem>>
=============================================================================
