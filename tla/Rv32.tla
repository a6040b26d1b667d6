-------------------------------- MODULE Rv32 --------------------------------
(***************************************************************************)
(* The RV32I subset Comet's pipeline switches on: words and decoded        *)
(* instructions.                                                           *)
(*                                                                         *)
(* The data is abstract.  Words are 0 .. WordSize-1 with wrapping          *)
(* addition (WordSize = 2^32 and InstrSize = 4 is the processor itself);   *)
(* an instruction is the record of fields decode() slices out of 32 bits,  *)
(* with one sign-extended immediate and "funct" standing for               *)
(* funct3/funct7.  The arithmetic, the branch conditions and the sub-word  *)
(* memory accesses are operator parameters: their results matter to the    *)
(* pipeline, their definitions do not.                                      *)
(***************************************************************************)
EXTENDS Integers

CONSTANTS
    WordSize,            \* number of values of a register: 2^32
    InstrSize,           \* what fetch() adds to the pc: 4
    RegCount,            \* number of architectural registers: 32
    Functs,              \* values of funct3/funct7
    ZeroFunct,           \* the one of the all-zero word
    MulDiv,              \* those with funct7[0] set: the M extension's, for OP
    Memory,              \* contents a data memory can have
    Alu(_, _, _),        \* Alu(funct, lhs, rhs): RISCV_OPI and RISCV_OP but MulDiv
    Taken(_, _, _),      \* Taken(funct, lhs, rhs): RISCV_BR
    Load(_, _, _),       \* Load(funct, memory, address)
    Store(_, _, _, _),   \* Store(funct, memory, address, value)
    Programs,            \* instruction memories to run
    Images,              \* initial data memories
    Entry,               \* start address of a program
    StackInit,           \* initial x2
    Undef                \* content of a field no statement ever assigned

Word == 0 .. WordSize - 1
Reg == 0 .. RegCount - 1

OpCodes == {"LUI", "AUIPC", "JAL", "JALR", "BR", "LD", "ST", "OPI", "OP",
            "MISC_MEM", "SYSTEM", "UNKNOWN"}

Instr == [opCode : OpCodes, funct : Functs, rd : Reg, rs1 : Reg, rs2 : Reg,
          imm : Word]

ASSUME WordAssumption ==
    /\ WordSize \in Nat \ {0}
    /\ RegCount \in Nat /\ RegCount > 2
    /\ InstrSize \in Word
    /\ Entry \in Word
    /\ StackInit \in Word
    /\ ZeroFunct \in Functs
    /\ MulDiv \subseteq Functs
    /\ Undef \notin Word

\* Alu's value for an OP of MulDiv is never asked for: see IsMulDiv.
ASSUME DataAssumption ==
    /\ \A f \in Functs, a, b \in Word :
          Alu(f, a, b) \in Word /\ Taken(f, a, b) \in BOOLEAN
    /\ \A f \in Functs, m \in Memory, a \in Word :
          /\ Load(f, m, a) \in Word
          /\ \A v \in Word : Store(f, m, a, v) \in Memory

ASSUME ProgramAssumption ==
    /\ Programs \subseteq [Word -> Instr]
    /\ Images \subseteq Memory

\* The arm of execute()'s RISCV_OP that is empty: decode() gives such an
\* instruction a destination, and no statement gives it a result.
IsMulDiv(op, funct) == op = "OP" /\ funct \in MulDiv

\* ac_int<32> addition.
Add(a, b) == (a + b) % WordSize
=============================================================================
