--------------------------- MODULE MCInstructions ---------------------------
(***************************************************************************)
(* Formats: for every opcode, known or not, each single bit above it, none *)
(* and all, which settles a map from bits to bits; at the pc whose link    *)
(* wraps, and at two whose link does not.  Meaning:                        *)
(* every funct3 of the arithmetic opcodes and of the branches, the funct7  *)
(* values that matter, and every pair of operands of Xlen bits.            *)
(***************************************************************************)
EXTENDS InstructionSet

\* The bits of n, from number first on, over a word.
Written(w, n, first, size) ==
    [b \in 0 .. 31 |-> IF b \in first .. first + size - 1
                       THEN (n \div 2 ^ (b - first)) % 2 ELSE w[b]]

Opcodes == {3, 15, 19, 23, 27, 35, 51, 55, 59, 99, 103, 111, 115, 0}

Patterns ==
    {[b \in 0 .. 31 |-> IF b = one THEN 1 ELSE 0] : one \in 0 .. 31}
      \cup {[b \in 0 .. 31 |-> 1]}

Formats ==
    {[word |-> Written(p, o, 0, 7), pc |-> at, lhs |-> 3, rhs |-> 3] :
        p \in Patterns, o \in Opcodes, at \in {0, 8, 12}}

Encoded(opcode, funct3, funct7) ==
    Written(Written(Written([b \in 0 .. 31 |-> 0], opcode, 0, 7),
                    funct3, 12, 3), funct7, 25, 7)

ArithmeticWords ==
    {Written(Encoded(o, f, g), 1, 7, 5) : o \in {19, 51}, f \in 0 .. 7, g \in {0, 1, 32}}
      \cup {Encoded(99, f, 0) : f \in 0 .. 7}

MCInputs ==
    Formats \cup {[word |-> w, pc |-> 0, lhs |-> l, rhs |-> r] :
                     w \in ArithmeticWords, l, r \in Values}
=============================================================================
