------------------------------ MODULE SubWord -------------------------------
(***************************************************************************)
(* Bytes, halves and words: the slc() and set_slc() of the load and store  *)
(* switches that SimpleMemory, IncompleteMemory and CacheMemory share.  A  *)
(* word is four bytes, little endian; ByteSize is 2^8, and any even number *)
(* for the models.                                                         *)
(***************************************************************************)
EXTENDS Integers

CONSTANT ByteSize

ASSUME ByteAssumption == ByteSize \in Nat /\ ByteSize > 1 /\ ByteSize % 2 = 0

HalfSize == ByteSize * ByteSize
FullSize == HalfSize * HalfSize

Byte == 0 .. ByteSize - 1
MemWord == 0 .. FullSize - 1

Masks == {"BYTE", "HALF", "WORD", "BYTE_U", "HALF_U", "LONG"}
OpTypes == {"NONE", "LOAD", "STORE"}

\* addr >> 2 and addr.slc<2>(0).
WordOf(addr) == addr \div 4
LowOf(addr) == addr % 4

\* The slice an access touches: its number of values and its weight in the
\* word.  A half starts at addr[1], whatever addr[0] is.
Width(mask) ==
    CASE mask \in {"BYTE", "BYTE_U"} -> ByteSize
      [] mask \in {"HALF", "HALF_U"} -> HalfSize
      [] OTHER -> FullSize

ByteWeight(low) ==
    CASE low = 0 -> 1 [] low = 1 -> ByteSize [] low = 2 -> HalfSize
      [] OTHER -> ByteSize * HalfSize

Weight(mask, low) ==
    CASE mask \in {"BYTE", "BYTE_U"} -> ByteWeight(low)
      [] mask \in {"HALF", "HALF_U"} /\ low >= 2 -> HalfSize
      [] OTHER -> 1

Slice(word, width, weight) == (word \div weight) % width

SignExtend(value, width) ==
    IF value >= width \div 2 THEN value + FullSize - width ELSE value

\* The LOAD switch.
ReadSubWord(mask, word, low) ==
    LET value == Slice(word, Width(mask), Weight(mask, low)) IN
    IF mask \in {"BYTE", "HALF"} THEN SignExtend(value, Width(mask)) ELSE value

\* Mutant: a half is stored at the byte the address points to.
WriteSubWordUnaligned(mask, word, low, value) ==
    LET weight == IF mask \in {"WORD", "LONG"} THEN 1 ELSE ByteWeight(low)
        old == Slice(word, Width(mask), weight)
    IN  (word + ((value % Width(mask)) - old) * weight) % FullSize

\* The STORE switch.
WriteSubWord(mask, word, low, value) ==
    LET weight == Weight(mask, low)
        old == Slice(word, Width(mask), weight)
    IN  word + ((value % Width(mask)) - old) * weight
=============================================================================
