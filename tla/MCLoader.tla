------------------------------ MODULE MCLoader ------------------------------
(***************************************************************************)
(* Files with their sections in and out of order, one without names for    *)
(* the signature, one without _start, one that is not for this machine;    *)
(* addresses below 64, bytes of base 8, so that two of them hold a         *)
(* pointer.                                                                *)
(***************************************************************************)
EXTENDS Loader, TLC

\* The content of every file: byte n is told from its neighbours.
Content == [n \in 1 .. 24 |-> ((n * 3) % 7) + 1]

Header(name, type, address, size, offset) ==
    [nameIndex |-> name, type |-> type, address |-> address, size |-> size,
     offset |-> offset]

\* The two string tables, at offsets 100 and 200, reuse the same indices.
Strings ==
    [o \in 100 .. 206 |->
        CASE o = 100 -> "" [] o = 101 -> ".text" [] o = 102 -> ".data"
          [] o = 103 -> ".symtab" [] o = 104 -> ".strtab" [] o = 105 -> ".shstrtab"
          [] o = 201 -> "main" [] o = 202 -> "_start"
          [] o = 203 -> "begin_signature" [] o = 204 -> "end_signature"
          [] o = 206 -> ".bss" [] o = 106 -> ".bss" [] OTHER -> ""]

Tables ==
    <<Header(3, "SHT_SYMTAB", 0, 4, 50), Header(4, "SHT_STRTAB", 0, 8, 200),
      Header(5, "SHT_STRTAB", 0, 8, 100)>>

Row(name, value) == [nameIndex |-> name, value |-> value]

File(code, names) ==
    [magic |-> TRUE, class |-> "ELFCLASS32", data |-> "little",
     headers |-> code \o Tables, shstrndx |-> Len(code) + 3,
     strings |-> Strings, rows |-> (50 :> names), content |-> Content]

Text == Header(1, "SHT_PROGBITS", 4, 6, 0)
Data(size) == Header(2, "SHT_PROGBITS", 12, size, 8)
Bss == Header(6, "SHT_NOBITS", 20, 3, 16)
LowData == Header(2, "SHT_PROGBITS", 6, 4, 9)
HighText == Header(1, "SHT_PROGBITS", 13, 6, 2)

Names(b, e) == <<Row(1, 6), Row(2, 4), Row(3, b), Row(4, e)>>

Linkable ==
    {File(<<Text, Data(8), Bss>>, Names(12, 18)),
     File(<<Bss, Data(5), Text>>, Names(12, 16)),
     File(<<LowData, HighText>>, <<Row(2, 13), Row(4, 10), Row(3, 8)>>),
     File(<<Text, Data(8)>>, Names(14, 20)), File(<<Text, Data(8)>>, Names(14, 17)),
     File(<<Text, Data(8)>>, <<Row(2, 4)>>)}

MCFiles ==
    Linkable
      \cup {File(<<Text>>, <<Row(1, 6)>>),
            [File(<<Text>>, Names(12, 16)) EXCEPT !.class = "ELFCLASS64"],
            [File(<<Text>>, Names(12, 16)) EXCEPT !.headers[3].nameIndex = 0]}

\* Written down beside the files, from what they were made of.
MCLinked(f, name) ==
    LET index == CASE name = "_start" -> 2 [] name = "begin_signature" -> 3
                   [] name = "end_signature" -> 4
        rows == SelectSeq(f.rows[50], LAMBDA r : r.nameIndex = index)
        named == \E n \in DOMAIN f.headers : f.headers[n].nameIndex = 4
    IN  IF named /\ rows # <<>> THEN rows[1].value ELSE Undef

\* Up to three arguments of up to two characters; twenty bytes above the
\* stack pointer hold some of the lists and not others.
Chars == {1, 2}
ArgStrings == {<<>>} \cup {<<c>> : c \in Chars} \cup {<<c, d>> : c, d \in Chars}
MCArgLists ==
    {<<>>} \cup {<<s>> : s \in ArgStrings} \cup {<<s, t>> : s, t \in ArgStrings}
      \cup {<<s, s, t>> : s, t \in ArgStrings}
=============================================================================
