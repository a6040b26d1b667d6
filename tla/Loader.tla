------------------------------- MODULE Loader -------------------------------
(***************************************************************************)
(* From the ELF file to the first cycle, and the signature after the last  *)
(* one: the BasicSimulator constructor with ElfFile, readElf() and         *)
(* pushArgsOnStack(), then the program, then printEnd().                   *)
(*                                                                         *)
(* A file is what its readers slice out of its bytes: the identification,  *)
(* the section headers, the symbol rows at the offset of a symbol table,   *)
(* the strings at the offsets they start at, and the bytes themselves.     *)
(* Memory is bytes, what set_slc() and SimpleMemory make of the array; a   *)
(* byte nobody wrote is Undef, the vector being reserved and not resized.  *)
(***************************************************************************)
EXTENDS Integers, Sequences, FiniteSets

CONSTANTS
    ByteSize,        \* values of a byte: 2^8
    DramSize,        \* DRAM_SIZE
    StackInit,       \* STACK_INIT
    Files,           \* the files to load, see above
    ArgLists,        \* program arguments, sequences of strings of bytes
    Linked(_, _),    \* (file, name): the address its linker gave a name, or Undef
    Undef

ASSUME LoaderAssumption ==
    /\ ByteSize \in Nat \ {0}
    /\ DramSize \in Nat /\ DramSize % 4 = 0
    /\ DramSize <= ByteSize * ByteSize * ByteSize * ByteSize
    /\ StackInit \in 0 .. DramSize - 1 /\ StackInit % 4 = 0
    /\ Undef \notin 0 .. ByteSize - 1 /\ Undef \notin Nat \X Nat

VARIABLES
    at,             \* the statement that comes next
    file, args,     \* what the simulator was started with
    signature,      \* whether there is a signature file
    sectionTable, symbols,
    next,           \* the section, or the argument, a loop is at
    place,          \* currentPlaceStrings
    mem, heapAddress, text, pc, begin, end,
    overrun,        \* a write went past the array
    out             \* the words of the signature file

image == <<mem, heapAddress, text, overrun>>
elf == <<sectionTable, symbols>>
inputs == <<file, args, signature>>
marks == <<pc, begin, end>>
vars == <<at, inputs, elf, next, place, image, marks, out>>

Addr == 0 .. DramSize - 1

Init ==
    /\ at = "ElfFile"
    /\ file \in Files /\ args \in ArgLists /\ signature \in BOOLEAN
    /\ sectionTable = <<>> /\ symbols = <<>> /\ next = 1 /\ place = 0
    /\ mem = [a \in Addr |-> Undef]
    /\ heapAddress = 0 /\ text = Undef
    /\ pc = 0 /\ begin = Undef /\ end = Undef
    /\ overrun = FALSE /\ out = <<>>

-----------------------------------------------------------------------------
(* ElfFile.                                                                *)

CheckElf(f) == f.magic /\ f.class = "ELFCLASS32" /\ f.data = "little"

\* find_by_name(): the first one, or nothing, which ends the program.
Found(table, name) == {n \in DOMAIN table : table[n].name = name}
ByName(table, name) ==
    table[CHOOSE n \in Found(table, name) : \A m \in Found(table, name) : n <= m]

\* The string at an offset of the table that starts at base.
NameAt(f, base, index) == f.strings[base + index]

\* fillSectionTable() and fillNameTable().
Sections(f) ==
    LET base == f.headers[f.shstrndx].offset IN
    [n \in DOMAIN f.headers |->
        [name |-> NameAt(f, base, f.headers[n].nameIndex),
         type |-> f.headers[n].type, address |-> f.headers[n].address,
         size |-> f.headers[n].size, offset |-> f.headers[n].offset]]

ReadSections ==
    /\ at = "ElfFile"
    /\ IF CheckElf(file)
       THEN sectionTable' = Sections(file) /\ at' = "readSymbolTable"
       ELSE at' = "exit" /\ UNCHANGED sectionTable
    /\ UNCHANGED <<inputs, symbols, next, place, image, marks, out>>

\* One turn of the loop of readSymbolTable(): the rows of a symbol table go
\* behind those of the others.
RowsOf(s) ==
    IF s.type = "SHT_SYMTAB"
    THEN [n \in DOMAIN file.rows[s.offset] |->
             [nameIndex |-> file.rows[s.offset][n].nameIndex,
              offset |-> file.rows[s.offset][n].value]]
    ELSE <<>>

ReadSymbols ==
    /\ at = "readSymbolTable" /\ next <= Len(sectionTable)
    /\ symbols' = symbols \o RowsOf(sectionTable[next])
    /\ next' = next + 1
    /\ UNCHANGED <<at, inputs, sectionTable, place, image, marks, out>>

\* Mutant: the names of the symbols come from the table of the section names.
SectionNames == file.headers[file.shstrndx].offset

SymbolNames == ByName(sectionTable, ".strtab").offset

\* fillSymbolsName().
NameSymbols ==
    /\ at = "readSymbolTable" /\ next > Len(sectionTable)
    /\ IF Found(sectionTable, ".strtab") # {}
       THEN /\ symbols' = [n \in DOMAIN symbols |->
                              [name |-> NameAt(file, SymbolNames, symbols[n].nameIndex),
                               offset |-> symbols[n].offset]]
            /\ next' = 1
            /\ at' = "readElf"
       ELSE at' = "exit" /\ UNCHANGED <<symbols, next>>
    /\ UNCHANGED <<inputs, sectionTable, place, image, marks, out>>

-----------------------------------------------------------------------------
(* What a linker makes for this machine, of which the properties speak; a  *)
(* file of another kind is turned away before anything of it is read.      *)

SectionHeader ==
    [nameIndex : Nat, type : STRING, address : Nat, size : Nat, offset : Nat]
SymbolRow == [nameIndex : Nat, value : Nat]

ASSUME FileAssumption ==
    /\ ArgLists \subseteq Seq(Seq(0 .. ByteSize - 1))
    /\ \A f \in Files : CheckElf(f) =>
          /\ f.headers \in Seq(SectionHeader) /\ f.content \in Seq(0 .. ByteSize - 1)
          /\ \A n \in DOMAIN f.headers :
                f.headers[n].type = "SHT_SYMTAB" =>
                    f.rows[f.headers[n].offset] \in Seq(SymbolRow)

\* Two sections do not share an address.
Apart(h, g) == h.address + h.size <= g.address \/ g.address + g.size <= h.address

\* Sections are apart from one another and below the stack; those with bytes
\* in the file have all of them there; there is one .text.
ASSUME LayoutAssumption ==
    \A f \in Files : CheckElf(f) =>
        LET sections == Sections(f)
            loaded == {n \in DOMAIN sections : sections[n].address # 0}
        IN  \A n \in loaded :
                /\ sections[n].address + sections[n].size <= StackInit
                /\ sections[n].type = "SHT_PROGBITS" =>
                      sections[n].offset + sections[n].size <= Len(f.content)
                /\ \A m \in loaded \ {n} :
                      /\ Apart(sections[n], sections[m])
                      /\ sections[n].name = ".text" => sections[m].name # ".text"

\* The rows of the symbol tables, and what they give for a name of the string
\* table.
Rows(f) ==
    UNION {{f.rows[f.headers[n].offset][k] : k \in DOMAIN f.rows[f.headers[n].offset]} :
              n \in {n \in DOMAIN f.headers : f.headers[n].type = "SHT_SYMTAB"}}

ValuesOf(f, name) ==
    {row.value : row \in {row \in Rows(f) :
        \E s \in Found(Sections(f), ".strtab") :
            NameAt(f, Sections(f)[s].offset, row.nameIndex) = name}}

\* There is one string table; every row with a linked name has its address;
\* the signature lies in memory, its end after its beginning.
ASSUME LinkAssumption ==
    \A f \in Files : CheckElf(f) =>
        /\ \A n, m \in Found(Sections(f), ".strtab") : n = m
        /\ \A name \in {"_start", "begin_signature", "end_signature"} :
              ValuesOf(f, name) =
                  IF Linked(f, name) = Undef THEN {} ELSE {Linked(f, name)}
        /\ LET first == Linked(f, "begin_signature")
               last == Linked(f, "end_signature")
           IN  first # Undef /\ last # Undef => first <= last /\ last <= DramSize

-----------------------------------------------------------------------------
(* readElf().                                                              *)

\* Mutant: the bytes are taken at the address, not at the offset.
ContentAtAddress(s, a) == file.content[a + 1]

\* A byte past the end of the file is no byte of it.
ContentAt(s, a) ==
    LET offset == s.offset + a - s.address IN
    IF offset < Len(file.content) THEN file.content[offset + 1] ELSE Undef

\* Mutant: the last section decides, not the highest one.
HeapAboveLast(s) == s.address + s.size

HeapAbove(s) ==
    IF s.address + s.size > heapAddress THEN s.address + s.size ELSE heapAddress

Covers(s, a) == a \in s.address .. s.address + s.size - 1

\* One turn of the loop over the sections.
LoadSection ==
    LET s == sectionTable[next] IN
    /\ at = "readElf" /\ next <= Len(sectionTable)
    /\ next' = next + 1
    /\ IF s.address = 0
       THEN UNCHANGED image
       ELSE /\ mem' = [a \in Addr |->
                         IF Covers(s, a) THEN ContentAt(s, a)
                         ELSE mem[a]]
            /\ overrun' = (overrun \/ s.address + s.size > DramSize)
            /\ IF s.name # ".text"
               THEN heapAddress' = HeapAbove(s) /\ UNCHANGED text
               ELSE /\ text' = <<s.address, s.address + s.size>>
                    /\ UNCHANGED heapAddress
    /\ UNCHANGED <<at, inputs, elf, place, marks, out>>

\* The entry point, and the signature when one is asked for.
Needed == {"_start"} \cup (IF signature THEN {"begin_signature", "end_signature"} ELSE {})

SetMarks ==
    /\ at = "readElf" /\ next > Len(sectionTable)
    /\ IF \A name \in Needed : Found(symbols, name) # {}
       THEN /\ pc' = ByName(symbols, "_start").offset
            /\ IF signature
               THEN /\ begin' = ByName(symbols, "begin_signature").offset
                    /\ end' = ByName(symbols, "end_signature").offset
               ELSE UNCHANGED <<begin, end>>
            /\ at' = "pushArgsOnStack"
       ELSE at' = "exit" /\ UNCHANGED marks
    /\ UNCHANGED <<inputs, elf, next, place, image, out>>

-----------------------------------------------------------------------------
(* pushArgsOnStack().                                                      *)

Digit(value, k) ==
    (CASE k = 0 -> value
       [] k = 1 -> value \div ByteSize
       [] k = 2 -> (value \div ByteSize) \div ByteSize
       [] k = 3 -> ((value \div ByteSize) \div ByteSize) \div ByteSize) % ByteSize

\* mem[addr >> 2] = value, at a multiple of four.
WithWord(m, addr, value) ==
    [a \in Addr |-> IF a \in addr .. addr + 3 THEN Digit(value, a - addr) ELSE m[a]]

\* The setByte() calls for a string and its terminator.
WithString(m, addr, string) ==
    [a \in Addr |-> CASE a \in addr .. addr + Len(string) - 1 -> string[a - addr + 1]
                      [] a = addr + Len(string) -> 0
                      [] OTHER -> m[a]]

\* Mutant: the strings start at the last entry of the table.
StringsInTable == StackInit + 4 * Len(args)

StringsStart == StackInit + 4 + 4 * Len(args)

PushArgc ==
    /\ at = "pushArgsOnStack"
    /\ at' = "pushArg"
    /\ mem' = WithWord(mem, StackInit, Len(args))
    /\ place' = StringsStart
    /\ next' = 1
    /\ UNCHANGED <<inputs, elf, heapAddress, text, overrun, marks, out>>

\* One turn of the loop: the entry of the table, then the string.
PushArg ==
    LET entry == StackInit + 4 * next IN
    /\ at = "pushArg" /\ next <= Len(args)
    /\ mem' = WithString(WithWord(mem, entry, place), place, args[next])
    /\ place' = place + Len(args[next]) + 1
    /\ overrun' = (overrun \/ entry + 4 > DramSize \/ place' > DramSize)
    /\ next' = next + 1
    /\ UNCHANGED <<at, inputs, elf, heapAddress, text, marks, out>>

-----------------------------------------------------------------------------
(* run() as far as the memory goes: stores to the program's own data; and  *)
(* printEnd().                                                             *)

\* Bound: the program stores one byte of its data section, or none.
Run ==
    /\ at = "pushArg" /\ next > Len(args)
    /\ at' = "printEnd"
    /\ \/ \E n \in DOMAIN sectionTable :
            LET s == sectionTable[n] IN
            /\ s.name = ".data"
            /\ \E a \in s.address .. s.address + s.size - 1, v \in 0 .. ByteSize - 1 :
                  mem' = [mem EXCEPT ![a] = v]
       \/ UNCHANGED mem
    /\ UNCHANGED <<inputs, elf, next, place, heapAddress, text, overrun, marks, out>>

WordAt(m, a) == [k \in 0 .. 3 |-> m[a + k]]

\* Mutant: the last word is left out.
SignatureShort == end - (begin % 4) - 4

SignatureEnd == end - (begin % 4)

\* The words from begin, aligned, on.
PrintEnd ==
    LET first == begin - (begin % 4)
        starts == {k \in 0 .. DramSize : first + 4 * k < SignatureEnd}
    IN
    /\ at = "printEnd"
    /\ at' = "end"
    /\ out' = IF signature
              THEN [k \in 1 .. Cardinality(starts) |-> WordAt(mem, first + 4 * (k - 1))]
              ELSE out
    /\ UNCHANGED <<inputs, elf, next, place, image, marks>>

Next ==
    \/ ReadSections \/ ReadSymbols \/ NameSymbols
    \/ LoadSection \/ SetMarks
    \/ PushArgc \/ PushArg \/ Run \/ PrintEnd

Spec == Init /\ [][Next]_vars

-----------------------------------------------------------------------------
(* Properties.                                                             *)

\* Loading is over, the program has not run.
Loaded == at = "pushArg" /\ next > Len(args)

\* Every section with bytes in the file is in memory as it is in the file,
\* whatever was loaded or pushed after it.
SectionsInPlace ==
    Loaded => \A n \in DOMAIN sectionTable :
        LET s == sectionTable[n] IN
        s.address # 0 /\ s.type = "SHT_PROGBITS" =>
            \A k \in 0 .. s.size - 1 : mem[s.address + k] = file.content[s.offset + k + 1]

\* The program break starts behind everything loaded except .text: no byte
\* between it and the stack belongs to another section.
HeapStartsFree ==
    Loaded => \A a \in heapAddress .. StackInit - 1 :
        mem[a] # Undef => text # Undef /\ a \in text[1] .. text[2] - 1

Value(word) == word[0] + ByteSize * (word[1] + ByteSize * (word[2] + ByteSize * word[3]))

\* A string of the program: its bytes and a terminator.
IsString(m, a, string) ==
    /\ \A k \in 1 .. Len(string) : m[a + k - 1] = string[k]
    /\ m[a + Len(string)] = 0

\* What lies above the stack pointer before the string after argument n.
ArgumentBytes ==
    LET below[n \in 0 .. Len(args)] ==
            IF n = 0 THEN 4 + 4 * Len(args) ELSE below[n - 1] + Len(args[n]) + 1
    IN  below

\* A program that follows the pointers behind its stack pointer finds its
\* arguments, as long as they fit between the stack pointer and the end of
\* the memory; no other argument list leaves the array.
ArgumentsReadBack ==
    Loaded =>
        IF StackInit + ArgumentBytes[Len(args)] <= DramSize
        THEN /\ ~overrun
             /\ Value(WordAt(mem, StackInit)) = Len(args)
             /\ \A n \in DOMAIN args :
                   IsString(mem, Value(WordAt(mem, StackInit + 4 * n)), args[n])
        ELSE overrun

\* The program starts at its _start, and the signature is the one between its
\* symbols, through the two string tables of the file; the simulator gives up
\* only on a file that is of another kind or has no such symbol.
MarksAreLinked ==
    /\ at \notin {"ElfFile", "readSymbolTable", "readElf", "exit"} =>
          /\ pc = Linked(file, "_start")
          /\ signature => /\ begin = Linked(file, "begin_signature")
                          /\ end = Linked(file, "end_signature")
    /\ at = "exit" =>
          ~CheckElf(file) \/ \E name \in Needed : Linked(file, name) = Undef

\* The signature file holds the bytes from the first symbol on as the program
\* left them, in whole words from the aligned address below it.  Taking what
\* the alignment adds in front from the end too costs the last bytes before
\* the second symbol when its last word has no room for them: none behind an
\* aligned symbol, up to three behind another.
SignatureBytes ==
    at = "end" /\ signature =>
        LET first == begin - (begin % 4)
            shown == first + 4 * Len(out)
            missing == (begin % 4) - ((begin - end) % 4)
        IN  /\ shown = end - missing
            /\ \A a \in begin .. end - 1 :
                  a < shown => out[(a - first) \div 4 + 1][(a - first) % 4] = mem[a]
=============================================================================
