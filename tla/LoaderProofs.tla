---------------------------- MODULE LoaderProofs ----------------------------
(***************************************************************************)
(* From the file to the signature, for every file a linker makes, every    *)
(* argument list, and every size of a byte and of the memory.              *)
(*                                                                         *)
(* The invariant follows the constructor: each loop has gathered what the  *)
(* turns so far account for (the rows of the symbol tables, the sections   *)
(* below the stack, the arguments that can be read back), and what a later *)
(* loop writes lies apart from it.                                         *)
(***************************************************************************)
EXTENDS Loader, NumberLemmas, FiniteSetTheorems

-----------------------------------------------------------------------------
(* Sums, and the digits of a word.                                         *)

\* What ArgumentBytes adds up: each string and its terminator.
LEMMA ArgumentBytesAdd ==
    ASSUME args \in Seq(Seq(0 .. ByteSize - 1))
    PROVE  /\ ArgumentBytes[0] = 4 + 4 * Len(args)
           /\ \A n \in 1 .. Len(args) :
                 ArgumentBytes[n] = ArgumentBytes[n - 1] + Len(args[n]) + 1
<1> DEFINE k == Len(args)
           base == 4 + 4 * k
           step == [n \in 1 .. k |-> [x \in Nat |-> x + Len(args[n]) + 1]]
           Is(f) == f = [n \in 0 .. k |->
                            IF n = 0 THEN base ELSE f[n - 1] + Len(args[n]) + 1]
<1>1. /\ k \in Nat /\ base \in Nat
      /\ \A n \in 1 .. k : Len(args[n]) \in Nat
    <2>1. \A n \in 1 .. k : args[n] \in Seq(0 .. ByteSize - 1)
        OBVIOUS
    <2> QED
        BY <2>1
<1>2. step \in [1 .. k -> [Nat -> Nat]]
    BY <1>1
<1> HIDE DEF base, k
<1>3. PICK f : Recursive(f, k, Nat, base, step)
    <2> HIDE DEF step
    <2> QED
        BY <1>1, <1>2, Recursion
<1>4. ASSUME NEW n \in 0 .. k, n # 0 PROVE f[n] = f[n - 1] + Len(args[n]) + 1
    <2>1. n \in 1 .. k /\ f[n - 1] \in Nat
        BY <1>1, <1>3, <1>4 DEF Recursive
    <2> QED
        BY <1>3, <2>1 DEF Recursive
<1>5. Is(f)
    BY <1>3, <1>4 DEF Recursive
<1>6. ArgumentBytes = CHOOSE g : Is(g)
    BY DEF ArgumentBytes, base, k
<1>7. Is(ArgumentBytes)
    <2> HIDE DEF Is
    <2> QED
        BY <1>5, <1>6
<1>8. ArgumentBytes[0] = base
    BY <1>1, <1>7
<1>9. ASSUME NEW n \in 1 .. k
      PROVE  ArgumentBytes[n] = ArgumentBytes[n - 1] + Len(args[n]) + 1
    <2>1. n \in 0 .. k /\ n # 0
        BY <1>1
    <2> QED
        BY <1>7, <2>1, Zenon
<1> QED
    BY <1>8, <1>9 DEF base, k

\* The digits of a number below the size of a word spell it.
LEMMA DigitsSpell ==
    ASSUME NEW v \in Nat, v < ByteSize * ByteSize * ByteSize * ByteSize
    PROVE  v = Digit(v, 0) + ByteSize * (Digit(v, 1)
                  + ByteSize * (Digit(v, 2) + ByteSize * Digit(v, 3)))
<1> DEFINE B == ByteSize
           q1 == v \div B
           q2 == q1 \div B
           q3 == q2 \div B
<1>1. B \in Nat \ {0} /\ B * B \in Nat /\ B * B * B \in Nat
    BY LoaderAssumption
<1>2. q1 \in 0 .. B * B * B - 1 /\ v = (v % B) + B * q1
    <2>1. v \in 0 .. B * (B * B * B) - 1
        <3>1. B * (B * B * B) = B * B * B * B /\ v < B * B * B * B
            BY <1>1
        <3>2. B * (B * B * B) \in Int
            BY <1>1
        <3> QED
            BY <3>1, <3>2
    <2> QED
        BY <1>1, <2>1, Divide
<1>3. q2 \in 0 .. B * B - 1 /\ q1 = (q1 % B) + B * q2
    <2>1. q1 \in 0 .. B * (B * B) - 1
        <3>1. B * (B * B) = B * B * B
            BY <1>1
        <3> QED
            BY <1>2, <3>1
    <2> HIDE DEF q1
    <2> QED
        BY <1>1, <2>1, Divide
<1>4. q3 \in 0 .. B - 1 /\ q2 = (q2 % B) + B * q3
    <2> HIDE DEF q2
    <2> QED
        BY <1>1, <1>3, Divide
<1>5. q3 % B = q3
    <2> HIDE DEF q3
    <2> QED
        BY <1>1, <1>4
<1>6. /\ Digit(v, 0) = v % B /\ Digit(v, 1) = q1 % B
      /\ Digit(v, 2) = q2 % B /\ Digit(v, 3) = q3 % B
    BY DEF Digit
<1> HIDE DEF q1, q2, q3
<1> QED
    BY <1>2, <1>3, <1>4, <1>5, <1>6

-----------------------------------------------------------------------------
(* Looking up names.                                                       *)

\* find_by_name() returns an entry of that name, when there is one.
LEMMA FoundByName ==
    ASSUME NEW table, NEW k \in Nat, DOMAIN table = 1 .. k, NEW name,
           Found(table, name) # {}
    PROVE  \E n \in 1 .. k : table[n].name = name /\ ByName(table, name) = table[n]
<1>1. Found(table, name) \subseteq Nat
    BY DEF Found
<1>2. \E n \in Found(table, name) : \A m \in Found(table, name) : n <= m
    BY <1>1, Least
<1> DEFINE first == CHOOSE n \in Found(table, name) : \A m \in Found(table, name) : n <= m
<1>3. first \in Found(table, name)
    BY <1>2
<1> HIDE DEF first
<1>4. first \in 1 .. k /\ table[first].name = name
    BY <1>3 DEF Found
<1>5. ByName(table, name) = table[first]
    BY DEF ByName, first
<1> QED
    BY <1>4, <1>5

-----------------------------------------------------------------------------
(* The invariant: what each statement of the constructor has established.  *)

Early == {"ElfFile", "readSymbolTable", "exit"}

InputsOK ==
    file \in Files /\ args \in ArgLists /\ signature \in BOOLEAN /\ next \in Nat \ {0}

\* The rows of section n, and of those before section m.
TableRows(f, n) ==
    IF f.headers[n].type = "SHT_SYMTAB"
    THEN {f.rows[f.headers[n].offset][k] : k \in DOMAIN f.rows[f.headers[n].offset]}
    ELSE {}

RowsBefore(f, m) == UNION {TableRows(f, n) : n \in 1 .. m - 1}

\* The symbols are those rows, before and after they have their names.
Gathered(syms, rows) ==
    /\ \A k \in DOMAIN syms : \E row \in rows :
          syms[k].nameIndex = row.nameIndex /\ syms[k].offset = row.value
    /\ \A row \in rows : \E k \in DOMAIN syms :
          syms[k].nameIndex = row.nameIndex /\ syms[k].offset = row.value

NamedFrom(syms, f, base) ==
    /\ \A k \in DOMAIN syms : \E row \in Rows(f) :
          syms[k].name = NameAt(f, base, row.nameIndex) /\ syms[k].offset = row.value
    /\ \A row \in Rows(f) : \E k \in DOMAIN syms :
          syms[k].name = NameAt(f, base, row.nameIndex) /\ syms[k].offset = row.value

TablesOK ==
    /\ at \notin {"ElfFile", "exit"} =>
          /\ CheckElf(file) /\ sectionTable = Sections(file)
          /\ Len(symbols) \in Nat /\ DOMAIN symbols = 1 .. Len(symbols)
    /\ at = "ElfFile" => symbols = <<>> /\ next = 1
    /\ at = "readSymbolTable" =>
          /\ next <= Len(sectionTable) + 1
          /\ symbols \in Seq([nameIndex : Nat, offset : Nat])
          /\ Gathered(symbols, RowsBefore(file, next))
    /\ at \notin Early =>
          \E s \in Found(Sections(file), ".strtab") :
              NamedFrom(symbols, file, Sections(file)[s].offset)

\* MarksAreLinked, and that the marks exist.
MarksOK ==
    /\ MarksAreLinked
    /\ at \notin Early \cup {"readElf"} /\ signature =>
          Linked(file, "begin_signature") # Undef /\ Linked(file, "end_signature") # Undef

\* What the sections before section m have left below the stack.
LoadedBefore(m) ==
    /\ mem = [a \in Addr |-> mem[a]]
    /\ heapAddress \in Nat
    /\ \A n \in 1 .. m - 1 :
          LET s == sectionTable[n] IN
          s.address # 0 =>
              /\ s.type = "SHT_PROGBITS" =>
                    \A k \in 0 .. s.size - 1 :
                        mem[s.address + k] = file.content[s.offset + k + 1]
              /\ IF s.name = ".text" THEN text = <<s.address, s.address + s.size>>
                 ELSE s.address + s.size <= heapAddress
    /\ \A a \in 0 .. StackInit - 1 :
          mem[a] # Undef =>
              \E n \in 1 .. m - 1 :
                  sectionTable[n].address # 0 /\ Covers(sectionTable[n], a)

ImageOK ==
    /\ at \in {"ElfFile", "readSymbolTable"} =>
          mem = [a \in Addr |-> Undef] /\ heapAddress = 0 /\ ~overrun
    /\ at = "readElf" =>
          LoadedBefore(next) /\ next <= Len(sectionTable) + 1 /\ ~overrun
    /\ at = "pushArgsOnStack" => ~overrun
    /\ at \in {"pushArgsOnStack", "pushArg"} => LoadedBefore(Len(sectionTable) + 1)

\* The arguments before the next one can be read back, and their strings end
\* where the next one goes.
Pushed(n) ==
    LET start == Value(WordAt(mem, StackInit + 4 * n)) IN
    /\ start \in Nat /\ start >= StringsStart
    /\ start + Len(args[n]) + 1 <= place
    /\ IsString(mem, start, args[n])

ArgsOK ==
    at = "pushArg" =>
        /\ next <= Len(args) + 1
        /\ ArgumentBytes[next - 1] \in Nat /\ place = StackInit + ArgumentBytes[next - 1]
        /\ place >= StringsStart
        /\ overrun <=> next > 1 /\ place > DramSize
        /\ place <= DramSize =>
              /\ Value(WordAt(mem, StackInit)) = Len(args)
              /\ \A n \in 1 .. next - 1 : Pushed(n)

IInv == InputsOK /\ TablesOK /\ MarksOK /\ ImageOK /\ ArgsOK /\ SignatureBytes

-----------------------------------------------------------------------------
(* The tables.                                                             *)

\* The section table has the headers of the file, named.
LEMMA SectionsAre ==
    ASSUME NEW f \in Files, CheckElf(f)
    PROVE  /\ Len(f.headers) \in Nat /\ DOMAIN f.headers = 1 .. Len(f.headers)
           /\ Len(Sections(f)) = Len(f.headers)
           /\ DOMAIN Sections(f) = 1 .. Len(f.headers)
           /\ \A n \in 1 .. Len(f.headers) :
                 /\ Sections(f)[n].type = f.headers[n].type
                 /\ Sections(f)[n].address = f.headers[n].address
                 /\ Sections(f)[n].offset = f.headers[n].offset
                 /\ Sections(f)[n].address \in Nat /\ Sections(f)[n].size \in Nat
                 /\ Sections(f)[n].offset \in Nat
<1>1. f.headers \in Seq(SectionHeader)
    BY FileAssumption
<1>2. Len(f.headers) \in Nat /\ DOMAIN f.headers = 1 .. Len(f.headers)
    BY <1>1
<1>3. /\ DOMAIN Sections(f) = 1 .. Len(f.headers)
      /\ Len(Sections(f)) = Len(f.headers)
    BY <1>2 DEF Sections
<1>4. ASSUME NEW n \in 1 .. Len(f.headers)
      PROVE  /\ Sections(f)[n].type = f.headers[n].type
             /\ Sections(f)[n].address = f.headers[n].address
             /\ Sections(f)[n].size = f.headers[n].size
             /\ Sections(f)[n].offset = f.headers[n].offset
             /\ f.headers[n].address \in Nat /\ f.headers[n].size \in Nat
             /\ f.headers[n].offset \in Nat
    <2>1. f.headers[n] \in SectionHeader
        BY <1>1, <1>2
    <2> QED
        BY <1>2, <2>1 DEF Sections, SectionHeader
<1> QED
    BY <1>2, <1>3, <1>4

\* The rows before the end are all of them.
LEMMA AllRows ==
    ASSUME NEW f \in Files, CheckElf(f)
    PROVE  RowsBefore(f, Len(f.headers) + 1) = Rows(f)
<1>1. Len(f.headers) \in Nat /\ DOMAIN f.headers = 1 .. Len(f.headers)
    BY SectionsAre
<1>2. (Len(f.headers) + 1) - 1 = Len(f.headers)
    BY <1>1
<1> QED
    BY <1>1, <1>2 DEF RowsBefore, Rows, TableRows

\* One more table.
LEMMA OneMoreTable ==
    ASSUME NEW f, NEW m \in Nat \ {0}
    PROVE  RowsBefore(f, m + 1) = RowsBefore(f, m) \cup TableRows(f, m)
<1>1. 1 .. (m + 1) - 1 = (1 .. m - 1) \cup {m}
    OBVIOUS
<1> QED
    BY <1>1 DEF RowsBefore

\* What stands in a sequence put behind another.
LEMMA Concatenated ==
    ASSUME NEW S, NEW s \in Seq(S), NEW t \in Seq(S)
    PROVE  /\ \A k \in DOMAIN s : k \in DOMAIN (s \o t) /\ (s \o t)[k] = s[k]
           /\ \A j \in DOMAIN t : \E k \in DOMAIN (s \o t) : (s \o t)[k] = t[j]
           /\ \A k \in DOMAIN (s \o t) :
                 \/ k \in DOMAIN s /\ (s \o t)[k] = s[k]
                 \/ \E j \in DOMAIN t : (s \o t)[k] = t[j]
<1>1. /\ Len(s) \in Nat /\ DOMAIN s = 1 .. Len(s)
      /\ Len(t) \in Nat /\ DOMAIN t = 1 .. Len(t)
      /\ DOMAIN (s \o t) = 1 .. Len(s) + Len(t)
    OBVIOUS
<1>2. ASSUME NEW k \in 1 .. Len(s) + Len(t)
      PROVE  (s \o t)[k] = IF k <= Len(s) THEN s[k] ELSE t[k - Len(s)]
    OBVIOUS
<1>3. ASSUME NEW j \in 1 .. Len(t)
      PROVE  Len(s) + j \in 1 .. Len(s) + Len(t) /\ (s \o t)[Len(s) + j] = t[j]
    <2>1. Len(s) + j \in 1 .. Len(s) + Len(t) /\ ~ Len(s) + j <= Len(s)
          /\ (Len(s) + j) - Len(s) = j
        BY <1>1
    <2> QED
        BY <1>2, <2>1
<1>4. ASSUME NEW k \in 1 .. Len(s) + Len(t), k \notin 1 .. Len(s)
      PROVE  k - Len(s) \in 1 .. Len(t) /\ (s \o t)[k] = t[k - Len(s)]
    <2>1. k - Len(s) \in 1 .. Len(t) /\ ~ k <= Len(s)
        BY <1>1, <1>4
    <2> QED
        BY <1>2, <2>1
<1>5. ASSUME NEW k \in 1 .. Len(s)
      PROVE  k \in 1 .. Len(s) + Len(t) /\ (s \o t)[k] = s[k]
    <2>1. k \in 1 .. Len(s) + Len(t) /\ k <= Len(s)
        BY <1>1
    <2> QED
        BY <1>2, <2>1
<1> QED
    BY <1>1, <1>3, <1>4, <1>5

\* The rows of one more table, behind the others.
LEMMA GatheredMore ==
    ASSUME NEW S, NEW s \in Seq(S), NEW t \in Seq(S), NEW some, NEW more,
           Gathered(s, some), Gathered(t, more)
    PROVE  Gathered(s \o t, some \cup more)
<1> DEFINE u == s \o t
<1>1. /\ \A k \in DOMAIN s : k \in DOMAIN u /\ u[k] = s[k]
      /\ \A j \in DOMAIN t : \E k \in DOMAIN u : u[k] = t[j]
      /\ \A k \in DOMAIN u : \/ k \in DOMAIN s /\ u[k] = s[k]
                             \/ \E j \in DOMAIN t : u[k] = t[j]
    BY Concatenated
<1> HIDE DEF u
<1>2. Gathered(u, some \cup more)
    <2>1. ASSUME NEW k \in DOMAIN u
          PROVE  \E row \in some \cup more :
                    u[k].nameIndex = row.nameIndex /\ u[k].offset = row.value
        <3>1. CASE k \in DOMAIN s /\ u[k] = s[k]
            BY <3>1 DEF Gathered
        <3>2. CASE \E j \in DOMAIN t : u[k] = t[j]
            BY <3>2 DEF Gathered
        <3> QED
            BY <1>1, <3>1, <3>2
    <2>2. ASSUME NEW row \in some
          PROVE  \E k \in DOMAIN u :
                    u[k].nameIndex = row.nameIndex /\ u[k].offset = row.value
        BY <1>1 DEF Gathered
    <2>3. ASSUME NEW row \in more
          PROVE  \E k \in DOMAIN u :
                    u[k].nameIndex = row.nameIndex /\ u[k].offset = row.value
        <3>1. PICK j \in DOMAIN t : t[j].nameIndex = row.nameIndex /\ t[j].offset = row.value
            BY DEF Gathered
        <3> QED
            BY <1>1, <3>1
    <2> QED
        BY <2>1, <2>2, <2>3 DEF Gathered
<1> QED
    BY <1>2 DEF u

\* readSymbolTable() gathers the rows of every symbol table.
LEMMA RowsGathered ==
    ASSUME InputsOK, TablesOK, ReadSymbols
    PROVE  /\ symbols' \in Seq([nameIndex : Nat, offset : Nat])
           /\ Gathered(symbols', RowsBefore(file, next'))
<1> DEFINE new == RowsOf(sectionTable[next])
           h == file.headers[next]
<1>1. /\ CheckElf(file) /\ file \in Files /\ next \in Nat \ {0}
      /\ next \in 1 .. Len(file.headers) /\ sectionTable = Sections(file)
      /\ symbols \in Seq([nameIndex : Nat, offset : Nat])
      /\ Gathered(symbols, RowsBefore(file, next))
      /\ symbols' = symbols \o new /\ next' = next + 1
    BY SectionsAre DEF InputsOK, TablesOK, ReadSymbols
<1>2. sectionTable[next].type = h.type /\ sectionTable[next].offset = h.offset
    BY <1>1, SectionsAre
<1>3. /\ new \in Seq([nameIndex : Nat, offset : Nat])
      /\ Gathered(new, TableRows(file, next))
    <2>1. CASE h.type = "SHT_SYMTAB"
        <3> DEFINE rows == file.rows[h.offset]
        <3>1. rows \in Seq(SymbolRow)
            BY <1>1, <2>1, SectionsAre, FileAssumption
        <3>2. new = [n \in DOMAIN rows |->
                        [nameIndex |-> rows[n].nameIndex, offset |-> rows[n].value]]
            BY <1>2, <2>1 DEF RowsOf
        <3>3. TableRows(file, next) = {rows[k] : k \in DOMAIN rows}
            BY <2>1 DEF TableRows
        <3> HIDE DEF rows, new
        <3>4. /\ Len(rows) \in Nat /\ DOMAIN rows = 1 .. Len(rows)
              /\ \A n \in 1 .. Len(rows) : rows[n].nameIndex \in Nat /\ rows[n].value \in Nat
            <4>1. Len(rows) \in Nat /\ DOMAIN rows = 1 .. Len(rows)
                BY <3>1
            <4>2. \A n \in 1 .. Len(rows) : rows[n] \in SymbolRow
                BY <3>1
            <4> QED
                BY <4>1, <4>2 DEF SymbolRow
        <3>5. new \in Seq([nameIndex : Nat, offset : Nat])
            BY <3>2, <3>4
        <3>6. Gathered(new, TableRows(file, next))
            BY <3>2, <3>3 DEF Gathered
        <3> QED
            BY <3>5, <3>6
    <2>2. CASE h.type # "SHT_SYMTAB"
        <3>1. new = <<>> /\ TableRows(file, next) = {}
            BY <1>2, <2>2 DEF RowsOf, TableRows
        <3> HIDE DEF new
        <3> QED
            BY <3>1 DEF Gathered
    <2> QED
        BY <2>1, <2>2
<1>4. RowsBefore(file, next') = RowsBefore(file, next) \cup TableRows(file, next)
    BY <1>1, OneMoreTable
<1> HIDE DEF new
<1>5. symbols' \in Seq([nameIndex : Nat, offset : Nat])
    BY <1>1, <1>3
<1>6. Gathered(symbols', RowsBefore(file, next'))
    BY <1>1, <1>3, <1>4, GatheredMore
<1> QED
    BY <1>5, <1>6

\* fillSymbolsName() names them from the string table.
LEMMA RowsNamed ==
    ASSUME InputsOK, TablesOK, NameSymbols, at' # "exit"
    PROVE  /\ Len(symbols') \in Nat /\ DOMAIN symbols' = 1 .. Len(symbols')
           /\ \E s \in Found(Sections(file), ".strtab") :
                 NamedFrom(symbols', file, Sections(file)[s].offset)
<1>1. /\ CheckElf(file) /\ file \in Files /\ next \in Nat \ {0}
      /\ sectionTable = Sections(file) /\ next = Len(file.headers) + 1
      /\ symbols \in Seq([nameIndex : Nat, offset : Nat])
      /\ Gathered(symbols, RowsBefore(file, next))
      /\ Found(sectionTable, ".strtab") # {}
      /\ symbols' = [n \in DOMAIN symbols |->
                        [name |-> NameAt(file, SymbolNames, symbols[n].nameIndex),
                         offset |-> symbols[n].offset]]
    <2>1. next > Len(sectionTable) /\ next <= Len(sectionTable) + 1
          /\ CheckElf(file) /\ file \in Files /\ sectionTable = Sections(file)
          /\ next \in Nat \ {0}
        BY DEF InputsOK, TablesOK, NameSymbols
    <2>2. next = Len(file.headers) + 1
        BY <2>1, SectionsAre
    <2> QED
        BY <2>1, <2>2 DEF InputsOK, TablesOK, NameSymbols
<1>2. PICK s \in Found(Sections(file), ".strtab") : SymbolNames = Sections(file)[s].offset
    <2>1. PICK n \in 1 .. Len(file.headers) :
             Sections(file)[n].name = ".strtab"
             /\ ByName(Sections(file), ".strtab") = Sections(file)[n]
        <3>1. /\ Len(file.headers) \in Nat /\ DOMAIN Sections(file) = 1 .. Len(file.headers)
              /\ Found(Sections(file), ".strtab") # {}
            BY <1>1, SectionsAre
        <3> QED
            BY <3>1, FoundByName
    <2>2. n \in Found(Sections(file), ".strtab")
        BY <1>1, <2>1, SectionsAre DEF Found
    <2> QED
        BY <1>1, <2>1, <2>2 DEF SymbolNames
<1>3. RowsBefore(file, next) = Rows(file)
    BY <1>1, AllRows
<1>4. Len(symbols) \in Nat /\ DOMAIN symbols = 1 .. Len(symbols)
    BY <1>1
<1>5. DOMAIN symbols' = DOMAIN symbols /\ Len(symbols') = Len(symbols)
    BY <1>1, <1>4
<1>6. ASSUME NEW k \in DOMAIN symbols
      PROVE  /\ symbols'[k].name = NameAt(file, SymbolNames, symbols[k].nameIndex)
             /\ symbols'[k].offset = symbols[k].offset
    BY <1>1
<1>7. NamedFrom(symbols', file, SymbolNames)
    <2>1. ASSUME NEW k \in DOMAIN symbols
          PROVE  \E row \in Rows(file) :
                    symbols[k].nameIndex = row.nameIndex /\ symbols[k].offset = row.value
        BY <1>1, <1>3 DEF Gathered
    <2>2. ASSUME NEW row \in Rows(file)
          PROVE  \E k \in DOMAIN symbols :
                    symbols[k].nameIndex = row.nameIndex /\ symbols[k].offset = row.value
        BY <1>1, <1>3 DEF Gathered
    <2>3. ASSUME NEW k \in DOMAIN symbols'
          PROVE  \E row \in Rows(file) :
                    /\ symbols'[k].name = NameAt(file, SymbolNames, row.nameIndex)
                    /\ symbols'[k].offset = row.value
        BY <1>5, <1>6, <2>1
    <2>4. ASSUME NEW row \in Rows(file)
          PROVE  \E k \in DOMAIN symbols' :
                    /\ symbols'[k].name = NameAt(file, SymbolNames, row.nameIndex)
                    /\ symbols'[k].offset = row.value
        BY <1>5, <1>6, <2>2
    <2> QED
        BY <2>3, <2>4 DEF NamedFrom
<1> QED
    BY <1>2, <1>4, <1>5, <1>7

\* The tables are what the file says.
LEMMA TablesKept ==
    ASSUME IInv, Next
    PROVE  TablesOK'
<1> USE DEF IInv
<1>1. CASE ReadSections
    <2>1. CASE CheckElf(file)
        <3>1. /\ sectionTable' = Sections(file) /\ at' = "readSymbolTable"
              /\ symbols' = <<>> /\ next' = 1 /\ file' = file /\ file \in Files
            BY <1>1, <2>1 DEF ReadSections, TablesOK, InputsOK, inputs
        <3>2. RowsBefore(file, 1) = {}
            BY DEF RowsBefore
        <3>3. Gathered(symbols', RowsBefore(file', next'))
            BY <3>1, <3>2 DEF Gathered
        <3>4. next' <= Len(sectionTable') + 1
            BY <3>1, <2>1, SectionsAre
        <3>5. symbols' \in Seq([nameIndex : Nat, offset : Nat])
              /\ Len(symbols') \in Nat /\ DOMAIN symbols' = 1 .. Len(symbols')
            BY <3>1
        <3> QED
            BY <2>1, <3>1, <3>3, <3>4, <3>5 DEF TablesOK, Early
    <2>2. CASE ~CheckElf(file)
        BY <1>1, <2>2 DEF ReadSections, TablesOK, Early
    <2> QED
        BY <2>1, <2>2
<1>2. CASE ReadSymbols
    <2>1. symbols' \in Seq([nameIndex : Nat, offset : Nat])
          /\ Gathered(symbols', RowsBefore(file, next'))
        BY <1>2, RowsGathered
    <2>2. Len(symbols') \in Nat /\ DOMAIN symbols' = 1 .. Len(symbols')
        BY <2>1
    <2>3. /\ at = "readSymbolTable" /\ at' = at /\ file' = file /\ sectionTable' = sectionTable
          /\ next <= Len(sectionTable) /\ next' = next + 1
        BY <1>2 DEF ReadSymbols, inputs
    <2>4. /\ file \in Files /\ CheckElf(file) /\ sectionTable = Sections(file)
          /\ next \in Nat \ {0}
        BY <2>3 DEF InputsOK, TablesOK
    <2>5. next' <= Len(sectionTable') + 1
        BY <2>3, <2>4, SectionsAre
    <2> QED
        BY <2>1, <2>2, <2>3, <2>4, <2>5 DEF TablesOK, Early
<1>3. CASE NameSymbols
    <2>1. CASE at' = "exit"
        BY <2>1 DEF TablesOK, Early
    <2>2. CASE at' # "exit"
        <3>1. at' = "readElf" /\ file' = file /\ sectionTable' = sectionTable
              /\ CheckElf(file) /\ sectionTable = Sections(file)
            BY <1>3, <2>2 DEF NameSymbols, inputs, TablesOK
        <3> QED
            BY <1>3, <2>2, <3>1, RowsNamed DEF TablesOK, Early
    <2> QED
        BY <2>1, <2>2
<1>4. CASE LoadSection \/ SetMarks \/ PushArgc \/ PushArg \/ Run \/ PrintEnd
    <2>1. /\ at \notin Early /\ (at' \notin Early \/ at' = "exit")
          /\ UNCHANGED <<file, sectionTable, symbols>>
        BY <1>4 DEF LoadSection, SetMarks, PushArgc, PushArg, Run, PrintEnd, Early, inputs, elf
    <2> QED
        BY <2>1 DEF TablesOK, Early
<1> QED
    BY <1>1, <1>2, <1>3, <1>4 DEF Next

-----------------------------------------------------------------------------
(* The marks.                                                              *)

\* A name is found when the linker knows it, at the address the linker gave it.
LEMMA SymbolFound ==
    ASSUME InputsOK, TablesOK, at \notin Early,
           NEW name \in {"_start", "begin_signature", "end_signature"}
    PROVE  /\ Found(symbols, name) = {} <=> Linked(file, name) = Undef
           /\ Found(symbols, name) # {} => ByName(symbols, name).offset = Linked(file, name)
<1>1. /\ file \in Files /\ CheckElf(file)
      /\ Len(symbols) \in Nat /\ DOMAIN symbols = 1 .. Len(symbols)
    BY DEF InputsOK, TablesOK, Early
<1>2. PICK s \in Found(Sections(file), ".strtab") :
         NamedFrom(symbols, file, Sections(file)[s].offset)
    BY DEF TablesOK
<1> DEFINE base == Sections(file)[s].offset
           values == ValuesOf(file, name)
<1>3. values = IF Linked(file, name) = Undef THEN {} ELSE {Linked(file, name)}
    BY <1>1, LinkAssumption
<1>4. values = {row.value : row \in {row \in Rows(file) :
                                       NameAt(file, base, row.nameIndex) = name}}
    <2>1. \A t \in Found(Sections(file), ".strtab") : t = s
        BY <1>1, LinkAssumption
    <2> QED
        BY <2>1 DEF ValuesOf
<1> HIDE DEF values, base
<1>5. \A k \in Found(symbols, name) : symbols[k].offset \in values
    <2> SUFFICES ASSUME NEW k \in Found(symbols, name) PROVE symbols[k].offset \in values
        OBVIOUS
    <2>1. k \in DOMAIN symbols /\ symbols[k].name = name
        BY DEF Found
    <2>2. PICK row \in Rows(file) :
             symbols[k].name = NameAt(file, base, row.nameIndex) /\ symbols[k].offset = row.value
        BY <1>2, <2>1 DEF NamedFrom, base
    <2> QED
        BY <1>4, <2>1, <2>2
<1>6. ASSUME values # {} PROVE Found(symbols, name) # {}
    <2>1. PICK row \in Rows(file) : NameAt(file, base, row.nameIndex) = name
        BY <1>4, <1>6
    <2>2. PICK k \in DOMAIN symbols :
             symbols[k].name = NameAt(file, base, row.nameIndex) /\ symbols[k].offset = row.value
        BY <1>2, <2>1 DEF NamedFrom, base
    <2> QED
        BY <2>1, <2>2 DEF Found
<1>7. ASSUME Found(symbols, name) # {}
      PROVE  ByName(symbols, name).offset \in values
    <2>1. PICK n \in 1 .. Len(symbols) :
             symbols[n].name = name /\ ByName(symbols, name) = symbols[n]
        BY <1>1, <1>7, FoundByName
    <2>2. n \in Found(symbols, name)
        BY <1>1, <2>1 DEF Found
    <2> QED
        BY <1>5, <2>1, <2>2
<1> QED
    BY <1>3, <1>6, <1>7

\* readElf() takes the marks of the linker, or gives up for want of one.
LEMMA MarksKept ==
    ASSUME IInv, Next
    PROVE  MarksOK'
<1> USE DEF IInv
<1>1. CASE ReadSections
    BY <1>1 DEF ReadSections, MarksOK, MarksAreLinked, Early, inputs
<1>2. CASE ReadSymbols
    BY <1>2 DEF ReadSymbols, MarksOK, MarksAreLinked, Early, inputs
<1>3. CASE NameSymbols
    <2>1. CASE Found(sectionTable, ".strtab") # {}
        BY <1>3, <2>1 DEF NameSymbols, MarksOK, MarksAreLinked, Early, inputs
    <2>2. CASE Found(sectionTable, ".strtab") = {}
        <3>1. at' = "exit" /\ UNCHANGED <<file, signature>> /\ at = "readSymbolTable"
            BY <1>3, <2>2 DEF NameSymbols, inputs
        <3>2. file \in Files /\ CheckElf(file) /\ Found(Sections(file), ".strtab") = {}
            BY <2>2, <3>1 DEF InputsOK, TablesOK
        <3>3. ValuesOf(file, "_start") = {}
            BY <3>2 DEF ValuesOf
        <3>4. Linked(file, "_start") = Undef
            BY <3>2, <3>3, LinkAssumption
        <3> QED
            BY <3>1, <3>4 DEF MarksOK, MarksAreLinked, Early, Needed
    <2> QED
        BY <2>1, <2>2
<1>4. CASE LoadSection
    BY <1>4 DEF LoadSection, MarksOK, MarksAreLinked, Early, inputs, marks
<1>5. CASE SetMarks
    <2>1. at = "readElf" /\ UNCHANGED <<file, signature>>
        BY <1>5 DEF SetMarks, inputs
    <2>2. at \notin Early
        BY <2>1 DEF Early
    <2>5. ASSUME NEW name \in {"_start", "begin_signature", "end_signature"}
          PROVE  /\ Found(symbols, name) = {} <=> Linked(file, name) = Undef
                 /\ Found(symbols, name) # {} =>
                       ByName(symbols, name).offset = Linked(file, name)
        BY <2>2, SymbolFound
    <2>3. CASE \A name \in Needed : Found(symbols, name) # {}
        <3>1. /\ at' = "pushArgsOnStack" /\ pc' = ByName(symbols, "_start").offset
              /\ signature => /\ begin' = ByName(symbols, "begin_signature").offset
                              /\ end' = ByName(symbols, "end_signature").offset
            BY <1>5, <2>3 DEF SetMarks
        <3>2. /\ "_start" \in Needed
              /\ signature => "begin_signature" \in Needed /\ "end_signature" \in Needed
            BY DEF Needed
        <3>3. pc' = Linked(file, "_start")
            BY <2>3, <2>5, <3>1, <3>2
        <3>4. signature =>
                 /\ begin' = Linked(file, "begin_signature")
                 /\ end' = Linked(file, "end_signature")
                 /\ Linked(file, "begin_signature") # Undef
                 /\ Linked(file, "end_signature") # Undef
            BY <2>3, <2>5, <3>1, <3>2
        <3> QED
            BY <2>1, <3>1, <3>3, <3>4 DEF MarksOK, MarksAreLinked, Early
    <2>4. CASE ~ \A name \in Needed : Found(symbols, name) # {}
        <3>1. at' = "exit"
            BY <1>5, <2>4 DEF SetMarks
        <3>2. PICK name \in Needed : Found(symbols, name) = {}
            BY <2>4
        <3>3. name \in {"_start", "begin_signature", "end_signature"}
            BY <3>2 DEF Needed
        <3>4. Linked(file, name) = Undef
            BY <2>5, <3>2, <3>3
        <3>5. name \in Needed'
            BY <2>1, <3>2 DEF Needed
        <3> QED
            BY <2>1, <3>1, <3>4, <3>5 DEF MarksOK, MarksAreLinked, Early
    <2> QED
        BY <2>3, <2>4
<1>6. CASE PushArgc \/ PushArg \/ Run \/ PrintEnd
    <2>1. /\ at \notin Early \cup {"readElf"} /\ at' \notin Early \cup {"readElf"}
          /\ UNCHANGED <<file, signature, pc, begin, end>>
        BY <1>6 DEF PushArgc, PushArg, Run, PrintEnd, Early, inputs, marks
    <2> QED
        BY <2>1 DEF MarksOK, MarksAreLinked, Early
<1> QED
    BY <1>1, <1>2, <1>3, <1>4, <1>5, <1>6 DEF Next

-----------------------------------------------------------------------------
(* The image.                                                              *)

\* The layout, in terms of the section table.
LEMMA TableLaidOut ==
    ASSUME InputsOK, TablesOK, at \notin {"ElfFile", "exit"}
    PROVE  /\ file \in Files /\ CheckElf(file) /\ sectionTable = Sections(file)
           /\ Len(sectionTable) \in Nat
           /\ \A n \in 1 .. Len(sectionTable) :
                 LET s == sectionTable[n] IN
                 /\ s.address \in Nat /\ s.size \in Nat /\ s.offset \in Nat
                 /\ s.address # 0 =>
                       /\ s.address + s.size <= StackInit
                       /\ s.type = "SHT_PROGBITS" => s.offset + s.size <= Len(file.content)
                       /\ \A m \in 1 .. Len(sectionTable) :
                             sectionTable[m].address # 0 /\ m # n =>
                                /\ Apart(s, sectionTable[m])
                                /\ s.name = ".text" => sectionTable[m].name # ".text"
<1>1. file \in Files /\ CheckElf(file) /\ sectionTable = Sections(file)
    BY DEF InputsOK, TablesOK
<1>2. /\ Len(sectionTable) \in Nat /\ DOMAIN sectionTable = 1 .. Len(sectionTable)
      /\ \A n \in 1 .. Len(sectionTable) :
            /\ sectionTable[n].address \in Nat /\ sectionTable[n].size \in Nat
            /\ sectionTable[n].offset \in Nat
    BY <1>1, SectionsAre
<1>3. ASSUME NEW n \in 1 .. Len(sectionTable), sectionTable[n].address # 0
      PROVE  LET s == sectionTable[n] IN
             /\ s.address + s.size <= StackInit
             /\ s.type = "SHT_PROGBITS" => s.offset + s.size <= Len(file.content)
             /\ \A m \in 1 .. Len(sectionTable) :
                   sectionTable[m].address # 0 /\ m # n =>
                      /\ Apart(s, sectionTable[m])
                      /\ s.name = ".text" => sectionTable[m].name # ".text"
    BY <1>1, <1>2, <1>3, LayoutAssumption
<1> QED
    BY <1>1, <1>2, <1>3

\* A turn of the loop of readElf() adds its section to those in place.
LEMMA SectionLoaded ==
    ASSUME InputsOK, TablesOK, ImageOK, LoadSection
    PROVE  LoadedBefore(next)' /\ ~overrun' /\ next' <= Len(sectionTable) + 1
<1> DEFINE s == sectionTable[next]
<1>1. /\ at = "readElf" /\ next \in 1 .. Len(sectionTable) /\ next' = next + 1
      /\ UNCHANGED <<file, sectionTable>> /\ LoadedBefore(next) /\ ~overrun
    BY TableLaidOut DEF LoadSection, ImageOK, InputsOK, inputs, elf
<1>2. /\ Len(sectionTable) \in Nat /\ file \in Files /\ CheckElf(file)
      /\ \A n \in 1 .. Len(sectionTable) :
            /\ sectionTable[n].address \in Nat /\ sectionTable[n].size \in Nat
            /\ sectionTable[n].offset \in Nat
            /\ sectionTable[n].address # 0 =>
                 /\ sectionTable[n].address + sectionTable[n].size <= StackInit
                 /\ sectionTable[n].type = "SHT_PROGBITS" =>
                       sectionTable[n].offset + sectionTable[n].size <= Len(file.content)
                 /\ \A m \in 1 .. Len(sectionTable) :
                       sectionTable[m].address # 0 /\ m # n =>
                          /\ Apart(sectionTable[n], sectionTable[m])
                          /\ sectionTable[n].name = ".text" => sectionTable[m].name # ".text"
    BY <1>1, TableLaidOut
<1>3. DramSize \in Nat /\ StackInit \in 0 .. DramSize - 1
    BY LoaderAssumption
<1>4. 1 .. next' - 1 = (1 .. next - 1) \cup {next}
    BY <1>1
<1>5. CASE s.address = 0
    <2>1. UNCHANGED <<mem, heapAddress, text, overrun>>
        BY <1>5 DEF LoadSection, image
    <2>2. LoadedBefore(next)'
        <3>1. \A n \in 1 .. next' - 1 : sectionTable[n].address # 0 => n \in 1 .. next - 1
            BY <1>4, <1>5
        <3>2. \A n \in 1 .. next - 1 : n \in 1 .. next' - 1
            BY <1>4
        <3> QED
            BY <1>1, <2>1, <3>1, <3>2 DEF LoadedBefore, Covers
    <2> QED
        BY <1>1, <1>2, <2>1, <2>2
<1>6. CASE s.address # 0
    <2>1. /\ mem' = [a \in Addr |-> IF Covers(s, a) THEN ContentAt(s, a) ELSE mem[a]]
          /\ overrun' = (overrun \/ s.address + s.size > DramSize)
          /\ IF s.name # ".text"
             THEN heapAddress' = HeapAbove(s) /\ text' = text
             ELSE text' = <<s.address, s.address + s.size>> /\ heapAddress' = heapAddress
        BY <1>6 DEF LoadSection
    <2>2. /\ s.address \in Nat /\ s.size \in Nat /\ s.offset \in Nat
          /\ s.address + s.size <= StackInit
        BY <1>1, <1>2, <1>6
    <2>3. ~overrun'
        <3>1. ~ s.address + s.size > DramSize
            <4> HIDE DEF s
            <4> QED
                BY <1>3, <2>2
        <3> QED
            BY <1>1, <2>1, <3>1
    <2>4. mem' = [a \in Addr |-> mem'[a]]
        BY <2>1
    <2>5. /\ heapAddress' \in Nat /\ heapAddress <= heapAddress' /\ heapAddress \in Nat
          /\ s.name # ".text" => s.address + s.size <= heapAddress'
        BY <1>1, <2>1, <2>2 DEF LoadedBefore, HeapAbove
    <2>6. ASSUME NEW n \in 1 .. next - 1, sectionTable[n].address # 0
          PROVE  /\ sectionTable[n].type = "SHT_PROGBITS" =>
                      \A k \in 0 .. sectionTable[n].size - 1 :
                          mem'[sectionTable[n].address + k]
                            = file.content[sectionTable[n].offset + k + 1]
                 /\ IF sectionTable[n].name = ".text"
                    THEN text' = <<sectionTable[n].address,
                                   sectionTable[n].address + sectionTable[n].size>>
                    ELSE sectionTable[n].address + sectionTable[n].size <= heapAddress'
        <3> DEFINE o == sectionTable[n]
        <3>1. /\ n \in 1 .. Len(sectionTable) /\ n # next
              /\ o.address \in Nat /\ o.size \in Nat /\ o.address + o.size <= StackInit
              /\ Apart(o, s) /\ (o.name = ".text" => s.name # ".text")
            BY <1>1, <1>2, <1>6, <2>6
        <3>2. ASSUME NEW k \in 0 .. o.size - 1
              PROVE  mem'[o.address + k] = mem[o.address + k]
            <4>1. o.address + k \in Addr
                BY <1>3, <3>1 DEF Addr
            <4>2. ~Covers(s, o.address + k)
                <5> HIDE DEF s, o
                <5> QED
                    BY <2>2, <3>1 DEF Covers, Apart
            <4> QED
                BY <2>1, <4>1, <4>2
        <3>3. o.type = "SHT_PROGBITS" =>
                 \A k \in 0 .. o.size - 1 : mem'[o.address + k] = file.content[o.offset + k + 1]
            BY <1>1, <2>6, <3>2 DEF LoadedBefore
        <3>4. CASE o.name = ".text"
            BY <1>1, <2>1, <2>6, <3>1, <3>3, <3>4 DEF LoadedBefore
        <3>5. CASE o.name # ".text"
            <4>1. o.address + o.size <= heapAddress
                BY <1>1, <2>6, <3>5 DEF LoadedBefore
            <4>2. o.address + o.size <= heapAddress'
                BY <2>5, <3>1, <4>1
            <4> QED
                BY <3>3, <3>5, <4>2
        <3> QED
            BY <3>4, <3>5
    <2>7. ASSUME NEW k \in 0 .. s.size - 1, s.type = "SHT_PROGBITS"
          PROVE  mem'[s.address + k] = file.content[s.offset + k + 1]
        <3>1. s.address + k \in Addr /\ Covers(s, s.address + k)
            BY <1>3, <2>2 DEF Addr, Covers
        <3>2. s.offset + (s.address + k) - s.address = s.offset + k
              /\ s.offset + k < Len(file.content)
            <4>1. s.offset + s.size <= Len(file.content)
                BY <1>1, <1>2, <1>6, <2>7
            <4>2. Len(file.content) \in Nat
                BY <1>2, FileAssumption
            <4> QED
                BY <2>2, <4>1, <4>2
        <3>3. ContentAt(s, s.address + k) = file.content[s.offset + k + 1]
            BY <3>2 DEF ContentAt
        <3> QED
            BY <2>1, <3>1, <3>3
    <2>8. ASSUME NEW a \in 0 .. StackInit - 1, mem'[a] # Undef
          PROVE  \E n \in 1 .. next' - 1 :
                    sectionTable[n].address # 0 /\ Covers(sectionTable[n], a)
        <3>1. a \in Addr
            BY <1>3 DEF Addr
        <3>2. CASE Covers(s, a)
            BY <1>4, <1>6, <3>2
        <3>3. CASE ~Covers(s, a)
            <4>1. mem[a] # Undef
                BY <2>1, <2>8, <3>1, <3>3
            <4> QED
                BY <1>1, <1>4, <4>1 DEF LoadedBefore
        <3> QED
            BY <3>2, <3>3
    <2>9. s.name = ".text" => text' = <<s.address, s.address + s.size>>
        BY <2>1
    <2>10. LoadedBefore(next)'
        <3> SUFFICES
              /\ mem' = [a \in Addr |-> mem'[a]]
              /\ heapAddress' \in Nat
              /\ \A n \in 1 .. next' - 1 :
                    sectionTable[n].address # 0 =>
                      /\ sectionTable[n].type = "SHT_PROGBITS" =>
                           \A k \in 0 .. sectionTable[n].size - 1 :
                               mem'[sectionTable[n].address + k]
                                 = file.content[sectionTable[n].offset + k + 1]
                      /\ IF sectionTable[n].name = ".text"
                         THEN text' = <<sectionTable[n].address,
                                        sectionTable[n].address + sectionTable[n].size>>
                         ELSE sectionTable[n].address + sectionTable[n].size <= heapAddress'
              /\ \A a \in 0 .. StackInit - 1 :
                    mem'[a] # Undef =>
                      \E n \in 1 .. next' - 1 :
                          sectionTable[n].address # 0 /\ Covers(sectionTable[n], a)
            BY <1>1 DEF LoadedBefore, Addr, Covers
        <3> QED
            BY <1>4, <2>4, <2>5, <2>6, <2>7, <2>8, <2>9
    <2> QED
        BY <1>1, <1>2, <2>3, <2>10
<1> QED
    BY <1>5, <1>6

\* What is written from the stack up leaves the image below it alone.
LEMMA ImageBelowStack ==
    ASSUME InputsOK, TablesOK, at \notin {"ElfFile", "exit"},
           LoadedBefore(Len(sectionTable) + 1),
           UNCHANGED <<file, sectionTable, heapAddress, text>>,
           mem' = [a \in Addr |-> mem'[a]],
           \A a \in 0 .. StackInit - 1 : mem'[a] = mem[a]
    PROVE  LoadedBefore(Len(sectionTable) + 1)'
<1>1. /\ Len(sectionTable) \in Nat
      /\ \A n \in 1 .. Len(sectionTable) :
            /\ sectionTable[n].address \in Nat /\ sectionTable[n].size \in Nat
            /\ sectionTable[n].address # 0 =>
                  sectionTable[n].address + sectionTable[n].size <= StackInit
    BY TableLaidOut
<1>2. StackInit \in Nat /\ (Len(sectionTable) + 1) - 1 = Len(sectionTable)
    BY <1>1, LoaderAssumption
<1>3. ASSUME NEW n \in 1 .. Len(sectionTable), sectionTable[n].address # 0,
             NEW k \in 0 .. sectionTable[n].size - 1
      PROVE  mem'[sectionTable[n].address + k] = mem[sectionTable[n].address + k]
    <2> DEFINE x == sectionTable[n].address
               y == sectionTable[n].size
    <2>1. x \in Nat /\ y \in Nat /\ x + y <= StackInit /\ k \in 0 .. y - 1
        BY <1>1, <1>3
    <2> HIDE DEF x, y
    <2>2. x + k \in 0 .. StackInit - 1
        BY <1>2, <2>1
    <2> QED
        BY <2>2 DEF x
<1>4. ASSUME NEW n \in 1 .. Len(sectionTable), sectionTable[n].address # 0
      PROVE  /\ sectionTable[n].type = "SHT_PROGBITS" =>
                  \A k \in 0 .. sectionTable[n].size - 1 :
                      mem'[sectionTable[n].address + k]
                        = file.content[sectionTable[n].offset + k + 1]
             /\ IF sectionTable[n].name = ".text"
                THEN text' = <<sectionTable[n].address,
                               sectionTable[n].address + sectionTable[n].size>>
                ELSE sectionTable[n].address + sectionTable[n].size <= heapAddress'
    <2>1. /\ sectionTable[n].type = "SHT_PROGBITS" =>
                \A k \in 0 .. sectionTable[n].size - 1 :
                    mem[sectionTable[n].address + k]
                      = file.content[sectionTable[n].offset + k + 1]
          /\ IF sectionTable[n].name = ".text"
             THEN text = <<sectionTable[n].address,
                           sectionTable[n].address + sectionTable[n].size>>
             ELSE sectionTable[n].address + sectionTable[n].size <= heapAddress
        BY <1>2, <1>4 DEF LoadedBefore
    <2> QED
        BY <1>3, <1>4, <2>1
<1>5. \A a \in 0 .. StackInit - 1 :
         mem'[a] # Undef =>
             \E n \in 1 .. Len(sectionTable) :
                 sectionTable[n].address # 0 /\ Covers(sectionTable[n], a)
    BY <1>2 DEF LoadedBefore
<1>6. heapAddress' \in Nat
    BY DEF LoadedBefore
<1> QED
    BY <1>2, <1>4, <1>5, <1>6 DEF LoadedBefore, Covers, Addr

-----------------------------------------------------------------------------
(* Words and strings in memory.                                            *)

\* A word is read back; the bytes around it keep their values.
LEMMA WordWritten ==
    ASSUME NEW m, NEW addr \in Nat, addr + 4 <= DramSize,
           NEW v \in Nat, v < ByteSize * ByteSize * ByteSize * ByteSize
    PROVE  /\ Value(WordAt(WithWord(m, addr, v), addr)) = v
           /\ \A a \in Addr : a < addr \/ a >= addr + 4 => WithWord(m, addr, v)[a] = m[a]
<1>1. ASSUME NEW k \in 0 .. 3
      PROVE  WordAt(WithWord(m, addr, v), addr)[k] = Digit(v, k)
    <2>1. addr + k \in Addr /\ addr + k \in addr .. addr + 3 /\ (addr + k) - addr = k
        BY LoaderAssumption DEF Addr
    <2>2. WithWord(m, addr, v)[addr + k] = Digit(v, k)
        BY <2>1 DEF WithWord
    <2> QED
        BY <2>2 DEF WordAt
<1> DEFINE word == WordAt(WithWord(m, addr, v), addr)
<1>2. /\ word[0] = Digit(v, 0) /\ word[1] = Digit(v, 1)
      /\ word[2] = Digit(v, 2) /\ word[3] = Digit(v, 3)
    BY <1>1
<1> HIDE DEF word
<1>3. Value(word) = v
    BY <1>2, DigitsSpell DEF Value
<1>4. ASSUME NEW a \in Addr, a < addr \/ a >= addr + 4
      PROVE  WithWord(m, addr, v)[a] = m[a]
    <2>1. a \notin addr .. addr + 3
        BY <1>4
    <2> QED
        BY <2>1 DEF WithWord
<1> QED
    BY <1>3, <1>4 DEF word

\* A string lies where it was written; the bytes around it keep their values.
LEMMA StringWritten ==
    ASSUME NEW m, NEW addr \in Nat, NEW string, Len(string) \in Nat,
           addr + Len(string) + 1 <= DramSize
    PROVE  /\ IsString(WithString(m, addr, string), addr, string)
           /\ \A a \in Addr : a < addr \/ a > addr + Len(string) =>
                 WithString(m, addr, string)[a] = m[a]
<1> DEFINE l == Len(string)
           new == WithString(m, addr, string)
<1>1. new = [a \in Addr |-> CASE a \in addr .. addr + l - 1 -> string[a - addr + 1]
                              [] a = addr + l -> 0
                              [] OTHER -> m[a]]
    BY DEF WithString
<1>2. l \in Nat /\ addr + l + 1 <= DramSize /\ DramSize \in Nat
    BY LoaderAssumption
<1> HIDE DEF l, new
<1>3. ASSUME NEW k \in 1 .. l PROVE new[addr + k - 1] = string[k]
    <2> DEFINE a == addr + k - 1
    <2>1. a \in Addr /\ a \in addr .. addr + l - 1 /\ a # addr + l
          /\ a - addr + 1 = k
        BY <1>2 DEF Addr
    <2> HIDE DEF a
    <2>2. new[a] = string[a - addr + 1]
        BY <1>1, <2>1
    <2>3. new[a] = string[k]
        BY <2>1, <2>2
    <2> QED
        BY <2>3 DEF a
<1>4. new[addr + l] = 0
    <2>1. addr + l \in Addr /\ addr + l \notin addr .. addr + l - 1
        BY <1>2 DEF Addr
    <2> QED
        BY <1>1, <2>1
<1>5. ASSUME NEW a \in Addr, a < addr \/ a > addr + l
      PROVE  new[a] = m[a]
    <2>1. a \notin addr .. addr + l - 1 /\ a # addr + l
        BY <1>2, <1>5 DEF Addr
    <2> QED
        BY <1>1, <2>1
<1> QED
    BY <1>3, <1>4, <1>5 DEF IsString, l, new

\* A word and a string are the same in memories with the same bytes there.
LEMMA SameBytes ==
    ASSUME NEW m, NEW n
    PROVE  /\ \A a \in Nat :
                 (\A k \in 0 .. 3 : m[a + k] = n[a + k]) => WordAt(m, a) = WordAt(n, a)
           /\ \A a \in Nat : \A string :
                 /\ Len(string) \in Nat
                 /\ \A b \in a .. a + Len(string) : m[b] = n[b]
                 /\ IsString(m, a, string)
                 => IsString(n, a, string)
<1>1. ASSUME NEW a \in Nat, \A k \in 0 .. 3 : m[a + k] = n[a + k]
      PROVE  WordAt(m, a) = WordAt(n, a)
    BY <1>1 DEF WordAt
<1>2. ASSUME NEW a \in Nat, NEW string, Len(string) \in Nat,
             \A b \in a .. a + Len(string) : m[b] = n[b], IsString(m, a, string)
      PROVE  IsString(n, a, string)
    <2> DEFINE l == Len(string)
    <2>1. l \in Nat
        BY <1>2
    <2> HIDE DEF l
    <2>2. a + l \in a .. a + l /\ \A k \in 1 .. l : a + k - 1 \in a .. a + l
        BY <2>1
    <2> QED
        BY <1>2, <2>2 DEF IsString, l
<1> QED
    BY <1>1, <1>2

-----------------------------------------------------------------------------
(* The arguments.                                                          *)

\* The arguments and the lengths of their strings.
LEMMA ArgumentLengths ==
    ASSUME InputsOK
    PROVE  /\ args \in Seq(Seq(0 .. ByteSize - 1))
           /\ Len(args) \in Nat /\ DOMAIN args = 1 .. Len(args)
           /\ \A n \in 1 .. Len(args) : Len(args[n]) \in Nat
           /\ ArgumentBytes[0] = 4 + 4 * Len(args)
           /\ \A n \in 1 .. Len(args) :
                 ArgumentBytes[n] = ArgumentBytes[n - 1] + Len(args[n]) + 1
<1>1. args \in Seq(Seq(0 .. ByteSize - 1))
    BY FileAssumption DEF InputsOK
<1>2. Len(args) \in Nat /\ DOMAIN args = 1 .. Len(args)
    BY <1>1
<1>3. ASSUME NEW n \in 1 .. Len(args) PROVE Len(args[n]) \in Nat
    <2>1. args[n] \in Seq(0 .. ByteSize - 1)
        BY <1>1, <1>2
    <2> QED
        BY <2>1
<1>4. /\ ArgumentBytes[0] = 4 + 4 * Len(args)
      /\ \A n \in 1 .. Len(args) :
            ArgumentBytes[n] = ArgumentBytes[n - 1] + Len(args[n]) + 1
    BY <1>1, ArgumentBytesAdd
<1> QED
    BY <1>1, <1>2, <1>3, <1>4

\* Numbers of the size of the memory fit a word.
LEMMA Fits ==
    ASSUME NEW v \in Nat, v <= DramSize, v # DramSize
    PROVE  v < ByteSize * ByteSize * ByteSize * ByteSize
<1> DEFINE w == ByteSize * ByteSize * ByteSize * ByteSize
<1>1. DramSize <= w /\ DramSize \in Nat
    BY LoaderAssumption
<1>2. w \in Int
    BY LoaderAssumption
<1> HIDE DEF w
<1>3. v < w
    BY <1>1, <1>2
<1> QED
    BY <1>3 DEF w

\* pushArgsOnStack() begins: the number of arguments is at the stack pointer.
LEMMA CountPushed ==
    ASSUME IInv, PushArgc
    PROVE  ArgsOK'
<1> USE DEF IInv
<1>1. /\ at' = "pushArg" /\ next' = 1 /\ args' = args /\ ~overrun'
      /\ place' = StackInit + 4 + 4 * Len(args)
      /\ mem' = WithWord(mem, StackInit, Len(args))
    BY DEF PushArgc, ImageOK, inputs, StringsStart
<1>2. Len(args) \in Nat /\ ArgumentBytes[0] = 4 + 4 * Len(args)
    BY ArgumentLengths
<1>3. ArgumentBytes' = ArgumentBytes /\ StringsStart' = StringsStart
    BY <1>1 DEF ArgumentBytes, StringsStart
<1>4. StackInit \in Nat /\ DramSize \in Nat /\ StackInit < DramSize
    BY LoaderAssumption
<1>5. ASSUME place' <= DramSize
      PROVE  Value(WordAt(mem', StackInit)) = Len(args)
    <2>1. StackInit + 4 <= DramSize /\ Len(args) <= DramSize /\ Len(args) # DramSize
        BY <1>1, <1>2, <1>4, <1>5
    <2>2. Len(args) < ByteSize * ByteSize * ByteSize * ByteSize
        BY <1>2, <2>1, Fits
    <2> QED
        BY <1>1, <1>2, <1>4, <2>1, <2>2, WordWritten
<1>6. /\ next' <= Len(args') + 1 /\ next' - 1 = 0
      /\ ArgumentBytes'[0] \in Nat /\ place' = StackInit + ArgumentBytes'[0]
      /\ place' >= StringsStart'
    BY <1>1, <1>2, <1>3, <1>4 DEF StringsStart
<1>7. \A n \in 1 .. next' - 1 : FALSE
    BY <1>1
<1> QED
    BY <1>1, <1>5, <1>6, <1>7 DEF ArgsOK

\* The loop of pushArgsOnStack(): one argument more can be read back.
LEMMA ArgumentPushed ==
    ASSUME IInv, PushArg
    PROVE  ArgsOK'
<1> USE DEF IInv
<1> DEFINE entry == StackInit + 4 * next
           size == Len(args[next])
           mid == WithWord(mem, entry, place)
<1>1. /\ at = "pushArg" /\ at' = "pushArg" /\ next' = next + 1 /\ args' = args
      /\ next \in 1 .. Len(args)
      /\ place' = place + size + 1
      /\ mem' = WithString(mid, place, args[next])
      /\ overrun' = (overrun \/ entry + 4 > DramSize \/ place' > DramSize)
    BY ArgumentLengths DEF PushArg, inputs, InputsOK
<1>2. /\ Len(args) \in Nat /\ size \in Nat
      /\ ArgumentBytes[next] = ArgumentBytes[next - 1] + size + 1
    BY <1>1, ArgumentLengths
<1>3. ArgumentBytes' = ArgumentBytes /\ StringsStart' = StringsStart
    BY <1>1 DEF ArgumentBytes, StringsStart
<1>4. StackInit \in Nat /\ DramSize \in Nat
    BY LoaderAssumption
<1>5. /\ ArgumentBytes[next - 1] \in Nat /\ place = StackInit + ArgumentBytes[next - 1]
      /\ place >= StackInit + 4 + 4 * Len(args)
      /\ overrun <=> next > 1 /\ place > DramSize
      /\ place <= DramSize =>
            /\ Value(WordAt(mem, StackInit)) = Len(args)
            /\ \A n \in 1 .. next - 1 : Pushed(n)
    BY <1>1 DEF ArgsOK, StringsStart
<1> HIDE DEF size, mid, entry
<1>6. /\ place \in Nat /\ entry \in Nat /\ entry + 4 <= place /\ StackInit + 4 <= entry
      /\ next' <= Len(args) + 1 /\ next' - 1 = next
      /\ ArgumentBytes[next] \in Nat /\ place' = StackInit + ArgumentBytes[next]
      /\ place' \in Nat /\ place < place'
    <2>1. next \in Nat /\ next >= 1 /\ next <= Len(args)
        BY <1>1, <1>2
    <2> DEFINE before == ArgumentBytes[next - 1]
    <2>2. before \in Nat /\ place = StackInit + before
        BY <1>5
    <2>3. ArgumentBytes[next] = before + size + 1
        BY <1>2
    <2> HIDE DEF before
    <2>4. /\ place \in Nat /\ entry \in Nat /\ entry + 4 <= place /\ StackInit + 4 <= entry
        BY <1>2, <1>4, <1>5, <2>1, <2>2 DEF entry
    <2>5. /\ next' <= Len(args) + 1 /\ next' - 1 = next
          /\ place' \in Nat /\ place < place'
        BY <1>1, <1>2, <2>1, <2>4
    <2>6. /\ ArgumentBytes[next] \in Nat /\ place' = StackInit + ArgumentBytes[next]
        BY <1>1, <1>2, <1>4, <2>2, <2>3
    <2> QED
        BY <2>4, <2>5, <2>6
<1>7. overrun' <=> place' > DramSize
    <2>1. overrun => place' > DramSize
        BY <1>4, <1>5, <1>6
    <2>2. entry + 4 > DramSize => place' > DramSize
        BY <1>4, <1>6
    <2> QED
        BY <1>1, <2>1, <2>2
<1>8. ASSUME place' <= DramSize
      PROVE  /\ Value(WordAt(mem', StackInit)) = Len(args)
             /\ \A n \in 1 .. next : Pushed(n)'
    <2>1. place <= DramSize /\ place # DramSize /\ entry + 4 <= DramSize
        BY <1>4, <1>6, <1>8
    <2>2. /\ Value(WordAt(mid, entry)) = place
          /\ \A a \in Addr : a < entry \/ a >= entry + 4 => mid[a] = mem[a]
        <3>1. place < ByteSize * ByteSize * ByteSize * ByteSize
            BY <1>6, <2>1, Fits
        <3> QED
            BY <1>6, <2>1, <3>1, WordWritten DEF mid
    <2>3. /\ IsString(mem', place, args[next])
          /\ \A a \in Addr : a < place \/ a > place + size => mem'[a] = mid[a]
        <3>1. Len(args[next]) \in Nat /\ place + Len(args[next]) + 1 <= DramSize
            BY <1>1, <1>2, <1>8 DEF size
        <3>2. LET m == WithString(mid, place, args[next]) IN
              /\ IsString(m, place, args[next])
              /\ \A a \in Addr : a < place \/ a > place + Len(args[next]) => m[a] = mid[a]
            <4>1. place \in Nat
                BY <1>6
            <4> QED
                BY <3>1, <4>1, StringWritten, Zenon
        <3>3. mem' = WithString(mid, place, args[next])
            BY <1>1
        <3> QED
            BY <3>2, <3>3 DEF size
    <2>4. ASSUME NEW a \in Nat, a < place, a < entry \/ a >= entry + 4
          PROVE  mem'[a] = mem[a]
        <3>1. a \in Addr
            BY <1>4, <1>6, <2>1, <2>4 DEF Addr
        <3> QED
            BY <2>2, <2>3, <2>4, <3>1
    <2>5. Value(WordAt(mem', entry)) = place
        <3>1. ASSUME NEW k \in 0 .. 3 PROVE mid[entry + k] = mem'[entry + k]
            <4>1. entry + k \in Addr /\ entry + k < place
                BY <1>4, <1>6, <2>1 DEF Addr
            <4> QED
                BY <2>3, <4>1
        <3>2. WordAt(mid, entry) = WordAt(mem', entry)
            BY <1>6, <3>1, SameBytes
        <3> QED
            BY <2>2, <3>2
    <2>6. ASSUME NEW n \in 0 .. next - 1
          PROVE  WordAt(mem, StackInit + 4 * n) = WordAt(mem', StackInit + 4 * n)
        <3> DEFINE a == StackInit + 4 * n
        <3>1. a \in Nat /\ a + 4 <= entry
            BY <1>1, <1>4 DEF entry
        <3> HIDE DEF a
        <3>2. ASSUME NEW k \in 0 .. 3 PROVE mem[a + k] = mem'[a + k]
            <4>1. a + k \in Nat /\ a + k < entry /\ a + k < place
                BY <1>6, <3>1
            <4> QED
                BY <2>4, <4>1
        <3>3. WordAt(mem, a) = WordAt(mem', a)
            BY <3>1, <3>2, SameBytes
        <3> QED
            BY <3>3 DEF a
    <2>7. Value(WordAt(mem', StackInit)) = Len(args)
        <3>1. 0 \in 0 .. next - 1 /\ StackInit + 4 * 0 = StackInit
            BY <1>1, <1>4
        <3>2. WordAt(mem, StackInit) = WordAt(mem', StackInit)
            BY <2>6, <3>1
        <3> QED
            BY <1>5, <2>1, <3>2
    <2>8. ASSUME NEW n \in 1 .. next - 1 PROVE Pushed(n)'
        <3> DEFINE start == Value(WordAt(mem, StackInit + 4 * n))
        <3>1. start = Value(WordAt(mem', StackInit + 4 * n))
            BY <2>6
        <3>2. /\ start \in Nat /\ start >= StringsStart /\ start + Len(args[n]) + 1 <= place
              /\ IsString(mem, start, args[n])
            BY <1>5, <2>1 DEF Pushed
        <3>3. Len(args[n]) \in Nat
            BY <1>1, ArgumentLengths
        <3> HIDE DEF start
        <3>4. ASSUME NEW b \in start .. start + Len(args[n]) PROVE mem[b] = mem'[b]
            <4>1. StringsStart >= entry + 4
                BY <1>1, <1>2, <1>4 DEF StringsStart, entry
            <4>2. StringsStart \in Nat
                BY <1>2, <1>4 DEF StringsStart
            <4>3. b \in Nat /\ b < place /\ b >= entry + 4
                BY <1>6, <3>2, <3>3, <4>1, <4>2
            <4> QED
                BY <2>4, <4>3
        <3>5. IsString(mem', start, args[n])
            BY <3>2, <3>3, <3>4, SameBytes
        <3>6. start + Len(args[n]) + 1 <= place'
            BY <1>6, <3>2, <3>3
        <3> QED
            BY <1>1, <1>3, <3>1, <3>2, <3>5, <3>6 DEF Pushed
    <2>9. ASSUME NEW n, n = next PROVE Pushed(n)'
        <3>1. StackInit + 4 * n = entry
            BY <2>9 DEF entry
        <3>2. place >= StringsStart /\ place + Len(args[n]) + 1 <= place'
            BY <1>1, <1>2, <1>5, <1>6, <2>9 DEF StringsStart, size
        <3> QED
            BY <1>1, <1>3, <1>6, <2>3, <2>5, <2>9, <3>1, <3>2 DEF Pushed
    <2>10. 1 .. next = (1 .. next - 1) \cup {next}
        BY <1>1
    <2> QED
        BY <2>7, <2>8, <2>9, <2>10
<1>9. place' >= StringsStart' /\ next' > 1
    BY <1>1, <1>2, <1>3, <1>4, <1>5, <1>6 DEF StringsStart
<1> QED
    BY <1>1, <1>3, <1>6, <1>7, <1>8, <1>9 DEF ArgsOK

\* The arguments pushed so far can be read back.
LEMMA ArgsKept ==
    ASSUME IInv, Next
    PROVE  ArgsOK'
<1>1. CASE PushArgc
    BY <1>1, CountPushed
<1>2. CASE PushArg
    BY <1>2, ArgumentPushed
<1>3. CASE ReadSections \/ ReadSymbols \/ NameSymbols \/ LoadSection \/ SetMarks \/ Run \/ PrintEnd
    <2>1. at' # "pushArg"
        BY <1>3 DEF ReadSections, ReadSymbols, NameSymbols, LoadSection, SetMarks, Run, PrintEnd
    <2> QED
        BY <2>1 DEF ArgsOK
<1> QED
    BY <1>1, <1>2, <1>3 DEF Next

\* The sections stay in place until the program runs.
LEMMA ImageKept ==
    ASSUME IInv, Next
    PROVE  ImageOK'
<1> USE DEF IInv
<1>1. CASE ReadSections
    BY <1>1 DEF ReadSections, ImageOK, image
<1>2. CASE ReadSymbols
    BY <1>2 DEF ReadSymbols, ImageOK, image
<1>3. CASE NameSymbols
    <2>1. CASE at' = "exit"
        BY <2>1 DEF ImageOK
    <2>2. CASE at' # "exit"
        <3>1. /\ at = "readSymbolTable" /\ at' = "readElf" /\ next' = 1
              /\ UNCHANGED <<file, sectionTable, mem, heapAddress, text, overrun>>
            BY <1>3, <2>2 DEF NameSymbols, image, inputs
        <3>2. mem = [a \in Addr |-> Undef] /\ heapAddress = 0 /\ ~overrun
            BY <3>1 DEF ImageOK
        <3>3. \A a \in 0 .. StackInit - 1 : mem'[a] = Undef
            <4>1. \A a \in 0 .. StackInit - 1 : a \in Addr
                BY LoaderAssumption DEF Addr
            <4> QED
                BY <3>1, <3>2, <4>1
        <3>4. mem' = [a \in Addr |-> mem'[a]]
            BY <3>1, <3>2
        <3>5. 1 .. next' - 1 = {}
            BY <3>1
        <3>6. LoadedBefore(next)'
            BY <3>1, <3>2, <3>3, <3>4, <3>5 DEF LoadedBefore
        <3>7. next' <= Len(sectionTable') + 1
            BY <3>1, TableLaidOut
        <3> QED
            BY <3>1, <3>2, <3>6, <3>7 DEF ImageOK
    <2> QED
        BY <2>1, <2>2
<1>4. CASE LoadSection
    <2>1. at' = "readElf" /\ sectionTable' = sectionTable
        BY <1>4 DEF LoadSection, elf
    <2>2. LoadedBefore(next)' /\ ~overrun' /\ next' <= Len(sectionTable) + 1
        BY <1>4, SectionLoaded
    <2> QED
        BY <2>1, <2>2 DEF ImageOK
<1>5. CASE SetMarks
    <2>1. CASE at' = "exit"
        BY <2>1 DEF ImageOK
    <2>2. CASE at' # "exit"
        <3>1. /\ at = "readElf" /\ at' = "pushArgsOnStack" /\ next > Len(sectionTable)
              /\ UNCHANGED <<file, sectionTable, mem, heapAddress, text, overrun>>
            BY <1>5, <2>2 DEF SetMarks, image, inputs, elf
        <3>2. LoadedBefore(next) /\ next <= Len(sectionTable) + 1 /\ ~overrun
            BY <3>1 DEF ImageOK
        <3>3. next = Len(sectionTable) + 1
            BY <3>1, <3>2, TableLaidOut DEF InputsOK
        <3>4. LoadedBefore(Len(sectionTable) + 1)
            BY <3>2, <3>3
        <3>5. LoadedBefore(Len(sectionTable) + 1)'
            BY <3>1, <3>4 DEF LoadedBefore, Covers, Addr
        <3> QED
            BY <3>1, <3>2, <3>5 DEF ImageOK
    <2> QED
        BY <2>1, <2>2
<1>6. CASE PushArgc
    <2>1. /\ at = "pushArgsOnStack" /\ at' = "pushArg"
          /\ mem' = WithWord(mem, StackInit, Len(args))
          /\ UNCHANGED <<file, sectionTable, heapAddress, text>>
          /\ LoadedBefore(Len(sectionTable) + 1)
        BY <1>6 DEF PushArgc, ImageOK, inputs, elf
    <2>2. mem' = [a \in Addr |-> mem'[a]]
        BY <2>1 DEF WithWord
    <2>3. ASSUME NEW a \in 0 .. StackInit - 1 PROVE mem'[a] = mem[a]
        <3>1. a \in Addr /\ a \notin StackInit .. StackInit + 3
            BY LoaderAssumption DEF Addr
        <3> QED
            BY <2>1, <3>1 DEF WithWord
    <2>4. LoadedBefore(Len(sectionTable) + 1)'
        BY <2>1, <2>2, <2>3, ImageBelowStack
    <2> QED
        BY <2>1, <2>4 DEF ImageOK
<1>7. CASE PushArg
    <2> DEFINE entry == StackInit + 4 * next
    <2>1. /\ at = "pushArg" /\ at' = "pushArg"
          /\ mem' = WithString(WithWord(mem, entry, place), place, args[next])
          /\ UNCHANGED <<file, sectionTable, heapAddress, text>>
          /\ LoadedBefore(Len(sectionTable) + 1)
        BY <1>7 DEF PushArg, ImageOK, inputs, elf
    <2>2. mem' = [a \in Addr |-> mem'[a]]
        BY <2>1 DEF WithString
    <2>3. ASSUME NEW a \in 0 .. StackInit - 1 PROVE mem'[a] = mem[a]
        <3>1. StackInit \in Nat /\ DramSize \in Nat /\ StackInit < DramSize
            BY LoaderAssumption
        <3>2. /\ next \in 1 .. Len(args) /\ Len(args) \in Nat /\ Len(args[next]) \in Nat
              /\ place \in Int /\ place >= StackInit
            <4>1. next \in 1 .. Len(args) /\ Len(args) \in Nat
                BY <1>7, ArgumentLengths DEF PushArg, InputsOK
            <4>2. /\ ArgumentBytes[next - 1] \in Nat
                  /\ place = StackInit + ArgumentBytes[next - 1]
                BY <2>1 DEF ArgsOK
            <4> QED
                BY <3>1, <4>1, <4>2, ArgumentLengths
        <3>3. a \in Addr /\ a \notin entry .. entry + 3
            BY <3>1, <3>2 DEF Addr
        <3>4. WithWord(mem, entry, place)[a] = mem[a]
            BY <3>3 DEF WithWord
        <3>5. a \notin place .. place + Len(args[next]) - 1 /\ a # place + Len(args[next])
            BY <3>1, <3>2
        <3> QED
            BY <2>1, <3>3, <3>4, <3>5 DEF WithString
    <2>4. LoadedBefore(Len(sectionTable) + 1)'
        BY <2>1, <2>2, <2>3, ImageBelowStack
    <2> QED
        BY <2>1, <2>4 DEF ImageOK
<1>8. CASE Run \/ PrintEnd
    <2>1. at' \notin {"ElfFile", "readSymbolTable", "readElf", "pushArgsOnStack", "pushArg"}
        BY <1>8 DEF Run, PrintEnd
    <2> QED
        BY <2>1 DEF ImageOK
<1> QED
    BY <1>1, <1>2, <1>3, <1>4, <1>5, <1>6, <1>7, <1>8 DEF Next

-----------------------------------------------------------------------------
(* The signature.                                                          *)

\* The addresses of a linker are numbers.
LEMMA LinkedAddress ==
    ASSUME NEW f \in Files, CheckElf(f),
           NEW name \in {"_start", "begin_signature", "end_signature"},
           Linked(f, name) # Undef
    PROVE  Linked(f, name) \in Nat
<1>1. ValuesOf(f, name) = {Linked(f, name)}
    BY LinkAssumption
<1>2. PICK row \in Rows(f) : row.value = Linked(f, name)
    <2>1. ValuesOf(f, name) \subseteq {row.value : row \in Rows(f)}
        BY DEF ValuesOf
    <2>2. Linked(f, name) \in {row.value : row \in Rows(f)}
        BY <1>1, <2>1
    <2> QED
        BY <2>2
<1>3. PICK n \in DOMAIN f.headers :
         /\ f.headers[n].type = "SHT_SYMTAB"
         /\ \E k \in DOMAIN f.rows[f.headers[n].offset] : row = f.rows[f.headers[n].offset][k]
    BY <1>2 DEF Rows
<1>4. f.rows[f.headers[n].offset] \in Seq(SymbolRow)
    BY <1>3, FileAssumption
<1>5. row \in SymbolRow
    BY <1>3, <1>4
<1> QED
    BY <1>2, <1>5 DEF SymbolRow

\* printEnd() writes the words from below the first symbol on.
LEMMA SignatureKept ==
    ASSUME IInv, Next
    PROVE  SignatureBytes'
<1> USE DEF IInv
<1>1. CASE PrintEnd
    <2> DEFINE first == begin - (begin % 4)
               count == (end - begin + 3) \div 4
               shown == first + 4 * count
               starts == {k \in 0 .. DramSize : first + 4 * k < SignatureEnd}
    <2> SUFFICES ASSUME signature'
                 PROVE  /\ Len(out') = count
                        /\ shown = end - ((begin % 4) - ((begin - end) % 4))
                        /\ \A a \in begin .. end - 1 : a < shown =>
                              out'[(a - first) \div 4 + 1][(a - first) % 4] = mem[a]
        BY <1>1 DEF SignatureBytes, PrintEnd, marks, image
    <2>1. /\ at = "printEnd" /\ signature
          /\ file \in Files /\ CheckElf(file)
        BY <1>1 DEF PrintEnd, TablesOK, InputsOK, inputs
    <2>2. begin \in Nat /\ end \in Nat /\ begin <= end /\ end <= DramSize
        <3>1. /\ begin = Linked(file, "begin_signature") /\ begin # Undef
              /\ end = Linked(file, "end_signature") /\ end # Undef
            BY <2>1 DEF MarksOK, MarksAreLinked, Early
        <3> QED
            BY <2>1, <3>1, LinkedAddress, LinkAssumption
    <2>3. /\ count \in Nat /\ 4 * count = (end - begin) + ((begin - end) % 4)
          /\ count <= DramSize /\ DramSize \in Nat /\ first \in Nat /\ begin % 4 \in 0 .. 3
        BY <2>2, LoaderAssumption
    <2>4. shown = end - ((begin % 4) - ((begin - end) % 4))
        <3>1. (begin - end) % 4 \in Int /\ begin % 4 \in Int
            BY <2>2
        <3> HIDE DEF count
        <3> QED
            BY <2>2, <2>3, <3>1
    <2>5. starts = 0 .. count - 1
        <3>1. \A k \in Int : first + 4 * k < SignatureEnd <=> 4 * k < end - begin
            <4>1. SignatureEnd = end - (begin % 4) /\ begin % 4 \in Int
                BY <2>2 DEF SignatureEnd
            <4> QED
                BY <2>2, <4>1
        <3>2. \A k \in Int : 4 * k < end - begin <=> k < count
            BY <2>2
        <3> HIDE DEF count, first
        <3> QED
            BY <2>3, <3>1, <3>2
    <2>6. Cardinality(starts) = count
        <3>1. 0 \in Int /\ count - 1 \in Int
            BY <2>3
        <3>2. Cardinality(0 .. count - 1) = IF 0 > count - 1 THEN 0 ELSE (count - 1) - 0 + 1
            BY <3>1, FS_Interval
        <3> HIDE DEF starts, count
        <3> QED
            BY <2>3, <2>5, <3>2
    <2>7. out' = [k \in 1 .. count |-> WordAt(mem, first + 4 * (k - 1))]
        <3>1. out' = [k \in 1 .. Cardinality(starts) |-> WordAt(mem, first + 4 * (k - 1))]
            BY <1>1, <2>1 DEF PrintEnd
        <3> HIDE DEF starts, first, count
        <3> QED
            BY <2>6, <3>1
    <2> HIDE DEF count
    <2>8. Len(out') = count
        BY <2>3, <2>7
    <2>9. ASSUME NEW a \in begin .. end - 1, a < shown
          PROVE  out'[(a - first) \div 4 + 1][(a - first) % 4] = mem[a]
        <3> DEFINE q == (a - first) \div 4
                   r == (a - first) % 4
        <3>1. a \in Int /\ first \in Int /\ first <= a /\ a < first + 4 * count
            BY <2>2, <2>3, <2>9
        <3> HIDE DEF first
        <3>2. q \in Int /\ r \in 0 .. 3 /\ a = first + 4 * q + r
            BY <3>1
        <3> HIDE DEF q, r
        <3>3. q + 1 \in 1 .. count
            BY <2>3, <3>1, <3>2
        <3>4. out'[q + 1] = WordAt(mem, first + 4 * q)
            BY <2>7, <3>2, <3>3
        <3>5. out'[q + 1][r] = mem[first + 4 * q + r]
            BY <3>2, <3>4 DEF WordAt
        <3> QED
            BY <3>2, <3>5 DEF q, r
    <2> QED
        BY <2>4, <2>8, <2>9
<1>2. CASE ReadSections \/ ReadSymbols \/ NameSymbols \/ LoadSection \/ SetMarks
           \/ PushArgc \/ PushArg \/ Run
    <2>1. at' # "end"
        BY <1>2 DEF ReadSections, ReadSymbols, NameSymbols, LoadSection, SetMarks, PushArgc,
           PushArg, Run
    <2> QED
        BY <2>1 DEF SignatureBytes
<1> QED
    BY <1>1, <1>2 DEF Next

-----------------------------------------------------------------------------
(* The theorems.                                                           *)

LEMMA Initially ==
    Init => IInv
<1> SUFFICES ASSUME Init PROVE IInv
    OBVIOUS
<1>1. InputsOK /\ ArgsOK /\ SignatureBytes /\ MarksOK /\ TablesOK /\ ImageOK
    BY DEF Init, InputsOK, ArgsOK, SignatureBytes, MarksOK, MarksAreLinked, TablesOK,
       ImageOK, Early
<1> QED
    BY <1>1 DEF IInv

LEMMA InputsKept ==
    ASSUME InputsOK, Next
    PROVE  InputsOK'
<1>1. UNCHANGED <<file, args, signature>>
    BY DEF Next, ReadSections, ReadSymbols, NameSymbols, LoadSection, SetMarks, PushArgc,
       PushArg, Run, PrintEnd, inputs
<1>2. next' \in {next, next + 1, 1}
    BY DEF Next, ReadSections, ReadSymbols, NameSymbols, LoadSection, SetMarks, PushArgc,
       PushArg, Run, PrintEnd
<1> QED
    BY <1>1, <1>2 DEF InputsOK

\* The invariant: what the statements of the constructor establish in turn.
LEMMA Invariant ==
    Spec => []IInv
<1>1. IInv /\ [Next]_vars => IInv'
    <2> SUFFICES ASSUME IInv, [Next]_vars PROVE IInv'
        OBVIOUS
    <2>1. CASE Next
        <3>1. InputsOK'
            BY <2>1, InputsKept DEF IInv
        <3> QED
            BY <2>1, <3>1, TablesKept, MarksKept, ImageKept, ArgsKept, SignatureKept DEF IInv
    <2>2. CASE UNCHANGED vars
        <3>1. /\ UNCHANGED <<at, file, args, signature, sectionTable, symbols, next, place,
                             mem, heapAddress, text, overrun, pc, begin, end, out>>
            BY <2>2 DEF vars, image, elf, inputs, marks
        <3>2. InputsOK' /\ TablesOK'
            BY <3>1 DEF IInv, InputsOK, TablesOK
        <3>3. MarksOK' /\ SignatureBytes'
            BY <3>1 DEF IInv, MarksOK, MarksAreLinked, SignatureBytes, Needed
        <3>4. ImageOK'
            BY <3>1 DEF IInv, ImageOK, LoadedBefore, Covers
        <3>5. ArgsOK'
            BY <3>1 DEF IInv, ArgsOK, ArgumentBytes, Pushed, IsString, WordAt, Value, StringsStart
        <3> QED
            BY <3>2, <3>3, <3>4, <3>5 DEF IInv
    <2> QED
        BY <2>1, <2>2
<1> QED
    BY Initially, <1>1, PTL DEF Spec

\* Every section with bytes in the file is in memory when the program starts,
\* whatever readElf() loaded and pushArgsOnStack() pushed after it.
THEOREM SectionsAlwaysInPlace ==
    Spec => []SectionsInPlace
<1>1. IInv => SectionsInPlace
    <2> SUFFICES ASSUME IInv, Loaded PROVE SectionsInPlace
        BY DEF SectionsInPlace
    <2>1. LoadedBefore(Len(sectionTable) + 1)
        BY DEF IInv, ImageOK, Loaded
    <2>2. Len(sectionTable) \in Nat /\ DOMAIN sectionTable = 1 .. Len(sectionTable)
        BY SectionsAre, TableLaidOut DEF IInv, Loaded
    <2>3. (Len(sectionTable) + 1) - 1 = Len(sectionTable)
        BY <2>2
    <2> QED
        BY <2>1, <2>2, <2>3 DEF SectionsInPlace, LoadedBefore
<1> QED
    BY Invariant, <1>1, PTL

\* When the program starts no byte from heapAddress to the stack is another
\* section's than .text's.
THEOREM HeapAlwaysFree ==
    Spec => []HeapStartsFree
<1>1. IInv => HeapStartsFree
    <2> SUFFICES ASSUME IInv, Loaded,
                        NEW a \in heapAddress .. StackInit - 1, mem[a] # Undef
                 PROVE  text # Undef /\ a \in text[1] .. text[2] - 1
        BY DEF HeapStartsFree
    <2>1. LoadedBefore(Len(sectionTable) + 1)
        BY DEF IInv, ImageOK, Loaded
    <2>2. /\ Len(sectionTable) \in Nat
          /\ \A n \in 1 .. Len(sectionTable) :
                sectionTable[n].address \in Nat /\ sectionTable[n].size \in Nat
        BY TableLaidOut DEF IInv, Loaded
    <2>3. a \in 0 .. StackInit - 1
        BY <2>1, LoaderAssumption DEF LoadedBefore
    <2>4. PICK n \in 1 .. Len(sectionTable) :
             sectionTable[n].address # 0 /\ Covers(sectionTable[n], a)
        <3>1. (Len(sectionTable) + 1) - 1 = Len(sectionTable)
            BY <2>2
        <3> QED
            BY <2>1, <2>3, <3>1 DEF LoadedBefore
    <2> DEFINE s == sectionTable[n]
    <2>5. IF s.name = ".text" THEN text = <<s.address, s.address + s.size>>
          ELSE s.address + s.size <= heapAddress
        <3>1. (Len(sectionTable) + 1) - 1 = Len(sectionTable)
            BY <2>2
        <3> QED
            BY <2>1, <2>4, <3>1 DEF LoadedBefore
    <2>6. /\ s.address \in Nat /\ s.size \in Nat /\ heapAddress \in Nat
          /\ a \in s.address .. s.address + s.size - 1 /\ a >= heapAddress
        BY <2>1, <2>2, <2>4 DEF LoadedBefore, Covers
    <2> HIDE DEF s
    <2>7. s.name = ".text"
        BY <2>5, <2>6
    <2>8. text = <<s.address, s.address + s.size>> /\ text \in Nat \X Nat
        BY <2>5, <2>6, <2>7
    <2> QED
        BY <2>6, <2>8, LoaderAssumption
<1> QED
    BY Invariant, <1>1, PTL

\* A program finds its arguments behind its stack pointer when they fit below
\* the end of the memory, and pushArgsOnStack() leaves the array when not.
THEOREM ArgumentsAlwaysReadBack ==
    Spec => []ArgumentsReadBack
<1>1. IInv => ArgumentsReadBack
    <2> SUFFICES ASSUME IInv, Loaded PROVE ArgumentsReadBack
        BY DEF ArgumentsReadBack
    <2>1. /\ Len(args) \in Nat /\ DOMAIN args = 1 .. Len(args)
          /\ ArgumentBytes[0] = 4 + 4 * Len(args)
        BY ArgumentLengths DEF IInv
    <2>2. next = Len(args) + 1 /\ next - 1 = Len(args)
        BY <2>1 DEF IInv, InputsOK, ArgsOK, Loaded
    <2>3. /\ ArgumentBytes[Len(args)] \in Nat /\ place = StackInit + ArgumentBytes[Len(args)]
          /\ overrun <=> next > 1 /\ place > DramSize
          /\ place <= DramSize =>
                /\ Value(WordAt(mem, StackInit)) = Len(args)
                /\ \A n \in 1 .. Len(args) : Pushed(n)
        BY <2>2 DEF IInv, ArgsOK, Loaded
    <2>4. StackInit \in Nat /\ DramSize \in Nat /\ StackInit + 4 <= DramSize
        BY LoaderAssumption
    <2>5. overrun <=> place > DramSize
        <3>1. CASE Len(args) = 0
            BY <2>1, <2>2, <2>3, <2>4, <3>1
        <3>2. CASE Len(args) # 0
            BY <2>1, <2>2, <2>3, <3>2
        <3> QED
            BY <3>1, <3>2
    <2>6. CASE StackInit + ArgumentBytes[Len(args)] <= DramSize
        BY <2>1, <2>3, <2>4, <2>5, <2>6 DEF ArgumentsReadBack, Pushed
    <2>7. CASE ~ StackInit + ArgumentBytes[Len(args)] <= DramSize
        BY <2>3, <2>4, <2>5, <2>7 DEF ArgumentsReadBack
    <2> QED
        BY <2>6, <2>7
<1> QED
    BY Invariant, <1>1, PTL

\* The program starts at its _start and the signature is the one between its
\* symbols; readElf() gives up only on a file of another kind or without them.
THEOREM MarksAlwaysLinked ==
    Spec => []MarksAreLinked
<1>1. IInv => MarksAreLinked
    BY DEF IInv, MarksOK
<1> QED
    BY Invariant, <1>1, PTL

\* Wherever the linker put its symbols, printEnd() writes the bytes from the
\* first one on as the program left them, and the number of those it leaves
\* out before the second one is known: none behind an aligned first symbol.
THEOREM SignatureAlwaysHeld ==
    Spec => []SignatureBytes
<1>1. IInv => SignatureBytes
    BY DEF IInv
<1> QED
    BY Invariant, <1>1, PTL
=============================================================================
