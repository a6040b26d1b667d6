------------------------------ MODULE Syscalls ------------------------------
(***************************************************************************)
(* The system calls the simulator emulates: solveSyscall()'s switch and    *)
(* the do* handlers, as functions of the arguments, the data memory and    *)
(* the simulator's own state.  What the host's files and clock answer is a *)
(* parameter.                                                              *)
(***************************************************************************)
EXTENDS Rv32, Sequences

CONSTANTS
    ArgRegs,              \* <<10, 11, 12, 13>>
    IdReg,                \* 17
    SysName(_),           \* riscvISA.h: the name of a number
    ByteFunct,            \* an LB or SB access of the data memory
    InputFile,            \* fileno(inputFile)
    OutputFile,           \* fileno(outputFile)
    HeapStart,            \* heapAddress once readElf() is over
    HostBytes(_, _),      \* (name, args): what read() or stat() delivers
    HostResult(_, _)      \* (name, args): what the host's call returns

ASSUME SyscallAssumption ==
    /\ IdReg \in Reg
    /\ ArgRegs \in [1 .. 4 -> Reg \ {0}]
    /\ HeapStart \in Word

\* The simulator's state: the program break, the host files closed for the
\* program, and the last write with the file it named and the one it reached.
NoWrite == [asked |-> 0, reached |-> 0, bytes |-> <<>>]

HostInit == [heapAddress |-> HeapStart, closed |-> {}, written |-> NoWrite]

\* stb() for each byte of a buffer.
FillBuffer(m, addr, bytes) ==
    LET filled[n \in 0 .. Len(bytes)] ==
            IF n = 0 THEN m
            ELSE Store(ByteFunct, filled[n - 1], Add(addr, n - 1), bytes[n])
    IN  filled[Len(bytes)]

\* ldb() for each.
ReadBuffer(m, addr, size) ==
    [n \in 1 .. size |-> Load(ByteFunct, m, Add(addr, n - 1))]

Outcome(result, m, host, exit) ==
    [result |-> result, mem |-> m, host |-> host, exit |-> exit]

\* Standard input is the -i file, any other file is the host's.
DoRead(args, m, host) ==
    LET file == IF args[1] = 0 THEN InputFile ELSE args[1]
        bytes == HostBytes("read", <<file, args[3]>>)
    IN  Outcome(HostResult("read", <<file, args[3]>>),
                FillBuffer(m, args[2], bytes), host, FALSE)

\* outputFile is never null: openOrDefault() makes it the -o file or stdout,
\* and a write to any file goes there.
DoWrite(args, m, host) ==
    LET bytes == ReadBuffer(m, args[2], args[3]) IN
    Outcome(HostResult("write", <<OutputFile, args[3]>>), m,
            [host EXCEPT !.written =
                [asked |-> args[1], reached |-> OutputFile, bytes |-> bytes]],
            FALSE)

\* A break of zero asks for the current one.
DoSbrk(args, m, host) ==
    LET heap == IF args[1] # 0 THEN args[1] ELSE host.heapAddress IN
    Outcome(heap, m, [host EXCEPT !.heapAddress = heap], FALSE)

DoClose(args, m, host) ==
    IF args[1] > 2
    THEN Outcome(HostResult("close", args), m,
                 [host EXCEPT !.closed = @ \cup {args[1]}], FALSE)
    ELSE Outcome(0, m, host, FALSE)

\* A structure of the host, stored byte by byte at addr.
Structure(name, addr, args, m, host) ==
    Outcome(HostResult(name, args), FillBuffer(m, addr, HostBytes(name, args)),
            host, FALSE)

DoFstat(args, m, host) == Structure("fstat", args[2], args, m, host)
DoStat(args, m, host) == Structure("stat", args[2], args, m, host)
DoGettimeofday(args, m, host) == Structure("gettimeofday", args[1], args, m, host)

\* doOpen(), doLseek() and doUnlink(): the host's answer, nothing else.  A
\* path is known by its address.
DoHostCall(name, args, m, host) == Outcome(HostResult(name, args), m, host, FALSE)

\* The switch.  exit, the calls it only names and unknown numbers end the
\* run; openat calls exit(-1) itself.
Solved(name, args, m, host) ==
    CASE name = "read" -> DoRead(args, m, host)
      [] name = "write" -> DoWrite(args, m, host)
      [] name = "brk" -> DoSbrk(args, m, host)
      [] name = "close" -> DoClose(args, m, host)
      [] name = "fstat" -> DoFstat(args, m, host)
      [] name = "stat" -> DoStat(args, m, host)
      [] name = "gettimeofday" -> DoGettimeofday(args, m, host)
      [] name \in {"open", "lseek", "unlink"} -> DoHostCall(name, args, m, host)
      [] name = "threadstart" -> Outcome(0, m, host, FALSE)
      [] name = "nbcore" -> Outcome(1, m, host, FALSE)
      [] OTHER -> Outcome(0, m, host, TRUE)
=============================================================================
