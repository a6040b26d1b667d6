----------------------------- MODULE ByteMemory -----------------------------
(***************************************************************************)
(* What a MemoryInterface promises the core: an array of bytes, and one    *)
(* request at a time.  While it is pending the bytes may change only by    *)
(* the store that was asked for; once it is answered the store is done, or *)
(* the answer is the value the bytes spell.                                *)
(***************************************************************************)
EXTENDS SubWord

CONSTANTS Addr,        \* byte addresses
          Requests,    \* what the core may ask for
          NoRequest,
          Images       \* initial contents, [Addr -> Byte]

VARIABLES bytes, req, answer

vars == <<bytes, req, answer>>

\* The bytes an access covers, lowest first: aligned to its size.
Size(mask) ==
    CASE mask \in {"BYTE", "BYTE_U"} -> 1
      [] mask \in {"HALF", "HALF_U"} -> 2
      [] OTHER -> 4

Base(r) == r.addr - (r.addr % Size(r.mask))

Covered(r) == Base(r) .. Base(r) + Size(r.mask) - 1

\* The little-endian number in n bytes from address a.
Spelled(a, n) ==
    CASE n = 1 -> bytes[a]
      [] n = 2 -> bytes[a] + ByteSize * bytes[a + 1]
      [] OTHER -> bytes[a] + ByteSize * bytes[a + 1]
                  + HalfSize * (bytes[a + 2] + ByteSize * bytes[a + 3])

Loaded(r) ==
    LET value == Spelled(Base(r), Size(r.mask))
        limit == Width(r.mask)
    IN  IF r.mask \in {"BYTE", "HALF"} /\ value >= limit \div 2
        THEN value - limit + FullSize
        ELSE value

Stored(r) ==
    [a \in Addr |-> IF a \in Covered(r)
                    THEN Slice(r.data, ByteSize, ByteWeight(a - Base(r)))
                    ELSE bytes[a]]

Init == bytes \in Images /\ req = NoRequest /\ answer = 0

Ask(r) ==
    /\ req = NoRequest
    /\ req' = r
    /\ UNCHANGED <<bytes, answer>>

\* The effect of a pending store, which may come before its answer.
Perform ==
    /\ req # NoRequest /\ req.op = "STORE"
    /\ bytes' = Stored(req)
    /\ UNCHANGED <<req, answer>>

Answer ==
    /\ req # NoRequest
    /\ req' = NoRequest
    /\ \/ req.op = "LOAD" /\ answer' = Loaded(req) /\ UNCHANGED bytes
       \/ req.op = "STORE" /\ bytes' = Stored(req) /\ UNCHANGED answer

Next == (\E r \in Requests : Ask(r)) \/ Perform \/ Answer

Spec == Init /\ [][Next]_vars
=============================================================================
