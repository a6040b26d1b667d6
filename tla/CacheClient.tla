----------------------------- MODULE CacheClient ----------------------------
(***************************************************************************)
(* MemoryClient where the memory may be a cache, and what must then hold   *)
(* inside it between two cycles.                                           *)
(***************************************************************************)
EXTENDS MemoryClient, CacheMemory

\* A memory is told from the others by its fields.
IsCache(m) == "slots" \in DOMAIN m

\* A line the cache may drop is in the next level: a clean one always, the
\* victim of a miss once its write back is over.
DroppableLinesBelow == IsCache(mem) => LinesBelow(mem)

\* The cache is direct-mapped: ages tie at reset, the comparisons that choose
\* a victim are strict, and three of its four ways stay empty for ever.
OnlyLastWayUsed == IsCache(mem) => LastWayOnly(mem)
=============================================================================
