-------------------------------- MODULE PMM --------------------------------
(***************************************************************************)
(* The physical memory manager's only operation: PMM_init, which sizes the *)
(* page bitmap from phys_mem, puts it at the start of a usable region,     *)
(* marks every page used with memset64 and then frees the usable regions.  *)
(*                                                                         *)
(* Addresses are page numbers.  The bitmap is the set of pages whose bit   *)
(* is clear, for every bit the code touches, within the bitmap's size or   *)
(* past its end; written is the set of pages the code stores into.         *)
(***************************************************************************)
EXTENDS Integers, Sequences

CONSTANTS
    Bits,           \* pages per byte of the bitmap (8)
    Word,           \* bytes memset64 stores per unit of its count (8)
    PageSize,       \* bytes per page (4096)
    Maps            \* the memory maps boot loaders hand over

ASSUME SizesAssumption ==
    Bits \in Nat \ {0} /\ Word \in Nat \ {0} /\ PageSize \in Nat \ {0}

Regions == [base : Nat, length : Nat \ {0}, usable : BOOLEAN]

\* stivale2: usable regions are page-aligned, overlap nothing and never
\* contain page 0.
ASSUME MapsAssumption ==
    \A m \in Maps :
        /\ m \in Seq(Regions)
        /\ \A i \in DOMAIN m : m[i].usable => m[i].base > 0
        /\ \A i, j \in DOMAIN m : i < j => m[i].base + m[i].length <= m[j].base

VARIABLES
    stage,      \* "place", "free", "done"
    entry,      \* entry_index
    map,        \* the memory map of this machine
    size,       \* pages_bitmap_size, in bytes
    at,         \* the page pages_bitmap points to, NULL before it is placed
    free,       \* pages whose bit is clear
    written     \* pages stored into

vars == <<stage, entry, map, size, at, free, written>>

NULL == 0

PagesOf(r) == r.base .. r.base + r.length - 1

\* Boot_get_info: phys_mem sums the regions, holes between them left out.
PhysMem(m) ==
    LET total_mem[n \in 0..Len(m)] ==
            IF n = 0 THEN 0 ELSE total_mem[n - 1] + m[n].length
    IN  total_mem[Len(m)]

\* The pages where the bytes from first to last of the bitmap are.
BytesAt(page, first, last) ==
    {page + k \div PageSize : k \in first .. last}

Init ==
    /\ map \in Maps
    /\ size = PhysMem(map) \div Bits
    /\ stage = "place" /\ entry = 1
    /\ at = NULL /\ free = {} /\ written = {}

\* The loop without the test of the region's type.
FitsReserved(r) == r.length * PageSize >= size

\* The loop without the test of the region's length.
FitsAnywhere(r) == r.usable

Fits(r) == r.usable /\ r.length * PageSize >= size

\* memset64 stores Word bytes per unit of its count, 0xff in the first of them
\* and 0 in the others.  Every region that fits is taken, so the last one is.
Place ==
    /\ stage = "place" /\ entry <= Len(map)
    /\ entry' = entry + 1
    /\ IF Fits(map[entry])
       THEN /\ at' = map[entry].base
            /\ free' = {p \in 0 .. Word * size * Bits - 1 :
                           (p \div Bits) % Word # 0}
            /\ written' = written \cup
                  BytesAt(map[entry].base, 0, Word * size - 1)
       ELSE UNCHANGED <<at, free, written>>
    /\ UNCHANGED <<stage, map, size>>

EndPlace ==
    /\ stage = "place" /\ entry > Len(map)
    /\ stage' = "free" /\ entry' = 1
    /\ UNCHANGED <<map, size, at, free, written>>

\* One page too few, one page too many.
bitmap_free_regionShort(start, limit) == start .. start + limit - 2
bitmap_free_regionLong(start, limit) == start .. start + limit

\* The bits bitmap_free_region clears.
bitmap_free_region(start, limit) == start .. start + limit - 1

Free ==
    /\ stage = "free" /\ entry <= Len(map)
    /\ entry' = entry + 1
    /\ IF map[entry].usable
       THEN LET cleared == bitmap_free_region(map[entry].base, map[entry].length)
            IN  /\ free' = free \cup cleared
                /\ written' = written \cup
                      {at + (p \div Bits) \div PageSize : p \in cleared}
       ELSE UNCHANGED <<free, written>>
    /\ UNCHANGED <<stage, map, size, at>>

EndFree ==
    /\ stage = "free" /\ entry > Len(map)
    /\ stage' = "done"
    /\ UNCHANGED <<entry, map, size, at, free, written>>

\* kmain never calls the memory manager again.
Done == stage = "done" /\ UNCHANGED vars

Next == Place \/ EndPlace \/ Free \/ EndFree \/ Done

Spec == Init /\ [][Next]_vars

----------------------------------------------------------------------------
(* Properties *)

UsablePages == UNION {PagesOf(map[i]) : i \in {j \in DOMAIN map : map[j].usable}}
Tracked == 0 .. Bits * size - 1

TypeOK ==
    /\ stage \in {"place", "free", "done"}
    /\ size \in Nat /\ entry \in 1 .. Len(map) + 1
    /\ at \in {NULL} \cup UsablePages
    /\ free \subseteq Nat /\ written \subseteq Nat

\* When PMM_init ends, every usable page the bitmap tracks is free, whatever
\* the order and number of the regions the bitmap was put in.
UsableFreed ==
    stage = "done" /\ at # NULL => UsablePages \cap Tracked \subseteq free

\* A page that is not usable is never freed by bitmap_free_region: those whose
\* byte memset64 filled with 0xff stay used.
ReservedKept ==
    stage = "done" /\ at # NULL =>
        \A p \in Tracked \ UsablePages : (p \div Bits) % Word = 0 => p \notin free

\* The regions long enough for the bitmap are long enough for what memset64
\* stores, there is one, and the holes are so small that every usable page has
\* its bit in those stores.
LongEnough(r) == r.usable /\ r.length * PageSize >= size

RoomyMap ==
    /\ \A i \in DOMAIN map :
          LongEnough(map[i]) => map[i].length * PageSize >= Word * size
    /\ \E i \in DOMAIN map : LongEnough(map[i])
    /\ \A p \in UsablePages : p < Word * size * Bits

\* On such a machine PMM_init stores into usable memory only.
StoresInUsable == RoomyMap => written \subseteq UsablePages
=============================================================================
