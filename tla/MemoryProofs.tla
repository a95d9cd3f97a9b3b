---------------------------- MODULE MemoryProofs ----------------------------
(***************************************************************************)
(* Theorems about what memory holds once kmain has started: the bitmap of  *)
(* PMM, for every set of memory maps and all sizes of bytes, words and     *)
(* pages, and the records at address 0 of Boot, for every set of machines. *)
(***************************************************************************)
EXTENDS PMM, Boot, WellFoundedInduction, TLAPS

(* The natural numbers *)

\* Induction over the natural numbers, with a set for the property.
LEMMA SetInduction ==
    ASSUME NEW S, \A n \in Nat : (\A m \in 0..n - 1 : m \in S) => n \in S
    PROVE  Nat \subseteq S
<1> DEFINE Below == {p \in Nat \X Nat : p[1] < p[2]}
<1>1. OpToRel(<, Nat) = Below
  BY Zenon DEF OpToRel
<1>2. IsWellFoundedOn(Below, Nat)
  BY <1>1, NatLessThanWellFounded, Zenon
<1> SUFFICES ASSUME Nat \ S # {}
             PROVE  FALSE
  OBVIOUS
<1>3. PICK n \in Nat \ S : \A m \in Nat \ S : ~(<<m, n>> \in Below)
  <2> HIDE DEF Below
  <2>. QED
    BY <1>2, WFMin, Zenon
<1>4. ASSUME NEW m \in 0..n - 1
      PROVE  m \in S
  <2>1. m \in Nat /\ n \in Nat /\ m < n
    OBVIOUS
  <2>2. <<m, n>> \in Below
    BY <2>1, Zenon
  <2>. QED
    BY <1>3, <2>1, <2>2, Zenon
<1>. QED
  BY <1>4

\* The least of some numbers.
LEMMA Least ==
    ASSUME NEW S \in SUBSET Nat, S # {}
    PROVE  Min(S) \in S /\ \A k \in S : Min(S) <= k
<1>1. \E k \in S : \A j \in S : k <= j
  <2> SUFFICES ASSUME \A k \in S : ~(\A j \in S : k <= j)
               PROVE  FALSE
    OBVIOUS
  <2>1. ASSUME NEW n \in Nat, \A k \in 0..n - 1 : k \in Nat \ S
        PROVE  n \in Nat \ S
    BY <2>1
  <2>2. Nat \subseteq Nat \ S
    <3> HIDE <2>1
    <3>1. \A n \in Nat : (\A k \in 0..n - 1 : k \in Nat \ S) => n \in Nat \ S
      BY <2>1
    <3>. QED
      BY <3>1, SetInduction
  <2>. QED
    BY <2>2
<1>. QED
  BY <1>1 DEF Min

----------------------------------------------------------------------------
(* The page bitmap: the invariant *)

\* The regions PMM_init has already freed.
FreedSoFar ==
    /\ stage = "free" => \A i \in DOMAIN map :
          i < entry /\ map[i].usable => PagesOf(map[i]) \subseteq free
    /\ stage = "done" => UsablePages \subseteq free

\* A page is free because its region is usable, or because its byte is one of
\* those memset64 fills with 0.
Causes == \A p \in free : p \in UsablePages \/ (p \div Bits) % Word # 0

\* The bitmap is at the start of a region long enough for it, from the moment
\* the first such region has been passed.
Placed ==
    /\ at # NULL => \E i \in DOMAIN map : LongEnough(map[i]) /\ at = map[i].base
    /\ at = NULL => \A i \in DOMAIN map :
          LongEnough(map[i]) => stage = "place" /\ entry <= i

Inv ==
    /\ map \in Maps
    /\ TypeOK
    /\ FreedSoFar
    /\ Causes
    /\ Placed
    /\ StoresInUsable

----------------------------------------------------------------------------
(* The page bitmap: arithmetic *)

\* A quotient is below the bound its dividend is below.
LEMMA Quotient ==
    ASSUME NEW k \in Nat, NEW p \in Nat \ {0}, NEW l \in Nat, k < l * p
    PROVE  k \div p \in Nat /\ k \div p < l
OBVIOUS

\* The bytes from 0 to below n, at page page, are in the n \div PageSize pages
\* from there on.
LEMMA BytesInside ==
    ASSUME NEW page \in Nat, NEW n \in Nat, NEW l \in Nat, n <= l * PageSize
    PROVE  BytesAt(page, 0, n - 1) \subseteq page .. page + l - 1
<1> SUFFICES ASSUME NEW k \in 0 .. n - 1
             PROVE  page + k \div PageSize \in page .. page + l - 1
  BY DEF BytesAt
<1>1. k \in Nat /\ k < l * PageSize
  BY SizesAssumption
<1>2. k \div PageSize \in Nat /\ k \div PageSize < l
  BY <1>1, Quotient, SizesAssumption
<1> QED
  BY <1>2

\* The memory map of a machine.
LEMMA MapFacts ==
    ASSUME map \in Maps
    PROVE  /\ Len(map) \in Nat /\ DOMAIN map = 1 .. Len(map)
           /\ \A i \in DOMAIN map :
                 /\ map[i].base \in Nat /\ map[i].length \in Nat \ {0}
                 /\ map[i].usable \in BOOLEAN
                 /\ PagesOf(map[i]) \subseteq Nat
                 /\ map[i].usable =>
                       /\ map[i].base \in UsablePages /\ map[i].base # NULL
                       /\ PagesOf(map[i]) \subseteq UsablePages
<1>1. map \in Seq(Regions)
  BY MapsAssumption
<1>2. Len(map) \in Nat /\ DOMAIN map = 1 .. Len(map)
  BY <1>1
<1>3. ASSUME NEW i \in DOMAIN map
      PROVE  /\ map[i].base \in Nat /\ map[i].length \in Nat \ {0}
             /\ map[i].usable \in BOOLEAN
             /\ PagesOf(map[i]) \subseteq Nat
             /\ map[i].base \in PagesOf(map[i])
  <2>1. map[i] \in Regions
    BY <1>1, <1>2
  <2> QED
    BY <2>1 DEF Regions, PagesOf
<1>4. ASSUME NEW i \in DOMAIN map, map[i].usable
      PROVE  map[i].base # NULL /\ PagesOf(map[i]) \subseteq UsablePages
  BY <1>3, <1>4, MapsAssumption DEF NULL, UsablePages
<1> QED
  BY <1>2, <1>3, <1>4

----------------------------------------------------------------------------
(* The page bitmap: the sum of the regions *)

\* total is the function PhysMem defines for the first n regions of m.
Sums(total, m, n) ==
    total = [k \in 0..n |-> IF k = 0 THEN 0 ELSE total[k - 1] + m[k].length]

LEMMA SumsExists ==
    ASSUME NEW m, Len(m) \in Nat
    PROVE  \E total : Sums(total, m, Len(m))
<1> DEFINE S == {n \in Nat : \E total : Sums(total, m, n)}
<1>1. ASSUME NEW n \in Nat, \A k \in 0..n - 1 : k \in S
      PROVE  \E total : Sums(total, m, n)
  <2>1. CASE n = 0
    <3> DEFINE f == [k \in 0..n |-> 0]
    <3>1. ASSUME NEW k \in 0..n
          PROVE  f[k] = IF k = 0 THEN 0 ELSE f[k - 1] + m[k].length
      BY <2>1
    <3>2. f = [k \in 0..n |-> IF k = 0 THEN 0 ELSE f[k - 1] + m[k].length]
      BY <3>1, Zenon
    <3>. QED
      BY <3>2, Zenon DEF Sums
  <2>2. CASE n # 0
    <3>1. n - 1 \in 0..n - 1
      BY <2>2
    <3>2. PICK g : Sums(g, m, n - 1)
      BY <1>1, <3>1
    <3> DEFINE f == [k \in 0..n |-> IF k < n THEN g[k] ELSE g[n - 1] + m[n].length]
    <3>3. ASSUME NEW k \in 0..n
          PROVE  f[k] = IF k = 0 THEN 0 ELSE f[k - 1] + m[k].length
      <4>1. CASE k < n
        <5>1. k \in 0..n - 1 /\ (k # 0 => k - 1 \in 0..n /\ k - 1 < n)
          BY <4>1
        <5>2. g[k] = IF k = 0 THEN 0 ELSE g[k - 1] + m[k].length
          BY <3>2, <5>1 DEF Sums
        <5>3. f[k] = g[k] /\ (k # 0 => f[k - 1] = g[k - 1])
          BY <4>1, <5>1
        <5> HIDE DEF f
        <5>. QED
          BY <5>2, <5>3
      <4>2. CASE k = n
        <5>1. f[k] = g[n - 1] + m[n].length /\ f[k - 1] = g[n - 1]
          BY <2>2, <4>2
        <5> HIDE DEF f
        <5>. QED
          BY <2>2, <4>2, <5>1
      <4>. QED
        BY <4>1, <4>2
    <3>4. f = [k \in 0..n |-> IF k = 0 THEN 0 ELSE f[k - 1] + m[k].length]
      BY <3>3, Zenon
    <3>. QED
      BY <3>4, Zenon DEF Sums
  <2>. QED
    BY <2>1, <2>2
<1>2. Nat \subseteq S
  <2>1. ASSUME NEW n \in Nat, \A k \in 0..n - 1 : k \in S
        PROVE  n \in S
    BY <1>1, <2>1
  <2> HIDE DEF S
  <2>. QED
    BY <2>1, SetInduction
<1>. QED
  BY <1>2

\* phys_mem is the sum of the lengths, region after region.
LEMMA PhysMemSum ==
    ASSUME NEW m \in Seq(Regions)
    PROVE  \E total : /\ Sums(total, m, Len(m)) /\ PhysMem(m) = total[Len(m)]
                      /\ \A k \in 0..Len(m) : total[k] \in Nat
<1> DEFINE t == CHOOSE f : Sums(f, m, Len(m))
<1>1. Sums(t, m, Len(m))
  <2>1. Len(m) \in Nat
    OBVIOUS
  <2>. QED
    BY <2>1, SumsExists, Zenon
<1>2. PhysMem(m) = t[Len(m)]
  BY Zenon DEF PhysMem, Sums
<1> HIDE DEF t
<1> DEFINE S == {k \in Nat : k <= Len(m) => t[k] \in Nat}
<1>3. ASSUME NEW k \in Nat, \A j \in 0..k - 1 : j \in S
      PROVE  k \in S
  <2> SUFFICES ASSUME k <= Len(m)
               PROVE  t[k] \in Nat
    OBVIOUS
  <2>1. k \in 0..Len(m)
    OBVIOUS
  <2>2. t[k] = IF k = 0 THEN 0 ELSE t[k - 1] + m[k].length
    BY <1>1, <2>1 DEF Sums
  <2>3. ASSUME k # 0
        PROVE  t[k - 1] \in Nat /\ m[k].length \in Nat
    <3>1. k \in 1..Len(m) /\ k - 1 \in 0..k - 1
      BY <2>1, <2>3
    <3>2. m[k] \in Regions
      BY <3>1
    <3>3. t[k - 1] \in Nat
      BY <1>3, <3>1
    <3>. QED
      BY <3>2, <3>3 DEF Regions
  <2>. QED
    BY <2>2, <2>3
<1>4. Nat \subseteq S
  <2> HIDE DEF S
  <2>. QED
    BY <1>3, SetInduction
<1>. QED
  BY <1>1, <1>2, <1>4

----------------------------------------------------------------------------
(* The page bitmap: every step preserves the invariant *)

\* PMM_init starts within the invariant.
LEMMA InitInv == Init => Inv
<1> SUFFICES ASSUME Init PROVE Inv
  OBVIOUS
<1>1. map \in Maps
  BY DEF Init
<1>2. size \in Nat
  <2>1. map \in Seq(Regions) /\ Len(map) \in 0..Len(map)
    BY <1>1, MapsAssumption
  <2>2. PhysMem(map) \in Nat
    BY <2>1, PhysMemSum
  <2>. QED
    BY <2>2, SizesAssumption DEF Init
<1>3. TypeOK
  BY <1>1, <1>2, MapFacts DEF Init, TypeOK
<1>4. Placed
  BY <1>1, MapFacts DEF Init, Placed
<1> QED
  BY <1>1, <1>3, <1>4 DEF Init, Inv, FreedSoFar, Causes, StoresInUsable

\* One turn of the first loop.
LEMMA PlaceInv == Inv /\ Place => Inv'
<1> SUFFICES ASSUME Inv, Place PROVE Inv'
  OBVIOUS
<1>1. /\ map \in Maps /\ size \in Nat /\ entry \in DOMAIN map
      /\ stage = "place" /\ UNCHANGED <<stage, map, size>> /\ entry' = entry + 1
  BY MapFacts DEF Inv, TypeOK, Place
<1>2. entry' \in 1 .. Len(map') + 1 /\ UsablePages' = UsablePages
  BY <1>1, MapFacts DEF UsablePages
<1>3. CASE ~Fits(map[entry])
  <2>1. UNCHANGED <<at, free, written>>
    BY <1>3 DEF Place
  <2>2. ~LongEnough(map[entry])
    BY <1>3 DEF Fits, LongEnough
  <2>3. TypeOK'
    BY <1>1, <1>2, <2>1 DEF Inv, TypeOK
  <2>4. Placed'
    BY <1>1, <2>1, <2>2, MapFacts DEF Inv, Placed, LongEnough, TypeOK
  <2>5. Causes' /\ FreedSoFar'
    BY <1>1, <1>2, <2>1 DEF Inv, Causes, FreedSoFar
  <2>6. StoresInUsable'
    BY <1>1, <1>2, <2>1 DEF Inv, StoresInUsable, RoomyMap, LongEnough
  <2> QED
    BY <1>1, <2>3, <2>4, <2>5, <2>6 DEF Inv
<1>4. CASE Fits(map[entry])
  <2>1. /\ at' = map[entry].base
        /\ free' = {p \in 0 .. Word * size * Bits - 1 : (p \div Bits) % Word # 0}
        /\ written' = written \cup BytesAt(map[entry].base, 0, Word * size - 1)
    BY <1>4 DEF Place
  <2>2. LongEnough(map[entry]) /\ map[entry].usable
    BY <1>4 DEF Fits, LongEnough
  <2>3. /\ at' \in UsablePages /\ at' # NULL /\ at' \in Nat
        /\ map[entry].length \in Nat
    BY <1>1, <2>1, <2>2, MapFacts
  <2>4. free' \subseteq Nat
    BY <2>1
  <2>5. Word * size \in Nat
    BY <1>1, SizesAssumption
  <2>6. BytesAt(map[entry].base, 0, Word * size - 1) \subseteq Nat
    BY <2>1, <2>3, <2>5, SizesAssumption DEF BytesAt
  <2>7. TypeOK'
    BY <1>1, <1>2, <2>1, <2>3, <2>4, <2>6 DEF Inv, TypeOK
  <2>8. Placed'
    BY <1>1, <2>1, <2>2, <2>3 DEF Placed, LongEnough
  <2>9. Causes' /\ FreedSoFar'
    BY <1>1, <2>1 DEF Causes, FreedSoFar
  <2>10. StoresInUsable'
    <3> SUFFICES ASSUME RoomyMap' PROVE written' \subseteq UsablePages
      BY <1>2 DEF StoresInUsable
    <3>1. RoomyMap
      BY <1>1, <1>2 DEF RoomyMap, LongEnough
    <3>2. Word * size <= map[entry].length * PageSize
      BY <1>1, <2>2, <2>3, <2>5, <3>1, SizesAssumption DEF RoomyMap
    <3>3. BytesAt(map[entry].base, 0, Word * size - 1) \subseteq PagesOf(map[entry])
      BY <2>1, <2>3, <2>5, <3>2, BytesInside DEF PagesOf
    <3> QED
      BY <1>1, <2>1, <2>2, <3>1, <3>3, MapFacts DEF Inv, StoresInUsable
  <2> QED
    BY <1>1, <2>7, <2>8, <2>9, <2>10 DEF Inv
<1> QED
  BY <1>3, <1>4

\* Leaving the first loop keeps the invariant.
LEMMA EndPlaceInv == Inv /\ EndPlace => Inv'
<1> SUFFICES ASSUME Inv, EndPlace PROVE Inv'
  OBVIOUS
<1>1. /\ map \in Maps /\ stage = "place" /\ entry > Len(map)
      /\ stage' = "free" /\ entry' = 1 /\ UNCHANGED <<map, size, at, free, written>>
  BY DEF Inv, EndPlace
<1>2. TypeOK'
  BY <1>1, MapFacts DEF Inv, TypeOK, UsablePages
<1>3. FreedSoFar'
  BY <1>1, MapFacts DEF FreedSoFar
<1>4. Placed'
  BY <1>1, MapFacts DEF Inv, Placed, LongEnough, TypeOK
<1>5. Causes' /\ StoresInUsable'
  BY <1>1 DEF Inv, Causes, StoresInUsable, RoomyMap, UsablePages, LongEnough
<1> QED
  BY <1>1, <1>2, <1>3, <1>4, <1>5 DEF Inv

\* One turn of the second loop.
LEMMA FreeInv == Inv /\ Free => Inv'
<1> SUFFICES ASSUME Inv, Free PROVE Inv'
  OBVIOUS
<1>1. /\ map \in Maps /\ size \in Nat /\ entry \in DOMAIN map /\ entry \in Nat
      /\ stage = "free" /\ UNCHANGED <<stage, map, size, at>> /\ entry' = entry + 1
  BY MapFacts DEF Inv, TypeOK, Free
<1>2. entry' \in 1 .. Len(map') + 1 /\ UsablePages' = UsablePages
  BY <1>1, MapFacts DEF UsablePages
<1>3. Placed'
  BY <1>1 DEF Inv, Placed, LongEnough
<1>4. CASE ~map[entry].usable
  <2>1. UNCHANGED <<free, written>>
    BY <1>4 DEF Free
  <2>2. TypeOK' /\ Causes'
    BY <1>1, <1>2, <2>1 DEF Inv, TypeOK, Causes
  <2>3. FreedSoFar'
    BY <1>1, <1>4, <2>1, MapFacts DEF Inv, FreedSoFar, PagesOf
  <2>4. StoresInUsable'
    BY <1>1, <1>2, <2>1 DEF Inv, StoresInUsable, RoomyMap, LongEnough
  <2> QED
    BY <1>1, <1>3, <2>2, <2>3, <2>4 DEF Inv
<1>5. CASE map[entry].usable
  <2> DEFINE cleared == PagesOf(map[entry])
             stored == {at + (p \div Bits) \div PageSize : p \in cleared}
  <2>1. free' = free \cup cleared /\ written' = written \cup stored
    BY <1>5 DEF Free, PagesOf, bitmap_free_region
  <2>2. cleared \subseteq UsablePages /\ cleared \subseteq Nat
    BY <1>1, <1>5, MapFacts
  <2>3. at \in Nat
    BY <1>1, MapFacts DEF Inv, TypeOK, UsablePages, NULL
  <2>4. ASSUME NEW p \in cleared
        PROVE  p \div Bits \in Nat /\ at + (p \div Bits) \div PageSize \in Nat
    <3>1. p \in Nat
      BY <2>2
    <3>2. p \div Bits \in Nat
      BY <3>1, SizesAssumption
    <3>3. (p \div Bits) \div PageSize \in Nat
      BY <3>2, SizesAssumption
    <3> QED
      BY <2>3, <3>2, <3>3
  <2>5. free' \subseteq Nat /\ written' \subseteq Nat
    BY <2>1, <2>2, <2>4 DEF Inv, TypeOK
  <2>6. TypeOK'
    BY <1>1, <1>2, <2>5 DEF Inv, TypeOK
  <2>7. Causes'
    BY <1>1, <1>2, <2>1, <2>2 DEF Inv, Causes
  <2>8. FreedSoFar'
    <3> SUFFICES ASSUME NEW i \in DOMAIN map, i < entry + 1, map[i].usable
                 PROVE  PagesOf(map[i]) \subseteq free'
      BY <1>1 DEF FreedSoFar, PagesOf
    <3>1. i \in Nat
      BY <1>1, MapFacts
    <3>2. CASE i = entry
      BY <2>1, <3>2
    <3>3. CASE i < entry
      BY <1>1, <2>1, <3>3 DEF Inv, FreedSoFar
    <3> QED
      BY <1>1, <3>1, <3>2, <3>3
  <2>9. StoresInUsable'
    <3> SUFFICES ASSUME RoomyMap' PROVE written' \subseteq UsablePages
      BY <1>2 DEF StoresInUsable
    <3>1. RoomyMap
      BY <1>1, <1>2 DEF RoomyMap, LongEnough
    <3>2. PICK i \in DOMAIN map : LongEnough(map[i]) /\ at = map[i].base
      BY <1>1, <3>1 DEF Inv, Placed, RoomyMap
    <3>3. Word * size <= map[i].length * PageSize
      BY <3>1, <3>2 DEF RoomyMap
    <3>4. Word * size \in Nat /\ map[i].length \in Nat /\ PagesOf(map[i]) \subseteq UsablePages
      BY <1>1, <3>2, SizesAssumption, MapFacts DEF LongEnough
    <3>5. ASSUME NEW p \in cleared
          PROVE  at + (p \div Bits) \div PageSize \in PagesOf(map[i])
      <4>1. p \in Nat /\ p < (Word * size) * Bits
        BY <2>2, <3>1 DEF RoomyMap
      <4>2. p \div Bits \in Nat /\ p \div Bits < Word * size
        BY <3>4, <4>1, Quotient, SizesAssumption
      <4>3. map[i].length * PageSize \in Nat
        BY <3>4, SizesAssumption
      <4>4. p \div Bits < map[i].length * PageSize
        BY <3>3, <3>4, <4>2, <4>3
      <4>5. /\ (p \div Bits) \div PageSize \in Nat
            /\ (p \div Bits) \div PageSize < map[i].length
        BY <3>4, <4>2, <4>4, Quotient, SizesAssumption
      <4> QED
        BY <2>3, <3>2, <3>4, <4>5 DEF PagesOf
    <3> QED
      BY <2>1, <3>1, <3>4, <3>5 DEF Inv, StoresInUsable
  <2> QED
    BY <1>1, <1>3, <2>6, <2>7, <2>8, <2>9 DEF Inv
<1> QED
  BY <1>4, <1>5

\* Leaving the second loop keeps the invariant.
LEMMA EndFreeInv == Inv /\ EndFree => Inv'
<1> SUFFICES ASSUME Inv, EndFree PROVE Inv'
  OBVIOUS
<1>1. /\ map \in Maps /\ stage = "free" /\ entry > Len(map) /\ entry \in Nat
      /\ stage' = "done" /\ UNCHANGED <<entry, map, size, at, free, written>>
  BY MapFacts DEF Inv, EndFree, TypeOK
<1>2. TypeOK' /\ Placed' /\ Causes' /\ StoresInUsable'
  BY <1>1 DEF Inv, TypeOK, Placed, Causes, StoresInUsable, RoomyMap, UsablePages, LongEnough
<1>3. FreedSoFar'
  BY <1>1, MapFacts DEF Inv, FreedSoFar, UsablePages
<1> QED
  BY <1>1, <1>2, <1>3 DEF Inv

\* So does a step that changes nothing.
LEMMA StutterInv == Inv /\ UNCHANGED vars => Inv'
BY DEF Inv, vars, TypeOK, FreedSoFar, Placed, Causes, StoresInUsable, RoomyMap,
       UsablePages, LongEnough

\* The invariant holds throughout.
LEMMA Invariance == Spec => []Inv
<1>1. Inv /\ [Next]_vars => Inv'
  BY PlaceInv, EndPlaceInv, FreeInv, EndFreeInv, StutterInv DEF Next, Done
<1> QED
  BY InitInv, <1>1, PTL DEF Spec

----------------------------------------------------------------------------
(* The page bitmap: the theorems *)

\* The state of PMM_init is well typed; the bitmap is in no reserved page.
THEOREM TypeCorrect == Spec => []TypeOK
<1>1. Inv => TypeOK
  BY DEF Inv
<1> QED
  BY Invariance, <1>1, PTL

\* Every usable page the bitmap tracks is free when PMM_init ends, for any
\* number and order of regions.
THEOREM AllUsableFreed == Spec => []UsableFreed
<1>1. Inv => UsableFreed
  BY DEF Inv, FreedSoFar, UsableFreed
<1> QED
  BY Invariance, <1>1, PTL

\* bitmap_free_region frees no page that is not usable.
THEOREM ReservedStaysUsed == Spec => []ReservedKept
<1>1. Inv => ReservedKept
  BY DEF Inv, Causes, ReservedKept
<1> QED
  BY Invariance, <1>1, PTL

\* On a roomy map both loops of PMM_init store into usable memory only.
THEOREM StoresStayInside == Spec => []StoresInUsable
<1>1. Inv => StoresInUsable
  BY DEF Inv
<1> QED
  BY Invariance, <1>1, PTL

\* The regions follow one another from page 0 on.
NoHoles(m) ==
    \A i \in DOMAIN m : m[i].base = IF i = 1 THEN 0 ELSE m[i - 1].base + m[i - 1].length

\* PMM_init sizes the bitmap by the sum of the regions: that is enough on every
\* map without holes (and whole bytes of pages), where each usable page has its bit
\* in it and every bit bitmap_free_region clears is inside.
SizedForAllPages ==
    NoHoles(map) /\ PhysMem(map) % Bits = 0 => UsablePages \subseteq Tracked

THEOREM WithoutHoles == Spec => []SizedForAllPages
<1>1. ASSUME map \in Maps, NoHoles(map)
      PROVE  PhysMem(map) \in Nat /\ UsablePages \subseteq 0..PhysMem(map) - 1
  <2>1. map \in Seq(Regions) /\ Len(map) \in Nat /\ DOMAIN map = 1..Len(map)
    BY <1>1, MapsAssumption
  <2>2. PICK t : /\ Sums(t, map, Len(map)) /\ PhysMem(map) = t[Len(map)]
                 /\ \A k \in 0..Len(map) : t[k] \in Nat
    BY <2>1, PhysMemSum
  <2>3. \A i \in DOMAIN map : map[i].base \in Nat /\ map[i].length \in Nat
    BY <1>1, MapFacts
  <2> DEFINE S == {k \in Nat : k \in 1..Len(map) => t[k] = map[k].base + map[k].length}
  <2>4. ASSUME NEW k \in Nat, \A j \in 0..k - 1 : j \in S
        PROVE  k \in S
    <3> SUFFICES ASSUME k \in 1..Len(map)
                 PROVE  t[k] = map[k].base + map[k].length
      OBVIOUS
    <3>1. k \in 0..Len(map) /\ k - 1 \in 0..k - 1 /\ k # 0
      BY <2>1
    <3>2. t[k] = t[k - 1] + map[k].length
      BY <2>2, <3>1 DEF Sums
    <3>3. map[k].base = IF k = 1 THEN 0 ELSE map[k - 1].base + map[k - 1].length
      BY <1>1, <2>1 DEF NoHoles
    <3>4. CASE k = 1
      <4>1. t[0] = 0
        BY <2>1, <2>2 DEF Sums
      <4>. QED
        BY <3>2, <3>3, <3>4, <4>1
    <3>5. CASE k # 1
      <4>1. k - 1 \in 1..Len(map)
        BY <2>1, <3>5
      <4>2. t[k - 1] = map[k - 1].base + map[k - 1].length
        BY <2>4, <3>1, <4>1
      <4>. QED
        BY <3>2, <3>3, <3>5, <4>2
    <3>. QED
      BY <3>4, <3>5
  <2>5. \A k \in 1..Len(map) : t[k] = map[k].base + map[k].length
    <3>1. Nat \subseteq S
      <4> HIDE DEF S
      <4>. QED
        BY <2>4, SetInduction
    <3>. QED
      BY <2>1, <3>1
  <2>6. PhysMem(map) \in Nat
    BY <2>1, <2>2
  <2>7. ASSUME NEW i \in DOMAIN map, NEW p \in PagesOf(map[i])
        PROVE  p \in 0..PhysMem(map) - 1
    <3>1. p \in Nat /\ p < map[i].base + map[i].length
      BY <2>3, <2>7 DEF PagesOf
    <3>2. Len(map) \in DOMAIN map /\ i \in Nat /\ i <= Len(map)
      BY <2>1
    <3>3. PhysMem(map) = map[Len(map)].base + map[Len(map)].length
      BY <2>1, <2>2, <2>5, <3>2
    <3>4. i < Len(map) => map[i].base + map[i].length <= map[Len(map)].base
      BY <1>1, <3>2, MapsAssumption
    <3>. QED
      BY <2>3, <2>6, <3>1, <3>2, <3>3, <3>4
  <2>. QED
    BY <2>6, <2>7 DEF UsablePages
<1>2. ASSUME NEW n \in Nat, n % Bits = 0
      PROVE  n = Bits * (n \div Bits)
  BY <1>2, SizesAssumption
<1>3. Init => map \in Maps /\ size = PhysMem(map) \div Bits
  BY DEF Init
<1>4. map \in Maps /\ size = PhysMem(map) \div Bits => SizedForAllPages
  BY <1>1, <1>2 DEF SizedForAllPages, Tracked
<1>5. UNCHANGED <<map, size>> /\ map \in Maps /\ size = PhysMem(map) \div Bits
      => (map \in Maps /\ size = PhysMem(map) \div Bits)'
  OBVIOUS
<1>6. [Next]_vars => UNCHANGED <<map, size>>
  BY DEF Next, vars, Place, EndPlace, Free, EndFree, Done
<1>. QED
  BY <1>3, <1>4, <1>5, <1>6, PTL DEF Spec

----------------------------------------------------------------------------
(* The records: which access is where *)

\* Who writes or reads a record.
Writers == {"firmware", "cpu", "pmm", "pci", "acpi"}

Accesses ==
    [op : {"write"}, who : Writers, offset : Offsets, value : Int]
    \cup [op : {"read"}, who : Writers, offset : Offsets]
    \cup [op : {"find"}]

\* Where the accesses of CPU_init, PMM_init and PCI_init end, and that of
\* ACPI_init's version.
CpuEnd(m) == Len(CPU_init(m))
PmmEnd(m) == CpuEnd(m) + Len(PMM_init(m))
PciEnd(m) == PmmEnd(m) + Len(PCI_init(m))
VersionEnd(m) == PciEnd(m) + Len(VersionWrite(m))

\* acpi_info->version, for the revisions it is set for.
Version(m) == IF m.revision = 0 THEN 1 ELSE m.revision

\* What the assumption says of one machine.
LEMMA BootMachine ==
    ASSUME NEW m \in Machines
    PROVE  /\ m.tags \in Seq(TagIds) /\ Len(m.tags) \in Nat \ {0}
           /\ DOMAIN m.tags = 1..Len(m.tags)
           /\ m.hypervisor \in BOOLEAN /\ m.bitmapAtZero \in BOOLEAN
           /\ m.devices \in BOOLEAN /\ m.rootOk \in BOOLEAN
           /\ m.revision \in 0..255
           /\ m.tables \in Seq([facp : BOOLEAN, ok : BOOLEAN])
<1>1. m.tags \in Seq(TagIds) /\ m.tags # <<>>
  BY MachinesAssumption
<1>. QED
  BY <1>1, MachinesAssumption

\* One sequence behind another.
LEMMA Behind ==
    ASSUME NEW S, NEW a \in Seq(S), NEW b \in Seq(S)
    PROVE  /\ a \o b \in Seq(S) /\ Len(a \o b) = Len(a) + Len(b)
           /\ Len(a) \in Nat /\ Len(b) \in Nat
           /\ \A p \in 1..Len(a) + Len(b) :
                 (a \o b)[p] = IF p <= Len(a) THEN a[p] ELSE b[p - Len(a)]
OBVIOUS

LEMMA ReadsAndWrites ==
    /\ Find \in Accesses /\ Find.op = "find"
    /\ \A who \in Writers, o \in Offsets :
          /\ Read(who, o) \in Accesses /\ Read(who, o).op = "read"
          /\ Read(who, o).who = who /\ Read(who, o).offset = o
          /\ \A v \in Int :
                /\ Write(who, o, v) \in Accesses /\ Write(who, o, v).op = "write"
                /\ Write(who, o, v).who = who /\ Write(who, o, v).offset = o
                /\ Write(who, o, v).value = v
BY DEF Find, Read, Write, Accesses

LEMMA Names ==
    /\ "cpu" \in Writers /\ "pmm" \in Writers /\ "pci" \in Writers /\ "acpi" \in Writers
    /\ 0 \in Offsets /\ 8 \in Offsets /\ 16 \in Offsets /\ 24 \in Offsets
    /\ Unknown \in Int /\ Null \in Int
BY DEF Writers, Offsets, Unknown, Null

LEMMA CpuAccesses ==
    ASSUME NEW m \in Machines
    PROVE  /\ CPU_init(m) \in Seq(Accesses) /\ Len(CPU_init(m)) \in {6, 8}
           /\ \A p \in 1..Len(CPU_init(m)) :
                 /\ CPU_init(m)[p].who = "cpu"
                 /\ CPU_init(m)[p].op = IF p \in {1, 2, 3, 7} THEN "write" ELSE "read"
                 /\ CPU_init(m)[p].offset =
                       IF p \in {1, 5} THEN 0 ELSE IF p \in {2, 6} THEN 8
                       ELSE IF p \in {3, 4} THEN 24 ELSE 16
<1> DEFINE always == <<Write("cpu", 0, Unknown), Write("cpu", 8, Unknown),
                       Write("cpu", 24, Unknown),
                       Read("cpu", 24), Read("cpu", 0), Read("cpu", 8)>>
           guest == <<Write("cpu", 16, Unknown), Read("cpu", 16)>>
           more == IF m.hypervisor THEN guest ELSE <<>>
<1>1. CPU_init(m) = always \o more
  BY Zenon DEF CPU_init
<1>2. /\ always \in Seq(Accesses) /\ Len(always) = 6
      /\ \A p \in 1..6 : /\ always[p].who = "cpu"
                         /\ always[p].op = IF p \in {1, 2, 3} THEN "write" ELSE "read"
                         /\ always[p].offset = IF p \in {1, 5} THEN 0 ELSE IF p \in {2, 6} THEN 8
                                               ELSE 24
  BY ReadsAndWrites, Names
<1>3. /\ guest \in Seq(Accesses) /\ Len(guest) = 2
      /\ \A p \in 1..2 : /\ guest[p].who = "cpu" /\ guest[p].offset = 16
                         /\ guest[p].op = IF p = 1 THEN "write" ELSE "read"
  BY ReadsAndWrites, Names
<1> HIDE DEF always, guest
<1>4. /\ more \in Seq(Accesses) /\ Len(more) \in {0, 2}
      /\ \A p \in 1..Len(more) : /\ more[p].who = "cpu" /\ more[p].offset = 16
                                 /\ more[p].op = IF p = 1 THEN "write" ELSE "read"
  <2>1. CASE m.hypervisor
    BY <1>3, <2>1
  <2>2. CASE ~m.hypervisor
    BY <2>2
  <2>. QED
    BY <2>1, <2>2
<1> HIDE DEF more
<1>5. /\ CPU_init(m) \in Seq(Accesses) /\ Len(CPU_init(m)) = 6 + Len(more)
      /\ \A p \in 1..Len(CPU_init(m)) :
            CPU_init(m)[p] = IF p <= 6 THEN always[p] ELSE more[p - 6]
  <2>1. always \in Seq(Accesses) /\ more \in Seq(Accesses)
    BY <1>2, <1>4
  <2>2. /\ always \o more \in Seq(Accesses) /\ Len(always \o more) = Len(always) + Len(more)
        /\ \A p \in 1..Len(always) + Len(more) :
              (always \o more)[p] = IF p <= Len(always) THEN always[p] ELSE more[p - Len(always)]
    BY <2>1, Behind
  <2>. QED
    BY <1>1, <1>2, <2>2
<1>6. ASSUME NEW p \in 1..Len(CPU_init(m))
      PROVE  /\ CPU_init(m)[p].who = "cpu"
             /\ CPU_init(m)[p].op = IF p \in {1, 2, 3, 7} THEN "write" ELSE "read"
             /\ CPU_init(m)[p].offset =
                   IF p \in {1, 5} THEN 0 ELSE IF p \in {2, 6} THEN 8
                   ELSE IF p \in {3, 4} THEN 24 ELSE 16
  <2>1. CASE p <= 6
    BY <1>2, <1>5, <2>1
  <2>2. CASE p > 6
    <3>1. p - 6 \in 1..Len(more) /\ CPU_init(m)[p] = more[p - 6]
      BY <1>4, <1>5, <2>2
    <3>. QED
      BY <1>4, <2>2, <3>1
  <2>. QED
    BY <1>4, <1>5, <2>1, <2>2
<1>7. CPU_init(m) \in Seq(Accesses) /\ Len(CPU_init(m)) \in {6, 8}
  BY <1>4, <1>5
<1>. QED
  BY <1>6, <1>7

LEMMA PmmAccesses ==
    ASSUME NEW m \in Machines
    PROVE  /\ PMM_init(m) \in Seq(Accesses) /\ Len(PMM_init(m)) \in {0, 8}
           /\ \A p \in 1..Len(PMM_init(m)) :
                 /\ PMM_init(m)[p].who = "pmm"
                 /\ PMM_init(m)[p].op = IF p \in {2, 4, 6, 8} THEN "write" ELSE "read"
                 /\ PMM_init(m)[p].offset =
                       IF p \in {1, 2} THEN 0 ELSE IF p \in {3, 4} THEN 8
                       ELSE IF p \in {5, 6} THEN 16 ELSE 24
<1> DEFINE eight == <<Read("pmm", 0), Write("pmm", 0, Unknown),
                      Read("pmm", 8), Write("pmm", 8, Unknown),
                      Read("pmm", 16), Write("pmm", 16, Unknown),
                      Read("pmm", 24), Write("pmm", 24, Unknown)>>
<1>1. PMM_init(m) = IF ~m.bitmapAtZero THEN <<>> ELSE eight
  BY Zenon DEF PMM_init
<1>2. /\ eight \in Seq(Accesses) /\ Len(eight) = 8
      /\ \A p \in 1..8 : /\ eight[p].who = "pmm"
                         /\ eight[p].op = IF p \in {2, 4, 6, 8} THEN "write" ELSE "read"
                         /\ eight[p].offset = IF p \in {1, 2} THEN 0 ELSE IF p \in {3, 4} THEN 8
                                               ELSE IF p \in {5, 6} THEN 16 ELSE 24
  BY ReadsAndWrites, Names
<1> HIDE DEF eight
<1>3. CASE ~m.bitmapAtZero
  BY <1>1, <1>3
<1>4. CASE ~(~m.bitmapAtZero)
  <2>1. PMM_init(m) = eight
    BY <1>1, <1>4
  <2>. QED
    BY <1>2, <2>1
<1>. QED
  BY <1>3, <1>4

LEMMA PciAccesses ==
    ASSUME NEW m \in Machines
    PROVE  /\ PCI_init(m) \in Seq(Accesses) /\ Len(PCI_init(m)) = IF m.devices THEN 6 ELSE 0
           /\ \A p \in 1..Len(PCI_init(m)) :
                 /\ PCI_init(m)[p].who = "pci"
                 /\ PCI_init(m)[p].op = IF p \in 1..4 THEN "write" ELSE "read"
                 /\ PCI_init(m)[p].offset =
                       IF p \in {1, 5} THEN 0 ELSE IF p \in {2, 6} THEN 8
                       ELSE IF p = 3 THEN 16 ELSE 24
                 /\ p = 3 => PCI_init(m)[p].value = Null
<1> DEFINE first == <<Write("pci", 0, Unknown), Write("pci", 8, Unknown),
                      Write("pci", 16, Null), Write("pci", 24, 0),
                      Read("pci", 0), Read("pci", 8)>>
<1>1. PCI_init(m) = IF ~m.devices THEN <<>> ELSE first
  BY Zenon DEF PCI_init
<1>2. /\ first \in Seq(Accesses) /\ Len(first) = 6
      /\ \A p \in 1..6 : /\ first[p].who = "pci"
                         /\ first[p].op = IF p \in 1..4 THEN "write" ELSE "read"
                         /\ first[p].offset = IF p \in {1, 5} THEN 0 ELSE IF p \in {2, 6} THEN 8
                                               ELSE IF p = 3 THEN 16 ELSE 24
      /\ first[3].value = Null
  BY ReadsAndWrites, Names
<1> HIDE DEF first
<1>3. CASE ~m.devices
  BY <1>1, <1>3
<1>4. CASE ~(~m.devices)
  <2>1. PCI_init(m) = first
    BY <1>1, <1>4
  <2>2. Len(PCI_init(m)) = IF m.devices THEN 6 ELSE 0
    BY <1>2, <1>4, <2>1
  <2>. QED
    BY <1>2, <2>1, <2>2
<1>. QED
  BY <1>3, <1>4

LEMMA VersionAccess ==
    ASSUME NEW m \in Machines
    PROVE  /\ VersionWrite(m) \in Seq(Accesses)
           /\ Len(VersionWrite(m)) = IF m.revision <= 2 THEN 1 ELSE 0
           /\ m.revision <= 2 => VersionWrite(m)[1] = Write("acpi", 24, Version(m))
<1>1. m.revision \in 0..255
  BY BootMachine
<1>2. CASE m.revision <= 2
  <2>1. VersionWrite(m) = <<Write("acpi", 24, Version(m))>>
    BY <1>1, <1>2 DEF VersionWrite, Version
  <2>2. Write("acpi", 24, Version(m)) \in Accesses
    BY <1>1 DEF Write, Version, Accesses, Writers, Offsets
  <2>. QED
    BY <1>2, <2>1, <2>2
<1>3. CASE ~(m.revision <= 2)
  BY <1>1, <1>3 DEF VersionWrite
<1>. QED
  BY <1>2, <1>3

\* What ACPI_init does behind its version.
Search(m) ==
    IF RootRefused(m) THEN <<>>
    ELSE <<Read("acpi", 24), Find, Read("acpi", 24),
           Write("acpi", 0, Unknown), Write("acpi", 8, Unknown), Write("acpi", 16, Unknown)>>

LEMMA SearchAccesses ==
    ASSUME NEW m \in Machines
    PROVE  /\ Search(m) \in Seq(Accesses) /\ Len(Search(m)) = IF RootRefused(m) THEN 0 ELSE 6
           /\ \A p \in 1..Len(Search(m)) :
                 /\ Search(m)[p].op = IF p = 2 THEN "find"
                                      ELSE IF p \in {1, 3} THEN "read" ELSE "write"
                 /\ p # 2 => /\ Search(m)[p].who = "acpi"
                             /\ Search(m)[p].offset = IF p \in {1, 3} THEN 24 ELSE IF p = 4 THEN 0
                                                      ELSE IF p = 5 THEN 8 ELSE 16
<1> DEFINE six == <<Read("acpi", 24), Find, Read("acpi", 24), Write("acpi", 0, Unknown),
                    Write("acpi", 8, Unknown), Write("acpi", 16, Unknown)>>
<1>1. Search(m) = IF RootRefused(m) THEN <<>> ELSE six
  BY Zenon DEF Search
<1>2. /\ six \in Seq(Accesses) /\ Len(six) = 6
      /\ \A p \in 1..6 :
            /\ six[p].op = IF p = 2 THEN "find" ELSE IF p \in {1, 3} THEN "read" ELSE "write"
            /\ p # 2 => /\ six[p].who = "acpi"
                        /\ six[p].offset = IF p \in {1, 3} THEN 24 ELSE IF p = 4 THEN 0
                                           ELSE IF p = 5 THEN 8 ELSE 16
  BY ReadsAndWrites, Names
<1> HIDE DEF six
<1>3. CASE RootRefused(m)
  BY <1>1, <1>3
<1>4. CASE ~RootRefused(m)
  <2>1. Search(m) = six
    BY <1>1, <1>4
  <2>2. Len(Search(m)) = IF RootRefused(m) THEN 0 ELSE 6
    BY <1>2, <1>4, <2>1
  <2>. QED
    BY <1>2, <2>1, <2>2
<1>. QED
  BY <1>3, <1>4

\* The place of each component's accesses in kmain's.
LEMMA Layout ==
    ASSUME NEW m \in Machines
    PROVE  /\ kmain(m) \in Seq(Accesses) /\ Len(kmain(m)) = VersionEnd(m) + Len(Search(m))
           /\ \A p \in 1..Len(kmain(m)) : kmain(m)[p] =
                 IF p <= CpuEnd(m) THEN CPU_init(m)[p]
                 ELSE IF p <= PmmEnd(m) THEN PMM_init(m)[p - CpuEnd(m)]
                 ELSE IF p <= PciEnd(m) THEN PCI_init(m)[p - PmmEnd(m)]
                 ELSE IF p <= VersionEnd(m) THEN VersionWrite(m)[p - PciEnd(m)]
                 ELSE Search(m)[p - VersionEnd(m)]
<1>0. /\ CPU_init(m) \in Seq(Accesses) /\ PMM_init(m) \in Seq(Accesses)
      /\ PCI_init(m) \in Seq(Accesses) /\ VersionWrite(m) \in Seq(Accesses)
      /\ Search(m) \in Seq(Accesses)
  BY CpuAccesses, PmmAccesses, PciAccesses, VersionAccess, SearchAccesses
<1> DEFINE a == CPU_init(m) \o PMM_init(m)
           b == a \o PCI_init(m)
           c == VersionWrite(m) \o Search(m)
<1>1. kmain(m) = b \o c
  BY Zenon DEF kmain, ACPI_init, Search
<1>2. /\ a \in Seq(Accesses) /\ Len(a) = PmmEnd(m)
      /\ \A p \in 1..PmmEnd(m) : a[p] = IF p <= CpuEnd(m) THEN CPU_init(m)[p]
                                        ELSE PMM_init(m)[p - CpuEnd(m)]
  BY <1>0, Behind DEF PmmEnd, CpuEnd
<1>3. /\ c \in Seq(Accesses) /\ Len(c) = Len(VersionWrite(m)) + Len(Search(m))
      /\ \A p \in 1..Len(c) : c[p] = IF p <= Len(VersionWrite(m)) THEN VersionWrite(m)[p]
                                     ELSE Search(m)[p - Len(VersionWrite(m))]
  BY <1>0, Behind
<1> HIDE DEF a, c
<1>4. /\ b \in Seq(Accesses) /\ Len(b) = PciEnd(m)
      /\ \A p \in 1..PciEnd(m) : b[p] = IF p <= PmmEnd(m) THEN a[p]
                                        ELSE PCI_init(m)[p - PmmEnd(m)]
  <2>1. /\ b \in Seq(Accesses) /\ Len(b) = Len(a) + Len(PCI_init(m))
        /\ \A p \in 1..Len(a) + Len(PCI_init(m)) :
              b[p] = IF p <= Len(a) THEN a[p] ELSE PCI_init(m)[p - Len(a)]
    BY <1>0, <1>2, Behind
  <2> HIDE DEF b
  <2>. QED
    BY <1>2, <2>1 DEF PciEnd
<1> HIDE DEF b
<1>5. /\ kmain(m) \in Seq(Accesses) /\ Len(kmain(m)) = PciEnd(m) + Len(c)
      /\ \A p \in 1..Len(kmain(m)) : kmain(m)[p] = IF p <= PciEnd(m) THEN b[p]
                                                    ELSE c[p - PciEnd(m)]
  <2>1. /\ b \o c \in Seq(Accesses) /\ Len(b \o c) = Len(b) + Len(c)
        /\ \A p \in 1..Len(b) + Len(c) :
              (b \o c)[p] = IF p <= Len(b) THEN b[p] ELSE c[p - Len(b)]
    <3>1. b \in Seq(Accesses) /\ c \in Seq(Accesses)
      BY <1>3, <1>4
    <3>. QED
      BY <3>1, Behind
  <2>. QED
    BY <1>1, <1>4, <2>1
<1>6. /\ CpuEnd(m) \in Nat /\ PmmEnd(m) \in Nat /\ PciEnd(m) \in Nat /\ VersionEnd(m) \in Nat
      /\ Len(VersionWrite(m)) \in Nat /\ Len(Search(m)) \in Nat
      /\ CpuEnd(m) <= PmmEnd(m) /\ PmmEnd(m) <= PciEnd(m)
      /\ VersionEnd(m) = PciEnd(m) + Len(VersionWrite(m))
  BY <1>0 DEF CpuEnd, PmmEnd, PciEnd, VersionEnd
<1>7. ASSUME NEW p \in 1..Len(kmain(m))
      PROVE  kmain(m)[p] =
                 IF p <= CpuEnd(m) THEN CPU_init(m)[p]
                 ELSE IF p <= PmmEnd(m) THEN PMM_init(m)[p - CpuEnd(m)]
                 ELSE IF p <= PciEnd(m) THEN PCI_init(m)[p - PmmEnd(m)]
                 ELSE IF p <= VersionEnd(m) THEN VersionWrite(m)[p - PciEnd(m)]
                 ELSE Search(m)[p - VersionEnd(m)]
  <2>1. CASE p <= PciEnd(m)
    <3>1. p \in 1..PciEnd(m) /\ kmain(m)[p] = b[p]
      BY <1>5, <1>6, <2>1
    <3>2. b[p] = IF p <= PmmEnd(m) THEN a[p] ELSE PCI_init(m)[p - PmmEnd(m)]
      BY <1>4, <3>1
    <3>3. CASE p <= PmmEnd(m)
      <4>1. a[p] = IF p <= CpuEnd(m) THEN CPU_init(m)[p] ELSE PMM_init(m)[p - CpuEnd(m)]
        BY <1>2, <1>6, <3>1, <3>3
      <4>. QED
        BY <3>1, <3>2, <3>3, <4>1
    <3>4. CASE ~(p <= PmmEnd(m))
      <4>1. ~(p <= CpuEnd(m))
        BY <1>6, <3>1, <3>4
      <4>. QED
        BY <2>1, <3>1, <3>2, <3>4, <4>1
    <3>. QED
      BY <3>3, <3>4
  <2>2. CASE p > PciEnd(m)
    <3>1. p - PciEnd(m) \in 1..Len(c)
      BY <1>3, <1>5, <1>6, <2>2
    <3>2. kmain(m)[p] = c[p - PciEnd(m)]
      BY <1>5, <1>6, <2>2
    <3>3. p - VersionEnd(m) = (p - PciEnd(m)) - Len(VersionWrite(m))
      BY <1>6
    <3>4. ~(p <= CpuEnd(m)) /\ ~(p <= PmmEnd(m)) /\ ~(p <= PciEnd(m))
      BY <1>6, <2>2
    <3>5. CASE p <= VersionEnd(m)
      <4>1. p - PciEnd(m) <= Len(VersionWrite(m))
        BY <1>6, <3>5
      <4>. QED
        BY <1>3, <3>1, <3>2, <3>4, <3>5, <4>1
    <3>6. CASE ~(p <= VersionEnd(m))
      <4>1. ~(p - PciEnd(m) <= Len(VersionWrite(m)))
        BY <1>6, <3>6
      <4>. QED
        BY <1>3, <3>1, <3>2, <3>3, <3>4, <3>6, <4>1
    <3>. QED
      BY <3>5, <3>6
  <2>. QED
    BY <1>6, <2>1, <2>2
<1>. QED
  BY <1>3, <1>5, <1>6, <1>7

\* Where the components' accesses end.
LEMMA Ends ==
    ASSUME NEW m \in Machines
    PROVE  /\ CpuEnd(m) \in {6, 8} /\ PmmEnd(m) - CpuEnd(m) \in {0, 8}
           /\ PmmEnd(m) \in Nat /\ PciEnd(m) \in Nat /\ VersionEnd(m) \in Nat
           /\ PciEnd(m) - PmmEnd(m) = IF m.devices THEN 6 ELSE 0
           /\ VersionEnd(m) - PciEnd(m) = IF m.revision <= 2 THEN 1 ELSE 0
           /\ Len(kmain(m)) \in Nat
           /\ Len(kmain(m)) - VersionEnd(m) = IF RootRefused(m) THEN 0 ELSE 6
<1>1. /\ Len(CPU_init(m)) \in {6, 8} /\ Len(PMM_init(m)) \in {0, 8}
      /\ Len(PCI_init(m)) = IF m.devices THEN 6 ELSE 0
      /\ Len(VersionWrite(m)) = IF m.revision <= 2 THEN 1 ELSE 0
      /\ Len(Search(m)) = IF RootRefused(m) THEN 0 ELSE 6
      /\ Len(kmain(m)) = VersionEnd(m) + Len(Search(m))
  BY CpuAccesses, PmmAccesses, PciAccesses, VersionAccess, SearchAccesses, Layout
<1>2. m.devices \in BOOLEAN
  BY BootMachine
<1>3. Len(PCI_init(m)) \in Nat /\ Len(VersionWrite(m)) \in Nat /\ Len(Search(m)) \in Nat
  BY <1>1
<1>. QED
  BY <1>1, <1>3 DEF CpuEnd, PmmEnd, PciEnd, VersionEnd

\* The same as an order, with what each gap says of the machine.
LEMMA EndsInOrder ==
    ASSUME NEW m \in Machines
    PROVE  /\ CpuEnd(m) \in Nat /\ PmmEnd(m) \in Nat /\ PciEnd(m) \in Nat
           /\ VersionEnd(m) \in Nat /\ Len(kmain(m)) \in Nat
           /\ 6 <= CpuEnd(m) /\ CpuEnd(m) <= PmmEnd(m)
           /\ PmmEnd(m) <= PciEnd(m) /\ PciEnd(m) <= VersionEnd(m)
           /\ IF m.devices THEN PciEnd(m) = PmmEnd(m) + 6 ELSE PciEnd(m) = PmmEnd(m)
           /\ IF m.revision <= 2 THEN VersionEnd(m) = PciEnd(m) + 1 ELSE VersionEnd(m) = PciEnd(m)
           /\ IF RootRefused(m) THEN Len(kmain(m)) = VersionEnd(m)
              ELSE Len(kmain(m)) = VersionEnd(m) + 6
<1>1. /\ CpuEnd(m) \in Nat /\ PmmEnd(m) \in Nat /\ PciEnd(m) \in Nat
      /\ VersionEnd(m) \in Nat /\ Len(kmain(m)) \in Nat
      /\ 6 <= CpuEnd(m) /\ CpuEnd(m) <= PmmEnd(m)
  <2>1. CpuEnd(m) \in {6, 8} /\ PmmEnd(m) - CpuEnd(m) \in {0, 8} /\ PmmEnd(m) \in Nat
    BY Ends
  <2>2. PciEnd(m) \in Nat /\ VersionEnd(m) \in Nat /\ Len(kmain(m)) \in Nat
    BY Ends
  <2>. QED
    BY <2>1, <2>2
<1>2. IF m.devices THEN PciEnd(m) = PmmEnd(m) + 6 ELSE PciEnd(m) = PmmEnd(m)
  <2>1. PciEnd(m) - PmmEnd(m) = IF m.devices THEN 6 ELSE 0
    BY Ends
  <2>. QED
    BY <1>1, <2>1
<1>3. IF m.revision <= 2 THEN VersionEnd(m) = PciEnd(m) + 1 ELSE VersionEnd(m) = PciEnd(m)
  <2>1. VersionEnd(m) - PciEnd(m) = IF m.revision <= 2 THEN 1 ELSE 0
    BY Ends
  <2>. QED
    BY <1>1, <2>1
<1>4. IF RootRefused(m) THEN Len(kmain(m)) = VersionEnd(m) ELSE Len(kmain(m)) = VersionEnd(m) + 6
  <2>1. Len(kmain(m)) - VersionEnd(m) = IF RootRefused(m) THEN 0 ELSE 6
    BY Ends
  <2>. QED
    BY <1>1, <2>1
<1>5. PmmEnd(m) <= PciEnd(m) /\ PciEnd(m) <= VersionEnd(m)
  BY <1>1, <1>2, <1>3
<1>. QED
  BY <1>1, <1>2, <1>3, <1>4, <1>5

\* What the p-th access of kmain is.
LEMMA AccessFacts ==
    ASSUME NEW m \in Machines, NEW p \in 1..Len(kmain(m)), NEW a, a = kmain(m)[p]
    PROVE  /\ a \in Accesses
           /\ p <= CpuEnd(m) =>
                 /\ a.who = "cpu" /\ a.op = IF p \in {1, 2, 3, 7} THEN "write" ELSE "read"
                 /\ a.offset = IF p \in {1, 5} THEN 0 ELSE IF p \in {2, 6} THEN 8
                               ELSE IF p \in {3, 4} THEN 24 ELSE 16
           /\ p > CpuEnd(m) /\ p <= PmmEnd(m) =>
                 /\ a.who = "pmm" /\ p - CpuEnd(m) \in 1..8
                 /\ a.op = IF p - CpuEnd(m) \in {2, 4, 6, 8} THEN "write" ELSE "read"
                 /\ a.offset = IF p - CpuEnd(m) \in {1, 2} THEN 0
                               ELSE IF p - CpuEnd(m) \in {3, 4} THEN 8
                               ELSE IF p - CpuEnd(m) \in {5, 6} THEN 16 ELSE 24
           /\ p > PmmEnd(m) /\ p <= PciEnd(m) =>
                 /\ a.who = "pci"
                 /\ a.op = IF p - PmmEnd(m) \in 1..4 THEN "write" ELSE "read"
                 /\ a.offset = IF p - PmmEnd(m) \in {1, 5} THEN 0
                               ELSE IF p - PmmEnd(m) \in {2, 6} THEN 8
                               ELSE IF p - PmmEnd(m) = 3 THEN 16 ELSE 24
                 /\ p - PmmEnd(m) = 3 => a.value = Null
           /\ p > PciEnd(m) /\ p <= VersionEnd(m) => a = Write("acpi", 24, Version(m))
           /\ p > VersionEnd(m) =>
                 /\ a.op = IF p - VersionEnd(m) = 2 THEN "find"
                           ELSE IF p - VersionEnd(m) \in {1, 3} THEN "read" ELSE "write"
                 /\ p - VersionEnd(m) # 2 =>
                       /\ a.who = "acpi"
                       /\ a.offset = IF p - VersionEnd(m) \in {1, 3} THEN 24
                                     ELSE IF p - VersionEnd(m) = 4 THEN 0
                                     ELSE IF p - VersionEnd(m) = 5 THEN 8 ELSE 16
<1>0. /\ kmain(m) \in Seq(Accesses) /\ p \in Nat /\ p >= 1
      /\ a = IF p <= CpuEnd(m) THEN CPU_init(m)[p]
             ELSE IF p <= PmmEnd(m) THEN PMM_init(m)[p - CpuEnd(m)]
             ELSE IF p <= PciEnd(m) THEN PCI_init(m)[p - PmmEnd(m)]
             ELSE IF p <= VersionEnd(m) THEN VersionWrite(m)[p - PciEnd(m)]
             ELSE Search(m)[p - VersionEnd(m)]
  BY Layout
<1>e. /\ CpuEnd(m) \in Nat /\ PmmEnd(m) \in Nat /\ PciEnd(m) \in Nat /\ VersionEnd(m) \in Nat
      /\ CpuEnd(m) <= PmmEnd(m) /\ PmmEnd(m) <= PciEnd(m) /\ PciEnd(m) <= VersionEnd(m)
  BY EndsInOrder
<1>1. a \in Accesses
  <2>1. kmain(m) \in Seq(Accesses)
    BY <1>0
  <2>. QED
    BY <2>1
<1>2. CASE p <= CpuEnd(m)
  <2>1. p \in 1..Len(CPU_init(m)) /\ a = CPU_init(m)[p]
    BY <1>0, <1>e, <1>2 DEF CpuEnd
  <2>. QED
    BY <1>0, <1>e, <1>1, <1>2, <2>1, CpuAccesses
<1>3. CASE p > CpuEnd(m) /\ p <= PmmEnd(m)
  <2>1. p - CpuEnd(m) \in 1..Len(PMM_init(m)) /\ a = PMM_init(m)[p - CpuEnd(m)]
    <3>1. Len(PMM_init(m)) \in Nat
      BY PmmAccesses
    <3>. QED
      BY <1>0, <1>e, <1>3, <3>1 DEF PmmEnd
  <2>2. /\ a.who = "pmm" /\ p - CpuEnd(m) \in 1..8
        /\ a.op = IF p - CpuEnd(m) \in {2, 4, 6, 8} THEN "write" ELSE "read"
        /\ a.offset = IF p - CpuEnd(m) \in {1, 2} THEN 0
                      ELSE IF p - CpuEnd(m) \in {3, 4} THEN 8
                      ELSE IF p - CpuEnd(m) \in {5, 6} THEN 16 ELSE 24
    <3>1. Len(PMM_init(m)) \in {0, 8}
      BY PmmAccesses
    <3>2. p - CpuEnd(m) \in 1..8
      BY <2>1, <3>1
    <3>. QED
      BY <2>1, <3>2, PmmAccesses
  <2>. QED
    BY <1>0, <1>e, <1>1, <1>3, <2>2
<1>4. CASE p > PmmEnd(m) /\ p <= PciEnd(m)
  <2>1. p - PmmEnd(m) \in 1..Len(PCI_init(m)) /\ a = PCI_init(m)[p - PmmEnd(m)]
    <3>1. Len(PCI_init(m)) \in Nat
      BY PciAccesses
    <3>. QED
      BY <1>0, <1>e, <1>4, <3>1 DEF PciEnd
  <2>2. /\ a.who = "pci"
        /\ a.op = IF p - PmmEnd(m) \in 1..4 THEN "write" ELSE "read"
        /\ a.offset = IF p - PmmEnd(m) \in {1, 5} THEN 0
                      ELSE IF p - PmmEnd(m) \in {2, 6} THEN 8
                      ELSE IF p - PmmEnd(m) = 3 THEN 16 ELSE 24
        /\ p - PmmEnd(m) = 3 => a.value = Null
    BY <2>1, PciAccesses
  <2>. QED
    BY <1>0, <1>e, <1>1, <1>4, <2>2
<1>5. CASE p > PciEnd(m) /\ p <= VersionEnd(m)
  <2>1. p - PciEnd(m) = 1 /\ m.revision <= 2
    <3>1. VersionEnd(m) - PciEnd(m) = IF m.revision <= 2 THEN 1 ELSE 0
      BY Ends
    <3>. QED
      BY <1>0, <1>e, <1>5, <3>1
  <2>2. a = VersionWrite(m)[1]
    BY <1>0, <1>e, <1>5, <2>1
  <2>3. a = Write("acpi", 24, Version(m))
    BY <2>1, <2>2, VersionAccess
  <2>. QED
    BY <1>0, <1>e, <1>1, <1>5, <2>3
<1>6. CASE p > VersionEnd(m)
  <2>1. p - VersionEnd(m) \in 1..Len(Search(m)) /\ a = Search(m)[p - VersionEnd(m)]
    <3>1. Len(Search(m)) \in Nat /\ Len(kmain(m)) = VersionEnd(m) + Len(Search(m))
      BY SearchAccesses, Layout
    <3>. QED
      BY <1>0, <1>e, <1>6, <3>1
  <2>2. /\ a.op = IF p - VersionEnd(m) = 2 THEN "find"
                  ELSE IF p - VersionEnd(m) \in {1, 3} THEN "read" ELSE "write"
        /\ p - VersionEnd(m) # 2 =>
              /\ a.who = "acpi"
              /\ a.offset = IF p - VersionEnd(m) \in {1, 3} THEN 24
                            ELSE IF p - VersionEnd(m) = 4 THEN 0
                            ELSE IF p - VersionEnd(m) = 5 THEN 8 ELSE 16
    BY <2>1, SearchAccesses
  <2>. QED
    BY <1>0, <1>e, <1>1, <1>6, <2>2
<1>7. \/ p <= CpuEnd(m)
      \/ p > CpuEnd(m) /\ p <= PmmEnd(m)
      \/ p > PmmEnd(m) /\ p <= PciEnd(m)
      \/ p > PciEnd(m) /\ p <= VersionEnd(m)
      \/ p > VersionEnd(m)
  BY <1>0, <1>e
<1>. QED
  BY <1>2, <1>3, <1>4, <1>5, <1>6, <1>7, Zenon

----------------------------------------------------------------------------
(* The records: the invariant *)

BootType ==
    /\ machine \in Machines
    /\ where \in {"vbe", "tags", "records", "done", "lost", "wild"}
    /\ tag \in 1..Len(machine.tags)
    /\ lookups \in Seq(TagIds \ {"other"})
    /\ pc \in 1..Len(kmain(machine)) + 1
    /\ low \in [Offsets -> [who : Writers, value : Int]]
    /\ fadt \in Int

\* The walk of the tags: the tag looked for is not before the current one, and each
\* one is in the list or still to be looked for.
Walk ==
    /\ where \in {"vbe", "tags"} => lookups # <<>>
    /\ where = "vbe" => pc = 1 /\ tag = 1
    /\ where = "tags" => HasFramebuffer /\ \A i \in 1..tag - 1 : machine.tags[i] # Head(lookups)
    /\ where \in {"records", "done"} => lookups = <<>> /\ HasFramebuffer
    /\ \A id \in TagIds \ {"other"} :
          \/ \E i \in DOMAIN machine.tags : machine.tags[i] = id
          \/ \E k \in DOMAIN lookups : lookups[k] = id

\* What CPU_init and PCI_init have written so far of what they read.
Written ==
    /\ pc <= CpuEnd(machine) + 1 =>
          /\ pc > 1 => low[0].who = "cpu"
          /\ pc > 2 => low[8].who = "cpu"
          /\ pc > 3 => low[24].who = "cpu"
          /\ pc > 7 => low[16].who = "cpu"
    /\ pc > PmmEnd(machine) /\ pc <= PciEnd(machine) =>
          /\ pc > PmmEnd(machine) + 1 => low[0].who = "pci"
          /\ pc > PmmEnd(machine) + 2 => low[8].who = "pci"

\* Of acpi_info: the NULL the PCI list left in fadt, the version, the local fadt, and
\* the field.
AcpiFields ==
    /\ machine.devices /\ pc > PmmEnd(machine) + 3 /\ pc <= VersionEnd(machine) + 6 =>
          low[16].value = Null
    /\ pc > VersionEnd(machine) /\ machine.revision <= 2 =>
          low[24] = [who |-> "acpi", value |-> Version(machine)]
    /\ pc > VersionEnd(machine) + 2 =>
          /\ fadt = ACPI_find_table(machine)
          /\ machine.revision \in {0, 2} /\ ~RootRefused(machine)
    /\ pc > VersionEnd(machine) + 6 => low[16].value = fadt
    /\ where = "done" => pc > Len(kmain(machine))

\* What PMM_init has not written when it reads it, and the version ACPI_init never
\* stores.
NotYet ==
    /\ pc <= CpuEnd(machine) + 2 => low[0].who # "pmm"
    /\ pc <= CpuEnd(machine) + 4 => low[8].who # "pmm"
    /\ pc <= CpuEnd(machine) + 6 => low[16].who # "pmm"
    /\ pc <= CpuEnd(machine) + 8 => low[24].who # "pmm"
    /\ machine.revision > 2 => low[24].who # "acpi"

BootInv == BootType /\ Walk /\ Written /\ NotYet /\ AcpiFields /\ BootsExactly

----------------------------------------------------------------------------
(* The records: every step preserves the invariant *)

\* The first FACP of the root table, which ACPI_find_table returns if its checksum
\* is right.
FirstFACP(m, i) ==
    /\ i \in DOMAIN m.tables /\ m.tables[i].facp /\ m.tables[i].ok
    /\ \A j \in 1..i - 1 : ~m.tables[j].facp

\* The search's result is a place in the root table, or NULL.
LEMMA TableFound ==
    ASSUME NEW m \in Machines
    PROVE  /\ ACPI_find_table(m) \in Nat
           /\ ACPI_find_table(m) # Null => FirstFACP(m, ACPI_find_table(m))
           /\ \A i \in DOMAIN m.tables : FirstFACP(m, i) => ACPI_find_table(m) = i
<1> DEFINE found == {i \in DOMAIN m.tables : m.tables[i].facp}
<1>1. DOMAIN m.tables = 1..Len(m.tables) /\ Len(m.tables) \in Nat
  BY BootMachine
<1>2. ACPI_find_table(m) = IF found = {} \/ ~m.tables[Min(found)].ok THEN Null ELSE Min(found)
  BY DEF ACPI_find_table
<1>3. found \in SUBSET Nat
  BY <1>1
<1>4. found # {} => Min(found) \in found /\ \A k \in found : Min(found) <= k
  BY <1>3, Least
<1>5. ASSUME NEW i \in DOMAIN m.tables, FirstFACP(m, i)
      PROVE  found # {} /\ Min(found) = i
  <2>1. i \in found
    BY <1>5 DEF FirstFACP
  <2>2. Min(found) \in found /\ Min(found) <= i
    BY <1>4, <2>1
  <2>3. ~(Min(found) \in 1..i - 1)
    BY <1>5, <2>2 DEF FirstFACP
  <2> HIDE DEF found
  <2>4. Min(found) \in Nat /\ Min(found) >= 1 /\ i \in Nat
    BY <1>1, <2>2 DEF found
  <2>. QED
    BY <2>1, <2>2, <2>3, <2>4
<1>6. CASE found = {} \/ ~m.tables[Min(found)].ok
  <2>1. ACPI_find_table(m) = Null
    BY <1>2, <1>6
  <2>2. \A i \in DOMAIN m.tables : ~FirstFACP(m, i)
    <3> SUFFICES ASSUME NEW i \in DOMAIN m.tables, FirstFACP(m, i)
                 PROVE  FALSE
      OBVIOUS
    <3>1. found # {} /\ Min(found) = i
      BY <1>5
    <3>2. m.tables[i].ok
      BY DEF FirstFACP
    <3>. QED
      BY <1>6, <3>1, <3>2
  <2>. QED
    BY <2>1, <2>2 DEF Null
<1>7. CASE ~(found = {} \/ ~m.tables[Min(found)].ok)
  <2>1. ACPI_find_table(m) = Min(found) /\ Min(found) \in found
    BY <1>2, <1>4, <1>7
  <2>2. FirstFACP(m, Min(found))
    <3>1. \A j \in 1..Min(found) - 1 : ~m.tables[j].facp
      <4> SUFFICES ASSUME NEW j \in 1..Min(found) - 1, m.tables[j].facp
                   PROVE  FALSE
        OBVIOUS
      <4>1. Min(found) \in 1..Len(m.tables)
        BY <1>1, <2>1
      <4>a. \A k \in found : Min(found) <= k
        BY <1>4, <1>7
      <4>2. j \in found
        <5> HIDE DEF found
        <5>1. j \in 1..Len(m.tables)
          BY <1>1, <4>1
        <5>. QED
          BY <1>1, <5>1 DEF found
      <4>3. Min(found) <= j
        BY <4>a, <4>2
      <4> HIDE DEF found
      <4>. QED
        BY <4>1, <4>3
    <3>. QED
      BY <1>7, <2>1, <3>1 DEF FirstFACP
  <2>. QED
    BY <1>3, <1>5, <2>1, <2>2
<1>. QED
  BY <1>6, <1>7

LEMMA BootInitInv == BootInit => BootInv
<1> SUFFICES ASSUME BootInit
             PROVE  BootInv
  OBVIOUS
<1>1. machine \in Machines
  BY DEF BootInit
<1>2. /\ CpuEnd(machine) \in {6, 8} /\ PmmEnd(machine) \in Nat /\ PciEnd(machine) \in Nat
      /\ VersionEnd(machine) \in Nat /\ Len(kmain(machine)) \in Nat
      /\ CpuEnd(machine) <= PmmEnd(machine) /\ PmmEnd(machine) <= PciEnd(machine)
      /\ PciEnd(machine) <= VersionEnd(machine)
  BY <1>1, Ends
<1>3. BootType
  <2>1. tag \in 1..Len(machine.tags)
    BY <1>1, BootMachine DEF BootInit
  <2>2. lookups \in Seq(TagIds \ {"other"})
    BY DEF BootInit, TagIds
  <2>3. low \in [Offsets -> [who : Writers, value : Int]]
    BY DEF BootInit, Writers, Unknown
  <2>4. fadt \in Int /\ where \in {"vbe", "tags", "records", "done", "lost", "wild"}
    BY DEF BootInit, Null
  <2>5. pc \in 1..Len(kmain(machine)) + 1
    BY <1>2 DEF BootInit
  <2>. QED
    BY <1>1, <2>1, <2>2, <2>3, <2>4, <2>5 DEF BootType
<1>4. Walk
  <2>1. lookups = <<"memmap", "framebuffer", "rsdp", "smp">>
    BY DEF BootInit
  <2>2. ASSUME NEW id \in TagIds \ {"other"}
        PROVE  \E k \in DOMAIN lookups : lookups[k] = id
    <3>1. /\ DOMAIN lookups = 1..4 /\ lookups[1] = "memmap" /\ lookups[2] = "framebuffer"
          /\ lookups[3] = "rsdp" /\ lookups[4] = "smp"
      BY <2>1
    <3>2. id \in {"memmap", "framebuffer", "rsdp", "smp"}
      BY DEF TagIds
    <3>. QED
      BY <3>1, <3>2
  <2>. QED
    BY <2>1, <2>2 DEF BootInit, Walk
<1>5. Written /\ AcpiFields /\ BootsExactly
  BY <1>2 DEF BootInit, Written, AcpiFields, BootsExactly
<1>6. NotYet
  BY Names DEF BootInit, NotYet
<1>. QED
  BY <1>3, <1>4, <1>5, <1>6 DEF BootInv

\* A store to a record.
LEMMA WriteInv == BootInv /\ WriteField => BootInv'
<1> SUFFICES ASSUME BootInv, WriteField
             PROVE  BootInv'
  OBVIOUS
<1>1. /\ machine \in Machines /\ pc \in 1..Len(kmain(machine)) /\ Access.op = "write"
      /\ pc' = pc + 1 /\ where = "records"
      /\ UNCHANGED <<machine, where, tag, lookups, fadt>>
      /\ low' = [low EXCEPT ![Access.offset] = [who |-> Access.who, value |-> Stored]]
  <2>1. machine \in Machines /\ pc \in 1..Len(kmain(machine)) + 1
    BY DEF BootInv, BootType
  <2>2. Len(kmain(machine)) \in Nat
    BY <2>1, Ends
  <2>. QED
    BY <2>1, <2>2 DEF WriteField, InRecords
<1> DEFINE m == machine
           a == Access
<1>2. /\ CpuEnd(m) \in Nat /\ PmmEnd(m) \in Nat /\ PciEnd(m) \in Nat /\ VersionEnd(m) \in Nat
      /\ CpuEnd(m) <= PmmEnd(m) /\ PmmEnd(m) <= PciEnd(m) /\ PciEnd(m) <= VersionEnd(m)
      /\ Len(kmain(m)) \in Nat
      /\ m.revision <= 2 => VersionEnd(m) = PciEnd(m) + 1
  BY <1>1, EndsInOrder
<1>3. a \in Accesses
  BY <1>1, AccessFacts DEF Access
<1>4. low \in [Offsets -> [who : Writers, value : Int]] /\ fadt \in Int
  BY DEF BootInv, BootType
<1>5. a.who \in Writers /\ a.offset \in Offsets /\ a.value \in Int /\ Stored \in Int
  BY <1>1, <1>3, <1>4 DEF Accesses, Stored
<1> HIDE DEF a
<1>6. /\ low' \in [Offsets -> [who : Writers, value : Int]]
      /\ \A o \in Offsets :
            low'[o] = IF o = a.offset THEN [who |-> a.who, value |-> Stored] ELSE low[o]
  BY <1>1, <1>4, <1>5 DEF a
<1>7. 0 \in Offsets /\ 8 \in Offsets /\ 16 \in Offsets /\ 24 \in Offsets
  BY Names
<1>8. BootType'
  <2>1. pc' \in 1..Len(kmain(machine')) + 1
    BY <1>1, <1>2
  <2>. QED
    BY <1>1, <1>4, <1>6, <2>1 DEF BootInv, BootType
<1>9. Walk' /\ BootsExactly'
  BY <1>1 DEF BootInv, Walk, BootsExactly, HasFramebuffer
<1>10. /\ low'[0] = IF a.offset = 0 THEN [who |-> a.who, value |-> Stored] ELSE low[0]
       /\ low'[8] = IF a.offset = 8 THEN [who |-> a.who, value |-> Stored] ELSE low[8]
       /\ low'[16] = IF a.offset = 16 THEN [who |-> a.who, value |-> Stored] ELSE low[16]
       /\ low'[24] = IF a.offset = 24 THEN [who |-> a.who, value |-> Stored] ELSE low[24]
  BY <1>6, <1>7
<1>11. pc \in Nat /\ pc >= 1 /\ pc' = pc + 1 /\ machine' = machine
  BY <1>1, <1>2
<1>w. Written
  BY DEF BootInv
<1>f. AcpiFields
  BY DEF BootInv
<1>a. pc <= PmmEnd(m) => AcpiFields'
  <2> SUFFICES ASSUME pc <= PmmEnd(m)
               PROVE  AcpiFields'
    OBVIOUS
  <2>1. /\ ~(pc' > PmmEnd(m) + 3) /\ ~(pc' > VersionEnd(m) + 2) /\ ~(pc' > VersionEnd(m) + 6)
        /\ pc' > VersionEnd(m) => ~(m.revision <= 2)
    <3>1. pc' <= PmmEnd(m) + 1 /\ PmmEnd(m) + 1 <= PciEnd(m) + 1 /\ PciEnd(m) <= VersionEnd(m)
      BY <1>2, <1>11
    <3>2. pc' \in Nat /\ PmmEnd(m) \in Nat /\ PciEnd(m) \in Nat /\ VersionEnd(m) \in Nat
      BY <1>2, <1>11
    <3>3. ASSUME pc' > VersionEnd(m)
          PROVE  ~(m.revision <= 2)
      <4>1. VersionEnd(m) # PciEnd(m) + 1
        BY <3>1, <3>2, <3>3
      <4>. QED
        BY <1>2, <4>1
    <3>. QED
      BY <3>1, <3>2, <3>3
  <2>2. where' # "done" /\ machine' = m
    BY <1>1
  <2>. QED
    BY <2>1, <2>2 DEF AcpiFields
<1>n. NotYet'
  <2>1. a.who = "pmm" =>
           \/ a.offset = 0 /\ pc = CpuEnd(m) + 2
           \/ a.offset = 8 /\ pc = CpuEnd(m) + 4
           \/ a.offset = 16 /\ pc = CpuEnd(m) + 6
           \/ a.offset = 24 /\ pc = CpuEnd(m) + 8
    <3> SUFFICES ASSUME a.who = "pmm"
                 PROVE  \/ a.offset = 0 /\ pc = CpuEnd(m) + 2
                        \/ a.offset = 8 /\ pc = CpuEnd(m) + 4
                        \/ a.offset = 16 /\ pc = CpuEnd(m) + 6
                        \/ a.offset = 24 /\ pc = CpuEnd(m) + 8
      OBVIOUS
    <3>1. a = kmain(m)[pc] /\ a.op = "write"
      BY <1>1 DEF a, Access
    <3>2. pc > CpuEnd(m) /\ pc <= PmmEnd(m)
      <4>1. ~(pc <= CpuEnd(m)) /\ ~(pc > PmmEnd(m) /\ pc <= PciEnd(m))
        BY <1>1, <3>1, AccessFacts
      <4>2. ~(pc > PciEnd(m) /\ pc <= VersionEnd(m))
        BY <1>1, <3>1, AccessFacts DEF Write
      <4>3. ~(pc > VersionEnd(m))
        <5> SUFFICES ASSUME pc > VersionEnd(m)
                     PROVE  FALSE
          OBVIOUS
        <5>1. /\ a.op = IF pc - VersionEnd(m) = 2 THEN "find"
                        ELSE IF pc - VersionEnd(m) \in {1, 3} THEN "read" ELSE "write"
              /\ pc - VersionEnd(m) # 2 => a.who = "acpi"
          BY <1>1, <3>1, AccessFacts
        <5>. QED
          BY <3>1, <5>1
      <4>. QED
        BY <1>2, <1>11, <4>1, <4>2, <4>3
    <3> DEFINE i == pc - CpuEnd(m)
    <3>3. /\ i \in 1..8 /\ a.op = IF i \in {2, 4, 6, 8} THEN "write" ELSE "read"
          /\ a.offset = IF i \in {1, 2} THEN 0 ELSE IF i \in {3, 4} THEN 8
                        ELSE IF i \in {5, 6} THEN 16 ELSE 24
      BY <1>1, <3>1, <3>2, AccessFacts
    <3>4. pc = CpuEnd(m) + i
      BY <1>2, <1>11
    <3> HIDE DEF i
    <3>5. i \in {2, 4, 6, 8}
      BY <3>1, <3>3
    <3>. QED
      BY <3>3, <3>4, <3>5
  <2>2. m.revision > 2 /\ a.who = "acpi" => a.offset # 24
    <3> SUFFICES ASSUME m.revision > 2, a.who = "acpi"
                 PROVE  a.offset # 24
      OBVIOUS
    <3>1. a = kmain(m)[pc] /\ a.op = "write"
      BY <1>1 DEF a, Access
    <3>2. VersionEnd(m) = PciEnd(m)
      <4>1. m.revision \in 0..255
        BY <1>1, BootMachine
      <4>2. ~(m.revision <= 2)
        BY <4>1
      <4>. QED
        BY <1>1, <4>2, EndsInOrder
    <3>3. ~(pc <= CpuEnd(m)) /\ ~(pc > PmmEnd(m) /\ pc <= PciEnd(m))
      BY <1>1, <3>1, AccessFacts
    <3>4. ~(pc > CpuEnd(m) /\ pc <= PmmEnd(m))
      BY <1>1, <3>1, AccessFacts
    <3>5. pc > VersionEnd(m)
      BY <1>2, <1>11, <3>2, <3>3, <3>4
    <3> DEFINE i == pc - VersionEnd(m)
    <3>6. /\ a.op = IF i = 2 THEN "find" ELSE IF i \in {1, 3} THEN "read" ELSE "write"
          /\ i # 2 => a.offset = IF i \in {1, 3} THEN 24 ELSE IF i = 4 THEN 0
                                ELSE IF i = 5 THEN 8 ELSE 16
      BY <1>1, <3>1, <3>5, AccessFacts
    <3> HIDE DEF i
    <3>7. i # 2 /\ i \notin {1, 3}
      BY <3>1, <3>6
    <3>8. CASE i = 4
      BY <3>6, <3>8
    <3>9. CASE i = 5
      BY <3>6, <3>9
    <3>10. CASE i \notin {4, 5}
      BY <3>6, <3>7, <3>10
    <3>. QED
      BY <3>8, <3>9, <3>10
  <2>3. NotYet
    BY DEF BootInv
  <2>4. /\ a.offset = 0 => low'[0].who = a.who
        /\ a.offset # 0 => low'[0] = low[0]
        /\ a.offset = 8 => low'[8].who = a.who
        /\ a.offset # 8 => low'[8] = low[8]
        /\ a.offset = 16 => low'[16].who = a.who
        /\ a.offset # 16 => low'[16] = low[16]
        /\ a.offset = 24 => low'[24].who = a.who
        /\ a.offset # 24 => low'[24] = low[24]
    BY <1>10
  <2>5. /\ pc' <= CpuEnd(m) + 2 => low'[0].who # "pmm"
        /\ pc' <= CpuEnd(m) + 4 => low'[8].who # "pmm"
        /\ pc' <= CpuEnd(m) + 6 => low'[16].who # "pmm"
        /\ pc' <= CpuEnd(m) + 8 => low'[24].who # "pmm"
    <3>1. /\ pc' <= CpuEnd(m) + 2 => pc <= CpuEnd(m) + 2 /\ pc # CpuEnd(m) + 2
          /\ pc' <= CpuEnd(m) + 4 => pc <= CpuEnd(m) + 4 /\ pc # CpuEnd(m) + 4
          /\ pc' <= CpuEnd(m) + 6 => pc <= CpuEnd(m) + 6 /\ pc # CpuEnd(m) + 6
          /\ pc' <= CpuEnd(m) + 8 => pc <= CpuEnd(m) + 8 /\ pc # CpuEnd(m) + 8
      BY <1>2, <1>11
    <3>. QED
      BY <2>1, <2>3, <2>4, <3>1 DEF NotYet
  <2>6. m.revision > 2 => low'[24].who # "acpi"
    BY <2>2, <2>3, <2>4 DEF NotYet
  <2>. QED
    BY <1>11, <2>5, <2>6 DEF NotYet
<1>12. CASE pc <= CpuEnd(m)
  <2>1. /\ a.who = "cpu" /\ pc \in {1, 2, 3, 7}
        /\ a.offset = IF pc \in {1, 5} THEN 0 ELSE IF pc \in {2, 6} THEN 8
                      ELSE IF pc \in {3, 4} THEN 24 ELSE 16
    <3>1. /\ a.who = "cpu" /\ a.op = IF pc \in {1, 2, 3, 7} THEN "write" ELSE "read"
          /\ a.offset = IF pc \in {1, 5} THEN 0 ELSE IF pc \in {2, 6} THEN 8
                        ELSE IF pc \in {3, 4} THEN 24 ELSE 16
      BY <1>1, <1>12, AccessFacts DEF a, Access
    <3>2. a.op = "write"
      BY <1>1 DEF a
    <3>. QED
      BY <3>1, <3>2
  <2>2. /\ pc = 1 => low'[0].who = "cpu"
        /\ pc = 2 => low'[8].who = "cpu" /\ low'[0] = low[0]
        /\ pc = 3 => low'[24].who = "cpu" /\ low'[0] = low[0] /\ low'[8] = low[8]
        /\ pc = 7 => /\ low'[16].who = "cpu"
                     /\ low'[0] = low[0] /\ low'[8] = low[8] /\ low'[24] = low[24]
    BY <1>10, <2>1
  <2>3. Written'
    <3>1. /\ pc <= CpuEnd(m) + 1
          /\ ~(pc + 1 > PmmEnd(m) /\ pc + 1 <= PciEnd(m) /\ pc + 1 > PmmEnd(m) + 1)
      BY <1>2, <1>11, <1>12
    <3>2. /\ pc + 1 > 1 => low'[0].who = "cpu"
          /\ pc + 1 > 2 => low'[8].who = "cpu"
          /\ pc + 1 > 3 => low'[24].who = "cpu"
          /\ pc + 1 > 7 => low'[16].who = "cpu"
      BY <1>2, <1>w, <2>1, <2>2, <3>1 DEF Written
    <3>. QED
      BY <1>2, <1>11, <1>12, <3>2 DEF Written
  <2>4. AcpiFields'
    BY <1>2, <1>11, <1>12, <1>a
  <2>. QED
    BY <1>8, <1>9, <1>n, <2>3, <2>4 DEF BootInv
<1>13. CASE pc > CpuEnd(m) /\ pc <= PmmEnd(m)
  <2>1. Written'
    BY <1>2, <1>11, <1>13 DEF Written
  <2>2. AcpiFields'
    BY <1>13, <1>a
  <2>. QED
    BY <1>8, <1>9, <1>n, <2>1, <2>2 DEF BootInv
<1>14. CASE pc > PmmEnd(m) /\ pc <= PciEnd(m)
  <2>e. PciEnd(m) = PmmEnd(m) + 6
    <3>1. PciEnd(m) - PmmEnd(m) \in {0, 6}
      BY <1>1, Ends
    <3>. QED
      BY <1>2, <1>11, <1>14, <3>1
  <2>1. /\ a.who = "pci"
        /\ \/ pc = PmmEnd(m) + 1 /\ a.offset = 0
           \/ pc = PmmEnd(m) + 2 /\ a.offset = 8
           \/ pc = PmmEnd(m) + 3 /\ a.offset = 16 /\ a.value = Null
           \/ pc = PmmEnd(m) + 4 /\ a.offset = 24
    <3> DEFINE i == pc - PmmEnd(m)
    <3>1. /\ a.who = "pci" /\ a.op = IF i \in 1..4 THEN "write" ELSE "read"
          /\ a.offset = IF i \in {1, 5} THEN 0 ELSE IF i \in {2, 6} THEN 8
                        ELSE IF i = 3 THEN 16 ELSE 24
          /\ i = 3 => a.value = Null
      BY <1>1, <1>14, AccessFacts DEF a, Access
    <3>2. a.op = "write" /\ i \in Int /\ pc = PmmEnd(m) + i
      BY <1>1, <1>2, <1>11 DEF a
    <3> HIDE DEF i
    <3>3. i \in 1..4
      BY <3>1, <3>2
    <3>4. \/ i = 1 /\ a.offset = 0
          \/ i = 2 /\ a.offset = 8
          \/ i = 3 /\ a.offset = 16 /\ a.value = Null
          \/ i = 4 /\ a.offset = 24
      <4>1. CASE i = 1
        BY <3>1, <4>1
      <4>2. CASE i = 2
        BY <3>1, <4>2
      <4>3. CASE i = 3
        BY <3>1, <4>3
      <4>4. CASE i = 4
        BY <3>1, <4>4
      <4>. QED
        BY <3>3, <4>1, <4>2, <4>3, <4>4
    <3>. QED
      BY <3>1, <3>2, <3>4
  <2>2. /\ pc = PmmEnd(m) + 1 => low'[0].who = "pci"
        /\ pc = PmmEnd(m) + 2 => low'[8].who = "pci" /\ low'[0] = low[0]
        /\ pc = PmmEnd(m) + 3 => low'[0] = low[0] /\ low'[8] = low[8] /\ low'[16].value = Null
        /\ pc = PmmEnd(m) + 4 => low'[0] = low[0] /\ low'[8] = low[8] /\ low'[16] = low[16]
    <3>1. a.offset = 16 => Stored = a.value
      BY <2>1 DEF Stored, a
    <3>2. CASE pc = PmmEnd(m) + 1 /\ a.offset = 0
      BY <1>2, <1>10, <2>1, <3>2
    <3>3. CASE pc = PmmEnd(m) + 2 /\ a.offset = 8
      BY <1>2, <1>10, <2>1, <3>3
    <3>4. CASE pc = PmmEnd(m) + 3 /\ a.offset = 16 /\ a.value = Null
      BY <1>2, <1>10, <3>1, <3>4
    <3>5. CASE pc = PmmEnd(m) + 4 /\ a.offset = 24
      BY <1>2, <1>10, <3>5
    <3>. QED
      BY <2>1, <3>2, <3>3, <3>4, <3>5
  <2>3. Written'
    <3>1. /\ pc + 1 > PmmEnd(m) + 1 => low'[0].who = "pci"
          /\ pc + 1 > PmmEnd(m) + 2 => low'[8].who = "pci"
      <4>1. /\ pc > PmmEnd(m) + 1 => low[0].who = "pci"
            /\ pc > PmmEnd(m) + 2 => low[8].who = "pci"
        BY <1>14, <1>w DEF Written
      <4>2. CASE pc = PmmEnd(m) + 1
        BY <1>2, <2>2, <4>2
      <4>3. CASE pc = PmmEnd(m) + 2
        BY <1>2, <2>2, <4>1, <4>3
      <4>4. CASE pc = PmmEnd(m) + 3 \/ pc = PmmEnd(m) + 4
        <5>1. pc > PmmEnd(m) + 1 /\ pc > PmmEnd(m) + 2
          BY <1>2, <4>4
        <5>2. low'[0] = low[0] /\ low'[8] = low[8]
          BY <2>2, <4>4
        <5>. QED
          BY <4>1, <5>1, <5>2
      <4>. QED
        BY <2>1, <4>2, <4>3, <4>4
    <3>2. ~(pc + 1 <= CpuEnd(m) + 1)
      BY <1>2, <1>11, <1>14
    <3>. QED
      BY <1>11, <3>1, <3>2 DEF Written
  <2>4. AcpiFields'
    <3>1. m.devices /\ pc + 1 > PmmEnd(m) + 3 => low'[16].value = Null
      <4>1. CASE pc = PmmEnd(m) + 4
        <5>1. pc > PmmEnd(m) + 3 /\ pc <= VersionEnd(m) + 6
          BY <1>2, <1>14, <4>1
        <5>. QED
          BY <1>f, <2>2, <4>1, <5>1 DEF AcpiFields
      <4>2. CASE pc = PmmEnd(m) + 3
        BY <2>2, <4>2
      <4>3. CASE ~(pc + 1 > PmmEnd(m) + 3)
        BY <4>3
      <4>. QED
        BY <1>2, <2>1, <4>1, <4>2, <4>3
    <3>2. pc <= PmmEnd(m) + 4
      BY <1>2, <2>1
    <3>3. pc <= PmmEnd(m) + 4 /\ pc + 1 <= PciEnd(m) /\ pc + 1 <= VersionEnd(m)
      BY <1>2, <1>11, <2>e, <3>2
    <3>. QED
      BY <1>1, <1>2, <1>11, <3>1, <3>3 DEF AcpiFields
  <2>. QED
    BY <1>8, <1>9, <1>n, <2>3, <2>4 DEF BootInv
<1>15. CASE pc > PciEnd(m) /\ pc <= VersionEnd(m)
  <2>1. a.who = "acpi" /\ a.offset = 24 /\ a.value = Version(m)
    <3>1. a = Write("acpi", 24, Version(m))
      BY <1>1, <1>15, AccessFacts DEF a, Access
    <3>. QED
      BY <3>1 DEF Write
  <2>2. low'[24] = [who |-> "acpi", value |-> Version(m)] /\ low'[16] = low[16]
    <3>1. Stored = a.value
      BY <2>1 DEF Stored, a
    <3>. QED
      BY <1>10, <2>1, <3>1
  <2>3. Written'
    BY <1>2, <1>11, <1>15 DEF Written
  <2>4. pc = VersionEnd(m)
    <3>1. VersionEnd(m) - PciEnd(m) \in {0, 1}
      BY <1>1, Ends
    <3>. QED
      BY <1>2, <1>11, <1>15, <3>1
  <2>5. AcpiFields'
    <3>1. m.devices /\ pc + 1 > PmmEnd(m) + 3 => low'[16].value = Null
      <4>1. m.devices => PciEnd(m) - PmmEnd(m) = 6
        BY <1>1, Ends
      <4>2. m.devices => pc > PmmEnd(m) + 3 /\ pc <= VersionEnd(m) + 6
        BY <1>2, <1>11, <1>15, <4>1
      <4>. QED
        BY <1>f, <2>2, <4>2 DEF AcpiFields
    <3>. QED
      BY <1>1, <1>2, <1>11, <2>2, <2>4, <3>1 DEF AcpiFields
  <2>. QED
    BY <1>8, <1>9, <1>n, <2>3, <2>5 DEF BootInv
<1>16. CASE pc > VersionEnd(m)
  <2>1. /\ a.who = "acpi"
        /\ \/ pc = VersionEnd(m) + 4 /\ a.offset = 0
           \/ pc = VersionEnd(m) + 5 /\ a.offset = 8
           \/ pc = VersionEnd(m) + 6 /\ a.offset = 16
    <3> DEFINE i == pc - VersionEnd(m)
    <3>1. /\ a.op = IF i = 2 THEN "find" ELSE IF i \in {1, 3} THEN "read" ELSE "write"
          /\ i # 2 => /\ a.who = "acpi"
                      /\ a.offset = IF i \in {1, 3} THEN 24 ELSE IF i = 4 THEN 0
                                    ELSE IF i = 5 THEN 8 ELSE 16
      BY <1>1, <1>16, AccessFacts DEF a, Access
    <3>2. Len(kmain(m)) - VersionEnd(m) \in {0, 6}
      BY <1>1, Ends
    <3>3. a.op = "write" /\ i \in 1..6 /\ pc = VersionEnd(m) + i
      BY <1>1, <1>2, <1>11, <1>16, <3>2 DEF a
    <3> HIDE DEF i
    <3>4. i \in 4..6
      BY <3>1, <3>3
    <3>5. \/ i = 4 /\ a.offset = 0
          \/ i = 5 /\ a.offset = 8
          \/ i = 6 /\ a.offset = 16
      <4>1. CASE i = 4
        BY <3>1, <4>1
      <4>2. CASE i = 5
        BY <3>1, <4>2
      <4>3. CASE i = 6
        BY <3>1, <4>3
      <4>. QED
        BY <3>4, <4>1, <4>2, <4>3
    <3>. QED
      BY <3>1, <3>3, <3>4, <3>5
  <2>2. /\ low'[24] = low[24]
        /\ pc = VersionEnd(m) + 6 => low'[16].value = fadt
        /\ pc # VersionEnd(m) + 6 => low'[16] = low[16]
    <3>1. a.offset = 16 => Stored = fadt
      BY <2>1 DEF Stored, a
    <3>2. CASE pc = VersionEnd(m) + 6 /\ a.offset = 16
      BY <1>10, <3>1, <3>2
    <3>3. CASE (pc = VersionEnd(m) + 4 /\ a.offset = 0) \/ (pc = VersionEnd(m) + 5 /\ a.offset = 8)
      BY <1>2, <1>10, <3>3
    <3>. QED
      BY <2>1, <3>2, <3>3
  <2>3. Written'
    BY <1>2, <1>11, <1>16 DEF Written
  <2>4. AcpiFields'
    <3>1. /\ pc \in {VersionEnd(m) + 4, VersionEnd(m) + 5, VersionEnd(m) + 6}
          /\ pc > VersionEnd(m) + 2 /\ pc <= VersionEnd(m) + 6
      BY <1>2, <2>1
    <3>2. /\ m.devices /\ pc > PmmEnd(m) + 3 => low[16].value = Null
          /\ m.revision <= 2 => low[24] = [who |-> "acpi", value |-> Version(m)]
          /\ fadt = ACPI_find_table(m) /\ m.revision \in {0, 2} /\ ~RootRefused(m)
      BY <1>f, <1>16, <3>1 DEF AcpiFields
    <3>3. pc + 1 > VersionEnd(m) + 6 <=> pc = VersionEnd(m) + 6
      BY <1>2, <3>1
    <3>4. m.devices /\ pc + 1 > PmmEnd(m) + 3 /\ pc + 1 <= VersionEnd(m) + 6 =>
             low'[16].value = Null
      <4> SUFFICES ASSUME m.devices, pc + 1 <= VersionEnd(m) + 6
                   PROVE  low'[16].value = Null
        OBVIOUS
      <4>1. pc > PmmEnd(m) + 3 /\ pc # VersionEnd(m) + 6
        <5>1. VersionEnd(m) + 4 <= pc
          BY <1>2, <3>1
        <5>2. PmmEnd(m) <= VersionEnd(m) /\ PmmEnd(m) \in Nat /\ VersionEnd(m) \in Nat /\ pc \in Nat
          BY <1>2, <1>11
        <5>. QED
          BY <5>1, <5>2
      <4>. QED
        BY <2>2, <3>2, <4>1
    <3>. QED
      BY <1>1, <1>11, <2>2, <3>2, <3>3, <3>4 DEF AcpiFields
  <2>. QED
    BY <1>8, <1>9, <1>n, <2>3, <2>4 DEF BootInv
<1>. QED
  BY <1>2, <1>11, <1>12, <1>13, <1>14, <1>15, <1>16

\* Which places a load can be at, and of which field it is.
LEMMA Loads ==
    ASSUME BootType, InRecords("read")
    PROVE  \/ pc <= CpuEnd(machine) /\ pc = 4 /\ Access.who = "cpu" /\ Access.offset = 24
           \/ pc <= CpuEnd(machine) /\ pc = 5 /\ Access.who = "cpu" /\ Access.offset = 0
           \/ pc <= CpuEnd(machine) /\ pc = 6 /\ Access.who = "cpu" /\ Access.offset = 8
           \/ pc <= CpuEnd(machine) /\ pc = 8 /\ Access.who = "cpu" /\ Access.offset = 16
           \/ /\ pc > CpuEnd(machine) /\ pc <= PmmEnd(machine) /\ Access.who = "pmm"
              /\ \/ pc = CpuEnd(machine) + 1 /\ Access.offset = 0
                 \/ pc = CpuEnd(machine) + 3 /\ Access.offset = 8
                 \/ pc = CpuEnd(machine) + 5 /\ Access.offset = 16
                 \/ pc = CpuEnd(machine) + 7 /\ Access.offset = 24
           \/ /\ pc = PmmEnd(machine) + 5 /\ pc <= PciEnd(machine)
              /\ Access.who = "pci" /\ Access.offset = 0
           \/ /\ pc = PmmEnd(machine) + 6 /\ pc <= PciEnd(machine)
              /\ Access.who = "pci" /\ Access.offset = 8
           \/ pc = VersionEnd(machine) + 1 /\ Access.who = "acpi" /\ Access.offset = 24
           \/ pc = VersionEnd(machine) + 3 /\ Access.who = "acpi" /\ Access.offset = 24
<1> DEFINE m == machine
           a == Access
<1>1. m \in Machines /\ pc \in 1..Len(kmain(m)) /\ a.op = "read" /\ a = kmain(m)[pc]
  <2>1. m \in Machines /\ pc \in 1..Len(kmain(m)) + 1
    BY DEF BootType
  <2>2. Len(kmain(m)) \in Nat
    BY <2>1, EndsInOrder
  <2>. QED
    BY <2>1, <2>2 DEF InRecords, Access
<1>2. /\ CpuEnd(m) \in {6, 8} /\ PmmEnd(m) \in Nat /\ PciEnd(m) \in Nat /\ VersionEnd(m) \in Nat
      /\ Len(kmain(m)) \in Nat /\ pc \in Nat /\ pc >= 1 /\ pc <= Len(kmain(m))
      /\ CpuEnd(m) <= PmmEnd(m) /\ PmmEnd(m) <= PciEnd(m) /\ PciEnd(m) <= VersionEnd(m)
      /\ PciEnd(m) <= PmmEnd(m) + 6 /\ Len(kmain(m)) <= VersionEnd(m) + 6
  <2>1. CpuEnd(m) \in {6, 8}
    BY <1>1, Ends
  <2>. QED
    BY <1>1, <2>1, EndsInOrder
<1> HIDE DEF a
<1>3. CASE pc <= CpuEnd(m)
  <2>1. /\ a.who = "cpu" /\ a.op = IF pc \in {1, 2, 3, 7} THEN "write" ELSE "read"
        /\ a.offset = IF pc \in {1, 5} THEN 0 ELSE IF pc \in {2, 6} THEN 8
                      ELSE IF pc \in {3, 4} THEN 24 ELSE 16
    BY <1>1, <1>3, AccessFacts
  <2>2. pc \in {4, 5, 6, 8}
    <3>1. pc \in 1..8
      BY <1>2, <1>3
    <3>2. ~(pc \in {1, 2, 3, 7})
      BY <1>1, <2>1
    <3>. QED
      BY <3>1, <3>2
  <2>3. CASE pc = 4
    BY <1>3, <2>1, <2>3 DEF a
  <2>4. CASE pc = 5
    BY <1>3, <2>1, <2>4 DEF a
  <2>5. CASE pc = 6
    BY <1>3, <2>1, <2>5 DEF a
  <2>6. CASE pc = 8
    BY <1>3, <2>1, <2>6 DEF a
  <2>. QED
    BY <2>2, <2>3, <2>4, <2>5, <2>6
<1>4. CASE pc > CpuEnd(m) /\ pc <= PmmEnd(m)
  <2> DEFINE i == pc - CpuEnd(m)
  <2>1. /\ a.who = "pmm" /\ i \in 1..8
        /\ a.op = IF i \in {2, 4, 6, 8} THEN "write" ELSE "read"
        /\ a.offset = IF i \in {1, 2} THEN 0 ELSE IF i \in {3, 4} THEN 8
                      ELSE IF i \in {5, 6} THEN 16 ELSE 24
    BY <1>1, <1>4, AccessFacts
  <2>2. pc = CpuEnd(m) + i
    BY <1>2
  <2> HIDE DEF i
  <2>3. i \in {1, 3, 5, 7}
    <3>1. i \notin {2, 4, 6, 8}
      BY <1>1, <2>1
    <3>. QED
      BY <2>1, <3>1
  <2>4. \/ i = 1 /\ a.offset = 0
        \/ i = 3 /\ a.offset = 8
        \/ i = 5 /\ a.offset = 16
        \/ i = 7 /\ a.offset = 24
    BY <2>1, <2>3
  <2>. QED
    BY <1>4, <2>1, <2>2, <2>4 DEF a
<1>5. CASE pc > PmmEnd(m) /\ pc <= PciEnd(m)
  <2> DEFINE i == pc - PmmEnd(m)
  <2>1. /\ a.who = "pci" /\ a.op = IF i \in 1..4 THEN "write" ELSE "read"
        /\ a.offset = IF i \in {1, 5} THEN 0 ELSE IF i \in {2, 6} THEN 8
                      ELSE IF i = 3 THEN 16 ELSE 24
    BY <1>1, <1>5, AccessFacts
  <2>2. i \in 1..6 /\ pc = PmmEnd(m) + i
    BY <1>2, <1>5
  <2> HIDE DEF i
  <2>3. i \in {5, 6}
    <3>1. ~(i \in 1..4)
      BY <1>1, <2>1
    <3>. QED
      BY <2>2, <3>1
  <2>4. CASE i = 5
    BY <1>5, <2>1, <2>2, <2>4 DEF a
  <2>5. CASE i = 6
    BY <1>5, <2>1, <2>2, <2>5 DEF a
  <2>. QED
    BY <2>3, <2>4, <2>5
<1>6. CASE pc > PciEnd(m) /\ pc <= VersionEnd(m)
  <2>1. a = Write("acpi", 24, Version(m))
    BY <1>1, <1>6, AccessFacts
  <2>2. a.op = "write"
    BY <2>1 DEF Write
  <2>. QED
    BY <1>1, <2>2
<1>7. CASE pc > VersionEnd(m)
  <2> DEFINE i == pc - VersionEnd(m)
  <2>1. /\ a.op = IF i = 2 THEN "find" ELSE IF i \in {1, 3} THEN "read" ELSE "write"
        /\ i # 2 => /\ a.who = "acpi"
                    /\ a.offset = IF i \in {1, 3} THEN 24 ELSE IF i = 4 THEN 0
                                  ELSE IF i = 5 THEN 8 ELSE 16
    BY <1>1, <1>7, AccessFacts
  <2>2. i \in 1..6 /\ pc = VersionEnd(m) + i
    BY <1>2, <1>7
  <2> HIDE DEF i
  <2>3. i \in {1, 3}
    BY <1>1, <2>1
  <2>4. CASE i = 1
    BY <2>1, <2>2, <2>4 DEF a
  <2>5. CASE i = 3
    BY <2>1, <2>2, <2>5 DEF a
  <2>. QED
    BY <2>3, <2>4, <2>5
<1>. QED
  BY <1>2, <1>3, <1>4, <1>5, <1>6, <1>7

\* A load changes only the place of the next access.
LEMMA ReadInv == BootInv /\ ReadField => BootInv'
<1> SUFFICES ASSUME BootInv, ReadField
             PROVE  BootInv'
  OBVIOUS
<1> DEFINE m == machine
<1>1. /\ m \in Machines /\ pc \in Nat /\ pc' = pc + 1 /\ where = "records" /\ pc <= Len(kmain(m))
      /\ UNCHANGED <<machine, where, tag, lookups, low, fadt>> /\ BootType
      /\ InRecords("read")
  <2>1. m \in Machines /\ pc \in 1..Len(kmain(m)) + 1 /\ BootType
    BY DEF BootInv, BootType
  <2>. QED
    BY <2>1 DEF ReadField, InRecords
<1>2. /\ CpuEnd(m) \in Nat /\ PmmEnd(m) \in Nat /\ PciEnd(m) \in Nat /\ VersionEnd(m) \in Nat
      /\ CpuEnd(m) <= PmmEnd(m) /\ PmmEnd(m) <= PciEnd(m) /\ PciEnd(m) <= VersionEnd(m)
      /\ Len(kmain(m)) \in Nat /\ 6 <= CpuEnd(m)
      /\ IF m.devices THEN PciEnd(m) = PmmEnd(m) + 6 ELSE PciEnd(m) = PmmEnd(m)
      /\ m.revision <= 2 => VersionEnd(m) = PciEnd(m) + 1
  BY <1>1, EndsInOrder
<1>3. BootType' /\ Walk' /\ BootsExactly'
  <2>1. pc' \in 1..Len(kmain(m)) + 1
    BY <1>1, <1>2
  <2>2. BootType'
    BY <1>1, <2>1 DEF BootType
  <2>. QED
    BY <1>1, <2>2 DEF BootInv, Walk, BootsExactly, HasFramebuffer
<1>4. \/ pc <= CpuEnd(m) /\ pc \in {4, 5, 6, 8}
      \/ pc > CpuEnd(m) /\ pc <= PmmEnd(m)
      \/ pc <= PciEnd(m) /\ pc \in {PmmEnd(m) + 5, PmmEnd(m) + 6}
      \/ pc \in {VersionEnd(m) + 1, VersionEnd(m) + 3}
  BY <1>1, Loads
<1>5. Written'
  <2>w. Written
    BY DEF BootInv
  <2>1. CASE pc <= CpuEnd(m) /\ pc \in {4, 5, 6, 8}
    <3>1. /\ low[0].who = "cpu" /\ low[8].who = "cpu" /\ low[24].who = "cpu"
          /\ pc > 7 => low[16].who = "cpu"
      BY <1>2, <2>w, <2>1 DEF Written
    <3>2. (pc' > 7 => pc > 7) /\ ~(pc' > PmmEnd(m) + 1)
      BY <1>1, <1>2, <2>1
    <3>3. ~(pc' > PmmEnd(m) + 2)
      BY <1>1, <1>2, <3>2
    <3>. QED
      BY <1>1, <3>1, <3>2, <3>3 DEF Written
  <2>2. CASE pc <= PciEnd(m) /\ pc \in {PmmEnd(m) + 5, PmmEnd(m) + 6}
    <3>1. pc > PmmEnd(m) /\ pc > PmmEnd(m) + 1 /\ pc > PmmEnd(m) + 2 /\ ~(pc' <= CpuEnd(m) + 1)
      BY <1>1, <1>2, <2>2
    <3>2. low[0].who = "pci" /\ low[8].who = "pci"
      BY <2>w, <2>2, <3>1 DEF Written
    <3>. QED
      BY <1>1, <3>1, <3>2 DEF Written
  <2>3. CASE pc \in {VersionEnd(m) + 1, VersionEnd(m) + 3}
    <3>1. ~(pc' <= CpuEnd(m) + 1) /\ ~(pc' <= PciEnd(m))
      BY <1>1, <1>2, <2>3
    <3>. QED
      BY <1>1, <3>1 DEF Written
  <2>4. CASE pc > CpuEnd(m) /\ pc <= PmmEnd(m)
    <3>1. ~(pc' <= CpuEnd(m) + 1) /\ ~(pc' > PmmEnd(m) + 1)
      BY <1>1, <1>2, <2>4
    <3>2. ~(pc' > PmmEnd(m) + 2)
      BY <1>1, <1>2, <3>1
    <3>. QED
      BY <1>1, <3>1, <3>2 DEF Written
  <2>. QED
    BY <1>4, <2>1, <2>2, <2>3, <2>4
<1>6. AcpiFields'
  <2>f. AcpiFields
    BY DEF BootInv
  <2>1. CASE pc <= CpuEnd(m) /\ pc \in {4, 5, 6, 8}
    <3>1. /\ ~(pc' > PmmEnd(m) + 3) /\ ~(pc' > VersionEnd(m) + 2) /\ ~(pc' > VersionEnd(m) + 6)
          /\ pc' > VersionEnd(m) => ~(m.revision <= 2)
      BY <1>1, <1>2, <2>1
    <3>. QED
      BY <1>1, <3>1 DEF AcpiFields
  <2>2. CASE pc <= PciEnd(m) /\ pc \in {PmmEnd(m) + 5, PmmEnd(m) + 6}
    <3>1. pc > PmmEnd(m) + 3 /\ pc <= VersionEnd(m) + 6
      BY <1>1, <1>2, <2>2
    <3>2. m.devices => low[16].value = Null
      BY <2>f, <3>1 DEF AcpiFields
    <3>3. /\ ~(pc' > VersionEnd(m) + 2) /\ ~(pc' > VersionEnd(m) + 6)
          /\ pc' > VersionEnd(m) => ~(m.revision <= 2)
      BY <1>1, <1>2, <2>2
    <3>. QED
      BY <1>1, <3>2, <3>3 DEF AcpiFields
  <2>3. CASE pc \in {VersionEnd(m) + 1, VersionEnd(m) + 3}
    <3>1. /\ pc > VersionEnd(m) /\ pc <= VersionEnd(m) + 6 /\ ~(pc' > VersionEnd(m) + 6)
          /\ pc' > VersionEnd(m) + 2 => pc > VersionEnd(m) + 2
          /\ m.devices => pc > PmmEnd(m) + 3
      BY <1>1, <1>2, <2>3
    <3>2. /\ m.devices => low[16].value = Null
          /\ m.revision <= 2 => low[24] = [who |-> "acpi", value |-> Version(m)]
          /\ pc > VersionEnd(m) + 2 =>
                fadt = ACPI_find_table(m) /\ m.revision \in {0, 2} /\ ~RootRefused(m)
      BY <2>f, <3>1 DEF AcpiFields
    <3>. QED
      BY <1>1, <3>1, <3>2 DEF AcpiFields
  <2>4. CASE pc > CpuEnd(m) /\ pc <= PmmEnd(m)
    <3>1. /\ ~(pc' > PmmEnd(m) + 3) /\ ~(pc' > VersionEnd(m) + 2) /\ ~(pc' > VersionEnd(m) + 6)
          /\ pc' > VersionEnd(m) => ~(m.revision <= 2)
      BY <1>1, <1>2, <2>4
    <3>. QED
      BY <1>1, <3>1 DEF AcpiFields
  <2>. QED
    BY <1>4, <2>1, <2>2, <2>3, <2>4
<1>7. NotYet'
  <2>1. NotYet
    BY DEF BootInv
  <2>2. \A n \in Nat : pc' <= CpuEnd(m) + n => pc <= CpuEnd(m) + n
    BY <1>1, <1>2
  <2>. QED
    BY <1>1, <2>1, <2>2 DEF NotYet
<1>. QED
  BY <1>3, <1>5, <1>6, <1>7 DEF BootInv

\* The search: in the table that the version stands for, or nowhere.
LEMMA FindInv == BootInv /\ FindTable => BootInv'
<1> SUFFICES ASSUME BootInv, FindTable
             PROVE  BootInv'
  OBVIOUS
<1> DEFINE m == machine
           revisions == IF low[24].value = 1 THEN {0} ELSE {1, 2}
<1>1. /\ m \in Machines /\ pc \in 1..Len(kmain(m)) /\ where = "records" /\ Access.op = "find"
      /\ UNCHANGED <<machine, tag, lookups, low>> /\ BootType
  <2>1. m \in Machines /\ pc \in 1..Len(kmain(m)) + 1 /\ BootType
    BY DEF BootInv, BootType
  <2>2. Len(kmain(m)) \in Nat
    BY <2>1, EndsInOrder
  <2>. QED
    BY <2>1, <2>2 DEF FindTable, InRecords
<1>2. IF m.revision \in revisions
      THEN fadt' = ACPI_find_table(m) /\ pc' = pc + 1 /\ UNCHANGED where
      ELSE where' = "wild" /\ UNCHANGED <<pc, fadt>>
  BY DEF FindTable
<1>3. /\ CpuEnd(m) \in Nat /\ PmmEnd(m) \in Nat /\ PciEnd(m) \in Nat /\ VersionEnd(m) \in Nat
      /\ CpuEnd(m) <= PmmEnd(m) /\ PmmEnd(m) <= PciEnd(m) /\ PciEnd(m) <= VersionEnd(m)
      /\ Len(kmain(m)) \in Nat /\ 6 <= CpuEnd(m)
      /\ IF m.devices THEN PciEnd(m) = PmmEnd(m) + 6 ELSE PciEnd(m) = PmmEnd(m)
      /\ IF RootRefused(m) THEN Len(kmain(m)) = VersionEnd(m)
         ELSE Len(kmain(m)) = VersionEnd(m) + 6
  BY <1>1, EndsInOrder
<1>4. pc = VersionEnd(m) + 2 /\ ~RootRefused(m)
  <2> DEFINE a == Access
  <2>1. a = kmain(m)[pc] /\ a.op = "find"
    BY <1>1 DEF Access
  <2> HIDE DEF a
  <2>2. ~(pc <= CpuEnd(m))
    <3>1. ~(a.op \in {"read", "write"})
      BY <2>1
    <3>. QED
      BY <1>1, <2>1, <3>1, AccessFacts
  <2>3. ~(pc > CpuEnd(m) /\ pc <= PmmEnd(m))
    <3>1. ~(a.op \in {"read", "write"})
      BY <2>1
    <3>. QED
      BY <1>1, <2>1, <3>1, AccessFacts
  <2>4. ~(pc > PmmEnd(m) /\ pc <= PciEnd(m))
    <3>1. ~(a.op \in {"read", "write"})
      BY <2>1
    <3>. QED
      BY <1>1, <2>1, <3>1, AccessFacts
  <2>5. ~(pc > PciEnd(m) /\ pc <= VersionEnd(m))
    <3>1. a # Write("acpi", 24, Version(m))
      BY <2>1 DEF Write
    <3>. QED
      BY <1>1, <2>1, <3>1, AccessFacts
  <2>6. pc > VersionEnd(m)
    BY <1>1, <1>3, <2>2, <2>3, <2>4, <2>5
  <2>7. a.op = IF pc - VersionEnd(m) = 2 THEN "find"
               ELSE IF pc - VersionEnd(m) \in {1, 3} THEN "read" ELSE "write"
    BY <1>1, <2>1, <2>6, AccessFacts
  <2>8. pc - VersionEnd(m) = 2
    BY <2>1, <2>7
  <2>9. pc = VersionEnd(m) + 2
    BY <1>1, <1>3, <2>8
  <2>. QED
    BY <1>1, <1>3, <2>9
<1>5. /\ m.revision \in 0..255
      /\ m.revision <= 2 => low[24].value = Version(m)
      /\ m.devices => low[16].value = Null
      /\ m.revision <= 2 => low[24] = [who |-> "acpi", value |-> Version(m)]
  <2>1. AcpiFields
    BY DEF BootInv
  <2>2. pc > VersionEnd(m) /\ pc <= VersionEnd(m) + 6 /\ (m.devices => pc > PmmEnd(m) + 3)
    BY <1>3, <1>4
  <2>. QED
    BY <1>1, <2>1, <2>2, BootMachine DEF AcpiFields
<1>6. m.revision \in revisions <=> m.revision \in {0, 2}
  BY <1>5 DEF Version
<1>7. CASE m.revision \in {0, 2}
  <2>1. fadt' = ACPI_find_table(m) /\ pc' = pc + 1 /\ where' = "records"
    BY <1>1, <1>2, <1>6, <1>7
  <2>2. BootType'
    <3>1. fadt' \in Int
      BY <1>1, <2>1, TableFound
    <3>2. pc' \in 1..Len(kmain(m)) + 1
      BY <1>1, <1>3, <2>1
    <3>. QED
      BY <1>1, <2>1, <3>1, <3>2 DEF BootType
  <2>3. Walk' /\ BootsExactly'
    BY <1>1, <2>1 DEF BootInv, Walk, BootsExactly, HasFramebuffer
  <2>4. Written'
    <3>1. ~(pc' <= CpuEnd(m) + 1) /\ ~(pc' <= PciEnd(m))
      BY <1>3, <1>4, <2>1
    <3>. QED
      BY <1>1, <3>1 DEF Written
  <2>5. AcpiFields'
    <3>1. ~(pc' > VersionEnd(m) + 6)
      BY <1>3, <1>4, <2>1
    <3>. QED
      BY <1>1, <1>4, <1>5, <1>7, <2>1, <3>1 DEF AcpiFields
  <2>6. NotYet'
    <3>1. NotYet
      BY DEF BootInv
    <3>2. \A n \in Nat : pc' <= CpuEnd(m) + n => pc <= CpuEnd(m) + n
      BY <1>3, <1>4, <2>1
    <3>. QED
      BY <1>1, <3>1, <3>2 DEF NotYet
  <2>. QED
    BY <2>2, <2>3, <2>4, <2>5, <2>6 DEF BootInv
<1>8. CASE ~(m.revision \in {0, 2})
  <2>1. where' = "wild" /\ UNCHANGED <<pc, fadt>>
    BY <1>2, <1>6, <1>8
  <2>2. BootType' /\ Written' /\ AcpiFields' /\ NotYet'
    BY <1>1, <2>1 DEF BootInv, BootType, Written, AcpiFields, NotYet
  <2>3. Walk'
    BY <1>1, <2>1 DEF BootInv, Walk, HasFramebuffer
  <2>4. BootsExactly'
    BY <1>1, <1>4, <1>8, <2>1 DEF BootsExactly, Bootable, RootRefused
  <2>. QED
    BY <2>2, <2>3, <2>4 DEF BootInv
<1>. QED
  BY <1>7, <1>8

\* The walks of the tags, which leave the records alone.
LEMMA TagInv == BootInv /\ (TagFound \/ NextTag) => BootInv'
<1> SUFFICES ASSUME BootInv, TagFound \/ NextTag
             PROVE  BootInv'
  OBVIOUS
<1>1. /\ machine \in Machines /\ where = "tags" /\ lookups # <<>> /\ HasFramebuffer
      /\ lookups \in Seq(TagIds \ {"other"}) /\ tag \in 1..Len(machine.tags)
      /\ \A i \in 1..tag - 1 : machine.tags[i] # Head(lookups)
      /\ UNCHANGED <<machine, pc, low, fadt>>
  BY DEF BootInv, BootType, Walk, TagFound, NextTag
<1>2. /\ Len(machine.tags) \in Nat \ {0} /\ DOMAIN machine.tags = 1..Len(machine.tags)
      /\ Head(lookups) \in TagIds \ {"other"} /\ Tail(lookups) \in Seq(TagIds \ {"other"})
      /\ Head(lookups) = lookups[1] /\ Len(lookups) \in Nat \ {0}
      /\ DOMAIN lookups = 1..Len(lookups) /\ DOMAIN Tail(lookups) = 1..Len(lookups) - 1
      /\ \A k \in 1..Len(lookups) - 1 : Tail(lookups)[k] = lookups[k + 1]
  BY <1>1, BootMachine
<1>3. \A id \in TagIds \ {"other"} :
         \/ \E i \in DOMAIN machine.tags : machine.tags[i] = id
         \/ \E k \in DOMAIN lookups : lookups[k] = id
  BY DEF BootInv, Walk
<1>4. ASSUME where' # "done"
      PROVE  Written' /\ AcpiFields' /\ NotYet'
  BY <1>1, <1>4 DEF BootInv, Written, AcpiFields, NotYet
<1>5. CASE TagFound
  <2>1. /\ machine.tags[tag] = lookups[1] /\ lookups' = Tail(lookups) /\ tag' = 1
        /\ where' = IF Tail(lookups) = <<>> THEN "records" ELSE "tags"
    BY <1>2, <1>5 DEF TagFound
  <2>2. BootType'
    BY <1>1, <1>2, <2>1 DEF BootInv, BootType
  <2>3. Walk'
    <3>1. ASSUME NEW id \in TagIds \ {"other"}
          PROVE  \/ \E i \in DOMAIN machine.tags : machine.tags[i] = id
                 \/ \E k \in DOMAIN Tail(lookups) : Tail(lookups)[k] = id
      <4>1. CASE \E i \in DOMAIN machine.tags : machine.tags[i] = id
        BY <4>1
      <4>2. CASE \E k \in DOMAIN lookups : lookups[k] = id
        <5>1. PICK k \in 1..Len(lookups) : lookups[k] = id
          BY <1>2, <4>2
        <5>2. CASE k = 1
          BY <1>1, <1>2, <2>1, <5>1, <5>2
        <5>3. CASE k # 1
          <6>1. k - 1 \in 1..Len(lookups) - 1 /\ (k - 1) + 1 = k
            BY <1>2, <5>3
          <6>2. Tail(lookups)[k - 1] = id
            BY <1>2, <5>1, <6>1
          <6>. QED
            BY <1>2, <6>1, <6>2
        <5>. QED
          BY <5>2, <5>3
      <4>. QED
        BY <1>3, <4>1, <4>2
    <3>2. \A i \in 1..tag' - 1 : machine.tags[i] # Head(lookups')
      BY <2>1
    <3>. QED
      BY <1>1, <2>1, <3>1, <3>2 DEF Walk, HasFramebuffer
  <2>4. where' \in {"records", "tags"}
    BY <2>1
  <2>. QED
    BY <1>4, <2>2, <2>3, <2>4 DEF BootInv, BootsExactly
<1>6. CASE NextTag
  <2>1. /\ machine.tags[tag] # Head(lookups) /\ UNCHANGED lookups
        /\ IF tag < Len(machine.tags)
           THEN tag' = tag + 1 /\ UNCHANGED where
           ELSE where' = "lost" /\ UNCHANGED tag
    BY <1>6 DEF NextTag
  <2>2. \A i \in 1..tag : machine.tags[i] # Head(lookups)
    <3>1. ASSUME NEW i \in 1..tag
          PROVE  i = tag \/ i \in 1..tag - 1
      BY <1>1, <1>2
    <3>. QED
      BY <1>1, <2>1, <3>1
  <2>3. CASE tag < Len(machine.tags)
    <3>1. tag' = tag + 1 /\ where' = "tags"
      BY <1>1, <2>1, <2>3
    <3>2. BootType'
      BY <1>1, <1>2, <2>1, <2>3, <3>1 DEF BootInv, BootType
    <3>3. Walk'
      <4>1. \A i \in 1..tag' - 1 : machine.tags[i] # Head(lookups)
        BY <1>1, <1>2, <2>2, <3>1
      <4>. QED
        BY <1>1, <1>3, <2>1, <3>1, <4>1 DEF Walk, HasFramebuffer
    <3>. QED
      BY <1>4, <3>1, <3>2, <3>3 DEF BootInv, BootsExactly
  <2>4. CASE ~(tag < Len(machine.tags))
    <3>1. where' = "lost" /\ UNCHANGED tag
      BY <2>1, <2>4
    <3>2. BootType' /\ Walk'
      BY <1>1, <1>3, <2>1, <3>1 DEF BootInv, BootType, Walk, HasFramebuffer
    <3>3. ~(\E i \in DOMAIN machine.tags : machine.tags[i] = Head(lookups))
      BY <1>1, <1>2, <2>2, <2>4
    <3>4. BootsExactly'
      BY <1>1, <1>2, <3>1, <3>3 DEF BootsExactly, Bootable
    <3>. QED
      BY <1>4, <3>1, <3>2, <3>4 DEF BootInv
  <2>. QED
    BY <2>3, <2>4
<1>. QED
  BY <1>5, <1>6

\* The consoles' own walks of the whole list.
LEMMA ConsoleInv == BootInv /\ (VBE_init \/ Framebuffer_init) => BootInv'
<1> SUFFICES ASSUME BootInv, VBE_init \/ Framebuffer_init
             PROVE  BootInv'
  OBVIOUS
<1>1. /\ machine \in Machines /\ UNCHANGED <<machine, tag, lookups, pc, low, fadt>>
      /\ BootType /\ Walk /\ AcpiFields
  BY DEF BootInv, BootType, VBE_init, Framebuffer_init
<1>2. Written' /\ NotYet'
  BY <1>1 DEF BootInv, Written, NotYet
<1>3. CASE VBE_init
  <2>1. where = "vbe" /\ where' = IF HasFramebuffer THEN "tags" ELSE "wild"
    BY <1>3 DEF VBE_init
  <2>2. BootType' /\ AcpiFields'
    BY <1>1, <2>1 DEF BootType, AcpiFields
  <2>3. Walk'
    <3>1. tag = 1 /\ \A i \in 1..tag - 1 : machine.tags[i] # Head(lookups)
      BY <1>1, <2>1 DEF Walk
    <3>. QED
      BY <1>1, <2>1, <3>1 DEF Walk, HasFramebuffer
  <2>4. BootsExactly'
    BY <1>1, <2>1 DEF BootsExactly, Bootable, HasFramebuffer, TagIds
  <2>. QED
    BY <1>2, <2>2, <2>3, <2>4 DEF BootInv
<1>4. CASE Framebuffer_init
  <2>1. where = "records" /\ pc > Len(kmain(machine)) /\ where' = "done" /\ lookups = <<>>
    BY <1>1, <1>4 DEF Framebuffer_init, Walk
  <2>2. BootType' /\ AcpiFields'
    BY <1>1, <2>1 DEF BootType, AcpiFields
  <2>3. Walk'
    BY <1>1, <2>1 DEF Walk, HasFramebuffer
  <2>4. Bootable(machine)
    <3>1. \A id \in TagIds \ {"other"} : \E i \in DOMAIN machine.tags : machine.tags[i] = id
      BY <1>1, <2>1 DEF Walk
    <3>2. machine.revision \in {0, 2} \/ (machine.revision = 1 /\ ~machine.rootOk)
      <4>1. /\ VersionEnd(machine) \in Nat /\ pc \in Int
            /\ ~RootRefused(machine) => Len(kmain(machine)) = VersionEnd(machine) + 6
        BY <1>1, EndsInOrder DEF BootType
      <4>2. ~RootRefused(machine) => pc > VersionEnd(machine) + 2
        BY <2>1, <4>1
      <4>. QED
        <5>1. machine.revision \in 0..255
          BY <1>1, BootMachine
        <5>2. CASE RootRefused(machine)
          BY <5>1, <5>2 DEF RootRefused
        <5>3. CASE ~RootRefused(machine)
          BY <1>1, <4>2, <5>3 DEF AcpiFields
        <5>. QED
          BY <5>2, <5>3
    <3>. QED
      BY <3>1, <3>2 DEF Bootable
  <2>5. BootsExactly'
    BY <1>1, <2>1, <2>4 DEF BootsExactly
  <2>. QED
    BY <1>2, <2>2, <2>3, <2>5 DEF BootInv
<1>. QED
  BY <1>3, <1>4

LEMMA BootStepInv == BootInv /\ [BootNext]_bootvars => BootInv'
<1>1. ASSUME BootInv, UNCHANGED bootvars
      PROVE  BootInv'
  BY <1>1 DEF BootInv, BootType, Walk, Written, NotYet, AcpiFields, BootsExactly, HasFramebuffer,
             bootvars
<1>. QED
  BY <1>1, WriteInv, ReadInv, FindInv, TagInv, ConsoleInv DEF BootNext, Step, Beyond

LEMMA Booting == BootSpec => []BootInv
BY BootInitInv, BootStepInv, PTL DEF BootSpec

----------------------------------------------------------------------------
(* The records: the theorems *)

\* Although the four records lie over one another, a component that reads a field
\* finds there what it stored last itself, on every machine; only the bitmap at NULL,
\* whose bits PMM_init clears, and the version of a revision that ACPI_init does not
\* know, are another's, and always are.
THEOREM ReadsItsOwn == BootSpec => []OwnFields
<1>1. BootInv => OwnFields
  <2> SUFFICES ASSUME BootInv, InRecords("read")
               PROVE  low[Access.offset].who = Access.who <=> ~Foreign(machine, Access)
    BY DEF OwnFields
  <2>1. /\ machine \in Machines /\ pc \in Nat /\ BootType /\ Written /\ NotYet /\ AcpiFields
        /\ machine.revision \in 0..255
    BY BootMachine DEF BootInv, BootType
  <2>2. /\ CpuEnd(machine) \in Nat /\ PmmEnd(machine) \in Nat /\ PciEnd(machine) \in Nat
        /\ VersionEnd(machine) \in Nat
    BY <2>1, EndsInOrder
  <2>3. pc > 3 /\ pc <= CpuEnd(machine) =>
           /\ low[0].who = "cpu" /\ low[8].who = "cpu" /\ low[24].who = "cpu"
           /\ pc > 7 => low[16].who = "cpu"
    <3>1. pc > 3 /\ pc <= CpuEnd(machine) => pc <= CpuEnd(machine) + 1 /\ pc > 1 /\ pc > 2
      BY <2>1, <2>2
    <3>. QED
      BY <2>1, <3>1 DEF Written
  <2>4. pc > PmmEnd(machine) + 2 /\ pc <= PciEnd(machine) =>
           low[0].who = "pci" /\ low[8].who = "pci"
    <3>1. pc > PmmEnd(machine) + 2 => pc > PmmEnd(machine) /\ pc > PmmEnd(machine) + 1
      BY <2>1, <2>2
    <3>. QED
      BY <2>1, <3>1 DEF Written
  <2>5. pc > VersionEnd(machine) => (low[24].who = "acpi" <=> machine.revision <= 2)
    <3>1. pc > VersionEnd(machine) /\ machine.revision <= 2 =>
             low[24] = [who |-> "acpi", value |-> Version(machine)]
      BY <2>1 DEF AcpiFields
    <3>2. ~(machine.revision <= 2) => low[24].who # "acpi"
      BY <2>1 DEF NotYet
    <3>. QED
      BY <3>1, <3>2
  <2>6. CASE \/ pc <= CpuEnd(machine) /\ pc = 4 /\ Access.who = "cpu" /\ Access.offset = 24
             \/ pc <= CpuEnd(machine) /\ pc = 5 /\ Access.who = "cpu" /\ Access.offset = 0
             \/ pc <= CpuEnd(machine) /\ pc = 6 /\ Access.who = "cpu" /\ Access.offset = 8
             \/ pc <= CpuEnd(machine) /\ pc = 8 /\ Access.who = "cpu" /\ Access.offset = 16
    BY <2>3, <2>6 DEF Foreign
  <2>7. CASE \/ /\ pc = PmmEnd(machine) + 5 /\ pc <= PciEnd(machine)
                /\ Access.who = "pci" /\ Access.offset = 0
             \/ /\ pc = PmmEnd(machine) + 6 /\ pc <= PciEnd(machine)
                /\ Access.who = "pci" /\ Access.offset = 8
    <3>1. pc > PmmEnd(machine) + 2 /\ pc <= PciEnd(machine)
      BY <2>1, <2>2, <2>7
    <3>. QED
      BY <2>4, <2>7, <3>1 DEF Foreign
  <2>8. CASE \/ pc = VersionEnd(machine) + 1 /\ Access.who = "acpi" /\ Access.offset = 24
             \/ pc = VersionEnd(machine) + 3 /\ Access.who = "acpi" /\ Access.offset = 24
    <3>1. pc > VersionEnd(machine)
      BY <2>1, <2>2, <2>8
    <3>. QED
      BY <2>1, <2>5, <2>8, <3>1 DEF Foreign
  <2>9. CASE /\ pc > CpuEnd(machine) /\ pc <= PmmEnd(machine) /\ Access.who = "pmm"
             /\ \/ pc = CpuEnd(machine) + 1 /\ Access.offset = 0
                \/ pc = CpuEnd(machine) + 3 /\ Access.offset = 8
                \/ pc = CpuEnd(machine) + 5 /\ Access.offset = 16
                \/ pc = CpuEnd(machine) + 7 /\ Access.offset = 24
    <3>1. /\ pc = CpuEnd(machine) + 1 => pc <= CpuEnd(machine) + 2
          /\ pc = CpuEnd(machine) + 3 => pc <= CpuEnd(machine) + 4
          /\ pc = CpuEnd(machine) + 5 => pc <= CpuEnd(machine) + 6
          /\ pc = CpuEnd(machine) + 7 => pc <= CpuEnd(machine) + 8
      BY <2>2
    <3>2. low[Access.offset].who # "pmm"
      BY <2>1, <2>9, <3>1 DEF NotYet
    <3>. QED
      BY <2>9, <3>2 DEF Foreign
  <2>. QED
    BY <2>1, <2>6, <2>7, <2>8, <2>9, Loads
<1>. QED
  BY <1>1, Booting, PTL

\* acpi_info->fadt, when kmain is done, is the first FACP of the root table with a
\* right checksum or NULL, also where ACPI_init returned before it stored one.
THEOREM FadtFound == BootSpec => []FadtTrusted
<1>1. BootInv => FadtTrusted
  <2> DEFINE m == machine
             v == low[16].value
             fine(i) == /\ m.rootOk /\ m.tables[i].facp /\ m.tables[i].ok
                        /\ \A j \in 1..i - 1 : ~m.tables[j].facp
  <2> SUFFICES ASSUME BootInv, where = "done", m.rootOk \/ m.devices
               PROVE  (v # Null => fine(v)) /\ \A i \in DOMAIN m.tables : fine(i) => v = i
    BY DEF FadtTrusted
  <2>1. /\ m \in Machines /\ pc \in 1..Len(kmain(m)) + 1 /\ AcpiFields
        /\ pc > Len(kmain(m))
    BY DEF BootInv, BootType, AcpiFields
  <2>2. /\ PmmEnd(m) \in Nat /\ PciEnd(m) \in Nat /\ VersionEnd(m) \in Nat /\ Len(kmain(m)) \in Nat
        /\ IF m.devices THEN PciEnd(m) = PmmEnd(m) + 6 ELSE PciEnd(m) = PmmEnd(m)
        /\ IF m.revision <= 2 THEN VersionEnd(m) = PciEnd(m) + 1 ELSE VersionEnd(m) = PciEnd(m)
        /\ IF RootRefused(m) THEN Len(kmain(m)) = VersionEnd(m)
           ELSE Len(kmain(m)) = VersionEnd(m) + 6
    BY <2>1, EndsInOrder
  <2>3. CASE RootRefused(m)
    <3>1. ~m.rootOk /\ m.devices
      BY <2>3 DEF RootRefused
    <3>2. pc > PmmEnd(m) + 3 /\ pc <= VersionEnd(m) + 6
      BY <2>1, <2>2, <2>3, <3>1
    <3>3. v = Null
      BY <2>1, <3>1, <3>2 DEF AcpiFields
    <3>. QED
      BY <3>1, <3>3
  <2>4. CASE ~RootRefused(m)
    <3>1. pc > VersionEnd(m) + 6 /\ pc > VersionEnd(m) + 2
      BY <2>1, <2>2, <2>4
    <3>2. v = ACPI_find_table(m) /\ m.revision \in {0, 2}
      BY <2>1, <3>1 DEF AcpiFields
    <3>3. m.rootOk
      BY <2>4, <3>2 DEF RootRefused
    <3>4. v # Null => fine(v)
      BY <2>1, <3>2, <3>3, TableFound DEF FirstFACP
    <3>5. ASSUME NEW i \in DOMAIN m.tables, fine(i)
          PROVE  v = i
      <4>1. FirstFACP(m, i)
        BY <3>5 DEF FirstFACP
      <4>. QED
        BY <2>1, <3>2, <4>1, TableFound
    <3>. QED
      BY <3>4, <3>5
  <2>. QED
    BY <2>3, <2>4
<1>. QED
  BY <1>1, Booting, PTL

\* Which machines boot: kmain gets to the end of its walks on no machine but those with
\* all four tags and an RSDP of revision 0 or 2, or 1 with a refused root table, and on
\* those it never leaves the tags or the tables.
THEOREM BootsOnlyBootable == BootSpec => []BootsExactly
BY Booting, PTL DEF BootInv

\* What kmain still has ahead: for each lookup a walk of the tags, then the accesses,
\* then the second console.
Ahead ==
    (IF where = "vbe" THEN 2 ELSE IF where \in {"tags", "records"} THEN 1 ELSE 0)
    + Len(lookups) * Len(machine.tags) + (Len(machine.tags) - tag)
    + (Len(kmain(machine)) + 1 - pc)

\* Every step of kmain's brings its end nearer, so no walk of the tags and no search
\* goes on for ever; and until an end there is a step to take, as the lookup, the place
\* among the accesses and the next access say.
THEOREM BootForward ==
    BootSpec => /\ [][Ahead' < Ahead]_bootvars
                /\ [](/\ Ahead \in Nat
                      /\ where \in {"vbe", "tags", "records", "done", "lost", "wild"}
                      /\ where = "tags" => lookups # <<>> /\ tag \in DOMAIN machine.tags
                      /\ where = "records" /\ pc <= Len(kmain(machine)) =>
                            Access.op \in {"write", "read", "find"})
<1> DEFINE Steps == /\ Ahead \in Nat
                    /\ where \in {"vbe", "tags", "records", "done", "lost", "wild"}
                    /\ where = "tags" => lookups # <<>> /\ tag \in DOMAIN machine.tags
                    /\ where = "records" /\ pc <= Len(kmain(machine)) =>
                          Access.op \in {"write", "read", "find"}
           L == Len(machine.tags)
           K == Len(lookups)
           N == Len(kmain(machine))
           rounds == IF where = "vbe" THEN 2 ELSE IF where \in {"tags", "records"} THEN 1 ELSE 0
<1>1. ASSUME BootInv
      PROVE  /\ L \in Nat \ {0} /\ K \in Nat /\ N \in Nat /\ tag \in 1..L /\ pc \in 1..N + 1
             /\ K * L \in Nat /\ rounds \in Nat /\ Ahead = rounds + K * L + (L - tag) + (N + 1 - pc)
  <2>1. /\ machine \in Machines /\ tag \in 1..L /\ pc \in 1..N + 1
        /\ lookups \in Seq(TagIds \ {"other"})
    BY <1>1 DEF BootInv, BootType
  <2>2. L \in Nat \ {0} /\ N \in Nat /\ K \in Nat
    BY <2>1, BootMachine, EndsInOrder
  <2>3. K * L \in Nat
    BY <2>2
  <2>. QED
    BY <2>1, <2>2, <2>3, Zenon DEF Ahead
<1>2. BootInv => Steps
  <2> SUFFICES ASSUME BootInv
               PROVE  Steps
    OBVIOUS
  <2>1. Ahead \in Nat
    <3>1. /\ L \in Nat \ {0} /\ K \in Nat /\ N \in Nat /\ tag \in 1..L /\ pc \in 1..N + 1
          /\ K * L \in Nat /\ rounds \in Nat
          /\ Ahead = rounds + K * L + (L - tag) + (N + 1 - pc)
      BY <1>1
    <3> HIDE DEF L, K, N, rounds
    <3>. QED
      BY <3>1
  <2>2. /\ where \in {"vbe", "tags", "records", "done", "lost", "wild"}
        /\ where = "tags" => lookups # <<>>
        /\ machine \in Machines
    BY DEF BootInv, BootType, Walk
  <2>3. tag \in DOMAIN machine.tags
    BY <1>1, <2>2, BootMachine
  <2>4. ASSUME pc <= N
        PROVE  Access.op \in {"write", "read", "find"}
    <3>1. pc \in 1..N
      BY <1>1, <2>4
    <3>2. Access \in Accesses
      BY <2>2, <3>1, AccessFacts DEF Access
    <3>. QED
      BY <3>2 DEF Accesses
  <2>. QED
    BY <2>1, <2>2, <2>3, <2>4
<1>3. BootInv /\ BootInv' /\ [BootNext]_bootvars => [Ahead' < Ahead]_bootvars
  <2> SUFFICES ASSUME BootInv, BootInv', BootNext, ~UNCHANGED bootvars
               PROVE  Ahead' < Ahead
    OBVIOUS
  <2>1. /\ L \in Nat \ {0} /\ K \in Nat /\ N \in Nat /\ tag \in 1..L /\ pc \in 1..N + 1
        /\ K * L \in Nat /\ Ahead = rounds + K * L + (L - tag) + (N + 1 - pc)
    BY <1>1
  <2>2. machine' = machine
    BY DEF BootNext, Step, Beyond, VBE_init, TagFound, NextTag, WriteField, ReadField, FindTable,
           Framebuffer_init, bootvars
  <2>3. Ahead' = rounds' + Len(lookups') * L + (L - tag') + (N + 1 - pc')
    BY <2>2, Zenon DEF Ahead
  <2>4. CASE VBE_init \/ Framebuffer_init
    <3>1. /\ UNCHANGED <<lookups, tag, pc>>
          /\ \/ rounds = 2 /\ rounds' = 1
             \/ rounds = 2 /\ rounds' = 0
             \/ rounds = 1 /\ rounds' = 0
      BY <2>4 DEF VBE_init, Framebuffer_init
    <3> HIDE DEF rounds
    <3>2. Ahead' = rounds' + K * L + (L - tag) + (N + 1 - pc)
      BY <2>3, <3>1
    <3> HIDE DEF K, L, N
    <3>. QED
      BY <2>1, <3>1, <3>2
  <2>5. CASE TagFound
    <3>1. /\ rounds = 1 /\ rounds' = 1 /\ tag' = 1 /\ UNCHANGED pc
          /\ lookups' = Tail(lookups) /\ lookups # <<>> /\ lookups \in Seq(TagIds \ {"other"})
      BY <2>5 DEF TagFound, BootInv, BootType, Walk
    <3>2. Len(lookups') = K - 1
      BY <3>1
    <3>3. (K - 1) * L = K * L - L
      <4> HIDE DEF K, L
      <4>. QED
        BY <2>1
    <3> HIDE DEF rounds
    <3>4. Ahead' = 1 + (K * L - L) + (L - 1) + (N + 1 - pc)
      BY <2>3, <3>1, <3>2, <3>3
    <3> HIDE DEF K, L, N
    <3>. QED
      BY <2>1, <3>1, <3>4
  <2>6. CASE NextTag
    <3>1. /\ rounds = 1 /\ UNCHANGED <<pc, lookups>>
          /\ \/ rounds' = 1 /\ tag' = tag + 1
             \/ rounds' = 0 /\ tag' = tag
      BY <2>6 DEF NextTag
    <3> HIDE DEF rounds
    <3>2. Ahead' = rounds' + K * L + (L - tag') + (N + 1 - pc)
      BY <2>3, <3>1
    <3> HIDE DEF K, L, N
    <3>. QED
      BY <2>1, <3>1, <3>2
  <2>7. CASE WriteField \/ ReadField \/ FindTable
    <3>1. /\ rounds = 1 /\ UNCHANGED <<tag, lookups>>
          /\ \/ rounds' = 1 /\ pc' = pc + 1
             \/ rounds' = 0 /\ pc' = pc
      BY <2>7 DEF WriteField, ReadField, FindTable, InRecords
    <3> HIDE DEF rounds
    <3>2. Ahead' = rounds' + K * L + (L - tag) + (N + 1 - pc')
      BY <2>3, <3>1
    <3> HIDE DEF K, L, N
    <3>. QED
      BY <2>1, <3>1, <3>2
  <2>. QED
    BY <2>4, <2>5, <2>6, <2>7 DEF BootNext, Step, Beyond
<1>4. BootSpec => [][Ahead' < Ahead]_bootvars
  BY <1>3, Booting, PTL DEF BootSpec
<1>5. BootSpec => []Steps
  BY <1>2, Booting, PTL
<1>. QED
  BY <1>4, <1>5, PTL
=============================================================================
