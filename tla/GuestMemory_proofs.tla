-------------------------- MODULE GuestMemory_proofs --------------------------
(***************************************************************************)
(* What holds of GuestMemory for every value of its constants: types,      *)
(* disjoint regions and their account, and write ranges that stay inside   *)
(* their region and miss no byte while there is room.                                       *)
(***************************************************************************)
EXTENDS GuestMemory, FiniteSetTheorems, TLAPS

\* The inductive invariant, of any set of regions: map works on the regions
\* that are left when HeapReAlloc has given the old block up.
Separate(rs) ==
  /\ \A s \in DOMAIN rs : rs[s].size > 0 /\ End(rs, s) <= Limit
  /\ \A s, t \in DOMAIN rs : s < t => End(rs, s) <= t

Inside(rs) ==
  \A s \in DOMAIN rs : \A i \in 1..Len(rs[s].ranges) :
    /\ s <= rs[s].ranges[i][1]
    /\ rs[s].ranges[i][1] < rs[s].ranges[i][2]
    /\ rs[s].ranges[i][2] <= End(rs, s)

Typed(rs) == DOMAIN rs \subseteq Address /\ rs \in [DOMAIN rs -> Region]

RegionsOK(rs) == Typed(rs) /\ Separate(rs) /\ Inside(rs)

CountersOK ==
  allocated \in 0..MaxMemory /\ heapNext \in HeapBase..Limit

Inv == RegionsOK(regions) /\ CountersOK

-----------------------------------------------------------------------------
(* map and unmap *)

LEMMA WithoutOK ==
  ASSUME NEW rs, RegionsOK(rs), NEW a
  PROVE  RegionsOK(Without(rs, a))
  BY DEF RegionsOK, Typed, Separate, Inside, Without, End

LEMMA ReleasedType ==
  ASSUME NEW rs, Typed(rs), NEW used \in 0..MaxMemory, NEW a
  PROVE  Released(rs, used, a) \in 0..MaxMemory
  <1>1. CASE a \in DOMAIN rs
    <2>1. rs[a].size \in Nat
      BY <1>1 DEF Typed, Region
    <2> QED  BY <1>1, <2>1, MemoryAssumption DEF Released, Most
  <1>2. CASE a \notin DOMAIN rs
    BY <1>2 DEF Released
  <1> QED  BY <1>1, <1>2

LEMMA CleanType ==
  ASSUME NEW size \in Nat, NEW p \in SUBSET {"r", "w", "x"}
  PROVE  Clean(size, p) \in Region
  <1>1. <<>> \in Seq(Address \X Address)
    OBVIOUS
  <1> QED  BY <1>1 DEF Clean, Region

\* A region that CanMap accepts leaves the others as they are and apart.
LEMMA MapOK ==
  ASSUME NEW rs, RegionsOK(rs), NEW used \in 0..MaxMemory, NEW start \in Address,
         NEW size \in Nat, NEW p \in SUBSET {"r", "w", "x"}, Map(rs, used, start, size, p)
  PROVE  RegionsOK(regions') /\ allocated' \in 0..MaxMemory
  <1>1. CASE ~CanMap(rs, used, start, size)
    BY <1>1 DEF Map
  <1>2. CASE CanMap(rs, used, start, size)
    <2> DEFINE new == [s \in DOMAIN rs \cup {start} |->
                         IF s = start THEN Clean(size, p) ELSE rs[s]]
    <2>1. regions' = new /\ allocated' = used + size
      BY <1>2 DEF Map
    <2>2. /\ size > 0 /\ used + size <= MaxMemory /\ start + size <= Limit
          /\ \A s \in DOMAIN rs : start >= End(rs, s) \/ start + size <= s
      <3>1. \A s \in DOMAIN rs : s \in Int /\ End(rs, s) \in Int
        BY MemoryAssumption DEF RegionsOK, Typed, Address, Region, End
      <3> QED  BY <1>2, <3>1, MemoryAssumption DEF CanMap, Overlaps, Address
    <2>3. Typed(new)
      BY CleanType DEF RegionsOK, Typed
    <2>4. /\ new[start].size = size /\ new[start].ranges = <<>> /\ End(new, start) = start + size
          /\ \A s \in DOMAIN rs \ {start} : new[s] = rs[s] /\ End(new, s) = End(rs, s)
      BY DEF Clean, End
    <2>5. Separate(new)
      <3>1. \A s \in DOMAIN new : new[s].size > 0 /\ End(new, s) <= Limit
        BY <2>2, <2>4 DEF RegionsOK, Separate
      <3>2. ASSUME NEW s \in DOMAIN new, NEW t \in DOMAIN new, s < t
            PROVE  End(new, s) <= t
        <4>1. s \in Int /\ t \in Int
          BY MemoryAssumption DEF RegionsOK, Typed, Address
        <4>2. CASE s = start
          <5>0. t \in DOMAIN rs
            BY <3>2, <4>1, <4>2
          <5>1. t \in DOMAIN rs /\ rs[t].size \in Nat /\ rs[t].size > 0
            BY <5>0 DEF RegionsOK, Typed, Region, Separate
          <5>2. ~(start >= End(rs, t))
            BY <3>2, <4>1, <4>2, <5>1 DEF End
          <5> QED  BY <2>2, <2>4, <4>2, <5>1, <5>2
        <4>3. CASE t = start
          <5>1. s \in DOMAIN rs \ {start}
            BY <3>2, <4>1, <4>3
          <5>2. ~(start + size <= s)
            BY <3>2, <4>1, <4>3, <2>2
          <5> QED  BY <2>2, <2>4, <4>3, <5>1, <5>2
        <4>4. CASE s # start /\ t # start
          BY <3>2, <4>4, <2>4 DEF RegionsOK, Separate
        <4> QED  BY <4>2, <4>3, <4>4
      <3> QED  BY <3>1, <3>2 DEF Separate
    <2>6. Inside(new)
      <3> SUFFICES ASSUME NEW s \in DOMAIN new, NEW i \in 1..Len(new[s].ranges)
                   PROVE  /\ s <= new[s].ranges[i][1]
                          /\ new[s].ranges[i][1] < new[s].ranges[i][2]
                          /\ new[s].ranges[i][2] <= End(new, s)
        BY DEF Inside
      <3>1. s # start
        BY <2>4
      <3>2. s \in DOMAIN rs
        BY <3>1
      <3> QED  BY <2>4, <3>1, <3>2 DEF RegionsOK, Inside
    <2>7. allocated' \in 0..MaxMemory
      BY <2>1, <2>2, MemoryAssumption
    <2> QED  BY <2>1, <2>3, <2>5, <2>6, <2>7 DEF RegionsOK
  <1> QED  BY <1>1, <1>2

\* Rounding to pages yields a size.
LEMMA AlignType ==
  ASSUME NEW size \in Nat
  PROVE  AlignPage(size) \in Nat
  <1> DEFINE q == Least(size + Page - 1, Limit) \div Page
  <1>1. q \in Nat
    <2>1. Least(size + Page - 1, Limit) \in Nat
      BY MemoryAssumption DEF Least
    <2> HIDE DEF Least
    <2> QED  BY <2>1, MemoryAssumption
  <1> HIDE DEF q
  <1>2. q * Page \in Nat
    BY <1>1, MemoryAssumption
  <1> QED  BY <1>2 DEF AlignPage, q

LEMMA FromHeapOK ==
  ASSUME NEW rs, RegionsOK(rs), CountersOK, NEW used \in 0..MaxMemory, NEW size \in Nat,
         NEW p \in SUBSET {"r", "w", "x"}, FromHeap(rs, used, size, p)
  PROVE  Inv'
  <1>1. heapNext \in Address
    BY MemoryAssumption DEF CountersOK, Address
  <1>2. RegionsOK(regions') /\ allocated' \in 0..MaxMemory
    BY <1>1, MapOK DEF FromHeap
  <1>3. heapNext' \in HeapBase..Limit
    <2>1. Advance(size) \in Nat
      BY MemoryAssumption DEF Advance
    <2> QED  BY <2>1, MemoryAssumption DEF FromHeap, HeapAfter, Least, CountersOK
  <1> QED  BY <1>2, <1>3 DEF Inv, CountersOK

-----------------------------------------------------------------------------
(* Protection and writes *)

\* Regions that keep their places and sizes, with ranges inside, stay well.
LEMMA ReplaceOK ==
  ASSUME NEW rs, RegionsOK(rs), NEW new, DOMAIN new = DOMAIN rs,
         new \in [DOMAIN new -> Region],
         \A s \in DOMAIN rs :
           /\ new[s].size = rs[s].size
           /\ \A i \in 1..Len(new[s].ranges) : /\ s <= new[s].ranges[i][1]
                                               /\ new[s].ranges[i][1] < new[s].ranges[i][2]
                                               /\ new[s].ranges[i][2] <= End(rs, s)
  PROVE  RegionsOK(new)
  <1>1. Typed(new)
    BY DEF RegionsOK, Typed
  <1>2. \A s \in DOMAIN rs : End(new, s) = End(rs, s)
    BY DEF End
  <1>3. Separate(new)
    BY <1>2 DEF RegionsOK, Separate
  <1>4. Inside(new)
    BY <1>2 DEF RegionsOK, Inside
  <1> QED  BY <1>1, <1>3, <1>4 DEF RegionsOK

\* A write inside a region keeps its ranges inside.
LEMMA RangesOK ==
  ASSUME NEW ranges \in Seq(Address \X Address), NEW low \in Nat, NEW high \in Address,
         \A i \in 1..Len(ranges) : /\ low <= ranges[i][1]
                                   /\ ranges[i][1] < ranges[i][2]
                                   /\ ranges[i][2] <= high,
         NEW address \in Address, NEW end \in Address, low <= address, address < end, end <= high
  PROVE  LET new == Ranges(ranges, address, end)
         IN  /\ new \in Seq(Address \X Address)
             /\ \A i \in 1..Len(new) : /\ low <= new[i][1]
                                       /\ new[i][1] < new[i][2]
                                       /\ new[i][2] <= high
  <1> DEFINE new == Ranges(ranges, address, end)
             last == Len(ranges)
  <1> USE MemoryAssumption DEF Address
  <1>1. CASE last > 0 /\ address <= ranges[last][2]
    <2> DEFINE merged == <<Least(ranges[last][1], address), Most(ranges[last][2], end)>>
    <2>1. new = [ranges EXCEPT ![last] = merged]
      BY <1>1 DEF Ranges
    <2>2. last \in 1..Len(ranges) /\ ranges[last] \in Address \X Address
      BY <1>1
    <2>3. /\ merged \in Address \X Address
          /\ low <= merged[1] /\ merged[1] < merged[2] /\ merged[2] <= high
      BY <2>2 DEF Least, Most
    <2> HIDE DEF merged
    <2>4. new \in Seq(Address \X Address) /\ Len(new) = Len(ranges)
      BY <2>1, <2>2, <2>3
    <2>5. \A i \in 1..Len(new) : new[i] = IF i = last THEN merged ELSE ranges[i]
      BY <2>1, <2>4
    <2> QED  BY <2>3, <2>4, <2>5
  <1>2. CASE ~(last > 0 /\ address <= ranges[last][2]) /\ last < MaxRanges
    <2>1. new = Append(ranges, <<address, end>>)
      BY <1>2 DEF Ranges
    <2>2. /\ new \in Seq(Address \X Address) /\ Len(new) = last + 1
          /\ \A i \in 1..Len(new) : new[i] = IF i = last + 1 THEN <<address, end>> ELSE ranges[i]
      BY <2>1
    <2> HIDE DEF new
    <2>3. ASSUME NEW i \in 1..Len(new)
          PROVE  low <= new[i][1] /\ new[i][1] < new[i][2] /\ new[i][2] <= high
      <3>1. CASE i = last + 1
        <4>1. new[i] = <<address, end>>
          BY <2>2, <3>1
        <4> QED  BY <4>1
      <3>2. CASE i # last + 1
        <4>1. i \in 1..Len(ranges) /\ new[i] = ranges[i]
          BY <2>2, <3>2
        <4> QED  BY <4>1
      <3> QED  BY <3>1, <3>2
    <2> QED  BY <2>2, <2>3 DEF new
  <1>3. CASE ~(last > 0 /\ address <= ranges[last][2]) /\ ~(last < MaxRanges)
    BY <1>3 DEF Ranges
  <1> QED  BY <1>1, <1>2, <1>3

\* What a write leaves of the region that holds it.
LEMMA StoredOK ==
  ASSUME RegionsOK(regions), NEW s \in DOMAIN regions, NEW address \in Nat, NEW length \in Nat,
         Holds(regions, s, address, length)
  PROVE  LET r == Stored(regions[s], address, length)
         IN  /\ r \in Region /\ r.size = regions[s].size
             /\ \A i \in 1..Len(r.ranges) : /\ s <= r.ranges[i][1]
                                            /\ r.ranges[i][1] < r.ranges[i][2]
                                            /\ r.ranges[i][2] <= End(regions, s)
  <1> DEFINE new == Ranges(regions[s].ranges, address, address + length)
             bytes == regions[s].written \cup address..(address + length - 1)
             r == [regions[s] EXCEPT !.dirty = TRUE, !.ranges = new, !.written = bytes]
  <1>1. regions[s] \in Region /\ s \in Address
    BY DEF RegionsOK, Typed
  <1>2. \A i \in 1..Len(regions[s].ranges) :
            /\ s <= regions[s].ranges[i][1]
            /\ regions[s].ranges[i][1] < regions[s].ranges[i][2]
            /\ regions[s].ranges[i][2] <= End(regions, s)
    BY DEF RegionsOK, Inside
  <1>3. CASE length = 0
    BY <1>1, <1>2, <1>3 DEF Stored
  <1>4. CASE length # 0
    <2>1. /\ s <= address /\ address + length <= End(regions, s) /\ End(regions, s) <= Limit
          /\ End(regions, s) \in Nat
      BY <1>1, MemoryAssumption DEF Holds, RegionsOK, Separate, End, Region, Address
    <2>2. /\ address \in Address /\ address + length \in Address /\ s \in Nat
          /\ End(regions, s) \in Address /\ address < address + length
      BY <1>1, <1>4, <2>1, MemoryAssumption DEF Address
    <2>3. regions[s].ranges \in Seq(Address \X Address)
      BY <1>1 DEF Region
    <2>4. /\ new \in Seq(Address \X Address)
          /\ \A i \in 1..Len(new) : /\ s <= new[i][1] /\ new[i][1] < new[i][2]
                                    /\ new[i][2] <= End(regions, s)
      <3> HIDE DEF new
      <3> QED  BY <1>2, <2>1, <2>2, <2>3, RangesOK DEF new
    <2>5. bytes \in SUBSET Address
      BY <1>1, <2>1, MemoryAssumption DEF Region, Address
    <2>6. Stored(regions[s], address, length) = r
      BY <1>4 DEF Stored
    <2> HIDE DEF new, bytes
    <2>7. r \in Region /\ r.size = regions[s].size /\ r.ranges = new
      BY <1>1, <2>4, <2>5 DEF Region
    <2> HIDE DEF r
    <2> QED  BY <2>4, <2>6, <2>7
  <1> QED  BY <1>3, <1>4

LEMMA AfterWriteOK ==
  ASSUME RegionsOK(regions), NEW address \in Nat, NEW length \in Nat
  PROVE  RegionsOK(AfterWrite(address, length))
  <1> DEFINE new == AfterWrite(address, length)
  <1>1. /\ DOMAIN new = DOMAIN regions
        /\ new = [s \in DOMAIN regions |-> new[s]]
        /\ \A s \in DOMAIN regions :
             \/ new[s] = regions[s]
             \/ /\ new[s] = Stored(regions[s], address, length)
                /\ Holds(regions, s, address, length)
    BY DEF AfterWrite
  <1> HIDE DEF new
  <1>2. ASSUME NEW s \in DOMAIN regions
        PROVE  /\ new[s] \in Region /\ new[s].size = regions[s].size
               /\ \A i \in 1..Len(new[s].ranges) : /\ s <= new[s].ranges[i][1]
                                                   /\ new[s].ranges[i][1] < new[s].ranges[i][2]
                                                   /\ new[s].ranges[i][2] <= End(regions, s)
    <2>1. CASE new[s] = regions[s]
      BY <2>1 DEF RegionsOK, Typed, Inside
    <2>2. CASE /\ new[s] = Stored(regions[s], address, length)
               /\ Holds(regions, s, address, length)
      BY <2>2, StoredOK
    <2> QED  BY <1>1, <2>1, <2>2
  <1>3. new \in [DOMAIN new -> Region]
    BY <1>1, <1>2
  <1>4. RegionsOK(new)
    BY <1>1, <1>2, <1>3, ReplaceOK
  <1> QED  BY <1>4 DEF new

LEMMA WriteOK ==
  ASSUME Inv, NEW address \in Addresses, NEW length \in Sizes, Write(address, length)
  PROVE  Inv'
  <1>1. address \in Nat /\ length \in Nat
    BY MemoryAssumption
  <1>2. RegionsOK(regions')
    BY <1>1, AfterWriteOK DEF Write, Inv
  <1> QED  BY <1>2 DEF Write, Inv, CountersOK

LEMMA ProtectOK ==
  ASSUME Inv, NEW address, NEW size, NEW p \in Requested, NEW old \in Addresses,
         VirtualProtect(address, size, p, old)
  PROVE  Inv'
  <1> DEFINE rs == IF old = 0 THEN regions ELSE AfterWrite(old, Word)
  <1>1. RegionsOK(rs)
    <2>1. old \in Nat /\ Word \in Nat
      BY MemoryAssumption
    <2> QED  BY <2>1, AfterWriteOK DEF Inv
  <1>2. DOMAIN rs = DOMAIN regions
    BY DEF AfterWrite
  <1>3. /\ DOMAIN regions' = DOMAIN regions
        /\ regions' = [s \in DOMAIN regions |-> regions'[s]]
        /\ \A s \in DOMAIN regions :
             regions'[s] = rs[s] \/ regions'[s] = [rs[s] EXCEPT !.permissions = p]
    BY DEF VirtualProtect
  <1> HIDE DEF rs
  <1>4. ASSUME NEW s \in DOMAIN regions
        PROVE  /\ regions'[s] \in Region /\ regions'[s].size = rs[s].size
               /\ regions'[s].ranges = rs[s].ranges
    <2>1. rs[s] \in Region
      BY <1>1, <1>2 DEF RegionsOK, Typed
    <2>2. CASE regions'[s] = rs[s]
      BY <2>1, <2>2
    <2>3. CASE regions'[s] = [rs[s] EXCEPT !.permissions = p]
      BY <2>1, <2>3, MemoryAssumption DEF Region
    <2> QED  BY <1>3, <2>2, <2>3
  <1>5. regions' \in [DOMAIN regions' -> Region]
    BY <1>3, <1>4
  <1>6. \A s \in DOMAIN rs : \A i \in 1..Len(regions'[s].ranges) :
            /\ s <= regions'[s].ranges[i][1]
            /\ regions'[s].ranges[i][1] < regions'[s].ranges[i][2]
            /\ regions'[s].ranges[i][2] <= End(rs, s)
    BY <1>1, <1>2, <1>4 DEF RegionsOK, Inside
  <1>7. RegionsOK(regions')
    BY <1>1, <1>2, <1>3, <1>4, <1>5, <1>6, ReplaceOK
  <1> QED  BY <1>7 DEF Inv, CountersOK, VirtualProtect

-----------------------------------------------------------------------------
(* The theorems *)

LEMMA InitInv == Init => Inv
  <1> SUFFICES ASSUME Init PROVE Inv
    OBVIOUS
  <1>1. PICK p \in {{"r", "x"}, {"r", "w", "x"}} :
          regions = [s \in {ImageBase} |-> Clean(ImageSize, p)]
    BY DEF Init
  <1>2. Clean(ImageSize, p) \in Region
    BY CleanType, MemoryAssumption
  <1>3. DOMAIN regions = {ImageBase} /\ regions[ImageBase] = Clean(ImageSize, p)
    BY <1>1
  <1>4. Typed(regions)
    BY <1>1, <1>2, MemoryAssumption DEF Typed, Address
  <1>5. Separate(regions) /\ Inside(regions)
    BY <1>3, MemoryAssumption DEF Separate, Inside, End, Clean
  <1>6. CountersOK
    BY MemoryAssumption DEF Init, CountersOK
  <1> QED  BY <1>4, <1>5, <1>6 DEF Inv, RegionsOK

LEMMA NextInv == Inv /\ [Next]_vars => Inv'
  <1> SUFFICES ASSUME Inv, [Next]_vars PROVE Inv'
    OBVIOUS
  <1> USE MemoryAssumption
  <1>1. ASSUME NEW size \in Sizes, HeapAlloc(size) PROVE Inv'
    <2>1. AlignPage(Most(size, 1)) \in Nat
      BY AlignType DEF Most
    <2> QED  BY <1>1, <2>1, FromHeapOK DEF HeapAlloc, Inv, CountersOK
  <1>2. ASSUME NEW size \in Sizes, NEW old \in Addresses, HeapReAlloc(old, size) PROVE Inv'
    <2>1. AlignPage(Most(size, 1)) \in Nat
      BY AlignType DEF Most
    <2>2. Released(regions, allocated, old) \in 0..MaxMemory
      BY ReleasedType DEF Inv, RegionsOK, CountersOK
    <2>3. RegionsOK(Without(regions, old))
      BY WithoutOK DEF Inv
    <2> QED  BY <1>2, <2>1, <2>2, <2>3, FromHeapOK DEF HeapReAlloc, Inv
  <1>3. ASSUME NEW size \in Sizes, NEW requested \in Addresses, NEW p \in Requested,
               VirtualAlloc(requested, size, p)
        PROVE Inv'
    <2>1. AlignPage(Most(size, Page)) \in Nat
      BY AlignType DEF Most
    <2>2. CASE requested = 0
      BY <1>3, <2>1, <2>2, FromHeapOK DEF VirtualAlloc, Inv, CountersOK
    <2>3. CASE requested # 0
      <3>1. RegionsOK(regions') /\ allocated' \in 0..MaxMemory
        BY <1>3, <2>1, <2>3, MapOK DEF VirtualAlloc, Inv, CountersOK, Address
      <3> QED  BY <1>3, <2>3, <3>1 DEF VirtualAlloc, Inv, CountersOK
    <2> QED  BY <2>2, <2>3
  <1>4. ASSUME NEW address \in Addresses, HeapFree(address) PROVE Inv'
    <2>1. Released(regions, allocated, address) \in 0..MaxMemory
      BY ReleasedType DEF Inv, RegionsOK, CountersOK
    <2>2. RegionsOK(Without(regions, address))
      BY WithoutOK DEF Inv
    <2> QED  BY <1>4, <2>1, <2>2 DEF HeapFree, Inv, CountersOK
  <1>5. ASSUME NEW address \in Addresses, NEW size \in Sizes, NEW p \in Requested,
               NEW old \in Addresses, VirtualProtect(address, size, p, old)
        PROVE Inv'
    BY <1>5, ProtectOK
  <1>6. ASSUME NEW address \in Addresses, NEW size \in Sizes, Write(address, size) PROVE Inv'
    BY <1>6, WriteOK
  <1>7. CASE UNCHANGED vars
    BY <1>7 DEF vars, Inv, CountersOK
  <1> QED  BY <1>1, <1>2, <1>3, <1>4, <1>5, <1>6, <1>7 DEF Next, Allocating

\* TypeOK, of which the memory limit is a part: Memory::map never lets the
\* account pass HARD_MAX_MEMORY_BYTES, and heap_next never passes u32::MAX.
THEOREM TypeCorrect == Spec => []TypeOK
  <1>1. Inv => TypeOK
    BY DEF Inv, RegionsOK, Typed, CountersOK, TypeOK
  <1> QED  BY <1>1, InitInv, NextInv, PTL DEF Spec

\* Disjoint: the regions of Memory never overlap and never wrap around.
THEOREM RegionsDisjoint == Spec => []Disjoint
  <1>1. Inv => Disjoint
    BY DEF Inv, RegionsOK, Separate, Disjoint
  <1> QED  BY <1>1, InitInv, NextInv, PTL DEF Spec

\* RangesInside: write_inner never records a range that reaches out of the
\* region that was written.
THEOREM WritesStayInside == Spec => []RangesInside
  <1>1. Inv => RangesInside
    BY DEF Inv, RegionsOK, Inside, RangesInside
  <1> QED  BY <1>1, InitInv, NextInv, PTL DEF Spec

-----------------------------------------------------------------------------
(* What was written is recorded *)

InRange(range, a) == range[1] <= a /\ a < range[2]

\* WritesCovered of one region.
CoveredIn(r) ==
  /\ r.dirty <=> r.written # {}
  /\ Len(r.ranges) < MaxRanges =>
       \A a \in r.written : \E i \in 1..Len(r.ranges) : InRange(r.ranges[i], a)

AllCovered(rs) == \A s \in DOMAIN rs : CoveredIn(rs[s])
Covered == AllCovered(regions)

\* The ranges after a write take up its bytes, and keep what they held, as long
\* as there is room for another range.
LEMMA RangesTakeUp ==
  ASSUME NEW ranges \in Seq(Address \X Address), NEW address \in Address, NEW end \in Address
  PROVE  LET new == Ranges(ranges, address, end)
         IN  Len(new) < MaxRanges =>
               /\ Len(ranges) < MaxRanges
               /\ \A a \in address..(end - 1) : \E i \in 1..Len(new) : InRange(new[i], a)
               /\ \A a \in Nat : (\E i \in 1..Len(ranges) : InRange(ranges[i], a))
                                   => \E i \in 1..Len(new) : InRange(new[i], a)
  <1> DEFINE new == Ranges(ranges, address, end)
             last == Len(ranges)
  <1> USE MemoryAssumption DEF Address
  <1>1. CASE last > 0 /\ address <= ranges[last][2]
    <2> DEFINE merged == <<Least(ranges[last][1], address), Most(ranges[last][2], end)>>
    <2>1. new = [ranges EXCEPT ![last] = merged]
      BY <1>1 DEF Ranges
    <2>2. last \in 1..Len(ranges) /\ ranges[last] \in Address \X Address
      BY <1>1
    <2>3. /\ merged \in Address \X Address
          /\ \A a \in address..(end - 1) : InRange(merged, a)
          /\ \A a \in Nat : InRange(ranges[last], a) => InRange(merged, a)
      BY <1>1, <2>2 DEF Least, Most, InRange
    <2> HIDE DEF merged
    <2>4. new \in Seq(Address \X Address) /\ Len(new) = Len(ranges)
      BY <2>1, <2>2, <2>3
    <2>5. \A i \in 1..Len(new) : new[i] = IF i = last THEN merged ELSE ranges[i]
      BY <2>1, <2>4
    <2> HIDE DEF new, InRange
    <2>6. \A a \in address..(end - 1) : \E i \in 1..Len(new) : InRange(new[i], a)
      BY <2>2, <2>3, <2>4, <2>5
    <2>7. \A a \in Nat : (\E i \in 1..Len(ranges) : InRange(ranges[i], a))
                           => \E i \in 1..Len(new) : InRange(new[i], a)
      BY <2>2, <2>3, <2>4, <2>5
    <2> QED  BY <2>4, <2>6, <2>7 DEF new
  <1>2. CASE ~(last > 0 /\ address <= ranges[last][2]) /\ last < MaxRanges
    <2>1. new = Append(ranges, <<address, end>>)
      BY <1>2 DEF Ranges
    <2>2. /\ Len(new) = last + 1 /\ new[last + 1] = <<address, end>>
          /\ \A i \in 1..Len(ranges) : i \in 1..Len(new) /\ new[i] = ranges[i]
      BY <2>1
    <2>3. last + 1 \in 1..Len(new)
      BY <2>2
    <2>4. \A a \in address..(end - 1) : InRange(<<address, end>>, a)
      BY DEF InRange
    <2> HIDE DEF new, InRange
    <2>5. \A a \in address..(end - 1) : \E i \in 1..Len(new) : InRange(new[i], a)
      BY <2>2, <2>3, <2>4
    <2>6. \A a \in Nat : (\E i \in 1..Len(ranges) : InRange(ranges[i], a))
                           => \E i \in 1..Len(new) : InRange(new[i], a)
      BY <2>2
    <2> QED  BY <1>2, <2>5, <2>6 DEF new
  <1>3. CASE ~(last > 0 /\ address <= ranges[last][2]) /\ ~(last < MaxRanges)
    BY <1>3 DEF Ranges
  <1> QED  BY <1>1, <1>2, <1>3

LEMMA StoredCovered ==
  ASSUME RegionsOK(regions), NEW s \in DOMAIN regions, NEW address \in Nat, NEW length \in Nat,
         Holds(regions, s, address, length), CoveredIn(regions[s])
  PROVE  CoveredIn(Stored(regions[s], address, length))
  <1> DEFINE old == regions[s]
             new == Ranges(old.ranges, address, address + length)
             bytes == old.written \cup address..(address + length - 1)
             r == [old EXCEPT !.dirty = TRUE, !.ranges = new, !.written = bytes]
  <1>1. CASE length = 0
    BY <1>1 DEF Stored
  <1>2. CASE length # 0
    <2>1. old \in Region /\ s \in Address
      BY DEF RegionsOK, Typed
    <2>2. address \in Address /\ address + length \in Address
      BY <2>1, MemoryAssumption DEF Holds, RegionsOK, Separate, End, Region, Address
    <2>3. old.ranges \in Seq(Address \X Address) /\ old.written \subseteq Nat
      BY <2>1, MemoryAssumption DEF Region, Address
    <2>4. address \in bytes
      BY <1>2
    <2>5. Len(new) < MaxRanges =>
            \A a \in bytes : \E i \in 1..Len(new) : InRange(new[i], a)
      <3> DEFINE before == old.ranges
                 end == address + length
                 after == Ranges(before, address, end)
      <3>1. before \in Seq(Address \X Address) /\ end \in Address /\ address \in Address
        BY <2>2, <2>3
      <3>2. new = after /\ address..(address + length - 1) = address..(end - 1)
        OBVIOUS
      <3> HIDE DEF before, end, InRange
      <3>3. Len(after) < MaxRanges =>
              /\ Len(before) < MaxRanges
              /\ \A a \in address..(end - 1) : \E i \in 1..Len(after) : InRange(after[i], a)
              /\ \A a \in Nat : (\E i \in 1..Len(before) : InRange(before[i], a))
                                  => \E i \in 1..Len(after) : InRange(after[i], a)
        BY <3>1, RangesTakeUp, Zenon
      <3>4. Len(before) < MaxRanges =>
              \A a \in old.written : \E i \in 1..Len(before) : InRange(before[i], a)
        BY DEF CoveredIn, before
      <3> HIDE DEF after, new
      <3>5. \A a \in bytes : a \in address..(end - 1) \/ (a \in Nat /\ a \in old.written)
        BY <2>3, <3>2
      <3> HIDE DEF bytes
      <3> QED  BY <3>2, <3>3, <3>4, <3>5, Zenon
    <2> HIDE DEF new, bytes
    <2>6. r.dirty = TRUE /\ r.ranges = new /\ r.written = bytes
      BY <2>1 DEF Region
    <2>7. Stored(regions[s], address, length) = r
      BY <1>2 DEF Stored, new, bytes
    <2> HIDE DEF r
    <2> QED  BY <2>4, <2>5, <2>6, <2>7 DEF CoveredIn
  <1> QED  BY <1>1, <1>2

LEMMA AfterWriteCovered ==
  ASSUME RegionsOK(regions), AllCovered(regions), NEW address \in Nat, NEW length \in Nat
  PROVE  AllCovered(AfterWrite(address, length))
  <1> SUFFICES ASSUME NEW s \in DOMAIN regions
               PROVE  CoveredIn(AfterWrite(address, length)[s])
    BY DEF AllCovered, AfterWrite
  <1>1. CoveredIn(regions[s])
    BY DEF AllCovered
  <1>2. Holds(regions, s, address, length) => CoveredIn(Stored(regions[s], address, length))
    BY <1>1, StoredCovered
  <1> QED  BY <1>1, <1>2 DEF AfterWrite

LEMMA MapCovered ==
  ASSUME NEW rs, AllCovered(rs), NEW used, NEW start, NEW size, NEW p,
         Map(rs, used, start, size, p)
  PROVE  AllCovered(regions')
  <1>1. CoveredIn(Clean(size, p))
    BY DEF CoveredIn, Clean
  <1>2. ASSUME NEW s \in DOMAIN regions'
        PROVE  regions'[s] = Clean(size, p) \/ (s \in DOMAIN rs /\ regions'[s] = rs[s])
    BY DEF Map
  <1> QED  BY <1>1, <1>2 DEF AllCovered

LEMMA NextCovered == Inv /\ AllCovered(regions) /\ [Next]_vars => AllCovered(regions')
  <1> SUFFICES ASSUME Inv, AllCovered(regions), [Next]_vars PROVE AllCovered(regions')
    OBVIOUS
  <1>1. \A a : AllCovered(Without(regions, a))
    BY DEF AllCovered, Without
  <1>2. ASSUME NEW size \in Sizes, HeapAlloc(size) PROVE AllCovered(regions')
    BY <1>2, MapCovered DEF HeapAlloc, FromHeap
  <1>3. ASSUME NEW size \in Sizes, NEW old \in Addresses, HeapReAlloc(old, size)
        PROVE  AllCovered(regions')
    BY <1>1, <1>3, MapCovered DEF HeapReAlloc, FromHeap
  <1>4. ASSUME NEW size \in Sizes, NEW requested \in Addresses, NEW p \in Requested,
               VirtualAlloc(requested, size, p)
        PROVE  AllCovered(regions')
    BY <1>4, MapCovered DEF VirtualAlloc, FromHeap
  <1>5. ASSUME NEW address \in Addresses, HeapFree(address) PROVE AllCovered(regions')
    BY <1>1, <1>5 DEF HeapFree
  <1>6. ASSUME NEW address \in Addresses, NEW size \in Sizes, NEW p \in Requested,
               NEW old \in Addresses, VirtualProtect(address, size, p, old)
        PROVE  AllCovered(regions')
    <2> DEFINE rs == IF old = 0 THEN regions ELSE AfterWrite(old, Word)
    <2>1. AllCovered(rs) /\ RegionsOK(rs)
      BY AfterWriteCovered, AfterWriteOK, MemoryAssumption DEF Inv
    <2>2. DOMAIN rs = DOMAIN regions
      BY DEF AfterWrite
    <2>3. /\ DOMAIN regions' = DOMAIN regions
          /\ \A s \in DOMAIN regions :
               regions'[s] = rs[s] \/ regions'[s] = [rs[s] EXCEPT !.permissions = p]
      BY <1>6 DEF VirtualProtect
    <2> HIDE DEF rs
    <2>4. ASSUME NEW s \in DOMAIN regions PROVE CoveredIn(regions'[s])
      <3>1. rs[s] \in Region /\ CoveredIn(rs[s])
        BY <2>1, <2>2 DEF AllCovered, RegionsOK, Typed
      <3>2. /\ regions'[s].dirty = rs[s].dirty /\ regions'[s].ranges = rs[s].ranges
            /\ regions'[s].written = rs[s].written
        BY <2>3, <3>1 DEF Region
      <3> QED  BY <3>1, <3>2 DEF CoveredIn
    <2> QED  BY <2>3, <2>4 DEF AllCovered
  <1>7. ASSUME NEW address \in Addresses, NEW size \in Sizes, Write(address, size)
        PROVE  AllCovered(regions')
    BY <1>7, AfterWriteCovered, MemoryAssumption DEF Write, Inv
  <1>8. CASE UNCHANGED vars
    BY <1>8 DEF vars
  <1> QED  BY <1>2, <1>3, <1>4, <1>5, <1>6, <1>7, <1>8 DEF Next, Allocating

\* WritesCovered: write_inner misses no byte as long as a range is free, and a
\* region is dirty exactly when something was written to it.
THEOREM WritesRecorded == Spec => []WritesCovered
  <1>1. Init => Covered
    BY DEF Init, Covered, AllCovered, CoveredIn, Clean
  <1>2. Covered => WritesCovered
    <2> SUFFICES ASSUME AllCovered(regions), NEW s \in DOMAIN regions
                 PROVE  /\ regions[s].dirty <=> regions[s].written # {}
                        /\ Len(regions[s].ranges) < MaxRanges =>
                             \A a \in regions[s].written : WasWritten(a)
      BY DEF WritesCovered, Covered
    <2>1. /\ regions[s].dirty <=> regions[s].written # {}
          /\ Len(regions[s].ranges) < MaxRanges =>
               \A a \in regions[s].written :
                 \E i \in 1..Len(regions[s].ranges) :
                   regions[s].ranges[i][1] <= a /\ a < regions[s].ranges[i][2]
      BY Zenon DEF AllCovered, CoveredIn, InRange
    <2>2. \A a : (\E i \in 1..Len(regions[s].ranges) :
                   regions[s].ranges[i][1] <= a /\ a < regions[s].ranges[i][2])
                 => WasWritten(a)
      BY Zenon DEF WasWritten
    <2> QED  BY <2>1, <2>2, Zenon
  <1>3. Inv /\ Covered /\ [Next]_vars => Covered'
    BY NextCovered DEF Covered
  <1> QED  BY <1>1, <1>2, <1>3, InitInv, NextInv, PTL DEF Spec

-----------------------------------------------------------------------------
(* The account *)

\* The account of any regions: map and HeapReAlloc work on those left so far.
Exact(rs, used) == used = Cardinality(Mapped(rs))

Block(start, size) == start..(start + size - 1)

LEMMA BlockCount ==
  ASSUME NEW start \in Nat, NEW size \in Nat
  PROVE  IsFiniteSet(Block(start, size)) /\ Cardinality(Block(start, size)) = size
  <1>1. start \in Int /\ start + size - 1 \in Int
    OBVIOUS
  <1>2. /\ IsFiniteSet(Block(start, size))
        /\ Cardinality(Block(start, size)) =
             IF start > start + size - 1 THEN 0 ELSE (start + size - 1) - start + 1
    BY <1>1, FS_Interval DEF Block
  <1> QED  BY <1>2

LEMMA MappedFinite ==
  ASSUME NEW rs
  PROVE  IsFiniteSet(Mapped(rs)) /\ Cardinality(Mapped(rs)) \in Nat
  <1>1. IsFiniteSet(0..Limit)
    BY FS_Interval, MemoryAssumption
  <1>2. IsFiniteSet(Mapped(rs))
    BY <1>1, FS_Subset DEF Mapped, Address
  <1> QED  BY <1>2, FS_CardinalityType

\* Where a region lies, in numbers.
LEMMA Places ==
  ASSUME NEW rs, RegionsOK(rs), NEW s \in DOMAIN rs
  PROVE  /\ s \in Nat /\ rs[s].size \in Nat /\ End(rs, s) \in Nat
         /\ End(rs, s) = s + rs[s].size /\ End(rs, s) <= Limit /\ s < End(rs, s)
  BY MemoryAssumption DEF RegionsOK, Typed, Separate, Region, Address, End

\* What unmap gives back is what the region took.
LEMMA WithoutExact ==
  ASSUME NEW rs, RegionsOK(rs), NEW used, Exact(rs, used), NEW start
  PROVE  Exact(Without(rs, start), Released(rs, used, start))
  <1>1. CASE start \notin DOMAIN rs
    <2>1. DOMAIN Without(rs, start) = DOMAIN rs
      BY <1>1 DEF Without
    <2>2. \A s \in DOMAIN rs : End(Without(rs, start), s) = End(rs, s)
      BY <1>1 DEF Without, End
    <2>3. Mapped(Without(rs, start)) = Mapped(rs)
      BY <2>1, <2>2 DEF Mapped
    <2> QED  BY <1>1, <2>3 DEF Exact, Released
  <1>2. CASE start \in DOMAIN rs
    <2> DEFINE size == rs[start].size
               block == Block(start, size)
    <2>1. /\ start \in Nat /\ size \in Nat /\ End(rs, start) = start + size /\ start + size <= Limit
      BY <1>2, Places
    <2>2. block \subseteq Mapped(rs)
      <3> SUFFICES ASSUME NEW a \in block PROVE a \in Mapped(rs)
        OBVIOUS
      <3>1. a \in Nat /\ start <= a /\ a < End(rs, start)
        BY <2>1 DEF Block
      <3> QED  BY <1>2, <2>1, <3>1, MemoryAssumption DEF Mapped, Address
    <2>3. Mapped(Without(rs, start)) = Mapped(rs) \ block
      <3>1. /\ DOMAIN Without(rs, start) = DOMAIN rs \ {start}
            /\ \A s \in DOMAIN rs \ {start} : End(Without(rs, start), s) = End(rs, s)
        BY DEF Without, End
      <3>2. ASSUME NEW a \in Mapped(Without(rs, start)) PROVE a \in Mapped(rs) \ block
        <4>1. PICK s \in DOMAIN rs \ {start} : s <= a /\ a < End(rs, s)
          BY <3>1 DEF Mapped
        <4>2. a \in Mapped(rs) /\ a \in Nat
          BY <4>1, MemoryAssumption DEF Mapped, Address
        <4>3. /\ s \in Nat /\ End(rs, s) \in Nat
              /\ s < start => End(rs, s) <= start
              /\ start < s => End(rs, start) <= s
          BY <1>2, <4>1, Places DEF RegionsOK, Separate
        <4>4. a \notin block
          BY <2>1, <4>1, <4>2, <4>3 DEF Block
        <4> QED  BY <4>2, <4>4
      <3>3. ASSUME NEW a \in Mapped(rs) \ block PROVE a \in Mapped(Without(rs, start))
        <4>1. PICK s \in DOMAIN rs : s <= a /\ a < End(rs, s)
          BY DEF Mapped
        <4>2. a \in Nat /\ a \in Address
          BY MemoryAssumption DEF Mapped, Address
        <4>3. s # start
          BY <2>1, <4>1, <4>2 DEF Block
        <4> QED  BY <3>1, <4>1, <4>2, <4>3 DEF Mapped
      <3> QED  BY <3>2, <3>3
    <2>4. IsFiniteSet(Mapped(rs)) /\ Cardinality(Mapped(rs)) \in Nat
      BY MappedFinite
    <2>5. Cardinality(Mapped(rs) \cap block) = size /\ size <= Cardinality(Mapped(rs))
      <3>1. Mapped(rs) \cap block = block
        BY <2>2
      <3>2. Cardinality(block) = size
        BY <2>1, BlockCount
      <3>3. Cardinality(block) <= Cardinality(Mapped(rs))
        BY <2>2, <2>4, FS_Subset
      <3> QED  BY <3>1, <3>2, <3>3
    <2>6. Cardinality(Mapped(rs) \ block) = Cardinality(Mapped(rs)) - Cardinality(Mapped(rs) \cap block)
      BY <2>4, FS_Difference
    <2>7. Cardinality(Mapped(Without(rs, start))) = used - size /\ used - size >= 0
      BY <2>1, <2>3, <2>4, <2>5, <2>6 DEF Exact
    <2>8. Released(rs, used, start) = Most(used - size, 0)
      BY <1>2 DEF Released
    <2>9. used - size \in Int
      BY <2>1, <2>4 DEF Exact
    <2> QED  BY <2>7, <2>8, <2>9 DEF Exact, Most
  <1> QED  BY <1>1, <1>2

\* A region that is mapped counts for its whole size, apart from the others.
LEMMA MapExact ==
  ASSUME NEW rs, RegionsOK(rs), NEW used, Exact(rs, used), NEW start \in Address,
         NEW size \in Nat, NEW p, Map(rs, used, start, size, p)
  PROVE  Exact(regions', allocated')
  <1>1. CASE ~CanMap(rs, used, start, size)
    BY <1>1 DEF Map, Exact
  <1>2. CASE CanMap(rs, used, start, size)
    <2> DEFINE block == Block(start, size)
               new == [s \in DOMAIN rs \cup {start} |->
                         IF s = start THEN Clean(size, p) ELSE rs[s]]
    <2>1. regions' = new /\ allocated' = used + size
      BY <1>2 DEF Map
    <2>2. /\ start \in Nat /\ start + size <= Limit /\ size > 0
          /\ \A s \in DOMAIN rs : start >= End(rs, s) \/ start + size <= s
      <3>1. \A s \in DOMAIN rs : s \in Nat /\ End(rs, s) \in Nat
        BY Places
      <3> QED  BY <1>2, <3>1, MemoryAssumption DEF CanMap, Overlaps, Address
    <2>3. /\ DOMAIN new = DOMAIN rs \cup {start} /\ End(new, start) = start + size
          /\ \A s \in DOMAIN rs \ {start} : End(new, s) = End(rs, s)
      BY DEF Clean, End
    <2>4. start \notin DOMAIN rs
      BY <2>2, Places
    <2> HIDE DEF new
    <2>5. Mapped(new) = Mapped(rs) \cup block
      <3>1. ASSUME NEW a \in Mapped(new) PROVE a \in Mapped(rs) \cup block
        <4>1. PICK s \in DOMAIN new : s <= a /\ a < End(new, s)
          BY DEF Mapped
        <4>2. a \in Address /\ a \in Nat
          BY MemoryAssumption DEF Mapped, Address
        <4>3. CASE s = start
          BY <2>2, <2>3, <4>1, <4>2, <4>3 DEF Block
        <4>4. CASE s # start
          BY <2>3, <4>1, <4>2, <4>4 DEF Mapped
        <4> QED  BY <4>3, <4>4
      <3>2. ASSUME NEW a \in Mapped(rs) PROVE a \in Mapped(new)
        BY <2>3, <2>4 DEF Mapped
      <3>3. ASSUME NEW a \in block PROVE a \in Mapped(new)
        <4>1. a \in Address /\ start <= a /\ a < End(new, start)
          BY <2>2, <2>3, MemoryAssumption DEF Block, Address
        <4> QED  BY <2>3, <4>1 DEF Mapped
      <3> QED  BY <3>1, <3>2, <3>3
    <2>6. Mapped(rs) \cap block = {}
      <3> SUFFICES ASSUME NEW a \in Mapped(rs), a \in block PROVE FALSE
        OBVIOUS
      <3>1. PICK s \in DOMAIN rs : s <= a /\ a < End(rs, s)
        BY DEF Mapped
      <3>2. s \in Nat /\ End(rs, s) \in Nat
        BY Places
      <3> QED  BY <2>2, <3>1, <3>2 DEF Block
    <2>7. IsFiniteSet(Mapped(rs)) /\ IsFiniteSet(block) /\ Cardinality(Mapped(rs)) \in Nat
      BY <2>2, MappedFinite, BlockCount
    <2>8. Cardinality(Mapped(rs) \cup block)
            = Cardinality(Mapped(rs)) + Cardinality(block) - Cardinality(Mapped(rs) \cap block)
      BY <2>7, FS_Union
    <2>9. Cardinality(block) = size /\ Cardinality(Mapped(rs) \cap block) = 0
      BY <2>2, <2>6, BlockCount, FS_EmptySet
    <2> HIDE DEF block
    <2> QED  BY <2>1, <2>5, <2>7, <2>8, <2>9 DEF Exact
  <1> QED  BY <1>1, <1>2

\* Regions that keep their places and sizes keep the account.
LEMMA SameSizes ==
  ASSUME NEW rs, NEW new, DOMAIN new = DOMAIN rs, \A s \in DOMAIN rs : new[s].size = rs[s].size
  PROVE  Mapped(new) = Mapped(rs)
  BY DEF Mapped, End

\* A write changes no size.
LEMMA AfterWriteSizes ==
  ASSUME Typed(regions), NEW address, NEW length
  PROVE  /\ DOMAIN AfterWrite(address, length) = DOMAIN regions
         /\ \A s \in DOMAIN regions :
              /\ AfterWrite(address, length)[s].size = regions[s].size
              /\ "permissions" \in DOMAIN AfterWrite(address, length)[s]
  <1>1. \A s \in DOMAIN regions : regions[s] \in Region
    BY DEF Typed
  <1> QED  BY <1>1 DEF AfterWrite, Stored, Region

LEMMA NextExact == Inv /\ Accounted /\ [Next]_vars => Exact(regions', allocated')
  <1> SUFFICES ASSUME Inv, Accounted, [Next]_vars PROVE Exact(regions', allocated')
    OBVIOUS
  <1>1. RegionsOK(regions) /\ Exact(regions, allocated) /\ heapNext \in Address
    BY MemoryAssumption DEF Inv, CountersOK, Address, Accounted, Exact
  <1>2. \A size \in Sizes : /\ AlignPage(Most(size, 1)) \in Nat
                            /\ AlignPage(Most(size, Page)) \in Nat
    BY AlignType, MemoryAssumption DEF Most
  <1>3. ASSUME NEW size \in Sizes, HeapAlloc(size) PROVE Exact(regions', allocated')
    BY <1>1, <1>2, <1>3, MapExact DEF HeapAlloc, FromHeap
  <1>4. ASSUME NEW size \in Sizes, NEW old \in Addresses, HeapReAlloc(old, size)
        PROVE  Exact(regions', allocated')
    <2>1. /\ RegionsOK(Without(regions, old))
          /\ Exact(Without(regions, old), Released(regions, allocated, old))
      BY <1>1, WithoutOK, WithoutExact
    <2> QED  BY <1>1, <1>2, <1>4, <2>1, MapExact DEF HeapReAlloc, FromHeap
  <1>5. ASSUME NEW size \in Sizes, NEW requested \in Addresses, NEW p \in Requested,
               VirtualAlloc(requested, size, p)
        PROVE  Exact(regions', allocated')
    <2>1. requested \in Address
      BY MemoryAssumption DEF Address
    <2> QED  BY <1>1, <1>2, <1>5, <2>1, MapExact DEF VirtualAlloc, FromHeap
  <1>6. ASSUME NEW address \in Addresses, HeapFree(address) PROVE Exact(regions', allocated')
    BY <1>1, <1>6, WithoutExact DEF HeapFree
  <1>7. ASSUME NEW address \in Addresses, NEW size \in Sizes, NEW p \in Requested,
               NEW old \in Addresses, VirtualProtect(address, size, p, old)
        PROVE  Exact(regions', allocated')
    <2> DEFINE rs == IF old = 0 THEN regions ELSE AfterWrite(old, Word)
    <2>1. DOMAIN rs = DOMAIN regions /\ \A s \in DOMAIN regions : rs[s].size = regions[s].size
      BY <1>1, AfterWriteSizes DEF RegionsOK
    <2>2. /\ DOMAIN regions' = DOMAIN regions /\ allocated' = allocated
          /\ \A s \in DOMAIN regions :
               regions'[s] = rs[s] \/ regions'[s] = [rs[s] EXCEPT !.permissions = p]
      BY <1>7 DEF VirtualProtect
    <2> HIDE DEF rs
    <2>3. \A s \in DOMAIN regions : [rs[s] EXCEPT !.permissions = p].size = rs[s].size
      OBVIOUS
    <2>4. Mapped(regions') = Mapped(regions)
      BY <2>1, <2>2, <2>3, SameSizes
    <2> QED  BY <1>1, <2>2, <2>4 DEF Exact
  <1>8. ASSUME NEW address \in Addresses, NEW size \in Sizes, Write(address, size)
        PROVE  Exact(regions', allocated')
    <2>1. Mapped(regions') = Mapped(regions)
      BY <1>1, <1>8, AfterWriteSizes, SameSizes DEF RegionsOK, Write
    <2> QED  BY <1>1, <1>8, <2>1 DEF Exact, Write
  <1>9. CASE UNCHANGED vars
    BY <1>1, <1>9 DEF vars, Exact
  <1> QED  BY <1>3, <1>4, <1>5, <1>6, <1>7, <1>8, <1>9 DEF Next, Allocating

\* Accounted: the account that Memory::map compares with its limit is exact,
\* and unmap never saturates.
THEOREM AccountExact == Spec => []Accounted
  <1>1. Init => Accounted
    <2> SUFFICES ASSUME Init PROVE Accounted
      OBVIOUS
    <2>1. DOMAIN regions = {ImageBase} /\ regions[ImageBase].size = ImageSize
      BY DEF Init, Clean
    <2>2. Mapped(regions) = Block(ImageBase, ImageSize)
      BY <2>1, MemoryAssumption DEF Mapped, End, Block, Address
    <2> QED  BY <2>2, BlockCount, MemoryAssumption DEF Init, Accounted
  <1>2. Inv /\ Accounted /\ [Next]_vars => Accounted'
    BY NextExact DEF Exact, Accounted
  <1> QED  BY <1>1, <1>2, InitInv, NextInv, PTL DEF Spec

=============================================================================
