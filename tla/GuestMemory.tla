----------------------------- MODULE GuestMemory -----------------------------
(***************************************************************************)
(* The sparse memory of a PE32 guest (crates/analysis-dynamic/src/         *)
(* memory.rs) under the API calls and writes that change it (engine.rs:    *)
(* virtual_alloc, heap_alloc, heap_free, virtual_protect).  Bytes are left *)
(* out; what is kept is which bytes were written, because lineage decides  *)
(* by that what counts as generated code.                                  *)
(***************************************************************************)
EXTENDS Integers, Sequences, FiniteSets

CONSTANTS
  Limit,        \* u32::MAX, the end no region passes; usize is as wide in the Wasm build
  Page,         \* 0x1000
  MaxMemory,    \* HARD_MAX_MEMORY_BYTES
  MaxRanges,    \* 256 recorded write ranges for each region
  ImageBase, ImageSize, Entry,  \* the image region and its entry point
  HeapBase,     \* HEAP_BASE
  Word,         \* bytes of a u32
  Sizes,        \* sizes and lengths the sample asks for
  Addresses,    \* addresses it names
  Requested     \* permissions it asks for

ASSUME MemoryAssumption ==
  /\ Limit \in Nat /\ Page \in Nat \ {0} /\ MaxMemory \in Nat
  /\ MaxRanges \in Nat \ {0}
  /\ ImageBase \in Nat /\ ImageSize \in Nat \ {0} /\ HeapBase \in Nat
  /\ ImageBase + ImageSize <= HeapBase /\ HeapBase <= Limit
  /\ ImageSize <= MaxMemory
  /\ Entry \in ImageBase..(ImageBase + ImageSize - 1)
  /\ Word \in Nat /\ Sizes \subseteq 0..Limit /\ Addresses \subseteq 0..Limit
  /\ Requested \subseteq SUBSET {"r", "w", "x"}

VARIABLES
  regions,      \* the mapped regions, by their first address
  allocated,    \* bytes mapped
  heapNext      \* heap_next

vars == <<regions, allocated, heapNext>>

Address == 0..Limit
\* `written` is auxiliary: the bytes guest writes have stored in the region.
Region == [size : Nat, permissions : SUBSET {"r", "w", "x"}, dirty : BOOLEAN,
           ranges : Seq(Address \X Address), written : SUBSET Address]

TypeOK ==
  /\ DOMAIN regions \subseteq Address
  /\ regions \in [DOMAIN regions -> Region]
  /\ allocated \in 0..MaxMemory
  /\ heapNext \in HeapBase..Limit

-----------------------------------------------------------------------------
(* Regions *)

Least(a, b) == IF a <= b THEN a ELSE b
Most(a, b) == IF a >= b THEN a ELSE b

End(rs, s) == s + rs[s].size

HoldsFirst(rs, s, address, length) ==
  s \in DOMAIN rs /\ s <= address /\ address < End(rs, s)
\* The region of rs that holds all of address..address+length-1.
Holds(rs, s, address, length) ==
  s \in DOMAIN rs /\ s <= address /\ address + length <= End(rs, s)

OverlapsStart(rs, start, size) == \E s \in DOMAIN rs : start >= s /\ start < End(rs, s)
Overlaps(rs, start, size) == \E s \in DOMAIN rs : start < End(rs, s) /\ start + size > s

CanMap(rs, used, start, size) ==
  size > 0 /\ used + size <= MaxMemory /\ start + size <= Limit /\ ~Overlaps(rs, start, size)

Clean(size, permissions) ==
  [size |-> size, permissions |-> permissions, dirty |-> FALSE, ranges |-> <<>>, written |-> {}]

\* map, on a memory with regions rs and `used` bytes: it succeeds or it
\* changes nothing.
Map(rs, used, start, size, permissions) ==
  IF CanMap(rs, used, start, size)
  THEN /\ regions' = [s \in DOMAIN rs \cup {start} |->
                        IF s = start THEN Clean(size, permissions) ELSE rs[s]]
       /\ allocated' = used + size
  ELSE regions' = rs /\ allocated' = used

\* unmap
Without(rs, start) == [s \in DOMAIN rs \ {start} |-> rs[s]]
ReleasedUncounted(rs, used, start) == used
Released(rs, used, start) ==
  IF start \in DOMAIN rs THEN Most(used - rs[start].size, 0) ELSE used

-----------------------------------------------------------------------------
(* Allocation *)

\* align_page saturates.
AlignPage(size) == (Least(size + Page - 1, Limit) \div Page) * Page

\* A block and the page that stays free behind it, in 32 bits.
Advance(size) == (size + Page) % (Limit + 1)
\* heap_next after a block of that size.
HeapAfter(size) == Least(heapNext + Advance(size), Limit)

\* The heap chooses the address of a block; it moves on even if map fails.
FromHeap(rs, used, size, permissions) ==
  /\ Map(rs, used, heapNext, size, permissions)
  /\ heapNext' = HeapAfter(size)

VirtualAlloc(requested, size, permissions) ==
  LET length == AlignPage(Most(size, Page))
  IN  IF requested = 0
      THEN FromHeap(regions, allocated, length, permissions)
      ELSE /\ Map(regions, allocated, requested, length, permissions)
           /\ UNCHANGED heapNext

\* HeapAlloc, LocalAlloc, GlobalAlloc
HeapAlloc(size) == FromHeap(regions, allocated, AlignPage(Most(size, 1)), {"r", "w"})

\* HeapFree, LocalFree, GlobalFree, VirtualFree: any region that starts there.
HeapFree(address) ==
  /\ regions' = Without(regions, address)
  /\ allocated' = Released(regions, allocated, address)
  /\ UNCHANGED heapNext

\* HeapReAlloc gives the old block up before it knows that there is a new one.
HeapReAlloc(old, size) ==
  FromHeap(Without(regions, old), Released(regions, allocated, old),
           AlignPage(Most(size, 1)), {"r", "w"})

-----------------------------------------------------------------------------
(* Writes *)

\* The write ranges after a write of address..end-1: the last range takes it
\* up if it starts before the range's end, otherwise it is a range of its own
\* as long as there is room.
RangesExtendedAtEnd(ranges, address, end) ==
  LET last == Len(ranges)
  IN  IF last > 0 /\ address <= ranges[last][2]
      THEN [ranges EXCEPT ![last] = <<@[1], Most(@[2], end)>>]
      ELSE IF last < MaxRanges THEN Append(ranges, <<address, end>>) ELSE ranges
Ranges(ranges, address, end) ==
  LET last == Len(ranges)
  IN  IF last > 0 /\ address <= ranges[last][2]
      THEN [ranges EXCEPT ![last] = <<Least(@[1], address), Most(@[2], end)>>]
      ELSE IF last < MaxRanges THEN Append(ranges, <<address, end>>) ELSE ranges

Stored(region, address, length) ==
  IF length = 0 THEN region
  ELSE [region EXCEPT !.dirty = TRUE,
                      !.ranges = Ranges(@, address, address + length),
                      !.written = @ \cup address..(address + length - 1)]

\* Memory::write: what no writable region holds changes nothing.
AfterWrite(address, length) ==
  [s \in DOMAIN regions |->
     IF Holds(regions, s, address, length) /\ "w" \in regions[s].permissions
     THEN Stored(regions[s], address, length) ELSE regions[s]]

\* An instruction or an API call writes.
Write(address, length) ==
  /\ regions' = AfterWrite(address, length)
  /\ UNCHANGED <<allocated, heapNext>>

\* VirtualProtect stores a word for the old protection at `old`, if it is given
\* one, even if it fails; set_permissions changes the whole region that holds
\* the range.
VirtualProtect(address, size, permissions, old) ==
  LET rs == IF old = 0 THEN regions ELSE AfterWrite(old, Word)
  IN  /\ regions' = [s \in DOMAIN regions |->
                       IF Holds(regions, s, address, Most(size, 1))
                       THEN [rs[s] EXCEPT !.permissions = permissions] ELSE rs[s]]
      /\ UNCHANGED <<allocated, heapNext>>

\* was_written
WasWritten(address) ==
  \E s \in DOMAIN regions : \E i \in 1..Len(regions[s].ranges) :
    regions[s].ranges[i][1] <= address /\ address < regions[s].ranges[i][2]

Init ==
  /\ \E permissions \in {{"r", "x"}, {"r", "w", "x"}} :
       regions = [s \in {ImageBase} |-> Clean(ImageSize, permissions)]
  /\ allocated = ImageSize
  /\ heapNext = HeapBase

Allocating ==
  \E size \in Sizes :
    \/ HeapAlloc(size)
    \/ \E old \in Addresses : HeapReAlloc(old, size)
    \/ \E requested \in Addresses, p \in Requested : VirtualAlloc(requested, size, p)

Next ==
  \/ Allocating
  \/ \E address \in Addresses : HeapFree(address)
  \/ \E address \in Addresses, size \in Sizes :
       \/ \E p \in Requested, old \in Addresses : VirtualProtect(address, size, p, old)
       \/ Write(address, size)

Spec == Init /\ [][Next]_vars

-----------------------------------------------------------------------------
(* Properties *)

\* No two regions share an address and none reaches past the address space,
\* whatever the sample maps, frees and maps again: a read, write or permission
\* check finds one region at most.
Disjoint ==
  /\ \A s \in DOMAIN regions : regions[s].size > 0 /\ End(regions, s) <= Limit
  /\ \A s, t \in DOMAIN regions : s < t => End(regions, s) <= t

\* The account that enforces the memory limit is the number of addresses that
\* are mapped, through allocations that fail and blocks that are given up by
\* HeapReAlloc.
Mapped(rs) == {a \in Address : \E s \in DOMAIN rs : s <= a /\ a < End(rs, s)}
Accounted == allocated = Cardinality(Mapped(regions))

\* What a region recorded as written lies in that region, so that was_written
\* of an address never speaks of a write to another region or to memory that
\* has been freed.
RangesInside ==
  \A s \in DOMAIN regions : \A i \in 1..Len(regions[s].ranges) :
    /\ s <= regions[s].ranges[i][1]
    /\ regions[s].ranges[i][1] < regions[s].ranges[i][2]
    /\ regions[s].ranges[i][2] <= End(regions, s)

\* No write is missed: until a region has used all its ranges up, every byte
\* written is recorded, and a region is dirty exactly if it was written.
WritesCovered ==
  \A s \in DOMAIN regions :
    /\ regions[s].dirty <=> regions[s].written # {}
    /\ Len(regions[s].ranges) < MaxRanges => \A a \in regions[s].written : WasWritten(a)

=============================================================================
