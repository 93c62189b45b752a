------------------------------ MODULE Provenance ------------------------------
(***************************************************************************)
(* ProvenanceTracker (crates/analysis-dynamic/src/provenance.rs) under the *)
(* API calls of engine.rs that label, copy, clear and observe memory.  It  *)
(* keeps a sorted list of labelled ranges, cut and merged by every change, *)
(* with limits on sources, ranges, labels and flows.                       *)
(***************************************************************************)
EXTENDS Integers, SequencesExt

CONSTANTS
  Top,         \* the first address that is not in the address space
  ImageSize,   \* image_size of the sample, which is loaded at 0
  MaxSources,  \* MAX_SOURCES, 256
  MaxFlows,    \* MAX_FLOWS, 4096
  MaxRanges,   \* MAX_RANGES, 4096
  MaxLabels,   \* MAX_LABELS_PER_RANGE, 8
  Sizes        \* sizes of the buffers that calls name

ASSUME ProvenanceAssumption ==
  /\ Top \in Nat /\ ImageSize \in 1..Top
  /\ MaxSources \in Nat \ {0} /\ MaxFlows \in Nat
  /\ MaxRanges \in Nat \ {0} /\ MaxLabels \in Nat \ {0}
  /\ Sizes \subseteq Nat

VARIABLES
  sources,   \* of each source: the labels it was derived from
  flows,     \* of each flow: its labels
  ranges,    \* the labelled ranges in the order of their addresses
  truncated,
  call       \* auxiliary: the bytes the last call took from, those it changed,
             \* and those on both sides of the place it named when it took none

vars == <<sources, flows, ranges, truncated, call>>

Addresses == 0..(Top - 1)
TaintRange == [start : Addresses, end : 1..Top, labels : SUBSET (1..MaxSources)]

Init ==
  /\ sources = <<{}>>
  /\ ranges = <<[start |-> 0, end |-> ImageSize, labels |-> {1}]>>
  /\ flows = <<>> /\ truncated = FALSE
  /\ call = [from |-> {}, to |-> {}, around |-> {}]

\* The bytes of a buffer, which must not pass the address space.
Bytes(start, size) == IF start + size > Top THEN {} ELSE start..(start + size - 1)
\* An empty buffer is a place between two bytes, unless it is where memory begins.
Around(start, size) == IF size = 0 /\ start > 0 THEN {start - 1, start} ELSE {}

\* Labels are numbered as they are made, and kept in that order.
FirstLabels(ls) == {l \in ls : Cardinality({k \in ls : k < l}) < MaxLabels}

Touches(r, start, end) == start < r.end /\ end > r.start

\* labels_for: ranges are looked at until there are labels enough.  An empty buffer
\* touches the range it lies inside of, with bytes of the range on both sides.
LabelsFor(start, size) ==
  IF start + size > Top THEN {} ELSE
  FirstLabels(FoldLeft(LAMBDA ls, r : IF Cardinality(ls) < MaxLabels /\ Touches(r, start, start + size)
                                      THEN ls \cup r.labels ELSE ls,
                       {}, ranges))

\* What a new range leaves of range r, on either side of it.
PiecesAround(r, start, end) ==
  IF ~Touches(r, start, end) THEN {r}
  ELSE {p \in {[start |-> r.start, end |-> start, labels |-> r.labels],
               [start |-> end, end |-> r.end, labels |-> r.labels]} : p.start < p.end}

\* Ranges with the same labels become one, whatever is between them.
JoinedAnyway(list, r) ==
  IF list # <<>> /\ Last(list).labels = r.labels
  THEN [list EXCEPT ![Len(list)].end = r.end] ELSE Append(list, r)
\* Neighbours with the same labels become one range.
Joined(list, r) ==
  IF list # <<>> /\ Last(list).end = r.start /\ Last(list).labels = r.labels
  THEN [list EXCEPT ![Len(list)].end = r.end] ELSE Append(list, r)

\* replace_range: the list before it is cut off at its limit.
Replaced(start, end, ls) ==
  LET cut == UNION {PiecesAround(r, start, end) : r \in ToSet(ranges)}
      new == IF ls = {} THEN {}
             ELSE {[start |-> start, end |-> end, labels |-> FirstLabels(ls)]}
  IN  FoldLeft(Joined, <<>>, SetToSortSeq(cut \cup new, LAMBDA r, s : r.start < s.start))

\* A call that has no byte to label or clear changes nothing: it is no step.
ReplaceRange(start, size, ls) ==
  IF start + size > Top
  THEN truncated' = TRUE /\ UNCHANGED ranges
  ELSE size > 0 /\
       LET list == Replaced(start, start + size, ls)
       IN  IF Len(list) > MaxRanges
           THEN truncated' = TRUE /\ ranges' = SubSeq(list, 1, MaxRanges)
           ELSE UNCHANGED truncated /\ ranges' = list

\* source_with_parents: without room for another source nothing is labelled.
SourceWithParents(start, size, parents) ==
  /\ size > 0
  /\ IF Len(sources) >= MaxSources
     THEN truncated' = TRUE /\ UNCHANGED <<sources, ranges>>
     ELSE /\ sources' = Append(sources, parents)
          /\ ReplaceRange(start, size, {Len(sources) + 1})

Source(start, size) ==
  /\ SourceWithParents(start, size, {}) /\ UNCHANGED flows
  /\ call' = [from |-> {}, to |-> Bytes(start, size), around |-> {}]
DeriveSized(from, fromSize, to, toSize) ==
  /\ SourceWithParents(to, toSize, LabelsFor(from, fromSize)) /\ UNCHANGED flows
  /\ call' = [from |-> Bytes(from, fromSize), to |-> Bytes(to, toSize),
              around |-> Around(from, fromSize)]
Propagate(from, to, size) ==
  /\ size > 0
  /\ ReplaceRange(to, size, LabelsFor(from, size)) /\ UNCHANGED <<sources, flows>>
  /\ call' = [from |-> Bytes(from, size), to |-> Bytes(to, size), around |-> {}]
Clear(start, size) ==
  /\ ReplaceRange(start, size, {}) /\ UNCHANGED <<sources, flows>>
  /\ call' = [from |-> {}, to |-> Bytes(start, size), around |-> {}]
Observe(start, size) ==
  LET seen == LabelsFor(start, size)
  IN  /\ seen # {}
      /\ IF Len(flows) >= MaxFlows
         THEN truncated' = TRUE /\ UNCHANGED flows
         ELSE flows' = Append(flows, seen) /\ UNCHANGED truncated
      /\ call' = [from |-> Bytes(start, size), to |-> {}, around |-> Around(start, size)]
      /\ UNCHANGED <<sources, ranges>>

---------------------------------------------------------------------------
\* The API calls, with the addresses and sizes a sample may give.

Buffers == {b \in Addresses \X Sizes : b[1] + b[2] <= Top + 1}
\* Strings are measured with the character that ends them.
Strings == {b \in Buffers : b[2] > 0}

\* Data from outside: files, the registry, responses of the network.
ReadFile == \E b \in Buffers : Source(b[1], b[2])
RegQueryValue == \E b \in Buffers : Source(b[1], b[2])
InternetReadFile == \E b \in Buffers : Source(b[1], b[2])

\* MultiByteToWideChar and WideCharToMultiByte take the same size on both sides.
ConvertString == \E b \in Strings, to \in Addresses : DeriveSized(b[1], b[2], to, b[2])
\* CryptGetHashParam: the digest of what was hashed last, which may be nothing.
GetHash == \E from, to \in Buffers : DeriveSized(from[1], from[2], to[1], to[2])
\* memcpy, memmove and RtlMoveMemory; memset and RtlZeroMemory.
CopyMemory == \E b \in Buffers, to \in Addresses : Propagate(b[1], to, b[2])
FillMemory == \E b \in Buffers : Clear(b[1], b[2])

\* Data reaching a process, a file, the network or another process.
Execute == \E b \in Strings : Observe(b[1], b[2])
Send == \E b \in Buffers : Observe(b[1], b[2])
\* WriteFile observes what was written: nothing when the file is full or closed.
WriteFile == \E b \in Buffers : Observe(b[1], b[2])

Next ==
  \/ ReadFile \/ RegQueryValue \/ InternetReadFile
  \/ ConvertString \/ GetHash \/ CopyMemory \/ FillMemory
  \/ Execute \/ Send \/ WriteFile

Spec == Init /\ [][Next]_vars

---------------------------------------------------------------------------

LabelMap == [a \in Addresses |->
  UNION {ranges[i].labels : i \in {j \in DOMAIN ranges : Touches(ranges[j], a, a + 1)}}]

Labels == INSTANCE ByteLabels WITH labels <- LabelMap, parents <- sources, lost <- truncated

\* However ranges are cut, joined and dropped, every byte carries the labels of
\* where it came from and every flow names them, until the report is marked as
\* truncated; what is read from an empty buffer has labels only where the bytes on
\* both sides of it have the same (replace_range, labels_for).
ImplementsLabels == Labels!LabelsSpec

=============================================================================
