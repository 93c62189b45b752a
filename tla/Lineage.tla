------------------------------- MODULE Lineage -------------------------------
(***************************************************************************)
(* What a run keeps of the payloads it unpacks: the captures of memory,    *)
(* downloads and files (artifact.rs), deduplicated by digest, and the      *)
(* generations of each memory region (generation.rs), as the calls of      *)
(* engine.rs make them before instructions, on changes of protection, on   *)
(* releases and at the end of the run.                                     *)
(***************************************************************************)
EXTENDS Integers, Sequences, FiniteSets

CONSTANTS
  Bases,           \* the first addresses of regions, in order
  Image,           \* the region of the entry point
  HeapBase,        \* HEAP_BASE: the heap's regions come at or after it
  Cells,           \* addresses within a region, the entry point's included
  Entry,           \* the entry point, within Image
  Contents,        \* what regions, files and responses hold: their digests
  Blank,           \* the content of a region that was just mapped
  Size,            \* of a content: captured_size
  Interesting,     \* contents with a format, an entropy or signals of their own
  Imports,         \* the API calls of the sample
  MaxArtifacts,    \* MAX_ARTIFACTS, 128
  MaxArtifactBytes,\* MAX_TOTAL_ARTIFACT_BYTES
  MaxGenerations,  \* MAX_GENERATIONS, 256
  MaxImports,      \* 256
  MaxExtras,       \* bound: files and remote regions there are at the end
  Unmapped         \* there is no region at a base

ASSUME LineageAssumption ==
  /\ Bases \subseteq Nat /\ IsFiniteSet(Bases) /\ Image \in Bases /\ HeapBase \in Nat /\ Image < HeapBase
  /\ Entry \in Cells /\ Blank \in Contents /\ Interesting \subseteq Contents
  /\ Size \in [Contents -> Nat \ {0}]
  /\ {MaxArtifacts, MaxArtifactBytes, MaxGenerations, MaxImports, MaxExtras} \subseteq Nat
  /\ Unmapped \notin [exec : BOOLEAN, dirty : BOOLEAN, content : Contents, written : SUBSET Cells]

VARIABLES
  regions,  \* the memory: permissions, what it holds, where was_written
  store,    \* ArtifactStore
  tracker,  \* GenerationTracker
  done,     \* capture_final_artifacts has been called
  seen      \* auxiliary: the payloads that mattered when they were captured

lineageVars == <<regions, store, tracker, done, seen>>

Region == [exec : BOOLEAN, dirty : BOOLEAN, content : Contents, written : SUBSET Cells]
\* A generation: `parent` is an index or 0, `candidate` is where it was entered.
Generation == [base : Bases, artifact : Contents, parent : Nat,
               candidate : SUBSET Cells, imports : SUBSET Imports]

Fresh == [exec |-> FALSE, dirty |-> FALSE, content |-> Blank, written |-> {}]

LineageInit ==
  /\ regions = [b \in Bases |-> IF b < HeapBase THEN Fresh ELSE Unmapped]
  /\ store = [ids |-> {}, retained |-> 0, truncated |-> FALSE]
  /\ tracker = [generations |-> <<>>, current |-> [b \in Bases |-> 0], truncated |-> FALSE]
  /\ done = FALSE /\ seen = {}

Mapped == {b \in Bases : regions[b] # Unmapped}

---------------------------------------------------------------------------
\* The store and the tracker after an operation on them.

Room(s, id) == Cardinality(s.ids) < MaxArtifacts /\ s.retained + Size[id] <= MaxArtifactBytes

\* Whatever is captured again is counted again.
CapturedTwice(s, id) ==
  IF Room(s, id)
  THEN [s EXCEPT !.ids = @ \cup {id}, !.retained = @ + Size[id]]
  ELSE IF id \in s.ids THEN s ELSE [s EXCEPT !.truncated = TRUE]
\* ArtifactStore::capture of a content that is worth it.
Captured(s, id) ==
  IF id \in s.ids THEN s
  ELSE IF Room(s, id)
  THEN [s EXCEPT !.ids = @ \cup {id}, !.retained = @ + Size[id]]
  ELSE [s EXCEPT !.truncated = TRUE]

IsCurrentOfAny(t, o) ==
  \E b \in Bases : t.current[b] # 0 /\ t.generations[t.current[b]].artifact = o.artifact
IsCurrent(t, o) ==
  t.current[o.base] # 0 /\ t.generations[t.current[o.base]].artifact = o.artifact

\* The same payload again: what is new about it is added to its generation.
Confirmed(g, o) ==
  [g EXCEPT !.candidate = IF @ = {} THEN o.candidate ELSE @]

NextGeneration(t, o) ==
  [base |-> o.base, artifact |-> o.artifact, parent |-> t.current[o.base],
   candidate |-> o.candidate, imports |-> {}]

CurrentStays(t, o) == IF t.current[o.base] = 0 THEN Len(t.generations) + 1 ELSE t.current[o.base]
CurrentAfter(t, o) == Len(t.generations) + 1

\* GenerationTracker::observe
Observed(t, o) ==
  IF IsCurrent(t, o)
  THEN [t EXCEPT !.generations[t.current[o.base]] = Confirmed(@, o)]
  ELSE IF Len(t.generations) >= MaxGenerations THEN [t EXCEPT !.truncated = TRUE]
  ELSE [t EXCEPT !.generations = Append(@, NextGeneration(t, o)),
                 !.current[o.base] = CurrentAfter(t, o)]

---------------------------------------------------------------------------
\* capture_memory_region, for an address of the region at b; what it changes is
\* a record of the store, the tracker and what was seen.

Overwritten(b) == b = Image /\ Entry \in regions[b].written
ExecutableHeap(b) == b >= HeapBase /\ regions[b].exec
Entered(b, cell, trigger) == trigger = "dynamic_execution" /\ cell \in regions[b].written

Relevant(b, cell, trigger) ==
  \/ Overwritten(b) \/ ExecutableHeap(b)
  \/ trigger = "executable_transition"
  \/ Entered(b, cell, trigger)

Worthwhile(b, force) == force \/ regions[b].exec \/ regions[b].content \in Interesting

CaptureRegion(k, b, cell, trigger, force) ==
  LET id == regions[b].content
      s == Captured(k.store, id)
      o == [base |-> b, artifact |-> id,
            candidate |-> IF Entered(b, cell, trigger) THEN {cell} ELSE {}]
  IN  IF \/ ~regions[b].dirty
         \/ trigger = "dynamic_execution" /\ ~Relevant(b, cell, trigger)
         \/ ~Worthwhile(b, force)
      THEN k
      ELSE [store |-> s,
            tracker |-> IF id \in s.ids /\ Relevant(b, cell, trigger)
                        THEN Observed(k.tracker, o) ELSE k.tracker,
            seen |-> IF Relevant(b, cell, trigger)
                     THEN k.seen \cup {<<b, id, o.candidate>>} ELSE k.seen]

Kept == [store |-> store, tracker |-> tracker, seen |-> seen]
\* Nothing is promised any more once the report says that something is missing.
Promised(k) == IF k.store.truncated \/ k.tracker.truncated THEN {} ELSE k.seen
Keep(k) == store' = k.store /\ tracker' = k.tracker /\ seen' = Promised(k)

---------------------------------------------------------------------------

\* Guest code writes: the content changes, and the cell counts as written.
Write(b, cell, c) ==
  /\ regions' = [regions EXCEPT ![b].content = c, ![b].dirty = TRUE, ![b].written = @ \cup {cell}]
  /\ UNCHANGED <<store, tracker, seen, done>>

\* The capture before an instruction is fetched, whether or not it can be.
Execute(b, cell) ==
  /\ Keep(CaptureRegion(Kept, b, cell, "dynamic_execution", FALSE))
  /\ UNCHANGED <<regions, done>>

\* handle_api: the call is attributed to the latest generation that was
\* entered and lies around the place it returns to.
RuntimeImport(b, name) ==
  /\ \E i \in DOMAIN tracker.generations :
       LET g == tracker.generations[i]
       IN  /\ g.base = b /\ g.candidate # {}
           /\ \A j \in (i + 1)..Len(tracker.generations) :
                tracker.generations[j].base = b => tracker.generations[j].candidate = {}
           /\ tracker' = IF name \in g.imports THEN tracker
                         ELSE IF Cardinality(g.imports) >= MaxImports
                         THEN [tracker EXCEPT !.truncated = TRUE]
                         ELSE [tracker EXCEPT !.generations[i].imports = @ \cup {name}]
  /\ UNCHANGED <<regions, store, seen, done>>

\* VirtualAlloc and HeapAlloc; a region that was just mapped is not dirty, so
\* that the capture of an executable one does nothing.
MapRegion(b, exec) ==
  /\ regions[b] = Unmapped
  /\ regions' = [regions EXCEPT ![b] = [Fresh EXCEPT !.exec = exec]]
  /\ UNCHANGED <<store, tracker, seen, done>>

VirtualProtect(b, exec) ==
  /\ regions' = [regions EXCEPT ![b].exec = exec]
  /\ Keep(IF exec
          THEN LET r == [regions[b] EXCEPT !.exec = TRUE]
                   id == r.content
                   s == Captured(store, id)
                   o == [base |-> b, artifact |-> id, candidate |-> {}]
               IN  IF ~r.dirty THEN Kept
                   ELSE [store |-> s,
                         tracker |-> IF id \in s.ids THEN Observed(tracker, o) ELSE tracker,
                         seen |-> seen \cup {<<b, id, {}>>}]
          ELSE Kept)
  /\ UNCHANGED done

\* heap_free: the last look at what is released.
HeapFree(b) ==
  /\ Keep(CaptureRegion(Kept, b, Entry, "memory_release", FALSE))
  /\ regions' = [regions EXCEPT ![b] = Unmapped]
  /\ UNCHANGED done

\* The body of a response, and the files at the end: captured in any case.
Download(c) ==
  /\ Keep([Kept EXCEPT !.store = Captured(store, c)])
  /\ UNCHANGED <<regions, done>>

\* The captures of regions and of contents in an order, one after the other.
RegionsCaptured(k, order) ==
  LET after[i \in 0..Len(order)] ==
        IF i = 0 THEN k
        ELSE CaptureRegion(after[i - 1], order[i], Entry, "final_dirty_region", FALSE)
  IN  after[Len(order)]
ContentsCaptured(s, order) ==
  LET after[i \in 0..Len(order)] == IF i = 0 THEN s ELSE Captured(after[i - 1], order[i])
  IN  after[Len(order)]

Ascending(order) == \A i, j \in DOMAIN order : i < j => order[i] < order[j]

\* capture_final_artifacts: the dirty regions by address, then the files and
\* the remote memory.
Finish ==
  LET dirty == {b \in Mapped : regions[b].dirty}
  IN  \E order \in [1..Cardinality(dirty) -> dirty], n \in 0..MaxExtras :
        \E extras \in [1..n -> Contents] :
          /\ Ascending(order)
          /\ LET memory == RegionsCaptured(Kept, order)
             IN  Keep([memory EXCEPT !.store = ContentsCaptured(@, extras)])
          /\ done' = TRUE
          /\ UNCHANGED regions

LineageNext ==
  /\ ~done
  /\ \/ \E b \in Mapped :
          \/ \E cell \in Cells : Execute(b, cell) \/ \E c \in Contents : Write(b, cell, c)
          \/ \E name \in Imports : RuntimeImport(b, name)
          \/ \E exec \in BOOLEAN : VirtualProtect(b, exec)
          \/ HeapFree(b)
     \/ \E b \in Bases, exec \in BOOLEAN : MapRegion(b, exec)
     \/ \E c \in Contents : Download(c)
     \/ Finish

LineageSpec == LineageInit /\ [][LineageNext]_lineageVars

---------------------------------------------------------------------------

Generations == tracker.generations

\* Unless the report says that something was cut off, every payload that
\* mattered when it was captured has its generation, in its own region, and
\* one that was entered where it had been written has a candidate for it.
LineageComplete ==
  ~store.truncated /\ ~tracker.truncated =>
    \A p \in seen :
      \E i \in DOMAIN Generations :
        /\ Generations[i].base = p[1] /\ Generations[i].artifact = p[2]
        /\ p[3] # {} => Generations[i].candidate # {}

\* The generations of a region are one chain: the parent of each is the one
\* before it in its region, and holds something else (generation.rs: observe).
ChainsLinked ==
  \A i \in DOMAIN Generations :
    LET before == {j \in 1..(i - 1) : Generations[j].base = Generations[i].base}
        p == Generations[i].parent
    IN  IF before = {} THEN p = 0
        ELSE /\ p \in before /\ \A j \in before : j <= p
             /\ Generations[p].artifact # Generations[i].artifact

\* The bytes of artifacts, numbered.
ArtifactBytes(ids) == UNION {{id} \X (1..Size[id]) : id \in ids}

\* The bytes retained are those of the artifacts, each once, within their
\* limits, and there is an artifact for every generation (artifact.rs: capture).
ArtifactsAccounted ==
  /\ store.retained = Cardinality(ArtifactBytes(store.ids))
  /\ store.retained <= MaxArtifactBytes /\ Cardinality(store.ids) <= MaxArtifacts
  /\ \A i \in DOMAIN Generations : Generations[i].artifact \in store.ids

=============================================================================
