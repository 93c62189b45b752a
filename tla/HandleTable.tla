----------------------------- MODULE HandleTable -----------------------------
(***************************************************************************)
(* The table of synthetic handles that every object of the emulated        *)
(* Windows shares: VirtualWindows::allocate and close in                   *)
(* crates/analysis-dynamic/src/windows.rs.  A handle number is never given *)
(* out twice, so that a handle the sample kept after closing it is invalid *)
(* and never designates another object.                                    *)
(***************************************************************************)
EXTENDS Integers, FiniteSets

CONSTANTS
  MaxHandles,     \* MAX_HANDLES, the live handles of one run
  HandleSpace     \* bound of the model: handles given out in one run

ASSUME HandleAssumption == MaxHandles \in Nat /\ HandleSpace \in Nat

VARIABLES
  handles,        \* the live handles, each with its resource
  nextHandle      \* next_handle, counted from 0

handleVars == <<handles, nextHandle>>

HandlesInit == handles = <<>> /\ nextHandle = 0

HandlesTypeOK(Resource) ==
  /\ nextHandle \in 0..HandleSpace
  /\ DOMAIN handles \subseteq 0..(nextHandle - 1)
  /\ handles \in [DOMAIN handles -> Resource]

HandleLeft == Cardinality(DOMAIN handles) < MaxHandles

\* The lowest free number, a table that recycles its entries.
LowestFree == CHOOSE h \in 0..nextHandle : /\ h \notin DOMAIN handles
                                           /\ \A k \in 0..(h - 1) : k \in DOMAIN handles
NewHandle == nextHandle

\* allocate: the new handle designates resource r.
Allocate(r) ==
  /\ HandleLeft
  /\ nextHandle < HandleSpace
  /\ handles' = [h \in DOMAIN handles \cup {NewHandle} |->
                   IF h = NewHandle THEN r ELSE handles[h]]
  /\ nextHandle' = nextHandle + 1

\* allocate returns None.
AllocateFails == ~HandleLeft /\ UNCHANGED handleVars

Close(h) ==
  /\ h \in DOMAIN handles
  /\ handles' = [k \in DOMAIN handles \ {h} |-> handles[k]]
  /\ UNCHANGED nextHandle

\* A live handle goes on with resource r.
Update(h, r) == handles' = [handles EXCEPT ![h] = r] /\ UNCHANGED nextHandle

\* The table stays within its limit.
HandleLimit == Cardinality(DOMAIN handles) <= MaxHandles

\* A handle that was closed never designates anything again.
ClosedForGood ==
  [][\A h \in 0..(nextHandle - 1) : h \notin DOMAIN handles => h \notin DOMAIN handles']_handleVars

=============================================================================
