----------------------------- MODULE ByteLabels -----------------------------
(***************************************************************************)
(* What a report of data flows promises: every byte of guest memory        *)
(* carries the labels of the sources its content came from, and a flow     *)
(* names the labels of the bytes that reached a sink, unless the report    *)
(* says that something was lost.  No lists, no ranges, no order.           *)
(***************************************************************************)
EXTENDS Integers, Sequences, FiniteSets

CONSTANTS
  Addresses,  \* the addresses of guest memory
  MaxLabels   \* the labels kept where more sources meet

VARIABLES
  labels,   \* of each address: the labels its byte carries
  parents,  \* of each source known so far: the labels it was derived from
  flows,    \* of each flow seen so far: the labels that reached the sink
  lost,     \* the report is marked as incomplete
  call      \* the bytes the last call took its data from, those it changed, and
            \* the bytes on both sides of the place it named when it took none

blVars == <<labels, parents, flows, lost, call>>

IsInterval(bytes) == bytes \subseteq Addresses /\ \A x, y \in bytes : \A a \in Addresses : x <= a /\ a <= y => a \in bytes

Meeting(bytes) == UNION {labels[a] : a \in bytes}
\* All the labels of these bytes or, when they are too many, some of them.
Kept(ls, bytes) ==
  LET all == Meeting(bytes)
  IN  /\ ls \subseteq all
      /\ IF Cardinality(all) <= MaxLabels THEN ls = all ELSE Cardinality(ls) = MaxLabels

\* The labels of what a call takes.  From an empty buffer it takes nothing, yet it
\* gets the labels of the bytes on both sides of it when they have the same.
Taken(ls) ==
  IF call'.around = {} THEN Kept(ls, call'.from)
  ELSE ls = IF \A a, b \in call'.around : labels[a] = labels[b] THEN Meeting(call'.around) ELSE {}

\* Bytes become a source, of their own or derived from other bytes.
Enter ==
  /\ UNCHANGED <<flows, lost>>
  /\ Len(parents') = Len(parents) + 1 /\ SubSeq(parents', 1, Len(parents)) = parents
  /\ labels' = [a \in Addresses |-> IF a \in call'.to THEN {Len(parents')} ELSE labels[a]]
  /\ Taken(parents'[Len(parents')])

\* Bytes are replaced by others, or by nothing that anyone knows of.
Move ==
  /\ UNCHANGED <<parents, flows, lost>>
  /\ \E ls \in {labels'[a] : a \in call'.to} :
       /\ labels' = [a \in Addresses |-> IF a \in call'.to THEN ls ELSE labels[a]]
       /\ Taken(ls)

\* Bytes reach a sink.
Reach ==
  /\ UNCHANGED <<labels, parents, lost>>
  /\ call'.to = {} /\ Len(flows') = Len(flows) + 1 /\ SubSeq(flows', 1, Len(flows)) = flows
  /\ flows'[Len(flows')] # {}
  /\ Taken(flows'[Len(flows')])

\* Once something was lost only the record of what was seen is safe.
Lose ==
  /\ lost'
  /\ SubSeq(flows', 1, Len(flows)) = flows
  /\ SubSeq(parents', 1, Len(parents)) = parents

\* A call names the bytes it takes from and those it changes.
Change ==
  /\ IsInterval(call'.from) /\ IsInterval(call'.to) /\ IsInterval(call'.around)
  /\ Enter \/ Move \/ Reach \/ Lose

Start ==
  /\ \E image \in SUBSET Addresses : IsInterval(image) /\ labels = [a \in Addresses |-> IF a \in image THEN {1} ELSE {}]
  /\ parents = <<{}>> /\ flows = <<>> /\ lost = FALSE
  /\ call = [from |-> {}, to |-> {}, around |-> {}]

LabelsSpec == Start /\ [][Change]_blVars

=============================================================================
