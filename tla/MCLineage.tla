------------------------------ MODULE MCLineage ------------------------------
EXTENDS Lineage

MCSize == [c \in Contents |-> IF c = "data" THEN 2 ELSE 1]
=============================================================================
