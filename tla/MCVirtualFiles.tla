--------------------------- MODULE MCVirtualFiles ---------------------------
(* What TLC needs to check VirtualFiles on small instances. *)
EXTENDS VirtualFiles, TLC

\* Paths are compared only for equality.
PathSymmetry == Permutations(Paths)

=============================================================================
