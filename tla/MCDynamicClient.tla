--------------------------- MODULE MCDynamicClient ---------------------------
(* What TLC needs to check DynamicClient on small instances. *)
EXTENDS DynamicClient

CONSTANTS p, q

\* A single run, a matrix, one that names a profile twice, one that is too long.
SmallBatches == {<<p>>, <<p, q>>, <<p, p>>, <<p, q, p>>}

=============================================================================
