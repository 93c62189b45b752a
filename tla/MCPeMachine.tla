---------------------------- MODULE MCPeMachine ----------------------------
(* The instance of PeMachine that TLC checks. *)
EXTENDS PeMachine

\* Where a step may go: code, the stub of an import, every return sentinel, and
\* an address nothing can be fetched from.
AllTargets == {"code", "stub", "bad",
               "thread_return", "entry_return", "tls_return", "exception_return"}

=============================================================================
