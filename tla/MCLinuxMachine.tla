--------------------------- MODULE MCLinuxMachine ---------------------------
\* A program of one page with room for others above it, and two descriptors
\* besides the standard three.
EXTENDS LinuxMachine

MCFds == 0..4
MCShipped == [p \in {"std"} |-> 0]
MCStdPaths == [fd \in 0..2 |-> "std"]
MCLayout == [a \in {1} |-> 1]
MCRedirects == [u \in {} |-> u]
MCBodies == [u \in {} |-> 0]
MCResponses == [p \in {"peer"} |-> 1]

=============================================================================
