---------------------------- MODULE MCPe64Machine ----------------------------
\* Three threads, so that two wait while one handles an exception, and a list of
\* two handlers, which may be the same one twice.
EXTENDS Pe64Machine

\* Every kind of address a guest can jump to.
AllLocations == Locations

=============================================================================
