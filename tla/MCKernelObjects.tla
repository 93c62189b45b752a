--------------------------- MODULE MCKernelObjects ---------------------------
EXTENDS KernelObjects

MCNetHandles == {-2, -1} \cup 0..(HandleSpace - 1)
\* A long body, a redirect that the limit leaves unfollowed, and what it leads to.
MCRedirects == [u \in Urls |-> CASE u = "first" -> "second" [] u = "second" -> "third" [] OTHER -> u]
MCBodies == [u \in Urls |-> CASE u = "first" -> 0 [] u = "second" -> 2 [] OTHER -> 1]
MCResponses == [d \in Destinations |-> IF d = "long" THEN 2 ELSE 1]
=============================================================================
