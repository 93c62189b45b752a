------------------------------ MODULE Requests ------------------------------
(***************************************************************************)
(* What the page may rely on when it calls one of the worker clients of    *)
(* web/src: a promise is pending from the call on, it is settled once, and *)
(* every promise is settled.                                               *)
(***************************************************************************)
CONSTANT Calls

VARIABLE outcome    \* of the promise each call returned

Outcomes == {"none", "pending", "resolved", "rejected"}

Pending == {c \in Calls : outcome[c] = "pending"}

Init == outcome = [c \in Calls |-> "none"]

\* A call; it may replace calls that are pending.
Issue(c, replaced) ==
  /\ outcome[c] = "none"
  /\ outcome' = [d \in Calls |-> IF d = c THEN "pending"
                                 ELSE IF d \in replaced THEN "rejected" ELSE outcome[d]]

Resolve(c) ==
  /\ outcome[c] = "pending"
  /\ outcome' = [outcome EXCEPT ![c] = "resolved"]

Reject(failed) ==
  /\ failed # {}
  /\ outcome' = [d \in Calls |-> IF d \in failed THEN "rejected" ELSE outcome[d]]

Next ==
  \/ \E c \in Calls : \E replaced \in SUBSET Pending : Issue(c, replaced)
  \/ \E c \in Calls : Resolve(c)
  \/ \E failed \in SUBSET Pending : Reject(failed)

Settle(c) == outcome[c] = "pending" /\ Next /\ outcome'[c] # "pending"

Safety == Init /\ [][Next]_outcome
Spec == Safety /\ \A c \in Calls : WF_outcome(Settle(c))

=============================================================================
