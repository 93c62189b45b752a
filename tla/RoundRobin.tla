----------------------------- MODULE RoundRobin -----------------------------
(***************************************************************************)
(* What a report of guest threads rests on: the CPU goes round among the   *)
(* threads that have not ended, a thread that has ended never runs again,  *)
(* and nothing runs once the emulation is over.  The machines of           *)
(* crates/analysis-dynamic/src are to implement it.                        *)
(***************************************************************************)
EXTENDS Integers, Sequences

CONSTANT MaxThreads  \* the most threads that can be made

VARIABLES
  alive,    \* of each thread made so far: whether it can run
  running,  \* the thread that has the CPU
  over      \* the emulation has ended

rrVars == <<alive, running, over>>

Start == alive = <<TRUE>> /\ running = 1 /\ over = FALSE

\* How many places after the running thread t stands; the running one is last.
Places(t, n) == IF t > running THEN t - running ELSE t + n - running
IsTurnOf(t, threads) ==
  /\ t \in DOMAIN threads /\ threads[t]
  /\ \A u \in DOMAIN threads : threads[u] => Places(t, Len(threads)) <= Places(u, Len(threads))

Create ==
  /\ ~over /\ Len(alive) < MaxThreads
  /\ alive' = Append(alive, TRUE)
  /\ UNCHANGED <<running, over>>

Rotate ==
  /\ ~over
  /\ \E t \in DOMAIN alive : IsTurnOf(t, alive) /\ running' = t
  /\ UNCHANGED <<alive, over>>

\* The running thread ends; with no other left, so does the emulation.
End ==
  /\ ~over
  /\ alive' = [alive EXCEPT ![running] = FALSE]
  /\ \/ \E t \in DOMAIN alive : IsTurnOf(t, alive') /\ running' = t /\ UNCHANGED over
     \/ (\A t \in DOMAIN alive : ~alive'[t]) /\ over' /\ UNCHANGED running

\* The emulation ends, by itself or with the process.
Stop ==
  /\ ~over /\ over'
  /\ alive' \in {alive, [t \in DOMAIN alive |-> FALSE]}
  /\ UNCHANGED running

Turn == Create \/ Rotate \/ End \/ Stop
RoundRobinSpec == Start /\ [][Turn]_rrVars

=============================================================================
