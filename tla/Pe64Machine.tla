----------------------------- MODULE Pe64Machine -----------------------------
(***************************************************************************)
(* The PE64 interpreter loop of crates/analysis-dynamic/src/engine64.rs.   *)
(* It schedules like PE32, but returning from the entry point ends only    *)
(* the first thread, exceptions visit vectored handlers alone, a handler   *)
(* that continues restores the registers saved when it was called, and a   *)
(* stray return to the exception sentinel is not noticed.  An address is   *)
(* known by its kind; what guest code leaves in RIP is chosen freely.  The *)
(* logs, which never change what happens next, are left out.               *)
(***************************************************************************)
EXTENDS Integers, Sequences, SequencesExt

CONSTANTS
  MaxThreads,        \* MAX_GUEST_THREADS
  Quantum,           \* THREAD_QUANTUM
  MaxInstructions,   \* options.max_instructions
  MaxApiEvents,      \* HARD_MAX_API_EVENTS
  MaxExceptions,     \* MAX_EXCEPTION_EVENTS
  MaxDepth,          \* MAX_EXCEPTION_DEPTH, also the limit of handlers
  TlsCallbacks,      \* number of TLS callbacks of the loaded image
  Handlers,          \* addresses the sample registers as handlers
  Targets,           \* kinds of address guest code may put in RIP
  Starts,            \* kinds of address the file may give a TLS callback or the
                     \* entry point: the loader checks neither
  Fetchable,         \* kinds of address a handler or a thread may start at: code,
                     \* and stubs and sentinels whose address the sample maps
  NoPending          \* pending_exception is None

Locations == {"code", "stub", "bad",
              "thread_return", "entry_return", "tls_return", "exception_return"}

Terminations == {"none", "returned", "exit_process", "instruction_limit",
                 "halted", "memory_fault", "invalid_instruction", "unsupported"}

\* `thread` is auxiliary: whose registers saved_cpu holds.
PendingException == [depth : Nat, index : Nat \ {0}, resume : Locations,
                     fallback : Terminations \ {"none"}, thread : 1..MaxThreads]

ASSUME Pe64Assumption ==
  /\ MaxThreads \in Nat \ {0} /\ Quantum \in Nat \ {0}
  /\ MaxInstructions \in Nat /\ MaxApiEvents \in Nat
  /\ MaxExceptions \in Nat /\ MaxDepth \in Nat /\ TlsCallbacks \in Nat
  /\ Targets \subseteq Locations /\ Starts \subseteq Locations /\ Fetchable \subseteq Locations /\ NoPending \notin PendingException

VARIABLES
  phase,        \* where the loop of `execute` stands: "top", "body" or "done"
  rip,          \* kind of address in RIP of the running thread
  threads,      \* thread_states
  current,      \* current_thread, counted from 1
  nextSwitch,   \* next_thread_switch
  count,        \* instruction_count
  apis,         \* api_calls.len()
  starts,       \* tls_callbacks, then entry_point, which is never taken out
  vectored,     \* vectored_handlers
  pending,      \* pending_exception
  exceptions,   \* exceptions.len()
  termination

sched == <<threads, current>>
faults == <<pending, exceptions>>
vars == <<phase, rip, sched, nextSwitch, count, apis, starts, vectored, faults, termination>>

GuestThread == [alive : BOOLEAN, rip : Locations]

TypeOK ==
  /\ phase \in {"top", "body", "done"} /\ rip \in Locations
  /\ threads \in Seq(GuestThread) /\ Len(threads) \in 1..MaxThreads
  /\ current \in 1..Len(threads)
  /\ nextSwitch \in Nat /\ count \in 0..MaxInstructions /\ apis \in 0..MaxApiEvents
  /\ starts \in Seq(Locations) /\ Len(starts) \in 1..(TlsCallbacks + 1)
  /\ vectored \in Seq(Handlers) /\ Len(vectored) <= MaxDepth
  /\ pending \in PendingException \cup {NoPending} /\ exceptions \in Nat
  /\ termination \in Terminations

-----------------------------------------------------------------------------
(* Scheduling *)

Alive(ths) == {t \in 1..Len(ths) : ths[t].alive}
Distance(t, ths) == IF t > current THEN t - current ELSE t + Len(ths) - current
\* A search that forgets to look at the state of the thread.
IsNextOfAny(t, ths) == /\ t \in 1..Len(ths)
                       /\ \A u \in 1..Len(ths) : Distance(t, ths) <= Distance(u, ths)
\* The thread schedule_next_thread finds: the nearest one alive.
IsNext(t, ths) == /\ t \in Alive(ths)
                  /\ \A u \in Alive(ths) : Distance(t, ths) <= Distance(u, ths)

SwitchTo(t, ths, at) ==
  /\ current' = t
  /\ rip' = IF t = current THEN at ELSE ths[t].rip

EndedStillAlive(at) == [alive |-> TRUE, rip |-> at]
Ended(at) == [alive |-> FALSE, rip |-> at]

\* finish_current_thread, then the next thread or the end of the run.
FinishAndSchedule(at) ==
  LET done == [threads EXCEPT ![current] = Ended(at)]
  IN  /\ threads' = done
      /\ \/ \E t \in 1..Len(done) : IsNext(t, done) /\ SwitchTo(t, done, at)
                                    /\ UNCHANGED termination
         \/ /\ Alive(done) = {}
            /\ termination' = "returned" /\ rip' = at
            /\ UNCHANGED current

-----------------------------------------------------------------------------
(* Exceptions *)

\* begin_exception_handler; the second disjunct is the false it returns: no
\* handler is left or too many were visited, the handler cannot be fetched or
\* the stack not written, and RIP stays at `at`.
BeginHandler(p, at) ==
  \/ /\ p.depth < MaxDepth /\ p.index <= Len(vectored)
     /\ pending' = p /\ exceptions' = exceptions + 1
     /\ rip' \in Fetchable
     /\ UNCHANGED termination
  \/ /\ pending' = NoPending /\ termination' = p.fallback
     /\ rip' = at
     /\ UNCHANGED exceptions

\* dispatch_exception at `at`, to go on at `resume` if a handler says so.
Dispatch(fallback, at, resume) ==
  \/ /\ pending = NoPending /\ exceptions < MaxExceptions /\ vectored # <<>>
     /\ BeginHandler([depth |-> 0, index |-> 1, resume |-> resume,
                      fallback |-> fallback, thread |-> current], at)
  \/ /\ pending # NoPending \/ exceptions >= MaxExceptions \/ vectored = <<>>
     /\ termination' = fallback /\ rip' = at
     /\ UNCHANGED faults

-----------------------------------------------------------------------------
(* The loop of `execute` *)

\* The targets left once the first one has started: callbacks and entry point.
StillToStart == IF TlsCallbacks = 0 THEN 1 ELSE TlsCallbacks

Init ==
  /\ phase = "top" /\ rip \in Starts
  /\ threads = <<[alive |-> TRUE, rip |-> rip]>> /\ current = 1
  /\ nextSwitch = Quantum /\ count = 0 /\ apis = 0
  /\ starts \in [1..StillToStart -> Starts]
  /\ TlsCallbacks = 0 => starts[1] = rip
  /\ vectored = <<>> /\ pending = NoPending /\ exceptions = 0
  /\ termination = "none"

RotationAnyway == count >= nextSwitch
RotationDue == pending = NoPending /\ count >= nextSwitch

Top ==
  /\ phase = "top" /\ termination = "none" /\ count < MaxInstructions
  /\ phase' = "body"
  /\ IF RotationDue
     THEN /\ \E t \in 1..Len(threads) : IsNext(t, threads) /\ SwitchTo(t, threads, rip)
          /\ threads' = [threads EXCEPT ![current].rip = rip]
          /\ nextSwitch' = nextSwitch + Quantum
     ELSE UNCHANGED <<rip, nextSwitch, sched>>
  /\ UNCHANGED <<count, apis, starts, vectored, faults, termination>>

Finish ==
  /\ phase = "top" /\ (termination # "none" \/ count >= MaxInstructions)
  /\ phase' = "done"
  /\ termination' = IF termination = "none" THEN "instruction_limit" ELSE termination
  /\ UNCHANGED <<rip, sched, nextSwitch, count, apis, starts, vectored, faults>>

At(location) == phase = "body" /\ rip = location /\ phase' = "top"

\* The first thread's entry point ends like any other thread's.
ThreadReturn ==
  /\ At("thread_return") \/ At("entry_return")
  /\ FinishAndSchedule(rip)
  /\ UNCHANGED <<nextSwitch, count, apis, starts, vectored, faults>>

\* What is left after the next target has started: the entry point stays.
Later(targets) == IF Len(targets) > 1 THEN Tail(targets) ELSE targets

\* start_next_target: the next TLS callback or the entry point, wherever the
\* file says that it is, on the stack of the first thread, which the sample may
\* have made unwritable.
TlsReturn ==
  /\ At("tls_return")
  /\ starts' = Later(starts)
  /\ \/ rip' = Head(starts) /\ UNCHANGED termination
     \/ termination' = "memory_fault" /\ UNCHANGED rip
  /\ UNCHANGED <<sched, nextSwitch, count, apis, vectored, faults>>

HandlerReturns == At("exception_return") /\ pending # NoPending

\* complete_exception_handler without an exception: it changes nothing at all.
StrayReturn ==
  /\ At("exception_return") /\ pending = NoPending
  /\ UNCHANGED <<rip, sched, nextSwitch, count, apis, starts, vectored, faults, termination>>

ContinueExecution ==
  /\ HandlerReturns
  /\ rip' = pending.resume /\ pending' = NoPending
  /\ UNCHANGED <<sched, nextSwitch, count, apis, starts, vectored, exceptions, termination>>

\* Disposition 0 with a handler after the one that returned.
ContinueSearch ==
  /\ HandlerReturns /\ pending.index < Len(vectored)
  /\ BeginHandler([pending EXCEPT !.index = @ + 1, !.depth = @ + 1], rip)
  /\ UNCHANGED <<sched, nextSwitch, count, apis, starts, vectored>>

\* Any other disposition, or nobody left to ask.
Unhandled ==
  /\ HandlerReturns
  /\ pending' = NoPending /\ termination' = pending.fallback
  /\ UNCHANGED <<rip, sched, nextSwitch, count, apis, starts, vectored, exceptions>>

-----------------------------------------------------------------------------
(* handle_api *)

ApiLimit ==
  /\ At("stub") /\ apis >= MaxApiEvents
  /\ termination' = "instruction_limit"
  /\ UNCHANGED <<rip, sched, nextSwitch, count, apis, starts, vectored, faults>>

\* The return address or an argument cannot be read.
ApiFault ==
  /\ At("stub") /\ apis < MaxApiEvents
  /\ termination' = "memory_fault"
  /\ UNCHANGED <<rip, sched, nextSwitch, count, apis, starts, vectored, faults>>

ApiCall == /\ At("stub") /\ apis < MaxApiEvents /\ apis' = apis + 1
           /\ UNCHANGED <<nextSwitch, count, starts>>

\* Any call that leaves threads and exceptions alone.
PlainApi == /\ ApiCall /\ rip' \in Targets
            /\ UNCHANGED <<sched, vectored, faults, termination>>

\* CreateThread with a start address that can be fetched, and room for the
\* thread, its stack and its TEB; otherwise it is a PlainApi.
CreateThread ==
  /\ ApiCall /\ Len(threads) < MaxThreads
  /\ \E start \in Fetchable :
       threads' = Append(threads, [alive |-> TRUE, rip |-> start])
  /\ rip' \in Targets
  /\ UNCHANGED <<current, vectored, faults, termination>>

\* The call returns before the thread is taken off the CPU.
ExitThread == /\ ApiCall /\ \E ret \in Targets : FinishAndSchedule(ret)
              /\ UNCHANGED <<vectored, faults>>

\* terminate_all_threads
ExitProcess ==
  /\ ApiCall /\ rip' \in Targets /\ termination' = "exit_process"
  /\ threads' = [t \in 1..Len(threads) |->
       [alive |-> FALSE, rip |-> IF t = current THEN rip ELSE threads[t].rip]]
  /\ UNCHANGED <<current, vectored, faults>>

RaiseException == /\ ApiCall /\ \E ret \in Targets : Dispatch("memory_fault", ret, ret)
                  /\ UNCHANGED <<sched, vectored>>

AddVectored ==
  /\ ApiCall /\ rip' \in Targets /\ Len(vectored) < MaxDepth
  /\ \E h \in Handlers : vectored' \in {<<h>> \o vectored, Append(vectored, h)}
  /\ UNCHANGED <<sched, faults, termination>>

\* The first entry with the address.
RemoveVectored ==
  /\ ApiCall /\ rip' \in Targets
  /\ \E i \in 1..Len(vectored) : /\ \A j \in 1..(i - 1) : vectored[j] # vectored[i]
                                 /\ vectored' = RemoveAt(vectored, i)
  /\ UNCHANGED <<sched, faults, termination>>

-----------------------------------------------------------------------------
(* Guest instructions *)

\* RIP cannot be fetched: a handler that continues comes back to it.
FetchFault == /\ At("bad") /\ Dispatch("memory_fault", rip, rip)
              /\ UNCHANGED <<sched, nextSwitch, count, apis, starts, vectored>>

\* The bytes do not decode: a handler that continues goes on one byte further.
InvalidInstruction ==
  /\ At("code")
  /\ \E next \in Targets : Dispatch("invalid_instruction", rip, next)
  /\ UNCHANGED <<sched, nextSwitch, count, apis, starts, vectored>>

Counted == At("code") /\ count' = count + 1
           /\ UNCHANGED <<sched, nextSwitch, apis, starts, vectored>>

Step == Counted /\ rip' \in Targets /\ UNCHANGED <<faults, termination>>

\* INT3, or an instruction that fails; it is counted before it is executed.
FaultingStep ==
  /\ Counted
  /\ \E next \in Targets, fallback \in {"halted", "memory_fault", "unsupported"} :
       Dispatch(fallback, next, next)

Halt == Counted /\ rip' \in Targets /\ termination' = "halted" /\ UNCHANGED faults

Handling == StrayReturn \/ ContinueExecution \/ ContinueSearch \/ Unhandled
Calls == \/ ApiLimit \/ ApiFault \/ PlainApi \/ CreateThread \/ ExitThread \/ ExitProcess
         \/ RaiseException \/ AddVectored \/ RemoveVectored
Instructions == FetchFault \/ InvalidInstruction \/ Step \/ FaultingStep \/ Halt

Next == Top \/ Finish \/ ThreadReturn \/ TlsReturn \/ Handling \/ Calls \/ Instructions

\* `execute` is a loop that never waits: it goes on as long as it can.
Spec == Init /\ [][Next]_vars /\ WF_vars(Next)

-----------------------------------------------------------------------------
(* Properties *)

\* The threads of engine64.rs take their turns as RoundRobin says, whatever
\* ends them: their own return, ExitThread from a handler or ExitProcess.
Scheduler == INSTANCE RoundRobin WITH
  alive <- [t \in 1..Len(threads) |-> threads[t].alive],
  running <- current,
  over <- termination # "none"
ImplementsRoundRobin == Scheduler!RoundRobinSpec

\* While an exception is handled the CPU stays with the thread that raised it,
\* so that the handler returns to where it was called, unless that thread ends
\* (schedule_next_thread is held back by pending_exception).
HandlerKeepsCpu ==
  pending # NoPending /\ pending.thread \in Alive(threads) => current = pending.thread

\* An emulation ends, or a thread has returned to the exception sentinel with no
\* exception to complete and stays there, or the file gives its entry point the
\* address of the TLS sentinel and it is started for ever: nothing else keeps
\* the loop of `execute` going without using up a budget.
Stray == rip = "exception_return" /\ pending = NoPending
EntryStartsItself == rip = "tls_return" /\ starts = <<"tls_return">>
EndsUnlessItLoops ==
  \/ <>(phase = "done")
  \/ <>[]Stray
  \/ <>[]EntryStartsItself

=============================================================================
