------------------------------ MODULE PeMachine ------------------------------
(***************************************************************************)
(* The PE32 interpreter loop of crates/analysis-dynamic/src/engine.rs: the *)
(* round-robin guest-thread scheduler, the structured and vectored         *)
(* exception dispatcher, and the API calls that change either of them.     *)
(*                                                                         *)
(* Guest data is abstracted.  An instruction pointer is known by the kind  *)
(* of address it holds, because that is all `execute` looks at, and what a *)
(* guest instruction leaves in it is chosen freely: the sample is          *)
(* arbitrary.  Everything the emulator itself decides is kept.             *)
(***************************************************************************)
EXTENDS Integers, Sequences, FiniteSets, SequencesExt

CONSTANTS
  MaxThreads,        \* MAX_GUEST_THREADS
  Quantum,           \* THREAD_QUANTUM
  MaxInstructions,   \* options.max_instructions
  MaxApiEvents,      \* HARD_MAX_API_EVENTS
  MaxExceptions,     \* MAX_EXCEPTION_EVENTS
  MaxSehDepth,       \* MAX_SEH_DEPTH, also the limit of vectored handlers
  MaxThreadEvents,   \* MAX_THREAD_EVENTS
  TlsCallbacks,      \* number of TLS callbacks of the loaded image
  Handlers,          \* addresses the sample registers as vectored handlers
  Targets,           \* kinds of address guest code may put in EIP
  Starts,            \* kinds of address the file may give a TLS callback or the
                     \* entry point: the loader checks neither
  Fetchable,         \* kinds of address a handler or a thread may start at: code,
                     \* and stubs and sentinels whose address the sample maps
  NoPending          \* pending_exception is None

\* What EIP can hold: executable memory, an import stub, memory that cannot
\* be fetched, or one of the four return sentinels.
Locations == {"code", "stub", "bad",
              "thread_return", "entry_return", "tls_return", "exception_return"}

\* Termination::*, with "none" for an emulation still running.
Terminations == {"none", "returned", "exit_process", "instruction_limit",
                 "halted", "memory_fault", "illegal_instruction"}

\* What a fault in guest code ends the run with when no handler takes it.
Fallbacks == {"halted", "memory_fault", "illegal_instruction"}

PendingException ==
  [depth : Nat, fallback : Fallbacks, event : Nat \ {0},
   vectored : Nat,                    \* vectored_index + 1, 0 for None
   frame : {"frame", "end"}]          \* 0 and u32::MAX end the chain

ASSUME LimitsAssumption ==
  /\ MaxThreads \in Nat \ {0}
  /\ Quantum \in Nat \ {0}
  /\ MaxInstructions \in Nat \ {0}
  /\ MaxApiEvents \in Nat
  /\ MaxExceptions \in Nat
  /\ MaxSehDepth \in Nat \ {0}
  /\ MaxThreadEvents \in Nat
  /\ TlsCallbacks \in Nat

ASSUME GuestAssumption ==
  /\ Targets \subseteq Locations /\ Starts \subseteq Locations /\ Fetchable \subseteq Locations
  /\ NoPending \notin PendingException

VARIABLES
  pc,           \* where the loop of `execute` stands: "top", "body" or "done"
  cpu,          \* registers of the running thread
  threads,      \* thread_states
  current,      \* current_thread, counted from 1
  nextSwitch,   \* next_thread_switch
  count,        \* instruction_count
  apis,         \* api_calls.len()
  starts,       \* tls_callbacks, then entry_point, which is never taken out
  events,       \* thread_events
  truncated,    \* the report says that it is not complete
  vectored,     \* vectored_handlers
  seh,          \* threads whose own FS:[0] holds the head of a chain
  pending,      \* pending_exception
  exceptions,   \* the exception events of the report
  termination,
  since         \* auxiliary: threads that had a turn since this one last ran

sched == <<threads, current, events, truncated, since>>
vars == <<pc, cpu, nextSwitch, count, apis, starts, vectored, seh, pending,
          exceptions, termination, sched>>

Cpu == [eip : Locations, teb : 1..MaxThreads]
GuestThread == [state : {"runnable", "exited", "process_exit"}, cpu : Cpu]
ThreadEvent == [tid : 1..MaxThreads,
                op : {"created", "scheduled", "exited", "process_exit"}]
\* `thread` is auxiliary; `chain` is the TEB a SEH frame was read from, 0 for
\* a vectored handler, and `handler` the vectored handler, if it is one.
ExceptionEvent ==
  [thread : 1..MaxThreads, chain : 0..MaxThreads, handler : Handlers \cup {NoPending},
   outcome : {"dispatched", "continued_search", "continued_execution",
              "unhandled_disposition"}]

TypeOK ==
  /\ pc \in {"top", "body", "done"}
  /\ cpu \in Cpu
  /\ threads \in Seq(GuestThread) /\ Len(threads) \in 1..MaxThreads
  /\ current \in 1..Len(threads)
  /\ nextSwitch \in Nat /\ count \in Nat /\ apis \in Nat
  /\ starts \in Seq(Locations) /\ Len(starts) \in 1..(TlsCallbacks + 1)
  /\ events \in Seq(ThreadEvent)
  /\ truncated \in BOOLEAN
  /\ vectored \in Seq(Handlers) /\ Len(vectored) <= MaxSehDepth
  /\ seh \subseteq 1..MaxThreads
  /\ pending \in PendingException \cup {NoPending}
  /\ exceptions \in Seq(ExceptionEvent)
  /\ termination \in Terminations
  /\ since \in [1..MaxThreads -> SUBSET (1..MaxThreads)]

-----------------------------------------------------------------------------
(* Helpers *)

Runnable(ths) == {t \in 1..Len(ths) : ths[t].state = "runnable"}

\* The log after pushing `new` onto it, and whether the limit dropped any.
Recorded(log, new) ==
  LET all == log \o new
  IN  SubSeq(all, 1, IF Len(all) <= MaxThreadEvents THEN Len(all) ELSE MaxThreadEvents)
DroppedSilently(log, new) == FALSE
Dropped(log, new) == Len(log) + Len(new) > MaxThreadEvents

Event(t, op) == [tid |-> t, op |-> op]

\* A table search that starts over from the first thread at each rotation.
DistanceFromFirst(t, ths) == IF t = current THEN Len(ths) ELSE t - 1
\* How many places after the current thread t stands; the current one is last.
Distance(t, ths) == IF t > current THEN t - current ELSE t + Len(ths) - current

\* A search that forgets to look at the state of the thread.
IsNextOfAny(t, ths) == /\ t \in 1..Len(ths)
                       /\ \A u \in 1..Len(ths) : Distance(t, ths) <= Distance(u, ths)
\* The thread schedule_next_thread finds: the nearest runnable one.
IsNext(t, ths) == /\ t \in Runnable(ths)
                  /\ \A u \in Runnable(ths) : Distance(t, ths) <= Distance(u, ths)

Log(new) == /\ events' = Recorded(events, new)
            /\ truncated' = (truncated \/ Dropped(events, new))

\* The registers the machine goes on with after a switch to t.
LoadedNothing(t, ths, regs) == regs
Loaded(t, ths, regs) == IF t = current THEN regs ELSE ths[t].cpu

\* The running thread, with registers regs, gives the CPU to thread t of ths.
SwitchTo(t, ths, regs) ==
  /\ current' = t
  /\ cpu' = Loaded(t, ths, regs)
  /\ since' = IF t = current THEN since
              ELSE [u \in 1..MaxThreads |-> IF u = t THEN {} ELSE since[u] \cup {t}]

EndedStillRunnable(regs) == [state |-> "runnable", cpu |-> regs]
Ended(regs) == [state |-> "exited", cpu |-> regs]

\* finish_current_thread, then the next thread or the end of the run.
FinishAndSchedule(regs) ==
  LET done == [threads EXCEPT ![current] = Ended(regs)]
  IN  /\ threads' = done
      /\ Log(<<Event(current, "exited")>>)
      /\ \/ /\ \E t \in 1..Len(done) : IsNext(t, done) /\ SwitchTo(t, done, regs)
            /\ UNCHANGED termination
         \/ /\ Runnable(done) = {}
            /\ termination' = "returned"
            /\ cpu' = regs
            /\ UNCHANGED <<current, since>>

OneHandlerMore(p) == p.depth <= MaxSehDepth
MayVisit(p) == p.depth < MaxSehDepth

\* begin_exception_handler for exception p, with log the events so far.  The
\* second disjunct is the false it returns: no handler is left, or guest
\* memory does not hold an executable one or a writable stack.
BeginHandler(p, log, regs) ==
  \/ /\ MayVisit(p)
     /\ IF p.vectored # 0 THEN p.vectored <= Len(vectored) ELSE p.frame = "frame"
     /\ exceptions' = Append(log,
          [thread |-> current, outcome |-> "dispatched",
           chain |-> IF p.vectored # 0 THEN 0 ELSE 1,
           handler |-> IF p.vectored # 0 THEN vectored[p.vectored] ELSE NoPending])
     /\ pending' = [p EXCEPT !.event = Len(log) + 1]
     /\ \E handler \in Fetchable : cpu' = [regs EXCEPT !.eip = handler]
     /\ UNCHANGED termination
  \/ /\ exceptions' = log
     /\ pending' = NoPending
     /\ cpu' = regs
     /\ termination' = p.fallback

\* The head of the chain `dispatch_exception` reads: that of TEB_BASE, the
\* TEB of the first thread, whichever thread is running.
FirstFrame == IF 1 \in seh THEN "frame" ELSE "end"

\* dispatch_exception for a run that ends with fallback when it returns false.
Dispatch(fallback, regs) ==
  IF pending # NoPending \/ Len(exceptions) >= MaxExceptions
  THEN /\ termination' = fallback
       /\ cpu' = regs
       /\ UNCHANGED <<pending, exceptions>>
  ELSE BeginHandler([depth |-> 0, fallback |-> fallback, event |-> 1,
                     vectored |-> IF vectored = <<>> THEN 0 ELSE 1,
                     frame |-> FirstFrame], exceptions, regs)

-----------------------------------------------------------------------------
(* The loop of `execute`, one action for each way an iteration can go *)

\* The targets left once the first one has started: callbacks and entry point.
StillToStart == IF TlsCallbacks = 0 THEN 1 ELSE TlsCallbacks

Init ==
  /\ pc = "top"
  /\ \E first \in Starts : cpu = [eip |-> first, teb |-> 1]
  /\ threads = <<[state |-> "runnable", cpu |-> cpu]>>
  /\ current = 1
  /\ nextSwitch = Quantum
  /\ count = 0
  /\ apis = 0
  /\ starts \in [1..StillToStart -> Starts]
  /\ TlsCallbacks = 0 => starts[1] = cpu.eip
  /\ events = <<>>
  /\ truncated = FALSE
  /\ vectored = <<>>
  /\ seh = {}
  /\ pending = NoPending
  /\ exceptions = <<>>
  /\ termination = "none"
  /\ since = [t \in 1..MaxThreads |-> {}]

RotationDue == pending = NoPending /\ count >= nextSwitch

\* The head of the loop: one rotation when the quantum is over and no handler
\* is running.  A rotation moves the deadline by one quantum, whatever the
\* number of quanta that have passed.
Top ==
  /\ pc = "top" /\ termination = "none" /\ count < MaxInstructions
  /\ pc' = "body"
  /\ IF RotationDue
     THEN /\ \E t \in Runnable(threads) :
               /\ IsNext(t, threads)
               /\ SwitchTo(t, threads, cpu)
               /\ Log(IF t = current THEN <<>> ELSE <<Event(t, "scheduled")>>)
          /\ threads' = [threads EXCEPT ![current].cpu = cpu]
          /\ nextSwitch' = nextSwitch + Quantum
     ELSE UNCHANGED <<cpu, nextSwitch, sched>>
  /\ UNCHANGED <<count, apis, starts, vectored, seh, pending, exceptions, termination>>

\* The loop ends; a run nothing else ended is out of instructions.
Finish ==
  /\ pc = "top" /\ (termination # "none" \/ count >= MaxInstructions)
  /\ pc' = "done"
  /\ termination' = IF termination = "none" THEN "instruction_limit" ELSE termination
  /\ UNCHANGED <<cpu, nextSwitch, count, apis, starts, vectored, seh, pending,
                 exceptions, sched>>

At(location) == pc = "body" /\ cpu.eip = location /\ pc' = "top"

ThreadReturn ==
  /\ At("thread_return")
  /\ FinishAndSchedule(cpu)
  /\ UNCHANGED <<nextSwitch, count, apis, starts, vectored, seh, pending, exceptions>>

EntryReturn ==
  /\ At("entry_return")
  /\ termination' = "returned"
  /\ UNCHANGED <<cpu, nextSwitch, count, apis, starts, vectored, seh, pending,
                 exceptions, sched>>

\* What is left after the next target has started: the entry point stays.
Later(targets) == IF Len(targets) > 1 THEN Tail(targets) ELSE targets

\* start_next_target: the next TLS callback or the entry point, wherever the
\* file says that it is, on the stack of the first thread, which the sample may
\* have made unwritable.
TlsReturn ==
  /\ At("tls_return")
  /\ starts' = Later(starts)
  /\ \/ cpu' = [cpu EXCEPT !.eip = Head(starts)] /\ UNCHANGED termination
     \/ cpu' = cpu /\ termination' = "memory_fault"
  /\ UNCHANGED <<nextSwitch, count, apis, vectored, seh, pending, exceptions, sched>>

-----------------------------------------------------------------------------
(* complete_exception_handler, by the disposition the handler left in EAX *)

HandlerReturns == At("exception_return") /\ pending # NoPending

\* The log with the outcome of the pending exception's event.
LeftOpen(outcome) == exceptions
Closed(outcome) == [exceptions EXCEPT ![pending.event].outcome = outcome]

StrayReturn ==
  /\ At("exception_return") /\ pending = NoPending
  /\ termination' = "memory_fault"
  /\ UNCHANGED <<cpu, nextSwitch, count, apis, starts, vectored, seh, pending,
                 exceptions, sched>>

\* Disposition -1: the context record, which the handler may have written, is
\* what the thread goes on with.  fs_base is not a part of it.
ContinueExecution ==
  /\ HandlerReturns
  /\ \E eip \in Targets : cpu' = [cpu EXCEPT !.eip = eip]
  /\ exceptions' = Closed("continued_execution")
  /\ pending' = NoPending
  /\ UNCHANGED <<nextSwitch, count, apis, starts, vectored, seh, termination, sched>>

\* Where a search goes on: the next vectored handler, then the frames of the
\* chain, whose links are guest memory.
MoreVectored == pending.vectored # 0 /\ pending.vectored < Len(vectored)
SearchStartsOver(link) ==
  [pending EXCEPT
     !.depth = IF pending.vectored # 0 /\ ~MoreVectored THEN 0 ELSE @ + 1,
     !.vectored = IF MoreVectored THEN @ + 1 ELSE 0,
     !.frame = IF MoreVectored THEN @
               ELSE IF pending.vectored # 0 THEN FirstFrame ELSE link]
SearchOn(link) ==
  [pending EXCEPT
     !.depth = @ + 1,
     !.vectored = IF MoreVectored THEN @ + 1 ELSE 0,
     !.frame = IF MoreVectored THEN @
               ELSE IF pending.vectored # 0 THEN FirstFrame ELSE link]

\* Disposition 0.
ContinueSearch ==
  /\ HandlerReturns
  /\ \E link \in {"frame", "end"} :
       BeginHandler(SearchOn(link), Closed("continued_search"), cpu)
  /\ UNCHANGED <<nextSwitch, count, apis, starts, vectored, seh, sched>>

OtherDisposition ==
  /\ HandlerReturns
  /\ exceptions' = Closed("unhandled_disposition")
  /\ pending' = NoPending
  /\ termination' = pending.fallback
  /\ UNCHANGED <<cpu, nextSwitch, count, apis, starts, vectored, seh, sched>>

-----------------------------------------------------------------------------
(* handle_api: calls that reach an import stub *)

\* A call that comes back with `ret` in EIP; each stub pops its own address.
ApiCall == At("stub") /\ apis < MaxApiEvents
Returned(ret) == [cpu EXCEPT !.eip = ret]

\* The report is full: the run is over before the call is made.
ApiLimit ==
  /\ At("stub") /\ apis >= MaxApiEvents
  /\ truncated' = TRUE
  /\ termination' = "instruction_limit"
  /\ UNCHANGED <<cpu, nextSwitch, count, apis, starts, vectored, seh, pending,
                 exceptions, threads, current, events, since>>

\* The return address, an argument or a buffer cannot be accessed.
ApiFault ==
  /\ ApiCall
  /\ termination' = "memory_fault"
  /\ UNCHANGED <<cpu, nextSwitch, count, apis, starts, vectored, seh, pending,
                 exceptions, sched>>

\* Any call that leaves the scheduler and the exception machinery alone.
PlainApi ==
  /\ ApiCall /\ apis' = apis + 1
  /\ \E ret \in Targets : cpu' = Returned(ret)
  /\ UNCHANGED <<nextSwitch, count, starts, vectored, seh, pending, exceptions,
                 termination, sched>>

RoomForThread == Len(threads) < MaxThreads

\* CreateThread with a start address that can be fetched, below the limit, and
\* with room for the stack and the TEB; otherwise it is a PlainApi.
CreateThread ==
  /\ ApiCall /\ apis' = apis + 1
  /\ RoomForThread
  /\ \E ret \in Targets : cpu' = Returned(ret)
  /\ LET tid == Len(threads) + 1
     IN  /\ \E start \in Fetchable :
              threads' = Append(threads, [state |-> "runnable",
                                          cpu |-> [eip |-> start, teb |-> tid]])
         /\ Log(<<Event(tid, "created")>>)
         /\ since' = [since EXCEPT ![tid] = {}]
  /\ UNCHANGED <<nextSwitch, count, starts, vectored, seh, pending, exceptions,
                 termination, current>>

\* ExitThread: the call returns first, then the thread is taken off the CPU.
ExitThread ==
  /\ ApiCall /\ apis' = apis + 1
  /\ \E ret \in Targets : FinishAndSchedule(Returned(ret))
  /\ UNCHANGED <<nextSwitch, count, starts, vectored, seh, pending, exceptions>>

\* The threads that end with the process: those still alive.
EndsAll == 1..Len(threads)
EndsAlive == Runnable(threads)

\* terminate_all_threads, before the call returns.
ExitProcess ==
  /\ ApiCall /\ apis' = apis + 1
  /\ \E order \in [1..Cardinality(EndsAlive) -> EndsAlive] :
       /\ \A i, j \in DOMAIN order : i < j => order[i] < order[j]
       /\ Log([i \in DOMAIN order |-> Event(order[i], "process_exit")])
  /\ threads' = [t \in 1..Len(threads) |->
                   IF t \in EndsAlive
                   THEN [state |-> "process_exit",
                         cpu |-> IF t = current THEN cpu ELSE threads[t].cpu]
                   ELSE threads[t]]
  /\ \E ret \in Targets : cpu' = Returned(ret)
  /\ termination' = "exit_process"
  /\ UNCHANGED <<nextSwitch, count, starts, vectored, seh, pending, exceptions,
                 current, since>>

RaiseException ==
  /\ ApiCall /\ apis' = apis + 1
  /\ \E ret \in Targets : Dispatch("halted", Returned(ret))
  /\ UNCHANGED <<nextSwitch, count, starts, vectored, seh, sched>>

RoomForHandler == Len(vectored) < MaxSehDepth

\* AddVectoredExceptionHandler, at the head of the list or at its end.
AddVectored ==
  /\ ApiCall /\ apis' = apis + 1
  /\ RoomForHandler
  /\ \E h \in Handlers : vectored' \in {<<h>> \o vectored, Append(vectored, h)}
  /\ \E ret \in Targets : cpu' = Returned(ret)
  /\ UNCHANGED <<nextSwitch, count, starts, seh, pending, exceptions, termination, sched>>

\* RemoveVectoredExceptionHandler takes the first entry with the address.
RemoveVectored ==
  /\ ApiCall /\ apis' = apis + 1
  /\ \E i \in 1..Len(vectored) :
       /\ \A j \in 1..(i - 1) : vectored[j] # vectored[i]
       /\ vectored' = RemoveAt(vectored, i)
  /\ \E ret \in Targets : cpu' = Returned(ret)
  /\ UNCHANGED <<nextSwitch, count, starts, seh, pending, exceptions, termination, sched>>

-----------------------------------------------------------------------------
(* Guest instructions *)

\* EIP does not point at fetchable memory, or the bytes there do not decode.
FetchFault ==
  /\ At("bad")
  /\ Dispatch("memory_fault", cpu)
  /\ UNCHANGED <<nextSwitch, count, apis, starts, vectored, seh, sched>>

InvalidInstruction ==
  /\ At("code")
  /\ Dispatch("illegal_instruction", cpu)
  /\ UNCHANGED <<nextSwitch, count, apis, starts, vectored, seh, sched>>

\* One instruction, which may jump anywhere and write the head of the thread's
\* own chain at FS:[0].
Step ==
  /\ At("code")
  /\ count' = count + 1
  /\ \E eip \in Targets : cpu' = [cpu EXCEPT !.eip = eip]
  /\ \E mine \in SUBSET {cpu.teb} : seh' = (seh \ {cpu.teb}) \cup mine
  /\ UNCHANGED <<nextSwitch, apis, starts, vectored, pending, exceptions,
                 termination, sched>>

AvailablePlusOne == (MaxInstructions - count) + 1
Available == MaxInstructions - count

\* A repeated string instruction counts one instruction for each repetition
\* it completes, at most what is left of the budget; asking for more ends it.
RepeatedStep ==
  /\ At("code")
  /\ \E completed \in 2..Available :
       /\ count' = count + completed
       /\ \/ UNCHANGED <<truncated, termination>>
          \/ /\ completed = Available
             /\ truncated' = TRUE
             /\ termination' = "instruction_limit"
  /\ cpu' = [cpu EXCEPT !.eip = "code"]
  /\ UNCHANGED <<nextSwitch, apis, starts, vectored, seh, pending, exceptions,
                 threads, current, events, since>>

\* INT3, or an instruction that fails; it is counted before it is executed.
FaultingStep ==
  /\ At("code")
  /\ count' = count + 1
  /\ \E fallback \in Fallbacks : Dispatch(fallback, cpu)
  /\ UNCHANGED <<nextSwitch, apis, starts, vectored, seh, sched>>

Halt ==
  /\ At("code")
  /\ count' = count + 1
  /\ termination' = "halted"
  /\ UNCHANGED <<cpu, nextSwitch, apis, starts, vectored, seh, pending, exceptions, sched>>

Returns == ThreadReturn \/ EntryReturn \/ TlsReturn
Handling == StrayReturn \/ ContinueExecution \/ ContinueSearch \/ OtherDisposition
Calls == \/ ApiLimit \/ ApiFault \/ PlainApi
         \/ CreateThread \/ ExitThread \/ ExitProcess
         \/ RaiseException \/ AddVectored \/ RemoveVectored
Instructions == FetchFault \/ InvalidInstruction \/ Step \/ RepeatedStep
                \/ FaultingStep \/ Halt

Next == Top \/ Finish \/ Returns \/ Handling \/ Calls \/ Instructions

\* `execute` is a loop that never waits: it goes on as long as it can.
Spec == Init /\ [][Next]_vars /\ WF_vars(Next)

-----------------------------------------------------------------------------
(* Properties *)

\* A finished thread never runs: while the emulation goes on, the thread whose
\* registers are loaded is runnable (finish_current_thread followed by
\* schedule_next_thread, and terminate_all_threads which ends the run).
CurrentIsRunnable == termination = "none" => current \in Runnable(threads)

\* Registers never leak between threads: the loaded and the saved registers
\* of a thread address its own TEB, through every save, switch and dispatch.
IsolatedTebs == /\ cpu.teb = current
                /\ \A t \in 1..Len(threads) : threads[t].cpu.teb = t

\* The exception events stay bounded even though begin_exception_handler does
\* not look at the limit: only the search of the last exception may pass it.
ExceptionLogBound == Len(exceptions) <= MaxExceptions + (MaxSehDepth - 1)

\* An event of the log is open exactly while its handler runs.
OpenEventIsPending ==
  {i \in 1..Len(exceptions) : exceptions[i].outcome = "dispatched"}
    = IF pending = NoPending THEN {} ELSE {pending.event}

\* One exception visits at most MaxSehDepth handlers, cyclic chains included:
\* after that many handlers that all went on searching there is no other.
SearchBudget ==
  \A i \in 1..Len(exceptions) :
    (\A k \in 0..(MaxSehDepth - 1) :
       i + k <= Len(exceptions) /\ exceptions[i + k].outcome = "continued_search")
    => i + MaxSehDepth > Len(exceptions)

\* What the log has to say of thread t, whose entry of the table is in `state`:
\* the thread was created once, before anything else it did, except for the
\* first one, and has ended exactly if the log says so, as its last event.
Finishes == {"exited", "process_exit"}
TellsFate(log, t, state) ==
  /\ t # 1 => \E i \in 1..Len(log) : log[i] = Event(t, "created")
  /\ \A i \in 1..Len(log) :
       log[i] = Event(t, "created") => t # 1 /\ \A j \in 1..(i - 1) : log[j].tid # t
  /\ state = "runnable" =>
       \A i \in 1..Len(log) : log[i].tid = t => log[i].op \notin Finishes
  /\ state # "runnable" =>
       \E i \in 1..Len(log) :
         /\ log[i] = Event(t, state)
         /\ \A j \in 1..Len(log) \ {i} :
              log[j].tid = t => j < i /\ log[j].op \notin Finishes

\* The thread log of a report that is not marked truncated tells the fate of
\* every thread, and of no thread that does not exist.
ThreadLogFaithful ==
  ~truncated =>
    /\ \A i \in 1..Len(events) : events[i].tid \in 1..Len(threads)
    /\ \A t \in 1..Len(threads) : TellsFate(events, t, threads[t].state)

\* Repeated string instructions never take the count past the budget.
BudgetKept == count <= MaxInstructions

\* A thread that ended stays ended, with the registers it had then and the way
\* it ended: ExitProcess does not rewrite the fate of a finished thread.
EndedForGood ==
  [][\A t \in 1..Len(threads) :
       threads[t].state # "runnable" => threads'[t] = threads[t]]_vars

\* No thread is overtaken twice: the CPU never goes to a thread that already
\* had a turn while some other runnable thread has been waiting.
NoOvertaking ==
  [][current' # current =>
       \A t \in Runnable(threads) \ {current, current'} : current' \notin since[t]]_vars

\* An emulation ends, or the file gives its entry point the address of the TLS
\* sentinel and `execute` starts it for ever without counting anything: nothing
\* else, no arrangement of callbacks, sentinels, handlers and API calls, keeps
\* the loop going without using up one of its budgets.
EntryStartsItself == cpu.eip = "tls_return" /\ starts = <<"tls_return">>
EndsUnlessEntryLoops ==
  \/ <>(pc = "done" /\ termination # "none")
  \/ <>[]EntryStartsItself

=============================================================================
