------------------------- MODULE Pe64Machine_proofs -------------------------
(***************************************************************************)
(* What holds of Pe64Machine for any number of threads, any quantum and    *)
(* any limits: the CPU stays with the thread whose exception is handled,   *)
(* and the threads of engine64.rs take their turns as RoundRobin says.     *)
(***************************************************************************)
EXTENDS Pe64Machine, SequenceTheorems, TLAPS

\* The types of what the scheduler looks at.
SchedOK ==
  /\ threads \in Seq(GuestThread) /\ Len(threads) \in 1..MaxThreads
  /\ current \in 1..Len(threads)
  /\ rip \in Locations

\* An exception is that of a thread that was made, so that a thread made while
\* it is handled is not taken for the one that raised it.
Raised ==
  pending # NoPending => pending.thread \in 1..Len(threads) /\ pending.resume \in Locations

\* What is left to start: the entry point at least.
StartsOK == starts \in Seq(Locations) /\ Len(starts) >= 1

\* The loop only reads an address while nothing has ended the run.
Inv ==
  /\ SchedOK /\ Raised
  /\ phase = "body" => termination = "none"
  /\ HandlerKeepsCpu

LEMMA InitInv == Init => Inv
  <1> SUFFICES ASSUME Init PROVE Inv
    OBVIOUS
  <1>1. threads \in Seq(GuestThread) /\ Len(threads) = 1
    BY Pe64Assumption DEF Init, GuestThread
  <1> QED  BY <1>1, Pe64Assumption DEF Init, Inv, SchedOK, Raised, HandlerKeepsCpu

\* Starting a target leaves at least the entry point to start.
LEMMA LaterType ==
  ASSUME NEW s \in Seq(Locations), Len(s) >= 1
  PROVE  /\ Head(s) \in Locations
         /\ Later(s) \in Seq(Locations) /\ Len(Later(s)) \in 1..Len(s)
  <1>1. Len(s) \in Nat /\ s # <<>>
    BY LenProperties
  <1>2. Head(s) \in Locations /\ Tail(s) \in Seq(Locations) /\ Len(Tail(s)) = Len(s) - 1
    BY <1>1, HeadTailProperties
  <1> QED  BY <1>1, <1>2 DEF Later

LEMMA InitStarts == Init => StartsOK
  <1> SUFFICES ASSUME Init PROVE StartsOK
    OBVIOUS
  <1>1. StillToStart \in Nat /\ StillToStart >= 1
    BY Pe64Assumption DEF StillToStart
  <1>2. starts \in [1..StillToStart -> Locations]
    BY Pe64Assumption DEF Init
  <1> QED  BY <1>1, <1>2, IsASeq, LenProperties DEF StartsOK

LEMMA NextStarts == StartsOK /\ [Next]_vars => StartsOK'
  <1> SUFFICES ASSUME StartsOK, [Next]_vars PROVE StartsOK'
    OBVIOUS
  <1>1. CASE TlsReturn
    BY <1>1, LaterType DEF TlsReturn, StartsOK
  <1>2. CASE UNCHANGED starts
    BY <1>2 DEF StartsOK
  <1>3. Handling => UNCHANGED starts
    BY DEF Handling, StrayReturn, ContinueExecution, ContinueSearch, Unhandled
  <1>4. Calls => UNCHANGED starts
    BY DEF Calls, ApiLimit, ApiFault, PlainApi, CreateThread, ExitThread, ExitProcess,
           RaiseException, AddVectored, RemoveVectored, ApiCall
  <1>5. Instructions => UNCHANGED starts
    BY DEF Instructions, FetchFault, InvalidInstruction, Step, FaultingStep, Halt, Counted
  <1>6. Top \/ Finish \/ ThreadReturn \/ UNCHANGED vars => UNCHANGED starts
    BY DEF Top, Finish, ThreadReturn, vars
  <1> QED  BY <1>1, <1>2, <1>3, <1>4, <1>5, <1>6 DEF Next

-----------------------------------------------------------------------------
(* Choosing a thread *)

LEMMA SwitchType ==
  ASSUME SchedOK, NEW ths \in Seq(GuestThread), Len(ths) \in 1..MaxThreads,
         NEW at \in Locations, NEW t, IsNext(t, ths), SwitchTo(t, ths, at)
  PROVE  current' \in 1..Len(ths) /\ rip' \in Locations
  <1>1. t \in 1..Len(ths)
    BY DEF IsNext, Alive
  <1>2. ths[t] \in GuestThread
    BY <1>1
  <1> QED  BY <1>1, <1>2 DEF SwitchTo, GuestThread

\* A thread that ends leaves the others as they are.
LEMMA EndedThreads ==
  ASSUME SchedOK, NEW at \in Locations
  PROVE  LET done == [threads EXCEPT ![current] = Ended(at)]
         IN  /\ done \in Seq(GuestThread) /\ Len(done) = Len(threads)
             /\ \A t \in 1..Len(threads) :
                  done[t].alive = IF t = current THEN FALSE ELSE threads[t].alive
  <1>1. Ended(at) \in GuestThread
    BY DEF Ended, GuestThread
  <1>2. /\ [threads EXCEPT ![current] = Ended(at)] \in Seq(GuestThread)
        /\ Len([threads EXCEPT ![current] = Ended(at)]) = Len(threads)
    BY <1>1, ExceptSeq DEF SchedOK
  <1>3. \A t \in 1..Len(threads) :
          [threads EXCEPT ![current] = Ended(at)][t] = IF t = current THEN Ended(at) ELSE threads[t]
    BY DEF SchedOK
  <1> QED  BY <1>2, <1>3 DEF Ended

LEMMA FinishType ==
  ASSUME SchedOK, NEW at \in Locations, FinishAndSchedule(at)
  PROVE  /\ SchedOK'
         /\ threads' = [threads EXCEPT ![current] = Ended(at)]
         /\ current \notin Alive(threads')
         /\ Alive(threads') \subseteq Alive(threads)
  <1> DEFINE done == [threads EXCEPT ![current] = Ended(at)]
  <1>1. done \in Seq(GuestThread) /\ Len(done) = Len(threads)
    BY EndedThreads
  <1>2. \A t \in 1..Len(threads) :
          done[t].alive = IF t = current THEN FALSE ELSE threads[t].alive
    BY EndedThreads
  <1>3. threads' = done
    BY DEF FinishAndSchedule
  <1>4. current' \in 1..Len(done) /\ rip' \in Locations
    <2>1. CASE Alive(done) = {} /\ rip' = at /\ UNCHANGED current
      BY <1>1, <2>1 DEF SchedOK
    <2>2. ASSUME NEW t \in 1..Len(done), IsNext(t, done), SwitchTo(t, done, at)
          PROVE  current' \in 1..Len(done) /\ rip' \in Locations
      BY <1>1, <2>2, SwitchType DEF SchedOK
    <2> QED  BY <2>1, <2>2 DEF FinishAndSchedule
  <1> HIDE DEF done
  <1>5. SchedOK'
    BY <1>1, <1>3, <1>4 DEF SchedOK
  <1>6. current \notin Alive(threads') /\ Alive(threads') \subseteq Alive(threads)
    BY <1>1, <1>2, <1>3 DEF Alive, SchedOK
  <1> QED  BY <1>3, <1>5, <1>6 DEF done

-----------------------------------------------------------------------------
(* Every action keeps Inv *)

\* Actions that leave the threads alone: an exception is handled for the
\* running thread, or it was handled before.
LEMMA KeptInv ==
  ASSUME Inv, UNCHANGED sched, rip' \in Locations,
         phase' = "body" => termination' = "none",
         \/ pending' \in {pending, NoPending}
         \/ pending'.thread = current /\ pending'.resume \in Locations
         \/ /\ pending # NoPending
            /\ pending'.thread = pending.thread /\ pending'.resume = pending.resume
  PROVE  Inv'
  <1>1. SchedOK' /\ Alive(threads)' = Alive(threads)
    BY DEF Inv, SchedOK, sched, Alive
  <1>2. Raised'
    BY DEF Inv, SchedOK, Raised, sched
  <1> QED  BY <1>1, <1>2 DEF Inv, HandlerKeepsCpu, sched

\* begin_exception_handler keeps the thread it was called for.
LEMMA BeginThread ==
  ASSUME NEW p, NEW at \in Locations, BeginHandler(p, at)
  PROVE  rip' \in Locations /\ (pending' = NoPending \/ pending' = p)
  BY Pe64Assumption DEF BeginHandler

LEMMA DispatchThread ==
  ASSUME NEW fallback, NEW at \in Locations, NEW resume \in Locations,
         Dispatch(fallback, at, resume)
  PROVE  /\ rip' \in Locations
         /\ \/ pending' \in {pending, NoPending}
            \/ pending'.thread = current /\ pending'.resume \in Locations
  <1> DEFINE p == [depth |-> 0, index |-> 1, resume |-> resume,
                   fallback |-> fallback, thread |-> current]
  <1>1. CASE BeginHandler(p, at)
    <2>1. p.thread = current /\ p.resume = resume
      OBVIOUS
    <2> HIDE DEF p
    <2> QED  BY <1>1, <2>1, BeginThread
  <1>2. CASE rip' = at /\ UNCHANGED faults
    BY <1>2 DEF faults
  <1> QED  BY <1>1, <1>2 DEF Dispatch

LEMMA DispatchInv ==
  ASSUME Inv, NEW fallback, NEW at \in Locations, NEW resume \in Locations,
         Dispatch(fallback, at, resume), UNCHANGED sched, phase' = "top"
  PROVE  Inv'
  <1>1. /\ rip' \in Locations
        /\ \/ pending' \in {pending, NoPending}
           \/ pending'.thread = current /\ pending'.resume \in Locations
    BY DispatchThread
  <1> QED  BY <1>1, KeptInv

LEMMA TopInv == Inv /\ Top => Inv'
  <1> SUFFICES ASSUME Inv, Top PROVE Inv'
    OBVIOUS
  <1>1. phase' = "body" /\ termination' = "none" /\ pending' = pending
    BY DEF Top, faults
  <1>2. CASE RotationDue
    <2>1. PICK t : IsNext(t, threads) /\ SwitchTo(t, threads, rip)
      BY <1>2 DEF Top
    <2>2. current' \in 1..Len(threads) /\ rip' \in Locations
      BY <2>1, SwitchType DEF Inv, SchedOK
    <2>3. threads' = [threads EXCEPT ![current].rip = rip]
      BY <1>2 DEF Top
    <2>4. [threads[current] EXCEPT !.rip = rip] \in GuestThread
      <3>1. threads[current] \in GuestThread
        BY ElementOfSeq DEF Inv, SchedOK
      <3> QED  BY <3>1 DEF Inv, SchedOK, GuestThread
    <2>5. threads' \in Seq(GuestThread) /\ Len(threads') = Len(threads)
      BY <2>3, <2>4, ExceptSeq DEF Inv, SchedOK
    <2>6. SchedOK'
      BY <2>2, <2>5 DEF Inv, SchedOK
    <2>7. pending' = NoPending
      BY <1>1, <1>2 DEF RotationDue
    <2> QED  BY <1>1, <2>6, <2>7 DEF Inv, Raised, HandlerKeepsCpu
  <1>3. CASE ~RotationDue
    <2>1. UNCHANGED <<rip, nextSwitch, sched>>
      BY <1>3 DEF Top
    <2>2. rip' \in Locations
      BY <2>1 DEF Inv, SchedOK
    <2> QED  BY <1>1, <2>1, <2>2, KeptInv
  <1> QED  BY <1>2, <1>3

\* The thread that ends takes its exception along.
LEMMA FinishInv ==
  ASSUME Inv, NEW at \in Locations, FinishAndSchedule(at), UNCHANGED faults, phase' = "top"
  PROVE  Inv'
  <1>1. SchedOK' /\ current \notin Alive(threads') /\ Alive(threads') \subseteq Alive(threads)
    BY FinishType DEF Inv
  <1>2. HandlerKeepsCpu'
    BY <1>1 DEF Inv, HandlerKeepsCpu, faults
  <1>3. Len(threads') = Len(threads)
    BY FinishType, EndedThreads DEF Inv
  <1> QED  BY <1>1, <1>2, <1>3 DEF Inv, Raised, faults

\* A new thread waits; the others are as they were.
LEMMA CreateInv ==
  ASSUME Inv, CreateThread
  PROVE  Inv'
  <1>0. PICK start \in Fetchable : threads' = Append(threads, [alive |-> TRUE, rip |-> start])
    BY DEF CreateThread
  <1>1. /\ rip' \in Locations
        /\ current' = current /\ pending' = pending /\ phase' = "top"
        /\ Len(threads) < MaxThreads
    BY Pe64Assumption DEF CreateThread, ApiCall, At, faults
  <1>2. [alive |-> TRUE, rip |-> start] \in GuestThread
    BY Pe64Assumption DEF GuestThread
  <1>3. threads' \in Seq(GuestThread) /\ Len(threads') = Len(threads) + 1
    BY <1>0, <1>2, AppendProperties DEF Inv, SchedOK
  <1>4. \A t \in 1..Len(threads) : threads'[t] = threads[t]
    BY <1>0, <1>2, AppendProperties DEF Inv, SchedOK
  <1>5. SchedOK'
    BY <1>1, <1>3, Pe64Assumption DEF Inv, SchedOK
  <1>6. HandlerKeepsCpu'
    <2> SUFFICES ASSUME pending' # NoPending, pending'.thread \in Alive(threads'), current' # pending'.thread
                 PROVE  FALSE
      BY DEF HandlerKeepsCpu
    <2>1. pending.thread \notin Alive(threads)
      BY <1>1 DEF Inv, HandlerKeepsCpu
    <2> QED  BY <1>1, <1>3, <1>4, <2>1 DEF Alive, Inv, SchedOK, Raised
  <1> QED  BY <1>1, <1>3, <1>5, <1>6 DEF Inv, SchedOK, Raised

LEMMA ExitProcessInv ==
  ASSUME Inv, ExitProcess
  PROVE  Inv'
  <1>1. /\ threads' = [t \in 1..Len(threads) |->
                       [alive |-> FALSE, rip |-> IF t = current THEN rip ELSE threads[t].rip]]
        /\ current' = current /\ rip' \in Locations /\ phase' = "top" /\ UNCHANGED pending
    BY Pe64Assumption DEF ExitProcess, ApiCall, At, faults
  <1>2. \A t \in 1..Len(threads) :
          [alive |-> FALSE, rip |-> IF t = current THEN rip ELSE threads[t].rip] \in GuestThread
    <2> TAKE t \in 1..Len(threads)
    <2>1. threads[t] \in GuestThread
      BY ElementOfSeq DEF Inv, SchedOK
    <2> QED  BY <2>1 DEF GuestThread, Inv, SchedOK
  <1>3. threads' \in Seq(GuestThread) /\ Len(threads') = Len(threads)
    BY <1>1, <1>2, IsASeq, LenProperties DEF Inv, SchedOK
  <1>4. Alive(threads') = {}
    BY <1>1, <1>3 DEF Alive
  <1>5. SchedOK' /\ Raised'
    BY <1>1, <1>3 DEF Inv, SchedOK, Raised
  <1> QED  BY <1>1, <1>4, <1>5 DEF Inv, HandlerKeepsCpu

LEMMA HandlingInv == Inv /\ Handling => Inv'
  <1> SUFFICES ASSUME Inv, Handling PROVE Inv'
    OBVIOUS
  <1>1. CASE StrayReturn
    BY <1>1, KeptInv DEF StrayReturn, At, faults, Inv, SchedOK
  <1>2. CASE ContinueExecution
    <2>1. pending # NoPending /\ rip' = pending.resume
      BY <1>2 DEF ContinueExecution, HandlerReturns
    <2> QED  BY <1>2, <2>1, KeptInv DEF ContinueExecution, HandlerReturns, At, Inv, Raised
  <1>3. CASE ContinueSearch
    <2> DEFINE p == [pending EXCEPT !.index = @ + 1, !.depth = @ + 1]
    <2>1. /\ pending # NoPending /\ rip \in Locations /\ BeginHandler(p, rip)
          /\ UNCHANGED sched /\ phase' = "top"
      BY <1>3 DEF ContinueSearch, HandlerReturns, At, Inv, SchedOK
    <2>2. p.thread = pending.thread /\ p.resume = pending.resume
      OBVIOUS
    <2> HIDE DEF p
    <2> QED  BY <2>1, <2>2, BeginThread, KeptInv
  <1>4. CASE Unhandled
    BY <1>4, KeptInv DEF Unhandled, HandlerReturns, At, Inv, SchedOK
  <1> QED  BY <1>1, <1>2, <1>3, <1>4 DEF Handling

LEMMA CallsInv == Inv /\ Calls => Inv'
  <1> SUFFICES ASSUME Inv, Calls PROVE Inv'
    OBVIOUS
  <1>1. rip \in Locations /\ \A target \in Targets : target \in Locations
    BY Pe64Assumption DEF Inv, SchedOK
  <1>2. CASE ApiLimit \/ ApiFault
    BY <1>1, <1>2, KeptInv DEF ApiLimit, ApiFault, At, faults
  <1>3. CASE PlainApi \/ AddVectored \/ RemoveVectored
    BY <1>1, <1>3, KeptInv DEF PlainApi, AddVectored, RemoveVectored, ApiCall, At, faults
  <1>4. CASE CreateThread
    BY <1>4, CreateInv
  <1>5. CASE ExitThread
    <2>1. PICK ret \in Targets : FinishAndSchedule(ret)
      BY <1>5 DEF ExitThread
    <2> QED  BY <1>1, <1>5, <2>1, FinishInv DEF ExitThread, ApiCall, At
  <1>6. CASE ExitProcess
    BY <1>6, ExitProcessInv
  <1>7. CASE RaiseException
    <2>1. PICK ret \in Targets : Dispatch("memory_fault", ret, ret)
      BY <1>7 DEF RaiseException
    <2> QED  BY <1>1, <1>7, <2>1, DispatchInv DEF RaiseException, ApiCall, At
  <1> QED  BY <1>2, <1>3, <1>4, <1>5, <1>6, <1>7 DEF Calls

LEMMA InstructionsInv == Inv /\ Instructions => Inv'
  <1> SUFFICES ASSUME Inv, Instructions PROVE Inv'
    OBVIOUS
  <1>1. rip \in Locations /\ \A target \in Targets : target \in Locations
    BY Pe64Assumption DEF Inv, SchedOK
  <1>2. CASE FetchFault
    BY <1>1, <1>2, DispatchInv DEF FetchFault, At
  <1>3. CASE InvalidInstruction
    <2>1. PICK next \in Targets : Dispatch("invalid_instruction", rip, next)
      BY <1>3 DEF InvalidInstruction
    <2> QED  BY <1>1, <1>3, <2>1, DispatchInv DEF InvalidInstruction, At
  <1>4. CASE Step \/ Halt
    BY <1>1, <1>4, KeptInv DEF Step, Halt, Counted, At, faults
  <1>5. CASE FaultingStep
    <2>1. PICK next \in Targets, fallback \in {"halted", "memory_fault", "unsupported"} :
            Dispatch(fallback, next, next)
      BY <1>5 DEF FaultingStep
    <2> QED  BY <1>1, <1>5, <2>1, DispatchInv DEF FaultingStep, Counted, At
  <1> QED  BY <1>2, <1>3, <1>4, <1>5 DEF Instructions

LEMMA NextInv == Inv /\ StartsOK /\ [Next]_vars => Inv'
  <1> SUFFICES ASSUME Inv, StartsOK, [Next]_vars PROVE Inv'
    OBVIOUS
  <1>1. rip \in Locations
    BY DEF Inv, SchedOK
  <1>2. CASE Top
    BY <1>2, TopInv
  <1>3. CASE Finish
    BY <1>1, <1>3, KeptInv DEF Finish, faults
  <1>4. CASE ThreadReturn
    BY <1>1, <1>4, FinishInv DEF ThreadReturn, At
  <1>5. CASE TlsReturn
    <2>1. rip' \in Locations /\ phase' = "top" /\ UNCHANGED sched /\ pending' = pending
      BY <1>1, <1>5, LaterType DEF TlsReturn, At, StartsOK, faults
    <2> QED  BY <2>1, KeptInv
  <1>6. CASE Handling \/ Calls \/ Instructions
    BY <1>6, HandlingInv, CallsInv, InstructionsInv
  <1>7. CASE UNCHANGED vars
    <2>1. UNCHANGED sched /\ rip' = rip /\ pending' = pending
          /\ phase' = phase /\ termination' = termination
      BY <1>7 DEF vars, faults
    <2> QED  BY <1>1, <2>1, KeptInv DEF Inv
  <1> QED  BY <1>2, <1>3, <1>4, <1>5, <1>6, <1>7 DEF Next

\* In every reachable state the CPU is with the thread whose exception is
\* handled, or that thread has ended: schedule_next_thread is held back by
\* pending_exception, and no thread made meanwhile is taken for the one it
\* belongs to.
THEOREM HandlerStays == Spec => []HandlerKeepsCpu
  <1>1. Inv => HandlerKeepsCpu
    BY DEF Inv
  <1> QED  BY <1>1, InitInv, NextInv, InitStarts, NextStarts, PTL DEF Spec

-----------------------------------------------------------------------------
(* The threads take turns *)

\* Who can run, as RoundRobin sees it.
Flags(ths) == [t \in 1..Len(ths) |-> ths[t].alive]

LEMMA FlagsType ==
  ASSUME NEW ths \in Seq(GuestThread)
  PROVE  /\ Flags(ths) \in Seq(BOOLEAN) /\ Len(Flags(ths)) = Len(ths)
         /\ DOMAIN Flags(ths) = 1..Len(ths)
         /\ \A t \in 1..Len(ths) : Flags(ths)[t] = ths[t].alive
  <1>1. Len(ths) \in Nat
    BY LenProperties
  <1>2. \A t \in 1..Len(ths) : ths[t].alive \in BOOLEAN
    <2> TAKE t \in 1..Len(ths)
    <2>1. ths[t] \in GuestThread
      BY ElementOfSeq
    <2> QED  BY <2>1 DEF GuestThread
  <1>3. Flags(ths) \in Seq(BOOLEAN)
    BY <1>1, <1>2, IsASeq DEF Flags
  <1>4. DOMAIN Flags(ths) = 1..Len(ths)
    BY DEF Flags
  <1>5. Len(Flags(ths)) = Len(ths)
    BY <1>1, <1>3, <1>4, LenProperties
  <1> QED  BY <1>3, <1>4, <1>5 DEF Flags

LEMMA FlagsAppend ==
  ASSUME NEW ths \in Seq(GuestThread), NEW th \in GuestThread
  PROVE  Flags(Append(ths, th)) = Append(Flags(ths), th.alive)
  <1> DEFINE more == Append(ths, th)
             n == Len(ths) + 1
  <1>1. /\ more \in Seq(GuestThread) /\ Len(more) = n /\ more[n] = th
        /\ \A t \in 1..Len(ths) : more[t] = ths[t]
    BY AppendProperties
  <1>2. /\ Flags(ths) \in Seq(BOOLEAN) /\ Len(Flags(ths)) = Len(ths)
        /\ \A t \in 1..Len(ths) : Flags(ths)[t] = ths[t].alive
    BY FlagsType
  <1>3. /\ Flags(more) \in Seq(BOOLEAN) /\ Len(Flags(more)) = n
        /\ \A t \in 1..n : Flags(more)[t] = more[t].alive
    BY <1>1, FlagsType
  <1>4. th.alive \in BOOLEAN
    BY DEF GuestThread
  <1>5. /\ Append(Flags(ths), th.alive) \in Seq(BOOLEAN) /\ Len(Append(Flags(ths), th.alive)) = n
        /\ Append(Flags(ths), th.alive)[n] = th.alive
        /\ \A t \in 1..Len(ths) : Append(Flags(ths), th.alive)[t] = Flags(ths)[t]
    BY <1>2, <1>4, AppendProperties
  <1>6. \A t \in 1..n : t = n \/ t \in 1..Len(ths)
    BY LenProperties
  <1> HIDE DEF more, n
  <1>7. \A t \in 1..n : Append(Flags(ths), th.alive)[t] = Flags(more)[t]
    BY <1>1, <1>2, <1>3, <1>5, <1>6
  <1>8. Flags(more) = Append(Flags(ths), th.alive)
    BY <1>3, <1>5, <1>7, SeqEqual
  <1> QED  BY <1>8 DEF more

\* The search of schedule_next_thread finds the thread whose turn it is.
LEMMA TurnIsNext ==
  ASSUME NEW ths \in Seq(GuestThread), NEW t, IsNext(t, ths)
  PROVE  Scheduler!IsTurnOf(t, Flags(ths))
  BY FlagsType DEF IsNext, Alive, Distance, Scheduler!IsTurnOf, Scheduler!Places

Over == termination # "none"

\* Actions that leave the threads alone end the run or change nothing that
\* RoundRobin sees, and only while the run goes on or to end it again.
LEMMA KeptRefines ==
  ASSUME Inv, UNCHANGED sched, Over => Over'
  PROVE  [Scheduler!Turn]_(Scheduler!rrVars)
  <1>1. threads' = threads /\ current' = current
    BY DEF sched
  <1>2. Flags(threads)' = Flags(threads)
    BY <1>1 DEF Flags
  <1>3. CASE Over' = Over
    BY <1>1, <1>2, <1>3 DEF Scheduler!rrVars, Over, Flags
  <1>4. CASE Over' # Over
    <2>1. ~Over /\ Over'
      BY <1>4 DEF Over
    <2>2. Scheduler!Stop
      BY <1>1, <1>2, <2>1 DEF Scheduler!Stop, Over, Flags
    <2> QED  BY <2>2 DEF Scheduler!Turn
  <1> QED  BY <1>3, <1>4

LEMMA TopRefines ==
  ASSUME Inv, Top
  PROVE  [Scheduler!Turn]_(Scheduler!rrVars)
  <1>1. CASE ~RotationDue
    <2>1. UNCHANGED sched /\ termination' = termination
      BY <1>1 DEF Top
    <2> QED  BY <2>1, KeptRefines DEF Over
  <1>2. CASE RotationDue
    <2>1. PICK t \in 1..Len(threads) : IsNext(t, threads) /\ current' = t
      BY <1>2 DEF Top, SwitchTo
    <2>2. threads' = [threads EXCEPT ![current].rip = rip]
          /\ termination = "none" /\ termination' = "none"
      BY <1>2 DEF Top
    <2>3. /\ Len(threads') = Len(threads)
          /\ \A u \in 1..Len(threads) : threads'[u].alive = threads[u].alive
      <3>1. threads[current] \in GuestThread
        BY ElementOfSeq DEF Inv, SchedOK
      <3>2. [threads[current] EXCEPT !.rip = rip] \in GuestThread
            /\ [threads[current] EXCEPT !.rip = rip].alive = threads[current].alive
        BY <3>1 DEF Inv, SchedOK, GuestThread
      <3> QED  BY <2>2, <3>2, ExceptSeq DEF Inv, SchedOK
    <2>4. Flags(threads)' = Flags(threads)
      BY <2>3 DEF Flags
    <2>5. Scheduler!IsTurnOf(t, Flags(threads))
      BY <2>1, TurnIsNext DEF Inv, SchedOK
    <2>6. t \in DOMAIN Flags(threads)
      BY <2>1 DEF Flags
    <2>7. Scheduler!Rotate
      BY <2>1, <2>2, <2>4, <2>5, <2>6 DEF Scheduler!Rotate, Flags
    <2> QED  BY <2>7 DEF Scheduler!Turn
  <1> QED  BY <1>1, <1>2

LEMMA FinishRefines ==
  ASSUME Inv, NEW at \in Locations, FinishAndSchedule(at), termination = "none"
  PROVE  [Scheduler!Turn]_(Scheduler!rrVars)
  <1> DEFINE done == [threads EXCEPT ![current] = Ended(at)]
  <1>1. done \in Seq(GuestThread) /\ Len(done) = Len(threads)
        /\ \A t \in 1..Len(threads) :
             done[t].alive = IF t = current THEN FALSE ELSE threads[t].alive
    BY EndedThreads DEF Inv
  <1>2. threads' = done
    BY DEF FinishAndSchedule
  <1>3. \/ \E t \in 1..Len(done) : IsNext(t, done) /\ current' = t /\ UNCHANGED termination
        \/ Alive(done) = {} /\ termination' = "returned" /\ UNCHANGED current
    BY DEF FinishAndSchedule, SwitchTo
  <1> HIDE DEF done
  <1>4. Flags(done) = [Flags(threads) EXCEPT ![current] = FALSE]
    BY <1>1 DEF Flags
  <1>5. Flags(threads)' = Flags(done)
    BY <1>2 DEF Flags
  <1>6. DOMAIN Flags(threads) = 1..Len(done) /\ \A t \in 1..Len(done) : Flags(done)[t] = done[t].alive
    BY <1>1 DEF Flags
  <1>7. Scheduler!End
    <2>1. CASE Alive(done) = {} /\ termination' = "returned" /\ UNCHANGED current
      <3>1. \A t \in DOMAIN Flags(threads) : ~Flags(threads)'[t]
        BY <1>5, <1>6, <2>1 DEF Alive
      <3> QED  BY <1>4, <1>5, <2>1, <3>1 DEF Scheduler!End, Flags
    <2>2. ASSUME NEW t \in 1..Len(done), IsNext(t, done), current' = t, UNCHANGED termination
          PROVE  Scheduler!End
      <3>1. Scheduler!IsTurnOf(t, Flags(done))
        BY <1>1, <2>2, TurnIsNext
      <3>2. t \in DOMAIN Flags(threads)
        BY <1>6
      <3> QED  BY <1>4, <1>5, <2>2, <3>1, <3>2 DEF Scheduler!End, Flags
    <2> QED  BY <1>3, <2>1, <2>2
  <1> QED  BY <1>7 DEF Scheduler!Turn

LEMMA CreateRefines ==
  ASSUME Inv, CreateThread, termination = "none"
  PROVE  [Scheduler!Turn]_(Scheduler!rrVars)
  <1>0. PICK start \in Fetchable : threads' = Append(threads, [alive |-> TRUE, rip |-> start])
    BY DEF CreateThread
  <1>1. current' = current /\ termination' = termination /\ Len(threads) < MaxThreads
    BY DEF CreateThread
  <1>2. [alive |-> TRUE, rip |-> start] \in GuestThread
    BY Pe64Assumption DEF GuestThread
  <1>3. Len(Flags(threads)) = Len(threads)
    BY FlagsType DEF Inv, SchedOK
  <1>4. Flags(threads') = Append(Flags(threads), TRUE)
    BY <1>0, <1>2, FlagsAppend DEF Inv, SchedOK
  <1>5. Flags(threads)' = Flags(threads')
    BY DEF Flags
  <1>6. Scheduler!Create
    BY <1>1, <1>3, <1>4, <1>5 DEF Scheduler!Create, Flags
  <1> QED  BY <1>6 DEF Scheduler!Turn

LEMMA ExitProcessRefines ==
  ASSUME Inv, ExitProcess, termination = "none"
  PROVE  [Scheduler!Turn]_(Scheduler!rrVars)
  <1>1. /\ threads' = [t \in 1..Len(threads) |->
                       [alive |-> FALSE, rip |-> IF t = current THEN rip ELSE threads[t].rip]]
        /\ current' = current /\ termination' = "exit_process"
    BY DEF ExitProcess
  <1>2. DOMAIN threads' = 1..Len(threads) /\ Len(threads) \in Nat
    BY <1>1, LenProperties DEF Inv, SchedOK
  <1>3. Len(threads') = Len(threads)
    <2>1. \A t \in 1..Len(threads) : threads'[t] \in [alive : BOOLEAN, rip : {rip} \cup Locations]
      <3> TAKE t \in 1..Len(threads)
      <3>1. threads[t] \in GuestThread
        BY ElementOfSeq DEF Inv, SchedOK
      <3> QED  BY <1>1, <3>1 DEF GuestThread
    <2>2. threads' \in Seq([alive : BOOLEAN, rip : {rip} \cup Locations])
      BY <1>1, <1>2, <2>1, IsASeq
    <2> QED  BY <1>2, <2>2, LenProperties
  <1>4. Flags(threads)' = [t \in DOMAIN Flags(threads) |-> FALSE]
    BY <1>1, <1>3 DEF Flags
  <1>5. Scheduler!Stop
    BY <1>1, <1>4 DEF Scheduler!Stop, Flags
  <1> QED  BY <1>5 DEF Scheduler!Turn

\* The body of the loop runs only while the emulation does, so that an action
\* that leaves the threads alone can at most end it.
LEMMA BodyRefines ==
  ASSUME Inv, phase = "body", UNCHANGED sched
  PROVE  [Scheduler!Turn]_(Scheduler!rrVars)
  BY KeptRefines DEF Inv, Over

LEMMA CallsRefine ==
  ASSUME Inv, Calls
  PROVE  [Scheduler!Turn]_(Scheduler!rrVars)
  <1>1. rip \in Locations /\ \A target \in Targets : target \in Locations
    BY Pe64Assumption DEF Inv, SchedOK
  <1>2. phase = "body" /\ termination = "none"
    BY DEF Calls, ApiLimit, ApiFault, PlainApi, CreateThread, ExitThread, ExitProcess,
           RaiseException, AddVectored, RemoveVectored, ApiCall, At, Inv
  <1>3. CASE UNCHANGED sched
    BY <1>2, <1>3, BodyRefines
  <1>4. CASE CreateThread
    BY <1>2, <1>4, CreateRefines
  <1>5. CASE ExitThread
    <2>1. PICK ret \in Targets : FinishAndSchedule(ret)
      BY <1>5 DEF ExitThread
    <2> QED  BY <1>1, <1>2, <2>1, FinishRefines
  <1>6. CASE ExitProcess
    BY <1>2, <1>6, ExitProcessRefines
  <1> QED  BY <1>3, <1>4, <1>5, <1>6
           DEF Calls, ApiLimit, ApiFault, PlainApi, RaiseException, AddVectored, RemoveVectored

LEMMA StepRefines == Inv /\ [Next]_vars => [Scheduler!Turn]_(Scheduler!rrVars)
  <1> SUFFICES ASSUME Inv, [Next]_vars PROVE [Scheduler!Turn]_(Scheduler!rrVars)
    OBVIOUS
  <1>1. CASE Top
    BY <1>1, TopRefines
  <1>2. CASE Finish
    BY <1>2, KeptRefines DEF Finish, Over
  <1>3. CASE ThreadReturn
    <2>1. rip \in Locations /\ termination = "none" /\ FinishAndSchedule(rip)
      BY <1>3 DEF ThreadReturn, At, Inv, SchedOK
    <2> QED  BY <2>1, FinishRefines
  <1>4. CASE TlsReturn
    BY <1>4, BodyRefines DEF TlsReturn, At
  <1>5. CASE Handling
    BY <1>5, BodyRefines DEF Handling, StrayReturn, ContinueExecution, ContinueSearch, Unhandled,
                             HandlerReturns, At
  <1>6. CASE Calls
    BY <1>6, CallsRefine
  <1>7. CASE Instructions
    BY <1>7, BodyRefines DEF Instructions, FetchFault, InvalidInstruction, Step, FaultingStep,
                             Halt, Counted, At
  <1>8. CASE UNCHANGED vars
    BY <1>8, KeptRefines DEF vars, Over
  <1> QED  BY <1>1, <1>2, <1>3, <1>4, <1>5, <1>6, <1>7, <1>8 DEF Next

LEMMA InitRefines == Init => Scheduler!Start
  <1> SUFFICES ASSUME Init PROVE Scheduler!Start
    OBVIOUS
  <1>1. threads = <<[alive |-> TRUE, rip |-> rip]>> /\ current = 1 /\ termination = "none"
    BY DEF Init
  <1>2. threads \in Seq(GuestThread)
    BY InitInv DEF Inv, SchedOK
  <1>3. Len(threads) = 1 /\ threads[1].alive = TRUE
    BY <1>1
  <1>4. /\ Flags(threads) \in Seq(BOOLEAN) /\ Len(Flags(threads)) = Len(threads)
        /\ \A t \in 1..Len(threads) : Flags(threads)[t] = threads[t].alive
    BY <1>2, FlagsType
  <1>5. Len(Flags(threads)) = 1 /\ Flags(threads)[1] = TRUE
    BY <1>3, <1>4
  <1>6. Flags(threads) = <<TRUE>>
    <2> DEFINE one == <<TRUE>>
    <2>1. one \in Seq(BOOLEAN) /\ Len(one) = 1 /\ one[1] = TRUE
      OBVIOUS
    <2> HIDE DEF one
    <2>2. \A i \in 1..Len(one) : Flags(threads)[i] = one[i]
      <3>1. \A i \in 1..Len(one) : i = 1
        BY <2>1
      <3>2. Flags(threads)[1] = one[1]
        BY <1>5, <2>1
      <3> QED  BY <3>1, <3>2
    <2>3. Flags(threads) = one
      BY <1>4, <1>5, <2>1, <2>2, SeqEqual
    <2> QED  BY <2>3 DEF one
  <1> QED  BY <1>1, <1>6 DEF Scheduler!Start, Flags

\* However many threads there are and whatever ends them - their return,
\* ExitThread called from a handler, ExitProcess, a limit - the machine's steps
\* are those of RoundRobin: the CPU goes to the next thread alive, and nothing
\* runs or is made once the emulation is over (schedule_next_thread,
\* finish_current_thread, terminate_all_threads).
THEOREM TakesTurns == Spec => ImplementsRoundRobin
  <1> QED  BY InitInv, InitRefines, NextInv, InitStarts, NextStarts, StepRefines, PTL
           DEF Spec, ImplementsRoundRobin, Scheduler!RoundRobinSpec

=============================================================================
