-------------------------- MODULE PeMachine_proofs --------------------------
(***************************************************************************)
(* What holds of PeMachine for every value of its constants: types, the    *)
(* isolation of registers, the bound of the exception log, the budget, the *)
(* order of turns, the end of threads, the depth of a handler search and   *)
(* the log of threads.                                                     *)
(***************************************************************************)
EXTENDS PeMachine, FiniteSetTheorems, SequenceTheorems, TLAPS

\* Pushing well-typed events leaves a well-typed log, whatever the limit drops.
LEMMA RecordedType ==
  ASSUME NEW S, NEW log \in Seq(S), NEW new \in Seq(S)
  PROVE  Recorded(log, new) \in Seq(S)
  <1> DEFINE all == log \o new
             n == IF Len(all) <= MaxThreadEvents THEN Len(all) ELSE MaxThreadEvents
  <1>1. all \in Seq(S) /\ Len(all) \in Nat
    BY ConcatProperties
  <1>2. n \in Nat /\ n <= Len(all)
    BY <1>1, LimitsAssumption
  <1>3. SubSeq(all, 1, n) \in Seq(S)
    <2>1. \A i \in 1..n : all[i] \in S
      BY <1>1, <1>2, ElementOfSeq
    <2> QED  BY <1>1, <1>2, <2>1, SubSeqProperties
  <1> QED  BY <1>3 DEF Recorded

LEMMA LogType ==
  ASSUME TypeOK, NEW new \in Seq(ThreadEvent), Log(new)
  PROVE  events' \in Seq(ThreadEvent) /\ truncated' \in BOOLEAN
  <1>1. events' \in Seq(ThreadEvent)
    BY RecordedType DEF TypeOK, Log
  <1>2. truncated' \in BOOLEAN
    BY Zenon DEF TypeOK, Log, Dropped
  <1> QED  BY <1>1, <1>2

\* One event pushed.
LEMMA LogOneType ==
  ASSUME TypeOK, NEW t \in 1..MaxThreads,
         NEW op \in {"created", "scheduled", "exited", "process_exit"},
         Log(<<Event(t, op)>>)
  PROVE  events' \in Seq(ThreadEvent) /\ truncated' \in BOOLEAN
  <1>1. <<Event(t, op)>> \in Seq(ThreadEvent)
    BY DEF Event, ThreadEvent
  <1> QED  BY <1>1, LogType

\* A switch leaves a thread of the table running with registers of its own or
\* those it was given.
LEMMA SwitchToType ==
  ASSUME TypeOK, NEW ths \in Seq(GuestThread), Len(ths) = Len(threads),
         NEW t \in 1..Len(ths), NEW regs \in Cpu, SwitchTo(t, ths, regs)
  PROVE  /\ current' \in 1..Len(threads) /\ cpu' \in Cpu
         /\ since' \in [1..MaxThreads -> SUBSET (1..MaxThreads)]
  <1>1. ths[t] \in GuestThread
    BY ElementOfSeq
  <1>2. cpu' \in Cpu
    BY <1>1 DEF SwitchTo, Loaded, GuestThread
  <1>3. t \in 1..MaxThreads
    BY LimitsAssumption DEF TypeOK
  <1>4. since' \in [1..MaxThreads -> SUBSET (1..MaxThreads)]
    BY <1>3 DEF SwitchTo, TypeOK
  <1> QED  BY <1>2, <1>4 DEF SwitchTo, TypeOK

\* Overwriting an entry of the table keeps it a table of the same length.
LEMMA TableUpdate ==
  ASSUME TypeOK, NEW entry \in GuestThread
  PROVE  /\ [threads EXCEPT ![current] = entry] \in Seq(GuestThread)
         /\ Len([threads EXCEPT ![current] = entry]) = Len(threads)
  BY ExceptSeq DEF TypeOK

LEMMA FinishType ==
  ASSUME TypeOK, NEW regs \in Cpu, FinishAndSchedule(regs)
  PROVE  /\ threads' \in Seq(GuestThread) /\ Len(threads') = Len(threads)
         /\ current' \in 1..Len(threads) /\ cpu' \in Cpu
         /\ since' \in [1..MaxThreads -> SUBSET (1..MaxThreads)]
         /\ events' \in Seq(ThreadEvent) /\ truncated' \in BOOLEAN
         /\ termination' \in Terminations
  <1> DEFINE done == [threads EXCEPT ![current] = Ended(regs)]
  <1>1. Ended(regs) \in GuestThread
    BY DEF Ended, GuestThread
  <1>2. done \in Seq(GuestThread) /\ Len(done) = Len(threads)
    BY <1>1, TableUpdate
  <1>3. threads' = done /\ Log(<<Event(current, "exited")>>)
    BY DEF FinishAndSchedule
  <1>4. current \in 1..MaxThreads
    BY LimitsAssumption DEF TypeOK
  <1>5. events' \in Seq(ThreadEvent) /\ truncated' \in BOOLEAN
    BY <1>3, <1>4, LogOneType
  <1>6. CASE \E t \in 1..Len(done) : IsNext(t, done) /\ SwitchTo(t, done, regs)
    <2>1. PICK t \in 1..Len(done) : SwitchTo(t, done, regs)
      BY <1>6
    <2>2. t \in 1..Len(done)
      OBVIOUS
    <2> HIDE DEF done
    <2>3. /\ current' \in 1..Len(threads) /\ cpu' \in Cpu
          /\ since' \in [1..MaxThreads -> SUBSET (1..MaxThreads)]
      BY <1>2, <2>1, <2>2, SwitchToType
    <2>4. termination' \in Terminations
      BY DEF FinishAndSchedule, TypeOK, Terminations
    <2> QED  BY <1>2, <1>3, <1>5, <2>3, <2>4
  <1>7. CASE /\ termination' = "returned" /\ cpu' = regs
             /\ UNCHANGED <<current, since>>
    BY <1>2, <1>3, <1>5, <1>7 DEF TypeOK, Terminations
  <1> QED  BY <1>6, <1>7 DEF FinishAndSchedule

\* What begin_exception_handler is called with.
LEMMA BeginType ==
  ASSUME TypeOK, NEW p \in PendingException, NEW log \in Seq(ExceptionEvent),
         NEW regs \in Cpu, BeginHandler(p, log, regs)
  PROVE  /\ exceptions' \in Seq(ExceptionEvent)
         /\ pending' \in PendingException \cup {NoPending}
         /\ cpu' \in Cpu /\ termination' \in Terminations
  <1>1. CASE /\ exceptions' = log /\ pending' = NoPending /\ cpu' = regs
             /\ termination' = p.fallback
    BY <1>1 DEF PendingException, Fallbacks, Terminations
  <1>2. CASE /\ IF p.vectored # 0 THEN p.vectored <= Len(vectored) ELSE p.frame = "frame"
             /\ exceptions' = Append(log,
                  [thread |-> current, outcome |-> "dispatched",
                   chain |-> IF p.vectored # 0 THEN 0 ELSE 1,
                   handler |-> IF p.vectored # 0 THEN vectored[p.vectored] ELSE NoPending])
             /\ pending' = [p EXCEPT !.event = Len(log) + 1]
             /\ \E handler \in Fetchable : cpu' = [regs EXCEPT !.eip = handler]
             /\ UNCHANGED termination
    <2> DEFINE h == IF p.vectored # 0 THEN vectored[p.vectored] ELSE NoPending
               e == [thread |-> current, outcome |-> "dispatched",
                     chain |-> IF p.vectored # 0 THEN 0 ELSE 1, handler |-> h]
    <2>1. h \in Handlers \cup {NoPending}
      <3>1. CASE p.vectored # 0
        <4>1. p.vectored \in 1..Len(vectored)
          BY <1>2, <3>1 DEF PendingException
        <4> QED  BY <3>1, <4>1, ElementOfSeq DEF TypeOK
      <3> QED  BY <3>1
    <2>2. current \in 1..MaxThreads /\ 1 \in 0..MaxThreads /\ 0 \in 0..MaxThreads
      BY LimitsAssumption DEF TypeOK
    <2>3. e \in ExceptionEvent
      BY <2>1, <2>2 DEF ExceptionEvent
    <2>4. exceptions' \in Seq(ExceptionEvent)
      BY <1>2, <2>3, AppendProperties
    <2>5. Len(log) + 1 \in Nat \ {0}
      BY LenProperties
    <2>6. pending' \in PendingException
      BY <1>2, <2>5 DEF PendingException
    <2>7. cpu' \in Cpu
      BY <1>2, GuestAssumption DEF Cpu
    <2> QED  BY <1>2, <2>4, <2>6, <2>7 DEF TypeOK
  <1> QED  BY <1>1, <1>2 DEF BeginHandler

LEMMA DispatchType ==
  ASSUME TypeOK, NEW fallback \in Fallbacks, NEW regs \in Cpu, Dispatch(fallback, regs)
  PROVE  /\ exceptions' \in Seq(ExceptionEvent)
         /\ pending' \in PendingException \cup {NoPending}
         /\ cpu' \in Cpu /\ termination' \in Terminations
  <1>1. CASE pending # NoPending \/ Len(exceptions) >= MaxExceptions
    BY <1>1 DEF Dispatch, TypeOK, Fallbacks, Terminations
  <1>2. CASE ~(pending # NoPending \/ Len(exceptions) >= MaxExceptions)
    <2> DEFINE p == [depth |-> 0, fallback |-> fallback, event |-> 1,
                     vectored |-> IF vectored = <<>> THEN 0 ELSE 1,
                     frame |-> FirstFrame]
    <2>1. p \in PendingException
      BY DEF PendingException, FirstFrame
    <2>2. BeginHandler(p, exceptions, regs)
      BY <1>2 DEF Dispatch
    <2> HIDE DEF p
    <2> QED  BY <2>1, <2>2, BeginType DEF TypeOK
  <1> QED  BY <1>1, <1>2

\* Writing the outcome of an event keeps the log.
LEMMA ClosedType ==
  ASSUME TypeOK, NEW outcome \in {"dispatched", "continued_search",
                                  "continued_execution", "unhandled_disposition"}
  PROVE  /\ Closed(outcome) \in Seq(ExceptionEvent)
         /\ Len(Closed(outcome)) = Len(exceptions)
         /\ \A i \in 1..Len(exceptions) :
              Closed(outcome)[i] = IF i = pending.event
                                   THEN [exceptions[i] EXCEPT !.outcome = outcome]
                                   ELSE exceptions[i]
  <1> DEFINE new == Closed(outcome)
  <1>1. exceptions \in [1..Len(exceptions) -> ExceptionEvent] /\ Len(exceptions) \in Nat
    BY LenProperties DEF TypeOK
  <1>2. /\ DOMAIN new = 1..Len(exceptions)
        /\ \A i \in 1..Len(exceptions) :
             new[i] = IF i = pending.event
                      THEN [exceptions[i] EXCEPT !.outcome = outcome]
                      ELSE exceptions[i]
    BY <1>1 DEF Closed
  <1>3. \A i \in 1..Len(exceptions) : new[i] \in ExceptionEvent
    BY <1>1, <1>2 DEF ExceptionEvent
  <1>4. new \in [1..Len(exceptions) -> ExceptionEvent]
    BY <1>1, <1>2, <1>3 DEF Closed
  <1>5. new \in Seq(ExceptionEvent) /\ Len(new) = Len(exceptions)
    BY <1>1, <1>4, IsASeq, LenProperties
  <1> QED  BY <1>2, <1>5

-----------------------------------------------------------------------------
(* Type correctness *)

\* A call that returns to ret: the registers keep their thread.
LEMMA ReturnedType ==
  ASSUME TypeOK, NEW ret \in Targets
  PROVE  Returned(ret) \in Cpu /\ Returned(ret).teb = cpu.teb
  BY GuestAssumption DEF TypeOK, Cpu, Returned

LEMMA RemoveAtType ==
  ASSUME NEW S, NEW s \in Seq(S), NEW i \in 1..Len(s)
  PROVE  RemoveAt(s, i) \in Seq(S) /\ Len(RemoveAt(s, i)) = Len(s) - 1
  <1> DEFINE a == SubSeq(s, 1, i - 1)
             b == SubSeq(s, i + 1, Len(s))
  <1>1. Len(s) \in Nat
    BY LenProperties
  <1>2. a \in Seq(S) /\ Len(a) = i - 1
    <2>1. \A k \in 1..(i - 1) : s[k] \in S
      BY <1>1, ElementOfSeq
    <2> QED  BY <1>1, <2>1, SubSeqProperties
  <1>3. b \in Seq(S) /\ Len(b) = Len(s) - i
    <2>1. \A k \in (i + 1)..Len(s) : s[k] \in S
      BY <1>1, ElementOfSeq
    <2> QED  BY <1>1, <2>1, SubSeqProperties
  <1>4. RemoveAt(s, i) = a \o b
    BY DEF RemoveAt
  <1> HIDE DEF a, b
  <1>5. a \o b \in Seq(S) /\ Len(a \o b) = Len(a) + Len(b)
    BY <1>2, <1>3, ConcatProperties
  <1>6. Len(a) + Len(b) = Len(s) - 1
    BY <1>1, <1>2, <1>3
  <1> QED  BY <1>4, <1>5, <1>6

\* Starting a target leaves at least the entry point to start.
LEMMA LaterType ==
  ASSUME NEW s \in Seq(Locations), Len(s) >= 1
  PROVE  /\ Head(s) \in Locations
         /\ Later(s) \in Seq(Locations) /\ Len(Later(s)) \in 1..Len(s)
  <1>1. Len(s) \in Nat /\ s # <<>>
    BY LenProperties
  <1>2. Head(s) \in Locations /\ Tail(s) \in Seq(Locations) /\ Len(Tail(s)) = Len(s) - 1
    BY <1>1, HeadTailProperties
  <1> QED  BY <1>1, <1>2 DEF Later

LEMMA TypeInit == Init => TypeOK
  <1> SUFFICES ASSUME Init PROVE TypeOK
    OBVIOUS
  <1>1. cpu \in Cpu
    BY LimitsAssumption, GuestAssumption DEF Init, Cpu
  <1>2. threads \in Seq(GuestThread) /\ Len(threads) \in 1..MaxThreads
    BY <1>1, LimitsAssumption DEF Init, GuestThread
  <1>3. current \in 1..Len(threads)
    BY DEF Init
  <1>4. /\ events \in Seq(ThreadEvent) /\ exceptions \in Seq(ExceptionEvent)
        /\ vectored \in Seq(Handlers) /\ Len(vectored) <= MaxSehDepth
    BY LimitsAssumption DEF Init
  <1>5. /\ nextSwitch \in Nat /\ count \in Nat /\ apis \in Nat
        /\ termination \in Terminations
    BY LimitsAssumption DEF Init, Terminations
  <1>6. starts \in Seq(Locations) /\ Len(starts) \in 1..(TlsCallbacks + 1)
    <2>1. StillToStart \in 1..(TlsCallbacks + 1)
      BY LimitsAssumption DEF StillToStart
    <2>2. starts \in [1..StillToStart -> Locations]
      BY GuestAssumption DEF Init
    <2>3. starts \in Seq(Locations) /\ Len(starts) = StillToStart
      BY <2>1, <2>2, IsASeq, LenProperties
    <2> QED  BY <2>1, <2>3
  <1> QED  BY <1>1, <1>2, <1>3, <1>4, <1>5, <1>6 DEF Init, TypeOK

LEMMA TypeTop == TypeOK /\ Top => TypeOK'
  <1> SUFFICES ASSUME TypeOK, Top PROVE TypeOK'
    OBVIOUS
  <1>1. CASE RotationDue
    <2>1. PICK t \in Runnable(threads) :
            /\ SwitchTo(t, threads, cpu)
            /\ Log(IF t = current THEN <<>> ELSE <<Event(t, "scheduled")>>)
      BY <1>1 DEF Top
    <2>2. t \in 1..Len(threads) /\ t \in 1..MaxThreads
      BY LimitsAssumption DEF Runnable, TypeOK
    <2>3. /\ current' \in 1..Len(threads) /\ cpu' \in Cpu
          /\ since' \in [1..MaxThreads -> SUBSET (1..MaxThreads)]
      BY <2>1, <2>2, SwitchToType DEF TypeOK
    <2>4. (IF t = current THEN <<>> ELSE <<Event(t, "scheduled")>>) \in Seq(ThreadEvent)
      <3>1. Event(t, "scheduled") \in ThreadEvent
        BY <2>2 DEF Event, ThreadEvent
      <3>2. <<>> \in Seq(ThreadEvent) /\ <<Event(t, "scheduled")>> \in Seq(ThreadEvent)
        BY <3>1
      <3> QED  BY <3>2
    <2>5. events' \in Seq(ThreadEvent) /\ truncated' \in BOOLEAN
      BY <2>1, <2>4, LogType
    <2>6. [threads[current] EXCEPT !.cpu = cpu] \in GuestThread
      <3>1. threads[current] \in GuestThread /\ cpu \in Cpu
        BY ElementOfSeq DEF TypeOK
      <3> QED  BY <3>1 DEF GuestThread
    <2>7. threads' = [threads EXCEPT ![current] = [threads[current] EXCEPT !.cpu = cpu]]
      BY <1>1 DEF Top
    <2>8. threads' \in Seq(GuestThread) /\ Len(threads') = Len(threads)
      BY <2>6, <2>7, TableUpdate
    <2>9. nextSwitch' \in Nat
      BY <1>1, LimitsAssumption DEF Top, TypeOK
    <2> QED  BY <2>3, <2>5, <2>8, <2>9 DEF Top, TypeOK
  <1>2. CASE ~RotationDue
    BY <1>2 DEF Top, TypeOK, sched
  <1> QED  BY <1>1, <1>2

\* The two ways a thread leaves the CPU for good.
LEMMA TypeThreadEnd == TypeOK /\ (ThreadReturn \/ ExitThread) => TypeOK'
  <1>1. ASSUME TypeOK, ThreadReturn PROVE TypeOK'
    <2>1. cpu \in Cpu
      BY <1>1 DEF TypeOK
    <2>2. FinishAndSchedule(cpu)
      BY <1>1 DEF ThreadReturn
    <2> QED  BY <1>1, <2>1, <2>2, FinishType DEF ThreadReturn, At, TypeOK
  <1>2. ASSUME TypeOK, ExitThread PROVE TypeOK'
    <2>1. PICK ret \in Targets : FinishAndSchedule(Returned(ret))
      BY <1>2 DEF ExitThread
    <2>2. Returned(ret) \in Cpu
      BY <1>2, ReturnedType
    <2> QED  BY <1>2, <2>1, <2>2, FinishType DEF ExitThread, ApiCall, At, TypeOK
  <1> QED  BY <1>1, <1>2

\* The handlers, and everything that may start one.
LEMMA TypeHandling ==
  TypeOK /\ (ContinueExecution \/ ContinueSearch \/ OtherDisposition) => TypeOK'
  <1>1. ASSUME TypeOK, ContinueExecution PROVE TypeOK'
    <2>1. cpu' \in Cpu
      BY <1>1, GuestAssumption DEF ContinueExecution, TypeOK, Cpu
    <2>2. exceptions' \in Seq(ExceptionEvent)
      BY <1>1, ClosedType DEF ContinueExecution
    <2> QED  BY <1>1, <2>1, <2>2 DEF ContinueExecution, HandlerReturns, At, TypeOK, sched
  <1>2. ASSUME TypeOK, ContinueSearch PROVE TypeOK'
    <2>1. PICK link \in {"frame", "end"} :
            BeginHandler(SearchOn(link), Closed("continued_search"), cpu)
      BY <1>2 DEF ContinueSearch
    <2>2. pending \in PendingException
      BY <1>2 DEF ContinueSearch, HandlerReturns, TypeOK
    <2>3. SearchOn(link) \in PendingException
      <3>1. /\ pending.depth + 1 \in Nat
            /\ (IF MoreVectored THEN pending.vectored + 1 ELSE 0) \in Nat
            /\ (IF MoreVectored THEN pending.frame
                ELSE IF pending.vectored # 0 THEN FirstFrame ELSE link) \in {"frame", "end"}
        BY <2>2 DEF PendingException, FirstFrame
      <3> QED  BY <2>2, <3>1 DEF SearchOn, PendingException
    <2>4. Closed("continued_search") \in Seq(ExceptionEvent)
      BY <1>2, ClosedType
    <2>5. /\ exceptions' \in Seq(ExceptionEvent)
          /\ pending' \in PendingException \cup {NoPending}
          /\ cpu' \in Cpu /\ termination' \in Terminations
      BY <1>2, <2>1, <2>3, <2>4, BeginType DEF TypeOK
    <2> QED  BY <1>2, <2>5 DEF ContinueSearch, HandlerReturns, At, TypeOK, sched
  <1>3. ASSUME TypeOK, OtherDisposition PROVE TypeOK'
    <2>1. exceptions' \in Seq(ExceptionEvent)
      BY <1>3, ClosedType DEF OtherDisposition
    <2>2. termination' \in Terminations
      BY <1>3 DEF OtherDisposition, HandlerReturns, TypeOK, PendingException,
                  Fallbacks, Terminations
    <2> QED  BY <1>3, <2>1, <2>2 DEF OtherDisposition, HandlerReturns, At, TypeOK, sched
  <1> QED  BY <1>1, <1>2, <1>3

LEMMA TypeFaults ==
  TypeOK /\ (RaiseException \/ FetchFault \/ InvalidInstruction \/ FaultingStep) => TypeOK'
  <1>1. ASSUME TypeOK, RaiseException PROVE TypeOK'
    <2>1. PICK ret \in Targets : Dispatch("halted", Returned(ret))
      BY <1>1 DEF RaiseException
    <2>2. Returned(ret) \in Cpu /\ "halted" \in Fallbacks
      BY <1>1, ReturnedType DEF Fallbacks
    <2> QED  BY <1>1, <2>1, <2>2, DispatchType DEF RaiseException, ApiCall, At, TypeOK, sched
  <1>2. ASSUME TypeOK, FetchFault PROVE TypeOK'
    <2>1. cpu \in Cpu /\ "memory_fault" \in Fallbacks
      BY <1>2 DEF TypeOK, Fallbacks
    <2> QED  BY <1>2, <2>1, DispatchType DEF FetchFault, At, TypeOK, sched
  <1>3. ASSUME TypeOK, InvalidInstruction PROVE TypeOK'
    <2>1. cpu \in Cpu /\ "illegal_instruction" \in Fallbacks
      BY <1>3 DEF TypeOK, Fallbacks
    <2> QED  BY <1>3, <2>1, DispatchType DEF InvalidInstruction, At, TypeOK, sched
  <1>4. ASSUME TypeOK, FaultingStep PROVE TypeOK'
    <2>1. PICK fallback \in Fallbacks : Dispatch(fallback, cpu)
      BY <1>4 DEF FaultingStep
    <2>2. cpu \in Cpu
      BY <1>4 DEF TypeOK
    <2> QED  BY <1>4, <2>1, <2>2, DispatchType DEF FaultingStep, At, TypeOK, sched
  <1> QED  BY <1>1, <1>2, <1>3, <1>4

LEMMA TypeCalls ==
  TypeOK /\ (CreateThread \/ ExitProcess \/ AddVectored \/ RemoveVectored) => TypeOK'
  <1>1. ASSUME TypeOK, CreateThread PROVE TypeOK'
    <2> DEFINE tid == Len(threads) + 1
    <2>1. tid \in 1..MaxThreads
      BY <1>1, LimitsAssumption DEF CreateThread, RoomForThread, TypeOK
    <2>2. PICK start \in Fetchable :
            threads' = Append(threads, [state |-> "runnable",
                                        cpu |-> [eip |-> start, teb |-> tid]])
      BY <1>1 DEF CreateThread
    <2>3. threads' \in Seq(GuestThread) /\ Len(threads') = tid
      <3>1. [state |-> "runnable", cpu |-> [eip |-> start, teb |-> tid]] \in GuestThread
        BY <2>1, GuestAssumption DEF GuestThread, Cpu
      <3> QED  BY <1>1, <2>2, <3>1, AppendProperties DEF TypeOK
    <2>4. events' \in Seq(ThreadEvent) /\ truncated' \in BOOLEAN
      BY <1>1, <2>1, LogOneType DEF CreateThread
    <2>5. cpu' \in Cpu
      BY <1>1, ReturnedType DEF CreateThread
    <2>6. since' \in [1..MaxThreads -> SUBSET (1..MaxThreads)]
      BY <1>1 DEF CreateThread, TypeOK
    <2> QED  BY <1>1, <2>1, <2>3, <2>4, <2>5, <2>6 DEF CreateThread, ApiCall, At, TypeOK
  <1>2. ASSUME TypeOK, ExitProcess PROVE TypeOK'
    <2>1. PICK order \in [1..Cardinality(EndsAlive) -> EndsAlive] :
            Log([i \in DOMAIN order |-> Event(order[i], "process_exit")])
      BY <1>2 DEF ExitProcess
    <2>2. Cardinality(EndsAlive) \in Nat /\ EndsAlive \subseteq 1..MaxThreads
      <3>1. EndsAlive \subseteq 1..Len(threads)
        BY DEF EndsAlive, Runnable
      <3>2. IsFiniteSet(1..Len(threads))
        BY <1>2, FS_Interval DEF TypeOK
      <3>3. IsFiniteSet(EndsAlive)
        BY <3>1, <3>2, FS_Subset
      <3>4. 1..Len(threads) \subseteq 1..MaxThreads
        BY <1>2, LimitsAssumption DEF TypeOK
      <3> QED  BY <3>1, <3>3, <3>4, FS_CardinalityType
    <2>3. [i \in DOMAIN order |-> Event(order[i], "process_exit")] \in Seq(ThreadEvent)
      <3>1. \A i \in DOMAIN order : Event(order[i], "process_exit") \in ThreadEvent
        BY <2>2 DEF Event, ThreadEvent
      <3> QED  BY <2>2, <3>1, IsASeq
    <2>4. events' \in Seq(ThreadEvent) /\ truncated' \in BOOLEAN
      BY <1>2, <2>1, <2>3, LogType
    <2>5. threads' \in Seq(GuestThread) /\ Len(threads') = Len(threads)
      <3>1. Len(threads) \in Nat
        BY <1>2 DEF TypeOK
      <3>2. \A t \in 1..Len(threads) :
              threads[t] \in GuestThread /\ cpu \in Cpu
        BY <1>2, ElementOfSeq DEF TypeOK
      <3>3. threads' \in [1..Len(threads) -> GuestThread]
        BY <1>2, <3>2 DEF ExitProcess, GuestThread
      <3> QED  BY <3>1, <3>3, IsASeq, LenProperties
    <2>6. cpu' \in Cpu
      BY <1>2, ReturnedType DEF ExitProcess
    <2> QED  BY <1>2, <2>4, <2>5, <2>6 DEF ExitProcess, ApiCall, At, TypeOK, Terminations
  <1>3. ASSUME TypeOK, AddVectored PROVE TypeOK'
    <2>1. PICK h \in Handlers : vectored' \in {<<h>> \o vectored, Append(vectored, h)}
      BY <1>3 DEF AddVectored
    <2>2. vectored' \in Seq(Handlers) /\ Len(vectored') = Len(vectored) + 1
      <3>1. <<h>> \in Seq(Handlers) /\ Len(<<h>>) = 1 /\ vectored \in Seq(Handlers)
        BY <1>3 DEF TypeOK
      <3>2. /\ <<h>> \o vectored \in Seq(Handlers)
            /\ Len(<<h>> \o vectored) = Len(vectored) + 1
        <4>1. Len(<<h>> \o vectored) = Len(<<h>>) + Len(vectored)
          BY <3>1, ConcatProperties
        <4>2. Len(vectored) \in Nat
          BY <3>1, LenProperties
        <4> QED  BY <3>1, <4>1, <4>2, ConcatProperties
      <3>3. /\ Append(vectored, h) \in Seq(Handlers)
            /\ Len(Append(vectored, h)) = Len(vectored) + 1
        BY <3>1, AppendProperties
      <3>4. vectored' = <<h>> \o vectored \/ vectored' = Append(vectored, h)
        BY <2>1
      <3> QED  BY <3>2, <3>3, <3>4
    <2>3. cpu' \in Cpu
      BY <1>3, ReturnedType DEF AddVectored
    <2> QED  BY <1>3, <2>2, <2>3, LimitsAssumption
             DEF AddVectored, RoomForHandler, ApiCall, At, TypeOK, sched
  <1>4. ASSUME TypeOK, RemoveVectored PROVE TypeOK'
    <2>1. PICK i \in 1..Len(vectored) : vectored' = RemoveAt(vectored, i)
      BY <1>4 DEF RemoveVectored
    <2>2. vectored' \in Seq(Handlers) /\ Len(vectored') = Len(vectored) - 1
      BY <1>4, <2>1, RemoveAtType DEF TypeOK
    <2>3. cpu' \in Cpu
      BY <1>4, ReturnedType DEF RemoveVectored
    <2>4. Len(vectored') <= MaxSehDepth
      BY <1>4, <2>2, LimitsAssumption DEF TypeOK
    <2> QED  BY <1>4, <2>2, <2>3, <2>4 DEF RemoveVectored, ApiCall, At, TypeOK, sched
  <1> QED  BY <1>1, <1>2, <1>3, <1>4

\* The actions that only end the run, count or move EIP.
LEMMA TypeSimple ==
  TypeOK /\ (Finish \/ EntryReturn \/ TlsReturn \/ StrayReturn \/ ApiLimit \/ ApiFault
             \/ PlainApi \/ Step \/ RepeatedStep \/ Halt) => TypeOK'
  <1>1. TypeOK /\ Finish => TypeOK'
    BY DEF Finish, TypeOK, Terminations, sched
  <1>2. TypeOK /\ EntryReturn => TypeOK'
    BY DEF EntryReturn, At, TypeOK, Terminations, sched
  <1>3. ASSUME TypeOK, TlsReturn PROVE TypeOK'
    <2>1. /\ Head(starts) \in Locations
          /\ starts' \in Seq(Locations) /\ Len(starts') \in 1..Len(starts)
      BY <1>3, LaterType DEF TlsReturn, TypeOK
    <2>2. cpu' \in Cpu /\ termination' \in Terminations
      BY <1>3, <2>1 DEF TlsReturn, TypeOK, Terminations, Cpu
    <2>3. Len(starts') \in 1..(TlsCallbacks + 1)
      BY <1>3, <2>1, LimitsAssumption DEF TypeOK
    <2> QED  BY <1>3, <2>1, <2>2, <2>3 DEF TlsReturn, At, TypeOK, sched
  <1>4. TypeOK /\ StrayReturn => TypeOK'
    BY DEF StrayReturn, At, TypeOK, Terminations, sched
  <1>5. TypeOK /\ (ApiLimit \/ ApiFault) => TypeOK'
    BY DEF ApiLimit, ApiFault, ApiCall, At, TypeOK, Terminations, sched
  <1>6. TypeOK /\ PlainApi => TypeOK'
    BY ReturnedType DEF PlainApi, ApiCall, At, TypeOK, sched
  <1>7. ASSUME TypeOK, Step PROVE TypeOK'
    <2>1. cpu' \in Cpu
      BY <1>7, GuestAssumption DEF Step, TypeOK, Cpu
    <2>2. seh' \subseteq 1..MaxThreads
      BY <1>7 DEF Step, TypeOK, Cpu
    <2> QED  BY <1>7, <2>1, <2>2 DEF Step, At, TypeOK, sched
  <1>8. ASSUME TypeOK, RepeatedStep PROVE TypeOK'
    <2>1. count' \in Nat
      <3>1. PICK completed \in 2..Available : count' = count + completed
        BY <1>8 DEF RepeatedStep
      <3>2. Available \in Int
        BY <1>8, LimitsAssumption DEF Available, TypeOK
      <3> QED  BY <1>8, <3>1, <3>2 DEF TypeOK
    <2>2. cpu' \in Cpu
      BY <1>8 DEF RepeatedStep, TypeOK, Cpu, Locations
    <2>3. truncated' \in BOOLEAN /\ termination' \in Terminations
      BY <1>8 DEF RepeatedStep, TypeOK, Terminations
    <2> QED  BY <1>8, <2>1, <2>2, <2>3 DEF RepeatedStep, At, TypeOK
  <1>9. TypeOK /\ Halt => TypeOK'
    BY DEF Halt, At, TypeOK, Terminations, sched
  <1> QED  BY <1>1, <1>2, <1>3, <1>4, <1>5, <1>6, <1>7, <1>8, <1>9

LEMMA TypeNext == TypeOK /\ [Next]_vars => TypeOK'
  <1>1. TypeOK /\ UNCHANGED vars => TypeOK'
    BY DEF TypeOK, vars, sched
  <1> QED  BY <1>1, TypeTop, TypeThreadEnd, TypeHandling, TypeFaults, TypeCalls, TypeSimple
           DEF Next, Returns, Handling, Calls, Instructions

\* Every reachable state is well typed; the thread table and the list of
\* vectored handlers never grow past their limits.
THEOREM TypeCorrect == Spec => []TypeOK
  BY TypeInit, TypeNext, PTL DEF Spec

-----------------------------------------------------------------------------
(* Threads: registers, the running thread and the budget *)

\* An iteration starts only while the run may go on.
MayRun == pc = "body" => termination = "none" /\ count < MaxInstructions

ThreadInv == TypeOK /\ MayRun /\ CurrentIsRunnable /\ IsolatedTebs /\ BudgetKept

\* A step of the body that neither switches threads nor changes their table.
LEMMA QuietStep ==
  ASSUME ThreadInv, pc = "body", pc' = "top", UNCHANGED <<threads, current>>,
         cpu'.teb = cpu.teb, count' <= MaxInstructions
  PROVE  MayRun' /\ CurrentIsRunnable' /\ IsolatedTebs' /\ BudgetKept'
  BY DEF ThreadInv, MayRun, CurrentIsRunnable, IsolatedTebs, BudgetKept, Runnable

\* Starting a handler keeps the thread's TEB.
LEMMA DispatchTeb ==
  ASSUME TypeOK, NEW regs \in Cpu
  PROVE  /\ \A p, log : BeginHandler(p, log, regs) => cpu'.teb = regs.teb
         /\ \A fallback : Dispatch(fallback, regs) => cpu'.teb = regs.teb
  <1>1. \A eip : [regs EXCEPT !.eip = eip].teb = regs.teb
    BY DEF Cpu
  <1>2. \A p, log : BeginHandler(p, log, regs) => cpu'.teb = regs.teb
    BY <1>1 DEF BeginHandler
  <1>3. \A fallback : Dispatch(fallback, regs) => cpu'.teb = regs.teb
    BY <1>2 DEF Dispatch
  <1> QED  BY <1>2, <1>3

\* A thread of a table whose saved registers are its own takes the CPU.
LEMMA SwitchToOwn ==
  ASSUME NEW ths, NEW t \in 1..Len(ths), NEW regs, regs.teb = current,
         ths[t].cpu.teb = t, SwitchTo(t, ths, regs)
  PROVE  current' = t /\ cpu'.teb = t
  BY DEF SwitchTo, Loaded

LEMMA ThreadTop == ThreadInv /\ Top => ThreadInv'
  <1> SUFFICES ASSUME ThreadInv, Top PROVE ThreadInv'
    OBVIOUS
  <1>1. TypeOK'
    BY TypeTop DEF ThreadInv
  <1>2. MayRun' /\ BudgetKept'
    BY DEF Top, MayRun, BudgetKept, ThreadInv
  <1>3. CASE RotationDue
    <2>1. PICK t \in Runnable(threads) : SwitchTo(t, threads, cpu)
      BY <1>3 DEF Top
    <2>2. t \in 1..Len(threads)
      BY DEF Runnable
    <2>3. current' = t /\ cpu'.teb = t
      BY <2>1, <2>2, SwitchToOwn DEF ThreadInv, IsolatedTebs
    <2>4. threads' = [threads EXCEPT ![current].cpu = cpu]
      BY <1>3 DEF Top
    <2>5. /\ Len(threads') = Len(threads)
          /\ \A u \in 1..Len(threads) :
               threads'[u].state = threads[u].state /\ threads'[u].cpu.teb = u
      <3>1. threads \in [1..Len(threads) -> GuestThread] /\ Len(threads) \in Nat
        BY LenProperties DEF ThreadInv, TypeOK
      <3>2. /\ DOMAIN threads' = 1..Len(threads)
            /\ \A u \in 1..Len(threads) :
                 threads'[u] = IF u = current THEN [threads[u] EXCEPT !.cpu = cpu]
                               ELSE threads[u]
        BY <2>4, <3>1
      <3>3. Len(threads') = Len(threads)
        BY <1>1, <3>1, <3>2, LenProperties DEF TypeOK
      <3>4. \A u \in 1..Len(threads) :
              /\ [threads[u] EXCEPT !.cpu = cpu].state = threads[u].state
              /\ [threads[u] EXCEPT !.cpu = cpu].cpu = cpu
        BY <3>1 DEF GuestThread
      <3> QED  BY <3>2, <3>3, <3>4 DEF ThreadInv, IsolatedTebs
    <2>6. CurrentIsRunnable'
      BY <2>2, <2>3, <2>5 DEF CurrentIsRunnable, Runnable
    <2>7. IsolatedTebs'
      BY <2>3, <2>5 DEF IsolatedTebs
    <2> QED  BY <1>1, <1>2, <2>6, <2>7 DEF ThreadInv
  <1>4. CASE ~RotationDue
    <2>1. UNCHANGED <<cpu, threads, current, termination>>
      BY <1>4 DEF Top, sched
    <2> QED  BY <1>1, <1>2, <2>1 DEF ThreadInv, CurrentIsRunnable, IsolatedTebs, Runnable
  <1> QED  BY <1>3, <1>4

\* A thread leaves the CPU for good.
LEMMA ThreadEnd ==
  ASSUME ThreadInv, NEW regs \in Cpu, regs.teb = current, FinishAndSchedule(regs),
         pc' = "top", UNCHANGED count
  PROVE  MayRun' /\ CurrentIsRunnable' /\ IsolatedTebs' /\ BudgetKept'
  <1> DEFINE done == [threads EXCEPT ![current] = Ended(regs)]
  <1>1. MayRun' /\ BudgetKept'
    BY DEF MayRun, BudgetKept, ThreadInv
  <1>2. threads \in [1..Len(threads) -> GuestThread] /\ Len(threads) \in Nat
    BY LenProperties DEF ThreadInv, TypeOK
  <1>3. /\ DOMAIN done = 1..Len(threads)
        /\ \A u \in 1..Len(threads) :
             done[u] = IF u = current THEN Ended(regs) ELSE threads[u]
    BY <1>2
  <1>4. Ended(regs) \in GuestThread /\ Ended(regs).cpu = regs
    BY DEF Ended, GuestThread
  <1>5. Len(done) = Len(threads)
    BY <1>4, TableUpdate DEF ThreadInv
  <1>6. \A u \in 1..Len(done) : done[u].cpu.teb = u
    BY <1>3, <1>4, <1>5 DEF ThreadInv, IsolatedTebs
  <1>7. threads' = done
    BY DEF FinishAndSchedule
  <1> HIDE DEF done
  <1>8. CASE \E t \in Runnable(done) : SwitchTo(t, done, regs)
    <2>1. PICK t \in Runnable(done) : SwitchTo(t, done, regs)
      BY <1>8
    <2>2. t \in 1..Len(done)
      BY DEF Runnable
    <2>3. current' = t /\ cpu'.teb = t
      BY <1>6, <2>1, <2>2, SwitchToOwn
    <2> QED  BY <1>1, <1>6, <1>7, <2>2, <2>3 DEF CurrentIsRunnable, IsolatedTebs, Runnable
  <1>9. CASE termination' = "returned" /\ cpu' = regs /\ UNCHANGED current
    BY <1>1, <1>6, <1>7, <1>9 DEF CurrentIsRunnable, IsolatedTebs
  <1>10. (\E t \in 1..Len(done) : IsNext(t, done) /\ SwitchTo(t, done, regs))
           => \E t \in Runnable(done) : SwitchTo(t, done, regs)
    BY DEF IsNext
  <1>11. \/ \E t \in 1..Len(done) : IsNext(t, done) /\ SwitchTo(t, done, regs)
         \/ termination' = "returned" /\ cpu' = regs /\ UNCHANGED current
    BY DEF FinishAndSchedule, done
  <1> QED  BY <1>8, <1>9, <1>10, <1>11

LEMMA ThreadCreated == ThreadInv /\ CreateThread => ThreadInv'
  <1> SUFFICES ASSUME ThreadInv, CreateThread PROVE ThreadInv'
    OBVIOUS
  <1> DEFINE tid == Len(threads) + 1
  <1>0. PICK start \in Fetchable :
          threads' = Append(threads, [state |-> "runnable",
                                      cpu |-> [eip |-> start, teb |-> tid]])
    BY DEF CreateThread
  <1> DEFINE new == [state |-> "runnable", cpu |-> [eip |-> start, teb |-> tid]]
  <1>1. TypeOK' /\ pc = "body" /\ pc' = "top"
    BY TypeCalls DEF ThreadInv, CreateThread, ApiCall, At
  <1>2. threads' = Append(threads, new) /\ UNCHANGED <<current, count, termination>>
    BY <1>0 DEF CreateThread
  <1>3. /\ Len(threads') = tid /\ threads'[tid] = new
        /\ \A u \in 1..Len(threads) : threads'[u] = threads[u]
    BY <1>2, AppendProperties DEF ThreadInv, TypeOK
  <1>4. cpu'.teb = current
    BY ReturnedType DEF CreateThread, ThreadInv, IsolatedTebs
  <1>5. Len(threads) \in Nat
    BY DEF ThreadInv, TypeOK
  <1>6. IsolatedTebs'
    BY <1>2, <1>3, <1>4, <1>5 DEF ThreadInv, IsolatedTebs
  <1>7. CurrentIsRunnable'
    BY <1>2, <1>3, <1>5 DEF ThreadInv, CurrentIsRunnable, Runnable
  <1> QED  BY <1>1, <1>2, <1>6, <1>7 DEF ThreadInv, MayRun, BudgetKept

LEMMA ThreadProcessEnd == ThreadInv /\ ExitProcess => ThreadInv'
  <1> SUFFICES ASSUME ThreadInv, ExitProcess PROVE ThreadInv'
    OBVIOUS
  <1>1. TypeOK' /\ pc' = "top" /\ termination' = "exit_process" /\ UNCHANGED <<current, count>>
    BY TypeCalls DEF ThreadInv, ExitProcess, ApiCall, At
  <1>2. cpu'.teb = current
    BY ReturnedType DEF ExitProcess, ThreadInv, IsolatedTebs
  <1>3. Len(threads) \in Nat
    BY DEF ThreadInv, TypeOK
  <1>4. DOMAIN threads' = 1..Len(threads')
    BY <1>1, LenProperties DEF TypeOK
  <1>5. \A u \in 1..Len(threads') : threads'[u].cpu.teb = u
    BY <1>3, <1>4 DEF ExitProcess, ThreadInv, IsolatedTebs
  <1>6. IsolatedTebs'
    BY <1>1, <1>2, <1>5 DEF IsolatedTebs
  <1> QED  BY <1>1, <1>6 DEF ThreadInv, MayRun, CurrentIsRunnable, BudgetKept

\* Calls that leave the threads alone.
LEMMA ThreadCalls ==
  ThreadInv /\ (ApiLimit \/ ApiFault \/ PlainApi \/ RaiseException \/ AddVectored
                \/ RemoveVectored)
    => ThreadInv'
  <1> SUFFICES ASSUME ThreadInv,
                      ApiLimit \/ ApiFault \/ PlainApi \/ RaiseException
                        \/ AddVectored \/ RemoveVectored
               PROVE  ThreadInv'
    OBVIOUS
  <1>1. TypeOK'
    BY TypeSimple, TypeFaults, TypeCalls DEF ThreadInv
  <1>2. /\ pc = "body" /\ pc' = "top"
        /\ UNCHANGED <<threads, current, count>>
    BY DEF ApiLimit, ApiFault, PlainApi, RaiseException, AddVectored, RemoveVectored,
           ApiCall, At, sched
  <1>3. cpu'.teb = cpu.teb
    <2>1. CASE RaiseException
      BY <2>1, ReturnedType, DispatchTeb DEF RaiseException, ThreadInv
    <2>2. CASE ApiLimit \/ ApiFault
      BY <2>2 DEF ApiLimit, ApiFault
    <2>3. CASE PlainApi \/ AddVectored \/ RemoveVectored
      BY <2>3, ReturnedType DEF PlainApi, AddVectored, RemoveVectored, ThreadInv
    <2> QED  BY <2>1, <2>2, <2>3
  <1>4. count' <= MaxInstructions
    BY <1>2 DEF ThreadInv, BudgetKept
  <1> QED  BY <1>1, <1>2, <1>3, <1>4, QuietStep DEF ThreadInv

LEMMA ThreadHandling == ThreadInv /\ (Handling \/ EntryReturn \/ TlsReturn) => ThreadInv'
  <1> SUFFICES ASSUME ThreadInv, Handling \/ EntryReturn \/ TlsReturn PROVE ThreadInv'
    OBVIOUS
  <1>1. TypeOK'
    BY TypeSimple, TypeHandling DEF ThreadInv, Handling
  <1>2. pc = "body" /\ pc' = "top" /\ UNCHANGED <<threads, current, count>>
    BY DEF Handling, StrayReturn, ContinueExecution, ContinueSearch, OtherDisposition,
           EntryReturn, TlsReturn, HandlerReturns, At, sched
  <1>3. cpu'.teb = cpu.teb
    <2>1. cpu \in Cpu
      BY DEF ThreadInv, TypeOK
    <2>2. CASE StrayReturn \/ OtherDisposition \/ EntryReturn
      BY <2>2 DEF StrayReturn, OtherDisposition, EntryReturn
    <2>3. CASE ContinueExecution \/ TlsReturn
      BY <2>1, <2>3 DEF ContinueExecution, TlsReturn, Cpu
    <2>4. CASE ContinueSearch
      BY <2>1, <2>4, DispatchTeb DEF ContinueSearch, ThreadInv
    <2> QED  BY <2>2, <2>3, <2>4 DEF Handling
  <1>4. count' <= MaxInstructions
    BY <1>2 DEF ThreadInv, BudgetKept
  <1> QED  BY <1>1, <1>2, <1>3, <1>4, QuietStep DEF ThreadInv

LEMMA ThreadInstructions == ThreadInv /\ Instructions => ThreadInv'
  <1> SUFFICES ASSUME ThreadInv, Instructions PROVE ThreadInv'
    OBVIOUS
  <1>1. TypeOK'
    BY TypeSimple, TypeFaults DEF ThreadInv, Instructions
  <1>2. pc = "body" /\ pc' = "top" /\ UNCHANGED <<threads, current>>
    BY DEF Instructions, FetchFault, InvalidInstruction, Step, RepeatedStep,
           FaultingStep, Halt, At, sched
  <1>3. cpu'.teb = cpu.teb
    <2>1. cpu \in Cpu
      BY DEF ThreadInv, TypeOK
    <2>2. CASE FetchFault \/ InvalidInstruction \/ FaultingStep
      BY <2>1, <2>2, DispatchTeb DEF FetchFault, InvalidInstruction, FaultingStep, ThreadInv
    <2>3. CASE Step \/ RepeatedStep \/ Halt
      BY <2>1, <2>3 DEF Step, RepeatedStep, Halt, Cpu
    <2> QED  BY <2>2, <2>3 DEF Instructions
  <1>4. count \in Nat /\ MaxInstructions \in Nat /\ count < MaxInstructions
    BY <1>2, LimitsAssumption DEF ThreadInv, TypeOK, MayRun
  <1>5. count' <= MaxInstructions
    <2>1. CASE FetchFault \/ InvalidInstruction
      BY <1>4, <2>1 DEF FetchFault, InvalidInstruction
    <2>2. CASE Step \/ FaultingStep \/ Halt
      BY <1>4, <2>2 DEF Step, FaultingStep, Halt
    <2>3. CASE RepeatedStep
      <3>1. PICK completed \in 2..Available : count' = count + completed
        BY <2>3 DEF RepeatedStep
      <3> QED  BY <1>4, <3>1 DEF Available
    <2> QED  BY <2>1, <2>2, <2>3 DEF Instructions
  <1> QED  BY <1>1, <1>2, <1>3, <1>5, QuietStep DEF ThreadInv

LEMMA ThreadNext == ThreadInv /\ [Next]_vars => ThreadInv'
  <1> SUFFICES ASSUME ThreadInv, [Next]_vars PROVE ThreadInv'
    OBVIOUS
  <1>1. CASE UNCHANGED vars
    BY <1>1, TypeNext DEF ThreadInv, MayRun, CurrentIsRunnable, IsolatedTebs, BudgetKept,
                          Runnable, vars, sched
  <1>2. CASE Top
    BY <1>2, ThreadTop
  <1>3. CASE Finish
    BY <1>3, TypeSimple DEF ThreadInv, Finish, MayRun, CurrentIsRunnable, IsolatedTebs,
                            BudgetKept, Runnable, sched
  <1>4. CASE ThreadReturn
    <2>1. cpu \in Cpu /\ cpu.teb = current
      BY DEF ThreadInv, TypeOK, IsolatedTebs
    <2> QED  BY <1>4, <2>1, ThreadEnd, TypeThreadEnd DEF ThreadReturn, At, ThreadInv
  <1>5. CASE ExitThread
    <2>1. PICK ret \in Targets : FinishAndSchedule(Returned(ret))
      BY <1>5 DEF ExitThread
    <2>2. Returned(ret) \in Cpu /\ Returned(ret).teb = current
      BY ReturnedType DEF ThreadInv, IsolatedTebs
    <2> QED  BY <1>5, <2>1, <2>2, ThreadEnd, TypeThreadEnd
             DEF ExitThread, ApiCall, At, ThreadInv
  <1> QED  BY <1>1, <1>2, <1>3, <1>4, <1>5, ThreadCreated, ThreadProcessEnd, ThreadCalls,
              ThreadHandling, ThreadInstructions
           DEF Next, Returns, Calls

LEMMA ThreadInit == Init => ThreadInv
  <1> SUFFICES ASSUME Init PROVE ThreadInv
    OBVIOUS
  <1>1. Len(threads) = 1 /\ threads[1].cpu = cpu /\ threads[1].state = "runnable"
        /\ cpu.teb = 1
    BY DEF Init
  <1> QED  BY <1>1, TypeInit, LimitsAssumption
           DEF Init, ThreadInv, MayRun, CurrentIsRunnable, IsolatedTebs, BudgetKept, Runnable

LEMMA ThreadCorrect == Spec => []ThreadInv
  BY ThreadInit, ThreadNext, PTL DEF Spec

\* However the guest uses threads, calls and handlers, the registers loaded and
\* saved for a thread are its own.
THEOREM RegistersIsolated == Spec => []IsolatedTebs
  <1>1. ThreadInv => IsolatedTebs
    BY DEF ThreadInv
  <1> QED  BY <1>1, ThreadCorrect, PTL

\* A thread that has ended is never the one that executes.
THEOREM NoDeadThreadRuns == Spec => []CurrentIsRunnable
  <1>1. ThreadInv => CurrentIsRunnable
    BY DEF ThreadInv
  <1> QED  BY <1>1, ThreadCorrect, PTL

\* The instruction budget holds exactly, repeated string instructions included.
THEOREM BudgetCorrect == Spec => []BudgetKept
  <1>1. ThreadInv => BudgetKept
    BY DEF ThreadInv
  <1> QED  BY <1>1, ThreadCorrect, PTL

-----------------------------------------------------------------------------
(* Exceptions: the log grows past the limit only along one search *)

ExceptionInv ==
  /\ TypeOK
  /\ ExceptionLogBound
  /\ OpenEventIsPending
  /\ pending # NoPending => /\ pending.event = Len(exceptions)
                            /\ pending.depth < MaxSehDepth
                            /\ Len(exceptions) <= MaxExceptions + pending.depth

\* No event of log is still open.
AllClosed(log) == \A i \in 1..Len(log) : log[i].outcome # "dispatched"

LEMMA ClosedAll ==
  ASSUME ExceptionInv, pending # NoPending,
         NEW outcome \in {"continued_search", "continued_execution", "unhandled_disposition"}
  PROVE  AllClosed(Closed(outcome)) /\ Len(Closed(outcome)) = Len(exceptions)
  <1>1. /\ Len(Closed(outcome)) = Len(exceptions)
        /\ \A i \in 1..Len(exceptions) :
             Closed(outcome)[i] = IF i = pending.event
                                  THEN [exceptions[i] EXCEPT !.outcome = outcome]
                                  ELSE exceptions[i]
    BY ClosedType DEF ExceptionInv
  <1>2. \A i \in 1..Len(exceptions) :
          [exceptions[i] EXCEPT !.outcome = outcome].outcome = outcome
    <2>1. \A i \in 1..Len(exceptions) : exceptions[i] \in ExceptionEvent
      BY ElementOfSeq DEF ExceptionInv, TypeOK
    <2> QED  BY <2>1 DEF ExceptionEvent
  <1>3. \A i \in 1..Len(exceptions) :
          exceptions[i].outcome = "dispatched" => i = pending.event
    BY DEF ExceptionInv, OpenEventIsPending
  <1> QED  BY <1>1, <1>2, <1>3 DEF AllClosed

\* A state without a pending exception and with a closed log in bounds.
LEMMA SettledInv ==
  ASSUME TypeOK', pending' = NoPending, AllClosed(exceptions'),
         Len(exceptions') <= MaxExceptions + (MaxSehDepth - 1)
  PROVE  ExceptionInv'
  BY DEF ExceptionInv, ExceptionLogBound, OpenEventIsPending, AllClosed

\* begin_exception_handler adds at most one event, the one it leaves open.
LEMMA BeginInv ==
  ASSUME TypeOK, TypeOK', NEW p \in PendingException, NEW log \in Seq(ExceptionEvent),
         NEW regs, BeginHandler(p, log, regs), AllClosed(log),
         Len(log) < MaxExceptions + p.depth \/ ~MayVisit(p),
         Len(log) <= MaxExceptions + (MaxSehDepth - 1)
  PROVE  ExceptionInv'
  <1>1. CASE exceptions' = log /\ pending' = NoPending
    BY <1>1, SettledInv
  <1>2. CASE /\ MayVisit(p)
             /\ \E e : e.outcome = "dispatched" /\ exceptions' = Append(log, e)
             /\ pending' = [p EXCEPT !.event = Len(log) + 1]
    <2>1. PICK e : e.outcome = "dispatched" /\ exceptions' = Append(log, e)
      BY <1>2
    <2>2. Len(log) \in Nat /\ p.depth \in Nat /\ p.depth < MaxSehDepth
      BY <1>2, LenProperties DEF MayVisit, PendingException
    <2>3. /\ Len(exceptions') = Len(log) + 1
          /\ exceptions'[Len(log) + 1] = e
          /\ \A i \in 1..Len(log) : exceptions'[i] = log[i]
      BY <2>1
    <2>4. pending'.event = Len(log) + 1 /\ pending'.depth = p.depth
      BY <1>2 DEF PendingException
    <2>5. pending' # NoPending
      BY <1>2, <2>2, GuestAssumption DEF PendingException
    <2>6. OpenEventIsPending'
      <3>1. \A i \in 1..(Len(log) + 1) :
              exceptions'[i].outcome = "dispatched" <=> i = Len(log) + 1
        BY <2>1, <2>2, <2>3 DEF AllClosed
      <3> QED  BY <2>2, <2>3, <2>4, <2>5, <3>1 DEF OpenEventIsPending
    <2>7. Len(log) + 1 <= MaxExceptions + p.depth
      BY <1>2, <2>2, LimitsAssumption
    <2>8. ExceptionLogBound'
      BY <2>2, <2>3, <2>7, LimitsAssumption DEF ExceptionLogBound
    <2> QED  BY <2>2, <2>3, <2>4, <2>6, <2>7, <2>8 DEF ExceptionInv
  <1> QED  BY <1>1, <1>2 DEF BeginHandler

LEMMA DispatchInv ==
  ASSUME ExceptionInv, TypeOK', NEW fallback \in Fallbacks, NEW regs,
         Dispatch(fallback, regs)
  PROVE  ExceptionInv'
  <1>1. CASE pending # NoPending \/ Len(exceptions) >= MaxExceptions
    BY <1>1 DEF Dispatch, ExceptionInv, ExceptionLogBound, OpenEventIsPending
  <1>2. CASE ~(pending # NoPending \/ Len(exceptions) >= MaxExceptions)
    <2> DEFINE p == [depth |-> 0, fallback |-> fallback, event |-> 1,
                     vectored |-> IF vectored = <<>> THEN 0 ELSE 1,
                     frame |-> FirstFrame]
    <2>1. p \in PendingException /\ p.depth = 0
      BY DEF PendingException, FirstFrame
    <2>2. BeginHandler(p, exceptions, regs)
      BY <1>2 DEF Dispatch
    <2>3. AllClosed(exceptions)
      BY <1>2 DEF AllClosed, ExceptionInv, OpenEventIsPending
    <2>4. Len(exceptions) < MaxExceptions + p.depth
      BY <1>2, <2>1, LimitsAssumption, LenProperties DEF ExceptionInv, TypeOK
    <2> HIDE DEF p
    <2> QED  BY <2>1, <2>2, <2>3, <2>4, BeginInv
             DEF ExceptionInv, ExceptionLogBound, TypeOK
  <1> QED  BY <1>1, <1>2

LEMMA SearchInv == ExceptionInv /\ ContinueSearch => ExceptionInv'
  <1> SUFFICES ASSUME ExceptionInv, ContinueSearch PROVE ExceptionInv'
    OBVIOUS
  <1> DEFINE log == Closed("continued_search")
  <1>1. TypeOK'
    BY TypeHandling DEF ExceptionInv
  <1>2. PICK link \in {"frame", "end"} : BeginHandler(SearchOn(link), log, cpu)
    BY DEF ContinueSearch
  <1>3. pending # NoPending /\ pending \in PendingException
    BY DEF ContinueSearch, HandlerReturns, ExceptionInv, TypeOK
  <1>4. SearchOn(link) \in PendingException /\ SearchOn(link).depth = pending.depth + 1
    <2>1. /\ pending.depth + 1 \in Nat
          /\ (IF MoreVectored THEN pending.vectored + 1 ELSE 0) \in Nat
          /\ (IF MoreVectored THEN pending.frame
              ELSE IF pending.vectored # 0 THEN FirstFrame ELSE link) \in {"frame", "end"}
      BY <1>3 DEF PendingException, FirstFrame
    <2> QED  BY <1>3, <2>1 DEF SearchOn, PendingException
  <1>5. AllClosed(log) /\ Len(log) = Len(exceptions)
    BY <1>3, ClosedAll
  <1>6. log \in Seq(ExceptionEvent)
    BY ClosedType DEF ExceptionInv
  <1>7. Len(exceptions) < MaxExceptions + (pending.depth + 1)
    BY <1>3, LimitsAssumption, LenProperties DEF ExceptionInv, TypeOK, PendingException
  <1> HIDE DEF log
  <1> QED  BY <1>1, <1>2, <1>4, <1>5, <1>6, <1>7, BeginInv DEF ExceptionInv, ExceptionLogBound

LEMMA ExceptionNext == ExceptionInv /\ [Next]_vars => ExceptionInv'
  <1> SUFFICES ASSUME ExceptionInv, [Next]_vars PROVE ExceptionInv'
    OBVIOUS
  <1>1. TypeOK'
    BY TypeNext DEF ExceptionInv
  <1>2. CASE UNCHANGED <<pending, exceptions>>
    BY <1>1, <1>2 DEF ExceptionInv, ExceptionLogBound, OpenEventIsPending
  <1>3. CASE ContinueExecution \/ OtherDisposition
    <2>1. PICK outcome \in {"continued_execution", "unhandled_disposition"} :
            exceptions' = Closed(outcome)
      BY <1>3 DEF ContinueExecution, OtherDisposition
    <2>2. pending # NoPending /\ pending' = NoPending
      BY <1>3 DEF ContinueExecution, OtherDisposition, HandlerReturns
    <2> QED  BY <1>1, <2>1, <2>2, ClosedAll, SettledInv DEF ExceptionInv, ExceptionLogBound
  <1>4. CASE ContinueSearch
    BY <1>4, SearchInv
  <1>5. CASE RaiseException
    <2>1. "halted" \in Fallbacks
      BY DEF Fallbacks
    <2> QED  BY <1>1, <1>5, <2>1, DispatchInv DEF RaiseException
  <1>6. CASE FetchFault \/ InvalidInstruction \/ FaultingStep
    <2>1. "memory_fault" \in Fallbacks /\ "illegal_instruction" \in Fallbacks
      BY DEF Fallbacks
    <2> QED  BY <1>1, <1>6, <2>1, DispatchInv DEF FetchFault, InvalidInstruction, FaultingStep
  <1>7. CASE UNCHANGED vars
    BY <1>2, <1>7 DEF vars
  <1>8. CASE Top \/ Finish \/ Returns
    BY <1>2, <1>8 DEF Top, Finish, Returns, ThreadReturn, EntryReturn, TlsReturn
  <1>9. CASE StrayReturn \/ Step \/ RepeatedStep \/ Halt
    BY <1>2, <1>9 DEF StrayReturn, Step, RepeatedStep, Halt
  <1>10. CASE ApiLimit \/ ApiFault \/ PlainApi \/ CreateThread \/ ExitThread \/ ExitProcess
              \/ AddVectored \/ RemoveVectored
    BY <1>2, <1>10 DEF ApiLimit, ApiFault, PlainApi, CreateThread, ExitThread, ExitProcess,
                       AddVectored, RemoveVectored
  <1> QED  BY <1>3, <1>4, <1>5, <1>6, <1>7, <1>8, <1>9, <1>10
           DEF Next, Handling, Calls, Instructions

LEMMA ExceptionInit == Init => ExceptionInv
  <1> SUFFICES ASSUME Init PROVE ExceptionInv
    OBVIOUS
  <1>1. exceptions = <<>> /\ pending = NoPending
    BY DEF Init
  <1>2. Len(exceptions) = 0 /\ 0 <= MaxExceptions + (MaxSehDepth - 1)
    BY <1>1, LimitsAssumption
  <1> QED  BY <1>1, <1>2, TypeInit DEF ExceptionInv, ExceptionLogBound, OpenEventIsPending

LEMMA ExceptionCorrect == Spec => []ExceptionInv
  BY ExceptionInit, ExceptionNext, PTL DEF Spec

\* However long and however often handlers go on searching, the log of
\* exception events never has more than MaxSehDepth - 1 above its limit.
THEOREM ExceptionLogBounded == Spec => []ExceptionLogBound
  <1>1. ExceptionInv => ExceptionLogBound
    BY DEF ExceptionInv
  <1> QED  BY <1>1, ExceptionCorrect, PTL

\* The report's exception events and the dispatcher never disagree: exactly the
\* event whose handler is running is open.
THEOREM OpenEventCorrect == Spec => []OpenEventIsPending
  <1>1. ExceptionInv => OpenEventIsPending
    BY DEF ExceptionInv
  <1> QED  BY <1>1, ExceptionCorrect, PTL

-----------------------------------------------------------------------------
(* Turns: what a step may do to the threads *)

Rotates == \E t \in Runnable(threads) :
  /\ IsNext(t, threads) /\ SwitchTo(t, threads, cpu)
  /\ threads' = [threads EXCEPT ![current].cpu = cpu]
Ends == termination = "none" /\ \E regs \in Cpu : FinishAndSchedule(regs)
ThreadStep ==
  \/ UNCHANGED <<threads, current, since>>
  \/ termination = "none" /\ Rotates
  \/ Ends
  \/ CreateThread
  \/ ExitProcess

LEMMA NextThreadStep == ThreadInv /\ [Next]_vars => ThreadStep
  <1> SUFFICES ASSUME ThreadInv, [Next]_vars PROVE ThreadStep
    OBVIOUS
  <1>1. CASE Top
    BY <1>1 DEF Top, ThreadStep, Rotates, sched
  <1>2. CASE ThreadReturn
    <2>1. cpu \in Cpu /\ termination = "none"
      BY <1>2 DEF ThreadReturn, At, ThreadInv, TypeOK, MayRun
    <2> QED  BY <1>2, <2>1 DEF ThreadReturn, ThreadStep, Ends
  <1>3. CASE ExitThread
    <2>1. PICK ret \in Targets : FinishAndSchedule(Returned(ret))
      BY <1>3 DEF ExitThread
    <2>2. Returned(ret) \in Cpu /\ termination = "none"
      BY <1>3, ReturnedType DEF ExitThread, ApiCall, At, ThreadInv, MayRun
    <2> QED  BY <2>1, <2>2 DEF ThreadStep, Ends
  <1>4. CASE CreateThread \/ ExitProcess
    BY <1>4 DEF ThreadStep
  <1>5. CASE UNCHANGED vars \/ Finish \/ EntryReturn \/ TlsReturn
    BY <1>5 DEF vars, sched, Finish, EntryReturn, TlsReturn, ThreadStep
  <1>6. CASE Handling
    BY <1>6 DEF Handling, StrayReturn, ContinueExecution, ContinueSearch, OtherDisposition,
                sched, ThreadStep
  <1>7. CASE Instructions
    BY <1>7 DEF Instructions, FetchFault, InvalidInstruction, Step, RepeatedStep, FaultingStep,
                Halt, sched, ThreadStep
  <1>8. CASE ApiLimit \/ ApiFault \/ PlainApi \/ RaiseException \/ AddVectored \/ RemoveVectored
    BY <1>8 DEF ApiLimit, ApiFault, PlainApi, RaiseException, AddVectored, RemoveVectored,
                sched, ThreadStep
  <1> QED  BY <1>1, <1>2, <1>3, <1>4, <1>5, <1>6, <1>7, <1>8 DEF Next, Returns, Calls

\* The table of threads after a rotation, an end and a creation.
LEMMA TableAfter ==
  ASSUME TypeOK
  PROVE  /\ Len(threads) \in Nat /\ current \in 1..Len(threads) /\ threads \in [1..Len(threads) -> GuestThread]
         /\ Rotates => /\ Len(threads') = Len(threads)
                       /\ \A t \in 1..Len(threads) : threads'[t].state = threads[t].state
                       /\ \A t \in 1..Len(threads) \ {current} : threads'[t] = threads[t]
         /\ \A regs \in Cpu :
              LET done == [threads EXCEPT ![current] = Ended(regs)]
              IN  /\ Len(done) = Len(threads)
                  /\ \A t \in 1..Len(threads) \ {current} : done[t] = threads[t]
                  /\ Runnable(done) = Runnable(threads) \ {current}
  <1>1. threads \in [1..Len(threads) -> GuestThread] /\ Len(threads) \in Nat
        /\ current \in 1..Len(threads)
    BY LenProperties DEF TypeOK
  <1>2. ASSUME Rotates
        PROVE  /\ Len(threads') = Len(threads)
               /\ \A t \in 1..Len(threads) : threads'[t].state = threads[t].state
               /\ \A t \in 1..Len(threads) \ {current} : threads'[t] = threads[t]
    <2>1. threads' = [threads EXCEPT ![current].cpu = cpu]
      BY <1>2 DEF Rotates
    <2>2. \A t \in 1..Len(threads) :
            threads'[t] = IF t = current THEN [threads[t] EXCEPT !.cpu = cpu] ELSE threads[t]
      BY <1>1, <2>1
    <2>3. \A t \in 1..Len(threads) : [threads[t] EXCEPT !.cpu = cpu].state = threads[t].state
      BY <1>1 DEF GuestThread
    <2>4. Len(threads') = Len(threads)
      BY <2>1 DEF TypeOK
    <2> QED  BY <2>2, <2>3, <2>4
  <1>3. ASSUME NEW regs \in Cpu
        PROVE  LET done == [threads EXCEPT ![current] = Ended(regs)]
               IN  /\ Len(done) = Len(threads)
                   /\ \A t \in 1..Len(threads) \ {current} : done[t] = threads[t]
                   /\ Runnable(done) = Runnable(threads) \ {current}
    <2> DEFINE done == [threads EXCEPT ![current] = Ended(regs)]
    <2>1. /\ \A t \in 1..Len(threads) \ {current} : done[t] = threads[t]
          /\ done[current] = Ended(regs)
      BY <1>1
    <2>2. Len(done) = Len(threads)
      BY DEF TypeOK
    <2>3. done[current].state # "runnable"
      BY <2>1 DEF Ended
    <2> HIDE DEF done
    <2>4. Runnable(done) = Runnable(threads) \ {current}
      BY <2>1, <2>2, <2>3 DEF Runnable
    <2> QED  BY <2>1, <2>2, <2>4 DEF done
  <1> QED  BY <1>1, <1>2, <1>3

LEMMA StepEndsForGood ==
  ASSUME ThreadInv, ThreadStep, NEW t \in 1..Len(threads), threads[t].state # "runnable"
  PROVE  threads'[t] = threads[t]
  <1>1. TypeOK
    BY DEF ThreadInv
  <1>2. ASSUME termination = "none" PROVE t # current
    BY <1>2 DEF ThreadInv, CurrentIsRunnable, Runnable
  <1>3. CASE termination = "none" /\ Rotates
    BY <1>1, <1>2, <1>3, TableAfter
  <1>4. CASE Ends
    <2>1. PICK regs \in Cpu : threads' = [threads EXCEPT ![current] = Ended(regs)]
      BY <1>4 DEF Ends, FinishAndSchedule
    <2> QED  BY <1>1, <1>2, <1>4, <2>1, TableAfter DEF Ends
  <1>5. CASE CreateThread
    <2>1. PICK new : threads' = Append(threads, new)
      BY <1>5 DEF CreateThread
    <2> QED  BY <1>1, <2>1, AppendProperties DEF TypeOK
  <1>6. CASE ExitProcess
    BY <1>6 DEF ExitProcess, EndsAlive, Runnable
  <1> QED  BY <1>3, <1>4, <1>5, <1>6 DEF ThreadStep

\* However threads end, the record of one that has ended is final: nothing
\* saves registers into it or ends it once more (finish_current_thread,
\* terminate_all_threads).
THEOREM EndsAreFinal == Spec => EndedForGood
  <1>1. ThreadInv /\ [Next]_vars
          => [\A t \in 1..Len(threads) :
                threads[t].state # "runnable" => threads'[t] = threads[t]]_vars
    BY NextThreadStep, StepEndsForGood
  <1> QED  BY <1>1, ThreadCorrect, PTL DEF Spec, EndedForGood

-----------------------------------------------------------------------------
(* Turns: nobody is overtaken *)

\* On the way round from t to c, c included, one passes u.
Between(t, u, c) == (t < u /\ u <= c) \/ (c < t /\ (t < u \/ u <= c))

\* The threads that had a turn since t ran are those between t and the one
\* that runs: a new thread is put in behind the last.
TurnInv ==
  /\ since[current] = {}
  /\ \A t \in Runnable(threads) \ {current} : \A u \in since[t] :
       u \in 1..Len(threads) /\ Between(t, u, current)

\* The nearest thread v after c, seen from one that still waits.
LEMMA NextIsNearest ==
  ASSUME NEW n \in Nat, NEW c \in 1..n, NEW v \in 1..n, NEW t \in 1..n, v # c, t # v,
         t # c => (IF v > c THEN v - c ELSE v + n - c) <= (IF t > c THEN t - c ELSE t + n - c)
  PROVE  /\ Between(t, v, v)
         /\ t # c => ~Between(t, v, c)
         /\ t # c => \A u \in 1..n : Between(t, u, c) => Between(t, u, v)
  BY DEF Between

LEMMA SwitchTurns ==
  ASSUME ThreadInv, TurnInv, NEW ths, NEW v, NEW regs, Len(ths) = Len(threads),
         IsNext(v, ths), SwitchTo(v, ths, regs),
         Runnable(threads) \ {current} \subseteq Runnable(ths)
  PROVE  /\ since'[v] = {} /\ current' = v
         /\ \A t \in Runnable(threads) \ {v} : \A u \in since'[t] :
              u \in 1..Len(threads) /\ Between(t, u, v)
         /\ v # current => \A t \in Runnable(threads) \ {current, v} : v \notin since[t]
  <1>1. /\ Len(threads) \in Nat /\ current \in 1..Len(threads) /\ v \in 1..Len(threads)
        /\ Runnable(threads) \subseteq 1..Len(threads) /\ Len(threads) <= MaxThreads
        /\ since \in [1..MaxThreads -> SUBSET (1..MaxThreads)] /\ MaxThreads \in Nat
    BY TableAfter, LimitsAssumption DEF ThreadInv, TypeOK, IsNext, Runnable
  <1>2. CASE v = current
    BY <1>1, <1>2 DEF SwitchTo, TurnInv
  <1>3. CASE v # current
    <2>1. /\ current' = v
          /\ since' = [u \in 1..MaxThreads |-> IF u = v THEN {} ELSE since[u] \cup {v}]
      BY <1>3 DEF SwitchTo
    <2>2. \A t \in Runnable(threads) \ {current} : Distance(v, ths) <= Distance(t, ths)
      BY DEF IsNext
    <2>3. ASSUME NEW t \in Runnable(threads) \ {v}
          PROVE  /\ Between(t, v, v)
                 /\ t # current => ~Between(t, v, current)
                 /\ t # current => \A u \in 1..Len(threads) : Between(t, u, current) => Between(t, u, v)
      <3>1. t # current => (IF v > current THEN v - current ELSE v + Len(threads) - current)
                             <= (IF t > current THEN t - current ELSE t + Len(threads) - current)
        BY <2>2 DEF Distance
      <3> QED  BY <1>1, <1>3, <3>1, NextIsNearest
    <2>4. ASSUME NEW t \in Runnable(threads) \ {v}, NEW u \in since'[t]
          PROVE  u \in 1..Len(threads) /\ Between(t, u, v)
      <3>1. since'[t] = since[t] \cup {v}
        BY <1>1, <2>1
      <3>2. CASE u = v
        BY <1>1, <2>3, <3>2
      <3>3. CASE u # v
        <4>1. u \in since[t]
          BY <2>4, <3>1, <3>3
        <4>2. t # current
          BY <4>1 DEF TurnInv
        <4> QED  BY <2>3, <4>1, <4>2 DEF TurnInv
      <3> QED  BY <3>2, <3>3
    <2>5. ASSUME NEW t \in Runnable(threads) \ {current, v} PROVE v \notin since[t]
      BY <2>3 DEF TurnInv
    <2>6. since'[v] = {}
      BY <1>1, <2>1
    <2> QED  BY <2>1, <2>4, <2>5, <2>6
  <1> QED  BY <1>2, <1>3

\* What NoOvertaking asks of a step.
Waits ==
  current' # current => \A t \in Runnable(threads) \ {current, current'} : current' \notin since[t]

LEMMA StepTurns == ASSUME ThreadInv, TurnInv, ThreadStep PROVE TurnInv' /\ Waits
  <1>1. TypeOK /\ Len(threads) \in Nat /\ current \in 1..Len(threads)
    BY TableAfter DEF ThreadInv
  <1>2. CASE UNCHANGED <<threads, current, since>>
    BY <1>2 DEF TurnInv, Waits, Runnable
  <1>3. CASE Rotates
    <2>1. PICK v : IsNext(v, threads) /\ SwitchTo(v, threads, cpu)
      BY <1>3 DEF Rotates
    <2>2. Len(threads') = Len(threads) /\ Runnable(threads') = Runnable(threads)
      BY <1>1, <1>3, TableAfter DEF Runnable
    <2> QED  BY <2>1, <2>2, SwitchTurns DEF TurnInv, Waits
  <1>4. CASE Ends
    <2>1. PICK regs \in Cpu : FinishAndSchedule(regs)
      BY <1>4 DEF Ends
    <2> DEFINE done == [threads EXCEPT ![current] = Ended(regs)]
    <2>2. /\ threads' = done
          /\ \/ \E v : IsNext(v, done) /\ SwitchTo(v, done, regs)
             \/ Runnable(done) = {} /\ UNCHANGED <<current, since>>
      BY <2>1 DEF FinishAndSchedule
    <2>3. Len(done) = Len(threads) /\ Runnable(done) = Runnable(threads) \ {current}
      BY <1>1, TableAfter
    <2> HIDE DEF done
    <2>4. CASE Runnable(done) = {} /\ UNCHANGED <<current, since>>
      BY <2>2, <2>4 DEF TurnInv, Waits
    <2>5. ASSUME NEW v, IsNext(v, done), SwitchTo(v, done, regs) PROVE TurnInv' /\ Waits
      BY <2>2, <2>3, <2>5, SwitchTurns DEF TurnInv, Waits
    <2> QED  BY <2>2, <2>4, <2>5
  <1>5. CASE CreateThread
    <2> DEFINE tid == Len(threads) + 1
    <2>1. /\ UNCHANGED current /\ since' = [since EXCEPT ![tid] = {}]
          /\ \E new : threads' = Append(threads, new)
      BY <1>5 DEF CreateThread
    <2>2. since \in [1..MaxThreads -> SUBSET (1..MaxThreads)] /\ tid \in 1..MaxThreads
      BY <1>1, <1>5, LimitsAssumption DEF TypeOK, CreateThread, RoomForThread
    <2>3. since'[tid] = {} /\ \A t \in 1..Len(threads) : since'[t] = since[t]
      BY <1>1, <2>1, <2>2, LimitsAssumption DEF TypeOK
    <2>4. Len(threads') = tid /\ \A t \in 1..Len(threads) : threads'[t] = threads[t]
      BY <1>1, <2>1, AppendProperties DEF TypeOK
    <2>5. \A t \in Runnable(threads') : t = tid \/ t \in Runnable(threads)
      BY <1>1, <2>4 DEF Runnable
    <2>6. Runnable(threads) \subseteq 1..Len(threads)
      BY DEF Runnable
    <2> HIDE DEF tid
    <2>7. \A u \in 1..Len(threads) : u \in 1..Len(threads')
      BY <1>1, <2>4 DEF tid
    <2> QED  BY <1>1, <2>1, <2>3, <2>5, <2>6, <2>7 DEF TurnInv, Waits
  <1>6. CASE ExitProcess
    <2>1. UNCHANGED <<current, since>> /\ Runnable(threads') = {}
      <3>1. /\ UNCHANGED <<current, since>>
            /\ threads' = [t \in 1..Len(threads) |->
                             IF t \in EndsAlive
                             THEN [state |-> "process_exit",
                                   cpu |-> IF t = current THEN cpu ELSE threads[t].cpu]
                             ELSE threads[t]]
        BY <1>6 DEF ExitProcess
      <3>2. \A t \in 1..Len(threads) : threads'[t].state # "runnable"
        BY <3>1 DEF EndsAlive, Runnable
      <3>3. Len(threads') = Len(threads)
        BY <1>1, <3>1
      <3> QED  BY <3>1, <3>2, <3>3 DEF Runnable
    <2> QED  BY <2>1 DEF TurnInv, Waits
  <1> QED  BY <1>2, <1>3, <1>4, <1>5, <1>6 DEF ThreadStep

\* A thread that waits is never overtaken by one that had its turn, however
\* many threads are made and end meanwhile, and whichever rotation falls due
\* (schedule_next_thread).
THEOREM TurnsAreFair == Spec => NoOvertaking
  <1>1. Init => TurnInv
    BY LimitsAssumption DEF Init, TurnInv, Runnable
  <1>2. ThreadInv /\ TurnInv /\ [Next]_vars => TurnInv'
    BY NextThreadStep, StepTurns
  <1>3. ThreadInv /\ TurnInv /\ [Next]_vars
          => [current' # current =>
                \A t \in Runnable(threads) \ {current, current'} : current' \notin since[t]]_vars
    BY NextThreadStep, StepTurns DEF Waits
  <1> QED  BY <1>1, <1>2, <1>3, ThreadCorrect, PTL DEF Spec, NoOvertaking

-----------------------------------------------------------------------------
(* Exceptions: a search visits no more handlers than it may *)

GoesOn(log, i) == log[i].outcome = "continued_search"

\* SearchBudget, of any log.
SearchesEnd(log) ==
  \A i \in 1..Len(log) :
    (\A k \in 0..(MaxSehDepth - 1) : i + k <= Len(log) /\ GoesOn(log, i + k))
    => i + MaxSehDepth > Len(log)

\* Every unbroken search at the end of the log is that of the pending exception
\* and as long as its depth says; a search that found no handler ended the run.
SearchDepthInv ==
  /\ SearchesEnd(exceptions)
  /\ termination = "none" /\ pending = NoPending /\ Len(exceptions) > 0
       => ~GoesOn(exceptions, Len(exceptions))
  /\ pending # NoPending =>
       \A j \in 1..Len(exceptions) :
         (\A k \in j..(Len(exceptions) - 1) : GoesOn(exceptions, k))
         => Len(exceptions) - j <= pending.depth

\* The log after the last event was closed.
LEMMA ClosedSearches ==
  ASSUME NEW log \in Seq(ExceptionEvent), NEW new \in Seq(ExceptionEvent), Len(new) = Len(log),
         \A i \in 1..(Len(log) - 1) : new[i] = log[i], SearchesEnd(log)
  PROVE  SearchesEnd(new)
  <1>1. Len(log) \in Nat
    OBVIOUS
  <1>2. ASSUME NEW i \in 1..Len(log), ~(i + MaxSehDepth > Len(log)),
               \A k \in 0..(MaxSehDepth - 1) : i + k <= Len(log) /\ GoesOn(new, i + k)
        PROVE  FALSE
    <2>1. \A k \in 0..(MaxSehDepth - 1) : i + k \in 1..(Len(log) - 1)
      BY <1>1, <1>2, LimitsAssumption
    <2>2. \A k \in 0..(MaxSehDepth - 1) : i + k <= Len(log) /\ GoesOn(log, i + k)
      BY <1>2, <2>1 DEF GoesOn
    <2>3. i + MaxSehDepth > Len(log)
      BY <2>2 DEF SearchesEnd
    <2> QED  BY <1>2, <2>3
  <1> QED  BY <1>2 DEF SearchesEnd

\* A log gets one more open event, after a search of at most d handlers.
LEMMA AppendedSearches ==
  ASSUME NEW log \in Seq(ExceptionEvent), NEW e, e.outcome = "dispatched", SearchesEnd(log),
         NEW d \in Nat, d < MaxSehDepth,
         \A j \in 1..Len(log) : (\A k \in j..Len(log) : GoesOn(log, k)) => Len(log) + 1 - j <= d
  PROVE  /\ SearchesEnd(Append(log, e))
         /\ \A j \in 1..(Len(log) + 1) :
              (\A k \in j..Len(log) : GoesOn(Append(log, e), k)) => Len(log) + 1 - j <= d
  <1> DEFINE new == Append(log, e)
             n == Len(log)
  <1>1. n \in Nat /\ Len(new) = n + 1 /\ new[n + 1] = e /\ \A i \in 1..n : new[i] = log[i]
    OBVIOUS
  <1>2. ~GoesOn(new, n + 1)
    BY <1>1 DEF GoesOn
  <1>3. \A i \in 1..n : GoesOn(new, i) <=> GoesOn(log, i)
    BY <1>1 DEF GoesOn
  <1> HIDE DEF new, n
  <1>4. ASSUME NEW j \in 1..(n + 1), \A k \in j..n : GoesOn(new, k)
        PROVE  n + 1 - j <= d
    <2>1. CASE j = n + 1
      BY <1>1, <2>1
    <2>2. CASE j # n + 1
      <3>1. j \in 1..n /\ \A k \in j..n : k \in 1..n
        BY <1>1, <2>2
      <3>2. \A k \in j..n : GoesOn(log, k)
        BY <1>3, <1>4, <3>1
      <3> QED  BY <3>1, <3>2 DEF n
    <2> QED  BY <2>1, <2>2
  <1>5. ASSUME NEW i \in 1..(n + 1),
               \A k \in 0..(MaxSehDepth - 1) : i + k <= n + 1 /\ GoesOn(new, i + k)
        PROVE  i + MaxSehDepth > n + 1
    <2>1. \A k \in 0..(MaxSehDepth - 1) : i + k \in 1..n
      <3> SUFFICES ASSUME NEW k \in 0..(MaxSehDepth - 1) PROVE i + k \in 1..n
        OBVIOUS
      <3>1. i + k # n + 1
        BY <1>2, <1>5
      <3> QED  BY <1>1, <1>5, <3>1, LimitsAssumption
    <2>2. \A k \in 0..(MaxSehDepth - 1) : i + k <= n /\ GoesOn(log, i + k)
      BY <1>3, <1>5, <2>1
    <2>3. i \in 1..n
      BY <1>1, <2>1, LimitsAssumption
    <2>4. i + MaxSehDepth > n
      BY <2>2, <2>3 DEF SearchesEnd, n
    <2>5. CASE i + MaxSehDepth = n + 1
      <3>1. \A k \in i..n : k - i \in 0..(MaxSehDepth - 1) /\ i + (k - i) = k
        BY <1>1, <2>3, <2>5, LimitsAssumption
      <3>2. \A k \in i..n : GoesOn(log, k)
        <4> SUFFICES ASSUME NEW k \in i..n PROVE GoesOn(log, k)
          OBVIOUS
        <4>1. GoesOn(log, i + (k - i))
          BY <2>2, <3>1
        <4> QED  BY <3>1, <4>1
      <3>3. n + 1 - i <= d
        BY <2>3, <3>2 DEF n
      <3> QED  BY <1>1, <2>3, <2>5, <3>3, LimitsAssumption
    <2> QED  BY <1>1, <2>3, <2>4, <2>5, LimitsAssumption
  <1> QED  BY <1>1, <1>4, <1>5 DEF SearchesEnd, n, new

\* begin_exception_handler after a search of p.depth handlers.
LEMMA BeginSearch ==
  ASSUME NEW p \in PendingException, NEW log \in Seq(ExceptionEvent), NEW regs,
         BeginHandler(p, log, regs), SearchesEnd(log),
         \A j \in 1..Len(log) : (\A k \in j..Len(log) : GoesOn(log, k)) => Len(log) + 1 - j <= p.depth
  PROVE  SearchDepthInv'
  <1>1. CASE exceptions' = log /\ pending' = NoPending /\ termination' = p.fallback
    <2>1. termination' # "none"
      BY <1>1 DEF PendingException, Fallbacks
    <2> QED  BY <1>1, <2>1 DEF SearchDepthInv
  <1>2. CASE /\ MayVisit(p)
             /\ \E e : e.outcome = "dispatched" /\ exceptions' = Append(log, e)
             /\ pending' = [p EXCEPT !.event = Len(log) + 1]
    <2>1. PICK e : e.outcome = "dispatched" /\ exceptions' = Append(log, e)
      BY <1>2
    <2>2. p.depth \in Nat /\ p.depth < MaxSehDepth /\ pending'.depth = p.depth
      BY <1>2 DEF MayVisit, PendingException
    <2>3. Len(exceptions') = Len(log) + 1 /\ Len(log) \in Nat
      BY <2>1
    <2>4. pending' # NoPending
      BY <1>2, <2>3, GuestAssumption DEF PendingException
    <2>5. /\ SearchesEnd(exceptions')
          /\ \A j \in 1..(Len(log) + 1) :
               (\A k \in j..Len(log) : GoesOn(exceptions', k)) => Len(log) + 1 - j <= p.depth
      BY <2>1, <2>2, AppendedSearches
    <2>6. Len(exceptions') - 1 = Len(log)
      BY <2>3
    <2> QED  BY <2>2, <2>3, <2>4, <2>5, <2>6 DEF SearchDepthInv
  <1> QED  BY <1>1, <1>2 DEF BeginHandler

LEMMA DispatchSearch ==
  ASSUME TypeOK, SearchDepthInv, termination = "none", NEW fallback \in Fallbacks, NEW regs,
         Dispatch(fallback, regs)
  PROVE  SearchDepthInv'
  <1>1. CASE pending # NoPending \/ Len(exceptions) >= MaxExceptions
    <2>1. termination' # "none" /\ UNCHANGED <<pending, exceptions>>
      BY <1>1 DEF Dispatch, Fallbacks
    <2> QED  BY <2>1 DEF SearchDepthInv
  <1>2. CASE ~(pending # NoPending \/ Len(exceptions) >= MaxExceptions)
    <2> DEFINE p == [depth |-> 0, fallback |-> fallback, event |-> 1,
                     vectored |-> IF vectored = <<>> THEN 0 ELSE 1,
                     frame |-> FirstFrame]
    <2>1. p \in PendingException /\ p.depth = 0
      BY DEF PendingException, FirstFrame
    <2>2. BeginHandler(p, exceptions, regs)
      BY <1>2 DEF Dispatch
    <2> HIDE DEF p
    <2>3. exceptions \in Seq(ExceptionEvent) /\ Len(exceptions) \in Nat
      BY DEF TypeOK
    <2>4. ASSUME NEW j \in 1..Len(exceptions), \A k \in j..Len(exceptions) : GoesOn(exceptions, k)
          PROVE  FALSE
      <3>1. Len(exceptions) \in j..Len(exceptions) /\ Len(exceptions) > 0
        BY <2>3
      <3> QED  BY <1>2, <2>4, <3>1 DEF SearchDepthInv
    <2> QED  BY <2>1, <2>2, <2>3, <2>4, BeginSearch DEF SearchDepthInv
  <1> QED  BY <1>1, <1>2

LEMMA ReturnSearch ==
  ASSUME ExceptionInv, SearchDepthInv, ContinueExecution \/ ContinueSearch \/ OtherDisposition
  PROVE  SearchDepthInv'
  <1>1. /\ pending # NoPending /\ pending \in PendingException
        /\ pending.event = Len(exceptions) /\ exceptions \in Seq(ExceptionEvent)
        /\ Len(exceptions) \in Nat
    BY DEF ContinueExecution, ContinueSearch, OtherDisposition, HandlerReturns, ExceptionInv, TypeOK
  <1>2. ASSUME NEW outcome \in {"continued_search", "continued_execution", "unhandled_disposition"}
        PROVE  /\ Closed(outcome) \in Seq(ExceptionEvent) /\ Len(Closed(outcome)) = Len(exceptions)
               /\ \A i \in 1..(Len(exceptions) - 1) : Closed(outcome)[i] = exceptions[i]
               /\ Len(exceptions) > 0 => Closed(outcome)[Len(exceptions)].outcome = outcome
               /\ SearchesEnd(Closed(outcome))
    <2>1. /\ Closed(outcome) \in Seq(ExceptionEvent) /\ Len(Closed(outcome)) = Len(exceptions)
          /\ \A i \in 1..Len(exceptions) :
               Closed(outcome)[i] = IF i = pending.event
                                    THEN [exceptions[i] EXCEPT !.outcome = outcome]
                                    ELSE exceptions[i]
      BY <1>1, ClosedType DEF ExceptionInv
    <2>2. ASSUME NEW i \in 1..(Len(exceptions) - 1) PROVE Closed(outcome)[i] = exceptions[i]
      <3>1. i \in 1..Len(exceptions) /\ i # pending.event
        BY <1>1
      <3> QED  BY <2>1, <3>1
    <2>3. ASSUME Len(exceptions) > 0 PROVE Closed(outcome)[Len(exceptions)].outcome = outcome
      <3>1. Len(exceptions) \in 1..Len(exceptions) /\ exceptions[Len(exceptions)] \in ExceptionEvent
        BY <1>1, <2>3, ElementOfSeq
      <3> QED  BY <1>1, <2>1, <3>1 DEF ExceptionEvent
    <2>4. SearchesEnd(Closed(outcome))
      BY <1>1, <2>1, <2>2, ClosedSearches DEF SearchDepthInv
    <2> QED  BY <2>1, <2>2, <2>3, <2>4
  <1>3. CASE ContinueExecution \/ OtherDisposition
    <2>1. PICK outcome \in {"continued_execution", "unhandled_disposition"} :
            exceptions' = Closed(outcome) /\ pending' = NoPending
      BY <1>3 DEF ContinueExecution, OtherDisposition
    <2>2. /\ Len(exceptions') = Len(exceptions) /\ SearchesEnd(exceptions')
          /\ Len(exceptions) > 0 => ~GoesOn(exceptions', Len(exceptions))
      BY <1>2, <2>1 DEF GoesOn
    <2> QED  BY <2>1, <2>2 DEF SearchDepthInv
  <1>4. CASE ContinueSearch
    <2> DEFINE log == Closed("continued_search")
    <2>1. PICK link \in {"frame", "end"} : BeginHandler(SearchOn(link), log, cpu)
      BY <1>4 DEF ContinueSearch
    <2>2. SearchOn(link) \in PendingException /\ SearchOn(link).depth = pending.depth + 1
      <3>1. /\ pending.depth + 1 \in Nat
            /\ (IF MoreVectored THEN pending.vectored + 1 ELSE 0) \in Nat
            /\ (IF MoreVectored THEN pending.frame
                ELSE IF pending.vectored # 0 THEN FirstFrame ELSE link) \in {"frame", "end"}
        BY <1>1 DEF PendingException, FirstFrame
      <3> QED  BY <1>1, <3>1 DEF SearchOn, PendingException
    <2>3. /\ log \in Seq(ExceptionEvent) /\ Len(log) = Len(exceptions) /\ SearchesEnd(log)
          /\ \A i \in 1..(Len(exceptions) - 1) : log[i] = exceptions[i]
      BY <1>2
    <2> HIDE DEF log
    <2>4. ASSUME NEW j \in 1..Len(log), \A k \in j..Len(log) : GoesOn(log, k)
          PROVE  Len(log) + 1 - j <= pending.depth + 1
      <3>1. \A k \in j..(Len(exceptions) - 1) : GoesOn(exceptions, k)
        BY <1>1, <2>3, <2>4 DEF GoesOn
      <3>2. Len(exceptions) - j <= pending.depth
        BY <1>1, <2>3, <3>1 DEF SearchDepthInv
      <3> QED  BY <1>1, <2>3, <3>2 DEF PendingException
    <2> QED  BY <2>1, <2>2, <2>3, <2>4, BeginSearch
  <1> QED  BY <1>3, <1>4

LEMMA SearchDepthNext == ThreadInv /\ ExceptionInv /\ SearchDepthInv /\ [Next]_vars => SearchDepthInv'
  <1> SUFFICES ASSUME ThreadInv, ExceptionInv, SearchDepthInv, [Next]_vars PROVE SearchDepthInv'
    OBVIOUS
  <1>1. ASSUME UNCHANGED <<pending, exceptions>>, termination' = "none" => termination = "none"
        PROVE  SearchDepthInv'
    BY <1>1 DEF SearchDepthInv
  <1>2. TypeOK /\ (pc = "body" => termination = "none")
    BY DEF ThreadInv, MayRun
  <1>3. CASE ContinueExecution \/ ContinueSearch \/ OtherDisposition
    BY <1>3, ReturnSearch
  <1>4. CASE RaiseException
    <2>1. "halted" \in Fallbacks /\ termination = "none"
      BY <1>2, <1>4 DEF Fallbacks, RaiseException, ApiCall, At
    <2> QED  BY <1>2, <1>4, <2>1, DispatchSearch DEF RaiseException
  <1>5. CASE FetchFault \/ InvalidInstruction \/ FaultingStep
    <2>1. /\ "memory_fault" \in Fallbacks /\ "illegal_instruction" \in Fallbacks
          /\ termination = "none"
      BY <1>2, <1>5 DEF Fallbacks, FetchFault, InvalidInstruction, FaultingStep, At
    <2> QED  BY <1>2, <1>5, <2>1, DispatchSearch DEF FetchFault, InvalidInstruction, FaultingStep
  <1>6. CASE UNCHANGED vars
    BY <1>1, <1>6 DEF vars
  <1>7. CASE Top \/ Finish
    BY <1>1, <1>7 DEF Top, Finish
  <1>8. CASE Returns \/ StrayReturn
    BY <1>1, <1>2, <1>8 DEF Returns, ThreadReturn, EntryReturn, TlsReturn, StrayReturn, At
  <1>9. CASE Step \/ RepeatedStep \/ Halt
    BY <1>1, <1>2, <1>9 DEF Step, RepeatedStep, Halt, At
  <1>10. CASE ApiLimit \/ ApiFault \/ PlainApi \/ CreateThread \/ ExitThread \/ ExitProcess
              \/ AddVectored \/ RemoveVectored
    BY <1>1, <1>2, <1>10 DEF ApiLimit, ApiFault, PlainApi, CreateThread, ExitThread, ExitProcess,
                             AddVectored, RemoveVectored, ApiCall, At
  <1> QED  BY <1>3, <1>4, <1>5, <1>6, <1>7, <1>8, <1>9, <1>10
           DEF Next, Handling, Calls, Instructions

\* However handlers are added and removed while a search goes on, and whatever
\* the chain of frames links to, an exception visits at most MaxSehDepth
\* handlers (begin_exception_handler).
THEOREM SearchesBounded == Spec => []SearchBudget
  <1>1. Init => SearchDepthInv
    BY DEF Init, SearchDepthInv, SearchesEnd
  <1>2. SearchDepthInv => SearchBudget
    BY DEF SearchDepthInv, SearchesEnd, SearchBudget, GoesOn
  <1> QED  BY <1>1, <1>2, SearchDepthNext, ThreadCorrect, ExceptionCorrect, PTL DEF Spec

-----------------------------------------------------------------------------
(* The thread log tells the fate of every thread *)

LogInv == ThreadInv /\ ThreadLogFaithful

\* What pushing `new` onto the log does when the limit drops nothing.
LEMMA LoggedWhole ==
  ASSUME TypeOK, NEW new \in Seq(ThreadEvent), Log(new), ~truncated'
  PROVE  /\ ~truncated
         /\ Len(events) \in Nat /\ Len(new) \in Nat
         /\ Len(events') = Len(events) + Len(new)
         /\ \A i \in 1..Len(events) : events'[i] = events[i]
         /\ \A k \in 1..Len(new) : events'[Len(events) + k] = new[k]
  <1> DEFINE all == events \o new
  <1>1. ~truncated /\ ~Dropped(events, new)
    BY DEF Log
  <1>2. /\ all \in Seq(ThreadEvent) /\ Len(all) = Len(events) + Len(new)
        /\ Len(events) \in Nat /\ Len(new) \in Nat
        /\ \A i \in 1..Len(events) : all[i] = events[i]
        /\ \A k \in 1..Len(new) : all[Len(events) + k] = new[k]
    <2>1. events \in Seq(ThreadEvent)
      BY DEF TypeOK
    <2>2. Len(events) \in Nat /\ Len(new) \in Nat
      BY <2>1, LenProperties
    <2>3. /\ all \in Seq(ThreadEvent) /\ Len(all) = Len(events) + Len(new)
          /\ \A i \in 1..(Len(events) + Len(new)) :
               all[i] = IF i <= Len(events) THEN events[i] ELSE new[i - Len(events)]
      BY <2>1, ConcatProperties
    <2> HIDE DEF all
    <2> QED  BY <2>2, <2>3
  <1>3. Len(all) <= MaxThreadEvents
    BY <1>1, <1>2, LimitsAssumption DEF Dropped
  <1>4. events' = SubSeq(all, 1, Len(all))
    BY <1>3 DEF Log, Recorded
  <1>5. SubSeq(all, 1, Len(all)) = all
    <2> HIDE DEF all
    <2>1. \A i \in 1..Len(all) : all[i] \in ThreadEvent
      BY <1>2, ElementOfSeq
    <2> QED  BY <1>2, <2>1, SubSeqProperties, SeqEqual
  <1> QED  BY <1>1, <1>2, <1>4, <1>5

LEMMA LoggedOne ==
  ASSUME TypeOK, NEW e \in ThreadEvent, Log(<<e>>), ~truncated'
  PROVE  /\ ~truncated
         /\ Len(events) \in Nat /\ Len(events') = Len(events) + 1
         /\ \A i \in 1..Len(events) : events'[i] = events[i]
         /\ events'[Len(events) + 1] = e
  <1> DEFINE new == <<e>>
  <1>1. new \in Seq(ThreadEvent) /\ Len(new) = 1 /\ new[1] = e /\ 1 \in 1..Len(new)
    OBVIOUS
  <1>2. Log(new)
    OBVIOUS
  <1> HIDE DEF new
  <1>3. /\ ~truncated /\ Len(events) \in Nat
        /\ Len(events') = Len(events) + Len(new)
        /\ \A i \in 1..Len(events) : events'[i] = events[i]
        /\ \A k \in 1..Len(new) : events'[Len(events) + k] = new[k]
    BY <1>1, <1>2, LoggedWhole, Zenon
  <1>4. ~truncated
    BY <1>3, Zenon
  <1> QED  BY <1>1, <1>3, <1>4

\* An extension that does not mention t leaves what is said of it.
LEMMA ToldAsBefore ==
  ASSUME NEW log, NEW more, NEW t, NEW state, Len(log) \in Nat, Len(more) \in Nat,
         Len(log) <= Len(more), \A i \in 1..Len(log) : more[i] = log[i],
         \A i \in 1..Len(more) : i > Len(log) => more[i].tid # t,
         TellsFate(log, t, state)
  PROVE  TellsFate(more, t, state)
  <1>1. \A i \in 1..Len(more) : more[i].tid = t => i \in 1..Len(log)
    OBVIOUS
  <1>2. \A op : Event(t, op).tid = t
    BY DEF Event
  <1>3. t # 1 => \E i \in 1..Len(more) : more[i] = Event(t, "created")
    BY DEF TellsFate
  <1>4. ASSUME NEW i \in 1..Len(more), more[i] = Event(t, "created")
        PROVE  t # 1 /\ \A j \in 1..(i - 1) : more[j].tid # t
    <2>1. i \in 1..Len(log) /\ log[i] = Event(t, "created")
      BY <1>1, <1>2, <1>4
    <2>2. t # 1 /\ \A j \in 1..(i - 1) : log[j].tid # t
      BY <2>1 DEF TellsFate
    <2> QED  BY <2>1, <2>2
  <1>5. ASSUME state = "runnable", NEW i \in 1..Len(more), more[i].tid = t
        PROVE  more[i].op \notin Finishes
    BY <1>1, <1>5 DEF TellsFate
  <1>6. ASSUME state # "runnable"
        PROVE  \E i \in 1..Len(more) :
                 /\ more[i] = Event(t, state)
                 /\ \A j \in 1..Len(more) \ {i} :
                      more[j].tid = t => j < i /\ more[j].op \notin Finishes
    <2>1. PICK i \in 1..Len(log) :
             /\ log[i] = Event(t, state)
             /\ \A j \in 1..Len(log) \ {i} :
                  log[j].tid = t => j < i /\ log[j].op \notin Finishes
      BY <1>6 DEF TellsFate
    <2>2. i \in 1..Len(more) /\ more[i] = Event(t, state)
      BY <2>1
    <2>3. \A j \in 1..Len(more) \ {i} :
            more[j].tid = t => j < i /\ more[j].op \notin Finishes
      BY <1>1, <2>1
    <2> QED  BY <2>2, <2>3
  <1> QED  BY <1>3, <1>4, <1>5, <1>6 DEF TellsFate

\* An extension whose only event of t says that this thread, alive so far, is
\* scheduled or has ended.
LEMMA ToldOneMore ==
  ASSUME NEW log, NEW more, NEW t, NEW op \in {"scheduled", "exited", "process_exit"},
         Len(log) \in Nat, Len(more) \in Nat,
         \A i \in 1..Len(log) : more[i] = log[i],
         NEW k \in 1..Len(more), k > Len(log), more[k] = Event(t, op),
         \A i \in 1..Len(more) : i > Len(log) /\ i # k => more[i].tid # t,
         TellsFate(log, t, "runnable")
  PROVE  TellsFate(more, t, IF op = "scheduled" THEN "runnable" ELSE op)
  <1>1. \A i \in 1..Len(more) : more[i].tid = t => i \in 1..Len(log) \/ i = k
    OBVIOUS
  <1>2. \A o : Event(t, o).tid = t /\ Event(t, o).op = o
    BY DEF Event
  <1>3. t # 1 => \E i \in 1..Len(more) : more[i] = Event(t, "created")
    BY DEF TellsFate
  <1>4. ASSUME NEW i \in 1..Len(more), more[i] = Event(t, "created")
        PROVE  t # 1 /\ \A j \in 1..(i - 1) : more[j].tid # t
    <2>1. i # k
      BY <1>2, <1>4
    <2>2. i \in 1..Len(log) /\ log[i] = Event(t, "created")
      BY <1>1, <1>2, <1>4, <2>1
    <2>3. t # 1 /\ \A j \in 1..(i - 1) : log[j].tid # t
      BY <2>2 DEF TellsFate
    <2> QED  BY <2>2, <2>3
  <1>5. \A i \in 1..Len(log) : more[i].tid = t => more[i].op \notin Finishes
    BY DEF TellsFate
  <1>6. CASE op = "scheduled"
    <2>1. \A i \in 1..Len(more) : more[i].tid = t => more[i].op \notin Finishes
      BY <1>1, <1>2, <1>5, <1>6 DEF Finishes
    <2> QED  BY <1>3, <1>4, <1>6, <2>1 DEF TellsFate
  <1>7. CASE op # "scheduled"
    <2>1. \A j \in 1..Len(more) \ {k} :
            more[j].tid = t => j < k /\ more[j].op \notin Finishes
      BY <1>1, <1>5
    <2>2. op # "runnable"
      OBVIOUS
    <2> QED  BY <1>3, <1>4, <1>7, <2>1, <2>2 DEF TellsFate
  <1> QED  BY <1>6, <1>7

\* The switch a rotation reports.
LEMMA LogRotation ==
  ASSUME LogInv, Top, RotationDue, ~truncated'
  PROVE  ThreadLogFaithful'
  <1>1. PICK t \in Runnable(threads) :
          Log(IF t = current THEN <<>> ELSE <<Event(t, "scheduled")>>)
    BY DEF Top
  <1>2. TypeOK
    BY DEF LogInv, ThreadInv
  <1>3. Rotates
    BY DEF Top, Rotates
  <1>4. /\ Len(threads') = Len(threads) /\ Len(threads) \in Nat
        /\ \A u \in 1..Len(threads) : threads'[u].state = threads[u].state
    BY <1>2, <1>3, TableAfter
  <1>5. t \in 1..Len(threads) /\ threads[t].state = "runnable" /\ t \in 1..MaxThreads
    BY <1>2, LimitsAssumption DEF Runnable, TypeOK
  <1>6. CASE t = current
    <2>1. /\ ~truncated /\ Len(events) \in Nat /\ Len(events') = Len(events)
          /\ \A i \in 1..Len(events) : events'[i] = events[i]
      <3>1. Log(<<>>) /\ <<>> \in Seq(ThreadEvent) /\ Len(<<>>) = 0
        BY <1>1, <1>6
      <3> DEFINE new == <<>>
      <3>2. Log(new) /\ new \in Seq(ThreadEvent) /\ Len(new) = 0
        BY <3>1
      <3> HIDE DEF new
      <3>3. /\ ~truncated /\ Len(events) \in Nat
            /\ Len(events') = Len(events) + Len(new)
            /\ \A i \in 1..Len(events) : events'[i] = events[i]
        BY <1>2, <3>2, LoggedWhole, Zenon
      <3>4. ~truncated
        BY <3>3, Zenon
      <3> QED  BY <3>2, <3>3, <3>4
    <2>2. \A u \in 1..Len(threads) : TellsFate(events', u, threads[u].state)
      BY <2>1, ToldAsBefore DEF LogInv, ThreadLogFaithful
    <2> QED  BY <1>4, <2>1, <2>2 DEF LogInv, ThreadLogFaithful
  <1>7. CASE t # current
    <2>1. Event(t, "scheduled") \in ThreadEvent
      BY <1>5 DEF Event, ThreadEvent
    <2>2. Log(<<Event(t, "scheduled")>>)
      BY <1>1, <1>7
    <2>3. /\ ~truncated /\ Len(events) \in Nat /\ Len(events') = Len(events) + 1
          /\ \A i \in 1..Len(events) : events'[i] = events[i]
          /\ events'[Len(events) + 1] = Event(t, "scheduled")
      BY <1>2, <2>1, <2>2, LoggedOne, Zenon
    <2>4. Event(t, "scheduled").tid = t
      BY DEF Event
    <2>5. \A u \in 1..Len(threads) : TellsFate(events', u, threads[u].state)
      <3>1. TellsFate(events', t, "runnable")
        <4>1. TellsFate(events, t, "runnable")
          BY <1>5, <2>3 DEF LogInv, ThreadLogFaithful
        <4> DEFINE k == Len(events) + 1
        <4>2. /\ k \in 1..Len(events') /\ k > Len(events)
              /\ events'[k] = Event(t, "scheduled")
              /\ \A i \in 1..Len(events') : i > Len(events) /\ i # k => events'[i].tid # t
              /\ Len(events') \in Nat
          BY <2>3
        <4> HIDE DEF k
        <4>3. TellsFate(events', t, IF "scheduled" = "scheduled" THEN "runnable" ELSE "scheduled")
          BY <2>3, <4>1, <4>2, ToldOneMore
        <4> QED  BY <4>3
      <3>2. ASSUME NEW u \in 1..Len(threads), u # t
            PROVE  TellsFate(events', u, threads[u].state)
        <4>1. \A i \in 1..Len(events') : i > Len(events) => events'[i].tid # u
          BY <2>3, <2>4, <3>2
        <4> QED  BY <2>3, <4>1, ToldAsBefore DEF LogInv, ThreadLogFaithful
      <3> QED  BY <1>5, <3>1, <3>2
    <2>6. \A i \in 1..Len(events') : events'[i].tid \in 1..Len(threads)
      BY <1>5, <2>3, <2>4 DEF LogInv, ThreadLogFaithful
    <2> QED  BY <1>4, <2>5, <2>6 DEF ThreadLogFaithful
  <1> QED  BY <1>6, <1>7

\* A thread that leaves the CPU for good.
LEMMA LogEnd ==
  ASSUME LogInv, termination = "none", NEW regs \in Cpu, FinishAndSchedule(regs), ~truncated'
  PROVE  ThreadLogFaithful'
  <1> DEFINE done == [threads EXCEPT ![current] = Ended(regs)]
  <1>1. TypeOK
    BY DEF LogInv, ThreadInv
  <1>2. /\ Len(threads) \in Nat /\ current \in 1..Len(threads) /\ current \in 1..MaxThreads
        /\ Len(done) = Len(threads)
        /\ \A t \in 1..Len(threads) \ {current} : done[t] = threads[t]
    BY <1>1, TableAfter, LimitsAssumption DEF TypeOK
  <1>3. done[current].state = "exited"
    BY <1>1, TableAfter DEF Ended
  <1>4. threads' = done /\ Log(<<Event(current, "exited")>>)
    BY DEF FinishAndSchedule
  <1>5. Event(current, "exited") \in ThreadEvent
    BY <1>2 DEF Event, ThreadEvent
  <1> HIDE DEF done
  <1>6. /\ ~truncated /\ Len(events) \in Nat /\ Len(events') = Len(events) + 1
        /\ \A i \in 1..Len(events) : events'[i] = events[i]
        /\ events'[Len(events) + 1] = Event(current, "exited")
    BY <1>1, <1>4, <1>5, LoggedOne, Zenon
  <1>7. Event(current, "exited").tid = current
    BY DEF Event
  <1>8. TellsFate(events', current, "exited")
    <2>1. TellsFate(events, current, "runnable")
      BY <1>2, <1>6 DEF LogInv, ThreadLogFaithful, ThreadInv, CurrentIsRunnable, Runnable
    <2> DEFINE k == Len(events) + 1
    <2>2. /\ k \in 1..Len(events') /\ k > Len(events) /\ events'[k] = Event(current, "exited")
          /\ \A i \in 1..Len(events') : i > Len(events) /\ i # k => events'[i].tid # current
      BY <1>6
    <2> HIDE DEF k
    <2>3. TellsFate(events', current, IF "exited" = "scheduled" THEN "runnable" ELSE "exited")
      BY <1>6, <2>1, <2>2, ToldOneMore
    <2> QED  BY <2>3
  <1>9. ASSUME NEW u \in 1..Len(threads), u # current
        PROVE  TellsFate(events', u, threads[u].state)
    <2>1. \A i \in 1..Len(events') : i > Len(events) => events'[i].tid # u
      BY <1>6, <1>7, <1>9
    <2> QED  BY <1>6, <2>1, ToldAsBefore DEF LogInv, ThreadLogFaithful
  <1>10. \A i \in 1..Len(events') : events'[i].tid \in 1..Len(threads)
    BY <1>2, <1>6, <1>7 DEF LogInv, ThreadLogFaithful
  <1> QED  BY <1>2, <1>3, <1>4, <1>8, <1>9, <1>10 DEF ThreadLogFaithful

\* A new thread: nothing was said of it before.
LEMMA LogCreation ==
  ASSUME LogInv, CreateThread, ~truncated'
  PROVE  ThreadLogFaithful'
  <1> DEFINE tid == Len(threads) + 1
  <1>1. TypeOK /\ Len(threads) \in Nat /\ tid # 1
    BY DEF LogInv, ThreadInv, TypeOK
  <1>2. Log(<<Event(tid, "created")>>)
    BY DEF CreateThread
  <1>3. tid \in 1..MaxThreads
    BY <1>1, LimitsAssumption DEF CreateThread, RoomForThread
  <1>4. Event(tid, "created") \in ThreadEvent
    BY <1>3 DEF Event, ThreadEvent
  <1>5. /\ Len(threads') = tid /\ threads'[tid].state = "runnable"
        /\ \A u \in 1..Len(threads) : threads'[u] = threads[u]
    BY <1>1, AppendProperties DEF CreateThread, TypeOK
  <1> HIDE DEF tid
  <1>6. /\ ~truncated /\ Len(events) \in Nat /\ Len(events') = Len(events) + 1
        /\ \A i \in 1..Len(events) : events'[i] = events[i]
        /\ events'[Len(events) + 1] = Event(tid, "created")
    BY <1>1, <1>2, <1>4, LoggedOne, Zenon
  <1>7. \A op : Event(tid, op).tid = tid /\ Event(tid, op).op = op
    BY DEF Event
  <1>8. \A i \in 1..Len(events) : events[i].tid \in 1..Len(threads)
    BY <1>6 DEF LogInv, ThreadLogFaithful
  <1>9. tid \notin 1..Len(threads)
    BY <1>1 DEF tid
  <1>10. TellsFate(events', tid, "runnable")
    <2>1. \A i \in 1..Len(events) : events'[i].tid # tid
      BY <1>6, <1>8, <1>9
    <2>2. \A i \in 1..Len(events') : events'[i].tid = tid => i = Len(events) + 1
      BY <1>6, <2>1
    <2>3. events'[Len(events) + 1].op \notin Finishes
      BY <1>6, <1>7 DEF Finishes
    <2>4. \A i \in 1..Len(events') : events'[i].tid = tid => events'[i].op \notin Finishes
      BY <2>2, <2>3
    <2>5. ASSUME NEW i \in 1..Len(events'), events'[i] = Event(tid, "created")
          PROVE  tid # 1 /\ \A j \in 1..(i - 1) : events'[j].tid # tid
      BY <1>1, <1>6, <1>7, <2>1, <2>2, <2>5
    <2>6. Len(events) + 1 \in 1..Len(events')
      BY <1>6
    <2> QED  BY <1>6, <2>4, <2>5, <2>6 DEF TellsFate
  <1>11. ASSUME NEW u \in 1..Len(threads)
         PROVE  TellsFate(events', u, threads[u].state)
    <2>1. \A i \in 1..Len(events') : i > Len(events) => events'[i].tid # u
      BY <1>6, <1>7, <1>9
    <2> QED  BY <1>6, <2>1, ToldAsBefore DEF LogInv, ThreadLogFaithful
  <1>12. \A i \in 1..Len(events') : events'[i].tid \in 1..tid
    BY <1>1, <1>6, <1>7, <1>8 DEF tid
  <1>13. \A u \in 1..tid : u \in 1..Len(threads) \/ u = tid
    BY <1>1 DEF tid
  <1> QED  BY <1>5, <1>10, <1>11, <1>12, <1>13 DEF ThreadLogFaithful

\* A list of all the n threads of a set in the order of the table names each
\* of them once.
Increasing(order, n) == \A i, j \in 1..n : i < j => order[i] < order[j]
ListedOnce(t, order, n) ==
  \E k \in 1..n : order[k] = t /\ \A i \in 1..n \ {k} : order[i] # t

LEMMA AllAreListed ==
  ASSUME NEW S, IsFiniteSet(S), NEW n \in Nat, n = Cardinality(S),
         NEW order, order \in [1..n -> S], S \subseteq Nat, Increasing(order, n),
         NEW t \in S
  PROVE  ListedOnce(t, order, n)
  <1>1. \A i, j \in 1..n : i # j => order[i] # order[j]
    <2>1. \A i \in 1..n : order[i] \in Nat
      OBVIOUS
    <2>2. \A i, j \in 1..n : i # j => i < j \/ j < i
      OBVIOUS
    <2> QED  BY <2>1, <2>2 DEF Increasing
  <1>2. order \in Injection(1..n, S)
    BY <1>1 DEF Injection, IsInjective
  <1>3. IsFiniteSet(1..n) /\ Cardinality(1..n) = n
    BY FS_Interval
  <1>4. order \in Surjection(1..n, S)
    BY <1>2, <1>3, FS_Injection
  <1>5. \E k \in 1..n : order[k] = t
    BY <1>4 DEF Surjection
  <1> QED  BY <1>1, <1>5 DEF ListedOnce

\* The end of the process is said of each thread that was alive, once.
LEMMA LogProcessEnd ==
  ASSUME LogInv, ExitProcess, ~truncated'
  PROVE  ThreadLogFaithful'
  <1>1. PICK order \in [1..Cardinality(EndsAlive) -> EndsAlive] :
          /\ \A i, j \in DOMAIN order : i < j => order[i] < order[j]
          /\ Log([i \in DOMAIN order |-> Event(order[i], "process_exit")])
    BY DEF ExitProcess
  <1>2. TypeOK /\ Len(threads) \in Nat
    BY DEF LogInv, ThreadInv, TypeOK
  <1>3. IsFiniteSet(EndsAlive) /\ EndsAlive \subseteq 1..Len(threads)
    <2>1. IsFiniteSet(1..Len(threads)) /\ EndsAlive \subseteq 1..Len(threads)
      BY <1>2, FS_Interval DEF EndsAlive, Runnable
    <2> QED  BY <2>1, FS_Subset
  <1>4. PICK n \in Nat : n = Cardinality(EndsAlive)
    BY <1>3, FS_CardinalityType
  <1> DEFINE new == [i \in 1..n |-> Event(order[i], "process_exit")]
  <1>5. /\ new \in Seq(ThreadEvent) /\ Len(new) = n
        /\ \A k \in 1..n : new[k] = Event(order[k], "process_exit")
        /\ \A k \in 1..n : order[k] \in 1..Len(threads)
    <2>1. \A k \in 1..n : order[k] \in 1..Len(threads)
      BY <1>3, <1>4
    <2>2. 1..Len(threads) \subseteq 1..MaxThreads
      BY <1>2, LimitsAssumption DEF TypeOK
    <2>3. \A k \in 1..n : Event(order[k], "process_exit") \in ThreadEvent
      BY <2>1, <2>2 DEF Event, ThreadEvent
    <2> QED  BY <2>1, <2>3, IsASeq, LenProperties
  <1>6. Log(new)
    BY <1>1, <1>4
  <1> HIDE DEF new
  <1>7. /\ ~truncated /\ Len(events) \in Nat /\ Len(events') = Len(events) + n
        /\ \A i \in 1..Len(events) : events'[i] = events[i]
        /\ \A k \in 1..n : events'[Len(events) + k] = Event(order[k], "process_exit")
    BY <1>2, <1>5, <1>6, LoggedWhole
  <1>8. \A t : Event(t, "process_exit").tid = t
    BY DEF Event
  <1>9. \A i \in 1..Len(events') :
          i > Len(events) =>
            \E k \in 1..n : i = Len(events) + k /\ events'[i].tid = order[k]
    <2> SUFFICES ASSUME NEW i \in 1..Len(events'), i > Len(events)
                 PROVE  \E k \in 1..n : i = Len(events) + k /\ events'[i].tid = order[k]
      OBVIOUS
    <2>1. i - Len(events) \in 1..n /\ i = Len(events) + (i - Len(events))
      BY <1>7
    <2> QED  BY <1>7, <1>8, <2>1
  <1>10. /\ Len(threads') = Len(threads)
         /\ \A t \in 1..Len(threads) :
              threads'[t].state = IF t \in EndsAlive THEN "process_exit" ELSE threads[t].state
    <2>1. threads' = [t \in 1..Len(threads) |->
                        IF t \in EndsAlive
                        THEN [state |-> "process_exit",
                              cpu |-> IF t = current THEN cpu ELSE threads[t].cpu]
                        ELSE threads[t]]
      BY DEF ExitProcess
    <2>2. TypeOK'
      BY <1>2, TypeCalls
    <2>3. Len(threads') = Len(threads)
      BY <1>2, <2>1, <2>2, LenProperties DEF TypeOK
    <2> QED  BY <2>1, <2>3
  <1>11. ASSUME NEW t \in EndsAlive
         PROVE  TellsFate(events', t, "process_exit")
    <2>1. PICK m \in 1..n : order[m] = t /\ \A i \in 1..n \ {m} : order[i] # t
      <3>1. EndsAlive \subseteq Nat
        BY <1>3
      <3> QED
        <4> DEFINE S == EndsAlive
        <4>1. /\ IsFiniteSet(S) /\ n = Cardinality(S) /\ order \in [1..n -> S]
              /\ S \subseteq Nat /\ t \in S
              /\ Increasing(order, n)
          BY <1>1, <1>3, <1>4, <3>1 DEF Increasing
        <4> HIDE DEF S
        <4>2. ListedOnce(t, order, n)
          BY <4>1, AllAreListed
        <4> QED  BY <4>2 DEF ListedOnce
    <2>2. TellsFate(events, t, "runnable")
      BY <1>3, <1>7 DEF LogInv, ThreadLogFaithful, EndsAlive, Runnable
    <2> DEFINE k == Len(events) + m
    <2>3. /\ k \in 1..Len(events') /\ k > Len(events) /\ events'[k] = Event(t, "process_exit")
          /\ \A i \in 1..Len(events') : i > Len(events) /\ i # k => events'[i].tid # t
      <3>1. k \in 1..Len(events') /\ k > Len(events) /\ events'[k] = Event(t, "process_exit")
        BY <1>7, <2>1
      <3>2. ASSUME NEW i \in 1..Len(events'), i > Len(events), i # k
            PROVE  events'[i].tid # t
        <4>1. PICK j \in 1..n : i = Len(events) + j /\ events'[i].tid = order[j]
          BY <1>9, <3>2
        <4>2. j # m
          BY <3>2, <4>1
        <4> QED  BY <2>1, <4>1, <4>2
      <3> QED  BY <3>1, <3>2
    <2>4. Len(events') \in Nat
      BY <1>7
    <2> HIDE DEF k
    <2>5. TellsFate(events', t,
                    IF "process_exit" = "scheduled" THEN "runnable" ELSE "process_exit")
      BY <1>7, <2>2, <2>3, <2>4, ToldOneMore
    <2> QED  BY <2>5
  <1>12. ASSUME NEW t \in 1..Len(threads), t \notin EndsAlive
         PROVE  TellsFate(events', t, threads[t].state)
    <2>1. \A i \in 1..Len(events') : i > Len(events) => events'[i].tid # t
      BY <1>1, <1>4, <1>9, <1>12
    <2>2. TellsFate(events, t, threads[t].state) /\ Len(events') \in Nat
          /\ Len(events) <= Len(events')
      BY <1>7 DEF LogInv, ThreadLogFaithful
    <2> QED  BY <1>7, <2>1, <2>2, ToldAsBefore
  <1>13. \A i \in 1..Len(events') : events'[i].tid \in 1..Len(threads)
    <2> SUFFICES ASSUME NEW i \in 1..Len(events') PROVE events'[i].tid \in 1..Len(threads)
      OBVIOUS
    <2>1. CASE i > Len(events)
      BY <1>5, <1>9, <2>1
    <2>2. CASE ~(i > Len(events))
      BY <1>7, <2>2 DEF LogInv, ThreadLogFaithful
    <2> QED  BY <2>1, <2>2
  <1> QED  BY <1>10, <1>11, <1>12, <1>13 DEF ThreadLogFaithful

LEMMA LogNext == LogInv /\ [Next]_vars => LogInv'
  <1> SUFFICES ASSUME LogInv, [Next]_vars PROVE LogInv'
    OBVIOUS
  <1>1. ThreadInv' /\ ThreadInv
    BY ThreadNext DEF LogInv
  <1>2. CASE truncated'
    BY <1>1, <1>2 DEF LogInv, ThreadLogFaithful
  <1>3. CASE ~truncated' /\ UNCHANGED <<threads, events, truncated>>
    BY <1>1, <1>3 DEF LogInv, ThreadLogFaithful
  <1>4. CASE ~truncated' /\ Top /\ RotationDue
    BY <1>1, <1>4, LogRotation DEF LogInv
  <1>5. CASE ~truncated' /\ Ends
    BY <1>1, <1>5, LogEnd DEF LogInv, Ends
  <1>6. CASE ~truncated' /\ CreateThread
    BY <1>1, <1>6, LogCreation DEF LogInv
  <1>7. CASE ~truncated' /\ ExitProcess
    BY <1>1, <1>7, LogProcessEnd DEF LogInv
  <1>8. \/ truncated' = TRUE \/ UNCHANGED <<threads, events, truncated>>
        \/ Top /\ RotationDue
        \/ Ends \/ CreateThread \/ ExitProcess
    <2>1. CASE Top
      BY <2>1, Zenon DEF Top, sched
    <2>2. CASE ThreadReturn \/ ExitThread
      <3>2. CASE ThreadReturn
        <4>1. cpu \in Cpu /\ termination = "none"
          BY <1>1, <3>2 DEF ThreadReturn, At, ThreadInv, TypeOK, MayRun
        <4> QED  BY <3>2, <4>1 DEF ThreadReturn, Ends
      <3>3. CASE ExitThread
        <4>1. PICK ret \in Targets : FinishAndSchedule(Returned(ret))
          BY <3>3 DEF ExitThread
        <4>2. Returned(ret) \in Cpu /\ termination = "none"
          BY <1>1, <3>3, ReturnedType DEF ExitThread, ApiCall, At, ThreadInv, MayRun
        <4> QED  BY <4>1, <4>2 DEF Ends
      <3> QED  BY <2>2, <3>2, <3>3
    <2>3. CASE UNCHANGED vars \/ Finish \/ EntryReturn \/ TlsReturn
      BY <2>3 DEF vars, sched, Finish, EntryReturn, TlsReturn
    <2>4. CASE Handling
      BY <2>4 DEF Handling, StrayReturn, ContinueExecution, ContinueSearch, OtherDisposition,
                  sched
    <2>5. CASE Instructions
      BY <2>5 DEF Instructions, FetchFault, InvalidInstruction, Step, RepeatedStep,
                  FaultingStep, Halt, sched
    <2>6. CASE ApiLimit \/ ApiFault \/ PlainApi \/ RaiseException \/ AddVectored
               \/ RemoveVectored
      BY <2>6 DEF ApiLimit, ApiFault, PlainApi, RaiseException, AddVectored, RemoveVectored,
                  sched
    <2> QED  BY <2>1, <2>2, <2>3, <2>4, <2>5, <2>6 DEF Next, Returns, Calls
  <1> QED  BY <1>2, <1>3, <1>4, <1>5, <1>6, <1>7, <1>8, Zenon

LEMMA LogInit == Init => LogInv
  <1> SUFFICES ASSUME Init PROVE LogInv
    OBVIOUS
  <1>1. ThreadInv /\ TypeOK
    BY ThreadInit, TypeInit
  <1>2. Len(events) = 0 /\ Len(threads) = 1 /\ threads[1].state = "runnable"
    BY DEF Init
  <1>3. TellsFate(events, 1, "runnable")
    BY <1>2 DEF TellsFate
  <1> QED  BY <1>1, <1>2, <1>3 DEF LogInv, ThreadLogFaithful

\* A report that is not marked truncated tells the whole life of every guest
\* thread (record_thread_event, create_thread, finish_current_thread,
\* terminate_all_threads): what was dropped at the limit is never passed over.
THEOREM ThreadLogCorrect == Spec => []ThreadLogFaithful
  <1>1. LogInv => ThreadLogFaithful
    BY DEF LogInv
  <1> QED  BY <1>1, LogInit, LogNext, PTL DEF Spec

=============================================================================
