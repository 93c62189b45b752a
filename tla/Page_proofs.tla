----------------------------- MODULE Page_proofs -----------------------------
(***************************************************************************)
(* What the page shows for any number of files, hex reads, runs and rules: *)
(* a dynamic report only for the file that is open, and bytes only of the  *)
(* file whose report asked for them.                                       *)
(***************************************************************************)
EXTENDS Page, SequenceTheorems, TLAPS

-----------------------------------------------------------------------------
(* Dynamic reports *)

DynamicInv ==
  /\ DynamicOfOpenFile
  /\ runFile \in [Runs -> Files \cup {NoFile}] /\ current \in Files \cup {NoFile}
  /\ dynamicRun \in Runs \cup {NoRun}
  /\ dynamicRun # NoRun => runFile[dynamicRun] = current

LEMMA StaticDynamicInv == DynamicInv /\ StaticSteps => DynamicInv'
  <1> SUFFICES ASSUME DynamicInv, StaticSteps PROVE DynamicInv'
    OBVIOUS
  <1>1. ASSUME NEW f \in Files, InspectFile(f) PROVE DynamicInv'
    BY <1>1 DEF InspectFile, ResetDynamic, DynamicInv, DynamicOfOpenFile
  <1>2. CASE CloseSample
    BY <1>2 DEF CloseSample, ResetDynamic, DynamicInv, DynamicOfOpenFile
  <1>3. CASE UNCHANGED <<current, dynamicPage>>
    BY <1>3 DEF dynamicPage, DynamicInv, DynamicOfOpenFile
  <1> QED
    BY <1>1, <1>2, <1>3
    DEF StaticSteps, ChooseFile, FetchDemo, DemoArrives, OpeningFails, FileRead, AnalysisTimeout,
        AnalyzerAnswers, AnalyzerCrashes, StaticReset, ShowHex, staticPage

LEMMA RunsDynamicInv == DynamicInv /\ DynamicSteps => DynamicInv'
  <1> SUFFICES ASSUME DynamicInv, DynamicSteps PROVE DynamicInv'
    OBVIOUS
  <1>1. ASSUME NEW d \in Runs, RunDynamic(d) PROVE DynamicInv'
    BY <1>1 DEF RunDynamic, staticPage, DynamicInv, DynamicOfOpenFile
  <1>2. ASSUME NEW d \in Runs, RunRead(d) PROVE DynamicInv'
    BY <1>2 DEF RunRead, staticPage, DynamicInv, DynamicOfOpenFile
  <1>3. ASSUME NEW d \in Runs, RunSettles(d) PROVE DynamicInv'
    <2>1. dynamicReport' \in {dynamicReport, runFile[d]} /\ (dynamicReport' # dynamicReport => d = dynamicRun)
      BY <1>3 DEF RunSettles, IsCurrentRun
    <2> QED  BY <1>3, <2>1, PageAssumption DEF RunSettles, staticPage, DynamicInv, DynamicOfOpenFile
  <1>4. CASE CancelDynamic \/ SelectDynamicProfile
    BY <1>4 DEF CancelDynamic, SelectDynamicProfile, staticPage, DynamicInv, DynamicOfOpenFile
  <1> QED  BY <1>1, <1>2, <1>3, <1>4 DEF DynamicSteps

\* Whatever promise is settled when: the dynamic report the page shows is that
\* of the file that is open, for a run is dropped when another file is opened,
\* and a later one is tied to the file it was started for (App.tsx: dynamicRun).
THEOREM ReportOfOpenFile == Spec => []DynamicOfOpenFile
  <1>1. Init => DynamicInv
    BY DEF Init, DynamicInv, DynamicOfOpenFile
  <1>2. DynamicInv /\ [Next]_vars => DynamicInv'
    <2> SUFFICES ASSUME DynamicInv, [Next]_vars PROVE DynamicInv'
      OBVIOUS
    <2>1. CASE StaticSteps \/ DynamicSteps
      BY <2>1, StaticDynamicInv, RunsDynamicInv
    <2>2. CASE YaraSteps \/ UNCHANGED vars
      <3>1. UNCHANGED <<staticPage, dynamicPage>>
        BY <2>2 DEF YaraSteps, RunYara, ScanArtifacts, BuffersRead, YaraTimeout, YaraResets,
                    ScannerAnswers, ScannerCrashes, EditRules, vars
      <3> QED  BY <3>1 DEF staticPage, dynamicPage, DynamicInv, DynamicOfOpenFile
    <2> QED  BY <2>1, <2>2 DEF Next
  <1>3. DynamicInv => DynamicOfOpenFile
    BY DEF DynamicInv
  <1> QED  BY <1>1, <1>2, <1>3, PTL DEF Spec

-----------------------------------------------------------------------------
(* Sequences of messages of which one at most is about an analysis *)

None(q, J) == \A i \in 1..Len(q) : q[i] \notin J
Single(q, J, K) == \E i \in 1..Len(q) : q[i] \in K /\ \A j \in 1..Len(q) : j # i => q[j] \notin J

LEMMA AppendOther ==
  ASSUME NEW S, NEW q \in Seq(S), NEW x \in S, NEW J, NEW K, x \notin J
  PROVE  /\ None(q, J) => None(Append(q, x), J)
         /\ Single(q, J, K) => Single(Append(q, x), J, K)
  <1> DEFINE more == Append(q, x)
  <1>1. /\ Len(more) = Len(q) + 1 /\ Len(q) \in Nat /\ more[Len(q) + 1] = x
        /\ \A i \in 1..Len(q) : more[i] = q[i]
    BY AppendProperties, LenProperties
  <1> HIDE DEF more
  <1>2. None(q, J) => None(more, J)
    BY <1>1 DEF None
  <1>3. Single(q, J, K) => Single(more, J, K)
    BY <1>1 DEF Single
  <1> QED  BY <1>2, <1>3 DEF more

LEMMA AppendSingle ==
  ASSUME NEW S, NEW q \in Seq(S), NEW x \in S, NEW J, NEW K, x \in K, None(q, J)
  PROVE  Single(Append(q, x), J, K)
  <1> DEFINE more == Append(q, x)
  <1>1. /\ Len(more) = Len(q) + 1 /\ Len(q) \in Nat /\ more[Len(q) + 1] = x
        /\ \A i \in 1..Len(q) : more[i] = q[i]
    BY AppendProperties, LenProperties
  <1> HIDE DEF more
  <1>2. Single(more, J, K)
    BY <1>1 DEF None, Single
  <1> QED  BY <1>2 DEF more

LEMMA TailOther ==
  ASSUME NEW S, NEW q \in Seq(S), q # <<>>, NEW J, NEW K
  PROVE  /\ None(q, J) => None(Tail(q), J)
         /\ Head(q) \notin J /\ K \subseteq J /\ Single(q, J, K) => Single(Tail(q), J, K)
         /\ Head(q) \in J /\ K \subseteq J /\ Single(q, J, K) => Head(q) \in K /\ None(Tail(q), J)
  <1> DEFINE rest == Tail(q)
  <1>1. /\ Len(rest) = Len(q) - 1 /\ Len(q) \in Nat /\ Len(q) # 0 /\ Head(q) = q[1]
        /\ \A i \in 1..Len(rest) : rest[i] = q[i + 1]
    BY HeadTailProperties, EmptySeq, LenProperties
  <1> HIDE DEF rest
  <1>2. None(q, J) => None(rest, J)
    BY <1>1 DEF None
  <1>3. ASSUME Head(q) \notin J, K \subseteq J, Single(q, J, K) PROVE Single(rest, J, K)
    <2>1. PICK i \in 1..Len(q) : q[i] \in K /\ \A j \in 1..Len(q) : j # i => q[j] \notin J
      BY <1>3 DEF Single
    <2>2. i - 1 \in 1..Len(rest) /\ rest[i - 1] \in K
      BY <1>1, <1>3, <2>1
    <2>3. \A j \in 1..Len(rest) : j # i - 1 => rest[j] \notin J
      BY <1>1, <2>1
    <2> QED  BY <2>2, <2>3 DEF Single
  <1>4. ASSUME Head(q) \in J, K \subseteq J, Single(q, J, K) PROVE Head(q) \in K /\ None(rest, J)
    BY <1>1, <1>4 DEF Single, None
  <1> QED  BY <1>2, <1>3, <1>4 DEF rest

LEMMA SingleNotNone ==
  ASSUME NEW q, NEW J, NEW K \in SUBSET J, Single(q, J, K)
  PROVE  ~None(q, J)
  BY DEF Single, None

-----------------------------------------------------------------------------
(* The analyzer has one analysis to do at most *)

Ask(f) == [type |-> "analyze", file |-> f]
Asks == {Ask(f) : f \in Files}
ToAnalyzer == Asks \cup [type : {"read-hex"}, read : HexReads] \cup {CloseSampleMsg}
AnswersTo(F) == [call : F, ok : BOOLEAN]
FromAnalyzer == AnswersTo(Files) \cup [call : HexReads, bytes : Files \cup {NoFile}]

ClientTypes ==
  /\ analyses \subseteq Files /\ hexes \subseteq HexReads
  /\ toAnalyzer \in Seq(ToAnalyzer) /\ fromAnalyzer \in Seq(FromAnalyzer)
  /\ suspended \in Seq(Files) /\ sample \in Files \cup {NoFile}

\* Where the analysis is, if there is one: asked for, suspended or answered.
Idle == None(toAnalyzer, Asks) /\ suspended = <<>> /\ None(fromAnalyzer, AnswersTo(Files))
Asked(f) ==
  Single(toAnalyzer, Asks, {Ask(f)}) /\ suspended = <<>> /\ None(fromAnalyzer, AnswersTo(Files))
Held(f) == None(toAnalyzer, Asks) /\ suspended = <<f>> /\ None(fromAnalyzer, AnswersTo(Files))
Done(f) ==
  /\ None(toAnalyzer, Asks) /\ suspended = <<>>
  /\ Single(fromAnalyzer, AnswersTo(Files), AnswersTo({f}))
  /\ sample \in {NoFile, f}
OneJob == \/ analyses = {} /\ Idle
          \/ \E f \in Files : analyses = {f} /\ (Asked(f) \/ Held(f) \/ Done(f))

ClientInv == ClientTypes /\ OneJob

\* Messages that are not about an analysis.
LEMMA OtherMessages ==
  /\ \A r \in HexReads : [type |-> "read-hex", read |-> r] \in ToAnalyzer \ Asks
  /\ CloseSampleMsg \in ToAnalyzer \ Asks
  /\ \A m \in ToAnalyzer : m.type = "analyze" => m \in Asks
  /\ \A m \in Asks : m.type = "analyze" /\ m.file \in Files /\ m = Ask(m.file)
  /\ \A m \in FromAnalyzer : m \notin AnswersTo(Files) <=> m.call \in HexReads
  <1>1. \A m \in Asks : m.type = "analyze" /\ m.file \in Files /\ m = Ask(m.file)
    BY DEF Asks, Ask
  <1>2. \A r \in HexReads : [type |-> "read-hex", read |-> r] \in ToAnalyzer \ Asks
    BY <1>1 DEF ToAnalyzer
  <1>3. CloseSampleMsg \in ToAnalyzer \ Asks
    BY <1>1 DEF ToAnalyzer, CloseSampleMsg
  <1>4. \A m \in ToAnalyzer : m.type = "analyze" => m \in Asks
    BY DEF ToAnalyzer, CloseSampleMsg
  <1>5. \A m \in FromAnalyzer : m \notin AnswersTo(Files) <=> m.call \in HexReads
    BY StaticAssumption DEF FromAnalyzer, AnswersTo
  <1> QED  BY <1>1, <1>2, <1>3, <1>4, <1>5

LEMMA ResetClientInv == FailAndResetStatic => ClientInv'
  <1> SUFFICES ASSUME FailAndResetStatic PROVE ClientInv'
    OBVIOUS
  <1>1. /\ analyses' = {} /\ hexes' = {} /\ toAnalyzer' = <<>> /\ fromAnalyzer' = <<>>
        /\ suspended' = <<>> /\ sample' = NoFile
    BY DEF FailAndResetStatic, Terminated
  <1>2. Idle'
    BY <1>1 DEF Idle, None
  <1> QED  BY <1>1, <1>2 DEF ClientInv, ClientTypes, OneJob

\* A message that is not about an analysis is sent.
LEMMA SendOther ==
  ASSUME ClientInv, NEW m \in ToAnalyzer \ Asks, toAnalyzer' = Append(toAnalyzer, m),
         UNCHANGED <<analyses, fromAnalyzer, suspended, sample>>, hexes' \subseteq HexReads
  PROVE  ClientInv'
  <1>1. toAnalyzer' \in Seq(ToAnalyzer)
    BY AppendProperties DEF ClientInv, ClientTypes
  <1>2. None(toAnalyzer, Asks) => None(toAnalyzer', Asks)
    BY AppendOther DEF ClientInv, ClientTypes
  <1>3. \A f \in Files : Single(toAnalyzer, Asks, {Ask(f)}) => Single(toAnalyzer', Asks, {Ask(f)})
    BY AppendOther DEF ClientInv, ClientTypes
  <1> QED  BY <1>1, <1>2, <1>3 DEF ClientInv, ClientTypes, OneJob, Idle, Asked, Held, Done

LEMMA CancelClientInv == ClientInv /\ CancelStatic => ClientInv'
  <1> SUFFICES ASSUME ClientInv, CancelStatic PROVE ClientInv'
    OBVIOUS
  <1>1. CASE MustReset
    BY <1>1, ResetClientInv DEF CancelStatic
  <1>2. CASE ~MustReset /\ analyzer = "none"
    <2>1. toAnalyzer' = <<>> /\ UNCHANGED <<analyses, hexes, fromAnalyzer, suspended, sample>>
      BY <1>2 DEF CancelStatic
    <2>2. analyses = {} /\ Idle'
      BY <1>2, <2>1 DEF MustReset, ClientInv, OneJob, Idle, None
    <2> QED  BY <2>1, <2>2 DEF ClientInv, ClientTypes, OneJob
  <1>3. CASE ~MustReset /\ analyzer # "none"
    <2>1. /\ toAnalyzer' = Append(toAnalyzer, CloseSampleMsg)
          /\ UNCHANGED <<analyses, hexes, fromAnalyzer, suspended, sample>>
      BY <1>3 DEF CancelStatic
    <2> QED  BY <2>1, OtherMessages, SendOther DEF ClientInv, ClientTypes
  <1> QED  BY <1>1, <1>2, <1>3

LEMMA AnalyzeClientInv ==
  ASSUME ClientInv, NEW f \in Files, Analyze(f)
  PROVE  ClientInv' /\ hexes' = {}
  <1>1. analyses' = {f} /\ hexes' = {}
    BY DEF Analyze, MustReset
  <1>2. Ask(f) \in Asks /\ Ask(f) \in ToAnalyzer
    BY DEF Asks, ToAnalyzer
  <1>3. CASE MustReset \/ analyzer = "none"
    <2>1. /\ toAnalyzer' = <<Ask(f)>> /\ fromAnalyzer' = <<>> /\ suspended' = <<>>
          /\ sample' = NoFile
      BY <1>3 DEF Analyze, Terminated, Ask
    <2>2. Asked(f)'
      BY <2>1 DEF Asked, Single, None
    <2>3. toAnalyzer' \in Seq(ToAnalyzer)
      BY <1>2, <2>1
    <2> QED  BY <1>1, <2>1, <2>2, <2>3 DEF ClientInv, ClientTypes, OneJob
  <1>4. CASE ~MustReset /\ analyzer # "none"
    <2> DEFINE closed == Append(toAnalyzer, CloseSampleMsg)
    <2>1. /\ toAnalyzer' = toAnalyzer \o <<CloseSampleMsg, Ask(f)>>
          /\ UNCHANGED <<fromAnalyzer, suspended, sample>>
      BY <1>4 DEF Analyze, Ask
    <2>2. Idle
      BY <1>4 DEF MustReset, ClientInv, OneJob
    <2>3. closed \in Seq(ToAnalyzer)
      BY OtherMessages, AppendProperties DEF ClientInv, ClientTypes
    <2>4. None(closed, Asks)
      BY <2>2, OtherMessages, AppendOther DEF Idle, ClientInv, ClientTypes
    <2>5. toAnalyzer' = Append(closed, Ask(f))
      BY <1>2, <2>1, OtherMessages DEF ClientInv, ClientTypes
    <2> HIDE DEF closed
    <2>6. toAnalyzer' \in Seq(ToAnalyzer) /\ Single(toAnalyzer', Asks, {Ask(f)})
      BY <1>2, <2>3, <2>4, <2>5, AppendProperties, AppendSingle
    <2>7. Asked(f)'
      BY <2>1, <2>2, <2>6 DEF Asked, Idle
    <2> QED  BY <1>1, <2>1, <2>6, <2>7 DEF ClientInv, ClientTypes, OneJob
  <1> QED  BY <1>1, <1>3, <1>4

LEMMA ReadHexClientInv ==
  ASSUME ClientInv, NEW r \in HexReads, ReadHex(r)
  PROVE  ClientInv'
  BY OtherMessages, SendOther DEF ReadHex, ClientInv, ClientTypes

\* An answer is received, in or out of time.
LEMMA ReceivedClientInv ==
  ASSUME ClientInv, fromAnalyzer # <<>>, Received
  PROVE  LET a == Head(fromAnalyzer)
         IN  /\ ClientInv' /\ a \in FromAnalyzer
             /\ a.call \in analyses => analyses' = {} /\ sample \in {NoFile, a.call}
             /\ a.call \in Files => a.call \in analyses
             /\ a.call \notin Files => a.call \in HexReads
  <1> DEFINE a == Head(fromAnalyzer)
  <1>1. /\ fromAnalyzer' = Tail(fromAnalyzer) /\ fromAnalyzer' \in Seq(FromAnalyzer)
        /\ a \in FromAnalyzer
    BY HeadTailProperties DEF Received, ClientInv, ClientTypes
  <1>2. /\ analyses' = analyses \ {a.call} /\ hexes' = hexes \ {a.call}
        /\ UNCHANGED <<toAnalyzer, suspended, sample>>
    BY DEF Received
  <1>3. None(fromAnalyzer, AnswersTo(Files)) => None(fromAnalyzer', AnswersTo(Files))
    BY <1>1, TailOther DEF ClientInv, ClientTypes
  <1>4. \A f \in Files : AnswersTo({f}) \subseteq AnswersTo(Files)
    BY DEF AnswersTo
  <1>5. CASE a \in AnswersTo(Files)
    <2>1. ~None(fromAnalyzer, AnswersTo(Files))
      <3>1. 1 \in 1..Len(fromAnalyzer) /\ fromAnalyzer[1] = a
        BY HeadTailProperties, EmptySeq, LenProperties DEF ClientInv, ClientTypes
      <3> QED  BY <1>5, <3>1 DEF None
    <2>2. PICK f \in Files : analyses = {f} /\ Done(f)
      BY <2>1 DEF ClientInv, OneJob, Idle, Asked, Held
    <2>3. a \in AnswersTo({f}) /\ None(fromAnalyzer', AnswersTo(Files))
      BY <1>1, <1>4, <1>5, <2>2, TailOther DEF Done, ClientInv, ClientTypes
    <2>4. a.call = f
      BY <2>3 DEF AnswersTo
    <2>5. analyses' = {} /\ Idle'
      BY <1>2, <2>2, <2>3, <2>4 DEF Done, Idle
    <2> QED  BY <1>1, <1>2, <2>2, <2>4, <2>5 DEF ClientInv, ClientTypes, OneJob, Done
  <1>6. CASE a \notin AnswersTo(Files)
    <2>1. a.call \in HexReads /\ a.call \notin Files
      BY <1>1, <1>6, OtherMessages, StaticAssumption
    <2>2. analyses' = analyses
      BY <1>2, <2>1 DEF ClientInv, ClientTypes
    <2>3. \A f \in Files : Single(fromAnalyzer, AnswersTo(Files), AnswersTo({f}))
                             => Single(fromAnalyzer', AnswersTo(Files), AnswersTo({f}))
      BY <1>1, <1>4, <1>6, TailOther DEF ClientInv, ClientTypes
    <2> HIDE DEF a
    <2>4. OneJob'
      BY <1>2, <1>3, <2>2, <2>3 DEF ClientInv, OneJob, Idle, Asked, Held, Done
    <2>5. ClientTypes'
      BY <1>1, <1>2 DEF ClientInv, ClientTypes
    <2> QED  BY <1>1, <2>1, <2>4, <2>5 DEF ClientInv, ClientTypes, a
  <1> QED  BY <1>5, <1>6

\* The worker executes an analysis it was asked for.
LEMMA ExecuteClientInv ==
  ASSUME ClientTypes, NEW f \in Files, ExecuteAnalysis(f), None(fromAnalyzer, AnswersTo(Files))
  PROVE  /\ fromAnalyzer' \in Seq(FromAnalyzer) /\ sample' \in {NoFile, f}
         /\ Single(fromAnalyzer', AnswersTo(Files), AnswersTo({f}))
         /\ \E ok \in BOOLEAN : fromAnalyzer' = Append(fromAnalyzer, [call |-> f, ok |-> ok])
  <1>1. PICK ok \in BOOLEAN : fromAnalyzer' = Append(fromAnalyzer, [call |-> f, ok |-> ok])
    BY DEF ExecuteAnalysis
  <1>2. sample' \in {NoFile, f}
    BY DEF ExecuteAnalysis
  <1>3. [call |-> f, ok |-> ok] \in FromAnalyzer /\ [call |-> f, ok |-> ok] \in AnswersTo({f})
    BY DEF FromAnalyzer, AnswersTo
  <1> QED  BY <1>1, <1>2, <1>3, AppendProperties, AppendSingle DEF ClientTypes

\* A message for the worker that is not an analysis is taken.
LEMMA TakeOther ==
  ASSUME ClientInv, toAnalyzer # <<>>, Head(toAnalyzer).type # "analyze",
         toAnalyzer' = Tail(toAnalyzer), UNCHANGED <<analyses, hexes, suspended>>
  PROVE  /\ toAnalyzer' \in Seq(ToAnalyzer)
         /\ None(toAnalyzer, Asks) => None(toAnalyzer', Asks)
         /\ \A f \in Files : Single(toAnalyzer, Asks, {Ask(f)}) => Single(toAnalyzer', Asks, {Ask(f)})
  <1>1. Head(toAnalyzer) \notin Asks
    BY OtherMessages
  <1>2. \A f \in Files : {Ask(f)} \subseteq Asks
    BY DEF Asks
  <1> QED  BY <1>1, <1>2, HeadTailProperties, TailOther DEF ClientInv, ClientTypes

LEMMA HandleAnalyzeInv ==
  ASSUME ClientInv, HandleAnalyze
  PROVE  ClientInv' /\ analyses # {}
  <1> DEFINE m == Head(toAnalyzer)
  <1>1. /\ toAnalyzer # <<>> /\ m.type = "analyze" /\ toAnalyzer' = Tail(toAnalyzer)
        /\ UNCHANGED <<analyses, hexes>>
    BY DEF HandleAnalyze, AnalyzerFree
  <1>2. /\ m \in ToAnalyzer /\ toAnalyzer' \in Seq(ToAnalyzer)
        /\ 1 \in 1..Len(toAnalyzer) /\ toAnalyzer[1] = m
    BY <1>1, HeadTailProperties, EmptySeq, LenProperties DEF ClientInv, ClientTypes
  <1>3. m \in Asks
    BY <1>1, <1>2, OtherMessages
  <1>4. ~None(toAnalyzer, Asks)
    BY <1>2, <1>3 DEF None
  <1>5. PICK f \in Files : analyses = {f} /\ Asked(f)
    BY <1>4 DEF ClientInv, OneJob, Idle, Held, Done
  <1>6. {Ask(f)} \subseteq Asks
    BY DEF Asks
  <1>7. m \in {Ask(f)} /\ None(toAnalyzer', Asks)
    BY <1>1, <1>3, <1>5, <1>6, TailOther DEF Asked, ClientInv, ClientTypes
  <1>8. m.file = f
    BY <1>7 DEF Ask
  <1>9. CASE analyzer = "loading"
    <2>1. suspended' = Append(suspended, f) /\ UNCHANGED <<fromAnalyzer, sample>>
      BY <1>8, <1>9 DEF HandleAnalyze
    <2>2. suspended' = <<f>>
      BY <1>5, <2>1 DEF Asked
    <2>3. Held(f)'
      BY <1>5, <1>7, <2>1, <2>2 DEF Asked, Held
    <2>4. suspended' \in Seq(Files)
      BY <2>2
    <2> QED  BY <1>1, <1>2, <1>5, <2>1, <2>3, <2>4 DEF ClientInv, ClientTypes, OneJob
  <1>10. CASE analyzer # "loading"
    <2>1. ExecuteAnalysis(f) /\ UNCHANGED suspended
      BY <1>8, <1>10 DEF HandleAnalyze
    <2>2. /\ fromAnalyzer' \in Seq(FromAnalyzer) /\ sample' \in {NoFile, f}
          /\ Single(fromAnalyzer', AnswersTo(Files), AnswersTo({f}))
      BY <1>5, <2>1, ExecuteClientInv DEF Asked, ClientInv
    <2>3. Done(f)'
      BY <1>5, <1>7, <2>1, <2>2 DEF Asked, Done
    <2> QED  BY <1>1, <1>2, <1>5, <2>1, <2>2, <2>3 DEF ClientInv, ClientTypes, OneJob
  <1> QED  BY <1>5, <1>9, <1>10

LEMMA ResumeAnalysisInv ==
  ASSUME ClientInv, ResumeAnalysis
  PROVE  ClientInv' /\ analyses # {}
  <1>1. PICK f \in Files : analyses = {f} /\ Held(f)
    BY DEF ResumeAnalysis, ClientInv, OneJob, Idle, Asked, Done
  <1>2. Head(suspended) = f /\ Tail(suspended) = <<>>
    BY <1>1 DEF Held
  <1>3. /\ ExecuteAnalysis(f) /\ suspended' = <<>>
        /\ UNCHANGED <<analyses, hexes, toAnalyzer>>
    BY <1>2 DEF ResumeAnalysis
  <1>4. /\ fromAnalyzer' \in Seq(FromAnalyzer) /\ sample' \in {NoFile, f}
        /\ Single(fromAnalyzer', AnswersTo(Files), AnswersTo({f}))
    BY <1>1, <1>3, ExecuteClientInv DEF Held, ClientInv
  <1>5. Done(f)'
    BY <1>1, <1>3, <1>4 DEF Held, Done
  <1> QED  BY <1>1, <1>3, <1>4, <1>5 DEF ClientInv, ClientTypes, OneJob

LEMMA HandleReadHexInv ==
  ASSUME ClientInv, HandleReadHex
  PROVE  LET r == Head(toAnalyzer).read
         IN  /\ ClientInv' /\ r \in HexReads
             /\ [call |-> r, bytes |-> sample] \in FromAnalyzer
             /\ fromAnalyzer' = Append(fromAnalyzer, [call |-> r, bytes |-> sample])
  <1> DEFINE m == Head(toAnalyzer)
             answer == [call |-> m.read, bytes |-> sample]
  <1>1. /\ toAnalyzer # <<>> /\ m.type = "read-hex" /\ toAnalyzer' = Tail(toAnalyzer)
        /\ fromAnalyzer' = Append(fromAnalyzer, answer)
        /\ UNCHANGED <<analyses, hexes, suspended, sample>>
    BY DEF HandleReadHex, AnalyzerFree
  <1>2. m \in ToAnalyzer
    BY <1>1, HeadTailProperties DEF ClientInv, ClientTypes
  <1>3. m.read \in HexReads
    BY <1>1, <1>2 DEF ToAnalyzer, Asks, Ask, CloseSampleMsg
  <1>4. answer \in FromAnalyzer /\ answer \notin AnswersTo(Files)
    <2>1. answer \in FromAnalyzer /\ answer.call \in HexReads
      BY <1>3 DEF FromAnalyzer, ClientInv, ClientTypes
    <2> QED  BY <2>1, OtherMessages
  <1>5. /\ toAnalyzer' \in Seq(ToAnalyzer)
        /\ None(toAnalyzer, Asks) => None(toAnalyzer', Asks)
        /\ \A f \in Files : Single(toAnalyzer, Asks, {Ask(f)}) => Single(toAnalyzer', Asks, {Ask(f)})
    BY <1>1, TakeOther
  <1> HIDE DEF answer
  <1>6. /\ fromAnalyzer' \in Seq(FromAnalyzer)
        /\ None(fromAnalyzer, AnswersTo(Files)) => None(fromAnalyzer', AnswersTo(Files))
        /\ \A f \in Files : Single(fromAnalyzer, AnswersTo(Files), AnswersTo({f}))
                              => Single(fromAnalyzer', AnswersTo(Files), AnswersTo({f}))
    BY <1>1, <1>4, AppendProperties, AppendOther DEF ClientInv, ClientTypes
  <1>7. OneJob'
    BY <1>1, <1>5, <1>6 DEF ClientInv, OneJob, Idle, Asked, Held, Done
  <1>8. ClientTypes'
    BY <1>1, <1>5, <1>6 DEF ClientInv, ClientTypes
  <1> QED  BY <1>1, <1>3, <1>4, <1>7, <1>8 DEF ClientInv, answer

\* The worker does nothing to the sample but close it, unless an analysis is
\* pending, and answers hex reads with it.
LEMMA WorkerClientInv ==
  ASSUME ClientInv, AnalyzerStep
  PROVE  /\ ClientInv' /\ UNCHANGED <<analyses, hexes>>
         /\ analyses = {} => sample' \in {sample, NoFile}
  <1>1. CASE HandleAnalyze
    BY <1>1, HandleAnalyzeInv DEF HandleAnalyze
  <1>2. CASE ResumeAnalysis
    BY <1>2, ResumeAnalysisInv DEF ResumeAnalysis
  <1>3. CASE HandleReadHex
    BY <1>3, HandleReadHexInv DEF HandleReadHex
  <1>4. CASE HandleCloseSample
    <2>1. /\ toAnalyzer # <<>> /\ Head(toAnalyzer).type # "analyze"
          /\ toAnalyzer' = Tail(toAnalyzer) /\ sample' = NoFile
          /\ UNCHANGED <<analyses, hexes, fromAnalyzer, suspended>>
      BY <1>4 DEF HandleCloseSample, AnalyzerFree, CloseSampleMsg
    <2>2. /\ toAnalyzer' \in Seq(ToAnalyzer)
          /\ None(toAnalyzer, Asks) => None(toAnalyzer', Asks)
          /\ \A f \in Files : Single(toAnalyzer, Asks, {Ask(f)})
                                => Single(toAnalyzer', Asks, {Ask(f)})
      BY <2>1, TakeOther
    <2> QED  BY <2>1, <2>2 DEF ClientInv, ClientTypes, OneJob, Idle, Asked, Held, Done
  <1>5. CASE AnalyzerLoads
    BY <1>5 DEF AnalyzerLoads, ClientInv, ClientTypes, OneJob, Idle, Asked, Held, Done
  <1> QED  BY <1>1, <1>2, <1>3, <1>4, <1>5 DEF AnalyzerStep

-----------------------------------------------------------------------------
(* Bytes of the file *)

PageTypes ==
  /\ report \in Files \cup {NoFile}
  /\ hexOf \in [HexReads -> Files \cup {NoFile}] /\ bytesOf \in [HexReads -> Files \cup {NoFile}]

\* With a report on the page nothing is being analysed, and the sample is that
\* of the report, or closed.
ReportShown == status = "done" => analyses = {} /\ sample \in {NoFile, report}

\* The same of every pending read, which a new analysis would have rejected.
ReadsPending ==
  /\ hexes # {} => analyses = {}
  /\ \A r \in hexes : sample \in {NoFile, hexOf[r]}

\* Messages and answers of rejected reads may still be under way, but a read is
\* only asked for once.
ReadsOnce ==
  /\ \A i \in 1..Len(toAnalyzer) :
       toAnalyzer[i].type = "read-hex" => hexOf[toAnalyzer[i].read] # NoFile
  /\ \A i \in 1..Len(fromAnalyzer) : fromAnalyzer[i].call \in HexReads =>
       /\ hexOf[fromAnalyzer[i].call] # NoFile
       /\ fromAnalyzer[i].call \in hexes
            => fromAnalyzer[i].bytes \in {NoFile, hexOf[fromAnalyzer[i].call]}

HexInv == ClientInv /\ PageTypes /\ ReportShown /\ ReadsPending /\ ReadsOnce /\ HexOfReport

\* The client is as it was.
LEMMA KeptHexInv ==
  ASSUME HexInv, UNCHANGED <<staticVars, hexPage, report>>, status' = "done" => status = "done"
  PROVE  HexInv'
  <1>1. ClientInv'
    BY DEF HexInv, ClientInv, ClientTypes, OneJob, Idle, Asked, Held, Done, staticVars, analyzerVars
  <1> QED  BY <1>1 DEF HexInv, PageTypes, ReportShown, ReadsPending, ReadsOnce, HexOfReport,
                       staticVars, analyzerVars, hexPage

\* A call of the client that rejects every read, or adds none, and asks for none.
LEMMA CallHexInv ==
  ASSUME HexInv, ClientInv', UNCHANGED <<hexPage>>, report' \in Files \cup {NoFile},
         status' # "done",
         hexes' = {},
         \A i \in 1..Len(toAnalyzer') : toAnalyzer'[i].type = "read-hex" =>
           \E j \in 1..Len(toAnalyzer) : toAnalyzer'[i] = toAnalyzer[j],
         fromAnalyzer' \in {fromAnalyzer, <<>>}
  PROVE  HexInv'
  <1>1. PageTypes' /\ ReportShown' /\ ReadsPending' /\ HexOfReport'
    BY DEF HexInv, PageTypes, ReportShown, ReadsPending, HexOfReport, hexPage
  <1>2. ReadsOnce'
    BY DEF HexInv, ReadsOnce, hexPage
  <1> QED  BY <1>1, <1>2 DEF HexInv

LEMMA ResetHexInv ==
  ASSUME HexInv, FailAndResetStatic, UNCHANGED <<hexPage, report>>,
         status' \in {status, "error"}
  PROVE  HexInv'
  <1>1. /\ analyses' = {} /\ hexes' = {} /\ sample' = NoFile
        /\ toAnalyzer' = <<>> /\ fromAnalyzer' = <<>>
    BY DEF FailAndResetStatic, Terminated
  <1>2. ReportShown' /\ ReadsPending' /\ ReadsOnce' /\ PageTypes' /\ HexOfReport'
    BY <1>1 DEF HexInv, PageTypes, ReportShown, ReadsPending, ReadsOnce, HexOfReport, hexPage
  <1> QED  BY <1>2, ResetClientInv DEF HexInv

LEMMA CloseHexInv ==
  ASSUME HexInv, CloseSample
  PROVE  HexInv'
  <1>1. ClientInv' /\ UNCHANGED hexPage /\ report' = NoFile
    BY CancelClientInv DEF CloseSample, HexInv
  <1>2. status' # "done"
    BY DEF CloseSample, AfterReset
  <1>3. hexes' = {} /\ fromAnalyzer' \in {fromAnalyzer, <<>>}
    BY DEF CloseSample, CancelStatic, MustReset, FailAndResetStatic, Terminated
  <1>4. toAnalyzer' \in {<<>>, Append(toAnalyzer, CloseSampleMsg)}
    BY DEF CloseSample, CancelStatic, FailAndResetStatic
  <1>5. \A i \in 1..Len(toAnalyzer') : toAnalyzer'[i].type = "read-hex" =>
          \E j \in 1..Len(toAnalyzer) : toAnalyzer'[i] = toAnalyzer[j]
    <2>1. CASE toAnalyzer' = <<>>
      BY <2>1
    <2>2. CASE toAnalyzer' = Append(toAnalyzer, CloseSampleMsg)
      <3>1. /\ Len(toAnalyzer') = Len(toAnalyzer) + 1 /\ Len(toAnalyzer) \in Nat
            /\ toAnalyzer'[Len(toAnalyzer) + 1] = CloseSampleMsg
            /\ \A i \in 1..Len(toAnalyzer) : toAnalyzer'[i] = toAnalyzer[i]
        BY <2>2, OtherMessages, AppendProperties, LenProperties DEF HexInv, ClientInv, ClientTypes
      <3>2. CloseSampleMsg.type # "read-hex"
        BY DEF CloseSampleMsg
      <3> QED  BY <3>1, <3>2
    <2> QED  BY <1>4, <2>1, <2>2
  <1> QED  BY <1>1, <1>2, <1>3, <1>5, CallHexInv

LEMMA FileReadHexInv ==
  ASSUME HexInv, NEW f \in Files, FileRead(f)
  PROVE  HexInv'
  <1>1. ClientInv' /\ hexes' = {} /\ UNCHANGED <<hexPage, report>>
    BY AnalyzeClientInv DEF FileRead, HexInv
  <1>2. status' # "done"
    BY DEF FileRead, AfterReset
  <1>3. fromAnalyzer' \in {fromAnalyzer, <<>>}
        /\ toAnalyzer' \in {<<Ask(f)>>, toAnalyzer \o <<CloseSampleMsg, Ask(f)>>}
    BY DEF FileRead, Analyze, Terminated, Ask
  <1>4. Ask(f).type # "read-hex" /\ CloseSampleMsg.type # "read-hex"
    BY DEF Ask, CloseSampleMsg
  <1>5. \A i \in 1..Len(toAnalyzer') : toAnalyzer'[i].type = "read-hex" =>
          \E j \in 1..Len(toAnalyzer) : toAnalyzer'[i] = toAnalyzer[j]
    <2>1. CASE toAnalyzer' = <<Ask(f)>>
      BY <1>4, <2>1
    <2>2. CASE toAnalyzer' = toAnalyzer \o <<CloseSampleMsg, Ask(f)>>
      <3> DEFINE n == Len(toAnalyzer)
      <3>1. Ask(f) \in ToAnalyzer /\ toAnalyzer \in Seq(ToAnalyzer)
        BY DEF ToAnalyzer, Asks, HexInv, ClientInv, ClientTypes
      <3>2. /\ Len(toAnalyzer') = n + 2 /\ n \in Nat
            /\ toAnalyzer'[n + 1] = CloseSampleMsg /\ toAnalyzer'[n + 2] = Ask(f)
            /\ \A i \in 1..n : toAnalyzer'[i] = toAnalyzer[i]
        BY <2>2, <3>1, OtherMessages, ConcatProperties, LenProperties
      <3> HIDE DEF n
      <3>3. \A i \in 1..(n + 2) : i \in 1..n \/ i = n + 1 \/ i = n + 2
        BY <3>2
      <3> QED  BY <1>4, <3>2, <3>3 DEF n
    <2> QED  BY <1>3, <2>1, <2>2
  <1>6. report' \in Files \cup {NoFile}
    BY <1>1 DEF HexInv, PageTypes
  <1> QED  BY <1>1, <1>2, <1>3, <1>5, <1>6, CallHexInv

\* The page asks for bytes of the file whose report it shows.
LEMMA ShowHexInv ==
  ASSUME HexInv, NEW r \in HexReads, ShowHex(r)
  PROVE  HexInv'
  <1> DEFINE m == [type |-> "read-hex", read |-> r]
  <1>1. /\ report # NoFile /\ status = "done" /\ hexOf[r] = NoFile
        /\ hexOf' = [hexOf EXCEPT ![r] = report] /\ hexes' = hexes \cup {r}
        /\ toAnalyzer' = Append(toAnalyzer, m)
        /\ UNCHANGED <<analyses, fromAnalyzer, sample, bytesOf, report, status>>
    BY DEF ShowHex, Workspace, ReadHex, staticPage
  <1>2. ClientInv'
    BY ReadHexClientInv DEF ShowHex, HexInv
  <1>3. hexOf'[r] = report /\ \A q \in HexReads \ {r} : hexOf'[q] = hexOf[q]
    BY <1>1 DEF HexInv, PageTypes
  <1>4. PageTypes'
    BY <1>1 DEF HexInv, PageTypes
  <1>5. ReportShown' /\ ReadsPending'
    BY <1>1, <1>3 DEF HexInv, ReportShown, ReadsPending, ClientInv, ClientTypes
  <1>6. HexOfReport'
    BY <1>1, <1>3 DEF HexInv, HexOfReport
  <1>7. \A i \in 1..Len(toAnalyzer') :
          toAnalyzer'[i].type = "read-hex" => hexOf'[toAnalyzer'[i].read] # NoFile
    <2>1. /\ Len(toAnalyzer') = Len(toAnalyzer) + 1 /\ Len(toAnalyzer) \in Nat
          /\ toAnalyzer'[Len(toAnalyzer) + 1] = m
          /\ \A i \in 1..Len(toAnalyzer) : toAnalyzer'[i] = toAnalyzer[i]
      BY <1>1, OtherMessages, AppendProperties, LenProperties DEF HexInv, ClientInv, ClientTypes
    <2>2. m.read = r
      OBVIOUS
    <2>3. \A i \in 1..Len(toAnalyzer) : toAnalyzer[i].type = "read-hex" => toAnalyzer[i].read \in HexReads
      <3> TAKE i \in 1..Len(toAnalyzer)
      <3>1. toAnalyzer[i] \in ToAnalyzer
        BY ElementOfSeq DEF HexInv, ClientInv, ClientTypes
      <3> QED  BY <3>1 DEF ToAnalyzer, Asks, Ask, CloseSampleMsg
    <2> HIDE DEF m
    <2>4. ASSUME NEW i \in 1..Len(toAnalyzer'), toAnalyzer'[i].type = "read-hex"
          PROVE  hexOf'[toAnalyzer'[i].read] # NoFile
      <3>1. CASE i = Len(toAnalyzer) + 1
        BY <1>1, <1>3, <2>1, <2>2, <3>1
      <3>2. CASE i # Len(toAnalyzer) + 1
        <4>1. i \in 1..Len(toAnalyzer) /\ toAnalyzer'[i] = toAnalyzer[i]
          BY <2>1, <3>2
        <4>2. hexOf[toAnalyzer[i].read] # NoFile /\ toAnalyzer[i].read \in HexReads
          BY <2>3, <2>4, <4>1 DEF HexInv, ReadsOnce
        <4> QED  BY <1>1, <1>3, <4>1, <4>2
      <3> QED  BY <3>1, <3>2
    <2> QED  BY <2>4
  <1>8. ReadsOnce'
    <2>1. \A i \in 1..Len(fromAnalyzer) : fromAnalyzer[i].call \in HexReads => fromAnalyzer[i].call # r
      BY <1>1 DEF HexInv, ReadsOnce
    <2> QED  BY <1>1, <1>3, <1>7, <2>1 DEF HexInv, ReadsOnce
  <1> QED  BY <1>2, <1>4, <1>5, <1>6, <1>8 DEF HexInv

\* An answer of the analyzer: a report of the sample it has, or bytes of it.
LEMMA AnswerHexInv ==
  ASSUME HexInv, AnalyzerAnswers
  PROVE  HexInv'
  <1> DEFINE a == Head(fromAnalyzer)
  <1>1. /\ fromAnalyzer # <<>> /\ Received /\ UNCHANGED hexOf
        /\ hexes' = hexes \ {a.call} /\ fromAnalyzer' = Tail(fromAnalyzer)
        /\ analyses' = analyses \ {a.call} /\ UNCHANGED <<toAnalyzer, sample>>
    BY DEF AnalyzerAnswers, Received
  <1>2. /\ ClientInv' /\ a \in FromAnalyzer
        /\ a.call \in analyses => analyses' = {} /\ sample \in {NoFile, a.call}
        /\ a.call \in Files => a.call \in analyses
        /\ a.call \notin Files => a.call \in HexReads
    BY <1>1, ReceivedClientInv DEF HexInv
  <1>3. /\ IF a.call \in analyses
           THEN /\ report' = IF a.ok THEN a.call ELSE report
                /\ status' = IF a.ok THEN "done" ELSE "error"
           ELSE UNCHANGED <<report, status>>
        /\ bytesOf' = IF a.call \in hexes THEN [bytesOf EXCEPT ![a.call] = a.bytes] ELSE bytesOf
    BY DEF AnalyzerAnswers
  <1>4. /\ Len(fromAnalyzer') = Len(fromAnalyzer) - 1 /\ Len(fromAnalyzer) \in Nat
        /\ Len(fromAnalyzer) # 0 /\ fromAnalyzer[1] = a
        /\ \A i \in 1..Len(fromAnalyzer') : fromAnalyzer'[i] = fromAnalyzer[i + 1]
    BY <1>1, HeadTailProperties, EmptySeq, LenProperties DEF HexInv, ClientInv, ClientTypes
  <1> HIDE DEF a
  <1>5. ReportShown'
    <2>1. CASE a.call \in analyses
      BY <1>1, <1>2, <1>3, <2>1 DEF ReportShown
    <2>2. CASE a.call \notin analyses
      BY <1>1, <1>3, <2>2 DEF HexInv, ReportShown
    <2> QED  BY <2>1, <2>2
  <1>6. ReadsPending'
    BY <1>1 DEF HexInv, ReadsPending
  <1>7. ReadsOnce'
    BY <1>1, <1>4 DEF HexInv, ReadsOnce
  <1>8. a.call \in hexes => a.call \in HexReads /\ a.bytes \in {NoFile, hexOf[a.call]}
    BY <1>4 DEF HexInv, ReadsOnce, ClientInv, ClientTypes
  <1>9. PageTypes' /\ HexOfReport'
    <2>1. report' \in Files \cup {NoFile}
      BY <1>3 DEF HexInv, ClientInv, ClientTypes, PageTypes
    <2>2. CASE a.call \in hexes
      BY <1>1, <1>3, <1>8, <2>1, <2>2 DEF HexInv, PageTypes, HexOfReport
    <2>3. CASE a.call \notin hexes
      BY <1>1, <1>3, <2>1, <2>3 DEF HexInv, PageTypes, HexOfReport
    <2> QED  BY <2>2, <2>3
  <1> QED  BY <1>2, <1>5, <1>6, <1>7, <1>9 DEF HexInv

LEMMA WorkerHexInv ==
  ASSUME HexInv, AnalyzerStep, UNCHANGED <<status, report, hexPage>>
  PROVE  HexInv'
  <1>1. /\ ClientInv' /\ UNCHANGED <<analyses, hexes>>
        /\ analyses = {} => sample' \in {sample, NoFile}
    BY WorkerClientInv DEF HexInv
  <1>2. PageTypes' /\ ReportShown' /\ ReadsPending' /\ HexOfReport'
    BY <1>1 DEF HexInv, PageTypes, ReportShown, ReadsPending, HexOfReport, hexPage
  <1>3. ReadsOnce'
    <2>1. \A i \in 1..Len(toAnalyzer') : \E j \in 1..Len(toAnalyzer) : toAnalyzer'[i] = toAnalyzer[j]
      <3>1. CASE UNCHANGED toAnalyzer
        BY <3>1
      <3>2. CASE toAnalyzer # <<>> /\ toAnalyzer' = Tail(toAnalyzer)
        <4>1. /\ Len(toAnalyzer') = Len(toAnalyzer) - 1 /\ Len(toAnalyzer) \in Nat
              /\ \A i \in 1..Len(toAnalyzer') : toAnalyzer'[i] = toAnalyzer[i + 1]
          BY <3>2, HeadTailProperties, LenProperties DEF HexInv, ClientInv, ClientTypes
        <4>2. \A i \in 1..Len(toAnalyzer') : i + 1 \in 1..Len(toAnalyzer)
          BY <4>1
        <4> QED  BY <4>1, <4>2
      <3> QED  BY <3>1, <3>2 DEF AnalyzerStep, HandleAnalyze, ResumeAnalysis, HandleReadHex,
                                 HandleCloseSample, AnalyzerLoads, AnalyzerFree
    <2>2. ASSUME NEW x \in FromAnalyzer, fromAnalyzer' = Append(fromAnalyzer, x),
                 x.call \in HexReads =>
                   /\ hexOf[x.call] # NoFile
                   /\ x.call \in hexes => x.bytes \in {NoFile, hexOf[x.call]}
          PROVE  ReadsOnce'
      <3>1. /\ Len(fromAnalyzer') = Len(fromAnalyzer) + 1 /\ Len(fromAnalyzer) \in Nat
            /\ fromAnalyzer'[Len(fromAnalyzer) + 1] = x
            /\ \A i \in 1..Len(fromAnalyzer) : fromAnalyzer'[i] = fromAnalyzer[i]
        BY <2>2, AppendProperties, LenProperties DEF HexInv, ClientInv, ClientTypes
      <3>2. \A i \in 1..Len(fromAnalyzer') : fromAnalyzer'[i].call \in HexReads =>
              /\ hexOf[fromAnalyzer'[i].call] # NoFile
              /\ fromAnalyzer'[i].call \in hexes
                   => fromAnalyzer'[i].bytes \in {NoFile, hexOf[fromAnalyzer'[i].call]}
        BY <2>2, <3>1 DEF HexInv, ReadsOnce
      <3>3. \A i \in 1..Len(toAnalyzer') :
              toAnalyzer'[i].type = "read-hex" => hexOf[toAnalyzer'[i].read] # NoFile
        BY <2>1 DEF HexInv, ReadsOnce
      <3> QED  BY <1>1, <3>2, <3>3 DEF ReadsOnce, hexPage
    <2>3. CASE UNCHANGED fromAnalyzer
      BY <1>1, <2>1, <2>3 DEF HexInv, ReadsOnce, hexPage
    <2>4. ASSUME NEW f, ExecuteAnalysis(f), f \in Files PROVE ReadsOnce'
      <3>1. PICK ok \in BOOLEAN : fromAnalyzer' = Append(fromAnalyzer, [call |-> f, ok |-> ok])
        BY <2>4 DEF ExecuteAnalysis
      <3>2. [call |-> f, ok |-> ok] \in FromAnalyzer /\ f \notin HexReads
        BY <2>4, StaticAssumption DEF FromAnalyzer, AnswersTo
      <3> QED  BY <2>2, <3>1, <3>2
    <2>5. CASE HandleAnalyze
      <3>1. toAnalyzer # <<>> /\ Head(toAnalyzer).type = "analyze"
        BY <2>5 DEF HandleAnalyze, AnalyzerFree
      <3>2. Head(toAnalyzer).file \in Files
        <4>1. Head(toAnalyzer) \in ToAnalyzer
          BY <3>1, HeadTailProperties DEF HexInv, ClientInv, ClientTypes
        <4> QED  BY <3>1, <4>1, OtherMessages
      <3> QED  BY <2>3, <2>4, <2>5, <3>2 DEF HandleAnalyze
    <2>6. CASE ResumeAnalysis
      <3>1. Head(suspended) \in Files
        BY <2>6, HeadTailProperties DEF ResumeAnalysis, HexInv, ClientInv, ClientTypes
      <3> QED  BY <2>4, <2>6, <3>1 DEF ResumeAnalysis
    <2>7. CASE HandleReadHex
      <3> DEFINE r == Head(toAnalyzer).read
                 x == [call |-> r, bytes |-> sample]
      <3>1. r \in HexReads /\ x \in FromAnalyzer /\ fromAnalyzer' = Append(fromAnalyzer, x)
        BY <2>7, HandleReadHexInv DEF HexInv
      <3>2. hexOf[r] # NoFile
        <4>1. toAnalyzer # <<>> /\ Head(toAnalyzer).type = "read-hex"
          BY <2>7 DEF HandleReadHex, AnalyzerFree
        <4>2. 1 \in 1..Len(toAnalyzer) /\ toAnalyzer[1] = Head(toAnalyzer)
          BY <4>1, HeadTailProperties, EmptySeq, LenProperties DEF HexInv, ClientInv, ClientTypes
        <4> QED  BY <4>1, <4>2 DEF HexInv, ReadsOnce
      <3>3. r \in hexes => sample \in {NoFile, hexOf[r]}
        BY DEF HexInv, ReadsPending
      <3>4. x.call = r /\ x.bytes = sample
        OBVIOUS
      <3> HIDE DEF r, x
      <3> QED  BY <2>2, <3>1, <3>2, <3>3, <3>4
    <2> QED  BY <2>3, <2>5, <2>6, <2>7 DEF AnalyzerStep, HandleCloseSample, AnalyzerLoads
  <1> QED  BY <1>1, <1>2, <1>3 DEF HexInv

LEMMA StaticHexInv == HexInv /\ StaticSteps => HexInv'
  <1> SUFFICES ASSUME HexInv, StaticSteps PROVE HexInv'
    OBVIOUS
  <1>1. ASSUME NEW f \in Files, InspectFile(f) PROVE HexInv'
    <2>1. UNCHANGED <<staticVars, hexPage>> /\ report' = NoFile /\ status' = "reading"
      BY <1>1 DEF InspectFile
    <2>2. ClientInv'
      BY <2>1 DEF HexInv, ClientInv, ClientTypes, OneJob, Idle, Asked, Held, Done,
                  staticVars, analyzerVars
    <2> QED  BY <2>1, <2>2 DEF HexInv, PageTypes, ReportShown, ReadsPending, ReadsOnce, HexOfReport,
                              staticVars, analyzerVars, hexPage
  <1>2. ASSUME NEW f \in Files, FetchDemo(f) \/ OpeningFails(f) PROVE HexInv'
    <2>1. UNCHANGED <<staticVars, hexPage, report>> /\ status' \in {status, "error"}
      BY <1>2 DEF FetchDemo, OpeningFails
    <2> QED  BY <2>1, KeptHexInv
  <1>3. CASE StaticReset
    BY <1>3, ResetHexInv DEF StaticReset
  <1>4. CASE AnalyzerStep /\ UNCHANGED <<staticPage, hexPage>>
    BY <1>4, WorkerHexInv DEF staticPage
  <1> QED  BY <1>1, <1>2, <1>3, <1>4, FileReadHexInv, AnswerHexInv, CloseHexInv, ShowHexInv
           DEF StaticSteps, ChooseFile, DemoArrives, AnalysisTimeout, AnalyzerCrashes

\* However files are opened, closed and analysed in between, and whatever
\* answers are still under way: the bytes a hex read gets are those of the file
\* whose report asked for them (readHex, failAndReset; read-hex of
\* analyzer.worker.ts).
THEOREM BytesOfReport == Spec => []HexOfReport
  <1>1. Init => HexInv
    <2> SUFFICES ASSUME Init PROVE HexInv
      OBVIOUS
    <2>1. /\ analyses = {} /\ hexes = {} /\ toAnalyzer = <<>> /\ fromAnalyzer = <<>>
          /\ suspended = <<>> /\ sample = NoFile /\ status = "idle" /\ report = NoFile
          /\ hexOf = [r \in HexReads |-> NoFile] /\ bytesOf = hexOf
      BY DEF Init, StaticInit
    <2>2. ClientInv
      BY <2>1 DEF ClientInv, ClientTypes, OneJob, Idle, None
    <2> QED  BY <2>1, <2>2 DEF HexInv, PageTypes, ReportShown, ReadsPending, ReadsOnce, HexOfReport
  <1>2. HexInv /\ [Next]_vars => HexInv'
    <2> SUFFICES ASSUME HexInv, [Next]_vars PROVE HexInv'
      OBVIOUS
    <2>1. CASE StaticSteps
      BY <2>1, StaticHexInv
    <2>2. CASE DynamicSteps \/ YaraSteps \/ UNCHANGED vars
      <3>1. UNCHANGED <<staticVars, staticPage, hexPage>>
        BY <2>2 DEF DynamicSteps, RunDynamic, RunRead, RunSettles, CancelDynamic, SelectDynamicProfile,
                    YaraSteps, RunYara, ScanArtifacts, BuffersRead, YaraTimeout, YaraResets,
                    ScannerAnswers, ScannerCrashes, EditRules, vars
      <3> QED  BY <3>1, KeptHexInv DEF staticPage
    <2> QED  BY <2>1, <2>2 DEF Next
  <1>3. HexInv => HexOfReport
    BY DEF HexInv
  <1> QED  BY <1>1, <1>2, <1>3, PTL DEF Spec

=============================================================================
