---------------------------- MODULE StaticClient ----------------------------
(***************************************************************************)
(* AnalysisClient (web/src/analysisClient.ts) and the worker it talks to   *)
(* (web/src/analyzer.worker.ts): operators for what the page's calls do to *)
(* the client, and the steps of the worker.  A call is named by the file   *)
(* or the hex read it is for; progress messages are left out.              *)
(***************************************************************************)
EXTENDS Integers, Sequences

CONSTANTS Files, HexReads, NoFile

ASSUME StaticAssumption == NoFile \notin Files /\ Files \cap HexReads = {}

VARIABLES
  analyses,  \* pendingAnalysis
  hexes,     \* pendingHex
  timers,    \* the analyses whose timeout is armed
  analyzer,  \* "none", or the state of the worker's engineReady
  toAnalyzer, fromAnalyzer,
  suspended, \* the analyses that await engineReady
  sample     \* currentSample of the worker

analyzerVars == <<analyzer, toAnalyzer, fromAnalyzer, suspended, sample>>
staticVars == <<analyses, hexes, timers, analyzerVars>>

CloseSampleMsg == [type |-> "close-sample"]

\* The page warms the worker up when it is mounted.
StaticInit ==
  /\ analyses = {} /\ hexes = {} /\ timers = {}
  /\ analyzer = "loading" /\ toAnalyzer = <<>> /\ fromAnalyzer = <<>>
  /\ suspended = <<>> /\ sample = NoFile

Terminated(state) ==
  /\ analyzer' = state /\ fromAnalyzer' = <<>> /\ suspended' = <<>> /\ sample' = NoFile

\* failAndReset: every promise is rejected and the worker terminated.
FailAndResetStatic ==
  /\ analyses' = {} /\ hexes' = {} /\ timers' = timers \ analyses
  /\ Terminated("none") /\ toAnalyzer' = <<>>

MustResetIfReading == hexes # {}
\* cancel finds something to reject.
MustReset == analyses \cup hexes # {}

\* cancel, close
CancelStatic ==
  IF MustReset THEN FailAndResetStatic
  ELSE /\ toAnalyzer' = IF analyzer = "none" THEN <<>> ELSE Append(toAnalyzer, CloseSampleMsg)
       /\ UNCHANGED <<analyses, hexes, timers, analyzer, fromAnalyzer, suspended, sample>>

\* analyze: cancel, ensureWorker, postMessage
Analyze(f) ==
  LET request == [type |-> "analyze", file |-> f]
  IN  /\ analyses' = (IF MustReset THEN {} ELSE analyses) \cup {f}
      /\ timers' = (IF MustReset THEN timers \ analyses ELSE timers) \cup {f}
      /\ hexes' = IF MustReset THEN {} ELSE hexes
      /\ IF MustReset \/ analyzer = "none"
         THEN Terminated("loading") /\ toAnalyzer' = <<request>>
         ELSE /\ toAnalyzer' = toAnalyzer \o <<CloseSampleMsg, request>>
              /\ UNCHANGED <<analyzer, fromAnalyzer, suspended, sample>>

\* readHex, once there is a worker: no timeout is armed.
ReadHex(r) ==
  /\ analyzer # "none"
  /\ hexes' = hexes \cup {r}
  /\ toAnalyzer' = Append(toAnalyzer, [type |-> "read-hex", read |-> r])
  /\ UNCHANGED <<analyses, timers, analyzer, fromAnalyzer, suspended, sample>>

\* handleMessage: what an answer settles.
Received ==
  LET a == Head(fromAnalyzer)
  IN  /\ fromAnalyzer' = Tail(fromAnalyzer)
      /\ analyses' = analyses \ {a.call} /\ timers' = timers \ {a.call}
      /\ hexes' = hexes \ {a.call}
      /\ UNCHANGED <<analyzer, toAnalyzer, suspended, sample>>

-----------------------------------------------------------------------------
(* The worker *)

\* An analysis from `await engineReady` on; if it fails the sample is dropped.
ExecuteAnalysis(f) ==
  \/ /\ analyzer = "ready" /\ sample' = f
     /\ fromAnalyzer' = Append(fromAnalyzer, [call |-> f, ok |-> TRUE])
  \/ /\ sample' = NoFile
     /\ fromAnalyzer' = Append(fromAnalyzer, [call |-> f, ok |-> FALSE])

\* What awaited the engine goes on before the next message is looked at.
AnalyzerFree == toAnalyzer # <<>> /\ (analyzer = "loading" \/ suspended = <<>>)

HandleAnalyze ==
  LET f == Head(toAnalyzer).file
  IN  /\ AnalyzerFree /\ Head(toAnalyzer).type = "analyze"
      /\ toAnalyzer' = Tail(toAnalyzer)
      /\ IF analyzer = "loading"
         THEN suspended' = Append(suspended, f) /\ UNCHANGED <<fromAnalyzer, sample>>
         ELSE ExecuteAnalysis(f) /\ UNCHANGED suspended
      /\ UNCHANGED <<analyses, hexes, timers, analyzer>>

ResumeAnalysis ==
  /\ suspended # <<>> /\ analyzer # "loading"
  /\ suspended' = Tail(suspended) /\ ExecuteAnalysis(Head(suspended))
  /\ UNCHANGED <<analyses, hexes, timers, analyzer, toAnalyzer>>

\* Bytes of the sample there is, or none.
HandleReadHex ==
  /\ AnalyzerFree /\ Head(toAnalyzer).type = "read-hex"
  /\ toAnalyzer' = Tail(toAnalyzer)
  /\ fromAnalyzer' = Append(fromAnalyzer, [call |-> Head(toAnalyzer).read, bytes |-> sample])
  /\ UNCHANGED <<analyses, hexes, timers, analyzer, suspended, sample>>

HandleCloseSample ==
  /\ AnalyzerFree /\ Head(toAnalyzer) = CloseSampleMsg
  /\ toAnalyzer' = Tail(toAnalyzer) /\ sample' = NoFile
  /\ UNCHANGED <<analyses, hexes, timers, analyzer, fromAnalyzer, suspended>>

AnalyzerLoads ==
  /\ analyzer = "loading" /\ analyzer' \in {"ready", "broken"}
  /\ UNCHANGED <<analyses, hexes, timers, toAnalyzer, fromAnalyzer, suspended, sample>>

AnalyzerStep ==
  HandleAnalyze \/ ResumeAnalysis \/ HandleReadHex \/ HandleCloseSample \/ AnalyzerLoads

=============================================================================
