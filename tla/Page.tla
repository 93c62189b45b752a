-------------------------------- MODULE Page --------------------------------
(***************************************************************************)
(* What the page shows (App in web/src/App.tsx) while files are read and   *)
(* analysed, rules are compiled and run, and the user opens, closes and    *)
(* edits at any time.  A handler of the page and what follows the settling *)
(* of a promise are one step with the client's, for nothing comes between  *)
(* them.  The dynamic client, which has a module of its own, is present by *)
(* its contract: an analysis is settled once, in any way.                  *)
(***************************************************************************)
EXTENDS StaticClient, YaraClient

CONSTANTS
  Runs, NoRun,
  MaxQueued  \* a bound of the model: rules are only edited while fewer messages wait

ASSUME PageAssumption == NoRun \notin Runs

VARIABLES
  status, current, report,              \* of the static analysis
  opening,                              \* how far inspectFile has come, per file
  hexOf,                                \* auxiliary: the report a hex read was for
  bytesOf,                              \* auxiliary: the file it got bytes of
  dynamicRun, runs, runFile,            \* dynamicRun.current; the runs and their files
  dynamicStatus, dynamicReport,
  source, yaraStatus, yaraSummary, yaraReport, artifactYaraStatus,
  scans                                 \* how far the operations on rules have come

staticPage == <<status, current, report, opening>>
hexPage == <<hexOf, bytesOf>>
dynamicPage == <<dynamicRun, runs, runFile, dynamicStatus, dynamicReport>>
yaraPage == <<source, yaraStatus, yaraSummary, yaraReport, artifactYaraStatus, scans>>
vars == <<staticVars, yaraClientVars, staticPage, hexPage, dynamicPage, yaraPage>>

NoScan == [phase |-> "none", kind |-> "none", rules |-> NoRules, file |-> NoFile]

Init ==
  /\ StaticInit /\ YaraInit
  /\ status = "idle" /\ current = NoFile /\ report = NoFile
  /\ opening = [f \in Files |-> "none"]
  /\ hexOf = [r \in HexReads |-> NoFile] /\ bytesOf = hexOf
  /\ dynamicRun = NoRun /\ runs = [d \in Runs |-> "none"] /\ runFile = [d \in Runs |-> NoFile]
  /\ dynamicStatus = "idle" /\ dynamicReport = NoFile
  /\ source \in Sources /\ yaraStatus = "idle" /\ yaraSummary = NoRules
  /\ yaraReport = NoScan /\ artifactYaraStatus = "idle"
  /\ scans = [y \in Scans |-> NoScan]

Busy == status \in {"reading", "analyzing"}
UploadPanel == report = NoFile /\ ~Busy
Workspace == report # NoFile /\ status = "done"

-----------------------------------------------------------------------------
(* Opening and closing files *)

\* resetDynamic, except for artifactYara: the client rejects what is pending,
\* which is no longer the page's run.
ResetDynamic ==
  /\ dynamicRun' = NoRun
  /\ runs' = [d \in Runs |-> IF runs[d] = "pending" THEN "over" ELSE runs[d]]
  /\ dynamicStatus' = "idle" /\ dynamicReport' = NoFile /\ UNCHANGED runFile

\* inspectFile up to the reading of the file
InspectFile(f) ==
  /\ ResetDynamic
  /\ yaraReport' = NoScan /\ artifactYaraStatus' = "idle"
  /\ current' = f /\ report' = NoFile /\ status' = "reading"
  /\ opening' = [opening EXCEPT ![f] = "reading"]
  /\ UNCHANGED <<staticVars, yaraClientVars, hexPage, source, yaraStatus, yaraSummary, scans>>

ChooseFile(f) == UploadPanel /\ opening[f] = "none" /\ InspectFile(f)

\* A safe demo: the panel stays while it is fetched.
FetchDemo(f) ==
  /\ UploadPanel /\ opening[f] = "none"
  /\ opening' = [opening EXCEPT ![f] = "fetching"]
  /\ UNCHANGED <<staticVars, yaraClientVars, status, current, report, hexPage, dynamicPage, yaraPage>>
DemoArrives(f) == opening[f] = "fetching" /\ InspectFile(f)

\* A demo that cannot be fetched, a file that is empty, too large or unreadable.
OpeningFails(f) ==
  /\ \/ opening[f] \in {"fetching", "reading"}
     \/ UploadPanel /\ opening[f] = "none"
  /\ opening' = [opening EXCEPT ![f] = "over"] /\ status' = "error"
  /\ UNCHANGED <<staticVars, yaraClientVars, current, report, hexPage, dynamicPage, yaraPage>>

\* The status after a call of the client: what it rejects ends in an error,
\* after the caller has gone on.
AfterReset(next) == IF MustReset /\ analyses # {} THEN "error" ELSE next

\* inspectFile from the buffer on
FileRead(f) ==
  /\ opening[f] = "reading"
  /\ opening' = [opening EXCEPT ![f] = "over"]
  /\ Analyze(f) /\ status' = AfterReset("analyzing")
  /\ UNCHANGED <<yaraClientVars, current, report, hexPage, dynamicPage, yaraPage>>

\* A message of the analyzer; one whose promise is gone is dropped.
AnalyzerAnswers ==
  LET a == Head(fromAnalyzer)
  IN  /\ fromAnalyzer # <<>> /\ Received
      /\ IF a.call \in analyses
         THEN /\ report' = IF a.ok THEN a.call ELSE report
              /\ status' = IF a.ok THEN "done" ELSE "error"
         ELSE UNCHANGED <<report, status>>
      /\ bytesOf' = IF a.call \in hexes THEN [bytesOf EXCEPT ![a.call] = a.bytes] ELSE bytesOf
      /\ UNCHANGED <<yaraClientVars, current, opening, hexOf, dynamicPage, yaraPage>>

\* A timeout, onerror or onmessageerror.
StaticReset ==
  /\ FailAndResetStatic
  /\ status' = IF analyses # {} THEN "error" ELSE status
  /\ UNCHANGED <<yaraClientVars, current, report, opening, hexPage, dynamicPage, yaraPage>>
AnalysisTimeout(f) == f \in timers /\ StaticReset
AnalyzerCrashes == analyzer # "none" /\ StaticReset

\* Cancel while the file is read or analysed, Close afterwards.
CloseSample ==
  /\ Busy \/ Workspace
  /\ CancelStatic /\ ResetDynamic
  /\ current' = NoFile /\ report' = NoFile /\ status' = AfterReset("idle")
  /\ artifactYaraStatus' = "idle"
  /\ UNCHANGED <<yaraClientVars, opening, hexPage, source, yaraStatus, yaraSummary, yaraReport, scans>>

\* HexView asks for a page of the file.
ShowHex(r) ==
  /\ Workspace /\ hexOf[r] = NoFile /\ ReadHex(r)
  /\ hexOf' = [hexOf EXCEPT ![r] = report]
  /\ UNCHANGED <<yaraClientVars, staticPage, bytesOf, dynamicPage, yaraPage>>

StaticSteps ==
  \/ \E f \in Files : \/ ChooseFile(f) \/ FetchDemo(f) \/ DemoArrives(f) \/ OpeningFails(f)
                      \/ FileRead(f) \/ AnalysisTimeout(f)
  \/ AnalyzerAnswers \/ AnalyzerCrashes \/ CloseSample
  \/ \E r \in HexReads : ShowHex(r)
  \/ AnalyzerStep /\ UNCHANGED <<yaraClientVars, staticPage, hexPage, dynamicPage, yaraPage>>

-----------------------------------------------------------------------------
(* Dynamic analysis *)

\* runDynamicAnalysis, runDynamicProfiles
RunDynamic(d) ==
  /\ Workspace /\ current # NoFile /\ dynamicStatus # "running" /\ runs[d] = "none"
  /\ dynamicRun' = d /\ runs' = [runs EXCEPT ![d] = "reading"]
  /\ runFile' = [runFile EXCEPT ![d] = current]
  /\ dynamicStatus' = "running" /\ dynamicReport' = NoFile /\ artifactYaraStatus' = "idle"
  /\ UNCHANGED <<staticVars, yaraClientVars, staticPage, hexPage, source, yaraStatus, yaraSummary,
                 yaraReport, scans>>

\* The file has been read, and DynamicClient's analyze replaces what is pending.
RunRead(d) ==
  /\ runs[d] = "reading"
  /\ runs' = [e \in Runs |-> IF e = d THEN "pending" ELSE IF runs[e] = "pending" THEN "over" ELSE runs[e]]
  /\ dynamicStatus' = IF \E e \in Runs : runs[e] = "pending" /\ e = dynamicRun THEN "error" ELSE dynamicStatus
  /\ UNCHANGED <<staticVars, yaraClientVars, staticPage, hexPage, dynamicRun, runFile, dynamicReport, yaraPage>>

AnyRun(d) == TRUE
\* dynamicRun.current === run
IsCurrentRun(d) == dynamicRun = d

\* The promise of a run is settled, or its file cannot be read.
RunSettles(d) ==
  \E ok \in BOOLEAN :
    /\ runs[d] = "pending" \/ (runs[d] = "reading" /\ ~ok)
    /\ runs' = [runs EXCEPT ![d] = "over"]
    /\ dynamicReport' = IF IsCurrentRun(d) /\ ok THEN runFile[d] ELSE dynamicReport
    /\ dynamicStatus' = IF ~IsCurrentRun(d) THEN dynamicStatus ELSE IF ok THEN "done" ELSE "error"
    /\ UNCHANGED <<staticVars, yaraClientVars, staticPage, hexPage, dynamicRun, runFile, yaraPage>>

CancelDynamic ==
  /\ Workspace /\ dynamicStatus = "running"
  /\ dynamicRun' = NoRun
  /\ runs' = [d \in Runs |-> IF runs[d] = "pending" THEN "over" ELSE runs[d]]
  /\ dynamicStatus' = "idle"
  /\ UNCHANGED <<staticVars, yaraClientVars, staticPage, hexPage, runFile, dynamicReport, yaraPage>>

\* Another profile, with a report of the matrix or without one.
SelectDynamicProfile ==
  /\ Workspace /\ dynamicReport # NoFile
  /\ \/ artifactYaraStatus' = "idle" /\ UNCHANGED <<dynamicStatus, dynamicReport>>
     \/ /\ dynamicReport' = NoFile /\ dynamicStatus' = "idle"
        /\ UNCHANGED artifactYaraStatus
  /\ UNCHANGED <<staticVars, yaraClientVars, staticPage, hexPage, dynamicRun, runs, runFile,
                 source, yaraStatus, yaraSummary, yaraReport, scans>>

DynamicSteps ==
  CancelDynamic \/ SelectDynamicProfile \/ \E d \in Runs : RunDynamic(d) \/ RunRead(d) \/ RunSettles(d)

-----------------------------------------------------------------------------
(* Rules *)

\* Operations end without a trace.
StatusKept(kind, failed, next) == next
\* The operations `failed` end in their catch: the status each kind is left with.
StatusAfter(kind, failed, next) == IF \E y \in failed : scans[y].kind = kind THEN "error" ELSE next
EndScans(failed) == [y \in Scans |-> IF y \in failed THEN [scans[y] EXCEPT !.phase = "over"] ELSE scans[y]]
Lost == IF RequestReplaces THEN requests ELSE {}

\* compileAndScanYara up to its first await
RunYara(y) ==
  /\ Workspace /\ current # NoFile /\ yaraStatus # "running" /\ scans[y] = NoScan
  /\ Request(y, [type |-> "compile", call |-> y, rules |-> source])
  /\ scans' = [EndScans(Lost) EXCEPT ![y] = [phase |-> "compiling", kind |-> "file",
                                             rules |-> source, file |-> current]]
  /\ yaraReport' = NoScan
  /\ yaraStatus' = StatusAfter("file", Lost, "running")
  /\ artifactYaraStatus' = StatusAfter("artifacts", Lost, artifactYaraStatus)
  /\ UNCHANGED <<staticVars, staticPage, hexPage, dynamicPage, source, yaraSummary>>

\* scanDynamicArtifacts up to its first await
ScanArtifacts(y) ==
  /\ Workspace /\ dynamicReport # NoFile /\ artifactYaraStatus # "running" /\ scans[y] = NoScan
  /\ Request(y, [type |-> "compile", call |-> y, rules |-> source])
  /\ scans' = [EndScans(Lost) EXCEPT ![y] = [phase |-> "compiling", kind |-> "artifacts",
                                             rules |-> source, file |-> dynamicReport]]
  /\ artifactYaraStatus' = StatusAfter("artifacts", Lost, "running")
  /\ yaraStatus' = StatusAfter("file", Lost, yaraStatus)
  /\ UNCHANGED <<staticVars, staticPage, hexPage, dynamicPage, source, yaraSummary, yaraReport>>

\* The buffers for the scan have been read, or could not be.
BuffersRead(y) ==
  /\ scans[y].phase = "reading"
  /\ \/ /\ Request(y, [type |-> "scan", call |-> y])
        /\ scans' = [EndScans(Lost) EXCEPT ![y].phase = "scanning"]
        /\ yaraStatus' = StatusAfter("file", Lost, yaraStatus)
        /\ artifactYaraStatus' = StatusAfter("artifacts", Lost, artifactYaraStatus)
     \/ /\ scans' = EndScans({y})
        /\ yaraStatus' = StatusAfter("file", {y}, yaraStatus)
        /\ artifactYaraStatus' = StatusAfter("artifacts", {y}, artifactYaraStatus)
        /\ UNCHANGED yaraClientVars
  /\ UNCHANGED <<staticVars, staticPage, hexPage, dynamicPage, source, yaraSummary, yaraReport>>

\* A message of the scanner, which only ever has one request.
ScannerAnswers ==
  LET a == Head(fromScanner)
      s == scans[a.call]
      done == s.phase = "scanning"
      ofFile == s.kind = "file"
      ending == IF ~a.ok THEN "error" ELSE "done"
  IN  /\ fromScanner # <<>> /\ Answered
      /\ scans' = IF a.ok /\ ~done THEN [scans EXCEPT ![a.call].phase = "reading"] ELSE EndScans({a.call})
      /\ yaraSummary' = IF a.ok /\ ~done /\ ofFile THEN a.rules ELSE yaraSummary
      /\ yaraReport' = IF a.ok /\ done /\ ofFile THEN [s EXCEPT !.rules = a.rules, !.phase = "over"]
                       ELSE yaraReport
      /\ yaraStatus' = IF ofFile /\ (done \/ ~a.ok) THEN ending ELSE yaraStatus
      /\ artifactYaraStatus' = IF ~ofFile /\ (done \/ ~a.ok) THEN ending ELSE artifactYaraStatus
      /\ UNCHANGED <<staticVars, staticPage, hexPage, dynamicPage, source>>

\* A timeout, onerror or onmessageerror.
YaraResets ==
  /\ FailAndResetYara
  /\ scans' = EndScans(requests)
  /\ yaraStatus' = StatusAfter("file", requests, yaraStatus)
  /\ artifactYaraStatus' = StatusAfter("artifacts", requests, artifactYaraStatus)
  /\ UNCHANGED <<staticVars, staticPage, hexPage, dynamicPage, source, yaraSummary, yaraReport>>
YaraTimeout(y) == y \in alarms /\ YaraResets
ScannerCrashes == scanner # "none" /\ YaraResets

\* onYaraSource: an import or the starter pack, at any time.
EditRules(s) ==
  /\ Workspace /\ Len(toScanner) < MaxQueued
  /\ ResetYara
  /\ source' = s /\ yaraSummary' = NoRules /\ yaraReport' = NoScan /\ yaraStatus' = "idle"
  /\ UNCHANGED <<staticVars, staticPage, hexPage, dynamicPage, artifactYaraStatus, scans>>

YaraSteps ==
  \/ \E y \in Scans : RunYara(y) \/ ScanArtifacts(y) \/ BuffersRead(y) \/ YaraTimeout(y)
  \/ ScannerAnswers \/ ScannerCrashes
  \/ \E s \in Sources : EditRules(s)
  \/ ScannerStep /\ UNCHANGED <<staticVars, staticPage, hexPage, dynamicPage, yaraPage>>

-----------------------------------------------------------------------------

Next == StaticSteps \/ DynamicSteps \/ YaraSteps

\* The browser reads files and fires timers; neither worker need ever answer.
Spec ==
  /\ Init /\ [][Next]_vars
  /\ \A f \in Files : WF_vars(FileRead(f)) /\ WF_vars(AnalysisTimeout(f))
  /\ \A y \in Scans : WF_vars(BuffersRead(y)) /\ WF_vars(YaraTimeout(y))

-----------------------------------------------------------------------------
(* Properties *)

\* A dynamic report is only shown for the file that is open, however late the
\* promise of an earlier run is settled (App.tsx: dynamicRun).
DynamicOfOpenFile == dynamicReport # NoFile => dynamicReport = current

\* The bytes a hex read gets are those of the file whose report asked for them,
\* though the worker answers from whatever sample it has (readHex, read-hex).
HexOfReport == \A r \in HexReads : bytesOf[r] # NoFile => bytesOf[r] = hexOf[r]

\* The page never stays busy, though a worker may hang: nothing it waits for is
\* forgotten, and no edit or close leaves a spinner behind.
NeverStuck ==
  /\ Busy ~> ~Busy
  /\ (yaraStatus = "running") ~> (yaraStatus # "running")
  /\ (artifactYaraStatus = "running") ~> (artifactYaraStatus # "running")

\* docs/security-model.md:23-24: "Cancelling, timing out, closing, replacing, or
\* crashing terminates the relevant worker and drops its buffer".
ClosedDropsSample == current = NoFile /\ toAnalyzer = <<>> => sample = NoFile

=============================================================================
