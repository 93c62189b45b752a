----------------------------- MODULE YaraClient -----------------------------
(***************************************************************************)
(* YaraClient (web/src/yaraClient.ts) and the worker it talks to           *)
(* (web/src/yara.worker.ts).  One operation of the page makes two          *)
(* requests, a compilation and a scan, which its name stands for; progress *)
(* messages are left out.                                                  *)
(***************************************************************************)
EXTENDS Integers, Sequences

CONSTANTS Scans, Sources, NoRules

ASSUME YaraAssumption == NoRules \notin Sources

VARIABLES
  requests,  \* pending, by the operation that made the request
  alarms,    \* the requests whose timeout is armed
  scanner,   \* "none", or the state of the worker's engine
  toScanner, fromScanner,
  held,      \* the requests that await loadEngine
  compiled   \* the rules of the worker

scannerVars == <<scanner, toScanner, fromScanner, held, compiled>>
yaraClientVars == <<requests, alarms, scannerVars>>

YaraInit ==
  /\ requests = {} /\ alarms = {}
  /\ scanner = "none" /\ toScanner = <<>> /\ fromScanner = <<>>
  /\ held = <<>> /\ compiled = NoRules

Replaced(state) ==
  scanner' = state /\ fromScanner' = <<>> /\ held' = <<>> /\ compiled' = NoRules

FailAndResetYara ==
  /\ requests' = {} /\ alarms' = alarms \ requests
  /\ Replaced("none") /\ toScanner' = <<>>

\* request starts over when another request is pending.
RequestReplaces == requests # {}

\* compile, scan, scanArtifacts
Request(y, message) ==
  /\ requests' = (IF RequestReplaces THEN {} ELSE requests) \cup {y}
  /\ alarms' = (IF RequestReplaces THEN alarms \ requests ELSE alarms) \cup {y}
  /\ IF RequestReplaces \/ scanner = "none"
     THEN Replaced("loading") /\ toScanner' = <<message>>
     ELSE /\ toScanner' = Append(toScanner, message)
          /\ UNCHANGED <<scanner, fromScanner, held, compiled>>

\* reset, whatever is pending
ResetYara ==
  /\ toScanner' = IF scanner = "none" THEN <<>> ELSE Append(toScanner, [type |-> "reset"])
  /\ UNCHANGED <<requests, alarms, scanner, fromScanner, held, compiled>>

\* handle: what an answer settles.
Answered ==
  LET y == Head(fromScanner).call
  IN  /\ fromScanner' = Tail(fromScanner)
      /\ requests' = requests \ {y} /\ alarms' = alarms \ {y}
      /\ UNCHANGED <<scanner, toScanner, held, compiled>>

-----------------------------------------------------------------------------
(* The worker *)

\* A request from `await loadEngine()` on: its answer, and the rules after it.
ExecuteRequest(m) ==
  \E ok \in BOOLEAN :
    /\ ok => scanner = "ready" /\ (m.type = "scan" => compiled # NoRules)
    /\ compiled' = IF ok /\ m.type = "compile" THEN m.rules ELSE compiled
    /\ fromScanner' = Append(fromScanner, [call |-> m.call, ok |-> ok, rules |-> compiled'])

ScannerFree == toScanner # <<>> /\ (scanner = "loading" \/ held = <<>>)

HandleRequest ==
  /\ ScannerFree /\ Head(toScanner).type # "reset"
  /\ toScanner' = Tail(toScanner)
  /\ IF scanner = "loading"
     THEN held' = Append(held, Head(toScanner)) /\ UNCHANGED <<fromScanner, compiled>>
     ELSE ExecuteRequest(Head(toScanner)) /\ UNCHANGED held
  /\ UNCHANGED <<requests, alarms, scanner>>

ResumeRequest ==
  /\ held # <<>> /\ scanner # "loading"
  /\ held' = Tail(held) /\ ExecuteRequest(Head(held))
  /\ UNCHANGED <<requests, alarms, scanner, toScanner>>

HandleReset ==
  /\ ScannerFree /\ Head(toScanner).type = "reset"
  /\ toScanner' = Tail(toScanner) /\ compiled' = NoRules
  /\ UNCHANGED <<requests, alarms, scanner, fromScanner, held>>

ScannerLoads ==
  /\ scanner = "loading" /\ scanner' \in {"ready", "broken"}
  /\ UNCHANGED <<requests, alarms, toScanner, fromScanner, held, compiled>>

ScannerStep == HandleRequest \/ ResumeRequest \/ HandleReset \/ ScannerLoads

=============================================================================
