---------------------------- MODULE DynamicClient ----------------------------
(***************************************************************************)
(* DynamicAnalysisClient (web/src/dynamicClient.ts) and the worker it      *)
(* talks to (web/src/dynamic.worker.ts).  The page may call the client in  *)
(* any order.  The two sides run concurrently and exchange messages in     *)
(* order; terminating the worker loses what is under way.  Progress        *)
(* messages change nothing and are left out.                               *)
(***************************************************************************)
EXTENDS Integers, Sequences, FiniteSets

CONSTANTS
  Jobs,         \* ids of analyses: analyze and analyzeProfiles
  Reads,        \* ids of artifact reads
  Profiles,     \* environment profiles, the keys of sessions
  Batches,      \* lists of profiles an analysis may ask for
  MaxProfiles,  \* 4
  NoJob

Calls == Jobs \cup Reads

ASSUME ClientAssumption ==
  /\ Jobs \cap Reads = {} /\ NoJob \notin Calls
  /\ Batches \subseteq Seq(Profiles) /\ MaxProfiles \in Nat

VARIABLES
  outcome,        \* of the promise each call returned
  pending,        \* pending, the analyses waiting for an answer
  artifactReads,  \* artifactReads, the reads waiting for an answer
  timers,         \* the calls whose timeout is armed
  worker,         \* "none", or the state of its engineReady
  inbox,          \* messages to the worker
  waiting,        \* analyses that await engineReady
  sessions,       \* the analysis each profile's session comes from
  outbox,         \* messages of the worker
  latest,         \* auxiliary: the last analysis the page asked for
  batch,          \* auxiliary: the profiles it asked for
  intact,         \* auxiliary: the worker was not terminated since
  source          \* auxiliary: the analysis a read got its bytes from

client == <<outcome, pending, artifactReads, timers, latest, batch, intact, source>>
workerVars == <<worker, inbox, waiting, sessions, outbox>>
vars == <<client, workerVars>>

JobRequest == [call : Jobs, batch : Batches]
ReadRequest == [call : Reads, profile : Profiles]
Answer == [call : Calls, ok : {TRUE}, job : Jobs] \cup [call : Calls, ok : {FALSE}, job : {NoJob}]

TypeOK ==
  /\ outcome \in [Calls -> {"none", "pending", "resolved", "rejected"}]
  /\ pending \subseteq Jobs /\ artifactReads \subseteq Reads /\ timers \subseteq Calls
  /\ worker \in {"none", "loading", "ready", "broken"}
  /\ inbox \in Seq(JobRequest \cup ReadRequest) /\ waiting \in Seq(JobRequest)
  /\ sessions \in [Profiles -> Jobs \cup {NoJob}]
  /\ outbox \in Seq(Answer)
  /\ latest \in Jobs \cup {NoJob} /\ batch \in Seq(Profiles) /\ intact \in BOOLEAN
  /\ source \in [Reads -> Jobs \cup {NoJob}]

NoSessions == [p \in Profiles |-> NoJob]

Init ==
  /\ outcome = [c \in Calls |-> "none"]
  /\ pending = {} /\ artifactReads = {} /\ timers = {}
  /\ worker = "none" /\ inbox = <<>> /\ waiting = <<>> /\ outbox = <<>>
  /\ sessions = NoSessions
  /\ latest = NoJob /\ batch = <<>> /\ intact = FALSE
  /\ source = [r \in Reads |-> NoJob]

-----------------------------------------------------------------------------
(* The client *)

Open == pending \cup artifactReads

RejectedJobs == pending
\* The promises failAndReset rejects.
Rejected == Open

\* failAndReset: everything open is rejected and the worker is terminated;
\* `fired` is the timer that brought it about.  Nothing tells the page of it if
\* nothing is open: it keeps the reports it shows.
FailAndReset(fired) ==
  /\ outcome' = [c \in Calls |-> IF c \in Rejected THEN "rejected" ELSE outcome[c]]
  /\ pending' = {} /\ artifactReads' = {}
  /\ timers' = timers \ (Open \cup fired)
  /\ worker' = "none" /\ inbox' = <<>> /\ waiting' = <<>> /\ outbox' = <<>>
  /\ sessions' = NoSessions
  /\ intact' = FALSE
  /\ UNCHANGED <<latest, batch, source>>

ResetsIfPending == pending # {}
\* cancel has something to do.
Resets == worker # "none" \/ pending # {}

Cancel == Resets /\ FailAndReset({})

\* ensureWorker and postMessage, to the worker there is unless it was reset.
Post(message, reset) ==
  IF reset \/ worker = "none"
  THEN /\ worker' = "loading" /\ inbox' = <<message>> /\ waiting' = <<>> /\ outbox' = <<>>
       /\ sessions' = NoSessions
  ELSE /\ inbox' = Append(inbox, message)
       /\ UNCHANGED <<worker, waiting, outbox, sessions>>

\* analyze and analyzeProfiles cancel first.
Analyze(j, profiles) ==
  LET lost == IF Resets THEN Open ELSE {}
  IN  /\ outcome[j] = "none"
      /\ outcome' = [c \in Calls |-> IF c = j THEN "pending"
                                     ELSE IF c \in lost THEN "rejected" ELSE outcome[c]]
      /\ pending' = (pending \ lost) \cup {j}
      /\ artifactReads' = artifactReads \ lost
      /\ timers' = (timers \ lost) \cup {j}
      /\ Post([call |-> j, batch |-> profiles], Resets)
      /\ latest' = j /\ batch' = profiles /\ intact' = TRUE
      /\ UNCHANGED source

\* requestArtifact
ReadArtifact(r, profile) ==
  /\ outcome[r] = "none"
  /\ outcome' = [outcome EXCEPT ![r] = "pending"]
  /\ artifactReads' = artifactReads \cup {r}
  /\ timers' = timers \cup {r}
  /\ Post([call |-> r, profile |-> profile], FALSE)
  /\ UNCHANGED <<pending, latest, batch, intact, source>>

AnalysisTimeout(j) == j \in timers /\ FailAndReset({j})

\* The timeout of a read leaves the worker and the other calls alone.
ReadTimeout(r) ==
  /\ r \in timers
  /\ outcome' = [outcome EXCEPT ![r] = "rejected"]
  /\ artifactReads' = artifactReads \ {r}
  /\ timers' = timers \ {r}
  /\ UNCHANGED <<pending, latest, batch, intact, source, workerVars>>

\* onerror and onmessageerror
Crash == worker # "none" /\ FailAndReset({})

StillTimed(c) == timers
Untimed(c) == timers \ {c}

\* handleMessage: an answer to a call that is no longer open is dropped.
HandleMessage ==
  /\ outbox # <<>>
  /\ outbox' = Tail(outbox)
  /\ LET a == Head(outbox)
     IN  IF a.call \in Open
         THEN /\ outcome' = [outcome EXCEPT ![a.call] = IF a.ok THEN "resolved" ELSE "rejected"]
              /\ pending' = pending \ {a.call}
              /\ artifactReads' = artifactReads \ {a.call}
              /\ timers' = Untimed(a.call)
              /\ source' = IF a.call \in Reads /\ a.ok
                           THEN [source EXCEPT ![a.call] = a.job] ELSE source
         ELSE UNCHANGED <<outcome, pending, artifactReads, timers, source>>
  /\ UNCHANGED <<worker, inbox, waiting, sessions, latest, batch, intact>>

-----------------------------------------------------------------------------
(* The worker *)

AcceptedAny(profiles) == Len(profiles) \in 1..MaxProfiles
\* The matrix has one to four profiles and names none twice.
Accepted(profiles) ==
  /\ Len(profiles) \in 1..MaxProfiles
  /\ \A i, k \in 1..Len(profiles) : profiles[i] = profiles[k] => i = k

\* The handler of an analysis from `await engineReady` to its end.  Analysing
\* the sample may fail; whatever fails leaves no session behind.
Execute(request) ==
  \/ /\ worker = "ready" /\ Accepted(request.batch)
     /\ sessions' = [p \in Profiles |->
          IF \E i \in 1..Len(request.batch) : request.batch[i] = p
          THEN request.call ELSE NoJob]
     /\ outbox' = Append(outbox, [call |-> request.call, ok |-> TRUE, job |-> request.call])
  \/ /\ sessions' = NoSessions
     /\ outbox' = Append(outbox, [call |-> request.call, ok |-> FALSE, job |-> NoJob])

\* What awaited the engine goes on before the next message is looked at.
MayHandle == inbox # <<>> /\ (worker = "loading" \/ waiting = <<>>)

HandleJob ==
  /\ MayHandle /\ Head(inbox).call \in Jobs
  /\ inbox' = Tail(inbox)
  /\ IF worker = "loading"
     THEN waiting' = Append(waiting, Head(inbox)) /\ UNCHANGED <<sessions, outbox>>
     ELSE Execute(Head(inbox)) /\ UNCHANGED waiting
  /\ UNCHANGED <<worker, client>>

Resume ==
  /\ waiting # <<>> /\ worker # "loading"
  /\ waiting' = Tail(waiting)
  /\ Execute(Head(waiting))
  /\ UNCHANGED <<worker, inbox, client>>

\* What becomes of a read from the session of `job`, which may not have the
\* artifact; without a session it fails.
Served(job) == {FALSE, job # NoJob}

\* read-artifact never waits.
HandleRead ==
  /\ MayHandle /\ Head(inbox).call \in Reads
  /\ inbox' = Tail(inbox)
  /\ LET job == sessions[Head(inbox).profile]
     IN  \E ok \in Served(job) :
           outbox' = Append(outbox, [call |-> Head(inbox).call, ok |-> ok,
                                     job |-> IF ok THEN job ELSE NoJob])
  /\ UNCHANGED <<worker, waiting, sessions, client>>

EngineLoads ==
  /\ worker = "loading"
  /\ worker' \in {"ready", "broken"}
  /\ UNCHANGED <<inbox, waiting, sessions, outbox, client>>

-----------------------------------------------------------------------------

Timeout(c) == (c \in Jobs /\ AnalysisTimeout(c)) \/ (c \in Reads /\ ReadTimeout(c))

Page == \/ \E j \in Jobs, b \in Batches : Analyze(j, b)
        \/ \E r \in Reads, p \in Profiles : ReadArtifact(r, p)
        \/ Cancel

Next == \/ Page \/ Crash \/ HandleMessage
        \/ \E c \in Calls : Timeout(c)
        \/ HandleJob \/ Resume \/ HandleRead \/ EngineLoads

\* Timers fire; nothing is assumed of the worker, which may hang, nor of the
\* page.
Spec == Init /\ [][Next]_vars /\ \A c \in Calls : WF_vars(Timeout(c))

-----------------------------------------------------------------------------
(* Properties *)

\* A promise is pending exactly as long as its call is in one of the client's
\* maps and its timeout is armed: no promise is forgotten, and no timeout is
\* left behind that would reset a later analysis (dynamicClient.ts:20-117).
OpenCallsTimed ==
  /\ {c \in Calls : outcome[c] = "pending"} = Open
  /\ timers = Open

\* Artifacts are read by profile, not by analysis: a read is only ever
\* answered from the last analysis the page asked for, after its report, and as
\* long as the worker that made it lives.
ReadsCurrent ==
  [][\A r \in Reads : outcome[r] = "pending" /\ outcome'[r] = "resolved"
       => /\ latest # NoJob /\ source'[r] = latest
          /\ outcome[latest] = "resolved" /\ intact]_vars

\* An analysis that has reported to the page has a session for each of its
\* profiles in the worker until the worker is terminated.  If that is a crash
\* while nothing is open, the page goes on showing the reports; the worker the
\* next read starts holds no session, of this analysis or any other.
SessionsMatchReports ==
  latest # NoJob /\ outcome[latest] = "resolved" =>
    IF intact THEN Cardinality({p \in Profiles : sessions[p] = latest}) = Len(batch)
              ELSE sessions = NoSessions

\* The client keeps the promises of Requests, whatever the worker does.
R == INSTANCE Requests
ImplementsRequests == R!Spec

=============================================================================
