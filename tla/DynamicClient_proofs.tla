------------------------ MODULE DynamicClient_proofs ------------------------
(***************************************************************************)
(* What holds of DynamicClient for any number of calls and any profiles:   *)
(* no promise is forgotten, no timeout is left behind, and a promise is    *)
(* settled once.  Nothing the worker does can disturb this: the proofs use *)
(* no more of a message than the call it names.  Then, of the worker too:  *)
(* as long as it lives its sessions are those of the reports the page was  *)
(* given, and reads are answered from them alone.                          *)
(***************************************************************************)
EXTENDS DynamicClient, FiniteSetTheorems, SequenceTheorems, TLAPS

\* The types of the client's state that the proofs rest on.
ClientTypeOK ==
  /\ outcome \in [Calls -> R!Outcomes]
  /\ pending \subseteq Jobs /\ artifactReads \subseteq Reads

Inv == ClientTypeOK /\ OpenCallsTimed

LEMMA InitInv == Init => Inv
  BY DEF Init, Inv, ClientTypeOK, OpenCallsTimed, Open, Calls, R!Outcomes

-----------------------------------------------------------------------------
(* Every action keeps Inv *)

LEMMA FailAndResetInv ==
  ASSUME Inv, NEW fired \in SUBSET timers, FailAndReset(fired)
  PROVE  Inv'
  <1>1. fired \subseteq Open
    BY DEF Inv, OpenCallsTimed
  <1>2. timers' = {} /\ Open' = {}
    BY <1>1 DEF FailAndReset, Inv, OpenCallsTimed, Open
  <1>3. \A c \in Calls : outcome'[c] = IF c \in Open THEN "rejected" ELSE outcome[c]
    BY DEF FailAndReset, Rejected
  <1>4. {c \in Calls : outcome'[c] = "pending"} = {}
    BY <1>3 DEF Inv, OpenCallsTimed
  <1>5. ClientTypeOK'
    BY DEF FailAndReset, Rejected, Inv, ClientTypeOK, R!Outcomes
  <1> QED  BY <1>2, <1>4, <1>5 DEF Inv, OpenCallsTimed

LEMMA AnalyzeInv ==
  ASSUME Inv, NEW j \in Jobs, NEW b, Analyze(j, b)
  PROVE  Inv'
  <1> DEFINE lost == IF Resets THEN Open ELSE {}
  <1>1. lost \subseteq Open /\ j \in Calls
    BY DEF Calls
  <1>2. /\ outcome' = [c \in Calls |-> IF c = j THEN "pending"
                                     ELSE IF c \in lost THEN "rejected" ELSE outcome[c]]
        /\ pending' = (pending \ lost) \cup {j}
        /\ artifactReads' = artifactReads \ lost
        /\ timers' = (timers \ lost) \cup {j}
    BY DEF Analyze
  <1> HIDE DEF lost
  <1>3. ClientTypeOK'
    BY <1>2 DEF Inv, ClientTypeOK, R!Outcomes
  <1>4. Open' = (Open \ lost) \cup {j}
    BY <1>2 DEF Open
  <1>5. {c \in Calls : outcome'[c] = "pending"} = (Open \ lost) \cup {j}
    BY <1>1, <1>2 DEF Inv, OpenCallsTimed
  <1> QED  BY <1>2, <1>3, <1>4, <1>5 DEF Inv, OpenCallsTimed

LEMMA ReadArtifactInv ==
  ASSUME Inv, NEW r \in Reads, NEW p, ReadArtifact(r, p)
  PROVE  Inv'
  <1>1. /\ r \in Calls
        /\ outcome' = [outcome EXCEPT ![r] = "pending"]
        /\ pending' = pending
        /\ artifactReads' = artifactReads \cup {r}
        /\ timers' = timers \cup {r}
    BY DEF ReadArtifact, Calls
  <1>2. ClientTypeOK'
    BY <1>1 DEF Inv, ClientTypeOK, R!Outcomes
  <1>3. {c \in Calls : outcome'[c] = "pending"} = Open \cup {r}
    BY <1>1 DEF Inv, ClientTypeOK, OpenCallsTimed
  <1> QED  BY <1>1, <1>2, <1>3 DEF Inv, OpenCallsTimed, Open

\* What settling one open call does: a late answer and a read's timeout.
LEMMA SettledInv ==
  ASSUME Inv, NEW c \in Open, NEW o \in {"resolved", "rejected"},
         outcome' = [outcome EXCEPT ![c] = o],
         pending' = pending \ {c}, artifactReads' = artifactReads \ {c},
         timers' = timers \ {c}
  PROVE  Inv'
  <1>1. c \in Calls
    BY DEF Inv, ClientTypeOK, Open, Calls
  <1>2. ClientTypeOK'
    BY <1>1 DEF Inv, ClientTypeOK, R!Outcomes
  <1>3. {d \in Calls : outcome'[d] = "pending"} = Open \ {c}
    BY <1>1 DEF Inv, ClientTypeOK, OpenCallsTimed
  <1> QED  BY <1>2, <1>3 DEF Inv, OpenCallsTimed, Open

LEMMA ReadTimeoutInv ==
  ASSUME Inv, NEW r \in Reads, ReadTimeout(r)
  PROVE  Inv'
  <1>1. r \in Open /\ pending \ {r} = pending
    BY ClientAssumption DEF ReadTimeout, Inv, ClientTypeOK, OpenCallsTimed
  <1> QED  BY <1>1, SettledInv DEF ReadTimeout

LEMMA HandleMessageInv ==
  ASSUME Inv, HandleMessage
  PROVE  Inv'
  <1> DEFINE a == Head(outbox)
  <1>1. CASE a.call \in Open
    <2> DEFINE o == IF a.ok THEN "resolved" ELSE "rejected"
    <2>1. /\ outcome' = [outcome EXCEPT ![a.call] = o]
          /\ pending' = pending \ {a.call}
          /\ artifactReads' = artifactReads \ {a.call}
          /\ timers' = timers \ {a.call}
      BY <1>1 DEF HandleMessage, Untimed
    <2>2. o \in {"resolved", "rejected"}
      OBVIOUS
    <2> HIDE DEF a, o
    <2> QED  BY <1>1, <2>1, <2>2, SettledInv
  <1>2. CASE a.call \notin Open
    <2>1. UNCHANGED <<outcome, pending, artifactReads, timers>>
      BY <1>2 DEF HandleMessage
    <2> QED  BY <2>1 DEF Inv, ClientTypeOK, OpenCallsTimed, Open
  <1> QED  BY <1>1, <1>2

-----------------------------------------------------------------------------
(* Every step of the system is a step of Requests *)

Untouched == UNCHANGED <<outcome, pending, artifactReads, timers>>

LEMMA UntouchedInv == ASSUME Inv, Untouched PROVE Inv'
  BY DEF Untouched, Inv, ClientTypeOK, OpenCallsTimed, Open

\* The steps that concern the client's promises; the worker's own do not.
LEMMA Steps ==
  ASSUME [Next]_vars
  PROVE  \/ \E j \in Jobs, b \in Batches : Analyze(j, b)
         \/ \E r \in Reads, p \in Profiles : ReadArtifact(r, p)
         \/ \E fired \in SUBSET timers : FailAndReset(fired)
         \/ \E r \in Reads : ReadTimeout(r)
         \/ HandleMessage
         \/ Untouched
  <1>1. CASE Page
    BY <1>1 DEF Page, Cancel
  <1>2. CASE Crash
    BY <1>2 DEF Crash
  <1>3. CASE \E c \in Calls : Timeout(c)
    BY <1>3 DEF Timeout, AnalysisTimeout
  <1>4. CASE HandleJob \/ Resume \/ HandleRead \/ EngineLoads \/ UNCHANGED vars
    BY <1>4 DEF HandleJob, Resume, HandleRead, EngineLoads, vars, client, Untouched
  <1> QED  BY <1>1, <1>2, <1>3, <1>4 DEF Next

LEMMA NextInv == ASSUME Inv, [Next]_vars PROVE Inv'
  BY Steps, AnalyzeInv, ReadArtifactInv, FailAndResetInv, ReadTimeoutInv,
     HandleMessageInv, UntouchedInv

\* No promise is forgotten and no timeout left behind (dynamicClient.ts).
THEOREM NothingForgotten == Spec => []OpenCallsTimed
  <1>1. Inv => OpenCallsTimed
    BY DEF Inv
  <1> QED  BY InitInv, NextInv, <1>1, PTL DEF Spec

LEMMA StepRefines ==
  ASSUME Inv, [Next]_vars
  PROVE  [R!Next]_outcome
  <1>1. Open = R!Pending /\ Open \subseteq Calls
    BY DEF Inv, OpenCallsTimed, R!Pending
  <1>2. ASSUME NEW j \in Jobs, NEW b, Analyze(j, b) PROVE R!Next
    <2> DEFINE lost == IF Resets THEN Open ELSE {}
    <2>1. j \in Calls /\ lost \in SUBSET R!Pending
      BY <1>1 DEF Calls
    <2>2. R!Issue(j, lost)
      BY <1>2 DEF Analyze, R!Issue
    <2> QED  BY <2>1, <2>2 DEF R!Next
  <1>3. ASSUME NEW r \in Reads, NEW p, ReadArtifact(r, p) PROVE R!Next
    <2>1. r \in Calls /\ {} \in SUBSET R!Pending
      BY DEF Calls
    <2>2. R!Issue(r, {})
      BY <1>3 DEF ReadArtifact, R!Issue, Inv, ClientTypeOK
    <2> QED  BY <2>1, <2>2 DEF R!Next
  <1>4. ASSUME NEW fired, FailAndReset(fired) PROVE [R!Next]_outcome
    <2>1. CASE Open = {}
      BY <1>4, <2>1 DEF FailAndReset, Rejected, Inv, ClientTypeOK
    <2>2. CASE Open # {}
      BY <1>1, <1>4, <2>2 DEF FailAndReset, Rejected, R!Next, R!Reject
    <2> QED  BY <2>1, <2>2
  <1>5. ASSUME NEW r \in Reads, ReadTimeout(r) PROVE R!Next
    <2>1. {r} \in SUBSET R!Pending
      BY <1>1, <1>5 DEF ReadTimeout, Inv, OpenCallsTimed
    <2>2. R!Reject({r})
      BY <1>5 DEF ReadTimeout, R!Reject, Inv, ClientTypeOK
    <2> QED  BY <2>1, <2>2 DEF R!Next
  <1>6. CASE HandleMessage
    <2> DEFINE c == Head(outbox).call
    <2>1. CASE c \in Open /\ Head(outbox).ok
      <3>1. c \in Calls /\ outcome[c] = "pending"
        BY <1>1, <2>1 DEF R!Pending
      <3>2. R!Resolve(c)
        BY <1>6, <2>1, <3>1 DEF HandleMessage, R!Resolve
      <3> QED  BY <3>1, <3>2 DEF R!Next
    <2>2. CASE c \in Open /\ ~Head(outbox).ok
      <3>1. {c} \in SUBSET R!Pending
        BY <1>1, <2>2
      <3>2. outcome' = [outcome EXCEPT ![c] = "rejected"]
        BY <1>6, <2>2 DEF HandleMessage
      <3>3. R!Reject({c})
        BY <3>2 DEF R!Reject, Inv, ClientTypeOK
      <3> QED  BY <3>1, <3>3 DEF R!Next
    <2>3. CASE c \notin Open
      BY <1>6, <2>3 DEF HandleMessage
    <2> QED  BY <2>1, <2>2, <2>3
  <1> QED  BY Steps, <1>2, <1>3, <1>4, <1>5, <1>6 DEF Untouched

\* The client implements the safety part of Requests: a promise is pending
\* from its call on and is settled once, whatever the worker does.
THEOREM SettledOnce == Spec => R!Safety
  <1>1. Init => R!Init
    BY DEF Init, R!Init
  <1> QED  BY <1>1, InitInv, NextInv, StepRefines, PTL DEF Spec, R!Safety

-----------------------------------------------------------------------------
(* Types *)

LEMMA FailAndResetType ==
  ASSUME TypeOK, NEW fired \in SUBSET timers, FailAndReset(fired)
  PROVE  TypeOK'
  <1>1. outcome' \in [Calls -> {"none", "pending", "resolved", "rejected"}]
    BY DEF TypeOK, FailAndReset
  <1>2. sessions' \in [Profiles -> Jobs \cup {NoJob}]
    BY DEF FailAndReset, NoSessions
  <1>3. intact' \in BOOLEAN
    BY Zenon DEF FailAndReset
  <1> QED  BY <1>1, <1>2, <1>3 DEF TypeOK, FailAndReset

LEMMA PostType ==
  ASSUME TypeOK, NEW m \in JobRequest \cup ReadRequest, NEW reset \in BOOLEAN,
         Post(m, reset)
  PROVE  /\ worker' \in {"none", "loading", "ready", "broken"}
         /\ inbox' \in Seq(JobRequest \cup ReadRequest) /\ waiting' \in Seq(JobRequest)
         /\ sessions' \in [Profiles -> Jobs \cup {NoJob}] /\ outbox' \in Seq(Answer)
  <1>1. CASE reset \/ worker = "none"
    <2>1. /\ worker' = "loading" /\ inbox' = <<m>> /\ waiting' = <<>> /\ outbox' = <<>>
          /\ sessions' = NoSessions
      BY <1>1, Zenon DEF Post
    <2>2. <<m>> \in Seq(JobRequest \cup ReadRequest)
      OBVIOUS
    <2> QED  BY <2>1, <2>2 DEF NoSessions
  <1>2. CASE ~(reset \/ worker = "none")
    <2>1. inbox' = Append(inbox, m) /\ UNCHANGED <<worker, waiting, outbox, sessions>>
      BY <1>2, Zenon DEF Post
    <2> QED  BY <2>1 DEF TypeOK
  <1> QED  BY <1>1, <1>2

LEMMA AnalyzeType ==
  ASSUME TypeOK, NEW j \in Jobs, NEW b \in Batches, Analyze(j, b)
  PROVE  TypeOK'
  <1> DEFINE m == [call |-> j, batch |-> b]
  <1>1. m \in JobRequest \cup ReadRequest
    BY DEF JobRequest
  <1>2. Post(m, Resets) /\ Resets \in BOOLEAN
    BY DEF Analyze, Resets
  <1> HIDE DEF m
  <1>3. /\ worker' \in {"none", "loading", "ready", "broken"}
        /\ inbox' \in Seq(JobRequest \cup ReadRequest) /\ waiting' \in Seq(JobRequest)
        /\ sessions' \in [Profiles -> Jobs \cup {NoJob}] /\ outbox' \in Seq(Answer)
    BY <1>1, <1>2, PostType
  <1>4. /\ outcome' \in [Calls -> {"none", "pending", "resolved", "rejected"}]
        /\ pending' \subseteq Jobs /\ artifactReads' \subseteq Reads /\ timers' \subseteq Calls
        /\ latest' \in Jobs \cup {NoJob} /\ batch' \in Seq(Profiles) /\ intact' \in BOOLEAN
        /\ source' \in [Reads -> Jobs \cup {NoJob}]
    BY ClientAssumption DEF Analyze, TypeOK, Calls
  <1> QED  BY <1>3, <1>4 DEF TypeOK

LEMMA ReadArtifactType ==
  ASSUME TypeOK, NEW r \in Reads, NEW profile \in Profiles, ReadArtifact(r, profile)
  PROVE  TypeOK'
  <1> DEFINE m == [call |-> r, profile |-> profile]
  <1>1. m \in JobRequest \cup ReadRequest
    BY DEF ReadRequest
  <1>2. Post(m, FALSE)
    BY DEF ReadArtifact
  <1> HIDE DEF m
  <1>3. /\ worker' \in {"none", "loading", "ready", "broken"}
        /\ inbox' \in Seq(JobRequest \cup ReadRequest) /\ waiting' \in Seq(JobRequest)
        /\ sessions' \in [Profiles -> Jobs \cup {NoJob}] /\ outbox' \in Seq(Answer)
    BY <1>1, <1>2, PostType
  <1>4. /\ outcome' \in [Calls -> {"none", "pending", "resolved", "rejected"}]
        /\ artifactReads' \subseteq Reads /\ timers' \subseteq Calls
        /\ UNCHANGED <<pending, latest, batch, intact, source>>
    BY DEF ReadArtifact, TypeOK, Calls
  <1> QED  BY <1>3, <1>4 DEF TypeOK

LEMMA ReadTimeoutType ==
  ASSUME TypeOK, NEW r \in Reads, ReadTimeout(r)
  PROVE  TypeOK'
  BY DEF TypeOK, ReadTimeout, workerVars, Calls

LEMMA HandleMessageType ==
  ASSUME TypeOK, HandleMessage
  PROVE  TypeOK'
  <1> DEFINE a == Head(outbox)
  <1>1. a \in Answer /\ outbox' \in Seq(Answer)
    BY DEF TypeOK, HandleMessage
  <1>2. a.call \in Calls /\ a.job \in Jobs \cup {NoJob}
    BY <1>1 DEF Answer
  <1>3. UNCHANGED <<worker, inbox, waiting, sessions, latest, batch, intact>>
    BY DEF HandleMessage
  <1>4. CASE a.call \in Open
    <2>1. /\ outcome' = [outcome EXCEPT ![a.call] = IF a.ok THEN "resolved" ELSE "rejected"]
          /\ pending' = pending \ {a.call} /\ artifactReads' = artifactReads \ {a.call}
          /\ timers' = timers \ {a.call}
          /\ source' = IF a.call \in Reads /\ a.ok
                       THEN [source EXCEPT ![a.call] = a.job] ELSE source
      BY <1>4 DEF HandleMessage, Untimed
    <2> HIDE DEF a
    <2> QED  BY <1>1, <1>2, <1>3, <2>1 DEF TypeOK
  <1>5. CASE a.call \notin Open
    <2>1. UNCHANGED <<outcome, pending, artifactReads, timers, source>>
      BY <1>5 DEF HandleMessage
    <2> QED  BY <1>1, <1>3, <2>1 DEF TypeOK
  <1> QED  BY <1>4, <1>5

\* What an analysis leaves behind, whether it succeeds or not.
LEMMA ExecuteType ==
  ASSUME TypeOK, NEW request \in JobRequest, Execute(request)
  PROVE  sessions' \in [Profiles -> Jobs \cup {NoJob}] /\ outbox' \in Seq(Answer)
  <1>1. request.call \in Jobs
    BY DEF JobRequest
  <1>2. /\ [call |-> request.call, ok |-> TRUE, job |-> request.call] \in Answer
        /\ [call |-> request.call, ok |-> FALSE, job |-> NoJob] \in Answer
    BY <1>1 DEF Answer, Calls
  <1>3. outbox' \in Seq(Answer)
    <2>1. outbox \in Seq(Answer)
      BY DEF TypeOK
    <2> HIDE DEF Answer
    <2>2. \/ outbox' = Append(outbox, [call |-> request.call, ok |-> TRUE, job |-> request.call])
          \/ outbox' = Append(outbox, [call |-> request.call, ok |-> FALSE, job |-> NoJob])
      BY Zenon DEF Execute
    <2> QED  BY <1>2, <2>1, <2>2
  <1>4. sessions' \in [Profiles -> Jobs \cup {NoJob}]
    BY <1>1 DEF Execute, NoSessions
  <1> QED  BY <1>3, <1>4

LEMMA JobAtHead ==
  ASSUME TypeOK, inbox # <<>>, Head(inbox).call \in Jobs
  PROVE  Head(inbox) \in JobRequest
  BY ClientAssumption DEF TypeOK, ReadRequest

LEMMA ReadAtHead ==
  ASSUME TypeOK, inbox # <<>>, Head(inbox).call \in Reads
  PROVE  Head(inbox) \in ReadRequest
  BY ClientAssumption DEF TypeOK, JobRequest

LEMMA WorkerType ==
  ASSUME TypeOK, HandleJob \/ Resume \/ HandleRead \/ EngineLoads
  PROVE  TypeOK'
  <1>1. CASE HandleJob
    <2>1. Head(inbox) \in JobRequest /\ inbox' \in Seq(JobRequest \cup ReadRequest)
      BY <1>1, JobAtHead DEF HandleJob, MayHandle, TypeOK
    <2>2. CASE worker = "loading"
      <3>1. waiting' = Append(waiting, Head(inbox)) /\ UNCHANGED <<sessions, outbox>>
        BY <1>1, <2>2, Zenon DEF HandleJob
      <3>2. waiting' \in Seq(JobRequest)
        BY <2>1, <3>1 DEF TypeOK
      <3> QED  BY <1>1, <2>1, <3>1, <3>2 DEF HandleJob, TypeOK, client
    <2>3. CASE worker # "loading"
      <3>1. sessions' \in [Profiles -> Jobs \cup {NoJob}] /\ outbox' \in Seq(Answer)
        BY <1>1, <2>1, <2>3, ExecuteType DEF HandleJob
      <3> QED  BY <1>1, <2>1, <2>3, <3>1 DEF HandleJob, TypeOK, client
    <2> QED  BY <2>2, <2>3
  <1>2. CASE Resume
    <2>1. Head(waiting) \in JobRequest /\ waiting' \in Seq(JobRequest)
      BY <1>2 DEF Resume, TypeOK
    <2>2. sessions' \in [Profiles -> Jobs \cup {NoJob}] /\ outbox' \in Seq(Answer)
      BY <1>2, <2>1, ExecuteType DEF Resume
    <2> QED  BY <1>2, <2>1, <2>2 DEF Resume, TypeOK, client
  <1>3. CASE HandleRead
    <2>1. /\ Head(inbox) \in ReadRequest
          /\ inbox' \in Seq(JobRequest \cup ReadRequest)
      BY <1>3, ReadAtHead DEF HandleRead, MayHandle, TypeOK
    <2> DEFINE job == sessions[Head(inbox).profile]
    <2>2. job \in Jobs \cup {NoJob} /\ Head(inbox).call \in Calls
      BY <2>1 DEF TypeOK, ReadRequest, Calls
    <2>3. PICK ok \in Served(job) :
            outbox' = Append(outbox, [call |-> Head(inbox).call, ok |-> ok,
                                      job |-> IF ok THEN job ELSE NoJob])
      BY <1>3 DEF HandleRead
    <2>4. ok = FALSE \/ (ok = TRUE /\ job \in Jobs)
      BY <2>2, <2>3 DEF Served
    <2> HIDE DEF job
    <2>5. [call |-> Head(inbox).call, ok |-> ok, job |-> IF ok THEN job ELSE NoJob] \in Answer
      BY <2>2, <2>4 DEF Answer
    <2>6. outbox' \in Seq(Answer)
      BY <2>3, <2>5 DEF TypeOK
    <2> QED  BY <1>3, <2>1, <2>6 DEF HandleRead, TypeOK, client
  <1>4. CASE EngineLoads
    BY <1>4 DEF EngineLoads, TypeOK, client
  <1> QED  BY <1>1, <1>2, <1>3, <1>4

\* TypeOK: among it, every message and session names calls the page made.
THEOREM TypeCorrect == Spec => []TypeOK
  <1>1. Init => TypeOK
    <2>1. Init => intact \in BOOLEAN
      BY Zenon DEF Init
    <2> QED  BY <2>1, ClientAssumption DEF Init, TypeOK, NoSessions
  <1>2. TypeOK /\ [Next]_vars => TypeOK'
    <2> SUFFICES ASSUME TypeOK, [Next]_vars PROVE TypeOK'
      OBVIOUS
    <2>1. ASSUME NEW fired \in SUBSET timers, FailAndReset(fired) PROVE TypeOK'
      BY <2>1, FailAndResetType
    <2>2. CASE Page
      BY <2>1, <2>2, AnalyzeType, ReadArtifactType DEF Page, Cancel
    <2>3. CASE Crash
      BY <2>1, <2>3 DEF Crash
    <2>4. CASE HandleMessage
      BY <2>4, HandleMessageType
    <2>5. ASSUME NEW c \in Calls, Timeout(c) PROVE TypeOK'
      BY <2>1, <2>5, ReadTimeoutType DEF Timeout, AnalysisTimeout
    <2>6. CASE UNCHANGED vars
      BY <2>6 DEF vars, client, workerVars, TypeOK
    <2> QED  BY <2>2, <2>3, <2>4, <2>5, <2>6, WorkerType DEF Next
  <1> QED  BY <1>1, <1>2, PTL DEF Spec

-----------------------------------------------------------------------------
(* Sessions and answers *)

\* The last analysis asked for is the only one under way, and once at most.
Named(request) == intact /\ request.call = latest /\ request.batch = batch

Unexecuted ==
  /\ outcome[latest] = "pending" /\ sessions = NoSessions
  /\ \A i \in 1..Len(outbox) : ~outbox[i].ok /\ outbox[i].call \notin Jobs

JobsUnderWay ==
  /\ \A i \in 1..Len(inbox) : inbox[i].call \in Jobs =>
       /\ Named(inbox[i]) /\ waiting = <<>> /\ Unexecuted
       /\ \A k \in 1..Len(inbox) : inbox[k].call \in Jobs => k = i
  /\ Len(waiting) <= 1
  /\ waiting # <<>> => Named(waiting[1]) /\ Unexecuted

\* The worker it was posted to holds a session for each of its profiles.
Held ==
  /\ intact /\ latest # NoJob /\ Accepted(batch)
  /\ sessions = [p \in Profiles |->
       IF \E i \in 1..Len(batch) : batch[i] = p THEN latest ELSE NoJob]

\* Its report has arrived, or is among the first n answers under way.
Reported(n) ==
  \/ outcome[latest] = "resolved"
  \/ \E k \in 1..n : outbox[k].call = latest /\ outbox[k].ok

AnswersOK ==
  /\ \A i \in 1..Len(outbox) : outbox[i].call \in Jobs =>
       /\ outbox[i].call = latest /\ outcome[latest] = "pending"
       /\ \A k \in 1..Len(outbox) : outbox[k].call \in Jobs => k = i
  /\ \A i \in 1..Len(outbox) : outbox[i].ok => Held /\ outbox[i].job = latest /\ Reported(i)

SessionsOK ==
  /\ worker = "none" => ~intact
  /\ intact /\ latest # NoJob /\ outcome[latest] = "resolved" => Held
  /\ sessions # NoSessions => Held /\ Reported(Len(outbox))

SessionInv == JobsUnderWay /\ AnswersOK /\ SessionsOK

\* A pipeline that holds no more than one message and no session.
LEMMA FreshWorker ==
  ASSUME waiting' = <<>>, outbox' = <<>>, sessions' = NoSessions,
         worker' = "none" => ~intact',
         intact' => outcome'[latest'] = "pending",
         \/ inbox' = <<>>
         \/ \E m : inbox' = <<m>> /\ (m.call \in Jobs => Named(m)' /\ outcome'[latest'] = "pending")
  PROVE  SessionInv'
  <1>1. JobsUnderWay'
    <2>1. Len(waiting') <= 1 /\ Len(outbox') = 0
      OBVIOUS
    <2>2. CASE inbox' = <<>>
      BY <2>1, <2>2 DEF JobsUnderWay
    <2>3. ASSUME NEW m, inbox' = <<m>>,
                 m.call \in Jobs => Named(m)' /\ outcome'[latest'] = "pending"
          PROVE  JobsUnderWay'
      <3>1. Len(inbox') = 1 /\ inbox'[1] = m
        BY <2>3
      <3>2. m.call \in Jobs => Unexecuted'
        BY <2>1, <2>3 DEF Unexecuted, NoSessions
      <3> QED  BY <2>1, <2>3, <3>1, <3>2 DEF JobsUnderWay, Named
    <2> QED  BY <2>2, <2>3
  <1>2. AnswersOK'
    BY DEF AnswersOK
  <1>3. SessionsOK'
    BY DEF SessionsOK, NoSessions
  <1> QED  BY <1>1, <1>2, <1>3 DEF SessionInv

LEMMA FailAndResetSessions ==
  ASSUME NEW fired, FailAndReset(fired)
  PROVE  SessionInv'
  BY FreshWorker DEF FailAndReset

LEMMA AnalyzeSessions ==
  ASSUME TypeOK, NEW j \in Jobs, NEW b \in Batches, Analyze(j, b)
  PROVE  SessionInv'
  <1> DEFINE m == [call |-> j, batch |-> b]
  <1>1. /\ worker' = "loading" /\ inbox' = <<m>> /\ waiting' = <<>> /\ outbox' = <<>>
        /\ sessions' = NoSessions
    BY Zenon DEF Analyze, Post, Resets
  <1>2. latest' = j /\ batch' = b /\ intact' = TRUE /\ j \in Calls
    BY DEF Analyze, Calls
  <1>3. outcome'[j] = "pending"
    BY <1>2 DEF Analyze
  <1>4. Named(m)'
    BY <1>2 DEF Named
  <1> HIDE DEF m
  <1> QED  BY <1>1, <1>2, <1>3, <1>4, FreshWorker

\* A step that leaves the analysis and its outcome alone.
Same == /\ UNCHANGED <<latest, batch, intact>>
        /\ latest # NoJob => outcome'[latest] = outcome[latest]

LEMMA HeldStays ==
  ASSUME Same, UNCHANGED sessions
  PROVE  Held' <=> Held
  BY DEF Same, Held, Accepted

LEMMA OtherSettles ==
  ASSUME TypeOK, NEW c \in Calls, c # latest,
         outcome' = [outcome EXCEPT ![c] = outcome'[c]], UNCHANGED <<latest, batch, intact>>
  PROVE  Same
  BY DEF TypeOK, Same, Calls

LEMMA WaitingJob ==
  ASSUME TypeOK, waiting # <<>>
  PROVE  waiting[1] \in JobRequest /\ waiting[1].call \in Jobs /\ Head(waiting) = waiting[1]
  <1>1. waiting \in Seq(JobRequest) /\ Len(waiting) > 0
    BY DEF TypeOK
  <1>2. waiting[1] \in JobRequest /\ Head(waiting) = waiting[1]
    BY <1>1, ElementOfSeq
  <1> QED  BY <1>2 DEF JobRequest

LEMMA QuietSessions ==
  ASSUME TypeOK, SessionInv, Same, UNCHANGED <<inbox, waiting, sessions, outbox>>,
         worker' = "none" => worker = "none"
  PROVE  SessionInv'
  <1>1. Held' <=> Held
    BY HeldStays
  <1>2. latest # NoJob => \A n : Reported(n)' <=> Reported(n)
    BY DEF Same, Reported
  <1>3. latest \in Jobs => latest # NoJob
    BY ClientAssumption DEF Calls
  <1>4. latest # NoJob => (Unexecuted' <=> Unexecuted)
    BY DEF Same, Unexecuted
  <1>5. JobsUnderWay'
    <2>1. waiting # <<>> => waiting[1].call \in Jobs
      BY WaitingJob
    <2> QED  BY <1>3, <1>4, <2>1 DEF SessionInv, JobsUnderWay, Named, Same
  <1>6. AnswersOK'
    BY <1>1, <1>2, <1>3 DEF SessionInv, AnswersOK, Same, Held
  <1>7. SessionsOK'
    BY <1>1, <1>2 DEF SessionInv, SessionsOK, Same, Held
  <1> QED  BY <1>5, <1>6, <1>7 DEF SessionInv

LEMMA ReadArtifactSessions ==
  ASSUME TypeOK, SessionInv, NEW r \in Reads, NEW profile \in Profiles, ReadArtifact(r, profile)
  PROVE  SessionInv'
  <1> DEFINE m == [call |-> r, profile |-> profile]
  <1>1. r \notin Jobs /\ r # latest /\ r \in Calls
    BY ClientAssumption DEF TypeOK, Calls
  <1>2. Same
    BY <1>1, OtherSettles DEF ReadArtifact
  <1>3. m.call \notin Jobs
    BY <1>1
  <1> HIDE DEF m
  <1>4. CASE worker = "none"
    <2>1. /\ worker' = "loading" /\ inbox' = <<m>> /\ waiting' = <<>> /\ outbox' = <<>>
          /\ sessions' = NoSessions
      BY <1>4, Zenon DEF ReadArtifact, Post, m
    <2>2. ~intact'
      BY <1>4, <1>2 DEF SessionInv, SessionsOK, Same
    <2> QED  BY <1>3, <2>1, <2>2, FreshWorker
  <1>5. CASE worker # "none"
    <2>1. inbox' = Append(inbox, m) /\ UNCHANGED <<worker, waiting, outbox, sessions>>
      BY <1>5, Zenon DEF ReadArtifact, Post, m
    <2>2. inbox \in Seq(JobRequest \cup ReadRequest)
      BY DEF TypeOK
    <2>3. /\ Len(inbox') = Len(inbox) + 1 /\ Len(inbox) \in Nat
          /\ \A i \in 1..Len(inbox') : inbox'[i] = IF i = Len(inbox) + 1 THEN m ELSE inbox[i]
      BY <2>1, <2>2
    <2>4. \A i \in 1..Len(inbox') : inbox'[i].call \in Jobs =>
            i \in 1..Len(inbox) /\ inbox'[i] = inbox[i]
      BY <1>3, <2>3
    <2>5. Held' <=> Held
      BY <1>2, <2>1, HeldStays
    <2>6. latest \in Jobs => latest # NoJob
      BY ClientAssumption DEF Calls
    <2>7. latest # NoJob => /\ \A n : Reported(n)' <=> Reported(n)
                            /\ Unexecuted' <=> Unexecuted
      BY <1>2, <2>1 DEF Same, Reported, Unexecuted
    <2>8. JobsUnderWay'
      <3>1. waiting # <<>> => waiting[1].call \in Jobs
        BY WaitingJob
      <3> QED  BY <1>2, <2>1, <2>4, <2>6, <2>7, <3>1 DEF SessionInv, JobsUnderWay, Named, Same
    <2>9. AnswersOK'
      BY <1>2, <2>1, <2>5, <2>6, <2>7 DEF SessionInv, AnswersOK, Same, Held
    <2>10. SessionsOK'
      BY <1>2, <2>1, <2>5, <2>7 DEF SessionInv, SessionsOK, Same, Held
    <2> QED  BY <2>8, <2>9, <2>10 DEF SessionInv
  <1> QED  BY <1>4, <1>5

LEMMA HandleMessageSessions ==
  ASSUME TypeOK, Inv, SessionInv, HandleMessage
  PROVE  SessionInv'
  <1> DEFINE a == outbox[1]
  <1>1. /\ outbox \in Seq(Answer) /\ outbox # <<>> /\ Len(outbox) \in Nat /\ Len(outbox) > 0
        /\ a \in Answer /\ Head(outbox) = a
    BY DEF TypeOK, HandleMessage
  <1>2. /\ Len(outbox') = Len(outbox) - 1
        /\ \A i \in 1..Len(outbox') : i + 1 \in 1..Len(outbox) /\ outbox'[i] = outbox[i + 1]
    BY <1>1 DEF HandleMessage
  <1>3. UNCHANGED <<worker, inbox, waiting, sessions, latest, batch, intact>>
    BY DEF HandleMessage
  <1>4. latest \in Jobs <=> latest # NoJob
    BY ClientAssumption DEF TypeOK, Calls
  <1>5. CASE a.call \in Jobs
    <2>1. /\ a.call = latest /\ outcome[latest] = "pending"
          /\ \A k \in 1..Len(outbox) : outbox[k].call \in Jobs => k = 1
      BY <1>1, <1>5 DEF SessionInv, AnswersOK
    <2>2. latest \in Calls /\ latest \in Open
      BY <1>5, <2>1 DEF Inv, OpenCallsTimed, Calls
    <2>3. outcome' = [outcome EXCEPT ![latest] = IF a.ok THEN "resolved" ELSE "rejected"]
      BY <1>1, <2>1, <2>2 DEF HandleMessage
    <2>4. outcome'[latest] = IF a.ok THEN "resolved" ELSE "rejected"
      BY <2>2, <2>3 DEF TypeOK
    <2>5. JobsUnderWay'
      <3>1. ~Unexecuted
        BY <1>1, <1>5 DEF Unexecuted
      <3> QED  BY <1>3, <3>1 DEF SessionInv, JobsUnderWay
    <2>6. \A i \in 1..Len(outbox') : outbox'[i].call \notin Jobs
      BY <1>2, <2>1
    <2>7. Held' <=> Held
      BY <1>3 DEF Held, Accepted
    <2>8. \A n \in 0..Len(outbox) : Reported(n) => a.ok
      BY <1>4, <1>5, <2>1 DEF Reported
    <2>9. a.ok => Held /\ \A n : Reported(n)'
      BY <1>1, <1>3, <2>4 DEF SessionInv, AnswersOK, Reported
    <2>10. AnswersOK'
      <3> SUFFICES ASSUME NEW i \in 1..Len(outbox'), outbox'[i].ok
                   PROVE  Held' /\ outbox'[i].job = latest' /\ Reported(i)'
        BY <2>6 DEF AnswersOK
      <3>1. Held /\ outbox[i + 1].job = latest /\ Reported(i + 1)
        BY <1>2 DEF SessionInv, AnswersOK
      <3>2. i + 1 \in 0..Len(outbox)
        BY <1>1, <1>2
      <3> QED  BY <1>2, <1>3, <2>7, <2>8, <2>9, <3>1, <3>2
    <2>11. SessionsOK'
      <3>1. Len(outbox) \in 0..Len(outbox)
        BY <1>1
      <3>2. intact' /\ latest' # NoJob /\ outcome'[latest'] = "resolved" => Held'
        BY <1>3, <2>4, <2>7, <2>9
      <3>3. sessions' # NoSessions => Held' /\ Reported(Len(outbox))'
        BY <1>3, <2>7, <2>8, <2>9, <3>1 DEF SessionInv, SessionsOK
      <3>4. worker' = "none" => ~intact'
        BY <1>3 DEF SessionInv, SessionsOK
      <3> QED  BY <3>2, <3>3, <3>4 DEF SessionsOK
    <2> QED  BY <2>5, <2>10, <2>11 DEF SessionInv
  <1>6. CASE a.call \notin Jobs
    <2>1. (a.call \in Calls /\ a.call # latest) \/ latest = NoJob
      BY <1>1, <1>4, <1>6 DEF Answer
    <2>2. Same
      <3>1. CASE a.call \in Open
        <4>1. outcome' = [outcome EXCEPT ![a.call] = IF a.ok THEN "resolved" ELSE "rejected"]
          BY <1>1, <3>1 DEF HandleMessage
        <4> QED  BY <1>3, <2>1, <4>1 DEF Same, TypeOK
      <3>2. CASE a.call \notin Open
        BY <1>1, <1>3, <3>2 DEF HandleMessage, Same
      <3> QED  BY <3>1, <3>2
    <2>3. Held' <=> Held
      BY <1>3, <2>2, HeldStays
    <2>4. \A i \in 1..Len(outbox') :
            latest # NoJob /\ Reported(i + 1) => Reported(i)'
      <3> SUFFICES ASSUME NEW i \in 1..Len(outbox'), latest # NoJob,
                          NEW k \in 1..(i + 1), outbox[k].call = latest, outbox[k].ok
                   PROVE  \E n \in 1..i : outbox'[n].call = latest /\ outbox'[n].ok
        BY <1>3, <2>2 DEF Reported, Same
      <3>1. k # 1
        BY <1>4, <1>6
      <3>2. k - 1 \in 1..i /\ k - 1 \in 1..Len(outbox') /\ (k - 1) + 1 = k
        BY <1>1, <1>2, <3>1
      <3>3. outbox'[k - 1] = outbox[(k - 1) + 1]
        BY <1>2, <3>2
      <3> QED  BY <3>2, <3>3
    <2>5. Unexecuted /\ latest # NoJob => Unexecuted'
      BY <1>2, <1>3, <2>2 DEF Unexecuted, Same
    <2>6. JobsUnderWay'
      <3>1. waiting # <<>> => waiting[1].call \in Jobs
        BY WaitingJob
      <3> QED  BY <1>3, <1>4, <2>5, <3>1 DEF SessionInv, JobsUnderWay, Named
    <2>7. AnswersOK'
      <3>1. ASSUME NEW i \in 1..Len(outbox'), outbox'[i].call \in Jobs
            PROVE  /\ outbox'[i].call = latest' /\ outcome'[latest'] = "pending"
                   /\ \A k \in 1..Len(outbox') : outbox'[k].call \in Jobs => k = i
        <4>1. /\ outbox[i + 1].call = latest /\ outcome[latest] = "pending"
              /\ \A k \in 1..Len(outbox) : outbox[k].call \in Jobs => k = i + 1
          BY <1>2, <3>1 DEF SessionInv, AnswersOK
        <4>2. latest # NoJob
          BY <1>2, <1>4, <3>1, <4>1
        <4>3. ASSUME NEW k \in 1..Len(outbox'), outbox'[k].call \in Jobs PROVE k = i
          <5>1. k + 1 = i + 1
            BY <1>2, <4>1, <4>3
          <5> QED  BY <1>1, <1>2, <5>1
        <4> QED  BY <1>2, <1>3, <2>2, <4>1, <4>2, <4>3 DEF Same
      <3>2. ASSUME NEW i \in 1..Len(outbox'), outbox'[i].ok
            PROVE  Held' /\ outbox'[i].job = latest' /\ Reported(i)'
        <4>1. Held /\ outbox[i + 1].job = latest /\ Reported(i + 1)
          BY <1>2, <3>2 DEF SessionInv, AnswersOK
        <4>2. latest # NoJob
          BY <4>1 DEF Held
        <4> QED  BY <1>2, <1>3, <2>3, <2>4, <4>1, <4>2
      <3> QED  BY <3>1, <3>2 DEF AnswersOK
    <2>8. SessionsOK'
      <3>1. ASSUME sessions # NoSessions PROVE Held' /\ Reported(Len(outbox))'
        <4>1. Held /\ Reported(Len(outbox)) /\ latest # NoJob
          BY <3>1 DEF SessionInv, SessionsOK, Held
        <4>2. CASE outcome[latest] = "resolved"
          BY <1>3, <2>2, <2>3, <4>1, <4>2 DEF Reported, Same
        <4>3. CASE outcome[latest] # "resolved"
          <5>1. PICK k \in 1..Len(outbox) : outbox[k].call = latest /\ outbox[k].ok
            BY <4>1, <4>3 DEF Reported
          <5>2. k # 1
            BY <1>4, <1>6, <4>1, <5>1
          <5>3. k - 1 \in 1..Len(outbox') /\ (k - 1) + 1 = k
            BY <1>1, <1>2, <5>2
          <5>4. outbox'[k - 1] = outbox[(k - 1) + 1]
            BY <1>2, <5>3
          <5>5. \E n \in 1..Len(outbox') : outbox'[n].call = latest' /\ outbox'[n].ok
            BY <1>3, <5>1, <5>3, <5>4
          <5> QED  BY <2>3, <4>1, <5>5 DEF Reported
        <4> QED  BY <4>2, <4>3
      <3> QED  BY <1>3, <2>2, <2>3, <3>1 DEF SessionInv, SessionsOK, Same
    <2> QED  BY <2>6, <2>7, <2>8 DEF SessionInv
  <1> QED  BY <1>5, <1>6

\* An analysis that is executed is the last that was under way.
LEMMA ExecuteSessions ==
  ASSUME TypeOK, SessionInv, NEW request \in JobRequest, Execute(request), Named(request),
         Unexecuted, UNCHANGED <<worker, client>>,
         \A i \in 1..Len(inbox') : inbox'[i].call \notin Jobs, waiting' = <<>>
  PROVE  SessionInv'
  <1>0. PICK n : n = Len(outbox)
    OBVIOUS
  <1>1. /\ outbox \in Seq(Answer) /\ n \in Nat
        /\ UNCHANGED <<outcome, latest, batch, intact>> /\ outcome[latest] = "pending"
        /\ request.call = latest /\ latest \in Jobs /\ latest # NoJob
    BY <1>0, ClientAssumption DEF TypeOK, client, Named, Unexecuted, JobRequest, Calls
  <1>2. JobsUnderWay'
    BY DEF JobsUnderWay
  <1>3. ASSUME NEW answer, outbox' = Append(outbox, answer)
        PROVE  /\ Len(outbox') = n + 1 /\ outbox'[n + 1] = answer
               /\ \A i \in 1..Len(outbox') : i # n + 1 => ~outbox'[i].ok /\ outbox'[i].call \notin Jobs
    <2>1. /\ Len(outbox') = n + 1 /\ outbox'[n + 1] = answer
          /\ \A i \in 1..Len(outbox') : i # n + 1 => i \in 1..n /\ outbox'[i] = outbox[i]
      BY <1>0, <1>1, <1>3
    <2> QED  BY <1>0, <2>1 DEF Unexecuted
  <1>4. CASE /\ worker = "ready" /\ Accepted(request.batch)
             /\ sessions' = [p \in Profiles |->
                  IF \E i \in 1..Len(request.batch) : request.batch[i] = p
                  THEN request.call ELSE NoJob]
             /\ outbox' = Append(outbox, [call |-> request.call, ok |-> TRUE,
                                          job |-> request.call])
    <2>1. Held'
      BY <1>1, <1>4 DEF Held, Named, Accepted
    <2>2. /\ Len(outbox') = n + 1
          /\ outbox'[n + 1] = [call |-> latest, ok |-> TRUE, job |-> latest]
          /\ \A i \in 1..Len(outbox') :
               i # n + 1 => ~outbox'[i].ok /\ outbox'[i].call \notin Jobs
      BY <1>1, <1>3, <1>4
    <2>3. Reported(n + 1)'
      <3>1. n + 1 \in 1..(n + 1)
        BY <1>1
      <3> QED  BY <1>1, <2>2, <3>1 DEF Reported
    <2>4. AnswersOK'
      BY <1>1, <2>1, <2>2, <2>3 DEF AnswersOK
    <2>5. SessionsOK'
      BY <1>1, <1>4, <2>1, <2>2, <2>3 DEF SessionsOK
    <2> QED  BY <1>2, <2>4, <2>5 DEF SessionInv
  <1>5. CASE /\ sessions' = NoSessions
             /\ outbox' = Append(outbox, [call |-> request.call, ok |-> FALSE, job |-> NoJob])
    <2>1. /\ Len(outbox') = n + 1
          /\ outbox'[n + 1] = [call |-> latest, ok |-> FALSE, job |-> NoJob]
          /\ \A i \in 1..Len(outbox') :
               i # n + 1 => ~outbox'[i].ok /\ outbox'[i].call \notin Jobs
      BY <1>1, <1>3, <1>5
    <2>2. AnswersOK'
      BY <1>1, <2>1 DEF AnswersOK
    <2>3. SessionsOK'
      BY <1>1, <1>5 DEF SessionInv, SessionsOK, NoSessions
    <2> QED  BY <1>2, <2>2, <2>3 DEF SessionInv
  <1> QED  BY <1>4, <1>5 DEF Execute

LEMMA HandleJobSessions ==
  ASSUME TypeOK, SessionInv, HandleJob
  PROVE  SessionInv'
  <1>1. /\ inbox \in Seq(JobRequest \cup ReadRequest) /\ inbox # <<>> /\ Len(inbox) > 0
        /\ Head(inbox) = inbox[1] /\ Head(inbox) \in JobRequest /\ inbox[1].call \in Jobs
    BY JobAtHead DEF TypeOK, HandleJob, MayHandle
  <1>2. /\ Named(Head(inbox)) /\ waiting = <<>> /\ Unexecuted
        /\ \A k \in 1..Len(inbox) : inbox[k].call \in Jobs => k = 1
    BY <1>1 DEF SessionInv, JobsUnderWay
  <1>3. \A i \in 1..Len(inbox') : inbox'[i].call \notin Jobs
    <2>1. \A i \in 1..Len(inbox') : inbox'[i] = inbox[i + 1] /\ i + 1 \in 1..Len(inbox) /\ i + 1 # 1
      BY <1>1 DEF HandleJob
    <2> QED  BY <1>2, <2>1
  <1>4. UNCHANGED <<worker, client>>
    BY DEF HandleJob
  <1>5. CASE worker = "loading"
    <2>1. waiting' = Append(waiting, Head(inbox)) /\ UNCHANGED <<sessions, outbox>>
      BY <1>5, Zenon DEF HandleJob
    <2>2. Len(waiting') = 1 /\ waiting'[1] = Head(inbox)
      BY <1>2, <2>1
    <2>3. UNCHANGED <<outcome, latest, batch, intact>>
      BY <1>4 DEF client
    <2>4. JobsUnderWay'
      BY <1>2, <1>3, <2>1, <2>2, <2>3 DEF JobsUnderWay, Named, Unexecuted
    <2>5. AnswersOK' /\ SessionsOK'
      BY <1>4, <2>1, <2>3 DEF SessionInv, AnswersOK, SessionsOK, Held, Accepted, Reported
    <2> QED  BY <2>4, <2>5 DEF SessionInv
  <1>6. CASE worker # "loading"
    <2>1. Execute(Head(inbox)) /\ waiting' = waiting
      BY <1>6, Zenon DEF HandleJob
    <2> QED  BY <1>1, <1>2, <1>3, <1>4, <2>1, ExecuteSessions
  <1> QED  BY <1>5, <1>6

LEMMA ResumeSessions ==
  ASSUME TypeOK, SessionInv, Resume
  PROVE  SessionInv'
  <1>1. waiting # <<>> /\ waiting \in Seq(JobRequest) /\ Len(waiting) \in Nat \ {0}
    BY DEF TypeOK, Resume
  <1>2. Head(waiting) \in JobRequest /\ Named(Head(waiting)) /\ Unexecuted /\ Len(waiting) = 1
    <2>1. Head(waiting) = waiting[1] /\ waiting[1] \in JobRequest
      BY <1>1, WaitingJob
    <2>2. Len(waiting) <= 1 /\ Named(waiting[1]) /\ Unexecuted
      BY <1>1, Zenon DEF SessionInv, JobsUnderWay
    <2>3. \A n \in Nat \ {0} : n <= 1 => n = 1
      OBVIOUS
    <2>4. Len(waiting) = 1
      BY <1>1, <2>2, <2>3, Zenon
    <2> QED  BY <2>1, <2>2, <2>4, Zenon
  <1>3. waiting' = <<>>
    BY <1>1, <1>2 DEF Resume
  <1>4. \A i \in 1..Len(inbox') : inbox'[i].call \notin Jobs
    BY <1>1 DEF Resume, SessionInv, JobsUnderWay
  <1> QED  BY <1>2, <1>3, <1>4, ExecuteSessions DEF Resume

\* The answer to a read is the last under way.  A session it was read from is
\* that of the analysis whose report went before it.
LEMMA HandleReadSessions ==
  ASSUME TypeOK, SessionInv, HandleRead
  PROVE  SessionInv'
  <1>0. PICK n : n = Len(outbox)
    OBVIOUS
  <1> DEFINE job == sessions[Head(inbox).profile]
  <1>1. /\ inbox \in Seq(JobRequest \cup ReadRequest) /\ inbox # <<>>
        /\ Head(inbox) \in ReadRequest /\ Head(inbox).call \notin Jobs
        /\ Head(inbox).profile \in Profiles
    BY ReadAtHead, ClientAssumption DEF TypeOK, HandleRead, MayHandle, ReadRequest
  <1>2. /\ UNCHANGED <<worker, waiting, sessions, outcome, latest, batch, intact>>
        /\ outbox \in Seq(Answer) /\ n \in Nat
    BY <1>0 DEF HandleRead, client, TypeOK
  <1>3. PICK ok \in Served(job) :
          outbox' = Append(outbox, [call |-> Head(inbox).call, ok |-> ok,
                                    job |-> IF ok THEN job ELSE NoJob])
    BY DEF HandleRead
  <1> DEFINE answer == [call |-> Head(inbox).call, ok |-> ok, job |-> IF ok THEN job ELSE NoJob]
  <1>4. answer.call \notin Jobs
    BY <1>1
  <1>5. answer.ok => answer.job = latest /\ Held /\ Reported(n)
    <2> SUFFICES ASSUME answer.ok PROVE answer.job = latest /\ Held /\ Reported(n)
      OBVIOUS
    <2>1. answer.job = job /\ job # NoJob
      BY <1>3 DEF Served
    <2>2. sessions # NoSessions
      BY <1>1, <2>1 DEF NoSessions
    <2>3. Held /\ Reported(n)
      BY <1>0, <2>2 DEF SessionInv, SessionsOK
    <2> QED  BY <1>1, <2>1, <2>3 DEF Held
  <1>6. sessions = NoSessions => ~answer.ok
    BY <1>1, <1>3 DEF Served, NoSessions
  <1>7. outbox' = Append(outbox, answer)
    BY <1>3
  <1> HIDE DEF answer
  <1>8. /\ Len(outbox') = n + 1 /\ outbox'[n + 1] = answer
        /\ \A i \in 1..n : i \in 1..(n + 1) /\ outbox'[i] = outbox[i]
        /\ \A i \in 1..(n + 1) : i \in 1..n \/ i = n + 1
    BY <1>0, <1>2, <1>7
  <1>9. Held' <=> Held
    BY <1>2 DEF Held, Accepted
  <1>10. \A m \in 0..n : Reported(m) => Reported(m)' /\ Reported(n + 1)'
    <2> SUFFICES ASSUME NEW m \in 0..n, Reported(m) PROVE Reported(m)' /\ Reported(n + 1)'
      OBVIOUS
    <2>1. 1..m \subseteq 1..n /\ 1..m \subseteq 1..(n + 1)
      BY <1>2
    <2> QED  BY <1>2, <1>8, <2>1 DEF Reported
  <1>11. JobsUnderWay'
    <2>1. \A i \in 1..Len(inbox') : /\ inbox'[i] = inbox[i + 1] /\ i + 1 \in 1..Len(inbox)
                                    /\ i \in Int
      BY <1>1 DEF HandleRead
    <2>2. Unexecuted => Unexecuted'
      BY <1>0, <1>2, <1>4, <1>6, <1>8 DEF Unexecuted
    <2>3. ASSUME NEW i \in 1..Len(inbox'), inbox'[i].call \in Jobs
          PROVE  /\ Named(inbox[i])'
                 /\ waiting' = <<>> /\ Unexecuted'
                 /\ \A k \in 1..Len(inbox') : inbox'[k].call \in Jobs => k = i
      <3>1. /\ Named(inbox[i + 1]) /\ waiting = <<>> /\ Unexecuted
            /\ \A k \in 1..Len(inbox) : inbox[k].call \in Jobs => k = i + 1
        BY <2>1, <2>3 DEF SessionInv, JobsUnderWay
      <3>2. ASSUME NEW k \in 1..Len(inbox'), inbox'[k].call \in Jobs PROVE k = i
        <4>1. k + 1 = i + 1
          BY <2>1, <3>1, <3>2
        <4> QED  BY <2>1, <4>1
      <3> QED  BY <1>2, <2>1, <2>2, <3>1, <3>2 DEF Named
    <2>4. Len(waiting') <= 1 /\ (waiting' # <<>> => Named(waiting[1])' /\ Unexecuted')
      BY <1>2, <2>2 DEF SessionInv, JobsUnderWay, Named
    <2> QED  BY <2>3, <2>4 DEF JobsUnderWay, Named
  <1>12. AnswersOK'
    <2>1. ASSUME NEW i \in 1..Len(outbox'), outbox'[i].call \in Jobs
          PROVE  /\ outbox'[i].call = latest' /\ outcome'[latest'] = "pending"
                 /\ \A k \in 1..Len(outbox') : outbox'[k].call \in Jobs => k = i
      <3>1. i \in 1..n
        BY <1>4, <1>8, <2>1
      <3> QED  BY <1>0, <1>2, <1>4, <1>8, <2>1, <3>1 DEF SessionInv, AnswersOK
    <2>2. ASSUME NEW i \in 1..Len(outbox'), outbox'[i].ok
          PROVE  Held' /\ outbox'[i].job = latest' /\ Reported(i)'
      <3>1. CASE i \in 1..n
        <4>1. Held /\ outbox[i].job = latest /\ Reported(i)
          BY <1>0, <1>8, <2>2, <3>1 DEF SessionInv, AnswersOK
        <4>2. i \in 0..n
          BY <3>1
        <4> QED  BY <1>2, <1>8, <1>9, <1>10, <3>1, <4>1, <4>2
      <3>2. CASE i = n + 1
        <4>1. n \in 0..n
          BY <1>2
        <4> QED  BY <1>2, <1>5, <1>8, <1>9, <1>10, <2>2, <3>2, <4>1
      <3> QED  BY <1>8, <3>1, <3>2
    <2> QED  BY <2>1, <2>2 DEF AnswersOK
  <1>13. SessionsOK'
    <2>1. n \in 0..n
      BY <1>2
    <2>2. sessions' # NoSessions => Held' /\ Reported(n + 1)'
      BY <1>0, <1>2, <1>9, <1>10, <2>1 DEF SessionInv, SessionsOK
    <2> QED  BY <1>2, <1>8, <1>9, <2>2 DEF SessionInv, SessionsOK, Reported
  <1> QED  BY <1>11, <1>12, <1>13 DEF SessionInv

LEMMA NextSessions ==
  ASSUME TypeOK, Inv, SessionInv, [Next]_vars
  PROVE  SessionInv'
  <1>1. CASE Page
    BY <1>1, AnalyzeSessions, ReadArtifactSessions, FailAndResetSessions DEF Page, Cancel
  <1>2. CASE Crash
    BY <1>2, FailAndResetSessions DEF Crash
  <1>3. CASE HandleMessage
    BY <1>3, HandleMessageSessions
  <1>4. ASSUME NEW r \in Reads, ReadTimeout(r) PROVE SessionInv'
    <2>1. r \in Calls /\ r # latest
      BY ClientAssumption DEF TypeOK, Calls
    <2>2. Same
      BY <1>4, <2>1, OtherSettles DEF ReadTimeout
    <2> QED  BY <1>4, <2>2, QuietSessions DEF ReadTimeout, workerVars
  <1>5. ASSUME NEW c \in Calls, Timeout(c) PROVE SessionInv'
    BY <1>4, <1>5, FailAndResetSessions DEF Timeout, AnalysisTimeout
  <1>6. CASE HandleJob \/ Resume \/ HandleRead
    BY <1>6, HandleJobSessions, ResumeSessions, HandleReadSessions
  <1>7. CASE EngineLoads \/ UNCHANGED vars
    <2>1. Same /\ UNCHANGED <<inbox, waiting, sessions, outbox>>
      BY <1>7 DEF EngineLoads, vars, client, workerVars, Same
    <2>2. worker' = "none" => worker = "none"
      BY <1>7 DEF EngineLoads, vars, workerVars
    <2> QED  BY <2>1, <2>2, QuietSessions
  <1> QED  BY <1>1, <1>2, <1>3, <1>5, <1>6, <1>7 DEF Next

LEMMA InitSessions == Init => SessionInv
  BY DEF Init, SessionInv, JobsUnderWay, AnswersOK, SessionsOK

\* A profile list without repetitions names as many profiles as it is long.
LEMMA HeldCounts ==
  ASSUME TypeOK, Held
  PROVE  Cardinality({p \in Profiles : sessions[p] = latest}) = Len(batch)
  <1> DEFINE n == Len(batch)
             held == {p \in Profiles : sessions[p] = latest}
  <1>1. /\ n \in Nat /\ \A i \in 1..n : batch[i] \in Profiles
        /\ batch = [i \in 1..n |-> batch[i]]
    BY DEF TypeOK
  <1>2. \A p \in Profiles : p \in held <=> \E i \in 1..n : batch[i] = p
    BY DEF Held
  <1>3. \A i, k \in 1..n : batch[i] = batch[k] => i = k
    BY DEF Held, Accepted
  <1> HIDE DEF n
  <1>4. batch \in [1..n -> held]
    BY <1>1, <1>2
  <1>5. \A p \in held : \E i \in 1..n : batch[i] = p
    BY <1>2
  <1> HIDE DEF held
  <1>6. ExistsBijection(1..n, held)
    BY <1>3, <1>4, <1>5 DEF ExistsBijection, Bijection, Injection, Surjection, IsInjective
  <1> QED  BY <1>1, <1>6, FS_CountingElements DEF n, held

\* SessionsMatchReports: from the report of an analysis on, each profile's session
\* is open and is of that analysis, until failAndReset terminates the worker; from
\* then on, though the page may still show the report, no session is open.
THEOREM SessionsGoWithTheWorker == Spec => []SessionsMatchReports
  <1>1. TypeOK /\ SessionInv => SessionsMatchReports
    <2> SUFFICES ASSUME TypeOK, SessionInv, latest # NoJob, outcome[latest] = "resolved"
                 PROVE  IF intact
                        THEN Cardinality({p \in Profiles : sessions[p] = latest}) = Len(batch)
                        ELSE sessions = NoSessions
      BY DEF SessionsMatchReports
    <2>1. intact => Held
      BY DEF SessionInv, SessionsOK
    <2>2. sessions # NoSessions => intact
      BY DEF SessionInv, SessionsOK, Held
    <2> QED  BY <2>1, <2>2, HeldCounts
  <1>2. TypeOK /\ Inv /\ SessionInv /\ [Next]_vars => SessionInv'
    BY NextSessions
  <1>3. Inv /\ [Next]_vars => Inv'
    BY NextInv
  <1> QED  BY <1>1, <1>2, <1>3, InitInv, InitSessions, TypeCorrect, PTL DEF Spec

\* ReadsCurrent: a read is answered from the last analysis, after its report and
\* by the worker that made it, since messages arrive in order and sessions go
\* with the worker.
THEOREM ReadsAreCurrent == Spec => ReadsCurrent
  <1>1. ASSUME TypeOK, Inv, SessionInv, [Next]_vars,
               NEW r \in Reads, outcome[r] = "pending", outcome'[r] = "resolved"
        PROVE  /\ latest # NoJob /\ source'[r] = latest
               /\ outcome[latest] = "resolved" /\ intact
    <2>1. r \in Calls /\ r \notin Jobs
      BY ClientAssumption DEF Calls
    <2>2. HandleMessage
      <3>1. ASSUME NEW j \in Jobs, NEW b, Analyze(j, b) PROVE FALSE
        BY <1>1, <2>1, <3>1 DEF Analyze
      <3>2. ASSUME NEW q \in Reads, NEW profile, ReadArtifact(q, profile) PROVE FALSE
        BY <1>1, <2>1, <3>2 DEF ReadArtifact, TypeOK
      <3>3. ASSUME NEW fired, FailAndReset(fired) PROVE FALSE
        BY <1>1, <2>1, <3>3 DEF FailAndReset
      <3>4. ASSUME NEW q \in Reads, ReadTimeout(q) PROVE FALSE
        BY <1>1, <2>1, <3>4 DEF ReadTimeout, TypeOK
      <3>5. ~Untouched
        BY <1>1 DEF Untouched
      <3> QED  BY <1>1, <3>1, <3>2, <3>3, <3>4, <3>5, Steps
    <2>3. /\ outbox \in Seq(Answer) /\ Len(outbox) \in Nat \ {0} /\ Head(outbox) = outbox[1]
      BY <1>1, <2>2 DEF TypeOK, HandleMessage
    <2>4. outbox[1].call = r /\ outbox[1].ok /\ source'[r] = outbox[1].job
      <3>1. PICK a : a = Head(outbox)
        OBVIOUS
      <3>2. a.call \in Open
        BY <1>1, <2>2, <3>1 DEF HandleMessage
      <3>3. /\ outcome' = [outcome EXCEPT ![a.call] = IF a.ok THEN "resolved" ELSE "rejected"]
            /\ source' = IF a.call \in Reads /\ a.ok
                         THEN [source EXCEPT ![a.call] = a.job] ELSE source
        BY <2>2, <3>1, <3>2 DEF HandleMessage
      <3>4. a.call = r /\ a.ok
        BY <1>1, <3>3
      <3>5. source'[r] = a.job
        BY <1>1, <3>3, <3>4 DEF TypeOK
      <3> QED  BY <2>3, <3>1, <3>4, <3>5
    <2>5. Held /\ outbox[1].job = latest /\ Reported(1)
      BY <1>1, <2>3, <2>4 DEF SessionInv, AnswersOK
    <2>6. latest # NoJob /\ latest # r /\ intact
      BY <1>1, <2>1, <2>5, ClientAssumption DEF Held, TypeOK, Calls
    <2> QED  BY <2>4, <2>5, <2>6 DEF Reported
  <1>2. TypeOK /\ Inv /\ SessionInv /\ [Next]_vars =>
          [\A r \in Reads : outcome[r] = "pending" /\ outcome'[r] = "resolved"
             => /\ latest # NoJob /\ source'[r] = latest
                /\ outcome[latest] = "resolved" /\ intact]_vars
    BY <1>1
  <1>3. TypeOK /\ Inv /\ SessionInv /\ [Next]_vars => SessionInv'
    BY NextSessions
  <1>4. Inv /\ [Next]_vars => Inv'
    BY NextInv
  <1> QED  BY <1>2, <1>3, <1>4, InitInv, InitSessions, TypeCorrect, PTL DEF Spec, ReadsCurrent

=============================================================================
