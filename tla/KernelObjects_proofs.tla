------------------------ MODULE KernelObjects_proofs ------------------------
(***************************************************************************)
(* What holds of KernelObjects for any number of handles, processes and    *)
(* URLs: a wait is granted once, the two tables that know an object of the *)
(* network by its handle never take one object for another, the account of *)
(* remote memory, what is read of a response, and types.                   *)
(***************************************************************************)
EXTENDS KernelObjects, FiniteSetTheorems, WellFoundedInduction, TLAPS

\* What a call may do to the table of handles.
Makes(r) == r \in Resource /\ Make(r)
Changes(h, r) == h \in DOMAIN handles /\ r \in Resource /\ r.kind = handles[h].kind /\ Update(h, r)

Types == HandlesTypeOK(Resource)

LEMMA MakesHandle ==
  ASSUME Types, NEW r, Makes(r)
  PROVE  /\ Types' /\ DOMAIN handles \subseteq DOMAIN handles' /\ nextHandle' \in {nextHandle, nextHandle + 1}
         /\ \A h \in DOMAIN handles : handles'[h] = handles[h] /\ h < nextHandle /\ h \in Nat
         /\ HandleLeft => /\ DOMAIN handles' = DOMAIN handles \cup {nextHandle}
                          /\ handles'[nextHandle] = r /\ nextHandle' = nextHandle + 1
                          /\ nextHandle < HandleSpace
         /\ ~HandleLeft => UNCHANGED handleVars
  <1>1. nextHandle \in 0..HandleSpace /\ DOMAIN handles \subseteq 0..(nextHandle - 1)
        /\ handles \in [DOMAIN handles -> Resource]
    BY DEF Types, HandlesTypeOK
  <1>2. \A h \in DOMAIN handles : h < nextHandle /\ h \in Nat
    BY <1>1, HandleAssumption
  <1>3. CASE ~HandleLeft
    BY <1>2, <1>3 DEF Makes, Make, AllocateFails, handleVars, Types, HandlesTypeOK
  <1>4. CASE HandleLeft
    <2>1. /\ nextHandle < HandleSpace /\ nextHandle' = nextHandle + 1
          /\ handles' = [h \in DOMAIN handles \cup {nextHandle} |->
                           IF h = nextHandle THEN r ELSE handles[h]]
      BY <1>4 DEF Makes, Make, Allocate, NewHandle
    <2>2. DOMAIN handles' = DOMAIN handles \cup {nextHandle} /\ handles'[nextHandle] = r
          /\ \A h \in DOMAIN handles : handles'[h] = handles[h]
      BY <1>2, <2>1
    <2>3. nextHandle' \in 0..HandleSpace /\ DOMAIN handles' \subseteq 0..(nextHandle' - 1)
      BY <1>1, <2>1, <2>2, HandleAssumption
    <2>4. handles' \in [DOMAIN handles' -> Resource]
      BY <1>1, <2>1 DEF Makes
    <2> QED  BY <1>2, <1>4, <2>1, <2>2, <2>3, <2>4 DEF Types, HandlesTypeOK
  <1> QED  BY <1>3, <1>4

LEMMA ChangesHandle ==
  ASSUME Types, NEW h, NEW r, Changes(h, r)
  PROVE  /\ Types' /\ DOMAIN handles' = DOMAIN handles /\ nextHandle' = nextHandle
         /\ handles'[h] = r /\ \A k \in DOMAIN handles \ {h} : handles'[k] = handles[k]
         /\ \A k \in DOMAIN handles : handles'[k].kind = handles[k].kind
  BY DEF Types, HandlesTypeOK, Changes, Update

LEMMA ClosesHandle ==
  ASSUME Types, NEW h, Close(h)
  PROVE  /\ Types' /\ DOMAIN handles' = DOMAIN handles \ {h} /\ nextHandle' = nextHandle
         /\ \A k \in DOMAIN handles \ {h} : handles'[k] = handles[k]
  BY DEF Types, HandlesTypeOK, Close

\* The resources by what they hold.
LEMMA Resources ==
  /\ \A kind \in {"plain", "module", "internet", "process", "thread", "mapping"} :
       [kind |-> kind] \in Resource
  /\ \A owned \in BOOLEAN : [kind |-> "mutex", owned |-> owned] \in Resource
  /\ \A manual, signaled \in BOOLEAN :
       [kind |-> "event", manual |-> manual, signaled |-> signaled] \in Resource
  /\ \A k \in Keys : [kind |-> "registry", key |-> k] \in Resource
  /\ \A i \in 0..Processes : [kind |-> "snapshot", index |-> i] \in Resource
  /\ \A i \in 0..MaxFound : [kind |-> "find", left |-> i] \in Resource
  /\ \A i \in 0..MaxHashed : [kind |-> "hash", size |-> i] \in Resource
  BY DEF Resource

LEMMA Kinds ==
  ASSUME NEW r \in Resource
  PROVE  /\ r.kind = "mutex" => r \in [kind : {"mutex"}, owned : BOOLEAN]
         /\ r.kind = "event" => r \in [kind : {"event"}, manual : BOOLEAN, signaled : BOOLEAN]
         /\ r.kind = "snapshot" => r \in [kind : {"snapshot"}, index : 0..Processes]
         /\ r.kind = "find" => r \in [kind : {"find"}, left : 0..MaxFound]
         /\ r.kind = "hash" => r \in [kind : {"hash"}, size : 0..MaxHashed]
  BY DEF Resource

-----------------------------------------------------------------------------
(* Each call makes a handle, changes one, closes one, or does none of these *)

IsReady(r) == (r.kind = "mutex" /\ ~r.owned) \/ (r.kind = "event" /\ r.signaled)

\* What the calls do, as far as handles and grants go.
Effect ==
  \/ \E r : /\ Makes(r)
            /\ \/ UNCHANGED spent
               \/ HandleLeft /\ ~IsReady(r) /\ spent' = spent \cup {nextHandle}
  \/ \E h, r : /\ Changes(h, r)
               /\ \/ UNCHANGED spent /\ ~IsReady(r)
                  \/ spent' = spent \ {h}
                  \/ spent' = spent \cup {h} /\ ~IsReady(r)
  \/ \E h : Close(h) /\ UNCHANGED spent
  \/ /\ UNCHANGED handleVars
     /\ \/ UNCHANGED spent
        \/ \E h \in DOMAIN handles : spent' = spent \cup {h} /\ ~IsReady(handles[h])

LEMMA MakeCallsEffect == Types /\ MakeCalls => Effect
  <1> SUFFICES ASSUME Types, MakeCalls PROVE Effect
    OBVIOUS
  <1>1. PICK kind \in {"plain", "module", "process", "thread", "mapping"} :
          Make([kind |-> kind]) /\ UNCHANGED spent
    BY DEF MakeCalls, OpenService, OpenToken, AcquireContext, MakePlain, CreateMapping, FindResource,
           OpenProcess, CreateRemoteThread, LoadLibrary, objectVars
  <1>2. Makes([kind |-> kind])
    BY <1>1, Resources DEF Makes
  <1> QED  BY <1>1, <1>2 DEF Effect

LEMMA WaitCallsEffect == Types /\ WaitCalls => Effect
  <1> SUFFICES ASSUME Types, WaitCalls PROVE Effect
    OBVIOUS
  <1>1. CASE CreateMutex
    <2>1. PICK owned \in BOOLEAN :
            /\ Make([kind |-> "mutex", owned |-> owned])
            /\ spent' = IF owned /\ HandleLeft THEN spent \cup {NewHandle} ELSE spent
      BY <1>1 DEF CreateMutex
    <2> DEFINE r == [kind |-> "mutex", owned |-> owned]
    <2>2. Makes(r) /\ (owned => ~IsReady(r))
      BY <2>1, Resources DEF Makes, IsReady
    <2> QED  BY <2>1, <2>2 DEF Effect, NewHandle
  <1>2. CASE CreateEvent
    <2>1. PICK manual \in BOOLEAN, signaled \in BOOLEAN :
            Make([kind |-> "event", manual |-> manual, signaled |-> signaled]) /\ UNCHANGED spent
      BY <1>2 DEF CreateEvent, objectVars
    <2>2. Makes([kind |-> "event", manual |-> manual, signaled |-> signaled])
      BY <2>1, Resources DEF Makes
    <2> QED  BY <2>1, <2>2 DEF Effect
  <1>3. ASSUME NEW h \in Given, ReleaseMutex(h) PROVE Effect
    <2> DEFINE r == [kind |-> "mutex", owned |-> FALSE]
    <2>1. Changes(h, r) /\ spent' = spent \ {h}
      BY <1>3, Resources DEF ReleaseMutex, Is, Changes
    <2> HIDE DEF r
    <2> QED  BY <2>1 DEF Effect
  <1>4. ASSUME NEW h \in Given, SignalEvent(h) PROVE Effect
    <2>1. PICK signaled \in BOOLEAN :
            /\ Is(h, "event") /\ Update(h, [handles[h] EXCEPT !.signaled = signaled])
            /\ spent' = IF signaled THEN spent \ {h} ELSE spent
      BY <1>4 DEF SignalEvent
    <2> DEFINE r == [handles[h] EXCEPT !.signaled = signaled]
    <2>2. handles[h] \in [kind : {"event"}, manual : BOOLEAN, signaled : BOOLEAN]
      BY <2>1, Kinds DEF Is, Types, HandlesTypeOK
    <2>3. r \in Resource /\ r.kind = "event" /\ r.signaled = signaled
      BY <2>2 DEF Resource
    <2> HIDE DEF r
    <2>4. Changes(h, r)
      BY <2>1, <2>3 DEF Changes, Is, r
    <2>5. ~signaled => ~IsReady(r)
      BY <2>3 DEF IsReady
    <2> QED  BY <2>1, <2>4, <2>5 DEF Effect
  <1>5. ASSUME NEW h \in Given, Wait(h) PROVE Effect
    <2>1. h \in DOMAIN handles /\ handles[h] \in Resource /\ handles[h].kind \in {"mutex", "event"}
      BY <1>5 DEF Wait, Ready, Is, Types, HandlesTypeOK
    <2>2. CASE Is(h, "mutex")
      <3> DEFINE r == [kind |-> "mutex", owned |-> TRUE]
      <3>1. handles[h].kind = "mutex" /\ ~Is(h, "event")
        BY <2>2 DEF Is
      <3>2. Update(h, r) /\ spent' = spent \cup {h}
        BY <1>5, <2>2, <3>1 DEF Wait, Consumes
      <3>3. Changes(h, r) /\ ~IsReady(r)
        BY <2>1, <3>1, <3>2, Resources DEF Changes, IsReady
      <3> HIDE DEF r
      <3> QED  BY <3>2, <3>3 DEF Effect
    <2>3. CASE Is(h, "event") /\ handles[h].manual
      <3>1. UNCHANGED handleVars /\ UNCHANGED spent
        BY <1>5, <2>3 DEF Wait, Consumes, Is
      <3> QED  BY <3>1 DEF Effect
    <2>4. CASE Is(h, "event") /\ ~handles[h].manual
      <3> DEFINE r == [handles[h] EXCEPT !.signaled = FALSE]
      <3>1. handles[h] \in [kind : {"event"}, manual : BOOLEAN, signaled : BOOLEAN]
        BY <2>1, <2>4, Kinds DEF Is
      <3>2. r \in Resource /\ r.kind = "event" /\ r.signaled = FALSE
        BY <3>1 DEF Resource
      <3>3. ~Is(h, "mutex")
        BY <2>4 DEF Is
      <3>4. Update(h, r) /\ spent' = spent \cup {h}
        BY <1>5, <2>4, <3>3 DEF Wait, Consumes
      <3> HIDE DEF r
      <3>5. Changes(h, r) /\ ~IsReady(r)
        BY <2>1, <2>4, <3>2, <3>4 DEF Changes, IsReady, Is
      <3> QED  BY <3>4, <3>5 DEF Effect
    <2> QED  BY <2>1, <2>2, <2>3, <2>4 DEF Is
  <1> QED  BY <1>1, <1>2, <1>3, <1>4, <1>5 DEF WaitCalls

LEMMA DataCallsEffect == Types /\ DataCalls => Effect
  <1> SUFFICES ASSUME Types, DataCalls PROVE Effect
    OBVIOUS
  <1>1. CASE FindFirst
    <2>1. PICK n \in 1..MaxFound : Make([kind |-> "find", left |-> n - 1]) /\ UNCHANGED spent
      BY <1>1 DEF FindFirst, objectVars
    <2>2. n - 1 \in 0..MaxFound
      BY <2>1, KernelAssumption
    <2>3. Makes([kind |-> "find", left |-> n - 1])
      BY <2>1, <2>2, Resources DEF Makes
    <2> QED  BY <2>1, <2>3 DEF Effect
  <1>2. CASE CreateSnapshot \/ CreateHash \/ OpenKey
    <2>1. ASSUME NEW r \in Resource, Make(r), UNCHANGED spent PROVE Effect
      BY <2>1 DEF Effect, Makes
    <2>2. 0 \in 0..Processes /\ 0 \in 0..MaxHashed
      BY KernelAssumption
    <2>3. CASE CreateSnapshot
      <3>1. [kind |-> "snapshot", index |-> 0] \in Resource
        BY <2>2, Resources
      <3> QED  BY <2>1, <2>3, <3>1 DEF CreateSnapshot, objectVars
    <2>4. CASE CreateHash
      <3>1. [kind |-> "hash", size |-> 0] \in Resource
        BY <2>2, Resources
      <3> QED  BY <2>1, <2>4, <3>1 DEF CreateHash, objectVars
    <2>5. CASE OpenKey
      <3>1. PICK k \in Keys : Make([kind |-> "registry", key |-> k]) /\ UNCHANGED spent
        BY <2>5 DEF OpenKey, objectVars
      <3>2. [kind |-> "registry", key |-> k] \in Resource
        BY Resources
      <3> QED  BY <2>1, <3>1, <3>2
    <2> QED  BY <1>2, <2>3, <2>4, <2>5
  <1>3. ASSUME NEW h \in Given, FindNext(h) PROVE Effect
    <2> DEFINE r == [handles[h] EXCEPT !.left = @ - 1]
    <2>1. h \in DOMAIN handles /\ handles[h].kind = "find" /\ handles[h].left > 0
          /\ Update(h, r) /\ UNCHANGED spent
      BY <1>3 DEF FindNext, Is, objectVars
    <2>2. handles[h] \in [kind : {"find"}, left : 0..MaxFound]
      BY <2>1, Kinds DEF Types, HandlesTypeOK
    <2>3. r \in [kind : {"find"}, left : 0..MaxFound]
      BY <2>1, <2>2, KernelAssumption
    <2>4. r \in Resource /\ r.kind = "find"
      BY <2>3 DEF Resource
    <2> HIDE DEF r
    <2> QED  BY <2>1, <2>4 DEF Effect, Changes, IsReady
  <1>4. ASSUME NEW h \in Given, NextProcess(h) PROVE Effect
    <2>1. /\ h \in DOMAIN handles /\ handles[h].kind = "snapshot" /\ UNCHANGED spent
          /\ \E index \in {0, handles[h].index} :
               Update(h, [kind |-> "snapshot", index |-> Fewest(index + 1, Processes)])
      BY <1>4 DEF NextProcess, Is, objectVars
    <2>2. handles[h].index \in 0..Processes
      BY <2>1, Kinds DEF Types, HandlesTypeOK
    <2>3. \A index \in {0, handles[h].index} :
            [kind |-> "snapshot", index |-> Fewest(index + 1, Processes)] \in Resource
      BY <2>2, Resources, KernelAssumption DEF Fewest
    <2>4. PICK r \in Resource : r.kind = "snapshot" /\ Update(h, r)
      BY <2>1, <2>3
    <2> QED  BY <2>1, <2>4 DEF Effect, Changes, IsReady
  <1>5. ASSUME NEW h \in Given, HashData(h) PROVE Effect
    <2>1. /\ h \in DOMAIN handles /\ handles[h].kind = "hash" /\ UNCHANGED spent
          /\ \E n \in 1..(MaxHashed - handles[h].size) :
               Update(h, [kind |-> "hash", size |-> handles[h].size + n])
      BY <1>5 DEF HashData, Is, objectVars
    <2>2. handles[h].size \in 0..MaxHashed
      BY <2>1, Kinds DEF Types, HandlesTypeOK
    <2>3. \A n \in 1..(MaxHashed - handles[h].size) :
            [kind |-> "hash", size |-> handles[h].size + n] \in Resource
      BY <2>2, Resources, KernelAssumption
    <2>4. PICK r \in Resource : r.kind = "hash" /\ Update(h, r)
      BY <2>1, <2>3
    <2> QED  BY <2>1, <2>4 DEF Effect, Changes, IsReady
  <1>6. ASSUME NEW h \in Given, SetValue(h) \/ DeleteValue(h) PROVE Effect
    BY <1>6 DEF SetValue, DeleteValue, Effect
  <1> QED  BY <1>1, <1>2, <1>3, <1>4, <1>5, <1>6 DEF DataCalls

LEMMA NetworkCallsEffect == Types /\ NetworkCalls => Effect
  <1> SUFFICES ASSUME Types, NetworkCalls PROVE Effect
    OBVIOUS
  <1>1. CASE \/ InternetOpen \/ WinHttpOpen \/ WinHttpConnect \/ WinHttpOpenRequest
             \/ OpenSocket \/ InternetOpenUrl
    <2>1. Make([kind |-> "internet"]) /\ UNCHANGED spent
      BY <1>1 DEF InternetOpen, WinHttpOpen, WinHttpConnect, WinHttpOpenRequest, OpenSocket,
                  InternetOpenUrl, objectVars
    <2>2. Makes([kind |-> "internet"])
      BY <2>1, Resources DEF Makes
    <2> QED  BY <2>1, <2>2 DEF Effect
  <1>2. ASSUME NEW h \in NetHandles, ReceiveResponse(h) \/ ReadData(h) \/ Connect(h) \/ Recv(h)
        PROVE  Effect
    BY <1>2 DEF ReceiveResponse, ReadData, Connect, Recv, objectVars, Effect
  <1> QED  BY <1>1, <1>2 DEF NetworkCalls

LEMMA NextEffect == Types /\ [Next]_vars => Effect
  <1> SUFFICES ASSUME Types, [Next]_vars PROVE Effect
    OBVIOUS
  <1>1. CASE MakeCalls \/ WaitCalls \/ DataCalls \/ NetworkCalls
    BY <1>1, MakeCallsEffect, WaitCallsEffect, DataCallsEffect, NetworkCallsEffect
  <1>2. CASE CloseCalls
    <2>1. ASSUME NEW h, Close(h), UNCHANGED spent PROVE Effect
      BY <2>1 DEF Effect
    <2>2. ASSUME NEW h \in NetHandles, CloseInvalid(h) PROVE Effect
      BY <2>2 DEF CloseInvalid, objectVars, Effect
    <2> QED  BY <1>2, <2>1, <2>2 DEF CloseCalls, CloseHandle, CloseSocket, CloseBoth, FindClose,
                                     DestroyHash, CloseHere, objectVars
  <1>3. CASE RemoteCalls \/ UNCHANGED vars
    BY <1>3 DEF RemoteCalls, AllocateRemote, vars, handleVars, Effect
  <1>4. ASSUME NEW h \in Given, NEW address \in RemoteAddresses, NEW size \in RemoteSizes,
               WriteRemote(h, address, size)
        PROVE  Effect
    BY <1>4 DEF WriteRemote, objectVars, Effect
  <1> QED  BY <1>1, <1>2, <1>3, <1>4 DEF Next

-----------------------------------------------------------------------------
(* A wait is granted once *)

\* No number is granted that was not given out: a new handle starts afresh.
GrantInv == Types /\ spent \subseteq 0..(nextHandle - 1) /\ GrantedOnce

LEMMA ReadyIs == \A h : Ready(h) <=> h \in DOMAIN handles /\ IsReady(handles[h])
  BY DEF Ready, Is, IsReady

LEMMA EffectGrant == GrantInv /\ Effect => GrantInv'
  <1> SUFFICES ASSUME GrantInv, Effect PROVE GrantInv'
    OBVIOUS
  <1>1. \A h \in spent : h \in DOMAIN handles => ~IsReady(handles[h])
    BY ReadyIs DEF GrantInv, GrantedOnce
  <1>2. nextHandle \in Nat /\ DOMAIN handles \subseteq 0..(nextHandle - 1)
    BY HandleAssumption DEF GrantInv, Types, HandlesTypeOK
  <1>3. SUFFICES /\ Types' /\ spent' \subseteq 0..(nextHandle' - 1)
                 /\ \A h \in spent' : h \in DOMAIN handles' => ~IsReady(handles'[h])
    <2>1. \A h : Ready(h)' <=> h \in DOMAIN handles' /\ IsReady(handles'[h])
      BY DEF Ready, Is, IsReady
    <2> QED  BY <2>1 DEF GrantInv, GrantedOnce
  <1>4. ASSUME NEW r, Makes(r),
               \/ UNCHANGED spent
               \/ HandleLeft /\ ~IsReady(r) /\ spent' = spent \cup {nextHandle}
        PROVE  /\ Types' /\ spent' \subseteq 0..(nextHandle' - 1)
               /\ \A h \in spent' : h \in DOMAIN handles' => ~IsReady(handles'[h])
    <2>1. /\ Types' /\ nextHandle' \in {nextHandle, nextHandle + 1}
          /\ \A h \in DOMAIN handles : handles'[h] = handles[h]
          /\ HandleLeft => /\ DOMAIN handles' = DOMAIN handles \cup {nextHandle}
                           /\ handles'[nextHandle] = r /\ nextHandle' = nextHandle + 1
          /\ ~HandleLeft => UNCHANGED handleVars
      BY <1>4, MakesHandle DEF GrantInv
    <2>2. CASE ~HandleLeft
      BY <1>1, <1>4, <2>1, <2>2 DEF handleVars, GrantInv
    <2>3. CASE HandleLeft
      <3>1. nextHandle \notin spent
        BY <1>2 DEF GrantInv
      <3>2. spent' \subseteq 0..(nextHandle' - 1)
        <4>1. spent' \subseteq spent \cup {nextHandle}
          BY <1>4
        <4>2. spent \subseteq 0..(nextHandle - 1) /\ nextHandle' = nextHandle + 1
          BY <2>1, <2>3 DEF GrantInv
        <4> QED  BY <1>2, <4>1, <4>2
      <3>3. \A h \in spent' : h \in DOMAIN handles' => ~IsReady(handles'[h])
        BY <1>1, <1>4, <2>1, <2>3, <3>1
      <3> QED  BY <2>1, <3>2, <3>3
    <2> QED  BY <2>2, <2>3
  <1>5. ASSUME NEW h, NEW r, Changes(h, r),
               \/ UNCHANGED spent /\ ~IsReady(r)
               \/ spent' = spent \ {h}
               \/ spent' = spent \cup {h} /\ ~IsReady(r)
        PROVE  /\ Types' /\ spent' \subseteq 0..(nextHandle' - 1)
               /\ \A k \in spent' : k \in DOMAIN handles' => ~IsReady(handles'[k])
    <2>1. /\ Types' /\ DOMAIN handles' = DOMAIN handles /\ nextHandle' = nextHandle
          /\ handles'[h] = r /\ \A k \in DOMAIN handles \ {h} : handles'[k] = handles[k]
      BY <1>5, ChangesHandle DEF GrantInv
    <2>2. h \in DOMAIN handles
      BY <1>5 DEF Changes
    <2>3. h \in 0..(nextHandle - 1)
      BY <1>2, <2>2
    <2>4. spent' \subseteq 0..(nextHandle' - 1)
      BY <1>5, <2>1, <2>3 DEF GrantInv
    <2>5. ~IsReady(r) \/ h \notin spent'
      BY <1>5
    <2>6. spent' \subseteq spent \cup {h}
      BY <1>5
    <2>7. ASSUME NEW k \in spent', k \in DOMAIN handles' PROVE ~IsReady(handles'[k])
      <3>1. CASE k = h
        BY <2>1, <2>5, <2>7, <3>1
      <3>2. CASE k # h
        <4>1. handles'[k] = handles[k] /\ k \in DOMAIN handles /\ k \in spent
          BY <2>1, <2>6, <2>7, <3>2
        <4> QED  BY <1>1, <4>1
      <3> QED  BY <3>1, <3>2
    <2> QED  BY <2>1, <2>4, <2>7
  <1>6. ASSUME NEW h, Close(h), UNCHANGED spent
        PROVE  /\ Types' /\ spent' \subseteq 0..(nextHandle' - 1)
               /\ \A k \in spent' : k \in DOMAIN handles' => ~IsReady(handles'[k])
    BY <1>1, <1>6, ClosesHandle DEF GrantInv
  <1>7. ASSUME UNCHANGED handleVars,
               \/ UNCHANGED spent
               \/ \E h \in DOMAIN handles : spent' = spent \cup {h} /\ ~IsReady(handles[h])
        PROVE  /\ Types' /\ spent' \subseteq 0..(nextHandle' - 1)
               /\ \A k \in spent' : k \in DOMAIN handles' => ~IsReady(handles'[k])
    BY <1>1, <1>2, <1>7 DEF handleVars, GrantInv, Types, HandlesTypeOK
  <1> QED  BY <1>4, <1>5, <1>6, <1>7 DEF Effect

LEMMA InitTypes == Init => Types
  <1> SUFFICES ASSUME Init PROVE Types
    OBVIOUS
  <1>1. DOMAIN handles = {} /\ handles \in [DOMAIN handles -> Resource] /\ nextHandle = 0
    BY DEF Init, HandlesInit
  <1> QED  BY <1>1, HandleAssumption DEF Types, HandlesTypeOK

\* Two waits on a mutex or an event with automatic reset are never both granted
\* without a release or a signal between them, whatever handles are closed and
\* made meanwhile (windows.rs: wait).
THEOREM OneGrant == Spec => []GrantedOnce
  <1>1. Init => GrantInv
    BY InitTypes DEF Init, GrantInv, GrantedOnce
  <1>2. GrantInv /\ [Next]_vars => GrantInv'
    BY NextEffect, EffectGrant DEF GrantInv
  <1>3. GrantInv => GrantedOnce
    BY DEF GrantInv
  <1> QED  BY <1>1, <1>2, <1>3, PTL DEF Spec

-----------------------------------------------------------------------------
(* The two tables stay apart *)

\* An entry that reads a response.
Talks(e) == e # NotOpen /\ e.kind \in {"request", "socket"}

LEMMA TalksIs == \A h : IsRequest(h) \/ IsSocket(h) <=> Talks(network[h])
  BY DEF IsRequest, IsSocket, Talks

\* What a step does to the handles, whatever it grants.
HandleStep ==
  \/ \E r : Makes(r)
  \/ \E h, r : Changes(h, r)
  \/ \E h : Close(h)
  \/ UNCHANGED handleVars

\* What it does to the network's table along with that.
Enters(r, none, e) ==
  /\ Makes(r) /\ (Talks(e) => r.kind = "internet")
  /\ network' = [network EXCEPT ![Made(none)] = e]
NetStep ==
  \/ HandleStep /\ UNCHANGED network
  \/ \E r, e : \E none \in {Null, InvalidHandle} : Enters(r, none, e)
  \/ HandleStep /\ \E h : network' = [network EXCEPT ![h] = NotOpen]
  \/ UNCHANGED handleVars /\ \E h, e : Talks(network[h]) /\ network' = [network EXCEPT ![h] = e]

LEMMA NetworkCallsStep == Types /\ NetworkCalls => NetStep
  <1> SUFFICES ASSUME Types, NetworkCalls PROVE NetStep
    OBVIOUS
  <1> DEFINE r == [kind |-> "internet"]
  <1>1. r \in Resource /\ r.kind = "internet"
    BY Resources
  <1> HIDE DEF r
  <1>2. ASSUME Make(r), NEW none \in {Null, InvalidHandle}, NEW e,
               network' = [network EXCEPT ![Made(none)] = e]
        PROVE  NetStep
    <2>1. Enters(r, none, e)
      BY <1>1, <1>2 DEF Enters, Makes
    <2> QED  BY <2>1 DEF NetStep
  <1>3. ASSUME Make(r), UNCHANGED network PROVE NetStep
    BY <1>1, <1>3 DEF NetStep, HandleStep, Makes
  <1>4. CASE InternetOpen
    BY <1>3, <1>4 DEF InternetOpen, r
  <1>5. CASE WinHttpOpen
    BY <1>2, <1>5 DEF WinHttpOpen, RegisterSession, r
  <1>6. CASE WinHttpConnect
    BY <1>2, <1>6 DEF WinHttpConnect, RegisterConnection, r
  <1>7. CASE WinHttpOpenRequest
    BY <1>2, <1>7 DEF WinHttpOpenRequest, RegisterRequest, r
  <1>8. CASE OpenSocket
    BY <1>2, <1>8 DEF OpenSocket, RegisterSocket, r
  <1>9. CASE InternetOpenUrl
    BY <1>2, <1>9 DEF InternetOpenUrl, r
  <1>10. ASSUME NEW h, NEW e, UNCHANGED handleVars,
                \/ UNCHANGED network
                \/ Talks(network[h]) /\ network' = [network EXCEPT ![h] = e]
         PROVE  NetStep
    BY <1>10 DEF NetStep, HandleStep
  <1>11. ASSUME NEW h \in NetHandles, ReceiveResponse(h) PROVE NetStep
    <2> DEFINE end == Follow(network[h].url)
               new == [kind |-> "request", url |-> end, response |-> end, cursor |-> 0]
    <2>1. UNCHANGED handleVars /\ (\/ UNCHANGED network
                                   \/ Talks(network[h]) /\ network' = [network EXCEPT ![h] = new])
      BY <1>11, TalksIs DEF ReceiveResponse, ResolveRequest
    <2> HIDE DEF new
    <2> QED  BY <2>1, <1>10
  <1>12. ASSUME NEW h \in NetHandles, ReadData(h) \/ Recv(h) PROVE NetStep
    <2>1. UNCHANGED handleVars
          /\ \E n \in 1..2 : \/ UNCHANGED network
                             \/ /\ Talks(network[h])
                                /\ network' = [network EXCEPT ![h].cursor = @ + Delivered(h, n)]
      BY <1>12, TalksIs DEF ReadData, ReadResponse, Recv, RecvSocket
    <2>2. PICK n : \/ UNCHANGED network
                   \/ /\ Talks(network[h])
                      /\ network' = [network EXCEPT ![h].cursor = @ + Delivered(h, n)]
      BY <2>1
    <2> DEFINE new == [network[h] EXCEPT !.cursor = @ + Delivered(h, n)]
    <2>3. \/ UNCHANGED network
          \/ Talks(network[h]) /\ network' = [network EXCEPT ![h] = new]
      BY <2>2
    <2> HIDE DEF new
    <2> QED  BY <2>1, <2>3, <1>10
  <1>13. ASSUME NEW h \in NetHandles, Connect(h) PROVE NetStep
    <2>1. PICK d \in Destinations : ConnectSocket(h, d) /\ UNCHANGED handleVars
      BY <1>13 DEF Connect
    <2> DEFINE new == [kind |-> "socket", peer |-> d, cursor |-> 0]
    <2>2. \/ UNCHANGED network
          \/ Talks(network[h]) /\ network' = [network EXCEPT ![h] = new]
      BY <2>1, TalksIs DEF ConnectSocket
    <2> HIDE DEF new
    <2> QED  BY <2>1, <2>2, <1>10
  <1> QED  BY <1>4, <1>5, <1>6, <1>7, <1>8, <1>9, <1>11, <1>12, <1>13 DEF NetworkCalls

LEMMA NextStep == Types /\ [Next]_vars => NetStep
  <1> SUFFICES ASSUME Types, [Next]_vars PROVE NetStep
    OBVIOUS
  <1>1. HandleStep
    BY NextEffect DEF Effect, HandleStep
  <1>2. ASSUME UNCHANGED network PROVE NetStep
    BY <1>1, <1>2 DEF NetStep
  <1>3. CASE LoadLibrary
    <2> DEFINE r == [kind |-> "module"]
               e == [kind |-> "session"]
    <2>1. Make(r) /\ network' = [network EXCEPT ![Made(Null)] = e]
      BY <1>3 DEF LoadLibrary, RegisterSession
    <2>2. r \in Resource /\ ~Talks(e)
      BY Resources DEF Talks
    <2> HIDE DEF r, e
    <2>3. Enters(r, Null, e)
      BY <2>1, <2>2 DEF Enters, Makes
    <2> QED  BY <2>3 DEF NetStep
  <1>4. CASE MakeCalls /\ ~LoadLibrary
    BY <1>2, <1>4 DEF MakeCalls, OpenService, OpenToken, AcquireContext, MakePlain, CreateMapping,
                      FindResource, OpenProcess, CreateRemoteThread
  <1>5. CASE WaitCalls
    <2>1. CASE CreateMutex \/ CreateEvent
      BY <1>2, <2>1 DEF CreateMutex, CreateEvent
    <2>2. ASSUME NEW h \in Given, ReleaseMutex(h) \/ SignalEvent(h) PROVE NetStep
      BY <1>2, <2>2 DEF ReleaseMutex, SignalEvent
    <2>3. ASSUME NEW h \in Given, Wait(h) PROVE NetStep
      BY <1>2, <2>3 DEF Wait
    <2> QED  BY <1>5, <2>1, <2>2, <2>3 DEF WaitCalls
  <1>6. CASE DataCalls
    <2>1. CASE FindFirst \/ CreateSnapshot \/ CreateHash \/ OpenKey
      BY <1>2, <2>1 DEF FindFirst, CreateSnapshot, CreateHash, OpenKey
    <2>2. ASSUME NEW h \in Given,
                 FindNext(h) \/ NextProcess(h) \/ HashData(h) \/ SetValue(h) \/ DeleteValue(h)
          PROVE  NetStep
      BY <1>2, <2>2 DEF FindNext, NextProcess, HashData, SetValue, DeleteValue
    <2> QED  BY <1>6, <2>1, <2>2 DEF DataCalls
  <1>7. CASE RemoteCalls
    BY <1>2, <1>7 DEF RemoteCalls, AllocateRemote
  <1>8. CASE NetworkCalls
    BY <1>8, NetworkCallsStep
  <1>9. CASE CloseCalls
    <2>1. ASSUME NEW h, CloseNetwork(h) PROVE NetStep
      BY <1>1, <2>1 DEF NetStep, CloseNetwork
    <2>2. ASSUME NEW h \in Given, CloseHandle(h) \/ CloseSocket(h) \/ FindClose(h) \/ DestroyHash(h)
          PROVE  NetStep
      BY <1>2, <2>1, <2>2 DEF CloseHandle, CloseSocket, CloseBoth, FindClose, DestroyHash, CloseHere
    <2>3. ASSUME NEW h \in NetHandles, CloseInvalid(h) PROVE NetStep
      BY <2>1, <2>3 DEF CloseInvalid
    <2> QED  BY <1>9, <2>2, <2>3 DEF CloseCalls
  <1>10. ASSUME NEW h \in Given, NEW address \in RemoteAddresses, NEW size \in RemoteSizes,
                WriteRemote(h, address, size)
         PROVE  NetStep
    BY <1>2, <1>10 DEF WriteRemote
  <1>11. CASE UNCHANGED vars
    BY <1>2, <1>11 DEF vars
  <1> QED  BY <1>3, <1>4, <1>5, <1>6, <1>7, <1>8, <1>9, <1>10, <1>11 DEF Next

\* No entry that reads is known by a number that is still to be given out.
NetInv ==
  /\ Types /\ DOMAIN network = NetHandles
  /\ \A h \in NetHandles : h >= nextHandle => ~Talks(network[h])
  /\ \A h \in DOMAIN handles : Talks(network[h]) => handles[h].kind = "internet"

LEMMA HandleStepKeeps ==
  ASSUME Types, HandleStep
  PROVE  /\ Types' /\ nextHandle' \in {nextHandle, nextHandle + 1}
         /\ \A h \in DOMAIN handles' :
              h # nextHandle => h \in DOMAIN handles /\ handles'[h].kind = handles[h].kind
  <1>1. CASE \E r : Makes(r)
    BY <1>1, MakesHandle DEF handleVars
  <1>2. CASE \E h, r : Changes(h, r)
    BY <1>2, ChangesHandle
  <1>3. CASE \E h : Close(h)
    BY <1>3, ClosesHandle
  <1>4. CASE UNCHANGED handleVars
    BY <1>4 DEF handleVars, Types, HandlesTypeOK
  <1> QED  BY <1>1, <1>2, <1>3, <1>4 DEF HandleStep

LEMMA StepTypes == Types /\ NetStep => Types'
  BY HandleStepKeeps DEF NetStep, HandleStep, Enters

LEMMA StepApart == NetInv /\ NetStep => NetInv'
  <1> SUFFICES ASSUME NetInv, NetStep PROVE NetInv'
    OBVIOUS
  <1>1. HandleStep
    BY DEF NetStep, HandleStep, Enters
  <1>2. /\ Types /\ Types' /\ nextHandle' \in {nextHandle, nextHandle + 1}
        /\ \A h \in DOMAIN handles' :
             h # nextHandle => h \in DOMAIN handles /\ handles'[h].kind = handles[h].kind
    BY <1>1, HandleStepKeeps DEF NetInv
  <1>3. nextHandle \in Nat /\ nextHandle' \in Nat /\ DOMAIN handles' \subseteq 0..(nextHandle' - 1)
        /\ DOMAIN handles' \subseteq NetHandles
    BY <1>2, HandleAssumption, KernelAssumption DEF Types, HandlesTypeOK
  <1>4. DOMAIN network' = NetHandles
    BY DEF NetInv, NetStep, Enters
  <1>5. ASSUME NEW h \in NetHandles, Talks(network'[h])
        PROVE  \/ Talks(network[h])
               \/ h \in {Null, InvalidHandle}
               \/ /\ h = nextHandle /\ nextHandle' = nextHandle + 1
                  /\ h \in DOMAIN handles' /\ handles'[h].kind = "internet"
    <2>1. CASE UNCHANGED network
      BY <1>5, <2>1
    <2>2. ASSUME NEW r, NEW e, NEW none \in {Null, InvalidHandle}, Enters(r, none, e),
                 ~Talks(network[h]), h \notin {Null, InvalidHandle}
          PROVE  /\ h = nextHandle /\ nextHandle' = nextHandle + 1
                 /\ h \in DOMAIN handles' /\ handles'[h].kind = "internet"
      <3>1. network' = [network EXCEPT ![Made(none)] = e]
        BY <2>2 DEF Enters
      <3>2. h = Made(none) /\ network'[h] = e
        BY <1>4, <1>5, <2>2, <3>1 DEF NetInv
      <3>3. HandleLeft /\ h = nextHandle
        BY <2>2, <3>2 DEF Made, NewHandle
      <3>4. r.kind = "internet" /\ Makes(r)
        BY <1>5, <2>2, <3>2 DEF Enters
      <3> QED  BY <1>2, <3>3, <3>4, MakesHandle
    <2>3. ASSUME NEW k, network' = [network EXCEPT ![k] = NotOpen] PROVE Talks(network[h])
      <3>1. network'[h] # NotOpen
        BY <1>5 DEF Talks
      <3>2. h \in DOMAIN network
        BY DEF NetInv
      <3>3. network'[h] = network[h]
        BY <2>3, <3>1, <3>2
      <3> QED  BY <1>5, <3>3
    <2>4. ASSUME NEW k, NEW e, Talks(network[k]), network' = [network EXCEPT ![k] = e]
          PROVE  Talks(network[h])
      <3>1. CASE h = k
        BY <2>4, <3>1
      <3>2. CASE h # k
        <4>1. network'[h] = network[h]
          BY <2>4, <3>2 DEF NetInv
        <4> QED  BY <1>5, <4>1
      <3> QED  BY <3>1, <3>2
    <2> QED  BY <2>1, <2>2, <2>3, <2>4 DEF NetStep
  <1>6. ASSUME NEW h \in NetHandles, h >= nextHandle' PROVE ~Talks(network'[h])
    <2>1. h \in Int /\ h \notin {Null, InvalidHandle} /\ h >= nextHandle /\ h >= nextHandle'
      BY <1>2, <1>3, <1>6, KernelAssumption, HandleAssumption DEF Null, InvalidHandle
    <2>2. ~Talks(network[h])
      BY <2>1 DEF NetInv
    <2>3. ~(h = nextHandle /\ nextHandle' = nextHandle + 1)
      BY <1>3, <2>1
    <2> QED  BY <1>5, <2>1, <2>2, <2>3
  <1>7. ASSUME NEW h \in DOMAIN handles', Talks(network'[h]) PROVE handles'[h].kind = "internet"
    <2>1. h \in NetHandles /\ h \notin {Null, InvalidHandle} /\ h \in Nat
      BY <1>3 DEF Null, InvalidHandle
    <2>2. CASE Talks(network[h])
      <3>1. h # nextHandle
        BY <1>3, <2>1, <2>2 DEF NetInv
      <3> QED  BY <1>2, <1>7, <2>2, <3>1 DEF NetInv
    <2> QED  BY <1>5, <1>7, <2>1, <2>2
  <1> QED  BY <1>2, <1>4, <1>6, <1>7 DEF NetInv

\* A request or a socket is known by the number of a network handle or by that
\* of a closed one, whichever calls close handles in the one table alone
\* (engine.rs: FindClose, CryptDestroyHash; network.rs: close).
THEOREM TablesApart == Spec => []RequestsApart
  <1>1. Init => NetInv
    BY InitTypes DEF Init, HandlesInit, NetworkInit, NetInv, Talks
  <1>2. NetInv /\ [Next]_vars => NetInv'
    BY NextStep, StepApart DEF NetInv
  <1>3. NetInv => RequestsApart
    BY TalksIs DEF NetInv, RequestsApart, Is
  <1> QED  BY <1>1, <1>2, <1>3, PTL DEF Spec

-----------------------------------------------------------------------------
(* The memory of other processes *)

Region(r, n) == {r} \X (1..n)

LEMMA RegionCount ==
  ASSUME NEW r, NEW n \in Nat
  PROVE  IsFiniteSet(Region(r, n)) /\ Cardinality(Region(r, n)) = n
  <1>1. IsFiniteSet({r}) /\ Cardinality({r}) = 1
    BY FS_Singleton
  <1>2. IsFiniteSet(1..n) /\ Cardinality(1..n) = n
    BY FS_Interval
  <1>3. IsFiniteSet(Region(r, n)) /\ Cardinality(Region(r, n)) = 1 * n
    BY <1>1, <1>2, FS_Product DEF Region
  <1> QED  BY <1>3

\* A region of m bytes, none when m is 0, is replaced by one of n bytes.
LEMMA RegionReplaced ==
  ASSUME NEW S, IsFiniteSet(S), NEW r, NEW m \in Nat, NEW n \in Nat,
         Region(r, m) \subseteq S, (S \ Region(r, m)) \cap Region(r, n) = {},
         NEW T, T = (S \ Region(r, m)) \cup Region(r, n)
  PROVE  IsFiniteSet(T) /\ Cardinality(T) = Cardinality(S) - m + n
  <1> DEFINE R == S \ Region(r, m)
  <1>1. S \cap Region(r, m) = Region(r, m) /\ Cardinality(Region(r, m)) = m
    BY RegionCount
  <1>2. IsFiniteSet(R) /\ Cardinality(R) = Cardinality(S) - m
    <2>1. IsFiniteSet(R) /\ Cardinality(R) = Cardinality(S) - Cardinality(S \cap Region(r, m))
      BY FS_Difference
    <2> QED  BY <1>1, <2>1
  <1>3. Cardinality(R \cap Region(r, n)) = 0
    BY FS_EmptySet
  <1> HIDE DEF R
  <1>4. /\ IsFiniteSet(R \cup Region(r, n))
        /\ Cardinality(R \cup Region(r, n)) = Cardinality(R) + n - 0
    <2>1. IsFiniteSet(R) /\ IsFiniteSet(Region(r, n)) /\ Cardinality(Region(r, n)) = n
      BY <1>2, RegionCount
    <2>2. /\ IsFiniteSet(R \cup Region(r, n))
          /\ Cardinality(R \cup Region(r, n))
               = Cardinality(R) + Cardinality(Region(r, n)) - Cardinality(R \cap Region(r, n))
      BY <2>1, FS_Union
    <2> QED  BY <1>3, <2>1, <2>2
  <1>5. Cardinality(R) \in Nat /\ Cardinality(S) \in Nat
    BY <1>2, FS_CardinalityType
  <1> QED  BY <1>1, <1>2, <1>4, <1>5 DEF R

RemoteTypes ==
  /\ DOMAIN remote \subseteq (0..(HandleSpace - 1)) \X (0..TopAddress)
  /\ \A r \in DOMAIN remote : remote[r] \in 1..MaxRemoteRegion
  /\ totalRemote \in Nat /\ IsFiniteSet(RemoteBytes)

RemoteInv == RemoteTypes /\ RemoteAccounted

\* Only VirtualAllocEx changes the regions or their account.
LEMMA NextRemote ==
  ASSUME [Next]_vars
  PROVE  \/ UNCHANGED remoteVars
         \/ \E h \in Given, address \in RemoteAddresses, size \in RemoteSizes :
              AllocateRemote(h, address, size)
  <1>1. CASE MakeCalls
    BY <1>1 DEF MakeCalls, OpenService, OpenToken, AcquireContext, MakePlain, CreateMapping,
                FindResource, OpenProcess, CreateRemoteThread, LoadLibrary, objectVars, remoteVars
  <1>2. CASE WaitCalls
    BY <1>2 DEF WaitCalls, CreateMutex, CreateEvent, ReleaseMutex, SignalEvent, Wait, objectVars,
                remoteVars
  <1>3. CASE DataCalls
    BY <1>3 DEF DataCalls, FindFirst, CreateSnapshot, CreateHash, OpenKey, FindNext, NextProcess,
                HashData, SetValue, DeleteValue, objectVars, remoteVars
  <1>4. CASE NetworkCalls
    BY <1>4 DEF NetworkCalls, InternetOpen, WinHttpOpen, WinHttpConnect, WinHttpOpenRequest,
                OpenSocket, InternetOpenUrl, ReceiveResponse, ReadData, Connect, Recv, objectVars,
                remoteVars
  <1>5. CASE CloseCalls
    BY <1>5 DEF CloseCalls, CloseHandle, CloseSocket, CloseBoth, FindClose, DestroyHash, CloseHere,
                CloseInvalid, objectVars, remoteVars
  <1>6. ASSUME NEW h \in Given, NEW address \in RemoteAddresses, NEW size \in RemoteSizes,
               WriteRemote(h, address, size)
        PROVE  UNCHANGED remoteVars
    BY <1>6 DEF WriteRemote, objectVars, remoteVars
  <1>7. CASE UNCHANGED vars
    BY <1>7 DEF vars, remoteVars
  <1> QED  BY <1>1, <1>2, <1>3, <1>4, <1>5, <1>6, <1>7 DEF Next, RemoteCalls

\* A region of its own is added, or the last address is asked for again.
LEMMA AllocationAccounted ==
  ASSUME Types, RemoteInv, NEW h \in Given, NEW address \in RemoteAddresses,
         NEW size \in RemoteSizes, AllocateRemote(h, address, size)
  PROVE  RemoteInv'
  <1> DEFINE new == <<h, address>>
             old == IF new \in DOMAIN remote THEN remote[new] ELSE 0
  <1>1. /\ h \in 0..(HandleSpace - 1) /\ address \in 0..TopAddress /\ TopAddress \in Nat
        /\ size \in 1..MaxRemoteRegion /\ size \in Nat /\ MaxRemoteRegion \in Nat
        /\ totalRemote + size <= MaxTotalRemote
    <2>1. h \in 0..(HandleSpace - 1)
      BY HandleAssumption DEF Given, Types, HandlesTypeOK
    <2> QED  BY <2>1, KernelAssumption DEF AllocateRemote, RemoteFits
  <1>2. /\ DOMAIN remote' = DOMAIN remote \cup {new} /\ remote'[new] = size
        /\ \A r \in DOMAIN remote \ {new} : remote'[r] = remote[r]
        /\ totalRemote' = totalRemote + size
    BY DEF AllocateRemote
  <1>3. new \in (0..(HandleSpace - 1)) \X (0..TopAddress)
    BY <1>1
  <1>4. old \in Nat /\ old <= MaxRemoteRegion /\ (new \in DOMAIN remote => remote[new] \in 1..MaxRemoteRegion)
    BY <1>1 DEF RemoteInv, RemoteTypes
  <1>5. new \in DOMAIN remote => address = TopAddress
    <2> SUFFICES ASSUME new \in DOMAIN remote PROVE address = TopAddress
      OBVIOUS
    <2>1. ~OverlapsRemote(new, address, size)
      BY DEF AllocateRemote
    <2>2. remote[new] \in 1..MaxRemoteRegion
      BY <1>4
    <2> QED  BY <1>1, <2>1, <2>2 DEF OverlapsRemote, RemoteEnd, Saturating, Fewest
  <1> HIDE DEF new
  <1>6. Region(new, old) \subseteq RemoteBytes /\ (RemoteBytes \ Region(new, old)) \cap Region(new, size) = {}
    <2>1. \A b \in RemoteBytes : b[1] = new => b \in Region(new, old)
      BY <1>1, <1>4 DEF RemoteBytes, Region
    <2>2. \A b \in Region(new, old) : b \in RemoteBytes
      BY <1>1, <1>4 DEF RemoteBytes, Region
    <2>3. \A b \in Region(new, size) : b[1] = new
      BY DEF Region
    <2> QED  BY <2>1, <2>2, <2>3
  <1>7. RemoteBytes' = (RemoteBytes \ Region(new, old)) \cup Region(new, size)
    <2>1. RemoteBytes' = {b \in (DOMAIN remote') \X (1..MaxRemoteRegion) : b[2] <= remote'[b[1]]}
      BY DEF RemoteBytes
    <2>2. ASSUME NEW b \in RemoteBytes'
          PROVE  b \in (RemoteBytes \ Region(new, old)) \cup Region(new, size)
      <3>1. /\ b = <<b[1], b[2]>> /\ b[1] \in DOMAIN remote' /\ b[2] \in 1..MaxRemoteRegion
            /\ b[2] <= remote'[b[1]]
        BY <2>1, <2>2
      <3>2. CASE b[1] = new
        BY <1>1, <1>2, <3>1, <3>2 DEF Region
      <3>3. CASE b[1] # new
        BY <1>2, <3>1, <3>3 DEF Region, RemoteBytes
      <3> QED  BY <3>2, <3>3
    <2>3. ASSUME NEW b \in (RemoteBytes \ Region(new, old)) \cup Region(new, size)
          PROVE  b \in RemoteBytes'
      <3>1. CASE b \in Region(new, size)
        BY <1>1, <1>2, <2>1, <3>1 DEF Region
      <3>2. CASE b \in RemoteBytes /\ b \notin Region(new, old)
        <4>1. /\ b = <<b[1], b[2]>> /\ b[1] \in DOMAIN remote /\ b[2] \in 1..MaxRemoteRegion
              /\ b[2] <= remote[b[1]]
          BY <3>2 DEF RemoteBytes
        <4>2. b[1] # new
          BY <1>4, <3>2, <4>1 DEF Region
        <4>3. remote'[b[1]] = remote[b[1]] /\ b[1] \in DOMAIN remote'
          BY <1>2, <4>1, <4>2
        <4> QED  BY <2>1, <4>1, <4>3
      <3> QED  BY <2>3, <3>1, <3>2
    <2> QED  BY <2>2, <2>3
  <1> HIDE DEF old
  <1>8. /\ IsFiniteSet(RemoteBytes')
        /\ Cardinality(RemoteBytes') = Cardinality(RemoteBytes) - old + size
    BY <1>1, <1>4, <1>6, <1>7, RegionReplaced DEF RemoteInv, RemoteTypes
  <1>9. Cardinality(RemoteBytes) \in Nat /\ totalRemote \in Nat /\ MaxTotalRemote \in Nat
    BY FS_CardinalityType, KernelAssumption DEF RemoteInv, RemoteTypes
  <1>10. RemoteTypes'
    BY <1>1, <1>2, <1>3, <1>8, <1>9 DEF RemoteInv, RemoteTypes
  <1>11. Cardinality(RemoteBytes') <= totalRemote' /\ totalRemote' <= MaxTotalRemote
    BY <1>1, <1>2, <1>4, <1>8, <1>9 DEF RemoteInv, RemoteAccounted
  <1>12. ASSUME \A r \in DOMAIN remote' : r[2] # TopAddress
         PROVE  totalRemote' = Cardinality(RemoteBytes')
    <2>1. new \notin DOMAIN remote
      BY <1>2, <1>5, <1>12 DEF new
    <2>2. old = 0 /\ totalRemote = Cardinality(RemoteBytes)
      BY <1>2, <1>12, <2>1 DEF old, RemoteInv, RemoteAccounted
    <2> QED  BY <1>1, <1>2, <1>8, <1>9, <2>2
  <1> QED  BY <1>10, <1>11, <1>12 DEF RemoteInv, RemoteAccounted

LEMMA InitRemote == Init => RemoteInv
  <1> SUFFICES ASSUME Init PROVE RemoteInv
    OBVIOUS
  <1>1. DOMAIN remote = {} /\ totalRemote = 0
    BY DEF Init
  <1>2. RemoteBytes = {}
    BY <1>1 DEF RemoteBytes
  <1> QED  BY <1>1, <1>2, FS_EmptySet, KernelAssumption DEF RemoteInv, RemoteTypes, RemoteAccounted

LEMMA RemoteAlways == Spec => [](Types /\ RemoteInv)
  <1>1. Init => Types /\ RemoteInv
    BY InitTypes, InitRemote
  <1>2. Types /\ RemoteInv /\ [Next]_vars => Types' /\ RemoteInv'
    <2> SUFFICES ASSUME Types, RemoteInv, [Next]_vars PROVE Types' /\ RemoteInv'
      OBVIOUS
    <2>1. Types'
      BY NextStep, StepTypes
    <2>2. CASE UNCHANGED remoteVars
      <3>1. UNCHANGED <<remote, totalRemote>> /\ RemoteBytes' = RemoteBytes
        BY <2>2 DEF remoteVars, RemoteBytes
      <3>2. RemoteTypes'
        BY <3>1 DEF RemoteInv, RemoteTypes
      <3>3. RemoteAccounted'
        BY <3>1 DEF RemoteInv, RemoteAccounted
      <3> QED  BY <2>1, <3>2, <3>3 DEF RemoteInv
    <2> QED  BY <2>1, <2>2, NextRemote, AllocationAccounted
  <1> QED  BY <1>1, <1>2, PTL DEF Spec

\* The account of remote memory covers every region, also after the handle of
\* its process was closed, and it is exact unless a region begins at the last
\* address (windows.rs: allocate_remote).
THEOREM RemoteCovered == Spec => []RemoteAccounted
  <1>1. RemoteInv => RemoteAccounted
    BY DEF RemoteInv
  <1> QED  BY <1>1, RemoteAlways, PTL

-----------------------------------------------------------------------------
(* What was read of a response *)

\* A set with 0 and every successor has every number.
LEMMA AllNumbers ==
  ASSUME NEW S, 0 \in S, \A n \in Nat : n \in S => n + 1 \in S
  PROVE  Nat \subseteq S
  <1> DEFINE T == Nat \ S
             R == OpToRel(<, Nat)
  <1>1. SUFFICES ASSUME T # {} PROVE FALSE
    OBVIOUS
  <1>2. IsWellFoundedOn(R, Nat) /\ T \subseteq Nat
    BY NatLessThanWellFounded
  <1> HIDE DEF R, T
  <1>3. PICK x \in T : \A y \in T : <<y, x>> \notin R
    BY <1>1, <1>2, WFMin
  <1>4. x \in Nat /\ x # 0
    BY DEF T
  <1>5. x - 1 \in Nat /\ x - 1 < x
    BY <1>4
  <1>6. <<x - 1, x>> \in R
    BY <1>4, <1>5 DEF R, OpToRel
  <1>7. x - 1 \in S
    BY <1>3, <1>5, <1>6 DEF T
  <1>8. (x - 1) + 1 \in S
    BY <1>5, <1>7
  <1> QED  BY <1>3, <1>4, <1>8 DEF T

HopsOf(u, n, c) == c[0] = u /\ \A d \in 1..n : c[d] = Redirects[c[d - 1]]

\* However many redirects are followed, there is a URL they lead to.
LEMMA HopsExist ==
  ASSUME NEW u \in Urls
  PROVE  \A n \in Nat : \E c \in [0..n -> Urls] : HopsOf(u, n, c)
  <1> DEFINE S == {n \in Nat : \E c \in [0..n -> Urls] : HopsOf(u, n, c)}
  <1>1. 0 \in S
    <2>1. [d \in 0..0 |-> u] \in [0..0 -> Urls] /\ HopsOf(u, 0, [d \in 0..0 |-> u])
      BY DEF HopsOf
    <2> QED  BY <2>1
  <1>2. ASSUME NEW n \in Nat, n \in S PROVE n + 1 \in S
    <2>1. PICK c \in [0..n -> Urls] : HopsOf(u, n, c)
      BY <1>2
    <2> DEFINE next == [d \in 0..(n + 1) |-> IF d = n + 1 THEN Redirects[c[n]] ELSE c[d]]
    <2>2. next \in [0..(n + 1) -> Urls]
      <3>1. Redirects[c[n]] \in Urls
        BY ScriptAssumption
      <3>2. \A d \in 0..(n + 1) : d # n + 1 => d \in 0..n
        OBVIOUS
      <3> QED  BY <3>1, <3>2
    <2>3. HopsOf(u, n + 1, next)
      <3>1. next[0] = u
        BY <2>1 DEF HopsOf
      <3>2. ASSUME NEW d \in 1..(n + 1) PROVE next[d] = Redirects[next[d - 1]]
        <4>1. d - 1 \in 0..n /\ next[d - 1] = c[d - 1]
          OBVIOUS
        <4>2. CASE d = n + 1
          BY <4>1, <4>2
        <4>3. CASE d # n + 1
          <5>1. d \in 1..n /\ next[d] = c[d]
            BY <4>3
          <5> QED  BY <2>1, <4>1, <5>1 DEF HopsOf
        <4> QED  BY <4>2, <4>3
      <3> HIDE DEF next
      <3> QED  BY <3>1, <3>2 DEF HopsOf
    <2> HIDE DEF next
    <2> QED  BY <2>2, <2>3
  <1> HIDE DEF S
  <1>3. Nat \subseteq S
    BY <1>1, <1>2, AllNumbers
  <1> QED  BY <1>3 DEF S

LEMMA FollowsToUrl == ASSUME NEW u \in Urls PROVE Follow(u) \in Urls
  <1> DEFINE hops == CHOOSE c \in [0..MaxRedirects -> Urls] : HopsOf(u, MaxRedirects, c)
  <1>1. Follow(u) = hops[MaxRedirects]
    BY DEF Follow, HopsOf
  <1>2. MaxRedirects \in Nat /\ \E c \in [0..MaxRedirects -> Urls] : HopsOf(u, MaxRedirects, c)
    BY ScriptAssumption, HopsExist
  <1>3. hops \in [0..MaxRedirects -> Urls]
    BY <1>2
  <1> HIDE DEF hops
  <1> QED  BY <1>1, <1>2, <1>3

Entries == Session \cup Connection \cup Request \cup Socket \cup {NotOpen}

\* How long the response is that an entry reads, and that it is not read past it.
LengthOf(e) ==
  IF e \in Request THEN (IF e.response = Nowhere THEN 0 ELSE Bodies[e.response])
  ELSE IF e \in Socket /\ e.peer # Nowhere THEN Responses[e.peer] ELSE 0
Within(e) == e \in Request \cup Socket => e.cursor <= LengthOf(e)

LEMMA EntryKinds ==
  ASSUME NEW e \in Entries
  PROVE  /\ (e # NotOpen /\ e.kind = "request") <=> e \in Request
         /\ (e # NotOpen /\ e.kind = "socket") <=> e \in Socket
         /\ e \in Socket => e \notin Request
  BY NotOpenAssumption DEF Entries, Session, Connection, Request, Socket

LEMMA LengthIsNat == ASSUME NEW e PROVE LengthOf(e) \in Nat
  BY ScriptAssumption DEF LengthOf, Request, Socket

LEMMA WithinAll ==
  NetworkTypeOK => (CursorsWithin <=> \A h \in NetHandles : Within(network[h]))
  <1> SUFFICES ASSUME NetworkTypeOK, NEW h \in NetHandles
               PROVE  /\ IsRequest(h) \/ IsSocket(h) <=> network[h] \in Request \cup Socket
                      /\ ResponseLength(h) = LengthOf(network[h])
    BY DEF CursorsWithin, Within
  <1>1. network[h] \in Entries
    BY DEF NetworkTypeOK, Entries
  <1> QED  BY <1>1, EntryKinds DEF IsRequest, IsSocket, ResponseLength, LengthOf

\* What a call may enter into the network's table.
EntryStep ==
  \/ UNCHANGED network
  \/ \E h : \E e \in Entries : Within(e) /\ network' = [network EXCEPT ![h] = e]

\* A read moves the cursor by what there is left at most.
LEMMA ReadWithin ==
  ASSUME NetworkTypeOK, CursorsWithin, NEW h \in NetHandles, IsRequest(h) \/ IsSocket(h),
         NEW n \in Nat
  PROVE  LET e == [network[h] EXCEPT !.cursor = @ + Delivered(h, n)]
         IN  e \in Entries /\ Within(e)
  <1> DEFINE old == network[h]
             cursor == old.cursor + Delivered(h, n)
             e == [old EXCEPT !.cursor = cursor]
  <1>1. old \in Entries /\ old \in Request \cup Socket /\ Within(old)
        /\ ResponseLength(h) = LengthOf(old)
    <2>1. old \in Entries
      BY DEF NetworkTypeOK, Entries
    <2> QED  BY <2>1, EntryKinds, WithinAll DEF IsRequest, IsSocket, ResponseLength, LengthOf
  <1>2. old.cursor \in Nat /\ old.cursor <= LengthOf(old) /\ LengthOf(old) \in Nat
    BY <1>1, LengthIsNat DEF Within, Request, Socket
  <1>3. cursor \in Nat /\ cursor <= LengthOf(old)
    BY <1>1, <1>2 DEF Delivered, Fewest
  <1> HIDE DEF cursor
  <1>4. CASE old \in Request
    <2>1. e \in Request /\ e.cursor = cursor /\ e.response = old.response
      BY <1>3, <1>4 DEF Request
    <2>2. LengthOf(e) = LengthOf(old)
      BY <1>4, <2>1 DEF LengthOf
    <2> QED  BY <1>3, <2>1, <2>2 DEF Within, Entries, cursor
  <1>5. CASE old \in Socket
    <2>1. e \in Socket /\ e.cursor = cursor /\ e.peer = old.peer
      BY <1>3, <1>5 DEF Socket
    <2>2. e \notin Request /\ old \notin Request
      BY <1>1, <1>5, <2>1, EntryKinds DEF Entries
    <2>3. LengthOf(e) = LengthOf(old)
      BY <1>5, <2>1, <2>2 DEF LengthOf
    <2> QED  BY <1>3, <2>1, <2>3 DEF Within, Entries, cursor
  <1> QED  BY <1>1, <1>4, <1>5

\* What was resolved or connected anew was not read yet.
LEMMA FreshEntries ==
  /\ [kind |-> "session"] \in Entries /\ Within([kind |-> "session"])
  /\ [kind |-> "connection"] \in Entries /\ Within([kind |-> "connection"])
  /\ NotOpen \in Entries /\ Within(NotOpen)
  /\ \A u \in Urls : \A r \in Urls \cup {Nowhere} :
       LET e == [kind |-> "request", url |-> u, response |-> r, cursor |-> 0]
       IN  e \in Entries /\ Within(e)
  /\ \A p \in Destinations \cup {Nowhere} :
       LET e == [kind |-> "socket", peer |-> p, cursor |-> 0]
       IN  e \in Entries /\ Within(e)
  <1>1. \A e : 0 <= LengthOf(e)
    BY LengthIsNat
  <1>2. \A u \in Urls : \A r \in Urls \cup {Nowhere} :
          [kind |-> "request", url |-> u, response |-> r, cursor |-> 0] \in Request
    BY DEF Request
  <1>3. \A p \in Destinations \cup {Nowhere} :
          [kind |-> "socket", peer |-> p, cursor |-> 0] \in Socket
    BY DEF Socket
  <1>4. /\ [kind |-> "session"] \in Session /\ [kind |-> "connection"] \in Connection
        /\ [kind |-> "session"] \notin Request \cup Socket
        /\ [kind |-> "connection"] \notin Request \cup Socket
        /\ NotOpen \notin Request \cup Socket
    BY NotOpenAssumption DEF Session, Connection, Request, Socket
  <1> QED  BY <1>1, <1>2, <1>3, <1>4 DEF Entries, Within

LEMMA NextEntries == NetworkTypeOK /\ CursorsWithin /\ [Next]_vars => EntryStep
  <1> SUFFICES ASSUME NetworkTypeOK, CursorsWithin, [Next]_vars PROVE EntryStep
    OBVIOUS
  <1>1. ASSUME NEW h, NEW e \in Entries, Within(e),
               UNCHANGED network \/ network' = [network EXCEPT ![h] = e]
        PROVE  EntryStep
    BY <1>1 DEF EntryStep
  <1>2. CASE MakeCalls
    <2>1. CASE LoadLibrary
      BY <1>1, <2>1, FreshEntries DEF LoadLibrary, RegisterSession
    <2> QED  BY <1>2, <2>1 DEF EntryStep, MakeCalls, OpenService, OpenToken, AcquireContext, MakePlain,
                               CreateMapping, FindResource, OpenProcess, CreateRemoteThread
  <1>3. CASE WaitCalls
    BY <1>3 DEF EntryStep, WaitCalls, CreateMutex, CreateEvent, ReleaseMutex, SignalEvent, Wait
  <1>4. CASE DataCalls
    BY <1>4 DEF EntryStep, DataCalls, FindFirst, CreateSnapshot, CreateHash, OpenKey, FindNext,
                NextProcess, HashData, SetValue, DeleteValue
  <1>5. CASE RemoteCalls
    BY <1>5 DEF EntryStep, RemoteCalls, AllocateRemote
  <1>6. CASE InternetOpen \/ WinHttpOpen \/ WinHttpConnect
    BY <1>1, <1>6, FreshEntries DEF EntryStep, InternetOpen, WinHttpOpen, WinHttpConnect,
                                    RegisterSession, RegisterConnection
  <1>7. CASE WinHttpOpenRequest
    <2>1. PICK u \in Urls : RegisterRequest(Made(Null), u)
      BY <1>7 DEF WinHttpOpenRequest
    <2> QED  BY <1>1, <2>1, FreshEntries DEF RegisterRequest
  <1>8. CASE OpenSocket
    BY <1>1, <1>8, FreshEntries DEF OpenSocket, RegisterSocket
  <1>9. CASE InternetOpenUrl
    <2>1. PICK u \in Urls :
            network' = [network EXCEPT ![Made(Null)] =
                          [kind |-> "request", url |-> Follow(u), response |-> Follow(u), cursor |-> 0]]
      BY <1>9 DEF InternetOpenUrl
    <2> QED  BY <1>1, <2>1, FreshEntries, FollowsToUrl
  <1>10. ASSUME NEW h \in NetHandles, ReceiveResponse(h) PROVE EntryStep
    <2>1. CASE IsRequest(h)
      <3>1. network[h] \in Request
        BY <2>1, EntryKinds DEF IsRequest, NetworkTypeOK, Entries
      <3>2. Follow(network[h].url) \in Urls
        BY <3>1, FollowsToUrl DEF Request
      <3>3. network' = [network EXCEPT ![h] = [kind |-> "request", url |-> Follow(network[h].url),
                                               response |-> Follow(network[h].url), cursor |-> 0]]
        BY <1>10, <2>1 DEF ReceiveResponse, ResolveRequest
      <3> QED  BY <1>1, <3>2, <3>3, FreshEntries
    <2>2. CASE ~IsRequest(h)
      BY <1>10, <2>2 DEF ReceiveResponse, ResolveRequest, EntryStep
    <2> QED  BY <2>1, <2>2
  <1>11. ASSUME NEW h \in NetHandles, ReadData(h) \/ Recv(h) PROVE EntryStep
    <2>1. PICK n \in 1..2 : ReadResponse(h, n) \/ RecvSocket(h, n)
      BY <1>11 DEF ReadData, Recv
    <2> DEFINE e == [network[h] EXCEPT !.cursor = @ + Delivered(h, n)]
    <2>2. \/ UNCHANGED network
          \/ (IsRequest(h) \/ IsSocket(h)) /\ network' = [network EXCEPT ![h] = e]
      BY <2>1 DEF ReadResponse, RecvSocket
    <2>3. IsRequest(h) \/ IsSocket(h) => e \in Entries /\ Within(e)
      BY ReadWithin
    <2> HIDE DEF e
    <2> QED  BY <2>2, <2>3 DEF EntryStep
  <1>12. ASSUME NEW h \in NetHandles, Connect(h) PROVE EntryStep
    <2>1. PICK d \in Destinations : ConnectSocket(h, d)
      BY <1>12 DEF Connect
    <2> QED  BY <1>1, <2>1, FreshEntries DEF ConnectSocket, EntryStep
  <1>13. CASE NetworkCalls
    BY <1>6, <1>7, <1>8, <1>9, <1>10, <1>11, <1>12, <1>13 DEF NetworkCalls
  <1>14. CASE CloseCalls
    <2>1. UNCHANGED network \/ \E h : CloseNetwork(h)
      BY <1>14 DEF CloseCalls, CloseHandle, CloseSocket, CloseBoth, FindClose, DestroyHash, CloseHere,
                   CloseInvalid
    <2> QED  BY <1>1, <2>1, FreshEntries DEF CloseNetwork, EntryStep
  <1>15. ASSUME NEW h \in Given, NEW address \in RemoteAddresses, NEW size \in RemoteSizes,
                WriteRemote(h, address, size)
         PROVE  EntryStep
    BY <1>15 DEF WriteRemote, EntryStep
  <1>16. CASE UNCHANGED vars
    BY <1>16 DEF vars, EntryStep
  <1> QED  BY <1>2, <1>3, <1>4, <1>5, <1>13, <1>14, <1>15, <1>16 DEF Next

LEMMA ReadsAlways == Spec => [](NetworkTypeOK /\ CursorsWithin)
  <1> DEFINE Inv == NetworkTypeOK /\ CursorsWithin
  <1>1. Init => Inv
    BY FreshEntries DEF Init, NetworkInit, NetworkTypeOK, CursorsWithin, IsRequest, IsSocket
  <1>2. Inv /\ [Next]_vars => Inv'
    <2> SUFFICES ASSUME Inv, [Next]_vars PROVE Inv'
      OBVIOUS
    <2>1. EntryStep
      BY NextEntries
    <2>2. /\ network \in [NetHandles -> Entries]
          /\ \A h \in NetHandles : Within(network[h])
      BY WithinAll DEF NetworkTypeOK, Entries
    <2>3. /\ network' \in [NetHandles -> Entries]
          /\ \A h \in NetHandles : Within(network'[h])
      BY <2>1, <2>2 DEF EntryStep
    <2>4. NetworkTypeOK'
      BY <2>3 DEF NetworkTypeOK, Entries
    <2>5. CursorsWithin'
      <3> SUFFICES ASSUME NEW h \in NetHandles, IsRequest(h)' \/ IsSocket(h)'
                   PROVE  network'[h].cursor <= ResponseLength(h)'
        BY DEF CursorsWithin
      <3>1. network'[h] \in Entries /\ Within(network'[h])
        BY <2>3
      <3>2. network'[h] \in Request \cup Socket /\ ResponseLength(h)' = LengthOf(network'[h])
        BY <3>1, EntryKinds DEF IsRequest, IsSocket, ResponseLength, LengthOf
      <3> QED  BY <3>1, <3>2 DEF Within
    <2> QED  BY <2>4, <2>5
  <1> QED  BY <1>1, <1>2, PTL DEF Spec

\* However requests are resolved again, sockets connected again and handles
\* closed in between, nothing is read past the end of a response (network.rs:
\* resolve_request, connect_socket, read_response, recv_socket).
THEOREM ReadsWithin == Spec => []CursorsWithin
  BY ReadsAlways, PTL

-----------------------------------------------------------------------------
(* Types *)

\* Only the registry's calls change the values, and only WriteProcessMemory
\* can end the emulator.
LEMMA NextRest ==
  ASSUME [Next]_vars
  PROVE  /\ UNCHANGED registry \/ \E h \in Given : SetValue(h) \/ DeleteValue(h)
         /\ UNCHANGED aborted \/ aborted' \in BOOLEAN
  <1>1. CASE MakeCalls /\ UNCHANGED aborted
    BY <1>1 DEF MakeCalls, OpenService, OpenToken, AcquireContext, MakePlain, CreateMapping,
                FindResource, OpenProcess, CreateRemoteThread, LoadLibrary, objectVars
  <1>2. CASE WaitCalls /\ UNCHANGED aborted
    BY <1>2 DEF WaitCalls, CreateMutex, CreateEvent, ReleaseMutex, SignalEvent, Wait, objectVars
  <1>3. CASE DataCalls /\ UNCHANGED aborted
    BY <1>3 DEF DataCalls, FindFirst, CreateSnapshot, CreateHash, OpenKey, FindNext, NextProcess,
                HashData, objectVars
  <1>4. CASE RemoteCalls /\ UNCHANGED aborted
    BY <1>4 DEF RemoteCalls, AllocateRemote
  <1>5. CASE NetworkCalls /\ UNCHANGED aborted
    BY <1>5 DEF NetworkCalls, InternetOpen, WinHttpOpen, WinHttpConnect, WinHttpOpenRequest,
                OpenSocket, InternetOpenUrl, ReceiveResponse, ReadData, Connect, Recv, objectVars
  <1>6. CASE CloseCalls /\ UNCHANGED aborted
    BY <1>6 DEF CloseCalls, CloseHandle, CloseSocket, CloseBoth, FindClose, DestroyHash, CloseHere,
                CloseInvalid, objectVars
  <1>7. ASSUME NEW h \in Given, NEW address \in RemoteAddresses, NEW size \in RemoteSizes,
               WriteRemote(h, address, size)
        PROVE  UNCHANGED registry /\ aborted' \in BOOLEAN
    BY <1>7 DEF WriteRemote, objectVars
  <1>8. CASE UNCHANGED vars
    BY <1>8 DEF vars
  <1> QED  BY <1>1, <1>2, <1>3, <1>4, <1>5, <1>6, <1>7, <1>8 DEF Next

\* Every object has the shape its kind asks for, whatever calls made it.
THEOREM TypeCorrect == Spec => []TypeOK
  <1> DEFINE Rest == registry \subseteq Keys /\ aborted \in BOOLEAN
  <1>1. Init => Rest
    BY DEF Init
  <1>2. Types /\ Rest /\ [Next]_vars => Rest'
    <2> SUFFICES ASSUME Types, Rest, [Next]_vars PROVE Rest'
      OBVIOUS
    <2>1. aborted' \in BOOLEAN
      BY NextRest
    <2>2. ASSUME NEW h \in Given, SetValue(h) \/ DeleteValue(h) PROVE registry' \subseteq Keys
      <3>1. handles[h] \in Resource /\ handles[h].kind = "registry"
        BY <2>2 DEF SetValue, DeleteValue, Is, Types, HandlesTypeOK
      <3>2. handles[h].key \in Keys
        BY <3>1 DEF Resource
      <3> QED  BY <2>2, <3>2 DEF SetValue, DeleteValue
    <2> QED  BY <2>1, <2>2, NextRest
  <1>3. Init => GrantInv
    BY InitTypes DEF Init, GrantInv, GrantedOnce
  <1>4. GrantInv /\ [Next]_vars => GrantInv'
    BY NextEffect, EffectGrant DEF GrantInv
  <1>5. GrantInv => Types
    BY DEF GrantInv
  <1>6. GrantInv /\ NetworkTypeOK /\ RemoteInv /\ Rest => TypeOK
    <2> SUFFICES ASSUME GrantInv, NetworkTypeOK, RemoteInv, Rest PROVE TypeOK
      OBVIOUS
    <2>1. totalRemote \in 0..MaxTotalRemote
      BY KernelAssumption DEF RemoteInv, RemoteTypes, RemoteAccounted
    <2>2. spent \subseteq 0..(HandleSpace - 1)
      BY HandleAssumption DEF GrantInv, Types, HandlesTypeOK
    <2> QED  BY <2>1, <2>2 DEF GrantInv, Types, RemoteInv, RemoteTypes, TypeOK
  <1> HIDE DEF Rest
  <1>7. Spec => [](Types /\ RemoteInv)
    BY RemoteAlways
  <1>8. Spec => [](NetworkTypeOK /\ CursorsWithin)
    BY ReadsAlways
  <1> QED  BY <1>1, <1>2, <1>3, <1>4, <1>5, <1>6, <1>7, <1>8, PTL DEF Spec

=============================================================================
