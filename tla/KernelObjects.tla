---------------------------- MODULE KernelObjects ----------------------------
(***************************************************************************)
(* The objects other than files that the emulated Windows hands out, and   *)
(* what the API calls of crates/analysis-dynamic/src/engine.rs do with     *)
(* them: mutexes, events and waits, enumerations, hashes, registry keys,   *)
(* the memory of other processes, and the handles of the scripted network. *)
(* The table of handles (windows.rs) and that of the network (network.rs)  *)
(* are two, and each call keeps both in step or does not.                  *)
(***************************************************************************)
EXTENDS HandleTable, ScriptedNetwork

CONSTANTS
  Keys,             \* registry values a sample sets, each under its key
  Processes,        \* entries of a process snapshot, 3
  MaxFound,         \* bound of the model: files a search finds
  MaxHashed,        \* 4 MiB, in units of this model
  TopAddress,       \* the last address of the 32-bit space
  RemoteAddresses,  \* where remote memory is asked for and written
  RemoteSizes,      \* sizes of remote allocations and writes
  MaxRemoteRegion,  \* MAX_REMOTE_REGION_BYTES
  MaxTotalRemote,   \* MAX_TOTAL_REMOTE_BYTES
  Offline           \* environment.network_mode is Offline

\* The values that stand for no handle: 0, and -1 for sockets and searches.
Null == -1
InvalidHandle == -2

ASSUME KernelAssumption ==
  /\ NetHandles = {Null, InvalidHandle} \cup 0..(HandleSpace - 1)
  /\ Processes \in Nat /\ MaxFound \in Nat /\ MaxHashed \in Nat
  /\ TopAddress \in Nat /\ RemoteAddresses \subseteq 0..TopAddress
  /\ RemoteSizes \subseteq Nat /\ MaxRemoteRegion \in Nat /\ MaxTotalRemote \in Nat
  /\ Offline \in BOOLEAN

VARIABLES
  registry,     \* the registry values that exist
  remote,       \* remote_memory: the size of each region, by handle and address
  totalRemote,  \* total_remote_bytes
  aborted,      \* the emulator itself has failed
  spent         \* auxiliary: mutexes and events granted and not released or set since

remoteVars == <<remote, totalRemote>>
objectVars == <<registry, remote, totalRemote, spent>>
vars == <<handles, nextHandle, network, registry, remote, totalRemote, aborted, spent>>

\* HandleResource: objects without a state that a call looks at are plain.
Resource ==
  [kind : {"plain", "module", "internet", "process", "thread", "mapping"}]
    \cup [kind : {"registry"}, key : Keys]
    \cup [kind : {"mutex"}, owned : BOOLEAN]
    \cup [kind : {"event"}, manual : BOOLEAN, signaled : BOOLEAN]
    \cup [kind : {"snapshot"}, index : 0..Processes]
    \cup [kind : {"find"}, left : 0..MaxFound]
    \cup [kind : {"hash"}, size : 0..MaxHashed]

Is(h, kind) == h \in DOMAIN handles /\ handles[h].kind = kind

TypeOK ==
  /\ HandlesTypeOK(Resource)
  /\ NetworkTypeOK
  /\ registry \subseteq Keys
  /\ DOMAIN remote \subseteq (0..(HandleSpace - 1)) \X (0..TopAddress)
  /\ \A r \in DOMAIN remote : remote[r] \in 1..MaxRemoteRegion
  /\ totalRemote \in 0..MaxTotalRemote
  /\ aborted \in BOOLEAN
  /\ spent \subseteq 0..(HandleSpace - 1)

Init ==
  /\ HandlesInit /\ NetworkInit
  /\ registry = {} /\ remote = <<>> /\ totalRemote = 0
  /\ aborted = FALSE /\ spent = {}

\* The arguments a call may get: a handle given out so far, live or not.
Given == 0..(nextHandle - 1)

\* A call that asks for a handle goes on without one when the table is full.
Make(r) == IF HandleLeft THEN Allocate(r) ELSE AllocateFails
Made(none) == IF HandleLeft THEN NewHandle ELSE none

---------------------------------------------------------------------------
\* Objects that no later call changes.

MakePlain == Make([kind |-> "plain"]) /\ UNCHANGED <<network, objectVars>>
OpenService == MakePlain
OpenToken == MakePlain
AcquireContext == MakePlain
CreateMapping == Make([kind |-> "mapping"]) /\ UNCHANGED <<network, objectVars>>
FindResource == Make([kind |-> "module"]) /\ UNCHANGED <<network, objectVars>>
OpenProcess == Make([kind |-> "process"]) /\ UNCHANGED <<network, objectVars>>
CreateRemoteThread == Make([kind |-> "thread"]) /\ UNCHANGED <<network, objectVars>>

\* LoadLibrary enters the module's handle into the network's table as well.
LoadLibrary ==
  /\ Make([kind |-> "module"])
  /\ RegisterSession(Made(Null))
  /\ UNCHANGED objectVars

---------------------------------------------------------------------------
\* Mutexes, events and waits.

\* CreateMutex and OpenMutex; a name is not looked up.
CreateMutex ==
  \E owned \in BOOLEAN :
    /\ Make([kind |-> "mutex", owned |-> owned])
    /\ spent' = IF owned /\ HandleLeft THEN spent \cup {NewHandle} ELSE spent
    /\ UNCHANGED <<network, registry, remoteVars>>

CreateEvent ==
  \E manual, signaled \in BOOLEAN :
    /\ Make([kind |-> "event", manual |-> manual, signaled |-> signaled])
    /\ UNCHANGED <<network, objectVars>>

ReleaseMutex(h) ==
  /\ Is(h, "mutex")
  /\ Update(h, [kind |-> "mutex", owned |-> FALSE])
  /\ spent' = spent \ {h}
  /\ UNCHANGED <<network, registry, remoteVars>>

\* SetEvent and ResetEvent.
SignalEvent(h) ==
  \E signaled \in BOOLEAN :
    /\ Is(h, "event")
    /\ Update(h, [handles[h] EXCEPT !.signaled = signaled])
    /\ spent' = IF signaled THEN spent \ {h} ELSE spent
    /\ UNCHANGED <<network, registry, remoteVars>>

Ready(h) == \/ (Is(h, "mutex") /\ ~handles[h].owned)
            \/ (Is(h, "event") /\ handles[h].signaled)
\* A wait that leaves the mutex free for the next one.
ConsumesEvents(h) == Is(h, "event") /\ ~handles[h].manual
\* A wait is granted for one caller, unless the event is reset by hand.
Consumes(h) == Is(h, "mutex") \/ (Is(h, "event") /\ ~handles[h].manual)

\* WaitForSingleObject answers at once: granted, or as if it had timed out.
Wait(h) ==
  /\ Ready(h)
  /\ IF Consumes(h)
     THEN Update(h, IF Is(h, "mutex") THEN [kind |-> "mutex", owned |-> TRUE]
                    ELSE [handles[h] EXCEPT !.signaled = FALSE])
     ELSE UNCHANGED handleVars
  /\ spent' = IF Is(h, "event") /\ handles[h].manual THEN spent ELSE spent \cup {h}
  /\ UNCHANGED <<network, registry, remoteVars>>

---------------------------------------------------------------------------
\* Enumerations and hashes.

\* FindFirstFile: no handle is asked for when nothing is found.
FindFirst ==
  \E n \in 1..MaxFound : /\ Make([kind |-> "find", left |-> n - 1])
                         /\ UNCHANGED <<network, objectVars>>
FindNext(h) ==
  /\ Is(h, "find") /\ handles[h].left > 0
  /\ Update(h, [handles[h] EXCEPT !.left = @ - 1])
  /\ UNCHANGED <<network, objectVars>>

CreateSnapshot == Make([kind |-> "snapshot", index |-> 0]) /\ UNCHANGED <<network, objectVars>>
\* Process32First and Process32Next.
NextProcess(h) ==
  /\ Is(h, "snapshot")
  /\ \E reset \in BOOLEAN :
       LET index == IF reset THEN 0 ELSE handles[h].index
       IN  Update(h, [kind |-> "snapshot", index |-> Fewest(index + 1, Processes)])
  /\ UNCHANGED <<network, objectVars>>

CreateHash == Make([kind |-> "hash", size |-> 0]) /\ UNCHANGED <<network, objectVars>>
HashData(h) ==
  /\ Is(h, "hash")
  /\ \E n \in 1..(MaxHashed - handles[h].size) :
       Update(h, [kind |-> "hash", size |-> handles[h].size + n])
  /\ UNCHANGED <<network, objectVars>>

---------------------------------------------------------------------------
\* The registry: values stay when the handle of their key is closed.

OpenKey == \E k \in Keys : /\ Make([kind |-> "registry", key |-> k])
                           /\ UNCHANGED <<network, objectVars>>
SetValue(h) ==
  /\ Is(h, "registry")
  /\ registry' = registry \cup {handles[h].key}
  /\ UNCHANGED <<handleVars, network, remoteVars, spent>>
DeleteValue(h) ==
  /\ Is(h, "registry")
  /\ registry' = registry \ {handles[h].key}
  /\ UNCHANGED <<handleVars, network, remoteVars, spent>>

---------------------------------------------------------------------------
\* The memory of other processes.

\* u32::saturating_add
Saturating(a, b) == Fewest(a + b, TopAddress)
RemoteEnd(r) == Saturating(r[2], remote[r])

OverlapsRemote(r, address, size) ==
  /\ address < RemoteEnd(r)
  /\ Saturating(address, size) > r[2]

RemoteFits(size) ==
  /\ size # 0 /\ size <= MaxRemoteRegion
  /\ totalRemote + size <= MaxTotalRemote

\* The bytes the regions hold, each as a region and a place in it.
RemoteBytes == {b \in (DOMAIN remote) \X (1..MaxRemoteRegion) : b[2] <= remote[b[1]]}

\* VirtualAllocEx; an address the sample leaves open is any address of the
\* heap, which moves on whether or not the call succeeds.
AllocateRemote(h, address, size) ==
  /\ Is(h, "process") /\ RemoteFits(size)
  /\ \A r \in DOMAIN remote : r[1] = h => ~OverlapsRemote(r, address, size)
  /\ remote' = [r \in DOMAIN remote \cup {<<h, address>>} |->
                  IF r = <<h, address>> THEN size ELSE remote[r]]
  /\ totalRemote' = totalRemote + size
  /\ UNCHANGED <<handleVars, network, registry, spent>>

\* The region write_remote chooses: ends are compared with saturation.
Takes(r, h, address, size) ==
  /\ r[1] = h /\ address >= r[2]
  /\ Saturating(address, size) <= RemoteEnd(r)

\* WriteProcessMemory, of a closed handle too; bytes are left out.  A write
\* that passes the end of the region it was matched with is a panic, which
\* aborts the whole engine.
WriteRemote(h, address, size) ==
  \E r \in DOMAIN remote :
    /\ Takes(r, h, address, size)
    /\ \A s \in DOMAIN remote : Takes(s, h, address, size) => r[2] <= s[2]
    /\ aborted' = (address - r[2] + size > remote[r])
    /\ UNCHANGED <<handleVars, network, objectVars>>

---------------------------------------------------------------------------
\* The handles of the network, which its own table knows by the same number;
\* without a handle they are entered under the number that stands for none.

InternetOpen == Make([kind |-> "internet"]) /\ UNCHANGED <<network, objectVars>>
WinHttpOpen ==
  Make([kind |-> "internet"]) /\ RegisterSession(Made(Null)) /\ UNCHANGED objectVars
WinHttpConnect ==
  Make([kind |-> "internet"]) /\ RegisterConnection(Made(Null)) /\ UNCHANGED objectVars
WinHttpOpenRequest ==
  \E u \in Urls :
    Make([kind |-> "internet"]) /\ RegisterRequest(Made(Null), u) /\ UNCHANGED objectVars
OpenSocket ==
  Make([kind |-> "internet"]) /\ RegisterSocket(Made(InvalidHandle)) /\ UNCHANGED objectVars

\* InternetOpenUrl opens the request and resolves it at once.
InternetOpenUrl ==
  \E u \in Urls :
    /\ ~Offline
    /\ Make([kind |-> "internet"])
    /\ network' = [network EXCEPT ![Made(Null)] =
                     [kind |-> "request", url |-> Follow(u), response |-> Follow(u), cursor |-> 0]]
    /\ UNCHANGED objectVars

ReceiveResponse(h) == ~Offline /\ ResolveRequest(h) /\ UNCHANGED <<handleVars, objectVars>>
ReadData(h) == \E n \in 1..2 : ReadResponse(h, n) /\ UNCHANGED <<handleVars, objectVars>>
Connect(h) ==
  \E d \in Destinations : ~Offline /\ ConnectSocket(h, d) /\ UNCHANGED <<handleVars, objectVars>>
Recv(h) == \E n \in 1..2 : ~Offline /\ RecvSocket(h, n) /\ UNCHANGED <<handleVars, objectVars>>

---------------------------------------------------------------------------
\* Handles are closed by calls that look at both tables and by calls that do
\* not look at the network's; none of them looks at what kind of handle it is.

CloseBoth(h) ==
  /\ Close(h) /\ CloseNetwork(h)
  /\ UNCHANGED objectVars
\* The memory of a process goes with its handle, by the account alone.
CloseFreeingRemote(h) ==
  /\ Close(h) /\ CloseNetwork(h)
  /\ totalRemote' = totalRemote - Cardinality({b \in RemoteBytes : b[1][1] = h})
  /\ UNCHANGED <<registry, remote, spent>>
CloseHandle(h) == CloseBoth(h)
CloseSocket(h) == CloseBoth(h)
\* FindClose, CryptDestroyHash, CryptReleaseContext
CloseHere(h) == Close(h) /\ UNCHANGED <<network, objectVars>>
FindClose(h) == CloseHere(h)
DestroyHash(h) == CloseHere(h)
\* The network's entry goes although the table had none to close.
CloseInvalid(h) ==
  /\ h \notin DOMAIN handles
  /\ CloseNetwork(h)
  /\ UNCHANGED <<handleVars, objectVars>>

---------------------------------------------------------------------------

MakeCalls ==
  \/ OpenService \/ OpenToken \/ AcquireContext \/ CreateMapping \/ FindResource
  \/ OpenProcess \/ CreateRemoteThread \/ LoadLibrary
WaitCalls ==
  \/ CreateMutex \/ CreateEvent
  \/ \E h \in Given : ReleaseMutex(h) \/ SignalEvent(h) \/ Wait(h)
DataCalls ==
  \/ FindFirst \/ CreateSnapshot \/ CreateHash \/ OpenKey
  \/ \E h \in Given : FindNext(h) \/ NextProcess(h) \/ HashData(h) \/ SetValue(h) \/ DeleteValue(h)
RemoteCalls ==
  \E h \in Given, address \in RemoteAddresses, size \in RemoteSizes :
    AllocateRemote(h, address, size)
NetworkCalls ==
  \/ InternetOpen \/ WinHttpOpen \/ WinHttpConnect \/ WinHttpOpenRequest
  \/ OpenSocket \/ InternetOpenUrl
  \/ \E h \in NetHandles : ReceiveResponse(h) \/ ReadData(h) \/ Connect(h) \/ Recv(h)
CloseCalls ==
  \/ \E h \in Given : CloseHandle(h) \/ CloseSocket(h) \/ FindClose(h) \/ DestroyHash(h)
  \/ \E h \in NetHandles : CloseInvalid(h)

\* The API calls on these objects, in whatever order the sample makes them.
Next ==
  /\ ~aborted
  /\ \/ /\ MakeCalls \/ WaitCalls \/ DataCalls \/ RemoteCalls \/ NetworkCalls \/ CloseCalls
        /\ UNCHANGED aborted
     \/ \E h \in Given, address \in RemoteAddresses, size \in RemoteSizes :
          WriteRemote(h, address, size)

Spec == Init /\ [][Next]_vars

---------------------------------------------------------------------------

\* A mutex or an event with automatic reset that was granted to a wait is not
\* granted again before it was released or set (windows.rs: wait).
GrantedOnce == \A h \in spent : ~Ready(h)

\* What a request or a socket has read belongs to no other object: the handle
\* it is known by designates a network handle or nothing any more, however
\* handles are closed behind the back of the network's table.
RequestsApart ==
  \A h \in DOMAIN handles : IsRequest(h) \/ IsSocket(h) => Is(h, "internet")

\* The account of remote memory is what the regions hold, those of closed
\* handles included, so that no order of calls passes the limit.  A region that
\* begins at the last address overlaps no other, its end being saturated: asked
\* for again it replaces itself and is counted twice, never too little
\* (windows.rs: allocate_remote, total_remote_bytes).
RemoteAccounted ==
  LET stored == Cardinality(RemoteBytes)
  IN  /\ stored <= totalRemote /\ totalRemote <= MaxTotalRemote
      /\ (\A r \in DOMAIN remote : r[2] # TopAddress) => totalRemote = stored

\* A write that is not inside a region fails like any other call, and the
\* engine goes on to write its report ("invalid reads, writes, or execution
\* become structured termination reasons", docs/security-model.md:138).
WritesNeverAbort == ~aborted

=============================================================================
