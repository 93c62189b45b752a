------------------------- MODULE LinuxMachine_proofs -------------------------
(***************************************************************************)
(* What holds of LinuxMachine for every value of its constants: files and  *)
(* cursors stay within their limit, the descriptors and the network agree  *)
(* on the sockets, a descriptor is never reused, mappings stay apart and   *)
(* counted, and every step brings the end nearer.                          *)
(***************************************************************************)
EXTENDS LinuxMachine, FiniteSetTheorems, TLAPS

-----------------------------------------------------------------------------
(* Files, descriptors and sockets *)

IoTypes ==
  /\ files \in [Paths -> 0..MaxIo \cup {NoFile}]
  /\ descriptors \in [Fds -> Descriptor \cup {NoFd}]
  /\ nextFd \in 0..(MaxFd + 1)
  /\ network \in [Fds -> Socket \cup {NotOpen}]

\* What a descriptor designates is there: files are never deleted, and a
\* descriptor never moves past the end of what it may have read or written.
Designates(fd) ==
  descriptors[fd] # NoFd /\ ~descriptors[fd].socket =>
    files[descriptors[fd].path] # NoFile /\ descriptors[fd].cursor <= MaxIo

\* A socket has given at most its response.
Within(fd) == network[fd] # NotOpen => network[fd].cursor <= ResponseLength(fd)

IoInv ==
  /\ IoTypes /\ SocketsMatch
  /\ \A fd \in Fds : Designates(fd) /\ Within(fd) /\ (fd >= nextFd => descriptors[fd] = NoFd)

LEMMA InitIoInv == Init => IoInv
  <1> SUFFICES ASSUME Init PROVE IoInv
    OBVIOUS
  <1>1. files \in [Paths -> 0..MaxIo \cup {NoFile}]
    BY LinuxAssumption DEF Init
  <1>2. \A fd \in 0..2 : StdPaths[fd] \in Paths /\ files[StdPaths[fd]] # NoFile
    <2> TAKE fd \in 0..2
    <2>1. StdPaths[fd] \in DOMAIN Shipped /\ StdPaths[fd] \in Paths
      BY LinuxAssumption
    <2>2. files[StdPaths[fd]] = Shipped[StdPaths[fd]]
      BY <2>1 DEF Init
    <2> QED  BY <2>1, <2>2, LinuxAssumption
  <1>3. \A fd \in Fds : IF fd <= 2
          THEN /\ descriptors[fd] \in Descriptor /\ ~descriptors[fd].socket
               /\ descriptors[fd].path = StdPaths[fd] /\ descriptors[fd].cursor = 0
          ELSE descriptors[fd] = NoFd
    BY <1>2, LinuxAssumption DEF Init, Fds, Descriptor
  <1>4. descriptors \in [Fds -> Descriptor \cup {NoFd}]
    <2>1. DOMAIN descriptors = Fds /\ descriptors = [fd \in Fds |-> descriptors[fd]]
      BY DEF Init
    <2> QED  BY <1>3, <2>1
  <1>5. network = [h \in Fds |-> NotOpen] /\ nextFd = 3
    BY LinuxAssumption DEF Init, NetworkInit
  <1>6. IoTypes
    BY <1>1, <1>4, <1>5, LinuxAssumption DEF IoTypes
  <1>7. \A fd \in Fds : Designates(fd) /\ Within(fd)
    BY <1>2, <1>3, <1>5, LinuxAssumption DEF Designates, Within, Fds
  <1>8. SocketsMatch /\ \A fd \in Fds : fd >= nextFd => descriptors[fd] = NoFd
    BY <1>3, <1>5 DEF SocketsMatch, Fds
  <1> QED  BY <1>6, <1>7, <1>8 DEF IoInv

\* Calls that leave files, descriptors and sockets alone.
LEMMA KeptIoInv == IoInv /\ UNCHANGED io => IoInv'
  BY DEF IoInv, io, IoTypes, SocketsMatch, Designates, Within, ResponseLength, IsRequest, IsSocket

\* A file gets another length within the limit.
LEMMA FileIoInv ==
  ASSUME IoInv, NEW p \in Paths, NEW length \in 0..MaxIo,
         files' = [files EXCEPT ![p] = length], UNCHANGED <<descriptors, nextFd, network>>
  PROVE  IoInv'
  <1>1. /\ files' \in [Paths -> 0..MaxIo \cup {NoFile}]
        /\ \A q \in Paths : files'[q] = IF q = p THEN length ELSE files[q]
    BY DEF IoInv, IoTypes
  <1>2. length # NoFile
    BY LinuxAssumption
  <1>3. \A fd \in Fds : Designates(fd)'
    BY <1>1, <1>2 DEF IoInv, IoTypes, Designates, Descriptor
  <1> QED  BY <1>1, <1>3 DEF IoInv, IoTypes, SocketsMatch, Within, ResponseLength, IsRequest, IsSocket

\* An open descriptor moves on.
LEMMA MoveIoInv ==
  ASSUME IoInv, NEW fd \in Fds, descriptors[fd] # NoFd, NEW cursor \in Nat,
         ~descriptors[fd].socket => cursor <= MaxIo,
         descriptors' = [descriptors EXCEPT ![fd].cursor = cursor],
         UNCHANGED <<files, nextFd, network>>
  PROVE  IoInv'
  <1>1. /\ descriptors' \in [Fds -> Descriptor \cup {NoFd}]
        /\ \A g \in Fds \ {fd} : descriptors'[g] = descriptors[g]
        /\ descriptors'[fd] # NoFd
        /\ descriptors'[fd].socket = descriptors[fd].socket
        /\ descriptors'[fd].path = descriptors[fd].path
        /\ descriptors'[fd].cursor = cursor
    <2>1. descriptors[fd] \in Descriptor
      BY DEF IoInv, IoTypes
    <2>2. [descriptors[fd] EXCEPT !.cursor = cursor] \in Descriptor
      BY <2>1 DEF Descriptor
    <2>3. descriptors' = [descriptors EXCEPT ![fd] = [descriptors[fd] EXCEPT !.cursor = cursor]]
      OBVIOUS
    <2> QED  BY <2>1, <2>2, <2>3, LinuxAssumption DEF IoInv, IoTypes, Descriptor
  <1>2. \A g \in Fds : Designates(g)'
    BY <1>1 DEF IoInv, Designates
  <1>3. SocketsMatch'
    BY <1>1 DEF IoInv, SocketsMatch
  <1>4. \A g \in Fds : g >= nextFd' => descriptors'[g] = NoFd
    BY <1>1 DEF IoInv
  <1> QED  BY <1>1, <1>2, <1>3, <1>4 DEF IoInv, IoTypes, Within, ResponseLength, IsRequest, IsSocket

\* What a socket gives is at most what it has left.
LEMMA RecvWithin ==
  ASSUME IoInv, NEW fd \in Fds, NEW n \in Nat, RecvSocket(fd, n)
  PROVE  /\ network' \in [Fds -> Socket \cup {NotOpen}]
         /\ \A g \in Fds : Within(g)' /\ ((network'[g] # NotOpen) <=> (network[g] # NotOpen))
         /\ IsSocket(fd) => Delivered(fd, n) \in Nat
  <1>1. \A g \in Fds : network[g] # NotOpen => network[g] \in Socket /\ IsSocket(g) /\ ~IsRequest(g)
    BY DEF IoInv, IoTypes, Socket, IsSocket, IsRequest
  <1>2. CASE ~IsSocket(fd)
    BY <1>2 DEF RecvSocket, IoInv, IoTypes, Within, ResponseLength, IsRequest, IsSocket
  <1>3. CASE IsSocket(fd)
    <2> DEFINE next == network[fd].cursor + Delivered(fd, n)
    <2>1. network[fd] # NotOpen /\ network[fd] \in Socket
      BY <1>3 DEF IsSocket, IoInv, IoTypes
    <2>2. ResponseLength(fd) \in Nat /\ network[fd].cursor \in Nat
          /\ network[fd].cursor <= ResponseLength(fd)
      BY <1>1, <2>1, ScriptAssumption DEF ResponseLength, Socket, IoInv, Within
    <2>3. Delivered(fd, n) \in Nat /\ next \in Nat /\ next <= ResponseLength(fd)
      BY <2>2 DEF Delivered, Fewest
    <2> HIDE DEF next
    <2>4. network' = [network EXCEPT ![fd] = [network[fd] EXCEPT !.cursor = next]]
      BY <1>3 DEF RecvSocket, next
    <2>5. /\ [network[fd] EXCEPT !.cursor = next] \in Socket
          /\ [network[fd] EXCEPT !.cursor = next].peer = network[fd].peer
          /\ [network[fd] EXCEPT !.cursor = next].cursor = next
      BY <2>1, <2>3 DEF Socket
    <2>6. /\ network' \in [Fds -> Socket \cup {NotOpen}]
          /\ network'[fd] = [network[fd] EXCEPT !.cursor = next]
          /\ \A g \in Fds \ {fd} : network'[g] = network[g]
      BY <2>4, <2>5 DEF IoInv, IoTypes
    <2>7. network'[fd] # NotOpen /\ network'[fd].kind = "socket"
      BY <2>5, <2>6, NotOpenAssumption DEF Socket
    <2>8. ResponseLength(fd)' = ResponseLength(fd)
      BY <1>1, <2>1, <2>5, <2>6, <2>7 DEF ResponseLength, IsRequest, IsSocket
    <2>9. Within(fd)'
      BY <2>2, <2>3, <2>5, <2>6, <2>8 DEF Within
    <2>10. \A g \in Fds \ {fd} : Within(g)'
      BY <2>6 DEF IoInv, Within, ResponseLength, IsRequest, IsSocket
    <2> QED  BY <2>1, <2>3, <2>6, <2>7, <2>9, <2>10
  <1> QED  BY <1>2, <1>3

\* The next descriptor is given out.
LEMMA NewFdTypes ==
  ASSUME IoInv, NEW d \in Descriptor, NewFd(d)
  PROVE  /\ nextFd \in Fds /\ nextFd' = nextFd + 1 /\ nextFd' \in 0..(MaxFd + 1)
         /\ descriptors[nextFd] = NoFd /\ network[nextFd] = NotOpen /\ d # NoFd
         /\ descriptors' \in [Fds -> Descriptor \cup {NoFd}]
         /\ descriptors'[nextFd] = d
         /\ \A g \in Fds \ {nextFd} : descriptors'[g] = descriptors[g]
         /\ \A g \in Fds : g >= nextFd' => descriptors'[g] = NoFd
  <1>1. nextFd \in Fds /\ nextFd' = nextFd + 1 /\ descriptors' = [descriptors EXCEPT ![nextFd] = d]
    BY DEF NewFd, FreshFd
  <1>2. nextFd' \in 0..(MaxFd + 1)
    BY <1>1, LinuxAssumption DEF Fds
  <1>3. d # NoFd
    BY LinuxAssumption
  <1>4. descriptors[nextFd] = NoFd /\ network[nextFd] = NotOpen
    BY <1>1 DEF IoInv, IoTypes, SocketsMatch, Fds
  <1>5. /\ descriptors' \in [Fds -> Descriptor \cup {NoFd}] /\ descriptors'[nextFd] = d
        /\ \A g \in Fds \ {nextFd} : descriptors'[g] = descriptors[g]
    BY <1>1 DEF IoInv, IoTypes
  <1>6. \A g \in Fds : g >= nextFd' => descriptors'[g] = NoFd
    BY <1>1, <1>5, LinuxAssumption DEF IoInv, IoTypes, Fds
  <1> QED  BY <1>1, <1>2, <1>3, <1>4, <1>5, <1>6

LEMMA OpenIoInv ==
  ASSUME IoInv, NEW p \in Paths, NEW create, NEW truncate, NEW writable \in BOOLEAN,
         Open(p, create, truncate, writable)
  PROVE  IoInv'
  <1> DEFINE d == [path |-> p, cursor |-> 0, writable |-> writable, socket |-> FALSE]
  <1>1. CASE UNCHANGED <<files, descriptors, nextFd>>
    BY <1>1, KeptIoInv DEF Open, io
  <1>2. CASE /\ files[p] # NoFile \/ create
             /\ files' = [files EXCEPT ![p] = IF @ = NoFile \/ (truncate /\ writable) THEN 0 ELSE @]
             /\ NewFd(d)
    <2>1. d \in Descriptor /\ d.path = p /\ d.cursor = 0 /\ d.socket = FALSE
      BY DEF Descriptor
    <2>2. network' = network
      BY DEF Open
    <2> HIDE DEF d
    <2>3. /\ nextFd \in Fds /\ nextFd' = nextFd + 1 /\ nextFd' \in 0..(MaxFd + 1)
          /\ descriptors[nextFd] = NoFd /\ network[nextFd] = NotOpen /\ d # NoFd
          /\ descriptors' \in [Fds -> Descriptor \cup {NoFd}]
          /\ descriptors'[nextFd] = d
          /\ \A g \in Fds \ {nextFd} : descriptors'[g] = descriptors[g]
          /\ \A g \in Fds : g >= nextFd' => descriptors'[g] = NoFd
      BY <1>2, <2>1, NewFdTypes
    <2>4. 0 \in 0..MaxIo /\ 0 # NoFile
      BY LinuxAssumption
    <2>5. /\ files' \in [Paths -> 0..MaxIo \cup {NoFile}] /\ files'[p] # NoFile
          /\ \A q \in Paths : files[q] # NoFile => files'[q] # NoFile
      BY <1>2, <2>4 DEF IoInv, IoTypes
    <2>6. \A g \in Fds : Designates(g)'
      <3> SUFFICES ASSUME NEW g \in Fds PROVE Designates(g)'
        OBVIOUS
      <3>1. CASE g = nextFd
        BY <2>1, <2>3, <2>4, <2>5, <3>1, LinuxAssumption DEF Designates
      <3>2. CASE g # nextFd
        BY <2>3, <2>5, <3>2 DEF Designates, IoInv, IoTypes, Descriptor
      <3> QED  BY <3>1, <3>2
    <2>7. SocketsMatch'
      BY <2>1, <2>2, <2>3 DEF IoInv, SocketsMatch
    <2> QED  BY <2>2, <2>3, <2>5, <2>6, <2>7
             DEF IoInv, IoTypes, Within, ResponseLength, IsRequest, IsSocket
  <1> QED  BY <1>1, <1>2 DEF Open

\* A socket that has been made or connected and has given nothing yet.
LEMMA FreshSocket ==
  ASSUME IoInv, NEW fd \in Fds, NEW peer \in Destinations \cup {Nowhere},
         network' = [network EXCEPT ![fd] = [kind |-> "socket", peer |-> peer, cursor |-> 0]]
  PROVE  /\ network' \in [Fds -> Socket \cup {NotOpen}] /\ network'[fd] # NotOpen
         /\ \A g \in Fds \ {fd} : network'[g] = network[g]
         /\ \A g \in Fds : Within(g)'
  <1> DEFINE s == [kind |-> "socket", peer |-> peer, cursor |-> 0]
  <1>1. s \in Socket /\ s.kind = "socket" /\ s.peer = peer /\ s.cursor = 0
    BY DEF Socket
  <1> HIDE DEF s
  <1>2. s # NotOpen
    BY <1>1, NotOpenAssumption
  <1>3. /\ network' \in [Fds -> Socket \cup {NotOpen}] /\ network'[fd] = s
        /\ \A g \in Fds \ {fd} : network'[g] = network[g]
    <2>1. network' = [network EXCEPT ![fd] = s]
      BY DEF s
    <2> QED  BY <1>1, <2>1 DEF IoInv, IoTypes
  <1>4. ResponseLength(fd)' \in Nat
    BY <1>1, <1>3, ScriptAssumption DEF ResponseLength, IsRequest, IsSocket
  <1>5. Within(fd)'
    BY <1>1, <1>3, <1>4 DEF Within
  <1>6. \A g \in Fds \ {fd} : Within(g)'
    BY <1>3 DEF IoInv, Within, ResponseLength, IsRequest, IsSocket
  <1> QED  BY <1>2, <1>3, <1>5, <1>6

LEMMA OpenSocketIoInv == IoInv /\ OpenSocket => IoInv'
  <1> SUFFICES ASSUME IoInv, OpenSocket PROVE IoInv'
    OBVIOUS
  <1> DEFINE d == [path |-> StdPaths[0], cursor |-> 0, writable |-> TRUE, socket |-> TRUE]
  <1>1. d \in Descriptor /\ d.socket = TRUE
    <2>1. StdPaths[0] \in Paths
      BY LinuxAssumption
    <2> QED  BY <2>1 DEF Descriptor
  <1>2. NewFd(d) /\ RegisterSocket(nextFd) /\ UNCHANGED files
    BY DEF OpenSocket, FreshFd
  <1> HIDE DEF d
  <1>3. /\ nextFd \in Fds /\ nextFd' = nextFd + 1 /\ nextFd' \in 0..(MaxFd + 1)
        /\ d # NoFd /\ descriptors' \in [Fds -> Descriptor \cup {NoFd}]
        /\ descriptors'[nextFd] = d
        /\ \A g \in Fds \ {nextFd} : descriptors'[g] = descriptors[g]
        /\ \A g \in Fds : g >= nextFd' => descriptors'[g] = NoFd
    BY <1>1, <1>2, NewFdTypes
  <1>4. /\ network' \in [Fds -> Socket \cup {NotOpen}] /\ network'[nextFd] # NotOpen
        /\ \A g \in Fds \ {nextFd} : network'[g] = network[g]
        /\ \A g \in Fds : Within(g)'
    BY <1>2, <1>3, FreshSocket DEF RegisterSocket
  <1>5. \A g \in Fds : Designates(g)'
    <2> SUFFICES ASSUME NEW g \in Fds PROVE Designates(g)'
      OBVIOUS
    <2>1. CASE g = nextFd
      BY <1>1, <1>3, <2>1 DEF Designates
    <2>2. CASE g # nextFd
      BY <1>2, <1>3, <2>2 DEF Designates, IoInv
    <2> QED  BY <2>1, <2>2
  <1>6. SocketsMatch'
    BY <1>1, <1>3, <1>4 DEF IoInv, SocketsMatch
  <1> QED  BY <1>2, <1>3, <1>4, <1>5, <1>6 DEF IoInv, IoTypes

LEMMA CloseIoInv ==
  ASSUME IoInv, NEW fd \in Fds, CloseFd(fd)
  PROVE  IoInv'
  <1>1. CASE descriptors[fd] = NoFd
    BY <1>1, KeptIoInv DEF CloseFd, io
  <1>2. CASE descriptors[fd] # NoFd
    <2>1. /\ descriptors' = [descriptors EXCEPT ![fd] = NoFd]
          /\ network' = [network EXCEPT ![fd] = NotOpen] /\ UNCHANGED <<files, nextFd>>
      BY <1>2 DEF CloseFd, CloseSocket, CloseNetwork
    <2>2. /\ IoTypes' /\ descriptors'[fd] = NoFd /\ network'[fd] = NotOpen
          /\ \A g \in Fds \ {fd} : descriptors'[g] = descriptors[g] /\ network'[g] = network[g]
      BY <2>1 DEF IoInv, IoTypes
    <2>3. \A g \in Fds : Designates(g)' /\ Within(g)'
      <3> SUFFICES ASSUME NEW g \in Fds PROVE Designates(g)' /\ Within(g)'
        OBVIOUS
      <3>1. CASE g = fd
        BY <2>2, <3>1 DEF Designates, Within
      <3>2. CASE g # fd
        BY <2>1, <2>2, <3>2 DEF IoInv, Designates, Within, ResponseLength, IsRequest, IsSocket
      <3> QED  BY <3>1, <3>2
    <2>4. SocketsMatch' /\ \A g \in Fds : g >= nextFd' => descriptors'[g] = NoFd
      BY <2>1, <2>2 DEF IoInv, SocketsMatch
    <2> QED  BY <2>2, <2>3, <2>4 DEF IoInv
  <1> QED  BY <1>1, <1>2

LEMMA ConnectIoInv ==
  ASSUME IoInv, NEW fd \in Fds, NEW peer \in Destinations, Connect(fd, peer)
  PROVE  IoInv'
  <1>1. CASE UNCHANGED network
    BY <1>1, KeptIoInv DEF Connect, io
  <1>2. CASE IsSocket(fd) /\ ConnectSocket(fd, peer)
    <2>1. /\ network' \in [Fds -> Socket \cup {NotOpen}] /\ network'[fd] # NotOpen
          /\ \A g \in Fds \ {fd} : network'[g] = network[g]
          /\ \A g \in Fds : Within(g)'
      BY <1>2, FreshSocket DEF ConnectSocket
    <2>2. network[fd] # NotOpen /\ UNCHANGED <<files, descriptors, nextFd>>
      BY <1>2 DEF IsSocket, Connect
    <2>3. SocketsMatch'
      BY <2>1, <2>2 DEF IoInv, SocketsMatch
    <2> QED  BY <2>1, <2>2, <2>3 DEF IoInv, IoTypes, Designates
  <1> QED  BY <1>1, <1>2 DEF Connect, ConnectSocket

LEMMA ReadIoInv ==
  ASSUME IoInv, NEW fd \in Fds, NEW n \in 0..MaxIo, Read(fd, n)
  PROVE  IoInv'
  <1> DEFINE d == descriptors[fd]
  <1>1. CASE d = NoFd
    BY <1>1, KeptIoInv DEF Read, io
  <1>2. CASE d # NoFd /\ ~d.socket
    <2>1. d \in Descriptor /\ files[d.path] \in 0..MaxIo /\ d.cursor \in 0..MaxIo
      BY <1>2, LinuxAssumption DEF IoInv, IoTypes, Designates, Descriptor
    <2>2. UNCHANGED <<files, nextFd, network>>
      BY <1>2 DEF Read
    <2>3. CASE UNCHANGED descriptors
      BY <2>2, <2>3, KeptIoInv DEF io
    <2>4. CASE descriptors' = [descriptors EXCEPT ![fd].cursor = @ + FileDelivered(d, n)]
      <3> DEFINE next == d.cursor + FileDelivered(d, n)
      <3>1. next \in Nat /\ next <= MaxIo
        BY <2>1, LinuxAssumption DEF FileDelivered, Fewest
      <3>2. descriptors' = [descriptors EXCEPT ![fd].cursor = next]
        BY <2>4
      <3> HIDE DEF next
      <3> QED  BY <1>2, <2>2, <3>1, <3>2, MoveIoInv
    <2> QED  BY <1>2, <2>3, <2>4 DEF Read
  <1>3. CASE d # NoFd /\ d.socket
    <2>1. RecvSocket(fd, n) /\ UNCHANGED <<files, nextFd>>
      BY <1>3 DEF Read
    <2>2. /\ network' \in [Fds -> Socket \cup {NotOpen}]
          /\ \A g \in Fds : Within(g)' /\ ((network'[g] # NotOpen) <=> (network[g] # NotOpen))
          /\ IsSocket(fd) => Delivered(fd, n) \in Nat
      BY <2>1, RecvWithin, LinuxAssumption
    <2>3. IsSocket(fd)
      BY <1>3 DEF IoInv, IoTypes, SocketsMatch, Socket, IsSocket
    <2>4. /\ descriptors' \in [Fds -> Descriptor \cup {NoFd}]
          /\ \A g \in Fds : /\ (descriptors'[g] = NoFd) <=> (descriptors[g] = NoFd)
                            /\ descriptors[g] # NoFd => descriptors'[g].socket = descriptors[g].socket
          /\ \A g \in Fds \ {fd} : descriptors'[g] = descriptors[g]
      <3>1. CASE UNCHANGED descriptors
        BY <3>1 DEF IoInv, IoTypes
      <3>2. CASE descriptors' = [descriptors EXCEPT ![fd].cursor = @ + Delivered(fd, n)]
        <4> DEFINE next == d.cursor + Delivered(fd, n)
        <4>1. d \in Descriptor /\ next \in Nat
          BY <1>3, <2>2, <2>3 DEF IoInv, IoTypes, Descriptor
        <4>2. /\ [d EXCEPT !.cursor = next] \in Descriptor
              /\ [d EXCEPT !.cursor = next].socket = d.socket
          BY <4>1 DEF Descriptor
        <4>3. descriptors' = [descriptors EXCEPT ![fd] = [d EXCEPT !.cursor = next]]
          BY <3>2
        <4> HIDE DEF next
        <4> QED  BY <1>3, <4>2, <4>3, LinuxAssumption DEF IoInv, IoTypes
      <3> QED  BY <1>3, <3>1, <3>2 DEF Read
    <2>5. \A g \in Fds : Designates(g)'
      <3> SUFFICES ASSUME NEW g \in Fds PROVE Designates(g)'
        OBVIOUS
      <3>1. CASE g = fd
        BY <1>3, <2>4, <3>1 DEF Designates
      <3>2. CASE g # fd
        BY <2>1, <2>4, <3>2 DEF Designates, IoInv
      <3> QED  BY <3>1, <3>2
    <2>6. SocketsMatch'
      BY <2>2, <2>4 DEF IoInv, SocketsMatch
    <2> QED  BY <2>1, <2>2, <2>4, <2>5, <2>6 DEF IoInv, IoTypes
  <1> QED  BY <1>1, <1>2, <1>3 DEF IoInv, IoTypes, Descriptor

\* A write fills the hole first, up to a cursor that is within the limit.
LEMMA WriteIoInv ==
  ASSUME IoInv, NEW fd \in Fds, NEW n \in 0..MaxIo, Write(fd, n)
  PROVE  IoInv'
  <1> DEFINE d == descriptors[fd]
  <1>1. UNCHANGED <<nextFd, network>>
    BY DEF Write
  <1>2. CASE UNCHANGED <<files, descriptors>>
    BY <1>1, <1>2, KeptIoInv DEF io
  <1>3. CASE WritesToFile(fd)
    <2>1. d # NoFd /\ ~d.socket
      BY <1>3 DEF WritesToFile
    <2>2. d \in Descriptor /\ d.path \in Paths /\ files[d.path] \in 0..MaxIo /\ d.cursor \in 0..MaxIo
      BY <2>1, LinuxAssumption DEF IoInv, IoTypes, Designates, Descriptor
    <2>3. Filled(d) \in 0..MaxIo
      BY <2>2 DEF Filled
    <2>4. CASE files' = [files EXCEPT ![d.path] = Filled(d)] /\ UNCHANGED descriptors
      BY <1>1, <2>2, <2>3, <2>4, FileIoInv
    <2>5. CASE /\ Fits(d, n)
               /\ files' = [files EXCEPT ![d.path] =
                    IF d.cursor + n > Filled(d) THEN d.cursor + n ELSE Filled(d)]
               /\ descriptors' = [descriptors EXCEPT ![fd].cursor = @ + n]
      <3> DEFINE length == IF d.cursor + n > Filled(d) THEN d.cursor + n ELSE Filled(d)
                 cursor == d.cursor + n
      <3>1. length \in 0..MaxIo /\ cursor \in 0..MaxIo
        BY <2>2, <2>3, <2>5, LinuxAssumption DEF Fits
      <3>2. files' = [files EXCEPT ![d.path] = length]
            /\ descriptors' = [descriptors EXCEPT ![fd] = [d EXCEPT !.cursor = cursor]]
        BY <2>5
      <3> HIDE DEF length, cursor
      <3>3. /\ files' \in [Paths -> 0..MaxIo \cup {NoFile}]
            /\ \A q \in Paths : files[q] # NoFile => files'[q] # NoFile
        BY <2>2, <3>1, <3>2, LinuxAssumption DEF IoInv, IoTypes
      <3>4. /\ [d EXCEPT !.cursor = cursor] \in Descriptor /\ [d EXCEPT !.cursor = cursor].socket = d.socket
            /\ [d EXCEPT !.cursor = cursor].path = d.path /\ [d EXCEPT !.cursor = cursor].cursor = cursor
        BY <2>2, <3>1 DEF Descriptor
      <3>5. /\ descriptors' \in [Fds -> Descriptor \cup {NoFd}]
            /\ descriptors'[fd] # NoFd /\ descriptors'[fd].socket = d.socket
            /\ descriptors'[fd].path = d.path /\ descriptors'[fd].cursor = cursor
            /\ \A g \in Fds \ {fd} : descriptors'[g] = descriptors[g]
        BY <3>2, <3>4, LinuxAssumption DEF IoInv, IoTypes
      <3>6. \A g \in Fds : Designates(g)'
        <4> SUFFICES ASSUME NEW g \in Fds PROVE Designates(g)'
          OBVIOUS
        <4>1. CASE g = fd
          BY <2>1, <2>2, <3>1, <3>3, <3>5, <4>1, LinuxAssumption DEF Designates
        <4>2. CASE g # fd
          BY <3>3, <3>5, <4>2 DEF Designates, IoInv, IoTypes, Descriptor
        <4> QED  BY <4>1, <4>2
      <3>7. SocketsMatch' /\ \A g \in Fds : g >= nextFd' => descriptors'[g] = NoFd
        BY <1>1, <2>1, <3>5 DEF IoInv, SocketsMatch
      <3> QED  BY <1>1, <3>3, <3>5, <3>6, <3>7
               DEF IoInv, IoTypes, Within, ResponseLength, IsRequest, IsSocket
    <2> QED  BY <1>2, <2>4, <2>5 DEF Write
  <1> QED  BY <1>2, <1>3 DEF Write

LEMMA NextIoInv == IoInv /\ [Next]_vars => IoInv'
  <1> SUFFICES ASSUME IoInv, [Next]_vars PROVE IoInv'
    OBVIOUS
  <1>1. CASE FileCalls
    BY <1>1, OpenIoInv, CloseIoInv, ReadIoInv, WriteIoInv DEF FileCalls
  <1>2. CASE SocketCalls
    BY <1>2, OpenSocketIoInv, ConnectIoInv DEF SocketCalls
  <1>3. CASE Instructions \/ LibcStartMain \/ Exit \/ PlainCall \/ MemoryCalls \/ UNCHANGED vars
    <2>1. UNCHANGED io
      BY <1>3 DEF Instructions, EntryReturn, FetchFault, Step, OutOfInstructions, LibcStartMain,
                  Exit, PlainCall, MemoryCalls, MmapAnywhere, MmapFixed, Brk, Malloc, vars
    <2> QED  BY <2>1, KeptIoInv
  <1> QED  BY <1>1, <1>2, <1>3 DEF Next

LEMMA IoInvariant == Spec => []IoInv
  BY InitIoInv, NextIoInv, PTL DEF Spec

\* No sequence of opens, truncations, reads and writes takes a file or the
\* cursor of one past MAX_IO_BYTES, although the hole before a cursor is filled
\* before the limit is looked at (sys_write).
THEOREM FilesWithinLimit == Spec => []FilesBounded
  <1>1. IoInv => FilesBounded
    <2> SUFFICES ASSUME IoInv PROVE FilesBounded
      OBVIOUS
    <2>1. \A p \in Paths : files[p] # NoFile => files[p] <= MaxIo
      BY LinuxAssumption DEF IoInv, IoTypes
    <2> QED  BY <2>1 DEF IoInv, Designates, FilesBounded
  <1> QED  BY <1>1, IoInvariant, PTL

\* The descriptors and the table of the network, which are opened and closed by
\* different calls, agree at every moment on which descriptors are sockets.
THEOREM SocketsAgree == Spec => []SocketsMatch
  <1>1. IoInv => SocketsMatch
    BY DEF IoInv
  <1> QED  BY <1>1, IoInvariant, PTL

\* A descriptor is given out once: after close_fd it designates nothing, and
\* while it is open it goes on designating what it was opened for.
LEMMA StepFinal ==
  ASSUME IoInv, [Next]_vars, NEW fd \in 0..(nextFd - 1), descriptors'[fd] # NoFd
  PROVE  /\ descriptors[fd] # NoFd
         /\ descriptors'[fd].path = descriptors[fd].path
         /\ descriptors'[fd].socket = descriptors[fd].socket
  <1>1. fd \in Fds /\ fd # nextFd
    BY LinuxAssumption DEF IoInv, IoTypes, Fds
  <1>2. CASE UNCHANGED descriptors
    BY <1>2
  <1>3. ASSUME NEW d, NewFd(d) PROVE UNCHANGED descriptors[fd]
    BY <1>1, <1>3 DEF NewFd, FreshFd, IoInv, IoTypes
  <1>4. ASSUME NEW g \in Fds, CloseFd(g)
        PROVE  descriptors'[fd] = descriptors[fd]
    BY <1>1, <1>4 DEF CloseFd, IoInv, IoTypes
  <1>5. ASSUME NEW g \in Fds, NEW cursor, descriptors[g] # NoFd,
               descriptors' = [descriptors EXCEPT ![g].cursor = cursor]
        PROVE  /\ descriptors[fd] # NoFd
               /\ descriptors'[fd].path = descriptors[fd].path
               /\ descriptors'[fd].socket = descriptors[fd].socket
    <2>1. descriptors[g] \in Descriptor
      BY <1>5 DEF IoInv, IoTypes
    <2>2. CASE g = fd
      BY <1>1, <1>5, <2>1, <2>2 DEF IoInv, IoTypes, Descriptor
    <2>3. CASE g # fd
      BY <1>1, <1>5, <2>3 DEF IoInv, IoTypes
    <2> QED  BY <2>2, <2>3
  <1>6. CASE FileCalls
    <2>1. ASSUME NEW p \in Paths, NEW create \in BOOLEAN, NEW truncate \in BOOLEAN,
                 NEW writable \in BOOLEAN, Open(p, create, truncate, writable)
          PROVE  UNCHANGED descriptors[fd]
      BY <1>3, <2>1 DEF Open
    <2>2. ASSUME NEW g \in Fds, NEW n \in 0..MaxIo, Read(g, n) \/ Write(g, n)
          PROVE  \/ UNCHANGED descriptors
                 \/ /\ descriptors[g] # NoFd
                    /\ \E cursor : descriptors' = [descriptors EXCEPT ![g].cursor = cursor]
      BY <2>2 DEF Read, Write, WritesToFile
    <2> QED  BY <1>2, <1>4, <1>5, <1>6, <2>1, <2>2 DEF FileCalls
  <1>7. CASE SocketCalls
    BY <1>2, <1>3, <1>7 DEF SocketCalls, OpenSocket, Connect
  <1>8. CASE Instructions \/ LibcStartMain \/ Exit \/ PlainCall \/ MemoryCalls \/ UNCHANGED vars
    <2>1. UNCHANGED descriptors
      BY <1>8 DEF Instructions, EntryReturn, FetchFault, Step, OutOfInstructions, LibcStartMain,
                  Exit, PlainCall, MemoryCalls, MmapAnywhere, MmapFixed, Brk, Malloc, vars, io
    <2> QED  BY <1>2, <2>1
  <1> QED  BY <1>6, <1>7, <1>8 DEF Next

\* However often descriptors are closed and others opened, a number the sample
\* kept reaches what it was opened for or nothing (open_path, sys_socket).
THEOREM NeverReused == Spec => DescriptorsFinal
  <1>1. IoInv /\ [Next]_vars =>
          [\A fd \in 0..(nextFd - 1) :
             descriptors'[fd] # NoFd =>
               /\ descriptors[fd] # NoFd
               /\ descriptors'[fd].path = descriptors[fd].path
               /\ descriptors'[fd].socket = descriptors[fd].socket]_vars
    BY StepFinal
  <1> QED  BY <1>1, IoInvariant, PTL DEF Spec, DescriptorsFinal

-----------------------------------------------------------------------------
(* Every step brings the end nearer *)

MachineInv == count \in Nat /\ room \in Nat

LEMMA RankBounds == \A location : Rank(location) \in {0, 1} /\ (Rank(location) = 1 <=> location = "stub")
  BY DEF Rank

\* A system call or another instruction is counted; a stub uses up the stack.
LEMMA ReturnsAdvance ==
  ASSUME MachineInv, Returns \/ Faults
  PROVE  /\ MachineInv'
         /\ \/ termination' # "none"
            \/ count' > count
            \/ /\ arg' = arg /\ rip = "stub" /\ room' < room
  BY DEF MachineInv, Returns, SyscallReturns, ImportReturns, Faults, At

LEMMA StepAdvances ==
  ASSUME MachineInv, Next
  PROVE  /\ MachineInv'
         /\ \/ termination' # "none"
            \/ count' > count
            \/ Rank(arg') < Rank(arg)
            \/ Rank(arg') = Rank(arg) /\ Rank(rip') < Rank(rip)
            \/ Rank(arg') = Rank(arg) /\ Rank(rip') = Rank(rip) /\ room' < room
  <1>1. CASE Returns \/ Faults
    BY <1>1, ReturnsAdvance, RankBounds
  <1>2. CASE Instructions
    BY <1>2, LinuxAssumption
    DEF MachineInv, Instructions, EntryReturn, FetchFault, Step, OutOfInstructions, At
  <1>3. CASE Exit
    BY <1>3 DEF MachineInv, Exit, At
  <1>4. ASSUME At("stub"), room' = StackWords + 1, rip' = arg, arg' \in Argc,
               UNCHANGED <<count, termination>>
        PROVE  /\ MachineInv'
               /\ \/ Rank(arg') < Rank(arg)
                  \/ Rank(arg') = Rank(arg) /\ Rank(rip') < Rank(rip)
    BY <1>4, LinuxAssumption DEF MachineInv, At, Argc, Rank
  <1>5. CASE LibcStartMain
    BY <1>1, <1>4, <1>5 DEF LibcStartMain
  <1>6. CASE PlainCall \/ FileCalls \/ SocketCalls \/ MemoryCalls
    <2>1. Returns \/ Faults
      BY <1>6 DEF PlainCall, FileCalls, SocketCalls, MemoryCalls, Open, CloseFd, Read, Write,
                  OpenSocket, Connect, MmapAnywhere, MmapFixed, Brk, Malloc, Returns
    <2> QED  BY <1>1, <2>1
  <1> QED  BY <1>2, <1>3, <1>5, <1>6 DEF Next

\* Every pass of the loop ends the run or brings its end nearer, calls of stubs
\* and fresh stacks included, so that a run of any sample has an end (execute,
\* handle_import, __libc_start_main).
THEOREM EndComesNearer == Spec => Advances
  <1>1. Init => MachineInv
    BY LinuxAssumption DEF Init, MachineInv
  <1>2. MachineInv /\ [Next]_vars => MachineInv'
    BY StepAdvances DEF MachineInv, vars, machine
  <1>3. MachineInv /\ [Next]_vars =>
          [\/ termination' # "none"
           \/ count' > count
           \/ Rank(arg') < Rank(arg)
           \/ Rank(arg') = Rank(arg) /\ Rank(rip') < Rank(rip)
           \/ Rank(arg') = Rank(arg) /\ Rank(rip') = Rank(rip) /\ room' < room]_vars
    BY StepAdvances
  <1> QED  BY <1>1, <1>2, <1>3, PTL DEF Spec, Advances

-----------------------------------------------------------------------------
(* Mappings *)

Placed(rs) == DOMAIN rs \subseteq Nat /\ rs \in [DOMAIN rs -> Nat \ {0}] /\ Apart(rs)

MemoryInv == Placed(regions) /\ MappingsApart /\ mmapNext \in Nat

Block(a, n) == a..(a + n - 1)

LEMMA BlockCount ==
  ASSUME NEW a \in Nat, NEW n \in Nat
  PROVE  IsFiniteSet(Block(a, n)) /\ Cardinality(Block(a, n)) = n
  <1>1. a \in Int /\ a + n - 1 \in Int
    OBVIOUS
  <1>2. /\ IsFiniteSet(Block(a, n))
        /\ Cardinality(Block(a, n)) = IF a > a + n - 1 THEN 0 ELSE (a + n - 1) - a + 1
    BY <1>1, FS_Interval DEF Block
  <1> QED  BY <1>2

LEMMA MappedFinite ==
  ASSUME NEW rs
  PROVE  IsFiniteSet(Mapped(rs)) /\ Cardinality(Mapped(rs)) \in Nat
  <1>1. IsFiniteSet(0..(LastPage - 1))
    <2>1. LastPage - 1 \in Int
      BY LinuxAssumption
    <2> QED  BY <2>1, FS_Interval
  <1>2. IsFiniteSet(Mapped(rs))
    BY <1>1, FS_Subset DEF Mapped
  <1> QED  BY <1>2, FS_CardinalityType

\* A mapping is made apart from the others and counted, or nothing is.
LEMMA TryMapInv ==
  ASSUME MemoryInv, NEW a \in Nat, NEW n \in Nat \ {0}, TryMap(a, n)
  PROVE  Placed(regions') /\ MappingsApart'
  <1>1. CASE ~CanMap(a, n)
    BY <1>1 DEF TryMap, MemoryInv, MappingsApart
  <1>2. CASE CanMap(a, n)
    <2> DEFINE new == [b \in DOMAIN regions \cup {a} |-> IF b = a THEN n ELSE regions[b]]
    <2>1. regions' = new /\ allocated' = allocated + n
      BY <1>2 DEF TryMap, Map
    <2>2. \A b \in DOMAIN regions : /\ b \in Nat /\ End(regions, b) \in Nat
                                    /\ End(regions, b) = b + regions[b] /\ b < End(regions, b)
      BY DEF MemoryInv, Placed, End
    <2>3. /\ allocated + n <= MaxPages /\ a + n <= LastPage
          /\ \A b \in DOMAIN regions : a >= End(regions, b) \/ a + n <= b
      BY <1>2, <2>2 DEF CanMap, Overlaps
    <2>4. a \notin DOMAIN regions
      BY <2>2, <2>3
    <2>5. /\ DOMAIN new = DOMAIN regions \cup {a} /\ End(new, a) = a + n
          /\ \A b \in DOMAIN regions : End(new, b) = End(regions, b)
      BY <2>4 DEF End
    <2>6. DOMAIN new \subseteq Nat /\ new \in [DOMAIN new -> Nat \ {0}]
      BY DEF MemoryInv, Placed
    <2> HIDE DEF new
    <2>7. Apart(new)
      <3>1. \A b \in DOMAIN new : End(new, b) <= LastPage
        BY <2>3, <2>5 DEF MemoryInv, Placed, Apart
      <3>2. ASSUME NEW b \in DOMAIN new, NEW c \in DOMAIN new, b < c PROVE End(new, b) <= c
        <4>1. CASE b = a
          <5>1. c \in DOMAIN regions /\ c \in Nat /\ a < c
            BY <2>2, <2>5, <3>2, <4>1
          <5>2. ~(a >= End(regions, c))
            BY <2>2, <5>1
          <5> QED  BY <2>3, <2>5, <4>1, <5>1, <5>2
        <4>2. CASE c = a
          <5>1. b \in DOMAIN regions /\ b \in Nat /\ b < a
            BY <2>2, <2>5, <3>2, <4>2
          <5>2. ~(a + n <= b)
            BY <5>1
          <5> QED  BY <2>3, <2>5, <4>2, <5>1, <5>2
        <4>3. CASE b # a /\ c # a
          BY <2>5, <3>2, <4>3 DEF MemoryInv, Placed, Apart
        <4> QED  BY <4>1, <4>2, <4>3
      <3> QED  BY <3>1, <3>2 DEF Apart
    <2>8. Mapped(new) = Mapped(regions) \cup Block(a, n)
      <3>1. ASSUME NEW page \in Mapped(new) PROVE page \in Mapped(regions) \cup Block(a, n)
        <4>1. PICK b \in DOMAIN new : b <= page /\ page < End(new, b)
          BY DEF Mapped
        <4>2. page \in 0..(LastPage - 1)
          BY DEF Mapped
        <4>3. CASE b = a
          BY <2>5, <4>1, <4>2, <4>3, LinuxAssumption DEF Block
        <4>4. CASE b # a
          BY <2>5, <4>1, <4>2, <4>4 DEF Mapped
        <4> QED  BY <4>3, <4>4
      <3>2. ASSUME NEW page \in Mapped(regions) PROVE page \in Mapped(new)
        BY <2>5 DEF Mapped
      <3>3. ASSUME NEW page \in Block(a, n) PROVE page \in Mapped(new)
        <4>1. page \in 0..(LastPage - 1) /\ a <= page /\ page < End(new, a)
          BY <2>3, <2>5, LinuxAssumption DEF Block
        <4> QED  BY <2>5, <4>1 DEF Mapped
      <3> QED  BY <3>1, <3>2, <3>3
    <2>9. Mapped(regions) \cap Block(a, n) = {}
      <3> SUFFICES ASSUME NEW page \in Mapped(regions), page \in Block(a, n) PROVE FALSE
        OBVIOUS
      <3>1. PICK b \in DOMAIN regions : b <= page /\ page < End(regions, b)
        BY DEF Mapped
      <3> QED  BY <2>2, <2>3, <3>1 DEF Block
    <2>10. /\ IsFiniteSet(Mapped(regions)) /\ Cardinality(Mapped(regions)) \in Nat
           /\ IsFiniteSet(Block(a, n)) /\ Cardinality(Block(a, n)) = n
      BY MappedFinite, BlockCount
    <2>11. Cardinality(Mapped(regions) \cup Block(a, n))
             = Cardinality(Mapped(regions)) + Cardinality(Block(a, n))
                 - Cardinality(Mapped(regions) \cap Block(a, n))
      BY <2>10, FS_Union
    <2>12. Cardinality(Mapped(regions) \cap Block(a, n)) = 0
      BY <2>9, FS_EmptySet
    <2>13. allocated' = Cardinality(Mapped(new)) /\ allocated' <= MaxPages
      BY <2>1, <2>3, <2>8, <2>10, <2>11, <2>12 DEF MemoryInv, MappingsApart
    <2>14. Placed(new)
      BY <2>6, <2>7 DEF Placed
    <2> QED  BY <2>1, <2>7, <2>13, <2>14 DEF MappingsApart
  <1> QED  BY <1>1, <1>2

LEMMA NextMemory == MemoryInv /\ [Next]_vars => MemoryInv'
  <1> SUFFICES ASSUME MemoryInv, [Next]_vars PROVE MemoryInv'
    OBVIOUS
  <1>1. CASE UNCHANGED <<regions, allocated, mmapNext>>
    BY <1>1 DEF MemoryInv, MappingsApart
  <1>2. ASSUME NEW n \in 1..MaxMapPages, NEW a \in 0..(LastPage - 1), MmapFixed(a, n)
        PROVE  MemoryInv'
    <2>1. a \in Nat /\ n \in Nat \ {0}
      BY LinuxAssumption
    <2> QED  BY <1>2, <2>1, TryMapInv DEF MmapFixed, MemoryInv
  <1>3. ASSUME NEW n \in 1..MaxMapPages, MmapAnywhere(n) PROVE MemoryInv'
    <2>1. mmapNext \in Nat /\ n \in Nat \ {0} /\ mmapNext' \in Nat
      BY <1>3, LinuxAssumption DEF MmapAnywhere, MemoryInv
    <2> QED  BY <1>3, <2>1, TryMapInv DEF MmapAnywhere, MemoryInv
  <1>4. CASE MemoryCalls
    <2>1. ASSUME NEW position \in 0..HeapUnits, Brk(position)
          PROVE  UNCHANGED <<regions, allocated, mmapNext>>
      BY <2>1 DEF Brk
    <2>2. ASSUME NEW n \in 1..HeapUnits, Malloc(n)
          PROVE  UNCHANGED <<regions, allocated, mmapNext>>
      BY <2>2 DEF Malloc
    <2> QED  BY <1>1, <1>2, <1>3, <1>4, <2>1, <2>2 DEF MemoryCalls
  <1>5. CASE Instructions \/ LibcStartMain \/ Exit \/ PlainCall \/ FileCalls \/ SocketCalls \/ UNCHANGED vars
    <2>1. UNCHANGED memory
      BY <1>5 DEF Instructions, EntryReturn, FetchFault, Step, OutOfInstructions, LibcStartMain, Exit,
                  PlainCall, FileCalls, Open, CloseFd, Read, Write, SocketCalls, OpenSocket, Connect, vars
    <2> QED  BY <1>1, <2>1 DEF memory
  <1> QED  BY <1>4, <1>5 DEF Next

\* Whatever is mapped at fixed addresses or at mmap_next, in whatever order,
\* regions stay apart, within the address space and exactly counted (sys_mmap,
\* Memory64::map).
THEOREM MappingsStayApart == Spec => []MappingsApart
  <1>1. Init => MemoryInv
    BY LinuxAssumption, LayoutAssumption DEF Init, MemoryInv, MappingsApart, Placed
  <1>2. MemoryInv => MappingsApart
    BY DEF MemoryInv
  <1> QED  BY <1>1, <1>2, NextMemory, PTL DEF Spec

-----------------------------------------------------------------------------
(* Types *)

MachineTypes ==
  /\ rip \in Locations /\ arg \in Locations /\ room \in Nat
  /\ count \in 0..MaxInstructions /\ termination \in Terminations
  /\ heapNext \in 0..HeapUnits /\ brk \in 0..HeapUnits

LEMMA ReturnTypes ==
  ASSUME MachineTypes, Returns \/ Faults
  PROVE  /\ rip' \in Locations /\ arg' \in Locations /\ room' \in Nat
         /\ count' \in 0..MaxInstructions /\ termination' \in Terminations
  BY LinuxAssumption
  DEF MachineTypes, Returns, SyscallReturns, ImportReturns, Faults, At, Terminations

LEMMA NextTypes == MachineTypes /\ [Next]_vars => MachineTypes'
  <1> SUFFICES ASSUME MachineTypes, [Next]_vars PROVE MachineTypes'
    OBVIOUS
  <1>1. ASSUME Returns \/ Faults, heapNext' \in 0..HeapUnits, brk' \in 0..HeapUnits
        PROVE  MachineTypes'
    BY <1>1, ReturnTypes DEF MachineTypes
  <1>2. CASE Instructions
    <2>1. UNCHANGED memory
      BY <1>2 DEF Instructions, EntryReturn, FetchFault, Step, OutOfInstructions
    <2>2. \/ UNCHANGED <<rip, arg, room>>
          \/ rip' \in Targets /\ arg' \in Targets /\ room' \in 0..StackWords
      BY <1>2 DEF Instructions, EntryReturn, FetchFault, Step, OutOfInstructions
    <2>3. rip' \in Locations /\ arg' \in Locations /\ room' \in Nat
      BY <2>2, LinuxAssumption DEF MachineTypes
    <2>4. UNCHANGED count \/ (count < MaxInstructions /\ count' = count + 1)
      BY <1>2 DEF Instructions, EntryReturn, FetchFault, Step, OutOfInstructions, At
    <2>5. count' \in 0..MaxInstructions
      BY <2>4, LinuxAssumption DEF MachineTypes
    <2>6. termination' \in Terminations
      BY <1>2 DEF Instructions, EntryReturn, FetchFault, Step, OutOfInstructions, MachineTypes,
                  Terminations
    <2> QED  BY <2>1, <2>3, <2>5, <2>6 DEF MachineTypes, memory
  <1>3. CASE LibcStartMain
    <2>1. UNCHANGED memory
      BY <1>3 DEF LibcStartMain
    <2>2. CASE Faults
      BY <1>1, <2>1, <2>2 DEF memory, MachineTypes
    <2>3. CASE ~Faults
      BY <1>3, <2>1, <2>3, LinuxAssumption
      DEF LibcStartMain, Argc, MachineTypes, memory, Locations
    <2> QED  BY <2>2, <2>3
  <1>4. CASE Exit
    BY <1>4, LinuxAssumption DEF Exit, At, MachineTypes, memory, Terminations
  <1>5. CASE PlainCall \/ FileCalls \/ SocketCalls
    <2>1. Returns \/ Faults
      BY <1>5 DEF PlainCall, FileCalls, SocketCalls, Open, CloseFd, Read, Write, OpenSocket, Connect
    <2>2. UNCHANGED memory
      BY <1>5 DEF PlainCall, FileCalls, SocketCalls, Open, CloseFd, Read, Write, OpenSocket, Connect
    <2> QED  BY <1>1, <2>1, <2>2 DEF memory, MachineTypes
  <1>6. CASE MemoryCalls
    <2>1. ASSUME NEW n \in 1..MaxMapPages,
                 MmapAnywhere(n) \/ \E a \in 0..(LastPage - 1) : MmapFixed(a, n)
          PROVE  Returns /\ UNCHANGED <<heapNext, brk>>
      BY <2>1 DEF MmapAnywhere, MmapFixed
    <2>2. ASSUME NEW position \in 0..HeapUnits, Brk(position)
          PROVE  Returns /\ brk' \in 0..HeapUnits /\ UNCHANGED heapNext
      BY <2>2 DEF Brk, Returns
    <2>3. ASSUME NEW n \in 1..HeapUnits, Malloc(n)
          PROVE  Returns /\ heapNext' \in 0..HeapUnits /\ UNCHANGED brk
      BY <2>3, LinuxAssumption DEF Malloc, Returns, HeapFits, MachineTypes
    <2> QED  BY <1>1, <1>6, <2>1, <2>2, <2>3 DEF MemoryCalls, MachineTypes
  <1>7. CASE UNCHANGED vars
    BY <1>7 DEF vars, machine, memory, MachineTypes
  <1> QED  BY <1>2, <1>3, <1>4, <1>5, <1>6, <1>7 DEF Next

\* The loop, its calls, the files and the memory keep within their types: no
\* count passes the budget and no break leaves the heap.
THEOREM TypeCorrect == Spec => []TypeOK
  <1>1. Init => MachineTypes
    BY LinuxAssumption DEF Init, MachineTypes, Locations, Terminations
  <1>2. Spec => []MachineTypes
    BY <1>1, NextTypes, PTL DEF Spec
  <1>3. Spec => [](MemoryInv /\ allocated \in Nat /\ 3 <= nextFd)
    <2> DEFINE Later == 3 <= nextFd /\ nextFd \in Nat
    <2>1. Init => MemoryInv /\ Later
      BY LinuxAssumption, LayoutAssumption DEF Init, MemoryInv, MappingsApart, Placed
    <2>2. Later /\ [Next]_vars => Later'
      <3> SUFFICES ASSUME Later, [Next]_vars PROVE Later'
        OBVIOUS
      <3>1. UNCHANGED nextFd \/ nextFd' = nextFd + 1
        <4>1. CASE FileCalls \/ SocketCalls
          BY <4>1 DEF FileCalls, SocketCalls, Open, NewFd, CloseFd, Read, Write, OpenSocket, Connect
        <4>2. CASE ~(FileCalls \/ SocketCalls)
          <5>1. UNCHANGED io
            BY <4>2 DEF Next, Instructions, EntryReturn, FetchFault, Step, OutOfInstructions,
                        LibcStartMain, Exit, PlainCall, MemoryCalls, MmapAnywhere, MmapFixed, Brk,
                        Malloc, vars, io
          <5> QED  BY <5>1 DEF io
        <4> QED  BY <4>1, <4>2
      <3> QED  BY <3>1
    <2>3. MemoryInv => allocated \in Nat
      BY MappedFinite DEF MemoryInv, MappingsApart
    <2> HIDE DEF Later
    <2>4. Spec => [](MemoryInv /\ Later)
      BY <2>1, <2>2, NextMemory, PTL DEF Spec
    <2>5. Later => 3 <= nextFd
      BY DEF Later
    <2> QED  BY <2>3, <2>4, <2>5, PTL
  <1>4. MachineTypes /\ IoInv /\ MemoryInv /\ allocated \in Nat /\ 3 <= nextFd => TypeOK
    <2> SUFFICES ASSUME MachineTypes, IoInv, MemoryInv, allocated \in Nat, 3 <= nextFd PROVE TypeOK
      OBVIOUS
    <2>1. files \in [Paths -> Nat \cup {NoFile}] /\ nextFd \in 3..(MaxFd + 1)
      BY LinuxAssumption DEF IoInv, IoTypes
    <2>2. NetworkTypeOK
      BY LinuxAssumption DEF IoInv, IoTypes, NetworkTypeOK
    <2>3. allocated \in 0..MaxPages
      BY LinuxAssumption DEF MemoryInv, MappingsApart
    <2>4. regions \in [DOMAIN regions -> Nat \ {0}]
      BY DEF MemoryInv, Placed
    <2> QED  BY <2>1, <2>2, <2>3, <2>4 DEF TypeOK, MachineTypes, IoInv, IoTypes, MemoryInv, Placed
  <1> QED  BY <1>2, <1>3, <1>4, IoInvariant, PTL

=============================================================================
