--------------------------- MODULE ScriptedNetwork ---------------------------
(***************************************************************************)
(* NetworkRuntime (crates/analysis-dynamic/src/network.rs): what the       *)
(* emulated programs take for the network.  It has a table of its own,     *)
(* keyed by the handles or descriptors of the emulator that uses it, and   *)
(* answers from a script.  Of a response only its length is kept.          *)
(***************************************************************************)
EXTENDS Integers

CONSTANTS
  NetHandles,     \* handles or descriptors the emulator may give out
  Urls,           \* URLs of requests and redirects
  Redirects,      \* of a URL: the URL its route redirects to, or itself
  Bodies,         \* of a URL: the length of its scripted body
  MaxRedirects,   \* 3
  Destinations,   \* peers a socket connects to
  Responses,      \* of a peer: the length of its scripted response
  NotOpen,        \* the handle is not in the table
  Nowhere         \* no URL was resolved, no peer was connected to

ASSUME ScriptAssumption ==
  /\ MaxRedirects \in Nat
  /\ Redirects \in [Urls -> Urls] /\ Bodies \in [Urls -> Nat]
  /\ Responses \in [Destinations -> Nat]
  /\ Nowhere \notin Urls \cup Destinations

VARIABLE network  \* NetworkRuntime.handles

Session == [kind : {"session"}]
Connection == [kind : {"connection"}]
\* `response` is the URL whose body the request holds.
Request == [kind : {"request"}, url : Urls, response : Urls \cup {Nowhere}, cursor : Nat]
Socket == [kind : {"socket"}, peer : Destinations \cup {Nowhere}, cursor : Nat]

ASSUME NotOpenAssumption == NotOpen \notin Session \cup Connection \cup Request \cup Socket

NetworkTypeOK ==
  network \in [NetHandles -> Session \cup Connection \cup Request \cup Socket \cup {NotOpen}]

NetworkInit == network = [h \in NetHandles |-> NotOpen]

Fewest(a, b) == IF a <= b THEN a ELSE b

IsRequest(h) == network[h] # NotOpen /\ network[h].kind = "request"
IsSocket(h) == network[h] # NotOpen /\ network[h].kind = "socket"

RegisterSession(h) == network' = [network EXCEPT ![h] = [kind |-> "session"]]
RegisterConnection(h) == network' = [network EXCEPT ![h] = [kind |-> "connection"]]
RegisterRequest(h, u) ==
  network' = [network EXCEPT ![h] = [kind |-> "request", url |-> u,
                                     response |-> Nowhere, cursor |-> 0]]
RegisterSocket(h) ==
  network' = [network EXCEPT ![h] = [kind |-> "socket", peer |-> Nowhere, cursor |-> 0]]

\* The URL a request for u ends at: the last of its hops, of which a URL that
\* is not redirected makes no more.
Follow(u) ==
  LET Hops == CHOOSE c \in [0..MaxRedirects -> Urls] :
                /\ c[0] = u
                /\ \A d \in 1..MaxRedirects : c[d] = Redirects[c[d - 1]]
  IN  Hops[MaxRedirects]

\* A response that is replaced while the cursor stays where it was.
ResolveKeepingCursor(h) ==
  IF IsRequest(h)
  THEN LET end == Follow(network[h].url)
       IN  network' = [network EXCEPT ![h].url = end, ![h].response = end]
  ELSE UNCHANGED network
\* resolve_request: the request is at the last hop from now on, and what it
\* had read of an earlier response is forgotten.
ResolveRequest(h) ==
  IF IsRequest(h)
  THEN LET end == Follow(network[h].url)
       IN  network' = [network EXCEPT ![h] = [kind |-> "request", url |-> end,
                                              response |-> end, cursor |-> 0]]
  ELSE UNCHANGED network

ResponseLength(h) ==
  IF IsRequest(h)
  THEN IF network[h].response = Nowhere THEN 0 ELSE Bodies[network[h].response]
  ELSE IF IsSocket(h) /\ network[h].peer # Nowhere THEN Responses[network[h].peer] ELSE 0

\* How much of its response a request or a socket gives to a read of n bytes.
Delivered(h, n) == Fewest(n, ResponseLength(h) - network[h].cursor)

\* read_response, recv_socket: the cursor moves before the bytes are stored.
ReadResponse(h, n) ==
  IF IsRequest(h) THEN network' = [network EXCEPT ![h].cursor = @ + Delivered(h, n)]
  ELSE UNCHANGED network
RecvSocket(h, n) ==
  IF IsSocket(h) THEN network' = [network EXCEPT ![h].cursor = @ + Delivered(h, n)]
  ELSE UNCHANGED network

\* connect_socket; a socket may be connected again.
ConnectSocket(h, peer) ==
  IF IsSocket(h)
  THEN network' = [network EXCEPT ![h] = [kind |-> "socket", peer |-> peer, cursor |-> 0]]
  ELSE UNCHANGED network

CloseNetwork(h) == network' = [network EXCEPT ![h] = NotOpen]

\* What was read of a response is never more than there is of it, however
\* requests are resolved and sockets connected again in between.
CursorsWithin ==
  \A h \in NetHandles : IsRequest(h) \/ IsSocket(h) => network[h].cursor <= ResponseLength(h)

=============================================================================
