---------------------------- MODULE TcpForwarder ----------------------------
(***************************************************************************)
(* Remote ("tcpip-forward") forwarding in sshd: the global request loop of *)
(* every client connection (handleGlobalRequests) and the ONE              *)
(* DefaultTcpForwarder that all of them share, with its map of listeners,  *)
(* its accept loops and the connections those accept.                      *)
(*                                                                         *)
(* StartRemoteForward binds a port first and takes the mutex only to       *)
(* insert; StopRemoteForward deletes under the mutex and closes the socket *)
(* after unlocking.  Each of the two is therefore two steps here, and the  *)
(* loops of other connections run in between.                              *)
(***************************************************************************)
EXTENDS Integers, Sequences

CONSTANTS
  Conns,        \* client connections, each with its own request loop
  Listeners,    \* identities of the sockets net.Listen returns
  Raws,         \* TCP connections that third parties make to bound ports
  Addrs,        \* bind addresses a client may ask for
  Ports,        \* the ports the kernel can bind (never 0)
  Overlap,      \* pairs of bind addresses that contend for one port
  PermitListen, \* the resolved option: a sequence of policy entries
  AllowRemote,  \* tcpForwardingAllowed(opts, "remote")
  Requests,     \* the global requests a client may send
  MaxRequests,  \* bound: global requests one client sends
  QueueCap,     \* bound: requests buffered or in service on one connection
  NoListener,   \* the nil of the listener map
  NoConn        \* "no connection", in the abstract table

Keys      == Addrs \X (Ports \cup {0})  \* forwardKey: bind address and port
BoundKeys == Addrs \X Ports             \* what the kernel can really bind

ASSUME PortsAssumption   == Ports \subseteq Nat \ {0}
ASSUME OverlapAssumption == /\ \A a \in Addrs : <<a, a>> \in Overlap
                            /\ \A a, b \in Addrs :
                                 <<a, b>> \in Overlap => <<b, a>> \in Overlap
ASSUME NilAssumption     == NoListener \notin Listeners /\ NoConn \notin Conns
ASSUME SomeAssumption    == Conns # {} /\ Addrs # {}
ASSUME BoundsAssumption  == MaxRequests \in Nat /\ QueueCap \in Nat

\* "other": a payload that does not parse, a type nobody handles, streamlocal.
RequestType == [type : {"forward", "cancel", "other"}, key : Keys]
ASSUME RequestsAssumption == Requests \subseteq RequestType

VARIABLES
  conn,      \* the SSH connection: not yet made, up, or gone
  sent,      \* how many global requests its client has sent
  queue,     \* requests buffered for its handleGlobalRequests; the head stays
             \*   until it is answered
  at,        \* where handleGlobalRequests is: between requests, or between
             \*   net.Listen and the insert, or between delete and Close
  held,      \* the listener that loop is working on, outside the map
  sock,      \* every listening socket: unused, open, closed
  bound,     \* the address asked for and the port it is bound to
  owner,     \* the connection whose forward it serves
  loop,      \* its acceptLoop goroutine
  forwards,  \* DefaultTcpForwarder.forwards
  raw,       \* every third-party connection
  via        \* the listener it arrived on

handlerVars == <<queue, at, held>>
sockVars    == <<sock, bound, owner>>
rawVars     == <<raw, via>>
vars == <<conn, sent, queue, at, held, sock, bound, owner, loop, forwards, raw, via>>

\* Types, and which of the program counters come with a listener and a request.
TypeOK ==
  /\ conn  \in [Conns -> {"new", "up", "down"}]
  /\ sent  \in [Conns -> 0 .. MaxRequests]
  /\ queue \in [Conns -> Seq(Requests)]
  /\ at    \in [Conns -> {"idle", "listened", "deleted", "exited"}]
  /\ held  \in [Conns -> Listeners \cup {NoListener}]
  /\ sock  \in [Listeners -> {"unused", "open", "closed"}]
  /\ bound \in [Listeners -> Keys]
  /\ owner \in [Listeners -> Conns]
  /\ loop  \in [Listeners -> {"none", "running", "ended"}]
  /\ forwards \in [Keys -> Listeners \cup {NoListener}]
  /\ raw   \in [Raws -> {"new", "backlog", "opening", "piped", "writing", "closed"}]
  /\ via   \in [Raws -> Listeners \cup {NoListener}]
  /\ \A c \in Conns : held[c] # NoListener <=> at[c] \in {"listened", "deleted"}
  /\ \A c \in Conns : held[c] # NoListener => queue[c] # <<>>
  /\ \A r \in Raws  : via[r] = NoListener <=> raw[r] = "new"

Init ==
  /\ conn  = [c \in Conns |-> "new"]
  /\ sent  = [c \in Conns |-> 0]
  /\ queue = [c \in Conns |-> <<>>]
  /\ at    = [c \in Conns |-> "idle"]
  /\ held  = [c \in Conns |-> NoListener]
  /\ sock  = [l \in Listeners |-> "unused"]
  /\ bound = [l \in Listeners |-> CHOOSE k \in Keys : TRUE]
  /\ owner = [l \in Listeners |-> CHOOSE c \in Conns : TRUE]
  /\ loop  = [l \in Listeners |-> "none"]
  /\ forwards = [k \in Keys |-> NoListener]
  /\ raw   = [r \in Raws |-> "new"]
  /\ via   = [r \in Raws |-> NoListener]

-----------------------------------------------------------------------------
(* The kernel and the policy.                                              *)

Contend(k1, k2) == k1[2] = k2[2] /\ <<k1[1], k2[1]>> \in Overlap

\* bind(2) refuses an address that contends with an open socket.
InUse(k) == \E l \in Listeners : sock[l] = "open" /\ Contend(bound[l], k)

\* The keys net.Listen may bind for a request: port 0 lets the kernel choose.
Bindable(k) ==
  {b \in BoundKeys : b[1] = k[1] /\ (k[2] = 0 \/ b = k) /\ ~InUse(b)}

\* One entry of PermitListen grants a request: "any", host:port, or a port.
Grants(entry, k) ==
  \/ entry.kind = "any"
  \/ entry.kind = "key"  /\ entry.key = k
  \/ entry.kind = "port" /\ entry.port = k[2]

\* An empty list permits everything; otherwise the first "none" ends the scan.
permitListenAllows(k) ==
  \/ PermitListen = <<>>
  \/ \E i \in DOMAIN PermitListen :
       /\ Grants(PermitListen[i], k)
       /\ \A j \in 1 .. i : PermitListen[j].kind # "none"

-----------------------------------------------------------------------------
(* The client and its connection.                                          *)

\* handleConnection has authenticated the client: the request loop starts.
Connect(c) ==
  /\ conn[c] = "new"
  /\ conn' = [conn EXCEPT ![c] = "up"]
  /\ UNCHANGED <<sent, handlerVars, sockVars, loop, forwards, rawVars>>

\* The mux hands a global request of the client to the buffered channel.
ClientRequest(c) ==
  /\ conn[c] = "up"
  /\ sent[c] < MaxRequests
  /\ Len(queue[c]) < QueueCap
  /\ \E req \in Requests : queue' = [queue EXCEPT ![c] = Append(@, req)]
  /\ sent' = [sent EXCEPT ![c] = @ + 1]
  /\ UNCHANGED <<conn, at, held, sockVars, loop, forwards, rawVars>>

\* The transport ends.  The request channel is closed, but what it still
\* holds is delivered, and nothing tells the forwarder.
Disconnect(c) ==
  /\ conn[c] = "up"
  /\ conn' = [conn EXCEPT ![c] = "down"]
  /\ UNCHANGED <<sent, handlerVars, sockVars, loop, forwards, rawVars>>

-----------------------------------------------------------------------------
(* handleGlobalRequests: one request at a time, per connection.            *)

Pending(c, type) ==
  /\ at[c] = "idle"
  /\ queue[c] # <<>>
  /\ Head(queue[c]).type = type

Request(c) == Head(queue[c]).key

NextRequest(c) == queue' = [queue EXCEPT ![c] = Tail(@)]

\* The request is answered with failure and changes nothing else.
RefuseOther(c) ==
  /\ Pending(c, "other")
  /\ NextRequest(c)
  /\ UNCHANGED <<conn, sent, at, held, sockVars, loop, forwards, rawVars>>

\* StartRemoteForward fails: forwarding is off, the policy says no, or
\* net.Listen returns an error, which it may do for a free port too.
RefuseForward(c) ==
  /\ Pending(c, "forward")
  /\ NextRequest(c)
  /\ UNCHANGED <<conn, sent, at, held, sockVars, loop, forwards, rawVars>>

\* The identity of the next socket: sockets are not reused.
NewSocket == CHOOSE l \in Listeners : sock[l] = "unused"

\* StartRemoteForward up to its lock: the socket is open, no map knows it.
ListenForward(c) ==
  /\ Pending(c, "forward")
  /\ AllowRemote
  /\ permitListenAllows(Request(c))
  /\ \E l \in Listeners : sock[l] = "unused"
  /\ \E b \in Bindable(Request(c)) : bound' = [bound EXCEPT ![NewSocket] = b]
  /\ sock'  = [sock EXCEPT ![NewSocket] = "open"]
  /\ owner' = [owner EXCEPT ![NewSocket] = c]
  /\ held'  = [held EXCEPT ![c] = NewSocket]
  /\ at' = [at EXCEPT ![c] = "listened"]
  /\ UNCHANGED <<conn, sent, queue, loop, forwards, rawVars>>

\* A slip: the map is keyed by the port of the request, which may be 0.
RegisterByRequest(c) ==
  /\ at[c] = "listened"
  /\ forwards' = [forwards EXCEPT ![Request(c)] = held[c]]
  /\ loop' = [loop EXCEPT ![held[c]] = "running"]
  /\ at' = [at EXCEPT ![c] = "idle"]
  /\ held' = [held EXCEPT ![c] = NoListener]
  /\ NextRequest(c)
  /\ UNCHANGED <<conn, sent, sockVars, rawVars>>

\* ... and from the lock on: insert under the port really bound, unlock,
\* start the accept loop, answer the request.
RegisterForward(c) ==
  /\ at[c] = "listened"
  /\ forwards' = [forwards EXCEPT ![bound[held[c]]] = held[c]]
  /\ loop' = [loop EXCEPT ![held[c]] = "running"]
  /\ at' = [at EXCEPT ![c] = "idle"]
  /\ held' = [held EXCEPT ![c] = NoListener]
  /\ NextRequest(c)
  /\ UNCHANGED <<conn, sent, sockVars, rawVars>>

\* A slip: "no such forward" is never answered.
RefuseCancelStuck(c) ==
  Pending(c, "cancel") /\ forwards[Request(c)] = NoListener /\ UNCHANGED vars

\* StopRemoteForward finds no entry for the key: the request fails.
RefuseCancel(c) ==
  /\ Pending(c, "cancel")
  /\ forwards[Request(c)] = NoListener
  /\ NextRequest(c)
  /\ UNCHANGED <<conn, sent, at, held, sockVars, loop, forwards, rawVars>>

\* Slips: the entry is not checked; it is left in the map; it is deleted only
\* after the socket has been closed.
DeleteUnchecked(c) ==
  /\ Pending(c, "cancel")
  /\ held' = [held EXCEPT ![c] = forwards[Request(c)]]
  /\ forwards' = [forwards EXCEPT ![Request(c)] = NoListener]
  /\ at' = [at EXCEPT ![c] = "deleted"]
  /\ UNCHANGED <<conn, sent, queue, sockVars, loop, rawVars>>
DeleteNothing(c) ==
  /\ Pending(c, "cancel")
  /\ forwards[Request(c)] # NoListener
  /\ held' = [held EXCEPT ![c] = forwards[Request(c)]]
  /\ at' = [at EXCEPT ![c] = "deleted"]
  /\ UNCHANGED <<conn, sent, queue, sockVars, loop, forwards, rawVars>>

\* StopRemoteForward under the lock: look up and delete.  Whose forward it is
\* makes no difference.
DeleteForward(c) ==
  /\ Pending(c, "cancel")
  /\ forwards[Request(c)] # NoListener
  /\ held' = [held EXCEPT ![c] = forwards[Request(c)]]
  /\ forwards' = [forwards EXCEPT ![Request(c)] = NoListener]
  /\ at' = [at EXCEPT ![c] = "deleted"]
  /\ UNCHANGED <<conn, sent, queue, sockVars, loop, rawVars>>

\* A slip: the entry is gone but the socket is not closed.
CloseNothing(c) ==
  /\ at[c] = "deleted"
  /\ at' = [at EXCEPT ![c] = "idle"]
  /\ held' = [held EXCEPT ![c] = NoListener]
  /\ NextRequest(c)
  /\ UNCHANGED <<conn, sent, sockVars, loop, forwards, rawVars>>

\* ... and after it: close the socket, which resets what nobody accepted yet.
CloseForward(c) ==
  /\ at[c] = "deleted"
  /\ sock' = [sock EXCEPT ![held[c]] = "closed"]
  /\ raw' = [r \in Raws |-> IF raw[r] = "backlog" /\ via[r] = held[c]
                            THEN "closed" ELSE raw[r]]
  /\ at' = [at EXCEPT ![c] = "idle"]
  /\ held' = [held EXCEPT ![c] = NoListener]
  /\ NextRequest(c)
  /\ UNCHANGED <<conn, sent, bound, owner, loop, forwards, via>>

\* The closed channel is drained: the goroutine returns.
RequestLoopEnds(c) ==
  /\ conn[c] = "down"
  /\ at[c] = "idle"
  /\ queue[c] = <<>>
  /\ at' = [at EXCEPT ![c] = "exited"]
  /\ UNCHANGED <<conn, sent, queue, held, sockVars, loop, forwards, rawVars>>

-----------------------------------------------------------------------------
(* acceptLoop, dispatchForwarded and the connections they serve.           *)

\* A third party connects to a bound port: the kernel queues the connection.
RawArrives(r) ==
  /\ raw[r] = "new"
  /\ \E l \in Listeners : sock[l] = "open" /\ via' = [via EXCEPT ![r] = l]
  /\ raw' = [raw EXCEPT ![r] = "backlog"]
  /\ UNCHANGED <<conn, sent, handlerVars, sockVars, loop, forwards>>

Accept(r) ==
  /\ raw[r] = "backlog"
  /\ loop[via[r]] = "running"
  /\ sock[via[r]] = "open"
  /\ raw' = [raw EXCEPT ![r] = "opening"]
  /\ UNCHANGED <<conn, sent, handlerVars, sockVars, loop, forwards, via>>

\* Accept fails for another reason than Close (no descriptors left): the loop
\* returns all the same, and the socket stays open in the map.
AcceptFails(l) ==
  /\ loop[l] = "running"
  /\ sock[l] = "open"
  /\ loop' = [loop EXCEPT ![l] = "ended"]
  /\ UNCHANGED <<conn, sent, handlerVars, sockVars, forwards, rawVars>>

AcceptLoopEnds(l) ==
  /\ loop[l] = "running"
  /\ sock[l] = "closed"
  /\ loop' = [loop EXCEPT ![l] = "ended"]
  /\ UNCHANGED <<conn, sent, handlerVars, sockVars, forwards, rawVars>>

RawMoves(r, from, to) ==
  /\ raw[r] = from
  /\ raw' = [raw EXCEPT ![r] = to]
  /\ UNCHANGED <<conn, sent, handlerVars, sockVars, loop, forwards, via>>

Lost(r) == conn[owner[via[r]]] = "down"

\* A slip: the accepted connection is not closed when OpenChannel fails.
ForgetRaw(r) == RawMoves(r, "opening", "opening") /\ Lost(r)

\* dispatchForwarded: OpenChannel is confirmed and two pipeClose start; or the
\* client refuses the channel, or its connection is gone.
ChannelOpens(r)  == RawMoves(r, "opening", "piped") /\ ~Lost(r)
ChannelRefused(r) == RawMoves(r, "opening", "closed") /\ ~Lost(r)
ChannelFails(r)  == RawMoves(r, "opening", "closed") /\ Lost(r)

\* pipeClose(raw, ch): io.Copy waits in ch.Read ("piped"), or it is in raw.Write
\* with data that the third party has not taken ("writing"), for as long as the
\* third party likes.
DataComes(r) == RawMoves(r, "piped", "writing") /\ ~Lost(r)
DataTaken(r) == RawMoves(r, "writing", "piped")

\* One of the two pipeClose is done and closes both sides: the third party has
\* ended or reset its connection, or has sent into a channel that is gone, or
\* the client has closed the channel.
PipeEnds(r) ==
  \/ RawMoves(r, "piped", "closed")
  \/ RawMoves(r, "writing", "closed")

\* The SSH connection is gone: ch.Read returns, to the copy that waits in it.
PipeBreaks(r) == RawMoves(r, "piped", "closed") /\ Lost(r)

-----------------------------------------------------------------------------
Client(c) == Connect(c) \/ ClientRequest(c) \/ Disconnect(c)

RequestLoop(c) ==
  \/ RefuseOther(c) \/ RefuseForward(c) \/ ListenForward(c) \/ RegisterForward(c)
  \/ RefuseCancel(c) \/ DeleteForward(c) \/ CloseForward(c) \/ RequestLoopEnds(c)

AcceptLoop(l) == AcceptFails(l) \/ AcceptLoopEnds(l)

Dispatch(r) ==
  \/ Accept(r) \/ ChannelOpens(r) \/ ChannelRefused(r) \/ ChannelFails(r)
  \/ DataComes(r) \/ DataTaken(r) \/ PipeEnds(r) \/ PipeBreaks(r)

Next ==
  \/ \E c \in Conns : Client(c) \/ RequestLoop(c)
  \/ \E l \in Listeners : AcceptLoop(l)
  \/ \E r \in Raws : RawArrives(r) \/ Dispatch(r)

\* The Go scheduler runs every goroutine that can run.  Nothing is assumed of
\* the clients, of the third parties, or of errors.
Fairness ==
  /\ \A c \in Conns : WF_vars(RequestLoop(c))
  /\ \A l \in Listeners : WF_vars(AcceptLoopEnds(l))
  /\ \A r \in Raws : WF_vars(ChannelFails(r) \/ PipeBreaks(r))

Spec == Init /\ [][Next]_vars /\ Fairness

-----------------------------------------------------------------------------
(* Safety.                                                                 *)

\* Every entry of DefaultTcpForwarder.forwards is an open socket bound to the
\* key it is stored under, with no other key for it: StopRemoteForward deletes
\* before it closes, so a lookup never finds a dead listener.
EntriesAreLive ==
  \A k \in Keys : forwards[k] # NoListener =>
    sock[forwards[k]] = "open" /\ bound[forwards[k]] = k

\* No socket is ever lost: an open one is in the map under its own key, where
\* a cancel can find it, or it is in the hands of exactly one request loop.
\* Two loops inserting under one key, or cancelling one key, would break it.
NoListenerLost ==
  \A l \in Listeners : sock[l] = "open" =>
    \/ forwards[bound[l]] = l /\ \A c \in Conns : held[c] # l
    \/ /\ forwards[bound[l]] # l
       /\ \E c \in Conns : held[c] = l /\ \A d \in Conns \ {c} : held[d] # l

\* The shared map with its two unlocked windows behaves like one atomic table.
Abstract == INSTANCE ForwardTable WITH
  table <- [k \in Keys |-> IF forwards[k] = NoListener THEN NoConn
                           ELSE owner[forwards[k]]]
ImplementsTable == Abstract!Spec

-----------------------------------------------------------------------------
(* Liveness.                                                               *)

\* A cancel that took a forward out of the map releases its port, and ends
\* the goroutine that was accepting on it.
CancelReleasesPort ==
  \A l \in Listeners :
    (\E c \in Conns : at[c] = "deleted" /\ held[c] = l)
      ~> (sock[l] = "closed" /\ loop[l] = "ended")

\* After a client is gone its request loop answers what was still buffered
\* and returns: the goroutine does not leak.
RequestLoopsEnd == \A c \in Conns : conn[c] = "down" ~> at[c] = "exited"

\* Connections that were accepted for a client do not outlive it, even when
\* they were accepted after it had gone, unless the third party never takes what
\* it was sent: raw.Write has no deadline, and pipeClose closes nothing before
\* its copy returns (default_forward.go:139-140, 192-200).
NoOrphanRaw ==
  \A r \in Raws :
    \/ <>[](raw[r] = "writing")
    \/ raw[r] \in {"opening", "piped", "writing"} /\ Lost(r) ~> raw[r] = "closed"
=============================================================================
