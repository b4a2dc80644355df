------------------------------- MODULE Sshd -------------------------------
(***************************************************************************)
(* The process of sshd, and each of its connections up to the sessions and *)
(* forwards: main with its listeners and its signal goroutine, one Serve   *)
(* loop per listener, one handleConnection goroutine per client, and the   *)
(* goroutine that handles a client's global requests.  With -i there is    *)
(* one connection, on stdin and stdout, and neither listener nor signal    *)
(* goroutine.  What a session or a forward then does is in ServerSession,  *)
(* TcpForwarder and Relay; here it is only whether it is begun.            *)
(***************************************************************************)
EXTENDS Integers, Sequences, SequencesExt

CONSTANTS
  Conns,           \* clients
  Users, Keys,     \* names a client may give, public keys it may prove to have
  AuthorizedKeys,  \* AuthorizedKeys[u]: keys in the files of u; none if there is no such user
  Configs,         \* resolved options to look at; config.clients bounds who connects
  MaxAuthTries,    \* the option of that name
  MaxAsked,        \* bound: channels and global requests that each client asks for
  MaxFaults,       \* bound: failing Accepts
  Nobody           \* no authentication yet

ASSUME KeysAssumption == AuthorizedKeys \in [Users -> SUBSET Keys]
ASSUME NobodyAssumption == Nobody \notin [user : Users, key : Keys]
ASSUME BoundsAssumption == MaxAuthTries \in Nat \ {0} /\ MaxAsked \in [Conns -> Nat] /\ MaxFaults \in Nat

VARIABLES
  config,    \* the Options that main resolved, used for every connection
  main,      \* binding, serving, inetd, exited
  exit,      \* exit code of the process
  signal,    \* the signal goroutine: nothing yet, or a signal to act upon
  sock,      \* listening sockets, one per address to bind
  serve,     \* their Serve loops
  faults,
  phase,     \* how far handleConnection is
  via,       \* listener a client connected to
  link,      \* the transport: up, lost, or failed by the read deadline
  timer,     \* the read deadline of LoginGraceTime
  tries,     \* failed attempts, while NewServerConn counts them
  who,       \* user and key of the attempt that succeeded
  chans,     \* channel opens between the mux and the loop of handleConnection
  reqs,      \* ... global requests and handleGlobalRequests
  asked,     \* how many the client sent
  globals,   \* the goroutine of handleGlobalRequests
  served     \* what was begun for a client

mainVars == <<main, exit, signal, sock, serve, faults>>
authVars == <<tries, who>>
askVars  == <<chans, reqs, asked, served>>
vars == <<config, mainVars, phase, via, link, timer, authVars, askVars, globals>>

ChannelKinds == {"session", "direct-tcpip", "other"}
RequestKinds == {"tcpip-forward", "other"}
Phases == {"none", "backlog", "accepted", "loading", "auth", "authed", "cleared", "admitted",
          "ended", "closed"}  \* returned nil, or an error
BeforeAuth == {"accepted", "loading", "auth"}

-----------------------------------------------------------------------------
(* What the options say.                                                   *)

\* A ListenAddress without a port stands for one address per Port.
ExpandListenAddress(a) ==
  IF a.port # "" THEN <<a>>
  ELSE [i \in DOMAIN config.ports |-> [host |-> a.host, port |-> config.ports[i]]]

ListenAddresses ==
  LET given == IF config.listen = <<>> THEN <<[host |-> "", port |-> ""]>> ELSE config.listen
  IN FlattenSeq([i \in DOMAIN given |-> ExpandListenAddress(given[i])])

Listeners == DOMAIN ListenAddresses

\* Methods with a callback: enabled, and there is a handler; hostbased has no callback to go to.
WiredMethods == (config.enabled \cap config.handlers) \ {"hostbased"}

\* AuthorizedKeysAuthenticator, and DenyPasswordAuthenticator.
Authenticates(u, m, k) == m = "publickey" /\ k \in AuthorizedKeys[u]

\* Patterns name a user or "*"; the host of USER@HOST is not looked at.
MatchesAny(u, patterns) == \E p \in patterns : p.user \in {"*", u}

\* A slip: AllowUsers is looked at first, and settles it.
AllowedFirst(u) ==
  /\ ~config.refuse
  /\ \/ MatchesAny(u, config.allow)
     \/ config.allow = {} /\ ~MatchesAny(u, config.deny)

AccessAllowed(u) ==
  /\ ~config.refuse
  /\ ~MatchesAny(u, config.deny)
  /\ config.allow = {} \/ MatchesAny(u, config.allow)

TcpForwardingAllowed(direction) ==
  /\ ~config.disable
  /\ config.tcp \notin {"no"} \cup ({"local", "remote"} \ {direction})

Serves(kind) ==
  \/ kind = "session"
  \/ kind = "direct-tcpip" /\ TcpForwardingAllowed("local")
  \/ kind = "tcpip-forward" /\ TcpForwardingAllowed("remote")

-----------------------------------------------------------------------------
TypeOK ==
  /\ config \in Configs
  /\ main \in {"binding", "serving", "inetd", "exited"}
  /\ exit \in {"none", "0", "255", "killed"}
  /\ signal \in {"none", "pending"}
  /\ sock \in [Listeners -> {"unbound", "open", "closed"}]
  /\ serve \in [Listeners -> {"none", "accepting", "returned"}]
  /\ faults \in 0 .. MaxFaults
  /\ phase \in [Conns -> Phases]
  /\ via \in [Conns -> Listeners \cup {0}]
  /\ link \in [Conns -> {"none", "up", "lost", "timedout"}]
  /\ timer \in [Conns -> {"off", "armed", "fired"}]
  /\ tries \in [Conns -> 0 .. MaxAuthTries]
  /\ \A c \in Conns : tries[c] = MaxAuthTries => phase[c] = "closed"
  /\ who \in [Conns -> [user : Users, key : Keys] \cup {Nobody}]
  /\ chans \in [Conns -> Seq(ChannelKinds)]
  /\ reqs \in [Conns -> Seq(RequestKinds)]
  /\ asked \in [Conns -> Nat] /\ \A c \in Conns : asked[c] <= MaxAsked[c]
  /\ globals \in [Conns -> {"none", "running", "ended"}]
  /\ served \in [Conns -> SUBSET (ChannelKinds \cup RequestKinds)]

Init ==
  /\ config \in Configs
  /\ main = "binding" /\ exit = "none" /\ signal = "none" /\ faults = 0
  /\ sock = [i \in Listeners |-> "unbound"]
  /\ serve = [i \in Listeners |-> "none"]
  /\ phase = [c \in Conns |-> "none"]
  /\ via = [c \in Conns |-> 0]
  /\ link = [c \in Conns |-> "none"]
  /\ timer = [c \in Conns |-> "off"]
  /\ tries = [c \in Conns |-> 0]
  /\ who = [c \in Conns |-> Nobody]
  /\ chans = [c \in Conns |-> <<>>]
  /\ reqs = [c \in Conns |-> <<>>]
  /\ asked = [c \in Conns |-> 0]
  /\ globals = [c \in Conns |-> "none"]
  /\ served = [c \in Conns |-> {}]

-----------------------------------------------------------------------------
(* main.                                                                   *)

\* The process ends, and with it every socket and goroutine.
Terminate(code) ==
  /\ main' = "exited" /\ exit' = code
  /\ sock' = [i \in Listeners |-> "closed"]
  /\ serve' = [i \in Listeners |-> "returned"]
  /\ phase' = [c \in Conns |-> "closed"]
  /\ link' = [c \in Conns |-> "lost"]
  /\ timer' = [c \in Conns |-> "off"]
  /\ globals' = [c \in Conns |-> "ended"]
  /\ UNCHANGED <<config, signal, faults, via, authVars, askVars>>

\* Listen takes the addresses in order.
NextToBind(i) ==
  /\ main = "binding" /\ ~config.inetd
  /\ sock[i] = "unbound" /\ \A j \in Listeners : j < i => sock[j] # "unbound"

Bind(i) ==
  /\ NextToBind(i)
  /\ \A j \in Listeners : sock[j] = "open" => ListenAddresses[j] # ListenAddresses[i]
  /\ sock' = [sock EXCEPT ![i] = "open"]
  /\ UNCHANGED <<config, main, exit, signal, serve, faults, phase, via, link, timer, authVars, askVars, globals>>

\* In use, by another process or for an address given twice: those before are closed.
BindFails(i) == NextToBind(i) /\ Terminate("255")

\* Notify, and one Serve per listener.
StartServing ==
  /\ main = "binding" /\ ~config.inetd
  /\ \A i \in Listeners : sock[i] = "open"
  /\ main' = "serving"
  /\ serve' = [i \in Listeners |-> "accepting"]
  /\ UNCHANGED <<config, exit, signal, sock, faults, phase, via, link, timer, authVars, askVars, globals>>

StartInetd(c) ==
  /\ main = "binding" /\ config.inetd /\ c \in config.clients /\ phase[c] = "none"
  /\ main' = "inetd"
  /\ phase' = [phase EXCEPT ![c] = "accepted"]
  /\ link' = [link EXCEPT ![c] = "up"]
  /\ UNCHANGED <<config, exit, signal, sock, serve, faults, via, timer, authVars, askVars, globals>>

\* SIGINT or SIGTERM.  Before Notify, and with -i, nothing catches it; a second one is dropped.
Signal ==
  \/ main \in {"binding", "inetd"} /\ Terminate("killed")
  \/ /\ main = "serving" /\ signal = "none"
     /\ signal' = "pending"
     /\ UNCHANGED <<config, main, exit, sock, serve, faults, phase, via, link, timer, authVars, askVars, globals>>

\* A slip: the goroutine returns after the first Close.
CloseFirstListener(i) ==
  /\ main = "serving" /\ signal = "pending" /\ i = 1
  /\ sock[i] = "open"
  /\ sock' = [sock EXCEPT ![i] = "closed"]
  /\ UNCHANGED <<config, main, exit, signal, serve, faults, phase, via, link, timer, authVars, askVars, globals>>

\* The signal goroutine closes the listeners in order; the kernel resets who is still waiting.
CloseListener(i) ==
  /\ main = "serving" /\ signal = "pending"
  /\ sock[i] = "open" /\ \A j \in Listeners : j < i => sock[j] = "closed"
  /\ sock' = [sock EXCEPT ![i] = "closed"]
  /\ phase' = [c \in Conns |-> IF phase[c] = "backlog" /\ via[c] = i THEN "closed" ELSE phase[c]]
  /\ link' = [c \in Conns |-> IF phase[c] = "backlog" /\ via[c] = i THEN "lost" ELSE link[c]]
  /\ UNCHANGED <<config, main, exit, signal, serve, faults, via, timer, authVars, askVars, globals>>

\* Serve returns when Accept fails: the listener is closed, or there are no descriptors left.
ServeReturns(i) ==
  /\ serve[i] = "accepting"
  /\ \/ sock[i] = "closed" /\ faults' = faults
     \/ sock[i] = "open" /\ faults < MaxFaults /\ faults' = faults + 1
  /\ serve' = [serve EXCEPT ![i] = "returned"]
  /\ UNCHANGED <<config, main, exit, signal, sock, phase, via, link, timer, authVars, askVars, globals>>

\* wg.Wait waits for the Serve loops, not for the connections they started.
MainReturns ==
  /\ main = "serving" /\ \A i \in Listeners : serve[i] = "returned"
  /\ Terminate("0")

InetdReturns(c) ==
  /\ main = "inetd" /\ phase[c] \in {"ended", "closed"}
  /\ Terminate(IF phase[c] = "ended" THEN "0" ELSE "255")

-----------------------------------------------------------------------------
(* A connection.                                                           *)

Connect(c, i) ==
  /\ phase[c] = "none" /\ sock[i] = "open" /\ c \in config.clients
  /\ phase' = [phase EXCEPT ![c] = "backlog"]
  /\ via' = [via EXCEPT ![c] = i]
  /\ link' = [link EXCEPT ![c] = "up"]
  /\ UNCHANGED <<config, mainVars, timer, authVars, askVars, globals>>

\* A slip: Serve calls ServeConn itself, without a goroutine.
AcceptInline(c) ==
  /\ phase[c] = "backlog" /\ serve[via[c]] = "accepting"
  /\ \A d \in Conns : via[d] = via[c] => phase[d] \in {"none", "backlog", "ended", "closed"}
  /\ phase' = [phase EXCEPT ![c] = "accepted"]
  /\ UNCHANGED <<config, mainVars, via, link, timer, authVars, askVars, globals>>

Accept(c) ==
  /\ phase[c] = "backlog" /\ serve[via[c]] = "accepting"
  /\ phase' = [phase EXCEPT ![c] = "accepted"]
  /\ UNCHANGED <<config, mainVars, via, link, timer, authVars, askVars, globals>>

\* A slip: LoginGraceTime is forgotten.
NoDeadline(c) ==
  /\ phase[c] = "accepted"
  /\ phase' = [phase EXCEPT ![c] = "loading"]
  /\ UNCHANGED <<config, mainVars, via, link, timer, authVars, askVars, globals>>

\* SetReadDeadline; that of stdioConn does nothing.
ArmDeadline(c) ==
  /\ phase[c] = "accepted"
  /\ phase' = [phase EXCEPT ![c] = "loading"]
  /\ timer' = [timer EXCEPT ![c] = IF config.grace /\ ~config.inetd THEN "armed" ELSE "off"]
  /\ UNCHANGED <<config, mainVars, via, link, authVars, askVars, globals>>

\* The deadline passes: reads fail from now on.
DeadlinePasses(c) ==
  /\ timer[c] = "armed"
  /\ timer' = [timer EXCEPT ![c] = "fired"]
  /\ link' = [link EXCEPT ![c] = IF link[c] = "up" THEN "timedout" ELSE link[c]]
  /\ UNCHANGED <<config, mainVars, phase, via, authVars, askVars, globals>>

\* handleConnection returns, and the two deferred Closes close the transport.
CloseConn(c, result) ==
  /\ phase' = [phase EXCEPT ![c] = result]
  /\ link' = [link EXCEPT ![c] = IF link[c] = "up" THEN "lost" ELSE link[c]]
  /\ timer' = [timer EXCEPT ![c] = "off"]

\* SSHServerConfig reads the host key files, anew for every connection.
LoadHostKeys(c) ==
  /\ phase[c] = "loading"
  /\ phase' = [phase EXCEPT ![c] = "auth"]
  /\ UNCHANGED <<config, mainVars, via, link, timer, authVars, askVars, globals>>

NoHostKeys(c) ==
  /\ phase[c] = "loading"
  /\ CloseConn(c, "closed")
  /\ UNCHANGED <<config, mainVars, via, authVars, askVars, globals>>

\* Within NewServerConn: the user of the attempt that succeeds is the user of the connection.
AuthSucceeds(c) ==
  /\ phase[c] = "auth" /\ link[c] = "up"
  /\ \E u \in Users, m \in WiredMethods, k \in Keys :
       /\ Authenticates(u, m, k)
       /\ who' = [who EXCEPT ![c] = [user |-> u, key |-> k]]
  /\ tries' = [tries EXCEPT ![c] = 0]
  /\ phase' = [phase EXCEPT ![c] = "authed"]
  /\ UNCHANGED <<config, mainVars, via, link, timer, askVars, globals>>

\* A slip: the limit is looked at before the failure is counted.
AuthFailsOnceMore(c) ==
  /\ phase[c] = "auth" /\ link[c] = "up" /\ WiredMethods # {}
  /\ tries' = [tries EXCEPT ![c] = @ + 1]
  /\ IF tries[c] = MaxAuthTries
     THEN CloseConn(c, "closed")
     ELSE UNCHANGED <<phase, link, timer>>
  /\ UNCHANGED <<config, mainVars, via, who, askVars, globals>>

AuthFails(c) ==
  /\ phase[c] = "auth" /\ link[c] = "up" /\ WiredMethods # {}
  /\ tries' = [tries EXCEPT ![c] = @ + 1]
  /\ IF tries[c] + 1 = MaxAuthTries
     THEN CloseConn(c, "closed")
     ELSE UNCHANGED <<phase, link, timer>>
  /\ UNCHANGED <<config, mainVars, via, who, askVars, globals>>

\* NewServerConn returns an error: the transport is gone, or there is no method to offer.
HandshakeFails(c) ==
  /\ phase[c] = "auth" /\ (link[c] # "up" \/ WiredMethods = {})
  /\ CloseConn(c, "closed")
  /\ UNCHANGED <<config, mainVars, via, authVars, askVars, globals>>

\* A slip: global requests are served before access is checked.
ClearAndServe(c) ==
  /\ phase[c] = "authed"
  /\ phase' = [phase EXCEPT ![c] = "cleared"]
  /\ timer' = [timer EXCEPT ![c] = "off"]
  /\ globals' = [globals EXCEPT ![c] = "running"]
  /\ UNCHANGED <<config, mainVars, via, link, authVars, askVars>>

\* A slip: the deadline stays.
KeepDeadline(c) ==
  /\ phase[c] = "authed"
  /\ phase' = [phase EXCEPT ![c] = "cleared"]
  /\ UNCHANGED <<config, mainVars, via, link, timer, authVars, askVars, globals>>

\* NewServerConn has returned; the client knows that it is in, and the mux is reading.
ClearDeadline(c) ==
  /\ phase[c] = "authed"
  /\ phase' = [phase EXCEPT ![c] = "cleared"]
  /\ timer' = [timer EXCEPT ![c] = "off"]
  /\ UNCHANGED <<config, mainVars, via, link, authVars, askVars, globals>>

CheckAccess(c) ==
  /\ phase[c] = "cleared"
  /\ IF AccessAllowed(who[c].user)
     THEN /\ phase' = [phase EXCEPT ![c] = "admitted"]
          /\ globals' = [globals EXCEPT ![c] = "running"]
          /\ UNCHANGED <<link, timer>>
     ELSE CloseConn(c, "closed") /\ UNCHANGED globals
  /\ UNCHANGED <<config, mainVars, via, authVars, askVars>>

-----------------------------------------------------------------------------
(* What a client asks for, once it is told that it is authenticated.       *)

MayAsk(c) ==
  /\ phase[c] \in {"authed", "cleared", "admitted"} /\ link[c] = "up" /\ asked[c] < MaxAsked[c]
  /\ asked' = [asked EXCEPT ![c] = @ + 1]

AskChannel(c) ==
  /\ MayAsk(c)
  /\ \E kind \in ChannelKinds : chans' = [chans EXCEPT ![c] = Append(@, kind)]
  /\ UNCHANGED <<config, mainVars, phase, via, link, timer, authVars, reqs, globals, served>>

AskGlobal(c) ==
  /\ MayAsk(c)
  /\ \E kind \in RequestKinds : reqs' = [reqs EXCEPT ![c] = Append(@, kind)]
  /\ UNCHANGED <<config, mainVars, phase, via, link, timer, authVars, chans, globals, served>>

Leave(c) ==
  /\ link[c] = "up"
  /\ link' = [link EXCEPT ![c] = "lost"]
  /\ UNCHANGED <<config, mainVars, phase, via, timer, authVars, askVars, globals>>

Begin(c, kind) ==
  served' = [served EXCEPT ![c] = IF Serves(kind) THEN @ \cup {kind} ELSE @]

\* dispatchChannel, in a goroutine of its own: begun or rejected.
DispatchChannel(c) ==
  /\ phase[c] = "admitted" /\ chans[c] # <<>>
  /\ Begin(c, Head(chans[c]))
  /\ chans' = [chans EXCEPT ![c] = Tail(@)]
  /\ UNCHANGED <<config, mainVars, phase, via, link, timer, authVars, reqs, asked, globals>>

HandleGlobal(c) ==
  /\ globals[c] = "running" /\ reqs[c] # <<>>
  /\ Begin(c, Head(reqs[c]))
  /\ reqs' = [reqs EXCEPT ![c] = Tail(@)]
  /\ UNCHANGED <<config, mainVars, phase, via, link, timer, authVars, chans, asked, globals>>

\* The mux has ended and closed both Go channels; what they hold is still delivered.
ChannelLoopEnds(c) ==
  /\ phase[c] = "admitted" /\ chans[c] = <<>> /\ link[c] # "up"
  /\ CloseConn(c, "ended")
  /\ UNCHANGED <<config, mainVars, via, authVars, askVars, globals>>

GlobalLoopEnds(c) ==
  /\ globals[c] = "running" /\ reqs[c] = <<>> /\ link[c] # "up"
  /\ globals' = [globals EXCEPT ![c] = "ended"]
  /\ UNCHANGED <<config, mainVars, phase, via, link, timer, authVars, askVars>>

-----------------------------------------------------------------------------
Main ==
  \/ \E i \in Listeners : Bind(i) \/ BindFails(i) \/ CloseListener(i) \/ ServeReturns(i)
  \/ StartServing \/ Signal \/ MainReturns
  \/ \E c \in Conns : StartInetd(c) \/ InetdReturns(c)

Client(c) ==
  \/ \E i \in Listeners : Connect(c, i)
  \/ AuthSucceeds(c) \/ AuthFails(c) \/ AskChannel(c) \/ AskGlobal(c) \/ Leave(c)

Server(c) ==
  \/ Accept(c) \/ ArmDeadline(c) \/ LoadHostKeys(c) \/ NoHostKeys(c) \/ HandshakeFails(c)
  \/ ClearDeadline(c) \/ CheckAccess(c)
  \/ DispatchChannel(c) \/ HandleGlobal(c) \/ ChannelLoopEnds(c) \/ GlobalLoopEnds(c)

Next == Main \/ \E c \in Conns : Client(c) \/ Server(c) \/ DeadlinePasses(c)

\* Goroutines run, time passes; a client owes nothing, and no signal has to come.
Fairness ==
  /\ \A c \in Conns : WF_vars(Server(c)) /\ WF_vars(DeadlinePasses(c))
  /\ WF_vars(\E i \in Listeners : CloseListener(i))
  /\ WF_vars(\E i \in Listeners : sock[i] = "closed" /\ ServeReturns(i))
  /\ WF_vars(MainReturns)

Spec == Init /\ [][Next]_vars /\ Fairness

-----------------------------------------------------------------------------
(* Properties.                                                             *)

\* ssh.go:400-413: a client can send channels and global requests as soon as it is told
\* that it is authenticated, before its access is checked.  None is begun for a client that
\* has not proven a key of the user it goes by, that the access rules keep out, or that
\* asks for what the options forbid.
OnlyAdmitted ==
  \A c \in Conns : served[c] # {} =>
    /\ who[c] # Nobody
    /\ who[c].key \in AuthorizedKeys[who[c].user] /\ AccessAllowed(who[c].user)
    /\ \A kind \in served[c] : Serves(kind)

\* ssh.go:394-397: LoginGraceTime is for the login only; a session, however long, never
\* ends because of it.
ServedOutliveGrace ==
  [][\A c \in Conns :
       phase[c] \in {"cleared", "admitted"} /\ link[c] = "up" => link'[c] # "timedout"]_vars

\* ssh.go:374-375: with a LoginGraceTime, whoever does not log in is dropped, so that stuck
\* clients do not tie up goroutines; whatever it sends, and when.  (Not with -i.)
GraceEnds ==
  \A c \in Conns :
    (config.grace /\ ~config.inetd /\ phase[c] \in BeforeAuth) ~> (phase[c] \notin BeforeAuth)

\* main.go:105-117: after a signal every listener is closed, every Serve returns, and the
\* process ends with 0, even if a listener had failed before.
ShutdownEnds == (signal = "pending") ~> (exit = "0")

\* ssh.go:341-353: as long as a listener is served, a client that waits for it is accepted
\* or reset, whatever the clients before it do.
NoClientBlocksOthers ==
  \A c \in Conns :
    (phase[c] = "backlog" /\ serve[via[c]] = "accepting")
      ~> (phase[c] # "backlog" \/ serve[via[c]] = "returned")
=============================================================================
