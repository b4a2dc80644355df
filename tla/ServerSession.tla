--------------------------- MODULE ServerSession ---------------------------
(***************************************************************************)
(* The session channels of one client connection of sshd: the mux that     *)
(* hands the client's packets to the channels, the DefaultSessionHandler   *)
(* of every channel, and the ExecProcessLauncher that runs its program.    *)
(*                                                                         *)
(* HandleSession reads requests only until one of them starts a program:   *)
(* then it waits in ProcessLauncher.Run, or in the handler of an internal  *)
(* subsystem, and never reads again.  The mux has ONE goroutine for all    *)
(* channels, and puts requests into a bounded buffer.                      *)
(***************************************************************************)
EXTENDS Integers, Sequences, FiniteSets

CONSTANTS
  Sessions,    \* the session channels the client may open
  Requests,    \* the channel requests it may send
  Configs,     \* what the server may be configured with
  EnvNames,    \* names of environment variables
  BufCap,      \* bound: ch.incomingRequests (16 in x/crypto)
  MaxPackets,  \* bound: packets the client sends
  None         \* no packet

ASSUME NamesAssumption  == "pty" \notin EnvNames
ASSUME BoundsAssumption == BufCap \in Nat \ {0} /\ MaxPackets \in Nat

\* "subsystem" requests name one that is registered with a Go handler, one
\* with a command, one with neither, or one LookupSubsystem does not know.
RequestType ==
  [type : {"pty-req", "shell", "exec", "window-change", "signal", "other"},
   parses : BOOLEAN, wantReply : BOOLEAN]
    \cup
  [type : {"env"}, parses : BOOLEAN, wantReply : BOOLEAN, name : EnvNames]
    \cup
  [type : {"subsystem"}, parses : BOOLEAN, wantReply : BOOLEAN,
   name : {"internal", "command", "empty", "unknown"}]

\* DefaultSessionHandler.ProcessLauncher # nil and the options it looks at.
ConfigType == [launcher : BOOLEAN, permitTTY : BOOLEAN, forced : BOOLEAN,
               acceptEnv : SUBSET EnvNames]

ASSUME RequestsAssumption == Requests \subseteq RequestType
ASSUME ConfigsAssumption  == Configs \subseteq ConfigType

\* RFC 4254, 6.7 and 6.9: these carry want_reply = FALSE.
ASSUME ControlsAssumption ==
  \A r \in Requests : r.type \in {"window-change", "signal"} => ~r.wantReply

Packets == [session : Sessions, kind : {"request"}, request : Requests]
             \cup [session : Sessions, kind : {"data", "eof", "close"}]

ASSUME NoneAssumption == None \notin Packets

VARIABLES
  config,   \* chosen at the start, never changed
  conn,     \* transport "up" or "down"; "ended" once the mux has noticed
  packets,  \* how many packets the client has sent
  inHand,   \* the packet the mux is delivering
  client,   \* what the client may still send on a channel
  buffer,   \* ch.incomingRequests: what ctx.Requests() yields
  over,     \* it has been closed, and reading the channel gives EOF at its end
  data,     \* channel data nobody has read
  eof,      \* the client's EOF, or close, has arrived
  at,       \* where the goroutine of dispatchChannel is
  setup,    \* the pty and env of HandleSession
  run,      \* what it has started
  owed,     \* requests that want a reply and have had no Reply
  proc,     \* the process (with all that holds its output open)
  copy,     \* the goroutine of os/exec that copies the channel to its stdin
  report,   \* what the last exit message says that the reporter handed to its
            \*   channel, if there is one
  exits     \* how many it has handed to it (its "sent" is exits # 0)

clientVars == <<packets, client>>
muxVars    == <<conn, inHand, over, eof>>
procVars   == <<proc, copy, data>>
exitVars   == <<report, exits>>
vars == <<config, conn, packets, inHand, client, buffer, over, data, eof, at,
          setup, run, owed, proc, copy, report, exits>>

\* Types, and which state of the goroutine goes with which program.
TypeOK ==
  /\ config \in Configs
  /\ conn \in {"up", "down", "ended"}
  /\ packets \in 0 .. MaxPackets
  /\ inHand \in Packets \cup {None}
  /\ client \in [Sessions -> {"new", "open", "eof", "closed"}]
  /\ buffer \in [Sessions -> Seq(Requests)]
  /\ over \in [Sessions -> BOOLEAN]
  /\ data \in [Sessions -> BOOLEAN]
  /\ eof  \in [Sessions -> BOOLEAN]
  /\ at \in [Sessions -> {"none", "reading", "internal", "starting", "empty",
                          "running", "failing", "returning", "closed"}]
  /\ setup \in [Sessions -> SUBSET (EnvNames \cup {"pty"})]
  /\ run \in [Sessions -> {"nothing", "shell", "exec", "forced", "internal", "command"}]
  /\ owed \in [Sessions -> Nat]
  /\ proc \in [Sessions -> {"none", "alive", "succeeded", "failed"}]
  /\ copy \in [Sessions -> {"none", "copying", "done"}]
  /\ report \in [Sessions -> {"none", "zero", "its code", "one", "127"}]
  /\ exits \in [Sessions -> Nat]
  /\ \A s \in Sessions : Len(buffer[s]) <= BufCap
  /\ \A s \in Sessions : at[s] \in {"none", "reading"} => run[s] = "nothing"
  /\ \A s \in Sessions : at[s] = "running" <=> copy[s] # "none" /\ report[s] = "none"

Init ==
  /\ config \in Configs
  /\ conn = "up"
  /\ packets = 0
  /\ inHand = None
  /\ client = [s \in Sessions |-> "new"]
  /\ buffer = [s \in Sessions |-> <<>>]
  /\ over = [s \in Sessions |-> FALSE]
  /\ data = [s \in Sessions |-> FALSE]
  /\ eof  = [s \in Sessions |-> FALSE]
  /\ at   = [s \in Sessions |-> "none"]
  /\ setup = [s \in Sessions |-> {}]
  /\ run  = [s \in Sessions |-> "nothing"]
  /\ owed = [s \in Sessions |-> 0]
  /\ proc = [s \in Sessions |-> "none"]
  /\ copy = [s \in Sessions |-> "none"]
  /\ report = [s \in Sessions |-> "none"]
  /\ exits = [s \in Sessions |-> 0]

-----------------------------------------------------------------------------
(* The client.                                                             *)

\* The channel is opened: dispatchChannel accepts it and HandleSession runs.
Open(s) ==
  /\ conn = "up" /\ inHand = None /\ client[s] = "new"
  /\ client' = [client EXCEPT ![s] = "open"]
  /\ at' = [at EXCEPT ![s] = "reading"]
  /\ UNCHANGED <<config, packets, muxVars, buffer, setup, run, owed, procVars, exitVars>>

\* The mux has read the client's next packet.
Send(s, packet) ==
  /\ conn = "up" /\ inHand = None /\ packets < MaxPackets
  /\ inHand' = packet
  /\ packets' = packets + 1
  /\ UNCHANGED <<config, conn, over, eof, buffer, at, setup, run, procVars, exitVars>>

Wants(r) == IF r.wantReply THEN 1 ELSE 0

SendRequest(s) ==
  /\ client[s] \in {"open", "eof"}
  /\ \E r \in Requests :
       /\ Send(s, [session |-> s, kind |-> "request", request |-> r])
       /\ owed' = [owed EXCEPT ![s] = @ + Wants(r)]
  /\ UNCHANGED client

SendData(s) ==
  /\ client[s] = "open"
  /\ Send(s, [session |-> s, kind |-> "data"])
  /\ UNCHANGED <<client, owed>>

SendEof(s) ==
  /\ client[s] = "open"
  /\ client' = [client EXCEPT ![s] = "eof"]
  /\ Send(s, [session |-> s, kind |-> "eof"])
  /\ UNCHANGED owed

SendClose(s) ==
  /\ client[s] \in {"open", "eof"}
  /\ client' = [client EXCEPT ![s] = "closed"]
  /\ Send(s, [session |-> s, kind |-> "close"])
  /\ UNCHANGED owed

Disconnect ==
  /\ conn = "up"
  /\ conn' = "down"
  /\ UNCHANGED <<config, clientVars, inHand, over, eof, buffer, at, setup, run,
                 owed, procVars, exitVars>>

-----------------------------------------------------------------------------
(* The mux of x/crypto/ssh: one goroutine for the whole connection.        *)

InHand(s, kind) == inHand # None /\ inHand.session = s /\ inHand.kind = kind

MuxStep(s, kind) ==
  /\ InHand(s, kind)
  /\ inHand' = None
  /\ UNCHANGED <<config, conn, clientVars, at, setup, run, owed, proc, copy, exitVars>>

\* ch.incomingRequests <- &req: it blocks while the buffer is full.
DeliverRequest(s) ==
  /\ MuxStep(s, "request")
  /\ Len(buffer[s]) < BufCap
  /\ buffer' = [buffer EXCEPT ![s] = Append(@, inHand.request)]
  /\ UNCHANGED <<over, data, eof>>

DeliverData(s) ==
  /\ MuxStep(s, "data")
  /\ data' = [data EXCEPT ![s] = TRUE]
  /\ UNCHANGED <<buffer, over, eof>>

DeliverEof(s) ==
  /\ MuxStep(s, "eof")
  /\ eof' = [eof EXCEPT ![s] = TRUE]
  /\ UNCHANGED <<buffer, over, data>>

\* The request channel is closed; what it holds can still be received.
DeliverClose(s) ==
  /\ MuxStep(s, "close")
  /\ eof'  = [eof EXCEPT ![s] = TRUE]
  /\ over' = [over EXCEPT ![s] = TRUE]
  /\ UNCHANGED <<buffer, data>>

\* The mux finds the transport gone, and closes every channel.
MuxEnds ==
  /\ conn = "down" /\ inHand = None
  /\ conn' = "ended"
  /\ over' = [s \in Sessions |-> TRUE]
  /\ eof'  = [s \in Sessions |-> TRUE]
  /\ UNCHANGED <<config, clientVars, inHand, buffer, at, setup, run, owed, procVars, exitVars>>

-----------------------------------------------------------------------------
(* HandleSession, one action per outcome of its switch.                    *)

Pending(s, types) ==
  /\ at[s] = "reading"
  /\ buffer[s] # <<>>
  /\ Head(buffer[s]).type \in types

Request(s) == Head(buffer[s])

\* req.Reply, which sends nothing when the client wanted no reply.
Reply(s) ==
  /\ buffer' = [buffer EXCEPT ![s] = Tail(@)]
  /\ owed' = [owed EXCEPT ![s] = @ - Wants(Request(s))]

\* A slip: the request is dropped without a reply.
DropRequest(s) == buffer' = [buffer EXCEPT ![s] = Tail(@)] /\ UNCHANGED owed

\* The handler stays in its loop.
ReadOn == UNCHANGED <<config, clientVars, muxVars, at, run, procVars, exitVars>>

\* A slip: a denied pty-req is answered with "continue" only.
RefuseSilently(s) ==
  /\ Pending(s, {"pty-req", "env"})
  /\ ~Request(s).parses \/ (Request(s).type = "pty-req" /\ ~config.permitTTY)
  /\ DropRequest(s)
  /\ UNCHANGED setup /\ ReadOn

RefuseSetup(s) ==
  /\ Pending(s, {"pty-req", "env"})
  /\ ~Request(s).parses \/ (Request(s).type = "pty-req" /\ ~config.permitTTY)
  /\ Reply(s)
  /\ UNCHANGED setup /\ ReadOn

GrantPty(s) ==
  /\ Pending(s, {"pty-req"})
  /\ config.permitTTY /\ Request(s).parses
  /\ setup' = [setup EXCEPT ![s] = @ \cup {"pty"}]
  /\ Reply(s)
  /\ ReadOn

\* TERM always is; the AcceptEnv patterns are taken as the names they match.
envNameAccepted(name) == name = "TERM" \/ name \in config.acceptEnv

\* The answer is yes, whether or not the variable is accepted.
TakeEnv(s) ==
  /\ Pending(s, {"env"})
  /\ Request(s).parses
  /\ setup' = IF envNameAccepted(Request(s).name)
              THEN [setup EXCEPT ![s] = @ \cup {Request(s).name}] ELSE setup
  /\ Reply(s)
  /\ ReadOn

\* Before a program runs there is nothing to resize or to signal: whether the
\* launcher is called, or is nil, or the payload is bad, nothing changes, and
\* there is no Reply.
IgnoreControl(s) ==
  /\ Pending(s, {"window-change", "signal"})
  /\ DropRequest(s)
  /\ UNCHANGED setup /\ ReadOn

\* A slip: the loop waits at a request it does not know.
StickToOther(s) == Pending(s, {"other"}) /\ UNCHANGED vars

RefuseOther(s) ==
  /\ Pending(s, {"other"})
  /\ Reply(s)
  /\ UNCHANGED setup /\ ReadOn

\* The requests that end the loop.
Leave(s, where) ==
  /\ at' = [at EXCEPT ![s] = where]
  /\ UNCHANGED <<config, clientVars, muxVars, setup, procVars>>

Known(r) == r.type = "subsystem" => r.name # "unknown"

RefuseStart(s) ==
  /\ Pending(s, {"shell", "exec", "subsystem"})
  /\ \/ Request(s).type = "shell" /\ ~config.launcher
     \/ Request(s).type = "exec"  /\ ~(Request(s).parses /\ config.launcher)
     \/ Request(s).type = "subsystem" /\ ~(Request(s).parses /\ Known(Request(s)))
  /\ Reply(s)
  /\ Leave(s, "returning")
  /\ UNCHANGED <<run, exitVars>>

Program(s) == IF Request(s).type = "exec" /\ config.forced THEN "forced"
              ELSE Request(s).type

\* A slip: HandleSession runs the program and goes on reading requests.
StartAndRead(s) ==
  /\ Pending(s, {"shell", "exec"})
  /\ config.launcher /\ (Request(s).type = "exec" => Request(s).parses)
  /\ run' = [run EXCEPT ![s] = Program(s)]
  /\ Reply(s)
  /\ Leave(s, "reading")
  /\ UNCHANGED exitVars

StartProgram(s) ==
  /\ Pending(s, {"shell", "exec"})
  /\ config.launcher /\ (Request(s).type = "exec" => Request(s).parses)
  /\ run' = [run EXCEPT ![s] = Program(s)]
  /\ Reply(s)
  /\ Leave(s, "starting")
  /\ UNCHANGED exitVars

\* An internal handler runs here; a command goes to the launcher, without the
\* pty; with no command or no launcher only Exit(1) is left to do.
StartSubsystem(s) ==
  /\ Pending(s, {"subsystem"})
  /\ Request(s).parses /\ Known(Request(s))
  /\ LET internal == Request(s).name = "internal"
         none == Request(s).name = "empty" \/ ~config.launcher
     IN /\ run' = [run EXCEPT ![s] = IF internal THEN "internal" ELSE "command"]
        /\ Leave(s, CASE internal -> "internal" [] ~internal /\ none -> "empty"
                      [] OTHER -> "starting")
  /\ Reply(s)
  /\ UNCHANGED exitVars

\* ctx.Requests() is closed and empty.
RequestsEnd(s) ==
  /\ at[s] = "reading" /\ buffer[s] = <<>> /\ over[s]
  /\ Leave(s, "returning")
  /\ UNCHANGED <<buffer, run, owed, exitVars>>

-----------------------------------------------------------------------------
(* ExecProcessLauncher.Run, internal subsystems, and the way out.          *)

\* A slip: the reporter does not look whether it has sent a message already.
TellAgain(s, status) ==
  /\ report' = [report EXCEPT ![s] = status]
  /\ exits' = [exits EXCEPT ![s] = @ + 1]

\* channelExitReporter.Exit hands a message to the channel, the first time.
Tell(s, status) ==
  IF exits[s] # 0 THEN UNCHANGED exitVars
  ELSE /\ report' = [report EXCEPT ![s] = status]
       /\ exits' = [exits EXCEPT ![s] = @ + 1]

\* The reporter is called, and the handler goes on.
Exit(s, status, where) ==
  /\ Tell(s, status)
  /\ at' = [at EXCEPT ![s] = where]
  /\ UNCHANGED <<config, clientVars, muxVars, buffer, setup, run, owed, procVars>>

NothingToRun(s)  == at[s] = "empty" /\ Exit(s, "one", "returning")
InternalEnds(s)  == at[s] = "internal" /\ Exit(s, "zero", "returning")

\* What is written to the channel may be lost: the transport is gone, or the
\* client has closed the channel, and then it is refused.
Deaf(s) == over[s] \/ conn # "up"

\* Run returns what the reporter does: nil, or the error of SendRequest.
RunReturns(s, status) ==
  \/ ~over[s] /\ Exit(s, status, "returning")
  \/ Deaf(s)  /\ Exit(s, status, "failing")

SpawnFails(s) == at[s] = "starting" /\ RunReturns(s, "127")

\* runProcess: Run has returned an error, so Exit(1) is called as well.
RunFailed(s) == at[s] = "failing" /\ Exit(s, "one", "returning")

\* HandleSubsystem returns an error: no exit message.
InternalFails(s) ==
  /\ at[s] = "internal"
  /\ at' = [at EXCEPT ![s] = "returning"]
  /\ UNCHANGED <<config, clientVars, muxVars, buffer, setup, run, owed, procVars, exitVars>>

Spawn(s) ==
  /\ at[s] = "starting"
  /\ at' = [at EXCEPT ![s] = "running"]
  /\ proc' = [proc EXCEPT ![s] = "alive"]
  /\ copy' = [copy EXCEPT ![s] = "copying"]
  /\ UNCHANGED <<config, clientVars, muxVars, buffer, setup, run, owed, data, exitVars>>

ProcessExits(s) ==
  /\ proc[s] = "alive"
  /\ \E how \in {"succeeded", "failed"} : proc' = [proc EXCEPT ![s] = how]
  /\ UNCHANGED <<config, clientVars, muxVars, buffer, at, setup, run, owed, copy, data, exitVars>>

CopyStep(s) ==
  /\ copy[s] = "copying"
  /\ UNCHANGED <<config, clientVars, muxVars, buffer, at, setup, run, owed, proc, exitVars>>

\* Data goes to the process; once it has exited the write gives EPIPE, which
\* ends the copy.
CopyData(s) ==
  /\ CopyStep(s)
  /\ data[s]
  /\ data' = [data EXCEPT ![s] = FALSE]
  /\ copy' = [copy EXCEPT ![s] = IF proc[s] = "alive" THEN "copying" ELSE "done"]

CopyEnds(s) ==
  /\ CopyStep(s)
  /\ ~data[s] /\ eof[s]
  /\ copy' = [copy EXCEPT ![s] = "done"]
  /\ UNCHANGED data

\* A slip: the status is reported when the input ends, not when the process does.
WaitForInput(s) ==
  /\ at[s] = "running"
  /\ copy[s] = "done"
  /\ RunReturns(s, IF proc[s] = "failed" THEN "its code" ELSE "zero")

\* cmd.Wait returns when the process has exited AND its input is copied.  A
\* process that succeeded is reported with 1 when its output could not be
\* written to the channel: the error is then no ExitError.
WaitReturns(s) ==
  /\ at[s] = "running" /\ copy[s] = "done"
  /\ \/ proc[s] = "failed" /\ RunReturns(s, "its code")
     \/ proc[s] = "succeeded" /\ RunReturns(s, "zero")
     \/ proc[s] = "succeeded" /\ Deaf(s) /\ RunReturns(s, "one")

\* A slip: dispatchChannel does not close the channel.
StayOpen(s) == at[s] = "returning" /\ UNCHANGED vars

\* dispatchChannel: ch.Close().
CloseChannel(s) ==
  /\ at[s] = "returning"
  /\ at' = [at EXCEPT ![s] = "closed"]
  /\ UNCHANGED <<config, clientVars, muxVars, buffer, setup, run, owed, procVars, exitVars>>

-----------------------------------------------------------------------------
Client(s) == Open(s) \/ SendRequest(s) \/ SendData(s) \/ SendEof(s) \/ SendClose(s)

Mux ==
  \/ \E s \in Sessions : DeliverRequest(s) \/ DeliverData(s) \/ DeliverEof(s) \/ DeliverClose(s)
  \/ MuxEnds

Handler(s) ==
  \/ RefuseSetup(s) \/ GrantPty(s) \/ TakeEnv(s) \/ IgnoreControl(s) \/ RefuseOther(s)
  \/ RefuseStart(s) \/ StartProgram(s) \/ StartSubsystem(s) \/ RequestsEnd(s)
  \/ NothingToRun(s) \/ Spawn(s) \/ SpawnFails(s) \/ WaitReturns(s) \/ RunFailed(s)
  \/ CloseChannel(s)

Copier(s) == CopyData(s) \/ CopyEnds(s)

Next ==
  \/ \E s \in Sessions : Client(s) \/ Handler(s) \/ Copier(s)
  \/ \E s \in Sessions : InternalEnds(s) \/ InternalFails(s) \/ ProcessExits(s)
  \/ Mux
  \/ Disconnect

\* Every goroutine that can run does.  Nothing is assumed of the client, of
\* the programs and of registered subsystem handlers: they may go on for ever.
Fairness ==
  /\ WF_vars(Mux)
  /\ \A s \in Sessions : WF_vars(Handler(s)) /\ WF_vars(Copier(s))

Spec == Init /\ [][Next]_vars /\ Fairness

-----------------------------------------------------------------------------
(* Safety.                                                                 *)

\* How many requests in a sequence of them want a reply.
Wanting(rs) == Cardinality({i \in DOMAIN rs : rs[i].wantReply})

InHandWants(s) == IF InHand(s, "request") THEN Wants(inHand.request) ELSE 0

\* Every path through the switch answers a request exactly once: what is still
\* owed to the client is what HandleSession has not read yet, and it reads in
\* order.  (Clients do not ask for a reply to window-change and signal.)
EachAnsweredOnce ==
  \A s \in Sessions : owed[s] = Wanting(buffer[s]) + InHandWants(s)

\* The exit message tells the truth about what was started, however the
\* process, the copies of its input and output, the client's close and the loss
\* of the connection are interleaved: a code is the code of a process that is
\* gone; 1 for a process that succeeded (default_session.go:443) is only said
\* to a client that can no longer hear it; and a channel of a started program
\* closes without a message only when an internal subsystem failed.
ExitTellsTheTruth ==
  \A s \in Sessions :
    /\ report[s] = "zero" => proc[s] = "succeeded" \/ run[s] = "internal"
    /\ report[s] = "its code" => proc[s] = "failed"
    /\ report[s] = "127" => proc[s] = "none"
    /\ report[s] = "one" => proc[s] = "none" \/ (proc[s] = "succeeded" /\ Deaf(s))
    /\ at[s] = "closed" /\ report[s] = "none" => run[s] \in {"nothing", "internal"}

\* Each channel keeps to the protocol: one start, one exit message although
\* runProcess calls Exit again when the first call failed, the close last.
Protocol == INSTANCE SessionProtocol WITH
  phase <- [s \in Sessions |->
              IF at[s] = "closed" THEN "closed"
              ELSE IF report[s] # "none" THEN "exited"
              ELSE IF run[s] # "nothing" THEN "started" ELSE "setup"]
ImplementsProtocol == Protocol!Spec

-----------------------------------------------------------------------------
(* Liveness.                                                               *)

\* A channel whose HandleSession is in its request loop never holds up the
\* mux, and with it the other channels: only a channel that has started a
\* program, or is done, can.
ReaderNeverBlocks ==
  \A s \in Sessions :
    InHand(s, "request") /\ at[s] = "reading" ~> inHand = None \/ at[s] # "reading"

\* Nobody reads the requests of a channel that has started a program: when
\* the buffer is full the mux waits, for good.
MuxIsStuck ==
  \E s \in Sessions : /\ InHand(s, "request") /\ Len(buffer[s]) = BufCap
                      /\ at[s] # "reading"

\* After the connection is lost every session goroutine ends, unless a program
\* or a registered handler goes on, or the mux was stuck and never noticed.
LostSessionsEnd ==
  \A s \in Sessions :
    conn # "up" /\ at[s] # "none" ~>
      at[s] \in {"closed", "internal"} \/ proc[s] = "alive" \/ MuxIsStuck

\* ProcessLauncher.Run "returns when the process exits".
RunReturnsOnExit ==
  \A s \in Sessions :
    at[s] = "running" /\ proc[s] # "alive" ~> at[s] # "running"
=============================================================================
