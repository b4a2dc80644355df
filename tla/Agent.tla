------------------------------- MODULE Agent -------------------------------
(***************************************************************************)
(* ssh-agent: in the foreground, as a daemon, or around a command, on a    *)
(* socket in a directory of its own or at a path that -a gives.  A socket  *)
(* is a name in the file system: bind fails if the name is there, Close    *)
(* and Remove take away whatever has the name, and a process that is       *)
(* killed leaves it behind.  The keyring is x/crypto's, external.          *)
(***************************************************************************)
EXTENDS Tools

CONSTANT Given   \* the path that -a gives, to all of them

VARIABLES
  path,     \* the socket of each agent
  socket,   \* who bound the socket of each name: an agent, or nobody
  dir,      \* whether the agent's own directory is there
  serve,    \* the process that is to serve: for a daemon, its child
  signalled, \* a signal is pending for it
  told,     \* whether PrintEnv has told the user the socket and the pid
  code,     \* the exit code of the agent's command
  keyring, locked,
  conn      \* the agent that each client is connected to

agentVars == <<path, socket, dir, serve, signalled, told, code, keyring, locked, conn>>

Nobody == -1
Names == Procs \cup {Given}

ASSUME GivenAssumption == Given \in Nat \ Procs

\* The listener is open: of the process that serves, or of the parent of a daemon.
Listening(a) == serve[a] \in {"bound", "announced", "serving", "closing"} \/ at[a] = "bound"
Alive(a) == serve[a] \in {"starting", "bound", "announced", "serving", "closing", "closed"}

Dialed(name) == IF socket[name] # Nobody /\ Listening(socket[name]) THEN socket[name] ELSE Nobody

\* What SSH_AUTH_SOCK may be: what an agent has printed, or set for its command.
Known == {path[a] : a \in {b \in Procs : told[b] \/ (tool[b] = "command" /\ serve[b] = "serving")}}

HungUp(a) == [c \in Procs |-> IF conn[c] = a THEN Nobody ELSE conn[c]]

AgentInit ==
  /\ path = [a \in Procs |-> a]
  /\ socket = [n \in Names |-> Nobody]
  /\ dir = [a \in Procs |-> FALSE]
  /\ serve = [a \in Procs |-> "none"]
  /\ told = [a \in Procs |-> FALSE]
  /\ signalled = [a \in Procs |-> FALSE]
  /\ code = [a \in Procs |-> "none"]
  /\ keyring = [a \in Procs |-> {}]
  /\ locked = [a \in Procs |-> FALSE]
  /\ conn = [c \in Procs |-> Nobody]

ringVars == <<keyring, locked, conn>>

-----------------------------------------------------------------------------
(* Starting.                                                               *)

Serves(a, stage) == serve' = [serve EXCEPT ![a] = stage]

\* MkdirTemp unless -a, then Listen, which fail over a name that is there and for reasons
\* of the system's; what follows depends on the mode.
Listen(a) ==
  /\ Begins(a, Agents)
  /\ \E name \in {a, Given} :
       /\ path' = [path EXCEPT ![a] = name]
       /\ \/ /\ socket[name] = Nobody
             /\ socket' = [socket EXCEPT ![name] = a]
             /\ dir' = [dir EXCEPT ![a] = (name = a)]
             /\ IF tool[a] = "daemon" THEN BeginsAt(a, "bound") /\ UNCHANGED serve
                ELSE BeginsAt(a, "serving") /\ Serves(a, "bound")
          \/ /\ BeginsInVain(a, "1")
             /\ \E made \in {FALSE, name = a} : dir' = [dir EXCEPT ![a] = made]
             /\ UNCHANGED <<socket, serve>>
  /\ UNCHANGED <<signalled, told, code, ringVars>>

\* runDaemon: the listener is closed, and with it the name is gone.
CloseOwn(a) ==
  /\ at[a] = "bound"
  /\ Goes(a, "unbound")
  /\ socket' = [socket EXCEPT ![path[a]] = Nobody]
  /\ conn' = HungUp(a)
  /\ UNCHANGED <<signalled, spoiled, path, dir, serve, told, code, keyring, locked>>

Spawn(a) ==
  /\ at[a] = "unbound"
  /\ \/ Goes(a, "spawned") /\ Serves(a, "starting")
     \/ Exits(a, "1") /\ UNCHANGED serve
  /\ UNCHANGED <<signalled, spoiled, path, socket, dir, told, code, ringVars>>

TellAndUnlink(a) ==   \* as if the deferred Close of Run took the name away a second time
  /\ at[a] = "spawned"
  /\ Exits(a, "0")
  /\ told' = [told EXCEPT ![a] = TRUE]
  /\ socket' = [socket EXCEPT ![path[a]] = Nobody]
  /\ UNCHANGED <<signalled, spoiled, path, dir, serve, code, ringVars>>

\* The parent tells the user of its child, and is done, without waiting for it.
TellOfChild(a) ==
  /\ at[a] = "spawned"
  /\ Exits(a, "0")
  /\ told' = [told EXCEPT ![a] = TRUE]
  /\ UNCHANGED <<signalled, spoiled, path, socket, dir, serve, code, ringVars>>

\* The child is the same program with -D -a and the parent's path; its Listen may fail for
\* the same reasons, and nobody is told.
ChildListens(a) ==
  /\ serve[a] = "starting"
  /\ \/ /\ socket[path[a]] = Nobody
        /\ socket' = [socket EXCEPT ![path[a]] = a]
        /\ Serves(a, "bound")
     \/ Serves(a, "failed") /\ UNCHANGED socket
  /\ UNCHANGED <<signalled, toolVars, path, dir, told, code, ringVars>>

-----------------------------------------------------------------------------
(* Serving.                                                                *)

\* StartForeground prints before it asks for the signals.
Announce(a) ==
  /\ serve[a] = "bound" /\ tool[a] # "command"
  /\ Serves(a, "announced")
  /\ told' = [told EXCEPT ![a] = TRUE]
  /\ UNCHANGED <<signalled, toolVars, path, socket, dir, code, ringVars>>

Notify(a) ==
  /\ serve[a] = "announced"
  /\ Serves(a, "serving")
  /\ UNCHANGED <<signalled, toolVars, path, socket, dir, told, code, ringVars>>

RunCommand(a) ==
  /\ serve[a] = "bound" /\ tool[a] = "command"
  /\ \/ Serves(a, "serving") /\ UNCHANGED code
     \/ Serves(a, "closing") /\ code' = [code EXCEPT ![a] = "1"]
  /\ UNCHANGED <<signalled, toolVars, path, socket, dir, told, ringVars>>

CommandEnds(a) ==
  /\ serve[a] = "serving" /\ tool[a] = "command"
  /\ Serves(a, "closing")
  /\ \E x \in {"0", "1"} : code' = [code EXCEPT ![a] = x]
  /\ UNCHANGED <<signalled, toolVars, path, socket, dir, told, ringVars>>

-----------------------------------------------------------------------------
(* Ending.                                                                 *)

\* The process is gone: its keys and its connections with it.
Gone(a, stage, x) ==
  /\ Serves(a, stage)
  /\ keyring' = [keyring EXCEPT ![a] = {}]
  /\ locked' = [locked EXCEPT ![a] = FALSE]
  /\ conn' = HungUp(a)
  /\ IF at[a] = "serving" THEN Exits(a, x) ELSE UNCHANGED <<tool, at, exit, alone>>

\* A SIGTERM or SIGINT that is pending.  StartForeground has asked for them, from some
\* point on; nobody else has, and the process ends where it is.
Deliver(a) ==
  /\ signalled[a] /\ Alive(a)
  /\ signalled' = [signalled EXCEPT ![a] = FALSE]
  /\ IF tool[a] # "command" /\ serve[a] \in {"serving", "closing", "closed"}
     THEN /\ IF serve[a] = "serving" THEN Serves(a, "closing") ELSE UNCHANGED serve
          /\ UNCHANGED <<tool, at, exit, alone, ringVars>>
     ELSE Gone(a, "killed", "killed")
  /\ UNCHANGED <<spoiled, path, socket, dir, told, code>>

KillAgent(a) ==
  /\ Alive(a) /\ Gone(a, "killed", "killed")
  /\ UNCHANGED <<signalled, spoiled, path, socket, dir, told, code>>

KillParent(a) ==
  /\ tool[a] = "daemon" /\ Running(a)
  /\ Exits(a, "killed")
  /\ conn' = IF at[a] = "bound" THEN HungUp(a) ELSE conn
  /\ UNCHANGED <<signalled, spoiled, path, socket, dir, serve, told, code, keyring, locked>>

CloseListener(a) ==
  /\ serve[a] = "closing"
  /\ Serves(a, "closed")
  /\ socket' = [socket EXCEPT ![path[a]] = Nobody]
  /\ UNCHANGED <<signalled, toolVars, path, dir, told, code, ringVars>>

CleanUpSocket(a) ==   \* the directory that was made for the socket stays
  /\ serve[a] = "closed"
  /\ socket' = [socket EXCEPT ![path[a]] = Nobody]
  /\ Gone(a, "ended", IF tool[a] = "command" THEN code[a] ELSE "0")
  /\ UNCHANGED <<signalled, spoiled, path, dir, told, code>>

\* cleanupSocket removes by name once more, then the directory, and the process exits.
CleanUp(a) ==
  /\ serve[a] = "closed"
  /\ socket' = [socket EXCEPT ![path[a]] = Nobody]
  /\ dir' = [dir EXCEPT ![a] = FALSE]
  /\ Gone(a, "ended", IF tool[a] = "command" THEN code[a] ELSE "0")
  /\ UNCHANGED <<signalled, spoiled, path, told, code>>

\* From a terminal or the system.
Interrupt(a) ==
  /\ Alive(a) /\ ~signalled[a]
  /\ signalled' = [signalled EXCEPT ![a] = TRUE]
  /\ UNCHANGED <<toolVars, path, socket, dir, serve, told, code, ringVars>>

\* ssh-agent -k, with the SSH_AGENT_PID of an agent that the user was told of.
Kill(k) ==
  /\ Begins(k, {"kill"})
  /\ \E a \in {b \in Procs : told[b]} :
       IF Alive(a) THEN BeginsInVain(k, "0") /\ signalled' = [signalled EXCEPT ![a] = TRUE]
       ELSE BeginsInVain(k, "1") /\ UNCHANGED signalled
  /\ UNCHANGED <<path, socket, dir, serve, told, code, ringVars>>

AgentNext(a) ==
  \/ Listen(a) \/ CloseOwn(a) \/ Spawn(a) \/ TellOfChild(a) \/ ChildListens(a)
  \/ Announce(a) \/ Notify(a) \/ RunCommand(a) \/ CommandEnds(a)
  \/ Deliver(a) \/ KillAgent(a) \/ KillParent(a) \/ CloseListener(a) \/ CleanUp(a)
  \/ Interrupt(a) \/ Kill(a)

-----------------------------------------------------------------------------
Stages == {"none", "starting", "bound", "announced", "serving", "closing", "closed",
           "ended", "failed", "killed"}

AgentTypeOK(K) ==
  /\ path \in [Procs -> Names]
  /\ socket \in [Names -> Procs \cup {Nobody}]
  /\ dir \in [Procs -> BOOLEAN] /\ told \in [Procs -> BOOLEAN]
  /\ signalled \in [Procs -> BOOLEAN] /\ locked \in [Procs -> BOOLEAN]
  /\ serve \in [Procs -> Stages]
  /\ code \in [Procs -> {"none", "0", "1"}]
  /\ keyring \in [Procs -> SUBSET K]
  /\ conn \in [Procs -> Procs \cup {Nobody}]

\* run.go:42, start.go:36, utils.go:38-39: parent and child of a daemon bind one name, the
\* parent closes its listener before it starts the child and once more when it returns, and
\* agents that end remove their name twice.  An agent that listens still has its name, which
\* is all that its clients know of it, unless -a gave the name to another one that has ended.
AgentKeepsItsSocket ==
  \A a \in Procs : serve[a] \in {"bound", "announced", "serving"} =>
    \/ socket[path[a]] = a
    \/ \E b \in Procs \ {a} : path[b] = path[a] /\ serve[b] = "ended"

\* start.go:20-28, child.go:41-42, utils.go:38-44: an agent that is asked to end, or whose
\* command is over, ends and leaves neither socket nor directory, unless it is killed on
\* the way; whoever else binds and removes the same name meanwhile.
SocketsAreCleaned ==
  \A a \in Procs :
    (serve[a] = "closing" \/ (serve[a] = "serving" /\ signalled[a] /\ tool[a] # "command")) ~>
      \/ serve[a] = "killed"
      \/ serve[a] = "ended" /\ socket[path[a]] # a /\ ~dir[a]
=============================================================================
