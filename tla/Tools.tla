------------------------------- MODULE Tools -------------------------------
(***************************************************************************)
(* The small programs, as a person starts them: a plan gives the tool of   *)
(* each invocation, and an invocation may begin before the ones ahead of   *)
(* it have ended.  Each runs by itself; they meet in the key files, at the *)
(* sockets of the agents, and on the server.                               *)
(***************************************************************************)
EXTENDS Integers

CONSTANTS
  Procs,   \* invocations, numbered in the order in which they begin
  Plans    \* which tool each of them is, as functions

Writers  == {"generate", "changepass", "changecomment"}
Agents   == {"foreground", "daemon", "command"}
Adders   == {"add", "delete", "deleteall", "lock", "unlock"}
AllTools == Writers \cup Agents \cup Adders \cup {"kill", "copyid", "ssh", "none"}

ASSUME ProcsAssumption == Procs \subseteq Nat
ASSUME PlansAssumption == Plans \subseteq [Procs -> AllTools]

VARIABLES
  tool,    \* the plan
  at,      \* where each invocation is
  exit,    \* its exit code, as far as it matters
  alone,   \* history: no ssh-keygen that writes was at work beside it
  spoiled  \* history: a write failed and it was said, or was cut off, or two wrote at once

toolVars == <<tool, at, exit, alone, spoiled>>

Running(p) == at[p] \notin {"waiting", "ended"}
AtWork(p)  == tool[p] \in Writers /\ Running(p)

Goes(p, place) == at' = [at EXCEPT ![p] = place] /\ UNCHANGED <<tool, exit, alone>>
Exits(p, code) == /\ at' = [at EXCEPT ![p] = "ended"]
                  /\ exit' = [exit EXCEPT ![p] = code]
                  /\ UNCHANGED <<tool, alone>>

\* An invocation of one of the tools begins, in its turn.
Begins(p, tools) ==
  /\ at[p] = "waiting" /\ tool[p] \in tools
  /\ \A q \in Procs : q < p => at[q] # "waiting"

\* What beginning does to the histories; a writer disturbs all that is running.
Beside(p) == \E q \in Procs \ {p} : AtWork(q)
Disturbs(p) ==
  /\ alone' = [q \in Procs |-> IF q = p THEN ~Beside(p)
                               ELSE alone[q] /\ ~(tool[p] \in Writers /\ Running(q))]
  /\ spoiled' = (spoiled \/ (tool[p] \in Writers /\ Beside(p)))

BeginsAt(p, place) == /\ at' = [at EXCEPT ![p] = place]
                      /\ Disturbs(p)
                      /\ UNCHANGED <<tool, exit>>
BeginsInVain(p, code) == /\ at' = [at EXCEPT ![p] = "ended"]
                         /\ exit' = [exit EXCEPT ![p] = code]
                         /\ Disturbs(p)
                         /\ UNCHANGED tool

ToolsInit ==
  /\ tool \in Plans
  /\ at = [p \in Procs |-> "waiting"]
  /\ exit = [p \in Procs |-> "none"]
  /\ alone = [p \in Procs |-> TRUE]
  /\ spoiled = FALSE
=============================================================================
