-------------------------- MODULE SessionProtocol --------------------------
(* What a client may count on for each of its session channels (RFC 4254    *)
(* section 6): at most one program is started, at most one exit message is  *)
(* sent and only for a started program, and the close comes last.           *)
EXTENDS Naturals

CONSTANT Sessions

VARIABLES
  phase,  \* how far each channel is
  exits   \* how many exit messages it was given

Init == /\ phase = [s \in Sessions |-> "setup"]
        /\ exits = [s \in Sessions |-> 0]

Move(s, from, to) == phase[s] \in from /\ phase' = [phase EXCEPT ![s] = to]

Start(s) == Move(s, {"setup"}, "started") /\ UNCHANGED exits
Exit(s)  == /\ Move(s, {"started"}, "exited")
            /\ exits' = [exits EXCEPT ![s] = @ + 1]
\* Without an exit message: nothing was started, or the program failed.
Close(s) == Move(s, {"setup", "started", "exited"}, "closed") /\ UNCHANGED exits

Next == \E s \in Sessions : Start(s) \/ Exit(s) \/ Close(s)

Spec == Init /\ [][Next]_<<phase, exits>>
=============================================================================
