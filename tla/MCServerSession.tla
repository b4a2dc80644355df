-------------------------- MODULE MCServerSession --------------------------
(* One mux and two channels: every branch of HandleSession, with a buffer of *)
(* one request instead of sixteen.                                           *)
EXTENDS ServerSession

MCEnvNames == {"TERM", "SECRET"}

Plain(type, want) == [type |-> type, parses |-> TRUE, wantReply |-> want]
Broken(type)      == [type |-> type, parses |-> FALSE, wantReply |-> TRUE]
Env(name)         == [type |-> "env", parses |-> TRUE, wantReply |-> FALSE, name |-> name]
Sub(name)         == [type |-> "subsystem", parses |-> TRUE, wantReply |-> TRUE, name |-> name]

MCRequests ==
  {Plain("pty-req", TRUE), Plain("exec", TRUE), Plain("signal", FALSE),
   Plain("other", FALSE), Broken("exec"), Env("SECRET")}
    \cup {Sub(n) : n \in {"internal", "command", "empty", "unknown"}}

MCConfigs ==
  {[launcher |-> TRUE,  permitTTY |-> FALSE, forced |-> TRUE,  acceptEnv |-> {"SECRET"}],
   [launcher |-> FALSE, permitTTY |-> TRUE,  forced |-> FALSE, acceptEnv |-> {}]}
=============================================================================
