------------------------------- MODULE MCKeys -------------------------------
(* Four invocations in every overlap, by plans in which they get in each     *)
(* other's way: at the files, at a path for two agents, and from one         *)
(* ssh-keygen to the last login.                                             *)
EXTENDS KeyUse, Sequences

MCProcs == 1 .. 4

Plan(tools) == [p \in MCProcs |-> IF p <= Len(tools) THEN tools[p] ELSE "none"]

AtTheFiles ==
  {<<a, b>> : a, b \in Writers}
    \cup {<<"changepass", "changecomment", "generate">>, <<"generate", "copyid", "changepass", "ssh">>}
    \cup {<<"copyid", a, "ssh">> : a \in Writers}
AtThePath ==
  {<<"daemon", a>> : a \in Agents} \cup {<<"foreground", "command">>, <<"daemon", "kill", "daemon">>}
    \cup {<<a, "kill">> : a \in Agents} \cup {<<"daemon", "foreground", "add">>}
Together ==
  {<<a, "add", "copyid">> : a \in Agents} \cup {<<"foreground", "add", "copyid", "ssh">>}
    \cup {<<"foreground", "add", a, b>> : a \in {"delete", "deleteall", "lock"}, b \in {"add", "unlock"}}

MCPlans == {Plan(tools) : tools \in AtTheFiles \cup AtThePath \cup Together}

MCPairs == {[priv |-> Missing, pub |-> Missing], [priv |-> Whole(1, TRUE), pub |-> Whole(1, FALSE)]}
=============================================================================
