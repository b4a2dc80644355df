--------------------------- MODULE MCSshClient ---------------------------
(* Ways to run ssh, as they are typed: interactively, with everything that    *)
(* can be entered; with commands, with and without a pty; -N, -W; forwardings *)
(* that may fail; and host keys that are known, changed, new, revoked.        *)
EXTENDS SshClient, ClientArgs

Base == [revoked |-> "unset", localhost |-> FALSE, known |-> "same", strict |-> "ask",
         forwards |-> <<>>, exitOnFailure |-> FALSE, localCommand |-> FALSE,
         stdio |-> FALSE, noSession |-> FALSE, hasCommand |-> FALSE,
         noTTY |-> FALSE, ttyCount |-> 0, requestTTY |-> "auto", isTerminal |-> TRUE,
         forwardAgent |-> FALSE, escape |-> TRUE, stdinNull |-> FALSE]

\* The options that Resolve finds without any file (FirstMatchWins of ConfigResolve), and
\* the arguments that main looks at itself.
ConfigOf(a) ==
  LET Of(key) == SelectSeq(CommandLineDirectives(a), LAMBDA d : d.key = key)
      First(key, default) == IF Of(key) = <<>> THEN default ELSE Of(key)[1].val
      Listeners(key, kind) == [i \in DOMAIN Of(key) |-> kind]
  IN [Base EXCEPT
       !.forwards = Listeners("LocalForward", "local") \o Listeners("RemoteForward", "remote")
                      \o Listeners("DynamicForward", "dynamic"),
       !.exitOnFailure = First("ExitOnForwardFailure", "no") = "yes",
       !.localCommand = First("PermitLocalCommand", "no") = "yes",
       !.stdio = a.field["W"] # Unset,
       !.noSession = First("SessionType", "default") = "none",
       !.hasCommand = Command(a) # <<>>,
       !.noTTY = Typed(a, "T") > 0,
       !.ttyCount = Typed(a, "t"),
       !.requestTTY = First("RequestTTY", "auto"),
       !.forwardAgent = First("ForwardAgent", "no") = "yes",
       !.escape = First("EscapeChar", "~") # "none",
       !.stdinNull = First("StdinNull", "no") = "yes"]

\* The one configuration of a command line.
Configured(args) == {ConfigOf(a) : a \in {Parse(args)}}

Host == Word([user |-> Unset, host |-> "host"])
Flags(letters) == Cluster(letters, Unset, <<>>, "-")
Flag(letters, last, val) == Cluster(letters, last, <<val>>, "-")
Opt(key, val) == Flag(<<>>, "o", CliDirective(key, val))
Spec4 == [parts |-> <<"[::1]", "80", "web", "80">>, bracketed |-> TRUE]
Spec3 == [parts |-> <<"80", "web", "80">>, bracketed |-> FALSE]

\* ssh host; ssh host cmd; ssh -TAa -o RequestTTY=yes host; ssh -tnt host cmd; ssh -Ate none host
Interactive == Configured(<<Host>>)
OneCommand == Configured(<<Host, Word("cmd")>>)
Sessions ==
  Interactive \cup OneCommand
    \cup {[c EXCEPT !.isTerminal = FALSE] : c \in OneCommand}
    \cup Configured(<<Flags(<<"T", "A", "a">>), Opt("RequestTTY", "yes"), Host>>)
    \cup Configured(<<Flags(<<"t", "n", "t">>), Host, Word("cmd")>>)
    \cup Configured(<<Cluster(<<"A", "t">>, "e", <<>>, "-"), Word("none"), Host>>)

\* -L -R -D, as flags and as -o, with more.
Listening == <<Flag(<<>>, "D", "1080"), Flag(<<>>, "L", Spec4), Flag(<<>>, "R", Spec3)>>

Forwardings ==
  Configured(Listening \o <<Opt("ExitOnForwardFailure", "yes"), Flags(<<"n">>), Host>>)
    \cup Configured(Listening \o <<Opt("PermitLocalCommand", "yes"), Flags(<<"N">>), Host>>)
    \cup Configured(<<Opt("ExitOnForwardFailure", "yes"), Flag(<<>>, "W", "web:80")>> \o Listening \o <<Host>>)

Quiet == Configured(<<Flags(<<"n">>), Host>>)

HostKeys ==
  {[c EXCEPT !.known = k, !.strict = s] :
     c \in Quiet, k \in {"changed", "unknown", "nofiles"}, s \in {"yes", "ask", "accept-new", "no"}}
  \cup {[c EXCEPT !.revoked = r, !.localhost = l] :
          c \in Quiet, r \in {"unreadable", "listed", "without"}, l \in BOOLEAN}

MCConfigs == Sessions \cup Forwardings \cup HostKeys

\* The configurations meant by the comments above are those that are read.
ASSUME CommandLinesAreRead ==
  /\ Interactive = {Base}
  /\ Cardinality(Sessions) = 6 /\ Cardinality(Forwardings) = 3
  /\ \A c \in Forwardings : c.forwards = <<"local", "remote", "dynamic">>
=============================================================================
