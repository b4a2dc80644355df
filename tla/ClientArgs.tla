----------------------------- MODULE ClientArgs -----------------------------
(***************************************************************************)
(* The command line of ssh: CLIArgs.Parse of pkg/sshclient, as cmd/ssh     *)
(* calls it, and what run makes of the outcome for Lookup.Resolve.         *)
(*                                                                         *)
(* An argument is a word, "--", or a cluster of flags: letters without a   *)
(* value, and perhaps a last one that is no such letter, with the rest of  *)
(* the argument behind it.  "text" is the whole of an argument, because a  *)
(* flag may take any argument for its value.                               *)
(***************************************************************************)
EXTENDS Naturals, Sequences, FiniteSets, SequencesExt

Unset == ""   \* Go's empty string

Word(text) == [kind |-> "word", text |-> text]
EndOfFlags == [kind |-> "end", text |-> "--"]
Cluster(letters, last, behind, text) ==
  [kind |-> "flags", letters |-> letters, last |-> last, behind |-> behind, text |-> text]

CliDirective(key, val) == [key |-> key, val |-> val]

\* Letters that are one Boolean directive, and those that are something else.
YesNo ==
  [A |-> <<"ForwardAgent", "yes">>, a |-> <<"ForwardAgent", "no">>, C |-> <<"Compression", "yes">>,
   g |-> <<"GatewayPorts", "yes">>, k |-> <<"GSSAPIDelegateCredentials", "no">>,
   M |-> <<"ControlMaster", "yes">>, N |-> <<"SessionType", "none">>, n |-> <<"StdinNull", "yes">>,
   s |-> <<"SessionType", "subsystem">>, X |-> <<"ForwardX11", "yes">>, x |-> <<"ForwardX11", "no">>,
   inet |-> <<"AddressFamily", "inet">>, inet6 |-> <<"AddressFamily", "inet6">>]  \* -4, -6
Twofold ==
  [K |-> <<<<"GSSAPIAuthentication", "yes">>, <<"GSSAPIDelegateCredentials", "yes">>>>,
   Y |-> <<<<"ForwardX11", "yes">>, <<"ForwardX11Trusted", "yes">>>>,
   f |-> <<<<"StdinNull", "yes">>, <<"ForkAfterAuthentication", "yes">>>>]
OwnFields == {"T", "t", "G", "V", "y", "q", "v"}
Letters == DOMAIN YesNo \cup DOMAIN Twofold \cup OwnFields

\* Letters with a value: a directive, a field, or both.
ValueKeyword ==
  [B |-> "BindInterface", b |-> "BindAddress", c |-> "Ciphers", D |-> "DynamicForward",
   e |-> "EscapeChar", I |-> "PKCS11Provider", i |-> "IdentityFile", J |-> "ProxyJump",
   L |-> "LocalForward", m |-> "MACs", p |-> "Port", R |-> "RemoteForward", S |-> "ControlPath",
   w |-> "TunnelDevice"]
Fields == {"l", "p", "P", "I", "O", "Q", "W", "E", "F"}
ValueLetters == DOMAIN ValueKeyword \cup Fields \cup {"o"}

\* bind:port:host:hostport becomes bind:port host:hostport.  A specification is its parts
\* between colons, of which a bind in brackets is one; a target in brackets is left out.
convertForwardSpec(spec) ==
  LET n == Len(spec.parts)
      bind == n - 2
  IN IF n = 4 \/ (n = 3 /\ ~spec.bracketed)
     THEN [listen |-> SubSeq(spec.parts, 1, bind), target |-> SubSeq(spec.parts, bind + 1, n)]
     ELSE [listen |-> spec.parts, target |-> <<>>]

LetterDirectives(c) ==
  IF c \in DOMAIN YesNo THEN <<CliDirective(YesNo[c][1], YesNo[c][2])>>
  ELSE IF c \in DOMAIN Twofold
  THEN [i \in 1 .. 2 |-> CliDirective(Twofold[c][i][1], Twofold[c][i][2])]
  ELSE <<>>

ValueDirectives(c, val) ==
  CASE c = "w" -> <<CliDirective("Tunnel", "yes"), CliDirective("TunnelDevice", val)>>
    [] c \in {"L", "R"} -> <<CliDirective(ValueKeyword[c], convertForwardSpec(val))>>
    [] c \in DOMAIN ValueKeyword \ {"L", "R", "w"} -> <<CliDirective(ValueKeyword[c], val)>>
    [] OTHER -> <<>>

-----------------------------------------------------------------------------
(* Parse.  "needs" is the letter whose value is the next argument.         *)

Nothing ==
  [directives |-> <<>>, options |-> <<>>, letters |-> <<>>, field |-> [c \in Fields |-> Unset],
   positional |-> <<>>, needs |-> Unset, ended |-> FALSE, failed |-> FALSE]

TakeLetter(a, c) ==
  [a EXCEPT !.directives = @ \o LetterDirectives(c), !.letters = Append(@, c)]

\* The last value of a field stands; directives and -o are kept in their order.
TakeValue(a, c, val) ==
  [a EXCEPT !.directives = @ \o ValueDirectives(c, val),
            !.options = IF c = "o" THEN Append(@, val) ELSE @,
            !.field = IF c \in Fields THEN [@ EXCEPT ![c] = val] ELSE @,
            !.needs = Unset]

TakeCluster(a, arg) ==
  LET b == FoldLeft(TakeLetter, a, arg.letters)
  IN CASE arg.last = Unset -> b
       [] arg.last \in ValueLetters /\ arg.behind # <<>> -> TakeValue(b, arg.last, arg.behind[1])
       [] arg.last \in ValueLetters /\ arg.behind = <<>> -> [b EXCEPT !.needs = arg.last]
       [] OTHER -> [b EXCEPT !.failed = TRUE]

TakeArgument(a, arg) ==
  CASE a.failed -> a
    [] ~a.failed /\ a.needs # Unset -> TakeValue(a, a.needs, arg.text)
    [] ~a.failed /\ a.needs = Unset /\ (a.ended \/ arg.kind = "word") ->
         [a EXCEPT !.positional = Append(@, arg.text), !.ended = TRUE]
    [] ~a.failed /\ a.needs = Unset /\ ~a.ended /\ arg.kind = "end" -> [a EXCEPT !.ended = TRUE]
    [] OTHER -> TakeCluster(a, arg)

\* The one outcome, as the member of a set, which TLC computes once for each argument.
Parse(args) ==
  LET Take(outcome, arg) == {TakeArgument(a, arg) : a \in outcome}
  IN CHOOSE a \in {[b EXCEPT !.failed = @ \/ b.needs # Unset] : b \in FoldLeft(Take, {Nothing}, args)} : TRUE

\* The first positional argument, and the others (ModeOptionsHostCommand).  A
\* destination is its user, which may be empty, and its host.
Destination(a) == a.positional[1]
Command(a) == Tail(a.positional)

Typed(a, c) == Cardinality({i \in DOMAIN a.letters : a.letters[i] = c})

-----------------------------------------------------------------------------
(* What run asks Resolve for.  A -o is the directive it says, or nothing.  *)

BadOption == CliDirective(Unset, Unset)
BadPort == "?"

\* run goes on to Resolve.
Resolves(a) ==
  /\ ~a.failed /\ Typed(a, "V") = 0 /\ a.field["Q"] = Unset
  /\ a.positional # <<>>
  /\ BadOption \notin ToSet(a.options)
  /\ a.field["p"] # BadPort

\* Flags go before -o, wherever they were typed.
CommandLineDirectives(a) == a.directives \o a.options

LookupUser(a) == IF Destination(a).user # Unset THEN Destination(a).user ELSE a.field["l"]
=============================================================================
