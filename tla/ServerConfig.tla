---------------------------- MODULE ServerConfig ----------------------------
(***************************************************************************)
(* How sshd comes by its options: CLIArgs.Parse, Lookup.Resolve and        *)
(* applyDefaults of pkg/sshserver, run once, in one goroutine, before      *)
(* anything is listened to.  A boot has the flags that were typed and the  *)
(* entries that ParseFile made of the file (ConfigParser).  Keywords are   *)
(* classed by how they are applied; those that some component looks at     *)
(* are named, and one of each class stands for the others.  The text after *)
(* a keyword or a flag is the sequence of its words; a ListenAddress is    *)
(* the host and the port, which may be empty.                              *)
(***************************************************************************)
EXTENDS Integers, Sequences, SequencesExt

Nil == "nil"       \* Go's nil: a field that is not set
Invalid == "?"     \* a value its keyword cannot take

Directive(key, val) == [key |-> key, val |-> val]

-----------------------------------------------------------------------------
(* The command line.                                                       *)

\* Flags that stand for a directive.
FlagKeyword ==
  [p |-> "Port", g |-> "LoginGraceTime", h |-> "HostKey", c |-> "HostCertificate",
   q |-> "LogLevel", inet |-> "AddressFamily", inet6 |-> "AddressFamily"]  \* -4, -6
OtherFlags == {"o", "i", "t", "T", "G", "V", "D", "d", "e", "E", "f", "u", "C"}

FlagDirective(f) ==
  Directive(FlagKeyword[f.flag],
            CASE f.flag = "q" -> <<"QUIET">>
              [] f.flag \in {"inet", "inet6"} -> <<f.flag>>
              [] OTHER -> f.val)

\* Parse gives up over a flag it does not know and a -p or -u that is no number, Directives
\* over a -o without a keyword.
BadFlag(f) ==
  \/ f.flag \notin DOMAIN FlagKeyword \cup OtherFlags
  \/ f.flag \in {"p", "u"} /\ f.val = <<Invalid>>
  \/ f.flag = "o" /\ f.val = <<>>

Override(f) == Directive(Head(f.val), Tail(f.val))

Given(b, flags) == \E i \in DOMAIN b.flags : b.flags[i].flag \in flags

\* Directives: all the flags in their order, and after them all of -o, wherever it was typed.
CommandLine(b) ==
  LET flags == SelectSeq(b.flags, LAMBDA f : f.flag \in DOMAIN FlagKeyword)
      overrides == SelectSeq(b.flags, LAMBDA f : f.flag = "o")
  IN [i \in DOMAIN flags |-> FlagDirective(flags[i])] \o [i \in DOMAIN overrides |-> Override(overrides[i])]

Unconditional(dirs) == [i \in DOMAIN dirs |-> [conds |-> <<>>, dir |-> dirs[i]]]

AllEntries(b) == Unconditional(CommandLine(b)) \o b.file

-----------------------------------------------------------------------------
(* Match blocks, at boot: nobody has connected, and most names are empty.  *)
(* A pattern list is the set of names it matches, and of those its negated *)
(* patterns match.                                                         *)

\* buildMatchContext with the Lookup of cmd/sshd.
BootContext ==
  [field \in {"user", "host", "originalhost", "tagged", "command", "sessiontype", "rdomain",
              "address", "localaddress"} |-> ""]
    @@ [localuser |-> "root", localport |-> "0", version |-> "sshconf"]

InList(c, name) == name \in c.only /\ name \notin c.except

Holds(c) ==
  CASE c.field = "all" -> TRUE
    [] c.field \in {"exec", "group", "localnetwork"} -> c.negated  \* there are none
    [] c.field \in {"canonical", "final", "invalid-user"} -> FALSE
    [] OTHER -> InList(c, BootContext[c.field]) # c.negated

InForce(e) == \A i \in DOMAIN e.conds : Holds(e.conds[i])

-----------------------------------------------------------------------------
(* Options.                                                                *)

StringKeys == {"AddressFamily", "AllowTcpForwarding", "RefuseConnection", "LogLevel"}
BoolKeys == {"PasswordAuthentication", "PubkeyAuthentication", "KbdInteractiveAuthentication",
             "HostbasedAuthentication", "DisableForwarding"}
ScalarKeys == StringKeys \cup BoolKeys \cup {"LoginGraceTime", "MaxAuthTries", "IgnoreUnknown"}
LineKeys == {"ListenAddress", "HostKey", "HostCertificate"}
WordKeys == {"AllowUsers", "DenyUsers"}
ListKeys == LineKeys \cup WordKeys
StructuralKeys == {"Host", "Match", "Include"}  \* from -o: skipped
Aliases == [ChallengeResponseAuthentication |-> "KbdInteractiveAuthentication"]

Keywords == ScalarKeys \cup ListKeys \cup StructuralKeys \cup DOMAIN Aliases \cup {"Port", "Subsystem"}

Field(key) == IF key \in DOMAIN Aliases THEN Aliases[key] ELSE key

NoOptions ==
  [scalar |-> [k \in ScalarKeys |-> Nil], list |-> [k \in ListKeys |-> <<>>], ports |-> <<>>,
   subsystems |-> <<>>, ignored |-> {}, failed |-> FALSE]

\* ApplyDirective looks for the very keyword first, and for patterns only if it does not know it.
Ignores(o, d) == d.key \in o.ignored \/ (d.key \notin Keywords /\ "*" \in o.ignored)

Rejects(d) ==
  \/ d.key \notin Keywords
  \/ d.key = "Port" /\ d.val = <<Invalid>>
  \/ d.key = "Subsystem" /\ Len(d.val) < 2

\* ParseTimeSeconds takes anything: what is no digit and no unit counts for nothing.
Value(d) == IF d.key = "LoginGraceTime" /\ d.val = <<Invalid>> THEN "0" ELSE Head(d.val)

\* setBool and setInt pass over what they cannot read; setStr takes anything.
Unusable(d) ==
  \/ Field(d.key) \in BoolKeys /\ Value(d) \notin {"yes", "no"}
  \/ Field(d.key) = "MaxAuthTries" /\ Value(d) = Invalid

\* The first usable value wins.
SetScalar(o, d) ==
  IF o.scalar[Field(d.key)] # Nil \/ Unusable(d) THEN o
  ELSE [o EXCEPT !.scalar[Field(d.key)] = Value(d)]

Ignore(o, d) == [SetScalar(o, d) EXCEPT !.ignored = @ \cup {Value(d)}]

AppendLine(o, d) == [o EXCEPT !.list[d.key] = Append(@, d.val)]
AppendWords(o, d) == [o EXCEPT !.list[d.key] = @ \o d.val]

AddPort(o, d) ==
  IF Contains(o.ports, Value(d)) THEN o ELSE [o EXCEPT !.ports = Append(@, Value(d))]

AddSubsystem(o, d) ==
  IF \E i \in DOMAIN o.subsystems : Head(o.subsystems[i]) = Value(d) THEN o
  ELSE [o EXCEPT !.subsystems = Append(@, d.val)]

ApplyDirective(o, d) ==
  CASE d.key \in StructuralKeys   -> o
    [] d.key = "Port"             -> AddPort(o, d)
    [] d.key = "Subsystem"        -> AddSubsystem(o, d)
    [] d.key = "IgnoreUnknown"    -> Ignore(o, d)
    [] d.key \in LineKeys         -> AppendLine(o, d)
    [] d.key \in WordKeys         -> AppendWords(o, d)
    [] OTHER                      -> SetScalar(o, d)

\* The first error ends the loop.
ApplyEntry(o, e) ==
  IF o.failed \/ ~InForce(e) \/ Ignores(o, e.dir) THEN o
  ELSE IF Rejects(e.dir) THEN [o EXCEPT !.failed = TRUE]
  ELSE ApplyDirective(o, e.dir)

DefaultOf(k) ==
  CASE k = "AddressFamily" -> "any"
    [] k = "LogLevel" -> "INFO"
    [] k = "LoginGraceTime" -> "120"
    [] k = "MaxAuthTries" -> "6"
    [] k \in {"PasswordAuthentication", "PubkeyAuthentication", "KbdInteractiveAuthentication",
              "AllowTcpForwarding"} -> "yes"
    [] k \in {"HostbasedAuthentication", "DisableForwarding"} -> "no"
    [] OTHER -> Nil

WithDefaults(o) ==
  [o EXCEPT !.scalar = [k \in ScalarKeys |-> IF @[k] = Nil THEN DefaultOf(k) ELSE @[k]],
            !.ports = IF @ = <<>> THEN <<"22">> ELSE @,
            !.list["HostKey"] = IF @ = <<>> THEN <<<<"ed25519">>, <<"ecdsa">>, <<"rsa">>>> ELSE @]

\* Options after each entry.
Applied(es) ==
  LET after[i \in 0 .. Len(es)] == IF i = 0 THEN NoOptions ELSE ApplyEntry(after[i - 1], es[i])
  IN after

Resolve(b) ==
  LET es == AllEntries(b)
      applied == Applied(es)[Len(es)]
  IN IF applied.failed THEN applied ELSE WithDefaults(applied)

-----------------------------------------------------------------------------
(* What the rest of sshd makes of the options.                             *)

\* run gets as far as Listen, or serveInetd: it is not only asked for its version or a test.
Starts(b) ==
  /\ \A i \in DOMAIN b.flags : ~BadFlag(b.flags[i])
  /\ ~Given(b, {"V", "G", "T", "t"})
  /\ b.readable /\ ~Resolve(b).failed

Methods == {"publickey", "password", "keyboard-interactive", "hostbased"}
SwitchOf ==
  [m \in Methods |->
     CASE m = "publickey" -> "PubkeyAuthentication"
       [] m = "password" -> "PasswordAuthentication"
       [] m = "keyboard-interactive" -> "KbdInteractiveAuthentication"
       [] m = "hostbased" -> "HostbasedAuthentication"]

\* The options as Sshd looks at them, with the handlers that cmd/sshd installs.
ServedWith(b, clients) ==
  LET o == Resolve(b)
      Address(line) == [host |-> line[1], port |-> line[2]]
      Patterns(words) == {[user |-> w] : w \in ToSet(words)}
  IN
  [clients  |-> clients,
   inetd    |-> Given(b, {"i"}),
   grace    |-> o.scalar["LoginGraceTime"] # "0",
   listen   |-> [i \in DOMAIN o.list["ListenAddress"] |-> Address(o.list["ListenAddress"][i])],
   ports    |-> o.ports,
   enabled  |-> {m \in Methods : o.scalar[SwitchOf[m]] = "yes"},
   handlers |-> {"publickey", "password"},
   refuse   |-> o.scalar["RefuseConnection"] \notin {Nil, ""},
   deny     |-> Patterns(o.list["DenyUsers"]),
   allow    |-> Patterns(o.list["AllowUsers"]),
   disable  |-> o.scalar["DisableForwarding"] = "yes",
   tcp      |-> o.scalar["AllowTcpForwarding"]]
=============================================================================
