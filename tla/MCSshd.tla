------------------------------ MODULE MCSshd ------------------------------
(* One client, or two at once; alice may come in and mallory, who has a key   *)
(* too, is kept out by one rule or another.  Two addresses in two options:    *)
(* two ports, where one Serve loop may fail, and one address given twice.     *)
EXTENDS SshdAsWritten

MCWords == STRING \ {Nil}

MCAuthorizedKeys == [u \in Users |-> IF u = "nobody" THEN {} ELSE {u}]

\* Client 1 comes alone and asks for two things; client 3 is there to log in, or not,
\* while client 2 is served.
MCMaxAsked == <<2, 1, 0>>

Flag(name, val) == [flag |-> name, val |-> val]
With(conds, key, val) == [conds |-> conds, dir |-> Directive(key, val)]
Line(key, val) == With(<<>>, key, val)
Boot(flags, file) == [flags |-> flags, file |-> file, readable |-> TRUE]

InField(field, only, negated) == [field |-> field, only |-> only, except |-> {}, negated |-> negated]
ForMallory == InField("user", {"mallory"}, FALSE)
NotForRoot == InField("user", {"root"}, TRUE)
InGroup == InField("group", {"wheel"}, FALSE)

\* Boots, each with the clients that come, for the whole server.
OnlyAlice == Line("AllowUsers", <<"alice">>)
NotMallory == Line("DenyUsers", <<"mallory">>)

MCBoots == {
  <<Boot(<<>>, <<OnlyAlice>>), {2, 3}>>,
  <<Boot(<<Flag("p", <<"22">>)>>,
         <<Line("Port", <<"23">>), Line("Port", <<"22">>), NotMallory,
           Line("AllowTcpForwarding", <<"local">>), Line("AllowTcpForwarding", <<"yes">>)>>), {1}>>,
  <<Boot(<<Flag("o", <<"ListenAddress", "a", "">>)>>,
         <<OnlyAlice, Line("ListenAddress", <<"a", "22">>)>>), {1}>>,
  <<Boot(<<Flag("g", <<Invalid>>), Flag("o", <<"AllowTcpForwarding", "remote">>)>>,
         <<Line("LoginGraceTime", <<"60">>), Line("AllowUsers", <<"*">>),
           With(<<NotForRoot>>, "DenyUsers", <<"mallory">>)>>), {1}>>,
  <<Boot(<<Flag("i", <<>>)>>, <<OnlyAlice, Line("DisableForwarding", <<"yes">>)>>), {1}>>,
  <<Boot(<<>>, <<Line("RefuseConnection", <<"later">>)>>), {1}>>,
  <<Boot(<<Flag("V", <<>>)>>, <<OnlyAlice>>), {1, 2}>>,
  <<Boot(<<>>, <<OnlyAlice, Line("Foo", <<"x">>)>>), {1, 2}>>,
  <<Boot(<<Flag("o", <<"PubkeyAuthentication", "no">>)>>,
         <<Line("PubkeyAuthentication", <<"yes">>), Line("PasswordAuthentication", <<Invalid>>),
           Line("PasswordAuthentication", <<"no">>), Line("HostbasedAuthentication", <<"yes">>),
           Line("AllowTcpForwarding", <<"no">>)>>), {1}>>}

MCConfigs == {ServedWith(b[1], b[2]) : b \in {x \in MCBoots : Starts(x[1])}}

-----------------------------------------------------------------------------
(* Boots of every kind of entry in every order, for Resolve alone.          *)

Entries ==
  {Line(x[1], Tail(x)) : x \in {
     <<"Port", "22">>, <<"Port", Invalid>>, <<"PubkeyAuthentication", "no">>,
     <<"PubkeyAuthentication", Invalid>>, <<"PubkeyAuthentication", "yes">>,
     <<"ChallengeResponseAuthentication", "no">>, <<"KbdInteractiveAuthentication", "yes">>,
     <<"LoginGraceTime", Invalid>>, <<"LoginGraceTime", "60">>, <<"Foo", "x">>,
     <<"IgnoreUnknown", "*">>, <<"IgnoreUnknown", "Port">>, <<"DenyUsers", "mallory">>,
     <<"DenyUsers", "eve">>, <<"Subsystem", "sftp", "a">>, <<"Subsystem", "sftp", "b">>,
     <<"Subsystem", "sftp">>}}
    \cup {With(<<ForMallory>>, "Foo", <<"x">>), With(<<InGroup>>, "Port", <<"2222">>),
          With(<<NotForRoot, InField("all", {}, FALSE)>>, "AllowUsers", <<"alice", "bob">>)}

CommandLines ==
  {<<>>,
   <<Flag("o", <<"PubkeyAuthentication", "yes">>), Flag("g", <<"30">>), Flag("p", <<"22">>),
     Flag("p", <<"23">>)>>,
   <<Flag("inet", <<>>), Flag("o", <<"Match", "x">>), Flag("o", <<"LoginGraceTime", "0">>),
     Flag("q", <<>>)>>}

Orderings == {Boot(flags, file) : flags \in CommandLines, file \in UNION {[1 .. n -> Entries] : n \in 0 .. 3}}

At(s, indices) == LET order == SetToSortSeq(indices, <) IN [n \in DOMAIN order |-> s[order[n]]]

\* The directives of a keyword, in order.
Written(es, key) ==
  LET mine == At(es, {i \in DOMAIN es : Counts(es, i) /\ es[i].dir.key = key})
  IN [n \in DOMAIN mine |-> mine[n].dir]

Values(dirs) == [n \in DOMAIN dirs |-> Value(dirs[n])]
Texts(dirs) == [n \in DOMAIN dirs |-> dirs[n].val]

FirstOnes(dirs) ==
  At(dirs, {n \in DOMAIN dirs : \A m \in 1 .. n - 1 : Value(dirs[m]) # Value(dirs[n])})

OrElse(values, default) == IF values = <<>> THEN default ELSE values

\* resolve.go:55-60, apply.go:12-13: what the options say is what is written, read as a
\* whole.  sshd starts unless an entry that counts is malformed; an option has the first
\* value its keyword can take, from the command line or then the file, or else its default;
\* a list has all that is written for it, and each port and subsystem is there once.
ASSUME OptionsAsWritten ==
  \A b \in Orderings :
    LET es == AllEntries(b)
        o  == Resolve(b)
    IN /\ o.failed = Malformed(es)
       /\ ~o.failed =>
            /\ \A k \in ScalarKeys : o.scalar[k] = Setting(es, k)
            /\ \A k \in WordKeys : o.list[k] = FlattenSeq(Texts(Written(es, k)))
            /\ o.ports = OrElse(Values(FirstOnes(Written(es, "Port"))), <<"22">>)
            /\ o.subsystems = Texts(FirstOnes(Written(es, "Subsystem")))

=============================================================================
