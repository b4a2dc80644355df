------------------------------ MODULE MCConfig ------------------------------
(* Small configurations from two pools: one of files that include each      *)
(* other, one of directives and blocks that get in each other's way.        *)
EXTENDS ConfigResolve, PatternReference

MCWords == STRING
MCFiles == 1 .. 3   \* 1 is the system's file, 2 the user's

InField(field, only, negated) == [field |-> field, only |-> only, except |-> {}, negated |-> negated]
HostLine(only, except) == [field |-> "host", only |-> only, except |-> except, negated |-> FALSE]
Flag(field) == [field |-> field]

Alias  == HostLine({"alias", "canon"}, {"canon"})
Canon  == HostLine({"canon"}, {})
Other  == HostLine({"other"}, {})
Tagged == InField("tagged", {"t"}, FALSE)
NotRoot == InField("user", {"root"}, TRUE)

MCConditions == {Alias, Canon, Other, Tagged, NotRoot, Flag("all"), Flag("canonical"), Flag("final"), Flag("exec")}

Dir(key, val) == [key |-> key, val |-> val]
EnvDir(val, removes) == [key |-> "SendEnv", val |-> val, removes |-> removes]

MCDirectives ==
  {Dir("Compression", v) : v \in {"cli", "user", "system", "extra"}}
    \cup {Dir("HostName", "real"), Dir("User", "bob"), Dir("Port", "2200"), Dir("Port", Invalid),
          Dir("Tag", "t"), Dir("CanonicalizeHostname", "yes"), Dir("CanonicalDomains", "d"),
          Dir("ClearAllForwardings", "yes"), Dir("RefuseConnection", "no"),
          Dir("IgnoreUnknown", "*"), Dir("IgnoreUnknown", "Compression"), Dir("Foo", "foo"),
          Dir("LocalForward", "80"), Dir("LocalForward", Invalid),
          Dir("IdentityFile", "id"), Dir("IdentityFile", "none"),
          EnvDir("LANG", {}), EnvDir("-LANG", {"LANG"})}
    \cup {Dir("Compression", "yes"), Dir("Port", "2222")}  \* from flags

Block(conds) == [kind |-> "block", conds |-> conds]
Option(d) == [kind |-> "option", dir |-> d]
Include(paths) == [kind |-> "include", paths |-> paths]
Text(lines) == [kind |-> "text", lines |-> lines]
NoText(kind) == [kind |-> kind]

Texts(pool, most) == {Text(lines) : lines \in BoundedSeq(pool, most)}

\* Files that include each other, and themselves.
IncludingTrees ==
  {<<system, user, extra>> :
     system \in {Text(<<>>), NoText("directory"), NoText("dangling"),
                 Text(<<Include(<<{3}>>), Option(Dir("Compression", "system"))>>)},
     user \in Texts({Block(<<Alias>>), Block(<<>>), Option(Dir("Compression", "user")), [kind |-> "bad"],
                     Include(<<{3}>>), Include(<<{1, 3}, {2}>>)}, 2),
     extra \in Texts({Block(<<Other>>), Option(Dir("Compression", "extra")), Include(<<{1, 2}>>)}, 2)
                \cup {NoText(k) : k \in {"unreadable", "directory", "dangling"}}}

\* One system file for a host with a canonical name, and every user file of three lines.
SystemText ==
  Text(<<Option(Dir("CanonicalDomains", "d")), Block(<<Canon>>), Option(Dir("LocalForward", "80")),
         Block(<<Flag("all")>>), Option(Dir("Compression", "system")), Option(EnvDir("LANG", {})),
         Option(Dir("IdentityFile", "id")), Option(Dir("Port", "2200"))>>)

UserLines ==
  {Block(<<Alias>>), Block(<<NotRoot, Tagged>>), Block(<<Flag("final")>>), Block(<<Flag("exec")>>)}
    \cup {Option(d) : d \in MCDirectives \
            ({Dir("Compression", v) : v \in {"cli", "system", "extra", "yes"}}
              \cup {Dir("CanonicalDomains", "d"), Dir("IdentityFile", "id"), Dir("Port", "2200"), Dir("Port", "2222"),
                    EnvDir("LANG", {})})}

ResolvingTrees ==
  {<<SystemText, user, NoText("dangling")>> : user \in {Text(lines) : lines \in [1 .. 3 -> UserLines]}}

\* One forward.
OneForward == {<<Text(<<Option(Dir("LocalForward", "80"))>>), Text(<<>>), Text(<<>>)>>}

MCTrees == IncludingTrees \cup ResolvingTrees

\* ssh alias, and ssh -vCp2200 -p 2222 -l bob -oCanonicalizeHostname=yes -P t
\* -o Compression=cli root@alias -p 23, where the words after the destination are the command.
Flags(letters, last, behind) == Cluster(letters, last, behind, "-")
UserAt(user, host) == Word([user |-> user, host |-> host])

MCCommandLines ==
  {<<UserAt(None, "alias")>>,
   <<Flags(<<"v", "C">>, "p", <<"2200">>), Flags(<<>>, "p", <<>>), Word("2222"), Flags(<<>>, "l", <<>>), Word("bob"),
     Flags(<<>>, "o", <<Dir("CanonicalizeHostname", "yes")>>), Flags(<<>>, "P", <<"t">>),
     Flags(<<>>, "o", <<>>), Word(Dir("Compression", "cli")), UserAt("root", "alias"), Word("-p"), Word("23")>>}

\* cmd/ssh fills in the Lookup.
LookupOf(a) ==
  [host |-> Destination(a).host, user |-> LookupUser(a), port |-> a.field["p"], tag |-> a.field["P"],
   canonicalizer |-> FALSE, cli |-> CommandLineDirectives(a)]

MCLookups == {LookupOf(a) : a \in {b \in {Parse(args) : args \in MCCommandLines} : Resolves(b)}}

=============================================================================
