--------------------------- MODULE ConfigResolve ---------------------------
(***************************************************************************)
(* Lookup.Resolve of pkg/sshclient: the command line and the two files are *)
(* concatenated and applied in up to three passes, each into a fresh set   *)
(* of options that is merged into the result.  What tells directives apart *)
(* is how they are applied: PlainKeys stand for every first-value-wins     *)
(* keyword that nothing else depends on.                                   *)
(***************************************************************************)
EXTENDS FlatReading

CONSTANTS
  Lookups,        \* what the command line asks for
  UserFile,       \* ~/.ssh/config
  SystemFile,     \* /etc/ssh/ssh_config
  PlainKeys,      \* other first-value-wins keywords
  CanonicalName,  \* what DNS makes of the host name
  LocalUser,      \* the user who runs ssh
  Words           \* every name and value, as text

None == ""         \* Go's empty string, and its nil where a pointer is unset
Invalid == "?"     \* a value its keyword cannot take

ActiveKeys == {"User", "HostName", "Port", "Tag", "CanonicalizeHostname",
               "CanonicalDomains", "ClearAllForwardings", "RefuseConnection"}
ScalarKeys == ActiveKeys \cup PlainKeys \cup {"IgnoreUnknown"}
ListKeys == {"LocalForward", "IdentityFile", "SendEnv"}
Passes == {"first", "canonical", "final"}

ASSUME PlainKeysAssumption == PlainKeys \cap (ActiveKeys \cup ListKeys \cup {"IgnoreUnknown"}) = {}

ASSUME SourcesAssumption == UserFile \in Files /\ SystemFile \in Files
ASSUME WordsAssumption ==
  {None, "22", "no", "default", CanonicalName, LocalUser} \subseteq Words
ASSUME DirectivesAssumption == \A d \in Directives : d.val \in Words \ {None}
ASSUME LookupsAssumption ==
  Lookups \subseteq [host : Words, user : Words, port : Words, tag : Words,
                     canonicalizer : BOOLEAN, cli : Seq(Directives)]

VARIABLES
  lookup,   \* chosen at the start
  phase,    \* user, system (parsing), a pass, done or failed
  entries,  \* allEntries
  context,  \* matchCtx
  opts,     \* the result
  fresh,    \* canonOpts or finalOpts
  outcome   \* what became of each entry in each pass: the loops' index, and history

resolveVars == <<lookup, phase, entries, context, opts, fresh, outcome>>
vars == <<parserVars, resolveVars>>

NoOptions ==
  [scalar |-> [k \in ScalarKeys |-> None], list |-> [k \in ListKeys |-> <<>>], ignored |-> {}]

Unconditional(dirs) == [i \in DOMAIN dirs |-> [conds |-> <<>>, dir |-> dirs[i]]]

Init ==
  /\ ParserInit
  /\ lookup \in Lookups
  /\ phase = "user"
  /\ entries = Unconditional(lookup.cli)
  /\ context = [host |-> lookup.host, user |-> lookup.user, tagged |-> lookup.tag,
                canonical |-> FALSE, final |-> FALSE]
  /\ opts = NoOptions
  /\ fresh = NoOptions
  /\ outcome = [p \in Passes |-> <<>>]

-----------------------------------------------------------------------------
(* Match blocks.  A pattern list is the set of the names it matches, and   *)
(* the set of those its negated patterns match.                            *)

InList(c, name) == name \in c.only /\ name \notin c.except

Holds(c) ==
  CASE c.field = "all"       -> TRUE
    [] c.field = "canonical" -> context.canonical
    [] c.field = "final"     -> context.final
    [] OTHER                 -> InList(c, context[c.field]) # c.negated

\* A Match exec command runs anew each time, and may succeed or fail.
Evaluations(conds) ==
  LET tested == {i \in DOMAIN conds : conds[i].field # "exec"} IN
  IF \E i \in tested : ~Holds(conds[i]) THEN {FALSE}
  ELSE IF tested = DOMAIN conds THEN {TRUE} ELSE BOOLEAN

(* Directives *)

Ignores(o, d) ==
  \/ d.key \in o.ignored
  \/ d.key \notin ScalarKeys \cup ListKeys /\ "*" \in o.ignored

Rejects(o, d) ==
  /\ ~Ignores(o, d)
  /\ \/ d.key \notin ScalarKeys \cup ListKeys
     \/ d.key = "LocalForward" /\ d.val = Invalid

\* setStr, setBool and setInt: the first valid value wins.
SetScalar(o, d) ==
  IF o.scalar[d.key] = None /\ d.val # Invalid
  THEN [o EXCEPT !.scalar[d.key] = d.val] ELSE o

Ignore(o, d) == [SetScalar(o, d) EXCEPT !.ignored = @ \cup {d.val}]

AppendValue(o, d) == [o EXCEPT !.list[d.key] = Append(@, d.val)]

SetIdentity(o, d) ==
  IF d.val = "none" THEN [o EXCEPT !.list["IdentityFile"] = <<>>] ELSE AppendValue(o, d)

\* A value with a minus removes what it matches.
SetSendEnv(o, d) ==
  IF d.removes = {} THEN AppendValue(o, d)
  ELSE [o EXCEPT !.list["SendEnv"] = SelectSeq(@, LAMBDA name : name \notin d.removes)]

ApplyDirective(o, d) ==
  IF Ignores(o, d) THEN o ELSE
  CASE d.key = "IgnoreUnknown" -> Ignore(o, d)
    [] d.key = "IdentityFile"  -> SetIdentity(o, d)
    [] d.key = "SendEnv"       -> SetSendEnv(o, d)
    [] d.key = "LocalForward"  -> AppendValue(o, d)
    [] OTHER                   -> SetScalar(o, d)

\* A slip: a later pass overrules an earlier one.
MergeOver(dst, src) ==
  [scalar  |-> [k \in ScalarKeys |->
                  IF src.scalar[k] # None THEN src.scalar[k] ELSE dst.scalar[k]],
   list    |-> [k \in ListKeys |-> dst.list[k] \o src.list[k]],
   ignored |-> dst.ignored]

\* mergeOptions: scalars where dst has none, lists always.
Merge(dst, src) ==
  [scalar  |-> [k \in ScalarKeys |->
                  IF dst.scalar[k] = None THEN src.scalar[k] ELSE dst.scalar[k]],
   list    |-> [k \in ListKeys |-> dst.list[k] \o src.list[k]],
   ignored |-> dst.ignored]

-----------------------------------------------------------------------------
(* Reading the two files *)

Source == IF phase = "user" THEN UserFile ELSE SystemFile
Parsing == phase \in {"user", "system"}
Following == IF phase = "user" THEN "system" ELSE "first"

NoConfig ==
  /\ Parsing /\ status = "idle" /\ tree[Source].kind = "dangling"
  /\ phase' = Following
  /\ UNCHANGED <<parserVars, lookup, entries, context, opts, fresh, outcome>>

OpenConfig ==
  /\ Parsing /\ tree[Source].kind # "dangling"
  /\ Start(Source)
  /\ UNCHANGED resolveVars

ReadConfig == Parsing /\ ParserStep /\ UNCHANGED resolveVars

\* A slip: a file goes before the command line.
TakeEntriesFirst ==
  /\ Parsing /\ status = "parsed"
  /\ entries' = result \o entries
  /\ phase' = Following
  /\ status' = "idle" /\ result' = <<>>
  /\ UNCHANGED <<tree, stack, visited, lookup, context, opts, fresh, outcome>>

TakeEntries ==
  /\ Parsing /\ status = "parsed"
  /\ entries' = entries \o result
  /\ phase' = Following
  /\ status' = "idle" /\ result' = <<>>
  /\ UNCHANGED <<tree, stack, visited, lookup, context, opts, fresh, outcome>>

ParseFails ==
  /\ Parsing /\ status = "failed"
  /\ phase' = "failed"
  /\ UNCHANGED <<parserVars, lookup, entries, context, opts, fresh, outcome>>

-----------------------------------------------------------------------------
(* The passes *)

Target == IF phase = "first" THEN opts ELSE fresh

\* The loop stands before entry e.
AtEntry(e) ==
  /\ phase \in Passes
  /\ Len(outcome[phase]) < Len(entries)
  /\ e = entries[Len(outcome[phase]) + 1]

Record(what) == outcome' = [outcome EXCEPT ![phase] = Append(@, what)]

SkipEntry(e) ==
  /\ AtEntry(e)
  /\ FALSE \in Evaluations(e.conds)
  /\ Record("skipped")
  /\ UNCHANGED <<parserVars, lookup, phase, entries, context, opts, fresh>>

RejectEntry(e) ==
  /\ AtEntry(e)
  /\ TRUE \in Evaluations(e.conds) /\ Rejects(Target, e.dir)
  /\ phase' = "failed"
  /\ UNCHANGED <<parserVars, lookup, entries, context, opts, fresh, outcome>>

\* A slip: a HostName directive changes what Host lines are matched against.
SeenWithHost(o) ==
  [context EXCEPT
    !.host   = IF o.scalar["HostName"] # None THEN o.scalar["HostName"] ELSE @,
    !.user   = IF @ = None THEN o.scalar["User"] ELSE @,
    !.tagged = IF o.scalar["Tag"] # None THEN o.scalar["Tag"] ELSE @]

\* Only the first pass lets later Match lines see what it sets.
SeenBy(o) ==
  [context EXCEPT
    !.user   = IF @ = None THEN o.scalar["User"] ELSE @,
    !.tagged = IF o.scalar["Tag"] # None THEN o.scalar["Tag"] ELSE @]

ApplyEntry(e) ==
  /\ AtEntry(e)
  /\ TRUE \in Evaluations(e.conds) /\ ~Rejects(Target, e.dir)
  /\ Record(IF Ignores(Target, e.dir) THEN "ignored" ELSE "applied")
  /\ LET next == ApplyDirective(Target, e.dir) IN
     IF phase = "first"
     THEN opts' = next /\ context' = SeenBy(next) /\ UNCHANGED fresh
     ELSE fresh' = next /\ UNCHANGED <<opts, context>>
  /\ UNCHANGED <<parserVars, lookup, phase, entries>>

AtPassEnd(p) == phase = p /\ Len(outcome[p]) = Len(entries)

Default(o, k, value) == IF o.scalar[k] = None THEN [o EXCEPT !.scalar[k] = value] ELSE o

NamesFilledIn ==
  Default(Default(opts, "HostName", lookup.host),
          "User", IF lookup.user # None THEN lookup.user ELSE LocalUser)

\* What canonicalizeHost, or the caller's HostCanonicalizer, may answer.
CanonicalNames(o) ==
  IF o.scalar["CanonicalizeHostname"] \notin {"yes", "always"} THEN {None}
  ELSE IF ~lookup.canonicalizer /\ o.scalar["CanonicalDomains"] = None THEN {None}
  ELSE {None, CanonicalName}

FirstPassEnds ==
  /\ AtPassEnd("first")
  /\ \E name \in CanonicalNames(NamesFilledIn) :
       IF name = None
       THEN /\ phase' = "final"
            /\ opts' = NamesFilledIn
            /\ context' = [context EXCEPT !.final = TRUE]
       ELSE /\ phase' = "canonical"
            /\ opts' = [NamesFilledIn EXCEPT !.scalar["HostName"] = name]
            /\ context' = [context EXCEPT !.host = name, !.canonical = TRUE]
  /\ UNCHANGED <<parserVars, lookup, entries, fresh, outcome>>

CanonicalPassEnds ==
  /\ AtPassEnd("canonical")
  /\ phase' = "final"
  /\ opts' = Merge(opts, fresh) /\ fresh' = NoOptions
  /\ context' = [context EXCEPT !.final = TRUE]
  /\ UNCHANGED <<parserVars, lookup, entries, outcome>>

WithPort(o) == IF lookup.port # None THEN [o EXCEPT !.scalar["Port"] = lookup.port] ELSE o

\* What applyDefaults knows; the others stay unset.
DefaultOf(k) ==
  CASE k = "Port" -> "22"
    [] k \in {"CanonicalizeHostname", "ClearAllForwardings"} -> "no"
    [] k \in PlainKeys -> "default"
    [] OTHER -> None

WithDefaults(o) ==
  [o EXCEPT !.scalar = [k \in ScalarKeys |-> IF @[k] = None THEN DefaultOf(k) ELSE @[k]],
            !.list["IdentityFile"] = IF @ = <<>> THEN <<"default">> ELSE @]

WithoutForwards(o) ==
  IF o.scalar["ClearAllForwardings"] = "yes" THEN [o EXCEPT !.list["LocalForward"] = <<>>] ELSE o

FinalPassEnds ==
  /\ AtPassEnd("final")
  /\ LET o == WithoutForwards(WithDefaults(WithPort(Merge(opts, fresh)))) IN
     /\ opts' = o
     /\ phase' = IF o.scalar["RefuseConnection"] # None THEN "failed" ELSE "done"
  /\ UNCHANGED <<parserVars, lookup, entries, context, fresh, outcome>>

-----------------------------------------------------------------------------

Next ==
  \/ NoConfig \/ OpenConfig \/ ReadConfig \/ TakeEntries \/ ParseFails
  \/ \E e \in ToSet(entries) : SkipEntry(e) \/ RejectEntry(e) \/ ApplyEntry(e)
  \/ FirstPassEnds \/ CanonicalPassEnds \/ FinalPassEnds

\* One goroutine, with nothing to wait for.
Spec == Init /\ [][Next]_vars /\ WF_vars(Next)

-----------------------------------------------------------------------------
(* Properties *)

IsOptions(o) ==
  /\ DOMAIN o = {"scalar", "list", "ignored"}
  /\ o.scalar \in [ScalarKeys -> Words]
  /\ DOMAIN o.list = ListKeys

\* Types, and where the three loops are.
TypeOK ==
  /\ ParserTypeOK
  /\ lookup \in Lookups
  /\ phase \in {"user", "system", "done", "failed"} \cup Passes
  /\ entries \in Seq(Entry)
  /\ context \in [host : Words, user : Words, tagged : Words, canonical : BOOLEAN, final : BOOLEAN]
  /\ IsOptions(opts) /\ IsOptions(fresh)
  /\ outcome \in [Passes -> Seq({"skipped", "ignored", "applied"})]
  /\ \A p \in Passes : /\ Len(outcome[p]) <= Len(entries)
                       /\ outcome[p] # <<>> => ~Parsing
  /\ phase \in Passes /\ outcome[phase] = <<>> => fresh = NoOptions

\* What ParseFile returns (parser.go:124-126) is the flat reading of the files: no
\* option is lost, repeated or moved to another block by the stack of Includes, the
\* cycles that are cut and the conditions that are filled in on the way back.  An entry
\* below a Host or Match line of its own file has left the including block's conditions;
\* the comment at parser.go:121 says otherwise, see IncludedInherit.
EntriesAreFlatReading == status = "parsed" => result = FlatReadingOf(Source)

\* First-value-wins (resolve.go:70, apply.go:12, mergeOptions 373-641): once an option
\* has a value, no later directive, pass or default changes it.  The exceptions are
\* in the code: the canonical name, and the port of the command line.
ScalarsStay ==
  [][\A k \in ScalarKeys :
       opts.scalar[k] # None => \/ opts'.scalar[k] = opts.scalar[k]
                                \/ k = "HostName" /\ phase' = "canonical"
                                \/ k = "Port" /\ lookup.port # None]_vars

Setting(p, k) ==
  {i \in DOMAIN outcome[p] : /\ outcome[p][i] = "applied"
                             /\ entries[i].dir.key = k /\ entries[i].dir.val # Invalid}

FirstValue(p, k) == entries[CHOOSE i \in Setting(p, k) : \A j \in Setting(p, k) : i <= j].dir.val

\* The order of the three passes and of the entries in them (resolve.go:64-71): the
\* first entry that applies, in the earliest pass in which one does, decides, and
\* the default only if none does in any pass.  User and HostName are filled in
\* after the first pass.
FirstMatchWins ==
  phase = "done" => \A k \in ScalarKeys \ {"User", "HostName"} :
    opts.scalar[k] =
      IF k = "Port" /\ lookup.port # None THEN lookup.port
      ELSE IF Setting("first", k) # {} THEN FirstValue("first", k)
      ELSE IF Setting("canonical", k) # {} THEN FirstValue("canonical", k)
      ELSE IF Setting("final", k) # {} THEN FirstValue("final", k)
      ELSE DefaultOf(k)

\* The command line has the highest priority (resolve.go:65): what it sets, no file
\* can change, whatever the Match blocks of the files do.
CommandLineWins ==
  phase = "done" => \A i \in DOMAIN lookup.cli :
    LET d == lookup.cli[i] IN
    \/ d.key \notin ScalarKeys \/ d.val = Invalid
    \/ \E j \in 1 .. i - 1 : lookup.cli[j].key = d.key
    \/ \E j \in 1 .. i - 1 : lookup.cli[j].key = "IgnoreUnknown" /\ lookup.cli[j].val = d.key
    \/ d.key = "HostName" /\ context.canonical
    \/ d.key = "Port" /\ lookup.port # None
    \/ opts.scalar[d.key] = d.val

\* resolve_test.go:9-14 and resolve.go:185-191: in one pass, the directives under one
\* Host line are all applied or all dropped, whatever the ones before them set.
HostBlocksCountWhole ==
  \A p \in Passes : \A i, j \in DOMAIN outcome[p] :
    (/\ entries[i].conds = entries[j].conds
     /\ \A n \in DOMAIN entries[i].conds : entries[i].conds[n].field = "host")
    => (outcome[p][i] = "skipped") = (outcome[p][j] = "skipped")

\* Resolve ends, with options or with an error, whatever the files include.
ResolutionEnds == <>(phase \in {"done", "failed"})

\* What the comment at resolve.go:238 says of the merge of a pass: it only sets
\* fields that are unset.
MergeOnlySetsUnset ==
  [][phase' # phase /\ phase \in {"canonical", "final"} =>
       \A k \in ListKeys : opts.list[k] # <<>> => Len(opts'.list[k]) <= Len(opts.list[k])]_vars
=============================================================================
