----------------------- MODULE ConfigResolve_proofs -----------------------
(***************************************************************************)
(* Proofs about ConfigResolve, for any files, keywords and command line.   *)
(*                                                                         *)
(* The properties speak of the history of what was applied, the code keeps *)
(* options.  ValuesFollowHistory ties the two together pass by pass, and   *)
(* HostVerdicts ties the history to the one name that Host lines are       *)
(* matched against during a pass.                                          *)
(***************************************************************************)
EXTENDS ConfigResolve, ConfigParser_proofs

-----------------------------------------------------------------------------
(* Options.                                                                *)

LEMMA NoOptionsShape ==
  /\ IsOptions(NoOptions)
  /\ \A k \in ScalarKeys : NoOptions.scalar[k] = None
<1>1. None \in Words
  BY WordsAssumption
<1>2. QED
  BY <1>1 DEF NoOptions, IsOptions

LEMMA KeysDisjoint ==
  /\ ScalarKeys \cap ListKeys = {}
  /\ "IgnoreUnknown" \in ScalarKeys /\ "Port" \in ScalarKeys
  /\ "User" \in ScalarKeys /\ "HostName" \in ScalarKeys
BY PlainKeysAssumption DEF ScalarKeys, ListKeys, ActiveKeys

\* What a directive does to the scalars: it sets its own, if that is unset, or none.
LEMMA ApplyShape ==
  ASSUME NEW o, IsOptions(o), NEW d \in Directives, ~Rejects(o, d)
  PROVE  /\ IsOptions(ApplyDirective(o, d))
         /\ \A k \in ScalarKeys :
              ApplyDirective(o, d).scalar[k] =
                IF ~Ignores(o, d) /\ d.key = k /\ d.val # Invalid /\ o.scalar[k] = None
                THEN d.val ELSE o.scalar[k]
<1> DEFINE Shape(q, key) ==
             /\ IsOptions(q)
             /\ \A k \in ScalarKeys :
                  q.scalar[k] = IF key = k /\ d.val # Invalid /\ o.scalar[k] = None
                                THEN d.val ELSE o.scalar[k]
<1>1. d.val \in Words
  BY DirectivesAssumption
<1>2. CASE Ignores(o, d)
  BY <1>2 DEF ApplyDirective
<1>3. CASE ~Ignores(o, d)
  <2>1. d.key \in ScalarKeys \cup ListKeys
    BY <1>3 DEF Rejects
  <2>2. ASSUME NEW q, DOMAIN q = DOMAIN o, q.scalar = o.scalar, DOMAIN q.list = DOMAIN o.list,
               d.key \in ListKeys
        PROVE  Shape(q, d.key)
    BY <2>2, KeysDisjoint DEF IsOptions
  <2>3. ASSUME d.key \in ScalarKeys PROVE Shape(SetScalar(o, d), d.key)
    <3> DEFINE q == [o EXCEPT !.scalar[d.key] = d.val]
    <3>1. /\ DOMAIN q = DOMAIN o /\ q.list = o.list
          /\ q.scalar = [o.scalar EXCEPT ![d.key] = d.val]
      BY DEF IsOptions
    <3>2. q.scalar \in [ScalarKeys -> Words]
      BY <1>1, <3>1 DEF IsOptions
    <3>3. \A k \in ScalarKeys : q.scalar[k] = IF k = d.key THEN d.val ELSE o.scalar[k]
      BY <2>3, <3>1 DEF IsOptions
    <3>4. IsOptions(q)
      BY <3>1, <3>2 DEF IsOptions
    <3> HIDE DEF q
    <3>5. CASE o.scalar[d.key] = None /\ d.val # Invalid
      BY <3>3, <3>4, <3>5 DEF SetScalar, q
    <3>6. CASE ~(o.scalar[d.key] = None /\ d.val # Invalid)
      BY <3>6 DEF SetScalar
    <3>7. QED
      BY <3>5, <3>6
  <2>4. Shape(ApplyDirective(o, d), d.key)
    <3>1. CASE d.key = "IgnoreUnknown"
      <4> DEFINE q == SetScalar(o, d)
                 r == [q EXCEPT !.ignored = @ \cup {d.val}]
      <4>1. Shape(q, d.key)
        BY <2>3, <3>1, KeysDisjoint
      <4> HIDE DEF q
      <4>2. DOMAIN r = DOMAIN q /\ r.scalar = q.scalar /\ r.list = q.list
        BY <4>1 DEF IsOptions
      <4>3. Shape(r, d.key)
        BY <4>1, <4>2 DEF IsOptions
      <4>4. ApplyDirective(o, d) = r
        BY <1>3, <3>1 DEF ApplyDirective, Ignore, q
      <4>5. QED
        BY <4>3, <4>4
    <3>2. CASE d.key = "IdentityFile" \/ d.key = "SendEnv" \/ d.key = "LocalForward"
      <4>1. d.key \in ListKeys
        BY <3>2 DEF ListKeys
      <4>2. \E v : ApplyDirective(o, d) = [o EXCEPT !.list[d.key] = v]
        <5>1. CASE d.key = "IdentityFile"
          BY <1>3, <5>1 DEF ApplyDirective, SetIdentity, AppendValue
        <5>2. CASE d.key = "SendEnv"
          BY <1>3, <5>2 DEF ApplyDirective, SetSendEnv, AppendValue
        <5>3. CASE d.key = "LocalForward"
          BY <1>3, <5>3 DEF ApplyDirective, AppendValue
        <5>4. QED
          BY <3>2, <5>1, <5>2, <5>3
      <4>3. PICK v : ApplyDirective(o, d) = [o EXCEPT !.list[d.key] = v]
        BY <4>2
      <4>4. /\ DOMAIN ApplyDirective(o, d) = DOMAIN o
            /\ ApplyDirective(o, d).scalar = o.scalar
            /\ DOMAIN ApplyDirective(o, d).list = DOMAIN o.list
        BY <4>3 DEF IsOptions
      <4>5. QED
        BY <2>2, <4>1, <4>4
    <3>3. CASE d.key \notin {"IgnoreUnknown", "IdentityFile", "SendEnv", "LocalForward"}
      <4>1. d.key \in ScalarKeys
        BY <2>1, <3>3 DEF ListKeys
      <4>2. ApplyDirective(o, d) = SetScalar(o, d)
        BY <1>3, <3>3 DEF ApplyDirective
      <4>3. QED
        BY <2>3, <4>1, <4>2
    <3>4. QED
      BY <3>1, <3>2, <3>3
  <2>5. QED
    BY <1>3, <2>4
<1>4. QED
  BY <1>2, <1>3

\* mergeOptions keeps a scalar that is set, and takes one that is not.
LEMMA MergeShape ==
  ASSUME NEW o, NEW q, IsOptions(o), IsOptions(q)
  PROVE  /\ IsOptions(Merge(o, q))
         /\ \A k \in ScalarKeys :
              Merge(o, q).scalar[k] = IF o.scalar[k] = None THEN q.scalar[k] ELSE o.scalar[k]
BY DEF Merge, IsOptions

LEMMA DefaultShape ==
  ASSUME NEW o, IsOptions(o), NEW k \in ScalarKeys, NEW v \in Words
  PROVE  /\ IsOptions(Default(o, k, v))
         /\ \A j \in ScalarKeys :
              Default(o, k, v).scalar[j] = IF j = k /\ o.scalar[k] = None THEN v ELSE o.scalar[j]
<1> DEFINE q == [o EXCEPT !.scalar[k] = v]
<1>1. DOMAIN q = DOMAIN o /\ q.list = o.list /\ q.scalar = [o.scalar EXCEPT ![k] = v]
  BY DEF IsOptions
<1>2. q.scalar \in [ScalarKeys -> Words]
  BY <1>1 DEF IsOptions
<1>3. \A j \in ScalarKeys : q.scalar[j] = IF j = k THEN v ELSE o.scalar[j]
  BY <1>1 DEF IsOptions
<1>4. IsOptions(q)
  BY <1>1, <1>2 DEF IsOptions
<1> HIDE DEF q
<1>5. QED
  BY <1>3, <1>4 DEF Default, q

\* What the first pass leaves unset of the host's and the user's name is filled in.
LEMMA NamesShape ==
  ASSUME IsOptions(opts), lookup \in Lookups
  PROVE  /\ IsOptions(NamesFilledIn)
         /\ \A k \in ScalarKeys : opts.scalar[k] # None \/ k \notin {"User", "HostName"} =>
              NamesFilledIn.scalar[k] = opts.scalar[k]
<1>1. lookup.host \in Words /\ lookup.user \in Words /\ LocalUser \in Words
  BY LookupsAssumption, WordsAssumption
<1> DEFINE o == Default(opts, "HostName", lookup.host)
           u == IF lookup.user # None THEN lookup.user ELSE LocalUser
<1>2. /\ IsOptions(o)
      /\ \A k \in ScalarKeys :
           o.scalar[k] = IF k = "HostName" /\ opts.scalar["HostName"] = None
                         THEN lookup.host ELSE opts.scalar[k]
  <2>1. "HostName" \in ScalarKeys
    BY KeysDisjoint
  <2>2. QED
    BY <1>1, <2>1, DefaultShape
<1>3. u \in Words
  BY <1>1
<1> HIDE DEF o, u
<1>4. /\ IsOptions(Default(o, "User", u))
      /\ \A k \in ScalarKeys :
           Default(o, "User", u).scalar[k] =
             IF k = "User" /\ o.scalar["User"] = None THEN u ELSE o.scalar[k]
  BY <1>2, <1>3, DefaultShape, KeysDisjoint
<1>5. NamesFilledIn = Default(o, "User", u)
  BY DEF NamesFilledIn, o, u
<1>6. QED
  BY <1>2, <1>4, <1>5

LEMMA HostNameShape ==
  ASSUME NEW o, IsOptions(o), NEW k \in ScalarKeys, NEW v \in Words
  PROVE  /\ IsOptions([o EXCEPT !.scalar[k] = v])
         /\ \A j \in ScalarKeys :
              [o EXCEPT !.scalar[k] = v].scalar[j] = IF j = k THEN v ELSE o.scalar[j]
<1> DEFINE q == [o EXCEPT !.scalar[k] = v]
<1>1. DOMAIN q = DOMAIN o /\ q.list = o.list /\ q.scalar = [o.scalar EXCEPT ![k] = v]
  BY DEF IsOptions
<1>2. q.scalar \in [ScalarKeys -> Words]
  BY <1>1 DEF IsOptions
<1>3. QED
  BY <1>1, <1>2 DEF IsOptions

LEMMA CanonicalNamesTyped ==
  ASSUME NEW o, NEW name \in CanonicalNames(o)
  PROVE  name \in Words
BY WordsAssumption DEF CanonicalNames

\* The end of Resolve: the port of the command line, then a default where nothing is set.
LEMMA LastShape ==
  ASSUME NEW o, IsOptions(o), lookup \in Lookups
  PROVE  LET r == WithoutForwards(WithDefaults(WithPort(o))) IN
         /\ IsOptions(r)
         /\ \A k \in ScalarKeys :
              r.scalar[k] = IF k = "Port" /\ lookup.port # None THEN lookup.port
                            ELSE IF o.scalar[k] # None THEN o.scalar[k] ELSE DefaultOf(k)
<1>1. lookup.port \in Words
  BY LookupsAssumption
<1>2. /\ IsOptions(WithPort(o))
      /\ \A k \in ScalarKeys : WithPort(o).scalar[k] =
            IF k = "Port" /\ lookup.port # None THEN lookup.port ELSE o.scalar[k]
  BY <1>1, HostNameShape, KeysDisjoint DEF WithPort
<1>3. PICK p : p = WithPort(o)
  OBVIOUS
<1>4. \A k \in ScalarKeys : DefaultOf(k) \in Words
  BY WordsAssumption DEF DefaultOf
<1>5. /\ IsOptions(WithDefaults(p))
      /\ \A k \in ScalarKeys :
           WithDefaults(p).scalar[k] = IF p.scalar[k] # None THEN p.scalar[k] ELSE DefaultOf(k)
  <2> DEFINE s == [k \in ScalarKeys |-> IF p.scalar[k] = None THEN DefaultOf(k) ELSE p.scalar[k]]
             l == IF p.list["IdentityFile"] = <<>> THEN <<"default">> ELSE p.list["IdentityFile"]
  <2>1. s \in [ScalarKeys -> Words]
    BY <1>2, <1>3, <1>4 DEF IsOptions
  <2>2. WithDefaults(p) = [p EXCEPT !.scalar = s, !.list["IdentityFile"] = l]
    BY <1>2, <1>3 DEF WithDefaults, IsOptions
  <2> HIDE DEF l
  <2>3. /\ DOMAIN WithDefaults(p) = {"scalar", "list", "ignored"}
        /\ WithDefaults(p).scalar = s /\ DOMAIN WithDefaults(p).list = ListKeys
    BY <1>2, <1>3, <2>2 DEF IsOptions
  <2>4. QED
    BY <2>1, <2>3 DEF IsOptions
<1>6. PICK d : d = WithDefaults(p)
  OBVIOUS
<1>7. IsOptions(WithoutForwards(d)) /\ WithoutForwards(d).scalar = d.scalar
  BY <1>5, <1>6 DEF WithoutForwards, IsOptions
<1>8. WithoutForwards(WithDefaults(WithPort(o))) = WithoutForwards(d)
  BY <1>3, <1>6
<1>9. \A k \in ScalarKeys :
        d.scalar[k] = IF k = "Port" /\ lookup.port # None THEN lookup.port
                      ELSE IF o.scalar[k] # None THEN o.scalar[k] ELSE DefaultOf(k)
  BY <1>2, <1>3, <1>5, <1>6
<1>10. QED
  BY <1>7, <1>8, <1>9

-----------------------------------------------------------------------------
(* The history.                                                            *)

\* What pass p has set option k to.
Value(p, k) == IF Setting(p, k) # {} THEN FirstValue(p, k) ELSE None

LEMMA LeastExists ==
  ASSUME NEW S, S \subseteq Nat, S # {}
  PROVE  \E i \in S : \A j \in S : i <= j
<1>1. PICK i \in S : \A j \in S : ~(<<j, i>> \in OpToRel(<, Nat))
  BY NatLessThanWellFounded, WFMin
<1>2. \A j \in S : ~(j < i)
  BY <1>1 DEF OpToRel
<1>3. QED
  BY <1>2

LEMMA SettingTyped ==
  ASSUME TypeOK, NEW p \in Passes, NEW k
  PROVE  Setting(p, k) \subseteq 1 .. Len(outcome[p]) /\ Setting(p, k) \subseteq Nat
<1>1. DOMAIN outcome[p] = 1 .. Len(outcome[p]) /\ Len(outcome[p]) \in Nat
  BY LenProperties DEF TypeOK
<1>2. QED
  BY <1>1 DEF Setting

LEMMA FirstIs ==
  ASSUME NEW p, NEW k, Setting(p, k) \subseteq Nat,
         NEW i \in Setting(p, k), \A j \in Setting(p, k) : i <= j
  PROVE  FirstValue(p, k) = entries[i].dir.val
<1> DEFINE c == CHOOSE n \in Setting(p, k) : \A j \in Setting(p, k) : n <= j
<1>1. c \in Setting(p, k) /\ \A j \in Setting(p, k) : c <= j
  OBVIOUS
<1> HIDE DEF c
<1>2. c = i
  BY <1>1
<1>3. QED
  BY <1>2 DEF FirstValue, c

\* A pass has a value for an option exactly if some directive set it.
LEMMA ValueIsSet ==
  ASSUME TypeOK, NEW p \in Passes, NEW k
  PROVE  Value(p, k) # None <=> Setting(p, k) # {}
<1>1. ASSUME Setting(p, k) # {} PROVE FirstValue(p, k) # None
  <2>1. PICK i \in Setting(p, k) : \A j \in Setting(p, k) : i <= j
    BY <1>1, SettingTyped, LeastExists
  <2>2. i \in 1 .. Len(entries)
    <3>1. /\ i \in 1 .. Len(outcome[p]) /\ Len(outcome[p]) <= Len(entries)
          /\ Len(entries) \in Nat /\ Len(outcome[p]) \in Nat
      BY SettingTyped, LenProperties DEF TypeOK
    <3>2. QED
      BY <3>1
  <2>3. entries[i].dir \in Directives
    <3>1. entries[i] \in Entry
      BY <2>2, ElementOfSeq DEF TypeOK
    <3>2. QED
      BY <3>1 DEF Entry
  <2>4. FirstValue(p, k) = entries[i].dir.val
    BY <2>1, SettingTyped, FirstIs
  <2>5. QED
    BY <2>3, <2>4, DirectivesAssumption
<1>2. QED
  BY <1>1 DEF Value

LEMMA HistoryUnchanged ==
  ASSUME UNCHANGED <<entries, outcome>>, NEW p, NEW k
  PROVE  /\ Setting(p, k)' = Setting(p, k) /\ FirstValue(p, k)' = FirstValue(p, k)
         /\ Value(p, k)' = Value(p, k)
BY DEF Setting, FirstValue, Value

LEMMA NothingSetYet ==
  ASSUME NEW p, outcome[p] = <<>>, NEW k
  PROVE  Setting(p, k) = {} /\ Value(p, k) = None
BY DEF Setting, Value

\* One more entry: it decides the value of its option in this pass if none did before.
LEMMA RecordValue ==
  ASSUME TypeOK, NEW p \in Passes, phase = p, NEW e, AtEntry(e), NEW what, Record(what),
         what \in {"skipped", "ignored", "applied"}, UNCHANGED entries, TypeOK', NEW k
  PROVE  /\ Value(p, k)' = IF /\ what = "applied" /\ e.dir.key = k /\ e.dir.val # Invalid
                              /\ Value(p, k) = None
                           THEN e.dir.val ELSE Value(p, k)
         /\ \A q \in Passes : q # p => Value(q, k)' = Value(q, k)
<1> DEFINE n == Len(outcome[p]) + 1
           S == Setting(p, k)
           T == Setting(p, k)'
<1>1. /\ outcome[p] \in Seq({"skipped", "ignored", "applied"}) /\ Len(outcome[p]) \in Nat
      /\ DOMAIN outcome[p] = 1 .. Len(outcome[p]) /\ outcome \in [Passes -> Seq({"skipped", "ignored", "applied"})]
  BY LenProperties DEF TypeOK
<1>2. outcome'[p] = Append(outcome[p], what) /\ \A q \in Passes : q # p => outcome'[q] = outcome[q]
  BY <1>1 DEF Record
<1>3. /\ DOMAIN outcome'[p] = 1 .. n /\ outcome'[p][n] = what
      /\ \A i \in 1 .. Len(outcome[p]) : outcome'[p][i] = outcome[p][i]
  <2>1. /\ outcome'[p] \in Seq({"skipped", "ignored", "applied"}) /\ Len(outcome'[p]) = n
        /\ outcome'[p][n] = what
        /\ \A i \in 1 .. Len(outcome[p]) : outcome'[p][i] = outcome[p][i]
    BY <1>1, <1>2, AppendProperties
  <2>2. QED
    BY <2>1, LenProperties
<1>4. e = entries[n] /\ entries' = entries
  BY DEF AtEntry
<1> DEFINE sets == what = "applied" /\ e.dir.key = k /\ e.dir.val # Invalid
<1>5. T = IF sets THEN S \cup {n} ELSE S
  <2>1. 1 .. n = (1 .. Len(outcome[p])) \cup {n} /\ n \notin 1 .. Len(outcome[p])
    BY <1>1
  <2>2. QED
    BY <1>1, <1>3, <1>4, <2>1 DEF Setting
<1>6. S \subseteq 1 .. Len(outcome[p]) /\ S \subseteq Nat /\ T \subseteq Nat
  <2>1. S \subseteq 1 .. Len(outcome[p]) /\ S \subseteq Nat
    BY SettingTyped
  <2>2. QED
    BY <1>1, <1>5, <2>1
<1>7. ASSUME NEW i \in T, \A j \in T : i <= j PROVE FirstValue(p, k)' = entries[i].dir.val
  <2> DEFINE c == CHOOSE m \in T : \A j \in T : m <= j
  <2>1. c \in T /\ \A j \in T : c <= j
    BY <1>7
  <2> HIDE DEF c
  <2>2. c = i
    BY <1>6, <1>7, <2>1
  <2>3. QED
    BY <1>4, <2>2 DEF FirstValue, c
<1>7a. \A q \in Passes : q # p => Value(q, k)' = Value(q, k)
  <2> SUFFICES ASSUME NEW q \in Passes, q # p PROVE Value(q, k)' = Value(q, k)
    OBVIOUS
  <2>1. Setting(q, k)' = Setting(q, k)
    BY <1>2, <1>4 DEF Setting
  <2>2. FirstValue(q, k)' = FirstValue(q, k)
    BY <1>4, <2>1 DEF FirstValue
  <2>3. QED
    BY <2>1, <2>2 DEF Value
<1>8. CASE ~sets
  <2>1. T = S
    BY <1>5, <1>8
  <2>2. Value(p, k)' = Value(p, k)
    BY <1>4, <2>1 DEF Value, FirstValue
  <2>3. QED
    BY <1>7a, <1>8, <2>2
<1>9. CASE sets
  <2>1. T = S \cup {n}
    BY <1>5, <1>9
  <2>2. CASE S = {}
    <3>1. FirstValue(p, k)' = entries[n].dir.val
      BY <1>1, <1>7, <2>1, <2>2
    <3>2. Value(p, k) = None /\ Value(p, k)' = e.dir.val
      BY <1>4, <2>1, <2>2, <3>1 DEF Value
    <3>3. QED
      BY <1>7a, <1>9, <3>2
  <2>3. CASE S # {}
    <3>1. PICK i \in S : \A j \in S : i <= j
      BY <1>6, <2>3, LeastExists
    <3>2. i <= n
      BY <1>1, <1>6, <3>1
    <3>3. FirstValue(p, k) = entries[i].dir.val
      BY <1>6, <3>1, FirstIs
    <3>4. FirstValue(p, k)' = entries[i].dir.val
      BY <1>7, <2>1, <3>1, <3>2
    <3>5. Value(p, k)' = Value(p, k) /\ Value(p, k) # None
      BY <2>1, <2>3, <3>3, <3>4, ValueIsSet DEF Value
    <3>6. QED
      BY <1>7a, <3>5
  <2>4. QED
    BY <2>2, <2>3
<1>10. QED
  BY <1>8, <1>9

-----------------------------------------------------------------------------
(* The invariant.                                                          *)

\* The options not filled in after the first pass.
Plain == ScalarKeys \ {"User", "HostName"}

\* Of the first two passes.
Earlier(k) == IF Value("first", k) # None THEN Value("first", k) ELSE Value("canonical", k)

ValuesFollowHistory ==
  /\ phase \in {"user", "system"} =>
       opts = NoOptions /\ fresh = NoOptions /\ \A p \in Passes : outcome[p] = <<>>
  /\ phase = "first" =>
       /\ fresh = NoOptions /\ outcome["canonical"] = <<>> /\ outcome["final"] = <<>>
       /\ \A k \in ScalarKeys : opts.scalar[k] = Value("first", k)
  /\ phase = "canonical" =>
       /\ outcome["final"] = <<>>
       /\ \A k \in Plain : opts.scalar[k] = Value("first", k)
       /\ \A k \in ScalarKeys : fresh.scalar[k] = Value("canonical", k)
  /\ phase = "final" =>
       /\ \A k \in Plain : opts.scalar[k] = Earlier(k)
       /\ \A k \in ScalarKeys : fresh.scalar[k] = Value("final", k)

HostOnly(conds) == \A n \in DOMAIN conds : conds[n].field = "host"
HostsHold(conds, name) == \A n \in DOMAIN conds : InList(conds[n], name) # conds[n].negated

HostVerdicts ==
  phase \in Passes =>
    \A i \in DOMAIN outcome[phase] :
      HostOnly(entries[i].conds) =>
        (outcome[phase][i] = "skipped") = ~HostsHold(entries[i].conds, context.host)

IInv ==
  /\ ParserInv
  /\ CyclesAreHarmless
  /\ TypeOK
  /\ ValuesFollowHistory
  /\ FirstMatchWins
  /\ HostVerdicts
  /\ HostBlocksCountWhole

\* What most steps leave alone.
LEMMA ParserUnchanged ==
  ASSUME ParserInv, CyclesAreHarmless, UNCHANGED parserVars
  PROVE  ParserInv' /\ CyclesAreHarmless'
BY DEF ParserInv, ParserTypeOK, VisitedAreBeingRead, FramesInText, CyclesAreHarmless, IsFile, parserVars

LEMMA HostBlocksUnchanged ==
  ASSUME HostBlocksCountWhole, UNCHANGED <<entries, outcome>>
  PROVE  HostBlocksCountWhole'
BY DEF HostBlocksCountWhole

LEMMA InitIInv == Init => IInv
<1> SUFFICES ASSUME Init PROVE IInv
  OBVIOUS
<1>1. ParserInv /\ CyclesAreHarmless
  BY ParserInitInv DEF Init, ParserInit, CyclesAreHarmless
<1>2. lookup.cli \in Seq(Directives) /\ lookup \in Lookups
  BY LookupsAssumption DEF Init
<1>3. entries \in Seq(Entry)
  <2>1. /\ Len(lookup.cli) \in Nat /\ DOMAIN lookup.cli = 1 .. Len(lookup.cli)
        /\ \A i \in 1 .. Len(lookup.cli) : lookup.cli[i] \in Directives
    BY <1>2, LenProperties, ElementOfSeq
  <2>2. <<>> \in Seq(Conditions)
    BY EmptySeq
  <2>3. entries = [i \in 1 .. Len(lookup.cli) |-> [conds |-> <<>>, dir |-> lookup.cli[i]]]
    BY <2>1 DEF Init, Unconditional
  <2>4. entries \in [1 .. Len(lookup.cli) -> Entry]
    BY <2>1, <2>2, <2>3 DEF Entry
  <2>5. QED
    BY <2>1, <2>4, SeqDef
<1>4. context \in [host : Words, user : Words, tagged : Words, canonical : BOOLEAN, final : BOOLEAN]
  BY <1>2, LookupsAssumption DEF Init
<1>5. /\ outcome = [p \in Passes |-> <<>>] /\ phase = "user" /\ phase \notin Passes
      /\ \A p \in Passes : outcome[p] = <<>> /\ Len(outcome[p]) = 0
      /\ outcome \in [Passes -> Seq({"skipped", "ignored", "applied"})]
  BY EmptySeq DEF Init, Passes
<1>6. TypeOK
  BY <1>1, <1>2, <1>3, <1>4, <1>5, NoOptionsShape, LenProperties
  DEF TypeOK, Init, ParserInv, Parsing
<1>7. ValuesFollowHistory /\ FirstMatchWins /\ HostVerdicts
  BY <1>5 DEF Init, ValuesFollowHistory, FirstMatchWins, HostVerdicts
<1>8. HostBlocksCountWhole
  BY <1>5 DEF HostBlocksCountWhole
<1>9. QED
  BY <1>1, <1>6, <1>7, <1>8 DEF IInv

-----------------------------------------------------------------------------
(* Reading the files.                                                      *)

LEMMA ReadingKeeps ==
  ASSUME IInv, OpenConfig \/ ReadConfig
  PROVE  IInv'
<1>1. UNCHANGED resolveVars
  BY DEF OpenConfig, ReadConfig
<1>2. ParserInv'
  <2>1. Source \in Files
    BY SourcesAssumption DEF Source
  <2>2. QED
    BY <2>1, StartKeeps, StepKeeps DEF OpenConfig, ReadConfig, IInv
<1>3. CyclesAreHarmless'
  <2>1. CASE ReadConfig
    <3>1. CASE status' = "failed"
      BY <2>1, <3>1, FailureExplained DEF ReadConfig, IInv
    <3>2. CASE status' # "failed"
      BY <3>2 DEF CyclesAreHarmless
    <3>3. QED
      BY <3>1, <3>2
  <2>2. CASE OpenConfig
    <3>1. CASE tree[Source].kind # "text" /\ Fail
      <4>1. Source \in Files /\ tree[Source] \in File /\ tree' = tree
        BY <3>1, SourcesAssumption DEF Source, Fail, IInv, ParserInv, ParserTypeOK
      <4>2. tree[Source].kind \in {"unreadable", "directory"}
        BY <2>2, <3>1, <4>1 DEF OpenConfig, File
      <4>3. QED
        BY <4>1, <4>2 DEF CyclesAreHarmless
    <3>2. CASE status' = "reading"
      BY <3>2 DEF CyclesAreHarmless
    <3>3. QED
      BY <2>2, <3>1, <3>2 DEF OpenConfig, Start
  <2>3. QED
    BY <2>1, <2>2
<1>4. TypeOK'
  BY <1>1, <1>2 DEF IInv, TypeOK, ParserInv, resolveVars, Parsing, IsOptions
<1>5. ValuesFollowHistory'
  <2>1. \A p, k : Value(p, k)' = Value(p, k)
    BY <1>1, HistoryUnchanged DEF resolveVars
  <2>2. phase' \in {"user", "system"}
    BY <1>1 DEF OpenConfig, ReadConfig, Parsing, resolveVars
  <2>3. QED
    BY <1>1, <2>2 DEF IInv, ValuesFollowHistory, resolveVars
<1>6. FirstMatchWins' /\ HostVerdicts' /\ HostBlocksCountWhole'
  BY <1>1, HostBlocksUnchanged
  DEF OpenConfig, ReadConfig, Parsing, Passes, FirstMatchWins, HostVerdicts, IInv, resolveVars
<1>7. QED
  BY <1>2, <1>3, <1>4, <1>5, <1>6 DEF IInv

LEMMA SourceDoneKeeps ==
  ASSUME IInv, NoConfig \/ TakeEntries \/ ParseFails
  PROVE  IInv'
<1>1. /\ phase \in {"user", "system"} /\ phase' \in {"system", "first", "failed"}
      /\ UNCHANGED <<lookup, context, opts, fresh, outcome>>
  BY DEF NoConfig, TakeEntries, ParseFails, Parsing, Following
<1>2. /\ opts = NoOptions /\ fresh = NoOptions /\ \A p \in Passes : outcome[p] = <<>>
      /\ "first" \in Passes /\ "canonical" \in Passes /\ "final" \in Passes
  BY <1>1 DEF IInv, ValuesFollowHistory, Passes
<1>3. ParserInv' /\ CyclesAreHarmless' /\ entries' \in Seq(Entry)
  <2>1. CASE UNCHANGED parserVars /\ UNCHANGED entries
    BY <2>1, ParserUnchanged DEF IInv, TypeOK
  <2>2. CASE TakeEntries
    <3>1. result \in Seq(Entry) /\ entries \in Seq(Entry)
      BY DEF IInv, TypeOK, ParserTypeOK
    <3>2. entries' \in Seq(Entry)
      BY <2>2, <3>1, ConcatProperties DEF TakeEntries
    <3>3. stack = <<>>
      BY <2>2 DEF TakeEntries, IInv, ParserInv, FramesInText
    <3>4. ParserTypeOK' /\ FramesInText' /\ VisitedAreBeingRead' /\ CyclesAreHarmless'
      BY <2>2, <3>3, EmptySeq
      DEF TakeEntries, IInv, ParserInv, ParserTypeOK, FramesInText, VisitedAreBeingRead, CyclesAreHarmless
    <3>5. QED
      BY <3>2, <3>4 DEF ParserInv
  <2>3. QED
    BY <2>1, <2>2 DEF NoConfig, ParseFails
<1>4. \A p \in Passes : outcome'[p] = <<>> /\ Len(outcome'[p]) = 0 /\ DOMAIN outcome'[p] = {}
  BY <1>1, <1>2
<1>5. TypeOK'
  <2>1. Len(entries') \in Nat
    BY <1>3, LenProperties
  <2>2. QED
    BY <1>1, <1>2, <1>3, <1>4, <2>1 DEF IInv, TypeOK, ParserInv, IsOptions, Passes
<1>6. ValuesFollowHistory'
  <2>1. \A k \in ScalarKeys : Value("first", k)' = None
    BY <1>4 DEF Value, Setting, Passes
  <2>2. \A k \in ScalarKeys : opts'.scalar[k] = None
    BY <1>1, <1>2, NoOptionsShape
  <2>3. QED
    BY <1>1, <1>2, <1>4, <2>1, <2>2 DEF ValuesFollowHistory
<1>7. FirstMatchWins' /\ HostVerdicts' /\ HostBlocksCountWhole'
  BY <1>1, <1>4 DEF FirstMatchWins, HostVerdicts, HostBlocksCountWhole
<1>8. QED
  BY <1>3, <1>5, <1>6, <1>7 DEF IInv

-----------------------------------------------------------------------------
(* The entries of a pass.                                                  *)

LEMMA EntryAt ==
  ASSUME TypeOK, NEW e, AtEntry(e)
  PROVE  /\ phase \in Passes /\ e \in Entry /\ e.dir \in Directives
         /\ Len(outcome[phase]) + 1 \in 1 .. Len(entries)
         /\ Len(entries) \in Nat /\ Len(outcome[phase]) \in Nat
<1>1. phase \in Passes /\ outcome[phase] \in Seq({"skipped", "ignored", "applied"})
  BY DEF TypeOK, AtEntry
<1>2. Len(outcome[phase]) \in Nat /\ Len(entries) \in Nat
  BY <1>1, LenProperties DEF TypeOK
<1>3. Len(outcome[phase]) + 1 \in 1 .. Len(entries)
  BY <1>2 DEF AtEntry
<1>4. e \in Entry
  BY <1>3, ElementOfSeq DEF AtEntry, TypeOK
<1>5. QED
  BY <1>1, <1>2, <1>3, <1>4 DEF Entry

\* Recording keeps the history as long as the entries, and longer than before.
LEMMA RecordTyped ==
  ASSUME TypeOK, NEW e, AtEntry(e), NEW what \in {"skipped", "ignored", "applied"}, Record(what)
  PROVE  /\ outcome' \in [Passes -> Seq({"skipped", "ignored", "applied"})]
         /\ \A p \in Passes : Len(outcome'[p]) <= Len(entries)
         /\ outcome'[phase] # <<>>
         /\ DOMAIN outcome'[phase] = 1 .. Len(outcome[phase]) + 1
         /\ DOMAIN outcome[phase] = 1 .. Len(outcome[phase])
         /\ \A i \in 1 .. Len(outcome[phase]) : outcome'[phase][i] = outcome[phase][i]
         /\ outcome'[phase][Len(outcome[phase]) + 1] = what
         /\ \A p \in Passes : p # phase => outcome'[p] = outcome[p]
<1> DEFINE R == {"skipped", "ignored", "applied"}
<1>1. /\ outcome \in [Passes -> Seq(R)] /\ phase \in Passes
      /\ Len(outcome[phase]) + 1 \in 1 .. Len(entries) /\ Len(entries) \in Nat
      /\ \A p \in Passes : Len(outcome[p]) <= Len(entries)
  BY EntryAt DEF TypeOK
<1>2. outcome' = [outcome EXCEPT ![phase] = Append(outcome[phase], what)]
  BY DEF Record
<1> DEFINE s == Append(outcome[phase], what)
<1>3. /\ s \in Seq(R) /\ s # <<>> /\ Len(s) = Len(outcome[phase]) + 1
      /\ \A i \in 1 .. Len(outcome[phase]) : s[i] = outcome[phase][i]
      /\ s[Len(outcome[phase]) + 1] = what
  BY <1>1, AppendProperties
<1>4. DOMAIN s = 1 .. Len(outcome[phase]) + 1 /\ DOMAIN outcome[phase] = 1 .. Len(outcome[phase])
  BY <1>1, <1>3, LenProperties
<1> HIDE DEF s
<1>5. outcome' = [outcome EXCEPT ![phase] = s]
  BY <1>2 DEF s
<1>6. outcome'[phase] = s /\ \A p \in Passes : p # phase => outcome'[p] = outcome[p]
  BY <1>1, <1>5
<1>7. outcome' \in [Passes -> Seq(R)]
  BY <1>1, <1>3, <1>5
<1>8. \A p \in Passes : Len(outcome'[p]) <= Len(entries)
  <2>1. Len(s) <= Len(entries)
    BY <1>1, <1>3
  <2>2. QED
    BY <1>1, <1>6, <2>1
<1>9. QED
  BY <1>3, <1>4, <1>6, <1>7, <1>8

\* A Host block is skipped, or not, by the name alone.
LEMMA HostEvaluations ==
  ASSUME NEW conds, HostOnly(conds)
  PROVE  /\ FALSE \in Evaluations(conds) => ~HostsHold(conds, context.host)
         /\ TRUE \in Evaluations(conds) => HostsHold(conds, context.host)
<1> DEFINE tested == {i \in DOMAIN conds : conds[i].field # "exec"}
<1>1. tested = DOMAIN conds
  BY DEF HostOnly
<1>2. \A i \in DOMAIN conds : Holds(conds[i]) <=> (InList(conds[i], context.host) # conds[i].negated)
  BY DEF HostOnly, Holds
<1>3. Evaluations(conds) = IF \E i \in DOMAIN conds : ~Holds(conds[i]) THEN {FALSE} ELSE {TRUE}
  BY <1>1 DEF Evaluations
<1>4. QED
  BY <1>2, <1>3 DEF HostsHold

\* One more verdict of the pass, under the same name.
LEMMA VerdictKeeps ==
  ASSUME IInv, NEW e, AtEntry(e), NEW what \in {"skipped", "ignored", "applied"}, Record(what),
         UNCHANGED <<phase, entries>>, context'.host = context.host,
         what = "skipped" => FALSE \in Evaluations(e.conds),
         what # "skipped" => TRUE \in Evaluations(e.conds)
  PROVE  HostVerdicts' /\ HostBlocksCountWhole'
<1> DEFINE n == Len(outcome[phase]) + 1
<1>1. TypeOK /\ phase \in Passes /\ e = entries[n] /\ Len(outcome[phase]) \in Nat
  BY EntryAt DEF IInv, AtEntry
<1>2. /\ DOMAIN outcome'[phase] = 1 .. n /\ DOMAIN outcome[phase] = 1 .. Len(outcome[phase])
      /\ \A i \in 1 .. Len(outcome[phase]) : outcome'[phase][i] = outcome[phase][i]
      /\ outcome'[phase][n] = what
      /\ \A p \in Passes : p # phase => outcome'[p] = outcome[p]
  BY <1>1, RecordTyped
<1>3. 1 .. n = (1 .. Len(outcome[phase])) \cup {n}
  BY <1>1
<1>4. ASSUME NEW i \in 1 .. n, HostOnly(entries[i].conds)
      PROVE  (outcome'[phase][i] = "skipped") = ~HostsHold(entries[i].conds, context.host)
  <2>1. CASE i \in 1 .. Len(outcome[phase])
    BY <1>1, <1>2, <1>4, <2>1 DEF IInv, HostVerdicts
  <2>2. CASE i = n
    <3>1. /\ FALSE \in Evaluations(e.conds) => ~HostsHold(e.conds, context.host)
          /\ TRUE \in Evaluations(e.conds) => HostsHold(e.conds, context.host)
      BY <1>1, <1>4, <2>2, HostEvaluations
    <3>2. QED
      BY <1>1, <1>2, <2>2, <3>1
  <2>3. QED
    BY <1>3, <2>1, <2>2
<1>5. HostVerdicts'
  BY <1>2, <1>4 DEF HostVerdicts, HostOnly, HostsHold
<1>6. HostBlocksCountWhole'
  <2> SUFFICES ASSUME NEW p \in Passes, NEW i \in DOMAIN outcome'[p], NEW j \in DOMAIN outcome'[p],
                      entries[i].conds = entries[j].conds, HostOnly(entries[i].conds)
               PROVE  (outcome'[p][i] = "skipped") = (outcome'[p][j] = "skipped")
    BY DEF HostBlocksCountWhole, HostOnly
  <2>1. CASE p = phase
    BY <1>2, <1>4, <2>1
  <2>2. CASE p # phase
    BY <1>2, <2>2 DEF IInv, HostBlocksCountWhole, HostOnly
  <2>3. QED
    BY <2>1, <2>2
<1>7. QED
  BY <1>5, <1>6

LEMMA SkipKeeps ==
  ASSUME IInv, NEW e, SkipEntry(e)
  PROVE  IInv'
<1>1. /\ AtEntry(e) /\ FALSE \in Evaluations(e.conds) /\ Record("skipped")
      /\ UNCHANGED parserVars /\ UNCHANGED <<lookup, phase, entries, context, opts, fresh>>
  BY DEF SkipEntry
<1>2. TypeOK /\ phase \in Passes
  BY <1>1, EntryAt DEF IInv
<1>3. ParserInv' /\ CyclesAreHarmless'
  BY <1>1, ParserUnchanged DEF IInv
<1>4. TypeOK'
  BY <1>1, <1>2, <1>3, RecordTyped DEF TypeOK, ParserInv, IsOptions, Parsing, Passes
<1>5. ASSUME NEW p \in Passes, NEW k PROVE Value(p, k)' = Value(p, k)
  <2>1. AtEntry(e) /\ Record("skipped") /\ UNCHANGED entries
    BY <1>1
  <2>2. CASE p = phase
    BY ONLY <1>2, <1>4, <2>1, <2>2, RecordValue
  <2>3. CASE p # phase
    BY ONLY <1>2, <1>4, <1>5, <2>1, <2>3, RecordValue
  <2>4. QED
    BY <2>2, <2>3
<1>6. ValuesFollowHistory'
  BY <1>1, <1>2, <1>5, RecordTyped DEF IInv, ValuesFollowHistory, Passes, Earlier
<1>7. HostVerdicts' /\ HostBlocksCountWhole'
  BY <1>1, VerdictKeeps
<1>8. FirstMatchWins'
  BY <1>1, <1>2 DEF FirstMatchWins, Passes
<1>9. QED
  BY <1>3, <1>4, <1>6, <1>7, <1>8 DEF IInv

LEMMA RejectKeeps ==
  ASSUME IInv, NEW e, RejectEntry(e)
  PROVE  IInv'
<1>1. /\ phase' = "failed" /\ UNCHANGED parserVars
      /\ UNCHANGED <<lookup, entries, context, opts, fresh, outcome>>
  BY DEF RejectEntry
<1>2. ParserInv' /\ CyclesAreHarmless'
  BY <1>1, ParserUnchanged DEF IInv
<1>3. TypeOK'
  BY <1>1, <1>2 DEF IInv, TypeOK, ParserInv, IsOptions, Parsing, Passes
<1>4. ValuesFollowHistory' /\ FirstMatchWins' /\ HostVerdicts'
  BY <1>1 DEF ValuesFollowHistory, FirstMatchWins, HostVerdicts, Passes
<1>5. HostBlocksCountWhole'
  BY <1>1, HostBlocksUnchanged DEF IInv
<1>6. QED
  BY <1>2, <1>3, <1>4, <1>5 DEF IInv

LEMMA ApplyKeeps ==
  ASSUME IInv, NEW e, ApplyEntry(e)
  PROVE  IInv'
<1> DEFINE what == IF Ignores(Target, e.dir) THEN "ignored" ELSE "applied"
           next == ApplyDirective(Target, e.dir)
<1>1. /\ AtEntry(e) /\ TRUE \in Evaluations(e.conds) /\ ~Rejects(Target, e.dir)
      /\ Record(what) /\ UNCHANGED parserVars /\ UNCHANGED <<lookup, phase, entries>>
      /\ IF phase = "first" THEN opts' = next /\ context' = SeenBy(next) /\ fresh' = fresh
         ELSE fresh' = next /\ opts' = opts /\ context' = context
  BY DEF ApplyEntry
<1>2. /\ TypeOK /\ phase \in Passes /\ e.dir \in Directives /\ IsOptions(Target)
  BY <1>1, EntryAt DEF IInv, TypeOK, Target
<1>3. /\ IsOptions(next)
      /\ \A k \in ScalarKeys :
           next.scalar[k] = IF /\ what = "applied" /\ e.dir.key = k /\ e.dir.val # Invalid
                               /\ Target.scalar[k] = None
                            THEN e.dir.val ELSE Target.scalar[k]
  BY <1>1, <1>2, ApplyShape
<1> HIDE DEF next
<1>4. what \in {"skipped", "ignored", "applied"} /\ what # "skipped"
  OBVIOUS
<1> HIDE DEF what
<1>5. ParserInv' /\ CyclesAreHarmless'
  BY <1>1, ParserUnchanged DEF IInv
<1>6. /\ context' \in [host : Words, user : Words, tagged : Words, canonical : BOOLEAN, final : BOOLEAN]
      /\ context'.host = context.host
  <2>1. next.scalar["User"] \in Words /\ next.scalar["Tag"] \in Words
    BY <1>3 DEF IsOptions, ScalarKeys, ActiveKeys
  <2>2. context \in [host : Words, user : Words, tagged : Words, canonical : BOOLEAN, final : BOOLEAN]
    BY <1>2 DEF TypeOK
  <2>3. CASE phase = "first"
    <3> DEFINE u == IF context.user = None THEN next.scalar["User"] ELSE context.user
               g == IF next.scalar["Tag"] # None THEN next.scalar["Tag"] ELSE context.tagged
    <3>1. u \in Words /\ g \in Words
      BY <2>1, <2>2
    <3>2. context' = [context EXCEPT !.user = u, !.tagged = g]
      BY <1>1, <2>3 DEF SeenBy
    <3> HIDE DEF u, g
    <3>3. QED
      BY <2>2, <3>1, <3>2
  <2>4. CASE phase # "first"
    BY <1>1, <2>2, <2>4
  <2>5. QED
    BY <2>3, <2>4
<1>7. /\ outcome' \in [Passes -> Seq({"skipped", "ignored", "applied"})]
      /\ \A p \in Passes : Len(outcome'[p]) <= Len(entries)
      /\ outcome'[phase] # <<>> /\ \A p \in Passes : p # phase => outcome'[p] = outcome[p]
  BY <1>1, <1>2, <1>4, RecordTyped
<1>8. IsOptions(opts') /\ IsOptions(fresh')
  BY <1>1, <1>2, <1>3 DEF TypeOK
<1>9. TypeOK'
  <2>1. IsOptions(opts)' /\ IsOptions(fresh)'
    BY <1>8 DEF IsOptions
  <2>2. QED
    BY <1>1, <1>2, <1>5, <1>6, <1>7, <2>1 DEF TypeOK, ParserInv, Parsing, Passes
<1>10. \A p \in Passes, k \in ScalarKeys :
         IF p = phase THEN Value(p, k) = Target.scalar[k] => Value(p, k)' = next.scalar[k]
         ELSE Value(p, k)' = Value(p, k)
  <2> SUFFICES ASSUME NEW p \in Passes, NEW k \in ScalarKeys
               PROVE  IF p = phase THEN Value(p, k) = Target.scalar[k] => Value(p, k)' = next.scalar[k]
                      ELSE Value(p, k)' = Value(p, k)
    OBVIOUS
  <2>1. UNCHANGED entries
    BY <1>1
  <2>2. CASE p = phase
    <3>1. Value(p, k)' = IF /\ what = "applied" /\ e.dir.key = k /\ e.dir.val # Invalid
                            /\ Value(p, k) = None
                         THEN e.dir.val ELSE Value(p, k)
      BY ONLY <1>1, <1>2, <1>4, <1>9, <2>1, <2>2, RecordValue
    <3>2. QED
      BY <1>3, <2>2, <3>1
  <2>3. CASE p # phase
    BY <1>1, <1>2, <1>4, <1>9, <2>1, <2>3, RecordValue
  <2>4. QED
    BY <2>2, <2>3
<1>11. ValuesFollowHistory'
  <2>1. CASE phase = "first"
    BY <1>1, <1>7, <1>10, <2>1 DEF IInv, ValuesFollowHistory, Target, Passes
  <2>2. CASE phase = "canonical"
    BY <1>1, <1>7, <1>10, <2>2 DEF IInv, ValuesFollowHistory, Target, Passes, Plain
  <2>3. CASE phase = "final"
    BY <1>1, <1>7, <1>10, <2>3 DEF IInv, ValuesFollowHistory, Target, Passes, Plain, Earlier
  <2>4. QED
    BY <1>2, <2>1, <2>2, <2>3 DEF Passes
<1>12. HostVerdicts' /\ HostBlocksCountWhole'
  BY <1>1, <1>4, <1>6, VerdictKeeps
<1>13. FirstMatchWins'
  BY <1>1, <1>2 DEF FirstMatchWins, Passes
<1>14. QED
  BY <1>5, <1>9, <1>11, <1>12, <1>13 DEF IInv

-----------------------------------------------------------------------------
(* The ends of the passes.                                                 *)

\* The history stands still, and the next pass has none yet.
LEMMA PassEndKeeps ==
  ASSUME IInv, phase \in Passes, phase' \in {"canonical", "final", "done", "failed"},
         UNCHANGED parserVars, UNCHANGED <<lookup, entries, outcome>>,
         phase' \in Passes => outcome[phase'] = <<>>,
         phase' \in Passes => fresh' = NoOptions,
         IsOptions(opts'), IsOptions(fresh'),
         context' \in [host : Words, user : Words, tagged : Words, canonical : BOOLEAN, final : BOOLEAN]
  PROVE  ParserInv' /\ CyclesAreHarmless' /\ TypeOK' /\ HostVerdicts' /\ HostBlocksCountWhole'
<1>1. ParserInv' /\ CyclesAreHarmless'
  BY ParserUnchanged DEF IInv
<1>2. TypeOK'
  <2>1. IsOptions(opts)' /\ IsOptions(fresh)'
    BY DEF IsOptions
  <2>2. QED
    BY <1>1, <2>1 DEF IInv, TypeOK, ParserInv, Parsing, Passes
<1>3. HostVerdicts'
  BY DEF HostVerdicts
<1>4. HostBlocksCountWhole'
  BY HostBlocksUnchanged DEF IInv
<1>5. QED
  BY <1>1, <1>2, <1>3, <1>4

LEMMA FirstPassKeeps ==
  ASSUME IInv, FirstPassEnds
  PROVE  IInv'
<1>1. /\ phase = "first" /\ phase \in Passes
      /\ UNCHANGED parserVars /\ UNCHANGED <<lookup, entries, fresh, outcome>>
  BY DEF FirstPassEnds, AtPassEnd, Passes
<1>2. /\ fresh = NoOptions /\ outcome["canonical"] = <<>> /\ outcome["final"] = <<>>
      /\ \A k \in ScalarKeys : opts.scalar[k] = Value("first", k)
      /\ IsOptions(opts) /\ IsOptions(fresh) /\ lookup \in Lookups
      /\ context \in [host : Words, user : Words, tagged : Words, canonical : BOOLEAN, final : BOOLEAN]
  BY <1>1 DEF IInv, ValuesFollowHistory, TypeOK
<1>3. /\ IsOptions(NamesFilledIn)
      /\ \A k \in Plain : NamesFilledIn.scalar[k] = opts.scalar[k]
  BY <1>2, NamesShape DEF Plain
<1>4. PICK name \in CanonicalNames(NamesFilledIn) :
        IF name = None
        THEN /\ phase' = "final" /\ opts' = NamesFilledIn
             /\ context' = [context EXCEPT !.final = TRUE]
        ELSE /\ phase' = "canonical" /\ opts' = [NamesFilledIn EXCEPT !.scalar["HostName"] = name]
             /\ context' = [context EXCEPT !.host = name, !.canonical = TRUE]
  BY DEF FirstPassEnds
<1>5. name \in Words
  BY CanonicalNamesTyped
<1>6. IsOptions(opts') /\ \A k \in Plain : opts'.scalar[k] = opts.scalar[k]
  <2>1. CASE name = None
    BY <1>3, <1>4, <2>1
  <2>2. CASE name # None
    <3>1. "HostName" \in ScalarKeys
      BY KeysDisjoint
    <3>2. /\ IsOptions(opts')
          /\ \A j \in ScalarKeys :
               opts'.scalar[j] = IF j = "HostName" THEN name ELSE NamesFilledIn.scalar[j]
      <4> DEFINE q == [NamesFilledIn EXCEPT !.scalar["HostName"] = name]
      <4>1. IsOptions(q) /\ \A j \in ScalarKeys :
              q.scalar[j] = IF j = "HostName" THEN name ELSE NamesFilledIn.scalar[j]
        BY <1>3, <1>5, <3>1, HostNameShape
      <4>2. opts' = q
        BY <1>4, <2>2
      <4> HIDE DEF q
      <4>3. QED
        BY <4>1, <4>2
    <3>3. QED
      BY <1>3, <3>2 DEF Plain
  <2>3. QED
    BY <2>1, <2>2
<1>7. context' \in [host : Words, user : Words, tagged : Words, canonical : BOOLEAN, final : BOOLEAN]
  BY <1>2, <1>4, <1>5
<1>8. phase' \in {"canonical", "final"}
  BY <1>4
<1>9. ParserInv' /\ CyclesAreHarmless' /\ TypeOK' /\ HostVerdicts' /\ HostBlocksCountWhole'
  BY <1>1, <1>2, <1>6, <1>7, <1>8, PassEndKeeps
<1>10. /\ \A k : Value("canonical", k) = None /\ Value("final", k) = None
       /\ \A p, k : Value(p, k)' = Value(p, k)
  BY <1>1, <1>2, NothingSetYet, HistoryUnchanged
<1>11. ValuesFollowHistory'
  <2>1. \A k \in ScalarKeys : fresh'.scalar[k] = None
    BY <1>1, <1>2, NoOptionsShape
  <2>2. \A k \in Plain : opts'.scalar[k] = Value("first", k) /\ Value("first", k) = Earlier(k)
    BY <1>2, <1>6, <1>10 DEF Plain, Earlier
  <2>3. QED
    BY <1>1, <1>2, <1>8, <1>10, <2>1, <2>2 DEF ValuesFollowHistory, Earlier
<1>12. FirstMatchWins'
  BY <1>8 DEF FirstMatchWins
<1>13. QED
  BY <1>9, <1>11, <1>12 DEF IInv

LEMMA CanonicalPassKeeps ==
  ASSUME IInv, CanonicalPassEnds
  PROVE  IInv'
<1>1. /\ phase = "canonical" /\ phase \in Passes /\ phase' = "final"
      /\ opts' = Merge(opts, fresh) /\ fresh' = NoOptions
      /\ context' = [context EXCEPT !.final = TRUE]
      /\ UNCHANGED parserVars /\ UNCHANGED <<lookup, entries, outcome>>
  BY DEF CanonicalPassEnds, AtPassEnd, Passes
<1>2. /\ outcome["final"] = <<>> /\ IsOptions(opts) /\ IsOptions(fresh)
      /\ \A k \in Plain : opts.scalar[k] = Value("first", k)
      /\ \A k \in ScalarKeys : fresh.scalar[k] = Value("canonical", k)
      /\ context \in [host : Words, user : Words, tagged : Words, canonical : BOOLEAN, final : BOOLEAN]
  BY <1>1 DEF IInv, ValuesFollowHistory, TypeOK
<1>3. /\ IsOptions(opts') /\ IsOptions(fresh')
      /\ context' \in [host : Words, user : Words, tagged : Words, canonical : BOOLEAN, final : BOOLEAN]
  BY <1>1, <1>2, MergeShape, NoOptionsShape
<1>4. ParserInv' /\ CyclesAreHarmless' /\ TypeOK' /\ HostVerdicts' /\ HostBlocksCountWhole'
  BY <1>1, <1>2, <1>3, PassEndKeeps
<1>5. /\ \A k : Value("final", k) = None
      /\ \A p, k : Value(p, k)' = Value(p, k)
  BY <1>1, <1>2, NothingSetYet, HistoryUnchanged
<1>6. \A k \in Plain : opts'.scalar[k] = Earlier(k)
  BY <1>1, <1>2, MergeShape DEF Plain, Earlier
<1>7. \A k \in ScalarKeys : fresh'.scalar[k] = None
  BY <1>1, NoOptionsShape
<1>8. ValuesFollowHistory'
  BY <1>1, <1>5, <1>6, <1>7 DEF ValuesFollowHistory, Earlier
<1>9. FirstMatchWins'
  BY <1>1 DEF FirstMatchWins
<1>10. QED
  BY <1>4, <1>8, <1>9 DEF IInv

LEMMA FinalPassKeeps ==
  ASSUME IInv, FinalPassEnds
  PROVE  IInv'
<1> DEFINE m == Merge(opts, fresh)
           r == WithoutForwards(WithDefaults(WithPort(m)))
<1>1. /\ phase = "final" /\ phase \in Passes /\ phase' \in {"done", "failed"} /\ opts' = r
      /\ UNCHANGED parserVars /\ UNCHANGED <<lookup, entries, context, fresh, outcome>>
  BY DEF FinalPassEnds, AtPassEnd, Passes
<1>2. /\ IsOptions(opts) /\ IsOptions(fresh) /\ lookup \in Lookups
      /\ \A k \in Plain : opts.scalar[k] = Earlier(k)
      /\ \A k \in ScalarKeys : fresh.scalar[k] = Value("final", k)
      /\ context \in [host : Words, user : Words, tagged : Words, canonical : BOOLEAN, final : BOOLEAN]
  BY <1>1 DEF IInv, ValuesFollowHistory, TypeOK
<1>3. /\ IsOptions(m)
      /\ \A k \in Plain : m.scalar[k] = IF Earlier(k) = None THEN Value("final", k) ELSE Earlier(k)
  BY <1>2, MergeShape DEF Plain
<1> HIDE DEF m
<1>4. /\ IsOptions(r)
      /\ \A k \in ScalarKeys :
           r.scalar[k] = IF k = "Port" /\ lookup.port # None THEN lookup.port
                         ELSE IF m.scalar[k] # None THEN m.scalar[k] ELSE DefaultOf(k)
  BY <1>2, <1>3, LastShape
<1> HIDE DEF r
<1>5. phase' \notin Passes /\ phase' \in {"canonical", "final", "done", "failed"}
  BY <1>1 DEF Passes
<1>6. ParserInv' /\ CyclesAreHarmless' /\ TypeOK' /\ HostVerdicts' /\ HostBlocksCountWhole'
  BY <1>1, <1>2, <1>4, <1>5, PassEndKeeps
<1>7. ValuesFollowHistory'
  BY <1>1 DEF ValuesFollowHistory
<1>8. FirstMatchWins'
  <2>1. \A p \in Passes : \A k :
          IF Setting(p, k) # {} THEN Value(p, k) # None /\ Value(p, k) = FirstValue(p, k)
          ELSE Value(p, k) = None
    BY ValueIsSet DEF IInv, Value
  <2>2. ASSUME NEW k \in Plain
        PROVE  opts'.scalar[k] =
                 IF k = "Port" /\ lookup.port # None THEN lookup.port
                 ELSE IF Setting("first", k) # {} THEN FirstValue("first", k)
                 ELSE IF Setting("canonical", k) # {} THEN FirstValue("canonical", k)
                 ELSE IF Setting("final", k) # {} THEN FirstValue("final", k)
                 ELSE DefaultOf(k)
    <3>1. k \in ScalarKeys /\ "first" \in Passes /\ "canonical" \in Passes /\ "final" \in Passes
      BY DEF Plain, Passes
    <3>2. m.scalar[k] = IF Setting("first", k) # {} THEN FirstValue("first", k)
                        ELSE IF Setting("canonical", k) # {} THEN FirstValue("canonical", k)
                        ELSE Value("final", k)
      BY <1>3, <2>1, <3>1 DEF Earlier
    <3>3. QED
      BY <1>1, <1>4, <2>1, <3>1, <3>2
  <2>3. \A p, k : Setting(p, k)' = Setting(p, k) /\ FirstValue(p, k)' = FirstValue(p, k)
    BY <1>1, HistoryUnchanged
  <2>4. \A k : DefaultOf(k)' = DefaultOf(k)
    BY DEF DefaultOf
  <2>5. QED
    BY <1>1, <2>2, <2>3, <2>4 DEF FirstMatchWins, Plain
<1>9. QED
  BY <1>6, <1>7, <1>8 DEF IInv

-----------------------------------------------------------------------------
(* The theorems.                                                           *)

LEMMA NextKeeps == IInv /\ [Next]_vars => IInv'
<1> SUFFICES ASSUME IInv, [Next]_vars PROVE IInv'
  OBVIOUS
<1>1. CASE UNCHANGED vars
  <2>1. UNCHANGED parserVars /\ UNCHANGED resolveVars
    BY <1>1 DEF vars
  <2>2. ParserInv' /\ CyclesAreHarmless' /\ HostBlocksCountWhole'
    BY <2>1, ParserUnchanged, HostBlocksUnchanged DEF IInv, resolveVars
  <2>3. TypeOK'
    BY <2>1, <2>2 DEF IInv, TypeOK, ParserInv, IsOptions, Parsing, resolveVars
  <2>3a. \A p, k : /\ Setting(p, k)' = Setting(p, k) /\ FirstValue(p, k)' = FirstValue(p, k)
                  /\ Value(p, k)' = Value(p, k)
    BY <2>1, HistoryUnchanged DEF resolveVars
  <2>4. ValuesFollowHistory'
    BY <2>1, <2>3a DEF IInv, ValuesFollowHistory, Earlier, resolveVars
  <2>5. FirstMatchWins'
    BY <2>1, <2>3a DEF IInv, FirstMatchWins, DefaultOf, resolveVars
  <2>6. HostVerdicts'
    BY <2>1 DEF IInv, HostVerdicts, HostOnly, HostsHold, InList, resolveVars
  <2>7. QED
    BY <2>2, <2>3, <2>4, <2>5, <2>6 DEF IInv
<1>2. CASE Next
  BY <1>2, ReadingKeeps, SourceDoneKeeps, SkipKeeps, RejectKeeps, ApplyKeeps,
     FirstPassKeeps, CanonicalPassKeeps, FinalPassKeeps DEF Next
<1>3. QED
  BY <1>1, <1>2

\* Every pass only fills in what is unset; the two exceptions are those of ScalarsStay.
LEMMA ScalarsStayStep ==
  ASSUME IInv, Next, NEW k \in ScalarKeys, opts.scalar[k] # None
  PROVE  \/ opts'.scalar[k] = opts.scalar[k]
         \/ k = "HostName" /\ phase' = "canonical"
         \/ k = "Port" /\ lookup.port # None
<1>1. IsOptions(opts) /\ IsOptions(fresh) /\ lookup \in Lookups /\ TypeOK
  BY DEF IInv, TypeOK
<1>2. CASE UNCHANGED opts
  BY <1>2
<1>3. CASE \E e \in ToSet(entries) : ApplyEntry(e)
  <2>1. PICK e : ApplyEntry(e)
    BY <1>3
  <2>2. CASE phase = "first"
    <3>1. e.dir \in Directives /\ ~Rejects(opts, e.dir) /\ opts' = ApplyDirective(opts, e.dir)
      BY <1>1, <2>1, <2>2, EntryAt DEF ApplyEntry, Target
    <3>2. QED
      BY <1>1, <3>1, ApplyShape
  <2>3. CASE phase # "first"
    BY <2>1, <2>3 DEF ApplyEntry
  <2>4. QED
    BY <2>2, <2>3
<1>4. CASE FirstPassEnds
  <2>1. IsOptions(NamesFilledIn) /\ NamesFilledIn.scalar[k] = opts.scalar[k]
    BY <1>1, NamesShape
  <2>2. PICK name \in CanonicalNames(NamesFilledIn) :
          IF name = None THEN opts' = NamesFilledIn
          ELSE phase' = "canonical" /\ opts' = [NamesFilledIn EXCEPT !.scalar["HostName"] = name]
    BY <1>4 DEF FirstPassEnds
  <2>3. CASE name = None
    BY <2>1, <2>2, <2>3
  <2>4. CASE name # None
    <3>1. "HostName" \in ScalarKeys /\ name \in Words
      BY KeysDisjoint, CanonicalNamesTyped
    <3> DEFINE q == [NamesFilledIn EXCEPT !.scalar["HostName"] = name]
    <3>2. \A j \in ScalarKeys : q.scalar[j] = IF j = "HostName" THEN name ELSE NamesFilledIn.scalar[j]
      BY <2>1, <3>1, HostNameShape
    <3>3. opts' = q /\ phase' = "canonical"
      BY <2>2, <2>4
    <3> HIDE DEF q
    <3>4. QED
      BY <2>1, <3>2, <3>3
  <2>5. QED
    BY <2>3, <2>4
<1>5. CASE CanonicalPassEnds
  BY <1>1, <1>5, MergeShape DEF CanonicalPassEnds
<1>6. CASE FinalPassEnds
  <2> DEFINE m == Merge(opts, fresh)
             r == WithoutForwards(WithDefaults(WithPort(m)))
  <2>1. opts' = r
    BY <1>6 DEF FinalPassEnds
  <2>2. IsOptions(m) /\ m.scalar[k] = opts.scalar[k]
    BY <1>1, MergeShape
  <2> HIDE DEF m
  <2>3. r.scalar[k] = IF k = "Port" /\ lookup.port # None THEN lookup.port
                      ELSE IF m.scalar[k] # None THEN m.scalar[k] ELSE DefaultOf(k)
    BY <1>1, <2>2, LastShape
  <2> HIDE DEF r
  <2>4. QED
    BY <2>1, <2>2, <2>3
<1>7. QED
  BY <1>2, <1>3, <1>4, <1>5, <1>6
  DEF Next, NoConfig, OpenConfig, ReadConfig, TakeEntries, ParseFails, SkipEntry, RejectEntry, resolveVars

\* The inductive invariant holds throughout, whatever the files and the command line.
THEOREM Invariance == Spec => []IInv
<1>1. Init => IInv
  BY InitIInv
<1>2. IInv /\ [Next]_vars => IInv'
  BY NextKeeps
<1>3. QED
  BY <1>1, <1>2, PTL DEF Spec

\* Types of the parser and of Resolve, and where its three loops are, for any files,
\* keywords and command line (resolve.go:173-254).
THEOREM TypesAreCorrect == Spec => []TypeOK
<1>1. IInv => TypeOK
  BY DEF IInv
<1>2. QED
  BY <1>1, Invariance, PTL

\* parser.go:60-64: visitedFiles is the set of the files being read, each by one call.
THEOREM VisitedFilesAreRead == Spec => []VisitedAreBeingRead
<1>1. IInv => VisitedAreBeingRead
  BY DEF IInv, ParserInv
<1>2. QED
  BY <1>1, Invariance, PTL

\* parser.go:61: no parse fails over a cycle of Includes, however long it is.
THEOREM CyclesNeverFail == Spec => []CyclesAreHarmless
<1>1. IInv => CyclesAreHarmless
  BY DEF IInv
<1>2. QED
  BY <1>1, Invariance, PTL

\* resolve.go:64-71: the first entry that applies, in the earliest pass, decides.
THEOREM FirstMatchDecides == Spec => []FirstMatchWins
<1>1. IInv => FirstMatchWins
  BY DEF IInv
<1>2. QED
  BY <1>1, Invariance, PTL

\* resolve.go:185-191: no directive drops those that follow it under the same Host line.
THEOREM HostBlocksAreWhole == Spec => []HostBlocksCountWhole
<1>1. IInv => HostBlocksCountWhole
  BY DEF IInv
<1>2. QED
  BY <1>1, Invariance, PTL

\* First-value-wins as a property of steps: no directive, pass or default changes an
\* option that has a value (apply.go:41-73, mergeOptions).
THEOREM ScalarsAreFinal == Spec => ScalarsStay
<1>1. IInv /\ [Next]_vars =>
        [\A k \in ScalarKeys :
           opts.scalar[k] # None => \/ opts'.scalar[k] = opts.scalar[k]
                                    \/ k = "HostName" /\ phase' = "canonical"
                                    \/ k = "Port" /\ lookup.port # None]_vars
  BY ScalarsStayStep
<1>2. QED
  BY <1>1, Invariance, PTL DEF Spec, ScalarsStay

-----------------------------------------------------------------------------
(* The command line.                                                       *)

\* What CommandLineWins says of argument i.
Won(i) ==
  LET d == lookup.cli[i] IN
  \/ d.key \notin ScalarKeys \/ d.val = Invalid
  \/ \E j \in 1 .. i - 1 : lookup.cli[j].key = d.key
  \/ \E j \in 1 .. i - 1 : lookup.cli[j].key = "IgnoreUnknown" /\ lookup.cli[j].val = d.key
  \/ d.key = "HostName" /\ context.canonical
  \/ d.key = "Port" /\ lookup.port # None
  \/ opts.scalar[d.key] = d.val

\* The command line comes first and under no condition, so that the first pass has been through
\* it before it looks at a file; until then only it can have made a keyword ignored.
CommandLineInv ==
  /\ Len(lookup.cli) <= Len(entries)
  /\ \A i \in 1 .. Len(lookup.cli) : entries[i] = [conds |-> <<>>, dir |-> lookup.cli[i]]
  /\ phase = "first" =>
       /\ \A i \in 1 .. Len(lookup.cli) : i <= Len(outcome["first"]) => Won(i)
       /\ Len(outcome["first"]) <= Len(lookup.cli) =>
            \A v \in opts.ignored : \E j \in 1 .. Len(outcome["first"]) :
              lookup.cli[j].key = "IgnoreUnknown" /\ lookup.cli[j].val = v
  /\ phase \in {"canonical", "final", "done"} => \A i \in 1 .. Len(lookup.cli) : Won(i)

LEMMA CommandLineTyped ==
  ASSUME TypeOK
  PROVE  /\ lookup.cli \in Seq(Directives) /\ Len(lookup.cli) \in Nat
         /\ DOMAIN lookup.cli = 1 .. Len(lookup.cli)
         /\ \A i \in 1 .. Len(lookup.cli) :
              lookup.cli[i] \in Directives /\ lookup.cli[i].val \in Words \ {None}
<1>1. lookup.cli \in Seq(Directives)
  BY LookupsAssumption DEF TypeOK
<1>2. QED
  BY <1>1, LenProperties, ElementOfSeq, DirectivesAssumption

LEMMA CommandLineFirst ==
  ASSUME CommandLineInv, NEW i \in 1 .. Len(lookup.cli)
  PROVE  entries[i].conds = <<>> /\ entries[i].dir = lookup.cli[i]
<1>1. entries[i] = [conds |-> <<>>, dir |-> lookup.cli[i]]
  BY DEF CommandLineInv
<1>2. QED
  BY <1>1

\* Only IgnoreUnknown makes a keyword ignored.
LEMMA IgnoredShape ==
  ASSUME NEW o, IsOptions(o), NEW d
  PROVE  ApplyDirective(o, d).ignored \subseteq
           o.ignored \cup {v \in {d.val} : d.key = "IgnoreUnknown"}
<1>1. CASE Ignores(o, d)
  BY <1>1 DEF ApplyDirective
<1>2. ASSUME NEW key PROVE SetScalar(o, d).ignored = o.ignored /\ DOMAIN SetScalar(o, d) = DOMAIN o
  BY DEF SetScalar, IsOptions
<1>3. CASE ~Ignores(o, d) /\ d.key = "IgnoreUnknown"
  <2> DEFINE q == SetScalar(o, d)
  <2>1. q.ignored = o.ignored /\ "ignored" \in DOMAIN q
    BY <1>2 DEF IsOptions
  <2> HIDE DEF q
  <2>2. [q EXCEPT !.ignored = @ \cup {d.val}].ignored = q.ignored \cup {d.val}
    BY <2>1
  <2>3. ApplyDirective(o, d) = [q EXCEPT !.ignored = @ \cup {d.val}]
    BY <1>3 DEF ApplyDirective, Ignore, q
  <2>4. QED
    BY <1>3, <2>1, <2>2, <2>3
<1>4. CASE ~Ignores(o, d) /\ d.key # "IgnoreUnknown"
  <2>1. AppendValue(o, d).ignored = o.ignored
    BY DEF AppendValue, IsOptions
  <2>2. SetIdentity(o, d).ignored = o.ignored
    BY <2>1 DEF SetIdentity, IsOptions
  <2>3. SetSendEnv(o, d).ignored = o.ignored
    BY <2>1 DEF SetSendEnv, IsOptions
  <2>4. QED
    BY <1>2, <1>4, <2>1, <2>2, <2>3 DEF ApplyDirective
<1>5. QED
  BY <1>1, <1>3, <1>4

\* What has won has won for good.
LEMMA WonStays ==
  ASSUME IInv, [Next]_vars, NEW i \in 1 .. Len(lookup.cli), Won(i), UNCHANGED lookup,
         context.canonical => context'.canonical,
         phase' = "canonical" => context'.canonical \/ UNCHANGED opts
  PROVE  Won(i)'
<1> DEFINE d == lookup.cli[i]
<1>1. d.val # None
  BY CommandLineTyped DEF IInv
<1>2. CASE d.key \in ScalarKeys /\ opts.scalar[d.key] = d.val
  <2>1. CASE UNCHANGED vars
    BY <1>2, <2>1 DEF Won, vars, resolveVars
  <2>2. CASE Next
    <3>1. \/ opts'.scalar[d.key] = opts.scalar[d.key]
          \/ d.key = "HostName" /\ phase' = "canonical"
          \/ d.key = "Port" /\ lookup.port # None
      BY <1>1, <1>2, <2>2, ScalarsStayStep
    <3>2. QED
      BY <1>2, <3>1 DEF Won
  <2>3. QED
    BY <2>1, <2>2
<1>3. CASE ~(d.key \in ScalarKeys /\ opts.scalar[d.key] = d.val)
  BY <1>3 DEF Won
<1>4. QED
  BY <1>2, <1>3

\* The first pass at entry i of the command line.
LEMMA ArgumentWins ==
  ASSUME IInv, IInv', CommandLineInv, NEW e, ApplyEntry(e), phase = "first",
         NEW i, i = Len(outcome["first"]) + 1, i \in 1 .. Len(lookup.cli)
  PROVE  Won(i)'
<1> DEFINE d == lookup.cli[i]
<1>1. /\ e = entries[i] /\ e.dir = d /\ d \in Directives /\ IsOptions(opts)
      /\ ~Rejects(opts, d) /\ opts' = ApplyDirective(opts, d) /\ lookup' = lookup
      /\ Len(outcome["first"]) \in Nat
  <2>1. e = entries[i] /\ TypeOK
    BY DEF ApplyEntry, AtEntry, IInv
  <2>2. e.dir = d
    BY <2>1, CommandLineFirst
  <2>3. QED
    BY <2>1, <2>2, CommandLineTyped, EntryAt DEF ApplyEntry, Target, TypeOK
<1>2. CASE d.key \notin ScalarKeys \/ d.val = Invalid
  BY <1>1, <1>2 DEF Won
<1>3. CASE Ignores(opts, d) /\ d.key \in ScalarKeys
  <2>1. d.key \in opts.ignored
    BY <1>3 DEF Ignores
  <2>2. PICK j \in 1 .. Len(outcome["first"]) :
          lookup.cli[j].key = "IgnoreUnknown" /\ lookup.cli[j].val = d.key
    BY <1>1, <2>1, CommandLineTyped DEF CommandLineInv, IInv
  <2>3. j \in 1 .. i - 1
    BY <1>1, <2>2
  <2>4. QED
    BY <1>1, <2>2, <2>3 DEF Won
<1>4. CASE ~Ignores(opts, d) /\ d.key \in ScalarKeys /\ d.val # Invalid
  <2>1. opts'.scalar[d.key] = IF opts.scalar[d.key] = None THEN d.val ELSE opts.scalar[d.key]
    BY <1>1, <1>4, ApplyShape
  <2>2. CASE opts.scalar[d.key] = None
    BY <1>1, <2>1, <2>2 DEF Won
  <2>3. CASE opts.scalar[d.key] # None
    <3>1. Value("first", d.key) # None /\ "first" \in Passes
      BY <1>4, <2>3 DEF IInv, ValuesFollowHistory, Passes
    <3>2. PICK j \in Setting("first", d.key) : TRUE
      BY <3>1, ValueIsSet DEF IInv
    <3>3. j \in 1 .. Len(outcome["first"]) /\ entries[j].dir.key = d.key
      BY <3>1, <3>2, SettingTyped DEF IInv, Setting
    <3>4. j \in 1 .. i - 1 /\ j \in 1 .. Len(lookup.cli)
      BY <1>1, <3>3, CommandLineTyped DEF IInv
    <3>5. lookup.cli[j].key = d.key
      BY <3>3, <3>4, CommandLineFirst
    <3>6. QED
      BY <1>1, <3>4, <3>5 DEF Won
  <2>4. QED
    BY <2>2, <2>3
<1>5. QED
  BY <1>2, <1>3, <1>4

\* An entry of a pass: one of the command line is never skipped, and one of a file comes too late
\* to matter to it.
LEMMA EntryKeepsCommandLine ==
  ASSUME IInv, IInv', CommandLineInv, [Next]_vars, NEW e, SkipEntry(e) \/ ApplyEntry(e)
  PROVE  CommandLineInv'
<1> DEFINE n == Len(outcome["first"])
<1>1. UNCHANGED <<lookup, entries, phase>> /\ phase \in Passes /\ AtEntry(e) /\ TypeOK
  BY EntryAt DEF SkipEntry, ApplyEntry, IInv
<1>2. context'.canonical = context.canonical /\ (phase # "first" => UNCHANGED opts)
  BY DEF SkipEntry, ApplyEntry, SeenBy, IInv, TypeOK
<1>3. \A i \in 1 .. Len(lookup.cli) : Won(i) => Won(i)'
  BY <1>1, <1>2, WonStays DEF Passes
<1>4. /\ Len(lookup'.cli) <= Len(entries')
      /\ \A i \in 1 .. Len(lookup'.cli) : entries'[i] = [conds |-> <<>>, dir |-> lookup'.cli[i]]
  BY <1>1 DEF CommandLineInv
<1>5. CASE phase # "first"
  BY <1>1, <1>3, <1>4, <1>5 DEF CommandLineInv
<1>6. CASE phase = "first"
  <2>1. /\ n \in Nat /\ n + 1 \in 1 .. Len(entries) /\ e = entries[n + 1] /\ Len(lookup.cli) \in Nat
    BY <1>1, <1>6, EntryAt, CommandLineTyped DEF AtEntry
  <2>2. Len(outcome'["first"]) = n + 1
    <3>1. PICK what \in {"skipped", "ignored", "applied"} : Record(what)
      BY DEF SkipEntry, ApplyEntry
    <3>2. outcome'["first"] = Append(outcome["first"], what)
      BY <1>1, <1>6, <3>1 DEF Record, TypeOK
    <3>3. outcome["first"] \in Seq({"skipped", "ignored", "applied"})
      BY <1>1, <1>6 DEF TypeOK
    <3>4. QED
      BY <3>2, <3>3, AppendProperties
  <2>3. CASE n + 1 > Len(lookup.cli)
    <3>1. \A i \in 1 .. Len(lookup.cli) : Won(i)
      BY <1>6, <2>1, <2>3 DEF CommandLineInv
    <3>2. QED
      BY <1>1, <1>3, <1>4, <1>6, <2>1, <2>2, <2>3, <3>1 DEF CommandLineInv
  <2>4. CASE n + 1 <= Len(lookup.cli)
    <3>1. n + 1 \in 1 .. Len(lookup.cli)
      BY <2>1, <2>4
    <3>2. e.conds = <<>> /\ e.dir = lookup.cli[n + 1]
      BY <2>1, <3>1, CommandLineFirst
    <3>3. ApplyEntry(e)
      <4>1. Evaluations(<<>>) = {TRUE}
        BY DEF Evaluations
      <4>2. QED
        BY <3>2, <4>1 DEF SkipEntry
    <3>4. PICK new \in 1 .. Len(lookup.cli) : new = n + 1
      BY <3>1
    <3>5. Won(new)'
      BY <1>6, <3>3, <3>4, ArgumentWins
    <3>6. ASSUME NEW i \in 1 .. Len(lookup.cli), i <= n + 1 PROVE Won(i)'
      <4>1. i = new \/ i <= n
        BY <2>1, <3>4, <3>6
      <4>2. i <= n => Won(i)
        BY <1>6 DEF CommandLineInv
      <4>3. QED
        BY <1>3, <3>5, <4>1, <4>2
    <3>7. opts'.ignored \subseteq opts.ignored \cup {v \in {e.dir.val} : e.dir.key = "IgnoreUnknown"}
      <4>1. opts' = ApplyDirective(opts, e.dir)
        BY <1>6, <3>3 DEF ApplyEntry, Target
      <4>2. QED
        BY <1>1, <4>1, IgnoredShape DEF TypeOK
    <3>8. ASSUME NEW v \in opts'.ignored
          PROVE  \E j \in 1 .. n + 1 : lookup.cli[j].key = "IgnoreUnknown" /\ lookup.cli[j].val = v
      <4>1. CASE v \in opts.ignored
        <5>1. n <= Len(lookup.cli)
          BY <2>1, <2>4
        <5>2. PICK j \in 1 .. n : lookup.cli[j].key = "IgnoreUnknown" /\ lookup.cli[j].val = v
          BY <1>6, <4>1, <5>1 DEF CommandLineInv
        <5>3. j \in 1 .. n + 1
          BY <2>1
        <5>4. QED
          BY <5>2, <5>3
      <4>2. CASE v = e.dir.val /\ e.dir.key = "IgnoreUnknown"
        BY <2>1, <3>1, <3>2, <4>2
      <4>3. QED
        BY <3>7, <3>8, <4>1, <4>2
    <3>9. QED
      BY <1>1, <1>4, <1>6, <2>1, <2>2, <3>6, <3>8 DEF CommandLineInv
  <2>5. QED
    BY <2>1, <2>3, <2>4
<1>7. QED
  BY <1>5, <1>6

\* The files go behind the command line.
LEMMA SourceKeepsCommandLine ==
  ASSUME IInv, CommandLineInv, NoConfig \/ TakeEntries \/ ParseFails
  PROVE  CommandLineInv'
<1>1. /\ phase \in {"user", "system"} /\ phase' \in {"system", "first", "failed"}
      /\ UNCHANGED <<lookup, context, opts, outcome>>
  BY DEF NoConfig, TakeEntries, ParseFails, Parsing, Following
<1>2. opts.ignored = {} /\ outcome["first"] = <<>> /\ TypeOK
  BY <1>1 DEF IInv, ValuesFollowHistory, NoOptions, Passes
<1>3. Len(lookup.cli) \in Nat /\ entries \in Seq(Entry) /\ result \in Seq(Entry)
  BY <1>2, CommandLineTyped DEF TypeOK, ParserTypeOK
<1>4. entries' = entries \/ entries' = entries \o result
  BY DEF NoConfig, TakeEntries, ParseFails
<1>5. Len(entries') >= Len(entries) /\ \A i \in 1 .. Len(entries) : entries'[i] = entries[i]
  BY <1>3, <1>4
<1>6. /\ Len(lookup'.cli) <= Len(entries')
      /\ \A i \in 1 .. Len(lookup'.cli) : entries'[i] = [conds |-> <<>>, dir |-> lookup'.cli[i]]
  <2>1. 1 .. Len(lookup.cli) \subseteq 1 .. Len(entries) /\ Len(lookup.cli) <= Len(entries')
    BY <1>3, <1>4, <1>5 DEF CommandLineInv
  <2>2. QED
    BY <1>1, <1>5, <2>1 DEF CommandLineInv
<1>7. opts'.ignored = {} /\ Len(outcome'["first"]) = 0
  BY <1>1, <1>2
<1>8. \A i \in 1 .. Len(lookup'.cli) : ~(i <= 0)
  BY <1>1, <1>3
<1>9. QED
  BY <1>1, <1>6, <1>7, <1>8 DEF CommandLineInv

\* What is won stays won behind the end of a pass.
LEMMA PassEndKeepsCommandLine ==
  ASSUME IInv, IInv', CommandLineInv, Next, FirstPassEnds \/ CanonicalPassEnds \/ FinalPassEnds
  PROVE  CommandLineInv'
<1>1. UNCHANGED <<lookup, entries, outcome>> /\ phase' # "first" /\ Len(lookup.cli) \in Nat
  BY CommandLineTyped DEF FirstPassEnds, CanonicalPassEnds, FinalPassEnds, IInv
<1>2. context.canonical => context'.canonical
  BY DEF FirstPassEnds, CanonicalPassEnds, FinalPassEnds, IInv, TypeOK
<1>3. phase' = "canonical" => context'.canonical
  BY DEF FirstPassEnds, CanonicalPassEnds, FinalPassEnds, IInv, TypeOK
<1>4. ASSUME NEW i \in 1 .. Len(lookup.cli) PROVE Won(i)
  <2>1. CASE phase = "first" /\ Len(outcome["first"]) = Len(entries)
    BY <1>1, <2>1 DEF CommandLineInv
  <2>2. CASE phase \in {"canonical", "final"}
    BY <2>2 DEF CommandLineInv
  <2>3. QED
    BY <2>1, <2>2 DEF FirstPassEnds, CanonicalPassEnds, FinalPassEnds, AtPassEnd
<1>5. \A i \in 1 .. Len(lookup.cli) : Won(i)'
  BY <1>1, <1>2, <1>3, <1>4, WonStays
<1>6. QED
  BY <1>1, <1>5 DEF CommandLineInv

\* resolve.go:64-71: whatever the files hold and their Match blocks do, what the command line
\* sets is what the options say in the end; the exceptions are those of CommandLineWins.
THEOREM CommandLineIsFirst == Spec => []CommandLineWins
<1>1. Init => CommandLineInv
  <2> SUFFICES ASSUME Init PROVE CommandLineInv
    OBVIOUS
  <2>1. lookup.cli \in Seq(Directives)
    BY LookupsAssumption DEF Init
  <2>2. DOMAIN lookup.cli = 1 .. Len(lookup.cli) /\ Len(lookup.cli) \in Nat
    BY <2>1, LenProperties
  <2>3. entries = [i \in 1 .. Len(lookup.cli) |-> [conds |-> <<>>, dir |-> lookup.cli[i]]]
    BY <2>2 DEF Init, Unconditional
  <2>4. Len(entries) = Len(lookup.cli)
    BY <2>2, <2>3
  <2>5. QED
    BY <2>2, <2>3, <2>4 DEF Init, CommandLineInv
<1>2. IInv /\ IInv' /\ CommandLineInv /\ [Next]_vars => CommandLineInv'
  <2> SUFFICES ASSUME IInv, IInv', CommandLineInv, [Next]_vars PROVE CommandLineInv'
    OBVIOUS
  <2>1. CASE UNCHANGED resolveVars
    BY <2>1 DEF CommandLineInv, Won, resolveVars
  <2>2. CASE NoConfig \/ TakeEntries \/ ParseFails
    BY <2>2, SourceKeepsCommandLine
  <2>3. ASSUME NEW e, SkipEntry(e) \/ ApplyEntry(e) PROVE CommandLineInv'
    BY <2>3, EntryKeepsCommandLine
  <2>4. ASSUME NEW e, RejectEntry(e) PROVE CommandLineInv'
    BY <2>4 DEF RejectEntry, CommandLineInv
  <2>5. CASE FirstPassEnds \/ CanonicalPassEnds \/ FinalPassEnds
    BY <2>5, PassEndKeepsCommandLine DEF Next
  <2>6. QED
    BY <2>1, <2>2, <2>3, <2>4, <2>5 DEF Next, OpenConfig, ReadConfig, vars
<1>3. IInv /\ CommandLineInv => CommandLineWins
  <2> SUFFICES ASSUME IInv, CommandLineInv, phase = "done", NEW i \in DOMAIN lookup.cli PROVE Won(i)
    BY DEF CommandLineWins, Won
  <2>1. i \in 1 .. Len(lookup.cli)
    BY CommandLineTyped DEF IInv
  <2>2. QED
    BY <2>1 DEF CommandLineInv
<1>4. QED
  BY <1>1, <1>2, <1>3, Invariance, PTL DEF Spec

-----------------------------------------------------------------------------
(* What the parser returns, against the flat reading.                      *)

ReadingInv ==
  /\ status = "reading" => Parsing /\ stack[1].file = Source /\ StackReads(tree, stack)
  /\ status = "parsed"  => Parsing /\ result = FlatReadingOf(Source)

LEMMA ReadingFollows ==
  ASSUME IInv, IInv', ReadingInv, OpenConfig \/ ReadConfig
  PROVE  ReadingInv'
<1>1. Parsing /\ UNCHANGED <<phase, tree>> /\ ParserInv /\ ParserInv'
  <2>1. tree' = tree
    <3>1. CASE OpenConfig
      BY <3>1 DEF OpenConfig, Start, Fail
    <3>2. CASE ReadConfig
      BY <3>2, StepReads DEF ReadConfig, ReadingInv, IInv, ParserStep, ReadBlock, ReadOption,
        ReadBad, ReadInclude, NextPath, EndInclude, EndFile, SkipMatch, ExceedDepth, SkipVisited,
        OpenMatch, Match, Including, At, BetweenLines
    <3>3. QED
      BY <3>1, <3>2
  <2>2. QED
    BY <2>1 DEF OpenConfig, ReadConfig, resolveVars, IInv
<1>2. Parsing' /\ Source' = Source
  BY <1>1 DEF Parsing, Source
<1>3. CASE OpenConfig
  <2>1. Source \in Files
    BY SourcesAssumption DEF Source
  <2>2. PICK f \in Files : f = Source
    BY <2>1
  <2>3. Start(f)
    BY <1>3, <2>2 DEF OpenConfig
  <2>4. status' # "parsed"
    BY <2>3 DEF Start, Fail
  <2>5. status' = "reading" => StackReads(tree, stack') /\ stack'[1].file = f
    BY <1>1, <2>3, StartReads
  <2>6. QED
    BY <1>1, <1>2, <2>2, <2>4, <2>5 DEF ReadingInv, StackReads, FrameAt
<1>4. CASE ReadConfig
  <2>1. status = "reading" /\ ParserStep
    BY <1>4 DEF ReadConfig, ParserStep, ReadBlock, ReadOption, ReadBad, ReadInclude, NextPath,
      EndInclude, EndFile, SkipMatch, ExceedDepth, SkipVisited, OpenMatch, Match, Including, At,
      BetweenLines
  <2>2. StackReads(tree, stack) /\ stack[1].file = Source
    BY <2>1 DEF ReadingInv
  <2>3. /\ status' = "reading" => StackReads(tree, stack') /\ stack'[1].file = stack[1].file
        /\ status' = "parsed" => result' = FlatReadingOf(stack[1].file)
    BY <1>1, <2>1, <2>2, StepReads
  <2>4. FlatReadingOf(Source)' = FlatReadingOf(Source)
    BY <1>1, <1>2 DEF FlatReadingOf
  <2>5. QED
    BY <1>1, <1>2, <2>2, <2>3, <2>4 DEF ReadingInv
<1>5. QED
  BY <1>3, <1>4

\* parser.go:121: for any files, any Includes among them and any depth, what ParseFile returns
\* is the flat reading of the file it was called for.
THEOREM EntriesAreAsRead == Spec => []EntriesAreFlatReading
<1>1. Init => ReadingInv
  BY DEF Init, ParserInit, ReadingInv
<1>2. IInv /\ IInv' /\ ReadingInv /\ [Next]_vars => ReadingInv'
  <2> SUFFICES ASSUME IInv, IInv', ReadingInv, [Next]_vars PROVE ReadingInv'
    OBVIOUS
  <2>1. CASE OpenConfig \/ ReadConfig
    BY <2>1, ReadingFollows
  <2>2. CASE NoConfig \/ TakeEntries \/ ParseFails
    BY <2>2 DEF NoConfig, TakeEntries, ParseFails, ReadingInv, parserVars
  <2>3. CASE UNCHANGED vars
    BY <2>3 DEF vars, parserVars, resolveVars, ReadingInv, Parsing, Source, FlatReadingOf
  <2>4. CASE phase \in Passes /\ UNCHANGED parserVars
    BY <2>4 DEF ReadingInv, Parsing, Passes, parserVars
  <2>5. ASSUME NEW e, SkipEntry(e) \/ RejectEntry(e) \/ ApplyEntry(e) PROVE ReadingInv'
    BY <2>4, <2>5 DEF SkipEntry, RejectEntry, ApplyEntry, AtEntry
  <2>6. CASE FirstPassEnds \/ CanonicalPassEnds \/ FinalPassEnds
    BY <2>4, <2>6 DEF FirstPassEnds, CanonicalPassEnds, FinalPassEnds, AtPassEnd, Passes
  <2>7. QED
    BY <2>1, <2>2, <2>3, <2>5, <2>6 DEF Next
<1>3. ReadingInv => EntriesAreFlatReading
  BY DEF ReadingInv, EntriesAreFlatReading
<1>4. QED
  BY <1>1, <1>2, <1>3, Invariance, PTL DEF Spec
=============================================================================
