------------------------------ MODULE Patterns ------------------------------
(***************************************************************************)
(* The matchers of names and the algorithm lists: MatchPattern and         *)
(* MatchPatternList of pkg/sshconfig, the second matcher of pkg/session,   *)
(* ApplyListOp with its + - ^, and what pkg/sshclient and pkg/sshserver    *)
(* make of a list for x/crypto.  A name is a sequence of characters, two   *)
(* of which are wildcards where it is used as a pattern.                   *)
(***************************************************************************)
EXTENDS Naturals, Sequences, SequencesExt

Star   == "*"
AnyOne == "?"

\* The code cuts patterns and names from the front; what is left of them is named by its length.
FromEnd(s, n) == s[Len(s) - n + 1]

\* How much of the last n characters of a pattern is left after the stars they begin with.
AfterStars(p, n) == Max({m \in 0 .. n : m = 0 \/ FromEnd(p, m) # Star})

\* The pattern's last n characters and the name's last k begin with characters that agree.
Agree(p, n, name, k) == FromEnd(p, n) \in {AnyOne, FromEnd(name, k)}

\* matchPattern, and matchEnvPattern of sshd, for all that can be left of a name: a run of
\* stars is taken at once.
Fits(p, name) ==
  LET fits[n \in 0 .. Len(p)] ==
        IF n = 0 THEN {0}
        ELSE IF FromEnd(p, n) = Star
        THEN LET rest == AfterStars(p, n)
             IN {k \in 0 .. Len(name) : rest = 0 \/ fits[rest] \cap 0 .. k # {}}
        ELSE {k \in 1 .. Len(name) : Agree(p, n, name, k) /\ k - 1 \in fits[n - 1]}
  IN fits

MatchPattern(p, name) == Len(name) \in Fits(p, name)[Len(p)]

\* MatchGlob: star by star.
GlobFits(p, name) ==
  LET fits[n \in 0 .. Len(p)] ==
        IF n = 0 THEN {0}
        ELSE IF FromEnd(p, n) = Star
        THEN {k \in 0 .. Len(name) : n = 1 \/ fits[n - 1] \cap 0 .. k # {}}
        ELSE {k \in 1 .. Len(name) : Agree(p, n, name, k) /\ k - 1 \in fits[n - 1]}
  IN fits

MatchGlob(p, name) == Len(name) \in GlobFits(p, name)[Len(p)]

\* A leading minus is left to others, who ask for it before.
MatchEnvPattern(p, name) == ~IsPrefix(<<"-">>, p) /\ MatchGlob(p, name)

\* A list of patterns, some negated: the loop leaves at the first negated one
\* that matches, and remembers any other that did.
Verdicts(list, name) ==
  LET verdict[i \in 0 .. Len(list)] ==
        IF i = 0 THEN "open"
        ELSE IF verdict[i - 1] = "excluded" \/ ~MatchPattern(list[i].pattern, name) THEN verdict[i - 1]
        ELSE IF list[i].negated THEN "excluded" ELSE "matched"
  IN verdict

MatchPatternList(list, name) == Verdicts(list, name)[Len(list)] = "matched"

-----------------------------------------------------------------------------
(* Algorithm lists: a value has an operator, "" for none, and its names.   *)

matchesAnyPattern(name, patterns) == \E p \in ToSet(patterns) : MatchPattern(p, name)

\* The list with the first names that it does not have yet, and the first names of those kept.
Extended(list, names) ==
  LET extended[i \in 0 .. Len(names)] ==
        IF i = 0 THEN list
        ELSE IF names[i] \in ToSet(extended[i - 1]) THEN extended[i - 1]
        ELSE Append(extended[i - 1], names[i])
  IN extended

Retained(names, kept) ==
  LET retained[i \in 0 .. Len(names)] ==
        IF i = 0 THEN <<>>
        ELSE IF names[i] \in kept THEN Append(retained[i - 1], names[i]) ELSE retained[i - 1]
  IN retained

WithNew(list, names) == Extended(list, names)[Len(names)]
Only(names, kept) == Retained(names, kept)[Len(names)]

\* Without an operator the names are taken as they are, repetitions too.
ApplyListOp(value, defaults) ==
  CASE value.op = ""  -> IF value.names = <<>> THEN defaults ELSE value.names
    [] value.op = "+" -> WithNew(defaults, value.names)
    [] value.op = "^" -> WithNew(<<>>, value.names \o defaults)
    [] value.op = "-" -> Only(defaults, {d \in ToSet(defaults) : ~matchesAnyPattern(d, value.names)})

IsWild(name) == {Star, AnyOne} \cap ToSet(name) # {}

\* filterSupported: a name stays if x/crypto knows it, and a pattern becomes what it matches.
Supported(candidates, supported) ==
  LET result[i \in 0 .. Len(candidates)] ==
        IF i = 0 THEN <<>>
        ELSE IF candidates[i] \in ToSet(supported) THEN Append(result[i - 1], candidates[i])
        ELSE IF IsWild(candidates[i])
        THEN WithNew(result[i - 1],
                     Only(supported, {s \in ToSet(supported) : MatchPattern(candidates[i], s)}))
        ELSE result[i - 1]
  IN result

filterSupported(candidates, supported) == Supported(candidates, supported)[Len(candidates)]

resolveAlgorithmList(value, defaults, supported) ==
  filterSupported(ApplyListOp(value, defaults), supported)

-----------------------------------------------------------------------------
(* What is meant by them.                                                  *)

\* A pattern matches a name that can be cut into one piece for each of its characters:
\* any piece for a star, one character for the others.
Denotes(p, name) ==
  \E cut \in [0 .. Len(p) -> 0 .. Len(name)] :
    /\ cut[0] = 0 /\ cut[Len(p)] = Len(name)
    /\ \A i \in DOMAIN p :
         \/ p[i] = Star /\ cut[i - 1] <= cut[i]
         \/ cut[i] = cut[i - 1] + 1 /\ p[i] \in {AnyOne, name[cut[i]]}

\* A list r is what stands at the places P of another one, in the same order.
StandsAt(r, list, P) ==
  \E place \in [1 .. Len(r) -> 1 .. Len(list)] :
    /\ \A j, k \in 1 .. Len(r) : j < k => place[j] < place[k]
    /\ \A k \in 1 .. Len(r) : r[k] = list[place[k]]
    /\ {place[k] : k \in 1 .. Len(r)} = P

\* Where a name stands for the first time.
FirstPlaces(list) == {i \in 1 .. Len(list) : \A h \in 1 .. i - 1 : list[h] # list[i]}
=============================================================================
