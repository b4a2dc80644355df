-------------------------- MODULE PatternReference --------------------------
(* What the operators of Patterns and ClientArgs are for, said otherwise,    *)
(* and compared with them over all small inputs.                             *)
EXTENDS Patterns, ClientArgs, FiniteSetsExt

LOCAL Chars == {"a", "b"}
LOCAL Names == BoundedSeq(Chars, 3)
LOCAL Globs == BoundedSeq(Chars \cup {Star, AnyOne}, 3)

\* pattern.go:5-7 and the matchers in session/match.go:14-44 and default_session.go:370-398:
\* the three loops, which treat a run of stars differently, are one matcher.
ASSUME MatchersAgree ==
  \A p \in Globs, name \in Names :
    /\ MatchPattern(p, name) = Denotes(p, name)
    /\ MatchGlob(p, name) = Denotes(p, name)

LOCAL Terms == [pattern : {<<"a">>, <<"b">>, <<Star>>, <<"a", Star>>}, negated : BOOLEAN]
LOCAL Short == BoundedSeq(Chars, 2)

\* pattern.go:49-57: leaving the loop early or late makes no difference, so that a list is two
\* sets of names, which is how the models of the configurations take it.
ASSUME ListsAreTwoSets ==
  \A list \in BoundedSeq(Terms, 3) :
    LET Matched(negated) ==
          {name \in Short : \E t \in ToSet(list) : t.negated = negated /\ Denotes(t.pattern, name)}
    IN \A name \in Short :
         MatchPatternList(list, name) = (name \in Matched(FALSE) /\ name \notin Matched(TRUE))

-----------------------------------------------------------------------------
LOCAL Algorithms == {<<"a">>, <<"b">>, <<"a", "b">>}
LOCAL Defaults == {<<>>} \cup UNION {{s \in [1 .. n -> Algorithms] : IsInjective(s)} : n \in 1 .. 3}
LOCAL Values == [op : {"", "+", "-", "^"}, names : BoundedSeq(Algorithms \cup {<<Star>>, <<"a", AnyOne>>}, 2)]

FirstAt(s, x) == CHOOSE i \in DOMAIN s : s[i] = x /\ \A j \in DOMAIN s : s[j] = x => i <= j

\* r is s without the repetitions.
IsOnce(r, s) ==
  /\ IsInjective(r) /\ ToSet(r) = ToSet(s)
  /\ \A x, y \in ToSet(s) : FirstAt(r, x) < FirstAt(r, y) <=> FirstAt(s, x) < FirstAt(s, y)

\* listop.go:7-13: each operator does what is said of it, with nothing repeated and the order
\* kept, where "nothing repeated" is not true of a value without an operator.
ASSUME OperatorsDoAsSaid ==
  \A value \in Values, defaults \in Defaults :
    LET r == ApplyListOp(value, defaults)
    IN CASE value.op = "+" -> IsOnce(r, defaults \o value.names)
         [] value.op = "^" -> IsOnce(r, value.names \o defaults)
         [] value.op = "-" ->
              /\ ToSet(r) = {d \in ToSet(defaults) : \A p \in ToSet(value.names) : ~Denotes(p, d)}
              /\ \A x, y \in ToSet(r) : FirstAt(r, x) < FirstAt(r, y) <=> FirstAt(defaults, x) < FirstAt(defaults, y)
         [] OTHER -> value.names # <<>> => r = value.names

\* crypto.go of both packages: nothing is offered that x/crypto does not have, nothing is
\* lost that it has, and patterns add nothing twice.
ASSUME OnlySupported ==
  \A value \in Values, supported \in {<<>>, <<<<"a">>>>, <<<<"a", "b">>, <<"a">>>>} :
    LET wanted == ApplyListOp(value, <<<<"a">>, <<"b">>>>)
        r == resolveAlgorithmList(value, <<<<"a">>, <<"b">>>>, supported)
    IN /\ ToSet(r) = {s \in ToSet(supported) : \E w \in ToSet(wanted) : Denotes(w, s)}
       /\ IsInjective(wanted) /\ (\A w \in ToSet(wanted) : ~IsWild(w)) => IsInjective(r)

-----------------------------------------------------------------------------
LOCAL Bundles ==
  {Cluster(letters, last, behind, "-") :
     letters \in BoundedSeq({"v", "A", "a", "f"}, 2), last \in {Unset, "p", "o", "z"}, behind \in {<<"1">>, <<"2">>}}

\* One letter to an argument, and a value in an argument of its own.
Apart(args) ==
  FlattenSeq([i \in DOMAIN args |->
    [n \in DOMAIN args[i].letters |-> Cluster(<<args[i].letters[n]>>, Unset, <<>>, "-")]
      \o IF args[i].last = Unset THEN <<>>
         ELSE <<Cluster(<<>>, args[i].last, <<>>, "-"), Word(args[i].behind[1])>>])

\* args.go:146-187: how flags are bundled makes no difference, what comes after the
\* destination is not read for flags, and a flag that needs a value takes the next argument.
ASSUME BundlingIsFree ==
  \A args \in BoundedSeq(Bundles, 2) :
    /\ \/ Parse(args).failed /\ Parse(Apart(args)).failed
       \/ /\ Parse(args) = Parse(Apart(args))
          /\ Parse(args).letters = FlattenSeq([i \in DOMAIN args |-> args[i].letters])
    /\ Parse(<<Word("host")>> \o args).positional = <<"host">> \o [i \in DOMAIN args |-> args[i].text]
    /\ Parse(args \o <<Cluster(<<"v">>, "p", <<>>, "-")>>).failed
    /\ ~Parse(args).failed => Parse(args \o <<Cluster(<<>>, "l", <<>>, "-"), EndOfFlags>>).field["l"] = "--"
=============================================================================
