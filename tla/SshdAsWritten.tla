--------------------------- MODULE SshdAsWritten ---------------------------
(***************************************************************************)
(* sshd from the words of its command line and its file to what it begins  *)
(* for a client: Sshd with the options that ServerConfig resolves, and the *)
(* entries read as a whole, without following Resolve through them.        *)
(***************************************************************************)
EXTENDS Sshd, ServerConfig

CONSTANTS
  Words,   \* of command lines and files
  Boots    \* what sshd may be started with, and the clients that come then

Condition == [field : Words, only : SUBSET Words, except : SUBSET Words, negated : BOOLEAN]
Entry == [conds : Seq(Condition), dir : [key : Words, val : Seq(Words)]]

\* A keyword without a text has the empty word, a list of words none.
HasText(d) == d.key \in WordKeys \cup {"Subsystem"} \/ d.val # <<>>

\* Go's nil is no word; what ParseTimeSeconds makes of a word is one.
ASSUME WordsAssumption == Nil \notin Words /\ "0" \in Words
ASSUME BootsAssumption ==
  \A x \in Boots : Starts(x[1]) =>
    LET es == AllEntries(x[1])
    IN es \in Seq(Entry) /\ \A i \in DOMAIN es : HasText(es[i].dir)
ASSUME ConfigsAssumption ==
  Configs = {ServedWith(x[1], x[2]) : x \in {y \in Boots : Starts(y[1])}}

-----------------------------------------------------------------------------
(* The entries as a whole.                                                 *)

\* Entry i says to ignore a keyword, or all unknown ones, unless one before it has silenced
\* IgnoreUnknown itself.
Silences(es, i, keyword) ==
  /\ InForce(es[i])
  /\ es[i].dir.key = "IgnoreUnknown" /\ Value(es[i].dir) = keyword

Ignored(es, i, keyword) ==
  \E j \in 1 .. i - 1 :
    /\ Silences(es, j, keyword)
    /\ \A h \in 1 .. j - 1 : ~Silences(es, h, "IgnoreUnknown")

Counts(es, i) == InForce(es[i]) /\ ~Ignored(es, i, es[i].dir.key)

BreaksOff(es, i) ==
  /\ Counts(es, i)
  /\ IF es[i].dir.key \in Keywords THEN Rejects(es[i].dir) ELSE ~Ignored(es, i, "*")

Malformed(es) == \E i \in DOMAIN es : BreaksOff(es, i)

\* Entry i gives the option k a value it can take.
Says(es, i, k) ==
  Counts(es, i) /\ Field(es[i].dir.key) = k /\ ~Unusable(es[i].dir)

SaysFirst(es, i, k) == Says(es, i, k) /\ \A j \in 1 .. i - 1 : ~Says(es, j, k)

Setting(es, k) ==
  IF \E i \in DOMAIN es : Says(es, i, k)
  THEN Value(es[CHOOSE i \in DOMAIN es : SaysFirst(es, i, k)].dir)
  ELSE DefaultOf(k)

\* The words of a list, from all its entries.
Listed(es, k) ==
  UNION {ToSet(es[i].dir.val) : i \in {j \in DOMAIN es : Counts(es, j) /\ es[j].dir.key = k}}

-----------------------------------------------------------------------------
Admits(es, u) ==
  /\ Setting(es, "RefuseConnection") \in {Nil, ""}
  /\ Listed(es, "DenyUsers") \cap {u, "*"} = {}
  /\ Listed(es, "AllowUsers") # {} => Listed(es, "AllowUsers") \cap {u, "*"} # {}
  /\ Setting(es, "PubkeyAuthentication") = "yes"

Permits(es, kind) ==
  kind # "session" =>
    /\ Setting(es, "DisableForwarding") # "yes"
    /\ Setting(es, "AllowTcpForwarding") \notin
         {"no", IF kind = "direct-tcpip" THEN "remote" ELSE "local"}

\* From the words of the command line and the file to a session, over the parsing, the
\* options, the authentication and the access check, each with an order of its own
\* (resolve.go:55-60, ssh.go:399-408 and 555-573, default_auth.go:99-111): whatever was
\* begun for a client, the entries in force admit its user, whose name stands in no
\* DenyUsers line even if an AllowUsers line has it too, and permit what it asked for.
ServedAsWritten ==
  \A x \in Boots : Starts(x[1]) /\ config = ServedWith(x[1], x[2]) =>
    \A c \in Conns : served[c] # {} =>
      LET es == AllEntries(x[1]) IN
      /\ ~Malformed(es)
      /\ Admits(es, who[c].user)
      /\ \A kind \in served[c] : Permits(es, kind)
=============================================================================
