------------------------------ MODULE KeyFiles ------------------------------
(***************************************************************************)
(* ssh-keygen on one pair of key files: Generate, ChangePassphrase and     *)
(* ChangeComment.  os.WriteFile empties a file, then writes it, and may    *)
(* fail at either step; the program may be killed between any two.  A file *)
(* is missing, torn (not all of a key), or whole; of a key only its number *)
(* and whether a passphrase seals it matter.                               *)
(***************************************************************************)
EXTENDS Tools

CONSTANT Pairs   \* the key files that there may be at first: [priv, pub]

VARIABLES
  priv, pub,     \* the private file and its .pub
  fresh,         \* the next key that nobody has generated yet
  key, sealed    \* in the hands of each invocation

diskVars == <<priv, pub, fresh>>
handVars == <<key, sealed>>
fileVars == <<diskVars, handVars>>

NoKey == 0
File(state, k, s) == [state |-> state, key |-> k, sealed |-> s]
Missing == File("missing", NoKey, FALSE)
Torn == File("torn", NoKey, FALSE)
Whole(k, s) == File("whole", k, s)
Files == {Missing, Torn} \cup [state : {"whole"}, key : Nat \ {NoKey}, sealed : BOOLEAN]

Matching(a, b) == \/ a = Missing /\ b = Missing
                  \/ a.state = "whole" /\ b.state = "whole" /\ a.key = b.key

ASSUME PairsAssumption ==
  \A x \in Pairs : /\ x.priv \in Files /\ x.pub \in Files
                   /\ Matching(x.priv, x.pub) /\ ~x.pub.sealed /\ x.priv.key \in {NoKey, 1}

KeyFilesInit ==
  /\ \E x \in Pairs : priv = x.priv /\ pub = x.pub
  /\ fresh = 2
  /\ key = [p \in Procs |-> NoKey]
  /\ sealed = [p \in Procs |-> FALSE]

Takes(p, k) == key' = [key EXCEPT ![p] = k]

-----------------------------------------------------------------------------
(* Generate.                                                               *)

\* The question comes from os.Stat; nothing looks again before the write.
Stat(p) ==
  /\ Begins(p, {"generate"})
  /\ BeginsAt(p, IF priv = Missing THEN "make" ELSE "overwrite")
  /\ UNCHANGED fileVars

Overwrite(p) ==
  /\ at[p] = "overwrite"
  /\ Goes(p, "make") \/ Exits(p, "1")
  /\ UNCHANGED <<spoiled, fileVars>>

\* Type, size and passphrase are checked before anything is written.
MakeKey(p) ==
  /\ at[p] = "make"
  /\ \/ /\ Goes(p, "open")
        /\ Takes(p, fresh) /\ fresh' = fresh + 1
        /\ \E s \in BOOLEAN : sealed' = [sealed EXCEPT ![p] = s]
        /\ UNCHANGED <<priv, pub, spoiled>>
     \/ Exits(p, "1") /\ UNCHANGED <<spoiled, fileVars>>

-----------------------------------------------------------------------------
(* ChangePassphrase and ChangeComment.                                     *)

\* ParseRawPrivateKey: a torn file is no key, a sealed one asks.
ReadKey(p) ==
  /\ Begins(p, {"changepass", "changecomment"})
  /\ IF priv.state = "whole"
     THEN BeginsAt(p, IF priv.sealed THEN "unseal" ELSE "read") /\ Takes(p, priv.key)
     ELSE BeginsInVain(p, "1") /\ UNCHANGED key
  /\ UNCHANGED <<diskVars, sealed>>

Unseal(p) ==
  /\ at[p] = "unseal" /\ tool[p] \in Writers
  /\ Goes(p, "read") \/ Exits(p, "1")
  /\ UNCHANGED <<spoiled, fileVars>>

NewPass(p) ==
  /\ at[p] = "read" /\ tool[p] = "changepass"
  /\ \/ Goes(p, "open") /\ \E s \in BOOLEAN : sealed' = [sealed EXCEPT ![p] = s]
     \/ Exits(p, "1") /\ UNCHANGED sealed
  /\ UNCHANGED <<diskVars, key, spoiled>>

\* MarshalPrivateKey, without a passphrase, whatever the file had.
NewComment(p) ==
  /\ at[p] = "read" /\ tool[p] = "changecomment"
  /\ Goes(p, "open")
  /\ sealed' = [sealed EXCEPT ![p] = FALSE]
  /\ UNCHANGED <<diskVars, key, spoiled>>

-----------------------------------------------------------------------------
(* os.WriteFile of the private file, then of the public one.               *)

OpenPriv(p) ==
  /\ at[p] = "open"
  /\ \/ Goes(p, "write") /\ priv' = Torn
     \/ Exits(p, "1") /\ UNCHANGED priv
  /\ UNCHANGED <<spoiled, pub, fresh, handVars>>

\* The person is told that something went wrong.
Reported(p) == exit'[p] # "0"

WritePriv(p) ==
  /\ at[p] = "write"
  /\ \/ /\ priv' = Whole(key[p], sealed[p])
        /\ IF tool[p] = "changepass" THEN Exits(p, "0") ELSE Goes(p, "openpub")
        /\ UNCHANGED spoiled
     \/ /\ priv' \in {priv, Torn}
        /\ Exits(p, "1")
        /\ spoiled' = (spoiled \/ Reported(p))
  /\ UNCHANGED <<pub, fresh, handVars>>

PubFailsUntold(p) == Exits(p, "0")   \* Generate does not look at it either

\* ChangeComment does not look at the error (changecomment.go:57).
PubFails(p) == Exits(p, IF tool[p] = "generate" THEN "1" ELSE "0")

OpenPub(p) ==
  /\ at[p] = "openpub"
  /\ \/ Goes(p, "writepub") /\ pub' = Torn /\ UNCHANGED spoiled
     \/ PubFails(p) /\ spoiled' = (spoiled \/ Reported(p)) /\ UNCHANGED pub
  /\ UNCHANGED <<priv, fresh, handVars>>

\* One that has written both, with nobody beside it, leaves a sound pair.
WritePub(p) ==
  /\ at[p] = "writepub"
  /\ \/ pub' = Whole(key[p], FALSE) /\ Exits(p, "0") /\ spoiled' = (spoiled /\ ~alone[p])
     \/ /\ pub' \in {pub, Torn} /\ PubFails(p)
        /\ spoiled' = (spoiled \/ Reported(p) \/ tool[p] = "changecomment")
  /\ UNCHANGED <<priv, fresh, handVars>>

\* Killed from outside, a power cut included.
KillWriter(p) ==
  /\ AtWork(p)
  /\ Exits(p, "killed")
  /\ spoiled' = \/ spoiled
                \/ at[p] \in {"write", "writepub"}
                \/ at[p] = "openpub" /\ tool[p] = "generate"
  /\ UNCHANGED fileVars

KeygenNext(p) ==
  \/ Stat(p) \/ Overwrite(p) \/ MakeKey(p)
  \/ ReadKey(p) \/ Unseal(p) \/ NewPass(p) \/ NewComment(p)
  \/ OpenPriv(p) \/ WritePriv(p) \/ OpenPub(p) \/ WritePub(p)
  \/ KillWriter(p)

-----------------------------------------------------------------------------
\* The keys that there are, and none.
Keys == 0 .. fresh - 1

KeyFilesTypeOK ==
  /\ priv \in Files /\ pub \in Files /\ ~pub.sealed
  /\ fresh \in Nat \ {0, 1}
  /\ priv.key \in Keys /\ pub.key \in Keys
  /\ key \in [Procs -> Keys] /\ sealed \in [Procs -> BOOLEAN]

\* generate.go:127-146, changepass.go:80, changecomment.go:48-57: the files are rewritten in
\* place, one after the other.  When no ssh-keygen is at work the two are of one key, both
\* whole, unless one has reported that a write failed (ChangeComment need not, of the .pub),
\* was killed in a write, or two were at work at once; and the next one to write both by
\* itself repairs what others have spoiled.
PairIsWhole ==
  ~spoiled /\ (\A p \in Procs : ~AtWork(p)) => Matching(priv, pub)
=============================================================================
