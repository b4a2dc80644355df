--------------------------- MODULE KeyUse_proofs ---------------------------
(***************************************************************************)
(* Proofs about KeyUse, for any invocations, plans and key files.          *)
(*                                                                         *)
(* PairIsWhole speaks of the files when nobody writes; the invariant says  *)
(* what is in them, and in the hands of the writer, at each of its steps,  *)
(* as long as it is by itself.  Two that overlap see each other begin      *)
(* (AloneMeansAlone), and the pair counts as spoiled until one of them     *)
(* writes both files by itself (TwoAreSpoiled).                            *)
(***************************************************************************)
EXTENDS KeyUse, TLAPS

PlacesOf(t) ==
  {"waiting", "ended"} \cup
    CASE t = "generate"      -> {"overwrite", "make", "open", "write", "openpub", "writepub"}
      [] t = "changepass"    -> {"unseal", "read", "open", "write"}
      [] t = "changecomment" -> {"unseal", "read", "open", "write", "openpub", "writepub"}
      [] t = "daemon"        -> {"bound", "unbound", "spawned"}
      [] t = "ssh"           -> {"identity", "passphrase", "signer", "offer"}
      [] t = "copyid"        -> {"login"}
      [] t \in {"foreground", "command"} -> {"serving"}
      [] t \in Adders        -> {"file", "ask", "send"}
      [] OTHER               -> {}

InPlace == \A p \in Procs : at[p] \in PlacesOf(tool[p])

HoldsKey(p) ==
  /\ AtWork(p) /\ at[p] \notin {"overwrite", "make"} => key[p] # NoKey
  /\ at[p] \in {"waiting", "identity"} => key[p] = NoKey

AloneMeansAlone == \A p \in Procs : Running(p) /\ alone[p] => \A q \in Procs \ {p} : ~AtWork(q)
TwoAreSpoiled == \A p \in Procs : AtWork(p) /\ ~alone[p] => spoiled

Of(file, p) == file.state = "whole" /\ file.key = key[p]

OwnIsWritten(p) ==
  AtWork(p) /\ alone[p] /\ at[p] \in {"openpub", "writepub"} => Of(priv, p)

WorkIsSound(p) ==
  AtWork(p) /\ ~spoiled =>
    /\ at[p] \in {"overwrite", "make"} => Matching(priv, pub)
    /\ tool[p] = "generate" /\ at[p] = "open" => Matching(priv, pub)
    /\ tool[p] # "generate" /\ at[p] \in {"unseal", "read", "open"} => Of(priv, p)
    /\ tool[p] # "generate" /\ at[p] \in {"unseal", "read", "open", "write", "openpub"} => Of(pub, p)

SshHolds(c) ==
  tool[c] = "ssh" /\ alone[c] /\ at[c] \in {"passphrase", "signer", "offer"} =>
    key[c] = NoKey \/ (Of(priv, c) /\ (at[c] = "offer" => key[c] \in offers[c]))

FileInv ==
  /\ InPlace /\ AloneMeansAlone /\ TwoAreSpoiled /\ PairIsWhole
  /\ \A p \in Procs : HoldsKey(p) /\ OwnIsWritten(p) /\ WorkIsSound(p) /\ SshHolds(p)

IInv == TypeOK /\ FileInv

-----------------------------------------------------------------------------
(* What one invocation does to what is said of the others.                 *)

WriterPlaces == {"overwrite", "make", "unseal", "read", "open", "write", "openpub", "writepub"}

\* A step of p that is not its first.
StepOf(p) ==
  /\ tool' = tool /\ alone' = alone
  /\ at[p] # "waiting"
  /\ \E x \in PlacesOf(tool[p]) \ {"waiting"} : at' = [at EXCEPT ![p] = x]

\* The first step of p.
StartOf(p) ==
  /\ tool' = tool
  /\ at[p] = "waiting"
  /\ \E x \in PlacesOf(tool[p]) \ {"waiting"} : at' = [at EXCEPT ![p] = x]
  /\ Disturbs(p)

OthersKeep(p) == \A q \in Procs \ {p} : key'[q] = key[q] /\ offers'[q] = offers[q]

LEMMA PlacesAreKnown == \A t : PlacesOf(t) \subseteq Places
BY DEF PlacesOf, Places

LEMMA WritersWork ==
  ASSUME InPlace, NEW p \in Procs, at[p] \in WriterPlaces
  PROVE  tool[p] \in Writers /\ AtWork(p)
BY DEF InPlace, PlacesOf, WriterPlaces, AtWork, Running, Writers, Adders

LEMMA StepKeepsOrder ==
  ASSUME TypeOK, FileInv, NEW p \in Procs, StepOf(p), Running(p),
         spoiled => spoiled' \/ (alone[p] /\ ~AtWork(p)')
  PROVE  InPlace' /\ AloneMeansAlone' /\ TwoAreSpoiled'
<1>1. PICK x \in PlacesOf(tool[p]) \ {"waiting"} : at' = [at EXCEPT ![p] = x]
  BY DEF StepOf
<1>2. /\ at'[p] = x /\ \A q \in Procs \ {p} : at'[q] = at[q]
      /\ tool' = tool /\ alone' = alone
  BY <1>1 DEF StepOf, TypeOK
<1>3. \A q \in Procs : AtWork(q)' => AtWork(q)
  BY <1>2 DEF AtWork, Running
<1>4. \A q \in Procs : Running(q)' => Running(q)
  BY <1>2 DEF Running
<1>5. InPlace'
  BY <1>1, <1>2 DEF FileInv, InPlace
<1>6. AloneMeansAlone'
  BY <1>2, <1>3, <1>4 DEF FileInv, AloneMeansAlone
<1>7. TwoAreSpoiled'
  <2> SUFFICES ASSUME NEW q \in Procs, AtWork(q)', ~alone'[q]
               PROVE  spoiled'
    BY DEF TwoAreSpoiled
  <2>1. AtWork(q) /\ ~alone[q] /\ spoiled
    BY <1>2, <1>3 DEF FileInv, TwoAreSpoiled
  <2>2. CASE alone[p] /\ ~AtWork(p)'
    BY <2>1, <2>2, <1>3 DEF FileInv, AloneMeansAlone
  <2>3. QED
    BY <2>1, <2>2
<1>8. QED
  BY <1>5, <1>6, <1>7

LEMMA StartKeepsOrder ==
  ASSUME TypeOK, FileInv, NEW p \in Procs, StartOf(p)
  PROVE  InPlace' /\ AloneMeansAlone' /\ TwoAreSpoiled'
<1>1. PICK x \in PlacesOf(tool[p]) \ {"waiting"} : at' = [at EXCEPT ![p] = x]
  BY DEF StartOf
<1>2. at'[p] = x /\ \A q \in Procs \ {p} : at'[q] = at[q]
  BY <1>1 DEF TypeOK
<1>3. /\ tool' = tool /\ ~Running(p) /\ ~AtWork(p)
      /\ alone'[p] = ~Beside(p)
      /\ \A q \in Procs \ {p} : alone'[q] = (alone[q] /\ ~(tool[p] \in Writers /\ Running(q)))
      /\ spoiled' = (spoiled \/ (tool[p] \in Writers /\ Beside(p)))
  BY DEF StartOf, Disturbs, Running, AtWork
<1>4. \A q \in Procs \ {p} : (AtWork(q)' <=> AtWork(q)) /\ (Running(q)' <=> Running(q))
  BY <1>2, <1>3 DEF AtWork, Running
<1>5. AtWork(p)' => tool[p] \in Writers
  BY <1>3 DEF AtWork
<1>6. InPlace'
  BY <1>1, <1>2, <1>3 DEF FileInv, InPlace
<1>7. AloneMeansAlone'
  <2> SUFFICES ASSUME NEW q \in Procs, Running(q)', alone'[q], NEW r \in Procs \ {q}
               PROVE  ~AtWork(r)'
    BY DEF AloneMeansAlone
  <2>1. CASE q = p
    BY <2>1, <1>3, <1>4 DEF Beside
  <2>2. CASE q # p
    BY <2>2, <1>3, <1>4, <1>5 DEF FileInv, AloneMeansAlone
  <2>3. QED
    BY <2>1, <2>2
<1>8. TwoAreSpoiled'
  <2> SUFFICES ASSUME NEW q \in Procs, AtWork(q)', ~alone'[q]
               PROVE  spoiled'
    BY DEF TwoAreSpoiled
  <2>1. CASE q = p
    BY <2>1, <1>3, <1>5
  <2>2. CASE q # p /\ alone[q]
    BY <2>2, <1>3, <1>4 DEF Beside
  <2>3. CASE q # p /\ ~alone[q]
    BY <2>3, <1>3, <1>4 DEF FileInv, TwoAreSpoiled
  <2>4. QED
    BY <2>1, <2>2, <2>3
<1>9. QED
  BY <1>6, <1>7, <1>8
-----------------------------------------------------------------------------
(* Steps of ssh-keygen.                                                    *)

LEMMA WriterSteps ==
  ASSUME TypeOK, FileInv, NEW p \in Procs, StepOf(p), AtWork(p), OthersKeep(p),
         spoiled => spoiled' \/ (alone[p] /\ ~AtWork(p)'),
         HoldsKey(p)', OwnIsWritten(p)', WorkIsSound(p)', AtWork(p)' \/ PairIsWhole'
  PROVE  FileInv'
<1>1. InPlace' /\ AloneMeansAlone' /\ TwoAreSpoiled'
  BY StepKeepsOrder DEF AtWork
<1>2. tool[p] \in Writers /\ Running(p) /\ tool' = tool /\ alone' = alone
  BY DEF AtWork, StepOf
<1>3. \A q \in Procs \ {p} : at'[q] = at[q] /\ (AtWork(q)' <=> AtWork(q))
  BY <1>2 DEF StepOf, TypeOK, AtWork, Running
<1>4. PairIsWhole'
  BY DEF PairIsWhole
<1>5. SshHolds(p)'
  BY <1>2 DEF SshHolds, Writers
<1>6. ASSUME NEW q \in Procs \ {p}
      PROVE  HoldsKey(q)' /\ OwnIsWritten(q)' /\ WorkIsSound(q)' /\ SshHolds(q)'
  <2>1. HoldsKey(q)'
    BY <1>2, <1>3 DEF FileInv, HoldsKey, OthersKeep
  <2>2. Running(q) => ~alone[q]
    BY DEF FileInv, AloneMeansAlone
  <2>3. AtWork(q) => ~alone[p] /\ spoiled
    BY <1>2 DEF FileInv, AloneMeansAlone, TwoAreSpoiled
  <2>4. OwnIsWritten(q)'
    BY <1>2, <1>3, <2>2 DEF OwnIsWritten, AtWork
  <2>5. WorkIsSound(q)'
    BY <1>3, <2>3 DEF WorkIsSound
  <2>6. SshHolds(q)'
    BY <1>2, <1>3, <2>2 DEF SshHolds, Running
  <2>7. QED
    BY <2>1, <2>4, <2>5, <2>6
<1>7. \A q \in Procs : HoldsKey(q)' /\ OwnIsWritten(q)' /\ WorkIsSound(q)' /\ SshHolds(q)'
  BY <1>5, <1>6
<1>8. QED
  BY <1>1, <1>4, <1>7 DEF FileInv

LEMMA WriterStarts ==
  ASSUME TypeOK, FileInv, NEW p \in Procs, StartOf(p), tool[p] \in Writers, OthersKeep(p),
         UNCHANGED <<priv, pub>>, at'[p] \notin {"openpub", "writepub"},
         HoldsKey(p)', WorkIsSound(p)'
  PROVE  FileInv'
<1>1. InPlace' /\ AloneMeansAlone' /\ TwoAreSpoiled'
  BY StartKeepsOrder
<1>2. /\ tool' = tool /\ ~AtWork(p)
      /\ \A q \in Procs \ {p} : alone'[q] = (alone[q] /\ ~Running(q))
      /\ spoiled' = (spoiled \/ Beside(p))
  BY DEF StartOf, Disturbs, AtWork, Running
<1>3. \A q \in Procs \ {p} : at'[q] = at[q] /\ (AtWork(q)' <=> AtWork(q))
  BY <1>2 DEF StartOf, TypeOK, AtWork, Running
<1>4. PairIsWhole'
  BY <1>2, <1>3 DEF FileInv, PairIsWhole, Matching
<1>5. SshHolds(p)' /\ OwnIsWritten(p)'
  BY <1>2 DEF SshHolds, OwnIsWritten, Writers
<1>6. ASSUME NEW q \in Procs \ {p}
      PROVE  HoldsKey(q)' /\ OwnIsWritten(q)' /\ WorkIsSound(q)' /\ SshHolds(q)'
  <2>1. HoldsKey(q)'
    BY <1>2, <1>3 DEF FileInv, HoldsKey, OthersKeep
  <2>2. OwnIsWritten(q)'
    BY <1>2, <1>3 DEF OwnIsWritten, AtWork
  <2>3. WorkIsSound(q)'
    BY <1>2, <1>3 DEF WorkIsSound, Beside
  <2>4. SshHolds(q)'
    BY <1>2, <1>3 DEF SshHolds, Running
  <2>5. QED
    BY <2>1, <2>2, <2>3, <2>4
<1>7. \A q \in Procs : HoldsKey(q)' /\ OwnIsWritten(q)' /\ WorkIsSound(q)' /\ SshHolds(q)'
  BY <1>5, <1>6
<1>8. QED
  BY <1>1, <1>4, <1>7 DEF FileInv

-----------------------------------------------------------------------------
(* Steps of the other tools.                                               *)

LEMMA ReadersKeep ==
  ASSUME TypeOK, FileInv, NEW p \in Procs, tool[p] \notin Writers,
         (StepOf(p) /\ Running(p) /\ spoiled' = spoiled) \/ StartOf(p),
         OthersKeep(p), UNCHANGED <<priv, pub>>, HoldsKey(p)', SshHolds(p)'
  PROVE  FileInv'
<1>1. InPlace' /\ AloneMeansAlone' /\ TwoAreSpoiled'
  BY StepKeepsOrder, StartKeepsOrder
<1>2. tool' = tool /\ spoiled' = spoiled /\ \A q \in Procs \ {p} : alone'[q] = alone[q]
  BY DEF StepOf, StartOf, Disturbs, TypeOK
<1>3. \A q \in Procs \ {p} : at'[q] = at[q]
  BY DEF StepOf, StartOf, TypeOK
<1>4. \A q \in Procs : AtWork(q)' <=> AtWork(q)
  BY <1>2, <1>3 DEF AtWork, Running
<1>5. PairIsWhole'
  BY <1>2, <1>4 DEF FileInv, PairIsWhole, Matching
<1>6. OwnIsWritten(p)' /\ WorkIsSound(p)'
  BY <1>4 DEF OwnIsWritten, WorkIsSound, AtWork
<1>7. ASSUME NEW q \in Procs \ {p}
      PROVE  HoldsKey(q)' /\ OwnIsWritten(q)' /\ WorkIsSound(q)' /\ SshHolds(q)'
  BY <1>2, <1>3, <1>4 DEF FileInv, HoldsKey, OwnIsWritten, WorkIsSound, SshHolds, Of, Matching, OthersKeep
<1>8. \A q \in Procs : HoldsKey(q)' /\ OwnIsWritten(q)' /\ WorkIsSound(q)' /\ SshHolds(q)'
  BY <1>6, <1>7
<1>9. QED
  BY <1>1, <1>5, <1>8 DEF FileInv

LEMMA NobodySteps == ASSUME FileInv, UNCHANGED <<toolVars, fileVars, offers>> PROVE FileInv'
BY DEF FileInv, toolVars, fileVars, diskVars, handVars, InPlace, AloneMeansAlone, TwoAreSpoiled, PairIsWhole,
   HoldsKey, OwnIsWritten, WorkIsSound, SshHolds, Of, Matching, AtWork, Running
-----------------------------------------------------------------------------
(* The actions of ssh-keygen.                                              *)

LEMMA ToolAt ==
  ASSUME InPlace, NEW p \in Procs
  PROVE  /\ at[p] \in {"overwrite", "make"} => tool[p] = "generate"
         /\ at[p] \in {"unseal", "read"} /\ tool[p] \in Writers => tool[p] \in {"changepass", "changecomment"}
         /\ at[p] \in {"open", "write"} => tool[p] \in Writers
         /\ at[p] \in {"openpub", "writepub"} => tool[p] \in {"generate", "changecomment"}
BY DEF InPlace, PlacesOf, Writers, Adders

LEMMA WhereTo ==
  /\ \A t : "ended" \in PlacesOf(t)
  /\ {"overwrite", "make", "open", "write", "openpub", "writepub"} \subseteq PlacesOf("generate")
  /\ {"unseal", "read", "open", "write"} \subseteq PlacesOf("changepass")
  /\ {"unseal", "read", "open", "write", "openpub", "writepub"} \subseteq PlacesOf("changecomment")
  /\ {"bound", "unbound", "spawned"} \subseteq PlacesOf("daemon")
  /\ "serving" \in PlacesOf("foreground") /\ "serving" \in PlacesOf("command")
  /\ {"identity", "passphrase", "signer", "offer"} \subseteq PlacesOf("ssh")
  /\ "login" \in PlacesOf("copyid")
  /\ \A t \in Adders : {"file", "ask", "send"} \subseteq PlacesOf(t)
BY DEF PlacesOf, Adders

LEMMA Moves ==
  ASSUME TypeOK, NEW p \in Procs, at[p] # "waiting", tool' = tool, alone' = alone,
         NEW S, S \subseteq PlacesOf(tool[p]) \ {"waiting"},
         \E x \in S : at' = [at EXCEPT ![p] = x]
  PROVE  StepOf(p) /\ at'[p] \in S
BY DEF StepOf, TypeOK

LEMMA OverwriteSound ==
  ASSUME TypeOK, FileInv, NEW p \in Procs, Overwrite(p), UNCHANGED offers
  PROVE  FileInv'
<1>1. tool[p] = "generate" /\ AtWork(p)
  BY ToolAt DEF Overwrite, FileInv, AtWork, Running, Writers
<1>2. /\ tool' = tool /\ alone' = alone /\ spoiled' = spoiled
      /\ UNCHANGED <<priv, pub, key>>
      /\ \E x \in {"make", "ended"} : at' = [at EXCEPT ![p] = x]
  BY DEF Overwrite, Goes, Exits, fileVars, diskVars, handVars
<1>3. StepOf(p) /\ at'[p] \in {"make", "ended"}
  <2>1. {"make", "ended"} \subseteq PlacesOf(tool[p]) \ {"waiting"} /\ at[p] # "waiting"
    BY <1>1, WhereTo DEF Overwrite
  <2>2. QED
    BY <1>2, <2>1, Moves
<1>4. OthersKeep(p)
  BY <1>2 DEF OthersKeep
<1>5. HoldsKey(p)' /\ OwnIsWritten(p)' /\ WorkIsSound(p)'
  BY <1>1, <1>2, <1>3 DEF FileInv, HoldsKey, OwnIsWritten, WorkIsSound, AtWork, Running, Matching, Overwrite
<1>6. AtWork(p)' \/ PairIsWhole'
  BY <1>1, <1>2 DEF FileInv, WorkIsSound, PairIsWhole, Matching, Overwrite
<1>7. QED
  BY <1>1, <1>2, <1>3, <1>4, <1>5, <1>6, WriterSteps

LEMMA MakeKeySound ==
  ASSUME TypeOK, FileInv, NEW p \in Procs, MakeKey(p), UNCHANGED offers
  PROVE  FileInv'
<1>1. tool[p] = "generate" /\ AtWork(p)
  BY ToolAt DEF MakeKey, FileInv, AtWork, Running, Writers
<1>2. /\ tool' = tool /\ alone' = alone /\ spoiled' = spoiled
      /\ UNCHANGED <<priv, pub>>
      /\ \/ at' = [at EXCEPT ![p] = "open"] /\ key' = [key EXCEPT ![p] = fresh]
         \/ at' = [at EXCEPT ![p] = "ended"] /\ key' = key
  BY DEF MakeKey, Goes, Exits, Takes, fileVars, diskVars, handVars
<1>3. StepOf(p) /\ ((at'[p] = "open" /\ key'[p] = fresh) \/ at'[p] = "ended")
  BY <1>1, <1>2, WhereTo DEF StepOf, TypeOK, KeyFilesTypeOK, MakeKey
<1>4. OthersKeep(p)
  BY <1>2 DEF OthersKeep, TypeOK, KeyFilesTypeOK
<1>5. HoldsKey(p)' /\ OwnIsWritten(p)' /\ WorkIsSound(p)'
  BY <1>1, <1>2, <1>3 DEF TypeOK, KeyFilesTypeOK, NoKey, FileInv, HoldsKey, OwnIsWritten, WorkIsSound, AtWork,
     Running, Matching, MakeKey
<1>6. AtWork(p)' \/ PairIsWhole'
  BY <1>1, <1>2 DEF FileInv, WorkIsSound, PairIsWhole, Matching, MakeKey
<1>7. QED
  BY <1>1, <1>2, <1>3, <1>4, <1>5, <1>6, WriterSteps

LEMMA UnsealSound ==
  ASSUME TypeOK, FileInv, NEW p \in Procs, Unseal(p), UNCHANGED offers
  PROVE  FileInv'
<1>1. tool[p] \in {"changepass", "changecomment"} /\ AtWork(p)
  BY ToolAt DEF Unseal, FileInv, AtWork, Running
<1>2. /\ tool' = tool /\ alone' = alone /\ spoiled' = spoiled
      /\ UNCHANGED <<priv, pub, key>>
      /\ \E x \in {"read", "ended"} : at' = [at EXCEPT ![p] = x]
  BY DEF Unseal, Goes, Exits, fileVars, diskVars, handVars
<1>3. StepOf(p) /\ at'[p] \in {"read", "ended"}
  <2>1. {"read", "ended"} \subseteq PlacesOf(tool[p]) \ {"waiting"} /\ at[p] # "waiting"
    BY <1>1, WhereTo DEF Unseal
  <2>2. QED
    BY <1>2, <2>1, Moves
<1>4. OthersKeep(p)
  BY <1>2 DEF OthersKeep
<1>5. HoldsKey(p)' /\ OwnIsWritten(p)' /\ WorkIsSound(p)'
  BY <1>1, <1>2, <1>3 DEF FileInv, HoldsKey, OwnIsWritten, WorkIsSound, Of, AtWork, Running, Unseal
<1>6. AtWork(p)' \/ PairIsWhole'
  BY <1>1, <1>2 DEF FileInv, WorkIsSound, PairIsWhole, Matching, Of, Unseal
<1>7. QED
  BY <1>1, <1>2, <1>3, <1>4, <1>5, <1>6, WriterSteps

LEMMA RereadSound ==
  ASSUME TypeOK, FileInv, NEW p \in Procs, NewPass(p) \/ NewComment(p), UNCHANGED offers
  PROVE  FileInv'
<1>1. at[p] = "read" /\ tool[p] \in {"changepass", "changecomment"} /\ AtWork(p)
  BY DEF NewPass, NewComment, AtWork, Running, Writers
<1>2. /\ tool' = tool /\ alone' = alone /\ spoiled' = spoiled
      /\ UNCHANGED <<priv, pub, key>>
      /\ \E x \in {"open", "ended"} : at' = [at EXCEPT ![p] = x]
  BY DEF NewPass, NewComment, Goes, Exits, diskVars
<1>3. StepOf(p) /\ at'[p] \in {"open", "ended"}
  <2>1. {"open", "ended"} \subseteq PlacesOf(tool[p]) \ {"waiting"} /\ at[p] # "waiting"
    BY <1>1, WhereTo
  <2>2. QED
    BY <1>2, <2>1, Moves
<1>4. OthersKeep(p)
  BY <1>2 DEF OthersKeep
<1>5. HoldsKey(p)' /\ OwnIsWritten(p)' /\ WorkIsSound(p)'
  BY <1>1, <1>2, <1>3 DEF FileInv, HoldsKey, OwnIsWritten, WorkIsSound, Of, AtWork, Running
<1>6. AtWork(p)' \/ PairIsWhole'
  BY <1>1, <1>2 DEF FileInv, WorkIsSound, PairIsWhole, Matching, Of
<1>7. QED
  BY <1>1, <1>2, <1>3, <1>4, <1>5, <1>6, WriterSteps
LEMMA OpenPrivSound ==
  ASSUME TypeOK, FileInv, NEW p \in Procs, OpenPriv(p), UNCHANGED offers
  PROVE  FileInv'
<1>1. at[p] = "open" /\ tool[p] \in Writers /\ AtWork(p)
  BY ToolAt DEF OpenPriv, FileInv, AtWork, Running, Writers
<1>2. /\ tool' = tool /\ alone' = alone /\ spoiled' = spoiled /\ key' = key /\ pub' = pub
      /\ \E x \in {"write", "ended"} : at' = [at EXCEPT ![p] = x]
  BY DEF OpenPriv, Goes, Exits, handVars
<1>3. StepOf(p) /\ at'[p] \in {"write", "ended"}
  <2>1. {"write", "ended"} \subseteq PlacesOf(tool[p]) \ {"waiting"} /\ at[p] # "waiting"
    BY <1>1, WhereTo DEF Writers
  <2>2. QED
    BY <1>2, <2>1, Moves
<1>4. OthersKeep(p)
  BY <1>2 DEF OthersKeep
<1>5. at'[p] = "ended" => priv' = priv
  BY <1>1 DEF OpenPriv, Goes, TypeOK
<1>6. HoldsKey(p)' /\ OwnIsWritten(p)' /\ WorkIsSound(p)'
  BY <1>1, <1>2, <1>3 DEF FileInv, HoldsKey, OwnIsWritten, WorkIsSound, Of, AtWork, Running
<1>7. AtWork(p)' \/ PairIsWhole'
  <2>1. CASE at'[p] = "write"
    BY <2>1, <1>1, <1>2 DEF AtWork, Running
  <2>2. CASE at'[p] = "ended"
    BY <2>2, <1>1, <1>2, <1>5 DEF FileInv, WorkIsSound, PairIsWhole, Matching, Of
  <2>3. QED
    BY <1>3, <2>1, <2>2
<1>8. QED
  BY <1>1, <1>2, <1>3, <1>4, <1>6, <1>7, WriterSteps

LEMMA FailuresAreReported ==
  ASSUME TypeOK, NEW p \in Procs
  PROVE  /\ Exits(p, "1") => Reported(p)
         /\ tool[p] = "generate" /\ PubFails(p) => Reported(p)
BY DEF PubFails, Exits, Reported, TypeOK

LEMMA WritePrivSound ==
  ASSUME TypeOK, FileInv, NEW p \in Procs, WritePriv(p), UNCHANGED offers
  PROVE  FileInv'
<1>1. at[p] = "write" /\ tool[p] \in Writers /\ AtWork(p)
  BY ToolAt DEF WritePriv, FileInv, AtWork, Running, Writers
<1>2. /\ tool' = tool /\ alone' = alone /\ key' = key /\ pub' = pub
      /\ spoiled => spoiled'
      /\ \E x \in {IF tool[p] = "changepass" THEN "ended" ELSE "openpub", "ended"} : at' = [at EXCEPT ![p] = x]
  <2>1. spoiled => spoiled'
    BY DEF WritePriv
  <2>2. QED
    BY <2>1 DEF WritePriv, Goes, Exits, handVars
<1>3. StepOf(p) /\ at'[p] \in {IF tool[p] = "changepass" THEN "ended" ELSE "openpub", "ended"}
  <2>1. {IF tool[p] = "changepass" THEN "ended" ELSE "openpub", "ended"} \subseteq PlacesOf(tool[p]) \ {"waiting"}
    BY <1>1, WhereTo DEF Writers
  <2>2. QED
    BY <1>1, <1>2, <2>1, Moves
<1>4. OthersKeep(p)
  BY <1>2 DEF OthersKeep
<1>5. \/ Of(priv', p) /\ spoiled' = spoiled
      \/ at'[p] = "ended" /\ spoiled'
  <2>1. \/ priv' = Whole(key[p], sealed[p]) /\ spoiled' = spoiled
        \/ Exits(p, "1") /\ spoiled' = (spoiled \/ Reported(p))
    BY DEF WritePriv
  <2>2. priv' = Whole(key[p], sealed[p]) => Of(priv', p)
    BY DEF Whole, File, Of
  <2>3. Exits(p, "1") => at'[p] = "ended"
    BY DEF Exits, TypeOK
  <2>4. QED
    BY <2>1, <2>2, <2>3, FailuresAreReported
<1>6. HoldsKey(p)' /\ OwnIsWritten(p)'
  BY <1>1, <1>2, <1>3, <1>5 DEF FileInv, HoldsKey, OwnIsWritten, Of, AtWork, Running
<1>7. WorkIsSound(p)'
  BY <1>1, <1>2, <1>3, <1>5 DEF FileInv, WorkIsSound, Of, AtWork, Running
<1>8. AtWork(p)' \/ PairIsWhole'
  <2> SUFFICES ASSUME ~AtWork(p)', ~spoiled'
               PROVE  Matching(priv, pub)'
    BY DEF PairIsWhole
  <2>1. at'[p] = "ended" /\ Of(priv', p) /\ spoiled' = spoiled
    BY <1>1, <1>2, <1>3, <1>5 DEF AtWork, Running
  <2>2. tool[p] # "generate"
    <3>1. \/ tool[p] = "changepass"
          \/ Goes(p, "openpub")
          \/ Exits(p, "1") /\ spoiled' = (spoiled \/ Reported(p))
      BY DEF WritePriv
    <3>2. ~Goes(p, "openpub")
      BY <2>1 DEF Goes, TypeOK
    <3>3. QED
      BY <3>1, <3>2, FailuresAreReported
  <2>3. Of(pub, p)
    BY <1>1, <2>1, <2>2 DEF FileInv, WorkIsSound
  <2>4. QED
    BY <1>2, <2>1, <2>3 DEF Of, Matching
<1>9. QED
  BY <1>1, <1>2, <1>3, <1>4, <1>6, <1>7, <1>8, WriterSteps

LEMMA OpenPubSound ==
  ASSUME TypeOK, FileInv, NEW p \in Procs, OpenPub(p), UNCHANGED offers
  PROVE  FileInv'
<1>1. at[p] = "openpub" /\ tool[p] \in {"generate", "changecomment"} /\ AtWork(p)
  BY ToolAt DEF OpenPub, FileInv, AtWork, Running, Writers
<1>2. /\ tool' = tool /\ alone' = alone /\ key' = key /\ priv' = priv
      /\ spoiled => spoiled'
      /\ \E x \in {"writepub", "ended"} : at' = [at EXCEPT ![p] = x]
  <2>1. \/ Goes(p, "writepub") /\ UNCHANGED spoiled
        \/ PubFails(p) /\ spoiled' = (spoiled \/ Reported(p))
    BY DEF OpenPub
  <2>2. spoiled => spoiled'
    BY <2>1
  <2>3. /\ tool' = tool /\ alone' = alone
        /\ \E x \in {"writepub", "ended"} : at' = [at EXCEPT ![p] = x]
    BY <2>1 DEF PubFails, Goes, Exits
  <2>4. QED
    BY <2>2, <2>3 DEF OpenPub, handVars
<1>3. StepOf(p) /\ at'[p] \in {"writepub", "ended"}
  <2>1. {"writepub", "ended"} \subseteq PlacesOf(tool[p]) \ {"waiting"} /\ at[p] # "waiting"
    BY <1>1, WhereTo
  <2>2. QED
    BY <1>2, <2>1, Moves
<1>4. OthersKeep(p)
  BY <1>2 DEF OthersKeep
<1>5. at'[p] = "ended" => pub' = pub /\ (tool[p] = "generate" => spoiled')
  <2>1. \/ Goes(p, "writepub")
        \/ PubFails(p) /\ spoiled' = (spoiled \/ Reported(p)) /\ pub' = pub
    BY DEF OpenPub
  <2>2. ~(at'[p] = "ended" /\ Goes(p, "writepub"))
    BY DEF Goes, TypeOK
  <2>3. QED
    BY <2>1, <2>2, FailuresAreReported
<1>6. HoldsKey(p)' /\ OwnIsWritten(p)' /\ WorkIsSound(p)'
  BY <1>1, <1>2, <1>3 DEF FileInv, HoldsKey, OwnIsWritten, WorkIsSound, Of, AtWork, Running
<1>7. AtWork(p)' \/ PairIsWhole'
  <2> SUFFICES ASSUME ~AtWork(p)', ~spoiled'
               PROVE  Matching(priv, pub)'
    BY DEF PairIsWhole
  <2>1. at'[p] = "ended" /\ ~spoiled /\ tool[p] # "generate" /\ pub' = pub
    BY <1>1, <1>2, <1>3, <1>5 DEF AtWork, Running
  <2>2. Of(pub, p) /\ Of(priv, p)
    BY <1>1, <2>1 DEF FileInv, WorkIsSound, OwnIsWritten, TwoAreSpoiled
  <2>3. QED
    BY <1>2, <2>1, <2>2 DEF Of, Matching
<1>8. QED
  BY <1>1, <1>2, <1>3, <1>4, <1>6, <1>7, WriterSteps DEF Writers

LEMMA WritePubSound ==
  ASSUME TypeOK, FileInv, NEW p \in Procs, WritePub(p), UNCHANGED offers
  PROVE  FileInv'
<1>1. at[p] = "writepub" /\ tool[p] \in {"generate", "changecomment"} /\ AtWork(p)
  BY ToolAt DEF WritePub, FileInv, AtWork, Running, Writers
<1>2. /\ tool' = tool /\ alone' = alone /\ key' = key /\ priv' = priv
      /\ \E x \in {"ended"} : at' = [at EXCEPT ![p] = x]
  <2>1. Exits(p, "0") \/ Exits(p, "1")
    BY DEF WritePub, PubFails
  <2>2. at' = [at EXCEPT ![p] = "ended"] /\ tool' = tool /\ alone' = alone
    BY <2>1 DEF Exits
  <2>3. QED
    BY <2>2 DEF WritePub, handVars
<1>3. StepOf(p) /\ at'[p] \in {"ended"}
  <2>1. {"ended"} \subseteq PlacesOf(tool[p]) \ {"waiting"} /\ at[p] # "waiting"
    BY <1>1, WhereTo
  <2>2. QED
    BY <1>2, <2>1, Moves
<1>4. OthersKeep(p) /\ ~AtWork(p)'
  BY <1>2, <1>3 DEF OthersKeep, AtWork, Running
<1>5. \/ Of(pub', p) /\ spoiled' = (spoiled /\ ~alone[p])
      \/ spoiled'
  <2>1. \/ pub' = Whole(key[p], FALSE) /\ spoiled' = (spoiled /\ ~alone[p])
        \/ PubFails(p) /\ spoiled' = (spoiled \/ Reported(p) \/ tool[p] = "changecomment")
    BY DEF WritePub
  <2>2. pub' = Whole(key[p], FALSE) => Of(pub', p)
    BY DEF Whole, File, Of
  <2>3. QED
    BY <2>1, <2>2, <1>1, FailuresAreReported
<1>6. HoldsKey(p)' /\ OwnIsWritten(p)' /\ WorkIsSound(p)'
  BY <1>3, <1>4 DEF HoldsKey, OwnIsWritten, WorkIsSound
<1>7. PairIsWhole'
  <2> SUFFICES ASSUME ~spoiled'
               PROVE  Matching(priv, pub)'
    BY DEF PairIsWhole
  <2>1. alone[p] /\ Of(pub', p)
    BY <1>1, <1>5 DEF FileInv, TwoAreSpoiled
  <2>2. Of(priv, p)
    BY <1>1, <2>1 DEF FileInv, OwnIsWritten
  <2>3. QED
    BY <1>2, <2>1, <2>2 DEF Of, Matching
<1>8. spoiled => spoiled' \/ (alone[p] /\ ~AtWork(p)')
  BY <1>4, <1>5
<1>9. QED
  BY <1>1, <1>3, <1>4, <1>6, <1>7, <1>8, WriterSteps DEF Writers

LEMMA KillWriterSound ==
  ASSUME TypeOK, FileInv, NEW p \in Procs, KillWriter(p), UNCHANGED offers
  PROVE  FileInv'
<1>1. AtWork(p) /\ tool[p] \in Writers
  BY DEF KillWriter, AtWork
<1>2. /\ tool' = tool /\ alone' = alone /\ UNCHANGED <<priv, pub, key>>
      /\ \E x \in {"ended"} : at' = [at EXCEPT ![p] = x]
      /\ spoiled' = \/ spoiled
                    \/ at[p] \in {"write", "writepub"}
                    \/ at[p] = "openpub" /\ tool[p] = "generate"
  BY DEF KillWriter, Exits, fileVars, diskVars, handVars
<1>3. StepOf(p) /\ at'[p] \in {"ended"}
  <2>1. {"ended"} \subseteq PlacesOf(tool[p]) \ {"waiting"} /\ at[p] # "waiting"
    BY <1>1, WhereTo DEF AtWork, Running
  <2>2. QED
    BY <1>2, <2>1, Moves
<1>4. OthersKeep(p) /\ ~AtWork(p)'
  BY <1>2, <1>3 DEF OthersKeep, AtWork, Running
<1>5. HoldsKey(p)' /\ OwnIsWritten(p)' /\ WorkIsSound(p)'
  BY <1>3, <1>4 DEF HoldsKey, OwnIsWritten, WorkIsSound
<1>6. PairIsWhole'
  <2> SUFFICES ASSUME ~spoiled'
               PROVE  Matching(priv, pub)
    BY <1>2 DEF PairIsWhole, Matching
  <2>1. ~spoiled /\ alone[p] /\ at[p] \notin {"write", "writepub"}
        /\ ~(at[p] = "openpub" /\ tool[p] = "generate")
    BY <1>1, <1>2 DEF FileInv, TwoAreSpoiled
  <2>2. at[p] \in {"overwrite", "make", "open", "unseal", "read", "openpub"}
    BY <1>1, <2>1 DEF FileInv, InPlace, PlacesOf, AtWork, Running, Writers, Adders
  <2>3. WorkIsSound(p) /\ OwnIsWritten(p)
    BY DEF FileInv
  <2>4. CASE at[p] \in {"overwrite", "make"} \/ (at[p] = "open" /\ tool[p] = "generate")
    BY <2>1, <2>3, <2>4, <1>1 DEF WorkIsSound
  <2>5. CASE at[p] \in {"unseal", "read"}
    BY <2>1, <2>3, <2>5, <1>1, ToolAt DEF WorkIsSound, Of, Matching, FileInv
  <2>6. CASE at[p] \in {"open", "openpub"} /\ tool[p] # "generate"
    BY <2>1, <2>3, <2>6, <1>1 DEF WorkIsSound, OwnIsWritten, Of, Matching
  <2>7. QED
    BY <2>1, <2>2, <2>4, <2>5, <2>6
<1>7. QED
  BY <1>1, <1>2, <1>3, <1>4, <1>5, <1>6, WriterSteps
LEMMA StatSound ==
  ASSUME TypeOK, FileInv, NEW p \in Procs, Stat(p), UNCHANGED offers
  PROVE  FileInv'
<1>1. /\ tool[p] = "generate" /\ tool' = tool /\ Disturbs(p) /\ UNCHANGED <<priv, pub, key>>
      /\ at[p] = "waiting"
      /\ at' = [at EXCEPT ![p] = IF priv = Missing THEN "make" ELSE "overwrite"]
  BY DEF Stat, Begins, BeginsAt, fileVars, diskVars, handVars
<1>2. StartOf(p) /\ at'[p] \in {"make", "overwrite"}
  <2>1. {"make", "overwrite"} \subseteq PlacesOf(tool[p]) \ {"waiting"}
    BY <1>1, WhereTo
  <2>2. \E x \in {"make", "overwrite"} : at' = [at EXCEPT ![p] = x]
    BY <1>1
  <2>3. QED
    BY <1>1, <2>1, <2>2 DEF StartOf, TypeOK
<1>3. OthersKeep(p)
  BY <1>1 DEF OthersKeep
<1>4. HoldsKey(p)'
  BY <1>1, <1>2 DEF HoldsKey
<1>5. WorkIsSound(p)'
  <2> SUFFICES ASSUME ~spoiled'
               PROVE  Matching(priv, pub)
    BY <1>1, <1>2 DEF WorkIsSound, Matching
  <2>1. ~spoiled /\ ~AtWork(p) /\ ~Beside(p)
    BY <1>1 DEF Disturbs, Writers, AtWork, Running
  <2>2. QED
    BY <2>1 DEF FileInv, PairIsWhole, Beside
<1>6. QED
  BY <1>1, <1>2, <1>3, <1>4, <1>5, WriterStarts DEF Writers

LEMMA ReadKeySound ==
  ASSUME TypeOK, FileInv, NEW p \in Procs, ReadKey(p), UNCHANGED offers
  PROVE  FileInv'
<1>1. /\ tool[p] \in {"changepass", "changecomment"} /\ tool' = tool /\ Disturbs(p) /\ UNCHANGED <<priv, pub>>
      /\ at[p] = "waiting"
      /\ \/ /\ priv.state = "whole" /\ key' = [key EXCEPT ![p] = priv.key]
            /\ at' = [at EXCEPT ![p] = IF priv.sealed THEN "unseal" ELSE "read"]
         \/ at' = [at EXCEPT ![p] = "ended"] /\ key' = key
  BY DEF ReadKey, Begins, BeginsAt, BeginsInVain, Takes, diskVars
<1>2. \/ at'[p] \in {"unseal", "read"} /\ Of(priv, p)'
      \/ at'[p] = "ended"
  BY <1>1 DEF TypeOK, KeyFilesTypeOK, Of
<1>3. StartOf(p) /\ OthersKeep(p)
  BY <1>1, WhereTo DEF StartOf, OthersKeep, TypeOK, KeyFilesTypeOK
<1>4. priv.state = "whole" => priv.key # NoKey
  BY DEF TypeOK, KeyFilesTypeOK, Files, Missing, Torn, File
<1>5. HoldsKey(p)'
  BY <1>1, <1>2, <1>4 DEF HoldsKey, Of, AtWork, Running
<1>6. WorkIsSound(p)'
  <2> SUFFICES ASSUME ~spoiled', at'[p] \in {"unseal", "read"}
               PROVE  Of(pub, p)'
    BY <1>1, <1>2 DEF WorkIsSound, AtWork, Running
  <2>1. ~spoiled /\ ~AtWork(p) /\ ~Beside(p)
    BY <1>1 DEF Disturbs, Writers, AtWork, Running
  <2>2. Matching(priv, pub)
    BY <2>1 DEF FileInv, PairIsWhole, Beside
  <2>3. Of(priv, p)' /\ priv' = priv /\ pub' = pub
    BY <1>1, <1>2
  <2>4. QED
    BY <2>2, <2>3 DEF Matching, Of, Missing, File
<1>7. QED
  BY <1>1, <1>2, <1>3, <1>5, <1>6, WriterStarts DEF Writers
LEMMA KeygenSound ==
  ASSUME TypeOK, FileInv, NEW p \in Procs, KeygenNext(p), UNCHANGED offers
  PROVE  FileInv'
BY StatSound, OverwriteSound, MakeKeySound, ReadKeySound, UnsealSound, RereadSound, OpenPrivSound, WritePrivSound,
   OpenPubSound, WritePubSound, KillWriterSound DEF KeygenNext

LEMMA OtherTools ==
  ASSUME TypeOK, FileInv, NEW p \in Procs, tool[p] \notin Writers \cup {"ssh"},
         (StepOf(p) /\ Running(p) /\ spoiled' = spoiled) \/ StartOf(p),
         OthersKeep(p), UNCHANGED <<priv, pub>>
  PROVE  FileInv'
<1>1. tool' = tool
  BY DEF StepOf, StartOf
<1>2. at'[p] \notin {"waiting", "identity"}
  <2>1. PICK x \in PlacesOf(tool[p]) \ {"waiting"} : at' = [at EXCEPT ![p] = x]
    BY DEF StepOf, StartOf
  <2>2. "identity" \notin PlacesOf(tool[p])
    BY DEF PlacesOf, Writers, Adders
  <2>3. QED
    BY <2>1, <2>2 DEF TypeOK
<1>3. HoldsKey(p)' /\ SshHolds(p)'
  BY <1>1, <1>2 DEF HoldsKey, SshHolds, AtWork
<1>4. QED
  BY <1>3, ReadersKeep

-----------------------------------------------------------------------------
(* The actions of ssh-agent: they touch no file and hold no key.           *)

LEMMA AgentAt ==
  ASSUME InPlace, NEW a \in Procs
  PROVE  /\ at[a] \in {"bound", "unbound", "spawned"} => tool[a] = "daemon"
         /\ at[a] = "serving" => tool[a] \in {"foreground", "command"}
BY DEF InPlace, PlacesOf, Adders

AgentMoves(a) ==
  /\ tool[a] \in Agents \cup {"kill"}
  /\ \/ StepOf(a) /\ Running(a) /\ spoiled' = spoiled
     \/ StartOf(a)

LEMMA GoesMoves ==
  ASSUME TypeOK, NEW p \in Procs, Running(p), NEW x \in PlacesOf(tool[p]) \ {"waiting"}, spoiled' = spoiled,
         Goes(p, x)
  PROVE  StepOf(p) /\ at'[p] = x /\ exit' = exit
BY DEF Goes, StepOf, Running, TypeOK

LEMMA ExitsMoves ==
  ASSUME TypeOK, NEW p \in Procs, Running(p), NEW val, spoiled' = spoiled, Exits(p, val)
  PROVE  StepOf(p) /\ at'[p] = "ended"
BY WhereTo DEF Exits, StepOf, Running, TypeOK

LEMMA BeginsMoves ==
  ASSUME TypeOK, NEW p \in Procs, at[p] = "waiting",
         NEW x \in PlacesOf(tool[p]) \ {"waiting"}, BeginsAt(p, x)
  PROVE  StartOf(p) /\ at'[p] = x
BY DEF BeginsAt, StartOf, TypeOK

LEMMA BeginsInVainMoves ==
  ASSUME TypeOK, NEW p \in Procs, at[p] = "waiting", NEW val, BeginsInVain(p, val)
  PROVE  StartOf(p) /\ at'[p] = "ended"
BY WhereTo DEF BeginsInVain, StartOf, TypeOK

LEMMA GoneMoves ==
  ASSUME TypeOK, InPlace, NEW a \in Procs, NEW stage, NEW val, Gone(a, stage, val), spoiled' = spoiled
  PROVE  UNCHANGED toolVars \/ AgentMoves(a)
<1>1. CASE at[a] = "serving"
  BY <1>1, AgentAt, ExitsMoves DEF Gone, AgentMoves, Agents, Running
<1>2. CASE at[a] # "serving"
  BY <1>2 DEF Gone, toolVars
<1>3. QED
  BY <1>1, <1>2

LEMMA EachAgentMoves ==
  ASSUME TypeOK, InPlace, NEW a \in Procs, AgentNext(a)
  PROVE  UNCHANGED toolVars \/ AgentMoves(a)
<1>1. CASE Listen(a)
  <2>1. tool[a] \in Agents /\ at[a] = "waiting"
    BY <1>1 DEF Listen, Begins
  <2>2. \/ tool[a] = "daemon" /\ BeginsAt(a, "bound")
        \/ tool[a] # "daemon" /\ BeginsAt(a, "serving")
        \/ BeginsInVain(a, "1")
    BY <1>1 DEF Listen
  <2>3. StartOf(a)
    BY <2>1, <2>2, WhereTo, BeginsMoves, BeginsInVainMoves DEF Agents
  <2>4. QED
    BY <2>1, <2>3 DEF AgentMoves
<1>2. CASE CloseOwn(a)
  BY <1>2, AgentAt, WhereTo, GoesMoves DEF CloseOwn, AgentMoves, Agents, Running
<1>3. CASE Spawn(a)
  <2>1. tool[a] = "daemon" /\ Running(a) /\ spoiled' = spoiled
    BY <1>3, AgentAt DEF Spawn, Running
  <2>2. StepOf(a)
    BY <1>3, <2>1, WhereTo, GoesMoves, ExitsMoves DEF Spawn
  <2>3. QED
    BY <2>1, <2>2 DEF AgentMoves, Agents
<1>4. CASE TellOfChild(a)
  BY <1>4, AgentAt, ExitsMoves DEF TellOfChild, AgentMoves, Agents, Running
<1>5. CASE ChildListens(a) \/ Announce(a) \/ Notify(a) \/ RunCommand(a) \/ CommandEnds(a)
           \/ CloseListener(a) \/ Interrupt(a)
  BY <1>5 DEF ChildListens, Announce, Notify, RunCommand, CommandEnds, CloseListener, Interrupt
<1>6. CASE Deliver(a)
  <2>1. spoiled' = spoiled
    BY <1>6 DEF Deliver
  <2>2. CASE tool[a] # "command" /\ serve[a] \in {"serving", "closing", "closed"}
    BY <1>6, <2>1, <2>2 DEF Deliver, toolVars
  <2>3. CASE ~(tool[a] # "command" /\ serve[a] \in {"serving", "closing", "closed"})
    BY <1>6, <2>1, <2>3, GoneMoves DEF Deliver
  <2>4. QED
    BY <2>2, <2>3
<1>7. CASE KillAgent(a)
  BY <1>7, GoneMoves DEF KillAgent
<1>8. CASE KillParent(a)
  BY <1>8, ExitsMoves DEF KillParent, AgentMoves, Agents
<1>9. CASE CleanUp(a)
  BY <1>9, GoneMoves DEF CleanUp
<1>10. CASE Kill(a)
  <2>1. tool[a] = "kill" /\ at[a] = "waiting"
    BY <1>10 DEF Kill, Begins
  <2>2. BeginsInVain(a, "0") \/ BeginsInVain(a, "1")
    BY <1>10 DEF Kill
  <2>3. QED
    BY <2>1, <2>2, BeginsInVainMoves DEF AgentMoves
<1>11. QED
  BY <1>1, <1>2, <1>3, <1>4, <1>5, <1>6, <1>7, <1>8, <1>9, <1>10 DEF AgentNext

LEMMA AgentSound ==
  ASSUME TypeOK, FileInv, NEW a \in Procs, AgentNext(a), UNCHANGED notAgent
  PROVE  FileInv'
<1>1. UNCHANGED <<fileVars, offers>> /\ UNCHANGED <<priv, pub, key>>
  BY DEF notAgent, useVars, fileVars, diskVars, handVars
<1>2. CASE UNCHANGED toolVars
  BY <1>1, <1>2, NobodySteps
<1>3. CASE AgentMoves(a)
  <2>1. tool[a] \notin Writers \cup {"ssh"}
    BY <1>3 DEF AgentMoves, Agents, Writers
  <2>2. OthersKeep(a)
    BY <1>1 DEF OthersKeep
  <2>3. QED
    BY <1>1, <1>3, <2>1, <2>2, OtherTools DEF AgentMoves
<1>4. QED
  BY <1>2, <1>3, EachAgentMoves DEF FileInv
-----------------------------------------------------------------------------
(* ssh-add and ssh-copy-id.                                                *)

LEMMA UserAt ==
  ASSUME InPlace, NEW c \in Procs
  PROVE  /\ at[c] \in {"file", "ask", "send"} => tool[c] \in Adders
         /\ at[c] = "login" => tool[c] = "copyid"
         /\ at[c] \in {"identity", "passphrase", "signer", "offer"} => tool[c] = "ssh"
BY DEF InPlace, PlacesOf, Adders

LEMMA FinishesMoves ==
  ASSUME TypeOK, NEW p \in Procs, Running(p), NEW val, spoiled' = spoiled, Finishes(p, val)
  PROVE  StepOf(p)
BY ExitsMoves DEF Finishes

LEMMA DoneMoves ==
  ASSUME TypeOK, NEW p \in Procs, Running(p), NEW a, NEW ring, NEW lock, spoiled' = spoiled, Done(p, a, ring, lock)
  PROVE  StepOf(p)
BY FinishesMoves DEF Done

LEMMA AddersAndCopy == \A t \in Adders \cup {"copyid"} : t \notin Writers \cup {"ssh"}
BY DEF Adders, Writers

LEMMA ConnectAgentSound ==
  ASSUME TypeOK, FileInv, NEW c \in Procs, ConnectAgent(c)
  PROVE  FileInv'
<1>1. tool[c] \in Adders /\ at[c] = "waiting"
  BY DEF ConnectAgent, Begins
<1>2. BeginsAt(c, "file") \/ BeginsAt(c, "send") \/ BeginsInVain(c, "2")
  BY DEF ConnectAgent
<1>3. StartOf(c)
  BY <1>1, <1>2, WhereTo, BeginsMoves, BeginsInVainMoves
<1>4. OthersKeep(c) /\ UNCHANGED <<priv, pub>>
  BY DEF ConnectAgent, notAgent, fileVars, diskVars, handVars, useVars, OthersKeep
<1>5. QED
  BY <1>1, <1>3, <1>4, AddersAndCopy, OtherTools

LEMMA ReadToAddSound ==
  ASSUME TypeOK, FileInv, NEW c \in Procs, ReadToAdd(c)
  PROVE  FileInv'
<1>1. tool[c] \in Adders /\ Running(c) /\ spoiled' = spoiled
  BY UserAt DEF ReadToAdd, Running, FileInv
<1>2. Goes(c, "ask") \/ Goes(c, "send") \/ Finishes(c, "1")
  BY DEF ReadToAdd
<1>3. StepOf(c)
  BY <1>1, <1>2, WhereTo, GoesMoves, FinishesMoves
<1>4. key' = key \/ \E k : key' = [key EXCEPT ![c] = k]
  BY DEF ReadToAdd, Takes
<1>5. OthersKeep(c) /\ UNCHANGED <<priv, pub>>
  BY <1>4 DEF ReadToAdd, diskVars, useVars, OthersKeep, TypeOK, KeyFilesTypeOK
<1>6. QED
  BY <1>1, <1>3, <1>5, AddersAndCopy, OtherTools

LEMMA AskOrSendSound ==
  ASSUME TypeOK, FileInv, NEW c \in Procs, Ask(c) \/ Send(c) \/ Refused(c)
  PROVE  FileInv'
<1>1. tool[c] \in Adders /\ Running(c) /\ spoiled' = spoiled
  BY UserAt DEF Ask, Send, Refused, Running, FileInv
<1>2. StepOf(c)
  <2>1. CASE Ask(c)
    BY <2>1, <1>1, WhereTo, GoesMoves, FinishesMoves DEF Ask
  <2>2. CASE Send(c)
    BY <2>2, <1>1, DoneMoves DEF Send
  <2>3. CASE Refused(c)
    BY <2>3, <1>1, FinishesMoves DEF Refused
  <2>4. QED
    BY <2>1, <2>2, <2>3
<1>3. OthersKeep(c) /\ UNCHANGED <<priv, pub>>
  BY DEF Ask, Send, Refused, notAgent, fileVars, diskVars, handVars, useVars, OthersKeep
<1>4. QED
  BY <1>1, <1>2, <1>3, AddersAndCopy, OtherTools

LEMMA LoadPublicKeySound ==
  ASSUME TypeOK, FileInv, NEW c \in Procs, LoadPublicKey(c)
  PROVE  FileInv'
<1>1. tool[c] = "copyid" /\ at[c] = "waiting"
  BY DEF LoadPublicKey, Begins
<1>2. BeginsAt(c, "login") \/ BeginsInVain(c, "1")
  BY DEF LoadPublicKey
<1>3. StartOf(c)
  BY <1>1, <1>2, WhereTo, BeginsMoves, BeginsInVainMoves
<1>4. key' = key \/ \E k : key' = [key EXCEPT ![c] = k]
  BY DEF LoadPublicKey, Takes
<1>5. OthersKeep(c) /\ UNCHANGED <<priv, pub>>
  BY <1>4 DEF LoadPublicKey, notFiles, useVars, diskVars, OthersKeep, TypeOK, KeyFilesTypeOK
<1>6. QED
  BY <1>1, <1>3, <1>5, AddersAndCopy, OtherTools

LEMMA InstallSound ==
  ASSUME TypeOK, FileInv, NEW c \in Procs, Install(c)
  PROVE  FileInv'
<1>1. tool[c] = "copyid" /\ Running(c) /\ spoiled' = spoiled
  BY UserAt DEF Install, Running, FileInv
<1>2. StepOf(c)
  BY <1>1, ExitsMoves DEF Install
<1>3. OthersKeep(c) /\ UNCHANGED <<priv, pub>>
  BY DEF Install, fileVars, diskVars, handVars, OthersKeep
<1>4. QED
  BY <1>1, <1>2, <1>3, AddersAndCopy, OtherTools
-----------------------------------------------------------------------------
(* ssh.                                                                    *)

LEMMA AgentSignersSound ==
  ASSUME TypeOK, FileInv, NEW c \in Procs, AgentSigners(c)
  PROVE  FileInv'
<1>1. tool[c] = "ssh" /\ at[c] = "waiting" /\ UNCHANGED <<priv, pub, key>>
  BY DEF AgentSigners, Begins, fileVars, diskVars, handVars
<1>2. StartOf(c) /\ at'[c] = "identity"
  BY <1>1, WhereTo, BeginsMoves DEF AgentSigners
<1>3. OthersKeep(c)
  <2>1. offers' = offers \/ \E signers : offers' = [offers EXCEPT ![c] = signers]
    BY DEF AgentSigners
  <2>2. QED
    BY <1>1, <2>1 DEF OthersKeep, TypeOK
<1>4. HoldsKey(c)'
  BY <1>1, <1>2 DEF FileInv, HoldsKey, AtWork, StartOf, Writers
<1>5. SshHolds(c)'
  BY <1>2 DEF SshHolds
<1>6. QED
  BY <1>1, <1>2, <1>3, <1>4, <1>5, ReadersKeep DEF Writers

LEMMA ReadIdentitySound ==
  ASSUME TypeOK, FileInv, NEW c \in Procs, ReadIdentity(c)
  PROVE  FileInv'
<1>1. tool[c] = "ssh" /\ Running(c) /\ spoiled' = spoiled /\ UNCHANGED <<priv, pub, offers>>
  BY UserAt DEF ReadIdentity, Running, FileInv, diskVars, notFiles, useVars
<1>2. \/ /\ priv.state = "whole" /\ key' = [key EXCEPT ![c] = priv.key]
         /\ Goes(c, "passphrase") \/ Goes(c, "signer")
      \/ key' = key /\ Goes(c, "offer")
  BY DEF ReadIdentity, Takes
<1>3. StepOf(c) /\ at'[c] \in {"passphrase", "signer", "offer"} /\ (at'[c] = "offer" <=> Goes(c, "offer"))
  BY <1>1, <1>2, WhereTo, GoesMoves
<1>4. \/ at'[c] \in {"passphrase", "signer"} /\ Of(priv, c)'
      \/ at'[c] = "offer" /\ key'[c] = key[c]
  BY <1>1, <1>2, <1>3, WhereTo, GoesMoves DEF Of, TypeOK, KeyFilesTypeOK
<1>5. OthersKeep(c)
  BY <1>1, <1>2 DEF OthersKeep, TypeOK, KeyFilesTypeOK
<1>6. HoldsKey(c)'
  BY <1>1, <1>3 DEF HoldsKey, AtWork, StepOf, Writers
<1>7. SshHolds(c)'
  <2>1. key[c] = NoKey
    BY DEF ReadIdentity, FileInv, HoldsKey
  <2>2. QED
    BY <1>3, <1>4, <2>1 DEF SshHolds
<1>8. QED
  BY <1>1, <1>3, <1>5, <1>6, <1>7, ReadersKeep DEF Writers

LEMMA PassphraseForSound ==
  ASSUME TypeOK, FileInv, NEW c \in Procs, PassphraseFor(c)
  PROVE  FileInv'
<1>1. tool[c] = "ssh" /\ Running(c) /\ spoiled' = spoiled /\ UNCHANGED <<priv, pub, offers>>
  BY UserAt DEF PassphraseFor, Running, FileInv, diskVars, notFiles, useVars
<1>2. \/ key' = key /\ Goes(c, "signer")
      \/ key' = [key EXCEPT ![c] = NoKey] /\ Goes(c, "offer")
  BY DEF PassphraseFor, Takes
<1>3. /\ StepOf(c)
      /\ \/ at'[c] = "signer" /\ key' = key
         \/ at'[c] = "offer" /\ key' = [key EXCEPT ![c] = NoKey]
  BY <1>1, <1>2, WhereTo, GoesMoves
<1>4. OthersKeep(c)
  BY <1>1, <1>2 DEF OthersKeep, TypeOK, KeyFilesTypeOK
<1>5. HoldsKey(c)'
  BY <1>1, <1>3 DEF HoldsKey, AtWork, StepOf, Writers
<1>6. SshHolds(c)'
  <2>1. SshHolds(c)
    BY DEF FileInv
  <2>2. CASE at'[c] = "signer" /\ key' = key
    BY <2>1, <2>2, <1>1, <1>3 DEF SshHolds, Of, StepOf, PassphraseFor
  <2>3. CASE at'[c] = "offer" /\ key' = [key EXCEPT ![c] = NoKey]
    BY <2>3 DEF SshHolds, TypeOK, KeyFilesTypeOK
  <2>4. QED
    BY <1>3, <2>2, <2>3
<1>7. QED
  BY <1>1, <1>3, <1>4, <1>5, <1>6, ReadersKeep DEF Writers

LEMMA AddSignerSound ==
  ASSUME TypeOK, FileInv, NEW c \in Procs, AddSigner(c)
  PROVE  FileInv'
<1>1. tool[c] = "ssh" /\ Running(c) /\ spoiled' = spoiled /\ UNCHANGED <<priv, pub, key>>
  BY UserAt DEF AddSigner, Running, FileInv, fileVars, diskVars, handVars
<1>2. StepOf(c) /\ at'[c] = "offer"
  BY <1>1, WhereTo, GoesMoves DEF AddSigner
<1>3. /\ OthersKeep(c)
      /\ key[c] \in offers'[c]
  BY <1>1 DEF AddSigner, OthersKeep, TypeOK
<1>4. HoldsKey(c)'
  BY <1>1, <1>2 DEF HoldsKey, AtWork, StepOf, Writers
<1>5. SshHolds(c)'
  <2>1. SshHolds(c)
    BY DEF FileInv
  <2>2. QED
    BY <2>1, <1>1, <1>2, <1>3 DEF SshHolds, Of, StepOf, AddSigner
<1>6. QED
  BY <1>1, <1>2, <1>3, <1>4, <1>5, ReadersKeep DEF Writers

LEMMA LogInSound ==
  ASSUME TypeOK, FileInv, NEW c \in Procs, LogIn(c)
  PROVE  FileInv'
<1>1. tool[c] = "ssh" /\ Running(c) /\ spoiled' = spoiled /\ UNCHANGED <<priv, pub, key, offers>>
  BY UserAt DEF LogIn, Running, FileInv, fileVars, diskVars, handVars, useVars
<1>2. StepOf(c) /\ at'[c] = "ended"
  BY <1>1, ExitsMoves DEF LogIn, Finishes
<1>3. OthersKeep(c)
  BY <1>1 DEF OthersKeep
<1>4. HoldsKey(c)' /\ SshHolds(c)'
  BY <1>1, <1>2 DEF HoldsKey, AtWork, Running, SshHolds
<1>5. QED
  BY <1>1, <1>2, <1>3, <1>4, ReadersKeep DEF Writers

LEMMA UseSound ==
  ASSUME TypeOK, FileInv, NEW c \in Procs, UseNext(c)
  PROVE  FileInv'
BY ConnectAgentSound, ReadToAddSound, AskOrSendSound, LoadPublicKeySound, InstallSound, AgentSignersSound,
   ReadIdentitySound, PassphraseForSound, AddSignerSound, LogInSound DEF UseNext

-----------------------------------------------------------------------------
(* Types.                                                                  *)

LEMMA TypeInit == Init => TypeOK
<1> SUFFICES ASSUME Init PROVE TypeOK
  OBVIOUS
<1>1. tool \in [Procs -> AllTools]
  BY PlansAssumption DEF Init, ToolsInit
<1>2. KeyFilesTypeOK
  BY PairsAssumption DEF Init, KeyFilesInit, KeyFilesTypeOK, Keys, NoKey, Files, Missing, Torn, File, Matching
<1>3. AgentTypeOK(Keys)
  BY DEF Init, AgentInit, AgentTypeOK, Names, Stages
<1>4. QED
  BY <1>1, <1>2, <1>3 DEF Init, ToolsInit, TypeOK, Places

LEMMA FileInit == ASSUME Init, TypeOK PROVE FileInv
<1>1. \A p \in Procs : at[p] = "waiting" /\ key[p] = NoKey
  BY DEF Init, ToolsInit, KeyFilesInit
<1>2. \A p \in Procs : ~Running(p) /\ ~AtWork(p)
  BY <1>1 DEF Running, AtWork
<1>3. PairIsWhole
  BY PairsAssumption DEF Init, KeyFilesInit, PairIsWhole
<1>4. InPlace
  BY <1>1 DEF InPlace, PlacesOf
<1>5. QED
  BY <1>1, <1>2, <1>3, <1>4 DEF FileInv, AloneMeansAlone, TwoAreSpoiled, HoldsKey, OwnIsWritten, WorkIsSound, SshHolds
Codes == {"none", "0", "1", "2", "255", "killed"}

ToolTyped ==
  /\ tool \in [Procs -> AllTools] /\ at \in [Procs -> Places]
  /\ exit \in [Procs -> Codes]
  /\ alone \in [Procs -> BOOLEAN] /\ spoiled \in BOOLEAN

LEMMA ToolMoves ==
  ASSUME ToolTyped, NEW p \in Procs, NEW place \in Places, NEW val \in Codes
  PROVE  /\ (Goes(p, place) \/ Exits(p, val)) /\ spoiled' \in BOOLEAN => ToolTyped'
         /\ BeginsAt(p, place) \/ BeginsInVain(p, val) => ToolTyped'
<1>1. "ended" \in Places
  BY DEF Places
<1>2. Disturbs(p) => alone' \in [Procs -> BOOLEAN] /\ spoiled' \in BOOLEAN
  BY DEF Disturbs, ToolTyped
<1>3. Goes(p, place) /\ spoiled' \in BOOLEAN => ToolTyped'
  BY DEF Goes, ToolTyped
<1>4. Exits(p, val) /\ spoiled' \in BOOLEAN => ToolTyped'
  BY <1>1 DEF Exits, ToolTyped
<1>5. BeginsAt(p, place) => ToolTyped'
  BY <1>2 DEF BeginsAt, ToolTyped
<1>6. BeginsInVain(p, val) => ToolTyped'
  BY <1>1, <1>2 DEF BeginsInVain, ToolTyped
<1>7. QED
  BY <1>3, <1>4, <1>5, <1>6

LEMMA WholeTyped ==
  ASSUME NEW k \in Nat \ {NoKey}, NEW s \in BOOLEAN
  PROVE  Whole(k, s) \in Files /\ Whole(k, s).key = k /\ Whole(k, s).sealed = s
BY DEF Whole, File, Files

LEMMA TornTyped == Torn \in Files /\ Torn.key = NoKey /\ ~Torn.sealed
BY DEF Torn, File, Files

\* What of the files and the hands is typed, and that no key is forgotten.
FilesTyped == KeyFilesTypeOK' /\ Keys \subseteq Keys'

LEMMA KeygenTyped ==
  ASSUME ToolTyped, KeyFilesTypeOK, FileInv, NEW p \in Procs, KeygenNext(p)
  PROVE  ToolTyped' /\ FilesTyped
<1> USE DEF NoKey
<1>1. \A k \in Keys : k \in Nat
  BY DEF Keys, KeyFilesTypeOK
<1>2. fresh' = fresh => Keys' = Keys
  BY DEF Keys
<1>3. key[p] \in Keys /\ key[p] \in Nat /\ sealed[p] \in BOOLEAN
  BY <1>1 DEF KeyFilesTypeOK
<1>4. ASSUME AtWork(p), at[p] \notin {"overwrite", "make"}
      PROVE  \A s \in BOOLEAN : /\ Whole(key[p], s) \in Files /\ Whole(key[p], s).key \in Keys
                                /\ Whole(key[p], s).sealed = s
  BY <1>3, <1>4, WholeTyped DEF FileInv, HoldsKey
<1>5. NoKey \in Keys
  BY DEF Keys, KeyFilesTypeOK
<1>6. CASE Stat(p) \/ Overwrite(p) \/ Unseal(p) \/ KillWriter(p)
  <2>1. UNCHANGED fileVars /\ FilesTyped
    BY <1>2, <1>6 DEF Stat, Overwrite, Unseal, KillWriter, fileVars, diskVars, handVars, FilesTyped,
       KeyFilesTypeOK, Keys
  <2>2. ToolTyped'
    <3>1. spoiled' \in BOOLEAN
      BY <1>6 DEF ToolTyped, Stat, BeginsAt, Disturbs, Overwrite, Unseal, KillWriter
    <3>2. \/ \E place \in Places : Goes(p, place) \/ BeginsAt(p, place)
          \/ \E val \in Codes : Exits(p, val)
      BY <1>6 DEF Stat, Overwrite, Unseal, KillWriter, Places, Codes
    <3>3. QED
      BY <3>1, <3>2, ToolMoves DEF Codes, Places
  <2>3. QED
    BY <2>1, <2>2
<1>7. CASE MakeKey(p)
  <2>1. ToolTyped'
    BY <1>7, ToolMoves DEF MakeKey, Places, Codes, ToolTyped
  <2>2. CASE UNCHANGED fileVars
    BY <2>1, <2>2 DEF fileVars, diskVars, handVars, FilesTyped, KeyFilesTypeOK, Keys
  <2>3. CASE /\ key' = [key EXCEPT ![p] = fresh] /\ fresh' = fresh + 1
             /\ \E s \in BOOLEAN : sealed' = [sealed EXCEPT ![p] = s]
             /\ UNCHANGED <<priv, pub>>
    <3>1. Keys \subseteq Keys' /\ fresh \in Keys' /\ fresh' \in Nat \ {0, 1}
      BY <2>3 DEF Keys, KeyFilesTypeOK
    <3>2. key' \in [Procs -> Keys']
      BY <2>3, <3>1 DEF KeyFilesTypeOK
    <3>3. sealed' \in [Procs -> BOOLEAN]
      BY <2>3 DEF KeyFilesTypeOK
    <3>4. QED
      BY <2>1, <2>3, <3>1, <3>2, <3>3 DEF FilesTyped, KeyFilesTypeOK
  <2>4. QED
    BY <1>7, <2>2, <2>3 DEF MakeKey, Takes
<1>8. CASE ReadKey(p)
  <2>1. ToolTyped'
    BY <1>8, ToolMoves DEF ReadKey, Places, Codes
  <2>2. FilesTyped
    BY <1>2, <1>8 DEF ReadKey, Takes, diskVars, FilesTyped, KeyFilesTypeOK, Keys
  <2>3. QED
    BY <2>1, <2>2
<1>9. CASE NewPass(p) \/ NewComment(p)
  <2>1. ToolTyped'
    BY <1>9, ToolMoves DEF NewPass, NewComment, Places, Codes, ToolTyped
  <2>2. sealed' \in [Procs -> BOOLEAN] /\ UNCHANGED <<diskVars, key>>
    BY <1>9 DEF NewPass, NewComment, KeyFilesTypeOK
  <2>3. FilesTyped
    BY <1>2, <2>2 DEF diskVars, FilesTyped, KeyFilesTypeOK, Keys
  <2>4. QED
    BY <2>1, <2>3
<1>10. CASE OpenPriv(p) \/ WritePriv(p) \/ OpenPub(p) \/ WritePub(p)
  <2>1. AtWork(p) /\ at[p] \notin {"overwrite", "make"}
    BY <1>10, WritersWork DEF FileInv, OpenPriv, WritePriv, OpenPub, WritePub, WriterPlaces
  <2>2. UNCHANGED <<fresh, key, sealed>>
    BY <1>10 DEF OpenPriv, WritePriv, OpenPub, WritePub, handVars
  <2>3. priv' \in {priv, Torn, Whole(key[p], sealed[p])} /\ pub' \in {pub, Torn, Whole(key[p], FALSE)}
    BY <1>10 DEF OpenPriv, WritePriv, OpenPub, WritePub
  <2>4. priv' \in Files /\ priv'.key \in Keys
    BY <2>1, <2>3, <1>3, <1>4, <1>5, TornTyped DEF KeyFilesTypeOK
  <2>5. pub' \in Files /\ pub'.key \in Keys /\ ~pub'.sealed
    BY <2>1, <2>3, <1>3, <1>4, <1>5, TornTyped DEF KeyFilesTypeOK
  <2>6. FilesTyped
    BY <1>2, <2>2, <2>4, <2>5 DEF FilesTyped, KeyFilesTypeOK
  <2>7. spoiled' \in BOOLEAN
    BY <1>10 DEF ToolTyped, OpenPriv, WritePriv, OpenPub, WritePub
  <2>8. \/ \E place \in {"write", "openpub", "writepub"} : Goes(p, place)
        \/ \E val \in {"0", "1"} : Exits(p, val)
    BY <1>10 DEF OpenPriv, WritePriv, OpenPub, WritePub, PubFails
  <2>9. QED
    BY <2>6, <2>7, <2>8, ToolMoves DEF Places, Codes
<1>11. QED
  BY <1>6, <1>7, <1>8, <1>9, <1>10 DEF KeygenNext
-----------------------------------------------------------------------------
\* The agents, with K for the keys that there are.
LEMMA GoneTyped ==
  ASSUME NEW K, ToolTyped, AgentTypeOK(K), NEW a \in Procs, NEW stage \in Stages, NEW x \in Codes,
         Gone(a, stage, x), spoiled' = spoiled
  PROVE  /\ ToolTyped'
         /\ serve' \in [Procs -> Stages] /\ keyring' \in [Procs -> SUBSET K]
         /\ locked' \in [Procs -> BOOLEAN] /\ conn' \in [Procs -> Procs \cup {Nobody}]
<1>1. ToolTyped'
  <2>1. CASE at[a] = "serving"
    BY <2>1, ToolMoves DEF Gone, ToolTyped, Places
  <2>2. CASE at[a] # "serving"
    BY <2>2 DEF Gone, ToolTyped
  <2>3. QED
    BY <2>1, <2>2
<1>2. QED
  BY <1>1 DEF Gone, Serves, HungUp, AgentTypeOK

LEMMA AgentTyped ==
  ASSUME NEW K, ToolTyped, AgentTypeOK(K), NEW a \in Procs, AgentNext(a)
  PROVE  ToolTyped' /\ AgentTypeOK(K)'
<1>1. CASE Listen(a)
  <2>1. ToolTyped'
    BY <1>1, ToolMoves DEF Listen, Places, Codes
  <2>2. PICK name \in {a, Given} :
          /\ path' = [path EXCEPT ![a] = name]
          /\ \E made \in BOOLEAN : dir' = [dir EXCEPT ![a] = made]
          /\ socket' = socket \/ socket' = [socket EXCEPT ![name] = a]
          /\ serve' = serve \/ serve' = [serve EXCEPT ![a] = "bound"]
    BY <1>1 DEF Listen, Serves
  <2>3. QED
    BY <1>1, <2>1, <2>2 DEF Listen, AgentTypeOK, Names, Stages, ringVars
<1>2. CASE CloseOwn(a)
  <2>1. ToolTyped'
    BY <1>2, ToolMoves DEF CloseOwn, Places, Codes, ToolTyped
  <2>2. QED
    BY <1>2, <2>1 DEF CloseOwn, AgentTypeOK, HungUp
<1>3. CASE Spawn(a) \/ TellOfChild(a)
  <2>1. ToolTyped'
    BY <1>3, ToolMoves DEF Spawn, TellOfChild, Places, Codes, ToolTyped
  <2>2. QED
    BY <1>3, <2>1 DEF Spawn, TellOfChild, Serves, AgentTypeOK, Stages, ringVars
<1>4. CASE ChildListens(a) \/ Announce(a) \/ Notify(a) \/ RunCommand(a) \/ CommandEnds(a)
           \/ CloseListener(a) \/ Interrupt(a)
  <2>1. ToolTyped'
    BY <1>4 DEF ChildListens, Announce, Notify, RunCommand, CommandEnds, CloseListener, Interrupt, toolVars,
       ToolTyped
  <2>2. CASE ChildListens(a)
    BY <2>2, <2>1 DEF ChildListens, Serves, AgentTypeOK, Stages, ringVars
  <2>3. CASE Announce(a) \/ Notify(a)
    BY <2>3, <2>1 DEF Announce, Notify, Serves, AgentTypeOK, Stages, ringVars
  <2>4. CASE RunCommand(a) \/ CommandEnds(a)
    BY <2>4, <2>1 DEF RunCommand, CommandEnds, Serves, AgentTypeOK, Stages, ringVars
  <2>5. CASE CloseListener(a) \/ Interrupt(a)
    BY <2>5, <2>1 DEF CloseListener, Interrupt, Serves, AgentTypeOK, Stages, ringVars
  <2>6. QED
    BY <1>4, <2>2, <2>3, <2>4, <2>5
<1>5. CASE Deliver(a)
  <2>1. CASE tool[a] # "command" /\ serve[a] \in {"serving", "closing", "closed"}
    BY <1>5, <2>1 DEF Deliver, Serves, ToolTyped, AgentTypeOK, Stages, ringVars
  <2>2. CASE ~(tool[a] # "command" /\ serve[a] \in {"serving", "closing", "closed"})
    BY <1>5, <2>2, GoneTyped DEF Deliver, AgentTypeOK, Stages, Codes
  <2>3. QED
    BY <2>1, <2>2
<1>6. CASE KillAgent(a)
  BY <1>6, GoneTyped DEF KillAgent, AgentTypeOK, Stages, Codes
<1>7. CASE KillParent(a)
  <2>1. ToolTyped'
    BY <1>7, ToolMoves DEF KillParent, Places, Codes, ToolTyped
  <2>2. QED
    BY <1>7, <2>1 DEF KillParent, HungUp, AgentTypeOK
<1>8. CASE CleanUp(a)
  <2>1. (IF tool[a] = "command" THEN code[a] ELSE "0") \in Codes
    BY DEF AgentTypeOK, Codes
  <2>2. /\ ToolTyped'
        /\ serve' \in [Procs -> Stages] /\ keyring' \in [Procs -> SUBSET K]
        /\ locked' \in [Procs -> BOOLEAN] /\ conn' \in [Procs -> Procs \cup {Nobody}]
    BY <1>8, <2>1, GoneTyped DEF CleanUp, Stages
  <2>3. QED
    BY <1>8, <2>2 DEF CleanUp, AgentTypeOK
<1>9. CASE Kill(a)
  <2>1. ToolTyped'
    BY <1>9, ToolMoves DEF Kill, Places, Codes
  <2>2. signalled' = signalled \/ \E b \in Procs : signalled' = [signalled EXCEPT ![b] = TRUE]
    BY <1>9 DEF Kill
  <2>3. QED
    BY <1>9, <2>1, <2>2 DEF Kill, AgentTypeOK, ringVars
<1>10. QED
  BY <1>1, <1>2, <1>3, <1>4, <1>5, <1>6, <1>7, <1>8, <1>9 DEF AgentNext
-----------------------------------------------------------------------------
\* The users of the agents and the keys.
HandsTyped(K) ==
  /\ key \in [Procs -> K] /\ authorized \subseteq K
  /\ listed \in [Procs -> SUBSET K] /\ offers \in [Procs -> SUBSET K]

LEMMA DialedTyped ==
  ASSUME NEW K, AgentTypeOK(K), NEW name \in Known \cup {Given}
  PROVE  Dialed(name) \in Procs \cup {Nobody}
<1>1. name \in Names
  BY DEF Known, AgentTypeOK, Names
<1>2. QED
  BY <1>1 DEF Dialed, AgentTypeOK

LEMMA FinishesTyped ==
  ASSUME NEW K, ToolTyped, AgentTypeOK(K), NEW c \in Procs, NEW x \in Codes, Finishes(c, x), spoiled' = spoiled
  PROVE  ToolTyped' /\ conn' \in [Procs -> Procs \cup {Nobody}]
BY ToolMoves DEF Finishes, Places, ToolTyped, AgentTypeOK

LEMMA UseTyped ==
  ASSUME NEW K, ToolTyped, AgentTypeOK(K), HandsTyped(K), NoKey \in K,
         priv.key \in K, pub.key \in K, NEW c \in Procs, UseNext(c)
  PROVE  ToolTyped' /\ AgentTypeOK(K)' /\ HandsTyped(K)' /\ UNCHANGED <<diskVars, sealed>>
<1>1. CASE ConnectAgent(c)
  <2>1. ToolTyped'
    BY <1>1, ToolMoves DEF ConnectAgent, Places, Codes
  <2>2. conn' \in [Procs -> Procs \cup {Nobody}]
    BY <1>1, DialedTyped DEF ConnectAgent, AgentTypeOK
  <2>3. QED
    BY <1>1, <2>1, <2>2 DEF ConnectAgent, agentProcVars, notAgent, fileVars, handVars, useVars,
       AgentTypeOK, HandsTyped
<1>2. CASE ReadToAdd(c)
  <2>1. \/ \E k \in K : key' = [key EXCEPT ![c] = k] /\ UNCHANGED conn /\ (Goes(c, "ask") \/ Goes(c, "send"))
        \/ Finishes(c, "1") /\ key' = key
    BY <1>2 DEF ReadToAdd, Takes
  <2>2. spoiled' = spoiled
    BY <1>2 DEF ReadToAdd
  <2>3. ToolTyped' /\ conn' \in [Procs -> Procs \cup {Nobody}] /\ key' \in [Procs -> K]
    BY <2>1, <2>2, ToolMoves, FinishesTyped DEF Places, Codes, ToolTyped, AgentTypeOK, HandsTyped
  <2>4. QED
    BY <1>2, <2>3 DEF ReadToAdd, agentProcVars, useVars, AgentTypeOK, HandsTyped
<1>3. CASE Ask(c) \/ Refused(c)
  <2>1. spoiled' = spoiled /\ (Finishes(c, "1") \/ (Goes(c, "send") /\ UNCHANGED conn))
    BY <1>3 DEF Ask, Refused
  <2>2. ToolTyped' /\ conn' \in [Procs -> Procs \cup {Nobody}]
    BY <2>1, ToolMoves, FinishesTyped DEF Places, Codes, ToolTyped, AgentTypeOK
  <2>3. QED
    BY <1>3, <2>2 DEF Ask, Refused, agentProcVars, notAgent, fileVars, handVars, useVars, AgentTypeOK, HandsTyped
<1>4. CASE Send(c)
  <2>1. PICK a \in Procs : a = conn[c]
    BY <1>4 DEF Send, Answers, AgentTypeOK
  <2>2. PICK ring \in SUBSET K, lock \in BOOLEAN : Done(c, a, ring, lock)
    BY <1>4, <2>1 DEF Send, AgentTypeOK, HandsTyped
  <2>3. ToolTyped' /\ conn' \in [Procs -> Procs \cup {Nobody}]
    BY <1>4, <2>2, FinishesTyped DEF Done, Send, Codes
  <2>4. keyring' \in [Procs -> SUBSET K] /\ locked' \in [Procs -> BOOLEAN]
    BY <2>1, <2>2 DEF Done, AgentTypeOK
  <2>5. QED
    BY <1>4, <2>3, <2>4 DEF Send, agentProcVars, notAgent, fileVars, handVars, useVars, AgentTypeOK, HandsTyped
<1>5. CASE LoadPublicKey(c)
  <2>1. ToolTyped'
    BY <1>5, ToolMoves DEF LoadPublicKey, Places, Codes
  <2>2. key' = key \/ \E k \in K : key' = [key EXCEPT ![c] = k]
    <3>1. ASSUME NEW name \in Known \cup {Given}, Answers(Dialed(name))
          PROVE  keyring[Dialed(name)] \subseteq K
      BY <3>1, DialedTyped DEF Answers, AgentTypeOK
    <3>2. QED
      BY <1>5, <3>1 DEF LoadPublicKey, Takes
  <2>3. key' \in [Procs -> K]
    BY <2>2 DEF HandsTyped
  <2>4. QED
    BY <1>5, <2>1, <2>3 DEF LoadPublicKey, notFiles, agentVars, ringVars, useVars, AgentTypeOK, HandsTyped
<1>6. CASE Install(c)
  <2>1. ToolTyped'
    BY <1>6, ToolMoves DEF Install, Places, Codes, ToolTyped
  <2>2. authorized' \subseteq K
    BY <1>6 DEF Install, HandsTyped
  <2>3. QED
    BY <1>6, <2>1, <2>2 DEF Install, fileVars, handVars, agentVars, ringVars, AgentTypeOK, HandsTyped
<1>7. CASE AgentSigners(c)
  <2>1. ToolTyped'
    BY <1>7, ToolMoves DEF AgentSigners, Places, Codes
  <2>2. CASE UNCHANGED <<conn, listed, offers>>
    BY <1>7, <2>1, <2>2 DEF AgentSigners, fileVars, handVars, agentProcVars, AgentTypeOK, HandsTyped
  <2>3. CASE ~UNCHANGED <<conn, listed, offers>>
    <3>1. PICK name \in Known \cup {Given} :
            /\ Answers(Dialed(name))
            /\ conn' = [conn EXCEPT ![c] = Dialed(name)]
            /\ \E signers \in {IF locked[Dialed(name)] THEN {} ELSE keyring[Dialed(name)]} :
                 listed' = [listed EXCEPT ![c] = signers] /\ offers' = [offers EXCEPT ![c] = signers]
      BY <1>7, <2>3 DEF AgentSigners
    <3>2. Dialed(name) \in Procs /\ keyring[Dialed(name)] \in SUBSET K
      BY <3>1, DialedTyped DEF Answers, AgentTypeOK
    <3>3. conn' \in [Procs -> Procs \cup {Nobody}]
      BY <3>1, <3>2 DEF AgentTypeOK
    <3>4. listed' \in [Procs -> SUBSET K] /\ offers' \in [Procs -> SUBSET K]
      BY <3>1, <3>2 DEF HandsTyped
    <3>5. QED
      BY <1>7, <2>1, <3>3, <3>4 DEF AgentSigners, fileVars, handVars, agentProcVars, AgentTypeOK, HandsTyped
  <2>4. QED
    BY <2>2, <2>3
<1>8. CASE ReadIdentity(c) \/ PassphraseFor(c)
  <2>1. /\ spoiled' = spoiled
        /\ \E place \in {"passphrase", "signer", "offer"} : Goes(c, place)
        /\ key' = key \/ \E k \in K : key' = [key EXCEPT ![c] = k]
    BY <1>8 DEF ReadIdentity, PassphraseFor, Takes
  <2>2. ToolTyped' /\ key' \in [Procs -> K]
    BY <2>1, ToolMoves DEF Places, Codes, ToolTyped, HandsTyped
  <2>3. QED
    BY <1>8, <2>2 DEF ReadIdentity, PassphraseFor, notFiles, agentVars, ringVars, useVars, AgentTypeOK, HandsTyped
<1>9. CASE AddSigner(c)
  <2>1. ToolTyped'
    BY <1>9, ToolMoves DEF AddSigner, Places, Codes, ToolTyped
  <2>2. offers' \in [Procs -> SUBSET K]
    BY <1>9 DEF AddSigner, HandsTyped
  <2>3. QED
    BY <1>9, <2>1, <2>2 DEF AddSigner, fileVars, handVars, agentVars, ringVars, AgentTypeOK, HandsTyped
<1>10. CASE LogIn(c)
  <2>1. spoiled' = spoiled /\ (Finishes(c, "0") \/ Finishes(c, "255"))
    BY <1>10 DEF LogIn
  <2>2. ToolTyped' /\ conn' \in [Procs -> Procs \cup {Nobody}]
    BY <2>1, FinishesTyped DEF Codes
  <2>3. QED
    BY <1>10, <2>2 DEF LogIn, fileVars, handVars, agentProcVars, useVars, AgentTypeOK, HandsTyped
<1>11. QED
  BY <1>1, <1>2, <1>3, <1>4, <1>5, <1>6, <1>7, <1>8, <1>9, <1>10 DEF UseNext
-----------------------------------------------------------------------------
LEMMA TypeNext ==
  ASSUME TypeOK, FileInv, Next
  PROVE  TypeOK'
<1>1. PICK p \in Procs : \/ KeygenNext(p) /\ UNCHANGED notFiles
                         \/ AgentNext(p) /\ UNCHANGED notAgent
                         \/ UseNext(p)
  BY DEF Next
<1>2. ToolTyped /\ KeyFilesTypeOK /\ AgentTypeOK(Keys) /\ HandsTyped(Keys)
  BY DEF TypeOK, ToolTyped, Codes, HandsTyped, KeyFilesTypeOK
<1>3. PICK K : K = Keys
  OBVIOUS
<1>4. AgentTypeOK(K) /\ HandsTyped(K)
  BY <1>2, <1>3 DEF AgentTypeOK, HandsTyped
<1>5. CASE KeygenNext(p) /\ UNCHANGED notFiles
  <2>1. ToolTyped' /\ FilesTyped
    BY <1>2, <1>5, KeygenTyped
  <2>2. AgentTypeOK(Keys)'
    BY <1>2, <1>5, <2>1 DEF AgentTypeOK, FilesTyped, notFiles, agentVars, ringVars
  <2>3. /\ authorized' \subseteq Keys'
        /\ listed' \in [Procs -> SUBSET Keys'] /\ offers' \in [Procs -> SUBSET Keys']
    BY <1>2, <1>5, <2>1 DEF HandsTyped, FilesTyped, notFiles, useVars
  <2>4. QED
    BY <2>1, <2>2, <2>3 DEF TypeOK, ToolTyped, Codes, FilesTyped
<1>6. CASE AgentNext(p) /\ UNCHANGED notAgent
  <2>1. ToolTyped' /\ AgentTypeOK(K)'
    BY <1>2, <1>4, <1>6, AgentTyped
  <2>2. Keys' = K /\ UNCHANGED <<fileVars, useVars>>
    BY <1>3, <1>6 DEF Keys, notAgent, fileVars, diskVars
  <2>3. AgentTypeOK(Keys)' /\ KeyFilesTypeOK'
    BY <1>2, <1>3, <2>1, <2>2 DEF AgentTypeOK, KeyFilesTypeOK, fileVars, diskVars, handVars
  <2>4. QED
    BY <1>2, <1>3, <2>1, <2>2, <2>3 DEF TypeOK, ToolTyped, Codes, HandsTyped, useVars
<1>7. CASE UseNext(p)
  <2>1. NoKey \in K /\ priv.key \in K /\ pub.key \in K
    BY <1>2, <1>3 DEF KeyFilesTypeOK, Keys, NoKey
  <2>2. ToolTyped' /\ AgentTypeOK(K)' /\ HandsTyped(K)' /\ UNCHANGED <<diskVars, sealed>>
    BY <1>2, <1>4, <1>7, <2>1, UseTyped
  <2>3. Keys' = K
    BY <1>3, <2>2 DEF Keys, diskVars
  <2>4. AgentTypeOK(Keys)' /\ KeyFilesTypeOK'
    BY <1>2, <1>3, <2>2, <2>3 DEF AgentTypeOK, KeyFilesTypeOK, HandsTyped, diskVars
  <2>5. QED
    BY <2>2, <2>3, <2>4 DEF TypeOK, ToolTyped, Codes, HandsTyped
<1>8. QED
  BY <1>1, <1>5, <1>6, <1>7

LEMMA FileNext ==
  ASSUME TypeOK, FileInv, Next
  PROVE  FileInv'
BY KeygenSound, AgentSound, UseSound DEF Next, notFiles, useVars

\* KeyFiles, Agent, KeyUse: what the files hold at each step of a writer that is by itself,
\* and what ssh has read of them, whatever fails, is killed or overlaps.
THEOREM Invariance == Spec => []IInv
<1>1. Init => IInv
  BY TypeInit, FileInit DEF IInv
<1>2. IInv /\ [Next]_vars => IInv'
  <2> SUFFICES ASSUME IInv, [Next]_vars
               PROVE  IInv'
    OBVIOUS
  <2>1. CASE Next
    BY <2>1, TypeNext, FileNext DEF IInv
  <2>2. CASE UNCHANGED vars
    <3>1. FileInv'
      BY <2>2, NobodySteps DEF IInv, vars, useVars
    <3>2. TypeOK'
      BY <2>2 DEF IInv, TypeOK, KeyFilesTypeOK, Keys, AgentTypeOK, vars, toolVars, fileVars, diskVars, handVars,
         agentVars, ringVars, useVars
    <3>3. QED
      BY <3>1, <3>2 DEF IInv
  <2>3. QED
    BY <2>1, <2>2
<1>3. QED
  BY <1>1, <1>2, PTL DEF Spec

\* Every place, file, key and socket of the tools has its type, for any plans.
THEOREM TypesAreCorrect == Spec => []TypeOK
<1>1. IInv => TypeOK
  BY DEF IInv
<1>2. QED
  BY <1>1, Invariance, PTL

\* generate.go:127-146, changepass.go:80, changecomment.go:48-57: the files that ssh-keygen
\* leaves belong together, for any number of invocations.
THEOREM PairsAreWhole == Spec => []PairIsWhole
<1>1. IInv => PairIsWhole
  BY DEF IInv, FileInv
<1>2. QED
  BY <1>1, Invariance, PTL

LEMMA LogInAfterCopy ==
  ASSUME IInv, NEW c \in Procs, LogIn(c), alone[c], ~spoiled, pub.state = "whole", pub.key \in authorized
  PROVE  exit'[c] = "0" \/ key[c] = NoKey \/ Exhausts(c) \/ Unsigned(c) # {}
<1> SUFFICES ASSUME key[c] # NoKey, ~Exhausts(c), Unsigned(c) = {}
             PROVE  exit'[c] = "0"
  OBVIOUS
<1>1. at[c] = "offer" /\ tool[c] = "ssh" /\ Running(c) /\ ~AtWork(c)
  BY UserAt DEF IInv, FileInv, LogIn, Running, AtWork, Writers
<1>2. \A q \in Procs : ~AtWork(q)
  BY <1>1 DEF IInv, FileInv, AloneMeansAlone
<1>3. Of(priv, c) /\ key[c] \in offers[c]
  BY <1>1 DEF IInv, FileInv, SshHolds
<1>4. Matching(priv, pub)
  BY <1>2 DEF IInv, FileInv, PairIsWhole
<1>5. key[c] = pub.key
  BY <1>3, <1>4 DEF Matching, Of, Missing, File
<1>6. offers[c] \cap authorized # {}
  BY <1>3, <1>5
<1>7. \A k \in listed[c] \cap authorized : Signs(c, k)
  BY DEF Unsigned
<1>8. Finishes(c, "0")
  BY <1>6, <1>7 DEF LogIn
<1>9. QED
  BY <1>8 DEF Finishes, Exits, IInv, TypeOK

LEMMA OwnPlaceOnly ==
  ASSUME TypeOK, NEW p \in Procs, KeygenNext(p) \/ AgentNext(p) \/ UseNext(p), NEW q \in Procs \ {p}
  PROVE  at'[q] = at[q]
<1> USE DEF Goes, Exits, BeginsAt, BeginsInVain
<1>1. CASE KeygenNext(p)
  <2>1. at' = at \/ \E x \in Places : at' = [at EXCEPT ![p] = x]
    BY <1>1 DEF KeygenNext, Stat, Overwrite, MakeKey, ReadKey, Unseal, NewPass, NewComment, OpenPriv, WritePriv,
       OpenPub, WritePub, PubFails, KillWriter, Places
  <2>2. QED
    BY <2>1 DEF TypeOK
<1>2. CASE AgentNext(p)
  <2>1. at' = at \/ \E x \in Places : at' = [at EXCEPT ![p] = x]
    BY <1>2 DEF AgentNext, Listen, CloseOwn, Spawn, TellOfChild, ChildListens, Announce, Notify, RunCommand,
       CommandEnds, Deliver, KillAgent, KillParent, CloseListener, CleanUp, Gone, Interrupt, Kill, toolVars, Places
  <2>2. QED
    BY <2>1 DEF TypeOK
<1>3. CASE UseNext(p)
  <2>1. at' = at \/ \E x \in Places : at' = [at EXCEPT ![p] = x]
    BY <1>3 DEF UseNext, ConnectAgent, ReadToAdd, Ask, Send, Done, Refused, Finishes, LoadPublicKey, Install,
       AgentSigners, ReadIdentity, PassphraseFor, AddSigner, LogIn, Places
  <2>2. QED
    BY <2>1 DEF TypeOK
<1>4. QED
  BY <1>1, <1>2, <1>3

LEMMA OnlyLogInEnds ==
  ASSUME IInv, Next, NEW c \in Procs, at[c] = "offer", at'[c] = "ended"
  PROVE  LogIn(c)
<1>1. PICK p \in Procs : \/ KeygenNext(p) /\ UNCHANGED notFiles
                         \/ AgentNext(p) /\ UNCHANGED notAgent
                         \/ UseNext(p)
  BY DEF Next
<1>2. p = c
  BY <1>1, OwnPlaceOnly DEF IInv
<1>3. tool[c] = "ssh"
  BY UserAt DEF IInv, FileInv
<1>4. ~KeygenNext(c)
  BY <1>3, WritersWork DEF KeygenNext, Stat, Overwrite, MakeKey, ReadKey, Unseal, NewPass, NewComment, OpenPriv,
     WritePriv, OpenPub, WritePub, KillWriter, Begins, AtWork, Writers, WriterPlaces
<1>5. ~AgentNext(c)
  <2> SUFFICES ASSUME AgentNext(c)
               PROVE  FALSE
    OBVIOUS
  <2>1. UNCHANGED toolVars \/ AgentMoves(c)
    BY EachAgentMoves DEF IInv, FileInv
  <2>2. QED
    BY <2>1, <1>3 DEF toolVars, AgentMoves, Agents
<1>6. UseNext(c)
  BY <1>1, <1>2, <1>4, <1>5
<1>7. QED
  BY <1>6 DEF UseNext, ConnectAgent, ReadToAdd, Ask, Send, Refused, LoadPublicKey, Install, AgentSigners,
     ReadIdentity, PassphraseFor, AddSigner, Begins

\* auth.go:93-127: a key whose .pub file was installed opens the server to ssh, unless
\* ssh-keygen writes meanwhile, the passphrase is wrong, the agent's keys use up the tries, or
\* the agent has listed a key that the server knows and does not sign with it.
THEOREM CopiedKeysLogIn == Spec => LoginAfterCopy
<1>1. IInv /\ [Next]_vars =>
        [\A c \in Procs :
           /\ at[c] = "offer" /\ at'[c] = "ended"
           /\ alone[c] /\ ~spoiled /\ pub.state = "whole" /\ pub.key \in authorized
           => exit'[c] = "0" \/ key[c] = NoKey \/ Exhausts(c) \/ Unsigned(c) # {}]_vars
  BY OnlyLogInEnds, LogInAfterCopy
<1>2. QED
  BY <1>1, Invariance, PTL DEF Spec, LoginAfterCopy

-----------------------------------------------------------------------------
(* The names of the sockets.  Whoever holds an open listener has its name, *)
(* unless an agent with the same name has ended, and so has removed it:    *)
(* each removal is by one that has the name, or that ends by it.           *)

NotYetServing(a) == at[a] \in {"waiting", "bound", "unbound"} => serve[a] = "none"
HasListener(a) == at[a] = "bound" \/ serve[a] \in {"bound", "announced", "serving", "closing"}
NameGiven(a) == \E b \in Procs \ {a} : path[b] = path[a] /\ serve[b] = "ended"

SocketInv ==
  \A a \in Procs : NotYetServing(a) /\ (HasListener(a) => socket[path[a]] = a \/ NameGiven(a))

Keeps(p) == UNCHANGED <<path, socket>> /\ (HasListener(p)' => HasListener(p))
Binds(p) == /\ socket[path'[p]] = Nobody
            /\ socket' = [socket EXCEPT ![path'[p]] = p]
            /\ path' = path \/ \E name \in Names : path' = [path EXCEPT ![p] = name]
BindsInVain(p) == /\ socket' = socket /\ ~HasListener(p)'
                  /\ \E name \in Names : path' = [path EXCEPT ![p] = name]
Removes(p) == /\ path' = path /\ ~HasListener(p)'
              /\ socket' = [socket EXCEPT ![path[p]] = Nobody]
              /\ HasListener(p) \/ serve'[p] = "ended"

\* What a step of p leaves alone of the others, and of itself once it has ended.
OwnServiceOnly(p) ==
  /\ \A q \in Procs \ {p} : serve'[q] = serve[q] /\ at'[q] = at[q]
  /\ serve[p] = "ended" => serve'[p] = "ended" /\ path'[p] = path[p]

LEMMA AgentEffects ==
  ASSUME TypeOK, SocketInv, NEW p \in Procs, AgentNext(p)
  PROVE  /\ Keeps(p) \/ Binds(p) \/ BindsInVain(p) \/ Removes(p)
         /\ NotYetServing(p)' /\ OwnServiceOnly(p)
<1> USE DEF NotYetServing
<1>1. /\ at \in [Procs -> Places] /\ serve \in [Procs -> Stages]
      /\ NotYetServing(p)
      /\ \A q \in Procs \ {p} : at'[q] = at[q]
  BY OwnPlaceOnly DEF TypeOK, AgentTypeOK, SocketInv
<1>2. CASE Listen(p)
  <2>1. at[p] = "waiting" /\ serve[p] = "none"
    BY <1>1, <1>2 DEF Listen, Begins
  <2>2. PICK name \in {p, Given} :
          /\ path' = [path EXCEPT ![p] = name]
          /\ \/ /\ socket[name] = Nobody
                /\ socket' = [socket EXCEPT ![name] = p]
                /\ \/ BeginsAt(p, "bound") /\ UNCHANGED serve
                   \/ BeginsAt(p, "serving") /\ Serves(p, "bound")
             \/ BeginsInVain(p, "1") /\ UNCHANGED <<socket, serve>>
    BY <1>2 DEF Listen
  <2>3. name \in Names /\ path'[p] = name
    BY <2>2 DEF TypeOK, AgentTypeOK, Names
  <2>4. OwnServiceOnly(p)
    BY <1>1, <2>1, <2>2 DEF OwnServiceOnly, Serves
  <2>5. NotYetServing(p)'
    BY <1>1, <2>1, <2>2 DEF BeginsAt, BeginsInVain, Serves
  <2>6. CASE BeginsInVain(p, "1") /\ UNCHANGED <<socket, serve>>
    BY <1>1, <2>1, <2>2, <2>3, <2>4, <2>5, <2>6 DEF BindsInVain, HasListener, BeginsInVain
  <2>7. QED
    BY <2>2, <2>3, <2>4, <2>5, <2>6 DEF Binds
<1>3. CASE CloseOwn(p)
  <2>1. at[p] = "bound" /\ serve[p] = "none" /\ at'[p] = "unbound" /\ serve' = serve
    BY <1>1, <1>3 DEF CloseOwn, Goes
  <2>2. Removes(p)
    BY <1>3, <2>1 DEF CloseOwn, Removes, HasListener
  <2>3. QED
    BY <1>1, <2>1, <2>2 DEF OwnServiceOnly
<1>4. CASE Spawn(p)
  <2>1. /\ at[p] = "unbound" /\ serve[p] = "none" /\ UNCHANGED <<path, socket>>
        /\ \/ at'[p] = "spawned" /\ serve' = [serve EXCEPT ![p] = "starting"]
           \/ at'[p] = "ended" /\ serve' = serve
    BY <1>1, <1>4 DEF Spawn, Goes, Exits, Serves
  <2>2. QED
    BY <1>1, <2>1 DEF Keeps, HasListener, OwnServiceOnly
<1>5. CASE TellOfChild(p)
  <2>1. at'[p] = "ended" /\ UNCHANGED <<serve, path, socket>>
    BY <1>1, <1>5 DEF TellOfChild, Exits
  <2>2. QED
    BY <1>1, <2>1 DEF Keeps, HasListener, OwnServiceOnly
<1>6. CASE ChildListens(p)
  <2>1. serve[p] = "starting" /\ at' = at /\ path' = path
    BY <1>6 DEF ChildListens, toolVars
  <2>2. OwnServiceOnly(p) /\ NotYetServing(p)'
    BY <1>1, <1>6, <2>1 DEF ChildListens, Serves, OwnServiceOnly
  <2>3. CASE socket[path[p]] = Nobody /\ socket' = [socket EXCEPT ![path[p]] = p]
    BY <2>1, <2>2, <2>3 DEF Binds
  <2>4. CASE Serves(p, "failed") /\ UNCHANGED socket
    BY <1>1, <2>1, <2>2, <2>4 DEF Serves, Keeps, HasListener
  <2>5. QED
    BY <1>6, <2>3, <2>4 DEF ChildListens
<1>7. CASE Announce(p) \/ Notify(p) \/ RunCommand(p) \/ CommandEnds(p)
  <2>1. /\ serve[p] \in {"bound", "announced", "serving"} /\ UNCHANGED <<at, path, socket>>
        /\ \E stage \in {"announced", "serving", "closing"} : serve' = [serve EXCEPT ![p] = stage]
    BY <1>7 DEF Announce, Notify, RunCommand, CommandEnds, Serves, toolVars
  <2>2. QED
    BY <1>1, <2>1 DEF Keeps, HasListener, OwnServiceOnly
<1>8. ASSUME NEW stage \in {"killed", "ended"}, NEW val, Gone(p, stage, val), Alive(p)
      PROVE  NotYetServing(p)' /\ OwnServiceOnly(p) /\ ~HasListener(p)' /\ serve'[p] = stage
  <2>1. serve' = [serve EXCEPT ![p] = stage] /\ (at' = at \/ at'[p] = "ended")
    BY <1>1, <1>8 DEF Gone, Exits, Serves
  <2>2. at[p] \notin {"waiting", "bound", "unbound"} /\ serve[p] # "ended"
    BY <1>1, <1>8 DEF Alive
  <2>3. QED
    BY <1>1, <2>1, <2>2 DEF OwnServiceOnly, HasListener
<1>9. CASE Deliver(p) \/ KillAgent(p)
  <2>1. Alive(p) /\ UNCHANGED <<path, socket>>
    BY <1>9 DEF Deliver, KillAgent
  <2>2. CASE Gone(p, "killed", "killed")
    BY <1>8, <2>1, <2>2 DEF Keeps
  <2>3. CASE ~Gone(p, "killed", "killed")
    <3>1. serve[p] \in {"serving", "closing", "closed"} /\ at' = at
          /\ (serve' = serve \/ (serve[p] = "serving" /\ serve' = [serve EXCEPT ![p] = "closing"]))
      BY <1>9, <2>3 DEF Deliver, KillAgent, Serves
    <3>2. QED
      BY <1>1, <2>1, <3>1 DEF Keeps, HasListener, OwnServiceOnly
  <2>4. QED
    BY <2>2, <2>3
<1>10. CASE KillParent(p)
  <2>1. at'[p] = "ended" /\ UNCHANGED <<serve, path, socket>>
    BY <1>1, <1>10 DEF KillParent, Exits
  <2>2. QED
    BY <1>1, <2>1 DEF Keeps, HasListener, OwnServiceOnly
<1>11. CASE CloseListener(p)
  <2>1. /\ serve[p] = "closing" /\ UNCHANGED <<at, path>> /\ serve' = [serve EXCEPT ![p] = "closed"]
        /\ socket' = [socket EXCEPT ![path[p]] = Nobody]
    BY <1>11 DEF CloseListener, Serves, toolVars
  <2>2. QED
    BY <1>1, <2>1 DEF Removes, HasListener, OwnServiceOnly
<1>12. CASE CleanUp(p)
  <2>1. Alive(p) /\ path' = path /\ socket' = [socket EXCEPT ![path[p]] = Nobody]
    BY <1>12 DEF CleanUp, Alive
  <2>2. QED
    BY <1>8, <1>12, <2>1 DEF CleanUp, Removes
<1>13. CASE Interrupt(p)
  BY <1>1, <1>13 DEF Interrupt, toolVars, Keeps, HasListener, OwnServiceOnly
<1>14. CASE Kill(p)
  <2>1. at'[p] = "ended" /\ UNCHANGED <<serve, path, socket>>
    BY <1>1, <1>14 DEF Kill, BeginsInVain
  <2>2. QED
    BY <1>1, <2>1 DEF Keeps, HasListener, OwnServiceOnly
<1>15. QED
  BY <1>2, <1>3, <1>4, <1>5, <1>6, <1>7, <1>9, <1>10, <1>11, <1>12, <1>13, <1>14 DEF AgentNext

LEMMA SocketStep ==
  ASSUME TypeOK, SocketInv, NEW p \in Procs,
         Keeps(p) \/ Binds(p) \/ BindsInVain(p) \/ Removes(p),
         NotYetServing(p)', OwnServiceOnly(p), path' \in [Procs -> Names]
  PROVE  SocketInv'
<1>1. /\ path \in [Procs -> Names] /\ socket \in [Names -> Procs \cup {Nobody}]
      /\ \A a \in Procs : a # Nobody
  BY ProcsAssumption DEF TypeOK, AgentTypeOK, Nobody
<1>2. \A a \in Procs \ {p} : path'[a] = path[a] /\ serve'[a] = serve[a] /\ at'[a] = at[a]
  BY <1>1 DEF Keeps, Binds, BindsInVain, Removes, OwnServiceOnly
<1>3. \A b \in Procs : serve[b] = "ended" => serve'[b] = "ended" /\ path'[b] = path[b]
  BY <1>2 DEF OwnServiceOnly
<1>4. ASSUME NEW a \in Procs, NameGiven(a), path'[a] = path[a]
      PROVE  NameGiven(a)'
  BY <1>3, <1>4 DEF NameGiven
<1>5. HasListener(p)' => socket'[path'[p]] = p \/ NameGiven(p)'
  <2>1. CASE Keeps(p)
    BY <1>4, <2>1 DEF Keeps, SocketInv
  <2>2. CASE Binds(p)
    BY <1>1, <2>2 DEF Binds
  <2>3. CASE BindsInVain(p) \/ Removes(p)
    BY <2>3 DEF BindsInVain, Removes
  <2>4. QED
    BY <2>1, <2>2, <2>3
<1>6. ASSUME NEW a \in Procs \ {p}, HasListener(a)'
      PROVE  socket'[path'[a]] = a \/ NameGiven(a)'
  <2>1. HasListener(a) /\ serve[a] # "ended" /\ path'[a] = path[a]
    BY <1>2, <1>6 DEF HasListener, SocketInv, NotYetServing
  <2> SUFFICES ASSUME ~NameGiven(a)'
               PROVE  socket'[path[a]] = a
    BY <2>1
  <2>2. socket[path[a]] = a /\ ~NameGiven(a)
    BY <2>1, <1>4 DEF SocketInv
  <2>3. CASE Keeps(p) \/ BindsInVain(p)
    BY <2>2, <2>3 DEF Keeps, BindsInVain
  <2>4. CASE Binds(p)
    BY <1>1, <2>2, <2>4 DEF Binds
  <2>5. CASE Removes(p)
    <3>1. CASE path[a] = path[p] /\ HasListener(p)
      <4>1. PICK b \in Procs \ {p} : path[b] = path[p] /\ serve[b] = "ended"
        BY <2>2, <3>1 DEF SocketInv, NameGiven
      <4>2. b # a
        BY <2>1, <4>1
      <4>3. QED
        BY <2>2, <3>1, <4>1, <4>2 DEF NameGiven
    <3>2. CASE path[a] = path[p] /\ serve'[p] = "ended"
      BY <2>1, <2>5, <3>2 DEF NameGiven, Removes
    <3>3. CASE path[a] # path[p]
      BY <1>1, <2>2, <2>5, <3>3 DEF Removes
    <3>4. QED
      BY <2>5, <3>1, <3>2, <3>3 DEF Removes
  <2>6. QED
    BY <2>3, <2>4, <2>5
<1>7. \A a \in Procs \ {p} : NotYetServing(a)'
  BY <1>2 DEF SocketInv, NotYetServing
<1>8. QED
  BY <1>5, <1>6, <1>7 DEF SocketInv

\* The other tools bind nothing.
LEMMA OthersAtSockets ==
  ASSUME TypeOK, FileInv, NEW p \in Procs, (KeygenNext(p) /\ UNCHANGED notFiles) \/ UseNext(p)
  PROVE  UNCHANGED <<path, socket, serve>> /\ at'[p] \notin {"waiting", "bound", "unbound"}
<1>1. UNCHANGED <<path, socket, serve>>
  BY DEF notFiles, agentVars, agentProcVars, UseNext, ConnectAgent, ReadToAdd, Ask, Send, Refused, LoadPublicKey,
     Install, AgentSigners, ReadIdentity, PassphraseFor, AddSigner, LogIn, notAgent
<1>2. \E x \in Places \ {"waiting", "bound", "unbound"} : at' = [at EXCEPT ![p] = x]
  <2>1. CASE KeygenNext(p)
    BY <2>1 DEF KeygenNext, Stat, Overwrite, MakeKey, ReadKey, Unseal, NewPass, NewComment, OpenPriv, WritePriv,
       OpenPub, WritePub, PubFails, KillWriter, Places, Goes, Exits, BeginsAt, BeginsInVain
  <2>2. CASE UseNext(p)
    BY <2>2 DEF UseNext, ConnectAgent, ReadToAdd, Ask, Send, Done, Refused, Finishes, LoadPublicKey, Install,
       AgentSigners, ReadIdentity, PassphraseFor, AddSigner, LogIn, Places, Goes, Exits, BeginsAt, BeginsInVain
  <2>3. QED
    BY <2>1, <2>2
<1>3. QED
  BY <1>1, <1>2 DEF TypeOK

LEMMA SocketNext ==
  ASSUME IInv, IInv', SocketInv, [Next]_vars
  PROVE  SocketInv'
<1>1. path' \in [Procs -> Names]
  BY DEF IInv, TypeOK, AgentTypeOK
<1>2. CASE UNCHANGED vars
  BY <1>2 DEF vars, toolVars, agentVars, SocketInv, NotYetServing, HasListener, NameGiven
<1>3. CASE Next
  <2>1. PICK p \in Procs : \/ KeygenNext(p) /\ UNCHANGED notFiles
                           \/ AgentNext(p) /\ UNCHANGED notAgent
                           \/ UseNext(p)
    BY <1>3 DEF Next
  <2>2. CASE AgentNext(p)
    BY <1>1, <2>2, AgentEffects, SocketStep DEF IInv
  <2>3. CASE ~AgentNext(p)
    <3>1. UNCHANGED <<path, socket, serve>> /\ at'[p] \notin {"waiting", "bound", "unbound"}
      BY <2>1, <2>3, OthersAtSockets DEF IInv
    <3>2. \A q \in Procs \ {p} : at'[q] = at[q]
      BY <2>1, OwnPlaceOnly DEF IInv
    <3>3. Keeps(p) /\ NotYetServing(p)' /\ OwnServiceOnly(p)
      BY <3>1, <3>2 DEF Keeps, HasListener, NotYetServing, OwnServiceOnly
    <3>4. QED
      BY <1>1, <3>3, SocketStep DEF IInv
  <2>4. QED
    BY <2>2, <2>3
<1>4. QED
  BY <1>2, <1>3

\* run.go:42, start.go:36, utils.go:38-39: no agent, and no parent of a daemon, takes the name
\* of another one that listens, for any number of them, unless -a has given both one name.
THEOREM SocketsAreKept == Spec => []AgentKeepsItsSocket
<1>1. Init => SocketInv
  BY DEF Init, ToolsInit, AgentInit, SocketInv, NotYetServing, HasListener
<1>2. IInv /\ IInv' /\ SocketInv /\ [Next]_vars => SocketInv'
  BY SocketNext
<1>3. SocketInv => AgentKeepsItsSocket
  BY DEF SocketInv, HasListener, NameGiven, AgentKeepsItsSocket
<1>4. QED
  BY <1>1, <1>2, <1>3, Invariance, PTL DEF Spec
=============================================================================
