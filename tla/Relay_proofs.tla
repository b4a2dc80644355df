---------------------------- MODULE Relay_proofs ----------------------------
(***************************************************************************)
(* Proofs about Relay, for any number of chunks and any window.            *)
(*                                                                         *)
(* EndsAreEarned speaks of the ends; what makes it inductive speaks of the *)
(* goroutines: an end of a BiCopy is only ever touched by the one that is  *)
(* done (EndsFollowCopiers), and one that has left io.Copy while nobody is *)
(* gone has carried its whole stream (StoppedIsComplete).  For all three   *)
(* loops SomeStoppedIsComplete is the same with "some stream".             *)
(***************************************************************************)
EXTENDS Relay, TLAPS

EndsFollowCopiers ==
  style = "BiCopy" =>
    \A e \in Ends : /\ end[Other(e)] # "open" => copier[e] = "done"
                    /\ end[e] = "closed" => copier[e] = "done"

StoppedIsComplete ==
  style = "BiCopy" /\ NobodyGone =>
    \A e \in Ends : copier[e] # "copying" => Complete(e)

SomeStoppedIsComplete ==
  NobodyGone /\ (\E e \in Ends : copier[e] # "copying" \/ end[e] # "open") =>
    \E e \in Ends : Complete(e)

IInv ==
  /\ TypeOK
  /\ EndsFollowCopiers
  /\ StoppedIsComplete
  /\ SomeStoppedIsComplete

-----------------------------------------------------------------------------

LEMMA OtherIsEnd ==
  \A e \in Ends : Other(e) \in Ends /\ Other(e) # e /\ Other(Other(e)) = e
BY DEF Ends, Other

\* IInv gives the two safety properties the runs check.
LEMMA IInvGivesSafety == IInv => EndsAreEarned /\ FirstStreamComplete
<1>1. ASSUME IInv PROVE EndsAreEarned
  BY <1>1, OtherIsEnd DEF IInv, EndsFollowCopiers, StoppedIsComplete, EndsAreEarned
<1>2. ASSUME IInv PROVE FirstStreamComplete
  BY <1>2 DEF IInv, SomeStoppedIsComplete, FirstStreamComplete
<1>3. QED
  BY <1>1, <1>2

\* The initial states satisfy the invariant: both copiers copy, both ends are open.
LEMMA InitInvariant == Init => IInv
<1> SUFFICES ASSUME Init PROVE IInv
  OBVIOUS
<1>1. TypeOK
  <2>1. 0 \in 0 .. Chunks /\ Window \in Nat
    BY BoundsAssumption
  <2>2. \A e \in Ends : wrote[e] = 0 /\ read[e] = 0 /\ written[e] = 0 /\ got[e] = 0
    BY DEF Init
  <2>3. \A e \in Ends : /\ got[e] <= written[e] /\ written[e] <= read[e]
                         /\ read[e] <= wrote[e]
                         /\ read[e] <= written[e] + 1
                         /\ written[e] <= got[e] + Window
    BY <2>1, <2>2
  <2>4. /\ wrote \in [Ends -> 0 .. Chunks] /\ read \in [Ends -> 0 .. Chunks]
        /\ written \in [Ends -> 0 .. Chunks] /\ got \in [Ends -> 0 .. Chunks]
    BY <2>1 DEF Init
  <2>5. QED
    BY <2>3, <2>4 DEF Init, TypeOK
<1>2. EndsFollowCopiers
  BY OtherIsEnd DEF Init, EndsFollowCopiers
<1>3. StoppedIsComplete /\ SomeStoppedIsComplete
  BY DEF Init, StoppedIsComplete, SomeStoppedIsComplete
<1>4. QED
  BY <1>1, <1>2, <1>3 DEF IInv

\* Every step keeps the types and the order of the counters.
LEMMA StepTypes == ASSUME TypeOK, [Next]_vars PROVE TypeOK'
<1>0. Ends # {} /\ \A e \in Ends : Other(e) \in Ends
  BY DEF Ends, Other
<1>1. ASSUME NEW e \in Ends, Peer(e) PROVE TypeOK'
  <2> USE BoundsAssumption, <1>0 DEF TypeOK, PeerStep, peerVars
  <2>1. CASE PeerWrites(e)
    BY <2>1 DEF PeerWrites
  <2>2. CASE PeerShuts(e)
    BY <2>2 DEF PeerShuts
  <2>3. CASE PeerGoes(e)
    BY <2>3 DEF PeerGoes
  <2>4. CASE PeerReads(e)
    BY <2>4 DEF PeerReads
  <2>5. QED
    BY <1>1, <2>1, <2>2, <2>3, <2>4 DEF Peer
<1>2. ASSUME NEW e \in Ends, Copier(e) PROVE TypeOK'
  <2> USE BoundsAssumption, <1>0 DEF TypeOK, peerVars
  <2>1. CASE CopyReads(e)
    BY <2>1 DEF CopyReads
  <2>2. CASE CopyWrites(e)
    BY <2>2 DEF CopyWrites
  <2>3. CASE CopyStops(e)
    BY <2>3 DEF CopyStops
  <2>4. CASE HalfClose(e)
    BY <2>4 DEF HalfClose, After
  <2>5. CASE StdoutDone(e)
    BY <2>5 DEF StdoutDone, After
  <2>6. CASE CloseDst(e)
    BY <2>6 DEF CloseDst, After
  <2>7. CASE CloseSrc(e)
    BY <2>7 DEF CloseSrc, After
  <2>8. QED
    BY <1>2, <2>1, <2>2, <2>3, <2>4, <2>5, <2>6, <2>7 DEF Copier
<1>3. CASE BiCopyReturns \/ StdioReturns
  BY <1>3 DEF BiCopyReturns, StdioReturns, Return, TypeOK, peerVars
<1>4. CASE UNCHANGED vars
  BY <1>4 DEF TypeOK, vars
<1>5. QED
  BY <1>1, <1>2, <1>3, <1>4 DEF Next

\* While nobody is gone a complete stream stays complete, whatever happens.
LEMMA CompleteStays ==
  ASSUME TypeOK, [Next]_vars, NobodyGone', NEW e \in Ends, Complete(e)
  PROVE  NobodyGone /\ Complete(e)'
<1>1. TypeOK'
  BY StepTypes
<1>2. ASSUME NEW x \in Ends, Peer(x) PROVE NobodyGone /\ Complete(e)'
  BY <1>2 DEF Peer, PeerWrites, PeerShuts, PeerGoes, PeerReads, PeerStep, TypeOK,
     NobodyGone, Complete
<1>3. ASSUME NEW x \in Ends, CopyWrites(x) PROVE NobodyGone /\ Complete(e)'
  BY <1>3, <1>1 DEF CopyWrites, peerVars, TypeOK, NobodyGone, Complete
<1>4. ASSUME NEW x \in Ends, Copier(x), ~CopyWrites(x) PROVE NobodyGone /\ Complete(e)'
  BY <1>4 DEF Copier, CopyReads, CopyStops, HalfClose, StdoutDone, CloseDst, CloseSrc,
     After, peerVars, NobodyGone, Complete
<1>5. CASE BiCopyReturns \/ StdioReturns
  BY <1>5 DEF BiCopyReturns, StdioReturns, Return, peerVars, NobodyGone, Complete
<1>6. CASE UNCHANGED vars
  BY <1>6 DEF vars, peerVars, NobodyGone, Complete
<1>7. QED
  BY <1>2, <1>3, <1>4, <1>5, <1>6 DEF Next

-----------------------------------------------------------------------------
(* What a step may do to the goroutines and to the ends.                   *)

\* io.Copy of a BiCopy that nobody left returns only at the end of its input.
LEMMA BiCopyStopsAtEof ==
  ASSUME IInv, NEW e \in Ends, CopyStops(e), style = "BiCopy", NobodyGone
  PROVE  Complete(e)
<1>1. copier[e] # "done"
  BY DEF CopyStops, Copying
<1>2. end[e] # "closed" /\ end[Other(e)] = "open"
  BY <1>1 DEF IInv, EndsFollowCopiers
<1>3. ~ReadFails(e) /\ ~WriteFails(e)
  BY <1>2, OtherIsEnd DEF ReadFails, WriteFails, NobodyGone
<1>4. read[e] = written[e] /\ ReadEof(e)
  BY <1>3 DEF CopyStops
<1>5. QED
  BY <1>4 DEF ReadEof, Complete

\* In any loop the first io.Copy to return does so at the end of its input.
LEMMA FirstStopsAtEof ==
  ASSUME NEW e \in Ends, CopyStops(e), NobodyGone,
         \A x \in Ends : copier[x] = "copying" /\ end[x] = "open"
  PROVE  Complete(e)
<1>1. ~ReadFails(e) /\ ~WriteFails(e)
  BY OtherIsEnd DEF ReadFails, WriteFails, NobodyGone
<1>2. read[e] = written[e] /\ ReadEof(e)
  BY <1>1 DEF CopyStops
<1>3. QED
  BY <1>2 DEF ReadEof, Complete

\* The actions of the peers and io.Copy's reads and writes leave goroutines
\* and ends alone.
Quiet == UNCHANGED <<style, copier, end>>

LEMMA QuietSteps ==
  /\ \A e \in Ends : Peer(e) \/ CopyReads(e) \/ CopyWrites(e) => Quiet
  /\ UNCHANGED vars => Quiet
BY DEF Peer, PeerWrites, PeerShuts, PeerGoes, PeerReads, PeerStep, CopyReads,
   CopyWrites, vars, Quiet

LEMMA StepEndsFollowCopiers ==
  ASSUME IInv, [Next]_vars PROVE EndsFollowCopiers'
<1> USE DEF IInv, TypeOK, EndsFollowCopiers
<1>1. CASE Quiet
  BY <1>1 DEF Quiet
<1>2. ASSUME NEW e \in Ends, CopyStops(e) PROVE EndsFollowCopiers'
  BY <1>2, OtherIsEnd DEF CopyStops, Copying
<1>3. ASSUME NEW e \in Ends, HalfClose(e) PROVE EndsFollowCopiers'
  BY <1>3, OtherIsEnd DEF HalfClose, After
<1>4. ASSUME NEW e \in Ends, StdoutDone(e) \/ CloseDst(e) \/ CloseSrc(e)
      PROVE EndsFollowCopiers'
  BY <1>4 DEF StdoutDone, CloseDst, CloseSrc, After
<1>5. CASE BiCopyReturns \/ StdioReturns
  BY <1>5, OtherIsEnd DEF BiCopyReturns, StdioReturns, Return
<1>6. QED
  BY <1>1, <1>2, <1>3, <1>4, <1>5, QuietSteps DEF Next, Copier

LEMMA StepStoppedIsComplete ==
  ASSUME IInv, [Next]_vars PROVE StoppedIsComplete'
<1> SUFFICES ASSUME style' = "BiCopy", NobodyGone', NEW e \in Ends,
                    copier'[e] # "copying"
             PROVE  Complete(e)'
  BY DEF StoppedIsComplete
<1>1. style = "BiCopy"
  BY DEF Next, Peer, PeerWrites, PeerShuts, PeerGoes, PeerReads, PeerStep, Copier,
     CopyReads, CopyWrites, CopyStops, HalfClose, StdoutDone, CloseDst, CloseSrc,
     After, BiCopyReturns, StdioReturns, Return, vars
<1>2. NobodyGone
  BY DEF Next, Peer, PeerWrites, PeerShuts, PeerGoes, PeerReads, PeerStep, Copier,
     CopyReads, CopyWrites, CopyStops, HalfClose, StdoutDone, CloseDst, CloseSrc,
     After, BiCopyReturns, StdioReturns, Return, vars, peerVars, NobodyGone, IInv, TypeOK
<1>3. Complete(e)
  <2>1. CASE copier[e] # "copying"
    BY <2>1, <1>1, <1>2 DEF IInv, StoppedIsComplete
  <2>2. CASE copier[e] = "copying"
    <3>1. CopyStops(e)
      BY <2>2, QuietSteps DEF Next, Quiet, Copier, CopyStops, HalfClose, StdoutDone,
         CloseDst, CloseSrc, After, BiCopyReturns, StdioReturns, Return, IInv, TypeOK
    <3>2. QED
      BY <3>1, <1>1, <1>2, BiCopyStopsAtEof
  <2>3. QED
    BY <2>1, <2>2
<1>4. QED
  BY <1>3, CompleteStays DEF IInv

LEMMA StepSomeStoppedIsComplete ==
  ASSUME IInv, [Next]_vars PROVE SomeStoppedIsComplete'
<1> SUFFICES ASSUME NobodyGone',
                    \E e \in Ends : copier'[e] # "copying" \/ end'[e] # "open"
             PROVE  \E e \in Ends : Complete(e)'
  BY DEF SomeStoppedIsComplete
<1>1. NobodyGone
  BY DEF Next, Peer, PeerWrites, PeerShuts, PeerGoes, PeerReads, PeerStep, Copier,
     CopyReads, CopyWrites, CopyStops, HalfClose, StdoutDone, CloseDst, CloseSrc,
     After, BiCopyReturns, StdioReturns, Return, vars, peerVars, NobodyGone, IInv, TypeOK
<1>2. \E e \in Ends : Complete(e)
  <2>1. CASE \E e \in Ends : copier[e] # "copying" \/ end[e] # "open"
    BY <2>1, <1>1 DEF IInv, SomeStoppedIsComplete
  <2>2. CASE \A e \in Ends : copier[e] = "copying" /\ end[e] = "open"
    <3>1. PICK e \in Ends : CopyStops(e)
      BY <2>2, QuietSteps DEF Next, Quiet, Copier, HalfClose, StdoutDone,
         CloseDst, CloseSrc, After, BiCopyReturns, StdioReturns, Return, Ends
    <3>2. QED
      BY <3>1, <2>2, <1>1, FirstStopsAtEof
  <2>3. QED
    BY <2>1, <2>2
<1>3. QED
  BY <1>2, CompleteStays DEF IInv

LEMMA StepInvariant == ASSUME IInv, [Next]_vars PROVE IInv'
<1>1. TypeOK'
  BY StepTypes DEF IInv
<1>2. QED
  BY <1>1, StepEndsFollowCopiers, StepStoppedIsComplete, StepSomeStoppedIsComplete DEF IInv

-----------------------------------------------------------------------------

\* The strengthened invariant holds in every reachable state of every relay.
THEOREM RelayInvariance == Spec => []IInv
<1>1. QED
  BY InitInvariant, StepInvariant, PTL DEF Spec

\* The counters of both directions keep their order and their distances: the
\* copiers neither invent nor repeat a chunk, and hold at most one.
THEOREM ChunksInOrder == Spec => []TypeOK
<1>1. IInv => TypeOK
  BY DEF IInv
<1>2. QED
  BY <1>1, RelayInvariance, PTL

\* BiCopy never ends a stream it has not carried to its end.
THEOREM BiCopyEndsAreEarned == Spec => []EndsAreEarned
BY RelayInvariance, IInvGivesSafety, PTL

\* No loop starts to tear down before one stream was carried to its end.
THEOREM TearDownAfterAStream == Spec => []FirstStreamComplete
BY RelayInvariance, IInvGivesSafety, PTL
=============================================================================
