------------------------------- MODULE Relay -------------------------------
(***************************************************************************)
(* One connection relayed between two ends, by each of the three loops of  *)
(* the code: BiCopy (client, -L and -R), two pipeClose goroutines (sshd),  *)
(* and RunStdioForward (client, -W: end "a" is stdin and stdout).  Every   *)
(* one has a goroutine per direction around io.Copy; they differ in what   *)
(* happens after the first io.Copy returns.                                *)
(***************************************************************************)
EXTENDS Integers

CONSTANTS
  Styles,  \* the loops to look at
  Chunks,  \* bound: chunks each peer sends
  Window   \* bound: chunks the receiving kernel holds for a peer

ASSUME StylesAssumption == Styles \subseteq {"BiCopy", "pipeClose", "stdio"}
ASSUME BoundsAssumption == Chunks \in Nat /\ Window \in Nat \ {0}

Ends == {"a", "b"}
Other(e) == IF e = "a" THEN "b" ELSE "a"

VARIABLES
  style,    \* which loop this is, chosen at the start
  peer,     \* the peer at an end: it writes; has shut its stream down; is gone
  wrote,    \* chunks it has sent
  read,     \* ... that io.Copy has read
  written,  \* ... and written to the other end
  got,      \* ... and the other peer has received
  copier,   \* the goroutine that copies FROM an end
  end,      \* what the relay has done to an end: CloseWrite or Close
  returned  \* BiCopy's caller, or RunStdioForward and its process, is done

peerVars == <<peer, wrote, got>>
vars == <<style, peer, wrote, read, written, got, copier, end, returned>>

\* Types, and the order in which a chunk passes from hand to hand.
TypeOK ==
  /\ style \in Styles
  /\ peer \in [Ends -> {"open", "shut", "gone"}]
  /\ wrote \in [Ends -> 0 .. Chunks]
  /\ read \in [Ends -> 0 .. Chunks]
  /\ written \in [Ends -> 0 .. Chunks]
  /\ got \in [Ends -> 0 .. Chunks]
  /\ copier \in [Ends -> {"copying", "ended", "closing", "done"}]
  /\ end \in [Ends -> {"open", "half", "closed"}]
  /\ returned \in BOOLEAN
  /\ \A e \in Ends : /\ got[e] <= written[e] /\ written[e] <= read[e]
                     /\ read[e] <= wrote[e]
                     /\ read[e] <= written[e] + 1
                     /\ written[e] <= got[e] + Window

Init ==
  /\ style \in Styles
  /\ peer = [e \in Ends |-> "open"]
  /\ wrote = [e \in Ends |-> 0]
  /\ read  = [e \in Ends |-> 0]
  /\ written = [e \in Ends |-> 0]
  /\ got   = [e \in Ends |-> 0]
  /\ copier = [e \in Ends |-> "copying"]
  /\ end = [e \in Ends |-> "open"]
  /\ returned = FALSE

-----------------------------------------------------------------------------
(* The peers.  What a kernel has taken is delivered even after Close.      *)

PeerStep == UNCHANGED <<style, read, written, copier, end, returned>>

PeerWrites(e) ==
  /\ peer[e] = "open" /\ wrote[e] < Chunks /\ end[e] # "closed"
  /\ wrote' = [wrote EXCEPT ![e] = @ + 1]
  /\ UNCHANGED <<peer, got>> /\ PeerStep

PeerShuts(e) ==
  /\ peer[e] = "open"
  /\ peer' = [peer EXCEPT ![e] = "shut"]
  /\ UNCHANGED <<wrote, got>> /\ PeerStep

\* Reset, crash, or loss of the SSH connection under the channel.
PeerGoes(e) ==
  /\ peer[e] # "gone"
  /\ peer' = [peer EXCEPT ![e] = "gone"]
  /\ UNCHANGED <<wrote, got>> /\ PeerStep

PeerReads(e) ==
  /\ peer[Other(e)] # "gone" /\ got[e] < written[e]
  /\ got' = [got EXCEPT ![e] = @ + 1]
  /\ UNCHANGED <<peer, wrote>> /\ PeerStep

-----------------------------------------------------------------------------
(* io.Copy from end e to the other end.                                    *)

\* The goroutines of -W are gone with their process.
Copying(e) == copier[e] = "copying" /\ ~(style = "stdio" /\ returned)

CopyReads(e) ==
  /\ Copying(e)
  /\ read[e] = written[e] /\ read[e] < wrote[e] /\ end[e] # "closed"
  /\ read' = [read EXCEPT ![e] = @ + 1]
  /\ UNCHANGED <<style, peerVars, written, copier, end, returned>>

\* A slip: the chunk is written twice.
CopyWritesTwice(e) ==
  /\ Copying(e)
  /\ written[e] < read[e] /\ end[Other(e)] = "open" /\ peer[Other(e)] # "gone"
  /\ written' = [written EXCEPT ![e] = @ + 2]
  /\ UNCHANGED <<style, peerVars, read, copier, end, returned>>

\* The write blocks while the other peer does not read.
CopyWrites(e) ==
  /\ Copying(e)
  /\ written[e] < read[e] /\ end[Other(e)] = "open" /\ peer[Other(e)] # "gone"
  /\ written[e] < got[e] + Window
  /\ written' = [written EXCEPT ![e] = @ + 1]
  /\ UNCHANGED <<style, peerVars, read, copier, end, returned>>

ReadFails(e)  == peer[e] = "gone" \/ end[e] = "closed"
WriteFails(e) == peer[Other(e)] = "gone" \/ end[Other(e)] # "open"
ReadEof(e)    == peer[e] = "shut" /\ read[e] = wrote[e]

\* A slip: the end of the input is acted on before the last chunk is written.
CopyStopsAtRead(e) ==
  /\ Copying(e)
  /\ ReadEof(e) \/ ReadFails(e) \/ (written[e] < read[e] /\ WriteFails(e))
  /\ copier' = [copier EXCEPT ![e] = "ended"]
  /\ UNCHANGED <<style, peerVars, read, written, end, returned>>

\* io.Copy returns: at the end of its input, or on an error of either side.
CopyStops(e) ==
  /\ Copying(e)
  /\ \/ read[e] = written[e] /\ (ReadEof(e) \/ ReadFails(e))
     \/ written[e] < read[e] /\ WriteFails(e)
  /\ copier' = [copier EXCEPT ![e] = "ended"]
  /\ UNCHANGED <<style, peerVars, read, written, end, returned>>

-----------------------------------------------------------------------------
(* What follows io.Copy.                                                   *)

After(e, state, where) ==
  /\ copier[e] = state
  /\ copier' = [copier EXCEPT ![e] = where]
  /\ UNCHANGED <<style, peerVars, read, written, returned>>

\* A slip: BiCopy closes what it should half-close.
CloseAll(e) ==
  /\ style = "BiCopy"
  /\ After(e, "ended", "done")
  /\ end' = [x \in Ends |-> "closed"]

\* BiCopy, and the stdin goroutine of -W: CloseWrite on the destination.
HalfClose(e) ==
  /\ style = "BiCopy" \/ (style = "stdio" /\ e = "a" /\ ~returned)
  /\ After(e, "ended", "done")
  /\ end' = [end EXCEPT ![Other(e)] = "half"]

\* The stdout goroutine of -W only says that it is done.
StdoutDone(e) ==
  /\ style = "stdio" /\ e = "b" /\ ~returned
  /\ After(e, "ended", "done")
  /\ UNCHANGED end

\* A slip: only the source is closed.
SpareDst(e) ==
  /\ style = "pipeClose"
  /\ After(e, "ended", "closing")
  /\ UNCHANGED end

\* pipeClose closes the destination, and then the source.
CloseDst(e) ==
  /\ style = "pipeClose"
  /\ After(e, "ended", "closing")
  /\ end' = [end EXCEPT ![Other(e)] = "closed"]

CloseSrc(e) ==
  /\ style = "pipeClose"
  /\ After(e, "closing", "done")
  /\ end' = [end EXCEPT ![e] = "closed"]

Return ==
  /\ returned' = TRUE
  /\ end' = [e \in Ends |-> "closed"]
  /\ UNCHANGED <<style, peerVars, read, written, copier>>

\* A slip: one direction's end is enough.
BiCopyReturnsEarly ==
  /\ style = "BiCopy" /\ ~returned
  /\ \E e \in Ends : copier[e] = "done"
  /\ Return

\* wg.Wait, then the deferred Close of both connections.
BiCopyReturns ==
  /\ style = "BiCopy" /\ ~returned
  /\ \A e \in Ends : copier[e] = "done"
  /\ Return

\* "<-done" once: RunStdioForward returns 0 and the process exits.
StdioReturns ==
  /\ style = "stdio" /\ ~returned
  /\ \E e \in Ends : copier[e] = "done"
  /\ Return

-----------------------------------------------------------------------------
Peer(e) == PeerWrites(e) \/ PeerShuts(e) \/ PeerGoes(e) \/ PeerReads(e)

Copier(e) ==
  \/ CopyReads(e) \/ CopyWrites(e) \/ CopyStops(e)
  \/ HalfClose(e) \/ StdoutDone(e) \/ CloseDst(e) \/ CloseSrc(e)

Next ==
  \/ \E e \in Ends : Peer(e) \/ Copier(e)
  \/ BiCopyReturns \/ StdioReturns

\* Goroutines that can run do; nothing is assumed of the peers, which may be
\* silent, or not read, for ever.
Fairness ==
  /\ \A e \in Ends : WF_vars(Copier(e))
  /\ WF_vars(BiCopyReturns \/ StdioReturns)

Spec == Init /\ [][Next]_vars /\ Fairness

-----------------------------------------------------------------------------
(* Properties.                                                             *)

NobodyGone == \A e \in Ends : peer[e] # "gone"

\* Everything the peer at e had to say has been written to the other end.
Complete(e) == peer[e] = "shut" /\ written[e] = wrote[e]

\* BiCopy ends a stream only after all of it: a peer never takes the end of
\* the other direction, or of the relay, for the end of its own input.
EndsAreEarned ==
  style = "BiCopy" /\ NobodyGone =>
    \A e \in Ends : end[Other(e)] # "open" => Complete(e)

\* Two pipeClose, and -W, tear down both directions when one has ended: but
\* the one that ended first was carried to its end.
FirstStreamComplete ==
  NobodyGone /\ (\E e \in Ends : end[e] # "open") => \E e \in Ends : Complete(e)

\* io.Copy is stuck in Write because a peer does not read.
Blocked(e) == written[e] < read[e] /\ written[e] = got[e] + Window

\* The direction that is still open after a half-close goes on carrying: a
\* chunk sent through BiCopy arrives, unless a peer is gone or does not read.
BytesArrive ==
  \A e \in Ends : \A n \in 1 .. Chunks :
    style = "BiCopy" /\ wrote[e] >= n ~> written[e] >= n \/ ~NobodyGone \/ Blocked(e)

Over == IF style = "BiCopy" THEN \A e \in Ends : peer[e] # "open"
        ELSE \E e \in Ends : peer[e] # "open"

\* No relay outlives its peers: BiCopy and its caller close both ends once
\* both peers have finished, the other two as soon as one has, unless a peer
\* that does not read holds one up.
BothEndsClose ==
  Over ~> (\A e \in Ends : end[e] = "closed") \/ (\E e \in Ends : Blocked(e))

\* A user of -W who sends a request and ends the input gets the whole answer.
StdioAnswerIsWhole ==
  style = "stdio" /\ returned /\ NobodyGone => Complete("b")
=============================================================================
