-------------------------- MODULE SshClient_proofs --------------------------
(***************************************************************************)
(* Proofs about SshClient, for any options, anything typed and any window. *)
(***************************************************************************)
EXTENDS SshClient, TLAPS

\* Where main is when there is no session yet, and where there is one.
Unconnected == {"config", "dial", "hostkey"}
Sessionless == Unconnected \cup {"auth", "forward", "command", "connected", "stdio", "idle"}
Cooked == Sessionless \cup {"pty", "agent", "terminal"}
InSession == {"pty", "agent", "terminal", "raw", "start", "notify", "wait"}

KeyAccepted == \E answer \in BOOLEAN : HostKeyAccepted(answer)

\* What main has done when it is past a place, and still holds after it has left a session.
Passed ==
  /\ at \notin {"config", "exited"} => config.revoked # "unreadable"
  /\ at \notin Unconnected \cup {"exited"} => KeyAccepted
  /\ tried \in Nat /\ (failed \/ up = 1 .. tried)
  /\ at \in InSession \cup {"command", "connected", "stdio", "idle"} =>
       tried = Len(Forwards) /\ (failed => ~config.exitOnFailure)

Session ==
  /\ at \in Sessionless => chan = "none"
  /\ chan # "none" =>
       /\ config.revoked # "unreadable" /\ KeyAccepted
       /\ tried = Len(Forwards) /\ (failed \/ up = 1 .. tried)
       /\ failed => ~config.exitOnFailure

\* The report comes while main waits; stdio and idle are the ways without one.
Reporting ==
  /\ exit # "none" <=> at = "exited"
  /\ report # "none" /\ at # "exited" => at \in {"notify", "wait"}
  /\ at = "stdio" => config.stdio
  /\ at = "idle" => config.stdio \/ config.noSession
  /\ report \in {"none", "0", "status", "signal"}

\* Without a pty the saved state is the one that was found.
SavedIsFound ==
  /\ at \in Cooked => saved = "nil" /\ tty = "cooked"
  /\ ~pty => (saved = "nil" /\ tty = "cooked") \/ saved = "cooked"
  /\ at \in Sessionless => ~pty
  /\ tty \in {"cooked", "raw"} /\ saved \in {"nil", "cooked", "raw"}

IInv ==
  /\ config \in Configs /\ at \in Places
  /\ Passed /\ Session
  /\ Reporting /\ ExitCodeIsReported
  /\ SavedIsFound /\ RestoredWithoutPty

\* What IInv says depends on these variables alone.
Seen == <<config, mainVars, fwdVars, pty, ttyVars, chan, report, stdout>>

-----------------------------------------------------------------------------
LEMMA ForwardsStay ==
  ASSUME config' = config
  PROVE  Forwards' = Forwards /\ KeyAccepted' = KeyAccepted
<1>1. Forwards' = Forwards
  BY DEF Forwards
<1>2. ASSUME NEW answer \in BOOLEAN PROVE HostKeyAccepted(answer)' = HostKeyAccepted(answer)
  BY DEF HostKeyAccepted, NewKeyAccepted
<1>3. QED
  BY <1>1, <1>2 DEF KeyAccepted

LEMMA SeenDecides ==
  ASSUME IInv, UNCHANGED Seen
  PROVE  IInv'
<1>1. Forwards' = Forwards /\ KeyAccepted' = KeyAccepted
  BY ForwardsStay DEF Seen
<1>2. QED
  BY <1>1 DEF IInv, Seen, mainVars, fwdVars, ttyVars, Passed, Session, Reporting,
     ExitCodeIsReported, SavedIsFound, RestoredWithoutPty

LEMMA Initially == Init => IInv
  BY DEF Init, IInv, Passed, Session, Reporting, ExitCodeIsReported, SavedIsFound,
     RestoredWithoutPty, Places, Unconnected, Sessionless, Cooked, InSession

\* The options are resolved once.
LEMMA OptionsStay == ASSUME Next PROVE config' = config
<1>1. CASE Alone
  BY <1>1 DEF Alone, BuildConfig, Dial, DialFails, PostConnect, NoSession, IdleEnds, NoPty, NoAgent,
     SetupTerminal, StartCopy, Notify, WaitReturns
<1>2. CASE Answered
  BY <1>2 DEF Answered, Authenticate, CheckHostKey, CommandEnds, OpenSession, PtyGranted,
     AgentForwarded, StartProgram
<1>3. CASE Refused
  BY <1>3 DEF Refused, HandshakeFails, StdioEnds, StdioFails, SessionFails, PtyRefused, AgentFails,
     StartRefused
<1>4. CASE \E f \in DOMAIN Forwards : Forwarding(f)
  BY <1>4 DEF Forwarding, Forward, ForwardFails
<1>5. CASE Copier
  BY <1>5 DEF Copier, ReadInput, ReadSecond, InputEnds, WriteInput, WriteFails
<1>6. CASE SignalForwarded \/ Outside
  BY <1>6 DEF SignalForwarded, Outside, Killed, SignalArrives, TypeEnds, StdoutSticks, StdoutFails,
     LinkLost, ServerReads, ServerCloses, Type, ServerReports
<1>7. QED
  BY <1>1, <1>2, <1>3, <1>4, <1>5, <1>6 DEF Next

\* What main does by itself.
LEMMA AloneKeeps ==
  ASSUME IInv, Alone, config' = config
  PROVE  IInv'
<1>0. Forwards' = Forwards /\ KeyAccepted' = KeyAccepted
  BY ForwardsStay
<1>1. CASE BuildConfig
  BY <1>0, <1>1 DEF BuildConfig, Goes, Fails, Exit,
         IInv, Passed, Session, Reporting, ExitCodeIsReported, SavedIsFound, RestoredWithoutPty,
         Places, Unconnected, Sessionless, Cooked, InSession, mainVars, fwdVars, sessVars, ttyVars, ioVars
<1>2. CASE Dial
  BY <1>0, <1>2 DEF Dial, Goes, Fails, Exit,
         IInv, Passed, Session, Reporting, ExitCodeIsReported, SavedIsFound, RestoredWithoutPty,
         Places, Unconnected, Sessionless, Cooked, InSession, mainVars, fwdVars, sessVars, ttyVars, ioVars
<1>3. CASE DialFails
  BY <1>0, <1>3 DEF DialFails, Goes, Fails, Exit,
         IInv, Passed, Session, Reporting, ExitCodeIsReported, SavedIsFound, RestoredWithoutPty,
         Places, Unconnected, Sessionless, Cooked, InSession, mainVars, fwdVars, sessVars, ttyVars, ioVars
<1>4. CASE PostConnect
  BY <1>0, <1>4 DEF PostConnect, Goes, Fails, Exit,
         IInv, Passed, Session, Reporting, ExitCodeIsReported, SavedIsFound, RestoredWithoutPty,
         Places, Unconnected, Sessionless, Cooked, InSession, mainVars, fwdVars, sessVars, ttyVars, ioVars
<1>5. CASE NoSession
  BY <1>0, <1>5 DEF NoSession, Goes, Fails, Exit,
         IInv, Passed, Session, Reporting, ExitCodeIsReported, SavedIsFound, RestoredWithoutPty,
         Places, Unconnected, Sessionless, Cooked, InSession, mainVars, fwdVars, sessVars, ttyVars, ioVars
<1>6. CASE IdleEnds
  BY <1>0, <1>6 DEF IdleEnds, Goes, Fails, Exit,
         IInv, Passed, Session, Reporting, ExitCodeIsReported, SavedIsFound, RestoredWithoutPty,
         Places, Unconnected, Sessionless, Cooked, InSession, mainVars, fwdVars, sessVars, ttyVars, ioVars
<1>7. CASE NoPty
  BY <1>0, <1>7 DEF NoPty, Goes, Fails, Exit,
         IInv, Passed, Session, Reporting, ExitCodeIsReported, SavedIsFound, RestoredWithoutPty,
         Places, Unconnected, Sessionless, Cooked, InSession, mainVars, fwdVars, sessVars, ttyVars, ioVars
<1>8. CASE NoAgent
  BY <1>0, <1>8 DEF NoAgent, Goes, Fails, Exit,
         IInv, Passed, Session, Reporting, ExitCodeIsReported, SavedIsFound, RestoredWithoutPty,
         Places, Unconnected, Sessionless, Cooked, InSession, mainVars, fwdVars, sessVars, ttyVars, ioVars
<1>9. CASE SetupTerminal
  BY <1>0, <1>9 DEF SetupTerminal, MakeRaw, Goes, Fails, Exit,
      IInv, Passed, Session, Reporting, ExitCodeIsReported, SavedIsFound, RestoredWithoutPty,
         Places, Unconnected, Sessionless, Cooked, InSession, mainVars, fwdVars, sessVars, ttyVars, ioVars
<1>10. CASE StartCopy
  BY <1>0, <1>10 DEF StartCopy, MakeRaw, Goes, Fails, Exit,
      IInv, Passed, Session, Reporting, ExitCodeIsReported, SavedIsFound, RestoredWithoutPty,
         Places, Unconnected, Sessionless, Cooked, InSession, mainVars, fwdVars, sessVars, ttyVars, ioVars
<1>11. CASE Notify
  BY <1>0, <1>11 DEF Notify, Goes, Fails, Exit,
         IInv, Passed, Session, Reporting, ExitCodeIsReported, SavedIsFound, RestoredWithoutPty,
         Places, Unconnected, Sessionless, Cooked, InSession, mainVars, fwdVars, sessVars, ttyVars, ioVars
<1>12. CASE WaitReturns
  BY <1>0, <1>12 DEF WaitReturns, Restore, ExitCode, Goes, Fails, Exit,
      IInv, Passed, Session, Reporting, ExitCodeIsReported, SavedIsFound, RestoredWithoutPty,
         Places, Unconnected, Sessionless, Cooked, InSession, mainVars, fwdVars, sessVars, ttyVars, ioVars
<1>13. QED
  BY <1>1, <1>2, <1>3, <1>4, <1>5, <1>6, <1>7, <1>8, <1>9, <1>10, <1>11, <1>12 DEF Alone

\* What it does when it has an answer.
LEMMA AnsweredKeeps ==
  ASSUME IInv, Answered, config' = config
  PROVE  IInv'
<1>0. Forwards' = Forwards /\ KeyAccepted' = KeyAccepted
  BY ForwardsStay
<1>1. CASE Authenticate
  BY <1>0, <1>1 DEF Authenticate, Goes, Fails, Exit,
         IInv, Passed, Session, Reporting, ExitCodeIsReported, SavedIsFound, RestoredWithoutPty,
         Places, Unconnected, Sessionless, Cooked, InSession, mainVars, fwdVars, sessVars, ttyVars, ioVars
<1>2. CASE CommandEnds
  BY <1>0, <1>2 DEF CommandEnds, Goes, Fails, Exit,
         IInv, Passed, Session, Reporting, ExitCodeIsReported, SavedIsFound, RestoredWithoutPty,
         Places, Unconnected, Sessionless, Cooked, InSession, mainVars, fwdVars, sessVars, ttyVars, ioVars
<1>3. CASE OpenSession
  BY <1>0, <1>3 DEF OpenSession, Goes, Fails, Exit,
         IInv, Passed, Session, Reporting, ExitCodeIsReported, SavedIsFound, RestoredWithoutPty,
         Places, Unconnected, Sessionless, Cooked, InSession, mainVars, fwdVars, sessVars, ttyVars, ioVars
<1>4. CASE PtyGranted
  BY <1>0, <1>4 DEF PtyGranted, Goes, Fails, Exit,
         IInv, Passed, Session, Reporting, ExitCodeIsReported, SavedIsFound, RestoredWithoutPty,
         Places, Unconnected, Sessionless, Cooked, InSession, mainVars, fwdVars, sessVars, ttyVars, ioVars
<1>5. CASE AgentForwarded
  BY <1>0, <1>5 DEF AgentForwarded, Goes, Fails, Exit,
         IInv, Passed, Session, Reporting, ExitCodeIsReported, SavedIsFound, RestoredWithoutPty,
         Places, Unconnected, Sessionless, Cooked, InSession, mainVars, fwdVars, sessVars, ttyVars, ioVars
<1>6. CASE StartProgram
  BY <1>0, <1>6 DEF StartProgram, Goes, Fails, Exit,
         IInv, Passed, Session, Reporting, ExitCodeIsReported, SavedIsFound, RestoredWithoutPty,
         Places, Unconnected, Sessionless, Cooked, InSession, mainVars, fwdVars, sessVars, ttyVars, ioVars
<1>7. ASSUME NEW answer \in BOOLEAN, CheckHostKey(answer) PROVE IInv'
  BY <1>0, <1>7 DEF CheckHostKey, KeyAccepted, Goes, Fails, Exit,
         IInv, Passed, Session, Reporting, ExitCodeIsReported, SavedIsFound, RestoredWithoutPty,
         Places, Unconnected, Sessionless, Cooked, InSession, mainVars, fwdVars, sessVars, ttyVars, ioVars
<1>8. QED
  BY <1>1, <1>2, <1>3, <1>4, <1>5, <1>6, <1>7 DEF Answered

\* What it does when it has none.
LEMMA RefusedKeeps ==
  ASSUME IInv, Refused, config' = config
  PROVE  IInv'
<1>0. Forwards' = Forwards /\ KeyAccepted' = KeyAccepted
  BY ForwardsStay
<1>1. CASE HandshakeFails
  BY <1>0, <1>1 DEF HandshakeFails, Goes, Fails, Exit,
         IInv, Passed, Session, Reporting, ExitCodeIsReported, SavedIsFound, RestoredWithoutPty,
         Places, Unconnected, Sessionless, Cooked, InSession, mainVars, fwdVars, sessVars, ttyVars, ioVars
<1>2. CASE StdioEnds
  BY <1>0, <1>2 DEF StdioEnds, Goes, Fails, Exit,
         IInv, Passed, Session, Reporting, ExitCodeIsReported, SavedIsFound, RestoredWithoutPty,
         Places, Unconnected, Sessionless, Cooked, InSession, mainVars, fwdVars, sessVars, ttyVars, ioVars
<1>3. CASE StdioFails
  BY <1>0, <1>3 DEF StdioFails, Goes, Fails, Exit,
         IInv, Passed, Session, Reporting, ExitCodeIsReported, SavedIsFound, RestoredWithoutPty,
         Places, Unconnected, Sessionless, Cooked, InSession, mainVars, fwdVars, sessVars, ttyVars, ioVars
<1>4. CASE SessionFails
  BY <1>0, <1>4 DEF SessionFails, Goes, Fails, Exit,
         IInv, Passed, Session, Reporting, ExitCodeIsReported, SavedIsFound, RestoredWithoutPty,
         Places, Unconnected, Sessionless, Cooked, InSession, mainVars, fwdVars, sessVars, ttyVars, ioVars
<1>5. CASE PtyRefused
  BY <1>0, <1>5 DEF PtyRefused, Goes, Fails, Exit,
         IInv, Passed, Session, Reporting, ExitCodeIsReported, SavedIsFound, RestoredWithoutPty,
         Places, Unconnected, Sessionless, Cooked, InSession, mainVars, fwdVars, sessVars, ttyVars, ioVars
<1>6. CASE AgentFails
  BY <1>0, <1>6 DEF AgentFails, Goes, Fails, Exit,
         IInv, Passed, Session, Reporting, ExitCodeIsReported, SavedIsFound, RestoredWithoutPty,
         Places, Unconnected, Sessionless, Cooked, InSession, mainVars, fwdVars, sessVars, ttyVars, ioVars
<1>7. CASE StartRefused
  BY <1>0, <1>7 DEF StartRefused, Restore, Goes, Fails, Exit,
      IInv, Passed, Session, Reporting, ExitCodeIsReported, SavedIsFound, RestoredWithoutPty,
         Places, Unconnected, Sessionless, Cooked, InSession, mainVars, fwdVars, sessVars, ttyVars, ioVars
<1>8. QED
  BY <1>1, <1>2, <1>3, <1>4, <1>5, <1>6, <1>7 DEF Refused

\* A forwarding listens, or firstErr is set.
LEMMA ForwardingKeeps ==
  ASSUME IInv, NEW f \in DOMAIN Forwards, Forwarding(f), config' = config
  PROVE  IInv'
<1>0. Forwards' = Forwards /\ KeyAccepted' = KeyAccepted
  BY ForwardsStay
<1>1. CASE Forward(f)
  <2>1. tried \in Nat /\ 1 .. f = (1 .. tried) \cup {f} /\ f \in Nat
    BY <1>1 DEF Forward, IInv, Passed
  <2>2. failed \/ up' = 1 .. f
    BY <1>1, <2>1 DEF Forward, IInv, Passed
  <2>3. QED
    BY <1>0, <1>1, <2>1, <2>2 DEF Forward,
         IInv, Passed, Session, Reporting, ExitCodeIsReported, SavedIsFound, RestoredWithoutPty,
         Places, Unconnected, Sessionless, Cooked, InSession, mainVars, fwdVars, sessVars, ttyVars, ioVars
<1>2. CASE ForwardFails(f)
  BY <1>0, <1>2 DEF ForwardFails,
         IInv, Passed, Session, Reporting, ExitCodeIsReported, SavedIsFound, RestoredWithoutPty,
         Places, Unconnected, Sessionless, Cooked, InSession, mainVars, fwdVars, sessVars, ttyVars, ioVars
<1>3. QED
  BY <1>1, <1>2 DEF Forwarding

\* Of the goroutine that copies stdin, only ~. touches the terminal and the channel.
LEMMA CopierKeeps ==
  ASSUME IInv, Copier, config' = config
  PROVE  IInv'
<1>0. Forwards' = Forwards /\ KeyAccepted' = KeyAccepted
  BY ForwardsStay
<1>1. CASE ReadSecond
  BY <1>0, <1>1 DEF ReadSecond, CloseSession, Restore, Hold,
      IInv, Passed, Session, Reporting, ExitCodeIsReported, SavedIsFound, RestoredWithoutPty,
         Places, Unconnected, Sessionless, Cooked, InSession, mainVars, fwdVars, sessVars, ttyVars, ioVars
<1>2. CASE ReadInput \/ InputEnds \/ WriteInput \/ WriteFails
  BY SeenDecides, <1>2 DEF Seen, ReadInput, InputEnds, WriteInput, WriteFails, sessVars
<1>3. QED
  BY <1>1, <1>2 DEF Copier

\* Signals, the person and the server.
LEMMA OutsideKeeps ==
  ASSUME IInv, Outside, config' = config
  PROVE  IInv'
<1>0. Forwards' = Forwards /\ KeyAccepted' = KeyAccepted
  BY ForwardsStay
<1>1. CASE Killed
  BY <1>0, <1>1 DEF Killed, Goes, Fails, Exit,
         IInv, Passed, Session, Reporting, ExitCodeIsReported, SavedIsFound, RestoredWithoutPty,
         Places, Unconnected, Sessionless, Cooked, InSession, mainVars, fwdVars, sessVars, ttyVars, ioVars
<1>2. CASE ServerCloses
  BY <1>0, <1>2 DEF ServerCloses, Goes, Fails, Exit,
         IInv, Passed, Session, Reporting, ExitCodeIsReported, SavedIsFound, RestoredWithoutPty,
         Places, Unconnected, Sessionless, Cooked, InSession, mainVars, fwdVars, sessVars, ttyVars, ioVars
<1>3. ASSUME NEW r \in {"0", "status", "signal"}, ServerReports(r) PROVE IInv'
  BY <1>0, <1>3 DEF ServerReports,
         IInv, Passed, Session, Reporting, ExitCodeIsReported, SavedIsFound, RestoredWithoutPty,
         Places, Unconnected, Sessionless, Cooked, InSession, mainVars, fwdVars, sessVars, ttyVars, ioVars
<1>4. CASE StdoutSticks \/ StdoutFails
  BY <1>0, <1>4 DEF StdoutSticks, StdoutFails,
         IInv, Passed, Session, Reporting, ExitCodeIsReported, SavedIsFound, RestoredWithoutPty,
         Places, Unconnected, Sessionless, Cooked, InSession, mainVars, fwdVars, sessVars, ttyVars
<1>5. CASE SignalArrives \/ TypeEnds \/ LinkLost \/ ServerReads \/ \E ch \in Chars : Type(ch)
  BY SeenDecides, <1>5 DEF Seen, SignalArrives, TypeEnds, LinkLost, ServerReads, Type, sessVars, ioVars
<1>6. QED
  BY <1>1, <1>2, <1>3, <1>4, <1>5 DEF Outside

LEMMA Step == IInv /\ [Next]_vars => IInv'
<1> SUFFICES ASSUME IInv, [Next]_vars PROVE IInv'
  OBVIOUS
<1>1. CASE Next
  <2>0. config' = config
    BY <1>1, OptionsStay
  <2>1. CASE Alone
    BY <2>0, <2>1, AloneKeeps
  <2>2. CASE Answered
    BY <2>0, <2>2, AnsweredKeeps
  <2>3. CASE Refused
    BY <2>0, <2>3, RefusedKeeps
  <2>4. CASE \E f \in DOMAIN Forwards : Forwarding(f)
    BY <2>0, <2>4, ForwardingKeeps
  <2>5. CASE Copier
    BY <2>0, <2>5, CopierKeeps
  <2>6. CASE SignalForwarded
    BY <2>6, SeenDecides DEF Seen, SignalForwarded, ioVars
  <2>7. CASE Outside
    BY <2>0, <2>7, OutsideKeeps
  <2>8. QED
    BY <1>1, <2>1, <2>2, <2>3, <2>4, <2>5, <2>6, <2>7 DEF Next
<1>2. CASE UNCHANGED vars
  BY <1>2, SeenDecides DEF Seen, vars, sessVars, ioVars
<1>3. QED
  BY <1>1, <1>2

-----------------------------------------------------------------------------
\* The invariant behind the results below: what main has done when it is at a place, what it
\* has reported, and what it has saved of the terminal.
THEOREM Invariance == Spec => []IInv
<1>1. QED
  BY Initially, Step, PTL DEF Spec

\* main.go:312-334: for any program, server and way for the session to end, the exit code is
\* what the server has said, unless that is success and the program's output could not be
\* written: then ssh fails, too.  0 is never made up.
THEOREM ExitCodesAreReported == Spec => []ExitCodeIsReported
<1>1. IInv => ExitCodeIsReported
  BY DEF IInv
<1>2. QED
  BY <1>1, Invariance, PTL

\* hostkey.go:97-182, ssh.go:138-148: no session is begun behind a host key that the options
\* refuse, or, with ExitOnForwardFailure, with a forwarding that does not listen.
THEOREM SessionsAreEarned == Spec => []SessionIsEarned
<1>1. IInv => SessionIsEarned
  <2> SUFFICES ASSUME IInv, chan # "none"
               PROVE  /\ config.revoked # "unreadable"
                      /\ config.localhost \/ config.revoked # "listed"
                      /\ config.known = "changed" => config.localhost \/ config.strict \in {"no", "off"}
                      /\ config.strict = "yes" => config.localhost \/ config.known = "same"
                      /\ config.exitOnFailure => up = DOMAIN Forwards
    BY DEF SessionIsEarned
  <2>1. PICK answer \in BOOLEAN : HostKeyAccepted(answer)
    BY DEF IInv, Session, KeyAccepted
  <2>2. config.exitOnFailure => up = DOMAIN Forwards
    <3>1. config.exitOnFailure => up = 1 .. Len(Forwards)
      BY DEF IInv, Session
    <3>2. QED
      BY <3>1, ConfigsAssumption DEF IInv, Forwards
  <2>3. QED
    BY <2>1, <2>2 DEF HostKeyAccepted, NewKeyAccepted, IInv, Session
<1>2. QED
  BY <1>1, Invariance, PTL

\* main.go:287-317, terminal.go:39-48: without a pty the terminal is restored on every way out.
THEOREM TerminalIsRestored == Spec => []RestoredWithoutPty
<1>1. IInv => RestoredWithoutPty
  BY DEF IInv
<1>2. QED
  BY <1>1, Invariance, PTL

-----------------------------------------------------------------------------
(* Types.                                                                  *)

\* A step that only moves main, or the transport.
LEMMA MovesAreTyped ==
  ASSUME TypeOK, at' \in Places, exit' \in {"none", "0", "status", "signal", "255", "killed"},
         link' \in {"none", "up", "lost"}, UNCHANGED <<config, fwdVars, sessVars, ioVars>>
  PROVE  TypeOK'
<1>1. Forwards' = Forwards
  BY DEF Forwards
<1>2. QED
  BY <1>1 DEF TypeOK, fwdVars, sessVars, ttyVars, ioVars, copyVars

LEMMA MainIsTyped ==
  ASSUME TypeOK, Alone \/ Answered \/ Refused
  PROVE  TypeOK'
<1>1. CASE BuildConfig \/ Dial \/ DialFails \/ PostConnect \/ NoSession \/ IdleEnds \/ NoPty \/ NoAgent
  BY <1>1, MovesAreTyped DEF BuildConfig, Dial, DialFails, PostConnect, NoSession, IdleEnds, NoPty,
     NoAgent, Goes, Fails, Exit, Places, TypeOK
<1>2. CASE \/ Authenticate \/ \E answer \in BOOLEAN : CheckHostKey(answer)
           \/ CommandEnds \/ AgentForwarded \/ StartProgram
  BY <1>2, MovesAreTyped DEF Authenticate, CheckHostKey, CommandEnds, AgentForwarded, StartProgram,
     Goes, Fails, Exit, Places, TypeOK
<1>3. CASE HandshakeFails \/ StdioEnds \/ StdioFails \/ SessionFails \/ PtyRefused \/ AgentFails
  BY <1>3, MovesAreTyped DEF HandshakeFails, StdioEnds, StdioFails, SessionFails, PtyRefused,
     AgentFails, Goes, Fails, Exit, Places, TypeOK
<1>4. ASSUME SetupTerminal \/ StartCopy \/ Notify \/ WaitReturns \/ OpenSession \/ PtyGranted \/ StartRefused
      PROVE  /\ at' \in Places /\ exit' \in {"none", "0", "status", "signal", "255", "killed"}
             /\ tty' \in {"cooked", "raw"} /\ saved' \in {"nil", "cooked", "raw"}
             /\ pty' \in BOOLEAN /\ chan' \in {"none", "open", "closing", "closed"}
             /\ sig' \in {"off", "on", "pending"} /\ stdin' \in {"none", "reading", "second", "writing", "done"}
             /\ UNCHANGED <<config, link, fwdVars, report, stdout, typed, eof, pos, atStart, hand, sent, got>>
  BY <1>4 DEF SetupTerminal, StartCopy, Notify, WaitReturns, OpenSession, PtyGranted, StartRefused,
     MakeRaw, Restore, ExitCode, Goes, Fails, Exit, Places, TypeOK, ttyVars, ioVars, copyVars
<1>5. CASE SetupTerminal \/ StartCopy \/ Notify \/ WaitReturns \/ OpenSession \/ PtyGranted \/ StartRefused
  <2>1. Forwards' = Forwards
    BY <1>4, <1>5 DEF Forwards
  <2>2. QED
    BY <1>4, <1>5, <2>1 DEF TypeOK, fwdVars
<1>6. QED
  BY <1>1, <1>2, <1>3, <1>5 DEF Alone, Answered, Refused

LEMMA ForwardingIsTyped ==
  ASSUME TypeOK, NEW f \in DOMAIN Forwards, Forwarding(f)
  PROVE  TypeOK'
<1>1. Forwards \in Seq({"local", "remote", "dynamic"})
  BY ConfigsAssumption DEF TypeOK, Forwards
<1>2. Forwards' = Forwards
  BY DEF Forwards, Forwarding, Forward, ForwardFails
<1>3. f \in 1 .. Len(Forwards) /\ tried \in Nat /\ f = tried + 1
  BY <1>1 DEF TypeOK, Forwarding, Forward, ForwardFails
<1>4. tried' = f /\ up' \subseteq up \cup {f} /\ failed' \in BOOLEAN
  BY DEF TypeOK, Forwarding, Forward, ForwardFails
<1>5. tried' \in 0 .. Len(Forwards)
  BY <1>1, <1>3, <1>4
<1>6. up' \in SUBSET (1 .. tried')
  <2>1. up \subseteq 1 .. tried
    BY DEF TypeOK
  <2>2. QED
    BY <1>3, <1>4, <2>1
<1>7. QED
  BY <1>2, <1>4, <1>5, <1>6 DEF TypeOK, Forwarding, Forward, ForwardFails, mainVars, sessVars, ttyVars, ioVars, copyVars

LEMMA CopierIsTyped ==
  ASSUME TypeOK, Copier
  PROVE  TypeOK'
<1>1. Forwards' = Forwards
  BY DEF Forwards, Copier, ReadInput, ReadSecond, InputEnds, WriteInput, WriteFails
<1>2. ASSUME NEW b \in Chars, NEW c \in Chars
      PROVE  /\ <<b>> \in Seq(Chars) /\ Len(<<b>>) <= 2
             /\ <<b, c>> \in Seq(Chars) /\ Len(<<b, c>>) <= 2
  OBVIOUS
<1>3. "esc" \in Chars /\ \A i \in 1 .. Len(typed) : typed[i] \in Chars
  BY DEF TypeOK, Chars
<1>4. <<>> \in Seq(Chars) /\ Len(<<>>) = 0
  OBVIOUS
<1>5. CASE ReadInput
  <2>1. pos + 1 \in 1 .. Len(typed) /\ typed[pos + 1] \in Chars
    BY <1>3, <1>5 DEF ReadInput, TypeOK
  <2>2. /\ hand' \in {hand, <<typed[pos + 1]>>} /\ stdin' \in {"second", "writing"}
    BY <1>5 DEF ReadInput, Hold
  <2>3. atStart' \in BOOLEAN
    BY <1>5 DEF ReadInput
  <2>4. hand' \in Seq(Chars) /\ Len(hand') <= 2
    BY <1>2, <2>1, <2>2 DEF TypeOK
  <2>5. pos' \in 0 .. Len(typed')
    BY <1>5, <2>1 DEF ReadInput, TypeOK
  <2>6. QED
    BY <1>1, <1>5, <2>2, <2>3, <2>4, <2>5 DEF ReadInput, TypeOK, mainVars, fwdVars, sessVars, ttyVars
<1>6. CASE ReadSecond
  <2>1. pos + 1 \in 1 .. Len(typed) /\ typed[pos + 1] \in Chars
    BY <1>3, <1>6 DEF ReadSecond, TypeOK
  <2>2. /\ hand' \in {hand, <<"esc">>, <<"esc", typed[pos + 1]>>}
        /\ stdin' \in {"reading", "writing", "done"}
        /\ tty' \in {"cooked", "raw"} /\ saved' \in {"nil", "cooked", "raw"}
        /\ chan' \in {"none", "open", "closing", "closed"}
    BY <1>6 DEF ReadSecond, CloseSession, Restore, Hold, TypeOK, ttyVars
  <2>3. hand' \in Seq(Chars) /\ Len(hand') <= 2
    BY <1>2, <1>3, <2>1, <2>2 DEF TypeOK
  <2>4. pos' \in 0 .. Len(typed')
    BY <1>6, <2>1 DEF ReadSecond, TypeOK
  <2>5. QED
    BY <1>1, <1>6, <2>2, <2>3, <2>4 DEF ReadSecond, TypeOK, mainVars, fwdVars
<1>7. CASE InputEnds
  <2>1. hand' \in {hand, <<"esc">>} /\ stdin' \in {"done", "writing"}
    BY <1>7 DEF InputEnds, Hold
  <2>2. hand' \in Seq(Chars) /\ Len(hand') <= 2
    BY <1>2, <1>3, <2>1 DEF TypeOK
  <2>3. QED
    BY <1>1, <1>7, <2>1, <2>2 DEF InputEnds, TypeOK, mainVars, fwdVars, sessVars, ttyVars
<1>8. CASE WriteInput
  <2>1. sent' \in Seq(Chars) /\ Len(sent') = Len(sent) + Len(hand)
    BY <1>8 DEF WriteInput, TypeOK
  <2>2. got' \in 0 .. Len(sent') /\ Len(sent') - got' <= Window
    BY <1>8, <2>1, BoundsAssumption DEF WriteInput, TypeOK
  <2>3. QED
    BY <1>1, <1>4, <1>8, <2>1, <2>2 DEF WriteInput, TypeOK, mainVars, fwdVars, sessVars, ttyVars
<1>9. CASE WriteFails
  BY <1>1, <1>4, <1>9 DEF WriteFails, TypeOK, mainVars, fwdVars, sessVars, ttyVars
<1>10. QED
  BY <1>5, <1>6, <1>7, <1>8, <1>9 DEF Copier

LEMMA OutsideIsTyped ==
  ASSUME TypeOK, Outside \/ SignalForwarded
  PROVE  TypeOK'
<1>1. Forwards' = Forwards
  BY DEF Forwards, Outside, SignalForwarded, Killed, SignalArrives, Type, TypeEnds, StdoutSticks, StdoutFails,
     LinkLost, ServerReads, ServerReports, ServerCloses
<1>2. CASE Killed \/ LinkLost
  BY <1>2, MovesAreTyped DEF Killed, LinkLost, Exit, TypeOK, Places, mainVars
<1>3. CASE SignalArrives \/ SignalForwarded
  BY <1>1, <1>3 DEF SignalArrives, SignalForwarded, TypeOK, mainVars, fwdVars, ttyVars, ioVars, copyVars
<1>4. CASE TypeEnds \/ StdoutSticks \/ StdoutFails
  BY <1>1, <1>4 DEF TypeEnds, StdoutSticks, StdoutFails, TypeOK, mainVars, fwdVars, sessVars, ttyVars, copyVars
<1>5. CASE ServerReads
  BY <1>1, <1>5, BoundsAssumption DEF ServerReads, TypeOK, mainVars, fwdVars, sessVars, ttyVars, copyVars
<1>6. CASE ServerCloses
  BY <1>1, <1>6 DEF ServerCloses, TypeOK, mainVars, fwdVars, ttyVars, ioVars, copyVars
<1>7. ASSUME NEW ch \in Chars, Type(ch) PROVE TypeOK'
  <2>1. typed' \in Seq(Chars) /\ Len(typed') = Len(typed) + 1
    BY <1>7 DEF Type, TypeOK
  <2>2. QED
    BY <1>1, <1>7, <2>1, BoundsAssumption DEF Type, TypeOK, mainVars, fwdVars, sessVars, ttyVars, copyVars
<1>8. ASSUME NEW r \in {"0", "status", "signal"}, ServerReports(r) PROVE TypeOK'
  BY <1>1, <1>8 DEF ServerReports, TypeOK, mainVars, fwdVars, ttyVars, ioVars, copyVars
<1>9. QED
  BY <1>2, <1>3, <1>4, <1>5, <1>6, <1>7, <1>8 DEF Outside

\* ssh.go, main.go: the types of ssh's state, for any options and anything typed; the
\* forwardings tried are those configured, and the server holds no more than its window.
THEOREM TypesAreCorrect == Spec => []TypeOK
<1>1. Init => TypeOK
  <2> SUFFICES ASSUME Init PROVE TypeOK
    OBVIOUS
  <2>1. Forwards \in Seq({"local", "remote", "dynamic"})
    BY ConfigsAssumption DEF Init, Forwards
  <2>2. <<>> \in Seq(Chars) /\ Len(<<>>) = 0
    OBVIOUS
  <2>3. tried \in 0 .. Len(Forwards) /\ up \in SUBSET (1 .. tried)
    BY <2>1 DEF Init
  <2>4. typed \in Seq(Chars) /\ Len(typed) <= MaxTyped /\ pos \in 0 .. Len(typed)
    BY <2>2, BoundsAssumption DEF Init
  <2>5. /\ hand \in Seq(Chars) /\ Len(hand) <= 2
        /\ sent \in Seq(Chars) /\ got \in 0 .. Len(sent) /\ Len(sent) - got <= Window
    BY <2>2, BoundsAssumption DEF Init
  <2>6. QED
    BY <2>3, <2>4, <2>5 DEF Init, TypeOK, Places
<1>2. TypeOK /\ [Next]_vars => TypeOK'
  <2> SUFFICES ASSUME TypeOK, [Next]_vars PROVE TypeOK'
    OBVIOUS
  <2>1. CASE UNCHANGED vars
    BY <2>1, MovesAreTyped DEF vars, mainVars, TypeOK
  <2>2. CASE Next
    BY <2>2, MainIsTyped, ForwardingIsTyped, CopierIsTyped, OutsideIsTyped DEF Next
  <2>3. QED
    BY <2>1, <2>2
<1>3. QED
  BY <1>1, <1>2, PTL DEF Spec

-----------------------------------------------------------------------------
(* What is sent is what was typed, without the escapes.                    *)

Unread == Cooked \cup {"raw"}

\* Where main is when stdin is copied, and what the goroutine has in each of its places.
Copying ==
  /\ at \in Unread => stdin = "none"
  /\ at \notin Sessionless \cup {"exited"} => chan # "none"
  /\ stdin # "none" => chan # "none"
  /\ stdin = "none" => pos = 0 /\ sent = <<>> /\ atStart
  /\ stdin # "writing" => hand = <<>>
  /\ chan = "closing" => stdin = "done"

\* What the reader knows of the escapes in what it has read.
Escaped(starts) ==
  /\ EscapesBegin(starts)
  /\ stdin = "second" => Escaping /\ pos \in starts /\ ~atStart
  /\ Escaping /\ stdin \in {"reading", "writing"} =>
       /\ atStart <=> pos = 0 \/ (typed[pos] = "nl" /\ pos - 1 \notin starts)
       /\ pos \in starts => eof /\ pos = Len(typed)

\* What InputIsFiltered says of kept.
Filtered(starts, kept) ==
  ReadAt(kept, sent \o hand) /\ \A i \in 1 .. pos : SentUnlessRemoved(starts, kept, i)

Kept ==
  \E starts \in SUBSET (1 .. pos) :
    Escaped(starts) /\ \E kept \in [1 .. Len(sent \o hand) -> 1 .. pos] : Filtered(starts, kept)

InputInv == TypeOK /\ Copying /\ Kept

\* A step that is not the goroutine's: input comes only at the end, what is over is over, and
\* once stdin is copied it is settled whether there are escapes.
Aside ==
  /\ UNCHANGED copyVars
  /\ \A i \in 1 .. pos : typed'[i] = typed[i]
  /\ eof => eof' /\ Len(typed') = Len(typed)
  /\ stdin # "none" => Escaping' = Escaping
  /\ at' \in Unread => at \in Unread
  /\ at' \notin Sessionless \cup {"exited"} => chan' # "none"
  /\ chan' = "none" => chan = "none"
  /\ chan' = "closing" => chan = "closing"
  /\ Gone /\ stdin = "done" => Gone'

\* What was removed stays so, whatever is read or typed after it; the last character may yet
\* turn out to be no escape, if it is where one begins.
LEMMA RemovedStays ==
  ASSUME pos \in Nat, pos' \in Nat, pos <= pos', Escaping' = Escaping,
         \A k \in 1 .. pos : typed'[k] = typed[k],
         NEW starts, NEW more, \A k \in Int : k <= pos => (k \in more <=> k \in starts),
         NEW i \in 1 .. pos,
         i = pos /\ Escaping /\ i \in starts => pos' = pos /\ (stdin' = "second" <=> stdin = "second")
  PROVE  Removed(more, i)' <=> Removed(starts, i)
<1>1. typed'[i] = typed[i] /\ (i < pos => typed'[i + 1] = typed[i + 1])
  OBVIOUS
<1>2. (i \in more <=> i \in starts) /\ (i - 1 \in more <=> i - 1 \in starts)
  OBVIOUS
<1>3. CASE ~Escaping
  BY <1>3 DEF Removed
<1>4. CASE Escaping /\ i \notin starts
  BY <1>1, <1>2, <1>4 DEF Removed
<1>5. CASE Escaping /\ i < pos
  <2>1. i < pos'
    BY <1>5
  <2>2. QED
    BY <1>1, <1>2, <1>5, <2>1 DEF Removed
<1>6. CASE Escaping /\ i = pos /\ i \in starts
  BY <1>1, <1>2, <1>6 DEF Removed
<1>7. QED
  BY <1>3, <1>4, <1>5, <1>6

\* An escape may begin at the next character; it changes nothing before that.
LEMMA NextMayBegin ==
  ASSUME NEW n \in Nat, n = pos, pos' = n + 1, typed' = typed,
         NEW starts \in SUBSET (1 .. n), EscapesBegin(starts)
  PROVE  \E more \in SUBSET (1 .. n + 1) :
           /\ EscapesBegin(more)'
           /\ \A k \in Int : k <= n => (k \in more <=> k \in starts)
           /\ n + 1 \in more <=> typed[n + 1] = "esc" /\ (n = 0 \/ (typed[n] = "nl" /\ n - 1 \notin starts))
<1>1. PICK begins \in BOOLEAN :
        begins <=> typed[n + 1] = "esc" /\ (n = 0 \/ (typed[n] = "nl" /\ n - 1 \notin starts))
  OBVIOUS
<1>2. PICK more \in SUBSET (1 .. n + 1) : more = starts \cup {k \in {n + 1} : begins}
  <2>1. 1 .. n \subseteq 1 .. n + 1 /\ n + 1 \in 1 .. n + 1
    OBVIOUS
  <2>2. starts \cup {k \in {n + 1} : begins} \in SUBSET (1 .. n + 1)
    BY <2>1
  <2>3. QED
    BY <2>2
<1>3. \A k \in Int : k <= n => (k \in more <=> k \in starts)
  BY <1>2
<1>4. n + 1 \in more <=> begins
  BY <1>2
<1>5. ASSUME NEW i \in 1 .. n + 1
      PROVE  i \in more <=> typed[i] = "esc" /\ (i = 1 \/ (typed[i - 1] = "nl" /\ i - 2 \notin more))
  <2>1. i - 2 \in more <=> i - 2 \in starts
    BY <1>3
  <2>2. CASE i = n + 1
    <3>1. i - 1 = n /\ i - 2 = n - 1 /\ (i = 1 <=> n = 0)
      BY <2>2
    <3>2. QED
      BY <1>1, <1>4, <2>1, <2>2, <3>1
  <2>3. CASE i # n + 1
    <3>1. i \in 1 .. n
      BY <2>3
    <3>2. i \in more <=> i \in starts
      BY <1>3, <3>1
    <3>3. QED
      BY <2>1, <3>1, <3>2 DEF EscapesBegin
  <2>4. QED
    BY <2>2, <2>3
<1>6. EscapesBegin(more)'
  BY <1>5 DEF EscapesBegin
<1>7. QED
  BY <1>1, <1>3, <1>4, <1>6

\* One more character is kept, from a place behind the others.
LEMMA OneMoreIsKept ==
  ASSUME NEW out \in Seq(Chars), NEW p \in Nat \ {0}, NEW kept \in [1 .. Len(out) -> 1 .. p - 1],
         ReadAt(kept, out), typed[p] \in Chars
  PROVE  \E more \in [1 .. Len(out) + 1 -> 1 .. p] :
           /\ ReadAt(more, Append(out, typed[p]))
           /\ \A j \in 1 .. Len(out) : more[j] = kept[j]
           /\ more[Len(out) + 1] = p
<1> DEFINE more == [j \in 1 .. Len(out) + 1 |-> IF j <= Len(out) THEN kept[j] ELSE p]
<1>0. Len(out) \in Nat
  OBVIOUS
<1>1. more \in [1 .. Len(out) + 1 -> 1 .. p]
  BY <1>0
<1>2. \A j \in 1 .. Len(out) : more[j] = kept[j]
  BY <1>0
<1>3. more[Len(out) + 1] = p
  BY <1>0
<1>4. \A j \in 1 .. Len(out) : Append(out, typed[p])[j] = out[j]
  OBVIOUS
<1>5. Append(out, typed[p])[Len(out) + 1] = typed[p]
  OBVIOUS
<1>6. ReadAt(more, Append(out, typed[p]))
  <2> HIDE DEF more
  <2>1. DOMAIN more = 1 .. Len(out) + 1 /\ DOMAIN kept = 1 .. Len(out)
    BY <1>1
  <2>2. \A j \in 1 .. Len(out) + 1 : j \in 1 .. Len(out) \/ j = Len(out) + 1
    BY <1>0
  <2>3. \A j, k \in 1 .. Len(out) + 1 : j < k => more[j] < more[k]
    BY <1>0, <1>2, <1>3, <2>2, <2>1 DEF ReadAt
  <2>4. \A j \in 1 .. Len(out) + 1 : Append(out, typed[p])[j] = typed[more[j]]
    BY <1>2, <1>3, <1>4, <1>5, <2>1, <2>2 DEF ReadAt
  <2>5. QED
    BY <2>1, <2>3, <2>4 DEF ReadAt
<1>7. QED
  BY <1>1, <1>2, <1>3, <1>6

\* Who does not copy stdin does not disturb what is kept.
LEMMA AsideKeeps ==
  ASSUME InputInv, Aside, TypeOK'
  PROVE  InputInv'
<1>1. /\ pos \in Nat /\ UNCHANGED <<stdin, pos, atStart, hand, sent>>
      /\ \A i \in 1 .. pos : typed'[i] = typed[i]
  BY DEF InputInv, TypeOK, Aside, copyVars
<1>2. Copying'
  BY DEF Aside, InputInv, Copying, copyVars
<1>3. PICK starts \in SUBSET (1 .. pos) :
        Escaped(starts) /\ \E kept \in [1 .. Len(sent \o hand) -> 1 .. pos] : Filtered(starts, kept)
  BY DEF InputInv, Kept
<1>4. PICK kept \in [1 .. Len(sent \o hand) -> 1 .. pos] : Filtered(starts, kept)
  BY <1>3
<1>5. EscapesBegin(starts)'
  BY <1>1, <1>3 DEF Escaped, EscapesBegin
<1>6. ReadAt(kept, sent \o hand)'
  <2>1. \A j \in DOMAIN kept : typed'[kept[j]] = typed[kept[j]]
    BY <1>1
  <2>2. QED
    BY <1>1, <1>4, <2>1 DEF Filtered, ReadAt
<1>7. CASE stdin = "none"
  <2>1. pos = 0 /\ atStart /\ pos \notin starts
    BY <1>7 DEF InputInv, Copying
  <2>2. Escaped(starts)'
    BY <1>1, <1>5, <1>7 DEF Escaped
  <2>3. Filtered(starts, kept)'
    BY <1>1, <1>6, <2>1 DEF Filtered
  <2>4. QED
    BY <1>1, <1>2, <2>2, <2>3 DEF InputInv, Kept
<1>8. CASE stdin # "none"
  <2>1. Escaping' = Escaping
    BY <1>8 DEF Aside
  <2>2. Escaped(starts)'
    <3>1. pos \in starts /\ eof /\ pos = Len(typed) => eof' /\ pos' = Len(typed')
      BY <1>1 DEF Aside
    <3>2. pos # 0 => typed'[pos] = typed[pos]
      BY <1>1
    <3>3. QED
      BY <1>1, <1>3, <1>5, <2>1, <3>1, <3>2 DEF Escaped
  <2>3. \A i \in 1 .. pos : Removed(starts, i)' <=> Removed(starts, i)
    BY <1>1, <2>1, RemovedStays
  <2>4. Filtered(starts, kept)'
    BY <1>1, <1>4, <1>6, <2>3 DEF Filtered, SentUnlessRemoved, Aside
  <2>5. QED
    BY <1>1, <1>2, <2>2, <2>4 DEF InputInv, Kept
<1>9. QED
  BY <1>7, <1>8

LEMMA OthersAreAside ==
  ASSUME InputInv,
         \/ Alone \/ Answered \/ Refused \/ \E f \in DOMAIN Forwards : Forwarding(f)
         \/ SignalForwarded \/ Outside,
         ~StartCopy
  PROVE  Aside
<1>0. at \in Unread => stdin = "none"
  BY DEF InputInv, Copying
<1>1. CASE \/ BuildConfig \/ Dial \/ DialFails \/ PostConnect \/ NoSession \/ IdleEnds
           \/ NoPty \/ NoAgent \/ SetupTerminal \/ Notify \/ WaitReturns
  BY <1>0, <1>1 DEF BuildConfig, Dial, DialFails, PostConnect, NoSession, IdleEnds, NoPty, NoAgent,
     SetupTerminal, Notify, WaitReturns, Goes, Fails, Exit, Aside, InputInv, Copying, Gone, Escaping,
     Unread, Cooked, Sessionless, Unconnected, sessVars, ioVars, copyVars
<1>2. CASE Answered
  BY <1>0, <1>2 DEF Answered, Authenticate, CheckHostKey, CommandEnds, OpenSession, PtyGranted,
     AgentForwarded, StartProgram, Goes, Fails, Exit, Aside, InputInv, Copying, Gone, Escaping,
     Unread, Cooked, Sessionless, Unconnected, sessVars, ioVars, copyVars
<1>3. CASE Refused
  BY <1>3 DEF Refused, HandshakeFails, StdioEnds, StdioFails, SessionFails, PtyRefused, AgentFails,
     StartRefused, Goes, Fails, Exit, Aside, InputInv, Copying, Gone, Escaping,
     Unread, Cooked, Sessionless, Unconnected, sessVars, ioVars, copyVars
<1>4. CASE \/ SignalForwarded \/ \E f \in DOMAIN Forwards : Forwarding(f)
  BY <1>4 DEF SignalForwarded, Forwarding, Forward, ForwardFails, Aside, InputInv, Copying, Gone, Escaping,
     mainVars, sessVars, ioVars, copyVars
<1>5. ASSUME NEW ch \in Chars, Type(ch) PROVE Aside
  <2>1. \A i \in 1 .. pos : typed'[i] = typed[i]
    BY <1>5 DEF Type, InputInv, TypeOK
  <2>2. QED
    BY <1>5, <2>1 DEF Type, Aside, InputInv, Copying, Gone, Escaping, mainVars, sessVars
<1>6. CASE Outside /\ ~\E ch \in Chars : Type(ch)
  BY <1>6 DEF Outside, Killed, SignalArrives, TypeEnds, StdoutSticks, StdoutFails, LinkLost,
     ServerReads, ServerCloses, ServerReports, Exit, Aside, InputInv, Copying, Gone, Escaping,
     Unread, Cooked, Sessionless, Unconnected, mainVars, sessVars, ioVars, copyVars
<1>7. QED
  BY <1>1, <1>2, <1>3, <1>4, <1>5, <1>6 DEF Alone

\* Nothing was read before stdin is copied.
LEMMA StartKeeps ==
  ASSUME InputInv, StartCopy, TypeOK'
  PROVE  InputInv'
<1>1. pos = 0 /\ at = "raw" /\ hand = <<>> /\ sent = <<>> /\ atStart /\ UNCHANGED <<pos, hand, sent, atStart>>
  BY DEF InputInv, Copying, StartCopy, Goes, Unread
<1>2. Copying'
  BY <1>1 DEF StartCopy, Goes, InputInv, Copying, Unread, Cooked, Sessionless, Unconnected
<1>3. Escaped({})'
  BY <1>1 DEF Escaped, EscapesBegin, StartCopy
<1>4. sent' \o hand' = <<>> /\ <<>> \in [1 .. Len(sent' \o hand') -> 1 .. pos']
  BY <1>1
<1>5. Filtered({}, <<>>)'
  BY <1>1, <1>4 DEF Filtered, ReadAt
<1>6. QED
  BY <1>2, <1>3, <1>4, <1>5 DEF InputInv, Kept

\* What is kept of a character, when the goroutine has nothing in its hands.
LEMMA ReadInputKeeps ==
  ASSUME InputInv, ReadInput, TypeOK'
  PROVE  InputInv'
<1> DEFINE b == typed[pos + 1]
<1>1. /\ pos \in Nat /\ pos' = pos + 1 /\ pos' \in Nat /\ stdin = "reading" /\ hand = <<>>
      /\ typed' = typed /\ sent' = sent /\ sent \in Seq(Chars) /\ pos + 1 \in 1 .. Len(typed)
      /\ Escaping' = Escaping
  BY DEF InputInv, TypeOK, Copying, ReadInput, Escaping, sessVars
<1>2. b \in Chars /\ sent \o hand = sent /\ sent \o <<b>> = Append(sent, b)
  BY <1>1 DEF InputInv, TypeOK
<1>3. PICK starts \in SUBSET (1 .. pos) :
        Escaped(starts) /\ \E kept \in [1 .. Len(sent) -> 1 .. pos] : Filtered(starts, kept)
  BY <1>1, <1>2 DEF InputInv, Kept
<1>4. PICK kept \in [1 .. Len(sent) -> 1 .. pos] : Filtered(starts, kept)
  BY <1>3
<1>5. /\ EscapesBegin(starts)
      /\ Escaping => pos \notin starts /\ (atStart <=> pos = 0 \/ (typed[pos] = "nl" /\ pos - 1 \notin starts))
  BY <1>1, <1>3 DEF Escaped
<1>6. PICK n \in Nat : n = pos
  BY <1>1
<1>7. PICK more \in SUBSET (1 .. n + 1) :
        /\ EscapesBegin(more)'
        /\ \A k \in Int : k <= n => (k \in more <=> k \in starts)
        /\ n + 1 \in more <=> b = "esc" /\ (n = 0 \/ (typed[n] = "nl" /\ n - 1 \notin starts))
  <2>1. n = pos /\ pos' = n + 1 /\ typed' = typed /\ starts \in SUBSET (1 .. n)
    BY <1>1, <1>6
  <2>2. QED
    BY <1>5, <1>6, <2>1, NextMayBegin
<1>8. \A i \in 1 .. pos : Removed(more, i)' <=> Removed(starts, i)
  BY <1>1, <1>5, <1>6, <1>7, RemovedStays
<1>9. ReadAt(kept, sent) /\ \A i \in 1 .. pos : SentUnlessRemoved(starts, kept, i)
  BY <1>2, <1>4 DEF Filtered
<1>10. CASE stdin' = "second"
  <2>1. hand' = <<>> /\ Escaping /\ b = "esc" /\ atStart /\ ~atStart'
    BY <1>1, <1>10 DEF ReadInput, Hold
  <2>2. Copying'
    BY <1>1, <1>10, <2>1 DEF ReadInput, InputInv, Copying, mainVars, sessVars
  <2>3. n + 1 \in more /\ pos' = n + 1
    BY <1>1, <1>5, <1>6, <1>7, <2>1
  <2>4. Escaped(more)'
    BY <1>1, <1>7, <1>10, <2>1, <2>3 DEF Escaped
  <2>5. Removed(more, n + 1)'
    BY <1>1, <1>10, <2>1, <2>3 DEF Removed
  <2>6. ASSUME NEW i \in 1 .. n + 1 PROVE SentUnlessRemoved(more, kept, i)'
    <3>1. CASE i = n + 1
      <4>1. \A j \in DOMAIN kept : kept[j] # i
        BY <1>1, <1>6, <3>1
      <4>2. QED
        BY <2>5, <3>1, <4>1 DEF SentUnlessRemoved
    <3>2. CASE i # n + 1
      <4>1. i \in 1 .. pos
        BY <1>1, <1>6, <3>2
      <4>2. QED
        BY <1>1, <1>8, <1>9, <4>1 DEF SentUnlessRemoved
    <3>3. QED
      BY <3>1, <3>2
  <2>7. ReadAt(kept, sent \o hand)' /\ sent' \o hand' = sent
    BY <1>1, <1>2, <1>9, <2>1 DEF ReadAt
  <2>8. Filtered(more, kept)'
    BY <1>1, <1>6, <2>6, <2>7 DEF Filtered
  <2>9. kept \in [1 .. Len(sent' \o hand') -> 1 .. pos']
    BY <1>1, <2>7
  <2>10. QED
    BY <1>1, <1>6, <1>7, <2>2, <2>4, <2>8, <2>9 DEF InputInv, Kept
<1>11. CASE stdin' # "second"
  <2>1. /\ stdin' = "writing" /\ hand' = <<b>> /\ (atStart' <=> b = "nl")
        /\ ~(Escaping /\ atStart /\ b = "esc")
    BY <1>11 DEF ReadInput, Hold
  <2>2. Copying'
    BY <1>1, <2>1 DEF ReadInput, InputInv, Copying, mainVars, sessVars
  <2>3. PICK longer \in [1 .. Len(sent) + 1 -> 1 .. pos + 1] :
          /\ ReadAt(longer, Append(sent, b))
          /\ \A j \in 1 .. Len(sent) : longer[j] = kept[j]
          /\ longer[Len(sent) + 1] = pos + 1
    <3>1. pos + 1 \in Nat \ {0} /\ kept \in [1 .. Len(sent) -> 1 .. (pos + 1) - 1]
      BY <1>1
    <3>2. sent \in Seq(Chars) /\ typed[pos + 1] \in Chars /\ ReadAt(kept, sent)
      BY <1>1, <1>2, <1>9
    <3>3. QED
      BY <3>1, <3>2, OneMoreIsKept
  <2>4. pos' = n + 1 /\ (Escaping => n + 1 \notin more /\ n \notin more)
    BY <1>1, <1>5, <1>6, <1>7, <2>1
  <2>5. Escaped(more)'
    BY <1>1, <1>6, <1>7, <2>1, <2>4 DEF Escaped
  <2>6. ~Removed(more, n + 1)'
    BY <1>1, <2>4 DEF Removed
  <2>7. ASSUME NEW i \in 1 .. n + 1 PROVE SentUnlessRemoved(more, longer, i)'
    <3>1. CASE i = n + 1
      <4>1. \E j \in DOMAIN longer : longer[j] = i
        BY <1>1, <1>6, <2>3, <3>1
      <4>2. QED
        BY <2>6, <3>1, <4>1 DEF SentUnlessRemoved
    <3>2. CASE i # n + 1
      <4>1. i \in 1 .. pos
        BY <1>1, <1>6, <3>2
      <4>2. (\E j \in DOMAIN longer : longer[j] = i) <=> (\E j \in DOMAIN kept : kept[j] = i)
        BY <1>1, <2>3, <4>1
      <4>3. QED
        BY <1>1, <1>8, <1>9, <4>1, <4>2 DEF SentUnlessRemoved
    <3>3. QED
      BY <3>1, <3>2
  <2>8. sent' \o hand' = Append(sent, b)
    BY <1>1, <1>2, <2>1
  <2>9. Filtered(more, longer)'
    BY <1>1, <1>6, <2>3, <2>7, <2>8 DEF Filtered, ReadAt
  <2>10. longer \in [1 .. Len(sent' \o hand') -> 1 .. pos']
    BY <1>1, <1>2, <2>3, <2>8
  <2>11. QED
    BY <1>1, <1>6, <1>7, <2>2, <2>5, <2>9, <2>10 DEF InputInv, Kept
<1>12. QED
  BY <1>10, <1>11

\* ... when it has an escape character that it may have to send after all.
LEMMA ReadSecondKeeps ==
  ASSUME InputInv, ReadSecond, TypeOK'
  PROVE  InputInv'
<1> DEFINE b == typed[pos + 1]
<1>0. /\ stdin = "second" /\ pos' = pos + 1 /\ UNCHANGED <<typed, sent, atStart, eof>> /\ pos < Len(typed)
      /\ Escaping' = Escaping /\ at' = at
  BY DEF ReadSecond, Escaping, mainVars
<1>1. /\ pos \in Nat /\ pos' \in Nat /\ hand = <<>> /\ sent \in Seq(Chars) /\ pos + 1 \in 1 .. Len(typed)
  BY <1>0 DEF InputInv, TypeOK, Copying
<1>2. b \in Chars /\ "esc" \in Chars /\ sent \o hand = sent
  BY <1>1 DEF InputInv, TypeOK, Chars
<1>3. PICK starts \in SUBSET (1 .. pos) :
        Escaped(starts) /\ \E kept \in [1 .. Len(sent) -> 1 .. pos] : Filtered(starts, kept)
  BY <1>1, <1>2 DEF InputInv, Kept
<1>4. PICK kept \in [1 .. Len(sent) -> 1 .. pos] : Filtered(starts, kept)
  BY <1>3
<1>5. /\ EscapesBegin(starts) /\ Escaping /\ pos \in starts /\ ~atStart /\ ~atStart'
      /\ pos # 0 /\ typed[pos] = "esc"
  BY <1>0, <1>1, <1>3 DEF Escaped, EscapesBegin
<1>6. PICK n \in Nat : n = pos
  BY <1>1
<1>7. EscapesBegin(starts)' /\ starts \in SUBSET (1 .. pos') /\ n + 1 \notin starts /\ pos' = n + 1
  <2>1. n = pos /\ pos' = n + 1 /\ typed' = typed /\ starts \in SUBSET (1 .. n)
    BY <1>0, <1>6
  <2>2. PICK more \in SUBSET (1 .. n + 1) :
          /\ EscapesBegin(more)'
          /\ \A k \in Int : k <= n => (k \in more <=> k \in starts)
          /\ n + 1 \in more <=> typed[n + 1] = "esc" /\ (n = 0 \/ (typed[n] = "nl" /\ n - 1 \notin starts))
    BY <1>5, <2>1, NextMayBegin
  <2>3. n + 1 \notin more
    BY <1>5, <1>6, <2>2
  <2>4. more = starts
    <3>1. \A k \in 1 .. n + 1 : k \in more <=> k \in starts
      BY <2>1, <2>2, <2>3
    <3>2. starts \subseteq 1 .. n + 1
      BY <2>1
    <3>3. QED
      BY <3>1, <3>2
  <2>5. QED
    BY <2>1, <2>2, <2>3, <2>4
<1>8. ReadAt(kept, sent) /\ \A i \in 1 .. pos : SentUnlessRemoved(starts, kept, i)
  BY <1>2, <1>4 DEF Filtered
<1>9. \A j \in DOMAIN kept : kept[j] # pos
  <2>1. Removed(starts, pos)
    BY <1>0, <1>5 DEF Removed
  <2>2. QED
    BY <1>1, <1>5, <1>6, <1>8, <2>1 DEF SentUnlessRemoved
<1>10. \A i \in 1 .. pos - 1 : Removed(starts, i)' <=> Removed(starts, i)
  BY <1>0, <1>1, RemovedStays
<1>11. Removed(starts, n)' <=> b \in {"dot", "help", "esc"}
  BY <1>0, <1>1, <1>5, <1>6, <1>7 DEF Removed
<1>12. Removed(starts, n + 1)' <=> b \in {"dot", "help"}
  BY <1>0, <1>1, <1>5, <1>6, <1>7 DEF Removed
<1>13. /\ stdin' \in {"reading", "writing"} \cup (IF b = "dot" THEN {"done"} ELSE {})
       /\ stdin' = "reading" => b = "help"
       /\ stdin' # "writing" => hand' = <<>>
  BY <1>1 DEF ReadSecond, CloseSession, Hold
<1>14. Copying'
  <2>1. chan' = chan \/ (chan' = "closing" /\ stdin' = "done")
    BY DEF ReadSecond, CloseSession, Hold
  <2>2. QED
    BY <1>0, <1>6, <1>13, <2>1 DEF InputInv, Copying
<1>15. Escaped(starts)'
  BY <1>0, <1>1, <1>5, <1>6, <1>7, <1>13 DEF Escaped
<1>16. CASE b \in {"dot", "help"}
  <2>1. hand' = <<>>
    BY <1>1, <1>16 DEF ReadSecond, CloseSession
  <2>2. ASSUME NEW i \in 1 .. n + 1 PROVE SentUnlessRemoved(starts, kept, i)'
    <3>1. CASE i \in {n, n + 1}
      <4>1. \A j \in DOMAIN kept : kept[j] # i
        BY <1>1, <1>6, <1>9, <3>1
      <4>2. QED
        BY <1>6, <1>11, <1>12, <1>16, <3>1, <4>1 DEF SentUnlessRemoved
    <3>2. CASE i \in 1 .. n - 1
      BY <1>0, <1>1, <1>6, <1>8, <1>10, <3>2 DEF SentUnlessRemoved
    <3>3. QED
      BY <1>1, <1>6, <3>1, <3>2
  <2>3. sent' \o hand' = sent
    BY <1>0, <1>1, <2>1
  <2>4. Filtered(starts, kept)'
    BY <1>0, <1>6, <1>8, <2>2, <2>3 DEF Filtered, ReadAt
  <2>5. kept \in [1 .. Len(sent' \o hand') -> 1 .. pos']
    BY <1>0, <1>1, <2>3
  <2>6. QED
    BY <1>6, <1>7, <1>14, <1>15, <2>4, <2>5 DEF InputInv, Kept
<1>17. kept \in [1 .. Len(sent) -> 1 .. pos - 1]
  BY <1>1, <1>9
<1>18. CASE b = "esc"
  <2>1. hand' = <<"esc">>
    BY <1>18 DEF ReadSecond, Hold
  <2>2. PICK longer \in [1 .. Len(sent) + 1 -> 1 .. pos + 1] :
          /\ ReadAt(longer, Append(sent, b))
          /\ \A j \in 1 .. Len(sent) : longer[j] = kept[j]
          /\ longer[Len(sent) + 1] = pos + 1
    <3>1. pos + 1 \in Nat \ {0} /\ kept \in [1 .. Len(sent) -> 1 .. (pos + 1) - 1]
      BY <1>1
    <3>2. sent \in Seq(Chars) /\ typed[pos + 1] \in Chars /\ ReadAt(kept, sent)
      BY <1>1, <1>2, <1>8
    <3>3. QED
      BY <3>1, <3>2, OneMoreIsKept
  <2>3. sent' \o hand' = Append(sent, b)
    BY <1>0, <1>1, <1>18, <2>1
  <2>4. ASSUME NEW i \in 1 .. n + 1 PROVE SentUnlessRemoved(starts, longer, i)'
    <3>1. CASE i = n + 1
      <4>1. \E j \in DOMAIN longer : longer[j] = i
        BY <1>1, <1>6, <2>2, <3>1
      <4>2. QED
        BY <1>6, <1>12, <1>18, <3>1, <4>1 DEF SentUnlessRemoved
    <3>2. CASE i # n + 1
      <4>1. (\E j \in DOMAIN longer : longer[j] = i) <=> (\E j \in DOMAIN kept : kept[j] = i)
        BY <1>1, <1>6, <2>2, <3>2
      <4>2. CASE i = n
        BY <1>6, <1>9, <1>11, <1>18, <4>1, <4>2 DEF SentUnlessRemoved
      <4>3. CASE i \in 1 .. n - 1
        BY <1>0, <1>1, <1>6, <1>8, <1>10, <4>1, <4>3 DEF SentUnlessRemoved
      <4>4. QED
        BY <1>1, <1>6, <3>2, <4>2, <4>3
    <3>3. QED
      BY <1>6, <3>1, <3>2
  <2>5. Filtered(starts, longer)'
    BY <1>0, <1>6, <2>2, <2>3, <2>4 DEF Filtered, ReadAt
  <2>6. longer \in [1 .. Len(sent' \o hand') -> 1 .. pos']
    BY <1>0, <1>1, <1>2, <2>2, <2>3
  <2>7. QED
    BY <1>6, <1>7, <1>14, <1>15, <2>5, <2>6 DEF InputInv, Kept
<1>19. CASE b \notin {"dot", "help", "esc"}
  <2>1. hand' = <<"esc", b>>
    BY <1>19 DEF ReadSecond, Hold
  <2>2. PICK one \in [1 .. Len(sent) + 1 -> 1 .. pos] :
          /\ ReadAt(one, Append(sent, "esc"))
          /\ \A j \in 1 .. Len(sent) : one[j] = kept[j]
          /\ one[Len(sent) + 1] = pos
    <3>1. pos \in Nat \ {0} /\ sent \in Seq(Chars) /\ typed[pos] \in Chars /\ ReadAt(kept, sent)
      BY <1>1, <1>2, <1>5, <1>8
    <3>2. QED
      BY <1>5, <1>17, <3>1, OneMoreIsKept
  <2>3. Append(sent, "esc") \in Seq(Chars) /\ Len(Append(sent, "esc")) = Len(sent) + 1 /\ Len(sent) \in Nat
    BY <1>1, <1>2
  <2>4. PICK longer \in [1 .. Len(sent) + 1 + 1 -> 1 .. pos + 1] :
          /\ ReadAt(longer, Append(Append(sent, "esc"), b))
          /\ \A j \in 1 .. Len(sent) + 1 : longer[j] = one[j]
          /\ longer[Len(sent) + 1 + 1] = pos + 1
    <3> DEFINE out == Append(sent, "esc")
    <3>1. pos + 1 \in Nat \ {0} /\ one \in [1 .. Len(out) -> 1 .. (pos + 1) - 1]
      BY <1>1, <2>2, <2>3
    <3>2. out \in Seq(Chars) /\ typed[pos + 1] \in Chars /\ ReadAt(one, out)
      BY <1>1, <1>2, <2>2, <2>3
    <3> HIDE DEF out
    <3>3. \E longer \in [1 .. Len(out) + 1 -> 1 .. pos + 1] :
             /\ ReadAt(longer, Append(out, typed[pos + 1]))
             /\ \A j \in 1 .. Len(out) : longer[j] = one[j]
             /\ longer[Len(out) + 1] = pos + 1
      BY <3>1, <3>2, OneMoreIsKept
    <3>4. QED
      BY <1>6, <2>3, <3>3 DEF out
  <2>5. sent' \o hand' = Append(Append(sent, "esc"), b)
    BY <1>0, <1>1, <1>2, <2>1
  <2>6. /\ 1 .. Len(sent) + 1 + 1 = 1 .. Len(sent) \cup {Len(sent) + 1, Len(sent) + 1 + 1}
        /\ \A j \in 1 .. Len(sent) : longer[j] = kept[j]
        /\ longer[Len(sent) + 1] = n /\ longer[Len(sent) + 1 + 1] = n + 1
    <3> DEFINE m == Len(sent)
    <3>1. /\ m \in Nat /\ one[m + 1] = n /\ longer[m + 1 + 1] = n + 1
          /\ \A j \in 1 .. m : one[j] = kept[j]
          /\ \A j \in 1 .. m + 1 : longer[j] = one[j]
      BY <1>6, <2>2, <2>3, <2>4
    <3> HIDE DEF m
    <3>2. 1 .. m + 1 + 1 = 1 .. m \cup {m + 1, m + 1 + 1} /\ 1 .. m \subseteq 1 .. m + 1 /\ m + 1 \in 1 .. m + 1
      BY <3>1
    <3>3. QED
      BY <3>1, <3>2 DEF m
  <2>7. ASSUME NEW i \in 1 .. n + 1 PROVE SentUnlessRemoved(starts, longer, i)'
    <3>1. CASE i \in {n, n + 1}
      <4>1. \E j \in DOMAIN longer : longer[j] = i
        BY <2>4, <2>6, <3>1
      <4>2. QED
        BY <1>6, <1>11, <1>12, <1>19, <3>1, <4>1 DEF SentUnlessRemoved
    <3>2. CASE i \in 1 .. n - 1
      <4>1. (\E j \in DOMAIN longer : longer[j] = i) <=> (\E j \in DOMAIN kept : kept[j] = i)
        BY <2>4, <2>6, <3>2
      <4>2. QED
        BY <1>0, <1>1, <1>6, <1>8, <1>10, <3>2, <4>1 DEF SentUnlessRemoved
    <3>3. QED
      BY <1>1, <1>6, <3>1, <3>2
  <2>8. Filtered(starts, longer)'
    BY <1>0, <1>6, <2>4, <2>5, <2>7 DEF Filtered, ReadAt
  <2>9. longer \in [1 .. Len(sent' \o hand') -> 1 .. pos']
    BY <1>0, <1>1, <2>3, <2>4, <2>5
  <2>10. QED
    BY <1>6, <1>7, <1>14, <1>15, <2>8, <2>9 DEF InputInv, Kept
<1>20. QED
  BY <1>16, <1>18, <1>19

\* A lone escape character is kept after all.
LEMMA InputEndsKeeps ==
  ASSUME InputInv, InputEnds, TypeOK'
  PROVE  InputInv'
<1>1. /\ pos \in Nat /\ pos' = pos /\ hand = <<>> /\ UNCHANGED <<typed, eof, sent, atStart, chan, link, at>>
      /\ sent \in Seq(Chars) /\ pos \in 0 .. Len(typed) /\ Escaping' = Escaping
  BY DEF InputInv, TypeOK, Copying, InputEnds, Hold, Escaping, mainVars, sessVars
<1>2. sent \o <<>> = sent
  BY <1>1
<1>3. PICK starts \in SUBSET (1 .. pos) :
        Escaped(starts) /\ \E kept \in [1 .. Len(sent) -> 1 .. pos] : Filtered(starts, kept)
  BY <1>1, <1>2 DEF InputInv, Kept
<1>4. PICK kept \in [1 .. Len(sent) -> 1 .. pos] : Filtered(starts, kept)
  BY <1>3
<1>5. EscapesBegin(starts)'
  BY <1>1, <1>3 DEF Escaped, EscapesBegin
<1>6. ReadAt(kept, sent) /\ \A i \in 1 .. pos : SentUnlessRemoved(starts, kept, i)
  BY <1>1, <1>2, <1>4 DEF Filtered
<1>7. CASE stdin = "reading"
  <2>1. stdin' = "done" /\ hand' = <<>>
    BY <1>1, <1>7 DEF InputEnds, Hold
  <2>2. Copying'
    BY <1>1, <1>7, <2>1 DEF InputInv, Copying
  <2>3. Escaped(starts)'
    BY <1>5, <2>1 DEF Escaped
  <2>4. \A i \in 1 .. pos : Removed(starts, i)' <=> Removed(starts, i)
    BY <1>1, <1>7, <2>1, RemovedStays
  <2>5. Filtered(starts, kept)'
    BY <1>1, <1>2, <1>6, <1>7, <2>1, <2>4 DEF Filtered, ReadAt, SentUnlessRemoved
  <2>6. QED
    BY <1>1, <1>2, <2>1, <2>2, <2>3, <2>5 DEF InputInv, Kept
<1>8. CASE stdin = "second"
  <2>1. stdin' = "writing" /\ hand' = <<"esc">>
    BY <1>8 DEF InputEnds, Hold
  <2>2. Escaping /\ pos \in starts /\ ~atStart /\ pos # 0 /\ typed[pos] = "esc"
    BY <1>1, <1>3, <1>8 DEF Escaped, EscapesBegin
  <2>3. eof /\ pos = Len(typed)
    BY <2>2 DEF InputEnds, Escaping
  <2>4. Copying'
    BY <1>1, <1>8, <2>1 DEF InputInv, Copying
  <2>5. Escaped(starts)'
    BY <1>1, <1>5, <2>1, <2>2, <2>3 DEF Escaped
  <2>6. \A j \in DOMAIN kept : kept[j] # pos
    <3>1. Removed(starts, pos)
      BY <1>8, <2>2 DEF Removed
    <3>2. QED
      BY <1>1, <1>6, <2>2, <3>1 DEF SentUnlessRemoved
  <2>7. PICK longer \in [1 .. Len(sent) + 1 -> 1 .. pos] :
          /\ ReadAt(longer, Append(sent, "esc"))
          /\ \A j \in 1 .. Len(sent) : longer[j] = kept[j]
          /\ longer[Len(sent) + 1] = pos
    <3>1. pos \in Nat \ {0} /\ kept \in [1 .. Len(sent) -> 1 .. pos - 1]
      BY <1>1, <2>2, <2>6
    <3>2. sent \in Seq(Chars) /\ typed[pos] \in Chars /\ ReadAt(kept, sent)
      BY <1>1, <1>6, <2>2 DEF Chars
    <3>3. QED
      BY <2>2, <3>1, <3>2, OneMoreIsKept
  <2>8. sent' \o hand' = Append(sent, "esc") /\ Len(sent' \o hand') = Len(sent) + 1
    BY <1>1, <2>1
  <2>9. \A i \in 1 .. pos - 1 : Removed(starts, i)' <=> Removed(starts, i)
    BY <1>1, RemovedStays
  <2>10. ASSUME NEW i \in 1 .. pos, i = pos PROVE ~Removed(starts, i)'
    BY <1>1, <2>1, <2>2, <2>10 DEF Removed
  <2>11. ASSUME NEW i \in 1 .. pos PROVE SentUnlessRemoved(starts, longer, i)'
    <3>1. CASE i = pos
      <4>1. \E j \in DOMAIN longer : longer[j] = i
        BY <1>1, <2>7, <3>1
      <4>2. QED
        BY <2>10, <3>1, <4>1 DEF SentUnlessRemoved
    <3>2. CASE i \in 1 .. pos - 1
      <4>1. (\E j \in DOMAIN longer : longer[j] = i) <=> (\E j \in DOMAIN kept : kept[j] = i)
        BY <1>1, <2>7, <3>2
      <4>2. QED
        BY <1>1, <1>6, <1>8, <2>9, <3>2, <4>1 DEF SentUnlessRemoved
    <3>3. QED
      BY <1>1, <3>1, <3>2
  <2>12. Filtered(starts, longer)'
    BY <1>1, <2>7, <2>8, <2>11 DEF Filtered, ReadAt
  <2>13. QED
    BY <1>1, <2>4, <2>5, <2>7, <2>8, <2>12 DEF InputInv, Kept
<1>9. QED
  BY <1>7, <1>8 DEF InputEnds

LEMMA WriteInputKeeps ==
  ASSUME InputInv, WriteInput, TypeOK'
  PROVE  InputInv'
<1>1. /\ UNCHANGED <<pos, typed, eof, atStart, chan, link, at>> /\ stdin = "writing" /\ stdin' = "reading"
      /\ hand' = <<>> /\ sent' = sent \o hand /\ chan = "open" /\ pos \in Nat /\ Escaping' = Escaping
  BY DEF WriteInput, mainVars, sessVars, InputInv, TypeOK, Escaping
<1>2. sent' \o hand' = sent \o hand
  BY <1>1 DEF InputInv, TypeOK
<1>3. PICK starts \in SUBSET (1 .. pos) :
        Escaped(starts) /\ \E kept \in [1 .. Len(sent \o hand) -> 1 .. pos] : Filtered(starts, kept)
  BY DEF InputInv, Kept
<1>4. PICK kept \in [1 .. Len(sent \o hand) -> 1 .. pos] : Filtered(starts, kept)
  BY <1>3
<1>5. Escaped(starts)'
  BY <1>1, <1>3 DEF Escaped, EscapesBegin
<1>6. \A i \in 1 .. pos : Removed(starts, i)' <=> Removed(starts, i)
  BY <1>1, RemovedStays
<1>7. Filtered(starts, kept)'
  BY <1>1, <1>2, <1>4, <1>6 DEF Filtered, ReadAt, SentUnlessRemoved
<1>8. Copying'
  BY <1>1 DEF InputInv, Copying
<1>9. QED
  BY <1>1, <1>2, <1>5, <1>7, <1>8 DEF InputInv, Kept

\* What is lost was read last.
LEMMA WriteFailsKeeps ==
  ASSUME InputInv, WriteFails, TypeOK'
  PROVE  InputInv'
<1>1. /\ UNCHANGED <<pos, typed, atStart, chan, link, at, sent>> /\ stdin = "writing" /\ stdin' = "done"
      /\ hand' = <<>> /\ sent \in Seq(Chars) /\ hand \in Seq(Chars) /\ pos \in Nat /\ Escaping' = Escaping
  BY DEF WriteFails, mainVars, sessVars, InputInv, TypeOK, Escaping
<1>2. Gone'
  BY <1>1 DEF WriteFails, Gone, InputInv, Copying, TypeOK
<1>3. PICK starts \in SUBSET (1 .. pos) :
        Escaped(starts) /\ \E kept \in [1 .. Len(sent \o hand) -> 1 .. pos] : Filtered(starts, kept)
  BY DEF InputInv, Kept
<1>4. PICK kept \in [1 .. Len(sent \o hand) -> 1 .. pos] : Filtered(starts, kept)
  BY <1>3
<1>5. /\ Len(sent \o hand) = Len(sent) + Len(hand) /\ sent \o <<>> = sent
      /\ \A j \in 1 .. Len(sent) : (sent \o hand)[j] = sent[j]
  BY <1>1
<1>6. 1 .. Len(sent) \subseteq 1 .. Len(sent \o hand)
  BY <1>1, <1>5
<1>7. PICK fewer \in [1 .. Len(sent) -> 1 .. pos] : \A j \in 1 .. Len(sent) : fewer[j] = kept[j]
  <2>1. [j \in 1 .. Len(sent) |-> kept[j]] \in [1 .. Len(sent) -> 1 .. pos]
    BY <1>4, <1>6
  <2>2. QED
    BY <2>1
<1>8. ReadAt(fewer, sent)
  BY <1>4, <1>5, <1>6, <1>7 DEF Filtered, ReadAt
<1>9. ASSUME NEW k \in 1 .. Len(sent \o hand)
      PROVE  (\E j \in DOMAIN fewer : fewer[j] = kept[k]) \/ \A j \in DOMAIN fewer : fewer[j] < kept[k]
  <2>1. CASE k <= Len(sent)
    BY <1>1, <1>7, <2>1
  <2>2. CASE k > Len(sent)
    <3>1. ASSUME NEW j \in 1 .. Len(sent) PROVE kept[j] < kept[k]
      <4>1. j \in DOMAIN kept /\ k \in DOMAIN kept
        BY <1>4, <1>6
      <4>2. j < k
        BY <1>1, <1>5, <2>2
      <4>3. QED
        BY <1>4, <4>1, <4>2 DEF Filtered, ReadAt
    <3>2. QED
      BY <1>7, <3>1
  <2>3. QED
    BY <1>1, <1>5, <2>1, <2>2
<1>10. \A i \in 1 .. pos : Removed(starts, i)' <=> Removed(starts, i)
  BY <1>1, RemovedStays
<1>11. ASSUME NEW i \in 1 .. pos PROVE SentUnlessRemoved(starts, fewer, i)'
  <2>1. SentUnlessRemoved(starts, kept, i)
    BY <1>4 DEF Filtered
  <2>2. CASE Removed(starts, i)
    <3>1. \A j \in DOMAIN kept : kept[j] # i
      BY <2>1, <2>2 DEF SentUnlessRemoved
    <3>2. \A j \in DOMAIN fewer : fewer[j] # i
      BY <1>6, <1>7, <3>1
    <3>3. QED
      BY <1>10, <2>2, <3>2 DEF SentUnlessRemoved
  <2>3. CASE ~Removed(starts, i)
    <3>1. \E k \in 1 .. Len(sent \o hand) : kept[k] = i
      BY <1>1, <2>1, <2>3 DEF SentUnlessRemoved
    <3>2. (\E j \in DOMAIN fewer : fewer[j] = i) \/ \A j \in DOMAIN fewer : fewer[j] < i
      BY <1>9, <3>1
    <3>3. QED
      BY <1>1, <1>2, <1>10, <2>3, <3>2 DEF SentUnlessRemoved
  <2>4. QED
    BY <2>2, <2>3
<1>12. sent' \o hand' = sent
  BY <1>1, <1>5
<1>13. Filtered(starts, fewer)'
  BY <1>1, <1>8, <1>11, <1>12 DEF Filtered, ReadAt
<1>14. Escaped(starts)'
  BY <1>1, <1>3 DEF Escaped, EscapesBegin
<1>15. Copying'
  BY <1>1 DEF InputInv, Copying
<1>16. QED
  BY <1>1, <1>7, <1>12, <1>13, <1>14, <1>15 DEF InputInv, Kept

\* escape.go:41-105: for anything typed, in any pieces, and any way for the session to end, what
\* the server gets is what was typed, in order, with all of the escapes removed and nothing else.
THEOREM InputsAreFiltered == Spec => []InputIsFiltered
<1>1. Init => Copying /\ Kept
  <2> SUFFICES ASSUME Init PROVE Copying /\ Kept
    OBVIOUS
  <2>1. Copying
    BY DEF Init, Copying, Sessionless, Unconnected
  <2>2. pos = 0 /\ sent \o hand = <<>> /\ stdin = "none"
    BY DEF Init
  <2>3. Escaped({})
    BY <2>2 DEF Escaped, EscapesBegin
  <2>4. <<>> \in [1 .. Len(sent \o hand) -> 1 .. pos] /\ Filtered({}, <<>>)
    BY <2>2 DEF Filtered, ReadAt
  <2>5. QED
    BY <2>1, <2>3, <2>4 DEF Kept
<1>2. InputInv /\ TypeOK' /\ [Next]_vars => InputInv'
  <2> SUFFICES ASSUME InputInv, TypeOK', [Next]_vars PROVE InputInv'
    OBVIOUS
  <2>1. CASE UNCHANGED vars
    <3>1. Aside
      BY <2>1 DEF Aside, InputInv, Copying, vars, mainVars, sessVars, ioVars, copyVars, Gone, Escaping
    <3>2. QED
      BY <3>1, AsideKeeps
  <2>2. CASE StartCopy
    BY <2>2, StartKeeps
  <2>3. CASE Copier
    BY <2>3, ReadInputKeeps, ReadSecondKeeps, InputEndsKeeps, WriteInputKeeps, WriteFailsKeeps DEF Copier
  <2>4. CASE Next /\ ~StartCopy /\ ~Copier
    BY <2>4, OthersAreAside, AsideKeeps DEF Next
  <2>5. QED
    BY <2>1, <2>2, <2>3, <2>4
<1>3. InputInv => InputIsFiltered
  <2> SUFFICES ASSUME InputInv PROVE InputIsFiltered
    OBVIOUS
  <2>1. DOMAIN (sent \o hand) = 1 .. Len(sent \o hand)
    BY DEF InputInv, TypeOK
  <2>2. QED
    BY <2>1 DEF InputInv, Kept, Escaped, Filtered, InputIsFiltered
<1>4. QED
  BY <1>1, <1>2, <1>3, TypesAreCorrect, PTL DEF Spec, InputInv
=============================================================================
