----------------------------- MODULE SshClient -----------------------------
(***************************************************************************)
(* One run of the ssh program, from the resolved options to its exit: the  *)
(* decision about the host key, the forwardings, the session with its      *)
(* terminal, and main's way out.  Beside main run the goroutine that       *)
(* copies stdin through the escape reader, and the one that passes signals *)
(* on.  The server, the person at the terminal, and the x/crypto/ssh       *)
(* library between them are external.  What a forwarded connection or -W   *)
(* does with its bytes is in Relay.                                        *)
(***************************************************************************)
EXTENDS Integers, Sequences

CONSTANTS
  Configs,    \* resolved options, arguments and surroundings to look at
  Others,     \* characters without a meaning to the escape reader
  MaxTyped,   \* bound: characters typed; one, if nothing looks at them
  Window      \* characters the server takes without reading them

ASSUME ConfigsAssumption == \A c \in Configs : c.forwards \in Seq({"local", "remote", "dynamic"})
ASSUME BoundsAssumption == MaxTyped \in Nat /\ Window \in Nat \ {0, 1}

VARIABLES
  config,
  at,         \* where main is
  exit,       \* how the process ended
  link,       \* the transport: none, up, lost
  tried, up,  \* forwardings that SetupForwarding has been through, those that listen
  failed,     \* ... and whether firstErr is set
  pty,        \* PTYRequested
  tty, saved, \* the terminal, and the oldState of its State
  chan,       \* the session channel: none, open, closing (by ssh), closed (by both)
  report,     \* exit-status or exit-signal, as far as it has come
  sig,        \* signal.Notify: off, on, or on with a signal in its channel
  stdout,     \* ssh's output: it is read, whoever reads it is stuck, or a copy to it failed
  typed, eof, \* what ssh's stdin has got, and whether that is all
  stdin,      \* the goroutine that copies it
  pos,        \* how much of it was read
  atStart,    \* of the EscapeReader
  hand,       \* read and not yet sent
  sent, got   \* sent on the channel, and how much of it the server has read

fwdVars  == <<tried, up, failed>>
ttyVars  == <<tty, saved>>
sessVars == <<pty, ttyVars, chan, report, sig>>
copyVars == <<stdin, pos, atStart, hand, sent>>
ioVars   == <<stdout, typed, eof, copyVars, got>>
mainVars == <<at, exit>>
vars == <<config, mainVars, link, fwdVars, sessVars, ioVars>>

\* A line end, the escape character, what may follow it, and the rest.
Chars == {"nl", "esc", "dot", "help"} \cup Others

Places == {"config", "dial", "hostkey", "auth", "forward", "command", "connected", "stdio", "idle",
           "pty", "agent", "terminal", "raw", "start", "notify", "wait", "exited"}

-----------------------------------------------------------------------------
(* What the options say.                                                   *)

\* Local, then remote, then dynamic ones; -W clears them all.
Forwards == IF config.stdio THEN <<>> ELSE config.forwards

\* -T and -t override the option; a second -t makes it "force".
RequestTTY ==
  IF config.noTTY THEN "no"
  ELSE CASE config.ttyCount = 0 -> config.requestTTY
         [] config.ttyCount = 1 -> "yes"
         [] OTHER -> "force"

WantPTY ==
  \/ RequestTTY \in {"yes", "force"}
  \/ RequestTTY = "auto" /\ config.isTerminal /\ ~config.hasCommand

Escaping == ~config.stdinNull /\ pty /\ config.escape

\* Of a key that is not known; answer is the person's, who is only asked with "ask".
NewKeyAccepted(answer) ==
  \/ config.strict \in {"no", "off", "accept-new"}
  \/ config.strict = "ask" /\ answer

\* A slip: a key that has changed counts as a new one.
ChangedIsNew(answer) ==
  \/ config.localhost
  \/ /\ config.revoked # "listed"
     /\ config.known = "same" \/ NewKeyAccepted(answer)

\* known: what the known_hosts files say of the key, "nofiles" if there are none.
HostKeyAccepted(answer) ==
  \/ config.localhost
  \/ /\ config.revoked # "listed"
     /\ \/ config.known = "same"
        \/ config.known = "changed" /\ config.strict \in {"no", "off"}
        \/ config.known \in {"unknown", "nofiles"} /\ NewKeyAccepted(answer)

\* A slip: no error but an exit error is looked at.
ExitCodeOnly == IF report = "none" THEN "0" ELSE report

\* exitCode, of what Session.Wait returns: an error, if it was not told how the program ended,
\* and the error of a copy to stdout or stderr, but only if it was told of status 0.
ExitCode == IF report = "none" \/ (report = "0" /\ stdout = "failed") THEN "255" ELSE report

\* The session channel is of no more use.
Gone == link = "lost" \/ chan = "closed"

-----------------------------------------------------------------------------
TypeOK ==
  /\ config \in Configs
  /\ at \in Places
  /\ exit \in {"none", "0", "status", "signal", "255", "killed"}
  /\ link \in {"none", "up", "lost"}
  /\ tried \in 0 .. Len(Forwards) /\ up \in SUBSET (1 .. tried) /\ failed \in BOOLEAN
  /\ pty \in BOOLEAN
  /\ tty \in {"cooked", "raw"} /\ saved \in {"nil", "cooked", "raw"}
  /\ chan \in {"none", "open", "closing", "closed"}
  /\ report \in {"none", "0", "status", "signal"}
  /\ sig \in {"off", "on", "pending"}
  /\ stdout \in {"read", "stuck", "failed"}
  /\ typed \in Seq(Chars) /\ Len(typed) <= MaxTyped /\ eof \in BOOLEAN
  /\ stdin \in {"none", "reading", "second", "writing", "done"}
  /\ pos \in 0 .. Len(typed) /\ atStart \in BOOLEAN
  /\ hand \in Seq(Chars) /\ Len(hand) <= 2
  /\ sent \in Seq(Chars) /\ got \in 0 .. Len(sent) /\ Len(sent) - got <= Window

Init ==
  /\ config \in Configs
  /\ at = "config" /\ exit = "none" /\ link = "none"
  /\ tried = 0 /\ up = {} /\ failed = FALSE /\ pty = FALSE
  /\ tty = "cooked" /\ saved = "nil"
  /\ chan = "none" /\ report = "none" /\ sig = "off" /\ stdout = "read"
  /\ typed = <<>> /\ eof = FALSE
  /\ stdin = "none" /\ pos = 0 /\ atStart = TRUE /\ hand = <<>> /\ sent = <<>> /\ got = 0

-----------------------------------------------------------------------------
(* main: up to the connection.                                             *)

\* run returns, and os.Exit ends every goroutine.
Exit(code) == at' = "exited" /\ exit' = code

Goes(from, to) == at = from /\ at' = to /\ UNCHANGED exit

Fails(from) == at = from /\ Exit("255")

\* The revoked keys are read before anything is dialed.
BuildConfig ==
  /\ IF config.revoked = "unreadable" THEN Fails("config") ELSE Goes("config", "dial")
  /\ UNCHANGED <<config, link, fwdVars, sessVars, ioVars>>

Dial ==
  /\ Goes("dial", "hostkey")
  /\ link' = "up"
  /\ UNCHANGED <<config, fwdVars, sessVars, ioVars>>

DialFails == Fails("dial") /\ UNCHANGED <<config, link, fwdVars, sessVars, ioVars>>

\* The callback; the connection may be gone before the person has answered.
CheckHostKey(answer) ==
  /\ IF HostKeyAccepted(answer) THEN Goes("hostkey", "auth") ELSE Fails("hostkey")
  /\ UNCHANGED <<config, link, fwdVars, sessVars, ioVars>>

Authenticate ==
  /\ link = "up" /\ Goes("auth", "forward")
  /\ UNCHANGED <<config, link, fwdVars, sessVars, ioVars>>

HandshakeFails ==
  /\ Fails("hostkey") \/ Fails("auth")
  /\ UNCHANGED <<config, link, fwdVars, sessVars, ioVars>>

NeedsAnswer(f) == Forwards[f] = "remote"

Forward(f) ==
  /\ at = "forward" /\ f = tried + 1
  /\ NeedsAnswer(f) => link = "up"
  /\ tried' = f /\ up' = up \cup {f}
  /\ UNCHANGED <<config, mainVars, link, failed, sessVars, ioVars>>

\* A slip: of the dynamic ones, an error is only logged.
FailureForgotten(f) ==
  /\ at = "forward" /\ f = tried + 1
  /\ tried' = f /\ failed' = (failed \/ Forwards[f] # "dynamic")
  /\ UNCHANGED <<config, mainVars, link, up, sessVars, ioVars>>

\* The address is taken, or the server refuses; the others are still tried.
ForwardFails(f) ==
  /\ at = "forward" /\ f = tried + 1
  /\ tried' = f /\ failed' = TRUE
  /\ UNCHANGED <<config, mainVars, link, up, sessVars, ioVars>>

PostConnect ==
  /\ tried = Len(Forwards)
  /\ IF failed /\ config.exitOnFailure THEN Fails("forward")
     ELSE Goes("forward", IF config.localCommand THEN "command" ELSE "connected")
  /\ UNCHANGED <<config, link, fwdVars, sessVars, ioVars>>

\* LocalCommand, which main waits for; an error is only logged.
CommandEnds ==
  /\ Goes("command", "connected")
  /\ UNCHANGED <<config, link, fwdVars, sessVars, ioVars>>

\* -W, then -N, before a session.
NoSession ==
  /\ config.stdio \/ config.noSession
  /\ Goes("connected", IF config.stdio THEN "stdio" ELSE "idle")
  /\ UNCHANGED <<config, link, fwdVars, sessVars, ioVars>>

\* RunStdioForward: 0 when one of its copies ends, whichever.
StdioEnds ==
  /\ at = "stdio" /\ Exit("0")
  /\ UNCHANGED <<config, link, fwdVars, sessVars, ioVars>>

StdioFails == Fails("stdio") /\ UNCHANGED <<config, link, fwdVars, sessVars, ioVars>>

IdleEnds ==
  /\ at = "idle" /\ link = "lost" /\ Exit("0")
  /\ UNCHANGED <<config, link, fwdVars, sessVars, ioVars>>

-----------------------------------------------------------------------------
(* main: the session.                                                      *)

OpenSession ==
  /\ ~config.stdio /\ ~config.noSession /\ link = "up"
  /\ Goes("connected", "pty")
  /\ chan' = "open"
  /\ UNCHANGED <<config, link, fwdVars, pty, ttyVars, report, sig, ioVars>>

SessionFails ==
  /\ ~config.stdio /\ ~config.noSession
  /\ Fails("connected")
  /\ UNCHANGED <<config, link, fwdVars, sessVars, ioVars>>

NoPty ==
  /\ ~WantPTY /\ Goes("pty", "agent")
  /\ UNCHANGED <<config, link, fwdVars, sessVars, ioVars>>

PtyGranted ==
  /\ WantPTY /\ ~Gone /\ Goes("pty", "agent")
  /\ pty' = TRUE
  /\ UNCHANGED <<config, link, fwdVars, ttyVars, chan, report, sig, ioVars>>

PtyRefused ==
  /\ WantPTY
  /\ IF RequestTTY = "force" THEN Fails("pty") ELSE Goes("pty", "agent")
  /\ UNCHANGED <<config, link, fwdVars, sessVars, ioVars>>

NoAgent ==
  /\ ~config.forwardAgent /\ Goes("agent", "terminal")
  /\ UNCHANGED <<config, link, fwdVars, sessVars, ioVars>>

AgentForwarded ==
  /\ config.forwardAgent /\ ~Gone /\ Goes("agent", "terminal")
  /\ UNCHANGED <<config, link, fwdVars, sessVars, ioVars>>

\* No socket, or the server refuses.
AgentFails ==
  /\ config.forwardAgent /\ Fails("agent")
  /\ UNCHANGED <<config, link, fwdVars, sessVars, ioVars>>

\* State.MakeRaw, on a terminal.
MakeRaw == saved' = tty /\ tty' = "raw"

\* A slip: Restore trusts that there is something to restore.
RestoreAlways == tty' = saved /\ saved' = "nil"

\* State.Restore; the second call finds nothing to do.
Restore == IF saved = "nil" THEN UNCHANGED ttyVars ELSE tty' = saved /\ saved' = "nil"

\* Handler.SetupTerminal, whether there is a pty or not.
SetupTerminal ==
  /\ IF config.isTerminal
     THEN Goes("terminal", "raw") /\ MakeRaw
     ELSE Fails("terminal") /\ UNCHANGED ttyVars
  /\ UNCHANGED <<config, link, fwdVars, pty, chan, report, sig, ioVars>>

\* Raw mode (again), and the goroutine that copies stdin.
StartCopy ==
  /\ Goes("raw", "start")
  /\ IF pty THEN MakeRaw ELSE UNCHANGED ttyVars
  /\ stdin' = "reading"
  /\ UNCHANGED <<config, link, fwdVars, pty, chan, report, sig,
                 stdout, typed, eof, pos, atStart, hand, sent, got>>

\* Shell, Start or RequestSubsystem.  ~. may already have closed the channel on this side.
StartProgram ==
  /\ ~Gone /\ Goes("start", "notify")
  /\ UNCHANGED <<config, link, fwdVars, sessVars, ioVars>>

\* A slip: the terminal is not restored.
RefusedRaw ==
  /\ Fails("start")
  /\ UNCHANGED <<config, link, fwdVars, sessVars, ioVars>>

StartRefused ==
  /\ Fails("start") /\ Restore
  /\ UNCHANGED <<config, link, fwdVars, pty, chan, report, sig, ioVars>>

\* With a pty, signals keep their default action.
Notify ==
  /\ Goes("notify", "wait")
  /\ sig' = IF pty THEN "off" ELSE "on"
  /\ UNCHANGED <<config, link, fwdVars, pty, ttyVars, chan, report, ioVars>>

\* A slip: main waits for stdin, too.
WaitForStdin ==
  /\ at = "wait" /\ Gone /\ stdout # "stuck" /\ stdin = "done"
  /\ Restore /\ Exit(ExitCode)
  /\ UNCHANGED <<config, link, fwdVars, pty, chan, report, sig, ioVars>>

\* Session.Wait returns when the channel is closed and its output is written, or cannot be.
WaitReturns ==
  /\ at = "wait" /\ Gone /\ stdout # "stuck"
  /\ Restore /\ Exit(ExitCode)
  /\ UNCHANGED <<config, link, fwdVars, pty, chan, report, sig, ioVars>>

-----------------------------------------------------------------------------
(* The goroutine that copies stdin: io.Copy, from an EscapeReader or not.  *)

Running == at # "exited"

Hold(chars) == stdin' = "writing" /\ hand' = chars

\* NewEscapeReader and Read, up to the second character of an escape.
ReadInput ==
  /\ Running /\ stdin = "reading" /\ pos < Len(typed) /\ ~config.stdinNull
  /\ pos' = pos + 1
  /\ LET b == typed[pos + 1] IN
     IF Escaping /\ atStart /\ b = "esc"
     THEN stdin' = "second" /\ atStart' = FALSE /\ UNCHANGED hand
     ELSE Hold(<<b>>) /\ atStart' = (b = "nl")
  /\ UNCHANGED <<config, mainVars, link, fwdVars, sessVars, stdout, typed, eof, sent, got>>

\* closeFn: the terminal is restored, the channel closed on this side.
CloseSession ==
  /\ stdin' = "done" /\ Restore
  /\ chan' = IF chan = "open" THEN "closing" ELSE chan
  /\ UNCHANGED hand

\* A slip: after the help, ~? is sent, too.
HelpIsSent ==
  /\ Running /\ stdin = "second" /\ pos < Len(typed)
  /\ pos' = pos + 1
  /\ LET b == typed[pos + 1] IN
     IF b = "dot" THEN CloseSession
     ELSE Hold(IF b = "esc" THEN <<"esc">> ELSE <<"esc", b>>) /\ UNCHANGED <<ttyVars, chan>>
  /\ UNCHANGED <<config, mainVars, link, fwdVars, pty, report, sig, stdout, typed, eof, atStart, sent, got>>

\* The rest of Read; atStart stays FALSE, also after a line end.
ReadSecond ==
  /\ Running /\ stdin = "second" /\ pos < Len(typed)
  /\ pos' = pos + 1
  /\ LET b == typed[pos + 1] IN
     CASE b = "dot" -> CloseSession
       [] b = "help" -> stdin' = "reading" /\ UNCHANGED <<ttyVars, chan, hand>>
       [] OTHER -> Hold(IF b = "esc" THEN <<"esc">> ELSE <<"esc", b>>) /\ UNCHANGED <<ttyVars, chan>>
  /\ UNCHANGED <<config, mainVars, link, fwdVars, pty, report, sig, stdout, typed, eof, atStart, sent, got>>

\* After the end of the input a lone escape character is sent.
InputEnds ==
  /\ Running /\ (config.stdinNull \/ (eof /\ pos = Len(typed)))
  /\ \/ stdin = "reading" /\ stdin' = "done" /\ UNCHANGED hand
     \/ stdin = "second" /\ Hold(<<"esc">>)
  /\ UNCHANGED <<config, mainVars, link, fwdVars, sessVars, stdout, typed, eof, pos, atStart, sent, got>>

WriteInput ==
  /\ Running /\ stdin = "writing" /\ chan = "open" /\ link = "up"
  /\ Len(sent) + Len(hand) - got <= Window
  /\ sent' = sent \o hand /\ hand' = <<>>
  /\ stdin' = "reading"
  /\ UNCHANGED <<config, mainVars, link, fwdVars, sessVars, stdout, typed, eof, pos, atStart, got>>

\* io.Copy ends, and what was in its hands is lost.
WriteFails ==
  /\ Running /\ stdin = "writing" /\ (chan # "open" \/ link = "lost")
  /\ stdin' = "done" /\ hand' = <<>>
  /\ UNCHANGED <<config, mainVars, link, fwdVars, sessVars, stdout, typed, eof, pos, atStart, sent, got>>

Copier == ReadInput \/ ReadSecond \/ InputEnds \/ WriteInput \/ WriteFails

-----------------------------------------------------------------------------
(* Signals, the person at the terminal, and the server.                    *)

\* SIGINT or SIGTERM before Notify, or with a pty: the process ends as it is.
Killed ==
  /\ Running /\ sig = "off"
  /\ Exit("killed")
  /\ UNCHANGED <<config, link, fwdVars, sessVars, ioVars>>

SignalArrives ==
  /\ Running /\ sig = "on" /\ sig' = "pending"
  /\ UNCHANGED <<config, mainVars, link, fwdVars, pty, ttyVars, chan, report, ioVars>>

SignalForwarded ==
  /\ Running /\ sig = "pending" /\ sig' = "on"
  /\ UNCHANGED <<config, mainVars, link, fwdVars, pty, ttyVars, chan, report, ioVars>>

\* What was typed before main reads stdin comes first.
Type(ch) ==
  /\ Running /\ stdin # "none" /\ ~eof
  /\ Len(typed) < MaxTyped /\ (Escaping \/ typed = <<>>)
  /\ typed' = Append(typed, ch)
  /\ UNCHANGED <<config, mainVars, link, fwdVars, sessVars, stdout, eof, copyVars, got>>

TypeEnds ==
  /\ Running /\ stdin # "none" /\ ~eof /\ eof' = TRUE
  /\ UNCHANGED <<config, mainVars, link, fwdVars, sessVars, stdout, typed, copyVars, got>>

\* It is looked at when the session is over.
StdoutSticks ==
  /\ at = "wait" /\ Gone /\ stdout # "failed"
  /\ stdout' = IF stdout = "read" THEN "stuck" ELSE "read"
  /\ UNCHANGED <<config, mainVars, link, fwdVars, sessVars, typed, eof, copyVars, got>>

\* The file system is full, or the terminal is gone.
StdoutFails ==
  /\ at = "wait" /\ Gone /\ stdout # "failed"
  /\ stdout' = "failed"
  /\ UNCHANGED <<config, mainVars, link, fwdVars, sessVars, typed, eof, copyVars, got>>

LinkLost ==
  /\ Running /\ link = "up" /\ link' = "lost"
  /\ UNCHANGED <<config, mainVars, fwdVars, sessVars, ioVars>>

ServerReads ==
  /\ Running /\ got < Len(sent) /\ got' = got + 1
  /\ UNCHANGED <<config, mainVars, link, fwdVars, sessVars, stdout, typed, eof, copyVars>>

ServerReports(r) ==
  /\ at \in {"notify", "wait"} /\ ~Gone /\ report = "none"
  /\ report' = r
  /\ UNCHANGED <<config, mainVars, link, fwdVars, pty, ttyVars, chan, sig, ioVars>>

ServerCloses ==
  /\ Running /\ link = "up" /\ chan \in {"open", "closing"} /\ chan' = "closed"
  /\ UNCHANGED <<config, mainVars, link, fwdVars, pty, ttyVars, report, sig, ioVars>>

Outside ==
  \/ Killed \/ SignalArrives \/ TypeEnds \/ StdoutSticks \/ StdoutFails
  \/ LinkLost \/ ServerReads \/ ServerCloses
  \/ \E ch \in Chars : Type(ch)
  \/ \E r \in {"0", "status", "signal"} : ServerReports(r)

-----------------------------------------------------------------------------
\* Steps of main that wait for the server, for the person, or for a local command ...
Answered ==
  \/ Authenticate \/ \E answer \in BOOLEAN : CheckHostKey(answer)
  \/ CommandEnds
  \/ OpenSession \/ PtyGranted \/ AgentForwarded \/ StartProgram

\* ... what it does when the server refuses or is gone ...
Refused ==
  \/ HandshakeFails \/ StdioEnds \/ StdioFails
  \/ SessionFails \/ PtyRefused \/ AgentFails \/ StartRefused

\* ... and what it does by itself.
Alone ==
  \/ BuildConfig \/ Dial \/ DialFails
  \/ PostConnect \/ NoSession \/ IdleEnds
  \/ NoPty \/ NoAgent \/ SetupTerminal \/ StartCopy \/ Notify \/ WaitReturns

Forwarding(f) == Forward(f) \/ ForwardFails(f)

Next ==
  \/ Alone \/ Answered \/ Refused \/ \E f \in DOMAIN Forwards : Forwarding(f)
  \/ Copier \/ SignalForwarded \/ Outside

\* main runs, and requests to a server that is gone fail.  A callback or a command that waits
\* for the person may never return, and a server may never answer.
Fairness ==
  /\ WF_vars(Alone)
  /\ WF_vars(at # "hostkey" /\ at # "auth" /\ Gone /\ Refused)
  /\ WF_vars(\E f \in DOMAIN Forwards : (NeedsAnswer(f) => link = "lost") /\ Forwarding(f))

Spec == Init /\ [][Next]_vars /\ Fairness

-----------------------------------------------------------------------------
(* Properties.                                                             *)

\* Where an escape begins: an escape character at the start of a line.  A line end that
\* follows such a character is sent with it, and does not start a line.
EscapesBegin(starts) ==
  \A i \in 1 .. pos :
    i \in starts <=> typed[i] = "esc" /\ (i = 1 \/ (typed[i - 1] = "nl" /\ i - 2 \notin starts))

\* What was read at i is not sent: it belongs to ~. or ~?, or is the first of two escape
\* characters, or what follows it is not known yet.
Removed(starts, i) ==
  /\ Escaping
  /\ \/ i \in starts /\ IF i < pos THEN typed[i + 1] \in {"dot", "help", "esc"} ELSE stdin = "second"
     \/ i - 1 \in starts /\ typed[i] \in {"dot", "help"}

\* kept: where each of these characters was read.
ReadAt(kept, chars) ==
  /\ \A j, k \in DOMAIN kept : j < k => kept[j] < kept[k]
  /\ \A j \in DOMAIN kept : chars[j] = typed[kept[j]]

\* What was read at i is sent if and only if it is not removed; what was read when the channel
\* was closed may be missing at the end.
SentUnlessRemoved(starts, kept, i) ==
  IF Removed(starts, i) THEN \A j \in DOMAIN kept : kept[j] # i
  ELSE \/ \E j \in DOMAIN kept : kept[j] = i
       \/ stdin = "done" /\ Gone /\ \A j \in DOMAIN kept : kept[j] < i

\* escape.go:41-105: whatever is typed, in whatever pieces it arrives and is sent, what the
\* server gets is what was typed, in order, with all of the escapes removed and nothing else;
\* and without an escape character, or without a pty, everything that was typed.
InputIsFiltered ==
  LET out == sent \o hand IN
  \E starts \in SUBSET (1 .. pos) :
    /\ EscapesBegin(starts)
    /\ \E kept \in [DOMAIN out -> 1 .. pos] :
         ReadAt(kept, out) /\ \A i \in 1 .. pos : SentUnlessRemoved(starts, kept, i)

\* main.go:312-334: if the server has said how the program ended, ssh says the same, however
\* the session and the connection ended afterwards, unless that is success and a copy of the
\* program's output failed: then ssh fails.  It says 0 in no other case, except after -W and
\* -N, which have no program.
ExitCodeIsReported ==
  exit \notin {"none", "killed"} =>
    /\ report # "none" => exit = IF report = "0" /\ stdout = "failed" THEN "255" ELSE report
    /\ exit = "0" /\ report = "none" => config.stdio \/ config.noSession

\* hostkey.go:97-182, ssh.go:138-148: before a session is begun the host key is checked against
\* the revoked keys and known_hosts (a changed key passes only with "no" or "off"), and
\* with ExitOnForwardFailure everything that was to be forwarded is listening.
SessionIsEarned ==
  chan # "none" =>
    /\ config.revoked # "unreadable"
    /\ config.localhost \/ config.revoked # "listed"
    /\ config.known = "changed" => config.localhost \/ config.strict \in {"no", "off"}
    /\ config.strict = "yes" => config.localhost \/ config.known = "same"
    /\ config.exitOnFailure => up = DOMAIN Forwards

\* main.go:287-317, terminal.go:39-48: without a pty the terminal is as it was found when run
\* returns, on every way out.  (With a pty it is not, see TerminalRestored.)
RestoredWithoutPty == exit \notin {"none", "killed"} /\ ~pty => tty = "cooked"

\* terminal.go:39: "Restore restores the terminal to its previous state."
TerminalRestored == exit \notin {"none", "killed"} => tty = "cooked"

\* main.go:196-320: once the server has closed the session, or the connection is lost, ssh ends,
\* although nobody may ever type again; unless whoever reads its output, the person that
\* it asks, or the local command keeps it.
EndsWithSession ==
  Gone ~> (exit # "none" \/ stdout = "stuck" \/ at \in {"hostkey", "auth", "command"})
=============================================================================
