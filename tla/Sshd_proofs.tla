---------------------------- MODULE Sshd_proofs ----------------------------
(***************************************************************************)
(* Proofs about Sshd, for any clients, users, keys, options and bounds.    *)
(*                                                                         *)
(* OnlyAdmitted speaks of what was begun; Admission says how a connection  *)
(* got there: who is known from the end of the handshake on, access is     *)
(* allowed from the check on, and until then no goroutine reads what the   *)
(* client has sent.                                                        *)
(*                                                                         *)
(* ServedAsWritten goes back to the words of a boot.  What the options say *)
(* of the first n entries (ReadTo) is kept by one entry more (Follows), so *)
(* that it holds for all of them, by induction over n.                     *)
(***************************************************************************)
EXTENDS SshdAsWritten, TLAPS, SequenceTheorems, WellFoundedInduction

\* The client is who it says, by a key of the user's files.
Proven(c) == who[c] # Nobody /\ who[c].key \in AuthorizedKeys[who[c].user]

Unserved == {"none", "backlog", "accepted", "loading", "auth", "authed", "cleared"}

Admitted(c) ==
  /\ phase[c] \in Unserved => globals[c] = "none" /\ served[c] = {}
  /\ phase[c] \in {"authed", "cleared"} => Proven(c)
  /\ phase[c] = "admitted" \/ globals[c] = "running" \/ served[c] # {} =>
       Proven(c) /\ AccessAllowed(who[c].user)
  /\ \A kind \in served[c] : Serves(kind)

Admission == \A c \in Conns : Admitted(c)

\* The deadline is set during the login only.
DeadlineIsForLogin ==
  \A c \in Conns : timer[c] = "armed" => phase[c] \in {"loading", "auth", "authed"}

IInv == TypeOK /\ Admission /\ DeadlineIsForLogin

-----------------------------------------------------------------------------
LEMMA OptionsStay ==
  ASSUME config' = config
  PROVE  /\ Listeners' = Listeners
         /\ \A u : AccessAllowed(u)' = AccessAllowed(u)
         /\ \A kind : Serves(kind)' = Serves(kind)
BY DEF Listeners, ListenAddresses, ExpandListenAddress, AccessAllowed, MatchesAny, Serves, TcpForwardingAllowed

LEMMA ConfigStays == ASSUME Next PROVE config' = config
BY DEF Next, Main, Client, Server, Bind, BindFails, StartServing, StartInetd, Signal, CloseListener,
   ServeReturns, MainReturns, InetdReturns, Terminate, Connect, Accept, ArmDeadline, DeadlinePasses,
   LoadHostKeys, NoHostKeys, AuthSucceeds, AuthFails, HandshakeFails, ClearDeadline, CheckAccess,
   AskChannel, AskGlobal, Leave, DispatchChannel, HandleGlobal, ChannelLoopEnds, GlobalLoopEnds

LEMMA QueueStep ==
  ASSUME NEW S, NEW q \in Seq(S)
  PROVE  /\ \A x \in S : Append(q, x) \in Seq(S)
         /\ q # <<>> => Head(q) \in S /\ Tail(q) \in Seq(S)
BY AppendProperties, HeadTailProperties

-----------------------------------------------------------------------------
(* Types.                                                                  *)

LEMMA TypeInit == Init => TypeOK
BY BoundsAssumption, EmptySeq DEF Init, TypeOK, Phases

LEMMA TerminateTyped ==
  ASSUME TypeOK, NEW code \in {"0", "255", "killed"}, Terminate(code)
  PROVE  TypeOK'
<1>1. Listeners' = Listeners
  BY OptionsStay DEF Terminate
<1>2. QED
  BY <1>1 DEF Terminate, TypeOK, authVars, askVars, Phases

LEMMA CloseTyped ==
  ASSUME TypeOK, NEW c \in Conns, NEW result \in {"ended", "closed"}, CloseConn(c, result)
  PROVE  /\ phase' \in [Conns -> Phases]
         /\ link' \in [Conns -> {"none", "up", "lost", "timedout"}]
         /\ timer' \in [Conns -> {"off", "armed", "fired"}]
         /\ phase'[c] = result /\ \A d \in Conns \ {c} : phase'[d] = phase[d]
BY DEF CloseConn, TypeOK, Phases

LEMMA AskTyped ==
  ASSUME TypeOK, NEW c \in Conns, MayAsk(c)
  PROVE  asked' \in [Conns -> Nat] /\ \A d \in Conns : asked'[d] <= MaxAsked[d]
<1>1. asked[c] \in Nat /\ MaxAsked[c] \in Nat /\ asked[c] < MaxAsked[c]
  BY BoundsAssumption DEF TypeOK, MayAsk
<1>2. asked' = [asked EXCEPT ![c] = asked[c] + 1] /\ asked[c] + 1 \in Nat
  BY <1>1 DEF MayAsk
<1>3. QED
  BY <1>1, <1>2 DEF TypeOK

LEMMA TypeMain == ASSUME TypeOK, Main PROVE TypeOK'
<1>0. Listeners' = Listeners
  BY ConfigStays, OptionsStay DEF Next
<1> USE <1>0 DEF TypeOK, authVars, askVars
<1>1. ASSUME NEW i \in Listeners, Bind(i) PROVE TypeOK'
  BY <1>1 DEF Bind
<1>2. ASSUME NEW i \in Listeners, BindFails(i) PROVE TypeOK'
  BY <1>2, TerminateTyped DEF BindFails
<1>3. CASE StartServing
  BY <1>3 DEF StartServing
<1>4. ASSUME NEW c \in Conns, StartInetd(c) PROVE TypeOK'
  <2>1. tries[c] # MaxAuthTries
    BY <1>4 DEF StartInetd
  <2>2. QED
    BY <1>4, <2>1 DEF StartInetd, Phases
<1>5. CASE Signal
  <2>1. CASE Terminate("killed")
    BY <2>1, TerminateTyped
  <2>2. CASE ~Terminate("killed")
    BY <1>5, <2>2 DEF Signal
  <2>3. QED
    BY <2>1, <2>2
<1>6. ASSUME NEW i \in Listeners, CloseListener(i) PROVE TypeOK'
  BY <1>6 DEF CloseListener, Phases
<1>7. ASSUME NEW i \in Listeners, ServeReturns(i) PROVE TypeOK'
  BY <1>7, BoundsAssumption DEF ServeReturns
<1>8. CASE MainReturns
  BY <1>8, TerminateTyped DEF MainReturns
<1>9. ASSUME NEW c \in Conns, InetdReturns(c) PROVE TypeOK'
  BY <1>9, TerminateTyped DEF InetdReturns
<1>10. QED
  BY <1>1, <1>2, <1>3, <1>4, <1>5, <1>6, <1>7, <1>8, <1>9 DEF Main

LEMMA TypeConn ==
  ASSUME TypeOK, NEW c \in Conns, Client(c) \/ Server(c) \/ DeadlinePasses(c)
  PROVE  TypeOK'
<1>0. Listeners' = Listeners
  BY ConfigStays, OptionsStay DEF Next
<1> USE <1>0 DEF TypeOK, mainVars, authVars, askVars
<1>1. ASSUME NEW i \in Listeners, Connect(c, i) PROVE TypeOK'
  BY <1>1 DEF Connect, Phases
<1>2. CASE AuthSucceeds(c)
  BY <1>2, BoundsAssumption DEF AuthSucceeds, Phases
<1>3. CASE AuthFails(c)
  <2>1. tries[c] \in Nat /\ MaxAuthTries \in Nat /\ tries[c] < MaxAuthTries
    BY <1>3, BoundsAssumption DEF AuthFails
  <2>2. tries' = [tries EXCEPT ![c] = tries[c] + 1] /\ tries[c] + 1 \in 0 .. MaxAuthTries
    BY <1>3, <2>1 DEF AuthFails
  <2>3. tries' \in [Conns -> 0 .. MaxAuthTries] /\ tries'[c] = tries[c] + 1
        /\ \A d \in Conns \ {c} : tries'[d] = tries[d]
    BY <2>2
  <2>4. CASE tries[c] + 1 = MaxAuthTries
    BY <1>3, <2>1, <2>3, <2>4, CloseTyped DEF AuthFails
  <2>5. CASE tries[c] + 1 # MaxAuthTries
    BY <1>3, <2>1, <2>3, <2>5 DEF AuthFails
  <2>6. QED
    BY <2>4, <2>5
<1>4. CASE AskChannel(c)
  <2>1. PICK kind \in ChannelKinds : chans' = [chans EXCEPT ![c] = Append(@, kind)]
    BY <1>4 DEF AskChannel
  <2>2. Append(chans[c], kind) \in Seq(ChannelKinds)
    BY QueueStep
  <2>3. asked' \in [Conns -> Nat] /\ \A d \in Conns : asked'[d] <= MaxAsked[d]
    BY <1>4, AskTyped DEF AskChannel
  <2>4. QED
    BY <1>4, <2>1, <2>2, <2>3 DEF AskChannel
<1>5. CASE AskGlobal(c)
  <2>1. PICK kind \in RequestKinds : reqs' = [reqs EXCEPT ![c] = Append(@, kind)]
    BY <1>5 DEF AskGlobal
  <2>2. Append(reqs[c], kind) \in Seq(RequestKinds)
    BY QueueStep
  <2>3. asked' \in [Conns -> Nat] /\ \A d \in Conns : asked'[d] <= MaxAsked[d]
    BY <1>5, AskTyped DEF AskGlobal
  <2>4. QED
    BY <1>5, <2>1, <2>2, <2>3 DEF AskGlobal
<1>6. CASE Leave(c)
  BY <1>6 DEF Leave
<1>7. CASE Accept(c)
  BY <1>7 DEF Accept, Phases
<1>8. CASE ArmDeadline(c)
  BY <1>8 DEF ArmDeadline, Phases
<1>9. CASE LoadHostKeys(c)
  BY <1>9 DEF LoadHostKeys, Phases
<1>10. CASE NoHostKeys(c)
  BY <1>10, CloseTyped DEF NoHostKeys
<1>11. CASE HandshakeFails(c)
  BY <1>11, CloseTyped DEF HandshakeFails
<1>12. CASE ClearDeadline(c)
  BY <1>12 DEF ClearDeadline, Phases
<1>13. CASE CheckAccess(c)
  <2>1. CASE AccessAllowed(who[c].user)
    BY <1>13, <2>1, ZenonT(40) DEF CheckAccess, Phases
  <2>2. CASE ~AccessAllowed(who[c].user)
    BY <1>13, <2>2, CloseTyped DEF CheckAccess
  <2>3. QED
    BY <2>1, <2>2
<1>14. CASE DispatchChannel(c)
  <2>1. Head(chans[c]) \in ChannelKinds /\ Tail(chans[c]) \in Seq(ChannelKinds)
    BY <1>14, QueueStep DEF DispatchChannel
  <2>2. QED
    BY <1>14, <2>1 DEF DispatchChannel, Begin
<1>15. CASE HandleGlobal(c)
  <2>1. Head(reqs[c]) \in RequestKinds /\ Tail(reqs[c]) \in Seq(RequestKinds)
    BY <1>15, QueueStep DEF HandleGlobal
  <2>2. QED
    BY <1>15, <2>1 DEF HandleGlobal, Begin
<1>16. CASE ChannelLoopEnds(c)
  BY <1>16, CloseTyped DEF ChannelLoopEnds
<1>17. CASE GlobalLoopEnds(c)
  BY <1>17 DEF GlobalLoopEnds
<1>18. CASE DeadlinePasses(c)
  BY <1>18 DEF DeadlinePasses
<1>19. QED
  BY <1>1, <1>2, <1>3, <1>4, <1>5, <1>6, <1>7, <1>8, <1>9, <1>10, <1>11, <1>12, <1>13,
     <1>14, <1>15, <1>16, <1>17, <1>18 DEF Client, Server

-----------------------------------------------------------------------------
(* Admission, and the deadline.                                            *)

LEMMA TerminateKeeps ==
  ASSUME IInv, NEW code, Terminate(code)
  PROVE  Admission' /\ DeadlineIsForLogin'
<1>1. /\ config' = config /\ who' = who /\ served' = served
      /\ \A c \in Conns : phase'[c] = "closed" /\ globals'[c] = "ended" /\ timer'[c] = "off"
  BY DEF Terminate, authVars, askVars
<1>2. \A kind : Serves(kind)' = Serves(kind)
  BY <1>1, OptionsStay
<1>3. \A u : AccessAllowed(u)' = AccessAllowed(u)
  BY <1>1, OptionsStay
<1>4. QED
  BY <1>1, <1>2, <1>3 DEF IInv, Admission, Admitted, DeadlineIsForLogin, Proven, Unserved

\* A step that touches neither who anybody is nor what is begun, and moves each client
\* only among the phases in which it is as much admitted as before.
LEMMA HarmlessKeeps ==
  ASSUME IInv, config' = config, UNCHANGED <<who, served, globals>>,
         \A c \in Conns :
           /\ phase'[c] \in Unserved => phase[c] \in Unserved
           /\ phase'[c] \in {"authed", "cleared"} => phase[c] \in {"authed", "cleared"}
           /\ phase'[c] = "admitted" => phase[c] = "admitted"
  PROVE  Admission'
<1>1. \A kind : Serves(kind)' = Serves(kind)
  BY OptionsStay
<1>2. \A u : AccessAllowed(u)' = AccessAllowed(u)
  BY OptionsStay
<1>3. QED
  BY <1>1, <1>2 DEF IInv, Admission, Admitted, Proven

LEMMA MainKeeps == ASSUME IInv, Main PROVE Admission' /\ DeadlineIsForLogin'
<1>0. config' = config
  BY ConfigStays DEF Next
<1>1. ASSUME NEW i \in Listeners, Bind(i) \/ ServeReturns(i) PROVE Admission' /\ DeadlineIsForLogin'
  <2>1. UNCHANGED <<who, served, globals, phase, timer>>
    BY <1>1 DEF Bind, ServeReturns, authVars, askVars
  <2>2. QED
    BY <1>0, <2>1, HarmlessKeeps DEF IInv, DeadlineIsForLogin
<1>2. ASSUME NEW i \in Listeners, BindFails(i) PROVE Admission' /\ DeadlineIsForLogin'
  BY <1>2, TerminateKeeps DEF BindFails
<1>3. CASE StartServing
  <2>1. UNCHANGED <<who, served, globals, phase, timer>>
    BY <1>3 DEF StartServing, authVars, askVars
  <2>2. QED
    BY <1>0, <2>1, HarmlessKeeps DEF IInv, DeadlineIsForLogin
<1>4. ASSUME NEW c \in Conns, StartInetd(c) PROVE Admission' /\ DeadlineIsForLogin'
  <2>1. /\ UNCHANGED <<who, served, globals, timer>>
        /\ phase[c] = "none" /\ phase' = [phase EXCEPT ![c] = "accepted"]
    BY <1>4 DEF StartInetd, authVars, askVars
  <2>2. phase'[c] = "accepted" /\ \A d \in Conns : d # c => phase'[d] = phase[d]
    BY <2>1 DEF IInv, TypeOK
  <2>3. Admission'
    BY <1>0, <2>1, <2>2, HarmlessKeeps DEF Unserved
  <2>4. DeadlineIsForLogin'
    BY <2>1, <2>2 DEF IInv, DeadlineIsForLogin
  <2>5. QED
    BY <2>3, <2>4
<1>5. CASE Signal
  <2>1. CASE Terminate("killed")
    BY <2>1, TerminateKeeps
  <2>2. CASE ~Terminate("killed")
    <3>1. UNCHANGED <<who, served, globals, phase, timer>>
      BY <1>5, <2>2 DEF Signal, authVars, askVars
    <3>2. QED
      BY <1>0, <3>1, HarmlessKeeps DEF IInv, DeadlineIsForLogin
  <2>3. QED
    BY <2>1, <2>2
<1>6. ASSUME NEW i \in Listeners, CloseListener(i) PROVE Admission' /\ DeadlineIsForLogin'
  <2>0. UNCHANGED <<who, served, globals, timer>>
    BY <1>6 DEF CloseListener, authVars, askVars
  <2>1. \A c \in Conns : phase'[c] = phase[c] \/ (phase[c] = "backlog" /\ phase'[c] = "closed")
    <3>1. phase' = [c \in Conns |-> IF phase[c] = "backlog" /\ via[c] = i THEN "closed" ELSE phase[c]]
      BY <1>6 DEF CloseListener
    <3>2. ASSUME NEW c \in Conns
          PROVE  phase'[c] = IF phase[c] = "backlog" /\ via[c] = i THEN "closed" ELSE phase[c]
      BY ONLY <3>1
    <3>3. QED
      BY ONLY <3>2
  <2>2. Admission'
    BY <1>0, <2>0, <2>1, HarmlessKeeps DEF Unserved
  <2>3. DeadlineIsForLogin'
    BY <2>0, <2>1 DEF IInv, DeadlineIsForLogin
  <2>4. QED
    BY <2>2, <2>3
<1>7. CASE MainReturns
  BY <1>7, TerminateKeeps DEF MainReturns
<1>8. ASSUME NEW c \in Conns, InetdReturns(c) PROVE Admission' /\ DeadlineIsForLogin'
  BY <1>8, TerminateKeeps DEF InetdReturns
<1>9. QED
  BY <1>1, <1>2, <1>3, <1>4, <1>5, <1>6, <1>7, <1>8 DEF Main

\* The end of a connection.
LEMMA CloseKeeps ==
  ASSUME IInv, config' = config, NEW c \in Conns, NEW result \in {"ended", "closed"},
         CloseConn(c, result), UNCHANGED <<who, served, globals>>
  PROVE  Admission' /\ DeadlineIsForLogin'
<1>1. /\ phase'[c] = result /\ timer'[c] = "off"
      /\ \A d \in Conns : d # c => phase'[d] = phase[d] /\ timer'[d] = timer[d]
  BY DEF CloseConn, IInv, TypeOK
<1>2. Admission'
  BY <1>1, HarmlessKeeps DEF Unserved
<1>3. DeadlineIsForLogin'
  BY <1>1 DEF IInv, DeadlineIsForLogin
<1>4. QED
  BY <1>2, <1>3

\* A step from one phase before the access check to another, by who is not yet known.
LEMMA LoginKeeps ==
  ASSUME IInv, config' = config, NEW c \in Conns, NEW to \in Unserved,
         UNCHANGED <<who, served, globals>>, phase[c] \in Unserved,
         phase' = [phase EXCEPT ![c] = to],
         to \in {"authed", "cleared"} => phase[c] \in {"authed", "cleared"}
  PROVE  /\ Admission' /\ phase'[c] = to
         /\ \A d \in Conns : d # c => phase'[d] = phase[d]
<1>1. phase'[c] = to /\ \A d \in Conns : d # c => phase'[d] = phase[d]
  BY DEF IInv, TypeOK
<1>2. QED
  BY <1>1, HarmlessKeeps DEF Unserved

LEMMA AuthKeeps ==
  ASSUME IInv, NEW c \in Conns, AuthSucceeds(c)
  PROVE  Admission' /\ DeadlineIsForLogin'
<1>1. /\ phase[c] = "auth" /\ phase' = [phase EXCEPT ![c] = "authed"]
      /\ UNCHANGED <<config, timer, globals, served>>
  BY DEF AuthSucceeds, askVars
<1>2. PICK u \in Users, k \in Keys :
        k \in AuthorizedKeys[u] /\ who' = [who EXCEPT ![c] = [user |-> u, key |-> k]]
  BY DEF AuthSucceeds, Authenticates
<1>3. /\ who'[c] = [user |-> u, key |-> k] /\ phase'[c] = "authed"
      /\ \A d \in Conns : d # c => who'[d] = who[d] /\ phase'[d] = phase[d]
  BY <1>1, <1>2 DEF IInv, TypeOK
<1>4. Proven(c)'
  <2>1. [user |-> u, key |-> k] \in [user : Users, key : Keys]
    OBVIOUS
  <2>2. who'[c] # Nobody
    BY <1>3, <2>1, NobodyAssumption
  <2>3. QED
    BY <1>2, <1>3, <2>2 DEF Proven
<1>5. globals[c] = "none" /\ served[c] = {}
  BY <1>1 DEF IInv, Admission, Admitted, Unserved
<1>6. Admission'
  <2> SUFFICES ASSUME NEW d \in Conns PROVE Admitted(d)'
    BY DEF Admission
  <2>1. CASE d = c
    BY <1>1, <1>3, <1>4, <1>5, <2>1 DEF Admitted
  <2>2. CASE d # c
    <3>1. /\ \A kind : Serves(kind)' = Serves(kind)
          /\ \A v : AccessAllowed(v)' = AccessAllowed(v)
      BY <1>1, OptionsStay
    <3>2. Proven(d)' = Proven(d)
      BY <1>3, <2>2 DEF Proven
    <3>3. QED
      BY <1>1, <1>3, <2>2, <3>1, <3>2 DEF IInv, Admission, Admitted
  <2>3. QED
    BY <2>1, <2>2
<1>7. DeadlineIsForLogin'
  BY <1>1, <1>3 DEF IInv, DeadlineIsForLogin
<1>8. QED
  BY <1>6, <1>7

\* What is begun for a client that is admitted is what the options allow.
LEMMA BeginKeeps ==
  ASSUME IInv, NEW c \in Conns, NEW kind, Begin(c, kind), UNCHANGED <<config, phase, who, timer, globals>>,
         phase[c] = "admitted" \/ globals[c] = "running"
  PROVE  Admission' /\ DeadlineIsForLogin'
<1>1. /\ served'[c] = IF Serves(kind) THEN served[c] \cup {kind} ELSE served[c]
      /\ \A d \in Conns : d # c => served'[d] = served[d]
  BY DEF Begin, IInv, TypeOK
<1>2. /\ \A j : Serves(j)' = Serves(j)
      /\ \A u : AccessAllowed(u)' = AccessAllowed(u)
  BY OptionsStay
<1>3. \A d \in Conns : Proven(d)' = Proven(d)
  BY DEF Proven
<1>4. phase[c] \notin Unserved /\ Proven(c) /\ AccessAllowed(who[c].user)
  BY DEF IInv, Admission, Admitted, Unserved
<1>5. ASSUME NEW d \in Conns PROVE Admitted(d)'
  <2>1. CASE d = c
    BY <1>1, <1>2, <1>3, <1>4, <2>1 DEF IInv, Admission, Admitted, Unserved
  <2>2. CASE d # c
    BY <1>1, <1>2, <1>3, <2>2 DEF IInv, Admission, Admitted
  <2>3. QED
    BY <2>1, <2>2
<1>6. QED
  BY <1>5 DEF IInv, Admission, DeadlineIsForLogin

\* The steps of a client's connection, one by one.
LEMMA ConnKeeps ==
  ASSUME IInv, TypeOK', NEW c \in Conns, Client(c) \/ Server(c) \/ DeadlinePasses(c)
  PROVE  Admission' /\ DeadlineIsForLogin'
<1>0. config' = config
  BY ConfigStays DEF Next
<1>1. ASSUME NEW i \in Listeners, Connect(c, i) PROVE Admission' /\ DeadlineIsForLogin'
  <2>1. /\ UNCHANGED <<who, served, globals, timer>> /\ phase[c] = "none"
        /\ phase' = [phase EXCEPT ![c] = "backlog"]
    BY <1>1 DEF Connect, authVars, askVars
  <2>2. Admission' /\ phase'[c] = "backlog" /\ \A d \in Conns : d # c => phase'[d] = phase[d]
    BY <1>0, <2>1, LoginKeeps DEF Unserved
  <2>3. QED
    BY <2>1, <2>2 DEF IInv, DeadlineIsForLogin
<1>2. CASE AuthSucceeds(c)
  BY <1>2, AuthKeeps
<1>3. CASE AuthFails(c)
  <2>1. CASE CloseConn(c, "closed")
    BY <1>0, <1>3, <2>1, CloseKeeps DEF AuthFails, askVars
  <2>2. CASE UNCHANGED <<phase, link, timer>>
    <3>1. UNCHANGED <<who, served, globals, phase, timer>>
      BY <1>3, <2>2 DEF AuthFails, askVars
    <3>2. QED
      BY <1>0, <3>1, HarmlessKeeps DEF IInv, DeadlineIsForLogin
  <2>3. QED
    BY <1>3, <2>1, <2>2 DEF AuthFails
<1>4. CASE AskChannel(c) \/ AskGlobal(c) \/ Leave(c)
  <2>1. UNCHANGED <<who, served, globals, phase, timer>>
    BY <1>4 DEF AskChannel, AskGlobal, Leave, authVars, askVars
  <2>2. QED
    BY <1>0, <2>1, HarmlessKeeps DEF IInv, DeadlineIsForLogin
<1>5. CASE Accept(c)
  <2>1. /\ UNCHANGED <<who, served, globals, timer>> /\ phase[c] = "backlog"
        /\ phase' = [phase EXCEPT ![c] = "accepted"]
    BY <1>5 DEF Accept, authVars, askVars
  <2>2. Admission' /\ phase'[c] = "accepted" /\ \A d \in Conns : d # c => phase'[d] = phase[d]
    BY <1>0, <2>1, LoginKeeps DEF Unserved
  <2>3. QED
    BY <2>1, <2>2 DEF IInv, DeadlineIsForLogin
<1>6. CASE ArmDeadline(c)
  <2>1. /\ UNCHANGED <<who, served, globals>> /\ phase[c] = "accepted"
        /\ phase' = [phase EXCEPT ![c] = "loading"]
    BY <1>6 DEF ArmDeadline, authVars, askVars
  <2>2. Admission' /\ phase'[c] = "loading" /\ \A d \in Conns : d # c => phase'[d] = phase[d]
    BY <1>0, <2>1, LoginKeeps DEF Unserved
  <2>3. \A d \in Conns : d # c => timer'[d] = timer[d]
    BY <1>6 DEF ArmDeadline, IInv, TypeOK
  <2>4. QED
    BY <2>2, <2>3 DEF IInv, DeadlineIsForLogin
<1>7. CASE LoadHostKeys(c)
  <2>1. /\ UNCHANGED <<who, served, globals, timer>> /\ phase[c] = "loading"
        /\ phase' = [phase EXCEPT ![c] = "auth"]
    BY <1>7 DEF LoadHostKeys, authVars, askVars
  <2>2. Admission' /\ phase'[c] = "auth" /\ \A d \in Conns : d # c => phase'[d] = phase[d]
    BY <1>0, <2>1, LoginKeeps DEF Unserved
  <2>3. QED
    BY <2>1, <2>2 DEF IInv, DeadlineIsForLogin
<1>8. CASE NoHostKeys(c)
  BY <1>0, <1>8, CloseKeeps DEF NoHostKeys, authVars, askVars
<1>9. CASE HandshakeFails(c)
  BY <1>0, <1>9, CloseKeeps DEF HandshakeFails, authVars, askVars
<1>10. CASE ClearDeadline(c)
  <2>1. /\ UNCHANGED <<who, served, globals>> /\ phase[c] = "authed"
        /\ phase' = [phase EXCEPT ![c] = "cleared"]
    BY <1>10 DEF ClearDeadline, authVars, askVars
  <2>2. Admission' /\ phase'[c] = "cleared" /\ \A d \in Conns : d # c => phase'[d] = phase[d]
    BY <1>0, <2>1, LoginKeeps DEF Unserved
  <2>3. timer'[c] = "off" /\ \A d \in Conns : d # c => timer'[d] = timer[d]
    BY <1>10 DEF ClearDeadline, IInv, TypeOK
  <2>4. QED
    BY <2>2, <2>3 DEF IInv, DeadlineIsForLogin
<1>11. CASE CheckAccess(c)
  <2>1. CASE AccessAllowed(who[c].user)
    <3>1. /\ phase[c] = "cleared" /\ UNCHANGED <<who, served, timer>>
          /\ phase' = [phase EXCEPT ![c] = "admitted"]
          /\ globals' = [globals EXCEPT ![c] = "running"]
      BY <1>11, <2>1 DEF CheckAccess, authVars, askVars
    <3>2. /\ phase'[c] = "admitted" /\ globals'[c] = "running"
          /\ \A d \in Conns : d # c => phase'[d] = phase[d] /\ globals'[d] = globals[d]
      BY <3>1 DEF IInv, TypeOK
    <3>3. Proven(c)
      BY <3>1 DEF IInv, Admission, Admitted
    <3>4. /\ \A kind : Serves(kind)' = Serves(kind)
          /\ \A u : AccessAllowed(u)' = AccessAllowed(u)
      BY <1>0, OptionsStay
    <3>5. \A d \in Conns : Proven(d)' = Proven(d)
      BY <3>1 DEF Proven
    <3>6. ASSUME NEW d \in Conns PROVE Admitted(d)'
      <4>1. CASE d = c
        BY <2>1, <3>1, <3>2, <3>3, <3>4, <3>5, <4>1 DEF IInv, Admission, Admitted, Unserved
      <4>2. CASE d # c
        BY <3>1, <3>2, <3>4, <3>5, <4>2 DEF IInv, Admission, Admitted
      <4>3. QED
        BY <4>1, <4>2
    <3>7. DeadlineIsForLogin'
      BY <3>1, <3>2 DEF IInv, DeadlineIsForLogin
    <3>8. QED
      BY <3>6, <3>7 DEF Admission
  <2>2. CASE ~AccessAllowed(who[c].user)
    BY <1>0, <1>11, <2>2, CloseKeeps DEF CheckAccess, authVars, askVars
  <2>3. QED
    BY <2>1, <2>2
<1>12. CASE DispatchChannel(c)
  <2>1. phase[c] = "admitted" /\ UNCHANGED <<config, phase, who, timer, globals>>
    BY <1>12 DEF DispatchChannel, authVars
  <2>2. PICK kind : Begin(c, kind)
    BY <1>12 DEF DispatchChannel
  <2>3. QED
    BY <2>1, <2>2, BeginKeeps
<1>13. CASE HandleGlobal(c)
  <2>1. globals[c] = "running" /\ UNCHANGED <<config, phase, who, timer, globals>>
    BY <1>13 DEF HandleGlobal, authVars
  <2>2. PICK kind : Begin(c, kind)
    BY <1>13 DEF HandleGlobal
  <2>3. QED
    BY <2>1, <2>2, BeginKeeps
<1>14. CASE ChannelLoopEnds(c)
  BY <1>0, <1>14, CloseKeeps DEF ChannelLoopEnds, authVars, askVars
<1>15. CASE GlobalLoopEnds(c)
  <2>1. /\ globals[c] = "running" /\ globals' = [globals EXCEPT ![c] = "ended"]
        /\ UNCHANGED <<phase, who, served, timer>>
    BY <1>15 DEF GlobalLoopEnds, authVars, askVars
  <2>2. globals'[c] = "ended" /\ \A d \in Conns : d # c => globals'[d] = globals[d]
    BY <2>1 DEF IInv, TypeOK
  <2>3. /\ \A kind : Serves(kind)' = Serves(kind)
        /\ \A u : AccessAllowed(u)' = AccessAllowed(u)
    BY <1>0, OptionsStay
  <2>4. \A d \in Conns : Admitted(d)'
    BY <2>1, <2>2, <2>3 DEF IInv, Admission, Admitted, Proven
  <2>5. QED
    BY <2>1, <2>4 DEF IInv, Admission, DeadlineIsForLogin
<1>16. CASE DeadlinePasses(c)
  <2>1. UNCHANGED <<who, served, globals, phase>> /\ timer' = [timer EXCEPT ![c] = "fired"]
    BY <1>16 DEF DeadlinePasses, authVars, askVars
  <2>2. Admission'
    BY <1>0, <2>1, HarmlessKeeps
  <2>3. \A d \in Conns : timer'[d] = "armed" => timer[d] = "armed"
    BY <2>1 DEF IInv, TypeOK
  <2>4. QED
    BY <2>1, <2>2, <2>3 DEF IInv, DeadlineIsForLogin
<1>17. QED
  BY <1>1, <1>2, <1>3, <1>4, <1>5, <1>6, <1>7, <1>8, <1>9, <1>10, <1>11, <1>12, <1>13,
     <1>14, <1>15, <1>16 DEF Client, Server

-----------------------------------------------------------------------------
(* The theorems.                                                           *)

\* The inductive invariant, for any clients, users, keys and options.
THEOREM Invariance == Spec => []IInv
<1>1. Init => IInv
  <2>1. Init => Admission /\ DeadlineIsForLogin
    BY DEF Init, Admission, Admitted, DeadlineIsForLogin, Unserved
  <2>2. QED
    BY <2>1, TypeInit DEF IInv
<1>2. IInv /\ [Next]_vars => IInv'
  <2> SUFFICES ASSUME IInv, [Next]_vars PROVE IInv'
    OBVIOUS
  <2>1. CASE Main
    BY <2>1, TypeMain, MainKeeps DEF IInv
  <2>2. ASSUME NEW c \in Conns, Client(c) \/ Server(c) \/ DeadlinePasses(c) PROVE IInv'
    BY <2>2, TypeConn, ConnKeeps DEF IInv
  <2>3. CASE UNCHANGED vars
    <3>1. /\ UNCHANGED <<config, main, exit, signal, sock, serve, faults, phase, via, link, timer>>
          /\ UNCHANGED <<tries, who, chans, reqs, asked, served, globals>>
      BY <2>3 DEF vars, mainVars, authVars, askVars
    <3>2. TypeOK'
      BY <3>1, OptionsStay DEF IInv, TypeOK
    <3>3. Admission' /\ DeadlineIsForLogin'
      BY <3>1, HarmlessKeeps DEF IInv, DeadlineIsForLogin
    <3>4. QED
      BY <3>2, <3>3 DEF IInv
  <2>4. QED
    BY <2>1, <2>2, <2>3 DEF Next
<1>3. QED
  BY <1>1, <1>2, PTL DEF Spec

\* Types, and that a login ends at the MaxAuthTries-th failure (ssh.go:52-54).
THEOREM TypesAreCorrect == Spec => []TypeOK
<1>1. IInv => TypeOK
  BY DEF IInv
<1>2. QED
  BY <1>1, Invariance, PTL

\* ssh.go:400-413: nothing is begun for a client before its access is checked, and nothing
\* for one that fails the check, whatever it has already sent.
THEOREM OnlyAdmittedAreServed == Spec => []OnlyAdmitted
<1>1. IInv => OnlyAdmitted
  BY DEF IInv, Admission, Admitted, Proven, OnlyAdmitted
<1>2. QED
  BY <1>1, Invariance, PTL

\* ssh.go:394-397: once the deadline is cleared no step of anybody times the client out.
THEOREM SessionsOutliveGrace == Spec => ServedOutliveGrace
<1> DEFINE Times(c) == phase[c] \in {"cleared", "admitted"} /\ link[c] = "up" => link'[c] # "timedout"
<1>1. ASSUME IInv, Next, NEW c \in Conns PROVE Times(c)
  <2> SUFFICES ASSUME phase[c] \in {"cleared", "admitted"}, link[c] = "up"
               PROVE  link'[c] # "timedout"
    OBVIOUS
  <2>1. CASE \E d \in Conns : DeadlinePasses(d)
    <3>1. PICK d \in Conns : DeadlinePasses(d)
      BY <2>1
    <3>2. d # c
      BY <1>1, <3>1 DEF IInv, DeadlineIsForLogin, DeadlinePasses
    <3>3. link'[c] = link[c]
      BY <1>1, <3>1, <3>2 DEF DeadlinePasses, IInv, TypeOK
    <3>4. QED
      BY <3>3
  <2>2. CASE Main
    BY <1>1, <2>2 DEF Main, Bind, BindFails, StartServing, StartInetd, Signal, CloseListener, ServeReturns,
       MainReturns, InetdReturns, Terminate, IInv, TypeOK
  <2>3. CASE \E d \in Conns : Client(d) \/ Server(d)
    BY <1>1, <2>3 DEF Client, Server, Connect, Accept, ArmDeadline, LoadHostKeys, NoHostKeys, AuthSucceeds,
       AuthFails, HandshakeFails, ClearDeadline, CheckAccess, AskChannel, AskGlobal, Leave,
       DispatchChannel, HandleGlobal, ChannelLoopEnds, GlobalLoopEnds, CloseConn, IInv, TypeOK
  <2>4. QED
    BY <1>1, <2>1, <2>2, <2>3 DEF Next
<1>2. IInv /\ [Next]_vars => [\A c \in Conns : Times(c)]_vars
  BY <1>1
<1>3. QED
  BY <1>2, Invariance, PTL DEF Spec, ServedOutliveGrace

-----------------------------------------------------------------------------
(* Induction, and the options after each entry.                            *)

\* Of some natural numbers one is the least.
LEMMA Least ==
  ASSUME NEW T, T \subseteq Nat, T # {}
  PROVE  \E x \in T : \A y \in T : x <= y
<1>1. IsWellFoundedOn(OpToRel(<, Nat), Nat)
  BY NatLessThanWellFounded
<1>2. PICK x \in T : \A y \in T : ~(<<y, x>> \in OpToRel(<, Nat))
  BY <1>1, WFMin
<1>3. \A y \in T : ~(y < x)
  BY <1>2 DEF OpToRel
<1>4. QED
  BY <1>3

\* Induction over the natural numbers, for a set.
LEMMA SetInduction ==
  ASSUME NEW S, 0 \in S, \A n \in Nat : n \in S => n + 1 \in S
  PROVE  \A n \in Nat : n \in S
<1> SUFFICES ASSUME {n \in Nat : n \notin S} # {} PROVE FALSE
  OBVIOUS
<1>1. PICK x \in {n \in Nat : n \notin S} : \A y \in {n \in Nat : n \notin S} : x <= y
  BY Least
<1>2. x - 1 \in Nat /\ x - 1 \notin S
  BY <1>1
<1>3. QED
  BY <1>1, <1>2

\* The recursion of Applied is one over the entries, and defines it.
LEMMA AppliedRecursion ==
  ASSUME NEW S, NEW es \in Seq(S)
  PROVE  /\ Applied(es)[0] = NoOptions
         /\ \A i \in 1 .. Len(es) : Applied(es)[i] = ApplyEntry(Applied(es)[i - 1], es[i])
<1> DEFINE Body(g, n) == [i \in 0 .. n |-> IF i = 0 THEN NoOptions ELSE ApplyEntry(g[i - 1], es[i])]
           N == {n \in Nat : \E g : g = Body(g, n)}
<1>1. 0 \in N
  <2> DEFINE g == [i \in 0 .. 0 |-> NoOptions]
  <2>1. g = Body(g, 0)
    OBVIOUS
  <2>2. QED
    BY <2>1
<1>2. ASSUME NEW n \in Nat, n \in N PROVE n + 1 \in N
  <2>1. PICK g : g = Body(g, n)
    BY <1>2
  <2> DEFINE h == [i \in 0 .. n + 1 |-> IF i = n + 1 THEN ApplyEntry(g[n], es[n + 1]) ELSE g[i]]
  <2>2. h = Body(h, n + 1)
    <3> SUFFICES ASSUME NEW i \in 0 .. n + 1 PROVE h[i] = Body(h, n + 1)[i]
      OBVIOUS
    <3>1. CASE i = n + 1
      <4>1. h[n] = g[n] /\ h[n + 1] = ApplyEntry(g[n], es[n + 1]) /\ n + 1 # 0 /\ n + 1 - 1 = n
        OBVIOUS
      <4>2. QED
        BY <3>1, <4>1
    <3>2. CASE i \in 0 .. n
      <4>1. h[i] = g[i] /\ g[i] = Body(g, n)[i]
        BY <2>1, <3>2
      <4>2. CASE i = 0
        BY <4>1, <4>2
      <4>3. CASE i # 0
        <5>1. i - 1 \in 0 .. n /\ i - 1 # n + 1 /\ i - 1 \in 0 .. n + 1
          BY <3>2, <4>3
        <5>2. h[i - 1] = g[i - 1]
          BY <5>1
        <5>3. QED
          BY <4>1, <4>3, <5>2, <3>2
      <4>4. QED
        BY <4>2, <4>3
    <3>3. QED
      BY <3>1, <3>2
  <2>3. \E f : f = Body(f, n + 1)
    <3> HIDE DEF h
    <3> QED
      BY <2>2
  <2>4. n + 1 \in Nat
    OBVIOUS
  <2> HIDE DEF Body, h
  <2>5. QED
    BY <2>3, <2>4
<1>3. Len(es) \in N
  <2>1. \A n \in Nat : n \in N
    <3> HIDE DEF N
    <3> QED BY <1>1, <1>2, SetInduction
  <2>2. QED
    BY <2>1, LenProperties
<1>4. Applied(es) = Body(Applied(es), Len(es))
  BY <1>3 DEF Applied
<1>5. QED
  BY <1>4

-----------------------------------------------------------------------------
(* One entry.                                                              *)

IsEntry(e) == e \in Entry /\ HasText(e.dir)

OptionsType ==
  [scalar : [ScalarKeys -> Words \cup {Nil}], list : [ListKeys -> Seq(Words \cup Seq(Words))],
   ports : Seq(Words), subsystems : Seq(Seq(Words)), ignored : SUBSET Words, failed : BOOLEAN]

Acts(o, e) == InForce(e) /\ ~Ignores(o, e.dir)

\* What the options p after the entry e have of the options o before it.
Scalars(o, e, p) ==
  \A k \in ScalarKeys :
    p.scalar[k] = IF o.scalar[k] = Nil /\ Acts(o, e) /\ Field(e.dir.key) = k /\ ~Unusable(e.dir)
                  THEN Value(e.dir) ELSE o.scalar[k]
Lists(o, e, p) ==
  \A k \in WordKeys :
    ToSet(p.list[k]) = ToSet(o.list[k]) \cup (IF Acts(o, e) /\ e.dir.key = k THEN ToSet(e.dir.val) ELSE {})
Silence(o, e, p) ==
  p.ignored = o.ignored \cup (IF Acts(o, e) /\ e.dir.key = "IgnoreUnknown" THEN {Value(e.dir)} ELSE {})

Follows(o, e, p) ==
  /\ p \in OptionsType
  /\ p.failed <=> o.failed \/ (Acts(o, e) /\ Rejects(e.dir))
  /\ ~p.failed => Scalars(o, e, p) /\ Lists(o, e, p) /\ Silence(o, e, p)

OtherKeys == StructuralKeys \cup {"Port", "Subsystem"}

LEMMA ListsApart ==
  /\ ListKeys = LineKeys \cup WordKeys
  /\ LineKeys \cap WordKeys = {} /\ ListKeys \cap OtherKeys = {}
  /\ "IgnoreUnknown" \notin ListKeys \cup OtherKeys
BY DEF ListKeys, LineKeys, WordKeys, OtherKeys, StructuralKeys

LEMMA ScalarsApart ==
  /\ "IgnoreUnknown" \in ScalarKeys /\ Field("IgnoreUnknown") = "IgnoreUnknown"
  /\ \A key \in ListKeys \cup OtherKeys : Field(key) \notin ScalarKeys
  /\ \A key : Field(key) \in ScalarKeys => key \in Keywords
  /\ \A key \in Keywords \ (ListKeys \cup OtherKeys) : Field(key) \in ScalarKeys
BY DEF ListKeys, LineKeys, WordKeys, OtherKeys, StructuralKeys, Keywords, ScalarKeys, StringKeys, BoolKeys,
   Aliases, Field

\* The classes do not overlap, so that one arm applies.
LEMMA Dispatch ==
  ASSUME NEW o, NEW d
  PROVE  /\ d.key \in StructuralKeys => ApplyDirective(o, d) = o
         /\ d.key = "Port" => ApplyDirective(o, d) = AddPort(o, d)
         /\ d.key = "Subsystem" => ApplyDirective(o, d) = AddSubsystem(o, d)
         /\ d.key = "IgnoreUnknown" => ApplyDirective(o, d) = Ignore(o, d)
         /\ d.key \in LineKeys => ApplyDirective(o, d) = AppendLine(o, d)
         /\ d.key \in WordKeys => ApplyDirective(o, d) = AppendWords(o, d)
         /\ d.key \notin ListKeys \cup OtherKeys \cup {"IgnoreUnknown"} =>
              ApplyDirective(o, d) = SetScalar(o, d)
BY DEF ApplyDirective, ListKeys, LineKeys, WordKeys, OtherKeys, StructuralKeys

LEMMA ValueIsWord ==
  ASSUME NEW e, IsEntry(e), e.dir.key \notin WordKeys \cup {"Subsystem"}
  PROVE  Value(e.dir) \in Words
<1>1. e.dir.val \in Seq(Words) /\ e.dir.val # <<>>
  BY DEF IsEntry, Entry, HasText
<1>2. Head(e.dir.val) \in Words
  BY <1>1, HeadTailProperties
<1>3. QED
  BY <1>2, WordsAssumption DEF Value

LEMMA ToSetConcat ==
  ASSUME NEW S, NEW s \in Seq(S), NEW t \in Seq(S)
  PROVE  s \o t \in Seq(S) /\ ToSet(s \o t) = ToSet(s) \cup ToSet(t)
<1>1. /\ s \o t \in Seq(S) /\ Len(s \o t) = Len(s) + Len(t)
      /\ \A i \in 1 .. Len(s) + Len(t) : (s \o t)[i] = IF i <= Len(s) THEN s[i] ELSE t[i - Len(s)]
  BY ConcatProperties
<1>2. DOMAIN s = 1 .. Len(s) /\ DOMAIN t = 1 .. Len(t) /\ DOMAIN (s \o t) = 1 .. Len(s) + Len(t)
      /\ Len(s) \in Nat /\ Len(t) \in Nat
  BY <1>1, LenProperties
<1> DEFINE st == s \o t
<1>3. ASSUME NEW x \in ToSet(s) PROVE x \in ToSet(st)
  <2>1. PICK i \in 1 .. Len(s) : x = s[i]
    BY <1>2, <1>3 DEF ToSet
  <2>2. i \in 1 .. Len(s) + Len(t) /\ i <= Len(s)
    BY <1>2
  <2>3. st[i] = x
    BY <1>1, <2>1, <2>2
  <2>4. QED
    BY <1>2, <2>2, <2>3 DEF ToSet
<1>4. ASSUME NEW x \in ToSet(t) PROVE x \in ToSet(st)
  <2>1. PICK i \in 1 .. Len(t) : x = t[i]
    BY <1>2, <1>4 DEF ToSet
  <2>2. i + Len(s) \in 1 .. Len(s) + Len(t) /\ ~(i + Len(s) <= Len(s)) /\ i + Len(s) - Len(s) = i
    BY <1>2
  <2>3. st[i + Len(s)] = x
    BY <1>1, <2>1, <2>2
  <2>4. QED
    BY <1>2, <2>2, <2>3 DEF ToSet
<1>5. ASSUME NEW x \in ToSet(st) PROVE x \in ToSet(s) \cup ToSet(t)
  <2>1. PICK i \in 1 .. Len(s) + Len(t) : x = st[i]
    BY <1>2, <1>5 DEF ToSet
  <2>2. CASE i <= Len(s)
    <3>1. x = s[i] /\ i \in 1 .. Len(s)
      BY <1>1, <1>2, <2>1, <2>2
    <3>2. QED
      BY <1>2, <3>1 DEF ToSet
  <2>3. CASE ~(i <= Len(s))
    <3>1. x = t[i - Len(s)] /\ i - Len(s) \in 1 .. Len(t)
      BY <1>1, <1>2, <2>1, <2>3
    <3>2. QED
      BY <1>2, <3>1 DEF ToSet
  <2>4. QED
    BY <2>2, <2>3
<1>6. QED
  BY <1>1, <1>3, <1>4, <1>5

\* What changes neither scalars, words nor what is ignored.
LEMMA NothingFollows ==
  ASSUME NEW o \in OptionsType, NEW e, NEW p \in OptionsType, ~Rejects(e.dir), ~o.failed,
         e.dir.key \in LineKeys \cup OtherKeys,
         p.failed = o.failed, p.scalar = o.scalar, p.ignored = o.ignored,
         \A k \in WordKeys : p.list[k] = o.list[k]
  PROVE  Follows(o, e, p)
<1>1. Field(e.dir.key) \notin ScalarKeys /\ e.dir.key \notin WordKeys /\ e.dir.key # "IgnoreUnknown"
  BY ScalarsApart, ListsApart
<1>2. Scalars(o, e, p)
  BY <1>1 DEF Scalars
<1>3. Lists(o, e, p)
  BY <1>1 DEF Lists
<1>4. Silence(o, e, p)
  BY <1>1 DEF Silence
<1>5. QED
  BY <1>2, <1>3, <1>4 DEF Follows

\* A directive that is known and fit is set, appended, or passed over.
LEMMA DirectiveFollows ==
  ASSUME NEW o \in OptionsType, NEW e, IsEntry(e), Acts(o, e), ~o.failed, ~Rejects(e.dir)
  PROVE  Follows(o, e, ApplyDirective(o, e.dir))
<1> DEFINE d == e.dir
           p == ApplyDirective(o, d)
<1> SUFFICES Follows(o, e, p)
  OBVIOUS
<1> HIDE DEF p
<1>0. d.key \in Keywords /\ d.val \in Seq(Words)
  BY DEF Rejects, IsEntry, Entry
<1>1. CASE d.key \in StructuralKeys
  <2>1. p = o
    BY <1>1, Dispatch DEF p
  <2>2. QED
    BY <1>1, <2>1, NothingFollows DEF OtherKeys
<1>2. CASE d.key = "Port"
  <2>1. p = AddPort(o, d)
    BY <1>2, Dispatch DEF p
  <2>2. Value(d) \in Words
    BY <1>2, ValueIsWord DEF WordKeys
  <2>3. Append(o.ports, Value(d)) \in Seq(Words)
    BY <2>2, AppendProperties DEF OptionsType
  <2>4. p \in OptionsType /\ p.failed = o.failed /\ p.scalar = o.scalar /\ p.list = o.list /\ p.ignored = o.ignored
    BY <2>1, <2>3 DEF AddPort, OptionsType
  <2>5. QED
    BY <1>2, <2>4, NothingFollows DEF OtherKeys
<1>3. CASE d.key = "Subsystem"
  <2>1. p = AddSubsystem(o, d)
    BY <1>3, Dispatch DEF p
  <2>2. Append(o.subsystems, d.val) \in Seq(Seq(Words))
    BY <1>0, AppendProperties DEF OptionsType
  <2>3. p \in OptionsType /\ p.failed = o.failed /\ p.scalar = o.scalar /\ p.list = o.list /\ p.ignored = o.ignored
    BY <2>1, <2>2 DEF AddSubsystem, OptionsType
  <2>4. QED
    BY <1>3, <2>3, NothingFollows DEF OtherKeys
<1>4. CASE d.key \in LineKeys
  <2>1. p = AppendLine(o, d)
    BY <1>4, Dispatch DEF p
  <2>2. o.list[d.key] \in Seq(Words \cup Seq(Words)) /\ d.key \in ListKeys
    BY <1>4, ListsApart DEF OptionsType
  <2>3. Append(o.list[d.key], d.val) \in Seq(Words \cup Seq(Words))
    BY <1>0, <2>2, AppendProperties
  <2>4. p \in OptionsType /\ p.failed = o.failed /\ p.scalar = o.scalar /\ p.ignored = o.ignored
    BY <2>1, <2>2, <2>3 DEF AppendLine, OptionsType
  <2>5. \A k \in WordKeys : p.list[k] = o.list[k]
    BY <1>4, <2>1, <2>2, ListsApart DEF AppendLine, OptionsType
  <2>6. QED
    BY <1>4, <2>4, <2>5, NothingFollows
<1>5. CASE d.key \in WordKeys
  <2>1. p = AppendWords(o, d)
    BY <1>5, Dispatch DEF p
  <2>2. o.list[d.key] \in Seq(Words \cup Seq(Words)) /\ d.key \in ListKeys
    BY <1>5, ListsApart DEF OptionsType
  <2>3. d.val \in Seq(Words \cup Seq(Words))
    BY <1>0
  <2>4. /\ o.list[d.key] \o d.val \in Seq(Words \cup Seq(Words))
        /\ ToSet(o.list[d.key] \o d.val) = ToSet(o.list[d.key]) \cup ToSet(d.val)
    BY <2>2, <2>3, ToSetConcat
  <2>5. p \in OptionsType /\ p.failed = o.failed /\ p.scalar = o.scalar /\ p.ignored = o.ignored
    BY <2>1, <2>2, <2>4 DEF AppendWords, OptionsType
  <2>6. \A k \in WordKeys : p.list[k] = IF d.key = k THEN o.list[k] \o d.val ELSE o.list[k]
    BY <2>1, <2>2, ListsApart DEF AppendWords, OptionsType
  <2>7. d.key # "IgnoreUnknown" /\ Field(d.key) \notin ScalarKeys
    BY <1>5, ListsApart, ScalarsApart
  <2>8. Lists(o, e, p)
    BY <2>4, <2>6 DEF Lists
  <2>9. Scalars(o, e, p)
    BY <2>5, <2>7 DEF Scalars
  <2>10. Silence(o, e, p)
    BY <2>5, <2>7 DEF Silence
  <2>11. QED
    BY <2>5, <2>8, <2>9, <2>10 DEF Follows
<1>6. CASE d.key \notin ListKeys \cup OtherKeys
  <2>1. Field(d.key) \in ScalarKeys /\ d.key \notin WordKeys
    BY <1>0, <1>6, ScalarsApart, ListsApart
  <2>2. Value(d) \in Words
    BY <1>6, <2>1, ValueIsWord DEF OtherKeys
  <2> DEFINE q == SetScalar(o, d)
  <2>3. /\ q \in OptionsType /\ q.failed = o.failed /\ q.list = o.list /\ q.ignored = o.ignored
        /\ \A k \in ScalarKeys :
             q.scalar[k] = IF o.scalar[k] = Nil /\ Field(d.key) = k /\ ~Unusable(d) THEN Value(d) ELSE o.scalar[k]
    BY <2>1, <2>2 DEF SetScalar, OptionsType
  <2>4. CASE d.key = "IgnoreUnknown"
    <3>1. p = [q EXCEPT !.ignored = q.ignored \cup {Value(d)}]
      BY <2>4, Dispatch DEF p, Ignore
    <3> HIDE DEF q
    <3>2. /\ p \in OptionsType /\ p.failed = o.failed /\ p.list = o.list
          /\ p.scalar = q.scalar /\ p.ignored = o.ignored \cup {Value(d)}
      BY <2>2, <2>3, <3>1 DEF OptionsType
    <3>3. Scalars(o, e, p)
      BY <2>3, <3>2 DEF Scalars
    <3>4. Lists(o, e, p)
      BY <2>1, <3>2 DEF Lists
    <3>5. Silence(o, e, p)
      BY <2>4, <3>2 DEF Silence
    <3>6. QED
      BY <3>2, <3>3, <3>4, <3>5 DEF Follows
  <2>5. CASE d.key # "IgnoreUnknown"
    <3>1. p = q
      BY <1>6, <2>5, Dispatch DEF p
    <3> HIDE DEF q
    <3>2. Scalars(o, e, p)
      BY <2>3, <3>1 DEF Scalars
    <3>3. Lists(o, e, p)
      BY <2>1, <2>3, <3>1 DEF Lists
    <3>4. Silence(o, e, p)
      BY <2>3, <2>5, <3>1 DEF Silence
    <3>5. QED
      BY <2>3, <3>1, <3>2, <3>3, <3>4 DEF Follows
  <2>6. QED
    BY <2>4, <2>5
<1>7. QED
  BY <1>1, <1>2, <1>3, <1>4, <1>5, <1>6, ListsApart DEF OtherKeys

LEMMA EntryFollows ==
  ASSUME NEW o \in OptionsType, NEW e, IsEntry(e)
  PROVE  Follows(o, e, ApplyEntry(o, e))
<1>1. CASE o.failed
  BY <1>1 DEF ApplyEntry, Follows, OptionsType
<1>2. CASE ~o.failed /\ ~Acts(o, e)
  <2>1. ApplyEntry(o, e) = o
    BY <1>2 DEF ApplyEntry, Acts
  <2>2. Scalars(o, e, o) /\ Lists(o, e, o) /\ Silence(o, e, o)
    BY <1>2 DEF Scalars, Lists, Silence
  <2>3. QED
    BY <1>2, <2>1, <2>2 DEF Follows
<1>3. CASE ~o.failed /\ Acts(o, e) /\ Rejects(e.dir)
  BY <1>3 DEF ApplyEntry, Follows, OptionsType, Acts
<1>4. CASE ~o.failed /\ Acts(o, e) /\ ~Rejects(e.dir)
  <2>1. ApplyEntry(o, e) = ApplyDirective(o, e.dir)
    BY <1>4 DEF ApplyEntry, Acts
  <2>2. QED
    BY <1>4, <2>1, DirectiveFollows
<1>5. QED
  BY <1>1, <1>2, <1>3, <1>4

-----------------------------------------------------------------------------
(* All entries.                                                            *)

\* The options o are what the first n entries say.
ScalarsRead(es, n, o) ==
  \A k \in ScalarKeys :
    \/ \E i \in 1 .. n : SaysFirst(es, i, k) /\ o.scalar[k] = Value(es[i].dir)
    \/ o.scalar[k] = Nil /\ \A i \in 1 .. n : ~Says(es, i, k)
ListsRead(es, n, o) ==
  \A k \in WordKeys : \A w :
    w \in ToSet(o.list[k]) <=> \E i \in 1 .. n : Counts(es, i) /\ es[i].dir.key = k /\ w \in ToSet(es[i].dir.val)
SilenceRead(es, n, o) == \A p : p \in o.ignored <=> Ignored(es, n + 1, p)

ReadTo(es, n, o) ==
  /\ o \in OptionsType
  /\ o.failed <=> \E i \in 1 .. n : BreaksOff(es, i)
  /\ ~o.failed => ScalarsRead(es, n, o) /\ ListsRead(es, n, o) /\ SilenceRead(es, n, o)

LEMMA Silenced ==
  ASSUME NEW es, NEW n \in Nat
  PROVE  Ignored(es, n + 1, "IgnoreUnknown") <=> \E h \in 1 .. n : Silences(es, h, "IgnoreUnknown")
<1>1. ASSUME NEW h \in 1 .. n, Silences(es, h, "IgnoreUnknown") PROVE Ignored(es, n + 1, "IgnoreUnknown")
  <2> DEFINE T == {j \in 1 .. n : Silences(es, j, "IgnoreUnknown")}
  <2>1. T \subseteq Nat /\ T # {}
    BY <1>1
  <2>2. PICK j \in T : \A i \in T : j <= i
    BY <2>1, Least
  <2>3. j \in 1 .. n + 1 - 1 /\ \A i \in 1 .. j - 1 : ~Silences(es, i, "IgnoreUnknown")
    BY <2>2
  <2>4. QED
    BY <2>2, <2>3 DEF Ignored
<1>2. ASSUME Ignored(es, n + 1, "IgnoreUnknown") PROVE \E h \in 1 .. n : Silences(es, h, "IgnoreUnknown")
  BY <1>2 DEF Ignored
<1>3. QED
  BY <1>1, <1>2

LEMMA OneMoreIsIgnored ==
  ASSUME NEW es, NEW n \in Nat, NEW p
  PROVE  Ignored(es, n + 2, p) <=>
           \/ Ignored(es, n + 1, p)
           \/ Silences(es, n + 1, p) /\ ~Ignored(es, n + 1, "IgnoreUnknown")
<1>1. 1 .. n + 2 - 1 = 1 .. n + 1 - 1 \cup {n + 1} /\ 1 .. n + 1 - 1 = 1 .. n
  OBVIOUS
<1>2. QED
  BY <1>1, Silenced DEF Ignored

LEMMA ReadOn ==
  ASSUME NEW es \in Seq(Entry), NEW n \in Nat, n + 1 <= Len(es), NEW o, NEW p,
         \A i \in DOMAIN es : HasText(es[i].dir),
         ReadTo(es, n, o), Follows(o, es[n + 1], p)
  PROVE  ReadTo(es, n + 1, p)
<1> DEFINE e == es[n + 1]
           key == e.dir.key
<1>1. 1 .. n + 1 = 1 .. n \cup {n + 1} /\ n + 1 \notin 1 .. n /\ n + 1 + 1 = n + 2 /\ n + 1 \in 1 .. n + 1
  OBVIOUS
<1>2. ASSUME ~o.failed
      PROVE  /\ Acts(o, e) /\ Rejects(e.dir) <=> BreaksOff(es, n + 1)
             /\ key \in Keywords => (Acts(o, e) <=> Counts(es, n + 1))
  <2>1. \A q : q \in o.ignored <=> Ignored(es, n + 1, q)
    BY <1>2 DEF ReadTo, SilenceRead
  <2>2. key \notin Keywords => Rejects(e.dir)
    BY DEF Rejects
  <2>3. QED
    BY <2>1, <2>2 DEF Acts, Ignores, Counts, BreaksOff
<1>3. o.failed \in BOOLEAN /\ p.failed \in BOOLEAN /\ p \in OptionsType
  BY DEF ReadTo, Follows, OptionsType
<1>4. p.failed <=> \E i \in 1 .. n + 1 : BreaksOff(es, i)
  <2>1. o.failed <=> \E i \in 1 .. n : BreaksOff(es, i)
    BY DEF ReadTo
  <2>2. p.failed <=> o.failed \/ (Acts(o, e) /\ Rejects(e.dir))
    BY DEF Follows
  <2>3. QED
    BY <1>1, <1>2, <2>1, <2>2
<1>5. ASSUME ~p.failed PROVE ScalarsRead(es, n + 1, p) /\ ListsRead(es, n + 1, p) /\ SilenceRead(es, n + 1, p)
  <2>1. ~o.failed
    BY <1>5 DEF Follows
  <2>2. /\ ScalarsRead(es, n, o) /\ ListsRead(es, n, o) /\ SilenceRead(es, n, o)
        /\ Scalars(o, e, p) /\ Lists(o, e, p) /\ Silence(o, e, p)
    BY <1>5, <2>1 DEF Follows, ReadTo
  <2>3. ScalarsRead(es, n + 1, p)
    <3> SUFFICES ASSUME NEW k \in ScalarKeys
                 PROVE  \/ \E i \in 1 .. n + 1 : SaysFirst(es, i, k) /\ p.scalar[k] = Value(es[i].dir)
                        \/ p.scalar[k] = Nil /\ \A i \in 1 .. n + 1 : ~Says(es, i, k)
      BY DEF ScalarsRead
    <3>1. Says(es, n + 1, k) <=> Acts(o, e) /\ Field(key) = k /\ ~Unusable(e.dir)
      BY <1>2, <2>1, ScalarsApart DEF Says
    <3>2. p.scalar[k] = IF o.scalar[k] = Nil /\ Says(es, n + 1, k) THEN Value(e.dir) ELSE o.scalar[k]
      BY <2>2, <3>1 DEF Scalars
    <3>3. CASE \E i \in 1 .. n : SaysFirst(es, i, k) /\ o.scalar[k] = Value(es[i].dir)
      <4>1. PICK i \in 1 .. n : SaysFirst(es, i, k) /\ o.scalar[k] = Value(es[i].dir)
        BY <3>3
      <4>2. i \in DOMAIN es /\ IsEntry(es[i])
        BY LenProperties DEF IsEntry
      <4>3. es[i].dir.key \notin WordKeys \cup {"Subsystem"}
        BY <4>1, ScalarsApart DEF SaysFirst, Says, ListKeys, OtherKeys
      <4>4. o.scalar[k] # Nil
        BY <4>1, <4>2, <4>3, ValueIsWord, WordsAssumption
      <4>5. p.scalar[k] = o.scalar[k]
        BY <3>2, <4>4
      <4>6. QED
        BY <1>1, <4>1, <4>5
    <3>4. CASE o.scalar[k] = Nil /\ \A i \in 1 .. n : ~Says(es, i, k)
      <4>1. CASE Says(es, n + 1, k)
        <5>1. SaysFirst(es, n + 1, k)
          BY <3>4, <4>1 DEF SaysFirst
        <5>2. QED
          BY <1>1, <3>2, <3>4, <4>1, <5>1
      <4>2. CASE ~Says(es, n + 1, k)
        BY <1>1, <3>2, <3>4, <4>2
      <4>3. QED
        BY <4>1, <4>2
    <3>5. QED
      BY <2>2, <3>3, <3>4 DEF ScalarsRead
  <2>4. ListsRead(es, n + 1, p)
    <3> SUFFICES ASSUME NEW k \in WordKeys, NEW w
                 PROVE  w \in ToSet(p.list[k]) <=>
                          \E i \in 1 .. n + 1 : Counts(es, i) /\ es[i].dir.key = k /\ w \in ToSet(es[i].dir.val)
      BY DEF ListsRead
    <3>1. w \in ToSet(p.list[k]) <=> w \in ToSet(o.list[k]) \/ (Acts(o, e) /\ key = k /\ w \in ToSet(e.dir.val))
      BY <2>2 DEF Lists
    <3>2. k \in Keywords
      BY DEF Keywords, ListKeys
    <3>3. w \in ToSet(o.list[k]) <=> \E i \in 1 .. n : Counts(es, i) /\ es[i].dir.key = k /\ w \in ToSet(es[i].dir.val)
      BY <2>2 DEF ListsRead
    <3>4. QED
      BY <1>1, <1>2, <2>1, <3>1, <3>2, <3>3
  <2>5. SilenceRead(es, n + 1, p)
    <3> SUFFICES ASSUME NEW q PROVE q \in p.ignored <=> Ignored(es, n + 2, q)
      BY <1>1 DEF SilenceRead
    <3>1. q \in p.ignored <=> q \in o.ignored \/ (Acts(o, e) /\ key = "IgnoreUnknown" /\ q = Value(e.dir))
      BY <2>2 DEF Silence
    <3>2. key = "IgnoreUnknown" => (Acts(o, e) <=> InForce(e) /\ ~Ignored(es, n + 1, "IgnoreUnknown"))
      BY <1>2, <2>1, ScalarsApart DEF Counts
    <3>3. q \in o.ignored <=> Ignored(es, n + 1, q)
      BY <2>2 DEF SilenceRead
    <3>4. QED
      BY <3>1, <3>2, <3>3, OneMoreIsIgnored DEF Silences
  <2>6. QED
    BY <2>3, <2>4, <2>5
<1>6. QED
  BY <1>3, <1>4, <1>5 DEF ReadTo

LEMMA AllRead ==
  ASSUME NEW es \in Seq(Entry), \A i \in DOMAIN es : HasText(es[i].dir)
  PROVE  ReadTo(es, Len(es), Applied(es)[Len(es)])
<1> DEFINE R(n) == n <= Len(es) => ReadTo(es, n, Applied(es)[n])
           N == {n \in Nat : R(n)}
<1>1. 0 \in N
  <2>1. NoOptions \in OptionsType /\ ~NoOptions.failed /\ NoOptions.ignored = {}
        /\ (\A k \in ScalarKeys : NoOptions.scalar[k] = Nil) /\ \A k \in ListKeys : NoOptions.list[k] = <<>>
    BY DEF NoOptions, OptionsType
  <2>2. \A k \in WordKeys : ToSet(NoOptions.list[k]) = {}
    BY <2>1, ListsApart DEF ToSet
  <2>3. 1 .. 0 = {} /\ 1 .. 0 + 1 - 1 = {}
    OBVIOUS
  <2>4. ScalarsRead(es, 0, NoOptions)
    BY <2>1, <2>3 DEF ScalarsRead
  <2>5. ListsRead(es, 0, NoOptions)
    BY <2>2, <2>3 DEF ListsRead
  <2>6. SilenceRead(es, 0, NoOptions)
    BY <2>1, <2>3 DEF SilenceRead, Ignored
  <2>7. ReadTo(es, 0, NoOptions)
    BY <2>1, <2>3, <2>4, <2>5, <2>6 DEF ReadTo
  <2>8. QED
    BY <2>7, AppliedRecursion
<1>2. ASSUME NEW n \in Nat, n \in N PROVE n + 1 \in N
  <2> SUFFICES ASSUME n + 1 <= Len(es) PROVE ReadTo(es, n + 1, Applied(es)[n + 1])
    OBVIOUS
  <2>1. Len(es) \in Nat /\ DOMAIN es = 1 .. Len(es)
    BY LenProperties
  <2>2. ReadTo(es, n, Applied(es)[n])
    BY <1>2, <2>1
  <2>3. n + 1 \in 1 .. Len(es) /\ n + 1 - 1 = n
    BY <2>1
  <2>4. Applied(es)[n + 1] = ApplyEntry(Applied(es)[n], es[n + 1])
    BY <2>3, AppliedRecursion
  <2>5. IsEntry(es[n + 1]) /\ Applied(es)[n] \in OptionsType
    BY <2>1, <2>2, <2>3 DEF IsEntry, ReadTo
  <2>6. Follows(Applied(es)[n], es[n + 1], Applied(es)[n + 1])
    BY <2>4, <2>5, EntryFollows
  <2>7. QED
    BY <2>2, <2>6, ReadOn
<1>3. \A n \in Nat : n \in N
  <2> HIDE DEF N
  <2> QED
    BY <1>1, <1>2, SetInduction
<1>4. QED
  BY <1>3, LenProperties

LEMMA SettingRead ==
  ASSUME NEW es \in Seq(Entry), \A i \in DOMAIN es : HasText(es[i].dir),
         NEW k \in ScalarKeys, NEW v,
         \/ \E i \in 1 .. Len(es) : SaysFirst(es, i, k) /\ v = Value(es[i].dir)
         \/ v = Nil /\ \A i \in 1 .. Len(es) : ~Says(es, i, k)
  PROVE  Setting(es, k) = IF v = Nil THEN DefaultOf(k) ELSE v
<1>0. DOMAIN es = 1 .. Len(es) /\ Len(es) \in Nat
  BY LenProperties
<1>1. ASSUME NEW i \in 1 .. Len(es), SaysFirst(es, i, k), v = Value(es[i].dir) PROVE Setting(es, k) = v /\ v # Nil
  <2> DEFINE j == CHOOSE m \in DOMAIN es : SaysFirst(es, m, k)
  <2>1. j \in DOMAIN es /\ SaysFirst(es, j, k)
    BY <1>0, <1>1
  <2>2. j = i
    <3>1. j \in 1 .. Len(es)
      BY <1>0, <2>1
    <3> HIDE DEF j
    <3>2. ~(j < i) /\ ~(i < j)
      BY <1>0, <1>1, <2>1, <3>1 DEF SaysFirst
    <3>3. QED
      BY <1>0, <3>1, <3>2
  <2>3. Says(es, i, k)
    BY <1>1 DEF SaysFirst
  <2>4. Setting(es, k) = Value(es[i].dir)
    BY <1>0, <2>2, <2>3 DEF Setting
  <2>5. es[i].dir.key \notin WordKeys \cup {"Subsystem"}
    BY <2>3, ScalarsApart DEF Says, ListKeys, OtherKeys
  <2>6. IsEntry(es[i])
    BY <1>0 DEF IsEntry
  <2>7. QED
    BY <1>1, <2>4, <2>5, <2>6, ValueIsWord, WordsAssumption
<1>2. CASE v = Nil /\ \A i \in 1 .. Len(es) : ~Says(es, i, k)
  BY <1>0, <1>2 DEF Setting
<1>3. QED
  BY <1>1, <1>2

\* resolve.go:55-60, apply.go:12-13: for any command line and file, sshd fails to resolve its
\* options over a malformed entry that counts and over nothing else; an option has the first
\* value that its keyword can take, or else its default; and a list has all the words
\* written for it, and no other.
THEOREM OptionsAreAsWritten ==
  ASSUME NEW b, AllEntries(b) \in Seq(Entry), \A i \in DOMAIN AllEntries(b) : HasText(AllEntries(b)[i].dir)
  PROVE  /\ Resolve(b).failed <=> Malformed(AllEntries(b))
         /\ ~Resolve(b).failed =>
              /\ \A k \in ScalarKeys : Resolve(b).scalar[k] = Setting(AllEntries(b), k)
              /\ \A k \in WordKeys : ToSet(Resolve(b).list[k]) = Listed(AllEntries(b), k)
<1> DEFINE es == AllEntries(b)
           o == Applied(es)[Len(es)]
           r == Resolve(b)
<1> HIDE DEF es
<1>1. es \in Seq(Entry) /\ \A i \in DOMAIN es : HasText(es[i].dir)
  BY DEF es
<1>2. ReadTo(es, Len(es), o)
  BY <1>1, AllRead
<1>3. r = IF o.failed THEN o ELSE WithDefaults(o)
  BY DEF Resolve, es
<1> HIDE DEF o, r
<1>4. DOMAIN es = 1 .. Len(es)
  BY <1>1, LenProperties
<1>5. o \in OptionsType
  BY <1>2 DEF ReadTo
<1>6. r.failed <=> Malformed(es)
  <2>1. WithDefaults(o).failed = o.failed
    BY <1>5 DEF WithDefaults, OptionsType
  <2>2. r.failed = o.failed
    BY <1>3, <2>1
  <2>3. QED
    BY <1>2, <1>4, <2>2 DEF ReadTo, Malformed
<1>7. ASSUME ~r.failed, NEW k \in ScalarKeys PROVE r.scalar[k] = Setting(es, k)
  <2>1. ~o.failed /\ r = WithDefaults(o)
    BY <1>3, <1>7
  <2>2. r.scalar[k] = IF o.scalar[k] = Nil THEN DefaultOf(k) ELSE o.scalar[k]
    BY <1>5, <2>1 DEF WithDefaults, OptionsType
  <2>3. \/ \E i \in 1 .. Len(es) : SaysFirst(es, i, k) /\ o.scalar[k] = Value(es[i].dir)
        \/ o.scalar[k] = Nil /\ \A i \in 1 .. Len(es) : ~Says(es, i, k)
    BY <1>2, <2>1 DEF ReadTo, ScalarsRead
  <2>4. QED
    BY <1>1, <2>2, <2>3, SettingRead
<1>8. ASSUME ~r.failed, NEW k \in WordKeys PROVE ToSet(r.list[k]) = Listed(es, k)
  <2>1. ~o.failed /\ r = WithDefaults(o)
    BY <1>3, <1>8
  <2>2. k \in ListKeys /\ k # "HostKey"
    BY ListsApart DEF LineKeys, WordKeys
  <2>3. r.list[k] = o.list[k]
    BY <1>5, <2>1, <2>2 DEF WithDefaults, OptionsType
  <2>4. \A w : w \in ToSet(o.list[k]) <=>
               \E i \in 1 .. Len(es) : Counts(es, i) /\ es[i].dir.key = k /\ w \in ToSet(es[i].dir.val)
    BY <1>2, <2>1 DEF ReadTo, ListsRead
  <2>5. QED
    BY <1>4, <2>3, <2>4 DEF Listed
<1>9. QED
  BY <1>6, <1>7, <1>8 DEF es, r

-----------------------------------------------------------------------------
\* Who is known has used a method that the options enable.
LoggedIn == \A c \in Conns : who[c] # Nobody => "publickey" \in WiredMethods

LEMMA LoggedInKeeps == ASSUME IInv, LoggedIn, [Next]_vars PROVE LoggedIn'
<1>1. CASE config' = config /\ who' = who
  BY <1>1 DEF LoggedIn, WiredMethods
<1>2. CASE \E c \in Conns : AuthSucceeds(c)
  <2>1. "publickey" \in WiredMethods /\ config' = config
    BY <1>2 DEF AuthSucceeds, Authenticates
  <2>2. QED
    BY <2>1 DEF LoggedIn, WiredMethods
<1>3. CASE Main
  <2>1. config' = config /\ who' = who
    BY <1>3 DEF Main, Bind, BindFails, StartServing, StartInetd, Signal, CloseListener, ServeReturns,
       MainReturns, InetdReturns, Terminate, authVars
  <2>2. QED
    BY <1>1, <2>1
<1>4. ASSUME NEW c \in Conns, Client(c) \/ Server(c) \/ DeadlinePasses(c), ~AuthSucceeds(c)
      PROVE  config' = config /\ who' = who
  BY <1>4 DEF Client, Server, Connect, Accept, ArmDeadline, LoadHostKeys, NoHostKeys,
     AuthFails, HandshakeFails, ClearDeadline, CheckAccess, AskChannel, AskGlobal, Leave,
     DispatchChannel, HandleGlobal, ChannelLoopEnds, GlobalLoopEnds, DeadlinePasses, authVars
<1>5. CASE UNCHANGED vars
  BY <1>1, <1>5 DEF vars, authVars
<1>6. QED
  BY <1>1, <1>2, <1>3, <1>4, <1>5 DEF Next

LEMMA AdmittedAsWritten ==
  ASSUME NEW b, NEW clients, config = ServedWith(b, clients), ~Resolve(b).failed,
         AllEntries(b) \in Seq(Entry), \A i \in DOMAIN AllEntries(b) : HasText(AllEntries(b)[i].dir),
         NEW u, AccessAllowed(u), "publickey" \in WiredMethods
  PROVE  ~Malformed(AllEntries(b)) /\ Admits(AllEntries(b), u)
<1> DEFINE es == AllEntries(b)
           r == Resolve(b)
<1>1. /\ ~Malformed(es)
      /\ \A k \in ScalarKeys : r.scalar[k] = Setting(es, k)
      /\ \A k \in WordKeys : ToSet(r.list[k]) = Listed(es, k)
  BY OptionsAreAsWritten
<1>2. {"RefuseConnection", "PubkeyAuthentication"} \subseteq ScalarKeys /\ {"DenyUsers", "AllowUsers"} \subseteq WordKeys
  BY DEF ScalarKeys, StringKeys, BoolKeys, WordKeys
<1>3. /\ config.refuse <=> r.scalar["RefuseConnection"] \notin {Nil, ""}
      /\ config.deny = {[user |-> w] : w \in ToSet(r.list["DenyUsers"])}
      /\ config.allow = {[user |-> w] : w \in ToSet(r.list["AllowUsers"])}
      /\ "publickey" \in config.enabled <=> r.scalar[SwitchOf["publickey"]] = "yes"
  BY DEF ServedWith, Methods
<1>4. SwitchOf["publickey"] = "PubkeyAuthentication"
  BY DEF SwitchOf, Methods
<1> HIDE DEF es, r
<1>5. Setting(es, "RefuseConnection") \in {Nil, ""} /\ Setting(es, "PubkeyAuthentication") = "yes"
  BY <1>1, <1>2, <1>3, <1>4 DEF AccessAllowed, WiredMethods
<1>6. Listed(es, "DenyUsers") \cap {u, "*"} = {}
  <2>1. \A w \in ToSet(r.list["DenyUsers"]) : [user |-> w] \in config.deny /\ [user |-> w].user = w
    BY <1>3
  <2>2. QED
    BY <1>1, <1>2, <2>1 DEF AccessAllowed, MatchesAny
<1>7. ASSUME Listed(es, "AllowUsers") # {} PROVE Listed(es, "AllowUsers") \cap {u, "*"} # {}
  <2>0. Listed(es, "AllowUsers") = ToSet(r.list["AllowUsers"])
    BY <1>1, <1>2
  <2>1. config.allow # {}
    <3>1. PICK w : w \in ToSet(r.list["AllowUsers"])
      BY <1>7, <2>0
    <3>2. [user |-> w] \in config.allow
      BY <1>3, <3>1
    <3>3. QED
      BY <3>2
  <2>2. PICK p \in config.allow : p.user \in {"*", u}
    BY <2>1 DEF AccessAllowed, MatchesAny
  <2>3. p.user \in Listed(es, "AllowUsers")
    <3>1. PICK w \in ToSet(r.list["AllowUsers"]) : p = [user |-> w]
      BY <1>3, <2>2
    <3>2. p.user = w
      BY <3>1
    <3>3. QED
      BY <2>0, <3>1, <3>2
  <2>4. QED
    BY <2>2, <2>3
<1>8. QED
  BY <1>1, <1>5, <1>6, <1>7 DEF Admits, es

LEMMA PermittedAsWritten ==
  ASSUME NEW b, NEW clients, config = ServedWith(b, clients), ~Resolve(b).failed,
         AllEntries(b) \in Seq(Entry), \A i \in DOMAIN AllEntries(b) : HasText(AllEntries(b)[i].dir),
         NEW kind, Serves(kind)
  PROVE  Permits(AllEntries(b), kind)
<1> DEFINE es == AllEntries(b)
           r == Resolve(b)
<1>1. \A k \in ScalarKeys : r.scalar[k] = Setting(es, k)
  BY OptionsAreAsWritten
<1>2. {"DisableForwarding", "AllowTcpForwarding"} \subseteq ScalarKeys
  BY DEF ScalarKeys, StringKeys, BoolKeys
<1>3. (config.disable <=> r.scalar["DisableForwarding"] = "yes") /\ config.tcp = r.scalar["AllowTcpForwarding"]
  BY DEF ServedWith
<1> HIDE DEF es, r
<1>4. QED
  BY <1>1, <1>2, <1>3 DEF Serves, TcpForwardingAllowed, Permits, es

\* From the words of any command line and file to a session (resolve.go:55-60, ssh.go:399-408
\* and 555-573, default_auth.go:99-111): whatever is begun for a client, the entries in force
\* admit its user and permit what it asked for, whoever connects and whatever they do.
THEOREM ServedIsAsWritten == Spec => []ServedAsWritten
<1>1. Init => LoggedIn
  BY DEF Init, LoggedIn
<1>2. IInv /\ LoggedIn => ServedAsWritten
  <2> SUFFICES ASSUME IInv, LoggedIn, NEW x \in Boots, Starts(x[1]), config = ServedWith(x[1], x[2]),
                      NEW c \in Conns, served[c] # {}
               PROVE  /\ ~Malformed(AllEntries(x[1]))
                      /\ Admits(AllEntries(x[1]), who[c].user)
                      /\ \A kind \in served[c] : Permits(AllEntries(x[1]), kind)
    BY DEF ServedAsWritten
  <2>1. ~Resolve(x[1]).failed
    BY DEF Starts
  <2>2. /\ AllEntries(x[1]) \in Seq(Entry)
        /\ \A i \in DOMAIN AllEntries(x[1]) : HasText(AllEntries(x[1])[i].dir)
    BY BootsAssumption
  <2>3. /\ AccessAllowed(who[c].user) /\ who[c] # Nobody
        /\ \A kind \in served[c] : Serves(kind)
    BY DEF IInv, Admission, Admitted, Proven
  <2>4. "publickey" \in WiredMethods
    BY <2>3 DEF LoggedIn
  <2>5. ~Malformed(AllEntries(x[1])) /\ Admits(AllEntries(x[1]), who[c].user)
    BY <2>1, <2>2, <2>3, <2>4, AdmittedAsWritten
  <2>6. QED
    BY <2>1, <2>2, <2>3, <2>5, PermittedAsWritten
<1>3. QED
  BY <1>1, <1>2, Invariance, LoggedInKeeps, PTL DEF Spec
=============================================================================
