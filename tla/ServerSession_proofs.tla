------------------------ MODULE ServerSession_proofs ------------------------
(***************************************************************************)
(* Proofs about ServerSession.                                             *)
(*                                                                         *)
(* The exit message is about what happened before it: the invariant says   *)
(* for each place of a handler what it has started, what has become of     *)
(* the process, and what has been reported so far (Life).  The answers are *)
(* about what is still to be read: the books balance over the buffer and   *)
(* the packet in the mux's hand.                                           *)
(***************************************************************************)
EXTENDS ServerSession, FiniteSetTheorems, FunctionTheorems, TLAPS

RunNow(s) == /\ at[s] \in {"none", "reading"} => run[s] = "nothing"
             /\ at[s] = "internal" => run[s] = "internal"

\* Nothing has been spawned.
Idle(s) == proc[s] = "none" /\ copy[s] = "none"

\* What is true of a session when its handler is at a place.
Life(s) ==
  /\ client[s] = "new" => at[s] = "none"
  /\ RunNow(s)
  /\ at[s] \in {"none", "reading", "internal", "starting", "empty"} => report[s] = "none" /\ Idle(s)
  /\ at[s] \in {"starting", "empty", "running"} => run[s] # "nothing"
  /\ at[s] = "running" => proc[s] # "none" /\ copy[s] # "none" /\ report[s] = "none"
  /\ proc[s] = "alive" => at[s] = "running"
  /\ at[s] \in {"returning", "closed"} /\ report[s] = "none" =>
       run[s] \in {"nothing", "internal"} /\ Idle(s)
  /\ at[s] = "failing" => report[s] # "none"
  /\ report[s] # "none" => run[s] # "nothing"
  /\ exits[s] = IF report[s] = "none" THEN 0 ELSE 1

\* What was reported is true (the first conjuncts of ExitTellsTheTruth).
Truth(s) ==
  /\ report[s] = "zero" => proc[s] = "succeeded" \/ run[s] = "internal"
  /\ report[s] = "its code" => proc[s] = "failed"
  /\ report[s] = "127" => proc[s] = "none"
  /\ report[s] = "one" => proc[s] = "none" \/ (proc[s] = "succeeded" /\ Deaf(s))

LifeInv == \A s \in Sessions : Life(s) /\ Truth(s)

Places   == {"none", "reading", "internal", "starting", "empty", "running", "failing",
             "returning", "closed"}
Programs == {"nothing", "shell", "exec", "forced", "internal", "command"}
Procs    == {"none", "alive", "succeeded", "failed"}
Copies   == {"none", "copying", "done"}
Reports  == {"none", "zero", "its code", "one", "127"}

\* Types of the life of a session, and of what it reads.
LifeTyped ==
  /\ at \in [Sessions -> Places] /\ run \in [Sessions -> Programs]
  /\ proc \in [Sessions -> Procs] /\ copy \in [Sessions -> Copies]
  /\ report \in [Sessions -> Reports] /\ exits \in [Sessions -> Nat]

InputTyped ==
  /\ config \in Configs
  /\ conn \in {"up", "down", "ended"}
  /\ packets \in 0 .. MaxPackets
  /\ inHand \in Packets \cup {None}
  /\ client \in [Sessions -> {"new", "open", "eof", "closed"}]
  /\ buffer \in [Sessions -> Seq(Requests)]
  /\ over \in [Sessions -> BOOLEAN] /\ data \in [Sessions -> BOOLEAN] /\ eof \in [Sessions -> BOOLEAN]
  /\ setup \in [Sessions -> SUBSET (EnvNames \cup {"pty"})]
  /\ owed \in [Sessions -> Int]
  /\ \A s \in Sessions : Len(buffer[s]) <= BufCap

IInv == InputTyped /\ LifeTyped /\ LifeInv /\ EachAnsweredOnce

LEMMA Initially == Init => IInv
<1> SUFFICES ASSUME Init PROVE IInv
  OBVIOUS
<1>1. InputTyped
  BY BoundsAssumption DEF Init, InputTyped
<1>2. LifeTyped /\ LifeInv
  BY DEF Init, LifeTyped, LifeInv, Life, Truth, RunNow, Idle, Places, Programs, Procs, Copies, Reports
<1>3. \A s \in Sessions : Wanting(buffer[s]) = 0
  <2>1. \A s \in Sessions : {i \in DOMAIN buffer[s] : buffer[s][i].wantReply} = {}
    BY DEF Init
  <2>2. QED
    BY <2>1, FS_EmptySet DEF Wanting
<1>4. EachAnsweredOnce
  BY <1>3 DEF Init, EachAnsweredOnce, InHandWants, InHand
<1>5. QED
  BY <1>1, <1>2, <1>4 DEF IInv

-----------------------------------------------------------------------------
(* Counting the requests that want a reply.                                *)

Wanted(rs) == {i \in DOMAIN rs : rs[i].wantReply}

LEMMA WantedFinite ==
  ASSUME NEW rs \in Seq(Requests)
  PROVE  IsFiniteSet(Wanted(rs)) /\ Wanting(rs) = Cardinality(Wanted(rs)) /\ Wanting(rs) \in Nat
<1>1. Wanted(rs) \in SUBSET (1 .. Len(rs)) /\ Len(rs) \in Nat
  BY DEF Wanted
<1>2. IsFiniteSet(1 .. Len(rs))
  BY <1>1, FS_Interval
<1>3. IsFiniteSet(Wanted(rs))
  BY <1>1, <1>2, FS_Subset
<1>4. QED
  BY <1>3, FS_CardinalityType DEF Wanting, Wanted

LEMMA WantsTyped ==
  ASSUME NEW r \in Requests
  PROVE  Wants(r) \in {0, 1} /\ r.wantReply \in BOOLEAN /\ (Wants(r) = 1 <=> r.wantReply)
BY RequestsAssumption DEF Wants, RequestType

\* One more request at the end.
LEMMA WantingAppend ==
  ASSUME NEW rs \in Seq(Requests), NEW r \in Requests
  PROVE  Wanting(Append(rs, r)) = Wanting(rs) + Wants(r)
<1> DEFINE n == Len(rs) + 1
<1>1. Append(rs, r) \in Seq(Requests) /\ Len(rs) \in Nat /\ n \notin Wanted(rs)
  BY DEF Wanted
<1>2. /\ \A i \in 1 .. Len(rs) : Append(rs, r)[i] = rs[i]
      /\ Append(rs, r)[n] = r /\ DOMAIN Append(rs, r) = 1 .. n /\ DOMAIN rs = 1 .. Len(rs)
  OBVIOUS
<1>3. /\ IsFiniteSet(Wanted(rs)) /\ Wanting(rs) = Cardinality(Wanted(rs)) /\ Wanting(rs) \in Nat
      /\ Wanting(Append(rs, r)) = Cardinality(Wanted(Append(rs, r)))
  BY <1>1, WantedFinite
<1>4. CASE r.wantReply
  <2>1. Wanted(Append(rs, r)) = Wanted(rs) \cup {n}
    BY <1>1, <1>2, <1>4 DEF Wanted
  <2> HIDE DEF n
  <2>2. Cardinality(Wanted(rs) \cup {n}) = Cardinality(Wanted(rs)) + 1
    BY <1>1, <1>3, FS_AddElement
  <2>3. QED
    BY <1>3, <1>4, <2>1, <2>2 DEF Wants
<1>5. CASE ~r.wantReply
  <2>1. Wanted(Append(rs, r)) = Wanted(rs)
    BY <1>1, <1>2, <1>5 DEF Wanted
  <2> HIDE DEF n
  <2>2. QED
    BY <1>3, <1>5, <2>1 DEF Wants
<1>6. QED
  BY <1>4, <1>5

\* One request less at the front: the others move up.
LEMMA WantingTail ==
  ASSUME NEW rs \in Seq(Requests), rs # <<>>
  PROVE  Wanting(Tail(rs)) = Wanting(rs) - Wants(Head(rs))
<1> DEFINE later == Wanted(rs) \ {1}
           moved == [i \in Wanted(Tail(rs)) |-> i + 1]
<1>1. /\ Len(rs) \in Nat \ {0} /\ Tail(rs) \in Seq(Requests) /\ Len(Tail(rs)) = Len(rs) - 1
      /\ Head(rs) = rs[1] /\ Head(rs) \in Requests
      /\ DOMAIN rs = 1 .. Len(rs) /\ DOMAIN Tail(rs) = 1 .. Len(Tail(rs))
  OBVIOUS
<1>2. \A i \in 1 .. Len(Tail(rs)) : Tail(rs)[i] = rs[i + 1]
  BY <1>1
<1>3. \A i \in Wanted(Tail(rs)) : i + 1 \in later
  BY <1>1, <1>2 DEF Wanted
<1>4. \A j \in later : j - 1 \in Wanted(Tail(rs)) /\ j = (j - 1) + 1
  BY <1>1, <1>2 DEF Wanted
<1>5. \A i, j \in Wanted(Tail(rs)) : i + 1 = j + 1 => i = j
  BY <1>1 DEF Wanted
<1>6. moved \in Bijection(Wanted(Tail(rs)), later)
  <2>1. moved \in [Wanted(Tail(rs)) -> later]
    BY <1>3
  <2>2. \A i, j \in Wanted(Tail(rs)) : moved[i] = moved[j] => i = j
    BY <1>5
  <2>3. \A j \in later : \E i \in Wanted(Tail(rs)) : moved[i] = j
    BY <1>4
  <2> HIDE DEF moved, later
  <2>4. QED
    BY <2>1, <2>2, <2>3, Fun_IsBij
<1>7. ExistsBijection(Wanted(Tail(rs)), later)
  BY <1>6, Fun_ExistsBij
<1>8. Cardinality(later) = Cardinality(Wanted(Tail(rs)))
  BY <1>1, <1>7, WantedFinite, FS_Bijection
<1>9. 1 \in Wanted(rs) <=> Head(rs).wantReply
  BY <1>1 DEF Wanted
<1>10. Cardinality(later) = IF 1 \in Wanted(rs) THEN Cardinality(Wanted(rs)) - 1 ELSE Cardinality(Wanted(rs))
  BY WantedFinite, FS_RemoveElement
<1> HIDE DEF later, moved
<1>11. Wanting(rs) = Cardinality(Wanted(rs)) /\ Wanting(Tail(rs)) = Cardinality(Wanted(Tail(rs))) /\ Wanting(rs) \in Nat
  BY <1>1, WantedFinite
<1>12. Wants(Head(rs)) = IF Head(rs).wantReply THEN 1 ELSE 0
  BY DEF Wants
<1>13. QED
  BY <1>8, <1>9, <1>10, <1>11, <1>12

-----------------------------------------------------------------------------
(* Types of what is read.                                                  *)

LEMMA ClientInput ==
  ASSUME InputTyped, NEW s \in Sessions, Client(s)
  PROVE  InputTyped'
<1>1. CASE Open(s)
  BY <1>1 DEF Open, InputTyped, muxVars, procVars
<1>2. ASSUME NEW p \in Packets, Send(s, p), UNCHANGED client \/ \E c \in {"eof", "closed"} : client' = [client EXCEPT ![s] = c],
             owed' \in [Sessions -> Int]
      PROVE  InputTyped'
  <2>1. client' \in [Sessions -> {"new", "open", "eof", "closed"}]
    BY <1>2 DEF InputTyped
  <2>2. packets' \in 0 .. MaxPackets
    BY <1>2, BoundsAssumption DEF Send, InputTyped
  <2>3. inHand' \in Packets \cup {None}
    BY <1>2 DEF Send
  <2>4. UNCHANGED <<config, conn, over, eof, buffer, setup, data>>
    BY <1>2 DEF Send, procVars
  <2>5. QED
    BY <1>2, <2>1, <2>2, <2>3, <2>4 DEF InputTyped
<1>3. CASE SendRequest(s)
  <2>1. PICK r \in Requests : /\ Send(s, [session |-> s, kind |-> "request", request |-> r])
                              /\ owed' = [owed EXCEPT ![s] = @ + Wants(r)]
    BY <1>3 DEF SendRequest
  <2>2. owed' \in [Sessions -> Int]
    <3>1. owed[s] + Wants(r) \in Int
      BY DEF InputTyped, Wants
    <3>2. QED
      BY <2>1, <3>1 DEF InputTyped
  <2>3. [session |-> s, kind |-> "request", request |-> r] \in Packets
    BY DEF Packets
  <2>4. QED
    BY <1>2, <1>3, <2>1, <2>2, <2>3 DEF SendRequest
<1>4. CASE SendData(s) \/ SendEof(s) \/ SendClose(s)
  <2>1. \A k \in {"data", "eof", "close"} : [session |-> s, kind |-> k] \in Packets
    BY DEF Packets
  <2>2. owed' \in [Sessions -> Int]
    BY <1>4 DEF SendData, SendEof, SendClose, InputTyped
  <2>3. QED
    BY <1>2, <1>4, <2>1, <2>2 DEF SendData, SendEof, SendClose
<1>5. QED
  BY <1>1, <1>3, <1>4 DEF Client

LEMMA MuxInput ==
  ASSUME InputTyped, Mux
  PROVE  InputTyped'
<1> USE DEF MuxStep, clientVars
<1>1. ASSUME NEW s \in Sessions, DeliverRequest(s)
      PROVE  InputTyped'
  <2>1. PICK r \in Requests : r = inHand.request
    BY <1>1, NoneAssumption DEF DeliverRequest, InHand, InputTyped, Packets
  <2>2. buffer' = [buffer EXCEPT ![s] = Append(@, r)]
    BY <1>1, <2>1 DEF DeliverRequest
  <2>3. buffer' \in [Sessions -> Seq(Requests)] /\ \A q \in Sessions : Len(buffer'[q]) <= BufCap
    BY <1>1, <2>2, BoundsAssumption DEF DeliverRequest, InputTyped
  <2>4. QED
    BY <1>1, <2>3 DEF DeliverRequest, InputTyped
<1>2. ASSUME NEW s \in Sessions, DeliverData(s) \/ DeliverEof(s) \/ DeliverClose(s)
      PROVE  InputTyped'
  BY <1>2 DEF DeliverData, DeliverEof, DeliverClose, InputTyped
<1>3. CASE MuxEnds
  BY <1>3 DEF MuxEnds, InputTyped, procVars
<1>4. QED
  BY <1>1, <1>2, <1>3 DEF Mux

\* What a pending request is, and what is left when it is taken.
LEMMA Taken ==
  ASSUME InputTyped, NEW s \in Sessions, buffer[s] # <<>>
  PROVE  /\ Request(s) \in Requests
         /\ [buffer EXCEPT ![s] = Tail(@)] \in [Sessions -> Seq(Requests)]
         /\ \A q \in Sessions : Len([buffer EXCEPT ![s] = Tail(@)][q]) <= BufCap
<1>1. buffer[s] \in Seq(Requests) /\ \A q \in Sessions : buffer[q] \in Seq(Requests) /\ Len(buffer[q]) <= BufCap
  BY DEF InputTyped
<1>2. Head(buffer[s]) \in Requests /\ Tail(buffer[s]) \in Seq(Requests) /\ Len(Tail(buffer[s])) <= BufCap
  BY <1>1, BoundsAssumption
<1>3. QED
  BY <1>1, <1>2 DEF Request, InputTyped

Reading(s) == RefuseSetup(s) \/ GrantPty(s) \/ TakeEnv(s) \/ IgnoreControl(s) \/ RefuseOther(s)
Starting(s) == RefuseStart(s) \/ StartProgram(s) \/ StartSubsystem(s)
Moving(s) == NothingToRun(s) \/ Spawn(s) \/ SpawnFails(s) \/ WaitReturns(s) \/ RunFailed(s)
              \/ CloseChannel(s) \/ InternalEnds(s) \/ InternalFails(s) \/ ProcessExits(s) \/ Copier(s)

LEMMA ReadingInput ==
  ASSUME InputTyped, NEW s \in Sessions, Reading(s) \/ Starting(s) \/ RequestsEnd(s)
  PROVE  InputTyped'
<1> USE DEF clientVars, muxVars, procVars
<1>1. ASSUME buffer[s] # <<>>, Reply(s) \/ DropRequest(s)
      PROVE  /\ buffer' \in [Sessions -> Seq(Requests)] /\ \A q \in Sessions : Len(buffer'[q]) <= BufCap
             /\ owed' \in [Sessions -> Int]
  <2>1. buffer' = [buffer EXCEPT ![s] = Tail(@)]
    BY <1>1 DEF Reply, DropRequest
  <2>2. owed[s] - Wants(Request(s)) \in Int
    BY DEF InputTyped, Wants
  <2>3. owed' \in [Sessions -> Int]
    BY <1>1, <2>2 DEF Reply, DropRequest, InputTyped
  <2>4. QED
    BY <1>1, <2>1, <2>3, Taken
<1>2. CASE Reading(s)
  <2>1. buffer[s] # <<>> /\ (Reply(s) \/ DropRequest(s)) /\ ReadOn
    BY <1>2 DEF Reading, RefuseSetup, GrantPty, TakeEnv, IgnoreControl, RefuseOther, Pending
  <2>2. setup' \in [Sessions -> SUBSET (EnvNames \cup {"pty"})]
    <3>1. CASE TakeEnv(s)
      <4>1. Request(s).name \in EnvNames
        BY <3>1, Taken, RequestsAssumption DEF TakeEnv, Pending, Request, RequestType
      <4>2. QED
        BY <3>1, <4>1 DEF TakeEnv, InputTyped
    <3>2. CASE ~TakeEnv(s)
      BY <1>2, <3>2 DEF Reading, RefuseSetup, GrantPty, IgnoreControl, RefuseOther, InputTyped
    <3>3. QED
      BY <3>1, <3>2
  <2>3. QED
    BY <1>1, <2>1, <2>2 DEF ReadOn, InputTyped
<1>3. CASE Starting(s)
  <2>1. buffer[s] # <<>> /\ Reply(s)
    BY <1>3 DEF Starting, RefuseStart, StartProgram, StartSubsystem, Pending
  <2>2. UNCHANGED <<config, conn, packets, inHand, client, over, data, eof, setup>>
    BY <1>3 DEF Starting, RefuseStart, StartProgram, StartSubsystem, Leave
  <2>3. QED
    BY <1>1, <2>1, <2>2 DEF InputTyped
<1>4. CASE RequestsEnd(s)
  BY <1>4 DEF RequestsEnd, Leave, InputTyped
<1>5. QED
  BY <1>2, <1>3, <1>4

LEMMA MovingInput ==
  ASSUME InputTyped, NEW s \in Sessions, Moving(s)
  PROVE  InputTyped' /\ UNCHANGED <<owed, buffer, inHand>>
BY DEF Moving, NothingToRun, Spawn, SpawnFails, WaitReturns, RunReturns, RunFailed, CloseChannel, InternalEnds, InternalFails,
   ProcessExits, Copier, CopyStep, CopyData, CopyEnds, Exit, InputTyped, clientVars, muxVars, procVars

\* The disjuncts of Next, as they are taken below.
LEMMA NextCases ==
  ASSUME Next
  PROVE  \/ \E s \in Sessions : \/ Client(s) \/ Reading(s) \/ Starting(s) \/ RequestsEnd(s) \/ Moving(s)
         \/ Mux \/ Disconnect
BY DEF Next, Handler, Reading, Starting, Moving

LEMMA InputStep ==
  ASSUME InputTyped, [Next]_vars
  PROVE  InputTyped'
<1>1. CASE Disconnect
  BY <1>1 DEF Disconnect, InputTyped, clientVars, procVars
<1>2. CASE UNCHANGED vars
  BY <1>2 DEF vars, InputTyped
<1>3. QED
  BY <1>1, <1>2, NextCases, ClientInput, MuxInput, ReadingInput, MovingInput

-----------------------------------------------------------------------------
(* The books: what is owed is what has not been read.                      *)

LEMMA BooksFrame ==
  ASSUME EachAnsweredOnce, UNCHANGED <<owed, buffer, inHand>>
  PROVE  EachAnsweredOnce'
BY DEF EachAnsweredOnce, InHandWants, InHand

\* The hand of the mux, empty or with a packet.
LEMMA HandEmpty ==
  ASSUME inHand = None
  PROVE  \A q \in Sessions : InHandWants(q) = 0
BY DEF InHandWants, InHand

LEMMA ClientBooks ==
  ASSUME InputTyped, EachAnsweredOnce, NEW s \in Sessions, Client(s)
  PROVE  EachAnsweredOnce'
<1>1. CASE Open(s)
  BY <1>1, BooksFrame DEF Open, muxVars
<1>2. CASE SendRequest(s)
  <2>1. PICK r \in Requests : /\ Send(s, [session |-> s, kind |-> "request", request |-> r])
                              /\ owed' = [owed EXCEPT ![s] = @ + Wants(r)]
    BY <1>2 DEF SendRequest
  <2>2. [session |-> s, kind |-> "request", request |-> r] # None
    BY NoneAssumption DEF Packets
  <2>3. \A q \in Sessions : owed[q] = Wanting(buffer[q]) /\ owed[q] \in Int
    <3>1. \A q \in Sessions : Wanting(buffer[q]) \in Nat
      BY WantedFinite DEF InputTyped
    <3>2. QED
      BY <2>1, <3>1, HandEmpty DEF Send, EachAnsweredOnce
  <2>4. \A q \in Sessions : InHandWants(q)' = IF q = s THEN Wants(r) ELSE 0
    BY <2>1, <2>2 DEF Send, InHandWants, InHand
  <2>5. buffer' = buffer /\ \A q \in Sessions : Wanting(buffer[q]) \in Int /\ Wants(r) \in Int
    BY <2>1, <2>3 DEF Send, Wants
  <2>6. \A q \in Sessions : owed'[q] = IF q = s THEN owed[q] + Wants(r) ELSE owed[q]
    BY <2>1 DEF InputTyped
  <2>7. QED
    BY <2>3, <2>4, <2>5, <2>6 DEF EachAnsweredOnce
<1>3. CASE SendData(s) \/ SendEof(s) \/ SendClose(s)
  <2>1. PICK k \in {"data", "eof", "close"} : Send(s, [session |-> s, kind |-> k])
    BY <1>3 DEF SendData, SendEof, SendClose
  <2>2. \A q \in Sessions : InHandWants(q)' = 0
    BY <2>1 DEF Send, InHandWants, InHand
  <2>3. UNCHANGED <<owed, buffer>>
    BY <1>3, <2>1 DEF SendData, SendEof, SendClose, Send
  <2>4. QED
    BY <2>1, <2>2, <2>3, HandEmpty DEF Send, EachAnsweredOnce
<1>4. QED
  BY <1>1, <1>2, <1>3 DEF Client

LEMMA MuxBooks ==
  ASSUME InputTyped, EachAnsweredOnce, Mux
  PROVE  EachAnsweredOnce'
<1> USE DEF MuxStep
<1>1. ASSUME NEW s \in Sessions, DeliverRequest(s)
      PROVE  EachAnsweredOnce'
  <2>1. PICK r \in Requests : r = inHand.request
    BY <1>1, NoneAssumption DEF DeliverRequest, InHand, InputTyped, Packets
  <2>2. buffer' = [buffer EXCEPT ![s] = Append(@, r)] /\ owed' = owed /\ inHand' = None
    BY <1>1, <2>1 DEF DeliverRequest
  <2>3. \A q \in Sessions : InHandWants(q) = IF q = s THEN Wants(r) ELSE 0
    BY <1>1, <2>1 DEF DeliverRequest, InHandWants, InHand
  <2>4. \A q \in Sessions : InHandWants(q)' = 0
    BY <2>2 DEF InHandWants, InHand
  <2>5. \A q \in Sessions : Wanting(buffer'[q]) = Wanting(buffer[q]) + (IF q = s THEN Wants(r) ELSE 0)
    <3>1. \A q \in Sessions : Wanting(buffer[q]) \in Nat
      BY WantedFinite DEF InputTyped
    <3>2. Wanting(Append(buffer[s], r)) = Wanting(buffer[s]) + Wants(r)
      BY WantingAppend DEF InputTyped
    <3>3. \A q \in Sessions : buffer'[q] = IF q = s THEN Append(buffer[s], r) ELSE buffer[q]
      BY <2>2 DEF InputTyped
    <3>4. QED
      BY <3>1, <3>2, <3>3
  <2>6. \A q \in Sessions : Wanting(buffer'[q]) \in Nat
    BY <1>1, MuxInput, WantedFinite DEF Mux, InputTyped
  <2>7. QED
    BY <2>2, <2>3, <2>4, <2>5, <2>6 DEF EachAnsweredOnce
<1>2. ASSUME NEW s \in Sessions, DeliverData(s) \/ DeliverEof(s) \/ DeliverClose(s)
      PROVE  EachAnsweredOnce'
  <2>1. \A q \in Sessions : InHandWants(q) = 0
    BY <1>2 DEF DeliverData, DeliverEof, DeliverClose, InHandWants, InHand
  <2>2. inHand' = None /\ UNCHANGED <<owed, buffer>>
    BY <1>2 DEF DeliverData, DeliverEof, DeliverClose
  <2>3. \A q \in Sessions : InHandWants(q)' = 0
    BY <2>2 DEF InHandWants, InHand
  <2>4. QED
    BY <2>1, <2>2, <2>3 DEF EachAnsweredOnce
<1>3. CASE MuxEnds
  BY <1>3, BooksFrame DEF MuxEnds
<1>4. QED
  BY <1>1, <1>2, <1>3 DEF Mux

\* The switch of HandleSession: one reply, or none to a control request.
LEMMA ReadingBooks ==
  ASSUME InputTyped, EachAnsweredOnce, NEW s \in Sessions, Reading(s) \/ Starting(s) \/ RequestsEnd(s)
  PROVE  EachAnsweredOnce'
<1>1. CASE RequestsEnd(s)
  BY <1>1, BooksFrame DEF RequestsEnd, Leave, muxVars
<1>2. CASE Reading(s) \/ Starting(s)
  <2>1. buffer[s] # <<>> /\ inHand' = inHand
    BY <1>2 DEF Reading, RefuseSetup, GrantPty, TakeEnv, IgnoreControl, RefuseOther, Pending,
       Starting, RefuseStart, StartProgram, StartSubsystem, Leave, ReadOn, muxVars
  <2>2. buffer' = [buffer EXCEPT ![s] = Tail(@)]
    BY <1>2 DEF Reading, RefuseSetup, GrantPty, TakeEnv, IgnoreControl, RefuseOther,
       Starting, RefuseStart, StartProgram, StartSubsystem, Reply, DropRequest
  <2>3. owed' = [owed EXCEPT ![s] = @ - Wants(Request(s))]
    <3>1. CASE IgnoreControl(s)
      <4>1. ~Request(s).wantReply
        BY <2>1, <3>1, Taken, ControlsAssumption DEF IgnoreControl, Pending, Request
      <4>2. owed' = owed /\ Wants(Request(s)) = 0 /\ owed[s] \in Int /\ owed \in [Sessions -> Int]
        BY <3>1, <4>1 DEF IgnoreControl, DropRequest, Wants, InputTyped
      <4>3. owed[s] - Wants(Request(s)) = owed[s]
        BY <4>2
      <4>4. QED
        BY <4>2, <4>3
    <3>2. CASE ~IgnoreControl(s)
      BY <1>2, <3>2 DEF Reading, RefuseSetup, GrantPty, TakeEnv, RefuseOther,
         Starting, RefuseStart, StartProgram, StartSubsystem, Reply
    <3>3. QED
      BY <3>1, <3>2
  <2>4. Wanting(Tail(buffer[s])) = Wanting(buffer[s]) - Wants(Request(s))
    BY <2>1, WantingTail DEF Request, InputTyped
  <2>5. \A q \in Sessions : /\ buffer'[q] = IF q = s THEN Tail(buffer[s]) ELSE buffer[q]
                            /\ owed'[q] = IF q = s THEN owed[s] - Wants(Request(s)) ELSE owed[q]
    BY <2>2, <2>3 DEF InputTyped
  <2>6. \A q \in Sessions : InHandWants(q)' = InHandWants(q) /\ InHandWants(q) \in Int
    BY <2>1 DEF InHandWants, InHand, Wants
  <2>7. \A q \in Sessions : Wanting(buffer[q]) \in Nat /\ Wants(Request(s)) \in Int
    BY WantedFinite DEF InputTyped, Wants
  <2>8. \A q \in Sessions : owed'[q] = Wanting(buffer'[q]) + InHandWants(q)
    BY <2>4, <2>5, <2>6, <2>7 DEF EachAnsweredOnce
  <2>9. QED
    BY <2>6, <2>8 DEF EachAnsweredOnce
<1>3. QED
  BY <1>1, <1>2

LEMMA BooksStep ==
  ASSUME InputTyped, EachAnsweredOnce, [Next]_vars
  PROVE  EachAnsweredOnce'
<1>1. CASE Disconnect \/ UNCHANGED vars
  BY <1>1, BooksFrame DEF Disconnect, vars
<1>2. CASE \E s \in Sessions : Moving(s)
  BY <1>2, BooksFrame, MovingInput
<1>3. QED
  BY <1>1, <1>2, NextCases, ClientBooks, MuxBooks, ReadingBooks

-----------------------------------------------------------------------------
(* The life of a session.                                                  *)

lifeVars == <<client, at, run, proc, copy, report, exits>>

\* Who cannot hear any more never will.
StaysDeaf == \A q \in Sessions : Deaf(q) => Deaf(q)'

LEMMA DeafForGood ==
  ASSUME InputTyped, [Next]_vars
  PROVE  StaysDeaf
<1> USE DEF Deaf, StaysDeaf
<1>1. ASSUME NEW s \in Sessions, Client(s) \/ Reading(s) \/ Starting(s) \/ RequestsEnd(s) \/ Moving(s)
      PROVE  StaysDeaf
  <2>1. CASE Client(s)
    BY <2>1 DEF Client, Open, SendRequest, SendData, SendEof, SendClose, Send, muxVars
  <2>2. CASE Reading(s)
    BY <2>2 DEF Reading, RefuseSetup, GrantPty, TakeEnv, IgnoreControl, RefuseOther, ReadOn, muxVars
  <2>3. CASE Starting(s) \/ RequestsEnd(s)
    BY <2>3 DEF Starting, RefuseStart, StartProgram, StartSubsystem, RequestsEnd, Leave, muxVars
  <2>4. CASE Moving(s)
    BY <2>4 DEF Moving, NothingToRun, Spawn, SpawnFails, WaitReturns, RunReturns, RunFailed, CloseChannel,
       InternalEnds, InternalFails, ProcessExits, Copier, CopyStep, CopyData, CopyEnds, Exit, muxVars
  <2>5. QED
    BY <1>1, <2>1, <2>2, <2>3, <2>4
<1>2. CASE Mux
  BY <1>2 DEF Mux, DeliverRequest, DeliverData, DeliverEof, DeliverClose, MuxStep, MuxEnds, InputTyped
<1>3. CASE Disconnect \/ UNCHANGED vars
  BY <1>3 DEF Disconnect, vars
<1>4. QED
  BY <1>1, <1>2, <1>3, NextCases

LEMMA LifeFrame ==
  ASSUME LifeTyped, LifeInv, StaysDeaf, UNCHANGED lifeVars
  PROVE  LifeTyped' /\ LifeInv'
<1>1. LifeTyped'
  BY DEF LifeTyped, lifeVars
<1>2. \A s \in Sessions : Life(s)'
  BY DEF LifeInv, Life, RunNow, Idle, lifeVars
<1>3. \A s \in Sessions : Truth(s)'
  BY DEF LifeInv, Truth, StaysDeaf, lifeVars
<1>4. QED
  BY <1>1, <1>2, <1>3 DEF LifeInv

\* One session moves, the others stay as they were.
MovesOnly(s) ==
  \A q \in Sessions \ {s} : /\ client'[q] = client[q] /\ at'[q] = at[q] /\ run'[q] = run[q]
                            /\ proc'[q] = proc[q] /\ copy'[q] = copy[q] /\ report'[q] = report[q]
                            /\ exits'[q] = exits[q]

LEMMA OneLife ==
  ASSUME LifeInv, StaysDeaf, NEW s \in Sessions, MovesOnly(s), Life(s)', Truth(s)'
  PROVE  LifeInv'
<1>1. ASSUME NEW q \in Sessions \ {s} PROVE Life(q)' /\ Truth(q)'
  <2>1. Life(q) /\ Truth(q)
    BY DEF LifeInv
  <2>2. /\ client'[q] = client[q] /\ at'[q] = at[q] /\ run'[q] = run[q]
        /\ proc'[q] = proc[q] /\ copy'[q] = copy[q] /\ report'[q] = report[q]
        /\ exits'[q] = exits[q]
    BY DEF MovesOnly
  <2>3. Life(q)'
    BY <2>1, <2>2 DEF Life, RunNow, Idle
  <2>4. Truth(q)'
    BY <2>1, <2>2 DEF Truth, StaysDeaf
  <2>5. QED
    BY <2>3, <2>4
<1>2. QED
  BY <1>1 DEF LifeInv

LEMMA ClientLife ==
  ASSUME InputTyped, LifeTyped, LifeInv, StaysDeaf, NEW s \in Sessions, Client(s)
  PROVE  LifeTyped' /\ LifeInv'
<1>1. CASE Open(s)
  <2>1. /\ client[s] = "new" /\ at' = [at EXCEPT ![s] = "reading"] /\ client' = [client EXCEPT ![s] = "open"]
        /\ UNCHANGED <<run, proc, copy, report, exits>>
    BY <1>1 DEF Open, procVars, exitVars
  <2>2. Life(s) /\ Truth(s)
    BY DEF LifeInv
  <2>3. LifeTyped' /\ MovesOnly(s)
    BY <2>1 DEF LifeTyped, MovesOnly, InputTyped, Places
  <2>4. at'[s] = "reading" /\ client'[s] = "open"
    BY <2>1 DEF LifeTyped, InputTyped
  <2>5. Life(s)' /\ Truth(s)'
    BY <2>1, <2>2, <2>4 DEF Life, Truth, RunNow, Idle, StaysDeaf
  <2>6. QED
    BY <2>3, <2>5, OneLife
<1>2. CASE SendRequest(s) \/ SendData(s) \/ SendEof(s) \/ SendClose(s)
  <2>1. /\ client[s] # "new" /\ client' \in {client, [client EXCEPT ![s] = "eof"], [client EXCEPT ![s] = "closed"]}
        /\ UNCHANGED <<at, run, proc, copy, report, exits>>
    BY <1>2 DEF SendRequest, SendData, SendEof, SendClose, Send, procVars, exitVars
  <2>2. Life(s) /\ Truth(s)
    BY DEF LifeInv
  <2>3. LifeTyped' /\ MovesOnly(s) /\ client'[s] # "new"
    BY <2>1 DEF LifeTyped, MovesOnly, InputTyped
  <2>4. Life(s)' /\ Truth(s)'
    BY <2>1, <2>2, <2>3 DEF Life, Truth, RunNow, Idle, StaysDeaf
  <2>5. QED
    BY <2>3, <2>4, OneLife
<1>3. QED
  BY <1>1, <1>2 DEF Client

LEMMA StartingLife ==
  ASSUME InputTyped, LifeTyped, LifeInv, StaysDeaf, NEW s \in Sessions, Starting(s) \/ RequestsEnd(s)
  PROVE  LifeTyped' /\ LifeInv'
<1>1. at[s] = "reading" /\ Life(s) /\ Truth(s)
  BY DEF LifeInv, Starting, RefuseStart, StartProgram, StartSubsystem, RequestsEnd, Pending
<1>2. UNCHANGED <<client, proc, copy, report, exits>>
  BY DEF Starting, RefuseStart, StartProgram, StartSubsystem, RequestsEnd, Leave, clientVars, procVars, exitVars
<1>3. PICK where \in {"returning", "starting", "empty", "internal"}, prog \in Programs :
        /\ at' = [at EXCEPT ![s] = where]
        /\ run' = [run EXCEPT ![s] = prog]
        /\ where = "returning" => prog = "nothing"
        /\ where = "internal" => prog = "internal"
        /\ where \in {"starting", "empty"} => prog # "nothing"
  <2>1. CASE RefuseStart(s) \/ RequestsEnd(s)
    <3>1. at' = [at EXCEPT ![s] = "returning"] /\ run' = run
      BY <2>1 DEF RefuseStart, RequestsEnd, Leave
    <3>2. run' = [run EXCEPT ![s] = "nothing"]
      BY <1>1, <3>1 DEF Life, RunNow, LifeTyped
    <3>3. QED
      BY <3>1, <3>2 DEF Programs
  <2>2. CASE StartProgram(s)
    <3>1. Program(s) \in {"shell", "exec", "forced"}
      BY <2>2 DEF StartProgram, Pending, Program, Request
    <3>2. at' = [at EXCEPT ![s] = "starting"] /\ run' = [run EXCEPT ![s] = Program(s)]
      BY <2>2 DEF StartProgram, Leave
    <3>3. QED
      BY <3>1, <3>2 DEF Programs
  <2>3. CASE StartSubsystem(s)
    BY <2>3 DEF StartSubsystem, Leave, Programs
  <2>4. QED
    BY <2>1, <2>2, <2>3 DEF Starting
<1>4. LifeTyped' /\ MovesOnly(s)
  BY <1>2, <1>3 DEF LifeTyped, MovesOnly, Places
<1>5. at'[s] = where /\ run'[s] = prog
  BY <1>3 DEF LifeTyped
<1>6. Life(s)' /\ Truth(s)'
  BY <1>1, <1>2, <1>3, <1>5 DEF Life, Truth, RunNow, Idle, StaysDeaf
<1>7. QED
  BY <1>4, <1>6, OneLife

\* The first message is handed on.
LEMMA FirstTold ==
  ASSUME NEW s \in Sessions, NEW r, exits[s] = 0, Tell(s, r)
  PROVE  /\ report' = [report EXCEPT ![s] = r]
         /\ exits' = [exits EXCEPT ![s] = 1] /\ exits' = [exits EXCEPT ![s] = @ + 1]
<1>1. exits[s] + 1 = 1
  OBVIOUS
<1>2. exits' = [exits EXCEPT ![s] = exits[s] + 1]
  BY DEF Tell
<1>3. QED
  BY <1>1, <1>2 DEF Tell

\* Exit: the report is the one that fits what has become of the process.
LEMMA ExitLife ==
  ASSUME LifeTyped, LifeInv, StaysDeaf, NEW s \in Sessions, NEW r \in Reports \ {"none"},
         NEW where \in {"returning", "failing"}, Exit(s, r, where),
         at[s] \in {"internal", "starting", "empty", "running"}, proc[s] # "alive",
         r = "zero" => proc[s] = "succeeded" \/ run[s] = "internal",
         r = "its code" => proc[s] = "failed",
         r = "127" => proc[s] = "none",
         r = "one" => proc[s] = "none" \/ (proc[s] = "succeeded" /\ Deaf(s))
  PROVE  LifeTyped' /\ LifeInv'
<1>0. exits[s] = 0
  BY DEF LifeInv, Life
<1>1. /\ report' = [report EXCEPT ![s] = r] /\ at' = [at EXCEPT ![s] = where]
      /\ exits' = [exits EXCEPT ![s] = 1]
      /\ UNCHANGED <<client, run, proc, copy>>
  BY <1>0, FirstTold DEF Exit, clientVars, procVars
<1>2. Life(s) /\ Truth(s)
  BY DEF LifeInv
<1>3. LifeTyped' /\ MovesOnly(s)
  BY <1>1 DEF LifeTyped, MovesOnly, Places
<1>4. report'[s] = r /\ at'[s] = where /\ exits'[s] = 1
  BY <1>1 DEF LifeTyped
<1>5. Life(s)' /\ Truth(s)'
  BY <1>1, <1>2, <1>4 DEF Life, Truth, RunNow, Idle, StaysDeaf
<1>6. QED
  BY <1>3, <1>5, OneLife

LEMMA MovingLife ==
  ASSUME LifeTyped, LifeInv, StaysDeaf, NEW s \in Sessions, Moving(s)
  PROVE  LifeTyped' /\ LifeInv'
<1>0. Life(s) /\ Truth(s)
  BY DEF LifeInv
<1>1. CASE NothingToRun(s)
  BY <1>0, <1>1, ExitLife DEF NothingToRun, Life, Idle, Reports
<1>2. CASE InternalEnds(s)
  BY <1>0, <1>2, ExitLife DEF InternalEnds, Life, RunNow, Idle, Reports
<1>3. CASE SpawnFails(s)
  BY <1>0, <1>3, ExitLife DEF SpawnFails, RunReturns, Life, Idle, Reports
<1>4. CASE WaitReturns(s)
  <2>1. CASE proc[s] = "failed"
    BY <1>4, <2>1, ExitLife DEF WaitReturns, RunReturns, Reports
  <2>2. CASE proc[s] = "succeeded"
    BY <1>4, <2>2, ExitLife DEF WaitReturns, RunReturns, Reports
  <2>3. QED
    BY <1>4, <2>1, <2>2 DEF WaitReturns
<1>5. CASE Spawn(s)
  <2>1. /\ at[s] = "starting" /\ at' = [at EXCEPT ![s] = "running"]
        /\ proc' = [proc EXCEPT ![s] = "alive"] /\ copy' = [copy EXCEPT ![s] = "copying"]
        /\ UNCHANGED <<client, run, report, exits>>
    BY <1>5 DEF Spawn, clientVars, exitVars
  <2>2. LifeTyped' /\ MovesOnly(s)
    BY <2>1 DEF LifeTyped, MovesOnly, Places, Procs, Copies
  <2>3. at'[s] = "running" /\ proc'[s] = "alive" /\ copy'[s] = "copying"
    BY <2>1 DEF LifeTyped
  <2>4. Life(s)' /\ Truth(s)'
    BY <1>0, <2>1, <2>3 DEF Life, Truth, RunNow, Idle, StaysDeaf
  <2>5. QED
    BY <2>2, <2>4, OneLife
<1>6. CASE InternalFails(s) \/ CloseChannel(s)
  <2>1. PICK where \in {"returning", "closed"} : /\ at' = [at EXCEPT ![s] = where]
                                                 /\ at[s] \in {"internal", "returning"}
                                                 /\ UNCHANGED <<client, run, proc, copy, report, exits>>
    BY <1>6 DEF InternalFails, CloseChannel, clientVars, procVars, exitVars
  <2>2. LifeTyped' /\ MovesOnly(s)
    BY <2>1 DEF LifeTyped, MovesOnly, Places
  <2>3. at'[s] = where
    BY <2>1 DEF LifeTyped
  <2>4. Life(s)' /\ Truth(s)'
    BY <1>0, <2>1, <2>3 DEF Life, Truth, RunNow, Idle, StaysDeaf
  <2>5. QED
    BY <2>2, <2>4, OneLife
<1>7. CASE ProcessExits(s)
  <2>1. PICK how \in {"succeeded", "failed"} : /\ proc[s] = "alive" /\ proc' = [proc EXCEPT ![s] = how]
                                               /\ UNCHANGED <<client, at, run, copy, report, exits>>
    BY <1>7 DEF ProcessExits, clientVars, exitVars
  <2>2. LifeTyped' /\ MovesOnly(s)
    BY <2>1 DEF LifeTyped, MovesOnly, Procs
  <2>3. proc'[s] = how
    BY <2>1 DEF LifeTyped
  <2>4. Life(s)' /\ Truth(s)'
    BY <1>0, <2>1, <2>3 DEF Life, Truth, RunNow, Idle, StaysDeaf
  <2>5. QED
    BY <2>2, <2>4, OneLife
<1>8. CASE Copier(s)
  <2>1. PICK c \in {"copying", "done"} : /\ copy[s] = "copying" /\ copy' = [copy EXCEPT ![s] = c]
                                         /\ UNCHANGED <<client, at, run, proc, report, exits>>
    BY <1>8 DEF Copier, CopyData, CopyEnds, CopyStep, clientVars, exitVars
  <2>2. LifeTyped' /\ MovesOnly(s)
    BY <2>1 DEF LifeTyped, MovesOnly, Copies
  <2>3. copy'[s] = c
    BY <2>1 DEF LifeTyped
  <2>4. Life(s)' /\ Truth(s)'
    BY <1>0, <2>1, <2>3 DEF Life, Truth, RunNow, Idle, StaysDeaf
  <2>5. QED
    BY <2>2, <2>4, OneLife
<1>9. CASE RunFailed(s)
  <2>1. at[s] = "failing" /\ exits[s] = 1
    BY <1>0, <1>9 DEF RunFailed, Life
  <2>2. at' = [at EXCEPT ![s] = "returning"] /\ UNCHANGED <<client, run, proc, copy, report, exits>>
    BY <1>9, <2>1 DEF RunFailed, Exit, Tell, clientVars, procVars, exitVars
  <2>3. LifeTyped' /\ MovesOnly(s)
    BY <2>2 DEF LifeTyped, MovesOnly, Places
  <2>4. at'[s] = "returning"
    BY <2>2 DEF LifeTyped
  <2>5. Life(s)' /\ Truth(s)'
    BY <1>0, <2>1, <2>2, <2>4 DEF Life, Truth, RunNow, Idle, StaysDeaf
  <2>6. QED
    BY <2>3, <2>5, OneLife
<1>10. QED
  BY <1>1, <1>2, <1>3, <1>4, <1>5, <1>6, <1>7, <1>8, <1>9 DEF Moving

LEMMA LifeStep ==
  ASSUME InputTyped, LifeTyped, LifeInv, [Next]_vars
  PROVE  LifeTyped' /\ LifeInv'
<1>0. StaysDeaf
  BY DeafForGood
<1>1. CASE UNCHANGED lifeVars
  BY <1>0, <1>1, LifeFrame
<1>2. ASSUME NEW s \in Sessions, Reading(s)
      PROVE  UNCHANGED lifeVars
  BY <1>2 DEF Reading, RefuseSetup, GrantPty, TakeEnv, IgnoreControl, RefuseOther, ReadOn, lifeVars, clientVars,
     procVars, exitVars
<1>3. Mux \/ Disconnect \/ UNCHANGED vars => UNCHANGED lifeVars
  BY DEF Mux, DeliverRequest, DeliverData, DeliverEof, DeliverClose, MuxStep, MuxEnds, Disconnect, vars,
     lifeVars, clientVars, procVars, exitVars
<1>4. QED
  BY <1>0, <1>1, <1>2, <1>3, NextCases, ClientLife, StartingLife, MovingLife

LEMMA Step == IInv /\ [Next]_vars => IInv'
BY InputStep, BooksStep, LifeStep DEF IInv

\* The invariant behind the results below: what is read, what a session has started and
\* what has come of it, and that the answers balance.
THEOREM Invariance == Spec => []IInv
<1>1. QED
  BY Initially, Step, PTL DEF Spec

\* default_session.go:104-230: the types of a session, and that nothing has been started
\* while its handler reads, and something runs exactly while it waits for it.
THEOREM TypesAreCorrect == Spec => []TypeOK
<1>1. IInv => TypeOK
  <2> SUFFICES ASSUME IInv PROVE TypeOK
    OBVIOUS
  <2>1. owed \in [Sessions -> Nat]
    <3>1. \A s \in Sessions : Wanting(buffer[s]) \in Nat /\ InHandWants(s) \in {0, 1}
      BY WantedFinite DEF IInv, InputTyped, InHandWants, Wants
    <3>2. \A s \in Sessions : owed[s] \in Nat
      BY <3>1 DEF IInv, EachAnsweredOnce
    <3>3. QED
      BY <3>2 DEF IInv, InputTyped
  <2>2. \A s \in Sessions : at[s] = "running" <=> copy[s] # "none" /\ report[s] = "none"
    BY DEF IInv, LifeTyped, LifeInv, Life, Idle, Places
  <2>3. \A s \in Sessions : at[s] \in {"none", "reading"} => run[s] = "nothing"
    BY DEF IInv, LifeInv, Life, RunNow
  <2>4. QED
    BY <2>1, <2>2, <2>3 DEF IInv, InputTyped, LifeTyped, TypeOK, Places, Programs, Procs, Copies, Reports
<1>2. QED
  BY <1>1, Invariance, PTL

\* default_session.go:105-226: in any order of requests, on any number of channels, what the
\* client is still owed is what HandleSession has not read.
THEOREM AnswersBalance == Spec => []EachAnsweredOnce
<1>1. IInv => EachAnsweredOnce
  BY DEF IInv
<1>2. QED
  BY <1>1, Invariance, PTL

\* default_session.go:249-257, 414-444: the one exit message is about a process that is gone,
\* and it is missing only when nothing ran, or an internal subsystem failed.
THEOREM ExitMessagesAreTrue == Spec => []ExitTellsTheTruth
<1>1. IInv => ExitTellsTheTruth
  BY DEF IInv, LifeInv, Life, Truth, ExitTellsTheTruth
<1>2. QED
  BY <1>1, Invariance, PTL

-----------------------------------------------------------------------------
(* Each channel keeps to the protocol.                                     *)

\* What the client has seen of a channel.
PhaseOf(s) == IF at[s] = "closed" THEN "closed"
              ELSE IF report[s] # "none" THEN "exited"
              ELSE IF run[s] # "nothing" THEN "started" ELSE "setup"

Phase == [s \in Sessions |-> PhaseOf(s)]

LEMMA PhaseInit == Init => Protocol!Init
BY DEF Init, Protocol!Init

\* A step the protocol does not see.
Unseen == Phase' = Phase /\ exits' = exits

LEMMA PhaseFrame ==
  ASSUME UNCHANGED <<at, run, report, exits>>
  PROVE  Unseen
BY DEF Phase, PhaseOf, Unseen

\* The steps of one session that are steps of the protocol.
LEMMA OnePhase ==
  ASSUME NEW s \in Sessions, MovesOnly(s),
         \/ PhaseOf(s)' = PhaseOf(s) /\ exits' = exits
         \/ PhaseOf(s) = "setup" /\ PhaseOf(s)' = "started" /\ exits' = exits
         \/ /\ PhaseOf(s) = "started" /\ PhaseOf(s)' = "exited"
            /\ exits' = [exits EXCEPT ![s] = @ + 1]
         \/ /\ PhaseOf(s) \in {"setup", "started", "exited"} /\ PhaseOf(s)' = "closed"
            /\ exits' = exits
  PROVE  Protocol!Next \/ Unseen
<1>1. \A q \in Sessions \ {s} : PhaseOf(q)' = PhaseOf(q)
  BY DEF MovesOnly, PhaseOf
<1>2. Phase' = [Phase EXCEPT ![s] = PhaseOf(s)']
  BY <1>1 DEF Phase
<1>3. Phase[s] = PhaseOf(s)
  BY DEF Phase
<1>4. CASE PhaseOf(s)' = PhaseOf(s) /\ exits' = exits
  BY <1>2, <1>3, <1>4 DEF Phase, Unseen
<1>5. CASE PhaseOf(s) = "setup" /\ PhaseOf(s)' = "started" /\ exits' = exits
  <2>1. Protocol!Start(s)
    BY <1>2, <1>3, <1>5 DEF Protocol!Start, Protocol!Move, Phase, PhaseOf
  <2>2. QED
    BY <2>1 DEF Protocol!Next
<1>6. CASE /\ PhaseOf(s) = "started" /\ PhaseOf(s)' = "exited"
           /\ exits' = [exits EXCEPT ![s] = @ + 1]
  <2>1. Protocol!Exit(s)
    BY <1>2, <1>3, <1>6 DEF Protocol!Exit, Protocol!Move, Phase, PhaseOf
  <2>2. QED
    BY <2>1 DEF Protocol!Next
<1>7. CASE /\ PhaseOf(s) \in {"setup", "started", "exited"} /\ PhaseOf(s)' = "closed"
           /\ exits' = exits
  <2>1. Protocol!Close(s)
    BY <1>2, <1>3, <1>7 DEF Protocol!Close, Protocol!Move, Phase, PhaseOf
  <2>2. QED
    BY <2>1 DEF Protocol!Next
<1>8. QED
  BY <1>4, <1>5, <1>6, <1>7

\* A request that ends the loop starts the program, if it starts one.
LEMMA StartingPhase ==
  ASSUME LifeTyped, LifeInv, NEW s \in Sessions, Starting(s) \/ RequestsEnd(s)
  PROVE  Protocol!Next \/ Unseen
<1>1. at[s] = "reading" /\ Life(s)
  BY DEF LifeInv, Starting, RefuseStart, StartProgram, StartSubsystem, RequestsEnd, Pending
<1>2. run[s] = "nothing" /\ report[s] = "none"
  BY <1>1 DEF Life, RunNow
<1>3. PICK where \in Places \ {"closed"}, prog \in Programs :
        /\ at' = [at EXCEPT ![s] = where] /\ run' = [run EXCEPT ![s] = prog]
        /\ UNCHANGED <<client, proc, copy, report, exits>>
  <2>1. CASE RefuseStart(s) \/ RequestsEnd(s)
    <3>1. /\ at' = [at EXCEPT ![s] = "returning"] /\ run' = run
          /\ UNCHANGED <<client, proc, copy, report, exits>>
      BY <2>1 DEF RefuseStart, RequestsEnd, Leave, clientVars, procVars, exitVars
    <3>2. run' = [run EXCEPT ![s] = "nothing"]
      BY <1>2, <3>1 DEF LifeTyped
    <3>3. QED
      BY <3>1, <3>2 DEF Programs, Places
  <2>2. CASE StartProgram(s)
    <3>1. Program(s) \in {"shell", "exec", "forced"}
      BY <2>2 DEF StartProgram, Pending, Program, Request
    <3>2. QED
      BY <2>2, <3>1 DEF StartProgram, Leave, Programs, Places, clientVars, procVars, exitVars
  <2>3. CASE StartSubsystem(s)
    <3>1. \E where \in {"internal", "empty", "starting"}, prog \in {"internal", "command"} :
            at' = [at EXCEPT ![s] = where] /\ run' = [run EXCEPT ![s] = prog]
      BY <2>3 DEF StartSubsystem, Leave
    <3>2. UNCHANGED <<client, proc, copy, report, exits>>
      BY <2>3 DEF StartSubsystem, Leave, clientVars, procVars, exitVars
    <3>3. QED
      BY <3>1, <3>2 DEF Programs, Places
  <2>4. QED
    BY <2>1, <2>2, <2>3 DEF Starting
<1>4. MovesOnly(s)
  BY <1>3 DEF MovesOnly, LifeTyped
<1>5. at'[s] = where /\ run'[s] = prog /\ report'[s] = "none"
  BY <1>2, <1>3 DEF LifeTyped
<1>6. PhaseOf(s) = "setup" /\ PhaseOf(s)' \in {"setup", "started"}
  BY <1>1, <1>2, <1>3, <1>5 DEF PhaseOf
<1>7. QED
  BY <1>3, <1>4, <1>6, OnePhase

\* The report is made once, and of something started.
LEMMA ExitPhase ==
  ASSUME LifeTyped, LifeInv, NEW s \in Sessions, NEW r \in Reports \ {"none"},
         NEW where \in {"returning", "failing"}, Exit(s, r, where),
         run[s] # "nothing", report[s] = "none", at[s] # "closed"
  PROVE  Protocol!Next \/ Unseen
<1>0. exits[s] = 0
  BY DEF LifeInv, Life
<1>1. /\ report' = [report EXCEPT ![s] = r] /\ at' = [at EXCEPT ![s] = where]
      /\ exits' = [exits EXCEPT ![s] = @ + 1]
      /\ UNCHANGED <<client, run, proc, copy>>
  BY <1>0, FirstTold DEF Exit, clientVars, procVars
<1>2. MovesOnly(s)
  BY <1>1 DEF MovesOnly, LifeTyped
<1>3. report'[s] = r /\ at'[s] = where /\ run'[s] = run[s]
  BY <1>1 DEF LifeTyped
<1>4. PhaseOf(s) = "started" /\ PhaseOf(s)' = "exited"
  BY <1>3 DEF PhaseOf
<1>5. QED
  BY <1>1, <1>2, <1>4, OnePhase

LEMMA MovingPhase ==
  ASSUME LifeTyped, LifeInv, NEW s \in Sessions, Moving(s)
  PROVE  Protocol!Next \/ Unseen
<1>0. Life(s)
  BY DEF LifeInv
<1>1. CASE NothingToRun(s)
  BY <1>0, <1>1, ExitPhase DEF NothingToRun, Life, Reports
<1>2. CASE InternalEnds(s)
  BY <1>0, <1>2, ExitPhase DEF InternalEnds, Life, RunNow, Reports
<1>3. CASE SpawnFails(s)
  BY <1>0, <1>3, ExitPhase DEF SpawnFails, RunReturns, Life, Reports
<1>4. CASE WaitReturns(s)
  <2>1. PICK r \in Reports \ {"none"}, where \in {"returning", "failing"} : Exit(s, r, where)
    BY <1>4 DEF WaitReturns, RunReturns, Reports
  <2>2. QED
    BY <1>0, <1>4, <2>1, ExitPhase DEF WaitReturns, Life
<1>5. CASE Spawn(s) \/ InternalFails(s) \/ CloseChannel(s)
  <2>1. /\ at[s] # "closed" /\ UNCHANGED <<client, run, report, exits>>
        /\ \E where \in Places : at' = [at EXCEPT ![s] = where]
        /\ \E p \in Procs : proc' = [proc EXCEPT ![s] = p]
        /\ \E c \in Copies : copy' = [copy EXCEPT ![s] = c]
    <3>1. proc = [proc EXCEPT ![s] = proc[s]] /\ copy = [copy EXCEPT ![s] = copy[s]]
      BY DEF LifeTyped
    <3>2. QED
      BY <1>5, <3>1 DEF Spawn, InternalFails, CloseChannel, LifeTyped, Places, Procs, Copies, clientVars, procVars, exitVars
  <2>2. MovesOnly(s)
    BY <2>1 DEF MovesOnly, LifeTyped
  <2>3. PhaseOf(s)' = PhaseOf(s) \/ PhaseOf(s)' = "closed"
    BY <2>1 DEF PhaseOf
  <2>4. PhaseOf(s) \in {"setup", "started", "exited"}
    BY <2>1 DEF PhaseOf
  <2>5. QED
    BY <2>1, <2>2, <2>3, <2>4, OnePhase
<1>6. CASE ProcessExits(s) \/ Copier(s)
  <2>1. UNCHANGED <<at, run, report, exits>>
    BY <1>6 DEF ProcessExits, Copier, CopyData, CopyEnds, CopyStep, exitVars
  <2>2. QED
    BY <2>1, PhaseFrame
<1>7. CASE RunFailed(s)
  <2>1. at[s] = "failing" /\ exits[s] # 0 /\ report[s] # "none"
    BY <1>0, <1>7 DEF RunFailed, Life
  <2>2. at' = [at EXCEPT ![s] = "returning"] /\ UNCHANGED <<client, run, proc, copy, report, exits>>
    BY <1>7, <2>1 DEF RunFailed, Exit, Tell, clientVars, procVars, exitVars
  <2>3. MovesOnly(s) /\ PhaseOf(s)' = PhaseOf(s)
    BY <2>1, <2>2 DEF MovesOnly, PhaseOf, LifeTyped
  <2>4. QED
    BY <2>2, <2>3, OnePhase
<1>8. QED
  BY <1>1, <1>2, <1>3, <1>4, <1>5, <1>6, <1>7 DEF Moving

LEMMA ClientPhase ==
  ASSUME LifeTyped, LifeInv, NEW s \in Sessions, Client(s)
  PROVE  Protocol!Next \/ Unseen
<1>1. CASE Open(s)
  <2>1. at[s] = "none" /\ at' = [at EXCEPT ![s] = "reading"] /\ UNCHANGED <<run, report, exits>>
    BY <1>1 DEF Open, LifeInv, Life, exitVars
  <2>2. \A q \in Sessions : PhaseOf(q)' = PhaseOf(q)
    BY <2>1 DEF PhaseOf, LifeTyped
  <2>3. QED
    BY <2>1, <2>2 DEF Phase, Unseen
<1>2. CASE SendRequest(s) \/ SendData(s) \/ SendEof(s) \/ SendClose(s)
  <2>1. UNCHANGED <<at, run, report, exits>>
    BY <1>2 DEF SendRequest, SendData, SendEof, SendClose, Send, exitVars
  <2>2. QED
    BY <2>1, PhaseFrame
<1>3. QED
  BY <1>1, <1>2 DEF Client

LEMMA PhaseNext == IInv /\ [Next]_vars => [Protocol!Next]_<<Phase, exits>>
<1> SUFFICES ASSUME IInv, [Next]_vars PROVE Protocol!Next \/ Unseen
  BY DEF Unseen
<1>1. ASSUME NEW s \in Sessions, Reading(s) PROVE Unseen
  BY <1>1, PhaseFrame
     DEF Reading, RefuseSetup, GrantPty, TakeEnv, IgnoreControl, RefuseOther, ReadOn, exitVars
<1>2. CASE Mux \/ Disconnect \/ UNCHANGED vars
  BY <1>2, PhaseFrame DEF Mux, DeliverRequest, DeliverData, DeliverEof, DeliverClose, MuxStep, MuxEnds,
     Disconnect, vars, exitVars
<1>3. QED
  BY <1>1, <1>2, NextCases, ClientPhase, StartingPhase, MovingPhase DEF IInv

\* default_session.go:150-222, 249-257 and ssh.go:516-519: on each of any number of channels
\* at most one program is started, at most one exit message follows, and the close is last.
THEOREM ProtocolImplemented == Spec => ImplementsProtocol
<1>1. IInv /\ [Next]_vars => [Protocol!Next]_<<Phase, exits>>
  BY PhaseNext
<1>2. QED
  BY PhaseInit, <1>1, Invariance, PTL DEF Spec, ImplementsProtocol, Protocol!Spec, Phase, PhaseOf
=============================================================================
