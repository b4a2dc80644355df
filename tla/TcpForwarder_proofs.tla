------------------------ MODULE TcpForwarder_proofs -------------------------
(***************************************************************************)
(* Proofs about TcpForwarder, for any number of connections, sockets,      *)
(* addresses, ports and requests.                                          *)
(*                                                                         *)
(* NoListenerLost alone is not inductive: that inserting a new listener    *)
(* cannot overwrite a live one rests on the kernel never binding two       *)
(* contending addresses (SocketsDisjoint), and that a cancel's Close hits  *)
(* a socket that is no longer in the map rests on every held socket being  *)
(* open (HeldAreOpen).  IInv is their conjunction.                         *)
(***************************************************************************)
EXTENDS TcpForwarder, TLAPS

\* A socket in the hands of a request loop is open.
HeldAreOpen ==
  \A c \in Conns : held[c] # NoListener => sock[held[c]] = "open"

\* Open sockets are bound to a real port, and no two of them contend.
SocketsDisjoint ==
  /\ \A l \in Listeners : sock[l] = "open" => bound[l] \in BoundKeys
  /\ \A l, m \in Listeners :
       sock[l] = "open" /\ sock[m] = "open" /\ Contend(bound[l], bound[m]) => l = m

IInv ==
  /\ TypeOK
  /\ EntriesAreLive
  /\ NoListenerLost
  /\ HeldAreOpen
  /\ SocketsDisjoint

-----------------------------------------------------------------------------
(* Facts about the constants and the helpers.                              *)

LEMMA KeysNonempty == Keys # {}
<1>1. PICK a \in Addrs : TRUE
  BY SomeAssumption
<1>2. <<a, 0>> \in Keys
  BY <1>1 DEF Keys
<1>3. QED
  BY <1>2

LEMMA BoundKeysAreKeys == BoundKeys \subseteq Keys
BY DEF BoundKeys, Keys

\* Every key contends with itself, and contention is symmetric.
LEMMA ContendReflexive == \A k \in Keys : Contend(k, k)
BY OverlapAssumption DEF Contend, Keys

LEMMA ContendSymmetric ==
  \A k1, k2 \in Keys : Contend(k1, k2) => Contend(k2, k1)
BY OverlapAssumption DEF Contend, Keys

LEMMA NewSocketUnused ==
  ASSUME \E l \in Listeners : sock[l] = "unused"
  PROVE  NewSocket \in Listeners /\ sock[NewSocket] = "unused"
BY Zenon DEF NewSocket

\* What the head of a nonempty queue is, and that the rest is still a queue.
LEMMA QueueFacts ==
  ASSUME NEW S, NEW q \in Seq(S), q # <<>>
  PROVE  Head(q) \in S /\ Tail(q) \in Seq(S)
OBVIOUS

LEMMA AppendFacts ==
  ASSUME NEW S, NEW q \in Seq(S), NEW e \in S
  PROVE  Append(q, e) \in Seq(S) /\ Append(q, e) # <<>>
<1>1. Append(q, e) \in Seq(S) /\ Len(Append(q, e)) = Len(q) + 1 /\ Len(q) \in Nat
  OBVIOUS
<1>2. QED
  BY <1>1

\* Dropping the request just answered leaves every queue well formed, and
\* touches no queue but its own.
LEMMA NextRequestFacts ==
  ASSUME NEW c \in Conns, queue \in [Conns -> Seq(Requests)], queue[c] # <<>>,
         NextRequest(c)
  PROVE  /\ queue' \in [Conns -> Seq(Requests)]
         /\ \A d \in Conns \ {c} : queue'[d] = queue[d]
BY QueueFacts DEF NextRequest

-----------------------------------------------------------------------------
(* Type correctness.                                                       *)

LEMMA TypeInit == Init => TypeOK
<1> SUFFICES ASSUME Init PROVE TypeOK
  OBVIOUS
<1>1. (CHOOSE k \in Keys : TRUE) \in Keys
  BY KeysNonempty, Zenon
<1>2. (CHOOSE c \in Conns : TRUE) \in Conns
  BY SomeAssumption, Zenon
<1> DEFINE k0 == CHOOSE k \in Keys : TRUE
             c0 == CHOOSE c \in Conns : TRUE
<1>4. /\ bound = [l \in Listeners |-> k0] /\ k0 \in Keys
      /\ owner = [l \in Listeners |-> c0] /\ c0 \in Conns
  BY <1>1, <1>2 DEF Init
<1> HIDE DEF k0, c0
<1>5. bound \in [Listeners -> Keys] /\ owner \in [Listeners -> Conns]
  BY <1>4
<1>6. /\ conn = [c \in Conns |-> "new"] /\ sent = [c \in Conns |-> 0]
      /\ queue = [c \in Conns |-> <<>>] /\ at = [c \in Conns |-> "idle"]
      /\ held = [c \in Conns |-> NoListener]
      /\ sock = [l \in Listeners |-> "unused"] /\ loop = [l \in Listeners |-> "none"]
      /\ forwards = [k \in Keys |-> NoListener]
      /\ raw = [r \in Raws |-> "new"] /\ via = [r \in Raws |-> NoListener]
  BY Zenon DEF Init
<1>7. QED
  BY <1>5, <1>6, BoundsAssumption DEF TypeOK

LEMMA TypeNext == TypeOK /\ [Next]_vars => TypeOK'
<1> SUFFICES ASSUME TypeOK, [Next]_vars PROVE TypeOK'
  OBVIOUS
<1> USE NilAssumption DEF TypeOK, handlerVars, sockVars, rawVars
<1>1. ASSUME NEW c \in Conns, Connect(c) PROVE TypeOK'
  BY <1>1 DEF Connect
<1>2. ASSUME NEW c \in Conns, ClientRequest(c) PROVE TypeOK'
  <2>1. PICK req \in Requests : queue' = [queue EXCEPT ![c] = Append(@, req)]
    BY <1>2 DEF ClientRequest
  <2>2. Append(queue[c], req) \in Seq(Requests) /\ Append(queue[c], req) # <<>>
    BY AppendFacts
  <2>3. QED
    BY <1>2, <2>1, <2>2, BoundsAssumption DEF ClientRequest
<1>3. ASSUME NEW c \in Conns, Disconnect(c) PROVE TypeOK'
  BY <1>3 DEF Disconnect
<1>4. ASSUME NEW c \in Conns, RefuseOther(c) PROVE TypeOK'
  BY <1>4, NextRequestFacts, ZenonT(40) DEF RefuseOther, Pending
<1>5. ASSUME NEW c \in Conns, RefuseForward(c) PROVE TypeOK'
  BY <1>5, NextRequestFacts, ZenonT(40) DEF RefuseForward, Pending
<1>6. ASSUME NEW c \in Conns, ListenForward(c) PROVE TypeOK'
  <2>1. NewSocket \in Listeners /\ sock[NewSocket] = "unused"
    BY <1>6, NewSocketUnused DEF ListenForward
  <2>2. PICK b \in Keys : bound' = [bound EXCEPT ![NewSocket] = b]
    BY <1>6, BoundKeysAreKeys DEF ListenForward, Bindable
  <2>3. /\ sock' = [sock EXCEPT ![NewSocket] = "open"]
        /\ owner' = [owner EXCEPT ![NewSocket] = c]
        /\ held' = [held EXCEPT ![c] = NewSocket]
        /\ at' = [at EXCEPT ![c] = "listened"]
        /\ queue[c] # <<>>
        /\ UNCHANGED <<conn, sent, queue, loop, forwards, rawVars>>
    BY <1>6 DEF ListenForward, Pending
  <2> HIDE DEF NewSocket
  <2>4. QED
    BY <2>1, <2>2, <2>3
<1>7. ASSUME NEW c \in Conns, RegisterForward(c) PROVE TypeOK'
  <2>1. held[c] \in Listeners /\ queue[c] # <<>>
    BY <1>7 DEF RegisterForward
  <2>2. QED
    BY <1>7, <2>1, NextRequestFacts DEF RegisterForward
<1>8. ASSUME NEW c \in Conns, RefuseCancel(c) PROVE TypeOK'
  BY <1>8, NextRequestFacts, ZenonT(40) DEF RefuseCancel, Pending
<1>9. ASSUME NEW c \in Conns, DeleteForward(c) PROVE TypeOK'
  <2>1. Request(c) \in Keys
    BY <1>9, QueueFacts, RequestsAssumption DEF DeleteForward, Pending, Request, RequestType
  <2>2. QED
    BY <1>9, <2>1 DEF DeleteForward, Pending
<1>10. ASSUME NEW c \in Conns, CloseForward(c) PROVE TypeOK'
  <2>1. held[c] \in Listeners /\ queue[c] # <<>>
    BY <1>10 DEF CloseForward
  <2>2. QED
    BY <1>10, <2>1, NextRequestFacts DEF CloseForward
<1>11. ASSUME NEW c \in Conns, RequestLoopEnds(c) PROVE TypeOK'
  BY <1>11 DEF RequestLoopEnds
<1>12. ASSUME NEW l \in Listeners, AcceptLoop(l) PROVE TypeOK'
  BY <1>12 DEF AcceptLoop, AcceptFails, AcceptLoopEnds
<1>13. ASSUME NEW r \in Raws, RawArrives(r) PROVE TypeOK'
  BY <1>13 DEF RawArrives
<1>14. ASSUME NEW r \in Raws, Dispatch(r) PROVE TypeOK'
  <2>1. PICK to \in {"opening", "piped", "writing", "closed"} :
           raw[r] # "new" /\ raw' = [raw EXCEPT ![r] = to]
    BY <1>14 DEF Dispatch, Accept, ChannelOpens, ChannelRefused, ChannelFails,
                 DataComes, DataTaken, PipeEnds, PipeBreaks, RawMoves
  <2>2. UNCHANGED <<conn, sent, queue, at, held, sock, bound, owner, loop, forwards, via>>
    BY <1>14 DEF Dispatch, Accept, ChannelOpens, ChannelRefused, ChannelFails,
                 DataComes, DataTaken, PipeEnds, PipeBreaks, RawMoves
  <2>3. QED
    BY <2>1, <2>2
<1>15. CASE UNCHANGED vars
  BY <1>15 DEF vars
<1>16. QED
  BY <1>1, <1>2, <1>3, <1>4, <1>5, <1>6, <1>7, <1>8, <1>9, <1>10, <1>11,
     <1>12, <1>13, <1>14, <1>15 DEF Next, Client, RequestLoop

\* The variables always have their types, and a request loop holds a listener
\* exactly while it is between the two halves of a start or a cancel.
THEOREM TypeCorrect == Spec => []TypeOK
<1>1. QED
  BY TypeInit, TypeNext, PTL DEF Spec

-----------------------------------------------------------------------------
(* The inductive invariant.                                                *)

LEMMA IInvInit == Init => IInv
<1> SUFFICES ASSUME Init PROVE IInv
  OBVIOUS
<1>1. TypeOK
  BY TypeInit
<1>2. /\ \A l \in Listeners : sock[l] = "unused"
      /\ \A c \in Conns : held[c] = NoListener
      /\ \A k \in Keys : forwards[k] = NoListener
  BY DEF Init
<1>3. QED
  BY <1>1, <1>2
     DEF IInv, EntriesAreLive, NoListenerLost, HeldAreOpen, SocketsDisjoint

\* Everything but the types speaks of four variables only.
LEMMA IInvFrame ==
  ASSUME IInv, TypeOK', UNCHANGED <<held, sock, bound, forwards>>
  PROVE  IInv'
BY DEF IInv, EntriesAreLive, NoListenerLost, HeldAreOpen, SocketsDisjoint,
       BoundKeys, Contend

\* The new socket is bound to a free key and goes into its own loop's hands.
LEMMA ListenPreserves ==
  ASSUME IInv, TypeOK', NEW c \in Conns, ListenForward(c)
  PROVE  IInv'
<1> DEFINE n == NewSocket
<1>1. n \in Listeners /\ sock[n] = "unused"
  BY NewSocketUnused DEF ListenForward
<1>2. PICK b \in BoundKeys : bound' = [bound EXCEPT ![n] = b] /\ ~InUse(b)
  BY DEF ListenForward, Bindable
<1>3. /\ sock' = [sock EXCEPT ![n] = "open"]
      /\ held' = [held EXCEPT ![c] = n]
      /\ held[c] = NoListener
      /\ forwards' = forwards
  BY DEF ListenForward, Pending, IInv, TypeOK
<1>0. /\ EntriesAreLive /\ NoListenerLost /\ HeldAreOpen /\ SocketsDisjoint
      /\ held \in [Conns -> Listeners \cup {NoListener}]
      /\ sock \in [Listeners -> {"unused", "open", "closed"}]
      /\ bound \in [Listeners -> Keys]
      /\ forwards \in [Keys -> Listeners \cup {NoListener}]
  BY DEF IInv, TypeOK
<1> HIDE DEF n
<1>4. \A k \in Keys : forwards[k] # n
  BY <1>0, <1>1, NilAssumption DEF EntriesAreLive
<1>5. \A d \in Conns : held[d] # n
  BY <1>0, <1>1, NilAssumption DEF HeldAreOpen
<1>6. EntriesAreLive'
  BY <1>0, <1>1, <1>2, <1>3, <1>4 DEF EntriesAreLive
<1>7. HeldAreOpen'
  BY <1>0, <1>1, <1>3 DEF HeldAreOpen
<1>8. NoListenerLost'
  <2> SUFFICES ASSUME NEW l \in Listeners, sock'[l] = "open"
               PROVE  \/ forwards'[bound'[l]] = l /\ \A d \in Conns : held'[d] # l
                      \/ /\ forwards'[bound'[l]] # l
                         /\ \E d \in Conns : held'[d] = l
                                 /\ \A e \in Conns \ {d} : held'[e] # l
    BY DEF NoListenerLost
  <2>1. CASE l = n
    BY <2>1, <1>0, <1>1, <1>2, <1>3, <1>4, <1>5, BoundKeysAreKeys
  <2>2. CASE l # n
    <3>1. sock[l] = "open" /\ bound'[l] = bound[l]
      BY <2>2, <1>0, <1>1, <1>2, <1>3
    <3>2. CASE forwards[bound[l]] = l /\ \A d \in Conns : held[d] # l
      BY <3>1, <3>2, <2>2, <1>0, <1>3
    <3>3. CASE /\ forwards[bound[l]] # l
               /\ \E d \in Conns : held[d] = l /\ \A e \in Conns \ {d} : held[e] # l
      <4>1. PICK d \in Conns : held[d] = l /\ \A e \in Conns \ {d} : held[e] # l
        BY <3>3
      <4>2. d # c
        BY <4>1, <1>0, <1>3, NilAssumption
      <4>3. QED
        BY <3>1, <3>3, <4>1, <4>2, <2>2, <1>0, <1>3
    <3>4. QED
      BY <1>0, <3>1, <3>2, <3>3 DEF NoListenerLost
  <2>3. QED
    BY <2>1, <2>2
<1>9. SocketsDisjoint'
  <2>1. \A l \in Listeners : sock'[l] = "open" => bound'[l] \in BoundKeys
    BY <1>0, <1>1, <1>2, <1>3 DEF SocketsDisjoint
  <2>2. ASSUME NEW l \in Listeners, NEW m \in Listeners,
               sock'[l] = "open", sock'[m] = "open", Contend(bound'[l], bound'[m]),
               l # m
        PROVE  FALSE
    <3>1. CASE l # n /\ m # n
      BY <3>1, <2>2, <1>0, <1>1, <1>2, <1>3 DEF SocketsDisjoint
    <3>2. CASE l = n
      <4>1. sock[m] = "open" /\ bound'[m] = bound[m] /\ bound'[l] = b
        BY <3>2, <2>2, <1>0, <1>1, <1>2, <1>3
      <4>2. Contend(bound[m], b)
        BY <4>1, <2>2, <1>0, ContendSymmetric, BoundKeysAreKeys
      <4>3. QED
        BY <4>1, <4>2, <1>2 DEF InUse
    <3>3. CASE m = n
      <4>1. sock[l] = "open" /\ bound'[l] = bound[l] /\ bound'[m] = b
        BY <3>3, <2>2, <1>0, <1>1, <1>2, <1>3
      <4>2. QED
        BY <4>1, <2>2, <1>2 DEF InUse
    <3>4. QED
      BY <3>1, <3>2, <3>3
  <2>3. QED
    BY <2>1, <2>2 DEF SocketsDisjoint, Contend
<1>10. QED
  BY <1>6, <1>7, <1>8, <1>9 DEF IInv

\* A held socket is open, held once, and not in the map under any key.
LEMMA HeldFacts ==
  ASSUME IInv, NEW c \in Conns, held[c] # NoListener
  PROVE  /\ held[c] \in Listeners /\ sock[held[c]] = "open"
         /\ \A d \in Conns \ {c} : held[d] # held[c]
         /\ \A k \in Keys : forwards[k] # held[c]
<1>0. /\ EntriesAreLive /\ NoListenerLost /\ HeldAreOpen /\ SocketsDisjoint
      /\ held \in [Conns -> Listeners \cup {NoListener}]
      /\ sock \in [Listeners -> {"unused", "open", "closed"}]
      /\ bound \in [Listeners -> Keys]
      /\ forwards \in [Keys -> Listeners \cup {NoListener}]
  BY DEF IInv, TypeOK
<1>1. held[c] \in Listeners /\ sock[held[c]] = "open"
  BY <1>0 DEF HeldAreOpen
<1>2. /\ forwards[bound[held[c]]] # held[c]
      /\ \A d \in Conns \ {c} : held[d] # held[c]
  BY <1>0, <1>1 DEF NoListenerLost
<1>3. \A k \in Keys : forwards[k] # held[c]
  BY <1>0, <1>2 DEF EntriesAreLive
<1>4. QED
  BY <1>1, <1>2, <1>3

\* When a loop comes to insert, the key it inserts under is free, and so is
\* every key that contends with it: the insert overwrites nothing.
LEMMA InsertKeyIsFree ==
  ASSUME IInv, NEW c \in Conns, at[c] = "listened"
  PROVE  /\ held[c] \in Listeners
         /\ bound[held[c]] \in BoundKeys
         /\ \A k \in Keys : Contend(bound[held[c]], k) => forwards[k] = NoListener
<1>0. /\ EntriesAreLive /\ NoListenerLost /\ HeldAreOpen /\ SocketsDisjoint
      /\ held \in [Conns -> Listeners \cup {NoListener}]
      /\ sock \in [Listeners -> {"unused", "open", "closed"}]
      /\ bound \in [Listeners -> Keys]
      /\ forwards \in [Keys -> Listeners \cup {NoListener}]
  BY DEF IInv, TypeOK
<1>1. held[c] # NoListener
  BY DEF IInv, TypeOK
<1>2. /\ held[c] \in Listeners /\ sock[held[c]] = "open"
      /\ \A k \in Keys : forwards[k] # held[c]
  BY <1>1, HeldFacts
<1>3. bound[held[c]] \in BoundKeys
  BY <1>0, <1>2 DEF SocketsDisjoint
<1>4. ASSUME NEW k \in Keys, Contend(bound[held[c]], k), forwards[k] # NoListener
      PROVE  FALSE
  <2>1. /\ forwards[k] \in Listeners
        /\ sock[forwards[k]] = "open"
        /\ bound[forwards[k]] = k
    BY <1>0, <1>4 DEF EntriesAreLive
  <2>2. forwards[k] = held[c]
    BY <1>0, <1>2, <1>4, <2>1 DEF SocketsDisjoint
  <2>3. QED
    BY <2>2, <1>2
<1>5. QED
  BY <1>2, <1>3, <1>4

LEMMA RegisterPreserves ==
  ASSUME IInv, TypeOK', NEW c \in Conns, RegisterForward(c)
  PROVE  IInv'
<1> DEFINE l == held[c]
           k == bound[l]
<1>0. /\ EntriesAreLive /\ NoListenerLost /\ HeldAreOpen /\ SocketsDisjoint
      /\ held \in [Conns -> Listeners \cup {NoListener}]
      /\ sock \in [Listeners -> {"unused", "open", "closed"}]
      /\ bound \in [Listeners -> Keys]
      /\ forwards \in [Keys -> Listeners \cup {NoListener}]
  BY DEF IInv, TypeOK
<1>1. /\ forwards' = [forwards EXCEPT ![k] = l]
      /\ held' = [held EXCEPT ![c] = NoListener]
      /\ sock' = sock /\ bound' = bound
      /\ at[c] = "listened" /\ l # NoListener
  BY DEF RegisterForward, sockVars, IInv, TypeOK
<1>2. /\ l \in Listeners /\ sock[l] = "open"
      /\ \A d \in Conns \ {c} : held[d] # l
  BY <1>1, HeldFacts
<1>3. k \in Keys /\ forwards[k] = NoListener
  BY <1>1, InsertKeyIsFree, ContendReflexive, BoundKeysAreKeys
<1>4. held[c] = l /\ bound[l] = k
  OBVIOUS
<1> HIDE DEF l, k
<1>5. EntriesAreLive'
  BY <1>0, <1>1, <1>2, <1>3, <1>4 DEF EntriesAreLive
<1>6. HeldAreOpen'
  BY <1>0, <1>1 DEF HeldAreOpen
<1>7. SocketsDisjoint'
  BY <1>0, <1>1 DEF SocketsDisjoint, Contend
<1>8. NoListenerLost'
  <2> SUFFICES ASSUME NEW x \in Listeners, sock[x] = "open"
               PROVE  \/ forwards'[bound[x]] = x /\ \A d \in Conns : held'[d] # x
                      \/ /\ forwards'[bound[x]] # x
                         /\ \E d \in Conns : held'[d] = x
                                 /\ \A e \in Conns \ {d} : held'[e] # x
    BY <1>1 DEF NoListenerLost
  <2>1. CASE x = l
    BY <2>1, <1>0, <1>1, <1>2, <1>3, <1>4, NilAssumption
  <2>2. CASE x # l /\ forwards[bound[x]] = x /\ \A d \in Conns : held[d] # x
    BY <2>2, <1>0, <1>1, <1>3, NilAssumption
  <2>3. CASE /\ x # l /\ forwards[bound[x]] # x
             /\ \E d \in Conns : held[d] = x /\ \A e \in Conns \ {d} : held[e] # x
    <3>1. PICK d \in Conns : held[d] = x /\ \A e \in Conns \ {d} : held[e] # x
      BY <2>3
    <3>2. d # c
      BY <3>1, <2>3, <1>4
    <3>3. forwards'[bound[x]] # x
      BY <2>3, <1>0, <1>1, <1>3
    <3>4. QED
      BY <3>1, <3>2, <3>3, <1>0, <1>1, NilAssumption
  <2>4. QED
    BY <1>0, <2>1, <2>2, <2>3 DEF NoListenerLost
<1>9. QED
  BY <1>5, <1>6, <1>7, <1>8 DEF IInv

LEMMA DeletePreserves ==
  ASSUME IInv, TypeOK', NEW c \in Conns, DeleteForward(c)
  PROVE  IInv'
<1> DEFINE k == Request(c)
           l == forwards[k]
<1>0. /\ EntriesAreLive /\ NoListenerLost /\ HeldAreOpen /\ SocketsDisjoint
      /\ held \in [Conns -> Listeners \cup {NoListener}]
      /\ sock \in [Listeners -> {"unused", "open", "closed"}]
      /\ bound \in [Listeners -> Keys]
      /\ forwards \in [Keys -> Listeners \cup {NoListener}]
  BY DEF IInv, TypeOK
<1>1. /\ held' = [held EXCEPT ![c] = l]
      /\ forwards' = [forwards EXCEPT ![k] = NoListener]
      /\ sock' = sock /\ bound' = bound
      /\ held[c] = NoListener /\ l # NoListener
  BY DEF DeleteForward, Pending, sockVars, IInv, TypeOK
<1>2. k \in Keys
  BY QueueFacts, RequestsAssumption
     DEF DeleteForward, Pending, Request, RequestType, IInv, TypeOK
<1>3. forwards[k] = l
  OBVIOUS
<1> HIDE DEF k, l
<1>4. l \in Listeners /\ sock[l] = "open" /\ bound[l] = k
  BY <1>0, <1>1, <1>2, <1>3 DEF EntriesAreLive
<1>5. \A d \in Conns : held[d] # l
  BY <1>0, <1>3, <1>4 DEF NoListenerLost
<1>6. EntriesAreLive'
  BY <1>0, <1>1, <1>2 DEF EntriesAreLive
<1>7. HeldAreOpen'
  BY <1>0, <1>1, <1>4 DEF HeldAreOpen
<1>8. SocketsDisjoint'
  BY <1>0, <1>1 DEF SocketsDisjoint, Contend
<1>9. NoListenerLost'
  <2> SUFFICES ASSUME NEW x \in Listeners, sock[x] = "open"
               PROVE  \/ forwards'[bound[x]] = x /\ \A d \in Conns : held'[d] # x
                      \/ /\ forwards'[bound[x]] # x
                         /\ \E d \in Conns : held'[d] = x
                                 /\ \A e \in Conns \ {d} : held'[e] # x
    BY <1>1 DEF NoListenerLost
  <2>1. CASE x = l
    <3>1. forwards'[bound[x]] # x
      BY <2>1, <1>0, <1>1, <1>2, <1>4
    <3>2. held'[c] = x /\ \A e \in Conns \ {c} : held'[e] # x
      BY <2>1, <1>0, <1>1, <1>5
    <3>3. QED
      BY <3>1, <3>2
  <2>2. CASE x # l /\ forwards[bound[x]] = x /\ \A d \in Conns : held[d] # x
    BY <2>2, <1>0, <1>1, <1>2, <1>3
  <2>3. CASE /\ x # l /\ forwards[bound[x]] # x
             /\ \E d \in Conns : held[d] = x /\ \A e \in Conns \ {d} : held[e] # x
    <3>1. PICK d \in Conns : held[d] = x /\ \A e \in Conns \ {d} : held[e] # x
      BY <2>3
    <3>2. d # c
      BY <3>1, <1>1, NilAssumption
    <3>3. forwards'[bound[x]] # x
      BY <2>3, <1>0, <1>1, <1>2, NilAssumption
    <3>4. QED
      BY <3>1, <3>2, <3>3, <2>3, <1>0, <1>1
  <2>4. QED
    BY <1>0, <2>1, <2>2, <2>3 DEF NoListenerLost
<1>10. QED
  BY <1>6, <1>7, <1>8, <1>9 DEF IInv

LEMMA ClosePreserves ==
  ASSUME IInv, TypeOK', NEW c \in Conns, CloseForward(c)
  PROVE  IInv'
<1> DEFINE l == held[c]
<1>0. /\ EntriesAreLive /\ NoListenerLost /\ HeldAreOpen /\ SocketsDisjoint
      /\ held \in [Conns -> Listeners \cup {NoListener}]
      /\ sock \in [Listeners -> {"unused", "open", "closed"}]
      /\ bound \in [Listeners -> Keys]
      /\ forwards \in [Keys -> Listeners \cup {NoListener}]
  BY DEF IInv, TypeOK
<1>1. /\ sock' = [sock EXCEPT ![l] = "closed"]
      /\ held' = [held EXCEPT ![c] = NoListener]
      /\ bound' = bound /\ forwards' = forwards /\ l # NoListener
  BY DEF CloseForward, IInv, TypeOK
<1>2. /\ l \in Listeners
      /\ \A d \in Conns \ {c} : held[d] # l
      /\ \A k \in Keys : forwards[k] # l
  BY <1>1, HeldFacts
<1>3. held[c] = l
  OBVIOUS
<1> HIDE DEF l
<1>4. EntriesAreLive'
  BY <1>0, <1>1, <1>2 DEF EntriesAreLive
<1>5. HeldAreOpen'
  BY <1>0, <1>1, <1>2 DEF HeldAreOpen
<1>6. SocketsDisjoint'
  BY <1>0, <1>1, <1>2 DEF SocketsDisjoint, Contend
<1>7. NoListenerLost'
  BY <1>0, <1>1, <1>2, <1>3, NilAssumption DEF NoListenerLost
<1>8. QED
  BY <1>4, <1>5, <1>6, <1>7 DEF IInv

LEMMA IInvNext == IInv /\ [Next]_vars => IInv'
<1> SUFFICES ASSUME IInv, [Next]_vars PROVE IInv'
  OBVIOUS
<1>1. TypeOK'
  BY TypeNext DEF IInv
<1> USE DEF handlerVars, sockVars, rawVars
<1>2. ASSUME NEW c \in Conns, Client(c) PROVE IInv'
  BY <1>1, <1>2, IInvFrame DEF Client, Connect, ClientRequest, Disconnect
<1>3. ASSUME NEW c \in Conns, RequestLoop(c) PROVE IInv'
  <2>1. CASE ListenForward(c)
    BY <1>1, <2>1, ListenPreserves
  <2>2. CASE RegisterForward(c)
    BY <1>1, <2>2, RegisterPreserves
  <2>3. CASE DeleteForward(c)
    BY <1>1, <2>3, DeletePreserves
  <2>4. CASE CloseForward(c)
    BY <1>1, <2>4, ClosePreserves
  <2>5. CASE RefuseOther(c) \/ RefuseForward(c) \/ RefuseCancel(c) \/ RequestLoopEnds(c)
    BY <1>1, <2>5, IInvFrame
       DEF RefuseOther, RefuseForward, RefuseCancel, RequestLoopEnds
  <2>6. QED
    BY <1>3, <2>1, <2>2, <2>3, <2>4, <2>5 DEF RequestLoop
<1>4. ASSUME NEW l \in Listeners, AcceptLoop(l) PROVE IInv'
  BY <1>1, <1>4, IInvFrame DEF AcceptLoop, AcceptFails, AcceptLoopEnds
<1>5. ASSUME NEW r \in Raws, RawArrives(r) PROVE IInv'
  BY <1>1, <1>5, IInvFrame DEF RawArrives
<1>6. ASSUME NEW r \in Raws, Dispatch(r) PROVE IInv'
  BY <1>1, <1>6, IInvFrame
     DEF Dispatch, Accept, ChannelOpens, ChannelRefused, ChannelFails,
         DataComes, DataTaken, PipeEnds, PipeBreaks, RawMoves
<1>7. CASE UNCHANGED vars
  BY <1>1, <1>7, IInvFrame DEF vars
<1>8. QED
  BY <1>2, <1>3, <1>4, <1>5, <1>6, <1>7 DEF Next

THEOREM Invariance == Spec => []IInv
<1>1. QED
  BY IInvInit, IInvNext, PTL DEF Spec

\* The map never answers a lookup with a dead listener: every entry is an open
\* socket stored under the key it is bound to.
THEOREM EntriesStayLive == Spec => []EntriesAreLive
<1>1. IInv => EntriesAreLive
  BY DEF IInv
<1>2. QED
  BY <1>1, Invariance, PTL

\* No interleaving of starts and cancels loses a socket: every open one is
\* findable in the map or in exactly one request loop's hands.
THEOREM NoListenerIsLost == Spec => []NoListenerLost
<1>1. IInv => NoListenerLost
  BY DEF IInv
<1>2. QED
  BY <1>1, Invariance, PTL

-----------------------------------------------------------------------------
(* The forwarder implements the atomic table.                              *)

Table == [k \in Keys |-> IF forwards[k] = NoListener THEN NoConn
                         ELSE owner[forwards[k]]]

LEMMA SameKeys == Abstract!TableKeys = Keys
BY DEF Abstract!TableKeys, Keys

LEMMA TableInit == Init => Abstract!Init
BY DEF Init, Abstract!Init, Keys, Abstract!TableKeys

\* What the map shows of it changes only with the map and the owners in it.
LEMMA TableFrame ==
  ASSUME UNCHANGED <<forwards, owner>>
  PROVE  Table' = Table
BY DEF Table

\* The insert is the abstract Start.
LEMMA RegisterStarts ==
  ASSUME IInv, NEW c \in Conns, RegisterForward(c)
  PROVE  Abstract!Next
<1>1. PICK l \in Listeners, k \in BoundKeys :
           /\ l = held[c] /\ k = bound[l]
           /\ \A other \in Keys : Contend(k, other) => forwards[other] = NoListener
  BY InsertKeyIsFree DEF RegisterForward
<1>2. /\ forwards \in [Keys -> Listeners \cup {NoListener}]
      /\ owner \in [Listeners -> Conns]
      /\ forwards' = [forwards EXCEPT ![k] = l]
      /\ owner' = owner
  BY <1>1 DEF RegisterForward, sockVars, IInv, TypeOK
<1>3. owner[l] \in Conns /\ k \in Keys /\ k[2] # 0
  BY <1>1, <1>2, BoundKeysAreKeys, PortsAssumption DEF BoundKeys
<1>4. \A other \in Keys : Abstract!Contend(k, other) => Table[other] = NoConn
  BY <1>1 DEF Contend, Abstract!Contend, Table
<1>5. Table' = [Table EXCEPT ![k] = owner[l]]
  BY <1>1, <1>2, <1>3, NilAssumption DEF Table
<1>6. PICK d \in Conns : d = owner[l]
  BY <1>3
<1>7. Abstract!Start(d, k)
  BY <1>3, <1>4, <1>5, <1>6, SameKeys DEF Abstract!Start, Table
<1>8. QED
  BY <1>3, <1>7, SameKeys DEF Abstract!Next

\* The delete is the abstract Stop.
LEMMA DeleteStops ==
  ASSUME IInv, NEW c \in Conns, DeleteForward(c)
  PROVE  Abstract!Next
<1>1. PICK k \in Keys : k = Request(c)
  BY QueueFacts, RequestsAssumption
     DEF DeleteForward, Pending, Request, RequestType, IInv, TypeOK
<1>2. /\ forwards \in [Keys -> Listeners \cup {NoListener}]
      /\ owner \in [Listeners -> Conns]
      /\ forwards[k] # NoListener
      /\ forwards' = [forwards EXCEPT ![k] = NoListener]
      /\ owner' = owner
  BY <1>1 DEF DeleteForward, sockVars, IInv, TypeOK
<1>3. Table[k] # NoConn
  BY <1>1, <1>2, NilAssumption DEF Table
<1>4. Table' = [Table EXCEPT ![k] = NoConn]
  BY <1>1, <1>2 DEF Table
<1>5. Abstract!Stop(k)
  BY <1>3, <1>4 DEF Abstract!Stop, Table
<1>6. QED
  BY <1>5, SameKeys DEF Abstract!Next

\* Listening makes a new owner, but of a socket no entry points to.
LEMMA ListenStutters ==
  ASSUME IInv, NEW c \in Conns, ListenForward(c)
  PROVE  Table' = Table
<1> DEFINE n == NewSocket
<1>1. n \in Listeners /\ sock[n] = "unused"
  BY NewSocketUnused DEF ListenForward
<1>2. /\ forwards \in [Keys -> Listeners \cup {NoListener}]
      /\ owner \in [Listeners -> Conns]
      /\ EntriesAreLive
      /\ forwards' = forwards
      /\ owner' = [owner EXCEPT ![n] = c]
  BY DEF ListenForward, IInv, TypeOK
<1> HIDE DEF n
<1>3. \A k \in Keys : forwards[k] # n
  BY <1>1, <1>2, NilAssumption DEF EntriesAreLive
<1>4. QED
  BY <1>2, <1>3 DEF Table

LEMMA TableNext == IInv /\ [Next]_vars => [Abstract!Next]_Table
<1> SUFFICES ASSUME IInv, [Next]_vars PROVE Abstract!Next \/ Table' = Table
  OBVIOUS
<1> USE DEF handlerVars, sockVars, rawVars
<1>1. ASSUME NEW c \in Conns, Client(c) PROVE Table' = Table
  BY <1>1, TableFrame DEF Client, Connect, ClientRequest, Disconnect
<1>2. ASSUME NEW c \in Conns, RequestLoop(c) PROVE Abstract!Next \/ Table' = Table
  <2>1. CASE ListenForward(c)
    BY <2>1, ListenStutters
  <2>2. CASE RegisterForward(c)
    BY <2>2, RegisterStarts
  <2>3. CASE DeleteForward(c)
    BY <2>3, DeleteStops
  <2>4. CASE CloseForward(c) \/ RefuseOther(c) \/ RefuseForward(c)
             \/ RefuseCancel(c) \/ RequestLoopEnds(c)
    BY <2>4, TableFrame
       DEF CloseForward, RefuseOther, RefuseForward, RefuseCancel, RequestLoopEnds
  <2>5. QED
    BY <1>2, <2>1, <2>2, <2>3, <2>4 DEF RequestLoop
<1>3. ASSUME NEW l \in Listeners, AcceptLoop(l) PROVE Table' = Table
  BY <1>3, TableFrame DEF AcceptLoop, AcceptFails, AcceptLoopEnds
<1>4. ASSUME NEW r \in Raws, RawArrives(r) PROVE Table' = Table
  BY <1>4, TableFrame DEF RawArrives
<1>5. ASSUME NEW r \in Raws, Dispatch(r) PROVE Table' = Table
  BY <1>5, TableFrame
     DEF Dispatch, Accept, ChannelOpens, ChannelRefused, ChannelFails,
         DataComes, DataTaken, PipeEnds, PipeBreaks, RawMoves
<1>6. CASE UNCHANGED vars
  BY <1>6, TableFrame DEF vars
<1>7. QED
  BY <1>1, <1>2, <1>3, <1>4, <1>5, <1>6 DEF Next

\* To its clients the shared map, with its unlocked windows between Listen and
\* insert and between delete and Close, is one table changed atomically.
THEOREM TableImplemented == Spec => ImplementsTable
<1>1. IInv /\ [Next]_vars => [Abstract!Next]_Table
  BY TableNext
<1>2. QED
  BY TableInit, <1>1, Invariance, PTL DEF Spec, ImplementsTable, Abstract!Spec, Table
=============================================================================
