----------------------------- MODULE ForwardTable ---------------------------
(***************************************************************************)
(* What the remote forwarder promises, with no sockets and no locks: one   *)
(* table says which connection serves which bound address.  A forward is   *)
(* granted only while nothing that contends for the port is in the table,  *)
(* and an entry never changes hands: it has to be cancelled first.         *)
(***************************************************************************)
EXTENDS Integers

CONSTANTS Conns, Addrs, Ports, Overlap, NoConn

TableKeys == Addrs \X (Ports \cup {0})

\* Two bind requests that the kernel cannot grant at the same time.
Contend(k1, k2) == k1[2] = k2[2] /\ <<k1[1], k2[1]>> \in Overlap

VARIABLE table

Init == table = [k \in TableKeys |-> NoConn]

Start(c, k) ==
  /\ k[2] # 0
  /\ \A other \in TableKeys : Contend(k, other) => table[other] = NoConn
  /\ table' = [table EXCEPT ![k] = c]

Stop(k) ==
  /\ table[k] # NoConn
  /\ table' = [table EXCEPT ![k] = NoConn]

Next == \E k \in TableKeys : Stop(k) \/ \E c \in Conns : Start(c, k)

Spec == Init /\ [][Next]_table
=============================================================================
