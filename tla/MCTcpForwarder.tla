--------------------------- MODULE MCTcpForwarder ---------------------------
(* Two clients share the forwarder: two bind addresses that contend, two    *)
(* ports, and a policy whose scan is cut short by "none".                   *)
EXTENDS TcpForwarder

MCAddrs   == {"0.0.0.0", "127.0.0.1"}
MCPorts   == {1, 2}
MCOverlap == MCAddrs \X MCAddrs
MCPermitListen == << [kind |-> "port", port |-> 0],
                     [kind |-> "key", key |-> <<"127.0.0.1", 1>>],
                     [kind |-> "none"],
                     [kind |-> "any"] >>
\* Port 0 may get either port; 0.0.0.0:1 is not permitted; the cancels hit
\* the own forward, the other client's, and keys that are not in the map.
MCRequests ==
  [type : {"forward"}, key : {<<"0.0.0.0", 0>>, <<"127.0.0.1", 1>>, <<"0.0.0.0", 1>>}]
    \cup
  [type : {"cancel"}, key : {<<"0.0.0.0", 1>>, <<"127.0.0.1", 1>>}]
    \cup
  {[type |-> "other", key |-> <<"0.0.0.0", 0>>]}
=============================================================================
