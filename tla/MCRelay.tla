------------------------------ MODULE MCRelay ------------------------------
(* Two chunks in each direction and a window of one: a chunk can be in the   *)
(* peer, in the copier and at the receiver at once.                          *)
EXTENDS Relay
=============================================================================
