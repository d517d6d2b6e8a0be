-------------------------- MODULE MCRoutingResolver --------------------------
(* Instances of RoutingResolver for TLC.                                   *)
EXTENDS RoutingResolver

CONSTANTS w1, w2, w3, l1, l2
=============================================================================
