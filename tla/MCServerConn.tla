----------------------------- MODULE MCServerConn -----------------------------
(* Instances of ServerConn for TLC.                                        *)
EXTENDS ServerConn

CONSTANTS c1, c2, i1, i2, i3

=============================================================================
