---------------------------- MODULE MCClientConn ----------------------------
(* Instances of ClientConn for TLC.                                        *)
EXTENDS ClientConn

CONSTANTS a1, c1, c2, k1, k2, s1, s2

OneAddr  == {a1}
OneConn  == {c1}
TwoConns == {c1, c2}
AddrOfC  == [c \in Conns |-> a1]
OneStub  == [k \in Callers |-> s1]
OwnStubs == [k \in Callers |-> IF k = k1 THEN s1 ELSE s2]
Fixed    == {{a1}}
Removable == {{a1}, {}}
=============================================================================
