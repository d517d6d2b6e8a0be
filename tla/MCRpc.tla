-------------------------------- MODULE MCRpc -------------------------------
(* Two calls: of a method of akasar_gen.go, whose stub keeps the results,  *)
(* or of one of the examples, whose stub frees results it has copied.  A   *)
(* method whose result dangles behaves like the second, and its result is  *)
(* not asked for.                                                          *)
EXTENDS Rpc, TLC

KeptOrCopied == {[frees |-> FALSE, alias |-> TRUE], [frees |-> TRUE, alias |-> FALSE]}

Symmetry == Permutations(Calls) \cup Permutations(Bufs)
=============================================================================
