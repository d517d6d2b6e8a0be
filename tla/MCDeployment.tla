---------------------------- MODULE MCDeployment ----------------------------
(* Instances of Deployment for TLC.                                        *)
EXTENDS Deployment

CONSTANTS p1, p2, p3, r, w, x, y, z

(* r and x share a group, which takes x from the group of y and w; z is in *)
(* none.                                                                   *)
TwoGroups == <<<<y, x, w>>, <<r, x>>>>
Fields ==
  [c \in Comps |-> CASE c = r -> <<x, y, z>>
                     [] c = x -> <<y>>
                     [] c = y -> <<x, w>>
                     [] c = w -> <<x>>
                     [] OTHER -> <<>>]
=============================================================================
