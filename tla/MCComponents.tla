---------------------------- MODULE MCComponents ----------------------------
(* Three components: references in a chain, to a shared component, in a    *)
(* circle of two, and from two components to each other's.                 *)
EXTENDS Components

CONSTANTS root, a, b, t1, t2

MCGraphs ==
  {[c \in Comps |-> CASE c = root -> <<a>>    [] c = a -> <<b>> [] OTHER -> <<>>],
   [c \in Comps |-> CASE c = root -> <<a, b>> [] c = a -> <<b>> [] OTHER -> <<>>],
   [c \in Comps |-> CASE c = root -> <<b, a>> [] c = a -> <<>>  [] OTHER -> <<>>],
   [c \in Comps |-> CASE c = root -> <<a>>    [] c = a -> <<b>> [] OTHER -> <<a>>]}
MCRegistered == {Comps, Comps \ {b}}
MCFakes      == {{}, {a}}
=============================================================================
