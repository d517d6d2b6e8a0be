------------------------------ MODULE Placement ------------------------------
(***************************************************************************)
(* internal/tool/multi/deployer.go, computeComponentGroups: the colocation *)
(* groups of a configuration, each named by the component it was made for. *)
(***************************************************************************)
EXTENDS Naturals, Sequences, FiniteSets, SequencesExt

CONSTANTS Lets,      \* akasalets, each a process with its envelope
          Comps,     \* components
          Root,      \* runtime.Root
          Colocate,  \* d.config.App.Colocate: lists of components
          None

(* computeComponentGroups: a list joins the group of its first component,  *)
(* and takes its other components out of the groups they were in.          *)
Place(groups, list) ==
  IF list = <<>> THEN groups
  ELSE LET g == IF Head(list) \in DOMAIN groups THEN groups[Head(list)] ELSE Head(list)
       IN  [c \in DOMAIN groups \cup Range(list) |-> IF c \in Range(list) THEN g ELSE groups[c]]

Placed == FoldLeft(Place, <<>>, Colocate)

(* The group of each component, named by a component; None: unknown.       *)
GroupOf ==
  [c \in Comps |->
    IF c \in DOMAIN Placed THEN Placed[c] ELSE IF c = Root THEN Root ELSE None]
=============================================================================
