----------------------------- MODULE MCLibrary ------------------------------
(* The small libraries of the repository, one of them in each behaviour:   *)
(* a condition variable, an error group, a metric, the arithmetic of       *)
(* slices and buffers.                                                     *)
EXTENDS Cond, Errgroup, Metric, Sizes, TLC

CONSTANTS p1, p2, f1, f2, f3, e1, u1, u2, u3

VARIABLE which

MCBounds == {<<>>, <<1>>, <<1, 2, 4>>}

(* Neither users nor tasks appear in the behaviours of the condition       *)
(* variable, the only ones a temporal property is about.                   *)
MCSymmetry == Permutations(Users) \cup Permutations(Tasks)

libraryVars == <<which, condVars, groupVars, metricVars, sizeVars>>

LibraryInit ==
  /\ which \in {"cond", "errgroup", "metric", "sizes"}
  /\ Init
  /\ GroupInit
  /\ MetricInit /\ (which = "metric" \/ typ = "gauge")
  /\ SizesInit  /\ (which = "sizes" \/ cap = 1)

LibraryNext ==
  /\ UNCHANGED which
  /\ \/ which = "cond"     /\ Next       /\ UNCHANGED <<groupVars, metricVars, sizeVars>>
     \/ which = "errgroup" /\ GroupStep  /\ UNCHANGED <<condVars, metricVars, sizeVars>>
     \/ which = "metric"   /\ MetricStep /\ UNCHANGED <<condVars, groupVars, sizeVars>>
     \/ which = "sizes"    /\ SizesStep  /\ UNCHANGED <<condVars, groupVars, metricVars>>

LibrarySpec == LibraryInit /\ [][LibraryNext]_libraryVars /\ CondFairness
=============================================================================
