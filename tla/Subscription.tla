---------------------------- MODULE Subscription ----------------------------
(***************************************************************************)
(* What a routing resolver promises: a sequence of published values, and   *)
(* subscribers that move forward in it, possibly skipping values, until    *)
(* they stop.  A subscriber that does not stop ends at the last value.     *)
(***************************************************************************)
EXTENDS Naturals

CONSTANTS Subscribers, Last   \* Last: how many values are ever published

VARIABLES published,  \* values published so far
          seen,       \* index of the value each subscriber saw last
          stopped     \* subscribers that have stopped

subVars == <<published, seen, stopped>>

Init ==
  /\ published = 0
  /\ seen = [w \in Subscribers |-> 0]
  /\ stopped = {}

Publish ==
  /\ published < Last
  /\ published' = published + 1
  /\ UNCHANGED <<seen, stopped>>

CatchUp(w) ==
  /\ w \notin stopped
  /\ \E n \in (seen[w] + 1)..published : seen' = [seen EXCEPT ![w] = n]
  /\ UNCHANGED <<published, stopped>>

Stop(w) ==
  /\ w \notin stopped
  /\ stopped' = stopped \cup {w}
  /\ UNCHANGED <<published, seen>>

Next == Publish \/ \E w \in Subscribers : CatchUp(w) \/ Stop(w)

Spec == Init /\ [][Next]_subVars /\ \A w \in Subscribers : WF_subVars(CatchUp(w))
=============================================================================
