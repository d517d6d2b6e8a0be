------------------------------ MODULE Errgroup ------------------------------
(***************************************************************************)
(* internal/errgroup/errgroup.go: goroutines that end together.  One       *)
(* goroutine owns the group: it sets the limit, adds the others and waits  *)
(* for them, as the akasalet and the envelope do.                          *)
(***************************************************************************)
EXTENDS Naturals, FiniteSets

CONSTANTS Tasks,     \* the functions given to Go and TryGo
          Errors,    \* what they may return, besides nil
          Limits,    \* limits SetLimit is called with, 0 for a negative one
          nil

ASSUME ErrgroupAssumption ==
  /\ nil \notin Errors /\ {"none", "waiting"} \cap (Errors \cup {nil}) = {}
  /\ Limits \subseteq Nat

VARIABLES task,      \* where each function stands
          groupErr,   \* g.err, nil until errOnce
          cancelled, \* the group's context has ended
          sem,       \* g.sem: its capacity and the tokens in it, nil without a limit
          result,    \* what Wait has returned
          early      \* history: a limit was set while functions ran without tokens

groupVars == <<task, groupErr, cancelled, sem, result, early>>

Unlimited == [cap |-> 0, held |-> 0]
Active    == {t \in Tasks : task[t] \in {"running", "done"}}
Blocked   == {t \in Tasks : task[t] = "blocked"}

GroupInit ==
  /\ task = [t \in Tasks |-> "new"] /\ groupErr = nil /\ cancelled = FALSE
  /\ sem = Unlimited /\ result = "none" /\ early = FALSE

(* Mutated form of HasRoom: one function too many.                         *)
HasRoom_Over == sem.cap = 0 \/ sem.held <= sem.cap
HasRoom == sem.cap = 0 \/ sem.held < sem.cap
Token    == IF sem.cap = 0 THEN sem ELSE [sem EXCEPT !.held = @ + 1]
KeepLimit == sem' = sem /\ early' = early
Owner    == result = "none" /\ Blocked = {}

(* The goroutine starts, or Go blocks until a token is free.               *)
Go(t) ==
  /\ Owner /\ task[t] = "new"
  /\ IF HasRoom
     THEN task' = [task EXCEPT ![t] = "running"] /\ sem' = Token
     ELSE task' = [task EXCEPT ![t] = "blocked"] /\ sem' = sem
  /\ UNCHANGED <<groupErr, cancelled, result>> /\ early' = early

TryGo(t) ==
  /\ Owner /\ task[t] = "new"
  /\ IF HasRoom
     THEN task' = [task EXCEPT ![t] = "running"] /\ sem' = Token
     ELSE task' = [task EXCEPT ![t] = "refused"] /\ sem' = sem
  /\ UNCHANGED <<groupErr, cancelled, result>> /\ early' = early

(* f returns e; the first error is kept and ends the context.              *)
Return(t, e) ==
  /\ task[t] = "running"
  /\ task' = [task EXCEPT ![t] = "done"]
  /\ IF e # nil /\ groupErr = nil
     THEN groupErr' = e /\ cancelled' = TRUE
     ELSE UNCHANGED <<groupErr, cancelled>>
  /\ UNCHANGED result /\ KeepLimit

(* done: the token goes to a blocked Go or back; then wg.Done.  There must *)
(* be a token, or done blocks.                                             *)
Done(t) ==
  /\ task[t] = "done"
  /\ sem.cap > 0 => sem.held > 0
  /\ IF sem.cap = 0
     THEN task' = [task EXCEPT ![t] = "gone"] /\ sem' = sem
     ELSE IF Blocked # {}
     THEN \E b \in Blocked : task' = [task EXCEPT ![t] = "gone", ![b] = "running"] /\ sem' = sem
     ELSE task' = [task EXCEPT ![t] = "gone"] /\ sem' = [sem EXCEPT !.held = @ - 1]
  /\ UNCHANGED <<groupErr, cancelled, result>> /\ early' = early

(* SetLimit panics while tokens are held: here it is not called then.      *)
SetLimit(n) ==
  /\ Owner /\ (n = 0 \/ sem.held = 0)
  /\ sem' = [cap |-> n, held |-> 0]
  /\ early' = (early \/ Active # {})
  /\ UNCHANGED <<task, groupErr, cancelled, result>>

Wait ==
  /\ Owner
  /\ result' = "waiting"
  /\ UNCHANGED <<task, groupErr, cancelled>> /\ KeepLimit

(* Wait returns once every goroutine is done, and ends the context.        *)
WaitReturns ==
  /\ result = "waiting" /\ Active = {}
  /\ cancelled' = TRUE /\ result' = groupErr
  /\ UNCHANGED <<task, groupErr>> /\ KeepLimit

GroupStep ==
  \/ \E t \in Tasks : Go(t) \/ TryGo(t) \/ Done(t) \/ \E e \in Errors \cup {nil} : Return(t, e)
  \/ \E n \in Limits : SetLimit(n)
  \/ Wait \/ WaitReturns
-----------------------------------------------------------------------------
(* No more functions run than the limit says, Go blocks only when that     *)
(* many run, and the context ends early only for an error: all unless a    *)
(* limit was set while functions ran that hold no token (SetLimit looks at *)
(* the tokens only).  Wait returns the error that ended the context.       *)
WithinLimit ==
  /\ ~early /\ sem.cap > 0 => Cardinality(Active) <= sem.cap
  /\ ~early /\ Blocked # {} => Cardinality(Active) = sem.cap
  /\ cancelled /\ result \in {"none", "waiting"} => groupErr # nil
  /\ result \notin {"none", "waiting"} => Active = {} /\ result = groupErr /\ cancelled
=============================================================================
