-------------------------------- MODULE Cond --------------------------------
(***************************************************************************)
(* internal/cond: a condition variable whose Wait also ends when a context *)
(* is done.  lock is the caller's mutex c.L; the sections under the        *)
(* internal mutex c.mu are one step each.  The n-th Wait of goroutine p    *)
(* makes the channel <<p, n>>.                                             *)
(*                                                                         *)
(* Enqueue, Release, Woken, Cancelled and Relock are the parts of one      *)
(* Wait; other modules take them, Broadcast and Signal through INSTANCE.   *)
(* Spec puts them together with goroutines that wait and goroutines that   *)
(* signal.                                                                 *)
(***************************************************************************)
EXTENDS Naturals, Sequences

CONSTANTS Procs,     \* goroutines that wait
          Free,      \* lock is not held
          MaxWaits   \* bound: Waits of one goroutine

ASSUME CondAssumption == Free \notin Procs /\ MaxWaits \in Nat

VARIABLES lock,     \* holder of c.L
          waiters,  \* c.waiters
          closed,   \* channels that have been closed
          waits,    \* Waits begun, by goroutine
          at,       \* where a goroutine stands in Wait
          err,      \* Wait returns ctx.Err()
          ctxDone   \* the goroutine's context is done

condVars == <<lock, waiters, closed, waits, at, err, ctxDone>>

Chans   == Procs \X (1..MaxWaits)
Chan(p) == <<p, waits[p]>>
Listed  == {waiters[i] : i \in 1..Len(waiters)}

Init ==
  /\ lock = Free
  /\ waiters = <<>>
  /\ closed = {}
  /\ waits = [p \in Procs |-> 0]
  /\ at = [p \in Procs |-> "out"]
  /\ err = [p \in Procs |-> FALSE]
  /\ ctxDone = [p \in Procs |-> FALSE]
-----------------------------------------------------------------------------
(* Wait: make the channel and append it under c.mu; p holds c.L.           *)
Enqueue(p) ==
  /\ at[p] = "out" /\ lock = p /\ waits[p] < MaxWaits
  /\ waits' = [waits EXCEPT ![p] = @ + 1]
  /\ waiters' = Append(waiters, <<p, waits[p] + 1>>)
  /\ at' = [at EXCEPT ![p] = "queued"]
  /\ UNCHANGED <<lock, closed, err, ctxDone>>

(* c.L.Unlock()                                                            *)
Release(p) ==
  /\ at[p] = "queued"
  /\ lock' = Free
  /\ at' = [at EXCEPT ![p] = "select"]
  /\ UNCHANGED <<waiters, closed, waits, err, ctxDone>>

(* The select: the channel was closed ...                                  *)
Woken(p) ==
  /\ at[p] = "select" /\ Chan(p) \in closed
  /\ at' = [at EXCEPT ![p] = "relock"]
  /\ err' = [err EXCEPT ![p] = FALSE]
  /\ UNCHANGED <<lock, waiters, closed, waits, ctxDone>>

(* ... or the context is done.  The channel stays in c.waiters.            *)
Cancelled(p) ==
  /\ at[p] = "select" /\ ctxDone[p]
  /\ at' = [at EXCEPT ![p] = "relock"]
  /\ err' = [err EXCEPT ![p] = TRUE]
  /\ UNCHANGED <<lock, waiters, closed, waits, ctxDone>>

(* c.L.Lock(), and Wait returns.                                           *)
Relock(p) ==
  /\ at[p] = "relock" /\ lock = Free
  /\ lock' = p
  /\ at' = [at EXCEPT ![p] = "out"]
  /\ UNCHANGED <<waiters, closed, waits, err, ctxDone>>

(* Mutated form of Broadcast: it closes the first channel only.            *)
Broadcast_First ==
  /\ closed' = closed \cup {waiters[i] : i \in {1} \cap 1..Len(waiters)}
  /\ waiters' = <<>>
  /\ UNCHANGED <<lock, waits, at, err, ctxDone>>

Broadcast ==
  /\ closed' = closed \cup Listed
  /\ waiters' = <<>>
  /\ UNCHANGED <<lock, waits, at, err, ctxDone>>

(* Mutated form of Signal: it closes the channel and leaves it listed.     *)
Signal_Keep ==
  /\ waiters # <<>>
  /\ closed' = closed \cup {Head(waiters)}
  /\ UNCHANGED <<lock, waiters, waits, at, err, ctxDone>>

Signal ==
  /\ waiters # <<>>
  /\ closed' = closed \cup {Head(waiters)}
  /\ waiters' = Tail(waiters)
  /\ UNCHANGED <<lock, waits, at, err, ctxDone>>
-----------------------------------------------------------------------------
(* Users of the Cond: each goroutine takes c.L, may Wait, and lets go.     *)

Lock(p) ==
  /\ at[p] = "out" /\ lock = Free
  /\ lock' = p
  /\ UNCHANGED <<waiters, closed, waits, at, err, ctxDone>>

Unlock(p) ==
  /\ at[p] = "out" /\ lock = p
  /\ lock' = Free
  /\ UNCHANGED <<waiters, closed, waits, at, err, ctxDone>>

Cancel(p) ==
  /\ ~ctxDone[p]
  /\ ctxDone' = [ctxDone EXCEPT ![p] = TRUE]
  /\ UNCHANGED <<lock, waiters, closed, waits, at, err>>

InWait(p) == Release(p) \/ Woken(p) \/ Relock(p)

Next ==
  \/ \E p \in Procs : Lock(p) \/ Unlock(p) \/ Enqueue(p) \/ InWait(p) \/ Cancelled(p) \/ Cancel(p)
  \/ Broadcast \/ Signal

Spec     == Init /\ [][Next]_condVars
CondFairness ==
  \A p \in Procs : /\ WF_condVars(Release(p) \/ Woken(p) \/ Unlock(p))
                   /\ SF_condVars(Relock(p))
FairSpec == Spec /\ CondFairness
-----------------------------------------------------------------------------
(* Goroutines that wait and have not been woken.                           *)
Waiting == {p \in Procs : at[p] \in {"queued", "select"} /\ Chan(p) \notin closed}

TypeOK ==
  /\ lock \in Procs \cup {Free}
  /\ waiters \in Seq(Chans)
  /\ closed \subseteq Chans
  /\ waits \in [Procs -> 0..MaxWaits]
  /\ at \in [Procs -> {"out", "queued", "select", "relock"}]
  /\ err \in [Procs -> BOOLEAN]
  /\ ctxDone \in [Procs -> BOOLEAN]

(* A goroutine that waits can be woken: its channel is listed, and every   *)
(* listed channel is open and listed once, so no Broadcast or Signal       *)
(* closes one twice, which would panic (cond.go 24-39).                    *)
WakeUp ==
  /\ \A p \in Waiting : Chan(p) \in Listed
  /\ \A i, j \in 1..Len(waiters) : waiters[i] \notin closed /\ (waiters[i] = waiters[j] => i = j)

(* A goroutine that waits when a Broadcast has emptied the list returns,   *)
(* its context done or not (cond.go 21-29).                                *)
BroadcastWakesAll ==
  \A p \in Procs : at[p] = "select" /\ waiters = <<>> ~> at[p] = "out"
=============================================================================
