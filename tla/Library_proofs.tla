---------------------------- MODULE Library_proofs ---------------------------
(***************************************************************************)
(* The condition variable, the error group, a metric, and the sizes of     *)
(* slices and buffers, for any number of goroutines, Waits, functions,     *)
(* errors, limits, values, bounds and replicas and any width of a word: a  *)
(* goroutine that waits can be woken, no channel is closed twice, a group  *)
(* keeps its limit, no update of a metric is lost, slices cover the keys   *)
(* and a buffer fits a pool.                                               *)
(***************************************************************************)
EXTENDS Cond, Errgroup, Metric, Sizes, FiniteSetTheorems, WellFoundedInduction, TLAPS

(* The condition variable.                                                 *)

(* Channels are numbered: the ones in use belong to Waits that have begun. *)
Numbered ==
  \A p \in Procs, n \in 1..MaxWaits : <<p, n>> \in closed \cup Listed => n <= waits[p]

CondInv == TypeOK /\ WakeUp /\ Numbered

LEMMA AppendListed ==
  ASSUME NEW s \in Seq(Chans), NEW x \in Chans
  PROVE  /\ Append(s, x) \in Seq(Chans)
         /\ {Append(s, x)[i] : i \in 1..Len(Append(s, x))} = {s[i] : i \in 1..Len(s)} \cup {x}
         /\ Len(Append(s, x)) = Len(s) + 1 /\ Append(s, x)[Len(s) + 1] = x
         /\ \A i \in 1..Len(s) : Append(s, x)[i] = s[i]
<1>1. /\ Append(s, x) \in Seq(Chans) /\ Len(s) \in Nat
      /\ Len(Append(s, x)) = Len(s) + 1 /\ Append(s, x)[Len(s) + 1] = x
      /\ \A i \in 1..Len(s) : Append(s, x)[i] = s[i]
  OBVIOUS
<1>2. 1..(Len(s) + 1) = 1..Len(s) \cup {Len(s) + 1}
  BY <1>1
<1>3. QED BY <1>1, <1>2

(* Init has no waiter.                                                     *)
THEOREM InitCond == CondAssumption /\ Init => CondInv
BY DEF CondAssumption, Init, CondInv, TypeOK, WakeUp, Numbered, Waiting, Listed

LEMMA SameLists ==
  ASSUME CondInv, TypeOK', UNCHANGED <<waiters, closed, waits>>,
         \A p \in Waiting' : p \in Waiting
  PROVE  CondInv'
BY DEF CondInv, WakeUp, Numbered, Listed, Chan

LEMMA EnqueueCond ==
  ASSUME CondAssumption, CondInv, NEW p \in Procs, Enqueue(p)
  PROVE  CondInv'
<1> DEFINE n == waits[p] + 1
           x == <<p, n>>
<1>0. /\ waiters \in Seq(Chans) /\ waits \in [Procs -> 0..MaxWaits] /\ closed \subseteq Chans
      /\ waits' = [waits EXCEPT ![p] = n] /\ waiters' = Append(waiters, x)
      /\ at' = [at EXCEPT ![p] = "queued"] /\ closed' = closed
      /\ at \in [Procs -> {"out", "queued", "select", "relock"}]
  BY DEF CondInv, TypeOK, Enqueue
<1>1. n \in 1..MaxWaits /\ x \in Chans
  <2>1. waits[p] \in 0..MaxWaits /\ waits[p] < MaxWaits /\ MaxWaits \in Nat
    BY <1>0 DEF Enqueue, CondAssumption
  <2>2. n \in 1..MaxWaits
    BY <2>1
  <2>3. QED BY <2>2 DEF Chans
<1>2. x \notin closed \cup Listed
  BY <1>0, <1>1 DEF CondInv, Numbered
<1> HIDE DEF x, n
<1>3. /\ waiters' \in Seq(Chans) /\ Listed' = Listed \cup {x} /\ Len(waiters) \in Nat
      /\ Len(waiters') = Len(waiters) + 1 /\ waiters'[Len(waiters) + 1] = x
      /\ \A i \in 1..Len(waiters) : waiters'[i] = waiters[i]
  BY <1>0, <1>1, AppendListed DEF Listed
<1>4. TypeOK'
  BY <1>0, <1>1, <1>3 DEF CondInv, TypeOK, Enqueue
<1>5. Chan(p)' = x /\ \A q \in Procs : q # p => Chan(q)' = Chan(q) /\ at'[q] = at[q]
  BY <1>0 DEF Chan, x
<1>6. \A q \in Waiting' : Chan(q)' \in Listed'
  BY <1>0, <1>3, <1>5 DEF CondInv, WakeUp, Waiting
<1>7. \A i, j \in 1..Len(waiters') :
        waiters'[i] \notin closed' /\ (waiters'[i] = waiters'[j] => i = j)
  <2>1. \A i \in 1..Len(waiters') : i \in 1..Len(waiters) \/ i = Len(waiters) + 1
    BY <1>3
  <2>2. \A i \in 1..Len(waiters) : waiters[i] # x
    BY <1>2 DEF Listed
  <2>3. QED BY <1>0, <1>2, <1>3, <2>1, <2>2 DEF CondInv, WakeUp
<1>8. Numbered'
  <2> SUFFICES ASSUME NEW q \in Procs, NEW m \in 1..MaxWaits,
                      <<q, m>> \in closed' \cup Listed'
               PROVE  m <= waits'[q]
    BY DEF Numbered
  <2>1. CASE <<q, m>> = x
    BY <1>0, <1>1, <2>1 DEF x
  <2>2. CASE <<q, m>> # x
    <3>1. m <= waits[q] /\ waits[q] \in Nat
      BY <1>0, <1>3, <2>2 DEF CondInv, Numbered
    <3>2. waits'[q] >= waits[q]
      BY <1>0 DEF n
    <3>3. QED BY <1>0, <3>1, <3>2 DEF n
  <2>3. QED BY <2>1, <2>2
<1>9. QED BY <1>4, <1>6, <1>7, <1>8 DEF CondInv, WakeUp

LEMMA SignalCond ==
  ASSUME CondInv, Signal \/ Broadcast
  PROVE  CondInv'
<1>0. /\ waiters \in Seq(Chans) /\ closed \subseteq Chans /\ Listed \subseteq Chans
      /\ UNCHANGED <<lock, waits, at, err, ctxDone>> /\ Len(waiters) \in Nat
  BY DEF CondInv, TypeOK, Signal, Broadcast, Listed
<1>1. CASE Broadcast
  <2>1. waiters' = <<>> /\ closed' = closed \cup Listed /\ Listed' = {} /\ Len(waiters') = 0
    BY <1>1 DEF Broadcast, Listed
  <2>2. Waiting' = {}
    BY <1>0, <2>1 DEF CondInv, WakeUp, Waiting, Chan
  <2>3. TypeOK'
    BY <1>0, <2>1 DEF CondInv, TypeOK
  <2>4. Numbered'
    BY <1>0, <2>1 DEF CondInv, Numbered
  <2>5. QED BY <2>1, <2>2, <2>3, <2>4 DEF CondInv, WakeUp
<1>2. CASE Signal
  <2> DEFINE x == waiters[1]
  <2>1. /\ waiters # <<>> /\ closed' = closed \cup {x} /\ waiters' = Tail(waiters)
        /\ waiters' \in Seq(Chans) /\ Len(waiters') = Len(waiters) - 1 /\ Len(waiters) >= 1
        /\ \A i \in 1..Len(waiters') : waiters'[i] = waiters[i + 1]
    BY <1>0, <1>2 DEF Signal
  <2>2. x \in Chans /\ x \in Listed
    BY <1>0, <2>1 DEF Listed
  <2>3. \A i \in 1..Len(waiters') : i + 1 \in 1..Len(waiters) /\ i + 1 # 1
    BY <1>0, <2>1
  <2>4. \A i \in 1..Len(waiters) : i = 1 \/ (i - 1 \in 1..Len(waiters') /\ waiters'[i - 1] = waiters[i])
    BY <1>0, <2>1
  <2> HIDE DEF x
  <2>5. Listed' \subseteq Listed /\ Listed \subseteq Listed' \cup {x}
    BY <2>1, <2>3, <2>4 DEF Listed, x
  <2>6. TypeOK'
    BY <1>0, <2>1, <2>2 DEF CondInv, TypeOK
  <2>7. Numbered'
    BY <1>0, <2>1, <2>2, <2>5 DEF CondInv, Numbered
  <2>8. \A p \in Waiting' : Chan(p)' \in Listed'
    BY <1>0, <2>1, <2>5 DEF CondInv, WakeUp, Waiting, Chan
  <2>9. \A i, j \in 1..Len(waiters') :
          waiters'[i] \notin closed' /\ (waiters'[i] = waiters'[j] => i = j)
    <3> SUFFICES ASSUME NEW i \in 1..Len(waiters'), NEW j \in 1..Len(waiters')
                 PROVE  waiters'[i] \notin closed' /\ (waiters'[i] = waiters'[j] => i = j)
      OBVIOUS
    <3>1. /\ i + 1 \in 1..Len(waiters) /\ j + 1 \in 1..Len(waiters) /\ 1 \in 1..Len(waiters)
          /\ i + 1 # 1 /\ (i + 1 = j + 1 => i = j)
      BY <1>0, <2>1
    <3>2. QED BY <2>1, <3>1 DEF CondInv, WakeUp, x
  <2>10. QED BY <2>6, <2>7, <2>8, <2>9 DEF CondInv, WakeUp
<1>3. QED BY <1>1, <1>2

(* Every step keeps the invariant.                                         *)
THEOREM NextCond == CondAssumption /\ CondInv /\ [Next]_condVars => CondInv'
<1> SUFFICES ASSUME CondAssumption, CondInv, [Next]_condVars PROVE CondInv'
  OBVIOUS
<1>0. TypeOK
  BY DEF CondInv
<1>1. ASSUME NEW p \in Procs,
             Lock(p) \/ Unlock(p) \/ Release(p) \/ Relock(p) \/ Woken(p) \/ Cancelled(p) \/ Cancel(p)
      PROVE  CondInv'
  <2>1. TypeOK' /\ UNCHANGED <<waiters, closed, waits>>
    BY <1>0, <1>1 DEF TypeOK, Lock, Unlock, Release, Relock, Woken, Cancelled, Cancel
  <2>2. \A q \in Procs : Chan(q)' = Chan(q)
    BY <2>1 DEF Chan
  <2>3. \A q \in Procs : at'[q] \in {"queued", "select"} => at[q] \in {"queued", "select"}
    BY <1>0, <1>1 DEF TypeOK, Lock, Unlock, Release, Relock, Woken, Cancelled, Cancel
  <2>4. \A q \in Waiting' : q \in Waiting
    BY <2>1, <2>2, <2>3 DEF Waiting
  <2>5. QED BY <2>1, <2>4, SameLists
<1>2. ASSUME NEW p \in Procs, Enqueue(p) PROVE CondInv'
  BY <1>2, EnqueueCond
<1>3. CASE Signal \/ Broadcast
  BY <1>3, SignalCond
<1>4. CASE UNCHANGED condVars
  <2>1. TypeOK' /\ UNCHANGED <<waiters, closed, waits>>
    BY <1>0, <1>4 DEF condVars, TypeOK
  <2>2. \A q \in Waiting' : q \in Waiting
    BY <1>4 DEF condVars, Waiting, Chan
  <2>3. QED BY <2>1, <2>2, SameLists
<1>5. QED BY <1>1, <1>2, <1>3, <1>4 DEF Next, InWait

(* A goroutine that waits is listed under an open channel, listed once: a  *)
(* Broadcast reaches it and no channel is closed twice.                    *)
THEOREM WakeUpCorrect == Spec => []WakeUp
<1>1. Spec => []CondInv
  BY InitCond, NextCond, CondAssumption, PTL DEF Spec
<1>2. CondInv => WakeUp
  BY DEF CondInv
<1>3. QED BY <1>1, <1>2, PTL
-----------------------------------------------------------------------------
(* The error group.                                                        *)

Stages == {"new", "blocked", "refused", "running", "done", "gone"}

GroupTypes ==
  /\ task \in [Tasks -> Stages]
  /\ groupErr \in Errors \cup {nil} /\ cancelled \in BOOLEAN /\ early \in BOOLEAN
  /\ sem \in [cap : Nat, held : Nat]

(* Each active function holds one token, unless a limit was set too early; *)
(* Go blocks only when there is none left.                                 *)
Tokens ==
  /\ sem.cap > 0 => sem.held <= sem.cap
  /\ ~early /\ sem.cap > 0 => IsFiniteSet(Active) /\ Cardinality(Active) = sem.held
  /\ Blocked # {} => sem.cap > 0 /\ sem.held = sem.cap /\ result = "none"

Ended ==
  /\ cancelled /\ result \in {"none", "waiting"} => groupErr # nil
  /\ result \notin {"none", "waiting"} => Active = {} /\ result = groupErr /\ cancelled

GroupInv == GroupTypes /\ Tokens /\ Ended
-----------------------------------------------------------------------------
(* Who is active after a step.                                             *)
LEMMA ActiveAdd ==
  ASSUME task \in [Tasks -> Stages], NEW t \in Tasks, task[t] \in {"new", "blocked"},
         task' = [task EXCEPT ![t] = "running"]
  PROVE  Active' = Active \cup {t} /\ t \notin Active
BY DEF Active, Stages

LEMMA ActiveRemove ==
  ASSUME task \in [Tasks -> Stages], NEW t \in Tasks, task[t] = "done",
         task' = [task EXCEPT ![t] = "gone"]
  PROVE  Active' = Active \ {t} /\ t \in Active /\ Blocked' = Blocked
BY DEF Active, Blocked, Stages

(* A token passed on: as many are active as before.                        *)
LEMMA ActiveSwap ==
  ASSUME task \in [Tasks -> Stages], NEW t \in Tasks, NEW b \in Blocked, task[t] = "done",
         task' = [task EXCEPT ![t] = "gone", ![b] = "running"], IsFiniteSet(Active)
  PROVE  IsFiniteSet(Active') /\ Cardinality(Active') = Cardinality(Active)
<1>1. b \in Tasks /\ task[b] = "blocked"
  BY DEF Blocked
<1>2. /\ Active' = (Active \ {t}) \cup {b}
      /\ t \in Active /\ b \notin Active \ {t}
  BY <1>1 DEF Active, Stages
<1>3. IsFiniteSet(Active \ {t}) /\ Cardinality(Active \ {t}) = Cardinality(Active) - 1
  BY <1>2, FS_RemoveElement
<1>4. IsFiniteSet(Active') /\ Cardinality(Active') = Cardinality(Active \ {t}) + 1
  BY <1>2, <1>3, FS_AddElement
<1>5. Cardinality(Active) \in Nat
  BY FS_CardinalityType
<1>6. QED BY <1>3, <1>4, <1>5

LEMMA InitGroup == GroupInit => GroupInv
<1>1. GroupInit => Active = {} /\ Blocked = {}
  BY DEF GroupInit, Active, Blocked
<1>2. GroupInit => sem \in [cap : Nat, held : Nat] /\ sem.cap = 0
  BY DEF GroupInit, Unlimited
<1>3. GroupInit => GroupTypes
  BY <1>2 DEF GroupInit, GroupTypes, Stages
<1>4. GroupInit => Tokens /\ Ended
  BY <1>1, <1>2 DEF GroupInit, Tokens, Ended
<1>5. QED BY <1>3, <1>4 DEF GroupInv

(* Go and TryGo, which differ in what becomes of the function without a    *)
(* token.                                                                  *)
LEMMA AddsInv ==
  ASSUME GroupInv, NEW t \in Tasks, Go(t) \/ TryGo(t)
  PROVE  GroupInv'
<1>1. /\ result = "none" /\ Blocked = {} /\ task[t] = "new"
      /\ UNCHANGED <<groupErr, cancelled, result, early>>
  BY DEF Go, TryGo, Owner
<1>2. task \in [Tasks -> Stages] /\ sem.cap \in Nat /\ sem.held \in Nat
  BY DEF GroupInv, GroupTypes
<1>3. CASE HasRoom
  <2>1. task' = [task EXCEPT ![t] = "running"] /\ sem' = Token
    BY <1>3 DEF Go, TryGo
  <2>2. /\ sem' \in [cap : Nat, held : Nat] /\ sem'.cap = sem.cap
        /\ sem.cap > 0 => sem'.held = sem.held + 1 /\ sem.held < sem.cap
    BY <1>2, <1>3, <2>1 DEF Token, HasRoom, GroupInv, GroupTypes
  <2>3. task' \in [Tasks -> Stages] /\ Blocked' = {}
    BY <1>1, <1>2, <2>1 DEF Stages, Blocked
  <2>4. Active' = Active \cup {t} /\ t \notin Active
    BY <1>1, <1>2, <2>1, ActiveAdd
  <2>5. IsFiniteSet(Active) => IsFiniteSet(Active') /\ Cardinality(Active') = Cardinality(Active) + 1
    BY <2>4, FS_AddElement
  <2>6. GroupTypes'
    BY <1>1, <2>2, <2>3 DEF GroupInv, GroupTypes
  <2>7. Tokens'
    BY <1>1, <1>2, <2>2, <2>3, <2>5 DEF GroupInv, Tokens
  <2>8. QED BY <1>1, <2>6, <2>7 DEF GroupInv, Ended
<1>4. CASE ~HasRoom
  <2>1. task' \in {[task EXCEPT ![t] = "blocked"], [task EXCEPT ![t] = "refused"]} /\ sem' = sem
    BY <1>4 DEF Go, TryGo
  <2>2. sem.cap > 0 /\ ~(sem.held < sem.cap)
    BY <1>2, <1>4 DEF HasRoom
  <2>3. task' \in [Tasks -> Stages] /\ Active' = Active
    BY <1>1, <1>2, <2>1 DEF Stages, Active
  <2>4. GroupTypes'
    BY <1>1, <2>1, <2>3 DEF GroupInv, GroupTypes
  <2>5. Tokens'
    BY <1>1, <1>2, <2>1, <2>2, <2>3 DEF GroupInv, Tokens
  <2>6. QED BY <1>1, <2>4, <2>5 DEF GroupInv, Ended
<1>5. QED BY <1>3, <1>4

LEMMA ReturnInv ==
  ASSUME GroupInv, NEW t \in Tasks, NEW e \in Errors \cup {nil}, Return(t, e)
  PROVE  GroupInv'
<1>1. /\ task[t] = "running" /\ task' = [task EXCEPT ![t] = "done"]
      /\ UNCHANGED <<result, sem, early>>
  BY DEF Return, KeepLimit
<1>2. task \in [Tasks -> Stages]
  BY DEF GroupInv, GroupTypes
<1>3. task' \in [Tasks -> Stages] /\ Active' = Active /\ Blocked' = Blocked /\ Active # {}
  BY <1>1, <1>2 DEF Active, Blocked, Stages
<1>4. GroupTypes' /\ Tokens'
  BY <1>1, <1>3 DEF Return, GroupInv, GroupTypes, Tokens
<1>5. result \in {"none", "waiting"}
  BY <1>3 DEF GroupInv, Ended
<1>6. cancelled' => groupErr' # nil
  BY <1>5 DEF Return, GroupInv, Ended
<1>7. QED BY <1>1, <1>4, <1>5, <1>6 DEF GroupInv, Ended

LEMMA DoneInv ==
  ASSUME GroupInv, NEW t \in Tasks, Done(t)
  PROVE  GroupInv'
<1>1. /\ task[t] = "done" /\ (sem.cap > 0 => sem.held > 0)
      /\ UNCHANGED <<groupErr, cancelled, result, early>>
  BY DEF Done
<1>2. /\ task \in [Tasks -> Stages] /\ sem.cap \in Nat /\ sem.held \in Nat
      /\ sem \in [cap : Nat, held : Nat]
  BY DEF GroupInv, GroupTypes
<1>3. t \in Active
  BY <1>1 DEF Active
<1>4. result \in {"none", "waiting"}
  BY <1>3 DEF GroupInv, Ended
<1>5. CASE task' = [task EXCEPT ![t] = "gone"]
  <2>1. /\ task' \in [Tasks -> Stages]
        /\ Active' = Active \ {t} /\ Blocked' = Blocked
    BY <1>1, <1>2, <1>5, ActiveRemove DEF Stages
  <2>2. \/ sem.cap = 0 /\ sem' = sem
        \/ sem.cap > 0 /\ Blocked = {} /\ sem' = [sem EXCEPT !.held = @ - 1]
    <3>1. ASSUME NEW b \in Blocked PROVE task' # [task EXCEPT ![t] = "gone", ![b] = "running"]
      <4>1. b \in Tasks /\ task[b] = "blocked" /\ b # t
        BY <1>1 DEF Blocked
      <4>2. task'[b] = "blocked"
        BY <1>2, <1>5, <4>1
      <4>3. QED BY <1>2, <4>1, <4>2
    <3>2. CASE sem.cap = 0
      BY <3>2 DEF Done
    <3>3. CASE sem.cap # 0
      <4>1. Blocked = {}
        BY <3>1, <3>3 DEF Done
      <4>2. QED BY <1>2, <3>3, <4>1 DEF Done
    <3>4. QED BY <3>2, <3>3
  <2>3. /\ sem' \in [cap : Nat, held : Nat] /\ sem'.cap = sem.cap
        /\ sem.cap > 0 => sem'.held = sem.held - 1
    BY <1>1, <1>2, <2>2
  <2>4. IsFiniteSet(Active) => IsFiniteSet(Active') /\ Cardinality(Active') = Cardinality(Active) - 1
    BY <1>3, <2>1, FS_RemoveElement
  <2>5. GroupTypes'
    BY <1>1, <2>1, <2>3 DEF GroupInv, GroupTypes
  <2>6. Tokens'
    BY <1>1, <1>2, <2>1, <2>2, <2>3, <2>4 DEF GroupInv, Tokens
  <2>7. QED BY <1>1, <1>4, <2>5, <2>6 DEF GroupInv, Ended
<1>6. ASSUME NEW b \in Blocked, task' = [task EXCEPT ![t] = "gone", ![b] = "running"], sem' = sem
      PROVE  GroupInv'
  <2>1. b \in Tasks /\ task[b] = "blocked"
    BY <1>6 DEF Blocked
  <2>2. task' \in [Tasks -> Stages] /\ Blocked' \subseteq Blocked
    BY <1>2, <1>6, <2>1 DEF Stages, Blocked
  <2>3. IsFiniteSet(Active) => IsFiniteSet(Active') /\ Cardinality(Active') = Cardinality(Active)
    BY <1>1, <1>2, <1>6, ActiveSwap
  <2>4. GroupTypes'
    BY <1>1, <1>6, <2>2 DEF GroupInv, GroupTypes
  <2>5. Tokens'
    BY <1>1, <1>6, <2>2, <2>3 DEF GroupInv, Tokens
  <2>6. QED BY <1>1, <1>4, <2>4, <2>5 DEF GroupInv, Ended
<1>7. QED BY <1>5, <1>6 DEF Done

LEMMA SetLimitInv ==
  ASSUME GroupInv, NEW n \in Limits, SetLimit(n)
  PROVE  GroupInv'
<1>1. /\ result = "none" /\ Blocked = {} /\ UNCHANGED <<task, groupErr, cancelled, result>>
      /\ sem' = [cap |-> n, held |-> 0] /\ (early' <=> early \/ Active # {})
  BY DEF SetLimit, Owner
<1>2. Active' = Active /\ Blocked' = {}
  BY <1>1 DEF Active, Blocked
<1>3. n \in Nat
  BY ErrgroupAssumption
<1>4. GroupTypes'
  <2>1. early' \in BOOLEAN
    BY DEF SetLimit
  <2>2. QED BY <1>1, <1>3, <2>1 DEF GroupInv, GroupTypes
<1>5. Tokens'
  BY <1>1, <1>2, <1>3, FS_EmptySet DEF Tokens
<1>6. QED BY <1>1, <1>4, <1>5 DEF GroupInv, Ended

LEMMA WaitInv ==
  ASSUME GroupInv, Wait \/ WaitReturns
  PROVE  GroupInv'
<1>1. Active' = Active /\ Blocked' = Blocked /\ UNCHANGED <<task, groupErr, sem, early>>
  BY DEF Wait, WaitReturns, KeepLimit, Active, Blocked
<1>2. CASE Wait
  BY <1>1, <1>2 DEF Wait, Owner, GroupInv, GroupTypes, Tokens, Ended
<1>3. CASE WaitReturns
  <2>1. result = "waiting" /\ Active = {} /\ cancelled' = TRUE /\ result' = groupErr
    BY <1>3 DEF WaitReturns
  <2>2. groupErr \notin {"none", "waiting"}
    BY ErrgroupAssumption DEF GroupInv, GroupTypes
  <2>3. QED BY <1>1, <2>1, <2>2 DEF GroupInv, GroupTypes, Tokens, Ended
<1>4. QED BY <1>2, <1>3
-----------------------------------------------------------------------------
(* No more functions run than the limit says, and Go waits only when that  *)
(* many run, whatever order Go, TryGo, SetLimit and the ends of the        *)
(* functions come in, if no limit is set while a function runs without a   *)
(* token; Wait returns the error that ended the context (errgroup.go).     *)
THEOREM WithinLimitCorrect == GroupInit /\ [][GroupStep]_groupVars => []WithinLimit
<1>1. ASSUME GroupInv, [GroupStep]_groupVars PROVE GroupInv'
  <2>1. CASE GroupStep
    BY <1>1, <2>1, AddsInv, ReturnInv, DoneInv, SetLimitInv, WaitInv DEF GroupStep
  <2>2. CASE UNCHANGED groupVars
    BY <1>1, <2>2 DEF groupVars, GroupInv, GroupTypes, Tokens, Ended, Active, Blocked
  <2>3. QED BY <1>1, <2>1, <2>2
<1>2. GroupInv => WithinLimit
  BY DEF GroupInv, GroupTypes, Tokens, Ended, WithinLimit
<1>3. QED BY <1>1, <1>2, InitGroup, PTL
-----------------------------------------------------------------------------
(* Metrics.  First what MapThenSumSet adds up and where a binary search    *)
(* ends: both are recursions over data.  A set with 0 that holds n + 1     *)
(* whenever it holds n has every number: the rest would have a least one.  *)
LEMMA Counting ==
  ASSUME NEW T, 0 \in T, \A n \in Nat \cap T : n + 1 \in T
  PROVE  Nat \subseteq T
<1> SUFFICES ASSUME Nat \ T # {} PROVE FALSE
  OBVIOUS
<1> DEFINE R == {p \in Nat \X Nat : p[1] < p[2]}
<1>1. PICK x \in Nat \ T : \A y \in Nat \ T : <<y, x>> \notin R
  <2>1. IsWellFoundedOn(R, Nat)
    BY NatLessThanWellFounded, Zenon DEF OpToRel
  <2> HIDE DEF R
  <2>2. QED BY <2>1, WFMin
<1>2. x # 0 /\ x \in Nat
  BY <1>1
<1>3. x - 1 \in Nat /\ x - 1 < x
  BY <1>2
<1>4. x - 1 \in T
  BY <1>1, <1>3
<1>5. QED BY <1>2, <1>3, <1>4

Any(s) == CHOOSE w \in s : TRUE

(* The recursion that Total(s) is defined by has a solution on finite s.   *)
Sums(s) == CHOOSE g : g = [t \in SUBSET s |-> IF t = {} THEN 0 ELSE Any(t)[2] + g[t \ {Any(t)}]]

LEMMA SumsSolved ==
  ASSUME NEW s, IsFiniteSet(s)
  PROVE  Sums(s) = [t \in SUBSET s |-> IF t = {} THEN 0 ELSE Any(t)[2] + Sums(s)[t \ {Any(t)}]]
<1> DEFINE Upto(n) == {t \in SUBSET s : Cardinality(t) <= n}
           Solves(g, n) == g = [t \in Upto(n) |-> IF t = {} THEN 0 ELSE Any(t)[2] + g[t \ {Any(t)}]]
           T == {n \in Nat : \E g : Solves(g, n)}
<1>1. \A t \in SUBSET s : IsFiniteSet(t) /\ Cardinality(t) \in Nat /\ Cardinality(t) <= Cardinality(s)
  BY FS_Subset, FS_CardinalityType
<1>2. \A t \in SUBSET s : t # {} => /\ t \ {Any(t)} \in SUBSET s
                                    /\ Cardinality(t \ {Any(t)}) = Cardinality(t) - 1
  <2> SUFFICES ASSUME NEW t \in SUBSET s, t # {}
               PROVE  t \ {Any(t)} \in SUBSET s /\ Cardinality(t \ {Any(t)}) = Cardinality(t) - 1
    OBVIOUS
  <2>1. Any(t) \in t
    BY DEF Any
  <2>2. QED BY <1>1, <2>1, FS_RemoveElement
<1>3. 0 \in T
  <2> DEFINE g == [t \in Upto(0) |-> 0]
  <2>1. \A t \in Upto(0) : t = {}
    BY <1>1, FS_EmptySet
  <2>2. Solves(g, 0)
    BY <2>1
  <2>3. QED BY <2>2
<1>4. ASSUME NEW n \in Nat \cap T PROVE n + 1 \in T
  <2>1. PICK g : Solves(g, n)
    OBVIOUS
  <2> DEFINE h == [t \in Upto(n + 1) |-> IF t = {} THEN 0 ELSE Any(t)[2] + g[t \ {Any(t)}]]
  <2>2. \A t \in Upto(n + 1) : t # {} => t \ {Any(t)} \in Upto(n)
    BY <1>1, <1>2
  <2>3. \A t \in Upto(n) : t \in Upto(n + 1) /\ h[t] = g[t]
    <3> SUFFICES ASSUME NEW t \in Upto(n) PROVE t \in Upto(n + 1) /\ h[t] = g[t]
      OBVIOUS
    <3>1. t \in Upto(n + 1)
      BY <1>1
    <3>2. g[t] = IF t = {} THEN 0 ELSE Any(t)[2] + g[t \ {Any(t)}]
      BY <2>1, Zenon
    <3>3. QED BY <3>1, <3>2, Zenon
  <2> HIDE DEF Upto
  <2>4. Solves(h, n + 1)
    <3>1. \A t \in Upto(n + 1) : t # {} => h[t \ {Any(t)}] = g[t \ {Any(t)}]
      BY <2>2, <2>3
    <3>2. QED BY <3>1, Zenon
  <2>5. \E f : Solves(f, n + 1)
    BY <2>4, Zenon
  <2> HIDE DEF Solves
  <2>6. QED BY <2>5
<1>5. Cardinality(s) \in T
  <2> HIDE DEF T
  <2>1. QED BY <1>1, <1>3, <1>4, Counting
<1>6. Upto(Cardinality(s)) = SUBSET s
  BY <1>1
<1>7. \E g : Solves(g, Cardinality(s))
  BY <1>5
<1>8. \E g : g = [t \in SUBSET s |-> IF t = {} THEN 0 ELSE Any(t)[2] + g[t \ {Any(t)}]]
  BY <1>6, <1>7, Zenon
<1>9. QED BY <1>8, Zenon DEF Sums

(* Total is that solution, of its own set and of every subset of another.  *)
LEMMA TotalIs == ASSUME NEW s PROVE Total(s) = Sums(s)[s]
BY DEF Total, MapThenSumSet, MapThenFoldSet, Sums, Any

LEMMA SumsAgree ==
  ASSUME NEW s, IsFiniteSet(s), NEW t \in SUBSET s
  PROVE  Sums(s)[t] = Total(t)
<1> DEFINE Agree(u) == \A r \in SUBSET s : u \subseteq r => Sums(r)[u] = Sums(s)[u]
           T == {n \in Nat : \A u \in SUBSET s : Cardinality(u) = n => Agree(u)}
<1>1. \A r \in SUBSET s : IsFiniteSet(r) /\ Cardinality(r) \in Nat
  BY FS_Subset, FS_CardinalityType
<1>2. ASSUME NEW r \in SUBSET s, NEW u \in SUBSET r
      PROVE  Sums(r)[u] = IF u = {} THEN 0 ELSE Any(u)[2] + Sums(r)[u \ {Any(u)}]
  <2>1. Sums(r) = [x \in SUBSET r |-> IF x = {} THEN 0 ELSE Any(x)[2] + Sums(r)[x \ {Any(x)}]]
    BY <1>1, SumsSolved
  <2> DEFINE f == Sums(r)
  <2> HIDE DEF f
  <2>2. f = [x \in SUBSET r |-> IF x = {} THEN 0 ELSE Any(x)[2] + f[x \ {Any(x)}]]
    BY <2>1 DEF f
  <2>3. f[u] = IF u = {} THEN 0 ELSE Any(u)[2] + f[u \ {Any(u)}]
    BY <2>2, Zenon
  <2>4. QED BY <2>3 DEF f
<1>3. 0 \in T
  <2> SUFFICES ASSUME NEW u \in SUBSET s, Cardinality(u) = 0, NEW r \in SUBSET s, u \subseteq r
               PROVE  Sums(r)[u] = Sums(s)[u]
    OBVIOUS
  <2>1. u = {}
    BY <1>1, FS_EmptySet
  <2>2. QED BY <1>2, <2>1
<1>4. ASSUME NEW n \in Nat \cap T PROVE n + 1 \in T
  <2> SUFFICES ASSUME NEW u \in SUBSET s, Cardinality(u) = n + 1, NEW r \in SUBSET s, u \subseteq r
               PROVE  Sums(r)[u] = Sums(s)[u]
    OBVIOUS
  <2>1. u # {} /\ Any(u) \in u
    BY FS_EmptySet DEF Any
  <2>2. Cardinality(u \ {Any(u)}) = n
    <3>1. IsFiniteSet(u)
      BY <1>1
    <3>2. \A w \in u : Cardinality(u \ {w}) = Cardinality(u) - 1
      BY <3>1, FS_RemoveElement
    <3>3. Cardinality(u \ {Any(u)}) = Cardinality(u) - 1
      BY <2>1, <3>2
    <3>4. QED BY <3>3
  <2>3. Sums(r)[u \ {Any(u)}] = Sums(s)[u \ {Any(u)}]
    BY <2>2
  <2>4. QED BY <1>2, <2>1, <2>3
<1> HIDE DEF T
<1>5. Cardinality(t) \in T
  BY <1>1, <1>3, <1>4, Counting
<1>6. QED BY <1>5, TotalIs DEF T

(* The equation of the sum.                                                *)
LEMMA TotalStep ==
  ASSUME NEW s, IsFiniteSet(s)
  PROVE  Total(s) = IF s = {} THEN 0 ELSE Any(s)[2] + Total(s \ {Any(s)})
<1>1. s \in SUBSET s /\ s \ {Any(s)} \in SUBSET s
  OBVIOUS
<1> DEFINE f == Sums(s)
<1>2. f = [t \in SUBSET s |-> IF t = {} THEN 0 ELSE Any(t)[2] + f[t \ {Any(t)}]]
  BY SumsSolved
<1>3. f[s] = Total(s) /\ f[s \ {Any(s)}] = Total(s \ {Any(s)})
  BY <1>1, SumsAgree
<1> HIDE DEF f
<1>4. f[s] = IF s = {} THEN 0 ELSE Any(s)[2] + f[s \ {Any(s)}]
  BY <1>1, <1>2, Zenon
<1>5. QED BY <1>3, <1>4

(* The sum does not depend on the order in which the elements are taken.   *)
LEMMA TotalRemove ==
  ASSUME NEW s, IsFiniteSet(s), \A w \in s : w[2] \in Int
  PROVE  /\ Total(s) \in Int
         /\ \A w \in s : Total(s) = w[2] + Total(s \ {w})
<1> DEFINE Sound(u) == Total(u) \in Int /\ \A w \in u : Total(u) = w[2] + Total(u \ {w})
           T == {n \in Nat : \A u \in SUBSET s : Cardinality(u) <= n => Sound(u)}
<1>1. \A u \in SUBSET s : IsFiniteSet(u) /\ Cardinality(u) \in Nat
  BY FS_Subset, FS_CardinalityType
<1>2. 0 \in T
  <2> SUFFICES ASSUME NEW u \in SUBSET s, Cardinality(u) <= 0
               PROVE  Sound(u)
    OBVIOUS
  <2>1. u = {}
    BY <1>1, FS_EmptySet
  <2>2. Total(u) = 0
    BY <1>1, <2>1, TotalStep
  <2>3. QED BY <2>1, <2>2
<1>3. ASSUME NEW n \in Nat \cap T PROVE n + 1 \in T
  <2> SUFFICES ASSUME NEW u \in SUBSET s, Cardinality(u) <= n + 1, u # {}
               PROVE  Sound(u)
    <3>1. Sound({})
      BY FS_EmptySet, TotalStep
    <3>2. QED BY <3>1
  <2> DEFINE x == Any(u)
  <2>1. x \in u /\ Total(u) = x[2] + Total(u \ {x})
    <3>1. IsFiniteSet(u)
      BY <1>1
    <3>2. QED BY <3>1, TotalStep DEF Any
  <2>2. \A w \in u : Cardinality(u \ {w}) <= n /\ u \ {w} \in SUBSET s
    <3> SUFFICES ASSUME NEW w \in u PROVE Cardinality(u \ {w}) <= n
      OBVIOUS
    <3>1. IsFiniteSet(u) /\ Cardinality(u) \in Nat
      BY <1>1
    <3>2. Cardinality(u \ {w}) = Cardinality(u) - 1
      BY <3>1, FS_RemoveElement
    <3>3. QED BY <3>1, <3>2
  <2>3. \A w \in u : Sound(u \ {w})
    BY <2>2
  <2> HIDE DEF x
  <2>4. Total(u) \in Int
    BY <2>1, <2>3
  <2>5. ASSUME NEW w \in u, w # x PROVE Total(u) = w[2] + Total(u \ {w})
    <3>1. Total(u \ {x}) = w[2] + Total((u \ {x}) \ {w})
      BY <2>1, <2>3, <2>5
    <3>2. Total(u \ {w}) = x[2] + Total((u \ {w}) \ {x})
      BY <2>1, <2>3, <2>5
    <3>3. Total((u \ {w}) \ {x}) = Total((u \ {x}) \ {w})
      <4>1. (u \ {x}) \ {w} = (u \ {w}) \ {x}
        OBVIOUS
      <4>2. QED BY <4>1, Zenon
    <3>4. Total((u \ {x}) \ {w}) \in Int
      <4> DEFINE v == (u \ {x}) \ {w}
      <4>1. v \in SUBSET s /\ IsFiniteSet(u \ {x}) /\ Cardinality(u \ {x}) \in Nat /\ Cardinality(u \ {x}) <= n
        BY <1>1, <2>1, <2>2
      <4>2. Cardinality(v) <= Cardinality(u \ {x}) /\ Cardinality(v) \in Nat
        BY <1>1, <4>1, FS_Subset
      <4> HIDE DEF v
      <4>3. Cardinality(v) <= n
        BY <4>1, <4>2
      <4>4. Total(v) \in Int
        BY <4>1, <4>3
      <4>5. QED BY <4>4 DEF v
    <3>5. w[2] \in Int /\ x[2] \in Int
      BY <2>1
    <3>6. ASSUME NEW a \in Int, NEW b \in Int, NEW c \in Int, NEW d, NEW e, NEW f,
                 d = a + e, e = b + c, f = a + c
          PROVE  d = b + f
      BY <3>6
    <3>7. QED BY <2>1, <3>1, <3>2, <3>3, <3>4, <3>5, <3>6
  <2>6. QED BY <2>1, <2>4, <2>5
<1> HIDE DEF T
<1>4. Cardinality(s) \in T
  BY <1>1, <1>2, <1>3, Counting
<1>5. QED BY <1>4 DEF T

(* One more, none, and more of them.                                       *)
LEMMA TotalAdd ==
  ASSUME NEW s, IsFiniteSet(s), \A w \in s : w[2] \in Int, NEW x, x \notin s, x[2] \in Int
  PROVE  Total(s \cup {x}) = Total(s) + x[2] /\ Total(s) \in Int
<1>1. IsFiniteSet(s \cup {x}) /\ Total((s \cup {x}) \ {x}) = Total(s)
  <2>1. (s \cup {x}) \ {x} = s
    OBVIOUS
  <2>2. QED BY <2>1, FS_AddElement, Zenon
<1>2. Total(s \cup {x}) = x[2] + Total((s \cup {x}) \ {x})
  BY <1>1, TotalRemove
<1>3. Total(s) \in Int
  BY TotalRemove
<1>4. QED BY <1>1, <1>2, <1>3

LEMMA TotalEmpty == Total({}) = 0
BY FS_EmptySet, TotalStep

LEMMA TotalMono ==
  ASSUME NEW t, IsFiniteSet(t), \A w \in t : w[2] \in Nat, NEW s \in SUBSET t
  PROVE  Total(s) <= Total(t) /\ Total(s) \in Int /\ Total(t) \in Int
<1> DEFINE T == {n \in Nat : \A u \in SUBSET t : Cardinality(u) = n /\ s \subseteq u => Total(s) <= Total(u)}
<1>1. \A u \in SUBSET t : IsFiniteSet(u) /\ Cardinality(u) \in Nat /\ Total(u) \in Int
  <2> SUFFICES ASSUME NEW u \in SUBSET t
               PROVE  IsFiniteSet(u) /\ Cardinality(u) \in Nat /\ Total(u) \in Int
    OBVIOUS
  <2>1. IsFiniteSet(u) /\ Cardinality(u) \in Nat
    BY FS_Subset, FS_CardinalityType
  <2>2. QED BY <2>1, TotalRemove
<1>2. 0 \in T
  <2> SUFFICES ASSUME NEW u \in SUBSET t, Cardinality(u) = 0, s \subseteq u
               PROVE  Total(s) <= Total(u)
    OBVIOUS
  <2>1. u = {} /\ s = {}
    BY <1>1, FS_EmptySet
  <2>2. QED BY <2>1, TotalEmpty
<1>3. ASSUME NEW n \in Nat \cap T PROVE n + 1 \in T
  <2> SUFFICES ASSUME NEW u \in SUBSET t, Cardinality(u) = n + 1, s \subseteq u, s # u
               PROVE  Total(s) <= Total(u)
    BY <1>1
  <2>1. PICK w \in u : w \notin s
    OBVIOUS
  <2>2. IsFiniteSet(u)
    BY <1>1
  <2>3. Cardinality(u \ {w}) = Cardinality(u) - 1 /\ s \subseteq u \ {w}
    BY <2>1, <2>2, FS_RemoveElement
  <2>4. Total(s) <= Total(u \ {w})
    BY <2>3
  <2>5. Total(u) = w[2] + Total(u \ {w}) /\ w[2] \in Nat
    BY <2>2, TotalRemove
  <2>6. Total(u \ {w}) \in Int /\ Total(s) \in Int
    BY <1>1
  <2> HIDE DEF T
  <2>7. QED BY <2>4, <2>5, <2>6
<1> HIDE DEF T
<1>4. Cardinality(t) \in T
  BY <1>1, <1>2, <1>3, Counting
<1>5. QED BY <1>1, <1>4 DEF T
(* The ranges that sort.SearchFloat64s goes through.                       *)
Ranges(val) ==
  CHOOSE g : g = [n \in 0 .. Len(bounds) |-> IF n = 0 THEN <<0, Len(bounds)>> ELSE Halve(g[n - 1], val)]

LEMMA RangesSolved ==
  ASSUME NEW val, Len(bounds) \in Nat
  PROVE  Ranges(val) = [n \in 0 .. Len(bounds) |->
                          IF n = 0 THEN <<0, Len(bounds)>> ELSE Halve(Ranges(val)[n - 1], val)]
<1> DEFINE Solves(g, m) ==
             g = [n \in 0 .. m |-> IF n = 0 THEN <<0, Len(bounds)>> ELSE Halve(g[n - 1], val)]
           T == {m \in Nat : \E g : Solves(g, m)}
<1>1. 0 \in T
  <2> DEFINE g == [n \in 0 .. 0 |-> <<0, Len(bounds)>>]
  <2>1. \A n \in 0 .. 0 : n = 0
    OBVIOUS
  <2>2. Solves(g, 0)
    BY <2>1, Zenon
  <2>3. QED BY <2>2
<1>2. ASSUME NEW m \in Nat \cap T PROVE m + 1 \in T
  <2>1. PICK g : Solves(g, m)
    OBVIOUS
  <2> DEFINE h == [n \in 0 .. m + 1 |-> IF n = 0 THEN <<0, Len(bounds)>> ELSE Halve(g[n - 1], val)]
  <2>2. \A n \in 0 .. m : n \in 0 .. m + 1
    OBVIOUS
  <2>3. \A n \in 0 .. m + 1 : n # 0 => n - 1 \in 0 .. m
    OBVIOUS
  <2>4. \A n \in 0 .. m : h[n] = g[n]
    <3> SUFFICES ASSUME NEW n \in 0 .. m PROVE h[n] = g[n]
      OBVIOUS
    <3>1. g[n] = IF n = 0 THEN <<0, Len(bounds)>> ELSE Halve(g[n - 1], val)
      BY <2>1, Zenon
    <3>2. QED BY <2>2, <3>1, Zenon
  <2>5. Solves(h, m + 1)
    <3>1. \A n \in 0 .. m + 1 : n # 0 => h[n - 1] = g[n - 1]
      BY <2>3, <2>4, Zenon
    <3>2. QED BY <3>1, Zenon
  <2>6. \E f : Solves(f, m + 1)
    BY <2>5, Zenon
  <2> HIDE DEF Solves
  <2>7. QED BY <2>6
<1> HIDE DEF T
<1>3. Len(bounds) \in T
  BY <1>1, <1>2, Counting
<1>4. \E g : Solves(g, Len(bounds))
  BY <1>3 DEF T
<1>5. QED BY <1>4, Zenon DEF Ranges

LEMMA SearchIs == ASSUME NEW val PROVE Search(val) = Ranges(val)[Len(bounds)][1]
BY DEF Search, Ranges

(* The search ends at the number of bounds below the value.                *)
LEMMA SearchRight ==
  ASSUME NEW val \in Nat, bounds \in Seq(Nat), Ascending(bounds)
  PROVE  /\ Search(val) \in 0 .. Len(bounds)
         /\ \A j \in 1 .. Len(bounds) : bounds[j] < val <=> j <= Search(val)
<1> DEFINE N == Len(bounds)
           f == Ranges(val)
           Good(lo, hi, n) ==
             /\ lo <= hi /\ hi - lo <= N - n
             /\ \A j \in 1 .. N : (j <= lo => bounds[j] < val) /\ (j > hi => bounds[j] >= val)
           Reached(n) == \E lo, hi \in 0 .. N : f[n] = <<lo, hi>> /\ Good(lo, hi, n)
           T == {n \in Nat : n <= N => Reached(n)}
<1>1. N \in Nat /\ \A j \in 1 .. N : bounds[j] \in Nat
  OBVIOUS
<1>2. f = [n \in 0 .. N |-> IF n = 0 THEN <<0, N>> ELSE Halve(f[n - 1], val)]
  BY <1>1, RangesSolved
<1> HIDE DEF f, N
<1>3. f[0] = <<0, N>> /\ \A n \in Nat : n + 1 <= N => f[n + 1] = Halve(f[n], val)
  <2>1. 0 \in 0 .. N /\ f[0] = <<0, N>>
    BY <1>1, <1>2
  <2>2. ASSUME NEW n \in Nat, n + 1 <= N PROVE f[n + 1] = Halve(f[n], val)
    <3>1. n + 1 \in 0 .. N /\ n + 1 # 0 /\ (n + 1) - 1 = n
      BY <1>1, <2>2
    <3>2. f[n + 1] = IF n + 1 = 0 THEN <<0, N>> ELSE Halve(f[(n + 1) - 1], val)
      BY <1>2, <3>1, Zenon
    <3>3. QED BY <3>1, <3>2
  <2>3. QED BY <2>1, <2>2
<1>4. 0 \in T
  <2>1. f[0] = <<0, N>> /\ Good(0, N, 0)
    BY <1>1, <1>3
  <2>2. QED BY <1>1, <2>1
<1>5. ASSUME NEW n \in Nat \cap T PROVE n + 1 \in T
  <2>a. n + 1 \in Nat
    OBVIOUS
  <2> SUFFICES ASSUME n + 1 <= N PROVE Reached(n + 1)
    <3> HIDE DEF Reached
    <3>1. QED BY <2>a
  <2>0. Reached(n)
    <3>1. n \in Nat /\ n <= N /\ n \in T
      BY <1>1
    <3> HIDE DEF Reached
    <3>2. QED BY <3>1
  <2>1. PICK lo \in 0 .. N, hi \in 0 .. N : f[n] = <<lo, hi>> /\ Good(lo, hi, n)
    BY <2>0
  <2> DEFINE h == (lo + hi) \div 2
  <2>2. f[n + 1] = IF lo >= hi THEN <<lo, hi>> ELSE IF bounds[h + 1] < val THEN <<h + 1, hi>> ELSE <<lo, h>>
    <3>1. f[n + 1] = Halve(f[n], val)
      BY <1>3
    <3>2. f[n + 1] = Halve(<<lo, hi>>, val)
      BY <2>1, <3>1, Zenon
    <3>3. QED BY <3>2 DEF Halve
  <2>3. CASE lo >= hi
    <3>1. f[n + 1] = <<lo, hi>> /\ Good(lo, hi, n + 1)
      BY <1>1, <2>1, <2>2, <2>3
    <3>2. QED BY <3>1
  <2>4. CASE lo < hi
    <3>1. h \in 0 .. N /\ lo <= h /\ h < hi /\ h + 1 \in 1 .. N
      BY <1>1, <2>1, <2>4
    <3> HIDE DEF h
    <3>2. \A j \in 1 .. N : (j <= h + 1 => bounds[j] <= bounds[h + 1]) /\ (j > h => bounds[j] >= bounds[h + 1])
      <4> SUFFICES ASSUME NEW j \in 1 .. N
                   PROVE  (j <= h + 1 => bounds[j] <= bounds[h + 1]) /\ (j > h => bounds[j] >= bounds[h + 1])
        OBVIOUS
      <4>1. bounds[j] \in Nat /\ bounds[h + 1] \in Nat
        BY <1>1, <3>1
      <4>2. j < h + 1 \/ j = h + 1 \/ j > h + 1
        BY <3>1
      <4>3. (j < h + 1 => bounds[j] < bounds[h + 1]) /\ (h + 1 < j => bounds[h + 1] < bounds[j])
        BY <3>1 DEF Ascending, N
      <4>4. j \in Nat /\ h \in Nat
        BY <1>1, <3>1
      <4> HIDE DEF N, Good, Reached, T
      <4>5. CASE j < h + 1
        BY <4>1, <4>3, <4>4, <4>5
      <4>6. CASE j = h + 1
        BY <4>1, <4>4, <4>6
      <4>7. CASE j > h + 1
        BY <4>1, <4>3, <4>4, <4>7
      <4>8. QED BY <4>2, <4>5, <4>6, <4>7
    <3>3. bounds[h + 1] \in Nat
      BY <1>1, <3>1
    <3>4. CASE bounds[h + 1] < val
      <4>1. f[n + 1] = <<h + 1, hi>>
        BY <1>1, <2>2, <2>4, <3>4
      <4>2. h + 1 <= hi /\ hi - (h + 1) <= N - (n + 1)
        BY <1>1, <2>1, <3>1
      <4>3. \A j \in 1 .. N : j <= h + 1 => bounds[j] < val
        <5> SUFFICES ASSUME NEW j \in 1 .. N, j <= h + 1 PROVE bounds[j] < val
          OBVIOUS
        <5>1. bounds[j] \in Nat
          BY <1>1
        <5>2. bounds[j] <= bounds[h + 1]
          BY <3>2
        <5> HIDE DEF N, Good, Reached, T
        <5>3. QED BY <3>3, <3>4, <5>1, <5>2
      <4>4. Good(h + 1, hi, n + 1) /\ h + 1 \in 0 .. N
        BY <2>1, <3>1, <4>2, <4>3
      <4> HIDE DEF Good
      <4>5. QED BY <4>1, <4>4
    <3>5. CASE ~(bounds[h + 1] < val)
      <4>1. f[n + 1] = <<lo, h>>
        BY <1>1, <2>2, <2>4, <3>5
      <4>2. h - lo <= N - (n + 1)
        BY <1>1, <2>1, <3>1
      <4>3. \A j \in 1 .. N : j > h => bounds[j] >= val
        <5> SUFFICES ASSUME NEW j \in 1 .. N, j > h PROVE bounds[j] >= val
          OBVIOUS
        <5>1. bounds[j] \in Nat
          BY <1>1
        <5>2. bounds[j] >= bounds[h + 1]
          BY <3>2
        <5> HIDE DEF N, Good, Reached, T
        <5>3. QED BY <3>3, <3>5, <5>1, <5>2
      <4>4. Good(lo, h, n + 1)
        BY <2>1, <3>1, <4>2, <4>3
      <4> HIDE DEF Good
      <4>5. QED BY <3>1, <4>1, <4>4
    <3>6. QED BY <3>4, <3>5
  <2>5. QED BY <2>1, <2>3, <2>4
<1> HIDE DEF T
<1>6. N \in T
  BY <1>1, <1>4, <1>5, Counting
<1>7. PICK lo \in 0 .. N, hi \in 0 .. N : f[N] = <<lo, hi>> /\ Good(lo, hi, N)
  BY <1>1, <1>6 DEF T
<1>8. Search(val) = lo /\ lo = hi
  BY <1>1, <1>7, SearchIs DEF f, N
<1>9. QED BY <1>1, <1>7, <1>8 DEF N

(* Put's bucket is the only one the value is within.                       *)
LEMMA BucketRight ==
  ASSUME NEW val \in Nat, bounds \in Seq(Nat), Ascending(bounds)
  PROVE  Bucket(val) \in Buckets /\ \A i \in Buckets : Within(i, val) <=> i = Bucket(val)
<1> DEFINE N == Len(bounds)
           s == Search(val)
<1>1. N \in Nat /\ \A j \in 1 .. N : bounds[j] \in Nat
  OBVIOUS
<1>2. \A i, j \in 1 .. N : i < j => bounds[i] < bounds[j]
  BY DEF Ascending
<1>3. s \in 0 .. N /\ \A j \in 1 .. N : bounds[j] < val <=> j <= s
  BY SearchRight
<1>4. bounds = <<>> <=> N = 0
  OBVIOUS
<1> DEFINE b == Bucket(val)
<1>5. b = IF N = 0 \/ val < bounds[1] THEN 0 ELSE IF s < N /\ val = bounds[s + 1] THEN s + 1 ELSE s
  BY <1>4, Zenon DEF Bucket
<1> HIDE DEF N, s, b
<1>6. b \in 0 .. N /\ \A j \in 1 .. N : bounds[j] <= val <=> j <= b
  <2>1. CASE N = 0
    BY <1>1, <1>5, <2>1
  <2>2. CASE N > 0 /\ val < bounds[1]
    <3>1. 1 \in 1 .. N /\ b = 0
      BY <1>1, <1>5, <2>2
    <3>2. \A j \in 1 .. N : j = 1 \/ bounds[1] < bounds[j]
      BY <1>2, <3>1
    <3>3. QED BY <1>1, <2>2, <3>1, <3>2
  <2>3. CASE N > 0 /\ ~(val < bounds[1]) /\ s < N /\ val = bounds[s + 1]
    <3>1. b = s + 1 /\ s + 1 \in 1 .. N
      BY <1>1, <1>3, <1>5, <2>3
    <3>2. \A j \in 1 .. N : (j < s + 1 => bounds[j] < val) /\ (j > s + 1 => val < bounds[j])
      BY <1>2, <2>3, <3>1
    <3>3. QED BY <1>1, <1>3, <2>3, <3>1, <3>2
  <2>4. CASE N > 0 /\ ~(val < bounds[1]) /\ ~(s < N /\ val = bounds[s + 1])
    <3>1. b = s
      BY <1>1, <1>5, <2>4
    <3>2. ASSUME NEW j \in 1 .. N PROVE bounds[j] <= val <=> j <= s
      <4>1. CASE j <= s
        BY <1>1, <1>3, <4>1
      <4>2. CASE j > s
        <5>1. s + 1 \in 1 .. N /\ s < N
          BY <1>1, <1>3, <4>2
        <5>2. val < bounds[s + 1]
          BY <1>1, <1>3, <2>4, <5>1
        <5>3. bounds[s + 1] <= bounds[j]
          <6>1. j = s + 1 \/ s + 1 < j
            BY <1>3, <4>2
          <6>2. QED BY <1>1, <1>2, <5>1, <6>1
        <5>4. QED BY <1>1, <1>3, <4>2, <5>1, <5>2, <5>3
      <4>3. QED BY <1>3, <4>1, <4>2
    <3>3. QED BY <1>3, <3>1, <3>2
  <2>5. QED BY <1>1, <2>1, <2>2, <2>3, <2>4
<1>7. ASSUME NEW i \in 0 .. N
      PROVE  (i > 0 => bounds[i] <= val) /\ (i < N => val < bounds[i + 1]) <=> i = b
  <2>1. (i > 0 => i \in 1 .. N) /\ (i < N => i + 1 \in 1 .. N)
    BY <1>1
  <2>2. (i > 0 => (bounds[i] <= val <=> i <= b)) /\ (i < N => (val < bounds[i + 1] <=> i + 1 > b))
    BY <1>1, <1>6, <2>1
  <2>3. QED BY <1>1, <1>6, <2>2
<1>8. QED BY <1>6, <1>7 DEF Buckets, Within, N, b

(* The invariant: operations that have begun, the cells, the snapshot.     *)
Records == [at : {"load", "swap", "put", "over"}, val : Int, put : BOOLEAN, cur : Int]
Uses    == [at : {"new", "over"}] \cup Records
Flag(u) == "put" \in DOMAIN use[u] /\ use[u].put
Snaps   == [at : {"none", "counts", "float", "done"}, next : Nat, before : SUBSET (Users \X Int),
            counts : Seq(Nat), value : Int]

MetricTypes ==
  /\ typ \in {"counter", "gauge", "histogram"}
  /\ bounds \in Seq(Nat) /\ Ascending(bounds)
  /\ counts \in [Buckets -> Nat]
  /\ fValue \in Int /\ iValue \in Nat /\ putCount \in Nat
  /\ use \in [Users -> Uses]
  /\ begun \subseteq Users \X Int /\ IsFiniteSet(begun) /\ over \subseteq begun
  /\ snap \in Snaps

(* Each goroutine has at most begun its one operation.                     *)
Operations ==
  /\ \A w \in begun :
       /\ use[w[1]].at # "new"
       /\ use[w[1]].at \in {"load", "swap"} <=> w \notin over
       /\ typ # "gauge" => w[2] \in Nat
  /\ \A w, v \in begun : w[1] = v[1] => w = v
  /\ \A u \in Users :
       /\ use[u].at \in {"load", "swap"} => <<u, use[u].val>> \in begun
       /\ use[u].at = "put" => \E w \in begun : w[1] = u
       /\ use[u].at # "new" => (Flag(u) <=> typ = "histogram")
       /\ use[u].at = "put" => typ = "histogram"

InBucket(i) == {w \in Puts : Within(i, w[2])}

(* What the cells hold.                                                    *)
Cells ==
  /\ fValue + iValue = Total(over)
  /\ typ = "gauge" => iValue = 0
  /\ \A i \in Buckets : counts[i] = Cardinality(InBucket(i))
  /\ putCount <= Cardinality({w \in Puts : use[w[1]].at = "over"})

(* What a snapshot has read.                                               *)
Reading ==
  /\ Len(snap.counts) = snap.next /\ snap.next <= Len(bounds) + 1
  /\ snap.at = "none" => snap.next = 0
  /\ snap.at \in {"float", "done"} => snap.next = Len(bounds) + 1
  /\ typ # "gauge" =>
       /\ snap.before \subseteq over
       /\ snap.at = "float" => Total(snap.before) <= snap.value + iValue /\ snap.value <= fValue
       /\ snap.at = "done" => Total(snap.before) <= snap.value /\ snap.value <= fValue + iValue
       /\ \A i \in Buckets : i < snap.next =>
            /\ Cardinality(InBucket(i) \cap snap.before) <= snap.counts[i + 1]
            /\ snap.counts[i + 1] <= counts[i]

MetricInv == MetricTypes /\ Operations /\ Cells /\ Reading

(* The record of an operation that goes on.                                *)
LEMMA OnRecord ==
  ASSUME NEW r \in Records, NEW s \in {"load", "swap", "put", "over"}, NEW c \in Int
  PROVE  /\ r.val \in Int /\ r.cur \in Int /\ r.put \in BOOLEAN /\ "put" \in DOMAIN r
         /\ [r EXCEPT !.at = s] \in Records
         /\ [r EXCEPT !.at = s].at = s /\ [r EXCEPT !.at = s].val = r.val
         /\ [r EXCEPT !.at = s].put = r.put /\ "put" \in DOMAIN [r EXCEPT !.at = s]
         /\ [r EXCEPT !.at = s, !.cur = c] \in Records
         /\ [r EXCEPT !.at = s, !.cur = c].at = s /\ [r EXCEPT !.at = s, !.cur = c].val = r.val
         /\ [r EXCEPT !.at = s, !.cur = c].put = r.put /\ "put" \in DOMAIN [r EXCEPT !.at = s, !.cur = c]
BY DEF Records

LEMMA BeganRecord ==
  ASSUME NEW r \in Uses, r.at \in {"load", "swap", "put"}
  PROVE  r \in Records
BY DEF Uses

(* A goroutine that goes on with an operation keeps its value and flag.    *)
LEMMA OnUse ==
  ASSUME use \in [Users -> Uses], NEW u \in Users, use[u].at \in {"load", "swap", "put"},
         NEW s \in {"load", "swap", "put", "over"}, NEW c \in Int,
         \/ use' = [use EXCEPT ![u].at = s]
         \/ use' = [use EXCEPT ![u].at = s, ![u].cur = c]
  PROVE  /\ use[u] \in Records /\ "put" \in DOMAIN use[u] /\ use[u].put \in BOOLEAN
         /\ use' \in [Users -> Uses]
         /\ use'[u].at = s /\ use'[u].val = use[u].val
         /\ \A v \in Users : v # u => use'[v] = use[v]
         /\ \A v \in Users : Flag(v)' <=> Flag(v)
<1>1. use[u] \in Records
  BY BeganRecord
<1> DEFINE r == use[u]
           a == [r EXCEPT !.at = s]
           b == [r EXCEPT !.at = s, !.cur = c]
<1>2. a \in Records /\ a.at = s /\ a.val = r.val /\ a.put = r.put /\ "put" \in DOMAIN a
  BY <1>1, OnRecord DEF Records
<1>3. b \in Records /\ b.at = s /\ b.val = r.val /\ b.put = r.put /\ "put" \in DOMAIN b
  BY <1>1, OnRecord DEF Records
<1>4. use'[u] = a \/ use'[u] = b
  OBVIOUS
<1>5. r.put \in BOOLEAN /\ "put" \in DOMAIN r
  BY <1>1, OnRecord
<1>6. \A v \in Users : v # u => use'[v] = use[v]
  OBVIOUS
<1>7. use' \in [Users -> Uses]
  <2>1. a \in Uses /\ b \in Uses
    BY <1>2, <1>3 DEF Uses
  <2>2. QED BY <2>1
<1>8. use'[u].at = s /\ use'[u].val = use[u].val /\ use'[u].put = use[u].put /\ "put" \in DOMAIN use'[u]
  BY <1>2, <1>3, <1>4
<1>9. QED BY <1>1, <1>5, <1>6, <1>7, <1>8 DEF Flag

(* A goroutine that begins, and one whose operation is a single step.      *)
LEMMA StartUse ==
  ASSUME use \in [Users -> Uses], NEW u \in Users, NEW v \in Int, NEW p \in BOOLEAN,
         NEW s \in {"load", "put"}, use' = [use EXCEPT ![u] = [at |-> s, val |-> v, put |-> p, cur |-> 0]]
  PROVE  /\ use' \in [Users -> Uses]
         /\ use'[u].at = s /\ use'[u].val = v /\ (Flag(u)' <=> p)
         /\ \A w \in Users : w # u => use'[w] = use[w] /\ (Flag(w)' <=> Flag(w))
BY DEF Uses, Records, Flag

LEMMA EndUse ==
  ASSUME use \in [Users -> Uses], NEW u \in Users, use[u].at = "new", Goes(u, "over")
  PROVE  /\ use' \in [Users -> Uses]
         /\ use'[u].at = "over" /\ ~ Flag(u)'
         /\ \A w \in Users : w # u => use'[w] = use[w] /\ (Flag(w)' <=> Flag(w))
<1>1. use[u] = [at |-> "new"]
  BY DEF Uses, Records
<1>2. [use[u] EXCEPT !.at = "over"] = [at |-> "over"]
  BY <1>1
<1>3. use'[u] = [at |-> "over"]
  BY <1>2 DEF Goes
<1>4. \A w \in Users : w # u => use'[w] = use[w]
  BY DEF Goes
<1>5. use' \in [Users -> Uses]
  <2>1. [at |-> "over"] \in Uses
    BY DEF Uses
  <2>2. use' = [use EXCEPT ![u] = [at |-> "over"]]
    BY <1>2 DEF Goes
  <2>3. QED BY <2>1, <2>2
<1>6. QED BY <1>3, <1>4, <1>5 DEF Flag

(* Only a histogram has Puts, and nothing else.                            *)
LEMMA PutsAre ==
  MetricTypes /\ Operations => Puts = IF typ = "histogram" THEN begun ELSE {}
<1> SUFFICES ASSUME MetricTypes, Operations
             PROVE  Puts = IF typ = "histogram" THEN begun ELSE {}
  OBVIOUS
<1>1. Puts = {w \in begun : Flag(w[1])}
  BY DEF Puts, Flag
<1>2. \A w \in begun : w[1] \in Users
  BY DEF MetricTypes
<1>3. \A w \in begun : Flag(w[1]) <=> typ = "histogram"
  BY <1>2 DEF Operations
<1>4. QED BY <1>1, <1>3

(* Everything that is counted is finite.                                   *)
LEMMA FiniteParts ==
  ASSUME MetricTypes
  PROVE  /\ IsFiniteSet(begun) /\ IsFiniteSet(over) /\ IsFiniteSet(Puts)
         /\ \A i \in Buckets : IsFiniteSet(InBucket(i))
         /\ \A w \in begun : w[1] \in Users /\ w[2] \in Int /\ w = <<w[1], w[2]>>
         /\ Puts \subseteq begun /\ over \subseteq begun
         /\ Total(over) \in Int /\ Len(bounds) \in Nat
<1>1. IsFiniteSet(begun) /\ over \subseteq begun /\ Puts \subseteq begun /\ Len(bounds) \in Nat
  BY DEF MetricTypes, Puts
<1>2. \A w \in begun : w[1] \in Users /\ w[2] \in Int /\ w = <<w[1], w[2]>>
  BY DEF MetricTypes
<1>3. IsFiniteSet(over) /\ IsFiniteSet(Puts)
  BY <1>1, FS_Subset
<1>4. \A i \in Buckets : InBucket(i) \subseteq Puts
  BY DEF InBucket
<1>5. \A i \in Buckets : IsFiniteSet(InBucket(i))
  BY <1>3, <1>4, FS_Subset
<1>6. Total(over) \in Int
  BY <1>1, <1>2, <1>3, TotalRemove
<1>7. QED BY <1>1, <1>2, <1>3, <1>5, <1>6

(* What has been read stays right when nothing goes down.                  *)
LEMMA ReadingKept ==
  ASSUME MetricTypes, MetricTypes', Reading, UNCHANGED <<typ, bounds, snap>>,
         typ # "gauge" =>
           /\ over \subseteq over' /\ fValue <= fValue' /\ iValue <= iValue'
           /\ \A i \in Buckets : /\ counts[i] <= counts'[i]
                                 /\ InBucket(i)' \cap snap.before = InBucket(i) \cap snap.before
  PROVE  Reading'
<1>1. snap.value \in Int /\ Total(snap.before) = Total(snap.before)' /\ snap.counts \in Seq(Nat) /\ snap.next \in Nat
  BY DEF MetricTypes, Snaps
<1>2. fValue \in Int /\ iValue \in Int /\ fValue' \in Int /\ iValue' \in Int /\ Len(bounds) \in Nat
  BY DEF MetricTypes
<1>3. ASSUME typ # "gauge", NEW i \in Buckets, i < snap.next
      PROVE  /\ Cardinality(InBucket(i)' \cap snap.before) <= snap.counts[i + 1]
             /\ snap.counts[i + 1] <= counts'[i]
  <2>1. Cardinality(InBucket(i) \cap snap.before) <= snap.counts[i + 1] /\ snap.counts[i + 1] <= counts[i]
    BY <1>3 DEF Reading
  <2>2. InBucket(i)' \cap snap.before = InBucket(i) \cap snap.before /\ counts[i] <= counts'[i]
    BY <1>3
  <2>3. counts[i] \in Nat /\ counts'[i] \in Nat /\ snap.counts[i + 1] \in Nat
    <3>1. i + 1 \in 1 .. Len(snap.counts)
      BY <1>1, <1>2, <1>3 DEF Reading, Buckets
    <3>2. counts \in [Buckets -> Nat] /\ counts' \in [Buckets -> Nat]
      BY DEF MetricTypes, Buckets
    <3>3. QED BY <1>1, <3>1, <3>2
  <2>4. Cardinality(InBucket(i) \cap snap.before) \in Nat
    BY FiniteParts, FS_Intersection, FS_CardinalityType
  <2>5. QED BY <2>1, <2>2, <2>3, <2>4
<1>4. ASSUME typ # "gauge"
      PROVE  /\ snap.at = "float" => Total(snap.before) <= snap.value + iValue' /\ snap.value <= fValue'
             /\ snap.at = "done" => Total(snap.before) <= snap.value /\ snap.value <= fValue' + iValue'
  <2>1. Total(snap.before) \in Int
    <3>1. snap.before \subseteq begun /\ IsFiniteSet(begun) /\ \A w \in begun : w[2] \in Int
      BY <1>4 DEF Reading, MetricTypes
    <3>2. IsFiniteSet(snap.before)
      BY <3>1, FS_Subset
    <3>3. QED BY <3>1, <3>2, TotalRemove
  <2>2. QED BY <1>1, <1>2, <1>4, <2>1 DEF Reading
<1>5. Buckets' = Buckets
  BY DEF Buckets
<1>6. QED BY <1>1, <1>3, <1>4, <1>5 DEF Reading

(* A goroutine that loads, or finds the value changed.                     *)
LEMMA Retried ==
  ASSUME MetricInv, NEW u \in Users, use[u].at \in {"load", "swap"},
         NEW s \in {"load", "swap"}, NEW c \in Int,
         \/ use' = [use EXCEPT ![u].at = s]
         \/ use' = [use EXCEPT ![u].at = s, ![u].cur = c],
         UNCHANGED <<typ, bounds, counts, fValue, iValue, putCount, begun, over, snap>>
  PROVE  MetricInv'
<1>1. use \in [Users -> Uses]
  BY DEF MetricInv, MetricTypes
<1>2. /\ use' \in [Users -> Uses]
      /\ use'[u].at = s /\ use'[u].val = use[u].val
      /\ \A v \in Users : v # u => use'[v] = use[v]
      /\ \A v \in Users : Flag(v)' <=> Flag(v)
  BY <1>1, OnUse
<1>3. MetricTypes'
  BY <1>2 DEF MetricInv, MetricTypes, Buckets, Ascending, Snaps
<1>4. Operations'
  <2> USE DEF MetricInv, Operations
  <2>1. \A w \in begun : w[1] \in Users
    BY FiniteParts
  <2>2. \A w \in begun :
          /\ use'[w[1]].at # "new"
          /\ use'[w[1]].at \in {"load", "swap"} <=> w \notin over
          /\ typ # "gauge" => w[2] \in Nat
    BY <1>2, <2>1
  <2>3. \A v \in Users :
          /\ use'[v].at \in {"load", "swap"} => <<v, use'[v].val>> \in begun
          /\ use'[v].at = "put" => \E w \in begun : w[1] = v
          /\ use'[v].at # "new" => (Flag(v)' <=> typ = "histogram")
          /\ use'[v].at = "put" => typ = "histogram"
    BY <1>2
  <2>4. QED BY <2>2, <2>3
<1>5. Puts' = Puts
  <2>1. \A w \in begun : w[1] \in Users
    BY FiniteParts DEF MetricInv
  <2>2. Puts = {w \in begun : Flag(w[1])} /\ Puts' = {w \in begun' : Flag(w[1])'}
    BY DEF Puts, Flag
  <2>3. QED BY <1>2, <2>1, <2>2
<1>6. \A i \in Buckets : InBucket(i)' = InBucket(i)
  BY <1>5 DEF InBucket, Within
<1>7. Cells'
  <2>1. {w \in Puts' : use'[w[1]].at = "over"} = {w \in Puts : use[w[1]].at = "over"}
    <3>1. \A w \in Puts : w[1] \in Users
      BY FiniteParts DEF MetricInv
    <3>2. QED BY <1>2, <1>5, <3>1
  <2>2. Buckets' = Buckets /\ Total(over)' = Total(over)
    BY DEF Buckets
  <2>3. QED BY <1>5, <1>6, <2>1, <2>2 DEF MetricInv, Cells
<1>8. Reading'
  <2>1. \A i \in Buckets : counts[i] \in Nat
    BY DEF MetricInv, MetricTypes
  <2>2. fValue \in Int /\ iValue \in Int
    BY DEF MetricInv, MetricTypes
  <2>3. QED BY <1>3, <1>6, <2>1, <2>2, ReadingKept DEF MetricInv
<1>9. QED BY <1>3, <1>4, <1>7, <1>8 DEF MetricInv

(* The counts and what a snapshot read, when nobody's Put begins.          *)
LEMMA SamePuts ==
  ASSUME MetricTypes, Operations, MetricTypes', Operations', UNCHANGED <<typ, bounds>>,
         typ = "histogram" => begun' = begun
  PROVE  Puts' = Puts /\ \A i \in Buckets : InBucket(i)' = InBucket(i)
<1>1. Puts = IF typ = "histogram" THEN begun ELSE {}
  BY PutsAre
<1>2. (Puts = IF typ = "histogram" THEN begun ELSE {})'
  <2>1. (MetricTypes /\ Operations)'
    OBVIOUS
  <2>2. (MetricTypes /\ Operations => Puts = IF typ = "histogram" THEN begun ELSE {})'
    BY PutsAre, PTL
  <2>3. QED BY <2>1, <2>2
<1>3. Puts' = Puts
  BY <1>1, <1>2
<1>4. QED BY <1>3 DEF InBucket, Within

(* The steps, one by one.                                                  *)
LEMMA CountedKeeps == ASSUME MetricInv, NEW u \in Users, Counted(u) PROVE MetricInv'
<1> USE DEF Counted, At, Goes
<1>1. use \in [Users -> Uses] /\ 0 \in Int
  BY DEF MetricInv, MetricTypes
<1>2. /\ use' \in [Users -> Uses]
      /\ use'[u].at = "over"
      /\ \A v \in Users : v # u => use'[v] = use[v]
      /\ \A v \in Users : Flag(v)' <=> Flag(v)
  BY <1>1, OnUse
<1>3. MetricTypes'
  BY <1>2 DEF MetricInv, MetricTypes, Buckets, Ascending, Snaps
<1>4. Operations'
  <2> USE DEF MetricInv, Operations
  <2>1. \A w \in begun : w[1] \in Users
    BY FiniteParts
  <2>2. \A w \in begun :
          /\ use'[w[1]].at # "new"
          /\ use'[w[1]].at \in {"load", "swap"} <=> w \notin over
          /\ typ # "gauge" => w[2] \in Nat
    BY <1>2, <2>1
  <2>3. \A v \in Users :
          /\ use'[v].at \in {"load", "swap"} => <<v, use'[v].val>> \in begun
          /\ use'[v].at = "put" => \E w \in begun : w[1] = v
          /\ use'[v].at # "new" => (Flag(v)' <=> typ = "histogram")
          /\ use'[v].at = "put" => typ = "histogram"
    BY <1>2
  <2>4. QED BY <2>2, <2>3
<1>5. Puts' = Puts /\ \A i \in Buckets : InBucket(i)' = InBucket(i)
  BY <1>3, <1>4, SamePuts DEF MetricInv
<1>6. Cells'
  <2> DEFINE Past  == {w \in Puts : use[w[1]].at = "over"}
             Past1 == {w \in Puts : use'[w[1]].at = "over"}
  <2>1. PICK x \in begun : x[1] = u
    BY DEF MetricInv, Operations
  <2>2. Puts = begun
    BY PutsAre DEF MetricInv, Operations
  <2>3. Past1 = Past \cup {x}
    <3>1. \A w \in begun : w[1] \in Users /\ (w[1] = u => w = x)
      BY <2>1, FiniteParts DEF MetricInv, Operations
    <3>2. QED BY <1>2, <2>1, <2>2, <3>1
  <2>4. x \notin Past
    BY <2>1
  <2>5. IsFiniteSet(Past)
    BY FiniteParts, FS_Subset DEF MetricInv
  <2>6. Cardinality(Past1) = Cardinality(Past) + 1 /\ Cardinality(Past) \in Nat
    BY <2>3, <2>4, <2>5, FS_AddElement, FS_CardinalityType
  <2>7. putCount <= Cardinality(Past) /\ putCount \in Nat
    BY DEF MetricInv, Cells, MetricTypes
  <2>8. putCount' <= Cardinality(Past1)
    BY <2>6, <2>7
  <2>9. Buckets' = Buckets /\ Total(over)' = Total(over)
    BY DEF Buckets
  <2>10. Past1 = {w \in Puts : use[w[1]].at = "over"}'
    BY <1>5
  <2> HIDE DEF Past, Past1
  <2>11. QED BY <1>5, <2>8, <2>9, <2>10 DEF MetricInv, Cells
<1>7. Reading'
  <2>1. \A i \in Buckets : counts[i] \in Nat
    BY DEF MetricInv, MetricTypes
  <2>2. fValue \in Int /\ iValue \in Int
    BY DEF MetricInv, MetricTypes
  <2>3. QED BY <1>3, <1>5, <2>1, <2>2, ReadingKept DEF MetricInv
<1>8. QED BY <1>3, <1>4, <1>6, <1>7 DEF MetricInv

LEMMA SwappedKeeps ==
  ASSUME MetricInv, NEW u \in Users, CompareAndSwap(u), fValue = use[u].cur PROVE MetricInv'
<1> DEFINE x == <<u, use[u].val>>
           s == IF use[u].put THEN "put" ELSE "over"
<1>1. use \in [Users -> Uses] /\ 0 \in Int /\ use[u].at = "swap"
  BY DEF MetricInv, MetricTypes, CompareAndSwap, At
<1>2. use[u] \in Records
  BY <1>1, BeganRecord
<1>3. /\ fValue' = fValue + use[u].val /\ over' = over \cup {x}
      /\ use' = [use EXCEPT ![u].at = s]
      /\ UNCHANGED <<typ, bounds, counts, iValue, putCount, begun, snap>>
  BY DEF CompareAndSwap, Swapped, Goes
<1>4. s \in {"load", "swap", "put", "over"} /\ s \in {"put", "over"}
  OBVIOUS
<1>5. /\ use' \in [Users -> Uses]
      /\ use'[u].at = s
      /\ \A v \in Users : v # u => use'[v] = use[v]
      /\ \A v \in Users : Flag(v)' <=> Flag(v)
      /\ "put" \in DOMAIN use[u] /\ use[u].put \in BOOLEAN
  BY <1>1, <1>3, <1>4, OnUse
<1>6. /\ x \in begun /\ x \notin over /\ \A w \in begun : w[1] = u => w = x
      /\ use[u].val \in Int
  <2>1. use[u].val \in Int
    BY <1>2 DEF Records
  <2>2. x \in begun
    BY <1>1 DEF MetricInv, Operations
  <2>3. QED BY <1>1, <2>1, <2>2 DEF MetricInv, Operations
<1> HIDE DEF x
<1>7. MetricTypes'
  <2>1. fValue' \in Int
    BY <1>3, <1>6 DEF MetricInv, MetricTypes
  <2>2. over' \subseteq begun'
    BY <1>3, <1>6 DEF MetricInv, MetricTypes
  <2>3. QED BY <1>3, <1>5, <2>1, <2>2 DEF MetricInv, MetricTypes, Buckets, Ascending, Snaps
<1>8. Operations'
  <2> USE DEF MetricInv, Operations
  <2>1. \A w \in begun : w[1] \in Users
    BY FiniteParts
  <2>2. \A w \in begun :
          /\ use'[w[1]].at # "new"
          /\ use'[w[1]].at \in {"load", "swap"} <=> w \notin over'
          /\ typ # "gauge" => w[2] \in Nat
    <3> SUFFICES ASSUME NEW w \in begun
                 PROVE  /\ use'[w[1]].at # "new"
                        /\ use'[w[1]].at \in {"load", "swap"} <=> w \notin over'
                        /\ typ # "gauge" => w[2] \in Nat
      OBVIOUS
    <3>1. CASE w = x
      <4>1. w[1] = u
        BY <3>1 DEF x
      <4>2. QED BY <1>3, <1>4, <1>5, <3>1, <4>1
    <3>2. CASE w # x
      <4>1. w[1] # u /\ w[1] \in Users
        BY <1>6, <2>1, <3>2
      <4>2. use'[w[1]] = use[w[1]] /\ (w \in over' <=> w \in over)
        BY <1>3, <1>5, <3>2, <4>1
      <4>3. QED BY <4>2
    <3>3. QED BY <3>1, <3>2
  <2>3. \A v \in Users :
          /\ use'[v].at \in {"load", "swap"} => <<v, use'[v].val>> \in begun
          /\ use'[v].at = "put" => \E w \in begun : w[1] = v
          /\ use'[v].at # "new" => (Flag(v)' <=> typ = "histogram")
          /\ use'[v].at = "put" => typ = "histogram"
    <3> SUFFICES ASSUME NEW v \in Users
                 PROVE  /\ use'[v].at \in {"load", "swap"} => <<v, use'[v].val>> \in begun
                        /\ use'[v].at = "put" => \E w \in begun : w[1] = v
                        /\ use'[v].at # "new" => (Flag(v)' <=> typ = "histogram")
                        /\ use'[v].at = "put" => typ = "histogram"
      OBVIOUS
    <3>1. CASE v = u
      <4>1. Flag(u) <=> typ = "histogram"
        BY <1>1
      <4>2. use[u].put <=> Flag(u)
        BY <1>5 DEF Flag
      <4>3. x \in begun /\ x[1] = u
        BY <1>6 DEF x
      <4>4. use'[u].at = "put" => use[u].put
        BY <1>5
      <4>5. use'[u].at \notin {"load", "swap"}
        BY <1>5
      <4>6. Flag(v)' <=> typ = "histogram"
        BY <1>5, <3>1, <4>1
      <4>7. use'[v].at = "put" => typ = "histogram"
        BY <3>1, <4>1, <4>2, <4>4
      <4>8. QED BY <3>1, <4>3, <4>5, <4>6, <4>7
    <3>2. CASE v # u
      BY <1>5, <3>2
    <3>3. QED BY <3>1, <3>2
  <2>4. typ' = typ /\ begun' = begun
    BY <1>3
  <2>5. QED BY <2>2, <2>3, <2>4
<1>9. Puts' = Puts /\ \A i \in Buckets : InBucket(i)' = InBucket(i)
  BY <1>3, <1>7, <1>8, SamePuts DEF MetricInv
<1>10. x[2] = use[u].val
  BY DEF x
<1>11. Cells'
  <2>1. Total(over') = Total(over) + use[u].val
    <3>1. \A w \in over : w[2] \in Int
      BY FiniteParts DEF MetricInv
    <3>2. IsFiniteSet(over)
      BY FiniteParts DEF MetricInv
    <3>3. QED BY <1>3, <1>6, <1>10, <3>1, <3>2, TotalAdd
  <2>2. Total(over) \in Int /\ fValue \in Int /\ iValue \in Int /\ fValue + iValue = Total(over)
    BY FiniteParts DEF MetricInv, MetricTypes, Cells
  <2>3. fValue' + iValue' = Total(over')
    BY <1>3, <1>6, <2>1, <2>2
  <2> DEFINE Past  == {w \in Puts : use[w[1]].at = "over"}
             Past1 == {w \in Puts : use'[w[1]].at = "over"}
  <2>4. Past \subseteq Past1
    <3>1. \A w \in Puts : w[1] \in Users
      BY FiniteParts DEF MetricInv
    <3>2. QED BY <1>1, <1>5, <3>1
  <2>5. Cardinality(Past) <= Cardinality(Past1) /\ Cardinality(Past) \in Nat /\ Cardinality(Past1) \in Nat
    <3>1. IsFiniteSet(Past1)
      BY FiniteParts, FS_Subset DEF MetricInv
    <3>2. IsFiniteSet(Past)
      BY <2>4, <3>1, FS_Subset
    <3>3. QED BY <2>4, <3>1, <3>2, FS_Subset, FS_CardinalityType
  <2>6. putCount <= Cardinality(Past) /\ putCount \in Nat
    BY DEF MetricInv, Cells, MetricTypes
  <2>7. putCount' <= Cardinality(Past1)
    BY <1>3, <2>5, <2>6
  <2>8. Buckets' = Buckets /\ Total(over)' = Total(over')
    BY <1>3 DEF Buckets
  <2>9. Past1 = {w \in Puts : use[w[1]].at = "over"}'
    BY <1>9
  <2> HIDE DEF Past, Past1
  <2>10. QED BY <1>3, <1>9, <2>3, <2>7, <2>8, <2>9 DEF MetricInv, Cells
<1>12. Reading'
  <2>1. \A i \in Buckets : counts[i] \in Nat
    BY DEF MetricInv, MetricTypes
  <2>2. fValue \in Int /\ iValue \in Int
    BY DEF MetricInv, MetricTypes
  <2>3. typ # "gauge" => use[u].val \in Nat
    BY <1>6, <1>10 DEF MetricInv, Operations
  <2>4. typ # "gauge" => fValue <= fValue'
    BY <1>3, <2>2, <2>3
  <2>5. QED BY <1>3, <1>7, <1>9, <2>1, <2>2, <2>4, ReadingKept DEF MetricInv
<1>13. QED BY <1>7, <1>8, <1>11, <1>12 DEF MetricInv

(* A goroutine begins its operation; a Set drops those that are over.      *)
LEMMA BegunOnce ==
  ASSUME MetricTypes, Operations, NEW u \in Users, use[u].at = "new", NEW v \in Int,
         NEW old \in SUBSET begun, begun \ old \subseteq over, typ = "histogram" => old = begun,
         begun' = old \cup {<<u, v>>}, \A w \in old : w \in over' <=> w \in over,
         UNCHANGED typ, typ # "gauge" => v \in Nat,
         \A w \in Users : w # u => use'[w] = use[w] /\ (Flag(w)' <=> Flag(w)),
         use'[u].at # "new", Flag(u)' <=> typ = "histogram",
         use'[u].at = "put" => typ = "histogram",
         use'[u].at \in {"load", "swap"} => use'[u].val = v,
         use'[u].at \in {"load", "swap"} <=> <<u, v>> \notin over'
  PROVE  Operations' /\ <<u, v>> \notin begun
<1> DEFINE x == <<u, v>>
<1> USE DEF Operations
<1>1. \A w \in begun : w[1] \in Users /\ w[1] # u
  BY FiniteParts
<1>2. x \notin begun
  BY <1>1
<1>3. ASSUME NEW w \in begun'
      PROVE  /\ use'[w[1]].at # "new"
             /\ use'[w[1]].at \in {"load", "swap"} <=> w \notin over'
             /\ typ # "gauge" => w[2] \in Nat
  <2>1. CASE w = x
    BY <2>1
  <2>2. CASE w \in old
    <3>1. w \in begun /\ w[1] # u /\ w[1] \in Users /\ use'[w[1]] = use[w[1]]
      BY <1>1, <2>2
    <3>2. QED BY <2>2, <3>1
  <2>3. QED BY <1>3, <2>1, <2>2
<1>4. ASSUME NEW w \in begun', NEW y \in begun', w[1] = y[1] PROVE w = y
  <2>1. CASE w = x /\ y = x
    BY <2>1
  <2>2. CASE w \in old /\ y \in old
    BY <1>4, <2>2
  <2>3. CASE (w \in old /\ y = x) \/ (y \in old /\ w = x)
    <3>1. x[1] = u
      OBVIOUS
    <3>2. QED BY <1>1, <1>4, <2>3, <3>1
  <2>4. QED BY <2>1, <2>2, <2>3
<1>5. ASSUME NEW w \in Users
      PROVE  /\ use'[w].at \in {"load", "swap"} => <<w, use'[w].val>> \in begun'
             /\ use'[w].at = "put" => \E y \in begun' : y[1] = w
             /\ use'[w].at # "new" => (Flag(w)' <=> typ = "histogram")
             /\ use'[w].at = "put" => typ = "histogram"
  <2>1. CASE w = u
    <3>1. x \in begun' /\ x[1] = u
      OBVIOUS
    <3>2. QED BY <2>1, <3>1
  <2>2. CASE w # u
    <3>1. use'[w] = use[w] /\ (Flag(w)' <=> Flag(w))
      BY <2>2
    <3>2. use[w].at \in {"load", "swap"} => <<w, use[w].val>> \in old
      <4> SUFFICES ASSUME use[w].at \in {"load", "swap"} PROVE <<w, use[w].val>> \in old
        OBVIOUS
      <4> DEFINE y == <<w, use[w].val>>
      <4>1. y \in begun
        OBVIOUS
      <4>2. use[y[1]].at \in {"load", "swap"}
        OBVIOUS
      <4>3. y \notin over
        BY <4>1, <4>2
      <4>4. QED BY <4>1, <4>3
    <3>3. use[w].at = "put" => \E y \in old : y[1] = w
      OBVIOUS
    <3>4. old \subseteq begun'
      OBVIOUS
    <3>5. QED BY <3>1, <3>2, <3>3, <3>4
  <2>3. QED BY <2>1, <2>2
<1>6. QED BY <1>2, <1>3, <1>4, <1>5

(* The operations of counters and gauges leave the counts alone.           *)
LEMMA NoPuts ==
  ASSUME MetricInv, MetricTypes', Operations', typ # "histogram", UNCHANGED <<typ, bounds, counts, putCount>>
  PROVE  /\ \A i \in Buckets : InBucket(i)' = InBucket(i) /\ counts'[i] = Cardinality(InBucket(i)')
         /\ putCount' <= Cardinality({w \in Puts : use[w[1]].at = "over"}')
<1>1. Puts' = Puts /\ \A i \in Buckets : InBucket(i)' = InBucket(i)
  BY SamePuts DEF MetricInv
<1>2. Puts = {}
  BY PutsAre DEF MetricInv
<1>3. {w \in Puts : use[w[1]].at = "over"}' = {} /\ {w \in Puts : use[w[1]].at = "over"} = {}
  BY <1>1, <1>2
<1>4. QED BY <1>1, <1>3 DEF MetricInv, Cells

LEMMA AddKeeps ==
  ASSUME MetricInv, NEW u \in Users, NEW val \in Int, Add(u, val) PROVE MetricInv'
<1>1. /\ use \in [Users -> Uses] /\ use[u].at = "new" /\ typ # "histogram"
      /\ use' = [use EXCEPT ![u] = [at |-> "load", val |-> val, put |-> FALSE, cur |-> 0]]
      /\ begun' = begun \cup {<<u, val>>} /\ (typ # "gauge" => val \in Nat)
      /\ UNCHANGED <<typ, bounds, counts, fValue, iValue, putCount, over, snap>>
  BY DEF Add, At, MetricInv, MetricTypes
<1>2. /\ use' \in [Users -> Uses]
      /\ use'[u].at = "load" /\ use'[u].val = val /\ ~ Flag(u)'
      /\ \A w \in Users : w # u => use'[w] = use[w] /\ (Flag(w)' <=> Flag(w))
  BY <1>1, StartUse
<1>3. <<u, val>> \notin over
  <2>1. \A w \in begun : w[1] # u
    BY <1>1 DEF MetricInv, Operations
  <2>2. over \subseteq begun
    BY DEF MetricInv, MetricTypes
  <2>3. QED BY <2>1, <2>2
<1>4. Operations' /\ <<u, val>> \notin begun
  BY <1>1, <1>2, <1>3, BegunOnce DEF MetricInv
<1>5. MetricTypes'
  <2>1. IsFiniteSet(begun')
    BY <1>1, FS_AddElement DEF MetricInv, MetricTypes
  <2>2. QED BY <1>1, <1>2, <2>1 DEF MetricInv, MetricTypes, Buckets, Ascending, Snaps
<1>6. /\ \A i \in Buckets : InBucket(i)' = InBucket(i) /\ counts'[i] = Cardinality(InBucket(i)')
      /\ putCount' <= Cardinality({w \in Puts : use[w[1]].at = "over"}')
  BY <1>1, <1>4, <1>5, NoPuts
<1>7. Cells'
  <2>1. Buckets' = Buckets /\ Total(over)' = Total(over)
    BY <1>1 DEF Buckets
  <2>2. QED BY <1>1, <1>6, <2>1 DEF MetricInv, Cells
<1>8. Reading'
  <2>1. \A i \in Buckets : counts[i] \in Nat
    BY DEF MetricInv, MetricTypes
  <2>2. fValue \in Int /\ iValue \in Int
    BY DEF MetricInv, MetricTypes
  <2>3. QED BY <1>1, <1>5, <1>6, <2>1, <2>2, ReadingKept DEF MetricInv
<1>9. QED BY <1>4, <1>5, <1>7, <1>8 DEF MetricInv

LEMMA IncKeeps == ASSUME MetricInv, NEW u \in Users, Inc(u) PROVE MetricInv'
<1>1. /\ use \in [Users -> Uses] /\ use[u].at = "new" /\ typ = "counter"
      /\ iValue' = iValue + 1 /\ Goes(u, "over")
      /\ begun' = begun \cup {<<u, 1>>} /\ over' = over \cup {<<u, 1>>}
      /\ UNCHANGED <<typ, bounds, counts, fValue, putCount, snap>>
  BY DEF Inc, At, MetricInv, MetricTypes
<1>2. /\ use' \in [Users -> Uses]
      /\ use'[u].at = "over" /\ ~ Flag(u)'
      /\ \A w \in Users : w # u => use'[w] = use[w] /\ (Flag(w)' <=> Flag(w))
  BY <1>1, EndUse
<1>3. <<u, 1>> \notin begun /\ over \subseteq begun
  <2>1. \A w \in begun : w[1] # u
    BY <1>1 DEF MetricInv, Operations
  <2>2. over \subseteq begun
    BY DEF MetricInv, MetricTypes
  <2>3. QED BY <2>1, <2>2
<1>4. Operations'
  BY <1>1, <1>2, <1>3, BegunOnce DEF MetricInv
<1>5. MetricTypes'
  <2>1. IsFiniteSet(begun')
    BY <1>1, FS_AddElement DEF MetricInv, MetricTypes
  <2>2. iValue' \in Nat /\ begun' \subseteq Users \X Int /\ over' \subseteq begun'
    BY <1>1 DEF MetricInv, MetricTypes
  <2>3. QED BY <1>1, <1>2, <2>1, <2>2 DEF MetricInv, MetricTypes, Buckets, Ascending, Snaps
<1>6. /\ \A i \in Buckets : InBucket(i)' = InBucket(i) /\ counts'[i] = Cardinality(InBucket(i)')
      /\ putCount' <= Cardinality({w \in Puts : use[w[1]].at = "over"}')
  BY <1>1, <1>4, <1>5, NoPuts
<1>7. Total(over') = Total(over) + 1 /\ Total(over) \in Int
  <2>1. IsFiniteSet(over) /\ \A w \in over : w[2] \in Int
    BY FiniteParts DEF MetricInv
  <2>2. <<u, 1>> \notin over /\ <<u, 1>>[2] = 1
    BY <1>3
  <2>3. QED BY <1>1, <2>1, <2>2, TotalAdd
<1>8. Cells'
  <2>1. Buckets' = Buckets /\ Total(over)' = Total(over')
    BY <1>1 DEF Buckets
  <2>2. fValue \in Int /\ iValue \in Int /\ fValue + iValue = Total(over)
    BY DEF MetricInv, MetricTypes, Cells
  <2>3. QED BY <1>1, <1>6, <1>7, <2>1, <2>2 DEF MetricInv, Cells
<1>9. Reading'
  <2>1. \A i \in Buckets : counts[i] \in Nat
    BY DEF MetricInv, MetricTypes
  <2>2. fValue \in Int /\ iValue \in Int
    BY DEF MetricInv, MetricTypes
  <2>3. QED BY <1>1, <1>5, <1>6, <2>1, <2>2, ReadingKept DEF MetricInv
<1>10. QED BY <1>4, <1>5, <1>8, <1>9 DEF MetricInv

LEMMA SetKeeps ==
  ASSUME MetricInv, NEW u \in Users, NEW val \in Int, Set(u, val) PROVE MetricInv'
<1>1. /\ use \in [Users -> Uses] /\ use[u].at = "new" /\ typ = "gauge"
      /\ fValue' = val /\ Goes(u, "over")
      /\ begun' = (begun \ over) \cup {<<u, val>>} /\ over' = {<<u, val>>}
      /\ UNCHANGED <<typ, bounds, counts, iValue, putCount, snap>>
  BY DEF Set, At, MetricInv, MetricTypes
<1>2. /\ use' \in [Users -> Uses]
      /\ use'[u].at = "over" /\ ~ Flag(u)'
      /\ \A w \in Users : w # u => use'[w] = use[w] /\ (Flag(w)' <=> Flag(w))
  BY <1>1, EndUse
<1>3. \A w \in begun : w[1] # u
  BY <1>1 DEF MetricInv, Operations
<1>4. Operations'
  <2> DEFINE old == begun \ over
  <2>1. old \in SUBSET begun /\ begun \ old \subseteq over /\ begun' = old \cup {<<u, val>>}
    BY <1>1
  <2>2. \A w \in old : w \in over' <=> w \in over
    BY <1>1, <1>3
  <2> HIDE DEF old
  <2>3. QED BY <1>1, <1>2, <2>1, <2>2, BegunOnce DEF MetricInv
<1>5. MetricTypes'
  <2>1. IsFiniteSet(begun \ over)
    BY FS_Difference DEF MetricInv, MetricTypes
  <2>2. IsFiniteSet(begun')
    BY <1>1, <2>1, FS_AddElement
  <2>3. QED BY <1>1, <1>2, <2>2 DEF MetricInv, MetricTypes, Buckets, Ascending, Snaps
<1>6. /\ \A i \in Buckets : InBucket(i)' = InBucket(i) /\ counts'[i] = Cardinality(InBucket(i)')
      /\ putCount' <= Cardinality({w \in Puts : use[w[1]].at = "over"}')
  BY <1>1, <1>4, <1>5, NoPuts
<1>7. Total(over') = val
  <2> DEFINE x == <<u, val>>
  <2>1. IsFiniteSet({}) /\ \A w \in {} : w[2] \in Int
    BY FS_EmptySet
  <2>2. x \notin {} /\ x[2] = val /\ {} \cup {x} = over'
    BY <1>1
  <2> HIDE DEF x
  <2>3. Total({} \cup {x}) = Total({}) + val
    BY <2>1, <2>2, TotalAdd
  <2>4. QED BY <2>2, <2>3, TotalEmpty
<1>8. Cells'
  <2>1. Buckets' = Buckets /\ Total(over)' = Total(over')
    BY <1>1 DEF Buckets
  <2>2. iValue = 0
    BY <1>1 DEF MetricInv, Cells
  <2>3. QED BY <1>1, <1>6, <1>7, <2>1, <2>2 DEF Cells
<1>9. Reading'
  BY <1>1, <1>5, ReadingKept DEF MetricInv
<1>10. QED BY <1>4, <1>5, <1>8, <1>9 DEF MetricInv

LEMMA PutKeeps ==
  ASSUME MetricInv, NEW u \in Users, NEW val \in Nat, Put(u, val) PROVE MetricInv'
<1> DEFINE x == <<u, val>>
           s == IF val = 0 THEN "put" ELSE "load"
           k == Bucket(val)
<1>1. /\ use \in [Users -> Uses] /\ use[u].at = "new" /\ typ = "histogram"
      /\ use' = [use EXCEPT ![u] = [at |-> s, val |-> val, put |-> TRUE, cur |-> 0]]
      /\ counts' = [counts EXCEPT ![k] = @ + 1]
      /\ begun' = begun \cup {x}
      /\ over' = IF val = 0 THEN over \cup {x} ELSE over
      /\ UNCHANGED <<typ, bounds, fValue, iValue, putCount, snap>>
  BY DEF Put, At, MetricInv, MetricTypes
<1>2. s \in {"load", "put"} /\ TRUE \in BOOLEAN /\ val \in Int /\ (s = "put" <=> val = 0)
  OBVIOUS
<1>3. /\ use' \in [Users -> Uses]
      /\ use'[u].at = s /\ use'[u].val = val /\ Flag(u)'
      /\ \A w \in Users : w # u => use'[w] = use[w] /\ (Flag(w)' <=> Flag(w))
  <2> HIDE DEF s
  <2>1. QED BY <1>1, <1>2, StartUse
<1>4. x \notin begun /\ x \notin over /\ \A w \in begun : w[1] # u
  <2>1. \A w \in begun : w[1] # u
    BY <1>1 DEF MetricInv, Operations
  <2>2. over \subseteq begun
    BY DEF MetricInv, MetricTypes
  <2>3. QED BY <2>1, <2>2
<1>5. k \in Buckets /\ \A i \in Buckets : Within(i, val) <=> i = k
  <2> HIDE DEF k
  <2>1. QED BY BucketRight DEF MetricInv, MetricTypes, k
<1> HIDE DEF k
<1>6. Operations'
  <2>1. s \in {"load", "swap"} <=> x \notin over'
    BY <1>1, <1>4
  <2>2. \A w \in begun : w \in over' <=> w \in over
    BY <1>1, <1>4
  <2> HIDE DEF s
  <2>3. QED BY <1>1, <1>2, <1>3, <2>1, <2>2, BegunOnce DEF MetricInv
<1>7. MetricTypes'
  <2>1. IsFiniteSet(begun')
    BY <1>1, FS_AddElement DEF MetricInv, MetricTypes
  <2>2. counts' \in [Buckets' -> Nat]
    <3>1. counts \in [Buckets -> Nat] /\ counts[k] + 1 \in Nat
      BY <1>5 DEF MetricInv, MetricTypes
    <3>2. Buckets' = Buckets
      BY <1>1 DEF Buckets
    <3>3. QED BY <1>1, <3>1, <3>2
  <2>3. begun' \subseteq Users \X Int /\ over' \subseteq begun'
    BY <1>1 DEF MetricInv, MetricTypes
  <2>4. QED BY <1>1, <1>3, <2>1, <2>2, <2>3 DEF MetricInv, MetricTypes, Ascending, Snaps
<1>8. Puts = begun /\ Puts' = begun'
  <2>1. Puts = begun
    BY <1>1, PutsAre DEF MetricInv
  <2>2. (MetricTypes /\ Operations => Puts = IF typ = "histogram" THEN begun ELSE {})'
    BY PutsAre, PTL
  <2>3. Puts' = begun'
    BY <1>1, <1>6, <1>7, <2>2
  <2>4. QED BY <2>1, <2>3
<1>9. \A i \in Buckets : InBucket(i)' = InBucket(i) \cup (IF i = k THEN {x} ELSE {})
  <2>1. \A i : InBucket(i)' = {w \in begun \cup {x} : Within(i, w[2])}
    BY <1>1, <1>8 DEF InBucket, Within
  <2>2. \A i : InBucket(i) = {w \in begun : Within(i, w[2])}
    BY <1>8 DEF InBucket
  <2>3. x[2] = val
    OBVIOUS
  <2> HIDE DEF x
  <2>4. QED BY <1>5, <2>1, <2>2, <2>3
<1>10. \A i \in Buckets :
         /\ counts[i] \in Nat /\ counts[i] <= counts'[i]
         /\ counts'[i] = Cardinality(InBucket(i)')
         /\ InBucket(i)' \cap over = InBucket(i) \cap over
  <2> SUFFICES ASSUME NEW i \in Buckets
               PROVE  /\ counts[i] \in Nat /\ counts[i] <= counts'[i]
                      /\ counts'[i] = Cardinality(InBucket(i)')
                      /\ InBucket(i)' \cap over = InBucket(i) \cap over
    OBVIOUS
  <2>1. counts[i] \in Nat /\ counts'[i] = (IF i = k THEN counts[i] + 1 ELSE counts[i])
    BY <1>1, <1>5 DEF MetricInv, MetricTypes
  <2>2. IsFiniteSet(InBucket(i)) /\ counts[i] = Cardinality(InBucket(i)) /\ InBucket(i) \subseteq begun
    BY FiniteParts DEF MetricInv, Cells, InBucket, Puts
  <2>3. x \notin InBucket(i)
    BY <1>4, <2>2
  <2>4. Cardinality(InBucket(i) \cup {x}) = Cardinality(InBucket(i)) + 1
    BY <2>2, <2>3, FS_AddElement
  <2>5. counts'[i] = Cardinality(InBucket(i)')
    BY <1>9, <2>1, <2>2, <2>4
  <2>6. InBucket(i)' \cap over = InBucket(i) \cap over
    BY <1>4, <1>9
  <2>7. QED BY <2>1, <2>5, <2>6
<1>11. Cells'
  <2>1. Total(over') = Total(over)
    <3>1. CASE val = 0
      <4>1. IsFiniteSet(over) /\ (\A w \in over : w[2] \in Int) /\ Total(over) \in Int
        BY FiniteParts DEF MetricInv
      <4>2. x[2] = 0
        BY <3>1
      <4> HIDE DEF x
      <4>3. QED BY <1>1, <1>4, <3>1, <4>1, <4>2, TotalAdd
    <3>2. CASE val # 0
      BY <1>1, <3>2
    <3>3. QED BY <3>1, <3>2
  <2> DEFINE Past  == {w \in Puts : use[w[1]].at = "over"}
             Past1 == {w \in Puts' : use'[w[1]].at = "over"}
  <2>2. Past \subseteq Past1
    <3>1. \A w \in begun : w[1] \in Users /\ w[1] # u
      BY <1>4, FiniteParts DEF MetricInv
    <3>2. begun \subseteq begun'
      BY <1>1
    <3>3. QED BY <1>3, <1>8, <3>1, <3>2
  <2>3. Cardinality(Past) <= Cardinality(Past1) /\ Cardinality(Past) \in Nat /\ Cardinality(Past1) \in Nat
    <3>1. IsFiniteSet(Puts')
      BY <1>7, <1>8 DEF MetricTypes
    <3>2. IsFiniteSet(Past1)
      BY <3>1, FS_Subset
    <3>3. IsFiniteSet(Past)
      BY <2>2, <3>2, FS_Subset
    <3>4. QED BY <2>2, <3>2, <3>3, FS_Subset, FS_CardinalityType
  <2>4. putCount <= Cardinality(Past) /\ putCount \in Nat
    BY DEF MetricInv, Cells, MetricTypes
  <2>5. putCount' <= Cardinality(Past1)
    BY <1>1, <2>3, <2>4
  <2>6. Buckets' = Buckets /\ Total(over)' = Total(over')
    BY <1>1 DEF Buckets
  <2>7. Past1 = {w \in Puts : use[w[1]].at = "over"}'
    OBVIOUS
  <2> HIDE DEF Past, Past1
  <2>8. QED BY <1>1, <1>10, <2>1, <2>5, <2>6, <2>7 DEF MetricInv, Cells
<1>12. Reading'
  <2>1. snap.before \subseteq over
    BY <1>1 DEF MetricInv, Reading
  <2>2. \A i \in Buckets : InBucket(i)' \cap snap.before = InBucket(i) \cap snap.before
    BY <1>10, <2>1
  <2>3. over \subseteq over' /\ fValue \in Int /\ iValue \in Int
    BY <1>1 DEF MetricInv, MetricTypes
  <2>4. QED BY <1>1, <1>7, <1>10, <2>2, <2>3, ReadingKept DEF MetricInv
<1>13. QED BY <1>6, <1>7, <1>11, <1>12 DEF MetricInv

(* The steps of a snapshot change nothing else.                            *)
LEMMA SnapOnly ==
  ASSUME MetricInv, snap' \in Snaps, Reading',
         UNCHANGED <<typ, bounds, counts, fValue, iValue, putCount, use, begun, over>>
  PROVE  MetricInv'
<1>1. MetricTypes'
  BY DEF MetricInv, MetricTypes, Buckets, Ascending
<1>2. \A v \in Users : Flag(v)' <=> Flag(v)
  BY DEF Flag
<1>3. Operations'
  BY <1>2 DEF MetricInv, Operations
<1>4. Puts' = Puts /\ \A i \in Buckets : InBucket(i)' = InBucket(i)
  BY <1>1, <1>3, SamePuts DEF MetricInv
<1>5. Buckets' = Buckets /\ Total(over)' = Total(over)
  BY DEF Buckets
<1>6. Cells'
  BY <1>4, <1>5 DEF MetricInv, Cells
<1>7. QED BY <1>1, <1>3, <1>6 DEF MetricInv

LEMMA SnapshotKeeps == ASSUME MetricInv, Snapshot PROVE MetricInv'
<1>1. /\ snap.at = "none" /\ snap \in Snaps
      /\ snap' = [snap EXCEPT !.at = "counts", !.before = over]
      /\ UNCHANGED <<typ, bounds, counts, fValue, iValue, putCount, use, begun, over>>
  BY DEF Snapshot, MetricInv, MetricTypes
<1>2. snap'.at = "counts" /\ snap'.before = over /\ snap'.counts = snap.counts /\ snap'.next = snap.next
  BY <1>1 DEF Snaps
<1>3. snap' \in Snaps
  <2>1. over \in SUBSET (Users \X Int)
    BY DEF MetricInv, MetricTypes
  <2>2. QED BY <1>1, <2>1 DEF Snaps
<1>4. snap.next = 0 /\ Len(snap.counts) = 0
  BY <1>1 DEF MetricInv, Reading
<1>5. Buckets' = Buckets /\ bounds' = bounds /\ over' = over /\ Len(bounds) \in Nat
  BY <1>1 DEF Buckets, MetricInv, MetricTypes
<1>6. \A i \in Buckets : ~ (i < 0)
  BY DEF Buckets
<1>7. Reading'
  BY <1>2, <1>4, <1>5, <1>6 DEF Reading
<1>8. QED BY <1>1, <1>3, <1>7, SnapOnly

LEMMA LoadCountKeeps == ASSUME MetricInv, LoadCount PROVE MetricInv'
<1> DEFINE n == snap.next
<1>1. /\ snap.at = "counts" /\ n \in Buckets /\ snap \in Snaps
      /\ snap' = [snap EXCEPT !.counts = Append(@, counts[n]), !.next = @ + 1]
      /\ UNCHANGED <<typ, bounds, counts, fValue, iValue, putCount, use, begun, over>>
  BY DEF LoadCount, MetricInv, MetricTypes
<1>2. /\ snap.counts \in Seq(Nat) /\ counts[n] \in Nat /\ Len(bounds) \in Nat /\ n \in Nat
      /\ Len(snap.counts) = n /\ n <= Len(bounds)
  BY <1>1 DEF MetricInv, MetricTypes, Snaps, Reading, Buckets
<1>3. /\ snap'.at = "counts" /\ snap'.before = snap.before /\ snap'.next = n + 1
      /\ snap'.counts = Append(snap.counts, counts[n])
  BY <1>1 DEF Snaps
<1>4. /\ snap'.counts \in Seq(Nat) /\ Len(snap'.counts) = n + 1
      /\ \A j \in 1 .. n : snap'.counts[j] = snap.counts[j]
      /\ snap'.counts[n + 1] = counts[n]
  BY <1>2, <1>3
<1>5. snap' \in Snaps
  <2> DEFINE c == Append(snap.counts, counts[n])
             m == n + 1
  <2>1. c \in Seq(Nat) /\ m \in Nat
    BY <1>2
  <2>2. snap' = [snap EXCEPT !.counts = c, !.next = m]
    BY <1>1
  <2> HIDE DEF c, m
  <2>3. QED BY <1>1, <2>1, <2>2 DEF Snaps
<1>6. Buckets' = Buckets
  BY <1>1 DEF Buckets
<1>7. \A i \in Buckets : InBucket(i)' = InBucket(i)
  BY <1>1 DEF InBucket, Puts, Within
<1>8. ASSUME typ # "gauge", NEW i \in Buckets, i < n + 1
      PROVE  /\ Cardinality(InBucket(i) \cap snap.before) <= snap'.counts[i + 1]
             /\ snap'.counts[i + 1] <= counts[i]
  <2>1. counts[i] \in Nat /\ i \in Nat
    BY DEF MetricInv, MetricTypes, Buckets
  <2>2. CASE i < n
    <3>1. Cardinality(InBucket(i) \cap snap.before) <= snap.counts[i + 1] /\ snap.counts[i + 1] <= counts[i]
      BY <1>8, <2>2 DEF MetricInv, Reading
    <3>2. i + 1 \in 1 .. n
      BY <1>2, <2>1, <2>2
    <3>3. QED BY <1>4, <3>1, <3>2
  <2>3. CASE i = n
    <3>1. IsFiniteSet(InBucket(i)) /\ counts[i] = Cardinality(InBucket(i))
      BY FiniteParts DEF MetricInv, Cells
    <3>2. Cardinality(InBucket(i) \cap snap.before) <= counts[i]
      BY <3>1, FS_Intersection
    <3>3. QED BY <1>4, <2>1, <2>3, <3>2
  <2>4. QED BY <1>2, <1>8, <2>1, <2>2, <2>3
<1>9. Reading'
  <2>1. Len(snap'.counts) = snap'.next /\ snap'.next <= Len(bounds) + 1
    BY <1>2, <1>3, <1>4
  <2>2. typ # "gauge" => snap'.before \subseteq over
    BY <1>3 DEF MetricInv, Reading
  <2>3. \A i \in Buckets : typ # "gauge" /\ i < snap'.next =>
          /\ Cardinality(InBucket(i) \cap snap'.before) <= snap'.counts[i + 1]
          /\ snap'.counts[i + 1] <= counts[i]
    BY <1>3, <1>8
  <2>4. bounds' = bounds /\ typ' = typ /\ over' = over /\ counts' = counts
    BY <1>1
  <2>5. snap'.at = "counts"
    BY <1>3
  <2>6. QED BY <1>6, <1>7, <2>1, <2>2, <2>3, <2>4, <2>5 DEF Reading
<1>10. QED BY <1>1, <1>5, <1>9, SnapOnly

LEMMA LoadFloatKeeps == ASSUME MetricInv, LoadFloat PROVE MetricInv'
<1>1. /\ snap.at = "counts" /\ snap.next \notin Buckets /\ snap \in Snaps
      /\ snap' = [snap EXCEPT !.at = "float", !.value = fValue]
      /\ UNCHANGED <<typ, bounds, counts, fValue, iValue, putCount, use, begun, over>>
  BY DEF LoadFloat, MetricInv, MetricTypes
<1>2. /\ snap'.at = "float" /\ snap'.before = snap.before /\ snap'.next = snap.next
      /\ snap'.counts = snap.counts /\ snap'.value = fValue
  BY <1>1 DEF Snaps
<1>3. fValue \in Int /\ iValue \in Int /\ Len(bounds) \in Nat /\ snap.next \in Nat /\ fValue + iValue = Total(over)
  BY <1>1 DEF MetricInv, MetricTypes, Snaps, Cells
<1>4. snap' \in Snaps
  BY <1>1, <1>3 DEF Snaps
<1>5. snap.next = Len(bounds) + 1
  BY <1>1, <1>3 DEF Buckets, MetricInv, Reading
<1>6. typ # "gauge" => Total(snap.before) <= fValue + iValue
  <2> SUFFICES ASSUME typ # "gauge" PROVE Total(snap.before) <= fValue + iValue
    OBVIOUS
  <2>1. snap.before \in SUBSET over
    BY DEF MetricInv, Reading
  <2>2. IsFiniteSet(over) /\ \A w \in over : w[2] \in Nat
    BY FiniteParts DEF MetricInv, Operations
  <2>3. QED BY <1>3, <2>1, <2>2, TotalMono
<1>7. Buckets' = Buckets /\ \A i \in Buckets : InBucket(i)' = InBucket(i)
  BY <1>1 DEF Buckets, InBucket, Puts, Within
<1>8. Reading'
  BY <1>1, <1>2, <1>3, <1>5, <1>6, <1>7 DEF MetricInv, Reading
<1>9. QED BY <1>1, <1>4, <1>8, SnapOnly

LEMMA LoadIntKeeps == ASSUME MetricInv, LoadInt PROVE MetricInv'
<1>1. /\ snap.at = "float" /\ snap \in Snaps
      /\ snap' = [snap EXCEPT !.at = "done", !.value = @ + iValue]
      /\ UNCHANGED <<typ, bounds, counts, fValue, iValue, putCount, use, begun, over>>
  BY DEF LoadInt, MetricInv, MetricTypes
<1>2. /\ snap'.at = "done" /\ snap'.before = snap.before /\ snap'.next = snap.next
      /\ snap'.counts = snap.counts /\ snap'.value = snap.value + iValue
  BY <1>1 DEF Snaps
<1>3. fValue \in Int /\ iValue \in Int /\ snap.value \in Int
  BY <1>1 DEF MetricInv, MetricTypes, Snaps
<1>4. snap' \in Snaps
  <2> DEFINE v == snap.value + iValue
  <2>1. v \in Int /\ snap' = [snap EXCEPT !.at = "done", !.value = v]
    BY <1>1, <1>3
  <2> HIDE DEF v
  <2>2. QED BY <1>1, <2>1 DEF Snaps
<1>5. Buckets' = Buckets /\ \A i \in Buckets : InBucket(i)' = InBucket(i)
  BY <1>1 DEF Buckets, InBucket, Puts, Within
<1>6. typ # "gauge" => Total(snap.before) <= snap.value + iValue /\ snap.value + iValue <= fValue + iValue
  BY <1>1, <1>3 DEF MetricInv, Reading
<1>7. Reading'
  BY <1>1, <1>2, <1>5, <1>6 DEF MetricInv, Reading
<1>8. QED BY <1>1, <1>4, <1>7, SnapOnly

(* A new metric has no operation and no snapshot.                          *)
LEMMA MetricStarts == MetricInit => MetricInv
<1> SUFFICES ASSUME MetricInit PROVE MetricInv
  OBVIOUS
<1> USE DEF MetricInit
<1>1. typ \in {"counter", "gauge", "histogram"} /\ bounds \in Seq(Nat) /\ Ascending(bounds)
  <2>1. CASE typ = "histogram"
    BY <2>1, MetricAssumption
  <2>2. CASE typ # "histogram"
    <3>1. bounds = <<>>
      BY <2>2
    <3>2. QED BY <3>1 DEF Ascending
  <2>3. QED BY <2>1, <2>2
<1>2. snap \in Snaps /\ snap.at = "none" /\ snap.next = 0 /\ snap.before = {} /\ snap.counts = <<>>
  BY DEF NoSnap, Snaps
<1>3. use \in [Users -> Uses] /\ \A u \in Users : use[u].at = "new"
  BY DEF Uses
<1>4. MetricTypes
  BY <1>1, <1>2, <1>3, FS_EmptySet DEF MetricTypes
<1>5. Operations
  BY <1>3 DEF Operations
<1>6. Puts = {} /\ \A i : InBucket(i) = {}
  BY DEF Puts, InBucket
<1>7. {w \in Puts : use[w[1]].at = "over"} = {} /\ Cardinality({}) = 0
  BY <1>6, FS_EmptySet
<1>8. Cells
  <2>1. Total(over) = 0 /\ fValue = 0 /\ iValue = 0 /\ putCount = 0
    BY TotalEmpty
  <2>2. \A i \in Buckets : counts[i] = 0 /\ Cardinality(InBucket(i)) = 0
    BY <1>6, <1>7
  <2> DEFINE Past == {w \in Puts : use[w[1]].at = "over"}
  <2>3. Cardinality(Past) = 0
    BY <1>7
  <2>4. putCount <= Cardinality(Past)
    BY <2>1, <2>3
  <2>5. fValue + iValue = Total(over)
    BY <2>1
  <2> HIDE DEF MetricInit
  <2>6. QED BY <2>1, <2>2, <2>4, <2>5 DEF Cells
<1>9. Reading
  BY <1>1, <1>2 DEF Reading, Buckets
<1>10. QED BY <1>4, <1>5, <1>8, <1>9 DEF MetricInv

LEMMA MetricKept == MetricInv /\ [MetricStep]_metricVars => MetricInv'
<1> SUFFICES ASSUME MetricInv, [MetricStep]_metricVars PROVE MetricInv'
  OBVIOUS
<1>1. ASSUME NEW u \in Users, Load(u) PROVE MetricInv'
  <2>1. fValue \in Int
    BY DEF MetricInv, MetricTypes
  <2>2. QED BY <1>1, <2>1, Retried DEF Load, At
<1>2. ASSUME NEW u \in Users, CompareAndSwap(u) PROVE MetricInv'
  <2>1. CASE fValue = use[u].cur
    BY <1>2, <2>1, SwappedKeeps
  <2>2. CASE fValue # use[u].cur
    <3>1. /\ use[u].at = "swap" /\ use' = [use EXCEPT ![u].at = "load"]
          /\ UNCHANGED <<typ, bounds, counts, fValue, iValue, putCount, begun, over, snap>>
      BY <1>2, <2>2 DEF CompareAndSwap, At, Goes
    <3>2. 0 \in Int /\ "load" \in {"load", "swap"}
      OBVIOUS
    <3>3. QED BY <3>1, <3>2, Retried
  <2>3. QED BY <2>1, <2>2
<1>3. ASSUME NEW u \in Users, NEW val \in Values, Put(u, val) \/ Add(u, val) \/ Add(u, -val) \/ Set(u, val)
      PROVE  MetricInv'
  <2>1. val \in Nat /\ val \in Int /\ -val \in Int
    BY MetricAssumption
  <2>2. QED BY <1>3, <2>1, PutKeeps, AddKeeps, SetKeeps
<1>4. CASE UNCHANGED metricVars
  <2>1. UNCHANGED <<typ, bounds, counts, fValue, iValue, putCount, use, begun, over>> /\ snap' = snap
    BY <1>4 DEF metricVars
  <2>2. snap' \in Snaps
    BY <2>1 DEF MetricInv, MetricTypes
  <2>3. Reading'
    <3>1. Buckets' = Buckets /\ \A i \in Buckets : InBucket(i)' = InBucket(i)
      BY <2>1 DEF Buckets, InBucket, Puts, Within
    <3>2. QED BY <2>1, <3>1 DEF MetricInv, Reading
  <2>4. QED BY <2>1, <2>2, <2>3, SnapOnly
<1>5. QED BY <1>1, <1>2, <1>3, <1>4, CountedKeeps, IncKeeps, SnapshotKeeps, LoadCountKeeps, LoadFloatKeeps, LoadIntKeeps
          DEF MetricStep

LEMMA NothingIsLost == MetricInv => NothingLost
<1> SUFFICES ASSUME MetricInv PROVE NothingLost
  OBVIOUS
<1>1. /\ IsFiniteSet(Puts) /\ putCount \in Nat
      /\ putCount <= Cardinality({w \in Puts : use[w[1]].at = "over"})
  BY FiniteParts DEF MetricInv, MetricTypes, Cells
<1>2. putCount <= Cardinality(Puts)
  <2> DEFINE Past == {w \in Puts : use[w[1]].at = "over"}
  <2>1. Past \subseteq Puts /\ IsFiniteSet(Past)
    BY <1>1, FS_Subset
  <2>2. Cardinality(Past) <= Cardinality(Puts) /\ Cardinality(Past) \in Nat /\ Cardinality(Puts) \in Nat
    BY <1>1, <2>1, FS_Subset, FS_CardinalityType
  <2>3. QED BY <1>1, <2>2
<1>3. \A i \in Buckets : counts[i] = Cardinality({w \in Puts : Within(i, w[2])})
  BY DEF MetricInv, Cells, InBucket
<1>4. fValue + iValue = Total(over)
  BY DEF MetricInv, Cells
<1>5. ASSUME snap.at = "done", typ # "gauge"
      PROVE  /\ Total(snap.before) <= snap.value /\ snap.value <= Total(over)
             /\ \A i \in Buckets :
                  /\ Cardinality({w \in snap.before \cap Puts : Within(i, w[2])}) <= snap.counts[i + 1]
                  /\ snap.counts[i + 1] <= counts[i]
  <2>1. Total(snap.before) <= snap.value /\ snap.value <= Total(over)
    BY <1>4, <1>5 DEF MetricInv, Reading
  <2>2. \A i \in Buckets : i < snap.next
    BY <1>5 DEF MetricInv, MetricTypes, Reading, Buckets
  <2>3. \A i : {w \in snap.before \cap Puts : Within(i, w[2])} = InBucket(i) \cap snap.before
    BY DEF InBucket
  <2>4. QED BY <1>5, <2>1, <2>2, <2>3 DEF MetricInv, Reading
<1>6. QED BY <1>2, <1>3, <1>4, <1>5 DEF NothingLost

(* No update is lost: the cells hold what is over, whatever goroutines     *)
(* meet, and a snapshot shows no less than what was over when it began     *)
(* and no more than what its cells held since (metrics.go 68-166).         *)
THEOREM NothingLostCorrect == MetricSpec => []NothingLost
<1>1. MetricSpec => []MetricInv
  BY MetricStarts, MetricKept, PTL DEF MetricSpec
<1>2. QED BY <1>1, NothingIsLost, PTL

-----------------------------------------------------------------------------
(* Slices and buffers.                                                     *)

(* A function on 0 .. W that is defined by recursion.                      *)
LEMMA Recursion ==
  ASSUME NEW W \in Nat, NEW a \in Nat, NEW F \in [(1 .. W) \X Nat -> Nat]
  PROVE  \E g \in [0 .. W -> Nat] : g[0] = a /\ \A n \in 1 .. W : g[n] = F[<<n, g[n - 1]>>]
<1> DEFINE Solves(g, m) == g \in [0 .. m -> Nat] /\ g[0] = a /\ \A n \in 1 .. m : g[n] = F[<<n, g[n - 1]>>]
           T == {m \in Nat : m <= W => \E g : Solves(g, m)}
<1>1. 0 \in T
  <2>1. Solves([n \in 0 .. 0 |-> a], 0)
    OBVIOUS
  <2> HIDE DEF Solves
  <2>2. QED BY <2>1
<1>2. ASSUME NEW m \in Nat \cap T PROVE m + 1 \in T
  <2> HIDE DEF Solves
  <2>a. m \in Nat /\ m + 1 \in Nat
    OBVIOUS
  <2> SUFFICES ASSUME m + 1 <= W PROVE \E g : Solves(g, m + 1)
    BY <2>a
  <2>1. PICK g : Solves(g, m)
    BY <2>a
  <2> USE DEF Solves
  <2> DEFINE h == [n \in 0 .. m + 1 |-> IF n = m + 1 THEN F[<<n, g[m]>>] ELSE g[n]]
  <2>2. \A n \in 0 .. m : n \in 0 .. m + 1 /\ n # m + 1 /\ h[n] = g[n]
    OBVIOUS
  <2>3. g[m] \in Nat /\ F[<<m + 1, g[m]>>] \in Nat /\ h[m + 1] = F[<<m + 1, g[m]>>]
    BY <2>1
  <2>4. h \in [0 .. m + 1 -> Nat]
    BY <2>1, <2>3
  <2>5. ASSUME NEW n \in 1 .. m + 1 PROVE h[n] = F[<<n, h[n - 1]>>]
    <3>1. CASE n = m + 1
      BY <2>2, <2>3, <3>1
    <3>2. CASE n \in 1 .. m
      BY <2>1, <2>2, <3>2
    <3>3. QED BY <2>5, <3>1, <3>2
  <2>6. h[0] = a
    BY <2>1, <2>2
  <2> HIDE DEF h
  <2>7. Solves(h, m + 1)
    BY <2>4, <2>5, <2>6
  <2> HIDE DEF Solves
  <2>8. QED BY <2>7
<1> HIDE DEF T
<1>3. W \in T
  BY <1>1, <1>2, Counting
<1>4. PICK g : Solves(g, W)
  BY <1>3 DEF T
<1>5. QED BY <1>4

(* The recursive definition of Pow2 has a solution.                        *)
LEMMA PowSolved ==
  ASSUME SizesAssumption
  PROVE  /\ Pow2 \in [0 .. WordBits -> Nat] /\ Pow2[0] = 1
         /\ \A n \in 1 .. WordBits : Pow2[n] = 2 * Pow2[n - 1]
<1> DEFINE W == WordBits
           F == [p \in (1 .. W) \X Nat |-> 2 * p[2]]
           Solves(g) == g = [i \in 0 .. W |-> IF i = 0 THEN 1 ELSE 2 * g[i - 1]]
<1>1. W \in Nat
  BY DEF SizesAssumption
<1>2. F \in [(1 .. W) \X Nat -> Nat] /\ 1 \in Nat
  OBVIOUS
<1>3. \A n \in 1 .. W, k \in Nat : F[<<n, k>>] = 2 * k
  OBVIOUS
<1> HIDE DEF F
<1>4. PICK g \in [0 .. W -> Nat] : g[0] = 1 /\ \A n \in 1 .. W : g[n] = F[<<n, g[n - 1]>>]
  <2>2. \A a \in Nat : \A G \in [(1 .. W) \X Nat -> Nat] :
          \E g \in [0 .. W -> Nat] : g[0] = a /\ \A n \in 1 .. W : g[n] = G[<<n, g[n - 1]>>]
    BY <1>1, Recursion, Zenon
  <2>3. 1 \in Nat
    OBVIOUS
  <2>4. \A G \in [(1 .. W) \X Nat -> Nat] :
          \E g \in [0 .. W -> Nat] : g[0] = 1 /\ \A n \in 1 .. W : g[n] = G[<<n, g[n - 1]>>]
    BY <2>2, <2>3, Zenon
  <2>5. F \in [(1 .. W) \X Nat -> Nat]
    BY <1>2
  <2>6. QED BY <2>4, <2>5, Zenon
<1>5. \A n \in 0 .. W : n # 0 => g[n] = 2 * g[n - 1]
  <2> SUFFICES ASSUME NEW n \in 0 .. W, n # 0 PROVE g[n] = 2 * g[n - 1]
    OBVIOUS
  <2>1. n \in 1 .. W /\ n - 1 \in 0 .. W
    BY <1>1
  <2>2. g[n - 1] \in Nat /\ g[n] = F[<<n, g[n - 1]>>]
    BY <1>4, <2>1
  <2>3. QED BY <1>3, <2>1, <2>2, Zenon
<1>6. Solves(g)
  <2>1. \A i \in 0 .. W : g[i] = IF i = 0 THEN 1 ELSE 2 * g[i - 1]
    BY <1>4, <1>5
  <2>2. g = [i \in 0 .. W |-> g[i]]
    BY <1>4
  <2>3. QED BY <2>1, <2>2, Zenon
<1>7. \E f : Solves(f)
  <2> HIDE DEF Solves
  <2>1. QED BY <1>6
<1>8. Solves(Pow2)
  <2> HIDE DEF Solves
  <2>1. Solves(CHOOSE f : Solves(f))
    BY <1>7, Zenon
  <2>2. QED BY <2>1, Zenon DEF Pow2, Solves
<1>9. Pow2 = [i \in 0 .. W |-> IF i = 0 THEN 1 ELSE 2 * Pow2[i - 1]]
  BY <1>8
<1> DEFINE T == {n \in Nat : n <= W => Pow2[n] \in Nat}
<1>10. Pow2[0] = 1 /\ \A n \in 1 .. W : Pow2[n] = 2 * Pow2[n - 1]
  <2> HIDE DEF Solves
  <2>1. \A i \in 0 .. W : Pow2[i] = IF i = 0 THEN 1 ELSE 2 * Pow2[i - 1]
    BY <1>9, Zenon
  <2>2. 0 \in 0 .. W /\ \A n \in 1 .. W : n \in 0 .. W /\ n # 0
    BY <1>1
  <2>3. QED BY <2>1, <2>2, Zenon
<1>11. \A n \in 0 .. W : Pow2[n] \in Nat
  <2>1. 0 \in T
    BY <1>10
  <2>2. ASSUME NEW n \in Nat \cap T PROVE n + 1 \in T
    <3> HIDE DEF Solves
    <3> SUFFICES ASSUME n + 1 <= W PROVE Pow2[n + 1] \in Nat
      OBVIOUS
    <3>1. n <= W /\ n + 1 \in 1 .. W /\ (n + 1) - 1 = n
      BY <1>1
    <3>2. Pow2[n] \in Nat
      BY <3>1
    <3>3. Pow2[n + 1] = 2 * Pow2[n]
      BY <1>10, <3>1
    <3>4. QED BY <3>2, <3>3
  <2> HIDE DEF T
  <2>3. Nat \subseteq T
    BY <2>1, <2>2, Counting
  <2>4. QED BY <1>1, <2>3 DEF T
<1>12. Pow2 \in [0 .. W -> Nat]
  <2>1. Pow2 = [i \in 0 .. W |-> Pow2[i]]
    BY <1>9
  <2>2. QED BY <1>11, <2>1
<1>13. QED BY <1>10, <1>12

(* The powers are naturals that at least double.                           *)
LEMMA PowFacts ==
  ASSUME SizesAssumption
  PROVE  /\ WordBits \in Nat /\ WordBits > 0
         /\ \A n \in 0 .. WordBits : Pow2[n] \in Nat /\ n < Pow2[n]
         /\ Pow2[0] = 1 /\ \A n \in 1 .. WordBits : Pow2[n] = 2 * Pow2[n - 1]
         /\ \A i, j \in 0 .. WordBits : i < j => 2 * Pow2[i] <= Pow2[j]
<1> DEFINE W == WordBits
<1>1. W \in Nat /\ W > 0
  BY DEF SizesAssumption
<1>2. /\ \A n \in 0 .. W : Pow2[n] \in Nat
      /\ Pow2[0] = 1 /\ \A n \in 1 .. W : Pow2[n] = 2 * Pow2[n - 1]
  BY PowSolved
<1> HIDE DEF W
<1>3. \A n \in 0 .. W : n < Pow2[n]
  <2> DEFINE T == {n \in Nat : n <= W => n < Pow2[n]}
  <2>1. 0 \in T
    BY <1>2
  <2>2. ASSUME NEW n \in Nat \cap T PROVE n + 1 \in T
    <3> SUFFICES ASSUME n + 1 <= W PROVE n + 1 < Pow2[n + 1]
      OBVIOUS
    <3>1. n \in 0 .. W /\ n + 1 \in 1 .. W /\ (n + 1) - 1 = n /\ n < Pow2[n]
      BY <1>1
    <3>2. Pow2[n] \in Nat /\ Pow2[n + 1] = 2 * Pow2[n]
      BY <1>2, <3>1
    <3>3. QED BY <3>1, <3>2
  <2> HIDE DEF T
  <2>3. Nat \subseteq T
    BY <2>1, <2>2, Counting
  <2>4. QED BY <1>1, <2>3 DEF T
<1>4. \A i, j \in 0 .. W : i < j => 2 * Pow2[i] <= Pow2[j]
  <2> DEFINE T == {n \in Nat : \A i \in 0 .. W : i + n + 1 <= W => 2 * Pow2[i] <= Pow2[i + n + 1]}
  <2>1. 0 \in T
    <3> SUFFICES ASSUME NEW i \in 0 .. W, i + 1 <= W PROVE 2 * Pow2[i] <= Pow2[i + 1]
      OBVIOUS
    <3>1. i + 1 \in 1 .. W /\ (i + 1) - 1 = i
      BY <1>1
    <3>2. QED BY <1>2, <3>1
  <2>2. ASSUME NEW n \in Nat \cap T PROVE n + 1 \in T
    <3> SUFFICES ASSUME NEW i \in 0 .. W, i + (n + 1) + 1 <= W PROVE 2 * Pow2[i] <= Pow2[i + (n + 1) + 1]
      OBVIOUS
    <3>1. 2 * Pow2[i] <= Pow2[i + n + 1]
      BY <1>1
    <3>2. i + (n + 1) + 1 \in 1 .. W /\ (i + (n + 1) + 1) - 1 = i + n + 1 /\ i + n + 1 \in 0 .. W
      BY <1>1
    <3>3. Pow2[i + (n + 1) + 1] = 2 * Pow2[i + n + 1] /\ Pow2[i + n + 1] \in Nat /\ Pow2[i] \in Nat
      BY <1>2, <3>2
    <3>4. QED BY <3>1, <3>3
  <2> HIDE DEF T
  <2>3. Nat \subseteq T
    BY <2>1, <2>2, Counting
  <2>4. ASSUME NEW i \in 0 .. W, NEW j \in 0 .. W, i < j PROVE 2 * Pow2[i] <= Pow2[j]
    <3> DEFINE n == j - i - 1
    <3>1. n \in Nat /\ i + n + 1 = j /\ j <= W
      BY <1>1, <2>4
    <3> HIDE DEF n
    <3>2. n \in T
      BY <2>3, <3>1
    <3>3. QED BY <3>1, <3>2 DEF T
  <2>5. QED BY <2>4
<1>5. QED BY <1>1, <1>2, <1>3, <1>4 DEF W

(* A word lies between one power of two and the next.                      *)
LEMMA Log ==
  ASSUME SizesAssumption, NEW x \in Nat, x >= 1, x < Pow2[WordBits]
  PROVE  \E m \in 0 .. WordBits - 1 : Pow2[m] <= x /\ x < Pow2[m + 1]
<1> DEFINE W == WordBits
           T == {n \in Nat : n <= W => (x < Pow2[n] => \E m \in 0 .. W - 1 : Pow2[m] <= x /\ x < Pow2[m + 1])}
<1>1. W \in Nat /\ Pow2[0] = 1 /\ \A n \in 0 .. W : Pow2[n] \in Nat
  BY PowFacts
<1>2. 0 \in T
  BY <1>1
<1>3. ASSUME NEW n \in Nat \cap T PROVE n + 1 \in T
  <2> SUFFICES ASSUME n + 1 <= W, x < Pow2[n + 1] PROVE \E m \in 0 .. W - 1 : Pow2[m] <= x /\ x < Pow2[m + 1]
    OBVIOUS
  <2>1. n \in 0 .. W - 1 /\ n \in 0 .. W /\ Pow2[n] \in Nat
    BY <1>1
  <2>2. CASE x < Pow2[n]
    BY <1>1, <2>1, <2>2
  <2>3. CASE Pow2[n] <= x
    BY <2>1, <2>3
  <2>4. QED BY <2>1, <2>2, <2>3
<1> HIDE DEF T
<1>4. W \in T
  BY <1>1, <1>2, <1>3, Counting
<1>5. QED BY <1>1, <1>4 DEF T

(* Division when the quotient is one, or none.                             *)
LEMMA OneTime == ASSUME NEW x \in Nat, NEW p \in Nat, p >= 1, p <= x, x < 2 * p PROVE x \div p = 1
OBVIOUS

LEMMA NoTime == ASSUME NEW x \in Nat, NEW p \in Nat, x < p PROVE x \div p = 0
OBVIOUS

(* The bit of the largest power that is no larger, and none above.         *)
LEMMA HighestBit ==
  ASSUME SizesAssumption, NEW x \in Nat, NEW m \in 0 .. WordBits - 1, Pow2[m] <= x, x < Pow2[m + 1]
  PROVE  m \in Bits(x) /\ Bits(x) \subseteq 0 .. m
<1> DEFINE W == WordBits
<1>1. /\ W \in Nat /\ m \in 0 .. W /\ m + 1 \in 0 .. W
      /\ \A n \in 0 .. W : Pow2[n] \in Nat /\ n < Pow2[n]
      /\ \A i, j \in 0 .. W : i < j => 2 * Pow2[i] <= Pow2[j]
      /\ Pow2[m + 1] = 2 * Pow2[m]
  <2>1. W \in Nat /\ m + 1 \in 1 .. W /\ (m + 1) - 1 = m
    BY PowFacts
  <2>2. QED BY <2>1, PowFacts
<1>2. m \in Bits(x)
  <2>1. Pow2[m] >= 1 /\ Pow2[m] \in Nat /\ x < 2 * Pow2[m]
    BY <1>1
  <2>2. x \div Pow2[m] = 1
    BY <2>1, OneTime
  <2>3. QED BY <2>2 DEF Bits
<1>3. ASSUME NEW i \in Bits(x), i > m PROVE FALSE
  <2>1. i \in 0 .. W /\ m + 1 <= i
    BY <1>1, <1>3 DEF Bits
  <2>2. Pow2[m + 1] <= Pow2[i] /\ Pow2[i] \in Nat /\ Pow2[m + 1] \in Nat
    BY <1>1, <2>1
  <2>3. x \div Pow2[i] = 0
    BY <2>2, NoTime
  <2>4. QED BY <2>3 DEF Bits
<1>4. QED BY <1>1, <1>2, <1>3 DEF Bits

(* There is one power of two from x up to but not including 2 * x.         *)
LEMMA PowerAbove ==
  ASSUME SizesAssumption, NEW x \in Nat, x >= 1, x <= Pow2[WordBits]
  PROVE  /\ \E j \in 0 .. WordBits : Pow2[j] >= x /\ Pow2[j] < 2 * x
         /\ \A i, j \in 0 .. WordBits :
              Pow2[i] >= x /\ Pow2[i] < 2 * x /\ Pow2[j] >= x /\ Pow2[j] < 2 * x => i = j
<1> DEFINE W == WordBits
<1>1. /\ W \in Nat /\ Pow2[0] = 1 /\ \A n \in 0 .. W : Pow2[n] \in Nat
      /\ \A n \in 1 .. W : Pow2[n] = 2 * Pow2[n - 1]
      /\ \A i, j \in 0 .. W : i < j => 2 * Pow2[i] <= Pow2[j]
  BY PowFacts
<1>2. \E j \in 0 .. W : Pow2[j] >= x /\ Pow2[j] < 2 * x
  <2>1. CASE x = 1
    <3>1. 0 \in 0 .. W /\ Pow2[0] >= x /\ Pow2[0] < 2 * x
      BY <1>1, <2>1
    <3>2. QED BY <3>1
  <2>2. CASE x > 1
    <3>1. x - 1 \in Nat /\ x - 1 >= 1 /\ x - 1 < Pow2[W]
      BY <1>1, <2>2
    <3>2. PICK m \in 0 .. W - 1 : Pow2[m] <= x - 1 /\ x - 1 < Pow2[m + 1]
      BY <3>1, Log
    <3>3. m + 1 \in 1 .. W /\ (m + 1) - 1 = m /\ m + 1 \in 0 .. W
      BY <1>1
    <3>4. Pow2[m + 1] = 2 * Pow2[m] /\ Pow2[m] \in Nat
      BY <1>1, <3>3
    <3>5. Pow2[m + 1] >= x /\ Pow2[m + 1] < 2 * x
      BY <3>2, <3>4
    <3>6. QED BY <3>3, <3>5
  <2>3. QED BY <2>1, <2>2
<1>3. ASSUME NEW i \in 0 .. W, NEW j \in 0 .. W,
             Pow2[i] >= x /\ Pow2[i] < 2 * x /\ Pow2[j] >= x /\ Pow2[j] < 2 * x
      PROVE  i = j
  <2>1. Pow2[i] \in Nat /\ Pow2[j] \in Nat
    BY <1>1
  <2>2. ~ (i < j) /\ ~ (j < i)
    BY <1>1, <1>3, <2>1
  <2>3. QED BY <1>1, <2>2
<1>4. QED BY <1>2, <1>3

(* ceilPowOfTwo: the power of two that is no smaller and less than twice   *)
(* as large.                                                               *)
LEMMA NextRight ==
  ASSUME SizesAssumption, NEW x \in Nat, x >= 1, x <= Pow2[WordBits]
  PROVE  /\ \E j \in 0 .. WordBits : NextPowerOfTwo(x) = Pow2[j]
         /\ NextPowerOfTwo(x) >= x /\ NextPowerOfTwo(x) < 2 * x
         /\ \A j \in 0 .. WordBits : Pow2[j] >= x /\ Pow2[j] < 2 * x => NextPowerOfTwo(x) = Pow2[j]
<1> DEFINE W == WordBits
           k == NextPowerOfTwo(x)
<1>1. /\ W \in Nat /\ Pow2[0] = 1 /\ \A n \in 0 .. W : Pow2[n] \in Nat
      /\ \A n \in 1 .. W : Pow2[n] = 2 * Pow2[n - 1]
  BY PowFacts
<1>2. PICK j \in 0 .. W : Pow2[j] >= x /\ Pow2[j] < 2 * x
  BY PowerAbove
<1>3. k \in Powers /\ k >= x /\ k < 2 * x
  <2>1. CASE Bits(x) \cap Bits(x - 1) = {}
    <3>1. k = x
      BY <2>1 DEF NextPowerOfTwo
    <3>2. ASSUME x # Pow2[j] PROVE FALSE
      <4>1. j # 0
        BY <1>1, <1>2, <3>2
      <4> DEFINE m == j - 1
      <4>2. m \in 0 .. W - 1 /\ m \in 0 .. W /\ j = m + 1
        BY <1>1, <4>1
      <4>3. Pow2[j] = 2 * Pow2[m] /\ Pow2[m] \in Nat /\ Pow2[j] = Pow2[m + 1]
        BY <1>1, <4>1, <4>2
      <4> HIDE DEF m
      <4>4. x - 1 \in Nat /\ Pow2[m] <= x /\ x < Pow2[m + 1] /\ Pow2[m] <= x - 1 /\ x - 1 < Pow2[m + 1]
        BY <1>2, <3>2, <4>3
      <4>5. m \in Bits(x)
        BY <4>2, <4>4, HighestBit
      <4>6. m \in Bits(x - 1)
        BY <4>2, <4>4, HighestBit
      <4>7. QED BY <2>1, <4>5, <4>6
    <3>3. QED BY <3>1, <3>2, <1>2 DEF Powers
  <2>2. CASE Bits(x) \cap Bits(x - 1) # {}
    <3>1. k = CHOOSE p \in Powers : p >= x /\ p < 2 * x
      BY <2>2 DEF NextPowerOfTwo
    <3>2. \E p \in Powers : p >= x /\ p < 2 * x
      BY <1>2 DEF Powers
    <3> HIDE DEF k
    <3>3. QED BY <3>1, <3>2
  <2>3. QED BY <2>1, <2>2
<1> HIDE DEF k
<1>4. PICK i \in 0 .. W : k = Pow2[i]
  BY <1>3 DEF Powers
<1>5. \A n \in 0 .. W : Pow2[n] >= x /\ Pow2[n] < 2 * x => k = Pow2[n]
  BY <1>3, <1>4, PowerAbove
<1>6. QED BY <1>3, <1>4, <1>5 DEF k

(* A power of two is its own rounding.                                     *)
LEMMA PowerStays ==
  ASSUME SizesAssumption, NEW j \in 0 .. WordBits PROVE NextPowerOfTwo(Pow2[j]) = Pow2[j]
<1>1. Pow2[j] \in Nat /\ Pow2[j] >= 1 /\ WordBits \in Nat /\ Pow2[WordBits] \in Nat
  BY PowFacts
<1>2. Pow2[j] <= Pow2[WordBits]
  <2>1. CASE j = WordBits
    BY <1>1, <2>1
  <2>2. CASE j < WordBits
    <3>1. 2 * Pow2[j] <= Pow2[WordBits]
      BY <1>1, <2>2, PowFacts
    <3>2. QED BY <1>1, <3>1
  <2>3. QED BY <1>1, <2>1, <2>2
<1>3. Pow2[j] >= Pow2[j] /\ Pow2[j] < 2 * Pow2[j]
  BY <1>1
<1>4. QED BY <1>1, <1>2, <1>3, NextRight

(* A word whose bits are those up to m.                                    *)
LEMMA NumberOf ==
  ASSUME SizesAssumption, NEW m \in -1 .. WordBits - 1
  PROVE  Number(0 .. m) = Pow2[m + 1] - 1
<1> DEFINE W == WordBits
           b == 0 .. m
           F == [p \in (1 .. W) \X Nat |-> p[2] + (IF p[1] - 1 \in b THEN Pow2[p[1] - 1] ELSE 0)]
           Solves(g) == g = [n \in 0 .. W |->
             IF n = 0 THEN 0 ELSE g[n - 1] + (IF n - 1 \in b THEN Pow2[n - 1] ELSE 0)]
<1>1. /\ W \in Nat /\ Pow2[0] = 1 /\ \A n \in 0 .. W : Pow2[n] \in Nat
      /\ \A n \in 1 .. W : Pow2[n] = 2 * Pow2[n - 1]
  BY PowFacts
<1> HIDE DEF b
<1>2. \A n \in 1 .. W : n - 1 \in 0 .. W /\ Pow2[n - 1] \in Nat
  BY <1>1
<1>3. F \in [(1 .. W) \X Nat -> Nat]
  BY <1>2
<1>4. \A n \in 1 .. W, k \in Nat : F[<<n, k>>] = k + (IF n - 1 \in b THEN Pow2[n - 1] ELSE 0)
  OBVIOUS
<1> HIDE DEF F
<1>5. PICK g \in [0 .. W -> Nat] : g[0] = 0 /\ \A n \in 1 .. W : g[n] = F[<<n, g[n - 1]>>]
  <2>1. \A a \in Nat : \A G \in [(1 .. W) \X Nat -> Nat] :
          \E g \in [0 .. W -> Nat] : g[0] = a /\ \A n \in 1 .. W : g[n] = G[<<n, g[n - 1]>>]
    BY <1>1, Recursion, Zenon
  <2>2. 0 \in Nat
    OBVIOUS
  <2>3. \A G \in [(1 .. W) \X Nat -> Nat] :
          \E g \in [0 .. W -> Nat] : g[0] = 0 /\ \A n \in 1 .. W : g[n] = G[<<n, g[n - 1]>>]
    BY <2>1, <2>2, Zenon
  <2>4. QED BY <1>3, <2>3, Zenon
<1>6. \A n \in 0 .. W : n # 0 => g[n] = g[n - 1] + (IF n - 1 \in b THEN Pow2[n - 1] ELSE 0)
  <2> SUFFICES ASSUME NEW n \in 0 .. W, n # 0
               PROVE  g[n] = g[n - 1] + (IF n - 1 \in b THEN Pow2[n - 1] ELSE 0)
    OBVIOUS
  <2>1. n \in 1 .. W /\ n - 1 \in 0 .. W
    BY <1>1
  <2>2. g[n - 1] \in Nat /\ g[n] = F[<<n, g[n - 1]>>]
    BY <1>5, <2>1
  <2>3. QED BY <1>4, <2>1, <2>2, Zenon
<1>7. Solves(g)
  <2>1. \A n \in 0 .. W : g[n] = IF n = 0 THEN 0 ELSE g[n - 1] + (IF n - 1 \in b THEN Pow2[n - 1] ELSE 0)
    BY <1>5, <1>6
  <2>2. g = [n \in 0 .. W |-> g[n]]
    BY <1>5
  <2>3. QED BY <2>1, <2>2, Zenon
<1> DEFINE s == CHOOSE f : Solves(f)
<1>8. Solves(s)
  <2> HIDE DEF Solves
  <2>1. \E f : Solves(f)
    BY <1>7
  <2>2. QED BY <2>1, Zenon
<1>9. Number(b) = s[W]
  BY Zenon DEF Number
<1> HIDE DEF s
<1>10. s[0] = 0 /\ \A n \in 1 .. W : s[n] = s[n - 1] + (IF n - 1 \in b THEN Pow2[n - 1] ELSE 0)
  <2>1. \A n \in 0 .. W : s[n] = IF n = 0 THEN 0 ELSE s[n - 1] + (IF n - 1 \in b THEN Pow2[n - 1] ELSE 0)
    BY <1>8, Zenon
  <2>2. QED BY <1>1, <2>1
<1> HIDE DEF Solves
<1> DEFINE T == {n \in Nat : n <= W => s[n] = (IF n <= m + 1 THEN Pow2[n] - 1 ELSE Pow2[m + 1] - 1)}
<1>11. 0 \in T
  BY <1>1, <1>10
<1>12. ASSUME NEW n \in Nat \cap T PROVE n + 1 \in T
  <2> SUFFICES ASSUME n + 1 <= W
               PROVE  s[n + 1] = (IF n + 1 <= m + 1 THEN Pow2[n + 1] - 1 ELSE Pow2[m + 1] - 1)
    OBVIOUS
  <2>1. n + 1 \in 1 .. W /\ (n + 1) - 1 = n /\ n \in 0 .. W /\ m + 1 \in 0 .. W
    BY <1>1
  <2>2. s[n] = (IF n <= m + 1 THEN Pow2[n] - 1 ELSE Pow2[m + 1] - 1)
    BY <1>1
  <2>3. s[n + 1] = s[n] + (IF n \in b THEN Pow2[n] ELSE 0)
    BY <1>10, <2>1
  <2>4. n \in b <=> n <= m
    BY DEF b
  <2>5. Pow2[n] \in Nat /\ Pow2[n + 1] = 2 * Pow2[n] /\ Pow2[m + 1] \in Nat
    BY <1>1, <2>1
  <2>6. CASE n <= m
    BY <2>2, <2>3, <2>4, <2>5, <2>6
  <2>7. CASE n = m + 1
    BY <2>2, <2>3, <2>4, <2>5, <2>7
  <2>8. CASE n > m + 1
    BY <2>2, <2>3, <2>4, <2>5, <2>8
  <2>9. QED BY <2>6, <2>7, <2>8
<1> HIDE DEF T
<1>13. W \in T
  BY <1>1, <1>11, <1>12, Counting
<1>14. s[W] = Pow2[m + 1] - 1
  <2>1. s[W] = IF W <= m + 1 THEN Pow2[W] - 1 ELSE Pow2[m + 1] - 1
    <3>1. W <= W => s[W] = IF W <= m + 1 THEN Pow2[W] - 1 ELSE Pow2[m + 1] - 1
      BY <1>13 DEF T
    <3>2. QED BY <1>1, <3>1
  <2>2. W <= m + 1 => W = m + 1
    BY <1>1
  <2>3. QED BY <2>1, <2>2
<1>15. QED BY <1>9, <1>14 DEF b

(* The shifts set every bit below the highest, when it is among 32.        *)
LEMMA SmearOnce ==
  ASSUME WordBits \in Nat, NEW m \in Nat, m < WordBits, NEW k \in Nat, NEW r \in Nat, k <= r + 1,
         NEW b \in SUBSET (0 .. m), \A i \in 0 .. m : m - r <= i => i \in b
  PROVE  /\ Smear(b, k) \in SUBSET (0 .. m)
         /\ \A i \in 0 .. m : m - (r + k) <= i => i \in Smear(b, k)
<1>1. ASSUME NEW i \in Smear(b, k) PROVE i \in 0 .. m
  <2>1. CASE i \in b
    BY <2>1
  <2>2. CASE i \in 0 .. WordBits - 1 /\ i + k \in b
    <3>1. i + k \in 0 .. m
      BY <2>2
    <3>2. QED BY <2>2, <3>1
  <2>3. QED BY <1>1, <2>1, <2>2 DEF Smear
<1>2. ASSUME NEW i \in 0 .. m, m - (r + k) <= i PROVE i \in Smear(b, k)
  <2>1. CASE m - r <= i
    BY <2>1 DEF Smear
  <2>2. CASE i < m - r
    <3>1. i + k \in 0 .. m /\ m - r <= i + k /\ i \in 0 .. WordBits - 1
      BY <1>2, <2>2
    <3>2. QED BY <3>1 DEF Smear
  <2>3. QED BY <2>1, <2>2
<1>3. QED BY <1>1, <1>2

LEMMA Smeared ==
  ASSUME SizesAssumption, NEW m \in 0 .. WordBits - 1, m <= 31, NEW b \in SUBSET (0 .. m), m \in b
  PROVE  Smear(Smear(Smear(Smear(Smear(b, 1), 2), 4), 8), 16) = 0 .. m
<1> DEFINE Upper(a, r) == a \in SUBSET (0 .. m) /\ \A i \in 0 .. m : m - r <= i => i \in a
<1>1. WordBits \in Nat /\ m \in Nat /\ m < WordBits
  BY DEF SizesAssumption
<1>2. Upper(b, 0)
  BY <1>1
<1>3. \A k, r \in Nat : \A a : k <= r + 1 /\ Upper(a, r) => Upper(Smear(a, k), r + k)
  BY <1>1, SmearOnce
<1> DEFINE b1 == Smear(b, 1)
           b2 == Smear(b1, 2)
           b3 == Smear(b2, 4)
           b4 == Smear(b3, 8)
           b5 == Smear(b4, 16)
<1> HIDE DEF Upper
<1>4. Upper(b1, 1)
  BY <1>2, <1>3
<1> HIDE DEF b1
<1>5. Upper(b2, 3)
  BY <1>3, <1>4
<1> HIDE DEF b2
<1>6. Upper(b3, 7)
  BY <1>3, <1>5
<1> HIDE DEF b3
<1>7. Upper(b4, 15)
  BY <1>3, <1>6
<1> HIDE DEF b4
<1>8. Upper(b5, 31)
  BY <1>3, <1>7
<1> HIDE DEF b5
<1>9. b5 = 0 .. m
  <2>1. b5 \subseteq 0 .. m /\ \A i \in 0 .. m : m - 31 <= i => i \in b5
    BY <1>8 DEF Upper
  <2>2. \A i \in 0 .. m : m - 31 <= i
    OBVIOUS
  <2>3. QED BY <2>1, <2>2
<1>10. QED BY <1>9 DEF b1, b2, b3, b4, b5

(* The largest pool is a word, and powers are ordered as their exponents.  *)
LEMMA PoolFacts ==
  ASSUME SizesAssumption
  PROVE  /\ PoolBits \in 0 .. WordBits - 1 /\ PoolBits \in 0 .. WordBits /\ PoolBits <= 32
         /\ Pow2[PoolBits] \in Nat /\ Pow2[PoolBits] < Pow2[WordBits] /\ Pow2[WordBits] \in Nat
         /\ \A i \in 0 .. WordBits : i <= PoolBits <=> Pow2[i] <= Pow2[PoolBits]
<1>1. PoolBits \in 0 .. WordBits - 1 /\ PoolBits \in 0 .. WordBits /\ PoolBits <= 32 /\ WordBits \in Nat
  BY DEF SizesAssumption
<1>2. /\ \A n \in 0 .. WordBits : Pow2[n] \in Nat /\ n < Pow2[n]
      /\ \A i, j \in 0 .. WordBits : i < j => 2 * Pow2[i] <= Pow2[j]
  BY PowFacts
<1>3. ASSUME NEW i \in 0 .. WordBits PROVE i <= PoolBits <=> Pow2[i] <= Pow2[PoolBits]
  <2>1. Pow2[i] \in Nat /\ Pow2[PoolBits] \in Nat /\ Pow2[i] > 0 /\ Pow2[PoolBits] > 0
    BY <1>1, <1>2
  <2>2. CASE i < PoolBits
    BY <1>1, <1>2, <2>1, <2>2
  <2>3. CASE i = PoolBits
    BY <2>1, <2>3
  <2>4. CASE i > PoolBits
    <3>1. 2 * Pow2[PoolBits] <= Pow2[i]
      BY <1>1, <1>2, <2>4
    <3>2. QED BY <1>1, <2>1, <2>4, <3>1
  <2>5. QED BY <1>1, <2>2, <2>3, <2>4
<1>4. Pow2[PoolBits] < Pow2[WordBits]
  <2>1. 2 * Pow2[PoolBits] <= Pow2[WordBits] /\ PoolBits < Pow2[PoolBits] /\ Pow2[PoolBits] \in Nat /\ Pow2[WordBits] \in Nat
    BY <1>1, <1>2
  <2>2. QED BY <1>1, <2>1
<1>5. QED BY <1>1, <1>2, <1>3, <1>4

(* The two roundings agree, up to the largest pool.                        *)
LEMMA Nearest ==
  ASSUME SizesAssumption, NEW x \in Nat, x <= Pow2[PoolBits]
  PROVE  FindNearestPow2(x) = NextPowerOfTwo(x)
<1> DEFINE W == WordBits
           b == Bits(x - 1)
           s == Smear(Smear(Smear(Smear(Smear(b, 1), 2), 4), 8), 16)
<1>1. /\ W \in Nat /\ W > 0 /\ Pow2[0] = 1 /\ \A n \in 0 .. W : Pow2[n] \in Nat
      /\ \A n \in 1 .. W : Pow2[n] = 2 * Pow2[n - 1]
      /\ \A i, j \in 0 .. W : i < j => 2 * Pow2[i] <= Pow2[j]
  BY PowFacts
<1>2. CASE x = 0
  BY <1>2 DEF FindNearestPow2, NextPowerOfTwo
<1>3. CASE x = 1
  <2>1. b = {}
    <3>1. ASSUME NEW i \in 0 .. W - 1 PROVE 0 \div Pow2[i] = 0
      <4>1. i \in 0 .. WordBits /\ i \in Nat
        BY <1>1
      <4>2. Pow2[i] \in Nat /\ 0 < Pow2[i]
        BY <4>1, PowFacts
      <4>3. QED BY <4>2, NoTime
    <3>2. \A i \in 0 .. W - 1 : ~ ((0 \div Pow2[i]) % 2 = 1)
      BY <3>1
    <3>3. x - 1 = 0
      BY <1>3
    <3>4. QED BY <3>2, <3>3 DEF Bits
  <2> HIDE DEF b
  <2>2. s = {} /\ {} = 0 .. -1
    BY <2>1 DEF Smear
  <2>3. -1 \in -1 .. WordBits - 1
    BY <1>1
  <2>4. Number(0 .. -1) = Pow2[-1 + 1] - 1
    BY <2>3, NumberOf
  <2>5. -1 + 1 = 0
    OBVIOUS
  <2>6. Number(s) = 0
    <3>1. Number(0 .. -1) = 0
      BY <1>1, <2>4, <2>5
    <3> HIDE DEF s
    <3>2. QED BY <2>2, <3>1, Zenon
  <2> HIDE DEF s
  <2>7. FindNearestPow2(x) = Number(s) + 1
    BY <1>3 DEF FindNearestPow2, s, b
  <2>8. NextPowerOfTwo(1) = 1
    <3>1. 0 \in 0 .. WordBits
      BY <1>1
    <3>2. QED BY <1>1, <3>1, PowerStays
  <2>9. QED BY <1>3, <2>6, <2>7, <2>8
<1>4. CASE x > 1
  <2>1. x - 1 \in Nat /\ x - 1 >= 1 /\ x - 1 < Pow2[PoolBits] /\ x - 1 < Pow2[W] /\ x <= Pow2[W]
    BY <1>4, PoolFacts
  <2>2. PICK m \in 0 .. W - 1 : Pow2[m] <= x - 1 /\ x - 1 < Pow2[m + 1]
    BY <2>1, Log
  <2>3. m \in 0 .. W /\ m + 1 \in 1 .. W /\ m + 1 \in 0 .. W /\ (m + 1) - 1 = m /\ m \in -1 .. W - 1
    BY <1>1
  <2>4. m <= 31
    <3>1. Pow2[m] \in Nat /\ Pow2[PoolBits] \in Nat
      BY <1>1, <2>3, PoolFacts
    <3>2. Pow2[m] <= Pow2[PoolBits] /\ Pow2[m] # Pow2[PoolBits]
      BY <2>1, <2>2, <3>1
    <3>3. m <= PoolBits /\ m # PoolBits
      BY <2>3, <3>2, PoolFacts
    <3>4. QED BY <3>3, PoolFacts
  <2>5. m \in b /\ b \subseteq 0 .. m
    BY <2>1, <2>2, HighestBit
  <2> HIDE DEF b
  <2>6. s = 0 .. m
    BY <2>4, <2>5, Smeared
  <2> HIDE DEF s
  <2>7. Number(s) = Pow2[m + 1] - 1
    BY <2>3, <2>6, NumberOf
  <2>8. FindNearestPow2(x) = Number(s) + 1
    BY <1>4 DEF FindNearestPow2, s, b
  <2>9. Pow2[m + 1] = 2 * Pow2[m] /\ Pow2[m] \in Nat /\ Pow2[m + 1] \in Nat
    BY <1>1, <2>3
  <2>10. Pow2[m + 1] >= x /\ Pow2[m + 1] < 2 * x
    BY <2>2, <2>9
  <2>11. NextPowerOfTwo(x) = Pow2[m + 1]
    BY <1>4, <2>1, <2>3, <2>10, NextRight
  <2>12. QED BY <2>7, <2>8, <2>9, <2>11
<1>5. QED BY <1>2, <1>3, <1>4

(* The doubled size is a power that is no less than the need.              *)
LEMMA DoubledRight ==
  ASSUME SizesAssumption, NEW c \in 0 .. PoolBits, NEW need \in Nat, need <= Pow2[PoolBits]
  PROVE  \E d \in 0 .. PoolBits : Doubled(Pow2[c], need) = Pow2[d] /\ need <= Pow2[d]
<1> DEFINE W == WordBits
           a == Pow2[c]
           F == [p \in (1 .. W) \X Nat |-> IF p[2] < need THEN 2 * p[2] ELSE p[2]]
           Solves(g) == g = [i \in 0 .. W |->
             IF i = 0 THEN a ELSE IF g[i - 1] < need THEN 2 * g[i - 1] ELSE g[i - 1]]
<1>1. /\ W \in Nat /\ Pow2[0] = 1 /\ \A n \in 0 .. W : Pow2[n] \in Nat
      /\ \A n \in 1 .. W : Pow2[n] = 2 * Pow2[n - 1]
  BY PowFacts
<1>2. PoolBits \in 0 .. W - 1 /\ \A i \in 0 .. W : i <= PoolBits <=> Pow2[i] <= Pow2[PoolBits]
  BY PoolFacts
<1>3. a \in Nat
  BY <1>1, <1>2
<1> HIDE DEF a
<1>4. F \in [(1 .. W) \X Nat -> Nat] /\ \A n \in 1 .. W, k \in Nat : F[<<n, k>>] = IF k < need THEN 2 * k ELSE k
  OBVIOUS
<1> HIDE DEF F
<1>5. PICK g \in [0 .. W -> Nat] : g[0] = a /\ \A n \in 1 .. W : g[n] = F[<<n, g[n - 1]>>]
  <2>1. \A x \in Nat : \A G \in [(1 .. W) \X Nat -> Nat] :
          \E g \in [0 .. W -> Nat] : g[0] = x /\ \A n \in 1 .. W : g[n] = G[<<n, g[n - 1]>>]
    BY <1>1, Recursion, Zenon
  <2>2. F \in [(1 .. W) \X Nat -> Nat]
    BY <1>4
  <2>3. QED BY <1>3, <2>1, <2>2, Zenon
<1>6. \A n \in 0 .. W : n # 0 => g[n] = IF g[n - 1] < need THEN 2 * g[n - 1] ELSE g[n - 1]
  <2> SUFFICES ASSUME NEW n \in 0 .. W, n # 0
               PROVE  g[n] = IF g[n - 1] < need THEN 2 * g[n - 1] ELSE g[n - 1]
    OBVIOUS
  <2>1. n \in 1 .. W /\ n - 1 \in 0 .. W
    BY <1>1
  <2>2. g[n - 1] \in Nat /\ g[n] = F[<<n, g[n - 1]>>]
    BY <1>5, <2>1
  <2>3. QED BY <1>4, <2>1, <2>2, Zenon
<1>7. Solves(g)
  <2>1. \A i \in 0 .. W : g[i] = IF i = 0 THEN a ELSE IF g[i - 1] < need THEN 2 * g[i - 1] ELSE g[i - 1]
    BY <1>5, <1>6
  <2>2. g = [i \in 0 .. W |-> g[i]]
    BY <1>5
  <2>3. QED BY <2>1, <2>2, Zenon
<1> DEFINE s == CHOOSE f : Solves(f)
<1>8. Solves(s)
  <2> HIDE DEF Solves
  <2>1. \E f : Solves(f)
    BY <1>7
  <2>2. QED BY <2>1, Zenon
<1>9. Doubled(a, need) = s[W]
  BY Zenon DEF Doubled
<1> HIDE DEF s
<1>10. s[0] = a /\ \A n \in 1 .. W : s[n] = IF s[n - 1] < need THEN 2 * s[n - 1] ELSE s[n - 1]
  <2>1. \A i \in 0 .. W : s[i] = IF i = 0 THEN a ELSE IF s[i - 1] < need THEN 2 * s[i - 1] ELSE s[i - 1]
    BY <1>8, Zenon
  <2>2. QED BY <1>1, <2>1
<1> HIDE DEF Solves
<1> DEFINE Grown(n) == \E d \in 0 .. PoolBits : s[n] = Pow2[d] /\ (need <= Pow2[d] \/ n <= d)
           T == {n \in Nat : n <= W => Grown(n)}
<1>11. 0 \in T
  <2>1. s[0] = Pow2[c] /\ 0 <= c
    BY <1>10 DEF a
  <2>2. QED BY <2>1
<1>12. ASSUME NEW n \in Nat \cap T PROVE n + 1 \in T
  <2> SUFFICES ASSUME n + 1 <= W PROVE Grown(n + 1)
    OBVIOUS
  <2>1. n + 1 \in 1 .. W /\ (n + 1) - 1 = n /\ n <= W
    BY <1>1
  <2>2. Grown(n)
    <3> HIDE DEF Grown
    <3>1. QED BY <2>1
  <2>3. PICK d \in 0 .. PoolBits : s[n] = Pow2[d] /\ (need <= Pow2[d] \/ n <= d)
    BY <2>2
  <2>4. s[n + 1] = IF s[n] < need THEN 2 * s[n] ELSE s[n]
    BY <1>10, <2>1
  <2>5. d \in 0 .. W /\ Pow2[d] \in Nat /\ Pow2[PoolBits] \in Nat
    <3>1. d \in 0 .. W /\ PoolBits \in 0 .. W
      BY <1>1, <1>2
    <3>2. QED BY <1>1, <3>1
  <2>6. CASE Pow2[d] < need
    <3>1. d # PoolBits
      BY <2>5, <2>6
    <3>2. d + 1 \in 0 .. PoolBits /\ d + 1 \in 1 .. W /\ (d + 1) - 1 = d
      BY <1>1, <1>2, <3>1
    <3>3. Pow2[d + 1] = 2 * Pow2[d]
      BY <1>1, <3>2
    <3>4. s[n + 1] = Pow2[d + 1] /\ n + 1 <= d + 1
      BY <2>3, <2>4, <2>5, <2>6, <3>3
    <3>5. QED BY <3>2, <3>4
  <2>7. CASE need <= Pow2[d]
    <3>1. s[n + 1] = Pow2[d]
      BY <2>3, <2>4, <2>5, <2>7
    <3>2. QED BY <2>7, <3>1
  <2>8. QED BY <2>5, <2>6, <2>7
<1> HIDE DEF T
<1>13. W \in T
  BY <1>1, <1>11, <1>12, Counting
<1>14. Grown(W)
  BY <1>1, <1>13 DEF T
<1>15. PICK d \in 0 .. PoolBits : s[W] = Pow2[d] /\ need <= Pow2[d]
  BY <1>1, <1>2, <1>14
<1>16. QED BY <1>9, <1>15 DEF a

(* delta is at least one, and the slices of that size fit in a word.       *)
LEMMA Parts ==
  ASSUME NEW p \in Nat, NEW k \in Nat, k >= 1, k <= p
  PROVE  p \div k \in Nat /\ p \div k >= 1 /\ k * (p \div k) <= p
OBVIOUS

(* Products are monotonic, which the provers see one product at a time.    *)
LEMMA Multiples ==
  ASSUME NEW i \in Nat, NEW k \in Nat, NEW d \in Nat, i < k
  PROVE  i * d \in Nat /\ i * d <= k * d /\ (d >= 1 => i * d < k * d) /\ (i + 1) * d = i * d + d
OBVIOUS

(* The remainder of a number less than twice the divisor.                  *)
LEMMA Remainders ==
  ASSUME NEW n \in Nat, n >= 1, NEW x \in Nat, x < 2 * n
  PROVE  x % n = IF x < n THEN x ELSE x - n
OBVIOUS

(* Each of n replicas has one slice of k, or two.                          *)
LEMMA Shares ==
  ASSUME NEW n \in Nat, n >= 1, NEW k \in Nat, n <= k, k < 2 * n, NEW r \in 1 .. n
  PROVE  Cardinality({i \in 1 .. k : ((i - 1) % n) + 1 = r}) \in {1, 2}
<1> DEFINE S == {i \in 1 .. k : ((i - 1) % n) + 1 = r}
<1>1. \A i \in 1 .. k : (i - 1) % n = IF i - 1 < n THEN i - 1 ELSE i - 1 - n
  <2> SUFFICES ASSUME NEW i \in 1 .. k
               PROVE  (i - 1) % n = IF i - 1 < n THEN i - 1 ELSE i - 1 - n
    OBVIOUS
  <2> DEFINE x == i - 1
  <2>1. x \in Nat /\ x < 2 * n
    OBVIOUS
  <2> HIDE DEF x
  <2>2. x % n = IF x < n THEN x ELSE x - n
    BY <2>1, Remainders
  <2>3. QED BY <2>2 DEF x
<1>2. \A i \in 1 .. k : i \in S <=> i = r \/ i = r + n
  BY <1>1
<1>3. r \in S
  BY <1>2
<1>4. CASE r + n \in 1 .. k
  <2>1. S = {r} \cup {r + n}
    BY <1>2, <1>3, <1>4
  <2>2. r # r + n
    OBVIOUS
  <2>3. Cardinality({r} \cup {r + n}) = 2
    <3>1. IsFiniteSet({r}) /\ Cardinality({r}) = 1 /\ r + n \notin {r}
      BY <2>2, FS_Singleton
    <3> DEFINE x == r + n
    <3> HIDE DEF x
    <3>2. x \notin {r}
      BY <3>1 DEF x
    <3>3. Cardinality({r} \cup {x}) = Cardinality({r}) + 1
      BY <3>1, <3>2, FS_AddElement
    <3>4. QED BY <3>1, <3>3 DEF x
  <2> HIDE DEF S
  <2>4. Cardinality(S) = 2
    BY <2>1, <2>3
  <2>5. QED BY <2>4 DEF S
<1>5. CASE r + n \notin 1 .. k
  <2>1. S = {r}
    BY <1>2, <1>3, <1>5
  <2>2. Cardinality({r}) = 1
    BY FS_Singleton
  <2> HIDE DEF S
  <2>3. Cardinality(S) = 1
    BY <2>1, <2>2
  <2>4. QED BY <2>3 DEF S
<1>6. QED BY <1>4, <1>5

(* The slices of n replicas.                                               *)
LEMMA SlicesRight ==
  ASSUME SizesAssumption, NEW n \in Nat, n >= 1, n <= Pow2[WordBits - 1]
  PROVE  /\ \E k \in Nat : /\ n <= k /\ k < 2 * n /\ DOMAIN EqualSlices(n) = 1 .. k
                           /\ Len(EqualSlices(n)) = k
         /\ \A i \in DOMAIN EqualSlices(n) : EqualSlices(n)[i].replica = ((i - 1) % n) + 1
         /\ EqualSlices(n)[1].start = 0
         /\ \A i \in 2 .. Len(EqualSlices(n)) : EqualSlices(n)[i - 1].start < EqualSlices(n)[i].start
<1> DEFINE W == WordBits
           P == Pow2[W]
           k == NextPowerOfTwo(n)
           delta == (P - 1) \div k
           a == EqualSlices(n)
<1>1. /\ W \in Nat /\ W > 0 /\ W - 1 \in 0 .. W /\ W \in 1 .. W
      /\ \A j \in 0 .. W : Pow2[j] \in Nat /\ j < Pow2[j]
      /\ P = 2 * Pow2[W - 1]
      /\ \A i, j \in 0 .. W : i < j => 2 * Pow2[i] <= Pow2[j]
  <2>1. W \in Nat /\ W > 0
    BY PowFacts
  <2>2. W - 1 \in 0 .. W /\ W \in 1 .. W
    BY <2>1
  <2>3. QED BY <2>1, <2>2, PowFacts
<1>2. P \in Nat /\ n <= P /\ Pow2[W - 1] \in Nat /\ Pow2[W - 1] >= 1
  BY <1>1
<1>3. PICK j \in 0 .. W : k = Pow2[j]
  BY <1>2, NextRight
<1>4. n <= k /\ k < 2 * n /\ k \in Nat
  <2>1. n <= k /\ k < 2 * n
    BY <1>2, NextRight
  <2>2. k \in Nat
    BY <1>1, <1>3
  <2>3. QED BY <2>1, <2>2
<1>5. k <= P - 1 /\ P - 1 \in Nat
  <2>1. j # W
    BY <1>2, <1>3, <1>4, <1>1
  <2>2. 2 * Pow2[j] <= P /\ Pow2[j] \in Nat /\ Pow2[j] >= 1
    BY <1>1, <2>1
  <2>3. QED BY <1>2, <1>3, <2>2
<1>6. a = [i \in 1 .. k |-> [start |-> Word((i - 1) * delta), replica |-> ((i - 1) % n) + 1]]
  <2>1. n # 0
    OBVIOUS
  <2>2. QED BY <2>1, Zenon DEF EqualSlices
<1> HIDE DEF k
<1>7. delta \in Nat /\ delta >= 1 /\ k * delta <= P - 1
  BY <1>4, <1>5, Parts
<1> HIDE DEF delta
<1>8. \A i \in 1 .. k : /\ a[i].start = (i - 1) * delta
                        /\ a[i].replica = ((i - 1) % n) + 1
  <2> SUFFICES ASSUME NEW i \in 1 .. k
               PROVE  a[i].start = (i - 1) * delta /\ a[i].replica = ((i - 1) % n) + 1
    OBVIOUS
  <2>1. i - 1 \in Nat /\ i - 1 < k
    BY <1>4
  <2>2. (i - 1) * delta \in Nat /\ (i - 1) * delta <= k * delta
    BY <1>4, <1>7, <2>1, Multiples
  <2> DEFINE x == (i - 1) * delta
  <2>3. x \in Nat /\ x < P
    <3>1. k * delta \in Int
      BY <1>4, <1>7
    <3> DEFINE y == k * delta
    <3>2. y \in Int /\ y <= P - 1 /\ x <= y /\ x \in Nat
      BY <1>7, <2>2, <3>1
    <3> HIDE DEF x, y
    <3>3. QED BY <1>2, <3>2
  <2> HIDE DEF x
  <2>4. Word(x) = x
    BY <1>2, <2>3 DEF Word
  <2>5. a[i].start = Word(x) /\ a[i].replica = ((i - 1) % n) + 1
    <3>1. a[i] = [start |-> Word((i - 1) * delta), replica |-> ((i - 1) % n) + 1]
      BY <1>6, Zenon
    <3>2. QED BY <3>1 DEF x
  <2>6. QED BY <2>4, <2>5 DEF x
<1>9. DOMAIN a = 1 .. k /\ Len(a) = k
  BY <1>4, <1>6
<1> HIDE DEF a
<1>10. a[1].start = 0
  <2>1. 1 \in 1 .. k /\ (1 - 1) * delta = 0
    BY <1>4, <1>7
  <2>2. QED BY <1>8, <2>1
<1>11. \A i \in 2 .. k : a[i - 1].start < a[i].start
  <2> SUFFICES ASSUME NEW i \in 2 .. k PROVE a[i - 1].start < a[i].start
    OBVIOUS
  <2>1. i - 1 \in 1 .. k /\ i \in 1 .. k /\ (i - 1) - 1 = i - 2 /\ i - 2 \in Nat /\ i - 2 < k /\ (i - 2) + 1 = i - 1
    BY <1>4
  <2>2. (i - 2) * delta \in Nat /\ ((i - 2) + 1) * delta = (i - 2) * delta + delta
    BY <1>4, <1>7, <2>1, Multiples
  <2>3. a[i - 1].start = (i - 2) * delta /\ a[i].start = (i - 1) * delta
    BY <1>8, <2>1
  <2>4. (i - 1) * delta = (i - 2) * delta + delta
    BY <2>1, <2>2
  <2> DEFINE x == (i - 2) * delta
  <2>5. x \in Nat /\ a[i - 1].start = x /\ a[i].start = x + delta
    BY <2>2, <2>3, <2>4
  <2> HIDE DEF x
  <2>6. QED BY <1>7, <2>5
<1>12. QED BY <1>4, <1>8, <1>9, <1>10, <1>11 DEF a

(* The assignment is the one of the replicas; the buffer is a pool's, or   *)
(* there is none.                                                          *)
HasBuffer == \E c \in 0 .. PoolBits : cap = Pow2[c] /\ len <= cap
SizesInv ==
  /\ replicas \in 0 .. MaxReplicas
  /\ replicas > 0 => assignment = EqualSlices(replicas)
  /\ len \in Nat
  /\ HasBuffer \/ (cap = 0 /\ len = 0)
  /\ panicked => cap = 0

(* SizesInit: a buffer of one of the pools or none, and no replica.        *)
LEMMA SizesStart == SizesInit => SizesInv
<1> SUFFICES ASSUME SizesInit PROVE SizesInv
  OBVIOUS
<1> USE SizesAssumption
<1>1. replicas \in 0 .. MaxReplicas /\ replicas = 0 /\ len = 0 /\ panicked = FALSE
  BY DEF SizesInit, SizesAssumption
<1>2. PICK n \in 0 .. Pow2[PoolBits] : cap = GetPowerOfTwoSizeBytes(n)
  BY DEF SizesInit
<1>3. CASE n = 0
  BY <1>1, <1>2, <1>3 DEF SizesInv, GetPowerOfTwoSizeBytes
<1>4. CASE n # 0
  <2>1. n \in Nat /\ n >= 1 /\ n <= Pow2[PoolBits] /\ n <= Pow2[WordBits]
    BY <1>2, <1>4, PoolFacts
  <2>2. cap = NextPowerOfTwo(n)
    BY <1>2, <1>4 DEF GetPowerOfTwoSizeBytes
  <2>3. PICK j \in 0 .. WordBits : cap = Pow2[j] /\ cap < 2 * n /\ cap >= n
    BY <2>1, <2>2, NextRight
  <2>4. j <= PoolBits
    <3>1. WordBits \in Nat /\ PoolBits \in 0 .. WordBits
      BY PoolFacts, PowFacts
    <3>2. Pow2[j] \in Nat /\ Pow2[PoolBits] \in Nat /\ (PoolBits < j => 2 * Pow2[PoolBits] <= Pow2[j])
      BY <3>1, PowFacts
    <3>3. QED BY <2>1, <2>3, <3>1, <3>2
  <2>5. j \in 0 .. PoolBits /\ 0 <= cap
    <3>1. PoolBits \in Nat
      BY DEF SizesAssumption
    <3>2. QED BY <2>1, <2>3, <2>4, <3>1, PowFacts
  <2>6. HasBuffer
    BY <1>1, <2>3, <2>5 DEF HasBuffer
  <2>7. QED BY <1>1, <2>6 DEF SizesInv
<1>5. QED BY <1>3, <1>4

(* grow finds a pool no larger than the largest, so that it does not panic,*)
(* and the buffer it gets holds what is appended.                          *)
LEMMA GrowFits ==
  ASSUME SizesInv, NEW n \in Appends, Grow(n)
  PROVE  HasBuffer' /\ len' \in Nat /\ panicked' = FALSE
<1> USE SizesAssumption
<1>1. PICK c \in 0 .. PoolBits : cap = Pow2[c] /\ len <= cap
  BY DEF SizesInv, Grow, HasBuffer
<1>2. len + n <= Pow2[PoolBits] /\ panicked = FALSE
  BY DEF Grow, SizesInv
<1>3. n \in Nat /\ len \in Nat /\ len + n \in Nat
  BY DEF SizesInv, SizesAssumption
<1>4. /\ PoolBits \in 0 .. WordBits /\ WordBits \in Nat /\ c \in 0 .. WordBits
      /\ Pow2[c] \in Nat /\ Pow2[c] >= 1 /\ Pow2[PoolBits] \in Nat
  <2>1. PoolBits \in 0 .. WordBits /\ WordBits \in Nat
    BY PoolFacts, PowFacts
  <2>2. c \in 0 .. WordBits
    BY <2>1
  <2>3. QED BY <2>1, <2>2, PowFacts
<1>5. CASE len + n <= cap
  <2>1. len' = len + n /\ cap' = cap /\ panicked' = panicked
    BY <1>5 DEF Grow
  <2>2. QED BY <1>1, <1>2, <1>3, <1>5, <2>1 DEF HasBuffer
<1>6. CASE ~ (len + n <= cap)
  <2>1. cap + 1 \in Nat /\ cap + 1 <= Pow2[PoolBits] /\ cap + 1 >= 1
    BY <1>1, <1>2, <1>3, <1>4, <1>6
  <2>2. c # PoolBits
    BY <1>1, <1>4, <2>1
  <2>3. c + 1 \in 0 .. PoolBits /\ c + 1 \in 1 .. WordBits /\ c + 1 \in 0 .. WordBits /\ (c + 1) - 1 = c
    BY <1>4, <2>2
  <2>4. Pow2[c + 1] = 2 * Pow2[c]
    BY <2>3, PowFacts
  <2>5. Pow2[c + 1] >= cap + 1 /\ Pow2[c + 1] < 2 * (cap + 1) /\ cap + 1 <= Pow2[WordBits]
    BY <1>1, <1>4, <2>1, <2>4, PoolFacts
  <2>6. FindNearestPow2(cap + 1) = Pow2[c + 1]
    <3>1. FindNearestPow2(cap + 1) = NextPowerOfTwo(cap + 1)
      BY <2>1, Nearest
    <3>2. NextPowerOfTwo(cap + 1) = Pow2[c + 1]
      BY <2>1, <2>3, <2>5, NextRight
    <3>3. QED BY <3>1, <3>2
  <2>7. PICK d \in 0 .. PoolBits : Doubled(Pow2[c + 1], len + n) = Pow2[d] /\ len + n <= Pow2[d]
    BY <1>2, <1>3, <2>3, DoubledRight
  <2>8. NextPowerOfTwo(Pow2[d]) = Pow2[d]
    <3>1. d \in 0 .. WordBits
      BY <1>4
    <3>2. QED BY <3>1, PowerStays
  <2>9. Larger(len + n) = Pow2[d] /\ Larger(len + n) \in Pools
    BY <2>6, <2>7, <2>8 DEF Larger, Pools
  <2>10. len' = len + n /\ cap' = Pow2[d] /\ panicked' = panicked
    BY <1>6, <2>9 DEF Grow
  <2>11. QED BY <1>2, <1>3, <2>7, <2>10 DEF HasBuffer
<1>7. QED BY <1>5, <1>6

(* Each step keeps the inductive invariant: EqualSlices of the new number  *)
(* of replicas; a buffer that grows to a pool; a panic without a buffer.   *)
LEMMA SizesKept == SizesInv /\ [SizesStep]_sizeVars => SizesInv'
<1> SUFFICES ASSUME SizesInv, [SizesStep]_sizeVars PROVE SizesInv'
  OBVIOUS
<1> USE SizesAssumption
<1>1. CASE RegisterReplica
  <2>1. replicas' = replicas + 1 /\ replicas' \in 0 .. MaxReplicas /\ assignment' = EqualSlices(replicas')
    BY <1>1 DEF RegisterReplica, SizesInv, SizesAssumption
  <2>2. len' = len /\ cap' = cap /\ panicked' = panicked
    BY <1>1 DEF RegisterReplica
  <2>3. QED BY <2>1, <2>2 DEF SizesInv, HasBuffer
<1>2. ASSUME NEW n \in Appends, Grow(n) PROVE SizesInv'
  <2>1. HasBuffer' /\ len' \in Nat /\ panicked' = FALSE
    BY <1>2, GrowFits
  <2>2. replicas' = replicas /\ assignment' = assignment
    BY <1>2 DEF Grow
  <2>3. QED BY <2>1, <2>2 DEF SizesInv
<1>3. CASE NilBuffer
  BY <1>3 DEF NilBuffer, SizesInv, HasBuffer
<1>4. CASE UNCHANGED sizeVars
  BY <1>4 DEF sizeVars, SizesInv, HasBuffer
<1>5. QED BY <1>1, <1>2, <1>3, <1>4 DEF SizesStep

(* The buffers of every Serializer fit the pools, whatever is appended.    *)
LEMMA PooledThen == SizesInv => Pooled
<1> SUFFICES ASSUME SizesInv PROVE Pooled
  OBVIOUS
<1> USE SizesAssumption
<1>1. CASE cap = 0 /\ len = 0
  <2>1. cap + 1 = 1 /\ 1 <= Pow2[PoolBits] /\ 0 <= Pow2[PoolBits]
    <3>1. PoolBits \in 0 .. WordBits
      BY PoolFacts, PowFacts
    <3>2. QED BY <1>1, <3>1, PowFacts
  <2>2. FindNearestPow2(1) = NextPowerOfTwo(1) /\ FindNearestPow2(0) = NextPowerOfTwo(0)
    BY <2>1, Nearest
  <2>3. QED BY <1>1, <2>1, <2>2 DEF Pooled, SizesInv
<1>2. CASE HasBuffer
  <2>1. PICK c \in 0 .. PoolBits : cap = Pow2[c] /\ len <= cap
    BY <1>2 DEF HasBuffer
  <2>2. cap \in Pools
    BY <2>1 DEF Pools
  <2>3. cap \in Nat /\ len \in Nat /\ Pow2[PoolBits] \in Nat /\ cap <= Pow2[PoolBits]
    <3>1. c \in 0 .. WordBits /\ c <= PoolBits
      BY PoolFacts, PowFacts
    <3>2. QED BY <2>1, <3>1, PoolFacts, PowFacts DEF SizesInv
  <2>4. cap < Pow2[PoolBits] => FindNearestPow2(cap + 1) = NextPowerOfTwo(cap + 1)
    <3>1. cap < Pow2[PoolBits] => cap + 1 \in Nat /\ cap + 1 <= Pow2[PoolBits]
      BY <2>3
    <3>2. QED BY <3>1, Nearest
  <2>5. FindNearestPow2(len) = NextPowerOfTwo(len)
    <3>1. len <= Pow2[PoolBits]
      BY <2>1, <2>3
    <3>2. QED BY <2>3, <3>1, Nearest
  <2>6. panicked => cap = 0
    BY DEF SizesInv
  <2>7. QED BY <2>1, <2>2, <2>4, <2>5, <2>6 DEF Pooled
<1>3. QED BY <1>1, <1>2 DEF SizesInv

(* The buffer of a Serializer has the size of one of the pools and holds   *)
(* what was appended, whatever the appends; only one that was asked for no *)
(* byte has none, and only that one panics; and the two roundings agree on *)
(* the sizes (umath/math.go 5-29, serialize.go 39-90, runtime/pool 9-60).  *)
THEOREM PooledCorrect == SizesSpec => []Pooled
BY SizesStart, SizesKept, PooledThen, PTL DEF SizesSpec

(* Slices of an equal size start at 0 and ascend; each replica has one or  *)
(* two.                                                                    *)
LEMMA CoveredThen == SizesInv => Covered
<1> SUFFICES ASSUME SizesInv, replicas > 0
             PROVE  /\ assignment[1].start = 0
                    /\ \A i \in 2 .. Len(assignment) : assignment[i - 1].start < assignment[i].start
                    /\ \A r \in 1 .. replicas : Share(r) \in {1, 2}
  BY DEF Covered
<1> USE SizesAssumption
<1> DEFINE n == replicas
<1>1. n \in Nat /\ n >= 1 /\ n <= Pow2[WordBits - 1] /\ assignment = EqualSlices(n)
  <2>1. PICK i \in 0 .. 32 : i < WordBits /\ MaxReplicas <= Pow2[i]
    BY DEF SizesAssumption
  <2>2. WordBits - 1 \in 0 .. WordBits /\ i \in 0 .. WordBits /\ i <= WordBits - 1
    BY <2>1, PowFacts
  <2>3. Pow2[WordBits - 1] \in Nat /\ Pow2[i] \in Nat
    BY <2>2, PowFacts
  <2>4. Pow2[i] <= Pow2[WordBits - 1]
    <3>1. CASE i = WordBits - 1
      BY <2>3, <3>1
    <3>2. CASE i < WordBits - 1
      <4>1. 2 * Pow2[i] <= Pow2[WordBits - 1]
        BY <2>2, <3>2, PowFacts
      <4>2. QED BY <2>3, <4>1
    <3>3. QED BY <2>2, <3>1, <3>2
  <2>5. QED BY <2>1, <2>3, <2>4 DEF SizesInv, SizesAssumption
<1>2. PICK k \in Nat : n <= k /\ k < 2 * n /\ DOMAIN assignment = 1 .. k
  BY <1>1, SlicesRight
<1>3. \A i \in 1 .. k : assignment[i].replica = ((i - 1) % n) + 1
  <2>1. \A i \in DOMAIN EqualSlices(n) : EqualSlices(n)[i].replica = ((i - 1) % n) + 1
    BY <1>1, SlicesRight
  <2>2. QED BY <1>1, <1>2, <2>1
<1>4. \A r \in 1 .. n : Share(r) \in {1, 2}
  <2> SUFFICES ASSUME NEW r \in 1 .. n PROVE Share(r) \in {1, 2}
    OBVIOUS
  <2>1. {i \in DOMAIN assignment : assignment[i].replica = r} = {i \in 1 .. k : ((i - 1) % n) + 1 = r}
    BY <1>2, <1>3
  <2>2. Cardinality({i \in 1 .. k : ((i - 1) % n) + 1 = r}) \in {1, 2}
    BY <1>1, <1>2, Shares
  <2>3. QED BY <2>1, <2>2 DEF Share
<1>5. assignment[1].start = 0
  BY <1>1, SlicesRight
<1>6. \A i \in 2 .. Len(assignment) : assignment[i - 1].start < assignment[i].start
  BY <1>1, SlicesRight
<1>7. QED BY <1>4, <1>5, <1>6

(* The slices of an assignment cut the whole key space and are shared      *)
(* evenly, for any number of replicas up to half the words (routing.go     *)
(* 12-39).                                                                 *)
THEOREM CoveredCorrect == SizesSpec => []Covered
BY SizesStart, SizesKept, CoveredThen, PTL DEF SizesSpec
=============================================================================
