------------------------ MODULE RoutingResolver_proofs ------------------------
(***************************************************************************)
(* For any number of watchers and updates: no watcher sleeps through an    *)
(* update, and every stub works with a list that was published.            *)
(***************************************************************************)
EXTENDS RoutingResolver, TLAPS

(* The condition variable, as the resolver uses it.  No error group, no    *)
(* metric and no slices have a part here: they are those that nothing      *)
(* happens to.                                                             *)
CP == INSTANCE Library_proofs WITH
        Procs <- Watchers, Tasks <- {}, Errors <- {}, Limits <- {}, nil <- NoList, task <- <<>>,
        groupErr <- NoList, cancelled <- FALSE, sem <- 0, result <- "none", early <- FALSE,
        Users <- {}, Values <- {}, BoundsOf <- {}, typ <- "gauge", bounds <- <<>>, counts <- <<>>,
        fValue <- 0, iValue <- 0, putCount <- 0, use <- <<>>, begun <- {}, over <- {}, snap <- <<>>,
        WordBits <- 1, PoolBits <- 0, MaxReplicas <- 0, Appends <- {}, replicas <- 0,
        assignment <- <<>>, version <- 0, len <- 0, cap <- 0, panicked <- FALSE

RcTypeOK ==
  /\ version \in 0..MaxUpdates
  /\ pc \in [Watchers -> {"connect", "first", "apply", "watch", "resolve", "check", "wait",
                          "fail", "ended"}]
  /\ v \in [Watchers -> 0..MaxUpdates]
  /\ at \in [Watchers -> {"out", "queued", "select", "relock"}]

(* A goroutine inside the Cond's Wait is at Resolve's call of it.          *)
AtWait == \A w \in Watchers : at[w] # "out" => pc[w] = "wait"

Knows == \A w \in CP!Waiting : v[w] = version

(* endpoints is what the current version was published with, and so is     *)
(* every result a stub holds or works with.                                *)
Paired ==
  /\ endpoints = published[version]
  /\ published \in [0..MaxUpdates -> Lists \cup {NoList}]
  /\ got \in [Watchers -> Results]
  /\ applied \in [Watchers -> Lists \cup {NoList}]
  /\ appliedAt \in [Watchers -> 0..MaxUpdates]
  /\ \A w \in Watchers :
       /\ appliedAt[w] <= version /\ applied[w] = published[appliedAt[w]]
       /\ got[w].version <= version /\ got[w].list = published[got[w].version]

ResInv == RcTypeOK /\ CP!CondInv /\ AtWait /\ Knows

(* The resolver's use of the Cond is a behaviour of the Cond.              *)
LEMMA StepsOfCond == ASSUME [Next]_vars PROVE [CP!Next]_(CP!condVars)
<1>1. ASSUME NEW l \in Lists, Update(l) PROVE CP!Next
  BY <1>1 DEF Update, C!Broadcast, CP!Broadcast, C!Listed, CP!Listed, CP!Next
<1>2. ASSUME NEW w \in Watchers, Lock(w) \/ Check(w) PROVE CP!Next
  BY <1>2 DEF Lock, Check, C!Lock, CP!Lock, C!Enqueue, CP!Enqueue, C!Unlock, CP!Unlock, CP!Next
<1>3. ASSUME NEW w \in Watchers, Wait(w) \/ Fail(w) PROVE CP!Next
  BY <1>3 DEF Wait, Fail, C!Release, CP!Release, C!Woken, CP!Woken, C!Cancelled, CP!Cancelled,
     C!Relock, CP!Relock, C!Unlock, CP!Unlock, C!Chan, CP!Chan, CP!InWait, CP!Next
<1>4. ASSUME NEW w \in Watchers, Connect(w) \/ Apply(w) \/ Watch(w) \/ Joined(w)
      PROVE  UNCHANGED CP!condVars
  BY <1>4 DEF Connect, Apply, Watch, Joined, condVars, CP!condVars
<1>5. ASSUME NEW w \in Watchers, Close(w) PROVE [CP!Next]_(CP!condVars)
  BY <1>5 DEF Close, C!Cancel, CP!Cancel, CP!Next, condVars, CP!condVars
<1>6. CASE UNCHANGED vars
  BY <1>6 DEF vars, condVars, CP!condVars
<1>7. QED BY <1>1, <1>2, <1>3, <1>4, <1>5, <1>6 DEF Next, WatcherStep

(* The resolver meets what module Cond assumes of its constants.           *)
LEMMA CondMet == CP!CondAssumption
BY ResolverAssumption DEF ResolverAssumption, CP!CondAssumption, MaxWaits

(* And what module Sizes assumes, of words of one bit.                     *)
LEMMA SizesMet == CP!SizesAssumption
<1> DEFINE Solves(g) == g = [i \in 0 .. 1 |-> IF i = 0 THEN 1 ELSE 2 * g[i - 1]]
<1>1. \E g : Solves(g)
  <2>1. Solves([i \in 0 .. 1 |-> i + 1])
    OBVIOUS
  <2> HIDE DEF Solves
  <2>2. QED BY <2>1
<1>2. Solves(CP!Pow2)
  <2> HIDE DEF Solves
  <2>1. Solves(CHOOSE g : Solves(g))
    BY <1>1, Zenon
  <2>2. QED BY <2>1, Zenon DEF CP!Pow2, Solves
<1>3. CP!Pow2[0] = 1
  <2>1. CP!Pow2 = [i \in 0 .. 1 |-> IF i = 0 THEN 1 ELSE 2 * CP!Pow2[i - 1]]
    BY <1>2
  <2>2. \A i \in 0 .. 1 : CP!Pow2[i] = IF i = 0 THEN 1 ELSE 2 * CP!Pow2[i - 1]
    BY <2>1, Zenon
  <2>3. QED BY <2>2
<1>4. 0 \in 0 .. 32 /\ 0 < 1 /\ 0 <= CP!Pow2[0]
  BY <1>3
<1>5. QED BY <1>4 DEF CP!SizesAssumption

LEMMA CondKept == ASSUME CP!CondInv, [Next]_vars PROVE CP!CondInv'
BY StepsOfCond, CondMet, SizesMet, CP!NextCond

(* Initially nobody waits and no list has been published.                  *)
THEOREM InitResolver == Init => ResInv /\ Paired
<1> SUFFICES ASSUME Init PROVE ResInv /\ Paired
  OBVIOUS
<1>1. CP!CondInv
  <2>1. CP!Init
    BY DEF Init, C!Init, CP!Init
  <2>2. QED BY <2>1, CondMet, SizesMet, CP!InitCond
<1>2. at = [w \in Watchers |-> "out"]
  BY DEF Init, C!Init
<1>3. RcTypeOK /\ Paired
  BY <1>2, ResolverAssumption DEF Init, RcTypeOK, Paired, Results, ResolverAssumption
<1>4. AtWait /\ Knows
  BY <1>2 DEF AtWait, Knows, CP!Waiting
<1>5. QED BY <1>1, <1>3, <1>4 DEF ResInv

(* A step of one watcher that keeps the version: it may begin to wait only *)
(* if it knows the version.                                                *)
LEMMA OwnStep ==
  ASSUME ResInv, NEW w \in Watchers, version' = version, closed' = closed,
         \A q \in Watchers \ {w} :
           pc'[q] = pc[q] /\ v'[q] = v[q] /\ at'[q] = at[q] /\ waits'[q] = waits[q],
         at'[w] # "out" => pc'[w] = "wait",
         at'[w] \in {"queued", "select"} =>
           \/ v'[w] = version
           \/ v'[w] = v[w] /\ waits'[w] = waits[w] /\ at[w] \in {"queued", "select"}
  PROVE  AtWait' /\ Knows'
<1>1. AtWait'
  BY DEF AtWait, ResInv
<1>2. ASSUME NEW q \in CP!Waiting' PROVE v'[q] = version
  <2>1. CASE q = w /\ v'[w] = version
    BY <2>1
  <2>2. CASE v'[q] # version \/ q # w
    <3>1. v'[q] = v[q] /\ waits'[q] = waits[q] /\ at[q] \in {"queued", "select"} /\ q \in Watchers
      BY <1>2, <2>2 DEF CP!Waiting
    <3>2. q \in CP!Waiting
      BY <1>2, <3>1 DEF CP!Waiting, CP!Chan
    <3>3. QED BY <3>1, <3>2 DEF Knows, ResInv
  <2>3. QED BY <2>1, <2>2
<1>3. QED BY <1>1, <1>2 DEF Knows

(* Goroutines that wait after a step waited before it or have just tested  *)
(* the version under the lock; a Broadcast leaves none.                    *)
LEMMA ResStep ==
  ASSUME ResInv, RcTypeOK', [Next]_vars
  PROVE  AtWait' /\ Knows'
<1>0. /\ RcTypeOK /\ AtWait /\ Knows /\ CP!CondInv /\ CP!CondInv'
  BY CondKept DEF ResInv
<1>1. ASSUME NEW l \in Lists, Update(l) PROVE AtWait' /\ Knows'
  <2>1. UNCHANGED <<pc, at>> /\ waiters' = <<>>
    BY <1>1 DEF Update, C!Broadcast, rcVars
  <2>2. CP!Waiting' = {}
    BY <1>0, <2>1 DEF CP!CondInv, CP!WakeUp, CP!Listed
  <2>3. QED BY <1>0, <2>1, <2>2 DEF AtWait, Knows
<1>2. ASSUME NEW w \in Watchers, Connect(w) \/ Apply(w) \/ Watch(w)
      PROVE  AtWait' /\ Knows'
  <2>1. /\ version' = version /\ closed' = closed /\ at' = at /\ waits' = waits
        /\ at[w] = "out"
    BY <1>0, <1>2 DEF Connect, Apply, Watch, resVars, condVars, AtWait
  <2>2. \A q \in Watchers \ {w} : pc'[q] = pc[q] /\ v'[q] = v[q]
    BY <1>0, <1>2 DEF RcTypeOK, Connect, Apply, Watch, Goto, rcVars
  <2>3. QED BY <2>1, <2>2, OwnStep
<1>3. ASSUME NEW w \in Watchers, Lock(w) \/ Fail(w)
      PROVE  AtWait' /\ Knows'
  <2>1. /\ version' = version /\ closed' = closed /\ at' = at /\ waits' = waits /\ v' = v
        /\ at[w] = "out"
    BY <1>0, <1>3 DEF Lock, Fail, C!Lock, C!Unlock, resVars, rcVars
  <2>2. \A q \in Watchers \ {w} : pc'[q] = pc[q]
    BY <1>0, <1>3 DEF RcTypeOK, Lock, Fail, Goto
  <2>3. QED BY <2>1, <2>2, OwnStep
<1>4. ASSUME NEW w \in Watchers, Check(w)
      PROVE  AtWait' /\ Knows'
  <2>1. version' = version /\ closed' = closed /\ v' = v /\ at[w] = "out"
    BY <1>4 DEF Check, C!Enqueue, C!Unlock, resVars
  <2>2. \A q \in Watchers \ {w} : pc'[q] = pc[q] /\ at'[q] = at[q] /\ waits'[q] = waits[q]
    BY <1>0, <1>4 DEF RcTypeOK, CP!CondInv, CP!TypeOK, Check, C!Enqueue, C!Unlock, Goto
  <2>3. at'[w] # "out" => pc'[w] = "wait" /\ v'[w] = version
    BY <1>0, <1>4 DEF RcTypeOK, Check, C!Enqueue, C!Unlock, Goto
  <2>4. QED BY <2>1, <2>2, <2>3, OwnStep
<1>5. ASSUME NEW w \in Watchers, Wait(w)
      PROVE  AtWait' /\ Knows'
  <2>1. version' = version /\ closed' = closed /\ v' = v /\ waits' = waits
    BY <1>5 DEF Wait, C!Release, C!Woken, C!Cancelled, C!Relock, resVars, rcVars
  <2>2. \A q \in Watchers \ {w} : pc'[q] = pc[q] /\ at'[q] = at[q]
    BY <1>0, <1>5 DEF RcTypeOK, Wait, C!Release, C!Woken, C!Cancelled, C!Relock, Goto
  <2>3. /\ at'[w] # "out" => pc'[w] = "wait"
        /\ at'[w] \in {"queued", "select"} => at[w] \in {"queued", "select"}
    BY <1>0, <1>5 DEF RcTypeOK, Wait, C!Release, C!Woken, C!Cancelled, C!Relock, Goto
  <2>4. QED BY <2>1, <2>2, <2>3, OwnStep
<1>6. ASSUME NEW w \in Watchers, Close(w) \/ Joined(w)
      PROVE  AtWait' /\ Knows'
  <2>1. UNCHANGED <<version, closed, at, waits, v, pc>>
    BY <1>6 DEF Close, Joined, C!Cancel, resVars, condVars
  <2>2. QED BY <1>0, <2>1 DEF AtWait, Knows, CP!Waiting, CP!Chan
<1>7. CASE UNCHANGED vars
  BY <1>0, <1>7 DEF vars, resVars, condVars, rcVars, AtWait, Knows, CP!Waiting, CP!Chan
<1>8. QED BY <1>1, <1>2, <1>3, <1>4, <1>5, <1>6, <1>7 DEF Next, WatcherStep

(* Types, and pairs: only Update changes what is published, and only for   *)
(* the version it introduces.                                              *)
LEMMA PairedStep ==
  ASSUME ResInv, Paired, [Next]_vars
  PROVE  RcTypeOK' /\ Paired'
<1>0. RcTypeOK /\ MaxUpdates \in Nat /\ at' \in [Watchers -> {"out", "queued", "select", "relock"}]
  BY CondKept, ResolverAssumption DEF ResInv, ResolverAssumption, CP!CondInv, CP!TypeOK
<1>1. ASSUME NEW l \in Lists, Update(l) PROVE RcTypeOK' /\ Paired'
  <2>1. RcTypeOK'
    BY <1>0, <1>1 DEF RcTypeOK, Update, rcVars
  <2>2. /\ version \in 0..MaxUpdates /\ version + 1 \in 0..MaxUpdates /\ version' = version + 1
        /\ endpoints' = l /\ published' = [published EXCEPT ![version + 1] = l]
        /\ UNCHANGED <<got, applied, appliedAt>>
    BY <1>0, <1>1 DEF RcTypeOK, Update, rcVars
  <2>3. \A n \in 0..version : published'[n] = published[n] /\ n <= version'
    BY <1>0, <2>2 DEF Paired
  <2>4. \A w \in Watchers : appliedAt[w] \in 0..version /\ got[w].version \in 0..version
    BY <2>2 DEF Paired, Results
  <2>5. endpoints' = published'[version'] /\ published' \in [0..MaxUpdates -> Lists \cup {NoList}]
    BY <2>2 DEF Paired
  <2>6. QED BY <2>1, <2>2, <2>3, <2>4, <2>5 DEF Paired
<1>2. ASSUME NEW w \in Watchers, Connect(w) \/ Check(w) PROVE RcTypeOK' /\ Paired'
  <2>1. /\ UNCHANGED resVars /\ UNCHANGED <<v, applied, appliedAt>>
        /\ \/ got' = got
           \/ got' = [got EXCEPT ![w] = [list |-> endpoints, version |-> version]]
    BY <1>2 DEF Connect, Check, rcVars
  <2>2. [list |-> endpoints, version |-> version] \in Results
    BY <1>0 DEF RcTypeOK, Paired, Results
  <2>3. /\ got' \in [Watchers -> Results]
        /\ \A q \in Watchers : got'[q] = got[q] \/ got'[q] = [list |-> endpoints, version |-> version]
    BY <2>1, <2>2 DEF Paired
  <2>4. \A q \in Watchers : got'[q].version <= version /\ got'[q].list = published[got'[q].version]
    BY <1>0, <2>3 DEF RcTypeOK, Paired
  <2>5. Paired'
    BY <2>1, <2>3, <2>4 DEF Paired, resVars
  <2>6. QED BY <1>0, <1>2, <2>1, <2>5 DEF RcTypeOK, Connect, Check, Goto, resVars
<1>3. ASSUME NEW w \in Watchers, Apply(w) PROVE RcTypeOK' /\ Paired'
  <2>1. got[w].version \in 0..MaxUpdates /\ got[w].list \in Lists \cup {NoList}
    BY DEF Paired, Results
  <2>2. RcTypeOK'
    BY <1>0, <1>3, <2>1 DEF RcTypeOK, Apply, Goto, resVars
  <2>0. UNCHANGED <<resVars, got>>
    BY <1>3 DEF Apply
  <2>3. /\ applied' \in [Watchers -> Lists \cup {NoList}] /\ appliedAt' \in [Watchers -> 0..MaxUpdates]
        /\ \A q \in Watchers : \/ applied'[q] = applied[q] /\ appliedAt'[q] = appliedAt[q]
                               \/ applied'[q] = got[q].list /\ appliedAt'[q] = got[q].version
    <3>0. applied \in [Watchers -> Lists \cup {NoList}] /\ appliedAt \in [Watchers -> 0..MaxUpdates]
      BY DEF Paired
    <3>1. CASE UNCHANGED <<applied, appliedAt>>
      BY <3>0, <3>1
    <3>2. CASE /\ applied' = [applied EXCEPT ![w] = got[w].list]
               /\ appliedAt' = [appliedAt EXCEPT ![w] = got[w].version]
      BY <2>1, <3>0, <3>2
    <3>3. QED BY <1>3, <3>1, <3>2 DEF Apply
  <2>4. QED BY <2>0, <2>2, <2>3 DEF Paired, resVars
<1>4. ASSUME NEW w \in Watchers,
             Watch(w) \/ Lock(w) \/ Wait(w) \/ Fail(w) \/ Close(w) \/ Joined(w)
      PROVE  RcTypeOK' /\ Paired'
  <2>1. UNCHANGED <<version, endpoints, published, v, got, applied, appliedAt>>
    BY <1>4 DEF Watch, Lock, Wait, Fail, Close, Joined, resVars, rcVars
  <2>2. pc' \in [Watchers -> {"connect", "first", "apply", "watch", "resolve", "check", "wait",
                              "fail", "ended"}]
    BY <1>0, <1>4 DEF RcTypeOK, Watch, Lock, Wait, Fail, Close, Joined, Goto
  <2>3. QED BY <1>0, <2>1, <2>2 DEF RcTypeOK, Paired
<1>5. CASE UNCHANGED vars
  BY <1>0, <1>5 DEF vars, resVars, rcVars, RcTypeOK, Paired
<1>6. QED BY <1>1, <1>2, <1>3, <1>4, <1>5 DEF Next, WatcherStep

(* Every step keeps the invariant.                                         *)
THEOREM NextResolver == ResInv /\ Paired /\ [Next]_vars => ResInv' /\ Paired'
BY PairedStep, ResStep, CondKept DEF ResInv

LEMMA ResolverInvariant == Spec => [](ResInv /\ Paired)
BY InitResolver, NextResolver, PTL DEF Spec

(* No watcher sleeps through an update: while its channel is open it knows *)
(* the current version and the next Broadcast reaches it.                  *)
THEOREM NoMissedUpdateCorrect == Spec => []NoMissedUpdate
<1>1. ResInv => NoMissedUpdate
  BY DEF ResInv, Knows, CP!CondInv, CP!WakeUp, NoMissedUpdate, C!Waiting, CP!Waiting,
     C!Chan, CP!Chan, C!Listed, CP!Listed
<1>2. QED BY <1>1, ResolverInvariant, PTL

(* Every stub works with a list under the version it was published with.   *)
THEOREM AppliedIsPublishedCorrect == Spec => []AppliedIsPublished
<1>1. Paired => AppliedIsPublished
  BY DEF Paired, AppliedIsPublished
<1>2. QED BY <1>1, ResolverInvariant, PTL
-----------------------------------------------------------------------------
(* What a stub is about to take is no older than what it has.              *)
Forward ==
  /\ shut \in [Watchers -> BOOLEAN]
  /\ \A w \in Watchers : pc[w] \in {"first", "apply"} => appliedAt[w] <= got[w].version

LEMMA ForwardStep ==
  ASSUME ResInv, Paired, Forward, [Next]_vars
  PROVE  Forward'
<1>0. /\ pc \in [Watchers -> {"connect", "first", "apply", "watch", "resolve", "check", "wait",
                              "fail", "ended"}]
      /\ got \in [Watchers -> Results]
      /\ \A w \in Watchers : appliedAt[w] <= version
  BY DEF ResInv, RcTypeOK, Paired
<1>1. ASSUME NEW w \in Watchers, Connect(w) \/ Check(w) PROVE Forward'
  <2>1. /\ appliedAt' = appliedAt
        /\ \A q \in Watchers \ {w} : pc'[q] = pc[q] /\ got'[q] = got[q]
        /\ pc'[w] \in {"first", "apply"} => got'[w].version = version
    BY <1>0, <1>1 DEF Connect, Check, Goto
  <2>2. shut' = shut
    BY <1>1 DEF Connect, Check
  <2>3. QED BY <1>0, <2>1, <2>2 DEF Forward
<1>2. ASSUME NEW w \in Watchers, Apply(w) PROVE Forward'
  <2>1. /\ got' = got /\ pc'[w] = "watch"
        /\ \A q \in Watchers \ {w} : pc'[q] = pc[q] /\ appliedAt'[q] = appliedAt[q]
    <3>1. appliedAt \in [Watchers -> 0..MaxUpdates]
      BY DEF Paired
    <3>2. QED BY <1>0, <1>2, <3>1 DEF Apply, Goto
  <2>2. shut' = shut
    BY <1>2 DEF Apply
  <2>3. QED BY <2>1, <2>2 DEF Forward
<1>3. ASSUME NEW w \in Watchers, Watch(w) \/ Lock(w) \/ Wait(w) \/ Fail(w) PROVE Forward'
  <2>1. /\ UNCHANGED <<got, appliedAt, shut>>
        /\ \A q \in Watchers : pc'[q] = pc[q] \/ pc'[q] \notin {"first", "apply"}
    BY <1>0, <1>3 DEF Watch, Lock, Wait, Fail, Goto, rcVars
  <2>2. QED BY <2>1 DEF Forward
<1>4. CASE (\E l \in Lists : Update(l)) \/ (\E w \in Watchers : Joined(w)) \/ UNCHANGED vars
  <2>1. UNCHANGED <<pc, got, appliedAt, shut>>
    BY <1>4 DEF Update, Joined, vars, rcVars
  <2>2. QED BY <2>1 DEF Forward
<1>5. ASSUME NEW w \in Watchers, Close(w) PROVE Forward'
  <2>1. UNCHANGED <<pc, got, appliedAt>> /\ shut' \in [Watchers -> BOOLEAN]
    BY <1>5 DEF Close, Forward
  <2>2. QED BY <2>1 DEF Forward
<1>6. QED BY <1>1, <1>2, <1>3, <1>4, <1>5 DEF Next, WatcherStep

(* A step of the resolver is a step of Subscription: an update publishes,  *)
(* Apply catches up, or finds what it has, and Close stops.                *)
LEMMA Implements ==
  ASSUME ResInv, Paired, Forward, [Next]_vars
  PROVE  [Latest!Next]_(Latest!subVars)
<1>0. /\ appliedAt \in [Watchers -> 0..MaxUpdates] /\ version \in 0..MaxUpdates
      /\ MaxUpdates \in Nat
  BY ResolverAssumption DEF ResolverAssumption, ResInv, RcTypeOK, Paired
<1>1. ASSUME NEW l \in Lists, Update(l) PROVE Latest!Next
  BY <1>1 DEF Update, rcVars, Latest!Next, Latest!Publish
<1>2. ASSUME NEW w \in Watchers, Apply(w) PROVE [Latest!Next]_(Latest!subVars)
  <2>1. UNCHANGED <<version, shut>>
    BY <1>2 DEF Apply, resVars
  <2>2. CASE appliedAt' = appliedAt
    BY <2>1, <2>2 DEF Latest!subVars
  <2>3. CASE appliedAt' # appliedAt
    <3> DEFINE n == got[w].version
    <3>1. ~shut[w] /\ appliedAt' = [appliedAt EXCEPT ![w] = n]
      BY <1>2, <2>3 DEF Apply
    <3>2. n \in 0..MaxUpdates /\ n <= version /\ appliedAt[w] <= n /\ n # appliedAt[w]
      BY <1>0, <1>2, <2>3, <3>1 DEF Paired, Results, Forward, Apply
    <3>3. n \in (appliedAt[w] + 1)..version
      BY <1>0, <3>2
    <3>4. Latest!CatchUp(w)
      BY <2>1, <3>1, <3>3 DEF Latest!CatchUp
    <3>5. QED BY <3>4 DEF Latest!Next
  <2>4. QED BY <2>2, <2>3
<1>3. ASSUME NEW w \in Watchers, Close(w) PROVE [Latest!Next]_(Latest!subVars)
  <2>1. UNCHANGED <<version, appliedAt>>
    BY <1>3 DEF Close, resVars
  <2>2. CASE UNCHANGED shut
    BY <2>1, <2>2 DEF Latest!subVars
  <2>3. CASE shut' = [shut EXCEPT ![w] = TRUE] /\ shut' # shut
    <3>1. shut \in [Watchers -> BOOLEAN]
      BY DEF Forward
    <3>2. ~shut[w] /\ \A q \in Watchers : shut'[q] <=> shut[q] \/ q = w
      BY <2>3, <3>1
    <3>3. {q \in Watchers : shut'[q]} = {q \in Watchers : shut[q]} \cup {w}
      BY <3>2
    <3>4. Latest!Stop(w)
      BY <2>1, <3>2, <3>3 DEF Latest!Stop
    <3>5. QED BY <3>4 DEF Latest!Next
  <2>4. QED BY <1>3, <2>2, <2>3 DEF Close
<1>4. ASSUME UNCHANGED <<version, appliedAt, shut>> PROVE UNCHANGED Latest!subVars
  BY <1>4 DEF Latest!subVars
<1>5. ASSUME NEW w \in Watchers,
             Connect(w) \/ Watch(w) \/ Lock(w) \/ Check(w) \/ Wait(w) \/ Fail(w) \/ Joined(w)
      PROVE  UNCHANGED <<version, appliedAt, shut>>
  BY <1>5 DEF Connect, Watch, Lock, Check, Wait, Fail, Joined, resVars, rcVars
<1>6. QED BY <1>1, <1>2, <1>3, <1>4, <1>5 DEF Next, WatcherStep, vars, resVars, rcVars

(* The safety half of LatestSpec: stubs take published lists only, move    *)
(* forward only, and take nothing once they are closed (routing.go 52-71,  *)
(* reconnectionConnection.updateEndpoints).                                *)
THEOREM ResolverImplements == Spec => Latest!Init /\ [][Latest!Next]_(Latest!subVars)
<1>1. Init => Latest!Init /\ Forward
  BY DEF Init, Latest!Init, Forward
<1>2. ResInv /\ Paired /\ Forward /\ [Next]_vars => Forward' /\ [Latest!Next]_(Latest!subVars)
  BY ForwardStep, Implements
<1>3. QED BY <1>1, <1>2, ResolverInvariant, PTL DEF Spec
=============================================================================
