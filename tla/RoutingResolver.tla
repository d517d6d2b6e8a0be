--------------------------- MODULE RoutingResolver ---------------------------
(***************************************************************************)
(* internal/akasar/routing.go: the resolver a RemoteAkasaLet updates when  *)
(* the deployer sends routing info, and the stubs (reconnectionConnection) *)
(* that Resolve from it: Connect once, then the watchResolver goroutine    *)
(* until Close.  rr.mu and rr.changed are a Cond (module Cond).  The       *)
(* version is fresh with every update; the model counts.                   *)
(***************************************************************************)
EXTENDS Naturals, Sequences, FiniteSets

CONSTANTS Watchers,   \* stubs, each with its watchResolver goroutine
          Lists,      \* endpoint lists
          NoList,     \* the nil list before the first update
          Free,
          MaxUpdates  \* bound: updates of the resolver

ASSUME ResolverAssumption ==
  /\ Free \notin Watchers /\ NoList \notin Lists /\ MaxUpdates \in Nat

VARIABLES
  version, endpoints,  \* rr.version, rr.endpoints
  published,           \* history: the list published with each version
  lock, waiters, closed, waits, at, err, ctxDone,  \* rr.mu and rr.changed
  pc,        \* where each watcher stands
  v,         \* watchResolver's v
  got,       \* what Resolve returned
  applied,   \* the endpoints of the stub's last updateEndpoints
  appliedAt, \* and their version
  shut,      \* rc.closed
  closing    \* where the stub's Close stands

(* A watcher waits at most once per version and once more when it closes.  *)
MaxWaits == MaxUpdates + 1

C == INSTANCE Cond WITH Procs <- Watchers

resVars  == <<version, endpoints, published>>
condVars == <<lock, waiters, closed, waits, at, err, ctxDone>>
rcVars   == <<v, got, applied, appliedAt, shut, closing>>
vars     == <<resVars, condVars, pc, rcVars>>

Init ==
  /\ C!Init
  /\ version = 0 /\ endpoints = NoList
  /\ published = [n \in 0..MaxUpdates |-> NoList]
  /\ pc = [w \in Watchers |-> "connect"]
  /\ v = [w \in Watchers |-> 0]
  /\ got = [w \in Watchers |-> [list |-> NoList, version |-> 0]]
  /\ applied = [w \in Watchers |-> NoList]
  /\ appliedAt = [w \in Watchers |-> 0]
  /\ shut = [w \in Watchers |-> FALSE]
  /\ closing = [w \in Watchers |-> "open"]

Goto(w, l) == pc' = [pc EXCEPT ![w] = l]
-----------------------------------------------------------------------------
(* Mutated form of Update: the Broadcast is missing.                       *)
Update_Silent(l) ==
  /\ lock = Free /\ version < MaxUpdates
  /\ version' = version + 1
  /\ endpoints' = l
  /\ published' = [published EXCEPT ![version + 1] = l]
  /\ UNCHANGED condVars
  /\ UNCHANGED <<pc, rcVars>>

(* Mutated form of Update: the list is stored after the version, outside   *)
(* the section, and a Resolve in between misses it.                        *)
Update_KeepList(l) ==
  /\ lock = Free /\ version < MaxUpdates
  /\ version' = version + 1
  /\ published' = [published EXCEPT ![version + 1] = l]
  /\ C!Broadcast
  /\ UNCHANGED <<endpoints, pc, rcVars>>

(* update, all of it under rr.mu.                                          *)
Update(l) ==
  /\ lock = Free /\ version < MaxUpdates
  /\ version' = version + 1
  /\ endpoints' = l
  /\ published' = [published EXCEPT ![version + 1] = l]
  /\ C!Broadcast
  /\ UNCHANGED <<pc, rcVars>>

(* Connect's Resolve(ctx, nil): what is there, without waiting.            *)
Connect(w) ==
  /\ pc[w] = "connect" /\ lock = Free
  /\ got' = [got EXCEPT ![w] = [list |-> endpoints, version |-> version]]
  /\ Goto(w, "first")
  /\ UNCHANGED <<resVars, condVars, v, applied, appliedAt, shut, closing>>

(* updateEndpoints, which a closed stub refuses; v moves on in any case.   *)
Apply(w) ==
  /\ pc[w] \in {"first", "apply"}
  /\ v' = [v EXCEPT ![w] = got[w].version]
  /\ IF shut[w] THEN UNCHANGED <<applied, appliedAt>>
     ELSE /\ applied' = [applied EXCEPT ![w] = got[w].list]
          /\ appliedAt' = [appliedAt EXCEPT ![w] = got[w].version]
  /\ Goto(w, "watch")
  /\ UNCHANGED <<resVars, condVars, got, shut, closing>>

(* watchResolver's r.Continue(ctx).                                        *)
Watch(w) ==
  /\ pc[w] = "watch"
  /\ Goto(w, IF ctxDone[w] THEN "ended" ELSE "resolve")
  /\ UNCHANGED <<resVars, condVars, rcVars>>

Lock(w) ==
  /\ pc[w] = "resolve"
  /\ C!Lock(w)
  /\ Goto(w, "check")
  /\ UNCHANGED <<resVars, rcVars>>

(* The test of Resolve's loop: wait, or return and unlock.                 *)
Check(w) ==
  /\ pc[w] = "check"
  /\ IF v[w] = version
     THEN C!Enqueue(w) /\ Goto(w, "wait") /\ UNCHANGED got
     ELSE /\ C!Unlock(w)
          /\ got' = [got EXCEPT ![w] = [list |-> endpoints, version |-> version]]
          /\ Goto(w, "apply")
  /\ UNCHANGED <<resVars, v, applied, appliedAt, shut, closing>>

(* rr.changed.Wait(ctx).                                                   *)
Wait(w) ==
  /\ pc[w] = "wait"
  /\ \/ C!Release(w) /\ UNCHANGED pc
     \/ C!Woken(w) /\ UNCHANGED pc
     \/ C!Cancelled(w) /\ UNCHANGED pc
     \/ C!Relock(w) /\ Goto(w, IF err[w] THEN "fail" ELSE "check")
  /\ UNCHANGED <<resVars, rcVars>>

(* Resolve returns the error of Wait; watchResolver logs and goes on.      *)
Fail(w) ==
  /\ pc[w] = "fail"
  /\ C!Unlock(w)
  /\ Goto(w, "watch")
  /\ UNCHANGED <<resVars, rcVars>>

(* Mutated form of Close: the context is not cancelled.                    *)
Close_NoCancel(w) ==
  /\ \/ /\ closing[w] = "open" /\ pc[w] \notin {"connect", "first"}
        /\ shut' = [shut EXCEPT ![w] = TRUE]
        /\ closing' = [closing EXCEPT ![w] = "cancel"]
        /\ UNCHANGED condVars
     \/ /\ closing[w] = "cancel"
        /\ closing' = [closing EXCEPT ![w] = "join"]
        /\ UNCHANGED <<condVars, shut>>
  /\ UNCHANGED <<resVars, pc, v, got, applied, appliedAt>>

(* Close of a stub Connect has returned: the  section under rc.mu, then    *)
(* cancelResolver ...                                                      *)
Close(w) ==
  /\ \/ /\ closing[w] = "open" /\ pc[w] \notin {"connect", "first"}
        /\ shut' = [shut EXCEPT ![w] = TRUE]
        /\ closing' = [closing EXCEPT ![w] = "cancel"]
        /\ UNCHANGED condVars
     \/ /\ closing[w] = "cancel"
        /\ C!Cancel(w)
        /\ closing' = [closing EXCEPT ![w] = "join"]
        /\ UNCHANGED shut
  /\ UNCHANGED <<resVars, pc, v, got, applied, appliedAt>>

(* ... and resolverDone.Wait().                                            *)
Joined(w) ==
  /\ closing[w] = "join" /\ pc[w] = "ended"
  /\ closing' = [closing EXCEPT ![w] = "closed"]
  /\ UNCHANGED <<resVars, condVars, pc, v, got, applied, appliedAt, shut>>

WatcherStep(w) ==
  \/ Connect(w) \/ Apply(w) \/ Watch(w) \/ Lock(w) \/ Check(w) \/ Wait(w) \/ Fail(w)

Next ==
  \/ \E l \in Lists : Update(l)
  \/ \E w \in Watchers : WatcherStep(w) \/ Close(w) \/ Joined(w)

Spec == Init /\ [][Next]_vars

(* The goroutines are scheduled and a Go mutex is starvation free.         *)
FairSpec ==
  /\ Spec
  /\ \A w \in Watchers :
       /\ SF_vars(WatcherStep(w))
       /\ WF_vars(closing[w] # "open" /\ (Close(w) \/ Joined(w)))
-----------------------------------------------------------------------------
Results == [list : Lists \cup {NoList}, version : 0..MaxUpdates]

TypeOK ==
  /\ C!TypeOK
  /\ version \in 0..MaxUpdates /\ endpoints \in Lists \cup {NoList}
  /\ published \in [0..MaxUpdates -> Lists \cup {NoList}]
  /\ pc \in [Watchers -> {"connect", "first", "apply", "watch", "resolve", "check", "wait",
                          "fail", "ended"}]
  /\ v \in [Watchers -> 0..MaxUpdates]
  /\ got \in [Watchers -> Results]
  /\ applied \in [Watchers -> Lists \cup {NoList}]
  /\ appliedAt \in [Watchers -> 0..MaxUpdates]
  /\ shut \in [Watchers -> BOOLEAN]
  /\ closing \in [Watchers -> {"open", "cancel", "join", "closed"}]

(* No watcher sleeps through an update: while its channel is open it knows *)
(* the current version, and its channel is where the next update will find *)
(* it (routing.go 36-40, 48-50).                                           *)
NoMissedUpdate ==
  \A w \in C!Waiting : v[w] = version /\ C!Chan(w) \in C!Listed

(* A stub works with a list that was published, under the version it was   *)
(* published with: Resolve never pairs a list with another version.        *)
AppliedIsPublished ==
  \A w \in Watchers :
    /\ applied[w] = published[appliedAt[w]]
    /\ pc[w] \in {"first", "apply"} => got[w].list = published[got[w].version]

(* Close returns: a watcher asleep in Resolve is woken by its context.     *)
CloseReturns == \A w \in Watchers : closing[w] = "cancel" ~> closing[w] = "closed"

(* The resolver implements Subscription: stubs only move forward, and one  *)
(* that is not closed reaches the last published list.                     *)
Latest == INSTANCE Subscription WITH
  Subscribers <- Watchers,
  Last        <- MaxUpdates,
  published   <- version,
  seen        <- appliedAt,
  stopped     <- {w \in Watchers : shut[w]}
LatestSpec == Latest!Spec
=============================================================================
