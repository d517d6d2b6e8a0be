----------------------------- MODULE Deployment -----------------------------
(***************************************************************************)
(* The multi-process deployment: the deployer (module Deployer) and its    *)
(* akasalets (module Akasalet), which call one another over the            *)
(* connections of ClientConn and ServerConn.                               *)
(*                                                                         *)
(* A call to a live akasalet is executed once, or fails when its           *)
(* connection breaks under it, executed or not.  A call to a dead akasalet *)
(* fails when it was in flight at the death, and otherwise never returns:  *)
(* startCall (call.go 235-266) looks for a connection until its context    *)
(* is done, and the deployer calls with context.TODO().                    *)
(***************************************************************************)
EXTENDS Deployer, Akasalet

(* Bound: processes that end by themselves, and calls and starts that fail *)
(* without such an end.                                                    *)
CONSTANT MaxTrouble

VARIABLE fails  \* calls and starts that failed so far

vars == <<depVars, letVars, fails>>

ASSUME DeploymentAssumption ==
  /\ Root \in Comps /\ Routed \subseteq Comps
  /\ Refs \in [Comps -> Seq(Comps)]
  /\ GroupOf \in [Comps -> Comps \cup {None}] /\ None \notin Comps
  /\ None \notin Lets /\ Free \notin (Lets \cup {None}) \X Comps
  /\ MaxTrouble \in Nat /\ IsFiniteSet(Lets) /\ IsFiniteSet(Comps)

Init == DepInit /\ LetInit /\ fails = 0

Calls   == {"components", "local", "routing"}
Target  == Head(todo).to
Calling == mu # Free /\ todo # <<>> /\ Head(todo).op \in Calls
Live(p) == proc[p] = "up"
Dead    == {p \in Lets : proc[p] \notin {"none", "up"}}
Trouble == Cardinality(Dead) + fails
-----------------------------------------------------------------------------
(* ActivateComponent: subscribedTo, then activeComponent, each under d.mu. *)

Subscribe(p, c) ==
  /\ act[p][c] = "subscribe"
  /\ SubscribedTo(p, c)
  /\ UNCHANGED <<letVars, fails>>

Active(p, c) ==
  /\ act[p][c] = "activate"
  /\ ActiveComponent(<<p, c>>, c)
  /\ UNCHANGED <<letVars, fails>>

StartRoot ==
  /\ main = "root"
  /\ ActiveComponent(RootRequest, Root)
  /\ UNCHANGED <<letVars, fails>>

(* A section ends without an error: the request goes on, or is answered.   *)
Finish ==
  /\ mu # Free /\ todo = <<>>
  /\ Unlock
  /\ IF mu = RootRequest
     THEN main' = "wait" /\ UNCHANGED act
     ELSE /\ act' = [act EXCEPT ![mu[1]][mu[2]] = IF @ = "subscribe" THEN "activate" ELSE "returned"]
          /\ UNCHANGED main
  /\ UNCHANGED <<err, cancelled, watcher, local, ends, version, over, impl, fails>>

(* A section ends with an error, and with it the request; deploy returns   *)
(* when it was startRoot's.                                                *)
Failed ==
  /\ Erroneous
  /\ Unlock
  /\ IF mu = RootRequest
     THEN main' = "failed" /\ UNCHANGED act
     ELSE act' = [act EXCEPT ![mu[1]][mu[2]] = "failed"] /\ UNCHANGED main
  /\ UNCHANGED <<err, cancelled, watcher, local, ends, version, over, impl, fails>>
-----------------------------------------------------------------------------
(* The calls of a section.                                                 *)

Info(op) == IF op.op = "local" THEN LocalRouting(op.comp) ELSE Routing(op.comp)

(* The handler of the akasalet that is called.                             *)
Handle(op) ==
  IF op.op = "components"
  THEN UpdateComponents(op.to, started[home[op.to]])
  ELSE UpdateRoutingInfo(op.to, Info(op))

Rejected(op) == op.op # "components" /\ Mismatch(op.to, Info(op))

CallReturns ==
  /\ Calling /\ Live(Target)
  /\ Handle(Head(todo))
  /\ todo' = Tail(todo)
  /\ UNCHANGED <<mu, groupVars, subVars, procVars, stopVars, fails>>

(* The akasalet rejects the routing info, or dies under the call.          *)
CallFails ==
  /\ Calling /\ (~Live(Target) \/ Rejected(Head(todo)))
  /\ todo' = Error
  /\ UNCHANGED <<mu, groupVars, subVars, procVars, stopVars, letVars, fails>>

(* The connection breaks before the request is read.                       *)
CallBreaks ==
  /\ Calling /\ Live(Target) /\ Trouble < MaxTrouble
  /\ todo' = Error
  /\ fails' = fails + 1
  /\ UNCHANGED <<mu, groupVars, subVars, procVars, stopVars, letVars>>

(* The connection breaks after the request is read.                        *)
ReplyBreaks ==
  /\ Calling /\ Live(Target) /\ Trouble < MaxTrouble
  /\ Handle(Head(todo))
  /\ todo' = Error
  /\ fails' = fails + 1
  /\ UNCHANGED <<mu, groupVars, subVars, procVars, stopVars>>
-----------------------------------------------------------------------------
(* NewEnvelope starts the process, which runs main if it hosts Root.  Ids  *)
(* are fresh; the model takes the next unused one.                         *)
Fresh(p) == proc[p] = "none" /\ p = CHOOSE q \in Lets : proc[q] = "none"

NewEnvelope(p) ==
  /\ Fresh(p)
  /\ StartColocationGroup(p)
  /\ impl' = IF Root \in started[GroupOf[Head(todo).comp]] THEN Begin(p, {Root}) ELSE impl
  /\ UNCHANGED <<local, ends, version, over, act, fails>>

NewEnvelopeFails ==
  /\ NextIs("start") /\ ~err /\ NeedsReplica(GroupOf[Head(todo).comp]) /\ Trouble < MaxTrouble
  /\ todo' = Error
  /\ fails' = fails + 1
  /\ UNCHANGED <<mu, groupVars, subVars, procVars, stopVars, letVars>>

(* The answer to an ActivateComponent is lost.                             *)
AnswerBreaks ==
  /\ mu \notin {Free, RootRequest} /\ todo = <<>> /\ Trouble < MaxTrouble
  /\ act[mu[1]][mu[2]] = "activate"
  /\ todo' = Error
  /\ fails' = fails + 1
  /\ UNCHANGED <<mu, groupVars, subVars, procVars, stopVars, letVars>>

Step ==
  \/ (Assign \/ HasReplica \/ Notify \/ AppendEnvelope) /\ UNCHANGED <<letVars, fails>>
  \/ \E p \in Lets : NewEnvelope(p)
  \/ CallReturns \/ Finish \/ Failed

Breaks == CallFails \/ CallBreaks \/ ReplyBreaks \/ NewEnvelopeFails \/ AnswerBreaks

Die(p) ==
  /\ Trouble < MaxTrouble
  /\ ProcessEnds(p)
  /\ UNCHANGED <<letVars, fails>>

Kill(p) ==
  /\ cancelled
  /\ ProcessEnds(p)
  /\ UNCHANGED <<letVars, fails>>

Ending == (Watch \/ Wait \/ \E p \in Lets : Stop(p) \/ Cancel(p)) /\ UNCHANGED <<letVars, fails>>

LetStep(p, c) ==
  /\ Live(p)
  /\ Activate(p, c) \/ Retry(p, c) \/ CreateLocal(p, c) \/ FillRef(p, c)
  /\ UNCHANGED <<depVars, fails>>

RemoteCall(q, p, c) == Live(q) /\ Live(p) /\ Serve(q, p, c) /\ UNCHANGED <<depVars, fails>>

Next ==
  \/ StartRoot \/ Step \/ Breaks \/ Ending
  \/ \E p \in Lets : Die(p) \/ Kill(p)
  \/ \E p \in Lets, c \in Comps : Subscribe(p, c) \/ Active(p, c) \/ LetStep(p, c)
  \/ \E p, q \in Lets, c \in Comps : RemoteCall(q, p, c)

Spec == Init /\ [][Next]_vars

(* Every goroutine runs on; sync.Mutex lets a waiting goroutine in.        *)
FairSpec ==
  /\ Spec
  /\ WF_vars(StartRoot) /\ WF_vars(Step)
  /\ WF_vars(\E p \in Lets : Cancel(p) /\ UNCHANGED <<letVars, fails>>)
  /\ SF_vars((Watch \/ Wait \/ \E p \in Lets : Stop(p)) /\ UNCHANGED <<letVars, fails>>)
  /\ \A p \in Lets : WF_vars(Kill(p))
  /\ \A p \in Lets, c \in Comps : WF_vars(LetStep(p, c))
  /\ \A c \in Comps : SF_vars(\E p \in Lets : (Live(p) /\ Subscribe(p, c)) \/ Active(p, c))
-----------------------------------------------------------------------------
(* No akasalet subscribes twice.                                           *)
BookTypes ==
  /\ started \in [Comps -> SUBSET Comps]
  /\ addresses \in [Comps -> SUBSET Lets] /\ envelopes \in [Comps -> SUBSET Lets]
  /\ assignment \in [Comps -> [version : Nat, over : SUBSET Lets]]
  /\ subscribers \in [Comps -> Seq(Lets)] /\ \A c \in Comps : IsInjective(subscribers[c])
  /\ subscribed \in [Lets -> SUBSET Comps]

SectionTypes ==
  /\ mu \in (Lets \X Comps) \cup {RootRequest, Free}
  /\ todo \in Seq([op : Calls \cup {"assign", "notify", "start", "append", "error"},
                    to : Lets \cup {None}, comp : Comps \cup {None}])

ProcessTypes ==
  /\ home \in [Lets -> Comps \cup {None}]
  /\ proc \in [Lets -> {"none", "up", "down", "cancel", "done"}]
  /\ err \in BOOLEAN /\ cancelled \in BOOLEAN
  /\ watcher \in {"waiting", "done"} /\ main \in {"root", "wait", "failed", "returned"}
  /\ fails \in 0..MaxTrouble

AkasaletTypes ==
  /\ local \in [Lets -> [Comps -> {"unset", "local", "remote"}]]
  /\ ends \in [Lets -> [Comps -> SUBSET Lets]] /\ over \in [Lets -> [Comps -> SUBSET Lets]]
  /\ version \in [Lets -> [Comps -> Nat]]
  /\ act \in [Lets -> [Comps -> {"none", "subscribe", "activate", "returned", "failed"}]]
  /\ impl \in [Lets -> [Comps -> Nat]] /\ \A p \in Lets, c \in Comps : impl[p][c] <= Len(Refs[c]) + 1

TypeOK == BookTypes /\ SectionTypes /\ ProcessTypes /\ AkasaletTypes

(* Nothing has gone wrong with a process or a connection so far.           *)
Healthy == Trouble = 0

Subscribers(c) == Range(subscribers[c])

(* An akasalet is never told two things about where a component runs: no   *)
(* routing info is rejected because local was written with another value,  *)
(* whichever calls failed (remote_akasalet.go 339-342).  And, unless       *)
(* something failed, an activated component is running somewhere and the   *)
(* akasalet that asked knows where (runtime.proto 325-328), or getIntf     *)
(* would wait for its routing info for ever.                               *)
LocalAgrees ==
  /\ Calling => ~Rejected(Head(todo))
  /\ Healthy => \A p \in Lets, c \in Comps :
       act[p][c] = "returned" =>
         /\ local[p][c] # "unset"
         /\ \E q \in Lets : home[q] = GroupOf[c] /\ impl[q][c] > 0

(* Between sections every subscriber of a component somebody has activated *)
(* knows the replicas of the component's group and its assignment, and the *)
(* assignment is over these replicas.  A subscriber of a component nobody  *)
(* has activated yet may be behind: registerReplica tells the subscribers  *)
(* of g.started only (deployer.go 320-328).                                *)
RoutingCurrent ==
  mu = Free /\ Healthy =>
    \A c \in UNION {started[g] : g \in Comps} : \A p \in Subscribers(c) :
      /\ ends[p][c] = addresses[GroupOf[c]]
      /\ version[p][c] = assignment[c].version /\ over[p][c] = assignment[c].over
      /\ assignment[c].version > 0 => assignment[c].over = addresses[GroupOf[c]]

(* Requests for components the configuration names that have not returned. *)
Pending ==
  {r \in Lets \X Comps : act[r[1]][r[2]] \in {"subscribe", "activate", "failed"} /\ GroupOf[r[2]] # None}

(* Activations of components the configuration names return, unless a      *)
(* process ends or a call fails: the calls, locks and Onces never wait for *)
(* one another in a circle.                                                *)
Activated == Pending # {} ~> Pending = {} \/ ~Healthy

(* The deployer calls a dead akasalet.                                     *)
Hung == Calling /\ ~Live(Target)

(* When a process ends the deployment ends, unless the deployer hangs in a *)
(* call to a dead akasalet, which holds d.mu for ever.                     *)
DeathEnds ==
  (Dead # {} ~> main \in {"returned", "failed"}) \/ <>[]Hung
=============================================================================
