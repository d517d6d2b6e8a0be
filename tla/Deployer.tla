------------------------------ MODULE Deployer ------------------------------
(***************************************************************************)
(* internal/tool/multi/deployer.go: the deployer of the multi-process      *)
(* deployment.  Components are placed in colocation groups; the first      *)
(* activation of a component in a group starts the group's akasalet.       *)
(*                                                                         *)
(* Every section of the deployer holds d.mu, and holds it over the calls   *)
(* it makes to akasalets.  The model takes a section apart into the calls  *)
(* it has left (todo): a step executes the first, an error drops the rest. *)
(***************************************************************************)
EXTENDS Placement

CONSTANTS Routed,  \* components with a router
          Free     \* d.mu has no holder

DefaultReplication == 1

VARIABLES
  mu,          \* holder of d.mu: Free, or the request <<akasalet, component>>
  todo,        \* what the section that holds d.mu has left to do
  started,     \* g.started
  addresses,   \* g.addresses
  envelopes,   \* g.envelopes
  assignment,  \* g.assignments: version (0: none) and replicas, per component
  subscribers, \* g.subscribers
  subscribed,  \* h.subscribed of each akasalet's handler
  home,        \* the group an akasalet was started for
  proc,        \* an akasalet's process and the goroutine in its e.Serve
  err,         \* d.err is set
  cancelled,   \* d.ctx is done
  watcher,     \* the goroutine that waits for d.ctx
  main         \* deploy: startRoot, wait, or returned

groupVars == <<started, addresses, envelopes, assignment>>
subVars   == <<subscribers, subscribed>>
procVars  == <<home, proc>>
stopVars  == <<err, cancelled, watcher, main>>
depVars   == <<mu, todo, groupVars, subVars, procVars, stopVars>>

NoAssignment == [version |-> 0, over |-> {}]

DepInit ==
  /\ mu = Free /\ todo = <<>>
  /\ started = [g \in Comps |-> {}]
  /\ addresses = [g \in Comps |-> {}]
  /\ envelopes = [g \in Comps |-> {}]
  /\ assignment = [c \in Comps |-> NoAssignment]
  /\ subscribers = [c \in Comps |-> <<>>]
  /\ subscribed = [p \in Lets |-> {}]
  /\ home = [p \in Lets |-> None]
  /\ proc = [p \in Lets |-> "none"]
  /\ err = FALSE /\ cancelled = FALSE
  /\ watcher = "waiting" /\ main = "root"

(* startRoot is a request of no akasalet.                                  *)
RootRequest == <<None, Root>>

Op(op, p, c) == [op |-> op, to |-> p, comp |-> c]
ToAll(op, ps, c) == [i \in 1..Len(ps) |-> Op(op, ps[i], c)]

(* A set in any order: that of a Go map, or one that does not matter.      *)
Orders(S) == Bijection(1..Cardinality(S), S)

(* A section with nothing left to do but to return an error.               *)
Error == <<Op("error", None, None)>>

(* d.routing and routingAlgo.                                              *)
Routing(c) ==
  [comp |-> c, local |-> FALSE, replicas |-> addresses[GroupOf[c]],
   version |-> assignment[c].version, over |-> assignment[c].over]
LocalRouting(c) ==
  [comp |-> c, local |-> TRUE, replicas |-> {}, version |-> 0, over |-> {}]
RoutingAlgo(a, replicas) == [version |-> a.version + 1, over |-> replicas]
-----------------------------------------------------------------------------
(* The sections.  SubscribedTo(p, c) and ActiveComponent(c) take d.mu and  *)
(* do what comes before the first call; an unknown component has nothing   *)
(* but an error to do.                                                     *)

(* deploy exits when startRoot fails.                                      *)
CanLock == mu = Free /\ main # "failed"

Hold(holder, ops) == CanLock /\ mu' = holder /\ todo' = ops

(* Mutated form of SubscribedTo: a local component is subscribed too.      *)
SubscribedTo_Always(p, c) ==
  LET isNew == c \notin subscribed[p]
      known == GroupOf[c] # None
      isLocal == c \notin Routed /\ GroupOf[c] = home[p]
  IN  /\ Hold(<<p, c>>,
           IF ~isNew THEN <<>>
           ELSE IF ~known THEN Error
           ELSE <<Op(IF isLocal THEN "local" ELSE "routing", p, c)>>)
      /\ subscribed' = [subscribed EXCEPT ![p] = @ \cup {c}]
      /\ subscribers' = IF isNew /\ known
                        THEN [subscribers EXCEPT ![c] = Append(@, p)] ELSE subscribers
      /\ UNCHANGED <<groupVars, procVars, stopVars>>

SubscribedTo(p, c) ==
  LET isNew == c \notin subscribed[p]
      known == GroupOf[c] # None
      isLocal == c \notin Routed /\ GroupOf[c] = home[p]
  IN  /\ Hold(<<p, c>>,
           IF ~isNew THEN <<>>
           ELSE IF ~known THEN Error
           ELSE <<Op(IF isLocal THEN "local" ELSE "routing", p, c)>>)
      /\ subscribed' = [subscribed EXCEPT ![p] = @ \cup {c}]
      /\ subscribers' = IF isNew /\ known /\ ~isLocal
                        THEN [subscribers EXCEPT ![c] = Append(@, p)] ELSE subscribers
      /\ UNCHANGED <<groupVars, procVars, stopVars>>

(* The first activation tells the group's akasalets, es, and then assigns. *)
FirstStart(es, c) == ToAll("components", es, c) \o <<Op("assign", None, c), Op("start", None, c)>>

ActiveComponent(holder, c) ==
  /\ IF GroupOf[c] = None THEN Hold(holder, Error)
     ELSE IF c \in started[GroupOf[c]] THEN Hold(holder, <<Op("start", None, c)>>)
     ELSE \E es \in Orders(envelopes[GroupOf[c]]) : Hold(holder, FirstStart(es, c))
  /\ started' = IF GroupOf[c] = None THEN started
                ELSE [started EXCEPT ![GroupOf[c]] = @ \cup {c}]
  /\ UNCHANGED <<addresses, envelopes, assignment, subVars, procVars, stopVars>>
-----------------------------------------------------------------------------
(* The steps of a section other than calls.                                *)

NextIs(op) == mu # Free /\ todo # <<>> /\ Head(todo).op = op

(* What the subscribers of c are told, before the rest of the section.     *)
TellSubscribers(c) == todo' = ToAll("routing", subscribers[c], c) \o Tail(todo)

(* activeComponent: the first assignment of a routed component, which its  *)
(* subscribers are told.                                                   *)
Assign ==
  LET c == Head(todo).comp
  IN  /\ NextIs("assign")
      /\ assignment' = IF c \in Routed
                       THEN [assignment EXCEPT ![c] = RoutingAlgo(NoAssignment, addresses[GroupOf[c]])]
                       ELSE assignment
      /\ TellSubscribers(c)
      /\ UNCHANGED <<mu, started, addresses, envelopes, subVars, procVars, stopVars>>

(* registerReplica: p joins g, the group's assignments are computed anew.  *)
Reassign(g, replicas) ==
  [c \in Comps |-> IF GroupOf[c] = g /\ assignment[c].version > 0
                   THEN RoutingAlgo(assignment[c], replicas) ELSE assignment[c]]

(* startColocationGroup: NewEnvelope starts an akasalet, which is          *)
(* registered before it is told its components and listed.                 *)
StartReplica(p, g) ==
  /\ proc' = [proc EXCEPT ![p] = "up"]
  /\ home' = [home EXCEPT ![p] = g]
  /\ addresses' = [addresses EXCEPT ![g] = @ \cup {p}]
  /\ assignment' = Reassign(g, addresses[g] \cup {p})
  /\ \E cs \in Orders(started[g]) :
       todo' = [i \in 1..Len(cs) |-> Op("notify", None, cs[i])]
                 \o <<Op("components", p, None), Op("append", p, None)>>

NeedsReplica(g) == Cardinality(envelopes[g]) # DefaultReplication

(* startColocationGroup with nothing to start.                             *)
HasReplica ==
  /\ NextIs("start") /\ ~err /\ ~NeedsReplica(GroupOf[Head(todo).comp])
  /\ todo' = Tail(todo)
  /\ UNCHANGED <<mu, groupVars, subVars, procVars, stopVars>>

StartColocationGroup(p) ==
  LET g == GroupOf[Head(todo).comp]
  IN  /\ NextIs("start") /\ ~err /\ NeedsReplica(g)
      /\ StartReplica(p, g)
      /\ UNCHANGED <<mu, started, envelopes, subVars, stopVars>>

(* registerReplica tells the subscribers of every started component, one   *)
(* component after the other.                                              *)
Notify ==
  /\ NextIs("notify")
  /\ TellSubscribers(Head(todo).comp)
  /\ UNCHANGED <<mu, groupVars, subVars, procVars, stopVars>>

AppendEnvelope ==
  LET p == Head(todo).to
  IN  /\ NextIs("append")
      /\ envelopes' = [envelopes EXCEPT ![home[p]] = @ \cup {p}]
      /\ todo' = Tail(todo)
      /\ UNCHANGED <<mu, started, addresses, assignment, subVars, procVars, stopVars>>

(* What ends a section with an error: a failed call, an unknown component, *)
(* or a deployment that stops.  d.ctx is only done after d.err is set, so  *)
(* no section works under a done context after this test.                  *)
Erroneous == NextIs("error") \/ (NextIs("start") /\ err)

Unlock == mu' = Free /\ todo' = <<>> /\ UNCHANGED <<groupVars, subVars, procVars>>
-----------------------------------------------------------------------------
(* stop and wait.                                                          *)

(* A process ends by itself or because d.ctx is done; its e.Serve returns. *)
ProcessEnds(p) ==
  /\ proc[p] = "up"
  /\ proc' = [proc EXCEPT ![p] = "down"]
  /\ UNCHANGED <<mu, todo, groupVars, subVars, home, stopVars>>

(* d.stop by the goroutine of e.Serve: d.err under d.mu, then d.cancel.    *)
Stop(p) ==
  /\ proc[p] = "down" /\ CanLock
  /\ err' = TRUE
  /\ proc' = [proc EXCEPT ![p] = "cancel"]
  /\ UNCHANGED <<mu, todo, groupVars, subVars, home, cancelled, watcher, main>>

(* Mutated form of Cancel: d.stop does not cancel d.ctx.                   *)
Cancel_Not(p) ==
  /\ proc[p] = "cancel"
  /\ proc' = [proc EXCEPT ![p] = "done"]
  /\ UNCHANGED <<mu, todo, groupVars, subVars, home, stopVars>>

Cancel(p) ==
  /\ proc[p] = "cancel"
  /\ cancelled' = TRUE
  /\ proc' = [proc EXCEPT ![p] = "done"]
  /\ UNCHANGED <<mu, todo, groupVars, subVars, home, err, watcher, main>>

(* newDeployer's goroutine: d.stop when d.ctx is done.                     *)
Watch ==
  /\ watcher = "waiting" /\ cancelled /\ CanLock
  /\ err' = TRUE /\ watcher' = "done"
  /\ UNCHANGED <<mu, todo, groupVars, subVars, procVars, cancelled, main>>

(* deploy returns from d.wait when d.running has ended.                    *)
Wait ==
  /\ main = "wait" /\ mu = Free /\ watcher = "done"
  /\ \A p \in Lets : proc[p] \in {"none", "done"}
  /\ main' = "returned"
  /\ UNCHANGED <<mu, todo, groupVars, subVars, procVars, err, cancelled, watcher>>
=============================================================================
