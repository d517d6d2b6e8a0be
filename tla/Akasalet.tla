------------------------------ MODULE Akasalet ------------------------------
(***************************************************************************)
(* internal/akasar/remote_akasalet.go: how an akasalet (a process that     *)
(* hosts components) learns where its components run and creates them.     *)
(*                                                                         *)
(* UpdateComponents and UpdateRoutingInfo are called by the deployer.      *)
(* GetImpl creates a component once and fills its references in field      *)
(* order.  getIntf resolves one reference: it activates the component once *)
(* (activateInit), then waits for local to be written (register.WriteOnce) *)
(* and takes the local implementation or a stub.  A component whose own    *)
(* Init fails is left out, as are redirected components and listeners.     *)
(***************************************************************************)
EXTENDS Placement

CONSTANTS Refs  \* the components each component refers to, in field order

VARIABLES
  local,      \* c.local: "unset", "local" or "remote"
  ends,       \* c.resolver's endpoints
  version,    \* version of the assignment in c.balance, 0 before the first
  over,       \* and the replicas it is over
  act,        \* where the activation of a component stands in an akasalet
  impl        \* reference GetImpl fills next; 0 before implInit.Do

letVars == <<local, ends, version, over, act, impl>>

PerComp(x) == [p \in Lets |-> [c \in Comps |-> x]]

LetInit ==
  /\ local = PerComp("unset")
  /\ ends = PerComp({})
  /\ version = PerComp(0)
  /\ over = PerComp({})
  /\ act = PerComp("none")
  /\ impl = PerComp(0)

(* GetImpl has returned, or would return at once.                          *)
Ready(p, c) == impl[p][c] = Len(Refs[c]) + 1

(* GetImpl for each of cs: implInit runs createComponent the first time.   *)
Begin(p, cs) ==
  [impl EXCEPT ![p] = [c \in Comps |-> IF c \in cs /\ impl[p][c] = 0 THEN 1 ELSE impl[p][c]]]
-----------------------------------------------------------------------------
(* Calls from the deployer.                                                *)

(* Mutated form of UpdateComponents: without goroutines of their own the   *)
(* GetImpls wait for what is being created.                                *)
UpdateComponents_Wait(p, cs) ==
  /\ \A c \in cs : impl[p][c] > 0 => Ready(p, c)
  /\ impl' = Begin(p, cs)
  /\ UNCHANGED <<local, ends, version, over, act>>

UpdateComponents(p, cs) ==
  /\ impl' = Begin(p, cs)
  /\ UNCHANGED <<local, ends, version, over, act>>

LocalOf(info) == IF info.local THEN "local" ELSE "remote"

(* local is written once; an info that says otherwise is an error.         *)
Mismatch(p, info) == local[p][info.comp] \notin {"unset", LocalOf(info)}

(* Mutated form of UpdateRoutingInfo: it forgets the new assignment.       *)
UpdateRoutingInfo_KeepSlices(p, info) ==
  LET c == info.comp
  IN  /\ ~Mismatch(p, info)
      /\ local' = [local EXCEPT ![p][c] = LocalOf(info)]
      /\ ends' = [ends EXCEPT ![p][c] = info.replicas]
      /\ UNCHANGED <<version, over, act, impl>>

UpdateRoutingInfo(p, info) ==
  LET c == info.comp
  IN  /\ ~Mismatch(p, info)
      /\ local' = [local EXCEPT ![p][c] = LocalOf(info)]
      /\ IF info.local
         THEN UNCHANGED <<ends, version, over>>
         ELSE /\ ends' = [ends EXCEPT ![p][c] = info.replicas]
              /\ IF info.version = 0
                 THEN UNCHANGED <<version, over>>
                 ELSE /\ version' = [version EXCEPT ![p][c] = info.version]
                      /\ over' = [over EXCEPT ![p][c] = info.over]
      /\ UNCHANGED <<act, impl>>
-----------------------------------------------------------------------------
(* Steps of GetImpl(c) in p.                                               *)

Filling(p, c) == impl[p][c] \in 1..Len(Refs[c])
Ref(p, c) == Refs[c][impl[p][c]]

(* getIntf, activateInit.Do: the first to need r asks the deployer.        *)
Activate(p, c) ==
  /\ Filling(p, c) /\ act[p][Ref(p, c)] = "none"
  /\ act' = [act EXCEPT ![p][Ref(p, c)] = "subscribe"]
  /\ UNCHANGED <<local, ends, version, over, impl>>

(* repeatedly: a failed activation is tried again.                         *)
Retry(p, c) ==
  /\ act[p][c] = "failed"
  /\ act' = [act EXCEPT ![p][c] = "subscribe"]
  /\ UNCHANGED <<local, ends, version, over, impl>>

(* getIntf: a local reference is created before it is filled.              *)
CreateLocal(p, c) ==
  /\ Filling(p, c) /\ act[p][Ref(p, c)] = "returned"
  /\ local[p][Ref(p, c)] = "local" /\ impl[p][Ref(p, c)] = 0
  /\ impl' = Begin(p, {Ref(p, c)})
  /\ UNCHANGED <<local, ends, version, over, act>>

(* getIntf returns the local implementation or a stub.                     *)
FillRef(p, c) ==
  /\ Filling(p, c) /\ act[p][Ref(p, c)] = "returned"
  /\ \/ local[p][Ref(p, c)] = "local" /\ Ready(p, Ref(p, c))
     \/ local[p][Ref(p, c)] = "remote"
  /\ impl' = [impl EXCEPT ![p][c] = @ + 1]
  /\ UNCHANGED <<local, ends, version, over, act>>

(* addHandlers: a call from q on a stub for c creates c in the replica p   *)
(* it reaches.                                                             *)
Serve(q, p, c) ==
  /\ act[q][c] = "returned" /\ local[q][c] = "remote" /\ p \in ends[q][c]
  /\ impl[p][c] = 0
  /\ impl' = Begin(p, {c})
  /\ UNCHANGED <<local, ends, version, over, act>>
=============================================================================
