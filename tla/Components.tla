----------------------------- MODULE Components -----------------------------
(***************************************************************************)
(* How component implementations are created: SingleAkasalet.get, under    *)
(* one lock and recursive, and RemoteAkasaLet.getIntf, GetImpl and         *)
(* createComponent, with one sync.Once per component.  Both fill the       *)
(* references of a component, then its listener, then call its Init.       *)
(***************************************************************************)
EXTENDS Naturals, Sequences, FiniteSets

CONSTANTS Comps,       \* components
          Threads,     \* callers of GetImpl
          Graphs,      \* the references of each component, by field
          Registered,  \* sets of components a program may have registered
          Fakes,       \* sets of components the options may replace
          MaxDepth,    \* bound: nested creations
          nil

ASSUME ComponentsAssumption ==
  /\ nil \notin Threads \cup BOOLEAN
  /\ Graphs \subseteq [Comps -> Seq(Comps)]
  /\ Registered \subseteq SUBSET Comps

VARIABLES
  mode,       \* "single" or "remote"
  refs,       \* the references of the implementations
  regs,       \* components with a registration
  fakes,      \* components given an implementation by the options
  shared,     \* the listener name all components share can be listened on
  ctxDone,    \* a.ctx has ended
  mu,         \* l.mu
  once,       \* implInit: "new", "running", "ok" or "err"
  activated,  \* activateInit: "new", "ok" or "err"
  local,      \* c.local: nil until it is written
  made,       \* objects of each component, numbered
  done,       \* the one that was stored, 0: none
  lis,        \* the listener is cached
  stack,      \* the calls each thread is in, the current one first
  ret,        \* what the call has returned to the one below
  uses        \* history: <<c, d, n>>, c holds the n-th object of d

fixed == <<mode, refs, regs, fakes, shared>>
state == <<mu, once, activated, local, made, done, lis>>
vars  == <<fixed, ctxDone, state, stack, ret, uses>>

None   == [ok |-> FALSE, obj |-> 0, some |-> FALSE]
Err    == [ok |-> FALSE, obj |-> 0, some |-> TRUE]
Ok(n)  == [ok |-> TRUE, obj |-> n, some |-> TRUE]    \* 0: a stub or a fake
Stub   == Ok(0)

Frame(c, s) == [comp |-> c, stage |-> s, next |-> 1]
Busy(t)     == stack[t] # <<>>
Top(t)      == stack[t][1]

Init ==
  /\ mode \in {"single", "remote"} /\ refs \in Graphs
  /\ regs \in Registered /\ fakes \in Fakes
  /\ shared \in BOOLEAN
  /\ ctxDone = FALSE /\ mu = nil
  /\ once = [c \in Comps |-> "new"] /\ activated = [c \in Comps |-> "new"]
  /\ local = [c \in Comps |-> nil]
  /\ made = [c \in Comps |-> 0] /\ done = [c \in Comps |-> 0]
  /\ lis = FALSE
  /\ stack = [t \in Threads |-> <<>>] /\ ret = [t \in Threads |-> None] /\ uses = {}
-----------------------------------------------------------------------------
To(t, s)    == stack' = [stack EXCEPT ![t][1].stage = s]
Push(t, f)  == stack' = [stack EXCEPT ![t] = <<f>> \o @]

(* The call returns r: to the frame below, or to the caller of GetImpl.    *)
Return(t, r) ==
  /\ stack' = [stack EXCEPT ![t] = Tail(@)]
  /\ ret' = [ret EXCEPT ![t] = r]
  /\ mu' = IF mode = "single" /\ Len(stack[t]) = 1 THEN nil ELSE mu

(* GetImpl: of the root by runLocal and runRemote, of any component by     *)
(* UpdateComponents and by the handler of a remote call.  A thread makes   *)
(* one call.                                                               *)
GetImpl(t, c) ==
  /\ ~Busy(t) /\ ~ret[t].some /\ c \in regs
  /\ IF mode = "single" THEN mu = nil /\ mu' = t ELSE UNCHANGED mu
  /\ Push(t, Frame(c, "enter"))
  /\ UNCHANGED <<fixed, ctxDone, once, activated, local, made, done, lis, ret, uses>>

(* getIntf: a reference to a component without a registration is an error, *)
(* which validateRegistrations does not find; in a deployment the          *)
(* component is activated, once.  ActivateComponent is repeated until it   *)
(* succeeds or a.ctx ends.                                                 *)
GetIntf(t, d) ==
  \/ /\ d \notin regs
     /\ ret' = [ret EXCEPT ![t] = Err]
     /\ UNCHANGED <<activated, stack>>
  \/ /\ d \in regs /\ mode = "single"
     /\ Push(t, Frame(d, "enter")) /\ UNCHANGED <<activated, ret>>
  \/ /\ d \in regs /\ mode = "remote"
     /\ \/ activated[d] = "new" /\ activated' = [activated EXCEPT ![d] = "ok"]
        \/ activated[d] = "new" /\ ctxDone /\ activated' = [activated EXCEPT ![d] = "err"]
        \/ activated[d] # "new" /\ UNCHANGED activated
     /\ IF activated'[d] = "ok"
        THEN Push(t, Frame(d, "route")) /\ UNCHANGED ret
        ELSE ret' = [ret EXCEPT ![t] = Err] /\ UNCHANGED stack

(* UpdateRoutingInfo of an activated component, or of one started here.    *)
WriteLocal(c) ==
  /\ mode = "remote" /\ c \in regs /\ local[c] = nil
  /\ \E b \in BOOLEAN : local' = [local EXCEPT ![c] = b]
  /\ UNCHANGED <<fixed, ctxDone, mu, once, activated, made, done, lis, stack, ret, uses>>

(* c.local.Read: a component that runs elsewhere gets a stub, unless the   *)
(* context has ended and Connect fails.                                    *)
Route(t) ==
  /\ Top(t).stage = "route" /\ local[Top(t).comp] \in BOOLEAN
  /\ IF local[Top(t).comp] THEN To(t, "enter") /\ UNCHANGED <<mu, ret>>
     ELSE Return(t, Stub) \/ (ctxDone /\ Return(t, Err))
  /\ UNCHANGED <<fixed, ctxDone, once, activated, local, made, done, lis, uses>>

(* A new object is allocated, with its config, logger and info.            *)
New(t, c) ==
  /\ made' = [made EXCEPT ![c] = @ + 1]
  /\ To(t, "refs") /\ UNCHANGED <<ret, mu>>

(* Mutated form of EnterRemote: a second caller does not wait.             *)
EnterRemote_NoWait(t, c) ==
  /\ mode = "remote"
  /\ \/ /\ once[c] \in {"new", "running"}
        /\ IF c \in fakes
           THEN once' = [once EXCEPT ![c] = "ok"] /\ Return(t, Ok(0)) /\ UNCHANGED made
           ELSE once' = [once EXCEPT ![c] = "running"] /\ New(t, c)
     \/ once[c] = "ok" /\ Return(t, Ok(done[c])) /\ UNCHANGED <<once, made>>
     \/ once[c] = "err" /\ Return(t, Err) /\ UNCHANGED <<once, made>>

(* implInit.Do: the first caller creates the component, the others wait    *)
(* and get what it got.                                                    *)
EnterRemote(t, c) ==
  /\ mode = "remote"
  /\ \/ /\ once[c] = "new"
        /\ IF c \in fakes
           THEN once' = [once EXCEPT ![c] = "ok"] /\ Return(t, Ok(0)) /\ UNCHANGED made
           ELSE once' = [once EXCEPT ![c] = "running"] /\ New(t, c)
     \/ once[c] = "ok" /\ Return(t, Ok(done[c])) /\ UNCHANGED <<once, made>>
     \/ once[c] = "err" /\ Return(t, Err) /\ UNCHANGED <<once, made>>

(* get: the cache, the fakes, a new object.                                *)
EnterSingle(t, c) ==
  /\ mode = "single" /\ UNCHANGED once
  /\ IF done[c] # 0 THEN Return(t, Ok(done[c])) /\ UNCHANGED made
     ELSE IF c \in fakes THEN Return(t, Ok(0)) /\ UNCHANGED made
     ELSE New(t, c)

Enter(t) ==
  /\ Top(t).stage = "enter"
  /\ EnterRemote(t, Top(t).comp) \/ EnterSingle(t, Top(t).comp)
  /\ UNCHANGED <<fixed, ctxDone, activated, local, done, lis, uses>>

(* Mutated form of Fail: implInit is never done.                           *)
Fail_Running(t) == Return(t, Err) /\ UNCHANGED <<once, done>>

(* An error of any part is the component's: implErr keeps it, the cache of *)
(* the single akasalet does not.                                           *)
Fail(t) ==
  /\ Return(t, Err)
  /\ IF mode = "remote" THEN once' = [once EXCEPT ![Top(t).comp] = "err"] ELSE UNCHANGED once
  /\ UNCHANGED done

(* fillRefs: one reference after the other.                                *)
FillRef(t) ==
  /\ Top(t).stage = "refs" /\ ~ret[t].some
  /\ Top(t).next <= Len(refs[Top(t).comp]) /\ Len(stack[t]) < MaxDepth
  /\ GetIntf(t, refs[Top(t).comp][Top(t).next])
  /\ UNCHANGED <<fixed, ctxDone, mu, once, local, made, done, lis, uses>>

SetRef(t) ==
  /\ Top(t).stage = "refs" /\ ret[t].ok
  /\ LET c == Top(t).comp
         d == refs[c][Top(t).next]
     IN  uses' = IF ret[t].obj = 0 THEN uses ELSE uses \cup {<<c, d, ret[t].obj>>}
  /\ stack' = [stack EXCEPT ![t][1].next = @ + 1]
  /\ ret' = [ret EXCEPT ![t] = None]
  /\ UNCHANGED <<fixed, ctxDone, state>>

RefFails(t) ==
  /\ Top(t).stage = "refs" /\ ret[t].some /\ ~ret[t].ok
  /\ Fail(t)
  /\ UNCHANGED <<fixed, ctxDone, activated, local, made, lis, uses>>

FilledRefs(t) ==
  /\ Top(t).stage = "refs" /\ ~ret[t].some /\ Top(t).next > Len(refs[Top(t).comp])
  /\ To(t, "listen")
  /\ UNCHANGED <<fixed, ctxDone, state, ret, uses>>

(* fillListeners: the listener is cached under its name.                   *)
FillListener(t) ==
  /\ Top(t).stage = "listen"
  /\ \/ (lis \/ shared) /\ lis' = TRUE /\ To(t, "init") /\ UNCHANGED <<mu, once, done, ret>>
     \/ ~lis /\ ~shared /\ Fail(t) /\ UNCHANGED lis
  /\ UNCHANGED <<fixed, ctxDone, activated, local, made, uses>>

Finish(t) ==
  /\ Return(t, Ok(made[Top(t).comp]))
  /\ IF mode = "remote" THEN once' = [once EXCEPT ![Top(t).comp] = "ok"] ELSE UNCHANGED once
  /\ done' = [done EXCEPT ![Top(t).comp] = made[Top(t).comp]]

(* Init, if the component has one.                                         *)
CallInit(t) ==
  /\ Top(t).stage = "init"
  /\ Finish(t) \/ Fail(t)
  /\ UNCHANGED <<fixed, ctxDone, activated, local, made, lis, uses>>

Step(t) ==
  /\ Busy(t)
  /\ \/ Route(t) \/ Enter(t) \/ FillRef(t) \/ SetRef(t) \/ RefFails(t) \/ FilledRefs(t)
     \/ FillListener(t) \/ CallInit(t)

End ==
  /\ ~ctxDone /\ ctxDone' = TRUE
  /\ UNCHANGED <<fixed, state, stack, ret, uses>>

Next ==
  \/ \E t \in Threads : Step(t) \/ \E c \in Comps : GetImpl(t, c)
  \/ \E c \in Comps : WriteLocal(c)
  \/ End

(* Threads run on, and the deployer sends the routing info of a component  *)
(* that was activated.                                                     *)
Spec ==
  /\ Init /\ [][Next]_vars
  /\ \A t \in Threads : WF_vars(Step(t))
  /\ \A c \in Comps : WF_vars(activated[c] = "ok" /\ WriteLocal(c))
-----------------------------------------------------------------------------
(* Components created here that wait for each other: the recursion of get  *)
(* has no end, and each implInit waits for the next (remote_akasalet.go    *)
(* 524-535).                                                               *)
Entered(d) == d \in regs \ fakes /\ (mode = "single" \/ local[d] = TRUE)
References(c) == {refs[c][i] : i \in DOMAIN refs[c]}
Circular ==
  \E S \in SUBSET Comps \ {{}} : \A c \in S : \E d \in S \cap References(c) : Entered(c) /\ Entered(d)

(* Whoever holds an object of a component holds the same one, its Init has *)
(* succeeded, and an akasalet of a deployment never makes a second.        *)
OneObject ==
  /\ \A u \in uses : u[3] = done[u[2]]
  /\ mode = "remote" => \A c \in Comps : made[c] <= 1

(* A component in use has all its references: each a fake, a stub of one   *)
(* that runs elsewhere, or an implementation whose own Init is over.       *)
RefsFirst ==
  \A c \in Comps : done[c] # 0 =>
    \A d \in References(c) :
      /\ d \in regs
      /\ \/ d \in fakes
         \/ mode = "remote" /\ local[d] = FALSE
         \/ done[d] # 0 /\ <<c, d, done[d]>> \in uses

(* Every component has one implementation, wired to the one implementation *)
(* of each of its references before its own Init runs, whatever calls of   *)
(* GetImpl arrive together (single_akasalet.go get, remote_akasalet.go     *)
(* getIntf, GetImpl and createComponent).                                  *)
Wired == OneObject /\ RefsFirst

(* Every call of GetImpl returns, also when several create components that *)
(* refer to the same ones, unless references are circular.                 *)
CreationEnds == \A t \in Threads : Busy(t) ~> ~Busy(t) \/ Circular
=============================================================================
