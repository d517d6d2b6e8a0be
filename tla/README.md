# TLA+ models of akasa

akasa is a Go library for applications made of components. Components call one another through
interfaces; a deployer decides in which process each component runs, and calls between processes
go over `internal/net/call` through stubs that `akasar generate` writes. These modules model the
concurrent core of that (the call runtime, the routing of calls, the multi-process deployer with
the processes it starts, the creation of components), the small libraries under it, the stubs and
the generator that writes them.

Line numbers below are those of `src/`. `PROJECT.json` maps every definition to the lines it
stands for.

## 1. Inventory

### The parts that keep state

| Part | State | Operations | Modules |
|---|---|---|---|
| Client connections, `internal/net/call/call.go` 32-845 | per stub (`reconnectionConnection`): `conns`, `closed`, balancer; per address (`clientConnection`): state machine missing / disconnected / checking / idle / active / draining, `calls`, `lastID`, `c.c`, `rcs`, `inBalancer`; the process-wide table `clientConns` | `Call`, `Close`, `updateEndpoints`; `manage` / `connectOnce` per connection | ClientConn |
| Server connections, `call.go` 856-1107 | `serverState.conns`; per connection `closed`, `cancelFuncs` | `Serve`, `readRequests`, `runHandler`, `startRequest`, `endRequest`, `shutdown` | ServerConn |
| Stubs, `call/stub.go` and the generated `akasar_gen.go`, with pooled buffers, `runtime/pool` | a serializer's buffer, the buffers of request and answer, named results, span, counters | the stub methods, `Invoke`, `grow`, `readAndProcessMessage`, `runHandler`, the server stubs | Rpc, MethodCall |
| Condition variable, `internal/cond/cond.go` | `waiters`, a channel each | `Wait(ctx)`, `Signal`, `Broadcast` | Cond |
| Routing resolver, `internal/akasar/routing.go` 15-68 | `version`, `endpoints` | `update`, `Resolve`; the watchers of `call.go` 208-233 | RoutingResolver, Subscription |
| Multi-process deployer, `internal/tool/multi/deployer.go` | groups (`started`, `addresses`, `envelopes`, `assignments`, `subscribers`), per akasalet `subscribed`, `d.err` | `ActivateComponent`, `startRoot`, `stop`, `wait` | Placement, Deployer |
| Akasalet of a deployment, `internal/akasar/remote_akasalet.go` | per component: `activateInit`, `local`, resolver, balancer, `implInit` | `UpdateComponents`, `UpdateRoutingInfo`, `GetImpl`, `getIntf` | Akasalet, Components |
| Single-process akasalet, `single_akasalet.go` | components, listeners, one mutex | `GetImpl`, `get`, `listener` | Components |
| Envelope, `runtime/envelope`, and the process it starts, `NewRemoteAkasaLet`, `runRemote` | child, pipes, context, error group; `initDone`, the group `servers`, the error channel | `NewEnvelope`, `InitAkasalet`, `Serve`, `stop` | Process |
| Error group, `internal/errgroup` | semaphore, wait group, first error | `Go`, `TryGo`, `Wait`, `SetLimit` | Errgroup |
| Remote logger, `internal/akasar/logger.go` | a channel of 1000 entries, a batch | `log`, `run` | RemoteLogger |
| Metrics, `runtime/metrics` | atomic cells | `Add`, `Inc`, `Set`, `Put`, `Snapshot` | Metric |
| Code generator, `internal/codegen` | the type set and its memo, the file being written | one pass per package | GoTypes, TypeSet, TypeSizes, Analysis, Codec, Generator, GeneratedFiles |
| Equal slices, powers of two, growth of a Serializer | numbers | pure or nearly | Sizes |

Parts without a module, with the reason, are in section 6.

### How they interact

    component code -> stub -> Connection.Call -> clientConnection ==wire==> serverConnection -> server stub
                                  ^ updateEndpoints                              |
                                  |                                              v
    UpdateRoutingInfo -> routingResolver.update -> Cond.Broadcast        GetImpl -> createComponent
            ^                                                                    | getIntf
            |                                                                    v
        deployer (d.mu) <=========== ActivateComponent (a call like any other) ==+
            |-- NewEnvelope: starts a process -> InitAkasalet -> UpdateComponents -> GetImpl in goroutines
            '-- Serve: two readers, the context, the control server; each ends the others

The deployer and its akasalets talk over the same connections as the components do. The deployer
calls akasalets while it holds `d.mu`; akasalets call the deployer from inside `sync.Once`.

### What is hard here

* A `clientConnection` is shared by every stub of the process and has a lock of its own (`c.mu`),
  but `startCall` runs under the *stub's* lock and touches `lastID`, `calls` and `state` without
  `c.mu`. Endpoints come, go and come back, connections break and are dialled again, while
  callers give up.
* A server request runs on the reading goroutine until a timer hands the reading on to another
  one; cancels, broken connections and the end of the context race the handlers.
* A pooled buffer passes through a serializer, a connection, a handler and a decoder, each of which may
  panic or fail, and an answer may come after its caller has left.
* A watcher that compares versions and then sleeps must not sleep through an update.
* Activation marks things done before it does them, under a lock held over remote calls; a
  failed or lost call is retried from the start.
* Components are created under locks and Onces that nest along their references, by several
  goroutines at once.
* A process and its envelope must end together, whoever ends first, and say why.
* The generator keeps one memo over recursive types, and its parts agree on names, numbers and sizes
  without sharing code.

The list with lines is under "hazards" in `PROJECT.json`, each with the properties that would
catch it or the reason why none does.

### What makes each part correct

* Client: a reply reaches the call it answers, once; a call in progress is in the table of the
  connection it uses; a stub's balancer lists the connections that can take calls; connections
  that are gone stay gone; a waiting call ends.
* Server: exactly one goroutine reads; a context is cancelled for a reason and always in the end;
  no slow handler blocks the requests behind it; every connection is unregistered.
* Stubs: a buffer has one owner; arguments and results are not overwritten while they are in use; a call
  brings an outcome of its own execution; it is counted with the error it returns.
* Cond: nobody who waits is forgotten; no channel is closed twice.
* Routing: no update is slept through; a list is used with its own version; stubs end with the
  last list; `Close` returns.
* Deployment: subscribers know the current replicas; activation means the component runs and the asker
  can reach it; no akasalet is told two things; nothing waits in a circle; the death of a process
  ends the deployment.
* Process: it is configured once and before it serves; `Serve` returns the error that came first;
  nothing is left behind.
* Components: one implementation each, wired before its `Init`; every `GetImpl` returns.
* Generator: right verdicts, closed files, calls that reach the method they name, values that come back
  as they were sent.
* Libraries: limits hold, updates are not lost, slices cut the key space, buffers fit their pool.

## 2. Modules

### Calls

`ClientConn` - one step is one section under `c.mu`. `setState` with all it calls is `SetState`
(`FastSetState`, `SlowSetState`, `Forget`, `Rebalance`, `EndCalls`, `CheckInvariants`), applied to
the state as its caller has already changed it. `startCall` does not hold `c.mu`: `Pick`,
`LoadID`, `Insert`, `CallStart`, `Activate` and `TakeConn` are its accesses, each a step. The Go
race detector would object to these accesses; the model takes them as atomic and interleaved. Go
maps may also stop the process when they are written concurrently: that outcome is like
`panicked`, after which nothing happens. `panicked` is also where a failing `checkInvariants` or a
second `close(doneSignal)` leads. `updateEndpoints` keeps `rc.mu` and takes `c.mu` per address
(`UpdateEndpoints`, `KeepEndpoint`, `Lookup`, `Register...`, `DropEndpoint`, `Handled`). `manage`
is `Dialled` ... `Deliver`, `Fail`, `Continue`. Requests and replies are a set (`wire`), since the
server answers in any order; breaking a connection (`Break`) is the environment's.

`ServerConn` - `Readers` are the goroutines in `readRequests`: the one that `serveConnection`
starts, and one per request whose timer fired. `ReadRequest` runs the handler inline;
`TimerFires` starts the next reader; `AfterHandler` goes on reading only if `t.Stop()` says that
the timer did not fire. Handlers are `Start`, `Finish`, `WriteReply`, `HandlerShutdown`, `End`.
A handler's context ends with its connection, or by the deadline in its request's header (`DeadlinePasses`, for the
requests in `Timed`). The client is any sequence of requests, cancels and a closed connection. A cancel is the one message without
a payload, and reading it ends the process (`ReadCancel`, `panicked`): the `case` of `readRequests` that
would end the one request is never reached.

`Rpc` - one call through the generated stubs: the local stub is `Begin`, `CallImpl`, `Leave`; the
client stub encodes (`Encode`, `Grow`), sends (`Send`, `TryFails`, `InjectRetry`, `InvokeReturns`),
decodes (`Decode`) and runs its deferred functions, which free, recover and count (`Leave`, `Recovered`, `Crashes`); the
server is `Receive` ... `FreeBuffers`; `ServerDies` is a panic nobody recovers. Decoders panic on both sides
(`DecoderPanics`, `StartHandler`): with a deserializerError, which the stubs recover (the client's call fails, the server
answers with an error), or with anything else, which ends the process. `Places` are the variables that may
hold a buffer, `BufferAt(p)` what a place holds, `Refs(b)` the places that hold buffer `b`; `pool[b]` counts how
often the pool holds it, so that a double free is a state and not an error. The connection is cut down to
what `ClientConn` and `ServerConn` keep.
`MethodCall` is the promise of a stub: an outcome that is returned was produced by an execution of
that call, and only remote calls may fail or run again. `Implements` says that Rpc keeps it.

### Routing and deployment

`Cond` - `waiters` is the sequence of channels, `closed` the channels that have been closed.
`Enqueue`, `Release`, `Woken`, `Cancelled` and `Relock` are the steps of `Wait`.

`RoutingResolver` - instantiates `Cond` for `changed` and adds `update`, the watchers and `Close`.
`Subscription` is what a stub is promised: it applies published lists and, if it stays open,
the last one. `LatestSpec` says that RoutingResolver implements it, liveness included.

`Placement` - `computeComponentGroups`, a fold over the colocation lists.
`Deployer` - a section under `d.mu` is a list of what it has left to do (`todo`): calls
(`components`, `local`, `routing`), `assign`, `notify`, `start`, `append`. `SubscribedTo` and
`ActiveComponent` take the lock and make the list; a failed call drops the rest, as the early
returns do. Iteration over a Go map (`registerReplica`) is a choice of an order (`Orders`); `notify` is one round of
its loop over the started components, which puts the calls to that component's subscribers in front
(`TellSubscribers`).
`Akasalet` - `local` (`register.WriteOnce`), what the resolver and the balancer hold, `act` (where
the activation of a component stands) and `impl` (which reference `createComponent` fills next).
`Deployment` - composes the two: `Handle` executes the call of a section in the akasalet,
`Finish` / `Failed` end a section, `Die`, `CallBreaks`, `ReplyBreaks`, `AnswerBreaks` and
`NewEnvelopeFails` are what may go wrong. A call to an akasalet that died earlier never returns:
`startCall` looks for a connection until its context ends, and the deployer passes
`context.TODO()` or `d.ctx`, which is not done before `stop` has had `d.mu`.

`Errgroup` - `Go` blocks in the semaphore or adds a goroutine, `TryGo` refuses, `Return` keeps the first
error and ends the context, `SetLimit` swaps the semaphore, `Wait` ends the context in any case.
`RemoteLogger` - the channel and the goroutine that empties it.
`Process` - one process and its envelope. It takes two error groups (of `Serve` and of the akasalet)
and the logger through INSTANCE. `StartChild`, `InitReturns`, `InitGivesUp` are `NewEnvelope`; `Order` is
the step from the readers' end to the context's; `Stop(g, e)` is `stop` called by goroutine `g` with its own
error `e`; `Kill` and `WaitForChild` are the child. In the process, `NewAkasalet`, `InitAkasalet`, `InitDone`, `ServeRpc`,
`CreateRoot` and the returns of the three servers. Deployment starts and ends processes in one step
(`ProcessEnds`); this module is what those steps are made of.
`Components` - one stack of calls per thread, so that recursion in `get` and in `createComponent` is
visible. `mode` chooses between the single akasalet (one mutex, held over the recursion) and the remote one (a `sync.Once`
per component, `activateInit`, `local`). `FillRef`, `SetRef`, `RefFails`, `FilledRefs`, `FillListener`, `CallInit` are
common to both; `local` says whether a component runs here or is a stub.

### Generator

`GoTypes` - Go types as terms, and `Serializable`: a finite tree of basic types and messages, defined
independently of how the generator decides it. The constant `Types` holds the types that occur: finitely many, and with a
type what it is made of (`TypesAssumption`), as in a program that compiles.
`TypeSet` - `types.go`: `checkSerializable` with its memo and path. `Check` is one call of the inner function, `Checks` the
recursion, as a recursive function.
`Analysis` - what `newGenerator` finds in a package before anything is written: `NewGenerator`, `CheckCandidate`
(candidates come in any order), `FindComponents`. The types of its programs are among `Types` (`ProgramsAssumption`).
`TypeSizes` - the rest of `types.go`, with recursive operators: `SizeOfType`, `IsMeasurable`, `UniqueName`.
`Codec` - what the generated functions and the runtime write, read and count for a value; a word is
its width and its value.
`Generator` - one pass per package: the steps of Analysis, then `GenerateStubs`, `GenerateAutoMarshals`,
`GenerateEncDec`, `GenerateSizes`. A file is what its parts have to agree on: registrations, method tables, functions
defined, functions called. Each action has an action of Analysis as a conjunct (`Written` for those that write), and
the initial predicate has `AnalysisInit`, so that what is proved of `AnalysisSpec` is true of `Spec`.
`GeneratedFiles` - the components declared in this repository and its four `akasar_gen.go` files as tables.

### Small libraries

`Metric` - the cells of a metric: a float is added (or subtracted) by `Load` and `CompareAndSwap`, `Put` finds its
bucket by binary search, the snapshot is a read per cell.
`Sizes` - `EqualSlices`, `FindNearestPow2` with its shifts, `NextPowerOfTwo`, and the growth of a buffer. A word is the set
of its bits, so that shifts and masks are operations on sets.

`MC...` modules only name the model values and the instances. `MCLibrary` runs four libraries, Cond among
them, one per behaviour. `..._proofs` extends the module it is named after with theorems (`Library_proofs` the four
libraries, `Components_proofs` also Analysis). Definitions that end in `_...` next to
the one they resemble (`Rebalance_Unchecked`) are wrong forms that the properties refuse; nothing uses them.

## 3. What is model-checked

| Run | Instance | Question and answer |
|---|---|---|
| OneStub | 1 stub, 1 connection, 2 calls, 2 net.Conns, an endpoint that is listed, removed, listed | Calls, replies, tables, balancer and reader agree in every interleaving; what is gone stays gone. |
| Retry | 2 calls of 2 attempts, 2 net.Conns, fixed endpoint, FairSpec | A waiting call returns, with no help from its context. |
| Serve | 1 connection, 2 requests (one with a deadline, one for an unknown method), inline with timers, FairSpec | One reader, a right table of cancel functions; a context ends with its connection or by its own deadline only; every connection drains; nobody blocks the next request; handlers of a closed connection are cancelled; all while the process lives. |
| Rpc | 2 calls, local or remote, results kept or freed, 3 buffers, 2 sends, injected retries | Buffers have one owner, data stays intact, calls are accounted for whatever panics; a call is a MethodCall. |
| Resolver | 2 stubs, 2 updates, FairSpec | Versions and lists, refinement of Subscription, `Close` returns. |
| Deployment | 5 components in 2 groups (lists overlap; one routed, one unlisted), 3 processes, 1 trouble, FairSpec | Routing info is never contradictory nor behind, activation returns and means something, a death ends the deployment. |
| Process | 1 process, 1 lost answer, 1 log entry in a channel of 1 | Configured once, the right error, both ends end together. |
| Components | 3 components, 4 shapes of references (one circular), 2 threads, both kinds of akasalet | One implementation, wired first; every call returns unless references are circular. |
| Generator | the packages of the repository, and packages built to reach every rule | Verdicts, closure, dispatch, round trips; the checked-in files are up to date but for the root package's client stubs, which do not free results. |
| Library | 2 goroutines with 2 Waits each; a group of 3 functions; 3 goroutines on a metric; 1 to 20 replicas, buffers up to 64 | Nobody who waits is forgotten, a Broadcast wakes all; limits, no lost updates, slices; buffers fit their pools, but a Serializer of size 0 has none. |
| WrongReply | 2 stubs that share a connection | violated: two stubs take one id, and a reply goes to the other call (call.go 255). |
| CancelPanics | 1 connection, 2 requests and their cancels | violated: the cancel message of one client ends the server's process (msg.go 133). |

The two violated runs are the findings: what a comment of the code says, and the code does not do.

### Bounds and why they suffice

* `MaxNet` 2: a connection, its failure and one reconnect; what a third would add is a repetition
  of the second. The last `net.Conn` does not break, so that liveness is not decided by the bound.
* 2 callers and `MaxID` = callers x attempts: two calls are what a lost table entry, a wrong
  reply or a draining connection takes.
* ServerConn: a request that hands over and one behind it; the second is the unknown method, so
  both outcomes of the lookup run. The proofs carry the invariants to any number of both.
  Only `Inline = TRUE` is run: `withDefaults` turns 0 into 20 microseconds, so only a negative
  duration would give the other value, which nothing in the repository sets.
* Rpc: a call that is retried leaves one answer that nobody waits for, and the other call may get its
  buffer from the pool: two calls and three buffers, of which one is always in demand.
* Cond: 2 Waits per goroutine, so that the channel of a Wait that gave up is still listed during the
  next one.
* Resolver: 2 updates, so that an update arrives while the first is applied; one list, since what
  matters is the version it has.
* Deployment: 3 processes, so that a second replica could be started; `MaxTrouble` 1: every single
  failure at every point. Ids of processes are taken in a fixed order, since they are fresh.
* Process: the capacity of the log channel is 1 instead of 1000, and one entry fills it, which is when
  `log` blocks; one lost answer makes `InitAkasalet` run twice
  (`AnswerLost`), which is more than the code lets happen: it sends a request again only when writing it failed.
* Components: three components give a chain, a component two others share, and a circle; `MaxDepth` 5
  cuts the recursion on the circle only.
* Generator: every kind of type alone, under a pointer and in a slice, as an argument next to a string;
  recursive and unsupported AutoMarshals; one mistake of each kind; a second package before and after.
* Library: 8-bit words instead of 64, with 20 replicas, so that slices do not divide evenly, and pools up to 2^6;
  histograms with no, one and three bounds, whose last is above every value and whose first two are at a value and
  between two (a value at a bound belongs to the bucket above); three goroutines, so that a load, another's swap
  and a snapshot meet.
* Symmetry is used in Rpc and Library only. `Implements` is a safety property: `MethodCall` has no
  fairness. `BroadcastWakesAll` is a liveness property of Cond, in whose behaviours of Library the
  symmetric values (functions of the group, goroutines on the metric) do not occur.
* TLC's deadlock check is off everywhere, since every system here may stop: calls have returned, updates
  and Waits are used up, the server, the process or the deployment ended, the generator is done. That
  something stops too early is what the liveness properties are for.

### Fairness and why the code justifies it

* A goroutine that can go on does: weak fairness per goroutine (`ReaderStep`, `HandlerStep`,
  `LetStep`, `Step`...), in ServerConn while the process lives. Nothing is assumed about contexts ending, updates, deaths or broken connections.
* `sync.Mutex` hands itself to a goroutine that has waited for a millisecond: strong fairness for the
  steps that take a lock others may take again and again (`Relock` in Cond, the watchers in
  RoutingResolver, `stop` and the activations in Deployment). In Deployment it is assumed per component, which is
  weaker than per akasalet and enough.
* Retry assumes of the environment that a server answers and that a dial succeeds in the end.
* Process: the goroutines of envelope and akasalet run on, and a process that is killed ends. The application need never return and the network
  never fail; a server stops once its context has ended (`AfterCancel`). A deployer whose `Serve`
  has returned an error before serving stops its context.
* Components: threads run on, and the deployer sends the routing info of a component that was activated, which is
  what Deployment's `Activated` shows while nothing fails.

### What the properties leave out, and why

* `WaitEnds` is about endpoints that stay. When an endpoint is removed, a dial that ends afterwards
  gives the missing connection a `net.Conn` nobody reads, and a stale pick may wait on it for ever.
* `NoResurrection`, `Agreement` and `OwnReply` are checked with one stub; with two, the
  unlocked `startCall` breaks them (WrongReply shows how). `Agreement` speaks of registered stubs:
  one whose endpoint was removed keeps the dead connection in its balancer (see section 5).
* `RoutingCurrent`, `Activated` and the second half of `LocalAgrees` are about runs in which nothing has failed so far.
  `RoutingCurrent` speaks of components somebody has activated: `registerReplica` tells the subscribers of `g.started`
  only, so between its subscription and its activation an akasalet may be behind.
  After a failed `UpdateComponents` the retry starts a second replica, since the first was not
  yet appended to `g.envelopes`. The first half of `LocalAgrees` holds whatever fails.
* `DeathEnds` excludes one hang: the deployer calls a dead akasalet, holds `d.mu` for ever, and `stop`
  waits for it. `EndTogether` excludes one: a server that logs its own failure into a full channel
  whose reader is gone (`HungOnLog`).
* `Activated` is about listed components. An unlisted one is retried for ever (component `z`).
* `CreationEnds` excludes circular references, which recurse or wait for ever.
* `WithinLimit` excludes a limit set while functions run that hold no token: `SetLimit` only looks at tokens.
* `NothingLost` bounds the snapshots of counters and histograms, not of gauges. Ascending bounds, natural values and
  counters that are given nothing negative are assumptions: the code checks none of the three.
* `RoundTrip` leaves out arrays and maps, whose generated functions do not compile, and the size of
  slices, whose expression counts too much.
* `UpToDate` states how the root package's file is out of date (section 5) instead of excluding it.
* `Intact` excludes results that dangle (`Dangling`): the client stubs of the examples free the buffer of
  the results, and a string or bytes result points into it (section 5). It holds for results that are copied when they are
  decoded, and for stubs that keep the buffer.

## 4. What is proved

The proof modules hold for every value of the constants that satisfies the named assumption of the
model's module: any number of stubs, connections, callers, requests, goroutines, buffers, components,
updates. Each theorem follows from an inductive invariant that was checked with TLC on an instance before it was proved.

* `ClientConn_proofs` (`ConstantsAssumption`): `TypeCorrect`, `CallTableCorrect`, `CompletesOnce`. `TypeInv` adds to the
  types where an attempt stands. `CallInv` adds to `CallTable` what a reader holds between
  `findAndEndCall` and closing the done channel (`HeldOK`: that call is out of every table and still
  pending, so nobody else can complete it) and that an attempt not yet inserted is pending (`FreshOK`). The lemmas on `Switch`, `Fail`
  and `EndCall` say that tables shrink and that what leaves a table is done; each action then
  follows from these.
  `OwnReplyCorrect`, when all calls are made on one stub (`OneCallerStub`; other stubs may come and go):
  `rc.mu` makes `lastID++` one step for these callers (`LockOK`, `CountOK`), a net.Conn belongs to one connection for
  ever (`NetOK`), so a number read from it belongs to the call it was given to (`IssuedOK`).
  `AgreementCorrect` and `NoResurrectionCorrect`, when the process has one stub (`OneStub`): `ViewsInv`
  relates the tables by address to the states (`TableOK`, `ListedOK`), to a lookup that has not been used yet (`LookedOK`),
  and to connections not made yet (`NewOK`). `ActivateOK` is where the stub's mutex counts: between
  callStart's look at the state and `setState(active)` the manager moves a connection only among `Fresh` states,
  and only `updateEndpoints` could take it away. `Views` is what every section under `c.mu` does to these views.
  Neither hypothesis can be dropped: with two stubs TLC refutes all three.
* `ServerConn_proofs` (`ServerAssumption`): `TypeCorrect`, `CancelTableCorrect`, `NoContextLeakCorrect`,
  `CancelledForAReasonCorrect`, `OneReaderCorrect`. `Wire` relates the unread messages to what the client has sent (a
  cancel comes after its request); `Table` relates `cancelFuncs` to handlers and their contexts; `Charge`
  says who reads a connection or will: a reader in its loop, or the one whose timer decides. `Deadlines` says that only
  requests in `Timed` expire. `NoContextLeak` is only proved; no
  run repeats it.
* `Library_proofs` (`CondAssumption`, `ErrgroupAssumption`, `MetricAssumption`, `SizesAssumption`): `WakeUpCorrect` of the Cond, whose `CondInv` adds that
  channels are numbered by Wait, so that a new one is never in the list; and `WithinLimitCorrect` of the error
  group, where `Tokens` says that every active function holds one token of the semaphore unless a limit was set too
  early, and that `Go` blocks only when none is left.
  `NothingLostCorrect` of a metric, for any goroutines, values and ascending bounds: `Operations` says which operation
  stands where, `Cells` that each cell holds the operations that are over (the float's the sum of their values, the
  buckets one for each value between two bounds) and `Reading` that a snapshot has read no less than what was over
  when it began. The key is that a swap succeeds only on the value that was loaded; `BucketRight` is the binary
  search. `CoveredCorrect` and `PooledCorrect`, for any width of a word, number of replicas and largest pool up to 2^32:
  `SizesInv` says that the assignment is the one of the replicas and a buffer one of the pools' or missing, in which case
  nothing has been appended (`GrowFits`: `grow` finds a pool and does not panic), and the rest is arithmetic: between x and 2x there is one power of two (`PowerAbove`), x and x - 1 share no bit only
  if x is one (`HighestBit`), the shifts fill the 31 bits below the highest (`Smeared`), and the doubled size
  stays within the pools (`DoubledRight`).
  Sums, searches, powers and shifts are recursive functions, and what they compute is proved by induction: the
  theorems that take an operator cannot be used, but `Counting` states induction for a *set* of naturals, from the
  well-foundedness of `<`, and `Recursion` that a function defined by recursion exists.
* `RoutingResolver_proofs` (`ResolverAssumption`):
  `NoMissedUpdateCorrect` and `AppliedIsPublishedCorrect`: the resolver's steps are steps of its Cond (`StepsOfCond`), so
  the Cond's invariant is taken from `Library_proofs` and not proved again; `AtWait` and `Knows` say what a watcher knows
  between its comparison and its sleep. `ResolverImplements`: the safety half of `LatestSpec`, that initial states and steps are those of
  Subscription. It needs `Forward`: the list a watcher brings back is newer than the one its stub has.
* `Deployment_proofs` (`DeploymentAssumption`: finitely many processes and components, each component in one group or
  none): `DeploymentTypeCorrect`, `LocalAgreesCorrect`, `RoutingCurrentCorrect`. A section is a list of calls, and between two
  of them anything else may happen, so nothing said of a finished section is inductive. The invariants therefore
  say what holds *but for the calls that are left* (`Ops`, the set of them: their order does not matter).
  `Core` holds whatever fails: what a call that is left relies on (`Sound`), that what may end a section is its last
  step (`Final`), which akasalets may be known to whom (`Unused`, `Listed`), what a request in progress
  implies (`Asked`), and that where a component runs as seen from an akasalet never changes (`Told`), from which
  `NeverRejected`. `Assigned`: an assignment is over the replicas of its group, and nobody has one that was not
  made. While nothing has failed (`Well`): a subscriber of a started component is `Current`, or the call that
  makes it so is left, or the `assign` or `notify` that makes that call (`Routes`); who has subscribed was told or the call is left
  (`Heard`); a started component is being created in every replica, and a replica is there, or the step that does it is
  left (`Runs`). Each kind of step has a lemma; `HandleStep` is what a call does to an akasalet.
* `Rpc_proofs` (`RpcAssumption`): `RpcTypeCorrect`, `OneOwnerCorrect`, `IntactCorrect`, `AccountedCorrect`, `RpcImplements`.
  `Typed` adds which stage needs which buffer and that the tries of a call are numbered; `Owned` says that
  no two places hold one buffer and the pool none of theirs, so that whoever takes a buffer writes into
  nobody else's (`MemKept`); then `Faithful` says what each buffer, wire and variable holds at each
  stage of a call, whatever else is in progress. `Counted` is what a call has counted at each stage. The refinement is
  proved step by step: each step of Rpc is one of MethodCall or leaves its variables alone.
* `Components_proofs` (`ComponentsAssumption`): `ComponentsTypeCorrect`, `WiredCorrect`. `WiredInv` says what a frame of a
  stack knows: the references it has filled stay filled, and it waits for the component of the
  frame above it (`Nested`); nobody else makes the same component (`Alone`, from the `sync.Once`, and `Locked`, from the mutex of the
  single akasalet); an answer on its way brings what it says (`Answered`). The key is `InitAlone`: a component is
  stored only once although `get` recurses, since a circle never comes back.
* `Process_proofs` (`ProcessAssumption`): `HandshakeCorrect`, `BlameCorrect`. `Configured` says which stages of both sides need
  the answer to `InitAkasalet`; `Blamed` says that `e.ctx` ends for a reason, that a goroutine of `Serve` does not
  end before `stop` has its error, and that `Serve` goes on only when all are gone.
* `Components_proofs` also holds the generator's verdicts, in a part of its own (`TypesAssumption`, `ProgramsAssumption`):
  `VerdictRightCorrect`, a theorem of `AnalysisSpec`, for any declarations, programs and order of the candidates.
  `WithinIsLeast`: `Within(t)` is the least set with `t` that is closed under parts, however the iteration went.
  `CheckTells` is the argument for one call: if the memo is right and every type on the path contains the
  one that is asked for, the answer tells the truth and leaves a right memo, given that the calls one level deeper do. A type met
  again on its path is inside itself, so that a false verdict recorded there is true; a type is recorded as
  serializable only when all its parts are. `ChecksTell` does the recursion, by the number of types that are not on the
  path: the path grows by one with every level, so that the last level of `Checks` is never reached. `AnalysisInv`
  carries this over a program: the types known to be AutoMarshals are serializable, the memo of the
  package is right, and the check of a candidate has failed if and only if a candidate that was checked is not serializable.

Only model-checked: everything temporal under fairness (`WaitEnds`, `Drained`, `NotBlocked`,
`PeerGone`, `BroadcastWakesAll`, `CloseReturns`, `Activated`, `DeathEnds`, `EndTogether`, `CreationEnds`, the liveness
half of `LatestSpec`), which is beyond the prover. `Generator`, `TypeSizes` and `Codec` use recursive operators over
types, which no theorem may reach, and `UpToDate` is about the files of this repository: `Closed`, `Dispatch`,
`RoundTrip` and `UpToDate` are checked on TLC's instances only.

## 5. Where the code departs from what one would expect

These were met while modelling. The models contain them; the properties say what remains true.

* Two stubs can give two calls one id (call.go 255): the run WrongReply.
* An endpoint that is removed and listed again is not connected again: `setState(missing)` walks `c.rcs`
  after the stub has left it, so `rc.conns` keeps the dead connection (call.go 182, 362).
  A draining connection that is listed again stays draining (call.go 759).
* Every method is retriable, also those marked NotRetriable (stub.go 64).
* A retried activation is answered although its routing info was lost, since the component is marked
  before the call is made (deployer.go 375). A failing retry may start a second replica (285).
* `NewEnvelope` hangs when the process dies before it has answered `InitAkasalet`; when the control server's
  Listen fails in `Serve`, the child is left un-reaped.
* Errors of `endCalls` are formatted with `%s`, so `Call` never retries after a failed read.
* A reader that ends with the server's context leaves its handlers running (call.go 917), and a connection accepted just
  then is neither served nor closed (1098). `Close` of a stub leaves its calls in flight.
* A cancel message has no payload. For length 0 the pool returns a nil buffer (bytes_pool.go 24), which `readMessage`
  dereferences (msg.go 133) in a goroutine nobody recovers: the run CancelPanics. The case of `readRequests` for
  cancels (call.go 911) is dead code.
* A string or bytes result of a stub that frees its result buffer (generator.go 1471-1474) points into it, since the
  decoder copies neither (deserialize.go 221-246): examples/reverser/akasar_gen.go 149-151 returns a string that a later call overwrites.
* `NewSerializer(0)` has no buffer (bytes_pool.go 24): `grow` and `Data` dereference nil (serialize.go 61, 205). The generator
  writes it when all arguments or all results are AutoMarshals without fields, whose size is 0 (generator.go 1434, 1616).
* The client stubs of the root package's akasar_gen.go (395-1031) do not free their results and do not import
  `runtime/pool`: the file is from before generator.go 1471-1474. The examples' files are current. `UpToDate` shows
  that this is the only difference in what the tables of `GeneratedFiles` record.
* A decoder that meets a type it does not know, a value that is no error or a string longer than its message panics with
  something no recover of the stubs accepts (deserialize.go 58, 65, 87, 224), which ends the process of the client or of the server.
* Log entries that are in the channel or in a batch when the context ends are lost (logger.go).
* A client stub is made without its tracer (generator.go 982): a remote call whose context has a valid span panics before the
  stub's recover is deferred (`Begin` in Rpc). The control servers have no tracer either (deployers/serve.go 39, options.go 63).
* Components that refer to each other recurse (single) or wait for ever (remote); no check refuses them. The test for
  references in `validate.go` 26 never matches, and `fill.go` 97 validates the field's name instead of its tag.
* `ImplementsAutoMarshal` is false for every type: `isAkasarUnmarshal` compares parameters with results.
* An interface or a struct literal in a signature makes the generator panic after it has noted its error: nothing was
  recorded in `checked` for the assertion that follows (types.go 401).
* The error of `newDeployer` is overwritten (deploy.go 75).
* Histogram bounds are not required to ascend, although the message says so (metrics_map.go 41).
* `Cond.Signal` may be spent on a Wait that gave up (only `Broadcast` is used).

## 6. What is not modelled

* Bytes on the wire: framing, versions of the protocol, how long a deadline is; bytes of scalars.
* The order of the round-robin balancer and `routingBalancer.Pick`: a free choice in ClientConn.
* In Deployment: failing Inits, listeners and an akasalet's start. Components and Process have them,
  each for one process.
* Retry's delay: only its effect matters.
* The registry of metrics and labels, traces, log formatting, HTTP helpers: conversions, or maps under
  one mutex.
* Configuration, directories, commands, exit signals: input and output.
* The parsing of Go and the text of generated files; code that protoc generated (`*.pb.go`).
* `internal/resolver/etcd`, `internal/endpoint`: imported by nothing.

## 7. Plan

Done: ClientConn, ServerConn, Cond, RoutingResolver with Subscription, Rpc with MethodCall, Deployment with Placement,
Deployer and Akasalet, Components, Process, Errgroup, Metric, Sizes, and the generator up to its verdicts (Analysis),
checked and proved; RemoteLogger and the files the generator writes, checked.

Next, in this order:
1. ClientConn: what remains of `Agreement` with several stubs.
2. Deployment: what a failed section leaves behind and its retry can rely on, the part of `RoutingCurrent` that holds
   whatever fails.

Composition: Deployment composes Deployer and Akasalet over Placement; RoutingResolver composes
Cond; Process composes two Errgroups and RemoteLogger; Generator composes Analysis with what is written, over Codec, TypeSizes, TypeSet and GoTypes. Rpc stands on what
ClientConn and ServerConn keep, and Deployment on what a call may do
(`CallReturns`, `CallFails`, `CallBreaks`, `ReplyBreaks`).
