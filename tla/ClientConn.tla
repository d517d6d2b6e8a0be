----------------------------- MODULE ClientConn -----------------------------
(***************************************************************************)
(* The client half of internal/net/call: stubs (reconnectionConnection)    *)
(* that share one clientConnection per address through the process-wide    *)
(* unifiedClientConnectionManager, the goroutine that manages a            *)
(* clientConnection, and the callers that run Call on a stub.              *)
(*                                                                         *)
(* Grain.  A section under a connection's mutex c.mu is one step: setState *)
(* and everything it calls runs inside one.  startCall holds only its      *)
(* stub's mutex rc.mu, so each of its accesses to the connection is a step *)
(* of its own.  updateEndpoints holds rc.mu throughout and locks c.mu once *)
(* per address: one or two steps per address.  A step in which the code    *)
(* panics sets "panicked", after which nothing happens.                    *)
(***************************************************************************)
EXTENDS Naturals

CONSTANTS Stubs,        \* the reconnectionConnections of the process
          Addrs,        \* endpoint addresses
          Conns,        \* pool of clientConnection objects (a bound)
          Callers,      \* goroutines, each making one Call
          AddrOf,       \* the address a clientConnection of the pool is for
          StubOf,       \* the stub a caller calls on
          NoRetry,      \* callers whose method is listed in reg.NoRetry
          EndpointSets, \* the endpoint lists the resolver may report
          MaxNet,       \* bound: net.Conns that are ever dialled
          MaxAttempts,  \* bound: callOnce attempts of one Call
          MaxID,        \* bound: ids of one connection; lastID grows by one
                        \* per attempt, so Callers * MaxAttempts is enough
          NoConn, NoRpc, Free, Updater, Pending, Failed  \* distinct tokens

(* One callOnce is one "call" object: the n-th attempt of caller k.        *)
Rpcs == Callers \X (1..MaxAttempts)

Ids   == 1..MaxID
Nets  == 1..MaxNet
NoNet == 0

ASSUME ConstantsAssumption ==
  /\ AddrOf \in [Conns -> Addrs]
  /\ StubOf \in [Callers -> Stubs]
  /\ NoRetry \subseteq Callers
  /\ EndpointSets \subseteq SUBSET Addrs
  /\ MaxNet \in Nat /\ MaxAttempts \in Nat \ {0} /\ MaxID \in Nat
  /\ NoConn \notin Conns /\ NoRpc \notin Rpcs
  /\ Free \notin Callers /\ Updater \notin Callers /\ Free # Updater
  /\ Pending \notin Rpcs /\ Failed \notin Rpcs /\ Pending # Failed

VARIABLES
  \* reconnectionConnection, by stub
  conns,       \* conns: address -> connection
  closed,      \* closed
  lock,        \* holder of rc.mu
  balancer,    \* opts.Balancer: how often each connection is listed
  want,        \* endpoints of the updateEndpoints that is running or ran last
  todo,        \* addresses updateEndpoints has still to handle
  looked,      \* result of ucm.register's first lookup, before c.mu
  \* clientConnection, by connection
  state, rcs, inBalancer, net, calls, lastID,
  live,        \* the context of its manage goroutine is not cancelled
  clientConns, \* the manager's table: address -> connection
  \* the manage goroutine of each connection
  mpc,         \* where it stands
  mnet,        \* nc of its connectOnce
  reply,       \* the call and reply it holds between findAndEndCall and close
  \* callers
  pc,          \* where the caller stands
  loc,         \* conn, rpc.id and nc returned by its startCall
  attempt,     \* the attempt it is in
  result,      \* what Call returned
  done,        \* outcome of each call object: Pending, Failed, or the call
               \* whose request the delivered reply answers
  \* network
  netState, wire,
  panicked

stubVars   == <<closed, lock, want, todo, looked>>
connVars   == <<conns, balancer, state, inBalancer, net, calls, live, clientConns>>
mgrVars    == <<mpc, mnet, reply>>
callerVars == <<pc, loc, attempt, result>>
sharedVars == <<connVars, rcs, lastID, done, netState, wire, panicked>>
vars == <<stubVars, sharedVars, mgrVars, callerVars>>

States    == {"missing", "disconnected", "checking", "idle", "active", "draining"}
OnNet     == {"checking", "idle", "active", "draining"}
NoCalls   == [i \in Ids |-> NoRpc]
NoLook    == [addr |-> NoConn, conn |-> NoConn]

Rpc(k) == <<k, attempt[k]>>

Init ==
  /\ conns = [rc \in Stubs |-> [a \in Addrs |-> NoConn]]
  /\ closed = [rc \in Stubs |-> FALSE]
  /\ lock = [rc \in Stubs |-> Free]
  /\ balancer = [rc \in Stubs |-> [c \in Conns |-> 0]]
  /\ want = [rc \in Stubs |-> {}]
  /\ todo = [rc \in Stubs |-> {}]
  /\ looked = [rc \in Stubs |-> NoLook]
  /\ state = [c \in Conns |-> "missing"]
  /\ rcs = [c \in Conns |-> {}]
  /\ inBalancer = [c \in Conns |-> FALSE]
  /\ net = [c \in Conns |-> NoNet]
  /\ calls = [c \in Conns |-> NoCalls]
  /\ lastID = [c \in Conns |-> 0]
  /\ live = [c \in Conns |-> FALSE]
  /\ clientConns = [a \in Addrs |-> NoConn]
  /\ mpc = [c \in Conns |-> "new"]
  /\ mnet = [c \in Conns |-> NoNet]
  /\ reply = [c \in Conns |-> <<NoRpc, NoRpc>>]
  /\ pc = [k \in Callers |-> "pick"]
  /\ loc = [k \in Callers |-> [conn |-> NoConn, id |-> 0, net |-> NoNet]]
  /\ attempt = [k \in Callers |-> 1]
  /\ result = [k \in Callers |-> "none"]
  /\ done = [r \in Rpcs |-> Pending]
  /\ netState = [n \in Nets |-> "unused"]
  /\ wire = {}
  /\ panicked = FALSE
-----------------------------------------------------------------------------
(* The state machine of a clientConnection, run under c.mu.  w holds the   *)
(* calls table, c.c, the network and the outcomes as they stand when       *)
(* setState is called; rcs' is c.rcs at that moment.                       *)

Now(c) == [calls |-> calls[c], net |-> net[c], nets |-> netState, done |-> done]

(* endCalls: every call of the table cs ends with a communication error.   *)
EndCalls(d, cs) ==
  [r \in Rpcs |-> IF \E i \in Ids : cs[i] = r THEN Failed ELSE d[r]]

CloseNet(ns, n) == [m \in Nets |-> IF m = n THEN "closed" ELSE ns[m]]

CheckInvariants(present, s, nc, inB, cs) ==
  /\ present <=> (s # "missing")
  /\ (nc # NoNet) <=> (s \in OnNet)
  /\ inB <=> (s \in {"idle", "active"})
  /\ (cs # NoCalls) <=> (s \in {"active", "draining"})

(* The idle <-> active switch, which only counts the calls.                *)
FastSetState(c, s, w) ==
  /\ state' = [state EXCEPT ![c] = s]
  /\ calls' = [calls EXCEPT ![c] = w.calls]
  /\ net' = [net EXCEPT ![c] = w.net]
  /\ netState' = w.nets
  /\ done' = w.done
  /\ panicked' = ((w.calls = NoCalls) <=> (s = "active"))
  /\ UNCHANGED <<conns, balancer, inBalancer, live, clientConns>>

(* Mutated form of Rebalance: Remove does not look whether it is listed.   *)
Rebalance_Unchecked(c, s) ==
  LET in == s \in {"idle", "active"} IN
  /\ inBalancer' = [inBalancer EXCEPT ![c] = in]
  /\ balancer' = [rc \in Stubs |-> IF rc \notin rcs'[c] THEN balancer[rc]
                    ELSE [balancer[rc] EXCEPT ![c] = IF in THEN @ + 1 ELSE @ - 1]]

(* Balancer.Add or Remove on every registered stub, when c.inBalancer      *)
(* disagrees with the new state.                                           *)
Rebalance(c, s) ==
  LET in == s \in {"idle", "active"} IN
  /\ inBalancer' = [inBalancer EXCEPT ![c] = in]
  /\ balancer' = [rc \in Stubs |->
       IF rc \notin rcs'[c] \/ (in <=> inBalancer[c]) THEN balancer[rc]
       ELSE IF in THEN [balancer[rc] EXCEPT ![c] = @ + 1]
       ELSE IF balancer[rc][c] > 0 THEN [balancer[rc] EXCEPT ![c] = @ - 1]
       ELSE balancer[rc]]

(* A connection that goes missing leaves the tables and stops its manager. *)
Forget(c, s) ==
  IF s = "missing"
  THEN /\ conns' = [rc \in Stubs |-> IF rc \in rcs'[c]
                      THEN [conns[rc] EXCEPT ![AddrOf[c]] = NoConn]
                      ELSE conns[rc]]
       /\ clientConns' = [clientConns EXCEPT ![AddrOf[c]] = NoConn]
       /\ live' = [live EXCEPT ![c] = FALSE]
  ELSE UNCHANGED <<conns, clientConns, live>>

SlowSetState(c, s, w) ==
  LET hangup == s \in {"missing", "disconnected"}
      keep   == s \in {"active", "draining"}
  IN /\ state' = [state EXCEPT ![c] = s]
     /\ Forget(c, s)
     /\ net' = [net EXCEPT ![c] = IF hangup THEN NoNet ELSE w.net]
     /\ netState' = IF hangup THEN CloseNet(w.nets, w.net) ELSE w.nets
     /\ Rebalance(c, s)
     /\ calls' = [calls EXCEPT ![c] = IF keep THEN w.calls ELSE NoCalls]
     /\ done' = IF keep THEN w.done ELSE EndCalls(w.done, w.calls)
     /\ panicked' = ~CheckInvariants(clientConns'[AddrOf[c]] # NoConn, s, net'[c],
                                     inBalancer'[c], calls'[c])

SetState(c, s, w) ==
  IF {state[c], s} = {"idle", "active"}
  THEN FastSetState(c, s, w)
  ELSE SlowSetState(c, s, w)

(* The switches on c.state around setState: s = state[c] is their default. *)
Switch(c, s, w) ==
  IF s # state[c]
  THEN SetState(c, s, w)
  ELSE /\ calls' = [calls EXCEPT ![c] = w.calls]
       /\ net' = [net EXCEPT ![c] = w.net]
       /\ netState' = w.nets
       /\ done' = w.done
       /\ UNCHANGED <<conns, balancer, state, inBalancer, live, clientConns,
                      panicked>>

(* Mutated form of Connected: the state is not looked at.                  *)
Connected_Always(c) == "checking"

Connected(c) == IF state[c] = "disconnected" THEN "checking" ELSE state[c]
Checked(c)    == IF state[c] = "checking" THEN "idle" ELSE state[c]
LastDone(c)   == IF state[c] = "active" THEN "idle"
                 ELSE IF state[c] = "draining" THEN "missing" ELSE state[c]
Unregister(c) == IF state[c] \in {"disconnected", "checking", "idle"} THEN "missing"
                 ELSE IF state[c] = "active" THEN "draining" ELSE state[c]
FailTo(c)     == IF state[c] \in {"checking", "idle", "active"} THEN "disconnected"
                 ELSE IF state[c] = "draining" THEN "missing" ELSE state[c]

(* Mutated form of Fail: the calls are ended but stay in the table.        *)
Fail_KeepTable(c, w) ==
  Switch(c, FailTo(c), [w EXCEPT !.done = EndCalls(w.done, w.calls)])

(* fail: end every call, then leave the connected states.                  *)
Fail(c, w) ==
  Switch(c, FailTo(c), [w EXCEPT !.done = EndCalls(w.done, w.calls), !.calls = NoCalls])

(* Mutated form of EndCall: the call stays in the table.                   *)
EndCall_Keep(c, id) == Switch(c, state[c], Now(c))

(* Taking call id out of the table: endCall, findAndEndCall.               *)
EndCall(c, id) ==
  LET cs == [calls[c] EXCEPT ![id] = NoRpc]
  IN Switch(c, IF cs = NoCalls THEN LastDone(c) ELSE state[c],
            [Now(c) EXCEPT !.calls = cs])
-----------------------------------------------------------------------------
(* Call, callOnce and startCall.                                           *)

Goto(k, l)   == pc' = [pc EXCEPT ![k] = l]
Return(k, v) == /\ Goto(k, "returned")
                /\ result' = [result EXCEPT ![k] = v]
                /\ UNCHANGED attempt

(* makeStubMethods: every method retries, and so do those of reg.NoRetry.  *)
StubRetry(k) == IF k \in NoRetry THEN TRUE ELSE TRUE

(* Call after a callOnce that returned an error wrapping CommunicationError:*)
(* another round, or the context is done by the next r.Continue.           *)
RetryOrReturn(k) ==
  \/ /\ StubRetry(k) /\ attempt[k] < MaxAttempts
     /\ attempt' = [attempt EXCEPT ![k] = @ + 1]
     /\ Goto(k, "pick")
     /\ UNCHANGED result
  \/ Return(k, IF StubRetry(k) THEN "ctx" ELSE "comm")

(* startCall, from rc.mu.Lock to the balancer's answer.  With an empty     *)
(* balancer it unlocks and tries again, which changes nothing.             *)
Pick(k) ==
  LET rc == StubOf[k] IN
  /\ pc[k] = "pick" /\ lock[rc] = Free /\ ~closed[rc]
  /\ \E c \in Conns :
       /\ balancer[rc][c] > 0
       /\ loc' = [loc EXCEPT ![k] = [conn |-> c, id |-> 0, net |-> NoNet]]
  /\ lock' = [lock EXCEPT ![rc] = k]
  /\ Goto(k, "count")
  /\ UNCHANGED <<closed, want, todo, looked, sharedVars, mgrVars, attempt,
                 result>>

PickOnClosed(k) ==
  /\ pc[k] = "pick" /\ lock[StubOf[k]] = Free /\ closed[StubOf[k]]
  /\ Return(k, "closed")
  /\ UNCHANGED <<stubVars, sharedVars, mgrVars, loc>>

(* The context is done before a connection was picked.                     *)
GiveUpPicking(k) ==
  /\ pc[k] = "pick"
  /\ Return(k, "ctx")
  /\ UNCHANGED <<stubVars, sharedVars, mgrVars, loc>>

(* c.lastID++ is a load and a store: the load ...                          *)
LoadID(k) ==
  /\ pc[k] = "count"
  /\ loc' = [loc EXCEPT ![k].id = lastID[loc[k].conn]]
  /\ Goto(k, "insert")
  /\ UNCHANGED <<stubVars, sharedVars, mgrVars, attempt, result>>

(* Mutated form of Insert: lastID is not stored, so ids are used again.    *)
Insert_Reuse(k) ==
  LET c == loc[k].conn
      i == loc[k].id + 1
  IN /\ pc[k] = "insert" /\ i \in Ids
     /\ loc' = [loc EXCEPT ![k].id = i]
     /\ calls' = [calls EXCEPT ![c][i] = Rpc(k)]
     /\ Goto(k, "start")
     /\ UNCHANGED <<stubVars, conns, balancer, state, inBalancer, net, live,
                    clientConns, rcs, lastID, mgrVars, attempt, result, done,
                    netState, wire, panicked>>

(* ... and the store, then c.calls[rpc.id] = rpc.                          *)
Insert(k) ==
  LET c == loc[k].conn
      i == loc[k].id + 1
  IN /\ pc[k] = "insert" /\ i \in Ids
     /\ loc' = [loc EXCEPT ![k].id = i]
     /\ lastID' = [lastID EXCEPT ![c] = i]
     /\ calls' = [calls EXCEPT ![c][i] = Rpc(k)]
     /\ Goto(k, "start")
     /\ UNCHANGED <<stubVars, conns, balancer, state, inBalancer, net, live,
                    clientConns, rcs, mgrVars, attempt, result, done, netState,
                    wire, panicked>>

(* callStart reads c.state outside c.mu ...                                *)
CallStart(k) ==
  /\ pc[k] = "start"
  /\ Goto(k, IF state[loc[k].conn] = "idle" THEN "activate" ELSE "conn")
  /\ UNCHANGED <<stubVars, sharedVars, mgrVars, loc, attempt, result>>

(* ... and, having seen idle, calls setState(active).                      *)
Activate(k) ==
  LET c == loc[k].conn IN
  /\ pc[k] = "activate"
  /\ UNCHANGED rcs
  /\ SetState(c, "active", Now(c))
  /\ Goto(k, "conn")
  /\ UNCHANGED <<stubVars, lastID, mgrVars, loc, attempt, result, wire>>

(* nc := c.c; rc.mu.Unlock()                                               *)
TakeConn(k) ==
  /\ pc[k] = "conn"
  /\ loc' = [loc EXCEPT ![k].net = net[loc[k].conn]]
  /\ lock' = [lock EXCEPT ![StubOf[k]] = Free]
  /\ Goto(k, "write")
  /\ UNCHANGED <<closed, want, todo, looked, sharedVars, mgrVars, attempt,
                 result>>

(* writeMessage on a nil net.Conn panics.                                  *)
WriteNil(k) ==
  /\ pc[k] = "write" /\ loc[k].net = NoNet
  /\ panicked' = TRUE
  /\ UNCHANGED <<stubVars, connVars, rcs, lastID, mgrVars, callerVars, done,
                 netState, wire>>

Write(k) ==
  LET n == loc[k].net IN
  /\ pc[k] = "write" /\ n # NoNet
  /\ \/ /\ netState[n] = "open"
        /\ wire' = wire \cup {[kind |-> "request", net |-> n, id |-> loc[k].id, rpc |-> Rpc(k)]}
        /\ Goto(k, "wait")
     \/ /\ netState[n] = "closed"
        /\ Goto(k, "shutdown")
        /\ UNCHANGED wire
  /\ UNCHANGED <<stubVars, connVars, rcs, lastID, mgrVars, loc, attempt, result,
                 done, netState, panicked>>

(* conn.shutdown after a failed write of the request or of the cancel.     *)
Shutdown(k) ==
  LET c == loc[k].conn IN
  /\ \/ pc[k] = "shutdown" /\ Goto(k, "drop") /\ UNCHANGED <<result, attempt>>
     \/ pc[k] = "shutdown2" /\ Return(k, "ctx")
  /\ UNCHANGED rcs
  /\ Fail(c, Now(c))
  /\ UNCHANGED <<stubVars, lastID, mgrVars, loc, wire>>

(* conn.endCall after the failed write of the request.                     *)
DropCall(k) ==
  /\ pc[k] = "drop"
  /\ UNCHANGED rcs
  /\ EndCall(loc[k].conn, loc[k].id)
  /\ RetryOrReturn(k)
  /\ UNCHANGED <<stubVars, lastID, mgrVars, loc, wire>>

(* The done signal.  Neither outcome wraps CommunicationError (endCalls    *)
(* formats the words, not the error), so Call does not retry it.           *)
Receive(k) ==
  /\ pc[k] = "wait" /\ done[Rpc(k)] # Pending
  /\ Return(k, IF done[Rpc(k)] = Failed THEN "failed" ELSE "reply")
  /\ UNCHANGED <<stubVars, sharedVars, mgrVars, loc>>

(* The context is done: conn.endCall, then the cancel message unless the   *)
(* deadline has passed.                                                    *)
GiveUpWaiting(k) ==
  /\ pc[k] = "wait"
  /\ UNCHANGED rcs
  /\ EndCall(loc[k].conn, loc[k].id)
  /\ \/ Goto(k, "cancel") /\ UNCHANGED <<result, attempt>>
     \/ Return(k, "ctx")
  /\ UNCHANGED <<stubVars, lastID, mgrVars, loc, wire>>

WriteCancel(k) ==
  /\ pc[k] = "cancel"
  /\ \/ netState[loc[k].net] = "open" /\ Return(k, "ctx")
     \/ netState[loc[k].net] = "closed" /\ Goto(k, "shutdown2") /\ UNCHANGED <<result, attempt>>
  /\ UNCHANGED <<stubVars, sharedVars, mgrVars, loc>>
-----------------------------------------------------------------------------
(* The manage goroutine of connection c.                                   *)

Manager(c, l, n) ==
  /\ mpc' = [mpc EXCEPT ![c] = l]
  /\ mnet' = [mnet EXCEPT ![c] = n]

(* manage's r.Continue(ctx).                                               *)
Continue(c) ==
  /\ mpc[c] = "retry"
  /\ Manager(c, IF live[c] THEN "dial" ELSE "ended", NoNet)
  /\ UNCHANGED <<stubVars, sharedVars, reply, callerVars>>

DialFails(c) ==
  /\ mpc[c] = "dial"
  /\ Manager(c, "retry", NoNet)
  /\ UNCHANGED <<stubVars, sharedVars, reply, callerVars>>

(* connectOnce from Dial's return to the unlock in exchangeVersions.  Dial *)
(* may have succeeded just before the context was cancelled.               *)
Dialled(c) ==
  \E n \in Nets :
    /\ mpc[c] = "dial"
    /\ netState[n] = "unused" /\ \A m \in Nets : m < n => netState[m] # "unused"
    /\ Manager(c, "handshake", n)
    /\ UNCHANGED rcs
    /\ Switch(c, Connected(c),
              [Now(c) EXCEPT !.net = n, !.nets = [@ EXCEPT ![n] = "open"]])
    /\ UNCHANGED <<stubVars, lastID, reply, callerVars, wire>>

(* exchangeVersions failed: connectOnce returns and closes nc, no more.    *)
HandshakeFails(c) ==
  /\ mpc[c] = "handshake" /\ netState[mnet[c]] = "closed"
  /\ Manager(c, "retry", NoNet)
  /\ UNCHANGED <<stubVars, sharedVars, reply, callerVars>>

(* Mutated form of Reading: the loop reads idle connections only.          *)
Reading_IdleOnly(s) == s = "idle"

Reading(s) == s \in {"idle", "active", "draining"}

(* The version exchange succeeded: checked() and the test of the read loop.*)
Handshaken(c) ==
  LET s == Checked(c) IN
  /\ mpc[c] = "handshake" /\ netState[mnet[c]] = "open"
  /\ UNCHANGED rcs
  /\ IF Reading(s)
     THEN Manager(c, "read", mnet[c]) /\ Switch(c, s, Now(c))
     ELSE /\ Manager(c, "retry", NoNet)
          /\ Switch(c, s, [Now(c) EXCEPT !.nets = CloseNet(@, mnet[c])])
  /\ UNCHANGED <<stubVars, lastID, reply, callerVars, wire>>

(* readAndProcessMessage got a reply: findAndEndCall.                      *)
ReadReply(c) ==
  \E m \in wire :
    LET r == calls[c][m.id] IN
    /\ mpc[c] = "read" /\ m.kind = "reply" /\ m.net = mnet[c]
    /\ wire' = wire \ {m}
    /\ UNCHANGED rcs
    /\ IF r = NoRpc
       THEN /\ Manager(c, "loop", mnet[c])
            /\ UNCHANGED <<connVars, done, netState, panicked, reply>>
       ELSE /\ Manager(c, "deliver", mnet[c])
            /\ EndCall(c, m.id)
            /\ reply' = [reply EXCEPT ![c] = <<r, m.rpc>>]
    /\ UNCHANGED <<stubVars, lastID, callerVars>>

(* Outside c.mu: the response, done and close(doneSignal).                 *)
Deliver(c) ==
  /\ mpc[c] = "deliver"
  /\ done' = [done EXCEPT ![reply[c][1]] = reply[c][2]]
  /\ reply' = [reply EXCEPT ![c] = <<NoRpc, NoRpc>>]
  /\ Manager(c, "loop", mnet[c])
  /\ UNCHANGED <<stubVars, connVars, rcs, lastID, callerVars, netState, wire,
                 panicked>>

(* The test of the read loop; connectOnce's deferred nc.Close when it ends.*)
Loop(c) ==
  /\ mpc[c] = "loop"
  /\ IF Reading(state[c])
     THEN Manager(c, "read", mnet[c]) /\ UNCHANGED netState
     ELSE Manager(c, "retry", NoNet) /\ netState' = CloseNet(netState, mnet[c])
  /\ UNCHANGED <<stubVars, connVars, rcs, lastID, reply, callerVars, done, wire,
                 panicked>>

(* readMessage failed: fail, and the loop ends.                            *)
ReadFails(c) ==
  /\ mpc[c] = "read" /\ netState[mnet[c]] = "closed"
  /\ Manager(c, "retry", NoNet)
  /\ UNCHANGED rcs
  /\ Fail(c, Now(c))
  /\ UNCHANGED <<stubVars, lastID, reply, callerVars, wire>>
-----------------------------------------------------------------------------
(* updateEndpoints and Close of stub rc.                                   *)

UpdateEndpoints(rc) ==
  /\ lock[rc] = Free /\ ~closed[rc]
  /\ lock' = [lock EXCEPT ![rc] = Updater]
  /\ \E E \in EndpointSets : want' = [want EXCEPT ![rc] = E]
  /\ todo' = [todo EXCEPT ![rc] = Addrs]
  /\ UNCHANGED <<closed, looked, sharedVars, mgrVars, callerVars>>

(* Address a is dealt with; after the last one the deferred rc.mu.Unlock.  *)
Handled(rc, a) ==
  /\ todo' = [todo EXCEPT ![rc] = @ \ {a}]
  /\ lock' = [lock EXCEPT ![rc] = IF todo[rc] = {a} THEN Free ELSE @]
  /\ looked' = [looked EXCEPT ![rc] = NoLook]
  /\ UNCHANGED <<closed, want>>

(* An address that is in rc.conns already is left as it is.                *)
KeepEndpoint(rc) ==
  \E a \in todo[rc] \cap want[rc] :
    /\ conns[rc][a] # NoConn /\ looked[rc] = NoLook
    /\ Handled(rc, a)
    /\ UNCHANGED <<sharedVars, mgrVars, callerVars>>

(* ucm.register for a new address: the lookup under ucm.mu ...             *)
Lookup(rc) ==
  \E a \in todo[rc] \cap want[rc] :
    /\ conns[rc][a] = NoConn /\ looked[rc] = NoLook
    /\ looked' = [looked EXCEPT ![rc] = [addr |-> a, conn |-> clientConns[a]]]
    /\ UNCHANGED <<closed, lock, want, todo, sharedVars, mgrVars, callerVars>>

(* ... registerFunc on the connection found, under its c.mu ...            *)
RegisterExisting(rc, c) ==
  /\ rcs' = [rcs EXCEPT ![c] = @ \cup {rc}]
  /\ balancer' = IF rc \notin rcs[c] /\ state[c] \in {"idle", "active"}
                 THEN [balancer EXCEPT ![rc][c] = @ + 1]
                 ELSE balancer
  /\ conns' = [conns EXCEPT ![rc][AddrOf[c]] = c]
  /\ UNCHANGED <<state, inBalancer, net, calls, live, clientConns, mpc>>

(* ... or a new connection, whose register() makes it disconnected.        *)
RegisterNew(rc, c) ==
  /\ mpc[c] = "new"
  /\ rcs' = [rcs EXCEPT ![c] = {rc}]
  /\ clientConns' = [clientConns EXCEPT ![AddrOf[c]] = c]
  /\ conns' = [conns EXCEPT ![rc][AddrOf[c]] = c]
  /\ state' = [state EXCEPT ![c] = "disconnected"]
  /\ live' = [live EXCEPT ![c] = TRUE]
  /\ mpc' = [mpc EXCEPT ![c] = "retry"]
  /\ UNCHANGED <<balancer, inBalancer, net, calls>>

Register(rc) ==
  LET a == looked[rc].addr
      c == IF looked[rc].conn # NoConn THEN looked[rc].conn ELSE clientConns[a]
  IN /\ looked[rc] # NoLook
     /\ \/ c # NoConn /\ RegisterExisting(rc, c)
        \/ c = NoConn /\ \E f \in Conns : AddrOf[f] = a /\ RegisterNew(rc, f)
     /\ Handled(rc, a)
     /\ UNCHANGED <<lastID, mnet, reply, callerVars, done, netState, wire,
                    panicked>>

(* The second loop: unregisterReConnection of every dropped address.       *)
DropEndpoint(rc) ==
  \E a \in todo[rc] \ want[rc] :
    LET c == conns[rc][a] IN
    /\ todo[rc] \cap want[rc] = {}
    /\ Handled(rc, a)
    /\ IF c # NoConn /\ rc \in rcs[c]
       THEN /\ rcs' = [rcs EXCEPT ![c] = @ \ {rc}]
            /\ Switch(c, IF rcs[c] = {rc} THEN Unregister(c) ELSE state[c], Now(c))
       ELSE UNCHANGED <<rcs, connVars, done, netState, panicked>>
    /\ UNCHANGED <<lastID, mgrVars, callerVars, wire>>

(* Close: closeReconnection on every connection.  The calls c.rcs[rc]      *)
(* lists are ended, and nothing ever lists one.                            *)
Close(rc) ==
  /\ lock[rc] = Free /\ ~closed[rc]
  /\ closed' = [closed EXCEPT ![rc] = TRUE]
  /\ rcs' = [c \in Conns |-> IF \E a \in Addrs : conns[rc][a] = c
                             THEN rcs[c] \ {rc} ELSE rcs[c]]
  /\ UNCHANGED <<lock, want, todo, looked, connVars, lastID, mgrVars, callerVars,
                 done, netState, wire, panicked>>
-----------------------------------------------------------------------------
(* The environment: the server answers requests in any order; a net.Conn   *)
(* breaks at any time, except the last one the bound allows.               *)

Serve(m) ==
  /\ m.kind = "request"
  /\ wire' = (wire \ {m}) \cup {[m EXCEPT !.kind = "reply"]}
  /\ UNCHANGED <<stubVars, connVars, rcs, lastID, mgrVars, callerVars, done,
                 netState, panicked>>

Break(n) ==
  /\ netState[n] = "open" /\ n < MaxNet
  /\ netState' = CloseNet(netState, n)
  /\ UNCHANGED <<stubVars, connVars, rcs, lastID, mgrVars, callerVars, done, wire,
                 panicked>>

(* The steps caller k takes on its own, and those its context forces.      *)
CallerStep(k) ==
  \/ Pick(k) \/ PickOnClosed(k) \/ LoadID(k) \/ Insert(k) \/ CallStart(k) \/ Activate(k)
  \/ TakeConn(k) \/ WriteNil(k) \/ Write(k) \/ Shutdown(k) \/ DropCall(k) \/ Receive(k)
  \/ WriteCancel(k)

ManagerStep(c) ==
  \/ Continue(c) \/ Dialled(c) \/ HandshakeFails(c) \/ Handshaken(c) \/ ReadReply(c)
  \/ Deliver(c) \/ Loop(c) \/ ReadFails(c)

UpdateStep(rc) == KeepEndpoint(rc) \/ Lookup(rc) \/ Register(rc) \/ DropEndpoint(rc)

Step ==
  \/ \E k \in Callers : CallerStep(k) \/ GiveUpPicking(k) \/ GiveUpWaiting(k)
  \/ \E c \in Conns : ManagerStep(c) \/ DialFails(c)
  \/ \E rc \in Stubs : UpdateEndpoints(rc) \/ UpdateStep(rc) \/ Close(rc)
  \/ \E m \in wire : Serve(m)
  \/ \E n \in Nets : Break(n)

Next == ~panicked /\ Step

Spec == Init /\ [][Next]_vars
-----------------------------------------------------------------------------
(* Every variable holds a value of its Go type, and a balancer's Remove    *)
(* never runs more often than its Add.                                     *)
Tokens == {NoRpc} \cup Rpcs
Looks  == {NoLook} \cup [addr : Addrs, conn : Conns \cup {NoConn}]
Locs   == [conn : Conns \cup {NoConn}, id : Nat, net : Nets \cup {NoNet}]
Tables    == [Ids -> Tokens]
Outcomes  == [Rpcs -> Rpcs \cup {Pending, Failed}]
NetStates == [Nets -> {"unused", "open", "closed"}]
Messages  == [kind : {"request", "reply"}, net : Nets, id : Ids, rpc : Rpcs]
CallerPCs == {"pick", "count", "insert", "start", "activate", "conn", "write", "wait",
              "shutdown", "drop", "cancel", "shutdown2", "returned"}
ManagerPCs == {"new", "retry", "dial", "handshake", "read", "deliver", "loop", "ended"}
Results == {"none", "ctx", "closed", "comm", "failed", "reply"}

StubTypes ==
  /\ conns \in [Stubs -> [Addrs -> Conns \cup {NoConn}]]
  /\ closed \in [Stubs -> BOOLEAN]
  /\ lock \in [Stubs -> Callers \cup {Free, Updater}]
  /\ balancer \in [Stubs -> [Conns -> Nat]]
  /\ want \in [Stubs -> SUBSET Addrs]
  /\ todo \in [Stubs -> SUBSET Addrs]
  /\ looked \in [Stubs -> Looks]

ConnTypes ==
  /\ state \in [Conns -> States]
  /\ rcs \in [Conns -> SUBSET Stubs]
  /\ inBalancer \in [Conns -> BOOLEAN]
  /\ net \in [Conns -> Nets \cup {NoNet}]
  /\ calls \in [Conns -> Tables]
  /\ lastID \in [Conns -> Nat]
  /\ live \in [Conns -> BOOLEAN]
  /\ clientConns \in [Addrs -> Conns \cup {NoConn}]
  /\ done \in Outcomes
  /\ netState \in NetStates
  /\ panicked \in BOOLEAN

ManagerTypes ==
  /\ mpc \in [Conns -> ManagerPCs]
  /\ mnet \in [Conns -> Nets \cup {NoNet}]
  /\ reply \in [Conns -> Tokens \X Tokens]

CallerTypes ==
  /\ pc \in [Callers -> CallerPCs]
  /\ loc \in [Callers -> Locs]
  /\ attempt \in [Callers -> 1..MaxAttempts]
  /\ result \in [Callers -> Results]
  /\ wire \subseteq Messages

TypeOK == StubTypes /\ ConnTypes /\ ManagerTypes /\ CallerTypes

(* A calls table lists a call only while its caller is inside callOnce,    *)
(* under the connection and id that caller will pass to endCall, and only  *)
(* while its done channel is open.  With it no path can close doneSignal a *)
(* second time, which would panic (call.go 466-486, 664-665, 713-719).     *)
InCallOnce == {"start", "activate", "conn", "write", "wait", "shutdown", "drop"}
CallTable ==
  \A c \in Conns, i \in Ids, k \in Callers, n \in 1..MaxAttempts :
    calls[c][i] = <<k, n>> =>
      /\ pc[k] \in InCallOnce /\ n = attempt[k]
      /\ loc[k].conn = c /\ loc[k].id = i
      /\ done[<<k, n>>] = Pending

(* What makes CallTable inductive: the call a reader holds has left every  *)
(* table, is held by that reader only and is still pending; an attempt     *)
(* that has not reached the table yet has no outcome.                      *)
BeforeInsert == {"pick", "count", "insert"}
HeldOK ==
  \A c \in Conns, k \in Callers, n \in 1..MaxAttempts :
    reply[c][1] = <<k, n>> =>
      /\ done[<<k, n>>] = Pending
      /\ n <= attempt[k] /\ (n = attempt[k] => pc[k] \notin BeforeInsert)
      /\ \A d \in Conns, i \in Ids : calls[d][i] # <<k, n>>
      /\ \A d \in Conns \ {c} : reply[d][1] # <<k, n>>
FreshOK ==
  \A k \in Callers, n \in 1..MaxAttempts :
    n > attempt[k] \/ (n = attempt[k] /\ pc[k] \in BeforeInsert) =>
      done[<<k, n>>] = Pending
CallInv == CallTable /\ HeldOK /\ FreshOK

(* A call completes once: a delivered reply is never replaced by a         *)
(* connection error nor the other way round (call.go 466-473, 651-665).    *)
CompletedOnce == [][\A r \in Rpcs : done[r] # Pending => done'[r] = done[r]]_vars

(* The reply a call gets answers its own request, over reconnects, retries *)
(* and cancelled calls (call.go 251-253, 672-685).                         *)
OwnReply == \A r \in Rpcs : done[r] \in Rpcs => done[r] = r

(* The three views of a connection agree: a registered stub's balancer     *)
(* lists it once when the connection says it is in the balancer and        *)
(* otherwise not at all, the manager's table names it exactly while it is  *)
(* not missing, and its manager reads the net.Conn its callers write to    *)
(* (call.go 440-453, 497, 531-533, 548, 765-772).                          *)
Agreement ==
  /\ \A c \in Conns : \A rc \in rcs[c] : balancer[rc][c] = IF inBalancer[c] THEN 1 ELSE 0
  /\ \A c \in Conns : (state[c] # "missing") <=> (clientConns[AddrOf[c]] = c)
  /\ ~panicked => \A c \in Conns : state[c] \in OnNet =>
       /\ net[c] # NoNet
       /\ mpc[c] \in {"handshake", "read", "deliver", "loop"} => net[c] = mnet[c]

(* A missing connection stays missing and a draining one can only go       *)
(* missing: no step, racing startCall included, brings one back            *)
(* (call.go 333-352, 420-430, 580-589).                                    *)
NoResurrection ==
  [][\A c \in Conns :
       /\ state[c] = "missing" /\ mpc[c] # "new" => state'[c] = "missing"
       /\ state[c] = "draining" => state'[c] \in {"draining", "missing"}]_vars

(* The goroutines are scheduled, Go mutexes are starvation free, a dial    *)
(* eventually succeeds and the server answers what reaches it.             *)
Fairness ==
  /\ \A k \in Callers : WF_vars(~panicked /\ CallerStep(k)) /\ SF_vars(~panicked /\ Pick(k))
  /\ \A c \in Conns : WF_vars(~panicked /\ ManagerStep(c)) /\ SF_vars(~panicked /\ Dialled(c))
  /\ \A rc \in Stubs : WF_vars(~panicked /\ UpdateStep(rc))
  /\ WF_vars(~panicked /\ \E m \in wire : Serve(m))
FairSpec == Spec /\ Fairness

(* A call on a stub whose endpoints do not change returns even if its      *)
(* context is never done and connections break under it, unless the        *)
(* process panics (callOnce 138-146 waits on doneSignal).                  *)
WaitEnds == \A k \in Callers : pc[k] = "wait" ~> (pc[k] = "returned" \/ panicked)
=============================================================================
