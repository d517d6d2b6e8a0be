-------------------------- MODULE ClientConn_proofs --------------------------
(***************************************************************************)
(* For any number of stubs, connections, callers, attempts and net.Conns:  *)
(* the state of ClientConn is well typed, a calls table lists a call only  *)
(* while its caller can still end it (CallTable), and a call completes at  *)
(* most once (CompletedOnce).  When all calls are made on one stub, a call *)
(* gets the reply to its own request (OwnReply); when the process has one  *)
(* stub, the views of a connection agree (Agreement) and a connection that *)
(* has gone never comes back (NoResurrection).                             *)
(***************************************************************************)
EXTENDS ClientConn, Integers, TLAPS

(* What setState may change, and the values it is handed.                  *)
SwitchTypes ==
  /\ conns \in [Stubs -> [Addrs -> Conns \cup {NoConn}]]
  /\ balancer \in [Stubs -> [Conns -> Nat]]
  /\ state \in [Conns -> States]
  /\ inBalancer \in [Conns -> BOOLEAN]
  /\ net \in [Conns -> Nets \cup {NoNet}]
  /\ calls \in [Conns -> Tables]
  /\ live \in [Conns -> BOOLEAN]
  /\ clientConns \in [Addrs -> Conns \cup {NoConn}]
  /\ done \in Outcomes
  /\ netState \in NetStates
  /\ panicked \in BOOLEAN

Handed == [calls : Tables, net : Nets \cup {NoNet}, nets : NetStates, done : Outcomes]

(* Where a local variable is used, it has been set.                        *)
PlaceOK ==
  /\ \A k \in Callers : pc[k] \notin {"pick", "returned"} => loc[k].conn \in Conns
  /\ \A k \in Callers :
       pc[k] \notin {"pick", "count", "insert", "returned"} => loc[k].id \in Ids
  /\ \A c \in Conns : mpc[c] = "deliver" => reply[c] \in Rpcs \X Rpcs

TypeInv == TypeOK /\ PlaceOK
-----------------------------------------------------------------------------
LEMMA NoCallsType == NoCalls \in Tables
BY DEF NoCalls, Tables, Tokens

LEMMA NowType ==
  ASSUME SwitchTypes, NEW c \in Conns
  PROVE  Now(c) \in Handed
BY DEF SwitchTypes, Now, Handed

LEMMA EndCallsType ==
  ASSUME NEW d \in Outcomes, NEW cs
  PROVE  EndCalls(d, cs) \in Outcomes
BY DEF EndCalls, Outcomes

LEMMA CloseNetType ==
  ASSUME NEW ns \in NetStates, NEW n
  PROVE  CloseNet(ns, n) \in NetStates
BY DEF CloseNet, NetStates

LEMMA RebalanceType ==
  ASSUME SwitchTypes, NEW c \in Conns, NEW s \in States, Rebalance(c, s)
  PROVE  /\ inBalancer' \in [Conns -> BOOLEAN]
         /\ balancer' \in [Stubs -> [Conns -> Nat]]
<1>1. inBalancer' \in [Conns -> BOOLEAN]
  BY DEF Rebalance, SwitchTypes
<1>2. ASSUME NEW rc \in Stubs PROVE balancer'[rc] \in [Conns -> Nat]
  <2>1. balancer[rc] \in [Conns -> Nat] /\ balancer[rc][c] \in Nat
    BY DEF SwitchTypes
  <2>2. \/ balancer'[rc] = balancer[rc]
        \/ balancer'[rc] = [balancer[rc] EXCEPT ![c] = @ + 1]
        \/ balancer[rc][c] > 0 /\ balancer'[rc] = [balancer[rc] EXCEPT ![c] = @ - 1]
    BY Zenon DEF Rebalance
  <2>3. QED BY <2>1, <2>2
<1>3. QED BY <1>1, <1>2 DEF Rebalance

LEMMA ForgetType ==
  ASSUME SwitchTypes, ConstantsAssumption, NEW c \in Conns, NEW s \in States, Forget(c, s)
  PROVE  /\ conns' \in [Stubs -> [Addrs -> Conns \cup {NoConn}]]
         /\ clientConns' \in [Addrs -> Conns \cup {NoConn}]
         /\ live' \in [Conns -> BOOLEAN]
<1>1. CASE s = "missing"
  <2>1. ASSUME NEW rc \in Stubs PROVE conns'[rc] \in [Addrs -> Conns \cup {NoConn}]
    BY SMTT(30), <1>1 DEF Forget, SwitchTypes
  <2>2. QED BY <1>1, <2>1 DEF Forget, SwitchTypes
<1>2. CASE s # "missing"
  BY <1>2 DEF Forget, SwitchTypes
<1>3. QED BY <1>1, <1>2

LEMMA SetStateType ==
  ASSUME SwitchTypes, NEW c \in Conns, NEW s \in States, NEW w \in Handed,
         SetState(c, s, w)
  PROVE  SwitchTypes'
<1>1. CASE FastSetState(c, s, w)
  <2>1. panicked' \in BOOLEAN
    BY <1>1 DEF FastSetState
  <2>2. QED BY <1>1, <2>1 DEF FastSetState, SwitchTypes, Handed
<1>2. CASE SlowSetState(c, s, w)
  <2>1. Forget(c, s) /\ Rebalance(c, s)
    BY <1>2 DEF SlowSetState
  <2>2. state' \in [Conns -> States] /\ net' \in [Conns -> Nets \cup {NoNet}]
    BY <1>2 DEF SlowSetState, SwitchTypes, Handed
  <2>3. netState' \in NetStates
    BY <1>2, CloseNetType DEF SlowSetState, Handed
  <2>4. calls' \in [Conns -> Tables]
    BY <1>2, NoCallsType DEF SlowSetState, SwitchTypes, Handed
  <2>5. done' \in Outcomes
    BY <1>2, EndCallsType DEF SlowSetState, Handed
  <2>6. panicked' \in BOOLEAN
    BY <1>2, Zenon DEF SlowSetState
  <2>7. QED
    BY <2>1, <2>2, <2>3, <2>4, <2>5, <2>6, ConstantsAssumption, ForgetType,
       RebalanceType DEF SwitchTypes
<1>3. QED BY <1>1, <1>2 DEF SetState

LEMMA SwitchType ==
  ASSUME SwitchTypes, NEW c \in Conns, NEW s \in States, NEW w \in Handed,
         Switch(c, s, w)
  PROVE  SwitchTypes'
<1>1. CASE s # state[c]
  BY <1>1, SetStateType DEF Switch
<1>2. CASE s = state[c]
  BY <1>2 DEF Switch, SwitchTypes, Handed
<1>3. QED BY <1>1, <1>2

LEMMA FailType ==
  ASSUME SwitchTypes, NEW c \in Conns, NEW w \in Handed, Fail(c, w)
  PROVE  SwitchTypes'
<1>1. FailTo(c) \in States
  BY DEF FailTo, SwitchTypes, States
<1>2. [w EXCEPT !.done = EndCalls(w.done, w.calls), !.calls = NoCalls] \in Handed
  BY NoCallsType, EndCallsType DEF Handed
<1>3. QED BY <1>1, <1>2, SwitchType DEF Fail

LEMMA EndCallType ==
  ASSUME SwitchTypes, NEW c \in Conns, NEW id, EndCall(c, id)
  PROVE  SwitchTypes'
<1> DEFINE cs == [calls[c] EXCEPT ![id] = NoRpc]
           s  == IF cs = NoCalls THEN LastDone(c) ELSE state[c]
           w  == [Now(c) EXCEPT !.calls = cs]
<1>1. s \in States
  BY DEF LastDone, SwitchTypes, States
<1>2. cs \in Tables
  BY DEF SwitchTypes, Tables, Tokens
<1>3. w \in Handed
  BY <1>2, NowType DEF Handed
<1>4. Switch(c, s, w)
  BY DEF EndCall
<1>5. QED
  <2> HIDE DEF s, w
  <2>1. QED BY <1>1, <1>3, <1>4, SwitchType
-----------------------------------------------------------------------------
(* Every step keeps the types, one step of the proof per action.           *)

LEMMA TypesSplit ==
  ASSUME TypeInv
  PROVE  SwitchTypes
BY DEF TypeInv, TypeOK, StubTypes, ConnTypes, SwitchTypes

LEMMA TypesJoin ==
  ASSUME TypeInv, SwitchTypes', ManagerTypes', CallerTypes', PlaceOK',
         UNCHANGED stubVars, rcs' \in [Conns -> SUBSET Stubs], UNCHANGED lastID
  PROVE  TypeInv'
BY DEF TypeInv, TypeOK, StubTypes, ConnTypes, SwitchTypes, stubVars

(* Init is well typed.                                                     *)
THEOREM InitType == Init => TypeInv
<1> SUFFICES ASSUME Init PROVE TypeInv
  OBVIOUS
<1>1. StubTypes
  BY DEF Init, StubTypes, Looks
<1>2. ConnTypes
  BY NoCallsType DEF Init, ConnTypes, States, Outcomes, NetStates, NoNet
<1>3. ManagerTypes
  BY DEF Init, ManagerTypes, ManagerPCs, Tokens, NoNet
<1>4. CallerTypes
  BY ConstantsAssumption DEF Init, CallerTypes, CallerPCs, Results, Locs, NoNet, Messages
<1>5. PlaceOK
  BY DEF Init, PlaceOK
<1>6. QED BY <1>1, <1>2, <1>3, <1>4, <1>5 DEF TypeInv, TypeOK

LEMMA CallerType ==
  ASSUME ConstantsAssumption, TypeInv, NEW k \in Callers,
         CallerStep(k) \/ GiveUpPicking(k) \/ GiveUpWaiting(k)
  PROVE  TypeInv'
<1> USE DEF CallerPCs, Results
<1>0. /\ SwitchTypes /\ StubTypes /\ ConnTypes /\ ManagerTypes /\ CallerTypes /\ PlaceOK
      /\ StubOf[k] \in Stubs
  BY TypesSplit DEF TypeInv, TypeOK, ConstantsAssumption
<1>1. CASE Pick(k)
  <2>1. PICK c \in Conns : loc' = [loc EXCEPT ![k] = [conn |-> c, id |-> 0, net |-> NoNet]]
    BY <1>1 DEF Pick
  <2>2. StubTypes' /\ ConnTypes' /\ ManagerTypes'
    BY <1>0, <1>1 DEF Pick, sharedVars, connVars, mgrVars, StubTypes, ConnTypes, ManagerTypes
  <2>3. loc' \in [Callers -> Locs]
    BY <1>0, <2>1 DEF CallerTypes, Locs
  <2>4. CallerTypes'
    BY <1>0, <1>1, <2>3 DEF Pick, Goto, sharedVars, CallerTypes
  <2>5. PlaceOK'
    BY <1>0, <1>1, <2>1 DEF Pick, Goto, mgrVars, CallerTypes, PlaceOK
  <2>6. QED BY <2>2, <2>4, <2>5 DEF TypeInv, TypeOK
<1>2. CASE PickOnClosed(k) \/ GiveUpPicking(k) \/ Receive(k) \/ CallStart(k) \/ WriteCancel(k)
  <2>1. UNCHANGED <<stubVars, sharedVars, mgrVars, loc>>
    BY <1>2 DEF PickOnClosed, GiveUpPicking, Receive, CallStart, WriteCancel
  <2>2. StubTypes' /\ ConnTypes' /\ ManagerTypes'
    BY <1>0, <2>1 DEF stubVars, sharedVars, connVars, mgrVars, StubTypes, ConnTypes, ManagerTypes
  <2>3. CallerTypes' /\ PlaceOK'
    BY <1>0, <1>2, <2>1 DEF PickOnClosed, GiveUpPicking, Receive, CallStart, WriteCancel, Goto,
       Return, sharedVars, mgrVars, CallerTypes, PlaceOK
  <2>4. QED BY <2>2, <2>3 DEF TypeInv, TypeOK
<1>3. CASE LoadID(k)
  <2>1. loc[k].conn \in Conns /\ lastID[loc[k].conn] \in Nat
    BY <1>0, <1>3 DEF LoadID, PlaceOK, ConnTypes
  <2>2. StubTypes' /\ ConnTypes' /\ ManagerTypes'
    BY <1>0, <1>3 DEF LoadID, stubVars, sharedVars, connVars, mgrVars, StubTypes, ConnTypes,
       ManagerTypes
  <2>3. CallerTypes' /\ PlaceOK'
    BY <1>0, <1>3, <2>1 DEF LoadID, Goto, sharedVars, mgrVars, CallerTypes, PlaceOK, Locs
  <2>4. QED BY <2>2, <2>3 DEF TypeInv, TypeOK
<1>4. CASE Insert(k)
  <2> DEFINE c == loc[k].conn
             i == loc[k].id + 1
  <2>1. c \in Conns /\ i \in Nat /\ Rpc(k) \in Tokens
    BY <1>0, <1>4 DEF Insert, PlaceOK, CallerTypes, Locs, Rpc, Tokens, Rpcs
  <2>2. calls' = [calls EXCEPT ![c][i] = Rpc(k)] /\ lastID' = [lastID EXCEPT ![c] = i]
    BY <1>4 DEF Insert
  <2>3. calls' \in [Conns -> Tables] /\ lastID' \in [Conns -> Nat]
    <3> HIDE DEF c, i
    <3>1. QED BY <1>0, <2>1, <2>2 DEF ConnTypes, Tables
  <2>4. StubTypes' /\ ConnTypes' /\ ManagerTypes'
    BY <1>0, <1>4, <2>3 DEF Insert, stubVars, mgrVars, StubTypes, ConnTypes, ManagerTypes
  <2>5. CallerTypes' /\ PlaceOK'
    BY <1>0, <1>4, <2>1 DEF Insert, Goto, mgrVars, CallerTypes, PlaceOK, Locs
  <2>6. QED BY <2>4, <2>5 DEF TypeInv, TypeOK
<1>5. CASE TakeConn(k)
  <2>1. loc[k].conn \in Conns /\ net[loc[k].conn] \in Nets \cup {NoNet}
    BY <1>0, <1>5 DEF TakeConn, PlaceOK, ConnTypes
  <2>2. StubTypes' /\ ConnTypes' /\ ManagerTypes'
    BY <1>0, <1>5 DEF TakeConn, sharedVars, connVars, mgrVars, StubTypes, ConnTypes, ManagerTypes
  <2>3. CallerTypes' /\ PlaceOK'
    BY <1>0, <1>5, <2>1 DEF TakeConn, Goto, sharedVars, mgrVars, CallerTypes, PlaceOK, Locs
  <2>4. QED BY <2>2, <2>3 DEF TypeInv, TypeOK
<1>6. CASE WriteNil(k)
  BY <1>0, <1>6 DEF WriteNil, stubVars, connVars, mgrVars, callerVars, StubTypes, ConnTypes,
     ManagerTypes, CallerTypes, PlaceOK, TypeInv, TypeOK
<1>7. CASE Write(k)
  <2> DEFINE m == [kind |-> "request", net |-> loc[k].net, id |-> loc[k].id, rpc |-> Rpc(k)]
  <2>1. m \in Messages
    BY <1>0, <1>7 DEF Write, PlaceOK, CallerTypes, Locs, Messages, Rpc, Rpcs
  <2>2. wire' \subseteq wire \cup {m}
    BY <1>7 DEF Write
  <2>3. StubTypes' /\ ConnTypes' /\ ManagerTypes'
    BY <1>0, <1>7 DEF Write, stubVars, connVars, mgrVars, StubTypes, ConnTypes, ManagerTypes
  <2>4. CallerTypes' /\ PlaceOK'
    <3> HIDE DEF m
    <3>1. CallerTypes'
      BY <1>0, <1>7, <2>1, <2>2 DEF Write, Goto, CallerTypes
    <3>2. PlaceOK'
      BY <1>0, <1>7 DEF Write, Goto, mgrVars, CallerTypes, PlaceOK
    <3>3. QED BY <3>1, <3>2
  <2>5. QED BY <2>3, <2>4 DEF TypeInv, TypeOK
<1>8. CASE Activate(k) \/ Shutdown(k) \/ DropCall(k) \/ GiveUpWaiting(k)
  <2>1. loc[k].conn \in Conns /\ loc[k].id \in Ids
    BY <1>0, <1>8 DEF Activate, Shutdown, DropCall, GiveUpWaiting, PlaceOK
  <2>2. SwitchTypes'
    <3>1. CASE Activate(k)
      BY <1>0, <2>1, <3>1, NowType, SetStateType DEF Activate, States
    <3>2. CASE Shutdown(k)
      BY <1>0, <2>1, <3>2, NowType, FailType DEF Shutdown
    <3>3. CASE DropCall(k)
      BY <1>0, <2>1, <3>3, EndCallType DEF DropCall
    <3>4. CASE GiveUpWaiting(k)
      BY <1>0, <2>1, <3>4, EndCallType DEF GiveUpWaiting
    <3>5. QED BY <1>8, <3>1, <3>2, <3>3, <3>4
  <2>3. UNCHANGED <<stubVars, rcs, lastID, mgrVars, loc, wire>>
    BY <1>8 DEF Activate, Shutdown, DropCall, GiveUpWaiting
  <2>4. /\ pc' \in [Callers -> CallerPCs] /\ result' \in [Callers -> Results]
        /\ attempt' \in [Callers -> 1..MaxAttempts]
        /\ \A j \in Callers : j # k => pc'[j] = pc[j]
    <3>1. CASE DropCall(k)
      BY <1>0, <3>1 DEF DropCall, RetryOrReturn, Return, Goto, CallerTypes, ConstantsAssumption
    <3>2. CASE Activate(k) \/ Shutdown(k) \/ GiveUpWaiting(k)
      BY <1>0, <3>2 DEF Activate, Shutdown, GiveUpWaiting, Return, Goto, CallerTypes
    <3>3. QED BY <1>8, <3>1, <3>2
  <2>5. ManagerTypes' /\ CallerTypes' /\ PlaceOK'
    BY <1>0, <2>1, <2>3, <2>4 DEF mgrVars, ManagerTypes, CallerTypes, PlaceOK
  <2>6. QED
    BY <1>0, <2>2, <2>3, <2>5, TypesJoin DEF ConnTypes
<1>9. QED
  BY <1>1, <1>2, <1>3, <1>4, <1>5, <1>6, <1>7, <1>8 DEF CallerStep

LEMMA ManagerType ==
  ASSUME ConstantsAssumption, TypeInv, NEW c \in Conns, ManagerStep(c) \/ DialFails(c)
  PROVE  TypeInv'
<1> USE DEF ManagerPCs
<1>0. /\ SwitchTypes /\ StubTypes /\ ConnTypes /\ ManagerTypes /\ CallerTypes /\ PlaceOK
      /\ Now(c) \in Handed /\ mnet[c] \in Nets \cup {NoNet}
  BY TypesSplit, NowType DEF TypeInv, TypeOK, ManagerTypes
<1>a. ASSUME NEW l \in ManagerPCs \ {"deliver"}, NEW n \in Nets \cup {NoNet}, Manager(c, l, n),
             reply' \in [Conns -> Tokens \X Tokens], \A d \in Conns : d # c => reply'[d] = reply[d],
             UNCHANGED callerVars
      PROVE  ManagerTypes' /\ PlaceOK'
  BY <1>0, <1>a DEF Manager, ManagerTypes, PlaceOK, callerVars
<1>b. ASSUME NEW l \in ManagerPCs \ {"deliver"}, NEW n \in Nets \cup {NoNet}, Manager(c, l, n),
             UNCHANGED <<reply, callerVars>>
      PROVE  ManagerTypes' /\ PlaceOK'
  BY <1>0, <1>a, <1>b DEF ManagerTypes, callerVars
<1>1. CASE Continue(c) \/ DialFails(c) \/ HandshakeFails(c)
  <2>1. UNCHANGED <<stubVars, sharedVars, reply, callerVars>>
    BY <1>1 DEF Continue, DialFails, HandshakeFails
  <2>2. \E l \in ManagerPCs \ {"deliver"} : Manager(c, l, NoNet)
    BY <1>1 DEF Continue, DialFails, HandshakeFails
  <2>3. ManagerTypes' /\ PlaceOK'
    BY <1>b, <2>1, <2>2
  <2>4. StubTypes' /\ ConnTypes' /\ CallerTypes'
    BY <1>0, <2>1 DEF stubVars, sharedVars, connVars, callerVars, StubTypes, ConnTypes, CallerTypes
  <2>5. QED BY <2>3, <2>4 DEF TypeInv, TypeOK
<1>2. CASE Dialled(c)
  <2>1. PICK n \in Nets :
          /\ Manager(c, "handshake", n)
          /\ Switch(c, Connected(c), [Now(c) EXCEPT !.net = n, !.nets = [@ EXCEPT ![n] = "open"]])
    BY <1>2 DEF Dialled
  <2>2. [Now(c) EXCEPT !.net = n, !.nets = [@ EXCEPT ![n] = "open"]] \in Handed
    BY <1>0 DEF Handed, NetStates
  <2>3. Connected(c) \in States
    BY <1>0 DEF Connected, States, ConnTypes
  <2>4. SwitchTypes'
    BY <1>0, <2>1, <2>2, <2>3, SwitchType
  <2>5. UNCHANGED <<stubVars, rcs, lastID, reply, callerVars, wire>>
    BY <1>2 DEF Dialled
  <2>6. ManagerTypes' /\ PlaceOK' /\ CallerTypes'
    BY <1>0, <1>b, <2>1, <2>5 DEF callerVars, CallerTypes
  <2>7. QED BY <1>0, <2>4, <2>5, <2>6, TypesJoin DEF ConnTypes
<1>3. CASE Handshaken(c)
  <2>1. Checked(c) \in States
    BY <1>0 DEF Checked, States, ConnTypes
  <2>2. [Now(c) EXCEPT !.nets = CloseNet(@, mnet[c])] \in Handed
    BY <1>0, CloseNetType DEF Handed
  <2>3. SwitchTypes'
    BY <1>0, <1>3, <2>1, <2>2, SwitchType DEF Handshaken
  <2>4. UNCHANGED <<stubVars, rcs, lastID, reply, callerVars, wire>>
    BY <1>3 DEF Handshaken
  <2>5. ManagerTypes' /\ PlaceOK' /\ CallerTypes'
    BY <1>0, <1>3, <1>b, <2>4 DEF Handshaken, callerVars, CallerTypes
  <2>6. QED BY <1>0, <2>3, <2>4, <2>5, TypesJoin DEF ConnTypes
<1>4. CASE ReadReply(c)
  <2>1. PICK m \in wire :
          LET r == calls[c][m.id] IN
          /\ wire' = wire \ {m}
          /\ IF r = NoRpc
             THEN /\ Manager(c, "loop", mnet[c])
                  /\ UNCHANGED <<connVars, done, netState, panicked, reply>>
             ELSE /\ Manager(c, "deliver", mnet[c])
                  /\ EndCall(c, m.id)
                  /\ reply' = [reply EXCEPT ![c] = <<r, m.rpc>>]
    BY <1>4 DEF ReadReply
  <2>2. UNCHANGED <<stubVars, rcs, lastID, callerVars>>
    BY <1>4 DEF ReadReply
  <2>3. CallerTypes' /\ m.rpc \in Rpcs
    BY <1>0, <2>1, <2>2 DEF callerVars, CallerTypes, Messages
  <2>4. CASE calls[c][m.id] = NoRpc
    <3>1. SwitchTypes'
      BY <1>0, <2>1, <2>4 DEF connVars, SwitchTypes
    <3>2. ManagerTypes' /\ PlaceOK'
      BY <1>0, <1>b, <2>1, <2>2, <2>4
    <3>3. QED BY <1>0, <2>2, <2>3, <3>1, <3>2, TypesJoin DEF ConnTypes
  <2>5. CASE calls[c][m.id] # NoRpc
    <3> DEFINE r == calls[c][m.id]
    <3>1. SwitchTypes'
      BY <1>0, <2>1, <2>5, EndCallType
    <3>2. /\ Manager(c, "deliver", mnet[c])
          /\ reply' = [reply EXCEPT ![c] = <<r, m.rpc>>]
      BY <2>1, <2>5
    <3>3. r \in Rpcs
      BY <1>0, <2>1, <2>5 DEF ConnTypes, Tables, Tokens, CallerTypes, Messages
    <3>4. ManagerTypes' /\ PlaceOK'
      BY <1>0, <2>2, <2>3, <3>2, <3>3 DEF Manager, ManagerTypes, PlaceOK, Tokens, callerVars
    <3>5. QED BY <1>0, <2>2, <2>3, <3>1, <3>4, TypesJoin DEF ConnTypes
  <2>6. QED BY <2>4, <2>5
<1>5. CASE Deliver(c)
  <2>1. reply[c] \in Rpcs \X Rpcs
    BY <1>0, <1>5 DEF Deliver, PlaceOK
  <2>2. done' \in Outcomes
    BY <1>0, <1>5, <2>1 DEF Deliver, ConnTypes, Outcomes
  <2>3. reply' \in [Conns -> Tokens \X Tokens] /\ \A d \in Conns : d # c => reply'[d] = reply[d]
    BY <1>0, <1>5 DEF Deliver, ManagerTypes, Tokens
  <2>4. ManagerTypes' /\ PlaceOK'
    BY <1>0, <1>5, <1>a, <2>3 DEF Deliver
  <2>5. StubTypes' /\ ConnTypes' /\ CallerTypes'
    BY <1>0, <1>5, <2>2 DEF Deliver, stubVars, connVars, callerVars, StubTypes, ConnTypes, CallerTypes
  <2>6. QED BY <2>4, <2>5 DEF TypeInv, TypeOK
<1>6. CASE Loop(c)
  <2>1. netState' \in NetStates
    BY <1>0, <1>6, CloseNetType DEF Loop, ConnTypes
  <2>2. ManagerTypes' /\ PlaceOK'
    BY <1>0, <1>6, <1>b DEF Loop
  <2>3. StubTypes' /\ ConnTypes' /\ CallerTypes'
    BY <1>0, <1>6, <2>1 DEF Loop, stubVars, connVars, callerVars, StubTypes, ConnTypes, CallerTypes
  <2>4. QED BY <2>2, <2>3 DEF TypeInv, TypeOK
<1>7. CASE ReadFails(c)
  <2>1. SwitchTypes'
    BY <1>0, <1>7, FailType DEF ReadFails
  <2>2. UNCHANGED <<stubVars, rcs, lastID, reply, callerVars, wire>>
    BY <1>7 DEF ReadFails
  <2>3. ManagerTypes' /\ PlaceOK' /\ CallerTypes'
    BY <1>0, <1>7, <1>b, <2>2 DEF ReadFails, callerVars, CallerTypes
  <2>4. QED BY <1>0, <2>1, <2>2, <2>3, TypesJoin DEF ConnTypes
<1>8. QED
  BY <1>1, <1>2, <1>3, <1>4, <1>5, <1>6, <1>7 DEF ManagerStep

LEMMA UpdateType ==
  ASSUME ConstantsAssumption, TypeInv, NEW rc \in Stubs,
         UpdateEndpoints(rc) \/ UpdateStep(rc) \/ Close(rc)
  PROVE  TypeInv'
<1>0. /\ SwitchTypes /\ StubTypes /\ ConnTypes /\ ManagerTypes /\ CallerTypes /\ PlaceOK
  BY TypesSplit DEF TypeInv, TypeOK
<1>a. ASSUME NEW a \in Addrs, Handled(rc, a), conns' \in [Stubs -> [Addrs -> Conns \cup {NoConn}]],
             balancer' \in [Stubs -> [Conns -> Nat]]
      PROVE  StubTypes'
  BY <1>0, <1>a DEF Handled, StubTypes, Looks
<1>b. ASSUME UNCHANGED <<mgrVars, callerVars, wire>>
      PROVE  ManagerTypes' /\ CallerTypes' /\ PlaceOK'
  BY <1>0, <1>b DEF mgrVars, callerVars, ManagerTypes, CallerTypes, PlaceOK
<1>1. CASE UpdateEndpoints(rc)
  <2>1. StubTypes' /\ ConnTypes'
    BY <1>0, <1>1 DEF UpdateEndpoints, sharedVars, connVars, StubTypes, ConnTypes, ConstantsAssumption
  <2>2. QED BY <1>1, <1>b, <2>1 DEF UpdateEndpoints, sharedVars, TypeInv, TypeOK
<1>2. CASE Close(rc)
  <2>1. StubTypes' /\ ConnTypes'
    BY <1>0, <1>2 DEF Close, connVars, StubTypes, ConnTypes
  <2>2. QED BY <1>2, <1>b, <2>1 DEF Close, TypeInv, TypeOK
<1>3. CASE KeepEndpoint(rc)
  <2>1. PICK a \in Addrs : Handled(rc, a)
    BY <1>0, <1>3 DEF KeepEndpoint, StubTypes
  <2>2. UNCHANGED <<sharedVars, mgrVars, callerVars>>
    BY <1>3 DEF KeepEndpoint
  <2>3. StubTypes' /\ ConnTypes'
    BY <1>0, <1>a, <2>1, <2>2 DEF sharedVars, connVars, StubTypes, ConnTypes
  <2>4. QED BY <1>b, <2>2, <2>3 DEF sharedVars, TypeInv, TypeOK
<1>4. CASE Lookup(rc)
  <2>1. PICK a \in Addrs : looked' = [looked EXCEPT ![rc] = [addr |-> a, conn |-> clientConns[a]]]
    BY <1>0, <1>4 DEF Lookup, StubTypes
  <2>2. looked' \in [Stubs -> Looks]
    BY <1>0, <2>1 DEF StubTypes, ConnTypes, Looks
  <2>3. StubTypes' /\ ConnTypes'
    BY <1>0, <1>4, <2>2 DEF Lookup, sharedVars, connVars, StubTypes, ConnTypes
  <2>4. QED BY <1>4, <1>b, <2>3 DEF Lookup, sharedVars, TypeInv, TypeOK
<1>5. CASE Register(rc)
  <2> DEFINE a == looked[rc].addr
  <2>1. a \in Addrs /\ looked[rc].conn \in Conns \cup {NoConn} /\ clientConns[a] \in Conns \cup {NoConn}
    BY <1>0, <1>5 DEF Register, StubTypes, ConnTypes, Looks
  <2>2. /\ Handled(rc, a)
        /\ UNCHANGED <<lastID, mnet, reply, callerVars, done, netState, wire, panicked>>
        /\ \E c \in Conns : RegisterExisting(rc, c) \/ RegisterNew(rc, c)
    BY <1>5, <2>1 DEF Register
  <2> HIDE DEF a
  <2>3. PICK c \in Conns : RegisterExisting(rc, c) \/ RegisterNew(rc, c)
    BY <2>2
  <2>4. conns' \in [Stubs -> [Addrs -> Conns \cup {NoConn}]]
    <3>1. AddrOf[c] \in Addrs /\ conns' = [conns EXCEPT ![rc][AddrOf[c]] = c]
      BY <2>3 DEF RegisterExisting, RegisterNew, ConstantsAssumption
    <3>2. QED BY <1>0, <3>1 DEF StubTypes
  <2>5. balancer' \in [Stubs -> [Conns -> Nat]]
    <3>1. [balancer[rc] EXCEPT ![c] = @ + 1] \in [Conns -> Nat]
      BY <1>0 DEF StubTypes
    <3>2. balancer' = balancer \/ balancer' = [balancer EXCEPT ![rc][c] = @ + 1]
      BY <2>3 DEF RegisterExisting, RegisterNew
    <3>3. QED BY <1>0, <3>1, <3>2 DEF StubTypes
  <2>6. ConnTypes'
    <3>1. CASE RegisterExisting(rc, c)
      BY <1>0, <2>2, <3>1 DEF RegisterExisting, ConnTypes
    <3>2. CASE RegisterNew(rc, c)
      <4>1. AddrOf[c] \in Addrs
        BY DEF ConstantsAssumption
      <4>2. QED BY <1>0, <2>2, <3>2, <4>1 DEF RegisterNew, ConnTypes, States
    <3>3. QED BY <2>3, <3>1, <3>2
  <2>7. ManagerTypes' /\ PlaceOK' /\ CallerTypes'
    BY <1>0, <2>2, <2>3 DEF RegisterExisting, RegisterNew, ManagerTypes, ManagerPCs, PlaceOK,
       CallerTypes, callerVars
  <2>8. QED BY <1>a, <2>1, <2>2, <2>4, <2>5, <2>6, <2>7 DEF TypeInv, TypeOK
<1>6. CASE DropEndpoint(rc)
  <2>1. PICK a \in Addrs :
          LET c == conns[rc][a] IN
          /\ Handled(rc, a)
          /\ IF c # NoConn /\ rc \in rcs[c]
             THEN /\ rcs' = [rcs EXCEPT ![c] = @ \ {rc}]
                  /\ Switch(c, IF rcs[c] = {rc} THEN Unregister(c) ELSE state[c], Now(c))
             ELSE UNCHANGED <<rcs, connVars, done, netState, panicked>>
          /\ UNCHANGED <<lastID, mgrVars, callerVars, wire>>
    BY <1>0, <1>6 DEF DropEndpoint, StubTypes
  <2> DEFINE c == conns[rc][a]
  <2>2. c \in Conns \cup {NoConn}
    BY <1>0 DEF StubTypes
  <2>3. SwitchTypes' /\ rcs' \in [Conns -> SUBSET Stubs]
    <3>1. CASE c # NoConn /\ rc \in rcs[c]
      <4>1. c \in Conns /\ Now(c) \in Handed
        BY <1>0, <2>2, <3>1, NowType
      <4>2. (IF rcs[c] = {rc} THEN Unregister(c) ELSE state[c]) \in States
        BY <1>0, <4>1 DEF Unregister, States, ConnTypes
      <4>3. Switch(c, IF rcs[c] = {rc} THEN Unregister(c) ELSE state[c], Now(c))
        BY <2>1, <3>1
      <4>4. rcs' = [rcs EXCEPT ![c] = @ \ {rc}]
        BY <2>1, <3>1
      <4> HIDE DEF c
      <4>5. SwitchTypes'
        BY <1>0, <4>1, <4>2, <4>3, SwitchType
      <4>6. rcs' \in [Conns -> SUBSET Stubs]
        BY <1>0, <4>1, <4>4 DEF ConnTypes
      <4>7. QED BY <4>5, <4>6
    <3>2. CASE ~(c # NoConn /\ rc \in rcs[c])
      <4>1. UNCHANGED <<rcs, connVars, done, netState, panicked>>
        BY <2>1, <3>2
      <4>2. QED BY <1>0, <4>1 DEF connVars, SwitchTypes, ConnTypes
    <3>3. QED BY <3>1, <3>2
  <2>4. StubTypes' /\ ConnTypes'
    BY <1>0, <1>a, <2>1, <2>3 DEF SwitchTypes, ConnTypes
  <2>5. QED BY <1>b, <2>1, <2>4 DEF TypeInv, TypeOK
<1>7. QED
  BY <1>1, <1>2, <1>3, <1>4, <1>5, <1>6 DEF UpdateStep

LEMMA EnvironmentType ==
  ASSUME TypeInv, (\E m \in wire : Serve(m)) \/ (\E n \in Nets : Break(n))
  PROVE  TypeInv'
<1>0. /\ StubTypes /\ ConnTypes /\ ManagerTypes /\ CallerTypes /\ PlaceOK
  BY DEF TypeInv, TypeOK
<1>1. ASSUME NEW m \in wire, Serve(m) PROVE TypeInv'
  <2>1. m \in Messages /\ [m EXCEPT !.kind = "reply"] \in Messages
    BY <1>0 DEF CallerTypes, Messages
  <2>2. CallerTypes'
    BY <1>0, <1>1, <2>1 DEF Serve, CallerTypes, callerVars
  <2>3. StubTypes' /\ ConnTypes' /\ ManagerTypes' /\ PlaceOK'
    BY <1>0, <1>1 DEF Serve, stubVars, connVars, mgrVars, callerVars, StubTypes, ConnTypes,
       ManagerTypes, PlaceOK
  <2>4. QED BY <2>2, <2>3 DEF TypeInv, TypeOK
<1>2. ASSUME NEW n \in Nets, Break(n) PROVE TypeInv'
  <2>1. netState' \in NetStates
    BY <1>0, <1>2, CloseNetType DEF Break, ConnTypes
  <2>2. QED
    BY <1>0, <1>2, <2>1 DEF Break, stubVars, connVars, mgrVars, callerVars, StubTypes, ConnTypes,
       ManagerTypes, CallerTypes, PlaceOK, TypeInv, TypeOK
<1>3. QED BY <1>1, <1>2

(* Type correctness.  PlaceOK is what makes TypeOK inductive: a caller's   *)
(* conn and id and a reader's reply are set wherever they are used.        *)
THEOREM NextType == ConstantsAssumption /\ TypeInv /\ [Next]_vars => TypeInv'
<1> SUFFICES ASSUME ConstantsAssumption, TypeInv, [Next]_vars PROVE TypeInv'
  OBVIOUS
<1>1. CASE Step
  BY <1>1, CallerType, ManagerType, UpdateType, EnvironmentType DEF Step
<1>2. CASE UNCHANGED vars
  BY <1>2 DEF vars, stubVars, sharedVars, connVars, mgrVars, callerVars, TypeInv, TypeOK,
     StubTypes, ConnTypes, ManagerTypes, CallerTypes, PlaceOK
<1>3. QED BY <1>1, <1>2 DEF Next

(* Every variable keeps a value of its Go type, a Balancer's Remove never  *)
(* runs more often than its Add included.                                  *)
THEOREM TypeCorrect == Spec => []TypeOK
<1>1. Spec => []TypeInv
  BY InitType, NextType, ConstantsAssumption, PTL DEF Spec
<1>2. TypeInv => TypeOK
  BY DEF TypeInv
<1>3. QED BY <1>1, <1>2, PTL
-----------------------------------------------------------------------------
(* CallTable and CompletedOnce.                                            *)

Entry(d, i, r) == calls[d][i] = r

(* All the critical sections of a connection have in common: they only     *)
(* take calls out of tables, and touch the outcome of calls they take out. *)
Shrinks ==
  /\ \A d \in Conns, i \in Ids, r \in Rpcs :
       Entry(d, i, r)' => Entry(d, i, r) /\ done'[r] = done[r]
  /\ \A r \in Rpcs : (\A d \in Conns, i \in Ids : ~Entry(d, i, r)) => done'[r] = done[r]

(* What a step may do to the callers meanwhile.                            *)
KeepsCallers ==
  /\ \A k \in Callers :
       \/ attempt'[k] = attempt[k] /\ (pc'[k] \in BeforeInsert => pc[k] \in BeforeInsert)
       \/ attempt'[k] > attempt[k]
  /\ \A d \in Conns, i \in Ids, k \in Callers, n \in 1..MaxAttempts :
       Entry(d, i, <<k, n>>) /\ Entry(d, i, <<k, n>>)' =>
         /\ attempt'[k] = attempt[k] /\ pc'[k] \in InCallOnce
         /\ loc'[k].conn = loc[k].conn /\ loc'[k].id = loc[k].id

LEMMA RpcsAre ==
  /\ \A k \in Callers, n \in 1..MaxAttempts : <<k, n>> \in Rpcs
  /\ \A r \in Rpcs : \E k \in Callers, n \in 1..MaxAttempts : r = <<k, n>>
BY DEF Rpcs

(* An entry is nowhere else.                                               *)
LEMMA OneEntry ==
  ASSUME CallTable, NEW c \in Conns, NEW d \in Conns, NEW i \in Ids, NEW j \in Ids,
         NEW r \in Rpcs, Entry(c, i, r), Entry(d, j, r)
  PROVE  c = d /\ i = j
<1>1. PICK k \in Callers, n \in 1..MaxAttempts : r = <<k, n>>
  BY RpcsAre
<1>2. QED BY <1>1 DEF CallTable, Entry

LEMMA SwitchEffect ==
  ASSUME SwitchTypes, NEW c \in Conns, NEW s \in States, NEW w \in Handed,
         Switch(c, s, w) \/ SetState(c, s, w)
  PROVE  \/ calls' = [calls EXCEPT ![c] = w.calls] /\ done' = w.done
         \/ calls' = [calls EXCEPT ![c] = NoCalls] /\ done' = EndCalls(w.done, w.calls)
<1>1. CASE SetState(c, s, w)
  BY <1>1 DEF SetState, FastSetState, SlowSetState
<1>2. CASE ~SetState(c, s, w)
  BY <1>2 DEF Switch
<1>3. QED BY <1>1, <1>2

LEMMA NoCallsEmpty ==
  ASSUME ConstantsAssumption, NEW i \in Ids, NEW r \in Rpcs
  PROVE  NoCalls[i] # r
BY DEF NoCalls, ConstantsAssumption

(* A section that hands setState a part cs of c's table.                   *)
LEMMA SwitchShrinks ==
  ASSUME ConstantsAssumption, TypeInv, CallTable, NEW c \in Conns, NEW s \in States,
         NEW w \in Handed, Switch(c, s, w) \/ SetState(c, s, w), w.done = done,
         \A i \in Ids : w.calls[i] \in {calls[c][i], NoRpc}
  PROVE  /\ Shrinks
         /\ \A i \in Ids : w.calls[i] = NoRpc => calls'[c][i] = NoRpc
<1>0. SwitchTypes /\ calls \in [Conns -> Tables] /\ done \in Outcomes
  BY TypesSplit DEF SwitchTypes
<1>1. CASE calls' = [calls EXCEPT ![c] = w.calls] /\ done' = done
  BY <1>0, <1>1 DEF Shrinks, Entry, ConstantsAssumption
<1>2. CASE calls' = [calls EXCEPT ![c] = NoCalls] /\ done' = EndCalls(done, w.calls)
  <2>1. ASSUME NEW d \in Conns, NEW i \in Ids, NEW r \in Rpcs, Entry(d, i, r)'
        PROVE  Entry(d, i, r) /\ done'[r] = done[r]
    <3>1. d # c /\ Entry(d, i, r)
      BY <1>0, <1>2, <2>1, NoCallsEmpty DEF Entry
    <3>2. \A j \in Ids : w.calls[j] # r
      BY <3>1, OneEntry DEF Entry, ConstantsAssumption
    <3>3. QED BY <1>2, <3>1, <3>2 DEF EndCalls
  <2>2. ASSUME NEW r \in Rpcs, \A d \in Conns, i \in Ids : ~Entry(d, i, r)
        PROVE  done'[r] = done[r]
    <3>1. \A j \in Ids : w.calls[j] # r
      BY <2>2 DEF Entry, ConstantsAssumption
    <3>2. QED BY <1>2, <3>1 DEF EndCalls
  <2>3. \A i \in Ids : calls'[c][i] = NoRpc
    BY <1>0, <1>2 DEF NoCalls
  <2>4. QED BY <2>1, <2>2, <2>3 DEF Shrinks
<1>3. QED BY <1>0, <1>1, <1>2, SwitchEffect

LEMMA FailShrinks ==
  ASSUME ConstantsAssumption, TypeInv, CallTable, NEW c \in Conns, Fail(c, Now(c))
  PROVE  Shrinks
<1> DEFINE w == [Now(c) EXCEPT !.done = EndCalls(done, calls[c]), !.calls = NoCalls]
<1>0. SwitchTypes /\ calls \in [Conns -> Tables] /\ done \in Outcomes
  BY TypesSplit DEF SwitchTypes
<1>1. FailTo(c) \in States
  BY <1>0 DEF FailTo, SwitchTypes, States
<1>2. w \in Handed /\ w.calls = NoCalls /\ w.done = EndCalls(done, calls[c])
  BY <1>0, NowType, NoCallsType, EndCallsType DEF Handed
<1>3. Switch(c, FailTo(c), w)
  BY DEF Fail, Now
<1> HIDE DEF w
<1>4. calls' = [calls EXCEPT ![c] = NoCalls]
      /\ (done' = w.done \/ done' = EndCalls(w.done, NoCalls))
  BY <1>0, <1>1, <1>2, <1>3, SwitchEffect
<1>5. \A r \in Rpcs : done'[r] = w.done[r]
  BY <1>4, NoCallsEmpty DEF EndCalls
<1>6. ASSUME NEW d \in Conns, NEW i \in Ids, NEW r \in Rpcs, Entry(d, i, r)'
      PROVE  Entry(d, i, r) /\ done'[r] = done[r]
  <2>1. d # c /\ Entry(d, i, r)
    BY <1>0, <1>4, <1>6, NoCallsEmpty DEF Entry
  <2>2. \A j \in Ids : calls[c][j] # r
    BY <2>1, OneEntry DEF Entry
  <2>3. QED BY <1>2, <1>5, <2>1, <2>2 DEF EndCalls
<1>7. ASSUME NEW r \in Rpcs, \A d \in Conns, i \in Ids : ~Entry(d, i, r)
      PROVE  done'[r] = done[r]
  BY <1>2, <1>5, <1>7 DEF EndCalls, Entry
<1>8. QED BY <1>6, <1>7 DEF Shrinks

LEMMA EndCallShrinks ==
  ASSUME ConstantsAssumption, TypeInv, CallTable, NEW c \in Conns, NEW id \in Ids,
         EndCall(c, id)
  PROVE  Shrinks /\ calls'[c][id] = NoRpc
<1> DEFINE cs == [calls[c] EXCEPT ![id] = NoRpc]
           s  == IF cs = NoCalls THEN LastDone(c) ELSE state[c]
           w  == [Now(c) EXCEPT !.calls = cs]
<1>0. SwitchTypes /\ calls[c] \in Tables
  BY TypesSplit DEF SwitchTypes
<1>1. s \in States
  BY <1>0 DEF LastDone, SwitchTypes, States
<1>2. cs \in Tables
  BY <1>0 DEF Tables, Tokens
<1>3. w \in Handed
  BY <1>0, <1>2, NowType DEF Handed
<1>4. w.done = done /\ w.calls = cs
  BY <1>0, NowType DEF Handed, Now
<1>5. Switch(c, s, w)
  BY DEF EndCall
<1>6. cs[id] = NoRpc /\ \A i \in Ids : cs[i] \in {calls[c][i], NoRpc}
  BY <1>0 DEF Tables
<1>7. QED
  <2> HIDE DEF s, w, cs
  <2>1. QED BY <1>1, <1>3, <1>4, <1>5, <1>6, SwitchShrinks

(* The caller that a call in a table is for is in callOnce, at that attempt. *)
LEMMA EntryWaits ==
  ASSUME CallTable, NEW d \in Conns, NEW i \in Ids, NEW k \in Callers,
         NEW n \in 1..MaxAttempts, Entry(d, i, <<k, n>>)
  PROVE  pc[k] \in InCallOnce /\ n = attempt[k]
<1>1. n \in Int
  OBVIOUS
<1>2. calls[d][i] = <<k, n>>
  BY DEF Entry
<1>3. pc[k] \in InCallOnce
  BY <1>2 DEF CallTable
<1>4. n = attempt[k]
  BY <1>2 DEF CallTable
<1>5. QED BY <1>3, <1>4

LEMMA ShrinkKeeps ==
  ASSUME TypeInv, TypeInv', CallInv, Shrinks, KeepsCallers, UNCHANGED reply
  PROVE  CallInv'
<1>0. /\ attempt \in [Callers -> 1..MaxAttempts] /\ attempt' \in [Callers -> 1..MaxAttempts]
      /\ \A k \in Callers : attempt'[k] >= attempt[k]
  BY DEF TypeInv, TypeOK, CallerTypes, KeepsCallers
<1>1. CallTable'
  <2> SUFFICES ASSUME NEW c \in Conns, NEW i \in Ids, NEW k \in Callers, NEW n \in 1..MaxAttempts,
                      Entry(c, i, <<k, n>>)'
               PROVE  /\ pc'[k] \in InCallOnce /\ n = attempt'[k]
                      /\ loc'[k].conn = c /\ loc'[k].id = i
                      /\ done'[<<k, n>>] = Pending
    BY DEF CallTable, Entry
  <2>1. Entry(c, i, <<k, n>>) /\ done'[<<k, n>>] = done[<<k, n>>]
    BY RpcsAre DEF Shrinks
  <2>2. /\ n = attempt[k] /\ loc[k].conn = c /\ loc[k].id = i
        /\ done[<<k, n>>] = Pending
    BY <2>1 DEF CallInv, CallTable, Entry
  <2>3. QED BY <2>1, <2>2 DEF KeepsCallers
<1>2. HeldOK'
  <2> SUFFICES ASSUME NEW c \in Conns, NEW k \in Callers, NEW n \in 1..MaxAttempts,
                      reply[c][1] = <<k, n>>
               PROVE  /\ done'[<<k, n>>] = Pending
                      /\ n <= attempt'[k] /\ (n = attempt'[k] => pc'[k] \notin BeforeInsert)
                      /\ \A d \in Conns, i \in Ids : ~Entry(d, i, <<k, n>>)'
                      /\ \A d \in Conns \ {c} : reply[d][1] # <<k, n>>
    BY DEF HeldOK, Entry
  <2>1. /\ done[<<k, n>>] = Pending
        /\ n <= attempt[k] /\ (n = attempt[k] => pc[k] \notin BeforeInsert)
        /\ \A d \in Conns, i \in Ids : ~Entry(d, i, <<k, n>>)
        /\ \A d \in Conns \ {c} : reply[d][1] # <<k, n>>
    BY DEF CallInv, HeldOK, Entry
  <2>2. n <= attempt'[k] /\ (n = attempt'[k] => pc'[k] \notin BeforeInsert)
    BY <1>0, <2>1 DEF KeepsCallers
  <2>3. QED BY <2>1, <2>2, RpcsAre DEF Shrinks
<1>3. FreshOK'
  <2> SUFFICES ASSUME NEW k \in Callers, NEW n \in 1..MaxAttempts,
                      n > attempt'[k] \/ (n = attempt'[k] /\ pc'[k] \in BeforeInsert)
               PROVE  done'[<<k, n>>] = Pending
    BY DEF FreshOK
  <2>1. n > attempt[k] \/ (n = attempt[k] /\ pc[k] \in BeforeInsert)
    <3>1. attempt[k] \in Int /\ attempt'[k] \in Int /\ n \in Int
      BY <1>0
    <3>2. CASE attempt'[k] = attempt[k] /\ (pc'[k] \in BeforeInsert => pc[k] \in BeforeInsert)
      BY <3>2
    <3>3. CASE attempt'[k] > attempt[k]
      BY <3>1, <3>3
    <3>4. QED BY <3>2, <3>3 DEF KeepsCallers
  <2>2. done[<<k, n>>] = Pending
    BY <2>1 DEF CallInv, FreshOK
  <2>3. \A d \in Conns, i \in Ids : ~Entry(d, i, <<k, n>>)
    <3>1. attempt[k] \in Int
      BY <1>0
    <3>2. ~(n = attempt[k] /\ pc[k] \in InCallOnce)
      BY <2>1, <3>1 DEF BeforeInsert, InCallOnce
    <3>3. QED BY <3>2, EntryWaits DEF CallInv
  <2>4. QED BY <2>2, <2>3, RpcsAre DEF Shrinks
<1>4. QED BY <1>1, <1>2, <1>3 DEF CallInv

Once == \A r \in Rpcs : done[r] # Pending => done'[r] = done[r]

LEMMA ShrinkOnce ==
  ASSUME CallTable, Shrinks
  PROVE  Once
<1> SUFFICES ASSUME NEW r \in Rpcs, done[r] # Pending PROVE done'[r] = done[r]
  BY DEF Once
<1>1. \A d \in Conns, i \in Ids : ~Entry(d, i, r)
  BY RpcsAre DEF CallTable, Entry
<1>2. QED BY <1>1 DEF Shrinks

LEMMA QuietShrinks ==
  ASSUME UNCHANGED <<calls, done>>
  PROVE  Shrinks
BY DEF Shrinks, Entry

(* A caller's step touches that caller only.                               *)
LEMMA OthersStay ==
  ASSUME CallerTypes, NEW k \in Callers,
         CallerStep(k) \/ GiveUpPicking(k) \/ GiveUpWaiting(k),
         NEW j \in Callers, j # k
  PROVE  pc'[j] = pc[j] /\ loc'[j] = loc[j] /\ attempt'[j] = attempt[j]
<1> USE DEF CallerTypes, Goto, Return
<1>1. CASE Pick(k) \/ PickOnClosed(k) \/ GiveUpPicking(k) \/ LoadID(k)
  BY <1>1 DEF Pick, PickOnClosed, GiveUpPicking, LoadID
<1>2. CASE Insert(k) \/ CallStart(k) \/ Activate(k) \/ TakeConn(k)
  BY <1>2 DEF Insert, CallStart, Activate, TakeConn
<1>3. CASE WriteNil(k) \/ Write(k) \/ Shutdown(k) \/ Receive(k) \/ WriteCancel(k)
  BY <1>3 DEF WriteNil, Write, Shutdown, Receive, WriteCancel, callerVars
<1>4. CASE DropCall(k) \/ GiveUpWaiting(k)
  BY <1>4 DEF DropCall, GiveUpWaiting, RetryOrReturn
<1>5. QED BY <1>1, <1>2, <1>3, <1>4 DEF CallerStep

(* What CallTable says of one entry.                                       *)
LEMMA EntryIs ==
  ASSUME CallTable, NEW d \in Conns, NEW i \in Ids, NEW k \in Callers,
         NEW n \in 1..MaxAttempts, Entry(d, i, <<k, n>>)
  PROVE  /\ pc[k] \in InCallOnce /\ n = attempt[k]
         /\ loc[k].conn = d /\ loc[k].id = i /\ done[<<k, n>>] = Pending
BY DEF CallTable, Entry

LEMMA NoEntry ==
  ASSUME CallTable, NEW k \in Callers, pc[k] \notin InCallOnce
  PROVE  \A d \in Conns, i \in Ids, n \in 1..MaxAttempts : ~Entry(d, i, <<k, n>>)
BY EntryIs

LEMMA OneCallerKeeps ==
  ASSUME NEW k \in Callers,
         \A j \in Callers : j # k =>
           pc'[j] = pc[j] /\ loc'[j] = loc[j] /\ attempt'[j] = attempt[j],
         CallTable,
         \/ attempt'[k] = attempt[k] /\ (pc'[k] \in BeforeInsert => pc[k] \in BeforeInsert)
         \/ attempt'[k] > attempt[k],
         \/ \A d \in Conns, i \in Ids, n \in 1..MaxAttempts :
              ~(Entry(d, i, <<k, n>>) /\ Entry(d, i, <<k, n>>)')
         \/ /\ attempt'[k] = attempt[k] /\ pc'[k] \in InCallOnce
            /\ loc'[k].conn = loc[k].conn /\ loc'[k].id = loc[k].id
  PROVE  KeepsCallers
<1>1. ASSUME NEW j \in Callers
      PROVE  \/ attempt'[j] = attempt[j] /\ (pc'[j] \in BeforeInsert => pc[j] \in BeforeInsert)
             \/ attempt'[j] > attempt[j]
  <2>1. CASE j = k
    BY <2>1
  <2>2. CASE j # k
    BY <2>2
  <2>3. QED BY <2>1, <2>2
<1>2. ASSUME NEW d \in Conns, NEW i \in Ids, NEW j \in Callers, NEW n \in 1..MaxAttempts,
             Entry(d, i, <<j, n>>), Entry(d, i, <<j, n>>)'
      PROVE  /\ attempt'[j] = attempt[j] /\ pc'[j] \in InCallOnce
             /\ loc'[j].conn = loc[j].conn /\ loc'[j].id = loc[j].id
  <2>1. CASE j = k
    BY <1>2, <2>1
  <2>2. CASE j # k
    <3>1. pc[j] \in InCallOnce
      BY <1>2 DEF CallTable, Entry
    <3>2. QED BY <2>2, <3>1
  <2>3. QED BY <2>1, <2>2
<1>3. QED BY <1>1, <1>2 DEF KeepsCallers

LEMMA CallerCalls ==
  ASSUME ConstantsAssumption, TypeInv, TypeInv', CallInv, NEW k \in Callers,
         CallerStep(k) \/ GiveUpPicking(k) \/ GiveUpWaiting(k)
  PROVE  CallInv' /\ Once
<1> USE DEF BeforeInsert, InCallOnce
<1>0. /\ SwitchTypes /\ CallerTypes /\ PlaceOK /\ CallTable /\ MaxAttempts \in Nat
      /\ pc \in [Callers -> CallerPCs] /\ attempt \in [Callers -> 1..MaxAttempts]
      /\ loc \in [Callers -> Locs]
  BY TypesSplit DEF TypeInv, TypeOK, CallerTypes, CallInv, ConstantsAssumption
<1>a. ASSUME UNCHANGED reply, Shrinks, KeepsCallers
      PROVE  CallInv' /\ Once
  BY <1>0, <1>a, ShrinkKeeps, ShrinkOnce
<1>b. \A j \in Callers : j # k =>
        pc'[j] = pc[j] /\ loc'[j] = loc[j] /\ attempt'[j] = attempt[j]
  BY <1>0, OthersStay
<1>1. CASE Pick(k) \/ LoadID(k) \/ PickOnClosed(k) \/ GiveUpPicking(k) \/ WriteCancel(k)
  <2>1. pc[k] \in {"pick", "count", "cancel"} /\ UNCHANGED <<calls, done, reply, attempt>>
    BY <1>1 DEF Pick, LoadID, PickOnClosed, GiveUpPicking, WriteCancel, Return, sharedVars,
       connVars, mgrVars
  <2>2. \A d \in Conns, i \in Ids, n \in 1..MaxAttempts : ~Entry(d, i, <<k, n>>)
    <3>1. pc[k] \notin InCallOnce
      BY <2>1
    <3>2. QED BY <1>0, <3>1, NoEntry
  <2>3. pc'[k] \in BeforeInsert => pc[k] \in BeforeInsert
    BY <1>0, <1>1 DEF Pick, LoadID, PickOnClosed, GiveUpPicking, WriteCancel, Return, Goto
  <2>4. KeepsCallers
    BY <1>0, <1>b, <2>1, <2>2, <2>3, OneCallerKeeps
  <2>5. QED BY <1>a, <2>1, <2>4, QuietShrinks
<1>2. CASE Insert(k)
  <2> DEFINE c == loc[k].conn
             i == loc[k].id + 1
             q == Rpc(k)
  <2>1. /\ pc[k] = "insert" /\ c \in Conns /\ i \in Ids
        /\ loc' = [loc EXCEPT ![k].id = i] /\ pc' = [pc EXCEPT ![k] = "start"]
        /\ calls' = [calls EXCEPT ![c][i] = q]
        /\ UNCHANGED <<mgrVars, attempt, done>>
    BY <1>0, <1>2 DEF Insert, Goto, PlaceOK
  <2>2. q = <<k, attempt[k]>> /\ q \in Rpcs /\ calls \in [Conns -> Tables]
    BY <1>0 DEF Rpc, Rpcs, SwitchTypes
  <2>3. done[q] = Pending /\ \A d \in Conns : reply[d][1] # q
    BY <1>0, <2>1, <2>2 DEF CallInv, FreshOK, HeldOK
  <2>4. loc'[k].conn = c /\ loc'[k].id = i /\ pc'[k] = "start"
        /\ \A j \in Callers : j # k => pc'[j] = pc[j] /\ loc'[j] = loc[j]
    <3> HIDE DEF c, i
    <3>1. loc[k] \in Locs
      BY <1>0
    <3>2. QED BY <1>0, <2>1, <3>1 DEF Locs, c
  <2> HIDE DEF c, i, q
  <2>5. \A d \in Conns, j \in Ids : calls'[d][j] = IF d = c /\ j = i THEN q ELSE calls[d][j]
    BY <2>1, <2>2 DEF Tables
  <2>6. CallTable'
    <3> SUFFICES ASSUME NEW d \in Conns, NEW j \in Ids, NEW l \in Callers,
                        NEW n \in 1..MaxAttempts, calls'[d][j] = <<l, n>>
                 PROVE  /\ pc'[l] \in InCallOnce /\ n = attempt'[l]
                        /\ loc'[l].conn = d /\ loc'[l].id = j
                        /\ done'[<<l, n>>] = Pending
      BY DEF CallTable
    <3>1. CASE d = c /\ j = i
      <4>1. l = k /\ n = attempt[k] /\ <<l, n>> = q
        BY <2>2, <2>5, <3>1
      <4>2. QED BY <2>1, <2>3, <2>4, <3>1, <4>1
    <3>2. CASE ~(d = c /\ j = i)
      <4>1. calls[d][j] = <<l, n>>
        BY <2>5, <3>2
      <4>2. /\ pc[l] \in InCallOnce /\ n = attempt[l]
            /\ loc[l].conn = d /\ loc[l].id = j /\ done[<<l, n>>] = Pending
        BY <1>0, <4>1 DEF CallTable
      <4>3. l # k
        BY <2>1, <4>2
      <4>4. QED BY <2>1, <2>4, <4>2, <4>3
    <3>3. QED BY <3>1, <3>2
  <2>7. HeldOK'
    <3> SUFFICES ASSUME NEW d \in Conns, NEW l \in Callers, NEW n \in 1..MaxAttempts,
                        reply[d][1] = <<l, n>>
                 PROVE  /\ done'[<<l, n>>] = Pending
                        /\ n <= attempt'[l] /\ (n = attempt'[l] => pc'[l] \notin BeforeInsert)
                        /\ \A e \in Conns, j \in Ids : calls'[e][j] # <<l, n>>
                        /\ \A e \in Conns \ {d} : reply'[e][1] # <<l, n>>
      BY <2>1 DEF HeldOK, mgrVars
    <3>1. /\ done[<<l, n>>] = Pending
          /\ n <= attempt[l] /\ (n = attempt[l] => pc[l] \notin BeforeInsert)
          /\ \A e \in Conns, j \in Ids : calls[e][j] # <<l, n>>
          /\ \A e \in Conns \ {d} : reply[e][1] # <<l, n>>
      BY DEF CallInv, HeldOK
    <3>2. q # <<l, n>>
      BY <2>3
    <3>3. QED BY <2>1, <2>4, <2>5, <3>1, <3>2 DEF mgrVars
  <2>8. FreshOK'
    BY <2>1, <2>4 DEF CallInv, FreshOK
  <2>9. Once
    BY <2>1 DEF Once
  <2>10. QED BY <2>6, <2>7, <2>8, <2>9 DEF CallInv
<1>3. CASE CallStart(k) \/ TakeConn(k) \/ Write(k) \/ WriteNil(k)
  <2>1. UNCHANGED <<calls, done, reply, attempt>>
    BY <1>3 DEF CallStart, TakeConn, Write, WriteNil, sharedVars, connVars, mgrVars, callerVars
  <2>2. pc'[k] \in InCallOnce
    BY <1>0, <1>3 DEF CallStart, TakeConn, Write, WriteNil, Goto, callerVars
  <2>3. loc'[k].conn = loc[k].conn /\ loc'[k].id = loc[k].id
    <3>1. CASE TakeConn(k)
      <4>1. loc[k] \in Locs /\ loc' = [loc EXCEPT ![k] = [@ EXCEPT !.net = net[loc[k].conn]]]
        BY <1>0, <3>1 DEF TakeConn
      <4>2. QED BY <1>0, <4>1 DEF Locs
    <3>2. QED BY <1>3, <3>1 DEF CallStart, Write, WriteNil, callerVars
  <2>4. KeepsCallers
    BY <1>0, <1>b, <2>1, <2>2, <2>3, OneCallerKeeps
  <2>5. QED BY <1>a, <2>1, <2>4, QuietShrinks
<1>4. CASE Receive(k)
  <2>1. UNCHANGED <<calls, done, reply, attempt, loc>> /\ done[Rpc(k)] # Pending
    BY <1>4 DEF Receive, Return, sharedVars, connVars, mgrVars
  <2>2. \A d \in Conns, i \in Ids, n \in 1..MaxAttempts : ~Entry(d, i, <<k, n>>)
    BY <1>0, <2>1 DEF CallTable, Entry, Rpc
  <2>3. pc'[k] \notin BeforeInsert
    BY <1>0, <1>4 DEF Receive, Return, Goto
  <2>4. KeepsCallers
    BY <1>0, <1>b, <2>1, <2>2, <2>3, OneCallerKeeps
  <2>5. QED BY <1>a, <2>1, <2>4, QuietShrinks
<1>5. CASE Activate(k)
  <2>1. loc[k].conn \in Conns /\ SetState(loc[k].conn, "active", Now(loc[k].conn))
    BY <1>0, <1>5 DEF Activate, PlaceOK
  <2>2. Shrinks
    <3> DEFINE c == loc[k].conn
    <3>1. Now(c) \in Handed /\ Now(c).done = done /\ Now(c).calls = calls[c]
      BY <1>0, <2>1, NowType DEF Now
    <3>2. c \in Conns /\ SetState(c, "active", Now(c)) /\ "active" \in States
      BY <2>1 DEF States
    <3> HIDE DEF c
    <3>3. QED BY <1>0, <3>1, <3>2, SwitchShrinks
  <2>3. pc'[k] \in InCallOnce /\ UNCHANGED <<loc, attempt, reply>>
    BY <1>0, <1>5 DEF Activate, Goto, mgrVars
  <2>4. KeepsCallers
    BY <1>0, <1>b, <2>3, OneCallerKeeps
  <2>5. QED BY <1>a, <2>2, <2>3, <2>4
<1>6. CASE Shutdown(k)
  <2>1. loc[k].conn \in Conns /\ Fail(loc[k].conn, Now(loc[k].conn))
    BY <1>0, <1>6 DEF Shutdown, PlaceOK
  <2>2. Shrinks
    BY <1>0, <2>1, FailShrinks
  <2>3. UNCHANGED <<loc, attempt, reply>> /\ pc'[k] \in {"drop", "returned"}
    BY <1>0, <1>6 DEF Shutdown, Goto, Return, mgrVars
  <2>4. pc'[k] \in InCallOnce \/ pc[k] = "shutdown2"
    BY <1>0, <1>6 DEF Shutdown, Goto
  <2>5. pc[k] = "shutdown2" =>
          \A d \in Conns, i \in Ids, n \in 1..MaxAttempts : ~Entry(d, i, <<k, n>>)
    <3>1. pc[k] = "shutdown2" => pc[k] \notin InCallOnce
      OBVIOUS
    <3>2. QED BY <1>0, <3>1, NoEntry
  <2>6. KeepsCallers
    BY <1>0, <1>b, <2>3, <2>4, <2>5, OneCallerKeeps
  <2>7. QED BY <1>a, <2>2, <2>3, <2>6
<1>7. CASE DropCall(k) \/ GiveUpWaiting(k)
  <2> DEFINE c == loc[k].conn
             i == loc[k].id
  <2>1. /\ c \in Conns /\ i \in Ids /\ EndCall(c, i) /\ UNCHANGED reply
        /\ pc[k] \in {"drop", "wait"}
    BY <1>0, <1>7 DEF DropCall, GiveUpWaiting, PlaceOK, mgrVars
  <2>2. Shrinks /\ calls'[c][i] = NoRpc
    BY <1>0, <2>1, EndCallShrinks
  <2>3. \A d \in Conns, j \in Ids, n \in 1..MaxAttempts : ~Entry(d, j, <<k, n>>)'
    <3> SUFFICES ASSUME NEW d \in Conns, NEW j \in Ids, NEW n \in 1..MaxAttempts,
                        Entry(d, j, <<k, n>>)'
                 PROVE  FALSE
      OBVIOUS
    <3>1. Entry(d, j, <<k, n>>)
      BY <2>2, RpcsAre DEF Shrinks
    <3>2. d = c /\ j = i
      BY <1>0, <3>1, EntryIs
    <3>3. calls'[d][j] = <<k, n>> /\ calls'[d][j] = NoRpc
      BY <2>2, <3>2 DEF Entry
    <3>4. QED BY <3>3, RpcsAre DEF ConstantsAssumption
  <2>4. \/ attempt' = [attempt EXCEPT ![k] = @ + 1]
        \/ attempt' = attempt /\ pc'[k] \notin BeforeInsert
    BY <1>0, <1>7 DEF DropCall, GiveUpWaiting, RetryOrReturn, Return, Goto
  <2>5. \/ attempt'[k] > attempt[k]
        \/ attempt'[k] = attempt[k] /\ pc'[k] \notin BeforeInsert
    <3>1. attempt[k] \in Int /\ attempt \in [Callers -> 1..MaxAttempts]
      BY <1>0
    <3>2. QED BY <2>4, <3>1
  <2> HIDE DEF c, i
  <2>6. KeepsCallers
    BY <1>0, <1>b, <2>3, <2>5, OneCallerKeeps
  <2>7. QED BY <1>a, <2>1, <2>2, <2>6
<1>8. QED
  BY <1>1, <1>2, <1>3, <1>4, <1>5, <1>6, <1>7 DEF CallerStep

(* Taking one call out of a table touches no outcome.                      *)
LEMMA EndCallDone ==
  ASSUME ConstantsAssumption, TypeInv, NEW c \in Conns, NEW id \in Ids, EndCall(c, id)
  PROVE  UNCHANGED done
<1> DEFINE cs == [calls[c] EXCEPT ![id] = NoRpc]
           w  == [Now(c) EXCEPT !.calls = cs]
<1>0. SwitchTypes /\ calls[c] \in Tables /\ done \in Outcomes
  BY TypesSplit DEF SwitchTypes
<1>1. cs \in Tables
  BY <1>0 DEF Tables, Tokens
<1>2. w \in Handed /\ w.done = done /\ w.calls = cs
  BY <1>0, <1>1, NowType DEF Handed, Now
<1>3. CASE cs # NoCalls
  <2>1. Switch(c, state[c], w)
    BY <1>3 DEF EndCall
  <2> HIDE DEF w, cs
  <2>2. QED BY <1>2, <2>1 DEF Switch
<1>4. CASE cs = NoCalls
  <2>1. Switch(c, LastDone(c), w)
    BY <1>4 DEF EndCall
  <2>2. LastDone(c) \in States
    BY <1>0 DEF LastDone, SwitchTypes, States
  <2> HIDE DEF w, cs
  <2>3. done' = done \/ done' = EndCalls(done, NoCalls)
    BY <1>0, <1>2, <1>4, <2>1, <2>2, SwitchEffect
  <2>4. EndCalls(done, NoCalls) = done
    BY <1>0, NoCallsEmpty DEF EndCalls, Outcomes
  <2>5. QED BY <2>3, <2>4
<1>5. QED BY <1>3, <1>4

(* The reader takes call q out of the table of c and holds it.             *)
LEMMA TakeKeeps ==
  ASSUME ConstantsAssumption, TypeInv, CallInv, Shrinks, UNCHANGED <<pc, loc, attempt, done>>,
         NEW c \in Conns, NEW i \in Ids, NEW q \in Rpcs, NEW x,
         Entry(c, i, q), calls'[c][i] = NoRpc, reply' = [reply EXCEPT ![c] = <<q, x>>]
  PROVE  CallInv'
<1>0. /\ CallTable /\ HeldOK /\ reply \in [Conns -> Tokens \X Tokens]
      /\ attempt \in [Callers -> 1..MaxAttempts]
  BY DEF CallInv, TypeInv, TypeOK, ManagerTypes, CallerTypes
<1>1. /\ reply'[c][1] = q
      /\ \A d \in Conns : d # c => reply'[d] = reply[d]
  BY <1>0
<1>2. \A d \in Conns : reply[d][1] # q
  <2>1. PICK k \in Callers, n \in 1..MaxAttempts : q = <<k, n>>
    BY RpcsAre
  <2>2. calls[c][i] = <<k, n>>
    BY <2>1 DEF Entry
  <2>3. QED BY <1>0, <2>1, <2>2 DEF HeldOK
<1>3. \A d \in Conns, j \in Ids : ~Entry(d, j, q)'
  <2> SUFFICES ASSUME NEW d \in Conns, NEW j \in Ids, Entry(d, j, q)' PROVE FALSE
    OBVIOUS
  <2>1. d = c /\ j = i
    BY <1>0, OneEntry DEF Shrinks
  <2>2. QED BY <2>1 DEF Entry, ConstantsAssumption
<1>4. CallTable'
  <2> SUFFICES ASSUME NEW d \in Conns, NEW j \in Ids, NEW k \in Callers,
                      NEW n \in 1..MaxAttempts, Entry(d, j, <<k, n>>)'
               PROVE  /\ pc[k] \in InCallOnce /\ n = attempt[k]
                      /\ loc[k].conn = d /\ loc[k].id = j /\ done[<<k, n>>] = Pending
    BY DEF CallTable, Entry
  <2>1. Entry(d, j, <<k, n>>)
    BY RpcsAre DEF Shrinks
  <2>2. QED BY <1>0, <2>1, EntryIs
<1>5. HeldOK'
  <2> SUFFICES ASSUME NEW d \in Conns, NEW k \in Callers, NEW n \in 1..MaxAttempts,
                      reply'[d][1] = <<k, n>>
               PROVE  /\ done'[<<k, n>>] = Pending
                      /\ n <= attempt'[k] /\ (n = attempt'[k] => pc'[k] \notin BeforeInsert)
                      /\ \A e \in Conns, j \in Ids : ~Entry(e, j, <<k, n>>)'
                      /\ \A e \in Conns \ {d} : reply'[e][1] # <<k, n>>
    BY DEF HeldOK, Entry
  <2>1. CASE d = c
    <3>1. q = <<k, n>>
      BY <1>1, <2>1
    <3>2. pc[k] \in InCallOnce /\ n = attempt[k] /\ done[<<k, n>>] = Pending
      BY <1>0, <3>1, EntryIs
    <3>3. n <= attempt[k] /\ pc[k] \notin BeforeInsert
      BY <1>0, <3>2 DEF InCallOnce, BeforeInsert
    <3>4. QED BY <1>1, <1>2, <1>3, <2>1, <3>1, <3>2, <3>3
  <2>2. CASE d # c
    <3>1. reply[d][1] = <<k, n>>
      BY <1>1, <2>2
    <3>2. /\ done[<<k, n>>] = Pending
          /\ n <= attempt[k] /\ (n = attempt[k] => pc[k] \notin BeforeInsert)
          /\ \A e \in Conns, j \in Ids : ~Entry(e, j, <<k, n>>)
          /\ \A e \in Conns \ {d} : reply[e][1] # <<k, n>>
      BY <1>0, <3>1 DEF HeldOK, Entry
    <3>3. q # <<k, n>>
      BY <1>2, <3>1
    <3>4. QED BY <1>1, <3>2, <3>3, RpcsAre DEF Shrinks
  <2>3. QED BY <2>1, <2>2
<1>6. FreshOK'
  BY DEF CallInv, FreshOK
<1>7. QED BY <1>4, <1>5, <1>6 DEF CallInv

(* The reader records the outcome of the call it holds.                    *)
LEMMA DeliverKeeps ==
  ASSUME ConstantsAssumption, TypeInv, CallInv, UNCHANGED <<pc, loc, attempt, calls>>,
         NEW c \in Conns, NEW x, reply[c][1] \in Rpcs, done' = [done EXCEPT ![reply[c][1]] = x],
         reply' = [reply EXCEPT ![c] = <<NoRpc, NoRpc>>]
  PROVE  CallInv' /\ Once
<1> DEFINE q == reply[c][1]
<1>0. /\ CallTable /\ HeldOK /\ FreshOK /\ reply \in [Conns -> Tokens \X Tokens]
      /\ done \in Outcomes /\ attempt \in [Callers -> 1..MaxAttempts]
  BY DEF CallInv, TypeInv, TypeOK, ManagerTypes, CallerTypes, ConnTypes
<1>1. /\ \A r \in Rpcs : r # q => done'[r] = done[r]
      /\ \A d \in Conns : d # c => reply'[d] = reply[d]
      /\ reply'[c][1] = NoRpc
  BY <1>0 DEF Outcomes
<1>2. PICK l \in Callers, m \in 1..MaxAttempts : q = <<l, m>>
  BY RpcsAre
<1>3. /\ done[q] = Pending
      /\ m <= attempt[l] /\ (m = attempt[l] => pc[l] \notin BeforeInsert)
      /\ \A d \in Conns, i \in Ids : calls[d][i] # q
      /\ \A d \in Conns \ {c} : reply[d][1] # q
  BY <1>0, <1>2 DEF HeldOK
<1> HIDE DEF q
<1>4. CallTable'
  <2> SUFFICES ASSUME NEW d \in Conns, NEW j \in Ids, NEW k \in Callers,
                      NEW n \in 1..MaxAttempts, Entry(d, j, <<k, n>>)
               PROVE  /\ pc[k] \in InCallOnce /\ n = attempt[k]
                      /\ loc[k].conn = d /\ loc[k].id = j /\ done'[<<k, n>>] = Pending
    BY DEF CallTable, Entry
  <2>1. <<k, n>> # q
    BY <1>3 DEF Entry
  <2>2. done'[<<k, n>>] = done[<<k, n>>]
    BY <1>1, <2>1, RpcsAre
  <2>3. QED BY <1>0, <2>2, EntryIs
<1>5. HeldOK'
  <2> SUFFICES ASSUME NEW d \in Conns, NEW k \in Callers, NEW n \in 1..MaxAttempts,
                      reply'[d][1] = <<k, n>>
               PROVE  /\ done'[<<k, n>>] = Pending
                      /\ n <= attempt'[k] /\ (n = attempt'[k] => pc'[k] \notin BeforeInsert)
                      /\ \A e \in Conns, j \in Ids : calls'[e][j] # <<k, n>>
                      /\ \A e \in Conns \ {d} : reply'[e][1] # <<k, n>>
    BY DEF HeldOK
  <2>1. d # c /\ reply[d][1] = <<k, n>>
    BY <1>1, RpcsAre DEF ConstantsAssumption
  <2>2. /\ done[<<k, n>>] = Pending
        /\ n <= attempt[k] /\ (n = attempt[k] => pc[k] \notin BeforeInsert)
        /\ \A e \in Conns, j \in Ids : calls[e][j] # <<k, n>>
        /\ \A e \in Conns \ {d} : reply[e][1] # <<k, n>>
    BY <1>0, <2>1 DEF HeldOK
  <2>3. q # <<k, n>>
    BY <1>3, <2>1
  <2>4. <<k, n>> \in Rpcs /\ NoRpc # <<k, n>>
    BY RpcsAre DEF ConstantsAssumption
  <2>5. QED BY <1>1, <2>2, <2>3, <2>4
<1>6. FreshOK'
  <2> SUFFICES ASSUME NEW k \in Callers, NEW n \in 1..MaxAttempts,
                      n > attempt[k] \/ (n = attempt[k] /\ pc[k] \in BeforeInsert)
               PROVE  done'[<<k, n>>] = Pending
    BY DEF FreshOK
  <2>1. done[<<k, n>>] = Pending
    BY <1>0 DEF FreshOK
  <2>2. attempt[k] \in Int /\ n \in Int /\ (k = l /\ n = m => n <= attempt[k])
    BY <1>0, <1>3
  <2>3. <<k, n>> # q
    BY <1>2, <1>3, <2>2
  <2>4. QED BY <1>1, <2>1, <2>3, RpcsAre
<1>7. Once
  BY <1>1, <1>3 DEF Once
<1>8. QED BY <1>4, <1>5, <1>6, <1>7 DEF CallInv

LEMMA SameCallers ==
  ASSUME CallTable, UNCHANGED callerVars
  PROVE  KeepsCallers /\ UNCHANGED <<pc, loc, attempt>>
<1>1. UNCHANGED <<pc, loc, attempt>>
  BY DEF callerVars
<1>2. ASSUME NEW d \in Conns, NEW i \in Ids, NEW k \in Callers, NEW n \in 1..MaxAttempts,
             Entry(d, i, <<k, n>>)
      PROVE  pc'[k] \in InCallOnce
  BY <1>1, <1>2, EntryIs
<1>3. QED BY <1>1, <1>2 DEF KeepsCallers

LEMMA ManagerCalls ==
  ASSUME ConstantsAssumption, TypeInv, TypeInv', CallInv, NEW c \in Conns,
         ManagerStep(c) \/ DialFails(c)
  PROVE  CallInv' /\ Once
<1>0. /\ SwitchTypes /\ ManagerTypes /\ CallerTypes /\ PlaceOK /\ CallTable /\ Now(c) \in Handed
      /\ Now(c).done = done /\ Now(c).calls = calls[c] /\ Now(c).nets = netState
  BY TypesSplit, NowType DEF TypeInv, TypeOK, CallInv, Now
<1>a. ASSUME UNCHANGED <<callerVars, reply>>, Shrinks
      PROVE  CallInv' /\ Once
  BY <1>0, <1>a, SameCallers, ShrinkKeeps, ShrinkOnce
<1>1. CASE Continue(c) \/ DialFails(c) \/ HandshakeFails(c) \/ Loop(c)
  <2>1. UNCHANGED <<callerVars, reply, calls, done>>
    BY <1>1 DEF Continue, DialFails, HandshakeFails, Loop, sharedVars, connVars
  <2>2. QED BY <1>a, <2>1, QuietShrinks
<1>2. CASE Dialled(c)
  <2>1. PICK n \in Nets :
          Switch(c, Connected(c), [Now(c) EXCEPT !.net = n, !.nets = [@ EXCEPT ![n] = "open"]])
    BY <1>2 DEF Dialled
  <2> DEFINE w == [Now(c) EXCEPT !.net = n, !.nets = [@ EXCEPT ![n] = "open"]]
  <2>2. w \in Handed /\ w.done = done /\ w.calls = calls[c]
    BY <1>0 DEF Handed, NetStates
  <2>3. Connected(c) \in States /\ Switch(c, Connected(c), w)
    BY <1>0, <2>1 DEF Connected, States, SwitchTypes
  <2> HIDE DEF w
  <2>4. Shrinks
    BY <1>0, <2>2, <2>3, SwitchShrinks
  <2>5. QED BY <1>2, <1>a, <2>4 DEF Dialled
<1>3. CASE Handshaken(c)
  <2> DEFINE w == [Now(c) EXCEPT !.nets = CloseNet(@, mnet[c])]
  <2>1. Switch(c, Checked(c), Now(c)) \/ Switch(c, Checked(c), w)
    BY <1>3 DEF Handshaken
  <2>2. w \in Handed /\ w.done = done /\ w.calls = calls[c]
    BY <1>0, CloseNetType DEF Handed
  <2>3. Checked(c) \in States
    BY <1>0 DEF Checked, States, SwitchTypes
  <2> HIDE DEF w
  <2>4. Shrinks
    BY <1>0, <2>1, <2>2, <2>3, SwitchShrinks
  <2>5. QED BY <1>3, <1>a, <2>4 DEF Handshaken
<1>4. CASE ReadReply(c)
  <2>1. PICK m \in wire :
          LET r == calls[c][m.id] IN
          IF r = NoRpc
          THEN UNCHANGED <<connVars, done, netState, panicked, reply>>
          ELSE EndCall(c, m.id) /\ reply' = [reply EXCEPT ![c] = <<r, m.rpc>>]
    BY <1>4 DEF ReadReply
  <2>2. UNCHANGED callerVars /\ m.id \in Ids
    BY <1>0, <1>4 DEF ReadReply, CallerTypes, Messages
  <2>3. CASE calls[c][m.id] = NoRpc
    BY <1>a, <2>1, <2>2, <2>3, QuietShrinks DEF connVars
  <2>4. CASE calls[c][m.id] # NoRpc
    <3> DEFINE i == m.id
               q == calls[c][i]
    <3>1. EndCall(c, i) /\ i \in Ids /\ reply' = [reply EXCEPT ![c] = <<q, m.rpc>>]
      BY <2>1, <2>2, <2>4
    <3>2. q \in Rpcs /\ Entry(c, i, q)
      BY <1>0, <2>2, <2>4 DEF SwitchTypes, Tables, Tokens, Entry
    <3> HIDE DEF i, q
    <3>3. Shrinks /\ calls'[c][i] = NoRpc /\ UNCHANGED done
      BY <1>0, <3>1, EndCallShrinks, EndCallDone
    <3>4. UNCHANGED <<pc, loc, attempt>>
      BY <2>2 DEF callerVars
    <3>5. CallInv'
      BY <3>1, <3>2, <3>3, <3>4, TakeKeeps
    <3>6. QED BY <3>3, <3>5 DEF Once
  <2>5. QED BY <2>3, <2>4
<1>5. CASE Deliver(c)
  <2>1. /\ reply[c][1] \in Rpcs /\ UNCHANGED <<pc, loc, attempt, calls>>
        /\ done' = [done EXCEPT ![reply[c][1]] = reply[c][2]]
        /\ reply' = [reply EXCEPT ![c] = <<NoRpc, NoRpc>>]
    BY <1>0, <1>5 DEF Deliver, PlaceOK, callerVars, connVars
  <2>2. QED BY <2>1, DeliverKeeps
<1>6. CASE ReadFails(c)
  <2>1. Fail(c, Now(c)) /\ UNCHANGED <<callerVars, reply>>
    BY <1>6 DEF ReadFails
  <2>2. QED BY <1>0, <1>a, <2>1, FailShrinks
<1>7. QED
  BY <1>1, <1>2, <1>3, <1>4, <1>5, <1>6 DEF ManagerStep

LEMMA UpdateCalls ==
  ASSUME ConstantsAssumption, TypeInv, TypeInv', CallInv, NEW rc \in Stubs,
         UpdateEndpoints(rc) \/ UpdateStep(rc) \/ Close(rc)
  PROVE  CallInv' /\ Once
<1>0. SwitchTypes /\ StubTypes /\ CallTable
  BY TypesSplit DEF TypeInv, TypeOK, CallInv
<1>a. ASSUME UNCHANGED <<callerVars, reply>>, Shrinks
      PROVE  CallInv' /\ Once
  BY <1>0, <1>a, SameCallers, ShrinkKeeps, ShrinkOnce
<1>1. CASE UpdateEndpoints(rc) \/ KeepEndpoint(rc) \/ Lookup(rc) \/ Close(rc)
  <2>1. UNCHANGED <<callerVars, reply, calls, done>>
    BY <1>1 DEF UpdateEndpoints, KeepEndpoint, Lookup, Close, sharedVars, connVars, mgrVars
  <2>2. QED BY <1>a, <2>1, QuietShrinks
<1>2. CASE Register(rc)
  <2>1. UNCHANGED <<callerVars, reply, calls, done>>
    BY <1>2 DEF Register, RegisterExisting, RegisterNew
  <2>2. QED BY <1>a, <2>1, QuietShrinks
<1>3. CASE DropEndpoint(rc)
  <2>1. PICK a \in Addrs :
          LET c == conns[rc][a] IN
          IF c # NoConn /\ rc \in rcs[c]
          THEN Switch(c, IF rcs[c] = {rc} THEN Unregister(c) ELSE state[c], Now(c))
          ELSE UNCHANGED <<rcs, connVars, done, netState, panicked>>
    BY <1>0, <1>3 DEF DropEndpoint, StubTypes
  <2>2. UNCHANGED <<callerVars, reply>>
    BY <1>3 DEF DropEndpoint, mgrVars
  <2> DEFINE c == conns[rc][a]
             s == IF rcs[c] = {rc} THEN Unregister(c) ELSE state[c]
  <2>3. CASE c # NoConn /\ rc \in rcs[c]
    <3>1. Switch(c, s, Now(c)) /\ c \in Conns
      BY <1>0, <2>1, <2>3 DEF StubTypes
    <3>2. s \in States
      BY <1>0, <3>1 DEF Unregister, States, SwitchTypes
    <3> HIDE DEF c, s
    <3>3. Now(c) \in Handed /\ Now(c).done = done /\ Now(c).calls = calls[c]
      BY <1>0, <3>1, NowType DEF Now
    <3>4. Shrinks
      BY <1>0, <3>1, <3>2, <3>3, SwitchShrinks
    <3>5. QED BY <1>a, <2>2, <3>4
  <2>4. CASE ~(c # NoConn /\ rc \in rcs[c])
    <3>1. UNCHANGED <<calls, done>>
      BY <2>1, <2>4 DEF connVars
    <3>2. QED BY <1>a, <2>2, <3>1, QuietShrinks
  <2>5. QED BY <2>3, <2>4
<1>4. QED BY <1>1, <1>2, <1>3 DEF UpdateStep

LEMMA QuietCalls ==
  ASSUME ConstantsAssumption, TypeInv, TypeInv', CallInv,
         UNCHANGED <<callerVars, reply, calls, done>>
  PROVE  CallInv' /\ Once
BY SameCallers, ShrinkKeeps, ShrinkOnce, QuietShrinks DEF CallInv

(* No call is anywhere when the process starts.                            *)
THEOREM InitCalls == ConstantsAssumption /\ Init => CallInv
<1> SUFFICES ASSUME ConstantsAssumption, Init PROVE CallInv
  OBVIOUS
<1>1. \A d \in Conns, i \in Ids, r \in Rpcs : calls[d][i] # r
  BY NoCallsEmpty DEF Init
<1>2. \A d \in Conns, r \in Rpcs : reply[d][1] # r
  BY DEF Init, ConstantsAssumption
<1>3. \A r \in Rpcs : done[r] = Pending
  BY DEF Init
<1>4. CallTable
  BY <1>1, RpcsAre DEF CallTable
<1>5. HeldOK
  BY <1>2, RpcsAre DEF HeldOK
<1>6. FreshOK
  BY <1>3, RpcsAre DEF FreshOK
<1>7. QED BY <1>4, <1>5, <1>6 DEF CallInv

(* Every step keeps CallInv and replaces no outcome.                       *)
THEOREM NextCalls ==
  ConstantsAssumption /\ TypeInv /\ TypeInv' /\ CallInv /\ [Next]_vars => CallInv' /\ Once
<1> SUFFICES ASSUME ConstantsAssumption, TypeInv, TypeInv', CallInv, [Next]_vars
             PROVE  CallInv' /\ Once
  OBVIOUS
<1>1. CASE \E k \in Callers : CallerStep(k) \/ GiveUpPicking(k) \/ GiveUpWaiting(k)
  BY <1>1, CallerCalls
<1>2. CASE \E c \in Conns : ManagerStep(c) \/ DialFails(c)
  BY <1>2, ManagerCalls
<1>3. CASE \E rc \in Stubs : UpdateEndpoints(rc) \/ UpdateStep(rc) \/ Close(rc)
  BY <1>3, UpdateCalls
<1>4. CASE \/ \E m \in wire : Serve(m)
           \/ \E n \in Nets : Break(n)
           \/ UNCHANGED vars
  <2>1. UNCHANGED <<callerVars, reply, calls, done>>
    BY <1>4 DEF Serve, Break, vars, stubVars, sharedVars, connVars, mgrVars, callerVars
  <2>2. QED BY <2>1, QuietCalls
<1>5. QED BY <1>1, <1>2, <1>3, <1>4 DEF Next, Step

(* The inductive invariant.  HeldOK and FreshOK are what CallTable lacks:  *)
(* a call that left a table is held by one reader and still pending, and a *)
(* new attempt starts without an outcome.                                  *)
THEOREM CallsInvariant == Spec => [](TypeInv /\ CallInv)
<1>1. Init => TypeInv /\ CallInv
  BY InitType, InitCalls, ConstantsAssumption
<1>2. TypeInv /\ CallInv /\ [Next]_vars => (TypeInv /\ CallInv)'
  BY NextType, NextCalls, ConstantsAssumption
<1>3. QED BY <1>1, <1>2, PTL DEF Spec

(* A calls table lists a call only while its caller can still end it and   *)
(* its done channel is open: no path closes doneSignal twice.              *)
THEOREM CallTableCorrect == Spec => []CallTable
<1>1. CallInv => CallTable
  BY DEF CallInv
<1>2. QED BY <1>1, CallsInvariant, PTL

(* A call completes once: a reply is never replaced by a connection error, *)
(* nor the other way round.                                                *)
THEOREM CompletesOnce == Spec => CompletedOnce
<1>1. TypeInv /\ TypeInv' /\ CallInv /\ [Next]_vars
        => [\A r \in Rpcs : done[r] # Pending => done'[r] = done[r]]_vars
  BY NextCalls, ConstantsAssumption DEF Once
<1>2. QED BY <1>1, CallsInvariant, PTL DEF Spec, CompletedOnce
-----------------------------------------------------------------------------
(* OwnReply.  The stub's mutex rc.mu makes c.lastID++ one step for the     *)
(* callers of one stub; nothing does for those of another.                 *)
OneCallerStub == \A k, l \in Callers : StubOf[k] = StubOf[l]

Locked == {"count", "insert", "start", "activate", "conn"}

(* Connection c, its manager or a caller of it has the net.Conn n.         *)
Refers(c, n) ==
  /\ n # NoNet
  /\ \/ net[c] = n \/ mnet[c] = n
     \/ \E k \in Callers : loc[k].conn = c /\ loc[k].net = n

(* Id i of connection c has been given to call r and to no other.          *)
Belongs(c, i, r) == i <= lastID[c] /\ calls[c][i] \in {NoRpc, r}

LockOK ==
  /\ \A k \in Callers : pc[k] \in Locked => lock[StubOf[k]] = k
  /\ \A rc \in Stubs : todo[rc] # {} => lock[rc] = Updater

CountOK == \A k \in Callers : pc[k] = "insert" => loc[k].id = lastID[loc[k].conn]

(* A net.Conn is dialled by one connection, and new when it is.            *)
NetOK ==
  /\ \A n \in Nets, c \in Conns, d \in Conns : Refers(c, n) /\ Refers(d, n) => c = d
  /\ \A n \in Nets : netState[n] = "unused" =>
       (\A c \in Conns : ~Refers(c, n)) /\ \A m \in wire : m.net # n

IssuedOK ==
  /\ \A k \in Callers : pc[k] \in InCallOnce => Belongs(loc[k].conn, loc[k].id, Rpc(k))
  /\ \A m \in wire, c \in Conns : Refers(c, m.net) => Belongs(c, m.id, m.rpc)

AnswerOK == \A c \in Conns : reply[c][1] \in Rpcs => reply[c][2] = reply[c][1]

OwnInv == LockOK /\ CountOK /\ NetOK /\ IssuedOK /\ AnswerOK /\ OwnReply
-----------------------------------------------------------------------------
(* What every section under c.mu does to the net.Conns and the outcomes.   *)
Hangs ==
  /\ \A d \in Conns : net'[d] \in {net[d], NoNet}
  /\ \A n \in Nets : netState'[n] = "unused" => netState[n] = "unused"
  /\ \A r \in Rpcs : done'[r] \in {done[r], Failed}

LEMMA SwitchHangs ==
  ASSUME SwitchTypes, NEW c \in Conns, NEW s \in States, NEW w \in Handed, w.net = net[c],
         \A n \in Nets : w.nets[n] = "unused" => netState[n] = "unused",
         \A r \in Rpcs : w.done[r] \in {done[r], Failed},
         Switch(c, s, w) \/ SetState(c, s, w)
  PROVE  Hangs
<1>1. \/ net' = [net EXCEPT ![c] = w.net] /\ netState' = w.nets /\ done' = w.done
      \/ /\ net' = [net EXCEPT ![c] = w.net] \/ net' = [net EXCEPT ![c] = NoNet]
         /\ netState' = w.nets \/ netState' = CloseNet(w.nets, w.net)
         /\ done' = w.done \/ done' = EndCalls(w.done, w.calls)
  <2>1. CASE SetState(c, s, w)
    <3>1. CASE FastSetState(c, s, w)
      BY <3>1 DEF FastSetState
    <3>2. CASE SlowSetState(c, s, w)
      BY <3>2 DEF SlowSetState
    <3>3. QED BY <2>1, <3>1, <3>2 DEF SetState
  <2>2. CASE ~SetState(c, s, w)
    BY <2>2 DEF Switch
  <2>3. QED BY <2>1, <2>2
<1>2. \A d \in Conns : net'[d] \in {net[d], NoNet}
  BY <1>1 DEF SwitchTypes
<1>3. \A n \in Nets : CloseNet(w.nets, w.net)[n] = "unused" => w.nets[n] = "unused"
  BY DEF CloseNet
<1>4. \A r \in Rpcs : EndCalls(w.done, w.calls)[r] \in {w.done[r], Failed}
  BY DEF EndCalls
<1>5. QED BY <1>1, <1>2, <1>3, <1>4 DEF Hangs

LEMMA FailHangs ==
  ASSUME SwitchTypes, NEW c \in Conns, Fail(c, Now(c))
  PROVE  Hangs
<1> DEFINE w == [Now(c) EXCEPT !.done = EndCalls(done, calls[c]), !.calls = NoCalls]
<1>1. FailTo(c) \in States
  BY DEF FailTo, SwitchTypes, States
<1>2. /\ w \in Handed /\ w.net = net[c] /\ w.nets = netState
      /\ w.done = EndCalls(done, calls[c])
  BY NowType, NoCallsType, EndCallsType DEF Handed, Now, SwitchTypes
<1>3. Switch(c, FailTo(c), w)
  BY DEF Fail, Now
<1>4. \A r \in Rpcs : EndCalls(done, calls[c])[r] \in {done[r], Failed}
  BY DEF EndCalls
<1> HIDE DEF w
<1>5. QED BY <1>1, <1>2, <1>3, <1>4, SwitchHangs

LEMMA EndCallHangs ==
  ASSUME SwitchTypes, NEW c \in Conns, NEW id \in Ids, EndCall(c, id)
  PROVE  Hangs
<1> DEFINE cs == [calls[c] EXCEPT ![id] = NoRpc]
           s  == IF cs = NoCalls THEN LastDone(c) ELSE state[c]
           w  == [Now(c) EXCEPT !.calls = cs]
<1>1. s \in States
  BY DEF LastDone, SwitchTypes, States
<1>2. cs \in Tables
  BY DEF SwitchTypes, Tables, Tokens
<1>3. w \in Handed /\ w.net = net[c] /\ w.nets = netState /\ w.done = done
  BY <1>2, NowType DEF Handed, Now
<1>4. Switch(c, s, w)
  BY DEF EndCall
<1> HIDE DEF s, w
<1>5. QED BY <1>1, <1>3, <1>4, SwitchHangs

(* A step that gives out no id.                                            *)
Thins == \A d \in Conns, i \in Ids, r \in Rpcs : Entry(d, i, r)' => Entry(d, i, r)

LEMMA ThinsIf == (Shrinks => Thins) /\ (UNCHANGED calls => Thins)
BY DEF Shrinks, Thins, Entry

LEMMA BelongsStays ==
  ASSUME TypeInv', Thins, UNCHANGED lastID, NEW c \in Conns, NEW i \in Ids, NEW r \in Rpcs,
         i <= lastID[c], calls[c][i] \in {NoRpc, r}
  PROVE  i <= lastID'[c] /\ calls'[c][i] \in {NoRpc, r}
<1>1. calls'[c][i] \in {NoRpc} \cup Rpcs
  BY DEF TypeInv, TypeOK, ConnTypes, Tables, Tokens
<1>2. \A q \in Rpcs : calls'[c][i] = q => calls[c][i] = q
  BY DEF Thins, Entry
<1>3. QED BY <1>1, <1>2

LEMMA IssuedStays ==
  ASSUME TypeInv, TypeInv', IssuedOK, Thins, UNCHANGED lastID,
         \A m \in wire' : \E o \in wire :
           /\ m.net = o.net /\ m.id = o.id /\ m.rpc = o.rpc
           /\ \A c \in Conns : Refers(c, m.net)' => Refers(c, m.net),
         \A k \in Callers : pc'[k] \in InCallOnce =>
           /\ pc[k] \in InCallOnce /\ attempt'[k] = attempt[k]
           /\ loc'[k].conn = loc[k].conn /\ loc'[k].id = loc[k].id
  PROVE  IssuedOK'
<1>1. ASSUME NEW k \in Callers, pc'[k] \in InCallOnce
      PROVE  Belongs(loc[k].conn, loc[k].id, Rpc(k))'
  <2>1. /\ pc[k] \in InCallOnce /\ attempt'[k] = attempt[k]
        /\ loc'[k].conn = loc[k].conn /\ loc'[k].id = loc[k].id
    BY <1>1
  <2>2. loc[k].conn \in Conns /\ loc[k].id \in Ids /\ Rpc(k) \in Rpcs
    BY <2>1 DEF TypeInv, TypeOK, PlaceOK, CallerTypes, InCallOnce, Rpc, Rpcs
  <2>3. loc[k].id <= lastID[loc[k].conn] /\ calls[loc[k].conn][loc[k].id] \in {NoRpc, Rpc(k)}
    BY <2>1 DEF IssuedOK, Belongs
  <2>4. QED BY <2>1, <2>2, <2>3, BelongsStays DEF Belongs, Rpc
<1>2. ASSUME NEW m \in wire', NEW c \in Conns, Refers(c, m.net)'
      PROVE  Belongs(c, m.id, m.rpc)'
  <2>1. PICK o \in wire : /\ m.net = o.net /\ m.id = o.id /\ m.rpc = o.rpc
                          /\ Refers(c, m.net)' => Refers(c, m.net)
    OBVIOUS
  <2>2. o.id \in Ids /\ o.rpc \in Rpcs /\ o.net \in Nets
    BY DEF TypeInv, TypeOK, CallerTypes, Messages
  <2>3. o.id <= lastID[c] /\ calls[c][o.id] \in {NoRpc, o.rpc}
    BY <1>2, <2>1, <2>2 DEF IssuedOK, Belongs
  <2>4. QED BY <2>1, <2>2, <2>3, BelongsStays DEF Belongs
<1>3. QED BY <1>1, <1>2 DEF IssuedOK

LEMMA RefersLess ==
  ASSUME \A d \in Conns : net'[d] \in {net[d], NoNet} /\ mnet'[d] \in {mnet[d], NoNet},
         \A k \in Callers :
           \/ loc'[k].net = NoNet
           \/ loc'[k].net = loc[k].net /\ loc'[k].conn = loc[k].conn
  PROVE  \A n \in Nets, c \in Conns : Refers(c, n)' => Refers(c, n)
BY DEF Refers

(* A step that gives out no net.Conn either.                               *)
LEMMA NothingNew ==
  ASSUME TypeInv, TypeInv', NetOK, IssuedOK, Thins, UNCHANGED lastID,
         \A n \in Nets, c \in Conns : Refers(c, n)' => Refers(c, n),
         \A n \in Nets : netState'[n] = "unused" => netState[n] = "unused",
         \A m \in wire' : \E o \in wire : m.net = o.net /\ m.id = o.id /\ m.rpc = o.rpc,
         \A k \in Callers : pc'[k] \in InCallOnce =>
           /\ pc[k] \in InCallOnce /\ attempt'[k] = attempt[k]
           /\ loc'[k].conn = loc[k].conn /\ loc'[k].id = loc[k].id
  PROVE  NetOK' /\ IssuedOK'
<1>1. NetOK'
  BY DEF NetOK
<1>2. \A m \in wire' : m.net \in Nets
  BY DEF TypeInv, TypeOK, CallerTypes, Messages
<1>3. IssuedOK'
  BY <1>2, IssuedStays
<1>4. QED BY <1>1, <1>3

(* A step that leaves the stubs' mutexes and the readers' replies alone.   *)
LEMMA RestStays ==
  ASSUME ConstantsAssumption, LockOK, CountOK, AnswerOK, OwnReply,
         UNCHANGED <<lock, todo, lastID, reply>>,
         \A r \in Rpcs : done'[r] \in {done[r], Failed},
         \A k \in Callers : pc'[k] \in Locked =>
           pc[k] \in Locked /\ (pc'[k] = "insert" => pc[k] = "insert" /\ loc'[k] = loc[k])
  PROVE  LockOK' /\ CountOK' /\ AnswerOK' /\ OwnReply'
<1>1. LockOK'
  BY DEF LockOK
<1>2. CountOK'
  BY DEF CountOK, Locked
<1>3. AnswerOK'
  BY DEF AnswerOK
<1>4. OwnReply'
  BY DEF OwnReply, ConstantsAssumption
<1>5. QED BY <1>1, <1>2, <1>3, <1>4

(* Two callers of one stub are not both inside its mutex.                  *)
LEMMA Alone ==
  ASSUME OneCallerStub, LockOK, NEW k \in Callers, NEW l \in Callers, pc[k] \in Locked, pc[l] \in Locked
  PROVE  k = l
BY DEF OneCallerStub, LockOK

LEMMA InsertOwn ==
  ASSUME OneCallerStub, ConstantsAssumption, TypeInv, OwnInv, NEW k \in Callers, Insert(k)
  PROVE  OwnInv'
<1>0. /\ LockOK /\ CountOK /\ NetOK /\ IssuedOK /\ AnswerOK /\ OwnReply
      /\ calls \in [Conns -> Tables] /\ lastID \in [Conns -> Nat] /\ loc \in [Callers -> Locs]
      /\ pc \in [Callers -> CallerPCs]
  BY DEF OwnInv, TypeInv, TypeOK, ConnTypes, CallerTypes
<1>1. PICK c \in Conns, i \in Ids :
        /\ loc[k].conn = c /\ i = lastID[c] + 1 /\ pc[k] = "insert"
        /\ loc' = [loc EXCEPT ![k].id = i] /\ lastID' = [lastID EXCEPT ![c] = i]
        /\ calls' = [calls EXCEPT ![c][i] = Rpc(k)] /\ pc' = [pc EXCEPT ![k] = "start"]
  <2>1. pc[k] = "insert" /\ loc[k].conn \in Conns
    BY DEF Insert, TypeInv, PlaceOK
  <2>2. QED BY <1>0, <2>1 DEF Insert, CountOK, Goto
<1>2. UNCHANGED <<lock, todo, net, mnet, reply, attempt, done, netState, wire>>
  BY DEF Insert, stubVars, mgrVars
<1>3. \A l \in Callers : l # k => pc[l] \notin Locked /\ pc'[l] = pc[l] /\ loc'[l] = loc[l]
  BY <1>0, <1>1, Alone DEF Locked
<1>4. /\ pc'[k] = "start" /\ loc'[k].id = i /\ loc'[k].conn = c /\ loc'[k].net = loc[k].net
  BY <1>0, <1>1 DEF Locs
<1>5. LockOK'
  BY <1>0, <1>1, <1>2, <1>3 DEF LockOK, Locked
<1>6. CountOK'
  BY <1>3, <1>4 DEF CountOK, Locked
<1>7. \A n \in Nets, d \in Conns : Refers(d, n)' <=> Refers(d, n)
  <2>1. \A l \in Callers : loc'[l].conn = loc[l].conn /\ loc'[l].net = loc[l].net
    BY <1>1, <1>3, <1>4
  <2>2. QED BY <1>2, <2>1 DEF Refers
<1>8. NetOK'
  BY <1>0, <1>2, <1>7 DEF NetOK
<1>9. ASSUME NEW d \in Conns, NEW j \in Ids, NEW r, Belongs(d, j, r)
      PROVE  j <= lastID'[d] /\ calls'[d][j] \in {NoRpc, r}
  <2>1. lastID'[d] \in Int /\ lastID[d] \in Int /\ lastID'[d] >= lastID[d]
    BY <1>0, <1>1
  <2>2. d # c \/ j # i
    BY <1>0, <1>1, <1>9 DEF Belongs
  <2>3. calls'[d][j] = calls[d][j]
    BY <1>0, <1>1, <2>2 DEF Tables
  <2>4. QED BY <1>9, <2>1, <2>3 DEF Belongs, Ids
<1>10. IssuedOK'
  <2>1. ASSUME NEW l \in Callers, pc'[l] \in InCallOnce
        PROVE  Belongs(loc[l].conn, loc[l].id, Rpc(l))'
    <3>1. CASE l = k
      <4>1. lastID'[c] = i /\ calls'[c][i] = Rpc(k)
        BY <1>0, <1>1 DEF Tables
      <4>2. i <= i /\ Rpc(k)' = Rpc(k)
        BY <1>2 DEF Ids, Rpc
      <4>3. loc'[l].conn = c /\ loc'[l].id = i /\ Rpc(l)' = Rpc(k)
        BY <1>4, <3>1, <4>2
      <4>4. QED BY <4>1, <4>2, <4>3 DEF Belongs
    <3>2. CASE l # k
      <4>1. pc[l] \in InCallOnce /\ loc'[l] = loc[l]
        BY <1>3, <2>1, <3>2
      <4>2. loc[l].conn \in Conns /\ loc[l].id \in Ids
        BY <4>1 DEF TypeInv, PlaceOK, InCallOnce
      <4>3. Belongs(loc[l].conn, loc[l].id, Rpc(l))
        BY <1>0, <4>1 DEF IssuedOK
      <4>4. QED BY <1>2, <1>9, <4>1, <4>2, <4>3 DEF Belongs, Rpc
    <3>3. QED BY <3>1, <3>2
  <2>2. ASSUME NEW m \in wire', NEW d \in Conns, Refers(d, m.net)'
        PROVE  Belongs(d, m.id, m.rpc)'
    <3>1. m \in wire /\ m.id \in Ids /\ m.net \in Nets
      BY <1>2 DEF TypeInv, TypeOK, CallerTypes, Messages
    <3>2. Belongs(d, m.id, m.rpc)
      BY <1>0, <1>7, <2>2, <3>1 DEF IssuedOK
    <3>3. QED BY <1>9, <3>1, <3>2 DEF Belongs
  <2>3. QED BY <2>1, <2>2 DEF IssuedOK
<1>11. AnswerOK' /\ OwnReply'
  BY <1>0, <1>2 DEF AnswerOK, OwnReply
<1>12. QED BY <1>5, <1>6, <1>8, <1>10, <1>11 DEF OwnInv

LEMMA CallerOwn ==
  ASSUME OneCallerStub, ConstantsAssumption, TypeInv, TypeInv', CallInv, OwnInv,
         NEW k \in Callers, CallerStep(k) \/ GiveUpPicking(k) \/ GiveUpWaiting(k)
  PROVE  OwnInv'
<1>0. /\ LockOK /\ CountOK /\ NetOK /\ IssuedOK /\ AnswerOK /\ OwnReply /\ SwitchTypes /\ CallTable
      /\ PlaceOK /\ loc \in [Callers -> Locs] /\ pc \in [Callers -> CallerPCs]
      /\ lock \in [Stubs -> Callers \cup {Free, Updater}] /\ StubOf[k] \in Stubs
  BY TypesSplit DEF OwnInv, CallInv, TypeInv, TypeOK, CallerTypes, StubTypes, ConstantsAssumption
<1>a. \A o \in wire : o.net = o.net /\ o.id = o.id /\ o.rpc = o.rpc
  OBVIOUS
<1>1. CASE Pick(k)
  <2>1. PICK c \in Conns :
          loc' = [loc EXCEPT ![k] = [conn |-> c, id |-> 0, net |-> NoNet]]
    BY <1>1 DEF Pick
  <2>2. /\ pc' = [pc EXCEPT ![k] = "count"] /\ lock[StubOf[k]] = Free
        /\ lock' = [lock EXCEPT ![StubOf[k]] = k]
        /\ UNCHANGED <<todo, net, mnet, calls, lastID, reply, done, netState, wire, attempt>>
    BY <1>1 DEF Pick, Goto, sharedVars, connVars, mgrVars
  <2>3. \A l \in Callers : loc'[l] = loc[l] \/ (l = k /\ loc'[l].net = NoNet)
    <3>1. loc'[k] = [conn |-> c, id |-> 0, net |-> NoNet]
      BY <1>0, <2>1
    <3>2. loc'[k].net = NoNet
      BY <3>1
    <3>3. \A l \in Callers : l # k => loc'[l] = loc[l]
      BY <1>0, <2>1
    <3>4. QED BY <3>2, <3>3
  <2>4. \A n \in Nets, d \in Conns : Refers(d, n)' => Refers(d, n)
    BY <2>2, <2>3, RefersLess
  <2>5. \A l \in Callers : pc'[l] \in InCallOnce => pc[l] \in InCallOnce /\ loc'[l] = loc[l]
    <3>1. \A l \in Callers : l # k => loc'[l] = loc[l] /\ pc'[l] = pc[l]
      BY <1>0, <2>1, <2>2
    <3>2. pc'[k] \notin InCallOnce
      BY <1>0, <2>2 DEF InCallOnce
    <3>3. QED BY <3>1, <3>2
  <2>6. NetOK' /\ IssuedOK'
    BY <1>0, <1>a, <2>2, <2>4, <2>5, ThinsIf, NothingNew
  <2>7. LockOK'
    <3>1. \A l \in Callers : pc[l] \in Locked => StubOf[l] # StubOf[k]
      BY <1>0, <2>2 DEF LockOK, ConstantsAssumption
    <3>2. todo[StubOf[k]] = {}
      BY <1>0, <2>2 DEF LockOK, ConstantsAssumption
    <3>3. QED BY <1>0, <2>2, <3>1, <3>2 DEF LockOK, ConstantsAssumption
  <2>8. CountOK'
    BY <1>0, <2>2, <2>3 DEF CountOK
  <2>9. AnswerOK' /\ OwnReply'
    BY <1>0, <2>2 DEF AnswerOK, OwnReply
  <2>10. QED BY <2>6, <2>7, <2>8, <2>9 DEF OwnInv
<1>2. CASE PickOnClosed(k) \/ GiveUpPicking(k) \/ Receive(k) \/ CallStart(k) \/ WriteCancel(k) \/ WriteNil(k)
  <2>1. UNCHANGED <<lock, todo, net, mnet, calls, lastID, reply, done, netState, wire, loc, attempt>>
    BY <1>2 DEF PickOnClosed, GiveUpPicking, Receive, CallStart, WriteCancel, WriteNil, Return, stubVars,
       sharedVars, connVars, mgrVars, callerVars
  <2>2. \A l \in Callers :
          \/ pc'[l] = pc[l]
          \/ pc'[l] \in {"returned", "shutdown2"}
          \/ pc[l] = "start" /\ pc'[l] \in {"activate", "conn"}
    BY <1>0, <1>2 DEF PickOnClosed, GiveUpPicking, Receive, CallStart, WriteCancel, WriteNil, Return, Goto,
       callerVars
  <2>3. \A n \in Nets, d \in Conns : Refers(d, n)' => Refers(d, n)
    BY <2>1, RefersLess
  <2>4. \A l \in Callers : pc'[l] \in InCallOnce => pc[l] \in InCallOnce
    BY <2>2 DEF InCallOnce
  <2>5. NetOK' /\ IssuedOK'
    BY <1>0, <1>a, <2>1, <2>3, <2>4, ThinsIf, NothingNew
  <2>6. \A l \in Callers : pc'[l] \in Locked => pc[l] \in Locked /\ (pc'[l] = "insert" => pc[l] = "insert")
    BY <2>2 DEF Locked
  <2>7. QED BY <1>0, <2>1, <2>5, <2>6, RestStays DEF OwnInv
<1>3. CASE LoadID(k)
  <2>1. /\ pc[k] = "count" /\ pc' = [pc EXCEPT ![k] = "insert"]
        /\ loc' = [loc EXCEPT ![k].id = lastID[loc[k].conn]]
        /\ UNCHANGED <<lock, todo, net, mnet, calls, lastID, reply, done, netState, wire, attempt>>
    BY <1>3 DEF LoadID, Goto, stubVars, sharedVars, connVars, mgrVars
  <2>2. /\ \A l \in Callers : l # k => loc'[l] = loc[l] /\ pc'[l] = pc[l]
        /\ loc'[k].conn = loc[k].conn /\ loc'[k].net = loc[k].net /\ loc'[k].id = lastID[loc[k].conn]
        /\ pc'[k] = "insert"
    BY <1>0, <2>1 DEF Locs
  <2>3. \A n \in Nets, d \in Conns : Refers(d, n)' => Refers(d, n)
    BY <2>1, <2>2, RefersLess
  <2>4. \A l \in Callers : pc'[l] \in InCallOnce => l # k
    BY <2>2 DEF InCallOnce
  <2>5. NetOK' /\ IssuedOK'
    BY <1>0, <1>a, <2>1, <2>2, <2>3, <2>4, ThinsIf, NothingNew
  <2>6. LockOK'
    BY <1>0, <2>1, <2>2 DEF LockOK, Locked
  <2>7. CountOK'
    BY <1>0, <2>1, <2>2 DEF CountOK
  <2>8. AnswerOK' /\ OwnReply'
    BY <1>0, <2>1 DEF AnswerOK, OwnReply
  <2>9. QED BY <2>5, <2>6, <2>7, <2>8 DEF OwnInv
<1>4. CASE Insert(k)
  BY <1>4, InsertOwn
<1>5. CASE TakeConn(k)
  <2>1. /\ pc[k] = "conn" /\ pc' = [pc EXCEPT ![k] = "write"]
        /\ loc' = [loc EXCEPT ![k].net = net[loc[k].conn]]
        /\ lock' = [lock EXCEPT ![StubOf[k]] = Free]
        /\ UNCHANGED <<todo, net, mnet, calls, lastID, reply, done, netState, wire, attempt>>
    BY <1>5 DEF TakeConn, Goto, sharedVars, connVars, mgrVars
  <2>2. /\ \A l \in Callers : l # k => loc'[l] = loc[l] /\ pc'[l] = pc[l]
        /\ loc'[k].conn = loc[k].conn /\ loc'[k].net = net[loc[k].conn] /\ loc'[k].id = loc[k].id
        /\ pc'[k] = "write"
    BY <1>0, <2>1 DEF Locs
  <2>3. \A n \in Nets, d \in Conns : Refers(d, n)' => Refers(d, n)
    BY <2>1, <2>2 DEF Refers
  <2>4. \A l \in Callers : pc'[l] \in InCallOnce =>
          pc[l] \in InCallOnce /\ loc'[l].conn = loc[l].conn /\ loc'[l].id = loc[l].id
    BY <2>1, <2>2 DEF InCallOnce
  <2>5. NetOK' /\ IssuedOK'
    BY <1>0, <1>a, <2>1, <2>3, <2>4, ThinsIf, NothingNew
  <2>6. LockOK'
    <3>1. lock[StubOf[k]] = k
      BY <1>0, <2>1 DEF LockOK, Locked
    <3>2. todo[StubOf[k]] = {}
      BY <1>0, <3>1 DEF LockOK, ConstantsAssumption
    <3>3. \A l \in Callers : pc'[l] \in Locked => StubOf[l] # StubOf[k]
      BY <1>0, <2>2, <3>1 DEF LockOK, Locked
    <3>4. QED BY <1>0, <2>1, <2>2, <3>2, <3>3 DEF LockOK, Locked
  <2>7. CountOK'
    BY <1>0, <2>1, <2>2 DEF CountOK
  <2>8. AnswerOK' /\ OwnReply'
    BY <1>0, <2>1 DEF AnswerOK, OwnReply
  <2>9. QED BY <2>5, <2>6, <2>7, <2>8 DEF OwnInv
<1>6. CASE Write(k)
  <2> DEFINE m == [kind |-> "request", net |-> loc[k].net, id |-> loc[k].id, rpc |-> Rpc(k)]
  <2>1. /\ pc[k] = "write" /\ loc[k].net # NoNet
        /\ \/ wire' = wire \cup {m} /\ netState[loc[k].net] = "open" /\ pc' = [pc EXCEPT ![k] = "wait"]
           \/ wire' = wire /\ pc' = [pc EXCEPT ![k] = "shutdown"]
        /\ UNCHANGED <<lock, todo, net, mnet, calls, lastID, reply, done, netState, loc, attempt>>
    BY <1>6 DEF Write, Goto, stubVars, connVars, mgrVars
  <2>2. \A n \in Nets, d \in Conns : Refers(d, n)' <=> Refers(d, n)
    BY <2>1 DEF Refers
  <2>3. \A l \in Callers : pc'[l] \in InCallOnce => pc[l] \in InCallOnce
    BY <1>0, <2>1 DEF InCallOnce
  <2>4. CASE wire' = wire
    <3>1. NetOK' /\ IssuedOK'
      BY <1>0, <1>a, <2>1, <2>2, <2>3, <2>4, ThinsIf, NothingNew
    <3>2. \A l \in Callers : pc'[l] \in Locked => pc'[l] = pc[l]
      BY <1>0, <2>1 DEF Locked
    <3>3. QED BY <1>0, <2>1, <3>1, <3>2, RestStays DEF OwnInv
  <2>5. CASE wire' = wire \cup {m} /\ netState[loc[k].net] = "open"
    <3>1. m.net = loc[k].net /\ m.id = loc[k].id /\ m.rpc = Rpc(k) /\ m.net \in Nets /\ loc[k].conn \in Conns
      BY <1>0, <2>1 DEF Locs, PlaceOK
    <3> HIDE DEF m
    <3>2. NetOK'
      BY <1>0, <2>1, <2>2, <2>5, <3>1 DEF NetOK
    <3>3. ASSUME NEW d \in Conns, Refers(d, m.net) PROVE Belongs(d, m.id, m.rpc)
      <4>1. Refers(loc[k].conn, m.net)
        BY <2>1, <3>1 DEF Refers
      <4>2. d = loc[k].conn
        BY <1>0, <3>1, <3>3, <4>1 DEF NetOK
      <4>3. QED BY <1>0, <2>1, <3>1, <4>2 DEF IssuedOK, InCallOnce
    <3>4. \A o \in wire' : o.net \in Nets
      BY DEF TypeInv, TypeOK, CallerTypes, Messages
    <3>5. \A d \in Conns, o \in wire' : Refers(d, o.net)' => Belongs(d, o.id, o.rpc)
      BY <1>0, <2>2, <2>5, <3>3, <3>4 DEF IssuedOK
    <3>6. \A l \in Callers : pc'[l] \in InCallOnce => Belongs(loc[l].conn, loc[l].id, Rpc(l))
      BY <1>0, <2>3 DEF IssuedOK
    <3>7. IssuedOK'
      BY <2>1, <3>5, <3>6 DEF IssuedOK, Belongs, Rpc
    <3>8. \A l \in Callers : pc'[l] \in Locked => pc'[l] = pc[l]
      BY <1>0, <2>1 DEF Locked
    <3>9. QED BY <1>0, <2>1, <3>2, <3>7, <3>8, RestStays DEF OwnInv
  <2>6. QED BY <2>1, <2>4, <2>5
<1>7. CASE Activate(k) \/ Shutdown(k) \/ DropCall(k) \/ GiveUpWaiting(k)
  <2>1. loc[k].conn \in Conns /\ loc[k].id \in Ids
    BY <1>0, <1>7 DEF Activate, Shutdown, DropCall, GiveUpWaiting, PlaceOK
  <2>2. Hangs /\ Shrinks
    <3>1. CASE Activate(k)
      <4>1. Now(loc[k].conn) \in Handed
        BY <1>0, <2>1, NowType
      <4>2. QED BY <1>0, <2>1, <3>1, <4>1, SwitchHangs, SwitchShrinks DEF Activate, Now, States
    <3>2. CASE Shutdown(k)
      BY <1>0, <2>1, <3>2, FailHangs, FailShrinks DEF Shutdown
    <3>3. CASE DropCall(k) \/ GiveUpWaiting(k)
      BY <1>0, <2>1, <3>3, EndCallHangs, EndCallShrinks DEF DropCall, GiveUpWaiting
    <3>4. QED BY <1>7, <3>1, <3>2, <3>3
  <2>3. UNCHANGED <<lock, todo, mnet, lastID, reply, loc, wire>>
    BY <1>7 DEF Activate, Shutdown, DropCall, GiveUpWaiting, stubVars, mgrVars
  <2>4. \A l \in Callers :
          \/ pc'[l] = pc[l] /\ attempt'[l] = attempt[l]
          \/ pc'[l] \in {"returned", "pick", "cancel"}
          \/ pc[l] = "activate" /\ pc'[l] = "conn" /\ attempt'[l] = attempt[l]
          \/ pc[l] = "shutdown" /\ pc'[l] = "drop" /\ attempt'[l] = attempt[l]
    <3>0. attempt \in [Callers -> 1..MaxAttempts]
      BY DEF TypeInv, TypeOK, CallerTypes
    <3>1. CASE Activate(k) \/ Shutdown(k)
      BY <1>0, <3>0, <3>1 DEF Activate, Shutdown, Return, Goto
    <3>2. CASE DropCall(k)
      BY <1>0, <3>0, <3>2 DEF DropCall, RetryOrReturn, Return, Goto
    <3>3. CASE GiveUpWaiting(k)
      BY <1>0, <3>0, <3>3 DEF GiveUpWaiting, Return, Goto
    <3>4. QED BY <1>7, <3>1, <3>2, <3>3
  <2>5. \A n \in Nets, d \in Conns : Refers(d, n)' => Refers(d, n)
    BY <2>2, <2>3, RefersLess DEF Hangs
  <2>6. \A l \in Callers : pc'[l] \in InCallOnce => pc[l] \in InCallOnce /\ attempt'[l] = attempt[l]
    BY <2>4 DEF InCallOnce
  <2>7. NetOK' /\ IssuedOK'
    BY <1>0, <1>a, <2>2, <2>3, <2>5, <2>6, ThinsIf, NothingNew DEF Hangs
  <2>8. \A l \in Callers : pc'[l] \in Locked => pc[l] \in Locked /\ (pc'[l] = "insert" => pc[l] = "insert")
    BY <2>4 DEF Locked
  <2>9. QED BY <1>0, <2>2, <2>3, <2>7, <2>8, RestStays DEF OwnInv, Hangs
<1>8. QED BY <1>1, <1>2, <1>3, <1>4, <1>5, <1>6, <1>7 DEF CallerStep

LEMMA ManagerOwn ==
  ASSUME ConstantsAssumption, TypeInv, TypeInv', CallInv, OwnInv, NEW c \in Conns,
         ManagerStep(c) \/ DialFails(c)
  PROVE  OwnInv'
<1>0. /\ LockOK /\ CountOK /\ NetOK /\ IssuedOK /\ AnswerOK /\ OwnReply /\ SwitchTypes /\ CallTable
      /\ PlaceOK /\ mnet \in [Conns -> Nets \cup {NoNet}] /\ reply \in [Conns -> Tokens \X Tokens]
      /\ Now(c) \in Handed /\ Now(c).done = done /\ Now(c).calls = calls[c] /\ Now(c).nets = netState
      /\ Now(c).net = net[c]
  BY TypesSplit, NowType DEF OwnInv, CallInv, TypeInv, TypeOK, ManagerTypes, Now
<1>1. /\ UNCHANGED <<lock, todo, lastID, pc, loc, attempt>>
  BY DEF ManagerStep, Continue, DialFails, HandshakeFails, Dialled, Handshaken, ReadReply, Deliver, Loop,
     ReadFails, stubVars, sharedVars, callerVars
<1>2. \A m \in wire' : m \in wire
  BY DEF ManagerStep, Continue, DialFails, HandshakeFails, Dialled, Handshaken, ReadReply, Deliver, Loop,
     ReadFails, sharedVars
<1>a. ASSUME Thins, \A d \in Conns : net'[d] \in {net[d], NoNet} /\ mnet'[d] \in {mnet[d], NoNet},
             \A n \in Nets : netState'[n] = "unused" => netState[n] = "unused"
      PROVE  NetOK' /\ IssuedOK'
  <2>1. \A n \in Nets, d \in Conns : Refers(d, n)' => Refers(d, n)
    BY <1>1, <1>a, RefersLess
  <2>2. QED BY <1>0, <1>1, <1>2, <1>a, <2>1, NothingNew
<1>b. ASSUME \A r \in Rpcs : done'[r] \in {done[r], Failed}, UNCHANGED reply
      PROVE  LockOK' /\ CountOK' /\ AnswerOK' /\ OwnReply'
  BY <1>0, <1>1, <1>b, RestStays
<1>c. ASSUME NEW l, NEW n \in {mnet[c], NoNet}, Manager(c, l, n)
      PROVE  \A d \in Conns : mnet'[d] \in {mnet[d], NoNet}
  BY <1>0, <1>c DEF Manager
<1>3. CASE Continue(c) \/ DialFails(c) \/ HandshakeFails(c) \/ Loop(c)
  <2>1. UNCHANGED <<net, calls, done, reply>> /\ \A d \in Conns : mnet'[d] \in {mnet[d], NoNet}
    BY <1>3, <1>c DEF Continue, DialFails, HandshakeFails, Loop, sharedVars, connVars
  <2>2. \A n \in Nets : netState'[n] = "unused" => netState[n] = "unused"
    BY <1>3 DEF Continue, DialFails, HandshakeFails, Loop, sharedVars, CloseNet
  <2>3. QED BY <1>a, <1>b, <2>1, <2>2, ThinsIf DEF OwnInv
<1>4. CASE Dialled(c)
  <2>1. PICK n \in Nets :
          /\ netState[n] = "unused" /\ Manager(c, "handshake", n)
          /\ Switch(c, Connected(c), [Now(c) EXCEPT !.net = n, !.nets = [@ EXCEPT ![n] = "open"]])
    BY <1>4 DEF Dialled
  <2> DEFINE w == [Now(c) EXCEPT !.net = n, !.nets = [@ EXCEPT ![n] = "open"]]
  <2>2. /\ w \in Handed /\ w.done = done /\ w.calls = calls[c] /\ w.net = n
        /\ w.nets = [netState EXCEPT ![n] = "open"]
    BY <1>0 DEF Handed, NetStates
  <2>3. Connected(c) \in States /\ Switch(c, Connected(c), w)
    BY <1>0, <2>1 DEF Connected, States, SwitchTypes
  <2> HIDE DEF w
  <2>4. Shrinks
    BY <1>0, <2>2, <2>3, SwitchShrinks
  <2>5. \/ net' = [net EXCEPT ![c] = n] /\ netState' = w.nets /\ done' = done
        \/ /\ net' = [net EXCEPT ![c] = n] \/ net' = [net EXCEPT ![c] = NoNet]
           /\ netState' = w.nets \/ netState' = CloseNet(w.nets, n)
           /\ done' = done \/ done' = EndCalls(done, w.calls)
    BY <2>2, <2>3 DEF Switch, SetState, FastSetState, SlowSetState
  <2>6. \A m \in Nets : netState'[m] = "unused" => m # n /\ netState[m] = "unused"
    <3>1. \A m \in Nets : w.nets[m] = "unused" => m # n /\ netState[m] = "unused"
      BY <1>0, <2>2 DEF SwitchTypes, NetStates
    <3>2. QED BY <2>5, <3>1 DEF CloseNet
  <2>7. \A d \in Conns : net'[d] \in {net[d], NoNet} \/ (d = c /\ net'[d] = n)
    BY <1>0, <2>5 DEF SwitchTypes
  <2>8. \A d \in Conns : mnet'[d] = mnet[d] \/ (d = c /\ mnet'[d] = n)
    BY <1>0, <2>1 DEF Manager
  <2>9. \A m \in Nets, d \in Conns : Refers(d, m)' => Refers(d, m) \/ (d = c /\ m = n)
    BY <1>1, <2>7, <2>8 DEF Refers
  <2>10. (\A d \in Conns : ~Refers(d, n)) /\ \A m \in wire : m.net # n
    BY <1>0, <2>1 DEF NetOK
  <2>11. NetOK'
    BY <1>0, <1>2, <2>6, <2>9, <2>10 DEF NetOK
  <2>12. \A m \in wire' : m.net \in Nets
    BY DEF TypeInv, TypeOK, CallerTypes, Messages
  <2>13. IssuedOK'
    BY <1>0, <1>1, <1>2, <2>4, <2>9, <2>10, <2>12, ThinsIf, IssuedStays
  <2>14. \A r \in Rpcs : done'[r] \in {done[r], Failed}
    BY <2>5 DEF EndCalls
  <2>15. UNCHANGED reply
    BY <1>4 DEF Dialled
  <2>16. QED BY <1>b, <2>11, <2>13, <2>14, <2>15 DEF OwnInv
<1>5. CASE Handshaken(c)
  <2> DEFINE w == [Now(c) EXCEPT !.nets = CloseNet(@, mnet[c])]
  <2>1. Switch(c, Checked(c), Now(c)) \/ Switch(c, Checked(c), w)
    BY <1>5 DEF Handshaken
  <2>2. /\ w \in Handed /\ w.done = done /\ w.calls = calls[c] /\ w.net = net[c]
        /\ w.nets = CloseNet(netState, mnet[c])
    BY <1>0, CloseNetType DEF Handed
  <2>3. Checked(c) \in States
    BY <1>0 DEF Checked, States, SwitchTypes
  <2>4. \A n \in Nets : CloseNet(netState, mnet[c])[n] = "unused" => netState[n] = "unused"
    BY DEF CloseNet
  <2> HIDE DEF w
  <2>5. Shrinks
    BY <1>0, <2>1, <2>2, <2>3, SwitchShrinks
  <2>6. Hangs
    BY <1>0, <2>1, <2>2, <2>3, <2>4, SwitchHangs
  <2>7. UNCHANGED reply /\ \A d \in Conns : mnet'[d] \in {mnet[d], NoNet}
    BY <1>5, <1>c DEF Handshaken
  <2>8. QED BY <1>a, <1>b, <2>5, <2>6, <2>7, ThinsIf DEF Hangs, OwnInv
<1>6. CASE ReadReply(c)
  <2>1. PICK m \in wire :
          /\ mpc[c] = "read" /\ m.net = mnet[c]
          /\ LET r == calls[c][m.id] IN
             IF r = NoRpc
             THEN UNCHANGED <<connVars, done, netState, panicked, reply>> /\ Manager(c, "loop", mnet[c])
             ELSE EndCall(c, m.id) /\ reply' = [reply EXCEPT ![c] = <<r, m.rpc>>] /\ Manager(c, "deliver", mnet[c])
    BY <1>6 DEF ReadReply
  <2>2. m.id \in Ids /\ m.net \in Nets /\ m.rpc \in Rpcs
    BY DEF TypeInv, TypeOK, CallerTypes, Messages
  <2>3. \A d \in Conns : mnet'[d] \in {mnet[d], NoNet}
    BY <2>1, <1>c
  <2>4. CASE calls[c][m.id] = NoRpc
    <3>1. UNCHANGED <<net, calls, done, netState, reply>>
      BY <2>1, <2>4 DEF connVars
    <3>2. QED BY <1>a, <1>b, <2>3, <3>1, ThinsIf DEF OwnInv
  <2>5. CASE calls[c][m.id] # NoRpc
    <3>1. EndCall(c, m.id) /\ reply' = [reply EXCEPT ![c] = <<calls[c][m.id], m.rpc>>]
      BY <2>1, <2>5
    <3>2. Shrinks /\ Hangs
      BY <1>0, <2>2, <3>1, EndCallShrinks, EndCallHangs
    <3>3. NetOK' /\ IssuedOK'
      BY <1>a, <2>3, <3>2, ThinsIf DEF Hangs
    <3>4. Refers(c, m.net)
      BY <2>1, <2>2 DEF Refers, Nets, NoNet
    <3>5. calls[c][m.id] = m.rpc
      BY <1>0, <2>5, <3>4 DEF IssuedOK, Belongs
    <3>6. AnswerOK'
      BY <1>0, <3>1, <3>5 DEF AnswerOK
    <3>7. LockOK' /\ CountOK'
      BY <1>0, <1>1 DEF LockOK, CountOK
    <3>8. OwnReply'
      BY <1>0, <3>2 DEF OwnReply, Hangs, ConstantsAssumption
    <3>9. QED BY <3>3, <3>6, <3>7, <3>8 DEF OwnInv
  <2>6. QED BY <2>4, <2>5
<1>7. CASE Deliver(c)
  <2>1. /\ mpc[c] = "deliver" /\ done' = [done EXCEPT ![reply[c][1]] = reply[c][2]]
        /\ reply' = [reply EXCEPT ![c] = <<NoRpc, NoRpc>>]
        /\ Manager(c, "loop", mnet[c]) /\ UNCHANGED <<net, calls, netState>>
    BY <1>7 DEF Deliver, connVars
  <2>2. NetOK' /\ IssuedOK'
    BY <1>a, <1>c, <2>1, ThinsIf
  <2>3. reply[c][1] \in Rpcs /\ reply[c][2] = reply[c][1]
    BY <1>0, <2>1 DEF PlaceOK, AnswerOK
  <2>4. \A r \in Rpcs : done'[r] = done[r] \/ done'[r] = r
    BY <1>0, <2>1, <2>3 DEF SwitchTypes, Outcomes
  <2>5. OwnReply'
    BY <1>0, <2>4 DEF OwnReply
  <2>6. AnswerOK'
    BY <1>0, <2>1 DEF AnswerOK, ConstantsAssumption
  <2>7. LockOK' /\ CountOK'
    BY <1>0, <1>1 DEF LockOK, CountOK
  <2>8. QED BY <2>2, <2>5, <2>6, <2>7 DEF OwnInv
<1>8. CASE ReadFails(c)
  <2>1. Fail(c, Now(c)) /\ UNCHANGED reply /\ Manager(c, "retry", NoNet)
    BY <1>8 DEF ReadFails
  <2>2. Shrinks /\ Hangs
    BY <1>0, <2>1, FailShrinks, FailHangs
  <2>3. QED BY <1>a, <1>b, <1>c, <2>1, <2>2, ThinsIf DEF Hangs, OwnInv
<1>9. QED BY <1>3, <1>4, <1>5, <1>6, <1>7, <1>8 DEF ManagerStep

LEMMA UpdateOwn ==
  ASSUME ConstantsAssumption, TypeInv, TypeInv', CallInv, OwnInv, NEW rc \in Stubs,
         UpdateEndpoints(rc) \/ UpdateStep(rc) \/ Close(rc)
  PROVE  OwnInv'
<1>0. /\ LockOK /\ CountOK /\ NetOK /\ IssuedOK /\ AnswerOK /\ OwnReply /\ SwitchTypes /\ CallTable
      /\ lock \in [Stubs -> Callers \cup {Free, Updater}] /\ todo \in [Stubs -> SUBSET Addrs]
  BY TypesSplit DEF OwnInv, CallInv, TypeInv, TypeOK, StubTypes
<1>1. UNCHANGED <<lastID, pc, loc, attempt, mnet, reply, wire>>
  BY DEF UpdateEndpoints, UpdateStep, KeepEndpoint, Lookup, Register, DropEndpoint, Close, stubVars,
     sharedVars, mgrVars, callerVars
<1>2. ASSUME Thins, Hangs PROVE NetOK' /\ IssuedOK'
  <2>1. \A n \in Nets, d \in Conns : Refers(d, n)' => Refers(d, n)
    BY <1>1, <1>2, RefersLess DEF Hangs
  <2>2. QED BY <1>0, <1>1, <1>2, <2>1, NothingNew DEF Hangs
<1>3. ASSUME Hangs PROVE CountOK' /\ AnswerOK' /\ OwnReply'
  BY <1>0, <1>1, <1>3 DEF CountOK, AnswerOK, OwnReply, Hangs, ConstantsAssumption
<1>4. Thins /\ Hangs
  <2>1. CASE UpdateEndpoints(rc) \/ KeepEndpoint(rc) \/ Lookup(rc) \/ Close(rc) \/ Register(rc)
    <3>1. UNCHANGED <<net, calls, done, netState>>
      BY <2>1 DEF UpdateEndpoints, KeepEndpoint, Lookup, Close, Register, RegisterExisting, RegisterNew,
         sharedVars, connVars
    <3>2. QED BY <3>1, ThinsIf DEF Hangs
  <2>2. CASE DropEndpoint(rc)
    <3>1. PICK a \in Addrs :
            LET c == conns[rc][a] IN
            IF c # NoConn /\ rc \in rcs[c]
            THEN Switch(c, IF rcs[c] = {rc} THEN Unregister(c) ELSE state[c], Now(c))
            ELSE UNCHANGED <<rcs, connVars, done, netState, panicked>>
      BY <1>0, <2>2 DEF DropEndpoint
    <3> DEFINE c == conns[rc][a]
               s == IF rcs[c] = {rc} THEN Unregister(c) ELSE state[c]
    <3>2. CASE c # NoConn /\ rc \in rcs[c]
      <4>1. Switch(c, s, Now(c)) /\ c \in Conns
        BY <1>0, <3>1, <3>2 DEF SwitchTypes
      <4>2. s \in States
        BY <1>0, <4>1 DEF Unregister, States, SwitchTypes
      <4> HIDE DEF c, s
      <4>3. /\ Now(c) \in Handed /\ Now(c).done = done /\ Now(c).calls = calls[c]
            /\ Now(c).net = net[c] /\ Now(c).nets = netState
        BY <1>0, <4>1, NowType DEF Now
      <4>4. Shrinks /\ Hangs
        BY <1>0, <4>1, <4>2, <4>3, SwitchShrinks, SwitchHangs
      <4>5. QED BY <4>4, ThinsIf
    <3>3. CASE ~(c # NoConn /\ rc \in rcs[c])
      <4>1. UNCHANGED <<net, calls, done, netState>>
        BY <3>1, <3>3 DEF connVars
      <4>2. QED BY <4>1, ThinsIf DEF Hangs
    <3>4. QED BY <3>2, <3>3
  <2>3. QED BY <2>1, <2>2 DEF UpdateStep
<1>5. LockOK'
  <2>1. CASE UpdateEndpoints(rc)
    <3>1. \A l \in Callers : pc[l] \in Locked => StubOf[l] # rc
      BY <1>0, <2>1 DEF UpdateEndpoints, LockOK, ConstantsAssumption
    <3>2. lock' = [lock EXCEPT ![rc] = Updater] /\ todo' = [todo EXCEPT ![rc] = Addrs]
      BY <2>1 DEF UpdateEndpoints
    <3>3. QED BY <1>0, <1>1, <3>1, <3>2 DEF LockOK
  <2>2. CASE Lookup(rc) \/ Close(rc)
    BY <1>0, <1>1, <2>2 DEF Lookup, Close, LockOK
  <2>3. ASSUME NEW a, Handled(rc, a) PROVE LockOK'
    <3>1. /\ todo' = [todo EXCEPT ![rc] = @ \ {a}]
          /\ lock' = [lock EXCEPT ![rc] = IF todo[rc] = {a} THEN Free ELSE @]
      BY <2>3 DEF Handled
    <3>2. CASE todo[rc] = {a}
      <4>1. \A l \in Callers : pc[l] \in Locked => StubOf[l] # rc
        BY <1>0, <3>2 DEF LockOK, ConstantsAssumption
      <4>2. todo'[rc] = {}
        BY <1>0, <3>1, <3>2
      <4>3. QED BY <1>0, <1>1, <3>1, <4>1, <4>2 DEF LockOK
    <3>3. CASE todo[rc] # {a}
      <4>1. lock' = lock
        BY <1>0, <3>1, <3>3
      <4>2. \A s \in Stubs : todo'[s] \subseteq todo[s]
        BY <1>0, <3>1
      <4>3. QED BY <1>0, <1>1, <4>1, <4>2 DEF LockOK
    <3>4. QED BY <3>2, <3>3
  <2>4. CASE KeepEndpoint(rc) \/ Register(rc) \/ DropEndpoint(rc)
    BY <2>3, <2>4 DEF KeepEndpoint, Register, DropEndpoint
  <2>5. QED BY <2>1, <2>2, <2>4 DEF UpdateStep
<1>6. QED BY <1>2, <1>3, <1>4, <1>5 DEF OwnInv

LEMMA OtherOwn ==
  ASSUME ConstantsAssumption, TypeInv, TypeInv', OwnInv,
         (\E m \in wire : Serve(m)) \/ (\E n \in Nets : Break(n)) \/ UNCHANGED vars
  PROVE  OwnInv'
<1>1. UNCHANGED <<lock, todo, lastID, pc, loc, attempt, net, mnet, reply, calls, done>>
  BY DEF Serve, Break, vars, stubVars, sharedVars, connVars, mgrVars, callerVars
<1>2. \A n \in Nets : netState'[n] = "unused" => netState[n] = "unused"
  BY DEF Serve, Break, CloseNet, vars, sharedVars
<1>3. \A m \in wire' : \E o \in wire : m.net = o.net /\ m.id = o.id /\ m.rpc = o.rpc
  <2>1. ASSUME NEW o \in wire, Serve(o)
        PROVE  \A m \in wire' : m \in wire \/ (m.net = o.net /\ m.id = o.id /\ m.rpc = o.rpc)
    <3>1. o \in Messages
      BY DEF TypeInv, TypeOK, CallerTypes
    <3>2. wire' = (wire \ {o}) \cup {[o EXCEPT !.kind = "reply"]}
      BY <2>1 DEF Serve
    <3>3. QED BY <3>1, <3>2 DEF Messages
  <2>2. CASE wire' = wire
    BY <2>2
  <2>3. QED BY <2>1, <2>2 DEF Break, vars, sharedVars
<1>4. NetOK' /\ IssuedOK'
  <2>1. \A n \in Nets, d \in Conns : Refers(d, n)' => Refers(d, n)
    BY <1>1, RefersLess
  <2>2. QED BY <1>1, <1>2, <1>3, <2>1, ThinsIf, NothingNew DEF OwnInv
<1>5. QED BY <1>1, <1>4, RestStays DEF OwnInv

LEMMA InitOwn == ConstantsAssumption /\ Init => OwnInv
<1> SUFFICES ASSUME ConstantsAssumption, Init PROVE OwnInv
  OBVIOUS
<1>1. /\ \A k \in Callers : pc[k] = "pick" /\ loc[k].net = NoNet
      /\ \A rc \in Stubs : todo[rc] = {}
      /\ \A c \in Conns : net[c] = NoNet /\ mnet[c] = NoNet /\ reply[c][1] = NoRpc
      /\ \A r \in Rpcs : done[r] = Pending
      /\ wire = {}
  BY DEF Init
<1>2. LockOK /\ CountOK
  BY <1>1 DEF LockOK, CountOK, Locked
<1>3. \A c \in Conns, n \in Nets : ~Refers(c, n)
  BY <1>1 DEF Refers
<1>4. NetOK /\ IssuedOK
  BY <1>1, <1>3 DEF NetOK, IssuedOK, InCallOnce
<1>5. AnswerOK /\ OwnReply
  BY <1>1 DEF AnswerOK, OwnReply, ConstantsAssumption
<1>6. QED BY <1>2, <1>4, <1>5 DEF OwnInv

LEMMA NextOwn ==
  OneCallerStub /\ ConstantsAssumption /\ TypeInv /\ TypeInv' /\ CallInv /\ OwnInv /\ [Next]_vars => OwnInv'
BY CallerOwn, ManagerOwn, UpdateOwn, OtherOwn DEF Next, Step

LEMMA OwnInvariant == ASSUME OneCallerStub PROVE Spec => []OwnInv
<1>1. Init => OwnInv
  BY InitOwn, ConstantsAssumption
<1>2. (TypeInv /\ CallInv) /\ (TypeInv /\ CallInv)' /\ OwnInv /\ [Next]_vars => OwnInv'
  BY NextOwn, ConstantsAssumption
<1>3. QED BY <1>1, <1>2, CallsInvariant, PTL DEF Spec

(* When all calls are made on one stub, the reply a call gets answers its  *)
(* own request, over reconnects, retries and cancelled calls, whatever     *)
(* other stubs come and go (call.go 251-253, 672-685).  Without the        *)
(* hypothesis it does not hold: run WrongReply.                            *)
THEOREM OwnReplyCorrect == ASSUME OneCallerStub PROVE Spec => []OwnReply
<1>1. OwnInv => OwnReply
  BY DEF OwnInv
<1>2. QED BY <1>1, OwnInvariant, PTL
-----------------------------------------------------------------------------
(* Agreement and NoResurrection.  With one stub in the process nobody      *)
(* unregisters a connection between callStart's look at its state and      *)
(* setState(active).                                                       *)
OneStub == \A r, s \in Stubs : r = s

(* A connection of the pool that has not been made.                        *)
Unmade(c) ==
  /\ state[c] = "missing" /\ rcs[c] = {} /\ net[c] = NoNet
  /\ \A rc \in Stubs : balancer[rc][c] = 0 /\ looked[rc].conn # c
  /\ \A k \in Callers : loc[k].conn # c

NewOK == \A c \in Conns : mpc[c] = "new" => Unmade(c)

(* The tables are by address; the flag is what the state says.             *)
TableOK ==
  /\ \A c \in Conns : inBalancer[c] <=> state[c] \in {"idle", "active"}
  /\ \A a \in Addrs : clientConns[a] # NoConn => AddrOf[clientConns[a]] = a
  /\ \A rc \in Stubs, a \in Addrs : conns[rc][a] # NoConn => AddrOf[conns[rc][a]] = a

LookedOK ==
  \A rc \in Stubs : looked[rc] # NoLook =>
    /\ conns[rc][looked[rc].addr] = NoConn
    /\ looked[rc].conn # NoConn => AddrOf[looked[rc].conn] = looked[rc].addr

(* What a stub still lists after it has unregistered is in its table, so   *)
(* it does not register there again; what is registered is in its table.   *)
ListedOK ==
  \A rc \in Stubs, c \in Conns :
    /\ balancer[rc][c] > 0 /\ rc \notin rcs[c] => conns[rc][AddrOf[c]] = c
    /\ rc \in rcs[c] /\ state[c] # "missing" => conns[rc][AddrOf[c]] = c

DownOK == \A c \in Conns : state[c] = "disconnected" => net[c] = NoNet

Fresh == {"idle", "disconnected", "checking"}
ActivateOK == \A k \in Callers : pc[k] = "activate" => state[loc[k].conn] \in Fresh

ViewsInv == Agreement /\ NewOK /\ TableOK /\ LookedOK /\ ListedOK /\ DownOK
AgreeInv == ViewsInv /\ ActivateOK
-----------------------------------------------------------------------------
Listed  == {"idle", "active"}
BusyPCs == {"handshake", "read", "deliver", "loop"}

(* What a section that takes c to state s does to the views.               *)
Views(c, s, w) ==
  /\ state' = [state EXCEPT ![c] = s]
  /\ \A d \in Conns \ {c} : (inBalancer'[d] <=> inBalancer[d]) /\ net'[d] = net[d]
  /\ inBalancer'[c] <=> s \in Listed
  /\ \A rc \in Stubs, d \in Conns : d # c \/ rc \notin rcs'[c] => balancer'[rc][d] = balancer[rc][d]
  /\ \A rc \in rcs'[c] : balancer'[rc][c] = IF s \in Listed THEN 1 ELSE 0
  /\ s # "missing" \/ state[c] = "missing" => UNCHANGED <<conns, clientConns>>
  /\ s = "missing" /\ state[c] # "missing" =>
       /\ clientConns' = [clientConns EXCEPT ![AddrOf[c]] = NoConn]
       /\ \A rc \in Stubs : conns'[rc] = IF rc \in rcs'[c] THEN [conns[rc] EXCEPT ![AddrOf[c]] = NoConn]
                                         ELSE conns[rc]
  /\ s = state[c] \/ s \in OnNet => net'[c] = w.net
  /\ s = "disconnected" /\ state[c] # "disconnected" => net'[c] = NoNet
  /\ s \in OnNet /\ state[c] \notin OnNet /\ ~panicked' => net'[c] # NoNet

LEMMA FastViews ==
  ASSUME TypeInv, ViewsInv, NEW c \in Conns, NEW s \in States, NEW w \in Handed, rcs'[c] \subseteq rcs[c],
         {state[c], s} = {"idle", "active"}, FastSetState(c, s, w)
  PROVE  Views(c, s, w)
<1>1. /\ state[c] \in Listed /\ s \in Listed /\ state \in [Conns -> States]
      /\ net \in [Conns -> Nets \cup {NoNet}]
  BY DEF Listed, TypeInv, TypeOK, ConnTypes
<1>2. inBalancer[c] /\ \A rc \in rcs[c] : balancer[rc][c] = 1
  BY <1>1 DEF ViewsInv, Agreement, TableOK, Listed
<1>3. /\ state' = [state EXCEPT ![c] = s] /\ net' = [net EXCEPT ![c] = w.net]
      /\ UNCHANGED <<conns, balancer, inBalancer, clientConns>>
  BY DEF FastSetState
<1>4. s \notin {"missing", "disconnected"} /\ state[c] \in OnNet
  BY <1>1 DEF Listed, OnNet
<1>5. QED BY <1>1, <1>2, <1>3, <1>4 DEF Views

LEMMA SlowViews ==
  ASSUME TypeInv, ViewsInv, NEW c \in Conns, NEW s \in States, NEW w \in Handed, rcs'[c] \subseteq rcs[c],
         s # state[c], SlowSetState(c, s, w)
  PROVE  Views(c, s, w)
<1>1. /\ state \in [Conns -> States] /\ net \in [Conns -> Nets \cup {NoNet}] /\ rcs \in [Conns -> SUBSET Stubs]
      /\ inBalancer \in [Conns -> BOOLEAN] /\ balancer \in [Stubs -> [Conns -> Nat]]
  BY DEF TypeInv, TypeOK, ConnTypes, StubTypes
<1>2. /\ state' = [state EXCEPT ![c] = s] /\ Forget(c, s) /\ Rebalance(c, s)
      /\ net' = [net EXCEPT ![c] = IF s \in {"missing", "disconnected"} THEN NoNet ELSE w.net]
      /\ panicked' = ~CheckInvariants(clientConns'[AddrOf[c]] # NoConn, s, net'[c],
                                      inBalancer'[c], calls'[c])
  BY DEF SlowSetState
<1>3. inBalancer' = [inBalancer EXCEPT ![c] = s \in Listed]
  BY <1>2 DEF Rebalance, Listed
<1>4. ASSUME NEW rc \in Stubs
      PROVE  balancer'[rc] =
               IF rc \notin rcs'[c] \/ (s \in Listed <=> inBalancer[c]) THEN balancer[rc]
               ELSE IF s \in Listed THEN [balancer[rc] EXCEPT ![c] = @ + 1]
               ELSE IF balancer[rc][c] > 0 THEN [balancer[rc] EXCEPT ![c] = @ - 1]
               ELSE balancer[rc]
  BY <1>2 DEF Rebalance, Listed
<1>5. \A rc \in rcs[c] : rc \in Stubs /\ balancer[rc][c] = IF inBalancer[c] THEN 1 ELSE 0
  BY <1>1 DEF ViewsInv, Agreement
<1>6. \A rc \in rcs'[c] : balancer'[rc][c] = IF s \in Listed THEN 1 ELSE 0
  <2> SUFFICES ASSUME NEW rc \in rcs'[c] PROVE balancer'[rc][c] = IF s \in Listed THEN 1 ELSE 0
    OBVIOUS
  <2>1. rc \in Stubs /\ balancer[rc][c] = (IF inBalancer[c] THEN 1 ELSE 0) /\ balancer[rc] \in [Conns -> Nat]
    BY <1>1, <1>5
  <2>2. CASE s \in Listed <=> inBalancer[c]
    BY <1>4, <2>1, <2>2
  <2>3. CASE s \in Listed /\ ~inBalancer[c]
    <3>1. balancer[rc][c] = 0
      BY <2>1, <2>3
    <3>2. balancer'[rc] = [balancer[rc] EXCEPT ![c] = @ + 1]
      BY <1>4, <2>1, <2>3
    <3>3. QED BY <2>1, <2>3, <3>1, <3>2
  <2>4. CASE s \notin Listed /\ inBalancer[c]
    <3>1. balancer[rc][c] = 1
      BY <2>1, <2>4
    <3>2. balancer'[rc] = [balancer[rc] EXCEPT ![c] = @ - 1]
      <4>1. balancer'[rc] = IF balancer[rc][c] > 0 THEN [balancer[rc] EXCEPT ![c] = @ - 1] ELSE balancer[rc]
        BY <1>4, <2>1, <2>4
      <4>2. QED BY <3>1, <4>1
    <3>3. QED BY <2>1, <2>4, <3>1, <3>2
  <2>5. QED BY <2>2, <2>3, <2>4
<1>7. \A rc \in Stubs, d \in Conns : d # c \/ rc \notin rcs'[c] => balancer'[rc][d] = balancer[rc][d]
  <2> SUFFICES ASSUME NEW rc \in Stubs, NEW d \in Conns, d # c \/ rc \notin rcs'[c]
               PROVE  balancer'[rc][d] = balancer[rc][d]
    OBVIOUS
  <2>1. balancer[rc] \in [Conns -> Nat]
    BY <1>1
  <2>2. CASE rc \notin rcs'[c]
    BY <1>4, <2>2
  <2>3. CASE d # c
    BY <1>4, <2>1, <2>3
  <2>4. QED BY <2>2, <2>3
<1>8. /\ s # "missing" => UNCHANGED <<conns, clientConns>>
      /\ s = "missing" =>
           /\ clientConns' = [clientConns EXCEPT ![AddrOf[c]] = NoConn]
           /\ \A rc \in Stubs : conns'[rc] = IF rc \in rcs'[c] THEN [conns[rc] EXCEPT ![AddrOf[c]] = NoConn]
                                             ELSE conns[rc]
  BY <1>2 DEF Forget
<1>9. /\ s \in OnNet => net'[c] = w.net
      /\ s = "disconnected" => net'[c] = NoNet
      /\ \A d \in Conns \ {c} : net'[d] = net[d]
  BY <1>1, <1>2 DEF OnNet
<1>10. s \in OnNet /\ ~panicked' => net'[c] # NoNet
  <2>1. CheckInvariants(clientConns'[AddrOf[c]] # NoConn, s, net'[c], inBalancer'[c], calls'[c])
          => (s \in OnNet => net'[c] # NoNet)
    BY DEF CheckInvariants
  <2>2. QED BY <1>2, <2>1
<1>11. /\ \A d \in Conns \ {c} : inBalancer'[d] <=> inBalancer[d]
       /\ inBalancer'[c] <=> s \in Listed
  BY <1>1, <1>3
<1>12. QED BY <1>2, <1>6, <1>7, <1>8, <1>9, <1>10, <1>11 DEF Views

LEMMA SectionViews ==
  ASSUME TypeInv, ViewsInv, NEW c \in Conns, NEW s \in States, NEW w \in Handed, rcs'[c] \subseteq rcs[c],
         Switch(c, s, w) \/ (SetState(c, s, w) /\ s # state[c])
  PROVE  Views(c, s, w)
<1>1. CASE s # state[c]
  BY <1>1, FastViews, SlowViews DEF Switch, SetState
<1>2. CASE s = state[c]
  <2>1. /\ state \in [Conns -> States] /\ net \in [Conns -> Nets \cup {NoNet}]
        /\ rcs \in [Conns -> SUBSET Stubs]
    BY DEF TypeInv, TypeOK, ConnTypes
  <2>2. /\ net' = [net EXCEPT ![c] = w.net]
        /\ UNCHANGED <<conns, balancer, state, inBalancer, clientConns>>
    BY <1>2 DEF Switch
  <2>3. (inBalancer[c] <=> s \in Listed) /\ \A rc \in rcs[c] : balancer[rc][c] = IF inBalancer[c] THEN 1 ELSE 0
    BY <1>2 DEF ViewsInv, Agreement, TableOK, Listed
  <2>4. state' = [state EXCEPT ![c] = s]
    BY <1>2, <2>1, <2>2
  <2>5. QED BY <1>2, <2>1, <2>2, <2>3, <2>4 DEF Views
<1>3. QED BY <1>1, <1>2

(* The transitions there are, whatever a racing startCall has seen.        *)
Legal(c, s) ==
  /\ state[c] = "missing" => s = "missing"
  /\ state[c] = "draining" => s \in {"draining", "missing"}
  /\ s \in OnNet => state[c] \in OnNet \cup {"disconnected"}

Lives ==
  \A c \in Conns :
    /\ state[c] = "missing" /\ mpc[c] # "new" => state'[c] = "missing"
    /\ state[c] = "draining" => state'[c] \in {"draining", "missing"}

LEMMA ViewsKeep ==
  ASSUME ConstantsAssumption, TypeInv, ViewsInv, ~panicked,
         NEW c \in Conns, NEW s \in States, NEW w, Views(c, s, w), Legal(c, s), mpc[c] # "new",
         rcs'[c] \subseteq rcs[c], \A d \in Conns \ {c} : rcs'[d] = rcs[d],
         \A rc \in rcs[c] \ rcs'[c] : conns[rc][AddrOf[c]] = c,
         \A rc \in Stubs : looked'[rc] \in {looked[rc], NoLook},
         \A k \in Callers : loc'[k].conn = loc[k].conn,
         \A d \in Conns : mpc'[d] = "new" => mpc[d] = "new",
         \/ /\ w.net = net[c]
            /\ \A d \in Conns : mpc'[d] \in BusyPCs => mpc[d] \in BusyPCs /\ mnet'[d] = mnet[d]
         \/ /\ w.net # NoNet /\ mnet'[c] = w.net /\ s # "disconnected"
            /\ \A d \in Conns \ {c} : mpc'[d] = mpc[d] /\ mnet'[d] = mnet[d]
  PROVE  ViewsInv' /\ Lives
<1>0. /\ state \in [Conns -> States] /\ rcs \in [Conns -> SUBSET Stubs]
      /\ conns \in [Stubs -> [Addrs -> Conns \cup {NoConn}]] /\ clientConns \in [Addrs -> Conns \cup {NoConn}]
      /\ AddrOf \in [Conns -> Addrs] /\ NoConn \notin Conns /\ looked \in [Stubs -> Looks]
  BY DEF TypeInv, TypeOK, StubTypes, ConnTypes, ConstantsAssumption
<1>1. Agreement /\ NewOK /\ TableOK /\ LookedOK /\ ListedOK /\ DownOK
  BY DEF ViewsInv
<1>2. state'[c] = s /\ \A d \in Conns \ {c} : state'[d] = state[d]
  BY <1>0 DEF Views
<1>3. /\ \A a \in Addrs : clientConns'[a] = clientConns[a]
                          \/ (clientConns'[a] = NoConn /\ a = AddrOf[c] /\ s = "missing" /\ state[c] # "missing")
      /\ \A rc \in Stubs, a \in Addrs : conns'[rc][a] = conns[rc][a]
           \/ (conns'[rc][a] = NoConn /\ a = AddrOf[c] /\ s = "missing" /\ state[c] # "missing" /\ rc \in rcs'[c])
  <2>1. CASE s # "missing" \/ state[c] = "missing"
    BY <2>1 DEF Views
  <2>2. CASE s = "missing" /\ state[c] # "missing"
    <3>1. /\ clientConns' = [clientConns EXCEPT ![AddrOf[c]] = NoConn]
          /\ \A rc \in Stubs : conns'[rc] = IF rc \in rcs'[c] THEN [conns[rc] EXCEPT ![AddrOf[c]] = NoConn]
                                            ELSE conns[rc]
      BY <2>2 DEF Views
    <3>2. \A rc \in Stubs : conns[rc] \in [Addrs -> Conns \cup {NoConn}]
      BY <1>0
    <3>3. \A a \in Addrs : clientConns'[a] = IF a = AddrOf[c] THEN NoConn ELSE clientConns[a]
      BY <1>0, <3>1
    <3>4. \A rc \in Stubs, a \in Addrs :
            conns'[rc][a] = IF rc \in rcs'[c] /\ a = AddrOf[c] THEN NoConn ELSE conns[rc][a]
      <4> SUFFICES ASSUME NEW rc \in Stubs, NEW a \in Addrs
                   PROVE  conns'[rc][a] = IF rc \in rcs'[c] /\ a = AddrOf[c] THEN NoConn ELSE conns[rc][a]
        OBVIOUS
      <4>1. conns[rc] \in [Addrs -> Conns \cup {NoConn}]
        BY <3>2
      <4>2. CASE rc \in rcs'[c]
        <5>1. conns'[rc] = [conns[rc] EXCEPT ![AddrOf[c]] = NoConn]
          BY <3>1, <4>2
        <5>2. QED BY <4>1, <4>2, <5>1
      <4>3. CASE rc \notin rcs'[c]
        <5>1. conns'[rc] = conns[rc]
          BY <3>1, <4>3
        <5>2. QED BY <4>3, <5>1
      <4>4. QED BY <4>2, <4>3
    <3>5. QED BY <2>2, <3>3, <3>4
  <2>3. QED BY <2>1, <2>2
<1>4. s = "missing" /\ state[c] # "missing" => clientConns'[AddrOf[c]] = NoConn
  BY <1>0 DEF Views
<1>5. NewOK'
  <2> SUFFICES ASSUME NEW d \in Conns, mpc'[d] = "new" PROVE Unmade(d)'
    BY DEF NewOK
  <2>1. d # c /\ Unmade(d)
    BY <1>1 DEF NewOK
  <2>2. state'[d] = "missing" /\ rcs'[d] = {} /\ net'[d] = NoNet
    BY <1>2, <2>1 DEF Unmade, Views
  <2>3. \A rc \in Stubs : balancer'[rc][d] = 0
    BY <2>1 DEF Unmade, Views
  <2>4. \A rc \in Stubs : looked'[rc].conn # d
    BY <1>0, <2>1 DEF Unmade, NoLook
  <2>5. \A k \in Callers : loc'[k].conn # d
    BY <2>1 DEF Unmade
  <2>6. QED BY <2>2, <2>3, <2>4, <2>5 DEF Unmade
<1>6. TableOK'
  <2>1. \A d \in Conns : inBalancer'[d] <=> state'[d] \in {"idle", "active"}
    BY <1>1, <1>2 DEF TableOK, Views, Listed
  <2>2. QED BY <1>0, <1>1, <1>3, <2>1 DEF TableOK
<1>7. LookedOK'
  <2> SUFFICES ASSUME NEW rc \in Stubs, looked'[rc] # NoLook
               PROVE  /\ conns'[rc][looked'[rc].addr] = NoConn
                      /\ looked'[rc].conn # NoConn => AddrOf[looked'[rc].conn] = looked'[rc].addr
    BY DEF LookedOK
  <2>1. looked'[rc] = looked[rc] /\ looked[rc].addr \in Addrs
    BY <1>0 DEF Looks
  <2>2. QED BY <1>1, <1>3, <2>1 DEF LookedOK
<1>8. ListedOK'
  <2> SUFFICES ASSUME NEW rc \in Stubs, NEW d \in Conns
               PROVE  /\ balancer'[rc][d] > 0 /\ rc \notin rcs'[d] => conns'[rc][AddrOf[d]] = d
                      /\ rc \in rcs'[d] /\ state'[d] # "missing" => conns'[rc][AddrOf[d]] = d
    BY DEF ListedOK
  <2>1. CASE d = c
    <3>1. ASSUME balancer'[rc][c] > 0, rc \notin rcs'[c] PROVE conns'[rc][AddrOf[c]] = c
      <4>1. balancer[rc][c] > 0
        BY <3>1 DEF Views
      <4>2. conns[rc][AddrOf[c]] = c
        BY <1>1, <3>1, <4>1 DEF ListedOK
      <4>3. QED BY <1>0, <1>3, <3>1, <4>2
    <3>2. ASSUME rc \in rcs'[c], s # "missing" PROVE conns'[rc][AddrOf[c]] = c
      <4>1. state[c] # "missing"
        BY <3>2 DEF Legal
      <4>2. conns[rc][AddrOf[c]] = c
        BY <1>1, <3>2, <4>1 DEF ListedOK
      <4>3. QED BY <1>0, <1>3, <3>2, <4>2
    <3>3. QED BY <1>2, <2>1, <3>1, <3>2
  <2>2. CASE d # c
    <3>1. rcs'[d] = rcs[d] /\ state'[d] = state[d] /\ balancer'[rc][d] = balancer[rc][d]
      BY <1>2, <2>2 DEF Views
    <3>2. conns'[rc][AddrOf[d]] = conns[rc][AddrOf[d]] \/ conns[rc][AddrOf[d]] = c
      <4>1. rc \in rcs'[c] /\ state[c] # "missing" => conns[rc][AddrOf[c]] = c
        BY <1>1 DEF ListedOK
      <4>2. QED BY <1>0, <1>3, <4>1
    <3>3. QED BY <1>1, <2>2, <3>1, <3>2 DEF ListedOK
  <2>3. QED BY <2>1, <2>2
<1>9. DownOK'
  <2>1. s = "disconnected" => net'[c] = NoNet
    BY <1>1 DEF DownOK, Views
  <2>2. QED BY <1>1, <1>2, <2>1 DEF DownOK, Views
<1>10. \A d \in Conns : \A rc \in rcs'[d] : balancer'[rc][d] = IF inBalancer'[d] THEN 1 ELSE 0
  <2> SUFFICES ASSUME NEW d \in Conns, NEW rc \in rcs'[d]
               PROVE  balancer'[rc][d] = IF inBalancer'[d] THEN 1 ELSE 0
    OBVIOUS
  <2>1. CASE d = c
    BY <2>1 DEF Views
  <2>2. CASE d # c
    <3>1. rc \in rcs[d] /\ rc \in Stubs
      BY <1>0, <2>2
    <3>2. balancer'[rc][d] = balancer[rc][d] /\ (inBalancer'[d] <=> inBalancer[d])
      BY <2>2, <3>1 DEF Views
    <3>3. balancer[rc][d] = IF inBalancer[d] THEN 1 ELSE 0
      BY <1>1, <3>1 DEF Agreement
    <3>4. QED BY <3>2, <3>3
  <2>3. QED BY <2>1, <2>2
<1>11. \A d \in Conns : (state'[d] # "missing") <=> (clientConns'[AddrOf[d]] = d)
  <2> SUFFICES ASSUME NEW d \in Conns
               PROVE  (state'[d] # "missing") <=> (clientConns'[AddrOf[d]] = d)
    OBVIOUS
  <2>1. /\ (state[d] # "missing") <=> (clientConns[AddrOf[d]] = d)
        /\ (state[c] # "missing") <=> (clientConns[AddrOf[c]] = c)
    BY <1>1 DEF Agreement
  <2>2. state[c] = "missing" => s = "missing"
    BY DEF Legal
  <2>3. AddrOf[d] \in Addrs
    BY <1>0
  <2>4. CASE d = c
    BY <1>0, <1>2, <1>3, <1>4, <2>1, <2>2, <2>3, <2>4
  <2>5. CASE d # c
    BY <1>0, <1>2, <1>3, <2>1, <2>3, <2>5
  <2>6. QED BY <2>4, <2>5
<1>12. ASSUME ~panicked', NEW d \in Conns, state'[d] \in OnNet
       PROVE  /\ net'[d] # NoNet
              /\ mpc'[d] \in BusyPCs => net'[d] = mnet'[d]
  <2>0. state[d] \in OnNet => net[d] # NoNet /\ (mpc[d] \in BusyPCs => net[d] = mnet[d])
    BY <1>1 DEF Agreement, BusyPCs
  <2>1. CASE d # c
    BY <1>2, <1>12, <2>0, <2>1 DEF Views
  <2>2. CASE d = c
    <3>1. net'[c] = w.net /\ (state[c] \notin OnNet => net'[c] # NoNet /\ state[c] = "disconnected")
      BY <1>2, <1>12, <2>2 DEF Views, Legal
    <3>2. state[c] = "disconnected" => net[c] = NoNet
      BY <1>1 DEF DownOK
    <3>3. QED BY <2>0, <2>2, <3>1, <3>2
  <2>3. QED BY <2>1, <2>2
<1>13. Agreement'
  BY <1>10, <1>11, <1>12 DEF Agreement, BusyPCs
<1>14. Lives
  BY <1>2 DEF Lives, Legal
<1>15. QED BY <1>5, <1>6, <1>7, <1>8, <1>9, <1>13, <1>14 DEF ViewsInv

(* What the steps that leave the stubs alone have in common.               *)
Calm ==
  /\ UNCHANGED rcs
  /\ \A rc \in Stubs : looked'[rc] \in {looked[rc], NoLook}
  /\ \A k \in Callers : loc'[k].conn = loc[k].conn
  /\ \A d \in Conns :
       /\ mpc'[d] = "new" => mpc[d] = "new"
       /\ mpc'[d] \in BusyPCs => mpc[d] \in BusyPCs /\ mnet'[d] = mnet[d]

FreshStays == \A d \in Conns : state[d] \in Fresh => state'[d] \in Fresh

LEMMA SectionKeeps ==
  ASSUME ConstantsAssumption, TypeInv, ViewsInv, ~panicked, Calm,
         NEW c \in Conns, NEW s \in States, NEW w \in Handed, w.net = net[c], mpc[c] # "new",
         Legal(c, s), state[c] \in Fresh => s \in Fresh,
         Switch(c, s, w) \/ (SetState(c, s, w) /\ s # state[c])
  PROVE  ViewsInv' /\ Lives /\ FreshStays
<1>1. UNCHANGED rcs
  BY DEF Calm
<1>2. Views(c, s, w)
  BY <1>1, SectionViews
<1>3. ViewsInv' /\ Lives
  BY <1>1, <1>2, ViewsKeep DEF Calm
<1>4. state' = [state EXCEPT ![c] = s] /\ state \in [Conns -> States]
  BY <1>2 DEF Views, TypeInv, TypeOK, ConnTypes
<1>5. FreshStays
  BY <1>4 DEF FreshStays
<1>6. QED BY <1>3, <1>5

LEMMA FailKeeps ==
  ASSUME ConstantsAssumption, TypeInv, ViewsInv, ~panicked, Calm, NEW c \in Conns, mpc[c] # "new",
         Fail(c, Now(c))
  PROVE  ViewsInv' /\ Lives /\ FreshStays
<1> DEFINE w == [Now(c) EXCEPT !.done = EndCalls(done, calls[c]), !.calls = NoCalls]
<1>0. SwitchTypes
  BY TypesSplit
<1>1. FailTo(c) \in States /\ Legal(c, FailTo(c)) /\ (state[c] \in Fresh => FailTo(c) \in Fresh)
  BY <1>0 DEF FailTo, SwitchTypes, States, Legal, Fresh, OnNet
<1>2. w \in Handed /\ w.net = net[c]
  BY <1>0, NowType, NoCallsType, EndCallsType DEF Handed, Now, SwitchTypes
<1>3. Switch(c, FailTo(c), w)
  BY DEF Fail, Now
<1> HIDE DEF w
<1>4. QED BY <1>1, <1>2, <1>3, SectionKeeps

LEMMA EndCallKeeps ==
  ASSUME ConstantsAssumption, TypeInv, ViewsInv, ~panicked, Calm, NEW c \in Conns, NEW id \in Ids,
         mpc[c] # "new", EndCall(c, id)
  PROVE  ViewsInv' /\ Lives /\ FreshStays
<1> DEFINE cs == [calls[c] EXCEPT ![id] = NoRpc]
           s  == IF cs = NoCalls THEN LastDone(c) ELSE state[c]
           w  == [Now(c) EXCEPT !.calls = cs]
<1>0. SwitchTypes
  BY TypesSplit
<1>1. /\ LastDone(c) \in States /\ Legal(c, LastDone(c)) /\ (state[c] \in Fresh => LastDone(c) \in Fresh)
      /\ state[c] \in States /\ Legal(c, state[c])
  BY <1>0 DEF LastDone, SwitchTypes, States, Legal, Fresh, OnNet
<1>2. s \in States /\ Legal(c, s) /\ (state[c] \in Fresh => s \in Fresh)
  <2>1. s = LastDone(c) \/ s = state[c]
    OBVIOUS
  <2> HIDE DEF s
  <2>2. QED BY <1>1, <2>1
<1>3. cs \in Tables
  BY <1>0 DEF SwitchTypes, Tables, Tokens
<1>4. w \in Handed /\ w.net = net[c]
  BY <1>0, <1>3, NowType DEF Handed, Now
<1>5. Switch(c, s, w)
  BY DEF EndCall
<1> HIDE DEF s, w
<1>6. QED BY <1>2, <1>4, <1>5, SectionKeeps

(* A step that leaves the connections alone.                               *)
LEMMA QuietViews ==
  ASSUME ViewsInv, ~panicked, UNCHANGED <<conns, balancer, state, inBalancer, net, clientConns, rcs>>,
         LookedOK',
         \A d \in Conns :
           /\ mpc'[d] = "new" => /\ mpc[d] = "new"
                                 /\ \A rc \in Stubs : looked'[rc].conn # d
                                 /\ \A k \in Callers : loc'[k].conn # d
           /\ mpc'[d] \in BusyPCs => mpc[d] \in BusyPCs /\ mnet'[d] = mnet[d]
  PROVE  ViewsInv' /\ Lives /\ FreshStays
<1>1. Agreement /\ NewOK /\ TableOK /\ ListedOK /\ DownOK
  BY DEF ViewsInv
<1>2. NewOK'
  BY <1>1 DEF NewOK, Unmade
<1>3. TableOK' /\ ListedOK' /\ DownOK'
  BY <1>1 DEF TableOK, ListedOK, DownOK
<1>4. Agreement'
  BY <1>1 DEF Agreement, BusyPCs
<1>5. Lives /\ FreshStays
  BY DEF Lives, FreshStays
<1>6. QED BY <1>2, <1>3, <1>4, <1>5 DEF ViewsInv

LEMMA CalmViews ==
  ASSUME ConstantsAssumption, TypeInv, ViewsInv, ~panicked, Calm,
         UNCHANGED <<conns, balancer, state, inBalancer, net, clientConns>>
  PROVE  ViewsInv' /\ Lives /\ FreshStays
<1>1. NewOK /\ LookedOK /\ UNCHANGED rcs
  BY DEF ViewsInv, Calm
<1>2. LookedOK'
  BY <1>1 DEF LookedOK, Calm
<1>3. \A rc \in Stubs, d \in Conns : looked'[rc].conn = d => looked[rc].conn = d
  <2>1. NoLook.conn = NoConn
    BY DEF NoLook
  <2>2. QED BY <2>1 DEF Calm, ConstantsAssumption
<1>4. QED BY <1>1, <1>2, <1>3, QuietViews DEF Calm, NewOK, Unmade

LEMMA ActivateKeeps ==
  ASSUME TypeInv, ActivateOK, FreshStays,
         \A k \in Callers : pc'[k] = "activate" => pc[k] = "activate" /\ loc'[k].conn = loc[k].conn
  PROVE  ActivateOK'
<1>1. \A k \in Callers : pc[k] = "activate" => loc[k].conn \in Conns
  BY DEF TypeInv, PlaceOK
<1>2. QED BY <1>1 DEF ActivateOK, FreshStays

LEMMA CallerAgree ==
  ASSUME OneCallerStub, ConstantsAssumption, TypeInv, LockOK, AgreeInv, ~panicked, NEW k \in Callers,
         CallerStep(k) \/ GiveUpPicking(k) \/ GiveUpWaiting(k)
  PROVE  AgreeInv' /\ Lives
<1>0. /\ ViewsInv /\ ActivateOK /\ NewOK /\ SwitchTypes /\ PlaceOK
      /\ loc \in [Callers -> Locs] /\ pc \in [Callers -> CallerPCs] /\ balancer \in [Stubs -> [Conns -> Nat]]
      /\ StubOf[k] \in Stubs
  BY TypesSplit DEF AgreeInv, ViewsInv, TypeInv, TypeOK, CallerTypes, StubTypes, ConstantsAssumption
<1>1. \A l \in Callers : loc[l].conn \in Conns => mpc[loc[l].conn] # "new"
  BY <1>0 DEF NewOK, Unmade
<1>2. UNCHANGED <<rcs, mpc, mnet, looked>>
  BY DEF CallerStep, Pick, PickOnClosed, GiveUpPicking, LoadID, Insert, CallStart, Activate, TakeConn,
     WriteNil, Write, Shutdown, DropCall, Receive, WriteCancel, GiveUpWaiting, stubVars, sharedVars, mgrVars
<1>3. ASSUME \A l \in Callers : loc'[l].conn = loc[l].conn PROVE Calm
  BY <1>2, <1>3 DEF Calm
<1>4. CASE Pick(k)
  <2>1. PICK c \in Conns :
          /\ balancer[StubOf[k]][c] > 0
          /\ loc' = [loc EXCEPT ![k] = [conn |-> c, id |-> 0, net |-> NoNet]]
    BY <1>4 DEF Pick
  <2>2. UNCHANGED <<conns, balancer, state, inBalancer, net, clientConns>> /\ pc' = [pc EXCEPT ![k] = "count"]
    BY <1>4 DEF Pick, Goto, sharedVars, connVars
  <2>3. loc'[k].conn = c /\ \A l \in Callers : l # k => loc'[l] = loc[l]
    <3>1. loc'[k] = [conn |-> c, id |-> 0, net |-> NoNet]
      BY <1>0, <2>1
    <3>2. QED BY <1>0, <2>1, <3>1
  <2>4. mpc[c] # "new"
    BY <1>0, <2>1 DEF NewOK, Unmade
  <2>5. LookedOK'
    BY <1>0, <1>2, <2>2 DEF ViewsInv, LookedOK
  <2>6. \A d \in Conns : mpc[d] = "new" =>
          (\A rc \in Stubs : looked'[rc].conn # d) /\ \A l \in Callers : loc'[l].conn # d
    BY <1>0, <1>2, <2>3, <2>4 DEF NewOK, Unmade
  <2>7. ViewsInv' /\ Lives /\ FreshStays
    BY <1>0, <1>2, <2>2, <2>5, <2>6, QuietViews
  <2>8. ActivateOK'
    BY <1>0, <2>2, <2>3, <2>7, ActivateKeeps
  <2>9. QED BY <2>7, <2>8 DEF AgreeInv
<1>5. CASE \/ PickOnClosed(k) \/ GiveUpPicking(k) \/ LoadID(k) \/ Insert(k) \/ CallStart(k)
           \/ TakeConn(k) \/ WriteNil(k) \/ Write(k) \/ Receive(k) \/ WriteCancel(k)
  <2>1. UNCHANGED <<conns, balancer, state, inBalancer, net, clientConns>>
    BY <1>5 DEF PickOnClosed, GiveUpPicking, LoadID, Insert, CallStart, TakeConn, WriteNil, Write, Receive,
       WriteCancel, sharedVars, connVars
  <2>2. \A l \in Callers : loc'[l].conn = loc[l].conn
    <3>1. CASE LoadID(k) \/ Insert(k) \/ TakeConn(k)
      <4>1. CASE LoadID(k) \/ Insert(k)
        <5>1. PICK i : loc' = [loc EXCEPT ![k].id = i]
          BY <4>1 DEF LoadID, Insert
        <5>2. QED BY <1>0, <5>1 DEF Locs
      <4>2. CASE TakeConn(k)
        <5>1. PICK n : loc' = [loc EXCEPT ![k].net = n]
          BY <4>2 DEF TakeConn
        <5>2. QED BY <1>0, <5>1 DEF Locs
      <4>3. QED BY <3>1, <4>1, <4>2
    <3>2. CASE ~(LoadID(k) \/ Insert(k) \/ TakeConn(k))
      BY <1>5, <3>2 DEF PickOnClosed, GiveUpPicking, CallStart, WriteNil, Write, Receive, WriteCancel, callerVars
    <3>3. QED BY <3>1, <3>2
  <2>3. ViewsInv' /\ Lives /\ FreshStays
    BY <1>0, <1>3, <2>1, <2>2, CalmViews
  <2>4. CASE CallStart(k)
    <3>1. /\ pc[k] = "start" /\ UNCHANGED <<loc, state>>
          /\ pc' = [pc EXCEPT ![k] = IF state[loc[k].conn] = "idle" THEN "activate" ELSE "conn"]
      BY <2>4 DEF CallStart, Goto, sharedVars, connVars
    <3>2. ActivateOK'
      BY <1>0, <3>1 DEF ActivateOK, Fresh
    <3>3. QED BY <2>3, <3>2 DEF AgreeInv
  <2>5. CASE ~CallStart(k)
    <3>1. \A l \in Callers : pc'[l] = "activate" => pc[l] = "activate"
      BY <1>0, <1>5, <2>5 DEF PickOnClosed, GiveUpPicking, LoadID, Insert, TakeConn, WriteNil, Write, Receive,
         WriteCancel, Return, Goto, callerVars
    <3>2. ActivateOK'
      BY <1>0, <2>2, <2>3, <3>1, ActivateKeeps
    <3>3. QED BY <2>3, <3>2 DEF AgreeInv
  <2>6. QED BY <2>4, <2>5
<1>6. CASE Activate(k)
  <2> DEFINE c == loc[k].conn
  <2>1. /\ pc[k] = "activate" /\ SetState(c, "active", Now(c)) /\ UNCHANGED loc
        /\ pc' = [pc EXCEPT ![k] = "conn"]
    BY <1>6 DEF Activate, Goto
  <2>2. c \in Conns /\ mpc[c] # "new" /\ state[c] \in Fresh
    BY <1>0, <1>1, <2>1 DEF PlaceOK, ActivateOK
  <2>3. Legal(c, "active") /\ "active" \in States /\ state[c] # "active"
    BY <2>2 DEF Legal, Fresh, OnNet, States
  <2>4. Now(c) \in Handed /\ Now(c).net = net[c]
    BY <1>0, <2>2, NowType DEF Now
  <2> HIDE DEF c
  <2>5. Views(c, "active", Now(c))
    BY <1>0, <1>2, <2>1, <2>2, <2>3, <2>4, SectionViews
  <2>6. ViewsInv' /\ Lives
    BY <1>0, <1>2, <2>1, <2>2, <2>3, <2>4, <2>5, ViewsKeep
  <2>7. \A l \in Callers : pc'[l] # "activate"
    <3>1. \A l \in Callers : pc[l] = "activate" => l = k
      BY <2>1, Alone DEF Locked
    <3>2. QED BY <1>0, <2>1, <3>1
  <2>8. QED BY <2>6, <2>7 DEF AgreeInv, ActivateOK
<1>7. CASE Shutdown(k) \/ DropCall(k) \/ GiveUpWaiting(k)
  <2>1. loc[k].conn \in Conns /\ loc[k].id \in Ids
    BY <1>0, <1>7 DEF Shutdown, DropCall, GiveUpWaiting, PlaceOK
  <2>2. UNCHANGED loc
    BY <1>7 DEF Shutdown, DropCall, GiveUpWaiting
  <2>3. ViewsInv' /\ Lives /\ FreshStays
    <3>1. CASE Shutdown(k)
      BY <1>0, <1>1, <1>3, <2>1, <2>2, <3>1, FailKeeps DEF Shutdown
    <3>2. CASE DropCall(k) \/ GiveUpWaiting(k)
      BY <1>0, <1>1, <1>3, <2>1, <2>2, <3>2, EndCallKeeps DEF DropCall, GiveUpWaiting
    <3>3. QED BY <1>7, <3>1, <3>2
  <2>4. \A l \in Callers : pc'[l] = "activate" => pc[l] = "activate"
    <3>1. CASE Shutdown(k)
      BY <1>0, <3>1 DEF Shutdown, Return, Goto
    <3>2. CASE DropCall(k)
      BY <1>0, <3>2 DEF DropCall, RetryOrReturn, Return, Goto
    <3>3. CASE GiveUpWaiting(k)
      BY <1>0, <3>3 DEF GiveUpWaiting, Return, Goto
    <3>4. QED BY <1>7, <3>1, <3>2, <3>3
  <2>5. ActivateOK'
    BY <1>0, <2>2, <2>3, <2>4, ActivateKeeps
  <2>6. QED BY <2>3, <2>5 DEF AgreeInv
<1>8. QED BY <1>4, <1>5, <1>6, <1>7 DEF CallerStep

LEMMA ManagerAgree ==
  ASSUME ConstantsAssumption, TypeInv, AgreeInv, ~panicked, NEW c \in Conns,
         ManagerStep(c) \/ DialFails(c)
  PROVE  AgreeInv' /\ Lives
<1>0. /\ ViewsInv /\ ActivateOK /\ SwitchTypes /\ PlaceOK
      /\ mpc \in [Conns -> ManagerPCs] /\ mnet \in [Conns -> Nets \cup {NoNet}]
      /\ Now(c) \in Handed /\ Now(c).net = net[c] /\ Now(c).nets = netState
  BY TypesSplit, NowType DEF AgreeInv, TypeInv, TypeOK, ManagerTypes, Now
<1>1. UNCHANGED <<rcs, looked, loc, pc>>
  BY DEF ManagerStep, Continue, DialFails, HandshakeFails, Dialled, Handshaken, ReadReply, Deliver, Loop,
     ReadFails, stubVars, sharedVars, callerVars
<1>2. mpc[c] # "new"
  BY DEF ManagerStep, Continue, DialFails, HandshakeFails, Dialled, Handshaken, ReadReply, Deliver, Loop,
     ReadFails
<1>3. ASSUME NEW l, NEW n, l # "new", l \in BusyPCs => mpc[c] \in BusyPCs /\ n = mnet[c], Manager(c, l, n)
      PROVE  Calm
  <2>1. mpc' = [mpc EXCEPT ![c] = l] /\ mnet' = [mnet EXCEPT ![c] = n]
    BY <1>3 DEF Manager
  <2>2. \A d \in Conns : /\ mpc'[d] = "new" => mpc[d] = "new"
                         /\ mpc'[d] \in BusyPCs => mpc[d] \in BusyPCs /\ mnet'[d] = mnet[d]
    BY <1>0, <1>3, <2>1
  <2>3. QED BY <1>1, <2>2 DEF Calm
<1>4. ASSUME ViewsInv' /\ Lives /\ FreshStays PROVE AgreeInv' /\ Lives
  BY <1>0, <1>1, <1>4, ActivateKeeps DEF AgreeInv
<1>5. CASE Continue(c) \/ DialFails(c) \/ HandshakeFails(c) \/ Loop(c) \/ Deliver(c)
  <2>1. Calm
    BY <1>3, <1>5 DEF Continue, DialFails, HandshakeFails, Loop, Deliver, BusyPCs
  <2>2. UNCHANGED <<conns, balancer, state, inBalancer, net, clientConns>>
    BY <1>5 DEF Continue, DialFails, HandshakeFails, Loop, Deliver, sharedVars, connVars
  <2>3. QED BY <1>0, <1>4, <2>1, <2>2, CalmViews
<1>6. CASE Dialled(c)
  <2>1. PICK n \in Nets :
          /\ Manager(c, "handshake", n)
          /\ Switch(c, Connected(c), [Now(c) EXCEPT !.net = n, !.nets = [@ EXCEPT ![n] = "open"]])
    BY <1>6 DEF Dialled
  <2> DEFINE w == [Now(c) EXCEPT !.net = n, !.nets = [@ EXCEPT ![n] = "open"]]
  <2>2. w \in Handed /\ w.net = n
    BY <1>0 DEF Handed, NetStates
  <2>3. Switch(c, Connected(c), w)
    BY <2>1
  <2> HIDE DEF w
  <2>4. /\ Connected(c) \in States /\ Legal(c, Connected(c)) /\ Connected(c) # "disconnected"
        /\ state[c] \in Fresh => Connected(c) \in Fresh
    BY <1>0 DEF Connected, SwitchTypes, States, Legal, Fresh, OnNet
  <2>5. Views(c, Connected(c), w)
    BY <1>0, <1>1, <2>2, <2>3, <2>4, SectionViews
  <2>6. /\ mnet'[c] = w.net /\ w.net # NoNet /\ mpc'[c] = "handshake"
        /\ \A d \in Conns \ {c} : mpc'[d] = mpc[d] /\ mnet'[d] = mnet[d]
    BY <1>0, <2>1, <2>2 DEF Manager, Nets, NoNet
  <2>7. \A d \in Conns : mpc'[d] = "new" => mpc[d] = "new"
    BY <2>6
  <2>8. ViewsInv' /\ Lives
    BY <1>0, <1>1, <1>2, <2>4, <2>5, <2>6, <2>7, ViewsKeep
  <2>9. FreshStays
    BY <1>0, <2>4, <2>5 DEF Views, FreshStays, SwitchTypes
  <2>10. QED BY <1>4, <2>8, <2>9
<1>7. CASE Handshaken(c)
  <2> DEFINE w == [Now(c) EXCEPT !.nets = CloseNet(@, mnet[c])]
  <2>1. /\ mpc[c] = "handshake"
        /\ \/ Switch(c, Checked(c), Now(c)) /\ Manager(c, "read", mnet[c])
           \/ Switch(c, Checked(c), w) /\ Manager(c, "retry", NoNet)
    BY <1>7 DEF Handshaken
  <2>2. w \in Handed /\ w.net = net[c]
    BY <1>0, CloseNetType DEF Handed, SwitchTypes
  <2> HIDE DEF w
  <2>3. /\ Checked(c) \in States /\ Legal(c, Checked(c)) /\ (state[c] \in Fresh => Checked(c) \in Fresh)
    BY <1>0 DEF Checked, SwitchTypes, States, Legal, Fresh, OnNet
  <2>4. Calm
    BY <1>3, <2>1 DEF BusyPCs
  <2>5. QED BY <1>0, <1>2, <1>4, <2>1, <2>2, <2>3, <2>4, SectionKeeps
<1>8. CASE ReadReply(c)
  <2>1. PICK m \in wire :
          /\ mpc[c] = "read"
          /\ IF calls[c][m.id] = NoRpc
             THEN UNCHANGED <<connVars, done, netState, panicked, reply>> /\ Manager(c, "loop", mnet[c])
             ELSE EndCall(c, m.id) /\ Manager(c, "deliver", mnet[c])
    BY <1>8 DEF ReadReply
  <2>2. m.id \in Ids
    BY DEF TypeInv, TypeOK, CallerTypes, Messages
  <2>3. Calm
    BY <1>3, <2>1 DEF BusyPCs
  <2>4. CASE calls[c][m.id] = NoRpc
    <3>1. UNCHANGED <<conns, balancer, state, inBalancer, net, clientConns>>
      BY <2>1, <2>4 DEF connVars
    <3>2. QED BY <1>0, <1>4, <2>3, <3>1, CalmViews
  <2>5. CASE calls[c][m.id] # NoRpc
    BY <1>0, <1>2, <1>4, <2>1, <2>2, <2>3, <2>5, EndCallKeeps
  <2>6. QED BY <2>4, <2>5
<1>9. CASE ReadFails(c)
  <2>1. Fail(c, Now(c)) /\ Manager(c, "retry", NoNet)
    BY <1>9 DEF ReadFails
  <2>2. Calm
    BY <1>3, <2>1 DEF BusyPCs
  <2>3. QED BY <1>0, <1>2, <1>4, <2>1, <2>2, FailKeeps
<1>10. QED BY <1>5, <1>6, <1>7, <1>8, <1>9 DEF ManagerStep

(* What the steps of a stub's tables have to keep.                         *)
LEMMA RegisterAgree ==
  ASSUME ConstantsAssumption, TypeInv, AgreeInv, NEW rc \in Stubs, Register(rc)
  PROVE  AgreeInv' /\ Lives
<1> DEFINE a == looked[rc].addr
           c == IF looked[rc].conn # NoConn THEN looked[rc].conn ELSE clientConns[a]
<1>0. /\ Agreement /\ NewOK /\ TableOK /\ LookedOK /\ ListedOK /\ DownOK /\ ActivateOK
      /\ state \in [Conns -> States] /\ rcs \in [Conns -> SUBSET Stubs] /\ balancer \in [Stubs -> [Conns -> Nat]]
      /\ conns \in [Stubs -> [Addrs -> Conns \cup {NoConn}]] /\ clientConns \in [Addrs -> Conns \cup {NoConn}]
      /\ AddrOf \in [Conns -> Addrs] /\ NoConn \notin Conns /\ looked \in [Stubs -> Looks]
      /\ mpc \in [Conns -> ManagerPCs]
  BY DEF AgreeInv, ViewsInv, TypeInv, TypeOK, StubTypes, ConnTypes, ManagerTypes, ConstantsAssumption
<1>1. /\ looked[rc] # NoLook /\ looked' = [looked EXCEPT ![rc] = NoLook]
      /\ \/ c # NoConn /\ RegisterExisting(rc, c)
         \/ c = NoConn /\ \E f \in Conns : AddrOf[f] = a /\ RegisterNew(rc, f)
      /\ UNCHANGED <<mnet, loc, pc>>
  BY DEF Register, Handled, callerVars
<1>2. /\ a \in Addrs /\ conns[rc][a] = NoConn /\ looked[rc].conn \in Conns \cup {NoConn}
      /\ looked[rc].conn # NoConn => AddrOf[looked[rc].conn] = a
  BY <1>0, <1>1 DEF LookedOK, Looks
<1>3. \A r \in Stubs : looked'[r] \in {looked[r], NoLook}
  BY <1>0, <1>1
<1>4. LookedOK' /\ \A d \in Conns, r \in Stubs : looked'[r].conn = d => looked[r].conn = d
  <2>1. ASSUME NEW r \in Stubs, looked'[r] # NoLook
        PROVE  looked'[r] = looked[r] /\ conns'[r] = conns[r]
    <3>1. r # rc
      BY <1>0, <1>1, <2>1
    <3>2. PICK e \in Conns : conns' = [conns EXCEPT ![rc][AddrOf[e]] = e]
      <4>1. clientConns[a] \in Conns \cup {NoConn}
        BY <1>0, <1>2
      <4>2. c \in Conns \cup {NoConn}
        BY <1>2, <4>1
      <4> HIDE DEF c
      <4>3. QED BY <1>1, <4>2 DEF RegisterExisting, RegisterNew
    <3>3. conns'[r] = conns[r]
      BY <1>0, <3>1, <3>2
    <3>4. QED BY <1>3, <2>1, <3>3
  <2>2. LookedOK'
    BY <1>0, <2>1 DEF LookedOK
  <2>3. NoLook.conn = NoConn
    BY DEF NoLook
  <2>4. QED BY <1>0, <2>1, <2>2, <2>3
<1>5. \A d \in Conns : AddrOf[d] = a =>
        /\ balancer[rc][d] > 0 => rc \in rcs[d]
        /\ rc \in rcs[d] => state[d] = "missing"
        /\ balancer[rc][d] \in Nat
  BY <1>0, <1>2 DEF ListedOK
<1>6. CASE c # NoConn /\ RegisterExisting(rc, c)
  <2>1. c \in Conns /\ AddrOf[c] = a
    <3>1. CASE looked[rc].conn # NoConn
      BY <1>2, <3>1
    <3>2. CASE looked[rc].conn = NoConn
      BY <1>0, <1>2, <1>6, <3>2 DEF TableOK
    <3>3. QED BY <3>1, <3>2
  <2>2. mpc[c] # "new"
    <3>1. CASE looked[rc].conn # NoConn
      BY <1>0, <2>1, <3>1 DEF NewOK, Unmade
    <3>2. CASE looked[rc].conn = NoConn
      <4>1. state[c] # "missing"
        BY <1>0, <2>1, <3>2 DEF Agreement
      <4>2. QED BY <1>0, <2>1, <4>1 DEF NewOK, Unmade
    <3>3. QED BY <3>1, <3>2
  <2> HIDE DEF c
  <2>3. /\ rcs' = [rcs EXCEPT ![c] = @ \cup {rc}] /\ conns' = [conns EXCEPT ![rc][a] = c]
        /\ balancer' = IF rc \notin rcs[c] /\ state[c] \in {"idle", "active"}
                       THEN [balancer EXCEPT ![rc][c] = @ + 1]
                       ELSE balancer
        /\ UNCHANGED <<state, inBalancer, net, clientConns, mpc>>
    BY <1>6, <2>1 DEF RegisterExisting
  <2> HIDE DEF a
  <2>4. \A r \in Stubs, d \in Conns : r # rc \/ d # c => balancer'[r][d] = balancer[r][d]
    <3>1. CASE balancer' = balancer
      BY <3>1
    <3>2. CASE balancer' = [balancer EXCEPT ![rc][c] = @ + 1]
      BY <1>0, <2>1, <3>2
    <3>3. QED BY <2>3, <3>1, <3>2
  <2>5. balancer'[rc][c] = IF inBalancer[c] THEN 1 ELSE 0
    <3>1. CASE rc \notin rcs[c]
      <4>1. balancer[rc][c] = 0
        BY <1>5, <2>1, <3>1
      <4>2. CASE state[c] \in {"idle", "active"}
        <5>1. inBalancer[c] /\ balancer' = [balancer EXCEPT ![rc][c] = @ + 1]
          BY <1>0, <2>1, <2>3, <3>1, <4>2 DEF TableOK
        <5>2. QED BY <1>0, <2>1, <4>1, <5>1
      <4>3. CASE state[c] \notin {"idle", "active"}
        BY <1>0, <2>1, <2>3, <4>1, <4>3 DEF TableOK
      <4>4. QED BY <4>2, <4>3
    <3>2. CASE rc \in rcs[c]
      BY <1>0, <2>1, <2>3, <3>2 DEF Agreement
    <3>3. QED BY <3>1, <3>2
  <2>6. \A d \in Conns : rcs'[d] = IF d = c THEN rcs[c] \cup {rc} ELSE rcs[d]
    BY <1>0, <2>1, <2>3
  <2>7. \A r \in Stubs, b \in Addrs : conns'[r][b] = IF r = rc /\ b = a THEN c ELSE conns[r][b]
    BY <1>0, <1>2, <2>3
  <2>8. Agreement'
    <3>1. \A d \in Conns : \A r \in rcs'[d] : balancer'[r][d] = IF inBalancer'[d] THEN 1 ELSE 0
      <4> SUFFICES ASSUME NEW d \in Conns, NEW r \in rcs'[d]
                   PROVE  balancer'[r][d] = IF inBalancer[d] THEN 1 ELSE 0
        BY <2>3
      <4>1. CASE d = c /\ r = rc
        BY <2>5, <4>1
      <4>2. CASE ~(d = c /\ r = rc)
        <5>1. r \in rcs[d] /\ r \in Stubs
          BY <1>0, <2>6, <4>2
        <5>2. balancer'[r][d] = balancer[r][d]
          BY <2>4, <4>2, <5>1
        <5>3. QED BY <1>0, <5>1, <5>2 DEF Agreement
      <4>3. QED BY <4>1, <4>2
    <3>2. ~panicked' => ~panicked
      BY DEF Register
    <3>3. QED BY <1>0, <1>1, <2>3, <3>1, <3>2 DEF Agreement
  <2>9. NewOK'
    <3> SUFFICES ASSUME NEW d \in Conns, mpc'[d] = "new" PROVE Unmade(d)'
      BY DEF NewOK
    <3>1. d # c /\ Unmade(d)
      BY <1>0, <2>2, <2>3 DEF NewOK
    <3>2. QED BY <1>1, <1>4, <2>3, <2>4, <2>6, <3>1 DEF Unmade
  <2>10. TableOK'
    BY <1>0, <2>1, <2>3, <2>7 DEF TableOK
  <2>11. ListedOK'
    <3> SUFFICES ASSUME NEW r \in Stubs, NEW d \in Conns
                 PROVE  /\ balancer'[r][d] > 0 /\ r \notin rcs'[d] => conns'[r][AddrOf[d]] = d
                        /\ r \in rcs'[d] /\ state[d] # "missing" => conns'[r][AddrOf[d]] = d
      BY <2>3 DEF ListedOK
    <3>1. CASE d = c /\ r = rc
      BY <1>2, <2>1, <2>7, <3>1
    <3>2. CASE ~(d = c /\ r = rc)
      <4>1. balancer'[r][d] = balancer[r][d] /\ (r \in rcs'[d] <=> r \in rcs[d]) /\ AddrOf[d] \in Addrs
        BY <1>0, <2>4, <2>6, <3>2
      <4>2. CASE r = rc /\ AddrOf[d] = a
        BY <1>5, <4>1, <4>2
      <4>3. CASE ~(r = rc /\ AddrOf[d] = a)
        BY <1>0, <2>7, <4>1, <4>3 DEF ListedOK
      <4>4. QED BY <4>2, <4>3
    <3>3. QED BY <3>1, <3>2
  <2>12. DownOK' /\ ActivateOK' /\ Lives
    BY <1>0, <1>1, <2>3 DEF DownOK, ActivateOK, Lives
  <2>13. QED BY <1>4, <2>8, <2>9, <2>10, <2>11, <2>12 DEF AgreeInv, ViewsInv
<1>7. CASE c = NoConn /\ \E f \in Conns : AddrOf[f] = a /\ RegisterNew(rc, f)
  <2>1. PICK f \in Conns : AddrOf[f] = a /\ RegisterNew(rc, f)
    BY <1>7
  <2>2. clientConns[a] = NoConn
    BY <1>7
  <2>3. /\ mpc[f] = "new" /\ Unmade(f) /\ inBalancer[f] = FALSE
        /\ rcs' = [rcs EXCEPT ![f] = {rc}] /\ clientConns' = [clientConns EXCEPT ![a] = f]
        /\ conns' = [conns EXCEPT ![rc][a] = f] /\ state' = [state EXCEPT ![f] = "disconnected"]
        /\ mpc' = [mpc EXCEPT ![f] = "retry"]
        /\ UNCHANGED <<balancer, inBalancer, net>>
    <3>1. inBalancer \in [Conns -> BOOLEAN]
      BY DEF TypeInv, TypeOK, ConnTypes
    <3>2. mpc[f] = "new" /\ Unmade(f)
      BY <1>0, <2>1 DEF NewOK, RegisterNew
    <3>3. inBalancer[f] = FALSE
      BY <1>0, <3>1, <3>2 DEF TableOK, Unmade
    <3>4. QED BY <2>1, <3>2, <3>3 DEF RegisterNew
  <2> HIDE DEF c, a
  <2>4. /\ \A d \in Conns : rcs'[d] = IF d = f THEN {rc} ELSE rcs[d]
        /\ \A d \in Conns : state'[d] = IF d = f THEN "disconnected" ELSE state[d]
        /\ \A d \in Conns : mpc'[d] = IF d = f THEN "retry" ELSE mpc[d]
        /\ \A b \in Addrs : clientConns'[b] = IF b = a THEN f ELSE clientConns[b]
        /\ \A r \in Stubs, b \in Addrs : conns'[r][b] = IF r = rc /\ b = a THEN f ELSE conns[r][b]
    BY <1>0, <1>2, <2>3
  <2>5. Agreement'
    <3>1. \A d \in Conns : \A r \in rcs'[d] : balancer'[r][d] = IF inBalancer'[d] THEN 1 ELSE 0
      <4> SUFFICES ASSUME NEW d \in Conns, NEW r \in rcs'[d]
                   PROVE  balancer[r][d] = IF inBalancer[d] THEN 1 ELSE 0
        BY <2>3
      <4>1. CASE d = f
        BY <2>3, <2>4, <4>1 DEF Unmade
      <4>2. CASE d # f
        BY <1>0, <2>4, <4>2 DEF Agreement
      <4>3. QED BY <4>1, <4>2
    <3>2. \A d \in Conns : (state'[d] # "missing") <=> (clientConns'[AddrOf[d]] = d)
      <4> SUFFICES ASSUME NEW d \in Conns
                   PROVE  (state'[d] # "missing") <=> (clientConns'[AddrOf[d]] = d)
        OBVIOUS
      <4>1. ((state[d] # "missing") <=> (clientConns[AddrOf[d]] = d)) /\ AddrOf[d] \in Addrs
        BY <1>0 DEF Agreement
      <4>2. CASE d = f
        BY <2>1, <2>4, <4>1, <4>2
      <4>3. CASE d # f
        BY <1>0, <2>2, <2>4, <4>1, <4>3
      <4>4. QED BY <4>2, <4>3
    <3>3. ASSUME ~panicked', NEW d \in Conns, state'[d] \in OnNet
          PROVE  net'[d] # NoNet /\ (mpc'[d] \in BusyPCs => net'[d] = mnet'[d])
      <4>1. d # f
        BY <2>4, <3>3 DEF OnNet
      <4>2. ~panicked
        BY <3>3 DEF Register
      <4>3. QED BY <1>0, <1>1, <2>3, <2>4, <3>3, <4>1, <4>2 DEF Agreement, BusyPCs
    <3>4. QED BY <3>1, <3>2, <3>3 DEF Agreement, BusyPCs
  <2>6. NewOK'
    <3> SUFFICES ASSUME NEW d \in Conns, mpc'[d] = "new" PROVE Unmade(d)'
      BY DEF NewOK
    <3>1. d # f /\ Unmade(d)
      BY <1>0, <2>4 DEF NewOK
    <3>2. QED BY <1>1, <1>4, <2>3, <2>4, <3>1 DEF Unmade
  <2>7. TableOK'
    <3>1. \A d \in Conns : inBalancer'[d] <=> state'[d] \in {"idle", "active"}
      BY <1>0, <2>3, <2>4 DEF TableOK
    <3>2. \A b \in Addrs : clientConns'[b] # NoConn => AddrOf[clientConns'[b]] = b
      BY <1>0, <2>1, <2>4 DEF TableOK
    <3>3. \A r \in Stubs, b \in Addrs : conns'[r][b] # NoConn => AddrOf[conns'[r][b]] = b
      BY <1>0, <2>1, <2>4 DEF TableOK
    <3>4. QED BY <3>1, <3>2, <3>3 DEF TableOK
  <2>8. ListedOK'
    <3> SUFFICES ASSUME NEW r \in Stubs, NEW d \in Conns
                 PROVE  /\ balancer[r][d] > 0 /\ r \notin rcs'[d] => conns'[r][AddrOf[d]] = d
                        /\ r \in rcs'[d] /\ state'[d] # "missing" => conns'[r][AddrOf[d]] = d
      BY <2>3 DEF ListedOK
    <3>1. CASE d = f
      <4>1. balancer[r][d] = 0 /\ rcs'[d] = {rc}
        BY <2>3, <2>4, <3>1 DEF Unmade
      <4>2. QED BY <1>2, <2>1, <2>4, <3>1, <4>1
    <3>2. CASE d # f
      <4>1. rcs'[d] = rcs[d] /\ state'[d] = state[d] /\ AddrOf[d] \in Addrs
        BY <1>0, <2>4, <3>2
      <4>2. CASE r = rc /\ AddrOf[d] = a
        BY <1>5, <4>1, <4>2
      <4>3. CASE ~(r = rc /\ AddrOf[d] = a)
        BY <1>0, <2>4, <4>1, <4>3 DEF ListedOK
      <4>4. QED BY <4>2, <4>3
    <3>3. QED BY <3>1, <3>2
  <2>9. DownOK' /\ Lives
    BY <1>0, <2>3, <2>4 DEF DownOK, Lives, Unmade
  <2>10. ActivateOK'
    <3>1. \A k \in Callers : pc[k] = "activate" => loc[k].conn \in Conns
      BY DEF TypeInv, PlaceOK
    <3>2. QED BY <1>0, <1>1, <2>4, <3>1 DEF ActivateOK, Fresh
  <2>11. QED BY <1>4, <2>5, <2>6, <2>7, <2>8, <2>9, <2>10 DEF AgreeInv, ViewsInv
<1>8. QED BY <1>1, <1>6, <1>7

LEMMA DropAgree ==
  ASSUME OneStub, ConstantsAssumption, TypeInv, LockOK, AgreeInv, ~panicked, NEW rc \in Stubs,
         DropEndpoint(rc)
  PROVE  AgreeInv' /\ Lives
<1>0. /\ ViewsInv /\ ActivateOK /\ NewOK /\ TableOK /\ SwitchTypes
      /\ conns \in [Stubs -> [Addrs -> Conns \cup {NoConn}]] /\ rcs \in [Conns -> SUBSET Stubs]
      /\ todo \in [Stubs -> SUBSET Addrs] /\ looked \in [Stubs -> Looks]
  BY TypesSplit DEF AgreeInv, ViewsInv, TypeInv, TypeOK, StubTypes, ConnTypes
<1>1. PICK a \in Addrs :
        LET c == conns[rc][a] IN
        /\ a \in todo[rc] /\ Handled(rc, a)
        /\ IF c # NoConn /\ rc \in rcs[c]
           THEN /\ rcs' = [rcs EXCEPT ![c] = @ \ {rc}]
                /\ Switch(c, IF rcs[c] = {rc} THEN Unregister(c) ELSE state[c], Now(c))
           ELSE UNCHANGED <<rcs, connVars, done, netState, panicked>>
  BY <1>0 DEF DropEndpoint
<1>2. UNCHANGED <<mpc, mnet, pc, loc>> /\ \A r \in Stubs : looked'[r] \in {looked[r], NoLook}
  BY <1>0, <1>1 DEF DropEndpoint, Handled, mgrVars, callerVars
<1>3. ActivateOK'
  <2>1. \A k \in Callers : StubOf[k] = rc /\ lock[rc] = Updater
    BY <1>1 DEF OneStub, ConstantsAssumption, LockOK
  <2>2. \A k \in Callers : pc[k] # "activate"
    BY <2>1 DEF LockOK, Locked, ConstantsAssumption
  <2>3. QED BY <1>2, <2>2 DEF ActivateOK
<1> DEFINE c == conns[rc][a]
           s == IF rcs[c] = {rc} THEN Unregister(c) ELSE state[c]
<1>4. CASE c # NoConn /\ rc \in rcs[c]
  <2>1. /\ c \in Conns /\ rcs' = [rcs EXCEPT ![c] = @ \ {rc}] /\ Switch(c, s, Now(c))
        /\ conns[rc][AddrOf[c]] = c
    BY <1>0, <1>1, <1>4 DEF TableOK
  <2>2. mpc[c] # "new"
    BY <1>0, <1>4, <2>1 DEF NewOK, Unmade
  <2>3. /\ state[c] \in States /\ Unregister(c) \in States /\ Legal(c, Unregister(c)) /\ Legal(c, state[c])
    BY <1>0, <2>1 DEF Unregister, SwitchTypes, States, Legal, OnNet
  <2>4. s \in States /\ Legal(c, s)
    <3>1. s = Unregister(c) \/ s = state[c]
      OBVIOUS
    <3> HIDE DEF s
    <3>2. QED BY <2>3, <3>1
  <2>5. Now(c) \in Handed /\ Now(c).net = net[c]
    BY <1>0, <2>1, NowType DEF Now
  <2> HIDE DEF c, s
  <2>6. /\ rcs'[c] = rcs[c] \ {rc} /\ \A d \in Conns \ {c} : rcs'[d] = rcs[d]
    BY <1>0, <2>1
  <2>7. Views(c, s, Now(c))
    BY <1>0, <2>1, <2>4, <2>5, <2>6, SectionViews
  <2>8. ViewsInv' /\ Lives
    BY <1>0, <1>2, <2>1, <2>2, <2>4, <2>5, <2>6, <2>7, ViewsKeep
  <2>9. QED BY <1>3, <2>8 DEF AgreeInv
<1>5. CASE ~(c # NoConn /\ rc \in rcs[c])
  <2>1. UNCHANGED <<conns, balancer, state, inBalancer, net, clientConns, rcs>>
    BY <1>1, <1>5 DEF connVars
  <2>2. Calm
    BY <1>2, <2>1 DEF Calm
  <2>3. QED BY <1>0, <1>3, <2>1, <2>2, CalmViews DEF AgreeInv
<1>6. QED BY <1>4, <1>5

LEMMA UpdateAgree ==
  ASSUME OneStub, ConstantsAssumption, TypeInv, LockOK, AgreeInv, ~panicked, NEW rc \in Stubs,
         UpdateEndpoints(rc) \/ UpdateStep(rc) \/ Close(rc)
  PROVE  AgreeInv' /\ Lives
<1>0. /\ ViewsInv /\ Agreement /\ NewOK /\ TableOK /\ LookedOK /\ ListedOK /\ DownOK /\ ActivateOK
      /\ conns \in [Stubs -> [Addrs -> Conns \cup {NoConn}]] /\ rcs \in [Conns -> SUBSET Stubs]
      /\ clientConns \in [Addrs -> Conns \cup {NoConn}]
      /\ todo \in [Stubs -> SUBSET Addrs] /\ looked \in [Stubs -> Looks] /\ NoConn \notin Conns
  BY DEF AgreeInv, ViewsInv, TypeInv, TypeOK, StubTypes, ConnTypes, ConstantsAssumption
<1>1. ASSUME ViewsInv' /\ Lives /\ FreshStays, UNCHANGED <<pc, loc>> PROVE AgreeInv' /\ Lives
  BY <1>0, <1>1, ActivateKeeps DEF AgreeInv
<1>2. CASE UpdateEndpoints(rc) \/ KeepEndpoint(rc)
  <2>1. UNCHANGED <<conns, balancer, state, inBalancer, net, clientConns, rcs, mpc, mnet, pc, loc>>
    BY <1>2 DEF UpdateEndpoints, KeepEndpoint, sharedVars, connVars, mgrVars, callerVars
  <2>2. \A r \in Stubs : looked'[r] \in {looked[r], NoLook}
    BY <1>0, <1>2 DEF UpdateEndpoints, KeepEndpoint, Handled
  <2>3. Calm
    BY <2>1, <2>2 DEF Calm
  <2>4. QED BY <1>0, <1>1, <2>1, <2>3, CalmViews
<1>3. CASE Lookup(rc)
  <2>1. PICK a \in Addrs :
          /\ conns[rc][a] = NoConn
          /\ looked' = [looked EXCEPT ![rc] = [addr |-> a, conn |-> clientConns[a]]]
    BY <1>0, <1>3 DEF Lookup
  <2>2. UNCHANGED <<conns, balancer, state, inBalancer, net, clientConns, rcs, mpc, mnet, pc, loc>>
    BY <1>3 DEF Lookup, sharedVars, connVars, mgrVars, callerVars
  <2>3. /\ looked'[rc] = [addr |-> a, conn |-> clientConns[a]]
        /\ \A r \in Stubs \ {rc} : looked'[r] = looked[r]
    BY <1>0, <2>1
  <2>4. looked'[rc].addr = a /\ looked'[rc].conn = clientConns[a]
    BY <2>3
  <2>5. LookedOK'
    BY <1>0, <2>1, <2>2, <2>3, <2>4 DEF LookedOK, TableOK
  <2>6. \A d \in Conns : mpc[d] = "new" => clientConns[a] # d
    BY <1>0 DEF NewOK, Unmade, Agreement, TableOK
  <2>7. \A d \in Conns : mpc[d] = "new" => \A r \in Stubs : looked'[r].conn # d
    BY <1>0, <2>3, <2>4, <2>6 DEF NewOK, Unmade
  <2>8. \A d \in Conns : mpc[d] = "new" => \A k \in Callers : loc[k].conn # d
    BY <1>0 DEF NewOK, Unmade
  <2>9. ViewsInv' /\ Lives /\ FreshStays
    BY <1>0, <2>2, <2>5, <2>7, <2>8, QuietViews
  <2>10. QED BY <1>1, <2>2, <2>9
<1>4. CASE Register(rc)
  BY <1>4, RegisterAgree
<1>5. CASE DropEndpoint(rc)
  BY <1>5, DropAgree
<1>6. CASE Close(rc)
  <2>1. /\ rcs' = [c \in Conns |-> IF \E a \in Addrs : conns[rc][a] = c THEN rcs[c] \ {rc} ELSE rcs[c]]
        /\ UNCHANGED <<conns, balancer, state, inBalancer, net, clientConns, looked, mpc, mnet, pc, loc, panicked>>
    BY <1>6 DEF Close, connVars, mgrVars, callerVars
  <2>2. \A c \in Conns : /\ rcs'[c] \subseteq rcs[c]
                         /\ \A r \in rcs[c] \ rcs'[c] : r = rc /\ conns[rc][AddrOf[c]] = c
    BY <1>0, <2>1 DEF TableOK
  <2>3. Agreement'
    BY <1>0, <2>1, <2>2 DEF Agreement
  <2>4. NewOK' /\ TableOK' /\ LookedOK' /\ DownOK' /\ ActivateOK' /\ Lives
    BY <1>0, <2>1, <2>2 DEF NewOK, Unmade, TableOK, LookedOK, DownOK, ActivateOK, Lives
  <2>5. ListedOK'
    BY <1>0, <2>1, <2>2 DEF ListedOK
  <2>6. QED BY <2>3, <2>4, <2>5 DEF AgreeInv, ViewsInv
<1>7. QED BY <1>2, <1>3, <1>4, <1>5, <1>6 DEF UpdateStep

LEMMA OtherAgree ==
  ASSUME ConstantsAssumption, TypeInv, AgreeInv, ~panicked,
         (\E m \in wire : Serve(m)) \/ \E n \in Nets : Break(n)
  PROVE  AgreeInv' /\ Lives
<1>1. UNCHANGED <<conns, balancer, state, inBalancer, net, clientConns, rcs, looked, mpc, mnet, pc, loc>>
  BY DEF Serve, Break, stubVars, connVars, mgrVars, callerVars
<1>2. Calm
  BY <1>1 DEF Calm
<1>3. ViewsInv' /\ Lives /\ FreshStays
  BY <1>1, <1>2, CalmViews DEF AgreeInv
<1>4. ActivateOK'
  BY <1>1 DEF AgreeInv, ActivateOK
<1>5. QED BY <1>3, <1>4 DEF AgreeInv

LEMMA InitAgree == ConstantsAssumption /\ Init => AgreeInv
<1> SUFFICES ASSUME ConstantsAssumption, Init PROVE AgreeInv
  OBVIOUS
<1>1. /\ \A rc \in Stubs, a \in Addrs : conns[rc][a] = NoConn
      /\ \A rc \in Stubs, c \in Conns : balancer[rc][c] = 0
      /\ \A rc \in Stubs : looked[rc] = NoLook
      /\ \A a \in Addrs : clientConns[a] = NoConn
      /\ \A k \in Callers : pc[k] = "pick" /\ loc[k] = [conn |-> NoConn, id |-> 0, net |-> NoNet]
  BY DEF Init
<1>2. \A c \in Conns : /\ state[c] = "missing" /\ rcs[c] = {} /\ inBalancer[c] = FALSE
                       /\ net[c] = NoNet /\ AddrOf[c] \in Addrs /\ c # NoConn
  BY DEF Init, ConstantsAssumption
<1>3. (\A rc \in Stubs : looked[rc].conn = NoConn) /\ \A k \in Callers : loc[k].conn = NoConn
  BY <1>1 DEF NoLook
<1>4. NewOK
  BY <1>1, <1>2, <1>3 DEF NewOK, Unmade
<1>5. Agreement
  BY <1>1, <1>2 DEF Agreement, OnNet
<1>6. TableOK /\ LookedOK /\ ListedOK /\ DownOK /\ ActivateOK
  BY <1>1, <1>2 DEF TableOK, LookedOK, ListedOK, DownOK, ActivateOK
<1>7. QED BY <1>4, <1>5, <1>6 DEF AgreeInv, ViewsInv

LEMMA NextAgree ==
  ASSUME OneStub, ConstantsAssumption, TypeInv, OwnInv, AgreeInv, [Next]_vars
  PROVE  AgreeInv' /\ Lives
<1>1. OneCallerStub /\ LockOK
  BY DEF OneStub, OneCallerStub, ConstantsAssumption, OwnInv
<1>2. CASE Next
  <2>1. ~panicked
    BY <1>2 DEF Next
  <2>2. CASE \E k \in Callers : CallerStep(k) \/ GiveUpPicking(k) \/ GiveUpWaiting(k)
    BY <1>1, <2>1, <2>2, CallerAgree
  <2>3. CASE \E c \in Conns : ManagerStep(c) \/ DialFails(c)
    BY <2>1, <2>3, ManagerAgree
  <2>4. CASE \E rc \in Stubs : UpdateEndpoints(rc) \/ UpdateStep(rc) \/ Close(rc)
    BY <1>1, <2>1, <2>4, UpdateAgree
  <2>5. CASE (\E m \in wire : Serve(m)) \/ \E n \in Nets : Break(n)
    BY <2>1, <2>5, OtherAgree
  <2>6. QED BY <1>2, <2>2, <2>3, <2>4, <2>5 DEF Next, Step
<1>3. CASE UNCHANGED vars
  <2>1. UNCHANGED <<conns, balancer, state, inBalancer, net, clientConns, rcs, looked, mpc, mnet, pc, loc, panicked>>
    BY <1>3 DEF vars, stubVars, sharedVars, connVars, mgrVars, callerVars
  <2>2. AgreeInv'
    BY <2>1 DEF AgreeInv, ViewsInv, Agreement, NewOK, Unmade, TableOK, LookedOK, ListedOK, DownOK, ActivateOK
  <2>3. QED BY <2>1, <2>2 DEF Lives
<1>4. QED BY <1>2, <1>3

LEMMA AgreeInvariant == ASSUME OneStub PROVE Spec => []AgreeInv
<1>1. OneCallerStub
  BY ConstantsAssumption DEF OneStub, OneCallerStub, ConstantsAssumption
<1>2. Init => AgreeInv
  BY InitAgree, ConstantsAssumption
<1>3. (TypeInv /\ CallInv) /\ OwnInv /\ AgreeInv /\ [Next]_vars => AgreeInv'
  BY NextAgree, ConstantsAssumption
<1>4. Spec => []OwnInv
  BY <1>1, OwnInvariant
<1>5. QED BY <1>2, <1>3, <1>4, CallsInvariant, PTL DEF Spec

(* With one stub in the process the views of a connection agree: its       *)
(* registered stub lists it once or not at all as the flag says, the       *)
(* manager's table names it exactly while it is not missing, and its       *)
(* manager reads the net.Conn its callers write to (call.go 440-453, 497,  *)
(* 531-533, 548, 765-772).                                                 *)
THEOREM AgreementCorrect == ASSUME OneStub PROVE Spec => []Agreement
<1>1. AgreeInv => Agreement
  BY DEF AgreeInv, ViewsInv
<1>2. QED BY <1>1, AgreeInvariant, PTL

(* With one stub in the process no step, a startCall that races with the   *)
(* manager included, brings back a connection that is missing or draining  *)
(* (call.go 333-352, 420-430, 580-589).                                    *)
THEOREM NoResurrectionCorrect == ASSUME OneStub PROVE Spec => NoResurrection
<1>1. OneCallerStub
  BY ConstantsAssumption DEF OneStub, OneCallerStub, ConstantsAssumption
<1>2. (TypeInv /\ CallInv) /\ OwnInv /\ AgreeInv /\ [Next]_vars =>
        [\A c \in Conns :
           /\ state[c] = "missing" /\ mpc[c] # "new" => state'[c] = "missing"
           /\ state[c] = "draining" => state'[c] \in {"draining", "missing"}]_vars
  BY NextAgree, ConstantsAssumption DEF Lives
<1>3. Spec => []OwnInv
  BY <1>1, OwnInvariant
<1>4. QED BY <1>2, <1>3, AgreeInvariant, CallsInvariant, PTL DEF Spec, NoResurrection
=============================================================================
