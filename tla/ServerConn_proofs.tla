-------------------------- MODULE ServerConn_proofs --------------------------
(***************************************************************************)
(* For any number of connections and requests: the table of cancel         *)
(* functions, the contexts and the handlers agree, and every registered    *)
(* connection has one reader.                                              *)
(*                                                                         *)
(* The invariant adds to CancelTable what a connection may still carry: a  *)
(* request that has not been read is unique and has no handler (Wire).     *)
(* Charge says which goroutine reads a connection, or will, and Deadlines  *)
(* whose contexts time may end.                                            *)
(***************************************************************************)
EXTENDS ServerConn, TLAPS, FiniteSetTheorems

(* The messages on c that have not been read.                              *)
WireOf(c) ==
  \A i \in Ids :
    /\ sent[c][i] = "no" => h[c][i] = "none"
    /\ \A k \in 1..Len(inbox[c]) :
         /\ inbox[c][k] = Request(i) => h[c][i] = "none" /\ sent[c][i] # "no"
         /\ \A j \in 1..Len(inbox[c]) :
              inbox[c][j] = Request(i) /\ inbox[c][k] = Request(i) => j = k

Wire == \A c \in Conns : WireOf(c)

(* CancelTable, NoContextLeak and CancelledForAReason on c, and that the   *)
(* context of a handler that has not started is not cancelled.             *)
TableOf(c) ==
  /\ closed[c] => cancels[c] = {}
  /\ \A i \in Ids :
       /\ i \in cancels[c]
            <=> i \in Known \ cancelled[c] /\ h[c][i] \in {"run", "write", "shutdown", "end"}
       /\ h[c][i] = "done" => i \in cancelled[c]
       /\ h[c][i] \in {"none", "start"} => i \notin cancelled[c]
       /\ i \in cancelled[c] /\ h[c][i] = "run" => closed[c]

Table == \A c \in Conns : TableOf(c)

(* Only a deadline from the header of the request ends a context in time.  *)
Deadlines == \A c \in Conns : expired[c] \subseteq Timed

(* Init has no request.                                                    *)
THEOREM InitServer == Init => TypeOK /\ Wire /\ Table /\ Deadlines
<1> SUFFICES ASSUME Init PROVE TypeOK /\ Wire /\ Table /\ Deadlines
  OBVIOUS
<1>1. Version \in Messages /\ <<Version>> \in Seq(Messages) /\ Len(<<Version>>) = 1 /\ <<Version>>[1] = Version
  BY DEF Messages
<1>2. TypeOK
  BY <1>1, ServerAssumption DEF Init, TypeOK, PerConn, PerRequest, ServerAssumption
<1>3. \A i \in Ids : Version # Request(i) /\ Version # CancelOf(i)
  BY DEF Version, Request, CancelOf
<1>4. Wire
  BY <1>1, <1>3 DEF Init, Wire, WireOf, PerConn, PerRequest
<1>5. Table
  <2>1. /\ \A c \in Conns : closed[c] = FALSE /\ cancels[c] = {} /\ cancelled[c] = {}
        /\ \A c \in Conns, i \in Ids : h[c][i] = "none"
    BY DEF Init, PerConn, PerRequest
  <2>2. QED BY <2>1 DEF Table, TableOf
<1>6. Deadlines
  BY DEF Init, PerConn, Deadlines
<1>7. QED BY <1>2, <1>4, <1>5, <1>6

LEMMA TakeFacts ==
  ASSUME TypeOK, NEW c \in Conns, NEW r \in Readers, NEW kind, Take(c, r, kind)
  PROVE  /\ inbox' \in [Conns -> Seq(Messages)]
         /\ Head(inbox[c]) = inbox[c][1] /\ inbox[c][1] \in Messages /\ 1 \in 1..Len(inbox[c])
         /\ \A k \in 1..Len(inbox'[c]) :
              k + 1 \in 1..Len(inbox[c]) /\ inbox'[c][k] = inbox[c][k + 1] /\ k + 1 # 1
         /\ \A j, k \in 1..Len(inbox'[c]) : j + 1 = k + 1 => j = k
         /\ \A d \in Conns \ {c} : inbox'[d] = inbox[d]
<1>1. inbox[c] \in Seq(Messages) /\ inbox[c] # <<>> /\ inbox' = [inbox EXCEPT ![c] = Tail(@)]
      /\ inbox \in [Conns -> Seq(Messages)]
  BY DEF TypeOK, Take
<1>2. Tail(inbox[c]) \in Seq(Messages) /\ Len(Tail(inbox[c])) = Len(inbox[c]) - 1
      /\ Len(inbox[c]) \in Nat /\ Len(inbox[c]) >= 1
      /\ \A k \in 1..Len(Tail(inbox[c])) : Tail(inbox[c])[k] = inbox[c][k + 1]
  BY <1>1
<1>3. inbox'[c] = Tail(inbox[c]) /\ \A d \in Conns \ {c} : inbox'[d] = inbox[d]
  BY <1>1
<1>4. Head(inbox[c]) = inbox[c][1] /\ inbox[c][1] \in Messages
  BY <1>1, <1>2
<1>5. QED BY <1>1, <1>2, <1>3, <1>4

(* A request message carries a request, a cancel message too.              *)
LEMMA MessageFacts ==
  /\ \A x \in Messages :
       /\ x.kind \in {"request", "cancel"} => x.id \in Ids
       /\ x.kind = "request" => x = Request(x.id)
       /\ x.kind = "cancel" => x = CancelOf(x.id)
  /\ \A i, j \in Ids :
       /\ Request(i) # CancelOf(j)
       /\ Request(i) = Request(j) => i = j
       /\ CancelOf(i) = CancelOf(j) => i = j
  /\ \A i \in Ids : Request(i) \in Messages /\ CancelOf(i) \in Messages
<1>1. ASSUME NEW i \in Ids, NEW j \in Ids
      PROVE  /\ Request(i) # CancelOf(j)
             /\ Request(i) = Request(j) => i = j
             /\ CancelOf(i) = CancelOf(j) => i = j
  <2>1. Request(i).kind = "request" /\ CancelOf(j).kind = "cancel" /\ Request(i).id = i
        /\ Request(j).id = j /\ CancelOf(i).id = i /\ CancelOf(j).id = j
    BY DEF Request, CancelOf
  <2>2. QED BY <2>1
<1>2. ASSUME NEW x \in Messages
      PROVE  /\ x.kind \in {"request", "cancel"} => x.id \in Ids
             /\ x.kind = "request" => x = Request(x.id)
             /\ x.kind = "cancel" => x = CancelOf(x.id)
  <2>1. CASE x = Version
    BY <2>1 DEF Version
  <2>2. ASSUME NEW i \in Ids, x = Request(i) \/ x = CancelOf(i)
        PROVE  /\ x.kind \in {"request", "cancel"} => x.id \in Ids
               /\ x.kind = "request" => x = Request(x.id)
               /\ x.kind = "cancel" => x = CancelOf(x.id)
    BY <2>2 DEF Request, CancelOf
  <2>3. QED BY <2>1, <2>2 DEF Messages
<1>3. QED BY <1>1, <1>2 DEF Messages

LEMMA IdOf ==
  ASSUME NEW x \in Messages, x.kind = "request" \/ x.kind = "cancel"
  PROVE  x.id \in Ids
<1>1. x.kind \in {"request", "cancel"}
  OBVIOUS
<1>2. QED BY <1>1, MessageFacts

RdStates == {"none", "loop", "read", "inline", "shutdown", "leave", "gone"}
HStates  == {"none", "start", "run", "write", "shutdown", "end", "done"}

(* The parts of TypeOK that most actions change.                           *)
RdType     == rd \in [Conns -> [Readers -> RdStates]]
HType      == h \in [Conns -> [Ids -> HStates]]
NetType    == net \in [Conns -> {"backlog", "open", "broken", "closed"}]
CancelType == cancels \in [Conns -> SUBSET Ids] /\ cancelled \in [Conns -> SUBSET Ids]
              /\ closed \in [Conns -> BOOLEAN] /\ expired \in [Conns -> SUBSET Ids]
InlineType == timer \in [Conns -> [Ids -> {"off", "armed", "fired", "stopped"}]]
              /\ runner \in [Conns -> [Ids -> Readers \cup {None}]]
InboxType  == inbox \in [Conns -> Seq(Messages)]
              /\ sent \in [Conns -> [Ids -> {"no", "sent", "cancelled"}]]
ServeType  == /\ serving \in {"accept", "returned"} /\ ctxDone \in BOOLEAN /\ listening \in BOOLEAN
              /\ conns \subseteq Conns /\ panicked \in BOOLEAN
              /\ answered \in [Conns -> SUBSET Ids]

LEMMA TypeParts ==
  TypeOK <=> RdType /\ HType /\ NetType /\ CancelType /\ InlineType /\ InboxType /\ ServeType
BY DEF TypeOK, RdType, HType, NetType, CancelType, InlineType, InboxType, ServeType, RdStates, HStates

LEMMA TypePartsNext ==
  TypeOK' <=> RdType' /\ HType' /\ NetType' /\ CancelType' /\ InlineType' /\ InboxType' /\ ServeType'
BY DEF TypeOK, RdType, HType, NetType, CancelType, InlineType, InboxType, ServeType, RdStates, HStates

LEMMA Nested ==
  ASSUME NEW S, NEW T, NEW U, NEW f \in [S -> [T -> U]], NEW a \in S, NEW b \in T, NEW u \in U
  PROVE  [f EXCEPT ![a][b] = u] \in [S -> [T -> U]]
OBVIOUS

LEMMA Moves ==
  ASSUME TypeOK, NEW c \in Conns
  PROVE  /\ \A r \in Readers, l \in RdStates : Goto(c, r, l) => RdType'
         /\ \A i \in Ids, l \in HStates : Step(c, i, l) => HType'
         /\ CloseNet(c) => NetType'
<1>1. RdType /\ HType /\ NetType
  BY TypeParts
<1>2. ASSUME NEW r \in Readers, NEW l \in RdStates, Goto(c, r, l) PROVE RdType'
  BY <1>1, <1>2, Nested DEF Goto, RdType
<1>3. ASSUME NEW i \in Ids, NEW l \in HStates, Step(c, i, l) PROVE HType'
  BY <1>1, <1>3, Nested DEF Step, HType
<1>4. ASSUME CloseNet(c) PROVE NetType'
  BY <1>1, <1>4 DEF CloseNet, NetType
<1>5. QED BY <1>2, <1>3, <1>4

LEMMA InlineTypes ==
  ASSUME InlineType, NEW c \in Conns, NEW i \in Ids,
         \/ timer' = timer
         \/ \E x \in {"armed", "fired", "stopped"} : timer' = [timer EXCEPT ![c][i] = x],
         \/ runner' = runner
         \/ \E x \in Readers \cup {None} : runner' = [runner EXCEPT ![c][i] = x]
  PROVE  InlineType'
<1> DEFINE T == {"off", "armed", "fired", "stopped"}
           R == Readers \cup {None}
<1>1. timer \in [Conns -> [Ids -> T]] /\ runner \in [Conns -> [Ids -> R]]
  BY DEF InlineType
<1>2. \A x \in {"armed", "fired", "stopped"} : x \in T
  OBVIOUS
<1>3. timer' \in [Conns -> [Ids -> T]]
  <2>1. CASE timer' = timer
    BY <1>1, <2>1
  <2>2. ASSUME NEW x \in T, timer' = [timer EXCEPT ![c][i] = x] PROVE timer' \in [Conns -> [Ids -> T]]
    <3> HIDE DEF T
    <3>1. QED BY <1>1, <2>2, Nested
  <2>3. QED BY <1>2, <2>1, <2>2
<1>4. runner' \in [Conns -> [Ids -> R]]
  <2>1. CASE runner' = runner
    BY <1>1, <2>1
  <2>2. ASSUME NEW x \in R, runner' = [runner EXCEPT ![c][i] = x] PROVE runner' \in [Conns -> [Ids -> R]]
    <3> HIDE DEF R
    <3>1. QED BY <1>1, <2>2, Nested
  <2>3. QED BY <2>1, <2>2
<1>5. QED BY <1>3, <1>4 DEF InlineType

(* The table's types under its operations.                                 *)
LEMMA TableTypes ==
  ASSUME CancelType, NEW c \in Conns, NEW i \in Ids,
         \/ EndRequest(c, i)
         \/ Shutdown(c)
         \/ CancelCtx(c, {i}) /\ UNCHANGED <<closed, cancels, expired>>
  PROVE  CancelType'
<1>1. closed' \in [Conns -> BOOLEAN] /\ expired' \in [Conns -> SUBSET Ids]
  BY DEF CancelType, EndRequest, Shutdown
<1>2. cancels' \in [Conns -> SUBSET Ids]
  BY DEF CancelType, EndRequest, Shutdown
<1>3. PICK s \in SUBSET Ids : cancelled' = [cancelled EXCEPT ![c] = @ \cup s]
  <2>1. PICK s \in {{i}, {i} \cap cancels[c], cancels[c]} : CancelCtx(c, s)
    BY DEF EndRequest, Shutdown
  <2>2. s \in SUBSET Ids
    BY <2>1 DEF CancelType
  <2>3. QED BY <2>1, <2>2 DEF CancelCtx
<1>4. cancelled' \in [Conns -> SUBSET Ids]
  BY <1>3 DEF CancelType
<1>5. QED BY <1>1, <1>2, <1>4 DEF CancelType

(* Every step keeps the types.                                             *)
THEOREM NextType == TypeOK /\ [Next]_vars => TypeOK'
<1> SUFFICES ASSUME TypeOK, [Next]_vars PROVE TypeOK'
  OBVIOUS
<1> USE DEF serveVars, wireVars, connVars, runVars
<1> DEFINE Rest == UNCHANGED <<serving, ctxDone, listening, conns, panicked, answered>>
<1>a. RdType /\ HType /\ NetType /\ CancelType /\ InlineType /\ InboxType /\ ServeType
  BY TypeParts
<1>b. Known \subseteq Ids /\ Main \in Readers /\ \A i \in Ids : i \in Readers
  BY ServerAssumption DEF ServerAssumption, Readers
<1>r. UNCHANGED rd => RdType'
  BY <1>a DEF RdType
<1>h. UNCHANGED h => HType'
  BY <1>a DEF HType
<1>n. UNCHANGED net => NetType'
  BY <1>a DEF NetType
<1>c. UNCHANGED <<closed, cancels, cancelled, expired>> => CancelType'
  BY <1>a DEF CancelType
<1>t. UNCHANGED <<timer, runner>> => InlineType'
  BY <1>a DEF InlineType
<1>m. UNCHANGED <<inbox, sent>> => InboxType'
  BY <1>a DEF InboxType
<1>s. Rest => ServeType'
  BY <1>a DEF ServeType
<1> USE <1>r, <1>h, <1>n, <1>c, <1>t, <1>m, <1>s, TypePartsNext
<1>1. ASSUME CtxEnds \/ CloseListener PROVE TypeOK'
  <2>1. ServeType'
    BY <1>a, <1>1 DEF CtxEnds, CloseListener, ServeType
  <2>2. QED BY <1>1, <2>1 DEF CtxEnds, CloseListener
<1>2. ASSUME Return PROVE TypeOK'
  <2>1. NetType' /\ ServeType'
    BY <1>a, <1>2 DEF Return, NetType, ServeType
  <2>2. QED BY <1>2, <2>1 DEF Return
<1>3. ASSUME NEW c \in Conns, ServeConnection(c) \/ Break(c) PROVE TypeOK'
  <2>1. NetType' /\ ServeType'
    BY <1>a, <1>3 DEF ServeConnection, Break, NetType, ServeType
  <2>2. RdType'
    BY <1>b, <1>3, Moves DEF ServeConnection, Break, RdStates
  <2>3. QED BY <1>3, <2>1, <2>2 DEF ServeConnection, Break
<1>4. ASSUME NEW c \in Conns, NEW i \in Ids, Send(c, i) \/ SendCancel(c, i) PROVE TypeOK'
  <2> DEFINE S == {"no", "sent", "cancelled"}
  <2>0. PICK m \in Messages, x \in S :
          inbox' = [inbox EXCEPT ![c] = Append(@, m)] /\ sent' = [sent EXCEPT ![c][i] = x]
    BY <1>4, MessageFacts DEF Send, SendCancel
  <2>1. inbox' \in [Conns -> Seq(Messages)]
    <3>1. inbox \in [Conns -> Seq(Messages)] /\ Append(inbox[c], m) \in Seq(Messages)
      BY <1>a DEF InboxType
    <3>2. QED BY <2>0, <3>1
  <2>2. sent' \in [Conns -> [Ids -> S]]
    <3>1. sent \in [Conns -> [Ids -> S]]
      BY <1>a DEF InboxType
    <3> HIDE DEF S
    <3>2. QED BY <2>0, <3>1, Nested
  <2>3. QED BY <1>4, <2>1, <2>2 DEF Send, SendCancel, InboxType
<1>5. ASSUME NEW c \in Conns, NEW r \in Readers, Loop(c, r) \/ ReadFails(c, r) PROVE TypeOK'
  <2>1. RdType' /\ NetType'
    BY <1>5, Moves DEF Loop, ReadFails, RdStates
  <2>2. QED BY <1>5, <2>1 DEF Loop, ReadFails
<1>6. ASSUME NEW c \in Conns, NEW r \in Readers, Leave(c, r) PROVE TypeOK'
  <2>1. RdType' /\ ServeType'
    BY <1>a, <1>6, Moves DEF Leave, RdStates, ServeType
  <2>2. QED BY <1>6, <2>1 DEF Leave
<1>7. ASSUME NEW c \in Conns, NEW r \in Readers, ReaderShutdown(c, r) PROVE TypeOK'
  <2>1. CancelType'
    BY <1>a, <1>7 DEF CancelType, ReaderShutdown, Shutdown, CancelCtx
  <2>2. RdType'
    BY <1>7, Moves DEF ReaderShutdown, RdStates
  <2>3. QED BY <1>7, <2>1, <2>2 DEF ReaderShutdown
<1>8. ASSUME NEW c \in Conns, NEW r \in Readers, NEW kind, Take(c, r, kind), UNCHANGED sent
      PROVE  InboxType'
  BY <1>a, <1>8, TakeFacts DEF InboxType
<1>9. ASSUME NEW c \in Conns, NEW r \in Readers, ReadVersion(c, r) PROVE TypeOK'
  <2>1. InboxType'
    BY <1>8, <1>9 DEF ReadVersion
  <2>2. RdType' /\ NetType'
    BY <1>9, Moves DEF ReadVersion, RdStates
  <2>3. QED BY <1>9, <2>1, <2>2 DEF ReadVersion
<1>10. ASSUME NEW c \in Conns, NEW r \in Readers, ReadRequest(c, r) PROVE TypeOK'
  <2> DEFINE i == Head(inbox[c]).id
  <2>1. InboxType'
    BY <1>8, <1>10 DEF ReadRequest
  <2>2. i \in Ids
    <3>1. Take(c, r, "request") /\ Head(inbox[c]).kind = "request"
      BY <1>10 DEF ReadRequest, Take
    <3>2. Head(inbox[c]) \in Messages
      BY <3>1, TakeFacts
    <3>3. QED BY <3>1, <3>2, IdOf DEF i
  <2> HIDE DEF i
  <2>3. /\ Step(c, i, "start") /\ (Goto(c, r, "inline") \/ Goto(c, r, "loop"))
        /\ \/ UNCHANGED <<runner, timer>>
           \/ /\ runner' = [runner EXCEPT ![c][i] = r]
              /\ timer' = [timer EXCEPT ![c][i] = "armed"]
        /\ UNCHANGED <<serveVars, net, connVars, answered>>
    BY <1>10 DEF ReadRequest, i
  <2>4. RdType' /\ HType'
    BY <2>2, <2>3, Moves DEF RdStates, HStates
  <2>5. InlineType'
    BY <1>a, <2>2, <2>3, InlineTypes
  <2>6. QED BY <2>1, <2>3, <2>4, <2>5
<1>11. ASSUME NEW c \in Conns, NEW r \in Readers, ReadCancel(c, r) PROVE TypeOK'
  <2>1. InboxType'
    BY <1>8, <1>11 DEF ReadCancel
  <2>2. NetType' /\ ServeType'
    BY <1>a, <1>11 DEF ReadCancel, PerConn, NetType, ServeType
  <2>3. QED BY <1>11, <2>1, <2>2 DEF ReadCancel
<1>12. ASSUME NEW c \in Conns, NEW r \in Readers, NEW i \in Ids, AfterHandler(c, r, i)
       PROVE  TypeOK'
  <2>1. RdType'
    BY <1>12, Moves DEF AfterHandler, RdStates
  <2>2. InlineType'
    BY <1>a, <1>b, <1>12, InlineTypes DEF AfterHandler
  <2>3. QED BY <1>12, <2>1, <2>2 DEF AfterHandler
<1>13. ASSUME NEW c \in Conns, NEW i \in Ids, TimerFires(c, i) PROVE TypeOK'
  <2>1. RdType'
    BY <1>b, <1>13, Moves DEF TimerFires, RdStates
  <2>2. InlineType'
    BY <1>a, <1>13, InlineTypes DEF TimerFires
  <2>3. QED BY <1>13, <2>1, <2>2 DEF TimerFires
<1>14. ASSUME NEW c \in Conns, NEW i \in Ids, Start(c, i) PROVE TypeOK'
  <2>1. HType'
    BY <1>14, Moves DEF Start, HStates
  <2>2. CancelType'
    BY <1>a, <1>14 DEF Start, CancelType, CancelCtx
  <2>3. QED BY <1>14, <2>1, <2>2 DEF Start
<1>15. ASSUME NEW c \in Conns, NEW i \in Ids, Finish(c, i) \/ WriteReply(c, i) PROVE TypeOK'
  <2>1. HType' /\ NetType'
    BY <1>15, Moves DEF Finish, WriteReply, HStates
  <2>2. ServeType'
    BY <1>a, <1>15 DEF Finish, WriteReply, ServeType
  <2>3. QED BY <1>15, <2>1, <2>2 DEF Finish, WriteReply
<1>16. ASSUME NEW c \in Conns, NEW i \in Ids, HandlerShutdown(c, i) \/ End(c, i) PROVE TypeOK'
  <2>1. HType'
    BY <1>16, Moves DEF HandlerShutdown, End, HStates
  <2>2. CancelType'
    BY <1>a, <1>16, TableTypes DEF HandlerShutdown, End
  <2>3. QED BY <1>16, <2>1, <2>2 DEF HandlerShutdown, End
<1>17. CASE UNCHANGED vars
  BY <1>17 DEF vars
<1>18. ASSUME NEW c \in Conns, NEW i \in Ids, DeadlinePasses(c, i) PROVE TypeOK'
  <2>1. CancelType'
    BY <1>a, <1>18 DEF DeadlinePasses, CancelType
  <2>2. QED BY <1>18, <2>1 DEF DeadlinePasses
<1>19. QED BY <1>1, <1>2, <1>3, <1>4, <1>5, <1>6, <1>7, <1>9, <1>10, <1>11, <1>12, <1>13,
              <1>14, <1>15, <1>16, <1>17, <1>18 DEF Next, ReaderStep, HandlerStep

(* Every variable keeps its type.                                          *)
THEOREM TypeCorrect == Spec => []TypeOK
BY InitServer, NextType, PTL DEF Spec

-----------------------------------------------------------------------------
(* A connection whose messages stay, and whose handlers do not start.      *)
LEMMA SameWire ==
  ASSUME NEW c \in Conns, WireOf(c), inbox'[c] = inbox[c], sent'[c] = sent[c],
         \A i \in Ids : h'[c][i] = "none" <=> h[c][i] = "none"
  PROVE  WireOf(c)'
BY DEF WireOf

(* Reading a message: only the request that is read may get a handler.     *)
LEMMA TakeWire ==
  ASSUME TypeOK, NEW c \in Conns, WireOf(c), NEW r \in Readers, NEW kind, Take(c, r, kind),
         sent' = sent,
         \A i \in Ids : (h'[c][i] = "none" <=> h[c][i] = "none") \/ inbox[c][1] = Request(i)
  PROVE  WireOf(c)'
<1>1. /\ 1 \in 1..Len(inbox[c])
      /\ \A k \in 1..Len(inbox'[c]) :
           k + 1 \in 1..Len(inbox[c]) /\ inbox'[c][k] = inbox[c][k + 1] /\ k + 1 # 1
      /\ \A j, k \in 1..Len(inbox'[c]) : j + 1 = k + 1 => j = k
  BY TakeFacts
<1> SUFFICES ASSUME NEW i \in Ids
             PROVE  /\ sent[c][i] = "no" => h'[c][i] = "none"
                    /\ \A k \in 1..Len(inbox'[c]) :
                         /\ inbox'[c][k] = Request(i) => h'[c][i] = "none" /\ sent[c][i] # "no"
                         /\ \A j \in 1..Len(inbox'[c]) :
                              inbox'[c][j] = Request(i) /\ inbox'[c][k] = Request(i) => j = k
  BY DEF WireOf
<1>2. sent[c][i] = "no" => h'[c][i] = "none"
  BY <1>1 DEF WireOf
<1>3. ASSUME NEW k \in 1..Len(inbox'[c])
      PROVE  /\ inbox'[c][k] = Request(i) => h'[c][i] = "none" /\ sent[c][i] # "no"
             /\ \A j \in 1..Len(inbox'[c]) :
                  inbox'[c][j] = Request(i) /\ inbox'[c][k] = Request(i) => j = k
  <2>1. k + 1 \in 1..Len(inbox[c]) /\ inbox'[c][k] = inbox[c][k + 1] /\ k + 1 # 1
    BY <1>1, <1>3
  <2>2. inbox'[c][k] = Request(i) => inbox[c][1] # Request(i)
    <3>1. \A j, l \in 1..Len(inbox[c]) : inbox[c][j] = Request(i) /\ inbox[c][l] = Request(i) => j = l
      BY <1>1 DEF WireOf
    <3>2. QED BY <1>1, <2>1, <3>1
  <2>3. ASSUME NEW j \in 1..Len(inbox'[c]), inbox'[c][j] = Request(i), inbox'[c][k] = Request(i)
        PROVE  j = k
    <3>1. j + 1 \in 1..Len(inbox[c]) /\ inbox[c][j + 1] = Request(i) /\ inbox[c][k + 1] = Request(i)
      BY <1>1, <2>1, <2>3
    <3>2. j + 1 = k + 1
      BY <2>1, <3>1 DEF WireOf
    <3>3. QED BY <1>1, <3>2
  <2>4. QED BY <2>1, <2>2, <2>3 DEF WireOf
<1>4. QED BY <1>2, <1>3

(* The client appends a request it has not sent, or a cancel.              *)
LEMMA SendWire ==
  ASSUME TypeOK, NEW c \in Conns, WireOf(c), NEW i \in Ids, Send(c, i) \/ SendCancel(c, i)
  PROVE  WireOf(c)'
<1> DEFINE n == Len(inbox[c])
<1>1. PICK m \in {Request(i), CancelOf(i)} :
        /\ inbox' = [inbox EXCEPT ![c] = Append(@, m)]
        /\ m = Request(i) => sent[c][i] = "no"
  BY MessageFacts DEF Send, SendCancel, TypeOK
<1>2. m \in Messages /\ inbox[c] \in Seq(Messages)
  BY MessageFacts DEF TypeOK
<1>3. /\ inbox'[c] = Append(inbox[c], m) /\ n \in Nat /\ Len(inbox'[c]) = n + 1
      /\ inbox'[c][n + 1] = m /\ \A k \in 1..n : inbox'[c][k] = inbox[c][k]
      /\ \A k \in 1..(n + 1) : k \in 1..n \/ k = n + 1
  <2>1. inbox'[c] = Append(inbox[c], m)
    BY <1>1 DEF TypeOK
  <2>2. QED BY <1>2, <2>1
<1>4. /\ h' = h /\ sent'[c][i] # "no"
      /\ \A j \in Ids \ {i} : sent'[c][j] = sent[c][j]
  BY DEF Send, SendCancel, TypeOK, runVars
<1> HIDE DEF n
<1> SUFFICES ASSUME NEW q \in Ids
             PROVE  /\ sent'[c][q] = "no" => h[c][q] = "none"
                    /\ \A k \in 1..(n + 1) :
                         /\ inbox'[c][k] = Request(q) => h[c][q] = "none" /\ sent'[c][q] # "no"
                         /\ \A j \in 1..(n + 1) :
                              inbox'[c][j] = Request(q) /\ inbox'[c][k] = Request(q) => j = k
  BY <1>3, <1>4 DEF WireOf
<1>5. sent'[c][q] = "no" => h[c][q] = "none"
  BY <1>4 DEF WireOf
<1>6. m = Request(q) => q = i /\ sent[c][q] = "no" /\ h[c][q] = "none"
  BY <1>1, MessageFacts DEF WireOf
<1>8. \A k \in 1..n : inbox'[c][k] = Request(q) => m # Request(q)
  BY <1>3, <1>6 DEF WireOf, n
<1>9. ASSUME NEW k \in 1..(n + 1)
      PROVE  /\ inbox'[c][k] = Request(q) => h[c][q] = "none" /\ sent'[c][q] # "no"
             /\ \A j \in 1..(n + 1) :
                  inbox'[c][j] = Request(q) /\ inbox'[c][k] = Request(q) => j = k
  <2>1. CASE k \in 1..n
    BY <1>3, <1>4, <1>8, <2>1 DEF WireOf, n
  <2>2. CASE k = n + 1
    BY <1>3, <1>4, <1>6, <1>8, <2>2
  <2>3. QED BY <1>3, <2>1, <2>2
<1>10. QED BY <1>5, <1>9

(* Every step keeps Wire.                                                  *)
LEMMA NextWire == ASSUME TypeOK, Wire, [Next]_vars PROVE Wire'
<1> USE DEF serveVars, wireVars, connVars, runVars
<1> SUFFICES ASSUME NEW d \in Conns PROVE WireOf(d)'
  BY DEF Wire
<1>0. WireOf(d) /\ HType
  BY TypeParts DEF Wire
<1>1. CASE CtxEnds \/ CloseListener \/ Return \/ UNCHANGED vars
  BY <1>0, <1>1, SameWire DEF CtxEnds, CloseListener, Return, vars
<1>2. ASSUME NEW c \in Conns,
             \/ ServeConnection(c) \/ Break(c)
             \/ \E r \in Readers : Loop(c, r) \/ ReadFails(c, r) \/ ReaderShutdown(c, r) \/ Leave(c, r)
             \/ \E r \in Readers, i \in Ids : AfterHandler(c, r, i)
             \/ \E i \in Ids : TimerFires(c, i) \/ DeadlinePasses(c, i)
      PROVE  WireOf(d)'
  <2>1. UNCHANGED <<inbox, sent, h>>
    BY <1>2 DEF ServeConnection, Break, Loop, ReadFails, ReaderShutdown, Leave, AfterHandler, TimerFires,
                DeadlinePasses
  <2>2. QED BY <1>0, <2>1, SameWire
<1>3. ASSUME NEW c \in Conns, NEW i \in Ids,
             Start(c, i) \/ Finish(c, i) \/ WriteReply(c, i) \/ HandlerShutdown(c, i) \/ End(c, i)
      PROVE  WireOf(d)'
  <2>1. /\ UNCHANGED <<inbox, sent>> /\ h[c][i] # "none"
        /\ \E l \in HStates \ {"none"} : h' = [h EXCEPT ![c][i] = l]
    BY <1>3 DEF Start, Finish, WriteReply, HandlerShutdown, End, Step, HStates
  <2>2. \A j \in Ids : h'[d][j] = "none" <=> h[d][j] = "none"
    BY <1>0, <2>1 DEF HType
  <2>3. QED BY <1>0, <2>1, <2>2, SameWire
<1>4. ASSUME NEW c \in Conns, NEW i \in Ids, Send(c, i) \/ SendCancel(c, i) PROVE WireOf(d)'
  <2>1. CASE d = c
    BY <1>0, <1>4, <2>1, SendWire
  <2>2. CASE d # c
    <3>1. inbox'[d] = inbox[d] /\ sent'[d] = sent[d] /\ h' = h
      BY <1>4, <2>2 DEF Send, SendCancel, TypeOK
    <3>2. QED BY <1>0, <3>1, SameWire
  <2>3. QED BY <2>1, <2>2
<1>5. ASSUME NEW c \in Conns, NEW r \in Readers,
             ReadVersion(c, r) \/ ReadRequest(c, r) \/ ReadCancel(c, r)
      PROVE  WireOf(d)'
  <2>1. PICK kind : Take(c, r, kind)
    BY <1>5 DEF ReadVersion, ReadRequest, ReadCancel
  <2>2. /\ sent' = sent
        /\ \/ h' = h
           \/ inbox[c][1].kind = "request" /\ h' = [h EXCEPT ![c][inbox[c][1].id] = "start"]
    BY <1>5, <2>1, TakeFacts DEF ReadVersion, ReadRequest, ReadCancel, Take, Step
  <2>3. CASE d = c
    <3>1. inbox[c][1] \in Messages
      BY <2>1, TakeFacts
    <3>2. \A i \in Ids : (h'[c][i] = "none" <=> h[c][i] = "none") \/ inbox[c][1] = Request(i)
      BY <1>0, <2>2, <3>1, MessageFacts DEF HType
    <3>3. QED BY <1>0, <2>1, <2>2, <2>3, <3>2, TakeWire
  <2>4. CASE d # c
    <3>1. inbox'[d] = inbox[d]
      BY <2>1, <2>4, TakeFacts
    <3>2. h'[d] = h[d]
      BY <1>0, <2>2, <2>4 DEF HType
    <3>3. QED BY <1>0, <2>2, <3>1, <3>2, SameWire
  <2>5. QED BY <2>3, <2>4
<1>6. QED BY <1>1, <1>2, <1>3, <1>4, <1>5 DEF Next, ReaderStep, HandlerStep

LEMMA SameTable ==
  ASSUME NEW c \in Conns, TableOf(c), closed'[c] = closed[c], cancels'[c] = cancels[c],
         cancelled'[c] = cancelled[c],
         \A i \in Ids : \/ h'[c][i] = h[c][i]
                        \/ h[c][i] = "none" /\ h'[c][i] = "start"
                        \/ h[c][i] = "run" /\ h'[c][i] = "write"
                        \/ h[c][i] = "write" /\ h'[c][i] \in {"end", "shutdown"}
  PROVE  TableOf(c)'
BY DEF TableOf

(* The operations of the table, for the connection they work on.           *)
LEMMA ShutdownTable ==
  ASSUME TypeOK, NEW c \in Conns, TableOf(c), Shutdown(c),
         \A i \in Ids : h'[c][i] = h[c][i] \/ (h[c][i] = "shutdown" /\ h'[c][i] = "end")
  PROVE  TableOf(c)'
<1>1. closed'[c] = TRUE /\ cancels'[c] = {} /\ cancelled'[c] = cancelled[c] \cup cancels[c]
  BY DEF Shutdown, CancelCtx, TypeOK
<1>2. QED BY <1>1 DEF TableOf

LEMMA EndRequestTable ==
  ASSUME TypeOK, NEW c \in Conns, TableOf(c), NEW i \in Ids, EndRequest(c, i),
         \A j \in Ids \ {i} : h'[c][j] = h[c][j],
         h[c][i] = "end" /\ h'[c][i] = "done" /\ i \in Known
  PROVE  TableOf(c)'
<1>1. /\ closed' = closed /\ cancels'[c] = cancels[c] \ {i}
      /\ cancelled'[c] = cancelled[c] \cup ({i} \cap cancels[c])
  BY DEF EndRequest, CancelCtx, TypeOK
<1>2. QED BY <1>1 DEF TableOf

(* Every step keeps the table.                                             *)
LEMMA NextTable == ASSUME TypeOK, Wire, Table, [Next]_vars PROVE Table'
<1> USE DEF serveVars, wireVars, connVars, runVars
<1> SUFFICES ASSUME NEW d \in Conns PROVE TableOf(d)'
  BY DEF Table
<1>0. TableOf(d) /\ HType /\ CancelType /\ InboxType
  BY TypeParts DEF Table
<1>a. CASE UNCHANGED <<closed, cancels, cancelled, h>>
  BY <1>0, <1>a, SameTable
<1>1. CASE CtxEnds \/ CloseListener \/ Return \/ UNCHANGED vars
  BY <1>1, <1>a DEF CtxEnds, CloseListener, Return, vars
<1>2. ASSUME NEW c \in Conns,
             \/ ServeConnection(c) \/ Break(c)
             \/ \E r \in Readers : Loop(c, r) \/ ReadVersion(c, r) \/ ReadFails(c, r) \/ Leave(c, r)
             \/ \E r \in Readers, i \in Ids : AfterHandler(c, r, i)
             \/ \E i \in Ids : TimerFires(c, i) \/ DeadlinePasses(c, i)
      PROVE  TableOf(d)'
  BY <1>2, <1>a DEF ServeConnection, Break, Loop, ReadVersion, ReadFails, Leave, AfterHandler, TimerFires,
                    DeadlinePasses
<1>3. ASSUME NEW c \in Conns, NEW i \in Ids, Send(c, i) \/ SendCancel(c, i) PROVE TableOf(d)'
  BY <1>3, <1>a DEF Send, SendCancel
<1>4. ASSUME NEW c \in Conns, NEW r \in Readers, ReadRequest(c, r) PROVE TableOf(d)'
  <2>1. /\ UNCHANGED connVars /\ Take(c, r, "request")
        /\ h' = [h EXCEPT ![c][Head(inbox[c]).id] = "start"]
    BY <1>4 DEF ReadRequest, Step
  <2>2. /\ inbox[c][1] \in Messages /\ Head(inbox[c]) = inbox[c][1] /\ 1 \in 1..Len(inbox[c])
        /\ inbox[c][1].kind = "request"
    BY ZenonT(60), <2>1, TakeFacts DEF Take
  <2>3. PICK i \in Ids : inbox[c][1] = Request(i) /\ Head(inbox[c]).id = i
    BY <2>2, IdOf, MessageFacts
  <2>4. h[c][i] = "none"
    BY <2>2, <2>3 DEF Wire, WireOf
  <2>5. \A j \in Ids : h'[d][j] = h[d][j] \/ (h[d][j] = "none" /\ h'[d][j] = "start")
    BY <1>0, <2>1, <2>3, <2>4 DEF HType
  <2>6. QED BY <1>0, <2>1, <2>5, SameTable
<1>5. ASSUME NEW c \in Conns, d # c,
             closed'[d] = closed[d], cancels'[d] = cancels[d], cancelled'[d] = cancelled[d],
             h'[d] = h[d]
      PROVE  TableOf(d)'
  BY <1>0, <1>5, SameTable
<1>6. ASSUME NEW c \in Conns, NEW r \in Readers, ReadCancel(c, r) PROVE TableOf(d)'
  BY <1>a, <1>6 DEF ReadCancel
<1>7. ASSUME NEW c \in Conns, Shutdown(c),
             h' = h \/ \E i \in Ids : h[c][i] = "shutdown" /\ h' = [h EXCEPT ![c][i] = "end"]
      PROVE  TableOf(d)'
  <2>1. CASE d = c
    <3>1. \A i \in Ids : h'[c][i] = h[c][i] \/ (h[c][i] = "shutdown" /\ h'[c][i] = "end")
      BY <1>0, <1>7 DEF HType
    <3>2. QED BY <1>0, <1>7, <2>1, <3>1, ShutdownTable
  <2>2. CASE d # c
    <3>1. h'[d] = h[d]
      BY <1>0, <1>7, <2>2 DEF HType
    <3>2. QED BY <1>0, <1>5, <1>7, <2>2, <3>1 DEF Shutdown, CancelCtx, CancelType
  <2>3. QED BY <2>1, <2>2
<1>8. ASSUME NEW c \in Conns, NEW r \in Readers, ReaderShutdown(c, r) PROVE TableOf(d)'
  BY <1>7, <1>8 DEF ReaderShutdown
<1>9. ASSUME NEW c \in Conns, NEW i \in Ids, HandlerShutdown(c, i) PROVE TableOf(d)'
  BY <1>7, <1>9 DEF HandlerShutdown, Step
<1>10. ASSUME NEW c \in Conns, NEW i \in Ids, Finish(c, i) \/ WriteReply(c, i) PROVE TableOf(d)'
  <2>1. /\ UNCHANGED connVars
        /\ \A j \in Ids : \/ h'[d][j] = h[d][j]
                          \/ h[d][j] = "run" /\ h'[d][j] = "write"
                          \/ h[d][j] = "write" /\ h'[d][j] \in {"end", "shutdown"}
    BY <1>0, <1>10 DEF Finish, WriteReply, Step, HType
  <2>2. QED BY <1>0, <2>1, SameTable
<1>11. ASSUME NEW c \in Conns, NEW i \in Ids, End(c, i) PROVE TableOf(d)'
  <2>1. h[c][i] = "end" /\ h' = [h EXCEPT ![c][i] = "done"]
    BY <1>11 DEF End, Step
  <2>2. h'[c][i] = "done" /\ (\A j \in Ids \ {i} : h'[c][j] = h[c][j]) /\ (d # c => h'[d] = h[d])
    BY <1>0, <2>1 DEF HType
  <2>3. CASE d = c /\ i \in Known
    <3>1. EndRequest(c, i)
      BY <1>11, <2>3 DEF End
    <3>2. QED BY <1>0, <2>1, <2>2, <2>3, <3>1, EndRequestTable
  <2>4. CASE d = c /\ i \notin Known
    <3>1. UNCHANGED <<closed, cancels>> /\ cancelled'[c] = cancelled[c] \cup {i}
      BY <1>0, <1>11, <2>4 DEF End, CancelCtx, CancelType
    <3>2. QED BY <1>0, <2>1, <2>2, <2>4, <3>1 DEF TableOf
  <2>5. CASE d # c
    BY <1>0, <1>5, <1>11, <2>1, <2>2, <2>5 DEF End, EndRequest, CancelCtx, CancelType
  <2>6. QED BY <2>3, <2>4, <2>5
<1>12. ASSUME NEW c \in Conns, NEW i \in Ids, Start(c, i) PROVE TableOf(d)'
  <2>1. h[c][i] = "start" /\ closed' = closed
    BY <1>12 DEF Start
  <2>2. CASE d # c
    BY <1>0, <1>5, <1>12, <2>1, <2>2 DEF Start, Step, CancelCtx, CancelType, HType
  <2>3. ASSUME d = c, NEW l \in HStates, NEW s, NEW t,
               h' = [h EXCEPT ![c][i] = l],
               cancels' = [cancels EXCEPT ![c] = @ \cup s],
               cancelled' = [cancelled EXCEPT ![c] = @ \cup t],
               \/ i \in Known /\ ~closed[c] /\ l = "run" /\ s = {i} /\ t = {}
               \/ i \in Known /\ l = "done" /\ s = {} /\ t = {i}
               \/ i \notin Known /\ l = "write" /\ s = {} /\ t = {}
        PROVE  TableOf(d)'
    <3>1. /\ cancels'[c] = cancels[c] \cup s /\ cancelled'[c] = cancelled[c] \cup t
          /\ h'[c][i] = l /\ \A j \in Ids \ {i} : h'[c][j] = h[c][j]
      BY <1>0, <2>3 DEF CancelType, HType
    <3>2. QED BY <1>0, <2>1, <2>3, <3>1 DEF TableOf
  <2>4. cancels = [cancels EXCEPT ![c] = @ \cup {}] /\ cancelled = [cancelled EXCEPT ![c] = @ \cup {}]
    BY <1>0 DEF CancelType
  <2>5. CASE d = c
    <3>1. CASE i \in Known /\ ~closed[c]
      <4>1. /\ h' = [h EXCEPT ![c][i] = "run"] /\ "run" \in HStates
            /\ cancels' = [cancels EXCEPT ![c] = @ \cup {i}]
            /\ cancelled' = [cancelled EXCEPT ![c] = @ \cup {}]
        BY <1>12, <2>4, <3>1 DEF Start, Step, CancelCtx, HStates
      <4>2. QED BY <2>3, <2>5, <3>1, <4>1
    <3>2. CASE i \in Known /\ closed[c]
      <4>1. /\ h' = [h EXCEPT ![c][i] = "done"] /\ "done" \in HStates
            /\ cancels' = [cancels EXCEPT ![c] = @ \cup {}]
            /\ cancelled' = [cancelled EXCEPT ![c] = @ \cup {i}]
        BY <1>12, <2>4, <3>2 DEF Start, Step, CancelCtx, HStates
      <4>2. QED BY <2>3, <2>5, <3>2, <4>1
    <3>3. CASE i \notin Known
      <4>1. /\ h' = [h EXCEPT ![c][i] = "write"] /\ "write" \in HStates
            /\ cancels' = [cancels EXCEPT ![c] = @ \cup {}]
            /\ cancelled' = [cancelled EXCEPT ![c] = @ \cup {}]
        BY <1>12, <2>4, <3>3 DEF Start, Step, CancelCtx, HStates
      <4>2. QED BY <2>3, <2>5, <3>3, <4>1
    <3>4. QED BY <3>1, <3>2, <3>3
  <2>6. QED BY <2>2, <2>5
<1>13. QED BY <1>1, <1>2, <1>3, <1>4, <1>6, <1>8, <1>9, <1>10, <1>11, <1>12
       DEF Next, ReaderStep, HandlerStep

(* Only DeadlinePasses ends a context in time, and only a timed one.       *)
LEMMA NextDeadlines == ASSUME TypeOK, Deadlines, [Next]_vars PROVE Deadlines'
<1> USE DEF serveVars, wireVars, connVars, runVars
<1>1. ASSUME NEW c \in Conns, NEW i \in Ids, DeadlinePasses(c, i) PROVE Deadlines'
  BY <1>1 DEF DeadlinePasses, Deadlines, TypeOK
<1>2. CASE UNCHANGED expired
  BY <1>2 DEF Deadlines
<1>3. CASE CtxEnds \/ CloseListener \/ Return \/ UNCHANGED vars
  BY <1>2, <1>3 DEF CtxEnds, CloseListener, Return, vars
<1>4. ASSUME NEW c \in Conns, NEW i \in Ids,
             \/ Send(c, i) \/ SendCancel(c, i) \/ TimerFires(c, i)
             \/ HandlerStep(c, i) \/ Finish(c, i)
      PROVE  Deadlines'
  BY <1>2, <1>4 DEF Send, SendCancel, TimerFires, HandlerStep, Start, WriteReply,
                    HandlerShutdown, End, EndRequest, Shutdown, Finish
<1>5. ASSUME NEW c \in Conns, NEW r \in Readers, ReaderStep(c, r) PROVE Deadlines'
  BY <1>2, <1>5 DEF ReaderStep, Loop, ReadVersion, ReadRequest, ReadCancel, ReadFails, ReaderShutdown,
                    Shutdown, Leave, AfterHandler
<1>6. ASSUME NEW c \in Conns, ServeConnection(c) \/ Break(c) PROVE Deadlines'
  BY <1>2, <1>6 DEF ServeConnection, Break
<1>7. QED BY <1>1, <1>3, <1>4, <1>5, <1>6 DEF Next

(* Init and every step give the invariant.                                 *)
LEMMA ServerInvariant == Spec => [](TypeOK /\ Wire /\ Table /\ Deadlines)
<1>1. TypeOK /\ Wire /\ Table /\ Deadlines /\ [Next]_vars => TypeOK' /\ Wire' /\ Table' /\ Deadlines'
  BY NextType, NextWire, NextTable, NextDeadlines
<1>2. QED BY <1>1, InitServer, PTL DEF Spec

(* The table holds exactly the requests whose handler runs under a context *)
(* that is not cancelled, and a closed connection has none.                *)
THEOREM CancelTableCorrect == Spec => []CancelTable
<1>1. TypeOK /\ Table => CancelTable
  <2> SUFFICES ASSUME TypeOK, Table, NEW c \in Conns
               PROVE  /\ closed[c] => cancels[c] = {}
                      /\ cancels[c] = {i \in Known : h[c][i] \in {"run", "write", "shutdown", "end"}}
                                       \ cancelled[c]
    BY DEF CancelTable
  <2>1. cancels[c] \subseteq Ids /\ Known \subseteq Ids
    BY ServerAssumption DEF TypeOK, ServerAssumption
  <2>2. QED BY <2>1 DEF Table, TableOf
<1>2. QED BY <1>1, ServerInvariant, PTL

(* A handler that has returned leaves no context behind.                   *)
THEOREM NoContextLeakCorrect == Spec => []NoContextLeak
<1>1. Table => NoContextLeak
  BY DEF Table, TableOf, NoContextLeak
<1>2. QED BY <1>1, ServerInvariant, PTL

(* The context of a running handler ends with its connection or by the     *)
(* deadline of its own request.                                            *)
THEOREM CancelledForAReasonCorrect == Spec => []CancelledForAReason
<1>1. Table /\ Deadlines => CancelledForAReason
  BY DEF Table, TableOf, Deadlines, CancelledForAReason
<1>2. QED BY <1>1, ServerInvariant, PTL

-----------------------------------------------------------------------------
(* Who reads c: at most one goroutine is in charge, and one exactly when c *)
(* is registered.  A reader that runs a handler inline runs one; a request *)
(* whose timer has not fired has no reader of its own.                     *)
ChargeOf(c) ==
  /\ \A r, s \in InCharge(c) : r = s
  /\ c \in conns <=> InCharge(c) # {}
  /\ net[c] = "backlog" => \A r \in Readers : rd[c][r] = "none"
  /\ \A i \in Ids :
       /\ timer[c][i] # "fired" => rd[c][i] = "none"
       /\ timer[c][i] = "armed" => runner[c][i] # None
       /\ runner[c][i] # None => rd[c][runner[c][i]] = "inline"
       /\ h[c][i] = "none" => timer[c][i] = "off" /\ runner[c][i] = None
       /\ \A j \in Ids : runner[c][i] = runner[c][j] /\ runner[c][i] # None => i = j

Charge == \A c \in Conns : ChargeOf(c)

(* What OneReader and Charge look at.                                      *)
SameReaders(c) ==
  /\ rd'[c] = rd[c] /\ timer'[c] = timer[c] /\ runner'[c] = runner[c]

LEMMA InitCharge == Init => Charge
<1> SUFFICES ASSUME Init, NEW c \in Conns PROVE ChargeOf(c)
  BY DEF Charge
<1>1. /\ \A r \in Readers : rd[c][r] = "none"
      /\ \A i \in Ids : i \in Readers /\ timer[c][i] = "off" /\ runner[c][i] = None
      /\ conns = {}
  BY DEF Init, PerConn, PerRequest, Readers
<1>2. InCharge(c) = {}
  BY <1>1 DEF InCharge
<1>3. QED BY <1>1, <1>2 DEF ChargeOf

LEMMA SameCharge ==
  ASSUME NEW c \in Conns, ChargeOf(c), SameReaders(c),
         c \in conns' <=> c \in conns,
         net'[c] = "backlog" => net[c] = "backlog",
         \A i \in Ids : h'[c][i] = "none" => h[c][i] = "none"
  PROVE  ChargeOf(c)'
<1>1. InCharge(c)' = InCharge(c)
  BY DEF InCharge, SameReaders
<1>2. QED BY <1>1 DEF ChargeOf, SameReaders

Busy == {"loop", "read", "shutdown", "leave"}

(* A reader in charge goes on, or gives the charge up and unregisters.     *)
LEMMA MoveCharge ==
  ASSUME TypeOK, NEW c \in Conns, ChargeOf(c), NEW r \in Readers, rd[c][r] \in Busy,
         NEW l \in Busy \cup {"gone"}, Goto(c, r, l), UNCHANGED <<timer, runner>>,
         net'[c] = "backlog" => net[c] = "backlog",
         c \in conns' <=> c \in conns /\ l # "gone",
         \A i \in Ids : h'[c][i] = "none" => h[c][i] = "none"
  PROVE  ChargeOf(c)'
<1>1. rd'[c][r] = l /\ \A s \in Readers \ {r} : rd'[c][s] = rd[c][s]
  BY DEF Goto, TypeOK
<1>2. r \in InCharge(c) /\ \A s \in InCharge(c) : s = r
  BY DEF InCharge, Busy, ChargeOf
<1>3. InCharge(c)' = IF l = "gone" THEN {} ELSE {r}
  <2>1. \A s \in Readers \ {r} : s \notin InCharge(c)'
    BY <1>1, <1>2 DEF InCharge
  <2>2. r \in InCharge(c)' <=> l # "gone"
    BY <1>1 DEF InCharge, Busy
  <2>3. InCharge(c)' \subseteq Readers
    BY DEF InCharge
  <2>4. QED BY <2>1, <2>2, <2>3
<1>4. net'[c] # "backlog"
  BY DEF ChargeOf, Busy
<1>5. \A i \in Ids : runner[c][i] # r /\ (i = r => timer[c][i] = "fired")
  BY ServerAssumption DEF ChargeOf, Busy, ServerAssumption, Readers
<1>6. \A i \in Ids : i \in Readers /\ runner[c][i] \in Readers \cup {None}
  BY DEF TypeOK, Readers
<1>7. QED BY <1>1, <1>2, <1>3, <1>4, <1>5, <1>6 DEF ChargeOf

(* ServeConnection gives a connection its first reader.                    *)
LEMMA ServeCharge ==
  ASSUME TypeOK, NEW c \in Conns, ChargeOf(c), ServeConnection(c)
  PROVE  ChargeOf(c)'
<1>1. /\ rd'[c][Main] = "loop" /\ \A s \in Readers \ {Main} : rd'[c][s] = "none"
      /\ c \in conns' /\ Main \in Readers /\ Main \notin Ids /\ net'[c] = "open"
      /\ UNCHANGED <<timer, runner, h>> /\ \A r \in Readers : rd[c][r] = "none"
  BY ServerAssumption DEF ServeConnection, Goto, TypeOK, ChargeOf, ServerAssumption, Readers
<1>2. InCharge(c)' = {Main}
  BY <1>1 DEF InCharge
<1>3. \A i \in Ids : i \in Readers /\ runner[c][i] \in Readers \cup {None}
  BY DEF TypeOK, Readers
<1>4. \A i \in Ids : runner[c][i] = None
  BY <1>1, <1>3 DEF ChargeOf
<1>5. QED BY <1>1, <1>2, <1>3, <1>4 DEF ChargeOf

(* The reader in charge runs the handler of a request it has just read     *)
(* inline, and stays in charge while the timer is armed.                   *)
LEMMA InlineCharge ==
  ASSUME TypeOK, NEW c \in Conns, ChargeOf(c), NEW r \in Readers, rd[c][r] = "read",
         NEW i \in Ids, h[c][i] = "none", Goto(c, r, "inline"), Step(c, i, "start"),
         runner' = [runner EXCEPT ![c][i] = r], timer' = [timer EXCEPT ![c][i] = "armed"],
         UNCHANGED <<conns, net>>
  PROVE  ChargeOf(c)'
<1>1. /\ rd'[c][r] = "inline" /\ \A s \in Readers \ {r} : rd'[c][s] = rd[c][s]
      /\ h'[c][i] = "start" /\ \A j \in Ids \ {i} : h'[c][j] = h[c][j]
      /\ timer'[c][i] = "armed" /\ \A j \in Ids \ {i} : timer'[c][j] = timer[c][j]
      /\ runner'[c][i] = r /\ \A j \in Ids \ {i} : runner'[c][j] = runner[c][j]
  BY DEF Goto, Step, TypeOK
<1>2. \A j \in Ids : j \in Readers /\ runner[c][j] \in Readers \cup {None}
  BY DEF TypeOK, Readers
<1>3. r \in InCharge(c) /\ (\A s \in InCharge(c) : s = r) /\ None \notin Readers
  BY ServerAssumption DEF InCharge, ChargeOf, ServerAssumption, Readers
<1>4. \A j \in Ids : runner[c][j] # r
  BY <1>3 DEF ChargeOf
<1>5. rd[c][i] = "none" /\ i # r
  BY DEF ChargeOf
<1>6. InCharge(c)' = {r}
  <2>1. r \in InCharge(c)'
    BY <1>1 DEF InCharge
  <2>2. \A s \in Readers \ {r} : s \notin InCharge(c)'
    BY <1>1, <1>3 DEF InCharge
  <2>3. QED BY <2>1, <2>2 DEF InCharge
<1>7. QED
  <2>1. \A j \in Ids :
          /\ timer'[c][j] # "fired" => rd'[c][j] = "none"
          /\ timer'[c][j] = "armed" => runner'[c][j] # None
          /\ runner'[c][j] # None => rd'[c][runner'[c][j]] = "inline"
          /\ h'[c][j] = "none" => timer'[c][j] = "off" /\ runner'[c][j] = None
    BY <1>1, <1>2, <1>3, <1>4, <1>5 DEF ChargeOf
  <2>2. \A j, k \in Ids : runner'[c][j] = runner'[c][k] /\ runner'[c][j] # None => j = k
    BY <1>1, <1>4 DEF ChargeOf
  <2>3. net'[c] # "backlog"
    BY DEF ChargeOf
  <2>4. QED BY <1>3, <1>6, <2>1, <2>2, <2>3 DEF ChargeOf

(* The timer takes the charge from the goroutine that runs the handler.    *)
LEMMA TimerCharge ==
  ASSUME TypeOK, NEW c \in Conns, ChargeOf(c), NEW i \in Ids, TimerFires(c, i)
  PROVE  ChargeOf(c)'
<1>1. /\ rd'[c][i] = "loop" /\ \A s \in Readers \ {i} : rd'[c][s] = rd[c][s]
      /\ timer[c][i] = "armed"
      /\ timer'[c][i] = "fired" /\ \A j \in Ids \ {i} : timer'[c][j] = timer[c][j]
      /\ UNCHANGED <<runner, h, net, conns>>
  BY DEF TimerFires, Goto, TypeOK, Readers, serveVars, wireVars
<1>2. \A j \in Ids : j \in Readers /\ runner[c][j] \in Readers \cup {None}
  BY DEF TypeOK, Readers
<1> DEFINE r == runner[c][i]
<1>3. r \in Readers /\ rd[c][r] = "inline" /\ rd[c][i] = "none"
  BY <1>1, <1>2 DEF ChargeOf
<1>4. r \in InCharge(c) /\ (\A s \in InCharge(c) : s = r) /\ c \in conns
  BY <1>1, <1>3 DEF InCharge, ChargeOf
<1>5. InCharge(c)' = {i}
  <2>1. i \in InCharge(c)'
    BY <1>1, <1>2 DEF InCharge
  <2>2. \A s \in Readers \ {i, r} : s \notin InCharge(c)'
    BY <1>1, <1>4 DEF InCharge
  <2>3. r \notin InCharge(c)'
    BY <1>1, <1>3 DEF InCharge, ChargeOf
  <2>4. QED BY <2>1, <2>2, <2>3 DEF InCharge
<1>6. QED
  <2>1. \A j \in Ids :
          /\ timer'[c][j] # "fired" => rd'[c][j] = "none"
          /\ timer'[c][j] = "armed" => runner'[c][j] # None
          /\ runner'[c][j] # None => rd'[c][runner'[c][j]] = "inline"
          /\ h'[c][j] = "none" => timer'[c][j] = "off" /\ runner'[c][j] = None
    BY <1>1, <1>2, <1>3 DEF ChargeOf
  <2>2. \A j, k \in Ids : runner'[c][j] = runner'[c][k] /\ runner'[c][j] # None => j = k
    BY <1>1 DEF ChargeOf
  <2>3. net'[c] # "backlog"
    BY <1>1, <1>3 DEF ChargeOf
  <2>4. QED BY <1>1, <1>4, <1>5, <2>1, <2>2, <2>3 DEF ChargeOf

(* The handler has returned: its goroutine reads on if the timer had not   *)
(* fired, and ends otherwise, when another one is in charge.               *)
LEMMA AfterCharge ==
  ASSUME TypeOK, NEW c \in Conns, ChargeOf(c), NEW r \in Readers, NEW i \in Ids,
         AfterHandler(c, r, i)
  PROVE  ChargeOf(c)'
<1> DEFINE armed == timer[c][i] = "armed"
<1>1. /\ rd[c][r] = "inline" /\ runner[c][i] = r /\ h[c][i] = "done"
      /\ rd'[c][r] = (IF armed THEN "loop" ELSE "gone")
      /\ \A s \in Readers \ {r} : rd'[c][s] = rd[c][s]
      /\ timer'[c][i] = (IF armed THEN "stopped" ELSE timer[c][i])
      /\ \A j \in Ids \ {i} : timer'[c][j] = timer[c][j]
      /\ runner'[c][i] = None /\ \A j \in Ids \ {i} : runner'[c][j] = runner[c][j]
      /\ UNCHANGED <<h, net, conns>>
  BY DEF AfterHandler, Goto, TypeOK, Readers, serveVars, wireVars
<1>2. /\ \A j \in Ids : j \in Readers /\ runner[c][j] \in Readers \cup {None}
      /\ None \notin Readers
  BY ServerAssumption DEF TypeOK, Readers, ServerAssumption
<1>3. \A j \in Ids \ {i} : runner[c][j] # r
  BY <1>1, <1>2 DEF ChargeOf
<1>4. r \in Ids => timer[c][r] = "fired" /\ (i = r => ~armed)
  BY <1>1 DEF ChargeOf
<1>5. r \in InCharge(c) <=> armed
  BY <1>1, <1>3 DEF InCharge
<1>6. InCharge(c)' = InCharge(c)
  <2>1. r \in InCharge(c)' <=> armed
    BY <1>1, <1>2, <1>3 DEF InCharge
  <2>2. \A s \in Readers \ {r} : s \in InCharge(c)' <=> s \in InCharge(c)
    BY <1>1, <1>2, <1>3 DEF InCharge
  <2>3. QED BY <1>5, <2>1, <2>2 DEF InCharge
<1>7. QED
  <2>1. \A j \in Ids :
          /\ timer'[c][j] # "fired" => rd'[c][j] = "none"
          /\ timer'[c][j] = "armed" => runner'[c][j] # None
          /\ runner'[c][j] # None => rd'[c][runner'[c][j]] = "inline"
          /\ h'[c][j] = "none" => timer'[c][j] = "off" /\ runner'[c][j] = None
    BY <1>1, <1>2, <1>3, <1>4 DEF ChargeOf
  <2>2. \A j, k \in Ids : runner'[c][j] = runner'[c][k] /\ runner'[c][j] # None => j = k
    BY <1>1 DEF ChargeOf
  <2>3. net'[c] # "backlog"
    BY <1>1 DEF ChargeOf
  <2>4. QED BY <1>1, <1>6, <2>1, <2>2, <2>3 DEF ChargeOf

(* A connection on which no reader moves.                                  *)
LEMMA OtherCharge ==
  ASSUME TypeOK, NEW c \in Conns, NEW d \in Conns \ {c}, ChargeOf(d), NEW r \in Readers, NEW l,
         Goto(c, r, l), UNCHANGED net \/ net' = [net EXCEPT ![c] = "open"] \/ CloseNet(c),
         UNCHANGED conns \/ conns' = conns \ {c} \/ conns' = conns \cup {c},
         timer'[d] = timer[d], runner'[d] = runner[d], h'[d] = h[d]
  PROVE  ChargeOf(d)'
BY SameCharge DEF Goto, CloseNet, SameReaders, TypeOK

(* Every step keeps Charge.                                                *)
LEMMA NextCharge == ASSUME TypeOK, Wire, Charge, [Next]_vars PROVE Charge'
<1> USE DEF serveVars, wireVars, connVars, runVars
<1> SUFFICES ASSUME NEW d \in Conns PROVE ChargeOf(d)'
  BY DEF Charge
<1>0. ChargeOf(d) /\ HType /\ InlineType /\ NetType
  BY TypeParts DEF Charge
<1>1. CASE CtxEnds \/ CloseListener \/ Return \/ UNCHANGED vars
  <2>1. UNCHANGED <<rd, timer, runner, h, conns>>
    BY <1>1 DEF CtxEnds, CloseListener, Return, vars
  <2>2. net'[d] = "backlog" => net[d] = "backlog"
    BY <1>0, <1>1 DEF CtxEnds, CloseListener, Return, vars, NetType
  <2>3. QED BY <1>0, <2>1, <2>2, SameCharge DEF SameReaders
<1>2. ASSUME NEW c \in Conns, NEW i \in Ids,
             \/ Send(c, i) \/ SendCancel(c, i) \/ Break(c)
             \/ Start(c, i) \/ Finish(c, i) \/ WriteReply(c, i) \/ HandlerShutdown(c, i) \/ End(c, i)
             \/ DeadlinePasses(c, i)
      PROVE  ChargeOf(d)'
  <2>1. UNCHANGED <<rd, timer, runner, conns>>
    BY <1>2 DEF Send, SendCancel, Break, Start, Finish, WriteReply, HandlerShutdown, End,
                DeadlinePasses
  <2>2. net'[d] = "backlog" => net[d] = "backlog"
    BY <1>0, <1>2 DEF Send, SendCancel, Break, Start, Finish, WriteReply, HandlerShutdown, End,
                      DeadlinePasses, CloseNet, NetType
  <2>3. h' = h \/ \E l \in HStates \ {"none"} : h' = [h EXCEPT ![c][i] = l]
    BY <1>2 DEF Send, SendCancel, Break, Start, Finish, WriteReply, HandlerShutdown, End,
                DeadlinePasses, Step, HStates
  <2>4. \A j \in Ids : h'[d][j] = "none" => h[d][j] = "none"
    BY <1>0, <2>3 DEF HType
  <2>5. QED BY <1>0, <2>1, <2>2, <2>4, SameCharge DEF SameReaders
<1>3. ASSUME NEW c \in Conns, Break(c) PROVE ChargeOf(d)'
  <2>1. net'[d] = "backlog" => net[d] = "backlog"
    BY <1>0, <1>3 DEF Break, NetType
  <2>2. QED BY <1>0, <1>3, <2>1, SameCharge DEF Break, SameReaders
<1>4. ASSUME NEW c \in Conns, ServeConnection(c) PROVE ChargeOf(d)'
  <2>1. CASE d = c
    BY <1>0, <1>4, <2>1, ServeCharge
  <2>2. CASE d # c
    <3>1. Main \in Readers
      BY DEF Readers
    <3>2. QED BY <1>0, <1>4, <2>2, <3>1, OtherCharge DEF ServeConnection
  <2>3. QED BY <2>1, <2>2
<1>5. ASSUME NEW c \in Conns, NEW r \in Readers,
             \/ Loop(c, r) \/ ReadVersion(c, r) \/ ReadFails(c, r) \/ ReaderShutdown(c, r)
             \/ Leave(c, r)
      PROVE  ChargeOf(d)'
  <2>1. PICK l \in Busy \cup {"gone"} :
          /\ rd[c][r] \in Busy /\ Goto(c, r, l) /\ UNCHANGED <<timer, runner, h>>
          /\ UNCHANGED net \/ CloseNet(c)
          /\ conns' = IF l = "gone" THEN conns \ {c} ELSE conns
    BY <1>5 DEF Loop, ReadVersion, ReadFails, ReaderShutdown, Leave, Take, Busy
  <2>2. net'[c] = "backlog" => net[c] = "backlog"
    BY <1>0, <2>1 DEF CloseNet, NetType
  <2>3. CASE d = c
    BY <1>0, <2>1, <2>2, <2>3, MoveCharge
  <2>4. CASE d # c
    BY <1>0, <2>1, <2>4, OtherCharge
  <2>5. QED BY <2>3, <2>4
<1>6. ASSUME NEW c \in Conns, NEW r \in Readers, ReadCancel(c, r) PROVE ChargeOf(d)'
  <2>1. net'[d] = "closed"
    BY <1>6 DEF ReadCancel, PerConn
  <2>2. QED BY <1>0, <1>6, <2>1, SameCharge DEF ReadCancel, SameReaders
<1>7. ASSUME NEW c \in Conns, NEW r \in Readers, ReadRequest(c, r) PROVE ChargeOf(d)'
  <2>1. Take(c, r, "request") /\ rd[c][r] = "read" /\ UNCHANGED <<net, conns>>
    BY <1>7 DEF ReadRequest, Take
  <2>2. /\ inbox[c][1] \in Messages /\ Head(inbox[c]) = inbox[c][1] /\ 1 \in 1..Len(inbox[c])
        /\ inbox[c][1].kind = "request"
    BY ZenonT(60), <2>1, TakeFacts DEF Take
  <2>3. PICK i \in Ids : inbox[c][1] = Request(i) /\ Head(inbox[c]).id = i
    BY <2>2, IdOf, MessageFacts
  <2>4. h[c][i] = "none"
    BY <2>2, <2>3 DEF Wire, WireOf
  <2>5. /\ Step(c, i, "start")
        /\ \/ /\ Goto(c, r, "inline")
              /\ runner' = [runner EXCEPT ![c][i] = r] /\ timer' = [timer EXCEPT ![c][i] = "armed"]
           \/ Goto(c, r, "loop") /\ UNCHANGED <<runner, timer>>
    BY <1>7, <2>3 DEF ReadRequest
  <2>6. CASE d # c
    <3>1. timer'[d] = timer[d] /\ runner'[d] = runner[d] /\ h'[d] = h[d]
      BY <1>0, <2>5, <2>6 DEF Step, HType, InlineType
    <3>2. QED BY <1>0, <2>1, <2>5, <2>6, <3>1, OtherCharge
  <2>7. CASE d = c /\ Goto(c, r, "inline")
    <3>1. ~Goto(c, r, "loop")
      BY <2>7 DEF Goto, TypeOK
    <3>2. QED BY <1>0, <2>1, <2>4, <2>5, <2>7, <3>1, InlineCharge
  <2>8. CASE d = c /\ Goto(c, r, "loop") /\ UNCHANGED <<runner, timer>>
    <3>1. \A j \in Ids : h'[c][j] = "none" => h[c][j] = "none"
      BY <1>0, <2>5 DEF Step, HType
    <3>2. QED BY <1>0, <2>1, <2>8, <3>1, MoveCharge DEF Busy
  <2>9. QED BY <2>5, <2>6, <2>7, <2>8
<1>8. ASSUME NEW c \in Conns, NEW i \in Ids, TimerFires(c, i) PROVE ChargeOf(d)'
  <2>1. CASE d = c
    BY <1>0, <1>8, <2>1, TimerCharge
  <2>2. CASE d # c
    <3>1. i \in Readers /\ timer'[d] = timer[d]
      BY <1>0, <1>8, <2>2 DEF TimerFires, InlineType, Readers
    <3>2. QED BY <1>0, <1>8, <2>2, <3>1, OtherCharge DEF TimerFires
  <2>3. QED BY <2>1, <2>2
<1>9. ASSUME NEW c \in Conns, NEW r \in Readers, NEW i \in Ids, AfterHandler(c, r, i)
      PROVE  ChargeOf(d)'
  <2>1. CASE d = c
    BY <1>0, <1>9, <2>1, AfterCharge
  <2>2. CASE d # c
    <3>1. timer'[d] = timer[d] /\ runner'[d] = runner[d]
      BY <1>0, <1>9, <2>2 DEF AfterHandler, InlineType
    <3>2. PICK l : Goto(c, r, l)
      BY <1>9 DEF AfterHandler
    <3>3. QED BY <1>0, <1>9, <2>2, <3>1, <3>2, OtherCharge DEF AfterHandler
  <2>3. QED BY <2>1, <2>2
<1>10. QED BY <1>1, <1>2, <1>3, <1>4, <1>5, <1>6, <1>7, <1>8, <1>9 DEF Next, ReaderStep, HandlerStep

(* Every registered connection has exactly one goroutine that reads it or  *)
(* will, and one that is not registered has none.                          *)
THEOREM OneReaderCorrect == Spec => []OneReader
<1>1. Charge /\ TypeOK => OneReader
  <2> SUFFICES ASSUME Charge, NEW c \in Conns
               PROVE  Cardinality(InCharge(c)) = IF c \in conns THEN 1 ELSE 0
    BY DEF OneReader
  <2>1. CASE c \in conns
    <3>1. PICK r \in Readers : InCharge(c) = {r}
      BY <2>1 DEF Charge, ChargeOf, InCharge
    <3>2. QED BY <2>1, <3>1, FS_Singleton
  <2>2. CASE c \notin conns
    BY <2>2, FS_EmptySet DEF Charge, ChargeOf
  <2>3. QED BY <2>1, <2>2
<1>2. TypeOK /\ Wire /\ Charge /\ [Next]_vars => Charge'
  BY NextCharge
<1>3. QED BY <1>1, <1>2, InitCharge, ServerInvariant, PTL DEF Spec
=============================================================================
