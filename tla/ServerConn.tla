----------------------------- MODULE ServerConn -----------------------------
(***************************************************************************)
(* internal/net/call/call.go, the server half: Serve accepts connections,  *)
(* each serverConnection has a goroutine in readRequests and one handler   *)
(* per request.                                                            *)
(*                                                                         *)
(* With InlineHandlerDuration > 0 (the default) the reader runs the        *)
(* handler itself under a timer.  When the timer fires first, its          *)
(* goroutine becomes the reader: reader i is the one the timer of request  *)
(* i starts, reader Main the one serveConnection starts.                   *)
(*                                                                         *)
(* The client (ClientConn) appears as what it puts on the connection: a    *)
(* version, then requests with fresh ids, each perhaps followed by a       *)
(* cancel message.  Messages are well formed.  Reading a cancel message    *)
(* ends the process (ReadCancel).  The header of a request may carry what  *)
(* is left of the caller's deadline; the context of its handler then ends  *)
(* when that has passed (DeadlinePasses), or never: time is not modelled.  *)
(***************************************************************************)
EXTENDS Naturals, Sequences, FiniteSets

CONSTANTS Conns,   \* connections a client opens
          Ids,     \* requests on one connection
          Known,   \* requests whose method has a handler
          Timed,   \* requests whose header carries a deadline
          Inline,  \* opts.InlineHandlerDuration > 0
          Main, None

ASSUME ServerAssumption ==
  /\ Known \subseteq Ids /\ Timed \subseteq Ids /\ Inline \in BOOLEAN
  /\ Main \notin Ids /\ None \notin Ids \cup {Main}

Readers == Ids \cup {Main}

VARIABLES
  serving,    \* Serve: "accept" or "returned"
  ctxDone,    \* Serve's context is done
  listening,  \* the listener is open
  conns,      \* ss.conns
  panicked,   \* a goroutine has panicked: the process is gone
  net,        \* net.Conn: in the backlog, open, broken by the peer, closed by the server
  inbox,      \* messages on the connection that have not been read
  sent,       \* the client's view of a request: no, sent, cancelled
  closed,     \* c.closed
  cancels,    \* keys of c.cancelFuncs
  cancelled,  \* requests whose context has been cancelled
  expired,    \* requests whose context has ended by its deadline
  rd,         \* where each reader stands
  runner,     \* reader that runs the handler of a request inline
  timer,      \* time.AfterFunc of an inline request
  h,          \* where each handler stands
  answered    \* requests that have been answered

serveVars == <<serving, ctxDone, listening, conns, panicked>>
wireVars  == <<net, inbox, sent>>
connVars  == <<closed, cancels, cancelled, expired>>
runVars   == <<rd, runner, timer, h, answered>>
vars      == <<serveVars, wireVars, connVars, runVars>>

Version    == [kind |-> "version", id |-> None]
Request(i) == [kind |-> "request", id |-> i]
CancelOf(i) == [kind |-> "cancel", id |-> i]
Messages   == {Version} \cup {Request(i) : i \in Ids} \cup {CancelOf(i) : i \in Ids}

PerConn(x)  == [c \in Conns |-> x]
PerRequest(x) == PerConn([i \in Ids |-> x])

Init ==
  /\ serving = "accept" /\ ctxDone = FALSE /\ listening = TRUE /\ conns = {}
  /\ panicked = FALSE
  /\ net = PerConn("backlog") /\ inbox = PerConn(<<Version>>) /\ sent = PerRequest("no")
  /\ closed = PerConn(FALSE) /\ cancels = PerConn({}) /\ cancelled = PerConn({})
  /\ expired = PerConn({})
  /\ rd = PerConn([r \in Readers |-> "none"])
  /\ runner = PerRequest(None) /\ timer = PerRequest("off")
  /\ h = PerRequest("none") /\ answered = PerConn({})

Goto(c, r, l) == rd' = [rd EXCEPT ![c][r] = l]
Step(c, i, l) == h' = [h EXCEPT ![c][i] = l]
CloseNet(c)   == net' = [net EXCEPT ![c] = "closed"]
CancelCtx(c, s) == cancelled' = [cancelled EXCEPT ![c] = @ \cup s]
-----------------------------------------------------------------------------
(* The client and the network.                                             *)

Send(c, i) ==
  /\ net[c] \in {"backlog", "open"} /\ sent[c][i] = "no"
  /\ sent' = [sent EXCEPT ![c][i] = "sent"]
  /\ inbox' = [inbox EXCEPT ![c] = Append(@, Request(i))]
  /\ UNCHANGED <<serveVars, net, connVars, runVars>>

SendCancel(c, i) ==
  /\ net[c] \in {"backlog", "open"} /\ sent[c][i] = "sent"
  /\ sent' = [sent EXCEPT ![c][i] = "cancelled"]
  /\ inbox' = [inbox EXCEPT ![c] = Append(@, CancelOf(i))]
  /\ UNCHANGED <<serveVars, net, connVars, runVars>>

Break(c) ==
  /\ net[c] = "open"
  /\ net' = [net EXCEPT ![c] = "broken"]
  /\ UNCHANGED <<serveVars, inbox, sent, connVars, runVars>>
-----------------------------------------------------------------------------
(* Serve.                                                                  *)

CtxEnds ==
  /\ ~ctxDone
  /\ ctxDone' = TRUE
  /\ UNCHANGED <<serving, listening, conns, panicked, wireVars, connVars, runVars>>

(* The goroutine that closes the listener when ctx is done.                *)
CloseListener ==
  /\ ctxDone /\ listening
  /\ listening' = FALSE
  /\ UNCHANGED <<serving, ctxDone, conns, panicked, wireVars, connVars, runVars>>

(* Accept returns a connection and ctx is not done: serveConnection.       *)
ServeConnection(c) ==
  /\ serving = "accept" /\ listening /\ ~ctxDone /\ net[c] = "backlog"
  /\ net' = [net EXCEPT ![c] = "open"]
  /\ conns' = conns \cup {c}
  /\ Goto(c, Main, "loop")
  /\ UNCHANGED <<serving, ctxDone, listening, panicked, inbox, sent, connVars, runner, timer, h,
                 answered>>

(* Mutated form of Return: ss.stop does not run.                           *)
Return_NoStop ==
  /\ serving = "accept"
  /\ serving' = "returned"
  /\ listening' = FALSE
  /\ UNCHANGED <<ctxDone, conns, panicked, wireVars, connVars, runVars>>

(* Serve returns: ctx is done, with or without a connection in hand, which *)
(* nobody closes; or Accept fails.  Then ss.stop closes the registered     *)
(* connections.                                                            *)
Return ==
  /\ serving = "accept"
  /\ serving' = "returned"
  /\ IF ctxDone
     THEN \/ /\ UNCHANGED listening
             /\ net' = [c \in Conns |-> IF c \in conns THEN "closed" ELSE net[c]]
          \/ /\ listening /\ UNCHANGED listening
             /\ \E a \in Conns :
                  /\ net[a] = "backlog"
                  /\ net' = [c \in Conns |-> CASE c \in conns -> "closed" [] c = a -> "open"
                                               [] OTHER -> net[c]]
     ELSE /\ listening' = FALSE
          /\ net' = [c \in Conns |-> IF c \in conns THEN "closed" ELSE net[c]]
  /\ UNCHANGED <<ctxDone, conns, panicked, inbox, sent, connVars, runVars>>
-----------------------------------------------------------------------------
(* The table of cancel functions, under c.mu.                              *)

EndRequest(c, i) ==
  /\ cancels' = [cancels EXCEPT ![c] = @ \ {i}]
  /\ CancelCtx(c, {i} \cap cancels[c])
  /\ UNCHANGED <<closed, expired>>

(* Mutated form of Shutdown: the cancel functions are kept.                *)
Shutdown_Keep(c) ==
  /\ closed' = [closed EXCEPT ![c] = TRUE]
  /\ UNCHANGED <<cancels, cancelled, expired>>

(* Mutated form of Shutdown: c.closed is not set.                          *)
Shutdown_Open(c) ==
  /\ cancels' = [cancels EXCEPT ![c] = {}]
  /\ CancelCtx(c, cancels[c])
  /\ UNCHANGED <<closed, expired>>

(* shutdown after it has closed the net.Conn.                              *)
Shutdown(c) ==
  /\ closed' = [closed EXCEPT ![c] = TRUE]
  /\ cancels' = [cancels EXCEPT ![c] = {}]
  /\ CancelCtx(c, cancels[c])
  /\ UNCHANGED expired
-----------------------------------------------------------------------------
(* readRequests.                                                           *)

(* The loop's condition; when ctx is done the net.Conn is closed.          *)
Loop(c, r) ==
  /\ rd[c][r] = "loop"
  /\ IF ctxDone THEN CloseNet(c) /\ Goto(c, r, "leave")
     ELSE Goto(c, r, "read") /\ UNCHANGED net
  /\ UNCHANGED <<serveVars, inbox, sent, connVars, runner, timer, h, answered>>

(* What was buffered can still be read from a closed net.Conn.             *)
Take(c, r, kind) ==
  /\ rd[c][r] = "read" /\ inbox[c] # <<>> /\ Head(inbox[c]).kind = kind
  /\ inbox' = [inbox EXCEPT ![c] = Tail(@)]

(* A version message: store it and answer with ours.                       *)
ReadVersion(c, r) ==
  /\ Take(c, r, "version")
  /\ \/ net[c] # "closed" /\ Goto(c, r, "loop") /\ UNCHANGED net
     \/ net[c] # "open" /\ Goto(c, r, "shutdown") /\ CloseNet(c)
  /\ UNCHANGED <<serveVars, sent, connVars, runner, timer, h, answered>>

(* A request: run the handler under a timer, or in a goroutine.            *)
ReadRequest(c, r) ==
  /\ Take(c, r, "request")
  /\ LET i == Head(inbox[c]).id
     IN  /\ Step(c, i, "start")
         /\ IF Inline
            THEN /\ Goto(c, r, "inline")
                 /\ runner' = [runner EXCEPT ![c][i] = r]
                 /\ timer' = [timer EXCEPT ![c][i] = "armed"]
            ELSE Goto(c, r, "loop") /\ UNCHANGED <<runner, timer>>
  /\ UNCHANGED <<serveVars, net, sent, connVars, answered>>

(* A cancel message.  It is the only message without a payload, and        *)
(* readMessage takes the buffer of a payload of length 0 from the pool,    *)
(* which has none: it dereferences the nil pointer it is given, nobody     *)
(* recovers, and the process dies.  The endRequest for a cancel message is *)
(* never reached.                                                          *)
ReadCancel(c, r) ==
  /\ Take(c, r, "cancel")
  /\ panicked' = TRUE
  /\ listening' = FALSE /\ net' = PerConn("closed")
  /\ UNCHANGED <<serving, ctxDone, conns, sent, connVars, runVars>>

ReadFails(c, r) ==
  /\ rd[c][r] = "read" /\ net[c] # "open"
  /\ CloseNet(c)
  /\ Goto(c, r, "shutdown")
  /\ UNCHANGED <<serveVars, inbox, sent, connVars, runner, timer, h, answered>>

ReaderShutdown(c, r) ==
  /\ rd[c][r] = "shutdown"
  /\ Shutdown(c)
  /\ Goto(c, r, "leave")
  /\ UNCHANGED <<serveVars, wireVars, runner, timer, h, answered>>

(* onDone: unregister.                                                     *)
Leave(c, r) ==
  /\ rd[c][r] = "leave"
  /\ conns' = conns \ {c}
  /\ Goto(c, r, "gone")
  /\ UNCHANGED <<serving, ctxDone, listening, panicked, wireVars, connVars, runner, timer, h, answered>>

(* Mutated form of TimerFires: the goroutine does not read on.             *)
TimerFires_Idle(c, i) ==
  /\ timer[c][i] = "armed"
  /\ timer' = [timer EXCEPT ![c][i] = "fired"]
  /\ UNCHANGED <<rd, serveVars, wireVars, connVars, runner, h, answered>>

(* The timer of an inline request fires: another goroutine reads on.       *)
TimerFires(c, i) ==
  /\ timer[c][i] = "armed"
  /\ timer' = [timer EXCEPT ![c][i] = "fired"]
  /\ Goto(c, i, "loop")
  /\ UNCHANGED <<serveVars, wireVars, connVars, runner, h, answered>>

(* Mutated form of AfterHandler: the result of t.Stop is ignored.          *)
AfterHandler_Continue(c, r, i) ==
  /\ rd[c][r] = "inline" /\ runner[c][i] = r /\ h[c][i] = "done"
  /\ timer[c][i] \in {"armed", "fired"}
  /\ timer' = [timer EXCEPT ![c][i] = "stopped"]
  /\ Goto(c, r, "loop")
  /\ UNCHANGED <<serveVars, wireVars, connVars, runner, h, answered>>

(* The inline handler has returned: t.Stop tells who reads on.             *)
AfterHandler(c, r, i) ==
  /\ rd[c][r] = "inline" /\ runner[c][i] = r /\ h[c][i] = "done"
  /\ IF timer[c][i] = "armed"
     THEN timer' = [timer EXCEPT ![c][i] = "stopped"] /\ Goto(c, r, "loop")
     ELSE Goto(c, r, "gone") /\ UNCHANGED timer
  /\ runner' = [runner EXCEPT ![c][i] = None]
  /\ UNCHANGED <<serveVars, wireVars, connVars, h, answered>>
-----------------------------------------------------------------------------
(* runHandler.                                                             *)

(* Mutated form of Start: startRequest does not look at c.closed.          *)
Start_Unchecked(c, i) ==
  /\ h[c][i] = "start"
  /\ \/ i \in Known /\ cancels' = [cancels EXCEPT ![c] = @ \cup {i}] /\ Step(c, i, "run")
     \/ i \notin Known /\ Step(c, i, "write") /\ UNCHANGED cancels
  /\ UNCHANGED <<closed, cancelled, expired, serveVars, wireVars, rd, runner, timer, answered>>

(* The context, with a deadline if the header has one, and startRequest:   *)
(* it refuses a closed connection, and the handler returns with its        *)
(* context cancelled.  A request without a handler is answered with an     *)
(* error.                                                                  *)
Start(c, i) ==
  /\ h[c][i] = "start"
  /\ \/ /\ i \in Known /\ ~closed[c]
        /\ cancels' = [cancels EXCEPT ![c] = @ \cup {i}]
        /\ Step(c, i, "run") /\ UNCHANGED cancelled
     \/ /\ i \in Known /\ closed[c]
        /\ CancelCtx(c, {i})
        /\ Step(c, i, "done") /\ UNCHANGED cancels
     \/ /\ i \notin Known
        /\ Step(c, i, "write") /\ UNCHANGED <<cancels, cancelled>>
  /\ UNCHANGED <<closed, expired, serveVars, wireVars, rd, runner, timer, answered>>

(* The deadline of the header passes while runHandler has its context:     *)
(* nobody calls the cancel function for that, and it stays in the table.   *)
DeadlinePasses(c, i) ==
  /\ i \in Timed \ (cancelled[c] \cup expired[c])
  /\ h[c][i] \in {"start", "run", "write", "shutdown", "end"}
  /\ expired' = [expired EXCEPT ![c] = @ \cup {i}]
  /\ UNCHANGED <<closed, cancels, cancelled, serveVars, wireVars, runVars>>

(* The component's method returns.                                         *)
Finish(c, i) ==
  /\ h[c][i] = "run"
  /\ Step(c, i, "write")
  /\ UNCHANGED <<serveVars, wireVars, connVars, rd, runner, timer, answered>>

WriteReply(c, i) ==
  /\ h[c][i] = "write"
  /\ \/ /\ net[c] # "closed"
        /\ answered' = [answered EXCEPT ![c] = @ \cup {i}]
        /\ Step(c, i, "end") /\ UNCHANGED net
     \/ /\ net[c] # "open"
        /\ CloseNet(c)
        /\ Step(c, i, "shutdown") /\ UNCHANGED answered
  /\ UNCHANGED <<serveVars, inbox, sent, connVars, rd, runner, timer>>

HandlerShutdown(c, i) ==
  /\ h[c][i] = "shutdown"
  /\ Shutdown(c)
  /\ Step(c, i, "end")
  /\ UNCHANGED <<serveVars, wireVars, rd, runner, timer, answered>>

(* The deferred endRequest, or cancelFunc if no request was started.       *)
End(c, i) ==
  /\ h[c][i] = "end"
  /\ IF i \in Known THEN EndRequest(c, i) ELSE CancelCtx(c, {i}) /\ UNCHANGED <<closed, cancels, expired>>
  /\ Step(c, i, "done")
  /\ UNCHANGED <<serveVars, wireVars, rd, runner, timer, answered>>
-----------------------------------------------------------------------------
ReaderStep(c, r) ==
  \/ Loop(c, r) \/ ReadVersion(c, r) \/ ReadRequest(c, r) \/ ReadCancel(c, r) \/ ReadFails(c, r)
  \/ ReaderShutdown(c, r) \/ Leave(c, r) \/ \E i \in Ids : AfterHandler(c, r, i)

HandlerStep(c, i) ==
  Start(c, i) \/ WriteReply(c, i) \/ HandlerShutdown(c, i) \/ End(c, i)

Next ==
  /\ ~panicked
  /\ \/ CtxEnds \/ CloseListener \/ Return
     \/ \E c \in Conns :
          \/ ServeConnection(c) \/ Break(c)
          \/ \E r \in Readers : ReaderStep(c, r)
          \/ \E i \in Ids : \/ Send(c, i) \/ SendCancel(c, i) \/ TimerFires(c, i)
                            \/ HandlerStep(c, i) \/ Finish(c, i) \/ DeadlinePasses(c, i)

Spec == Init /\ [][Next]_vars

(* Goroutines are scheduled and timers fire while the process lives;       *)
(* Accept fails on a closed listener.  Nothing makes a component's method  *)
(* return, and no property waits for a deadline.                           *)
FairSpec ==
  /\ Spec
  /\ WF_vars(~panicked /\ CloseListener) /\ WF_vars(~panicked /\ ctxDone /\ Return)
  /\ \A c \in Conns :
       /\ \A r \in Readers : WF_vars(~panicked /\ ReaderStep(c, r))
       /\ \A i \in Ids : /\ WF_vars(~panicked /\ TimerFires(c, i))
                         /\ WF_vars(~panicked /\ HandlerStep(c, i))
-----------------------------------------------------------------------------
TypeOK ==
  /\ serving \in {"accept", "returned"} /\ ctxDone \in BOOLEAN /\ listening \in BOOLEAN
  /\ conns \subseteq Conns /\ panicked \in BOOLEAN
  /\ net \in [Conns -> {"backlog", "open", "broken", "closed"}]
  /\ inbox \in [Conns -> Seq(Messages)]
  /\ sent \in [Conns -> [Ids -> {"no", "sent", "cancelled"}]]
  /\ closed \in [Conns -> BOOLEAN]
  /\ cancels \in [Conns -> SUBSET Ids] /\ cancelled \in [Conns -> SUBSET Ids]
  /\ expired \in [Conns -> SUBSET Ids]
  /\ rd \in [Conns -> [Readers -> {"none", "loop", "read", "inline", "shutdown", "leave", "gone"}]]
  /\ runner \in [Conns -> [Ids -> Readers \cup {None}]]
  /\ timer \in [Conns -> [Ids -> {"off", "armed", "fired", "stopped"}]]
  /\ h \in [Conns -> [Ids -> {"none", "start", "run", "write", "shutdown", "end", "done"}]]
  /\ answered \in [Conns -> SUBSET Ids]

(* Readers that use c.cBuf or will use it without a timer firing first.    *)
InCharge(c) ==
  {r \in Readers :
     \/ rd[c][r] \in {"loop", "read", "shutdown", "leave"}
     \/ rd[c][r] = "inline" /\ \E i \in Ids : runner[c][i] = r /\ timer[c][i] = "armed"}

(* Every registered connection has exactly one goroutine in charge of its  *)
(* reader, however timers and handlers race; one that is not registered    *)
(* has none, so onDone runs once and no connection is left unread          *)
(* (call.go 898-908).                                                      *)
OneReader ==
  \A c \in Conns : Cardinality(InCharge(c)) = IF c \in conns THEN 1 ELSE 0

(* The table holds the requests whose handler runs and whose context is    *)
(* not cancelled, one whose deadline has passed included; a closed         *)
(* connection has none, so no handler outlives it uncancelled (call.go     *)
(* 931-936, 990-995, 1018-1039).                                           *)
CancelTable ==
  \A c \in Conns :
    /\ closed[c] => cancels[c] = {}
    /\ cancels[c] = {i \in Known : h[c][i] \in {"run", "write", "shutdown", "end"}} \ cancelled[c]

(* A handler that has returned leaves no context behind (call.go 976-980,  *)
(* 993-994).                                                               *)
NoContextLeak == \A c \in Conns, i \in Ids : h[c][i] = "done" => i \in cancelled[c]

(* While a method runs, its context ends for two reasons only: the         *)
(* connection is down, or the deadline that the header of this request     *)
(* carried has passed (call.go 921-937, 964-980, 1031-1039).  Messages,    *)
(* replies, deadlines and failures of other requests do not end it.        *)
CancelledForAReason ==
  \A c \in Conns, i \in Ids :
    h[c][i] = "run" => /\ i \in cancelled[c] => closed[c]
                       /\ i \in expired[c] => i \in Timed

(* A caller that leaves before its deadline notifies the server            *)
(* (call.go:142), which lives on to end that one request.                  *)
SurvivesCancel == ~panicked

(* A request without a handler is answered while the connection is open,   *)
(* although the methods of earlier requests never return: the timer hands  *)
(* the connection on (call.go 898-908).                                    *)
NotBlocked ==
  \A c \in Conns, i \in Ids \ Known :
    net[c] = "open" /\ sent[c][i] # "no" ~> i \in answered[c] \/ net[c] # "open" \/ ctxDone

(* When Serve has returned, every connection is unregistered, even if      *)
(* handlers never return (call.go 1048-1054, 1091).                        *)
Drained == serving = "returned" ~> conns = {} \/ panicked

(* When the peer is gone, the contexts of its requests are cancelled,      *)
(* unless the server's own context ends first (call.go 872-876, 931-936).  *)
PeerGone ==
  \A c \in Conns : net[c] = "broken" ~>
    ctxDone \/ panicked \/ \A i \in Known : h[c][i] \in {"run", "write"} => i \in cancelled[c]
=============================================================================
