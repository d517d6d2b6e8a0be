--------------------------------- MODULE Rpc --------------------------------
(***************************************************************************)
(* A method call through the generated stubs: the local stub, or the       *)
(* client stub, call.stub, the server's runHandler and the server stub,    *)
(* with the pooled buffers they pass on.  The connection is abstracted to  *)
(* what ClientConn and ServerConn keep: a request carries the bytes of its *)
(* buffer, its answer ends the try that waits for it or is dropped, and a  *)
(* try may fail at any time.  That a cancel message kills the server is    *)
(* ServerConn's business: here the implementation's panic does, and one of *)
(* the decoder that the stub does not recover.                             *)
(*                                                                         *)
(* All buffers have one size.  A buffer nobody refers to is garbage and    *)
(* stands for a new one.                                                   *)
(***************************************************************************)
EXTENDS Naturals, FiniteSets

CONSTANTS Calls, Bufs, None,
          Methods,       \* [frees, alias]: the client stub frees the results it
                         \* has decoded; the decoded values point into them
          Stubs,         \* the kinds of stub called, of {"local", "remote"}
          Contexts,      \* is the caller's span context valid?
          MaxSends,      \* bound: requests sent
          InjectRetries  \* the deployment injects retries (stub.injectRetries > 0)

ASSUME RpcAssumption ==
  /\ None \notin Bufs
  /\ Methods \subseteq [frees : BOOLEAN, alias : BOOLEAN]
  /\ Stubs \subseteq {"local", "remote"} /\ Contexts \subseteq BOOLEAN
  /\ MaxSends \in Nat \ {0} /\ InjectRetries \in BOOLEAN

VARIABLES
  pool,     \* pool[b]: how often the sync.Pool holds b
  mem,      \* mem[b]: the message last written into b
  at,       \* where the stub method of a call stands
  how,      \* its stub, context and method
  err,      \* its named result err
  pan,      \* the panic that unwinds it; codec: a serializerError or deserializerError
  enc,      \* its serializer's buffer
  results,  \* the buffer of the answer
  value,    \* the result it decoded
  tries,    \* times it has been sent
  span,     \* its child span
  metrics,  \* calls and errors counted by its MethodMetrics
  req,      \* the requests on the server, by call and try
  ran,      \* history: outcomes the implementation produced for a call
  down      \* processes that have panicked

clientVars == <<at, how, err, pan, results, value, tries, span, metrics>>
rpcVars    == <<pool, mem, enc, req, ran, down, clientVars>>

Outcomes == {"ok", "app"}
Messages == [call : Calls, body : {"args", "error"} \cup Outcomes]
Msg(c, body) == [call |-> c, body |-> body]
Tries    == 1..MaxSends
Requests == Calls \X Tries
NoRequest == [at |-> "none", msg |-> None, enc |-> None, out |-> "none", wire |-> None]

Init ==
  /\ pool = [b \in Bufs |-> 0]
  /\ mem = [b \in Bufs |-> None]
  /\ at = [c \in Calls |-> "idle"]
  /\ how = [c \in Calls |-> None]
  /\ err = [c \in Calls |-> "nil"]
  /\ pan = [c \in Calls |-> "none"]
  /\ enc = [c \in Calls |-> None]
  /\ results = [c \in Calls |-> None]
  /\ value = [c \in Calls |-> None]
  /\ tries = [c \in Calls |-> 0]
  /\ span = [c \in Calls |-> "none"]
  /\ metrics = [c \in Calls |-> [count |-> 0, errs |-> 0]]
  /\ req = [r \in Requests |-> NoRequest]
  /\ ran = [c \in Calls |-> {}]
  /\ down = {}
-----------------------------------------------------------------------------
(* The pool.                                                               *)

Remote(c) == how[c].stub = "remote"

(* Where a buffer can be in use: filled, sent, decoded, or pointed into.   *)
Places == (Calls \X {"arguments", "results"}) \cup (Requests \X {"request", "answer"})
BufferAt(p) ==
  CASE p[2] = "arguments" -> enc[p[1]]
    [] p[2] = "results"   -> results[p[1]]
    [] p[2] = "request"   -> req[p[1]].msg
    [] p[2] = "answer"    -> req[p[1]].enc
Refs(b) == {p \in Places : BufferAt(p) = b}

(* Take b, from the pool or new, fill it with m, and free the buffers in   *)
(* old.                                                                    *)
Get(b, m, old) ==
  /\ pool[b] > 0 \/ Refs(b) = {}
  /\ pool' = [x \in Bufs |-> (IF x = b /\ pool[b] > 0 THEN pool[x] - 1 ELSE pool[x])
                           + (IF x \in old THEN 1 ELSE 0)]
  /\ mem' = [mem EXCEPT ![b] = m]

Free(bs) == pool' = [b \in Bufs |-> IF b \in bs THEN pool[b] + 1 ELSE pool[b]]
-----------------------------------------------------------------------------
(* The stub method begins the metrics and starts a child span if the       *)
(* caller's context has one.  ClientStubFn does not pass the tracer on: a  *)
(* client stub's Start is called on a nil interface and panics, above the  *)
(* deferred recover.                                                       *)
Begin(c) ==
  /\ at[c] = "idle" /\ "client" \notin down
  /\ \E s \in Stubs, t \in Contexts, m \in Methods :
       /\ how' = [how EXCEPT ![c] = [stub |-> s, traced |-> t, method |-> m]]
       /\ IF t /\ s = "remote"
          THEN /\ at' = [at EXCEPT ![c] = "crashed"]
               /\ down' = down \cup {"client"}
               /\ metrics' = [metrics EXCEPT ![c].count = @ + 1]
               /\ UNCHANGED span
          ELSE /\ at' = [at EXCEPT ![c] = IF s = "remote" THEN "encode" ELSE "call"]
               /\ span' = [span EXCEPT ![c] = IF t THEN "open" ELSE "none"]
               /\ UNCHANGED <<down, metrics>>
  /\ UNCHANGED <<pool, mem, enc, req, ran, err, pan, results, value, tries>>

(* The local stub calls the implementation, which returns a value or an    *)
(* error, unwraps a Result that holds an error, or panics otherwise.       *)
CallImpl(c) ==
  /\ at[c] = "call" /\ "client" \notin down
  /\ \/ /\ value' = [value EXCEPT ![c] = Msg(c, "ok")]
        /\ ran' = [ran EXCEPT ![c] = {"ok"}]
        /\ UNCHANGED <<err, pan>>
     \/ /\ err' = [err EXCEPT ![c] = "app"]
        /\ ran' = [ran EXCEPT ![c] = {"app"}]
        /\ UNCHANGED <<value, pan>>
     \/ /\ pan' = [pan EXCEPT ![c] = "unwrap"]
        /\ ran' = [ran EXCEPT ![c] = {"app"}]
        /\ UNCHANGED <<value, err>>
     \/ pan' = [pan EXCEPT ![c] = "other"] /\ UNCHANGED <<value, err, ran>>
  /\ at' = [at EXCEPT ![c] = "leave"]
  /\ UNCHANGED <<pool, mem, enc, req, down, how, results, tries, span, metrics>>

(* The client stub encodes the arguments, or panics with a serializerError *)
(* and leaves the buffer to the collector.                                 *)
Encode(c) ==
  /\ at[c] = "encode" /\ "client" \notin down
  /\ \E b \in Bufs :
       /\ Get(b, Msg(c, "args"), {})
       /\ \/ /\ enc' = [enc EXCEPT ![c] = b]
             /\ at' = [at EXCEPT ![c] = "encoded"]
             /\ UNCHANGED pan
          \/ /\ pan' = [pan EXCEPT ![c] = "codec"]
             /\ at' = [at EXCEPT ![c] = "leave"]
             /\ UNCHANGED enc
  /\ UNCHANGED <<req, ran, down, how, err, results, value, tries, span, metrics>>

(* Mutated form of Grow: the buffer is freed and kept.                     *)
Grow_Keep(c) ==
  /\ at[c] = "encoded" /\ "client" \notin down
  /\ Free({enc[c]})
  /\ at' = [at EXCEPT ![c] = "send"]
  /\ UNCHANGED <<mem, enc, req, ran, down, how, err, pan, results, value, tries, span, metrics>>

(* Serializer.grow: copy into a larger buffer and free the old one.        *)
Grow(c) ==
  /\ at[c] = "encoded" /\ "client" \notin down
  /\ \E b \in Bufs \ {enc[c]} :
       /\ Get(b, mem[enc[c]], {enc[c]})
       /\ enc' = [enc EXCEPT ![c] = b]
  /\ at' = [at EXCEPT ![c] = "send"]
  /\ UNCHANGED <<req, ran, down, how, err, pan, results, value, tries, span, metrics>>
-----------------------------------------------------------------------------
Sent == Cardinality({r \in Requests : req[r].at # "none"})

(* stub.Invoke calls conn.Call, which may send the request several times.  *)
Send(c) ==
  /\ at[c] \in {"encoded", "send"} /\ Sent < MaxSends /\ "client" \notin down
  /\ tries' = [tries EXCEPT ![c] = @ + 1]
  /\ req' = [req EXCEPT ![<<c, tries[c] + 1>>] =
               [NoRequest EXCEPT !.at = "sent", !.wire = mem[enc[c]]]]
  /\ at' = [at EXCEPT ![c] = "wait"]
  /\ UNCHANGED <<pool, mem, enc, ran, down, how, err, pan, results, value, span, metrics>>

(* The try fails, before or after it is sent.  conn.Call tries again, or   *)
(* gives up with an error.                                                 *)
TryFails(c) ==
  /\ at[c] \in {"encoded", "send", "wait"} /\ "client" \notin down
  /\ \/ at[c] = "wait" /\ at' = [at EXCEPT ![c] = "send"] /\ UNCHANGED err
     \/ /\ at' = [at EXCEPT ![c] = "called"]
        /\ err' = [err EXCEPT ![c] = "remote"]
  /\ UNCHANGED <<pool, mem, enc, req, ran, down, how, pan, results, value, tries, span, metrics>>

(* The client's reader takes an answer off the wire.  It frees the buffer  *)
(* of an error, and leaves that of a response to the call, or to the       *)
(* collector when the call has gone.                                       *)
Deliver(c, i) ==
  LET r == <<c, i>>  m == req[r].wire  mine == at[c] = "wait" /\ tries[c] = i
  IN /\ req[r].at \in {"written", "gone"} /\ m # None /\ "client" \notin down
     /\ \E b \in Bufs :
          /\ Get(b, m, IF m.body = "error" THEN {b} ELSE {})
          /\ results' = [results EXCEPT ![c] = IF mine /\ m.body # "error" THEN b ELSE @]
     /\ req' = [req EXCEPT ![r].wire = None]
     /\ at' = [at EXCEPT ![c] = IF mine THEN "called" ELSE @]
     /\ err' = [err EXCEPT ![c] = IF mine /\ m.body = "error" THEN "remote" ELSE @]
     /\ UNCHANGED <<enc, ran, down, how, pan, value, tries, span, metrics>>

(* An injected retry calls again and overwrites what the last call brought.*)
InjectRetry(c) ==
  /\ InjectRetries /\ at[c] = "called" /\ Sent < MaxSends /\ "client" \notin down
  /\ at' = [at EXCEPT ![c] = "send"]
  /\ err' = [err EXCEPT ![c] = "nil"]
  /\ results' = [results EXCEPT ![c] = None]
  /\ UNCHANGED <<pool, mem, enc, req, ran, down, how, pan, value, tries, span, metrics>>

(* Mutated form of InvokeReturns: a call that failed keeps nil.            *)
InvokeReturns_Nil(c) ==
  /\ at[c] = "called" /\ "client" \notin down
  /\ Free({enc[c]})
  /\ enc' = [enc EXCEPT ![c] = None]
  /\ err' = [err EXCEPT ![c] = "nil"]
  /\ at' = [at EXCEPT ![c] = IF results[c] = None THEN "leave" ELSE "decode"]
  /\ UNCHANGED <<mem, req, ran, down, how, pan, results, value, tries, span, metrics>>

(* Invoke frees the arguments and returns; an error is joined with         *)
(* RemoteCallError and returned.                                           *)
InvokeReturns(c) ==
  /\ at[c] = "called" /\ "client" \notin down
  /\ Free({enc[c]})
  /\ enc' = [enc EXCEPT ![c] = None]
  /\ at' = [at EXCEPT ![c] = IF err[c] = "nil" THEN "decode" ELSE "leave"]
  /\ UNCHANGED <<mem, req, ran, down, how, err, pan, results, value, tries, span, metrics>>

(* The decoder panics with a deserializerError when data is missing or     *)
(* malformed (check, Len, UnmarshalProto), and with anything else when a   *)
(* type is not registered or not an error (Any, Error) or a slice is out   *)
(* of bounds (String, Bytes).                                              *)
DecoderPanics == {"codec", "other"}

(* Decode the results and the application's error, or panic.               *)
Decode(c) ==
  LET m == mem[results[c]]
  IN /\ at[c] = "decode" /\ "client" \notin down
     /\ \/ /\ value' = [value EXCEPT ![c] = m]
           /\ err' = [err EXCEPT ![c] = IF m.body = "app" THEN "app" ELSE @]
           /\ UNCHANGED pan
        \/ /\ \E p \in DecoderPanics : pan' = [pan EXCEPT ![c] = p]
           /\ UNCHANGED <<value, err>>
     /\ at' = [at EXCEPT ![c] = "leave"]
     /\ UNCHANGED <<pool, mem, enc, req, ran, down, how, results, tries, span, metrics>>
-----------------------------------------------------------------------------
(* The deferred functions, the last deferred first.  The client stub frees *)
(* the results if it was generated so, also when what it decoded points    *)
(* into them (Deserializer.String and Bytes): nothing in the code uses     *)
(* them from then on, though the caller still reads them.  Then a recover  *)
(* turns a panic it knows into err (CatchPanics, CatchResultUnwrapPanic)   *)
(* and panics on otherwise; then the span ends with the error; then the    *)
(* metrics count.  The client stub's span ends in the function that panics *)
(* on, and would stay open: no traced client stub gets here (Begin).       *)
Recovered(c) ==
  CASE pan[c] = "codec" /\ Remote(c) -> "remote"
    [] pan[c] = "unwrap" /\ ~Remote(c)    -> "app"
    [] OTHER -> err[c]

Crashes(c) == pan[c] # "none" /\ Recovered(c) = "nil"

(* Mutated form of Leave: the metrics count before the recover.            *)
Leave_CountFirst(c) ==
  LET frees == Remote(c) /\ how[c].method.frees
  IN /\ at[c] = "leave" /\ "client" \notin down
     /\ Free(IF frees THEN {results[c]} ELSE {})
     /\ results' = [results EXCEPT ![c] = IF frees THEN None ELSE @]
     /\ err' = [err EXCEPT ![c] = Recovered(c)]
     /\ span' = [span EXCEPT ![c] = CASE @ = "none" -> @
                                      [] err'[c] = "nil" -> "ended" [] OTHER -> "failed"]
     /\ metrics' = [metrics EXCEPT ![c] =
                      [count |-> @.count + 1, errs |-> IF err[c] = "nil" THEN @.errs ELSE @.errs + 1]]
     /\ at' = [at EXCEPT ![c] = IF Crashes(c) THEN "crashed" ELSE "returned"]
     /\ pan' = [pan EXCEPT ![c] = "none"]
     /\ down' = IF Crashes(c) THEN down \cup {"client"} ELSE down
     /\ UNCHANGED <<mem, enc, req, ran, how, value, tries>>

Leave(c) ==
  LET frees == Remote(c) /\ how[c].method.frees
  IN /\ at[c] = "leave" /\ "client" \notin down
     /\ Free(IF frees THEN {results[c]} ELSE {})
     /\ results' = [results EXCEPT ![c] = IF frees THEN None ELSE @]
     /\ err' = [err EXCEPT ![c] = Recovered(c)]
     /\ span' = [span EXCEPT ![c] = CASE @ = "none" -> @
                                      [] err'[c] = "nil" -> "ended" [] OTHER -> "failed"]
     /\ metrics' = [metrics EXCEPT ![c] =
                      [count |-> @.count + 1, errs |-> IF err'[c] = "nil" THEN @.errs ELSE @.errs + 1]]
     /\ at' = [at EXCEPT ![c] = IF Crashes(c) THEN "crashed" ELSE "returned"]
     /\ pan' = [pan EXCEPT ![c] = "none"]
     /\ down' = IF Crashes(c) THEN down \cup {"client"} ELSE down
     /\ UNCHANGED <<mem, enc, req, ran, how, value, tries>>
-----------------------------------------------------------------------------
(* The server's process ends, with the requests in it; an answer it has    *)
(* written still arrives.                                                  *)
ServerDies ==
  /\ down' = down \cup {"server"}
  /\ req' = [r \in Requests |->
               CASE req[r].at = "none" -> NoRequest
                 [] req[r].at \in {"written", "gone"} -> [NoRequest EXCEPT !.at = "gone", !.wire = req[r].wire]
                 [] OTHER -> [NoRequest EXCEPT !.at = "gone"]]

(* The server reads a request into a pooled buffer.                        *)
Receive(r) ==
  /\ req[r].at = "sent" /\ "server" \notin down
  /\ \E b \in Bufs :
       /\ Get(b, req[r].wire, {})
       /\ req' = [req EXCEPT ![r] = [@ EXCEPT !.at = "read", !.msg = b, !.wire = None]]
  /\ UNCHANGED <<enc, ran, down, clientVars>>

(* runHandler: startRequest refuses once the connection is closed, and the *)
(* buffer goes to the collector; otherwise the server stub decodes the     *)
(* arguments and calls the implementation.  When the decoder panics with a *)
(* deserializerError, the stub recovers it and runHandler answers with it; *)
(* any other panic ends the process.                                       *)
StartHandler(r) ==
  /\ req[r].at = "read" /\ "server" \notin down
  /\ \/ /\ \/ req' = [req EXCEPT ![r] = [NoRequest EXCEPT !.at = "gone"]]
           \/ req' = [req EXCEPT ![r].at = "run"]
           \/ req' = [req EXCEPT ![r] = [@ EXCEPT !.at = "encode", !.out = "error"]]
        /\ UNCHANGED down
     \/ ServerDies
  /\ UNCHANGED <<pool, mem, enc, ran, clientVars>>

(* The implementation returns.  The server stub recovers neither a         *)
(* Result's unwrapping nor any other panic: the process dies.              *)
ImplReturns(r) ==
  /\ req[r].at = "run" /\ "server" \notin down
  /\ \/ \E o \in Outcomes :
          /\ req' = [req EXCEPT ![r] = [@ EXCEPT !.at = "encode", !.out = o]]
          /\ ran' = [ran EXCEPT ![r[1]] = @ \cup {o}]
          /\ UNCHANGED down
     \/ ServerDies /\ UNCHANGED ran
  /\ UNCHANGED <<pool, mem, enc, clientVars>>

(* Encode the results.  A serializerError is recovered; runHandler then    *)
(* encodes it, or the one of the arguments, as the answer.                 *)
EncodeResults(r) ==
  /\ req[r].at = "encode" /\ "server" \notin down
  /\ \E b \in Bufs, o \in {req[r].out, "error"} :
       /\ Get(b, Msg(r[1], o), {})
       /\ req' = [req EXCEPT ![r] = [@ EXCEPT !.at = "write", !.enc = b, !.out = "none"]]
  /\ UNCHANGED <<enc, ran, down, clientVars>>

(* writeMessage; on an error the connection is shut down and nothing       *)
(* reaches the client.                                                     *)
WriteAnswer(r) ==
  /\ req[r].at = "write" /\ "server" \notin down
  /\ \E m \in {mem[req[r].enc], None} :
       req' = [req EXCEPT ![r] = [@ EXCEPT !.at = "written", !.wire = m]]
  /\ UNCHANGED <<pool, mem, enc, ran, down, clientVars>>

(* Mutated form of FreeBuffers: the answer is freed twice, once by the     *)
(* stub.                                                                   *)
FreeBuffers_Twice(r) ==
  /\ req[r].at = "written" /\ "server" \notin down
  /\ pool' = [pool EXCEPT ![req[r].msg] = @ + 1, ![req[r].enc] = @ + 2]
  /\ req' = [req EXCEPT ![r] = [@ EXCEPT !.at = "gone", !.msg = None, !.enc = None]]
  /\ UNCHANGED <<mem, enc, ran, down, clientVars>>

(* The deferred function of runHandler frees the answer and the request.   *)
FreeBuffers(r) ==
  /\ req[r].at = "written" /\ "server" \notin down
  /\ Free({req[r].msg, req[r].enc})
  /\ req' = [req EXCEPT ![r] = [@ EXCEPT !.at = "gone", !.msg = None, !.enc = None]]
  /\ UNCHANGED <<mem, enc, ran, down, clientVars>>
-----------------------------------------------------------------------------
StubStep(c) ==
  \/ Begin(c) \/ CallImpl(c) \/ Encode(c) \/ Grow(c) \/ Send(c) \/ TryFails(c)
  \/ InjectRetry(c) \/ InvokeReturns(c) \/ Decode(c) \/ Leave(c)

ServerStep(r) ==
  \/ Receive(r) \/ StartHandler(r) \/ ImplReturns(r) \/ EncodeResults(r)
  \/ WriteAnswer(r) \/ FreeBuffers(r)

Next ==
  \/ \E c \in Calls : StubStep(c) \/ \E i \in Tries : Deliver(c, i)
  \/ \E r \in Requests : ServerStep(r)

Spec == Init /\ [][Next]_rpcVars
-----------------------------------------------------------------------------
TypeOK ==
  /\ pool \in [Bufs -> Nat]
  /\ mem \in [Bufs -> Messages \cup {None}]
  /\ at \in [Calls -> {"idle", "call", "encode", "encoded", "send", "wait", "called",
                       "decode", "leave", "returned", "crashed"}]
  /\ how \in [Calls -> [stub : Stubs, traced : Contexts, method : Methods] \cup {None}]
  /\ err \in [Calls -> {"nil", "app", "remote"}]
  /\ pan \in [Calls -> {"none", "codec", "unwrap", "other"}]
  /\ enc \in [Calls -> Bufs \cup {None}] /\ results \in [Calls -> Bufs \cup {None}]
  /\ value \in [Calls -> Messages \cup {None}]
  /\ tries \in [Calls -> 0..MaxSends]
  /\ span \in [Calls -> {"none", "open", "ended", "failed"}]
  /\ metrics \in [Calls -> [count : Nat, errs : Nat]]
  /\ req \in [Requests -> [at : {"none", "sent", "read", "run", "encode", "write", "written", "gone"},
                           msg : Bufs \cup {None}, enc : Bufs \cup {None},
                           out : Outcomes \cup {"none", "error"}, wire : Messages \cup {None}]]
  /\ ran \in [Calls -> SUBSET Outcomes]
  /\ down \subseteq {"client", "server"}

(* No buffer is in the pool twice, or in the pool while it is being sent,  *)
(* decoded or pointed into, or used by two at once, whatever panics, fails *)
(* or is answered late: every pooled buffer has one owner from Get to its  *)
(* free in Invoke, grow, readAndProcessMessage, runHandler or the stub.    *)
OneOwner == \A b \in Bufs : pool[b] + Cardinality(Refs(b)) <= 1

(* The stub of c has freed the buffer its result points into: from then on *)
(* the caller reads whatever a later owner writes there.                   *)
Dangling(c) == Remote(c) /\ how[c].method.frees /\ how[c].method.alias

(* What a caller reads after the stub method has returned nil: the value,  *)
(* or what the buffer it points into holds by now.                         *)
Result(c) == IF how[c].method.alias /\ results[c] # None THEN mem[results[c]] ELSE value[c]

(* The implementation reads its own caller's arguments to the end, and the *)
(* caller its own result for as long as it keeps it, unless it dangles     *)
(* (generator.go 1471-1474, deserialize.go 221-246).                       *)
Intact ==
  /\ \A r \in Requests : req[r].at = "run" => mem[req[r].msg] = Msg(r[1], "args")
  /\ \A c \in Calls :
       at[c] = "returned" /\ err[c] = "nil" /\ ~Dangling(c) => Result(c) = Msg(c, "ok")

(* A stub method that has returned or panicked has counted its call once,  *)
(* as an error exactly when it returned one, and has ended the span it     *)
(* started, with that error.                                               *)
Accounted ==
  \A c \in Calls : at[c] \in {"returned", "crashed"} =>
    /\ metrics[c] = [count |-> 1, errs |-> IF err[c] = "nil" THEN 0 ELSE 1]
    /\ span[c] \in {"none", IF err[c] = "nil" THEN "ended" ELSE "failed"}

(* A call is a MethodCall.                                                 *)
Promise == INSTANCE MethodCall WITH
  remote   <- {c \in Calls : at[c] # "idle" /\ Remote(c)},
  called   <- {c \in Calls : at[c] # "idle"},
  returned <- {c \in Calls : at[c] = "returned"},
  executed <- ran,
  got      <- [c \in Calls |->
                 IF at[c] # "returned" THEN "nothing"
                 ELSE CASE err[c] = "nil" -> "ok" [] err[c] = "app" -> "app" [] OTHER -> "failed"]
Implements == Promise!Spec
=============================================================================
