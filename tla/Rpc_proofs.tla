----------------------------- MODULE Rpc_proofs -----------------------------
(***************************************************************************)
(* For any number of calls, buffers and sends: every pooled buffer has one *)
(* owner, arguments and results stay intact, a call is accounted for, and  *)
(* a call through the stubs is a MethodCall.                               *)
(*                                                                         *)
(* The argument has three layers.  Typed: the states and the buffers they  *)
(* need, and no try beyond MaxSends.  Owned: two places never share a      *)
(* buffer and none of them is in the pool, so that taking a buffer writes  *)
(* into nobody else's (MemKept).  Faithful: what each buffer, wire and     *)
(* variable holds at each stage of a call.                                 *)
(***************************************************************************)
EXTENDS Rpc, TLAPS, FiniteSetTheorems

SentSet == {r \in Requests : req[r].at # "none"}

(* The tries of a call are numbered in the order they are sent.            *)
Numbered ==
  /\ IsFiniteSet(SentSet)
  /\ \A c \in Calls : tries[c] <= Sent
  /\ \A c \in Calls, i \in Tries : i > tries[c] => req[<<c, i>>].at = "none"

ReqTypes == [at : {"none", "sent", "read", "run", "encode", "write", "written", "gone"},
             msg : Bufs \cup {None}, enc : Bufs \cup {None},
             out : Outcomes \cup {"none", "error"}, wire : Messages \cup {None}]

(* The buffers a stage needs.                                              *)
HoldingCall(c) ==
  /\ at[c] \in {"encoded", "send", "wait", "called"} => enc[c] \in Bufs
  /\ at[c] = "called" /\ err[c] = "nil" => results[c] \in Bufs
  /\ at[c] = "decode" => results[c] \in Bufs

HoldingRequest(r) ==
  /\ req[r].at = "encode" => req[r].out \in Outcomes \cup {"error"}
  /\ req[r].at = "write" => req[r].enc \in Bufs

Holding == (\A c \in Calls : HoldingCall(c)) /\ (\A r \in Requests : HoldingRequest(r))

Typed == TypeOK /\ Numbered /\ Holding

(* A step that sends no request keeps the numbering.                       *)
LEMMA SameSent ==
  ASSUME Typed, tries' = tries,
         \A r \in Requests : (req'[r].at = "none") <=> (req[r].at = "none")
  PROVE  Numbered'
<1>1. SentSet' = SentSet
  BY DEF SentSet
<1>2. Sent' = Sent
  BY <1>1 DEF Sent, SentSet
<1>3. \A c \in Calls, i \in Tries : <<c, i>> \in Requests
  BY DEF Requests
<1>4. QED BY <1>1, <1>2, <1>3 DEF Typed, Numbered

LEMMA RpcConstants ==
  /\ None \notin Bufs
  /\ MaxSends \in Nat /\ MaxSends >= 1
  /\ \A c \in Calls, i \in Tries : <<c, i>> \in Requests
  /\ \A r \in Requests : r[1] \in Calls /\ r[2] \in Tries /\ r = <<r[1], r[2]>>
  /\ \A c \in Calls : \A o \in {"args", "error"} \cup Outcomes :
       Msg(c, o) \in Messages /\ Msg(c, o).call = c /\ Msg(c, o).body = o
  /\ NoRequest.at = "none"
BY RpcAssumption DEF RpcAssumption, Requests, Tries, Messages, Msg, NoRequest

LEMMA MessagesAre == \A c \in Calls : \A o \in {"args", "error", "ok", "app"} : Msg(c, o) \in Messages
BY DEF Msg, Messages, Outcomes

LEMMA InitTyped == Init => Typed
<1> SUFFICES ASSUME Init PROVE Typed
  OBVIOUS
<1>1. TypeOK
  BY RpcConstants DEF Init, TypeOK, Requests, NoRequest
<1>2. SentSet = {}
  BY DEF Init, SentSet, NoRequest
<1>3. IsFiniteSet(SentSet) /\ Sent = 0
  BY <1>2, FS_EmptySet DEF Sent, SentSet
<1>4. Numbered
  BY <1>3, RpcConstants DEF Init, Numbered, NoRequest
<1>5. Holding
  BY DEF Init, Holding, HoldingCall, HoldingRequest, NoRequest
<1>6. QED BY <1>1, <1>4, <1>5 DEF Typed

(* Taking and freeing buffers keeps the pool and the memory typed.         *)
LEMMA GetTyped ==
  ASSUME TypeOK, NEW b \in Bufs, NEW m \in Messages \cup {None}, NEW old, Get(b, m, old)
  PROVE  pool' \in [Bufs -> Nat] /\ mem' \in [Bufs -> Messages \cup {None}]
BY DEF TypeOK, Get

LEMMA FreeTyped ==
  ASSUME TypeOK, NEW bs, Free(bs)
  PROVE  pool' \in [Bufs -> Nat]
BY DEF TypeOK, Free

(* A request is sent once more, with the next number.                      *)
LEMMA SendNumbered ==
  ASSUME Typed, NEW c \in Calls, Send(c)
  PROVE  Numbered' /\ tries[c] + 1 \in Tries
<1>1. tries[c] \in Nat /\ tries[c] <= Sent /\ Sent < MaxSends /\ IsFiniteSet(SentSet)
      /\ Sent = Cardinality(SentSet)
  BY DEF Typed, TypeOK, Numbered, Send, Sent, SentSet
<1>2. Sent \in Nat
  BY <1>1, FS_CardinalityType
<1>3. tries[c] + 1 \in Tries /\ tries[c] + 1 > tries[c]
  BY <1>1, <1>2, RpcConstants DEF Tries
<1> DEFINE r == <<c, tries[c] + 1>>
<1>4. r \in Requests /\ req[r].at = "none"
  BY <1>3, RpcConstants DEF Typed, Numbered
<1>5. req'[r].at = "sent" /\ \A q \in Requests \ {r} : req'[q] = req[q]
  BY <1>4 DEF Send, Typed, TypeOK, NoRequest
<1>6. SentSet' = SentSet \cup {r} /\ r \notin SentSet
  BY <1>4, <1>5 DEF SentSet
<1>7. IsFiniteSet(SentSet') /\ Cardinality(SentSet') = Sent + 1
  BY <1>6, <1>1, FS_AddElement
<1>8. Sent' = Sent + 1
  BY <1>7 DEF Sent, SentSet
<1>9. \A d \in Calls : tries'[d] <= Sent'
  BY <1>1, <1>2, <1>8 DEF Typed, TypeOK, Numbered, Send
<1>10. ASSUME NEW d \in Calls, NEW i \in Tries, i > tries'[d]
       PROVE  req'[<<d, i>>].at = "none"
  <2>1. i > tries[d] /\ <<d, i>> # r
    BY <1>10, <1>1 DEF Typed, TypeOK, Send, Tries
  <2>2. QED BY <2>1, <1>5, RpcConstants DEF Typed, Numbered
<1>11. QED BY <1>3, <1>7, <1>9, <1>10 DEF Numbered

(* Each step keeps the types, the numbering and the buffers a stage needs. *)
LEMMA ReqFacts ==
  ASSUME TypeOK
  PROVE  /\ req \in [Requests -> ReqTypes]
         /\ \A q \in ReqTypes :
              /\ q.at \in {"none", "sent", "read", "run", "encode", "write", "written", "gone"}
              /\ q.out \in Outcomes \cup {"none", "error"} /\ q.wire \in Messages \cup {None}
              /\ q.msg \in Bufs \cup {None} /\ q.enc \in Bufs \cup {None}
         /\ NoRequest \in ReqTypes
BY DEF TypeOK, ReqTypes, NoRequest

(* The requests of a process that has died.                                *)
LEMMA DeathTyped ==
  ASSUME Typed, ServerDies
  PROVE  req' \in [Requests -> ReqTypes] /\ down' \subseteq {"client", "server"}
<1>1. /\ NoRequest \in ReqTypes /\ [NoRequest EXCEPT !.at = "gone"] \in ReqTypes
      /\ \A q \in ReqTypes : [NoRequest EXCEPT !.at = "gone", !.wire = q.wire] \in ReqTypes
  BY DEF ReqTypes, NoRequest
<1>2. ASSUME NEW q \in Requests
      PROVE  (CASE req[q].at = "none" -> NoRequest
                [] req[q].at \in {"written", "gone"} ->
                     [NoRequest EXCEPT !.at = "gone", !.wire = req[q].wire]
                [] OTHER -> [NoRequest EXCEPT !.at = "gone"]) \in ReqTypes
  BY <1>1, ReqFacts DEF Typed
<1>3. req' \in [Requests -> ReqTypes]
  BY <1>2 DEF ServerDies
<1>4. QED BY <1>3 DEF ServerDies, Typed, TypeOK

LEMMA NextTypes == Typed /\ [Next]_rpcVars => TypeOK'
<1> SUFFICES ASSUME Typed, [Next]_rpcVars PROVE TypeOK'
  OBVIOUS
<1>0. /\ at \in [Calls -> {"idle", "call", "encode", "encoded", "send", "wait", "called",
                        "decode", "leave", "returned", "crashed"}]
      /\ how \in [Calls -> [stub : Stubs, traced : Contexts, method : Methods] \cup {None}]
      /\ err \in [Calls -> {"nil", "app", "remote"}]
      /\ pan \in [Calls -> {"none", "codec", "unwrap", "other"}]
      /\ enc \in [Calls -> Bufs \cup {None}] /\ results \in [Calls -> Bufs \cup {None}]
      /\ value \in [Calls -> Messages \cup {None}] /\ ran \in [Calls -> SUBSET Outcomes]
      /\ span \in [Calls -> {"none", "open", "ended", "failed"}]
      /\ down \subseteq {"client", "server"}
  BY DEF Typed, TypeOK
<1>1. ASSUME NEW c \in Calls, Begin(c) PROVE TypeOK'
  <2>1. at' \in [Calls -> {"idle", "call", "encode", "encoded", "send", "wait", "called",
                          "decode", "leave", "returned", "crashed"}]
    <3>1. \E v \in {"crashed", "encode", "call"} : at' = [at EXCEPT ![c] = v]
      BY <1>1 DEF Begin
    <3>2. QED BY <3>1 DEF Typed, TypeOK
  <2>2. how' \in [Calls -> [stub : Stubs, traced : Contexts, method : Methods] \cup {None}]
    BY <1>0, <1>1 DEF Begin
  <2>3. metrics' \in [Calls -> [count : Nat, errs : Nat]]
    <3>1. metrics[c] \in [count : Nat, errs : Nat]
      BY DEF Typed, TypeOK
    <3> DEFINE m == [metrics[c] EXCEPT !.count = @ + 1]
    <3>2. m \in [count : Nat, errs : Nat]
      BY <3>1
    <3>3. metrics' = metrics \/ metrics' = [metrics EXCEPT ![c] = m]
      BY <1>1 DEF Begin
    <3> HIDE DEF m
    <3>4. QED BY SMTT(30), <3>2, <3>3 DEF Typed, TypeOK
  <2>4. span' \in [Calls -> {"none", "open", "ended", "failed"}]
    BY <1>0, <1>1 DEF Begin
  <2>5. down' \subseteq {"client", "server"}
    BY <1>0, <1>1 DEF Begin
  <2>6. QED BY <1>1, <2>1, <2>2, <2>3, <2>4, <2>5 DEF Typed, TypeOK, Begin
<1>2. ASSUME NEW c \in Calls, CallImpl(c) PROVE TypeOK'
  <2>1. at' \in [Calls -> {"idle", "call", "encode", "encoded", "send", "wait", "called",
                          "decode", "leave", "returned", "crashed"}]
    BY <1>0, <1>2 DEF CallImpl
  <2>2. value' \in [Calls -> Messages \cup {None}]
    <3>1. Msg(c, "ok") \in Messages
      BY MessagesAre
    <3>2. value' = value \/ value' = [value EXCEPT ![c] = Msg(c, "ok")]
      BY <1>2 DEF CallImpl
    <3>3. QED BY <3>1, <3>2 DEF Typed, TypeOK
  <2>3. err' \in [Calls -> {"nil", "app", "remote"}]
    BY <1>0, <1>2 DEF CallImpl
  <2>4. pan' \in [Calls -> {"none", "codec", "unwrap", "other"}]
    BY <1>0, <1>2 DEF CallImpl
  <2>5. ran' \in [Calls -> SUBSET Outcomes]
    BY <1>0, <1>2 DEF CallImpl, Outcomes
  <2>6. QED BY <1>2, <2>1, <2>2, <2>3, <2>4, <2>5 DEF Typed, TypeOK, CallImpl
<1>3. ASSUME NEW c \in Calls, Encode(c) PROVE TypeOK'
  <2>1. pool' \in [Bufs -> Nat] /\ mem' \in [Bufs -> Messages \cup {None}]
    <3>1. PICK b \in Bufs : Get(b, Msg(c, "args"), {})
      BY <1>3 DEF Encode
    <3>2. Msg(c, "args") \in Messages
      BY MessagesAre
    <3>3. QED BY <3>1, <3>2, GetTyped DEF Typed
  <2>2. enc' \in [Calls -> Bufs \cup {None}]
    BY <1>0, <1>3 DEF Encode
  <2>3. at' \in [Calls -> {"idle", "call", "encode", "encoded", "send", "wait", "called",
                          "decode", "leave", "returned", "crashed"}]
    BY <1>0, <1>3 DEF Encode
  <2>4. pan' \in [Calls -> {"none", "codec", "unwrap", "other"}]
    BY <1>0, <1>3 DEF Encode
  <2>5. QED BY <1>3, <2>1, <2>2, <2>3, <2>4 DEF Typed, TypeOK, Encode
<1>4. ASSUME NEW c \in Calls, Grow(c) PROVE TypeOK'
  <2>1. pool' \in [Bufs -> Nat] /\ mem' \in [Bufs -> Messages \cup {None}]
    <3>1. mem[enc[c]] \in Messages \cup {None}
      BY <1>4 DEF Typed, TypeOK, Holding, HoldingCall, HoldingRequest, Grow
    <3>2. QED BY <1>4, <3>1, GetTyped DEF Typed, Grow
  <2>2. enc' \in [Calls -> Bufs \cup {None}]
    BY <1>0, <1>4 DEF Grow
  <2>3. at' \in [Calls -> {"idle", "call", "encode", "encoded", "send", "wait", "called",
                          "decode", "leave", "returned", "crashed"}]
    BY <1>0, <1>4 DEF Grow
  <2>4. QED BY <1>4, <2>1, <2>2, <2>3 DEF Typed, TypeOK, Grow
<1>5. ASSUME NEW c \in Calls, Send(c) PROVE TypeOK'
  <2>1. at' \in [Calls -> {"idle", "call", "encode", "encoded", "send", "wait", "called",
                          "decode", "leave", "returned", "crashed"}]
    BY <1>0, <1>5 DEF Send
  <2>2. tries' \in [Calls -> 0..MaxSends]
    <3>1. tries[c] + 1 \in 0..MaxSends
      BY <1>5, SendNumbered DEF Tries
    <3>2. QED BY <1>5, <3>1 DEF Typed, TypeOK, Send
  <2>3. req' \in [Requests -> ReqTypes]
    <3>1. mem[enc[c]] \in Messages \cup {None}
      BY <1>5 DEF Typed, TypeOK, Holding, HoldingCall, HoldingRequest, Send
    <3>2. [NoRequest EXCEPT !.at = "sent", !.wire = mem[enc[c]]] \in ReqTypes
      BY <3>1 DEF NoRequest, ReqTypes
    <3>3. QED BY <1>5, <3>2, ReqFacts DEF Typed, Send
  <2>4. QED BY <1>5, <2>1, <2>2, <2>3 DEF Typed, TypeOK, Send, ReqTypes
<1>6. ASSUME NEW c \in Calls, TryFails(c) PROVE TypeOK'
  <2>1. at' \in [Calls -> {"idle", "call", "encode", "encoded", "send", "wait", "called",
                          "decode", "leave", "returned", "crashed"}]
    BY <1>0, <1>6 DEF TryFails
  <2>2. err' \in [Calls -> {"nil", "app", "remote"}]
    BY <1>0, <1>6 DEF TryFails
  <2>3. QED BY <1>6, <2>1, <2>2 DEF Typed, TypeOK, TryFails
<1>7. ASSUME NEW c \in Calls, NEW i \in Tries, Deliver(c, i) PROVE TypeOK'
  <2>1. pool' \in [Bufs -> Nat] /\ mem' \in [Bufs -> Messages \cup {None}]
    BY <1>7, GetTyped, RpcConstants DEF Typed, TypeOK, Deliver
  <2>2. results' \in [Calls -> Bufs \cup {None}]
    BY <1>0, <1>7 DEF Deliver
  <2>3. req' \in [Requests -> ReqTypes]
    <3>1. \A q \in ReqTypes : [q EXCEPT !.wire = None] \in ReqTypes
      BY DEF ReqTypes
    <3>2. req' = [req EXCEPT ![<<c, i>>] = [req[<<c, i>>] EXCEPT !.wire = None]]
      BY <1>7 DEF Deliver
    <3>3. QED BY <3>1, <3>2, ReqFacts DEF Typed
  <2>4. at' \in [Calls -> {"idle", "call", "encode", "encoded", "send", "wait", "called",
                          "decode", "leave", "returned", "crashed"}]
    BY <1>0, <1>7 DEF Deliver
  <2>5. err' \in [Calls -> {"nil", "app", "remote"}]
    BY <1>0, <1>7 DEF Deliver
  <2>6. QED BY <1>7, <2>1, <2>2, <2>3, <2>4, <2>5 DEF Typed, TypeOK, Deliver, ReqTypes
<1>8. ASSUME NEW c \in Calls, InjectRetry(c) PROVE TypeOK'
  <2>1. at' \in [Calls -> {"idle", "call", "encode", "encoded", "send", "wait", "called",
                          "decode", "leave", "returned", "crashed"}]
    BY <1>0, <1>8 DEF InjectRetry
  <2>2. err' \in [Calls -> {"nil", "app", "remote"}]
    BY <1>0, <1>8 DEF InjectRetry
  <2>3. results' \in [Calls -> Bufs \cup {None}]
    BY <1>0, <1>8 DEF InjectRetry
  <2>4. QED BY <1>8, <2>1, <2>2, <2>3 DEF Typed, TypeOK, InjectRetry
<1>9. ASSUME NEW c \in Calls, InvokeReturns(c) PROVE TypeOK'
  <2>1. pool' \in [Bufs -> Nat]
    BY <1>9, FreeTyped, RpcConstants DEF Typed, TypeOK, InvokeReturns
  <2>2. enc' \in [Calls -> Bufs \cup {None}]
    BY <1>0, <1>9 DEF InvokeReturns
  <2>3. at' \in [Calls -> {"idle", "call", "encode", "encoded", "send", "wait", "called",
                          "decode", "leave", "returned", "crashed"}]
    BY <1>0, <1>9 DEF InvokeReturns
  <2>4. QED BY <1>9, <2>1, <2>2, <2>3 DEF Typed, TypeOK, InvokeReturns
<1>10. ASSUME NEW c \in Calls, Decode(c) PROVE TypeOK'
  <2>1. value' \in [Calls -> Messages \cup {None}]
    BY <1>0, <1>10 DEF Typed, TypeOK, Holding, HoldingCall, HoldingRequest, Decode
  <2>2. err' \in [Calls -> {"nil", "app", "remote"}]
    BY <1>0, <1>10 DEF Decode
  <2>3. at' \in [Calls -> {"idle", "call", "encode", "encoded", "send", "wait", "called",
                          "decode", "leave", "returned", "crashed"}]
    BY <1>0, <1>10 DEF Decode
  <2>4. pan' \in [Calls -> {"none", "codec", "unwrap", "other"}]
    BY <1>0, <1>10 DEF Decode, DecoderPanics
  <2>5. QED BY <1>10, <2>1, <2>2, <2>3, <2>4 DEF Typed, TypeOK, Decode
<1>11. ASSUME NEW c \in Calls, Leave(c) PROVE TypeOK'
  <2>1. pool' \in [Bufs -> Nat]
    BY <1>11, FreeTyped, RpcConstants DEF Typed, TypeOK, Leave
  <2>2. results' \in [Calls -> Bufs \cup {None}]
    <3>1. results' = [results EXCEPT ![c] = IF Remote(c) /\ how[c].method.frees THEN None ELSE @]
      BY <1>11 DEF Leave
    <3>2. CASE Remote(c) /\ how[c].method.frees
      BY <1>0, <3>1, <3>2
    <3>3. CASE ~(Remote(c) /\ how[c].method.frees)
      BY <1>0, <3>1, <3>3
    <3>4. QED BY <3>2, <3>3
  <2>3. err' \in [Calls -> {"nil", "app", "remote"}]
    <3>1. err' = [err EXCEPT ![c] = Recovered(c)]
      BY <1>11 DEF Leave
    <3>2. Recovered(c) \in {"nil", "app", "remote"}
      BY <1>0 DEF Recovered
    <3>3. QED BY <1>0, <3>1, <3>2
  <2>4. span' \in [Calls -> {"none", "open", "ended", "failed"}]
    BY <1>0, <1>11 DEF Leave
  <2>5. metrics' \in [Calls -> [count : Nat, errs : Nat]]
    <3> DEFINE m == metrics[c]
               e == IF err'[c] = "nil" THEN m.errs ELSE m.errs + 1
    <3>1. m \in [count : Nat, errs : Nat]
      BY DEF Typed, TypeOK
    <3>2. m.count + 1 \in Nat /\ e \in Nat
      BY <3>1
    <3>3. metrics' = [metrics EXCEPT ![c] = [count |-> m.count + 1, errs |-> e]]
      BY <1>11 DEF Leave
    <3> HIDE DEF m, e
    <3>4. [count |-> m.count + 1, errs |-> e] \in [count : Nat, errs : Nat]
      BY <3>2
    <3>5. QED BY <3>3, <3>4 DEF Typed, TypeOK
  <2>6. at' \in [Calls -> {"idle", "call", "encode", "encoded", "send", "wait", "called",
                          "decode", "leave", "returned", "crashed"}]
    BY <1>0, <1>11 DEF Leave
  <2>7. down' \subseteq {"client", "server"}
    BY <1>0, <1>11 DEF Leave
  <2>8. pan' \in [Calls -> {"none", "codec", "unwrap", "other"}]
    BY <1>0, <1>11 DEF Leave
  <2>9. QED BY <1>11, <2>1, <2>2, <2>3, <2>4, <2>5, <2>6, <2>7, <2>8 DEF Typed, TypeOK, Leave
<1>12. ASSUME NEW r \in Requests, Receive(r) PROVE TypeOK'
  <2>1. pool' \in [Bufs -> Nat] /\ mem' \in [Bufs -> Messages \cup {None}]
    BY <1>12, GetTyped, RpcConstants DEF Typed, TypeOK, Receive, clientVars
  <2>2. req' \in [Requests -> ReqTypes]
    <3>1. \A q \in ReqTypes, b \in Bufs :
            [q EXCEPT !.at = "read", !.msg = b, !.wire = None] \in ReqTypes
      BY DEF ReqTypes
    <3>2. req[r] \in ReqTypes
      BY ReqFacts DEF Typed
    <3>3. PICK b \in Bufs : req' = [req EXCEPT ![r] = [@ EXCEPT !.at = "read", !.msg = b, !.wire = None]]
      BY <1>12 DEF Receive
    <3>4. [req[r] EXCEPT !.at = "read", !.msg = b, !.wire = None] \in ReqTypes
      BY <3>1, <3>2
    <3>5. QED BY <3>3, <3>4, ReqFacts DEF Typed
  <2>3. QED BY <1>12, <2>1, <2>2 DEF Typed, TypeOK, Receive, clientVars, ReqTypes
<1>13. ASSUME NEW r \in Requests, StartHandler(r) PROVE TypeOK'
  <2>1. req' \in [Requests -> ReqTypes]
    <3>1. /\ [NoRequest EXCEPT !.at = "gone"] \in ReqTypes
          /\ \A q \in ReqTypes : [q EXCEPT !.at = "run"] \in ReqTypes
          /\ \A q \in ReqTypes : [q EXCEPT !.at = "encode", !.out = "error"] \in ReqTypes
      BY DEF ReqTypes, NoRequest
    <3>2. CASE ServerDies
      BY <3>2, DeathTyped
    <3>3. ASSUME NEW v \in ReqTypes, req' = [req EXCEPT ![r] = v] PROVE req' \in [Requests -> ReqTypes]
      BY <3>3, ReqFacts DEF Typed
    <3>4. CASE ~ServerDies
      <4>1. req[r] \in ReqTypes
        BY ReqFacts DEF Typed
      <4>2. \/ req' = [req EXCEPT ![r] = [NoRequest EXCEPT !.at = "gone"]]
            \/ req' = [req EXCEPT ![r] = [req[r] EXCEPT !.at = "run"]]
            \/ req' = [req EXCEPT ![r] = [req[r] EXCEPT !.at = "encode", !.out = "error"]]
        BY <1>13, <3>4 DEF StartHandler
      <4>3. QED BY <3>1, <3>3, <4>1, <4>2
    <3>5. QED BY <3>2, <3>4
  <2>2. down' \subseteq {"client", "server"}
    BY <1>0, <1>13, DeathTyped DEF StartHandler
  <2>3. QED BY <1>13, <2>1, <2>2 DEF Typed, TypeOK, StartHandler, clientVars, ReqTypes
<1>14. ASSUME NEW r \in Requests, ImplReturns(r) PROVE TypeOK'
  <2>1. req' \in [Requests -> ReqTypes]
    <3>1. \A q \in ReqTypes, o \in Outcomes : [q EXCEPT !.at = "encode", !.out = o] \in ReqTypes
      BY DEF ReqTypes
    <3>4. CASE ServerDies
      BY <3>4, DeathTyped
    <3>5. ASSUME NEW o \in Outcomes, req' = [req EXCEPT ![r] = [@ EXCEPT !.at = "encode", !.out = o]]
          PROVE  req' \in [Requests -> ReqTypes]
      <4> DEFINE v == [req[r] EXCEPT !.at = "encode", !.out = o]
      <4>1. req[r] \in ReqTypes /\ v \in ReqTypes
        BY <3>1, ReqFacts DEF Typed
      <4>2. req' = [req EXCEPT ![r] = v]
        BY <3>5
      <4> HIDE DEF v
      <4>3. QED BY <4>1, <4>2, ReqFacts DEF Typed
    <3>6. QED BY <1>14, <3>4, <3>5 DEF ImplReturns
  <2>2. ran' \in [Calls -> SUBSET Outcomes]
    <3>1. r[1] \in Calls
      BY RpcConstants
    <3>2. CASE UNCHANGED ran
      BY <3>2 DEF Typed, TypeOK
    <3>3. ASSUME NEW o \in Outcomes, ran' = [ran EXCEPT ![r[1]] = @ \cup {o}]
          PROVE  ran' \in [Calls -> SUBSET Outcomes]
      <4>1. ran \in [Calls -> SUBSET Outcomes] /\ ran[r[1]] \cup {o} \in SUBSET Outcomes
        BY <3>1 DEF Typed, TypeOK
      <4>2. QED BY <3>3, <4>1
    <3>4. QED BY <1>14, <3>2, <3>3 DEF ImplReturns
  <2>3. down' \subseteq {"client", "server"}
    <3>1. down' = down \/ down' = down \cup {"server"}
      BY <1>14 DEF ImplReturns, ServerDies
    <3>2. down \subseteq {"client", "server"}
      BY DEF Typed, TypeOK
    <3>3. QED BY <3>1, <3>2
  <2>4. QED BY <1>14, <2>1, <2>2, <2>3 DEF Typed, TypeOK, ImplReturns, clientVars, ReqTypes
<1>15. ASSUME NEW r \in Requests, EncodeResults(r) PROVE TypeOK'
  <2>1. PICK b \in Bufs, o \in {req[r].out, "error"} :
          /\ Get(b, Msg(r[1], o), {})
          /\ req' = [req EXCEPT ![r] = [@ EXCEPT !.at = "write", !.enc = b, !.out = "none"]]
    BY <1>15 DEF EncodeResults
  <2>2. Msg(r[1], o) \in Messages
    BY <1>15, RpcConstants DEF Typed, Holding, HoldingCall, HoldingRequest, EncodeResults
  <2>3. pool' \in [Bufs -> Nat] /\ mem' \in [Bufs -> Messages \cup {None}]
    BY <2>1, <2>2, GetTyped DEF Typed
  <2>4. req' \in [Requests -> ReqTypes]
    <3>1. \A q \in ReqTypes : [q EXCEPT !.at = "write", !.enc = b, !.out = "none"] \in ReqTypes
      BY DEF ReqTypes
    <3>2. QED BY <2>1, <3>1, ReqFacts DEF Typed
  <2>5. QED BY <1>15, <2>3, <2>4 DEF Typed, TypeOK, EncodeResults, clientVars, ReqTypes
<1>16. ASSUME NEW r \in Requests, WriteAnswer(r) PROVE TypeOK'
  <2>1. req' \in [Requests -> ReqTypes]
    <3>1. mem[req[r].enc] \in Messages \cup {None}
      BY <1>16 DEF Typed, TypeOK, Holding, HoldingCall, HoldingRequest, WriteAnswer
    <3>2. \A q \in ReqTypes, m \in Messages \cup {None} :
            [q EXCEPT !.at = "written", !.wire = m] \in ReqTypes
      BY DEF ReqTypes
    <3>3. PICK m \in Messages \cup {None} :
            req' = [req EXCEPT ![r] = [@ EXCEPT !.at = "written", !.wire = m]]
      BY <1>16, <3>1 DEF WriteAnswer
    <3>4. req[r] \in ReqTypes /\ [req[r] EXCEPT !.at = "written", !.wire = m] \in ReqTypes
      BY <3>2, ReqFacts DEF Typed
    <3>5. QED BY <3>3, <3>4, ReqFacts DEF Typed
  <2>2. QED BY <1>16, <2>1 DEF Typed, TypeOK, WriteAnswer, clientVars, ReqTypes
<1>17. ASSUME NEW r \in Requests, FreeBuffers(r) PROVE TypeOK'
  <2>1. pool' \in [Bufs -> Nat]
    BY <1>17, FreeTyped, RpcConstants DEF Typed, TypeOK, FreeBuffers, clientVars
  <2>2. req' \in [Requests -> ReqTypes]
    <3>1. \A q \in ReqTypes : [q EXCEPT !.at = "gone", !.msg = None, !.enc = None] \in ReqTypes
      BY DEF ReqTypes
    <3>2. QED BY <1>17, <3>1, ReqFacts DEF Typed, FreeBuffers
  <2>3. QED BY <1>17, <2>1, <2>2 DEF Typed, TypeOK, FreeBuffers, clientVars, ReqTypes
<1>18. CASE UNCHANGED rpcVars
  BY <1>18 DEF Typed, TypeOK, rpcVars, clientVars
<1>19. QED
  BY <1>1, <1>2, <1>3, <1>4, <1>5, <1>6, <1>7, <1>8, <1>9, <1>10, <1>11, <1>12, <1>13, <1>14, <1>15, <1>16, <1>17, <1>18
  DEF Next, StubStep, ServerStep

(* What each step does to the request it is about, and to no other.        *)
Is(q, stage, msg, ans, out, wire) ==
  q.at = stage /\ q.msg = msg /\ q.enc = ans /\ q.out = out /\ q.wire = wire

LEMMA Updated ==
  ASSUME Typed, NEW r \in Requests, NEW q, req' = [req EXCEPT ![r] = q]
  PROVE  req'[r] = q /\ \A p \in Requests \ {r} : req'[p] = req[p]
BY ReqFacts DEF Typed

LEMMA SendEffect ==
  ASSUME Typed, NEW c \in Calls, Send(c)
  PROVE  /\ tries[c] + 1 \in Tries /\ <<c, tries[c] + 1>> \in Requests
         /\ Is(req'[<<c, tries[c] + 1>>], "sent", None, None, "none", mem[enc[c]])
         /\ \A p \in Requests \ {<<c, tries[c] + 1>>} : req'[p] = req[p]
<1>1. tries[c] + 1 \in Tries /\ <<c, tries[c] + 1>> \in Requests
  BY SendNumbered, RpcConstants
<1> DEFINE q == [NoRequest EXCEPT !.at = "sent", !.wire = mem[enc[c]]]
           r == <<c, tries[c] + 1>>
<1>2. Is(q, "sent", None, None, "none", mem[enc[c]])
  BY DEF NoRequest, Is
<1>3. r \in Requests /\ req' = [req EXCEPT ![r] = q]
  BY <1>1 DEF Send
<1> HIDE DEF q, r
<1>4. req'[r] = q /\ \A p \in Requests \ {r} : req'[p] = req[p]
  BY <1>3, Updated
<1>5. QED BY <1>1, <1>2, <1>4 DEF r

LEMMA DeliverEffect ==
  ASSUME Typed, NEW c \in Calls, NEW i \in Tries, Deliver(c, i)
  PROVE  LET r == <<c, i>>
         IN  /\ r \in Requests
             /\ Is(req'[r], req[r].at, req[r].msg, req[r].enc, req[r].out, None)
             /\ \A p \in Requests \ {r} : req'[p] = req[p]
<1> DEFINE r == <<c, i>>
<1>1. r \in Requests /\ req[r] \in ReqTypes
  BY RpcConstants, ReqFacts DEF Typed
<1>2. Is([req[r] EXCEPT !.wire = None], req[r].at, req[r].msg, req[r].enc, req[r].out, None)
  BY <1>1 DEF ReqTypes, Is
<1>3. req' = [req EXCEPT ![r] = [req[r] EXCEPT !.wire = None]]
  BY DEF Deliver
<1> HIDE DEF r
<1>4. req'[r] = [req[r] EXCEPT !.wire = None] /\ \A p \in Requests \ {r} : req'[p] = req[p]
  BY <1>1, <1>3, Updated
<1>5. QED BY <1>1, <1>2, <1>4 DEF r

LEMMA ReceiveEffect ==
  ASSUME Typed, NEW r \in Requests, Receive(r)
  PROVE  \E b \in Bufs :
           /\ Get(b, req[r].wire, {})
           /\ Is(req'[r], "read", b, req[r].enc, req[r].out, None)
           /\ \A p \in Requests \ {r} : req'[p] = req[p]
<1>1. PICK b \in Bufs :
        /\ Get(b, req[r].wire, {})
        /\ req' = [req EXCEPT ![r] = [@ EXCEPT !.at = "read", !.msg = b, !.wire = None]]
  BY DEF Receive
<1> DEFINE q == [req[r] EXCEPT !.at = "read", !.msg = b, !.wire = None]
<1>2. req[r] \in ReqTypes
  BY ReqFacts DEF Typed
<1>3. Is(q, "read", b, req[r].enc, req[r].out, None)
  BY <1>2 DEF ReqTypes, Is
<1>4. req' = [req EXCEPT ![r] = q]
  BY <1>1
<1> HIDE DEF q
<1>5. QED BY <1>1, <1>3, <1>4, Updated

LEMMA StartEffect ==
  ASSUME Typed, NEW r \in Requests, StartHandler(r), ~ServerDies
  PROVE  /\ \/ Is(req'[r], "gone", None, None, "none", None)
            \/ Is(req'[r], "run", req[r].msg, req[r].enc, req[r].out, req[r].wire)
            \/ Is(req'[r], "encode", req[r].msg, req[r].enc, "error", req[r].wire)
         /\ \A p \in Requests \ {r} : req'[p] = req[p]
<1> DEFINE run == [req[r] EXCEPT !.at = "run"]
           gone == [NoRequest EXCEPT !.at = "gone"]
           fail == [req[r] EXCEPT !.at = "encode", !.out = "error"]
<1>1. req[r] \in ReqTypes
  BY ReqFacts DEF Typed
<1>2. Is(run, "run", req[r].msg, req[r].enc, req[r].out, req[r].wire)
  BY <1>1 DEF ReqTypes, Is
<1>3. Is(gone, "gone", None, None, "none", None)
  BY DEF NoRequest, Is
<1>4. Is(fail, "encode", req[r].msg, req[r].enc, "error", req[r].wire)
  BY <1>1 DEF ReqTypes, Is
<1>5. \/ req' = [req EXCEPT ![r] = gone] \/ req' = [req EXCEPT ![r] = run]
      \/ req' = [req EXCEPT ![r] = fail]
  BY DEF StartHandler
<1> HIDE DEF run, gone, fail
<1>6. QED BY <1>2, <1>3, <1>4, <1>5, Updated

(* The server that dies keeps what it has written.                         *)
LEMMA DeathEffect ==
  ASSUME Typed, ServerDies
  PROVE  \A p \in Requests :
           /\ req'[p].msg = None /\ req'[p].enc = None /\ req'[p].out = "none"
           /\ req'[p].at = IF req[p].at = "none" THEN "none" ELSE "gone"
           /\ req'[p].wire = IF req[p].at \in {"written", "gone"} THEN req[p].wire ELSE None
BY DEF ServerDies, NoRequest

LEMMA ImplEffect ==
  ASSUME Typed, NEW r \in Requests, ImplReturns(r), ~ServerDies
  PROVE  \E o \in Outcomes :
           /\ Is(req'[r], "encode", req[r].msg, req[r].enc, o, req[r].wire)
           /\ \A p \in Requests \ {r} : req'[p] = req[p]
           /\ ran' = [ran EXCEPT ![r[1]] = @ \cup {o}] /\ down' = down
<1>1. PICK o \in Outcomes :
        /\ req' = [req EXCEPT ![r] = [@ EXCEPT !.at = "encode", !.out = o]]
        /\ ran' = [ran EXCEPT ![r[1]] = @ \cup {o}] /\ down' = down
  BY DEF ImplReturns
<1> DEFINE q == [req[r] EXCEPT !.at = "encode", !.out = o]
<1>2. req[r] \in ReqTypes
  BY ReqFacts DEF Typed
<1>3. Is(q, "encode", req[r].msg, req[r].enc, o, req[r].wire)
  BY <1>2 DEF ReqTypes, Is
<1>4. req' = [req EXCEPT ![r] = q]
  BY <1>1
<1> HIDE DEF q
<1>5. QED BY ZenonT(60), <1>1, <1>3, <1>4, Updated

LEMMA EncodeEffect ==
  ASSUME Typed, NEW r \in Requests, EncodeResults(r)
  PROVE  \E b \in Bufs, o \in {req[r].out, "error"} :
           /\ Get(b, Msg(r[1], o), {})
           /\ Is(req'[r], "write", req[r].msg, b, "none", req[r].wire)
           /\ \A p \in Requests \ {r} : req'[p] = req[p]
<1>1. PICK b \in Bufs, o \in {req[r].out, "error"} :
        /\ Get(b, Msg(r[1], o), {})
        /\ req' = [req EXCEPT ![r] = [@ EXCEPT !.at = "write", !.enc = b, !.out = "none"]]
  BY DEF EncodeResults
<1> DEFINE q == [req[r] EXCEPT !.at = "write", !.enc = b, !.out = "none"]
<1>2. req[r] \in ReqTypes
  BY ReqFacts DEF Typed
<1>3. Is(q, "write", req[r].msg, b, "none", req[r].wire)
  BY <1>2 DEF ReqTypes, Is
<1>4. req' = [req EXCEPT ![r] = q]
  BY <1>1
<1> HIDE DEF q
<1>5. req'[r] = q /\ \A p \in Requests \ {r} : req'[p] = req[p]
  BY <1>4, Updated
<1>6. QED BY <1>1, <1>3, <1>5

LEMMA WriteEffect ==
  ASSUME Typed, NEW r \in Requests, WriteAnswer(r)
  PROVE  \E m \in {mem[req[r].enc], None} :
           /\ Is(req'[r], "written", req[r].msg, req[r].enc, req[r].out, m)
           /\ \A p \in Requests \ {r} : req'[p] = req[p]
<1>1. PICK m \in {mem[req[r].enc], None} :
        req' = [req EXCEPT ![r] = [@ EXCEPT !.at = "written", !.wire = m]]
  BY DEF WriteAnswer
<1> DEFINE q == [req[r] EXCEPT !.at = "written", !.wire = m]
<1>2. req[r] \in ReqTypes
  BY ReqFacts DEF Typed
<1>3. Is(q, "written", req[r].msg, req[r].enc, req[r].out, m)
  BY <1>2 DEF ReqTypes, Is
<1>4. req' = [req EXCEPT ![r] = q]
  BY <1>1
<1> HIDE DEF q
<1>5. QED BY <1>3, <1>4, Updated

LEMMA FreeEffect ==
  ASSUME Typed, NEW r \in Requests, FreeBuffers(r)
  PROVE  /\ Is(req'[r], "gone", None, None, req[r].out, req[r].wire)
         /\ \A p \in Requests \ {r} : req'[p] = req[p]
<1> DEFINE q == [req[r] EXCEPT !.at = "gone", !.msg = None, !.enc = None]
<1>1. req[r] \in ReqTypes
  BY ReqFacts DEF Typed
<1>2. Is(q, "gone", None, None, req[r].out, req[r].wire)
  BY <1>1 DEF ReqTypes, Is
<1>3. req' = [req EXCEPT ![r] = q]
  BY DEF FreeBuffers
<1> HIDE DEF q
<1>4. QED BY <1>2, <1>3, Updated

LEMMA NextNumbered == Typed /\ [Next]_rpcVars => Numbered'
<1> SUFFICES ASSUME Typed, [Next]_rpcVars PROVE Numbered'
  OBVIOUS
<1>1. ASSUME tries' = tries, req' = req PROVE Numbered'
  BY <1>1, SameSent
<1>2. ASSUME NEW c \in Calls, StubStep(c) PROVE Numbered'
  <2>1. CASE Send(c)
    BY <2>1, SendNumbered
  <2>2. CASE ~Send(c)
    <3>1. tries' = tries /\ req' = req
      BY <1>2, <2>2 DEF StubStep, Begin, CallImpl, Encode, Grow, TryFails, InjectRetry,
                        InvokeReturns, Decode, Leave
    <3>2. QED BY <3>1, <1>1
  <2>3. QED BY <2>1, <2>2
<1>3. ASSUME NEW c \in Calls, NEW i \in Tries, Deliver(c, i) PROVE Numbered'
  <2>1. \A r \in Requests : (req'[r].at = "none") <=> (req[r].at = "none")
    BY <1>3, DeliverEffect DEF Is
  <2>2. tries' = tries
    BY <1>3 DEF Deliver
  <2>3. QED BY <2>1, <2>2, SameSent
<1>4. ASSUME NEW r \in Requests, ServerStep(r) PROVE Numbered'
  <2>1. \A q \in Requests : (req'[q].at = "none") <=> (req[q].at = "none")
    <3>1. CASE Receive(r)
      BY <3>1, ReceiveEffect DEF Is, Receive
    <3>2. CASE StartHandler(r)
      <4>1. CASE ServerDies
        BY <4>1, DeathEffect
      <4>2. CASE ~ServerDies
        BY <3>2, <4>2, StartEffect DEF Is, StartHandler
      <4>3. QED BY <4>1, <4>2
    <3>3. CASE ImplReturns(r)
      <4>1. CASE ServerDies
        BY <4>1, DeathEffect
      <4>2. CASE ~ServerDies
        <5>1. req[r].at = "run" /\ req'[r].at = "encode" /\ \A p \in Requests \ {r} : req'[p] = req[p]
          BY <3>3, <4>2, ImplEffect DEF Is, ImplReturns
        <5>2. QED BY <5>1
      <4>3. QED BY <4>1, <4>2
    <3>4. CASE EncodeResults(r)
      <4>1. req[r].at = "encode"
        BY <3>4 DEF EncodeResults
      <4>2. req'[r].at = "write" /\ \A p \in Requests \ {r} : req'[p] = req[p]
        BY <3>4, EncodeEffect DEF Is
      <4>3. QED BY <4>1, <4>2
    <3>5. CASE WriteAnswer(r)
      <4>1. req[r].at = "write"
        BY <3>5 DEF WriteAnswer
      <4>2. req'[r].at = "written" /\ \A p \in Requests \ {r} : req'[p] = req[p]
        BY <3>5, WriteEffect DEF Is
      <4>3. QED BY <4>1, <4>2
    <3>6. CASE FreeBuffers(r)
      <4>1. req[r].at = "written"
        BY <3>6 DEF FreeBuffers
      <4>2. req'[r].at = "gone" /\ \A p \in Requests \ {r} : req'[p] = req[p]
        BY <3>6, FreeEffect DEF Is
      <4>3. QED BY <4>1, <4>2
    <3>7. QED BY <1>4, <3>1, <3>2, <3>3, <3>4, <3>5, <3>6 DEF ServerStep
  <2>2. tries' = tries
    BY <1>4 DEF ServerStep, Receive, StartHandler, ImplReturns, EncodeResults, WriteAnswer,
                FreeBuffers, clientVars
  <2>3. QED BY <2>1, <2>2, SameSent
<1>5. CASE UNCHANGED rpcVars
  BY <1>1, <1>5 DEF rpcVars, clientVars
<1>6. QED BY <1>2, <1>3, <1>4, <1>5 DEF Next

LEMMA NextHolding == Typed /\ [Next]_rpcVars => Holding'
<1> SUFFICES ASSUME Typed, [Next]_rpcVars PROVE Holding'
  OBVIOUS
<1>1. ASSUME NEW c \in Calls PROVE HoldingCall(c)'
  <2>1. /\ HoldingCall(c) /\ None \notin Bufs
        /\ DOMAIN at = Calls /\ DOMAIN enc = Calls /\ DOMAIN err = Calls /\ DOMAIN results = Calls
    BY RpcConstants DEF Typed, TypeOK, Holding
  <2>2. ASSUME NEW d \in Calls, Begin(d) PROVE HoldingCall(c)'
    BY <2>1, <2>2 DEF HoldingCall, Begin
  <2>3. ASSUME NEW d \in Calls, CallImpl(d) PROVE HoldingCall(c)'
    BY <2>1, <2>3 DEF HoldingCall, CallImpl
  <2>4. ASSUME NEW d \in Calls, Encode(d) PROVE HoldingCall(c)'
    BY <2>1, <2>4 DEF HoldingCall, Encode
  <2>5. ASSUME NEW d \in Calls, Grow(d) PROVE HoldingCall(c)'
    BY <2>1, <2>5 DEF HoldingCall, Grow
  <2>6. ASSUME NEW d \in Calls, Send(d) PROVE HoldingCall(c)'
    BY <2>1, <2>6 DEF HoldingCall, Send
  <2>7. ASSUME NEW d \in Calls, TryFails(d) PROVE HoldingCall(c)'
    BY <2>1, <2>7 DEF HoldingCall, TryFails
  <2>8. ASSUME NEW d \in Calls, InjectRetry(d) PROVE HoldingCall(c)'
    BY <2>1, <2>8 DEF HoldingCall, InjectRetry
  <2>9. ASSUME NEW d \in Calls, InvokeReturns(d) PROVE HoldingCall(c)'
    BY <2>1, <2>9 DEF HoldingCall, InvokeReturns
  <2>10. ASSUME NEW d \in Calls, Decode(d) PROVE HoldingCall(c)'
    BY <2>1, <2>10 DEF HoldingCall, Decode
  <2>11. ASSUME NEW d \in Calls, Leave(d) PROVE HoldingCall(c)'
    BY <2>1, <2>11 DEF HoldingCall, Leave
  <2>12. ASSUME NEW d \in Calls, NEW i \in Tries, Deliver(d, i) PROVE HoldingCall(c)'
    BY <2>1, <2>12 DEF HoldingCall, Deliver
  <2>13. ASSUME NEW r \in Requests, ServerStep(r) PROVE HoldingCall(c)'
    BY <2>1, <2>13 DEF HoldingCall, ServerStep, Receive, StartHandler, ImplReturns, EncodeResults,
                       WriteAnswer, FreeBuffers, clientVars
  <2>14. CASE UNCHANGED rpcVars
    BY <2>1, <2>14 DEF HoldingCall, rpcVars, clientVars
  <2>15. QED
    BY <2>2, <2>3, <2>4, <2>5, <2>6, <2>7, <2>8, <2>9, <2>10, <2>11, <2>12, <2>13, <2>14
    DEF Next, StubStep
<1>2. ASSUME NEW p \in Requests PROVE HoldingRequest(p)'
  <2>1. HoldingRequest(p)
    BY DEF Typed, Holding
  <2>2. ASSUME NEW c \in Calls, StubStep(c) PROVE HoldingRequest(p)'
    <3>1. CASE Send(c)
      BY <2>1, <3>1, SendEffect DEF HoldingRequest, Is
    <3>2. CASE ~Send(c)
      BY <2>1, <2>2, <3>2 DEF HoldingRequest, StubStep, Begin, CallImpl, Encode, Grow, TryFails,
                              InjectRetry, InvokeReturns, Decode, Leave
    <3>3. QED BY <3>1, <3>2
  <2>3. ASSUME NEW c \in Calls, NEW i \in Tries, Deliver(c, i) PROVE HoldingRequest(p)'
    BY <2>1, <2>3, DeliverEffect DEF HoldingRequest, Is
  <2>4. ASSUME NEW r \in Requests, Receive(r) PROVE HoldingRequest(p)'
    BY <2>1, <2>4, ReceiveEffect DEF HoldingRequest, Is
  <2>5. ASSUME NEW r \in Requests, StartHandler(r) PROVE HoldingRequest(p)'
    <3>1. CASE ServerDies
      BY <3>1, DeathEffect DEF HoldingRequest
    <3>2. CASE ~ServerDies
      BY <2>1, <2>5, <3>2, StartEffect DEF HoldingRequest, Is
    <3>3. QED BY <3>1, <3>2
  <2>6. ASSUME NEW r \in Requests, ImplReturns(r) PROVE HoldingRequest(p)'
    <3>1. CASE ServerDies
      BY <3>1, DeathEffect DEF HoldingRequest
    <3>2. CASE ~ServerDies
      BY <2>1, <2>6, <3>2, ImplEffect DEF HoldingRequest, Is
    <3>3. QED BY <3>1, <3>2
  <2>7. ASSUME NEW r \in Requests, EncodeResults(r) PROVE HoldingRequest(p)'
    <3>1. PICK b \in Bufs, o \in {req[r].out, "error"} :
            /\ Is(req'[r], "write", req[r].msg, b, "none", req[r].wire)
            /\ \A q \in Requests \ {r} : req'[q] = req[q]
      BY <2>7, EncodeEffect
    <3>2. QED BY <2>1, <3>1 DEF HoldingRequest, Is
  <2>8. ASSUME NEW r \in Requests, WriteAnswer(r) PROVE HoldingRequest(p)'
    BY <2>1, <2>8, WriteEffect DEF HoldingRequest, Is
  <2>9. ASSUME NEW r \in Requests, FreeBuffers(r) PROVE HoldingRequest(p)'
    BY <2>1, <2>9, FreeEffect DEF HoldingRequest, Is
  <2>10. CASE UNCHANGED rpcVars
    BY <2>1, <2>10 DEF HoldingRequest, rpcVars, clientVars
  <2>11. QED
    BY <2>2, <2>3, <2>4, <2>5, <2>6, <2>7, <2>8, <2>9, <2>10 DEF Next, ServerStep
<1>3. QED BY <1>1, <1>2 DEF Holding

LEMMA NextTyped == Typed /\ [Next]_rpcVars => Typed'
BY NextTypes, NextNumbered, NextHolding DEF Typed

(* The variables have their types, in every behaviour.                     *)
THEOREM RpcTypeCorrect == Spec => []TypeOK
<1>1. Typed => TypeOK
  BY DEF Typed
<1>2. QED BY InitTyped, NextTyped, <1>1, PTL DEF Spec
-----------------------------------------------------------------------------
(* One owner.  Here[p] is the buffer at place p.                           *)

ArgOf(c) == <<c, "arguments">>
ResOf(c) == <<c, "results">>
ReqOf(r) == <<r, "request">>
AnsOf(r) == <<r, "answer">>

Here == [p \in Places |-> BufferAt(p)]

(* The pool holds a buffer at most once, and none that is held; two places *)
(* hold different buffers.                                                 *)
Apart(P, H) ==
  /\ \A b \in Bufs : P[b] \in {0, 1}
  /\ \A p \in Places : H[p] \in Bufs => P[H[p]] = 0
  /\ \A p, q \in Places : H[p] \in Bufs /\ H[p] = H[q] => p = q

Owned == Apart(pool, Here)

LEMMA PlaceKinds ==
  /\ \A c \in Calls : ArgOf(c) \in Places /\ ResOf(c) \in Places
  /\ \A r \in Requests : ReqOf(r) \in Places /\ AnsOf(r) \in Places
  /\ \A p \in Places : \/ \E c \in Calls : p = ArgOf(c) \/ p = ResOf(c)
                       \/ \E r \in Requests : p = ReqOf(r) \/ p = AnsOf(r)
BY DEF Places, ArgOf, ResOf, ReqOf, AnsOf

LEMMA HereAt ==
  /\ \A c \in Calls : Here[ArgOf(c)] = enc[c] /\ Here[ResOf(c)] = results[c]
  /\ \A r \in Requests : Here[ReqOf(r)] = req[r].msg /\ Here[AnsOf(r)] = req[r].enc
<1>1. \A c \in Calls : ArgOf(c) \in Places /\ ResOf(c) \in Places
  BY PlaceKinds
<1>2. \A r \in Requests : ReqOf(r) \in Places /\ AnsOf(r) \in Places
  BY PlaceKinds
<1>3. QED BY <1>1, <1>2 DEF Here, BufferAt, ArgOf, ResOf, ReqOf, AnsOf

LEMMA HereNext ==
  /\ \A c \in Calls : Here'[ArgOf(c)] = enc'[c] /\ Here'[ResOf(c)] = results'[c]
  /\ \A r \in Requests : Here'[ReqOf(r)] = req'[r].msg /\ Here'[AnsOf(r)] = req'[r].enc
<1>1. \A c \in Calls : ArgOf(c) \in Places /\ ResOf(c) \in Places
  BY PlaceKinds
<1>2. \A r \in Requests : ReqOf(r) \in Places /\ AnsOf(r) \in Places
  BY PlaceKinds
<1>3. QED BY <1>1, <1>2 DEF Here, BufferAt, ArgOf, ResOf, ReqOf, AnsOf

(* A step that changes, but for place s, only what it clears.              *)
LEMMA OnlyPlace ==
  ASSUME NEW s,
         \A c \in Calls : /\ ArgOf(c) # s => enc'[c] \in {enc[c], None}
                          /\ ResOf(c) # s => results'[c] \in {results[c], None},
         \A r \in Requests : /\ ReqOf(r) # s => req'[r].msg \in {req[r].msg, None}
                             /\ AnsOf(r) # s => req'[r].enc \in {req[r].enc, None}
  PROVE  \A p \in Places \ {s} : Here'[p] \in {Here[p], None}
BY PlaceKinds, HereAt, HereNext

LEMMA NoPlace ==
  ASSUME \A c \in Calls : enc'[c] \in {enc[c], None} /\ results'[c] \in {results[c], None},
         \A r \in Requests : req'[r].msg \in {req[r].msg, None} /\ req'[r].enc \in {req[r].enc, None}
  PROVE  \A p \in Places : Here'[p] \in {Here[p], None}
BY PlaceKinds, HereAt, HereNext

LEMMA HereIsRefs ==
  ASSUME NEW b \in Bufs
  PROVE  Refs(b) = {p \in Places : Here[p] = b}
BY DEF Refs, Here

(* A buffer that is taken was held by nobody, so no other is written into. *)
LEMMA TakenIsFree ==
  ASSUME Owned, NEW b \in Bufs, NEW m, NEW old, Get(b, m, old)
  PROVE  /\ \A p \in Places : Here[p] # b
         /\ \A c \in Calls : enc[c] # b /\ results[c] # b
         /\ \A r \in Requests : req[r].msg # b /\ req[r].enc # b
<1>1. pool[b] > 0 \/ \A p \in Places : Here[p] # b
  BY HereIsRefs DEF Get
<1>2. \A p \in Places : Here[p] # b
  BY <1>1 DEF Owned, Apart
<1>3. QED BY <1>2, HereAt, PlaceKinds

(* Taking a buffer for place s, and giving back what is held no longer.    *)
LEMMA GetApart ==
  ASSUME Typed, Owned, NEW b \in Bufs, NEW m, NEW old, Get(b, m, old), NEW s \in Places,
         \A p \in Places \ {s} : Here'[p] \in {Here[p], None},
         Here'[s] \in {b, Here[s], None},
         \A o \in old \cap Bufs : IF o = b THEN Here'[s] # b
                                  ELSE \E p \in Places : Here[p] = o /\ Here'[p] # o
  PROVE  Owned'
<1>a. pool \in [Bufs -> Nat] /\ Apart(pool, Here)
  BY DEF Typed, TypeOK, Owned
<1>b. \A x \in Bufs : pool'[x] = (IF x = b /\ pool[b] > 0 THEN pool[x] - 1 ELSE pool[x])
                                 + (IF x \in old THEN 1 ELSE 0)
  BY DEF Get
<1>1. \A p \in Places : Here[p] # b
  BY TakenIsFree
<1>2. \A p \in Places : Here'[p] \in Bufs => Here'[p] = Here[p] \/ (p = s /\ Here'[p] = b)
  BY RpcConstants
<1>3. ASSUME NEW x \in Bufs PROVE pool'[x] \in {0, 1}
  <2>1. CASE x = b
    BY <1>a, <1>b, <2>1 DEF Apart
  <2>2. CASE x # b
    <3>1. x \in old => pool[x] = 0
      BY <1>a, <1>b, <2>2 DEF Apart
    <3>2. QED BY <1>a, <1>b, <2>2, <3>1 DEF Apart
  <2>3. QED BY <2>1, <2>2
<1>4. ASSUME NEW p \in Places, Here'[p] \in Bufs PROVE pool'[Here'[p]] = 0
  <2>1. CASE p = s /\ Here'[p] = b
    <3>1. b \notin old
      BY <2>1
    <3>2. pool[b] \in {0, 1}
      BY <1>a, <1>b DEF Apart
    <3>3. QED BY <1>b, <2>1, <3>1, <3>2
  <2>2. CASE Here'[p] = Here[p]
    <3>1. pool[Here'[p]] = 0 /\ Here'[p] # b
      BY <1>a, <1>b, <1>1, <1>4, <2>2 DEF Apart
    <3>2. Here'[p] \notin old
      BY <1>a, <1>b, <1>4, <2>2, <3>1 DEF Apart
    <3>3. QED BY <1>b, <1>4, <3>1, <3>2
  <2>3. QED BY <1>2, <1>4, <2>1, <2>2
<1>5. ASSUME NEW p \in Places, NEW q \in Places, Here'[p] \in Bufs, Here'[p] = Here'[q] PROVE p = q
  BY <1>a, <1>b, <1>1, <1>2, <1>5 DEF Apart
<1>6. QED BY <1>3, <1>4, <1>5 DEF Owned, Apart

(* Giving back buffers that are held no longer; none, in particular.       *)
LEMMA FreeApart ==
  ASSUME Typed, Owned, NEW old, Free(old),
         \A p \in Places : Here'[p] \in {Here[p], None},
         \A o \in old \cap Bufs : \E p \in Places : Here[p] = o /\ Here'[p] # o
  PROVE  Owned'
<1>1. Apart(pool, Here) /\ pool \in [Bufs -> Nat]
  BY DEF Typed, TypeOK, Owned
<1>2. \A p \in Places : Here'[p] \in Bufs => Here'[p] = Here[p]
  BY RpcConstants
<1>3. \A x \in Bufs : pool'[x] \in {0, 1}
  BY <1>1 DEF Apart, Free
<1>4. \A p \in Places : Here'[p] \in Bufs => Here'[p] \notin old
  BY <1>1, <1>2 DEF Apart
<1>5. \A p \in Places : Here'[p] \in Bufs => pool'[Here'[p]] = 0
  BY <1>1, <1>2, <1>4 DEF Apart, Free
<1>6. \A p, q \in Places : Here'[p] \in Bufs /\ Here'[p] = Here'[q] => p = q
  BY <1>1, <1>2 DEF Apart
<1>7. Apart(pool', Here')
  BY <1>3, <1>5, <1>6 DEF Apart
<1>8. QED BY <1>7 DEF Owned

LEMMA KeepApart ==
  ASSUME Typed, Owned, pool' = pool, \A p \in Places : Here'[p] \in {Here[p], None}
  PROVE  Owned'
<1>1. \A p \in Places : Here'[p] \in Bufs => Here'[p] = Here[p]
  BY RpcConstants
<1>2. QED BY <1>1 DEF Owned, Apart

LEMMA NextOwned == Typed /\ Owned /\ [Next]_rpcVars => Owned'
<1> SUFFICES ASSUME Typed, Owned, [Next]_rpcVars PROVE Owned'
  OBVIOUS
<1>a. None \notin Bufs /\ DOMAIN enc = Calls /\ DOMAIN results = Calls
  BY RpcConstants DEF Typed, TypeOK
<1>1. ASSUME pool' = pool, enc' = enc, results' = results, req' = req PROVE Owned'
  BY <1>1, NoPlace, KeepApart
<1>2. ASSUME NEW c \in Calls, Encode(c) PROVE Owned'
  <2>1. PICK b \in Bufs : Get(b, Msg(c, "args"), {})
                          /\ (enc' = [enc EXCEPT ![c] = b] \/ enc' = enc)
    BY <1>2 DEF Encode
  <2>2. results' = results /\ req' = req
    BY <1>2 DEF Encode
  <2>3. \A p \in Places \ {ArgOf(c)} : Here'[p] \in {Here[p], None}
    BY <1>a, <2>1, <2>2, OnlyPlace
  <2>4. ArgOf(c) \in Places /\ Here'[ArgOf(c)] \in {b, Here[ArgOf(c)], None}
    BY <1>a, <2>1, PlaceKinds, HereAt, HereNext
  <2>5. QED BY <2>1, <2>3, <2>4, GetApart
<1>3. ASSUME NEW c \in Calls, Grow(c) PROVE Owned'
  <2>1. PICK b \in Bufs \ {enc[c]} : Get(b, mem[enc[c]], {enc[c]}) /\ enc' = [enc EXCEPT ![c] = b]
    BY <1>3 DEF Grow
  <2>2. results' = results /\ req' = req
    BY <1>3 DEF Grow
  <2>3. \A p \in Places \ {ArgOf(c)} : Here'[p] \in {Here[p], None}
    BY <1>a, <2>1, <2>2, OnlyPlace
  <2>4. ArgOf(c) \in Places /\ Here'[ArgOf(c)] = b /\ Here[ArgOf(c)] = enc[c]
    BY <1>a, <2>1, PlaceKinds, HereAt, HereNext
  <2>5. QED BY <2>1, <2>3, <2>4, GetApart
<1>4. ASSUME NEW c \in Calls, Send(c) PROVE Owned'
  <2>1. pool' = pool /\ enc' = enc /\ results' = results
    BY <1>4 DEF Send
  <2>2. \A r \in Requests : req'[r].msg \in {req[r].msg, None} /\ req'[r].enc \in {req[r].enc, None}
    BY <1>4, SendEffect DEF Is
  <2>3. QED BY <2>1, <2>2, NoPlace, KeepApart
<1>5. ASSUME NEW c \in Calls, NEW i \in Tries, Deliver(c, i) PROVE Owned'
  <2>1. PICK b \in Bufs :
          /\ Get(b, req[<<c, i>>].wire, IF req[<<c, i>>].wire.body = "error" THEN {b} ELSE {})
          /\ \/ results' = [results EXCEPT ![c] = b] /\ req[<<c, i>>].wire.body # "error"
             \/ results' = [results EXCEPT ![c] = results[c]]
    BY <1>5 DEF Deliver
  <2>2. enc' = enc
    BY <1>5 DEF Deliver
  <2>3. \A r \in Requests : req'[r].msg = req[r].msg /\ req'[r].enc = req[r].enc
    BY <1>5, DeliverEffect DEF Is
  <2>4. \A p \in Places \ {ResOf(c)} : Here'[p] \in {Here[p], None}
    BY <1>a, <2>1, <2>2, <2>3, OnlyPlace
  <2>5. /\ ResOf(c) \in Places
        /\ Here'[ResOf(c)] = Here[ResOf(c)]
             \/ (Here'[ResOf(c)] = b /\ req[<<c, i>>].wire.body # "error")
    BY <1>a, <2>1, PlaceKinds, HereAt, HereNext
  <2>6. Here[ResOf(c)] # b
    BY <2>1, <2>5, TakenIsFree
  <2>7. QED BY <2>1, <2>4, <2>5, <2>6, GetApart
<1>6. ASSUME NEW c \in Calls, InjectRetry(c) PROVE Owned'
  <2>1. pool' = pool /\ enc' = enc /\ req' = req /\ results' = [results EXCEPT ![c] = None]
    BY <1>6 DEF InjectRetry
  <2>2. QED BY <1>a, <2>1, NoPlace, KeepApart
<1>7. ASSUME NEW c \in Calls, InvokeReturns(c) PROVE Owned'
  <2>1. Free({enc[c]}) /\ enc' = [enc EXCEPT ![c] = None] /\ results' = results /\ req' = req
    BY <1>7 DEF InvokeReturns
  <2>2. \A p \in Places : Here'[p] \in {Here[p], None}
    BY <1>a, <2>1, NoPlace
  <2>3. ArgOf(c) \in Places /\ Here[ArgOf(c)] = enc[c] /\ Here'[ArgOf(c)] = None
    BY <1>a, <2>1, PlaceKinds, HereAt, HereNext
  <2>4. QED BY <1>a, <2>1, <2>2, <2>3, FreeApart
<1>8. ASSUME NEW c \in Calls, Leave(c) PROVE Owned'
  <2>1. enc' = enc /\ req' = req
    BY <1>8 DEF Leave
  <2>2. CASE Remote(c) /\ how[c].method.frees
    <3>1. Free({results[c]}) /\ results' = [results EXCEPT ![c] = None]
      BY <1>8, <2>2 DEF Leave
    <3>2. \A p \in Places : Here'[p] \in {Here[p], None}
      BY <1>a, <2>1, <3>1, NoPlace
    <3>3. ResOf(c) \in Places /\ Here[ResOf(c)] = results[c] /\ Here'[ResOf(c)] = None
      BY <1>a, <3>1, PlaceKinds, HereAt, HereNext
    <3>4. QED BY <1>a, <3>1, <3>2, <3>3, FreeApart
  <2>3. CASE ~(Remote(c) /\ how[c].method.frees)
    <3>1. Free({}) /\ results' = [results EXCEPT ![c] = results[c]]
      BY <1>8, <2>3 DEF Leave
    <3>2. \A p \in Places : Here'[p] \in {Here[p], None}
      BY <1>a, <2>1, <3>1, NoPlace
    <3>3. QED BY <3>1, <3>2, FreeApart
  <2>4. QED BY <2>2, <2>3
<1>9. ASSUME NEW r \in Requests, Receive(r) PROVE Owned'
  <2>1. PICK b \in Bufs :
          /\ Get(b, req[r].wire, {})
          /\ Is(req'[r], "read", b, req[r].enc, req[r].out, None)
          /\ \A p \in Requests \ {r} : req'[p] = req[p]
    BY <1>9, ReceiveEffect
  <2>2. enc' = enc /\ results' = results
    BY <1>9 DEF Receive, clientVars
  <2>3. \A p \in Places \ {ReqOf(r)} : Here'[p] \in {Here[p], None}
    BY <2>1, <2>2, OnlyPlace DEF Is
  <2>4. ReqOf(r) \in Places /\ Here'[ReqOf(r)] = b
    BY <2>1, PlaceKinds, HereNext DEF Is
  <2>5. QED BY <2>1, <2>3, <2>4, GetApart
<1>10. ASSUME NEW r \in Requests, StartHandler(r) \/ WriteAnswer(r) PROVE Owned'
  <2>1. pool' = pool /\ enc' = enc /\ results' = results
    BY <1>10 DEF StartHandler, WriteAnswer, clientVars
  <2>2. \A q \in Requests : req'[q].msg \in {req[q].msg, None} /\ req'[q].enc \in {req[q].enc, None}
    <3>1. CASE ServerDies
      BY <3>1, DeathEffect
    <3>2. CASE ~ServerDies
      BY <1>10, <3>2, StartEffect, WriteEffect DEF Is
    <3>3. QED BY <3>1, <3>2
  <2>3. QED BY <2>1, <2>2, NoPlace, KeepApart
<1>11. ASSUME NEW r \in Requests, ImplReturns(r) PROVE Owned'
  <2>1. pool' = pool /\ enc' = enc /\ results' = results
    BY <1>11 DEF ImplReturns, clientVars
  <2>2. \A q \in Requests : req'[q].msg \in {req[q].msg, None} /\ req'[q].enc \in {req[q].enc, None}
    <3>1. CASE ServerDies
      BY <3>1, DeathEffect
    <3>2. CASE ~ServerDies
      BY <1>11, <3>2, ImplEffect DEF Is
    <3>3. QED BY <3>1, <3>2
  <2>3. QED BY <2>1, <2>2, NoPlace, KeepApart
<1>12. ASSUME NEW r \in Requests, EncodeResults(r) PROVE Owned'
  <2>1. PICK b \in Bufs, o \in {req[r].out, "error"} :
          /\ Get(b, Msg(r[1], o), {})
          /\ Is(req'[r], "write", req[r].msg, b, "none", req[r].wire)
          /\ \A p \in Requests \ {r} : req'[p] = req[p]
    BY <1>12, EncodeEffect
  <2>2. enc' = enc /\ results' = results
    BY <1>12 DEF EncodeResults, clientVars
  <2>3. \A p \in Places \ {AnsOf(r)} : Here'[p] \in {Here[p], None}
    BY <2>1, <2>2, OnlyPlace DEF Is
  <2>4. AnsOf(r) \in Places /\ Here'[AnsOf(r)] = b
    BY <2>1, PlaceKinds, HereNext DEF Is
  <2>5. QED BY <2>1, <2>3, <2>4, GetApart
<1>13. ASSUME NEW r \in Requests, FreeBuffers(r) PROVE Owned'
  <2>1. Free({req[r].msg, req[r].enc}) /\ enc' = enc /\ results' = results
    BY <1>13 DEF FreeBuffers, clientVars
  <2>2. /\ Is(req'[r], "gone", None, None, req[r].out, req[r].wire)
        /\ \A p \in Requests \ {r} : req'[p] = req[p]
    BY <1>13, FreeEffect
  <2>3. \A p \in Places : Here'[p] \in {Here[p], None}
    BY <2>1, <2>2, NoPlace DEF Is
  <2>4. /\ ReqOf(r) \in Places /\ Here[ReqOf(r)] = req[r].msg /\ Here'[ReqOf(r)] = None
        /\ AnsOf(r) \in Places /\ Here[AnsOf(r)] = req[r].enc /\ Here'[AnsOf(r)] = None
    BY <2>2, PlaceKinds, HereAt, HereNext DEF Is
  <2>5. QED BY <1>a, <2>1, <2>3, <2>4, FreeApart
<1>14. ASSUME NEW c \in Calls, Begin(c) \/ CallImpl(c) \/ TryFails(c) \/ Decode(c) PROVE Owned'
  BY <1>1, <1>14 DEF Begin, CallImpl, TryFails, Decode
<1>15. CASE UNCHANGED rpcVars
  BY <1>1, <1>15 DEF rpcVars, clientVars
<1>16. QED
  BY <1>2, <1>3, <1>4, <1>5, <1>6, <1>7, <1>8, <1>9, <1>10, <1>11, <1>12, <1>13, <1>14, <1>15
  DEF Next, StubStep, ServerStep

LEMMA InitOwned == Init => Owned
<1> SUFFICES ASSUME Init PROVE Owned
  OBVIOUS
<1>1. \A p \in Places : Here[p] = None
  BY HereAt, PlaceKinds DEF Init, NoRequest
<1>2. Apart(pool, Here)
  BY <1>1, RpcConstants DEF Init, Apart
<1>3. QED BY <1>2 DEF Owned

(* OneOwner: a pooled buffer has one owner, or is in the pool once.        *)
THEOREM OneOwnerCorrect == Spec => []OneOwner
<1>1. Owned => OneOwner
  <2> SUFFICES ASSUME Owned, NEW b \in Bufs PROVE pool[b] + Cardinality(Refs(b)) <= 1
    BY DEF OneOwner
  <2>1. pool[b] \in {0, 1} /\ (pool[b] = 1 => Refs(b) = {}) /\ \A p, q \in Refs(b) : p = q
    BY HereIsRefs DEF Owned, Apart
  <2>2. CASE Refs(b) = {}
    BY <2>1, <2>2, FS_EmptySet
  <2>3. ASSUME NEW p \in Refs(b) PROVE pool[b] + Cardinality(Refs(b)) <= 1
    <3>1. Refs(b) = {p} /\ pool[b] = 0
      BY <2>1
    <3>2. Cardinality(Refs(b)) = 1
      BY <3>1, FS_Singleton
    <3>3. QED BY <3>1, <3>2
  <2>4. QED BY <2>2, <2>3
<1>2. QED BY InitTyped, NextTyped, InitOwned, NextOwned, <1>1, PTL DEF Spec
-----------------------------------------------------------------------------
(* Faithful.                                                               *)

(* What a call knows at its stages.                                        *)
CallFaithful(c) ==
  /\ at[c] # "idle" => how[c] \in [stub : Stubs, traced : Contexts, method : Methods]
  /\ at[c] \in {"idle", "call", "encode", "encoded", "send", "wait", "called", "decode"} => pan[c] = "none"
  /\ at[c] \in {"idle", "call", "encode", "encoded", "send", "wait", "decode"} => err[c] = "nil"
  /\ at[c] \in {"idle", "call"} => ran[c] = {}
  /\ at[c] = "idle" => results[c] = None
  /\ at[c] = "call" => ~Remote(c)
  /\ at[c] \in {"encode", "encoded", "send", "wait", "called", "decode"} => Remote(c)
  /\ at[c] # "idle" /\ ~Remote(c) => err[c] # "remote" /\ results[c] = None
  /\ at[c] \in {"encoded", "send", "wait", "called"} => mem[enc[c]] = Msg(c, "args")
  /\ results[c] \in Bufs => \E o \in ran[c] : mem[results[c]] = Msg(c, o)
  /\ at[c] = "called" => err[c] # "app"
  /\ at[c] = "leave" /\ pan[c] # "none" => err[c] = "nil"
  /\ pan[c] = "unwrap" => "app" \in ran[c]
  /\ at[c] = "returned" /\ err[c] = "nil" => pan[c] = "none"
  /\ at[c] \in {"leave", "returned"} /\ err[c] = "app" => "app" \in ran[c]
  /\ at[c] \in {"leave", "returned"} /\ err[c] = "nil" /\ pan[c] = "none" =>
       /\ "ok" \in ran[c] /\ value[c] = Msg(c, "ok")
       /\ results[c] \in Bufs => mem[results[c]] = Msg(c, "ok")

(* What a request, its buffers and its wire carry at its stages.           *)
RequestFaithful(r) ==
  LET c == r[1]  q == req[r]
  IN  /\ q.at # "none" => at[c] # "idle" /\ Remote(c)
      /\ q.at = "sent" => q.wire = Msg(c, "args")
      /\ q.at \in {"read", "run"} => q.msg \in Bufs /\ mem[q.msg] = Msg(c, "args")
      /\ q.at = "encode" => q.out \in ran[c] \cup {"error"}
      /\ q.at = "write" => \E o \in ran[c] \cup {"error"} : mem[q.enc] = Msg(c, o)
      /\ q.at \in {"written", "gone"} =>
           q.wire = None \/ \E o \in ran[c] \cup {"error"} : q.wire = Msg(c, o)

Faithful == (\A c \in Calls : CallFaithful(c)) /\ (\A r \in Requests : RequestFaithful(r))

(* A step writes into no buffer that is in use.                            *)
Kept ==
  /\ \A c \in Calls : /\ enc[c] \in Bufs => mem'[enc[c]] = mem[enc[c]]
                      /\ results[c] \in Bufs => mem'[results[c]] = mem[results[c]]
  /\ \A r \in Requests : /\ req[r].msg \in Bufs => mem'[req[r].msg] = mem[req[r].msg]
                         /\ req[r].enc \in Bufs => mem'[req[r].enc] = mem[req[r].enc]

LEMMA MemKept ==
  ASSUME Typed, Owned, NEW b \in Bufs, NEW m, NEW old, Get(b, m, old)
  PROVE  Kept /\ mem'[b] = m
<1>1. mem' = [mem EXCEPT ![b] = m] /\ DOMAIN mem = Bufs
  BY DEF Get, Typed, TypeOK
<1>2. QED BY <1>1, TakenIsFree DEF Kept

SameCall(c) ==
  /\ at'[c] = at[c] /\ how'[c] = how[c] /\ err'[c] = err[c] /\ pan'[c] = pan[c]
  /\ enc'[c] = enc[c] /\ results'[c] = results[c] /\ value'[c] = value[c]

(* A call that does not move stays faithful, also when it executes again.  *)
LEMMA CallFrame ==
  ASSUME Typed, NEW c \in Calls, CallFaithful(c), SameCall(c), Kept,
         ran[c] \subseteq ran'[c], at[c] \in {"idle", "call"} => ran'[c] = ran[c]
  PROVE  CallFaithful(c)'
<1>1. Remote(c)' <=> Remote(c)
  BY DEF SameCall, Remote
<1>2. at[c] \in {"encoded", "send", "wait", "called"} => mem'[enc'[c]] = mem[enc[c]]
  BY DEF Typed, Holding, HoldingCall, SameCall, Kept
<1>3. results'[c] = results[c] /\ (results[c] \in Bufs => mem'[results[c]] = mem[results[c]])
  BY DEF SameCall, Kept
<1>4. QED BY <1>1, <1>2, <1>3 DEF CallFaithful, SameCall

(* So does a request that does not move.                                   *)
LEMMA RequestFrame ==
  ASSUME Typed, NEW r \in Requests, RequestFaithful(r), req'[r] = req[r], Kept,
         ran[r[1]] \subseteq ran'[r[1]],
         at[r[1]] # "idle" => at'[r[1]] # "idle" /\ how'[r[1]] = how[r[1]]
  PROVE  RequestFaithful(r)'
<1>1. at[r[1]] # "idle" /\ Remote(r[1]) => at'[r[1]] # "idle" /\ Remote(r[1])'
  BY DEF Remote
<1>2. req[r].msg \in Bufs => mem'[req[r].msg] = mem[req[r].msg]
  BY DEF Kept
<1>3. req[r].at = "write" => mem'[req[r].enc] = mem[req[r].enc]
  BY DEF Kept, Typed, Holding, HoldingRequest
<1>4. QED BY <1>1, <1>2, <1>3 DEF RequestFaithful

(* A step of one call: the others are left alone.                          *)
LEMMA OneCall ==
  ASSUME Typed, Faithful, NEW c \in Calls, Kept,
         \A d \in Calls \ {c} : SameCall(d) /\ ran'[d] = ran[d],
         ran[c] \subseteq ran'[c],
         at[c] # "idle" => at'[c] # "idle" /\ how'[c] = how[c],
         CallFaithful(c)',
         \A r \in Requests : req'[r] = req[r] \/ RequestFaithful(r)'
  PROVE  Faithful'
<1>1. ASSUME NEW d \in Calls PROVE CallFaithful(d)'
  BY CallFrame DEF Faithful
<1>2. ASSUME NEW r \in Requests PROVE RequestFaithful(r)'
  <2>1. CASE req'[r] = req[r]
    <3>1. r[1] \in Calls
      BY RpcConstants
    <3>2. ran[r[1]] \subseteq ran'[r[1]]
          /\ (at[r[1]] # "idle" => at'[r[1]] # "idle" /\ how'[r[1]] = how[r[1]])
      BY <3>1 DEF SameCall
    <3>3. QED BY <2>1, <3>2, RequestFrame DEF Faithful
  <2>2. QED BY <2>1
<1>3. QED BY <1>1, <1>2 DEF Faithful

(* A step of one request.                                                  *)
LEMMA OneRequest ==
  ASSUME Typed, Faithful, NEW r \in Requests, Kept, \A d \in Calls : SameCall(d),
         \A d \in Calls : ran[d] \subseteq ran'[d] /\ (at[d] \in {"idle", "call"} => ran'[d] = ran[d]),
         \A p \in Requests \ {r} : req'[p] = req[p],
         RequestFaithful(r)'
  PROVE  Faithful'
<1>1. ASSUME NEW d \in Calls PROVE CallFaithful(d)'
  BY CallFrame DEF Faithful
<1>2. ASSUME NEW p \in Requests PROVE RequestFaithful(p)'
  <2>1. CASE p # r
    <3>1. p[1] \in Calls /\ req'[p] = req[p]
      BY <2>1, RpcConstants
    <3>2. ran[p[1]] \subseteq ran'[p[1]]
          /\ (at[p[1]] # "idle" => at'[p[1]] # "idle" /\ how'[p[1]] = how[p[1]])
      BY <3>1 DEF SameCall
    <3>3. QED BY <3>1, <3>2, RequestFrame DEF Faithful
  <2>2. QED BY <2>1
<1>3. QED BY <1>1, <1>2 DEF Faithful

LEMMA InitFaithful == Init => Faithful
<1> SUFFICES ASSUME Init PROVE Faithful
  OBVIOUS
<1>1. ASSUME NEW c \in Calls PROVE CallFaithful(c)
  BY RpcConstants DEF Init, CallFaithful
<1>2. ASSUME NEW r \in Requests PROVE RequestFaithful(r)
  BY DEF Init, RequestFaithful, NoRequest
<1>3. QED BY <1>1, <1>2 DEF Faithful

LEMMA Domains ==
  ASSUME Typed
  PROVE  /\ DOMAIN at = Calls /\ DOMAIN how = Calls /\ DOMAIN err = Calls /\ DOMAIN pan = Calls
         /\ DOMAIN enc = Calls /\ DOMAIN results = Calls /\ DOMAIN value = Calls
         /\ DOMAIN span = Calls /\ DOMAIN metrics = Calls /\ DOMAIN ran = Calls
         /\ DOMAIN tries = Calls /\ DOMAIN mem = Bufs
BY DEF Typed, TypeOK

(* The steps of a stub that touch neither buffers nor requests.            *)
LEMMA QuietFaithful ==
  ASSUME Typed, Owned, Faithful, NEW c \in Calls,
         Begin(c) \/ CallImpl(c) \/ TryFails(c) \/ InjectRetry(c) \/ InvokeReturns(c) \/ Decode(c) \/ Leave(c)
  PROVE  Faithful'
<1>1. CallFaithful(c)
  BY DEF Faithful
<1>2. mem' = mem /\ req' = req
  BY DEF Begin, CallImpl, TryFails, InjectRetry, InvokeReturns, Decode, Leave
<1>3. Kept
  BY <1>2 DEF Kept
<1>4. \A d \in Calls \ {c} : SameCall(d) /\ ran'[d] = ran[d]
  BY Domains DEF Begin, CallImpl, TryFails, InjectRetry, InvokeReturns, Decode, Leave, SameCall
<1>5. ran[c] \subseteq ran'[c]
  BY <1>1, Domains DEF Begin, CallImpl, TryFails, InjectRetry, InvokeReturns, Decode, Leave, CallFaithful
<1>6. at[c] # "idle" => at'[c] # "idle" /\ how'[c] = how[c]
  BY Domains DEF Begin, CallImpl, TryFails, InjectRetry, InvokeReturns, Decode, Leave
<1>7. CallFaithful(c)'
  <2>1. CASE Begin(c)
    <3>1. PICK s \in Stubs, t \in Contexts, m \in Methods :
            /\ how' = [how EXCEPT ![c] = [stub |-> s, traced |-> t, method |-> m]]
            /\ \/ at' = [at EXCEPT ![c] = "crashed"]
               \/ s = "remote" /\ at' = [at EXCEPT ![c] = "encode"]
               \/ s # "remote" /\ at' = [at EXCEPT ![c] = "call"]
      BY <2>1 DEF Begin
    <3>2. how'[c] \in [stub : Stubs, traced : Contexts, method : Methods] /\ how'[c].stub = s
      BY <3>1, Domains
    <3>3. at'[c] \in {"crashed", "encode", "call"} /\ (at'[c] = "encode" => s = "remote")
          /\ (at'[c] = "call" => s # "remote")
      BY <3>1, Domains
    <3>4. /\ err' = err /\ pan' = pan /\ enc' = enc /\ results' = results /\ value' = value
          /\ ran' = ran /\ at[c] = "idle"
      BY <2>1 DEF Begin
    <3>5. QED BY <1>1, <3>2, <3>3, <3>4, RpcConstants DEF CallFaithful, Remote
  <2>2. CASE CallImpl(c)
    BY <1>1, <2>2, Domains, RpcConstants DEF CallImpl, CallFaithful, Remote
  <2>3. CASE TryFails(c)
    BY <1>1, <1>2, <2>3, Domains DEF TryFails, CallFaithful, Remote
  <2>4. CASE InjectRetry(c)
    BY <1>1, <1>2, <2>4, Domains, RpcConstants DEF InjectRetry, CallFaithful, Remote
  <2>5. CASE InvokeReturns(c)
    <3>1. err[c] = "nil" => results[c] \in Bufs
      BY <2>5 DEF InvokeReturns, Typed, Holding, HoldingCall
    <3>2. QED BY <1>1, <1>2, <2>5, Domains DEF InvokeReturns, CallFaithful, Remote, Typed, TypeOK
  <2>6. CASE Decode(c)
    <3>1. results[c] \in Bufs
      BY <2>6 DEF Decode, Typed, Holding, HoldingCall
    <3>2. PICK x \in ran[c] : mem[results[c]] = Msg(c, x) /\ x \in Outcomes
      BY <1>1, <3>1 DEF CallFaithful, Typed, TypeOK
    <3>3. mem[results[c]].body = x
      BY <3>2, RpcConstants
    <3>4. x \in {"ok", "app"}
      BY <3>2 DEF Outcomes
    <3>5. /\ at[c] = "decode" /\ at'[c] = "leave"
          /\ how' = how /\ ran' = ran /\ results' = results /\ enc' = enc
      BY <2>6, Domains DEF Decode
    <3>6. CASE /\ value'[c] = mem[results[c]] /\ pan' = pan
               /\ err'[c] = IF x = "app" THEN "app" ELSE err[c]
      BY <1>1, <1>2, <3>2, <3>4, <3>5, <3>6 DEF CallFaithful, Remote
    <3>7. CASE pan'[c] \in DecoderPanics /\ value' = value /\ err' = err
      BY <1>1, <1>2, <3>5, <3>7 DEF CallFaithful, Remote, DecoderPanics
    <3>8. QED BY <2>6, <3>3, <3>6, <3>7, Domains DEF Decode
  <2>7. CASE Leave(c)
    <3>1. /\ at[c] = "leave" /\ at'[c] = (IF Crashes(c) THEN "crashed" ELSE "returned")
          /\ err'[c] = Recovered(c) /\ results'[c] \in {results[c], None}
          /\ how' = how /\ pan'[c] = "none" /\ ran' = ran /\ enc' = enc /\ value' = value
      BY <2>7, Domains DEF Leave
    <3>2. CASE pan[c] = "none"
      <4>1. Recovered(c) = err[c]
        BY <3>2 DEF Recovered
      <4>2. QED BY <1>1, <1>2, <3>1, <3>2, <4>1, RpcConstants DEF CallFaithful, Remote
    <3>3. CASE pan[c] # "none"
      <4>1. /\ Recovered(c) = "remote" => Remote(c)
            /\ Recovered(c) = "app" => "app" \in ran[c]
            /\ Recovered(c) = "nil" => at'[c] = "crashed"
        BY <1>1, <3>1, <3>3 DEF Recovered, Crashes, CallFaithful
      <4>2. QED BY <1>1, <1>2, <3>1, <3>3, <4>1, RpcConstants DEF CallFaithful, Remote
    <3>4. QED BY <3>2, <3>3
  <2>8. QED BY <2>1, <2>2, <2>3, <2>4, <2>5, <2>6, <2>7
<1>8. QED BY <1>2, <1>3, <1>4, <1>5, <1>6, <1>7, OneCall

LEMMA EncodeFaithful ==
  ASSUME Typed, Owned, Faithful, NEW c \in Calls, Encode(c)
  PROVE  Faithful'
<1>1. CallFaithful(c)
  BY DEF Faithful
<1>2. PICK b \in Bufs :
        /\ Get(b, Msg(c, "args"), {})
        /\ \/ enc' = [enc EXCEPT ![c] = b] /\ at' = [at EXCEPT ![c] = "encoded"] /\ pan' = pan
           \/ pan' = [pan EXCEPT ![c] = "codec"] /\ at' = [at EXCEPT ![c] = "leave"] /\ enc' = enc
  BY DEF Encode
<1>3. Kept /\ mem'[b] = Msg(c, "args")
  BY <1>2, MemKept
<1>4. /\ at[c] = "encode" /\ req' = req /\ ran' = ran /\ how' = how /\ err' = err
      /\ results' = results /\ value' = value
  BY DEF Encode
<1>5. \A d \in Calls \ {c} : SameCall(d)
  BY <1>2, <1>4, Domains DEF SameCall
<1>6. results[c] \in Bufs => mem'[results[c]] = mem[results[c]]
  BY <1>3 DEF Kept
<1>7. CallFaithful(c)'
  BY <1>1, <1>2, <1>3, <1>4, <1>6, Domains DEF CallFaithful, Remote
<1>8. at'[c] # "idle"
  BY <1>2, Domains
<1>9. QED BY <1>3, <1>4, <1>5, <1>7, <1>8, OneCall

LEMMA GrowFaithful ==
  ASSUME Typed, Owned, Faithful, NEW c \in Calls, Grow(c)
  PROVE  Faithful'
<1>1. CallFaithful(c)
  BY DEF Faithful
<1>2. PICK b \in Bufs : Get(b, mem[enc[c]], {enc[c]}) /\ enc' = [enc EXCEPT ![c] = b]
  BY DEF Grow
<1>3. Kept /\ mem'[b] = mem[enc[c]]
  BY <1>2, MemKept
<1>4. /\ at[c] = "encoded" /\ at' = [at EXCEPT ![c] = "send"] /\ req' = req /\ ran' = ran /\ how' = how
      /\ err' = err /\ pan' = pan /\ results' = results /\ value' = value
  BY DEF Grow
<1>5. \A d \in Calls \ {c} : SameCall(d)
  BY <1>2, <1>4, Domains DEF SameCall
<1>6. results[c] \in Bufs => mem'[results[c]] = mem[results[c]]
  BY <1>3 DEF Kept
<1>7. CallFaithful(c)'
  BY <1>1, <1>2, <1>3, <1>4, <1>6, Domains DEF CallFaithful, Remote
<1>8. at'[c] # "idle"
  BY <1>4, Domains
<1>9. QED BY <1>3, <1>4, <1>5, <1>7, <1>8, OneCall

LEMMA SendFaithful ==
  ASSUME Typed, Owned, Faithful, NEW c \in Calls, Send(c)
  PROVE  Faithful'
<1>1. CallFaithful(c)
  BY DEF Faithful
<1>2. PICK r \in Requests :
         r[1] = c /\ Is(req'[r], "sent", None, None, "none", mem[enc[c]])
         /\ \A p \in Requests \ {r} : req'[p] = req[p]
  BY SendEffect
<1>3. /\ at[c] \in {"encoded", "send"} /\ at' = [at EXCEPT ![c] = "wait"] /\ mem' = mem /\ ran' = ran
      /\ how' = how /\ err' = err /\ pan' = pan /\ results' = results /\ value' = value /\ enc' = enc
  BY DEF Send
<1>4. Kept
  BY <1>3 DEF Kept
<1>5. \A d \in Calls \ {c} : SameCall(d)
  BY <1>3, Domains DEF SameCall
<1>6. CallFaithful(c)' /\ at'[c] = "wait"
  BY <1>1, <1>3, Domains DEF CallFaithful, Remote
<1>7. mem[enc[c]] = Msg(c, "args") /\ Remote(c) /\ Remote(c)' /\ at'[c] = "wait"
  BY <1>1, <1>3, <1>6 DEF CallFaithful, Remote
<1>8. RequestFaithful(r)'
  BY <1>2, <1>7 DEF RequestFaithful, Is
<1>9. \A p \in Requests : req'[p] = req[p] \/ RequestFaithful(p)'
  BY <1>2, <1>8
<1>10. ran'[c] = ran[c] /\ how'[c] = how[c] /\ at'[c] # "idle"
  BY <1>3, <1>6
<1>11. \A d \in Calls \ {c} : SameCall(d) /\ ran'[d] = ran[d]
  BY <1>3, <1>5
<1>12. QED BY <1>4, <1>6, <1>9, <1>10, <1>11, OneCall

LEMMA DeliverFaithful ==
  ASSUME Typed, Owned, Faithful, NEW c \in Calls, NEW i \in Tries, Deliver(c, i)
  PROVE  Faithful'
<1> DEFINE r == <<c, i>>
<1>1. CallFaithful(c)
  BY DEF Faithful
<1>2. /\ r \in Requests /\ r[1] = c /\ Is(req'[r], req[r].at, req[r].msg, req[r].enc, req[r].out, None)
      /\ \A p \in Requests \ {r} : req'[p] = req[p]
  BY DeliverEffect
<1>3. RequestFaithful(r)
  BY <1>2 DEF Faithful
<1>4. PICK o \in ran[c] \cup {"error"} : req[r].wire = Msg(c, o)
  BY <1>2, <1>3 DEF RequestFaithful, Deliver
<1>5. o \in Outcomes \cup {"error"} /\ req[r].wire.body = o
  BY <1>4, RpcConstants DEF Typed, TypeOK
<1>6. PICK b \in Bufs :
        /\ Get(b, req[r].wire, IF req[r].wire.body = "error" THEN {b} ELSE {})
        /\ results' = [results EXCEPT ![c] = IF at[c] = "wait" /\ tries[c] = i /\ req[r].wire.body # "error"
                                             THEN b ELSE @]
  BY DEF Deliver
<1>7. /\ at' = [at EXCEPT ![c] = IF at[c] = "wait" /\ tries[c] = i THEN "called" ELSE @]
      /\ err' = [err EXCEPT ![c] = IF at[c] = "wait" /\ tries[c] = i /\ req[r].wire.body = "error"
                                   THEN "remote" ELSE @]
      /\ ran' = ran /\ how' = how /\ pan' = pan /\ value' = value /\ enc' = enc
      /\ req[r].at \in {"written", "gone"}
  BY DEF Deliver
<1> HIDE DEF r
<1>8. Kept /\ mem'[b] = Msg(c, o)
  BY <1>4, <1>6, MemKept
<1>9. \A d \in Calls \ {c} : SameCall(d)
  BY <1>6, <1>7, Domains DEF SameCall
<1>10. /\ results[c] \in Bufs => mem'[results[c]] = mem[results[c]]
       /\ enc[c] \in Bufs => mem'[enc[c]] = mem[enc[c]]
  BY <1>8 DEF Kept
<1>11. at[c] # "idle" /\ Remote(c)
  BY <1>2, <1>3, <1>7 DEF RequestFaithful
<1>12. CallFaithful(c)' /\ at'[c] # "idle"
  <2>1. CASE at[c] = "wait" /\ tries[c] = i
    <3>1. enc[c] \in Bufs
      BY <2>1 DEF Typed, Holding, HoldingCall
    <3>2. /\ at'[c] = "called" /\ results'[c] = (IF o # "error" THEN b ELSE results[c])
          /\ err'[c] = IF o = "error" THEN "remote" ELSE err[c]
      BY <1>5, <1>6, <1>7, <2>1, Domains
    <3>3. QED BY <1>1, <1>4, <1>7, <1>8, <1>10, <1>11, <2>1, <3>1, <3>2 DEF CallFaithful, Remote
  <2>2. CASE ~(at[c] = "wait" /\ tries[c] = i)
    <3>1. SameCall(c)
      BY <1>6, <1>7, <2>2, Domains DEF SameCall
    <3>2. CallFaithful(c)'
      BY <1>1, <1>7, <1>8, <3>1, CallFrame
    <3>3. QED BY <1>11, <3>1, <3>2 DEF SameCall
  <2>3. QED BY <2>1, <2>2
<1>13. RequestFaithful(r)'
  BY <1>2, <1>7, <1>11, <1>12 DEF RequestFaithful, Is, Remote
<1>14. QED BY <1>2, <1>7, <1>8, <1>9, <1>12, <1>13, OneCall

(* The steps of the server on a request.                                   *)
LEMMA ReceiveFaithful ==
  ASSUME Typed, Owned, Faithful, NEW r \in Requests, Receive(r)
  PROVE  Faithful'
<1>1. PICK b \in Bufs :
        /\ Get(b, req[r].wire, {})
        /\ Is(req'[r], "read", b, req[r].enc, req[r].out, None)
        /\ \A p \in Requests \ {r} : req'[p] = req[p]
  BY ReceiveEffect
<1>2. Kept /\ mem'[b] = req[r].wire
  BY <1>1, MemKept
<1>3. RequestFaithful(r) /\ req[r].at = "sent" /\ ran' = ran /\ \A d \in Calls : SameCall(d)
  BY DEF Faithful, Receive, clientVars, SameCall
<1>4. r[1] \in Calls
  BY RpcConstants
<1>5. RequestFaithful(r)'
  BY <1>1, <1>2, <1>3, <1>4 DEF RequestFaithful, Is, SameCall, Remote
<1>6. QED BY <1>1, <1>2, <1>3, <1>5, OneRequest

LEMMA EncodeResultsFaithful ==
  ASSUME Typed, Owned, Faithful, NEW r \in Requests, EncodeResults(r)
  PROVE  Faithful'
<1>1. PICK b \in Bufs, o \in {req[r].out, "error"} :
        /\ Get(b, Msg(r[1], o), {})
        /\ Is(req'[r], "write", req[r].msg, b, "none", req[r].wire)
        /\ \A p \in Requests \ {r} : req'[p] = req[p]
  BY EncodeEffect
<1>2. Kept /\ mem'[b] = Msg(r[1], o)
  BY <1>1, MemKept
<1>3. RequestFaithful(r) /\ req[r].at = "encode" /\ ran' = ran /\ \A d \in Calls : SameCall(d)
  BY DEF Faithful, EncodeResults, clientVars, SameCall
<1>4. r[1] \in Calls
  BY RpcConstants
<1>5. RequestFaithful(r)'
  BY <1>1, <1>2, <1>3, <1>4 DEF RequestFaithful, Is, SameCall, Remote
<1>6. QED BY <1>1, <1>2, <1>3, <1>5, OneRequest

(* The server dies, perhaps in an implementation that has run.             *)
LEMMA DeathFaithful ==
  ASSUME Typed, Owned, Faithful, ServerDies, mem' = mem, \A d \in Calls : SameCall(d),
         \A d \in Calls : ran[d] \subseteq ran'[d] /\ (at[d] \in {"idle", "call"} => ran'[d] = ran[d])
  PROVE  Faithful'
<1>1. Kept
  BY DEF Kept
<1>2. ASSUME NEW d \in Calls PROVE CallFaithful(d)'
  BY <1>1, CallFrame DEF Faithful
<1>3. ASSUME NEW p \in Requests PROVE RequestFaithful(p)'
  <2>1. p[1] \in Calls /\ RequestFaithful(p)
    BY RpcConstants DEF Faithful
  <2>2. SameCall(p[1]) /\ ran[p[1]] \subseteq ran'[p[1]]
    BY <2>1
  <2>3. QED BY <2>1, <2>2, DeathEffect DEF RequestFaithful, SameCall, Remote
<1>4. QED BY <1>2, <1>3 DEF Faithful

LEMMA ServerQuietFaithful ==
  ASSUME Typed, Owned, Faithful, NEW r \in Requests,
         StartHandler(r) \/ WriteAnswer(r) \/ FreeBuffers(r)
  PROVE  Faithful'
<1>1. /\ mem' = mem /\ ran' = ran /\ RequestFaithful(r) /\ r[1] \in Calls
      /\ \A d \in Calls : SameCall(d)
  BY RpcConstants DEF Faithful, StartHandler, WriteAnswer, FreeBuffers, clientVars, SameCall
<1>2. Kept
  BY <1>1 DEF Kept
<1>d. CASE ServerDies
  BY <1>1, <1>d, DeathFaithful
<1> SUFFICES ASSUME ~ServerDies PROVE Faithful'
  BY <1>d
<1>3. \A p \in Requests \ {r} : req'[p] = req[p]
  BY StartEffect, WriteEffect, FreeEffect
<1>4. RequestFaithful(r)'
  <2>1. CASE StartHandler(r)
    BY <1>1, <2>1, StartEffect DEF StartHandler, RequestFaithful, Is, SameCall, Remote
  <2>2. CASE WriteAnswer(r)
    <3>1. PICK m \in {mem[req[r].enc], None} :
            Is(req'[r], "written", req[r].msg, req[r].enc, req[r].out, m)
      BY <2>2, WriteEffect
    <3>2. req[r].at = "write" /\ ran' = ran
      BY <1>1, <2>2 DEF WriteAnswer
    <3>3. m = None \/ \E o \in ran[r[1]] \cup {"error"} : m = Msg(r[1], o)
      BY <1>1, <3>2 DEF RequestFaithful
    <3>4. at'[r[1]] # "idle" /\ Remote(r[1])'
      BY <1>1, <3>2 DEF RequestFaithful, SameCall, Remote
    <3>5. QED BY <3>1, <3>2, <3>3, <3>4 DEF RequestFaithful, Is
  <2>3. CASE FreeBuffers(r)
    <3>1. Is(req'[r], "gone", None, None, req[r].out, req[r].wire) /\ req[r].at = "written"
      BY <2>3, FreeEffect DEF FreeBuffers
    <3>2. at'[r[1]] # "idle" /\ Remote(r[1])'
      BY <1>1, <3>1 DEF RequestFaithful, SameCall, Remote
    <3>3. req[r].wire = None \/ \E o \in ran'[r[1]] \cup {"error"} : req[r].wire = Msg(r[1], o)
      BY <1>1, <3>1 DEF RequestFaithful
    <3>4. QED BY <3>1, <3>2, <3>3 DEF RequestFaithful, Is
  <2>4. QED BY <2>1, <2>2, <2>3
<1>5. QED BY <1>1, <1>2, <1>3, <1>4, OneRequest

LEMMA ImplFaithful ==
  ASSUME Typed, Owned, Faithful, NEW r \in Requests, ImplReturns(r)
  PROVE  Faithful'
<1>1. /\ mem' = mem /\ RequestFaithful(r) /\ r[1] \in Calls /\ req[r].at = "run"
      /\ \A d \in Calls : SameCall(d)
  BY RpcConstants DEF Faithful, ImplReturns, clientVars, SameCall
<1>2. Kept
  BY <1>1 DEF Kept
<1>3. CASE ServerDies
  <2>1. \A d \in Calls : ran[d] \subseteq ran'[d] /\ (at[d] \in {"idle", "call"} => ran'[d] = ran[d])
    <3>1. CallFaithful(r[1]) /\ at[r[1]] # "idle" /\ Remote(r[1])
      BY <1>1 DEF Faithful, RequestFaithful
    <3>2. at[r[1]] \notin {"idle", "call"}
      BY <3>1 DEF CallFaithful
    <3>3. \/ ran' = ran
          \/ \E o \in Outcomes : ran' = [ran EXCEPT ![r[1]] = @ \cup {o}]
      BY DEF ImplReturns
    <3>4. QED BY <3>2, <3>3, Domains
  <2>2. QED BY <1>1, <1>3, <2>1, DeathFaithful
<1>4. CASE ~ServerDies
  <2>1. PICK o \in Outcomes :
          /\ Is(req'[r], "encode", req[r].msg, req[r].enc, o, req[r].wire)
          /\ \A p \in Requests \ {r} : req'[p] = req[p]
          /\ ran' = [ran EXCEPT ![r[1]] = @ \cup {o}]
    BY <1>4, ImplEffect
  <2>2. CallFaithful(r[1]) /\ at[r[1]] # "idle" /\ Remote(r[1])
    BY <1>1 DEF Faithful, RequestFaithful
  <2>3. at[r[1]] \notin {"idle", "call"}
    BY <2>2 DEF CallFaithful
  <2>4. o \in ran'[r[1]]
        /\ \A d \in Calls : ran[d] \subseteq ran'[d] /\ (at[d] \in {"idle", "call"} => ran'[d] = ran[d])
    BY <1>1, <2>1, <2>3, Domains
  <2>5. RequestFaithful(r)'
    BY <1>1, <2>1, <2>2, <2>4 DEF RequestFaithful, Is, SameCall, Remote
  <2>6. QED BY <1>1, <1>2, <2>1, <2>4, <2>5, OneRequest
<1>5. QED BY <1>3, <1>4

LEMMA NextFaithful == Typed /\ Owned /\ Faithful /\ [Next]_rpcVars => Faithful'
<1> SUFFICES ASSUME Typed, Owned, Faithful, [Next]_rpcVars PROVE Faithful'
  OBVIOUS
<1>1. CASE UNCHANGED rpcVars
  BY <1>1 DEF Faithful, CallFaithful, RequestFaithful, Remote, rpcVars, clientVars
<1>2. QED
  BY <1>1, QuietFaithful, EncodeFaithful, GrowFaithful, SendFaithful, DeliverFaithful, ReceiveFaithful,
     EncodeResultsFaithful, ServerQuietFaithful, ImplFaithful
  DEF Next, StubStep, ServerStep

(* Intact: whatever happens to other calls, an implementation reads its    *)
(* own caller's arguments and a caller its own result.                     *)
THEOREM IntactCorrect == Spec => []Intact
<1>1. Typed /\ Faithful => Intact
  <2> SUFFICES ASSUME Typed, Faithful PROVE Intact
    OBVIOUS
  <2>1. ASSUME NEW r \in Requests, req[r].at = "run" PROVE mem[req[r].msg] = Msg(r[1], "args")
    BY <2>1 DEF Faithful, RequestFaithful
  <2>2. ASSUME NEW c \in Calls, at[c] = "returned", err[c] = "nil" PROVE Result(c) = Msg(c, "ok")
    <3>1. CallFaithful(c) /\ results[c] \in Bufs \cup {None}
      BY DEF Faithful, Typed, TypeOK
    <3>2. /\ value[c] = Msg(c, "ok")
          /\ results[c] # None => mem[results[c]] = Msg(c, "ok")
      BY <2>2, <3>1 DEF CallFaithful
    <3>3. QED BY <3>2 DEF Result
  <2>3. QED BY <2>1, <2>2 DEF Intact
<1>2. QED BY InitTyped, NextTyped, InitOwned, NextOwned, InitFaithful, NextFaithful, <1>1, PTL DEF Spec
-----------------------------------------------------------------------------
(* The metrics and the span of a call before it ends, and after.           *)
CountedCall(c) ==
  /\ at[c] \notin {"returned", "crashed"} =>
       metrics[c].count = 0 /\ metrics[c].errs = 0 /\ span[c] \in {"none", "open"}
  /\ at[c] = "idle" => err[c] = "nil" /\ span[c] = "none"
  /\ at[c] \in {"returned", "crashed"} =>
       /\ metrics[c].count = 1 /\ metrics[c].errs = IF err[c] = "nil" THEN 0 ELSE 1
       /\ span[c] \in {"none", IF err[c] = "nil" THEN "ended" ELSE "failed"}

Counted == \A c \in Calls : CountedCall(c)

LEMMA InitCounted == Init => Counted
BY DEF Init, Counted, CountedCall

LEMMA LeaveCounted ==
  ASSUME Typed, Counted, NEW c \in Calls, Leave(c)
  PROVE  CountedCall(c)'
<1>1. /\ at[c] = "leave" /\ at'[c] \in {"returned", "crashed"}
      /\ metrics' = [metrics EXCEPT ![c] =
                       [count |-> @.count + 1, errs |-> IF err'[c] = "nil" THEN @.errs ELSE @.errs + 1]]
      /\ span'[c] = CASE span[c] = "none" -> span[c]
                      [] err'[c] = "nil" -> "ended" [] OTHER -> "failed"
  BY Domains DEF Leave
<1>2. /\ metrics[c].count = 0 /\ metrics[c].errs = 0 /\ span[c] \in {"none", "open"}
      /\ metrics[c] \in [count : Nat, errs : Nat]
  BY <1>1 DEF Counted, CountedCall, Typed, TypeOK
<1>3. metrics'[c].count = 1 /\ metrics'[c].errs = IF err'[c] = "nil" THEN 0 ELSE 1
  BY <1>1, <1>2, Domains
<1>4. span'[c] \in {"none", IF err'[c] = "nil" THEN "ended" ELSE "failed"}
  BY <1>1, <1>2
<1>5. QED BY <1>1, <1>3, <1>4 DEF CountedCall

LEMMA BeginCounted ==
  ASSUME Typed, Counted, NEW c \in Calls, Begin(c)
  PROVE  CountedCall(c)'
<1>1. /\ metrics[c].count = 0 /\ metrics[c].errs = 0 /\ err'[c] = "nil" /\ span[c] = "none"
      /\ metrics[c] \in [count : Nat, errs : Nat]
  BY DEF Begin, Counted, CountedCall, Typed, TypeOK
<1>2. CASE at' = [at EXCEPT ![c] = "crashed"] /\ metrics' = [metrics EXCEPT ![c].count = @ + 1]
           /\ span' = span
  <2>1. at'[c] = "crashed" /\ span'[c] = "none"
    BY <1>1, <1>2, Domains
  <2>2. metrics'[c].count = 1 /\ metrics'[c].errs = 0
    BY <1>1, <1>2, Domains
  <2>3. QED BY <1>1, <2>1, <2>2 DEF CountedCall
<1>3. CASE /\ at'[c] \in {"encode", "call"} /\ span'[c] \in {"open", "none"} /\ metrics' = metrics
  BY <1>1, <1>3 DEF CountedCall
<1>4. QED
  <2>1. PICK s \in Stubs, t \in Contexts :
          \/ t /\ s = "remote" /\ at' = [at EXCEPT ![c] = "crashed"]
             /\ metrics' = [metrics EXCEPT ![c].count = @ + 1] /\ span' = span
          \/ /\ at' = [at EXCEPT ![c] = IF s = "remote" THEN "encode" ELSE "call"]
             /\ span' = [span EXCEPT ![c] = IF t THEN "open" ELSE "none"] /\ metrics' = metrics
    BY DEF Begin
  <2>2. QED BY <1>2, <1>3, <2>1, Domains

LEMMA NextCounted == Typed /\ Counted /\ [Next]_rpcVars => Counted'
<1> SUFFICES ASSUME Typed, Counted, [Next]_rpcVars, NEW c \in Calls PROVE CountedCall(c)'
  BY DEF Counted
<1>1. CountedCall(c)
  BY DEF Counted
<1>2. ASSUME NEW d \in Calls, Begin(d) PROVE CountedCall(c)'
  <2>1. CASE d = c
    BY <1>2, <2>1, BeginCounted
  <2>2. CASE d # c
    <3>1. at'[c] = at[c] /\ err'[c] = err[c] /\ span'[c] = span[c] /\ metrics'[c] = metrics[c]
      BY <1>2, <2>2, Domains DEF Begin
    <3>2. QED BY <1>1, <3>1 DEF CountedCall
  <2>3. QED BY <2>1, <2>2
<1>3. ASSUME NEW d \in Calls, Leave(d) PROVE CountedCall(c)'
  <2>1. CASE d = c
    BY <1>3, <2>1, LeaveCounted
  <2>2. CASE d # c
    <3>1. at'[c] = at[c] /\ err'[c] = err[c] /\ span'[c] = span[c] /\ metrics'[c] = metrics[c]
      BY <1>3, <2>2, Domains DEF Leave
    <3>2. QED BY <1>1, <3>1 DEF CountedCall
  <2>3. QED BY <2>1, <2>2
<1>4. ASSUME span' = span, metrics' = metrics,
             \/ at'[c] = at[c] /\ err'[c] = err[c]
             \/ at[c] \notin {"idle", "returned", "crashed"} /\ at'[c] \notin {"idle", "returned", "crashed"}
      PROVE  CountedCall(c)'
  BY <1>1, <1>4 DEF CountedCall
<1>5. ASSUME NEW d \in Calls, \/ CallImpl(d) \/ Encode(d) \/ Grow(d) \/ Send(d) \/ TryFails(d)
                              \/ InjectRetry(d) \/ InvokeReturns(d) \/ Decode(d)
      PROVE  CountedCall(c)'
  BY <1>4, <1>5, Domains DEF CallImpl, Encode, Grow, Send, TryFails, InjectRetry, InvokeReturns, Decode
<1>6. ASSUME NEW d \in Calls, NEW i \in Tries, Deliver(d, i) PROVE CountedCall(c)'
  BY <1>4, <1>6, Domains DEF Deliver
<1>7. ASSUME NEW r \in Requests, ServerStep(r) PROVE CountedCall(c)'
  BY <1>4, <1>7 DEF ServerStep, Receive, StartHandler, ImplReturns, EncodeResults, WriteAnswer,
                    FreeBuffers, clientVars
<1>8. CASE UNCHANGED rpcVars
  BY <1>4, <1>8 DEF rpcVars, clientVars
<1>9. QED BY <1>2, <1>3, <1>5, <1>6, <1>7, <1>8 DEF Next, StubStep

(* Accounted: metrics and spans agree with what the stub method returned.  *)
THEOREM AccountedCorrect == Spec => []Accounted
<1>1. Typed /\ Counted => Accounted
  <2> SUFFICES ASSUME Typed, Counted, NEW c \in Calls, at[c] \in {"returned", "crashed"}
               PROVE  /\ metrics[c] = [count |-> 1, errs |-> IF err[c] = "nil" THEN 0 ELSE 1]
                      /\ span[c] \in {"none", IF err[c] = "nil" THEN "ended" ELSE "failed"}
    BY DEF Accounted
  <2>1. /\ metrics[c] \in [count : Nat, errs : Nat]
        /\ metrics[c].count = 1 /\ metrics[c].errs = (IF err[c] = "nil" THEN 0 ELSE 1)
        /\ span[c] \in {"none", IF err[c] = "nil" THEN "ended" ELSE "failed"}
    BY DEF Typed, TypeOK, Counted, CountedCall
  <2>2. metrics[c] = [count |-> metrics[c].count, errs |-> metrics[c].errs]
    BY <2>1
  <2>3. QED BY <2>1, <2>2
<1>2. QED BY InitTyped, NextTyped, InitCounted, NextCounted, <1>1, PTL DEF Spec
-----------------------------------------------------------------------------
(* The refinement.  A step that changes none of what Promise shows.        *)
LEMMA Unseen ==
  ASSUME \A c \in Calls :
           /\ at'[c] = "idle" <=> at[c] = "idle"
           /\ at'[c] = "returned" <=> at[c] = "returned"
           /\ at[c] # "idle" => how'[c] = how[c]
           /\ at[c] = "returned" => err'[c] = err[c],
         ran' = ran
  PROVE  UNCHANGED Promise!promised
<1>1. {c \in Calls : at[c] # "idle" /\ Remote(c)}' = {c \in Calls : at[c] # "idle" /\ Remote(c)}
  BY DEF Remote
<1>2. {c \in Calls : at[c] # "idle"}' = {c \in Calls : at[c] # "idle"}
  OBVIOUS
<1>3. {c \in Calls : at[c] = "returned"}' = {c \in Calls : at[c] = "returned"}
  OBVIOUS
<1>4. [c \in Calls |-> IF at[c] # "returned" THEN "nothing"
                      ELSE CASE err[c] = "nil" -> "ok" [] err[c] = "app" -> "app" [] OTHER -> "failed"]'
        = [c \in Calls |-> IF at[c] # "returned" THEN "nothing"
                      ELSE CASE err[c] = "nil" -> "ok" [] err[c] = "app" -> "app" [] OTHER -> "failed"]
  OBVIOUS
<1>5. QED BY <1>1, <1>2, <1>3, <1>4 DEF Promise!promised

LEMMA InitPromise == Init => Promise!Init
BY DEF Init, Promise!Init

Got(c) == IF at[c] # "returned" THEN "nothing"
          ELSE CASE err[c] = "nil" -> "ok" [] err[c] = "app" -> "app" [] OTHER -> "failed"

(* Beginning a call is Call.                                               *)
LEMMA BeginIsCall ==
  ASSUME Typed, Faithful, NEW c \in Calls, Begin(c)
  PROVE  Promise!Call(c)
<1>1. /\ at[c] = "idle" /\ at'[c] \notin {"idle", "returned"} /\ ran' = ran /\ err' = err
      /\ \A d \in Calls \ {c} : at'[d] = at[d] /\ how'[d] = how[d]
  BY Domains DEF Begin
<1>2. {d \in Calls : at[d] # "idle"}' = {d \in Calls : at[d] # "idle"} \cup {c}
  BY <1>1
<1>3. {d \in Calls : at[d] # "idle" /\ Remote(d)}' \in
        {{d \in Calls : at[d] # "idle" /\ Remote(d)}, {d \in Calls : at[d] # "idle" /\ Remote(d)} \cup {c}}
  <2>1. \A d \in Calls \ {c} : Remote(d)' <=> Remote(d)
    BY <1>1 DEF Remote
  <2>2. CASE Remote(c)'
    BY <1>1, <2>1, <2>2
  <2>3. CASE ~Remote(c)'
    BY <1>1, <2>1, <2>3
  <2>4. QED BY <2>2, <2>3
<1>4. {d \in Calls : at[d] = "returned"}' = {d \in Calls : at[d] = "returned"}
  BY <1>1
<1>5. [d \in Calls |-> Got(d)]' = [d \in Calls |-> Got(d)]
  BY <1>1 DEF Got
<1>6. QED BY <1>1, <1>2, <1>3, <1>4, <1>5 DEF Promise!Call, Got

(* Leaving the stub method without a panic is Return, with the outcome of  *)
(* an execution, or "failed" for a remote call.                            *)
LEMMA LeaveIsReturn ==
  ASSUME Typed, Faithful, Faithful', NEW c \in Calls, Leave(c), ~Crashes(c)
  PROVE  Promise!Return(c)
<1>1. /\ at[c] = "leave" /\ at'[c] = "returned" /\ ran' = ran /\ how' = how
      /\ \A d \in Calls \ {c} : at'[d] = at[d] /\ err'[d] = err[d]
  BY Domains DEF Leave
<1>2. CallFaithful(c)'
  BY DEF Faithful
<1>3. err'[c] \in {"nil", "app", "remote"}
  <2>1. Recovered(c) \in {"nil", "app", "remote"}
    BY DEF Typed, TypeOK, Recovered
  <2>2. QED BY <2>1, Domains DEF Leave
<1>4. Got(c)' \in Outcomes \cup {"failed"}
      /\ (Got(c)' \in ran[c] \/ (Got(c)' = "failed" /\ Remote(c)))
  <2>1. CASE err'[c] = "nil"
    <3>1. Got(c)' = "ok" /\ "ok" \in ran[c]
      BY <1>1, <1>2, <2>1 DEF CallFaithful, Got
    <3>2. QED BY <3>1 DEF Outcomes
  <2>2. CASE err'[c] = "app"
    <3>1. Got(c)' = "app" /\ "app" \in ran[c]
      BY <1>1, <1>2, <2>2 DEF CallFaithful, Got
    <3>2. QED BY <3>1 DEF Outcomes
  <2>3. CASE err'[c] = "remote"
    <3>1. Got(c)' = "failed" /\ Remote(c)'
      BY <1>1, <1>2, <2>3 DEF CallFaithful, Got
    <3>2. QED BY <1>1, <3>1 DEF Remote
  <2>4. QED BY <1>3, <2>1, <2>2, <2>3
<1>5. {d \in Calls : at[d] # "idle"}' = {d \in Calls : at[d] # "idle"}
  BY <1>1
<1>6. {d \in Calls : at[d] # "idle" /\ Remote(d)}' = {d \in Calls : at[d] # "idle" /\ Remote(d)}
  BY <1>1 DEF Remote
<1>7. {d \in Calls : at[d] = "returned"}' = {d \in Calls : at[d] = "returned"} \cup {c}
  BY <1>1
<1>8. [d \in Calls |-> Got(d)]' = [[d \in Calls |-> Got(d)] EXCEPT ![c] = Got(c)']
  BY <1>1 DEF Got
<1>9. c \in {d \in Calls : at[d] # "idle"} \ {d \in Calls : at[d] = "returned"}
  BY <1>1
<1>10. Remote(c) => c \in {d \in Calls : at[d] # "idle" /\ Remote(d)}
  BY <1>1
<1>11. \E o \in Outcomes \cup {"failed"} :
         /\ o \in ran[c] \/ (o = "failed" /\ c \in {d \in Calls : at[d] # "idle" /\ Remote(d)})
         /\ [d \in Calls |-> Got(d)]' = [[d \in Calls |-> Got(d)] EXCEPT ![c] = o]
  BY <1>4, <1>8, <1>10
<1>12. QED BY <1>1, <1>5, <1>6, <1>7, <1>9, <1>11 DEF Promise!Return, Got

(* An execution, local or on a server, is Execute.                         *)
LEMMA RunIsExecute ==
  ASSUME Typed, Faithful, NEW c \in Calls, NEW o \in Outcomes, ran' = [ran EXCEPT ![c] = @ \cup {o}],
         at[c] # "idle", Remote(c) \/ ran[c] = {},
         \A d \in Calls : /\ at'[d] = "idle" <=> at[d] = "idle"
                          /\ at'[d] = "returned" <=> at[d] = "returned"
                          /\ how'[d] = how[d]
                          /\ at[d] = "returned" => err'[d] = err[d]
  PROVE  Promise!Execute(c, o)
<1>1. {d \in Calls : at[d] # "idle" /\ Remote(d)}' = {d \in Calls : at[d] # "idle" /\ Remote(d)}
  BY DEF Remote
<1>2. {d \in Calls : at[d] # "idle"}' = {d \in Calls : at[d] # "idle"}
  OBVIOUS
<1>3. {d \in Calls : at[d] = "returned"}' = {d \in Calls : at[d] = "returned"}
  OBVIOUS
<1>4. [d \in Calls |-> Got(d)]' = [d \in Calls |-> Got(d)]
  BY DEF Got
<1>5. QED BY <1>1, <1>2, <1>3, <1>4 DEF Promise!Execute, Got

LEMMA NextPromise ==
  Typed /\ Faithful /\ Faithful' /\ [Next]_rpcVars => [Promise!Next]_Promise!promised
<1> SUFFICES ASSUME Typed, Faithful, Faithful', [Next]_rpcVars
             PROVE  Promise!Next \/ UNCHANGED Promise!promised
  OBVIOUS
<1>1. ASSUME NEW c \in Calls, Begin(c) PROVE Promise!Next
  BY <1>1, BeginIsCall DEF Promise!Next
<1>2. ASSUME NEW c \in Calls, CallImpl(c) PROVE Promise!Next \/ UNCHANGED Promise!promised
  <2>1. /\ at[c] = "call" /\ at'[c] = "leave" /\ how' = how
        /\ \A d \in Calls \ {c} : at'[d] = at[d] /\ err'[d] = err[d]
    BY <1>2, Domains DEF CallImpl
  <2>2. ran[c] = {}
    BY <2>1 DEF Faithful, CallFaithful
  <2>3. CASE ran' = ran
    BY <2>1, <2>3, Unseen
  <2>4. ASSUME NEW o \in Outcomes, ran' = [ran EXCEPT ![c] = {o}] PROVE Promise!Next
    <3>1. ran' = [ran EXCEPT ![c] = @ \cup {o}]
      BY <2>2, <2>4
    <3>2. Promise!Execute(c, o)
      BY <2>1, <2>2, <3>1, RunIsExecute
    <3>3. QED BY <3>2 DEF Promise!Next
  <2>5. QED BY <1>2, <2>3, <2>4 DEF CallImpl, Outcomes
<1>3. ASSUME NEW c \in Calls, Leave(c) PROVE Promise!Next \/ UNCHANGED Promise!promised
  <2>1. CASE Crashes(c)
    <3>1. /\ at[c] = "leave" /\ at'[c] = "crashed" /\ ran' = ran /\ how' = how
          /\ \A d \in Calls \ {c} : at'[d] = at[d] /\ err'[d] = err[d]
      BY <1>3, <2>1, Domains DEF Leave
    <3>2. QED BY <3>1, Unseen
  <2>2. CASE ~Crashes(c)
    BY <1>3, <2>2, LeaveIsReturn DEF Promise!Next
  <2>3. QED BY <2>1, <2>2
<1>4. ASSUME NEW c \in Calls, \/ Encode(c) \/ Grow(c) \/ Send(c) \/ TryFails(c)
                              \/ InjectRetry(c) \/ InvokeReturns(c) \/ Decode(c)
      PROVE  UNCHANGED Promise!promised
  <2>1. /\ at[c] \notin {"idle", "returned"} /\ at'[c] \notin {"idle", "returned"}
        /\ how' = how /\ ran' = ran
        /\ \A d \in Calls \ {c} : at'[d] = at[d] /\ err'[d] = err[d]
    BY <1>4, Domains DEF Encode, Grow, Send, TryFails, InjectRetry, InvokeReturns, Decode
  <2>2. QED BY <2>1, Unseen
<1>5. ASSUME NEW c \in Calls, NEW i \in Tries, Deliver(c, i) PROVE UNCHANGED Promise!promised
  <2>1. /\ \A d \in Calls : \/ at'[d] = at[d] /\ err'[d] = err[d]
                            \/ at[d] = "wait" /\ at'[d] = "called"
        /\ how' = how /\ ran' = ran
    BY <1>5, Domains DEF Deliver
  <2>2. QED BY <2>1, Unseen
<1>6. ASSUME NEW r \in Requests, ServerStep(r), ~ImplReturns(r) PROVE UNCHANGED Promise!promised
  <2>1. at' = at /\ err' = err /\ how' = how /\ ran' = ran
    BY <1>6 DEF ServerStep, Receive, StartHandler, EncodeResults, WriteAnswer, FreeBuffers, clientVars
  <2>2. QED BY <2>1, Unseen
<1>7. ASSUME NEW r \in Requests, ImplReturns(r) PROVE Promise!Next \/ UNCHANGED Promise!promised
  <2>1. at' = at /\ err' = err /\ how' = how
    BY <1>7 DEF ImplReturns, clientVars
  <2>2. CASE ran' = ran
    BY <2>1, <2>2, Unseen
  <2>3. ASSUME NEW o \in Outcomes, ran' = [ran EXCEPT ![r[1]] = @ \cup {o}] PROVE Promise!Next
    <3>1. r[1] \in Calls
      BY RpcConstants
    <3>2. at[r[1]] # "idle" /\ Remote(r[1])
      BY <1>7 DEF ImplReturns, Faithful, RequestFaithful
    <3>3. Promise!Execute(r[1], o)
      BY <2>1, <2>3, <3>1, <3>2, RunIsExecute
    <3>4. QED BY <3>1, <3>3 DEF Promise!Next
  <2>4. QED BY <1>7, <2>2, <2>3 DEF ImplReturns
<1>8. CASE UNCHANGED rpcVars
  <2>1. at' = at /\ err' = err /\ how' = how /\ ran' = ran
    BY <1>8 DEF rpcVars, clientVars
  <2>2. QED BY <2>1, Unseen
<1>9. QED BY <1>1, <1>2, <1>3, <1>4, <1>5, <1>6, <1>7, <1>8 DEF Next, StubStep, ServerStep

(* Implements: a call through the stubs keeps the promise of MethodCall,   *)
(* step by step.                                                           *)
THEOREM RpcImplements == Spec => Implements
<1>1. Init => Promise!Init
  BY InitPromise
<1>2. QED
  BY InitTyped, NextTyped, InitOwned, NextOwned, InitFaithful, NextFaithful, NextPromise, <1>1, PTL
  DEF Spec, Implements, Promise!Spec
=============================================================================
