-------------------------- MODULE Deployment_proofs -------------------------
(***************************************************************************)
(* The deployer's bookkeeping and what the akasalets know agree, for any   *)
(* components, groups, references, akasalets and number of failures.       *)
(*                                                                         *)
(* A section of the deployer is a list of calls; between two of them other *)
(* akasalets run.  The invariants say what is true but for the calls that  *)
(* are left, Ops, whatever their order; when none is left the section has  *)
(* kept its promise.                                                       *)
(***************************************************************************)
EXTENDS Deployment, FiniteSetTheorems, TLAPS

OpNames == Calls \cup {"assign", "notify", "start", "append", "error"}
OpType  == [op : OpNames, to : Lets \cup {None}, comp : Comps \cup {None}]

Ops == Range(todo)

Known(c)      == GroupOf[c] # None
IsLocal(p, c) == c \notin Routed /\ GroupOf[c] = home[p]
Started(c)    == Known(c) /\ c \in started[GroupOf[c]]
Well          == Dead = {} /\ fails = 0
-----------------------------------------------------------------------------
(* Sections: nothing is left when d.mu is free, what may end a section is  *)
(* its last step, and an error drops the rest.                             *)
Final(s) == \A i \in 1..Len(s) : s[i].op \in {"start", "append", "error"} => i = Len(s)

Section ==
  /\ mu = Free => todo = <<>>
  /\ Final(todo)
  /\ \A o \in Ops : o.op = "error" => todo = Error

(* What a step that is left relies on.                                     *)
Sound(o) ==
  /\ o.op \in Calls \cup {"append"} => o.to \in Lets /\ proc[o.to] # "none"
  /\ o.op \in {"local", "routing", "assign", "notify", "start"} => o.comp \in Comps /\ Known(o.comp)
  /\ o.op = "local" => IsLocal(o.to, o.comp)
  /\ o.op = "routing" => ~IsLocal(o.to, o.comp)
  /\ o.op \in {"assign", "notify", "start"} => Started(o.comp)
  /\ o.op = "append" => o.comp = None

(* Nobody has heard of an akasalet that has not been started.              *)
Unused ==
  \A p \in Lets :
    /\ proc[p] # "none" => home[p] \in Comps
    /\ proc[p] = "none" => home[p] = None /\ subscribed[p] = {}
    /\ proc[p] = "none" => \A c \in Comps : local[p][c] = "unset" /\ act[p][c] = "none"

Listed ==
  /\ \A g \in Comps : \A c \in started[g] : GroupOf[c] = g
  /\ \A g \in Comps : \A q \in envelopes[g] : home[q] = g
  /\ \A c \in Comps : \A p \in Subscribers(c) : Known(c) /\ ~IsLocal(p, c) /\ c \in subscribed[p]

(* A request, and what its answer means.                                   *)
Asked ==
  \A p \in Lets, c \in Comps :
    /\ mu = <<p, c>> => act[p][c] \in {"subscribe", "activate"} /\ c \in subscribed[p]
    /\ mu = <<p, c>> /\ act[p][c] = "activate" => todo = Error \/ Started(c)
    /\ act[p][c] \in {"activate", "returned"} => c \in subscribed[p]
    /\ act[p][c] = "returned" => Started(c)

(* What an akasalet is told about where a component runs never changes.    *)
Told ==
  \A p \in Lets, c \in Comps :
    /\ local[p][c] = "local" => IsLocal(p, c)
    /\ local[p][c] = "remote" => ~IsLocal(p, c)

Ended == err \/ cancelled => Dead # {}

Core == TypeOK /\ Section /\ (\A o \in Ops : Sound(o)) /\ Unused /\ Listed /\ Asked /\ Told /\ Ended

(* Assignments are over the replicas, and nobody has one that was not made.*)
Assigned ==
  \A c \in Comps :
    /\ assignment[c].version = 0 =>
         assignment[c].over = {} /\ \A p \in Lets : version[p][c] = 0 /\ over[p][c] = {}
    /\ assignment[c].version > 0 => Started(c) /\ assignment[c].over = addresses[GroupOf[c]]

Current(p, c) ==
  /\ ends[p][c] = addresses[GroupOf[c]]
  /\ version[p][c] = assignment[c].version /\ over[p][c] = assignment[c].over

(* Nothing has failed: a subscriber of a started component knows what it   *)
(* has to know, or the call that tells it is left.                         *)
Routes ==
  \A c \in Comps : Started(c) =>
    \A p \in Subscribers(c) :
      \/ Current(p, c)
      \/ Op("routing", p, c) \in Ops
      \/ Op("notify", None, c) \in Ops \/ Op("assign", None, c) \in Ops

Heard ==
  \A p \in Lets, c \in Comps : Known(c) =>
    /\ c \in subscribed[p] =>
         local[p][c] # "unset" \/ Op("routing", p, c) \in Ops \/ Op("local", p, c) \in Ops
    /\ act[p][c] \in {"activate", "returned"} => local[p][c] # "unset"

(* A started component is created by the akasalets of its group.           *)
Creating(q, c) == impl[q][c] > 0 \/ \E x \in Comps \cup {None} : Op("components", q, x) \in Ops
Starting(g) ==
  \/ \E c \in Comps : GroupOf[c] = g /\ Op("start", None, c) \in Ops
  \/ \E q \in Lets : home[q] = g /\ Op("append", q, None) \in Ops

Runs ==
  /\ \A g \in Comps : \A c \in started[g] :
       /\ \A q \in envelopes[g] : Creating(q, c)
       /\ envelopes[g] # {} \/ Starting(g)
  /\ \A q \in Lets : Op("append", q, None) \in Ops => \A c \in started[home[q]] : Creating(q, c)
  /\ \A p \in Lets, c \in Comps :
       act[p][c] = "returned" => \E q \in Lets : home[q] = GroupOf[c] /\ impl[q][c] > 0

DepInv == Core /\ Assigned /\ (Well => Routes /\ Heard /\ Runs)
-----------------------------------------------------------------------------
(* Sequences of steps as sets.                                             *)
LEMMA OpMembers ==
  ASSUME NEW op \in OpNames, NEW p \in Lets \cup {None}, NEW c \in Comps \cup {None}
  PROVE  Op(op, p, c) \in OpType
BY DEF Op, OpType

LEMMA OpFields ==
  ASSUME NEW o \in OpType
  PROVE  o = Op(o.op, o.to, o.comp)
BY DEF Op, OpType

LEMMA RangeOf ==
  ASSUME NEW S, NEW s \in Seq(S)
  PROVE  Range(s) \subseteq S /\ \A x : x \in Range(s) <=> \E i \in 1..Len(s) : s[i] = x
BY DEF Range

LEMMA RangeConcat ==
  ASSUME NEW S, NEW s \in Seq(S), NEW t \in Seq(S)
  PROVE  s \o t \in Seq(S) /\ Range(s \o t) = Range(s) \cup Range(t)
<1>1. /\ s \o t \in Seq(S) /\ Len(s) \in Nat /\ Len(t) \in Nat /\ Len(s \o t) = Len(s) + Len(t)
      /\ \A i \in 1..Len(s) : (s \o t)[i] = s[i]
      /\ \A i \in 1..Len(t) : (s \o t)[Len(s) + i] = t[i]
  OBVIOUS
<1>2. \A i \in 1..Len(s \o t) : i \in 1..Len(s) \/ (i - Len(s) \in 1..Len(t) /\ i = Len(s) + (i - Len(s)))
  BY <1>1
<1>3. \A i \in 1..Len(s) : i \in 1..Len(s \o t)
  BY <1>1
<1>4. \A i \in 1..Len(t) : Len(s) + i \in 1..Len(s \o t)
  BY <1>1
<1>5. /\ \A x : x \in Range(s) <=> \E i \in 1..Len(s) : s[i] = x
      /\ \A x : x \in Range(t) <=> \E i \in 1..Len(t) : t[i] = x
  BY RangeOf
<1>6. \A x : x \in Range(s \o t) <=> \E i \in 1..Len(s \o t) : (s \o t)[i] = x
  BY <1>1, RangeOf
<1>7. ASSUME NEW i \in 1..Len(s \o t) PROVE (s \o t)[i] \in Range(s) \cup Range(t)
  <2>1. CASE i \in 1..Len(s)
    BY <1>1, <1>5, <2>1
  <2>2. CASE i - Len(s) \in 1..Len(t)
    BY <1>1, <1>2, <1>5, <2>2
  <2>3. QED BY <1>2, <2>1, <2>2
<1>8. \A x : x \in Range(s) => x \in Range(s \o t)
  BY <1>1, <1>3, <1>5, <1>6
<1>9. \A x : x \in Range(t) => x \in Range(s \o t)
  BY <1>1, <1>4, <1>5, <1>6
<1>10. QED BY <1>1, <1>6, <1>7, <1>8, <1>9

LEMMA RangeTail ==
  ASSUME NEW S, NEW s \in Seq(S), s # <<>>
  PROVE  /\ Tail(s) \in Seq(S) /\ Head(s) \in S /\ Head(s) = s[1] /\ Len(s) \in Nat /\ Len(s) >= 1
         /\ Len(Tail(s)) = Len(s) - 1 /\ \A i \in 1..Len(Tail(s)) : Tail(s)[i] = s[i + 1]
         /\ Range(s) = Range(Tail(s)) \cup {Head(s)}
<1>1. /\ Tail(s) \in Seq(S) /\ Head(s) \in S /\ Head(s) = s[1] /\ Len(s) \in Nat /\ Len(s) >= 1
      /\ Len(Tail(s)) = Len(s) - 1 /\ \A i \in 1..Len(Tail(s)) : Tail(s)[i] = s[i + 1]
  OBVIOUS
<1>2. \A i \in 1..Len(s) : i = 1 \/ (i - 1 \in 1..Len(Tail(s)) /\ i = (i - 1) + 1)
  BY <1>1
<1>3. \A i \in 1..Len(Tail(s)) : i + 1 \in 1..Len(s)
  BY <1>1
<1>4. \A x : x \in Range(s) <=> \E i \in 1..Len(s) : s[i] = x
  BY RangeOf
<1>5. \A x : x \in Range(Tail(s)) <=> \E i \in 1..Len(Tail(s)) : Tail(s)[i] = x
  BY <1>1, RangeOf
<1>6. ASSUME NEW i \in 1..Len(s) PROVE s[i] \in Range(Tail(s)) \cup {Head(s)}
  BY <1>1, <1>2, <1>5
<1>7. \A x : x \in Range(Tail(s)) => x \in Range(s)
  BY <1>1, <1>3, <1>4, <1>5
<1>8. Head(s) \in Range(s)
  BY <1>1, <1>4
<1>9. QED BY <1>1, <1>4, <1>6, <1>7, <1>8
LEMMA RangeToAll ==
  ASSUME NEW op \in OpNames, NEW ps \in Seq(Lets), NEW c \in Comps
  PROVE  /\ ToAll(op, ps, c) \in Seq(OpType) /\ Len(ToAll(op, ps, c)) = Len(ps)
         /\ \A i \in 1..Len(ps) : ToAll(op, ps, c)[i] = Op(op, ps[i], c)
         /\ \A o : o \in Range(ToAll(op, ps, c)) <=> \E p \in Range(ps) : o = Op(op, p, c)
<1> DEFINE s == ToAll(op, ps, c)
<1>1. \A i \in 1..Len(ps) : ps[i] \in Lets /\ Op(op, ps[i], c) \in OpType
  BY OpMembers
<1>2. Len(ps) \in Nat
  OBVIOUS
<1>3. s = [i \in 1..Len(ps) |-> Op(op, ps[i], c)]
  BY DEF ToAll
<1> HIDE DEF s
<1>4. s \in Seq(OpType) /\ Len(s) = Len(ps) /\ \A i \in 1..Len(ps) : s[i] = Op(op, ps[i], c)
  BY <1>1, <1>2, <1>3
<1>5. \A x : x \in Range(ps) <=> \E i \in 1..Len(ps) : ps[i] = x
  BY RangeOf
<1>6. \A x : x \in Range(s) <=> \E i \in 1..Len(s) : s[i] = x
  BY <1>4, RangeOf
<1>7. \A o : o \in Range(s) <=> \E p \in Range(ps) : o = Op(op, p, c)
  BY <1>4, <1>5, <1>6
<1>8. QED BY <1>4, <1>7 DEF s

LEMMA RangeOrders ==
  ASSUME NEW S, IsFiniteSet(S), NEW s \in Orders(S)
  PROVE  s \in Seq(S) /\ Range(s) = S
<1>1. Cardinality(S) \in Nat
  BY FS_CardinalityType
<1>2. s \in [1..Cardinality(S) -> S] /\ \A x \in S : \E i \in 1..Cardinality(S) : s[i] = x
  BY DEF Orders, Bijection, Injection, Surjection
<1>3. s \in Seq(S) /\ Len(s) = Cardinality(S)
  <2>1. PICK n \in Nat : n = Cardinality(S)
    BY <1>1
  <2>2. s \in [1..n -> S]
    BY <1>2, <2>1
  <2>3. QED BY <2>1, <2>2
<1>4. \A x : x \in Range(s) <=> \E i \in 1..Len(s) : s[i] = x
  BY <1>3, RangeOf
<1>5. QED BY <1>2, <1>3, <1>4

LEMMA FinalTail ==
  ASSUME NEW s \in Seq(OpType), s # <<>>, Final(s)
  PROVE  Final(Tail(s)) /\ (Head(s).op \in {"start", "append", "error"} => Tail(s) = <<>>)
<1> DEFINE t == Tail(s)
<1>1. /\ Head(s) = s[1] /\ Len(s) \in Nat /\ Len(s) >= 1 /\ t \in Seq(OpType)
      /\ Len(t) = Len(s) - 1 /\ \A i \in 1..Len(t) : t[i] = s[i + 1]
  OBVIOUS
<1>2. \A u \in Seq(OpType) : Len(u) = 0 => u = <<>>
  OBVIOUS
<1> HIDE DEF t
<1>3. Final(t)
  <2> SUFFICES ASSUME NEW i \in 1..Len(t), t[i].op \in {"start", "append", "error"}
               PROVE  i = Len(t)
    BY DEF Final
  <2>1. i + 1 \in 1..Len(s) /\ i \in Nat
    BY <1>1
  <2>2. s[i + 1].op \in {"start", "append", "error"}
    BY <1>1
  <2>3. i + 1 = Len(s)
    BY <2>1, <2>2 DEF Final
  <2>4. QED BY <1>1, <2>1, <2>3
<1>4. ASSUME Head(s).op \in {"start", "append", "error"} PROVE t = <<>>
  <2>1. 1 \in 1..Len(s)
    BY <1>1
  <2>2. Len(s) = 1
    BY <1>1, <1>4, <2>1 DEF Final
  <2>3. QED BY <1>1, <1>2, <2>2
<1>5. QED BY <1>3, <1>4 DEF t

LEMMA FinalConcat ==
  ASSUME NEW s \in Seq(OpType), NEW t \in Seq(OpType), Final(t),
         \A i \in 1..Len(s) : s[i].op \notin {"start", "append", "error"}
  PROVE  Final(s \o t)
<1>1. /\ Len(s) \in Nat /\ Len(t) \in Nat /\ Len(s \o t) = Len(s) + Len(t)
      /\ \A i \in 1..Len(s) : (s \o t)[i] = s[i]
      /\ \A i \in 1..Len(t) : (s \o t)[Len(s) + i] = t[i]
  OBVIOUS
<1>2. ASSUME NEW i \in 1..Len(s \o t), (s \o t)[i].op \in {"start", "append", "error"}
      PROVE  i = Len(s \o t)
  <2>1. i \notin 1..Len(s)
    BY <1>1, <1>2
  <2>2. i - Len(s) \in 1..Len(t) /\ i = Len(s) + (i - Len(s))
    BY <1>1, <2>1
  <2>3. (s \o t)[i] = t[i - Len(s)]
    BY <1>1, <2>2
  <2>4. i - Len(s) = Len(t)
    BY <1>2, <2>2, <2>3 DEF Final
  <2>5. QED BY <1>1, <2>2, <2>4
<1>3. QED BY <1>2 DEF Final
-----------------------------------------------------------------------------
(* What a step does to the steps that are left.                            *)
LEMMA OpsTyped ==
  ASSUME SectionTypes
  PROVE  todo \in Seq(OpType) /\ Ops \subseteq OpType
<1>1. todo \in Seq(OpType)
  BY DEF SectionTypes, OpType, OpNames
<1>2. QED BY <1>1, RangeOf DEF Ops

LEMMA OneOp ==
  ASSUME NEW o \in OpType, NEW s, s = <<o>>
  PROVE  s \in Seq(OpType) /\ Final(s) /\ \A x : x \in Range(s) <=> x = o
<1>1. s \in Seq(OpType) /\ Len(s) = 1 /\ s[1] = o
  OBVIOUS
<1>2. Final(s)
  BY <1>1 DEF Final
<1>3. ASSUME NEW u \in Seq(OpType), Len(u) = 1, u[1] = o, NEW x PROVE x \in Range(u) <=> x = o
  <2>1. x \in Range(u) <=> \E i \in 1..Len(u) : u[i] = x
    BY RangeOf
  <2>2. \A i \in 1..Len(u) : i = 1
    BY <1>3
  <2>3. 1 \in 1..Len(u)
    BY <1>3
  <2>4. QED BY <1>3, <2>1, <2>2, <2>3
<1>4. QED BY <1>1, <1>2, <1>3

LEMMA NoOps == Range(<<>>) = {} /\ <<>> \in Seq(OpType) /\ Final(<<>>)
<1>1. Range(<<>>) = {}
  BY DEF Range
<1>2. <<>> \in Seq(OpType) /\ Len(<<>>) = 0
  OBVIOUS
<1>3. Final(<<>>)
  BY <1>2 DEF Final
<1>4. QED BY <1>1, <1>2, <1>3

LEMMA AppendRange ==
  ASSUME NEW s \in Seq(Lets), NEW p \in Lets
  PROVE  /\ Append(s, p) \in Seq(Lets) /\ Range(Append(s, p)) = Range(s) \cup {p}
         /\ IsInjective(s) /\ p \notin Range(s) => IsInjective(Append(s, p))
<1> DEFINE t == Append(s, p)
<1>1. /\ t \in Seq(Lets) /\ Len(s) \in Nat /\ Len(t) = Len(s) + 1 /\ t[Len(s) + 1] = p
      /\ \A i \in 1..Len(s) : t[i] = s[i]
  OBVIOUS
<1>2. DOMAIN s = 1..Len(s) /\ DOMAIN t = 1..Len(t)
  BY <1>1
<1> HIDE DEF t
<1>3. \A x : x \in Range(s) <=> \E i \in 1..Len(s) : s[i] = x
  BY RangeOf
<1>4. \A x : x \in Range(t) <=> \E i \in 1..Len(t) : t[i] = x
  BY <1>1, RangeOf
<1>5. \A i \in 1..Len(t) : i \in 1..Len(s) \/ i = Len(s) + 1
  BY <1>1
<1>6. \A i \in 1..Len(s) : i \in 1..Len(t)
  BY <1>1
<1>7. Len(s) + 1 \in 1..Len(t)
  BY <1>1
<1>8. ASSUME NEW x PROVE x \in Range(t) <=> x \in Range(s) \cup {p}
  BY <1>1, <1>3, <1>4, <1>5, <1>6, <1>7
<1>9. ASSUME IsInjective(s), p \notin Range(s) PROVE IsInjective(t)
  <2> SUFFICES ASSUME NEW i \in 1..Len(t), NEW j \in 1..Len(t), t[i] = t[j] PROVE i = j
    BY <1>2 DEF IsInjective
  <2>1. CASE i \in 1..Len(s) /\ j \in 1..Len(s)
    BY <1>1, <1>2, <1>9, <2>1 DEF IsInjective
  <2>2. CASE i = Len(s) + 1 /\ j \in 1..Len(s)
    BY <1>1, <1>3, <1>9, <2>2
  <2>3. CASE j = Len(s) + 1 /\ i \in 1..Len(s)
    BY <1>1, <1>3, <1>9, <2>3
  <2>4. QED BY <1>5, <2>1, <2>2, <2>3
<1>10. QED BY <1>1, <1>8, <1>9 DEF t

LEMMA ErrorOps ==
  ASSUME todo = Error
  PROVE  /\ todo \in Seq(OpType) /\ Final(todo) /\ todo # <<>>
         /\ \A o : o \in Ops <=> o = Op("error", None, None)
<1>1. Op("error", None, None) \in OpType
  BY OpMembers DEF OpNames
<1>2. QED BY <1>1, OneOp DEF Error, Ops

LEMMA PoppedOps ==
  ASSUME SectionTypes, Final(todo), todo # <<>>
  PROVE  /\ Head(todo) \in OpType /\ Tail(todo) \in Seq(OpType) /\ Final(Tail(todo))
         /\ Head(todo) \in Ops /\ Ops = Range(Tail(todo)) \cup {Head(todo)}
         /\ Head(todo).op \in {"start", "append", "error"} => Tail(todo) = <<>> /\ Ops = {Head(todo)}
<1>1. todo \in Seq(OpType)
  BY OpsTyped
<1>2. /\ Tail(todo) \in Seq(OpType) /\ Head(todo) \in OpType
      /\ Ops = Range(Tail(todo)) \cup {Head(todo)}
  BY <1>1, RangeTail DEF Ops
<1>3. Final(Tail(todo)) /\ (Head(todo).op \in {"start", "append", "error"} => Tail(todo) = <<>>)
  BY <1>1, FinalTail
<1>4. Range(<<>>) = {}
  BY DEF Range
<1>5. QED BY <1>2, <1>3, <1>4

LEMMA TellOps ==
  ASSUME SectionTypes, Final(todo), todo # <<>>, NEW c \in Comps, subscribers[c] \in Seq(Lets),
         TellSubscribers(c)
  PROVE  /\ todo' \in Seq(OpType) /\ Final(todo')
         /\ \A o : o \in Ops' <=> \/ o \in Range(Tail(todo))
                                  \/ \E p \in Subscribers(c) : o = Op("routing", p, c)
<1> DEFINE s == ToAll("routing", subscribers[c], c)
           t == Tail(todo)
<1>1. "routing" \in OpNames /\ t \in Seq(OpType) /\ Final(t)
  BY PoppedOps DEF OpNames, Calls
<1>2. /\ s \in Seq(OpType) /\ Len(s) = Len(subscribers[c])
      /\ \A i \in 1..Len(subscribers[c]) : s[i] = Op("routing", subscribers[c][i], c)
      /\ \A o : o \in Range(s) <=> \E p \in Range(subscribers[c]) : o = Op("routing", p, c)
  BY <1>1, RangeToAll
<1>3. todo' = s \o t
  BY DEF TellSubscribers
<1> HIDE DEF s, t
<1>4. ASSUME NEW i \in 1..Len(s) PROVE s[i].op \notin {"start", "append", "error"}
  <2>1. s[i] = Op("routing", subscribers[c][i], c)
    BY <1>2
  <2>2. QED BY <2>1 DEF Op
<1>5. s \o t \in Seq(OpType) /\ Range(s \o t) = Range(s) \cup Range(t)
  BY <1>1, <1>2, RangeConcat
<1>6. Final(s \o t)
  BY <1>1, <1>2, <1>4, FinalConcat
<1>7. Ops' = Range(s) \cup Range(t)
  BY <1>3, <1>5 DEF Ops
<1>8. QED BY <1>2, <1>3, <1>5, <1>6, <1>7 DEF t, Subscribers
-----------------------------------------------------------------------------
LEMMA InitInv == Init => DepInv
<1> SUFFICES ASSUME Init PROVE DepInv
  OBVIOUS
<1> USE DeploymentAssumption DEF DeploymentAssumption
<1>0. Len(<<>>) = 0 /\ Range(<<>>) = {} /\ IsInjective(<<>>) /\ <<>> \in Seq(Lets)
  BY DEF Range, IsInjective
<1>1. TypeOK
  <2>1. BookTypes
    <3>1. started \in [Comps -> SUBSET Comps] /\ addresses \in [Comps -> SUBSET Lets]
      BY DEF Init, DepInit
    <3>2. envelopes \in [Comps -> SUBSET Lets] /\ subscribed \in [Lets -> SUBSET Comps]
      BY DEF Init, DepInit
    <3>3. assignment \in [Comps -> [version : Nat, over : SUBSET Lets]]
      BY DEF Init, DepInit, NoAssignment
    <3>4. subscribers \in [Comps -> Seq(Lets)] /\ \A c \in Comps : subscribers[c] = <<>>
      BY DEF Init, DepInit
    <3>5. QED BY <1>0, <3>1, <3>2, <3>3, <3>4 DEF BookTypes
  <2>2. SectionTypes
    BY DEF Init, DepInit, SectionTypes
  <2>3. ProcessTypes
    <3>1. fails \in 0..MaxTrouble
      BY DEF Init
    <3>2. home \in [Lets -> Comps \cup {None}] /\ proc = [p \in Lets |-> "none"]
      BY DEF Init, DepInit
    <3>3. QED BY <3>1, <3>2 DEF Init, DepInit, ProcessTypes
  <2>4. AkasaletTypes
    BY DEF Init, LetInit, PerComp, AkasaletTypes
  <2>5. QED BY <2>1, <2>2, <2>3, <2>4 DEF TypeOK
<1>2. /\ todo = <<>> /\ Len(todo) = 0 /\ Ops = {}
      /\ \A c \in Comps : Subscribers(c) = {}
  BY <1>0 DEF Init, DepInit, Ops, Subscribers
<1>3. Section /\ (\A o \in Ops : Sound(o))
  BY <1>2 DEF Section, Final
<1>4. Unused /\ Listed /\ Asked /\ Told /\ Ended
  <2>1. Unused
    BY DEF Init, DepInit, LetInit, PerComp, Unused
  <2>2. Listed
    BY <1>2 DEF Init, DepInit, Listed
  <2>3. Asked
    BY DEF Init, DepInit, LetInit, PerComp, Asked
  <2>4. Told /\ Ended
    BY DEF Init, DepInit, LetInit, PerComp, Told, Ended
  <2>5. QED BY <2>1, <2>2, <2>3, <2>4
<1>5. Assigned
  BY DEF Init, DepInit, LetInit, PerComp, Assigned, NoAssignment
<1>6. Routes /\ Heard /\ Runs
  <2>1. Routes
    BY <1>2 DEF Routes
  <2>2. Heard
    BY DEF Init, DepInit, LetInit, PerComp, Heard
  <2>3. Runs
    BY <1>2 DEF Init, DepInit, LetInit, PerComp, Runs
  <2>4. QED BY <2>1, <2>2, <2>3
<1>7. QED BY <1>1, <1>3, <1>4, <1>5, <1>6 DEF DepInv, Core
-----------------------------------------------------------------------------
(* What processes do does not touch the deployer's books, and once an      *)
(* akasalet is dead it stays so.                                           *)
LEMMA DeadStay ==
  ASSUME \A p \in Lets : proc[p] \notin {"none", "up"} => proc'[p] \notin {"none", "up"}
  PROVE  Dead \subseteq Dead'
BY DEF Dead

LEMMA EndingInv ==
  ASSUME DepInv, TypeOK', UNCHANGED <<mu, todo, groupVars, subVars, home, letVars, fails>>,
         \A p \in Lets : proc'[p] = "none" <=> proc[p] = "none",
         Dead \subseteq Dead', Ended'
  PROVE  DepInv'
<1>0. /\ Core /\ Assigned /\ (Well => Routes /\ Heard /\ Runs)
      /\ Section /\ (\A o \in Ops : Sound(o)) /\ Unused /\ Listed /\ Asked /\ Told
  BY DEF DepInv, Core
<1>1. /\ UNCHANGED <<mu, todo, started, addresses, envelopes, assignment, subscribers, subscribed, home>>
      /\ UNCHANGED <<local, ends, version, over, act, impl, fails>>
  BY DEF groupVars, subVars, letVars
<1>2. Ops' = Ops /\ \A c \in Comps : Subscribers(c)' = Subscribers(c)
  BY <1>1 DEF Ops, Subscribers
<1>3. Section'
  BY <1>0, <1>1, <1>2 DEF Section, Final
<1>4. \A o \in Ops' : Sound(o)'
  BY <1>0, <1>1, <1>2 DEF Sound, IsLocal, Started
<1>5. Unused'
  BY <1>0, <1>1 DEF Unused
<1>6. Listed'
  BY <1>0, <1>1, <1>2 DEF Listed, IsLocal
<1>7. Asked' /\ Told'
  BY <1>0, <1>1 DEF Asked, Told, IsLocal, Started
<1>8. Assigned'
  BY <1>0, <1>1 DEF Assigned, Started
<1>9. ASSUME Well' PROVE Routes' /\ Heard' /\ Runs'
  <2>1. Well
    BY <1>1, <1>9 DEF Well
  <2>2. Routes'
    BY <1>0, <1>1, <1>2, <2>1 DEF Routes, Started, Current
  <2>3. Heard'
    BY <1>0, <1>1, <1>2, <2>1 DEF Heard
  <2>4. Runs'
    BY <1>0, <1>1, <1>2, <2>1 DEF Runs, Creating, Starting
  <2>5. QED BY <2>2, <2>3, <2>4
<1>10. QED BY <1>3, <1>4, <1>5, <1>6, <1>7, <1>8, <1>9 DEF DepInv, Core
-----------------------------------------------------------------------------
(* GetImpl.                                                                *)
ImplTypes ==
  impl \in [Lets -> [Comps -> Nat]] /\ \A p \in Lets, c \in Comps : impl[p][c] <= Len(Refs[c]) + 1

LEMMA RefsTyped == ASSUME NEW c \in Comps PROVE Refs[c] \in Seq(Comps) /\ Len(Refs[c]) \in Nat
<1>1. Refs[c] \in Seq(Comps)
  BY DeploymentAssumption DEF DeploymentAssumption
<1>2. QED BY <1>1

LEMMA BeginStep ==
  ASSUME ImplTypes, NEW p \in Lets, NEW cs, impl' = Begin(p, cs)
  PROVE  /\ ImplTypes'
         /\ \A q \in Lets, c \in Comps : impl[q][c] > 0 => impl'[q][c] > 0
         /\ \A c \in Comps : c \in cs => impl'[p][c] > 0
<1>1. \A q \in Lets, c \in Comps : impl[q][c] \in Nat
  BY DEF ImplTypes
<1>2. /\ impl' \in [Lets -> [Comps -> Nat]]
      /\ \A q \in Lets : q # p => impl'[q] = impl[q]
      /\ \A c \in Comps : impl'[p][c] = IF c \in cs /\ impl[p][c] = 0 THEN 1 ELSE impl[p][c]
  BY <1>1 DEF ImplTypes, Begin
<1>3. ASSUME NEW q \in Lets, NEW c \in Comps PROVE impl'[q][c] <= Len(Refs[c]) + 1
  <2>1. impl[q][c] <= Len(Refs[c]) + 1 /\ Len(Refs[c]) \in Nat /\ impl[q][c] \in Nat
    BY <1>1, RefsTyped DEF ImplTypes
  <2>2. impl'[q][c] = 1 \/ impl'[q][c] = impl[q][c]
    BY <1>2
  <2>3. QED BY <2>1, <2>2
<1>4. ASSUME NEW q \in Lets, NEW c \in Comps, impl[q][c] > 0 PROVE impl'[q][c] > 0
  BY <1>1, <1>2, <1>4
<1>5. ASSUME NEW c \in Comps, c \in cs PROVE impl'[p][c] > 0
  BY <1>1, <1>2, <1>5
<1>6. QED BY <1>2, <1>3, <1>4, <1>5 DEF ImplTypes

LEMMA ImplInv ==
  ASSUME DepInv, ImplTypes', UNCHANGED <<depVars, fails, local, ends, version, over, act>>,
         \A q \in Lets, c \in Comps : impl[q][c] > 0 => impl'[q][c] > 0
  PROVE  DepInv'
<1>0. /\ TypeOK /\ Assigned /\ (Well => Routes /\ Heard /\ Runs)
      /\ Section /\ (\A o \in Ops : Sound(o)) /\ Unused /\ Listed /\ Asked /\ Told /\ Ended
  BY DEF DepInv, Core
<1>1. /\ UNCHANGED <<mu, todo, started, addresses, envelopes, assignment, subscribers, subscribed>>
      /\ UNCHANGED <<home, proc, err, cancelled, watcher, main>>
      /\ UNCHANGED <<local, ends, version, over, act, fails>>
  BY DEF depVars, groupVars, subVars, procVars, stopVars
<1>2. Ops' = Ops /\ Dead' = Dead /\ \A c \in Comps : Subscribers(c)' = Subscribers(c)
  BY <1>1 DEF Ops, Dead, Subscribers
<1>3. TypeOK'
  <2>1. BookTypes' /\ SectionTypes' /\ ProcessTypes'
    BY <1>0, <1>1 DEF TypeOK, BookTypes, SectionTypes, ProcessTypes
  <2>2. AkasaletTypes'
    BY <1>0, <1>1 DEF TypeOK, AkasaletTypes, ImplTypes
  <2>3. QED BY <2>1, <2>2 DEF TypeOK
<1>4. Section' /\ \A o \in Ops' : Sound(o)'
  BY <1>0, <1>1, <1>2 DEF Section, Final, Sound, IsLocal, Started
<1>5. Unused' /\ Ended'
  BY <1>0, <1>1, <1>2 DEF Unused, Ended
<1>6. Listed'
  BY <1>0, <1>1, <1>2 DEF Listed, IsLocal
<1>7. Asked' /\ Told'
  BY <1>0, <1>1 DEF Asked, Told, IsLocal, Started
<1>8. Assigned'
  BY <1>0, <1>1 DEF Assigned, Started
<1>9. ASSUME Well' PROVE Routes' /\ Heard' /\ Runs'
  <2>1. Well
    BY <1>1, <1>2, <1>9 DEF Well
  <2>2. Routes'
    BY <1>0, <1>1, <1>2, <2>1 DEF Routes, Started, Current
  <2>3. Heard'
    BY <1>0, <1>1, <1>2, <2>1 DEF Heard
  <2>4. Runs'
    <3>1. \A q \in Lets, c \in Comps : Creating(q, c) => Creating(q, c)'
      BY <1>2 DEF Creating
    <3>2. \A g \in Comps : Starting(g)' = Starting(g)
      BY <1>1, <1>2 DEF Starting
    <3>3. /\ \A g \in Comps : envelopes[g] \subseteq Lets /\ started[g] \subseteq Comps
          /\ home \in [Lets -> Comps \cup {None}]
      BY <1>0 DEF TypeOK, BookTypes, ProcessTypes
    <3>4. \A g \in Comps : \A c \in started'[g] :
            (\A q \in envelopes'[g] : Creating(q, c)') /\ (envelopes'[g] # {} \/ Starting(g)')
      BY <1>0, <1>1, <2>1, <3>1, <3>2, <3>3 DEF Runs
    <3>5. \A q \in Lets : Op("append", q, None) \in Ops => \A c \in started[home[q]] : Creating(q, c)'
      <4> SUFFICES ASSUME NEW q \in Lets, Op("append", q, None) \in Ops, NEW c \in started[home[q]]
                   PROVE  Creating(q, c)'
        OBVIOUS
      <4>1. home[q] \in Comps
        <5>1. proc[q] # "none"
          BY <1>0 DEF Sound, Op
        <5>2. QED BY <1>0, <5>1 DEF Unused
      <4>2. QED BY <1>0, <2>1, <3>1, <3>3, <4>1 DEF Runs
    <3>6. \A q \in Lets, c \in Comps :
            act'[q][c] = "returned" => \E s \in Lets : home'[s] = GroupOf[c] /\ impl'[s][c] > 0
      BY <1>0, <1>1, <2>1 DEF Runs
    <3>7. QED BY <1>1, <1>2, <3>4, <3>5, <3>6 DEF Runs
  <2>5. QED BY <2>2, <2>3, <2>4
<1>10. QED BY <1>3, <1>4, <1>5, <1>6, <1>7, <1>8, <1>9 DEF DepInv, Core
(* getIntf asks the deployer, for the first time or again.                 *)
LEMMA AskInv ==
  ASSUME DepInv, NEW p \in Lets, NEW r \in Comps, act[p][r] \in {"none", "failed"}, proc[p] # "none",
         act' = [act EXCEPT ![p][r] = "subscribe"],
         UNCHANGED <<depVars, fails, local, ends, version, over, impl>>
  PROVE  DepInv'
<1>0. /\ TypeOK /\ Assigned /\ (Well => Routes /\ Heard /\ Runs)
      /\ Section /\ (\A o \in Ops : Sound(o)) /\ Unused /\ Listed /\ Asked /\ Told /\ Ended
  BY DEF DepInv, Core
<1>1. /\ UNCHANGED <<mu, todo, started, addresses, envelopes, assignment, subscribers, subscribed>>
      /\ UNCHANGED <<home, proc, err, cancelled, watcher, main>>
      /\ UNCHANGED <<local, ends, version, over, impl, fails>>
  BY DEF depVars, groupVars, subVars, procVars, stopVars
<1>2. Ops' = Ops /\ Dead' = Dead /\ \A c \in Comps : Subscribers(c)' = Subscribers(c)
  BY <1>1 DEF Ops, Dead, Subscribers
<1>a. act \in [Lets -> [Comps -> {"none", "subscribe", "activate", "returned", "failed"}]]
  BY <1>0 DEF TypeOK, AkasaletTypes
<1>b. /\ act' \in [Lets -> [Comps -> {"none", "subscribe", "activate", "returned", "failed"}]]
      /\ act'[p][r] = "subscribe"
      /\ \A q \in Lets, c \in Comps : <<q, c>> # <<p, r>> => act'[q][c] = act[q][c]
  BY <1>a
<1>3. TypeOK'
  <2>1. BookTypes' /\ SectionTypes' /\ ProcessTypes'
    BY <1>0, <1>1 DEF TypeOK, BookTypes, SectionTypes, ProcessTypes
  <2>2. AkasaletTypes'
    BY <1>0, <1>1, <1>b DEF TypeOK, AkasaletTypes
  <2>3. QED BY <2>1, <2>2 DEF TypeOK
<1>4. Section' /\ \A o \in Ops' : Sound(o)'
  BY <1>0, <1>1, <1>2 DEF Section, Final, Sound, IsLocal, Started
<1>5. Unused'
  <2>1. \A q \in Lets : proc[q] = "none" => q # p
    OBVIOUS
  <2>2. \A q \in Lets : proc[q] = "none" => \A c \in Comps : act'[q][c] = "none"
    BY <1>0, <1>b, <2>1 DEF Unused
  <2>3. QED BY <1>0, <1>1, <2>2 DEF Unused
<1>6. Listed' /\ Ended'
  BY <1>0, <1>1, <1>2 DEF Listed, IsLocal, Ended
<1>7. Asked' /\ Told'
  <2>1. Told'
    BY <1>0, <1>1 DEF Told, IsLocal
  <2>2. Asked'
    <3> SUFFICES ASSUME NEW q \in Lets, NEW c \in Comps
                 PROVE  /\ mu' = <<q, c>> => act'[q][c] \in {"subscribe", "activate"} /\ c \in subscribed'[q]
                        /\ mu' = <<q, c>> /\ act'[q][c] = "activate" => todo' = Error' \/ Started(c)'
                        /\ act'[q][c] \in {"activate", "returned"} => c \in subscribed'[q]
                        /\ act'[q][c] = "returned" => Started(c)'
      BY DEF Asked
    <3>1. Started(c)' = Started(c) /\ Error' = Error
      BY <1>1 DEF Started, Error
    <3>2. mu # <<p, r>>
      BY <1>0 DEF Asked
    <3>3. CASE <<q, c>> = <<p, r>>
      BY <1>1, <1>b, <3>2, <3>3
    <3>4. CASE <<q, c>> # <<p, r>>
      BY <1>0, <1>1, <1>b, <3>1, <3>4 DEF Asked
    <3>5. QED BY <3>3, <3>4
  <2>3. QED BY <2>1, <2>2
<1>8. Assigned'
  BY <1>0, <1>1 DEF Assigned, Started
<1>9. ASSUME Well' PROVE Routes' /\ Heard' /\ Runs'
  <2>1. Well
    BY <1>1, <1>2, <1>9 DEF Well
  <2>2. Routes'
    BY <1>0, <1>1, <1>2, <2>1 DEF Routes, Started, Current
  <2>3. \A q \in Lets, c \in Comps :
          /\ act'[q][c] \in {"activate", "returned"} => act[q][c] \in {"activate", "returned"}
          /\ act'[q][c] = "returned" => act[q][c] = "returned"
    BY <1>b
  <2>4. Heard'
    BY <1>0, <1>1, <1>2, <2>1, <2>3 DEF Heard
  <2>5. Runs'
    BY <1>0, <1>1, <1>2, <2>1, <2>3 DEF Runs, Creating, Starting
  <2>6. QED BY <2>2, <2>4, <2>5
<1>10. QED BY <1>3, <1>4, <1>5, <1>6, <1>7, <1>8, <1>9 DEF DepInv, Core

(* Every step of an akasalet, and a call between two of them.              *)
LEMMA LetInv ==
  ASSUME DepInv, NEW p \in Lets, NEW c \in Comps, LetStep(p, c) \/ \E q \in Lets : RemoteCall(q, p, c)
  PROVE  DepInv'
<1>0. ImplTypes /\ Unused /\ proc[p] = "up"
  BY DEF DepInv, Core, TypeOK, AkasaletTypes, ImplTypes, LetStep, RemoteCall, Live
<1>1. UNCHANGED <<depVars, fails>>
  BY DEF LetStep, RemoteCall
<1>2. ASSUME Filling(p, c) PROVE Ref(p, c) \in Comps /\ impl[p][c] + 1 <= Len(Refs[c]) + 1
  <2>1. impl[p][c] \in 1..Len(Refs[c])
    BY <1>2 DEF Filling
  <2>2. QED BY <2>1, RefsTyped DEF Ref
<1>3. CASE Activate(p, c)
  <2>1. /\ Filling(p, c) /\ act[p][Ref(p, c)] = "none"
        /\ act' = [act EXCEPT ![p][Ref(p, c)] = "subscribe"]
        /\ UNCHANGED <<local, ends, version, over, impl>>
    BY <1>3 DEF Activate
  <2>2. PICK r \in Comps : r = Ref(p, c)
    BY <1>2, <2>1
  <2>3. QED BY <1>0, <1>1, <2>1, <2>2, AskInv
<1>4. CASE Retry(p, c)
  BY <1>0, <1>1, <1>4, AskInv DEF Retry
<1>5. ASSUME NEW r \in Comps, impl' = Begin(p, {r}), UNCHANGED <<local, ends, version, over, act>>
      PROVE  DepInv'
  BY <1>0, <1>1, <1>5, BeginStep, ImplInv
<1>6. CASE CreateLocal(p, c)
  BY <1>2, <1>5, <1>6 DEF CreateLocal
<1>7. ASSUME NEW q \in Lets, RemoteCall(q, p, c) PROVE DepInv'
  BY <1>5, <1>7 DEF RemoteCall, Serve
<1>8. CASE FillRef(p, c)
  <2>1. /\ Filling(p, c) /\ impl' = [impl EXCEPT ![p][c] = @ + 1]
        /\ UNCHANGED <<local, ends, version, over, act>>
    BY <1>8 DEF FillRef
  <2>2. impl[p][c] \in Nat /\ impl[p][c] + 1 <= Len(Refs[c]) + 1
    BY <1>0, <1>2, <2>1 DEF ImplTypes
  <2>3. /\ impl' \in [Lets -> [Comps -> Nat]] /\ impl'[p][c] = impl[p][c] + 1
        /\ \A q \in Lets, d \in Comps : <<q, d>> # <<p, c>> => impl'[q][d] = impl[q][d]
    BY <1>0, <2>1, <2>2 DEF ImplTypes
  <2>4. ASSUME NEW q \in Lets, NEW d \in Comps
        PROVE  impl'[q][d] <= Len(Refs[d]) + 1 /\ (impl[q][d] > 0 => impl'[q][d] > 0)
    BY <1>0, <2>2, <2>3 DEF ImplTypes
  <2>5. ImplTypes'
    BY <2>3, <2>4 DEF ImplTypes
  <2>6. QED BY <1>1, <2>1, <2>4, <2>5, ImplInv
<1>9. QED BY <1>3, <1>4, <1>6, <1>7, <1>8 DEF LetStep
(* A process ends, stop and wait.                                          *)
LEMMA StopInv ==
  ASSUME DepInv, Ending \/ \E p \in Lets : Die(p) \/ Kill(p)
  PROVE  DepInv'
<1>0. /\ BookTypes /\ SectionTypes /\ ProcessTypes /\ AkasaletTypes /\ Ended
      /\ proc \in [Lets -> {"none", "up", "down", "cancel", "done"}]
  BY DEF DepInv, Core, TypeOK, ProcessTypes
<1>1. /\ UNCHANGED <<mu, todo, groupVars, subVars, home, letVars, fails>>
  BY DEF Ending, Watch, Wait, Stop, Cancel, Die, Kill, ProcessEnds, procVars
<1>2. BookTypes' /\ SectionTypes' /\ AkasaletTypes'
  BY <1>0, <1>1 DEF groupVars, subVars, letVars, BookTypes, SectionTypes, AkasaletTypes
<1>3. ASSUME proc' \in [Lets -> {"none", "up", "down", "cancel", "done"}],
             \A p \in Lets : proc'[p] = "none" <=> proc[p] = "none",
             \A p \in Lets : proc[p] \notin {"none", "up"} => proc'[p] \notin {"none", "up"},
             err' \in BOOLEAN, cancelled' \in BOOLEAN, watcher' \in {"waiting", "done"},
             main' \in {"root", "wait", "failed", "returned"}, err' \/ cancelled' => Dead' # {}
      PROVE  DepInv'
  <2>1. ProcessTypes'
    BY <1>0, <1>1, <1>3 DEF ProcessTypes
  <2>2. TypeOK'
    BY <1>2, <2>1 DEF TypeOK
  <2>3. Dead \subseteq Dead' /\ Ended'
    BY <1>3, DeadStay DEF Ended
  <2>4. QED BY <1>1, <1>3, <2>2, <2>3, EndingInv
<1>4. ASSUME NEW p \in Lets, ProcessEnds(p) PROVE DepInv'
  <2>1. /\ proc[p] = "up" /\ proc' = [proc EXCEPT ![p] = "down"]
        /\ UNCHANGED <<err, cancelled, watcher, main>>
    BY <1>4 DEF ProcessEnds, stopVars
  <2>2. p \in Dead'
    BY <1>0, <2>1 DEF Dead
  <2>3. QED BY <1>0, <1>3, <2>1, <2>2 DEF ProcessTypes
<1>5. ASSUME NEW p \in Lets, Stop(p) PROVE DepInv'
  <2>1. /\ proc[p] = "down" /\ proc' = [proc EXCEPT ![p] = "cancel"] /\ err' = TRUE
        /\ UNCHANGED <<cancelled, watcher, main>>
    BY <1>5 DEF Stop
  <2>2. p \in Dead'
    BY <1>0, <2>1 DEF Dead
  <2>3. QED BY <1>0, <1>3, <2>1, <2>2 DEF ProcessTypes
<1>6. ASSUME NEW p \in Lets, Cancel(p) PROVE DepInv'
  <2>1. /\ proc[p] = "cancel" /\ proc' = [proc EXCEPT ![p] = "done"] /\ cancelled' = TRUE
        /\ UNCHANGED <<err, watcher, main>>
    BY <1>6 DEF Cancel
  <2>2. p \in Dead'
    BY <1>0, <2>1 DEF Dead
  <2>3. QED BY <1>0, <1>3, <2>1, <2>2 DEF ProcessTypes
<1>7. CASE Watch
  <2>1. /\ cancelled /\ err' = TRUE /\ watcher' = "done" /\ UNCHANGED <<cancelled, main, proc>>
    BY <1>7 DEF Watch, procVars
  <2>2. Dead' # {}
    BY <1>0, <2>1 DEF Ended, Dead
  <2>3. QED BY <1>0, <1>3, <2>1, <2>2 DEF ProcessTypes
<1>8. CASE Wait
  <2>1. main' = "returned" /\ UNCHANGED <<err, cancelled, watcher, proc>>
    BY <1>8 DEF Wait, procVars
  <2>2. err' \/ cancelled' => Dead' # {}
    BY <1>0, <2>1 DEF Ended, Dead
  <2>3. QED BY <1>0, <1>3, <2>1, <2>2 DEF ProcessTypes
<1>9. QED BY <1>4, <1>5, <1>6, <1>7, <1>8 DEF Ending, Die, Kill
-----------------------------------------------------------------------------
(* Sections begin.                                                         *)
LEMMA Between ==
  ASSUME DepInv, mu = Free
  PROVE  /\ todo = <<>> /\ Ops = {}
         /\ Well =>
              /\ \A c \in Comps : Started(c) => \A p \in Subscribers(c) : Current(p, c)
              /\ \A p \in Lets, c \in Comps : Known(c) /\ c \in subscribed[p] => local[p][c] # "unset"
              /\ \A g \in Comps : \A c \in started[g] :
                   envelopes[g] # {} /\ \A q \in envelopes[g] : impl[q][c] > 0
<1>1. todo = <<>>
  BY DEF DepInv, Core, Section
<1>2. Ops = {}
  BY <1>1, NoOps DEF Ops
<1>3. ASSUME Well PROVE Routes /\ Heard /\ Runs
  BY <1>3 DEF DepInv
<1>4. Well => \A c \in Comps : Started(c) => \A p \in Subscribers(c) : Current(p, c)
  BY <1>2, <1>3 DEF Routes
<1>5. Well => \A p \in Lets, c \in Comps : Known(c) /\ c \in subscribed[p] => local[p][c] # "unset"
  BY <1>2, <1>3 DEF Heard
<1>6. Well => \A g \in Comps : \A c \in started[g] :
        envelopes[g] # {} /\ \A q \in envelopes[g] : impl[q][c] > 0
  BY <1>2, <1>3 DEF Runs, Starting, Creating
<1>7. QED BY <1>1, <1>2, <1>4, <1>5, <1>6

LEMMA SubscribeInv ==
  ASSUME DepInv, NEW p \in Lets, NEW c \in Comps, Subscribe(p, c)
  PROVE  DepInv'
<1>0. /\ TypeOK /\ Assigned /\ (Well => Routes /\ Heard /\ Runs)
      /\ Section /\ (\A o \in Ops : Sound(o)) /\ Unused /\ Listed /\ Asked /\ Told /\ Ended
  BY DEF DepInv, Core
<1>1. /\ act[p][c] = "subscribe" /\ mu = Free /\ mu' = <<p, c>>
      /\ subscribed' = [subscribed EXCEPT ![p] = @ \cup {c}]
      /\ UNCHANGED <<started, addresses, envelopes, assignment, home, proc, err, cancelled, watcher, main>>
      /\ UNCHANGED <<local, ends, version, over, act, impl, fails>>
  BY DEF Subscribe, SubscribedTo, Hold, CanLock, groupVars, procVars, stopVars, letVars
<1>2. /\ subscribed \in [Lets -> SUBSET Comps] /\ subscribers \in [Comps -> Seq(Lets)]
      /\ home \in [Lets -> Comps \cup {None}] /\ proc[p] # "none" /\ home[p] \in Comps
  <2>1. proc[p] # "none"
    BY <1>0, <1>1 DEF Unused
  <2>2. QED BY <1>0, <2>1 DEF TypeOK, BookTypes, ProcessTypes, Unused
<1>3. todo = <<>> /\ Ops = {}
  <2>1. todo = <<>>
    BY <1>0, <1>1 DEF Section
  <2>2. QED BY <2>1 DEF Ops, Range
<1>4. /\ subscribed' \in [Lets -> SUBSET Comps] /\ subscribed'[p] = subscribed[p] \cup {c}
      /\ \A q \in Lets : q # p => subscribed'[q] = subscribed[q]
  BY <1>1, <1>2
<1>5. /\ subscribers' \in [Comps -> Seq(Lets)] /\ \A d \in Comps : d # c => subscribers'[d] = subscribers[d]
      /\ \/ c \in subscribed[p] /\ todo' = <<>> /\ subscribers' = subscribers
         \/ c \notin subscribed[p] /\ ~Known(c) /\ todo' = Error /\ subscribers' = subscribers
         \/ /\ c \notin subscribed[p] /\ Known(c) /\ IsLocal(p, c)
            /\ todo' = <<Op("local", p, c)>> /\ subscribers' = subscribers
         \/ /\ c \notin subscribed[p] /\ Known(c) /\ ~IsLocal(p, c)
            /\ todo' = <<Op("routing", p, c)>> /\ subscribers'[c] = Append(subscribers[c], p)
  BY <1>1, <1>2 DEF Subscribe, SubscribedTo, Hold, Known, IsLocal
<1>6. /\ BookTypes' /\ \A d \in Comps : d # c => Subscribers(d)' = Subscribers(d)
      /\ Subscribers(c) \subseteq Subscribers(c)'
      /\ \A q \in Subscribers(c)' : q \in Subscribers(c)
           \/ (q = p /\ Known(c) /\ ~IsLocal(p, c) /\ c \notin subscribed[p])
  <2>1. \A d \in Comps : d # c => Subscribers(d)' = Subscribers(d)
    BY <1>5 DEF Subscribers
  <2>2. \A d \in Comps : IsInjective(subscribers[d])
    BY <1>0 DEF TypeOK, BookTypes
  <2>3. ASSUME subscribers'[c] = Append(subscribers[c], p), c \notin subscribed[p]
        PROVE  Subscribers(c)' = Subscribers(c) \cup {p} /\ IsInjective(subscribers'[c])
    <3>1. p \notin Subscribers(c)
      BY <1>0, <2>3 DEF Listed
    <3>2. QED BY <1>2, <2>2, <2>3, <3>1, AppendRange DEF Subscribers
  <2>4. \A d \in Comps : IsInjective(subscribers'[d])
    BY <1>5, <2>2, <2>3
  <2>5. BookTypes'
    BY <1>0, <1>1, <1>4, <1>5, <2>4 DEF TypeOK, BookTypes
  <2>6. /\ Subscribers(c) \subseteq Subscribers(c)'
        /\ \A q \in Subscribers(c)' : q \in Subscribers(c)
             \/ (q = p /\ Known(c) /\ ~IsLocal(p, c) /\ c \notin subscribed[p])
    BY <1>5, <2>3 DEF Subscribers
  <2>7. QED BY <2>1, <2>5, <2>6
<1>7. /\ todo' \in Seq(OpType) /\ Final(todo')
      /\ c \notin subscribed[p] /\ Known(c) =>
           IF IsLocal(p, c) THEN Op("local", p, c) \in Ops' ELSE Op("routing", p, c) \in Ops'
      /\ \A o \in Ops' :
           \/ todo' = Error /\ o = Op("error", None, None)
           \/ Known(c) /\ IsLocal(p, c) /\ o = Op("local", p, c)
           \/ Known(c) /\ ~IsLocal(p, c) /\ o = Op("routing", p, c)
  <2>1. /\ Op("local", p, c) \in OpType /\ Op("routing", p, c) \in OpType
        /\ Op("error", None, None) \in OpType
    BY OpMembers DEF OpNames, Calls
  <2>2. CASE c \in subscribed[p] /\ todo' = <<>>
    BY <2>2, NoOps DEF Ops
  <2>3. CASE ~Known(c) /\ todo' = Error
    BY <2>1, <2>3, OneOp DEF Ops, Error
  <2>4. CASE Known(c) /\ IsLocal(p, c) /\ todo' = <<Op("local", p, c)>>
    BY <2>1, <2>4, OneOp DEF Ops
  <2>5. CASE Known(c) /\ ~IsLocal(p, c) /\ todo' = <<Op("routing", p, c)>>
    BY <2>1, <2>5, OneOp DEF Ops
  <2>6. QED BY <1>5, <2>2, <2>3, <2>4, <2>5
<1>8. /\ SectionTypes' /\ Section'
  <2>1. mu' \in Lets \X Comps /\ Free \notin Lets \X Comps
    BY <1>1, DeploymentAssumption DEF DeploymentAssumption
  <2>2. SectionTypes'
    BY <1>7, <2>1 DEF SectionTypes, OpType, OpNames
  <2>3. \A o \in Ops' : o.op = "error" => todo' = Error'
    BY <1>7 DEF Op, Error
  <2>4. QED BY <1>1, <1>7, <2>1, <2>2, <2>3 DEF Section
<1>9. \A o \in Ops' : Sound(o)'
  <2> SUFFICES ASSUME NEW o \in Ops' PROVE Sound(o)'
    OBVIOUS
  <2>1. IsLocal(p, c)' = IsLocal(p, c) /\ home' = home /\ proc' = proc
    BY <1>1 DEF IsLocal
  <2>2. CASE o = Op("error", None, None)
    BY <2>2 DEF Sound, Op, Calls
  <2>3. CASE Known(c) /\ IsLocal(p, c) /\ o = Op("local", p, c)
    BY <1>2, <2>1, <2>3 DEF Sound, Op, Calls
  <2>4. CASE Known(c) /\ ~IsLocal(p, c) /\ o = Op("routing", p, c)
    BY <1>2, <2>1, <2>4 DEF Sound, Op, Calls
  <2>5. QED BY <1>7, <2>2, <2>3, <2>4
<1>10. TypeOK' /\ Ended'
  <2>1. ProcessTypes' /\ AkasaletTypes'
    BY <1>0, <1>1 DEF TypeOK, ProcessTypes, AkasaletTypes
  <2>2. Dead' = Dead
    BY <1>1 DEF Dead
  <2>3. QED BY <1>0, <1>1, <1>6, <1>8, <2>1, <2>2 DEF TypeOK, Ended
<1>11. Unused'
  <2>1. \A q \in Lets : proc[q] = "none" => subscribed'[q] = subscribed[q]
    BY <1>2, <1>4
  <2>2. QED BY <1>0, <1>1, <2>1 DEF Unused
<1>12. \A q \in Lets, d \in Comps : d \in subscribed[q] => d \in subscribed'[q]
  BY <1>4
<1>13. Listed'
  <2>1. ASSUME NEW d \in Comps, NEW q \in Subscribers(d)'
        PROVE  Known(d) /\ ~IsLocal(q, d) /\ d \in subscribed'[q] /\ q \in Lets
    <3>1. q \in Lets
      BY <1>5, <2>1, RangeOf DEF Subscribers
    <3>2. CASE q \in Subscribers(d)
      BY <1>0, <1>12, <3>1, <3>2 DEF Listed
    <3>3. CASE d = c /\ q = p /\ Known(c) /\ ~IsLocal(p, c)
      BY <1>4, <3>3
    <3>4. QED BY <1>6, <3>2, <3>3
  <2>2. \A q \in Lets, d \in Comps : IsLocal(q, d)' = IsLocal(q, d)
    BY <1>1 DEF IsLocal
  <2>3. QED BY <1>0, <1>1, <2>1, <2>2 DEF Listed
<1>14. Asked' /\ Told'
  <2>1. Told'
    BY <1>0, <1>1 DEF Told, IsLocal
  <2>2. ASSUME NEW q \in Lets, NEW d \in Comps, mu' = <<q, d>>
        PROVE  q = p /\ d = c
    BY <1>1, <2>2
  <2>3. \A d \in Comps : Started(d)' = Started(d)
    BY <1>1 DEF Started
  <2>4. Asked'
    BY <1>0, <1>1, <1>4, <1>12, <2>2, <2>3 DEF Asked
  <2>5. QED BY <2>1, <2>4
<1>15. Assigned'
  BY <1>0, <1>1 DEF Assigned, Started
<1>16. ASSUME Well' PROVE Routes' /\ Heard' /\ Runs'
  <2>1. Well
    BY <1>1, <1>16 DEF Well, Dead
  <2>2. /\ \A d \in Comps : Started(d) => \A q \in Subscribers(d) : Current(q, d)
        /\ \A q \in Lets, d \in Comps : Known(d) /\ d \in subscribed[q] => local[q][d] # "unset"
        /\ \A g \in Comps : \A d \in started[g] :
             envelopes[g] # {} /\ \A q \in envelopes[g] : impl[q][d] > 0
    BY <1>1, <2>1, Between
  <2>3. Routes'
    <3> SUFFICES ASSUME NEW d \in Comps, Started(d)', NEW q \in Subscribers(d)'
                 PROVE  Current(q, d)' \/ Op("routing", q, d) \in Ops'
      BY DEF Routes
    <3>1. Started(d) /\ (Current(q, d)' <=> Current(q, d))
      BY <1>1 DEF Started, Current
    <3>2. CASE q \in Subscribers(d)
      BY <2>2, <3>1, <3>2
    <3>3. CASE d = c /\ q = p /\ Known(c) /\ ~IsLocal(p, c) /\ c \notin subscribed[p]
      BY <1>7, <3>3
    <3>4. QED BY <1>6, <3>2, <3>3
  <2>4. Heard'
    <3>1. ASSUME NEW q \in Lets, NEW d \in Comps, Known(d), d \in subscribed'[q]
          PROVE  local[q][d] # "unset" \/ Op("routing", q, d) \in Ops' \/ Op("local", q, d) \in Ops'
      <4>1. CASE d \in subscribed[q]
        BY <2>2, <3>1, <4>1
      <4>2. CASE d \notin subscribed[q]
        <5>1. q = p /\ d = c
          BY <1>4, <3>1, <4>2
        <5>2. QED BY <1>7, <3>1, <4>2, <5>1
      <4>3. QED BY <4>1, <4>2
    <3>2. QED BY <1>0, <1>1, <2>1, <3>1 DEF Heard
  <2>5. Runs'
    <3>1. \A g \in Comps : started[g] \subseteq Comps /\ envelopes[g] \subseteq Lets
      BY <1>0 DEF TypeOK, BookTypes
    <3>2. \A q \in Lets : Op("append", q, None) \notin Ops'
      BY <1>7 DEF Op
    <3>3. QED BY <1>0, <1>1, <2>1, <2>2, <3>1, <3>2 DEF Runs, Creating
  <2>6. QED BY <2>3, <2>4, <2>5
<1>17. QED BY <1>8, <1>9, <1>10, <1>11, <1>13, <1>14, <1>15, <1>16 DEF DepInv, Core
LEMMA FirstOps ==
  ASSUME NEW S \in SUBSET Lets, NEW es \in Orders(S), NEW c \in Comps
  PROVE  /\ FirstStart(es, c) \in Seq(OpType) /\ Final(FirstStart(es, c))
         /\ \A o : o \in Range(FirstStart(es, c)) <=>
              \/ \E q \in S : o = Op("components", q, c)
              \/ o = Op("assign", None, c) \/ o = Op("start", None, c)
<1> DEFINE s == ToAll("components", es, c)
           t == <<Op("assign", None, c), Op("start", None, c)>>
<1>1. es \in Seq(Lets) /\ Range(es) = S
  <2>1. IsFiniteSet(S)
    BY DeploymentAssumption, FS_Subset DEF DeploymentAssumption
  <2>2. es \in Seq(S) /\ Range(es) = S
    BY <2>1, RangeOrders
  <2>3. QED BY <2>2
<1>2. /\ s \in Seq(OpType) /\ Len(s) = Len(es)
      /\ \A i \in 1..Len(es) : s[i] = Op("components", es[i], c)
      /\ \A o : o \in Range(s) <=> \E q \in S : o = Op("components", q, c)
  BY <1>1, RangeToAll DEF OpNames, Calls
<1>3. t \in Seq(OpType) /\ Len(t) = 2 /\ t[1] = Op("assign", None, c) /\ t[2] = Op("start", None, c)
  <2>1. Op("start", None, c) \in OpType /\ Op("assign", None, c) \in OpType
    BY OpMembers DEF OpNames
  <2>2. QED BY <2>1
<1>4. FirstStart(es, c) = s \o t
  BY DEF FirstStart
<1> HIDE DEF s, t
<1>5. Final(t)
  <2>1. t[1].op = "assign"
    BY <1>3 DEF Op
  <2>2. \A i \in 1..2 : i = 1 \/ i = 2
    OBVIOUS
  <2>3. QED BY <1>3, <2>1, <2>2 DEF Final
<1>6. \A o : o \in Range(t) <=> o = Op("assign", None, c) \/ o = Op("start", None, c)
  <2>1. \A x : x \in Range(t) <=> \E i \in 1..Len(t) : t[i] = x
    BY <1>3, RangeOf
  <2>2. \A i : i \in 1..2 <=> i = 1 \/ i = 2
    OBVIOUS
  <2>3. QED BY <1>3, <2>1, <2>2
<1>7. /\ s \o t \in Seq(OpType) /\ Final(s \o t)
      /\ Range(s \o t) = Range(s) \cup Range(t)
  <2>1. ASSUME NEW i \in 1..Len(s) PROVE s[i].op \notin {"start", "append", "error"}
    <3>1. i \in 1..Len(es) /\ s[i] = Op("components", es[i], c)
      BY <1>2, <2>1
    <3>2. QED BY <3>1 DEF Op
  <2>2. Final(s \o t)
    BY <1>2, <1>3, <1>5, <2>1, FinalConcat
  <2>3. QED BY <1>2, <1>3, <2>2, RangeConcat
<1>8. QED BY <1>2, <1>4, <1>6, <1>7

LEMMA ActiveInv ==
  ASSUME DepInv, NEW h, NEW c \in Comps, ActiveComponent(h, c), UNCHANGED <<letVars, fails>>,
         h = RootRequest \/ \E p \in Lets : h = <<p, c>> /\ act[p][c] = "activate"
  PROVE  DepInv'
<1> DEFINE g == GroupOf[c]
<1>0. /\ TypeOK /\ Assigned /\ (Well => Routes /\ Heard /\ Runs)
      /\ Section /\ (\A o \in Ops : Sound(o)) /\ Unused /\ Listed /\ Asked /\ Told /\ Ended
  BY DEF DepInv, Core
<1>1. /\ mu = Free /\ mu' = h
      /\ UNCHANGED <<addresses, envelopes, assignment, subscribers, subscribed, home, proc>>
      /\ UNCHANGED <<err, cancelled, watcher, main, local, ends, version, over, act, impl, fails>>
  BY DEF ActiveComponent, Hold, CanLock, subVars, procVars, stopVars, letVars
<1>2. /\ \/ ~Known(c) /\ todo' = Error
         \/ Known(c) /\ c \in started[g] /\ todo' = <<Op("start", None, c)>>
         \/ /\ Known(c) /\ c \notin started[g]
            /\ \E es \in Orders(envelopes[g]) : todo' = FirstStart(es, c)
      /\ \/ ~Known(c) /\ started' = started
         \/ Known(c) /\ started' = [started EXCEPT ![g] = @ \cup {c}]
  BY DEF ActiveComponent, Hold, Known
<1>3. /\ started \in [Comps -> SUBSET Comps] /\ envelopes \in [Comps -> SUBSET Lets]
      /\ home \in [Lets -> Comps \cup {None}] /\ None \notin Comps
      /\ (Known(c) => g \in Comps) /\ GroupOf \in [Comps -> Comps \cup {None}]
  BY <1>0, DeploymentAssumption DEF TypeOK, BookTypes, ProcessTypes, DeploymentAssumption, Known
<1>5. /\ \A d \in Comps : Known(d) => GroupOf[d] \in Comps
      /\ Started(c) <=> Known(c) /\ c \in started[g]
  BY <1>3 DEF Known, Started
<1> HIDE DEF g
<1>4. /\ started' \in [Comps -> SUBSET Comps]
      /\ \A x \in Comps : started[x] \subseteq started'[x]
      /\ \A x \in Comps : \A d \in started'[x] : d \in started[x] \/ (d = c /\ x = g /\ Known(c))
      /\ Known(c) => c \in started'[g]
  BY <1>2, <1>3
<1>6. /\ \A d \in Comps : Started(d) => Started(d)'
      /\ \A d \in Comps : Started(d)' => Started(d) \/ d = c
      /\ Known(c) => Started(c)'
  BY <1>4, <1>5 DEF Started, g
<1>7. /\ todo' \in Seq(OpType) /\ Final(todo')
      /\ Known(c) => Op("start", None, c) \in Ops'
      /\ Known(c) /\ ~Started(c) =>
           Op("assign", None, c) \in Ops' /\ \A q \in envelopes[g] : Op("components", q, c) \in Ops'
      /\ \A o \in Ops' :
           \/ ~Known(c) /\ todo' = Error /\ o = Op("error", None, None)
           \/ Known(c) /\ (o = Op("start", None, c) \/ o = Op("assign", None, c))
           \/ Known(c) /\ \E q \in envelopes[g] : o = Op("components", q, c)
  <2>1. Op("start", None, c) \in OpType /\ Op("error", None, None) \in OpType
    BY OpMembers DEF OpNames
  <2>2. CASE ~Known(c) /\ todo' = Error
    BY <2>1, <2>2, OneOp DEF Ops, Error
  <2>3. CASE Known(c) /\ c \in started[g] /\ todo' = <<Op("start", None, c)>>
    BY <1>5, <2>1, <2>3, OneOp DEF Ops
  <2>4. CASE Known(c) /\ \E es \in Orders(envelopes[g]) : todo' = FirstStart(es, c)
    <3>1. envelopes[g] \in SUBSET Lets
      BY <1>3, <2>4
    <3>2. PICK es \in Orders(envelopes[g]) : todo' = FirstStart(es, c)
      BY <2>4
    <3>3. /\ FirstStart(es, c) \in Seq(OpType) /\ Final(FirstStart(es, c))
          /\ \A o : o \in Range(FirstStart(es, c)) <=>
               \/ \E q \in envelopes[g] : o = Op("components", q, c)
               \/ o = Op("assign", None, c) \/ o = Op("start", None, c)
      BY <3>1, FirstOps
    <3>4. QED BY <2>4, <3>2, <3>3 DEF Ops
  <2>5. QED BY <1>2, <2>2, <2>3, <2>4
<1>8. SectionTypes' /\ Section' /\ h # Free
  <2>1. h \in (Lets \X Comps) \cup {RootRequest} /\ h # Free
    BY <1>3, DeploymentAssumption DEF DeploymentAssumption, RootRequest
  <2>2. SectionTypes'
    BY <1>1, <1>7, <2>1 DEF SectionTypes, OpType, OpNames
  <2>3. \A o \in Ops' : o.op = "error" => todo' = Error'
    BY <1>7 DEF Op, Error
  <2>4. QED BY <1>1, <1>7, <2>1, <2>2, <2>3 DEF Section
<1>9. \A o \in Ops' : Sound(o)'
  <2> SUFFICES ASSUME NEW o \in Ops' PROVE Sound(o)'
    OBVIOUS
  <2>1. CASE o = Op("error", None, None)
    BY <2>1 DEF Sound, Op, Calls
  <2>2. CASE Known(c) /\ (o = Op("start", None, c) \/ o = Op("assign", None, c))
    BY <1>6, <2>2 DEF Sound, Op, Calls
  <2>3. ASSUME Known(c), NEW q \in envelopes[g], o = Op("components", q, c) PROVE Sound(o)'
    <3>1. g \in Comps /\ q \in Lets
      BY <1>3, <2>3
    <3>2. home[q] = g
      BY <1>0, <2>3, <3>1 DEF Listed
    <3>3. proc'[q] # "none"
      BY <1>0, <1>1, <1>3, <3>1, <3>2 DEF Unused
    <3>4. QED BY <2>3, <3>1, <3>3 DEF Sound, Op, Calls
  <2>4. QED BY <1>7, <2>1, <2>2, <2>3
<1>10. TypeOK' /\ Ended' /\ Unused'
  <2>1. ProcessTypes' /\ AkasaletTypes' /\ BookTypes'
    BY <1>0, <1>1, <1>4 DEF TypeOK, ProcessTypes, AkasaletTypes, BookTypes
  <2>2. Dead' = Dead
    BY <1>1 DEF Dead
  <2>3. QED BY <1>0, <1>1, <1>8, <2>1, <2>2 DEF TypeOK, Ended, Unused
<1>11. Listed' /\ Told'
  <2>1. \A d \in Comps : Subscribers(d)' = Subscribers(d)
    BY <1>1 DEF Subscribers
  <2>2. \A x \in Comps : \A d \in started'[x] : GroupOf[d] = x
    BY <1>0, <1>4 DEF Listed, g
  <2>3. QED BY <1>0, <1>1, <2>1, <2>2 DEF Listed, Told, IsLocal
<1>12. Asked'
  <2> SUFFICES ASSUME NEW q \in Lets, NEW d \in Comps
               PROVE  /\ mu' = <<q, d>> => act'[q][d] \in {"subscribe", "activate"} /\ d \in subscribed'[q]
                      /\ mu' = <<q, d>> /\ act'[q][d] = "activate" => todo' = Error' \/ Started(d)'
                      /\ act'[q][d] \in {"activate", "returned"} => d \in subscribed'[q]
                      /\ act'[q][d] = "returned" => Started(d)'
    BY DEF Asked
  <2>1. /\ act[q][d] \in {"activate", "returned"} => d \in subscribed[q]
        /\ act[q][d] = "returned" => Started(d)
    BY <1>0 DEF Asked
  <2>2. ASSUME h = <<q, d>> PROVE d = c /\ act[q][c] = "activate"
    BY <2>2, DeploymentAssumption DEF DeploymentAssumption, RootRequest
  <2>3. todo' = Error' \/ Started(c)'
    BY <1>2, <1>6 DEF Error
  <2>4. QED BY <1>1, <1>6, <2>1, <2>2, <2>3
<1>13. Assigned'
  <2>1. ASSUME NEW d \in Comps, assignment[d].version > 0 PROVE Started(d)'
    BY <1>0, <1>6, <2>1 DEF Assigned
  <2>2. QED BY <1>0, <1>1, <2>1 DEF Assigned
<1>14. ASSUME Well' PROVE Routes' /\ Heard' /\ Runs'
  <2>1. Well
    BY <1>1, <1>14 DEF Well, Dead
  <2>2. /\ \A d \in Comps : Started(d) => \A q \in Subscribers(d) : Current(q, d)
        /\ \A q \in Lets, d \in Comps : Known(d) /\ d \in subscribed[q] => local[q][d] # "unset"
        /\ \A x \in Comps : \A d \in started[x] :
             envelopes[x] # {} /\ \A q \in envelopes[x] : impl[q][d] > 0
    BY <1>1, <2>1, Between
  <2>3. Routes'
    <3> SUFFICES ASSUME NEW d \in Comps, Started(d)', NEW q \in Subscribers(d)'
                 PROVE  Current(q, d)' \/ Op("assign", None, d) \in Ops'
      BY DEF Routes
    <3>1. (Current(q, d)' <=> Current(q, d)) /\ q \in Subscribers(d)
      BY <1>1 DEF Current, Subscribers
    <3>2. CASE Started(d)
      BY <2>2, <3>1, <3>2
    <3>3. CASE ~Started(d)
      <4>1. d = c /\ Known(c)
        BY <1>6, <3>3 DEF Started
      <4>2. QED BY <1>7, <3>3, <4>1
    <3>4. QED BY <3>2, <3>3
  <2>4. Heard'
    BY <1>0, <1>1, <2>1, <2>2 DEF Heard
  <2>5. Runs'
    <3>1. \A x \in Comps : envelopes[x] \subseteq Lets
      BY <1>3
    <3>2. \A q \in Lets : Op("append", q, None) \notin Ops'
      BY <1>7 DEF Op
    <3>3. ASSUME NEW x \in Comps, NEW d \in started'[x]
          PROVE  (\A q \in envelopes'[x] : Creating(q, d)') /\ (envelopes'[x] # {} \/ Starting(x)')
      <4>1. CASE d \in started[x]
        BY <1>1, <2>2, <4>1 DEF Creating
      <4>2. CASE d \notin started[x]
        <5>1. d = c /\ x = g /\ Known(c) /\ ~Started(c)
          BY <1>4, <1>5, <3>3, <4>2
        <5>2. \A q \in envelopes'[x] : Creating(q, d)'
          BY <1>1, <1>7, <5>1 DEF Creating
        <5>3. Starting(x)'
          BY <1>7, <5>1 DEF Starting, g
        <5>4. QED BY <5>2, <5>3
      <4>3. QED BY <4>1, <4>2
    <3>4. QED BY <1>0, <1>1, <2>1, <3>2, <3>3 DEF Runs
  <2>6. QED BY <2>3, <2>4, <2>5
<1>15. QED BY <1>8, <1>9, <1>10, <1>11, <1>12, <1>13, <1>14 DEF DepInv, Core
-----------------------------------------------------------------------------
(* Steps of a section.                                                     *)
LEMMA NoError ==
  ASSUME SectionTypes, Section, todo # <<>>, Head(todo).op # "error"
  PROVE  todo # Error /\ (\A o \in Ops : o.op # "error") /\ mu # Free
<1>1. Head(Error).op = "error"
  <2>1. \A x : Head(<<x>>) = x
    OBVIOUS
  <2>2. QED BY <2>1 DEF Error, Op
<1>2. QED BY <1>1 DEF Section

LEMMA SectionStep ==
  ASSUME SectionTypes, mu # Free, mu' = mu, todo' \in Seq(OpType), Final(todo'),
         todo' = Error \/ \A o \in Ops' : o.op # "error"
  PROVE  SectionTypes' /\ Section'
<1>1. Error' = Error
  BY DEF Error, Op
<1>2. SectionTypes'
  BY DEF SectionTypes, OpType, OpNames
<1>3. QED BY <1>1, <1>2 DEF Section

LEMMA SetAt ==
  ASSUME NEW T, NEW f \in [Lets -> [Comps -> T]], NEW p \in Lets, NEW c \in Comps, NEW v \in T,
         NEW h, h = [f EXCEPT ![p][c] = v]
  PROVE  /\ h \in [Lets -> [Comps -> T]] /\ h[p][c] = v
         /\ \A q \in Lets, d \in Comps : (q # p \/ d # c) => h[q][d] = f[q][d]
OBVIOUS

(* The handler of an akasalet that is called.                              *)
LEMMA HandleStep ==
  ASSUME Core, Assigned, NEW o \in Ops, o.op \in Calls, Handle(o), UNCHANGED <<groupVars, subVars, procVars>>
  PROVE  /\ AkasaletTypes' /\ Unused' /\ Told' /\ Assigned' /\ act' = act
         /\ \A q \in Lets, d \in Comps : impl[q][d] > 0 => impl'[q][d] > 0
         /\ \A q \in Lets, d \in Comps : local[q][d] # "unset" => local'[q][d] # "unset"
         /\ \A q \in Lets, d \in Comps : Current(q, d) => Current(q, d)'
         /\ o.op = "components" => \A d \in Comps : d \in started[home[o.to]] => impl'[o.to][d] > 0
         /\ o.op # "components" => local'[o.to][o.comp] # "unset"
         /\ o.op = "routing" => Current(o.to, o.comp)'
<1>0. /\ AkasaletTypes /\ BookTypes /\ Unused /\ Told /\ Sound(o) /\ ImplTypes
      /\ UNCHANGED <<started, addresses, envelopes, assignment, subscribed, home, proc>>
  BY DEF Core, TypeOK, AkasaletTypes, ImplTypes, groupVars, subVars, procVars
<1>1. o.to \in Lets /\ proc[o.to] # "none" /\ o.op \in {"components", "local", "routing"}
  BY <1>0 DEF Sound, Calls
<1>2. CASE o.op = "components"
  <2>1. impl' = Begin(o.to, started[home[o.to]]) /\ UNCHANGED <<local, ends, version, over, act>>
    BY <1>2 DEF Handle, UpdateComponents
  <2>2. /\ ImplTypes'
        /\ \A q \in Lets, d \in Comps : impl[q][d] > 0 => impl'[q][d] > 0
        /\ \A d \in Comps : d \in started[home[o.to]] => impl'[o.to][d] > 0
    BY <1>0, <1>1, <2>1, BeginStep
  <2>3. AkasaletTypes'
    BY <1>0, <2>1, <2>2 DEF AkasaletTypes, ImplTypes
  <2>4. Unused' /\ Told'
    BY <1>0, <2>1 DEF Unused, Told, IsLocal
  <2>5. Assigned'
    BY <1>0, <2>1 DEF Assigned, Started
  <2>6. \A q \in Lets, d \in Comps : Current(q, d) => Current(q, d)'
    BY <1>0, <2>1 DEF Current
  <2>7. QED BY <1>2, <2>1, <2>2, <2>3, <2>4, <2>5, <2>6
<1>3. CASE o.op = "local"
  <2>1. o.comp \in Comps /\ IsLocal(o.to, o.comp)
    BY <1>0, <1>3 DEF Sound
  <2>2. local' = [local EXCEPT ![o.to][o.comp] = "local"] /\ UNCHANGED <<ends, version, over, act, impl>>
    BY <1>3 DEF Handle, UpdateRoutingInfo, Info, LocalRouting, LocalOf
  <2>3. local \in [Lets -> [Comps -> {"unset", "local", "remote"}]]
    BY <1>0 DEF AkasaletTypes
  <2>4. /\ local' \in [Lets -> [Comps -> {"unset", "local", "remote"}]] /\ local'[o.to][o.comp] = "local"
        /\ \A q \in Lets, d \in Comps : (q # o.to \/ d # o.comp) => local'[q][d] = local[q][d]
    BY <1>1, <2>1, <2>2, <2>3, SetAt
  <2>5. AkasaletTypes'
    BY <1>0, <2>2, <2>4 DEF AkasaletTypes
  <2>6. Unused'
    BY <1>0, <1>1, <2>2, <2>4 DEF Unused
  <2>7. Told'
    BY <1>0, <2>1, <2>4 DEF Told, IsLocal
  <2>8. Assigned'
    BY <1>0, <2>2 DEF Assigned, Started
  <2>9. \A q \in Lets, d \in Comps : Current(q, d) => Current(q, d)'
    BY <1>0, <2>2 DEF Current
  <2>10. QED BY <1>3, <2>2, <2>4, <2>5, <2>6, <2>7, <2>8, <2>9
<1>4. CASE o.op = "routing"
  <2> DEFINE a == assignment[o.comp]
             r == addresses[GroupOf[o.comp]]
  <2>1. /\ o.comp \in Comps /\ ~IsLocal(o.to, o.comp) /\ GroupOf[o.comp] \in Comps
        /\ a \in [version : Nat, over : SUBSET Lets] /\ r \in SUBSET Lets
    BY <1>0, <1>4, DeploymentAssumption DEF Sound, Known, DeploymentAssumption, BookTypes
  <2> HIDE DEF a, r
  <2>2. /\ local' = [local EXCEPT ![o.to][o.comp] = "remote"] /\ UNCHANGED <<act, impl>>
        /\ ends' = [ends EXCEPT ![o.to][o.comp] = r]
        /\ IF a.version = 0 THEN UNCHANGED <<version, over>>
           ELSE /\ version' = [version EXCEPT ![o.to][o.comp] = a.version]
                /\ over' = [over EXCEPT ![o.to][o.comp] = a.over]
    BY <1>4 DEF Handle, UpdateRoutingInfo, Info, Routing, LocalOf, a, r
  <2>3. /\ local \in [Lets -> [Comps -> {"unset", "local", "remote"}]]
        /\ ends \in [Lets -> [Comps -> SUBSET Lets]] /\ over \in [Lets -> [Comps -> SUBSET Lets]]
        /\ version \in [Lets -> [Comps -> Nat]]
    BY <1>0 DEF AkasaletTypes
  <2>4. /\ local' \in [Lets -> [Comps -> {"unset", "local", "remote"}]] /\ local'[o.to][o.comp] = "remote"
        /\ \A q \in Lets, d \in Comps : (q # o.to \/ d # o.comp) => local'[q][d] = local[q][d]
    BY <1>1, <2>1, <2>2, <2>3, SetAt
  <2>5. /\ ends' \in [Lets -> [Comps -> SUBSET Lets]] /\ ends'[o.to][o.comp] = r
        /\ \A q \in Lets, d \in Comps : (q # o.to \/ d # o.comp) => ends'[q][d] = ends[q][d]
    BY <1>1, <2>1, <2>2, <2>3, SetAt
  <2>6. /\ version' \in [Lets -> [Comps -> Nat]] /\ over' \in [Lets -> [Comps -> SUBSET Lets]]
        /\ version'[o.to][o.comp] = a.version /\ over'[o.to][o.comp] = a.over
        /\ \A q \in Lets, d \in Comps : (q # o.to \/ d # o.comp) =>
             version'[q][d] = version[q][d] /\ over'[q][d] = over[q][d]
    <3>1. CASE a.version = 0
      <4>1. a.over = {} /\ version[o.to][o.comp] = 0 /\ over[o.to][o.comp] = {}
        BY <1>1, <2>1, <3>1 DEF Assigned, a
      <4>2. QED BY <2>2, <2>3, <3>1, <4>1
    <3>2. CASE a.version # 0
      <4>1. /\ version' = [version EXCEPT ![o.to][o.comp] = a.version] /\ a.version \in Nat
            /\ over' = [over EXCEPT ![o.to][o.comp] = a.over] /\ a.over \in SUBSET Lets
        BY <2>1, <2>2, <3>2
      <4>2. /\ version' \in [Lets -> [Comps -> Nat]] /\ version'[o.to][o.comp] = a.version
            /\ \A q \in Lets, d \in Comps : (q # o.to \/ d # o.comp) => version'[q][d] = version[q][d]
        BY <1>1, <2>1, <2>3, <4>1, SetAt
      <4>3. /\ over' \in [Lets -> [Comps -> SUBSET Lets]] /\ over'[o.to][o.comp] = a.over
            /\ \A q \in Lets, d \in Comps : (q # o.to \/ d # o.comp) => over'[q][d] = over[q][d]
        BY <1>1, <2>1, <2>3, <4>1, SetAt
      <4>4. QED BY <4>2, <4>3
    <3>3. QED BY <3>1, <3>2
  <2>7. AkasaletTypes'
    BY <1>0, <2>2, <2>4, <2>5, <2>6 DEF AkasaletTypes
  <2>8. Unused'
    BY <1>0, <1>1, <2>2, <2>4 DEF Unused
  <2>9. Told'
    BY <1>0, <2>1, <2>4 DEF Told, IsLocal
  <2>10. Current(o.to, o.comp)'
    BY <1>0, <2>5, <2>6 DEF Current, a, r
  <2>11. \A q \in Lets, d \in Comps : Current(q, d) => Current(q, d)'
    <3> SUFFICES ASSUME NEW q \in Lets, NEW d \in Comps, Current(q, d) PROVE Current(q, d)'
      OBVIOUS
    <3>1. CASE q = o.to /\ d = o.comp
      BY <2>10, <3>1
    <3>2. CASE q # o.to \/ d # o.comp
      BY <1>0, <2>5, <2>6, <3>2 DEF Current
    <3>3. QED BY <3>1, <3>2
  <2>12. Assigned'
    <3> SUFFICES ASSUME NEW d \in Comps
                 PROVE  /\ assignment'[d].version = 0 =>
                             assignment'[d].over = {} /\ \A q \in Lets : version'[q][d] = 0 /\ over'[q][d] = {}
                        /\ assignment'[d].version > 0 =>
                             Started(d)' /\ assignment'[d].over = addresses'[GroupOf[d]]
      BY DEF Assigned
    <3>1. assignment'[d].version = 0 => \A q \in Lets : version'[q][d] = 0 /\ over'[q][d] = {}
      <4> SUFFICES ASSUME assignment[d].version = 0, NEW q \in Lets
                   PROVE  version'[q][d] = 0 /\ over'[q][d] = {}
        BY <1>0
      <4>1. version[q][d] = 0 /\ over[q][d] = {} /\ assignment[d].over = {}
        BY DEF Assigned
      <4>2. QED BY <2>6, <4>1 DEF a
    <3>2. QED BY <1>0, <3>1 DEF Assigned, Started
  <2>13. QED BY <1>4, <2>2, <2>4, <2>7, <2>8, <2>9, <2>10, <2>11, <2>12
<1>5. QED BY <1>1, <1>2, <1>3, <1>4

(* No routing info contradicts what an akasalet was told before.           *)
LEMMA NeverRejected == ASSUME Core, NEW o \in Ops, o.op \in Calls PROVE ~Rejected(o)
<1>1. Sound(o) /\ Told /\ local \in [Lets -> [Comps -> {"unset", "local", "remote"}]]
  BY DEF Core, TypeOK, AkasaletTypes
<1>2. CASE o.op = "local"
  <2>1. local[o.to][o.comp] \in {"unset", "local"}
    BY <1>1, <1>2 DEF Sound, Told, Calls
  <2>2. QED BY <1>2, <2>1 DEF Rejected, Mismatch, Info, LocalRouting, LocalOf
<1>3. CASE o.op = "routing"
  <2>1. local[o.to][o.comp] \in {"unset", "remote"}
    BY <1>1, <1>3 DEF Sound, Told, Calls
  <2>2. QED BY <1>3, <2>1 DEF Rejected, Mismatch, Info, Routing, LocalOf
<1>4. QED BY <1>2, <1>3 DEF Rejected, Calls
LEMMA CallReturnsInv == ASSUME DepInv, CallReturns PROVE DepInv'
<1>0. /\ TypeOK /\ Assigned /\ (Well => Routes /\ Heard /\ Runs) /\ Core
      /\ Section /\ (\A x \in Ops : Sound(x)) /\ Listed /\ Asked /\ Ended
      /\ SectionTypes /\ BookTypes /\ ProcessTypes
  BY DEF DepInv, Core, TypeOK
<1>a. /\ mu # Free /\ todo # <<>> /\ Head(todo).op \in Calls /\ Handle(Head(todo))
      /\ todo' = Tail(todo) /\ mu' = mu
      /\ UNCHANGED <<groupVars, subVars, procVars, stopVars, fails>>
  BY DEF CallReturns, Calling
<1>b. PICK o \in OpType : o = Head(todo)
  BY <1>0, <1>a, PoppedOps DEF Section
<1>1. /\ mu # Free /\ todo # <<>> /\ o.op \in Calls /\ Handle(o) /\ mu' = mu
      /\ UNCHANGED <<groupVars, subVars, procVars, stopVars, fails>>
  BY <1>a, <1>b
<1>2. /\ UNCHANGED <<started, addresses, envelopes, assignment, subscribers, subscribed, home, proc>>
      /\ UNCHANGED <<err, cancelled, watcher, main, fails>>
  BY <1>1 DEF groupVars, subVars, procVars, stopVars
<1>3. todo' \in Seq(OpType) /\ Final(todo') /\ o \in Ops /\ Ops = Ops' \cup {o}
  BY <1>0, <1>a, <1>b, PoppedOps DEF Section, Ops
<1>4. o.op # "error" /\ todo # Error /\ \A x \in Ops : x.op # "error"
  BY <1>0, <1>a, <1>b, NoError DEF Calls
<1>5. /\ AkasaletTypes' /\ Unused' /\ Told' /\ Assigned' /\ act' = act
      /\ \A q \in Lets, d \in Comps : impl[q][d] > 0 => impl'[q][d] > 0
      /\ \A q \in Lets, d \in Comps : local[q][d] # "unset" => local'[q][d] # "unset"
      /\ \A q \in Lets, d \in Comps : Current(q, d) => Current(q, d)'
      /\ o.op = "components" => \A d \in Comps : d \in started[home[o.to]] => impl'[o.to][d] > 0
      /\ o.op # "components" => local'[o.to][o.comp] # "unset"
      /\ o.op = "routing" => Current(o.to, o.comp)'
  BY <1>0, <1>1, <1>3, HandleStep
<1>6. \A op, x, y : Op(op, x, y).op = op /\ Op(op, x, y).to = x /\ Op(op, x, y).comp = y
  BY DEF Op
<1>7. SectionTypes' /\ Section'
  BY <1>0, <1>1, <1>3, <1>4, SectionStep
<1>8. TypeOK' /\ Ended'
  <2>1. ProcessTypes' /\ BookTypes'
    BY <1>0, <1>2 DEF ProcessTypes, BookTypes
  <2>2. Dead' = Dead
    BY <1>2 DEF Dead
  <2>3. QED BY <1>0, <1>2, <1>5, <1>7, <2>1, <2>2 DEF TypeOK, Ended
<1>9. /\ \A x \in Ops' : Sound(x)'
      /\ \A d \in Comps : Subscribers(d)' = Subscribers(d)
      /\ \A d \in Comps : Started(d)' = Started(d)
  BY <1>0, <1>2, <1>3 DEF Sound, IsLocal, Started, Subscribers
<1>10. Listed' /\ Asked'
  <2>1. Listed'
    BY <1>0, <1>2, <1>9 DEF Listed, IsLocal
  <2>2. Asked'
    BY <1>0, <1>1, <1>2, <1>4, <1>5, <1>9 DEF Asked
  <2>3. QED BY <2>1, <2>2
<1>11. ASSUME Well' PROVE Routes' /\ Heard' /\ Runs'
  <2>1. Well /\ Routes /\ Heard /\ Runs
    BY <1>0, <1>2, <1>11 DEF Well, Dead
  <2>2. Routes'
    <3> SUFFICES ASSUME NEW d \in Comps, Started(d), NEW q \in Subscribers(d)
                 PROVE  \/ Current(q, d)' \/ Op("routing", q, d) \in Ops'
                        \/ Op("notify", None, d) \in Ops' \/ Op("assign", None, d) \in Ops'
      BY <1>9 DEF Routes
    <3>1. q \in Lets
      BY <1>0, RangeOf DEF BookTypes, Subscribers
    <3>2. CASE Op("routing", q, d) = o
      BY <1>5, <1>6, <3>2
    <3>3. CASE Op("routing", q, d) # o
      <4>1. Op("notify", None, d) # o /\ Op("assign", None, d) # o
        BY <1>1, <1>6 DEF Calls
      <4>2. \/ Current(q, d) \/ Op("routing", q, d) \in Ops
            \/ Op("notify", None, d) \in Ops \/ Op("assign", None, d) \in Ops
        BY <2>1 DEF Routes
      <4>3. QED BY <1>3, <1>5, <3>1, <3>3, <4>1, <4>2
    <3>4. QED BY <3>2, <3>3
  <2>3. Heard'
    <3>1. ASSUME NEW q \in Lets, NEW d \in Comps, Known(d), d \in subscribed[q]
          PROVE  local'[q][d] # "unset" \/ Op("routing", q, d) \in Ops' \/ Op("local", q, d) \in Ops'
      <4>1. local[q][d] # "unset" \/ Op("routing", q, d) \in Ops \/ Op("local", q, d) \in Ops
        BY <2>1, <3>1 DEF Heard
      <4>2. ASSUME Op("routing", q, d) = o \/ Op("local", q, d) = o PROVE local'[q][d] # "unset"
        BY <1>5, <1>6, <4>2
      <4>3. QED BY <1>3, <1>5, <4>1, <4>2
    <3>2. QED BY <1>2, <1>5, <2>1, <3>1 DEF Heard
  <2>4. Runs'
    <3>1. ASSUME NEW q \in Lets, NEW d \in Comps, d \in started[home[q]], Creating(q, d)
          PROVE  Creating(q, d)'
      <4>1. CASE impl[q][d] > 0
        BY <1>5, <4>1 DEF Creating
      <4>2. ASSUME NEW x \in Comps \cup {None}, Op("components", q, x) \in Ops PROVE Creating(q, d)'
        <5>1. CASE Op("components", q, x) = o
          BY <1>5, <1>6, <3>1, <5>1 DEF Creating
        <5>2. CASE Op("components", q, x) # o
          BY <1>3, <4>2, <5>2 DEF Creating
        <5>3. QED BY <5>1, <5>2
      <4>3. QED BY <3>1, <4>1, <4>2 DEF Creating
    <3>2. /\ \A q \in Lets : Op("append", q, None) \in Ops' <=> Op("append", q, None) \in Ops
          /\ \A d \in Comps : Op("start", None, d) \in Ops' <=> Op("start", None, d) \in Ops
      <4>1. \A q : Op("append", q, None) # o /\ Op("start", None, q) # o
        BY <1>1, <1>6 DEF Calls
      <4>2. QED BY <1>3, <4>1
    <3>3. \A x \in Comps : Starting(x) => Starting(x)'
      BY <1>2, <3>2 DEF Starting
    <3>4. \A x \in Comps : started[x] \subseteq Comps /\ envelopes[x] \subseteq Lets
      BY <1>0 DEF BookTypes
    <3>5. ASSUME NEW x \in Comps, NEW d \in started'[x]
          PROVE  (\A q \in envelopes'[x] : Creating(q, d)') /\ (envelopes'[x] # {} \/ Starting(x)')
      <4>1. (\A q \in envelopes[x] : Creating(q, d)) /\ (envelopes[x] # {} \/ Starting(x))
        BY <1>2, <2>1 DEF Runs
      <4>2. \A q \in envelopes[x] : home[q] = x
        BY <1>0 DEF Listed
      <4>3. QED BY <1>2, <3>1, <3>3, <3>4, <4>1, <4>2
    <3>6. \A q \in Lets : Op("append", q, None) \in Ops => \A d \in started[home[q]] : Creating(q, d)'
      <4> SUFFICES ASSUME NEW q \in Lets, Op("append", q, None) \in Ops, NEW d \in started[home[q]]
                   PROVE  Creating(q, d)'
        OBVIOUS
      <4>1. home[q] \in Comps
        <5>1. proc[q] # "none"
          BY <1>0, <1>6 DEF Sound
        <5>2. QED BY <1>0, <5>1 DEF Core, Unused
      <4>2. QED BY <2>1, <3>1, <3>4, <4>1 DEF Runs
    <3>7. \A q \in Lets, d \in Comps :
            act'[q][d] = "returned" => \E s \in Lets : home'[s] = GroupOf[d] /\ impl'[s][d] > 0
      BY <1>2, <1>5, <2>1 DEF Runs
    <3>8. QED BY <1>2, <3>2, <3>5, <3>6, <3>7 DEF Runs
  <2>5. QED BY <2>2, <2>3, <2>4
<1>12. QED BY <1>5, <1>7, <1>8, <1>9, <1>10, <1>11 DEF DepInv, Core

(* A section breaks off, with nothing but an error left.                   *)
LEMMA BreaksInv == ASSUME DepInv, Breaks PROVE DepInv'
<1>0. /\ Assigned /\ Core /\ Section /\ (\A x \in Ops : Sound(x)) /\ Unused /\ Listed /\ Asked /\ Told /\ Ended
      /\ SectionTypes /\ BookTypes /\ ProcessTypes /\ AkasaletTypes
  BY DEF DepInv, Core, TypeOK
<1>1. /\ mu # Free /\ mu' = mu /\ todo' = Error
      /\ UNCHANGED <<started, addresses, envelopes, assignment, subscribers, subscribed, home, proc>>
      /\ UNCHANGED <<err, cancelled, watcher, main>>
      /\ UNCHANGED <<groupVars, subVars, procVars>>
  <2>1. mu # Free /\ mu' = mu /\ todo' = Error
    BY DEF Breaks, CallFails, CallBreaks, ReplyBreaks, NewEnvelopeFails, AnswerBreaks, Calling, NextIs
  <2>2. UNCHANGED <<groupVars, subVars, procVars, stopVars>>
    BY DEF Breaks, CallFails, CallBreaks, ReplyBreaks, NewEnvelopeFails, AnswerBreaks
  <2>3. QED BY <2>1, <2>2 DEF groupVars, subVars, procVars, stopVars
<1>2. todo' \in Seq(OpType) /\ Final(todo') /\ (\A x \in Ops' : x = Op("error", None, None)) /\ Error' = Error
  <2>1. Op("error", None, None) \in OpType
    BY OpMembers DEF OpNames
  <2>2. QED BY <1>1, <2>1, OneOp DEF Ops, Error
<1>3. SectionTypes' /\ Section'
  BY <1>0, <1>1, <1>2, SectionStep
<1>4. \A x \in Ops' : Sound(x)'
  BY <1>2 DEF Sound, Op, Calls
<1>5. Calling => Head(todo) \in Ops /\ Head(todo).op \in Calls
  <2>1. ASSUME Calling PROVE Head(todo) \in Ops /\ Head(todo).op \in Calls
    BY <1>0, <2>1, PoppedOps DEF Calling, Section
  <2>2. QED BY <2>1
<1>6. AkasaletTypes' /\ Unused' /\ Told' /\ Assigned' /\ act' = act
  <2>1. CASE UNCHANGED letVars
    <3>1. UNCHANGED <<local, ends, version, over, act, impl>>
      BY <2>1 DEF letVars
    <3>2. AkasaletTypes'
      BY <1>0, <3>1 DEF AkasaletTypes
    <3>3. Unused' /\ Told'
      BY <1>0, <1>1, <3>1 DEF Unused, Told, IsLocal
    <3>4. Assigned'
      BY <1>0, <1>1, <3>1 DEF Assigned, Started
    <3>5. QED BY <3>1, <3>2, <3>3, <3>4
  <2>2. CASE ReplyBreaks
    <3>1. PICK o \in Ops : o.op \in Calls /\ Handle(o)
      <4>1. Head(todo) \in Ops /\ Head(todo).op \in Calls
        BY <1>5, <2>2 DEF ReplyBreaks
      <4>2. Handle(Head(todo))
        BY <2>2 DEF ReplyBreaks
      <4>3. QED BY <4>1, <4>2
    <3>2. QED BY <1>0, <1>1, <3>1, HandleStep
  <2>3. QED BY <2>1, <2>2 DEF Breaks, CallFails, CallBreaks, NewEnvelopeFails, AnswerBreaks
<1>7. Dead' = Dead /\ IsFiniteSet(Dead) /\ Cardinality(Dead) \in Nat
  <2>1. IsFiniteSet(Dead)
    BY DeploymentAssumption, FS_Subset DEF DeploymentAssumption, Dead
  <2>2. QED BY <1>1, <2>1, FS_CardinalityType DEF Dead
<1>8. fails' \in 0..MaxTrouble /\ ~Well'
  <2>1. fails \in Nat /\ fails <= MaxTrouble /\ MaxTrouble \in Nat
    BY <1>0, DeploymentAssumption DEF ProcessTypes, DeploymentAssumption
  <2>2. CASE CallFails
    <3>1. fails' = fails /\ ~Live(Target) /\ Calling
      BY <1>0, <1>5, <2>2, NeverRejected DEF CallFails
    <3>2. Target \in Lets /\ proc[Target] \notin {"none", "up"}
      BY <1>0, <1>5, <3>1 DEF Sound, Live, Target
    <3>3. Dead' # {}
      BY <1>7, <3>2 DEF Dead
    <3>4. QED BY <2>1, <3>1, <3>3 DEF Well
  <2>3. CASE fails' = fails + 1 /\ Trouble < MaxTrouble
    BY <1>7, <2>1, <2>3 DEF Trouble, Well
  <2>4. QED BY <2>2, <2>3 DEF Breaks, CallBreaks, ReplyBreaks, NewEnvelopeFails, AnswerBreaks
<1>9. TypeOK' /\ Ended'
  <2>1. ProcessTypes' /\ BookTypes'
    BY <1>0, <1>1, <1>8 DEF ProcessTypes, BookTypes
  <2>2. QED BY <1>0, <1>1, <1>3, <1>6, <1>7, <2>1 DEF TypeOK, Ended
<1>10. Listed' /\ Asked'
  <2>1. \A d \in Comps : Subscribers(d)' = Subscribers(d) /\ Started(d)' = Started(d)
    BY <1>1 DEF Subscribers, Started
  <2>2. Listed'
    BY <1>0, <1>1, <2>1 DEF Listed, IsLocal
  <2>3. Asked'
    BY <1>0, <1>1, <1>2, <1>6, <2>1 DEF Asked
  <2>4. QED BY <2>2, <2>3
<1>11. QED BY <1>3, <1>4, <1>6, <1>8, <1>9, <1>10 DEF DepInv, Core
(* A section ends: what is left is nothing, or the error.                  *)
LEMMA UnlockInv == ASSUME DepInv, Finish \/ Failed PROVE DepInv'
<1>0. /\ TypeOK /\ Assigned /\ (Well => Routes /\ Heard /\ Runs)
      /\ Section /\ Unused /\ Listed /\ Asked /\ Told /\ Ended
      /\ SectionTypes /\ BookTypes /\ ProcessTypes /\ AkasaletTypes
  BY DEF DepInv, Core, TypeOK
<1>1. /\ mu # Free /\ mu' = Free /\ todo' = <<>>
      /\ UNCHANGED <<started, addresses, envelopes, assignment, subscribers, subscribed, home, proc>>
      /\ UNCHANGED <<err, cancelled, watcher, local, ends, version, over, impl, fails>>
  BY DEF Finish, Failed, Erroneous, NextIs, Unlock, groupVars, subVars, procVars
<1>2. /\ mu = RootRequest => act' = act /\ main' \in {"wait", "failed"}
      /\ mu # RootRequest => main' = main
      /\ mu # RootRequest => \E v \in {"activate", "returned", "failed"} :
           /\ act' = [act EXCEPT ![mu[1]][mu[2]] = v]
           /\ v # "failed" => todo = <<>>
           /\ v = "activate" <=> v # "failed" /\ act[mu[1]][mu[2]] = "subscribe"
  <2>1. CASE Finish
    <3>1. todo = <<>>
      BY <2>1 DEF Finish
    <3>2. mu = RootRequest => act' = act /\ main' = "wait"
      BY <2>1 DEF Finish
    <3>3. ASSUME mu # RootRequest
          PROVE  main' = main /\ \E v \in {"activate", "returned", "failed"} :
                   /\ act' = [act EXCEPT ![mu[1]][mu[2]] = v]
                   /\ v = "activate" <=> v # "failed" /\ act[mu[1]][mu[2]] = "subscribe"
      <4>1. /\ act' = [act EXCEPT ![mu[1]][mu[2]] = IF @ = "subscribe" THEN "activate" ELSE "returned"]
            /\ main' = main
        BY <2>1, <3>3 DEF Finish
      <4>2. CASE act[mu[1]][mu[2]] = "subscribe"
        BY <4>1, <4>2
      <4>3. CASE act[mu[1]][mu[2]] # "subscribe"
        BY <4>1, <4>3
      <4>4. QED BY <4>2, <4>3
    <3>4. QED BY <3>1, <3>2, <3>3
  <2>2. CASE Failed
    BY <2>2 DEF Failed
  <2>3. QED BY <2>1, <2>2
<1>3. act \in [Lets -> [Comps -> {"none", "subscribe", "activate", "returned", "failed"}]]
  BY <1>0 DEF AkasaletTypes
<1>4. /\ act' \in [Lets -> [Comps -> {"none", "subscribe", "activate", "returned", "failed"}]]
      /\ main' \in {"root", "wait", "failed", "returned"}
      /\ \A q \in Lets, d \in Comps :
           \/ act'[q][d] = act[q][d]
           \/ act'[q][d] = "failed" /\ act[q][d] \in {"subscribe", "activate"}
           \/ /\ mu = <<q, d>> /\ todo = <<>>
              /\ \/ act'[q][d] = "activate" /\ act[q][d] = "subscribe"
                 \/ act'[q][d] = "returned" /\ act[q][d] = "activate"
  <2>1. CASE mu = RootRequest
    BY <1>0, <1>2, <1>3, <2>1 DEF ProcessTypes
  <2>2. CASE mu # RootRequest
    <3>1. mu \in Lets \X Comps
      BY <1>0, <1>1, <2>2 DEF SectionTypes
    <3>2. PICK p \in Lets, c \in Comps : mu = <<p, c>>
      BY <3>1
    <3>3. mu[1] = p /\ mu[2] = c
      BY <3>2
    <3>4. PICK v \in {"activate", "returned", "failed"} :
            /\ act' = [act EXCEPT ![p][c] = v]
            /\ v # "failed" => todo = <<>>
            /\ v = "activate" <=> v # "failed" /\ act[p][c] = "subscribe"
      BY <1>2, <2>2, <3>3
    <3>5. act[p][c] \in {"subscribe", "activate"}
      BY <1>0, <3>2 DEF Asked
    <3>6. /\ act' \in [Lets -> [Comps -> {"none", "subscribe", "activate", "returned", "failed"}]]
          /\ act'[p][c] = v
          /\ \A q \in Lets, d \in Comps : (q # p \/ d # c) => act'[q][d] = act[q][d]
      BY <1>3, <3>4, SetAt
    <3>7. main' \in {"root", "wait", "failed", "returned"}
      BY <1>0, <1>2, <2>2 DEF ProcessTypes
    <3>8. ASSUME NEW q \in Lets, NEW d \in Comps
          PROVE  \/ act'[q][d] = act[q][d]
                 \/ act'[q][d] = "failed" /\ act[q][d] \in {"subscribe", "activate"}
                 \/ /\ mu = <<q, d>> /\ todo = <<>>
                    /\ \/ act'[q][d] = "activate" /\ act[q][d] = "subscribe"
                       \/ act'[q][d] = "returned" /\ act[q][d] = "activate"
      BY <3>2, <3>4, <3>5, <3>6
    <3>9. QED BY <3>6, <3>7, <3>8
  <2>3. QED BY <2>1, <2>2
<1>5. todo = <<>> => todo # Error
  <2>1. \A x : <<x>> # <<>>
    OBVIOUS
  <2>2. QED BY <2>1 DEF Error
<1>6. Ops' = {} /\ SectionTypes' /\ Section'
  <2>1. SectionTypes'
    BY <1>1 DEF SectionTypes
  <2>2. QED BY <1>1, <2>1, NoOps DEF Section, Ops
<1>7. TypeOK' /\ Ended' /\ Unused'
  <2>1. BookTypes'
    BY <1>0, <1>1 DEF BookTypes
  <2>2. ProcessTypes'
    BY <1>0, <1>1, <1>4 DEF ProcessTypes
  <2>3. AkasaletTypes'
    BY <1>0, <1>1, <1>4 DEF AkasaletTypes
  <2>4. Ended'
    BY <1>0, <1>1 DEF Ended, Dead
  <2>5. ASSUME NEW q \in Lets, proc[q] = "none", NEW d \in Comps PROVE act'[q][d] = "none"
    <3>1. act[q][d] = "none"
      BY <1>0, <2>5 DEF Unused
    <3>2. QED BY <1>4, <3>1
  <2>6. QED BY <1>0, <1>1, <1>6, <2>1, <2>2, <2>3, <2>4, <2>5 DEF TypeOK, Unused
<1>8. \A d \in Comps : Subscribers(d)' = Subscribers(d) /\ Started(d)' = Started(d)
  BY <1>1 DEF Subscribers, Started
<1>9. Listed' /\ Told' /\ Assigned'
  <2>1. Listed' /\ Told'
    BY <1>0, <1>1, <1>8 DEF Listed, Told, IsLocal
  <2>2. Assigned'
    BY <1>0, <1>1, <1>8 DEF Assigned
  <2>3. QED BY <2>1, <2>2
<1>10. Asked'
  <2> SUFFICES ASSUME NEW q \in Lets, NEW d \in Comps
               PROVE  /\ mu' # <<q, d>>
                      /\ act'[q][d] \in {"activate", "returned"} => d \in subscribed'[q]
                      /\ act'[q][d] = "returned" => Started(d)'
    BY DEF Asked
  <2>1. mu' # <<q, d>>
    BY <1>1, DeploymentAssumption DEF DeploymentAssumption
  <2>2. /\ mu = <<q, d>> => d \in subscribed[q]
        /\ mu = <<q, d>> /\ act[q][d] = "activate" /\ todo = <<>> => Started(d)
        /\ act[q][d] \in {"activate", "returned"} => d \in subscribed[q]
        /\ act[q][d] = "returned" => Started(d)
    BY <1>0, <1>5 DEF Asked
  <2>3. QED BY <1>1, <1>4, <1>8, <2>1, <2>2
<1>11. ASSUME Well' PROVE Routes' /\ Heard' /\ Runs'
  <2>1. Well /\ Routes /\ Heard /\ Runs
    BY <1>0, <1>1, <1>11 DEF Well, Dead
  <2>2. \A o \in Ops : o.op = "error"
    <3>1. CASE todo = <<>>
      BY <3>1, NoOps DEF Ops
    <3>2. CASE Failed
      <4>1. ~err
        BY <1>0, <2>1 DEF Ended, Well
      <4>2. todo # <<>> /\ Head(todo).op = "error"
        BY <3>2, <4>1 DEF Failed, Erroneous, NextIs
      <4>3. Head(todo) \in Ops
        BY <1>0, <4>2, PoppedOps DEF Section
      <4>4. todo = Error
        BY <1>0, <4>2, <4>3 DEF Section
      <4>5. QED BY <4>4, ErrorOps DEF Op
    <3>3. QED BY <3>1, <3>2 DEF Finish
  <2>3. \A op, x, y : op # "error" => Op(op, x, y) \notin Ops
    BY <2>2 DEF Op
  <2>4. Routes'
    <3>1. \A d \in Comps : Started(d) => \A q \in Subscribers(d) : Current(q, d)
      BY <2>1, <2>3 DEF Routes
    <3>2. QED BY <1>1, <1>8, <3>1 DEF Routes, Current
  <2>5. \A q \in Lets, d \in Comps : Known(d) /\ d \in subscribed[q] => local[q][d] # "unset"
    BY <2>1, <2>3 DEF Heard
  <2>6. Heard'
    <3>1. ASSUME NEW q \in Lets, NEW d \in Comps, Known(d), act'[q][d] \in {"activate", "returned"}
          PROVE  local[q][d] # "unset"
      <4>1. d \in subscribed[q]
        BY <1>0, <1>4, <3>1 DEF Asked
      <4>2. QED BY <2>5, <3>1, <4>1
    <3>2. QED BY <1>1, <2>5, <3>1 DEF Heard
  <2>7. \A x \in Comps : \A d \in started[x] :
          envelopes[x] # {} /\ \A q \in envelopes[x] : impl[q][d] > 0
    BY <2>1, <2>3 DEF Runs, Starting, Creating
  <2>8. Runs'
    <3>1. ASSUME NEW q \in Lets, NEW d \in Comps, act'[q][d] = "returned"
          PROVE  \E s \in Lets : home[s] = GroupOf[d] /\ impl[s][d] > 0
      <4>1. Started(d) /\ GroupOf[d] \in Comps
        <5>1. Started(d)
          BY <1>8, <1>10, <3>1 DEF Asked
        <5>2. QED BY <5>1, DeploymentAssumption DEF Started, Known, DeploymentAssumption
      <4>2. envelopes[GroupOf[d]] # {} /\ \A s \in envelopes[GroupOf[d]] : impl[s][d] > 0
        BY <2>7, <4>1 DEF Started
      <4>3. \A s \in envelopes[GroupOf[d]] : s \in Lets /\ home[s] = GroupOf[d]
        BY <1>0, <4>1 DEF Listed, BookTypes
      <4>4. QED BY <4>2, <4>3
    <3>2. QED BY <1>1, <1>6, <2>7, <3>1 DEF Runs, Creating
  <2>9. QED BY <2>4, <2>6, <2>8
<1>12. QED BY <1>6, <1>7, <1>9, <1>10, <1>11 DEF DepInv, Core
(* The last step of a section: the group has a replica, or it is listed.   *)
LEMMA LastStep ==
  ASSUME DepInv, todo # <<>>, Head(todo).op \in {"start", "append"}
  PROVE  /\ Tail(todo) = <<>> /\ Ops = {Head(todo)} /\ Head(todo) \in OpType /\ mu # Free
         /\ Sound(Head(todo)) /\ todo # Error
<1>1. SectionTypes /\ Section /\ Final(todo) /\ \A o \in Ops : Sound(o)
  BY DEF DepInv, Core, TypeOK, Section
<1>2. Tail(todo) = <<>> /\ Ops = {Head(todo)} /\ Head(todo) \in OpType
  BY <1>1, PoppedOps
<1>3. todo # Error /\ mu # Free
  BY <1>1, NoError
<1>4. QED BY <1>1, <1>2, <1>3

LEMMA LastInv ==
  ASSUME DepInv, (HasReplica \/ AppendEnvelope) /\ UNCHANGED <<letVars, fails>>
  PROVE  DepInv'
<1>0. /\ TypeOK /\ Assigned /\ (Well => Routes /\ Heard /\ Runs)
      /\ Section /\ Unused /\ Listed /\ Asked /\ Told /\ Ended
      /\ SectionTypes /\ BookTypes /\ ProcessTypes /\ AkasaletTypes
  BY DEF DepInv, Core, TypeOK
<1>1. /\ todo # <<>> /\ todo' = Tail(todo) /\ mu' = mu
      /\ UNCHANGED <<started, addresses, assignment, subscribers, subscribed, home, proc>>
      /\ UNCHANGED <<err, cancelled, watcher, main, local, ends, version, over, act, impl, fails>>
  BY DEF HasReplica, AppendEnvelope, NextIs, groupVars, subVars, procVars, stopVars, letVars
<1>2. \/ Head(todo).op = "start" /\ ~NeedsReplica(GroupOf[Head(todo).comp]) /\ envelopes' = envelopes
      \/ /\ Head(todo).op = "append"
         /\ envelopes' = [envelopes EXCEPT ![home[Head(todo).to]] = @ \cup {Head(todo).to}]
  BY DEF HasReplica, AppendEnvelope, NextIs, groupVars
<1>3. /\ todo' = <<>> /\ Ops = {Head(todo)} /\ mu # Free /\ todo # Error
      /\ Sound(Head(todo)) /\ Head(todo) \in OpType
  BY <1>1, <1>2, LastStep
<1>4. PICK o \in OpType : o = Head(todo)
  BY <1>3
<1>5. /\ Ops = {o} /\ Sound(o)
      /\ \/ o.op = "start" /\ ~NeedsReplica(GroupOf[o.comp]) /\ envelopes' = envelopes
         \/ o.op = "append" /\ envelopes' = [envelopes EXCEPT ![home[o.to]] = @ \cup {o.to}]
  BY <1>2, <1>3, <1>4
<1>6. o.op = "append" => o.to \in Lets /\ home[o.to] \in Comps
  BY <1>0, <1>5 DEF Sound, Unused
<1>7. /\ envelopes \in [Comps -> SUBSET Lets] /\ envelopes' \in [Comps -> SUBSET Lets]
      /\ \A x \in Comps : envelopes[x] \subseteq envelopes'[x]
      /\ \A x \in Comps : \A q \in envelopes'[x] : q \in envelopes[x] \/ (o.op = "append" /\ q = o.to /\ home[q] = x)
      /\ o.op = "append" => o.to \in envelopes'[home[o.to]]
  <2>1. envelopes \in [Comps -> SUBSET Lets]
    BY <1>0 DEF BookTypes
  <2>2. CASE envelopes' = envelopes /\ o.op = "start"
    BY <2>1, <2>2
  <2>3. CASE o.op = "append" /\ envelopes' = [envelopes EXCEPT ![home[o.to]] = @ \cup {o.to}]
    BY <1>6, <2>1, <2>3
  <2>4. QED BY <1>5, <2>2, <2>3
<1>8. Ops' = {} /\ SectionTypes' /\ Section'
  <2>1. SectionTypes'
    BY <1>0, <1>1, <1>3 DEF SectionTypes
  <2>2. QED BY <1>1, <1>3, <2>1, NoOps DEF Section, Ops
<1>9. TypeOK' /\ Ended' /\ Unused'
  <2>1. BookTypes' /\ ProcessTypes' /\ AkasaletTypes'
    BY <1>0, <1>1, <1>7 DEF BookTypes, ProcessTypes, AkasaletTypes
  <2>2. QED BY <1>0, <1>1, <1>8, <2>1 DEF TypeOK, Ended, Dead, Unused
<1>10. \A d \in Comps : Subscribers(d)' = Subscribers(d) /\ Started(d)' = Started(d)
  BY <1>1 DEF Subscribers, Started
<1>11. Listed' /\ Told' /\ Assigned'
  <2>1. \A x \in Comps : \A q \in envelopes'[x] : home'[q] = x
    BY <1>0, <1>1, <1>7 DEF Listed
  <2>2. Listed' /\ Told'
    BY <1>0, <1>1, <1>10, <2>1 DEF Listed, Told, IsLocal
  <2>3. Assigned'
    BY <1>0, <1>1, <1>10 DEF Assigned
  <2>4. QED BY <2>2, <2>3
<1>12. Asked'
  BY <1>0, <1>1, <1>3, <1>10 DEF Asked
<1>13. ASSUME Well' PROVE Routes' /\ Heard' /\ Runs'
  <2>1. Well /\ Routes /\ Heard /\ Runs
    BY <1>0, <1>1, <1>13 DEF Well, Dead
  <2>2. \A op, x, y : op \notin {"start", "append"} => Op(op, x, y) \notin Ops
    BY <1>5 DEF Op
  <2>3. Routes'
    <3>1. \A d \in Comps : Started(d) => \A q \in Subscribers(d) : Current(q, d)
      BY <2>1, <2>2 DEF Routes
    <3>2. QED BY <1>1, <1>10, <3>1 DEF Routes, Current
  <2>4. Heard'
    <3>1. \A q \in Lets, d \in Comps : Known(d) /\ d \in subscribed[q] => local[q][d] # "unset"
      BY <2>1, <2>2 DEF Heard
    <3>2. QED BY <1>1, <2>1, <3>1 DEF Heard
  <2>5. \A q \in Lets, d \in Comps : Creating(q, d) => Creating(q, d)'
    BY <1>1, <2>2 DEF Creating
  <2>6. \A x \in Comps : started[x] \subseteq Comps
    BY <1>0 DEF BookTypes
  <2>7. ASSUME NEW x \in Comps, NEW d \in started[x], NEW q \in envelopes'[x] PROVE Creating(q, d)'
    <3>1. CASE q \in envelopes[x]
      BY <1>7, <2>1, <2>5, <2>6, <3>1 DEF Runs
    <3>2. CASE o.op = "append" /\ q = o.to /\ home[q] = x
      <4>1. Op("append", q, None) \in Ops
        <5>1. o.comp = None
          BY <1>5, <3>2 DEF Sound
        <5>2. QED BY <1>5, <3>2, <5>1, OpFields
      <4>2. q \in Lets
        BY <1>6, <3>2
      <4>3. QED BY <2>1, <2>5, <2>6, <3>2, <4>1, <4>2 DEF Runs
    <3>3. QED BY <1>7, <3>1, <3>2
  <2>8. ASSUME NEW x \in Comps, NEW d \in started[x] PROVE envelopes'[x] # {}
    <3>1. CASE envelopes[x] # {}
      BY <1>7, <3>1
    <3>2. ASSUME NEW c \in Comps, GroupOf[c] = x, Op("start", None, c) \in Ops PROVE envelopes'[x] # {}
      <4>1. o.op = "start" /\ o.comp = c
        BY <1>5, <3>2 DEF Op
      <4>2. Cardinality(envelopes[x]) = 1
        BY <1>5, <3>2, <4>1 DEF NeedsReplica, DefaultReplication
      <4>3. Cardinality({}) = 0
        BY FS_EmptySet
      <4>4. envelopes[x] # {}
        BY <4>2, <4>3
      <4>5. QED BY <1>7, <4>4
    <3>3. ASSUME NEW q \in Lets, home[q] = x, Op("append", q, None) \in Ops PROVE envelopes'[x] # {}
      <4>1. o.op = "append" /\ o.to = q
        BY <1>5, <3>3 DEF Op
      <4>2. QED BY <1>7, <3>3, <4>1
    <3>4. QED BY <2>1, <3>1, <3>2, <3>3 DEF Runs, Starting
  <2>9. \A q \in Lets, d \in Comps :
          act'[q][d] = "returned" => \E s \in Lets : home'[s] = GroupOf[d] /\ impl'[s][d] > 0
    BY <1>1, <2>1 DEF Runs
  <2>10. Runs'
    BY <1>1, <1>8, <2>7, <2>8, <2>9 DEF Runs
  <2>11. QED BY <2>3, <2>4, <2>10
<1>14. QED BY <1>8, <1>9, <1>11, <1>12, <1>13 DEF DepInv, Core
(* The subscribers of a component are told, after a new assignment or a    *)
(* new replica.                                                            *)
LEMMA TellInv ==
  ASSUME DepInv, (Assign \/ Notify) /\ UNCHANGED <<letVars, fails>>
  PROVE  DepInv'
<1>0. /\ TypeOK /\ Assigned /\ (Well => Routes /\ Heard /\ Runs)
      /\ Section /\ (\A x \in Ops : Sound(x)) /\ Unused /\ Listed /\ Asked /\ Told /\ Ended
      /\ SectionTypes /\ BookTypes /\ ProcessTypes /\ AkasaletTypes
  BY DEF DepInv, Core, TypeOK
<1>1. /\ mu # Free /\ todo # <<>> /\ mu' = mu /\ Head(todo).op \in {"assign", "notify"}
      /\ TellSubscribers(Head(todo).comp)
      /\ UNCHANGED <<started, addresses, envelopes, subscribers, subscribed, home, proc>>
      /\ UNCHANGED <<err, cancelled, watcher, main, local, ends, version, over, act, impl, fails>>
      /\ \/ assignment' = assignment
         \/ assignment' = [assignment EXCEPT ![Head(todo).comp] =
                             RoutingAlgo(NoAssignment, addresses[GroupOf[Head(todo).comp]])]
  BY DEF Assign, Notify, NextIs, groupVars, subVars, procVars, stopVars, letVars
<1>2. PICK o \in OpType : o = Head(todo)
  BY <1>0, <1>1, PoppedOps DEF Section
<1>3. o \in Ops /\ Ops = Range(Tail(todo)) \cup {o} /\ Sound(o)
  BY <1>0, <1>1, <1>2, PoppedOps DEF Section
<1>4. PICK c \in Comps : c = o.comp
  BY <1>1, <1>2, <1>3 DEF Sound
<1>5. /\ o.op \in {"assign", "notify"} /\ TellSubscribers(c) /\ Started(c)
      /\ \/ assignment' = assignment
         \/ assignment' = [assignment EXCEPT ![c] = RoutingAlgo(NoAssignment, addresses[GroupOf[c]])]
  BY <1>1, <1>2, <1>3, <1>4 DEF Sound
<1>6. /\ todo' \in Seq(OpType) /\ Final(todo')
      /\ \A x : x \in Ops' <=> x \in Range(Tail(todo)) \/ \E p \in Subscribers(c) : x = Op("routing", p, c)
  BY <1>0, <1>1, <1>5, TellOps DEF Section, BookTypes
<1>7. \A op, x, y : Op(op, x, y).op = op /\ Op(op, x, y).to = x /\ Op(op, x, y).comp = y
  BY DEF Op
<1>8. SectionTypes' /\ Section'
  <2>1. \A x \in Ops : x.op # "error"
    BY <1>0, <1>1, <1>2, <1>5, NoError
  <2>2. \A x \in Ops' : x.op # "error"
    BY <1>3, <1>6, <1>7, <2>1
  <2>3. QED BY <1>0, <1>1, <1>6, <2>2, SectionStep
<1>9. \A d \in Comps : Subscribers(d)' = Subscribers(d) /\ Started(d)' = Started(d)
  BY <1>1 DEF Subscribers, Started
<1>10. GroupOf[c] \in Comps /\ addresses[GroupOf[c]] \in SUBSET Lets
  BY <1>0, <1>5, DeploymentAssumption DEF Started, Known, DeploymentAssumption, BookTypes
<1>11. /\ assignment' \in [Comps -> [version : Nat, over : SUBSET Lets]]
       /\ \A d \in Comps : d # c => assignment'[d] = assignment[d]
       /\ \/ assignment'[c] = assignment[c]
          \/ assignment'[c].version = 1 /\ assignment'[c].over = addresses[GroupOf[c]]
  <2>1. assignment \in [Comps -> [version : Nat, over : SUBSET Lets]]
    BY <1>0 DEF BookTypes
  <2>2. PICK a : a = RoutingAlgo(NoAssignment, addresses[GroupOf[c]])
    OBVIOUS
  <2>3. a \in [version : Nat, over : SUBSET Lets] /\ a.version = 1 /\ a.over = addresses[GroupOf[c]]
    BY <1>10, <2>2 DEF RoutingAlgo, NoAssignment
  <2>4. assignment' = assignment \/ assignment' = [assignment EXCEPT ![c] = a]
    BY <1>5, <2>2
  <2>5. QED BY <2>1, <2>3, <2>4
<1>12. TypeOK' /\ Ended' /\ Unused'
  <2>1. BookTypes' /\ ProcessTypes' /\ AkasaletTypes'
    BY <1>0, <1>1, <1>11 DEF BookTypes, ProcessTypes, AkasaletTypes
  <2>2. QED BY <1>0, <1>1, <1>8, <2>1 DEF TypeOK, Ended, Dead, Unused
<1>13. \A x \in Ops' : Sound(x)'
  <2>1. ASSUME NEW x \in Range(Tail(todo)) PROVE Sound(x)'
    <3>1. Sound(x)
      BY <1>0, <1>3, <2>1
    <3>2. QED BY <1>1, <1>9, <3>1 DEF Sound, IsLocal
  <2>2. ASSUME NEW p \in Subscribers(c), NEW x, x = Op("routing", p, c) PROVE Sound(x)'
    <3>1. p \in Lets
      BY <1>0, RangeOf DEF BookTypes, Subscribers
    <3>2. Known(c) /\ ~IsLocal(p, c) /\ proc[p] # "none"
      BY <1>0, <3>1 DEF Listed, Unused
    <3>3. x.op = "routing" /\ x.to = p /\ x.comp = c
      BY <1>7, <2>2
    <3>4. QED BY <1>1, <3>1, <3>2, <3>3 DEF Sound, IsLocal, Calls
  <2>3. QED BY <1>6, <2>1, <2>2
<1>14. Listed' /\ Told' /\ Asked'
  <2>1. Listed' /\ Told'
    BY <1>0, <1>1, <1>9 DEF Listed, Told, IsLocal
  <2>2. todo # Error
    BY <1>0, <1>1, <1>2, <1>5, NoError
  <2>3. Asked'
    BY <1>0, <1>1, <1>9, <2>2 DEF Asked
  <2>4. QED BY <2>1, <2>3
<1>15. Assigned'
  <2> SUFFICES ASSUME NEW d \in Comps
               PROVE  /\ assignment'[d].version = 0 =>
                           assignment'[d].over = {} /\ \A q \in Lets : version'[q][d] = 0 /\ over'[q][d] = {}
                      /\ assignment'[d].version > 0 =>
                           Started(d)' /\ assignment'[d].over = addresses'[GroupOf[d]]
    BY DEF Assigned
  <2>1. CASE assignment'[d] = assignment[d]
    BY <1>0, <1>1, <1>9, <2>1 DEF Assigned
  <2>2. CASE d = c /\ assignment'[c].version = 1 /\ assignment'[c].over = addresses[GroupOf[c]]
    BY <1>1, <1>5, <1>9, <2>2
  <2>3. QED BY <1>11, <2>1, <2>2
<1>16. ASSUME Well' PROVE Routes' /\ Heard' /\ Runs'
  <2>1. Well /\ Routes /\ Heard /\ Runs
    BY <1>0, <1>1, <1>16 DEF Well, Dead
  <2>2. \A x \in Ops : x # o => x \in Ops'
    BY <1>3, <1>6
  <2>3. Routes'
    <3> SUFFICES ASSUME NEW d \in Comps, Started(d), NEW q \in Subscribers(d)
                 PROVE  \/ Current(q, d)' \/ Op("routing", q, d) \in Ops'
                        \/ Op("notify", None, d) \in Ops' \/ Op("assign", None, d) \in Ops'
      BY <1>9 DEF Routes
    <3>1. CASE d = c
      BY <1>6, <3>1
    <3>2. CASE d # c
      <4>1. \A op, x : Op(op, x, d) # o
        BY <1>4, <1>7, <3>2
      <4>2. \/ Current(q, d) \/ Op("routing", q, d) \in Ops
            \/ Op("notify", None, d) \in Ops \/ Op("assign", None, d) \in Ops
        BY <2>1 DEF Routes
      <4>3. Current(q, d) => Current(q, d)'
        BY <1>1, <1>11, <3>2 DEF Current
      <4>4. QED BY <2>2, <4>1, <4>2, <4>3
    <3>3. QED BY <3>1, <3>2
  <2>4. \A op, x, y : op \notin {"assign", "notify"} /\ Op(op, x, y) \in Ops => Op(op, x, y) \in Ops'
    BY <1>5, <1>7, <2>2
  <2>5. Heard'
    BY <1>0, <1>1, <2>1, <2>4 DEF Heard
  <2>6. \A q \in Lets, d \in Comps : Creating(q, d) => Creating(q, d)'
    BY <1>1, <2>4 DEF Creating
  <2>7. \A x \in Comps : Starting(x) => Starting(x)'
    BY <1>1, <2>4 DEF Starting
  <2>8. \A x \in Comps : started[x] \subseteq Comps /\ envelopes[x] \subseteq Lets
    BY <1>0 DEF BookTypes
  <2>9. ASSUME NEW x \in Comps, NEW d \in started'[x]
        PROVE  (\A q \in envelopes'[x] : Creating(q, d)') /\ (envelopes'[x] # {} \/ Starting(x)')
    BY <1>1, <2>1, <2>6, <2>7, <2>8 DEF Runs
  <2>10. ASSUME NEW q \in Lets, Op("append", q, None) \in Ops', NEW d \in started'[home'[q]]
         PROVE  Creating(q, d)'
    <3>1. Op("append", q, None) \in Ops
      BY <1>3, <1>6, <1>7, <2>10
    <3>2. home[q] \in Comps
      <4>1. proc[q] # "none"
        BY <1>0, <1>7, <3>1 DEF Sound
      <4>2. QED BY <1>0, <4>1 DEF Unused
    <3>3. QED BY <1>1, <2>1, <2>6, <2>8, <2>10, <3>1, <3>2 DEF Runs
  <2>11. \A q \in Lets, d \in Comps :
           act'[q][d] = "returned" => \E s \in Lets : home'[s] = GroupOf[d] /\ impl'[s][d] > 0
    BY <1>1, <2>1 DEF Runs
  <2>12. Runs'
    BY <2>9, <2>10, <2>11 DEF Runs
  <2>13. QED BY <2>3, <2>5, <2>12
<1>17. QED BY <1>8, <1>12, <1>13, <1>14, <1>15, <1>16 DEF DepInv, Core
ReplicaSteps(cs, p) ==
  [i \in 1..Len(cs) |-> Op("notify", None, cs[i])]
    \o <<Op("components", p, None), Op("append", p, None)>>

LEMMA ReplicaOps ==
  ASSUME NEW S \in SUBSET Comps, NEW cs \in Orders(S), NEW p \in Lets
  PROVE  /\ ReplicaSteps(cs, p) \in Seq(OpType) /\ Final(ReplicaSteps(cs, p))
         /\ \A o : o \in Range(ReplicaSteps(cs, p)) <=>
              \/ \E c \in S : o = Op("notify", None, c)
              \/ o = Op("components", p, None) \/ o = Op("append", p, None)
<1> DEFINE s == [i \in 1..Len(cs) |-> Op("notify", None, cs[i])]
           t == <<Op("components", p, None), Op("append", p, None)>>
<1>1. cs \in Seq(Comps) /\ Range(cs) = S
  <2>1. IsFiniteSet(S)
    BY DeploymentAssumption, FS_Subset DEF DeploymentAssumption
  <2>2. cs \in Seq(S) /\ Range(cs) = S
    BY <2>1, RangeOrders
  <2>3. QED BY <2>2
<1>2. s \in Seq(OpType) /\ Len(s) = Len(cs) /\ \A i \in 1..Len(cs) : s[i] = Op("notify", None, cs[i])
  <2>1. ASSUME NEW i \in 1..Len(cs) PROVE Op("notify", None, cs[i]) \in OpType
    <3>1. cs[i] \in Comps
      BY <1>1
    <3>2. QED BY <3>1, OpMembers DEF OpNames
  <2>2. Len(cs) \in Nat
    BY <1>1
  <2>3. QED BY <2>1, <2>2
<1>3. t \in Seq(OpType) /\ Len(t) = 2 /\ t[1] = Op("components", p, None) /\ t[2] = Op("append", p, None)
  <2>1. Op("components", p, None) \in OpType /\ Op("append", p, None) \in OpType
    BY OpMembers DEF OpNames, Calls
  <2>2. QED BY <2>1
<1>4. ReplicaSteps(cs, p) = s \o t
  BY DEF ReplicaSteps
<1> HIDE DEF s, t
<1>5. Final(t)
  <2>1. t[1].op = "components"
    BY <1>3 DEF Op
  <2>2. \A i \in 1..2 : i = 1 \/ i = 2
    OBVIOUS
  <2>3. QED BY <1>3, <2>1, <2>2 DEF Final
<1>6. \A o : o \in Range(t) <=> o = Op("components", p, None) \/ o = Op("append", p, None)
  <2>1. \A x : x \in Range(t) <=> \E i \in 1..Len(t) : t[i] = x
    BY <1>3, RangeOf
  <2>2. \A i : i \in 1..2 <=> i = 1 \/ i = 2
    OBVIOUS
  <2>3. QED BY <1>3, <2>1, <2>2
<1>7. \A o : o \in Range(s) <=> \E c \in S : o = Op("notify", None, c)
  <2>1. \A x : x \in Range(s) <=> \E i \in 1..Len(s) : s[i] = x
    BY <1>2, RangeOf
  <2>2. \A x : x \in Range(cs) <=> \E i \in 1..Len(cs) : cs[i] = x
    BY <1>1, RangeOf
  <2>3. QED BY <1>1, <1>2, <2>1, <2>2
<1>8. /\ s \o t \in Seq(OpType) /\ Final(s \o t)
      /\ Range(s \o t) = Range(s) \cup Range(t)
  <2>1. ASSUME NEW i \in 1..Len(s) PROVE s[i].op \notin {"start", "append", "error"}
    <3>1. i \in 1..Len(cs) /\ s[i] = Op("notify", None, cs[i])
      BY <1>2, <2>1
    <3>2. QED BY <3>1 DEF Op
  <2>2. Final(s \o t)
    BY <1>2, <1>3, <1>5, <2>1, FinalConcat
  <2>3. QED BY <1>2, <1>3, <2>2, RangeConcat
<1>9. QED BY <1>4, <1>6, <1>7, <1>8

(* A replica is started: registered, and then told its components.         *)
LEMMA ReplicaInv ==
  ASSUME DepInv, NEW p \in Lets, NewEnvelope(p)
  PROVE  DepInv'
<1>0. /\ TypeOK /\ Assigned /\ (Well => Routes /\ Heard /\ Runs)
      /\ Section /\ Unused /\ Listed /\ Asked /\ Told /\ Ended
      /\ SectionTypes /\ BookTypes /\ ProcessTypes /\ AkasaletTypes /\ ImplTypes
  BY DEF DepInv, Core, TypeOK, AkasaletTypes, ImplTypes
<1>1. PICK o \in OpType : o = Head(todo)
  <2>1. todo # <<>>
    BY DEF NewEnvelope, StartColocationGroup, NextIs
  <2>2. QED BY <1>0, <2>1, PoppedOps DEF Section
<1>2. PICK g : g = GroupOf[o.comp]
  OBVIOUS
<1>3. /\ mu # Free /\ mu' = mu /\ todo # <<>> /\ o.op = "start" /\ ~err /\ NeedsReplica(g) /\ StartReplica(p, g)
      /\ UNCHANGED <<started, envelopes, subscribers, subscribed, err, cancelled, watcher, main>>
      /\ UNCHANGED <<local, ends, version, over, act, fails>>
      /\ proc[p] = "none"
      /\ impl' = impl \/ impl' = Begin(p, {Root})
  BY <1>1, <1>2 DEF NewEnvelope, StartColocationGroup, NextIs, Fresh, subVars, stopVars
<1>4. Ops = {o} /\ Sound(o) /\ todo # Error
  BY <1>1, <1>3, LastStep
<1>5. /\ o.comp \in Comps /\ Known(o.comp) /\ g \in Comps
  BY <1>2, <1>3, <1>4, DeploymentAssumption DEF Sound, Known, DeploymentAssumption
<1>6. PICK cs \in Orders(started[g]) : todo' = ReplicaSteps(cs, p)
  BY <1>3 DEF StartReplica, ReplicaSteps
<1>7. /\ todo' \in Seq(OpType) /\ Final(todo')
      /\ \A x : x \in Ops' <=> \/ \E c \in started[g] : x = Op("notify", None, c)
                               \/ x = Op("components", p, None) \/ x = Op("append", p, None)
  <2>1. started[g] \in SUBSET Comps
    BY <1>0, <1>5 DEF BookTypes
  <2>2. QED BY <1>6, <2>1, ReplicaOps DEF Ops
<1>8. \A op, x, y : Op(op, x, y).op = op /\ Op(op, x, y).to = x /\ Op(op, x, y).comp = y
  BY DEF Op
<1>9. /\ proc' \in [Lets -> {"none", "up", "down", "cancel", "done"}] /\ proc'[p] = "up"
      /\ home' \in [Lets -> Comps \cup {None}] /\ home'[p] = g
      /\ addresses' \in [Comps -> SUBSET Lets] /\ addresses'[g] = addresses[g] \cup {p}
      /\ \A q \in Lets : q # p => proc'[q] = proc[q] /\ home'[q] = home[q]
      /\ \A x \in Comps : x # g => addresses'[x] = addresses[x]
  BY <1>0, <1>3, <1>5 DEF StartReplica, ProcessTypes, BookTypes
<1>10. /\ assignment' \in [Comps -> [version : Nat, over : SUBSET Lets]]
       /\ \A d \in Comps : GroupOf[d] # g \/ assignment[d].version = 0 => assignment'[d] = assignment[d]
       /\ \A d \in Comps : GroupOf[d] = g /\ assignment[d].version > 0 =>
            assignment'[d].version > 0 /\ assignment'[d].over = addresses'[g]
  <2>1. /\ assignment \in [Comps -> [version : Nat, over : SUBSET Lets]]
        /\ addresses[g] \cup {p} \in SUBSET Lets
    BY <1>0, <1>5 DEF BookTypes
  <2>2. assignment' = [d \in Comps |-> IF GroupOf[d] = g /\ assignment[d].version > 0
                                       THEN RoutingAlgo(assignment[d], addresses[g] \cup {p}) ELSE assignment[d]]
    BY <1>3 DEF StartReplica, Reassign
  <2>3. ASSUME NEW d \in Comps
        PROVE  LET a == RoutingAlgo(assignment[d], addresses[g] \cup {p})
               IN  /\ a \in [version : Nat, over : SUBSET Lets]
                   /\ a.version > 0 /\ a.over = addresses[g] \cup {p}
    <3>1. assignment[d].version \in Nat
      BY <2>1
    <3>2. QED BY <2>1, <3>1 DEF RoutingAlgo
  <2>4. ASSUME NEW d \in Comps PROVE assignment'[d] \in [version : Nat, over : SUBSET Lets]
    BY <2>1, <2>2, <2>3
  <2>5. assignment' \in [Comps -> [version : Nat, over : SUBSET Lets]]
    BY <2>2, <2>4
  <2>6. ASSUME NEW d \in Comps, GroupOf[d] = g, assignment[d].version > 0
        PROVE  assignment'[d].version > 0 /\ assignment'[d].over = addresses'[g]
    BY <1>9, <2>2, <2>3, <2>6
  <2>7. ASSUME NEW d \in Comps, GroupOf[d] # g \/ assignment[d].version = 0
        PROVE  assignment'[d] = assignment[d]
    BY <2>2, <2>7
  <2>8. QED BY <2>5, <2>6, <2>7
<1>11. /\ ImplTypes' /\ \A q \in Lets, d \in Comps : impl[q][d] > 0 => impl'[q][d] > 0
  <2>1. CASE impl' = impl
    BY <1>0, <2>1 DEF ImplTypes
  <2>2. CASE impl' = Begin(p, {Root})
    BY <1>0, <2>2, BeginStep
  <2>3. QED BY <1>3, <2>1, <2>2
<1>12. home[p] = None /\ subscribed[p] = {} /\ \A c \in Comps : local[p][c] = "unset" /\ act[p][c] = "none"
  BY <1>0, <1>3 DEF Unused
<1>13. SectionTypes' /\ Section'
  <2>1. \A x \in Ops' : x.op # "error"
    BY <1>7, <1>8
  <2>2. QED BY <1>0, <1>3, <1>7, <2>1, SectionStep
<1>14. TypeOK' /\ Ended' /\ Dead' = Dead
  <2>1. BookTypes'
    BY <1>0, <1>3, <1>9, <1>10 DEF BookTypes
  <2>2. ProcessTypes'
    BY <1>0, <1>3, <1>9 DEF ProcessTypes
  <2>3. AkasaletTypes'
    BY <1>0, <1>3, <1>11 DEF AkasaletTypes, ImplTypes
  <2>4. Dead' = Dead
    BY <1>3, <1>9 DEF Dead
  <2>5. QED BY <1>0, <1>3, <1>13, <2>1, <2>2, <2>3, <2>4 DEF TypeOK, Ended
<1>15. /\ \A d \in Comps : Subscribers(d)' = Subscribers(d) /\ Started(d)' = Started(d)
       /\ \A d \in Comps : Subscribers(d) \subseteq Lets /\ p \notin Subscribers(d)
       /\ \A x \in Comps : envelopes[x] \subseteq Lets /\ p \notin envelopes[x]
       /\ \A x \in Comps : started[x] \subseteq Comps
       /\ \A q \in Lets, d \in Comps : q # p => IsLocal(q, d)' = IsLocal(q, d)
  <2>1. \A d \in Comps : Subscribers(d)' = Subscribers(d) /\ Started(d)' = Started(d)
    BY <1>3 DEF Subscribers, Started
  <2>2. ASSUME NEW d \in Comps PROVE Subscribers(d) \subseteq Lets /\ p \notin Subscribers(d)
    <3>1. Subscribers(d) \subseteq Lets
      BY <1>0, RangeOf DEF BookTypes, Subscribers
    <3>2. QED BY <1>0, <1>12, <3>1 DEF Listed
  <2>3. ASSUME NEW x \in Comps PROVE envelopes[x] \subseteq Lets /\ p \notin envelopes[x]
    BY <1>0, <1>12, DeploymentAssumption DEF BookTypes, Listed, DeploymentAssumption
  <2>4. \A x \in Comps : started[x] \subseteq Comps
    BY <1>0 DEF BookTypes
  <2>5. \A q \in Lets, d \in Comps : q # p => IsLocal(q, d)' = IsLocal(q, d)
    BY <1>9 DEF IsLocal
  <2>6. QED BY <2>1, <2>2, <2>3, <2>4, <2>5
<1>16. \A x \in Ops' : Sound(x)'
  <2>1. ASSUME NEW d \in started[g], NEW x, x = Op("notify", None, d) PROVE Sound(x)'
    <3>1. d \in Comps /\ Known(d) /\ Started(d)
      BY <1>0, <1>5, <1>15, DeploymentAssumption DEF Listed, Known, Started, DeploymentAssumption
    <3>2. x.op = "notify" /\ x.comp = d
      BY <1>8, <2>1
    <3>3. QED BY <1>15, <3>1, <3>2 DEF Sound, Calls
  <2>2. ASSUME NEW x, x = Op("components", p, None) \/ x = Op("append", p, None) PROVE Sound(x)'
    <3>1. x.op \in {"components", "append"} /\ x.to = p /\ x.comp = None
      BY <1>8, <2>2
    <3>2. QED BY <1>9, <3>1 DEF Sound, Calls
  <2>3. QED BY <1>7, <2>1, <2>2
<1>17. Unused'
  <2> SUFFICES ASSUME NEW q \in Lets
               PROVE  /\ proc'[q] # "none" => home'[q] \in Comps
                      /\ proc'[q] = "none" => home'[q] = None /\ subscribed'[q] = {}
                      /\ proc'[q] = "none" => \A c \in Comps : local'[q][c] = "unset" /\ act'[q][c] = "none"
    BY DEF Unused
  <2>1. CASE q = p
    BY <1>5, <1>9, <2>1
  <2>2. CASE q # p
    BY <1>0, <1>3, <1>9, <2>2 DEF Unused
  <2>3. QED BY <2>1, <2>2
<1>18. Listed' /\ Told'
  <2>1. ASSUME NEW x \in Comps, NEW q \in envelopes'[x] PROVE home'[q] = x
    BY <1>0, <1>3, <1>9, <1>15, <2>1 DEF Listed
  <2>2. ASSUME NEW d \in Comps, NEW q \in Subscribers(d)'
        PROVE  Known(d) /\ ~IsLocal(q, d)' /\ d \in subscribed'[q]
    BY <1>0, <1>3, <1>15, <2>2 DEF Listed
  <2>3. Listed'
    BY <1>0, <1>3, <2>1, <2>2 DEF Listed
  <2>4. ASSUME NEW q \in Lets, NEW d \in Comps
        PROVE  /\ local'[q][d] = "local" => IsLocal(q, d)'
               /\ local'[q][d] = "remote" => ~IsLocal(q, d)'
    <3>1. CASE q = p
      BY <1>3, <1>12, <3>1
    <3>2. CASE q # p
      BY <1>0, <1>3, <1>15, <3>2 DEF Told
    <3>3. QED BY <3>1, <3>2
  <2>5. QED BY <2>3, <2>4 DEF Told
<1>19. Asked'
  BY <1>0, <1>3, <1>4, <1>15 DEF Asked
<1>20. Assigned'
  <2> SUFFICES ASSUME NEW d \in Comps
               PROVE  /\ assignment'[d].version = 0 =>
                           assignment'[d].over = {} /\ \A q \in Lets : version'[q][d] = 0 /\ over'[q][d] = {}
                      /\ assignment'[d].version > 0 =>
                           Started(d)' /\ assignment'[d].over = addresses'[GroupOf[d]]
    BY DEF Assigned
  <2>1. assignment[d].version \in Nat
    BY <1>0 DEF BookTypes
  <2>2. CASE assignment[d].version = 0
    BY <1>0, <1>3, <1>10, <2>2 DEF Assigned
  <2>3. CASE assignment[d].version > 0 /\ GroupOf[d] = g
    BY <1>0, <1>10, <1>15, <2>3 DEF Assigned
  <2>4. CASE assignment[d].version > 0 /\ GroupOf[d] # g
    <3>1. Started(d) /\ assignment[d].over = addresses[GroupOf[d]]
      BY <1>0, <2>4 DEF Assigned
    <3>2. GroupOf[d] \in Comps
      BY <3>1, DeploymentAssumption DEF Started, Known, DeploymentAssumption
    <3>3. QED BY <1>9, <1>10, <1>15, <2>4, <3>1, <3>2
  <2>5. QED BY <2>1, <2>2, <2>3, <2>4
<1>21. ASSUME Well' PROVE Routes' /\ Heard' /\ Runs'
  <2>1. Well /\ Routes /\ Heard /\ Runs
    BY <1>0, <1>3, <1>14, <1>21 DEF Well
  <2>2. \A op, x, y : op # "start" => Op(op, x, y) \notin Ops
    BY <1>3, <1>4, <1>8
  <2>3. Routes'
    <3> SUFFICES ASSUME NEW d \in Comps, Started(d), NEW q \in Subscribers(d)
                 PROVE  Current(q, d)' \/ Op("notify", None, d) \in Ops'
      BY <1>15 DEF Routes
    <3>1. CASE GroupOf[d] = g
      BY <1>7, <3>1 DEF Started
    <3>2. CASE GroupOf[d] # g
      <4>1. Current(q, d)
        BY <2>1, <2>2 DEF Routes
      <4>2. GroupOf[d] \in Comps
        BY DeploymentAssumption DEF Started, Known, DeploymentAssumption
      <4>3. QED BY <1>3, <1>9, <1>10, <3>2, <4>1, <4>2 DEF Current
    <3>3. QED BY <3>1, <3>2
  <2>4. Heard'
    <3>1. \A q \in Lets, d \in Comps : Known(d) /\ d \in subscribed[q] => local[q][d] # "unset"
      BY <2>1, <2>2 DEF Heard
    <3>2. QED BY <1>3, <2>1, <3>1 DEF Heard
  <2>5. ASSUME NEW x \in Comps, NEW d \in started'[x]
        PROVE  (\A q \in envelopes'[x] : Creating(q, d)') /\ (envelopes'[x] # {} \/ Starting(x)')
    <3>1. \A q \in envelopes[x] : impl'[q][d] > 0
      <4>1. \A q \in envelopes[x] : impl[q][d] > 0
        BY <1>3, <2>1, <2>2 DEF Runs, Creating
      <4>2. QED BY <1>3, <1>11, <1>15, <4>1
    <3>2. CASE x = g
      BY <1>3, <1>7, <1>9, <3>1, <3>2 DEF Starting, Creating
    <3>3. CASE x # g
      <4>1. envelopes[x] # {} \/ Starting(x)
        BY <1>3, <2>1 DEF Runs
      <4>2. ~Starting(x)
        BY <1>2, <1>4, <1>8, <2>2, <3>3 DEF Starting
      <4>3. QED BY <1>3, <3>1, <4>1, <4>2 DEF Creating
    <3>4. QED BY <3>2, <3>3
  <2>6. ASSUME NEW q \in Lets, Op("append", q, None) \in Ops', NEW d \in started'[home'[q]]
        PROVE  Creating(q, d)'
    <3>1. q = p
      BY <1>7, <1>8, <2>6
    <3>2. QED BY <1>7, <3>1 DEF Creating
  <2>7. ASSUME NEW q \in Lets, NEW d \in Comps, act'[q][d] = "returned"
        PROVE  \E s \in Lets : home'[s] = GroupOf[d] /\ impl'[s][d] > 0
    <3>1. PICK s \in Lets : home[s] = GroupOf[d] /\ impl[s][d] > 0
      BY <1>3, <2>1, <2>7 DEF Runs
    <3>2. GroupOf[d] # None
      BY <1>0, <1>3, <2>7 DEF Asked, Started, Known
    <3>3. home'[s] = home[s]
      BY <1>9, <1>12, <3>1, <3>2
    <3>4. QED BY <1>11, <3>1, <3>3
  <2>8. Runs'
    BY <2>5, <2>6, <2>7 DEF Runs
  <2>9. QED BY <2>3, <2>4, <2>8
<1>22. QED BY <1>13, <1>14, <1>16, <1>17, <1>18, <1>19, <1>20, <1>21 DEF DepInv, Core
-----------------------------------------------------------------------------
LEMMA DepInductive == DepInv /\ [Next]_vars => DepInv'
<1> SUFFICES ASSUME DepInv, [Next]_vars PROVE DepInv'
  OBVIOUS
<1>1. ASSUME UNCHANGED vars PROVE DepInv'
  <2>1. UNCHANGED <<mu, todo, groupVars, subVars, home, proc, letVars, fails>>
    BY <1>1 DEF vars, depVars, procVars
  <2>2. ImplTypes' /\ \A q \in Lets, d \in Comps : impl[q][d] > 0 => impl'[q][d] > 0
    BY <1>1 DEF DepInv, Core, TypeOK, AkasaletTypes, ImplTypes, vars, letVars
  <2>3. QED BY <1>1, <2>2, ImplInv DEF vars, letVars
<1>2. CASE StartRoot
  <2>1. ActiveComponent(RootRequest, Root) /\ UNCHANGED <<letVars, fails>> /\ Root \in Comps
    BY <1>2, DeploymentAssumption DEF StartRoot, DeploymentAssumption
  <2>2. QED BY <2>1, ActiveInv
<1>3. CASE Step
  <2>1. CASE (Assign \/ HasReplica \/ Notify \/ AppendEnvelope) /\ UNCHANGED <<letVars, fails>>
    BY <2>1, TellInv, LastInv
  <2>2. QED BY <1>3, <2>1, ReplicaInv, CallReturnsInv, UnlockInv DEF Step
<1>4. CASE Breaks
  BY <1>4, BreaksInv
<1>5. CASE Ending \/ \E p \in Lets : Die(p) \/ Kill(p)
  BY <1>5, StopInv
<1>6. ASSUME NEW p \in Lets, NEW c \in Comps, Subscribe(p, c) PROVE DepInv'
  BY <1>6, SubscribeInv
<1>7. ASSUME NEW p \in Lets, NEW c \in Comps, Active(p, c) PROVE DepInv'
  BY <1>7, ActiveInv DEF Active
<1>8. ASSUME NEW p \in Lets, NEW c \in Comps, LetStep(p, c) \/ \E q \in Lets : RemoteCall(q, p, c)
      PROVE  DepInv'
  BY <1>8, LetInv
<1>9. QED BY <1>1, <1>2, <1>3, <1>4, <1>5, <1>6, <1>7, <1>8 DEF Next

LEMMA HealthyIsWell == DepInv /\ Healthy => Well
<1> SUFFICES ASSUME DepInv, Healthy PROVE Well
  OBVIOUS
<1>1. IsFiniteSet(Dead)
  BY DeploymentAssumption, FS_Subset DEF DeploymentAssumption, Dead
<1>2. Cardinality(Dead) \in Nat /\ fails \in Nat
  BY <1>1, FS_CardinalityType, DeploymentAssumption
     DEF DepInv, Core, TypeOK, ProcessTypes, DeploymentAssumption
<1>3. Cardinality(Dead) = 0 /\ fails = 0
  BY <1>2 DEF Healthy, Trouble
<1>4. QED BY <1>1, <1>3, FS_EmptySet DEF Well

LEMMA LocalAgreesInv == DepInv => LocalAgrees
<1> SUFFICES ASSUME DepInv PROVE LocalAgrees
  OBVIOUS
<1>1. Calling => ~Rejected(Head(todo))
  <2> SUFFICES ASSUME Calling PROVE ~Rejected(Head(todo))
    OBVIOUS
  <2>1. Core /\ SectionTypes /\ Final(todo)
    BY DEF DepInv, Core, TypeOK, Section
  <2>2. Head(todo) \in Ops /\ Head(todo).op \in Calls
    BY <2>1, PoppedOps DEF Calling
  <2>3. QED BY <2>1, <2>2, NeverRejected
<1>2. ASSUME Healthy, NEW p \in Lets, NEW c \in Comps, act[p][c] = "returned"
      PROVE  local[p][c] # "unset" /\ \E q \in Lets : home[q] = GroupOf[c] /\ impl[q][c] > 0
  <2>1. Heard /\ Runs
    BY <1>2, HealthyIsWell DEF DepInv
  <2>2. Known(c)
    BY <1>2 DEF DepInv, Core, Asked, Started
  <2>3. QED BY <1>2, <2>1, <2>2 DEF Heard, Runs
<1>3. QED BY <1>1, <1>2 DEF LocalAgrees

LEMMA RoutingCurrentInv == DepInv => RoutingCurrent
<1> SUFFICES ASSUME DepInv, mu = Free, Healthy, NEW g \in Comps, NEW c \in started[g], NEW p \in Subscribers(c)
             PROVE  /\ ends[p][c] = addresses[GroupOf[c]]
                    /\ version[p][c] = assignment[c].version /\ over[p][c] = assignment[c].over
                    /\ assignment[c].version > 0 => assignment[c].over = addresses[GroupOf[c]]
  BY DEF RoutingCurrent
<1>1. c \in Comps /\ Started(c)
  BY DeploymentAssumption DEF DepInv, Core, TypeOK, BookTypes, Listed, Started, Known, DeploymentAssumption
<1>2. Current(p, c)
  BY <1>1, HealthyIsWell, Between
<1>3. assignment[c].version > 0 => assignment[c].over = addresses[GroupOf[c]]
  BY <1>1 DEF DepInv, Assigned
<1>4. QED BY <1>2, <1>3 DEF Current

(* The deployer's books, the sections in progress, the processes and what  *)
(* the akasalets know keep their types, and no akasalet subscribes twice.  *)
THEOREM DeploymentTypeCorrect == Spec => []TypeOK
<1>1. DepInv => TypeOK
  BY DEF DepInv, Core
<1>2. QED BY <1>1, InitInv, DepInductive, PTL DEF Spec

(* No routing info is rejected because an akasalet was told something else *)
(* before, whichever calls and processes fail; and while nothing fails, a  *)
(* component whose activation was answered runs in an akasalet of its      *)
(* group and the one that asked knows whether that is itself.              *)
THEOREM LocalAgreesCorrect == Spec => []LocalAgrees
<1>1. QED BY LocalAgreesInv, InitInv, DepInductive, PTL DEF Spec

(* While nothing fails, between two sections of the deployer every         *)
(* subscriber of a started component has the replicas of its group and the *)
(* deployer's assignment, which is over these replicas.                    *)
THEOREM RoutingCurrentCorrect == Spec => []RoutingCurrent
<1>1. QED BY RoutingCurrentInv, InitInv, DepInductive, PTL DEF Spec
=============================================================================
