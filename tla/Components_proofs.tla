-------------------------- MODULE Components_proofs -------------------------
(***************************************************************************)
(* Components are wired once and in order, for any number of components    *)
(* and threads, any references between them and any depth of the           *)
(* recursion.  The inductive invariant says what a frame of a stack knows: *)
(* it makes a component nobody else has made, the references it has filled *)
(* stay filled, and it waits for the component of the frame above it.      *)
(*                                                                         *)
(* The second part is about the code generator, which decides whether what *)
(* components send can be encoded: its verdict is right for any types and  *)
(* any order in which they are checked.                                    *)
(***************************************************************************)
EXTENDS Components, Analysis, SequenceTheorems, FiniteSetTheorems, WellFoundedInduction, TLAPS

Stages  == {"enter", "route", "refs", "listen", "init"}
Frames  == [comp : Comps, stage : Stages, next : Nat \ {0}]
Answers == [ok : BOOLEAN, obj : Nat, some : BOOLEAN]

TypeOK ==
  /\ mode \in {"single", "remote"} /\ refs \in [Comps -> Seq(Comps)] /\ regs \subseteq Comps
  /\ once \in [Comps -> {"new", "running", "ok", "err"}]
  /\ activated \in [Comps -> {"new", "ok", "err"}]
  /\ local \in [Comps -> BOOLEAN \cup {nil}]
  /\ made \in [Comps -> Nat] /\ done \in [Comps -> Nat]
  /\ stack \in [Threads -> Seq(Frames)] /\ ret \in [Threads -> Answers]
  /\ uses \subseteq Comps \X Comps \X Nat

(* A frame whose object has been made and is not stored yet.               *)
Making(f) == f.stage \in {"refs", "listen", "init"}

(* The reference of k to d is filled.                                      *)
Resolved(k, d) ==
  /\ d \in regs
  /\ \/ d \in fakes
     \/ mode = "remote" /\ local[d] = FALSE
     \/ done[d] # 0 /\ <<k, d, done[d]>> \in uses

FrameOK(f) ==
  /\ f.comp \in regs
  /\ ~Making(f) => f.next = 1
  /\ f.stage = "route" => mode = "remote"
  /\ Making(f) =>
       /\ f.comp \notin fakes /\ made[f.comp] # 0 /\ done[f.comp] = 0
       /\ mode = "remote" => once[f.comp] = "running"
       /\ \A k \in 1 .. Len(refs[f.comp]) :
            (f.stage = "refs" => k < f.next) => Resolved(f.comp, refs[f.comp][k])

Waits(f, d) == f.stage = "refs" /\ f.next <= Len(refs[f.comp]) /\ refs[f.comp][f.next] = d

Nested ==
  \A t \in Threads : \A i \in 1 .. Len(stack[t]) :
    /\ FrameOK(stack[t][i])
    /\ i > 1 => Waits(stack[t][i], stack[t][i - 1].comp)

(* A sync.Once has one caller inside.                                      *)
Alone ==
  mode = "remote" =>
    \A t, u \in Threads : \A i \in 1 .. Len(stack[t]), j \in 1 .. Len(stack[u]) :
      /\ Making(stack[t][i]) /\ Making(stack[u][j])
      /\ stack[t][i].comp = stack[u][j].comp
      => t = u /\ i = j

Locked == mode = "single" => \A t \in Threads : Busy(t) => mu = t

(* n is what a reference to d may be filled with.                          *)
Brings(d, n) ==
  /\ d \in regs
  /\ IF n = 0 THEN d \in fakes \/ (mode = "remote" /\ local[d] = FALSE) ELSE done[d] = n

AnswerOK(t) ==
  /\ ret[t].ok => ret[t].some
  /\ Busy(t) /\ ret[t].some =>
       /\ Top(t).stage = "refs" /\ Top(t).next <= Len(refs[Top(t).comp])
       /\ ret[t].ok => Brings(refs[Top(t).comp][Top(t).next], ret[t].obj)

Answered == \A t \in Threads : AnswerOK(t)

Stored ==
  /\ \A k \in Comps : once[k] = "ok" /\ k \notin fakes => done[k] # 0
  /\ mode = "remote" =>
       \A k \in Comps : made[k] <= 1 /\ (once[k] = "new" => made[k] = 0 /\ done[k] = 0)
  /\ \A u \in uses : u[3] # 0 /\ u[3] = done[u[2]]

Chain == Nested /\ Alone /\ Locked /\ Answered

WiredInv == TypeOK /\ Chain /\ Stored /\ RefsFirst
-----------------------------------------------------------------------------
(* What a step does to the stack of t, frame by frame.                     *)

Others(t) ==
  /\ stack' \in [Threads -> Seq(Frames)]
  /\ \A u \in Threads \ {t} : stack'[u] = stack[u]

OnTop(t, g) ==
  /\ Others(t)
  /\ Len(stack'[t]) = Len(stack[t]) /\ stack'[t][1] = g
  /\ \A i \in 2 .. Len(stack[t]) : stack'[t][i] = stack[t][i]

Pushed(t, g) ==
  /\ Others(t)
  /\ Len(stack'[t]) = Len(stack[t]) + 1 /\ stack'[t][1] = g
  /\ \A i \in 1 .. Len(stack[t]) : stack'[t][i + 1] = stack[t][i]

Popped(t) ==
  /\ Others(t)
  /\ Len(stack'[t]) = Len(stack[t]) - 1
  /\ \A i \in 1 .. Len(stack'[t]) : stack'[t][i] = stack[t][i + 1]

LEMMA BusyHasTop ==
  ASSUME TypeOK, NEW t \in Threads, Busy(t)
  PROVE  Len(stack[t]) \in Nat \ {0} /\ Top(t) \in Frames /\ 1 \in 1 .. Len(stack[t])
BY EmptySeq, LenProperties DEF TypeOK, Busy, Top

LEMMA OnTopEffect ==
  ASSUME TypeOK, NEW t \in Threads, Busy(t), NEW g \in Frames,
         stack' = [stack EXCEPT ![t] = [@ EXCEPT ![1] = g]]
  PROVE  OnTop(t, g)
<1>1. stack[t] \in Seq(Frames) /\ 1 \in 1 .. Len(stack[t])
  BY BusyHasTop DEF TypeOK
<1>2. /\ [stack[t] EXCEPT ![1] = g] \in Seq(Frames)
      /\ Len([stack[t] EXCEPT ![1] = g]) = Len(stack[t])
      /\ \A j \in 1 .. Len(stack[t]) : [stack[t] EXCEPT ![1] = g][j] = IF j = 1 THEN g ELSE stack[t][j]
  BY <1>1, ExceptSeq
<1>3. stack'[t] = [stack[t] EXCEPT ![1] = g]
  BY DEF TypeOK
<1>4. Len(stack[t]) \in Nat
  BY <1>1, LenProperties
<1>5. Others(t)
  BY <1>2 DEF Others, TypeOK
<1>6. QED BY <1>1, <1>2, <1>3, <1>4, <1>5 DEF OnTop

LEMMA ToEffect ==
  ASSUME TypeOK, NEW t \in Threads, Busy(t), NEW s \in Stages, To(t, s)
  PROVE  OnTop(t, [Top(t) EXCEPT !.stage = s])
<1>1. [Top(t) EXCEPT !.stage = s] \in Frames
  BY BusyHasTop DEF Frames
<1>2. stack' = [stack EXCEPT ![t] = [@ EXCEPT ![1] = [Top(t) EXCEPT !.stage = s]]]
  BY DEF To, Top
<1>3. QED BY <1>1, <1>2, OnTopEffect

LEMMA SetRefEffect ==
  ASSUME TypeOK, NEW t \in Threads, Busy(t), SetRef(t)
  PROVE  OnTop(t, [Top(t) EXCEPT !.next = @ + 1])
<1>1. [Top(t) EXCEPT !.next = @ + 1] \in Frames
  BY BusyHasTop DEF Frames
<1>2. stack' = [stack EXCEPT ![t] = [@ EXCEPT ![1] = [Top(t) EXCEPT !.next = @ + 1]]]
  BY DEF SetRef, Top
<1>3. QED BY <1>1, <1>2, OnTopEffect

LEMMA PushEffect ==
  ASSUME TypeOK, NEW t \in Threads, NEW g \in Frames, Push(t, g)
  PROVE  Pushed(t, g)
<1>1. stack[t] \in Seq(Frames) /\ <<g>> \in Seq(Frames) /\ Len(<<g>>) = 1 /\ <<g>>[1] = g
  BY DEF TypeOK
<1>2. /\ <<g>> \o stack[t] \in Seq(Frames)
      /\ Len(<<g>> \o stack[t]) = 1 + Len(stack[t])
      /\ \A i \in 1 .. 1 + Len(stack[t]) :
           (<<g>> \o stack[t])[i] = IF i <= 1 THEN <<g>>[i] ELSE stack[t][i - 1]
  BY <1>1, ConcatProperties
<1>3. stack'[t] = <<g>> \o stack[t]
  BY DEF TypeOK, Push
<1>4. Len(stack[t]) \in Nat
  BY <1>1, LenProperties
<1>5. Others(t)
  BY <1>2 DEF Others, TypeOK, Push
<1>6. stack'[t][1] = g
  BY <1>1, <1>2, <1>3, <1>4
<1>7. ASSUME NEW i \in 1 .. Len(stack[t])
      PROVE  stack'[t][i + 1] = stack[t][i]
  <2>1. i + 1 \in 1 .. 1 + Len(stack[t]) /\ ~(i + 1 <= 1) /\ (i + 1) - 1 = i
    BY <1>4
  <2>2. QED BY <2>1, <1>2, <1>3
<1>8. QED BY <1>2, <1>3, <1>4, <1>5, <1>6, <1>7 DEF Pushed

LEMMA ReturnEffect ==
  ASSUME TypeOK, NEW t \in Threads, Busy(t), NEW r, Return(t, r)
  PROVE  Popped(t)
<1>1. stack[t] \in Seq(Frames) /\ stack[t] # <<>>
  BY DEF TypeOK, Busy
<1>2. /\ Tail(stack[t]) \in Seq(Frames)
      /\ Len(Tail(stack[t])) = Len(stack[t]) - 1
      /\ \A i \in 1 .. Len(Tail(stack[t])) : Tail(stack[t])[i] = stack[t][i + 1]
  BY <1>1, HeadTailProperties
<1>3. stack'[t] = Tail(stack[t])
  BY DEF TypeOK, Return
<1>4. Others(t)
  BY <1>2 DEF Others, TypeOK, Return
<1>5. QED BY <1>2, <1>3, <1>4 DEF Popped
-----------------------------------------------------------------------------
(* References that are filled stay filled.                                 *)
Grows ==
  /\ uses \subseteq uses'
  /\ \A d \in Comps : /\ local[d] = FALSE => local'[d] = FALSE
                      /\ done[d] # 0 => done'[d] = done[d]

(* The frames other than the n on top of t's stack keep what they know.    *)
Kept(t, n) ==
  \A u \in Threads : \A i \in 1 .. Len(stack[u]) :
    u # t \/ i > n => \A f \in Frames : f = stack[u][i] => FrameOK(f)'

LEMMA FrameKept ==
  ASSUME TypeOK, UNCHANGED fixed, Grows, NEW f \in Frames, FrameOK(f),
         Making(f) => /\ made'[f.comp] # 0 /\ done'[f.comp] = 0
                      /\ mode = "remote" => once'[f.comp] = "running"
  PROVE  FrameOK(f)'
<1>1. ASSUME NEW k \in Comps, NEW d, Resolved(k, d)
      PROVE  d \in regs /\ (d \in fakes \/ (mode = "remote" /\ local'[d] = FALSE)
                             \/ (done'[d] # 0 /\ <<k, d, done'[d]>> \in uses'))
  BY <1>1 DEF Resolved, Grows, TypeOK
<1>2. mode' = mode /\ regs' = regs /\ fakes' = fakes /\ refs' = refs /\ f.comp \in Comps
  BY DEF fixed, Frames
<1>3. QED BY <1>1, <1>2 DEF FrameOK, Resolved, Making

LEMMA TopNested ==
  ASSUME TypeOK, Nested, UNCHANGED fixed, NEW t \in Threads, Busy(t), NEW g \in Frames,
         OnTop(t, g), g.comp = Top(t).comp, FrameOK(g)', Kept(t, 1)
  PROVE  Nested'
<1> SUFFICES ASSUME NEW u \in Threads, NEW i \in 1 .. Len(stack'[u])
             PROVE  /\ FrameOK(stack[u][i])'
                    /\ i > 1 => Waits(stack[u][i], stack[u][i - 1].comp)'
  BY DEF Nested
<1>0. Len(stack[t]) \in Nat \ {0} /\ refs' = refs
  BY BusyHasTop DEF fixed
<1>1. CASE u # t
  <2>1. stack'[u] = stack[u] /\ stack[u] \in Seq(Frames)
    BY <1>1 DEF OnTop, Others, TypeOK
  <2>2. PICK f \in Frames : f = stack[u][i]
    BY <2>1, ElementOfSeq
  <2>3. FrameOK(f)'
    BY <2>1, <2>2, <1>1 DEF Kept
  <2>4. QED BY <2>1, <2>2, <2>3, <1>0 DEF Nested, Waits
<1>2. CASE u = t /\ i = 1
  <2>1. stack'[u][i] = g
    BY <1>2 DEF OnTop
  <2>2. QED BY <1>2, <2>1
<1>3. CASE u = t /\ i # 1
  <2>1. i \in 1 .. Len(stack[t]) /\ i > 1 /\ i \in 2 .. Len(stack[t]) /\ stack'[t][i] = stack[t][i]
    BY <1>0, <1>3 DEF OnTop
  <2>2. stack'[t][i - 1].comp = stack[t][i - 1].comp
    BY <1>0, <2>1 DEF OnTop, Top
  <2>3. stack[t] \in Seq(Frames)
    BY DEF TypeOK
  <2>4. PICK f \in Frames : f = stack[t][i]
    BY <2>1, <2>3, ElementOfSeq
  <2>5. FrameOK(f)'
    BY <2>1, <2>4 DEF Kept
  <2>6. Waits(stack[t][i], stack[t][i - 1].comp)
    BY <2>1 DEF Nested
  <2>7. QED BY <1>3, <2>1, <2>2, <2>4, <2>5, <2>6, <1>0 DEF Waits
<1>4. QED BY <1>1, <1>2, <1>3
LEMMA PushNested ==
  ASSUME TypeOK, Nested, UNCHANGED fixed, NEW t \in Threads, NEW g \in Frames,
         Pushed(t, g), Busy(t) => Waits(Top(t), g.comp), FrameOK(g)', Kept(t, 0)
  PROVE  Nested'
<1> SUFFICES ASSUME NEW u \in Threads, NEW i \in 1 .. Len(stack'[u])
             PROVE  /\ FrameOK(stack[u][i])'
                    /\ i > 1 => Waits(stack[u][i], stack[u][i - 1].comp)'
  BY DEF Nested
<1>0. /\ stack[t] \in Seq(Frames) /\ Len(stack[t]) \in Nat /\ refs' = refs
      /\ Len(stack[t]) > 0 => Busy(t)
  BY LenProperties, EmptySeq DEF TypeOK, fixed, Busy
<1>1. CASE u # t
  <2>1. stack'[u] = stack[u] /\ stack[u] \in Seq(Frames)
    BY <1>1 DEF Pushed, Others, TypeOK
  <2>2. PICK f \in Frames : f = stack[u][i]
    BY <2>1, ElementOfSeq
  <2>3. FrameOK(f)'
    BY <2>1, <2>2, <1>1 DEF Kept
  <2>4. QED BY <2>1, <2>2, <2>3, <1>0 DEF Nested, Waits
<1>2. CASE u = t /\ i = 1
  <2>1. stack'[u][i] = g
    BY <1>2 DEF Pushed
  <2>2. QED BY <1>2, <2>1
<1>3. CASE u = t /\ i # 1
  <2>1. PICK j \in 1 .. Len(stack[t]) : i = j + 1
    <3>1. i - 1 \in 1 .. Len(stack[t]) /\ i = (i - 1) + 1
      BY <1>0, <1>3 DEF Pushed
    <3>2. QED BY <3>1
  <2>2. stack'[t][i] = stack[t][j]
    BY <2>1 DEF Pushed
  <2>3. PICK f \in Frames : f = stack[t][j]
    BY <2>1, <1>0, ElementOfSeq
  <2>4. FrameOK(f)'
    BY <2>1, <2>3, <1>0 DEF Kept
  <2>5. Waits(stack[t][j], stack'[t][i - 1].comp)
    <3>1. CASE j = 1
      BY <3>1, <2>1, <1>0 DEF Pushed, Top
    <3>2. CASE j # 1
      <4>1. j - 1 \in 1 .. Len(stack[t]) /\ i - 1 = (j - 1) + 1 /\ j > 1
        BY <3>2, <2>1, <1>0
      <4>2. stack'[t][i - 1] = stack[t][j - 1]
        BY <4>1 DEF Pushed
      <4>3. QED BY <4>1, <4>2 DEF Nested
    <3>3. QED BY <3>1, <3>2
  <2>6. QED BY <1>3, <2>2, <2>3, <2>4, <2>5, <1>0 DEF Waits
<1>4. QED BY <1>1, <1>2, <1>3

LEMMA PopNested ==
  ASSUME TypeOK, Nested, UNCHANGED fixed, NEW t \in Threads, Busy(t), Popped(t), Kept(t, 1)
  PROVE  Nested'
<1> SUFFICES ASSUME NEW u \in Threads, NEW i \in 1 .. Len(stack'[u])
             PROVE  /\ FrameOK(stack[u][i])'
                    /\ i > 1 => Waits(stack[u][i], stack[u][i - 1].comp)'
  BY DEF Nested
<1>0. stack[t] \in Seq(Frames) /\ Len(stack[t]) \in Nat \ {0} /\ refs' = refs
  BY BusyHasTop DEF TypeOK, fixed
<1>1. CASE u # t
  <2>1. stack'[u] = stack[u] /\ stack[u] \in Seq(Frames)
    BY <1>1 DEF Popped, Others, TypeOK
  <2>2. PICK f \in Frames : f = stack[u][i]
    BY <2>1, ElementOfSeq
  <2>3. FrameOK(f)'
    BY <2>1, <2>2, <1>1 DEF Kept
  <2>4. QED BY <2>1, <2>2, <2>3, <1>0 DEF Nested, Waits
<1>2. CASE u = t
  <2>1. /\ i + 1 \in 1 .. Len(stack[t]) /\ i + 1 > 1 /\ (i + 1) - 1 = i
        /\ stack'[t][i] = stack[t][i + 1]
    BY <1>0, <1>2 DEF Popped
  <2>2. i > 1 => stack'[t][i - 1] = stack[t][i]
    BY <1>0, <1>2 DEF Popped
  <2>3. PICK f \in Frames : f = stack[t][i + 1]
    BY <2>1, <1>0, ElementOfSeq
  <2>4. FrameOK(f)'
    BY <2>1, <2>3 DEF Kept
  <2>5. Waits(stack[t][i + 1], stack[t][i].comp)
    BY <2>1 DEF Nested
  <2>6. QED BY <1>2, <2>1, <2>2, <2>3, <2>4, <2>5, <1>0 DEF Waits
<1>3. QED BY <1>1, <1>2
-----------------------------------------------------------------------------
(* Nobody but the top of t's stack makes component k.                      *)
NoneElse(t, k) ==
  \A u \in Threads : \A i \in 1 .. Len(stack[u]) :
    (u # t \/ i > 1) /\ Making(stack[u][i]) => stack[u][i].comp # k

LEMMA AloneMeans ==
  ASSUME TypeOK, Alone, mode = "remote", NEW t \in Threads, Busy(t), Making(Top(t))
  PROVE  NoneElse(t, Top(t).comp)
BY BusyHasTop DEF Alone, NoneElse, Top

LEMMA TopAlone ==
  ASSUME TypeOK, Alone, UNCHANGED fixed, NEW t \in Threads, Busy(t), NEW g \in Frames,
         OnTop(t, g), mode = "remote" /\ Making(g) => NoneElse(t, g.comp)
  PROVE  Alone'
<1> SUFFICES ASSUME mode = "remote", NEW u \in Threads, NEW v \in Threads,
                    NEW i \in 1 .. Len(stack'[u]), NEW j \in 1 .. Len(stack'[v]),
                    Making(stack'[u][i]), Making(stack'[v][j]), stack'[u][i].comp = stack'[v][j].comp
             PROVE  u = v /\ i = j
  BY DEF Alone, fixed, Making
<1>0. Len(stack[t]) \in Nat \ {0}
  BY BusyHasTop
<1>1. ASSUME NEW w \in Threads, NEW k \in 1 .. Len(stack'[w])
      PROVE  /\ k \in 1 .. Len(stack[w])
             /\ w # t \/ k > 1 => stack'[w][k] = stack[w][k]
             /\ w = t /\ k = 1 => stack'[w][k] = g
  BY <1>0 DEF OnTop, Others
<1>2. CASE (u # t \/ i > 1) /\ (v # t \/ j > 1)
  <2>1. /\ i \in 1 .. Len(stack[u]) /\ j \in 1 .. Len(stack[v])
        /\ Making(stack[u][i]) /\ Making(stack[v][j]) /\ stack[u][i].comp = stack[v][j].comp
    BY <1>1, <1>2
  <2>2. QED BY <2>1 DEF Alone
<1>3. CASE u = t /\ ~(i > 1)
  <2>1. i = 1 /\ Making(g)
    BY <1>1, <1>3, <1>0
  <2>2. CASE v # t \/ j > 1
    BY <1>1, <1>3, <2>1, <2>2 DEF NoneElse
  <2>3. QED BY <1>0, <1>1, <1>3, <2>1, <2>2
<1>4. CASE v = t /\ ~(j > 1)
  <2>1. j = 1 /\ Making(g)
    BY <1>1, <1>4, <1>0
  <2>2. CASE u # t \/ i > 1
    BY <1>1, <1>4, <2>1, <2>2 DEF NoneElse
  <2>3. QED BY <1>0, <1>1, <1>4, <2>1, <2>2
<1>5. QED BY <1>2, <1>3, <1>4

LEMMA PushAlone ==
  ASSUME TypeOK, Alone, UNCHANGED fixed, NEW t \in Threads, NEW g \in Frames,
         Pushed(t, g), ~Making(g)
  PROVE  Alone'
<1> SUFFICES ASSUME mode = "remote", NEW u \in Threads, NEW v \in Threads,
                    NEW i \in 1 .. Len(stack'[u]), NEW j \in 1 .. Len(stack'[v]),
                    Making(stack'[u][i]), Making(stack'[v][j]), stack'[u][i].comp = stack'[v][j].comp
             PROVE  u = v /\ i = j
  BY DEF Alone, fixed, Making
<1>1. ASSUME NEW w \in Threads, NEW k \in 1 .. Len(stack'[w]), Making(stack'[w][k])
      PROVE  \E l \in 1 .. Len(stack[w]) : stack[w][l] = stack'[w][k] /\ (k = IF w = t THEN l + 1 ELSE l)
  <2>1. CASE w # t
    BY <2>1 DEF Pushed, Others
  <2>2. CASE w = t
    <3>1. k # 1
      BY <1>1, <2>2 DEF Pushed
    <3>2. Len(stack[t]) \in Nat
      BY LenProperties DEF TypeOK
    <3>3. k - 1 \in 1 .. Len(stack[t]) /\ k = (k - 1) + 1
      BY <2>2, <3>1, <3>2 DEF Pushed
    <3>4. stack'[t][k] = stack[t][k - 1]
      BY <3>3 DEF Pushed
    <3>5. QED BY <2>2, <3>3, <3>4
  <2>3. QED BY <2>1, <2>2
<1>2. PICK k \in 1 .. Len(stack[u]) : stack[u][k] = stack'[u][i] /\ (i = IF u = t THEN k + 1 ELSE k)
  BY <1>1
<1>3. PICK l \in 1 .. Len(stack[v]) : stack[v][l] = stack'[v][j] /\ (j = IF v = t THEN l + 1 ELSE l)
  BY <1>1
<1>4. u = v /\ k = l
  <2>1. Making(stack[u][k]) /\ Making(stack[v][l]) /\ stack[u][k].comp = stack[v][l].comp
    BY <1>2, <1>3
  <2>2. QED BY <2>1 DEF Alone
<1>5. QED BY <1>2, <1>3, <1>4

LEMMA PopAlone ==
  ASSUME TypeOK, Alone, UNCHANGED fixed, NEW t \in Threads, Busy(t), Popped(t)
  PROVE  Alone'
<1> SUFFICES ASSUME mode = "remote", NEW u \in Threads, NEW v \in Threads,
                    NEW i \in 1 .. Len(stack'[u]), NEW j \in 1 .. Len(stack'[v]),
                    Making(stack'[u][i]), Making(stack'[v][j]), stack'[u][i].comp = stack'[v][j].comp
             PROVE  u = v /\ i = j
  BY DEF Alone, fixed, Making
<1>1. ASSUME NEW w \in Threads, NEW k \in 1 .. Len(stack'[w])
      PROVE  \E l \in 1 .. Len(stack[w]) : stack[w][l] = stack'[w][k] /\ (l = IF w = t THEN k + 1 ELSE k)
  <2>1. CASE w = t
    <3>1. Len(stack[t]) \in Nat /\ Len(stack'[t]) = Len(stack[t]) - 1 /\ k \in 1 .. Len(stack'[t])
      BY <1>1, <2>1, BusyHasTop DEF Popped
    <3>2. k + 1 \in 1 .. Len(stack[t])
      BY <3>1
    <3>3. stack[t][k + 1] = stack'[t][k]
      BY <3>1 DEF Popped
    <3>4. QED BY <2>1, <3>2, <3>3
  <2>2. CASE w # t
    BY <1>1, <2>2 DEF Popped, Others
  <2>3. QED BY <2>1, <2>2
<1>2. PICK k \in 1 .. Len(stack[u]) : stack[u][k] = stack'[u][i] /\ (k = IF u = t THEN i + 1 ELSE i)
  BY <1>1
<1>3. PICK l \in 1 .. Len(stack[v]) : stack[v][l] = stack'[v][j] /\ (l = IF v = t THEN j + 1 ELSE j)
  BY <1>1
<1>4. u = v /\ k = l
  <2>1. Making(stack[u][k]) /\ Making(stack[v][l]) /\ stack[u][k].comp = stack[v][l].comp
    BY <1>2, <1>3
  <2>2. QED BY <2>1 DEF Alone
<1>5. QED BY <1>2, <1>3, <1>4
-----------------------------------------------------------------------------
LEMMA KeptIf ==
  ASSUME TypeOK, Nested, UNCHANGED fixed, Grows, NEW t \in Threads, NEW n \in Nat,
         \A u \in Threads : \A i \in 1 .. Len(stack[u]) : \A k \in Comps :
           (u # t \/ i > n) /\ Making(stack[u][i]) /\ stack[u][i].comp = k =>
             /\ made'[k] # 0 /\ done'[k] = 0
             /\ mode = "remote" => once'[k] = "running"
  PROVE  Kept(t, n)
<1> SUFFICES ASSUME NEW u \in Threads, NEW i \in 1 .. Len(stack[u]), u # t \/ i > n,
                    NEW f \in Frames, f = stack[u][i]
             PROVE  FrameOK(f)'
  BY DEF Kept
<1>1. FrameOK(f) /\ f.comp \in Comps
  BY DEF Nested, Frames
<1>2. Making(f) => /\ made'[f.comp] # 0 /\ done'[f.comp] = 0
                   /\ mode = "remote" => once'[f.comp] = "running"
  BY <1>1
<1>3. QED BY <1>1, <1>2, FrameKept

LEMMA MakingMeans ==
  ASSUME TypeOK, Nested, NEW u \in Threads, NEW i \in 1 .. Len(stack[u]), Making(stack[u][i])
  PROVE  LET k == stack[u][i].comp
         IN  /\ k \in Comps /\ k \notin fakes /\ made[k] # 0 /\ done[k] = 0
             /\ mode = "remote" => once[k] = "running"
BY ElementOfSeq DEF TypeOK, Nested, FrameOK, Frames

LEMMA KeptQuiet ==
  ASSUME TypeOK, Nested, UNCHANGED <<fixed, made, done, once>>, Grows, NEW t \in Threads, NEW n \in Nat
  PROVE  Kept(t, n)
<1>1. \A u \in Threads : \A i \in 1 .. Len(stack[u]) : \A k \in Comps :
        (u # t \/ i > n) /\ Making(stack[u][i]) /\ stack[u][i].comp = k =>
          /\ made'[k] # 0 /\ done'[k] = 0
          /\ mode = "remote" => once'[k] = "running"
  BY MakingMeans
<1>2. QED BY <1>1, KeptIf

LEMMA AnswerKept ==
  ASSUME TypeOK, UNCHANGED fixed, Grows, NEW u \in Threads, AnswerOK(u),
         stack'[u] = stack[u], ret'[u] = ret[u]
  PROVE  AnswerOK(u)'
<1>1. ASSUME NEW d, NEW n, Brings(d, n)
      PROVE  d \in regs /\ (IF n = 0 THEN d \in fakes \/ (mode = "remote" /\ local'[d] = FALSE)
                            ELSE done'[d] = n)
  BY <1>1 DEF Brings, Grows, TypeOK
<1>2. refs' = refs /\ regs' = regs /\ fakes' = fakes /\ mode' = mode
  BY DEF fixed
<1>3. Busy(u)' = Busy(u) /\ Top(u)' = Top(u)
  BY DEF Busy, Top
<1>4. ret[u].ok => ret[u].some
  BY DEF AnswerOK
<1>5. CASE Busy(u) /\ ret[u].some
  <2>1. /\ Top(u).stage = "refs" /\ Top(u).next <= Len(refs[Top(u).comp])
        /\ ret[u].ok => Brings(refs[Top(u).comp][Top(u).next], ret[u].obj)
    BY <1>5 DEF AnswerOK
  <2>2. ret[u].ok => Brings(refs[Top(u).comp][Top(u).next], ret[u].obj)'
    BY ZenonT(60), <2>1, <1>1, <1>2, <1>3 DEF Brings
  <2>3. QED BY <2>1, <2>2, <1>2, <1>3, <1>4 DEF AnswerOK
<1>6. CASE ~(Busy(u) /\ ret[u].some)
  BY <1>3, <1>4, <1>6 DEF AnswerOK
<1>7. QED BY <1>5, <1>6

LEMMA BusyNext ==
  ASSUME TypeOK, NEW t \in Threads, stack' \in [Threads -> Seq(Frames)]
  PROVE  Busy(t)' <=> Len(stack'[t]) > 0
<1>1. stack'[t] \in Seq(Frames)
  OBVIOUS
<1>2. stack'[t] # <<>> <=> Len(stack'[t]) > 0
  BY <1>1, EmptySeq
<1>3. QED BY <1>2 DEF Busy

(* The top frame moves on.                                                 *)
LEMMA TopChain ==
  ASSUME TypeOK, Chain, UNCHANGED <<fixed, mu>>, Grows, NEW t \in Threads, Busy(t),
         NEW g \in Frames, OnTop(t, g), g.comp = Top(t).comp, FrameOK(g)', Kept(t, 1),
         mode = "remote" /\ Making(g) => NoneElse(t, g.comp),
         \A u \in Threads \ {t} : ret'[u] = ret[u],
         AnswerOK(t)'
  PROVE  Chain'
<1>1. Nested'
  BY TopNested DEF Chain
<1>2. Alone'
  BY TopAlone DEF Chain
<1>3. Locked'
  BY DEF Chain, Locked, OnTop, Others, Busy, fixed
<1>4. ASSUME NEW u \in Threads \ {t} PROVE AnswerOK(u)'
  BY AnswerKept DEF Chain, Answered, OnTop, Others
<1>5. Answered'
  BY <1>4 DEF Answered
<1>6. QED BY <1>1, <1>2, <1>3, <1>5 DEF Chain

(* A call is made.                                                         *)
LEMMA PushChain ==
  ASSUME TypeOK, Chain, UNCHANGED fixed, Grows, NEW t \in Threads, NEW g \in Frames,
         Pushed(t, g), ~Making(g), FrameOK(g)', Kept(t, 0),
         Busy(t) => Waits(Top(t), g.comp),
         mode = "single" => mu' = t /\ mu \in {nil, t},
         \A u \in Threads \ {t} : ret'[u] = ret[u],
         ~ret'[t].some /\ ~ret'[t].ok
  PROVE  Chain'
<1>1. Nested'
  BY PushNested DEF Chain
<1>2. Alone'
  BY PushAlone DEF Chain
<1>3. Locked'
  BY ComponentsAssumption DEF Chain, Locked, Pushed, Others, Busy, fixed
<1>4. ASSUME NEW u \in Threads \ {t} PROVE AnswerOK(u)'
  BY AnswerKept DEF Chain, Answered, Pushed, Others
<1>5. Answered'
  BY <1>4 DEF Answered, AnswerOK
<1>6. QED BY <1>1, <1>2, <1>3, <1>5 DEF Chain

(* A call returns r.                                                       *)
LEMMA ReturnChain ==
  ASSUME TypeOK, Chain, UNCHANGED fixed, Grows, NEW t \in Threads, Busy(t),
         NEW r \in Answers, Return(t, r), Kept(t, 1), r.some,
         NEW d, d = Top(t).comp,
         r.ok => /\ d \in regs
                 /\ IF r.obj = 0 THEN d \in fakes \/ (mode = "remote" /\ local'[d] = FALSE)
                    ELSE done'[d] = r.obj
  PROVE  Chain'
<1>0. /\ Popped(t) /\ Len(stack[t]) \in Nat \ {0} /\ stack' \in [Threads -> Seq(Frames)]
      /\ \A u \in Threads \ {t} : stack'[u] = stack[u] /\ ret'[u] = ret[u]
      /\ ret'[t] = r
  BY ReturnEffect, BusyHasTop DEF Popped, Others, Return, TypeOK
<1>1. Nested'
  BY <1>0, PopNested DEF Chain
<1>2. Alone'
  BY <1>0, PopAlone DEF Chain
<1>3. Locked'
  <2>1. Busy(t)' => Len(stack[t]) # 1
    BY <1>0, BusyNext DEF Popped
  <2>2. QED BY <2>1, <1>0 DEF Chain, Locked, Busy, fixed, Return
<1>4. ASSUME NEW u \in Threads \ {t} PROVE AnswerOK(u)'
  BY <1>0, AnswerKept DEF Chain, Answered
<1>5. AnswerOK(t)'
  <2>1. CASE Busy(t)'
    <3>1. 2 \in 1 .. Len(stack[t]) /\ stack'[t][1] = stack[t][2]
      BY <2>1, <1>0, BusyNext DEF Popped
    <3>2. Waits(stack[t][2], stack[t][1].comp)
      BY <3>1 DEF Chain, Nested
    <3>3. QED BY <3>1, <3>2, <1>0 DEF Waits, AnswerOK, Top, Brings, fixed
  <2>2. CASE ~Busy(t)'
    BY <2>2, <1>0 DEF AnswerOK
  <2>3. QED BY <2>1, <2>2
<1>6. Answered'
  BY <1>4, <1>5 DEF Answered
<1>7. QED BY <1>1, <1>2, <1>3, <1>6 DEF Chain
-----------------------------------------------------------------------------
(* Types.                                                                  *)

LEMMA ReturnTypes ==
  ASSUME TypeOK, NEW t \in Threads, Busy(t), NEW r \in Answers, Return(t, r)
  PROVE  stack' \in [Threads -> Seq(Frames)] /\ ret' \in [Threads -> Answers]
BY ReturnEffect DEF Popped, Others, TypeOK, Return

LEMMA ToTypes ==
  ASSUME TypeOK, NEW t \in Threads, Busy(t), NEW s \in Stages, To(t, s)
  PROVE  stack' \in [Threads -> Seq(Frames)]
BY ToEffect DEF OnTop, Others

LEMMA PushTypes ==
  ASSUME TypeOK, NEW t \in Threads, NEW d \in Comps, NEW s \in Stages, Push(t, Frame(d, s))
  PROVE  stack' \in [Threads -> Seq(Frames)]
<1>1. Frame(d, s) \in Frames
  BY DEF Frame, Frames
<1>2. QED BY <1>1, PushEffect DEF Pushed, Others

LEMMA AnswerTypes ==
  /\ None \in Answers /\ Err \in Answers /\ Stub \in Answers
  /\ \A n \in Nat : Ok(n) \in Answers
BY DEF None, Err, Stub, Ok, Answers

LEMMA StepTypes ==
  ASSUME TypeOK, Answered, NEW t \in Threads, Step(t)
  PROVE  TypeOK'
<1>0. /\ Busy(t) /\ Top(t) \in Frames /\ Top(t).comp \in Comps /\ Top(t).next \in Nat \ {0}
  BY BusyHasTop DEF Step, Frames
<1>1. CASE Route(t)
  BY <1>0, <1>1, ReturnTypes, ToTypes, AnswerTypes DEF Route, TypeOK, fixed, Stages
<1>2. CASE Enter(t)
  <2>1. PICK k \in Comps : k = Top(t).comp
    BY <1>0
  <2>2. EnterRemote(t, k) \/ EnterSingle(t, k)
    BY <1>2, <2>1 DEF Enter
  <2>3. made[k] \in Nat /\ done[k] \in Nat
    BY DEF TypeOK
  <2>4. once' \in [Comps -> {"new", "running", "ok", "err"}] /\ made' \in [Comps -> Nat]
    <3>1. \/ once' = once
          \/ \E s \in {"ok", "running"} : once' = [once EXCEPT ![k] = s]
      BY <2>2 DEF EnterRemote, EnterSingle
    <3>2. made' = made \/ made' = [made EXCEPT ![k] = @ + 1]
      BY <2>2 DEF EnterRemote, EnterSingle, New
    <3>3. once \in [Comps -> {"new", "running", "ok", "err"}] /\ made \in [Comps -> Nat]
      BY DEF TypeOK
    <3>4. once' \in [Comps -> {"new", "running", "ok", "err"}]
      BY <3>1, <3>3
    <3>5. made' \in [Comps -> Nat]
      BY <2>3, <3>2, <3>3
    <3>6. QED BY <3>4, <3>5
  <2>5. \/ To(t, "refs") /\ UNCHANGED ret
        \/ Return(t, Ok(0)) \/ Return(t, Ok(done[k])) \/ Return(t, Err)
    BY <2>2 DEF EnterRemote, EnterSingle, New
  <2>6. stack' \in [Threads -> Seq(Frames)] /\ ret' \in [Threads -> Answers]
    BY <2>3, <2>5, <1>0, ReturnTypes, ToTypes, AnswerTypes DEF TypeOK, Stages
  <2>7. UNCHANGED <<mode, refs, regs, activated, local, done, uses>>
    BY <1>2 DEF Enter, fixed
  <2>8. QED BY <2>4, <2>6, <2>7 DEF TypeOK
<1>3. CASE FillRef(t)
  <2>1. PICK d \in Comps : d = refs[Top(t).comp][Top(t).next]
    <3>1. refs[Top(t).comp] \in Seq(Comps) /\ Top(t).next \in 1 .. Len(refs[Top(t).comp])
      BY <1>0, <1>3 DEF TypeOK, FillRef
    <3>2. QED BY <3>1, ElementOfSeq
  <2>2. GetIntf(t, d)
    BY <1>3, <2>1 DEF FillRef
  <2>3. ret' \in [Threads -> Answers] /\ activated' \in [Comps -> {"new", "ok", "err"}]
    BY <2>2, AnswerTypes DEF GetIntf, TypeOK
  <2>4. stack' \in [Threads -> Seq(Frames)]
    BY <2>2, PushTypes DEF GetIntf, TypeOK, Stages
  <2>5. QED BY <1>3, <2>3, <2>4 DEF FillRef, TypeOK, fixed
<1>4. CASE SetRef(t)
  <2>1. PICK d \in Comps : d = refs[Top(t).comp][Top(t).next]
    <3>1. refs[Top(t).comp] \in Seq(Comps) /\ Top(t).next \in 1 .. Len(refs[Top(t).comp])
      BY <1>0, <1>4 DEF TypeOK, SetRef, Answered, AnswerOK
    <3>2. QED BY <3>1, ElementOfSeq
  <2>2. stack' \in [Threads -> Seq(Frames)]
    BY <1>0, <1>4, SetRefEffect DEF OnTop, Others
  <2>3. ret' \in [Threads -> Answers]
    BY <1>4, AnswerTypes DEF SetRef, TypeOK
  <2>4. ret[t].obj \in Nat
    BY DEF TypeOK, Answers
  <2>5. uses' = uses \/ uses' = uses \cup {<<Top(t).comp, d, ret[t].obj>>}
    BY <1>4, <2>1 DEF SetRef
  <2>6. uses' \subseteq Comps \X Comps \X Nat
    <3>1. <<Top(t).comp, d, ret[t].obj>> \in Comps \X Comps \X Nat
      BY <1>0, <2>4
    <3>2. uses \subseteq Comps \X Comps \X Nat
      BY DEF TypeOK
    <3>3. QED BY <3>1, <3>2, <2>5
  <2>7. UNCHANGED <<mode, refs, regs, once, activated, local, made, done>>
    BY <1>4 DEF SetRef, fixed, state
  <2>8. QED BY <2>2, <2>3, <2>6, <2>7 DEF TypeOK
<1>5. CASE RefFails(t)
  BY <1>0, <1>5, ReturnTypes, AnswerTypes DEF RefFails, Fail, TypeOK, fixed
<1>6. CASE FilledRefs(t)
  BY <1>0, <1>6, ToTypes DEF FilledRefs, TypeOK, fixed, state, Stages
<1>7. CASE FillListener(t)
  BY <1>0, <1>7, ReturnTypes, ToTypes, AnswerTypes DEF FillListener, Fail, TypeOK, fixed, Stages
<1>8. CASE CallInit(t)
  BY <1>0, <1>8, ReturnTypes, AnswerTypes DEF CallInit, Finish, Fail, TypeOK, fixed
<1>9. QED BY <1>1, <1>2, <1>3, <1>4, <1>5, <1>6, <1>7, <1>8 DEF Step
-----------------------------------------------------------------------------
(* What is stored.                                                         *)

LEMMA GrowsQuiet ==
  ASSUME UNCHANGED <<local, done, uses>>
  PROVE  Grows
BY DEF Grows

LEMMA RefsKept ==
  ASSUME TypeOK, RefsFirst, UNCHANGED fixed, Grows,
         \A k \in Comps : done'[k] # 0 =>
           \/ done[k] # 0
           \/ \A d \in References(k) :
                /\ d \in regs
                /\ \/ d \in fakes
                   \/ mode = "remote" /\ local'[d] = FALSE
                   \/ done'[d] # 0 /\ <<k, d, done'[d]>> \in uses'
  PROVE  RefsFirst'
<1>1. /\ \A k \in Comps : References(k)' = References(k)
      /\ mode' = mode /\ regs' = regs /\ fakes' = fakes /\ regs \subseteq Comps
  BY DEF References, fixed, TypeOK
<1> SUFFICES ASSUME NEW k \in Comps, done'[k] # 0, NEW d \in References(k)
             PROVE  /\ d \in regs
                    /\ \/ d \in fakes
                       \/ mode = "remote" /\ local'[d] = FALSE
                       \/ done'[d] # 0 /\ <<k, d, done'[d]>> \in uses'
  BY <1>1 DEF RefsFirst
<1>2. CASE done[k] # 0
  BY <1>1, <1>2 DEF RefsFirst, Grows
<1>3. QED BY <1>2

LEMMA QuietStored ==
  ASSUME TypeOK, Stored, RefsFirst, UNCHANGED <<fixed, once, made, done, uses>>, Grows
  PROVE  Stored' /\ RefsFirst'
<1>1. RefsFirst'
  BY RefsKept
<1>2. Stored'
  BY DEF Stored, fixed
<1>3. QED BY <1>1, <1>2

LEMMA NotWaiting ==
  ASSUME Chain, NEW t \in Threads, Busy(t), Top(t).stage # "refs"
  PROVE  ~ret[t].some /\ ~ret[t].ok
BY DEF Chain, Answered, AnswerOK

LEMMA TopFrame ==
  ASSUME TypeOK, Chain, NEW t \in Threads, Busy(t)
  PROVE  FrameOK(Top(t))
BY BusyHasTop DEF Chain, Nested, Top

LEMMA ToIs ==
  ASSUME TypeOK, NEW t \in Threads, Busy(t), NEW s \in Stages, To(t, s)
  PROVE  \E g \in Frames :
           OnTop(t, g) /\ g.comp = Top(t).comp /\ g.next = Top(t).next /\ g.stage = s
<1>1. LET g == [Top(t) EXCEPT !.stage = s]
      IN  g \in Frames /\ g.comp = Top(t).comp /\ g.next = Top(t).next /\ g.stage = s
  BY BusyHasTop DEF Frames
<1>2. QED BY <1>1, ToEffect

LEMMA RouteWired ==
  ASSUME WiredInv, NEW t \in Threads, Busy(t), Route(t)
  PROVE  Chain' /\ Stored' /\ RefsFirst'
<1>1. /\ TypeOK /\ Chain /\ Stored /\ RefsFirst /\ Nested
      /\ UNCHANGED <<fixed, once, local, made, done, uses>>
      /\ Top(t).stage = "route" /\ local[Top(t).comp] \in BOOLEAN
  BY DEF WiredInv, Chain, Route
<1>2. Grows /\ Kept(t, 1)
  BY <1>1, GrowsQuiet, KeptQuiet
<1>3. Stored' /\ RefsFirst'
  BY <1>1, <1>2, QuietStored
<1>4. /\ ~ret[t].some /\ ~ret[t].ok
      /\ Top(t) \in Frames /\ Top(t).comp \in regs /\ Top(t).next = 1 /\ mode = "remote"
  BY <1>1, NotWaiting, TopFrame, BusyHasTop DEF FrameOK, Making
<1>5. CASE To(t, "enter") /\ UNCHANGED <<mu, ret>>
  <2>1. PICK g \in Frames : OnTop(t, g) /\ g.comp = Top(t).comp /\ g.next = 1 /\ g.stage = "enter"
    BY <1>1, <1>4, <1>5, ToIs DEF Stages
  <2>2. OnTop(t, g)
    BY <2>1
  <2>3. ~Making(g)
    BY <2>1 DEF Making
  <2>4. FrameOK(g)'
    BY <2>1, <2>3, <1>4, <1>1 DEF FrameOK, fixed, Making
  <2>5. AnswerOK(t)'
    BY <1>4, <1>5 DEF AnswerOK
  <2>6. Chain'
    BY <2>1, <2>2, <2>3, <2>4, <2>5, <1>1, <1>2, <1>5, TopChain
  <2>7. QED BY <2>6, <1>3
<1>6. CASE Return(t, Err)
  <2>1. Err \in Answers /\ Err.some /\ ~Err.ok
    BY AnswerTypes DEF Err
  <2>2. Chain'
    BY <2>1, <1>1, <1>2, <1>6, ReturnChain
  <2>3. QED BY <2>2, <1>3
<1>7. CASE local[Top(t).comp] = FALSE /\ Return(t, Stub)
  <2>1. Stub \in Answers /\ Stub.some /\ Stub.obj = 0
    BY AnswerTypes DEF Stub, Ok
  <2>2. Chain'
    BY <2>1, <1>1, <1>2, <1>4, <1>7, ReturnChain
  <2>3. QED BY <2>2, <1>3
<1>8. QED BY <1>1, <1>5, <1>6, <1>7 DEF Route

LEMMA EnterWired ==
  ASSUME WiredInv, NEW t \in Threads, Busy(t), Enter(t)
  PROVE  Chain' /\ Stored' /\ RefsFirst'
<1>1. /\ TypeOK /\ Chain /\ Stored /\ RefsFirst /\ Nested
      /\ UNCHANGED <<fixed, local, done, uses>>
      /\ Top(t).stage = "enter"
  BY DEF WiredInv, Chain, Enter
<1>2. Grows
  BY <1>1, GrowsQuiet
<1>3. RefsFirst'
  BY <1>1, <1>2, RefsKept
<1>4. ~ret[t].some /\ ~ret[t].ok /\ Top(t) \in Frames /\ Top(t).next = 1
  BY <1>1, NotWaiting, TopFrame, BusyHasTop DEF FrameOK, Making
<1>5. PICK k \in Comps : k = Top(t).comp
  BY <1>4 DEF Frames
<1>6. k \in regs
  BY <1>1, <1>5, TopFrame DEF FrameOK
<1>7. EnterRemote(t, k) \/ EnterSingle(t, k)
  BY <1>5 DEF Enter
<1>8. /\ once \in [Comps -> {"new", "running", "ok", "err"}]
      /\ made \in [Comps -> Nat] /\ done \in [Comps -> Nat] /\ mode \in {"single", "remote"}
  BY <1>1 DEF TypeOK
<1>9. CASE /\ New(t, k) /\ k \notin fakes /\ done[k] = 0
           /\ mode = "remote" => once[k] = "new" /\ once' = [once EXCEPT ![k] = "running"]
           /\ mode = "single" => once' = once
  <2>1. made' = [made EXCEPT ![k] = @ + 1] /\ To(t, "refs") /\ UNCHANGED <<ret, mu>>
    BY <1>9 DEF New
  <2>2. mode = "remote" => NoneElse(t, k)
    BY <1>1, <1>9, MakingMeans DEF NoneElse
  <2>3. \A u \in Threads : \A i \in 1 .. Len(stack[u]) : \A l \in Comps :
          (u # t \/ i > 1) /\ Making(stack[u][i]) /\ stack[u][i].comp = l =>
            /\ made'[l] # 0 /\ done'[l] = 0
            /\ mode = "remote" => once'[l] = "running"
    <3>1. SUFFICES ASSUME NEW u \in Threads, NEW i \in 1 .. Len(stack[u]), NEW l \in Comps,
                          Making(stack[u][i]), stack[u][i].comp = l
                   PROVE  /\ made'[l] # 0 /\ done'[l] = 0
                          /\ mode = "remote" => once'[l] = "running"
      OBVIOUS
    <3>2. made[l] # 0 /\ done[l] = 0 /\ (mode = "remote" => once[l] = "running")
      BY <1>1, <3>1, MakingMeans
    <3>3. made[l] \in Nat /\ made'[l] \in {made[l], made[l] + 1}
      BY <1>8, <2>1
    <3>4. done' = done
      BY <1>1 DEF Enter
    <3>5. QED BY <1>8, <1>9, <3>2, <3>3, <3>4
  <2>4. Kept(t, 1)
    BY <1>1, <1>2, <2>3, KeptIf
  <2>5. PICK g \in Frames : OnTop(t, g) /\ g.comp = k /\ g.next = 1 /\ g.stage = "refs"
    BY <1>1, <1>4, <1>5, <2>1, ToIs DEF Stages
  <2>6. made'[k] # 0 /\ done'[k] = 0 /\ (mode = "remote" => once'[k] = "running")
    BY <1>1, <1>8, <1>9, <2>1
  <2>7. refs[k] \in Seq(Comps) /\ Len(refs[k]) \in Nat
    BY <1>1, LenProperties DEF TypeOK
  <2>8. FrameOK(g)'
    BY <1>1, <1>6, <1>9, <2>5, <2>6, <2>7 DEF FrameOK, fixed, Making
  <2>9. AnswerOK(t)'
    BY <1>4, <2>1 DEF AnswerOK
  <2>10. Chain'
    BY <1>1, <1>2, <1>5, <2>1, <2>2, <2>4, <2>5, <2>8, <2>9, TopChain
  <2>11. mode = "remote" => made[k] = 0
    BY <1>1, <1>9 DEF Stored
  <2>12. Stored'
    BY <1>1, <1>8, <1>9, <2>1, <2>11 DEF Stored, fixed
  <2>13. QED BY <1>3, <2>10, <2>12
<1>10. CASE /\ k \in fakes /\ made' = made /\ Return(t, Ok(0))
            /\ once' = once \/ once' = [once EXCEPT ![k] = "ok"]
  <2>1. \A u \in Threads : \A i \in 1 .. Len(stack[u]) : \A l \in Comps :
          (u # t \/ i > 1) /\ Making(stack[u][i]) /\ stack[u][i].comp = l =>
            /\ made'[l] # 0 /\ done'[l] = 0
            /\ mode = "remote" => once'[l] = "running"
    BY <1>1, <1>8, <1>10, MakingMeans
  <2>2. Kept(t, 1)
    BY <1>1, <1>2, <2>1, KeptIf
  <2>3. Ok(0) \in Answers /\ Ok(0).some /\ Ok(0).obj = 0
    BY AnswerTypes DEF Ok
  <2>4. Chain'
    BY <1>1, <1>2, <1>5, <1>6, <1>10, <2>2, <2>3, ReturnChain
  <2>5. Stored'
    BY <1>1, <1>8, <1>10 DEF Stored, fixed
  <2>6. QED BY <1>3, <2>4, <2>5
<1>11. ASSUME UNCHANGED <<once, made>>
       PROVE  Kept(t, 1) /\ Stored'
  BY <1>1, <1>2, <1>11, KeptQuiet, QuietStored
<1>12. CASE Return(t, Ok(done[k])) /\ UNCHANGED <<once, made>> /\ (done[k] = 0 => once[k] = "ok")
  <2>1. Ok(done[k]) \in Answers /\ Ok(done[k]).some /\ Ok(done[k]).obj = done[k]
    BY <1>8, AnswerTypes DEF Ok
  <2>2. done[k] = 0 => k \in fakes
    BY <1>1, <1>12 DEF Stored
  <2>3. done'[k] = done[k]
    BY <1>1
  <2>4. Chain'
    BY <1>1, <1>2, <1>5, <1>6, <1>11, <1>12, <2>1, <2>2, <2>3, ReturnChain
  <2>5. QED BY <1>3, <1>11, <1>12, <2>4
<1>13. CASE Return(t, Err) /\ UNCHANGED <<once, made>>
  <2>1. Err \in Answers /\ Err.some /\ ~Err.ok
    BY AnswerTypes DEF Err
  <2>2. Chain'
    BY <1>1, <1>2, <1>11, <1>13, <2>1, ReturnChain
  <2>3. QED BY <1>3, <1>11, <1>13, <2>2
<1>14. CASE EnterRemote(t, k)
  <2>1. mode = "remote"
    BY <1>14 DEF EnterRemote
  <2>2. once[k] = "new" => done[k] = 0
    BY <1>1, <2>1 DEF Stored
  <2>3. QED BY <1>9, <1>10, <1>12, <1>13, <1>14, <2>1, <2>2 DEF EnterRemote
<1>15. CASE EnterSingle(t, k)
  BY <1>9, <1>10, <1>12, <1>15 DEF EnterSingle
<1>16. QED BY <1>7, <1>14, <1>15

LEMMA FillRefWired ==
  ASSUME WiredInv, NEW t \in Threads, Busy(t), FillRef(t)
  PROVE  Chain' /\ Stored' /\ RefsFirst'
<1>1. /\ TypeOK /\ Chain /\ Stored /\ RefsFirst /\ Nested
      /\ UNCHANGED <<fixed, mu, once, local, made, done, uses>>
      /\ Top(t).stage = "refs" /\ Top(t).next <= Len(refs[Top(t).comp])
  BY DEF WiredInv, Chain, FillRef
<1>2. Grows /\ Kept(t, 0) /\ Kept(t, 1)
  BY <1>1, GrowsQuiet, KeptQuiet
<1>3. Stored' /\ RefsFirst'
  BY <1>1, <1>2, QuietStored
<1>4. ~ret[t].some /\ ~ret[t].ok /\ Top(t) \in Frames
  BY <1>1, BusyHasTop DEF FillRef, Chain, Answered, AnswerOK
<1>5. PICK d \in Comps : d = refs[Top(t).comp][Top(t).next]
  <2>1. refs[Top(t).comp] \in Seq(Comps) /\ Top(t).next \in 1 .. Len(refs[Top(t).comp])
    BY <1>1, <1>4 DEF TypeOK, Frames
  <2>2. QED BY <2>1, ElementOfSeq
<1>6. GetIntf(t, d)
  BY <1>5 DEF FillRef
<1>7. CASE ret' = [ret EXCEPT ![t] = Err] /\ UNCHANGED stack
  <2>1. PICK g \in Frames : g = Top(t)
    BY <1>4
  <2>2. OnTop(t, g)
    BY <1>1, <1>7, <2>1 DEF OnTop, Others, TypeOK, Top
  <2>3. Kept(t, 0) /\ 1 \in 1 .. Len(stack[t]) /\ 1 > 0
    BY <1>1, <1>2, BusyHasTop
  <2>4. FrameOK(g)'
    BY <2>1, <2>3 DEF Kept, Top
  <2>5. ret'[t].some /\ ~ret'[t].ok
    BY <1>1, <1>7 DEF TypeOK, Err
  <2>6. AnswerOK(t)'
    <3>1. Top(t)' = Top(t) /\ refs' = refs
      BY <1>1, <1>7 DEF Top, fixed
    <3>2. QED BY <1>1, <2>5, <3>1 DEF AnswerOK
  <2>7. \A u \in Threads \ {t} : ret'[u] = ret[u]
    BY <1>1, <1>7 DEF TypeOK
  <2>8. mode = "remote" /\ Making(g) => NoneElse(t, g.comp)
    BY <1>1, <2>1, AloneMeans DEF Chain
  <2>9. Chain'
    BY <1>1, <1>2, <2>1, <2>2, <2>4, <2>6, <2>7, <2>8, TopChain
  <2>10. QED BY <1>3, <2>9
<1>8. ASSUME NEW s \in {"enter", "route"}, Push(t, Frame(d, s)), UNCHANGED ret,
             d \in regs, s = "route" => mode = "remote"
      PROVE  Chain'
  <2>1. PICK g \in Frames : g = Frame(d, s)
    <3>1. s \in Stages
      BY DEF Stages
    <3>2. Frame(d, s) \in Frames
      BY <3>1 DEF Frame, Frames
    <3>3. QED BY <3>2
  <2>2. Pushed(t, g)
    BY <1>1, <1>8, <2>1, PushEffect
  <2>3. g.comp = d /\ g.stage = s /\ g.next = 1 /\ ~Making(g)
    BY <2>1 DEF Frame, Making
  <2>4. FrameOK(g)'
    BY <1>1, <1>8, <2>3 DEF FrameOK, fixed, Making
  <2>5. Waits(Top(t), g.comp)
    BY <1>1, <1>5, <2>3 DEF Waits
  <2>6. mode = "single" => mu' = t /\ mu = t
    BY <1>1 DEF Chain, Locked
  <2>7. QED BY <1>1, <1>2, <1>4, <1>8, <2>2, <2>3, <2>4, <2>5, <2>6, PushChain
<1>9. QED BY <1>3, <1>6, <1>7, <1>8 DEF GetIntf
LEMMA SetRefWired ==
  ASSUME WiredInv, NEW t \in Threads, Busy(t), SetRef(t)
  PROVE  Chain' /\ Stored' /\ RefsFirst'
<1>1. /\ TypeOK /\ Chain /\ Stored /\ RefsFirst /\ Nested
      /\ UNCHANGED <<fixed, mu, once, local, made, done>>
      /\ Top(t).stage = "refs" /\ ret[t].ok
  BY DEF WiredInv, Chain, SetRef, state
<1>2. /\ ret[t].some /\ Top(t).next <= Len(refs[Top(t).comp])
      /\ Brings(refs[Top(t).comp][Top(t).next], ret[t].obj)
  BY <1>1 DEF Chain, Answered, AnswerOK
<1>3. Top(t) \in Frames /\ FrameOK(Top(t))
  BY <1>1, TopFrame, BusyHasTop
<1>4. PICK k \in Comps, n \in Nat \ {0} : k = Top(t).comp /\ n = Top(t).next
  BY <1>3 DEF Frames
<1>5. PICK d \in Comps : d = refs[k][n]
  <2>1. refs[k] \in Seq(Comps) /\ n \in 1 .. Len(refs[k])
    BY <1>1, <1>2, <1>4 DEF TypeOK
  <2>2. QED BY <2>1, ElementOfSeq
<1>6. uses' = IF ret[t].obj = 0 THEN uses ELSE uses \cup {<<k, d, ret[t].obj>>}
  BY <1>4, <1>5 DEF SetRef
<1>7. Grows
  BY <1>1, <1>6 DEF Grows
<1>8. Kept(t, 0) /\ Kept(t, 1)
  BY <1>1, <1>7, KeptQuiet
<1>9. RefsFirst'
  BY <1>1, <1>7, RefsKept
<1>10. Stored'
  <2>1. ret[t].obj # 0 => done[d] = ret[t].obj
    BY <1>2, <1>4, <1>5 DEF Brings
  <2>2. \A u \in uses' : u[3] # 0 /\ u[3] = done[u[2]]
    BY <1>1, <1>6, <2>1 DEF Stored
  <2>3. QED BY <1>1, <2>2 DEF Stored, fixed
<1>11. PICK g \in Frames : OnTop(t, g) /\ g.comp = k /\ g.next = n + 1 /\ g.stage = "refs"
  <2>1. LET g == [Top(t) EXCEPT !.next = @ + 1]
        IN  g \in Frames /\ g.comp = k /\ g.next = n + 1 /\ g.stage = "refs"
    BY <1>1, <1>3, <1>4 DEF Frames
  <2>2. QED BY <1>1, <2>1, SetRefEffect
<1>12. FrameOK(g)'
  <2>1. ASSUME NEW j \in 1 .. Len(refs[k]), j < n + 1
        PROVE  /\ refs[k][j] \in regs
               /\ \/ refs[k][j] \in fakes
                  \/ mode = "remote" /\ local[refs[k][j]] = FALSE
                  \/ done[refs[k][j]] # 0 /\ <<k, refs[k][j], done[refs[k][j]]>> \in uses'
    <3>1. CASE j < n
      BY <3>1, <1>1, <1>3, <1>4, <1>6 DEF FrameOK, Making, Resolved
    <3>2. CASE j = n
      BY <3>2, <1>2, <1>4, <1>5, <1>6 DEF Brings
    <3>3. j < n \/ j = n
      <4>1. Len(refs[k]) \in Nat
        BY <1>1, LenProperties DEF TypeOK
      <4>2. QED BY <2>1, <4>1
    <3>4. QED BY <3>1, <3>2, <3>3
  <2>2. /\ k \in regs /\ k \notin fakes /\ made[k] # 0 /\ done[k] = 0
        /\ mode = "remote" => once[k] = "running"
    BY <1>1, <1>3, <1>4 DEF FrameOK, Making
  <2>3. QED BY <1>1, <1>11, <2>1, <2>2 DEF FrameOK, Making, Resolved, fixed
<1>13. mode = "remote" => NoneElse(t, g.comp)
  BY <1>1, <1>4, <1>11, AloneMeans DEF Chain, Making
<1>14. ~ret'[t].some /\ ~ret'[t].ok /\ \A u \in Threads \ {t} : ret'[u] = ret[u]
  BY <1>1 DEF SetRef, TypeOK, None
<1>15. AnswerOK(t)'
  BY <1>14 DEF AnswerOK
<1>16. Chain'
  BY <1>1, <1>4, <1>7, <1>8, <1>11, <1>12, <1>13, <1>14, <1>15, TopChain
<1>17. QED BY <1>9, <1>10, <1>16

LEMMA FailWired ==
  ASSUME WiredInv, NEW t \in Threads, Busy(t), Making(Top(t)), Fail(t),
         UNCHANGED <<fixed, local, made, uses>>
  PROVE  Chain' /\ Stored' /\ RefsFirst'
<1>1. TypeOK /\ Chain /\ Stored /\ RefsFirst /\ Nested /\ Alone /\ done' = done /\ Return(t, Err)
  BY DEF WiredInv, Chain, Fail
<1>2. Grows
  BY <1>1, GrowsQuiet
<1>3. PICK k \in Comps : k = Top(t).comp
  BY <1>1, BusyHasTop DEF Frames
<1>4. IF mode = "remote" THEN once' = [once EXCEPT ![k] = "err"] ELSE once' = once
  BY <1>3 DEF Fail
<1>5. mode = "remote" => NoneElse(t, k)
  BY <1>1, <1>3, AloneMeans
<1>6. once \in [Comps -> {"new", "running", "ok", "err"}]
  BY <1>1 DEF TypeOK
<1>7. \A u \in Threads : \A i \in 1 .. Len(stack[u]) : \A l \in Comps :
        (u # t \/ i > 1) /\ Making(stack[u][i]) /\ stack[u][i].comp = l =>
          /\ made'[l] # 0 /\ done'[l] = 0
          /\ mode = "remote" => once'[l] = "running"
  BY <1>1, <1>4, <1>5, <1>6, MakingMeans DEF NoneElse
<1>8. Kept(t, 1)
  BY <1>1, <1>2, <1>7, KeptIf
<1>9. Err \in Answers /\ Err.some /\ ~Err.ok
  BY AnswerTypes DEF Err
<1>10. Chain'
  BY <1>1, <1>2, <1>8, <1>9, ReturnChain
<1>11. Stored'
  BY <1>1, <1>4, <1>6 DEF Stored, fixed
<1>12. RefsFirst'
  BY <1>1, <1>2, RefsKept
<1>13. QED BY <1>10, <1>11, <1>12

(* The recursion of get never ends twice in one component: a frame below   *)
(* waits for a reference that is not there.                                *)
LEMMA InitAlone ==
  ASSUME WiredInv, NEW t \in Threads, Busy(t), Top(t).stage = "init"
  PROVE  NoneElse(t, Top(t).comp)
<1>1. TypeOK /\ Nested /\ Alone /\ Locked /\ Making(Top(t)) /\ Chain
  BY DEF WiredInv, Chain, Making
<1>2. CASE mode = "remote"
  BY <1>1, <1>2, AloneMeans
<1>3. CASE mode = "single"
  <2> SUFFICES ASSUME NEW u \in Threads, NEW i \in 1 .. Len(stack[u]), u # t \/ i > 1,
                      Making(stack[u][i]), stack[u][i].comp = Top(t).comp
               PROVE  FALSE
    BY DEF NoneElse
  <2>1. u = t /\ i > 1
    <3>1. Busy(u)
      BY <1>1, EmptySeq DEF Busy, TypeOK
    <3>2. QED BY <1>1, <1>3, <3>1 DEF Locked
  <2>2. PICK k \in Comps : k = Top(t).comp
    BY <1>1, BusyHasTop DEF Frames
  <2>3. /\ Len(stack[t]) \in Nat \ {0} /\ i - 1 \in 1 .. Len(stack[t])
        /\ Waits(stack[t][i], stack[t][i - 1].comp)
    BY <1>1, <2>1, BusyHasTop DEF Nested
  <2>4. Making(stack[t][i - 1])
    <3>1. CASE i - 1 = 1
      BY <3>1, <1>1 DEF Top
    <3>2. CASE i - 1 > 1
      BY <3>2, <1>1, <2>3 DEF Nested, Waits, Making
    <3>3. QED BY <2>3, <3>1, <3>2
  <2>5. PICK d \in Comps : d = stack[t][i - 1].comp /\ d \notin fakes /\ done[d] = 0
    BY <1>1, <2>3, <2>4, MakingMeans
  <2>6. PICK j \in 1 .. Len(refs[k]) : refs[k][j] = d
    <3>1. stack[t][i] \in Frames /\ stack[t][i].comp = k
      BY <1>1, <2>1, <2>2, ElementOfSeq DEF TypeOK
    <3>2. Len(refs[k]) \in Nat
      BY <1>1, LenProperties DEF TypeOK
    <3>3. stack[t][i].next \in 1 .. Len(refs[k]) /\ refs[k][stack[t][i].next] = d
      BY <2>3, <2>5, <3>1, <3>2 DEF Waits, Frames
    <3>4. QED BY <3>3
  <2>7. Resolved(k, d)
    BY <1>1, <2>2, <2>6, TopFrame DEF FrameOK
  <2>8. QED BY <1>3, <2>5, <2>7 DEF Resolved
<1>4. QED BY <1>1, <1>2, <1>3 DEF TypeOK
LEMMA FinishWired ==
  ASSUME WiredInv, NEW t \in Threads, Busy(t), Top(t).stage = "init", Finish(t),
         UNCHANGED <<fixed, local, made, uses>>
  PROVE  Chain' /\ Stored' /\ RefsFirst'
<1>1. TypeOK /\ Chain /\ Stored /\ RefsFirst /\ Nested /\ Making(Top(t)) /\ FrameOK(Top(t))
  BY TopFrame DEF WiredInv, Chain, Making
<1>2. PICK k \in Comps : k = Top(t).comp
  BY <1>1, BusyHasTop DEF Frames
<1>3. /\ Return(t, Ok(made[k])) /\ done' = [done EXCEPT ![k] = made[k]]
      /\ IF mode = "remote" THEN once' = [once EXCEPT ![k] = "ok"] ELSE once' = once
  BY <1>2 DEF Finish
<1>4. k \in regs /\ k \notin fakes /\ made[k] # 0 /\ done[k] = 0
  BY <1>1, <1>2 DEF FrameOK
<1>5. /\ once \in [Comps -> {"new", "running", "ok", "err"}]
      /\ made \in [Comps -> Nat] /\ done \in [Comps -> Nat]
  BY <1>1 DEF TypeOK
<1>6. Grows
  BY <1>3, <1>4, <1>5 DEF Grows
<1>7. NoneElse(t, k)
  BY <1>2, InitAlone
<1>8. \A u \in Threads : \A i \in 1 .. Len(stack[u]) : \A l \in Comps :
        (u # t \/ i > 1) /\ Making(stack[u][i]) /\ stack[u][i].comp = l =>
          /\ made'[l] # 0 /\ done'[l] = 0
          /\ mode = "remote" => once'[l] = "running"
  BY <1>1, <1>3, <1>5, <1>7, MakingMeans DEF NoneElse
<1>9. Kept(t, 1)
  BY <1>1, <1>6, <1>8, KeptIf
<1>10. Ok(made[k]) \in Answers /\ Ok(made[k]).some /\ Ok(made[k]).obj = made[k]
  BY <1>5, AnswerTypes DEF Ok
<1>11. done'[k] = made[k]
  BY <1>3, <1>5
<1>12. Chain'
  BY <1>1, <1>2, <1>3, <1>4, <1>6, <1>9, <1>10, <1>11, ReturnChain
<1>13. Stored'
  <2>1. \A l \in Comps : once'[l] = "ok" /\ l \notin fakes => done'[l] # 0
    BY <1>1, <1>3, <1>4, <1>5 DEF Stored
  <2>2. mode = "remote" =>
          \A l \in Comps : made[l] <= 1 /\ (once'[l] = "new" => made[l] = 0 /\ done'[l] = 0)
    BY <1>1, <1>3, <1>5 DEF Stored
  <2>3. \A u \in uses : u[3] # 0 /\ u[3] = done'[u[2]]
    BY <1>1, <1>3, <1>4, <1>5 DEF Stored, TypeOK
  <2>4. QED BY <2>1, <2>2, <2>3 DEF Stored, fixed
<1>14. RefsFirst'
  <2>1. ASSUME NEW d \in References(k)
        PROVE  /\ d \in regs
               /\ \/ d \in fakes
                  \/ mode = "remote" /\ local'[d] = FALSE
                  \/ done'[d] # 0 /\ <<k, d, done'[d]>> \in uses'
    <3>1. PICK j \in 1 .. Len(refs[k]) : d = refs[k][j]
      BY <1>1, LenProperties DEF References, TypeOK
    <3>2. Resolved(k, d)
      BY <1>1, <1>2, <3>1 DEF FrameOK
    <3>3. d \in Comps
      BY <1>1, <3>2 DEF Resolved, TypeOK
    <3>4. QED BY <1>6, <3>2, <3>3 DEF Resolved, Grows
  <2>2. \A l \in Comps : done'[l] # 0 => done[l] # 0 \/ l = k
    BY <1>3, <1>5
  <2>3. QED BY <1>1, <1>6, <2>1, <2>2, RefsKept
<1>15. QED BY <1>12, <1>13, <1>14

(* Top(t) goes on to stage s and nothing else changes but the listener.    *)
LEMMA MoveWired ==
  ASSUME WiredInv, NEW t \in Threads, Busy(t), Making(Top(t)), ~ret[t].some,
         NEW s \in {"listen", "init"}, To(t, s),
         Top(t).stage = "refs" => Top(t).next > Len(refs[Top(t).comp]),
         UNCHANGED <<fixed, mu, once, local, made, done, ret, uses>>
  PROVE  Chain' /\ Stored' /\ RefsFirst'
<1>1. TypeOK /\ Chain /\ Stored /\ RefsFirst /\ Nested /\ FrameOK(Top(t)) /\ Top(t) \in Frames
  BY TopFrame, BusyHasTop DEF WiredInv, Chain
<1>2. Grows /\ Kept(t, 1)
  BY <1>1, GrowsQuiet, KeptQuiet
<1>3. Stored' /\ RefsFirst'
  BY <1>1, <1>2, QuietStored
<1>4. PICK g \in Frames : OnTop(t, g) /\ g.comp = Top(t).comp /\ g.stage = s
  BY <1>1, ToIs DEF Stages
<1>5. PICK k \in Comps, n \in Nat : k = Top(t).comp /\ n = Top(t).next
  BY <1>1 DEF Frames
<1>6. Len(refs[k]) \in Nat
  BY <1>1, LenProperties DEF TypeOK
<1>7. \A j \in 1 .. Len(refs[k]) : Resolved(k, refs[k][j])
  BY <1>1, <1>5, <1>6 DEF FrameOK
<1>8. /\ k \in regs /\ k \notin fakes /\ made[k] # 0 /\ done[k] = 0
      /\ mode = "remote" => once[k] = "running"
  BY <1>1, <1>5 DEF FrameOK
<1>9. FrameOK(g)'
  BY SMTT(30), <1>4, <1>5, <1>7, <1>8 DEF FrameOK, Resolved, Making, fixed
<1>10. mode = "remote" => NoneElse(t, g.comp)
  BY <1>1, <1>4, AloneMeans DEF Chain
<1>11. AnswerOK(t)'
  BY <1>1 DEF AnswerOK, Chain, Answered
<1>12. Chain'
  BY <1>1, <1>2, <1>4, <1>9, <1>10, <1>11, TopChain
<1>13. QED BY <1>3, <1>12

LEMMA StepWired ==
  ASSUME WiredInv, NEW t \in Threads, Step(t)
  PROVE  WiredInv'
<1>0. TypeOK /\ Chain /\ Answered /\ Busy(t)
  BY DEF WiredInv, Chain, Step
<1>1. TypeOK'
  BY <1>0, StepTypes
<1>2. CASE Route(t)
  BY <1>0, <1>1, <1>2, RouteWired DEF WiredInv
<1>3. CASE Enter(t)
  BY <1>0, <1>1, <1>3, EnterWired DEF WiredInv
<1>4. CASE FillRef(t)
  BY <1>0, <1>1, <1>4, FillRefWired DEF WiredInv
<1>5. CASE SetRef(t)
  BY <1>0, <1>1, <1>5, SetRefWired DEF WiredInv
<1>6. CASE RefFails(t)
  <2>1. Making(Top(t)) /\ Fail(t) /\ UNCHANGED <<fixed, local, made, uses>>
    BY <1>6 DEF RefFails, Making
  <2>2. QED BY <1>0, <1>1, <2>1, FailWired DEF WiredInv
<1>7. CASE FilledRefs(t)
  <2>1. /\ Making(Top(t)) /\ ~ret[t].some /\ To(t, "listen") /\ Top(t).next > Len(refs[Top(t).comp])
        /\ UNCHANGED <<fixed, mu, once, local, made, done, ret, uses>>
    BY <1>7 DEF FilledRefs, Making, state
  <2>2. QED BY <1>0, <1>1, <2>1, MoveWired DEF WiredInv
<1>8. CASE FillListener(t)
  <2>1. /\ Making(Top(t)) /\ Top(t).stage # "refs" /\ ~ret[t].some
        /\ UNCHANGED <<fixed, local, made, uses>>
    BY <1>0, <1>8, NotWaiting DEF FillListener, Making
  <2>2. Fail(t) \/ (To(t, "init") /\ UNCHANGED <<mu, once, done, ret>>)
    BY <1>8 DEF FillListener
  <2>3. QED BY <1>0, <1>1, <2>1, <2>2, MoveWired, FailWired DEF WiredInv
<1>9. CASE CallInit(t)
  <2>1. /\ Making(Top(t)) /\ Top(t).stage = "init" /\ (Finish(t) \/ Fail(t))
        /\ UNCHANGED <<fixed, local, made, uses>>
    BY <1>9 DEF CallInit, Making
  <2>2. QED BY <1>0, <1>1, <2>1, FinishWired, FailWired DEF WiredInv
<1>10. QED BY <1>2, <1>3, <1>4, <1>5, <1>6, <1>7, <1>8, <1>9 DEF Step
LEMMA GetImplWired ==
  ASSUME WiredInv, NEW t \in Threads, NEW k \in Comps, GetImpl(t, k)
  PROVE  WiredInv'
<1>1. /\ TypeOK /\ Chain /\ Stored /\ RefsFirst /\ Nested
      /\ ~Busy(t) /\ ~ret[t].some /\ k \in regs /\ Push(t, Frame(k, "enter"))
      /\ mode = "single" => mu = nil /\ mu' = t
      /\ UNCHANGED <<fixed, once, activated, local, made, done, ret, uses>>
  BY DEF WiredInv, Chain, GetImpl
<1>2. Grows /\ Kept(t, 0)
  BY <1>1, GrowsQuiet, KeptQuiet
<1>3. Stored' /\ RefsFirst'
  BY <1>1, <1>2, QuietStored
<1>4. stack' \in [Threads -> Seq(Frames)]
  BY <1>1, PushTypes DEF Stages
<1>5. TypeOK'
  BY <1>1, <1>4 DEF TypeOK, fixed
<1>6. PICK g \in Frames : g = Frame(k, "enter")
  <2>1. Frame(k, "enter") \in Frames
    BY DEF Frame, Frames, Stages
  <2>2. QED BY <2>1
<1>7. Pushed(t, g)
  BY <1>1, <1>6, PushEffect
<1>8. g.comp = k /\ g.stage = "enter" /\ g.next = 1 /\ ~Making(g)
  BY <1>6 DEF Frame, Making
<1>9. FrameOK(g)'
  BY <1>1, <1>8 DEF FrameOK, fixed, Making
<1>10. ~ret'[t].some /\ ~ret'[t].ok
  BY <1>1 DEF Chain, Answered, AnswerOK
<1>11. Chain'
  BY <1>1, <1>2, <1>7, <1>8, <1>9, <1>10, PushChain
<1>12. QED BY <1>3, <1>5, <1>11 DEF WiredInv

(* No call moves: local is written, the context ends, or nothing happens.  *)
LEMMA IdleWired ==
  ASSUME WiredInv, UNCHANGED <<fixed, mu, once, activated, made, done, stack, ret, uses>>,
         local' = local \/ \E k \in Comps : WriteLocal(k)
  PROVE  WiredInv'
<1>1. TypeOK /\ Chain /\ Stored /\ RefsFirst /\ Nested
  BY DEF WiredInv, Chain
<1>2. local' \in [Comps -> BOOLEAN \cup {nil}] /\ Grows
  <2>1. CASE local' = local
    BY <1>1, <2>1, GrowsQuiet DEF TypeOK
  <2>2. ASSUME NEW k \in Comps, WriteLocal(k)
        PROVE  local' \in [Comps -> BOOLEAN \cup {nil}] /\ Grows
    <3>1. PICK b \in BOOLEAN : local' = [local EXCEPT ![k] = b]
      BY <2>2 DEF WriteLocal
    <3>2. local[k] = nil /\ nil \notin BOOLEAN
      BY <2>2, ComponentsAssumption DEF WriteLocal
    <3>3. local \in [Comps -> BOOLEAN \cup {nil}]
      BY <1>1 DEF TypeOK
    <3>4. QED BY <3>1, <3>2, <3>3 DEF Grows
  <2>3. QED BY <2>1, <2>2
<1>3. TypeOK'
  BY <1>1, <1>2 DEF TypeOK, fixed
<1>4. Stored' /\ RefsFirst'
  BY <1>1, <1>2, QuietStored
<1>5. Nested'
  <2> SUFFICES ASSUME NEW u \in Threads, NEW i \in 1 .. Len(stack[u])
               PROVE  /\ FrameOK(stack[u][i])'
                      /\ i > 1 => Waits(stack[u][i], stack[u][i - 1].comp)'
    BY DEF Nested
  <2>1. Kept(u, 0) /\ Len(stack[u]) \in Nat
    BY <1>1, <1>2, KeptQuiet, LenProperties DEF TypeOK
  <2>2. PICK f \in Frames : f = stack[u][i]
    BY <1>1, ElementOfSeq DEF TypeOK
  <2>3. FrameOK(f)'
    BY <2>1, <2>2 DEF Kept
  <2>4. QED BY <1>1, <2>2, <2>3 DEF Nested, Waits, fixed
<1>6. Alone' /\ Locked'
  BY <1>1 DEF Chain, Alone, Locked, Busy, fixed
<1>7. Answered'
  BY <1>1, <1>2, AnswerKept DEF Chain, Answered
<1>8. QED BY <1>3, <1>4, <1>5, <1>6, <1>7 DEF WiredInv, Chain

LEMMA InitWired == Init => WiredInv
<1> SUFFICES ASSUME Init PROVE WiredInv
  OBVIOUS
<1>1. TypeOK
  BY ComponentsAssumption, EmptySeq DEF Init, TypeOK, None, Answers
<1>2. \A t \in Threads : stack[t] = <<>> /\ Len(stack[t]) = 0 /\ ret[t] = None
  BY EmptySeq DEF Init
<1>3. Chain
  BY <1>2 DEF Chain, Nested, Alone, Locked, Answered, AnswerOK, Busy, None
<1>4. Stored /\ RefsFirst
  BY DEF Init, Stored, RefsFirst
<1>5. QED BY <1>1, <1>3, <1>4 DEF WiredInv

LEMMA NextWired == WiredInv /\ [Next]_vars => WiredInv'
<1> SUFFICES ASSUME WiredInv, [Next]_vars PROVE WiredInv'
  OBVIOUS
<1>1. ASSUME NEW t \in Threads, Step(t) PROVE WiredInv'
  BY <1>1, StepWired
<1>2. ASSUME NEW t \in Threads, NEW k \in Comps, GetImpl(t, k) PROVE WiredInv'
  BY <1>2, GetImplWired
<1>3. ASSUME NEW k \in Comps, WriteLocal(k) PROVE WiredInv'
  BY <1>3, IdleWired DEF WriteLocal
<1>4. CASE End
  BY <1>4, IdleWired DEF End, state
<1>5. CASE UNCHANGED vars
  BY <1>5, IdleWired DEF vars, state
<1>6. QED BY <1>1, <1>2, <1>3, <1>4, <1>5 DEF Next

LEMMA WiredAlways == Spec => []WiredInv
BY InitWired, NextWired, PTL DEF Spec

(* Every variable keeps its type; a stack is a sequence of frames.         *)
THEOREM ComponentsTypeCorrect == Spec => []TypeOK
<1>1. WiredInv => TypeOK
  BY DEF WiredInv
<1>2. QED BY <1>1, WiredAlways, PTL

(* Wired: one implementation of each component, wired to the one of each   *)
(* reference, whoever asks for it at the same time and however deep the    *)
(* references go.                                                          *)
THEOREM WiredCorrect == Spec => []Wired
<1>1. WiredInv => Wired
  BY DEF WiredInv, Stored, Wired, OneObject
<1>2. QED BY <1>1, WiredAlways, PTL
-----------------------------------------------------------------------------
(* The verdicts of the code generator.  First recursions over numbers: a   *)
(* set with 0 that holds n + 1 whenever it holds n has every number, for   *)
(* the rest would have a least one.                                        *)
LEMMA Counting ==
  ASSUME NEW T, 0 \in T, \A n \in Nat \cap T : n + 1 \in T
  PROVE  Nat \subseteq T
<1> SUFFICES ASSUME Nat \ T # {} PROVE FALSE
  OBVIOUS
<1> DEFINE R == {p \in Nat \X Nat : p[1] < p[2]}
<1>1. PICK x \in Nat \ T : \A y \in Nat \ T : <<y, x>> \notin R
  <2>1. IsWellFoundedOn(R, Nat)
    BY NatLessThanWellFounded, Zenon DEF OpToRel
  <2> HIDE DEF R
  <2>2. QED BY <2>1, WFMin
<1>2. x # 0 /\ x \in Nat
  BY <1>1
<1>3. x - 1 \in Nat /\ x - 1 < x
  BY <1>2
<1>4. x - 1 \in T
  BY <1>1, <1>3
<1>5. QED BY <1>2, <1>3, <1>4

(* A function on 0 .. W with values in V that is defined by recursion.     *)
Recurs(W, V, a, F) ==
  \E g \in [0 .. W -> V] : g[0] = a /\ \A n \in 1 .. W : g[n] = F[<<n, g[n - 1]>>]

LEMMA Recursion ==
  ASSUME NEW W \in Nat, NEW V, NEW a \in V, NEW F \in [(1 .. W) \X V -> V]
  PROVE  Recurs(W, V, a, F)
<1> DEFINE Solves(g, m) == g \in [0 .. m -> V] /\ g[0] = a /\ \A n \in 1 .. m : g[n] = F[<<n, g[n - 1]>>]
           T == {m \in Nat : m <= W => \E g : Solves(g, m)}
<1>1. 0 \in T
  <2>1. Solves([n \in 0 .. 0 |-> a], 0)
    OBVIOUS
  <2> HIDE DEF Solves
  <2>2. QED BY <2>1
<1>2. ASSUME NEW m \in Nat \cap T PROVE m + 1 \in T
  <2> HIDE DEF Solves
  <2>a. m \in Nat /\ m + 1 \in Nat
    OBVIOUS
  <2> SUFFICES ASSUME m + 1 <= W PROVE \E g : Solves(g, m + 1)
    BY <2>a
  <2>1. PICK g : Solves(g, m)
    BY <2>a
  <2> USE DEF Solves
  <2> DEFINE h == [n \in 0 .. m + 1 |-> IF n = m + 1 THEN F[<<n, g[m]>>] ELSE g[n]]
  <2>2. \A n \in 0 .. m : n \in 0 .. m + 1 /\ n # m + 1 /\ h[n] = g[n]
    OBVIOUS
  <2>3. g[m] \in V /\ F[<<m + 1, g[m]>>] \in V /\ h[m + 1] = F[<<m + 1, g[m]>>]
    BY <2>1
  <2>4. h \in [0 .. m + 1 -> V]
    BY <2>1, <2>3
  <2>5. ASSUME NEW n \in 1 .. m + 1 PROVE h[n] = F[<<n, h[n - 1]>>]
    <3>1. CASE n = m + 1
      BY <2>2, <2>3, <3>1
    <3>2. CASE n \in 1 .. m
      BY <2>1, <2>2, <3>2
    <3>3. QED BY <2>5, <3>1, <3>2
  <2>6. h[0] = a
    BY <2>1, <2>2
  <2> HIDE DEF h
  <2>7. Solves(h, m + 1)
    BY <2>4, <2>5, <2>6
  <2> HIDE DEF Solves
  <2>8. QED BY <2>7
<1> HIDE DEF T
<1>3. W \in T
  BY <1>1, <1>2, Counting
<1>4. PICK g : Solves(g, W)
  BY <1>3 DEF T
<1>5. QED BY <1>4 DEF Recurs

(* What holds of the start and is kept by every step holds at the end.     *)
LEMMA RepeatedHas ==
  ASSUME NEW n \in Nat, NEW V, NEW a \in V, NEW step \in [1 .. n -> [V -> V]], NEW P,
         <<0, a>> \in P,
         \A i \in 1 .. n : \A x \in V : <<i - 1, x>> \in P => <<i, step[i][x]>> \in P
  PROVE  Repeated(step, a, n) \in V /\ <<n, Repeated(step, a, n)>> \in P
<1> DEFINE F == [p \in (1 .. n) \X V |-> step[p[1]][p[2]]]
           Solves(g) == g = [i \in 0 .. n |-> IF i = 0 THEN a ELSE step[i][g[i - 1]]]
<1>1. F \in [(1 .. n) \X V -> V]
  OBVIOUS
<1>2. \A i \in 1 .. n, x \in V : F[<<i, x>>] = step[i][x]
  OBVIOUS
<1> HIDE DEF F
<1>3. PICK g \in [0 .. n -> V] : g[0] = a /\ \A i \in 1 .. n : g[i] = F[<<i, g[i - 1]>>]
  <2>1. Recurs(n, V, a, F)
    BY <1>1, Recursion
  <2>2. QED BY <2>1 DEF Recurs
<1>4. \A i \in 1 .. n : i - 1 \in 0 .. n /\ g[i - 1] \in V /\ g[i] = step[i][g[i - 1]]
  <2> SUFFICES ASSUME NEW i \in 1 .. n PROVE i - 1 \in 0 .. n /\ g[i - 1] \in V /\ g[i] = step[i][g[i - 1]]
    OBVIOUS
  <2>1. i - 1 \in 0 .. n
    OBVIOUS
  <2>2. g[i - 1] \in V
    BY <2>1
  <2>3. QED BY <1>2, <1>3, <2>1, <2>2
<1>5. Solves(g)
  <2>1. \A i \in 0 .. n : g[i] = IF i = 0 THEN a ELSE step[i][g[i - 1]]
    BY <1>3, <1>4
  <2>2. g = [i \in 0 .. n |-> g[i]]
    OBVIOUS
  <2>3. QED BY <2>1, <2>2, Zenon
<1> DEFINE after == CHOOSE f : Solves(f)
<1>6. Solves(after)
  <2> HIDE DEF Solves
  <2>1. QED BY <1>5, Zenon
<1>7. Repeated(step, a, n) = after[n]
  BY DEF Repeated
<1> HIDE DEF after
<1>8. after[0] = a /\ \A i \in 1 .. n : after[i] = step[i][after[i - 1]]
  <2>1. \A i \in 0 .. n : after[i] = IF i = 0 THEN a ELSE step[i][after[i - 1]]
    BY <1>6, Zenon
  <2>2. 0 \in 0 .. n /\ \A i \in 1 .. n : i \in 0 .. n /\ i # 0
    OBVIOUS
  <2>3. QED BY <2>1, <2>2, Zenon
<1> DEFINE T == {i \in Nat : i <= n => after[i] \in V /\ <<i, after[i]>> \in P}
<1>9. 0 \in T
  BY <1>8
<1>10. ASSUME NEW i \in Nat \cap T PROVE i + 1 \in T
  <2> SUFFICES ASSUME i + 1 <= n PROVE after[i + 1] \in V /\ <<i + 1, after[i + 1]>> \in P
    OBVIOUS
  <2>1. i + 1 \in 1 .. n /\ (i + 1) - 1 = i /\ after[i] \in V /\ <<i, after[i]>> \in P
    OBVIOUS
  <2>2. after[i + 1] = step[i + 1][after[i]]
    BY <1>8, <2>1
  <2>3. step[i + 1] \in [V -> V]
    BY <2>1
  <2>4. <<i + 1, step[i + 1][after[i]]>> \in P
    BY <2>1
  <2>5. QED BY <2>1, <2>2, <2>3, <2>4
<1> HIDE DEF T
<1>11. n \in T
  BY <1>9, <1>10, Counting
<1>12. QED BY <1>7, <1>11 DEF T

-----------------------------------------------------------------------------
(* What a type contains: the least set with it that is closed under parts. *)
LEMMA PartsAre ==
  ASSUME TypesAssumption, NEW t \in Types
  PROVE  PartsOf(t) \subseteq Types
BY DEF TypesAssumption, PartsOf

ClosedSet(S) == \A x \in S : PartsOf(x) \subseteq S

LEMMA WithinIsLeast ==
  ASSUME TypesAssumption, NEW t \in Types
  PROVE  /\ Within(t) \subseteq Types /\ t \in Within(t) /\ ClosedSet(Within(t))
         /\ \A S \in SUBSET Types : t \in S /\ ClosedSet(S) => Within(t) \subseteq S
<1> DEFINE n == Cardinality(Types)
           V == SUBSET Types
           More(S) == S \cup UNION {PartsOf(x) : x \in S}
           step == [i \in 1 .. n |-> [S \in V |-> More(S)]]
           Least(R) == \A S \in SUBSET Types : t \in S /\ ClosedSet(S) => R \subseteq S
           P == {p \in (0 .. n) \X V :
                   /\ t \in p[2] /\ Least(p[2])
                   /\ ClosedSet(p[2]) \/ Cardinality(p[2]) >= p[1] + 1}
<1>1. n \in Nat
  BY FS_CardinalityType DEF TypesAssumption
<1>2. ASSUME NEW S \in V PROVE More(S) \in V
  BY PartsAre
<1>3. step \in [1 .. n -> [V -> V]]
  BY <1>2
<1>4. {t} \in V /\ <<0, {t}>> \in P
  <2>1. Cardinality({t}) = 1
    BY FS_Singleton
  <2>2. Least({t})
    OBVIOUS
  <2> HIDE DEF Least
  <2>3. {t} \in V /\ 0 \in 0 .. n /\ Cardinality({t}) >= 0 + 1
    BY <1>1, <2>1
  <2>4. QED BY <2>2, <2>3
<1>5. ASSUME NEW i \in 1 .. n, NEW S \in V, <<i - 1, S>> \in P PROVE <<i, step[i][S]>> \in P
  <2>1. /\ t \in S /\ Least(S)
        /\ ClosedSet(S) \/ Cardinality(S) >= i
    BY <1>5
  <2>2. step[i][S] = More(S)
    OBVIOUS
  <2>3. t \in More(S)
    BY <2>1
  <2>4. Least(More(S))
    BY <2>1 DEF ClosedSet
  <2>5. ClosedSet(More(S)) \/ Cardinality(More(S)) >= i + 1
    <3>1. CASE ClosedSet(S)
      <4>1. More(S) = S
        BY <3>1 DEF ClosedSet
      <4>2. QED BY <3>1, <4>1
    <3>2. CASE ~ClosedSet(S)
      <4>1. S \subseteq More(S) /\ More(S) # S
        BY <3>2 DEF ClosedSet
      <4>2. IsFiniteSet(More(S))
        BY <1>2, FS_Subset DEF TypesAssumption
      <4>3. Cardinality(S) < Cardinality(More(S)) /\ Cardinality(S) \in Nat /\ Cardinality(More(S)) \in Nat
        <5> HIDE DEF More
        <5>1. Cardinality(S) \in Nat /\ Cardinality(More(S)) \in Nat
          BY <4>1, <4>2, FS_Subset, FS_CardinalityType
        <5>2. QED BY <4>1, <4>2, <5>1, FS_Subset
      <4>4. QED BY <2>1, <3>2, <4>3
    <3>3. QED BY <3>1, <3>2
  <2>6. i \in 0 .. n /\ More(S) \in V
    BY <1>2
  <2> HIDE DEF More, Least, step
  <2>7. QED BY <2>2, <2>3, <2>4, <2>5, <2>6
<1>6. Within(t) = Repeated(step, {t}, n)
  BY DEF Within
<1> HIDE DEF step, P
<1>7. Repeated(step, {t}, n) \in V /\ <<n, Repeated(step, {t}, n)>> \in P
  BY <1>1, <1>3, <1>4, <1>5, RepeatedHas
<1>8. /\ Within(t) \in V /\ t \in Within(t) /\ Least(Within(t))
      /\ ClosedSet(Within(t)) \/ Cardinality(Within(t)) >= n + 1
  BY <1>6, <1>7 DEF P
<1>9. Cardinality(Within(t)) <= n
  BY <1>8, FS_Subset DEF TypesAssumption
<1>10. Cardinality(Within(t)) \in Nat
  BY <1>8, FS_Subset, FS_CardinalityType DEF TypesAssumption
<1>11. QED BY <1>1, <1>8, <1>9, <1>10

LEMMA WithinParts ==
  ASSUME TypesAssumption, NEW t \in Types
  PROVE  /\ Inside(t) \subseteq Types
         /\ Within(t) = {t} \cup Inside(t)
         /\ PartsOf(t) \subseteq Inside(t)
         /\ ClosedSet(Inside(t))
         /\ \A x \in Within(t) : Within(x) \subseteq Within(t)
<1>1. \A x \in PartsOf(t) : x \in Types
  BY PartsAre
<1>2. \A x \in Types : Within(x) \subseteq Types /\ x \in Within(x) /\ ClosedSet(Within(x))
  BY WithinIsLeast
<1>3. Inside(t) \subseteq Types /\ PartsOf(t) \subseteq Inside(t)
  BY <1>1, <1>2 DEF Inside
<1>4. ClosedSet(Inside(t))
  BY <1>1, <1>2 DEF Inside, ClosedSet
<1>5. \A x \in Within(t) : Within(x) \subseteq Within(t)
  BY <1>2, WithinIsLeast
<1>6. Within(t) \subseteq {t} \cup Inside(t)
  <2>1. ClosedSet({t} \cup Inside(t))
    BY <1>3, <1>4 DEF ClosedSet
  <2>2. {t} \cup Inside(t) \in SUBSET Types
    BY <1>3
  <2>3. QED BY <2>1, <2>2, WithinIsLeast
<1>7. {t} \cup Inside(t) \subseteq Within(t)
  <2>1. \A x \in PartsOf(t) : x \in Within(t)
    BY <1>2 DEF ClosedSet
  <2>2. QED BY <1>2, <1>5, <2>1 DEF Inside
<1>8. QED BY <1>3, <1>4, <1>5, <1>6, <1>7

(* A type that can be encoded is made of such types, and one made of such  *)
(* types can be encoded unless it is a leaf that cannot.                   *)
LEMMA SerializableParts ==
  ASSUME TypesAssumption, NEW t \in Types
  PROVE  Serializable(t) <=> ~Leaf(t) /\ \A x \in PartsOf(t) : Serializable(x)
<1>1. \A x \in PartsOf(t) : x \in Types /\ x \in Within(t)
  BY PartsAre, WithinParts
<1>2. ASSUME Serializable(t), NEW x \in PartsOf(t) PROVE Serializable(x)
  BY <1>1, <1>2, WithinParts DEF Serializable
<1>3. ASSUME Serializable(t) PROVE ~Leaf(t)
  BY <1>3, WithinIsLeast DEF Serializable
<1>4. ASSUME ~Leaf(t), \A x \in PartsOf(t) : Serializable(x) PROVE Serializable(t)
  <2>1. \A y \in Inside(t) : ~Leaf(y) /\ y \notin Inside(y)
    BY <1>4 DEF Inside, Serializable
  <2>2. \A y \in Within(t) : y = t \/ y \in Inside(t)
    BY WithinParts
  <2>3. QED BY <1>4, <2>1, <2>2 DEF Serializable
<1>5. QED BY <1>2, <1>3, <1>4

-----------------------------------------------------------------------------
(* What checkSerializable answers.  A memo is right when what it holds is  *)
(* true; an answer tells of types when it says whether all can be encoded, *)
(* reports an error if not, and leaves a right memo.                       *)
Right(memo) ==
  \A x \in Types : (memo[x] = "yes" => Serializable(x)) /\ (memo[x] = "no" => ~Serializable(x))

Known(types) == types \subseteq Types /\ \A x \in types : Serializable(x)

Tells(a, S) ==
  /\ a \in CheckAnswers /\ Right(a.memo)
  /\ a.err = ~a.ok /\ (a.crash => ~a.ok)
  /\ a.ok <=> \A x \in S : Serializable(x)

Checkers == [CheckCalls -> CheckAnswers]

LEMMA AnswerTyped ==
  ASSUME NEW ok \in BOOLEAN, NEW err \in BOOLEAN, NEW crash \in BOOLEAN, NEW memo \in Memos
  PROVE  /\ Answer(ok, err, crash, memo) \in CheckAnswers
         /\ Answer(ok, err, crash, memo).ok = ok /\ Answer(ok, err, crash, memo).err = err
         /\ Answer(ok, err, crash, memo).crash = crash /\ Answer(ok, err, crash, memo).memo = memo
BY DEF Answer, CheckAnswers

LEMMA AnswerFields ==
  ASSUME NEW a \in CheckAnswers
  PROVE  a.ok \in BOOLEAN /\ a.err \in BOOLEAN /\ a.crash \in BOOLEAN /\ a.memo \in Memos
BY DEF CheckAnswers

LEMMA BothTyped ==
  ASSUME NEW a \in CheckAnswers, NEW b \in CheckAnswers
  PROVE  /\ Both(a, b) \in CheckAnswers
         /\ Both(a, b).ok = (a.ok /\ b.ok) /\ Both(a, b).err = (a.err \/ b.err)
         /\ Both(a, b).crash = b.crash /\ Both(a, b).memo = b.memo
<1>1. a.ok \in BOOLEAN /\ a.err \in BOOLEAN /\ b.ok \in BOOLEAN /\ b.err \in BOOLEAN /\ b.crash \in BOOLEAN /\ b.memo \in Memos
  BY AnswerFields
<1>2. (a.ok /\ b.ok) \in BOOLEAN /\ (a.err \/ b.err) \in BOOLEAN
  BY <1>1
<1>3. QED BY <1>1, <1>2 DEF Both, Answer, CheckAnswers

LEMMA RecordedRight ==
  ASSUME NEW memo \in Memos, Right(memo), NEW x \in Types, NEW ok \in BOOLEAN, ok <=> Serializable(x)
  PROVE  Recorded(memo, x, ok) \in Memos /\ Right(Recorded(memo, x, ok))
<1>1. Recorded(memo, x, ok) \in Memos
  BY DEF Recorded, Memos
<1>2. \A y \in Types : Recorded(memo, x, ok)[y] = IF y = x THEN IF ok THEN "yes" ELSE "no" ELSE memo[y]
  BY DEF Recorded, Memos
<1>3. QED BY <1>1, <1>2 DEF Right

LEMMA RecordedTyped ==
  ASSUME NEW memo \in Memos, NEW x \in Types, NEW ok
  PROVE  Recorded(memo, x, ok) \in Memos
BY DEF Recorded, Memos

(* Questions asked one after the other, each with the memo the one before  *)
(* has left, and all of them unless one ends in a panic.                   *)
OneByOne(n, ask, memo) ==
  Repeated([i \in 1 .. n |-> [a \in CheckAnswers |-> IF a.crash THEN a ELSE Both(a, ask[i][a.memo])]],
           Answer(TRUE, FALSE, FALSE, memo), n)

LEMMA OneByOneTyped ==
  ASSUME NEW n \in Nat, NEW ask \in [1 .. n -> [Memos -> CheckAnswers]], NEW memo \in Memos
  PROVE  OneByOne(n, ask, memo) \in CheckAnswers
<1> DEFINE V == CheckAnswers
           start == Answer(TRUE, FALSE, FALSE, memo)
           step == [i \in 1 .. n |-> [a \in V |-> IF a.crash THEN a ELSE Both(a, ask[i][a.memo])]]
           P == (0 .. n) \X V
<1>1. start \in V
  BY AnswerTyped
<1>2. ASSUME NEW i \in 1 .. n, NEW a \in V PROVE Both(a, ask[i][a.memo]) \in V
  BY AnswerFields, BothTyped
<1>3. step \in [1 .. n -> [V -> V]]
  <2> HIDE DEF V
  <2>1. QED BY <1>2
<1>4. OneByOne(n, ask, memo) = Repeated(step, start, n)
  BY DEF OneByOne
<1>5. <<0, start>> \in P /\ \A i \in 1 .. n : \A x \in V : <<i - 1, x>> \in P => <<i, step[i][x]>> \in P
  <2> HIDE DEF V, start, step
  <2>1. QED BY <1>1, <1>3
<1> HIDE DEF V, start, step, P
<1>6. Repeated(step, start, n) \in V
  BY <1>1, <1>3, <1>5, RepeatedHas
<1>7. QED BY <1>4, <1>6 DEF V

AllOf(n, S) == UNION {S[i] : i \in 1 .. n}

LEMMA OneByOneTells ==
  ASSUME NEW n \in Nat, NEW ask \in [1 .. n -> [Memos -> CheckAnswers]], NEW memo \in Memos, Right(memo), NEW S,
         \A i \in 1 .. n : \A m \in Memos : Right(m) => Tells(ask[i][m], S[i])
  PROVE  Tells(OneByOne(n, ask, memo), AllOf(n, S))
<1> DEFINE V == CheckAnswers
           start == Answer(TRUE, FALSE, FALSE, memo)
           step == [i \in 1 .. n |-> [a \in V |-> IF a.crash THEN a ELSE Both(a, ask[i][a.memo])]]
           Sofar(i) == AllOf(i, S)
           P == {p \in (0 .. n) \X V : Tells(p[2], Sofar(p[1]))}
<1>1. start \in V /\ start.ok = TRUE /\ start.err = FALSE /\ start.crash = FALSE /\ start.memo = memo
  BY AnswerTyped
<1>2. ASSUME NEW i \in 1 .. n, NEW a \in V PROVE Both(a, ask[i][a.memo]) \in V
  BY AnswerFields, BothTyped
<1>3. step \in [1 .. n -> [V -> V]]
  <2> HIDE DEF V
  <2>1. QED BY <1>2
<1>4. OneByOne(n, ask, memo) = Repeated(step, start, n)
  BY DEF OneByOne
<1>5. <<0, start>> \in P
  <2>1. Sofar(0) = {}
    BY DEF AllOf
  <2> HIDE DEF start, V, Sofar
  <2>2. Tells(start, Sofar(0))
    BY <1>1, <2>1 DEF Tells, V
  <2>3. QED BY <1>1, <2>2
<1>6. ASSUME NEW i \in 1 .. n, NEW a \in V, <<i - 1, a>> \in P PROVE <<i, step[i][a]>> \in P
  <2> DEFINE b == ask[i][a.memo]
  <2>1. Tells(a, Sofar(i - 1))
    BY <1>6
  <2>2. Sofar(i) = Sofar(i - 1) \cup S[i]
    <3>1. 1 .. i = (1 .. (i - 1)) \cup {i}
      OBVIOUS
    <3>2. QED BY <3>1 DEF AllOf
  <2>3. step[i][a] = IF a.crash THEN a ELSE Both(a, b)
    OBVIOUS
  <2>4. Tells(b, S[i])
    <3>1. a.memo \in Memos /\ Right(a.memo)
      BY <2>1, AnswerFields DEF Tells
    <3>2. QED BY <3>1
  <2>5. step[i][a] \in V /\ i \in 0 .. n
    BY <1>3
  <2> HIDE DEF V, Sofar, step, b
  <2>6. Tells(step[i][a], Sofar(i))
    <3>1. CASE a.crash
      <4>1. ~a.ok /\ ~\A x \in Sofar(i) : Serializable(x)
        BY <2>1, <2>2, <3>1 DEF Tells
      <4>2. QED BY <2>1, <2>3, <3>1, <4>1 DEF Tells
    <3>2. CASE ~a.crash
      <4>1. a \in CheckAnswers /\ b \in CheckAnswers
        BY <2>1, <2>4 DEF Tells
      <4>2. /\ Both(a, b) \in CheckAnswers
            /\ Both(a, b).ok = (a.ok /\ b.ok) /\ Both(a, b).err = (a.err \/ b.err)
            /\ Both(a, b).crash = b.crash /\ Both(a, b).memo = b.memo
        BY <4>1, BothTyped
      <4>3. a.ok \in BOOLEAN /\ a.err \in BOOLEAN /\ b.ok \in BOOLEAN /\ b.err \in BOOLEAN /\ b.crash \in BOOLEAN
        BY <4>1, AnswerFields
      <4>4. Both(a, b).err = ~Both(a, b).ok
        BY <2>1, <2>4, <4>2, <4>3 DEF Tells
      <4>5. Both(a, b).ok <=> \A x \in Sofar(i) : Serializable(x)
        BY <2>1, <2>2, <2>4, <4>2, <4>3 DEF Tells
      <4>6. Right(Both(a, b).memo) /\ (Both(a, b).crash => ~Both(a, b).ok)
        BY <2>4, <4>2 DEF Tells
      <4>7. Tells(Both(a, b), Sofar(i))
        BY <4>2, <4>4, <4>5, <4>6 DEF Tells
      <4>8. QED BY <2>3, <3>2, <4>7
    <3>3. QED BY <3>1, <3>2
  <2>7. QED BY <2>5, <2>6
<1> HIDE DEF V, start, step, P
<1>7. <<n, Repeated(step, start, n)>> \in P
  BY <1>1, <1>3, <1>5, <1>6, RepeatedHas
<1>8. Tells(Repeated(step, start, n), Sofar(n))
  BY <1>7 DEF P
<1>9. QED BY <1>4, <1>8

(* The parts of a type, and types in a list, are asked about in this way.  *)
Asked(ts, i, under, m) == [t |-> ts[i], stack |-> under, memo |-> m]
Parting(chk, ts, under) == [i \in 1 .. Len(ts) |-> [m \in Memos |-> chk[Asked(ts, i, under, m)]]]

LEMMA PartsOneByOne ==
  ASSUME NEW chk \in Checkers, NEW ts \in Seq(Types), NEW under \in SUBSET Types, NEW memo \in Memos
  PROVE  /\ Len(ts) \in Nat /\ Parting(chk, ts, under) \in [1 .. Len(ts) -> [Memos -> CheckAnswers]]
         /\ CheckParts(chk, ts, under, memo) = OneByOne(Len(ts), Parting(chk, ts, under), memo)
<1> DEFINE n == Len(ts)
           ask == Parting(chk, ts, under)
<1>1. n \in Nat /\ \A i \in 1 .. n : ts[i] \in Types
  BY LenProperties, ElementOfSeq
<1>2. ASSUME NEW i \in 1 .. n, NEW m \in Memos PROVE chk[Asked(ts, i, under, m)] \in CheckAnswers
  <2>1. Asked(ts, i, under, m) \in CheckCalls
    BY <1>1 DEF Asked, CheckCalls
  <2>2. QED BY <2>1 DEF Checkers
<1>3. ask \in [1 .. n -> [Memos -> CheckAnswers]]
  BY <1>2 DEF Parting
<1>4. \A i \in 1 .. n : \A a \in CheckAnswers : ask[i][a.memo] = chk[Asked(ts, i, under, a.memo)]
  BY AnswerFields DEF Parting
<1>5. [i \in 1 .. n |-> [a \in CheckAnswers |-> IF a.crash THEN a ELSE Both(a, ask[i][a.memo])]]
        = [i \in 1 .. n |-> [a \in CheckAnswers |-> IF a.crash THEN a ELSE Both(a, chk[Asked(ts, i, under, a.memo)])]]
  <2> HIDE DEF ask, n
  <2>1. QED BY <1>4
<1>6. CheckParts(chk, ts, under, memo) = OneByOne(n, ask, memo)
  BY <1>5, Zenon DEF CheckParts, OneByOne, Asked
<1>7. QED BY <1>1, <1>3, <1>6

LEMMA PartsTyped ==
  ASSUME NEW chk \in Checkers, NEW ts \in Seq(Types), NEW under \in SUBSET Types, NEW memo \in Memos
  PROVE  CheckParts(chk, ts, under, memo) \in CheckAnswers
<1> DEFINE n == Len(ts)
           ask == Parting(chk, ts, under)
<1>1. /\ n \in Nat /\ ask \in [1 .. n -> [Memos -> CheckAnswers]]
      /\ CheckParts(chk, ts, under, memo) = OneByOne(n, ask, memo)
  BY PartsOneByOne
<1> HIDE DEF n, ask
<1>2. QED BY <1>1, OneByOneTyped

LEMMA PartsTell ==
  ASSUME NEW chk \in Checkers, NEW ts \in Seq(Types), NEW under \in SUBSET Types, NEW memo \in Memos, Right(memo),
         \A i \in 1 .. Len(ts) : \A m \in Memos : Right(m) => Tells(chk[Asked(ts, i, under, m)], {ts[i]})
  PROVE  Tells(CheckParts(chk, ts, under, memo), {ts[i] : i \in 1 .. Len(ts)})
<1> DEFINE n == Len(ts)
           ask == Parting(chk, ts, under)
           S == [i \in 1 .. n |-> {ts[i]}]
<1>1. /\ n \in Nat /\ ask \in [1 .. n -> [Memos -> CheckAnswers]]
      /\ CheckParts(chk, ts, under, memo) = OneByOne(n, ask, memo)
  BY PartsOneByOne
<1>2. \A i \in 1 .. n : \A m \in Memos : Right(m) => Tells(ask[i][m], S[i])
  BY DEF Parting
<1>3. AllOf(n, S) = {ts[i] : i \in 1 .. n}
  BY DEF AllOf
<1> HIDE DEF S, ask, n
<1>4. Tells(OneByOne(n, ask, memo), AllOf(n, S))
  BY <1>1, <1>2, OneByOneTells
<1>5. QED BY <1>1, <1>3, <1>4 DEF n

LEMMA PartsCheckedAre ==
  ASSUME TypesAssumption, NEW t \in Types, ~IsProto(t)
  PROVE  /\ PartsChecked(t) \in Seq(Types)
         /\ t.k # "struct" => PartsOf(t) = {PartsChecked(t)[i] : i \in 1 .. Len(PartsChecked(t))}
         /\ \A i \in 1 .. Len(PartsChecked(t)) : PartsChecked(t)[i] \in PartsOf(t)
<1>1. CASE t.k = "struct"
  BY <1>1 DEF PartsChecked
<1>2. CASE t.k # "struct"
  <2>1. PartsChecked(t) = Parts(t) /\ Parts(t) \in Seq(Types)
    BY <1>2 DEF PartsChecked, TypesAssumption
  <2>2. DOMAIN Parts(t) = 1 .. Len(Parts(t))
    BY <2>1, LenProperties
  <2>3. PartsOf(t) = {Parts(t)[i] : i \in DOMAIN Parts(t)}
    BY DEF PartsOf
  <2>4. QED BY <2>1, <2>2, <2>3
<1>3. QED BY <1>1, <1>2

Looked(c)   == c.memo[c.t] # "unknown"
Repeats(c)  == ~Looked(c) /\ c.t \in c.stack
Passes(c, am) == ~Looked(c) /\ c.t \notin c.stack /\ Opaque(c.t, am)
Descends(c, am) == ~Looked(c) /\ c.t \notin c.stack /\ ~Opaque(c.t, am)

(* The four cases of a check.                                              *)
LEMMA CheckCases ==
  ASSUME NEW chk, NEW c, NEW am
  PROVE  /\ Looked(c) => Check(chk, c, am) = Answer(c.memo[c.t] = "yes", c.memo[c.t] = "no", FALSE, c.memo)
         /\ Repeats(c) => Check(chk, c, am) = Answer(FALSE, TRUE, FALSE, Recorded(c.memo, c.t, FALSE))
         /\ Passes(c, am) => Check(chk, c, am) = Answer(TRUE, FALSE, FALSE, Recorded(c.memo, c.t, TRUE))
         /\ Descends(c, am) =>
              Check(chk, c, am) = Settled(c.t, CheckParts(chk, PartsChecked(c.t), c.stack \cup {c.t}, c.memo))
         /\ Looked(c) \/ Repeats(c) \/ Passes(c, am) \/ Descends(c, am)
BY DEF Check, Looked, Repeats, Passes, Descends

LEMMA SettledCases ==
  ASSUME NEW t, NEW a
  PROVE  /\ a.crash => Settled(t, a) = a
         /\ ~a.crash /\ Verdict(t) = "crash" => Settled(t, a) = Answer(FALSE, TRUE, TRUE, a.memo)
         /\ ~a.crash /\ Verdict(t) = "silent" => Settled(t, a) = Answer(FALSE, TRUE, FALSE, a.memo)
         /\ ~a.crash /\ Verdict(t) = "record" => Settled(t, a) = Answer(a.ok, a.err, FALSE, Recorded(a.memo, t, a.ok))
         /\ Verdict(t) \in {"crash", "silent", "record"}
         /\ Leaf(t) <=> Verdict(t) # "record"
<1>1. /\ t.k \in {"interface", "struct"} => Verdict(t) = "crash" /\ Leaf(t)
      /\ t.k = "func" \/ (t.k = "basic" /\ t.name \notin Supported) => Verdict(t) = "silent" /\ Leaf(t)
      /\ ~(t.k \in {"interface", "struct"}) /\ ~(t.k = "func" \/ (t.k = "basic" /\ t.name \notin Supported))
           => Verdict(t) = "record" /\ ~Leaf(t)
  BY DEF Verdict, Leaf
<1>2. Verdict(t) \in {"crash", "silent", "record"} /\ (Leaf(t) <=> Verdict(t) # "record")
  BY <1>1
<1>3. a.crash => Settled(t, a) = a
  BY DEF Settled
<1>4. ~a.crash /\ Verdict(t) = "crash" => Settled(t, a) = Answer(FALSE, TRUE, TRUE, a.memo)
  BY DEF Settled
<1>5. ~a.crash /\ Verdict(t) = "silent" => Settled(t, a) = Answer(FALSE, TRUE, FALSE, a.memo)
  BY DEF Settled
<1>6. ~a.crash /\ Verdict(t) = "record" => Settled(t, a) = Answer(a.ok, a.err, FALSE, Recorded(a.memo, t, a.ok))
  BY DEF Settled
<1>7. QED BY <1>2, <1>3, <1>4, <1>5, <1>6

LEMMA SettledTyped ==
  ASSUME NEW t \in Types, NEW a \in CheckAnswers
  PROVE  Settled(t, a) \in CheckAnswers
<1>1. a.ok \in BOOLEAN /\ a.err \in BOOLEAN /\ a.crash \in BOOLEAN /\ a.memo \in Memos
  BY AnswerFields
<1>2. Recorded(a.memo, t, a.ok) \in Memos
  BY <1>1, RecordedTyped
<1>3. /\ Answer(FALSE, TRUE, TRUE, a.memo) \in CheckAnswers /\ Answer(FALSE, TRUE, FALSE, a.memo) \in CheckAnswers
      /\ Answer(a.ok, a.err, FALSE, Recorded(a.memo, t, a.ok)) \in CheckAnswers
  BY <1>1, <1>2, AnswerTyped
<1>4. QED BY <1>3, SettledCases

LEMMA CheckTyped ==
  ASSUME TypesAssumption, NEW chk \in Checkers, NEW c \in CheckCalls, NEW am
  PROVE  Check(chk, c, am) \in CheckAnswers
<1>1. c.t \in Types /\ c.stack \in SUBSET Types /\ c.memo \in Memos
  BY DEF CheckCalls
<1>2. Recorded(c.memo, c.t, FALSE) \in Memos /\ Recorded(c.memo, c.t, TRUE) \in Memos
  BY <1>1, RecordedTyped
<1>3. CASE Looked(c)
  <2>1. (c.memo[c.t] = "yes") \in BOOLEAN /\ (c.memo[c.t] = "no") \in BOOLEAN
    OBVIOUS
  <2>2. Answer(c.memo[c.t] = "yes", c.memo[c.t] = "no", FALSE, c.memo) \in CheckAnswers
    BY <1>1, <2>1 DEF Answer, CheckAnswers
  <2>3. QED BY <1>3, <2>2, CheckCases
<1>4. CASE Repeats(c)
  <2>1. Answer(FALSE, TRUE, FALSE, Recorded(c.memo, c.t, FALSE)) \in CheckAnswers
    BY <1>2 DEF Answer, CheckAnswers
  <2>2. QED BY <1>4, <2>1, CheckCases
<1>5. CASE Passes(c, am)
  <2>1. Answer(TRUE, FALSE, FALSE, Recorded(c.memo, c.t, TRUE)) \in CheckAnswers
    BY <1>2 DEF Answer, CheckAnswers
  <2>2. QED BY <1>5, <2>1, CheckCases
<1>6. CASE Descends(c, am)
  <2>1. ~IsProto(c.t)
    BY <1>6 DEF Descends, Opaque
  <2>2. PartsChecked(c.t) \in Seq(Types) /\ c.stack \cup {c.t} \in SUBSET Types
    BY <1>1, <2>1, PartsCheckedAre
  <2>3. CheckParts(chk, PartsChecked(c.t), c.stack \cup {c.t}, c.memo) \in CheckAnswers
    BY <1>1, <2>2, PartsTyped
  <2>4. Settled(c.t, CheckParts(chk, PartsChecked(c.t), c.stack \cup {c.t}, c.memo)) \in CheckAnswers
    BY <1>1, <2>3, SettledTyped
  <2>5. QED BY <1>6, <2>4, CheckCases
<1>7. QED BY <1>3, <1>4, <1>5, <1>6, CheckCases

(* A call knows what is true, and is for a type inside all that are being  *)
(* checked.                                                                *)
Sound(c) == c \in CheckCalls /\ Right(c.memo) /\ \A x \in c.stack : c.t \in Inside(x)

LEMMA CheckTells ==
  ASSUME TypesAssumption, NEW chk \in Checkers, NEW am, Known(am), NEW c, Sound(c),
         \A e \in CheckCalls :
           Sound(e) /\ e.stack = c.stack \cup {c.t} /\ c.t \notin c.stack => Tells(chk[e], {e.t})
  PROVE  Tells(Check(chk, c, am), {c.t})
<1> DEFINE t == c.t
           d == Check(chk, c, am)
<1>1. t \in Types /\ c.stack \in SUBSET Types /\ c.memo \in Memos /\ Right(c.memo) /\ c \in CheckCalls
  BY DEF CheckCalls, Sound
<1>2. d \in CheckAnswers
  BY <1>1, CheckTyped
<1>3. CASE Looked(c)
  <2>1. d = Answer(c.memo[t] = "yes", c.memo[t] = "no", FALSE, c.memo)
    BY <1>3, CheckCases
  <2>2. c.memo[t] \in {"yes", "no"}
    BY <1>1, <1>3 DEF Looked, Memos
  <2>3. d.ok = (c.memo[t] = "yes") /\ d.err = (c.memo[t] = "no") /\ d.crash = FALSE /\ d.memo = c.memo
    BY <2>1 DEF Answer
  <2>4. d.ok <=> Serializable(t)
    BY <1>1, <2>2, <2>3 DEF Right
  <2>5. QED BY <1>1, <1>2, <2>2, <2>3, <2>4 DEF Tells
<1>4. CASE Repeats(c)
  <2>1. t \in Inside(t)
    BY <1>4 DEF Sound, Repeats
  <2>2. ~Serializable(t)
    BY <1>1, <2>1, WithinIsLeast DEF Serializable
  <2>3. Recorded(c.memo, t, FALSE) \in Memos /\ Right(Recorded(c.memo, t, FALSE))
    BY <1>1, <2>2, RecordedRight
  <2>4. d = Answer(FALSE, TRUE, FALSE, Recorded(c.memo, t, FALSE))
    BY <1>4, CheckCases
  <2>5. d.ok = FALSE /\ d.err = TRUE /\ d.crash = FALSE /\ d.memo = Recorded(c.memo, t, FALSE)
    BY <2>4 DEF Answer
  <2>6. QED BY <1>2, <2>2, <2>3, <2>5 DEF Tells
<1>5. CASE Passes(c, am)
  <2>1. Serializable(t)
    <3>1. CASE IsProto(t)
      <4>1. PartsOf(t) = {} /\ ~Leaf(t)
        BY <3>1 DEF PartsOf, IsProto, Leaf
      <4>2. QED BY <1>1, <4>1, SerializableParts
    <3>2. CASE ~IsProto(t)
      BY <1>5, <3>2 DEF Passes, Opaque, ImplementsAutoMarshal, Known
    <3>3. QED BY <3>1, <3>2
  <2>3. Recorded(c.memo, t, TRUE) \in Memos /\ Right(Recorded(c.memo, t, TRUE))
    BY <1>1, <2>1, RecordedRight
  <2>4. d = Answer(TRUE, FALSE, FALSE, Recorded(c.memo, t, TRUE))
    BY <1>5, CheckCases
  <2>5. d.ok = TRUE /\ d.err = FALSE /\ d.crash = FALSE /\ d.memo = Recorded(c.memo, t, TRUE)
    BY <2>4 DEF Answer
  <2>6. QED BY <1>2, <2>1, <2>3, <2>5 DEF Tells
<1>6. CASE Descends(c, am)
  <2> DEFINE ts == PartsChecked(t)
             under == c.stack \cup {t}
             all == CheckParts(chk, ts, under, c.memo)
  <2>1. ~IsProto(t)
    BY <1>6 DEF Descends, Opaque
  <2>2. /\ ts \in Seq(Types) /\ under \in SUBSET Types
        /\ t.k # "struct" => PartsOf(t) = {ts[i] : i \in 1 .. Len(ts)}
        /\ \A i \in 1 .. Len(ts) : ts[i] \in PartsOf(t)
    BY <1>1, <2>1, PartsCheckedAre
  <2>3. ASSUME NEW i \in 1 .. Len(ts), NEW m \in Memos, Right(m)
        PROVE  Tells(chk[Asked(ts, i, under, m)], {ts[i]})
    <3> DEFINE e == Asked(ts, i, under, m)
    <3>1. ts[i] \in PartsOf(t) /\ ts[i] \in Types
      BY <1>1, <2>2, PartsAre
    <3>2. e.t = ts[i] /\ e.stack = under /\ e.memo = m /\ e \in CheckCalls
      BY <2>2, <3>1 DEF Asked, CheckCalls
    <3>3. \A x \in under : ts[i] \in Inside(x)
      <4>1. ts[i] \in Inside(t)
        BY <1>1, <3>1, WithinParts
      <4>2. ASSUME NEW x \in c.stack PROVE ts[i] \in Inside(x)
        <5>1. x \in Types /\ t \in Inside(x)
          BY <1>1 DEF Sound
        <5>2. ClosedSet(Inside(x))
          BY <5>1, WithinParts
        <5>3. QED BY <3>1, <5>1, <5>2 DEF ClosedSet
      <4>3. QED BY <4>1, <4>2
    <3> HIDE DEF e, ts
    <3>4. Sound(e)
      BY <2>3, <3>2, <3>3 DEF Sound
    <3>5. Tells(chk[e], {e.t})
      BY <1>6, <3>2, <3>4 DEF Descends, under
    <3>6. QED BY <3>2, <3>5 DEF e
  <2> HIDE DEF ts, under
  <2>4. Tells(all, {ts[i] : i \in 1 .. Len(ts)})
    BY <1>1, <2>2, <2>3, PartsTell
  <2>5. d = Settled(t, all)
    BY <1>6, CheckCases DEF ts, under
  <2>6. all \in CheckAnswers /\ all.ok \in BOOLEAN /\ all.err \in BOOLEAN /\ all.crash \in BOOLEAN /\ all.memo \in Memos /\ Right(all.memo)
    BY <2>4, AnswerFields DEF Tells
  <2>7. ~all.ok => ~Serializable(t)
    <3>1. ASSUME ~all.ok PROVE ~Serializable(t)
      <4>1. PICK i \in 1 .. Len(ts) : ~Serializable(ts[i])
        BY <2>4, <3>1 DEF Tells
      <4>2. QED BY <1>1, <2>2, <4>1, SerializableParts
    <3>2. QED BY <3>1
  <2> HIDE DEF all, t, d
  <2>8. CASE all.crash
    <3>1. d = all /\ ~all.ok /\ all.err = ~all.ok
      BY <2>4, <2>5, <2>8, SettledCases DEF Tells
    <3>2. QED BY <2>6, <2>7, <2>8, <3>1 DEF Tells, t, d
  <2>9. CASE ~all.crash /\ Verdict(t) # "record"
    <3>1. ~Serializable(t)
      BY <1>1, <2>9, SettledCases, SerializableParts
    <3>2. \E b \in BOOLEAN : d = Answer(FALSE, TRUE, b, all.memo)
      BY <2>5, <2>9, SettledCases
    <3>3. d.ok = FALSE /\ d.err = TRUE /\ d.memo = all.memo
      BY <3>2 DEF Answer
    <3>4. QED BY <1>2, <2>6, <3>1, <3>3 DEF Tells, t, d
  <2>10. CASE ~all.crash /\ Verdict(t) = "record"
    <3>1. ~Leaf(t) /\ t.k # "struct"
      BY <2>10, SettledCases DEF Leaf
    <3>2. all.ok <=> Serializable(t)
      <4>1. all.ok <=> \A x \in PartsOf(t) : Serializable(x)
        BY <2>2, <2>4, <3>1 DEF Tells
      <4>2. QED BY <1>1, <3>1, <4>1, SerializableParts
    <3>3. Recorded(all.memo, t, all.ok) \in Memos /\ Right(Recorded(all.memo, t, all.ok))
      BY <1>1, <2>6, <3>2, RecordedRight
    <3>4. d = Answer(all.ok, all.err, FALSE, Recorded(all.memo, t, all.ok))
      BY <2>5, <2>10, SettledCases
    <3>5. d.ok = all.ok /\ d.err = all.err /\ d.crash = FALSE /\ d.memo = Recorded(all.memo, t, all.ok)
      BY <3>4 DEF Answer
    <3>6. all.err = ~all.ok
      BY <2>4 DEF Tells
    <3>7. QED BY <1>2, <3>2, <3>3, <3>5, <3>6 DEF Tells, t, d
  <2>11. QED BY <2>8, <2>9, <2>10 DEF t, d
<1>7. QED BY <1>3, <1>4, <1>5, <1>6, CheckCases

(* The recursion: a stack grows with every level and holds no type twice,  *)
(* so that the level below the last is not reached.                        *)
Deepest == Cardinality(Types) + 1

LEMMA ChecksSolved ==
  ASSUME TypesAssumption, NEW am
  PROVE  \E g \in [0 .. Deepest -> Checkers] :
           /\ \A d \in 1 .. Deepest : \A c \in CheckCalls : g[d][c] = Check(g[d - 1], c, am)
           /\ Checks(am) = g[Deepest]
<1> DEFINE V == Checkers
           n == Deepest
           start == [c \in CheckCalls |-> Answer(FALSE, TRUE, FALSE, c.memo)]
           More(f) == [c \in CheckCalls |-> Check(f, c, am)]
           F == [p \in (1 .. n) \X V |-> More(p[2])]
           Solves(g) == g = [d \in 0 .. n |-> IF d = 0 THEN start ELSE More(g[d - 1])]
<1>1. n \in Nat
  BY FS_CardinalityType DEF TypesAssumption, Deepest
<1>2. start \in V
  <2>1. \A c \in CheckCalls : Answer(FALSE, TRUE, FALSE, c.memo) \in CheckAnswers
    BY DEF CheckCalls, Answer, CheckAnswers
  <2>2. QED BY <2>1 DEF Checkers
<1>3. ASSUME NEW f \in V PROVE More(f) \in V
  <2>1. \A c \in CheckCalls : Check(f, c, am) \in CheckAnswers
    BY CheckTyped
  <2>2. QED BY <2>1 DEF Checkers
<1> HIDE DEF More, start, V, n
<1>4. F \in [(1 .. n) \X V -> V] /\ \A d \in 1 .. n, f \in V : F[<<d, f>>] = More(f)
  BY <1>3
<1> HIDE DEF F
<1>5. PICK g \in [0 .. n -> V] : g[0] = start /\ \A d \in 1 .. n : g[d] = F[<<d, g[d - 1]>>]
  <2>1. Recurs(n, V, start, F)
    BY <1>1, <1>2, <1>4, Recursion
  <2>2. QED BY <2>1 DEF Recurs
<1>6. \A d \in 1 .. n : d - 1 \in 0 .. n /\ g[d - 1] \in V /\ g[d] = More(g[d - 1])
  <2> SUFFICES ASSUME NEW d \in 1 .. n PROVE d - 1 \in 0 .. n /\ g[d - 1] \in V /\ g[d] = More(g[d - 1])
    OBVIOUS
  <2>1. d - 1 \in 0 .. n
    BY <1>1
  <2>2. g[d - 1] \in V
    BY <2>1
  <2>3. QED BY <1>4, <1>5, <2>1, <2>2
<1>7. Solves(g)
  <2>1. \A d \in 0 .. n : g[d] = IF d = 0 THEN start ELSE More(g[d - 1])
    BY <1>1, <1>5, <1>6
  <2>2. g = [d \in 0 .. n |-> g[d]]
    OBVIOUS
  <2>3. QED BY <2>1, <2>2, Zenon
<1> DEFINE solution == CHOOSE f : Solves(f)
<1>8. Solves(solution)
  <2> HIDE DEF Solves
  <2>1. QED BY <1>7, Zenon
<1>9. Checks(am) = solution[n]
  BY DEF Checks, n, Deepest, start, More
<1> HIDE DEF solution
<1>10. solution[0] = start /\ \A d \in 1 .. n : solution[d] = More(solution[d - 1])
  <2>1. \A d \in 0 .. n : solution[d] = IF d = 0 THEN start ELSE More(solution[d - 1])
    BY <1>8, Zenon
  <2>2. 0 \in 0 .. n /\ \A d \in 1 .. n : d \in 0 .. n /\ d # 0
    BY <1>1
  <2>3. QED BY <2>1, <2>2, Zenon
<1> DEFINE T == {d \in Nat : d <= n => solution[d] \in V}
<1>11. 0 \in T
  BY <1>2, <1>10
<1>12. ASSUME NEW d \in Nat \cap T PROVE d + 1 \in T
  <2> SUFFICES ASSUME d + 1 <= n PROVE solution[d + 1] \in V
    OBVIOUS
  <2>1. d + 1 \in 1 .. n /\ (d + 1) - 1 = d /\ solution[d] \in V
    BY <1>1
  <2>2. QED BY <1>3, <1>10, <2>1
<1> HIDE DEF T
<1>13. \A d \in 0 .. n : solution[d] \in V
  <2>1. Nat \subseteq T
    BY <1>11, <1>12, Counting
  <2>2. QED BY <1>1, <2>1 DEF T
<1>14. solution \in [0 .. n -> V]
  <2>1. solution = [d \in 0 .. n |-> solution[d]]
    BY <1>8, Zenon
  <2>2. QED BY <1>13, <2>1
<1>15. \A d \in 1 .. n : \A c \in CheckCalls : solution[d][c] = Check(solution[d - 1], c, am)
  BY <1>10 DEF More
<1>16. QED BY <1>9, <1>14, <1>15 DEF n, V

TellsAt(chk, d) ==
  \A c \in CheckCalls : Sound(c) /\ Cardinality(c.stack) + d >= Deepest => Tells(chk[c], {c.t})

LEMMA ChecksTell ==
  ASSUME TypesAssumption, NEW am, Known(am)
  PROVE  /\ Checks(am) \in Checkers
         /\ \A c \in CheckCalls : Sound(c) => Tells(Checks(am)[c], {c.t})
<1> DEFINE N == Cardinality(Types)
           n == Deepest
<1>1. N \in Nat /\ n = N + 1
  BY FS_CardinalityType DEF TypesAssumption, Deepest
<1>2. PICK g \in [0 .. n -> Checkers] :
           /\ \A d \in 1 .. n : \A c \in CheckCalls : g[d][c] = Check(g[d - 1], c, am)
           /\ Checks(am) = g[n]
  BY ChecksSolved
<1> HIDE DEF N, n
<1>3. \A S \in SUBSET Types : IsFiniteSet(S) /\ Cardinality(S) \in Nat /\ Cardinality(S) <= N
  BY FS_Subset, FS_CardinalityType DEF TypesAssumption, N
<1> DEFINE T == {d \in Nat : d <= n => TellsAt(g[d], d)}
<1>4. 0 \in T
  <2> SUFFICES ASSUME NEW c \in CheckCalls, Cardinality(c.stack) + 0 >= Deepest PROVE FALSE
    BY DEF TellsAt
  <2>1. c.stack \in SUBSET Types
    BY DEF CheckCalls
  <2>2. QED BY <1>1, <1>3, <2>1 DEF n
<1>5. ASSUME NEW d \in Nat \cap T PROVE d + 1 \in T
  <2> SUFFICES ASSUME d + 1 <= n PROVE TellsAt(g[d + 1], d + 1)
    OBVIOUS
  <2>1. d \in 0 .. n /\ d + 1 \in 1 .. n /\ (d + 1) - 1 = d /\ TellsAt(g[d], d)
    BY <1>1
  <2> HIDE DEF T
  <2> SUFFICES ASSUME NEW c \in CheckCalls, Sound(c), Cardinality(c.stack) + (d + 1) >= Deepest
               PROVE  Tells(g[d + 1][c], {c.t})
    BY DEF TellsAt
  <2>2. g[d] \in Checkers /\ g[d + 1][c] = Check(g[d], c, am)
    BY <1>2, <2>1
  <2>3. c.stack \in SUBSET Types /\ c.t \in Types
    BY DEF CheckCalls
  <2>4. ASSUME NEW e \in CheckCalls, Sound(e), e.stack = c.stack \cup {c.t}, c.t \notin c.stack
        PROVE  Tells(g[d][e], {e.t})
    <3>1. Cardinality(e.stack) = Cardinality(c.stack) + 1
      BY <1>3, <2>3, <2>4, FS_AddElement
    <3>2. Cardinality(e.stack) + d >= Deepest
      BY <1>1, <1>3, <2>3, <3>1 DEF n
    <3>3. QED BY <2>1, <2>4, <3>2 DEF TellsAt
  <2>5. QED BY <2>2, <2>4, CheckTells
<1>6. TellsAt(g[n], n)
  <2> HIDE DEF T
  <2>1. n \in T
    BY <1>1, <1>4, <1>5, Counting
  <2>2. QED BY <1>1, <2>1 DEF T
<1>7. ASSUME NEW c \in CheckCalls, Sound(c) PROVE Tells(Checks(am)[c], {c.t})
  <2>1. c.stack \in SUBSET Types
    BY DEF CheckCalls
  <2>2. Cardinality(c.stack) + n >= Deepest
    BY <1>1, <1>3, <2>1 DEF n
  <2>3. QED BY <1>2, <1>6, <1>7, <2>2 DEF TellsAt
<1>8. Checks(am) \in Checkers
  BY <1>1, <1>2
<1>9. QED BY <1>7, <1>8

(* checkSerializable is right whenever the memo it starts from is.         *)
LEMMA CheckSerializableTells ==
  ASSUME TypesAssumption, NEW am, Known(am), NEW t \in Types, NEW memo \in Memos, Right(memo)
  PROVE  Tells(CheckSerializable(t, memo, am), {t})
<1> DEFINE c == [t |-> t, stack |-> {}, memo |-> memo]
<1>1. c \in CheckCalls /\ c.t = t /\ c.stack = {} /\ c.memo = memo
  BY DEF CheckCalls
<1>2. Sound(c)
  BY <1>1 DEF Sound
<1>3. Tells(Checks(am)[c], {c.t})
  BY <1>1, <1>2, ChecksTell
<1>4. QED BY <1>1, <1>3 DEF CheckSerializable

LEMMA CheckAllTells ==
  ASSUME TypesAssumption, NEW am, Known(am), NEW ts \in Seq(Types), NEW memo \in Memos
  PROVE  /\ CheckAll(ts, memo, am) \in CheckAnswers
         /\ Right(memo) => Tells(CheckAll(ts, memo, am), {ts[i] : i \in 1 .. Len(ts)})
<1>1. Checks(am) \in Checkers
  BY ChecksTell
<1>2. {} \in SUBSET Types
  OBVIOUS
<1>3. CheckAll(ts, memo, am) \in CheckAnswers
  BY <1>1, <1>2, PartsTyped DEF CheckAll
<1>4. ASSUME Right(memo) PROVE Tells(CheckAll(ts, memo, am), {ts[i] : i \in 1 .. Len(ts)})
  <2>1. ASSUME NEW i \in 1 .. Len(ts), NEW m \in Memos, Right(m)
        PROVE  Tells(Checks(am)[Asked(ts, i, {}, m)], {ts[i]})
    <3> DEFINE e == Asked(ts, i, {}, m)
    <3>1. ts[i] \in Types
      BY ElementOfSeq
    <3>2. e.t = ts[i] /\ e.stack = {} /\ e.memo = m /\ e \in CheckCalls
      BY <3>1 DEF Asked, CheckCalls
    <3> HIDE DEF e
    <3>3. Sound(e)
      BY <2>1, <3>2 DEF Sound
    <3>4. Tells(Checks(am)[e], {e.t})
      BY <3>2, <3>3, ChecksTell
    <3>5. QED BY <3>2, <3>4 DEF e
  <2>2. QED BY <1>1, <1>2, <1>4, <2>1, PartsTell DEF CheckAll
<1>5. QED BY <1>3, <1>4

-----------------------------------------------------------------------------
(* What the methods of a component send.                                   *)
MethodListed(m)    == m.args \in Seq(Types) /\ m.results \in Seq(Types)
ComponentListed(c) == c.methods \in Seq(EachIn(c.methods)) /\ \A m \in EachIn(c.methods) : MethodListed(m)
Sends(c)           == UNION {MethodTypes(m) : m \in EachIn(c.methods)}

LEMMA RangeOfConcat ==
  ASSUME NEW S, NEW xs \in Seq(S), NEW ys \in Seq(S)
  PROVE  EachIn(xs \o ys) = EachIn(xs) \cup EachIn(ys)
<1> DEFINE cat == xs \o ys
           m == Len(xs)
           n == Len(ys)
<1>1. m \in Nat /\ n \in Nat /\ DOMAIN xs = 1 .. m /\ DOMAIN ys = 1 .. n /\ DOMAIN cat = 1 .. Len(cat)
  BY ConcatProperties, LenProperties
<1>2. Len(cat) = m + n /\ \A i \in 1 .. m + n : cat[i] = IF i <= m THEN xs[i] ELSE ys[i - m]
  BY ConcatProperties
<1> HIDE DEF cat, m, n
<1>3. \A i \in 1 .. m : i \in 1 .. m + n /\ cat[i] = xs[i]
  BY <1>1, <1>2
<1>4. \A i \in 1 .. n : i + m \in 1 .. m + n /\ cat[i + m] = ys[i]
  <2> SUFFICES ASSUME NEW i \in 1 .. n PROVE i + m \in 1 .. m + n /\ cat[i + m] = ys[i]
    OBVIOUS
  <2> DEFINE k == i + m
  <2>1. k \in 1 .. m + n /\ ~(k <= m) /\ k - m = i
    BY <1>1
  <2> HIDE DEF k
  <2>2. cat[k] = ys[i]
    BY <1>2, <2>1
  <2>3. QED BY <2>1, <2>2 DEF k
<1>5. \A i \in 1 .. m + n : (i \in 1 .. m /\ cat[i] = xs[i]) \/ (i - m \in 1 .. n /\ cat[i] = ys[i - m])
  BY <1>1, <1>2
<1>6. EachIn(xs) = {xs[i] : i \in 1 .. m} /\ EachIn(ys) = {ys[i] : i \in 1 .. n}
  BY <1>1 DEF EachIn
<1>7. {xs[i] : i \in 1 .. m} \cup {ys[i] : i \in 1 .. n} = {cat[i] : i \in 1 .. m + n}
  BY <1>3, <1>4, <1>5
<1>8. EachIn(cat) = {cat[i] : i \in 1 .. m + n}
  BY <1>1, <1>2 DEF EachIn
<1>9. QED BY <1>6, <1>7, <1>8 DEF cat

LEMMA MethodTells ==
  ASSUME TypesAssumption, Known(autoMarshals), NEW m, MethodListed(m), NEW memo \in Memos
  PROVE  /\ ValidateMethod(m, memo) \in CheckAnswers
         /\ Right(memo) /\ m.faults = {} => Tells(ValidateMethod(m, memo), MethodTypes(m))
<1> DEFINE ts == m.args \o m.results
           all == CheckAll(ts, memo, autoMarshals)
<1>1. m.args \in Seq(Types) /\ m.results \in Seq(Types)
  BY DEF MethodListed
<1>2. ts \in Seq(Types)
  BY <1>1, ConcatProperties
<1>3. {ts[i] : i \in 1 .. Len(ts)} = MethodTypes(m)
  <2>1. EachIn(ts) = MethodTypes(m)
    BY <1>1, RangeOfConcat DEF MethodTypes
  <2>2. DOMAIN ts = 1 .. Len(ts)
    BY <1>2, LenProperties
  <2> HIDE DEF ts
  <2>3. EachIn(ts) = {ts[i] : i \in 1 .. Len(ts)}
    BY <2>2 DEF EachIn
  <2>4. QED BY <2>1, <2>3
<1> HIDE DEF ts
<1>4. all \in CheckAnswers /\ (Right(memo) => Tells(all, MethodTypes(m)))
  BY <1>2, <1>3, CheckAllTells
<1>5. all.ok \in BOOLEAN /\ all.err \in BOOLEAN /\ all.crash \in BOOLEAN /\ all.memo \in Memos
  BY <1>4, AnswerFields
<1>6. ValidateMethod(m, memo) = IF "unexported" \in m.faults THEN Answer(FALSE, TRUE, FALSE, memo)
                                ELSE Answer(all.ok, all.err \/ m.faults # {}, all.crash, all.memo)
  BY DEF ValidateMethod, Faulted, ts
<1> HIDE DEF all
<1>7. ValidateMethod(m, memo) \in CheckAnswers
  <2>1. (all.err \/ m.faults # {}) \in BOOLEAN
    OBVIOUS
  <2>2. QED BY <1>5, <1>6, <2>1 DEF Answer, CheckAnswers
<1>8. ASSUME Right(memo), m.faults = {} PROVE Tells(ValidateMethod(m, memo), MethodTypes(m))
  <2>1. (all.err \/ m.faults # {}) = all.err
    BY <1>5, <1>8
  <2>2. ValidateMethod(m, memo) = Answer(all.ok, all.err, all.crash, all.memo)
    BY <1>6, <1>8, <2>1
  <2>3. /\ ValidateMethod(m, memo).ok = all.ok /\ ValidateMethod(m, memo).err = all.err
        /\ ValidateMethod(m, memo).crash = all.crash /\ ValidateMethod(m, memo).memo = all.memo
    BY <2>2 DEF Answer
  <2>4. QED BY <1>4, <1>7, <1>8, <2>3 DEF Tells
<1>9. QED BY <1>7, <1>8

LEMMA MethodsTell ==
  ASSUME TypesAssumption, Known(autoMarshals), NEW c, ComponentListed(c), NEW memo \in Memos
  PROVE  /\ ValidateMethods(c, memo) \in CheckAnswers
         /\ Right(memo) /\ (\A m \in EachIn(c.methods) : m.faults = {}) => Tells(ValidateMethods(c, memo), Sends(c))
<1> DEFINE n == Len(c.methods)
           ask == [i \in 1 .. n |-> [m \in Memos |-> ValidateMethod(c.methods[i], m)]]
           S == [i \in 1 .. n |-> MethodTypes(c.methods[i])]
<1>1. /\ n \in Nat /\ EachIn(c.methods) = {c.methods[i] : i \in 1 .. n}
      /\ \A i \in 1 .. n : MethodListed(c.methods[i]) /\ c.methods[i] \in EachIn(c.methods)
  BY LenProperties DEF ComponentListed, EachIn
<1> HIDE DEF n
<1>2. ask \in [1 .. n -> [Memos -> CheckAnswers]]
  BY <1>1, MethodTells
<1>3. ValidateMethods(c, memo) = OneByOne(n, ask, memo)
  <2>1. \A i \in 1 .. n : \A a \in CheckAnswers : ask[i][a.memo] = ValidateMethod(c.methods[i], a.memo)
    BY AnswerFields
  <2> HIDE DEF ask
  <2>2. [i \in 1 .. n |-> [a \in CheckAnswers |-> IF a.crash THEN a ELSE Both(a, ask[i][a.memo])]]
          = [i \in 1 .. n |-> [a \in CheckAnswers |-> IF a.crash THEN a ELSE Both(a, ValidateMethod(c.methods[i], a.memo))]]
    BY <2>1
  <2>3. QED BY <2>2, Zenon DEF ValidateMethods, OneByOne, n
<1>4. ValidateMethods(c, memo) \in CheckAnswers
  <2> HIDE DEF ask
  <2>1. QED BY <1>1, <1>2, <1>3, OneByOneTyped
<1>5. ASSUME Right(memo), \A m \in EachIn(c.methods) : m.faults = {} PROVE Tells(ValidateMethods(c, memo), Sends(c))
  <2>1. \A i \in 1 .. n : \A m \in Memos : Right(m) => Tells(ask[i][m], S[i])
    BY <1>1, <1>5, MethodTells
  <2>2. AllOf(n, S) = Sends(c)
    BY <1>1 DEF Sends, AllOf
  <2> HIDE DEF ask, S
  <2>3. Tells(OneByOne(n, ask, memo), AllOf(n, S))
    BY <1>1, <1>2, <1>5, <2>1, OneByOneTells
  <2>4. QED BY <1>3, <2>2, <2>3
<1>6. QED BY <1>4, <1>5

-----------------------------------------------------------------------------
(* The loop over the components of a package without other mistakes.       *)
CompsListed(comps) == comps \in Seq(EachIn(comps)) /\ \A c \in EachIn(comps) : ComponentListed(c)
CleanComponent(c) ==
  /\ c.faults = {} /\ (\A f \in EachIn(c.listeners) : ~ListenerFault(f))
  /\ \A m \in EachIn(c.methods) : m.faults = {}
CompsClean(comps) ==
  /\ \A i, j \in DOMAIN comps : i # j => comps[i].intf # comps[j].intf
  /\ \A c \in EachIn(comps) : CleanComponent(c)

Sendable(c) == \A x \in Sends(c) : Serializable(x)

FindsSo(comps, i, a) ==
  /\ Right(a.memo) /\ (a.crash => a.err)
  /\ a.err => \E j \in 1 .. i : ~Sendable(comps[j])
  /\ ~a.err => /\ Len(a.found) = i
               /\ \A j \in 1 .. i : a.found[j] = comps[j] /\ Sendable(comps[j])

LEMMA ExtractTyped ==
  ASSUME TypesAssumption, Known(autoMarshals), NEW c, ComponentListed(c), NEW memo \in Memos
  PROVE  /\ Extract(c, memo) \in CheckAnswers
         /\ CleanComponent(c) /\ Right(memo) => Tells(Extract(c, memo), Sends(c))
<1>1. Answer(FALSE, TRUE, FALSE, memo) \in CheckAnswers
  BY AnswerTyped
<1>2. ValidateMethods(c, memo) \in CheckAnswers
  BY MethodsTell
<1>3. Extract(c, memo) \in CheckAnswers
  BY <1>1, <1>2 DEF Extract
<1>4. ASSUME CleanComponent(c), Right(memo) PROVE Tells(Extract(c, memo), Sends(c))
  <2>1. Extract(c, memo) = ValidateMethods(c, memo)
    BY <1>4 DEF Extract, CleanComponent
  <2>2. QED BY <1>4, <2>1, MethodsTell DEF CleanComponent
<1>5. QED BY <1>3, <1>4

LEMMA FindNextTyped ==
  ASSUME TypesAssumption, Known(autoMarshals), NEW comps, CompsListed(comps), NEW c \in EachIn(comps),
         NEW a \in Findings(comps)
  PROVE  FindNext(c, a) \in Findings(comps)
<1> DEFINE r == Extract(c, a.memo)
           again == Duplicate(c, a.found)
<1>1. /\ a.found \in Seq(EachIn(comps)) /\ a.err \in BOOLEAN /\ a.crash \in BOOLEAN /\ a.memo \in Memos
  BY DEF Findings
<1>2. r \in CheckAnswers
  BY <1>1, ExtractTyped DEF CompsListed
<1>3. r.err \in BOOLEAN /\ r.crash \in BOOLEAN /\ r.memo \in Memos
  BY <1>2, AnswerFields
<1>4. Append(a.found, c) \in Seq(EachIn(comps))
  BY <1>1, AppendProperties
<1>5. again \in BOOLEAN
  BY DEF Duplicate
<1>6. FindNext(c, a) = Finding(IF r.err \/ r.crash \/ again THEN a.found ELSE Append(a.found, c),
                               a.err \/ r.err \/ again, r.crash, r.memo)
  BY DEF FindNext, Added
<1> HIDE DEF r, again
<1>7. (a.err \/ r.err \/ again) \in BOOLEAN
  OBVIOUS
<1>8. (IF r.err \/ r.crash \/ again THEN a.found ELSE Append(a.found, c)) \in Seq(EachIn(comps))
  BY <1>1, <1>4
<1>9. QED BY <1>3, <1>6, <1>7, <1>8 DEF Finding, Findings

LEMMA FindNextSo ==
  ASSUME TypesAssumption, Known(autoMarshals), NEW comps, CompsListed(comps), CompsClean(comps),
         NEW i \in 1 .. Len(comps), NEW a \in Findings(comps), ~a.crash, FindsSo(comps, i - 1, a)
  PROVE  FindsSo(comps, i, FindNext(comps[i], a))
<1> DEFINE c == comps[i]
           r == Extract(c, a.memo)
           again == Duplicate(c, a.found)
           b == FindNext(c, a)
<1>0. Len(comps) \in Nat /\ DOMAIN comps = 1 .. Len(comps) /\ i \in DOMAIN comps /\ c \in EachIn(comps)
  BY LenProperties DEF CompsListed, EachIn
<1>1. /\ a.found \in Seq(EachIn(comps)) /\ a.err \in BOOLEAN /\ a.memo \in Memos /\ Right(a.memo)
  BY DEF Findings, FindsSo
<1>2. ComponentListed(c) /\ CleanComponent(c)
  BY <1>0 DEF CompsListed, CompsClean
<1>3. Tells(r, Sends(c))
  BY <1>1, <1>2, ExtractTyped
<1>4. r.err \in BOOLEAN /\ r.crash \in BOOLEAN /\ r.memo \in Memos /\ Right(r.memo) /\ (r.crash => r.err) /\ (r.err <=> ~Sendable(c))
  BY <1>3, AnswerFields DEF Tells, Sendable
<1>5. /\ b.found = (IF r.err \/ r.crash \/ again THEN a.found ELSE Append(a.found, c))
      /\ b.err = (a.err \/ r.err \/ again) /\ b.crash = r.crash /\ b.memo = r.memo
  BY DEF FindNext, Added, Finding
<1>6. again \in BOOLEAN
  BY DEF Duplicate
<1>7. ~a.err => ~again
  <2> SUFFICES ASSUME ~a.err, NEW j \in DOMAIN a.found, a.found[j].intf = c.intf PROVE FALSE
    BY DEF Duplicate
  <2>1. DOMAIN a.found = 1 .. Len(a.found)
    BY <1>1, LenProperties
  <2>2. j \in 1 .. i - 1 /\ a.found[j] = comps[j]
    BY <2>1 DEF FindsSo
  <2>3. j \in DOMAIN comps /\ j # i
    BY <1>0, <2>2
  <2>4. QED BY <1>0, <2>2, <2>3 DEF CompsClean
<1> HIDE DEF r, again, b
<1>8. Right(b.memo) /\ (b.crash => b.err)
  BY <1>4, <1>5
<1>9. ASSUME b.err PROVE \E j \in 1 .. i : ~Sendable(comps[j])
  <2>1. CASE a.err
    <3>1. PICK j \in 1 .. i - 1 : ~Sendable(comps[j])
      BY <2>1 DEF FindsSo
    <3>2. j \in 1 .. i
      OBVIOUS
    <3>3. QED BY <3>1, <3>2
  <2>2. CASE ~a.err
    <3>1. ~Sendable(c) /\ i \in 1 .. i
      BY <1>4, <1>5, <1>7, <1>9, <2>2
    <3>2. QED BY <3>1
  <2>3. QED BY <2>1, <2>2
<1>10. ASSUME ~b.err PROVE /\ Len(b.found) = i
                           /\ \A j \in 1 .. i : b.found[j] = comps[j] /\ Sendable(comps[j])
  <2>1. ~a.err /\ ~r.err /\ ~r.crash /\ ~again /\ Sendable(c)
    BY <1>1, <1>4, <1>5, <1>6, <1>10
  <2>2. b.found = Append(a.found, c) /\ Len(a.found) = i - 1
    BY <1>5, <2>1 DEF FindsSo
  <2>3. \A j \in 1 .. i - 1 : a.found[j] = comps[j] /\ Sendable(comps[j])
    BY <2>1 DEF FindsSo
  <2> DEFINE old == a.found
  <2>4. old \in Seq(EachIn(comps)) /\ c \in EachIn(comps) /\ Len(old) = i - 1
    BY <1>0, <1>1, <2>2
  <2> HIDE DEF old, c
  <2>5. Len(Append(old, c)) = i /\ Append(old, c)[i] = c /\ \A j \in 1 .. i - 1 : Append(old, c)[j] = old[j]
    BY <2>4, AppendProperties
  <2>6. QED BY <2>1, <2>2, <2>3, <2>5 DEF old, c
<1>11. QED BY <1>8, <1>9, <1>10 DEF FindsSo, b

LEMMA FoundSo ==
  ASSUME TypesAssumption, Known(autoMarshals), NEW comps, CompsListed(comps), CompsClean(comps),
         NEW memo \in Memos, Right(memo)
  PROVE  Found(comps, memo) \in Findings(comps) /\ FindsSo(comps, Len(comps), Found(comps, memo))
<1> DEFINE n == Len(comps)
           V == Findings(comps)
           start == Finding(<<>>, FALSE, FALSE, memo)
           step == [i \in 1 .. n |-> [a \in V |-> IF a.crash THEN a ELSE FindNext(comps[i], a)]]
           P == {p \in (0 .. n) \X V : FindsSo(comps, p[1], p[2])}
<1>1. n \in Nat /\ \A i \in 1 .. n : comps[i] \in EachIn(comps)
  BY LenProperties DEF CompsListed, EachIn
<1>2. start \in V /\ start.found = <<>> /\ start.err = FALSE /\ start.crash = FALSE /\ start.memo = memo
  BY EmptySeq DEF Finding, Findings
<1>3. \A i \in 1 .. n : \A a \in V : FindNext(comps[i], a) \in V
  BY <1>1, FindNextTyped
<1>4. step \in [1 .. n -> [V -> V]]
  <2> HIDE DEF V, n
  <2>1. QED BY <1>3
<1>5. Found(comps, memo) = Repeated(step, start, n)
  BY DEF Found
<1>6. <<0, start>> \in P
  <2> HIDE DEF start, V, n
  <2>1. FindsSo(comps, 0, start)
    BY <1>2, EmptySeq DEF FindsSo
  <2>2. QED BY <1>1, <1>2, <2>1
<1>7. ASSUME NEW i \in 1 .. n, NEW a \in V, <<i - 1, a>> \in P PROVE <<i, step[i][a]>> \in P
  <2>1. FindsSo(comps, i - 1, a)
    BY <1>7
  <2>2. step[i][a] = IF a.crash THEN a ELSE FindNext(comps[i], a)
    OBVIOUS
  <2>3. step[i][a] \in V /\ i \in 0 .. n
    BY <1>4
  <2> HIDE DEF step
  <2>4. FindsSo(comps, i, step[i][a])
    <3>1. CASE a.crash
      <4>1. a.err
        BY <2>1, <3>1 DEF FindsSo
      <4>2. PICK j \in 1 .. i - 1 : ~Sendable(comps[j])
        BY <2>1, <4>1 DEF FindsSo
      <4>3. j \in 1 .. i
        OBVIOUS
      <4>4. QED BY <2>1, <2>2, <3>1, <4>1, <4>2, <4>3 DEF FindsSo
    <3>2. CASE ~a.crash
      BY <2>1, <2>2, <3>2, FindNextSo
    <3>3. QED BY <3>1, <3>2
  <2>5. QED BY <2>3, <2>4
<1> HIDE DEF V, start, step, n, P
<1>8. Repeated(step, start, n) \in V /\ <<n, Repeated(step, start, n)>> \in P
  BY <1>1, <1>2, <1>4, <1>6, <1>7, RepeatedHas
<1>9. QED BY <1>5, <1>8 DEF P, n, V

-----------------------------------------------------------------------------
(* The inductive invariant: what is known of types is true, and while the  *)
(* candidates of a package are checked, an error has been met if and only  *)
(* if one of those that were checked cannot be encoded.                    *)
Packages == UNION {EachIn(p) : p \in Programs}

Checking ==
  at = "candidates" =>
    /\ pkg.sound /\ candidates = Candidates(pkg) /\ pending \subseteq candidates
    /\ checked \in Memos /\ Right(checked)
    /\ failed \in BOOLEAN
    /\ failed => \E x \in candidates : ~Serializable(x)
    /\ ~failed => \A x \in candidates \ pending : Serializable(x)

AnalysisInv ==
  /\ todo \in Seq(Packages)
  /\ at \in {"load", "candidates", "error", "panic"} \cup Writing
  /\ at # "load" => todo # <<>>
  /\ Known(autoMarshals)
  /\ Checking
  /\ VerdictRight

LEMMA PackageListed ==
  ASSUME ProgramsAssumption, NEW q \in Packages
  PROVE  Candidates(q) \subseteq Types /\ CompsListed(q.comps)
BY DEF ProgramsAssumption, Packages, Candidates, CompsListed, ComponentListed, MethodListed

LEMMA AllTypesSent ==
  ASSUME NEW comps
  PROVE  (\A x \in AllTypes(comps) : Serializable(x)) <=> \A c \in EachIn(comps) : Sendable(c)
BY DEF AllTypes, Sendable, Sends

LEMMA FreshMemo == [t \in Types |-> "unknown"] \in Memos /\ Right([t \in Types |-> "unknown"])
BY DEF Memos, Right

LEMMA AnalysisStarts == ProgramsAssumption /\ AnalysisInit => AnalysisInv
<1> SUFFICES ASSUME ProgramsAssumption, AnalysisInit PROVE AnalysisInv
  OBVIOUS
<1>1. program \in Seq(EachIn(program)) /\ EachIn(program) \subseteq Packages
  BY DEF AnalysisInit, ProgramsAssumption, Packages
<1>2. todo \in Seq(Packages)
  <2>1. \A p \in Seq(EachIn(program)) : p \in Seq(Packages)
    BY <1>1
  <2>2. QED BY <1>1, <2>1 DEF AnalysisInit
<1>3. QED BY <1>2 DEF AnalysisInv, AnalysisInit, Checking, VerdictRight, Known

(* A package found faultless is accepted when what it sends, and what it   *)
(* declares, can be encoded.                                               *)
LEMMA ExtractedRight ==
  ASSUME TypesAssumption, ProgramsAssumption, AnalysisInv, FindComponents, UNCHANGED todo
  PROVE  VerdictRight'
<1> SUFFICES ASSUME at' \in {"stubs", "error"}, Faultless
             PROVE  at' = "stubs" <=> \A t \in AllTypes(pkg.comps) \cup Candidates(pkg) : Serializable(t)
  BY DEF VerdictRight, Faultless, pkg
<1> DEFINE comps == pkg.comps
           all == Found(comps, checked)
<1>1. pkg \in Packages
  BY HeadTailProperties DEF AnalysisInv, FindComponents, pkg
<1>2. CompsListed(comps) /\ CompsClean(comps)
  <2>1. CompsListed(comps)
    BY <1>1, PackageListed
  <2>2. CompsClean(comps)
    BY DEF Faultless, CompsClean, CleanComponent
  <2>3. QED BY <2>1, <2>2
<1>3. /\ candidates = Candidates(pkg) /\ pending = {} /\ checked \in Memos /\ Right(checked) /\ Known(autoMarshals)
      /\ failed \in BOOLEAN
      /\ failed => \E x \in candidates : ~Serializable(x)
      /\ ~failed => \A x \in candidates : Serializable(x)
  BY DEF AnalysisInv, Checking, FindComponents
<1>4. CASE failed
  <2>1. at' = "error"
    BY <1>4 DEF FindComponents
  <2>2. QED BY <1>3, <1>4, <2>1
<1>5. CASE ~failed
  <2>1. FindsSo(comps, Len(comps), all) /\ all.found \in Seq(EachIn(comps))
    BY <1>2, <1>3, FoundSo DEF Findings
  <2>2. Len(comps) \in Nat /\ DOMAIN comps = 1 .. Len(comps)
    BY <1>2, LenProperties DEF CompsListed
  <2>3. at' = CASE all.crash -> "panic"
                [] ~all.crash /\ (all.err \/ \E mark \in pkg.noRetry : ~Attributed(all.found, mark)) -> "error"
                [] OTHER -> "stubs"
    BY <1>5 DEF FindComponents, Extracted
  <2> HIDE DEF all
  <2>4. (\A t \in AllTypes(comps) \cup Candidates(pkg) : Serializable(t)) <=> \A j \in 1 .. Len(comps) : Sendable(comps[j])
    <3>1. EachIn(comps) = {comps[j] : j \in 1 .. Len(comps)}
      BY <2>2 DEF EachIn
    <3>2. QED BY <1>3, <1>5, <3>1, AllTypesSent
  <2> HIDE DEF comps
  <2>5. CASE all.err
    <3>1. at' = "error"
      BY <2>3, <2>5
    <3>2. \E j \in 1 .. Len(comps) : ~Sendable(comps[j])
      BY <2>1, <2>5 DEF FindsSo
    <3>3. QED BY <2>4, <3>1, <3>2 DEF comps
  <2>6. CASE ~all.err
    <3>1. /\ ~all.crash /\ Len(all.found) = Len(comps)
          /\ \A j \in 1 .. Len(comps) : all.found[j] = comps[j] /\ Sendable(comps[j])
      BY <2>1, <2>6 DEF FindsSo
    <3>2. \A mark \in pkg.noRetry : Attributed(all.found, mark)
      <4>1. \A mark \in pkg.noRetry : Attributed(comps, mark)
        BY DEF Faultless, comps
      <4>2. DOMAIN all.found = DOMAIN comps /\ \A j \in DOMAIN comps : all.found[j] = comps[j]
        BY <2>1, <2>2, <3>1, LenProperties
      <4>3. QED BY <4>1, <4>2 DEF Attributed
    <3>3. at' = "stubs"
      BY <2>3, <2>6, <3>1, <3>2
    <3>4. QED BY <2>4, <3>1, <3>3 DEF comps
  <2>7. QED BY <2>5, <2>6
<1>6. QED BY <1>3, <1>4, <1>5

LEMMA NewGeneratorKeeps ==
  ASSUME TypesAssumption, ProgramsAssumption, AnalysisInv, NewGenerator
  PROVE  AnalysisInv'
<1>1. /\ at = "load" /\ todo # <<>> /\ todo' = todo /\ autoMarshals' = autoMarshals
      /\ candidates' = Candidates(pkg) /\ pending' = candidates' /\ failed' = FALSE
      /\ checked' = [t \in Types |-> "unknown"]
      /\ at' = IF pkg.sound THEN "candidates" ELSE "error"
  BY DEF NewGenerator
<1>2. Checking'
  BY <1>1, FreshMemo DEF Checking, pkg, Right
<1>3. VerdictRight'
  BY <1>1 DEF VerdictRight, Faultless, pkg
<1>4. QED BY <1>1, <1>2, <1>3 DEF AnalysisInv, Known

LEMMA CheckCandidateKeeps ==
  ASSUME TypesAssumption, ProgramsAssumption, AnalysisInv, NEW t \in candidates, CheckCandidate(t)
  PROVE  AnalysisInv'
<1> DEFINE a == CheckSerializable(t, checked, autoMarshals)
<1>1. /\ at = "candidates" /\ t \in pending /\ checked' = a.memo
      /\ at' = (IF a.crash THEN "panic" ELSE at)
      /\ failed' = (failed \/ a.err)
      /\ autoMarshals' = (IF a.err THEN autoMarshals ELSE autoMarshals \cup {t})
      /\ pending' = pending \ {t} /\ todo' = todo /\ candidates' = candidates
  BY DEF CheckCandidate
<1>2. /\ pkg.sound /\ candidates = Candidates(pkg) /\ pending \subseteq candidates
      /\ checked \in Memos /\ Right(checked) /\ failed \in BOOLEAN /\ Known(autoMarshals) /\ todo # <<>>
      /\ failed => \E x \in candidates : ~Serializable(x)
      /\ ~failed => \A x \in candidates \ pending : Serializable(x)
  BY <1>1 DEF AnalysisInv, Checking
<1>3. t \in Types
  <2>1. pkg \in Packages
    BY <1>2, HeadTailProperties DEF AnalysisInv, pkg
  <2>2. QED BY <1>2, <2>1, PackageListed
<1>4. Tells(a, {t})
  BY <1>2, <1>3, CheckSerializableTells
<1>5. /\ a.memo \in Memos /\ Right(a.memo) /\ a.err \in BOOLEAN /\ a.crash \in BOOLEAN
      /\ a.err <=> ~Serializable(t)
  BY <1>4, AnswerFields DEF Tells
<1> HIDE DEF a
<1>6. Known(autoMarshals)'
  BY <1>1, <1>2, <1>3, <1>5 DEF Known
<1>7. Checking'
  <2> SUFFICES ASSUME at' = "candidates" PROVE Checking'
    BY DEF Checking
  <2>1. pkg' = pkg /\ pending' \subseteq candidates' /\ Right(checked)' /\ failed' \in BOOLEAN
    BY <1>1, <1>2, <1>5 DEF pkg, Right
  <2>2. failed' => \E x \in candidates : ~Serializable(x)
    BY <1>1, <1>2, <1>5
  <2>3. ~failed' => \A x \in candidates \ pending' : Serializable(x)
    BY <1>1, <1>2, <1>5
  <2>4. QED BY <1>1, <1>2, <1>5, <2>1, <2>2, <2>3 DEF Checking, Right
<1>8. VerdictRight'
  BY <1>1 DEF VerdictRight
<1>9. at' \in {"candidates", "panic"}
  BY <1>1
<1>10. QED BY <1>1, <1>2, <1>6, <1>7, <1>8, <1>9 DEF AnalysisInv

LEMMA FindComponentsKeeps ==
  ASSUME TypesAssumption, ProgramsAssumption, AnalysisInv, FindComponents
  PROVE  AnalysisInv'
<1>1. /\ at = "candidates" /\ todo' = todo /\ autoMarshals' = autoMarshals
      /\ at' \in {"error", "panic", "stubs"}
  <2>1. at' \in {"error", "panic", "stubs"}
    <3>1. CASE failed
      BY <3>1 DEF FindComponents
    <3>2. CASE ~failed
      BY <3>2 DEF FindComponents, Extracted
    <3>3. QED BY <3>1, <3>2
  <2>2. QED BY <2>1 DEF FindComponents
<1>2. VerdictRight'
  BY <1>1, ExtractedRight
<1>3. QED BY <1>1, <1>2 DEF AnalysisInv, Checking, Known, Writing

LEMMA OthersKeep ==
  ASSUME AnalysisInv, NextPackage \/ \E next \in {"marshals", "encdec", "sizes", "load", "panic"} : Written(next)
  PROVE  AnalysisInv'
<1>1. /\ at # "load" /\ autoMarshals' = autoMarshals
      /\ at' \in {"marshals", "encdec", "sizes", "load", "panic"}
      /\ todo' = IF at' = "load" THEN Tail(todo) ELSE todo
  BY DEF NextPackage, Written, Writing
<1>2. todo' \in Seq(Packages) /\ (at' # "load" => todo' # <<>>)
  BY <1>1, HeadTailProperties DEF AnalysisInv
<1>3. QED BY <1>1, <1>2 DEF AnalysisInv, Checking, VerdictRight, Known, Writing

LEMMA AnalysisKept ==
  ASSUME TypesAssumption, ProgramsAssumption, AnalysisInv, [AnalysisNext]_analysisVars
  PROVE  AnalysisInv'
<1>1. CASE NewGenerator
  BY <1>1, NewGeneratorKeeps
<1>2. CASE \E t \in candidates : CheckCandidate(t)
  BY <1>2, CheckCandidateKeeps
<1>3. CASE FindComponents
  BY <1>3, FindComponentsKeeps
<1>4. CASE NextPackage \/ \E next \in {"marshals", "encdec", "sizes", "load", "panic"} : Written(next)
  BY <1>4, OthersKeep
<1>5. CASE UNCHANGED analysisVars
  BY <1>5 DEF AnalysisInv, Checking, VerdictRight, Known, Right, Faultless, pkg, analysisVars, Writing
<1>6. QED BY <1>1, <1>2, <1>3, <1>4, <1>5 DEF AnalysisNext

(* The generator accepts a package without other mistakes exactly when     *)
(* every type it sends and every AutoMarshal it declares can be encoded,   *)
(* for any types, recursive in whatever way, any programs, and whatever    *)
(* the order of the candidates (types.go checkSerializable).               *)
THEOREM VerdictRightCorrect == AnalysisSpec => []VerdictRight
<1>1. AnalysisInit => AnalysisInv
  BY AnalysisStarts, ProgramsAssumption
<1>2. AnalysisInv /\ [AnalysisNext]_analysisVars => AnalysisInv'
  BY AnalysisKept, TypesAssumption, ProgramsAssumption
<1>3. AnalysisInv => VerdictRight
  BY DEF AnalysisInv
<1>4. QED BY <1>1, <1>2, <1>3, PTL DEF AnalysisSpec
=============================================================================
