------------------------------- MODULE TypeSet ------------------------------
(***************************************************************************)
(* checkSerializable in internal/codegen/types.go: how the generator       *)
(* decides what it can encode.  autoMarshals is the set of types known to  *)
(* have generated marshal methods; tSet.checked is the memo of a package.  *)
(***************************************************************************)
EXTENDS GoTypes

Memos == [Types -> {"unknown", "yes", "no"}]
Recorded(memo, t, ok) == [memo EXCEPT ![t] = IF ok THEN "yes" ELSE "no"]

(* What a check answers: the result, whether it reported an error or       *)
(* panicked, and the memo it leaves.                                       *)
Answer(ok, err, crash, memo) == [ok |-> ok, err |-> err, crash |-> crash, memo |-> memo]
CheckAnswers == [ok : BOOLEAN, err : BOOLEAN, crash : BOOLEAN, memo : Memos]

(* What it is called with: stack holds the types being checked.            *)
CheckCalls == [t : Types, stack : SUBSET Types, memo : Memos]

(* implementsAutoMarshal: isAkasarUnmarshal takes the parameters for the   *)
(* results, so that no method with the right signature is recognised.      *)
ImplementsAutoMarshal(t) == FALSE

Opaque(t, autoMarshals) == IsProto(t) \/ t \in autoMarshals \/ ImplementsAutoMarshal(t)

(* What check does with a type once its parts are checked.                 *)
(*   record: checked.Set with the conjunction of the parts                 *)
(*   silent: an error, and nothing recorded                                *)
(*   crash:  an error, and then checked.At(t).(bool) on nil                *)
Verdict(t) ==
  CASE t.k \in {"interface", "struct"} -> "crash"
    [] t.k = "func" \/ (t.k = "basic" /\ t.name \notin Supported) -> "silent"
    [] OTHER -> "record"

(* What becomes of t, given the answer for its parts.                      *)
Settled(t, all) ==
  CASE all.crash -> all
    [] ~all.crash /\ Verdict(t) = "crash"  -> Answer(FALSE, TRUE, TRUE, all.memo)
    [] ~all.crash /\ Verdict(t) = "silent" -> Answer(FALSE, TRUE, FALSE, all.memo)
    [] OTHER -> Answer(all.ok, all.err, FALSE, Recorded(all.memo, t, all.ok))

(* Every part is checked, also after one has failed; a panic ends it all.  *)
Both(a, b) == Answer(a.ok /\ b.ok, a.err \/ b.err, b.crash, b.memo)
CheckParts(check, ts, stack, memo) ==
  Repeated([i \in 1 .. Len(ts) |-> [a \in CheckAnswers |->
              IF a.crash THEN a ELSE Both(a, check[[t |-> ts[i], stack |-> stack, memo |-> a.memo]])]],
           Answer(TRUE, FALSE, FALSE, memo), Len(ts))

PartsChecked(t) == IF t.k = "struct" THEN <<>> ELSE Parts(t)

(* Mutated form of Check: a recursive type is not found out.               *)
Check_NoStack(check, c, autoMarshals) ==
  CASE c.memo[c.t] # "unknown" -> Answer(c.memo[c.t] = "yes", c.memo[c.t] = "no", FALSE, c.memo)
    [] c.memo[c.t] = "unknown" /\ c.t \in c.stack -> Answer(TRUE, FALSE, FALSE, c.memo)
    [] c.memo[c.t] = "unknown" /\ c.t \notin c.stack /\ Opaque(c.t, autoMarshals) ->
         Answer(TRUE, FALSE, FALSE, Recorded(c.memo, c.t, TRUE))
    [] OTHER -> Settled(c.t, CheckParts(check, PartsChecked(c.t), c.stack \cup {c.t}, c.memo))

(* check: the memo first, then the stack of types being checked, then the  *)
(* type's kind; check[call] is what it answers one level deeper.           *)
Check(check, c, autoMarshals) ==
  CASE c.memo[c.t] # "unknown" -> Answer(c.memo[c.t] = "yes", c.memo[c.t] = "no", FALSE, c.memo)
    [] c.memo[c.t] = "unknown" /\ c.t \in c.stack ->
         Answer(FALSE, TRUE, FALSE, Recorded(c.memo, c.t, FALSE))
    [] c.memo[c.t] = "unknown" /\ c.t \notin c.stack /\ Opaque(c.t, autoMarshals) ->
         Answer(TRUE, FALSE, FALSE, Recorded(c.memo, c.t, TRUE))
    [] OTHER -> Settled(c.t, CheckParts(check, PartsChecked(c.t), c.stack \cup {c.t}, c.memo))

(* The recursion: a stack holds a type once, so that the last level is     *)
(* never reached.                                                          *)
Checks(autoMarshals) ==
  LET check[d \in 0 .. Cardinality(Types) + 1] ==
        IF d = 0 THEN [c \in CheckCalls |-> Answer(FALSE, TRUE, FALSE, c.memo)]
        ELSE [c \in CheckCalls |-> Check(check[d - 1], c, autoMarshals)]
  IN  check[Cardinality(Types) + 1]

CheckSerializable(t, memo, autoMarshals) == Checks(autoMarshals)[[t |-> t, stack |-> {}, memo |-> memo]]

(* checkSerializable of each of ts.                                        *)
CheckAll(ts, memo, autoMarshals) == CheckParts(Checks(autoMarshals), ts, {}, memo)
=============================================================================
