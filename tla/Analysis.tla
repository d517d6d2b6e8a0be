------------------------------ MODULE Analysis ------------------------------
(***************************************************************************)
(* What newGenerator in internal/codegen/generator.go finds in a package:  *)
(* its AutoMarshals and its components.  One generator per package, in the *)
(* order the packages were loaded; the types found to be AutoMarshals are  *)
(* known to the generators that come later.                                *)
(*                                                                         *)
(* A package [name, sound, types, comps, noRetry]: whether it loads and no *)
(* generic struct embeds akasar.AutoMarshal, the structs that embed it,    *)
(* the component implementations, and what NotRetriable is assigned to.    *)
(* A component [intf, faults, methods, listeners, routed]: listeners are   *)
(* the fields of that type, [tag, names].  A method [name, faults, args,   *)
(* results]: faults are the mistakes the generator reports; args leave out *)
(* the context and results the error.                                      *)
(***************************************************************************)
EXTENDS TypeSet, TLC

CONSTANTS Programs,   \* sequences of packages
          Alphabet    \* the names of methods, components and types, sorted

VARIABLES program,    \* what is generated for
          todo,       \* packages still to come
          at,         \* the stage of the current package
          autoMarshals, candidates, checked,  \* the typeSet
          pending,    \* candidates to check
          failed,     \* the current package has an error
          components, \* the current package's, by interface
          errs        \* packages with an error

analysisVars ==
  <<program, todo, at, autoMarshals, candidates, checked, pending, failed, components, errs>>

EachIn(s)    == {s[i] : i \in DOMAIN s}

ASSUME ProgramsAssumption ==
  \A p \in Programs :
    /\ p \in Seq(EachIn(p))
    /\ \A q \in EachIn(p) :
         /\ {Named(n) : n \in q.types} \subseteq Types
         /\ q.comps \in Seq(EachIn(q.comps))
         /\ \A c \in EachIn(q.comps) :
              /\ c.methods \in Seq(EachIn(c.methods))
              /\ \A m \in EachIn(c.methods) : m.args \in Seq(Types) /\ m.results \in Seq(Types)

pkg  == Head(todo)
Rank(name) == CHOOSE i \in DOMAIN Alphabet : Alphabet[i] = name

AnalysisInit ==
  /\ program \in Programs /\ todo = program /\ at = "load"
  /\ autoMarshals = {} /\ candidates = {} /\ checked = [t \in Types |-> "unknown"] /\ pending = {}
  /\ failed = FALSE /\ components = <<>> /\ errs = {}

(* findAutoMarshals: the structs that embed akasar.AutoMarshal.            *)
Candidates(p) == {Named(n) : n \in p.types}

(* newGenerator up to the candidates: a package that did not load, or with *)
(* a generic AutoMarshal, has no generator.                                *)
NewGenerator ==
  /\ at = "load" /\ todo # <<>>
  /\ candidates' = Candidates(pkg) /\ pending' = candidates' /\ checked' = [t \in Types |-> "unknown"]
  /\ failed' = FALSE /\ components' = <<>>
  /\ at' = IF pkg.sound THEN "candidates" ELSE "error"
  /\ UNCHANGED <<program, todo, autoMarshals, errs>>

(* A struct that embeds akasar.AutoMarshal, in the order of a hash map.  A *)
(* panic of the generator ends the program: nothing more is written.       *)
CheckCandidate(t) ==
  /\ at = "candidates" /\ t \in pending
  /\ LET answer == CheckSerializable(t, checked, autoMarshals)
     IN /\ checked' = answer.memo
        /\ at' = IF answer.crash THEN "panic" ELSE at
        /\ failed' = (failed \/ answer.err)
        /\ autoMarshals' = IF answer.err THEN autoMarshals ELSE autoMarshals \cup {t}
  /\ pending' = pending \ {t}
  /\ UNCHANGED <<program, todo, candidates, components, errs>>

(* validateMethods: every method is looked at, also after a mistake.       *)
Faulted(all, faults) == Answer(all.ok, all.err \/ faults # {}, all.crash, all.memo)

ValidateMethod(m, memo) ==
  IF "unexported" \in m.faults THEN Answer(FALSE, TRUE, FALSE, memo)
  ELSE Faulted(CheckAll(m.args \o m.results, memo, autoMarshals), m.faults)

ValidateMethods(c, memo) ==
  Repeated([i \in 1 .. Len(c.methods) |-> [a \in CheckAnswers |->
              IF a.crash THEN a ELSE Both(a, ValidateMethod(c.methods[i], a.memo))]],
           Answer(TRUE, FALSE, FALSE, memo), Len(c.methods))

(* getListenerNamesFromStructField.                                        *)
ListenerFault(f) == f.tag # "" /\ (Len(f.names) > 1 \/ f.tag = "not an identifier")

(* extractComponent: the names of the listeners are compared with a set    *)
(* that stays empty.                                                       *)
Extract(c, memo) ==
  IF c.faults # {} \/ \E f \in EachIn(c.listeners) : ListenerFault(f)
  THEN Answer(FALSE, TRUE, FALSE, memo)
  ELSE ValidateMethods(c, memo)

(* The loop over the declarations: a second implementation of a component  *)
(* is an error.                                                            *)
Finding(found, err, crash, memo) == [found |-> found, err |-> err, crash |-> crash, memo |-> memo]
Findings(comps) == [found : Seq(EachIn(comps)), err : BOOLEAN, crash : BOOLEAN, memo : Memos]
Duplicate(c, found) == \E i \in DOMAIN found : found[i].intf = c.intf

Added(c, a, r) ==
  Finding(IF r.err \/ r.crash \/ Duplicate(c, a.found) THEN a.found ELSE Append(a.found, c),
          a.err \/ r.err \/ Duplicate(c, a.found), r.crash, r.memo)
FindNext(c, a) == Added(c, a, Extract(c, a.memo))

Found(comps, memo) ==
  Repeated([i \in 1 .. Len(comps) |-> [a \in Findings(comps) |->
              IF a.crash THEN a ELSE FindNext(comps[i], a)]],
           Finding(<<>>, FALSE, FALSE, memo), Len(comps))

(* findMethodAttribute: NotRetriable must be assigned a method of a        *)
(* component of the package.                                               *)
Attributed(cs, mark) ==
  \E i \in DOMAIN cs : cs[i].intf = mark[1] /\ \E j \in DOMAIN cs[i].methods : cs[i].methods[j].name = mark[2]

(* What the loop finds, and its errors.                                    *)
Extracted(all) ==
  /\ checked' = all.memo
  /\ components' = SortSeq(all.found, LAMBDA c, d : Rank(c.intf) < Rank(d.intf))
  /\ at' = CASE all.crash -> "panic"
             [] ~all.crash /\ (all.err \/ \E mark \in pkg.noRetry : ~Attributed(all.found, mark)) -> "error"
             [] OTHER -> "stubs"

FindComponents ==
  /\ at = "candidates" /\ pending = {}
  /\ IF failed THEN at' = "error" /\ checked' = checked /\ components' = <<>>
     ELSE Extracted(Found(pkg.comps, checked))
  /\ UNCHANGED <<program, todo, autoMarshals, candidates, pending, failed, errs>>

(* Generate goes on with the next package after an error.                  *)
NextPackage ==
  /\ at = "error"
  /\ errs' = errs \cup {pkg.name} /\ todo' = Tail(todo) /\ at' = "load"
  /\ UNCHANGED <<program, autoMarshals, candidates, checked, pending, failed, components>>

(* The stages that write the file leave what was found alone; after the    *)
(* last one comes the next package.                                        *)
Writing == {"stubs", "marshals", "encdec", "sizes"}
Written(next) ==
  /\ at \in Writing /\ at' = next
  /\ todo' = IF next = "load" THEN Tail(todo) ELSE todo
  /\ UNCHANGED <<program, autoMarshals, candidates, checked, pending, failed, components, errs>>

AnalysisNext ==
  \/ NewGenerator
  \/ \E t \in candidates : CheckCandidate(t)
  \/ FindComponents \/ NextPackage
  \/ \E next \in {"marshals", "encdec", "sizes", "load", "panic"} : Written(next)

AnalysisSpec == AnalysisInit /\ [][AnalysisNext]_analysisVars
-----------------------------------------------------------------------------
MethodTypes(m) == EachIn(m.args) \cup EachIn(m.results)
AllTypes(comps) == UNION {UNION {MethodTypes(m) : m \in EachIn(c.methods)} : c \in EachIn(comps)}

Faultless ==
  /\ pkg.sound /\ \A mark \in pkg.noRetry : Attributed(pkg.comps, mark)
  /\ \A i, j \in DOMAIN pkg.comps : i # j => pkg.comps[i].intf # pkg.comps[j].intf
  /\ \A c \in EachIn(pkg.comps) :
       /\ c.faults = {} /\ (\A f \in EachIn(c.listeners) : ~ListenerFault(f))
       /\ \A m \in EachIn(c.methods) : m.faults = {}

(* A package without other mistakes is accepted exactly when every type it *)
(* sends and every AutoMarshal it declares is a finite tree of basic types *)
(* and messages, in whatever order the candidates were checked and with    *)
(* whatever the memo of earlier checks holds (types.go checkSerializable). *)
VerdictRight ==
  at \in {"stubs", "error"} /\ Faultless
    => (at = "stubs" <=> \A t \in AllTypes(pkg.comps) \cup Candidates(pkg) : Serializable(t))
=============================================================================
