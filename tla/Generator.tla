------------------------------ MODULE Generator -----------------------------
(***************************************************************************)
(* internal/codegen/generator.go: "akasar generate".  What the analysis of *)
(* a package has found is written to a file, which is kept as what its     *)
(* parts agree on: the registrations, the method tables of the stubs, the  *)
(* functions defined and the functions called.                             *)
(***************************************************************************)
EXTENDS Analysis, Codec
LOCAL INSTANCE SequencesExt
LOCAL INSTANCE FiniteSetsExt

CONSTANT CheckedIn   \* [package name -> the generated file in the repository]

VARIABLES file,       \* what is being written
          generated,  \* types generateEncDecMethodFor has seen
          files       \* what has been written

fileVars == <<file, generated, files>>
vars     == <<analysisVars, fileVars>>

Empty == [registers |-> <<>>, locals |-> <<>>, clients |-> <<>>, servers |-> <<>>,
          marshals |-> {}, registered |-> {}, defs |-> <<>>, uses |-> {}]

Init == AnalysisInit /\ file = Empty /\ generated = {} /\ files = <<>>

(* A generator starts with an empty file.                                  *)
NewFile == NewGenerator /\ file' = Empty /\ generated' = {} /\ UNCHANGED files

ListenerNames(f) ==
  CASE f.tag # "" -> <<f.tag>>
    [] f.tag = "" /\ f.names = <<>> -> <<"Listener">>
    [] OTHER -> f.names
Listeners(c) == FlattenSeq([i \in DOMAIN c.listeners |-> ListenerNames(c.listeners[i])])
-----------------------------------------------------------------------------
(* Mutated form of MethodsOf: the methods as they are declared.            *)
MethodsOf_Declared(c) == c.methods
MethodsOf(c) == SortSeq(c.methods, LAMBDA m, n : Rank(m.name) < Rank(n.name))

(* noRetryString.                                                          *)
NoRetry(c) == SelectSeq([i \in DOMAIN c.methods |-> i - 1],
                        LAMBDA i : <<c.intf, MethodsOf(c)[i + 1].name>> \in pkg.noRetry)

Register(c) == [name |-> c.intf, routed |-> c.routed, listeners |-> Listeners(c), noRetry |-> NoRetry(c)]

(* encode and decode: the function or method the generated statement calls *)
(* for a type.                                                             *)
EncodesWith(t) ==
  CASE t.k = "basic" \/ IsProto(t) -> [by |-> "codec", t |-> t]
    [] ~IsProto(t) /\ Opaque(t, autoMarshals) -> [by |-> "marshal", t |-> t]
    [] t.k = "named" /\ ~IsStruct(t) /\ ~Opaque(t, autoMarshals) ->
         [by |-> IF Under(t).k = "basic" THEN "codec" ELSE "func", t |-> Under(t)]
    [] OTHER -> [by |-> "func", t |-> t]

(* Mutated form of DecodesWith: the marshal methods are not asked for.     *)
DecodesWith_Plain(t) ==
  CASE t.k = "basic" \/ IsProto(t) -> [by |-> "codec", t |-> t]
    [] t.k = "named" /\ ~IsStruct(t) /\ ~IsProto(t) ->
         [by |-> IF Under(t).k = "basic" THEN "codec" ELSE "func", t |-> Under(t)]
    [] OTHER -> [by |-> "func", t |-> t]

DecodesWith(t) ==
  CASE t.k = "basic" \/ IsProto(t) -> [by |-> "codec", t |-> t]
    [] ~IsProto(t) /\ Opaque(t, autoMarshals) -> [by |-> "marshal", t |-> t]
    [] t.k = "named" /\ ~IsStruct(t) /\ ~Opaque(t, autoMarshals) ->
         [by |-> IF Under(t).k = "basic" THEN "codec" ELSE "func", t |-> Under(t)]
    [] OTHER -> [by |-> "func", t |-> t]

Writes(ts) == [i \in DOMAIN ts |-> EncodesWith(ts[i])]
Reads(ts)  == [i \in DOMAIN ts |-> DecodesWith(ts[i])]
Needs(ts)  == ToSet(Writes(ts) \o Reads(ts))
Sized(ts) == ts # <<>> /\ \A i \in DOMAIN ts : PreAllocatable(ts[i], pkg.name)

LocalStub(c) ==
  [intf |-> c.intf,
   methods |-> [i \in DOMAIN c.methods |->
     LET m == MethodsOf(c)[i] IN [name |-> m.name, args |-> Len(m.args), results |-> Len(m.results)]]]

(* The index a client sends is the place of the name among the sorted      *)
(* names; whatever it returns it frees the results it got.                 *)
ClientStub(c) ==
  [intf |-> c.intf,
   methods |-> [i \in DOMAIN c.methods |->
     LET m == MethodsOf(c)[i]
     IN [name |-> m.name, index |-> Cardinality({n \in ToSet(c.methods) : Rank(n.name) < Rank(m.name)}),
         sized |-> Sized(m.args), sends |-> Writes(m.args), reads |-> Reads(m.results), frees |-> TRUE]]]

ServerStub(c) ==
  [intf |-> c.intf,
   methods |-> [i \in DOMAIN c.methods |->
     LET m == MethodsOf(c)[i]
     IN [name |-> m.name, reads |-> Reads(m.args), sized |-> Sized(m.results), writes |-> Writes(m.results)]]]

Called(vias) == {<<v.by, UniqueName(v.t)>> : v \in {v \in vias : v.by # "codec"}}

(* The types whose size function a size expression needs, at any depth.    *)
(* Mutated form: those it calls only.                                      *)
NeedsSize(t) == t.k = "pointer" \/ IsStruct(t)
SizeFuncsNeeded_Shallow(t) == {x \in {t} : NeedsSize(x)}
SizeFuncsNeeded(t) == {x \in Within(t) : NeedsSize(x)}

(* size: the size functions called for values of the types ts.             *)
SizeCalls(ts) ==
  LET meant == {IF t.k = "named" /\ ~IsStruct(t) THEN Under(t) ELSE t : t \in ts}
  IN {<<"size", UniqueName(t)>> : t \in {t \in meant : NeedsSize(t)}}

SizedTypes(c) ==
  UNION {(IF Sized(m.args) THEN ToSet(m.args) ELSE {}) \cup
         (IF Sized(m.results) THEN ToSet(m.results) ELSE {}) : m \in ToSet(c.methods)}

(* generate with no component and no candidate writes nothing.             *)
NothingToGenerate ==
  /\ at = "stubs" /\ components = <<>> /\ candidates = {}
  /\ Written("load") /\ UNCHANGED fileVars

EachOf(f(_)) == [i \in DOMAIN components |-> f(components[i])]

(* Registrations and stubs.                                                *)
GenerateStubs ==
  /\ at = "stubs" /\ (components # <<>> \/ candidates # {})
  /\ file' = [file EXCEPT
       !.registers = EachOf(Register), !.locals = EachOf(LocalStub),
       !.clients = EachOf(ClientStub), !.servers = EachOf(ServerStub),
       !.uses = UNION {Called(Needs(m.args \o m.results)) : m \in UNION {ToSet(c.methods) : c \in ToSet(components)}}
                \cup SizeCalls(UNION {SizedTypes(c) : c \in ToSet(components)})]
  /\ Written("marshals") /\ UNCHANGED <<generated, files>>
-----------------------------------------------------------------------------
(* generateEncDecMethodFor.  The functions generated for arrays and maps   *)
(* have unbalanced brackets.  st: the file, the types seen, a panic.       *)
Define(t, st) ==
  IF st.crash THEN st
  ELSE [st EXCEPT !.file.defs = @ \o <<<<"func", UniqueName(t)>>>>,
                  !.file.uses = @ \cup Called(Needs(Parts(t)))]

(* Mutated form: the parts of a slice or pointer are left to others.       *)
RECURSIVE GenerateEncDecFor(_, _)
GenerateEncDecFor_Shallow(st, t) ==
  IF st.crash \/ t \in st.seen THEN st
  ELSE LET next == [st EXCEPT !.seen = @ \cup {t}]
       IN CASE t.k = "basic" \/ (t.k = "named" /\ Opaque(t, autoMarshals)) -> next
            [] t.k \in {"pointer", "slice", "array", "map"} -> Define(t, next)
            [] t.k = "named" /\ ~Opaque(t, autoMarshals) -> GenerateEncDecFor(next, Under(t))
            [] OTHER -> [next EXCEPT !.crash = TRUE]

GenerateEncDecFor(st, t) ==
  IF st.crash \/ t \in st.seen THEN st
  ELSE LET next == [st EXCEPT !.seen = @ \cup {t}]
       IN CASE t.k = "basic" \/ (t.k = "named" /\ Opaque(t, autoMarshals)) -> next
            [] t.k \in {"pointer", "slice", "array", "map"} ->
                 Define(t, FoldLeft(GenerateEncDecFor, next, Parts(t)))
            [] t.k = "named" /\ ~Opaque(t, autoMarshals) -> GenerateEncDecFor(next, Under(t))
            [] OTHER -> [next EXCEPT !.crash = TRUE]

State0 == [file |-> file, seen |-> generated, crash |-> FALSE]

Generated(st, next) ==
  /\ file' = st.file /\ generated' = st.seen /\ UNCHANGED files
  /\ Written(IF st.crash THEN "panic" ELSE next)

ByName(ts) == SetToSortSeq(ts, LAMBDA t, u : Rank(t.name) < Rank(u.name))

(* The methods of an AutoMarshal pass over the embedded marker; then the   *)
(* functions of its fields.                                                *)
Inner(t) == SelectSeq(Fields(t), LAMBDA x : x # Marker)
MarshalMethods(st, t) ==
  FoldLeft(GenerateEncDecFor,
           [st EXCEPT !.file.marshals = @ \cup {<<t, Writes(Inner(t)), Reads(Inner(t))>>},
                      !.file.registered = IF Decl[t.name].error THEN @ \cup {t} ELSE @,
                      !.file.defs = @ \o <<<<"marshal", UniqueName(t)>>>>,
                      !.file.uses = @ \cup Called(Needs(Inner(t)))],
           Inner(t))

GenerateAutoMarshals ==
  /\ at = "marshals"
  /\ Generated(FoldLeft(MarshalMethods, State0, ByName(candidates)), "encdec")

GenerateEncDec ==
  /\ at = "encdec"
  /\ Generated(FoldLeft(GenerateEncDecFor, State0,
                 FlattenSeq([i \in DOMAIN components |->
                   FlattenSeq([j \in DOMAIN components[i].methods |->
                     MethodsOf(components[i])[j].args \o MethodsOf(components[i])[j].results])])), "sizes")

(* The size functions, then the file is written.                           *)
GenerateSizes ==
  /\ at = "sizes"
  /\ LET needed == UNION {SizeFuncsNeeded(t) : t \in UNION {SizedTypes(c) : c \in ToSet(components)}}
         done   == [file EXCEPT
                      !.defs = @ \o SetToSeq({<<"size", UniqueName(t)>> : t \in needed}),
                      !.uses = @ \cup SizeCalls(UNION {ToSet(Parts(t)) : t \in needed})]
     IN files' = Append(files, [pkg |-> pkg.name, of |-> components, file |-> done])
  /\ Written("load") /\ UNCHANGED <<file, generated>>

Next ==
  \/ NewFile
  \/ (\E t \in candidates : CheckCandidate(t)) /\ UNCHANGED fileVars
  \/ FindComponents /\ UNCHANGED fileVars
  \/ NextPackage /\ UNCHANGED fileVars
  \/ NothingToGenerate
  \/ GenerateStubs \/ GenerateAutoMarshals \/ GenerateEncDec \/ GenerateSizes

Spec == Init /\ [][Next]_vars
-----------------------------------------------------------------------------
(* What the stubs of other files rely on: call/stub.go numbers the methods *)
(* by their sorted names and the handler map asks the server stub by name. *)
StubMethods(c) == SortSeq([i \in DOMAIN c.methods |-> c.methods[i].name], LAMBDA m, n : Rank(m) < Rank(n))

(* Every function a generated file calls is defined in it, once, and every *)
(* marshal method it calls is in a file that has been written: what is     *)
(* generated for components, AutoMarshals and sizes shares one namespace   *)
(* and one memo (generator.go generateEncDecMethodFor, findSizeFuncNeeded).*)
Closed ==
  \A i \in DOMAIN files :
    LET f == files[i].file
    IN /\ \A j, k \in DOMAIN f.defs : f.defs[j] = f.defs[k] => j = k
       /\ \A u \in f.uses : u[1] \in {"func", "size"} => u \in ToSet(f.defs)
       /\ errs = {} => \A u \in f.uses : u[1] = "marshal" => \E j \in 1..i : u \in ToSet(files[j].file.defs)

Marks(package) == UNION {program[k].noRetry : k \in {k \in DOMAIN program : program[k].name = package}}

(* The index a client stub sends leads, through the numbering of the stub  *)
(* and the server stub's switch, to the method of that name, which reads   *)
(* with what the client wrote with and the other way round; and NoRetry    *)
(* marks the methods it names and no other.                                *)
Dispatch ==
  \A i \in DOMAIN files : \A n \in DOMAIN files[i].of :
    LET f == files[i].file  c == files[i].of[n]
    IN /\ \A m \in ToSet(f.clients[n].methods) :
             LET served == SelectSeq(f.servers[n].methods, LAMBDA h : h.name = StubMethods(c)[m.index + 1])
             IN /\ Len(served) = 1 /\ served[1].name = m.name
                /\ served[1].reads = m.sends /\ m.reads = served[1].writes
       /\ {StubMethods(c)[x + 1] : x \in ToSet(f.registers[n].noRetry)} =
            {mark[2] : mark \in {mark \in Marks(files[i].pkg) : mark[1] = c.intf}}

(* Arrays and maps are left out of what follows.                           *)
Plain(t)  == \A x \in Within(t) : x.k \notin {"array", "map"}
Errors(registered) ==
  {nil, [text |-> <<>>], [text |-> <<1>>]} \cup
  UNION {{[t |-> t, x |-> x, ptr |-> p] : x \in Values(t), p \in BOOLEAN} : t \in registered}

ReadBack(t, registered) ==
  \A x \in Values(t), e \in Errors(registered) :
    LET d == Decode(t, Encode(t, x) \o EncodeError(e))
        err == DecodeError(d.rest, registered)
    IN d.val = x /\ err.ok /\ err.val = e

(* The size expression of a slice counts a byte for each element and one   *)
(* element, so slices are no part of RightSize.                            *)
RightSize(m, package) ==
  (\A t \in ToSet(m.args) :
     PreAllocatable(t, package) /\ Plain(t) /\ \A x \in Within(t) : x.k # "slice") =>
    \A t \in ToSet(m.args) : \A x \in Values(t) : SizeOf(t, x) = Bytes(Encode(t, x))

(* What the generated functions write for the arguments of a method they   *)
(* read back, and for its results and its error; nil stays nil and empty   *)
(* stays empty; and a buffer that is allocated beforehand is as long as    *)
(* what the arguments take (generator.go:1433).                            *)
RoundTrip ==
  todo = <<>> =>
    \A i \in DOMAIN files : \A c \in ToSet(files[i].of) : \A m \in ToSet(c.methods) :
      /\ \A t \in ToSet(m.args \o m.results) : Plain(t) => ReadBack(t, files[i].file.registered)
      /\ RightSize(m, files[i].pkg)

(* Client stubs as they were before the generator made them free their    *)
(* results (generator.go:1471).                                            *)
BeforeFreeing(clients) ==
  [i \in DOMAIN clients |->
    [clients[i] EXCEPT !.methods = [j \in DOMAIN @ |-> [@[j] EXCEPT !.frees = FALSE]]]]

(* The generated files of the repository are what the generator writes for *)
(* its components, but for the client stubs of the root package: they are  *)
(* from before the generator made them free their results, and nothing     *)
(* else in any file is out of date.                                        *)
UpToDate ==
  \A i \in DOMAIN files : files[i].pkg \in DOMAIN CheckedIn =>
    LET f == files[i].file  old == CheckedIn[files[i].pkg]
    IN /\ old.clients = IF files[i].pkg = "akasar" THEN BeforeFreeing(f.clients) ELSE f.clients
       /\ ToSet(f.defs) = old.defs
       /\ \A part \in DOMAIN old \ {"defs", "clients"} : f[part] = old[part]
=============================================================================
