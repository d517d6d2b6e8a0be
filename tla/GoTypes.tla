------------------------------- MODULE GoTypes ------------------------------
(***************************************************************************)
(* The Go types the code generator reads, as terms, and what "serializable"*)
(* means for them, independently of how the generator finds out.           *)
(***************************************************************************)
EXTENDS Integers, Sequences, FiniteSets

CONSTANTS Decl,  \* Decl[n] for a declared type n: its package, its underlying
                 \* type, and whether it is a protobuf message, embeds
                 \* akasar.AutoMarshal, or is an error
          Types  \* the types that occur, with what they are made of

Basic(n)   == [k |-> "basic", name |-> n]
Pointer(t) == [k |-> "pointer", elem |-> t]
Slice(t)   == [k |-> "slice", elem |-> t]
Array(t)   == [k |-> "array", elem |-> t, len |-> 2]
MapOf(u, t) == [k |-> "map", key |-> u, elem |-> t]
Struct(fs) == [k |-> "struct", fields |-> fs]
Interface  == [k |-> "interface"]
Func       == [k |-> "func"]
Named(n)   == [k |-> "named", name |-> n]

Under(t)   == Decl[t.name].under
IsStruct(t) == t.k = "struct" \/ (t.k = "named" /\ Under(t).k = "struct")
Fields(t)  == IF t.k = "struct" THEN t.fields ELSE Under(t).fields

BasicSize ==
  [bool |-> 1, int8 |-> 1, int32 |-> 4, uint32 |-> 4, int64 |-> 8, int |-> 8, complex128 |-> 16]
Supported == DOMAIN BasicSize \cup {"string"}

(* The types a value of type t is made of, one level down.                 *)
Parts(t) ==
  CASE t.k \in {"pointer", "slice", "array"} -> <<t.elem>>
    [] t.k = "map"     -> <<t.key, t.elem>>
    [] IsStruct(t)     -> Fields(t)
    [] t.k = "named"   -> <<Under(t)>>
    [] OTHER           -> <<>>

(* A protobuf message, and akasar.AutoMarshal, which structs embed.        *)
IsProto(t) == t.k = "named" /\ Decl[t.name].proto
Marker     == Named("AutoMarshal")

PartsOf(t) == IF IsProto(t) THEN {} ELSE {Parts(t)[i] : i \in DOMAIN Parts(t)}

ASSUME TypesAssumption ==
  /\ IsFiniteSet(Types)
  /\ \A t \in Types : ~IsProto(t) => Parts(t) \in Seq(Types)

(* n steps from start, the i-th from x to step[i][x].                      *)
Repeated(step, start, n) ==
  LET after[i \in 0 .. n] == IF i = 0 THEN start ELSE step[i][after[i - 1]]
  IN  after[n]

(* The types t contains, t itself among them, and those inside t.          *)
Within(t) ==
  Repeated([i \in 1 .. Cardinality(Types) |-> [S \in SUBSET Types |-> S \cup UNION {PartsOf(x) : x \in S}]],
           {t}, Cardinality(Types))
Inside(t) == UNION {Within(x) : x \in PartsOf(t)}

Leaf(t) ==
  \/ t.k = "basic" /\ t.name \notin Supported
  \/ t.k \in {"interface", "func", "struct"}

(* Serializable: a finite tree whose leaves are basic types and protobuf   *)
(* messages.                                                               *)
Serializable(t) == \A x \in Within(t) : ~Leaf(x) /\ x \notin Inside(x)
=============================================================================
