-------------------------------- MODULE Codec -------------------------------
(***************************************************************************)
(* What the generated code writes for a value, reads back, and counts      *)
(* before it writes.  A message is a sequence of words [w, v]: v in w      *)
(* bytes.  Arrays and maps are left out: the functions generated for them  *)
(* do not compile.                                                         *)
(***************************************************************************)
EXTENDS TypeSizes
LOCAL INSTANCE SequencesExt
LOCAL INSTANCE FiniteSetsExt

Word(w, v) == <<[w |-> w, v |-> v]>>
Bytes(s)   == FoldSeq(LAMBDA word, n : word.w + n, 0, s)
nil        == <<>>           \* a nil pointer or slice
Some(x)    == <<x>>          \* a pointer to x, a slice with the elements x

RECURSIVE Values(_), Tuples(_)
Values(t) ==
  CASE t.k = "basic"   -> IF t.name = "string" THEN {<<>>, <<1>>, <<1, 2>>} ELSE {0, 1}
    [] IsProto(t)      -> {<<>>, <<1>>}
    [] t.k = "pointer" -> {nil} \cup {Some(x) : x \in Values(t.elem)}
    [] t.k = "slice"   -> {nil, Some(<<>>)} \cup {Some(<<x>>) : x \in Values(t.elem)}
                            \cup {Some(<<x, CHOOSE y \in Values(t.elem) : TRUE>>) : x \in Values(t.elem)}
    [] IsStruct(t)     -> Tuples(Fields(t))
    [] t.k = "named"   -> Values(Under(t))
    [] OTHER -> {}
Tuples(ts) ==
  IF ts = <<>> THEN {<<>>} ELSE {<<x>> \o xs : x \in Values(Head(ts)), xs \in Tuples(Tail(ts))}

(* Mutated form of Encode: a nil slice is written like an empty one.       *)
RECURSIVE Encode(_, _)
Encode_NoNil(t, x) ==
  CASE t.k = "basic" ->
         IF t.name = "string"
         THEN Word(4, Len(x)) \o [i \in DOMAIN x |-> [w |-> 1, v |-> x[i]]]
         ELSE Word(BasicSize[t.name], x)
    [] IsProto(t)      -> Encode(Basic("string"), x)
    [] t.k = "pointer" -> IF x = nil THEN Word(1, 0) ELSE Word(1, 1) \o Encode(t.elem, x[1])
    [] t.k = "slice" ->
         IF x = nil THEN Word(4, 0)
         ELSE Word(4, Len(x[1])) \o FlattenSeq([i \in DOMAIN x[1] |-> Encode(t.elem, x[1][i])])
    [] IsStruct(t) -> FlattenSeq([i \in DOMAIN x |-> Encode(Fields(t)[i], x[i])])
    [] OTHER -> Encode(Under(t), x)

(* generator.encode and the Enc functions, with the Serializer's methods.  *)
Encode(t, x) ==
  CASE t.k = "basic" ->
         IF t.name = "string"
         THEN Word(4, Len(x)) \o [i \in DOMAIN x |-> [w |-> 1, v |-> x[i]]]
         ELSE Word(BasicSize[t.name], x)
    [] IsProto(t)      -> Encode(Basic("string"), x)
    [] t.k = "pointer" -> IF x = nil THEN Word(1, 0) ELSE Word(1, 1) \o Encode(t.elem, x[1])
    [] t.k = "slice" ->
         IF x = nil THEN Word(4, -1)
         ELSE Word(4, Len(x[1])) \o FlattenSeq([i \in DOMAIN x[1] |-> Encode(t.elem, x[1][i])])
    [] IsStruct(t) -> FlattenSeq([i \in DOMAIN x |-> Encode(Fields(t)[i], x[i])])
    [] OTHER -> Encode(Under(t), x)

(* generator.decode, the Dec functions and the Deserializer: the value and *)
(* the words that are left.                                                *)
RECURSIVE Decode(_, _), DecodeEach(_, _)
Decode(t, s) ==
  CASE t.k = "basic" ->
         IF t.name = "string"
         THEN [val |-> [i \in 1..Head(s).v |-> s[i + 1].v], rest |-> SubSeq(s, Head(s).v + 2, Len(s))]
         ELSE [val |-> Head(s).v, rest |-> Tail(s)]
    [] IsProto(t) -> Decode(Basic("string"), s)
    [] t.k = "pointer" ->
         IF Head(s).v = 0 THEN [val |-> nil, rest |-> Tail(s)]
         ELSE LET d == Decode(t.elem, Tail(s)) IN [val |-> Some(d.val), rest |-> d.rest]
    [] t.k = "slice" ->
         IF Head(s).v = -1 THEN [val |-> nil, rest |-> Tail(s)]
         ELSE LET d == DecodeEach([i \in 1..Head(s).v |-> t.elem], Tail(s))
              IN [val |-> Some(d.val), rest |-> d.rest]
    [] IsStruct(t) -> DecodeEach(Fields(t), s)
    [] OTHER -> Decode(Under(t), s)

DecodeEach(ts, s) ==
  IF ts = <<>> THEN [val |-> <<>>, rest |-> s]
  ELSE LET d == Decode(Head(ts), s)  e == DecodeEach(Tail(ts), d.rest)
       IN [val |-> <<d.val>> \o e.val, rest |-> e.rest]

(* typKey: an error that can marshal itself goes by the name of its        *)
(* pointer type.                                                           *)
TypKey(t) == Encode(Basic("string"), <<t>>)

(* Serializer.Error: nothing for nil, an error [t, x, ptr] that marshals   *)
(* itself by name and value (1: the error is the pointer, 2: the value),   *)
(* any other error as its text; then the end of the errors.  Mutated form: *)
(* the end is written for nil only.                                        *)
EncodeError_NoEnd(e) ==
  CASE e = nil -> Word(1, 0)
    [] e # nil /\ "text" \in DOMAIN e -> Word(1, 3) \o Encode(Basic("string"), e.text)
    [] OTHER -> Word(1, IF e.ptr THEN 1 ELSE 2) \o TypKey(e.t) \o Encode(e.t, e.x)

EncodeError(e) ==
  (CASE e = nil -> <<>>
     [] e # nil /\ "text" \in DOMAIN e -> Word(1, 3) \o Encode(Basic("string"), e.text)
     [] OTHER -> Word(1, IF e.ptr THEN 1 ELSE 2) \o TypKey(e.t) \o Encode(e.t, e.x))
  \o Word(1, 0)

(* Any: only a registered type is read.                                    *)
DecodeAny(s, registered) ==
  LET key == Decode(Basic("string"), s)
  IN IF key.val[1] \notin registered THEN [ok |-> FALSE, t |-> key.val[1], val |-> nil, rest |-> <<>>]
     ELSE LET d == Decode(key.val[1], key.rest) IN [ok |-> TRUE, t |-> key.val[1], val |-> d.val, rest |-> d.rest]

(* Deserializer.Error, for the one error that is written: ok is FALSE for  *)
(* a panic.                                                                *)
DecodeError(s, registered) ==
  CASE s = <<>> -> [ok |-> FALSE, val |-> nil]
    [] s # <<>> /\ Head(s).v = 0 -> [ok |-> TRUE, val |-> nil]
    [] s # <<>> /\ Head(s).v = 3 ->
         LET d == Decode(Basic("string"), Tail(s))
         IN [ok |-> d.rest # <<>> /\ d.rest[1].v = 0, val |-> [text |-> d.val]]
    [] OTHER ->
         LET d == DecodeAny(Tail(s), registered)
         IN [ok |-> d.ok /\ d.rest # <<>> /\ d.rest[1].v = 0, val |-> [t |-> d.t, x |-> d.val, ptr |-> Head(s).v = 1]]

(* What the generated size expressions and functions add up to.  Mutated   *)
(* form: the flag before a pointer's element is not counted.               *)
RECURSIVE SizeOf(_, _)
SizeOf_NoFlag(t, x) ==
  CASE t.k = "basic"   -> IF t.name = "string" THEN 4 + Len(x) ELSE SizeOfType(t)
    [] t.k = "pointer" -> IF x = nil THEN 1 ELSE SizeOf(t.elem, x[1])
    [] t.k = "slice"   -> 4 + (IF x = nil THEN 0 ELSE Len(x[1])) + SizeOfType(t.elem)
    [] IsStruct(t)     -> MapThenSumSet(LAMBDA i : SizeOf(Fields(t)[i], x[i]), DOMAIN x)
    [] OTHER           -> SizeOf(Under(t), x)

SizeOf(t, x) ==
  CASE t.k = "basic"   -> IF t.name = "string" THEN 4 + Len(x) ELSE SizeOfType(t)
    [] t.k = "pointer" -> IF x = nil THEN 1 ELSE 1 + SizeOf(t.elem, x[1])
    [] t.k = "slice"   -> 4 + (IF x = nil THEN 0 ELSE Len(x[1])) + SizeOfType(t.elem)
    [] IsStruct(t)     -> MapThenSumSet(LAMBDA i : SizeOf(Fields(t)[i], x[i]), DOMAIN x)
    [] OTHER           -> SizeOf(Under(t), x)
=============================================================================
