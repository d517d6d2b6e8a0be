------------------------------ MODULE TypeSizes -----------------------------
(***************************************************************************)
(* What internal/codegen finds out about a type it can encode: whether it  *)
(* can be measured before encoding, and the name of its functions.         *)
(***************************************************************************)
EXTENDS TypeSet
LOCAL INSTANCE SequencesExt

(* sizeOfType: -1 for a size that depends on the value.  The sizes of the  *)
(* fields of a struct are not added up.                                    *)
RECURSIVE SizeOfType(_)
SizeOfType(t) ==
  CASE t.k = "basic"  -> IF t.name \in DOMAIN BasicSize THEN BasicSize[t.name] ELSE -1
    [] t.k = "array"  -> IF SizeOfType(t.elem) < 0 THEN -1 ELSE t.len * SizeOfType(t.elem)
    [] t.k = "struct" -> IF \E i \in DOMAIN t.fields : SizeOfType(t.fields[i]) < 0 THEN -1 ELSE 0
    [] t.k = "named"  -> SizeOfType(Under(t))
    [] OTHER -> -1

IsFixedSize(t) == SizeOfType(t) >= 0

(* isMeasurable, for the package pkg.  The fields of a struct literal are  *)
(* of the package that declares it.                                        *)
RECURSIVE IsMeasurable(_, _)
IsMeasurable(t, pkg) ==
  CASE t.k = "basic"   -> t.name \in Supported
    [] t.k = "pointer" -> IsMeasurable(t.elem, pkg)
    [] t.k \in {"slice", "array"} -> IsFixedSize(t.elem)
    [] t.k = "map"     -> IsFixedSize(t.key) /\ IsFixedSize(t.elem)
    [] t.k = "struct"  -> \A i \in DOMAIN t.fields : IsMeasurable(t.fields[i], pkg)
    [] t.k = "named"   -> t = Marker \/ (Decl[t.name].pkg = pkg /\ IsMeasurable(Under(t), pkg))
    [] OTHER -> FALSE

(* isAkasarEncoded: nothing in the type is a protobuf message.             *)
IsAkasarEncoded(t) == \A x \in Within(t) : ~IsProto(x)

(* uniqueName: what the generated functions are called after, with a hash  *)
(* that is taken to tell all names apart.  A declared type is marked as    *)
(* such: it may be called int.                                             *)
RECURSIVE UniqueName(_)
UniqueName(t) ==
  CASE t.k = "basic"   -> <<t.name>>
    [] t.k = "pointer" -> <<"*">> \o UniqueName(t.elem)
    [] t.k = "slice"   -> <<"[]">> \o UniqueName(t.elem)
    [] t.k = "array"   -> <<"[", t.len, "]">> \o UniqueName(t.elem)
    [] t.k = "map"     -> <<"map[">> \o UniqueName(t.key) \o <<"]">> \o UniqueName(t.elem)
    [] t.k = "struct"  -> <<"struct{">> \o FlattenSeq([i \in DOMAIN t.fields |-> UniqueName(t.fields[i])]) \o <<"}">>
    [] OTHER           -> <<"Named", Decl[t.name].pkg, t.name>>

PreAllocatable(t, pkg) == IsMeasurable(t, pkg) /\ IsAkasarEncoded(t)
=============================================================================
