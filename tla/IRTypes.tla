------------------------------- MODULE IRTypes -------------------------------
(***************************************************************************)
(* The types of llvmlite.ir (types.py) as records whose field k names the  *)
(* class, with the three operators the rest of the package is built on:    *)
(* equality (__eq__), the text that LLVM reads (_to_string), and the type  *)
(* of an element (gep, elements).                                          *)
(***************************************************************************)
EXTENDS Integers, Sequences

IntTy(w) == [k |-> "int", w |-> w]
Half == [k |-> "half"]
Float == [k |-> "float"]
Double == [k |-> "double"]
Void == [k |-> "void"]
Label == [k |-> "label"]
MetaData == [k |-> "metadata"]
Pointer(as) == [k |-> "ptr", as |-> as]
TypedPointer(t, as) == [k |-> "tptr", to |-> t, as |-> as]
Vector(t, n) == [k |-> "vector", of |-> t, n |-> n]
Array(t, n) == [k |-> "array", of |-> t, n |-> n]
Struct(ts, packed) == [k |-> "struct", elements |-> ts, packed |-> packed]
Named(name) == [k |-> "named", name |-> name]
Function(ret, args, vararg) ==
    [k |-> "function", ret |-> ret, args |-> args, vararg |-> vararg]

IsInt(t) == t.k = "int"
IsFloat(t) == t.k \in {"half", "float", "double"}
IsPointer(t) == t.k \in {"ptr", "tptr"}
IsVector(t) == t.k = "vector"

\* Type.as_pointer, PointerType.__new__: a pointer to an opaque pointer is opaque.
AsPointer(t, as) == IF t.k = "ptr" THEN Pointer(as) ELSE TypedPointer(t, as)

(***************************************************************************)
(* __eq__.  A typed pointer equals another with an equal pointee, and any  *)
(* opaque pointer of its address space, so equality is not transitive.     *)
(* Structs with a name are compared by name; labels by identity.           *)
(***************************************************************************)
\* Mutant: pointers are not told apart.
SamePointers(s, t) == s = t \/ (IsPointer(s) /\ IsPointer(t))

RECURSIVE Same(_, _)
Same(s, t) ==
    LET AllSame(a, b) == Len(a) = Len(b) /\ \A j \in DOMAIN a : Same(a[j], b[j])
    IN  IF IsPointer(s) /\ IsPointer(t)
        THEN s.as = t.as /\ (s.k = "tptr" /\ t.k = "tptr" => Same(s.to, t.to))
        ELSE /\ s.k = t.k
             /\ CASE s.k \in {"vector", "array"} -> s.n = t.n /\ Same(s.of, t.of)
                  [] s.k = "struct" -> s.packed = t.packed /\ AllSame(s.elements, t.elements)
                  [] s.k = "function" -> /\ s.vararg = t.vararg
                                         /\ Same(s.ret, t.ret) /\ AllSame(s.args, t.args)
                  [] s.k = "label" -> FALSE
                  [] OTHER -> s = t

(***************************************************************************)
(* _to_string, as LLVM reads it, with ir_layer_typed_pointers_enabled off  *)
(* (its default): the type without the pointees of its typed pointers.     *)
(***************************************************************************)
RECURSIVE Text(_)
Text(t) ==
    CASE t.k = "tptr" -> Pointer(t.as)
      [] t.k \in {"vector", "array"} -> [t EXCEPT !.of = Text(@)]
      [] t.k = "struct" -> [t EXCEPT !.elements = [j \in DOMAIN @ |-> Text(@[j])]]
      [] t.k = "function" -> [t EXCEPT !.ret = Text(@), !.args = [j \in DOMAIN @ |-> Text(@[j])]]
      [] OTHER -> t

\* as_ir and the from_llvm of each class: <<the type made from what LLVM read>>, or
\* <<>> for the kinds that are refused.  A pointer loses its address space.
RECURSIVE FromLLVM(_)
FromLLVM(t) ==
    LET Each(ts) == \A j \in DOMAIN ts : FromLLVM(ts[j]) # <<>>
        Made(ts) == [j \in DOMAIN ts |-> FromLLVM(ts[j])[1]]
    IN  CASE t.k \in {"label", "metadata"} -> <<>>
          [] t.k = "ptr" -> <<Pointer(0)>>
          [] t.k \in {"vector", "array"} /\ FromLLVM(t.of) # <<>> ->
               <<[t EXCEPT !.of = FromLLVM(@)[1]]>>
          [] t.k = "struct" /\ Each(t.elements) -> <<[t EXCEPT !.elements = Made(@)]>>
          [] t.k = "function" /\ Each(t.args \o <<t.ret>>) ->
               <<[t EXCEPT !.ret = FromLLVM(@)[1], !.args = Made(@)]>>
          [] t.k \in {"void", "int", "half", "float", "double", "named"} -> <<t>>
          [] OTHER -> <<>>

\* intrinsic_name: only integers, floats and pointers have one.
HasIntrinsicName(t) == IsInt(t) \/ IsFloat(t) \/ IsPointer(t)
IntrinsicName(t) == Text(t)

(***************************************************************************)
(* elements and gep.  Bodies gives the elements of the structs that have a *)
(* name and a body.  A Python index may be negative.                       *)
(***************************************************************************)
ElementsOf(t, Bodies) ==
    CASE t.k \in {"vector", "array"} -> [j \in 1 .. t.n |-> t.of]
      [] t.k = "struct" -> t.elements
      [] t.k = "named" /\ t.name \in DOMAIN Bodies -> Bodies[t.name]
      [] OTHER -> <<>>

\* <<the element>>, or <<>> where the code raises
Element(t, j, Bodies) ==
    LET es == ElementsOf(t, Bodies)
    IN  CASE j \in 0 .. Len(es) - 1 -> <<es[j + 1]>>
          [] t.k \in {"struct", "named"} /\ -j \in 1 .. Len(es) -> <<es[Len(es) + j + 1]>>
          [] OTHER -> <<>>

\* t.gep(i) of an index i: <<the type>>, or <<>> where the code raises.  A struct
\* needs the number in the constant.
Gep(t, i, Bodies) ==
    CASE ~IsInt(i.type) -> <<>>
      [] t.k = "tptr" -> <<t.to>>
      [] t.k = "array" -> <<t.of>>
      [] t.k \in {"struct", "named"} /\ i.kind = "const" -> Element(t, i.number, Bodies)
      [] OTHER -> <<>>

\* Whether every pointer in a type is in the default address space.
RECURSIVE InDefaultSpace(_)
InDefaultSpace(t) ==
    CASE IsPointer(t) -> t.as = 0
      [] t.k \in {"vector", "array"} -> InDefaultSpace(t.of)
      [] t.k = "struct" -> \A j \in DOMAIN t.elements : InDefaultSpace(t.elements[j])
      [] t.k = "function" -> \A j \in DOMAIN t.args : InDefaultSpace(t.args[j])
      [] OTHER -> TRUE
==============================================================================
