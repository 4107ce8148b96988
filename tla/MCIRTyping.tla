----------------------------- MODULE MCIRTyping ------------------------------
(* A pool with one value of each kind of type, and constants to index with. *)
EXTENDS IRTyping

I1 == IntTy(1)
I16 == IntTy(16)
I32 == IntTy(32)
I64 == IntTy(64)
Pair == Struct(<<I64, TypedPointer(I32, 0)>>, FALSE)
Arr == Array(I32, 2)
Node == Named("node")
V2 == Vector(I32, 2)
V3 == Vector(I32, 3)

MCPool ==
    {Local(t) : t \in {I1, I16, I32, Half, Float, V2, Vector(Float, 2), Arr, Pair,
                       TypedPointer(Pair, 1), TypedPointer(Arr, 0), TypedPointer(Node, 0),
                       Pointer(0), Pointer(1)}}
      \cup {Const(I32, 0), Const(I32, 1), Const(I64, 2), Const(Double, 1), VectorConst(V3, <<0, 1, 3>>),
            GlobalVar(Pair, 1), Func(Function(I32, <<TypedPointer(Arr, 0)>>, FALSE)),
            Func(Function(Void, <<MetaData, I32>>, FALSE)), Func(Function(I64, <<I1>>, TRUE))}

MCAllocTypes == {I1, I64, Half, Double, Float, Pair, Arr, Node, Pointer(0), TypedPointer(I32, 0), V2}

MCKept ==
    LET stored == MCAllocTypes \ {Pointer(0)}
    IN  {v.type : v \in MCPool} \cup MCAllocTypes \cup {TypedPointer(t, 0) : t \in stored}
          \cup {TypedPointer(t, 1) : t \in {I32, I64, TypedPointer(I32, 0)}}

N(i) == Const(I32, i)
MCIndices == {<<N(0)>>, <<N(1)>>, <<N(0), N(1)>>, <<N(1), N(0)>>, <<N(0), N(-1)>>, <<N(0), N(2)>>}
==============================================================================
