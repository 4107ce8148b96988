--------------------------- MODULE IRInstructions ----------------------------
(***************************************************************************)
(* What IRBuilder's methods and the operations on constants check of their *)
(* operands, the type they give to the result, and the types they print.   *)
(* Each operator returns the set of instructions it makes: {} when the     *)
(* code raises, else one record                                            *)
(*   op        the opcode                                                  *)
(*   type      the type of the result, as llvmlite knows it                *)
(*   operands  the values it uses                                          *)
(*   shown     for each operand the type its text gives                    *)
(*   extra     what else the text says: indices, element type, target type *)
(*   expr      TRUE for a constant expression, which has no place in a block *)
(* A value is a record with a kind and a type.                             *)
(***************************************************************************)
EXTENDS IRTypes

Local(t) == [kind |-> "instr", type |-> t]
Literal(t) == [kind |-> "literal", type |-> t]
Const(t, n) == [kind |-> "const", type |-> t, number |-> n]
VectorConst(t, ns) == [kind |-> "mask", type |-> t, numbers |-> ns]
Alloca(t) == [kind |-> "alloca", type |-> AsPointer(t, 0), allocated |-> t]
GlobalVar(t, as) == [kind |-> "global", type |-> AsPointer(t, as)]
Func(ft) == [kind |-> "function", type |-> AsPointer(ft, 0), ft |-> ft]
Block == [kind |-> "block", type |-> Label]
Undefined == [kind |-> "undefined", type |-> [k |-> "none"]]

\* FormattedConstant: the text of an expression.  wrap_constant_value of a vector type
\* makes a tuple of the text, as it does of the value of every element.
Formatted(t) == [kind |-> IF IsVector(t) THEN "tuple" ELSE "formatted", type |-> t]

\* Constant and everything with _ConstOpMixin
IsConst(v) == v.kind \in {"const", "mask", "literal", "formatted", "tuple", "global", "function"}

Types(vs) == [j \in DOMAIN vs |-> vs[j].type]
Always(t, vs) == [j \in DOMAIN vs |-> t]
Instr(op, t, vs, shown, extra) ==
    [op |-> op, type |-> t, operands |-> vs, shown |-> shown, extra |-> extra, expr |-> FALSE]
Expression(instrs) == {[i EXCEPT !.expr = TRUE] : i \in instrs}
If(accepted, instr) == IF accepted THEN {instr} ELSE {}

IntBinops == {"shl", "lshr", "ashr", "add", "sub", "mul", "udiv", "sdiv",
              "urem", "srem", "or", "and", "xor"}
FloatBinops == {"fadd", "fsub", "fmul", "fdiv", "frem"}
ICmps == {"icmp"}
FCmps == {"fcmp"}
IntCasts == {"trunc", "zext", "sext"}
FloatCasts == {"fptrunc", "fpext"}
ToFloat == {"uitofp", "sitofp"}
ToInt == {"fptoui", "fptosi"}
Casts == IntCasts \cup FloatCasts \cup ToFloat \cup ToInt
           \cup {"bitcast", "addrspacecast", "ptrtoint", "inttoptr"}

-----------------------------------------------------------------------------
(* Arithmetic, comparison, selection *)

Binop(op, a, b) ==
    If(Same(a.type, b.type), Instr(op, a.type, <<a, b>>, Always(a.type, <<a, b>>), <<>>))

\* _unop of fneg; not_ is xor with -1, neg is 0 - v
FNeg(v) == {Instr("fneg", v.type, <<v>>, Types(<<v>>), <<>>)}
Not(v) == Binop("xor", v, Const(v.type, -1))
Neg(v) == Binop("sub", Const(v.type, 0), v)

\* CompareInstr does not compare its operands' types, and prints the first.
TruthOf(t) == IF IsVector(t) THEN Vector(IntTy(1), t.n) ELSE IntTy(1)
Compare(op, a, b) ==
    {Instr(op, TruthOf(a.type), <<a, b>>, Always(a.type, <<a, b>>), <<>>)}

Select(c, a, b) ==
    If(Same(a.type, b.type), Instr("select", a.type, <<c, a, b>>, Types(<<c, a, b>>), <<>>))

\* builder._castop: no instruction when the type is there already.
Cast(op, v, t) ==
    If(~Same(v.type, t), Instr(op, t, <<v>>, Types(<<v>>), <<t>>))

(***************************************************************************)
(* _ConstOpMixin: the same on constants, as expressions, with both types   *)
(* in the text, a truth value for every comparison and checks on two of    *)
(* the casts.                                                              *)
(***************************************************************************)
ConstBinop(op, a, b) ==
    IF IsConst(a) /\ IsConst(b) /\ Same(a.type, b.type)
    THEN Expression({Instr(op, a.type, <<a, b>>, Types(<<a, b>>), <<>>)}) ELSE {}
ConstCompare(op, a, b) ==
    IF IsConst(a) /\ IsConst(b) /\ Same(a.type, b.type)
    THEN Expression({Instr(op, IntTy(1), <<a, b>>, Types(<<a, b>>), <<>>)}) ELSE {}
ConstFNeg(v) == IF IsConst(v) THEN Expression(FNeg(v)) ELSE {}
ConstNot(v) == ConstBinop("xor", v, Const(v.type, -1))
ConstNeg(v) == ConstBinop("sub", Const(v.type, 0), v)
ConstCast(op, v, t) ==
    IF /\ IsConst(v)
       /\ op # "addrspacecast"
       /\ op = "ptrtoint" => IsPointer(v.type) /\ IsInt(t)
       /\ op = "inttoptr" => IsInt(v.type) /\ IsPointer(t)
    THEN Expression(Cast(op, v, t)) ELSE {}

-----------------------------------------------------------------------------
(* Memory *)

\* alloca: the number of elements, if any, is of an integer type
AllocaInstr(t, size) ==
    If(\A j \in DOMAIN size : IsInt(size[j].type),
       Instr("alloca", AsPointer(t, 0), size, Types(size), <<t>>))

\* The type that is loaded: the one asked for, the one allocated, the pointee.
LoadedType(p, asked) ==
    CASE asked # <<>> -> asked
      [] p.kind = "alloca" -> <<p.allocated>>
      [] p.type.k = "tptr" -> <<p.type.to>>
      [] OTHER -> <<>>

Load(op, p, asked) ==
    IF ~IsPointer(p.type) \/ LoadedType(p, asked) = <<>> THEN {}
    ELSE LET t == LoadedType(p, asked)[1] IN {Instr(op, t, <<p>>, Types(<<p>>), <<t>>)}

\* Mutant: the value is compared with the pointer.
StoreOfPointer(v, p) ==
    If(IsPointer(p.type) /\ (p.type.k = "tptr" => Same(p.type, v.type)),
       Instr("store", Void, <<v, p>>, Types(<<v, p>>), <<>>))

Store(v, p) ==
    If(IsPointer(p.type) /\ (p.type.k = "tptr" => Same(p.type.to, v.type)),
       Instr("store", Void, <<v, p>>, Types(<<v, p>>), <<>>))

\* store_atomic asks for the pointee of any pointer: opaque ones have none.
StoreAtomic(v, p) ==
    If(p.type.k = "tptr" /\ Same(p.type.to, v.type),
       Instr("store atomic", Void, <<v, p>>, Types(<<v, p>>), <<>>))

AtomicRMW(p, v) == {Instr("atomicrmw", v.type, <<p, v>>, Types(<<p, v>>), <<>>)}

\* The text gives the type of the first value to both.
CmpXchg(p, c, v) ==
    {Instr("cmpxchg", Struct(<<v.type, IntTy(1)>>, FALSE), <<p, c, v>>,
           <<p.type, c.type, c.type>>, <<>>)}

\* Stepping through a typed pointer: the types before and after each index.
RECURSIVE Walk(_, _, _)
Walk(path, is, Bodies) ==
    IF is = <<>> THEN path
    ELSE LET next == Gep(path[Len(path)], Head(is), Bodies)
         IN  IF next = <<>> THEN <<>> ELSE Walk(path \o next, Tail(is), Bodies)

\* The address space of the last pointer stepped through
LastSpace(path) ==
    LET ps == {j \in 1 .. Len(path) - 1 : IsPointer(path[j])}
    IN  IF ps = {} THEN 0
        ELSE path[CHOOSE j \in ps : \A i \in ps : i <= j].as

\* Mutants: the result is in the default address space; it has the type of p.
GEPDefaultSpace(p, is, etype, Bodies) ==
    LET path == IF p.type.k = "tptr" THEN Walk(<<p.type>>, is, Bodies) ELSE <<>>
    IN  If(path # <<>>,
           Instr("gep", AsPointer(path[Len(path)], 0), <<p>> \o is, Types(<<p>> \o is),
                 <<p.type.to>>))

GEPKeepsType(p, is, etype, Bodies) ==
    LET path == IF p.type.k = "tptr" THEN Walk(<<p.type>>, is, Bodies) ELSE <<>>
    IN  If(path # <<>>,
           Instr("gep", p.type, <<p>> \o is, Types(<<p>> \o is), <<p.type.to>>))

GEP(p, is, etype, Bodies) ==
    LET path == IF p.type.k = "tptr" THEN Walk(<<p.type>>, is, Bodies) ELSE <<>>
        t == path[Len(path)]
        before == path[Len(path) - 1]
    IN  CASE etype # <<>> ->
               {Instr("gep", p.type, <<p>> \o is, Types(<<p>> \o is), etype)}
          [] etype = <<>> /\ path = <<>> -> {}
          [] OTHER ->
               {Instr("gep",
                      IF is # <<>> /\ ~IsPointer(t) /\ IsPointer(before) THEN before
                      ELSE AsPointer(t, LastSpace(path)),
                      <<p>> \o is, Types(<<p>> \o is), <<p.type.to>>)}

\* _ConstOpMixin.gep
ConstGEP(p, is, Bodies) ==
    LET path == IF IsConst(p) /\ p.type.k = "tptr" THEN Walk(<<p.type>>, is, Bodies) ELSE <<>>
    IN  IF path = <<>> THEN {}
        ELSE Expression({Instr("gep", AsPointer(path[Len(path)], p.type.as), <<p>> \o is,
                               Types(<<p>> \o is), <<p.type.to>>)})

-----------------------------------------------------------------------------
(* Vectors and aggregates *)

ExtractElement(v, i) ==
    If(IsVector(v.type) /\ IsInt(i.type),
       Instr("extractelement", v.type.of, <<v, i>>, Types(<<v, i>>), <<>>))

InsertElement(v, e, i) ==
    If(IsVector(v.type) /\ Same(e.type, v.type.of) /\ IsInt(i.type),
       Instr("insertelement", v.type, <<v, e, i>>, Types(<<v, e, i>>), <<>>))

ShuffleVector(v, w, mask) ==
    If(/\ IsVector(v.type)
       /\ w # Undefined => Same(w.type, v.type)
       /\ mask.kind = "mask" /\ Same(mask.type.of, IntTy(32))
       /\ \A j \in DOMAIN mask.numbers :
            mask.numbers[j] \in 0 .. (IF w = Undefined THEN 1 ELSE 2) * v.type.n - 1,
       Instr("shufflevector", Vector(v.type.of, mask.type.n), <<v, w, mask>>,
             Types(<<v, w, mask>>), <<>>))

\* <<the type at the indices>>, or <<>>
RECURSIVE Member(_, _, _)
Member(t, is, Bodies) ==
    IF is = <<>> THEN <<t>>
    ELSE LET e == Element(t, Head(is), Bodies)
         IN  IF e = <<>> THEN <<>> ELSE Member(e[1], Tail(is), Bodies)

ExtractValue(v, is, Bodies) ==
    LET m == Member(v.type, is, Bodies)
    IN  If(m # <<>>, Instr("extractvalue", m[1], <<v>>, Types(<<v>>), is))

InsertValue(v, e, is, Bodies) ==
    LET m == Member(v.type, is, Bodies)
    IN  If(m # <<>> /\ Same(e.type, m[1]),
           Instr("insertvalue", v.type, <<v, e>>, Types(<<v, e>>), is))

\* Constant of an aggregate or vector type (wrap_constant_value), literal_array,
\* literal_struct: the elements are printed with their own types.
Aggregate(t, es, Bodies) ==
    If(Len(es) = Len(ElementsOf(t, Bodies)), Instr("constant", t, es, Types(es), <<>>))
Splat(t, e) == If(IsVector(t) /\ Same(e.type, t.of),
                  Instr("constant", t, Always(e, [j \in 1 .. t.n |-> e]),
                        Always(e.type, [j \in 1 .. t.n |-> e]), <<>>))
LiteralArray(es) ==
    If(es # <<>> /\ \A j \in DOMAIN es : Same(es[1].type, es[j].type),
       Instr("constant", Array(es[1].type, Len(es)), es, Types(es), <<>>))
LiteralStruct(es, packed) ==
    {Instr("constant", Struct(Types(es), packed), es, Types(es), <<>>)}

-----------------------------------------------------------------------------
(* Calls, intrinsics *)

\* CallInstr.__init__: an argument for a metadata parameter is wrapped; one that
\* is of another type is refused; those after the parameters are not looked at.
Coerce(v, t) ==
    IF t.k = "metadata" /\ v.type.k # "metadata"
    THEN [kind |-> "metadata", type |-> MetaData] ELSE v

Call(op, f, args) ==
    IF Len(args) < Len(f.ft.args) THEN {}
    ELSE LET coerced == [j \in DOMAIN args |->
                           IF j \in DOMAIN f.ft.args THEN Coerce(args[j], f.ft.args[j])
                           ELSE args[j]]
         IN  If(\A j \in DOMAIN f.ft.args : Same(coerced[j].type, f.ft.args[j]),
                Instr(op, f.ft.ret, coerced, Types(coerced), <<f.ft>>))

\* asm, load_reg, store_reg: a call of an InlineAsm
Asm(ft, args) == Call("call", [kind |-> "asm", type |-> ft.ret, ft |-> ft], args)
LoadReg(t) == Asm(Function(t, <<>>, FALSE), <<>>)
StoreReg(v, t) == Asm(Function(Void, <<t>>, FALSE), <<v>>)

\* declare_intrinsic: the name; its type when none is given, or <<>> when it raises.
\* Mutant: the types are not in the name.
MangledShort(intr, tys) == <<intr>>

Mangled(intr, tys) ==
    <<intr>> \o (IF intr \in {"cttz", "ctlz", "fma"} THEN <<IntrinsicName(tys[1])>>
                 ELSE [j \in DOMAIN tys |-> IntrinsicName(tys[j])])

Computed(intr, tys) ==
    LET F(ret, args) == <<Function(ret, args, FALSE)>>
    IN  CASE intr = "assume" /\ tys = <<>> -> F(Void, <<IntTy(1)>>)
          [] intr = "powi" /\ Len(tys) = 1 -> F(tys[1], <<tys[1], IntTy(32)>>)
          [] intr = "pow" /\ Len(tys) = 1 -> F(tys[1], tys \o tys)
          [] intr = "convert.from.fp16" /\ Len(tys) = 1 -> F(tys[1], <<IntTy(16)>>)
          [] intr = "convert.to.fp16" /\ Len(tys) = 1 -> F(IntTy(16), tys)
          [] intr \notin {"powi", "pow", "convert.from.fp16", "convert.to.fp16"}
               /\ Len(tys) = 1 -> F(tys[1], tys)
          [] intr = "memset" /\ Len(tys) = 2 -> F(Void, <<tys[1], IntTy(8), tys[2], IntTy(1)>>)
          [] intr \in {"cttz", "ctlz"} /\ Len(tys) = 2 -> F(tys[1], <<tys[1], IntTy(1)>>)
          [] intr \in {"memcpy", "memmove"} /\ Len(tys) = 3 -> F(Void, tys \o <<IntTy(1)>>)
          [] intr = "fma" /\ Len(tys) = 3 -> F(tys[1], <<tys[1], tys[1], tys[1]>>)
          [] OTHER -> <<>>

\* <<name, type>> of the function that is returned: the one that has the name, if
\* any, whatever its type.  {} when the code raises.
Declare(intr, tys, given, declared) ==
    LET name == Mangled(intr, tys)
        ft == IF given # <<>> THEN given ELSE Computed(intr, tys)
    IN  CASE \E j \in DOMAIN tys : ~HasIntrinsicName(tys[j]) -> {}
          [] name \in DOMAIN declared -> {<<name, declared[name]>>}
          [] ft = <<>> -> {}
          [] OTHER -> {<<name, ft[1]>>}

\* What the wrappers check before they declare: <<intrinsic, types, given>>, {} when
\* they raise.  ctpop stands for bswap and bitreverse, ctlz for cttz, and the signed
\* addition for the other operations with overflow.

WrapInt(v) == If(IsInt(v.type), <<"ctpop", <<v.type>>, <<>>>>)
WrapToFP16(v) == If(v.type.k \in {"float", "double"},
                    <<"convert.to.fp16", <<v.type>>, <<>>>>)
WrapFromFP16(v, to) == If(to.k \in {"float", "double"} /\ v.type = IntTy(16),
                          <<"convert.from.fp16", <<to>>, <<>>>>)
WrapFlag(v, flag) ==
    If(IsInt(v.type) /\ flag.type = IntTy(1), <<"ctlz", <<v.type, flag.type>>, <<>>>>)
WrapFMA(a, b, c) ==
    If(/\ Same(a.type, b.type) /\ Same(b.type, c.type) /\ IsFloat(a.type),
       <<"fma", Types(<<a, b, c>>), <<>>>>)
WrapOverflow(a, b) ==
    If(Same(a.type, b.type) /\ IsInt(a.type),
       <<"sadd.with.overflow", <<a.type>>,
         <<Function(Struct(<<a.type, IntTy(1)>>, FALSE), <<a.type, a.type>>, FALSE)>>>>)
WrapAssume == {<<"assume", <<>>, <<>>>>}

-----------------------------------------------------------------------------
(* Control flow, phi, exceptions *)

Ret(vs) == {Instr("ret", Void, vs, Types(vs), <<>>)}
Branch == {Instr("br", Void, <<Block>>, <<Label>>, <<>>)}
CBranch(c) == {Instr("condbr", Void, <<c, Block, Block>>, Types(<<c, Block, Block>>), <<>>)}
IndirectBranch(p) == {Instr("indirectbr", Void, <<p, Block>>, Types(<<p, Block>>), <<>>)}
\* add_case: a number becomes a constant of the type of the value
Switch(v, case) ==
    {Instr("switch", Void, <<v, Block, case>>, Types(<<v, Block, case>>), <<>>)}
SwitchNumber(v, n) == Switch(v, Const(v.type, n))
Unreachable == {Instr("unreachable", Void, <<>>, <<>>, <<>>)}
Resume(v) == {Instr("resume", Void, <<v>>, Types(<<v>>), <<>>)}

\* phi and add_incoming: the text has the type once.
Phi(t, vs) == {Instr("phi", t, vs, Always(t, vs), <<>>)}

\* FilterClause asserts that its value is a constant array.
LandingPad(t, kind, v) ==
    If(kind = "filter" => IsConst(v) /\ v.type.k = "array",
       Instr("landingpad", t, <<v>>, Types(<<v>>), <<kind>>))

Fence == {Instr("fence", Void, <<>>, <<>>, <<>>)}
==============================================================================
