------------------------------ MODULE IRTyping -------------------------------
(***************************************************************************)
(* A caller of IRBuilder makes one instruction after another, each from    *)
(* the result of the one before and a pool of other values, and LLVM reads *)
(* the text.  llvmlite types its values with typed pointers; LLVM types    *)
(* the text, which has none.                                               *)
(***************************************************************************)
EXTENDS IRInstructions, FiniteSets

CONSTANTS
    Styles,      \* "typed": typed pointers alone; "opaque": pointers without a
                 \* type, element types given with each gep and load; "mixed";
                 \* "calls": nothing but calls of intrinsics, some of them
                 \* declared by hand with the types LLVM gives them; "omits": as
                 \* "calls", leaving types out where declare_intrinsic lets it
    Pool,        \* the arguments, constants and globals callers start from
    AllocTypes,  \* the types they allocate, load and convert to
    Indices,     \* the sequences of indices they use
    Kept,        \* bound: the types of the results they go on with
    MaxDeclared  \* bound: intrinsics declared in a module

ASSUME IRTypingAssumption ==
    /\ Styles \subseteq {"typed", "opaque", "mixed", "calls", "omits"}
    /\ MaxDeclared \in Nat

VARIABLES
    cur,       \* the value made last
    real,      \* <<the type of what cur points at>>, as the caller laid it out; <<>>
               \* when cur is no pointer or the caller reinterpreted it
    last,      \* the instruction that was made of it, or NoInstr
    reaches,   \* what the result of last points at, as real
    declared,  \* module.globals, of the intrinsics: mangled name -> function type
    bodies,    \* the bodies of the structs with a name
    style      \* how this caller uses pointers; it does not change

vars == <<cur, real, last, reaches, declared, bodies, style>>

NoInstr == Instr("none", Void, <<>>, <<>>, <<>>)
Body == [node |-> <<IntTy(64), IntTy(32)>>]

Scalar(t) == IF t.k = "vector" THEN t.of ELSE t

\* What the caller has.
ValuesOf == [st \in Styles |->
               {v \in Pool : /\ st = "typed" => v.type.k # "ptr"
                            /\ st = "opaque" => ~(v.type.k = "tptr" /\ v.kind = "instr")}]
ValuesOfKind == [st \in Styles |-> [k \in {v.kind : v \in Pool} |-> {v \in ValuesOf[st] : v.kind = k}]]
Values == ValuesOf[style]
CallsIntrinsics == style \in {"calls", "omits"}
Asked == (IF style = "opaque" THEN {} ELSE {<<>>})
           \cup (IF style = "typed" THEN {} ELSE {<<t>> : t \in AllocTypes})

\* The arguments of the next instruction: one of them is the value made last.
Orders(v) == {<<cur, v>>, <<v, cur>>}
Numbers == {[j \in DOMAIN is |-> is[j].number] : is \in Indices}

\* The instruction i is made; its result points at what the caller laid out there.
Emit(i, points) ==
    /\ last' = i
    /\ reaches' = points
    /\ UNCHANGED <<cur, real, bodies, style>>

Make(instrs) == \E i \in instrs : Emit(i, <<>>) /\ UNCHANGED declared

Init ==
    /\ style \in Styles
    /\ cur \in Values
    /\ real = IF cur.type.k = "tptr" THEN <<cur.type.to>> ELSE <<>>
    /\ last = NoInstr
    /\ reaches = <<>>
    /\ declared = << >>
    /\ bodies = << >>

\* The caller goes on with the result, or without it.
GoOn ==
    /\ last # NoInstr
    /\ last' = NoInstr
    /\ reaches' = <<>>
    /\ IF last.type \in Kept
       THEN /\ cur' = CASE last.op = "alloca" -> Alloca(last.extra[1])
                        [] last.expr -> Formatted(last.type)
                        [] last.op = "constant" -> Literal(last.type)
                        [] OTHER -> Local(last.type)
            /\ real' = reaches
       ELSE UNCHANGED <<cur, real>>
    /\ UNCHANGED <<declared, bodies, style>>

Arithmetic ==
    \/ \E v \in Values, op \in {"add", "shl", "fadd"} : \E p \in Orders(v) :
         Make(Binop(op, p[1], p[2]) \cup ConstBinop(op, p[1], p[2]))
    \/ Make(FNeg(cur) \cup ConstFNeg(cur))
    \/ /\ IsInt(Scalar(cur.type))
       /\ Make(Not(cur) \cup Neg(cur) \cup ConstNot(cur) \cup ConstNeg(cur))

Comparison ==
    \/ \E v \in Values, op \in ICmps \cup FCmps : \E p \in Orders(v) :
         Make(Compare(op, p[1], p[2]) \cup ConstCompare(op, p[1], p[2]))
    \/ \E v \in Values : Make(Select(cur, v, v) \cup Select(Local(IntTy(1)), v, cur)
                                 \cup Select(Local(IntTy(1)), cur, v))

Conversion ==
    /\ last = NoInstr /\ ~CallsIntrinsics
    /\ \E op \in Casts, t \in AllocTypes : Make(Cast(op, cur, t) \cup ConstCast(op, cur, t))

Allocate ==
    /\ \E t \in AllocTypes, size \in {<<>>, <<cur>>} :
         \E i \in AllocaInstr(t, size) : Emit(i, <<t>>)
    /\ UNCHANGED declared

\* get_element_ptr: the caller knows what it steps to
StepTo(is, etype) ==
    IF etype = <<>> THEN <<>>
    ELSE Member(etype[1], [j \in 1 .. Len(is) - 1 |-> is[j + 1].number], bodies)

Address ==
    /\ \E is \in Indices, e \in Asked :
         \E i \in GEP(cur, is, e, bodies)
                    \cup (IF e = <<>> THEN ConstGEP(cur, is, bodies) ELSE {}) :
           Emit(i, StepTo(is, real))
    /\ UNCHANGED declared

Memory ==
    \/ \E t \in Asked, op \in {"load", "load atomic"} : Make(Load(op, cur, t))
    \/ \E v \in Values : \E p \in Orders(v) :
         Make(Store(p[1], p[2]) \cup StoreAtomic(p[1], p[2]) \cup AtomicRMW(p[1], p[2]))
    \/ \E v \in Values : Make(CmpXchg(cur, v, v)
                                 \cup UNION {CmpXchg(p, cur, v) : p \in ValuesOfKind[style]["global"]})

Vectors ==
    \/ \E v \in Values : \E p \in Orders(v) :
         Make(ExtractElement(p[1], p[2])
                \cup UNION {InsertElement(p[1], p[2], n) : n \in ValuesOfKind[style]["const"]}
                \cup UNION {ShuffleVector(p[1], p[2], m) : m \in ValuesOfKind[style]["mask"]})
    \/ \E m \in ValuesOfKind[style]["mask"] : Make(ShuffleVector(cur, Undefined, m))

Aggregates ==
    \/ \E is \in Numbers : Make(ExtractValue(cur, is, bodies))
    \/ \E is \in Numbers, v \in Values : \E p \in Orders(v) :
         Make(InsertValue(p[1], p[2], is, bodies))
    \/ /\ IsConst(cur)
       /\ \E v \in ValuesOfKind[style]["const"], packed \in BOOLEAN :
            Make(LiteralArray(<<cur, v>>) \cup LiteralStruct(<<v, cur>>, packed)
                   \cup UNION {Aggregate(t, <<v, cur>>, bodies) \cup Splat(t, cur) : t \in AllocTypes})

CallFunction ==
    \/ \E f \in ValuesOfKind[style]["function"], v \in Values, op \in {"call", "invoke"} :
         \E p \in Orders(v) : Make(Call(op, f, p) \cup Call(op, f, <<p[1]>>))
    \/ Make(LoadReg(cur.type) \cup StoreReg(cur, cur.type))

\* A wrapper declares what it needs and calls it.
Requests ==
    WrapInt(cur) \cup WrapFlag(cur, cur) \cup WrapFlag(cur, Local(IntTy(1))) \cup WrapAssume
      \cup WrapOverflow(cur, cur) \cup WrapFMA(cur, cur, cur) \cup WrapToFP16(cur)
      \cup UNION {WrapFromFP16(cur, t) : t \in AllocTypes}

\* The arguments a wrapper passes, of the types it has checked.
ArgsOf(request) ==
    CASE request[1] = "sadd.with.overflow" -> <<cur, cur>>
      [] request[1] = "convert.from.fp16" -> <<cur>>
      [] request[1] = "assume" -> <<Local(IntTy(1))>>
      [] OTHER -> [j \in DOMAIN request[2] |-> Local(request[2][j])]

\* A caller of intrinsics turns to another value.
Turn ==
    /\ last = NoInstr /\ CallsIntrinsics
    /\ cur' \in Values
    /\ real' = <<>>
    /\ UNCHANGED <<last, reaches, declared, bodies, style>>

\* declare_intrinsic: the function enters the module's globals.
Declared(d) ==
    /\ Cardinality(DOMAIN declared \cup {d[1]}) <= MaxDeclared
    /\ declared' = [n \in DOMAIN declared \cup {d[1]} |->
                      IF n = d[1] THEN d[2] ELSE declared[n]]

Intrinsic ==
    /\ last = NoInstr /\ CallsIntrinsics
    /\ \E r \in Requests :
         \E d \in Declare(r[1], r[2], r[3], declared) :
           /\ Declared(d)
           /\ \E i \in Call("call", Func(d[2]), ArgsOf(r)) : Emit(i, <<>>)

\* What callers declare by hand: intrinsics without a wrapper, and those of wrappers.
ByHand ==
    LET t == cur.type
        AnyOf(p, n) == {<<"memcpy", <<p.type, p.type, n>>, <<>>>>, <<"memset", <<p.type, n>>, <<>>>>}
        Pointers == {p \in Values : IsPointer(p.type)}
        OfFloat == {<<intr, <<t>>, <<>>>> : intr \in {"powi", "pow", "convert.from.fp16"}}
    IN  UNION {AnyOf(p, n) : p \in Pointers, n \in {IntTy(32), IntTy(64)}}
          \cup (IF IsFloat(t) THEN OfFloat ELSE {})
          \cup WrapAssume \cup WrapInt(cur) \cup WrapFlag(cur, Local(IntTy(1)))
          \cup WrapFMA(cur, cur, cur) \cup WrapToFP16(cur) \cup WrapOverflow(cur, cur)

\* The same with types left out: declare_intrinsic makes up a function type.
Omitted ==
    {<<r[1], <<Head(r[2])>>, <<>>>> : r \in {q \in ByHand : q[2] # <<>> /\ HasIntrinsicName(q[2][1])}}

DeclareByHand ==
    /\ last = NoInstr /\ CallsIntrinsics
    /\ \E r \in ByHand \cup (IF style = "omits" THEN Omitted ELSE {}) :
         \E d \in Declare(r[1], r[2], r[3], declared) : Declared(d)
    /\ UNCHANGED <<cur, real, last, reaches, bodies, style>>

Control ==
    \/ Make(Ret(<<>>) \cup Ret(<<cur>>) \cup Resume(cur) \cup Unreachable \cup Fence \cup Branch)
    \/ Make(CBranch(cur) \cup IndirectBranch(cur))
    \/ \E v \in Values : Make(Switch(cur, v) \cup SwitchNumber(cur, 1) \cup Phi(cur.type, <<cur, v>>))
    \/ \E t \in AllocTypes, kind \in {"catch", "filter"} : Make(LandingPad(t, kind, cur))

\* IdentifiedStructType.set_body, refused the second time
SetBody ==
    /\ bodies = << >>
    /\ bodies' = Body
    /\ UNCHANGED <<cur, real, last, reaches, declared, style>>

Build ==
    /\ last = NoInstr /\ ~CallsIntrinsics
    /\ \/ Arithmetic \/ Comparison \/ Allocate \/ Address \/ Memory \/ Vectors
       \/ Aggregates \/ CallFunction \/ Control \/ SetBody

Next == Conversion \/ Build \/ Intrinsic \/ Turn \/ DeclareByHand \/ GoOn

Spec == Init /\ [][Next]_vars

-----------------------------------------------------------------------------
(* What LLVM makes of the text *)

Count(t) == IF t.k = "vector" THEN t.n ELSE 1
FirstClass(t) == t.k \notin {"void", "function", "label", "metadata"}
Width(t) == CASE t.k = "int" -> t.w [] t.k = "half" -> 16 [] t.k = "float" -> 32
              [] t.k = "double" -> 64 [] OTHER -> 0
MemberText(t, is) == Member(t, is, [n \in DOMAIN Body |-> [j \in DOMAIN Body[n] |-> Text(Body[n][j])]])

CastTakes(op, s, t) ==
    LET a == Scalar(s)  b == Scalar(t)
        wider == Width(b) > Width(a)
    IN  /\ Count(s) = Count(t) /\ (s.k = "vector" <=> t.k = "vector")
        /\ CASE op = "trunc" -> IsInt(a) /\ IsInt(b) /\ Width(b) < Width(a)
             [] op \in {"zext", "sext"} -> IsInt(a) /\ IsInt(b) /\ wider
             [] op = "fptrunc" -> IsFloat(a) /\ IsFloat(b) /\ Width(b) < Width(a)
             [] op = "fpext" -> IsFloat(a) /\ IsFloat(b) /\ wider
             [] op \in ToInt -> IsFloat(a) /\ IsInt(b)
             [] op \in ToFloat -> IsInt(a) /\ IsFloat(b)
             [] op = "ptrtoint" -> IsPointer(a) /\ IsInt(b)
             [] op = "inttoptr" -> IsInt(a) /\ IsPointer(b)
             [] op = "addrspacecast" -> IsPointer(a) /\ IsPointer(b) /\ a.as # b.as
             [] op = "bitcast" -> \/ a = b
                                  \/ Width(a) = Width(b) /\ Width(a) > 0
             [] OTHER -> FALSE

\* Of the expressions that _ConstOpMixin prints, those that LLVM 22 reads, the version
\* that ffi/CMakeLists.txt asks for
ConstantExpressions ==
    {"add", "sub", "xor", "trunc", "ptrtoint", "inttoptr", "bitcast", "gep"}

Parsed(i) == i.expr => i.op \in ConstantExpressions

\* Whether str() of i succeeds.
HasText(i) == \A j \in DOMAIN i.operands : i.operands[j].kind \notin {"tuple", "undefined"}

\* The types LLVM may give to the result of the text of i: {} when it refuses it.
LLVMType(i) ==
    LET s == [j \in DOMAIN i.shown |-> Text(i.shown[j])]
        x == IF i.op \in {"extractvalue", "insertvalue", "landingpad"} THEN i.extra
             ELSE [j \in DOMAIN i.extra |-> Text(i.extra[j])]
    IN  CASE ~Parsed(i) \/ ~HasText(i) -> {}
          [] i.op \in IntBinops -> If(s[1] = s[2] /\ IsInt(Scalar(s[1])), s[1])
          [] i.op \in FloatBinops -> If(s[1] = s[2] /\ IsFloat(Scalar(s[1])), s[1])
          [] i.op = "fneg" -> If(IsFloat(Scalar(s[1])), s[1])
          [] i.op \in ICmps -> If(s[1] = s[2] /\ (IsInt(Scalar(s[1])) \/ IsPointer(Scalar(s[1]))),
                                  TruthOf(s[1]))
          [] i.op \in FCmps -> If(s[1] = s[2] /\ IsFloat(Scalar(s[1])), TruthOf(s[1]))
          [] i.op = "select" -> If(s[2] = s[3] /\ s[1] = IntTy(1), s[2])
          [] i.op \in Casts -> If(CastTakes(i.op, s[1], x[1]), x[1])
          [] i.op = "alloca" -> If(\A j \in DOMAIN s : IsInt(s[j]), Pointer(0))
          [] i.op \in {"load", "load atomic"} -> If(IsPointer(s[1]), x[1])
          [] i.op \in {"store", "store atomic"} -> If(IsPointer(s[2]) /\ FirstClass(s[1]), Void)
          [] i.op = "atomicrmw" -> If(IsPointer(s[1]) /\ (IsInt(s[2]) \/ IsFloat(s[2])), s[2])
          [] i.op = "cmpxchg" -> If(IsPointer(s[1]) /\ s[2] = s[3] /\ (IsInt(s[2]) \/ IsPointer(s[2])),
                                    Struct(<<s[2], IntTy(1)>>, FALSE))
          [] i.op = "gep" ->
               If(/\ IsPointer(s[1]) /\ \A j \in 2 .. Len(s) : IsInt(s[j])
                  /\ MemberText(x[1], [j \in 1 .. Len(s) - 2 |-> i.operands[j + 2].number]) # <<>>, s[1])
          [] i.op = "extractelement" -> If(IsVector(s[1]) /\ IsInt(s[2]), s[1].of)
          [] i.op = "insertelement" -> If(IsVector(s[1]) /\ s[2] = s[1].of /\ IsInt(s[3]), s[1])
          [] i.op = "shufflevector" -> If(IsVector(s[1]) /\ s[1] = s[2] /\ s[3].of = IntTy(32),
                                          Vector(s[1].of, s[3].n))
          [] i.op = "extractvalue" -> {MemberText(s[1], x)[1]}
          [] i.op = "insertvalue" -> If(MemberText(s[1], x)[1] = s[2], s[1])
          [] i.op = "constant" ->
               If(LET es == ElementsOf(Text(i.type), [n \in DOMAIN Body |-> Body[n]]) IN s = es, Text(i.type))
          [] i.op \in {"call", "invoke"} ->
               If(/\ Len(s) >= Len(x[1].args) /\ (Len(s) > Len(x[1].args) => x[1].vararg)
                  /\ \A j \in DOMAIN x[1].args : s[j] = x[1].args[j], x[1].ret)
          [] i.op = "condbr" -> If(s = <<IntTy(1), Label, Label>>, Void)
          [] i.op = "indirectbr" -> If(IsPointer(s[1]), Void)
          [] i.op = "switch" -> If(IsInt(s[1]) /\ s[1] = s[3], Void)
          [] i.op = "phi" -> If(\A j \in DOMAIN s : s[j] = s[1], s[1])
          [] i.op = "landingpad" -> {Text(i.type)}
          [] OTHER -> {Void}

-----------------------------------------------------------------------------
(* What the documentation leaves to the caller *)

NotVector(v) == ~IsVector(v.type)
CallerPart(i) ==
    LET o == i.operands
        SameText(a, b) == Text(a.type) = Text(b.type)
        Natural == \A j \in DOMAIN i.extra : i.extra[j] >= 0
    IN  CASE i.op \in IntBinops -> IsInt(Scalar(o[1].type))
          [] i.op \in FloatBinops \cup {"fneg"} -> IsFloat(Scalar(o[1].type))
          [] i.op \in ICmps -> /\ SameText(o[1], o[2])
                               /\ IsInt(Scalar(o[1].type)) \/ IsPointer(o[1].type)
          [] i.op \in FCmps -> /\ SameText(o[1], o[2])
                               /\ IsFloat(Scalar(o[1].type))
          [] i.op = "select" -> o[1].type = IntTy(1)
          [] i.op \in Casts -> CastTakes(i.op, Text(o[1].type), Text(i.type))
          [] i.op \in {"store", "store atomic"} -> FirstClass(o[1].type)
          [] i.op = "atomicrmw" -> IsPointer(o[1].type) /\ (IsInt(o[2].type) \/ IsFloat(o[2].type))
          [] i.op = "cmpxchg" -> /\ IsPointer(o[1].type) /\ SameText(o[2], o[3])
                                 /\ IsInt(o[2].type) \/ IsPointer(o[2].type)
          [] i.op = "gep" -> /\ Len(o) > 1 /\ IsPointer(o[1].type)
                             /\ \A j \in 2 .. Len(o) : IsInt(o[j].type) /\ o[j].number >= 0
                             /\ StepTo(Tail(o), i.extra) # <<>>
                             /\ Len(o) > 2 => ~IsVector(i.extra[1])
          [] i.op = "extractvalue" -> NotVector(o[1]) /\ Natural /\ i.extra # <<>>
          [] i.op = "insertvalue" -> NotVector(o[1]) /\ Natural /\ i.extra # <<>>
          [] i.op = "constant" -> \A j \in DOMAIN o : SameText(o[j], [type |-> ElementsOf(i.type, Body)[j]])
          [] i.op \in {"call", "invoke"} -> Len(o) = Len(i.extra[1].args) \/ i.extra[1].vararg
          [] i.op = "condbr" -> o[1].type = IntTy(1)
          [] i.op = "indirectbr" -> IsPointer(o[1].type)
          [] i.op = "switch" -> IsInt(o[1].type) /\ SameText(o[1], o[3])
          [] i.op = "phi" -> SameText(o[1], o[2])
          [] OTHER -> TRUE

-----------------------------------------------------------------------------
(* Properties *)

\* Two types that llvmlite takes for equal are one type to LLVM, though equality
\* ignores what a typed pointer points at when the other one is opaque; and a type
\* that LLVM has read and as_ir has converted back equals the one that was printed.
TypesSurviveLLVM ==
    /\ last = NoInstr => \A v \in Values \cup {Local(t) : t \in AllocTypes} :
         Same(cur.type, v.type) => Text(cur.type) = Text(v.type)
    /\ FirstClass(cur.type) /\ InDefaultSpace(cur.type) =>
         \E t \in {FromLLVM(Text(cur.type))} : t # <<>> /\ Same(cur.type, t[1])

\* An instruction that the builder accepts from a caller who keeps to the
\* documentation is one that LLVM accepts: every operand is printed with its own
\* type, and the result is to LLVM what it is to llvmlite, which types the next
\* instruction by it.  The two exceptions are properties of their own below.
WellTyped ==
    CallerPart(last) /\ Parsed(last) /\ HasText(last) =>
      /\ \A j \in DOMAIN last.shown : Text(last.shown[j]) = Text(last.operands[j].type)
      /\ LLVMType(last) = {Text(last.type)}

\* Without being told a type, gep, load and the pointer types they leave behind keep
\* track of what is in memory: a load through any chain of them reads the type the
\* caller laid out there.
LoadsReadWhatIsThere ==
    (/\ style = "typed" /\ real # <<>>
     /\ last.op \in {"load", "load atomic"} /\ last.operands = <<cur>>)
    => Text(last.type) = Text(real[1])

\* For such a caller, store's check of the pointee never refuses what belongs there.
TrueStoresAccepted ==
    style = "typed" /\ real # <<>> => Store(Local(real[1]), cur) # {}

\* Every operation that constants have (values.rst) makes an expression that LLVM reads.
ConstantsParsed == CallerPart(last) => Parsed(last)

\* A constant that holds the text of an expression (FormattedConstant) has that text
\* when another value is made of it, whatever its type.
ConstantsHaveText == \A j \in DOMAIN last.operands : last.operands[j].kind # "tuple"

\* Whatever was declared before, a wrapper finds its intrinsic with the type it is about
\* to call it with: by a caller who left types out of a declaration too.
WrappersCallable ==
    last = NoInstr => \A r \in Requests : \A d \in Declare(r[1], r[2], r[3], declared) :
      \E i \in Call("call", Func(d[2]), ArgsOf(r)) : CallerPart(i)

\* So it is for callers who declare by hand, in any order with the wrappers, with all
\* the types that LLVM gives an intrinsic: no two declarations meet in one name.
WrappersAgree == style # "omits" => WrappersCallable
==============================================================================
