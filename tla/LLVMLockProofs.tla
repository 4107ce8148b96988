--------------------------- MODULE LLVMLockProofs ---------------------------
(***************************************************************************)
(* TLAPS proofs about LLVMLock: for any threads, callbacks and bounds, and *)
(* whatever the callbacks raise and register, the lock excludes, and each  *)
(* call runs the rel_fn of the pairs whose acq_fn it has run.              *)
(***************************************************************************)
EXTENDS LLVMLock, SequenceTheorems, TLAPS

\* What is outside the top frame is past its acquire; it is held.
Nesting ==
    \A t \in Threads : \A i \in 1..Len(stack[t]) :
        stack[t][i].phase = "waiting" => i = Len(stack[t])
                                         /\ stack[t][i].cb = NoCallback

IInv == TypeOK /\ DepthIsExact /\ Nesting

-----------------------------------------------------------------------------
(* Lemmas on stacks of calls *)

\* The top of a non-empty stack of calls is its last element, a frame.
LEMMA TopOfStack ==
    ASSUME NEW s \in Seq(Frame), s # <<>>
    PROVE  /\ Len(s) \in Nat \ {0}
           /\ Last(s) = s[Len(s)]
           /\ Last(s) \in Frame
  <1>1. Len(s) \in Nat \ {0}
    BY EmptySeq
  <1>2. s[Len(s)] \in Frame
    BY <1>1, ElementOfSeq
  <1> QED BY <1>1, <1>2 DEF Last

\* What is left of a stack when its top is taken away.
LEMMA PopStack ==
    ASSUME NEW s \in Seq(Frame), s # <<>>
    PROVE  /\ Front(s) \in Seq(Frame)
           /\ Len(Front(s)) = Len(s) - 1
           /\ \A i \in 1..(Len(s) - 1) : Front(s)[i] = s[i]
  <1>1. Len(s) \in Nat \ {0}
    BY EmptySeq
  <1>2. \A i \in 1..(Len(s) - 1) : s[i] \in Frame
    BY <1>1, ElementOfSeq
  <1> DEFINE n == Len(s) - 1
             f == SubSeq(s, 1, n)
  <1>3. n \in Nat
    BY <1>1
  <1>4. /\ f \in Seq(Frame)
        /\ Len(f) = IF 1 <= n THEN n - 1 + 1 ELSE 0
        /\ \A i \in 1..(n - 1 + 1) : f[i] = s[1 + i - 1]
    BY <1>2, <1>3, SubSeqProperties, Z3
  <1>5. Len(f) = n /\ \A i \in 1..n : f[i] = s[i]
    <2> HIDE DEF f, n
    <2> QED BY <1>3, <1>4
  <1> QED BY <1>4, <1>5 DEF Front

-----------------------------------------------------------------------------
(* What the three ways to change a stack do to the calls that hold the lock *)

\* Replacing the top frame by one that is past its acquire.
LEMMA SetTopHolds ==
    ASSUME NEW t \in Threads, NEW f \in Frame, TypeOK, Nesting, InCall(t),
           f.phase # "waiting", SetTop(t, f)
    PROVE  /\ stack' \in [Threads -> Seq(Frame)]
           /\ Nesting'
           /\ HeldCalls(t)' = Len(stack[t])
           /\ \A u \in Threads \ {t} : HeldCalls(u)' = HeldCalls(u)
  <1> DEFINE s == stack[t]
             r == [s EXCEPT ![Len(s)] = f]
  <1>1. s \in Seq(Frame) /\ s # <<>>
    BY DEF TypeOK, InCall
  <1>2. Len(s) \in Nat \ {0}
    BY <1>1, TopOfStack
  <1>3. /\ r \in Seq(Frame)
        /\ Len(r) = Len(s)
        /\ \A j \in 1..Len(s) : r[j] = IF j = Len(s) THEN f ELSE s[j]
    <2>1. Len(s) \in 1..Len(s)
      BY <1>2
    <2> HIDE DEF s
    <2> QED BY <1>1, <2>1, ExceptSeq
  <1>4. /\ stack' = [stack EXCEPT ![t] = r]
        /\ stack'[t] = r
        /\ \A u \in Threads \ {t} : stack'[u] = stack[u]
    BY DEF TypeOK, SetTop
  <1>5. stack' \in [Threads -> Seq(Frame)]
    BY <1>3, <1>4 DEF TypeOK
  <1>6. r # <<>> /\ Last(r) = f
    <2> HIDE DEF r
    <2>1. r # <<>>
      BY <1>2, <1>3, EmptySeq
    <2> QED BY <1>2, <1>3, <2>1 DEF Last
  <1>7. HeldCalls(t)' = Len(s)
    <2> HIDE DEF r
    <2> QED BY <1>3, <1>4, <1>6 DEF HeldCalls, InCall, Top
  <1>8. \A u \in Threads \ {t} : HeldCalls(u)' = HeldCalls(u)
    BY <1>4 DEF HeldCalls, InCall, Top
  <1>9. Nesting'
    <2> SUFFICES ASSUME NEW u \in Threads, NEW i \in 1..Len(stack'[u]),
                        stack'[u][i].phase = "waiting"
                 PROVE  i = Len(stack'[u]) /\ stack'[u][i].cb = NoCallback
      BY DEF Nesting
    <2>1. CASE u # t
      BY <2>1, <1>4 DEF Nesting
    <2>2. CASE u = t
      <3>1. i # Len(s) /\ i \in 1..Len(s) /\ stack'[t][i] = s[i]
        <4> HIDE DEF r
        <4> QED BY <2>2, <1>2, <1>3, <1>4
      <3> QED BY <2>2, <3>1 DEF Nesting
    <2> QED BY <2>1, <2>2
  <1> QED BY <1>5, <1>7, <1>8, <1>9

\* A call that returns or fails.
LEMMA PopHolds ==
    ASSUME NEW t \in Threads, TypeOK, Nesting, InCall(t), Pop(t)
    PROVE  /\ stack' \in [Threads -> Seq(Frame)]
           /\ Nesting'
           /\ HeldCalls(t)' = Len(stack[t]) - 1
           /\ \A u \in Threads \ {t} : HeldCalls(u)' = HeldCalls(u)
  <1> DEFINE s == stack[t]
             r == Front(s)
  <1>1. s \in Seq(Frame) /\ s # <<>>
    BY DEF TypeOK, InCall
  <1>2. Len(s) \in Nat \ {0}
    BY <1>1, TopOfStack
  <1>3. /\ r \in Seq(Frame)
        /\ Len(r) = Len(s) - 1
        /\ \A j \in 1..(Len(s) - 1) : r[j] = s[j]
    BY <1>1, PopStack
  <1>4. /\ stack'[t] = r
        /\ stack' = [stack EXCEPT ![t] = r]
        /\ \A u \in Threads \ {t} : stack'[u] = stack[u]
    BY DEF TypeOK, Pop
  <1>5. stack' \in [Threads -> Seq(Frame)]
    <2> HIDE DEF r
    <2> QED BY <1>3, <1>4 DEF TypeOK
  <1> HIDE DEF r
  <1>6. ASSUME NEW i \in 1..Len(r)
        PROVE  r[i].phase # "waiting"
    <2>1. i \in 1..Len(s) /\ i # Len(s) /\ r[i] = s[i]
      BY <1>2, <1>3
    <2> QED BY <2>1 DEF Nesting
  <1>7. HeldCalls(t)' = Len(s) - 1
    <2>1. CASE r = <<>>
      BY <2>1, <1>3, <1>4 DEF HeldCalls, InCall
    <2>2. CASE r # <<>>
      <3>1. Len(r) \in 1..Len(r) /\ Last(r) = r[Len(r)]
        BY <1>3, <2>2, TopOfStack
      <3>2. Last(r).phase # "waiting"
        BY <3>1, <1>6
      <3> QED BY <3>2, <1>3, <1>4 DEF HeldCalls, InCall, Top
    <2> QED BY <2>1, <2>2
  <1>8. \A u \in Threads \ {t} : HeldCalls(u)' = HeldCalls(u)
    BY <1>4 DEF HeldCalls, InCall, Top
  <1>9. Nesting'
    <2> SUFFICES ASSUME NEW u \in Threads, NEW i \in 1..Len(stack'[u]),
                        stack'[u][i].phase = "waiting"
                 PROVE  i = Len(stack'[u]) /\ stack'[u][i].cb = NoCallback
      BY DEF Nesting
    <2>1. CASE u # t
      BY <2>1, <1>4 DEF Nesting
    <2>2. CASE u = t
      BY <2>2, <1>4, <1>6
    <2> QED BY <2>1, <2>2
  <1> QED BY <1>5, <1>7, <1>8, <1>9

\* A new call holds nothing yet.
LEMMA PushHolds ==
    ASSUME NEW t \in Threads, TypeOK, Nesting, Call(t)
    PROVE  /\ stack' \in [Threads -> Seq(Frame)]
           /\ Nesting'
           /\ \A u \in Threads : HeldCalls(u)' = HeldCalls(u)
  <1> DEFINE s == stack[t]
             r == Append(s, NewCall)
  <1>1. s \in Seq(Frame) /\ Len(s) \in Nat
    BY LenProperties DEF TypeOK
  <1>2. NewCall \in Frame
    BY EmptySeq DEF NewCall, Frame, Phases
  <1>3. /\ r \in Seq(Frame)
        /\ r # <<>>
        /\ Len(r) = Len(s) + 1
        /\ \A j \in 1..Len(s) : r[j] = s[j]
        /\ r[Len(s) + 1] = NewCall
    BY <1>1, <1>2, AppendProperties
  <1>4. /\ stack'[t] = r
        /\ stack' = [stack EXCEPT ![t] = r]
        /\ \A u \in Threads \ {t} : stack'[u] = stack[u]
    BY DEF TypeOK, Call
  <1>5. stack' \in [Threads -> Seq(Frame)]
    <2> HIDE DEF r
    <2> QED BY <1>3, <1>4 DEF TypeOK
  <1>6. Last(r) = NewCall /\ NewCall.phase = "waiting" /\ NewCall.cb = NoCallback
    <2> HIDE DEF r
    <2> QED BY <1>3 DEF Last, NewCall
  <1>7. s # <<>> => Last(s).phase # "waiting"
    <2> SUFFICES ASSUME s # <<>> PROVE Last(s).phase # "waiting"
      OBVIOUS
    <2>1. Len(s) \in 1..Len(s) /\ Last(s) = s[Len(s)]
      BY <1>1, TopOfStack
    <2>2. InPython(t)
      BY DEF Call
    <2>3. CASE At(t, "body")
      BY <2>3 DEF At, Top
    <2>4. CASE InCallback(t)
      BY <2>4, <2>1 DEF InCallback, Top, Nesting
    <2> QED BY <2>2, <2>3, <2>4 DEF InPython, InCall
  <1>8. HeldCalls(t)' = Len(s)
    <2> HIDE DEF r
    <2> QED BY <1>1, <1>3, <1>4, <1>6 DEF HeldCalls, InCall, Top
  <1>9. HeldCalls(t) = Len(s)
    BY <1>7 DEF HeldCalls, InCall, Top
  <1>10. \A u \in Threads \ {t} : HeldCalls(u)' = HeldCalls(u)
    BY <1>4 DEF HeldCalls, InCall, Top
  <1>11. Nesting'
    <2> SUFFICES ASSUME NEW u \in Threads, NEW i \in 1..Len(stack'[u]),
                        stack'[u][i].phase = "waiting"
                 PROVE  i = Len(stack'[u]) /\ stack'[u][i].cb = NoCallback
      BY DEF Nesting
    <2>1. CASE u # t
      BY <2>1, <1>4 DEF Nesting
    <2>2. CASE u = t /\ i = Len(s) + 1
      <3> HIDE DEF r
      <3> QED BY <2>2, <1>3, <1>4, <1>6
    <2>3. CASE u = t /\ i # Len(s) + 1
      <3>1. i \in 1..Len(s) /\ r[i] = s[i]
        <4> HIDE DEF r
        <4> QED BY <2>3, <1>1, <1>3, <1>4
      <3>2. s # <<>>
        BY <3>1, <1>1, EmptySeq
      <3>3. i = Len(s) /\ s[i].phase = "waiting"
        BY <3>1, <2>3, <1>4 DEF Nesting
      <3> QED BY <3>2, <3>3, <1>7 DEF Last
    <2> QED BY <2>1, <2>2, <2>3
  <1> QED BY <1>5, <1>8, <1>9, <1>10, <1>11

-----------------------------------------------------------------------------
(* The inductive invariant *)

\* A thread in a call has a top frame.
LEMMA TopFacts ==
    ASSUME NEW t \in Threads, TypeOK, InCall(t)
    PROVE  /\ stack[t] \in Seq(Frame)
           /\ Len(stack[t]) \in Nat \ {0}
           /\ Top(t) \in Frame
  BY TopOfStack DEF TypeOK, InCall, Top

\* When the lock is made, nobody is in a call and nobody holds it.
LEMMA InitIInv == Init => IInv
  <1> SUFFICES ASSUME Init PROVE IInv
    OBVIOUS
  <1>1. TypeOK
    BY EmptySeq DEF Init, TypeOK
  <1>2. \A t \in Threads : stack[t] = <<>> /\ Len(stack[t]) = 0
    BY EmptySeq DEF Init
  <1>3. DepthIsExact
    BY <1>2 DEF Init, DepthIsExact, HeldCalls, InCall
  <1>4. Nesting
    BY <1>2 DEF Nesting
  <1> QED BY <1>1, <1>3, <1>4 DEF IInv

\* The steps that move a call on, the lock untouched, keep the invariant.
LEMMA MoveOn ==
    ASSUME NEW t \in Threads, NEW f \in Frame, IInv, InCall(t),
           Top(t).phase # "waiting", f.phase # "waiting", SetTop(t, f),
           UNCHANGED <<owner, depth, cblist, leaked, edited>>
    PROVE  IInv'
  <1>1. /\ stack' \in [Threads -> Seq(Frame)]
        /\ Nesting'
        /\ HeldCalls(t)' = Len(stack[t])
        /\ \A u \in Threads \ {t} : HeldCalls(u)' = HeldCalls(u)
    BY SetTopHolds DEF IInv
  <1>2. HeldCalls(t) = Len(stack[t])
    BY DEF HeldCalls
  <1>3. TypeOK'
    BY <1>1 DEF IInv, TypeOK
  <1>4. DepthIsExact'
    BY <1>1, <1>2 DEF IInv, DepthIsExact
  <1> QED BY <1>1, <1>3, <1>4 DEF IInv

\* A call whose callback is running is past its acquire.
LEMMA TopNotWaiting ==
    ASSUME NEW t \in Threads, TypeOK, Nesting, InCall(t),
           Top(t).cb # NoCallback
    PROVE  Top(t).phase # "waiting"
  <1>1. Len(stack[t]) \in 1..Len(stack[t]) /\ Top(t) = stack[t][Len(stack[t])]
    BY TopOfStack DEF TypeOK, InCall, Top
  <1> QED BY <1>1 DEF Nesting

\* What register and unregister leave behind is a list of callbacks.
LEMMA ListFacts ==
    ASSUME TypeOK
    PROVE  /\ \A i \in 1..Len(cblist) : /\ cblist[i] \in Callbacks
                                       /\ RemoveAt(cblist, i) \in Seq(Callbacks)
           /\ \A cb \in Callbacks : Append(cblist, cb) \in Seq(Callbacks)
  <1>1. cblist \in Seq(Callbacks) /\ Len(cblist) \in Nat
    BY LenProperties DEF TypeOK
  <1>2. \A i \in 1..Len(cblist) : cblist[i] \in Callbacks
    BY <1>1, ElementOfSeq
  <1>3. ASSUME NEW i \in 1..Len(cblist)
        PROVE  RemoveAt(cblist, i) \in Seq(Callbacks)
    <2>1. SubSeq(cblist, 1, i - 1) \in Seq(Callbacks)
      <3>1. 1 \in Int /\ i - 1 \in Int
            /\ \A j \in 1..(i - 1) : cblist[j] \in Callbacks
        BY <1>1, <1>2
      <3> QED BY <3>1, SubSeqProperties
    <2>2. SubSeq(cblist, i + 1, Len(cblist)) \in Seq(Callbacks)
      <3>1. i + 1 \in Int /\ Len(cblist) \in Int
            /\ \A j \in (i + 1)..Len(cblist) : cblist[j] \in Callbacks
        BY <1>1, <1>2
      <3> QED BY <3>1, SubSeqProperties
    <2> QED BY <2>1, <2>2, ConcatProperties DEF RemoveAt
  <1>4. \A cb \in Callbacks : Append(cblist, cb) \in Seq(Callbacks)
    BY <1>1, AppendProperties
  <1> QED BY <1>2, <1>3, <1>4

\* Every step of a thread in __enter__, the library or __exit__ keeps the
\* invariant.
LEMMA NextIInv == IInv /\ [Next]_vars => IInv'
  <1> SUFFICES ASSUME IInv, [Next]_vars PROVE IInv'
    OBVIOUS
  <1> USE LockAssumption
  <1>1. CASE UNCHANGED vars
    BY <1>1 DEF IInv, vars, TypeOK, DepthIsExact, Nesting, HeldCalls,
                InCall, Top
  <1>2. ASSUME NEW t \in Threads, Step(t)
        PROVE  IInv'
    <2>1. CASE Call(t)
      <3>1. /\ stack' \in [Threads -> Seq(Frame)]
            /\ Nesting'
            /\ \A u \in Threads : HeldCalls(u)' = HeldCalls(u)
        BY <2>1, PushHolds DEF IInv
      <3>2. /\ UNCHANGED <<owner, depth, cblist, leaked>>
            /\ edited' \in {edited, edited \ {t}}
        BY <2>1 DEF Call
      <3>3. TypeOK'
        BY <3>1, <3>2 DEF IInv, TypeOK
      <3>4. DepthIsExact'
        BY <3>1, <3>2 DEF IInv, DepthIsExact
      <3> QED BY <3>1, <3>3, <3>4 DEF IInv
    <2>2. CASE Acquire(t)
      <3> DEFINE f == [Top(t) EXCEPT !.phase = "acq"]
      <3>1. InCall(t) /\ Top(t).phase = "waiting"
        BY <2>2 DEF Acquire, At
      <3>2. /\ Len(stack[t]) \in Nat \ {0}
            /\ Top(t) \in Frame
        BY <3>1, TopFacts DEF IInv
      <3>3. f \in Frame /\ f.phase # "waiting"
        BY <3>2 DEF Frame, Phases
      <3>4. SetTop(t, f)
        BY <2>2 DEF Acquire
      <3>5. /\ stack' \in [Threads -> Seq(Frame)]
            /\ Nesting'
            /\ HeldCalls(t)' = Len(stack[t])
            /\ \A u \in Threads \ {t} : HeldCalls(u)' = HeldCalls(u)
        <4> HIDE DEF f
        <4> QED BY <3>1, <3>3, <3>4, SetTopHolds DEF IInv
      <3>6. HeldCalls(t) = Len(stack[t]) - 1
        BY <3>1 DEF HeldCalls
      <3>7. /\ owner \in {NoThread, t} /\ owner' = t
            /\ depth' = depth + 1
            /\ UNCHANGED <<cblist, leaked, edited>>
        BY <2>2 DEF Acquire
      <3>8. TypeOK'
        BY <3>5, <3>7 DEF IInv, TypeOK
      <3>9. DepthIsExact'
        <4>1. depth \in Nat /\ leaked \in Nat /\ HeldCalls(t) \in Nat
          BY <3>2, <3>6 DEF IInv, TypeOK
        <4>2. depth' = HeldCalls(t)' + leaked'
          <5>1. CASE owner = t
            <6> DEFINE n == Len(stack[t])
            <6>1. depth' = ((n - 1) + leaked) + 1
              BY <5>1, <3>6, <3>7 DEF IInv, DepthIsExact
            <6>2. HeldCalls(t)' + leaked' = n + leaked
              BY <3>5, <3>7
            <6>3. n \in Nat \ {0} /\ leaked \in Nat
              BY <3>2, <4>1
            <6> HIDE DEF n
            <6>4. ((n - 1) + leaked) + 1 = n + leaked
              BY <6>3
            <6> QED BY <6>1, <6>2, <6>4
          <5>2. CASE owner # t
            <6>1. owner = NoThread /\ depth = 0 /\ leaked = 0
              BY <5>2, <3>7 DEF IInv, DepthIsExact
            <6>2. HeldCalls(t) = 0
              BY <5>2, <4>1 DEF IInv, DepthIsExact
            <6> QED BY <6>1, <6>2, <3>2, <3>5, <3>6, <3>7
          <5> QED BY <5>1, <5>2
        <4>3. ASSUME NEW u \in Threads \ {t}
              PROVE  ~(HeldCalls(u)' > 0)
          BY <3>5, <3>7 DEF IInv, DepthIsExact
        <4>4. depth' # 0 /\ owner' # NoThread
          BY <4>1, <3>7
        <4> QED BY <4>2, <4>3, <4>4, <3>7 DEF DepthIsExact
      <3> QED BY <3>5, <3>8, <3>9 DEF IInv
    <2>3. CASE CallAcq(t)
      <3> DEFINE f == [phase |-> "acq", idx |-> Top(t).idx + 1,
                     cb |-> cblist[Top(t).idx],
                     acqs |-> Append(Top(t).acqs, cblist[Top(t).idx]),
                     rels |-> Top(t).rels]
      <3>1. /\ InCall(t) /\ Top(t).phase # "waiting"
            /\ UNCHANGED <<owner, depth, cblist, leaked, edited>>
        BY <2>3 DEF CallAcq, At
      <3>2. Top(t) \in Frame
        BY <3>1, TopFacts DEF IInv
      <3>3. f \in Frame /\ f.phase # "waiting"
        <4>1. Top(t).idx \in Nat \ {0} /\ Top(t).idx <= Len(cblist)
          BY <2>3, <3>2 DEF CallAcq, Frame
        <4>2. Len(cblist) \in Nat
          BY LenProperties DEF IInv, TypeOK
        <4>3. cblist[Top(t).idx] \in Callbacks
          BY <4>1, <4>2, ListFacts DEF IInv
        <4>4. Append(Top(t).acqs, cblist[Top(t).idx]) \in Seq(Callbacks)
          BY <4>3, <3>2, AppendProperties DEF Frame
        <4>5. Top(t).idx + 1 \in Nat \ {0}
          BY <4>1
        <4> QED BY <4>3, <4>4, <4>5, <3>2 DEF Frame, Phases
      <3>4. SetTop(t, f)
        BY <2>3 DEF CallAcq
      <3> HIDE DEF f
      <3> QED BY <3>1, <3>3, <3>4, MoveOn
    <2>4. CASE EnterBody(t)
      <3> DEFINE f == [Top(t) EXCEPT !.phase = "body"]
      <3>1. /\ InCall(t) /\ Top(t).phase # "waiting"
            /\ UNCHANGED <<owner, depth, cblist, leaked, edited>>
        BY <2>4 DEF EnterBody, At
      <3>2. Top(t) \in Frame
        BY <3>1, TopFacts DEF IInv
      <3>3. f \in Frame /\ f.phase # "waiting"
        BY <3>2 DEF Frame, Phases
      <3>4. SetTop(t, f)
        BY <2>4 DEF EnterBody
      <3> HIDE DEF f
      <3> QED BY <3>1, <3>3, <3>4, MoveOn
    <2>5. CASE LeaveBody(t)
      <3> DEFINE f == [phase |-> "rel", idx |-> 1, cb |-> NoCallback,
                     acqs |-> Top(t).acqs, rels |-> Top(t).rels]
      <3>1. /\ InCall(t) /\ Top(t).phase # "waiting"
            /\ UNCHANGED <<owner, depth, cblist, leaked, edited>>
        BY <2>5 DEF LeaveBody, At
      <3>2. Top(t) \in Frame
        BY <3>1, TopFacts DEF IInv
      <3>3. f \in Frame /\ f.phase # "waiting"
        BY <3>2 DEF Frame, Phases
      <3>4. SetTop(t, f)
        BY <2>5 DEF LeaveBody
      <3> HIDE DEF f
      <3> QED BY <3>1, <3>3, <3>4, MoveOn
    <2>6. CASE CallRel(t)
      <3> DEFINE f == [phase |-> "rel", idx |-> Top(t).idx + 1,
                     cb |-> cblist[Top(t).idx],
                     acqs |-> Top(t).acqs,
                     rels |-> Append(Top(t).rels, cblist[Top(t).idx])]
      <3>1. /\ InCall(t) /\ Top(t).phase # "waiting"
            /\ UNCHANGED <<owner, depth, cblist, leaked, edited>>
        BY <2>6 DEF CallRel, At
      <3>2. Top(t) \in Frame
        BY <3>1, TopFacts DEF IInv
      <3>3. f \in Frame /\ f.phase # "waiting"
        <4>1. Top(t).idx \in Nat \ {0} /\ Top(t).idx <= Len(cblist)
          BY <2>6, <3>2 DEF CallRel, Frame
        <4>2. Len(cblist) \in Nat
          BY LenProperties DEF IInv, TypeOK
        <4>3. cblist[Top(t).idx] \in Callbacks
          BY <4>1, <4>2, ListFacts DEF IInv
        <4>4. Append(Top(t).rels, cblist[Top(t).idx]) \in Seq(Callbacks)
          BY <4>3, <3>2, AppendProperties DEF Frame
        <4>5. Top(t).idx + 1 \in Nat \ {0}
          BY <4>1
        <4> QED BY <4>3, <4>4, <4>5, <3>2 DEF Frame, Phases
      <3>4. SetTop(t, f)
        BY <2>6 DEF CallRel
      <3> HIDE DEF f
      <3> QED BY <3>1, <3>3, <3>4, MoveOn
    <2>7. CASE CallbackReturns(t)
      <3> DEFINE f == [Top(t) EXCEPT !.cb = NoCallback]
      <3>1. InCall(t) /\ Top(t).cb # NoCallback
            /\ UNCHANGED <<owner, depth, cblist, leaked, edited>>
        BY <2>7 DEF CallbackReturns, InCallback
      <3>2. Top(t) \in Frame /\ Top(t).phase # "waiting"
        BY <3>1, TopNotWaiting, TopFacts DEF IInv
      <3>3. f \in Frame /\ f.phase # "waiting"
        BY <3>2 DEF Frame
      <3>4. SetTop(t, f)
        BY <2>7 DEF CallbackReturns
      <3> HIDE DEF f
      <3> QED BY <3>1, <3>2, <3>3, <3>4, MoveOn
    <2>8. CASE CallbackRaises(t)
      <3>1. /\ InCall(t) /\ Top(t).cb # NoCallback /\ Pop(t)
            /\ leaked' = leaked + 1
            /\ UNCHANGED <<owner, depth, cblist, edited>>
        BY <2>8 DEF CallbackRaises, InCallback
      <3>2. /\ Len(stack[t]) \in Nat \ {0} /\ depth \in Nat /\ leaked \in Nat
            /\ HeldCalls(t) = Len(stack[t])
        BY <3>1, TopNotWaiting, TopFacts DEF IInv, HeldCalls, TypeOK
      <3>3. /\ stack' \in [Threads -> Seq(Frame)]
            /\ Nesting'
            /\ HeldCalls(t)' = Len(stack[t]) - 1
            /\ \A u \in Threads \ {t} : HeldCalls(u)' = HeldCalls(u)
        BY <3>1, PopHolds DEF IInv
      <3>4. TypeOK'
        BY <3>1, <3>2, <3>3 DEF IInv, TypeOK
      <3>5. owner = t /\ depth = Len(stack[t]) + leaked
        BY <3>2 DEF IInv, DepthIsExact
      <3>6. depth' = HeldCalls(t)' + leaked'
        <4> DEFINE n == Len(stack[t])
        <4>1. HeldCalls(t)' + leaked' = (n - 1) + (leaked + 1)
          BY <3>1, <3>3
        <4>2. depth' = n + leaked
          BY <3>1, <3>5
        <4>3. n \in Nat \ {0} /\ leaked \in Nat
          BY <3>2
        <4> HIDE DEF n
        <4>4. (n - 1) + (leaked + 1) = n + leaked
          BY <4>3
        <4> QED BY <4>1, <4>2, <4>4
      <3>7. DepthIsExact'
        BY <3>1, <3>3, <3>5, <3>6 DEF IInv, DepthIsExact
      <3> QED BY <3>3, <3>4, <3>7 DEF IInv
    <2>9. CASE Release(t)
      <3>1. /\ InCall(t) /\ Top(t).phase = "rel" /\ Pop(t)
            /\ depth' = depth - 1
            /\ owner' = IF depth = 1 THEN NoThread ELSE owner
            /\ UNCHANGED <<cblist, leaked, edited>>
        BY <2>9 DEF Release, At
      <3>2. /\ Len(stack[t]) \in Nat \ {0} /\ depth \in Nat /\ leaked \in Nat
            /\ HeldCalls(t) = Len(stack[t])
        BY <3>1, TopFacts DEF IInv, HeldCalls, TypeOK
      <3>3. /\ stack' \in [Threads -> Seq(Frame)]
            /\ Nesting'
            /\ HeldCalls(t)' = Len(stack[t]) - 1
            /\ \A u \in Threads \ {t} : HeldCalls(u)' = HeldCalls(u)
        BY <3>1, PopHolds DEF IInv
      <3>4. owner = t /\ depth = Len(stack[t]) + leaked
        BY <3>2 DEF IInv, DepthIsExact
      <3>5. TypeOK'
        BY <3>1, <3>2, <3>3, <3>4 DEF IInv, TypeOK
      <3>6. DepthIsExact'
        <4>1. depth' = HeldCalls(t)' + leaked'
          BY <3>1, <3>2, <3>3, <3>4
        <4>2. depth = 1 => HeldCalls(t)' = 0 /\ leaked = 0
          <5> DEFINE n == Len(stack[t])
          <5>1. n \in Nat \ {0} /\ leaked \in Nat /\ depth = n + leaked
            BY <3>2, <3>4
          <5>2. HeldCalls(t)' = n - 1
            BY <3>3
          <5> HIDE DEF n
          <5>3. depth = 1 => n - 1 = 0 /\ leaked = 0
            BY <5>1
          <5> QED BY <5>2, <5>3
        <4>3. owner' = NoThread <=> depth' = 0
          BY <3>1, <3>2, <3>4
        <4>4. ASSUME NEW u \in Threads \ {t}
              PROVE  ~(HeldCalls(u)' > 0) /\ owner' # u
          BY <3>1, <3>3, <3>4 DEF IInv, DepthIsExact
        <4>5. /\ HeldCalls(t)' > 0 => owner' = t
              /\ owner' = NoThread => leaked' = 0
          BY <4>2, <3>1, <3>4
        <4> QED BY <4>1, <4>3, <4>4, <4>5 DEF DepthIsExact
      <3> QED BY <3>3, <3>5, <3>6 DEF IInv
    <2>10. CASE Register(t) \/ Unregister(t)
      <3>1. UNCHANGED <<owner, depth, stack, leaked>> /\ edited' \subseteq Threads
        BY <2>10 DEF Register, Unregister, EditList
      <3>2. cblist' \in Seq(Callbacks)
        BY <2>10, ListFacts DEF IInv, Register, Unregister
      <3>3. TypeOK' /\ Nesting'
        BY <3>1, <3>2 DEF IInv, TypeOK, Nesting
      <3>4. DepthIsExact'
        BY <3>1 DEF IInv, DepthIsExact, HeldCalls, InCall, Top
      <3> QED BY <3>3, <3>4 DEF IInv
    <2> QED BY <1>2, <2>1, <2>2, <2>3, <2>4, <2>5, <2>6, <2>7, <2>8, <2>9,
               <2>10 DEF Step
  <1> QED BY <1>1, <1>2 DEF Next

-----------------------------------------------------------------------------
(* Theorems *)

\* The inductive invariant of _LLVMLock holds in every behaviour: nested calls
\* hold the lock once each and only the innermost may still be waiting for it.
THEOREM SpecIInv == Spec => []IInv
  BY InitIInv, NextIInv, PTL DEF Spec

\* Every state of the lock (_LLVMLock, _lib_fn_wrapper.__call__) is well typed.
THEOREM TypeCorrect == Spec => []TypeOK
  <1>1. IInv => TypeOK
    BY DEF IInv
  <1> QED BY <1>1, SpecIInv, PTL

\* The recursion count of the lock is exact: the calls of its owner that are in
\* progress, and those that callbacks have ended by raising.
THEOREM CountIsExact == Spec => []DepthIsExact
  <1>1. IInv => DepthIsExact
    BY DEF IInv
  <1> QED BY <1>1, SpecIInv, PTL

\* _lib_wrapper: "only one thread may access it at a time".
THEOREM OneThreadInLibrary == Spec => []MutualExclusion
  <1>1. IInv => MutualExclusion
    BY DEF IInv, DepthIsExact, MutualExclusion
  <1> QED BY <1>1, SpecIInv, PTL

-----------------------------------------------------------------------------
(* Pairing: every call during which the list of callbacks does not change  *)
(* runs exactly the rel_fn of the pairs whose acq_fn it has run, in order. *)

\* s is the first n pairs of the list.
Walked(s, n, list) == Len(s) = n /\ \A j \in 1..n : s[j] = list[j]

\* What a call has called of the list, by where it is.
FrameOK(f, list) ==
    /\ f.phase = "waiting" => /\ f.idx = 1
                              /\ Walked(f.acqs, 0, list)
                              /\ Walked(f.rels, 0, list)
    /\ f.phase = "acq" => /\ f.idx <= Len(list) + 1
                          /\ Walked(f.acqs, f.idx - 1, list)
                          /\ Walked(f.rels, 0, list)
    /\ f.phase = "body" => /\ Walked(f.acqs, Len(list), list)
                           /\ Walked(f.rels, 0, list)
    /\ f.phase = "rel" => /\ f.idx <= Len(list) + 1
                          /\ Walked(f.acqs, Len(list), list)
                          /\ Walked(f.rels, f.idx - 1, list)

\* Every call of a thread, since whose outermost call the list has not changed,
\* agrees with the list.
PairInv ==
    \A t \in Threads \ edited : \A i \in 1..Len(stack[t]) :
        FrameOK(stack[t][i], cblist)

-----------------------------------------------------------------------------
(* Lemmas on the list and on stacks of calls *)

\* One more iteration of a loop over _cblist.
LEMMA WalkOn ==
    ASSUME TypeOK, NEW s \in Seq(Callbacks), NEW n \in Nat,
           n + 1 <= Len(cblist), Walked(s, n, cblist)
    PROVE  Walked(Append(s, cblist[n + 1]), n + 1, cblist)
  <1>1. Len(cblist) \in Nat
    BY LenProperties DEF TypeOK
  <1>2. cblist[n + 1] \in Callbacks
    BY <1>1, ListFacts
  <1> DEFINE r == Append(s, cblist[n + 1])
  <1>3. /\ Len(r) = Len(s) + 1
        /\ \A j \in 1..Len(s) : r[j] = s[j]
        /\ r[Len(s) + 1] = cblist[n + 1]
    BY <1>2, AppendProperties
  <1>4. Len(s) = n /\ \A j \in 1..n : s[j] = cblist[j]
    BY DEF Walked
  <1> HIDE DEF r
  <1>5. Len(r) = n + 1 /\ \A j \in 1..(n + 1) : r[j] = cblist[j]
    BY <1>3, <1>4
  <1>6. Walked(r, n + 1, cblist)
    BY <1>5 DEF Walked
  <1> QED BY <1>6 DEF r

\* The frames of all stacks when the top of one is replaced.
LEMMA SetTopFrames ==
    ASSUME NEW t \in Threads, NEW f \in Frame, TypeOK, InCall(t), SetTop(t, f)
    PROVE  \A u \in Threads :
             /\ Len(stack'[u]) = Len(stack[u])
             /\ \A i \in 1..Len(stack[u]) :
                  stack'[u][i] = IF u = t /\ i = Len(stack[t]) THEN f
                                                           ELSE stack[u][i]
  <1> DEFINE s == stack[t]
             r == [s EXCEPT ![Len(s)] = f]
  <1>1. s \in Seq(Frame) /\ Len(s) \in Nat \ {0}
    BY TopFacts
  <1>2. /\ Len(r) = Len(s)
        /\ \A j \in 1..Len(s) : r[j] = IF j = Len(s) THEN f ELSE s[j]
    <2>1. Len(s) \in 1..Len(s)
      BY <1>1
    <2> HIDE DEF s
    <2> QED BY <1>1, <2>1, ExceptSeq
  <1>3. /\ stack'[t] = r
        /\ \A u \in Threads \ {t} : stack'[u] = stack[u]
    BY DEF TypeOK, SetTop
  <1> HIDE DEF r
  <1> QED BY <1>2, <1>3

\* A step that moves the innermost call on keeps the invariant if it fits that
\* call.
LEMMA MoveOnPaired ==
    ASSUME NEW t \in Threads, NEW f \in Frame, TypeOK, PairInv, InCall(t),
           SetTop(t, f), UNCHANGED <<cblist, edited>>,
           t \notin edited => FrameOK(f, cblist)
    PROVE  PairInv'
  <1> SUFFICES ASSUME NEW u \in Threads \ edited, NEW i \in 1..Len(stack'[u])
               PROVE  FrameOK(stack'[u][i], cblist')
    BY DEF PairInv
  <1>1. /\ i \in 1..Len(stack[u])
        /\ stack'[u][i] = IF u = t /\ i = Len(stack[t]) THEN f ELSE stack[u][i]
    BY SetTopFrames
  <1>2. FrameOK(stack'[u][i], cblist)
    BY <1>1 DEF PairInv
  <1> QED BY <1>2 DEF FrameOK, Walked

\* A call that returns, or ends by an exception, leaves the others as they are.
LEMMA PopPaired ==
    ASSUME NEW t \in Threads, TypeOK, PairInv, InCall(t), Pop(t),
           UNCHANGED <<cblist, edited>>
    PROVE  PairInv'
  <1> SUFFICES ASSUME NEW u \in Threads \ edited, NEW i \in 1..Len(stack'[u])
               PROVE  FrameOK(stack'[u][i], cblist')
    BY DEF PairInv
  <1>1. /\ stack[t] \in Seq(Frame) /\ stack[t] # <<>>
        /\ Len(stack[t]) \in Nat \ {0}
    BY TopFacts DEF InCall
  <1>2. /\ stack'[t] = Front(stack[t])
        /\ \A v \in Threads \ {t} : stack'[v] = stack[v]
    BY DEF TypeOK, Pop
  <1>3. /\ Len(stack'[t]) = Len(stack[t]) - 1
        /\ \A j \in 1..(Len(stack[t]) - 1) : stack'[t][j] = stack[t][j]
    BY <1>1, <1>2, PopStack
  <1>4. i \in 1..Len(stack[u]) /\ stack'[u][i] = stack[u][i]
    BY <1>1, <1>2, <1>3
  <1>5. FrameOK(stack'[u][i], cblist)
    BY <1>4 DEF PairInv
  <1> QED BY <1>5 DEF FrameOK, Walked

\* A new call has called nothing.
LEMMA PushPaired ==
    ASSUME NEW t \in Threads, TypeOK, PairInv, Call(t)
    PROVE  PairInv'
  <1> DEFINE s == stack[t]
             r == Append(s, NewCall)
  <1>1. s \in Seq(Frame) /\ Len(s) \in Nat
    BY LenProperties DEF TypeOK
  <1>2. NewCall \in Frame
    BY EmptySeq DEF NewCall, Frame, Phases
  <1>3. /\ Len(r) = Len(s) + 1
        /\ \A j \in 1..Len(s) : r[j] = s[j]
        /\ r[Len(s) + 1] = NewCall
    BY <1>1, <1>2, AppendProperties
  <1>4. /\ stack'[t] = r
        /\ \A u \in Threads \ {t} : stack'[u] = stack[u]
        /\ cblist' = cblist
        /\ edited' = IF InCall(t) THEN edited ELSE edited \ {t}
    BY DEF TypeOK, Call
  <1>5. FrameOK(NewCall, cblist)
    BY EmptySeq DEF FrameOK, NewCall, Walked
  <1> HIDE DEF r
  <1>6. ASSUME NEW u \in Threads \ edited', NEW i \in 1..Len(stack'[u])
        PROVE  FrameOK(stack'[u][i], cblist)
    <2>1. CASE u # t
      BY <2>1, <1>4 DEF PairInv
    <2>2. CASE u = t /\ i = Len(s) + 1
      BY <2>2, <1>3, <1>4, <1>5
    <2>3. CASE u = t /\ i # Len(s) + 1
      <3>1. i \in 1..Len(s) /\ r[i] = s[i]
        BY <2>3, <1>1, <1>3, <1>4
      <3>2. InCall(t)
        BY <3>1, <1>1, EmptySeq DEF InCall
      <3> QED BY <3>1, <3>2, <2>3, <1>4 DEF PairInv
    <2> QED BY <2>1, <2>2, <2>3
  <1>7. ASSUME NEW u \in Threads \ edited', NEW i \in 1..Len(stack'[u])
        PROVE  FrameOK(stack'[u][i], cblist')
    BY <1>4, <1>6 DEF FrameOK, Walked
  <1> QED BY <1>7 DEF PairInv

\* The frame of the innermost call of a thread whose calls are all paired.
LEMMA TopPaired ==
    ASSUME NEW t \in Threads \ edited, TypeOK, PairInv, InCall(t)
    PROVE  FrameOK(Top(t), cblist)
  <1>1. stack[t] \in Seq(Frame) /\ stack[t] # <<>>
    BY DEF TypeOK, InCall
  <1>2. Len(stack[t]) \in 1..Len(stack[t]) /\ Top(t) = stack[t][Len(stack[t])]
    BY <1>1, TopOfStack DEF Top
  <1> QED BY <1>2 DEF PairInv

-----------------------------------------------------------------------------
(* The invariant *)

\* No call is in progress at the start.
LEMMA InitPaired == Init => PairInv
  <1> SUFFICES ASSUME Init PROVE PairInv
    OBVIOUS
  <1>1. \A t \in Threads : Len(stack[t]) = 0
    BY EmptySeq DEF Init
  <1> QED BY <1>1 DEF PairInv

\* Every step of the lock keeps what each call has called in line with _cblist.
LEMMA NextPaired == TypeOK /\ PairInv /\ [Next]_vars => PairInv'
  <1> SUFFICES ASSUME TypeOK, PairInv, [Next]_vars PROVE PairInv'
    OBVIOUS
  <1> USE LockAssumption
  <1>a. Len(cblist) \in Nat
    BY LenProperties DEF TypeOK
  <1>1. CASE UNCHANGED vars
    <2>1. stack' = stack /\ cblist' = cblist /\ edited' = edited
      BY <1>1 DEF vars
    <2> QED BY <2>1 DEF PairInv
  <1>2. ASSUME NEW t \in Threads, Step(t)
        PROVE  PairInv'
    <2>1. CASE Call(t)
      BY <2>1, PushPaired
    <2>2. CASE Acquire(t)
      <3> DEFINE f == [Top(t) EXCEPT !.phase = "acq"]
      <3>1. /\ InCall(t) /\ Top(t).phase = "waiting" /\ SetTop(t, f)
            /\ UNCHANGED <<cblist, edited>>
        BY <2>2 DEF Acquire, At
      <3>2. Top(t) \in Frame
        BY <3>1, TopFacts
      <3>3. f \in Frame
        BY <3>2 DEF Frame, Phases
      <3>4. t \notin edited => FrameOK(f, cblist)
        BY <3>1, <3>2, <1>a, TopPaired DEF FrameOK, Frame
      <3> HIDE DEF f
      <3> QED BY <3>1, <3>3, <3>4, MoveOnPaired
    <2>3. CASE CallAcq(t)
      <3> DEFINE n == Top(t).idx - 1
                 cb == cblist[n + 1]
                 f == [phase |-> "acq", idx |-> Top(t).idx + 1, cb |-> cb,
                       acqs |-> Append(Top(t).acqs, cb), rels |-> Top(t).rels]
      <3>1. /\ InCall(t) /\ Top(t).phase = "acq"
            /\ Top(t).idx <= Len(cblist)
            /\ UNCHANGED <<cblist, edited>>
        BY <2>3 DEF CallAcq, At
      <3>2. Top(t) \in Frame
        BY <3>1, TopFacts
      <3>3. n \in Nat /\ n + 1 = Top(t).idx /\ n + 1 <= Len(cblist)
        BY <3>1, <3>2 DEF Frame
      <3>4. cb \in Callbacks
        BY <3>3, <1>a, ListFacts
      <3>5. f \in Frame
        <4>1. Append(Top(t).acqs, cb) \in Seq(Callbacks)
          BY <3>2, <3>4, AppendProperties DEF Frame
        <4>2. Top(t).idx + 1 \in Nat \ {0}
          BY <3>2 DEF Frame
        <4> HIDE DEF cb
        <4> QED BY <3>2, <3>4, <4>1, <4>2 DEF Frame, Phases
      <3>6. SetTop(t, f)
        BY <2>3, <3>3 DEF CallAcq
      <3>7. ASSUME t \notin edited PROVE FrameOK(f, cblist)
        <4>1. Walked(Top(t).acqs, n, cblist) /\ Walked(Top(t).rels, 0, cblist)
          BY <3>1, <3>7, TopPaired DEF FrameOK
        <4>2. Walked(Append(Top(t).acqs, cb), n + 1, cblist)
          BY <4>1, <3>2, <3>3, WalkOn DEF Frame
        <4>3. /\ f.phase = "acq" /\ f.idx - 1 = n + 1
              /\ f.idx <= Len(cblist) + 1
              /\ f.acqs = Append(Top(t).acqs, cb) /\ f.rels = Top(t).rels
          BY <3>3
        <4> HIDE DEF f, cb, n
        <4> QED BY <4>1, <4>2, <4>3 DEF FrameOK
      <3> HIDE DEF f
      <3> QED BY <3>1, <3>5, <3>6, <3>7, MoveOnPaired
    <2>4. CASE EnterBody(t)
      <3> DEFINE f == [Top(t) EXCEPT !.phase = "body"]
      <3>1. /\ InCall(t) /\ Top(t).phase = "acq" /\ SetTop(t, f)
            /\ Top(t).idx > Len(cblist)
            /\ UNCHANGED <<cblist, edited>>
        BY <2>4 DEF EnterBody, At
      <3>2. Top(t) \in Frame
        BY <3>1, TopFacts
      <3>3. f \in Frame
        BY <3>2 DEF Frame, Phases
      <3>4. ASSUME t \notin edited PROVE FrameOK(f, cblist)
        <4>1. /\ Top(t).idx <= Len(cblist) + 1
              /\ Walked(Top(t).acqs, Top(t).idx - 1, cblist)
              /\ Walked(Top(t).rels, 0, cblist)
          BY <3>1, <3>4, TopPaired DEF FrameOK
        <4>2. Top(t).idx - 1 = Len(cblist)
          BY <3>1, <3>2, <4>1, <1>a DEF Frame
        <4>3. f.phase = "body" /\ f.acqs = Top(t).acqs /\ f.rels = Top(t).rels
          BY <3>2 DEF Frame
        <4> HIDE DEF f
        <4> QED BY <4>1, <4>2, <4>3 DEF FrameOK
      <3> HIDE DEF f
      <3> QED BY <3>1, <3>3, <3>4, MoveOnPaired
    <2>5. CASE LeaveBody(t)
      <3> DEFINE f == [phase |-> "rel", idx |-> 1, cb |-> NoCallback,
                       acqs |-> Top(t).acqs, rels |-> Top(t).rels]
      <3>1. /\ InCall(t) /\ Top(t).phase = "body" /\ SetTop(t, f)
            /\ UNCHANGED <<cblist, edited>>
        BY <2>5 DEF LeaveBody, At
      <3>2. Top(t) \in Frame
        BY <3>1, TopFacts
      <3>3. f \in Frame
        BY <3>2 DEF Frame, Phases
      <3>4. t \notin edited => FrameOK(f, cblist)
        BY <3>1, <1>a, TopPaired DEF FrameOK
      <3> HIDE DEF f
      <3> QED BY <3>1, <3>3, <3>4, MoveOnPaired
    <2>6. CASE CallRel(t)
      <3> DEFINE n == Top(t).idx - 1
                 cb == cblist[n + 1]
                 f == [phase |-> "rel", idx |-> Top(t).idx + 1, cb |-> cb,
                       acqs |-> Top(t).acqs, rels |-> Append(Top(t).rels, cb)]
      <3>1. /\ InCall(t) /\ Top(t).phase = "rel"
            /\ Top(t).idx <= Len(cblist)
            /\ UNCHANGED <<cblist, edited>>
        BY <2>6 DEF CallRel, At
      <3>2. Top(t) \in Frame
        BY <3>1, TopFacts
      <3>3. n \in Nat /\ n + 1 = Top(t).idx /\ n + 1 <= Len(cblist)
        BY <3>1, <3>2 DEF Frame
      <3>4. cb \in Callbacks
        BY <3>3, <1>a, ListFacts
      <3>5. f \in Frame
        <4>1. Append(Top(t).rels, cb) \in Seq(Callbacks)
          BY <3>2, <3>4, AppendProperties DEF Frame
        <4>2. Top(t).idx + 1 \in Nat \ {0}
          BY <3>2 DEF Frame
        <4> HIDE DEF cb
        <4> QED BY <3>2, <3>4, <4>1, <4>2 DEF Frame, Phases
      <3>6. SetTop(t, f)
        BY <2>6, <3>3 DEF CallRel
      <3>7. ASSUME t \notin edited PROVE FrameOK(f, cblist)
        <4>1. /\ Walked(Top(t).acqs, Len(cblist), cblist)
              /\ Walked(Top(t).rels, n, cblist)
          BY <3>1, <3>7, TopPaired DEF FrameOK
        <4>2. Walked(Append(Top(t).rels, cb), n + 1, cblist)
          BY <4>1, <3>2, <3>3, WalkOn DEF Frame
        <4>3. /\ f.phase = "rel" /\ f.idx - 1 = n + 1
              /\ f.idx <= Len(cblist) + 1
              /\ f.rels = Append(Top(t).rels, cb) /\ f.acqs = Top(t).acqs
          BY <3>3
        <4> HIDE DEF f, cb, n
        <4> QED BY <4>1, <4>2, <4>3 DEF FrameOK
      <3> HIDE DEF f
      <3> QED BY <3>1, <3>5, <3>6, <3>7, MoveOnPaired
    <2>7. CASE CallbackReturns(t)
      <3> DEFINE f == [Top(t) EXCEPT !.cb = NoCallback]
      <3>1. InCall(t) /\ SetTop(t, f) /\ UNCHANGED <<cblist, edited>>
        BY <2>7 DEF CallbackReturns, InCallback
      <3>2. Top(t) \in Frame
        BY <3>1, TopFacts
      <3>3. f \in Frame
        BY <3>2 DEF Frame
      <3>4. t \notin edited => FrameOK(f, cblist)
        BY <3>1, <3>2, TopPaired DEF FrameOK, Frame
      <3> HIDE DEF f
      <3> QED BY <3>1, <3>3, <3>4, MoveOnPaired
    <2>8. CASE CallbackRaises(t) \/ Release(t)
      <3>1. InCall(t) /\ Pop(t) /\ UNCHANGED <<cblist, edited>>
        BY <2>8 DEF CallbackRaises, InCallback, Release, At
      <3> QED BY <3>1, PopPaired
    <2>9. CASE Register(t) \/ Unregister(t)
      <3>1. edited' = {u \in Threads : InCall(u)} /\ stack' = stack
        BY <2>9 DEF Register, Unregister, EditList
      <3>2. \A u \in Threads \ edited' : Len(stack'[u]) = 0
        BY <3>1, EmptySeq DEF InCall
      <3> QED BY <3>2 DEF PairInv
    <2> QED BY <1>2, <2>1, <2>2, <2>3, <2>4, <2>5, <2>6, <2>7, <2>8, <2>9
            DEF Step
  <1> QED BY <1>1, <1>2 DEF Next

\* What the invariant says of a call in the loop of __exit__.
LEMMA PairedCalls == TypeOK /\ PairInv => AcqRelPaired
  <1> SUFFICES ASSUME TypeOK, PairInv, NEW t \in Threads \ edited, At(t, "rel")
               PROVE  /\ IsPrefix(Top(t).rels, Top(t).acqs)
                      /\ Top(t).idx > Len(cblist) => Top(t).rels = Top(t).acqs
    BY DEF AcqRelPaired, RelFollowsAcq
  <1> DEFINE a == Top(t).acqs
             r == Top(t).rels
             n == Len(cblist)
             m == Top(t).idx - 1
  <1>1. Top(t).phase = "rel" /\ InCall(t)
    BY DEF At
  <1>2. Top(t) \in Frame
    BY <1>1, TopFacts
  <1>3. Walked(a, n, cblist) /\ Walked(r, m, cblist) /\ Top(t).idx <= n + 1
    BY <1>1, TopPaired DEF FrameOK
  <1>4. a \in Seq(Callbacks) /\ r \in Seq(Callbacks) /\ n \in Nat /\ m \in Nat
    BY <1>2, LenProperties DEF Frame, TypeOK
  <1>5. m <= n /\ (Top(t).idx > n => m = n)
    BY <1>2, <1>3, <1>4 DEF Frame
  <1> HIDE DEF a, r, n, m
  <1>6. /\ Len(a) = n /\ Len(r) = m
        /\ \A j \in 1..m : r[j] = a[j]
    BY <1>3, <1>4, <1>5 DEF Walked, n
  <1>7. SubSeq(r, 1, Len(r)) = SubSeq(a, 1, Len(r))
    <2> DEFINE x == SubSeq(r, 1, m)
               y == SubSeq(a, 1, m)
    <2>1. \A j \in 1..m : r[j] \in Callbacks /\ a[j] \in Callbacks
      BY <1>4, <1>5, <1>6, ElementOfSeq
    <2>2. 1 \in Int /\ m \in Int
      BY <1>4
    <2>3. /\ x \in Seq(Callbacks)
          /\ Len(x) = IF 1 <= m THEN m - 1 + 1 ELSE 0
          /\ \A j \in 1..(m - 1 + 1) : x[j] = r[1 + j - 1]
      BY <2>1, <2>2, SubSeqProperties
    <2>4. /\ y \in Seq(Callbacks)
          /\ Len(y) = IF 1 <= m THEN m - 1 + 1 ELSE 0
          /\ \A j \in 1..(m - 1 + 1) : y[j] = a[1 + j - 1]
      BY <2>1, <2>2, SubSeqProperties
    <2> HIDE DEF x, y
    <2>5. Len(x) = Len(y) /\ \A j \in 1..Len(x) : x[j] = y[j]
      BY <2>3, <2>4, <1>4, <1>6
    <2>6. x = y
      BY <2>3, <2>4, <2>5, SeqEqual
    <2> QED BY <2>6, <1>6 DEF x, y
  <1>8. IsPrefix(r, a)
    BY <1>5, <1>6, <1>7 DEF IsPrefix
  <1>9. Top(t).idx > n => r = a
    BY <1>4, <1>5, <1>6, SeqEqual
  <1> QED BY <1>8, <1>9 DEF a, r, n

\* _LLVMLock.register: every rel_fn that a call runs is the partner of an
\* acq_fn it has run, and no partner is missing when it gives the lock back, if
\* the list has not changed since the thread's outermost call began.
THEOREM CallbacksArePaired == Spec => []AcqRelPaired
  <1>1. IInv => TypeOK
    BY DEF IInv
  <1> QED BY <1>1, InitIInv, NextIInv, InitPaired, NextPaired, PairedCalls, PTL
          DEF Spec
=============================================================================
