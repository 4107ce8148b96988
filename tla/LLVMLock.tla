------------------------------ MODULE LLVMLock ------------------------------
(***************************************************************************)
(* The lock of llvmlite/binding/ffi.py: every function of libllvmlite is   *)
(* wrapped by _lib_fn_wrapper, whose __call__ runs the C function inside   *)
(* "with self._lock".  The lock is a re-entrant lock with a list of        *)
(* callback pairs: __enter__ takes the RLock and calls every acq_fn,       *)
(* __exit__ calls every rel_fn and gives the RLock back.                   *)
(*                                                                         *)
(* A thread is the stack of its calls in progress.  A call is pushed by    *)
(* Python code: by the thread's own code when the stack is empty, by an    *)
(* acq_fn or rel_fn, or by a ctypes callback the C function makes.         *)
(***************************************************************************)
EXTENDS Integers, SequencesExt

CONSTANTS
    Threads,            \* the Python threads that call the library
    Callbacks,          \* the (acq_fn, rel_fn) pairs that may be registered
    NoThread,           \* the owner of a free lock
    NoCallback,         \* the callback of a call that runs none
    MaxNesting,         \* bound: recursion count of the RLock
    MaxRegistered       \* bound: length of _cblist

ASSUME LockAssumption ==
    /\ NoThread \notin Threads
    /\ NoCallback \notin Callbacks
    /\ MaxNesting \in Nat \ {0}
    /\ MaxRegistered \in Nat

VARIABLES
    owner,   \* the thread that holds the RLock
    depth,   \* the recursion count of the RLock
    cblist,  \* _cblist
    stack,   \* stack[t]: the calls of thread t, innermost last
    leaked,  \* (history) the calls that a callback ended by raising
    edited   \* (history) the threads in a call since which _cblist has changed

vars == <<owner, depth, cblist, stack, leaked, edited>>

(***************************************************************************)
(* A call: where it is in _lib_fn_wrapper.__call__, the position of its    *)
(* "for" loop over _cblist, the callback it is in, and (history) the       *)
(* acq_fn and rel_fn it has called.                                        *)
(***************************************************************************)
Phases == {"waiting", "acq", "body", "rel"}

Frame == [phase : Phases,
          idx   : Nat \ {0},
          cb    : Callbacks \cup {NoCallback},
          acqs  : Seq(Callbacks),
          rels  : Seq(Callbacks)]

NewCall == [phase |-> "waiting", idx |-> 1, cb |-> NoCallback,
            acqs |-> <<>>, rels |-> <<>>]

Top(t) == Last(stack[t])
InCall(t) == stack[t] # <<>>
At(t, phase) == InCall(t) /\ Top(t).phase = phase /\ Top(t).cb = NoCallback
InCallback(t) == InCall(t) /\ Top(t).cb # NoCallback

\* Thread t is executing Python code other than the lock's own.
InPython(t) == ~InCall(t) \/ At(t, "body") \/ InCallback(t)

SetTop(t, f) == stack' = [stack EXCEPT ![t] = [@ EXCEPT ![Len(@)] = f]]
Pop(t) == stack' = [stack EXCEPT ![t] = Front(@)]

\* The calls of thread t that are past RLock.acquire() and not past release().
HeldCalls(t) ==
    IF InCall(t) /\ Top(t).phase = "waiting" THEN Len(stack[t]) - 1
                                             ELSE Len(stack[t])

-----------------------------------------------------------------------------
Init ==
    /\ owner = NoThread
    /\ depth = 0
    /\ cblist = <<>>
    /\ stack = [t \in Threads |-> <<>>]
    /\ leaked = 0
    /\ edited = {}

\* _lib_fn_wrapper.__call__ reaches "with self._lock".
Call(t) ==
    /\ InPython(t)
    /\ Len(stack[t]) + leaked < MaxNesting
    /\ stack' = [stack EXCEPT ![t] = Append(@, NewCall)]
    /\ edited' = IF InCall(t) THEN edited ELSE edited \ {t}
    /\ UNCHANGED <<owner, depth, cblist, leaked>>

\* __enter__: self._lock.acquire() returns.
Acquire(t) ==
    /\ At(t, "waiting")
    /\ owner \in {NoThread, t}
    /\ owner' = t
    /\ depth' = depth + 1
    /\ SetTop(t, [Top(t) EXCEPT !.phase = "acq"])
    /\ UNCHANGED <<cblist, leaked, edited>>

\* __enter__: one iteration of "for acq_fn, rel_fn in self._cblist".  A Python
\* list iterator keeps an index and looks at the list again at every step.
CallAcq(t) ==
    /\ At(t, "acq")
    /\ Top(t).idx <= Len(cblist)
    /\ LET f == Top(t)
           cb == cblist[f.idx]
       IN  SetTop(t, [phase |-> "acq", idx |-> f.idx + 1, cb |-> cb,
                      acqs |-> Append(f.acqs, cb), rels |-> f.rels])
    /\ UNCHANGED <<owner, depth, cblist, leaked, edited>>

\* __enter__ returns; the C function starts.
EnterBody(t) ==
    /\ At(t, "acq")
    /\ Top(t).idx > Len(cblist)
    /\ SetTop(t, [Top(t) EXCEPT !.phase = "body"])
    /\ UNCHANGED <<owner, depth, cblist, leaked, edited>>

\* Mutant: the loop of __exit__ goes on where the loop of __enter__ stopped.
LeaveBodyNoReset(t) ==
    /\ At(t, "body")
    /\ SetTop(t, [Top(t) EXCEPT !.phase = "rel"])
    /\ UNCHANGED <<owner, depth, cblist, leaked, edited>>

\* The C function returns, or ctypes raises: __exit__ starts either way.
LeaveBody(t) ==
    /\ At(t, "body")
    /\ SetTop(t, [phase |-> "rel", idx |-> 1, cb |-> NoCallback,
                  acqs |-> Top(t).acqs, rels |-> Top(t).rels])
    /\ UNCHANGED <<owner, depth, cblist, leaked, edited>>

\* __exit__: one iteration of its loop.
CallRel(t) ==
    /\ At(t, "rel")
    /\ Top(t).idx <= Len(cblist)
    /\ LET f == Top(t)
           cb == cblist[f.idx]
       IN  SetTop(t, [phase |-> "rel", idx |-> f.idx + 1, cb |-> cb,
                      acqs |-> f.acqs, rels |-> Append(f.rels, cb)])
    /\ UNCHANGED <<owner, depth, cblist, leaked, edited>>

CallbackReturns(t) ==
    /\ InCallback(t)
    /\ SetTop(t, [Top(t) EXCEPT !.cb = NoCallback])
    /\ UNCHANGED <<owner, depth, cblist, leaked, edited>>

\* Mutant: a handler frees the lock, however often the thread has taken it.
CallbackRaisesFrees(t) ==
    /\ InCallback(t)
    /\ owner' = NoThread
    /\ depth' = 0
    /\ Pop(t)
    /\ leaked' = leaked + 1
    /\ UNCHANGED <<cblist, edited>>

\* An acq_fn or rel_fn raises: the exception leaves __enter__ (then "with"
\* never calls __exit__) or __exit__ (before release()), and the call.
CallbackRaises(t) ==
    /\ InCallback(t)
    /\ Pop(t)
    /\ leaked' = leaked + 1
    /\ UNCHANGED <<owner, depth, cblist, edited>>

\* Mutants: a lock that is not re-entrant; a release that is skipped in nested
\* calls; one that is done twice; one that never frees the lock.
ReleaseNotCounting(t) ==
    /\ At(t, "rel")
    /\ Top(t).idx > Len(cblist)
    /\ depth' = depth - 1
    /\ owner' = NoThread
    /\ Pop(t)
    /\ UNCHANGED <<cblist, leaked, edited>>

ReleaseOutermostOnly(t) ==
    /\ At(t, "rel")
    /\ Top(t).idx > Len(cblist)
    /\ IF Len(stack[t]) > 1 THEN UNCHANGED <<owner, depth>>
                             ELSE depth' = 0 /\ owner' = NoThread
    /\ Pop(t)
    /\ UNCHANGED <<cblist, leaked, edited>>

ReleaseNever(t) ==
    /\ At(t, "rel")
    /\ Top(t).idx > Len(cblist)
    /\ Pop(t)
    /\ UNCHANGED <<owner, depth, cblist, leaked, edited>>

\* __exit__: self._lock.release(), and the call returns.
Release(t) ==
    /\ At(t, "rel")
    /\ Top(t).idx > Len(cblist)
    /\ depth' = depth - 1
    /\ owner' = IF depth = 1 THEN NoThread ELSE owner
    /\ Pop(t)
    /\ UNCHANGED <<cblist, leaked, edited>>

\* Python code of thread t changes _cblist: without the lock, so at any time.
EditList(t) ==
    /\ InPython(t)
    /\ edited' = {u \in Threads : InCall(u)}
    /\ UNCHANGED <<owner, depth, stack, leaked>>

\* register_lock_callback
Register(t) ==
    /\ EditList(t)
    /\ Len(cblist) < MaxRegistered
    /\ \E cb \in Callbacks : cblist' = Append(cblist, cb)

\* unregister_lock_callback: the first occurrence goes; list.remove raises
\* ValueError, and changes nothing, when the pair is not registered.
Unregister(t) ==
    /\ EditList(t)
    /\ \E i \in 1..Len(cblist) :
          /\ \A j \in 1..(i - 1) : cblist[j] # cblist[i]
          /\ cblist' = RemoveAt(cblist, i)

Step(t) ==
    \/ Call(t) \/ Acquire(t) \/ CallAcq(t) \/ EnterBody(t)
    \/ LeaveBody(t) \/ CallRel(t) \/ CallbackReturns(t) \/ CallbackRaises(t)
    \/ Release(t) \/ Register(t) \/ Unregister(t)

Next == \E t \in Threads : Step(t)

Spec == Init /\ [][Next]_vars

(***************************************************************************)
(* A thread inside the lock's own code goes on (WF): its next step stays   *)
(* possible until it takes it, though an edit of the list may change which *)
(* one it is.  Acquiring is such a step for the holder only: it never      *)
(* blocks the holder, while threading.RLock has no queue for the others.   *)
(* A callback and a C function are interrupted by the calls they make, so  *)
(* that they end is SF, for each nesting level.  Nothing is assumed of the *)
(* callers.                                                                *)
(***************************************************************************)
InLockCode(t) ==
    \/ CallAcq(t) \/ EnterBody(t) \/ CallRel(t) \/ Release(t)
    \/ owner = t /\ Acquire(t)

Fairness ==
    \A t \in Threads :
        /\ WF_vars(InLockCode(t))
        /\ \A n \in 1..MaxNesting :
              SF_vars(Len(stack[t]) = n /\ (CallbackReturns(t) \/ LeaveBody(t)))

FairSpec == Spec /\ Fairness

-----------------------------------------------------------------------------
(* Properties *)

TypeOK ==
    /\ owner \in Threads \cup {NoThread}
    /\ depth \in Nat
    /\ cblist \in Seq(Callbacks)
    /\ stack \in [Threads -> Seq(Frame)]
    /\ leaked \in Nat
    /\ edited \subseteq Threads

\* "Only one thread may access it at a time" (_lib_wrapper): when a call of t
\* is in the library or in a lock callback, every other thread is outside or
\* waiting for its outermost call, whatever the callbacks do or raise.
MutualExclusion ==
    \A t, u \in Threads : HeldCalls(t) > 0 /\ HeldCalls(u) > 0 => t = u

\* The RLock's count is the calls of its owner that rely on it and those that
\* an acq_fn or rel_fn ended by raising, of which each leaks one acquire.  So
\* no release, in whatever order calls nest and fail, frees the lock under a
\* call in progress, and without raising callbacks a thread that has no call in
\* progress does not keep the lock.
DepthIsExact ==
    /\ owner = NoThread <=> depth = 0
    /\ owner = NoThread => leaked = 0
    /\ \A t \in Threads : /\ HeldCalls(t) > 0 => owner = t
                          /\ owner = t => depth = HeldCalls(t) + leaked

\* The documented pairing (_LLVMLock.register): a call that releases the lock
\* calls the rel_fn of the pairs whose acq_fn it has called, in that order...
RelFollowsAcq(t) ==
    At(t, "rel") => /\ IsPrefix(Top(t).rels, Top(t).acqs)
                    /\ Top(t).idx > Len(cblist) => Top(t).rels = Top(t).acqs

\* ...as long as no thread, and no callback, registers or removes a pair during
\* the call.
AcqRelPaired == \A t \in Threads \ edited : RelFollowsAcq(t)

\* The lock is never kept for ever, if callbacks and C functions end, unless a
\* callback raises.
LockIsFreed == (owner # NoThread) ~> (owner = NoThread \/ leaked > 0)
=============================================================================
