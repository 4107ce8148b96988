---------------------------- MODULE OrcJITProofs ----------------------------
(***************************************************************************)
(* Proofs about OrcJIT for any finite number of trackers and any set of    *)
(* library names: the native JIT is destroyed exactly when its last owner  *)
(* goes, a linked library is never left without a tracker and is unloaded  *)
(* by one of its own only, and names are spent.                            *)
(***************************************************************************)
EXTENDS OrcJIT, FiniteSetTheorems, TLAPS

\* The data layout is that of a JIT whose handle is open.
LayoutNeedsHandle == td = "open" => handle = "open"

\* What every step preserves.  LayoutNeedsHandle is the strengthening: without
\* it, the last tracker could take the native JIT from under an open TargetData.
Inv ==
    /\ TypeOK
    /\ LayoutNeedsHandle
    /\ JITIsShared
    /\ LoadedIsTracked

\* The trackers in use are finitely many, and their number is a natural.
LEMMA HeldIsFinite == IsFiniteSet(Held) /\ Cardinality(Held) \in Nat
<1>1. Held \in SUBSET Trackers
  BY DEF Held
<1>2. IsFiniteSet(Held)
  BY <1>1, FS_Subset, OrcAssumption
<1>. QED
  BY <1>2, FS_CardinalityType

\* A new tracker (LLVMPY_LLJIT_Link, LLVMPY_LLJITLookup) adds one to those in use.
LEMMA TrackAddsOne ==
    ASSUME TypeOK, NEW t \in Trackers, NEW n \in Names, Track(t, n)
    PROVE  /\ Held' = Held \cup {t}
           /\ Cardinality(Held') = Cardinality(Held) + 1
<1>1. library[t] = NoLibrary /\ library' = [library EXCEPT ![t] = n]
  BY DEF Track
<1>2. Held' = Held \cup {t} /\ t \notin Held
  BY <1>1, OrcAssumption DEF Held, TypeOK
<1>. QED
  BY <1>2, HeldIsFinite, FS_AddElement

\* Disposing of a tracker (LLVMPY_LLJIT_Dylib_Tracker_Dispose) leaves the others.
LEMMA DisposeRemovesOne ==
    ASSUME TypeOK, NEW t \in Held, library' = [library EXCEPT ![t] = NoLibrary]
    PROVE  /\ Held' = Held \ {t}
           /\ Cardinality(Held') = Cardinality(Held) - 1
<1>1. Held' = Held \ {t}
  BY DEF Held, TypeOK
<1>. QED
  BY <1>1, HeldIsFinite, FS_RemoveElement

\* The last owner is the handle alone or one tracker alone.
LEMMA LastOwner ==
    ASSUME TypeOK, JITIsShared, shares = 1
    PROVE  /\ handle = "open" => Held = {}
           /\ \A t \in Held : handle # "open" /\ Held = {t}
<1>1. Cardinality(Held) = 1 - (IF handle = "open" THEN 1 ELSE 0)
  BY HeldIsFinite DEF JITIsShared
<1>2. CASE handle = "open"
  <2>1. Cardinality(Held) = 0
    BY <1>1, <1>2
  <2>. QED
    BY <2>1, HeldIsFinite, FS_EmptySet
<1>3. CASE handle # "open"
  <2>1. Cardinality(Held) = 1
    BY <1>1, <1>3
  <2>2. PICK x : Held = {x}
    BY <2>1, HeldIsFinite, FS_Singleton
  <2>. QED
    BY <1>3, <2>2
<1>. QED
  BY <1>2, <1>3

-----------------------------------------------------------------------------
\* Types are preserved by every step.
LEMMA TypePreserved ==
    ASSUME TypeOK, JITIsShared, [Next]_vars
    PROVE  TypeOK'
<1>. USE DEF TypeOK, Known, LibraryStates, Track
<1>1. CASE Create
  BY <1>1 DEF Create
<1>2. CASE TargetData
  BY <1>2 DEF TargetData
<1>3. CASE Close
  <2>1. shares \in Nat \ {0}
    BY <1>3, HeldIsFinite DEF JITIsShared, Close
  <2>. QED
    BY <1>3, <2>1 DEF Close, Release
<1>4. ASSUME NEW t \in Trackers, NEW n \in Names, Lookup(t, n)
      PROVE  TypeOK'
  BY <1>4 DEF Lookup
<1>5. ASSUME NEW t \in Trackers, NEW n \in Names, NEW D \in SUBSET Names,
             Link(t, n, D)
      PROVE  TypeOK'
  BY <1>5 DEF Link
<1>6. ASSUME NEW n \in Names, NEW D \in SUBSET Names, LinkFails(n, D)
      PROVE  TypeOK'
  BY <1>6 DEF LinkFails
<1>7. ASSUME NEW t \in Trackers, Dispose(t)
      PROVE  TypeOK'
  <2>1. t \in Held /\ library[t] \in Names
    BY <1>7 DEF Dispose, Held
  <2>2. Cardinality(Held) # 0
    BY <2>1, HeldIsFinite, FS_EmptySet
  <2>3. shares \in Nat \ {0}
    BY <2>2, HeldIsFinite DEF JITIsShared
  <2>4. CASE shares = 1
    BY <1>7, <2>1, <2>4 DEF Dispose, Release
  <2>5. CASE shares > 1
    BY <1>7, <2>1, <2>5 DEF Dispose, Release
  <2>. QED
    BY <2>3, <2>4, <2>5
<1>8. CASE UNCHANGED vars
  BY <1>8 DEF vars
<1>. QED
  BY <1>1, <1>2, <1>3, <1>4, <1>5, <1>6, <1>7, <1>8 DEF Next

\* An open TargetData goes with the handle, in LLJIT.close.
LEMMA LayoutPreserved ==
    ASSUME TypeOK, LayoutNeedsHandle, [Next]_vars
    PROVE  LayoutNeedsHandle'
BY DEF LayoutNeedsHandle, TypeOK, Next, vars, Create, TargetData, Close, Lookup,
       Link, LinkFails, Dispose

\* The use count follows the handle and the trackers, and what is destroyed
\* with the native JIT (its libraries, its data layout) is gone at zero.
LEMMA SharedPreserved ==
    ASSUME TypeOK, LayoutNeedsHandle, JITIsShared, [Next]_vars
    PROVE  JITIsShared'
<1>. USE DEF JITIsShared
<1>1. CASE Create
  <2>1. Held' = Held /\ Known' = Known
    BY <1>1 DEF Create, Held, Known
  <2>. QED
    BY <1>1, <2>1, HeldIsFinite DEF Create
<1>2. CASE TargetData
  <2>1. Held' = Held /\ Known' = Known
    BY <1>2 DEF TargetData, Held, Known
  <2>. QED
    BY <1>2, <2>1, HeldIsFinite DEF TargetData
<1>3. CASE Close
  <2>1. Held' = Held
    BY <1>3 DEF Close, Held
  <2>2. shares' = Cardinality(Held') /\ handle' # "open" /\ td' # "open"
    BY <1>3, <2>1, HeldIsFinite DEF Close, Release, TypeOK
  <2>3. shares' = 0 => Known' = {}
    BY <1>3 DEF Close, Release, Known, TypeOK
  <2>. QED
    BY <2>1, <2>2, <2>3, HeldIsFinite
<1>4. ASSUME NEW t \in Trackers, NEW n \in Names, Lookup(t, n)
      PROVE  JITIsShared'
  <2>1. Cardinality(Held') = Cardinality(Held) + 1
    BY <1>4, TrackAddsOne DEF Lookup
  <2>. QED
    BY <1>4, <2>1, HeldIsFinite DEF Lookup, Track
<1>5. ASSUME NEW t \in Trackers, NEW n \in Names, NEW D \in SUBSET Names,
             Link(t, n, D)
      PROVE  JITIsShared'
  <2>1. Cardinality(Held') = Cardinality(Held) + 1
    BY <1>5, TrackAddsOne DEF Link
  <2>. QED
    BY <1>5, <2>1, HeldIsFinite DEF Link, Track
<1>6. ASSUME NEW n \in Names, NEW D \in SUBSET Names, LinkFails(n, D)
      PROVE  JITIsShared'
  <2>1. Held' = Held
    BY <1>6 DEF LinkFails, Held
  <2>. QED
    BY <1>6, <2>1, HeldIsFinite DEF LinkFails
<1>7. ASSUME NEW t \in Trackers, Dispose(t)
      PROVE  JITIsShared'
  <2>1. /\ t \in Held
        /\ library' = [library EXCEPT ![t] = NoLibrary]
        /\ shares' = shares - 1
        /\ handle' = handle /\ td' = td
    BY <1>7 DEF Dispose, Release
  <2>2. Cardinality(Held') = Cardinality(Held) - 1
    BY <2>1, DisposeRemovesOne
  <2>3. shares' = 0 => Known' = {} /\ handle # "open"
    <3>1. SUFFICES ASSUME shares' = 0
                   PROVE  Known' = {} /\ handle # "open"
      OBVIOUS
    <3>2. shares = 1
      BY <2>1, <3>1 DEF TypeOK
    <3>3. Known' = {}
      BY <1>7, <3>2 DEF Dispose, Release, Known
    <3>. QED
      BY <2>1, <3>2, <3>3, LastOwner
  <2>4. shares' \in Nat
    BY TypePreserved DEF TypeOK
  <2>. QED
    BY <2>1, <2>2, <2>3, <2>4, HeldIsFinite DEF LayoutNeedsHandle, TypeOK
<1>8. CASE UNCHANGED vars
  <2>1. Held' = Held /\ Known' = Known /\ shares' = shares /\ handle' = handle /\ td' = td
    BY <1>8 DEF vars, Held, Known
  <2>. QED
    BY <2>1
<1>. QED
  BY <1>1, <1>2, <1>3, <1>4, <1>5, <1>6, <1>7, <1>8 DEF Next

\* A library leaves the state "loaded" with the first of its trackers, and gets
\* there only together with a tracker.
LEMMA LoadedPreserved ==
    ASSUME TypeOK, JITIsShared, LoadedIsTracked, [Next]_vars
    PROVE  LoadedIsTracked'
<1>1. SUFFICES ASSUME NEW m \in Names, state'[m] = "loaded"
               PROVE  \E s \in Trackers : library'[s] = m
  BY DEF LoadedIsTracked, Tracking
<1>2. state[m] = "loaded" => \E s \in Trackers : library[s] = m
  BY DEF LoadedIsTracked, Tracking
<1>. USE DEF TypeOK
<1>3. CASE Create \/ TargetData \/ UNCHANGED vars
  BY <1>1, <1>2, <1>3 DEF Create, TargetData, vars
<1>4. CASE Close
  BY <1>1, <1>2, <1>4, HeldIsFinite DEF Close, Release, JITIsShared
<1>5. ASSUME NEW t \in Trackers, NEW n \in Names, Lookup(t, n)
      PROVE  \E s \in Trackers : library'[s] = m
  <2>1. library[t] = NoLibrary /\ library' = [library EXCEPT ![t] = n]
        /\ state' = state
    BY <1>5 DEF Lookup, Track
  <2>. QED
    BY <1>1, <1>2, <2>1, OrcAssumption
<1>6. ASSUME NEW t \in Trackers, NEW n \in Names, NEW D \in SUBSET Names,
             Link(t, n, D)
      PROVE  \E s \in Trackers : library'[s] = m
  <2>1. library[t] = NoLibrary /\ library' = [library EXCEPT ![t] = n]
        /\ state' = [state EXCEPT ![n] = "loaded"]
    BY <1>6 DEF Link, Track
  <2>. QED
    BY <1>1, <1>2, <2>1, OrcAssumption
<1>7. ASSUME NEW n \in Names, NEW D \in SUBSET Names, LinkFails(n, D)
      PROVE  \E s \in Trackers : library'[s] = m
  BY <1>1, <1>2, <1>7 DEF LinkFails
<1>8. ASSUME NEW t \in Trackers, Dispose(t)
      PROVE  \E s \in Trackers : library'[s] = m
  <2>1. /\ t \in Held
        /\ library' = [library EXCEPT ![t] = NoLibrary]
    BY <1>8 DEF Dispose
  <2>2. shares # 0
    BY <2>1, HeldIsFinite, FS_EmptySet DEF JITIsShared
  <2>3. shares # 1
    BY <1>1, <1>8 DEF Dispose, Release
  <2>4. state' = [state EXCEPT ![library[t]] = "cleared"]
    BY <1>8, <2>2, <2>3 DEF Dispose, Release
  <2>. QED
    BY <1>1, <1>2, <2>1, <2>4
<1>. QED
  BY <1>3, <1>4, <1>5, <1>6, <1>7, <1>8 DEF Next

-----------------------------------------------------------------------------
\* The inductive invariant holds before the first LLJIT is made, and is kept by
\* every call and every finalizer of the module.
THEOREM OrcInvariant == Spec => []Inv
<1>1. Init => Inv
  <2>. SUFFICES ASSUME Init PROVE Inv
    OBVIOUS
  <2>1. TypeOK /\ LayoutNeedsHandle
    BY DEF Init, TypeOK, LayoutNeedsHandle, Known, LibraryStates
  <2>2. Held = {} /\ Known = {}
    BY DEF Init, Held, Known
  <2>3. JITIsShared
    BY <2>2, FS_EmptySet DEF Init, JITIsShared
  <2>4. LoadedIsTracked
    BY DEF Init, LoadedIsTracked
  <2>. QED
    BY <2>1, <2>3, <2>4 DEF Inv
<1>2. Inv /\ [Next]_vars => Inv'
  BY TypePreserved, LayoutPreserved, SharedPreserved, LoadedPreserved DEF Inv
<1>. QED
  BY <1>1, <1>2, PTL DEF Spec

\* The native JIT lives exactly as long as the LLJIT handle or some tracker: its
\* use count is their number, so neither a dangling nor a leaked JIT.
THEOREM OwnersAreCounted == Spec => []JITIsShared
<1>1. Inv => JITIsShared
  BY DEF Inv
<1>. QED
  BY <1>1, OrcInvariant, PTL

\* No loaded library is out of every tracker's reach, so each is unloaded at last.
THEOREM NoLibraryAbandoned == Spec => []LoadedIsTracked
<1>1. Inv => LoadedIsTracked
  BY DEF Inv
<1>. QED
  BY <1>1, OrcInvariant, PTL

\* While the native JIT lives, a name once used stays used and an unloaded
\* library stays unloaded: link refuses the name ever after.
THEOREM NamesNeverReused == Spec => NamesAreSpent
<1>. DEFINE Kept == \A n \in Names :
              shares' > 0 => /\ state[n] # "absent" => state'[n] # "absent"
                             /\ state[n] = "cleared" => state'[n] = "cleared"
<1>1. ASSUME TypeOK, JITIsShared, Next
      PROVE  Kept
  <2>1. CASE Create \/ TargetData
    BY <2>1 DEF Create, TargetData
  <2>2. CASE Close
    <3>1. shares' > 0 => shares > 1
      BY <1>1, <2>2 DEF Close, Release, TypeOK
    <3>2. shares > 1 => state' = state
      BY <2>2 DEF Close
    <3>. QED
      BY <3>1, <3>2
  <2>3. ASSUME NEW t \in Trackers, NEW n \in Names, Lookup(t, n)
        PROVE  Kept
    BY <2>3 DEF Lookup
  <2>4. ASSUME NEW t \in Trackers, NEW n \in Names, NEW D \in SUBSET Names,
               Link(t, n, D)
        PROVE  Kept
    BY <1>1, <2>4 DEF Link, TypeOK
  <2>5. ASSUME NEW n \in Names, NEW D \in SUBSET Names, LinkFails(n, D)
        PROVE  Kept
    BY <1>1, <2>5 DEF LinkFails, TypeOK
  <2>6. ASSUME NEW t \in Trackers, Dispose(t)
        PROVE  Kept
    <3>1. shares' > 0 => shares > 1
      BY <1>1, <2>6 DEF Dispose, Release, TypeOK
    <3>2. shares > 1 => state' = [state EXCEPT ![library[t]] = "cleared"]
      BY <2>6 DEF Dispose
    <3>. QED
      BY <1>1, <3>1, <3>2 DEF TypeOK
  <2>. QED
    BY <1>1, <2>1, <2>2, <2>3, <2>4, <2>5, <2>6 DEF Next
<1>2. Inv /\ [Next]_vars => [Kept]_vars
  BY <1>1 DEF Inv
<1>. QED
  BY <1>2, OrcInvariant, PTL DEF Spec, NamesAreSpent

\* A loaded library stays in memory until one of its own trackers is disposed of,
\* whoever else goes: the native JIT cannot be destroyed before.
THEOREM LibrariesOutliveOthers == Spec => UnloadedByItsTracker
<1>. DEFINE Own == \A n \in Names :
              state[n] = "loaded" /\ state'[n] # "loaded" =>
                  \E t \in Tracking(n) : library'[t] = NoLibrary
<1>1. ASSUME Inv, Next
      PROVE  Own
  <2>. SUFFICES ASSUME NEW n \in Names, state[n] = "loaded", state'[n] # "loaded"
                PROVE  \E t \in Tracking(n) : library'[t] = NoLibrary
    OBVIOUS
  <2>1. PICK s \in Trackers : library[s] = n
    BY <1>1 DEF Inv, LoadedIsTracked, Tracking
  <2>2. s \in Held /\ s \in Tracking(n)
    BY <2>1, OrcAssumption DEF Held, Tracking
  <2>3. shares \in Nat /\ shares # 0
    BY <1>1, <2>2, HeldIsFinite, FS_EmptySet DEF Inv, JITIsShared, TypeOK
  <2>4. ~(Create \/ TargetData) /\ \A t \in Trackers, m \in Names : ~Lookup(t, m)
    BY DEF Create, TargetData, Lookup
  <2>5. \A t \in Trackers, m \in Names, D \in SUBSET Names : ~Link(t, m, D)
    BY <1>1 DEF Link, Inv, TypeOK
  <2>6. \A m \in Names, D \in SUBSET Names : ~LinkFails(m, D)
    BY <1>1 DEF LinkFails, Inv, TypeOK
  <2>7. ~Close
    <3>. SUFFICES ASSUME Close PROVE FALSE
      OBVIOUS
    <3>1. shares # 1
      BY <1>1, <2>2, LastOwner DEF Close, Inv
    <3>. QED
      BY <2>3, <3>1 DEF Close
  <2>8. PICK t \in Trackers : Dispose(t)
    BY <1>1, <2>4, <2>5, <2>6, <2>7 DEF Next
  <2>9. t \in Held /\ library' = [library EXCEPT ![t] = NoLibrary]
    BY <2>8 DEF Dispose
  <2>10. library'[t] = NoLibrary
    BY <1>1, <2>9 DEF Inv, TypeOK
  <2>11. library[t] = n
    <3>1. CASE shares = 1
      <4>1. s = t
        BY <1>1, <2>2, <2>9, <3>1, LastOwner DEF Inv
      <4>. QED
        BY <2>1, <4>1
    <3>2. CASE shares # 1
      <4>1. state' = [state EXCEPT ![library[t]] = "cleared"]
        BY <2>3, <2>8, <3>2 DEF Dispose
      <4>. QED
        BY <1>1, <4>1 DEF Inv, TypeOK
    <3>. QED
      BY <3>1, <3>2
  <2>. QED
    BY <2>10, <2>11 DEF Tracking
<1>2. Inv /\ [Next]_vars => [Own]_vars
  BY <1>1
<1>. QED
  BY <1>2, OrcInvariant, PTL DEF Spec, UnloadedByItsTracker
=============================================================================
