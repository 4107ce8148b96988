------------------------------- MODULE OrcJIT -------------------------------
(***************************************************************************)
(* llvmlite/binding/orcjit.py and ffi/orcjit.cpp: one LLJIT, the dynamic   *)
(* libraries linked into it, and the ResourceTrackers Python holds.        *)
(*                                                                         *)
(* The native JIT is shared (std::shared_ptr) by the LLJIT handle and by   *)
(* every tracker, and goes with the last of them.  Each tracker stands for *)
(* a whole library: when it is disposed of, JITDylib::clear() unloads the  *)
(* library.  A library is                                                  *)
(*   absent   its name is free                                             *)
(*   loaded   its link succeeded                                           *)
(*   partial  its link failed after createJITDylib; code may be in it      *)
(*   cleared  unloaded; the (empty) JITDylib keeps the name                *)
(***************************************************************************)
EXTENDS Integers, FiniteSets

CONSTANTS
    Names,         \* names of libraries
    Trackers,      \* ResourceTracker objects
    NoLibrary      \* what an unused tracker stands for

ASSUME OrcAssumption ==
    /\ NoLibrary \notin Names
    /\ IsFiniteSet(Trackers)

VARIABLES
    handle,    \* the LLJIT wrapper: "none", "open" or "closed"
    td,        \* its TargetData wrapper: "none", "open" or "closed"
    shares,    \* the use count of the shared_ptr to the native LLJIT
    state,     \* state[n]: the library named n
    linkOrder, \* linkOrder[n]: the libraries n was linked against
    library    \* library[t]: the library of tracker t

vars == <<handle, td, shares, state, linkOrder, library>>

LibraryStates == {"absent", "loaded", "partial", "cleared"}
InMemory == {n \in Names : state[n] \in {"loaded", "partial"}}
Known == {n \in Names : state[n] # "absent"}
Tracking(n) == {t \in Trackers : library[t] = n}
Held == {t \in Trackers : library[t] # NoLibrary}

\* One owner of the native JIT goes; the last one destroys it.
Release ==
    /\ shares' = shares - 1
    /\ IF shares = 1
       THEN /\ state' = [n \in Names |-> "absent"]
            /\ linkOrder' = [n \in Names |-> {}]
       ELSE UNCHANGED linkOrder

-----------------------------------------------------------------------------
Init ==
    /\ handle = "none"
    /\ td = "none"
    /\ shares = 0
    /\ state = [n \in Names |-> "absent"]
    /\ linkOrder = [n \in Names |-> {}]
    /\ library = [t \in Trackers |-> NoLibrary]

\* create_lljit_compiler, once the last native JIT is gone.
Create ==
    /\ handle # "open"
    /\ shares = 0
    /\ handle' = "open"
    /\ td' = "none"
    /\ shares' = 1
    /\ UNCHANGED <<state, linkOrder, library>>

\* Mutant: the tracker has a plain pointer to the native JIT.
TrackUnshared(t, n) ==
    /\ library[t] = NoLibrary
    /\ library' = [library EXCEPT ![t] = n]
    /\ UNCHANGED shares

\* A tracker for library n (new JITDylibTracker, ResourceTracker.__init__).
Track(t, n) ==
    /\ library[t] = NoLibrary
    /\ library' = [library EXCEPT ![t] = n]
    /\ shares' = shares + 1

\* JITLibraryBuilder.link succeeds: every prerequisite is found by its name,
\* and has the symbols that the exports need.  (A cleared prerequisite that
\* nothing is needed from makes no difference, and is left out of D.)
Link(t, n, D) ==
    /\ handle = "open"
    /\ state[n] = "absent"
    /\ D \subseteq InMemory
    /\ Track(t, n)
    /\ state' = [state EXCEPT ![n] = "loaded"]
    /\ linkOrder' = [linkOrder EXCEPT ![n] = D]
    /\ UNCHANGED <<handle, td>>

\* LLVMPY_LLJIT_Link returns NULL once the JITDylib exists: an import, unit or
\* prerequisite in error, a failed initializer, or an export not found.
LinkFails(n, D) ==
    /\ handle = "open"
    /\ state[n] = "absent"
    /\ D \subseteq Known
    /\ state' = [state EXCEPT ![n] = "partial"]
    /\ linkOrder' = [linkOrder EXCEPT ![n] = D]
    /\ UNCHANGED <<handle, td, shares, library>>

\* LLJIT.lookup finds the function.
Lookup(t, n) ==
    /\ handle = "open"
    /\ n \in InMemory
    /\ Track(t, n)
    /\ UNCHANGED <<handle, td, state, linkOrder>>

\* Mutants: the tracker is not deleted; the library is not cleared; it is
\* removed from the session.
DisposeKeepsShare(t) ==
    /\ t \in Held
    /\ library' = [library EXCEPT ![t] = NoLibrary]
    /\ state' = [state EXCEPT ![library[t]] = "cleared"]
    /\ UNCHANGED <<handle, td, shares, linkOrder>>

DisposeNoClear(t) ==
    /\ t \in Held
    /\ library' = [library EXCEPT ![t] = NoLibrary]
    /\ Release
    /\ shares > 1 => UNCHANGED state
    /\ UNCHANGED <<handle, td>>

DisposeRemoves(t) ==
    /\ t \in Held
    /\ library' = [library EXCEPT ![t] = NoLibrary]
    /\ Release
    /\ shares > 1 => state' = [state EXCEPT ![library[t]] = "absent"]
    /\ UNCHANGED <<handle, td>>

\* ResourceTracker.close, or __del__ when the last reference is dropped.
Dispose(t) ==
    /\ t \in Held
    /\ library' = [library EXCEPT ![t] = NoLibrary]
    /\ Release
    /\ shares > 1 => state' = [state EXCEPT ![library[t]] = "cleared"]
    /\ UNCHANGED <<handle, td>>

\* LLJIT.target_data
TargetData ==
    /\ handle = "open"
    /\ td' = "open"
    /\ UNCHANGED <<handle, shares, state, linkOrder, library>>

\* LLJIT.close, or __del__.
Close ==
    /\ handle = "open"
    /\ handle' = "closed"
    /\ td' = IF td = "open" THEN "closed" ELSE td
    /\ Release
    /\ shares > 1 => UNCHANGED state
    /\ UNCHANGED library

Next ==
    \/ Create \/ TargetData \/ Close
    \/ \E t \in Trackers, n \in Names : Lookup(t, n)
    \/ \E t \in Trackers, n \in Names, D \in SUBSET Names : Link(t, n, D)
    \/ \E n \in Names, D \in SUBSET Names : LinkFails(n, D)
    \/ \E t \in Trackers : Dispose(t)

Spec == Init /\ [][Next]_vars

-----------------------------------------------------------------------------
(* Properties *)

TypeOK ==
    /\ handle \in {"none", "open", "closed"}
    /\ td \in {"none", "open", "closed"}
    /\ shares \in Nat
    /\ state \in [Names -> LibraryStates]
    /\ linkOrder \in [Names -> SUBSET Names]
    /\ library \in [Trackers -> Names \cup {NoLibrary}]

\* The native JIT lives exactly as long as the handle or a tracker needs it,
\* and the libraries and the data layout no longer than it.
JITIsShared ==
    /\ shares = Cardinality(Held) + (IF handle = "open" THEN 1 ELSE 0)
    /\ Known # {} \/ td = "open" => shares > 0

\* A loaded library is unloaded by the disposal of one of its own trackers, and
\* by nothing else: no failing link, no other library's tracker, no closed LLJIT.
UnloadedByItsTracker ==
    [][\A n \in Names :
          state[n] = "loaded" /\ state'[n] # "loaded" =>
              \E t \in Tracking(n) : library'[t] = NoLibrary]_vars

\* "As long as the resource tracker is referenced somewhere in Python, the
\* exported addresses will be valid" (JITLibraryBuilder).
TrackedIsLoaded == \A t \in Held : library[t] \in InMemory

\* "LLVM internally tracks references between different libraries, so only
\* 'leaf' libraries need to be tracked" (ResourceTracker).
PrerequisitesLoaded ==
    \A n \in Names : state[n] = "loaded" => linkOrder[n] \subseteq InMemory

\* "Once the resource tracker is garbage collected, [the] library will be
\* unloaded": a library whose link succeeded is never left without a tracker.
LoadedIsTracked ==
    \A n \in Names : state[n] = "loaded" => Tracking(n) # {}

\* "The name of the library cannot be reused" (JITLibraryBuilder.link), and an
\* unloaded library never comes back, until the JIT itself is destroyed.
NamesAreSpent ==
    [][\A n \in Names :
          shares' > 0 => /\ state[n] # "absent" => state'[n] # "absent"
                         /\ state[n] = "cleared" => state'[n] = "cleared"]_vars
=============================================================================
