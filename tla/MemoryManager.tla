--------------------------- MODULE MemoryManager ---------------------------
(***************************************************************************)
(* The memory manager of MCJIT, ffi/memorymanager.cpp.  Its caller is      *)
(* LLVM's RuntimeDyld: for each object it loads it announces the total     *)
(* size of the sections of each group (reserveAllocationSpace), asks for   *)
(* the sections one by one (allocateCodeSection, allocateDataSection) and  *)
(* writes to them until finalizeMemory has given their pages the           *)
(* permissions of the group.  All of it happens under the library lock.    *)
(*                                                                         *)
(* Addresses are numbers; a block of memory is a base and a size.  The     *)
(* mapper returns writable pages that are not mapped yet, the next ones:   *)
(* which they are makes no difference as long as no alignment exceeds a    *)
(* page.  It does not run out of memory (the code asserts that).           *)
(***************************************************************************)
EXTENDS Integers, SequencesExt

CONSTANTS
    PageSize,    \* sys::Process::getPageSizeEstimate()
    StubAlign,   \* the least alignment of a reservation
    Requests,    \* the objects: for each group its sections, in order
    MaxLoads     \* bound: objects that are loaded

Groups == {"Code", "ROData", "RWData"}

\* A request of a section: its size, and its alignment (0: not given).
SectionRequest == [size : Nat \ {0}, align : Nat]

ASSUME MemoryAssumption ==
    /\ PageSize \in Nat \ {0}
    /\ StubAlign \in 1..PageSize
    /\ Requests \subseteq [Groups -> Seq(SectionRequest)]
    /\ MaxLoads \in Nat

VARIABLES
    FreeMem,       \* FreeMem[g]: what is left of the reservations of group g
    PendingMem,    \* PendingMem[g]: given out, permissions not applied yet
    AllocatedMem,  \* the mappings (CodeMem owns those of all groups)
    perm,          \* the permissions of every mapped page
    todo,          \* todo[g]: the sections RuntimeDyld has yet to ask for
    loads,         \* the objects loaded so far
    sections,      \* (history) the sections given out
    finalized,     \* (history) how many of them a finalizeMemory has followed
    failed         \* (history) a finalizeMemory has returned true

vars == <<FreeMem, PendingMem, AllocatedMem, perm, todo, loads, sections,
          finalized, failed>>

Block == [base : Nat, size : Nat]
FreeMemBlock == [base : Nat, size : Nat, pendingPrefix : Nat]  \* 0: none
Section == [group : Groups, base : Nat, size : Nat, load : Nat]

-----------------------------------------------------------------------------
(* Blocks, pages and alignment *)

alignTo(n, align) == ((n + align - 1) \div align) * align

End(b) == b.base + b.size

Pages(b) == IF b.size = 0 THEN {}
            ELSE (b.base \div PageSize)..((End(b) - 1) \div PageSize)

Inside(a, b) == b.base <= a.base /\ End(a) <= End(b)
Overlap(a, b) == a.base < End(b) /\ b.base < End(a)

AlignmentOf(s) == IF s.align = 0 THEN StubAlign ELSE s.align

\* allocateSection: the space a block must have to be used for s.
RequiredSize(s) ==
    AlignmentOf(s) * ((s.size + AlignmentOf(s) - 1) \div AlignmentOf(s) + 1)

\* What RuntimeDyld announces: the greatest alignment of the group's sections,
\* and their sizes, each rounded up to it.
AnnouncedAlign(ss) == Max({1} \cup {AlignmentOf(ss[i]) : i \in DOMAIN ss})
AnnouncedSize(ss) ==
    LET align == AnnouncedAlign(ss)
        total[i \in 0..Len(ss)] ==
            IF i = 0 THEN 0 ELSE total[i - 1] + alignTo(ss[i].size, align)
    IN  total[Len(ss)]

\* Mutant: no room for the first section's alignment.
ReservedSizeExact(ss) ==
    alignTo(AnnouncedSize(ss), Max({AnnouncedAlign(ss), StubAlign}))

\* reserveAllocationSpace: "the same calculation as allocateSection".
ReservedSize(ss) ==
    LET align == Max({AnnouncedAlign(ss), StubAlign})
    IN  alignTo(AnnouncedSize(ss), align) + align

hasSpace(g, n) == \E i \in DOMAIN FreeMem[g] : FreeMem[g][i].size >= n

\* Mutant: the whole block stays free, whatever the pages it shares.
trimNothing(b) == [base |-> b.base, size |-> b.size, pendingPrefix |-> 0]

\* trimBlockToPageSize, and the pending prefix is forgotten.
trimBlockToPageSize(b) ==
    LET start == alignTo(b.base, PageSize)
        size == b.size - (start - b.base)
    IN  [base |-> start, size |-> size - (size % PageSize), pendingPrefix |-> 0]

-----------------------------------------------------------------------------
Init ==
    /\ FreeMem = [g \in Groups |-> <<>>]
    /\ PendingMem = [g \in Groups |-> <<>>]
    /\ AllocatedMem = <<>>
    /\ perm = <<>>
    /\ todo = [g \in Groups |-> <<>>]
    /\ loads = 0
    /\ sections = <<>>
    /\ finalized = 0
    /\ failed = FALSE

Loading == \E g \in Groups : todo[g] # <<>>

\* The object fits into the blocks that are left.
ReuseSpace(request) ==
    /\ \A g \in Groups : hasSpace(g, ReservedSize(request[g]))
    /\ UNCHANGED <<FreeMem, AllocatedMem, perm>>

\* The part of a new mapping for group g; every group counts in its size, a
\* group without sections gets no part.
PartSize(request, g) == alignTo(ReservedSize(request[g]), PageSize)
MappingSize(request) ==
    PartSize(request, "Code") + PartSize(request, "ROData") + PartSize(request, "RWData")

PartTaken(request, g) == IF request[g] = <<>> THEN 0 ELSE PartSize(request, g)

PartOffset(request) ==
    [Code   |-> 0,
     ROData |-> PartTaken(request, "Code"),
     RWData |-> PartTaken(request, "Code") + PartTaken(request, "ROData")]

Part(request, base, g) ==
    IF request[g] = <<>> THEN <<>>
    ELSE <<[base |-> base + PartOffset(request)[g],
            size |-> PartSize(request, g), pendingPrefix |-> 0]>>

MapMore(request, base) ==
    LET mapping == [base |-> base, size |-> MappingSize(request)]
    IN  /\ AllocatedMem' = Append(AllocatedMem, mapping)
        /\ perm' = [p \in Pages(mapping) \cup DOMAIN perm |->
               IF p \in Pages(mapping) THEN "rw" ELSE perm[p]]

FreshBase == IF AllocatedMem = <<>> THEN PageSize ELSE End(Last(AllocatedMem))

\* Mutant: a group that has room keeps what it has.
NewMappingKeepsFree(request) ==
    /\ \E g \in Groups : ~hasSpace(g, ReservedSize(request[g]))
    /\ MapMore(request, FreshBase)
    /\ FreeMem' = [g \in Groups |->
           IF hasSpace(g, ReservedSize(request[g])) THEN FreeMem[g]
                                       ELSE Part(request, FreshBase, g)]

\* All that was free is given up, and one mapping serves all groups.
NewMapping(request) ==
    /\ \E g \in Groups : ~hasSpace(g, ReservedSize(request[g]))
    /\ MapMore(request, FreshBase)
    /\ FreeMem' = [g \in Groups |-> Part(request, FreshBase, g)]

\* RuntimeDyld loads an object that has sections.
reserveAllocationSpace ==
    /\ ~Loading
    /\ loads < MaxLoads
    /\ \E request \in Requests :
          /\ \E g \in Groups : request[g] # <<>>
          /\ todo' = request
          /\ ReuseSpace(request) \/ NewMapping(request)
    /\ loads' = loads + 1
    /\ UNCHANGED <<PendingMem, sections, finalized, failed>>

\* The first free block that is large enough; there is none for a caller that
\* has not reserved the space ("All memory must be pre-allocated").
FirstFit(g, s) ==
    CHOOSE i \in DOMAIN FreeMem[g] :
        /\ FreeMem[g][i].size >= RequiredSize(s)
        /\ \A j \in 1..(i - 1) : FreeMem[g][j].size < RequiredSize(s)

\* Mutant: the end of the block is computed when its base is aligned already.
RestIgnoresGap(b, addr, s, prefix) ==
    [base |-> addr + s.size, size |-> b.size - s.size, pendingPrefix |-> prefix]

\* What is left of free block b after a section of s at addr.
Rest(b, addr, s, prefix) ==
    [base |-> addr + s.size, size |-> End(b) - addr - s.size,
     pendingPrefix |-> prefix]

\* Mutant: the gap before an aligned section is not pending.
GrowIgnoresGap(pending, addr, s) ==
    [base |-> pending.base, size |-> pending.size + s.size]

\* A pending block that a section of s at addr follows.
Grow(pending, addr, s) ==
    [base |-> pending.base, size |-> addr + s.size - pending.base]

\* allocateSection for the next section of group g.
allocateSection(g) ==
    /\ todo[g] # <<>>
    /\ LET s == Head(todo[g])
           i == FirstFit(g, s)
           b == FreeMem[g][i]
           addr == alignTo(b.base, AlignmentOf(s))
           prefix == IF b.pendingPrefix = 0 THEN Len(PendingMem[g]) + 1
                                            ELSE b.pendingPrefix
       IN  /\ hasSpace(g, RequiredSize(s))
           /\ PendingMem' =
                  IF b.pendingPrefix = 0
                  THEN [PendingMem EXCEPT ![g] =
                          Append(@, [base |-> addr, size |-> s.size])]
                  ELSE [PendingMem EXCEPT ![g][prefix] = Grow(@, addr, s)]
           /\ FreeMem' = [FreeMem EXCEPT ![g][i] = Rest(b, addr, s, prefix)]
           /\ sections' = Append(sections, [group |-> g, base |-> addr,
                                            size |-> s.size, load |-> loads])
    /\ todo' = [todo EXCEPT ![g] = Tail(@)]
    /\ UNCHANGED <<AllocatedMem, perm, loads, finalized, failed>>

\* The pages of the first n pending blocks of group g.
Protected(g, n) == UNION {Pages(PendingMem[g][i]) : i \in 1..n}

\* Free blocks after their group's pages are protected: trimmed, and without
\* those that are empty then.
Trimmed(blocks) ==
    LET kept[i \in 0..Len(blocks)] ==
            IF i = 0 THEN <<>>
            ELSE LET b == trimBlockToPageSize(blocks[i])
                 IN  IF b.size = 0 THEN kept[i - 1] ELSE Append(kept[i - 1], b)
    IN  kept[Len(blocks)]

\* finalizeMemory protects nc pending blocks of code, then nr of read-only
\* data; when protecting one fails it stops there and returns true.
\* applyMemoryGroupPermissions forgets the pending blocks of a group, and trims
\* its free blocks, when all of the group are protected.
finalizeMemory ==
    /\ ~Loading
    /\ \E nc \in 0..Len(PendingMem["Code"]), nr \in 0..Len(PendingMem["ROData"]) :
          LET codeDone == nc = Len(PendingMem["Code"])
              dataDone == codeDone /\ nr = Len(PendingMem["ROData"])
              done == {g \in {"Code", "ROData"} :
                          IF g = "Code" THEN codeDone ELSE dataDone}
          IN  /\ codeDone \/ nr = 0
              /\ perm' = [p \in DOMAIN perm |->
                     IF p \in Protected("Code", nc) THEN "rx"
                     ELSE IF p \in Protected("ROData", nr) THEN "r"
                     ELSE perm[p]]
              /\ PendingMem' = [g \in Groups |->
                     IF g \in done THEN <<>> ELSE PendingMem[g]]
              /\ FreeMem' = [g \in Groups |->
                     IF g \in done THEN Trimmed(FreeMem[g]) ELSE FreeMem[g]]
              /\ finalized' = IF dataDone THEN Len(sections) ELSE finalized
              /\ failed' = (failed \/ ~dataDone)
    /\ UNCHANGED <<AllocatedMem, todo, loads, sections>>

\* The destructor, with the engine: every mapping is released, and nothing is
\* loaded any more.
Destroy ==
    /\ ~Loading
    /\ AllocatedMem' = <<>>
    /\ perm' = <<>>
    /\ FreeMem' = [g \in Groups |-> <<>>]
    /\ PendingMem' = [g \in Groups |-> <<>>]
    /\ sections' = <<>>
    /\ finalized' = 0
    /\ loads' = MaxLoads
    /\ UNCHANGED <<todo, failed>>

Next ==
    \/ reserveAllocationSpace
    \/ \E g \in Groups : allocateSection(g)
    \/ finalizeMemory
    \/ Destroy

Spec == Init /\ [][Next]_vars

-----------------------------------------------------------------------------
(* Properties *)

TypeOK ==
    /\ FreeMem \in [Groups -> Seq(FreeMemBlock)]
    /\ PendingMem \in [Groups -> Seq(Block)]
    /\ AllocatedMem \in Seq(Block)
    /\ \A p \in DOMAIN perm : p \in Nat /\ perm[p] \in {"rw", "rx", "r"}
    /\ todo \in [Groups -> Seq(SectionRequest)]
    /\ loads \in 0..MaxLoads
    /\ sections \in Seq(Section)
    /\ finalized \in 0..Len(sections)
    /\ failed \in BOOLEAN

\* What is given out is given out once (allocateSection): sections do not
\* overlap one another, nor what is still free, of whichever group.
SectionsDisjoint ==
    /\ \A i, j \in DOMAIN sections :
          i # j => ~Overlap(sections[i], sections[j])
    /\ \A i \in DOMAIN sections, g \in Groups : \A k \in DOMAIN FreeMem[g] :
          ~Overlap(sections[i], FreeMem[g][k])

\* "All memory must be pre-allocated": what has been reserved, in a new mapping
\* or in what is left of an old one, suffices for every section of the object,
\* whatever gaps their alignments leave.
SpaceForAll ==
    \A g \in Groups :
        todo[g] # <<>> => hasSpace(g, RequiredSize(Head(todo[g])))

\* Sections that no finalizeMemory has followed, and read-write data always,
\* are on writable pages, though finalised sections may end on the page before
\* them; as long as no finalizeMemory has failed.
WritableUntilFinalized ==
    ~failed =>
        \A i \in DOMAIN sections :
            sections[i].group = "RWData" \/ i > finalized =>
                \A p \in Pages(sections[i]) : perm[p] = "rw"

\* No section is forgotten, whichever finalizeMemory failed in between: it has
\* the permissions of its group, or it is in a block that is still pending.
PendingOrProtected ==
    \A i \in DOMAIN sections :
        LET s == sections[i]
            wanted == [Code |-> "rx", ROData |-> "r", RWData |-> "rw"][s.group]
        IN  \/ \A p \in Pages(s) : perm[p] = wanted
            \/ \E k \in DOMAIN PendingMem[s.group] :
                   Inside(s, PendingMem[s.group][k])

\* The sections of an object are in one mapping: "disparate memory ... can
\* violate the ARM ABI" (reserveAllocationSpace).
ObjectInOneMapping ==
    \A i, j \in DOMAIN sections :
        sections[i].load = sections[j].load =>
            \E m \in DOMAIN AllocatedMem :
                /\ Inside(sections[i], AllocatedMem[m])
                /\ Inside(sections[j], AllocatedMem[m])
=============================================================================
