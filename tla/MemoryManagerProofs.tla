------------------------ MODULE MemoryManagerProofs ------------------------
(***************************************************************************)
(* MemoryManager, proved for every page size, every set of objects and any *)
(* number of loads.                                                        *)
(*                                                                         *)
(* The argument is about pages.  The pages that the sections, the pending  *)
(* and the free blocks of a group touch are no other group's (GroupsApart),*)
(* so that protecting one group leaves the others alone; within a group    *)
(* what is free lies behind all that was given out (FreeLast), so that     *)
(* trimming keeps what is free off the protected pages.  That the space    *)
(* which is reserved suffices is a sum over the sections still to come     *)
(* (RoomLeft): what a recursive definition computes is shown with the      *)
(* least-number principle, which follows from the well-foundedness of <.   *)
(***************************************************************************)
EXTENDS MemoryManager, SequenceTheorems, NaturalsInduction, WellFoundedInduction,
        TLAPS

-----------------------------------------------------------------------------
(* The inductive invariant *)

OnPage(n) == n % PageSize = 0  \* address n is where a page starts

\* The pages that what belongs to group g touches: its sections of those that
\* were given out, its pending and its free blocks.
Touched(given, pending, free, g) ==
    (UNION {Pages(given[i]) : i \in {j \in DOMAIN given : given[j].group = g}})
      \cup (UNION {Pages(pending[k]) : k \in DOMAIN pending})
      \cup (UNION {Pages(free[k]) : k \in DOMAIN free})

PagesOf(g) == Touched(sections, PendingMem[g], FreeMem[g], g)

\* All blocks have bytes, and there is at most one free block of a group.
NoneEmpty ==
    /\ \A i \in DOMAIN sections : sections[i].size > 0
    /\ \A g \in Groups :
          /\ \A k \in DOMAIN PendingMem[g] : PendingMem[g][k].size > 0
          /\ \A k \in DOMAIN FreeMem[g] : k = 1 /\ FreeMem[g][k].size > 0

\* What is mapped ends where a page does, and nothing lies behind it.
MappedSoFar ==
    /\ OnPage(FreshBase)
    /\ \A m \in DOMAIN AllocatedMem : End(AllocatedMem[m]) <= FreshBase
    /\ \A g \in Groups : \A p \in PagesOf(g) :
          p \in DOMAIN perm /\ p * PageSize < FreshBase

GroupsApart == \A g, h \in Groups : g # h => PagesOf(g) \cap PagesOf(h) = {}

\* A free block ends with a page of the last mapping; it follows all that its
\* group was given, its pending prefix immediately.
FreeLast ==
    \A g \in Groups : \A k \in DOMAIN FreeMem[g] :
        LET b == FreeMem[g][k]
        IN  /\ OnPage(End(b))
            /\ AllocatedMem # <<>> /\ Inside(b, Last(AllocatedMem))
            /\ \A i \in DOMAIN sections :
                  sections[i].group = g => End(sections[i]) <= b.base
            /\ \A n \in DOMAIN PendingMem[g] : End(PendingMem[g][n]) <= b.base
            /\ b.pendingPrefix # 0 =>
                  /\ b.pendingPrefix \in DOMAIN PendingMem[g]
                  /\ End(PendingMem[g][b.pendingPrefix]) = b.base

FreeWritable ==
    ~failed => \A g \in Groups : \A k \in DOMAIN FreeMem[g] :
                  \A p \in Pages(FreeMem[g][k]) : perm[p] = "rw"

SectionsApart ==
    \A i, j \in DOMAIN sections : i # j => ~Overlap(sections[i], sections[j])

\* The sections of the current object are in the last mapping, as is what is
\* free; those of an earlier one are together in some mapping.
LoadsTogether ==
    /\ \A i \in DOMAIN sections :
          /\ sections[i].load <= loads
          /\ sections[i].load = loads =>
                AllocatedMem # <<>> /\ Inside(sections[i], Last(AllocatedMem))
    /\ ObjectInOneMapping

Inv ==
    /\ TypeOK
    /\ NoneEmpty
    /\ MappedSoFar
    /\ GroupsApart
    /\ FreeLast
    /\ FreeWritable
    /\ SectionsApart
    /\ LoadsTogether
    /\ WritableUntilFinalized
    /\ PendingOrProtected

\* What is free suffices for the sections group g has yet to be given, in
\* order: for some alignment that pages and all these sections agree with,
\* room[i] is what the sections from the i-th on take, and behind the first
\* aligned address there are that many bytes and one alignment more.
RoomLeft(g) ==
    todo[g] # <<>> =>
        \E align \in Nat \ {0}, room \in [1..(Len(todo[g]) + 1) -> Nat] :
            /\ PageSize % align = 0
            /\ \A i \in 1..Len(todo[g]) :
                  /\ align % AlignmentOf(todo[g][i]) = 0
                  /\ room[i] = alignTo(todo[g][i].size, align) + room[i + 1]
            /\ \E k \in DOMAIN FreeMem[g] :
                  End(FreeMem[g][k]) - alignTo(FreeMem[g][k].base, align)
                      >= room[1] + align

Room == \A g \in Groups : RoomLeft(g)

\* The alignments of a group's sections divide one another, as powers of two
\* do ("Alignment must be a power of two"), and a page, as the mapper requires.
AlignmentsFit ==
    \A request \in Requests : \A g \in Groups : \A i, j \in DOMAIN request[g] :
        LET a == AlignmentOf(request[g][i])
            b == AlignmentOf(request[g][j])
        IN  PageSize % a = 0 /\ (a % b = 0 \/ b % a = 0)

-----------------------------------------------------------------------------
(* Numbers *)

\* Every set of naturals has a least element: < is well-founded on Nat.
LEMMA LeastNat ==
  ASSUME NEW T \in SUBSET Nat, T # {}
  PROVE  \E n \in T : \A m \in T : n <= m
<1>1. PICK n \in T : \A m \in T : ~(<<m, n>> \in OpToRel(<, Nat))
  BY WFMin, NatLessThanWellFounded, Zenon
<1>2. \A m \in T : ~(m < n)
  BY <1>1, Zenon DEF OpToRel
<1>3. \A m \in T : m \in Nat /\ n \in Nat
  OBVIOUS
<1>. QED
  BY ONLY <1>2, <1>3

\* Hence a set of naturals that has 0 and every successor has them all.
LEMMA AllNat ==
  ASSUME NEW T \in SUBSET Nat, 0 \in T, \A n \in T : n + 1 \in T
  PROVE  T = Nat
<1>. SUFFICES ASSUME Nat \ T # {} PROVE FALSE
  OBVIOUS
<1>1. PICK n \in Nat \ T : \A m \in Nat \ T : n <= m
  BY ONLY LeastNat, Nat \ T # {}
<1>2. n # 0 /\ n - 1 \in Nat /\ ~(n <= n - 1)
  BY <1>1
<1>3. n - 1 \in T
  BY <1>1, <1>2
<1>4. (n - 1) + 1 = n
  BY <1>1
<1>. QED
  BY <1>1, <1>3, <1>4

\* What \div and % do with a positive divisor.
LEMMA DivMod ==
  ASSUME NEW n \in Int, NEW a \in Nat \ {0}
  PROVE  /\ n \div a \in Int /\ n % a \in 0..(a - 1)
         /\ n = (a * (n \div a)) + (n % a)
OBVIOUS

\* The multiples of a: % tells them.
LEMMA MultipleHas ==
  ASSUME NEW n \in Int, NEW a \in Nat \ {0}, n % a = 0
  PROVE  \E q \in Int : n = q * a
<1>1. PICK d \in Int, r \in 0..(a - 1) : r = n % a /\ n = (a * d) + r
  BY DivMod
<1>2. r = 0
  BY <1>1
<1>3. n = d * a
  BY ONLY <1>1, <1>2, a \in Nat
<1>. QED
  BY <1>3

\* A multiple of a leaves no remainder.
LEMMA MultipleIs ==
  ASSUME NEW a \in Nat \ {0}, NEW q \in Int
  PROVE  (q * a) % a = 0
<1>1. PICK n \in Int : n = q * a
  OBVIOUS
<1>2. PICK d \in Int, r \in 0..(a - 1) : r = n % a /\ n = (a * d) + r
  BY <1>1, DivMod
<1>3. PICK k \in Int : k = q - d
  OBVIOUS
<1>4. r = k * a
  <2>1. n = q * a /\ n = (a * d) + r /\ a \in Int /\ r \in Int
    BY <1>1, <1>2
  <2>2. r = (q - d) * a
    BY ONLY <2>1
  <2>. QED
    BY ONLY <1>3, <2>2
<1>5. k < 1
  BY ONLY <1>2, <1>3, <1>4
<1>6. k > -1
  BY ONLY <1>2, <1>3, <1>4
<1>7. k = 0
  BY ONLY <1>3, <1>5, <1>6
<1>8. r = 0
  BY ONLY <1>4, <1>7
<1>. QED
  BY <1>1, <1>2, <1>8

\* Different multiples of a are at least a apart; sums and differences of
\* multiples are multiples.
LEMMA MultiplesApart ==
  ASSUME NEW a \in Nat \ {0}, NEW m \in Int, NEW n \in Int, m % a = 0, n % a = 0
  PROVE  /\ m > n => m >= n + a
         /\ (m + n) % a = 0 /\ (m - n) % a = 0
<1>1. PICK p \in Int, q \in Int : m = p * a /\ n = q * a
  <2>1. /\ \E p \in Int : m = p * a
        /\ \E q \in Int : n = q * a
    BY MultipleHas
  <2>. QED
    BY <2>1
<1>2. ASSUME m > n PROVE m >= n + a
  <2>1. p > q
    BY <1>1, <1>2
  <2>2. p >= q + 1
    BY <2>1
  <2>3. p * a >= (q + 1) * a
    BY <2>2
  <2>. QED
    BY <1>1, <2>3
<1>3. m + n = (p + q) * a /\ m - n = (p - q) * a /\ p + q \in Int /\ p - q \in Int
  BY <1>1
<1>4. (m + n) % a = 0 /\ (m - n) % a = 0
  <2>1. ((p + q) * a) % a = 0 /\ ((p - q) * a) % a = 0
    BY <1>1, MultipleIs
  <2>. QED
    BY ONLY <1>3, <2>1
<1>. QED
  BY <1>2, <1>4

\* A multiple of a multiple of a is one.
LEMMA MultipleOfMultiple ==
  ASSUME NEW a \in Nat \ {0}, NEW b \in Nat \ {0}, NEW n \in Int,
         n % b = 0, b % a = 0
  PROVE  n % a = 0
<1>1. PICK p \in Int : n = p * b
  BY MultipleHas
<1>2. PICK q \in Int : b = q * a
  BY MultipleHas
<1>3. n = (p * q) * a /\ p * q \in Int
  BY ONLY <1>1, <1>2
<1>4. ((p * q) * a) % a = 0
  BY ONLY <1>3, MultipleIs, a \in Nat \ {0}
<1>. QED
  BY ONLY <1>3, <1>4

\* A multiple of a that is positive is at least a.
LEMMA MultipleAtLeast ==
  ASSUME NEW a \in Nat \ {0}, NEW b \in Nat \ {0}, b % a = 0
  PROVE  a <= b
<1>1. PICK q \in Int : b = q * a
  <2>1. b \in Int
    OBVIOUS
  <2>. QED
    BY ONLY <2>1, MultipleHas, a \in Nat \ {0}, b % a = 0
<1>2. q >= 1
  BY <1>1
<1>. QED
  BY ONLY <1>1, <1>2, a \in Nat \ {0}

\* alignTo: the least multiple of a that is not below n.
LEMMA AlignToIs ==
  ASSUME NEW n \in Nat, NEW a \in Nat \ {0}
  PROVE  /\ alignTo(n, a) \in Nat /\ n <= alignTo(n, a) /\ alignTo(n, a) < n + a
         /\ alignTo(n, a) % a = 0
         /\ \A m \in Int : m % a = 0 /\ n <= m => alignTo(n, a) <= m
<1>1. PICK q \in Int, r \in 0..(a - 1) : q = (n + a - 1) \div a /\ n + a - 1 = (a * q) + r
  BY DivMod
<1>2. alignTo(n, a) = q * a
  BY <1>1 DEF alignTo
<1>3. q >= 0
  BY <1>1
<1>4. alignTo(n, a) \in Nat /\ n <= alignTo(n, a) /\ alignTo(n, a) < n + a
  BY <1>1, <1>2, <1>3
<1>5. alignTo(n, a) % a = 0
  BY <1>2, MultipleIs
<1>6. ASSUME NEW m \in Int, m % a = 0, n <= m PROVE alignTo(n, a) <= m
  <2>. SUFFICES ASSUME alignTo(n, a) > m PROVE FALSE
    BY <1>4, <1>6
  <2>1. alignTo(n, a) >= m + a
    BY <1>4, <1>5, <1>6, MultiplesApart
  <2>. QED
    BY <1>4, <1>6, <2>1
<1>. QED
  BY <1>4, <1>5, <1>6

\* The space allocateSection requires: the size aligned, and an alignment more.
LEMMA RequiredSizeIs ==
  ASSUME NEW s \in SectionRequest
  PROVE  /\ AlignmentOf(s) \in Nat \ {0} /\ s.size \in Nat /\ s.size > 0
         /\ RequiredSize(s) = alignTo(s.size, AlignmentOf(s)) + AlignmentOf(s)
         /\ RequiredSize(s) \in Nat /\ RequiredSize(s) > s.size
<1>. DEFINE a == AlignmentOf(s)
<1>1. a \in Nat \ {0} /\ s.size \in Nat /\ s.size > 0
  BY MemoryAssumption DEF AlignmentOf, SectionRequest
<1>. HIDE DEF a
<1>2. PICK q \in Int : q = (s.size + a - 1) \div a
  BY <1>1, DivMod
<1>3. RequiredSize(s) = a * (q + 1) /\ alignTo(s.size, a) = q * a
  BY <1>2 DEF RequiredSize, alignTo, a
<1>4. RequiredSize(s) = alignTo(s.size, a) + a
  BY <1>1, <1>2, <1>3
<1>5. alignTo(s.size, a) \in Nat /\ s.size <= alignTo(s.size, a)
  BY <1>1, AlignToIs
<1>6. RequiredSize(s) \in Nat /\ RequiredSize(s) > s.size
  BY <1>1, <1>4, <1>5
<1>. QED
  BY <1>1, <1>4, <1>6 DEF a

-----------------------------------------------------------------------------
(* What RuntimeDyld announces *)

\* The greatest alignment of a group is one of its sections', or 1.
LEMMA AnnouncedAlignIs ==
  ASSUME NEW ss \in Seq(SectionRequest)
  PROVE  /\ AnnouncedAlign(ss) \in Nat \ {0}
         /\ \A i \in DOMAIN ss : AlignmentOf(ss[i]) <= AnnouncedAlign(ss)
         /\ AnnouncedAlign(ss) = 1 \/ \E i \in DOMAIN ss : AnnouncedAlign(ss) = AlignmentOf(ss[i])
<1>. DEFINE First(n) == {1} \cup {AlignmentOf(ss[i]) : i \in 1..n}
            T == {n \in Nat : n <= Len(ss) => \E x \in First(n) : \A y \in First(n) : x >= y}
<1>1. /\ DOMAIN ss = 1..Len(ss) /\ Len(ss) \in Nat
      /\ \A i \in 1..Len(ss) : AlignmentOf(ss[i]) \in Nat \ {0}
  BY LenProperties, RequiredSizeIs
<1>2. \A n \in Nat : n <= Len(ss) => First(n) \subseteq Nat \ {0}
  BY <1>1
<1>3. 0 \in T
  <2>1. First(0) = {1}
    OBVIOUS
  <2>. QED
    BY <2>1
<1>4. ASSUME NEW n \in T PROVE n + 1 \in T
  <2>. SUFFICES ASSUME n + 1 <= Len(ss)
                PROVE  \E x \in First(n + 1) : \A y \in First(n + 1) : x >= y
    OBVIOUS
  <2>1. PICK x \in First(n) : \A y \in First(n) : x >= y
    BY <1>1, <1>4
  <2>2. First(n + 1) = First(n) \cup {AlignmentOf(ss[n + 1])}
    <3>1. 1..(n + 1) = (1..n) \cup {n + 1}
      BY <1>4
    <3>. QED
      BY ONLY <3>1
  <2>3. First(n + 1) \subseteq Nat
    BY <1>2, <1>4
  <2>. HIDE DEF First
  <2>4. CASE x >= AlignmentOf(ss[n + 1])
    BY <2>1, <2>2, <2>4
  <2>5. CASE ~(x >= AlignmentOf(ss[n + 1]))
    <3>1. \A y \in First(n) : AlignmentOf(ss[n + 1]) >= y
      BY <2>1, <2>2, <2>3, <2>5
    <3>. QED
      BY <2>2, <2>3, <3>1
  <2>. QED
    BY <2>4, <2>5
<1>5. T = Nat
  <2>. HIDE DEF T
  <2>1. T \subseteq Nat
    BY DEF T
  <2>. QED
    BY <1>3, <1>4, <2>1, AllNat
<1>6. PICK top \in First(Len(ss)) : \A y \in First(Len(ss)) : top >= y
  <2>1. Len(ss) \in T
    BY <1>1, <1>5
  <2>. QED
    BY <1>1, <2>1
<1>7. AnnouncedAlign(ss) = CHOOSE x \in First(Len(ss)) : \A y \in First(Len(ss)) : x >= y
  BY <1>1 DEF AnnouncedAlign, Max
<1>8. AnnouncedAlign(ss) \in First(Len(ss)) /\ \A y \in First(Len(ss)) : AnnouncedAlign(ss) >= y
  <2>. HIDE DEF First
  <2>. QED
    BY ONLY <1>6, <1>7
<1>9. \A i \in DOMAIN ss : AlignmentOf(ss[i]) \in First(Len(ss))
  BY <1>1
<1>10. First(Len(ss)) \subseteq Nat \ {0}
  BY <1>1, <1>2
<1>11. AnnouncedAlign(ss) = 1 \/ \E i \in DOMAIN ss : AnnouncedAlign(ss) = AlignmentOf(ss[i])
  BY <1>1, <1>8
<1>. HIDE DEF First
<1>. QED
  BY <1>1, <1>8, <1>9, <1>10, <1>11

\* The running total that AnnouncedSize defines exists.
LEMMA RunningTotal ==
  ASSUME NEW ss \in Seq(SectionRequest), NEW align \in Nat \ {0}
  PROVE  \E f \in [0..Len(ss) -> Nat] :
            f = [i \in 0..Len(ss) |->
                    IF i = 0 THEN 0 ELSE f[i - 1] + alignTo(ss[i].size, align)]
<1>. DEFINE Sums(f, n) == /\ f \in [0..n -> Nat]
                          /\ f[0] = 0
                          /\ \A i \in 1..n : f[i] = f[i - 1] + alignTo(ss[i].size, align)
            T == {n \in Nat : n <= Len(ss) => \E f : Sums(f, n)}
<1>1. Len(ss) \in Nat /\ \A i \in 1..Len(ss) : alignTo(ss[i].size, align) \in Nat
  BY LenProperties, RequiredSizeIs, AlignToIs
<1>2. 0 \in T
  <2>1. Sums([i \in 0..0 |-> 0], 0)
    OBVIOUS
  <2>. QED
    BY <2>1
<1>3. ASSUME NEW n \in T PROVE n + 1 \in T
  <2>. SUFFICES ASSUME n + 1 <= Len(ss) PROVE \E f : Sums(f, n + 1)
    <3>. HIDE DEF Sums
    <3>. QED
      OBVIOUS
  <2>1. PICK f : Sums(f, n)
    <3>. HIDE DEF Sums
    <3>. QED
      BY <1>1, <1>3
  <2>. DEFINE w == alignTo(ss[n + 1].size, align)
              g == [i \in 0..(n + 1) |-> IF i = n + 1 THEN f[n] + w ELSE f[i]]
  <2>2. n \in Nat /\ w \in Nat
    BY <1>1, <1>3
  <2>3. g[n + 1] = f[n] + w /\ \A i \in 0..n : g[i] = f[i]
    BY <2>2
  <2>4. g \in [0..(n + 1) -> Nat]
    BY <2>1, <2>2
  <2>. HIDE DEF g
  <2>5. ASSUME NEW i \in 1..(n + 1) PROVE g[i] = g[i - 1] + alignTo(ss[i].size, align)
    <3>1. CASE i = n + 1
      <4>1. i - 1 = n /\ n \in 0..n
        BY <2>2, <3>1
      <4>. QED
        BY <2>3, <3>1, <4>1
    <3>2. CASE i \in 1..n
      <4>1. i \in 0..n /\ i - 1 \in 0..n
        BY <2>2, <3>2
      <4>. QED
        BY <2>1, <2>3, <3>2, <4>1
    <3>. QED
      BY <2>2, <2>5, <3>1, <3>2
  <2>6. Sums(g, n + 1)
    BY <2>1, <2>2, <2>3, <2>4, <2>5
  <2>. QED
    BY <2>6
<1>4. T = Nat
  <2>. HIDE DEF T
  <2>1. T \subseteq Nat
    BY DEF T
  <2>. QED
    BY <1>2, <1>3, <2>1, AllNat
<1>5. PICK f : Sums(f, Len(ss))
  <2>1. Len(ss) \in T
    BY <1>1, <1>4
  <2>. HIDE DEF Sums
  <2>. QED
    BY <1>1, <2>1
<1>6. f = [i \in 0..Len(ss) |-> IF i = 0 THEN 0 ELSE f[i - 1] + alignTo(ss[i].size, align)]
  BY <1>1, <1>5
<1>. QED
  BY <1>5, <1>6

\* Such a total is made of multiples of the alignment, and never decreases.
LEMMA TotalsGrow ==
  ASSUME NEW ss \in Seq(SectionRequest), NEW align \in Nat \ {0}, NEW f,
         f = [i \in 0..Len(ss) |->
                 IF i = 0 THEN 0 ELSE f[i - 1] + alignTo(ss[i].size, align)]
  PROVE  /\ f[0] = 0
         /\ \A i \in 1..Len(ss) : f[i] = f[i - 1] + alignTo(ss[i].size, align)
         /\ \A n \in 0..Len(ss) : /\ f[n] \in Nat /\ f[n] % align = 0
                                /\ f[n] <= f[Len(ss)]
<1>. DEFINE Grows(n) == /\ f[n] \in Nat /\ f[n] % align = 0
                        /\ \A m \in 0..n : f[m] \in Nat /\ f[m] <= f[n]
            T == {n \in Nat : n <= Len(ss) => Grows(n)}
<1>1. /\ Len(ss) \in Nat
      /\ \A i \in 1..Len(ss) : /\ alignTo(ss[i].size, align) \in Nat
                             /\ alignTo(ss[i].size, align) % align = 0
  <2>1. Len(ss) \in Nat /\ \A i \in 1..Len(ss) : ss[i].size \in Nat
    BY LenProperties, RequiredSizeIs
  <2>. QED
    BY ONLY <2>1, AlignToIs, align \in Nat \ {0}
<1>2. f[0] = 0
  BY <1>1
<1>3. ASSUME NEW i \in 1..Len(ss) PROVE f[i] = f[i - 1] + alignTo(ss[i].size, align)
  <2>1. i \in 0..Len(ss) /\ i # 0
    BY <1>1, <1>3
  <2>. QED
    BY <2>1
<1>4. Grows(0)
  <2>1. 0 % align = 0
    <3>1. (0 * align) % align = 0
      BY MultipleIs
    <3>. QED
      BY <3>1
  <2>. QED
    BY <1>2, <2>1
<1>5. ASSUME NEW n \in Nat, Grows(n), n + 1 <= Len(ss) PROVE Grows(n + 1)
  <2>1. PICK w \in Nat : w = alignTo(ss[n + 1].size, align) /\ w % align = 0
    BY <1>1, <1>5
  <2>2. f[n + 1] = f[n] + w
    BY <1>1, <1>3, <1>5, <2>1
  <2>3. f[n + 1] \in Nat /\ f[n] <= f[n + 1]
    BY <1>5, <2>1, <2>2
  <2>4. (f[n] + w) % align = 0
    BY <1>5, <2>1, MultiplesApart
  <2>5. ASSUME NEW m \in 0..(n + 1) PROVE f[m] \in Nat /\ f[m] <= f[n + 1]
    <3>1. m = n + 1 \/ m \in 0..n
      BY <1>5, <2>5
    <3>2. f[n] \in Nat /\ \A k \in 0..n : f[k] \in Nat /\ f[k] <= f[n]
      BY <1>5
    <3>. QED
      BY ONLY <2>3, <3>1, <3>2
  <2>. QED
    BY <2>2, <2>3, <2>4, <2>5
<1>. HIDE DEF Grows
<1>6. 0 \in T
  BY <1>4
<1>7. \A n \in T : n + 1 \in T
  BY <1>1, <1>5
<1>8. T = Nat
  <2>. HIDE DEF T
  <2>1. T \subseteq Nat
    BY DEF T
  <2>. QED
    BY <1>6, <1>7, <2>1, AllNat
<1>9. \A n \in 0..Len(ss) : Grows(n)
  <2>1. ASSUME NEW n \in 0..Len(ss) PROVE n \in T /\ n <= Len(ss)
    <3>1. n \in Nat /\ n <= Len(ss)
      BY <1>1, <2>1
    <3>. HIDE DEF T
    <3>. QED
      BY <1>8, <3>1
  <2>. QED
    BY <2>1
<1>10. \A n \in 0..Len(ss) : f[n] \in Nat /\ f[n] % align = 0
  BY <1>9 DEF Grows
<1>11. \A n \in 0..Len(ss) : f[n] <= f[Len(ss)]
  <2>1. Len(ss) \in 0..Len(ss)
    BY <1>1
  <2>. QED
    BY <1>9, <2>1 DEF Grows
<1>. QED
  BY ONLY <1>2, <1>3, <1>10, <1>11

\* What a group announces is a multiple of its alignment, and what its
\* sections take one after the other.
LEMMA AnnouncedSizeIs ==
  ASSUME NEW ss \in Seq(SectionRequest)
  PROVE  /\ AnnouncedSize(ss) \in Nat
         /\ AnnouncedSize(ss) % AnnouncedAlign(ss) = 0
         /\ \E room \in [1..(Len(ss) + 1) -> Nat] :
               /\ room[1] = AnnouncedSize(ss)
               /\ \A i \in 1..Len(ss) :
                     room[i] = alignTo(ss[i].size, AnnouncedAlign(ss)) + room[i + 1]
<1>1. PICK align \in Nat \ {0} : align = AnnouncedAlign(ss)
  BY AnnouncedAlignIs
<1>2. PICK f :
      /\ f = [i \in 0..Len(ss) |->
                 IF i = 0 THEN 0 ELSE f[i - 1] + alignTo(ss[i].size, align)]
      /\ AnnouncedSize(ss) = f[Len(ss)]
  <2>. DEFINE total == CHOOSE f : f = [i \in 0..Len(ss) |->
                 IF i = 0 THEN 0 ELSE f[i - 1] + alignTo(ss[i].size, align)]
  <2>1. \E f : f = [i \in 0..Len(ss) |->
                 IF i = 0 THEN 0 ELSE f[i - 1] + alignTo(ss[i].size, align)]
    BY RunningTotal
  <2>2. total = [i \in 0..Len(ss) |->
                 IF i = 0 THEN 0 ELSE total[i - 1] + alignTo(ss[i].size, align)]
    BY ONLY <2>1
  <2>3. AnnouncedSize(ss) = total[Len(ss)]
    BY <1>1 DEF AnnouncedSize
  <2>. QED
    BY ONLY <2>2, <2>3
<1>3. /\ f[0] = 0
      /\ \A i \in 1..Len(ss) : f[i] = f[i - 1] + alignTo(ss[i].size, align)
      /\ \A n \in 0..Len(ss) : /\ f[n] \in Nat /\ f[n] % align = 0
                             /\ f[n] <= f[Len(ss)]
  BY <1>2, TotalsGrow
<1>4. PICK n \in Nat : n = Len(ss)
  BY LenProperties
<1>5. f[n] \in Nat /\ f[n] % align = 0
  BY <1>3, <1>4
<1>. DEFINE room == [i \in 1..(n + 1) |-> f[n] - f[i - 1]]
<1>6. room \in [1..(n + 1) -> Nat]
  <2>1. \A i \in 1..(n + 1) : i - 1 \in 0..n
    BY <1>4
  <2>2. \A i \in 1..(n + 1) : f[n] - f[i - 1] \in Nat
    BY <1>3, <1>4, <1>5, <2>1
  <2>. QED
    BY <2>2
<1>7. room[1] = f[n]
  BY <1>3, <1>4, <1>5
<1>8. ASSUME NEW i \in 1..n PROVE room[i] = alignTo(ss[i].size, align) + room[i + 1]
  <2>1. i \in 1..(n + 1) /\ i + 1 \in 1..(n + 1) /\ (i + 1) - 1 = i /\ i - 1 \in 0..n /\ i \in 0..n
    BY <1>4, <1>8
  <2>2. room[i] = f[n] - f[i - 1] /\ room[i + 1] = f[n] - f[i]
    BY <2>1
  <2>3. PICK w \in Nat : w = alignTo(ss[i].size, align)
    <3>1. ss[i].size \in Nat
      BY <1>4, <1>8, LenProperties, RequiredSizeIs
    <3>. QED
      BY <3>1, AlignToIs
  <2>4. f[i] = f[i - 1] + w /\ f[i] \in Nat /\ f[i - 1] \in Nat
    BY <1>3, <1>4, <1>8, <2>1, <2>3
  <2>. HIDE DEF room
  <2>. QED
    BY ONLY <1>5, <2>2, <2>3, <2>4
<1>. HIDE DEF room
<1>9. /\ AnnouncedSize(ss) \in Nat /\ AnnouncedSize(ss) % AnnouncedAlign(ss) = 0
      /\ room[1] = AnnouncedSize(ss)
  BY ONLY <1>1, <1>2, <1>4, <1>5, <1>7
<1>10. \A i \in 1..Len(ss) :
          room[i] = alignTo(ss[i].size, AnnouncedAlign(ss)) + room[i + 1]
  BY ONLY <1>1, <1>4, <1>8
<1>11. room \in [1..(Len(ss) + 1) -> Nat]
  BY ONLY <1>4, <1>6
<1>. QED
  BY ONLY <1>9, <1>10, <1>11

-----------------------------------------------------------------------------
(* Reservations *)

\* Max of two numbers is one of them and neither is greater.
LEMMA GreaterOfTwo ==
  ASSUME NEW m \in Nat, NEW n \in Nat
  PROVE  Max({m, n}) \in {m, n} /\ Max({m, n}) >= m /\ Max({m, n}) >= n
<1>1. \E x \in {m, n} : \A y \in {m, n} : x >= y
  OBVIOUS
<1>. QED
  BY <1>1 DEF Max

\* A reservation is at least what is announced and an alignment more.
LEMMA ReservedSizeIs ==
  ASSUME NEW ss \in Seq(SectionRequest)
  PROVE  /\ ReservedSize(ss) \in Nat /\ ReservedSize(ss) > 0
         /\ ReservedSize(ss) >= AnnouncedSize(ss) + AnnouncedAlign(ss)
<1>1. AnnouncedAlign(ss) \in Nat \ {0} /\ AnnouncedSize(ss) \in Nat
  BY AnnouncedAlignIs, AnnouncedSizeIs
<1>2. StubAlign \in Nat \ {0}
  BY MemoryAssumption
<1>3. PICK align \in Nat \ {0} :
        align = Max({AnnouncedAlign(ss), StubAlign}) /\ align >= AnnouncedAlign(ss)
  BY <1>1, <1>2, GreaterOfTwo
<1>4. PICK size \in Nat : size = alignTo(AnnouncedSize(ss), align) /\ size >= AnnouncedSize(ss)
  BY <1>1, AlignToIs
<1>5. ReservedSize(ss) = size + align
  BY <1>3, <1>4 DEF ReservedSize
<1>. QED
  BY <1>1, <1>3, <1>4, <1>5

\* The parts of a mapping are whole pages, one behind the other, within it.
LEMMA PartsApart ==
  ASSUME NEW request \in Requests
  PROVE  /\ \A g \in Groups : /\ PartSize(request, g) \in Nat
                              /\ PartSize(request, g) >= ReservedSize(request[g])
                              /\ PartSize(request, g) > 0
                              /\ OnPage(PartSize(request, g))
                              /\ PartOffset(request)[g] \in Nat
                              /\ OnPage(PartOffset(request)[g])
                              /\ PartOffset(request)[g] + PartSize(request, g)
                                    <= MappingSize(request)
         /\ MappingSize(request) \in Nat /\ MappingSize(request) > 0
         /\ OnPage(MappingSize(request))
         /\ \A g, h \in Groups :
               g # h /\ request[g] # <<>> /\ request[h] # <<>> =>
                  \/ PartOffset(request)[g] + PartSize(request, g) <= PartOffset(request)[h]
                  \/ PartOffset(request)[h] + PartSize(request, h) <= PartOffset(request)[g]
<1>1. PageSize \in Nat \ {0} /\ request \in [Groups -> Seq(SectionRequest)]
  BY MemoryAssumption
<1>2. ASSUME NEW g \in Groups
      PROVE  /\ PartSize(request, g) \in Nat
             /\ PartSize(request, g) >= ReservedSize(request[g])
             /\ PartSize(request, g) > 0
             /\ OnPage(PartSize(request, g))
  <2>1. ReservedSize(request[g]) \in Nat /\ ReservedSize(request[g]) > 0
    BY <1>1, ReservedSizeIs
  <2>2. PICK n \in Nat : n = ReservedSize(request[g]) /\ n > 0
    BY <2>1
  <2>3. /\ alignTo(n, PageSize) \in Nat /\ n <= alignTo(n, PageSize)
        /\ alignTo(n, PageSize) % PageSize = 0
    BY <1>1, AlignToIs
  <2>4. PartSize(request, g) = alignTo(n, PageSize)
    BY <2>2 DEF PartSize
  <2>. QED
    BY ONLY <2>2, <2>3, <2>4 DEF OnPage
<1>3. PICK c \in Nat, r \in Nat, w \in Nat :
        /\ c = PartSize(request, "Code") /\ r = PartSize(request, "ROData")
        /\ w = PartSize(request, "RWData")
        /\ c > 0 /\ r > 0 /\ w > 0 /\ OnPage(c) /\ OnPage(r) /\ OnPage(w)
  BY <1>2 DEF Groups
<1>4. PICK tc \in Nat, tr \in Nat :
        /\ tc = PartTaken(request, "Code") /\ tr = PartTaken(request, "ROData")
        /\ tc = IF request["Code"] = <<>> THEN 0 ELSE c
        /\ tr = IF request["ROData"] = <<>> THEN 0 ELSE r
  BY <1>3 DEF PartTaken
<1>5. OnPage(0)
  <2>1. (0 * PageSize) % PageSize = 0
    BY <1>1, MultipleIs
  <2>. QED
    BY <1>1, <2>1 DEF OnPage
<1>6. OnPage(tc) /\ OnPage(tr) /\ OnPage(tc + tr)
  <2>1. OnPage(tc) /\ OnPage(tr)
    BY <1>3, <1>4, <1>5
  <2>2. tc % PageSize = 0 /\ tr % PageSize = 0 /\ tc \in Int /\ tr \in Int
    BY <2>1 DEF OnPage
  <2>3. (tc + tr) % PageSize = 0
    BY ONLY <1>1, <2>2, MultiplesApart
  <2>. QED
    BY <2>1, <2>3 DEF OnPage
<1>7. OnPage(c + r + w)
  <2>1. OnPage(c + r)
    BY <1>1, <1>3, MultiplesApart DEF OnPage
  <2>. QED
    BY <1>1, <1>3, <2>1, MultiplesApart DEF OnPage
<1>8. MappingSize(request) = c + r + w
  BY <1>3 DEF MappingSize
<1>9. /\ PartOffset(request)["Code"] = 0
      /\ PartOffset(request)["ROData"] = tc
      /\ PartOffset(request)["RWData"] = tc + tr
  BY <1>4 DEF PartOffset
<1>10. tc <= c /\ tr <= r
  BY <1>4
<1>11. \A g \in Groups : /\ PartOffset(request)[g] \in Nat
                         /\ OnPage(PartOffset(request)[g])
                         /\ PartOffset(request)[g] + PartSize(request, g)
                                    <= MappingSize(request)
  <2>1. 0 + c <= c + r + w /\ tc + r <= c + r + w /\ tc + tr + w <= c + r + w
    BY <1>3, <1>10
  <2>2. tc + tr \in Nat /\ 0 \in Nat
    OBVIOUS
  <2>. QED
    BY ONLY <1>3, <1>4, <1>5, <1>6, <1>8, <1>9, <2>1, <2>2 DEF Groups
<1>12. \A g, h \in Groups :
               g # h /\ request[g] # <<>> /\ request[h] # <<>> =>
                  \/ PartOffset(request)[g] + PartSize(request, g) <= PartOffset(request)[h]
                  \/ PartOffset(request)[h] + PartSize(request, h) <= PartOffset(request)[g]
  <2>1. 0 + c <= c /\ tc + tr >= tc /\ (tc = c => tc + tr >= c) /\ (tr = r => tc + r <= tc + tr)
    BY <1>3
  <2>2. /\ request["Code"] # <<>> => tc = c
        /\ request["ROData"] # <<>> => tr = r
    BY <1>4
  <2>. QED
    BY ONLY <1>3, <1>9, <2>1, <2>2 DEF Groups
<1>13. /\ MappingSize(request) \in Nat /\ MappingSize(request) > 0
       /\ OnPage(MappingSize(request))
  BY <1>3, <1>7, <1>8
<1>. QED
  BY ONLY <1>2, <1>11, <1>12, <1>13

-----------------------------------------------------------------------------
(* Blocks and pages *)

\* A block that has bytes.
Bytes(b) == b.base \in Nat /\ b.size \in Nat /\ b.size > 0

\* The pages of a block are those that have a byte of it.
LEMMA PagesAre ==
  ASSUME NEW b, Bytes(b), NEW p
  PROVE  p \in Pages(b) <=> /\ p \in Nat /\ p * PageSize < End(b)
                            /\ b.base < p * PageSize + PageSize
<1>1. PageSize \in Nat \ {0} /\ b.base \in Nat /\ End(b) \in Nat /\ b.base < End(b)
      /\ b.size # 0
  BY MemoryAssumption DEF Bytes, End
<1>2. PICK page \in Nat \ {0}, base \in Nat, end \in Nat :
        page = PageSize /\ base = b.base /\ end = End(b) /\ base < end
  BY <1>1
<1>3. PICK m \in Int, r \in 0..(page - 1) :
        m = base \div page /\ base = (page * m) + r
  BY DivMod
<1>4. PICK n \in Int, t \in 0..(page - 1) :
        n = (end - 1) \div page /\ end - 1 = (page * n) + t
  <2>1. end - 1 \in Int
    OBVIOUS
  <2>. QED
    BY ONLY <2>1, DivMod, page \in Nat \ {0}
<1>5. Pages(b) = m..n
  BY ONLY <1>1, <1>2, <1>3, <1>4 DEF Pages
<1>6. /\ page > 0 /\ base = (page * m) + r /\ end - 1 = (page * n) + t
      /\ r >= 0 /\ r < page /\ t >= 0 /\ t < page /\ base < end
  BY ONLY <1>2, <1>3, <1>4, page \in Nat \ {0}
<1>7. m >= 0
  BY ONLY <1>6, page \in Nat, base \in Nat, m \in Int, r \in Int
<1>8. ASSUME NEW q \in Int PROVE q >= m <=> base < q * page + page
  <2>1. ASSUME q >= m PROVE base < q * page + page
    <3>1. q * page >= m * page
      BY <1>6, <2>1
    <3>. QED
      BY <1>6, <3>1
  <2>2. ASSUME ~(q >= m) PROVE ~(base < q * page + page)
    <3>1. q + 1 <= m
      BY <2>2
    <3>2. (q + 1) * page <= m * page
      BY <1>6, <3>1
    <3>. QED
      BY <1>6, <3>2
  <2>. QED
    BY <2>1, <2>2
<1>9. ASSUME NEW q \in Int PROVE q <= n <=> q * page < end
  <2>1. ASSUME q <= n PROVE q * page < end
    <3>1. q * page <= n * page
      BY <1>6, <2>1
    <3>. QED
      BY <1>6, <3>1
  <2>2. ASSUME ~(q <= n) PROVE ~(q * page < end)
    <3>1. n + 1 <= q
      BY <2>2
    <3>2. (n + 1) * page <= q * page
      BY <1>6, <3>1
    <3>. QED
      BY <1>6, <3>2
  <2>. QED
    BY <2>1, <2>2
<1>10. p \in m..n <=> p \in Nat /\ p >= m /\ p <= n
  BY <1>7
<1>11. CASE p \in Nat
  <2>1. /\ p >= m <=> base < p * page + page
        /\ p <= n <=> p * page < end
    BY <1>8, <1>9, <1>11
  <2>. QED
    BY ONLY <1>2, <1>5, <1>10, <1>11, <2>1
<1>. QED
  BY <1>5, <1>10, <1>11

\* A block within another touches no further page.
LEMMA PagesInside ==
  ASSUME NEW a, NEW b, Bytes(a), Bytes(b), Inside(a, b)
  PROVE  Pages(a) \subseteq Pages(b)
<1>. SUFFICES ASSUME NEW p \in Pages(a) PROVE p \in Pages(b)
  OBVIOUS
<1>1. /\ p \in Nat /\ p * PageSize < End(a) /\ a.base < p * PageSize + PageSize
  BY PagesAre
<1>2. p * PageSize \in Nat /\ PageSize \in Nat
  BY <1>1, MemoryAssumption
<1>3. p * PageSize < End(b) /\ b.base < p * PageSize + PageSize
  BY <1>1, <1>2 DEF Inside, Bytes, End
<1>. QED
  BY <1>1, <1>3, PagesAre

\* A block that covers another, and goes on into the one behind it, touches
\* the pages of the two.
LEMMA PagesGrown ==
  ASSUME NEW a, NEW b, NEW c, Bytes(a), Bytes(b), Bytes(c),
         c.base = a.base, End(a) = b.base, End(c) <= End(b)
  PROVE  Pages(c) \subseteq Pages(a) \cup Pages(b)
<1>. SUFFICES ASSUME NEW p \in Pages(c) PROVE p \in Pages(a) \/ p \in Pages(b)
  OBVIOUS
<1>1. /\ p \in Nat /\ p * PageSize < End(c) /\ c.base < p * PageSize + PageSize
  BY PagesAre
<1>2. p * PageSize \in Nat /\ PageSize \in Nat
  BY <1>1, MemoryAssumption
<1>3. \/ p * PageSize < End(a) /\ a.base < p * PageSize + PageSize
      \/ p * PageSize < End(b) /\ b.base < p * PageSize + PageSize
  BY <1>1, <1>2, PageSize > 0, MemoryAssumption DEF Bytes, End
<1>. QED
  BY <1>1, <1>3, PagesAre

\* Two blocks have no page in common when a page starts between them.
LEMMA PagesBehind ==
  ASSUME NEW a, NEW b, Bytes(a), Bytes(b), NEW n \in Nat,
         OnPage(n), End(a) <= n, n <= b.base
  PROVE  Pages(a) \cap Pages(b) = {}
<1>. SUFFICES ASSUME NEW p \in Pages(a), p \in Pages(b) PROVE FALSE
  OBVIOUS
<1>1. p \in Nat /\ p * PageSize < End(a) /\ b.base < p * PageSize + PageSize
  BY PagesAre
<1>2. PageSize \in Nat \ {0} /\ End(a) \in Nat /\ b.base \in Nat
  BY MemoryAssumption DEF Bytes, End
<1>3. PICK q \in Int : n = q * PageSize
  BY <1>2, MultipleHas DEF OnPage
<1>4. PICK page \in Nat \ {0} : page = PageSize
  BY <1>2
<1>5. p * page < q * page /\ q * page < p * page + page
  BY <1>1, <1>2, <1>3, <1>4
<1>6. PICK k \in Nat : k = p
  BY <1>1
<1>7. k * page < q * page /\ q * page < k * page + page
  BY <1>5, <1>6
<1>8. CASE q <= k
  <2>1. q * page <= k * page
    BY <1>8
  <2>. QED
    BY <1>7, <2>1
<1>9. CASE k + 1 <= q
  <2>1. (k + 1) * page <= q * page
    BY <1>9
  <2>. QED
    BY <1>7, <2>1
<1>. QED
  BY <1>8, <1>9

-----------------------------------------------------------------------------
(* What the invariant says of the parts of a state *)

\* The fields of the blocks in a state of the right type.
LEMMA Blocks ==
  ASSUME TypeOK, NoneEmpty
  PROVE  /\ Len(sections) \in Nat /\ DOMAIN sections = 1..Len(sections)
         /\ \A i \in DOMAIN sections : /\ sections[i] \in Section /\ Bytes(sections[i])
                                       /\ sections[i].group \in Groups
                                       /\ End(sections[i]) \in Nat
         /\ \A g \in Groups :
               /\ Len(PendingMem[g]) \in Nat /\ DOMAIN PendingMem[g] = 1..Len(PendingMem[g])
               /\ \A k \in DOMAIN PendingMem[g] :
                     Bytes(PendingMem[g][k]) /\ End(PendingMem[g][k]) \in Nat
               /\ \A k \in DOMAIN FreeMem[g] :
                     /\ Bytes(FreeMem[g][k]) /\ End(FreeMem[g][k]) \in Nat
                     /\ FreeMem[g][k] \in FreeMemBlock
         /\ Len(AllocatedMem) \in Nat /\ DOMAIN AllocatedMem = 1..Len(AllocatedMem)
         /\ AllocatedMem # <<>> => Last(AllocatedMem) = AllocatedMem[Len(AllocatedMem)]
                                   /\ Len(AllocatedMem) \in DOMAIN AllocatedMem
         /\ \A m \in DOMAIN AllocatedMem : /\ AllocatedMem[m].base \in Nat
                                           /\ AllocatedMem[m].size \in Nat
                                           /\ End(AllocatedMem[m]) \in Nat
         /\ FreshBase \in Nat
<1>1. /\ Len(sections) \in Nat /\ DOMAIN sections = 1..Len(sections)
      /\ \A i \in DOMAIN sections : sections[i] \in Section
  BY LenProperties DEF TypeOK
<1>2. \A i \in DOMAIN sections : /\ Bytes(sections[i])
                                 /\ sections[i].group \in Groups
                                 /\ End(sections[i]) \in Nat
  BY <1>1 DEF NoneEmpty, Bytes, End, Section
<1>3. ASSUME NEW g \in Groups
      PROVE  /\ Len(PendingMem[g]) \in Nat /\ DOMAIN PendingMem[g] = 1..Len(PendingMem[g])
             /\ \A k \in DOMAIN PendingMem[g] :
                   Bytes(PendingMem[g][k]) /\ End(PendingMem[g][k]) \in Nat
             /\ \A k \in DOMAIN FreeMem[g] :
                   /\ Bytes(FreeMem[g][k]) /\ End(FreeMem[g][k]) \in Nat
                   /\ FreeMem[g][k] \in FreeMemBlock
  <2>1. PendingMem[g] \in Seq(Block) /\ FreeMem[g] \in Seq(FreeMemBlock)
    BY DEF TypeOK
  <2>2. /\ Len(PendingMem[g]) \in Nat /\ DOMAIN PendingMem[g] = 1..Len(PendingMem[g])
        /\ \A k \in DOMAIN PendingMem[g] : PendingMem[g][k] \in Block
        /\ \A k \in DOMAIN FreeMem[g] : FreeMem[g][k] \in FreeMemBlock
    BY <2>1, LenProperties
  <2>. QED
    BY <2>2 DEF NoneEmpty, Bytes, End, Block, FreeMemBlock
<1>4. /\ Len(AllocatedMem) \in Nat /\ DOMAIN AllocatedMem = 1..Len(AllocatedMem)
      /\ AllocatedMem # <<>> => Last(AllocatedMem) = AllocatedMem[Len(AllocatedMem)]
                                /\ Len(AllocatedMem) \in DOMAIN AllocatedMem
      /\ \A m \in DOMAIN AllocatedMem : AllocatedMem[m] \in Block
  BY LenProperties DEF TypeOK, Last
<1>5. \A m \in DOMAIN AllocatedMem : /\ AllocatedMem[m].base \in Nat
                                     /\ AllocatedMem[m].size \in Nat
                                     /\ End(AllocatedMem[m]) \in Nat
  BY <1>4 DEF Block, End
<1>6. FreshBase \in Nat
  BY <1>4, <1>5, MemoryAssumption DEF FreshBase
<1>. QED
  BY <1>1, <1>2, <1>3, <1>4, <1>5, <1>6

\* The pages touched are those of the sections and of the blocks.
LEMMA TouchedIs ==
  ASSUME NEW given, NEW pending, NEW free, NEW g, NEW p
  PROVE  p \in Touched(given, pending, free, g) <=>
            \/ \E i \in DOMAIN given : given[i].group = g /\ p \in Pages(given[i])
            \/ \E k \in DOMAIN pending : p \in Pages(pending[k])
            \/ \E k \in DOMAIN free : p \in Pages(free[k])
<1>. DEFINE A == UNION {Pages(given[i]) : i \in {j \in DOMAIN given : given[j].group = g}}
            B == UNION {Pages(pending[k]) : k \in DOMAIN pending}
            C == UNION {Pages(free[k]) : k \in DOMAIN free}
<1>1. Touched(given, pending, free, g) = A \cup B \cup C
  BY DEF Touched
<1>2. p \in A <=> \E i \in DOMAIN given : given[i].group = g /\ p \in Pages(given[i])
  OBVIOUS
<1>3. p \in B <=> \E k \in DOMAIN pending : p \in Pages(pending[k])
  OBVIOUS
<1>4. p \in C <=> \E k \in DOMAIN free : p \in Pages(free[k])
  OBVIOUS
<1>. HIDE DEF A, B, C
<1>. QED
  BY <1>1, <1>2, <1>3, <1>4

\* The pages of a group hold its sections and blocks.
LEMMA PagesOfHas ==
  ASSUME NEW g \in Groups
  PROVE  /\ \A i \in DOMAIN sections :
               sections[i].group = g => Pages(sections[i]) \subseteq PagesOf(g)
         /\ \A k \in DOMAIN PendingMem[g] : Pages(PendingMem[g][k]) \subseteq PagesOf(g)
         /\ \A k \in DOMAIN FreeMem[g] : Pages(FreeMem[g][k]) \subseteq PagesOf(g)
BY TouchedIs DEF PagesOf

\* Trimming leaves at most the block there was, from where a page starts on.
LEMMA TrimmedIs ==
  ASSUME NEW blocks \in Seq(FreeMemBlock),
         \A k \in DOMAIN blocks : k = 1 /\ blocks[k].size > 0 /\ OnPage(End(blocks[k]))
  PROVE  /\ Trimmed(blocks) \in Seq(FreeMemBlock)
         /\ \A k \in DOMAIN Trimmed(blocks) :
               /\ k = 1 /\ 1 \in DOMAIN blocks
               /\ Trimmed(blocks)[k].size > 0
               /\ End(Trimmed(blocks)[k]) = End(blocks[1])
               /\ blocks[1].base <= Trimmed(blocks)[k].base
               /\ OnPage(Trimmed(blocks)[k].base)
               /\ Trimmed(blocks)[k].pendingPrefix = 0
<1>. DEFINE Kept(f) == f = [i \in 0..Len(blocks) |->
                 IF i = 0 THEN <<>>
                 ELSE LET b == trimBlockToPageSize(blocks[i])
                      IN  IF b.size = 0 THEN f[i - 1] ELSE Append(f[i - 1], b)]
<1>1. Trimmed(blocks) = (CHOOSE f : Kept(f))[Len(blocks)]
  BY DEF Trimmed
<1>2. CASE blocks = <<>>
  <2>1. Len(blocks) = 0
    BY <1>2
  <2>2. Kept([i \in 0..0 |-> <<>>])
    BY <2>1
  <2>3. PICK f : Kept(f) /\ Trimmed(blocks) = f[0]
    <3>. HIDE DEF Kept
    <3>. QED
      BY <1>1, <2>1, <2>2
  <2>4. f[0] = <<>>
    BY <2>1, <2>3
  <2>. QED
    BY <2>3, <2>4
<1>3. CASE blocks # <<>>
  <2>1. Len(blocks) = 1 /\ 1 \in DOMAIN blocks /\ blocks[1] \in FreeMemBlock
    <3>1. Len(blocks) \in Nat /\ DOMAIN blocks = 1..Len(blocks) /\ Len(blocks) # 0
      BY <1>3, LenProperties, EmptySeq
    <3>2. ~(Len(blocks) >= 2)
      <4>1. ~(2 \in DOMAIN blocks)
        OBVIOUS
      <4>. QED
        BY <3>1, <4>1
    <3>3. 1 \in DOMAIN blocks /\ Len(blocks) = 1
      BY <3>1, <3>2
    <3>4. blocks[1] \in FreeMemBlock
      <4>1. 1 \in 1..Len(blocks)
        BY <3>3
      <4>. QED
        BY ONLY <4>1, ElementOfSeq, blocks \in Seq(FreeMemBlock)
    <3>. QED
      BY <3>3, <3>4
  <2>. DEFINE b == trimBlockToPageSize(blocks[1])
              one == IF b.size = 0 THEN <<>> ELSE <<b>>
              f1 == [i \in 0..1 |-> IF i = 0 THEN <<>> ELSE one]
  <2>2. f1[0] = <<>> /\ f1[1] = IF b.size = 0 THEN <<>> ELSE <<b>>
    OBVIOUS
  <2>. HIDE DEF b
  <2>3. Kept(f1)
    <3>1. \A i \in 0..Len(blocks) : f1[i] =
                 IF i = 0 THEN <<>>
                 ELSE LET c == trimBlockToPageSize(blocks[i])
                      IN  IF c.size = 0 THEN f1[i - 1] ELSE Append(f1[i - 1], c)
      <4>1. \A i \in 0..Len(blocks) : i = 0 \/ (i = 1 /\ i - 1 = 0)
        BY <2>1
      <4>2. Append(<<>>, b) = <<b>>
        OBVIOUS
      <4>. HIDE DEF f1
      <4>. QED
        BY <2>2, <4>1, <4>2 DEF b
    <3>2. 0..1 = 0..Len(blocks)
      BY <2>1
    <3>. QED
      BY <3>1, <3>2
  <2>4. PICK f : Kept(f) /\ Trimmed(blocks) = f[1]
    <3>. HIDE DEF Kept, f1
    <3>. QED
      BY <1>1, <2>1, <2>3
  <2>5. Trimmed(blocks) = IF b.size = 0 THEN <<>> ELSE <<b>>
    <3>1. f[0] = <<>>
      BY <2>1, <2>4
    <3>2. f[1] = IF b.size = 0 THEN f[0] ELSE Append(f[0], b)
      <4>1. 1 \in 0..Len(blocks) /\ 1 # 0 /\ 1 - 1 = 0
        BY <2>1
      <4>2. f[1] = IF trimBlockToPageSize(blocks[1]).size = 0 THEN f[0]
                   ELSE Append(f[0], trimBlockToPageSize(blocks[1]))
        BY <2>4, <4>1
      <4>. QED
        BY <4>2 DEF b
    <3>3. Append(<<>>, b) = <<b>>
      OBVIOUS
    <3>. QED
      BY ONLY <2>4, <3>1, <3>2, <3>3
  <2>6. /\ b \in FreeMemBlock /\ End(b) = End(blocks[1]) /\ blocks[1].base <= b.base
        /\ OnPage(b.base) /\ b.pendingPrefix = 0
    <3>1. PICK base \in Nat, size \in Nat, end \in Nat :
            /\ base = blocks[1].base /\ size = blocks[1].size /\ end = End(blocks[1])
            /\ end = base + size /\ OnPage(end)
      <4>1. blocks[1].base \in Nat /\ blocks[1].size \in Nat /\ OnPage(End(blocks[1]))
        BY <2>1 DEF FreeMemBlock
      <4>2. End(blocks[1]) = blocks[1].base + blocks[1].size
        BY DEF End
      <4>. QED
        BY ONLY <4>1, <4>2
    <3>2. PICK start \in Nat : /\ start = alignTo(base, PageSize) /\ base <= start
                               /\ OnPage(start) /\ start <= end
      <4>1. PageSize \in Nat \ {0} /\ end % PageSize = 0 /\ base <= end
        BY <3>1, MemoryAssumption DEF OnPage
      <4>2. /\ alignTo(base, PageSize) \in Nat /\ base <= alignTo(base, PageSize)
            /\ alignTo(base, PageSize) % PageSize = 0 /\ alignTo(base, PageSize) <= end
        <5>1. end \in Int /\ end % PageSize = 0 /\ base <= end
          BY <4>1
        <5>2. \A m \in Int : m % PageSize = 0 /\ base <= m => alignTo(base, PageSize) <= m
          BY <4>1, AlignToIs
        <5>3. alignTo(base, PageSize) <= end
          BY ONLY <5>1, <5>2
        <5>. QED
          BY <4>1, <5>3, AlignToIs
      <4>. QED
        BY ONLY <4>2 DEF OnPage
    <3>3. size - (start - base) = end - start /\ end - start \in Nat
      BY ONLY <3>1, <3>2, base \in Nat, size \in Nat, end \in Nat, start \in Nat
    <3>4. (end - start) % PageSize = 0
      BY <3>1, <3>2, MultiplesApart, MemoryAssumption DEF OnPage
    <3>5. (size - (start - base)) - ((size - (start - base)) % PageSize) = end - start
      BY ONLY <3>3, <3>4
    <3>6. b = [base |-> start, size |-> end - start, pendingPrefix |-> 0]
      BY <3>1, <3>2, <3>5 DEF b, trimBlockToPageSize
    <3>. QED
      BY <3>1, <3>2, <3>3, <3>6 DEF FreeMemBlock, End
  <2>7. CASE b.size = 0
    BY <2>5, <2>7
  <2>8. CASE b.size # 0
    <3>1. Trimmed(blocks) = <<b>>
      BY <2>5, <2>8
    <3>2. b.size > 0
      BY <2>6, <2>8 DEF FreeMemBlock
    <3>. QED
      BY <2>1, <2>6, <3>1, <3>2
  <2>. QED
    BY <2>7, <2>8
<1>. QED
  BY <1>2, <1>3

-----------------------------------------------------------------------------
(* allocateSection *)

\* What allocateSection(g) is asked for, takes it from, gives out and leaves.
Asked(g) == Head(todo[g])
Source(g) == FreeMem[g][1]
Given(g) == [group |-> g, base |-> alignTo(Source(g).base, AlignmentOf(Asked(g))),
             size |-> Asked(g).size, load |-> loads]
PrefixOf(g) == IF Source(g).pendingPrefix = 0 THEN Len(PendingMem[g]) + 1
               ELSE Source(g).pendingPrefix
Left(g) == Rest(Source(g), Given(g).base, Asked(g), PrefixOf(g))
NowPending(g) == IF Source(g).pendingPrefix = 0
                 THEN [base |-> Given(g).base, size |-> Asked(g).size]
                 ELSE Grow(PendingMem[g][PrefixOf(g)], Given(g).base, Asked(g))

\* allocateSection cuts the section out of the free block, whose rest has bytes.
LEMMA Cut ==
  ASSUME TypeOK, NoneEmpty, FreeLast, NEW g \in Groups, allocateSection(g)
  PROVE  /\ DOMAIN FreeMem[g] = {1}
         /\ Asked(g) \in SectionRequest
         /\ Source(g) \in FreeMemBlock /\ Bytes(Source(g)) /\ End(Source(g)) \in Nat
         /\ Given(g) \in Section /\ Bytes(Given(g)) /\ End(Given(g)) \in Nat
         /\ Given(g).group = g /\ Given(g).load = loads
         /\ Source(g).base <= Given(g).base /\ End(Given(g)) < End(Source(g))
         /\ PrefixOf(g) \in Nat \ {0}
         /\ Left(g) \in FreeMemBlock /\ Bytes(Left(g)) /\ Left(g).base = End(Given(g))
         /\ End(Left(g)) = End(Source(g)) /\ Left(g).pendingPrefix = PrefixOf(g)
         /\ NowPending(g) \in Block /\ Bytes(NowPending(g))
         /\ End(NowPending(g)) = End(Given(g)) /\ NowPending(g).base <= Given(g).base
         /\ \/ Source(g).pendingPrefix = 0 /\ NowPending(g).base = Given(g).base
               /\ PrefixOf(g) = Len(PendingMem[g]) + 1
            \/ /\ Source(g).pendingPrefix # 0 /\ PrefixOf(g) \in DOMAIN PendingMem[g]
               /\ End(PendingMem[g][PrefixOf(g)]) = Source(g).base
               /\ NowPending(g).base = PendingMem[g][PrefixOf(g)].base
<1>1. todo[g] \in Seq(SectionRequest) /\ todo[g] # <<>>
  BY DEF TypeOK, allocateSection
<1>2. Asked(g) \in SectionRequest
  BY <1>1, HeadTailProperties DEF Asked
<1>3. hasSpace(g, RequiredSize(Asked(g)))
  BY DEF allocateSection, Asked
<1>4. DOMAIN FreeMem[g] = {1} /\ Source(g).size >= RequiredSize(Asked(g))
  BY <1>3 DEF hasSpace, NoneEmpty, Source
<1>5. Source(g) \in FreeMemBlock /\ Bytes(Source(g)) /\ End(Source(g)) \in Nat
  BY <1>4, Blocks DEF Source
<1>6. PICK size \in Nat, align \in Nat \ {0}, base \in Nat, end \in Nat, pending \in Nat :
         /\ size = Asked(g).size /\ size > 0 /\ align = AlignmentOf(Asked(g))
         /\ base = Source(g).base /\ end = End(Source(g))
         /\ pending = Source(g).pendingPrefix
  BY <1>2, <1>5, RequiredSizeIs DEF Bytes, FreeMemBlock
<1>7. PICK addr \in Nat : /\ addr = alignTo(base, align) /\ addr = Given(g).base
                          /\ base <= addr /\ addr < base + align
  BY <1>6, AlignToIs DEF Given
<1>8. addr + size < end
  <2>1. RequiredSize(Asked(g)) = alignTo(size, align) + align
    BY <1>2, <1>6, RequiredSizeIs
  <2>2. alignTo(size, align) \in Nat /\ size <= alignTo(size, align)
    BY AlignToIs
  <2>3. end = base + Source(g).size /\ Source(g).size \in Nat
    BY <1>5, <1>6 DEF End, Bytes
  <2>. QED
    BY ONLY <1>4, <1>7, <2>1, <2>2, <2>3, size \in Nat, align \in Nat, base \in Nat,
            end \in Nat, addr \in Nat
<1>9. /\ Given(g) \in Section /\ Bytes(Given(g)) /\ Given(g).group = g
      /\ Given(g).load = loads /\ End(Given(g)) = addr + size
  <2>1. loads \in Nat
    BY MemoryAssumption DEF TypeOK
  <2>2. Given(g) = [group |-> g, base |-> addr, size |-> size, load |-> loads]
    BY <1>6, <1>7 DEF Given
  <2>. QED
    BY ONLY <1>6, <2>1, <2>2, g \in Groups, addr \in Nat, size \in Nat
       DEF Section, Bytes, End
<1>10. PICK n \in Nat \ {0} :
         /\ n = PrefixOf(g)
         /\ \/ pending = 0 /\ n = Len(PendingMem[g]) + 1
            \/ /\ pending # 0 /\ n \in DOMAIN PendingMem[g]
               /\ End(PendingMem[g][n]) = base
  <2>1. Len(PendingMem[g]) \in Nat
    BY Blocks
  <2>2. pending # 0 => /\ pending \in DOMAIN PendingMem[g]
                       /\ End(PendingMem[g][pending]) = base
    BY <1>4, <1>6 DEF FreeLast, Source
  <2>. QED
    BY <1>6, <2>1, <2>2 DEF PrefixOf
<1>11. Left(g) = [base |-> addr + size, size |-> end - addr - size, pendingPrefix |-> n]
  BY <1>6, <1>7, <1>10 DEF Left, Rest
<1>12. /\ Left(g) \in FreeMemBlock /\ Bytes(Left(g)) /\ Left(g).base = addr + size
       /\ End(Left(g)) = end /\ Left(g).pendingPrefix = n
  <2>1. end - addr - size \in Nat /\ end - addr - size > 0
        /\ (addr + size) + (end - addr - size) = end
    BY ONLY <1>8, addr \in Nat, size \in Nat, end \in Nat
  <2>. QED
    BY ONLY <1>11, <2>1, n \in Nat, addr \in Nat, size \in Nat DEF FreeMemBlock, Bytes, End
<1>13. /\ NowPending(g) \in Block /\ Bytes(NowPending(g))
       /\ End(NowPending(g)) = addr + size /\ NowPending(g).base <= addr
       /\ pending = 0 => NowPending(g).base = addr
       /\ pending # 0 => NowPending(g).base = PendingMem[g][n].base
  <2>1. CASE pending = 0
    <3>1. NowPending(g) = [base |-> addr, size |-> size]
      BY <1>6, <1>7, <2>1 DEF NowPending
    <3>. QED
      BY ONLY <1>6, <2>1, <3>1, addr \in Nat, size \in Nat DEF Block, Bytes, End
  <2>2. CASE pending # 0
    <3>1. n \in DOMAIN PendingMem[g] /\ End(PendingMem[g][n]) = base
      BY <1>10, <2>2
    <3>2. Bytes(PendingMem[g][n])
      BY <3>1, Blocks
    <3>3. PICK from \in Nat : from = PendingMem[g][n].base /\ from < base
      BY <3>1, <3>2 DEF Bytes, End
    <3>4. NowPending(g) = [base |-> from, size |-> addr + size - from]
      BY <1>6, <1>7, <1>10, <2>2, <3>3 DEF NowPending, Grow
    <3>5. addr + size - from \in Nat /\ addr + size - from > 0
          /\ from + (addr + size - from) = addr + size /\ from <= addr
      BY ONLY <1>6, <1>7, <3>3, addr \in Nat, size \in Nat, from \in Nat, base \in Nat
    <3>. QED
      BY ONLY <2>2, <3>3, <3>4, <3>5, from \in Nat DEF Block, Bytes, End
  <2>. QED
    BY <2>1, <2>2
<1>14. /\ Source(g).base <= Given(g).base /\ End(Given(g)) < End(Source(g))
       /\ End(Given(g)) \in Nat
  BY <1>6, <1>7, <1>8, <1>9
<1>. QED
  BY ONLY <1>2, <1>4, <1>5, <1>6, <1>7, <1>9, <1>10, <1>12, <1>13, <1>14

\* What allocateSection changes.
LEMMA Handed ==
  ASSUME TypeOK, NoneEmpty, FreeLast, NEW g \in Groups, allocateSection(g)
  PROVE  /\ FreeMem' \in [Groups -> Seq(FreeMemBlock)]
         /\ DOMAIN FreeMem'[g] = {1} /\ FreeMem'[g][1] = Left(g)
         /\ \A h \in Groups \ {g} : FreeMem'[h] = FreeMem[h]
         /\ PendingMem' \in [Groups -> Seq(Block)]
         /\ \A h \in Groups \ {g} : PendingMem'[h] = PendingMem[h]
         /\ DOMAIN PendingMem'[g] = DOMAIN PendingMem[g] \cup {PrefixOf(g)}
         /\ PendingMem'[g][PrefixOf(g)] = NowPending(g)
         /\ \A k \in DOMAIN PendingMem[g] \ {PrefixOf(g)} :
               PendingMem'[g][k] = PendingMem[g][k]
         /\ sections' \in Seq(Section) /\ Len(sections') = Len(sections) + 1
         /\ DOMAIN sections' = DOMAIN sections \cup {Len(sections) + 1}
         /\ Len(sections) + 1 \notin DOMAIN sections
         /\ sections'[Len(sections) + 1] = Given(g)
         /\ \A i \in DOMAIN sections : sections'[i] = sections[i]
         /\ todo' \in [Groups -> Seq(SectionRequest)]
         /\ todo'[g] = Tail(todo[g]) /\ \A h \in Groups \ {g} : todo'[h] = todo[h]
         /\ UNCHANGED <<AllocatedMem, perm, loads, finalized, failed>>
<1>1. /\ DOMAIN FreeMem[g] = {1} /\ Source(g).size >= RequiredSize(Asked(g))
      /\ Given(g) \in Section /\ Left(g) \in FreeMemBlock /\ NowPending(g) \in Block
  <2>1. hasSpace(g, RequiredSize(Asked(g)))
    BY DEF allocateSection, Asked
  <2>. QED
    BY <2>1, Cut DEF hasSpace, Source
<1>2. FirstFit(g, Asked(g)) = 1
  <2>1. \A j \in 1..(1 - 1) : FALSE
    OBVIOUS
  <2>. QED
    BY ONLY <1>1, <2>1 DEF FirstFit, Source
<1>3. /\ FreeMem' = [FreeMem EXCEPT ![g][1] = Left(g)]
      /\ sections' = Append(sections, Given(g))
      /\ todo' = [todo EXCEPT ![g] = Tail(@)]
      /\ PendingMem' =
            IF Source(g).pendingPrefix = 0
            THEN [PendingMem EXCEPT ![g] =
                    Append(@, [base |-> Given(g).base, size |-> Asked(g).size])]
            ELSE [PendingMem EXCEPT ![g][PrefixOf(g)] = Grow(@, Given(g).base, Asked(g))]
      /\ UNCHANGED <<AllocatedMem, perm, loads, finalized, failed>>
  <2>. DEFINE s == Head(todo[g])
              i == FirstFit(g, s)
              b == FreeMem[g][i]
              addr == alignTo(b.base, AlignmentOf(s))
              prefix == IF b.pendingPrefix = 0 THEN Len(PendingMem[g]) + 1
                                               ELSE b.pendingPrefix
  <2>1. /\ PendingMem' =
              IF b.pendingPrefix = 0
              THEN [PendingMem EXCEPT ![g] =
                      Append(@, [base |-> addr, size |-> s.size])]
              ELSE [PendingMem EXCEPT ![g][prefix] = Grow(@, addr, s)]
        /\ FreeMem' = [FreeMem EXCEPT ![g][i] = Rest(b, addr, s, prefix)]
        /\ sections' = Append(sections, [group |-> g, base |-> addr,
                                         size |-> s.size, load |-> loads])
        /\ todo' = [todo EXCEPT ![g] = Tail(@)]
        /\ UNCHANGED <<AllocatedMem, perm, loads, finalized, failed>>
    BY DEF allocateSection
  <2>2. s = Asked(g) /\ i = 1 /\ b = Source(g)
    BY <1>2 DEF Asked, Source
  <2>3. addr = Given(g).base
    BY <2>2 DEF Given
  <2>4. prefix = PrefixOf(g)
    BY <2>2 DEF PrefixOf
  <2>5. /\ Rest(b, addr, s, prefix) = Left(g)
        /\ [group |-> g, base |-> addr, size |-> s.size, load |-> loads] = Given(g)
    BY <2>2, <2>3, <2>4 DEF Left, Given
  <2>. HIDE DEF s, i, b, addr, prefix
  <2>. QED
    BY ONLY <2>1, <2>2, <2>3, <2>4, <2>5
<1>4. /\ FreeMem \in [Groups -> Seq(FreeMemBlock)] /\ PendingMem \in [Groups -> Seq(Block)]
      /\ sections \in Seq(Section) /\ todo \in [Groups -> Seq(SectionRequest)]
      /\ todo[g] # <<>>
  BY DEF TypeOK, allocateSection
<1>5. /\ FreeMem' \in [Groups -> Seq(FreeMemBlock)]
      /\ DOMAIN FreeMem'[g] = {1} /\ FreeMem'[g][1] = Left(g)
      /\ \A h \in Groups \ {g} : FreeMem'[h] = FreeMem[h]
  <2>. DEFINE free == [FreeMem[g] EXCEPT ![1] = Left(g)]
  <2>1. FreeMem[g] \in Seq(FreeMemBlock) /\ 1 \in 1..Len(FreeMem[g])
    BY <1>1, <1>4, LenProperties
  <2>2. free \in Seq(FreeMemBlock) /\ free[1] = Left(g) /\ DOMAIN free = {1}
    BY <1>1, <2>1, ExceptSeq
  <2>3. FreeMem' = [FreeMem EXCEPT ![g] = free]
    BY <1>3
  <2>. HIDE DEF free
  <2>. QED
    BY ONLY <1>4, <2>2, <2>3, g \in Groups
<1>6. /\ sections' \in Seq(Section) /\ Len(sections') = Len(sections) + 1
      /\ DOMAIN sections' = DOMAIN sections \cup {Len(sections) + 1}
      /\ Len(sections) + 1 \notin DOMAIN sections
      /\ sections'[Len(sections) + 1] = Given(g)
      /\ \A i \in DOMAIN sections : sections'[i] = sections[i]
  <2>1. Len(sections) \in Nat /\ DOMAIN sections = 1..Len(sections)
    BY <1>4, LenProperties
  <2>2. /\ sections' \in Seq(Section) /\ Len(sections') = Len(sections) + 1
        /\ sections'[Len(sections) + 1] = Given(g)
        /\ \A i \in 1..Len(sections) : sections'[i] = sections[i]
    BY <1>1, <1>3, <1>4, AppendProperties
  <2>3. DOMAIN sections' = 1..(Len(sections) + 1)
    BY <2>2, LenProperties
  <2>4. 1..(Len(sections) + 1) = (1..Len(sections)) \cup {Len(sections) + 1}
    BY <2>1
  <2>. QED
    BY ONLY <2>1, <2>2, <2>3, <2>4
<1>7. /\ todo' \in [Groups -> Seq(SectionRequest)]
      /\ todo'[g] = Tail(todo[g]) /\ \A h \in Groups \ {g} : todo'[h] = todo[h]
  <2>1. Tail(todo[g]) \in Seq(SectionRequest)
    BY <1>4, HeadTailProperties
  <2>. QED
    BY ONLY <1>3, <1>4, <2>1, g \in Groups
<1>8. /\ PendingMem' \in [Groups -> Seq(Block)]
      /\ \A h \in Groups \ {g} : PendingMem'[h] = PendingMem[h]
      /\ DOMAIN PendingMem'[g] = DOMAIN PendingMem[g] \cup {PrefixOf(g)}
      /\ PendingMem'[g][PrefixOf(g)] = NowPending(g)
      /\ \A k \in DOMAIN PendingMem[g] \ {PrefixOf(g)} :
            PendingMem'[g][k] = PendingMem[g][k]
  <2>. DEFINE old == PendingMem[g]
              new == IF Source(g).pendingPrefix = 0 THEN Append(old, NowPending(g))
                     ELSE [old EXCEPT ![PrefixOf(g)] = NowPending(g)]
  <2>1. PendingMem' = [PendingMem EXCEPT ![g] = new]
    <3>1. CASE Source(g).pendingPrefix = 0
      BY <1>3, <3>1 DEF NowPending
    <3>2. CASE Source(g).pendingPrefix # 0
      <4>1. NowPending(g) = Grow(old[PrefixOf(g)], Given(g).base, Asked(g))
        BY <3>2 DEF NowPending
      <4>2. new = [old EXCEPT ![PrefixOf(g)] = Grow(old[PrefixOf(g)], Given(g).base, Asked(g))]
        BY <3>2, <4>1
      <4>3. PendingMem' = [PendingMem EXCEPT ![g] =
               [old EXCEPT ![PrefixOf(g)] = Grow(old[PrefixOf(g)], Given(g).base, Asked(g))]]
        BY <1>3, <3>2
      <4>. HIDE DEF new
      <4>. QED
        BY ONLY <4>2, <4>3
    <3>. QED
      BY <3>1, <3>2
  <2>2. old \in Seq(Block) /\ Len(old) \in Nat /\ DOMAIN old = 1..Len(old)
    BY <1>4, LenProperties
  <2>. HIDE DEF old
  <2>3. /\ new \in Seq(Block)
        /\ DOMAIN new = DOMAIN old \cup {PrefixOf(g)}
        /\ new[PrefixOf(g)] = NowPending(g)
        /\ \A k \in DOMAIN old \ {PrefixOf(g)} : new[k] = old[k]
    <3>1. CASE Source(g).pendingPrefix = 0
      <4>1. new = Append(old, NowPending(g))
        BY <3>1
      <4>. HIDE DEF new
      <4>2. PrefixOf(g) = Len(old) + 1
        BY <3>1 DEF PrefixOf, old
      <4>3. /\ new \in Seq(Block) /\ Len(new) = Len(old) + 1
            /\ new[Len(old) + 1] = NowPending(g)
            /\ \A k \in 1..Len(old) : new[k] = old[k]
        BY ONLY <1>1, <2>2, <4>1, AppendProperties
      <4>4. DOMAIN new = 1..(Len(old) + 1)
        BY ONLY <4>3, LenProperties
      <4>5. 1..(Len(old) + 1) = (1..Len(old)) \cup {Len(old) + 1}
        BY ONLY <2>2
      <4>. QED
        BY ONLY <2>2, <4>2, <4>3, <4>4, <4>5
    <3>2. CASE Source(g).pendingPrefix # 0
      <4>1. new = [old EXCEPT ![PrefixOf(g)] = NowPending(g)]
        BY <3>2
      <4>. HIDE DEF new
      <4>2. PrefixOf(g) \in 1..Len(old)
        BY <2>2, <3>2, Cut DEF old
      <4>3. new \in Seq(Block) /\ DOMAIN new = DOMAIN old
        BY ONLY <1>1, <2>2, <4>1, <4>2, ExceptSeq
      <4>. QED
        BY ONLY <2>2, <4>1, <4>2, <4>3
    <3>. QED
      BY ONLY <3>1, <3>2
  <2>. HIDE DEF new
  <2>4. PendingMem'[g] = new /\ PendingMem' \in [Groups -> Seq(Block)]
        /\ \A h \in Groups \ {g} : PendingMem'[h] = PendingMem[h]
    BY ONLY <1>4, <2>1, <2>3, g \in Groups
  <2>. QED
    BY ONLY <2>3, <2>4 DEF old
<1>. QED
  BY <1>3, <1>5, <1>6, <1>7, <1>8

\* The group touches no page that it did not touch before.
LEMMA CutTouchesNoMore ==
  ASSUME TypeOK, NoneEmpty, FreeLast, NEW g \in Groups, allocateSection(g)
  PROVE  /\ PagesOf(g)' \subseteq PagesOf(g)
         /\ \A h \in Groups \ {g} : PagesOf(h)' = PagesOf(h)
         /\ Pages(Given(g)) \subseteq Pages(Source(g))
         /\ Pages(Left(g)) \subseteq Pages(Source(g))
<1>1. /\ Bytes(Source(g)) /\ Bytes(Given(g)) /\ Bytes(Left(g)) /\ Bytes(NowPending(g))
      /\ End(Source(g)) \in Nat /\ End(Given(g)) \in Nat
      /\ Source(g).base <= Given(g).base /\ End(Given(g)) < End(Source(g))
      /\ Left(g).base = End(Given(g)) /\ End(Left(g)) = End(Source(g))
      /\ End(NowPending(g)) = End(Given(g))
      /\ DOMAIN FreeMem[g] = {1}
  BY Cut
<1>2. Pages(Given(g)) \subseteq Pages(Source(g))
  BY <1>1, PagesInside DEF Inside, Bytes
<1>3. Pages(Left(g)) \subseteq Pages(Source(g))
  <2>1. Source(g).base <= Left(g).base
    BY <1>1 DEF Bytes, End
  <2>. QED
    BY <1>1, <2>1, PagesInside DEF Inside, Bytes
<1>4. Pages(Source(g)) \subseteq PagesOf(g)
  BY <1>1, PagesOfHas DEF Source
<1>5. Pages(NowPending(g)) \subseteq PagesOf(g)
  <2>1. CASE Source(g).pendingPrefix = 0
    <3>1. NowPending(g).base = Given(g).base
      BY <2>1, Cut
    <3>2. Pages(NowPending(g)) \subseteq Pages(Source(g))
      BY <1>1, <3>1, PagesInside DEF Inside, Bytes
    <3>. QED
      BY <1>4, <3>2
  <2>2. CASE Source(g).pendingPrefix # 0
    <3>1. PICK old : /\ \E k \in DOMAIN PendingMem[g] : old = PendingMem[g][k]
                     /\ End(old) = Source(g).base /\ NowPending(g).base = old.base
      BY <2>2, Cut
    <3>2. Bytes(old) /\ Pages(old) \subseteq PagesOf(g)
      BY <3>1, Blocks, PagesOfHas
    <3>3. Pages(NowPending(g)) \subseteq Pages(old) \cup Pages(Source(g))
      BY <1>1, <3>1, <3>2, PagesGrown DEF Bytes
    <3>. QED
      BY <1>4, <3>2, <3>3
  <2>. QED
    BY <2>1, <2>2
<1>6. PagesOf(g)' \subseteq PagesOf(g)
  <2>. SUFFICES ASSUME NEW p \in PagesOf(g)' PROVE p \in PagesOf(g)
    OBVIOUS
  <2>1. PagesOf(g)' = Touched(sections', PendingMem'[g], FreeMem'[g], g)
    BY DEF PagesOf
  <2>2. \/ \E i \in DOMAIN sections' : sections'[i].group = g /\ p \in Pages(sections'[i])
        \/ \E k \in DOMAIN PendingMem'[g] : p \in Pages(PendingMem'[g][k])
        \/ \E k \in DOMAIN FreeMem'[g] : p \in Pages(FreeMem'[g][k])
    BY <2>1, TouchedIs
  <2>3. CASE \E i \in DOMAIN sections' : sections'[i].group = g /\ p \in Pages(sections'[i])
    BY <1>2, <1>4, <2>3, Handed, PagesOfHas
  <2>4. CASE \E k \in DOMAIN PendingMem'[g] : p \in Pages(PendingMem'[g][k])
    <3>1. PICK k \in DOMAIN PendingMem'[g] : p \in Pages(PendingMem'[g][k])
      BY <2>4
    <3>2. CASE k = PrefixOf(g)
      <4>1. PendingMem'[g][k] = NowPending(g)
        BY <3>2, Handed
      <4>. QED
        BY <1>5, <3>1, <4>1
    <3>3. CASE k # PrefixOf(g)
      <4>1. k \in DOMAIN PendingMem[g] /\ PendingMem'[g][k] = PendingMem[g][k]
        BY <3>1, <3>3, Handed
      <4>. QED
        BY <3>1, <4>1, PagesOfHas
    <3>. QED
      BY <3>2, <3>3
  <2>5. CASE \E k \in DOMAIN FreeMem'[g] : p \in Pages(FreeMem'[g][k])
    BY <1>3, <1>4, <2>5, Handed
  <2>. QED
    BY <2>2, <2>3, <2>4, <2>5
<1>7. ASSUME NEW h \in Groups \ {g} PROVE PagesOf(h)' = PagesOf(h)
  <2>1. /\ PagesOf(h)' = Touched(sections', PendingMem'[h], FreeMem'[h], h)
        /\ PagesOf(h) = Touched(sections, PendingMem[h], FreeMem[h], h)
    BY DEF PagesOf
  <2>2. PendingMem'[h] = PendingMem[h] /\ FreeMem'[h] = FreeMem[h] /\ g # h
    BY <1>7, Handed
  <2>3. ASSUME NEW p
        PROVE  (\E i \in DOMAIN sections' : sections'[i].group = h /\ p \in Pages(sections'[i]))
           <=> (\E i \in DOMAIN sections : sections[i].group = h /\ p \in Pages(sections[i]))
    <3>1. Given(g).group # h
      BY <2>2, Cut
    <3>. QED
      BY <3>1, Handed
  <2>4. \A p : p \in PagesOf(h)' <=> p \in PagesOf(h)
    BY <2>1, <2>2, <2>3, TouchedIs
  <2>. QED
    BY ONLY <2>4
<1>. QED
  BY <1>2, <1>3, <1>6, <1>7

\* Blocks that have a byte in common have a page in common.
LEMMA OverlapSharesPage ==
  ASSUME NEW a, NEW b, Bytes(a), Bytes(b), Overlap(a, b)
  PROVE  \E p : p \in Pages(a) /\ p \in Pages(b)
<1>1. PICK ab \in Nat, ae \in Nat, bb \in Nat, be \in Nat :
        /\ ab = a.base /\ ae = End(a) /\ bb = b.base /\ be = End(b)
        /\ ab < ae /\ bb < be /\ ab < be /\ bb < ae
  BY DEF Bytes, End, Overlap
<1>2. PICK page \in Nat \ {0} : page = PageSize
  BY MemoryAssumption
<1>3. PICK x \in Nat : ab <= x /\ bb <= x /\ x < ae /\ x < be
  BY <1>1
<1>4. PICK p \in Int, r \in 0..(page - 1) : x = (page * p) + r
  <2>1. x \in Int
    OBVIOUS
  <2>. QED
    BY ONLY <2>1, DivMod, page \in Nat \ {0}
<1>5. p >= 0
  BY <1>4
<1>6. p * page <= x /\ x < p * page + page
  BY <1>4
<1>7. /\ p * page < ae /\ ab < p * page + page
      /\ p * page < be /\ bb < p * page + page
  BY <1>3, <1>6
<1>8. p \in Nat
  BY <1>5
<1>. QED
  BY <1>1, <1>2, <1>7, <1>8, PagesAre

\* allocateSection keeps the invariant.
LEMMA AllocateKeepsInv ==
  ASSUME Inv, NEW g \in Groups, allocateSection(g)
  PROVE  Inv'
<1>1. TypeOK /\ NoneEmpty /\ FreeLast
  BY DEF Inv
<1>2. PICK n : n = Len(sections) + 1
  OBVIOUS
<1>3. PICK given, left, source, pending, prefix :
        given = Given(g) /\ left = Left(g) /\ source = Source(g)
        /\ pending = NowPending(g) /\ prefix = PrefixOf(g)
  OBVIOUS
<1>4. /\ DOMAIN FreeMem[g] = {1} /\ source = FreeMem[g][1]
      /\ Bytes(source) /\ End(source) \in Nat
      /\ given \in Section /\ Bytes(given) /\ End(given) \in Nat
      /\ given.group = g /\ given.load = loads
      /\ source.base <= given.base /\ End(given) < End(source)
      /\ prefix \in Nat \ {0}
      /\ left \in FreeMemBlock /\ Bytes(left) /\ left.base = End(given)
      /\ End(left) = End(source) /\ left.pendingPrefix = prefix
      /\ pending \in Block /\ Bytes(pending)
      /\ End(pending) = End(given) /\ pending.base <= given.base
      /\ \/ prefix \notin DOMAIN PendingMem[g]
         \/ /\ prefix \in DOMAIN PendingMem[g]
            /\ End(PendingMem[g][prefix]) = source.base
            /\ pending.base = PendingMem[g][prefix].base
  <2>1. Source(g).pendingPrefix = 0 => PrefixOf(g) \notin DOMAIN PendingMem[g]
    BY <1>1, Cut, Blocks
  <2>. QED
    BY <1>1, <1>3, <2>1, Cut DEF Source
<1>5. /\ DOMAIN FreeMem'[g] = {1} /\ FreeMem'[g][1] = left
      /\ \A h \in Groups \ {g} : FreeMem'[h] = FreeMem[h]
      /\ \A h \in Groups \ {g} : PendingMem'[h] = PendingMem[h]
      /\ DOMAIN PendingMem'[g] = DOMAIN PendingMem[g] \cup {prefix}
      /\ PendingMem'[g][prefix] = pending
      /\ \A k \in DOMAIN PendingMem[g] \ {prefix} : PendingMem'[g][k] = PendingMem[g][k]
      /\ DOMAIN sections' = DOMAIN sections \cup {n} /\ n \notin DOMAIN sections
      /\ sections'[n] = given
      /\ \A i \in DOMAIN sections : sections'[i] = sections[i]
      /\ AllocatedMem' = AllocatedMem /\ perm' = perm /\ loads' = loads
      /\ finalized' = finalized /\ failed' = failed
  BY <1>1, <1>2, <1>3, Handed
<1>6. /\ PagesOf(g)' \subseteq PagesOf(g)
      /\ \A h \in Groups \ {g} : PagesOf(h)' = PagesOf(h)
      /\ Pages(given) \subseteq Pages(source) /\ Pages(left) \subseteq Pages(source)
      /\ Pages(source) \subseteq PagesOf(g)
  BY <1>1, <1>3, <1>4, CutTouchesNoMore, PagesOfHas
<1>7. /\ \A i \in DOMAIN sections : Bytes(sections[i]) /\ End(sections[i]) \in Nat
                                    /\ sections[i].group \in Groups
      /\ \A h \in Groups : \A k \in DOMAIN PendingMem[h] :
            Bytes(PendingMem[h][k]) /\ End(PendingMem[h][k]) \in Nat
  BY <1>1, Blocks
<1>8. FreshBase' = FreshBase
  BY <1>5 DEF FreshBase
<1>9. TypeOK'
  <2>1. /\ FreeMem' \in [Groups -> Seq(FreeMemBlock)]
        /\ PendingMem' \in [Groups -> Seq(Block)]
        /\ sections' \in Seq(Section) /\ Len(sections') = Len(sections) + 1
        /\ todo' \in [Groups -> Seq(SectionRequest)]
    BY <1>1, Handed
  <2>2. finalized' \in 0..Len(sections')
    <3>1. Len(sections) \in Nat /\ finalized \in 0..Len(sections)
      BY <1>1, Blocks DEF TypeOK
    <3>. QED
      BY <1>5, <2>1, <3>1
  <2>. QED
    BY <1>1, <1>5, <2>1, <2>2 DEF TypeOK
<1>10. NoneEmpty'
  <2>1. \A i \in DOMAIN sections' : sections'[i].size > 0
    BY <1>1, <1>4, <1>5 DEF NoneEmpty, Bytes
  <2>2. ASSUME NEW h \in Groups
        PROVE  /\ \A k \in DOMAIN PendingMem'[h] : PendingMem'[h][k].size > 0
               /\ \A k \in DOMAIN FreeMem'[h] : k = 1 /\ FreeMem'[h][k].size > 0
    <3>1. CASE h = g
      BY <1>1, <1>4, <1>5, <3>1 DEF NoneEmpty, Bytes
    <3>2. CASE h # g
      BY <1>1, <1>5, <3>2 DEF NoneEmpty
    <3>. QED
      BY <3>1, <3>2
  <2>. QED
    BY <2>1, <2>2 DEF NoneEmpty
<1>11. MappedSoFar'
  <2>1. \A h \in Groups : PagesOf(h)' \subseteq PagesOf(h)
    BY <1>6
  <2>. QED
    BY <1>5, <1>8, <2>1 DEF Inv, MappedSoFar, OnPage
<1>12. GroupsApart'
  <2>1. \A h \in Groups : PagesOf(h)' \subseteq PagesOf(h)
    BY <1>6
  <2>. QED
    BY <2>1 DEF Inv, GroupsApart
<1>13. FreeLast'
  <2>. SUFFICES ASSUME NEW h \in Groups, NEW k \in DOMAIN FreeMem'[h]
       PROVE  LET b == FreeMem'[h][k]
              IN  /\ OnPage(End(b))
                  /\ AllocatedMem' # <<>> /\ Inside(b, Last(AllocatedMem'))
                  /\ \A i \in DOMAIN sections' :
                        sections'[i].group = h => End(sections'[i]) <= b.base
                  /\ \A m \in DOMAIN PendingMem'[h] : End(PendingMem'[h][m]) <= b.base
                  /\ b.pendingPrefix # 0 =>
                        /\ b.pendingPrefix \in DOMAIN PendingMem'[h]
                        /\ End(PendingMem'[h][b.pendingPrefix]) = b.base
    BY DEF FreeLast, OnPage
  <2>1. CASE h = g
    <3>1. /\ OnPage(End(source))
          /\ AllocatedMem # <<>> /\ Inside(source, Last(AllocatedMem))
          /\ \A i \in DOMAIN sections : sections[i].group = g => End(sections[i]) <= source.base
          /\ \A m \in DOMAIN PendingMem[g] : End(PendingMem[g][m]) <= source.base
      BY <1>1, <1>4 DEF FreeLast
    <3>2. k = 1 /\ FreeMem'[h][k] = left
      BY <1>5, <2>1
    <3>3. source.base <= left.base /\ left.base \in Nat /\ source.base \in Nat
      BY <1>4 DEF Bytes, End
    <3>4. Inside(left, Last(AllocatedMem))
      <4>1. AllocatedMem # <<>> => Last(AllocatedMem).base \in Nat
        BY <1>1, Blocks
      <4>. QED
        BY <1>4, <3>1, <3>3, <4>1 DEF Inside
    <3>5. \A i \in DOMAIN sections' :
             sections'[i].group = g => End(sections'[i]) <= left.base
      BY <1>4, <1>5, <1>7, <3>1, <3>3
    <3>6. \A m \in DOMAIN PendingMem'[g] : End(PendingMem'[g][m]) <= left.base
      BY <1>4, <1>5, <1>7, <3>1, <3>3
    <3>. QED
      BY <1>4, <1>5, <2>1, <3>1, <3>2, <3>4, <3>5, <3>6
  <2>2. CASE h # g
    <3>1. FreeMem'[h] = FreeMem[h] /\ PendingMem'[h] = PendingMem[h]
      BY <1>5, <2>2
    <3>2. \A i \in DOMAIN sections' : sections'[i].group = h =>
             i \in DOMAIN sections /\ sections'[i] = sections[i]
      BY <1>4, <1>5, <2>2
    <3>. QED
      BY <1>1, <1>5, <3>1, <3>2 DEF FreeLast
  <2>. QED
    BY <2>1, <2>2
<1>14. FreeWritable'
  <2>1. ASSUME ~failed, NEW h \in Groups, NEW k \in DOMAIN FreeMem'[h],
               NEW p \in Pages(FreeMem'[h][k])
        PROVE  perm[p] = "rw"
    <3>1. \A j \in DOMAIN FreeMem[h] : \A q \in Pages(FreeMem[h][j]) : perm[q] = "rw"
      BY <2>1 DEF Inv, FreeWritable
    <3>2. CASE h = g
      BY <1>4, <1>5, <1>6, <2>1, <3>1, <3>2
    <3>3. CASE h # g
      BY <1>5, <2>1, <3>1, <3>3
    <3>. QED
      BY <3>2, <3>3
  <2>. QED
    BY <1>5, <2>1 DEF FreeWritable
<1>15. SectionsApart'
  <2>1. ASSUME NEW i \in DOMAIN sections
        PROVE  ~Overlap(sections[i], given) /\ ~Overlap(given, sections[i])
    <3>1. CASE sections[i].group = g
      <4>1. End(sections[i]) <= source.base
        BY <1>1, <1>4, <2>1, <3>1 DEF FreeLast
      <4>2. ~(given.base < End(sections[i]))
        BY <1>4, <1>7, <2>1, <4>1 DEF Bytes
      <4>. QED
        BY ONLY <4>2 DEF Overlap
    <3>2. CASE sections[i].group # g
      <4>1. PICK h \in Groups : h = sections[i].group /\ h # g
        BY <1>7, <2>1, <3>2
      <4>2. Pages(sections[i]) \subseteq PagesOf(h) /\ Pages(given) \subseteq PagesOf(g)
        BY <1>6, <2>1, <4>1, PagesOfHas
      <4>3. PagesOf(g) \cap PagesOf(h) = {}
        BY <4>1 DEF Inv, GroupsApart
      <4>4. ~\E p : p \in Pages(sections[i]) /\ p \in Pages(given)
        BY <4>2, <4>3
      <4>5. Bytes(sections[i]) /\ Bytes(given)
        BY <1>4, <1>7, <2>1
      <4>. QED
        BY ONLY <4>4, <4>5, OverlapSharesPage
    <3>. QED
      BY <3>1, <3>2
  <2>. QED
    BY <1>5, <2>1 DEF Inv, SectionsApart
<1>16. LoadsTogether'
  <2>1. AllocatedMem # <<>> /\ Inside(given, Last(AllocatedMem))
    <3>1. AllocatedMem # <<>> /\ Inside(source, Last(AllocatedMem))
      BY <1>1, <1>4 DEF FreeLast
    <3>2. Last(AllocatedMem).base \in Nat /\ End(Last(AllocatedMem)) \in Nat
      BY <1>1, <3>1, Blocks
    <3>. QED
      BY <1>4, <3>1, <3>2 DEF Inside, Bytes
  <2>2. PICK m \in DOMAIN AllocatedMem : AllocatedMem[m] = Last(AllocatedMem)
    BY <1>1, <2>1, Blocks
  <2>3. loads \in Nat
    BY <1>1, MemoryAssumption DEF TypeOK
  <2>4. \A i \in DOMAIN sections' :
          /\ sections'[i].load <= loads
          /\ sections'[i].load = loads => Inside(sections'[i], AllocatedMem[m])
    BY <1>4, <1>5, <2>1, <2>2, <2>3 DEF Inv, LoadsTogether
  <2>5. ASSUME NEW i \in DOMAIN sections', NEW j \in DOMAIN sections',
               sections'[i].load = sections'[j].load
        PROVE  \E o \in DOMAIN AllocatedMem :
                  Inside(sections'[i], AllocatedMem[o]) /\ Inside(sections'[j], AllocatedMem[o])
    <3>1. CASE i = n \/ j = n
      <4>1. sections'[i].load = loads /\ sections'[j].load = loads
        BY <1>4, <1>5, <2>5, <3>1
      <4>. QED
        BY <2>4, <2>5, <4>1
    <3>2. CASE i # n /\ j # n
      <4>1. /\ i \in DOMAIN sections /\ j \in DOMAIN sections
            /\ sections'[i] = sections[i] /\ sections'[j] = sections[j]
        BY <1>5, <2>5, <3>2
      <4>. QED
        BY <2>5, <4>1 DEF Inv, LoadsTogether, ObjectInOneMapping
    <3>. QED
      BY <3>1, <3>2
  <2>6. ObjectInOneMapping'
    BY <1>5, <2>5 DEF ObjectInOneMapping, Inside
  <2>. QED
    BY <1>5, <2>1, <2>2, <2>4, <2>6 DEF LoadsTogether, Inside
<1>17. WritableUntilFinalized'
  <2>1. ASSUME ~failed, NEW i \in DOMAIN sections',
               sections'[i].group = "RWData" \/ i > finalized, NEW p \in Pages(sections'[i])
        PROVE  perm[p] = "rw"
    <3>1. CASE i = n
      <4>1. p \in Pages(source)
        BY <1>5, <1>6, <2>1, <3>1
      <4>. QED
        BY <1>4, <2>1, <4>1 DEF Inv, FreeWritable
    <3>2. CASE i # n
      <4>1. i \in DOMAIN sections /\ sections'[i] = sections[i]
        BY <1>5, <2>1, <3>2
      <4>. QED
        BY <2>1, <4>1 DEF Inv, WritableUntilFinalized
    <3>. QED
      BY <3>1, <3>2
  <2>. QED
    BY <1>5, <2>1 DEF WritableUntilFinalized
<1>18. PendingOrProtected'
  <2>. DEFINE Wanted(s) == [Code |-> "rx", ROData |-> "r", RWData |-> "rw"][s.group]
  <2>1. ASSUME NEW i \in DOMAIN sections'
        PROVE  \/ \A p \in Pages(sections'[i]) : perm[p] = Wanted(sections'[i])
               \/ \E k \in DOMAIN PendingMem'[sections'[i].group] :
                     Inside(sections'[i], PendingMem'[sections'[i].group][k])
    <3>1. CASE i = n
      <4>1. Inside(given, pending)
        BY <1>4 DEF Inside
      <4>. QED
        BY <1>4, <1>5, <3>1, <4>1
    <3>2. CASE i # n
      <4>1. i \in DOMAIN sections /\ sections'[i] = sections[i]
        BY <1>5, <2>1, <3>2
      <4>2. PICK h \in Groups : h = sections[i].group
        BY <1>7, <4>1
      <4>3. \/ \A p \in Pages(sections[i]) : perm[p] = Wanted(sections[i])
            \/ \E k \in DOMAIN PendingMem[h] : Inside(sections[i], PendingMem[h][k])
        BY <4>1, <4>2 DEF Inv, PendingOrProtected
      <4>4. ASSUME NEW k \in DOMAIN PendingMem[h], Inside(sections[i], PendingMem[h][k])
            PROVE  k \in DOMAIN PendingMem'[h] /\ Inside(sections[i], PendingMem'[h][k])
        <5>1. CASE h = g /\ k = prefix
          <6>1. /\ PendingMem'[h][k] = pending /\ pending.base = PendingMem[g][k].base
                /\ End(PendingMem[g][k]) = source.base
            BY <1>4, <1>5, <4>4, <5>1
          <6>2. End(PendingMem[g][k]) <= End(pending)
            BY <1>4, <6>1 DEF Bytes, End
          <6>3. End(sections[i]) <= End(pending) /\ pending.base <= sections[i].base
            BY <1>4, <1>7, <4>1, <4>4, <5>1, <6>1, <6>2 DEF Inside
          <6>. QED
            BY <1>5, <5>1, <6>1, <6>3 DEF Inside
        <5>2. CASE h # g \/ k # prefix
          BY <1>5, <4>4, <5>2
        <5>. QED
          BY <5>1, <5>2
      <4>. QED
        BY <4>1, <4>2, <4>3, <4>4
    <3>. QED
      BY <3>1, <3>2
  <2>. QED
    BY <1>5, <2>1 DEF PendingOrProtected, Inside
<1>. QED
  BY <1>9, <1>10, <1>11, <1>12, <1>13, <1>14, <1>15, <1>16, <1>17, <1>18 DEF Inv

-----------------------------------------------------------------------------
(* finalizeMemory *)

\* The pages that pending blocks of a group are on.
Prot(g) == UNION {Pages(PendingMem[g][k]) : k \in DOMAIN PendingMem[g]}

\* What finalizeMemory does with the free blocks of a group: each that is left
\* ends where it did and starts no earlier, nor, if the group is done, before a
\* page does.
Shrunk(g, done) ==
    /\ \A k \in DOMAIN FreeMem'[g] :
          /\ k = 1 /\ 1 \in DOMAIN FreeMem[g]
          /\ FreeMem'[g][1].size > 0
          /\ End(FreeMem'[g][1]) = End(FreeMem[g][1])
          /\ FreeMem[g][1].base <= FreeMem'[g][1].base
          /\ done => OnPage(FreeMem'[g][1].base) /\ FreeMem'[g][1].pendingPrefix = 0
          /\ ~done => FreeMem'[g][1] = FreeMem[g][1]

\* finalizeMemory changes the permissions of pages x to "rx" and y to "r",
\* which pending blocks of the two groups are on; of all of them for a group
\* that it is done with, whose pending blocks it forgets.
LEMMA FinalizeGives ==
  ASSUME TypeOK, NoneEmpty, FreeLast, finalizeMemory
  PROVE  \E x, y, codeDone, dataDone :
            /\ codeDone \in BOOLEAN /\ dataDone \in BOOLEAN
            /\ x \subseteq Prot("Code") /\ y \subseteq Prot("ROData")
            /\ codeDone => x = Prot("Code")
            /\ dataDone => codeDone /\ y = Prot("ROData")
            /\ perm' = [p \in DOMAIN perm |->
                          IF p \in x THEN "rx" ELSE IF p \in y THEN "r" ELSE perm[p]]
            /\ PendingMem' \in [Groups -> Seq(Block)]
            /\ FreeMem' \in [Groups -> Seq(FreeMemBlock)]
            /\ PendingMem'["Code"] = IF codeDone THEN <<>> ELSE PendingMem["Code"]
            /\ PendingMem'["ROData"] = IF dataDone THEN <<>> ELSE PendingMem["ROData"]
            /\ PendingMem'["RWData"] = PendingMem["RWData"]
            /\ Shrunk("Code", codeDone) /\ Shrunk("ROData", dataDone)
            /\ Shrunk("RWData", FALSE)
            /\ finalized' = IF dataDone THEN Len(sections) ELSE finalized
            /\ failed' = (failed \/ ~dataDone)
            /\ UNCHANGED <<AllocatedMem, todo, loads, sections>>
<1>1. PICK nc \in 0..Len(PendingMem["Code"]), nr \in 0..Len(PendingMem["ROData"]) :
          LET codeDone == nc = Len(PendingMem["Code"])
              dataDone == codeDone /\ nr = Len(PendingMem["ROData"])
              done == {g \in {"Code", "ROData"} :
                          IF g = "Code" THEN codeDone ELSE dataDone}
          IN  /\ codeDone \/ nr = 0
              /\ perm' = [p \in DOMAIN perm |->
                     IF p \in Protected("Code", nc) THEN "rx"
                     ELSE IF p \in Protected("ROData", nr) THEN "r"
                     ELSE perm[p]]
              /\ PendingMem' = [g \in Groups |->
                     IF g \in done THEN <<>> ELSE PendingMem[g]]
              /\ FreeMem' = [g \in Groups |->
                     IF g \in done THEN Trimmed(FreeMem[g]) ELSE FreeMem[g]]
              /\ finalized' = IF dataDone THEN Len(sections) ELSE finalized
              /\ failed' = (failed \/ ~dataDone)
  BY DEF finalizeMemory
<1>2. PICK codeDone \in BOOLEAN, dataDone \in BOOLEAN :
        /\ codeDone <=> nc = Len(PendingMem["Code"])
        /\ dataDone <=> codeDone /\ nr = Len(PendingMem["ROData"])
  OBVIOUS
<1>3. PICK isDone : isDone = [Code |-> codeDone, ROData |-> dataDone, RWData |-> FALSE]
  OBVIOUS
<1>4. /\ perm' = [p \in DOMAIN perm |->
                     IF p \in Protected("Code", nc) THEN "rx"
                     ELSE IF p \in Protected("ROData", nr) THEN "r"
                     ELSE perm[p]]
      /\ PendingMem' = [g \in Groups |-> IF isDone[g] THEN <<>> ELSE PendingMem[g]]
      /\ FreeMem' = [g \in Groups |-> IF isDone[g] THEN Trimmed(FreeMem[g]) ELSE FreeMem[g]]
      /\ finalized' = IF dataDone THEN Len(sections) ELSE finalized
      /\ failed' = (failed \/ ~dataDone)
  <2>. DEFINE cd == nc = Len(PendingMem["Code"])
              dd == cd /\ nr = Len(PendingMem["ROData"])
              done == {g \in {"Code", "ROData"} : IF g = "Code" THEN cd ELSE dd}
  <2>1. /\ perm' = [p \in DOMAIN perm |->
                     IF p \in Protected("Code", nc) THEN "rx"
                     ELSE IF p \in Protected("ROData", nr) THEN "r"
                     ELSE perm[p]]
        /\ PendingMem' = [g \in Groups |-> IF g \in done THEN <<>> ELSE PendingMem[g]]
        /\ FreeMem' = [g \in Groups |-> IF g \in done THEN Trimmed(FreeMem[g]) ELSE FreeMem[g]]
        /\ finalized' = IF dd THEN Len(sections) ELSE finalized
        /\ failed' = (failed \/ ~dd)
    BY <1>1
  <2>2. (cd <=> codeDone) /\ (dd <=> dataDone)
    BY <1>2
  <2>3. \A g \in Groups : g \in done <=> isDone[g]
    BY ONLY <1>3, <2>2 DEF Groups
  <2>. HIDE DEF cd, dd, done
  <2>4. /\ [g \in Groups |-> IF g \in done THEN <<>> ELSE PendingMem[g]]
             = [g \in Groups |-> IF isDone[g] THEN <<>> ELSE PendingMem[g]]
        /\ [g \in Groups |-> IF g \in done THEN Trimmed(FreeMem[g]) ELSE FreeMem[g]]
             = [g \in Groups |-> IF isDone[g] THEN Trimmed(FreeMem[g]) ELSE FreeMem[g]]
    BY ONLY <2>3
  <2>. QED
    BY ONLY <2>1, <2>2, <2>4
<1>5. UNCHANGED <<AllocatedMem, todo, loads, sections>>
  BY DEF finalizeMemory
<1>6. ASSUME NEW g \in Groups
      PROVE  Len(PendingMem[g]) \in Nat /\ DOMAIN PendingMem[g] = 1..Len(PendingMem[g])
  BY Blocks
<1>7. Protected("Code", nc) \subseteq Prot("Code") /\ Protected("ROData", nr) \subseteq Prot("ROData")
  <2>1. (1..nc) \subseteq DOMAIN PendingMem["Code"] /\ (1..nr) \subseteq DOMAIN PendingMem["ROData"]
    BY <1>6 DEF Groups
  <2>. QED
    BY <2>1 DEF Protected, Prot
<1>8. codeDone => Protected("Code", nc) = Prot("Code")
  BY <1>2, <1>6 DEF Groups, Protected, Prot
<1>9. dataDone => Protected("ROData", nr) = Prot("ROData")
  BY <1>2, <1>6 DEF Groups, Protected, Prot
<1>10. ASSUME NEW g \in Groups
       PROVE  /\ PendingMem'[g] = IF isDone[g] THEN <<>> ELSE PendingMem[g]
              /\ PendingMem'[g] \in Seq(Block)
              /\ FreeMem'[g] \in Seq(FreeMemBlock)
              /\ Shrunk(g, isDone[g])
  <2>1. /\ PendingMem'[g] = IF isDone[g] THEN <<>> ELSE PendingMem[g]
        /\ FreeMem'[g] = IF isDone[g] THEN Trimmed(FreeMem[g]) ELSE FreeMem[g]
    BY <1>4
  <2>2. /\ FreeMem[g] \in Seq(FreeMemBlock) /\ PendingMem[g] \in Seq(Block)
        /\ \A k \in DOMAIN FreeMem[g] :
              k = 1 /\ FreeMem[g][k].size > 0 /\ OnPage(End(FreeMem[g][k]))
    BY DEF TypeOK, NoneEmpty, FreeLast
  <2>3. PendingMem'[g] \in Seq(Block)
    BY <2>1, <2>2, EmptySeq
  <2>4. isDone[g] \in BOOLEAN
    <3>1. isDone["Code"] = codeDone /\ isDone["ROData"] = dataDone /\ isDone["RWData"] = FALSE
      BY <1>3
    <3>2. g = "Code" \/ g = "ROData" \/ g = "RWData"
      BY DEF Groups
    <3>. QED
      BY <1>2, <3>1, <3>2, Zenon
  <2>5. CASE isDone[g]
    <3>1. FreeMem'[g] = Trimmed(FreeMem[g])
      BY <2>1, <2>5
    <3>2. /\ Trimmed(FreeMem[g]) \in Seq(FreeMemBlock)
          /\ \A k \in DOMAIN Trimmed(FreeMem[g]) :
               /\ k = 1 /\ 1 \in DOMAIN FreeMem[g]
               /\ Trimmed(FreeMem[g])[k].size > 0
               /\ End(Trimmed(FreeMem[g])[k]) = End(FreeMem[g][1])
               /\ FreeMem[g][1].base <= Trimmed(FreeMem[g])[k].base
               /\ OnPage(Trimmed(FreeMem[g])[k].base)
               /\ Trimmed(FreeMem[g])[k].pendingPrefix = 0
      BY <2>2, TrimmedIs
    <3>3. Shrunk(g, TRUE)
      BY <3>1, <3>2 DEF Shrunk
    <3>. QED
      BY <2>1, <2>3, <2>4, <2>5, <3>1, <3>2, <3>3
  <2>6. CASE ~isDone[g]
    <3>1. FreeMem'[g] = FreeMem[g]
      BY <2>1, <2>6
    <3>2. \A k \in DOMAIN FreeMem[g] : FreeMem[g][k].base \in Nat
      BY Blocks DEF Bytes
    <3>3. Shrunk(g, FALSE)
      BY <2>2, <3>1, <3>2 DEF Shrunk
    <3>. QED
      BY <2>1, <2>2, <2>3, <2>4, <2>6, <3>1, <3>3
  <2>. QED
    BY <2>4, <2>5, <2>6
<1>11. /\ PendingMem' \in [Groups -> Seq(Block)]
       /\ FreeMem' \in [Groups -> Seq(FreeMemBlock)]
  BY <1>4, <1>10
<1>12. /\ PendingMem'["Code"] = IF codeDone THEN <<>> ELSE PendingMem["Code"]
       /\ PendingMem'["ROData"] = IF dataDone THEN <<>> ELSE PendingMem["ROData"]
       /\ PendingMem'["RWData"] = PendingMem["RWData"]
       /\ Shrunk("Code", codeDone) /\ Shrunk("ROData", dataDone)
       /\ Shrunk("RWData", FALSE)
  <2>1. /\ "Code" \in Groups /\ "ROData" \in Groups /\ "RWData" \in Groups
        /\ isDone["Code"] = codeDone /\ isDone["ROData"] = dataDone /\ isDone["RWData"] = FALSE
    BY <1>3 DEF Groups
  <2>. QED
    BY <1>10, <2>1
<1>13. PICK x, y : x = Protected("Code", nc) /\ y = Protected("ROData", nr)
  OBVIOUS
<1>14. /\ x \subseteq Prot("Code") /\ y \subseteq Prot("ROData")
       /\ codeDone => x = Prot("Code")
       /\ dataDone => codeDone /\ y = Prot("ROData")
       /\ perm' = [p \in DOMAIN perm |->
                     IF p \in x THEN "rx" ELSE IF p \in y THEN "r" ELSE perm[p]]
  BY <1>2, <1>4, <1>7, <1>8, <1>9, <1>13
<1>. QED
  BY <1>2, <1>4, <1>5, <1>11, <1>12, <1>14

\* finalizeMemory keeps the invariant.
LEMMA FinalizeKeepsInv ==
  ASSUME Inv, finalizeMemory
  PROVE  Inv'
<1>1. TypeOK /\ NoneEmpty /\ FreeLast /\ MappedSoFar /\ GroupsApart
  BY DEF Inv
<1>2. PICK x, y, codeDone, dataDone :
        /\ codeDone \in BOOLEAN /\ dataDone \in BOOLEAN
        /\ x \subseteq Prot("Code") /\ y \subseteq Prot("ROData")
        /\ codeDone => x = Prot("Code")
        /\ dataDone => codeDone /\ y = Prot("ROData")
        /\ perm' = [p \in DOMAIN perm |->
                      IF p \in x THEN "rx" ELSE IF p \in y THEN "r" ELSE perm[p]]
        /\ PendingMem' \in [Groups -> Seq(Block)]
        /\ FreeMem' \in [Groups -> Seq(FreeMemBlock)]
        /\ PendingMem'["Code"] = IF codeDone THEN <<>> ELSE PendingMem["Code"]
        /\ PendingMem'["ROData"] = IF dataDone THEN <<>> ELSE PendingMem["ROData"]
        /\ PendingMem'["RWData"] = PendingMem["RWData"]
        /\ Shrunk("Code", codeDone) /\ Shrunk("ROData", dataDone)
        /\ Shrunk("RWData", FALSE)
        /\ finalized' = IF dataDone THEN Len(sections) ELSE finalized
        /\ failed' = (failed \/ ~dataDone)
        /\ UNCHANGED <<AllocatedMem, todo, loads, sections>>
  BY <1>1, FinalizeGives
<1>3. ASSUME NEW g \in Groups
      PROVE  \/ Shrunk(g, TRUE) /\ PendingMem'[g] = <<>>
             \/ Shrunk(g, FALSE) /\ PendingMem'[g] = PendingMem[g]
  BY <1>2 DEF Groups
<1>4. \A g \in Groups : \A k \in DOMAIN PendingMem'[g] : PendingMem'[g] = PendingMem[g]
  <2>1. DOMAIN (<<>>) = {}
    OBVIOUS
  <2>. QED
    BY ONLY <1>3, <2>1
<1>5. /\ \A i \in DOMAIN sections : Bytes(sections[i]) /\ End(sections[i]) \in Nat
                                    /\ sections[i].group \in Groups
      /\ \A g \in Groups : \A k \in DOMAIN PendingMem[g] :
            Bytes(PendingMem[g][k]) /\ End(PendingMem[g][k]) \in Nat
      /\ \A g \in Groups : \A k \in DOMAIN FreeMem[g] :
            Bytes(FreeMem[g][k]) /\ End(FreeMem[g][k]) \in Nat
  BY <1>1, Blocks
<1>6. ASSUME NEW g \in Groups, NEW k \in DOMAIN FreeMem'[g]
      PROVE  /\ k = 1 /\ 1 \in DOMAIN FreeMem[g]
             /\ Bytes(FreeMem'[g][1]) /\ End(FreeMem'[g][1]) = End(FreeMem[g][1])
             /\ FreeMem[g][1].base <= FreeMem'[g][1].base
             /\ Inside(FreeMem'[g][1], FreeMem[g][1])
             /\ Pages(FreeMem'[g][1]) \subseteq Pages(FreeMem[g][1])
  <2>1. /\ k = 1 /\ 1 \in DOMAIN FreeMem[g] /\ FreeMem'[g][1].size > 0
        /\ End(FreeMem'[g][1]) = End(FreeMem[g][1])
        /\ FreeMem[g][1].base <= FreeMem'[g][1].base
    BY <1>3, <1>6 DEF Shrunk
  <2>2. FreeMem'[g][1] \in FreeMemBlock
    <3>1. FreeMem'[g] \in Seq(FreeMemBlock)
      BY <1>2
    <3>2. 1 \in 1..Len(FreeMem'[g])
      BY <1>6, <2>1, <3>1, LenProperties
    <3>. QED
      BY ONLY <3>1, <3>2, ElementOfSeq
  <2>3. Bytes(FreeMem'[g][1]) /\ Bytes(FreeMem[g][1])
    BY <1>5, <2>1, <2>2 DEF Bytes, FreeMemBlock
  <2>4. Inside(FreeMem'[g][1], FreeMem[g][1])
    BY <1>5, <2>1 DEF Inside
  <2>. QED
    BY <2>1, <2>3, <2>4, PagesInside
<1>7. ASSUME NEW g \in Groups PROVE PagesOf(g)' \subseteq PagesOf(g)
  <2>. SUFFICES ASSUME NEW p \in PagesOf(g)' PROVE p \in PagesOf(g)
    OBVIOUS
  <2>1. PagesOf(g)' = Touched(sections, PendingMem'[g], FreeMem'[g], g)
    BY <1>2 DEF PagesOf
  <2>2. \/ \E i \in DOMAIN sections : sections[i].group = g /\ p \in Pages(sections[i])
        \/ \E k \in DOMAIN PendingMem'[g] : p \in Pages(PendingMem'[g][k])
        \/ \E k \in DOMAIN FreeMem'[g] : p \in Pages(FreeMem'[g][k])
    BY <2>1, TouchedIs
  <2>3. CASE \E i \in DOMAIN sections : sections[i].group = g /\ p \in Pages(sections[i])
    BY <2>3, PagesOfHas
  <2>4. CASE \E k \in DOMAIN PendingMem'[g] : p \in Pages(PendingMem'[g][k])
    <3>1. PendingMem'[g] = PendingMem[g]
      BY ONLY <1>4, <2>4
    <3>. QED
      BY <2>4, <3>1, PagesOfHas
  <2>5. CASE \E k \in DOMAIN FreeMem'[g] : p \in Pages(FreeMem'[g][k])
    BY <1>6, <2>5, PagesOfHas
  <2>. QED
    BY <2>2, <2>3, <2>4, <2>5
<1>8. /\ x \subseteq PagesOf("Code") /\ y \subseteq PagesOf("ROData")
      /\ \A p \in PagesOf("Code") : p \notin y
      /\ \A p \in PagesOf("ROData") : p \notin x
      /\ \A p \in PagesOf("RWData") : p \notin x /\ p \notin y
  <2>1. "Code" \in Groups /\ "ROData" \in Groups /\ "RWData" \in Groups
    BY DEF Groups
  <2>2. Prot("Code") \subseteq PagesOf("Code") /\ Prot("ROData") \subseteq PagesOf("ROData")
    BY <2>1, PagesOfHas DEF Prot
  <2>3. /\ PagesOf("Code") \cap PagesOf("ROData") = {}
        /\ PagesOf("Code") \cap PagesOf("RWData") = {}
        /\ PagesOf("ROData") \cap PagesOf("RWData") = {}
    BY <1>1, <2>1 DEF GroupsApart
  <2>. QED
    BY <1>2, <2>2, <2>3
<1>9. \A g \in Groups : PagesOf(g) \subseteq DOMAIN perm
  BY <1>1 DEF MappedSoFar
<1>10. FreshBase' = FreshBase
  BY <1>2 DEF FreshBase
<1>11. TypeOK'
  <2>1. finalized' \in 0..Len(sections)
    <3>1. Len(sections) \in Nat /\ finalized \in 0..Len(sections)
      BY <1>1, Blocks DEF TypeOK
    <3>. QED
      BY <1>2, <3>1
  <2>2. \A p \in DOMAIN perm' : p \in Nat /\ perm'[p] \in {"rw", "rx", "r"}
    BY <1>1, <1>2 DEF TypeOK
  <2>3. failed' \in BOOLEAN
    BY <1>2
  <2>. QED
    BY <1>1, <1>2, <2>1, <2>2, <2>3 DEF TypeOK
<1>12. NoneEmpty'
  <2>1. \A g \in Groups : \A k \in DOMAIN PendingMem'[g] : PendingMem'[g][k].size > 0
    BY <1>1, <1>4 DEF NoneEmpty
  <2>2. \A g \in Groups : \A k \in DOMAIN FreeMem'[g] : k = 1 /\ FreeMem'[g][k].size > 0
    BY <1>6 DEF Bytes
  <2>. QED
    BY <1>1, <1>2, <2>1, <2>2 DEF NoneEmpty
<1>13. MappedSoFar'
  <2>1. DOMAIN perm' = DOMAIN perm
    BY <1>2
  <2>. QED
    BY <1>1, <1>2, <1>7, <1>10, <2>1 DEF MappedSoFar, OnPage
<1>14. GroupsApart'
  BY <1>1, <1>7 DEF GroupsApart
<1>15. FreeLast'
  <2>. SUFFICES ASSUME NEW g \in Groups, NEW k \in DOMAIN FreeMem'[g]
       PROVE  LET b == FreeMem'[g][k]
              IN  /\ OnPage(End(b))
                  /\ AllocatedMem' # <<>> /\ Inside(b, Last(AllocatedMem'))
                  /\ \A i \in DOMAIN sections' :
                        sections'[i].group = g => End(sections'[i]) <= b.base
                  /\ \A m \in DOMAIN PendingMem'[g] : End(PendingMem'[g][m]) <= b.base
                  /\ b.pendingPrefix # 0 =>
                        /\ b.pendingPrefix \in DOMAIN PendingMem'[g]
                        /\ End(PendingMem'[g][b.pendingPrefix]) = b.base
    BY DEF FreeLast, OnPage
  <2>1. /\ k = 1 /\ 1 \in DOMAIN FreeMem[g]
        /\ Bytes(FreeMem'[g][1]) /\ End(FreeMem'[g][1]) = End(FreeMem[g][1])
        /\ FreeMem[g][1].base <= FreeMem'[g][1].base
    BY <1>6
  <2>2. PICK b, c : b = FreeMem[g][1] /\ c = FreeMem'[g][1]
    OBVIOUS
  <2>3. /\ OnPage(End(b))
        /\ AllocatedMem # <<>> /\ Inside(b, Last(AllocatedMem))
        /\ \A i \in DOMAIN sections : sections[i].group = g => End(sections[i]) <= b.base
        /\ \A m \in DOMAIN PendingMem[g] : End(PendingMem[g][m]) <= b.base
        /\ b.pendingPrefix # 0 =>
              /\ b.pendingPrefix \in DOMAIN PendingMem[g]
              /\ End(PendingMem[g][b.pendingPrefix]) = b.base
    BY <1>1, <2>1, <2>2 DEF FreeLast
  <2>4. b.base \in Nat /\ c.base \in Nat /\ b.base <= c.base /\ End(c) = End(b)
    BY <1>5, <2>1, <2>2 DEF Bytes
  <2>5. Inside(c, Last(AllocatedMem))
    <3>1. Last(AllocatedMem).base \in Nat
      BY <1>1, <2>3, Blocks
    <3>. QED
      BY <2>3, <2>4, <3>1 DEF Inside
  <2>6. \A i \in DOMAIN sections : sections[i].group = g => End(sections[i]) <= c.base
    BY <1>5, <2>3, <2>4
  <2>7. \A m \in DOMAIN PendingMem'[g] : End(PendingMem'[g][m]) <= c.base
    BY <1>4, <1>5, <2>3, <2>4
  <2>8. c.pendingPrefix # 0 => /\ c.pendingPrefix \in DOMAIN PendingMem'[g]
                               /\ End(PendingMem'[g][c.pendingPrefix]) = c.base
    <3>1. CASE Shrunk(g, TRUE) /\ PendingMem'[g] = <<>>
      BY <2>1, <2>2, <3>1 DEF Shrunk
    <3>2. CASE Shrunk(g, FALSE) /\ PendingMem'[g] = PendingMem[g]
      <4>1. c = b
        BY <2>1, <2>2, <3>2 DEF Shrunk
      <4>. QED
        BY <2>3, <3>2, <4>1
    <3>. QED
      BY <1>3, <3>1, <3>2
  <2>. QED
    BY <1>2, <2>1, <2>2, <2>3, <2>4, <2>5, <2>6, <2>7, <2>8
<1>16. FreeWritable'
  <2>1. ASSUME ~failed', NEW g \in Groups, NEW k \in DOMAIN FreeMem'[g],
               NEW p \in Pages(FreeMem'[g][k])
        PROVE  perm'[p] = "rw"
    <3>1. ~failed /\ dataDone /\ codeDone
      BY <1>2, <2>1
    <3>2. /\ k = 1 /\ 1 \in DOMAIN FreeMem[g] /\ p \in Pages(FreeMem[g][1])
          /\ Bytes(FreeMem'[g][1])
          /\ FreeMem[g][1].base <= FreeMem'[g][1].base
      BY <1>6, <2>1
    <3>3. perm[p] = "rw" /\ p \in PagesOf(g) /\ p \in DOMAIN perm
      BY <1>9, <3>1, <3>2, PagesOfHas DEF Inv, FreeWritable
    <3>4. Shrunk(g, TRUE) => p \notin Prot(g)
      <4>. SUFFICES ASSUME Shrunk(g, TRUE), NEW m \in DOMAIN PendingMem[g]
                    PROVE  p \notin Pages(PendingMem[g][m])
        BY DEF Prot
      <4>1. OnPage(FreeMem'[g][1].base) /\ FreeMem'[g][1].base \in Nat
        BY <2>1, <3>2 DEF Shrunk, Bytes
      <4>2. End(PendingMem[g][m]) <= FreeMem[g][1].base
        BY <1>1, <3>2 DEF FreeLast
      <4>3. End(PendingMem[g][m]) <= FreeMem'[g][1].base
        BY <1>5, <3>2, <4>1, <4>2 DEF Bytes
      <4>4. Bytes(PendingMem[g][m])
        BY <1>5
      <4>5. Pages(PendingMem[g][m]) \cap Pages(FreeMem'[g][1]) = {}
        BY <3>2, <4>1, <4>3, <4>4, PagesBehind DEF Bytes
      <4>. QED
        BY <2>1, <3>2, <4>5
    <3>5. p \notin x /\ p \notin y
      <4>1. CASE g = "Code"
        BY <1>2, <1>8, <3>1, <3>3, <3>4, <4>1
      <4>2. CASE g = "ROData"
        BY <1>2, <1>8, <3>1, <3>3, <3>4, <4>2
      <4>3. CASE g = "RWData"
        BY <1>8, <3>3, <4>3
      <4>. QED
        BY <4>1, <4>2, <4>3 DEF Groups
    <3>. QED
      BY <1>2, <3>3, <3>5
  <2>. QED
    BY <2>1 DEF FreeWritable
<1>17. SectionsApart'
  BY <1>2 DEF Inv, SectionsApart
<1>18. LoadsTogether'
  <2>1. LoadsTogether /\ UNCHANGED <<AllocatedMem, loads, sections>>
    BY <1>2 DEF Inv
  <2>. QED
    BY <2>1 DEF LoadsTogether, ObjectInOneMapping, Inside
<1>19. WritableUntilFinalized'
  <2>1. ASSUME ~failed', NEW i \in DOMAIN sections,
               sections[i].group = "RWData" \/ i > finalized', NEW p \in Pages(sections[i])
        PROVE  perm'[p] = "rw"
    <3>1. ~failed /\ finalized' = Len(sections)
      BY <1>2, <2>1
    <3>2. sections[i].group = "RWData"
      <4>1. i \in 1..Len(sections) /\ Len(sections) \in Nat
        BY <1>1, <2>1, Blocks
      <4>. QED
        BY <2>1, <3>1, <4>1
    <3>3. perm[p] = "rw"
      BY <2>1, <3>1, <3>2 DEF Inv, WritableUntilFinalized
    <3>4. p \in PagesOf("RWData") /\ "RWData" \in Groups
      BY <2>1, <3>2, PagesOfHas DEF Groups
    <3>. QED
      BY <1>2, <1>8, <1>9, <3>3, <3>4
  <2>. QED
    BY <1>2, <2>1 DEF WritableUntilFinalized
<1>20. PendingOrProtected'
  <2>. DEFINE Wanted(s) == [Code |-> "rx", ROData |-> "r", RWData |-> "rw"][s.group]
  <2>1. ASSUME NEW i \in DOMAIN sections
        PROVE  \/ \A p \in Pages(sections[i]) : perm'[p] = Wanted(sections[i])
               \/ \E k \in DOMAIN PendingMem'[sections[i].group] :
                     Inside(sections[i], PendingMem'[sections[i].group][k])
    <3>1. PICK g \in Groups : g = sections[i].group
      BY <1>5, <2>1
    <3>2. Pages(sections[i]) \subseteq PagesOf(g) /\ Pages(sections[i]) \subseteq DOMAIN perm
      BY <1>9, <2>1, <3>1, PagesOfHas
    <3>3. \/ \A p \in Pages(sections[i]) : perm[p] = Wanted(sections[i])
          \/ \E k \in DOMAIN PendingMem[g] : Inside(sections[i], PendingMem[g][k])
      BY <2>1, <3>1 DEF Inv, PendingOrProtected
    <3>4. ASSUME NEW k \in DOMAIN PendingMem[g], Inside(sections[i], PendingMem[g][k])
          PROVE  Pages(sections[i]) \subseteq Prot(g)
      <4>1. Pages(sections[i]) \subseteq Pages(PendingMem[g][k])
        BY <1>5, <2>1, <3>4, PagesInside
      <4>. QED
        BY <3>4, <4>1 DEF Prot
    <3>5. CASE g = "Code"
      <4>1. Wanted(sections[i]) = "rx"
        BY <3>1, <3>5
      <4>. HIDE DEF Wanted
      <4>2. CASE \A p \in Pages(sections[i]) : perm[p] = "rx"
        BY <1>2, <1>8, <3>2, <3>5, <4>1, <4>2
      <4>3. CASE \E k \in DOMAIN PendingMem[g] : Inside(sections[i], PendingMem[g][k])
        <5>1. CASE codeDone
          BY <1>2, <3>2, <3>4, <3>5, <4>1, <4>3, <5>1
        <5>2. CASE ~codeDone
          BY <1>2, <3>1, <3>5, <4>3, <5>2
        <5>. QED
          BY <5>1, <5>2
      <4>. QED
        BY <3>3, <4>1, <4>2, <4>3
    <3>6. CASE g = "ROData"
      <4>1. Wanted(sections[i]) = "r"
        BY <3>1, <3>6
      <4>. HIDE DEF Wanted
      <4>2. CASE \A p \in Pages(sections[i]) : perm[p] = "r"
        BY <1>2, <1>8, <3>2, <3>6, <4>1, <4>2
      <4>3. CASE \E k \in DOMAIN PendingMem[g] : Inside(sections[i], PendingMem[g][k])
        <5>1. CASE dataDone
          BY <1>2, <1>8, <3>2, <3>4, <3>6, <4>1, <4>3, <5>1
        <5>2. CASE ~dataDone
          BY <1>2, <3>1, <3>6, <4>3, <5>2
        <5>. QED
          BY <5>1, <5>2
      <4>. QED
        BY <3>3, <4>1, <4>2, <4>3
    <3>7. CASE g = "RWData"
      <4>1. PendingMem'[g] = PendingMem[g]
        BY <1>2, <3>7
      <4>2. \A p \in Pages(sections[i]) : perm'[p] = perm[p]
        BY <1>2, <1>8, <3>2, <3>7
      <4>. QED
        BY <3>1, <3>3, <4>1, <4>2
    <3>. QED
      BY <3>5, <3>6, <3>7 DEF Groups
  <2>. QED
    BY <1>2, <2>1 DEF PendingOrProtected, Inside
<1>. QED
  BY <1>11, <1>12, <1>13, <1>14, <1>15, <1>16, <1>17, <1>18, <1>19, <1>20 DEF Inv

-----------------------------------------------------------------------------
(* An object is announced *)

\* What is given out, pending or free lies before the next mapping.
LEMMA BeforeFresh ==
  ASSUME TypeOK, NoneEmpty, MappedSoFar, NEW g \in Groups, NEW b, Bytes(b),
         Pages(b) \subseteq PagesOf(g)
  PROVE  End(b) <= FreshBase
<1>1. PICK last : last = (End(b) - 1) \div PageSize
  OBVIOUS
<1>2. b.base \in Nat /\ End(b) \in Nat /\ End(b) > b.base /\ PageSize \in Nat \ {0}
  BY MemoryAssumption DEF Bytes, End
<1>3. /\ last \in Int /\ (End(b) - 1) % PageSize \in 0..(PageSize - 1)
      /\ End(b) - 1 = (PageSize * last) + ((End(b) - 1) % PageSize)
  <2>1. End(b) - 1 \in Int
    BY <1>2
  <2>. QED
    BY <1>1, <1>2, <2>1, DivMod
<1>4. PICK e : e = (End(b) - 1) % PageSize
  OBVIOUS
<1>5. PICK at : at = last * PageSize
  OBVIOUS
<1>6. /\ at \in Int /\ e \in 0..(PageSize - 1) /\ End(b) - 1 = at + e
  BY ONLY <1>2, <1>3, <1>4, <1>5
<1>7. last \in Nat
  <2>1. End(b) - 1 \in Nat
    BY <1>2
  <2>. QED
    BY ONLY <1>1, <1>2, <2>1
<1>8. last \in Pages(b)
  <2>1. at < End(b) /\ b.base < at + PageSize
    BY ONLY <1>2, <1>6
  <2>. QED
    BY <1>5, <1>7, <2>1, PagesAre
<1>9. at < FreshBase
  BY <1>5, <1>8 DEF MappedSoFar
<1>10. FreshBase >= at + PageSize
  <2>1. FreshBase \in Int /\ FreshBase % PageSize = 0
    BY Blocks DEF MappedSoFar, OnPage
  <2>2. at % PageSize = 0
    BY ONLY <1>2, <1>3, <1>5, MultipleIs
  <2>. QED
    BY ONLY <1>2, <1>6, <1>9, <2>1, <2>2, MultiplesApart
<1>. QED
  <2>1. FreshBase \in Nat
    BY Blocks
  <2>. QED
    BY ONLY <1>2, <1>6, <1>10, <2>1

\* What the new mapping consists of.
LEMMA NewMappingGives ==
  ASSUME TypeOK, NoneEmpty, MappedSoFar, NEW request \in Requests, NewMapping(request)
  PROVE  \E mapping :
            /\ mapping \in Block /\ mapping.base = FreshBase /\ Bytes(mapping)
            /\ OnPage(End(mapping)) /\ End(mapping) \in Nat
            /\ AllocatedMem' \in Seq(Block) /\ AllocatedMem' # <<>>
            /\ Last(AllocatedMem') = mapping /\ FreshBase' = End(mapping)
            /\ DOMAIN AllocatedMem' = DOMAIN AllocatedMem \cup {Len(AllocatedMem) + 1}
            /\ AllocatedMem'[Len(AllocatedMem) + 1] = mapping
            /\ \A m \in DOMAIN AllocatedMem : AllocatedMem'[m] = AllocatedMem[m]
            /\ DOMAIN perm' = DOMAIN perm \cup Pages(mapping)
            /\ \A p \in Pages(mapping) : p \in Nat /\ p * PageSize >= FreshBase
                                         /\ p * PageSize < End(mapping) /\ perm'[p] = "rw"
            /\ \A p \in DOMAIN perm \ Pages(mapping) : perm'[p] = perm[p]
            /\ FreeMem' \in [Groups -> Seq(FreeMemBlock)]
            /\ \A g \in Groups : DOMAIN FreeMem'[g] = IF request[g] = <<>> THEN {} ELSE {1}
            /\ \A g \in Groups : \A k \in DOMAIN FreeMem'[g] :
                  /\ k = 1 /\ Bytes(FreeMem'[g][k]) /\ FreeMem'[g][k].base >= FreshBase
                  /\ OnPage(FreeMem'[g][k].base) /\ OnPage(End(FreeMem'[g][k]))
                  /\ Inside(FreeMem'[g][k], mapping) /\ FreeMem'[g][k].pendingPrefix = 0
                  /\ FreeMem'[g][k].size >= ReservedSize(request[g])
            /\ \A g, h \in Groups : \A k \in DOMAIN FreeMem'[g], m \in DOMAIN FreeMem'[h] :
                  g # h => \/ End(FreeMem'[g][k]) <= FreeMem'[h][m].base
                           \/ End(FreeMem'[h][m]) <= FreeMem'[g][k].base
<1>1. PICK base, mapping : base = FreshBase /\ mapping = [base |-> base, size |-> MappingSize(request)]
  OBVIOUS
<1>2. /\ AllocatedMem' = Append(AllocatedMem, mapping)
      /\ perm' = [p \in Pages(mapping) \cup DOMAIN perm |->
                     IF p \in Pages(mapping) THEN "rw" ELSE perm[p]]
      /\ FreeMem' = [g \in Groups |-> Part(request, base, g)]
  BY <1>1 DEF NewMapping, MapMore
<1>3. base \in Nat /\ OnPage(base)
  BY <1>1, Blocks DEF MappedSoFar
<1>4. /\ MappingSize(request) \in Nat /\ MappingSize(request) > 0
      /\ OnPage(MappingSize(request))
  BY PartsApart
<1>5. PageSize \in Nat \ {0}
  BY MemoryAssumption
<1>6. ASSUME NEW m \in Nat, NEW n \in Nat, OnPage(m), OnPage(n) PROVE OnPage(m + n)
  <2>1. m \in Int /\ n \in Int /\ m % PageSize = 0 /\ n % PageSize = 0
    BY <1>6 DEF OnPage
  <2>. QED
    BY <1>5, <2>1, MultiplesApart DEF OnPage
<1>7. /\ mapping \in Block /\ mapping.base = FreshBase /\ Bytes(mapping)
      /\ End(mapping) = base + MappingSize(request) /\ End(mapping) \in Nat
  BY <1>1, <1>3, <1>4 DEF Block, Bytes, End
<1>8. OnPage(End(mapping))
  BY <1>3, <1>4, <1>6, <1>7
<1>9. /\ AllocatedMem' \in Seq(Block) /\ AllocatedMem' # <<>>
      /\ DOMAIN AllocatedMem' = DOMAIN AllocatedMem \cup {Len(AllocatedMem) + 1}
      /\ AllocatedMem'[Len(AllocatedMem) + 1] = mapping
      /\ \A m \in DOMAIN AllocatedMem : AllocatedMem'[m] = AllocatedMem[m]
      /\ Last(AllocatedMem') = mapping
  <2>1. AllocatedMem \in Seq(Block)
    BY DEF TypeOK
  <2>2. /\ AllocatedMem' \in Seq(Block) /\ Len(AllocatedMem') = Len(AllocatedMem) + 1
        /\ \A m \in 1..Len(AllocatedMem) : AllocatedMem'[m] = AllocatedMem[m]
        /\ AllocatedMem'[Len(AllocatedMem) + 1] = mapping
    BY <1>2, <1>7, <2>1, AppendProperties
  <2>3. Len(AllocatedMem) \in Nat /\ DOMAIN AllocatedMem = 1..Len(AllocatedMem)
    BY <2>1, LenProperties
  <2>4. DOMAIN AllocatedMem' = 1..(Len(AllocatedMem) + 1)
    BY <2>2, LenProperties
  <2>5. AllocatedMem' # <<>>
    BY <2>2, <2>3
  <2>6. DOMAIN AllocatedMem' = DOMAIN AllocatedMem \cup {Len(AllocatedMem) + 1}
    BY ONLY <2>3, <2>4
  <2>7. Last(AllocatedMem') = mapping
    BY <2>2 DEF Last
  <2>. QED
    BY <2>2, <2>3, <2>5, <2>6, <2>7
<1>10. FreshBase' = End(mapping)
  BY <1>9 DEF FreshBase
<1>11. ASSUME NEW p \in Pages(mapping)
       PROVE  /\ p \in Nat /\ p * PageSize >= FreshBase
              /\ p * PageSize < End(mapping) /\ perm'[p] = "rw"
  <2>1. p \in Nat /\ p * PageSize < End(mapping) /\ base < p * PageSize + PageSize
    BY <1>1, <1>7, PagesAre
  <2>2. PICK at : at = p * PageSize
    OBVIOUS
  <2>3. at \in Int
    BY ONLY <2>1, <2>2, <1>5
  <2>4. at % PageSize = 0
    BY ONLY <2>1, <2>2, <1>5, MultipleIs
  <2>5. base % PageSize = 0
    BY <1>3 DEF OnPage
  <2>6. at >= base
    <3>1. at + PageSize > base /\ at + PageSize \in Int
      BY ONLY <2>1, <2>2, <2>3, <1>5
    <3>2. PageSize % PageSize = 0 /\ PageSize \in Int
      BY ONLY <1>5
    <3>3. (at + PageSize) % PageSize = 0
      BY ONLY <1>5, <2>3, <2>4, <3>2, MultiplesApart
    <3>4. at + PageSize >= base + PageSize
      BY ONLY <1>3, <1>5, <2>5, <3>1, <3>3, MultiplesApart
    <3>. QED
      BY ONLY <1>3, <1>5, <2>3, <3>4
  <2>. QED
    BY <1>1, <1>2, <2>1, <2>2, <2>6
<1>12. /\ DOMAIN perm' = DOMAIN perm \cup Pages(mapping)
       /\ \A p \in DOMAIN perm \ Pages(mapping) : perm'[p] = perm[p]
  BY <1>2
<1>13. ASSUME NEW g \in Groups, request[g] # <<>>
       PROVE  /\ FreeMem'[g] \in Seq(FreeMemBlock) /\ DOMAIN FreeMem'[g] = {1}
              /\ FreeMem'[g][1].base = base + PartOffset(request)[g]
              /\ FreeMem'[g][1].size = PartSize(request, g)
              /\ FreeMem'[g][1].pendingPrefix = 0
  <2>1. PICK b : b = [base |-> base + PartOffset(request)[g],
                      size |-> PartSize(request, g), pendingPrefix |-> 0]
    OBVIOUS
  <2>2. PartOffset(request)[g] \in Nat /\ PartSize(request, g) \in Nat
    BY PartsApart
  <2>3. b \in FreeMemBlock
    BY <1>3, <2>1, <2>2 DEF FreeMemBlock
  <2>4. FreeMem'[g] = <<b>>
    BY <1>2, <1>13, <2>1 DEF Part
  <2>5. <<b>> \in Seq(FreeMemBlock) /\ DOMAIN <<b>> = {1} /\ <<b>>[1] = b
    BY <2>3
  <2>. QED
    BY <2>1, <2>4, <2>5
<1>14. ASSUME NEW g \in Groups, request[g] = <<>>
       PROVE  FreeMem'[g] \in Seq(FreeMemBlock) /\ DOMAIN FreeMem'[g] = {}
  BY <1>2, <1>14 DEF Part
<1>15. /\ FreeMem' \in [Groups -> Seq(FreeMemBlock)]
       /\ \A g \in Groups : DOMAIN FreeMem'[g] = IF request[g] = <<>> THEN {} ELSE {1}
  BY <1>2, <1>13, <1>14
<1>16. ASSUME NEW g \in Groups, NEW k \in DOMAIN FreeMem'[g]
       PROVE  /\ k = 1 /\ request[g] # <<>>
              /\ FreeMem'[g][k].base = base + PartOffset(request)[g]
              /\ FreeMem'[g][k].size = PartSize(request, g)
              /\ FreeMem'[g][k].pendingPrefix = 0
  BY <1>13, <1>14, <1>16
<1>17. ASSUME NEW g \in Groups, NEW k \in DOMAIN FreeMem'[g]
       PROVE  /\ k = 1 /\ Bytes(FreeMem'[g][k]) /\ FreeMem'[g][k].base >= FreshBase
              /\ OnPage(FreeMem'[g][k].base) /\ OnPage(End(FreeMem'[g][k]))
              /\ Inside(FreeMem'[g][k], mapping) /\ FreeMem'[g][k].pendingPrefix = 0
              /\ FreeMem'[g][k].size >= ReservedSize(request[g])
  <2>1. PICK b : b = FreeMem'[g][k]
    OBVIOUS
  <2>2. PICK off, size : off = PartOffset(request)[g] /\ size = PartSize(request, g)
    OBVIOUS
  <2>3. /\ off \in Nat /\ OnPage(off) /\ size \in Nat /\ size > 0 /\ OnPage(size)
        /\ off + size <= MappingSize(request) /\ size >= ReservedSize(request[g])
    BY <2>2, PartsApart
  <2>4. b.base = base + off /\ b.size = size
    BY <1>16, <2>1, <2>2
  <2>5. End(b) = (base + off) + size
    BY <1>3, <2>3, <2>4 DEF End
  <2>6. OnPage(base + off) /\ base + off \in Nat
    BY <1>3, <1>6, <2>3
  <2>7. OnPage((base + off) + size)
    BY <1>6, <2>3, <2>6
  <2>8. Bytes(b) /\ b.base >= base
    BY <1>3, <2>3, <2>4 DEF Bytes
  <2>9. Inside(b, mapping)
    BY <1>1, <1>3, <1>4, <1>7, <2>3, <2>4, <2>5 DEF Inside
  <2>. QED
    BY <1>1, <1>16, <2>1, <2>3, <2>4, <2>5, <2>6, <2>7, <2>8, <2>9
<1>18. ASSUME NEW g \in Groups, NEW h \in Groups, NEW k \in DOMAIN FreeMem'[g],
              NEW m \in DOMAIN FreeMem'[h], g # h
       PROVE  \/ End(FreeMem'[g][k]) <= FreeMem'[h][m].base
              \/ End(FreeMem'[h][m]) <= FreeMem'[g][k].base
  <2>1. PICK b, c : b = FreeMem'[g][k] /\ c = FreeMem'[h][m]
    OBVIOUS
  <2>2. PICK off, size, offh, sizeh :
           /\ off = PartOffset(request)[g] /\ size = PartSize(request, g)
           /\ offh = PartOffset(request)[h] /\ sizeh = PartSize(request, h)
    OBVIOUS
  <2>3. off \in Nat /\ size \in Nat /\ offh \in Nat /\ sizeh \in Nat
    BY <2>2, PartsApart
  <2>4. off + size <= offh \/ offh + sizeh <= off
    BY <1>16, <1>18, <2>2, PartsApart
  <2>5. b.base = base + off /\ b.size = size /\ c.base = base + offh /\ c.size = sizeh
    BY <1>16, <2>1, <2>2
  <2>6. End(b) <= c.base \/ End(c) <= b.base
    BY <1>3, <2>3, <2>4, <2>5 DEF End
  <2>. QED
    BY <2>1, <2>6
<1>. QED
  BY <1>7, <1>8, <1>9, <1>10, <1>11, <1>12, <1>15, <1>17, <1>18

\* reserveAllocationSpace keeps the invariant when it makes a mapping...
LEMMA NewMappingKeepsInv ==
  ASSUME Inv, reserveAllocationSpace, NEW request \in Requests, todo' = request,
         NewMapping(request)
  PROVE  Inv'
<1>1. TypeOK /\ NoneEmpty /\ FreeLast /\ MappedSoFar /\ GroupsApart
  BY DEF Inv
<1>2. PICK mapping :
            /\ mapping \in Block /\ mapping.base = FreshBase /\ Bytes(mapping)
            /\ OnPage(End(mapping)) /\ End(mapping) \in Nat
            /\ AllocatedMem' \in Seq(Block) /\ AllocatedMem' # <<>>
            /\ Last(AllocatedMem') = mapping /\ FreshBase' = End(mapping)
            /\ DOMAIN AllocatedMem' = DOMAIN AllocatedMem \cup {Len(AllocatedMem) + 1}
            /\ AllocatedMem'[Len(AllocatedMem) + 1] = mapping
            /\ \A m \in DOMAIN AllocatedMem : AllocatedMem'[m] = AllocatedMem[m]
            /\ DOMAIN perm' = DOMAIN perm \cup Pages(mapping)
            /\ \A p \in Pages(mapping) : p \in Nat /\ p * PageSize >= FreshBase
                                         /\ p * PageSize < End(mapping) /\ perm'[p] = "rw"
            /\ \A p \in DOMAIN perm \ Pages(mapping) : perm'[p] = perm[p]
            /\ FreeMem' \in [Groups -> Seq(FreeMemBlock)]
            /\ \A g \in Groups : DOMAIN FreeMem'[g] = IF request[g] = <<>> THEN {} ELSE {1}
            /\ \A g \in Groups : \A k \in DOMAIN FreeMem'[g] :
                  /\ k = 1 /\ Bytes(FreeMem'[g][k]) /\ FreeMem'[g][k].base >= FreshBase
                  /\ OnPage(FreeMem'[g][k].base) /\ OnPage(End(FreeMem'[g][k]))
                  /\ Inside(FreeMem'[g][k], mapping) /\ FreeMem'[g][k].pendingPrefix = 0
                  /\ FreeMem'[g][k].size >= ReservedSize(request[g])
            /\ \A g, h \in Groups : \A k \in DOMAIN FreeMem'[g], m \in DOMAIN FreeMem'[h] :
                  g # h => \/ End(FreeMem'[g][k]) <= FreeMem'[h][m].base
                           \/ End(FreeMem'[h][m]) <= FreeMem'[g][k].base
  BY <1>1, NewMappingGives
<1>3. /\ UNCHANGED <<PendingMem, sections, finalized, failed>>
      /\ loads' = loads + 1 /\ loads < MaxLoads
  BY DEF reserveAllocationSpace
<1>4. /\ \A i \in DOMAIN sections : Bytes(sections[i]) /\ End(sections[i]) \in Nat
                                    /\ sections[i].group \in Groups
                                    /\ sections[i] \in Section
      /\ \A g \in Groups : \A k \in DOMAIN PendingMem[g] :
            Bytes(PendingMem[g][k]) /\ End(PendingMem[g][k]) \in Nat
      /\ FreshBase \in Nat /\ loads \in Nat
  BY <1>1, Blocks, MemoryAssumption DEF TypeOK
<1>5. ASSUME NEW g \in Groups, NEW p \in PagesOf(g)
      PROVE  /\ p \in DOMAIN perm /\ p \in DOMAIN perm'
             /\ p * PageSize < FreshBase /\ p \notin Pages(mapping)
             /\ perm'[p] = perm[p]
  <2>1. p \in DOMAIN perm /\ p * PageSize < FreshBase
    BY <1>1, <1>5 DEF MappedSoFar
  <2>2. p \in Nat /\ p * PageSize \in Int
    BY <1>1, <2>1, MemoryAssumption DEF TypeOK
  <2>3. PICK at : at = p * PageSize
    OBVIOUS
  <2>4. ~(at >= FreshBase)
    BY ONLY <1>4, <2>1, <2>2, <2>3
  <2>5. p \notin Pages(mapping)
    BY <1>2, <2>3, <2>4
  <2>. QED
    BY <1>2, <2>1, <2>5
\* What is touched was touched before, or is new.
<1>6. ASSUME NEW g \in Groups, NEW p \in PagesOf(g)'
      PROVE  \/ p \in PagesOf(g)
             \/ \E k \in DOMAIN FreeMem'[g] : p \in Pages(FreeMem'[g][k])
  <2>1. PagesOf(g)' = Touched(sections, PendingMem[g], FreeMem'[g], g)
    BY <1>3 DEF PagesOf
  <2>2. \/ \E i \in DOMAIN sections : sections[i].group = g /\ p \in Pages(sections[i])
        \/ \E k \in DOMAIN PendingMem[g] : p \in Pages(PendingMem[g][k])
        \/ \E k \in DOMAIN FreeMem'[g] : p \in Pages(FreeMem'[g][k])
    BY <1>6, <2>1, TouchedIs
  <2>. QED
    BY <2>2, PagesOfHas
<1>7. ASSUME NEW g \in Groups, NEW k \in DOMAIN FreeMem'[g]
      PROVE  Pages(FreeMem'[g][k]) \subseteq Pages(mapping)
  BY <1>2, <1>7, PagesInside
<1>8. ASSUME NEW g \in Groups, NEW b, Bytes(b), Pages(b) \subseteq PagesOf(g)
      PROVE  End(b) <= FreshBase
  BY <1>1, <1>8, BeforeFresh
<1>9. ASSUME NEW i \in DOMAIN sections
      PROVE  /\ Pages(sections[i]) \subseteq PagesOf(sections[i].group)
             /\ \A p \in Pages(sections[i]) : perm'[p] = perm[p]
             /\ End(sections[i]) <= FreshBase
  <2>1. PICK g \in Groups : sections[i].group = g
    BY <1>4, <1>9
  <2>2. Pages(sections[i]) \subseteq PagesOf(g)
    BY <1>9, <2>1, PagesOfHas
  <2>. QED
    BY <1>4, <1>5, <1>8, <1>9, <2>1, <2>2
<1>10. ASSUME NEW g \in Groups, NEW k \in DOMAIN PendingMem[g]
       PROVE  End(PendingMem[g][k]) <= FreshBase
  <2>1. Pages(PendingMem[g][k]) \subseteq PagesOf(g)
    BY <1>10, PagesOfHas
  <2>. QED
    BY <1>4, <1>8, <1>10, <2>1
<1>11. TypeOK'
  <2>1. \A p \in DOMAIN perm' : p \in Nat /\ perm'[p] \in {"rw", "rx", "r"}
    BY <1>1, <1>2 DEF TypeOK
  <2>2. todo' \in [Groups -> Seq(SectionRequest)]
    BY MemoryAssumption
  <2>3. loads' \in 0..MaxLoads
    BY <1>1, <1>3, MemoryAssumption DEF TypeOK
  <2>. QED
    BY <1>1, <1>2, <1>3, <2>1, <2>2, <2>3 DEF TypeOK
<1>12. NoneEmpty'
  BY <1>1, <1>2, <1>3 DEF NoneEmpty, Bytes
<1>13. MappedSoFar'
  <2>1. OnPage(FreshBase)'
    BY <1>2 DEF OnPage
  <2>2. FreshBase <= End(mapping)
    BY <1>2, <1>4 DEF Bytes, End
  <2>3. ASSUME NEW m \in DOMAIN AllocatedMem' PROVE End(AllocatedMem'[m]) <= End(mapping)
    <3>1. CASE m = Len(AllocatedMem) + 1
      BY <1>2, <3>1
    <3>2. CASE m \in DOMAIN AllocatedMem
      <4>1. End(AllocatedMem[m]) <= FreshBase
        BY <1>1, <3>2 DEF MappedSoFar
      <4>2. End(AllocatedMem[m]) \in Nat
        BY <1>1, <3>2, Blocks
      <4>3. AllocatedMem'[m] = AllocatedMem[m]
        BY <1>2, <3>2
      <4>. QED
        BY <1>2, <1>4, <2>2, <4>1, <4>2, <4>3
    <3>. QED
      BY <1>2, <2>3, <3>1, <3>2
  <2>4. ASSUME NEW g \in Groups, NEW p \in PagesOf(g)'
        PROVE  p \in DOMAIN perm' /\ p * PageSize < End(mapping)
    <3>1. CASE p \in PagesOf(g)
      <4>1. p \in DOMAIN perm' /\ p * PageSize < FreshBase
        BY <1>5, <2>4, <3>1
      <4>2. p * PageSize \in Int
        BY <1>1, <1>5, <2>4, <3>1, MemoryAssumption DEF TypeOK
      <4>3. PICK at : at = p * PageSize
        OBVIOUS
      <4>4. at < End(mapping)
        BY ONLY <1>2, <1>4, <2>2, <4>1, <4>2, <4>3
      <4>. QED
        BY <4>1, <4>3, <4>4
    <3>2. CASE \E k \in DOMAIN FreeMem'[g] : p \in Pages(FreeMem'[g][k])
      BY <1>2, <1>7, <2>4, <3>2
    <3>. QED
      BY <1>6, <2>4, <3>1, <3>2
  <2>. QED
    BY <1>2, <2>1, <2>3, <2>4 DEF MappedSoFar
<1>14. GroupsApart'
  <2>1. ASSUME NEW g \in Groups, NEW h \in Groups, g # h,
               NEW p \in PagesOf(g)', p \in PagesOf(h)'
        PROVE  FALSE
    <3>1. CASE p \in PagesOf(g) /\ p \in PagesOf(h)
      BY <1>1, <2>1, <3>1 DEF GroupsApart
    <3>2. CASE p \in Pages(mapping) /\ (p \in PagesOf(g) \/ p \in PagesOf(h))
      BY <1>5, <2>1, <3>2
    <3>3. CASE /\ \E k \in DOMAIN FreeMem'[g] : p \in Pages(FreeMem'[g][k])
               /\ \E m \in DOMAIN FreeMem'[h] : p \in Pages(FreeMem'[h][m])
      <4>1. PICK k \in DOMAIN FreeMem'[g], m \in DOMAIN FreeMem'[h] :
               p \in Pages(FreeMem'[g][k]) /\ p \in Pages(FreeMem'[h][m])
        BY <3>3
      <4>2. PICK a, b : a = FreeMem'[g][k] /\ b = FreeMem'[h][m]
        OBVIOUS
      <4>3. /\ Bytes(a) /\ OnPage(a.base) /\ a.base \in Nat
            /\ Bytes(b) /\ OnPage(b.base) /\ b.base \in Nat
            /\ End(a) <= b.base \/ End(b) <= a.base
        BY <1>2, <2>1, <4>2 DEF Bytes
      <4>4. Pages(a) \cap Pages(b) = {}
        BY <4>3, PagesBehind
      <4>. QED
        BY <4>1, <4>2, <4>4
    <3>. QED
      BY <1>6, <1>7, <2>1, <3>1, <3>2, <3>3
  <2>. QED
    BY <2>1 DEF GroupsApart
<1>15. FreeLast'
  <2>. SUFFICES ASSUME NEW g \in Groups, NEW k \in DOMAIN FreeMem'[g]
       PROVE  LET b == FreeMem'[g][k]
              IN  /\ OnPage(End(b))
                  /\ AllocatedMem' # <<>> /\ Inside(b, Last(AllocatedMem'))
                  /\ \A i \in DOMAIN sections' :
                        sections'[i].group = g => End(sections'[i]) <= b.base
                  /\ \A n \in DOMAIN PendingMem'[g] : End(PendingMem'[g][n]) <= b.base
                  /\ b.pendingPrefix # 0 =>
                        /\ b.pendingPrefix \in DOMAIN PendingMem'[g]
                        /\ End(PendingMem'[g][b.pendingPrefix]) = b.base
    BY DEF FreeLast, OnPage
  <2>1. PICK b : b = FreeMem'[g][k]
    OBVIOUS
  <2>2. /\ OnPage(End(b)) /\ Inside(b, mapping) /\ b.pendingPrefix = 0
        /\ b.base >= FreshBase /\ b.base \in Nat
    BY <1>2, <2>1 DEF Bytes
  <2>3. \A i \in DOMAIN sections : End(sections[i]) <= b.base
    BY <1>4, <1>9, <2>2
  <2>4. \A n \in DOMAIN PendingMem[g] : End(PendingMem[g][n]) <= b.base
    BY <1>4, <1>10, <2>2
  <2>. QED
    BY <1>2, <1>3, <2>1, <2>2, <2>3, <2>4
<1>16. FreeWritable'
  BY <1>2, <1>7 DEF FreeWritable
<1>17. SectionsApart'
  BY <1>3 DEF Inv, SectionsApart
<1>18. LoadsTogether'
  <2>1. LoadsTogether
    BY DEF Inv
  <2>2. \A i \in DOMAIN sections : sections[i].load \in Nat /\ sections[i].load <= loads
    BY <1>4, <2>1 DEF LoadsTogether, Section
  <2>3. \A i \in DOMAIN sections' : /\ sections'[i].load <= loads'
                                    /\ sections'[i].load # loads'
    BY <1>3, <1>4, <2>2
  <2>4. ObjectInOneMapping'
    <3>. SUFFICES ASSUME NEW i \in DOMAIN sections, NEW j \in DOMAIN sections,
                         sections[i].load = sections[j].load
                  PROVE  \E m \in DOMAIN AllocatedMem' :
                            /\ Inside(sections[i], AllocatedMem'[m])
                            /\ Inside(sections[j], AllocatedMem'[m])
      BY <1>3 DEF ObjectInOneMapping, Inside
    <3>1. PICK m \in DOMAIN AllocatedMem : /\ Inside(sections[i], AllocatedMem[m])
                                           /\ Inside(sections[j], AllocatedMem[m])
      BY <2>1 DEF LoadsTogether, ObjectInOneMapping
    <3>. QED
      BY <1>2, <3>1
  <2>. QED
    BY <2>3, <2>4 DEF LoadsTogether
<1>19. WritableUntilFinalized'
  <2>1. ASSUME ~failed', NEW i \in DOMAIN sections,
               sections[i].group = "RWData" \/ i > finalized', NEW p \in Pages(sections[i])
        PROVE  perm'[p] = "rw"
    BY <1>3, <1>9, <2>1 DEF Inv, WritableUntilFinalized
  <2>. QED
    BY <1>3, <2>1 DEF WritableUntilFinalized
<1>20. PendingOrProtected'
  <2>. DEFINE Wanted(s) == [Code |-> "rx", ROData |-> "r", RWData |-> "rw"][s.group]
  <2>1. ASSUME NEW i \in DOMAIN sections
        PROVE  \/ \A p \in Pages(sections[i]) : perm'[p] = Wanted(sections[i])
               \/ \E k \in DOMAIN PendingMem[sections[i].group] :
                     Inside(sections[i], PendingMem[sections[i].group][k])
    <3>1. \/ \A p \in Pages(sections[i]) : perm[p] = Wanted(sections[i])
          \/ \E k \in DOMAIN PendingMem[sections[i].group] :
                Inside(sections[i], PendingMem[sections[i].group][k])
      BY <2>1 DEF Inv, PendingOrProtected
    <3>. QED
      BY <1>9, <2>1, <3>1
  <2>. QED
    BY <1>3, <2>1 DEF PendingOrProtected, Inside
<1>. QED
  BY <1>11, <1>12, <1>13, <1>14, <1>15, <1>16, <1>17, <1>18, <1>19, <1>20 DEF Inv

\* ... and when what is left of the last mapping suffices.
LEMMA ReuseKeepsInv ==
  ASSUME Inv, reserveAllocationSpace, NEW request \in Requests, todo' = request,
         ReuseSpace(request)
  PROVE  Inv'
<1>1. /\ UNCHANGED <<PendingMem, sections, finalized, failed, FreeMem, AllocatedMem, perm>>
      /\ loads' = loads + 1 /\ loads < MaxLoads
  BY DEF reserveAllocationSpace, ReuseSpace
<1>2. TypeOK'
  <2>1. todo' \in [Groups -> Seq(SectionRequest)]
    BY MemoryAssumption
  <2>2. loads' \in 0..MaxLoads
    BY <1>1, MemoryAssumption DEF Inv, TypeOK
  <2>. QED
    BY <1>1, <2>1, <2>2 DEF Inv, TypeOK
<1>3. NoneEmpty' /\ FreeLast' /\ FreeWritable' /\ SectionsApart'
  BY <1>1 DEF Inv, NoneEmpty, FreeLast, FreeWritable, SectionsApart, OnPage
<1>4. FreshBase' = FreshBase /\ \A g \in Groups : PagesOf(g)' = PagesOf(g)
  BY <1>1 DEF FreshBase, PagesOf
<1>5. MappedSoFar' /\ GroupsApart'
  BY <1>1, <1>4 DEF Inv, MappedSoFar, GroupsApart, OnPage
<1>6. LoadsTogether'
  <2>1. \A i \in DOMAIN sections : sections[i] \in Section
    BY Blocks DEF Inv
  <2>2. \A i \in DOMAIN sections : sections[i].load \in Nat /\ sections[i].load <= loads
    BY <2>1 DEF Inv, LoadsTogether, Section
  <2>3. \A i \in DOMAIN sections' : /\ sections'[i].load <= loads'
                                    /\ sections'[i].load # loads'
    BY <1>1, <2>2, MemoryAssumption DEF Inv, TypeOK
  <2>4. ObjectInOneMapping'
    BY <1>1 DEF Inv, LoadsTogether, ObjectInOneMapping
  <2>. QED
    BY <2>3, <2>4 DEF LoadsTogether
<1>7. WritableUntilFinalized' /\ PendingOrProtected'
  BY <1>1 DEF Inv, WritableUntilFinalized, PendingOrProtected
<1>. QED
  BY <1>2, <1>3, <1>5, <1>6, <1>7 DEF Inv

\* Both ways of reserveAllocationSpace together.
LEMMA ReserveKeepsInv ==
  ASSUME Inv, reserveAllocationSpace
  PROVE  Inv'
<1>1. PICK request \in Requests :
         todo' = request /\ (ReuseSpace(request) \/ NewMapping(request))
  BY DEF reserveAllocationSpace
<1>. QED
  BY <1>1, NewMappingKeepsInv, ReuseKeepsInv

-----------------------------------------------------------------------------
(* The beginning and the end *)

\* Where nothing is mapped or given out the invariant holds.
LEMMA NothingYet ==
  ASSUME FreeMem = [g \in Groups |-> <<>>], PendingMem = [g \in Groups |-> <<>>],
         AllocatedMem = <<>>, perm = <<>>, sections = <<>>, finalized = 0,
         todo \in [Groups -> Seq(SectionRequest)], loads \in 0..MaxLoads,
         failed \in BOOLEAN
  PROVE  Inv
<1>1. DOMAIN (<<>>) = {}
  OBVIOUS
<1>2. /\ \A g \in Groups : FreeMem[g] = <<>> /\ PendingMem[g] = <<>>
      /\ \A g \in Groups : DOMAIN FreeMem[g] = {} /\ DOMAIN PendingMem[g] = {}
      /\ DOMAIN sections = {} /\ DOMAIN AllocatedMem = {} /\ DOMAIN perm = {}
  BY <1>1
<1>3. \A g \in Groups : PagesOf(g) = {}
  BY <1>2, TouchedIs DEF PagesOf
<1>4. FreshBase % PageSize = 0
  BY MemoryAssumption DEF FreshBase
<1>5. TypeOK
  <2>1. Len(sections) = 0
    OBVIOUS
  <2>. QED
    BY <1>1, <2>1, EmptySeq DEF TypeOK
<1>6. NoneEmpty /\ FreeLast /\ FreeWritable /\ SectionsApart
  BY <1>2 DEF NoneEmpty, FreeLast, FreeWritable, SectionsApart
<1>7. MappedSoFar /\ GroupsApart
  BY <1>2, <1>3, <1>4 DEF MappedSoFar, GroupsApart, OnPage
<1>8. LoadsTogether /\ WritableUntilFinalized /\ PendingOrProtected
  BY <1>2 DEF LoadsTogether, ObjectInOneMapping, WritableUntilFinalized, PendingOrProtected
<1>. QED
  BY <1>5, <1>6, <1>7, <1>8 DEF Inv

\* So it does after the destructor.
LEMMA DestroyKeepsInv ==
  ASSUME Inv, Destroy
  PROVE  Inv'
<1>1. DOMAIN (<<>>) = {}
  OBVIOUS
<1>2. /\ FreeMem' = [g \in Groups |-> <<>>] /\ PendingMem' = [g \in Groups |-> <<>>]
      /\ AllocatedMem' = <<>> /\ perm' = <<>> /\ sections' = <<>> /\ finalized' = 0
      /\ todo' \in [Groups -> Seq(SectionRequest)] /\ loads' \in 0..MaxLoads
      /\ failed' \in BOOLEAN
  BY MemoryAssumption DEF Destroy, Inv, TypeOK
<1>3. /\ \A g \in Groups : FreeMem'[g] = <<>> /\ PendingMem'[g] = <<>>
      /\ \A g \in Groups : DOMAIN FreeMem'[g] = {} /\ DOMAIN PendingMem'[g] = {}
      /\ DOMAIN sections' = {} /\ DOMAIN AllocatedMem' = {} /\ DOMAIN perm' = {}
  BY <1>1, <1>2
<1>4. \A g \in Groups : PagesOf(g)' = {}
  BY <1>3, TouchedIs DEF PagesOf
<1>5. (FreshBase % PageSize = 0)'
  BY <1>2, MemoryAssumption DEF FreshBase
<1>6. TypeOK'
  <2>1. Len(sections') = 0
    BY <1>2
  <2>. QED
    BY <1>1, <1>2, <2>1, EmptySeq DEF TypeOK
<1>7. NoneEmpty' /\ FreeLast' /\ FreeWritable' /\ SectionsApart'
  BY <1>3 DEF NoneEmpty, FreeLast, FreeWritable, SectionsApart
<1>8. MappedSoFar' /\ GroupsApart'
  BY <1>3, <1>4, <1>5 DEF MappedSoFar, GroupsApart, OnPage
<1>9. LoadsTogether' /\ WritableUntilFinalized' /\ PendingOrProtected'
  BY <1>3 DEF LoadsTogether, ObjectInOneMapping, WritableUntilFinalized, PendingOrProtected
<1>. QED
  BY <1>6, <1>7, <1>8, <1>9 DEF Inv

\* The invariant holds for a manager that was just made.
LEMMA InitInv ==
  ASSUME Init
  PROVE  Inv
<1>1. todo \in [Groups -> Seq(SectionRequest)]
  BY EmptySeq DEF Init
<1>2. loads \in 0..MaxLoads
  BY MemoryAssumption DEF Init
<1>3. failed \in BOOLEAN
  BY DEF Init
<1>. QED
  BY <1>1, <1>2, <1>3, NothingYet DEF Init

\* A step of something else keeps the invariant.
LEMMA StutterKeepsInv ==
  ASSUME Inv, UNCHANGED vars
  PROVE  Inv'
<1>1. FreshBase' = FreshBase /\ \A g \in Groups : PagesOf(g)' = PagesOf(g)
  BY DEF vars, FreshBase, PagesOf
<1>2. TypeOK' /\ NoneEmpty' /\ FreeLast' /\ FreeWritable' /\ SectionsApart'
  BY DEF Inv, vars, TypeOK, NoneEmpty, FreeLast, FreeWritable, SectionsApart, OnPage
<1>3. MappedSoFar' /\ GroupsApart'
  BY <1>1 DEF Inv, vars, MappedSoFar, GroupsApart, OnPage
<1>4. LoadsTogether' /\ WritableUntilFinalized' /\ PendingOrProtected'
  BY DEF Inv, vars, LoadsTogether, ObjectInOneMapping, WritableUntilFinalized,
         PendingOrProtected
<1>. QED
  BY <1>2, <1>3, <1>4 DEF Inv

-----------------------------------------------------------------------------
(* Safety *)

\* The invariant of the memory manager: in every state that reserving space,
\* giving out sections, finalising (or failing to) and destroying can reach.
THEOREM MemoryInvariant == Spec => []Inv
<1>1. Init => Inv
  BY InitInv
<1>2. Inv /\ [Next]_vars => Inv'
  BY ReserveKeepsInv, AllocateKeepsInv, FinalizeKeepsInv, DestroyKeepsInv, StutterKeepsInv
     DEF Next
<1>. QED
  BY <1>1, <1>2, PTL DEF Spec

\* No byte is given out twice (allocateSection), nor handed out while it is
\* still in FreeMem of whichever group, for every page size, every request.
THEOREM NoByteGivenTwice == Spec => []SectionsDisjoint
<1>1. Inv => SectionsDisjoint
  <2>. SUFFICES ASSUME Inv PROVE SectionsDisjoint
    OBVIOUS
  <2>1. TypeOK /\ NoneEmpty /\ FreeLast /\ GroupsApart /\ SectionsApart
    BY DEF Inv
  <2>2. ASSUME NEW i \in DOMAIN sections, NEW g \in Groups, NEW k \in DOMAIN FreeMem[g],
               Overlap(sections[i], FreeMem[g][k])
        PROVE  FALSE
    <3>1. PICK h \in Groups : sections[i].group = h
      BY <2>1, <2>2, Blocks
    <3>2. Bytes(sections[i]) /\ Bytes(FreeMem[g][k])
      BY <2>1, <2>2, Blocks
    <3>3. CASE h = g
      <4>1. End(sections[i]) <= FreeMem[g][k].base
        BY <2>1, <2>2, <3>1, <3>3 DEF FreeLast
      <4>2. End(sections[i]) \in Nat /\ FreeMem[g][k].base \in Nat
        BY <2>1, <2>2, <3>2, Blocks DEF Bytes
      <4>. QED
        BY <2>2, <4>1, <4>2 DEF Overlap
    <3>4. CASE h # g
      <4>1. PICK p : p \in Pages(sections[i]) /\ p \in Pages(FreeMem[g][k])
        BY <2>2, <3>2, OverlapSharesPage
      <4>2. p \in PagesOf(h) /\ p \in PagesOf(g)
        BY <2>2, <3>1, <4>1, PagesOfHas
      <4>. QED
        BY <2>1, <3>4, <4>2 DEF GroupsApart
    <3>. QED
      BY <3>3, <3>4
  <2>. QED
    BY <2>1, <2>2 DEF SectionsDisjoint, SectionsApart
<1>. QED
  BY <1>1, MemoryInvariant, PTL

\* finalizeMemory never takes a page from a section that is still written to:
\* what it has not finalised yet, and read-write data, stays writable.
THEOREM SectionsStayWritable == Spec => []WritableUntilFinalized
<1>1. Inv => WritableUntilFinalized
  BY DEF Inv
<1>. QED
  BY <1>1, MemoryInvariant, PTL

\* A section that finalizeMemory has not given the permissions of its group is
\* pending, even when protecting some block has failed.
THEOREM NoSectionForgotten == Spec => []PendingOrProtected
<1>1. Inv => PendingOrProtected
  BY DEF Inv
<1>. QED
  BY <1>1, MemoryInvariant, PTL

\* What reserveAllocationSpace promises: an object is in one mapping.
THEOREM ObjectsAreNear == Spec => []ObjectInOneMapping
<1>1. Inv => ObjectInOneMapping
  BY DEF Inv, LoadsTogether
<1>. QED
  BY <1>1, MemoryInvariant, PTL

-----------------------------------------------------------------------------
(* What is reserved suffices *)

\* The sum that is announced, as what remains for the sections from each on.
LEMMA RoomIs ==
  ASSUME AlignmentsFit, NEW request \in Requests, NEW g \in Groups, request[g] # <<>>
  PROVE  \E align \in Nat \ {0}, room \in [1..(Len(request[g]) + 1) -> Nat] :
            /\ align = AnnouncedAlign(request[g])
            /\ PageSize % align = 0
            /\ room[1] = AnnouncedSize(request[g]) /\ room[1] % align = 0
            /\ \A i \in 1..Len(request[g]) :
                  /\ align % AlignmentOf(request[g][i]) = 0
                  /\ room[i] = alignTo(request[g][i].size, align) + room[i + 1]
<1>1. request[g] \in Seq(SectionRequest)
  BY MemoryAssumption
<1>2. PICK ss \in Seq(SectionRequest) : ss = request[g]
  BY <1>1
<1>3. PICK align : align = AnnouncedAlign(ss)
  OBVIOUS
<1>4. /\ align \in Nat \ {0}
      /\ \A i \in DOMAIN ss : AlignmentOf(ss[i]) <= align
      /\ align = 1 \/ \E i \in DOMAIN ss : align = AlignmentOf(ss[i])
  BY <1>3, AnnouncedAlignIs
<1>5. DOMAIN ss = 1..Len(ss) /\ Len(ss) \in Nat
  BY LenProperties
<1>6. \A i \in DOMAIN ss : AlignmentOf(ss[i]) \in Nat \ {0}
  <2>. SUFFICES ASSUME NEW i \in DOMAIN ss PROVE AlignmentOf(ss[i]) \in Nat \ {0}
    OBVIOUS
  <2>1. ss[i] \in SectionRequest
    BY <1>5, ElementOfSeq
  <2>. QED
    BY <2>1, RequiredSizeIs
<1>7. PageSize \in Nat \ {0}
  BY MemoryAssumption
<1>8. PageSize % align = 0
  <2>1. CASE align = 1
    BY ONLY <1>7, <2>1
  <2>2. CASE \E i \in DOMAIN ss : align = AlignmentOf(ss[i])
    BY <1>2, <2>2 DEF AlignmentsFit
  <2>. QED
    BY <1>4, <2>1, <2>2
<1>9. ASSUME NEW i \in DOMAIN ss PROVE align % AlignmentOf(ss[i]) = 0
  <2>1. PICK a : a = AlignmentOf(ss[i])
    OBVIOUS
  <2>2. a \in Nat \ {0} /\ a <= align
    BY <1>4, <1>6, <1>9, <2>1
  <2>3. CASE align = 1
    <3>1. a = 1
      BY ONLY <2>2, <2>3
    <3>. QED
      BY ONLY <2>1, <2>3, <3>1
  <2>4. CASE \E j \in DOMAIN ss : align = AlignmentOf(ss[j])
    <3>1. align % a = 0 \/ a % align = 0
      BY <1>2, <1>9, <2>1, <2>4 DEF AlignmentsFit
    <3>2. CASE a % align = 0
      <4>1. align <= a
        BY ONLY <1>4, <2>2, <3>2, MultipleAtLeast
      <4>2. a = align
        BY ONLY <1>4, <2>2, <4>1
      <4>. QED
        BY <2>1, <3>2, <4>2
    <3>. QED
      BY <2>1, <3>1, <3>2
  <2>. QED
    BY <1>4, <2>3, <2>4
<1>10. PICK room \in [1..(Len(ss) + 1) -> Nat] :
          /\ room[1] = AnnouncedSize(ss)
          /\ \A i \in 1..Len(ss) : room[i] = alignTo(ss[i].size, align) + room[i + 1]
  BY <1>3, AnnouncedSizeIs
<1>11. room[1] % align = 0
  BY <1>3, <1>10, AnnouncedSizeIs
<1>. QED
  <2>1. /\ align = AnnouncedAlign(ss) /\ PageSize % align = 0
        /\ room[1] = AnnouncedSize(ss) /\ room[1] % align = 0
        /\ \A i \in 1..Len(ss) :
              /\ align % AlignmentOf(ss[i]) = 0
              /\ room[i] = alignTo(ss[i].size, align) + room[i + 1]
    BY ONLY <1>3, <1>5, <1>8, <1>9, <1>10, <1>11
  <2>2. align \in Nat \ {0} /\ room \in [1..(Len(ss) + 1) -> Nat]
    BY ONLY <1>4, <1>10
  <2>. QED
    BY ONLY <1>2, <2>1, <2>2

\* A block of the reserved size that ends where a page does has room for all,
\* however its base is aligned.
LEMMA ReservedHasRoom ==
  ASSUME NEW b, Bytes(b), End(b) \in Nat, OnPage(End(b)),
         NEW align \in Nat \ {0}, PageSize % align = 0,
         NEW total \in Nat, total % align = 0, NEW size \in Nat,
         size >= total + align, b.size >= size
  PROVE  End(b) - alignTo(b.base, align) >= total + align
<1>1. PICK at, end : at = alignTo(b.base, align) /\ end = End(b)
  OBVIOUS
<1>2. b.base \in Nat /\ b.size \in Nat /\ end = b.base + b.size /\ end \in Nat
  BY <1>1 DEF Bytes, End
<1>3. at \in Nat /\ at < b.base + align /\ at % align = 0
  BY <1>1, <1>2, AlignToIs
<1>4. end % align = 0
  BY <1>1, <1>2, MultipleOfMultiple, MemoryAssumption DEF OnPage
<1>5. end - at > total
  BY <1>2, <1>3
<1>6. (end - at) % align = 0 /\ end - at \in Int
  BY ONLY <1>2, <1>3, <1>4, MultiplesApart
<1>7. end - at >= total + align
  BY ONLY <1>5, <1>6, MultiplesApart, total \in Nat, total % align = 0, align \in Nat \ {0}
<1>. QED
  BY <1>1, <1>7

\* Giving out a section takes no more than its part of the room.
LEMMA RoomTaken ==
  ASSUME NEW base \in Nat, NEW size \in Nat, NEW align \in Nat \ {0},
         NEW a \in Nat \ {0}, align % a = 0
  PROVE  alignTo(alignTo(base, a) + size, align)
            <= alignTo(base, align) + alignTo(size, align)
<1>1. PICK at, start, taken : /\ at = alignTo(base, a) /\ start = alignTo(base, align)
                              /\ taken = alignTo(size, align)
  OBVIOUS
<1>2. /\ start \in Nat /\ base <= start /\ start % align = 0
      /\ taken \in Nat /\ size <= taken /\ taken % align = 0
  BY <1>1, AlignToIs
<1>3. start \in Int /\ taken \in Int
  BY <1>2
<1>4. start % a = 0
  BY ONLY <1>2, <1>3, align \in Nat \ {0}, a \in Nat \ {0}, align % a = 0,
     MultipleOfMultiple
<1>5. at \in Nat /\ at <= start
  BY <1>1, <1>2, <1>4, AlignToIs
<1>6. (start + taken) % align = 0
  BY ONLY <1>2, <1>3, align \in Nat \ {0}, MultiplesApart
<1>7. PICK n \in Nat : n = at + size
  BY <1>5
<1>8. n <= start + taken /\ start + taken \in Int
  BY ONLY <1>2, <1>5, <1>7, size \in Nat
<1>9. alignTo(n, align) <= start + taken
  BY <1>6, <1>8, AlignToIs
<1>. QED
  BY <1>1, <1>7, <1>9

\* Where there is room, the next section of the group fits.
LEMMA RoomSuffices ==
  ASSUME Inv, NEW g \in Groups, RoomLeft(g), todo[g] # <<>>
  PROVE  hasSpace(g, RequiredSize(Head(todo[g])))
<1>1. PICK align \in Nat \ {0}, room \in [1..(Len(todo[g]) + 1) -> Nat],
           k \in DOMAIN FreeMem[g] :
            /\ PageSize % align = 0
            /\ \A i \in 1..Len(todo[g]) :
                  /\ align % AlignmentOf(todo[g][i]) = 0
                  /\ room[i] = alignTo(todo[g][i].size, align) + room[i + 1]
            /\ End(FreeMem[g][k]) - alignTo(FreeMem[g][k].base, align) >= room[1] + align
  BY DEF RoomLeft
<1>2. todo[g] \in Seq(SectionRequest)
  BY DEF Inv, TypeOK
<1>3. Len(todo[g]) \in Nat /\ 1 \in 1..Len(todo[g]) /\ Head(todo[g]) = todo[g][1]
      /\ todo[g][1] \in SectionRequest
  BY <1>2, HeadTailProperties, LenProperties, EmptySeq
<1>4. PICK s \in SectionRequest : s = todo[g][1]
  BY <1>3
<1>5. PICK a : a = AlignmentOf(s)
  OBVIOUS
<1>6. /\ a \in Nat \ {0} /\ s.size \in Nat
      /\ RequiredSize(s) = alignTo(s.size, a) + a
  BY <1>5, RequiredSizeIs
<1>7. PICK b : b = FreeMem[g][k]
  OBVIOUS
<1>8. b.base \in Nat /\ b.size \in Nat /\ End(b) = b.base + b.size
  BY <1>7, Blocks DEF Inv, Bytes, End
<1>9. align % a = 0
  BY <1>1, <1>3, <1>4, <1>5
<1>10. a <= align
  BY <1>6, <1>9, MultipleAtLeast
<1>11. alignTo(s.size, a) \in Nat /\ alignTo(s.size, align) \in Nat
       /\ alignTo(s.size, a) <= alignTo(s.size, align)
  <2>1. /\ alignTo(s.size, align) \in Nat /\ s.size <= alignTo(s.size, align)
        /\ alignTo(s.size, align) % align = 0
    BY <1>6, AlignToIs
  <2>2. alignTo(s.size, align) % a = 0
    BY <1>6, <1>9, <2>1, MultipleOfMultiple
  <2>3. PICK m \in Int : m = alignTo(s.size, align)
    BY <2>1
  <2>4. m % a = 0 /\ s.size <= m
    BY <2>1, <2>2, <2>3
  <2>5. alignTo(s.size, a) \in Nat /\ alignTo(s.size, a) <= m
    BY ONLY <1>6, <2>3, <2>4, AlignToIs
  <2>. QED
    BY ONLY <2>1, <2>3, <2>5
<1>12. room[1] >= alignTo(s.size, align)
  <2>1. room[1] = alignTo(s.size, align) + room[2]
    BY <1>1, <1>3, <1>4
  <2>2. room[2] \in Nat
    BY <1>3
  <2>. QED
    BY <1>11, <2>1, <2>2
<1>13. alignTo(b.base, align) \in Nat /\ alignTo(b.base, align) >= b.base
  BY <1>8, AlignToIs
<1>14. room[1] \in Nat
  BY <1>3
<1>15. End(b) - alignTo(b.base, align) >= room[1] + align
  BY <1>1, <1>7
<1>16. PICK at, x, y, r, e : /\ at = alignTo(b.base, align) /\ x = alignTo(s.size, a)
                             /\ y = alignTo(s.size, align) /\ r = room[1] /\ e = End(b)
  OBVIOUS
<1>17. b.size >= x + a
  BY ONLY <1>6, <1>8, <1>10, <1>11, <1>12, <1>13, <1>14, <1>15, <1>16
<1>. QED
  BY <1>3, <1>4, <1>6, <1>7, <1>16, <1>17 DEF hasSpace

\* An object that is announced finds room, in what is left or in a mapping.
LEMMA ReserveMakesRoom ==
  ASSUME AlignmentsFit, Inv, reserveAllocationSpace, NEW g \in Groups
  PROVE  RoomLeft(g)'
<1>. SUFFICES ASSUME todo'[g] # <<>>
              PROVE  \E align \in Nat \ {0}, room \in [1..(Len(todo'[g]) + 1) -> Nat] :
            /\ PageSize % align = 0
            /\ \A i \in 1..Len(todo'[g]) :
                  /\ align % AlignmentOf(todo'[g][i]) = 0
                  /\ room[i] = alignTo(todo'[g][i].size, align) + room[i + 1]
            /\ \E k \in DOMAIN FreeMem'[g] :
                  End(FreeMem'[g][k]) - alignTo(FreeMem'[g][k].base, align)
                      >= room[1] + align
  BY DEF RoomLeft, End, alignTo, AlignmentOf
<1>1. PICK request \in Requests :
         todo' = request /\ (ReuseSpace(request) \/ NewMapping(request))
  BY DEF reserveAllocationSpace
<1>2. request[g] \in Seq(SectionRequest) /\ request[g] # <<>>
  BY <1>1, MemoryAssumption
<1>3. PICK align \in Nat \ {0}, room \in [1..(Len(request[g]) + 1) -> Nat] :
            /\ align = AnnouncedAlign(request[g])
            /\ PageSize % align = 0
            /\ room[1] = AnnouncedSize(request[g]) /\ room[1] % align = 0
            /\ \A i \in 1..Len(request[g]) :
                  /\ align % AlignmentOf(request[g][i]) = 0
                  /\ room[i] = alignTo(request[g][i].size, align) + room[i + 1]
  BY <1>2, RoomIs
<1>4. PICK size : size = ReservedSize(request[g])
  OBVIOUS
<1>5. size \in Nat /\ size >= room[1] + align
  BY <1>2, <1>3, <1>4, ReservedSizeIs
<1>6. room[1] \in Nat
  BY <1>2, <1>3, LenProperties
<1>7. TypeOK /\ NoneEmpty /\ MappedSoFar /\ FreeLast
  BY DEF Inv
<1>8. PICK k \in DOMAIN FreeMem'[g] :
         /\ Bytes(FreeMem'[g][k]) /\ OnPage(End(FreeMem'[g][k]))
         /\ FreeMem'[g][k].size >= size
  <2>1. CASE ReuseSpace(request)
    <3>1. PICK k \in DOMAIN FreeMem[g] : FreeMem[g][k].size >= size
      BY <1>4, <2>1 DEF ReuseSpace, hasSpace
    <3>2. Bytes(FreeMem[g][k]) /\ OnPage(End(FreeMem[g][k]))
      BY <1>7, <3>1, Blocks DEF FreeLast
    <3>3. FreeMem' = FreeMem
      BY <2>1 DEF ReuseSpace
    <3>. QED
      BY <3>1, <3>2, <3>3
  <2>2. CASE NewMapping(request)
    <3>1. 1 \in DOMAIN FreeMem'[g]
      <4>1. \A h \in Groups : DOMAIN FreeMem'[h] = IF request[h] = <<>> THEN {} ELSE {1}
        BY <1>7, <2>2, NewMappingGives
      <4>. QED
        BY <1>2, <4>1
    <3>2. /\ Bytes(FreeMem'[g][1]) /\ OnPage(End(FreeMem'[g][1]))
          /\ FreeMem'[g][1].size >= size
      BY <1>4, <1>7, <2>2, <3>1, NewMappingGives
    <3>. QED
      BY <3>1, <3>2
  <2>. QED
    BY <1>1, <2>1, <2>2
<1>9. PICK b : b = FreeMem'[g][k]
  OBVIOUS
<1>10. Bytes(b) /\ End(b) \in Nat /\ OnPage(End(b)) /\ b.size >= size
  BY <1>8, <1>9 DEF Bytes, End
<1>11. End(b) - alignTo(b.base, align) >= room[1] + align
  BY ONLY <1>3, <1>5, <1>6, <1>10, ReservedHasRoom
<1>. QED
  BY <1>1, <1>3, <1>8, <1>9, <1>11

\* Giving out a section leaves room for those that follow.
LEMMA AllocateLeavesRoom ==
  ASSUME Inv, NEW g \in Groups, allocateSection(g), RoomLeft(g)
  PROVE  RoomLeft(g)'
<1>. SUFFICES ASSUME todo'[g] # <<>>
              PROVE  \E align \in Nat \ {0}, room \in [1..(Len(todo'[g]) + 1) -> Nat] :
            /\ PageSize % align = 0
            /\ \A i \in 1..Len(todo'[g]) :
                  /\ align % AlignmentOf(todo'[g][i]) = 0
                  /\ room[i] = alignTo(todo'[g][i].size, align) + room[i + 1]
            /\ \E k \in DOMAIN FreeMem'[g] :
                  End(FreeMem'[g][k]) - alignTo(FreeMem'[g][k].base, align)
                      >= room[1] + align
  BY DEF RoomLeft, End, alignTo, AlignmentOf
<1>1. TypeOK /\ NoneEmpty /\ FreeLast
  BY DEF Inv
<1>2. todo[g] # <<>> /\ todo[g] \in Seq(SectionRequest)
  BY <1>1 DEF allocateSection, TypeOK
<1>3. PICK align \in Nat \ {0}, room \in [1..(Len(todo[g]) + 1) -> Nat],
           k \in DOMAIN FreeMem[g] :
            /\ PageSize % align = 0
            /\ \A i \in 1..Len(todo[g]) :
                  /\ align % AlignmentOf(todo[g][i]) = 0
                  /\ room[i] = alignTo(todo[g][i].size, align) + room[i + 1]
            /\ End(FreeMem[g][k]) - alignTo(FreeMem[g][k].base, align) >= room[1] + align
  BY <1>2 DEF RoomLeft
<1>4. /\ todo'[g] = Tail(todo[g]) /\ DOMAIN FreeMem'[g] = {1} /\ FreeMem'[g][1] = Left(g)
      /\ k = 1
  BY <1>1, Handed, Cut
<1>5. PICK n \in Nat : n = Len(todo[g])
  BY <1>2, LenProperties
<1>6. /\ n >= 1 /\ Len(todo'[g]) = n - 1
      /\ \A i \in 1..(n - 1) : todo'[g][i] = todo[g][i + 1]
      /\ Head(todo[g]) = todo[g][1]
  BY <1>2, <1>4, <1>5, HeadTailProperties, EmptySeq, LenProperties
<1>7. PICK s \in SectionRequest : s = todo[g][1]
  BY <1>2, <1>5, <1>6, ElementOfSeq
<1>8. PICK a \in Nat \ {0} : a = AlignmentOf(s)
  BY RequiredSizeIs
<1>9. align % a = 0 /\ room[1] = alignTo(s.size, align) + room[2]
  BY <1>3, <1>5, <1>6, <1>7, <1>8
<1>10. PICK b : b = FreeMem[g][1]
  OBVIOUS
<1>11. b.base \in Nat /\ End(b) \in Nat /\ s.size \in Nat
  BY <1>1, <1>4, <1>10, Blocks, RequiredSizeIs DEF Bytes
<1>12. Left(g).base = alignTo(b.base, a) + s.size /\ End(Left(g)) = End(b)
  <2>1. Source(g) = b /\ Asked(g) = s
    BY <1>1, <1>6, <1>7, <1>10, Cut DEF Source, Asked
  <2>2. Left(g).base = End(Given(g)) /\ End(Left(g)) = End(Source(g))
    BY <1>1, Cut
  <2>3. End(Given(g)) = alignTo(b.base, a) + s.size
    BY <1>8, <2>1 DEF Given, End
  <2>. QED
    BY <2>1, <2>2, <2>3
<1>13. alignTo(Left(g).base, align) <= alignTo(b.base, align) + alignTo(s.size, align)
  BY <1>9, <1>11, <1>12, RoomTaken
<1>14. /\ alignTo(Left(g).base, align) \in Nat /\ alignTo(b.base, align) \in Nat
       /\ alignTo(s.size, align) \in Nat
  <2>1. Left(g).base \in Nat
    BY <1>1, Cut DEF Bytes
  <2>. QED
    BY <1>11, <2>1, AlignToIs
<1>15. End(b) - alignTo(b.base, align) >= room[1] + align
  BY <1>3, <1>4, <1>10
<1>16. PICK later : later = [i \in 1..n |-> room[i + 1]]
  OBVIOUS
<1>17. later \in [1..n -> Nat] /\ room[2] \in Nat
  BY <1>5, <1>6, <1>16
<1>18. End(Left(g)) - alignTo(Left(g).base, align) >= later[1] + align
  <2>1. PICK x, y, z, e, r : /\ x = alignTo(Left(g).base, align) /\ y = alignTo(b.base, align)
                             /\ z = alignTo(s.size, align) /\ e = End(b) /\ r = room[2]
    OBVIOUS
  <2>2. e - x >= r + align
    BY ONLY <1>9, <1>11, <1>13, <1>14, <1>15, <1>17, <2>1, align \in Nat \ {0}
  <2>3. later[1] = r
    BY ONLY <1>6, <1>16, <2>1, n \in Nat
  <2>. QED
    BY <1>12, <2>1, <2>2, <2>3
<1>19. ASSUME NEW i \in 1..Len(todo'[g])
       PROVE  /\ align % AlignmentOf(todo'[g][i]) = 0
              /\ later[i] = alignTo(todo'[g][i].size, align) + later[i + 1]
  <2>1. i \in 1..(n - 1) /\ i + 1 \in 1..n /\ i \in 1..n /\ i + 1 \in 1..Len(todo[g])
    BY <1>5, <1>6, <1>19
  <2>2. todo'[g][i] = todo[g][i + 1]
    BY <1>6, <2>1
  <2>3. later[i] = room[i + 1] /\ later[i + 1] = room[(i + 1) + 1]
    BY <1>16, <2>1
  <2>. QED
    BY <1>3, <2>1, <2>2, <2>3
<1>20. later \in [1..(Len(todo'[g]) + 1) -> Nat]
  BY <1>6, <1>17
<1>21. 1 \in DOMAIN FreeMem'[g] /\ FreeMem'[g][1] = Left(g)
  BY <1>4
<1>. QED
  BY <1>3, <1>18, <1>19, <1>20, <1>21

\* What reserveAllocationSpace relies on ("All memory must be pre-allocated"):
\* no section of any object, in whatever order the groups are served, fails to
\* find its space, as long as alignments divide one another and a page.
THEOREM ReservationsSuffice ==
  ASSUME AlignmentsFit
  PROVE  Spec => []SpaceForAll
<1>1. Init => Room
  BY DEF Init, Room, RoomLeft
<1>2. Inv /\ Room /\ [Next]_vars => Room'
  <2>. SUFFICES ASSUME Inv, Room, [Next]_vars, NEW g \in Groups PROVE RoomLeft(g)'
    BY DEF Room
  <2>1. CASE reserveAllocationSpace
    BY <2>1, ReserveMakesRoom
  <2>2. ASSUME NEW h \in Groups, allocateSection(h) PROVE RoomLeft(g)'
    <3>1. CASE h = g
      BY <2>2, <3>1, AllocateLeavesRoom DEF Room
    <3>2. CASE h # g
      <4>1. TypeOK /\ NoneEmpty /\ FreeLast
        BY DEF Inv
      <4>2. FreeMem'[g] = FreeMem[g] /\ todo'[g] = todo[g]
        BY <2>2, <3>2, <4>1, Handed
      <4>. QED
        BY <4>2 DEF Room, RoomLeft
    <3>. QED
      BY <3>1, <3>2
  <2>3. CASE finalizeMemory \/ Destroy
    <3>1. todo'[g] = <<>>
      BY <2>3 DEF finalizeMemory, Destroy, Loading
    <3>. QED
      BY <3>1 DEF RoomLeft
  <2>4. CASE UNCHANGED vars
    BY <2>4 DEF vars, Room, RoomLeft
  <2>. QED
    BY <2>1, <2>2, <2>3, <2>4 DEF Next
<1>3. Inv /\ Room => SpaceForAll
  BY RoomSuffices DEF Room, SpaceForAll
<1>. QED
  BY <1>1, <1>2, <1>3, MemoryInvariant, PTL DEF Spec
=============================================================================
