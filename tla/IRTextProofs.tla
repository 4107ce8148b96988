---------------------------- MODULE IRTextProofs ----------------------------
(***************************************************************************)
(* Proofs about IRText, with the names of NameScope and the metadata of    *)
(* IRMetadata: definitions stay distinct and in order, texts stay up to    *)
(* date, promises of names are kept, and metadata nodes have what they    *)
(* were asked to have.                                                     *)
(*                                                                         *)
(* First the operators: what register, deduplicate, add_metadata and       *)
(* add_debug_info do to a scope and to the nodes.  Then every step of the  *)
(* model is one of a few kinds, by what it does to the metadata (MetaStep) *)
(* and to the values (ValueStep), and each part of the inductive invariant *)
(* is shown to be kept by every kind.                                      *)
(***************************************************************************)
EXTENDS IRText, FiniteSetTheorems, SequenceTheorems, WellFoundedInduction,
        NaturalsInduction, TLAPS

-----------------------------------------------------------------------------
(* Names *)

\* What names are made of, and references of names.
Letters ==
    {"", "f", "entry", "@", "%"} \cup Nat \cup {Numeral(n) : n \in Nat}
      \cup UNION {ToSet(name) : name \in Names}
Name == Seq(Letters) \ {<<>>}

ScopeOK(s) ==
    /\ s = [used |-> s.used, counts |-> s.counts]
    /\ IsFiniteSet(s.used) /\ s.used \subseteq Name /\ <<"">> \in s.used
    /\ s.counts \in [DOMAIN s.counts -> Nat]

\* Every set of naturals has a least element: < is well-founded on Nat.
LEMMA LeastNat ==
  ASSUME NEW T \in SUBSET Nat, T # {}
  PROVE  \E n \in T : \A m \in T : n <= m
<1>1. PICK n \in T : \A m \in T : ~(<<m, n>> \in OpToRel(<, Nat))
  BY WFMin, NatLessThanWellFounded, Zenon
<1>2. \A m \in T : ~(m < n)
  BY <1>1, Zenon DEF OpToRel
<1>3. \A m \in T : m \in Nat /\ n \in Nat
  OBVIOUS
<1>. QED
  BY ONLY <1>2, <1>3

\* Hence a set of naturals that has 0 and every successor has them all.
LEMMA AllNat ==
  ASSUME NEW T \in SUBSET Nat, 0 \in T, \A n \in T : n + 1 \in T
  PROVE  T = Nat
<1>. SUFFICES ASSUME Nat \ T # {} PROVE FALSE
  OBVIOUS
<1>1. PICK n \in Nat \ T : \A m \in Nat \ T : n <= m
  BY ONLY LeastNat, Nat \ T # {}
<1>2. n # 0 /\ n - 1 \in Nat /\ ~(n <= n - 1)
  BY <1>1
<1>3. n - 1 \in T
  BY <1>1, <1>2
<1>. QED
  BY <1>1, <1>2, <1>3

\* One letter is a name.
LEMMA OneLetter ==
  ASSUME NEW x \in Letters
  PROVE  <<x>> \in Name /\ Len(<<x>>) = 1
BY DEF Name

\* A name and a number make a name, a different one for each of both.
LEMMA NumberedName ==
  ASSUME NEW b \in Name, NEW n \in Nat
  PROVE  Append(b, n) \in Name /\ Len(Append(b, n)) = Len(b) + 1 /\ Len(b) \in Nat \ {0}
<1>1. b \in Seq(Letters) /\ b # <<>> /\ n \in Letters
  BY DEF Name, Letters
<1>2. Append(b, n) \in Seq(Letters) /\ Len(Append(b, n)) = Len(b) + 1 /\ Len(b) \in Nat \ {0}
  BY <1>1
<1>. QED
  BY <1>2 DEF Name

\* Names with different numbers, or of different names, differ.
LEMMA NumbersDiffer ==
  ASSUME NEW b \in Name, NEW c \in Name, NEW m \in Nat, NEW n \in Nat,
         Append(b, m) = Append(c, n)
  PROVE  b = c /\ m = n
BY DEF Name

\* The number deduplicate finds is new for its base, and makes a name not in use:
\* there are more numbers than names.
LEMMA FreshNumberFacts ==
  ASSUME NEW s, ScopeOK(s), NEW b \in Name
  PROVE  /\ FreshNumber(s, b) \in Nat
         /\ Counted(s, b) \in Nat
         /\ Counted(s, b) < FreshNumber(s, b)
         /\ Append(b, FreshNumber(s, b)) \notin s.used
<1>. DEFINE c == Counted(s, b)
            k == Cardinality(s.used)
            D == {n \in c + 1 .. c + k + 1 : Append(b, n) \notin s.used}
<1>1. c \in Nat
  BY DEF ScopeOK, Counted
<1>2. IsFiniteSet(s.used) /\ k \in Nat
  BY FS_CardinalityType DEF ScopeOK
<1>. HIDE DEF c, k
<1>3. D # {}
  <2>. SUFFICES ASSUME D = {} PROVE FALSE
    OBVIOUS
  <2>. DEFINE R == c + 1 .. c + k + 1
              f == [n \in R |-> Append(b, n)]
  <2>1. \A n \in R : f[n] \in s.used
    OBVIOUS
  <2>2. \A n \in R, m \in R : f[n] = f[m] => n = m
    BY NumbersDiffer, <1>1, <1>2
  <2>3. f \in Injection(R, s.used)
    BY <2>1, <2>2 DEF Injection, IsInjective
  <2>4. IsFiniteSet(R) /\ Cardinality(R) = k + 1
    BY FS_Interval, <1>1, <1>2
  <2>. HIDE DEF R, f
  <2>5. Cardinality(R) <= Cardinality(s.used)
    BY <2>3, <1>2, <2>4, FS_Injection
  <2>. QED
    BY <2>4, <2>5, <1>2 DEF k
<1>4. D \in SUBSET Nat
  BY <1>1, <1>2
<1>5. \E n \in D : \A m \in D : n <= m
  BY ONLY LeastNat, <1>3, <1>4
<1>6. FreshNumber(s, b) = Min(D)
  BY DEF FreshNumber, IsUsed, c, k
<1>7. Min(D) \in D
  BY <1>5 DEF Min
<1>8. Min(D) \in Nat /\ c < Min(D) /\ Append(b, Min(D)) \notin s.used
  BY <1>7, <1>4, <1>1, <1>2
<1>. QED
  BY <1>1, <1>6, <1>8 DEF c

\* What registering a name does: it takes a name that was not in use, the one asked
\* for or one made from it with a number that is higher than any before it.
LEMMA RegisterFacts ==
  ASSUME NEW s, ScopeOK(s), NEW b \in Name, NEW dedup \in BOOLEAN,
         CanRegister(s, b, dedup),
         NEW r, r = Register(s, b, dedup)
  PROVE  /\ r = [scope |-> r.scope, name |-> r.name]
         /\ ScopeOK(r.scope)
         /\ r.scope.used = s.used \cup {r.name}
         /\ r.name \in Name /\ r.name \notin s.used
         /\ b \notin s.used => r.name = b
         /\ b \in s.used => \E n \in Nat : Counted(s, b) < n /\ r.name = Append(b, n)
         /\ \A c \in Name : /\ Counted(s, c) \in Nat /\ Counted(r.scope, c) \in Nat
                            /\ Counted(s, c) <= Counted(r.scope, c)
<1>0. s = [used |-> s.used, counts |-> s.counts] /\ s.counts \in [DOMAIN s.counts -> Nat]
  BY DEF ScopeOK
<1>1. CASE b \notin s.used
  <2>1. r = [scope |-> [used |-> s.used \cup {b}, counts |-> s.counts], name |-> b]
    BY <1>0, <1>1 DEF Register, Deduplicate, IsUsed
  <2>2. /\ r.scope.used = s.used \cup {b} /\ r.scope.counts = s.counts /\ r.name = b
        /\ r = [scope |-> r.scope, name |-> r.name]
        /\ r.scope = [used |-> r.scope.used, counts |-> r.scope.counts]
    BY ONLY <2>1
  <2>3. IsFiniteSet(s.used \cup {b})
    BY FS_AddElement DEF ScopeOK
  <2>4. ScopeOK(r.scope)
    BY <2>2, <2>3, <1>0 DEF ScopeOK
  <2>5. \A c \in Name : Counted(s, c) \in Nat /\ Counted(r.scope, c) = Counted(s, c)
    BY <1>0, <2>2 DEF Counted
  <2>. QED
    BY <2>2, <2>4, <2>5, <1>1
<1>2. CASE b \in s.used
  <2>. DEFINE n == FreshNumber(s, b)
  <2>0. dedup = TRUE
    BY <1>2 DEF CanRegister, IsUsed
  <2>1. r = [scope |-> [used |-> s.used \cup {Append(b, n)},
                        counts |-> [c \in DOMAIN s.counts \cup {b} |->
                                       IF c = b THEN n ELSE s.counts[c]]],
             name |-> Append(b, n)]
    BY <1>0, <1>2, <2>0 DEF Register, Deduplicate, IsUsed
  <2>2. /\ n \in Nat /\ Counted(s, b) < n /\ Append(b, n) \notin s.used
        /\ Counted(s, b) \in Nat
    BY FreshNumberFacts
  <2>3. Append(b, n) \in Name
    BY NumberedName, <2>2
  <2>. HIDE DEF n
  <2>4. /\ r.scope.used = s.used \cup {Append(b, n)} /\ r.name = Append(b, n)
        /\ r = [scope |-> r.scope, name |-> r.name]
        /\ r.scope = [used |-> r.scope.used, counts |-> r.scope.counts]
        /\ r.scope.counts = [c \in DOMAIN s.counts \cup {b} |->
                                IF c = b THEN n ELSE s.counts[c]]
    BY ONLY <2>1
  <2>5. IsFiniteSet(s.used \cup {Append(b, n)})
    BY FS_AddElement DEF ScopeOK
  <2>6. ScopeOK(r.scope)
    <3>1. /\ IsFiniteSet(r.scope.used) /\ r.scope.used \subseteq Name
          /\ <<"">> \in r.scope.used
      BY ONLY <2>3, <2>4, <2>5, ScopeOK(s) DEF ScopeOK
    <3>2. r.scope.counts \in [DOMAIN r.scope.counts -> Nat]
      BY ONLY <2>2, <2>4, <1>0
    <3>. QED
      BY ONLY <2>4, <3>1, <3>2 DEF ScopeOK
  <2>7. \A c \in Name : c # b => Counted(s, c) \in Nat /\ Counted(r.scope, c) = Counted(s, c)
    BY <1>0, <2>4 DEF Counted
  <2>8. Counted(r.scope, b) = n
    BY <2>4 DEF Counted
  <2>. QED
    BY <2>2, <2>3, <2>4, <2>6, <2>7, <2>8, <1>2
<1>. QED
  BY <1>1, <1>2

\* A scope that has been registered in: no name is given back, no number goes down,
\* and a name that is new has one part, or a number higher than those before it.
Grown(s, t) ==
    /\ ScopeOK(s) /\ ScopeOK(t) /\ s.used \subseteq t.used
    /\ \A b \in Name : /\ Counted(s, b) \in Nat /\ Counted(t, b) \in Nat
                       /\ Counted(s, b) <= Counted(t, b)
    /\ \A u \in t.used \ s.used :
          Len(u) = 1 \/ \E b \in Name, n \in Nat : Counted(s, b) < n /\ u = Append(b, n)

\* Growing once and again is growing.
LEMMA GrownTwice ==
  ASSUME NEW s, NEW t, NEW u, Grown(s, t), Grown(t, u)
  PROVE  Grown(s, u)
<1>1. \A b \in Name : /\ Counted(s, b) \in Nat /\ Counted(u, b) \in Nat
                      /\ Counted(s, b) <= Counted(u, b)
  BY DEF Grown
<1>2. ASSUME NEW x \in u.used \ s.used
      PROVE  Len(x) = 1 \/ \E b \in Name, n \in Nat : Counted(s, b) < n /\ x = Append(b, n)
  <2>1. CASE x \in t.used
    BY <1>2, <2>1 DEF Grown
  <2>2. CASE x \notin t.used /\ Len(x) # 1
    <3>1. PICK b \in Name, n \in Nat : Counted(t, b) < n /\ x = Append(b, n)
      BY <1>2, <2>2 DEF Grown
    <3>2. Counted(s, b) \in Nat /\ Counted(t, b) \in Nat /\ Counted(s, b) <= Counted(t, b)
      BY DEF Grown
    <3>3. Counted(s, b) < n
      BY <3>1, <3>2
    <3>. QED
      BY <3>1, <3>3
  <2>. QED
    BY <2>1, <2>2
<1>. QED
  BY <1>1, <1>2 DEF Grown

\* A scope in which nothing happens has grown.
LEMMA GrownStays ==
  ASSUME NEW s, ScopeOK(s)
  PROVE  Grown(s, s)
<1>1. \A b \in Name : Counted(s, b) \in Nat
  BY DEF ScopeOK, Counted
<1>. QED
  BY <1>1 DEF Grown

\* To register a name of one part is to grow, by it or by a name of two parts.
LEMMA RegisterGrows ==
  ASSUME NEW s, ScopeOK(s), NEW b \in Name, NEW dedup \in BOOLEAN,
         CanRegister(s, b, dedup), Len(b) = 1
  PROVE  LET r == Register(s, b, dedup)
         IN /\ Grown(s, r.scope)
            /\ r.name \in Name /\ r.name \notin s.used
            /\ r.scope.used = s.used \cup {r.name}
            /\ b \notin s.used => r.name = b
            /\ b \in s.used => Len(r.name) = 2
<1>. DEFINE r == Register(s, b, dedup)
<1>1. /\ ScopeOK(r.scope)
      /\ r.scope.used = s.used \cup {r.name}
      /\ r.name \in Name /\ r.name \notin s.used
      /\ b \notin s.used => r.name = b
      /\ b \in s.used => \E n \in Nat : Counted(s, b) < n /\ r.name = Append(b, n)
      /\ \A c \in Name : /\ Counted(s, c) \in Nat /\ Counted(r.scope, c) \in Nat
                         /\ Counted(s, c) <= Counted(r.scope, c)
  BY RegisterFacts
<1>. HIDE DEF r
<1>2. Len(r.name) = 1 \/ \E c \in Name, n \in Nat : Counted(s, c) < n /\ r.name = Append(c, n)
  BY <1>1
<1>3. Grown(s, r.scope)
  BY <1>1, <1>2 DEF Grown
<1>4. ASSUME NEW n \in Nat PROVE Len(Append(b, n)) = 2
  <2>1. Len(Append(b, n)) = Len(b) + 1
    BY ONLY <1>4, NumberedName, b \in Name, Zenon
  <2>. QED
    BY <2>1
<1>5. b \in s.used => Len(r.name) = 2
  BY <1>1, <1>4
<1>. QED
  BY <1>1, <1>3, <1>5 DEF r
-----------------------------------------------------------------------------
(* Metadata *)

\* What the key of a node has of its operands.
Keyed(p) == Compared(TokenByValue(p))

KeyOf(kind, ops) == IF kind = "" THEN ops ELSE {Keyed(p) : p \in ops}

\* Each node is in the cache under its own contents only.
CacheOK(m) ==
    \A e \in m.cache :
        /\ e.node \in 1 .. Len(m.nodes)
        /\ e.key = <<m.nodes[e.node].kind,
                     KeyOf(m.nodes[e.node].kind, m.nodes[e.node].operands),
                     m.nodes[e.node].distinct>>

MetaOK(m) ==
    /\ m = [scope |-> m.scope, nodes |-> m.nodes, cache |-> m.cache, named |-> m.named]
    /\ ScopeOK(m.scope)
    /\ m.nodes \in Seq(ToSet(m.nodes))
    /\ CacheOK(m)

\* The metadata after more has been asked for: nodes are only added, at the end.
Extended(m, n) ==
    /\ MetaOK(m) /\ MetaOK(n)
    /\ Grown(m.scope, n.scope)
    /\ Len(m.nodes) \in Nat /\ Len(n.nodes) \in Nat /\ Len(m.nodes) <= Len(n.nodes)
    /\ \A k \in 1 .. Len(m.nodes) : n.nodes[k] = m.nodes[k]

\* A sequence of anything, and one more.
LEMMA OneMore ==
  ASSUME NEW s, s \in Seq(ToSet(s)), NEW e
  PROVE  LET t == Append(s, e)
         IN /\ t \in Seq(ToSet(t)) /\ Len(s) \in Nat /\ Len(t) = Len(s) + 1
            /\ DOMAIN s = 1 .. Len(s) /\ DOMAIN t = 1 .. Len(s) + 1
            /\ \A k \in 1 .. Len(s) : t[k] = s[k]
            /\ t[Len(s) + 1] = e
<1>. DEFINE S == ToSet(s) \cup {e}
            t == Append(s, e)
<1>1. s \in Seq(S) /\ e \in S
  OBVIOUS
<1>. HIDE DEF S
<1>2. /\ t \in Seq(S) /\ Len(s) \in Nat /\ Len(t) = Len(s) + 1
      /\ DOMAIN s = 1 .. Len(s) /\ DOMAIN t = 1 .. Len(s) + 1
      /\ \A k \in 1 .. Len(s) : t[k] = s[k]
      /\ t[Len(s) + 1] = e
  BY <1>1
<1>3. t \in Seq(ToSet(t))
  BY <1>2 DEF ToSet
<1>. QED
  BY <1>2, <1>3

\* Metadata that is left alone is extended by nothing, and to extend it twice is to
\* extend it.
LEMMA ExtendedStays ==
  ASSUME NEW m, MetaOK(m)
  PROVE  Extended(m, m)
BY GrownStays DEF MetaOK, Extended

\* More can be asked for after more has been asked for.
LEMMA ExtendedTwice ==
  ASSUME NEW m, NEW n, NEW o, Extended(m, n), Extended(n, o)
  PROVE  Extended(m, o)
<1>1. Grown(m.scope, o.scope)
  BY GrownTwice DEF Extended
<1>. QED
  BY <1>1 DEF Extended

\* MetaDataString takes a made-up name, and changes nothing else.
LEMMA AddStringFacts ==
  ASSUME NEW m, MetaOK(m)
  PROVE  Extended(m, AddString(m))
<1>. DEFINE r == Register(m.scope, <<"">>, TRUE)
            n == AddString(m)
<1>1. ScopeOK(m.scope) /\ <<"">> \in Name /\ Len(<<"">>) = 1
  <2>1. "" \in Letters
    BY DEF Letters
  <2>. QED
    BY OneLetter, <2>1 DEF MetaOK
<1>2. CanRegister(m.scope, <<"">>, TRUE) /\ TRUE \in BOOLEAN
  BY DEF CanRegister
<1>3. <<"">> \in m.scope.used
  BY <1>1 DEF ScopeOK
<1>4. /\ Grown(m.scope, r.scope)
      /\ r.scope.used = m.scope.used \cup {r.name}
      /\ Len(r.name) = 2
  BY <1>1, <1>2, <1>3, RegisterGrows
<1>. HIDE DEF r
<1>5. /\ n.scope = r.scope /\ n.nodes = m.nodes /\ n.cache = m.cache
      /\ n = [scope |-> n.scope, nodes |-> n.nodes, cache |-> n.cache, named |-> n.named]
  <2>1. m = [scope |-> m.scope, nodes |-> m.nodes, cache |-> m.cache, named |-> m.named]
    BY DEF MetaOK
  <2>2. n = [m EXCEPT !.scope = r.scope]
    BY <2>1 DEF AddString, r
  <2>. QED
    BY ONLY <2>1, <2>2
<1>. HIDE DEF n
<1>6. CacheOK(n)
  BY <1>5 DEF CacheOK, MetaOK
<1>7. MetaOK(n)
  BY <1>4, <1>5, <1>6 DEF MetaOK, Grown
<1>. QED
  BY <1>4, <1>5, <1>7 DEF Extended, n, MetaOK

\* A new node extends the metadata, at the end; its
\* key is added to the cache.
LEMMA FindOrAddFacts ==
  ASSUME NEW m, MetaOK(m), NEW kind, NEW distinct, NEW ops, NEW r,
         r = FindOrAdd(m, <<kind, KeyOf(kind, ops), distinct>>, kind, distinct, ops)
  PROVE  /\ Extended(m, r.m)
         /\ r.node \in 1 .. Len(r.m.nodes)
         /\ r.m.nodes[r.node].kind = kind /\ r.m.nodes[r.node].distinct = distinct
         /\ KeyOf(kind, r.m.nodes[r.node].operands) = KeyOf(kind, ops)
<1>. DEFINE key == <<kind, KeyOf(kind, ops), distinct>>
<1>1. CASE \E e \in m.cache : e.key = key
  <2>1. PICK e \in m.cache : e.key = key /\ r = [m |-> m, node |-> e.node]
    BY <1>1 DEF FindOrAdd
  <2>2. /\ e.node \in 1 .. Len(m.nodes)
        /\ e.key = <<m.nodes[e.node].kind,
                     KeyOf(m.nodes[e.node].kind, m.nodes[e.node].operands),
                     m.nodes[e.node].distinct>>
    BY DEF MetaOK, CacheOK
  <2>3. /\ m.nodes[e.node].kind = kind /\ m.nodes[e.node].distinct = distinct
        /\ KeyOf(kind, m.nodes[e.node].operands) = KeyOf(kind, ops)
    BY ONLY <2>1, <2>2
  <2>4. r.m = m /\ r.node = e.node
    BY ONLY <2>1
  <2>5. Extended(m, r.m)
    BY <2>4, ExtendedStays, Zenon
  <2>. QED
    BY ONLY <2>2, <2>3, <2>4, <2>5
<1>2. CASE ~\E e \in m.cache : e.key = key
  <2>. DEFINE name == <<Numeral(Len(m.nodes))>>
              d == Register(m.scope, name, TRUE)
              node == [name |-> d.name, kind |-> kind, distinct |-> distinct, operands |-> ops]
              n == r.m
  <2>0. m = [scope |-> m.scope, nodes |-> m.nodes, cache |-> m.cache, named |-> m.named]
    BY DEF MetaOK
  <2>1. /\ ScopeOK(m.scope) /\ m.nodes \in Seq(ToSet(m.nodes)) /\ Len(m.nodes) \in Nat
    <3>1. m.nodes \in Seq(ToSet(m.nodes))
      BY DEF MetaOK
    <3>2. Len(m.nodes) \in Nat
      BY ONLY <3>1
    <3>. QED
      BY <3>1, <3>2 DEF MetaOK
  <2>2. name \in Name /\ Len(name) = 1
    <3>1. Numeral(Len(m.nodes)) \in Letters
      BY <2>1 DEF Letters
    <3>. QED
      BY <3>1, OneLetter
  <2>3. /\ Grown(m.scope, d.scope)
        /\ d.scope.used = m.scope.used \cup {d.name}
        /\ name \notin m.scope.used => d.name = name
    <3>1. CanRegister(m.scope, name, TRUE) /\ TRUE \in BOOLEAN
      BY DEF CanRegister
    <3>. QED
      BY <3>1, <2>1, <2>2, RegisterGrows
  <2>. HIDE DEF d
  <2>4. r = [m |-> [scope |-> d.scope, nodes |-> Append(m.nodes, node),
                    cache |-> m.cache \cup {[key |-> key, node |-> Len(m.nodes) + 1]},
                    named |-> m.named],
             node |-> Len(m.nodes) + 1]
    <3>1. NewNode(m, kind, distinct, ops) =
             [m EXCEPT !.scope = d.scope, !.nodes = Append(@, node)]
      BY DEF NewNode, d
    <3>2. r = [m |-> [NewNode(m, kind, distinct, ops) EXCEPT
                        !.cache = @ \cup {[key |-> key, node |-> Len(m.nodes) + 1]}],
               node |-> Len(m.nodes) + 1]
      BY <1>2 DEF FindOrAdd
    <3>. HIDE DEF node, key
    <3>. QED
      BY ONLY <3>1, <3>2, <2>0
  <2>. HIDE DEF node, key, name
  <2>5. /\ n.scope = d.scope /\ n.nodes = Append(m.nodes, node)
        /\ n.cache = m.cache \cup {[key |-> key, node |-> Len(m.nodes) + 1]}
        /\ n = [scope |-> n.scope, nodes |-> n.nodes, cache |-> n.cache, named |-> n.named]
        /\ r.node = Len(m.nodes) + 1
    BY ONLY <2>4
  <2>6. /\ n.nodes \in Seq(ToSet(n.nodes)) /\ Len(n.nodes) = Len(m.nodes) + 1
        /\ \A k \in 1 .. Len(m.nodes) : n.nodes[k] = m.nodes[k]
        /\ n.nodes[Len(m.nodes) + 1] = node
    <3>1. m.nodes \in Seq(ToSet(m.nodes)) /\ n.nodes = Append(m.nodes, node)
      BY <2>1, <2>5
    <3>. QED
      BY ONLY <3>1, OneMore
  <2>7. node.name = d.name /\ node.kind = kind /\ node.distinct = distinct /\ node.operands = ops
    BY DEF node
  <2>. HIDE DEF n
  <2>8. CacheOK(n)
    <3>1. CacheOK(m)
      BY DEF MetaOK
    <3>2. ASSUME NEW e \in m.cache
          PROVE  /\ e.node \in 1 .. Len(n.nodes)
                 /\ e.key = <<n.nodes[e.node].kind,
                              KeyOf(n.nodes[e.node].kind, n.nodes[e.node].operands),
                              n.nodes[e.node].distinct>>
      BY ONLY <3>1, <3>2, <2>6, <2>1, SMTT(30) DEF CacheOK
    <3>3. ASSUME NEW e, e = [key |-> key, node |-> Len(m.nodes) + 1]
          PROVE  /\ e.node \in 1 .. Len(n.nodes)
                 /\ e.key = <<n.nodes[e.node].kind,
                              KeyOf(n.nodes[e.node].kind, n.nodes[e.node].operands),
                              n.nodes[e.node].distinct>>
      <4>1. e.node = Len(m.nodes) + 1 /\ e.key = key
        BY ONLY <3>3
      <4>. QED
        BY ONLY <4>1, <2>6, <2>7, <2>1 DEF key
    <3>. QED
      BY <3>2, <3>3, <2>5 DEF CacheOK
  <2>9. MetaOK(n)
    BY <2>3, <2>5, <2>6, <2>8 DEF MetaOK, Grown
  <2>10. Extended(m, n)
    BY ONLY <2>1, <2>3, <2>5, <2>6, <2>9, MetaOK(m) DEF Extended
  <2>. QED
    BY ONLY <2>1, <2>5, <2>6, <2>7, <2>10 DEF n
<1>. QED
  BY <1>1, <1>2

\* The strings of an operand list are made in order, one after the other.
LEMMA StringsAfter ==
  ASSUME NEW m, NEW ops, Len(ops) \in Nat
  PROVE  \E f : /\ f = [n \in 0 .. Len(ops) |->
                          IF n = 0 THEN m
                          ELSE IF ops[n].is = "string" THEN AddString(f[n - 1]) ELSE f[n - 1]]
                /\ Strings(m, ops) = f[Len(ops)]
<1>. DEFINE Step(x, n) == IF ops[n].is = "string" THEN AddString(x) ELSE x
            Run(f, k) == f = [n \in 0 .. k |-> IF n = 0 THEN m ELSE Step(f[n - 1], n)]
            T == {k \in Nat : \E f : Run(f, k)}
<1>1. 0 \in T
  <2>. DEFINE f == [n \in 0 .. 0 |-> m]
  <2>1. 0 .. 0 = {0}
    BY ONLY 0 \in Nat
  <2>2. f = [n \in 0 .. 0 |-> IF n = 0 THEN m ELSE Step(f[n - 1], n)]
    <3>. HIDE DEF Step
    <3>. QED
      BY ONLY <2>1
  <2>. QED
    BY <2>2
<1>2. ASSUME NEW k \in T PROVE k + 1 \in T
  <2>. HIDE DEF Step
  <2>1. PICK f : Run(f, k)
    BY <1>2
  <2>2. k \in Nat
    OBVIOUS
  <2>. DEFINE g == [n \in 0 .. k + 1 |-> IF n = k + 1 THEN Step(f[k], k + 1) ELSE f[n]]
  <2>3. \A n \in 0 .. k : g[n] = f[n] /\ f[n] = (IF n = 0 THEN m ELSE Step(f[n - 1], n))
    BY ONLY <2>1, <2>2
  <2>4. ASSUME NEW n \in 0 .. k + 1
        PROVE  g[n] = IF n = 0 THEN m ELSE Step(g[n - 1], n)
    <3>1. CASE n \in 0 .. k
      <4>1. n # 0 => n - 1 \in 0 .. k
        BY ONLY <2>2, <3>1
      <4>. HIDE DEF g
      <4>. QED
        BY ONLY <2>3, <3>1, <4>1
    <3>2. CASE n = k + 1
      <4>1. n # 0 /\ n - 1 = k /\ k \in 0 .. k /\ n \in 0 .. k + 1
        BY ONLY <2>2, <3>2
      <4>2. g[n] = Step(f[k], k + 1)
        BY ONLY <3>2, <4>1
      <4>. HIDE DEF g
      <4>. QED
        BY ONLY <2>3, <3>2, <4>1, <4>2
    <3>. QED
      BY ONLY <2>2, <2>4, <3>1, <3>2
  <2>5. g = [n \in 0 .. k + 1 |-> g[n]]
    OBVIOUS
  <2>. HIDE DEF g
  <2>6. Run(g, k + 1)
    BY ONLY <2>4, <2>5
  <2>. HIDE DEF Run
  <2>. QED
    BY ONLY <2>2, <2>6
<1>3. T = Nat
  <2>1. T \in SUBSET Nat
    OBVIOUS
  <2>. HIDE DEF T
  <2>. QED
    BY ONLY <1>1, <1>2, <2>1, AllNat
<1>. DEFINE g == CHOOSE f : Run(f, Len(ops))
<1>4. Run(g, Len(ops))
  <2>1. Len(ops) \in T
    BY <1>3
  <2>. HIDE DEF Step
  <2>. QED
    BY <2>1
<1>5. Strings(m, ops) = g[Len(ops)]
  BY DEF Strings
<1>. HIDE DEF g
<1>. QED
  BY <1>4, <1>5

\* Registering strings extends the metadata.
LEMMA StringsFacts ==
  ASSUME NEW m, MetaOK(m), NEW ops, Len(ops) \in Nat
  PROVE  Extended(m, Strings(m, ops))
<1>1. PICK f : /\ f = [n \in 0 .. Len(ops) |->
                         IF n = 0 THEN m
                         ELSE IF ops[n].is = "string" THEN AddString(f[n - 1]) ELSE f[n - 1]]
               /\ Strings(m, ops) = f[Len(ops)]
  BY ONLY StringsAfter, Len(ops) \in Nat
<1>2. \A n \in 0 .. Len(ops) :
         f[n] = IF n = 0 THEN m
                ELSE IF ops[n].is = "string" THEN AddString(f[n - 1]) ELSE f[n - 1]
  BY ONLY <1>1
<1>. DEFINE T == {n \in Nat : n <= Len(ops) => Extended(m, f[n])}
<1>3. 0 \in T
  <2>1. f[0] = m
    BY <1>2
  <2>2. Extended(m, m)
    BY ExtendedStays
  <2>. QED
    BY ONLY <2>1, <2>2
<1>4. ASSUME NEW n \in T PROVE n + 1 \in T
  <2>. SUFFICES ASSUME n + 1 <= Len(ops) PROVE Extended(m, f[n + 1])
    BY <1>4
  <2>1. n \in Nat /\ Extended(m, f[n]) /\ n + 1 \in 0 .. Len(ops) /\ n + 1 # 0 /\ (n + 1) - 1 = n
    BY <1>4
  <2>2. f[n + 1] = IF ops[n + 1].is = "string" THEN AddString(f[n]) ELSE f[n]
    BY ONLY <1>2, <2>1
  <2>3. Extended(f[n], AddString(f[n]))
    BY ONLY <2>1, AddStringFacts DEF Extended
  <2>4. Extended(m, AddString(f[n]))
    BY ONLY <2>1, <2>3, ExtendedTwice
  <2>. QED
    BY ONLY <2>1, <2>2, <2>4
<1>5. T = Nat
  <2>1. T \in SUBSET Nat
    OBVIOUS
  <2>. HIDE DEF T
  <2>. QED
    BY ONLY <1>3, <1>4, <2>1, AllNat
<1>6. Len(ops) \in T
  BY <1>5
<1>7. Extended(m, f[Len(ops)])
  BY ONLY <1>6, Len(ops) \in Nat
<1>. QED
  BY ONLY <1>1, <1>7

\* What a node holds for what was asked: a list is another node that holds it.
Holds(nodes, op, ask) ==
    IF ask.is = "list"
    THEN /\ op.is = "node" /\ op.of \in 1 .. Len(nodes) /\ nodes[op.of].operands = ask.of
    ELSE op = ask

\* What it holds, it holds when the metadata is extended.
LEMMA HoldsOn ==
  ASSUME NEW m, NEW n, Extended(m, n), NEW op, NEW ask, Holds(m.nodes, op, ask)
  PROVE  Holds(n.nodes, op, ask)
<1>1. /\ Len(m.nodes) \in Nat /\ Len(n.nodes) \in Nat /\ Len(m.nodes) <= Len(n.nodes)
      /\ \A k \in 1 .. Len(m.nodes) : n.nodes[k] = m.nodes[k]
  BY DEF Extended
<1>2. CASE ask.is = "list"
  BY ONLY <1>1, <1>2, Holds(m.nodes, op, ask) DEF Holds
<1>3. CASE ask.is # "list"
  BY ONLY <1>3, Holds(m.nodes, op, ask) DEF Holds
<1>. QED
  BY <1>2, <1>3

\* A list without lists becomes a node with its operands.
LEMMA FlatNodeFacts ==
  ASSUME NEW m, MetaOK(m), NEW ops, Len(ops) \in Nat, NEW r, r = FlatNode(m, ops)
  PROVE  /\ Extended(m, r.m) /\ r.node \in 1 .. Len(r.m.nodes)
         /\ r.m.nodes[r.node].operands = ops
<1>1. Extended(m, Strings(m, ops))
  BY ONLY StringsFacts, MetaOK(m), Len(ops) \in Nat
<1>. DEFINE s == Strings(m, ops)
<1>2. r = FindOrAdd(s, <<"", KeyOf("", ops), FALSE>>, "", FALSE, ops)
  BY DEF FlatNode, KeyOf
<1>3. MetaOK(s)
  BY <1>1 DEF Extended
<1>. HIDE DEF s
<1>4. /\ Extended(s, r.m) /\ r.node \in 1 .. Len(r.m.nodes)
      /\ r.m.nodes[r.node].kind = ""
      /\ KeyOf("", r.m.nodes[r.node].operands) = KeyOf("", ops)
  <2>1. PICK kind, distinct : kind = "" /\ distinct = FALSE
    OBVIOUS
  <2>2. r = FindOrAdd(s, <<kind, KeyOf(kind, ops), distinct>>, kind, distinct, ops)
    BY ONLY <1>2, <2>1
  <2>3. /\ Extended(s, r.m) /\ r.node \in 1 .. Len(r.m.nodes)
        /\ r.m.nodes[r.node].kind = kind
        /\ KeyOf(kind, r.m.nodes[r.node].operands) = KeyOf(kind, ops)
    BY ONLY <1>3, <2>2, FindOrAddFacts
  <2>. QED
    BY ONLY <2>1, <2>3
<1>5. Extended(m, r.m)
  BY ONLY <1>1, <1>4, ExtendedTwice DEF s
<1>. QED
  BY ONLY <1>4, <1>5 DEF KeyOf

\* The operands of a new node are fixed in order, one after the other.
LEMMA FixedAfter ==
  ASSUME NEW m, NEW ops, Len(ops) \in Nat
  PROVE  \E f : /\ f = [n \in 0 .. Len(ops) |->
                          IF n = 0 THEN [m |-> m, ops |-> <<>>] ELSE FixOperand(f[n - 1], ops[n])]
                /\ AddMetadata(m, ops) =
                      FindOrAdd(f[Len(ops)].m, <<"", f[Len(ops)].ops, FALSE>>, "", FALSE,
                                f[Len(ops)].ops)
<1>. DEFINE start == [m |-> m, ops |-> <<>>]
            Step(x, n) == FixOperand(x, ops[n])
            Run(f, k) == f = [n \in 0 .. k |-> IF n = 0 THEN start ELSE Step(f[n - 1], n)]
            T == {k \in Nat : \E f : Run(f, k)}
<1>1. 0 \in T
  <2>. DEFINE f == [n \in 0 .. 0 |-> start]
  <2>1. 0 .. 0 = {0}
    BY ONLY 0 \in Nat
  <2>2. f = [n \in 0 .. 0 |-> IF n = 0 THEN start ELSE Step(f[n - 1], n)]
    <3>. HIDE DEF Step, start
    <3>. QED
      BY ONLY <2>1
  <2>. QED
    BY <2>2
<1>2. ASSUME NEW k \in T PROVE k + 1 \in T
  <2>. HIDE DEF Step, start
  <2>1. PICK f : Run(f, k)
    BY <1>2
  <2>2. k \in Nat
    OBVIOUS
  <2>. DEFINE g == [n \in 0 .. k + 1 |-> IF n = k + 1 THEN Step(f[k], k + 1) ELSE f[n]]
  <2>3. \A n \in 0 .. k : g[n] = f[n] /\ f[n] = (IF n = 0 THEN start ELSE Step(f[n - 1], n))
    BY ONLY <2>1, <2>2
  <2>4. ASSUME NEW n \in 0 .. k + 1
        PROVE  g[n] = IF n = 0 THEN start ELSE Step(g[n - 1], n)
    <3>1. CASE n \in 0 .. k
      <4>1. n # 0 => n - 1 \in 0 .. k
        BY ONLY <2>2, <3>1
      <4>. HIDE DEF g
      <4>. QED
        BY ONLY <2>3, <3>1, <4>1
    <3>2. CASE n = k + 1
      <4>1. n # 0 /\ n - 1 = k /\ k \in 0 .. k /\ n \in 0 .. k + 1
        BY ONLY <2>2, <3>2
      <4>2. g[n] = Step(f[k], k + 1)
        BY ONLY <3>2, <4>1
      <4>. HIDE DEF g
      <4>. QED
        BY ONLY <2>3, <3>2, <4>1, <4>2
    <3>. QED
      BY ONLY <2>2, <2>4, <3>1, <3>2
  <2>5. g = [n \in 0 .. k + 1 |-> g[n]]
    OBVIOUS
  <2>. HIDE DEF g
  <2>6. Run(g, k + 1)
    BY ONLY <2>4, <2>5
  <2>. HIDE DEF Run
  <2>. QED
    BY ONLY <2>2, <2>6
<1>3. T = Nat
  <2>1. T \in SUBSET Nat
    OBVIOUS
  <2>. HIDE DEF T
  <2>. QED
    BY ONLY <1>1, <1>2, <2>1, AllNat
<1>. DEFINE g == CHOOSE f : Run(f, Len(ops))
<1>4. Run(g, Len(ops))
  <2>1. Len(ops) \in T
    BY <1>3
  <2>. HIDE DEF Step, start
  <2>. QED
    BY <2>1
<1>5. AddMetadata(m, ops) =
         FindOrAdd(g[Len(ops)].m, <<"", g[Len(ops)].ops, FALSE>>, "", FALSE, g[Len(ops)].ops)
  BY DEF AddMetadata, AddFixed
<1>. HIDE DEF g
<1>. QED
  BY <1>4, <1>5

\* What is fixed holds what is asked.
LEMMA FixOperandFacts ==
  ASSUME NEW acc, MetaOK(acc.m), acc.ops \in Seq(ToSet(acc.ops)), NEW op,
         op.is = "list" => Len(op.of) \in Nat,
         NEW r, r = FixOperand(acc, op)
  PROVE  /\ Extended(acc.m, r.m)
         /\ \E fixed : r.ops = Append(acc.ops, fixed) /\ Holds(r.m.nodes, fixed, op)
<1>1. CASE op.is = "list"
  <2>. DEFINE d == FlatNode(acc.m, op.of)
  <2>1. /\ Extended(acc.m, d.m) /\ d.node \in 1 .. Len(d.m.nodes)
        /\ d.m.nodes[d.node].operands = op.of
    <3>1. Len(op.of) \in Nat
      BY <1>1
    <3>. QED
      BY ONLY <3>1, MetaOK(acc.m), FlatNodeFacts
  <2>2. r = [m |-> d.m, ops |-> Append(acc.ops, Node(d.node))]
    BY <1>1 DEF FixOperand
  <2>. HIDE DEF d
  <2>3. r.m = d.m /\ r.ops = Append(acc.ops, Node(d.node))
    BY ONLY <2>2
  <2>4. Holds(r.m.nodes, Node(d.node), op)
    BY ONLY <1>1, <2>1, <2>3 DEF Holds, Node
  <2>. QED
    BY ONLY <2>1, <2>3, <2>4
<1>2. CASE op.is # "list"
  <2>1. r = [m |-> Strings(acc.m, <<op>>), ops |-> Append(acc.ops, op)]
    BY <1>2 DEF FixOperand
  <2>2. r.m = Strings(acc.m, <<op>>) /\ r.ops = Append(acc.ops, op)
    BY ONLY <2>1
  <2>3. Len(<<op>>) \in Nat
    OBVIOUS
  <2>4. Extended(acc.m, Strings(acc.m, <<op>>))
    BY ONLY <2>3, MetaOK(acc.m), StringsFacts
  <2>5. Holds(r.m.nodes, op, op)
    BY ONLY <1>2 DEF Holds
  <2>. QED
    BY ONLY <2>2, <2>4, <2>5
<1>. QED
  BY <1>1, <1>2

\* The lists among operands are sequences.
ListsIn(ops) ==
    /\ ops \in Seq(ToSet(ops))
    /\ \A k \in 1 .. Len(ops) : ops[k].is = "list" => Len(ops[k].of) \in Nat

\* add_metadata returns a node of this module that holds what was asked.
LEMMA AddMetadataFacts ==
  ASSUME NEW m, MetaOK(m), NEW ops, ListsIn(ops), NEW r, r = AddMetadata(m, ops)
  PROVE  /\ Extended(m, r.m) /\ r.node \in 1 .. Len(r.m.nodes)
         /\ r.m.nodes[r.node].kind = "" /\ r.m.nodes[r.node].distinct = FALSE
         /\ r.m.nodes[r.node].operands \in Seq(ToSet(r.m.nodes[r.node].operands))
         /\ Len(r.m.nodes[r.node].operands) = Len(ops)
         /\ \A k \in 1 .. Len(ops) : Holds(r.m.nodes, r.m.nodes[r.node].operands[k], ops[k])
<1>0. Len(ops) \in Nat
  <2>1. ops \in Seq(ToSet(ops))
    BY DEF ListsIn
  <2>. QED
    BY ONLY <2>1
<1>1. PICK f : /\ f = [n \in 0 .. Len(ops) |->
                         IF n = 0 THEN [m |-> m, ops |-> <<>>] ELSE FixOperand(f[n - 1], ops[n])]
               /\ AddMetadata(m, ops) =
                     FindOrAdd(f[Len(ops)].m, <<"", f[Len(ops)].ops, FALSE>>, "", FALSE,
                               f[Len(ops)].ops)
  BY ONLY FixedAfter, <1>0
<1>2. \A n \in 0 .. Len(ops) :
         f[n] = IF n = 0 THEN [m |-> m, ops |-> <<>>] ELSE FixOperand(f[n - 1], ops[n])
  BY ONLY <1>1
<1>. DEFINE Good(n) == /\ Extended(m, f[n].m)
                       /\ f[n].ops \in Seq(ToSet(f[n].ops)) /\ Len(f[n].ops) = n
                       /\ \A k \in 1 .. n : Holds(f[n].m.nodes, f[n].ops[k], ops[k])
            T == {n \in Nat : n <= Len(ops) => Good(n)}
<1>3. 0 \in T
  <2>1. f[0] = [m |-> m, ops |-> <<>>]
    BY ONLY <1>2, <1>0
  <2>2. f[0].m = m /\ f[0].ops = <<>>
    BY ONLY <2>1
  <2>3. Extended(m, m)
    BY ExtendedStays
  <2>4. <<>> \in Seq(ToSet(<<>>)) /\ Len(<<>>) = 0
    OBVIOUS
  <2>5. Good(0)
    BY ONLY <2>2, <2>3, <2>4
  <2>. HIDE DEF Good
  <2>. QED
    BY ONLY <2>5
<1>4. ASSUME NEW n \in T PROVE n + 1 \in T
  <2>. SUFFICES ASSUME n + 1 <= Len(ops) PROVE Good(n + 1)
    <3>. HIDE DEF Good
    <3>. QED
      BY <1>4
  <2>1. n \in Nat /\ n <= Len(ops) /\ n + 1 \in 0 .. Len(ops) /\ n + 1 # 0 /\ (n + 1) - 1 = n
    BY <1>0, <1>4
  <2>2. Good(n)
    <3>. HIDE DEF Good
    <3>. QED
      BY ONLY <1>4, <2>1
  <2>. DEFINE acc == f[n]
              next == f[n + 1]
              op == ops[n + 1]
  <2>3. next = FixOperand(acc, op)
    BY ONLY <1>2, <2>1
  <2>4. op.is = "list" => Len(op.of) \in Nat
    BY ONLY <2>1, <1>0, ListsIn(ops), n + 1 <= Len(ops) DEF ListsIn
  <2>. HIDE DEF acc, next, op
  <2>5. /\ Extended(m, acc.m) /\ MetaOK(acc.m)
        /\ acc.ops \in Seq(ToSet(acc.ops)) /\ Len(acc.ops) = n
        /\ \A k \in 1 .. n : Holds(acc.m.nodes, acc.ops[k], ops[k])
    BY ONLY <2>2 DEF acc, Extended
  <2>6. /\ Extended(acc.m, next.m)
        /\ \E fixed : next.ops = Append(acc.ops, fixed) /\ Holds(next.m.nodes, fixed, op)
    BY ONLY <2>3, <2>4, <2>5, FixOperandFacts
  <2>7. PICK fixed : next.ops = Append(acc.ops, fixed) /\ Holds(next.m.nodes, fixed, op)
    BY ONLY <2>6
  <2>8. Extended(m, next.m)
    BY ONLY <2>5, <2>6, ExtendedTwice
  <2>9. /\ next.ops \in Seq(ToSet(next.ops)) /\ Len(next.ops) = n + 1
        /\ \A k \in 1 .. n : next.ops[k] = acc.ops[k]
        /\ next.ops[n + 1] = fixed
    BY ONLY <2>5, <2>7, OneMore
  <2>10. ASSUME NEW k \in 1 .. n + 1 PROVE Holds(next.m.nodes, next.ops[k], ops[k])
    <3>1. CASE k \in 1 .. n
      <4>1. Holds(acc.m.nodes, acc.ops[k], ops[k])
        BY ONLY <2>5, <3>1
      <4>. QED
        BY ONLY <4>1, <2>6, <2>9, <3>1, HoldsOn
    <3>2. CASE k = n + 1
      BY ONLY <2>7, <2>9, <3>2 DEF op
    <3>. QED
      BY ONLY <2>1, <2>10, <3>1, <3>2
  <2>. QED
    BY ONLY <2>8, <2>9, <2>10 DEF next
<1>5. T = Nat
  <2>1. T \in SUBSET Nat
    OBVIOUS
  <2>. HIDE DEF T
  <2>. QED
    BY ONLY <1>3, <1>4, <2>1, AllNat
<1>6. Good(Len(ops))
  <2>. HIDE DEF Good
  <2>1. Len(ops) \in T
    BY ONLY <1>0, <1>5
  <2>. QED
    BY ONLY <1>0, <2>1
<1>. DEFINE last == f[Len(ops)]
<1>7. /\ Extended(m, last.m) /\ MetaOK(last.m)
      /\ last.ops \in Seq(ToSet(last.ops)) /\ Len(last.ops) = Len(ops)
      /\ \A k \in 1 .. Len(ops) : Holds(last.m.nodes, last.ops[k], ops[k])
  BY ONLY <1>6 DEF Extended
<1>8. r = FindOrAdd(last.m, <<"", last.ops, FALSE>>, "", FALSE, last.ops)
  BY <1>1
<1>. HIDE DEF last
<1>9. /\ Extended(last.m, r.m) /\ r.node \in 1 .. Len(r.m.nodes)
      /\ r.m.nodes[r.node].kind = "" /\ r.m.nodes[r.node].distinct = FALSE
      /\ r.m.nodes[r.node].operands = last.ops
  <2>1. PICK kind, distinct : kind = "" /\ distinct = FALSE
    OBVIOUS
  <2>2. r = FindOrAdd(last.m, <<kind, KeyOf(kind, last.ops), distinct>>, kind, distinct, last.ops)
    BY ONLY <1>8, <2>1 DEF KeyOf
  <2>3. /\ Extended(last.m, r.m) /\ r.node \in 1 .. Len(r.m.nodes)
        /\ r.m.nodes[r.node].kind = kind /\ r.m.nodes[r.node].distinct = distinct
        /\ KeyOf(kind, r.m.nodes[r.node].operands) = KeyOf(kind, last.ops)
    BY ONLY <1>7, <2>2, FindOrAddFacts
  <2>. QED
    BY ONLY <2>1, <2>3 DEF KeyOf
<1>10. Extended(m, r.m)
  BY ONLY <1>7, <1>9, ExtendedTwice
<1>11. \A k \in 1 .. Len(ops) : Holds(r.m.nodes, last.ops[k], ops[k])
  BY ONLY <1>7, <1>9, HoldsOn
<1>. QED
  BY ONLY <1>7, <1>9, <1>10, <1>11

\* The operands of debug information are fixed in some order, one after the other.
PairsFixed(m, ops, f) ==
    f = [n \in 0 .. Len(ops) |->
           IF n = 0 THEN [m |-> m, ops |-> {}] ELSE FixPair(f[n - 1], ops[n])]

\* There is such a function.
LEMMA PairsFixedAfter ==
  ASSUME NEW m, NEW ops, Len(ops) \in Nat
  PROVE  \E f : PairsFixed(m, ops, f)
<1>. DEFINE start == [m |-> m, ops |-> {}]
            Step(x, n) == FixPair(x, ops[n])
            Run(f, k) == f = [n \in 0 .. k |-> IF n = 0 THEN start ELSE Step(f[n - 1], n)]
            T == {k \in Nat : \E f : Run(f, k)}
<1>1. 0 \in T
  <2>. DEFINE f == [n \in 0 .. 0 |-> start]
  <2>1. 0 .. 0 = {0}
    BY ONLY 0 \in Nat
  <2>2. f = [n \in 0 .. 0 |-> IF n = 0 THEN start ELSE Step(f[n - 1], n)]
    <3>. HIDE DEF Step, start
    <3>. QED
      BY ONLY <2>1
  <2>. QED
    BY <2>2
<1>2. ASSUME NEW k \in T PROVE k + 1 \in T
  <2>. HIDE DEF Step, start
  <2>1. PICK f : Run(f, k)
    BY <1>2
  <2>2. k \in Nat
    OBVIOUS
  <2>. DEFINE g == [n \in 0 .. k + 1 |-> IF n = k + 1 THEN Step(f[k], k + 1) ELSE f[n]]
  <2>3. \A n \in 0 .. k : g[n] = f[n] /\ f[n] = (IF n = 0 THEN start ELSE Step(f[n - 1], n))
    BY ONLY <2>1, <2>2
  <2>4. ASSUME NEW n \in 0 .. k + 1
        PROVE  g[n] = IF n = 0 THEN start ELSE Step(g[n - 1], n)
    <3>1. CASE n \in 0 .. k
      <4>1. n # 0 => n - 1 \in 0 .. k
        BY ONLY <2>2, <3>1
      <4>. HIDE DEF g
      <4>. QED
        BY ONLY <2>3, <3>1, <4>1
    <3>2. CASE n = k + 1
      <4>1. n # 0 /\ n - 1 = k /\ k \in 0 .. k /\ n \in 0 .. k + 1
        BY ONLY <2>2, <3>2
      <4>2. g[n] = Step(f[k], k + 1)
        BY ONLY <3>2, <4>1
      <4>. HIDE DEF g
      <4>. QED
        BY ONLY <2>3, <3>2, <4>1, <4>2
    <3>. QED
      BY ONLY <2>2, <2>4, <3>1, <3>2
  <2>5. g = [n \in 0 .. k + 1 |-> g[n]]
    OBVIOUS
  <2>. HIDE DEF g
  <2>6. Run(g, k + 1)
    BY ONLY <2>4, <2>5
  <2>. HIDE DEF Run
  <2>. QED
    BY ONLY <2>2, <2>6
<1>3. T = Nat
  <2>1. T \in SUBSET Nat
    OBVIOUS
  <2>. HIDE DEF T
  <2>. QED
    BY ONLY <1>1, <1>2, <2>1, AllNat
<1>4. Len(ops) \in T
  BY <1>3
<1>5. \E f : Run(f, Len(ops))
  <2>. HIDE DEF Run
  <2>. QED
    BY ONLY <1>4
<1>. QED
  BY <1>5 DEF PairsFixed

\* The sequence made of a finite set has its elements.
LEMMA SequenceOfSet ==
  ASSUME NEW S, IsFiniteSet(S), NEW list, list = SetToSeq(S)
  PROVE  /\ Len(list) \in Nat
         /\ \A k \in 1 .. Len(list) : list[k] \in S
         /\ \A x \in S : \E k \in 1 .. Len(list) : list[k] = x
<1>. DEFINE n == Cardinality(S)
<1>1. n \in Nat /\ IsFiniteSet(1 .. n) /\ Cardinality(1 .. n) = n
  BY FS_CardinalityType, FS_Interval
<1>2. ExistsBijection(1 .. n, S)
  BY <1>1, FS_SameCardinalityBij
<1>3. PICK f : f \in [1 .. n -> S] /\ IsInjective(f)
  BY <1>2 DEF ExistsBijection, Bijection, Injection
<1>. HIDE DEF n
<1>4. list = CHOOSE g \in [1 .. n -> S] : IsInjective(g)
  BY DEF SetToSeq, n
<1>5. list \in [1 .. n -> S] /\ IsInjective(list)
  BY ONLY <1>3, <1>4
<1>6. list \in Injection(1 .. n, S)
  BY ONLY <1>5 DEF Injection
<1>7. list \in Surjection(1 .. n, S)
  BY <1>1, <1>6, FS_Injection DEF n
<1>8. list \in Seq(S) /\ Len(list) = n
  BY ONLY <1>1, <1>5
<1>. QED
  BY ONLY <1>1, <1>5, <1>7, <1>8 DEF Surjection

\* The operands of debug information, lists without lists among them.
PairsIn(ops) ==
    /\ IsFiniteSet(ops)
    /\ \A p \in ops : p[2].is = "list" =>
          ListsIn(p[2].of) /\ \A k \in 1 .. Len(p[2].of) : p[2].of[k].is # "list"

\* What a debug-information node holds under a key for what was asked.
HoldsPair(nodes, q, p) ==
    q[1] = p[1] /\ Holds(nodes, q[2], p[2]) /\ (p[2].is # "list" => q = p)

\* A list without lists becomes a node with its operands, by way of add_metadata too.
LEMMA FlatListFacts ==
  ASSUME NEW m, MetaOK(m), NEW ops, ListsIn(ops), \A k \in 1 .. Len(ops) : ops[k].is # "list",
         NEW r, r = AddMetadata(m, ops)
  PROVE  /\ Extended(m, r.m) /\ r.node \in 1 .. Len(r.m.nodes)
         /\ r.m.nodes[r.node].operands = ops
<1>. DEFINE got == r.m.nodes[r.node].operands
<1>1. /\ Extended(m, r.m) /\ r.node \in 1 .. Len(r.m.nodes)
      /\ got \in Seq(ToSet(got))
      /\ Len(got) = Len(ops)
      /\ \A k \in 1 .. Len(ops) : Holds(r.m.nodes, got[k], ops[k])
  BY AddMetadataFacts, ZenonT(60)
<1>. HIDE DEF got
<1>2. \A k \in 1 .. Len(ops) : got[k] = ops[k]
  BY ONLY <1>1, \A k \in 1 .. Len(ops) : ops[k].is # "list" DEF Holds
<1>3. ops \in Seq(ToSet(ops))
  BY DEF ListsIn
<1>4. got = ops
  <2>1. got = [k \in 1 .. Len(got) |-> got[k]]
    BY ONLY <1>1
  <2>2. ops = [k \in 1 .. Len(ops) |-> ops[k]]
    BY ONLY <1>3
  <2>. QED
    BY ONLY <2>1, <2>2, <1>1, <1>2
<1>. QED
  BY ONLY <1>1, <1>4 DEF got

\* What is fixed under a key holds what is asked.
LEMMA FixPairFacts ==
  ASSUME NEW acc, acc = [m |-> acc.m, ops |-> acc.ops], MetaOK(acc.m), NEW p,
         p[2].is = "list" => ListsIn(p[2].of) /\ \A k \in 1 .. Len(p[2].of) : p[2].of[k].is # "list",
         NEW r, r = FixPair(acc, p)
  PROVE  /\ r = [m |-> r.m, ops |-> r.ops] /\ Extended(acc.m, r.m)
         /\ \E q : r.ops = acc.ops \cup {q} /\ HoldsPair(r.m.nodes, q, p)
<1>1. CASE p[2].is = "list"
  <2>. DEFINE d == AddMetadata(acc.m, p[2].of)
  <2>1. /\ Extended(acc.m, d.m) /\ d.node \in 1 .. Len(d.m.nodes)
        /\ d.m.nodes[d.node].operands = p[2].of
    <3>1. ListsIn(p[2].of) /\ \A k \in 1 .. Len(p[2].of) : p[2].of[k].is # "list"
      BY <1>1
    <3>. QED
      BY ONLY <3>1, MetaOK(acc.m), FlatListFacts
  <2>2. r = [m |-> d.m, ops |-> acc.ops \cup {<<p[1], Node(d.node)>>}]
    BY <1>1 DEF FixPair
  <2>. HIDE DEF d
  <2>3. /\ r.m = d.m /\ r.ops = acc.ops \cup {<<p[1], Node(d.node)>>}
        /\ r = [m |-> r.m, ops |-> r.ops]
    BY ONLY <2>2
  <2>4. HoldsPair(r.m.nodes, <<p[1], Node(d.node)>>, p)
    BY ONLY <1>1, <2>1, <2>3 DEF HoldsPair, Holds, Node
  <2>. QED
    BY ONLY <2>1, <2>3, <2>4
<1>2. CASE p[2].is # "list"
  <2>1. r = [m |-> acc.m, ops |-> acc.ops \cup {p}]
    BY <1>2 DEF FixPair
  <2>2. /\ r.m = acc.m /\ r.ops = acc.ops \cup {p}
        /\ r = [m |-> r.m, ops |-> r.ops]
    BY ONLY <2>1
  <2>3. HoldsPair(r.m.nodes, p, p)
    BY ONLY <1>2 DEF HoldsPair, Holds
  <2>4. Extended(acc.m, acc.m)
    BY ONLY MetaOK(acc.m), ExtendedStays
  <2>. QED
    BY ONLY <2>2, <2>3, <2>4
<1>. QED
  BY <1>1, <1>2

\* What it holds, it holds when the metadata is extended.
LEMMA HoldsPairOn ==
  ASSUME NEW m, NEW n, Extended(m, n), NEW q, NEW p, HoldsPair(m.nodes, q, p)
  PROVE  HoldsPair(n.nodes, q, p)
BY HoldsOn DEF HoldsPair

\* Between what was fixed and what was asked nothing is lost, and nothing added.
Answers(nodes, fixed, ops) ==
    /\ \A q \in fixed : \E p \in ops : HoldsPair(nodes, q, p)
    /\ \A p \in ops : \E q \in fixed : HoldsPair(nodes, q, p)

\* What has been answered stays so when more is asked for.
LEMMA AnswersOn ==
  ASSUME NEW m, NEW n, Extended(m, n), NEW fixed, NEW ops, Answers(m.nodes, fixed, ops)
  PROVE  Answers(n.nodes, fixed, ops)
BY ONLY HoldsPairOn, Extended(m, n), Answers(m.nodes, fixed, ops) DEF Answers

\* A node of this module, of this kind and distinctness, whose operands are those
\* asked, as far as the keys of the cache tell them apart.
Given(m, r, kind, ops, distinct) ==
    /\ Extended(m, r.m) /\ r.node \in 1 .. Len(r.m.nodes)
    /\ r.m.nodes[r.node].kind = kind /\ r.m.nodes[r.node].distinct = distinct
    /\ \E fixed : /\ Answers(r.m.nodes, fixed, ops)
                  /\ KeyOf(kind, r.m.nodes[r.node].operands) = KeyOf(kind, fixed)

\* That is what add_debug_info returns.
LEMMA AddDebugInfoFacts ==
  ASSUME NEW m, MetaOK(m), NEW kind, kind # "", NEW ops, PairsIn(ops),
         NEW distinct, NEW r, r = AddDebugInfo(m, kind, ops, distinct)
  PROVE  Given(m, r, kind, ops, distinct)
<1>. DEFINE list == SetToSeq(ops)
<1>1. /\ Len(list) \in Nat
      /\ \A k \in 1 .. Len(list) : list[k] \in ops
      /\ \A x \in ops : \E k \in 1 .. Len(list) : list[k] = x
  BY ONLY PairsIn(ops), SequenceOfSet DEF PairsIn
<1>2. list = SetToSeq(ops)
  OBVIOUS
<1>. HIDE DEF list
<1>. DEFINE f == CHOOSE g : PairsFixed(m, list, g)
            last == f[Len(list)]
<1>3. PairsFixed(m, list, f)
  BY ONLY PairsFixedAfter, <1>1
<1>4. r = FindOrAdd(last.m, <<kind, KeyOf(kind, last.ops), distinct>>, kind, distinct, last.ops)
  BY DEF AddDebugInfo, AddFixedPairs, KeyOf, Keyed, list, PairsFixed
<1>. HIDE DEF f, last
<1>5. \A n \in 0 .. Len(list) :
         f[n] = IF n = 0 THEN [m |-> m, ops |-> {}] ELSE FixPair(f[n - 1], list[n])
  BY ONLY <1>3 DEF PairsFixed
<1>. DEFINE Good(n) == /\ f[n] = [m |-> f[n].m, ops |-> f[n].ops]
                       /\ Extended(m, f[n].m)
                       /\ \A q \in f[n].ops : \E k \in 1 .. n : HoldsPair(f[n].m.nodes, q, list[k])
                       /\ \A k \in 1 .. n : \E q \in f[n].ops : HoldsPair(f[n].m.nodes, q, list[k])
            T == {n \in Nat : n <= Len(list) => Good(n)}
<1>6. Good(0)
  <2>1. 0 \in 0 .. Len(list)
    BY ONLY <1>1
  <2>2. f[0] = [m |-> m, ops |-> {}]
    BY ONLY <1>5, <2>1
  <2>3. f[0].m = m /\ f[0].ops = {} /\ f[0] = [m |-> f[0].m, ops |-> f[0].ops]
    BY ONLY <2>2
  <2>4. Extended(m, m)
    BY ONLY ExtendedStays, MetaOK(m)
  <2>. QED
    BY ONLY <2>3, <2>4
<1>7. ASSUME NEW n \in Nat, n + 1 <= Len(list), Good(n) PROVE Good(n + 1)
  <2>1. n + 1 \in 0 .. Len(list) /\ n + 1 # 0 /\ (n + 1) - 1 = n /\ n + 1 \in 1 .. Len(list)
    <3>. HIDE DEF Good
    <3>. QED
      BY ONLY <1>1, <1>7
  <2>2. Good(n)
    BY <1>7
  <2>. DEFINE acc == f[n]
              next == f[n + 1]
              p == list[n + 1]
  <2>3. next = FixPair(acc, p)
    BY ONLY <1>5, <2>1
  <2>4. p[2].is = "list" => ListsIn(p[2].of) /\ \A k \in 1 .. Len(p[2].of) : p[2].of[k].is # "list"
    BY ONLY <1>1, <2>1, PairsIn(ops) DEF PairsIn
  <2>. HIDE DEF acc, next, p
  <2>5. /\ acc = [m |-> acc.m, ops |-> acc.ops] /\ Extended(m, acc.m) /\ MetaOK(acc.m)
        /\ \A q \in acc.ops : \E k \in 1 .. n : HoldsPair(acc.m.nodes, q, list[k])
        /\ \A k \in 1 .. n : \E q \in acc.ops : HoldsPair(acc.m.nodes, q, list[k])
    BY ONLY <2>2 DEF acc, Extended
  <2>6. /\ next = [m |-> next.m, ops |-> next.ops] /\ Extended(acc.m, next.m)
        /\ \E q : next.ops = acc.ops \cup {q} /\ HoldsPair(next.m.nodes, q, p)
    BY ONLY <2>3, <2>4, <2>5, FixPairFacts
  <2>7. PICK new : next.ops = acc.ops \cup {new} /\ HoldsPair(next.m.nodes, new, p)
    BY ONLY <2>6
  <2>8. Extended(m, next.m)
    BY ONLY <2>5, <2>6, ExtendedTwice
  <2>9. ASSUME NEW q \in next.ops PROVE \E k \in 1 .. n + 1 : HoldsPair(next.m.nodes, q, list[k])
    <3>1. CASE q = new
      BY ONLY <1>7, <2>7, <3>1 DEF p
    <3>2. CASE q \in acc.ops
      <4>1. PICK k \in 1 .. n : HoldsPair(acc.m.nodes, q, list[k])
        BY ONLY <2>5, <3>2
      <4>2. HoldsPair(next.m.nodes, q, list[k])
        BY ONLY <4>1, <2>6, HoldsPairOn
      <4>3. k \in 1 .. n + 1
        BY ONLY <4>1, <1>7
      <4>. QED
        BY ONLY <4>2, <4>3
    <3>. QED
      BY ONLY <2>7, <2>9, <3>1, <3>2
  <2>10. ASSUME NEW k \in 1 .. n + 1 PROVE \E q \in next.ops : HoldsPair(next.m.nodes, q, list[k])
    <3>1. CASE k = n + 1
      BY ONLY <2>7, <3>1 DEF p
    <3>2. CASE k \in 1 .. n
      <4>1. PICK q \in acc.ops : HoldsPair(acc.m.nodes, q, list[k])
        BY ONLY <2>5, <3>2
      <4>2. HoldsPair(next.m.nodes, q, list[k])
        BY ONLY <4>1, <2>6, HoldsPairOn
      <4>. QED
        BY ONLY <4>1, <4>2, <2>7
    <3>. QED
      BY ONLY <1>7, <2>10, <3>1, <3>2
  <2>. QED
    BY ONLY <2>6, <2>8, <2>9, <2>10 DEF next
<1>. HIDE DEF Good
<1>8. T = Nat
  <2>1. 0 \in T /\ \A n \in T : n + 1 \in T
    BY ONLY <1>1, <1>6, <1>7
  <2>2. T \in SUBSET Nat
    OBVIOUS
  <2>. HIDE DEF T
  <2>. QED
    BY ONLY <2>1, <2>2, AllNat
<1>9. Good(Len(list))
  BY ONLY <1>1, <1>8
<1>10. /\ Extended(m, last.m) /\ MetaOK(last.m)
       /\ \A q \in last.ops : \E k \in 1 .. Len(list) : HoldsPair(last.m.nodes, q, list[k])
       /\ \A k \in 1 .. Len(list) : \E q \in last.ops : HoldsPair(last.m.nodes, q, list[k])
  BY ONLY <1>9 DEF Extended, Good, last
<1>11. Answers(last.m.nodes, last.ops, ops)
  <2>1. ASSUME NEW q \in last.ops PROVE \E p \in ops : HoldsPair(last.m.nodes, q, p)
    <3>1. PICK k \in 1 .. Len(list) : HoldsPair(last.m.nodes, q, list[k])
      BY ONLY <1>10, <2>1
    <3>. QED
      BY ONLY <1>1, <3>1
  <2>2. ASSUME NEW p \in ops PROVE \E q \in last.ops : HoldsPair(last.m.nodes, q, p)
    <3>1. PICK k \in 1 .. Len(list) : list[k] = p
      BY ONLY <1>1, <2>2
    <3>2. PICK q \in last.ops : HoldsPair(last.m.nodes, q, list[k])
      BY ONLY <1>10, <3>1
    <3>. QED
      BY ONLY <3>1, <3>2
  <2>. QED
    BY ONLY <2>1, <2>2 DEF Answers
<1>12. /\ Extended(last.m, r.m) /\ r.node \in 1 .. Len(r.m.nodes)
       /\ r.m.nodes[r.node].kind = kind /\ r.m.nodes[r.node].distinct = distinct
       /\ KeyOf(kind, r.m.nodes[r.node].operands) = KeyOf(kind, last.ops)
  BY ONLY <1>10, <1>4, FindOrAddFacts
<1>13. Extended(m, r.m)
  BY ONLY <1>10, <1>12, ExtendedTwice
<1>14. Answers(r.m.nodes, last.ops, ops)
  BY ONLY <1>11, <1>12, AnswersOn
<1>. QED
  BY ONLY <1>12, <1>13, <1>14 DEF Given

\* add_named_metadata adds nothing but the nodes of the list it may be given.
LEMMA AddNamedFacts ==
  ASSUME NEW m, MetaOK(m), NEW name, NEW element,
         element.is = "list" => ListsIn(element.of),
         NEW r, r = AddNamed(m, name, element)
  PROVE  Extended(m, r)
<1>. DEFINE p == IF element.is = "list" THEN AddMetadata(m, element.of)
                 ELSE [m |-> m, node |-> element.of]
<1>1. Extended(m, p.m)
  <2>1. CASE element.is = "list"
    BY ONLY <2>1, AddMetadataFacts, MetaOK(m), element.is = "list" => ListsIn(element.of)
  <2>2. CASE element.is # "list"
    BY ONLY <2>2, ExtendedStays, MetaOK(m)
  <2>. QED
    BY ONLY <2>1, <2>2
<1>2. \E named : r = [p.m EXCEPT !.named = named]
  BY DEF AddNamed
<1>. HIDE DEF p
<1>3. PICK named : r = [p.m EXCEPT !.named = named]
  BY ONLY <1>2
<1>4. p.m = [scope |-> p.m.scope, nodes |-> p.m.nodes, cache |-> p.m.cache, named |-> p.m.named]
  BY ONLY <1>1 DEF Extended, MetaOK
<1>5. r = [scope |-> p.m.scope, nodes |-> p.m.nodes, cache |-> p.m.cache, named |-> named]
  BY ONLY <1>3, <1>4
<1>6. r.scope = p.m.scope /\ r.nodes = p.m.nodes /\ r.cache = p.m.cache
  BY ONLY <1>5
<1>. QED
  BY ONLY <1>1, <1>5, <1>6 DEF Extended, MetaOK, CacheOK

\* What the assumption on the operands says of them.
LEMMA ContentsLists ==
  /\ \A ops \in Contents : ListsIn(ops)
  /\ ListsIn(<<String("branch_weights"), Const("1")>>)
<1>1. ASSUME NEW ops, Flat(ops) PROVE Len(ops) \in Nat
  BY ONLY Flat(ops), LenProperties DEF Flat
<1>2. ASSUME NEW ops \in Contents PROVE ListsIn(ops)
  BY ONLY OperandsAssumption, <1>1, <1>2, LenProperties DEF ListsIn
<1>. DEFINE weights == <<String("branch_weights"), Const("1")>>
<1>3. ListsIn(weights)
  <2>1. weights \in Seq({weights[1], weights[2]}) /\ weights[1].is = "string" /\ weights[2].is = "const"
        /\ DOMAIN weights = 1 .. 2 /\ Len(weights) = 2
    BY ONLY TRUE DEF String, Const
  <2>. HIDE DEF weights
  <2>2. ToSet(weights) = {weights[1], weights[2]}
    BY ONLY <2>1 DEF ToSet
  <2>. QED
    BY ONLY <2>1, <2>2 DEF ListsIn
<1>. QED
  BY <1>2, <1>3

\* And of the debug information.
LEMMA PairsLists ==
  \A ops \in Pairs : PairsIn(ops)
<1>1. ASSUME NEW ops, Flat(ops) PROVE ListsIn(ops) /\ \A k \in 1 .. Len(ops) : ops[k].is # "list"
  BY ONLY Flat(ops), LenProperties DEF Flat, ListsIn
<1>. QED
  BY ONLY OperandsAssumption, <1>1 DEF PairsIn
-----------------------------------------------------------------------------
(* The metadata, in every state *)

\* A sequence without its k-th element.
LEMMA OneLess ==
  ASSUME NEW S, NEW s \in Seq(S), NEW k \in 1 .. Len(s)
  PROVE  RemoveAt(s, k) = [j \in 1 .. Len(s) - 1 |-> IF j < k THEN s[j] ELSE s[j + 1]]
<1>1. s \in Seq(S) /\ Len(s) \in Nat /\ k \in 1 .. Len(s)
  BY LenProperties
<1>. DEFINE a == SubSeq(s, 1, k - 1)
            b == SubSeq(s, k + 1, Len(s))
<1>2. /\ a \in Seq(S) /\ Len(a) = k - 1 /\ \A j \in 1 .. k - 1 : a[j] = s[j]
      /\ b \in Seq(S) /\ Len(b) = Len(s) - k /\ \A j \in 1 .. Len(s) - k : b[j] = s[j + k]
  BY ONLY <1>1, SubSeqProperties
<1>3. RemoveAt(s, k) = a \o b
  BY ONLY TRUE DEF RemoveAt
<1>. HIDE DEF a, b
<1>4. a \o b \in Seq(S) /\ Len(a \o b) = Len(s) - 1
  <2>1. a \in Seq(S) /\ b \in Seq(S)
    BY ONLY <1>2
  <2>2. a \o b \in Seq(S) /\ Len(a \o b) = Len(a) + Len(b)
    BY ONLY <2>1, ConcatProperties
  <2>. QED
    BY ONLY <1>1, <1>2, <2>2
<1>5. \A j \in 1 .. Len(s) - 1 : (a \o b)[j] = IF j < k THEN s[j] ELSE s[j + 1]
  BY ONLY <1>1, <1>2, ConcatProperties
<1>. QED
  BY ONLY <1>3, <1>4, <1>5, LenProperties

\* The name of a global: it is in use from now on.
Named(m, n, name) ==
    /\ CanRegister(m.scope, name, FALSE)
    /\ n = [m EXCEPT !.scope = Register(@, name, FALSE).scope]

\* get_unique_name counts, and registers nothing.
Promise(m, n, hint, name) ==
    LET d == Deduplicate(m.scope, hint)
    IN n = [m EXCEPT !.scope = d.scope] /\ name = d.name

\* The steps that change the metadata or the names of the module.
MetaStep ==
    \/ UNCHANGED <<meta, promised>>
    \/ Extended(meta, meta') /\ UNCHANGED promised
    \/ \E name \in Names : Named(meta, meta', name) /\ UNCHANGED promised
    \/ \E k \in DOMAIN promised :
          Named(meta, meta', promised[k]) /\ promised' = RemoveAt(promised, k)
    \/ \E hint \in Names : \E name :
          /\ Promise(meta, meta', hint, name) /\ promised' = Append(promised, name)

\* Every step is one of them.
LEMMA MetaSteps ==
  ASSUME MetaOK(meta), [Next]_vars
  PROVE  MetaStep
<1>1. ASSUME NEW v, NEW slot, NEW ops, ListsIn(ops), Attach(v, slot, ops)
      PROVE  Extended(meta, meta')
  BY ONLY MetaOK(meta), <1>1, AddMetadataFacts DEF Attach
<1>2. CASE AddGlobal
  BY ONLY <1>2 DEF AddGlobal, MakeGlobal, MetaStep, Named
<1>3. CASE AddConstant \/ AppendBlock \/ Replace \/ \E kind \in Instructions : Emit(kind)
  BY ONLY <1>3 DEF AddConstant, AppendBlock, Replace, Emit, MetaStep
<1>4. CASE AddPromisedGlobal
  BY ONLY <1>4 DEF AddPromisedGlobal, MakeGlobal, MetaStep, Named
<1>5. CASE SetMetadata \/ SetWeights
  <2>1. Extended(meta, meta')
    BY ONLY <1>1, <1>5, ContentsLists DEF SetMetadata, SetWeights
  <2>2. UNCHANGED promised
    BY ONLY <1>5 DEF SetMetadata, SetWeights, Attach
  <2>. QED
    BY ONLY <2>1, <2>2 DEF MetaStep
<1>6. CASE AskMetadata
  <2>1. Extended(meta, meta')
    BY ONLY MetaOK(meta), <1>6, AddMetadataFacts, ContentsLists DEF AskMetadata
  <2>. QED
    BY ONLY <2>1, <1>6 DEF MetaStep, AskMetadata
<1>7. CASE AskDebugInfo
  <2>1. PICK ops \in Pairs, distinct \in BOOLEAN :
           meta' = AddDebugInfo(meta, "DI", ops, distinct).m
    BY ONLY <1>7 DEF AskDebugInfo
  <2>2. PICK kind : kind = "DI"
    OBVIOUS
  <2>3. kind # ""
    BY ONLY <2>2
  <2>4. Extended(meta, meta')
    BY ONLY MetaOK(meta), <2>1, <2>2, <2>3, PairsLists, AddDebugInfoFacts DEF Given
  <2>. QED
    BY ONLY <2>4, <1>7 DEF MetaStep, AskDebugInfo
<1>8. CASE AskNamed
  <2>1. PICK element \in {List(ops) : ops \in Contents} \cup {Node(n) : n \in DOMAIN meta.nodes} :
           meta' = AddNamed(meta, "named", element)
    BY ONLY <1>8 DEF AskNamed
  <2>2. element.is = "list" => ListsIn(element.of)
    BY ONLY ContentsLists DEF List, Node
  <2>3. Extended(meta, meta')
    BY ONLY MetaOK(meta), <2>1, <2>2, AddNamedFacts
  <2>. QED
    BY ONLY <2>3, <1>8 DEF MetaStep, AskNamed
<1>9. CASE Show \/ SetInitializer \/ AddIncoming \/ ReplaceCallee \/ ReplaceAllCalls
  BY ONLY <1>9 DEF Show, SetInitializer, AddIncoming, ReplaceCallee, ReplaceAllCalls, MetaStep
<1>10. CASE Rename
  BY ONLY <1>10 DEF Rename, SetName, MetaStep, Named
<1>11. CASE GetUniqueName
  BY ONLY <1>11 DEF GetUniqueName, MetaStep, Promise
<1>12. CASE UNCHANGED vars
  BY ONLY <1>12 DEF vars, MetaStep
<1>. QED
  BY ONLY [Next]_vars, <1>2, <1>3, <1>4, <1>5, <1>6, <1>7, <1>8, <1>9, <1>10, <1>11, <1>12
  DEF Next, Making, Editing, Asking

\* The names that are asked for are names.
LEMMA NamesAreNames ==
  Names \subseteq Name
<1>. SUFFICES ASSUME NEW name \in Names PROVE name \in Name
  OBVIOUS
<1>1. name \in Seq(ToSet(name)) /\ name # <<>>
  BY ONLY TextAssumption
<1>2. ToSet(name) \subseteq Letters
  BY ONLY name \in Names DEF Letters
<1>3. name \in Seq(Letters)
  BY ONLY <1>1, <1>2
<1>. QED
  BY ONLY <1>1, <1>3 DEF Name

\* deduplicate takes no name; the number it uses is counted.
LEMMA DeduplicateFacts ==
  ASSUME NEW s, ScopeOK(s), NEW b \in Name, NEW d, d = Deduplicate(s, b)
  PROVE  /\ ScopeOK(d.scope) /\ d.scope.used = s.used
         /\ d.name \in Name /\ d.name \notin s.used
         /\ b \notin s.used => d.name = b
         /\ b \in s.used => \E n \in Nat : /\ Counted(s, b) < n /\ d.name = Append(b, n)
                                           /\ Counted(d.scope, b) = n
         /\ \A c \in Name : /\ Counted(s, c) \in Nat /\ Counted(d.scope, c) \in Nat
                            /\ Counted(s, c) <= Counted(d.scope, c)
<1>1. s = [used |-> s.used, counts |-> s.counts] /\ s.counts \in [DOMAIN s.counts -> Nat]
  BY DEF ScopeOK
<1>2. CASE b \notin s.used
  <2>1. d.scope = s /\ d.name = b
    BY ONLY <1>2, d = Deduplicate(s, b) DEF Deduplicate, IsUsed
  <2>2. \A c \in Name : Counted(s, c) \in Nat
    BY ONLY <1>1 DEF Counted
  <2>. QED
    BY <2>1, <2>2, <1>2
<1>3. CASE b \in s.used
  <2>. DEFINE n == FreshNumber(s, b)
  <2>1. d = [scope |-> [used |-> s.used,
                        counts |-> [c \in DOMAIN s.counts \cup {b} |->
                                       IF c = b THEN n ELSE s.counts[c]]],
             name |-> Append(b, n)]
    BY <1>1, <1>3 DEF Deduplicate, IsUsed
  <2>2. /\ n \in Nat /\ Counted(s, b) < n /\ Append(b, n) \notin s.used
        /\ Counted(s, b) \in Nat
    BY FreshNumberFacts
  <2>3. Append(b, n) \in Name
    BY NumberedName, <2>2
  <2>. HIDE DEF n
  <2>4. /\ d.scope.used = s.used /\ d.name = Append(b, n)
        /\ d.scope = [used |-> d.scope.used, counts |-> d.scope.counts]
        /\ d.scope.counts = [c \in DOMAIN s.counts \cup {b} |->
                                IF c = b THEN n ELSE s.counts[c]]
    BY ONLY <2>1
  <2>5. ScopeOK(d.scope)
    BY ONLY <2>2, <2>4, <1>1, ScopeOK(s), b \in Name DEF ScopeOK
  <2>6. \A c \in Name : c # b => Counted(s, c) \in Nat /\ Counted(d.scope, c) = Counted(s, c)
    BY <1>1, <2>4 DEF Counted
  <2>7. Counted(d.scope, b) = n
    BY <2>4 DEF Counted
  <2>. QED
    BY <2>2, <2>3, <2>4, <2>5, <2>6, <2>7, <1>3
<1>. QED
  BY <1>2, <1>3

\* The metadata after the scope of the names has changed.
LEMMA RescopedFacts ==
  ASSUME NEW m, MetaOK(m), NEW s, ScopeOK(s), NEW n, n = [m EXCEPT !.scope = s]
  PROVE  MetaOK(n) /\ n.nodes = m.nodes /\ n.scope = s
<1>1. m = [scope |-> m.scope, nodes |-> m.nodes, cache |-> m.cache, named |-> m.named]
  BY DEF MetaOK
<1>2. /\ n.scope = s /\ n.nodes = m.nodes /\ n.cache = m.cache
      /\ n = [scope |-> n.scope, nodes |-> n.nodes, cache |-> n.cache, named |-> n.named]
  <2>. USE <1>1
  <2>1. n = [scope |-> s, nodes |-> m.nodes, cache |-> m.cache, named |-> m.named]
    OBVIOUS
  <2>. QED
    BY ONLY <2>1
<1>3. CacheOK(n)
  BY <1>2 DEF CacheOK, MetaOK
<1>. QED
  BY <1>2, <1>3 DEF MetaOK

\* A global takes its name, once.
LEMMA NamedFacts ==
  ASSUME NEW m, MetaOK(m), NEW name \in Name, NEW n, Named(m, n, name)
  PROVE  /\ MetaOK(n) /\ n.nodes = m.nodes
         /\ name \notin m.scope.used /\ n.scope.used = m.scope.used \cup {name}
         /\ \A c \in Name : /\ Counted(m.scope, c) \in Nat /\ Counted(n.scope, c) \in Nat
                            /\ Counted(m.scope, c) <= Counted(n.scope, c)
<1>. DEFINE r == Register(m.scope, name, FALSE)
<1>1. ScopeOK(m.scope) /\ CanRegister(m.scope, name, FALSE) /\ FALSE \in BOOLEAN
  BY DEF MetaOK, Named
<1>2. name \notin m.scope.used
  BY <1>1 DEF CanRegister, IsUsed
<1>3. /\ ScopeOK(r.scope) /\ r.scope.used = m.scope.used \cup {name}
      /\ \A c \in Name : /\ Counted(m.scope, c) \in Nat /\ Counted(r.scope, c) \in Nat
                         /\ Counted(m.scope, c) <= Counted(r.scope, c)
  BY ONLY <1>1, <1>2, name \in Name, RegisterFacts
<1>. HIDE DEF r
<1>4. n = [m EXCEPT !.scope = r.scope]
  BY DEF Named, r
<1>5. MetaOK(n) /\ n.nodes = m.nodes /\ n.scope = r.scope
  BY <1>3, <1>4, RescopedFacts
<1>. QED
  BY ONLY <1>2, <1>3, <1>5

\* A promise changes nothing but the counters.
LEMMA PromiseFacts ==
  ASSUME NEW m, MetaOK(m), NEW hint \in Name, NEW n, NEW name, Promise(m, n, hint, name)
  PROVE  /\ MetaOK(n) /\ n.nodes = m.nodes /\ n.scope.used = m.scope.used
         /\ name \in Name /\ name \notin m.scope.used
         /\ hint \notin m.scope.used => name = hint
         /\ hint \in m.scope.used => \E k \in Nat : /\ Counted(m.scope, hint) < k
                                                    /\ name = Append(hint, k)
                                                    /\ Counted(n.scope, hint) = k
         /\ \A c \in Name : /\ Counted(m.scope, c) \in Nat /\ Counted(n.scope, c) \in Nat
                            /\ Counted(m.scope, c) <= Counted(n.scope, c)
<1>. DEFINE d == Deduplicate(m.scope, hint)
<1>1. n = [m EXCEPT !.scope = d.scope] /\ name = d.name
  BY DEF Promise
<1>2. ScopeOK(m.scope)
  BY DEF MetaOK
<1>3. /\ ScopeOK(d.scope) /\ d.scope.used = m.scope.used
      /\ d.name \in Name /\ d.name \notin m.scope.used
      /\ hint \notin m.scope.used => d.name = hint
      /\ hint \in m.scope.used => \E k \in Nat : /\ Counted(m.scope, hint) < k
                                                 /\ d.name = Append(hint, k)
                                                 /\ Counted(d.scope, hint) = k
      /\ \A c \in Name : /\ Counted(m.scope, c) \in Nat /\ Counted(d.scope, c) \in Nat
                         /\ Counted(m.scope, c) <= Counted(d.scope, c)
  BY ONLY <1>2, hint \in Name, DeduplicateFacts
<1>. HIDE DEF d
<1>4. MetaOK(n) /\ n.nodes = m.nodes /\ n.scope = d.scope
  BY <1>1, <1>3, RescopedFacts
<1>. QED
  BY ONLY <1>1, <1>3, <1>4

\* What get_unique_name has returned is a name.
PromisesNamed == promised \in Seq(Name)

MetaInv == MetaOK(meta) /\ PromisesNamed

\* A caller who asks for no name that ends in a number of its own.
NamesUnnumbered == \A name \in Names : Len(name) = 1

\* A name that was made up and is promised: it is free, and its number is spent.
Promised(s, p) ==
    /\ p \notin s.used
    /\ \E h \in Name, n \in Nat : p = Append(h, n) /\ n <= Counted(s, h)

PromisesInv ==
    /\ style \in Styles
    /\ NamesUnnumbered => \A k \in 1 .. Len(promised) : MadeUp(promised[k]) =>
          /\ Promised(meta.scope, promised[k])
          /\ \A j \in 1 .. Len(promised) : promised[j] = promised[k] => j = k

\* The metadata of a new module.
LEMMA MetaInit ==
  ASSUME Init
  PROVE  MetaInv /\ PromisesInv
<1>1. meta = [NoMetadata EXCEPT !.scope = Register(@, <<"f">>, FALSE).scope]
  BY DEF Init
<1>2. NewScope.used = {<<"">>} /\ <<"">> \in Name /\ <<"f">> \in Name
  BY OneLetter DEF NewScope, Letters
<1>3. ScopeOK(NewScope)
  <2>1. IsFiniteSet({<<"">>})
    BY FS_Singleton
  <2>. QED
    BY <1>2, <2>1 DEF ScopeOK, NewScope
<1>4. /\ NoMetadata = [scope |-> NoMetadata.scope, nodes |-> NoMetadata.nodes,
                       cache |-> NoMetadata.cache, named |-> NoMetadata.named]
      /\ NoMetadata.scope = NewScope /\ NoMetadata.nodes = <<>> /\ NoMetadata.cache = {}
  BY DEF NoMetadata
<1>5. MetaOK(NoMetadata)
  <2>1. CacheOK(NoMetadata)
    BY ONLY <1>4 DEF CacheOK
  <2>2. 1 .. Len(<<>>) = {} /\ <<>> \in Seq(ToSet(<<>>)) /\ Len(<<>>) = 0
    OBVIOUS
  <2>. QED
    BY ONLY <1>3, <1>4, <2>1, <2>2 DEF MetaOK
<1>6. Named(NoMetadata, meta, <<"f">>)
  <2>1. <<"f">> # <<"">>
    OBVIOUS
  <2>. QED
    BY <1>1, <1>2, <1>4, <2>1 DEF Named, CanRegister, IsUsed
<1>7. MetaOK(meta)
  BY <1>2, <1>5, <1>6, NamedFacts
<1>8. promised = <<>> /\ style \in Styles
  BY DEF Init
<1>. QED
  BY <1>7, <1>8 DEF MetaInv, PromisesNamed, PromisesInv

\* Every step keeps the metadata in order.
LEMMA MetaNext ==
  ASSUME MetaInv, [Next]_vars
  PROVE  MetaInv'
<1>1. MetaOK(meta) /\ PromisesNamed /\ MetaStep
  BY MetaSteps DEF MetaInv
<1>2. CASE UNCHANGED <<meta, promised>>
  BY ONLY <1>1, <1>2 DEF MetaInv, PromisesNamed
<1>3. CASE Extended(meta, meta') /\ UNCHANGED promised
  BY ONLY <1>1, <1>3 DEF MetaInv, PromisesNamed, Extended
<1>4. ASSUME NEW name \in Names, Named(meta, meta', name) /\ UNCHANGED promised
      PROVE  MetaInv'
  <2>1. MetaOK(meta')
    BY ONLY <1>1, <1>4, NamesAreNames, NamedFacts
  <2>. QED
    BY ONLY <1>1, <1>4, <2>1 DEF MetaInv, PromisesNamed
<1>5. ASSUME NEW k \in DOMAIN promised,
             Named(meta, meta', promised[k]) /\ promised' = RemoveAt(promised, k)
      PROVE  MetaInv'
  <2>1. promised \in Seq(Name) /\ k \in 1 .. Len(promised) /\ Len(promised) \in Nat
    BY ONLY <1>1, <1>5, LenProperties DEF PromisesNamed
  <2>2. promised[k] \in Name
    BY ONLY <2>1
  <2>3. MetaOK(meta')
    BY ONLY <1>1, <1>5, <2>2, NamedFacts
  <2>4. promised' = [j \in 1 .. Len(promised) - 1 |-> IF j < k THEN promised[j] ELSE promised[j + 1]]
    BY ONLY <1>5, <2>1, OneLess
  <2>5. Len(promised) - 1 \in Nat
    BY ONLY <2>1
  <2>6. /\ promised' \in Seq(Name) /\ Len(promised') = Len(promised) - 1
        /\ \A j \in 1 .. Len(promised') : \E i \in 1 .. Len(promised) : promised'[j] = promised[i]
    BY ONLY <2>1, <2>4, <2>5
  <2>7. PromisesNamed'
    BY ONLY <1>1, <2>6 DEF PromisesNamed
  <2>. QED
    BY ONLY <2>3, <2>7 DEF MetaInv
<1>6. ASSUME NEW hint \in Names, NEW name,
             Promise(meta, meta', hint, name) /\ promised' = Append(promised, name)
      PROVE  MetaInv'
  <2>1. MetaOK(meta') /\ name \in Name
    BY ONLY <1>1, <1>6, NamesAreNames, PromiseFacts
  <2>2. promised \in Seq(Name)
    BY ONLY <1>1 DEF PromisesNamed
  <2>3. /\ promised' \in Seq(Name) /\ Len(promised') = Len(promised) + 1 /\ Len(promised) \in Nat
        /\ \A j \in 1 .. Len(promised) : promised'[j] = promised[j]
        /\ promised'[Len(promised) + 1] = name
    BY ONLY <1>6, <2>1, <2>2, AppendProperties, LenProperties
  <2>4. PromisesNamed'
    BY ONLY <2>3 DEF PromisesNamed
  <2>. QED
    BY ONLY <2>1, <2>4 DEF MetaInv
<1>. QED
  BY ONLY <1>1, <1>2, <1>3, <1>4, <1>5, <1>6 DEF MetaStep

\* A promise is kept while the scope grows.
LEMMA PromiseKept ==
  ASSUME NEW s, NEW t, NEW p, Promised(s, p), Grown(s, t)
  PROVE  Promised(t, p)
<1>1. PICK h \in Name, n \in Nat : p = Append(h, n) /\ n <= Counted(s, h)
  BY ONLY Promised(s, p) DEF Promised
<1>2. Len(p) # 1
  <2>1. Len(Append(h, n)) = Len(h) + 1 /\ Len(h) \in Nat \ {0}
    BY ONLY <1>1, NumberedName
  <2>. QED
    BY ONLY <1>1, <2>1
<1>3. Counted(s, h) \in Nat /\ Counted(t, h) \in Nat /\ Counted(s, h) <= Counted(t, h)
  BY ONLY <1>1, Grown(s, t) DEF Grown
<1>4. n <= Counted(t, h)
  BY ONLY <1>1, <1>3
<1>5. ASSUME p \in t.used PROVE FALSE
  <2>1. p \in t.used \ s.used
    BY ONLY <1>5, Promised(s, p) DEF Promised
  <2>2. PICK b \in Name, k \in Nat : Counted(s, b) < k /\ p = Append(b, k)
    BY ONLY <1>2, <2>1, Grown(s, t) DEF Grown
  <2>3. Append(b, k) = Append(h, n)
    BY ONLY <1>1, <2>2
  <2>4. b = h /\ k = n
    BY ONLY <2>3, NumbersDiffer
  <2>. QED
    BY ONLY <1>1, <1>3, <2>2, <2>4
<1>. QED
  BY ONLY <1>1, <1>4, <1>5 DEF Promised

\* Nor does a promise that another keeps, or one that is made, break one.
LEMMA PromiseLeft ==
  ASSUME NEW s, NEW t, NEW p, NEW name, Promised(s, p), t.used \subseteq s.used \cup {name}, name # p,
         \A c \in Name : /\ Counted(s, c) \in Nat /\ Counted(t, c) \in Nat
                         /\ Counted(s, c) <= Counted(t, c)
  PROVE  Promised(t, p)
<1>1. PICK h \in Name, n \in Nat : p = Append(h, n) /\ n <= Counted(s, h)
  BY ONLY Promised(s, p) DEF Promised
<1>2. Counted(s, h) \in Nat /\ Counted(t, h) \in Nat /\ Counted(s, h) <= Counted(t, h)
  BY <1>1
<1>3. n <= Counted(t, h)
  BY ONLY <1>1, <1>2
<1>4. p \notin t.used
  BY DEF Promised
<1>. QED
  BY ONLY <1>1, <1>3, <1>4 DEF Promised

\* Names of one part are taken so.
LEMMA NamedGrown ==
  ASSUME NEW m, MetaOK(m), NEW name \in Name, Len(name) = 1, NEW n, Named(m, n, name)
  PROVE  Grown(m.scope, n.scope)
<1>. DEFINE r == Register(m.scope, name, FALSE)
<1>1. ScopeOK(m.scope) /\ CanRegister(m.scope, name, FALSE) /\ FALSE \in BOOLEAN
  BY DEF MetaOK, Named
<1>2. Grown(m.scope, r.scope)
  BY ONLY <1>1, Len(name) = 1, name \in Name, RegisterGrows
<1>3. m = [scope |-> m.scope, nodes |-> m.nodes, cache |-> m.cache, named |-> m.named]
  BY DEF MetaOK
<1>. HIDE DEF r
<1>4. n = [m EXCEPT !.scope = r.scope]
  BY DEF Named, r
<1>5. n.scope = r.scope
  BY ONLY <1>3, <1>4
<1>. QED
  BY ONLY <1>2, <1>5

\* Every step keeps the promises.
LEMMA PromisesNext ==
  ASSUME MetaInv, PromisesInv, [Next]_vars
  PROVE  PromisesInv'
<1>1. MetaOK(meta) /\ promised \in Seq(Name) /\ MetaStep /\ style \in Styles
  BY MetaSteps DEF MetaInv, PromisesNamed, PromisesInv
<1>2. style' = style
  BY DEF Next, Making, Editing, Asking, AddGlobal, MakeGlobal, AddConstant, AddPromisedGlobal,
         AppendBlock, Replace, Emit, SetMetadata, SetWeights, Attach, AskMetadata, AskDebugInfo,
         AskNamed, Show, Rename, GetUniqueName, SetInitializer, AddIncoming, ReplaceCallee,
         ReplaceAllCalls, vars
<1>. DEFINE Kept(s, ps) == \A k \in 1 .. Len(ps) : MadeUp(ps[k]) =>
                /\ Promised(s, ps[k])
                /\ \A j \in 1 .. Len(ps) : ps[j] = ps[k] => j = k
<1>3. SUFFICES ASSUME NamesUnnumbered PROVE Kept(meta'.scope, promised')
  <2>1. (NamesUnnumbered => Kept(meta'.scope, promised')) => PromisesInv'
    BY ONLY <1>1, <1>2 DEF PromisesInv
  <2>. QED
    BY <2>1
<1>4. Kept(meta.scope, promised) /\ \A name \in Names : Len(name) = 1
  BY ONLY <1>3, PromisesInv DEF PromisesInv, NamesUnnumbered
<1>5. CASE UNCHANGED <<meta, promised>>
  BY ONLY <1>4, <1>5
<1>6. ASSUME Grown(meta.scope, meta'.scope), UNCHANGED promised
      PROVE  Kept(meta'.scope, promised')
  BY ONLY <1>4, <1>6, PromiseKept
<1>7. CASE Extended(meta, meta') /\ UNCHANGED promised
  BY ONLY <1>6, <1>7 DEF Extended
<1>8. ASSUME NEW name \in Names, Named(meta, meta', name) /\ UNCHANGED promised
      PROVE  Kept(meta'.scope, promised')
  <2>1. name \in Name /\ Len(name) = 1
    BY ONLY <1>4, <1>8, NamesAreNames
  <2>. QED
    BY ONLY <1>1, <1>6, <1>8, <2>1, NamedGrown
<1>9. ASSUME NEW k \in DOMAIN promised,
             Named(meta, meta', promised[k]) /\ promised' = RemoveAt(promised, k)
      PROVE  Kept(meta'.scope, promised')
  <2>1. k \in 1 .. Len(promised) /\ Len(promised) \in Nat /\ promised[k] \in Name
    BY ONLY <1>1, <1>9, LenProperties
  <2>2. ScopeOK(meta.scope) /\ CanRegister(meta.scope, promised[k], FALSE) /\ FALSE \in BOOLEAN
    BY ONLY <1>1, <1>9 DEF MetaOK, Named
  <2>. DEFINE r == Register(meta.scope, promised[k], FALSE)
  <2>3. meta'.scope = r.scope
    <3>1. meta = [scope |-> meta.scope, nodes |-> meta.nodes, cache |-> meta.cache, named |-> meta.named]
      BY ONLY <1>1 DEF MetaOK
    <3>2. meta' = [meta EXCEPT !.scope = r.scope]
      BY ONLY <1>9 DEF Named
    <3>. HIDE DEF r
    <3>. QED
      BY ONLY <3>1, <3>2
  <2>4. promised[k] \notin meta.scope.used
    BY ONLY <2>2 DEF CanRegister, IsUsed
  <2>5. /\ meta'.scope.used = meta.scope.used \cup {promised[k]}
        /\ \A c \in Name : /\ Counted(meta.scope, c) \in Nat /\ Counted(meta'.scope, c) \in Nat
                           /\ Counted(meta.scope, c) <= Counted(meta'.scope, c)
    <3>1. /\ r.scope.used = meta.scope.used \cup {r.name} /\ r.name = promised[k]
          /\ \A c \in Name : /\ Counted(meta.scope, c) \in Nat /\ Counted(r.scope, c) \in Nat
                             /\ Counted(meta.scope, c) <= Counted(r.scope, c)
      BY ONLY <2>1, <2>2, <2>4, RegisterFacts, ZenonT(60)
    <3>. HIDE DEF r
    <3>. QED
      BY ONLY <2>3, <3>1
  <2>6. \A j \in 1 .. Len(promised) :
           j # k /\ MadeUp(promised[j]) => Promised(meta'.scope, promised[j])
    BY ONLY <1>4, <2>1, <2>5, PromiseLeft
  <2>7. promised' = [j \in 1 .. Len(promised) - 1 |-> IF j < k THEN promised[j] ELSE promised[j + 1]]
    BY ONLY <1>1, <1>9, <2>1, OneLess
  <2>8. Len(promised) - 1 \in Nat /\ Len(promised') = Len(promised) - 1
    BY ONLY <2>1, <2>7
  <2>. DEFINE at(j) == IF j < k THEN j ELSE j + 1
  <2>9. \A j \in 1 .. Len(promised') :
           at(j) \in 1 .. Len(promised) /\ at(j) # k /\ promised'[j] = promised[at(j)]
    BY ONLY <2>1, <2>7, <2>8
  <2>10. \A i, j \in 1 .. Len(promised') : at(i) = at(j) => i = j
    BY ONLY <2>1, <2>8
  <2>. HIDE DEF at
  <2>. QED
    BY ONLY <1>4, <2>6, <2>9, <2>10
<1>10. ASSUME NEW hint \in Names, NEW name,
             Promise(meta, meta', hint, name) /\ promised' = Append(promised, name)
      PROVE  Kept(meta'.scope, promised')
  <2>1. hint \in Name
    BY ONLY <1>10, NamesAreNames
  <2>2. /\ meta'.scope.used = meta.scope.used /\ name \notin meta.scope.used
        /\ hint \notin meta.scope.used => name = hint
        /\ hint \in meta.scope.used =>
              \E k \in Nat : /\ Counted(meta.scope, hint) < k /\ name = Append(hint, k)
                             /\ Counted(meta'.scope, hint) = k
        /\ \A c \in Name : /\ Counted(meta.scope, c) \in Nat /\ Counted(meta'.scope, c) \in Nat
                           /\ Counted(meta.scope, c) <= Counted(meta'.scope, c)
    BY ONLY <1>1, <1>10, <2>1, PromiseFacts
  <2>. DEFINE Fresh == /\ MadeUp(name) => Promised(meta'.scope, name)
                       /\ \A j \in 1 .. Len(promised) : MadeUp(promised[j]) => name # promised[j]
  <2>3. ASSUME hint \notin meta.scope.used PROVE Fresh
    <3>1. name = hint
      BY ONLY <2>2, <2>3
    <3>2. Len(hint) = 1
      BY ONLY <1>4, <1>10
    <3>3. ~MadeUp(name)
      BY ONLY <3>1, <3>2 DEF MadeUp
    <3>. QED
      BY ONLY <3>3
  <2>4. ASSUME hint \in meta.scope.used PROVE Fresh
    <3>1. PICK k \in Nat : /\ Counted(meta.scope, hint) < k /\ name = Append(hint, k)
                           /\ Counted(meta'.scope, hint) = k
      BY ONLY <2>2, <2>4
    <3>2. Promised(meta'.scope, name)
      BY ONLY <2>1, <2>2, <3>1 DEF Promised
    <3>3. ASSUME NEW j \in 1 .. Len(promised), MadeUp(promised[j]), name = promised[j]
          PROVE  FALSE
      <4>1. PICK h \in Name, n \in Nat : promised[j] = Append(h, n) /\ n <= Counted(meta.scope, h)
        BY ONLY <1>4, <3>3 DEF Promised
      <4>2. Append(h, n) = Append(hint, k)
        BY ONLY <3>1, <3>3, <4>1
      <4>3. h = hint /\ n = k
        BY ONLY <2>1, <4>2, NumbersDiffer
      <4>. QED
        BY ONLY <2>1, <2>2, <3>1, <4>1, <4>3
    <3>. QED
      BY ONLY <3>2, <3>3
  <2>5. Fresh
    BY ONLY <2>3, <2>4
  <2>6. \A j \in 1 .. Len(promised) : MadeUp(promised[j]) => Promised(meta'.scope, promised[j])
    BY ONLY <1>4, <2>2, <2>5, PromiseLeft
  <2>7. /\ Len(promised') = Len(promised) + 1 /\ Len(promised) \in Nat
        /\ \A j \in 1 .. Len(promised) : promised'[j] = promised[j]
        /\ promised'[Len(promised) + 1] = name
    BY ONLY <1>1, <1>10, LenProperties, AppendProperties
  <2>8. ASSUME NEW j \in 1 .. Len(promised'), MadeUp(promised'[j])
        PROVE  /\ Promised(meta'.scope, promised'[j])
               /\ \A i \in 1 .. Len(promised') : promised'[i] = promised'[j] => i = j
    <3>1. CASE j = Len(promised) + 1
      BY ONLY <2>5, <2>7, <2>8, <3>1
    <3>2. CASE j \in 1 .. Len(promised)
      BY ONLY <1>4, <2>5, <2>6, <2>7, <2>8, <3>2
    <3>. QED
      BY ONLY <2>7, <2>8, <3>1, <3>2
  <2>. QED
    BY ONLY <2>8
<1>. QED
  BY ONLY <1>1, <1>5, <1>7, <1>8, <1>9, <1>10 DEF MetaStep

\* Two operands with one key are printed alike, or are of those that are confused.
LEMMA OneKey ==
  ASSUME NEW p, NEW q, Keyed(p) = Keyed(q)
  PROVE  /\ p[1] = q[1]
         /\ p = q \/ SameText(p[2], q[2]) \/ Confused(p[1], p[2], q[2])
<1>. DEFINE IsToken(x) == x[1] = "encoding" /\ x[2].is = "token"
            IsTruth(x) == x[2].is = "bool"
<1>1. ASSUME NEW x
      PROVE  /\ IsToken(x) => Keyed(x) = <<x[1], String(x[2].of)>>
             /\ IsTruth(x) => Keyed(x) = <<x[1], Number(x[2].of)>>
             /\ ~IsToken(x) /\ ~IsTruth(x) => Keyed(x) = x
  <2>1. \A k, o : <<k, String(o)>>[2].is = "string"
    BY ONLY TRUE DEF String
  <2>2. IsToken(x) => TokenByValue(x) = <<x[1], String(x[2].of)>>
    BY ONLY TRUE DEF TokenByValue
  <2>3. ~IsToken(x) => TokenByValue(x) = x
    BY ONLY TRUE DEF TokenByValue
  <2>4. IsToken(x) => Keyed(x) = <<x[1], String(x[2].of)>>
    BY ONLY <2>1, <2>2 DEF Keyed, Compared
  <2>5. IsTruth(x) => Keyed(x) = <<x[1], Number(x[2].of)>>
    BY ONLY <2>3 DEF Keyed, Compared
  <2>6. ~IsToken(x) /\ ~IsTruth(x) => Keyed(x) = x
    BY ONLY <2>3 DEF Keyed, Compared
  <2>. QED
    BY ONLY <2>4, <2>5, <2>6
<1>2. ASSUME NEW x
      PROVE  /\ Keyed(x)[1] = x[1]
             /\ IsToken(x) \/ IsTruth(x) => Keyed(x)[2].of = x[2].of
             /\ IsToken(x) => Keyed(x)[2].is = "string"
             /\ IsTruth(x) => Keyed(x)[2].is = "int"
  <2>1. \A k, o : /\ <<k, String(o)>>[1] = k /\ <<k, String(o)>>[2].is = "string"
                  /\ <<k, String(o)>>[2].of = o
                  /\ <<k, Number(o)>>[1] = k /\ <<k, Number(o)>>[2].is = "int"
                  /\ <<k, Number(o)>>[2].of = o
    BY ONLY TRUE DEF String, Number
  <2>. QED
    BY ONLY <1>1, <2>1
<1>3. p[1] = q[1]
  BY ONLY <1>2, Keyed(p) = Keyed(q)
<1>4. CASE IsToken(p)
  <2>1. CASE IsToken(q)
    BY ONLY <1>2, <1>4, <2>1, Keyed(p) = Keyed(q) DEF SameText
  <2>2. CASE IsTruth(q)
    BY ONLY <1>2, <1>4, <2>2, Keyed(p) = Keyed(q)
  <2>3. CASE ~IsToken(q) /\ ~IsTruth(q)
    BY ONLY <1>1, <1>2, <1>4, <2>3, Keyed(p) = Keyed(q) DEF Confused
  <2>. QED
    BY ONLY <1>3, <2>1, <2>2, <2>3
<1>5. CASE IsTruth(p)
  <2>1. CASE IsToken(q)
    BY ONLY <1>2, <1>5, <2>1, Keyed(p) = Keyed(q)
  <2>2. CASE IsTruth(q)
    BY ONLY <1>2, <1>5, <2>2, Keyed(p) = Keyed(q) DEF SameText
  <2>3. CASE ~IsToken(q) /\ ~IsTruth(q)
    BY ONLY <1>1, <1>2, <1>5, <2>3, Keyed(p) = Keyed(q) DEF Confused
  <2>. QED
    BY ONLY <1>3, <2>1, <2>2, <2>3
<1>6. CASE ~IsToken(p) /\ ~IsTruth(p)
  <2>1. CASE IsToken(q)
    BY ONLY <1>1, <1>2, <1>6, <2>1, Keyed(p) = Keyed(q) DEF Confused
  <2>2. CASE IsTruth(q)
    BY ONLY <1>1, <1>2, <1>6, <2>2, Keyed(p) = Keyed(q) DEF Confused
  <2>3. CASE ~IsToken(q) /\ ~IsTruth(q)
    BY ONLY <1>1, <1>6, <2>3, Keyed(p) = Keyed(q)
  <2>. QED
    BY ONLY <1>3, <2>1, <2>2, <2>3
<1>. QED
  BY ONLY <1>4, <1>5, <1>6

\* Whatever has been asked for last is held by the node that was returned.
LEMMA AskedNext ==
  ASSUME MetaInv, NodesAsAsked, [Next]_vars
  PROVE  NodesAsAsked'
<1>1. MetaOK(meta)
  BY DEF MetaInv
<1>. DEFINE SaysIn(nodes, key, op, ask) ==
                IF ask.is = "list" THEN op.is = "node" /\ nodes[op.of].operands = ask.of
                ELSE SameText(op, ask) \/ Confused(key, op, ask)
<1>2. \A nodes, key, op, ask : Holds(nodes, op, ask) => SaysIn(nodes, key, op, ask)
  BY ONLY TRUE DEF Holds, SameText
<1>. HIDE DEF SaysIn
<1>3. ASSUME NEW ops, ListsIn(ops), NEW r, r = AddMetadata(meta, ops), meta' = r.m,
             asked' = <<"", ops, FALSE, r.node>>
      PROVE  NodesAsAsked'
  <2>1. /\ r.m.nodes[r.node].kind = "" /\ r.m.nodes[r.node].distinct = FALSE
        /\ Len(r.m.nodes[r.node].operands) = Len(ops)
        /\ \A k \in 1 .. Len(ops) : Holds(r.m.nodes, r.m.nodes[r.node].operands[k], ops[k])
    BY ONLY <1>1, <1>3, AddMetadataFacts, ZenonT(60)
  <2>2. DOMAIN ops = 1 .. Len(ops)
    <3>1. ops \in Seq(ToSet(ops))
      BY ONLY <1>3 DEF ListsIn
    <3>. QED
      BY ONLY <3>1
  <2>3. \A k \in DOMAIN ops : SaysIn(r.m.nodes, "", r.m.nodes[r.node].operands[k], ops[k])
    BY ONLY <1>2, <2>1, <2>2
  <2>4. asked'[1] = "" /\ asked'[2] = ops /\ asked'[3] = FALSE /\ asked'[4] = r.node
    BY ONLY <1>3
  <2>. QED
    BY ONLY <1>3, <2>1, <2>3, <2>4 DEF NodesAsAsked, Says, SaysIn
<1>4. CASE SetMetadata \/ SetWeights
  <2>1. ASSUME NEW v, NEW slot, NEW ops, ListsIn(ops), Attach(v, slot, ops) PROVE NodesAsAsked'
    BY ONLY <1>3, <2>1 DEF Attach
  <2>. QED
    BY ONLY <1>4, <2>1, ContentsLists DEF SetMetadata, SetWeights
<1>5. CASE AskMetadata
  BY ONLY <1>3, <1>5, ContentsLists DEF AskMetadata
<1>6. CASE AskDebugInfo
  <2>1. PICK ops \in Pairs, distinct \in BOOLEAN :
           /\ meta' = AddDebugInfo(meta, "DI", ops, distinct).m
           /\ asked' = <<"DI", ops, distinct, AddDebugInfo(meta, "DI", ops, distinct).node>>
    BY ONLY <1>6 DEF AskDebugInfo
  <2>2. PICK kind : kind = "DI"
    OBVIOUS
  <2>2r. PICK r : r = AddDebugInfo(meta, kind, ops, distinct)
    OBVIOUS
  <2>3. kind # "" /\ PairsIn(ops)
    BY ONLY <2>1, <2>2, PairsLists
  <2>4. /\ Extended(meta, r.m) /\ r.node \in 1 .. Len(r.m.nodes)
        /\ r.m.nodes[r.node].kind = kind /\ r.m.nodes[r.node].distinct = distinct
        /\ \E fixed : /\ Answers(r.m.nodes, fixed, ops)
                      /\ KeyOf(kind, r.m.nodes[r.node].operands) = KeyOf(kind, fixed)
    <3>1. Given(meta, r, kind, ops, distinct)
      BY ONLY <1>1, <2>2r, <2>3, AddDebugInfoFacts
    <3>. QED
      BY ONLY <3>1 DEF Given
  <2>5. /\ meta' = r.m
        /\ asked'[1] = kind /\ asked'[2] = ops /\ asked'[3] = distinct /\ asked'[4] = r.node
    BY ONLY <2>1, <2>2, <2>2r
  <2>. DEFINE nodes == r.m.nodes
              held == nodes[r.node].operands
  <2>6. PICK fixed : Answers(nodes, fixed, ops) /\ KeyOf(kind, held) = KeyOf(kind, fixed)
    BY ONLY <2>4
  <2>. HIDE DEF nodes, held
  <2>7. {Keyed(q) : q \in held} = {Keyed(q) : q \in fixed}
    BY ONLY <2>3, <2>6 DEF KeyOf
  <2>8. ASSUME NEW p \in ops
         PROVE  \E q \in held : p[1] = q[1] /\ SaysIn(nodes, p[1], q[2], p[2])
    <3>1. PICK f \in fixed : HoldsPair(nodes, f, p)
      BY ONLY <2>6, <2>8 DEF Answers
    <3>2. PICK q \in held : Keyed(q) = Keyed(f)
      BY ONLY <2>7, <3>1
    <3>3. q[1] = f[1] /\ (q = f \/ SameText(q[2], f[2]) \/ Confused(q[1], q[2], f[2]))
      BY ONLY <3>2, OneKey
    <3>4. p[1] = f[1] /\ Holds(nodes, f[2], p[2])
      BY ONLY <3>1 DEF HoldsPair
    <3>5. SaysIn(nodes, p[1], q[2], p[2])
      <4>1. CASE p[2].is = "list"
        <5>1. f[2].is = "node" /\ nodes[f[2].of].operands = p[2].of
          BY ONLY <3>4, <4>1 DEF Holds
        <5>2. q[2].is = f[2].is /\ q[2].of = f[2].of
          BY ONLY <3>3, <5>1 DEF SameText, Confused
        <5>. QED
          BY ONLY <4>1, <5>1, <5>2 DEF SaysIn
      <4>2. CASE p[2].is # "list"
        <5>1. f[2] = p[2]
          BY ONLY <3>4, <4>2 DEF Holds
        <5>. QED
          BY ONLY <3>3, <3>4, <4>2, <5>1 DEF SaysIn, SameText
      <4>. QED
        BY ONLY <4>1, <4>2
    <3>. QED
      BY ONLY <3>2, <3>3, <3>4, <3>5
  <2>9. \A q \in held : \E p \in ops : p[1] = q[1]
    <3>1. ASSUME NEW q \in held PROVE \E p \in ops : p[1] = q[1]
      <4>1. PICK f \in fixed : Keyed(q) = Keyed(f)
        BY ONLY <2>7, <3>1
      <4>2. q[1] = f[1]
        BY ONLY <4>1, OneKey
      <4>3. PICK p \in ops : HoldsPair(nodes, f, p)
        BY ONLY <2>6, <4>1 DEF Answers
      <4>. QED
        BY ONLY <4>2, <4>3 DEF HoldsPair
    <3>. QED
      BY ONLY <3>1
  <2>10. {p[1] : p \in held} = {p[1] : p \in ops}
    BY ONLY <2>8, <2>9
  <2>. QED
    BY ONLY <2>3, <2>4, <2>5, <2>8, <2>10 DEF NodesAsAsked, Says, SaysIn, nodes, held
<1>7. CASE asked' = <<>>
  BY ONLY <1>7 DEF NodesAsAsked
<1>8. CASE UNCHANGED vars
  BY ONLY NodesAsAsked, <1>8 DEF vars, NodesAsAsked, Says
<1>. QED
  BY ONLY [Next]_vars, <1>4, <1>5, <1>6, <1>7, <1>8 DEF Next, Making, Editing, Asking
-----------------------------------------------------------------------------
(* The values *)

Value(kind, name, ref, text, md, operands, own, fixed) ==
    [kind |-> kind, name |-> name, ref |-> ref, text |-> text, md |-> md,
     operands |-> operands, own |-> own, fixed |-> fixed]

Recorded(r) == r = Value(r.kind, r.name, r.ref, r.text, r.md, r.operands, r.own, r.fixed)

Kinds == Globals \cup Instructions \cup {"arg", "block", "const"}

\* The values of a module and the instructions of the block are well formed: operands
\* are values, and no instruction is in the block twice.
ValuesInv ==
    /\ values \in Seq(ToSet(values))
    /\ \A v \in 1 .. Len(values) :
          /\ Recorded(values[v]) /\ Kind(v) \in Kinds /\ values[v].name \in Name
          /\ values[v].operands \in Seq(1 .. Len(values))
          /\ values[v].own \in Seq(1 .. Len(values))
    /\ body \in Seq(1 .. Len(values))
    /\ \A k \in 1 .. Len(body) : Kind(body[k]) \in Instructions
    /\ \A j, k \in 1 .. Len(body) : body[j] = body[k] => j = k

\* A sequence with one more, and with one changed.
Added(us, ws, r) ==
    /\ us \in Seq(ToSet(us)) /\ ws \in Seq(ToSet(ws))
    /\ Len(us) \in Nat /\ Len(ws) = Len(us) + 1 /\ ws[Len(us) + 1] = r
    /\ \A w \in 1 .. Len(us) : ws[w] = us[w]

Edited(us, ws, v, r) ==
    /\ us \in Seq(ToSet(us)) /\ ws \in Seq(ToSet(ws))
    /\ Len(us) \in Nat /\ Len(ws) = Len(us) /\ v \in 1 .. Len(us) /\ ws[v] = r
    /\ \A w \in 1 .. Len(us) : w # v => ws[w] = us[w]

\* Append is the one.
LEMMA AppendAdds ==
  ASSUME NEW us, us \in Seq(ToSet(us)), NEW r, NEW ws, ws = Append(us, r)
  PROVE  Added(us, ws, r)
<1>1. /\ ws \in Seq(ToSet(ws)) /\ Len(us) \in Nat /\ Len(ws) = Len(us) + 1
      /\ \A k \in 1 .. Len(us) : ws[k] = us[k]
      /\ ws[Len(us) + 1] = r
  BY ONLY us \in Seq(ToSet(us)), ws = Append(us, r), OneMore
<1>. QED
  BY ONLY <1>1, us \in Seq(ToSet(us)) DEF Added

\* EXCEPT is the other.
LEMMA ExceptEdits ==
  ASSUME NEW us, us \in Seq(ToSet(us)), NEW v \in DOMAIN us, NEW r, NEW ws,
         ws = [us EXCEPT ![v] = r]
  PROVE  Edited(us, ws, v, r)
<1>1. Len(us) \in Nat /\ DOMAIN us = 1 .. Len(us)
  BY ONLY us \in Seq(ToSet(us)), LenProperties
<1>2. ws = [w \in 1 .. Len(us) |-> IF w = v THEN r ELSE us[w]]
  BY ONLY <1>1, ws = [us EXCEPT ![v] = r]
<1>3. ws \in Seq(ToSet(ws)) /\ Len(ws) = Len(us)
  <2>1. DOMAIN ws = 1 .. Len(us)
    BY ONLY <1>2
  <2>2. \A w \in 1 .. Len(us) : ws[w] \in ToSet(ws)
    BY ONLY <2>1 DEF ToSet
  <2>3. ws = [w \in 1 .. Len(us) |-> ws[w]]
    BY ONLY <1>2
  <2>. QED
    BY ONLY <1>1, <2>1, <2>2, <2>3
<1>. QED
  BY ONLY <1>1, <1>2, <1>3, us \in Seq(ToSet(us)) DEF Edited

\* A value that is made has its name from the scope, no reference and no text yet.
LEMMA NamedValueIs ==
  ASSUME NEW kind, NEW name, NEW ops
  PROVE  /\ NamedValue(kind, name, ops)
              = Value(kind, name, NoRef, NoText, {}, ops, IF kind = "gep" THEN ops ELSE <<>>, FALSE)
         /\ Recorded(NamedValue(kind, name, ops))
<1>1. NamedValue(kind, name, ops)
        = Value(kind, name, NoRef, NoText, {}, ops, IF kind = "gep" THEN ops ELSE <<>>, FALSE)
  BY DEF NamedValue, Value
<1>. QED
  BY ONLY <1>1 DEF Recorded, Value

\* The values of a sequence, and those of another that has them all: changed as R says.
Over(us, ws, extra) ==
    /\ us \in Seq(ToSet(us)) /\ ws \in Seq(ToSet(ws))
    /\ Len(us) \in Nat /\ Len(ws) = Len(us) + extra

\* The steps that make or change values, by what they do to each of them.
Constant(g) ==
    /\ g \in 1 .. Len(values) /\ IsGlobal(g) /\ Over(values, values', 1)
    /\ \A v \in 1 .. Len(values) : LET r == values[v] IN
          values'[v] = Value(r.kind, r.name, IF v = g THEN Reference(g) ELSE r.ref, r.text, r.md,
                             r.operands, r.own, r.fixed)
    /\ values'[Len(values) + 1]
         = Value("const", <<"">>, Reference(g), NoText, {}, <<g>>, <<>>, FALSE)
    /\ UNCHANGED <<style, body, scope, meta>>

\* What is asked for and what is written while the module is printed.
Showing(texts, refs) ==
    /\ \A v \in texts : Kind(v) \in Cached /\ values[v].text = NoText
    /\ \A v \in texts : (Kind(v) = "branch" \/ v \in refs) /\ ToSet(Reads(v)) \subseteq refs
    /\ Over(values, values', 0)
    /\ \A v \in 1 .. Len(values) : LET r == values[v] IN
          values'[v] = Value(r.kind, r.name, IF v \in refs THEN Reference(v) ELSE r.ref,
                             IF v \in texts THEN Describe(v) ELSE r.text, r.md,
                             r.operands, r.own, r.fixed)
    /\ UNCHANGED <<style, body, scope, meta>>

\* AddConstant is such a step.
LEMMA ConstantFacts ==
  ASSUME ValuesInv, AddConstant
  PROVE  \E g : Constant(g)
<1>1. PICK g \in DOMAIN values :
         /\ IsGlobal(g)
         /\ values' = Append([values EXCEPT ![g].ref = Reference(g)],
                             [NamedValue("const", <<"">>, <<g>>) EXCEPT !.ref = Reference(g)])
         /\ UNCHANGED <<style, body, scope, meta>>
  BY DEF AddConstant
<1>. DEFINE ref == Reference(g)
            r == values[g]
            now == [r EXCEPT !.ref = ref]
            mid == [values EXCEPT ![g] = now]
            new == [NamedValue("const", <<"">>, <<g>>) EXCEPT !.ref = ref]
<1>2. values \in Seq(ToSet(values)) /\ g \in 1 .. Len(values) /\ Recorded(r)
  <2>1. values \in Seq(ToSet(values))
    BY DEF ValuesInv
  <2>2. g \in 1 .. Len(values)
    BY ONLY g \in DOMAIN values, <2>1, LenProperties
  <2>. QED
    BY ONLY <2>1, <2>2, ValuesInv DEF ValuesInv
<1>3. values' = Append(mid, new)
  BY <1>1
<1>. HIDE DEF ref, now, new
<1>4. now = Value(r.kind, r.name, ref, r.text, r.md, r.operands, r.own, r.fixed)
  BY ONLY <1>2 DEF now, Recorded, Value
<1>5. new = Value("const", <<"">>, ref, NoText, {}, <<g>>, <<>>, FALSE)
  <2>1. PICK ops : ops = <<g>>
    OBVIOUS
  <2>2. PICK name : name = <<"">>
    OBVIOUS
  <2>. DEFINE base == NamedValue("const", name, ops)
  <2>3. new = [base EXCEPT !.ref = ref]
    BY ONLY <2>1, <2>2 DEF new
  <2>4. base = Value("const", name, NoRef, NoText, {}, ops, <<>>, FALSE)
    BY ONLY TRUE DEF NamedValue, Value
  <2>. HIDE DEF base
  <2>5. new = Value("const", name, ref, NoText, {}, ops, <<>>, FALSE)
    BY ONLY <2>3, <2>4 DEF Value
  <2>. QED
    BY ONLY <2>1, <2>2, <2>5
<1>6. Edited(values, mid, g, now)
  BY ONLY <1>1, <1>2, ExceptEdits
<1>. HIDE DEF mid
<1>7. Added(mid, values', new)
  BY ONLY <1>3, <1>6, AppendAdds DEF Edited
<1>8. Over(values, values', 1)
  BY ONLY <1>6, <1>7 DEF Edited, Added, Over
<1>9. \A v \in 1 .. Len(values) : values'[v] = IF v = g THEN now ELSE values[v]
  BY ONLY <1>6, <1>7 DEF Edited, Added
<1>10. \A v \in 1 .. Len(values) : Recorded(values[v])
  BY DEF ValuesInv
<1>11. values'[Len(values) + 1] = new
  BY ONLY <1>6, <1>7 DEF Edited, Added
<1>12. \A v \in 1 .. Len(values) : LET s == values[v] IN
          values'[v] = Value(s.kind, s.name, IF v = g THEN ref ELSE s.ref, s.text, s.md,
                             s.operands, s.own, s.fixed)
  BY ONLY <1>4, <1>9, <1>10 DEF Recorded
<1>. QED
  BY ONLY <1>1, <1>2, <1>5, <1>8, <1>11, <1>12 DEF Constant, ref

\* Show is.
LEMMA ShowFacts ==
  ASSUME ValuesInv, Show
  PROVE  \E texts, refs : Showing(texts, refs)
<1>. DEFINE texts == {v \in Live : Kind(v) \in Cached /\ values[v].text = NoText}
            refs == (UNION {ToSet(Reads(v)) : v \in texts})
                      \cup {v \in Live : Kind(v) \notin {"block", "branch"}}
<1>1. values' = [v \in DOMAIN values |->
           [values[v] EXCEPT !.ref = IF v \in refs THEN Reference(v) ELSE @,
                             !.text = IF v \in texts THEN Describe(v) ELSE @]]
      /\ UNCHANGED <<style, body, scope, meta>>
  BY DEF Show, Written
<1>2. \A v \in texts : Kind(v) \in Cached /\ values[v].text = NoText
  OBVIOUS
<1>3. \A v \in texts : (Kind(v) = "branch" \/ v \in refs) /\ ToSet(Reads(v)) \subseteq refs
  <2>1. ASSUME NEW v \in texts PROVE (Kind(v) = "branch" \/ v \in refs) /\ ToSet(Reads(v)) \subseteq refs
    <3>1. v \in Live /\ Kind(v) # "block"
      BY ONLY <2>1 DEF texts, Cached
    <3>. HIDE DEF texts
    <3>2. PICK read : read = UNION {ToSet(Reads(w)) : w \in texts}
      OBVIOUS
    <3>3. ToSet(Reads(v)) \subseteq read
      BY ONLY <2>1, <3>2
    <3>4. refs = read \cup {w \in Live : Kind(w) \notin {"block", "branch"}}
      BY ONLY <3>2 DEF refs
    <3>. HIDE DEF refs
    <3>. QED
      BY ONLY <3>1, <3>3, <3>4
  <2>. QED
    BY ONLY <2>1
<1>. HIDE DEF texts, refs
<1>4. values \in Seq(ToSet(values)) /\ \A v \in 1 .. Len(values) : Recorded(values[v])
  BY DEF ValuesInv
<1>5. Len(values) \in Nat /\ DOMAIN values = 1 .. Len(values)
  BY ONLY <1>4, LenProperties
<1>. DEFINE New(v) == Value(values[v].kind, values[v].name,
                           IF v \in refs THEN Reference(v) ELSE values[v].ref,
                           IF v \in texts THEN Describe(v) ELSE values[v].text, values[v].md,
                           values[v].operands, values[v].own, values[v].fixed)
<1>6. \A v \in 1 .. Len(values) : values'[v] = New(v)
  <2>1. ASSUME NEW v \in 1 .. Len(values) PROVE values'[v] = New(v)
    <3>1. PICK r : r = values[v]
      OBVIOUS
    <3>2. PICK ref : ref = IF v \in refs THEN Reference(v) ELSE r.ref
      OBVIOUS
    <3>3. PICK text : text = IF v \in texts THEN Describe(v) ELSE r.text
      OBVIOUS
    <3>4. values'[v] = [r EXCEPT !.ref = ref, !.text = text]
      BY ONLY <1>1, <1>5, <2>1, <3>1, <3>2, <3>3
    <3>5. r = Value(r.kind, r.name, r.ref, r.text, r.md, r.operands, r.own, r.fixed)
      BY ONLY <1>4, <2>1, <3>1 DEF Recorded
    <3>6. values'[v] = Value(r.kind, r.name, ref, text, r.md, r.operands, r.own, r.fixed)
      BY ONLY <3>4, <3>5 DEF Value
    <3>. QED
      BY ONLY <3>1, <3>2, <3>3, <3>6
  <2>. QED
    BY ONLY <2>1
<1>7. Over(values, values', 0)
  <2>1. DOMAIN values' = 1 .. Len(values) /\ values' = [v \in 1 .. Len(values) |-> values'[v]]
    BY ONLY <1>1, <1>5
  <2>2. \A v \in 1 .. Len(values) : values'[v] \in ToSet(values')
    BY ONLY <2>1 DEF ToSet
  <2>3. values' \in Seq(ToSet(values')) /\ Len(values') = Len(values)
    BY ONLY <1>5, <2>1, <2>2
  <2>. QED
    BY ONLY <1>4, <1>5, <2>3 DEF Over
<1>. QED
  BY ONLY <1>1, <1>2, <1>3, <1>6, <1>7 DEF Showing

\* A name that a value of this kind takes: it was free in its scope, and names stay taken.
Taken(kind) == IF kind \in Globals THEN meta.scope.used ELSE scope.used

Takes(kind, name) ==
    /\ name \in Name /\ name \notin Taken(kind)
    /\ name \in (IF kind \in Globals THEN meta'.scope.used ELSE scope'.used)
    /\ meta.scope.used \subseteq meta'.scope.used /\ scope.used \subseteq scope'.used
    /\ ScopeOK(scope')

Fresh(kind, name, ops) ==
    /\ Added(values, values', NamedValue(kind, name, ops))
    /\ Takes(kind, name)

\* AddGlobal and AddPromisedGlobal make a value with a fresh name.
LEMMA GlobalFacts ==
  ASSUME MetaInv, ValuesInv, ScopeOK(scope), AddGlobal \/ AddPromisedGlobal
  PROVE  \E kind \in Globals : \E name : Fresh(kind, name, <<>>) /\ UNCHANGED <<style, body>>
<1>1. PICK kind, name :
         /\ kind \in Globals
         /\ MakeGlobal(kind, name)
         /\ name \in Names \/ \E k \in DOMAIN promised : name = promised[k]
  <2>1. CASE AddGlobal
    BY ONLY <2>1 DEF AddGlobal
  <2>2. CASE AddPromisedGlobal
    BY ONLY <2>2 DEF AddPromisedGlobal, Globals
  <2>. QED
    BY ONLY <2>1, <2>2, AddGlobal \/ AddPromisedGlobal
<1>2. MetaOK(meta) /\ PromisesNamed /\ DOMAIN promised = 1 .. Len(promised)
  BY LenProperties DEF MetaInv, PromisesNamed
<1>3. name \in Name
  <2>1. CASE name \in Names
    BY ONLY <2>1, NamesAreNames
  <2>2. ASSUME NEW k \in DOMAIN promised, name = promised[k]
        PROVE  name \in Name
    BY ONLY <1>2, <2>2 DEF PromisesNamed
  <2>. QED
    BY ONLY <1>1, <2>1, <2>2
<1>4. Named(meta, meta', name)
  BY ONLY <1>1 DEF MakeGlobal, Named
<1>5. name \notin meta.scope.used /\ meta'.scope.used = meta.scope.used \cup {name}
  BY ONLY <1>2, <1>3, <1>4, NamedFacts
<1>6. scope' = scope /\ UNCHANGED <<style, body>>
  BY ONLY <1>1 DEF MakeGlobal
<1>7. Takes(kind, name)
  BY ONLY <1>1, <1>3, <1>5, <1>6, ScopeOK(scope) DEF Takes, Taken
<1>8. values' = Append(values, NamedValue(kind, name, <<>>))
  BY ONLY <1>1 DEF MakeGlobal
<1>9. values \in Seq(ToSet(values))
  BY DEF ValuesInv
<1>10. Added(values, values', NamedValue(kind, name, <<>>))
  BY ONLY <1>8, <1>9, AppendAdds
<1>. QED
  BY ONLY <1>1, <1>6, <1>7, <1>10 DEF Fresh

\* A name of the function that is registered is taken.
LEMMA LocalTakes ==
  ASSUME ScopeOK(scope), NEW name \in Names, NEW r, r = Register(scope, name, TRUE),
         scope' = r.scope, UNCHANGED meta, NEW kind, kind \notin Globals
  PROVE  Takes(kind, r.name)
<1>1. name \in Name /\ TRUE \in BOOLEAN /\ CanRegister(scope, name, TRUE)
  BY NamesAreNames DEF CanRegister
<1>2. /\ ScopeOK(r.scope) /\ r.scope.used = scope.used \cup {r.name}
      /\ r.name \in Name /\ r.name \notin scope.used
  <2>1. PICK s, dedup : s = scope /\ dedup = TRUE
    OBVIOUS
  <2>2. /\ ScopeOK(s) /\ name \in Name /\ dedup \in BOOLEAN /\ CanRegister(s, name, dedup)
        /\ r = Register(s, name, dedup)
    BY ONLY <1>1, <2>1, ScopeOK(scope), r = Register(scope, name, TRUE)
  <2>3. /\ ScopeOK(r.scope) /\ r.scope.used = s.used \cup {r.name}
        /\ r.name \in Name /\ r.name \notin s.used
    BY ONLY <2>2, RegisterFacts
  <2>. QED
    BY ONLY <2>1, <2>3
<1>. QED
  BY ONLY <1>2, scope' = r.scope, UNCHANGED meta, kind \notin Globals DEF Takes, Taken

\* Blocks and instructions have names of the function.
LEMMA MakeFacts ==
  ASSUME ValuesInv, ScopeOK(scope), NEW kind, kind \notin Globals, NEW name \in Names, NEW ops,
         Make(kind, name, ops), UNCHANGED meta
  PROVE  \E n : Fresh(kind, n, ops)
<1>. DEFINE r == Register(scope, name, TRUE)
<1>1. scope' = r.scope /\ values' = Append(values, NamedValue(kind, r.name, ops))
  BY DEF Make
<1>2. Takes(kind, r.name)
  BY ONLY <1>1, ScopeOK(scope), UNCHANGED meta, kind \notin Globals, name \in Names, LocalTakes
<1>. HIDE DEF r
<1>3. values \in Seq(ToSet(values))
  BY DEF ValuesInv
<1>4. Added(values, values', NamedValue(kind, r.name, ops))
  BY ONLY <1>1, <1>3, AppendAdds
<1>. QED
  BY ONLY <1>2, <1>4 DEF Fresh

\* A value that gets another name.
Renaming(v, name) ==
    /\ Kind(v) # "const" /\ (Kind(v) = "block" => style = "free" \/ values[v].ref = NoRef)
    /\ LET r == values[v] IN
       Edited(values, values', v,
              Value(r.kind, name, r.ref, r.text, r.md, r.operands, r.own, r.fixed))
    /\ Takes(Kind(v), name)
    /\ UNCHANGED <<style, body>>

\* Rename does that.
LEMMA RenameFacts ==
  ASSUME MetaInv, ValuesInv, ScopeOK(scope), Rename
  PROVE  \E v, name : Renaming(v, name)
<1>1. PICK v \in DOMAIN values, name \in Names :
        /\ Kind(v) # "const" /\ (Kind(v) = "block" => style = "free" \/ values[v].ref = NoRef)
        /\ LET names == IF IsGlobal(v) THEN meta.scope ELSE scope
               r == Register(names, name, ~IsGlobal(v))
           IN /\ CanRegister(names, name, ~IsGlobal(v))
              /\ values' = [values EXCEPT ![v].name = r.name]
              /\ IF IsGlobal(v) THEN meta' = [meta EXCEPT !.scope = r.scope] /\ UNCHANGED scope
                                ELSE scope' = r.scope /\ UNCHANGED meta
        /\ UNCHANGED <<style, body>>
  BY DEF Rename, SetName, Free
<1>2. values \in Seq(ToSet(values)) /\ v \in 1 .. Len(values) /\ Recorded(values[v])
  <2>1. values \in Seq(ToSet(values))
    BY DEF ValuesInv
  <2>2. v \in 1 .. Len(values)
    BY ONLY <2>1, v \in DOMAIN values, LenProperties
  <2>. QED
    BY ONLY <2>1, <2>2, ValuesInv DEF ValuesInv
<1>3. name \in Name /\ MetaOK(meta)
  BY NamesAreNames DEF MetaInv
<1>4. \E n : values' = [values EXCEPT ![v].name = n] /\ Takes(Kind(v), n)
  <2>1. CASE IsGlobal(v)
    <3>. DEFINE r == Register(meta.scope, name, FALSE)
    <3>1. /\ CanRegister(meta.scope, name, FALSE) /\ values' = [values EXCEPT ![v].name = r.name]
          /\ meta' = [meta EXCEPT !.scope = r.scope] /\ scope' = scope
      BY ONLY <1>1, <2>1
    <3>2. name \notin meta.scope.used
      BY ONLY <3>1 DEF CanRegister, IsUsed
    <3>3. r.name = name
      <4>1. ScopeOK(meta.scope) /\ FALSE \in BOOLEAN
        BY ONLY <1>3 DEF MetaOK
      <4>. QED
        BY ONLY <1>3, <3>1, <3>2, <4>1, RegisterFacts
    <3>4. Named(meta, meta', name)
      BY ONLY <3>1 DEF Named
    <3>5. meta'.scope.used = meta.scope.used \cup {name}
      BY ONLY <1>3, <3>4, NamedFacts, name \in Names
    <3>. HIDE DEF r
    <3>6. Takes(Kind(v), name)
      BY ONLY <1>3, <2>1, <3>1, <3>2, <3>5, ScopeOK(scope) DEF Takes, Taken, IsGlobal
    <3>. QED
      BY ONLY <3>1, <3>3, <3>6
  <2>2. CASE ~IsGlobal(v)
    <3>. DEFINE r == Register(scope, name, TRUE)
    <3>1. /\ values' = [values EXCEPT ![v].name = r.name]
          /\ scope' = r.scope /\ meta' = meta
      BY ONLY <1>1, <2>2
    <3>2. Takes(Kind(v), r.name)
      BY ONLY <2>2, <3>1, ScopeOK(scope), name \in Names, LocalTakes DEF IsGlobal
    <3>. HIDE DEF r
    <3>. QED
      BY ONLY <3>1, <3>2
  <2>. QED
    BY ONLY <2>1, <2>2
<1>5. PICK n : values' = [values EXCEPT ![v].name = n] /\ Takes(Kind(v), n)
  BY ONLY <1>4
<1>. DEFINE r == values[v]
            now == [r EXCEPT !.name = n]
<1>6. values' = [values EXCEPT ![v] = now]
  BY ONLY <1>5
<1>. HIDE DEF now
<1>7. now = Value(r.kind, n, r.ref, r.text, r.md, r.operands, r.own, r.fixed)
  BY ONLY <1>2 DEF now, Recorded, Value
<1>8. Edited(values, values', v, now)
  BY ONLY <1>2, <1>6, v \in DOMAIN values, ExceptEdits
<1>. QED
  BY ONLY <1>1, <1>5, <1>7, <1>8 DEF Renaming

\* Every live value is a value, and an instruction that is live is in the block.
LEMMA LiveFacts ==
  ASSUME ValuesInv
  PROVE  /\ Live \subseteq 1 .. Len(values) /\ DOMAIN values = 1 .. Len(values)
         /\ Len(values) \in Nat /\ Len(body) \in Nat /\ DOMAIN body = 1 .. Len(body)
         /\ \A v \in Live : Kind(v) \in Instructions => v \in ToSet(body)
         /\ \A v \in ToSet(body) : \E k \in 1 .. Len(body) : body[k] = v
         /\ \A k \in 1 .. Len(body) : body[k] \in ToSet(body) /\ body[k] \in 1 .. Len(values)
<1>1. values \in Seq(ToSet(values)) /\ body \in Seq(1 .. Len(values))
  BY DEF ValuesInv
<1>2. /\ DOMAIN values = 1 .. Len(values) /\ Len(values) \in Nat
      /\ Len(body) \in Nat /\ DOMAIN body = 1 .. Len(body)
      /\ \A k \in 1 .. Len(body) : body[k] \in 1 .. Len(values)
  BY ONLY <1>1, LenProperties
<1>. QED
  BY ONLY <1>2 DEF Live, ToSet

\* The operands of a new instruction are values, and the instructions among them are
\* of those it may use.
LEMMA OperandsFacts ==
  ASSUME ValuesInv, NEW kind \in Instructions, NEW S, S \subseteq 1 .. Len(values),
         NEW ops \in Operands(kind, S)
  PROVE  /\ ops \in Seq(1 .. Len(values))
         /\ \A o \in ToSet(ops) : Kind(o) \in Instructions => o \in S
<1>1. \A v \in DataIn(S) : v \in S /\ v \in 1 .. Len(values)
  BY ONLY S \subseteq 1 .. Len(values) DEF DataIn
<1>2. \A v \in Callees \cup Blocks : v \in 1 .. Len(values) /\ Kind(v) \notin Instructions
  BY ONLY ValuesInv, LiveFacts DEF Callees, Blocks, Instructions
<1>. DEFINE Good(s) == /\ s \in Seq(1 .. Len(values))
                       /\ \A o \in ToSet(s) : Kind(o) \in Instructions => o \in S
<1>3. ASSUME NEW v \in DataIn(S) PROVE Good(<<v>>)
  <2>1. <<v>> \in Seq(1 .. Len(values)) /\ ToSet(<<v>>) = {v}
    BY ONLY <1>1, <1>3 DEF ToSet
  <2>. QED
    BY ONLY <1>1, <1>3, <2>1
<1>4. ASSUME NEW f \in Callees, NEW v \in DataIn(S) PROVE Good(<<f, v>>)
  <2>1. <<f, v>> \in Seq(1 .. Len(values)) /\ ToSet(<<f, v>>) = {f, v}
    BY ONLY <1>1, <1>2, <1>4 DEF ToSet
  <2>. QED
    BY ONLY <1>1, <1>2, <1>4, <2>1
<1>5. ASSUME NEW b \in Blocks PROVE Good(<<b>>)
  <2>1. <<b>> \in Seq(1 .. Len(values)) /\ ToSet(<<b>>) = {b}
    BY ONLY <1>2, <1>5 DEF ToSet
  <2>. QED
    BY ONLY <1>2, <1>5, <2>1
<1>6. Good(<<>>)
  BY ONLY TRUE DEF ToSet
<1>. HIDE DEF Good
<1>7. Good(ops)
  <2>1. CASE kind = "plain"
    BY ONLY ops \in Operands(kind, S), <1>3, <2>1 DEF Operands
  <2>2. CASE kind = "gep"
    BY ONLY ops \in Operands(kind, S), <1>3, <2>2 DEF Operands
  <2>3. CASE kind = "call"
    BY ONLY ops \in Operands(kind, S), <1>4, <2>3 DEF Operands
  <2>4. CASE kind = "branch"
    BY ONLY ops \in Operands(kind, S), <1>5, <2>4 DEF Operands
  <2>5. CASE kind = "phi"
    BY ONLY ops \in Operands(kind, S), <1>6, <2>5 DEF Operands
  <2>. QED
    BY ONLY kind \in Instructions, <2>1, <2>2, <2>3, <2>4, <2>5 DEF Instructions
<1>. QED
  BY ONLY <1>7 DEF Good

\* What may happen to a value that is edited: its text has not been written, except
\* under "free"; operands change to others of the kind, or to what is no instruction.
Touch(v, md, ops, own) ==
    LET r == values[v] IN
    /\ md # r.md \/ ops # r.operands \/ own # r.own => style = "free" \/ r.text = NoText
    /\ ops \in Seq(1 .. Len(values)) /\ own \in Seq(1 .. Len(values))
    /\ ops # r.operands => r.kind \in {"variable", "call"}
    /\ r.kind \in Instructions =>
          \A o \in ToSet(ops) : o \in ToSet(r.operands) \/ Kind(o) \notin Instructions
    /\ own # r.own => r.kind = "phi"

Retouching(md, ops, own) ==
    /\ Over(values, values', 0)
    /\ \A v \in 1 .. Len(values) : LET r == values[v] IN
          /\ values'[v] = Value(r.kind, r.name, r.ref, r.text, md[v], ops[v], own[v], r.fixed)
          /\ Touch(v, md[v], ops[v], own[v])
    /\ UNCHANGED <<style, body, scope>> /\ meta.scope.used \subseteq meta'.scope.used

\* A value that is left alone is touched so.
LEMMA LeftAlone ==
  ASSUME ValuesInv, NEW v \in 1 .. Len(values)
  PROVE  Touch(v, values[v].md, values[v].operands, values[v].own)
BY DEF ValuesInv, Touch

\* To edit one value is to edit the values.
LEMMA EditedIsRetouched ==
  ASSUME ValuesInv, NEW v \in 1 .. Len(values), NEW md, NEW ops, NEW own, Touch(v, md, ops, own),
         Edited(values, values', v,
                Value(values[v].kind, values[v].name, values[v].ref, values[v].text, md, ops, own,
                      values[v].fixed)),
         UNCHANGED <<style, body, scope>>, meta.scope.used \subseteq meta'.scope.used
  PROVE  \E mds, opss, owns : Retouching(mds, opss, owns)
<1>. DEFINE mds == [w \in 1 .. Len(values) |-> IF w = v THEN md ELSE values[w].md]
            opss == [w \in 1 .. Len(values) |-> IF w = v THEN ops ELSE values[w].operands]
            owns == [w \in 1 .. Len(values) |-> IF w = v THEN own ELSE values[w].own]
<1>1. Over(values, values', 0)
  BY ONLY Edited(values, values', v,
                 Value(values[v].kind, values[v].name, values[v].ref, values[v].text, md, ops, own,
                       values[v].fixed)) DEF Edited, Over
<1>2. ASSUME NEW w \in 1 .. Len(values)
      PROVE  /\ values'[w] = Value(values[w].kind, values[w].name, values[w].ref, values[w].text,
                                   mds[w], opss[w], owns[w], values[w].fixed)
             /\ Touch(w, mds[w], opss[w], owns[w])
  <2>1. CASE w = v
    <3>1. mds[w] = md /\ opss[w] = ops /\ owns[w] = own
      BY ONLY <1>2, <2>1
    <3>. QED
      BY <2>1, <3>1 DEF Edited
  <2>2. CASE w # v
    <3>1. mds[w] = values[w].md /\ opss[w] = values[w].operands /\ owns[w] = values[w].own
      BY ONLY <1>2, <2>2
    <3>2. values'[w] = values[w]
      BY <1>2, <2>2 DEF Edited
    <3>3. Recorded(values[w])
      BY <1>2 DEF ValuesInv
    <3>4. Touch(w, values[w].md, values[w].operands, values[w].own)
      BY ONLY ValuesInv, <1>2, LeftAlone
    <3>. HIDE DEF mds, opss, owns
    <3>. QED
      BY ONLY <3>1, <3>2, <3>3, <3>4 DEF Recorded
  <2>. QED
    BY ONLY <2>1, <2>2
<1>. HIDE DEF mds, opss, owns
<1>3. Retouching(mds, opss, owns)
  BY ONLY <1>1, <1>2, UNCHANGED <<style, body, scope>>, meta.scope.used \subseteq meta'.scope.used
  DEF Retouching
<1>. QED
  BY ONLY <1>3

\* The initializer of a variable,
LEMMA InitializerFacts ==
  ASSUME ValuesInv, SetInitializer
  PROVE  \E mds, opss, owns : Retouching(mds, opss, owns)
<1>1. PICK v \in DOMAIN values, init \in DOMAIN values :
        /\ Kind(v) = "variable" /\ (style = "free" \/ values[v].text = NoText)
        /\ values' = [values EXCEPT ![v].operands = <<init>>]
        /\ UNCHANGED <<style, body, scope, meta>>
  BY DEF SetInitializer, Unprinted, Free
<1>2. /\ values \in Seq(ToSet(values)) /\ v \in 1 .. Len(values) /\ init \in 1 .. Len(values)
      /\ Recorded(values[v]) /\ values[v].own \in Seq(1 .. Len(values))
  BY <1>1, LiveFacts DEF ValuesInv
<1>. DEFINE r == values[v]
            now == [r EXCEPT !.operands = <<init>>]
<1>3. values' = [values EXCEPT ![v] = now]
  BY ONLY <1>1
<1>. HIDE DEF now
<1>4. now = Value(r.kind, r.name, r.ref, r.text, r.md, <<init>>, r.own, r.fixed)
  BY ONLY <1>2 DEF now, Recorded, Value
<1>5. Edited(values, values', v, now)
  BY ONLY <1>2, <1>3, v \in DOMAIN values, ExceptEdits
<1>6. <<init>> \in Seq(1 .. Len(values))
  BY ONLY <1>2
<1>7. Touch(v, r.md, <<init>>, r.own)
  <2>1. r.kind = "variable" /\ r.kind \notin Instructions
    BY ONLY <1>1 DEF Instructions, Kind
  <2>. QED
    BY ONLY <1>1, <1>2, <1>6, <2>1 DEF Touch
<1>8. PICK ops : ops = <<init>>
  OBVIOUS
<1>9. UNCHANGED <<style, body, scope>> /\ meta.scope.used \subseteq meta'.scope.used
  BY ONLY <1>1
<1>. QED
  BY ONLY ValuesInv, <1>2, <1>4, <1>5, <1>7, <1>8, <1>9, EditedIsRetouched

\* the incoming values of a phi,
LEMMA IncomingFacts ==
  ASSUME ValuesInv, AddIncoming
  PROVE  \E mds, opss, owns : Retouching(mds, opss, owns)
<1>1. PICK v \in ToSet(body), w \in DataIn(Live), b \in Blocks :
        /\ Kind(v) = "phi" /\ (style = "free" \/ values[v].text = NoText)
        /\ values' = [values EXCEPT ![v].own = values[v].own \o <<w, b>>]
        /\ UNCHANGED <<style, body, scope, meta>>
  BY DEF AddIncoming, Unprinted, Free
<1>2. v \in 1 .. Len(values) /\ w \in 1 .. Len(values) /\ b \in 1 .. Len(values)
      /\ v \in DOMAIN values
  <2>1. w \in Live /\ b \in Live
    BY ONLY <1>1 DEF DataIn, Blocks
  <2>. QED
    BY ONLY ValuesInv, <1>1, <2>1, LiveFacts
<1>3. /\ values \in Seq(ToSet(values))
      /\ Recorded(values[v]) /\ values[v].own \in Seq(1 .. Len(values))
      /\ values[v].operands \in Seq(1 .. Len(values))
  BY ONLY ValuesInv, <1>2 DEF ValuesInv
<1>. DEFINE r == values[v]
            own == r.own \o <<w, b>>
            now == [r EXCEPT !.own = own]
<1>4. values' = [values EXCEPT ![v] = now]
  BY ONLY <1>1
<1>5. own \in Seq(1 .. Len(values))
  <2>1. <<w, b>> \in Seq(1 .. Len(values))
    BY ONLY <1>2
  <2>. QED
    BY ONLY <1>3, <2>1, ConcatProperties
<1>. HIDE DEF now, own
<1>6. now = Value(r.kind, r.name, r.ref, r.text, r.md, r.operands, own, r.fixed)
  <2>1. Recorded(r)
    BY ONLY <1>3
  <2>. QED
    BY ONLY <2>1 DEF now, Recorded, Value
<1>7. Edited(values, values', v, now)
  BY ONLY <1>2, <1>3, <1>4, ExceptEdits
<1>8. Touch(v, r.md, r.operands, own)
  <2>1. r.kind = "phi" /\ (style = "free" \/ r.text = NoText)
    BY ONLY <1>1 DEF Kind
  <2>2. r.operands \in Seq(1 .. Len(values)) /\ own \in Seq(1 .. Len(values))
    BY ONLY <1>3, <1>5
  <2>. QED
    BY ONLY <2>1, <2>2 DEF Touch
<1>9. UNCHANGED <<style, body, scope>> /\ meta.scope.used \subseteq meta'.scope.used
  BY ONLY <1>1
<1>. QED
  BY ONLY ValuesInv, <1>2, <1>6, <1>7, <1>8, <1>9, EditedIsRetouched

\* and the metadata of an instruction or a global.
LEMMA AttachFacts ==
  ASSUME MetaInv, ValuesInv, SetMetadata \/ SetWeights
  PROVE  \E mds, opss, owns : Retouching(mds, opss, owns)
<1>1. PICK v, slot, ops :
        /\ v \in DOMAIN values /\ (style = "free" \/ values[v].text = NoText)
        /\ ListsIn(ops) /\ Attach(v, slot, ops)
  <2>1. CASE SetMetadata
    <3>1. PICK v \in ToSet(body) \cup {g \in DOMAIN values : IsGlobal(g)}, ops \in Contents :
             Unprinted(v) /\ Attach(v, "dbg", ops)
      BY ONLY <2>1 DEF SetMetadata
    <3>2. v \in DOMAIN values
      BY ONLY ValuesInv, <3>1, LiveFacts
    <3>. QED
      BY ONLY <3>1, <3>2, ContentsLists DEF Unprinted, Free
  <2>2. CASE SetWeights
    <3>1. PICK v \in ToSet(body) :
             Unprinted(v) /\ Attach(v, "prof", <<String("branch_weights"), Const("1")>>)
      BY ONLY <2>2 DEF SetWeights
    <3>2. v \in DOMAIN values
      BY ONLY ValuesInv, <3>1, LiveFacts
    <3>3. ListsIn(<<String("branch_weights"), Const("1")>>)
      BY ONLY ContentsLists
    <3>4. PICK ops : ops = <<String("branch_weights"), Const("1")>>
      OBVIOUS
    <3>. QED
      BY ONLY <3>1, <3>2, <3>3, <3>4 DEF Unprinted, Free
  <2>. QED
    BY ONLY <2>1, <2>2, SetMetadata \/ SetWeights
<1>2. Extended(meta, meta')
  BY ONLY MetaInv, <1>1, AddMetadataFacts DEF Attach, MetaInv
<1>. DEFINE r == values[v]
<1>3. \E md : values' = [values EXCEPT ![v].md = md]
  BY ONLY <1>1 DEF Attach
<1>4. PICK md : values' = [values EXCEPT ![v].md = md]
  BY ONLY <1>3
<1>5. UNCHANGED <<style, body, scope>>
  BY ONLY <1>1 DEF Attach
<1>6. /\ values \in Seq(ToSet(values)) /\ v \in 1 .. Len(values)
      /\ Recorded(r) /\ r.own \in Seq(1 .. Len(values))
      /\ r.operands \in Seq(1 .. Len(values))
  BY ONLY ValuesInv, <1>1, LiveFacts DEF ValuesInv
<1>. DEFINE now == [r EXCEPT !.md = md]
<1>7. values' = [values EXCEPT ![v] = now]
  BY ONLY <1>4
<1>. HIDE DEF now
<1>8. now = Value(r.kind, r.name, r.ref, r.text, md, r.operands, r.own, r.fixed)
  <2>1. Recorded(r)
    BY ONLY <1>6
  <2>. QED
    BY ONLY <2>1 DEF now, Recorded, Value
<1>9. Edited(values, values', v, now)
  BY ONLY <1>1, <1>6, <1>7, ExceptEdits
<1>10. Touch(v, md, r.operands, r.own)
  BY ONLY <1>1, <1>6 DEF Touch
<1>11. meta.scope.used \subseteq meta'.scope.used
  BY ONLY <1>2 DEF Extended, Grown
<1>. QED
  BY ONLY ValuesInv, <1>5, <1>6, <1>8, <1>9, <1>10, <1>11, EditedIsRetouched

\* A call with another callee has it as an operand, and no other that it had not.
Recalled(r, s, n, callee) ==
    \E ops : /\ s = Value(r.kind, r.name, r.ref, r.text, r.md, ops, r.own, r.fixed)
             /\ ops \in Seq(1 .. n)
             /\ \A o \in ToSet(ops) : o \in ToSet(r.operands) \/ o = callee

\* WithCallee makes it so.
LEMMA CalleeFacts ==
  ASSUME NEW n \in Nat, NEW r, Recorded(r), r.operands \in Seq(1 .. n), NEW callee \in 1 .. n,
         NEW s, s = WithCallee(r, callee)
  PROVE  Recalled(r, s, n, callee)
<1>. DEFINE ops == [r.operands EXCEPT ![1] = callee]
<1>1. s = [r EXCEPT !.operands = ops]
  BY ONLY s = WithCallee(r, callee) DEF WithCallee
<1>2. ops \in Seq(1 .. n) /\ \A o \in ToSet(ops) : o \in ToSet(r.operands) \/ o = callee
  <2>. DEFINE old == r.operands
  <2>1. old \in Seq(1 .. n)
    OBVIOUS
  <2>2. DOMAIN old = 1 .. Len(old) /\ Len(old) \in Nat
    BY ONLY <2>1, LenProperties
  <2>. HIDE DEF old
  <2>3. ops = [old EXCEPT ![1] = callee]
    BY ONLY TRUE DEF old
  <2>. HIDE DEF ops
  <2>4. ops = [k \in 1 .. Len(old) |-> IF k = 1 THEN callee ELSE old[k]]
    BY ONLY <2>2, <2>3
  <2>5. ops \in Seq(1 .. n)
    BY ONLY <2>1, <2>2, <2>4, callee \in 1 .. n
  <2>6. DOMAIN ops = DOMAIN old /\ \A k \in DOMAIN ops : ops[k] = old[k] \/ ops[k] = callee
    BY ONLY <2>2, <2>4
  <2>7. \A o \in ToSet(ops) : o \in ToSet(old) \/ o = callee
    BY ONLY <2>6 DEF ToSet
  <2>. QED
    BY ONLY <2>5, <2>7 DEF old
<1>. HIDE DEF ops
<1>3. s = Value(r.kind, r.name, r.ref, r.text, r.md, ops, r.own, r.fixed)
  BY ONLY <1>1, Recorded(r) DEF Recorded, Value
<1>. QED
  BY ONLY <1>2, <1>3 DEF Recalled

\* A call whose text has not been written gets a function for its callee,
LEMMA CalleeTouch ==
  ASSUME ValuesInv, NEW v \in 1 .. Len(values), Kind(v) = "call",
         style = "free" \/ values[v].text = NoText, NEW callee \in Callees
  PROVE  \E ops : /\ WithCallee(values[v], callee)
                       = Value(values[v].kind, values[v].name, values[v].ref, values[v].text,
                               values[v].md, ops, values[v].own, values[v].fixed)
                  /\ Touch(v, values[v].md, ops, values[v].own)
<1>. DEFINE r == values[v]
            n == Len(values)
<1>1. /\ n \in Nat /\ Recorded(r) /\ r.operands \in Seq(1 .. n) /\ r.own \in Seq(1 .. n)
  BY LiveFacts DEF ValuesInv
<1>2. callee \in 1 .. n /\ Kind(callee) \notin Instructions
  BY LiveFacts DEF Callees, Instructions
<1>. HIDE DEF n
<1>3. PICK ops : /\ WithCallee(r, callee)
                      = Value(r.kind, r.name, r.ref, r.text, r.md, ops, r.own, r.fixed)
                 /\ ops \in Seq(1 .. n)
                 /\ \A o \in ToSet(ops) : o \in ToSet(r.operands) \/ o = callee
  <2>1. PICK s : s = WithCallee(r, callee)
    OBVIOUS
  <2>. HIDE DEF r
  <2>2. Recalled(r, s, n, callee)
    BY ONLY <1>1, <1>2, <2>1, CalleeFacts
  <2>. QED
    BY ONLY <2>1, <2>2 DEF Recalled
<1>4. r.kind = "call"
  BY ONLY Kind(v) = "call" DEF Kind
<1>5. Touch(v, r.md, ops, r.own)
  BY ONLY <1>1, <1>2, <1>3, <1>4, style = "free" \/ values[v].text = NoText DEF Touch, n
<1>. QED
  BY ONLY <1>3, <1>5

\* by itself,
LEMMA ReplaceCalleeFacts ==
  ASSUME ValuesInv, ReplaceCallee
  PROVE  \E mds, opss, owns : Retouching(mds, opss, owns)
<1>1. PICK v \in ToSet(body), callee \in Callees :
        /\ Kind(v) = "call" /\ (style = "free" \/ values[v].text = NoText)
        /\ values' = [values EXCEPT ![v] = WithCallee(values[v], callee)]
        /\ UNCHANGED <<style, body, scope, meta>>
  BY DEF ReplaceCallee, Unprinted, Free
<1>2. v \in 1 .. Len(values) /\ v \in DOMAIN values /\ values \in Seq(ToSet(values))
  BY <1>1, LiveFacts DEF ValuesInv
<1>. DEFINE r == values[v]
            now == WithCallee(r, callee)
<1>3. PICK ops : /\ now = Value(r.kind, r.name, r.ref, r.text, r.md, ops, r.own, r.fixed)
                 /\ Touch(v, r.md, ops, r.own)
  BY ONLY ValuesInv, <1>1, <1>2, CalleeTouch
<1>4. values' = [values EXCEPT ![v] = now]
  BY ONLY <1>1
<1>. HIDE DEF now
<1>5. Edited(values, values', v, now)
  BY ONLY <1>2, <1>4, ExceptEdits
<1>6. UNCHANGED <<style, body, scope>> /\ meta.scope.used \subseteq meta'.scope.used
  BY ONLY <1>1
<1>. QED
  BY ONLY ValuesInv, <1>2, <1>3, <1>5, <1>6, EditedIsRetouched

\* or with other calls.
LEMMA ReplaceAllCallsFacts ==
  ASSUME ValuesInv, ReplaceAllCalls
  PROVE  \E mds, opss, owns : Retouching(mds, opss, owns)
<1>1. PICK repl, C :
        /\ repl \in Callees
        /\ \A v \in C : /\ v \in ToSet(body) /\ Kind(v) = "call"
                        /\ (style = "free" \/ values[v].text = NoText)
        /\ values' = [v \in DOMAIN values |->
                          IF v \in C THEN WithCallee(values[v], repl) ELSE values[v]]
        /\ UNCHANGED <<style, body, scope, meta>>
  <2>1. PICK orig \in Callees, repl \in Callees :
          LET calls == {k \in DOMAIN body : /\ Kind(body[k]) = "call"
                                            /\ values[body[k]].operands[1] = orig}
              changed == {k \in calls : \A j \in calls : j <= k => ~values[body[j]].fixed}
          IN /\ \A k \in changed : Unprinted(body[k])
             /\ values' = [v \in DOMAIN values |->
                               IF \E k \in changed : body[k] = v THEN WithCallee(values[v], repl)
                               ELSE values[v]]
             /\ UNCHANGED <<style, body, scope, meta, promised>>
    BY DEF ReplaceAllCalls
  <2>. DEFINE calls == {k \in DOMAIN body : /\ Kind(body[k]) = "call"
                                            /\ values[body[k]].operands[1] = orig}
              changed == {k \in calls : \A j \in calls : j <= k => ~values[body[j]].fixed}
              C == {v \in ToSet(body) : \E k \in changed : body[k] = v}
  <2>2. /\ \A k \in changed : Unprinted(body[k])
        /\ values' = [v \in DOMAIN values |->
                          IF \E k \in changed : body[k] = v THEN WithCallee(values[v], repl)
                          ELSE values[v]]
        /\ UNCHANGED <<style, body, scope, meta>>
    BY ONLY <2>1
  <2>3. \A k \in changed : k \in DOMAIN body /\ Kind(body[k]) = "call"
    OBVIOUS
  <2>. HIDE DEF calls, changed
  <2>4. \A v : v \in C <=> \E k \in changed : body[k] = v
    BY ONLY <2>3 DEF ToSet
  <2>5. \A v \in C : /\ v \in ToSet(body) /\ Kind(v) = "call"
                     /\ (style = "free" \/ values[v].text = NoText)
    BY ONLY <2>2, <2>3 DEF Unprinted, Free
  <2>. HIDE DEF C
  <2>6. values' = [v \in DOMAIN values |->
                       IF v \in C THEN WithCallee(values[v], repl) ELSE values[v]]
    BY ONLY <2>2, <2>4
  <2>. QED
    BY ONLY <2>2, <2>5, <2>6
<1>2. /\ values \in Seq(ToSet(values)) /\ Len(values) \in Nat /\ DOMAIN values = 1 .. Len(values)
      /\ \A v \in C : v \in 1 .. Len(values)
  BY <1>1, LiveFacts DEF ValuesInv
<1>. DEFINE mds == [v \in 1 .. Len(values) |-> values[v].md]
            opss == [v \in 1 .. Len(values) |-> values'[v].operands]
            owns == [v \in 1 .. Len(values) |-> values[v].own]
<1>3. ASSUME NEW v \in 1 .. Len(values)
      PROVE  /\ values'[v] = Value(values[v].kind, values[v].name, values[v].ref, values[v].text,
                                   mds[v], opss[v], owns[v], values[v].fixed)
             /\ Touch(v, mds[v], opss[v], owns[v])
  <2>. DEFINE r == values[v]
              s == values'[v]
  <2>1. mds[v] = r.md /\ opss[v] = s.operands /\ owns[v] = r.own
    BY ONLY <1>3
  <2>. HIDE DEF mds, opss, owns
  <2>2. s = IF v \in C THEN WithCallee(r, repl) ELSE r
    BY ONLY <1>1, <1>2, <1>3
  <2>3. \E ops : /\ s = Value(r.kind, r.name, r.ref, r.text, r.md, ops, r.own, r.fixed)
                 /\ Touch(v, r.md, ops, r.own)
    <3>1. CASE v \in C
      <4>1. \E ops : /\ WithCallee(r, repl)
                          = Value(r.kind, r.name, r.ref, r.text, r.md, ops, r.own, r.fixed)
                     /\ Touch(v, r.md, ops, r.own)
        BY ONLY ValuesInv, <1>1, <1>3, <3>1, CalleeTouch
      <4>2. s = WithCallee(r, repl)
        BY ONLY <2>2, <3>1
      <4>. QED
        BY ONLY <4>1, <4>2
    <3>2. CASE v \notin C
      <4>1. Recorded(r) /\ s = r
        BY ONLY ValuesInv, <1>3, <2>2, <3>2 DEF ValuesInv
      <4>2. s = Value(r.kind, r.name, r.ref, r.text, r.md, r.operands, r.own, r.fixed)
        BY ONLY <4>1 DEF Recorded
      <4>3. Touch(v, r.md, r.operands, r.own)
        BY ONLY ValuesInv, <1>3, LeftAlone
      <4>. QED
        BY ONLY <4>2, <4>3
    <3>. QED
      BY ONLY <3>1, <3>2
  <2>4. PICK ops : /\ s = Value(r.kind, r.name, r.ref, r.text, r.md, ops, r.own, r.fixed)
                   /\ Touch(v, r.md, ops, r.own)
    BY ONLY <2>3
  <2>. HIDE DEF r, s
  <2>5. s.operands = ops
    BY ONLY <2>4 DEF Value
  <2>. QED
    BY ONLY <2>1, <2>4, <2>5 DEF r, s
<1>. HIDE DEF mds, opss, owns
<1>4. Over(values, values', 0)
  <2>1. DOMAIN values' = 1 .. Len(values) /\ values' = [v \in 1 .. Len(values) |-> values'[v]]
    BY ONLY <1>1, <1>2
  <2>2. \A v \in 1 .. Len(values) : values'[v] \in ToSet(values')
    BY ONLY <2>1 DEF ToSet
  <2>3. values' \in Seq(ToSet(values')) /\ Len(values') = Len(values)
    BY ONLY <1>2, <2>1, <2>2
  <2>. QED
    BY ONLY <1>2, <2>3 DEF Over
<1>5. UNCHANGED <<style, body, scope>> /\ meta.scope.used \subseteq meta'.scope.used
  BY ONLY <1>1
<1>6. Retouching(mds, opss, owns)
  BY ONLY <1>3, <1>4, <1>5 DEF Retouching
<1>. QED
  BY ONLY <1>6

\* What replace_usage does to a value: the operands that were old are new, and a text
\* that was written from them is forgotten, unless it is a phi.
IsPatched(r, s, old, new) ==
    \E text, ops, own, fixed :
        /\ s = Value(r.kind, r.name, r.ref, text, r.md, ops, own, fixed)
        /\ ops = IF r.kind = "phi" THEN r.operands ELSE Substituted(r.operands, old, new)
        /\ own = IF r.kind = "phi" THEN Substituted(r.own, old, new) ELSE r.own
        /\ text = IF r.kind # "phi" /\ old \in ToSet(r.operands) THEN NoText ELSE r.text

\* Patched, of an instruction, is that.
LEMMA PatchedFacts ==
  ASSUME NEW r, Recorded(r), r.operands \in Seq(ToSet(r.operands)), NEW old, NEW new,
         NEW s, s = Patched(r, old, new)
  PROVE  IsPatched(r, s, old, new)
<1>. DEFINE ops == Substituted(r.operands, old, new)
            own == Substituted(r.own, old, new)
<1>1. CASE r.kind = "phi"
  <2>1. s = [r EXCEPT !.own = own]
    BY ONLY <1>1, s = Patched(r, old, new) DEF Patched
  <2>. HIDE DEF ops, own
  <2>2. s = Value(r.kind, r.name, r.ref, r.text, r.md, r.operands, own, r.fixed)
    BY ONLY <2>1, Recorded(r) DEF Recorded, Value
  <2>. QED
    BY ONLY <1>1, <2>2 DEF IsPatched, own
<1>2. CASE r.kind # "phi" /\ \E k \in DOMAIN r.operands : r.operands[k] = old
  <2>1. s = [r EXCEPT !.operands = ops, !.fixed = TRUE, !.text = NoText]
    BY ONLY <1>2, s = Patched(r, old, new) DEF Patched
  <2>. HIDE DEF ops, own
  <2>2. s = Value(r.kind, r.name, r.ref, NoText, r.md, ops, r.own, TRUE)
    BY ONLY <2>1, Recorded(r) DEF Recorded, Value
  <2>3. old \in ToSet(r.operands)
    BY ONLY <1>2 DEF ToSet
  <2>. QED
    BY ONLY <1>2, <2>2, <2>3 DEF IsPatched, ops
<1>3. CASE r.kind # "phi" /\ ~ \E k \in DOMAIN r.operands : r.operands[k] = old
  <2>1. s = r
    BY ONLY <1>3, s = Patched(r, old, new) DEF Patched
  <2>2. s = Value(r.kind, r.name, r.ref, r.text, r.md, r.operands, r.own, r.fixed)
    BY ONLY <2>1, Recorded(r) DEF Recorded
  <2>3. old \notin ToSet(r.operands)
    BY ONLY <1>3 DEF ToSet
  <2>4. ops = r.operands
    <3>. DEFINE old_ops == r.operands
    <3>1. DOMAIN old_ops = 1 .. Len(old_ops) /\ old_ops = [k \in 1 .. Len(old_ops) |-> old_ops[k]]
      BY ONLY r.operands \in Seq(ToSet(r.operands)), LenProperties
    <3>2. \A k \in 1 .. Len(old_ops) : old_ops[k] # old
      BY ONLY <1>3, <3>1
    <3>. HIDE DEF old_ops
    <3>3. Substituted(old_ops, old, new) = old_ops
      BY ONLY <3>1, <3>2 DEF Substituted
    <3>. QED
      BY ONLY <3>3 DEF old_ops
  <2>. HIDE DEF ops
  <2>. QED
    BY ONLY <1>3, <2>2, <2>3, <2>4 DEF IsPatched, ops
<1>. QED
  BY ONLY <1>1, <1>2, <1>3

\* An instruction at its place in the block instead of another, that uses values before it.
Replacing(p, kind, name, ops) ==
    LET old == body[p] IN
    /\ p \in 1 .. Len(body) /\ kind \in {"plain", "call"}
    /\ Over(values, values', 1) /\ values'[Len(values) + 1] = NamedValue(kind, name, ops)
    /\ \A v \in 1 .. Len(values) :
          IF v \in ToSet(body) \ {old} THEN IsPatched(values[v], values'[v], old, Len(values) + 1)
          ELSE values'[v] = values[v]
    /\ Edited(body, body', p, Len(values) + 1)
    /\ Takes(kind, name)
    /\ ops \in Seq(1 .. Len(values))
    /\ \A o \in ToSet(ops) : Kind(o) \in Instructions => \E j \in 1 .. p - 1 : body[j] = o
    /\ style = "free" \/ Patchable(old)
    /\ style' = style

\* Block.replace does that.
LEMMA ReplaceFacts ==
  ASSUME ValuesInv, ScopeOK(scope), Replace
  PROVE  \E p, kind, name, ops : Replacing(p, kind, name, ops)
<1>1. PICK p \in DOMAIN body, kind \in {"plain", "call"} :
        LET old == body[p]
            before == (Live \ ToSet(body)) \cup {body[j] : j \in 1 .. p - 1}
        IN /\ Kind(old) # "branch" /\ (Free \/ Patchable(old))
           /\ \E name \in NamesOf[kind], ops \in Operands(kind, before) :
                LET r == Register(scope, name, TRUE)
                IN /\ scope' = r.scope
                   /\ body' = PutInPlace(p, NewId)
                   /\ values' = [v \in 1 .. NewId |->
                         IF v = NewId THEN NamedValue(kind, r.name, ops)
                         ELSE IF v \in ToSet(body) \ {old} THEN Patched(values[v], old, NewId)
                         ELSE values[v]]
           /\ UNCHANGED <<style, meta, promised>>
  BY DEF Replace
<1>. DEFINE old == body[p]
            before == (Live \ ToSet(body)) \cup {body[j] : j \in 1 .. p - 1}
<1>2. PICK name \in NamesOf[kind], ops \in Operands(kind, before) :
        LET r == Register(scope, name, TRUE)
        IN /\ scope' = r.scope
           /\ body' = PutInPlace(p, NewId)
           /\ values' = [v \in 1 .. NewId |->
                 IF v = NewId THEN NamedValue(kind, r.name, ops)
                 ELSE IF v \in ToSet(body) \ {old} THEN Patched(values[v], old, NewId)
                 ELSE values[v]]
  BY ONLY <1>1
<1>. DEFINE r == Register(scope, name, TRUE)
            n == Len(values)
<1>3. /\ scope' = r.scope /\ body' = [body EXCEPT ![p] = n + 1]
      /\ values' = [v \in 1 .. n + 1 |->
                       IF v = n + 1 THEN NamedValue(kind, r.name, ops)
                       ELSE IF v \in ToSet(body) \ {old} THEN Patched(values[v], old, n + 1)
                       ELSE values[v]]
      /\ UNCHANGED <<style, meta>>
  BY ONLY <1>1, <1>2 DEF PutInPlace, ReplaceAt, NewId
<1>4. kind \in Instructions /\ kind \notin Globals /\ name \in Names
  <2>1. kind \in Instructions /\ kind \notin Globals /\ kind \in {"plain", "gep", "phi", "call", "branch"}
    BY ONLY <1>1 DEF Instructions, Globals
  <2>. QED
    BY ONLY <1>2, <2>1, TextAssumption
<1>5. Takes(kind, r.name)
  BY ONLY <1>3, <1>4, ScopeOK(scope), LocalTakes
<1>6. /\ n \in Nat /\ p \in 1 .. Len(body) /\ values \in Seq(ToSet(values))
      /\ body \in Seq(ToSet(body)) /\ before \subseteq 1 .. n
      /\ \A o \in before : Kind(o) \in Instructions => \E j \in 1 .. p - 1 : body[j] = o
  <2>1. /\ n \in Nat /\ p \in 1 .. Len(body) /\ DOMAIN body = 1 .. Len(body)
        /\ \A k \in 1 .. Len(body) : body[k] \in 1 .. n
        /\ Live \subseteq 1 .. n /\ Len(body) \in Nat
        /\ \A v \in Live : Kind(v) \in Instructions => v \in ToSet(body)
    BY ONLY ValuesInv, <1>1, LiveFacts
  <2>2. values \in Seq(ToSet(values)) /\ body \in Seq(1 .. n)
    BY ONLY ValuesInv DEF ValuesInv
  <2>. HIDE DEF n
  <2>3. body \in Seq(ToSet(body))
    BY ONLY <2>2 DEF ToSet
  <2>4. \A j \in 1 .. p - 1 : j \in 1 .. Len(body)
    BY ONLY <2>1
  <2>5. before \subseteq 1 .. n
    BY ONLY <2>1, <2>4
  <2>6. \A o \in before : Kind(o) \in Instructions => \E j \in 1 .. p - 1 : body[j] = o
    BY ONLY <2>1
  <2>. QED
    BY ONLY <2>1, <2>2, <2>3, <2>5, <2>6 DEF n
<1>. HIDE DEF before, r
<1>7. /\ ops \in Seq(1 .. n)
      /\ \A o \in ToSet(ops) : Kind(o) \in Instructions => \E j \in 1 .. p - 1 : body[j] = o
  BY ONLY ValuesInv, <1>2, <1>4, <1>6, OperandsFacts
<1>8. Edited(body, body', p, n + 1)
  BY ONLY <1>1, <1>3, <1>6, ExceptEdits
<1>9. Over(values, values', 1)
  <2>1. DOMAIN values' = 1 .. n + 1 /\ values' = [v \in 1 .. n + 1 |-> values'[v]] /\ n + 1 \in Nat
    BY ONLY <1>3, <1>6
  <2>2. \A v \in 1 .. n + 1 : values'[v] \in ToSet(values')
    BY ONLY <2>1 DEF ToSet
  <2>. HIDE DEF n
  <2>3. values' \in Seq(ToSet(values')) /\ Len(values') = n + 1
    BY ONLY <2>1, <2>2
  <2>. QED
    BY ONLY <1>6, <2>3 DEF Over, n
<1>10. ASSUME NEW v \in 1 .. n
       PROVE  IF v \in ToSet(body) \ {old} THEN IsPatched(values[v], values'[v], old, n + 1)
              ELSE values'[v] = values[v]
  <2>1. v # n + 1 /\ v \in 1 .. n + 1
    BY ONLY <1>6, <1>10
  <2>2. values'[v] = IF v \in ToSet(body) \ {old} THEN Patched(values[v], old, n + 1) ELSE values[v]
    BY ONLY <1>3, <2>1
  <2>3. Recorded(values[v]) /\ values[v].operands \in Seq(ToSet(values[v].operands))
    <3>1. Recorded(values[v]) /\ values[v].operands \in Seq(1 .. n)
      BY ONLY ValuesInv, <1>10 DEF ValuesInv
    <3>2. PICK s : s = values[v].operands
      OBVIOUS
    <3>3. s \in Seq(1 .. n)
      BY ONLY <3>1, <3>2
    <3>4. s \in Seq(ToSet(s))
      BY ONLY <3>3 DEF ToSet
    <3>. QED
      BY ONLY <3>1, <3>2, <3>4
  <2>. QED
    BY ONLY <2>2, <2>3, PatchedFacts
<1>11. values'[n + 1] = NamedValue(kind, r.name, ops)
  BY ONLY <1>3, <1>6
<1>12. style = "free" \/ Patchable(old)
  BY ONLY <1>1 DEF Free
<1>13. Replacing(p, kind, r.name, ops)
  BY ONLY <1>1, <1>3, <1>5, <1>6, <1>7, <1>8, <1>9, <1>10, <1>11, <1>12 DEF Replacing
<1>. QED
  BY ONLY <1>13

\* An instruction that is put at the end of the block, and uses what is in it.
Emitting(kind, name, ops) ==
    /\ Fresh(kind, name, ops) /\ Added(body, body', Len(values) + 1)
    /\ ops \in Seq(1 .. Len(values))
    /\ \A o \in ToSet(ops) : Kind(o) \in Instructions => o \in ToSet(body)
    /\ kind = "phi" => ops = <<>>
    /\ style' = style

\* Emit does that.
LEMMA EmitFacts ==
  ASSUME ValuesInv, ScopeOK(scope), NEW kind \in Instructions, Emit(kind)
  PROVE  \E name, ops : Emitting(kind, name, ops)
<1>1. PICK name \in NamesOf[kind], ops \in Operands(kind, Live) : Make(kind, name, ops)
  BY DEF Emit
<1>2. body' = Append(body, Len(values) + 1) /\ UNCHANGED <<style, meta>>
  BY DEF Emit, NewId
<1>3. kind \notin Globals /\ name \in Names
  <2>1. kind \notin Globals /\ kind \in {"plain", "gep", "phi", "call", "branch"}
    BY ONLY kind \in Instructions DEF Instructions, Globals
  <2>. QED
    BY ONLY <1>1, <2>1, TextAssumption
<1>4. PICK n : Fresh(kind, n, ops)
  BY ONLY ValuesInv, ScopeOK(scope), <1>1, <1>2, <1>3, MakeFacts
<1>5. /\ Live \subseteq 1 .. Len(values)
      /\ \A v \in Live : Kind(v) \in Instructions => v \in ToSet(body)
  BY ONLY ValuesInv, LiveFacts
<1>6. /\ ops \in Seq(1 .. Len(values))
      /\ \A o \in ToSet(ops) : Kind(o) \in Instructions => o \in Live
      /\ kind = "phi" => ops = <<>>
  <2>1. /\ ops \in Seq(1 .. Len(values))
        /\ \A o \in ToSet(ops) : Kind(o) \in Instructions => o \in Live
    BY ONLY ValuesInv, kind \in Instructions, <1>1, <1>5, OperandsFacts
  <2>2. kind = "phi" => ops = <<>>
    BY ONLY <1>1 DEF Operands
  <2>. QED
    BY ONLY <2>1, <2>2
<1>7. body \in Seq(ToSet(body))
  <2>1. body \in Seq(1 .. Len(values))
    BY ONLY ValuesInv DEF ValuesInv
  <2>. QED
    BY ONLY <2>1 DEF ToSet
<1>8. Added(body, body', Len(values) + 1)
  BY ONLY <1>2, <1>7, AppendAdds
<1>9. Emitting(kind, n, ops)
  BY ONLY <1>2, <1>4, <1>5, <1>6, <1>8 DEF Emitting
<1>. QED
  BY ONLY <1>9

\* The steps, by what they do to the values.
ValueStep ==
    \/ UNCHANGED <<style, values, body, scope>> /\ meta.scope.used \subseteq meta'.scope.used
    \/ \E kind \in Globals \cup {"block"} : \E name :
          Fresh(kind, name, <<>>) /\ UNCHANGED <<style, body>>
    \/ \E kind \in Instructions : \E name, ops : Emitting(kind, name, ops)
    \/ \E g : Constant(g)
    \/ \E texts, refs : Showing(texts, refs)
    \/ \E v, name : Renaming(v, name)
    \/ \E mds, opss, owns : Retouching(mds, opss, owns)
    \/ \E p, kind, name, ops : Replacing(p, kind, name, ops)

\* No name of the module is given back.
LEMMA GlobalNamesStay ==
  ASSUME MetaInv, [Next]_vars
  PROVE  meta.scope.used \subseteq meta'.scope.used
<1>1. MetaOK(meta) /\ PromisesNamed /\ MetaStep
  BY MetaSteps DEF MetaInv
<1>2. ASSUME NEW name, name \in Names \/ \E k \in DOMAIN promised : name = promised[k],
             Named(meta, meta', name)
      PROVE  meta.scope.used \subseteq meta'.scope.used
  <2>1. name \in Name
    <3>1. CASE name \in Names
      BY ONLY <3>1, NamesAreNames
    <3>2. ASSUME NEW k \in DOMAIN promised, name = promised[k]
          PROVE  name \in Name
      <4>1. k \in 1 .. Len(promised) /\ promised \in Seq(Name)
        BY ONLY <1>1, <3>2, LenProperties DEF PromisesNamed
      <4>. QED
        BY ONLY <1>1, <3>2, <4>1 DEF PromisesNamed
    <3>. QED
      BY ONLY <1>2, <3>1, <3>2
  <2>2. meta'.scope.used = meta.scope.used \cup {name}
    BY ONLY <1>1, <1>2, <2>1, NamedFacts
  <2>. QED
    BY ONLY <2>2
<1>3. ASSUME NEW hint \in Names, NEW name, Promise(meta, meta', hint, name)
      PROVE  meta.scope.used \subseteq meta'.scope.used
  <2>1. hint \in Name
    BY ONLY <1>3, NamesAreNames
  <2>2. meta'.scope.used = meta.scope.used
    BY ONLY <1>1, <1>3, <2>1, PromiseFacts
  <2>. QED
    BY ONLY <2>2
<1>. QED
  BY ONLY <1>1, <1>2, <1>3 DEF MetaStep, Extended, Grown

\* Every step is one of them.
LEMMA ValueSteps ==
  ASSUME MetaInv, ValuesInv, ScopeOK(scope), [Next]_vars
  PROVE  ValueStep
<1>1. meta.scope.used \subseteq meta'.scope.used
  BY ONLY MetaInv, [Next]_vars, GlobalNamesStay
<1>2. CASE AddGlobal \/ AddPromisedGlobal
  <2>1. PICK kind, name : kind \in Globals /\ Fresh(kind, name, <<>>) /\ UNCHANGED <<style, body>>
    BY ONLY MetaInv, ValuesInv, ScopeOK(scope), <1>2, GlobalFacts
  <2>. QED
    BY ONLY <2>1 DEF ValueStep
<1>3. CASE AddConstant
  <2>1. \E g : Constant(g)
    BY ONLY ValuesInv, <1>3, ConstantFacts
  <2>. QED
    BY ONLY <2>1 DEF ValueStep
<1>4. CASE AppendBlock
  <2>1. PICK kind, ops : kind = "block" /\ ops = <<>>
    OBVIOUS
  <2>2. PICK name \in Names : Make(kind, name, ops) /\ UNCHANGED <<style, body, meta>>
    BY ONLY <1>4, <2>1 DEF AppendBlock
  <2>3. kind \notin Globals
    BY ONLY <2>1 DEF Globals
  <2>4. \E n : Fresh(kind, n, ops)
    BY ONLY ValuesInv, ScopeOK(scope), <2>2, <2>3, MakeFacts
  <2>. QED
    BY ONLY <2>1, <2>2, <2>4 DEF ValueStep
<1>5. ASSUME NEW kind \in Instructions, Emit(kind) PROVE ValueStep
  <2>1. \E name, ops : Emitting(kind, name, ops)
    BY ONLY ValuesInv, ScopeOK(scope), <1>5, EmitFacts
  <2>. QED
    BY ONLY <1>5, <2>1 DEF ValueStep
<1>6. CASE Replace
  <2>1. \E p, kind, name, ops : Replacing(p, kind, name, ops)
    BY ONLY ValuesInv, ScopeOK(scope), <1>6, ReplaceFacts
  <2>. QED
    BY ONLY <2>1 DEF ValueStep
<1>7. CASE SetMetadata \/ SetWeights \/ SetInitializer \/ AddIncoming \/ ReplaceCallee \/ ReplaceAllCalls
  <2>1. \E mds, opss, owns : Retouching(mds, opss, owns)
    BY ONLY MetaInv, ValuesInv, <1>7, AttachFacts, InitializerFacts, IncomingFacts,
            ReplaceCalleeFacts, ReplaceAllCallsFacts
  <2>. QED
    BY ONLY <2>1 DEF ValueStep
<1>8. CASE AskMetadata \/ AskDebugInfo \/ AskNamed \/ GetUniqueName \/ UNCHANGED vars
  <2>1. UNCHANGED <<style, values, body, scope>>
    BY ONLY <1>8 DEF AskMetadata, AskDebugInfo, AskNamed, GetUniqueName, vars
  <2>. QED
    BY ONLY <1>1, <2>1 DEF ValueStep
<1>9. CASE Show
  <2>1. \E texts, refs : Showing(texts, refs)
    BY ONLY ValuesInv, <1>9, ShowFacts
  <2>. QED
    BY ONLY <2>1 DEF ValueStep
<1>10. CASE Rename
  <2>1. \E v, name : Renaming(v, name)
    BY ONLY MetaInv, ValuesInv, ScopeOK(scope), <1>10, RenameFacts
  <2>. QED
    BY ONLY <2>1 DEF ValueStep
<1>. QED
  BY ONLY [Next]_vars, <1>2, <1>3, <1>4, <1>5, <1>6, <1>7, <1>8, <1>9, <1>10
  DEF Next, Making, Editing, Asking

\* A value whose operands are among the first n.
Good(r, n) ==
    /\ Recorded(r) /\ r.kind \in Kinds /\ r.name \in Name
    /\ r.operands \in Seq(1 .. n) /\ r.own \in Seq(1 .. n)

\* What is a sequence of the first n is one of the first m.
LEMMA WiderSeq ==
  ASSUME NEW n \in Nat, NEW m \in Nat, n <= m
  PROVE  \A s \in Seq(1 .. n) : s \in Seq(1 .. m)
<1>1. 1 .. n \subseteq 1 .. m
  BY ONLY n \in Nat, m \in Nat, n <= m
<1>. QED
  BY ONLY <1>1

\* It is good when there are more,
LEMMA GoodMore ==
  ASSUME NEW r, NEW n \in Nat, NEW m \in Nat, n <= m, Good(r, n)
  PROVE  Good(r, m)
<1>1. \A s \in Seq(1 .. n) : s \in Seq(1 .. m)
  BY ONLY n \in Nat, m \in Nat, n <= m, WiderSeq
<1>. QED
  BY ONLY <1>1, Good(r, n) DEF Good

\* and these are good.
LEMMA GoodValue ==
  ASSUME NEW kind \in Kinds, NEW name \in Name, NEW ref, NEW text, NEW md, NEW n,
         NEW ops \in Seq(1 .. n), NEW own \in Seq(1 .. n), NEW fixed
  PROVE  Good(Value(kind, name, ref, text, md, ops, own, fixed), n)
<1>. DEFINE r == Value(kind, name, ref, text, md, ops, own, fixed)
<1>1. /\ r.kind = kind /\ r.name = name /\ r.operands = ops /\ r.own = own /\ Recorded(r)
  BY ONLY TRUE DEF Value, Recorded
<1>. HIDE DEF r
<1>2. Good(r, n)
  BY ONLY <1>1, kind \in Kinds, name \in Name, ops \in Seq(1 .. n), own \in Seq(1 .. n) DEF Good
<1>. QED
  BY ONLY <1>2 DEF r

\* The invariant of the values, said of the next state by the values and the block.
LEMMA ValuesAreGood ==
  ASSUME ValuesInv
  PROVE  \A v \in 1 .. Len(values) : Good(values[v], Len(values))
BY DEF ValuesInv, Good, Kind

\* Values that are good and a block of instructions that are there once each.
LEMMA GoodValues ==
  ASSUME NEW extra, Over(values, values', extra),
         \A v \in 1 .. Len(values') : Good(values'[v], Len(values')),
         body' \in Seq(1 .. Len(values')),
         \A k \in 1 .. Len(body') : values'[body'[k]].kind \in Instructions,
         \A j, k \in 1 .. Len(body') : body'[j] = body'[k] => j = k
  PROVE  ValuesInv'
BY DEF ValuesInv, Good, Kind, Over

\* The block of the values that were, when it is not changed.
LEMMA BlockStays ==
  ASSUME ValuesInv, NEW extra \in {0, 1}, Over(values, values', extra), body' = body,
         \A v \in 1 .. Len(values') : Good(values'[v], Len(values')),
         \A v \in 1 .. Len(values) : values'[v].kind = values[v].kind
  PROVE  ValuesInv'
<1>1. /\ body \in Seq(1 .. Len(values)) /\ \A k \in 1 .. Len(body) : Kind(body[k]) \in Instructions
      /\ \A j, k \in 1 .. Len(body) : body[j] = body[k] => j = k
  BY ONLY ValuesInv DEF ValuesInv
<1>2. Len(values) \in Nat /\ Len(values') = Len(values) + extra
  BY ONLY Over(values, values', extra) DEF Over
<1>3. \A k \in 1 .. Len(body) : body[k] \in 1 .. Len(values)
  BY ONLY <1>1
<1>4. body' \in Seq(1 .. Len(values'))
  <2>1. PICK m \in Nat : m = Len(values') /\ Len(values) <= m
    BY ONLY <1>2, extra \in {0, 1}
  <2>2. \A s \in Seq(1 .. Len(values)) : s \in Seq(1 .. m)
    BY ONLY <1>2, <2>1, WiderSeq
  <2>. QED
    BY ONLY <1>1, <2>1, <2>2, body' = body
<1>5. \A k \in 1 .. Len(body') : values'[body'[k]].kind \in Instructions
  BY ONLY <1>1, <1>3, body' = body, \A v \in 1 .. Len(values) : values'[v].kind = values[v].kind DEF Kind
<1>6. \A j, k \in 1 .. Len(body') : body'[j] = body'[k] => j = k
  BY ONLY <1>1, body' = body
<1>. QED
  BY ONLY <1>4, <1>5, <1>6, Over(values, values', extra),
     \A v \in 1 .. Len(values') : Good(values'[v], Len(values')), GoodValues

\* A value of a kind the code makes, and made with good operands, is good.
LEMMA GoodNew ==
  ASSUME NEW kind \in Kinds, NEW name \in Name, NEW n, NEW ops \in Seq(1 .. n)
  PROVE  Good(NamedValue(kind, name, ops), n) /\ NamedValue(kind, name, ops).kind = kind
<1>. DEFINE own == IF kind = "gep" THEN ops ELSE <<>>
<1>1. NamedValue(kind, name, ops) = Value(kind, name, NoRef, NoText, {}, ops, own, FALSE)
  BY ONLY NamedValueIs
<1>2. own \in Seq(1 .. n)
  <2>1. <<>> \in Seq(1 .. n)
    OBVIOUS
  <2>. QED
    BY ONLY ops \in Seq(1 .. n), <2>1
<1>. HIDE DEF own
<1>3. Good(NamedValue(kind, name, ops), n)
  BY ONLY <1>1, <1>2, kind \in Kinds, name \in Name, ops \in Seq(1 .. n), GoodValue
<1>. QED
  BY ONLY <1>1, <1>3 DEF Value

\* Of one that was good in n, and one that is made, all are good in n + 1.
LEMMA AddedAreGood ==
  ASSUME ValuesInv, NEW kind \in Kinds, NEW name \in Name, NEW ops \in Seq(1 .. Len(values)),
         Added(values, values', NamedValue(kind, name, ops))
  PROVE  /\ Over(values, values', 1)
         /\ \A v \in 1 .. Len(values') : Good(values'[v], Len(values'))
         /\ \A v \in 1 .. Len(values) : values'[v] = values[v]
         /\ values'[Len(values) + 1].kind = kind
<1>1. PICK n : n = Len(values)
  OBVIOUS
<1>2. PICK r : r = NamedValue(kind, name, ops)
  OBVIOUS
<1>3. Good(r, n) /\ r.kind = kind
  BY ONLY <1>1, <1>2, kind \in Kinds, name \in Name, ops \in Seq(1 .. Len(values)), GoodNew
<1>4. /\ n \in Nat /\ Len(values') = n + 1 /\ values'[n + 1] = r
      /\ \A v \in 1 .. n : values'[v] = values[v]
      /\ Over(values, values', 1)
  BY ONLY <1>1, <1>2, Added(values, values', NamedValue(kind, name, ops)) DEF Added, Over
<1>5. \A v \in 1 .. n : Good(values'[v], n)
  BY ONLY <1>1, <1>4, ValuesInv, ValuesAreGood
<1>6. n + 1 \in Nat /\ n <= n + 1 /\ \A v \in 1 .. n + 1 : v \in 1 .. n \/ v = n + 1
  BY ONLY <1>4
<1>7. \A v \in 1 .. n + 1 : Good(values'[v], n + 1)
  BY ONLY <1>3, <1>4, <1>5, <1>6, GoodMore
<1>. QED
  BY ONLY <1>1, <1>3, <1>4, <1>7

\* A name is given to a new value,
LEMMA FreshValues ==
  ASSUME ValuesInv, NEW kind \in Globals \cup {"block"}, NEW name, Fresh(kind, name, <<>>),
         UNCHANGED body
  PROVE  ValuesInv'
<1>1. kind \in Kinds /\ name \in Name
  BY ONLY kind \in Globals \cup {"block"}, Fresh(kind, name, <<>>) DEF Kinds, Fresh, Takes
<1>2. PICK ops : ops = <<>>
  OBVIOUS
<1>3. ops \in Seq(1 .. Len(values)) /\ Added(values, values', NamedValue(kind, name, ops))
  BY ONLY <1>2, Fresh(kind, name, <<>>) DEF Fresh
<1>4. /\ Over(values, values', 1) /\ \A v \in 1 .. Len(values') : Good(values'[v], Len(values'))
      /\ \A v \in 1 .. Len(values) : values'[v] = values[v]
  BY ONLY ValuesInv, <1>1, <1>3, AddedAreGood
<1>5. PICK extra \in {0, 1} : extra = 1
  OBVIOUS
<1>6. \A v \in 1 .. Len(values) : values'[v].kind = values[v].kind
  BY ONLY <1>4
<1>7. Over(values, values', extra) /\ body' = body
  BY ONLY <1>4, <1>5, UNCHANGED body
<1>. QED
  BY ONLY ValuesInv, <1>4, <1>6, <1>7, BlockStays

\* and put at the end of the block,
LEMMA EmittedValues ==
  ASSUME ValuesInv, NEW kind \in Instructions, NEW name, NEW ops, Emitting(kind, name, ops)
  PROVE  ValuesInv'
<1>1. /\ kind \in Kinds /\ name \in Name /\ ops \in Seq(1 .. Len(values))
      /\ Added(values, values', NamedValue(kind, name, ops)) /\ Added(body, body', Len(values) + 1)
  BY ONLY kind \in Instructions, Emitting(kind, name, ops) DEF Kinds, Emitting, Fresh, Takes
<1>2. /\ Over(values, values', 1) /\ \A v \in 1 .. Len(values') : Good(values'[v], Len(values'))
      /\ \A v \in 1 .. Len(values) : values'[v] = values[v]
      /\ values'[Len(values) + 1].kind = kind
  BY ONLY ValuesInv, <1>1, AddedAreGood
<1>3. Len(values) \in Nat /\ Len(values') = Len(values) + 1
  BY ONLY <1>2 DEF Over
<1>4. /\ body' \in Seq(ToSet(body')) /\ Len(body) \in Nat /\ Len(body') = Len(body) + 1
      /\ body'[Len(body) + 1] = Len(values) + 1
      /\ \A k \in 1 .. Len(body) : body'[k] = body[k]
  BY ONLY <1>1 DEF Added
<1>5. /\ \A k \in 1 .. Len(body) : body[k] \in 1 .. Len(values) /\ Kind(body[k]) \in Instructions
      /\ \A j, k \in 1 .. Len(body) : body[j] = body[k] => j = k
  <2>1. body \in Seq(1 .. Len(values))
    BY DEF ValuesInv
  <2>. QED
    BY ONLY <2>1, ValuesInv DEF ValuesInv
<1>6. \A k \in 1 .. Len(body') : k \in 1 .. Len(body) \/ k = Len(body) + 1
  BY ONLY <1>4
<1>7. \A k \in 1 .. Len(body') : body'[k] \in 1 .. Len(values')
  <2>1. \A v \in 1 .. Len(values) : v \in 1 .. Len(values')
    BY ONLY <1>3
  <2>2. Len(values) + 1 \in 1 .. Len(values')
    BY ONLY <1>3
  <2>. QED
    BY ONLY <1>4, <1>5, <1>6, <2>1, <2>2
<1>8. body' \in Seq(1 .. Len(values'))
  BY ONLY <1>4, <1>7, LenProperties
<1>9. \A k \in 1 .. Len(body') : values'[body'[k]].kind \in Instructions
  BY ONLY <1>2, <1>4, <1>5, <1>6, kind \in Instructions DEF Kind
<1>10. \A j, k \in 1 .. Len(body') : body'[j] = body'[k] => j = k
  <2>1. \A k \in 1 .. Len(body) : body[k] # Len(values) + 1
    BY ONLY <1>3, <1>5
  <2>. QED
    BY ONLY <1>4, <1>5, <1>6, <2>1
<1>. QED
  BY ONLY <1>2, <1>8, <1>9, <1>10, GoodValues

\* What is known of the values that are there.
LEMMA GoodFields ==
  ASSUME NEW r, NEW n, Good(r, n)
  PROVE  /\ r.kind \in Kinds /\ r.name \in Name
         /\ r.operands \in Seq(1 .. n) /\ r.own \in Seq(1 .. n)
BY DEF Good

\* A value of the same kind, operands and incomings as one there was.
LEMMA SameIsGood ==
  ASSUME NEW r, NEW n, Good(r, n), NEW name \in Name, NEW ref, NEW text, NEW md, NEW fixed, NEW s,
         s = Value(r.kind, name, ref, text, md, r.operands, r.own, fixed)
  PROVE  Good(s, n) /\ s.kind = r.kind
<1>1. PICK kind \in Kinds : kind = r.kind
  BY ONLY Good(r, n), GoodFields
<1>2. PICK ops \in Seq(1 .. n) : ops = r.operands
  BY ONLY Good(r, n), GoodFields
<1>3. PICK own \in Seq(1 .. n) : own = r.own
  BY ONLY Good(r, n), GoodFields
<1>4. s = Value(kind, name, ref, text, md, ops, own, fixed)
  BY ONLY <1>1, <1>2, <1>3, s = Value(r.kind, name, ref, text, md, r.operands, r.own, fixed)
<1>5. Good(s, n)
  BY ONLY <1>4, name \in Name, GoodValue
<1>. QED
  BY ONLY <1>1, <1>4, <1>5 DEF Value

\* A step that leaves the block and the operands as they were.
LEMMA KeptValues ==
  ASSUME ValuesInv, Over(values, values', 0), body' = body,
         \A v \in 1 .. Len(values) :
             Good(values'[v], Len(values)) /\ values'[v].kind = values[v].kind
  PROVE  ValuesInv'
<1>1. PICK extra \in {0, 1} : extra = 0
  OBVIOUS
<1>2. Over(values, values', extra)
  BY ONLY <1>1, Over(values, values', 0)
<1>3. Len(values') = Len(values)
  BY ONLY Over(values, values', 0) DEF Over
<1>4. \A v \in 1 .. Len(values') : Good(values'[v], Len(values'))
  BY ONLY <1>3, \A v \in 1 .. Len(values) :
             Good(values'[v], Len(values)) /\ values'[v].kind = values[v].kind
<1>. QED
  BY ONLY ValuesInv, <1>2, <1>4, body' = body, BlockStays,
     \A v \in 1 .. Len(values) :
             Good(values'[v], Len(values)) /\ values'[v].kind = values[v].kind

\* A module that is printed,
LEMMA ShownValues ==
  ASSUME ValuesInv, NEW texts, NEW refs, Showing(texts, refs)
  PROVE  ValuesInv'
<1>1. Over(values, values', 0) /\ body' = body
  BY ONLY Showing(texts, refs) DEF Showing
<1>2. ASSUME NEW v \in 1 .. Len(values)
      PROVE  Good(values'[v], Len(values)) /\ values'[v].kind = values[v].kind
  <2>1. PICK r : r = values[v]
    OBVIOUS
  <2>2. Good(r, Len(values))
    BY ONLY <1>2, <2>1, ValuesInv, ValuesAreGood
  <2>3. PICK ref, text : values'[v] = Value(r.kind, r.name, ref, text, r.md, r.operands, r.own, r.fixed)
    BY ONLY <1>2, <2>1, Showing(texts, refs) DEF Showing
  <2>4. PICK name \in Name : name = r.name
    BY ONLY <2>2, GoodFields
  <2>5. PICK s : s = values'[v]
    OBVIOUS
  <2>6. PICK md, fixed : md = r.md /\ fixed = r.fixed
    OBVIOUS
  <2>7. s = Value(r.kind, name, ref, text, md, r.operands, r.own, fixed)
    BY ONLY <2>3, <2>4, <2>5, <2>6
  <2>8. Good(s, Len(values)) /\ s.kind = r.kind
    BY ONLY <2>2, <2>7, SameIsGood
  <2>. QED
    BY ONLY <2>1, <2>5, <2>8
<1>. QED
  BY ONLY ValuesInv, <1>1, <1>2, KeptValues

\* a value that is renamed,
LEMMA RenamedValues ==
  ASSUME ValuesInv, NEW v, NEW name, Renaming(v, name)
  PROVE  ValuesInv'
<1>1. /\ body' = body /\ name \in Name
      /\ Edited(values, values', v,
           Value(values[v].kind, name, values[v].ref, values[v].text, values[v].md,
                 values[v].operands, values[v].own, values[v].fixed))
  BY ONLY Renaming(v, name) DEF Renaming, Takes
<1>2. /\ Over(values, values', 0) /\ v \in 1 .. Len(values)
      /\ \A w \in 1 .. Len(values) : w # v => values'[w] = values[w]
      /\ values'[v] = Value(values[v].kind, name, values[v].ref, values[v].text, values[v].md,
                            values[v].operands, values[v].own, values[v].fixed)
  BY ONLY <1>1 DEF Edited, Over
<1>3. \A w \in 1 .. Len(values) : Good(values[w], Len(values))
  BY ONLY ValuesInv, ValuesAreGood
<1>4. Good(values'[v], Len(values)) /\ values'[v].kind = values[v].kind
  <2>1. PICK r, s, n : r = values[v] /\ s = values'[v] /\ n = Len(values)
    OBVIOUS
  <2>2. PICK ref, text, md, fixed :
          ref = r.ref /\ text = r.text /\ md = r.md /\ fixed = r.fixed
    OBVIOUS
  <2>3. s = Value(r.kind, name, ref, text, md, r.operands, r.own, fixed) /\ Good(r, n)
    BY ONLY <1>2, <1>3, <2>1, <2>2
  <2>4. Good(s, n) /\ s.kind = r.kind
    BY ONLY <1>1, <2>3, SameIsGood
  <2>. QED
    BY ONLY <2>1, <2>4
<1>5. \A w \in 1 .. Len(values) :
          Good(values'[w], Len(values)) /\ values'[w].kind = values[w].kind
  BY ONLY <1>2, <1>3, <1>4
<1>. QED
  BY ONLY ValuesInv, <1>1, <1>2, <1>5, KeptValues

\* values that are edited,
LEMMA RetouchedValues ==
  ASSUME ValuesInv, NEW mds, NEW opss, NEW owns, Retouching(mds, opss, owns)
  PROVE  ValuesInv'
<1>1. Over(values, values', 0) /\ body' = body
  BY ONLY Retouching(mds, opss, owns) DEF Retouching
<1>2. ASSUME NEW v \in 1 .. Len(values)
      PROVE  Good(values'[v], Len(values)) /\ values'[v].kind = values[v].kind
  <2>1. PICK r, s, n : r = values[v] /\ s = values'[v] /\ n = Len(values)
    OBVIOUS
  <2>2. PICK md, ops, own : md = mds[v] /\ ops = opss[v] /\ own = owns[v]
    OBVIOUS
  <2>3. /\ s = Value(r.kind, r.name, r.ref, r.text, md, ops, own, r.fixed)
        /\ Touch(v, md, ops, own)
    BY ONLY <1>2, <2>1, <2>2, Retouching(mds, opss, owns) DEF Retouching
  <2>4. ops \in Seq(1 .. n) /\ own \in Seq(1 .. n)
    BY ONLY <2>1, <2>3 DEF Touch
  <2>5. Good(r, n)
    BY ONLY <1>2, <2>1, ValuesInv, ValuesAreGood
  <2>6. PICK kind, name, ref, text, fixed : /\ kind = r.kind /\ name = r.name /\ ref = r.ref
                                            /\ text = r.text /\ fixed = r.fixed
    OBVIOUS
  <2>7. /\ s = Value(kind, name, ref, text, md, ops, own, fixed)
        /\ kind \in Kinds /\ name \in Name
    BY ONLY <2>3, <2>5, <2>6, GoodFields
  <2>8. Good(s, n)
    BY ONLY <2>4, <2>7, GoodValue
  <2>9. s.kind = r.kind
    BY ONLY <2>6, <2>7 DEF Value
  <2>. QED
    BY ONLY <2>1, <2>8, <2>9
<1>. QED
  BY ONLY ValuesInv, <1>1, <1>2, KeptValues

\* and a constant on a global.
LEMMA ConstantValues ==
  ASSUME ValuesInv, NEW g, Constant(g)
  PROVE  ValuesInv'
<1>1. PICK n, new, ref : n = Len(values) /\ new = values'[n + 1] /\ ref = Reference(g)
  OBVIOUS
<1>2. g \in 1 .. n /\ Over(values, values', 1) /\ body' = body
  BY ONLY <1>1, Constant(g) DEF Constant
<1>3. n \in Nat /\ Len(values') = n + 1
  BY ONLY <1>1, <1>2 DEF Over
<1>4. new = Value("const", <<"">>, ref, NoText, {}, <<g>>, <<>>, FALSE)
  BY ONLY <1>1, Constant(g) DEF Constant
<1>5. Good(new, n)
  <2>1. PICK kind, name, text, md, ops, own, fixed :
          /\ kind = "const" /\ name = <<"">> /\ text = NoText /\ md = {} /\ ops = <<g>>
          /\ own = <<>> /\ fixed = FALSE
    OBVIOUS
  <2>2. new = Value(kind, name, ref, text, md, ops, own, fixed)
    BY ONLY <1>4, <2>1
  <2>3. kind \in Kinds /\ name \in Name
    BY <2>1, OneLetter DEF Kinds, Letters
  <2>4. g \in 1 .. n
    BY ONLY <1>2
  <2>5. <<g>> \in Seq(1 .. n)
    BY ONLY <2>4
  <2>6. <<>> \in Seq(1 .. n)
    OBVIOUS
  <2>7. ops \in Seq(1 .. n) /\ own \in Seq(1 .. n)
    BY ONLY <2>1, <2>5, <2>6
  <2>. QED
    BY ONLY <2>2, <2>3, <2>7, GoodValue
<1>6. ASSUME NEW v \in 1 .. n
      PROVE  Good(values'[v], n) /\ values'[v].kind = values[v].kind
  <2>1. PICK r, s : r = values[v] /\ s = values'[v]
    OBVIOUS
  <2>2. PICK md, text, fixed, now : /\ md = r.md /\ text = r.text /\ fixed = r.fixed
                                    /\ now = (IF v = g THEN Reference(g) ELSE r.ref)
    OBVIOUS
  <2>3. s = Value(r.kind, r.name, now, text, md, r.operands, r.own, fixed)
    BY ONLY <1>1, <1>6, <2>1, <2>2, Constant(g) DEF Constant
  <2>4. Good(r, n)
    BY ONLY <1>1, <1>6, <2>1, ValuesInv, ValuesAreGood
  <2>5. PICK name \in Name : name = r.name
    BY ONLY <2>4, GoodFields
  <2>6. Good(s, n) /\ s.kind = r.kind
    BY ONLY <2>3, <2>4, <2>5, SameIsGood
  <2>. QED
    BY ONLY <2>1, <2>6
<1>7. n + 1 \in Nat /\ n <= n + 1 /\ \A v \in 1 .. n + 1 : v \in 1 .. n \/ v = n + 1
  BY ONLY <1>3
<1>8. \A v \in 1 .. n + 1 : Good(values'[v], n + 1)
  BY ONLY <1>1, <1>3, <1>5, <1>6, <1>7, GoodMore
<1>9. PICK extra \in {0, 1} : extra = 1
  OBVIOUS
<1>10. Over(values, values', extra)
  BY ONLY <1>2, <1>9
<1>11. /\ \A v \in 1 .. Len(values') : Good(values'[v], Len(values'))
       /\ \A v \in 1 .. Len(values) : values'[v].kind = values[v].kind
  BY ONLY <1>1, <1>3, <1>6, <1>8
<1>. QED
  BY ONLY ValuesInv, <1>2, <1>10, <1>11, BlockStays

\* What replace_usage leaves good.
LEMMA PatchedIsGood ==
  ASSUME NEW n \in Nat, NEW r, Good(r, n), NEW s, NEW old, IsPatched(r, s, old, n + 1)
  PROVE  Good(s, n + 1) /\ s.kind = r.kind
<1>1. PICK text, ops, own, fixed :
        /\ s = Value(r.kind, r.name, r.ref, text, r.md, ops, own, fixed)
        /\ ops = IF r.kind = "phi" THEN r.operands ELSE Substituted(r.operands, old, n + 1)
        /\ own = IF r.kind = "phi" THEN Substituted(r.own, old, n + 1) ELSE r.own
  BY ONLY IsPatched(r, s, old, n + 1) DEF IsPatched
<1>2. ASSUME NEW us \in Seq(1 .. n)
      PROVE  us \in Seq(1 .. n + 1) /\ Substituted(us, old, n + 1) \in Seq(1 .. n + 1)
  <2>1. n + 1 \in Nat /\ n <= n + 1 /\ n + 1 \in 1 .. n + 1
    BY ONLY n \in Nat
  <2>2. us \in Seq(1 .. n + 1)
    BY ONLY <1>2, <2>1, WiderSeq
  <2>3. DOMAIN us = 1 .. Len(us) /\ Len(us) \in Nat /\ \A k \in 1 .. Len(us) : us[k] \in 1 .. n + 1
    BY ONLY <2>2, LenProperties
  <2>4. Substituted(us, old, n + 1) = [k \in 1 .. Len(us) |-> IF us[k] = old THEN n + 1 ELSE us[k]]
    BY ONLY <2>3 DEF Substituted
  <2>5. Substituted(us, old, n + 1) \in Seq(1 .. n + 1)
    BY ONLY <2>1, <2>3, <2>4
  <2>. QED
    BY ONLY <2>2, <2>5
<1>3. r.kind \in Kinds /\ r.name \in Name /\ r.operands \in Seq(1 .. n) /\ r.own \in Seq(1 .. n)
  BY ONLY Good(r, n), GoodFields
<1>4. ops \in Seq(1 .. n + 1) /\ own \in Seq(1 .. n + 1)
  BY ONLY <1>1, <1>2, <1>3
<1>5. PICK kind, name, ref, md, m : kind = r.kind /\ name = r.name /\ ref = r.ref /\ md = r.md /\ m = n + 1
  OBVIOUS
<1>6. /\ s = Value(kind, name, ref, text, md, ops, own, fixed)
      /\ kind \in Kinds /\ name \in Name /\ ops \in Seq(1 .. m) /\ own \in Seq(1 .. m)
  BY ONLY <1>1, <1>3, <1>4, <1>5
<1>7. Good(s, m)
  BY ONLY <1>6, GoodValue
<1>. QED
  BY ONLY <1>5, <1>6, <1>7 DEF Value

\* An instruction instead of another.
LEMMA ReplacedValues ==
  ASSUME ValuesInv, NEW p, NEW kind, NEW name, NEW ops, Replacing(p, kind, name, ops)
  PROVE  ValuesInv'
<1>1. PICK n, new : n = Len(values) /\ new = values'[n + 1]
  OBVIOUS
<1>2. /\ Over(values, values', 1) /\ new = NamedValue(kind, name, ops)
      /\ kind \in {"plain", "call"} /\ name \in Name /\ ops \in Seq(1 .. n)
      /\ Edited(body, body', p, n + 1)
  BY ONLY <1>1, Replacing(p, kind, name, ops) DEF Replacing, Takes
<1>3. n \in Nat /\ Len(values') = n + 1
  BY ONLY <1>1, <1>2 DEF Over
<1>4. kind \in Kinds /\ kind \in Instructions
  BY ONLY <1>2 DEF Kinds, Instructions
<1>5. Good(new, n) /\ new.kind = kind
  BY ONLY <1>2, <1>4, GoodNew
<1>6. n + 1 \in Nat /\ n <= n + 1 /\ \A v \in 1 .. n + 1 : v \in 1 .. n \/ v = n + 1
  BY ONLY <1>3
<1>7. ASSUME NEW v \in 1 .. n
      PROVE  Good(values'[v], n + 1) /\ values'[v].kind = values[v].kind
  <2>1. PICK r, s, old : r = values[v] /\ s = values'[v] /\ old = body[p]
    OBVIOUS
  <2>2. IsPatched(r, s, old, n + 1) \/ s = r
    BY ONLY <1>1, <1>7, <2>1, Replacing(p, kind, name, ops) DEF Replacing
  <2>3. Good(r, n)
    BY ONLY <1>1, <1>7, <2>1, ValuesInv, ValuesAreGood
  <2>4. CASE IsPatched(r, s, old, n + 1)
    BY ONLY <1>3, <2>1, <2>3, <2>4, PatchedIsGood
  <2>5. CASE s = r
    BY ONLY <1>3, <1>6, <2>1, <2>3, <2>5, GoodMore
  <2>. QED
    BY ONLY <2>2, <2>4, <2>5
<1>8. \A v \in 1 .. Len(values') : Good(values'[v], Len(values'))
  BY ONLY <1>1, <1>3, <1>5, <1>6, <1>7, GoodMore
<1>9. /\ body' \in Seq(ToSet(body')) /\ Len(body) \in Nat /\ Len(body') = Len(body)
      /\ p \in 1 .. Len(body) /\ body'[p] = n + 1
      /\ \A k \in 1 .. Len(body) : k # p => body'[k] = body[k]
  BY ONLY <1>2 DEF Edited
<1>10. /\ \A k \in 1 .. Len(body) : body[k] \in 1 .. n /\ Kind(body[k]) \in Instructions
       /\ \A j, k \in 1 .. Len(body) : body[j] = body[k] => j = k
  <2>1. body \in Seq(1 .. Len(values))
    BY DEF ValuesInv
  <2>. QED
    BY ONLY <1>1, <2>1, ValuesInv DEF ValuesInv
<1>11. \A k \in 1 .. Len(body) : body'[k] = n + 1 \/ (k # p /\ body'[k] = body[k])
  BY ONLY <1>9
<1>12. \A k \in 1 .. Len(body') : body'[k] \in 1 .. Len(values')
  <2>1. \A v \in 1 .. n : v \in 1 .. n + 1
    BY ONLY <1>3
  <2>2. n + 1 \in 1 .. n + 1
    BY ONLY <1>3
  <2>. QED
    BY ONLY <1>3, <1>9, <1>10, <1>11, <2>1, <2>2
<1>13. body' \in Seq(1 .. Len(values'))
  BY ONLY <1>9, <1>12, LenProperties
<1>14. \A k \in 1 .. Len(body') : values'[body'[k]].kind \in Instructions
  BY ONLY <1>1, <1>4, <1>5, <1>7, <1>9, <1>10, <1>11 DEF Kind
<1>15. \A j, k \in 1 .. Len(body') : body'[j] = body'[k] => j = k
  <2>1. \A k \in 1 .. Len(body) : body[k] # n + 1
    BY ONLY <1>3, <1>10
  <2>. QED
    BY ONLY <1>9, <1>10, <1>11, <2>1
<1>. QED
  BY ONLY <1>2, <1>8, <1>13, <1>14, <1>15, GoodValues

\* The names of the function stay names, and none is given back.
LEMMA LocalNamesStay ==
  ASSUME ScopeOK(scope), ValueStep
  PROVE  ScopeOK(scope') /\ scope.used \subseteq scope'.used /\ meta.scope.used \subseteq meta'.scope.used
<1>1. CASE UNCHANGED scope /\ meta.scope.used \subseteq meta'.scope.used
  BY ONLY <1>1, ScopeOK(scope)
<1>2. ASSUME NEW kind, NEW name, Takes(kind, name)
      PROVE  ScopeOK(scope') /\ scope.used \subseteq scope'.used /\ meta.scope.used \subseteq meta'.scope.used
  BY ONLY <1>2 DEF Takes
<1>3. CASE \E g : Constant(g)
  BY ONLY <1>3, <1>1, ScopeOK(scope) DEF Constant
<1>4. CASE \E texts, refs : Showing(texts, refs)
  BY ONLY <1>4, <1>1, ScopeOK(scope) DEF Showing
<1>5. CASE \E mds, opss, owns : Retouching(mds, opss, owns)
  BY ONLY <1>5, <1>1 DEF Retouching
<1>6. CASE \E v, name : Renaming(v, name)
  BY ONLY <1>6, <1>2 DEF Renaming
<1>7. CASE \E kind \in Globals \cup {"block"} : \E name : Fresh(kind, name, <<>>)
  BY ONLY <1>7, <1>2 DEF Fresh
<1>8. CASE \E kind \in Instructions : \E name, ops : Emitting(kind, name, ops)
  BY ONLY <1>8, <1>2 DEF Emitting, Fresh
<1>9. CASE \E p, kind, name, ops : Replacing(p, kind, name, ops)
  BY ONLY <1>9, <1>2 DEF Replacing
<1>. QED
  BY ONLY ValueStep, <1>1, <1>3, <1>4, <1>5, <1>6, <1>7, <1>8, <1>9 DEF ValueStep

\* The values stay well formed.
LEMMA ValuesNext ==
  ASSUME ValuesInv, ValueStep
  PROVE  ValuesInv'
<1>1. CASE UNCHANGED <<values, body>>
  BY ONLY <1>1, ValuesInv DEF ValuesInv, Kind
<1>. QED
  BY ONLY ValuesInv, ValueStep, <1>1, FreshValues, EmittedValues, ConstantValues, ShownValues,
          RenamedValues, RetouchedValues, ReplacedValues DEF ValueStep

\* A new module has a function with an argument and a block, under names of theirs.
Initial(a, b) ==
    /\ values = <<NamedValue("function", <<"f">>, <<>>), NamedValue("arg", a, <<>>),
                  NamedValue("block", b, <<>>)>>
    /\ body = <<>>
    /\ a \in Name /\ b \in Name /\ a # b /\ a \in scope.used /\ b \in scope.used
    /\ ScopeOK(scope) /\ <<"f">> \in meta.scope.used

\* Init makes one.
LEMMA InitFacts ==
  ASSUME Init
  PROVE  \E a, b : Initial(a, b)
<1>1. PICK argument, returned, entry :
        /\ argument = Register(NewScope, <<"">>, TRUE)
        /\ returned = Register(argument.scope, <<"">>, TRUE)
        /\ entry = Register(returned.scope, <<"entry">>, TRUE)
        /\ scope = entry.scope
        /\ values = <<NamedValue("function", <<"f">>, <<>>), NamedValue("arg", argument.name, <<>>),
                      NamedValue("block", entry.name, <<>>)>>
        /\ body = <<>>
        /\ meta = [NoMetadata EXCEPT !.scope = Register(@, <<"f">>, FALSE).scope]
  BY DEF Init
<1>2. PICK n, e, f, yes, no : /\ n = <<"">> /\ e = <<"entry">> /\ f = <<"f">> /\ yes = TRUE /\ no = FALSE
  OBVIOUS
<1>3. n \in Name /\ e \in Name /\ f \in Name /\ yes \in BOOLEAN /\ no \in BOOLEAN /\ f # n
  BY <1>2, OneLetter DEF Letters
<1>4. PICK s : s = NewScope
  OBVIOUS
<1>5. s.used = {n}
  BY ONLY <1>2, <1>4 DEF NewScope
<1>6. ScopeOK(s)
  <2>1. IsFiniteSet({n})
    BY FS_Singleton
  <2>. QED
    BY <1>2, <1>3, <1>4, <2>1 DEF ScopeOK, NewScope
<1>7. \A t, c : CanRegister(t, c, yes)
  BY ONLY <1>2 DEF CanRegister
<1>8. /\ argument = Register(s, n, yes) /\ returned = Register(argument.scope, n, yes)
      /\ entry = Register(returned.scope, e, yes)
  BY ONLY <1>1, <1>2, <1>4
<1>9. /\ ScopeOK(argument.scope) /\ argument.scope.used = s.used \cup {argument.name}
      /\ argument.name \in Name
  BY ONLY <1>3, <1>6, <1>7, <1>8, RegisterFacts
<1>10. ScopeOK(returned.scope) /\ returned.scope.used = argument.scope.used \cup {returned.name}
  <2>1. PICK t : t = argument.scope
    OBVIOUS
  <2>2. ScopeOK(t) /\ CanRegister(t, n, yes) /\ returned = Register(t, n, yes)
    BY ONLY <1>7, <1>8, <1>9, <2>1
  <2>3. ScopeOK(returned.scope) /\ returned.scope.used = t.used \cup {returned.name}
    BY ONLY <1>3, <2>2, RegisterFacts
  <2>. QED
    BY ONLY <2>1, <2>3
<1>11. /\ ScopeOK(entry.scope) /\ entry.scope.used = returned.scope.used \cup {entry.name}
       /\ entry.name \in Name /\ entry.name \notin returned.scope.used
  <2>1. PICK t : t = returned.scope
    OBVIOUS
  <2>2. ScopeOK(t) /\ CanRegister(t, e, yes) /\ entry = Register(t, e, yes)
    BY ONLY <1>7, <1>8, <1>10, <2>1
  <2>3. /\ ScopeOK(entry.scope) /\ entry.scope.used = t.used \cup {entry.name}
        /\ entry.name \in Name /\ entry.name \notin t.used
    BY ONLY <1>3, <2>2, RegisterFacts
  <2>. QED
    BY ONLY <2>1, <2>3
<1>12. f \in meta.scope.used
  <2>1. CanRegister(s, f, no) /\ f \notin s.used
    BY ONLY <1>3, <1>5 DEF CanRegister, IsUsed
  <2>2. PICK r : r = Register(s, f, no)
    OBVIOUS
  <2>3. r.scope.used = s.used \cup {r.name} /\ (f \notin s.used => r.name = f)
    BY ONLY <1>3, <1>6, <2>1, <2>2, RegisterFacts
  <2>4. meta.scope = r.scope
    BY ONLY <1>1, <1>2, <1>4, <2>2 DEF NoMetadata
  <2>. QED
    BY ONLY <2>1, <2>3, <2>4
<1>13. Initial(argument.name, entry.name)
  BY ONLY <1>1, <1>2, <1>9, <1>10, <1>11, <1>12 DEF Initial
<1>. QED
  BY ONLY <1>13

\* Its values are well formed.
LEMMA ValuesInit ==
  ASSUME Init
  PROVE  ValuesInv /\ ScopeOK(scope)
<1>1. PICK a, b : Initial(a, b)
  BY InitFacts
<1>2. PICK f, ops : f = <<"f">> /\ ops = <<>>
  OBVIOUS
<1>3. PICK x, y, z : x = NamedValue("function", f, ops) /\ y = NamedValue("arg", a, ops)
                     /\ z = NamedValue("block", b, ops)
  OBVIOUS
<1>4. values = <<x, y, z>> /\ body = <<>> /\ a \in Name /\ b \in Name /\ ScopeOK(scope)
  BY ONLY <1>1, <1>2, <1>3 DEF Initial
<1>5. f \in Name
  BY <1>2, OneLetter DEF Letters
<1>6. \A n : ops \in Seq(1 .. n)
  BY ONLY <1>2
<1>7. PICK kf, ka, kb : kf = "function" /\ ka = "arg" /\ kb = "block"
  OBVIOUS
<1>8. /\ kf \in Kinds /\ ka \in Kinds /\ kb \in Kinds
  BY ONLY <1>7 DEF Kinds, Globals
<1>9. PICK n : n = 3
  OBVIOUS
<1>10. Good(x, n) /\ Good(y, n) /\ Good(z, n)
  BY ONLY <1>3, <1>4, <1>5, <1>6, <1>7, <1>8, GoodNew
<1>11. Len(values) = n /\ values[1] = x /\ values[2] = y /\ values[3] = z
  BY ONLY <1>4, <1>9
<1>12. values \in Seq({x, y, z}) /\ ToSet(values) = {x, y, z}
  <2>1. values \in Seq({x, y, z}) /\ DOMAIN values = 1 .. 3
    BY ONLY <1>4
  <2>2. ToSet(values) = {x, y, z}
    BY ONLY <1>9, <1>11, <2>1 DEF ToSet
  <2>. QED
    BY ONLY <2>1, <2>2
<1>13. \A v \in 1 .. Len(values) : Good(values[v], Len(values))
  <2>1. \A v \in 1 .. n : v = 1 \/ v = 2 \/ v = 3
    BY ONLY <1>9
  <2>. QED
    BY ONLY <1>10, <1>11, <2>1
<1>14. 1 .. Len(body) = {} /\ body \in Seq(1 .. Len(values))
  BY ONLY <1>4
<1>15. values \in Seq(ToSet(values))
  BY ONLY <1>12
<1>. QED
  BY ONLY <1>4, <1>13, <1>14, <1>15 DEF ValuesInv, Good, Kind

-----------------------------------------------------------------------------
(* The names of the values *)

PrefixOf(kind) == IF kind \in Globals THEN "@" ELSE "%"

\* A value has a name by being called so, or by the reference that was cached.
OwnsName(r, n) == r.name = n \/ r.ref = <<PrefixOf(r.kind)>> \o n

\* Names of values are taken, and each is of one value of its scope, whatever was
\* renamed since its reference was cached.
NamesInv ==
    /\ \A v \in 1 .. Len(values) : Kind(v) # "const" =>
          /\ values[v].ref = NoRef
                \/ \E n \in Name : values[v].ref = <<PrefixOf(Kind(v))>> \o n
          /\ \A n \in Name : OwnsName(values[v], n) => n \in Taken(Kind(v))
    /\ \A v, w \in 1 .. Len(values) :
          /\ v # w /\ Kind(v) # "const" /\ Kind(w) # "const"
          /\ PrefixOf(Kind(v)) = PrefixOf(Kind(w))
          => \A n \in Name : ~(OwnsName(values[v], n) /\ OwnsName(values[w], n))

\* A reference tells its prefix and its name.
LEMMA ReferenceIs ==
  ASSUME NEW p, NEW q, NEW a \in Name, NEW b \in Name
  PROVE  /\ <<p>> \o a # <<>>
         /\ <<p>> \o a = <<q>> \o b => p = q /\ a = b
<1>1. a \in Seq(Letters) /\ b \in Seq(Letters)
  BY DEF Name
<1>2. \A c \in Seq(Letters) : \A x :
        /\ Len(<<x>> \o c) = Len(c) + 1 /\ Len(c) \in Nat /\ (<<x>> \o c)[1] = x
        /\ \A k \in 1 .. Len(c) : (<<x>> \o c)[k + 1] = c[k]
  <2>. SUFFICES ASSUME NEW c \in Seq(Letters), NEW x
                PROVE  /\ Len(<<x>> \o c) = Len(c) + 1 /\ Len(c) \in Nat /\ (<<x>> \o c)[1] = x
                       /\ \A k \in 1 .. Len(c) : (<<x>> \o c)[k + 1] = c[k]
    OBVIOUS
  <2>1. /\ c \in Seq(Letters \cup {x}) /\ <<x>> \in Seq(Letters \cup {x})
        /\ Len(<<x>>) = 1 /\ <<x>>[1] = x
    OBVIOUS
  <2>2. Len(c) \in Nat
    BY ONLY <2>1, LenProperties
  <2>3. /\ Len(<<x>> \o c) = 1 + Len(c)
        /\ \A i \in 1 .. 1 + Len(c) :
             (<<x>> \o c)[i] = IF i <= 1 THEN <<x>>[i] ELSE c[i - 1]
    BY ONLY <2>1, ConcatProperties
  <2>. QED
    BY ONLY <2>1, <2>2, <2>3
<1>3. <<p>> \o a # <<>>
  <2>1. Len(<<p>> \o a) # 0
    BY ONLY <1>1, <1>2
  <2>. QED
    BY ONLY <2>1
<1>4. ASSUME <<p>> \o a = <<q>> \o b PROVE p = q /\ a = b
  <2>1. p = q /\ Len(a) = Len(b)
    BY ONLY <1>1, <1>2, <1>4
  <2>2. \A k \in 1 .. Len(a) : a[k] = b[k]
    BY ONLY <1>1, <1>2, <1>4, <2>1
  <2>3. a = b
    BY ONLY <1>1, <2>1, <2>2
  <2>. QED
    BY ONLY <2>1, <2>3
<1>. QED
  BY ONLY <1>3, <1>4

\* Names of a value and its reference are those it had, or one that was free.
Retained(x, name) ==
    /\ x \in 1 .. Len(values') =>
          /\ name \notin Taken(values'[x].kind)
          /\ name \in (IF values'[x].kind \in Globals THEN meta'.scope.used ELSE scope'.used)
    /\ \A v \in 1 .. Len(values) : values'[v].kind = values[v].kind
    /\ \A v \in 1 .. Len(values') : values'[v].kind # "const" =>
          /\ values'[v].ref = NoRef
                \/ \E n \in Name : values'[v].ref = <<PrefixOf(values'[v].kind)>> \o n
          /\ \A n \in Name : OwnsName(values'[v], n) =>
                \/ v \in 1 .. Len(values) /\ OwnsName(values[v], n)
                \/ v = x /\ n = name

\* Then names are taken and belong to one.
LEMMA KeptNames ==
  ASSUME NamesInv, meta.scope.used \subseteq meta'.scope.used, scope.used \subseteq scope'.used,
         NEW x, NEW name, Retained(x, name)
  PROVE  NamesInv'
<1>1. ASSUME NEW v \in 1 .. Len(values'), values'[v].kind # "const", NEW n \in Name,
             OwnsName(values'[v], n)
      PROVE  n \in (IF values'[v].kind \in Globals THEN meta'.scope.used ELSE scope'.used)
  <2>1. CASE v \in 1 .. Len(values) /\ OwnsName(values[v], n)
    <3>1. values'[v].kind = values[v].kind
      BY ONLY <2>1, Retained(x, name) DEF Retained
    <3>2. n \in Taken(Kind(v))
      BY ONLY <1>1, <2>1, <3>1, NamesInv DEF NamesInv, Kind
    <3>. QED
      BY ONLY <3>1, <3>2, meta.scope.used \subseteq meta'.scope.used,
              scope.used \subseteq scope'.used DEF Taken, Kind
  <2>2. CASE v = x /\ n = name
    BY ONLY <1>1, <2>2, Retained(x, name) DEF Retained
  <2>. QED
    BY ONLY <1>1, <2>1, <2>2, Retained(x, name) DEF Retained
<1>2. ASSUME NEW v \in 1 .. Len(values'), NEW w \in 1 .. Len(values'), v # w,
             values'[v].kind # "const", values'[w].kind # "const",
             PrefixOf(values'[v].kind) = PrefixOf(values'[w].kind),
             NEW n \in Name, OwnsName(values'[v], n), OwnsName(values'[w], n)
      PROVE  FALSE
  <2>1. ASSUME NEW t \in {v, w}, OwnsName(values[t], n), t \in 1 .. Len(values), n = name,
               x \in {v, w}
        PROVE  FALSE
    <3>1. values'[t].kind = values[t].kind
      BY ONLY <2>1, Retained(x, name) DEF Retained
    <3>2. n \in Taken(values[t].kind)
      BY ONLY <1>2, <2>1, <3>1, NamesInv DEF NamesInv, Kind
    <3>3. PrefixOf(values[t].kind) = PrefixOf(values'[x].kind) /\ x \in 1 .. Len(values')
      BY ONLY <1>2, <2>1, <3>1
    <3>4. (values[t].kind \in Globals) = (values'[x].kind \in Globals)
      BY ONLY <3>3 DEF PrefixOf
    <3>5. n \in Taken(values'[x].kind)
      BY ONLY <3>2, <3>4 DEF Taken
    <3>. QED
      BY ONLY <2>1, <3>3, <3>5, Retained(x, name) DEF Retained
  <2>2. \/ v \in 1 .. Len(values) /\ OwnsName(values[v], n)
        \/ v = x /\ n = name
    BY ONLY <1>2, Retained(x, name) DEF Retained
  <2>3. \/ w \in 1 .. Len(values) /\ OwnsName(values[w], n)
        \/ w = x /\ n = name
    BY ONLY <1>2, Retained(x, name) DEF Retained
  <2>4. CASE v \in 1 .. Len(values) /\ w \in 1 .. Len(values)
    <3>1. values'[v].kind = values[v].kind /\ values'[w].kind = values[w].kind
      BY ONLY <2>4, Retained(x, name) DEF Retained
    <3>2. ~(OwnsName(values[v], n) /\ OwnsName(values[w], n))
      BY ONLY <1>2, <2>4, <3>1, NamesInv DEF NamesInv, Kind
    <3>. QED
      BY ONLY <1>2, <2>1, <2>2, <2>3, <2>4, <3>2
  <2>. QED
    BY ONLY <1>2, <2>1, <2>2, <2>3, <2>4
<1>3. \A v \in 1 .. Len(values') : values'[v].kind # "const" =>
          \/ values'[v].ref = NoRef
          \/ \E n \in Name : values'[v].ref = <<PrefixOf(values'[v].kind)>> \o n
  BY ONLY Retained(x, name) DEF Retained
<1>. QED
  BY ONLY <1>1, <1>2, <1>3 DEF NamesInv, Kind, Taken

\* The name of a value, and of the reference that is cached when it is asked for.
LEMMA NamesOfReference ==
  ASSUME ValuesInv, NamesInv, NEW v \in 1 .. Len(values), Kind(v) # "const"
  PROVE  /\ \E n \in Name : Reference(v) = <<PrefixOf(Kind(v))>> \o n /\ OwnsName(values[v], n)
         /\ FreshReference(v) = <<PrefixOf(Kind(v))>> \o values[v].name
         /\ values[v].name \in Name /\ OwnsName(values[v], values[v].name)
<1>1. values[v].name \in Name
  BY DEF ValuesInv
<1>2. FreshReference(v) = <<PrefixOf(Kind(v))>> \o values[v].name
  BY ONLY TRUE DEF FreshReference, PrefixOf, IsGlobal
<1>3. OwnsName(values[v], values[v].name)
  BY ONLY TRUE DEF OwnsName
<1>4. \E n \in Name : Reference(v) = <<PrefixOf(Kind(v))>> \o n /\ OwnsName(values[v], n)
  <2>1. CASE values[v].ref = NoRef
    BY ONLY <1>1, <1>2, <1>3, <2>1 DEF Reference
  <2>2. CASE values[v].ref # NoRef
    <3>1. PICK n \in Name : values[v].ref = <<PrefixOf(Kind(v))>> \o n
      BY ONLY <2>2, NamesInv, v \in 1 .. Len(values), Kind(v) # "const" DEF NamesInv
    <3>2. OwnsName(values[v], n)
      BY ONLY <3>1 DEF OwnsName, Kind
    <3>3. Reference(v) = values[v].ref
      BY ONLY <2>2 DEF Reference
    <3>. QED
      BY ONLY <3>1, <3>2, <3>3
  <2>. QED
    BY ONLY <2>1, <2>2
<1>. QED
  BY ONLY <1>1, <1>2, <1>3, <1>4

\* A value that keeps its name, whose reference is as it was or the one just cached, has
\* no name it had not.
LEMMA CachedNames ==
  ASSUME ValuesInv, NamesInv, NEW v \in 1 .. Len(values), Kind(v) # "const",
         NEW s, s.kind = Kind(v), s.name = values[v].name,
         s.ref = values[v].ref \/ s.ref = Reference(v)
  PROVE  /\ s.ref = NoRef \/ \E n \in Name : s.ref = <<PrefixOf(s.kind)>> \o n
         /\ \A n \in Name : OwnsName(s, n) => OwnsName(values[v], n)
<1>1. PICK m \in Name : Reference(v) = <<PrefixOf(Kind(v))>> \o m /\ OwnsName(values[v], m)
  BY ONLY ValuesInv, NamesInv, v \in 1 .. Len(values), Kind(v) # "const", NamesOfReference
<1>2. s.ref = NoRef \/ \E n \in Name : s.ref = <<PrefixOf(s.kind)>> \o n
  BY ONLY <1>1, NamesInv, v \in 1 .. Len(values), Kind(v) # "const", s.kind = Kind(v),
     s.ref = values[v].ref \/ s.ref = Reference(v) DEF NamesInv
<1>3. ASSUME NEW n \in Name, OwnsName(s, n) PROVE OwnsName(values[v], n)
  <2>1. CASE s.name = n
    BY ONLY <2>1, s.name = values[v].name DEF OwnsName
  <2>2. CASE s.ref = values[v].ref /\ s.name # n
    BY ONLY <1>3, <2>2, s.kind = Kind(v) DEF OwnsName, Kind
  <2>3. CASE s.ref = Reference(v) /\ s.name # n
    <3>1. <<PrefixOf(Kind(v))>> \o m = <<PrefixOf(Kind(v))>> \o n
      BY ONLY <1>1, <1>3, <2>3, s.kind = Kind(v) DEF OwnsName
    <3>2. m = n
      BY ONLY <3>1, <1>3, ReferenceIs
    <3>. QED
      BY ONLY <1>1, <3>2
  <2>. QED
    BY ONLY <2>1, <2>2, <2>3, s.ref = values[v].ref \/ s.ref = Reference(v)
<1>. QED
  BY ONLY <1>2, <1>3

\* A value that is called what it was, and one that is new.
Recached(v) ==
    /\ values'[v].kind = values[v].kind /\ values'[v].name = values[v].name
    /\ values'[v].ref = values[v].ref \/ values'[v].ref = Reference(v)

Newly(r) == r.kind = "const" \/ (r.ref = NoRef /\ Takes(r.kind, r.name))

\* The names that values have after a step that renames none.
LEMMA RecachedNames ==
  ASSUME ValuesInv, NamesInv, meta.scope.used \subseteq meta'.scope.used,
         scope.used \subseteq scope'.used, NEW extra \in {0, 1}, Over(values, values', extra),
         \A v \in 1 .. Len(values) : Recached(v),
         extra = 1 => Newly(values'[Len(values) + 1])
  PROVE  NamesInv'
<1>1. Len(values) \in Nat /\ Len(values') = Len(values) + extra
  BY ONLY Over(values, values', extra) DEF Over
<1>0. 0 \notin 1 .. Len(values')
  <2>1. Len(values') \in Nat
    BY ONLY <1>1, extra \in {0, 1}
  <2>2. \A m \in Nat : 0 \notin 1 .. m
    OBVIOUS
  <2>. QED
    BY ONLY <2>1, <2>2
<1>2. ASSUME NEW v \in 1 .. Len(values), values'[v].kind # "const"
      PROVE  /\ values'[v].ref = NoRef
                    \/ \E n \in Name : values'[v].ref = <<PrefixOf(values'[v].kind)>> \o n
             /\ \A n \in Name : OwnsName(values'[v], n) => OwnsName(values[v], n)
  <2>1. PICK s : s = values'[v]
    OBVIOUS
  <2>2. /\ s.kind = Kind(v) /\ s.name = values[v].name
        /\ s.ref = values[v].ref \/ s.ref = Reference(v)
    BY ONLY <1>2, <2>1, \A w \in 1 .. Len(values) : Recached(w) DEF Recached, Kind
  <2>3. Kind(v) # "const"
    BY ONLY <1>2, <2>1, <2>2
  <2>4. /\ s.ref = NoRef \/ \E n \in Name : s.ref = <<PrefixOf(s.kind)>> \o n
        /\ \A n \in Name : OwnsName(s, n) => OwnsName(values[v], n)
    BY ONLY ValuesInv, NamesInv, <2>2, <2>3, CachedNames
  <2>. QED
    BY ONLY <2>1, <2>4
<1>3. \A v \in 1 .. Len(values) : values'[v].kind = values[v].kind
  BY ONLY \A v \in 1 .. Len(values) : Recached(v) DEF Recached
<1>4. CASE extra = 0
  <2>1. PICK x, name : x = 0 /\ name = <<"">>
    OBVIOUS
  <2>2. x \notin 1 .. Len(values') /\ Len(values') = Len(values)
    <3>1. x \notin 1 .. Len(values')
      BY ONLY <1>0, <2>1
    <3>2. Len(values') = Len(values)
      BY ONLY <1>1, <1>4
    <3>. QED
      BY ONLY <3>1, <3>2
  <2>3. Retained(x, name)
    BY ONLY <1>2, <1>3, <2>2 DEF Retained
  <2>. QED
    BY ONLY NamesInv, meta.scope.used \subseteq meta'.scope.used,
            scope.used \subseteq scope'.used, <2>3, KeptNames
<1>5. CASE extra = 1
  <2>1. PICK x, r : x = Len(values) + 1 /\ r = values'[x]
    OBVIOUS
  <2>2. /\ x \in 1 .. Len(values') /\ Newly(r)
        /\ \A v \in 1 .. Len(values') : v \in 1 .. Len(values) \/ v = x
    BY ONLY <1>1, <1>5, <2>1, extra = 1 => Newly(values'[Len(values) + 1])
  <2>3. CASE r.kind # "const"
    <3>1. r.ref = NoRef /\ Takes(r.kind, r.name)
      BY ONLY <2>2, <2>3 DEF Newly
    <3>2. /\ r.name \notin Taken(r.kind)
          /\ r.name \in (IF r.kind \in Globals THEN meta'.scope.used ELSE scope'.used)
      BY ONLY <3>1 DEF Takes
    <3>3. \A n \in Name : OwnsName(r, n) => n = r.name
      BY ONLY <3>1, ReferenceIs DEF OwnsName, NoRef
    <3>4. Retained(x, r.name)
      BY ONLY <1>2, <1>3, <2>1, <2>2, <3>1, <3>2, <3>3 DEF Retained
    <3>. QED
      BY ONLY NamesInv, meta.scope.used \subseteq meta'.scope.used,
              scope.used \subseteq scope'.used, <3>4, KeptNames
  <2>4. CASE r.kind = "const"
    <3>1. PICK y, name : y = 0 /\ name = <<"">>
      OBVIOUS
    <3>2. y \notin 1 .. Len(values')
      BY ONLY <1>0, <3>1
    <3>3. \A v \in 1 .. Len(values') : values'[v].kind # "const" => v \in 1 .. Len(values)
      BY ONLY <2>1, <2>2, <2>4
    <3>4. Retained(y, name)
      BY ONLY <1>2, <1>3, <3>2, <3>3 DEF Retained
    <3>. QED
      BY ONLY NamesInv, meta.scope.used \subseteq meta'.scope.used,
              scope.used \subseteq scope'.used, <3>4, KeptNames
  <2>. QED
    BY ONLY <2>3, <2>4
<1>. QED
  BY ONLY <1>4, <1>5, extra \in {0, 1}

\* A value that gets another name, whose reference stays.
LEMMA RenamedNames ==
  ASSUME ValuesInv, NamesInv, meta.scope.used \subseteq meta'.scope.used,
         scope.used \subseteq scope'.used, NEW v, NEW name, Renaming(v, name)
  PROVE  NamesInv'
<1>1. PICK r, s : r = values[v] /\ s = values'[v]
  OBVIOUS
<1>2. /\ Edited(values, values', v,
                Value(r.kind, name, r.ref, r.text, r.md, r.operands, r.own, r.fixed))
      /\ Kind(v) # "const" /\ Takes(Kind(v), name)
  BY ONLY <1>1, Renaming(v, name) DEF Renaming
<1>3. /\ v \in 1 .. Len(values) /\ Len(values') = Len(values)
      /\ s = Value(r.kind, name, r.ref, r.text, r.md, r.operands, r.own, r.fixed)
      /\ \A w \in 1 .. Len(values) : w # v => values'[w] = values[w]
  BY ONLY <1>1, <1>2 DEF Edited
<1>4. s.kind = r.kind /\ s.name = name /\ s.ref = r.ref /\ Kind(v) = r.kind
  BY ONLY <1>1, <1>3 DEF Value, Kind
<1>5. /\ name \notin Taken(r.kind)
      /\ name \in (IF r.kind \in Globals THEN meta'.scope.used ELSE scope'.used)
  BY ONLY <1>2, <1>4 DEF Takes
<1>6. \A n : OwnsName(s, n) => OwnsName(r, n) \/ n = name
  BY ONLY <1>4 DEF OwnsName
<1>7. \A w \in 1 .. Len(values) : values[w].kind # "const" =>
          values[w].ref = NoRef
             \/ \E n \in Name : values[w].ref = <<PrefixOf(values[w].kind)>> \o n
  BY ONLY NamesInv DEF NamesInv, Kind
<1>8. Retained(v, name)
  BY ONLY <1>1, <1>3, <1>4, <1>5, <1>6, <1>7 DEF Retained
<1>. QED
  BY ONLY NamesInv, meta.scope.used \subseteq meta'.scope.used,
          scope.used \subseteq scope'.used, <1>8, KeptNames

\* A value that is written anew with its kind and its name is called so.
LEMMA RecachedIs ==
  ASSUME NEW v, NEW ref, NEW text, NEW md, NEW operands, NEW own, NEW fixed,
         values'[v] = Value(values[v].kind, values[v].name, ref, text, md, operands, own, fixed),
         ref = values[v].ref \/ ref = Reference(v)
  PROVE  Recached(v)
<1>1. values'[v].kind = values[v].kind /\ values'[v].name = values[v].name /\ values'[v].ref = ref
  BY ONLY values'[v] = Value(values[v].kind, values[v].name, ref, text, md, operands, own, fixed)
  DEF Value
<1>. QED
  BY ONLY <1>1, ref = values[v].ref \/ ref = Reference(v) DEF Recached

\* In the steps that rename nothing, every value is called what it was.
LEMMA NamesNext ==
  ASSUME ValuesInv, NamesInv, ScopeOK(scope), ValueStep
  PROVE  NamesInv'
<1>. DEFINE Stays == meta.scope.used \subseteq meta'.scope.used /\ scope.used \subseteq scope'.used
<1>1. Stays
  BY ONLY ScopeOK(scope), ValueStep, LocalNamesStay
<1>2. ASSUME \E extra \in {0, 1} : /\ Over(values, values', extra)
                                   /\ \A v \in 1 .. Len(values) : Recached(v)
                                   /\ extra = 1 => Newly(values'[Len(values) + 1])
      PROVE  NamesInv'
  BY ONLY ValuesInv, NamesInv, <1>1, <1>2, RecachedNames
<1>. HIDE DEF Stays
<1>3. \A v : values'[v] = values[v] => Recached(v)
  BY ONLY TRUE DEF Recached
<1>4. CASE UNCHANGED <<values, scope>>
  <2>1. values \in Seq(ToSet(values)) /\ Len(values) \in Nat
    BY LenProperties DEF ValuesInv
  <2>2. Over(values, values', 0)
    BY ONLY <1>4, <2>1 DEF Over
  <2>. QED
    BY ONLY <1>2, <1>3, <1>4, <2>2
<1>5. ASSUME NEW kind, NEW name, NEW ops, Fresh(kind, name, ops) PROVE NamesInv'
  <2>1. Added(values, values', NamedValue(kind, name, ops)) /\ Takes(kind, name)
    BY ONLY <1>5 DEF Fresh
  <2>2. /\ Over(values, values', 1) /\ \A v \in 1 .. Len(values) : values'[v] = values[v]
        /\ values'[Len(values) + 1] = NamedValue(kind, name, ops)
    BY ONLY <2>1 DEF Added, Over
  <2>3. Newly(values'[Len(values) + 1])
    BY ONLY <2>1, <2>2, NamedValueIs DEF Newly, Value
  <2>. QED
    BY ONLY <1>2, <1>3, <2>2, <2>3
<1>6. ASSUME NEW g, Constant(g) PROVE NamesInv'
  <2>1. Over(values, values', 1)
    BY ONLY <1>6 DEF Constant
  <2>2. ASSUME NEW v \in 1 .. Len(values) PROVE Recached(v)
    <3>1. PICK ref, text, md, operands, own, fixed :
            /\ values'[v] = Value(values[v].kind, values[v].name, ref, text, md, operands, own, fixed)
            /\ ref = IF v = g THEN Reference(g) ELSE values[v].ref
      BY ONLY <1>6, <2>2 DEF Constant
    <3>2. ref = values[v].ref \/ ref = Reference(v)
      BY ONLY <3>1
    <3>. QED
      BY ONLY <3>1, <3>2, RecachedIs
  <2>3. values'[Len(values) + 1].kind = "const"
    <3>1. PICK r : /\ r = values'[Len(values) + 1]
                   /\ r = Value("const", <<"">>, Reference(g), NoText, {}, <<g>>, <<>>, FALSE)
      BY ONLY <1>6 DEF Constant
    <3>2. PICK kind, name, ref, text, md, ops, own, fixed :
            /\ kind = "const" /\ name = <<"">> /\ ref = Reference(g) /\ text = NoText /\ md = {}
            /\ ops = <<g>> /\ own = <<>> /\ fixed = FALSE
      OBVIOUS
    <3>3. r = Value(kind, name, ref, text, md, ops, own, fixed)
      BY ONLY <3>1, <3>2
    <3>4. r.kind = kind
      BY ONLY <3>3 DEF Value
    <3>. QED
      BY ONLY <3>1, <3>2, <3>4
  <2>. QED
    BY ONLY <1>2, <2>1, <2>2, <2>3 DEF Newly
<1>7. ASSUME NEW texts, NEW refs, Showing(texts, refs) PROVE NamesInv'
  <2>1. Over(values, values', 0)
    BY ONLY <1>7 DEF Showing
  <2>2. ASSUME NEW v \in 1 .. Len(values) PROVE Recached(v)
    <3>1. PICK ref, text, md, operands, own, fixed :
            /\ values'[v] = Value(values[v].kind, values[v].name, ref, text, md, operands, own, fixed)
            /\ ref = IF v \in refs THEN Reference(v) ELSE values[v].ref
      BY ONLY <1>7, <2>2 DEF Showing
    <3>2. ref = values[v].ref \/ ref = Reference(v)
      BY ONLY <3>1
    <3>. QED
      BY ONLY <3>1, <3>2, RecachedIs
  <2>. QED
    BY ONLY <1>2, <2>1, <2>2
<1>8. ASSUME NEW mds, NEW opss, NEW owns, Retouching(mds, opss, owns) PROVE NamesInv'
  <2>1. Over(values, values', 0)
    BY ONLY <1>8 DEF Retouching
  <2>2. ASSUME NEW v \in 1 .. Len(values) PROVE Recached(v)
    <3>1. PICK ref, text, md, operands, own, fixed :
            /\ values'[v] = Value(values[v].kind, values[v].name, ref, text, md, operands, own, fixed)
            /\ ref = values[v].ref
      BY ONLY <1>8, <2>2 DEF Retouching
    <3>2. ref = values[v].ref \/ ref = Reference(v)
      BY ONLY <3>1
    <3>. QED
      BY ONLY <3>1, <3>2, RecachedIs
  <2>. QED
    BY ONLY <1>2, <2>1, <2>2
<1>9. ASSUME NEW p, NEW kind, NEW name, NEW ops, Replacing(p, kind, name, ops) PROVE NamesInv'
  <2>1. /\ Over(values, values', 1) /\ Takes(kind, name)
        /\ values'[Len(values) + 1] = NamedValue(kind, name, ops)
    BY ONLY <1>9 DEF Replacing
  <2>2. ASSUME NEW v \in 1 .. Len(values) PROVE Recached(v)
    <3>1. values'[v] = values[v] \/ IsPatched(values[v], values'[v], body[p], Len(values) + 1)
      BY ONLY <1>9, <2>2 DEF Replacing
    <3>2. CASE IsPatched(values[v], values'[v], body[p], Len(values) + 1)
      <4>1. PICK ref, text, md, operands, own, fixed :
              /\ values'[v] = Value(values[v].kind, values[v].name, ref, text, md, operands, own, fixed)
              /\ ref = values[v].ref
        BY ONLY <3>2 DEF IsPatched
      <4>. QED
        BY ONLY <4>1, RecachedIs
    <3>. QED
      BY ONLY <1>3, <3>1, <3>2
  <2>3. Newly(values'[Len(values) + 1])
    BY ONLY <2>1, NamedValueIs DEF Newly, Value
  <2>. QED
    BY ONLY <1>2, <2>1, <2>2, <2>3
<1>10. ASSUME NEW v, NEW name, Renaming(v, name) PROVE NamesInv'
  BY ONLY ValuesInv, NamesInv, <1>1, <1>10, RenamedNames DEF Stays
<1>. QED
  BY ONLY ValueStep, <1>4, <1>5, <1>6, <1>7, <1>8, <1>9, <1>10 DEF ValueStep, Emitting

\* In a new module,
LEMMA NamesInit ==
  ASSUME Init
  PROVE  NamesInv
<1>1. PICK a, b : Initial(a, b)
  BY InitFacts
<1>2. PICK f : f = <<"f">>
  OBVIOUS
<1>3. /\ Len(values) = 3 /\ values[1] = NamedValue("function", f, <<>>)
      /\ values[2] = NamedValue("arg", a, <<>>) /\ values[3] = NamedValue("block", b, <<>>)
  BY ONLY <1>1, <1>2 DEF Initial
<1>4. /\ values[1].kind = "function" /\ values[1].name = f /\ values[1].ref = NoRef
      /\ values[2].kind = "arg" /\ values[2].name = a /\ values[2].ref = NoRef
      /\ values[3].kind = "block" /\ values[3].name = b /\ values[3].ref = NoRef
  BY ONLY <1>3 DEF NamedValue
<1>5. /\ f \in meta.scope.used /\ a \in scope.used /\ b \in scope.used /\ a # b
  BY ONLY <1>1, <1>2 DEF Initial
<1>6. \A r, n : n \in Name /\ r.ref = NoRef /\ OwnsName(r, n) => r.name = n
  BY ONLY ReferenceIs DEF OwnsName, NoRef
<1>7. \A v \in 1 .. Len(values) : v = 1 \/ v = 2 \/ v = 3
  BY ONLY <1>3
<1>8. \A v \in 1 .. Len(values) : \A n \in Name : OwnsName(values[v], n) => n \in Taken(Kind(v))
  BY ONLY <1>4, <1>5, <1>6, <1>7 DEF Taken, Kind, Globals
<1>9. PrefixOf("function") # PrefixOf("arg") /\ PrefixOf("function") # PrefixOf("block")
  BY ONLY TRUE DEF PrefixOf, Globals
<1>10. \A v, w \in 1 .. Len(values) : v # w /\ PrefixOf(Kind(v)) = PrefixOf(Kind(w)) =>
          values[v].name # values[w].name
  BY ONLY <1>4, <1>5, <1>7, <1>9 DEF Kind
<1>11. \A v \in 1 .. Len(values) : values[v].ref = NoRef
  BY ONLY <1>4, <1>7
<1>. QED
  BY ONLY <1>6, <1>8, <1>10, <1>11 DEF NamesInv

\* What is defined is defined under a name it owns, and no other has.
LEMMA OwnNames ==
  ASSUME ValuesInv, NamesInv
  PROVE  DefinitionsDistinct
<1>1. Live \subseteq 1 .. Len(values)
  BY ONLY ValuesInv, LiveFacts
<1>2. ASSUME NEW v \in Definitions
      PROVE  /\ v \in 1 .. Len(values) /\ Kind(v) # "const"
             /\ \E n \in Name : /\ Defined(v) = <<PrefixOf(Kind(v))>> \o n
                                /\ OwnsName(values[v], n)
  <2>1. v \in 1 .. Len(values) /\ Kind(v) # "const"
    BY ONLY <1>1, <1>2 DEF Definitions
  <2>2. Defined(v) = FreshReference(v) \/ Defined(v) = Reference(v)
    BY ONLY <2>1 DEF Defined
  <2>3. /\ \E n \in Name : Reference(v) = <<PrefixOf(Kind(v))>> \o n /\ OwnsName(values[v], n)
        /\ FreshReference(v) = <<PrefixOf(Kind(v))>> \o values[v].name
        /\ values[v].name \in Name /\ OwnsName(values[v], values[v].name)
    BY ONLY ValuesInv, NamesInv, <2>1, NamesOfReference
  <2>. QED
    BY ONLY <2>1, <2>2, <2>3
<1>3. ASSUME NEW v \in Definitions, NEW w \in Definitions, v # w, Defined(v) = Defined(w)
      PROVE  FALSE
  <2>1. PICK m \in Name : Defined(v) = <<PrefixOf(Kind(v))>> \o m /\ OwnsName(values[v], m)
    BY ONLY <1>2, <1>3
  <2>2. PICK n \in Name : Defined(w) = <<PrefixOf(Kind(w))>> \o n /\ OwnsName(values[w], n)
    BY ONLY <1>2, <1>3
  <2>3. <<PrefixOf(Kind(v))>> \o m = <<PrefixOf(Kind(w))>> \o n
    BY ONLY <1>3, <2>1, <2>2
  <2>4. PrefixOf(Kind(v)) = PrefixOf(Kind(w)) /\ m = n
    BY ONLY <2>3, ReferenceIs
  <2>. QED
    BY ONLY <1>2, <1>3, <2>1, <2>2, <2>4, NamesInv DEF NamesInv
<1>. QED
  BY ONLY <1>3 DEF DefinitionsDistinct

-----------------------------------------------------------------------------
(* The order of the block *)

\* An instruction that is in the block before the k-th place.
Earlier(b, k, o) == \E j \in 1 .. k - 1 : b[j] = o

OrderInv ==
    \A k \in 1 .. Len(body) : values[body[k]].kind # "phi" =>
        \A o \in ToSet(values[body[k]].operands) :
            values[o].kind \in Instructions => Earlier(body, k, o)

\* The order is that of definitions and uses.
LEMMA OrderIs ==
  ASSUME ValuesInv, OrderInv
  PROVE  DefinedBeforeUse
<1>1. DOMAIN body = 1 .. Len(body)
  BY ONLY ValuesInv, LiveFacts
<1>. QED
  BY ONLY <1>1, OrderInv DEF OrderInv, DefinedBeforeUse, Means, Kind, Earlier

\* A value of the block, and its operands, are values.
LEMMA BlockFacts ==
  ASSUME ValuesInv
  PROVE  /\ Len(values) \in Nat /\ Len(body) \in Nat
         /\ \A k \in 1 .. Len(body) : body[k] \in 1 .. Len(values)
                                      /\ values[body[k]].kind \in Instructions
         /\ \A j, k \in 1 .. Len(body) : body[j] = body[k] => j = k
         /\ \A v \in 1 .. Len(values) : /\ values[v].operands \in Seq(1 .. Len(values))
                                        /\ values[v].own \in Seq(1 .. Len(values))
         /\ \A v \in 1 .. Len(values) : \A o \in ToSet(values[v].operands) : o \in 1 .. Len(values)
         /\ \A v \in 1 .. Len(values) : \A o \in ToSet(values[v].own) : o \in 1 .. Len(values)
<1>1. /\ body \in Seq(1 .. Len(values)) /\ values \in Seq(ToSet(values))
      /\ \A k \in 1 .. Len(body) : values[body[k]].kind \in Instructions
      /\ \A j, k \in 1 .. Len(body) : body[j] = body[k] => j = k
      /\ \A v \in 1 .. Len(values) : /\ values[v].operands \in Seq(1 .. Len(values))
                                     /\ values[v].own \in Seq(1 .. Len(values))
  BY ONLY ValuesInv DEF ValuesInv, Kind
<1>2. \A S : \A s \in Seq(S) : \A o \in ToSet(s) : o \in S
  BY DEF ToSet
<1>3. Len(values) \in Nat /\ Len(body) \in Nat
  BY ONLY <1>1, LenProperties
<1>4. \A k \in 1 .. Len(body) : body[k] \in 1 .. Len(values)
  BY ONLY <1>1
<1>5. /\ \A v \in 1 .. Len(values) : \A o \in ToSet(values[v].operands) : o \in 1 .. Len(values)
      /\ \A v \in 1 .. Len(values) : \A o \in ToSet(values[v].own) : o \in 1 .. Len(values)
  <2>1. PICK S : S = 1 .. Len(values)
    OBVIOUS
  <2>. QED
    BY ONLY <1>1, <1>2, <2>1
<1>. QED
  BY ONLY <1>1, <1>3, <1>4, <1>5

\* The order is kept when the block is, and an instruction has no operand it had not but
\* such as are no instructions.
LEMMA OrderKept ==
  ASSUME ValuesInv, OrderInv, body' = body,
         \A v \in 1 .. Len(values) : values'[v].kind = values[v].kind,
         \A v \in 1 .. Len(values) : values[v].kind \in Instructions =>
             \A o \in ToSet(values'[v].operands) :
                 /\ o \in 1 .. Len(values)
                 /\ o \in ToSet(values[v].operands) \/ values[o].kind \notin Instructions
  PROVE  OrderInv'
<1>1. ASSUME NEW k \in 1 .. Len(body), values'[body[k]].kind # "phi",
             NEW o \in ToSet(values'[body[k]].operands), values'[o].kind \in Instructions
      PROVE  Earlier(body, k, o)
  <2>1. body[k] \in 1 .. Len(values) /\ values[body[k]].kind \in Instructions
    BY ONLY ValuesInv, <1>1, BlockFacts
  <2>2. /\ o \in 1 .. Len(values)
        /\ o \in ToSet(values[body[k]].operands) \/ values[o].kind \notin Instructions
    BY ONLY <1>1, <2>1,
         \A v \in 1 .. Len(values) : values[v].kind \in Instructions =>
             \A q \in ToSet(values'[v].operands) :
                 /\ q \in 1 .. Len(values)
                 /\ q \in ToSet(values[v].operands) \/ values[q].kind \notin Instructions
  <2>3. values[o].kind \in Instructions /\ values[body[k]].kind # "phi"
    BY ONLY <1>1, <2>1, <2>2, \A v \in 1 .. Len(values) : values'[v].kind = values[v].kind
  <2>. QED
    BY ONLY <1>1, <2>2, <2>3, OrderInv DEF OrderInv
<1>. QED
  BY ONLY <1>1, body' = body DEF OrderInv

\* An instruction at the end uses what is before it,
LEMMA EmittedOrder ==
  ASSUME ValuesInv, OrderInv, NEW kind, NEW name, NEW ops, Emitting(kind, name, ops)
  PROVE  OrderInv'
<1>1. PICK n, l : n = Len(values) /\ l = Len(body)
  OBVIOUS
<1>2. /\ Added(values, values', NamedValue(kind, name, ops)) /\ Added(body, body', n + 1)
      /\ ops \in Seq(1 .. n)
      /\ \A o \in ToSet(ops) : values[o].kind \in Instructions => o \in ToSet(body)
  BY ONLY <1>1, Emitting(kind, name, ops) DEF Emitting, Fresh, Kind
<1>3. /\ n \in Nat /\ values'[n + 1] = NamedValue(kind, name, ops)
      /\ \A v \in 1 .. n : values'[v] = values[v]
      /\ l \in Nat /\ Len(body') = l + 1 /\ body'[l + 1] = n + 1
      /\ \A k \in 1 .. l : body'[k] = body[k]
  BY ONLY <1>1, <1>2 DEF Added
<1>4. values'[n + 1].operands = ops
  BY ONLY <1>3 DEF NamedValue
<1>5. /\ \A k \in 1 .. l : body[k] \in 1 .. n
      /\ \A v \in 1 .. n : \A o \in ToSet(values[v].operands) : o \in 1 .. n
  BY ONLY <1>1, ValuesInv, BlockFacts
<1>6. \A o \in ToSet(ops) : o \in 1 .. n
  <2>1. \A S : \A s \in Seq(S) : \A o \in ToSet(s) : o \in S
    BY DEF ToSet
  <2>. QED
    BY ONLY <1>2, <2>1
<1>7. ASSUME NEW k \in 1 .. l, NEW o, Earlier(body, k, o) PROVE Earlier(body', k, o)
  BY ONLY <1>3, <1>7 DEF Earlier
<1>8. ASSUME NEW k \in 1 .. l + 1, values'[body'[k]].kind # "phi",
             NEW o \in ToSet(values'[body'[k]].operands), values'[o].kind \in Instructions
      PROVE  Earlier(body', k, o)
  <2>1. CASE k \in 1 .. l
    <3>1. body'[k] = body[k] /\ body[k] \in 1 .. n /\ values'[body'[k]] = values[body[k]]
      BY ONLY <1>3, <1>5, <2>1
    <3>2. o \in 1 .. n
      BY ONLY <1>5, <1>8, <3>1
    <3>3. values[o].kind \in Instructions
      BY ONLY <1>3, <1>8, <3>2
    <3>4. Earlier(body, k, o)
      BY ONLY <1>1, <1>8, <2>1, <3>1, <3>3, OrderInv DEF OrderInv
    <3>. QED
      BY ONLY <1>7, <2>1, <3>4
  <2>2. CASE k = l + 1
    <3>1. o \in ToSet(ops)
      BY ONLY <1>3, <1>4, <1>8, <2>2
    <3>2. values[o].kind \in Instructions
      BY ONLY <1>3, <1>6, <1>8, <3>1
    <3>3. PICK j \in 1 .. l : body[j] = o
      BY ONLY <1>1, <1>2, <3>1, <3>2, ValuesInv, LiveFacts
    <3>4. j \in 1 .. k - 1 /\ body'[j] = o
      BY ONLY <1>3, <2>2, <3>3
    <3>. QED
      BY ONLY <3>4 DEF Earlier
  <2>. QED
    BY ONLY <1>3, <1>8, <2>1, <2>2
<1>. QED
  BY ONLY <1>3, <1>8 DEF OrderInv

\* and one that replaces another is where that was.
LEMMA ReplacedOrder ==
  ASSUME ValuesInv, OrderInv, NEW p, NEW kind, NEW name, NEW ops, Replacing(p, kind, name, ops)
  PROVE  OrderInv'
<1>1. PICK n, l, old : n = Len(values) /\ l = Len(body) /\ old = body[p]
  OBVIOUS
<1>2. /\ p \in 1 .. l /\ values'[n + 1] = NamedValue(kind, name, ops)
      /\ \A v \in 1 .. n : IF v \in ToSet(body) \ {old} THEN IsPatched(values[v], values'[v], old, n + 1)
                           ELSE values'[v] = values[v]
      /\ Edited(body, body', p, n + 1)
      /\ ops \in Seq(1 .. n)
      /\ \A o \in ToSet(ops) : values[o].kind \in Instructions => Earlier(body, p, o)
  BY ONLY <1>1, Replacing(p, kind, name, ops) DEF Replacing, Kind, Earlier
<1>3. /\ l \in Nat /\ Len(body') = l /\ body'[p] = n + 1
      /\ \A k \in 1 .. l : k # p => body'[k] = body[k]
  BY ONLY <1>1, <1>2 DEF Edited
<1>4. /\ n \in Nat
      /\ \A k \in 1 .. l : body[k] \in 1 .. n /\ values[body[k]].kind \in Instructions
      /\ \A j, k \in 1 .. l : body[j] = body[k] => j = k
      /\ \A v \in 1 .. n : values[v].operands \in Seq(1 .. n)
      /\ \A v \in 1 .. n : \A o \in ToSet(values[v].operands) : o \in 1 .. n
      /\ \A k \in 1 .. l : body[k] \in ToSet(body)
  BY ONLY <1>1, ValuesInv, BlockFacts, LiveFacts
<1>5. \A o \in ToSet(ops) : o \in 1 .. n
  <2>1. \A S : \A s \in Seq(S) : \A o \in ToSet(s) : o \in S
    BY DEF ToSet
  <2>. QED
    BY ONLY <1>2, <2>1
<1>6. ASSUME NEW v \in 1 .. n PROVE values'[v].kind = values[v].kind
  <2>1. CASE IsPatched(values[v], values'[v], old, n + 1)
    <3>1. PICK text, os, own, fixed :
            values'[v] = Value(values[v].kind, values[v].name, values[v].ref, text, values[v].md,
                               os, own, fixed)
      BY ONLY <2>1 DEF IsPatched
    <3>. QED
      BY ONLY <3>1 DEF Value
  <2>. QED
    BY ONLY <1>2, <1>6, <2>1
<1>7. ASSUME NEW k \in 1 .. l, NEW o, o # old, Earlier(body, k, o) PROVE Earlier(body', k, o)
  <2>1. PICK j \in 1 .. k - 1 : body[j] = o
    BY ONLY <1>7 DEF Earlier
  <2>2. j \in 1 .. l /\ j # p
    BY ONLY <1>1, <1>3, <1>7, <2>1
  <2>. QED
    BY ONLY <1>3, <2>1, <2>2 DEF Earlier
<1>8. ASSUME NEW k \in 1 .. l, values'[body'[k]].kind # "phi",
             NEW o \in ToSet(values'[body'[k]].operands), values'[o].kind \in Instructions
      PROVE  Earlier(body', k, o)
  <2>1. CASE k = p
    <3>1. values'[body'[k]].operands = ops
      BY ONLY <1>2, <1>3, <2>1 DEF NamedValue
    <3>2. o \in 1 .. n /\ o \in ToSet(ops)
      BY ONLY <1>5, <1>8, <3>1
    <3>3. values[o].kind \in Instructions
      BY ONLY <1>6, <1>8, <3>2
    <3>4. Earlier(body, p, o)
      BY ONLY <1>2, <3>2, <3>3
    <3>5. o # old
      <4>1. PICK j \in 1 .. p - 1 : body[j] = o
        BY ONLY <3>4 DEF Earlier
      <4>2. j \in 1 .. l /\ j # p
        BY ONLY <1>2, <1>3, <4>1
      <4>. QED
        BY ONLY <1>1, <1>2, <1>4, <4>1, <4>2
    <3>. QED
      BY ONLY <1>2, <1>7, <2>1, <3>4, <3>5
  <2>2. CASE k # p
    <3>1. PICK v \in 1 .. n : v = body[k] /\ v = body'[k] /\ v \in ToSet(body) \ {old}
      BY ONLY <1>1, <1>2, <1>3, <1>4, <2>2
    <3>2. values[v].kind # "phi" /\ values'[v].kind = values[v].kind
      BY ONLY <1>6, <1>8, <3>1
    <3>3. IsPatched(values[v], values'[v], old, n + 1)
      BY ONLY <1>2, <3>1
    <3>4. values'[v].operands = Substituted(values[v].operands, old, n + 1)
      <4>1. PICK text, os, own, fixed :
            /\ values'[v] = Value(values[v].kind, values[v].name, values[v].ref, text, values[v].md,
                                  os, own, fixed)
            /\ os = Substituted(values[v].operands, old, n + 1)
        BY ONLY <3>2, <3>3 DEF IsPatched
      <4>. QED
        BY ONLY <4>1 DEF Value
    <3>5. \/ o = n + 1 /\ old \in ToSet(values[v].operands)
          \/ o # old /\ o \in ToSet(values[v].operands)
      <4>1. PICK us : us = values[v].operands
        OBVIOUS
      <4>2. o \in ToSet(Substituted(us, old, n + 1))
        BY ONLY <1>8, <3>1, <3>4, <4>1
      <4>3. PICK i \in DOMAIN us : o = IF us[i] = old THEN n + 1 ELSE us[i]
        BY ONLY <4>2 DEF ToSet, Substituted
      <4>4. us[i] \in ToSet(us)
        BY DEF ToSet
      <4>5. CASE us[i] = old
        BY ONLY <4>1, <4>3, <4>4, <4>5
      <4>6. CASE us[i] # old
        BY ONLY <4>1, <4>3, <4>4, <4>6
      <4>. QED
        BY ONLY <4>5, <4>6
    <3>6. \A q \in ToSet(values[v].operands) : values[q].kind \in Instructions => Earlier(body, k, q)
      BY ONLY <1>1, <3>1, <3>2, OrderInv DEF OrderInv
    <3>7. CASE o = n + 1 /\ old \in ToSet(values[v].operands)
      <4>1. Earlier(body, k, old)
        BY ONLY <1>1, <1>2, <1>4, <3>6, <3>7
      <4>2. PICK j \in 1 .. k - 1 : body[j] = old
        BY ONLY <4>1 DEF Earlier
      <4>3. j = p
        <5>1. j \in 1 .. l
          BY ONLY <1>3, <1>8, <4>2
        <5>. QED
          BY ONLY <1>1, <1>2, <1>4, <4>2, <5>1
      <4>. QED
        BY ONLY <1>3, <3>7, <4>2, <4>3 DEF Earlier
    <3>8. CASE o # old /\ o \in ToSet(values[v].operands)
      <4>1. o \in 1 .. n
        BY ONLY <1>4, <3>8
      <4>2. values[o].kind \in Instructions
        BY ONLY <1>6, <1>8, <4>1
      <4>. QED
        BY ONLY <1>7, <3>6, <3>8, <4>2
    <3>. QED
      BY ONLY <3>5, <3>7, <3>8
  <2>. QED
    BY ONLY <2>1, <2>2
<1>. QED
  BY ONLY <1>3, <1>8 DEF OrderInv

\* The block stays in order in every step.
LEMMA OrderNext ==
  ASSUME ValuesInv, OrderInv, ValueStep
  PROVE  OrderInv'
<1>. DEFINE Less(v) == \A o \in ToSet(values'[v].operands) :
                          /\ o \in 1 .. Len(values)
                          /\ o \in ToSet(values[v].operands) \/ values[o].kind \notin Instructions
            Same(v) == values'[v].kind = values[v].kind /\ values'[v].operands = values[v].operands
<1>1. ASSUME NEW v \in 1 .. Len(values), Same(v)
      PROVE  values'[v].kind = values[v].kind /\ (values[v].kind \in Instructions => Less(v))
  BY ONLY <1>1, ValuesInv, BlockFacts
<1>2. ASSUME \A v \in 1 .. Len(values) :
               values'[v].kind = values[v].kind /\ (values[v].kind \in Instructions => Less(v)),
             body' = body
      PROVE  OrderInv'
  BY ONLY <1>2, ValuesInv, OrderInv, OrderKept
<1>. HIDE DEF Less
<1>3. ASSUME \A v \in 1 .. Len(values) : Same(v), body' = body PROVE OrderInv'
  BY ONLY <1>1, <1>2, <1>3
<1>4. ASSUME NEW v, NEW name, NEW ref, NEW text, NEW md, NEW own, NEW fixed,
             values'[v] = Value(values[v].kind, name, ref, text, md, values[v].operands, own, fixed)
      PROVE  Same(v)
  BY ONLY <1>4 DEF Value
<1>5. CASE UNCHANGED <<values, body>>
  BY ONLY <1>3, <1>5
<1>6. ASSUME NEW kind, NEW name, Fresh(kind, name, <<>>), body' = body PROVE OrderInv'
  <2>1. \A v \in 1 .. Len(values) : values'[v] = values[v]
    BY ONLY <1>6 DEF Fresh, Added
  <2>. QED
    BY ONLY <1>3, <1>6, <2>1
<1>7. ASSUME NEW g, Constant(g) PROVE OrderInv'
  <2>1. ASSUME NEW v \in 1 .. Len(values) PROVE Same(v)
    <3>1. \E name, ref, text, md, own, fixed :
            values'[v] = Value(values[v].kind, name, ref, text, md, values[v].operands, own, fixed)
      BY ONLY <1>7, <2>1, ZenonT(60) DEF Constant
    <3>. QED
      BY ONLY <1>4, <3>1
  <2>2. body' = body
    BY ONLY <1>7 DEF Constant
  <2>. QED
    BY ONLY <1>3, <2>1, <2>2
<1>8. ASSUME NEW texts, NEW refs, Showing(texts, refs) PROVE OrderInv'
  <2>1. ASSUME NEW v \in 1 .. Len(values) PROVE Same(v)
    <3>1. \E name, ref, text, md, own, fixed :
            values'[v] = Value(values[v].kind, name, ref, text, md, values[v].operands, own, fixed)
      BY ONLY <1>8, <2>1 DEF Showing
    <3>. QED
      BY ONLY <1>4, <3>1
  <2>2. body' = body
    BY ONLY <1>8 DEF Showing
  <2>. QED
    BY ONLY <1>3, <2>1, <2>2
<1>9. ASSUME NEW w, NEW name, Renaming(w, name) PROVE OrderInv'
  <2>1. ASSUME NEW v \in 1 .. Len(values) PROVE Same(v)
    <3>1. values'[v] = values[v] \/ \E n, ref, text, md, own, fixed :
            values'[v] = Value(values[v].kind, n, ref, text, md, values[v].operands, own, fixed)
      BY ONLY <1>9, <2>1 DEF Renaming, Edited
    <3>. QED
      BY ONLY <1>4, <3>1
  <2>2. body' = body
    BY ONLY <1>9 DEF Renaming
  <2>. QED
    BY ONLY <1>3, <2>1, <2>2
<1>10. ASSUME NEW mds, NEW opss, NEW owns, Retouching(mds, opss, owns) PROVE OrderInv'
  <2>1. ASSUME NEW v \in 1 .. Len(values)
        PROVE  values'[v].kind = values[v].kind /\ (values[v].kind \in Instructions => Less(v))
    <3>1. /\ values'[v] = Value(values[v].kind, values[v].name, values[v].ref, values[v].text,
                                mds[v], opss[v], owns[v], values[v].fixed)
          /\ Touch(v, mds[v], opss[v], owns[v])
      BY ONLY <1>10, <2>1 DEF Retouching
    <3>2. values'[v].kind = values[v].kind /\ values'[v].operands = opss[v]
      BY ONLY <3>1 DEF Value
    <3>3. /\ opss[v] \in Seq(1 .. Len(values))
          /\ values[v].kind \in Instructions => \A o \in ToSet(opss[v]) :
                 o \in ToSet(values[v].operands) \/ values[o].kind \notin Instructions
      BY ONLY <3>1 DEF Touch, Kind
    <3>4. \A o \in ToSet(opss[v]) : o \in 1 .. Len(values)
      <4>1. \A S : \A s \in Seq(S) : \A o \in ToSet(s) : o \in S
        BY DEF ToSet
      <4>. QED
        BY ONLY <3>3, <4>1
    <3>. QED
      BY ONLY <3>2, <3>3, <3>4 DEF Less
  <2>2. body' = body
    BY ONLY <1>10 DEF Retouching
  <2>. QED
    BY ONLY <1>2, <2>1, <2>2
<1>. QED
  BY ONLY ValuesInv, OrderInv, ValueStep, <1>5, <1>6, <1>7, <1>8, <1>9, <1>10, EmittedOrder,
          ReplacedOrder DEF ValueStep

\* An empty block is.
LEMMA OrderInit ==
  ASSUME Init
  PROVE  OrderInv
<1>1. body = <<>>
  BY DEF Init
<1>2. 1 .. Len(body) = {}
  BY ONLY <1>1
<1>. QED
  BY ONLY <1>2 DEF OrderInv

-----------------------------------------------------------------------------
(* Texts *)

ReferenceIn(vs, o) ==
    IF vs[o].ref = NoRef THEN <<PrefixOf(vs[o].kind)>> \o vs[o].name ELSE vs[o].ref

ReadsOf(r) == IF r.kind \in {"gep", "phi"} THEN r.own ELSE r.operands

DescribedIn(vs, v) ==
    [defines |-> IF vs[v].kind = "branch" THEN NoRef ELSE ReferenceIn(vs, v),
     uses |-> [k \in DOMAIN ReadsOf(vs[v]) |-> ReferenceIn(vs, ReadsOf(vs[v])[k])],
     md |-> vs[v].md]

\* What a gep reads are its operands; the reference of a block is its name; and that of
\* a constant is the one its global has cached.
Shaped(vs, v) ==
    /\ vs[v].kind = "gep" => vs[v].own = vs[v].operands
    /\ vs[v].kind = "block" /\ vs[v].ref # NoRef => vs[v].ref = <<PrefixOf("block")>> \o vs[v].name
    /\ vs[v].kind = "const" =>
          \E g \in 1 .. Len(vs) : /\ vs[v].operands = <<g>> /\ vs[g].kind \in Globals
                                  /\ vs[g].ref # NoRef /\ vs[v].ref = vs[g].ref

\* A text that is cached is the one that would be written now, and can never become
\* another by itself: what it names has its reference cached.
Settled(vs, v) ==
    vs[v].text # NoText =>
        /\ vs[v].text = DescribedIn(vs, v)
        /\ vs[v].kind # "branch" => vs[v].ref # NoRef
        /\ \A o \in ToSet(ReadsOf(vs[v])) : vs[o].ref # NoRef

TextFine(vs) == \A v \in 1 .. Len(vs) : Shaped(vs, v) /\ Settled(vs, v)

\* So it is unless a caller edits what has been printed.
TextInv == style # "free" => TextFine(values)

\* These are what the model says of its state.
LEMMA TextTerms ==
  ASSUME NEW v
  PROVE  /\ Reference(v) = ReferenceIn(values, v) /\ Reads(v) = ReadsOf(values[v])
         /\ Describe(v) = DescribedIn(values, v)
         /\ FreshReference(v) = <<PrefixOf(Kind(v))>> \o values[v].name
<1>1. \A w : /\ Reference(w) = ReferenceIn(values, w)
             /\ FreshReference(w) = <<PrefixOf(Kind(w))>> \o values[w].name
             /\ Kind(w) = values[w].kind
  BY ONLY TRUE DEF Reference, ReferenceIn, FreshReference, PrefixOf, IsGlobal, Kind
<1>2. \A w : Reads(w) = ReadsOf(values[w])
  BY ONLY TRUE DEF Reads, ReadsOf, Kind
<1>3. Describe(v) = DescribedIn(values, v)
  BY ONLY <1>1, <1>2, Zenon DEF Describe, DescribedIn
<1>. QED
  BY ONLY <1>1, <1>2, <1>3

\* References that have been cached stay.
RefsStay(us, ws) ==
    \A o \in 1 .. Len(us) : us[o].ref # NoRef => ws[o].ref = us[o].ref

\* A text whose value is not edited stays what would be written.
LEMMA SettledStays ==
  ASSUME NEW us, NEW ws, RefsStay(us, ws), NEW v \in 1 .. Len(us), Settled(us, v),
         ToSet(ReadsOf(us[v])) \subseteq 1 .. Len(us), ws[v].kind = us[v].kind,
         ws[v].text = us[v].text, ReadsOf(ws[v]) = ReadsOf(us[v]), ws[v].md = us[v].md
  PROVE  Settled(ws, v)
<1>. SUFFICES ASSUME ws[v].text # NoText
              PROVE  /\ ws[v].text = DescribedIn(ws, v)
                     /\ ws[v].kind # "branch" => ws[v].ref # NoRef
                     /\ \A o \in ToSet(ReadsOf(ws[v])) : ws[o].ref # NoRef
  BY DEF Settled
<1>1. /\ us[v].text = DescribedIn(us, v)
      /\ us[v].kind # "branch" => us[v].ref # NoRef
      /\ \A o \in ToSet(ReadsOf(us[v])) : us[o].ref # NoRef
  BY ONLY Settled(us, v), ws[v].text # NoText, ws[v].text = us[v].text DEF Settled
<1>2. PICK reads : reads = ReadsOf(us[v]) /\ reads = ReadsOf(ws[v])
  BY ONLY ReadsOf(ws[v]) = ReadsOf(us[v])
<1>3. \A o \in 1 .. Len(us) : us[o].ref # NoRef =>
          ws[o].ref # NoRef /\ ReferenceIn(ws, o) = ReferenceIn(us, o)
  BY ONLY RefsStay(us, ws) DEF RefsStay, ReferenceIn
<1>4. \A k \in DOMAIN reads : ReferenceIn(ws, reads[k]) = ReferenceIn(us, reads[k])
  <2>1. ASSUME NEW k \in DOMAIN reads PROVE reads[k] \in ToSet(reads)
    BY DEF ToSet
  <2>. QED
    BY ONLY <1>1, <1>2, <1>3, <2>1, ToSet(ReadsOf(us[v])) \subseteq 1 .. Len(us)
<1>5. \A o \in ToSet(ReadsOf(ws[v])) : ws[o].ref # NoRef
  BY ONLY <1>1, <1>2, <1>3, ToSet(ReadsOf(us[v])) \subseteq 1 .. Len(us)
<1>6. ws[v].kind # "branch" => ws[v].ref # NoRef /\ ReferenceIn(ws, v) = ReferenceIn(us, v)
  BY ONLY <1>1, <1>3, ws[v].kind = us[v].kind
<1>7. (IF ws[v].kind = "branch" THEN NoRef ELSE ReferenceIn(ws, v))
        = (IF us[v].kind = "branch" THEN NoRef ELSE ReferenceIn(us, v))
  BY ONLY <1>6, ws[v].kind = us[v].kind
<1>8. [k \in DOMAIN reads |-> ReferenceIn(ws, reads[k])]
        = [k \in DOMAIN reads |-> ReferenceIn(us, reads[k])]
  BY ONLY <1>4
<1>9. DescribedIn(ws, v) = DescribedIn(us, v)
  BY ONLY <1>2, <1>7, <1>8, ws[v].md = us[v].md DEF DescribedIn
<1>. QED
  BY ONLY <1>1, <1>5, <1>6, <1>9, ws[v].text = us[v].text

\* A value keeps its shape.
LEMMA ShapedStays ==
  ASSUME NEW us, NEW ws, RefsStay(us, ws), 1 .. Len(us) \subseteq 1 .. Len(ws),
         NEW v \in 1 .. Len(us), Shaped(us, v),
         \A o \in 1 .. Len(us) : ws[o].kind = us[o].kind,
         us[v].kind \in {"gep", "const"} =>
             ws[v].operands = us[v].operands /\ ws[v].own = us[v].own,
         us[v].kind = "block" /\ ws[v].ref # NoRef =>
             ws[v].ref = <<PrefixOf("block")>> \o ws[v].name
  PROVE  Shaped(ws, v)
<1>1. ws[v].kind = "gep" => ws[v].own = ws[v].operands
  BY ONLY Shaped(us, v), \A o \in 1 .. Len(us) : ws[o].kind = us[o].kind,
     us[v].kind \in {"gep", "const"} =>
             ws[v].operands = us[v].operands /\ ws[v].own = us[v].own DEF Shaped
<1>2. ws[v].kind = "block" /\ ws[v].ref # NoRef => ws[v].ref = <<PrefixOf("block")>> \o ws[v].name
  BY ONLY \A o \in 1 .. Len(us) : ws[o].kind = us[o].kind, v \in 1 .. Len(us),
     us[v].kind = "block" /\ ws[v].ref # NoRef => ws[v].ref = <<PrefixOf("block")>> \o ws[v].name
<1>3. ASSUME ws[v].kind = "const"
      PROVE  \E g \in 1 .. Len(ws) : /\ ws[v].operands = <<g>> /\ ws[g].kind \in Globals
                                     /\ ws[g].ref # NoRef /\ ws[v].ref = ws[g].ref
  <2>1. us[v].kind = "const" /\ ws[v].operands = us[v].operands
    BY ONLY <1>3, \A o \in 1 .. Len(us) : ws[o].kind = us[o].kind,
       us[v].kind \in {"gep", "const"} =>
             ws[v].operands = us[v].operands /\ ws[v].own = us[v].own
  <2>2. PICK g \in 1 .. Len(us) : /\ us[v].operands = <<g>> /\ us[g].kind \in Globals
                                  /\ us[g].ref # NoRef /\ us[v].ref = us[g].ref
    BY ONLY <2>1, Shaped(us, v) DEF Shaped
  <2>3. ws[g].ref = us[g].ref /\ ws[v].ref = us[v].ref
    BY ONLY <2>2, RefsStay(us, ws), v \in 1 .. Len(us) DEF RefsStay
  <2>4. g \in 1 .. Len(ws) /\ ws[g].kind \in Globals
    BY ONLY <2>2, 1 .. Len(us) \subseteq 1 .. Len(ws),
       \A o \in 1 .. Len(us) : ws[o].kind = us[o].kind
  <2>. QED
    BY ONLY <2>1, <2>2, <2>3, <2>4
<1>. QED
  BY ONLY <1>1, <1>2, <1>3 DEF Shaped

\* A value that a step edits only if it has not been printed.
Alike(us, ws, v) ==
    LET r == us[v]
        s == ws[v]
    IN /\ s.kind = r.kind /\ (r.ref # NoRef => s.ref = r.ref)
       /\ r.kind \in {"gep", "const"} => s.operands = r.operands /\ s.own = r.own
       /\ r.kind = "block" /\ s.ref # NoRef => s.ref = <<PrefixOf("block")>> \o s.name
       /\ \/ s.text = NoText \/ Settled(ws, v)
          \/ s.text = r.text /\ ReadsOf(s) = ReadsOf(r) /\ s.md = r.md

\* A value that has just been made.
Blank(r) == /\ r.text = NoText /\ r.ref = NoRef /\ r.kind # "const"
            /\ r.kind = "gep" => r.own = r.operands

\* Texts stay what would be written when values are alike, and those made are blank.
LEMMA TextKept ==
  ASSUME ValuesInv, TextFine(values), NEW extra \in {0, 1}, Over(values, values', extra),
         \A v \in 1 .. Len(values) : Alike(values, values', v),
         extra = 1 => \/ Blank(values'[Len(values) + 1])
                      \/ Shaped(values', Len(values) + 1) /\ Settled(values', Len(values) + 1)
  PROVE  TextFine(values')
<1>1. PICK us, ws, n : us = values /\ ws = values' /\ n = Len(us)
  OBVIOUS
<1>2. n \in Nat /\ Len(ws) = n + extra
  BY ONLY <1>1, Over(values, values', extra) DEF Over
<1>3. /\ TextFine(us) /\ \A v \in 1 .. n : Alike(us, ws, v)
      /\ extra = 1 => Blank(ws[n + 1]) \/ (Shaped(ws, n + 1) /\ Settled(ws, n + 1))
  BY ONLY <1>1, TextFine(values), \A v \in 1 .. Len(values) : Alike(values, values', v),
         extra = 1 => \/ Blank(values'[Len(values) + 1])
                      \/ Shaped(values', Len(values) + 1) /\ Settled(values', Len(values) + 1)
<1>4. 1 .. n \subseteq 1 .. Len(ws) /\ \A v \in 1 .. Len(ws) : v \in 1 .. n \/ (extra = 1 /\ v = n + 1)
  BY ONLY <1>2, extra \in {0, 1}
<1>5. RefsStay(us, ws) /\ \A o \in 1 .. n : ws[o].kind = us[o].kind
  BY ONLY <1>1, <1>3 DEF Alike, RefsStay
<1>6. ASSUME NEW v \in 1 .. n PROVE ToSet(ReadsOf(us[v])) \subseteq 1 .. n
  <2>1. /\ \A o \in ToSet(us[v].operands) : o \in 1 .. n
        /\ \A o \in ToSet(us[v].own) : o \in 1 .. n
    BY ONLY <1>1, <1>6, ValuesInv, BlockFacts
  <2>. QED
    BY ONLY <2>1 DEF ReadsOf
<1>7. ASSUME NEW v \in 1 .. n PROVE Shaped(ws, v)
  <2>1. /\ Shaped(us, v) /\ v \in 1 .. Len(us) /\ 1 .. Len(us) \subseteq 1 .. Len(ws)
        /\ \A o \in 1 .. Len(us) : ws[o].kind = us[o].kind
    BY ONLY <1>1, <1>3, <1>4, <1>5, <1>7 DEF TextFine
  <2>2. /\ us[v].kind \in {"gep", "const"} =>
             ws[v].operands = us[v].operands /\ ws[v].own = us[v].own
        /\ us[v].kind = "block" /\ ws[v].ref # NoRef =>
             ws[v].ref = <<PrefixOf("block")>> \o ws[v].name
    BY ONLY <1>3, <1>7 DEF Alike
  <2>. QED
    BY ONLY <1>5, <2>1, <2>2, ShapedStays
<1>8. ASSUME NEW v \in 1 .. n PROVE Settled(ws, v)
  <2>1. /\ Settled(us, v) /\ v \in 1 .. Len(us) /\ ToSet(ReadsOf(us[v])) \subseteq 1 .. Len(us)
        /\ ws[v].kind = us[v].kind
    BY ONLY <1>1, <1>3, <1>5, <1>6, <1>8 DEF TextFine
  <2>2. \/ ws[v].text = NoText \/ Settled(ws, v)
        \/ ws[v].text = us[v].text /\ ReadsOf(ws[v]) = ReadsOf(us[v]) /\ ws[v].md = us[v].md
    BY ONLY <1>3, <1>8 DEF Alike
  <2>3. CASE ws[v].text = NoText
    BY ONLY <2>3 DEF Settled
  <2>4. CASE ws[v].text = us[v].text /\ ReadsOf(ws[v]) = ReadsOf(us[v]) /\ ws[v].md = us[v].md
    BY ONLY <1>5, <2>1, <2>4, SettledStays
  <2>. QED
    BY ONLY <2>2, <2>3, <2>4
<1>9. ASSUME extra = 1 PROVE Shaped(ws, n + 1) /\ Settled(ws, n + 1)
  <2>1. CASE Blank(ws[n + 1])
    BY ONLY <2>1 DEF Blank, Shaped, Settled
  <2>. QED
    BY ONLY <1>3, <1>9, <2>1
<1>10. TextFine(ws)
  BY ONLY <1>4, <1>7, <1>8, <1>9 DEF TextFine
<1>. QED
  BY ONLY <1>1, <1>10

\* The fields of a value.
LEMMA ValueFields ==
  ASSUME NEW kind, NEW name, NEW ref, NEW text, NEW md, NEW operands, NEW own, NEW fixed,
         NEW s, s = Value(kind, name, ref, text, md, operands, own, fixed)
  PROVE  /\ s.kind = kind /\ s.name = name /\ s.ref = ref /\ s.text = text /\ s.md = md
         /\ s.operands = operands /\ s.own = own
BY DEF Value

\* A value that is not changed is like what it was.
LEMMA SameAlike ==
  ASSUME NEW us, NEW ws, NEW v, Shaped(us, v), ws[v] = us[v]
  PROVE  Alike(us, ws, v)
BY DEF Alike, Shaped

\* A value of any kind but a constant is blank when it is made.
LEMMA MadeBlank ==
  ASSUME NEW kind, kind # "const", NEW name, NEW ops
  PROVE  Blank(NamedValue(kind, name, ops))
<1>1. PICK r, own, md, fixed, ref, text :
        /\ r = NamedValue(kind, name, ops) /\ own = (IF kind = "gep" THEN ops ELSE <<>>)
        /\ md = {} /\ fixed = FALSE /\ ref = NoRef /\ text = NoText
  OBVIOUS
<1>2. r = Value(kind, name, ref, text, md, ops, own, fixed)
  BY ONLY <1>1, NamedValueIs
<1>3. r.kind = kind /\ r.ref = ref /\ r.text = text /\ r.operands = ops /\ r.own = own
  BY ONLY <1>2, ValueFields
<1>4. Blank(r)
  BY ONLY <1>1, <1>3, kind # "const" DEF Blank
<1>. QED
  BY ONLY <1>1, <1>4

\* Texts after a value is made,
LEMMA AddedTexts ==
  ASSUME ValuesInv, TextFine(values), NEW kind, kind # "const", NEW name, NEW ops,
         Added(values, values', NamedValue(kind, name, ops))
  PROVE  TextFine(values')
<1>1. PICK extra \in {0, 1} : extra = 1
  OBVIOUS
<1>2. /\ Over(values, values', extra) /\ values'[Len(values) + 1] = NamedValue(kind, name, ops)
      /\ \A v \in 1 .. Len(values) : values'[v] = values[v]
  BY ONLY <1>1, Added(values, values', NamedValue(kind, name, ops)) DEF Added, Over
<1>3. Blank(values'[Len(values) + 1])
  BY ONLY <1>2, kind # "const", MadeBlank
<1>4. ASSUME NEW v \in 1 .. Len(values) PROVE Alike(values, values', v)
  <2>1. PICK us, ws : us = values /\ ws = values'
    OBVIOUS
  <2>2. Shaped(us, v) /\ ws[v] = us[v]
    BY ONLY <1>2, <1>4, <2>1, TextFine(values) DEF TextFine
  <2>3. Alike(us, ws, v)
    BY ONLY <2>2, SameAlike
  <2>. QED
    BY ONLY <2>1, <2>3
<1>. QED
  BY ONLY ValuesInv, TextFine(values), <1>2, <1>3, <1>4, TextKept

\* after one is renamed,
LEMMA RenamedTexts ==
  ASSUME ValuesInv, TextFine(values), style # "free", NEW w, NEW name, Renaming(w, name)
  PROVE  TextFine(values')
<1>1. PICK us, ws, extra : us = values /\ ws = values' /\ extra = 0
  OBVIOUS
<1>2. /\ Kind(w) = "block" => us[w].ref = NoRef
      /\ Edited(us, ws, w, Value(us[w].kind, name, us[w].ref, us[w].text, us[w].md,
                                 us[w].operands, us[w].own, us[w].fixed))
  BY ONLY <1>1, style # "free", Renaming(w, name) DEF Renaming
<1>3. /\ Over(us, ws, extra) /\ w \in 1 .. Len(us)
      /\ ws[w] = Value(us[w].kind, name, us[w].ref, us[w].text, us[w].md,
                       us[w].operands, us[w].own, us[w].fixed)
      /\ \A v \in 1 .. Len(us) : v # w => ws[v] = us[v]
  BY ONLY <1>1, <1>2 DEF Edited, Over
<1>4. \A v \in 1 .. Len(us) : Shaped(us, v)
  BY ONLY <1>1, TextFine(values) DEF TextFine
<1>5. Alike(us, ws, w)
  <2>1. PICK r, s, ref, text, md, operands, own, fixed :
          /\ r = us[w] /\ s = ws[w] /\ ref = r.ref /\ text = r.text /\ md = r.md
          /\ operands = r.operands /\ own = r.own /\ fixed = r.fixed
    OBVIOUS
  <2>2. s = Value(r.kind, name, ref, text, md, operands, own, fixed)
    BY ONLY <1>3, <2>1
  <2>3. /\ s.kind = r.kind /\ s.ref = ref /\ s.text = text /\ s.md = md
        /\ s.operands = operands /\ s.own = own
    BY ONLY <2>2, ValueFields
  <2>4. ReadsOf(s) = ReadsOf(r)
    BY ONLY <2>1, <2>3 DEF ReadsOf
  <2>5. r.kind = "block" => s.ref = NoRef
    BY ONLY <1>1, <1>2, <2>1, <2>3 DEF Kind
  <2>. QED
    BY ONLY <2>1, <2>3, <2>4, <2>5 DEF Alike
<1>6. \A v \in 1 .. Len(us) : Alike(us, ws, v)
  BY ONLY <1>3, <1>4, <1>5, SameAlike
<1>. QED
  BY ONLY <1>1, <1>3, <1>6, ValuesInv, TextFine(values), TextKept

\* and after values are edited that were not printed.
LEMMA RetouchedTexts ==
  ASSUME ValuesInv, TextFine(values), style # "free", NEW mds, NEW opss, NEW owns,
         Retouching(mds, opss, owns)
  PROVE  TextFine(values')
<1>1. PICK us, ws, extra : us = values /\ ws = values' /\ extra = 0
  OBVIOUS
<1>2. Over(us, ws, extra)
  BY ONLY <1>1, Retouching(mds, opss, owns) DEF Retouching
<1>3. ASSUME NEW v \in 1 .. Len(us) PROVE Alike(us, ws, v)
  <2>1. PICK r, s, name, ref, text, fixed, md, operands, own :
          /\ r = us[v] /\ s = ws[v] /\ ref = r.ref /\ text = r.text /\ fixed = r.fixed /\ name = r.name
          /\ md = mds[v] /\ operands = opss[v] /\ own = owns[v]
    OBVIOUS
  <2>2. s = Value(r.kind, name, ref, text, md, operands, own, fixed) /\ Touch(v, md, operands, own)
    BY ONLY <1>1, <1>3, <2>1, Retouching(mds, opss, owns) DEF Retouching
  <2>3. /\ s.kind = r.kind /\ s.ref = ref /\ s.text = text /\ s.md = md /\ s.name = name
        /\ s.operands = operands /\ s.own = own
    BY ONLY <2>2, ValueFields
  <2>4. /\ md # r.md \/ operands # r.operands \/ own # r.own => r.text = NoText
        /\ operands # r.operands => r.kind \in {"variable", "call"}
        /\ own # r.own => r.kind = "phi"
    BY ONLY <1>1, <2>1, <2>2, style # "free" DEF Touch
  <2>5. r.kind \in {"gep", "const"} => s.operands = r.operands /\ s.own = r.own
    BY ONLY <2>3, <2>4
  <2>6. s.text = NoText \/ (s.text = r.text /\ ReadsOf(s) = ReadsOf(r) /\ s.md = r.md)
    BY ONLY <2>1, <2>3, <2>4 DEF ReadsOf
  <2>7. r.kind = "block" /\ s.ref # NoRef => s.ref = <<PrefixOf("block")>> \o s.name
    BY ONLY <1>1, <1>3, <2>1, <2>3, TextFine(values) DEF TextFine, Shaped
  <2>8. r.ref # NoRef => s.ref = r.ref
    BY ONLY <2>1, <2>3
  <2>. QED
    BY ONLY <2>1, <2>3, <2>5, <2>6, <2>7, <2>8 DEF Alike
<1>. QED
  BY ONLY <1>1, <1>2, <1>3, ValuesInv, TextFine(values), TextKept

\* A reference that is cached is none of nothing.
LEMMA ReferenceNamed ==
  ASSUME ValuesInv, NEW v \in 1 .. Len(values)
  PROVE  Reference(v) # NoRef
<1>1. values[v].name \in Name
  BY ONLY ValuesInv, v \in 1 .. Len(values) DEF ValuesInv
<1>2. FreshReference(v) = <<PrefixOf(Kind(v))>> \o values[v].name
  BY ONLY TextTerms
<1>3. FreshReference(v) # NoRef
  BY ONLY <1>1, <1>2, ReferenceIs DEF NoRef
<1>. QED
  BY ONLY <1>3 DEF Reference

\* Texts after a constant is made,
LEMMA ConstantTexts ==
  ASSUME ValuesInv, TextFine(values), NEW g, Constant(g)
  PROVE  TextFine(values')
<1>1. PICK us, ws, extra, now, n : /\ us = values /\ ws = values' /\ now = Reference(g)
                                   /\ extra = 1 /\ n = Len(us)
  OBVIOUS
<1>2. Over(us, ws, extra) /\ g \in 1 .. n /\ us[g].kind \in Globals
  BY ONLY <1>1, Constant(g) DEF Constant, IsGlobal, Kind
<1>3. ASSUME NEW v \in 1 .. n
      PROVE  Alike(us, ws, v) /\ (v = g => ws[v].ref = now)
  <2>1. PICK r, s, name, ref, text, fixed, md, operands, own :
          /\ r = us[v] /\ s = ws[v] /\ text = r.text /\ fixed = r.fixed /\ name = r.name
          /\ md = r.md /\ operands = r.operands /\ own = r.own
          /\ ref = (IF v = g THEN now ELSE r.ref)
    OBVIOUS
  <2>2. s = Value(r.kind, name, ref, text, md, operands, own, fixed)
    BY ONLY <1>1, <1>3, <2>1, Constant(g) DEF Constant
  <2>3. /\ s.kind = r.kind /\ s.ref = ref /\ s.text = text /\ s.md = md /\ s.name = name
        /\ s.operands = operands /\ s.own = own
    BY ONLY <2>2, ValueFields
  <2>4. ReadsOf(s) = ReadsOf(r)
    BY ONLY <2>1, <2>3 DEF ReadsOf
  <2>5. r.ref # NoRef => s.ref = r.ref
    BY ONLY <1>1, <2>1, <2>3 DEF Reference
  <2>6. r.kind = "block" /\ s.ref # NoRef => s.ref = <<PrefixOf("block")>> \o s.name
    <3>1. r.kind = "block" => v # g
      BY ONLY <1>2, <2>1 DEF Globals
    <3>2. Shaped(us, v)
      BY ONLY <1>1, <1>3, TextFine(values) DEF TextFine
    <3>. QED
      BY ONLY <2>1, <2>3, <3>1, <3>2 DEF Shaped
  <2>. QED
    BY ONLY <2>1, <2>3, <2>4, <2>5, <2>6 DEF Alike
<1>4. ws[n + 1] = Value("const", <<"">>, now, NoText, {}, <<g>>, <<>>, FALSE)
  BY ONLY <1>1, Constant(g) DEF Constant
<1>5. PICK s, kind, name, text, fixed, md, operands, own :
        /\ s = ws[n + 1] /\ kind = "const" /\ name = <<"">> /\ text = NoText /\ fixed = FALSE
        /\ md = {} /\ operands = <<g>> /\ own = <<>>
  OBVIOUS
<1>6. s = Value(kind, name, now, text, md, operands, own, fixed)
  BY ONLY <1>4, <1>5
<1>7. s.kind = kind /\ s.ref = now /\ s.text = text /\ s.operands = operands
  BY ONLY <1>6, ValueFields
<1>8. now # NoRef
  BY ONLY <1>1, <1>2, ValuesInv, ReferenceNamed
<1>9. n \in Nat /\ Len(ws) = n + extra
  BY ONLY <1>1, <1>2 DEF Over
<1>10. Shaped(ws, n + 1)
  <2>1. g \in 1 .. Len(ws)
    BY ONLY <1>1, <1>2, <1>9
  <2>2. ws[g].kind \in Globals /\ ws[g].ref = now
    BY ONLY <1>2, <1>3 DEF Alike
  <2>3. s.kind = "const" /\ s.operands = <<g>>
    BY ONLY <1>5, <1>7
  <2>. QED
    BY ONLY <1>5, <1>7, <1>8, <2>1, <2>2, <2>3 DEF Shaped
<1>11. Settled(ws, n + 1)
  BY ONLY <1>5, <1>7 DEF Settled
<1>12. \A v \in 1 .. Len(us) : Alike(us, ws, v)
  BY ONLY <1>1, <1>3
<1>. QED
  BY ONLY <1>1, <1>2, <1>10, <1>11, <1>12, ValuesInv, TextFine(values), TextKept

\* after the module is printed,
LEMMA ShownTexts ==
  ASSUME ValuesInv, TextFine(values), NEW texts, NEW refs, Showing(texts, refs)
  PROVE  TextFine(values')
<1>1. PICK us, ws, extra, n : us = values /\ ws = values' /\ extra = 0 /\ n = Len(us)
  OBVIOUS
<1>2. /\ Over(us, ws, extra)
      /\ \A v \in texts : us[v].kind = "branch" \/ v \in refs
      /\ \A v \in texts : ToSet(ReadsOf(us[v])) \subseteq refs
  BY ONLY <1>1, TextTerms, Showing(texts, refs) DEF Showing, Kind
<1>3. \A v \in 1 .. n : ReferenceIn(us, v) # NoRef
  BY ONLY <1>1, ValuesInv, ReferenceNamed, TextTerms
<1>4. ASSUME NEW v \in 1 .. n
      PROVE  /\ ws[v].kind = us[v].kind /\ ws[v].name = us[v].name /\ ws[v].md = us[v].md
             /\ ws[v].operands = us[v].operands /\ ws[v].own = us[v].own
             /\ ReadsOf(ws[v]) = ReadsOf(us[v])
             /\ ws[v].ref = IF v \in refs THEN ReferenceIn(us, v) ELSE us[v].ref
             /\ ws[v].text = IF v \in texts THEN DescribedIn(us, v) ELSE us[v].text
  <2>1. PICK r, s, name, ref, text, fixed, md, operands, own :
          /\ r = us[v] /\ s = ws[v] /\ fixed = r.fixed /\ name = r.name
          /\ md = r.md /\ operands = r.operands /\ own = r.own
          /\ ref = (IF v \in refs THEN Reference(v) ELSE r.ref)
          /\ text = (IF v \in texts THEN Describe(v) ELSE r.text)
    OBVIOUS
  <2>2. s = Value(r.kind, name, ref, text, md, operands, own, fixed)
    BY ONLY <1>1, <1>4, <2>1, Showing(texts, refs) DEF Showing
  <2>3. /\ s.kind = r.kind /\ s.ref = ref /\ s.text = text /\ s.md = md /\ s.name = name
        /\ s.operands = operands /\ s.own = own
    BY ONLY <2>2, ValueFields
  <2>4. ReadsOf(s) = ReadsOf(r)
    BY ONLY <2>1, <2>3 DEF ReadsOf
  <2>5. Reference(v) = ReferenceIn(us, v) /\ Describe(v) = DescribedIn(us, v)
    BY ONLY <1>1, TextTerms
  <2>. QED
    BY ONLY <2>1, <2>3, <2>4, <2>5
<1>5. ASSUME NEW v \in 1 .. n PROVE ReferenceIn(ws, v) = ReferenceIn(us, v)
  <2>1. CASE ws[v].ref = us[v].ref
    BY ONLY <1>4, <2>1 DEF ReferenceIn
  <2>2. CASE ws[v].ref = ReferenceIn(us, v)
    BY ONLY <1>3, <2>2 DEF ReferenceIn
  <2>. QED
    BY ONLY <1>4, <2>1, <2>2
<1>6. ASSUME NEW v \in 1 .. n PROVE ToSet(ReadsOf(us[v])) \subseteq 1 .. n
  <2>1. /\ \A o \in ToSet(us[v].operands) : o \in 1 .. n
        /\ \A o \in ToSet(us[v].own) : o \in 1 .. n
    BY ONLY <1>1, <1>6, ValuesInv, BlockFacts
  <2>. QED
    BY ONLY <2>1 DEF ReadsOf
<1>7. ASSUME NEW v \in 1 .. n, v \in texts PROVE Settled(ws, v)
  <2>1. PICK reads : reads = ReadsOf(us[v]) /\ reads = ReadsOf(ws[v])
    BY ONLY <1>4, <1>7
  <2>2. \A o \in ToSet(reads) : o \in 1 .. n /\ o \in refs
    BY ONLY <1>2, <1>6, <1>7, <2>1
  <2>3. \A o \in ToSet(reads) : ws[o].ref # NoRef
    BY ONLY <1>3, <1>4, <2>2
  <2>4. ws[v].kind # "branch" => ws[v].ref # NoRef
    BY ONLY <1>2, <1>3, <1>4, <1>7
  <2>5. \A k \in DOMAIN reads : ReferenceIn(ws, reads[k]) = ReferenceIn(us, reads[k])
    <3>1. ASSUME NEW k \in DOMAIN reads PROVE reads[k] \in ToSet(reads)
      BY DEF ToSet
    <3>. QED
      BY ONLY <1>5, <2>2, <3>1
  <2>6. [k \in DOMAIN reads |-> ReferenceIn(ws, reads[k])]
          = [k \in DOMAIN reads |-> ReferenceIn(us, reads[k])]
    BY ONLY <2>5
  <2>7. (IF ws[v].kind = "branch" THEN NoRef ELSE ReferenceIn(ws, v))
          = (IF us[v].kind = "branch" THEN NoRef ELSE ReferenceIn(us, v))
    BY ONLY <1>4, <1>5, <1>7
  <2>8. ws[v].md = us[v].md /\ ws[v].text = DescribedIn(us, v)
    BY ONLY <1>4, <1>7
  <2>9. DescribedIn(ws, v) = DescribedIn(us, v)
    BY ONLY <2>1, <2>6, <2>7, <2>8 DEF DescribedIn
  <2>. QED
    BY ONLY <2>1, <2>3, <2>4, <2>8, <2>9 DEF Settled
<1>8. ASSUME NEW v \in 1 .. n PROVE Alike(us, ws, v)
  <2>1. us[v].ref # NoRef => ws[v].ref = us[v].ref
    BY ONLY <1>4, <1>8 DEF ReferenceIn
  <2>2. us[v].kind = "block" /\ ws[v].ref # NoRef => ws[v].ref = <<PrefixOf("block")>> \o ws[v].name
    <3>1. Shaped(us, v)
      BY ONLY <1>1, <1>8, TextFine(values) DEF TextFine
    <3>. QED
      BY ONLY <1>4, <1>8, <3>1 DEF Shaped, ReferenceIn
  <2>3. v \notin texts => ws[v].text = us[v].text
    BY ONLY <1>4, <1>8
  <2>. QED
    BY ONLY <1>4, <1>7, <1>8, <2>1, <2>2, <2>3 DEF Alike
<1>9. \A v \in 1 .. Len(us) : Alike(us, ws, v)
  BY ONLY <1>1, <1>8
<1>. QED
  BY ONLY <1>1, <1>2, <1>9, ValuesInv, TextFine(values), TextKept

\* Nothing is substituted for what is not there.
LEMMA SubstitutedSame ==
  ASSUME NEW S, NEW us \in Seq(S), NEW old, old \notin ToSet(us), NEW new
  PROVE  Substituted(us, old, new) = us
<1>1. \A k \in DOMAIN us : us[k] # old
  BY DEF ToSet
<1>2. us = [k \in DOMAIN us |-> us[k]]
  OBVIOUS
<1>3. [k \in DOMAIN us |-> IF us[k] = old THEN new ELSE us[k]] = [k \in DOMAIN us |-> us[k]]
  BY ONLY <1>1
<1>. QED
  BY ONLY <1>2, <1>3 DEF Substituted

\* and after an instruction is replaced.
LEMMA ReplacedTexts ==
  ASSUME ValuesInv, TextFine(values), style # "free", NEW p, NEW kind, NEW name, NEW ops,
         Replacing(p, kind, name, ops)
  PROVE  TextFine(values')
<1>1. PICK us, ws, extra, n, old : /\ us = values /\ ws = values' /\ extra = 1 /\ n = Len(us)
                                   /\ old = body[p]
  OBVIOUS
<1>2. /\ Over(us, ws, extra) /\ ws[n + 1] = NamedValue(kind, name, ops) /\ kind # "const"
      /\ \A v \in 1 .. n : IF v \in ToSet(body) \ {old} THEN IsPatched(us[v], ws[v], old, n + 1)
                           ELSE ws[v] = us[v]
      /\ Patchable(old)
  BY ONLY <1>1, style # "free", Replacing(p, kind, name, ops) DEF Replacing
<1>3. \A v \in 1 .. n : Shaped(us, v)
  BY ONLY <1>1, TextFine(values) DEF TextFine
<1>4. ASSUME NEW v \in 1 .. n, v \in ToSet(body) \ {old} PROVE Alike(us, ws, v)
  <2>1. us[v].operands \in Seq(1 .. n) /\ us[v].own \in Seq(1 .. n)
    BY ONLY <1>1, <1>4, ValuesInv, BlockFacts
  <2>2. us[v].kind \in Instructions
    BY ONLY <1>1, <1>4, ValuesInv, BlockFacts, LiveFacts
  <2>3. PICK r, s, nm, ref, md : r = us[v] /\ s = ws[v] /\ nm = r.name /\ ref = r.ref /\ md = r.md
    OBVIOUS
  <2>4. IsPatched(r, s, old, n + 1)
    BY ONLY <1>2, <1>4, <2>3
  <2>5. PICK text, os, own, fixed :
        /\ s = Value(r.kind, r.name, r.ref, text, r.md, os, own, fixed)
        /\ os = IF r.kind = "phi" THEN r.operands ELSE Substituted(r.operands, old, n + 1)
        /\ own = IF r.kind = "phi" THEN Substituted(r.own, old, n + 1) ELSE r.own
        /\ text = IF r.kind # "phi" /\ old \in ToSet(r.operands) THEN NoText ELSE r.text
    BY ONLY <2>4 DEF IsPatched
  <2>6. s = Value(r.kind, nm, ref, text, md, os, own, fixed)
    BY ONLY <2>3, <2>5
  <2>7. /\ s.kind = r.kind /\ s.ref = ref /\ s.text = text /\ s.md = md /\ s.name = nm
        /\ s.operands = os /\ s.own = own
    BY ONLY <2>6, ValueFields
  <2>8. old \in ToSet(ReadsOf(r)) => r.kind # "gep" /\ (r.kind = "phi" => r.text = NoText)
    BY ONLY <1>1, <1>2, <1>4, <2>3, TextTerms DEF Patchable, Kind
  <2>9. /\ r.kind = "gep" => r.own = r.operands
        /\ r.kind \notin {"const", "block"}
    BY ONLY <1>3, <1>4, <2>2, <2>3 DEF Shaped, Instructions
  <2>10. /\ old \notin ToSet(r.operands) => Substituted(r.operands, old, n + 1) = r.operands
         /\ old \notin ToSet(r.own) => Substituted(r.own, old, n + 1) = r.own
    BY ONLY <2>1, <2>3, SubstitutedSame
  <2>11. r.kind = "gep" => s.operands = r.operands /\ s.own = r.own
    BY ONLY <2>5, <2>7, <2>8, <2>9, <2>10 DEF ReadsOf
  <2>12. s.text = NoText \/ (s.text = r.text /\ ReadsOf(s) = ReadsOf(r) /\ s.md = r.md)
    <3>1. CASE r.kind = "phi"
      BY ONLY <2>3, <2>5, <2>7, <2>8, <2>10, <3>1 DEF ReadsOf
    <3>2. CASE r.kind # "phi"
      BY ONLY <2>3, <2>5, <2>7, <2>10, <3>2 DEF ReadsOf
    <3>. QED
      BY ONLY <3>1, <3>2
  <2>. QED
    BY ONLY <2>3, <2>7, <2>9, <2>11, <2>12 DEF Alike
<1>5. \A v \in 1 .. Len(us) : Alike(us, ws, v)
  BY ONLY <1>1, <1>2, <1>3, <1>4, SameAlike
<1>6. Blank(ws[n + 1])
  BY ONLY <1>2, MadeBlank
<1>. QED
  BY ONLY <1>1, <1>2, <1>5, <1>6, ValuesInv, TextFine(values), TextKept

\* Texts stay what would be written in every step.
LEMMA TextNext ==
  ASSUME ValuesInv, TextInv, ValueStep
  PROVE  TextInv'
<1>1. style' = style
  BY ONLY ValueStep DEF ValueStep, Emitting, Constant, Showing, Renaming, Retouching, Replacing
<1>. SUFFICES ASSUME style # "free" PROVE TextFine(values')
  BY <1>1 DEF TextInv
<1>2. TextFine(values)
  BY ONLY TextInv, style # "free" DEF TextInv
<1>3. CASE UNCHANGED values
  BY ONLY <1>2, <1>3
<1>4. ASSUME NEW kind, kind # "const", NEW name, NEW ops, Fresh(kind, name, ops)
      PROVE  TextFine(values')
  BY ONLY <1>2, <1>4, ValuesInv, AddedTexts DEF Fresh
<1>5. \A kind \in Globals \cup {"block"} \cup Instructions : kind # "const"
  BY ONLY TRUE DEF Globals, Instructions
<1>. QED
  BY ONLY ValuesInv, ValueStep, style # "free", <1>2, <1>3, <1>4, <1>5, ConstantTexts, ShownTexts,
          RenamedTexts, RetouchedTexts, ReplacedTexts DEF ValueStep, Emitting

\* In a new module nothing has been printed.
LEMMA TextInit ==
  ASSUME Init
  PROVE  TextInv
<1>1. PICK a, b : Initial(a, b)
  BY InitFacts
<1>2. PICK f, ops, us : f = <<"f">> /\ ops = <<>> /\ us = values
  OBVIOUS
<1>3. /\ Len(us) = 3 /\ us[1] = NamedValue("function", f, ops)
      /\ us[2] = NamedValue("arg", a, ops) /\ us[3] = NamedValue("block", b, ops)
  BY ONLY <1>1, <1>2 DEF Initial
<1>4. Blank(us[1]) /\ Blank(us[2]) /\ Blank(us[3])
  BY ONLY <1>3, MadeBlank
<1>5. \A v \in 1 .. Len(us) : Blank(us[v])
  BY ONLY <1>3, <1>4
<1>6. TextFine(us)
  BY ONLY <1>5 DEF Blank, TextFine, Shaped, Settled
<1>. QED
  BY ONLY <1>2, <1>6 DEF TextInv

\* A text that would be written now says what its value holds.
LEMMA TextIs ==
  ASSUME ValuesInv, TextInv, style # "free"
  PROVE  TextSaysWhatIs
<1>1. PICK us : us = values
  OBVIOUS
<1>2. TextFine(us)
  BY ONLY <1>1, TextInv, style # "free" DEF TextInv
<1>3. ASSUME NEW o \in 1 .. Len(us) PROVE Defined(o) = Reference(o)
  <2>1. Shaped(us, o)
    BY ONLY <1>2, <1>3 DEF TextFine
  <2>2. Kind(o) = us[o].kind /\ FreshReference(o) = <<PrefixOf(us[o].kind)>> \o us[o].name
    BY ONLY <1>1, TextTerms DEF Kind
  <2>3. CASE Kind(o) = "block"
    <3>1. Defined(o) = FreshReference(o)
      BY ONLY <2>3 DEF Defined
    <3>2. us[o].ref # NoRef => us[o].ref = FreshReference(o)
      BY ONLY <2>1, <2>2, <2>3 DEF Shaped
    <3>. QED
      BY ONLY <1>1, <3>1, <3>2 DEF Reference
  <2>4. CASE Kind(o) = "const"
    <3>1. PICK g \in 1 .. Len(us) : /\ us[o].operands = <<g>> /\ us[g].ref # NoRef
                                    /\ us[o].ref = us[g].ref
      BY ONLY <2>1, <2>2, <2>4 DEF Shaped
    <3>2. PICK h : h = values[o].operands[1]
      OBVIOUS
    <3>3. Defined(o) = Reference(h)
      BY ONLY <2>4, <3>2 DEF Defined
    <3>4. h = g
      BY ONLY <1>1, <3>1, <3>2
    <3>5. Reference(g) = us[g].ref /\ Reference(o) = us[o].ref
      BY ONLY <1>1, <3>1 DEF Reference
    <3>. QED
      BY ONLY <3>1, <3>3, <3>4, <3>5
  <2>5. CASE Kind(o) # "block" /\ Kind(o) # "const"
    BY ONLY <2>5 DEF Defined
  <2>. QED
    BY ONLY <2>3, <2>4, <2>5
<1>4. ASSUME NEW v \in Live, Kind(v) \in Cached
      PROVE  /\ Text(v).uses = [k \in DOMAIN Means(v) |-> Defined(Means(v)[k])]
             /\ Text(v).md = values[v].md
             /\ Kind(v) # "branch" => Text(v).defines = Defined(v)
  <2>1. v \in 1 .. Len(us)
    BY ONLY <1>1, <1>4, ValuesInv, LiveFacts
  <2>2. Shaped(us, v) /\ Settled(us, v)
    BY ONLY <1>2, <2>1 DEF TextFine
  <2>3. Text(v) = Describe(v)
    BY ONLY <1>1, <2>2, TextTerms DEF Text, Settled
  <2>4. PICK reads : reads = Reads(v)
    OBVIOUS
  <2>5. Means(v) = reads
    BY ONLY <1>1, <2>2, <2>4 DEF Means, Reads, Shaped, Kind
  <2>6. \A o \in ToSet(reads) : o \in 1 .. Len(us)
    <3>1. /\ \A o \in ToSet(us[v].operands) : o \in 1 .. Len(us)
          /\ \A o \in ToSet(us[v].own) : o \in 1 .. Len(us)
      BY ONLY <1>1, <2>1, ValuesInv, BlockFacts
    <3>. QED
      BY ONLY <1>1, <2>4, <3>1 DEF Reads
  <2>7. \A k \in DOMAIN reads : Reference(reads[k]) = Defined(reads[k])
    <3>1. ASSUME NEW k \in DOMAIN reads PROVE reads[k] \in ToSet(reads)
      BY DEF ToSet
    <3>. QED
      BY ONLY <1>3, <2>6, <3>1
  <2>8. [k \in DOMAIN reads |-> Reference(reads[k])] = [k \in DOMAIN reads |-> Defined(reads[k])]
    BY ONLY <2>7
  <2>9. /\ Describe(v).uses = [k \in DOMAIN reads |-> Reference(reads[k])]
        /\ Describe(v).md = values[v].md
        /\ Kind(v) # "branch" => Describe(v).defines = Reference(v)
    BY ONLY <2>4 DEF Describe
  <2>10. Reference(v) = Defined(v)
    BY ONLY <1>3, <2>1
  <2>. QED
    BY ONLY <2>3, <2>5, <2>8, <2>9, <2>10
<1>. QED
  BY ONLY <1>4 DEF TextSaysWhatIs

-----------------------------------------------------------------------------
(* The module *)

IRTextInv ==
    /\ MetaInv /\ PromisesInv /\ ValuesInv /\ ScopeOK(scope)
    /\ NamesInv /\ OrderInv /\ TextInv

\* The inductive invariant: what is taken, cached and promised, for the names, the
\* references and the texts of everything that is built, printed, edited and replaced.
THEOREM TextInvariant == Spec => []IRTextInv
<1>1. Init => IRTextInv
  BY ONLY MetaInit, ValuesInit, NamesInit, OrderInit, TextInit DEF IRTextInv
<1>2. ASSUME IRTextInv, [Next]_vars PROVE IRTextInv'
  <2>1. MetaInv /\ PromisesInv /\ ValuesInv /\ ScopeOK(scope) /\ NamesInv /\ OrderInv /\ TextInv
    BY ONLY <1>2 DEF IRTextInv
  <2>2. MetaInv'
    BY ONLY <1>2, <2>1, MetaNext
  <2>3. PromisesInv'
    BY ONLY <1>2, <2>1, PromisesNext
  <2>4. ValueStep
    BY ONLY <1>2, <2>1, ValueSteps
  <2>5. ValuesInv'
    BY ONLY <2>1, <2>4, ValuesNext
  <2>6. ScopeOK(scope')
    BY ONLY <2>1, <2>4, LocalNamesStay
  <2>7. NamesInv'
    BY ONLY <2>1, <2>4, NamesNext
  <2>8. OrderInv'
    BY ONLY <2>1, <2>4, OrderNext
  <2>9. TextInv'
    BY ONLY <2>1, <2>4, TextNext
  <2>. QED
    BY <2>2, <2>3, <2>5, <2>6, <2>7, <2>8, <2>9 DEF IRTextInv
<1>. QED
  BY <1>1, <1>2, PTL DEF Spec

\* No two values of a module are defined under one name in its text, in whatever order
\* they were named, printed and renamed: _set_name gives no name back, and register gives
\* none out twice.
THEOREM NamesAreOwn == Spec => []DefinitionsDistinct
<1>1. IRTextInv => DefinitionsDistinct
  BY ONLY OwnNames DEF IRTextInv
<1>. QED
  BY <1>1, TextInvariant, PTL

\* An instruction that is no phi comes after every instruction it uses, however many are
\* replaced by Block.replace, and every call and initializer edited.
THEOREM BlocksInOrder == Spec => []DefinedBeforeUse
<1>1. IRTextInv => DefinedBeforeUse
  BY ONLY OrderIs DEF IRTextInv
<1>. QED
  BY <1>1, TextInvariant, PTL

\* The text of every instruction and variable is up to date, if no value is edited once
\* its text is cached and none is replaced of which a copy is kept elsewhere: renaming,
\* printing in between, and replace_usage, which forgets the text, leave it so.
THEOREM TextsUpToDate ==
  ASSUME "free" \notin Styles
  PROVE  Spec => []TextSaysWhatIs
<1>1. IRTextInv => TextSaysWhatIs
  <2>1. PromisesInv => style # "free"
    BY "free" \notin Styles DEF PromisesInv
  <2>. QED
    BY ONLY <2>1, TextIs DEF IRTextInv
<1>. QED
  BY <1>1, TextInvariant, PTL

\* The names that get_unique_name has made up are free and differ until they are used,
\* when a caller asks for no name that ends in a number of its own: the counter of a name
\* passes every number that was given out for it.
THEOREM PromisesAreKept ==
  ASSUME NamesUnnumbered
  PROVE  Spec => []PromisedNamesFree
<1>1. IRTextInv => PromisedNamesFree
  <2>. SUFFICES ASSUME MetaInv, PromisesInv PROVE PromisedNamesFree
    BY DEF IRTextInv
  <2>1. DOMAIN promised = 1 .. Len(promised)
    BY LenProperties DEF MetaInv, PromisesNamed
  <2>2. \A k \in 1 .. Len(promised) : MadeUp(promised[k]) =>
          /\ promised[k] \notin meta.scope.used
          /\ \A j \in 1 .. Len(promised) : promised[j] = promised[k] => j = k
    BY NamesUnnumbered DEF PromisesInv, Promised
  <2>. QED
    BY ONLY <2>1, <2>2 DEF PromisedNamesFree, IsUsed
<1>. QED
  BY <1>1, TextInvariant, PTL

\* The node that is returned for metadata has the operands, the kind and the distinctness
\* that were asked for, whether it is shared with an earlier request or new, but for the
\* operands that the keys of debug information confuse.
THEOREM NodesAnswer == Spec => []NodesAsAsked
<1>1. Init => NodesAsAsked
  BY DEF Init, NodesAsAsked
<1>2. ASSUME MetaInv, NodesAsAsked, [Next]_vars PROVE NodesAsAsked'
  BY ONLY <1>2, AskedNext
<1>3. IRTextInv => MetaInv
  BY DEF IRTextInv
<1>. QED
  BY <1>1, <1>2, <1>3, TextInvariant, PTL DEF Spec
=============================================================================
