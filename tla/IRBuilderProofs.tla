-------------------------- MODULE IRBuilderProofs ---------------------------
(***************************************************************************)
(* Proofs about IRBuilder, for any number of blocks, instructions and      *)
(* nested "with" statements: a block has a terminator when it says so, and *)
(* one only; a caller that builds at the ends of blocks gets blocks that   *)
(* end with it, and leaves none open.                                      *)
(***************************************************************************)
EXTENDS IRBuilder, FiniteSetTheorems, SequenceTheorems, TLAPS

-----------------------------------------------------------------------------
(* Instructions of a block *)

Kind == {"plain", "term"}

\* Where the terminators of a block are.
Terms(c) == {i \in 1 .. Len(c) : c[i] = "term"}

\* The instructions after an insertion before the p-th, as _insert makes it.
LEMMA InsertAtElements ==
    ASSUME NEW c \in Seq(Kind), NEW p \in 1 .. Len(c) + 1, NEW k \in Kind
    PROVE  LET d == InsertAt(c, p, k)
           IN  /\ d \in Seq(Kind) /\ Len(d) = Len(c) + 1
               /\ \A i \in 1 .. Len(c) + 1 :
                     d[i] = IF i < p THEN c[i] ELSE IF i = p THEN k ELSE c[i - 1]
<1>1. Len(c) \in Nat /\ \A i \in 1 .. Len(c) : c[i] \in Kind
  BY LenProperties, ElementOfSeq
<1>. DEFINE front == SubSeq(c, 1, p - 1)
            back == SubSeq(c, p, Len(c))
            u == front \o <<k>>
            d == u \o back
<1>2. /\ front \in Seq(Kind) /\ Len(front) = p - 1
      /\ \A i \in 1 .. p - 1 : front[i] = c[i]
  BY <1>1, SubSeqProperties
<1>3. /\ back \in Seq(Kind) /\ Len(back) = Len(c) - p + 1
      /\ \A i \in 1 .. Len(c) - p + 1 : back[i] = c[p + i - 1]
  BY <1>1, SubSeqProperties
<1>4. InsertAt(c, p, k) = d
  BY DEF InsertAt
<1>. HIDE DEF front, back
<1>5. /\ front \o <<k>> \in Seq(Kind) /\ Len(front \o <<k>>) = p
      /\ \A i \in 1 .. p : (front \o <<k>>)[i] = IF i < p THEN c[i] ELSE k
  BY <1>1, <1>2, ConcatProperties
<1>6. /\ u \in Seq(Kind) /\ Len(u) = p
      /\ \A i \in 1 .. p : u[i] = IF i < p THEN c[i] ELSE k
  BY <1>5
<1>. HIDE DEF u
<1>7. Len(u) + Len(back) = Len(c) + 1
  BY <1>1, <1>3, <1>6
<1>8. /\ d \in Seq(Kind) /\ Len(d) = Len(u) + Len(back)
      /\ \A i \in 1 .. Len(u) + Len(back) :
            d[i] = IF i <= Len(u) THEN u[i] ELSE back[i - Len(u)]
  BY <1>3, <1>6, ConcatProperties
<1>. HIDE DEF d
<1>9. ASSUME NEW i \in 1 .. Len(c) + 1
      PROVE  d[i] = IF i < p THEN c[i] ELSE IF i = p THEN k ELSE c[i - 1]
  <2>. i \in Nat /\ p \in Nat
    BY <1>1, <1>9
  <2>1. CASE i <= p
    <3>1. d[i] = u[i]
      BY <1>6, <1>7, <1>8, <1>9, <2>1
    <3>2. u[i] = IF i < p THEN c[i] ELSE k
      BY <1>6, <1>9, <2>1
    <3>. QED
      BY <2>1, <3>1, <3>2
  <2>2. CASE i > p
    <3>1. d[i] = back[i - p]
      BY <1>6, <1>7, <1>8, <1>9, <2>2
    <3>2. i - p \in 1 .. Len(c) - p + 1 /\ p + (i - p) - 1 = i - 1
      BY <1>1, <1>9, <2>2
    <3>3. back[i - p] = c[i - 1]
      BY <1>3, <3>2
    <3>. QED
      BY <2>2, <3>1, <3>3
  <2>. QED
    BY <2>1, <2>2
<1>. QED
  BY <1>4, <1>7, <1>8, <1>9

\* The instructions after a removal of the i-th.
LEMMA RemoveAtElements ==
    ASSUME NEW c \in Seq(Kind), NEW i \in 1 .. Len(c)
    PROVE  LET d == RemoveAt(c, i)
           IN  /\ d \in Seq(Kind) /\ Len(d) = Len(c) - 1
               /\ \A j \in 1 .. Len(c) - 1 :
                     d[j] = IF j < i THEN c[j] ELSE c[j + 1]
<1>1. Len(c) \in Nat /\ \A j \in 1 .. Len(c) : c[j] \in Kind
  BY LenProperties, ElementOfSeq
<1>. DEFINE front == SubSeq(c, 1, i - 1)
            back == SubSeq(c, i + 1, Len(c))
            d == front \o back
<1>2. /\ front \in Seq(Kind) /\ Len(front) = i - 1
      /\ \A j \in 1 .. i - 1 : front[j] = c[j]
  BY <1>1, SubSeqProperties
<1>3. /\ back \in Seq(Kind) /\ Len(back) = Len(c) - i
      /\ \A j \in 1 .. Len(c) - i : back[j] = c[i + 1 + j - 1]
  BY <1>1, SubSeqProperties
<1>4. RemoveAt(c, i) = d
  BY DEF RemoveAt
<1>. HIDE DEF front, back
<1>5. /\ d \in Seq(Kind) /\ Len(d) = Len(front) + Len(back)
      /\ \A j \in 1 .. Len(front) + Len(back) :
            d[j] = IF j <= Len(front) THEN front[j] ELSE back[j - Len(front)]
  BY <1>2, <1>3, ConcatProperties
<1>6. Len(front) + Len(back) = Len(c) - 1
  BY <1>1, <1>2, <1>3
<1>. HIDE DEF d
<1>7. ASSUME NEW j \in 1 .. Len(c) - 1
      PROVE  d[j] = IF j < i THEN c[j] ELSE c[j + 1]
  <2>. i \in Nat /\ j \in Nat
    BY <1>1, <1>7
  <2>1. CASE j < i
    <3>1. j \in 1 .. i - 1 /\ j <= Len(front)
      BY <1>2, <1>7, <2>1
    <3>2. d[j] = front[j]
      BY <1>5, <1>6, <1>7, <3>1
    <3>. QED
      BY <1>2, <2>1, <3>1, <3>2
  <2>2. CASE j >= i
    <3>1. ~(j <= Len(front)) /\ Len(front) = i - 1
      BY <1>2, <2>2
    <3>2. d[j] = back[j - (i - 1)]
      BY <1>5, <1>6, <1>7, <3>1
    <3>3. j - (i - 1) \in 1 .. Len(c) - i /\ i + 1 + (j - (i - 1)) - 1 = j + 1
      BY <1>1, <1>7, <2>2
    <3>4. back[j - (i - 1)] = c[j + 1]
      BY <1>3, <3>3
    <3>. QED
      BY <2>2, <3>2, <3>4
  <2>. QED
    BY <2>1, <2>2
<1>. QED
  BY <1>4, <1>5, <1>6, <1>7

\* An insertion moves the terminators behind it.
LEMMA InsertedTerms ==
    ASSUME NEW c \in Seq(Kind), NEW p \in 1 .. Len(c) + 1, NEW k \in Kind
    PROVE  LET d == InsertAt(c, p, k)
           IN  /\ \A i \in 1 .. Len(d) : i \in Terms(d) <=>
                     \/ i < p /\ i \in Terms(c)
                     \/ i = p /\ k = "term"
                     \/ i > p /\ i - 1 \in Terms(c)
               /\ Terms(d) \subseteq 1 .. Len(d)
               /\ Len(d) = Len(c) + 1
<1>. DEFINE d == InsertAt(c, p, k)
<1>1. Len(c) \in Nat
  BY LenProperties
<1>2. /\ Len(d) = Len(c) + 1
      /\ \A i \in 1 .. Len(c) + 1 :
            d[i] = IF i < p THEN c[i] ELSE IF i = p THEN k ELSE c[i - 1]
  BY InsertAtElements
<1>. HIDE DEF d
<1>3. ASSUME NEW i \in 1 .. Len(c) + 1
      PROVE  d[i] = "term" <=> \/ i < p /\ i \in Terms(c)
                               \/ i = p /\ k = "term"
                               \/ i > p /\ i - 1 \in Terms(c)
  <2>1. i < p => i \in 1 .. Len(c)
    BY <1>1, <1>3
  <2>2. i > p => i - 1 \in 1 .. Len(c)
    BY <1>1, <1>3
  <2>3. i \in Nat /\ p \in Nat
    BY <1>1, <1>3
  <2>4. d[i] = IF i < p THEN c[i] ELSE IF i = p THEN k ELSE c[i - 1]
    BY <1>2, <1>3
  <2>. QED
    BY <2>1, <2>2, <2>3, <2>4 DEF Terms
<1>4. Terms(d) = {i \in 1 .. Len(c) + 1 : d[i] = "term"}
  BY <1>2 DEF Terms
<1>. QED
  BY <1>2, <1>3, <1>4 DEF d

\* A removal moves the terminators behind it.
LEMMA RemovedTerms ==
    ASSUME NEW c \in Seq(Kind), NEW i \in 1 .. Len(c)
    PROVE  LET d == RemoveAt(c, i)
           IN  /\ \A j \in 1 .. Len(d) : j \in Terms(d) <=>
                     \/ j < i /\ j \in Terms(c)
                     \/ j >= i /\ j + 1 \in Terms(c)
               /\ Terms(d) \subseteq 1 .. Len(d)
               /\ Len(d) = Len(c) - 1
<1>. DEFINE d == RemoveAt(c, i)
<1>1. Len(c) \in Nat
  BY LenProperties
<1>2. /\ Len(d) = Len(c) - 1
      /\ \A j \in 1 .. Len(c) - 1 : d[j] = IF j < i THEN c[j] ELSE c[j + 1]
  BY RemoveAtElements
<1>. HIDE DEF d
<1>3. ASSUME NEW j \in 1 .. Len(c) - 1
      PROVE  d[j] = "term" <=> \/ j < i /\ j \in Terms(c)
                               \/ j >= i /\ j + 1 \in Terms(c)
  <2>1. j \in 1 .. Len(c) /\ j + 1 \in 1 .. Len(c)
    BY <1>1, <1>3
  <2>2. i \in Nat /\ j \in Nat
    BY <1>1, <1>3
  <2>3. d[j] = IF j < i THEN c[j] ELSE c[j + 1]
    BY <1>2, <1>3
  <2>. QED
    BY <2>1, <2>2, <2>3 DEF Terms
<1>4. Terms(d) = {j \in 1 .. Len(c) - 1 : d[j] = "term"}
  BY <1>2 DEF Terms
<1>. QED
  BY <1>2, <1>3, <1>4 DEF d

\* A block with one terminator, or none, as "terminated" says.
Terminators(c, yes) == IF yes THEN \E i \in Terms(c) : Terms(c) = {i} ELSE Terms(c) = {}

\* A plain instruction leaves a block as many terminators as it had.
LEMMA PlainKeepsTerminators ==
    ASSUME NEW c \in Seq(Kind), NEW p \in 1 .. Len(c) + 1, NEW yes \in BOOLEAN,
           Terminators(c, yes)
    PROVE  Terminators(InsertAt(c, p, "plain"), yes)
<1>. DEFINE d == InsertAt(c, p, "plain")
<1>1. /\ \A i \in 1 .. Len(d) : i \in Terms(d) <=>
            (i < p /\ i \in Terms(c)) \/ (i > p /\ i - 1 \in Terms(c))
      /\ Terms(d) \subseteq 1 .. Len(d) /\ Len(d) = Len(c) + 1
  BY InsertedTerms DEF Kind
<1>2. Len(c) \in Nat /\ Terms(c) \subseteq 1 .. Len(c)
  BY LenProperties DEF Terms
<1>. HIDE DEF d
<1>3. CASE yes
  <2>1. PICK i \in Terms(c) : Terms(c) = {i}
    BY <1>3 DEF Terminators
  <2>2. CASE i < p
    <3>1. Terms(d) = {i}
      BY <1>1, <1>2, <2>1, <2>2
    <3>. QED
      BY <1>3, <3>1 DEF Terminators, d
  <2>3. CASE i >= p
    <3>1. Terms(d) = {i + 1}
      BY <1>1, <1>2, <2>1, <2>3
    <3>. QED
      BY <1>3, <3>1 DEF Terminators, d
  <2>. QED
    BY <1>2, <2>1, <2>2, <2>3
<1>4. CASE ~yes
  BY <1>1, <1>2, <1>4 DEF Terminators, d
<1>. QED
  BY <1>3, <1>4

\* A terminator makes an open block a terminated one.
LEMMA TermTerminates ==
    ASSUME NEW c \in Seq(Kind), NEW p \in 1 .. Len(c) + 1, Terminators(c, FALSE)
    PROVE  /\ Terminators(InsertAt(c, p, "term"), TRUE)
           /\ Terms(InsertAt(c, p, "term")) = {p}
<1>. DEFINE d == InsertAt(c, p, "term")
<1>1. /\ \A i \in 1 .. Len(d) : i \in Terms(d) <=> i = p
      /\ Terms(d) \subseteq 1 .. Len(d) /\ Len(d) = Len(c) + 1
  BY InsertedTerms DEF Kind, Terminators
<1>2. Len(c) \in Nat
  BY LenProperties
<1>. HIDE DEF d
<1>3. Terms(d) = {p}
  BY <1>1, <1>2
<1>. QED
  BY <1>3 DEF Terminators, d

\* A block is open after its terminator is removed, and stays as it was after
\* another instruction is.
LEMMA RemoveKeepsTerminators ==
    ASSUME NEW c \in Seq(Kind), NEW i \in 1 .. Len(c), NEW yes \in BOOLEAN,
           Terminators(c, yes)
    PROVE  Terminators(RemoveAt(c, i), yes /\ c[i] # "term")
<1>. DEFINE d == RemoveAt(c, i)
<1>1. /\ \A j \in 1 .. Len(d) : j \in Terms(d) <=>
            (j < i /\ j \in Terms(c)) \/ (j >= i /\ j + 1 \in Terms(c))
      /\ Terms(d) \subseteq 1 .. Len(d) /\ Len(d) = Len(c) - 1
  BY RemovedTerms
<1>2. /\ Len(c) \in Nat /\ Terms(c) \subseteq 1 .. Len(c)
      /\ i \in Terms(c) <=> c[i] = "term"
  BY LenProperties DEF Terms
<1>. HIDE DEF d
<1>3. CASE ~yes
  BY <1>1, <1>2, <1>3 DEF Terminators, d
<1>4. CASE yes /\ c[i] = "term"
  <2>1. Terms(c) = {i}
    BY <1>2, <1>4 DEF Terminators
  <2>2. Terms(d) = {}
    BY <1>1, <1>2, <2>1
  <2>. QED
    BY <1>4, <2>2 DEF Terminators, d
<1>5. CASE yes /\ c[i] # "term"
  <2>1. PICK j \in Terms(c) : Terms(c) = {j}
    BY <1>5 DEF Terminators
  <2>2. CASE j < i
    <3>1. Terms(d) = {j}
      BY <1>1, <1>2, <2>1, <2>2
    <3>. QED
      BY <1>5, <3>1 DEF Terminators, d
  <2>3. CASE j > i
    <3>1. Terms(d) = {j - 1}
      BY <1>1, <1>2, <2>1, <2>3
    <3>. QED
      BY <1>5, <3>1 DEF Terminators, d
  <2>. QED
    BY <1>2, <1>5, <2>1, <2>2, <2>3
<1>. QED
  BY <1>3, <1>4, <1>5

-----------------------------------------------------------------------------
(* The inductive invariant *)

\* Each block has a terminator if it says so, and one only.
Marked == \A b \in Blocks : Terminators(code[b], terminated[b])

\* At the ends of blocks: a terminator is the last instruction.
TermsLast ==
    style = "ends" => \A b \in Blocks : \A i \in Terms(code[b]) : i = Len(code[b])

\* The arms of an if_else run right above it, and nothing else does.
Nested ==
    /\ stack # <<>> => stack[1].kind # "arm"
    /\ \A i \in 1 .. Len(stack) - 1 :
          /\ stack[i].kind = "both" <=> stack[i + 1].kind = "arm"
          /\ stack[i].kind = "both" => stack[i + 1].end = stack[i].end
          /\ style = "ends" => stack[i].kind # "goto"

\* At the ends of blocks: before the terminator in a goto_block, else at the end.
Positioned ==
    style = "ends" =>
        IF In("goto") THEN terminated[block] => anchor < Len(code[block])
                      ELSE ~terminated[block] => anchor = Len(code[block])

\* A "with" statement will come back to block b, or has yet to enter it.
IsPending(b) == \E i \in 1 .. Len(stack) : b \in Pending(stack[i])

\* At the ends of blocks: the current block is open if it is the caller's turn to
\* go on with it.
Covered ==
    style = "ends" => \A b \in Blocks :
        \/ terminated[b]
        \/ IsPending(b)
        \/ b = block /\ ~In("goto") /\ ~In("both")

Inv == TypeOK /\ Marked /\ TermsLast /\ Nested /\ Positioned /\ Covered

-----------------------------------------------------------------------------
(* Blocks and "with" statements *)

\* The lengths of the sequences.
LEMMA Lengths ==
    ASSUME TypeOK
    PROVE  /\ Len(code) \in Nat /\ 1 \in Blocks /\ code \in Seq(Seq(Kind))
           /\ \A b \in Blocks : code[b] \in Seq(Kind) /\ Len(code[b]) \in Nat
           /\ terminated \in Seq(BOOLEAN) /\ Len(terminated) = Len(code)
           /\ Len(stack) \in Nat
<1>1. /\ code \in Seq(Seq(Kind)) /\ Len(code) \in Nat /\ 1 \in Blocks
      /\ Len(stack) \in Nat
  BY LenProperties DEF TypeOK, Kind, Blocks
<1>2. \A b \in Blocks : code[b] \in Seq(Kind)
  BY <1>1, ElementOfSeq DEF Blocks
<1>3. \A b \in Blocks : Len(code[b]) \in Nat
  BY <1>2, LenProperties
<1>4. terminated \in Seq(BOOLEAN)
  <2>1. terminated \in [1 .. Len(code) -> BOOLEAN]
    BY DEF TypeOK, Blocks
  <2>2. [1 .. Len(code) -> BOOLEAN] \in {[1 .. n -> BOOLEAN] : n \in Nat}
    BY <1>1
  <2>3. Seq(BOOLEAN) = UNION {[1 .. n -> BOOLEAN] : n \in Nat}
    BY SeqDef
  <2>. QED
    BY <2>1, <2>2, <2>3
<1>5. DOMAIN terminated = 1 .. Len(terminated) /\ Len(terminated) \in Nat
  BY <1>4, LenProperties
<1>6. DOMAIN terminated = 1 .. Len(code)
  BY DEF TypeOK, Blocks
<1>7. Len(terminated) = Len(code)
  BY <1>1, <1>5, <1>6
<1>. QED
  BY <1>1, <1>2, <1>3, <1>4, <1>7

\* A change of the current block leaves the others as they are.
LEMMA BlockChanges ==
    ASSUME TypeOK, NEW c \in Seq(Kind), code' = [code EXCEPT ![block] = c]
    PROVE  /\ code' \in Seq(Seq(Kind)) /\ Len(code') = Len(code)
           /\ Blocks' = Blocks /\ Frame' = Frame
           /\ code'[block] = c
           /\ \A b \in Blocks : b # block => code'[b] = code[b]
<1>1. code \in Seq(Seq(Kind)) /\ block \in 1 .. Len(code)
  BY DEF TypeOK, Kind, Blocks
<1>2. /\ code' \in Seq(Seq(Kind)) /\ Len(code') = Len(code)
      /\ \A j \in 1 .. Len(code) : code'[j] = IF j = block THEN c ELSE code[j]
  BY <1>1, ExceptSeq
<1>3. Blocks' = Blocks
  BY <1>2 DEF Blocks
<1>4. Frame' = Frame
  BY <1>3 DEF Frame
<1>. QED
  BY <1>1, <1>2, <1>3, <1>4 DEF Blocks

\* append_basic_block, n times.
LEMMA BlocksAppended ==
    ASSUME TypeOK, NEW c \in Seq(Seq(Kind)), Len(c) = Len(code),
           NEW t \in [Blocks -> BOOLEAN], NEW n \in Nat,
           code' = AppendBlocks(c, n), terminated' = t \o [i \in 1 .. n |-> FALSE]
    PROVE  /\ code' \in Seq(Seq(Kind)) /\ Len(code') = Len(code) + n
           /\ terminated' \in [Blocks' -> BOOLEAN]
           /\ Blocks \subseteq Blocks' /\ Frame \subseteq Frame'
           /\ Blocks' = Blocks \cup (Len(code) + 1 .. Len(code) + n)
           /\ \A b \in Blocks : code'[b] = c[b] /\ terminated'[b] = t[b]
           /\ \A b \in Blocks' \ Blocks : code'[b] = <<>> /\ terminated'[b] = FALSE
<1>1. Len(code) \in Nat
  BY Lengths
<1>. DEFINE cs == [i \in 1 .. n |-> <<>>]
            ts == [i \in 1 .. n |-> FALSE]
<1>2. cs \in [1 .. n -> Seq(Kind)] /\ ts \in [1 .. n -> BOOLEAN]
  BY EmptySeq
<1>3. cs \in Seq(Seq(Kind)) /\ ts \in Seq(BOOLEAN) /\ t \in Seq(BOOLEAN)
  BY <1>1, <1>2, SeqDef DEF Blocks
<1>4. DOMAIN cs = 1 .. n /\ DOMAIN ts = 1 .. n /\ DOMAIN t = 1 .. Len(code)
  BY <1>2 DEF Blocks
<1>5. Len(cs) = n /\ Len(ts) = n /\ Len(t) = Len(code)
  <2>1. /\ DOMAIN cs = 1 .. Len(cs) /\ Len(cs) \in Nat
        /\ DOMAIN ts = 1 .. Len(ts) /\ Len(ts) \in Nat
        /\ DOMAIN t = 1 .. Len(t) /\ Len(t) \in Nat
    BY <1>3, LenProperties
  <2>. HIDE DEF cs, ts
  <2>. QED
    BY <1>1, <1>4, <2>1
<1>6. \A i \in 1 .. n : cs[i] = <<>> /\ ts[i] = FALSE
  OBVIOUS
<1>7. code' = c \o cs /\ terminated' = t \o ts
  BY DEF AppendBlocks
<1>. HIDE DEF cs, ts
<1>8. /\ code' \in Seq(Seq(Kind)) /\ Len(code') = Len(code) + n
      /\ \A i \in 1 .. Len(code) + n :
            code'[i] = IF i <= Len(code) THEN c[i] ELSE cs[i - Len(code)]
  <2>1. /\ c \o cs \in Seq(Seq(Kind)) /\ Len(c \o cs) = Len(c) + Len(cs)
        /\ \A i \in 1 .. Len(c) + Len(cs) :
              (c \o cs)[i] = IF i <= Len(c) THEN c[i] ELSE cs[i - Len(c)]
    BY <1>3, ConcatProperties
  <2>. QED
    BY <1>5, <1>7, <2>1
<1>9. /\ terminated' \in Seq(BOOLEAN) /\ Len(terminated') = Len(code) + n
      /\ \A i \in 1 .. Len(code) + n :
            terminated'[i] = IF i <= Len(code) THEN t[i] ELSE ts[i - Len(code)]
  <2>1. /\ t \o ts \in Seq(BOOLEAN) /\ Len(t \o ts) = Len(t) + Len(ts)
        /\ \A i \in 1 .. Len(t) + Len(ts) :
              (t \o ts)[i] = IF i <= Len(t) THEN t[i] ELSE ts[i - Len(t)]
    BY <1>3, ConcatProperties
  <2>. QED
    BY <1>5, <1>7, <2>1
<1>10. terminated' \in [1 .. Len(code) + n -> BOOLEAN]
  BY <1>9, LenProperties
<1>11. /\ Blocks' = 1 .. Len(code) + n /\ Blocks = 1 .. Len(code)
       /\ Blocks' = Blocks \cup (Len(code) + 1 .. Len(code) + n)
  BY <1>1, <1>8 DEF Blocks
<1>12. ASSUME NEW b \in Blocks
       PROVE  code'[b] = c[b] /\ terminated'[b] = t[b]
  <2>1. b \in 1 .. Len(code) + n /\ b <= Len(code)
    BY <1>1, <1>11, <1>12
  <2>. QED
    BY <1>8, <1>9, <2>1
<1>13. ASSUME NEW b \in Blocks' \ Blocks
       PROVE  code'[b] = <<>> /\ terminated'[b] = FALSE
  <2>1. b \in 1 .. Len(code) + n /\ ~(b <= Len(code)) /\ b - Len(code) \in 1 .. n
    BY <1>1, <1>11, <1>13
  <2>. QED
    BY <1>6, <1>8, <1>9, <2>1
<1>14. Frame \subseteq Frame'
  BY <1>11 DEF Frame
<1>. QED
  BY <1>8, <1>10, <1>11, <1>12, <1>13, <1>14

\* What a "with" statement knows are blocks.
LEMMA FrameBlocks ==
    ASSUME NEW f \in Frame
    PROVE  /\ f.kind \in {"goto", "then", "arm", "both"}
           /\ f.kind = "goto" => f.old \in Blocks
           /\ f.kind # "goto" => f.end \in Blocks
           /\ f.kind = "both" => f.arms \subseteq Blocks
           /\ Pending(f) \subseteq Blocks
BY DEF Frame, Pending

\* A "with" statement begins.
LEMMA Pushes ==
    ASSUME TypeOK, Frame \subseteq Frame', NEW f \in Frame', Push(f)
    PROVE  /\ stack' \in Seq(Frame') /\ Len(stack') = Len(stack) + 1
           /\ stack' # <<>> /\ Top' = f
           /\ stack'[Len(stack) + 1] = f
           /\ \A i \in 1 .. Len(stack) : stack'[i] = stack[i]
           /\ In("goto")' <=> f.kind = "goto"
           /\ In("both")' <=> f.kind = "both"
<1>1. stack \in Seq(Frame')
  BY SeqMonotonic DEF TypeOK
<1>2. Len(stack) \in Nat
  BY Lengths
<1>3. stack' = Append(stack, f)
  BY DEF Push
<1>4. /\ stack' \in Seq(Frame') /\ Len(stack') = Len(stack) + 1
      /\ stack'[Len(stack) + 1] = f
      /\ \A i \in 1 .. Len(stack) : stack'[i] = stack[i]
  BY <1>1, <1>3, AppendProperties
<1>5. stack' # <<>>
  BY <1>2, <1>4
<1>6. Top' = f
  BY <1>4 DEF Top, Last
<1>. QED
  BY <1>4, <1>5, <1>6 DEF In

\* A "with" statement ends.
LEMMA Pops ==
    ASSUME TypeOK, stack # <<>>, Frame \subseteq Frame', Pop
    PROVE  /\ stack' \in Seq(Frame') /\ Len(stack') = Len(stack) - 1
           /\ Len(stack) \in Nat \ {0} /\ Top = stack[Len(stack)] /\ Top \in Frame
           /\ \A i \in 1 .. Len(stack) - 1 : stack'[i] = stack[i]
           /\ Len(stack) = 1 => stack' = <<>>
           /\ Len(stack) > 1 => stack' # <<>> /\ Top' = stack[Len(stack) - 1]
<1>1. stack \in Seq(Frame') /\ stack \in Seq(Frame)
  BY SeqMonotonic DEF TypeOK
<1>2. Len(stack) \in Nat \ {0}
  BY <1>1, EmptySeq
<1>3. Top = stack[Len(stack)] /\ Top \in Frame
  BY <1>1, <1>2, ElementOfSeq DEF Top, Last
<1>4. /\ \A i \in 1 .. Len(stack) - 1 : stack[i] \in Frame'
      /\ stack' = SubSeq(stack, 1, Len(stack) - 1)
  BY <1>1, <1>2, ElementOfSeq DEF Pop, Front
<1>5. /\ stack' \in Seq(Frame') /\ Len(stack') = Len(stack) - 1
      /\ \A i \in 1 .. Len(stack) - 1 : stack'[i] = stack[i]
  <2>. DEFINE n == Len(stack) - 1
              s == SubSeq(stack, 1, n)
  <2>1. n \in Nat /\ n \in Int /\ 1 \in Int
    BY <1>2
  <2>. HIDE DEF n
  <2>2. /\ s \in Seq(Frame') /\ Len(s) = IF 1 <= n THEN n - 1 + 1 ELSE 0
        /\ \A i \in 1 .. n - 1 + 1 : s[i] = stack[1 + i - 1]
    BY <1>4, <2>1, SubSeqProperties DEF n
  <2>3. Len(s) = n /\ \A i \in 1 .. n : s[i] = stack[i]
    BY <2>1, <2>2
  <2>. QED
    BY <1>4, <2>2, <2>3 DEF n
<1>6. Len(stack) = 1 => stack' = <<>>
  BY <1>5, EmptySeq
<1>7. Len(stack) > 1 => stack' # <<>> /\ Top' = stack[Len(stack) - 1]
  BY <1>2, <1>5 DEF Top, Last
<1>. QED
  BY <1>2, <1>3, <1>5, <1>6, <1>7

-----------------------------------------------------------------------------
(* The steps *)

\* A change within the current block: an instruction is inserted or removed.
LEMMA InBlockKeeps ==
    ASSUME Inv, NEW c \in Seq(Kind), NEW yes \in BOOLEAN, NEW a \in 0 .. Len(c),
           code' = [code EXCEPT ![block] = c], anchor' = a,
           terminated' = [terminated EXCEPT ![block] = yes],
           UNCHANGED <<block, stack, style>>,
           Terminators(c, yes),
           style = "ends" =>
              /\ \A i \in Terms(c) : i = Len(c)
              /\ terminated[block] => yes
              /\ IF In("goto") THEN yes => a < Len(c) ELSE ~yes => a = Len(c)
    PROVE  Inv'
<1>. USE DEF Inv
<1>1. /\ code' \in Seq(Seq(Kind)) /\ Len(code') = Len(code)
      /\ Blocks' = Blocks /\ Frame' = Frame /\ code'[block] = c
      /\ \A b \in Blocks : b # block => code'[b] = code[b]
  BY BlockChanges
<1>2. /\ block \in Blocks /\ terminated' \in [Blocks -> BOOLEAN]
      /\ terminated'[block] = yes
      /\ \A b \in Blocks : b # block => terminated'[b] = terminated[b]
  BY DEF TypeOK
<1>3. TypeOK'
  BY <1>1, <1>2 DEF TypeOK, Kind
<1>4. Marked'
  BY <1>1, <1>2 DEF Marked
<1>5. TermsLast'
  BY <1>1 DEF TermsLast
<1>6. Nested'
  BY DEF Nested
<1>7. Positioned'
  BY <1>1, <1>2 DEF Positioned, In, Top
<1>8. Covered'
  BY <1>1, <1>2 DEF Covered, IsPending, In, Top
<1>. QED
  BY <1>3, <1>4, <1>5, <1>6, <1>7, <1>8

\* The current block, and what an insertion at the anchor makes of it.
LEMMA AtAnchor ==
    ASSUME TypeOK
    PROVE  /\ block \in Blocks /\ code[block] \in Seq(Kind)
           /\ Len(code[block]) \in Nat /\ anchor \in 0 .. Len(code[block])
           /\ anchor + 1 \in 1 .. Len(code[block]) + 1
           /\ \A k \in Kind :
                 /\ InsertAt(code[block], anchor + 1, k) \in Seq(Kind)
                 /\ Len(InsertAt(code[block], anchor + 1, k)) = Len(code[block]) + 1
<1>1. /\ block \in Blocks /\ code[block] \in Seq(Kind)
      /\ Len(code[block]) \in Nat /\ anchor \in 0 .. Len(code[block])
  BY Lengths DEF TypeOK
<1>2. anchor + 1 \in 1 .. Len(code[block]) + 1
  BY <1>1
<1>. DEFINE c == code[block]  p == anchor + 1
<1>. HIDE DEF c, p
<1>3. ASSUME NEW k \in Kind
      PROVE  InsertAt(c, p, k) \in Seq(Kind) /\ Len(InsertAt(c, p, k)) = Len(c) + 1
  BY <1>1, <1>2, <1>3, InsertAtElements DEF c, p
<1>. QED
  BY <1>1, <1>2, <1>3 DEF c, p

\* Any method that inserts an instruction other than a terminator.
LEMMA InsertPlainKeeps ==
    ASSUME Inv, InsertPlain
    PROVE  Inv'
<1>. DEFINE c == code[block]
            d == InsertAt(c, anchor + 1, "plain")
            yes == terminated[block]
<1>1. /\ block \in Blocks /\ c \in Seq(Kind) /\ Len(c) \in Nat
      /\ anchor \in 0 .. Len(c) /\ anchor + 1 \in 1 .. Len(c) + 1
      /\ d \in Seq(Kind) /\ Len(d) = Len(c) + 1
  BY AtAnchor DEF Inv, Kind
<1>2. yes \in BOOLEAN /\ Terminators(c, yes)
  BY <1>1 DEF Inv, Marked, TypeOK
<1>3. Terminators(d, yes)
  BY <1>1, <1>2, PlainKeepsTerminators
<1>4. /\ code' = [code EXCEPT ![block] = d] /\ anchor' = anchor + 1
      /\ anchor + 1 \in 0 .. Len(d)
      /\ UNCHANGED <<block, stack, style>>
  BY <1>1 DEF InsertPlain, Insert
<1>5. terminated' = [terminated EXCEPT ![block] = yes]
  BY <1>1 DEF InsertPlain, Inv, TypeOK
<1>6. ASSUME style = "ends"
      PROVE  /\ \A i \in Terms(d) : i = Len(d)
             /\ IF In("goto") THEN yes => anchor + 1 < Len(d)
                              ELSE ~yes => anchor + 1 = Len(d)
  <2>1. \A i \in Terms(c) : i = Len(c)
    BY <1>1, <1>6 DEF Inv, TermsLast
  <2>2. IF In("goto") THEN yes => anchor < Len(c) ELSE ~yes /\ anchor = Len(c)
    BY <1>6 DEF Inv, Positioned, InsertPlain, MayInsert
  <2>3. /\ \A i \in 1 .. Len(d) : i \in Terms(d) <=>
              \/ i < anchor + 1 /\ i \in Terms(c)
              \/ i = anchor + 1 /\ "plain" = "term"
              \/ i > anchor + 1 /\ i - 1 \in Terms(c)
        /\ Terms(d) \subseteq 1 .. Len(d)
    BY <1>1, InsertedTerms DEF Kind
  <2>4. Terms(c) # {} => yes
    BY <1>2 DEF Terminators
  <2>. HIDE DEF d, c, yes
  <2>5. ASSUME NEW i \in Terms(d)
        PROVE  i = Len(d)
    <3>1. i \in 1 .. Len(d)
      BY <2>3, <2>5
    <3>2. CASE i < anchor + 1 /\ i \in Terms(c)
      BY <1>1, <2>1, <2>2, <2>4, <3>2
    <3>3. CASE i - 1 \in Terms(c)
      BY <1>1, <2>1, <3>1, <3>3
    <3>. QED
      BY <2>3, <2>5, <3>1, <3>2, <3>3
  <2>. QED
    BY <1>1, <2>2, <2>5
<1>. HIDE DEF d, c, yes
<1>. QED
  BY <1>1, <1>2, <1>3, <1>4, <1>5, <1>6, InBlockKeeps DEF yes

\* branch, cbranch, switch, ret...
LEMMA TerminateKeeps ==
    ASSUME Inv, Terminate
    PROVE  Inv'
<1>. DEFINE c == code[block]
            d == InsertAt(c, anchor + 1, "term")
<1>1. /\ block \in Blocks /\ c \in Seq(Kind) /\ Len(c) \in Nat
      /\ anchor \in 0 .. Len(c) /\ anchor + 1 \in 1 .. Len(c) + 1
      /\ d \in Seq(Kind) /\ Len(d) = Len(c) + 1
  BY AtAnchor DEF Inv, Kind
<1>2. Terminators(c, FALSE)
  BY <1>1 DEF Inv, Marked, TypeOK, Terminate, SetTerminator
<1>3. Terminators(d, TRUE) /\ Terms(d) = {anchor + 1}
  BY <1>1, <1>2, TermTerminates
<1>4. /\ code' = [code EXCEPT ![block] = d] /\ anchor' = anchor + 1
      /\ terminated' = [terminated EXCEPT ![block] = TRUE]
      /\ anchor + 1 \in 0 .. Len(d)
      /\ UNCHANGED <<block, stack, style>>
  BY <1>1 DEF Terminate, SetTerminator, Insert
<1>5. style = "ends" => anchor = Len(c) /\ ~In("goto")
  BY DEF Inv, Positioned, Terminate, MayBranch
<1>. HIDE DEF d, c
<1>6. style = "ends" => ~In("goto") /\ \A i \in Terms(d) : i = Len(d)
  BY <1>1, <1>3, <1>5
<1>. QED
  BY <1>1, <1>3, <1>4, <1>6, InBlockKeeps

\* remove, of an instruction of the current block
LEMMA RemoveInstructionKeeps ==
    ASSUME Inv, NEW i \in 1 .. Len(code[block]), RemoveInstruction(i)
    PROVE  Inv'
<1>. DEFINE c == code[block]
            d == RemoveAt(c, i)
            yes == terminated[block] /\ c[i] # "term"
            a == IF anchor > i - 1 THEN anchor - 1 ELSE anchor
<1>1. /\ block \in Blocks /\ c \in Seq(Kind) /\ Len(c) \in Nat
      /\ anchor \in 0 .. Len(c)
  BY AtAnchor DEF Inv
<1>2. d \in Seq(Kind) /\ Len(d) = Len(c) - 1
  BY <1>1, RemoveAtElements
<1>3. terminated[block] \in BOOLEAN /\ Terminators(c, terminated[block])
  BY <1>1 DEF Inv, Marked, TypeOK
<1>4. yes \in BOOLEAN /\ Terminators(d, yes)
  BY <1>1, <1>3, RemoveKeepsTerminators
<1>5. /\ code' = [code EXCEPT ![block] = d] /\ anchor' = a
      /\ terminated' = [terminated EXCEPT ![block] = yes]
      /\ UNCHANGED <<block, stack, style>>
  BY DEF RemoveInstruction
<1>6. a \in 0 .. Len(d)
  BY <1>1, <1>2
<1>7. ASSUME style = "ends"
      PROVE  /\ \A j \in Terms(d) : j = Len(d)
             /\ terminated[block] => yes
             /\ IF In("goto") THEN yes => a < Len(d) ELSE ~yes => a = Len(d)
  <2>1. c[i] = "plain"
    BY <1>7 DEF RemoveInstruction
  <2>2. \A j \in Terms(c) : j = Len(c)
    BY <1>1, <1>7 DEF Inv, TermsLast
  <2>3. /\ \A j \in 1 .. Len(d) : j \in Terms(d) <=>
              \/ j < i /\ j \in Terms(c)
              \/ j >= i /\ j + 1 \in Terms(c)
        /\ Terms(d) \subseteq 1 .. Len(d)
    BY <1>1, RemovedTerms
  <2>4. yes = terminated[block]
    BY <1>3, <2>1
  <2>5. IF In("goto") THEN yes => anchor < Len(c) ELSE ~yes => anchor = Len(c)
    BY <1>7, <2>4 DEF Inv, Positioned
  <2>6. yes => i < Len(c)
    <3>1. ASSUME yes PROVE Len(c) \in Terms(c)
      <4>1. PICK j \in Terms(c) : Terms(c) = {j}
        BY <1>3, <2>4, <3>1 DEF Terminators
      <4>. QED
        BY <2>2, <4>1
    <3>2. Len(c) \in Terms(c) => c[Len(c)] = "term"
      BY DEF Terms
    <3>. QED
      BY <1>1, <2>1, <3>1, <3>2
  <2>. HIDE DEF d, c
  <2>7. \A j \in Terms(d) : j = Len(d)
    BY <1>1, <1>2, <2>2, <2>3
  <2>8. IF In("goto") THEN yes => a < Len(d) ELSE ~yes => a = Len(d)
    <3>. HIDE DEF yes
    <3>1. i \in 1 .. Len(c)
      BY DEF c
    <3>. QED
      BY <1>1, <1>2, <2>5, <2>6, <3>1
  <2>. QED
    BY <2>4, <2>7, <2>8
<1>. HIDE DEF d, c, a, yes
<1>. QED
  BY <1>4, <1>2, <1>5, <1>6, <1>7, InBlockKeeps

\* position_at_start, position_before, position_after
LEMMA MoveKeeps ==
    ASSUME Inv, Move
    PROVE  Inv'
<1>. USE DEF Inv, Move
<1>1. Blocks' = Blocks /\ Frame' = Frame
  BY DEF Blocks, Frame
<1>2. TypeOK'
  BY <1>1 DEF TypeOK
<1>3. Marked' /\ TermsLast' /\ Nested'
  BY <1>1 DEF Marked, TermsLast, Nested
<1>4. Positioned' /\ Covered'
  BY <1>1 DEF Positioned, Covered
<1>. QED
  BY <1>2, <1>3, <1>4

\* The blocks that are pending when a "with" statement begins (but an arm).
LEMMA PushNests ==
    ASSUME TypeOK, Nested, Frame \subseteq Frame', NEW f \in Frame', Push(f),
           ~In("both"), f.kind # "arm", style = "ends" => ~In("goto"), style' = style
    PROVE  /\ Nested'
           /\ \A b : IsPending(b) => IsPending(b)'
           /\ \A b \in Pending(f) : IsPending(b)'
<1>1. /\ stack' \in Seq(Frame') /\ Len(stack') = Len(stack) + 1
      /\ stack' # <<>> /\ stack'[Len(stack) + 1] = f
      /\ \A i \in 1 .. Len(stack) : stack'[i] = stack[i]
  BY Pushes
<1>2. Len(stack) \in Nat /\ (Len(stack) > 0 => stack # <<>>)
  BY Lengths, EmptySeq
<1>3. Len(stack) > 0 => /\ stack[Len(stack)].kind # "both"
                        /\ style = "ends" => stack[Len(stack)].kind # "goto"
  BY <1>2 DEF In, Top, Last
<1>4. stack'[1].kind # "arm"
  BY <1>1, <1>2 DEF Nested
<1>5. ASSUME NEW i \in 1 .. Len(stack') - 1
      PROVE  /\ stack'[i].kind = "both" <=> stack'[i + 1].kind = "arm"
             /\ stack'[i].kind = "both" => stack'[i + 1].end = stack'[i].end
             /\ style' = "ends" => stack'[i].kind # "goto"
  <2>1. i \in 1 .. Len(stack) /\ stack'[i] = stack[i]
    BY <1>1, <1>2, <1>5
  <2>2. CASE i < Len(stack)
    <3>1. i \in 1 .. Len(stack) - 1 /\ i + 1 \in 1 .. Len(stack)
      BY <1>2, <2>1, <2>2
    <3>. QED
      BY <1>1, <2>1, <3>1 DEF Nested
  <2>3. CASE i = Len(stack)
    BY <1>1, <1>2, <1>3, <2>1, <2>3
  <2>. QED
    BY <1>2, <2>1, <2>2, <2>3
<1>6. ASSUME NEW b, IsPending(b)
      PROVE  IsPending(b)'
  <2>1. PICK i \in 1 .. Len(stack) : b \in Pending(stack[i])
    BY <1>6 DEF IsPending
  <2>2. i \in 1 .. Len(stack') /\ stack'[i] = stack[i]
    BY <1>1, <1>2, <2>1
  <2>. QED
    BY <2>1, <2>2 DEF IsPending
<1>7. ASSUME NEW b \in Pending(f)
      PROVE  IsPending(b)'
  <2>1. Len(stack) + 1 \in 1 .. Len(stack')
    BY <1>1, <1>2
  <2>. QED
    BY <1>1, <1>7, <2>1 DEF IsPending
<1>. QED
  BY <1>1, <1>4, <1>5, <1>6, <1>7 DEF Nested

\* The blocks that are pending when a "with" statement ends.
LEMMA PopNests ==
    ASSUME TypeOK, Nested, stack # <<>>, Frame \subseteq Frame', Pop, style' = style
    PROVE  /\ Nested'
           /\ \A b : IsPending(b) => IsPending(b)' \/ b \in Pending(Top)
           /\ style = "ends" => ~In("goto")'
           /\ In("both")' <=> Top.kind = "arm"
           /\ Top.kind = "arm" => \A b \in {Top.end} : IsPending(b)'
<1>1. /\ stack' \in Seq(Frame') /\ Len(stack') = Len(stack) - 1
      /\ Len(stack) \in Nat \ {0} /\ Top = stack[Len(stack)] /\ Top \in Frame
      /\ \A i \in 1 .. Len(stack) - 1 : stack'[i] = stack[i]
      /\ Len(stack) = 1 => stack' = <<>>
      /\ Len(stack) > 1 => stack' # <<>> /\ Top' = stack[Len(stack) - 1]
  BY Pops
<1>2. ASSUME stack' # <<>>
      PROVE  stack'[1].kind # "arm"
  <2>1. 1 \in 1 .. Len(stack) - 1
    BY <1>1, <1>2
  <2>. QED
    BY <1>1, <2>1 DEF Nested
<1>3. ASSUME NEW i \in 1 .. Len(stack') - 1
      PROVE  /\ stack'[i].kind = "both" <=> stack'[i + 1].kind = "arm"
             /\ stack'[i].kind = "both" => stack'[i + 1].end = stack'[i].end
             /\ style' = "ends" => stack'[i].kind # "goto"
  <2>1. /\ i \in 1 .. Len(stack) - 1 /\ i + 1 \in 1 .. Len(stack) - 1
        /\ stack'[i] = stack[i] /\ stack'[i + 1] = stack[i + 1]
    BY <1>1, <1>3
  <2>. QED
    BY <2>1 DEF Nested
<1>4. ASSUME NEW b, IsPending(b), b \notin Pending(Top)
      PROVE  IsPending(b)'
  <2>1. PICK i \in 1 .. Len(stack) : b \in Pending(stack[i])
    BY <1>4 DEF IsPending
  <2>2. i # Len(stack)
    BY <1>1, <1>4, <2>1
  <2>3. i \in 1 .. Len(stack') /\ stack'[i] = stack[i]
    BY <1>1, <2>1, <2>2
  <2>. QED
    BY <2>1, <2>3 DEF IsPending
<1>5. CASE Len(stack) = 1
  BY <1>1, <1>2, <1>3, <1>4, <1>5 DEF Nested, In
<1>6. CASE Len(stack) > 1
  <2>. DEFINE n == Len(stack) - 1
  <2>1. n \in 1 .. Len(stack) - 1 /\ n + 1 = Len(stack) /\ n \in 1 .. Len(stack')
    BY <1>1, <1>6
  <2>2. /\ stack[n].kind = "both" <=> Top.kind = "arm"
        /\ stack[n].kind = "both" => Top.end = stack[n].end
        /\ style = "ends" => stack[n].kind # "goto"
    BY <1>1, <2>1 DEF Nested
  <2>3. /\ style = "ends" => ~In("goto")'
        /\ In("both")' <=> Top.kind = "arm"
    BY <1>1, <1>6, <2>2 DEF In
  <2>4. ASSUME Top.kind = "arm", NEW b, b = Top.end
        PROVE  IsPending(b)'
    <3>1. stack'[n] = stack[n]
      BY <1>1, <2>1
    <3>2. b \in Pending(stack'[n])
      BY <2>2, <2>4, <3>1 DEF Pending
    <3>. QED
      BY <2>1, <3>2 DEF IsPending
  <2>. QED
    BY <1>2, <1>3, <1>4, <2>3, <2>4 DEF Nested
<1>. QED
  BY <1>1, <1>5, <1>6

\* Where goto_block finds the terminator.
LEMMA TerminatorFound ==
    ASSUME NEW c \in Seq(Kind), NEW j \in Terms(c), Terms(c) = {j}
    PROVE  /\ SelectInSeq(c, LAMBDA k : k = "term") = j
           /\ j - 1 \in 0 .. Len(c) /\ j - 1 < Len(c)
<1>1. Len(c) \in Nat /\ j \in 1 .. Len(c)
  BY LenProperties DEF Terms
<1>2. {i \in 1 .. Len(c) : c[i] = "term"} = {j}
  BY DEF Terms
<1>3. Min({j}) = j
  BY <1>1 DEF Min
<1>4. SelectInSeq(c, LAMBDA k : k = "term") = j
  BY <1>2, <1>3 DEF SelectInSeq
<1>. QED
  BY <1>1, <1>4

\* A step that moves the builder, and leaves the blocks as they are.
LEMMA UnchangedBlocks ==
    ASSUME Inv, UNCHANGED <<code, terminated, style>>
    PROVE  /\ Blocks' = Blocks /\ Frame' = Frame /\ Marked' /\ TermsLast'
           /\ block' \in Blocks /\ anchor' \in 0 .. Len(code[block'])
              /\ stack' \in Seq(Frame) => TypeOK'
<1>1. Blocks' = Blocks /\ Frame' = Frame
  BY DEF Blocks, Frame
<1>. QED
  BY <1>1 DEF Inv, Marked, TermsLast, TypeOK

\* position_at_end, of a block that is not changed
LEMMA EndPosition ==
    ASSUME Inv, NEW b \in Blocks, PositionAtEnd(b), code' = code
    PROVE  block' \in Blocks /\ anchor' \in 0 .. Len(code[block']) /\ anchor' = Len(code[b])
BY Lengths DEF PositionAtEnd, Inv

\* goto_block, goto_entry_block
LEMMA EnterGotoKeeps ==
    ASSUME Inv, NEW b \in Blocks, EnterGoto(b)
    PROVE  Inv'
<1>1. /\ Blocks' = Blocks /\ Frame' = Frame /\ Marked' /\ TermsLast'
      /\ block' \in Blocks /\ anchor' \in 0 .. Len(code[block'])
         /\ stack' \in Seq(Frame) => TypeOK'
  BY UnchangedBlocks DEF EnterGoto
<1>2. block \in Blocks /\ Goto(block) \in Frame
  BY DEF Inv, TypeOK, Goto, Frame
<1>3. /\ block' = b /\ anchor' \in 0 .. Len(code[b])
      /\ terminated[b] => anchor' < Len(code[b])
  <2>1. CASE terminated[b]
    <3>1. PICK j \in Terms(code[b]) : Terms(code[b]) = {j}
      BY <2>1 DEF Inv, Marked, Terminators
    <3>2. code[b] \in Seq(Kind)
      BY Lengths DEF Inv
    <3>3. SelectInSeq(code[b], LAMBDA k : k = "term") = j
      BY <3>1, <3>2, TerminatorFound
    <3>4. block' = b /\ anchor' = SelectInSeq(code[b], LAMBDA k : k = "term") - 1
      BY <2>1 DEF EnterGoto
    <3>. QED
      BY <3>1, <3>2, <3>3, <3>4, TerminatorFound
  <2>2. CASE ~terminated[b]
    BY <2>2, EndPosition DEF EnterGoto, PositionAtEnd
  <2>. QED
    BY <2>1, <2>2
<1>4. /\ stack' \in Seq(Frame) /\ stack' # <<>> /\ Top' = Goto(block)
      /\ In("goto")' /\ ~In("both")'
  BY <1>1, <1>2, Pushes DEF EnterGoto, Inv, Goto
<1>5. /\ Nested'
      /\ \A c : IsPending(c) => IsPending(c)'
      /\ \A c \in Pending(Goto(block)) : IsPending(c)'
  BY <1>1, <1>2, PushNests DEF EnterGoto, MayEnter, Inv, Goto
<1>6. Positioned'
  BY <1>3, <1>4 DEF Positioned, EnterGoto
<1>7. Covered'
  BY <1>1, <1>5 DEF Covered, EnterGoto, Inv, Goto, Pending
<1>. QED
  BY <1>1, <1>3, <1>4, <1>5, <1>6, <1>7 DEF Inv

\* The body of a goto_block ends, or raises.
LEMMA LeaveGotoKeeps ==
    ASSUME Inv, LeaveGoto
    PROVE  Inv'
<1>1. /\ Blocks' = Blocks /\ Frame' = Frame /\ Marked' /\ TermsLast'
      /\ block' \in Blocks /\ anchor' \in 0 .. Len(code[block'])
         /\ stack' \in Seq(Frame) => TypeOK'
  BY UnchangedBlocks DEF LeaveGoto
<1>2. /\ stack # <<>> /\ Top.kind = "goto" /\ Top \in Frame
      /\ stack' \in Seq(Frame)
  BY <1>1, Pops DEF LeaveGoto, In, Inv
<1>3. Top.old \in Blocks /\ Pending(Top) = {Top.old}
  BY <1>2, FrameBlocks DEF Pending
<1>4. /\ Nested'
      /\ \A b : IsPending(b) => IsPending(b)' \/ b = Top.old
      /\ style = "ends" => ~In("goto")' /\ ~In("both")'
  BY <1>1, <1>2, <1>3, PopNests DEF LeaveGoto, Inv
<1>5. block' = Top.old /\ anchor' \in 0 .. Len(code[block']) /\ anchor' = Len(code[block'])
  BY <1>3, EndPosition DEF LeaveGoto, PositionAtEnd
<1>6. Positioned'
  BY <1>4, <1>5 DEF Positioned, LeaveGoto
<1>7. Covered'
  BY <1>1, <1>4, <1>5 DEF Covered, LeaveGoto, Inv
<1>. QED
  BY <1>1, <1>2, <1>3, <1>4, <1>5, <1>6, <1>7 DEF Inv

\* _branch_helper leaves the current block with a terminator, at its end if the
\* builder was there.
LEMMA BranchHelperTerminates ==
    ASSUME Inv, BranchHelper, ~In("goto"), style' = style
    PROVE  /\ code' \in Seq(Seq(Kind)) /\ Len(code') = Len(code)
           /\ Blocks' = Blocks /\ Frame' = Frame
           /\ terminated' \in [Blocks -> BOOLEAN] /\ terminated'[block]
           /\ \A b \in Blocks : terminated[b] => terminated'[b]
           /\ Len(code'[block]) =
                 IF terminated[block] THEN Len(code[block]) ELSE Len(code[block]) + 1
           /\ \A b \in Blocks : Len(code'[b]) \in Nat
           /\ Marked' /\ TermsLast'
<1>1. block \in Blocks /\ terminated \in [Blocks -> BOOLEAN]
  BY DEF Inv, TypeOK
<1>2. CASE terminated[block]
  <2>1. UNCHANGED <<code, terminated>>
    BY <1>2 DEF BranchHelper
  <2>2. Blocks' = Blocks /\ Frame' = Frame
    BY <2>1 DEF Blocks, Frame
  <2>. QED
    BY <1>1, <1>2, <2>1, <2>2, Lengths DEF Inv, Marked, TermsLast
<1>3. CASE ~terminated[block]
  <2>. DEFINE c == code[block]
              d == InsertAt(c, anchor + 1, "term")
  <2>1. /\ c \in Seq(Kind) /\ Len(c) \in Nat
        /\ anchor \in 0 .. Len(c) /\ anchor + 1 \in 1 .. Len(c) + 1
        /\ d \in Seq(Kind) /\ Len(d) = Len(c) + 1
    BY AtAnchor DEF Inv, Kind
  <2>2. Terminators(d, TRUE) /\ Terms(d) = {anchor + 1}
    <3>1. Terminators(c, FALSE)
      BY <1>1, <1>3 DEF Inv, Marked
    <3>. QED
      BY <2>1, <3>1, TermTerminates
  <2>3. style = "ends" => anchor = Len(c)
    BY <1>3 DEF Inv, Positioned
  <2>4. /\ code' = [code EXCEPT ![block] = d]
        /\ terminated' = [terminated EXCEPT ![block] = TRUE]
    BY <1>3 DEF BranchHelper, Insert
  <2>. HIDE DEF d
  <2>5. /\ code' \in Seq(Seq(Kind)) /\ Len(code') = Len(code)
        /\ Blocks' = Blocks /\ Frame' = Frame /\ code'[block] = d
        /\ \A b \in Blocks : b # block => code'[b] = code[b]
    BY <2>1, <2>4, BlockChanges DEF Inv
  <2>6. /\ terminated' \in [Blocks -> BOOLEAN] /\ terminated'[block] = TRUE
        /\ \A b \in Blocks : b # block => terminated'[b] = terminated[b]
    BY <1>1, <2>4
  <2>7. Marked'
    BY <2>2, <2>5, <2>6 DEF Inv, Marked
  <2>8. TermsLast'
    BY <2>1, <2>2, <2>3, <2>5 DEF Inv, TermsLast
  <2>9. \A b \in Blocks : Len(code'[b]) \in Nat
    BY <2>1, <2>5, Lengths DEF Inv
  <2>. QED
    BY <1>3, <2>1, <2>5, <2>6, <2>7, <2>8, <2>9
<1>. QED
  BY <1>2, <1>3

\* if_then ends.
LEMMA LeaveThenKeeps ==
    ASSUME Inv, LeaveThen
    PROVE  Inv'
<1>1. ~In("goto") /\ stack # <<>> /\ Top.kind = "then" /\ style' = style
  BY DEF LeaveThen, In
<1>2. /\ code' \in Seq(Seq(Kind)) /\ Len(code') = Len(code)
      /\ Blocks' = Blocks /\ Frame' = Frame
      /\ terminated' \in [Blocks -> BOOLEAN] /\ terminated'[block]
      /\ \A b \in Blocks : terminated[b] => terminated'[b]
      /\ \A b \in Blocks : Len(code'[b]) \in Nat
      /\ Marked' /\ TermsLast'
  BY <1>1, BranchHelperTerminates DEF LeaveThen
<1>3. Top \in Frame /\ stack' \in Seq(Frame)
  BY <1>1, <1>2, Pops DEF LeaveThen, Inv
<1>4. Top.end \in Blocks /\ Pending(Top) = {Top.end}
  BY <1>1, <1>3, FrameBlocks DEF Pending
<1>5. /\ Nested'
      /\ \A b : IsPending(b) => IsPending(b)' \/ b = Top.end
      /\ style = "ends" => ~In("goto")'
      /\ ~In("both")'
  BY <1>1, <1>2, <1>4, PopNests DEF LeaveThen, Inv
<1>6. block' = Top.end /\ anchor' = Len(code'[block'])
  BY DEF LeaveThen, PositionAtEnd
<1>7. TypeOK'
  BY <1>1, <1>2, <1>3, <1>4, <1>6 DEF TypeOK, Inv, Kind, Blocks
<1>8. Positioned'
  BY <1>1, <1>5, <1>6 DEF Positioned
<1>9. Covered'
  BY <1>1, <1>2, <1>5, <1>6 DEF Covered, Inv
<1>. QED
  BY <1>2, <1>5, <1>7, <1>8, <1>9 DEF Inv

\* An arm of an if_else ends.
LEMMA LeaveArmKeeps ==
    ASSUME Inv, LeaveArm
    PROVE  Inv'
<1>1. /\ ~In("goto") /\ ~In("both") /\ stack # <<>> /\ Top.kind = "arm"
      /\ style' = style /\ block' = block
  BY DEF LeaveArm, In
<1>2. /\ code' \in Seq(Seq(Kind)) /\ Len(code') = Len(code)
      /\ Blocks' = Blocks /\ Frame' = Frame
      /\ terminated' \in [Blocks -> BOOLEAN] /\ terminated'[block]
      /\ \A b \in Blocks : terminated[b] => terminated'[b]
      /\ Len(code'[block]) =
            IF terminated[block] THEN Len(code[block]) ELSE Len(code[block]) + 1
      /\ Marked' /\ TermsLast'
  BY <1>1, BranchHelperTerminates DEF LeaveArm
<1>3. Top \in Frame /\ stack' \in Seq(Frame)
  BY <1>1, <1>2, Pops DEF LeaveArm, Inv
<1>4. Pending(Top) = {Top.end}
  BY <1>1 DEF Pending
<1>5. /\ Nested'
      /\ \A b : IsPending(b) => IsPending(b)'
      /\ style = "ends" => ~In("goto")'
  BY <1>1, <1>2, <1>4, PopNests DEF LeaveArm, Inv
<1>6. anchor' \in 0 .. Len(code'[block])
  <2>1. anchor' = IF terminated[block] THEN anchor ELSE anchor + 1
    BY DEF LeaveArm
  <2>2. anchor \in 0 .. Len(code[block]) /\ Len(code[block]) \in Nat
    BY AtAnchor DEF Inv
  <2>. QED
    BY <1>2, <2>1, <2>2
<1>7. TypeOK'
  BY <1>1, <1>2, <1>3, <1>6 DEF TypeOK, Inv, Kind, Blocks
<1>8. Positioned'
  BY <1>1, <1>2, <1>5 DEF Positioned
<1>9. Covered'
  BY <1>1, <1>2, <1>5 DEF Covered, Inv
<1>. QED
  BY <1>2, <1>5, <1>7, <1>8, <1>9 DEF Inv

\* if_else ends.
LEMMA LeaveBothKeeps ==
    ASSUME Inv, LeaveBoth
    PROVE  Inv'
<1>1. /\ Blocks' = Blocks /\ Frame' = Frame /\ Marked' /\ TermsLast'
      /\ block' \in Blocks /\ anchor' \in 0 .. Len(code[block'])
         /\ stack' \in Seq(Frame) => TypeOK'
  BY UnchangedBlocks DEF LeaveBoth
<1>2. /\ stack # <<>> /\ Top.kind = "both" /\ Top \in Frame
      /\ stack' \in Seq(Frame)
  BY <1>1, Pops DEF LeaveBoth, In, Inv
<1>3. /\ Top.end \in Blocks /\ Pending(Top) = {Top.end} \cup Top.arms
      /\ style = "ends" => Top.arms = {}
  BY <1>2, FrameBlocks DEF Pending, LeaveBoth
<1>4. /\ Nested'
      /\ style = "ends" => \A b : IsPending(b) => IsPending(b)' \/ b = Top.end
      /\ style = "ends" => ~In("goto")' /\ ~In("both")'
  BY <1>1, <1>2, <1>3, PopNests DEF LeaveBoth, Inv
<1>5. block' = Top.end /\ anchor' \in 0 .. Len(code[block']) /\ anchor' = Len(code[block'])
  BY <1>3, EndPosition DEF LeaveBoth, PositionAtEnd
<1>6. Positioned'
  BY <1>4, <1>5 DEF Positioned, LeaveBoth
<1>7. Covered'
  BY <1>1, <1>2, <1>4, <1>5 DEF Covered, LeaveBoth, Inv, In
<1>. QED
  BY <1>1, <1>2, <1>3, <1>4, <1>5, <1>6, <1>7 DEF Inv

\* The body of an if_then, an if_else or an arm raises.
LEMMA RaiseKeeps ==
    ASSUME Inv, Raise
    PROVE  Inv'
<1>1. /\ Blocks' = Blocks /\ Frame' = Frame /\ Marked' /\ TermsLast'
      /\ block' \in Blocks /\ anchor' \in 0 .. Len(code[block'])
         /\ stack' \in Seq(Frame) => TypeOK'
  BY UnchangedBlocks DEF Raise
<1>2. stack' \in Seq(Frame) /\ Nested'
  BY <1>1, Pops, PopNests DEF Raise, Inv
<1>3. block' \in Blocks /\ anchor' \in 0 .. Len(code[block'])
  BY DEF Raise, Inv, TypeOK
<1>4. style' # "ends"
  BY DEF Raise
<1>5. Positioned' /\ Covered'
  BY <1>4 DEF Positioned, Covered
<1>. QED
  BY <1>1, <1>2, <1>3, <1>5 DEF Inv

\* The flags of two new blocks, and of three.
LEMMA NewFlags ==
    /\ <<FALSE, FALSE>> = [i \in 1 .. 2 |-> FALSE]
    /\ <<FALSE, FALSE, FALSE>> = [i \in 1 .. 3 |-> FALSE]
<1>. DEFINE f(n) == [i \in 1 .. n |-> FALSE]
<1>1. ASSUME NEW n \in {2, 3}
      PROVE  /\ f(n) \in Seq(BOOLEAN) /\ Len(f(n)) = n
             /\ \A i \in 1 .. n : f(n)[i] = FALSE
  <2>1. n \in Nat /\ f(n) \in [1 .. n -> BOOLEAN]
    BY <1>1
  <2>2. f(n) \in Seq(BOOLEAN)
    BY <2>1, SeqDef
  <2>3. DOMAIN f(n) = 1 .. n /\ DOMAIN f(n) = 1 .. Len(f(n)) /\ Len(f(n)) \in Nat
    BY <2>2, LenProperties
  <2>4. Len(f(n)) = n
    <3>. DEFINE m == Len(f(n))
    <3>1. 1 .. m = 1 .. n /\ m \in Nat
      BY <2>3
    <3>. HIDE DEF m
    <3>2. m = n
      BY <1>1, <3>1
    <3>. QED
      BY <3>2 DEF m
  <2>. QED
    BY <1>1, <2>2, <2>4
<1>2. /\ <<FALSE, FALSE>> \in Seq(BOOLEAN) /\ Len(<<FALSE, FALSE>>) = 2
      /\ \A i \in 1 .. 2 : <<FALSE, FALSE>>[i] = FALSE
  OBVIOUS
<1>3. /\ <<FALSE, FALSE, FALSE>> \in Seq(BOOLEAN) /\ Len(<<FALSE, FALSE, FALSE>>) = 3
      /\ \A i \in 1 .. 3 : <<FALSE, FALSE, FALSE>>[i] = FALSE
  OBVIOUS
<1>. HIDE DEF f
<1>4. <<FALSE, FALSE>> = f(2)
  BY <1>1, <1>2, SeqEqual
<1>5. <<FALSE, FALSE, FALSE>> = f(3)
  BY <1>1, <1>3, SeqEqual
<1>. QED
  BY <1>4, <1>5 DEF f

\* A new block has no terminator.
LEMMA EmptyBlock == Terms(<<>>) = {} /\ Terminators(<<>>, FALSE) /\ Len(<<>>) = 0
<1>1. Terms(<<>>) = {}
  BY EmptySeq DEF Terms
<1>. QED
  BY <1>1, EmptySeq DEF Terminators

\* The branch of if_then and if_else, at the anchor, and the n blocks they append.
LEMMA BranchAppends ==
    ASSUME Inv, MayBranch, ~terminated[block], style' = style, NEW n \in Nat,
           code' = AppendBlocks([code EXCEPT ![block] = InsertAt(@, anchor + 1, "term")], n),
           terminated' = [terminated EXCEPT ![block] = TRUE] \o [i \in 1 .. n |-> FALSE]
    PROVE  /\ code' \in Seq(Seq(Kind)) /\ Len(code') = Len(code) + n
           /\ terminated' \in [Blocks' -> BOOLEAN]
           /\ Blocks \subseteq Blocks' /\ Frame \subseteq Frame'
           /\ Blocks' = Blocks \cup (Len(code) + 1 .. Len(code) + n)
           /\ \A b \in Blocks : terminated[b] => terminated'[b]
           /\ block \in Blocks /\ terminated'[block]
           /\ Len(code'[block]) = Len(code[block]) + 1
           /\ \A b \in Blocks' \ Blocks : code'[b] = <<>>
           /\ Marked' /\ TermsLast'
<1>. DEFINE c == code[block]
            d == InsertAt(c, anchor + 1, "term")
            cs == [code EXCEPT ![block] = d]
            ts == [terminated EXCEPT ![block] = TRUE]
<1>1. /\ block \in Blocks /\ c \in Seq(Kind) /\ Len(c) \in Nat
      /\ anchor \in 0 .. Len(c) /\ anchor + 1 \in 1 .. Len(c) + 1
      /\ d \in Seq(Kind) /\ Len(d) = Len(c) + 1
  BY AtAnchor DEF Inv, Kind
<1>2. terminated \in [Blocks -> BOOLEAN] /\ code \in Seq(Seq(Kind))
  BY DEF Inv, TypeOK, Kind
<1>3. Terminators(d, TRUE) /\ Terms(d) = {anchor + 1}
  <2>1. Terminators(c, FALSE)
    BY <1>1, <1>2 DEF Inv, Marked
  <2>. QED
    BY <1>1, <2>1, TermTerminates
<1>4. style = "ends" => anchor = Len(c)
  BY DEF Inv, Positioned, MayBranch
<1>5. /\ code' = AppendBlocks(cs, n)
      /\ terminated' = ts \o [i \in 1 .. n |-> FALSE]
  OBVIOUS
<1>. HIDE DEF d
<1>6. /\ cs \in Seq(Seq(Kind)) /\ Len(cs) = Len(code) /\ cs[block] = d
      /\ \A b \in Blocks : b # block => cs[b] = code[b]
  BY <1>1, <1>2, ExceptSeq DEF Blocks
<1>7. /\ ts \in [Blocks -> BOOLEAN] /\ ts[block] = TRUE
      /\ \A b \in Blocks : b # block => ts[b] = terminated[b]
  BY <1>1, <1>2
<1>. HIDE DEF cs, ts
<1>8. /\ code' \in Seq(Seq(Kind)) /\ Len(code') = Len(code) + n
      /\ terminated' \in [Blocks' -> BOOLEAN]
      /\ Blocks \subseteq Blocks' /\ Frame \subseteq Frame'
      /\ Blocks' = Blocks \cup (Len(code) + 1 .. Len(code) + n)
      /\ \A b \in Blocks : code'[b] = cs[b] /\ terminated'[b] = ts[b]
      /\ \A b \in Blocks' \ Blocks : code'[b] = <<>> /\ terminated'[b] = FALSE
  BY <1>5, <1>6, <1>7, BlocksAppended DEF Inv
<1>9. Marked'
  <2>1. ASSUME NEW b \in Blocks'
        PROVE  Terminators(code'[b], terminated'[b])
    <3>1. CASE b = block
      BY <1>1, <1>3, <1>6, <1>7, <1>8, <3>1
    <3>2. CASE b \in Blocks /\ b # block
      BY <1>6, <1>7, <1>8, <3>2 DEF Inv, Marked
    <3>3. CASE b \notin Blocks
      BY <1>8, <2>1, <3>3, EmptyBlock
    <3>. QED
      BY <3>1, <3>2, <3>3
  <2>. QED
    BY <2>1 DEF Marked
<1>10. TermsLast'
  <2>1. ASSUME style = "ends", NEW b \in Blocks', NEW i \in Terms(code'[b])
        PROVE  i = Len(code'[b])
    <3>1. CASE b = block
      BY <1>1, <1>3, <1>4, <1>6, <1>8, <2>1, <3>1
    <3>2. CASE b \in Blocks /\ b # block
      BY <1>6, <1>8, <2>1, <3>2 DEF Inv, TermsLast
    <3>3. CASE b \notin Blocks
      BY <1>8, <2>1, <3>3, EmptyBlock
    <3>. QED
      BY <3>1, <3>2, <3>3
  <2>. QED
    BY <2>1 DEF TermsLast
<1>11. Len(code'[block]) = Len(c) + 1 /\ terminated'[block]
  BY <1>1, <1>6, <1>7, <1>8
<1>12. \A b \in Blocks : terminated[b] => terminated'[b]
  BY <1>7, <1>8
<1>. QED
  BY <1>1, <1>8, <1>9, <1>10, <1>11, <1>12

\* if_then begins.
LEMMA EnterThenKeeps ==
    ASSUME Inv, EnterThen
    PROVE  Inv'
<1>. DEFINE bbif == Len(code) + 1
            bbend == Len(code) + 2
<1>1. <<FALSE, FALSE>> = [i \in 1 .. 2 |-> FALSE]
  BY NewFlags
<1>2. /\ code' = AppendBlocks([code EXCEPT ![block] = InsertAt(@, anchor + 1, "term")], 2)
      /\ terminated' = [terminated EXCEPT ![block] = TRUE] \o [i \in 1 .. 2 |-> FALSE]
      /\ MayBranch /\ ~terminated[block] /\ style' = style
  BY <1>1 DEF EnterThen
<1>3. /\ code' \in Seq(Seq(Kind)) /\ Len(code') = Len(code) + 2
      /\ terminated' \in [Blocks' -> BOOLEAN]
      /\ Blocks \subseteq Blocks' /\ Frame \subseteq Frame'
      /\ Blocks' = Blocks \cup (Len(code) + 1 .. Len(code) + 2)
      /\ \A b \in Blocks : terminated[b] => terminated'[b]
      /\ block \in Blocks /\ terminated'[block]
      /\ \A b \in Blocks' \ Blocks : code'[b] = <<>>
      /\ Marked' /\ TermsLast'
  BY <1>2, BranchAppends
<1>4. Len(code) \in Nat
  BY Lengths DEF Inv
<1>5. /\ bbif \in Blocks' \ Blocks /\ bbend \in Blocks'
      /\ \A b \in Blocks' : b \in Blocks \/ b = bbif \/ b = bbend
  <2>1. Blocks = 1 .. Len(code) /\ Blocks' = 1 .. Len(code) + 2
    BY <1>3 DEF Blocks
  <2>. QED
    BY <1>4, <2>1
<1>6. block' = bbif /\ anchor' = 0 /\ Len(code'[bbif]) = 0
  BY <1>3, <1>5, EmptyBlock DEF EnterThen, PositionAtEnd
<1>. HIDE DEF bbif, bbend
<1>7. Then(bbend) \in Frame' /\ Push(Then(bbend)) /\ Pending(Then(bbend)) = {bbend}
  BY <1>5 DEF EnterThen, Then, Frame, Pending, bbend
<1>8. /\ stack' \in Seq(Frame') /\ ~In("goto")' /\ ~In("both")'
  BY <1>3, <1>7, Pushes DEF Inv, Then
<1>9. /\ Nested'
      /\ \A b : IsPending(b) => IsPending(b)'
      /\ \A b \in {bbend} : IsPending(b)'
  BY <1>2, <1>3, <1>7, PushNests DEF EnterThen, MayEnter, MayBranch, Inv, Then
<1>10. TypeOK'
  <2>1. Len(code') >= 1
    BY <1>3, <1>4 DEF Inv, TypeOK
  <2>2. block' \in Blocks' /\ anchor' \in 0 .. Len(code'[block'])
    BY <1>5, <1>6
  <2>. QED
    BY <1>2, <1>3, <1>8, <2>1, <2>2 DEF TypeOK, Inv, Kind
<1>11. Positioned'
  BY <1>6, <1>8 DEF Positioned
<1>12. Covered'
  BY <1>2, <1>3, <1>5, <1>6, <1>8, <1>9 DEF Covered, Inv
<1>. QED
  BY <1>3, <1>9, <1>10, <1>11, <1>12 DEF Inv

\* if_else begins.
LEMMA EnterBothKeeps ==
    ASSUME Inv, EnterBoth
    PROVE  Inv'
<1>. DEFINE bbif == Len(code) + 1
            bbelse == Len(code) + 2
            bbend == Len(code) + 3
            frame == Both(bbend, {bbif, bbelse})
<1>1. <<FALSE, FALSE, FALSE>> = [i \in 1 .. 3 |-> FALSE]
  BY NewFlags
<1>2. /\ code' = AppendBlocks([code EXCEPT ![block] = InsertAt(@, anchor + 1, "term")], 3)
      /\ terminated' = [terminated EXCEPT ![block] = TRUE] \o [i \in 1 .. 3 |-> FALSE]
      /\ MayBranch /\ ~terminated[block] /\ style' = style /\ block' = block
  BY <1>1 DEF EnterBoth
<1>3. /\ code' \in Seq(Seq(Kind)) /\ Len(code') = Len(code) + 3
      /\ terminated' \in [Blocks' -> BOOLEAN]
      /\ Blocks \subseteq Blocks' /\ Frame \subseteq Frame'
      /\ Blocks' = Blocks \cup (Len(code) + 1 .. Len(code) + 3)
      /\ \A b \in Blocks : terminated[b] => terminated'[b]
      /\ block \in Blocks /\ terminated'[block]
      /\ Len(code'[block]) = Len(code[block]) + 1
      /\ Marked' /\ TermsLast'
  BY <1>2, BranchAppends
<1>4. Len(code) \in Nat
  BY Lengths DEF Inv
<1>5. /\ bbif \in Blocks' /\ bbelse \in Blocks' /\ bbend \in Blocks'
      /\ \A b \in Blocks' : b \in Blocks \/ b \in {bbif, bbelse, bbend}
  <2>1. Blocks = 1 .. Len(code) /\ Blocks' = 1 .. Len(code) + 3
    BY <1>3 DEF Blocks
  <2>. QED
    BY <1>4, <2>1
<1>6. anchor' = anchor + 1 /\ anchor' \in 0 .. Len(code'[block])
  BY <1>3, AtAnchor DEF EnterBoth, Inv
<1>. HIDE DEF bbif, bbelse, bbend
<1>7. frame \in Frame' /\ Pending(frame) = {bbif, bbelse, bbend}
  BY <1>5 DEF Both, Frame, Pending
<1>8. Push(frame)
  BY DEF EnterBoth, bbif, bbelse, bbend
<1>9. frame.kind = "both"
  BY DEF Both
<1>. HIDE DEF frame
<1>10. stack' \in Seq(Frame') /\ ~In("goto")'
  BY <1>3, <1>7, <1>8, <1>9, Pushes DEF Inv
<1>11. /\ Nested'
       /\ \A b : IsPending(b) => IsPending(b)'
       /\ \A b \in {bbif, bbelse, bbend} : IsPending(b)'
  BY <1>2, <1>3, <1>7, <1>8, <1>9, PushNests DEF MayBranch, Inv
<1>12. TypeOK'
  <2>1. Len(code') >= 1
    BY <1>3, <1>4 DEF Inv, TypeOK
  <2>2. block' \in Blocks' /\ anchor' \in 0 .. Len(code'[block'])
    BY <1>2, <1>3, <1>6
  <2>. QED
    BY <1>2, <1>3, <1>10, <2>1, <2>2 DEF TypeOK, Inv, Kind
<1>13. Positioned'
  BY <1>2, <1>3, <1>10 DEF Positioned
<1>14. Covered'
  BY <1>2, <1>3, <1>5, <1>11 DEF Covered, Inv
<1>. QED
  BY <1>3, <1>11, <1>12, <1>13, <1>14 DEF Inv

\* if_then or if_else in a block that has a terminator: only a caller that goes
\* anywhere does that.
LEMMA EnterFailsKeeps ==
    ASSUME Inv, NEW n \in {2, 3}, EnterFails(n)
    PROVE  Inv'
<1>1. /\ code' = AppendBlocks(code, n)
      /\ terminated' = terminated \o [i \in 1 .. n |-> FALSE]
      /\ code \in Seq(Seq(Kind)) /\ terminated \in [Blocks -> BOOLEAN]
      /\ UNCHANGED <<block, anchor, stack, style>>
  BY DEF EnterFails, Inv, TypeOK, Kind
<1>2. /\ code' \in Seq(Seq(Kind)) /\ Len(code') = Len(code) + n
      /\ terminated' \in [Blocks' -> BOOLEAN]
      /\ Blocks \subseteq Blocks' /\ Frame \subseteq Frame'
      /\ \A b \in Blocks : code'[b] = code[b] /\ terminated'[b] = terminated[b]
      /\ \A b \in Blocks' \ Blocks : code'[b] = <<>> /\ terminated'[b] = FALSE
  <2>1. n \in Nat
    OBVIOUS
  <2>2. terminated' = terminated \o [i \in 1 .. n |-> FALSE]
    BY <1>1
  <2>. QED
    BY <1>1, <2>1, <2>2, BlocksAppended DEF Inv
<1>3. style # "ends"
  BY DEF EnterFails, MayBranch
<1>4. stack' \in Seq(Frame')
  BY <1>1, <1>2, SeqMonotonic DEF Inv, TypeOK
<1>5. TypeOK'
  <2>1. Len(code) \in Nat /\ block \in Blocks
    BY Lengths DEF Inv, TypeOK
  <2>2. Len(code') >= 1
    BY <1>2, <2>1 DEF Inv, TypeOK
  <2>. QED
    BY <1>1, <1>2, <1>4, <2>1, <2>2 DEF TypeOK, Inv, Kind
<1>6. Marked'
  <2>1. ASSUME NEW b \in Blocks'
        PROVE  Terminators(code'[b], terminated'[b])
    <3>1. CASE b \in Blocks
      BY <1>2, <3>1 DEF Inv, Marked
    <3>2. CASE b \notin Blocks
      BY <1>2, <2>1, <3>2, EmptyBlock
    <3>. QED
      BY <3>1, <3>2
  <2>. QED
    BY <2>1 DEF Marked
<1>7. TermsLast' /\ Positioned' /\ Covered'
  BY <1>1, <1>3 DEF TermsLast, Positioned, Covered
<1>8. Nested'
  BY <1>1 DEF Inv, Nested
<1>. QED
  BY <1>5, <1>6, <1>7, <1>8 DEF Inv

\* The caller enters an arm of an if_else.
LEMMA EnterArmKeeps ==
    ASSUME Inv, NEW b \in Blocks, EnterArm(b)
    PROVE  Inv'
<1>. DEFINE n == Len(stack)
            g == [Top EXCEPT !.arms = @ \ {b}]
            s == [stack EXCEPT ![n] = g]
            arm == Arm(Top.end)
<1>1. /\ Blocks' = Blocks /\ Frame' = Frame /\ Marked' /\ TermsLast'
      /\ block' \in Blocks /\ anchor' \in 0 .. Len(code[block'])
         /\ stack' \in Seq(Frame) => TypeOK'
  BY UnchangedBlocks DEF EnterArm
<1>2. /\ stack \in Seq(Frame) /\ n \in Nat \ {0} /\ Top = stack[n]
      /\ Top.kind = "both" /\ b \in Top.arms /\ stack # <<>>
  BY EmptySeq DEF EnterArm, In, Inv, TypeOK, Top, Last
<1>3. Top \in Frame
  BY <1>2, ElementOfSeq
<1>4. Top \in [kind : {"both"}, end : Blocks, arms : SUBSET Blocks]
  BY <1>2, <1>3 DEF Frame
<1>5. /\ g \in Frame /\ g.kind = "both" /\ g.end = Top.end
      /\ Pending(Top) = {Top.end} \cup Top.arms
      /\ Pending(g) = {Top.end} \cup (Top.arms \ {b})
  <2>1. /\ g \in [kind : {"both"}, end : Blocks, arms : SUBSET Blocks]
        /\ g.kind = "both" /\ g.end = Top.end /\ g.arms = Top.arms \ {b}
    BY <1>4
  <2>. HIDE DEF g
  <2>. QED
    BY <1>2, <2>1 DEF Frame, Pending
<1>6. arm \in Frame /\ arm.kind = "arm" /\ arm.end = Top.end
  BY <1>4 DEF Arm, Frame
<1>7. stack' = Append(s, arm)
  BY <1>2, <1>4 DEF EnterArm
<1>. HIDE DEF g, arm
<1>8. /\ s \in Seq(Frame) /\ Len(s) = n
      /\ \A i \in 1 .. n : s[i] = IF i = n THEN g ELSE stack[i]
  BY <1>2, <1>5, ExceptSeq
<1>. HIDE DEF s, n
<1>9. /\ stack' \in Seq(Frame) /\ Len(stack') = n + 1 /\ stack'[n + 1] = arm
      /\ \A i \in 1 .. n : stack'[i] = IF i = n THEN g ELSE stack[i]
  BY <1>6, <1>7, <1>8, AppendProperties
<1>10. ~In("goto")' /\ ~In("both")'
  BY <1>6, <1>9 DEF In, Top, Last
<1>11. Nested'
  <2>1. stack'[1].kind # "arm"
    <3>1. CASE n = 1
      BY <1>2, <1>5, <1>9, <3>1
    <3>2. CASE n # 1
      <4>1. 1 \in 1 .. n /\ stack'[1] = stack[1]
        BY <1>2, <1>9, <3>2
      <4>. QED
        BY <1>2, <4>1 DEF Inv, Nested
    <3>. QED
      BY <3>1, <3>2
  <2>2. ASSUME NEW i \in 1 .. Len(stack') - 1
        PROVE  /\ stack'[i].kind = "both" <=> stack'[i + 1].kind = "arm"
               /\ stack'[i].kind = "both" => stack'[i + 1].end = stack'[i].end
               /\ style' = "ends" => stack'[i].kind # "goto"
    <3>. i \in 1 .. n
      BY <1>2, <1>9, <2>2
    <3>1. CASE i = n
      BY <1>2, <1>5, <1>6, <1>9, <3>1
    <3>2. CASE i # n
      <4>1. i \in 1 .. n - 1 /\ i + 1 \in 1 .. n
        BY <1>2, <3>2
      <4>2. /\ stack[i].kind = "both" <=> stack[i + 1].kind = "arm"
            /\ stack[i].kind = "both" => stack[i + 1].end = stack[i].end
            /\ style = "ends" => stack[i].kind # "goto"
        BY <4>1 DEF Inv, Nested, n
      <4>3. stack'[i] = stack[i] /\ style' = style
        BY <1>9, <3>2 DEF EnterArm
      <4>4. CASE i + 1 = n
        BY <1>2, <1>5, <1>9, <4>1, <4>2, <4>3, <4>4
      <4>5. CASE i + 1 # n
        BY <1>9, <4>1, <4>2, <4>3, <4>5
      <4>. QED
        BY <4>4, <4>5
    <3>. QED
      BY <3>1, <3>2
  <2>. QED
    BY <2>1, <2>2 DEF Nested
<1>12. ASSUME NEW c, IsPending(c), c # b
       PROVE  IsPending(c)'
  <2>1. PICK i \in 1 .. n : c \in Pending(stack[i])
    BY <1>12 DEF IsPending, n
  <2>2. c \in Pending(stack'[i])
    <3>1. CASE i = n
      BY <1>2, <1>5, <1>9, <1>12, <2>1, <3>1
    <3>2. CASE i # n
      BY <1>9, <2>1, <3>2
    <3>. QED
      BY <3>1, <3>2
  <2>3. i \in 1 .. Len(stack')
    BY <1>2, <1>9, <2>1
  <2>. QED
    BY <2>2, <2>3 DEF IsPending
<1>13. block' = b /\ anchor' \in 0 .. Len(code[block']) /\ anchor' = Len(code[block'])
  BY EndPosition DEF EnterArm, PositionAtEnd
<1>14. Positioned'
  BY <1>10, <1>13 DEF Positioned, EnterArm
<1>15. Covered'
  <2>. SUFFICES ASSUME style = "ends", NEW c \in Blocks, ~terminated[c], c # b
                PROVE  IsPending(c)'
    BY <1>1, <1>10, <1>13 DEF Covered, EnterArm
  <2>1. IsPending(c)
    BY <1>2 DEF Inv, Covered, EnterArm
  <2>. QED
    BY <1>12, <2>1
<1>. QED
  BY <1>1, <1>9, <1>11, <1>13, <1>14, <1>15 DEF Inv

-----------------------------------------------------------------------------
(* The invariant *)

\* A builder begins at the end of an empty block.
LEMMA InitInv == Init => Inv
<1>. SUFFICES ASSUME Init
              PROVE  Inv
  OBVIOUS
<1>1. /\ Len(code) = 1 /\ code[1] = <<>> /\ code \in Seq(Seq(Kind))
      /\ terminated[1] = FALSE /\ block = 1 /\ anchor = 0 /\ stack = <<>>
  BY EmptySeq DEF Init
<1>2. Blocks = {1}
  BY <1>1 DEF Blocks
<1>3. Len(stack) = 0 /\ ~In("goto") /\ ~In("both")
  BY <1>1, EmptySeq DEF In
<1>4. terminated \in [Blocks -> BOOLEAN]
  <2>1. DOMAIN <<FALSE>> = 1 .. 1 /\ <<FALSE>>[1] = FALSE
    OBVIOUS
  <2>2. <<FALSE>> \in Seq(BOOLEAN) /\ Len(<<FALSE>>) = 1
    OBVIOUS
  <2>3. <<FALSE>> \in [1 .. 1 -> BOOLEAN]
    BY <2>2, LenProperties
  <2>4. 1 .. 1 = {1}
    OBVIOUS
  <2>. QED
    BY <1>2, <2>3, <2>4 DEF Init
<1>5. TypeOK
  BY <1>1, <1>2, <1>4, EmptyBlock, EmptySeq DEF TypeOK, Init, Kind
<1>6. Marked /\ TermsLast /\ Positioned
  BY <1>1, <1>2, <1>3, EmptyBlock DEF Marked, TermsLast, Positioned
<1>7. Nested /\ Covered
  BY <1>1, <1>2, <1>3 DEF Nested, Covered
<1>. QED
  BY <1>5, <1>6, <1>7 DEF Inv

\* The invariant holds in every state, whatever the bounds.
THEOREM IRBuilderInvariant == Spec => []Inv
<1>1. Inv /\ [Next]_vars => Inv'
  <2>. SUFFICES ASSUME Inv, [Next]_vars
                PROVE  Inv'
    OBVIOUS
  <2>1. CASE InsertPlain
    BY <2>1, InsertPlainKeeps
  <2>2. CASE Terminate
    BY <2>2, TerminateKeeps
  <2>3. CASE Move
    BY <2>3, MoveKeeps
  <2>4. CASE \E i \in 1 .. Len(code[block]) : RemoveInstruction(i)
    BY <2>4, RemoveInstructionKeeps
  <2>5. CASE \E b \in Blocks : EnterGoto(b) \/ EnterArm(b)
    BY <2>5, EnterGotoKeeps, EnterArmKeeps
  <2>6. CASE LeaveGoto
    BY <2>6, LeaveGotoKeeps
  <2>7. CASE EnterThen
    BY <2>7, EnterThenKeeps
  <2>8. CASE EnterBoth
    BY <2>8, EnterBothKeeps
  <2>9. CASE LeaveThen
    BY <2>9, LeaveThenKeeps
  <2>10. CASE LeaveArm
    BY <2>10, LeaveArmKeeps
  <2>11. CASE LeaveBoth
    BY <2>11, LeaveBothKeeps
  <2>12. CASE \E n \in {2, 3} : EnterFails(n)
    BY <2>12, EnterFailsKeeps
  <2>13. CASE Raise
    BY <2>13, RaiseKeeps
  <2>14. CASE UNCHANGED vars
    <3>1. Blocks' = Blocks /\ Frame' = Frame
      BY <2>14 DEF vars, Blocks, Frame
    <3>2. TypeOK' /\ Marked' /\ TermsLast' /\ Nested'
      BY <2>14, <3>1 DEF vars, Inv, TypeOK, Marked, TermsLast, Nested
    <3>3. Positioned' /\ Covered'
      BY <2>14, <3>1 DEF vars, Inv, Positioned, Covered, IsPending, In, Top
    <3>. QED
      BY <3>2, <3>3 DEF Inv
  <2>. QED
    BY <2>1, <2>2, <2>3, <2>4, <2>5, <2>6, <2>7, <2>8, <2>9, <2>10, <2>11, <2>12,
       <2>13, <2>14 DEF Next
<1>. QED
  BY InitInv, <1>1, PTL DEF Spec

\* Block.terminator is an instruction of the block, and the only terminator in
\* it, whatever has been inserted, removed and raised.
THEOREM TerminatorsMarked == Spec => []OneTerminator
<1>1. Inv => OneTerminator
  <2>. SUFFICES ASSUME Inv, NEW b \in Blocks
                PROVE  Cardinality(Terms(code[b])) = IF terminated[b] THEN 1 ELSE 0
    BY DEF OneTerminator, Terms
  <2>1. Terminators(code[b], terminated[b]) /\ terminated[b] \in BOOLEAN
    BY DEF Inv, Marked, TypeOK
  <2>. QED
    BY <2>1, FS_Singleton, FS_EmptySet DEF Terminators
<1>. QED
  BY IRBuilderInvariant, <1>1, PTL

\* A caller that builds at the ends of blocks, and goes to other blocks by
\* goto_block, never inserts behind a terminator.
THEOREM TerminatorsEndBlocks == Spec => []TerminatorLast
<1>1. Inv => TerminatorLast
  BY DEF Inv, TermsLast, TerminatorLast, Terms
<1>. QED
  BY IRBuilderInvariant, <1>1, PTL

\* if_then, if_else and goto_block, nested in any way, leave no block open.
THEOREM NoBlockLeftOpen == Spec => []OpenBlocksArePending
<1>1. Inv => OpenBlocksArePending
  BY DEF Inv, Covered, OpenBlocksArePending, IsPending
<1>. QED
  BY IRBuilderInvariant, <1>1, PTL

=============================================================================
