---------------------------- MODULE SequenceFacts ----------------------------
(***************************************************************************)
(* Facts about sequences that the proofs of several modules rest on: what  *)
(* FlattenSeq of the community modules returns for sequences of any        *)
(* length, and sequences in a row whatever they are of.  Induction is      *)
(* stated over sets of numbers, from the pigeonhole principle for finite   *)
(* sets.                                                                   *)
(***************************************************************************)
EXTENDS SequencesExt, Integers, FiniteSetTheorems, SequenceTheorems, TLAPS

\* A set of naturals that is not empty has a smallest member.  Otherwise all
\* numbers up to one of its members that lie above some member could be moved
\* down by one without leaving that finite set, and would miss the number.
LEMMA SmallestMember ==
    ASSUME NEW T \in SUBSET Nat, T # {}
    PROVE  \E x \in T : \A y \in T : x <= y
<1> SUFFICES ASSUME \A x \in T : \E y \in T : y < x PROVE FALSE
  OBVIOUS
<1>1. PICK x \in T : TRUE
  OBVIOUS
<1> DEFINE V == {n \in 0 .. x : \E y \in T : y <= n}
           W == V \ {x}
           f == [n \in V |-> n - 1]
<1>2. V \in SUBSET (0 .. x) /\ x \in V
  OBVIOUS
<1>3. \A n \in V : n - 1 \in W
  OBVIOUS
<1>4. f \in [V -> W]
  BY <1>3
<1>5. \A n, m \in V : f[n] = f[m] => n = m
  OBVIOUS
<1> HIDE DEF V, f
<1>6. IsFiniteSet(V)
  <2>1. IsFiniteSet(0 .. x)
    BY FS_Interval
  <2>2. QED
    BY <1>2, <2>1, FS_Subset
<1>7. IsFiniteSet(W) /\ Cardinality(W) = Cardinality(V) - 1
  BY <1>2, <1>6, FS_RemoveElement
<1>8. Cardinality(W) < Cardinality(V)
  BY <1>6, <1>7, FS_CardinalityType
<1> HIDE DEF W
<1>9. \E n, m \in V : n # m /\ f[n] = f[m]
  BY <1>4, <1>6, <1>7, <1>8, FS_PigeonHole
<1>10. QED
  BY <1>5, <1>9

\* Induction: a set with 0 and all successors of its members has every number.
LEMMA Induction ==
    ASSUME NEW T, 0 \in T, \A n \in Nat : n \in T => n + 1 \in T
    PROVE  \A n \in Nat : n \in T
<1> SUFFICES ASSUME Nat \ T # {} PROVE FALSE
  OBVIOUS
<1>1. PICK x \in Nat \ T : \A y \in Nat \ T : x <= y
  BY SmallestMember
<1>2. x # 0 /\ x - 1 \in Nat /\ x - 1 \in T
  BY <1>1
<1>3. (x - 1) + 1 \in T
  BY <1>2
<1>4. QED
  BY <1>1, <1>3

-----------------------------------------------------------------------------
(***************************************************************************)
(* Sequences in a row, and parts of one, element by element.               *)
(***************************************************************************)
\* \o by a name of its own, which the provers treat as one term.
Joined(s, t) == s \o t

LEMMA JoinedIs ==
    ASSUME NEW S, NEW s \in Seq(S), NEW t \in Seq(S)
    PROVE  /\ Joined(s, t) \in Seq(S)
           /\ Len(Joined(s, t)) = Len(s) + Len(t)
           /\ \A k \in 1 .. Len(s) : Joined(s, t)[k] = s[k]
           /\ \A k \in 1 .. Len(t) : Joined(s, t)[Len(s) + k] = t[k]
<1>1. Len(s) \in Nat /\ Len(t) \in Nat
  OBVIOUS
<1>2. QED
  BY <1>1, ConcatProperties DEF Joined

LEMMA SubSeqIs ==
    ASSUME NEW S, NEW s \in Seq(S), NEW m \in Nat, NEW n \in Nat,
           1 <= m, m <= n + 1, n <= Len(s)
    PROVE  /\ SubSeq(s, m, n) \in Seq(S)
           /\ Len(SubSeq(s, m, n)) = n - m + 1
           /\ \A k \in 1 .. n - m + 1 : SubSeq(s, m, n)[k] = s[m - 1 + k]
<1>1. \A k \in m .. n : s[k] \in S
  OBVIOUS
<1>2. QED
  BY <1>1, SubSeqProperties

LEMMA JoinedEquals ==
    ASSUME NEW S, NEW x \in Seq(S), NEW z \in Seq(S), NEW y \in Seq(S),
           Len(y) = Len(x) + Len(z),
           \A k \in 1 .. Len(x) : y[k] = x[k],
           \A k \in 1 .. Len(z) : y[Len(x) + k] = z[k]
    PROVE  y = Joined(x, z)
<1>1. Len(x) \in Nat /\ Len(z) \in Nat
  BY LenProperties
<1>2. Joined(x, z) \in Seq(S) /\ Len(Joined(x, z)) = Len(y)
  BY JoinedIs
<1>3. \A k \in 1 .. Len(x) : Joined(x, z)[k] = x[k]
  BY JoinedIs
<1>4. \A k \in 1 .. Len(z) : Joined(x, z)[Len(x) + k] = z[k]
  BY JoinedIs
<1>5. ASSUME NEW k \in 1 .. Len(y) PROVE y[k] = Joined(x, z)[k]
  <2>1. CASE k <= Len(x)
    BY <1>1, <1>3, <2>1
  <2>2. CASE k > Len(x)
    <3>1. k - Len(x) \in 1 .. Len(z) /\ Len(x) + (k - Len(x)) = k
      BY <1>1, <2>2
    <3>2. QED
      BY <1>4, <3>1
  <2>3. QED
    BY <1>1, <2>1, <2>2
<1>6. QED
  BY <1>2, <1>5, SeqEqual

LEMMA FunctionIsSeq ==
    ASSUME NEW S, NEW n \in Nat, NEW f \in [1 .. n -> S]
    PROVE  f \in Seq(S) /\ Len(f) = n
  OBVIOUS

LEMMA MiddleIs ==
    ASSUME NEW S, NEW a \in Seq(S), NEW m \in Seq(S), NEW b \in Seq(S)
    PROVE  /\ Len(Joined(Joined(a, m), b)) = Len(a) + Len(m) + Len(b)
           /\ \A j \in 1 .. Len(m) : Joined(Joined(a, m), b)[Len(a) + j] = m[j]
<1> DEFINE x == Joined(a, m)
<1>1. /\ x \in Seq(S) /\ Len(x) = Len(a) + Len(m)
      /\ \A j \in 1 .. Len(m) : x[Len(a) + j] = m[j]
  BY JoinedIs
<1> HIDE DEF x
<1>2. /\ Len(Joined(x, b)) = Len(x) + Len(b)
      /\ \A j \in 1 .. Len(x) : Joined(x, b)[j] = x[j]
  <2>1. x \in Seq(S)
    BY <1>1
  <2>2. QED
    BY <2>1, JoinedIs
<1>3. Len(a) \in Nat /\ Len(m) \in Nat
  BY LenProperties
<1>4. QED
  BY <1>1, <1>2, <1>3 DEF x

LEMMA SplitAt ==
    ASSUME NEW S, NEW s \in Seq(S), NEW i \in 1 .. Len(s)
    PROVE  \E a, b \in Seq(S) :
              /\ s = Joined(Append(a, s[i]), b)
              /\ Len(a) = i - 1 /\ \A k \in 1 .. i - 1 : a[k] = s[k]
<1> DEFINE a == SubSeq(s, 1, i - 1)
           b == SubSeq(s, i + 1, Len(s))
           c == Append(a, s[i])
<1>0. Len(s) \in Nat /\ i \in Nat /\ i - 1 \in Nat /\ s[i] \in S
  BY LenProperties
<1>1. /\ a \in Seq(S) /\ Len(a) = i - 1
      /\ \A k \in 1 .. i - 1 : a[k] = s[k]
  BY <1>0, SubSeqIs
<1>2. /\ b \in Seq(S) /\ Len(b) = Len(s) - i
      /\ \A k \in 1 .. Len(s) - i : b[k] = s[i + k]
  BY <1>0, SubSeqIs
<1> HIDE DEF a, b
<1>3. /\ c \in Seq(S) /\ Len(c) = i
      /\ \A k \in 1 .. i : c[k] = s[k]
  BY <1>0, <1>1, AppendProperties
<1> HIDE DEF c
<1>4. /\ Len(s) = Len(c) + Len(b)
      /\ \A k \in 1 .. Len(c) : s[k] = c[k]
      /\ \A k \in 1 .. Len(b) : s[Len(c) + k] = b[k]
  BY <1>0, <1>2, <1>3
<1>5. s = Joined(c, b)
  BY <1>2, <1>3, <1>4, JoinedEquals
<1>6. QED
  BY <1>1, <1>2, <1>5 DEF c

-----------------------------------------------------------------------------
(***************************************************************************)
(* FlattenSeq: the function it is defined by exists.                       *)
(***************************************************************************)
FlattensUpto(f, seqs, n) ==
    f = [i \in 1 .. n |-> IF i = 1 THEN seqs[i] ELSE Joined(f[i - 1], seqs[i])]

IsFlattening(f, seqs) == FlattensUpto(f, seqs, Len(seqs))

LEMMA FlattensAt ==
    ASSUME NEW seqs, NEW f, NEW n, FlattensUpto(f, seqs, n), NEW i \in 1 .. n
    PROVE  f[i] = IF i = 1 THEN seqs[i] ELSE Joined(f[i - 1], seqs[i])
<1> DEFINE h == [j \in 1 .. n |-> IF j = 1 THEN seqs[j] ELSE Joined(f[j - 1], seqs[j])]
<1>1. h[i] = IF i = 1 THEN seqs[i] ELSE Joined(f[i - 1], seqs[i])
  OBVIOUS
<1>2. f = h
  BY DEF FlattensUpto
<1> HIDE DEF h
<1>3. QED
  BY <1>1, <1>2

LEMMA FlatteningAt ==
    ASSUME NEW seqs, NEW f, IsFlattening(f, seqs), NEW i \in 1 .. Len(seqs)
    PROVE  f[i] = IF i = 1 THEN seqs[i] ELSE Joined(f[i - 1], seqs[i])
  BY FlattensAt DEF IsFlattening

LEMMA FlatteningExists ==
    ASSUME NEW S, NEW seqs \in Seq(S)
    PROVE  \E f : IsFlattening(f, seqs)
<1> DEFINE T == {n \in Nat : \E f : FlattensUpto(f, seqs, n)}
<1>1. 0 \in T
  <2>1. FlattensUpto([i \in 1 .. 0 |-> seqs[i]], seqs, 0)
    BY DEF FlattensUpto
  <2>2. QED
    BY <2>1
<1>2. ASSUME NEW n \in Nat, n \in T PROVE n + 1 \in T
  <2>1. PICK f : FlattensUpto(f, seqs, n)
    BY <1>2
  <2> DEFINE g == [i \in 1 .. n + 1 |->
                     IF i = 1 THEN seqs[i]
                     ELSE IF i = n + 1 THEN Joined(f[n], seqs[i]) ELSE f[i]]
             h == [i \in 1 .. n + 1 |->
                     IF i = 1 THEN seqs[i] ELSE Joined(g[i - 1], seqs[i])]
  <2>2. ASSUME NEW i \in 1 .. n + 1 PROVE g[i] = h[i]
    <3>1. h[i] = IF i = 1 THEN seqs[i] ELSE Joined(g[i - 1], seqs[i])
      OBVIOUS
    <3>2. CASE i = 1
      BY <3>1, <3>2
    <3>3. CASE i # 1 /\ i = n + 1
      <4>1. g[i - 1] = f[i - 1]
        <5>1. f[1] = seqs[1]
          BY <2>1, <3>3, FlattensAt
        <5>2. QED
          BY <3>3, <5>1
      <4>2. QED
        BY <3>1, <3>3, <4>1
    <3>4. CASE i # 1 /\ i # n + 1
      <4>1. f[1] = seqs[1] /\ f[i] = Joined(f[i - 1], seqs[i])
        BY <2>1, <3>4, FlattensAt
      <4>2. g[i - 1] = f[i - 1] /\ g[i] = f[i]
        BY <3>4, <4>1
      <4>3. QED
        BY <3>1, <3>4, <4>1, <4>2
    <3>5. QED
      BY <3>2, <3>3, <3>4
  <2>3. g = h
    BY <2>2
  <2>4. FlattensUpto(g, seqs, n + 1)
    BY <2>3 DEF FlattensUpto
  <2> HIDE DEF g, h
  <2>5. QED
    BY <2>4
<1>3. Len(seqs) \in T
  <2> HIDE DEF T
  <2>1. \A n \in Nat : n \in T
    BY <1>1, <1>2, Induction
  <2>2. QED
    BY <2>1, LenProperties
<1>4. QED
  BY <1>3 DEF IsFlattening

LEMMA FlattenSeqIs ==
    ASSUME NEW S, NEW seqs \in Seq(S), seqs # <<>>
    PROVE  \E f : IsFlattening(f, seqs) /\ FlattenSeq(seqs) = f[Len(seqs)]
<1>1. Len(seqs) # 0
  BY EmptySeq
<1>2. \E f : IsFlattening(f, seqs)
  BY FlatteningExists
<1>3. QED
  BY <1>1, <1>2 DEF FlattenSeq, IsFlattening, FlattensUpto, Joined

LEMMA FlattenEmpty == FlattenSeq(<<>>) = <<>>
  BY DEF FlattenSeq

\* It is a sequence of the members of the sequences.
LEMMA FlattenType ==
    ASSUME NEW S, NEW seqs \in Seq(Seq(S))
    PROVE  FlattenSeq(seqs) \in Seq(S)
<1>1. CASE seqs = <<>>
  BY <1>1, FlattenEmpty, EmptySeq
<1>2. CASE seqs # <<>>
  <2>1. PICK f : IsFlattening(f, seqs) /\ FlattenSeq(seqs) = f[Len(seqs)]
    BY <1>2, FlattenSeqIs
  <2> DEFINE T == {n \in Nat : n \in 1 .. Len(seqs) => f[n] \in Seq(S)}
  <2>2. ASSUME NEW n \in Nat, n \in T PROVE n + 1 \in T
    <3>1. SUFFICES ASSUME n + 1 \in 1 .. Len(seqs) PROVE f[n + 1] \in Seq(S)
      OBVIOUS
    <3>2. seqs[n + 1] \in Seq(S)
      BY <3>1
    <3>3. f[n + 1] = IF n + 1 = 1 THEN seqs[n + 1] ELSE Joined(f[n], seqs[n + 1])
      BY <2>1, <3>1, FlatteningAt
    <3>4. QED
      BY <2>2, <3>1, <3>2, <3>3 DEF Joined
  <2>3. Len(seqs) \in T
    <3>1. 0 \in T
      OBVIOUS
    <3> HIDE DEF T
    <3>2. \A n \in Nat : n \in T
      BY <2>2, <3>1, Induction
    <3>3. QED
      BY <3>2, LenProperties
  <2>4. Len(seqs) \in 1 .. Len(seqs)
    BY <1>2, EmptySeq
  <2>5. QED
    BY <2>1, <2>3, <2>4
<1>3. QED
  BY <1>1, <1>2

\* It of one more sequence ends with that sequence.
LEMMA FlattenAppend ==
    ASSUME NEW S, NEW seqs \in Seq(Seq(S)), NEW s \in Seq(S)
    PROVE  FlattenSeq(Append(seqs, s)) = Joined(FlattenSeq(seqs), s)
<1> DEFINE more == Append(seqs, s)
<1>1. /\ more \in Seq(Seq(S)) /\ more # <<>> /\ Len(more) = Len(seqs) + 1
      /\ Len(seqs) \in Nat
      /\ \A i \in 1 .. Len(seqs) : more[i] = seqs[i]
      /\ more[Len(seqs) + 1] = s
  BY AppendProperties, LenProperties
<1> HIDE DEF more
<1>2. PICK g : IsFlattening(g, more) /\ FlattenSeq(more) = g[Len(more)]
  BY <1>1, FlattenSeqIs
<1>3. CASE seqs = <<>>
  <2>1. Len(more) = 1 /\ more[1] = s
    BY <1>1, <1>3
  <2>2. FlattenSeq(more) = s
    BY <1>2, <2>1, FlatteningAt
  <2>3. Joined(FlattenSeq(seqs), s) = s
    BY <1>3, FlattenEmpty, ConcatEmptySeq DEF Joined
  <2>4. QED
    BY <2>2, <2>3 DEF more
<1>4. CASE seqs # <<>>
  <2>1. PICK f : IsFlattening(f, seqs) /\ FlattenSeq(seqs) = f[Len(seqs)]
    BY <1>4, FlattenSeqIs
  <2> DEFINE T == {n \in Nat : n \in 1 .. Len(seqs) => f[n] = g[n]}
  <2>2. ASSUME NEW n \in Nat, n \in T PROVE n + 1 \in T
    <3>1. SUFFICES ASSUME n + 1 \in 1 .. Len(seqs) PROVE f[n + 1] = g[n + 1]
      OBVIOUS
    <3>2. f[n + 1] = IF n + 1 = 1 THEN seqs[n + 1] ELSE Joined(f[n], seqs[n + 1])
      BY <2>1, <3>1, FlatteningAt
    <3>3. g[n + 1] = IF n + 1 = 1 THEN more[n + 1] ELSE Joined(g[n], more[n + 1])
      BY <1>1, <1>2, <3>1, FlatteningAt
    <3>4. QED
      BY <1>1, <2>2, <3>1, <3>2, <3>3
  <2>3. f[Len(seqs)] = g[Len(seqs)]
    <3>1. 0 \in T
      OBVIOUS
    <3> HIDE DEF T
    <3>2. \A n \in Nat : n \in T
      BY <2>2, <3>1, Induction
    <3>3. QED
      BY <1>1, <1>4, <3>2, EmptySeq DEF T
  <2>4. g[Len(seqs) + 1] = Joined(g[Len(seqs)], s)
    <3>1. Len(seqs) # 0
      BY <1>4, EmptySeq
    <3>2. Len(seqs) + 1 \in 1 .. Len(more) /\ Len(seqs) + 1 # 1
      BY <1>1, <3>1
    <3>3. g[Len(seqs) + 1] = Joined(g[Len(seqs)], more[Len(seqs) + 1])
      BY <1>2, <3>2, FlatteningAt
    <3>4. QED
      BY <1>1, <3>3
  <2>5. FlattenSeq(more) = Joined(FlattenSeq(seqs), s)
    BY <1>1, <1>2, <2>1, <2>3, <2>4
  <2>6. QED
    BY <2>5 DEF more
<1>5. QED
  BY <1>3, <1>4

\* It of two sequences of sequences in a row.
LEMMA FlattenConcat ==
    ASSUME NEW S, NEW s \in Seq(Seq(S)), NEW t \in Seq(Seq(S))
    PROVE  FlattenSeq(Joined(s, t)) = Joined(FlattenSeq(s), FlattenSeq(t))
<1> USE DEF Joined
<1> DEFINE T == {n \in Nat : \A u \in Seq(Seq(S)) :
                    Len(u) = n => FlattenSeq(s \o u) = FlattenSeq(s) \o FlattenSeq(u)}
<1>1. 0 \in T
  <2>1. ASSUME NEW u \in Seq(Seq(S)), Len(u) = 0
        PROVE  FlattenSeq(s \o u) = FlattenSeq(s) \o FlattenSeq(u)
    <3>1. u = <<>>
      BY <2>1, EmptySeq
    <3>2. s \o u = s /\ FlattenSeq(u) = <<>>
      BY <3>1, ConcatEmptySeq, FlattenEmpty
    <3>3. FlattenSeq(s) \in Seq(S)
      BY FlattenType
    <3>4. QED
      BY <3>2, <3>3, ConcatEmptySeq
  <2>2. QED
    BY <2>1
<1>2. ASSUME NEW n \in Nat, n \in T PROVE n + 1 \in T
  <2>1. ASSUME NEW u \in Seq(Seq(S)), Len(u) = n + 1
        PROVE  FlattenSeq(s \o u) = FlattenSeq(s) \o FlattenSeq(u)
    <3>1. u # <<>>
      BY <2>1, EmptySeq
    <3>2. PICK v \in Seq(Seq(S)), x \in Seq(S) : u = Append(v, x)
      BY <3>1, SequenceEmptyOrAppend
    <3>3. Len(v) = n /\ s \o v \in Seq(Seq(S)) /\ s \o u = Append(s \o v, x)
      BY <2>1, <3>2
    <3>4. FlattenSeq(s \o v) = FlattenSeq(s) \o FlattenSeq(v)
      BY <1>2, <3>3
    <3>5. /\ FlattenSeq(s \o u) = FlattenSeq(s \o v) \o x
          /\ FlattenSeq(u) = FlattenSeq(v) \o x
      BY <3>2, <3>3, FlattenAppend
    <3>6. FlattenSeq(s) \in Seq(S) /\ FlattenSeq(v) \in Seq(S)
      BY FlattenType
    <3>7. QED
      BY <3>4, <3>5, <3>6, ConcatAssociative
  <2>2. QED
    BY <2>1
<1>3. Len(t) \in T
  <2> HIDE DEF T
  <2>1. \A n \in Nat : n \in T
    BY <1>1, <1>2, Induction
  <2>2. QED
    BY <2>1, LenProperties
<1>4. QED
  BY <1>3

\* It of sequences of one length.
LEMMA FlattenLength ==
    ASSUME NEW S, NEW seqs \in Seq(Seq(S)), NEW size \in Nat,
           \A i \in 1 .. Len(seqs) : Len(seqs[i]) = size
    PROVE  Len(FlattenSeq(seqs)) = Len(seqs) * size
<1> DEFINE T == {n \in Nat : \A u \in Seq(Seq(S)) :
                    Len(u) = n /\ (\A i \in 1 .. n : Len(u[i]) = size) =>
                        Len(FlattenSeq(u)) = n * size}
<1>1. 0 \in T
  <2>1. \A u \in Seq(Seq(S)) : Len(u) = 0 => Len(FlattenSeq(u)) = 0
    BY EmptySeq, FlattenEmpty
  <2>2. QED
    BY <2>1
<1>2. ASSUME NEW n \in Nat, n \in T PROVE n + 1 \in T
  <2>1. ASSUME NEW u \in Seq(Seq(S)), Len(u) = n + 1,
               \A i \in 1 .. n + 1 : Len(u[i]) = size
        PROVE  Len(FlattenSeq(u)) = (n + 1) * size
    <3>1. u # <<>>
      BY <2>1, EmptySeq
    <3>2. PICK v \in Seq(Seq(S)), x \in Seq(S) : u = Append(v, x)
      BY <3>1, SequenceEmptyOrAppend
    <3>3. Len(v) = n /\ u[n + 1] = x /\ \A i \in 1 .. n : u[i] = v[i]
      BY <2>1, <3>2
    <3>4. Len(x) = size /\ \A i \in 1 .. n : Len(v[i]) = size
      BY <2>1, <3>3
    <3>5. Len(FlattenSeq(v)) = n * size
      BY <1>2, <3>3, <3>4
    <3>6. FlattenSeq(u) = Joined(FlattenSeq(v), x) /\ FlattenSeq(v) \in Seq(S)
      BY <3>2, FlattenAppend, FlattenType
    <3>7. Len(FlattenSeq(u)) = Len(FlattenSeq(v)) + Len(x)
      BY <3>2, <3>6, JoinedIs
    <3>8. (n + 1) * size = n * size + size
      OBVIOUS
    <3>9. QED
      BY <3>4, <3>5, <3>7, <3>8
  <2>2. QED
    BY <2>1
<1>3. Len(seqs) \in T
  <2> HIDE DEF T
  <2>1. \A n \in Nat : n \in T
    BY <1>1, <1>2, Induction
  <2>2. QED
    BY <2>1, LenProperties
<1>4. QED
  BY <1>3

\* A sequence is found in it where the ones before it, of one length, end.
LEMMA FlattenPiece ==
    ASSUME NEW S, NEW seqs \in Seq(Seq(S)), NEW size \in Nat,
           NEW i \in 1 .. Len(seqs),
           \A k \in 1 .. i - 1 : Len(seqs[k]) = size
    PROVE  /\ (i - 1) * size + Len(seqs[i]) <= Len(FlattenSeq(seqs))
           /\ \A j \in 1 .. Len(seqs[i]) :
                 FlattenSeq(seqs)[(i - 1) * size + j] = seqs[i][j]
<1>1. PICK a \in Seq(Seq(S)), b \in Seq(Seq(S)) :
         /\ seqs = Joined(Append(a, seqs[i]), b)
         /\ Len(a) = i - 1 /\ \A k \in 1 .. i - 1 : a[k] = seqs[k]
  BY SplitAt
<1>2. seqs[i] \in Seq(S) /\ Append(a, seqs[i]) \in Seq(Seq(S))
  BY LenProperties, AppendProperties
<1>3. FlattenSeq(seqs) = Joined(Joined(FlattenSeq(a), seqs[i]), FlattenSeq(b))
  <2>1. FlattenSeq(Append(a, seqs[i])) = Joined(FlattenSeq(a), seqs[i])
    BY <1>2, FlattenAppend
  <2>2. FlattenSeq(seqs) = Joined(FlattenSeq(Append(a, seqs[i])), FlattenSeq(b))
    BY <1>1, <1>2, FlattenConcat
  <2>3. QED
    BY <2>1, <2>2
<1>4. /\ FlattenSeq(a) \in Seq(S) /\ FlattenSeq(b) \in Seq(S)
      /\ Len(FlattenSeq(a)) = (i - 1) * size
  <2>1. \A k \in 1 .. Len(a) : Len(a[k]) = size
    BY <1>1
  <2>2. QED
    BY <1>1, <2>1, FlattenType, FlattenLength
<1>5. /\ Len(FlattenSeq(seqs)) = Len(FlattenSeq(a)) + Len(seqs[i]) + Len(FlattenSeq(b))
      /\ \A j \in 1 .. Len(seqs[i]) :
            FlattenSeq(seqs)[Len(FlattenSeq(a)) + j] = seqs[i][j]
  <2> DEFINE x == FlattenSeq(a)
             y == FlattenSeq(b)
             z == seqs[i]
  <2>1. x \in Seq(S) /\ y \in Seq(S) /\ z \in Seq(S)
    BY <1>2, <1>4
  <2> HIDE DEF x, y, z
  <2>2. /\ Len(Joined(Joined(x, z), y)) = Len(x) + Len(z) + Len(y)
        /\ \A j \in 1 .. Len(z) : Joined(Joined(x, z), y)[Len(x) + j] = z[j]
    BY <2>1, MiddleIs
  <2>3. QED
    BY <1>3, <2>2 DEF x, y, z
<1>6. Len(seqs[i]) \in Nat /\ Len(FlattenSeq(b)) \in Nat /\ Len(FlattenSeq(a)) \in Nat
  BY <1>2, <1>4, LenProperties
<1>7. Len(FlattenSeq(seqs)) >= Len(FlattenSeq(a)) + Len(seqs[i])
  BY <1>5, <1>6
<1>8. QED
  BY <1>4, <1>5, <1>6, <1>7

-----------------------------------------------------------------------------
(***************************************************************************)
(* Sequences in a row, whatever they are of.                               *)
(***************************************************************************)
IsSeq(s) == \E U : s \in Seq(U)

\* A sequence of anything: its length, its domain, and whose sequence it also is.
LEMMA SeqIs ==
    ASSUME NEW s, IsSeq(s)
    PROVE  /\ Len(s) \in Nat /\ DOMAIN s = 1 .. Len(s)
           /\ (s = <<>> <=> Len(s) = 0)
           /\ \A U : (\A i \in 1 .. Len(s) : s[i] \in U) => s \in Seq(U)
<1>1. PICK V : s \in Seq(V)
  BY DEF IsSeq
<1>2. Len(s) \in Nat /\ DOMAIN s = 1 .. Len(s) /\ (s = <<>> <=> Len(s) = 0)
  BY <1>1, LenProperties, EmptySeq
<1>3. s = [i \in 1 .. Len(s) |-> s[i]]
  BY <1>1
<1>4. ASSUME NEW U, \A i \in 1 .. Len(s) : s[i] \in U PROVE s \in Seq(U)
  <2>1. s \in [1 .. Len(s) -> U]
    BY <1>3, <1>4
  <2>2. QED
    BY <1>2, <2>1, FunctionIsSeq
<1>5. QED
  BY <1>2, <1>4

\* Two sequences are of one set.
LEMMA SameSeq ==
    ASSUME NEW s, IsSeq(s), NEW t, IsSeq(t)
    PROVE  \E U : s \in Seq(U) /\ t \in Seq(U)
<1>1. PICK V : s \in Seq(V)
  BY DEF IsSeq
<1>2. PICK W : t \in Seq(W)
  BY DEF IsSeq
<1>3. s \in Seq(V \cup W) /\ t \in Seq(V \cup W)
  BY <1>1, <1>2
<1>4. QED
  BY <1>3

IsJoin(j, s, t) ==
    /\ IsSeq(j) /\ Len(j) = Len(s) + Len(t)
    /\ \A k \in 1 .. Len(s) : j[k] = s[k]
    /\ \A k \in 1 .. Len(t) : j[Len(s) + k] = t[k]

\* Joining gives the elements of the one, then those of the other.
LEMMA JoinedSeq ==
    ASSUME NEW s, IsSeq(s), NEW t, IsSeq(t)
    PROVE  IsJoin(Joined(s, t), s, t)
<1>1. PICK U : s \in Seq(U) /\ t \in Seq(U)
  BY SameSeq
<1>2. s \in Seq(U) /\ t \in Seq(U)
  BY <1>1
<1>3. Joined(s, t) \in Seq(U)
  BY <1>2, JoinedIs
<1>4. Len(Joined(s, t)) = Len(s) + Len(t)
  BY <1>2, JoinedIs
<1>5. \A k \in 1 .. Len(s) : Joined(s, t)[k] = s[k]
  BY <1>2, JoinedIs
<1>6. \A k \in 1 .. Len(t) : Joined(s, t)[Len(s) + k] = t[k]
  BY <1>2, JoinedIs
<1>7. IsSeq(Joined(s, t))
  BY <1>3 DEF IsSeq
<1>8. QED
  BY <1>4, <1>5, <1>6, <1>7 DEF IsJoin

\* Sequences with the same elements are the same.
LEMMA EqualSeqs ==
    ASSUME NEW s, IsSeq(s), NEW t, IsSeq(t), Len(s) = Len(t),
           \A k \in 1 .. Len(s) : s[k] = t[k]
    PROVE  s = t
<1>1. PICK U : s \in Seq(U) /\ t \in Seq(U)
  BY SameSeq
<1>2. QED
  BY <1>1, SeqEqual

\* The sequence of nothing, and that of one element.
LEMMA EmptySeqIs == IsSeq(<<>>) /\ Len(<<>>) = 0
<1>1. <<>> \in Seq({}) /\ Len(<<>>) = 0
  OBVIOUS
<1>2. QED
  BY <1>1 DEF IsSeq

LEMMA SingleSeqIs ==
    ASSUME NEW x
    PROVE  IsSeq(<<x>>) /\ Len(<<x>>) = 1 /\ <<x>>[1] = x
<1>1. <<x>> \in Seq({x}) /\ Len(<<x>>) = 1 /\ <<x>>[1] = x
  OBVIOUS
<1>2. QED
  BY <1>1 DEF IsSeq

\* Nothing joined to a sequence leaves it, and joins may be regrouped.
LEMMA JoinedEmpty ==
    ASSUME NEW s, IsSeq(s)
    PROVE  Joined(<<>>, s) = s /\ Joined(s, <<>>) = s
<1>1. PICK U : s \in Seq(U)
  BY DEF IsSeq
<1>2. QED
  BY <1>1 DEF Joined

LEMMA JoinedAgain ==
    ASSUME NEW a, IsSeq(a), NEW b, IsSeq(b), NEW c, IsSeq(c)
    PROVE  Joined(Joined(a, b), c) = Joined(a, Joined(b, c))
<1>1. PICK U : a \in Seq(U) /\ b \in Seq(U)
  BY SameSeq
<1>2. PICK V : c \in Seq(V)
  BY DEF IsSeq
<1> DEFINE W == U \cup V
<1>3. a \in Seq(W) /\ b \in Seq(W) /\ c \in Seq(W)
  BY <1>1, <1>2
<1> HIDE DEF W
<1>4. (a \o b) \o c = a \o (b \o c)
  BY <1>3
<1>5. QED
  BY <1>4 DEF Joined

\* A sequence by its first element.
IsFirst(a, x, s) ==
    /\ IsSeq(a) /\ a # <<>> /\ a[1] = x /\ Tail(a) = s
    /\ Len(a) = Len(s) + 1 /\ \A i \in 1 .. Len(s) : a[i + 1] = s[i]

\* An element before a sequence is the first, and the sequence what comes after it.
LEMMA BeginsWith ==
    ASSUME NEW x, NEW s, IsSeq(s)
    PROVE  IsFirst(Joined(<<x>>, s), x, s)
<1> DEFINE a == Joined(<<x>>, s)
           e == <<x>>
<1>1. Len(s) \in Nat
  BY SeqIs
<1>2. IsSeq(e) /\ Len(e) = 1 /\ e[1] = x
  BY SingleSeqIs
<1> HIDE DEF e
<1>3. IsJoin(Joined(e, s), e, s)
  BY <1>2, JoinedSeq
<1>4. a = Joined(e, s)
  BY DEF e
<1> HIDE DEF a
<1>5. /\ IsSeq(a) /\ Len(a) = 1 + Len(s)
      /\ \A k \in 1 .. 1 : a[k] = e[k]
      /\ \A k \in 1 .. Len(s) : a[1 + k] = s[k]
  BY <1>2, <1>3, <1>4 DEF IsJoin
<1>6. Len(a) = Len(s) + 1 /\ \A i \in 1 .. Len(s) : a[i + 1] = s[i]
  BY <1>1, <1>5
<1>7. a[1] = x /\ a # <<>>
  BY <1>1, <1>2, <1>5, <1>6, SeqIs
<1>8. Tail(a) = s
  <2>1. PICK U : a \in Seq(U)
    BY <1>5 DEF IsSeq
  <2>2. /\ Tail(a) \in Seq(U) /\ Len(Tail(a)) = Len(s)
        /\ \A i \in 1 .. Len(s) : Tail(a)[i] = a[i + 1]
    BY <1>1, <1>6, <2>1
  <2>3. IsSeq(Tail(a)) /\ \A i \in 1 .. Len(Tail(a)) : Tail(a)[i] = s[i]
    BY <1>6, <2>2 DEF IsSeq
  <2>4. QED
    BY <2>2, <2>3, EqualSeqs
<1>9. QED
  BY <1>5, <1>6, <1>7, <1>8 DEF a, IsFirst

\* A sequence that is not empty is its first element and the others.
LEMMA FirstOf ==
    ASSUME NEW s, IsSeq(s), s # <<>>
    PROVE  IsSeq(Tail(s)) /\ Len(Tail(s)) = Len(s) - 1 /\ IsFirst(s, s[1], Tail(s))
           /\ s = Joined(<<s[1]>>, Tail(s))
<1> DEFINE t == Tail(s)
           x == s[1]
           a == Joined(<<x>>, t)
<1>1. Len(s) \in Nat /\ Len(s) # 0
  BY SeqIs
<1>2. PICK U : s \in Seq(U)
  BY DEF IsSeq
<1>3. /\ t \in Seq(U) /\ Len(t) = Len(s) - 1
      /\ \A i \in 1 .. Len(s) - 1 : t[i] = s[i + 1]
  BY <1>1, <1>2
<1>4. IsSeq(t)
  BY <1>3 DEF IsSeq
<1> HIDE DEF t
<1>5. IsFirst(a, x, t)
  BY <1>4, BeginsWith
<1> HIDE DEF a
<1>6. /\ IsSeq(a) /\ a[1] = x
      /\ Len(a) = Len(t) + 1 /\ \A i \in 1 .. Len(t) : a[i + 1] = t[i]
  BY <1>5 DEF IsFirst
<1>7. Len(s) = Len(a)
  BY <1>1, <1>3, <1>6
<1>8. ASSUME NEW k \in 1 .. Len(s) PROVE s[k] = a[k]
  <2>1. CASE k = 1
    BY <1>6, <2>1
  <2>2. CASE k # 1
    <3>1. k - 1 \in 1 .. Len(s) - 1 /\ (k - 1) + 1 = k /\ k - 1 \in 1 .. Len(t)
      BY <1>1, <1>3, <2>2
    <3>2. a[(k - 1) + 1] = t[k - 1] /\ t[k - 1] = s[(k - 1) + 1]
      BY <1>3, <1>6, <3>1
    <3>3. QED
      BY <3>1, <3>2
  <2>3. QED
    BY <2>1, <2>2
<1>9. s = a
  BY <1>6, <1>7, <1>8, EqualSeqs
<1>10. IsFirst(s, x, t)
  BY <1>5, <1>9
<1>11. QED
  BY <1>3, <1>4, <1>9, <1>10 DEF a, t

================================================================================
