----------------------------- MODULE ThriftProofs -----------------------------
(***************************************************************************)
(* What a pass of ThriftReader returns and reserves, for every schema, any *)
(* bytes, and limits and values of any size; and that it reads what        *)
(* ThriftWriter writes as the value it is.                                 *)
(***************************************************************************)
EXTENDS ThriftWriter, SequenceFacts

-----------------------------------------------------------------------------
(***************************************************************************)
(* The invariant.  A set of values, each with its type, is closed when     *)
(* each is sound and what it holds is of the set or of one piece.  What    *)
(* the functions under way have got is of a closed set.                    *)
(***************************************************************************)
AllIn(parts, S) == \A q \in parts : q \in S \/ q[1].kind = "scalar"

Closed(S) == \A p \in S : Sound(p[1], p[2]) /\ AllIn(Parts(p[1], p[2]), S)

IsFrame(f) ==
    f = [type |-> f.type, field |-> f.field, left |-> f.left, key |-> f.key,
         got |-> f.got, all |-> f.all, known |-> f.known]

\* A type that is skipped over.
Skippable(t) ==
    \E k, w : t \in {SkipType(w), ListOf(SkipType(w)), MapOf(SkipType(k), SkipType(w))}

FieldsFit(f) ==
    HasFields(f.type) =>
      /\ f.known \in Nat
      /\ DOMAIN f.got \subseteq NamesOf(FieldsOf(f.type))
      /\ f.type.kind = "union" =>
            IF f.known = 0 THEN DOMAIN f.got = {}
            ELSE \E g \in FieldsOf(f.type) : DOMAIN f.got = {g.name}

ListFits(f) ==
    f.type.kind = "list" =>
      /\ f.left \in Nat /\ IsSeq(f.got)
      /\ f.left + Len(f.got) <= MaxCollectionSize

MapFits(f) ==
    f.type.kind = "map" =>
      /\ f.left \in Nat /\ IsFiniteSet(DOMAIN f.got)
      /\ f.left + Cardinality(DOMAIN f.got) <= MaxCollectionSize

TypeFits(t) == t \in Types \/ Skippable(t)

FrameFits(f, S) ==
    /\ IsFrame(f)
    /\ TypeFits(f.type) /\ f.type.kind # "scalar"
    /\ FieldsFit(f) /\ ListFits(f) /\ MapFits(f)
    /\ AllIn(Parts(f.type, f.got), S)

\* A function reads the value that the one that called it wants, or skips one.
Carries(t, wanted) ==
    \/ t = wanted
    \/ wanted = SkipType("list") /\ \E w : t = ListOf(SkipType(w))
    \/ wanted = SkipType("map") /\ \E k, w : t = MapOf(SkipType(k), SkipType(w))

CalledBy(f, caller) == Wants(caller) /\ Carries(f.type, WantedBy(caller))

StackFits(frames, S, root) ==
    /\ IsSeq(frames)
    /\ \A i \in DOMAIN frames : FrameFits(frames[i], S)
    /\ \A i \in DOMAIN frames : i > 1 => CalledBy(frames[i], frames[i - 1])
    /\ frames # <<>> => frames[1].type = root

EndFits(S) ==
    \/ end = Reading /\ stack # <<>>
    \/ end = Failed
    \/ \E v : end = Returned(v) /\ <<Pass(pass).type, v>> \in S

IInv ==
    /\ pass \in Passes
    /\ total \in Nat /\ Reserved(stack) <= total /\ total <= MaxTotalElements
    /\ \E S : Closed(S) /\ StackFits(stack, S, Pass(pass).type) /\ EndFits(S)

-----------------------------------------------------------------------------
(***************************************************************************)
(* Types: of the schema, or skipped over.                                  *)
(***************************************************************************)
LEMMA SkipTypeIs ==
    ASSUME NEW w
    PROVE  LET t == SkipType(w)
           IN  /\ t.kind \in {"scalar", "list", "map", "struct"}
               /\ t.kind = "list" => t.of = Anything
               /\ t.kind = "map" => t.key = Anything /\ t.of = Anything
               /\ t.kind = "struct" => t.fields = <<>>
  BY DEF SkipType, Struct, ListOf, MapOf, Scalar, Anything

\* What is skipped in a container has a type of one piece.
LEMMA AnythingIs == Anything.kind = "scalar" /\ Anything = SkipType("anything")
  BY DEF Anything, Scalar, SkipType

\* The kinds of the types a function may be about, and what each is of.
LEMMA TypeIs ==
    ASSUME NEW t, TypeFits(t)
    PROVE  /\ t.kind \in {"scalar", "list", "map", "struct", "union"}
           /\ t.kind = "list" => TypeFits(t.of)
           /\ t.kind = "map" =>
                 /\ TypeFits(t.key) /\ t.key.kind # "union"
                 /\ TypeFits(t.of) /\ t.of.kind # "union"
           /\ HasFields(t) =>
                 /\ \A f \in FieldsOf(t) : TypeFits(f.type)
                 /\ \A f, g \in FieldsOf(t) : f.name = g.name => f = g
<1>1. CASE t \in Types
  <2>1. /\ t.kind \in {"scalar", "list", "map", "struct", "union"}
        /\ t.kind = "list" => t.of \in Types
        /\ t.kind = "map" =>
              /\ t.key \in Types /\ t.key.kind = "scalar"
              /\ t.of \in Types /\ t.of.kind # "union"
        /\ HasFields(t) => \A f \in FieldsOf(t) : f.type \in Types
    BY <1>1, TypesAssumption DEF IsSchema
  <2>2. ASSUME HasFields(t), NEW f \in FieldsOf(t), NEW g \in FieldsOf(t), f.name = g.name
        PROVE  f = g
    <3>1. \A i, j \in DOMAIN t.fields :
             t.fields[i].name = t.fields[j].name \/ t.fields[i].id = t.fields[j].id => i = j
      BY <1>1, <2>2, TypesAssumption DEF IsSchema
    <3>2. PICK i \in DOMAIN t.fields : t.fields[i] = f
      BY DEF FieldsOf
    <3>3. PICK j \in DOMAIN t.fields : t.fields[j] = g
      BY DEF FieldsOf
    <3>4. QED
      BY <2>2, <3>1, <3>2, <3>3
  <2>3. QED
    BY <2>1, <2>2 DEF TypeFits
<1>2. CASE Skippable(t)
  <2>1. PICK k, w : t \in {SkipType(w), ListOf(SkipType(w)), MapOf(SkipType(k), SkipType(w))}
    BY <1>2 DEF Skippable
  <2>2. \A x : TypeFits(SkipType(x)) /\ SkipType(x).kind # "union"
    BY SkipTypeIs DEF TypeFits, Skippable
  <2>3. CASE t = SkipType(w)
    <3>1. TypeFits(Anything) /\ Anything.kind # "union"
      BY <2>2, AnythingIs
    <3>2. HasFields(t) => FieldsOf(t) = {}
      BY <2>3, SkipTypeIs DEF HasFields, FieldsOf
    <3>3. QED
      BY <2>3, <3>1, <3>2, SkipTypeIs
  <2>4. CASE t = ListOf(SkipType(w))
    BY <2>2, <2>4 DEF ListOf, HasFields
  <2>5. CASE t = MapOf(SkipType(k), SkipType(w))
    BY <2>2, <2>5 DEF MapOf, HasFields
  <2>6. QED
    BY <2>1, <2>3, <2>4, <2>5
<1>3. QED
  BY <1>1, <1>2 DEF TypeFits

\* A function that has a field or an element to read calls for a type that fits.
LEMMA WantedFits ==
    ASSUME NEW f, TypeFits(f.type), f.type.kind # "scalar"
    PROVE  TypeFits(WantedBy(f))
<1>1. CASE OfFields(f) /\ FieldsWith(f.type, f.field.id) = {}
  BY <1>1 DEF WantedBy, TypeFits, Skippable
<1>2. CASE OfFields(f) /\ FieldsWith(f.type, f.field.id) # {}
  <2> DEFINE g == CHOOSE g \in FieldsWith(f.type, f.field.id) : TRUE
  <2>1. g \in FieldsWith(f.type, f.field.id)
    BY <1>2
  <2>2. WantedBy(f) = g.type
    BY <1>2 DEF WantedBy
  <2> HIDE DEF g
  <2>3. QED
    BY <1>2, <2>1, <2>2, TypeIs DEF FieldsWith, OfFields
<1>3. CASE ~OfFields(f)
  <2>1. f.type.kind \in {"list", "map"}
    BY <1>3, TypeIs DEF OfFields, HasFields
  <2>2. QED
    BY <1>3, <2>1, TypeIs DEF WantedBy
<1>4. QED
  BY <1>1, <1>2, <1>3

-----------------------------------------------------------------------------
(***************************************************************************)
(* Sequences by their last element.                                        *)
(***************************************************************************)
LEMMA SplitLast ==
    ASSUME NEW U, NEW s \in Seq(U), s # <<>>
    PROVE  /\ Front(s) \in Seq(U) /\ s[Len(s)] \in U
           /\ s = Append(Front(s), s[Len(s)])
<1>1. Len(s) \in Nat /\ Len(s) # 0 /\ Len(s) - 1 \in Nat
  BY EmptySeq, LenProperties
<1>2. /\ Front(s) \in Seq(U) /\ Len(Front(s)) = Len(s) - 1
      /\ \A k \in 1 .. Len(s) - 1 : Front(s)[k] = s[k]
  <2> DEFINE n == Len(s) - 1
  <2>1. 1 \in Nat /\ n \in Nat /\ 1 <= n + 1 /\ n <= Len(s) /\ n - 1 + 1 = n
    BY <1>1
  <2> HIDE DEF n
  <2>2. /\ SubSeq(s, 1, n) \in Seq(U) /\ Len(SubSeq(s, 1, n)) = n - 1 + 1
        /\ \A k \in 1 .. n - 1 + 1 : SubSeq(s, 1, n)[k] = s[1 - 1 + k]
    BY <2>1, SubSeqIs
  <2>3. \A k \in 1 .. n : 1 - 1 + k = k
    OBVIOUS
  <2>4. QED
    BY <2>1, <2>2, <2>3 DEF Front, n
<1>3. s[Len(s)] \in U
  BY <1>1
<1> DEFINE a == Append(Front(s), s[Len(s)])
<1> HIDE DEF Front
<1>4. /\ a \in Seq(U) /\ Len(a) = Len(s)
      /\ \A k \in 1 .. Len(s) - 1 : a[k] = s[k]
      /\ a[Len(s)] = s[Len(s)]
  BY <1>1, <1>2, <1>3, AppendProperties
<1> HIDE DEF a
<1>5. \A k \in 1 .. Len(s) : a[k] = s[k]
  BY <1>1, <1>4
<1>6. a = s
  BY <1>4, <1>5, SeqEqual
<1>7. QED
  BY <1>2, <1>3, <1>6 DEF a

\* An element after a sequence is its last, and the sequence what comes before it.
LEMMA AppendIs ==
    ASSUME NEW U, NEW s \in Seq(U), NEW x
    PROVE  /\ IsSeq(Append(s, x)) /\ Append(s, x) # <<>>
           /\ Len(Append(s, x)) = Len(s) + 1
           /\ \A i \in 1 .. Len(s) : Append(s, x)[i] = s[i]
           /\ Append(s, x)[Len(s) + 1] = x
           /\ Front(Append(s, x)) = s
<1> DEFINE G == U \cup {x}
           a == Append(s, x)
<1>1. s \in Seq(G) /\ x \in G /\ Len(s) \in Nat
  BY LenProperties
<1>2. /\ a \in Seq(G) /\ Len(a) = Len(s) + 1 /\ a[Len(s) + 1] = x
      /\ \A i \in 1 .. Len(s) : a[i] = s[i]
  BY <1>1, AppendProperties
<1> HIDE DEF a, G
<1>3. /\ Front(a) \in Seq(G) /\ Len(Front(a)) = Len(s)
      /\ \A k \in 1 .. Len(s) : Front(a)[k] = a[k]
  BY <1>1, <1>2, SubSeqIs DEF Front
<1>4. Front(a) = s
  <2>1. \A k \in 1 .. Len(s) : Front(a)[k] = s[k]
    BY <1>2, <1>3
  <2> HIDE DEF Front
  <2>2. QED
    BY <1>1, <1>3, <2>1, SeqEqual
<1>5. a # <<>>
  BY <1>1, <1>2
<1>6. QED
  BY <1>2, <1>4, <1>5 DEF a, IsSeq

-----------------------------------------------------------------------------
(***************************************************************************)
(* SumOf: the function it is defined by exists, and an element adds itself.*)
(***************************************************************************)
SumsUpto(g, s, n) ==
    g = [i \in 0 .. n |-> IF i = 0 THEN 0 ELSE g[i - 1] + s[i]]

\* A sum is the one before it and the next number.
LEMMA SumsAt ==
    ASSUME NEW s, NEW g, NEW n \in Nat, SumsUpto(g, s, n), NEW i \in 0 .. n
    PROVE  g[i] = IF i = 0 THEN 0 ELSE g[i - 1] + s[i]
<1> DEFINE h == [j \in 0 .. n |-> IF j = 0 THEN 0 ELSE g[j - 1] + s[j]]
<1>1. h[i] = IF i = 0 THEN 0 ELSE g[i - 1] + s[i]
  OBVIOUS
<1>2. g = h
  BY DEF SumsUpto
<1> HIDE DEF h
<1>3. QED
  BY <1>1, <1>2

LEMMA SumsExist ==
    ASSUME NEW s
    PROVE  \A n \in Nat : \E g : SumsUpto(g, s, n)
<1> DEFINE T == {n \in Nat : \E g : SumsUpto(g, s, n)}
<1>1. 0 \in T
  <2> DEFINE g == [i \in 0 .. 0 |-> 0]
             h == [i \in 0 .. 0 |-> IF i = 0 THEN 0 ELSE g[i - 1] + s[i]]
  <2>1. g = h
    OBVIOUS
  <2>2. SumsUpto(g, s, 0)
    BY <2>1 DEF SumsUpto
  <2>3. QED
    BY <2>2
<1>2. ASSUME NEW n \in Nat, n \in T PROVE n + 1 \in T
  <2>1. PICK f : SumsUpto(f, s, n)
    BY <1>2
  <2> DEFINE g == [i \in 0 .. n + 1 |-> IF i = n + 1 THEN f[n] + s[i] ELSE f[i]]
             h == [i \in 0 .. n + 1 |-> IF i = 0 THEN 0 ELSE g[i - 1] + s[i]]
  <2>2. ASSUME NEW i \in 0 .. n + 1 PROVE g[i] = h[i]
    <3>1. CASE i = n + 1
      BY <3>1
    <3>2. CASE i # n + 1
      <4>1. i \in 0 .. n
        BY <3>2
      <4>2. f[i] = IF i = 0 THEN 0 ELSE f[i - 1] + s[i]
        BY <2>1, <4>1, SumsAt
      <4>3. i # 0 => i - 1 \in 0 .. n + 1 /\ i - 1 # n + 1
        BY <4>1
      <4>4. QED
        BY <3>2, <4>2, <4>3
    <3>3. QED
      BY <3>1, <3>2
  <2>3. g = h
    BY <2>2
  <2>4. SumsUpto(g, s, n + 1)
    BY <2>3 DEF SumsUpto
  <2> HIDE DEF g, h
  <2>5. QED
    BY <2>4
<1> HIDE DEF T
<1>3. \A n \in Nat : n \in T
  BY <1>1, <1>2, Induction
<1>4. QED
  BY <1>3 DEF T

\* SumOf is the last of the sums.
LEMMA SumIs ==
    ASSUME NEW s, Len(s) \in Nat
    PROVE  \E g : SumsUpto(g, s, Len(s)) /\ SumOf(s) = g[Len(s)]
<1> DEFINE g == CHOOSE g : SumsUpto(g, s, Len(s))
<1>1. SumsUpto(g, s, Len(s))
  BY SumsExist
<1>2. SumOf(s) = g[Len(s)]
  BY DEF SumOf, SumsUpto
<1>3. QED
  BY <1>1, <1>2

\* Sums over sequences that begin alike.
BeginAlike(s, t, n) == \A i \in 1 .. n : s[i] = t[i]

LEMMA SumsAgree ==
    ASSUME NEW n \in Nat, NEW s, NEW t, BeginAlike(s, t, n),
           NEW g, SumsUpto(g, s, n), NEW m \in Nat, n <= m, NEW h, SumsUpto(h, t, m)
    PROVE  g[n] = h[n]
<1> DEFINE T == {i \in Nat : i <= n => g[i] = h[i]}
<1>1. 0 \in T
  BY SumsAt
<1>2. ASSUME NEW i \in Nat, i \in T PROVE i + 1 \in T
  <2>1. SUFFICES ASSUME i + 1 <= n PROVE g[i + 1] = h[i + 1]
    OBVIOUS
  <2>2. i + 1 \in 0 .. n /\ i + 1 \in 0 .. m /\ (i + 1) - 1 = i /\ g[i] = h[i]
        /\ s[i + 1] = t[i + 1] /\ i + 1 # 0
    BY <1>2, <2>1 DEF BeginAlike
  <2>3. g[i + 1] = g[(i + 1) - 1] + s[i + 1]
    BY <2>2, SumsAt
  <2>4. h[i + 1] = h[(i + 1) - 1] + t[i + 1]
    BY <2>2, SumsAt
  <2>5. QED
    BY <2>2, <2>3, <2>4
<1> HIDE DEF T
<1>3. \A i \in Nat : i \in T
  BY <1>1, <1>2, Induction
<1>4. QED
  BY <1>3 DEF T

\* Sums of naturals do not fall.
LEMMA SumsRise ==
    ASSUME NEW m \in Nat, NEW s, \A i \in 1 .. m : s[i] \in Nat,
           NEW g, SumsUpto(g, s, m), NEW n \in Nat, n <= m
    PROVE  g[n] \in Nat /\ g[m] \in Nat /\ g[n] <= g[m]
<1> DEFINE T == {i \in Nat : i <= m => g[i] \in Nat /\ (n <= i => g[n] \in Nat /\ g[n] <= g[i])}
<1>1. 0 \in T
  <2>1. g[0] = 0
    BY SumsAt
  <2>2. QED
    BY <2>1
<1>2. ASSUME NEW i \in Nat, i \in T PROVE i + 1 \in T
  <2>1. SUFFICES ASSUME i + 1 <= m
                 PROVE  g[i + 1] \in Nat /\ (n <= i + 1 => g[n] \in Nat /\ g[n] <= g[i + 1])
    OBVIOUS
  <2>2. i + 1 \in 0 .. m /\ i + 1 \in 1 .. m /\ (i + 1) - 1 = i /\ i + 1 # 0
        /\ g[i] \in Nat /\ (n <= i => g[n] \in Nat /\ g[n] <= g[i])
    BY <1>2, <2>1
  <2>3. g[i + 1] = g[(i + 1) - 1] + s[i + 1] /\ s[i + 1] \in Nat
    BY <2>2, SumsAt
  <2>4. CASE n <= i
    BY <2>2, <2>3, <2>4
  <2>5. CASE n = i + 1
    BY <2>2, <2>3, <2>5
  <2>6. QED
    BY <2>2, <2>3, <2>4, <2>5
<1> HIDE DEF T
<1>3. \A i \in Nat : i \in T
  BY <1>1, <1>2, Induction
<1>4. QED
  BY <1>3 DEF T

\* The rooms of frames, one by one.
LEMMA RoomsAre ==
    ASSUME NEW U, NEW s \in Seq(U)
    PROVE  /\ Len(Rooms(s)) = Len(s) /\ Len(s) \in Nat
           /\ \A i \in 1 .. Len(s) : Rooms(s)[i] = Room(s[i])
<1>1. Len(s) \in Nat /\ DOMAIN s = 1 .. Len(s)
  BY LenProperties
<1> DEFINE G == {Room(s[i]) : i \in 1 .. Len(s)}
<1>2. Rooms(s) \in [1 .. Len(s) -> G]
  BY <1>1 DEF Rooms
<1> HIDE DEF G
<1>3. Len(Rooms(s)) = Len(s)
  BY <1>1, <1>2, FunctionIsSeq
<1>4. QED
  BY <1>1, <1>3 DEF Rooms

\* Without frames nothing is reserved, and a frame adds its own room.
LEMMA ReservedEmpty == Reserved(<<>>) = 0
<1>1. <<>> \in Seq({}) /\ Len(<<>>) = 0
  OBVIOUS
<1>2. Len(Rooms(<<>>)) = 0
  BY <1>1, RoomsAre
<1>3. PICK g : SumsUpto(g, Rooms(<<>>), 0) /\ SumOf(Rooms(<<>>)) = g[0]
  BY <1>2, SumIs
<1>4. g[0] = 0
  BY <1>3, SumsAt
<1>5. QED
  BY <1>3, <1>4 DEF Reserved

LEMMA ReservedAppend ==
    ASSUME NEW U, NEW s \in Seq(U), NEW x
    PROVE  Reserved(Append(s, x)) = Reserved(s) + Room(x)
<1> DEFINE a == Append(s, x)
           n == Len(s)
           p == Rooms(s)
           q == Rooms(a)
<1>1. n \in Nat /\ Len(a) = n + 1 /\ a[n + 1] = x /\ \A i \in 1 .. n : s[i] = a[i]
  BY AppendIs, LenProperties
<1>2. PICK G : a \in Seq(G)
  BY AppendIs DEF IsSeq
<1> HIDE DEF a
<1>3. Len(p) = n /\ \A i \in 1 .. n : p[i] = Room(s[i])
  BY RoomsAre
<1>4. Len(q) = n + 1 /\ \A i \in 1 .. n + 1 : q[i] = Room(a[i])
  BY <1>1, <1>2, RoomsAre
<1> HIDE DEF n, p, q
<1>5. PICK g : SumsUpto(g, p, n) /\ SumOf(p) = g[n]
  BY <1>1, <1>3, SumIs
<1>6. PICK h : SumsUpto(h, q, n + 1) /\ SumOf(q) = h[n + 1]
  BY <1>1, <1>4, SumIs
<1>7. g[n] = h[n]
  <2>1. n \in Nat /\ n + 1 \in Nat /\ n <= n + 1
    BY <1>1
  <2>2. BeginAlike(p, q, n)
    BY <1>1, <1>3, <1>4, <2>1 DEF BeginAlike
  <2>3. SumsUpto(g, p, n) /\ SumsUpto(h, q, n + 1)
    BY <1>5, <1>6
  <2>4. QED
    BY <2>1, <2>2, <2>3, SumsAgree
<1>8. h[n + 1] = h[n] + Room(x)
  <2>1. n + 1 \in 0 .. n + 1 /\ n + 1 # 0 /\ (n + 1) - 1 = n /\ n + 1 \in Nat
        /\ n + 1 \in 1 .. n + 1
    BY <1>1
  <2>2. h[n + 1] = h[(n + 1) - 1] + q[n + 1]
    BY <1>6, <2>1, SumsAt
  <2>3. QED
    BY <1>1, <1>4, <2>1, <2>2
<1>9. QED
  BY <1>5, <1>6, <1>7, <1>8 DEF Reserved, a, p, q

-----------------------------------------------------------------------------
(***************************************************************************)
(* WellFormed: what a closed set has is well formed, however deep.         *)
(***************************************************************************)
NestsUpto(g, t, v, n) ==
    g = [i \in 0 .. n |-> IF i = 0 THEN {<<t, v>>} ELSE PartsOf(g[i - 1])]

NestIs(g, t, v, i) == g[i] = IF i = 0 THEN {<<t, v>>} ELSE PartsOf(g[i - 1])

\* What is nested in a value, level by level.
LEMMA NestsAt ==
    ASSUME NEW t, NEW v, NEW g, NEW n \in Nat, NestsUpto(g, t, v, n), NEW i \in 0 .. n
    PROVE  NestIs(g, t, v, i)
<1> DEFINE h == [j \in 0 .. n |-> IF j = 0 THEN {<<t, v>>} ELSE PartsOf(g[j - 1])]
<1>1. h[i] = IF i = 0 THEN {<<t, v>>} ELSE PartsOf(g[i - 1])
  OBVIOUS
<1>2. g = h
  BY DEF NestsUpto
<1> HIDE DEF h
<1>3. QED
  BY <1>1, <1>2 DEF NestIs

LEMMA NestsExist ==
    ASSUME NEW t, NEW v
    PROVE  \A n \in Nat : \E g : NestsUpto(g, t, v, n)
<1> DEFINE T == {n \in Nat : \E g : NestsUpto(g, t, v, n)}
<1>1. 0 \in T
  <2> DEFINE g == [i \in 0 .. 0 |-> {<<t, v>>}]
             h == [i \in 0 .. 0 |-> IF i = 0 THEN {<<t, v>>} ELSE PartsOf(g[i - 1])]
  <2>1. g = h
    OBVIOUS
  <2>2. NestsUpto(g, t, v, 0)
    BY <2>1 DEF NestsUpto
  <2>3. QED
    BY <2>2
<1>2. ASSUME NEW n \in Nat, n \in T PROVE n + 1 \in T
  <2>1. PICK f : NestsUpto(f, t, v, n)
    BY <1>2
  <2> DEFINE g == [i \in 0 .. n + 1 |-> IF i = n + 1 THEN PartsOf(f[n]) ELSE f[i]]
             h == [i \in 0 .. n + 1 |-> IF i = 0 THEN {<<t, v>>} ELSE PartsOf(g[i - 1])]
  <2>2. ASSUME NEW i \in 0 .. n + 1 PROVE g[i] = h[i]
    <3>1. CASE i = n + 1
      BY <3>1
    <3>2. CASE i # n + 1
      <4>1. i \in 0 .. n
        BY <3>2
      <4>2. NestIs(f, t, v, i)
        BY <2>1, <4>1, NestsAt
      <4>3. i # 0 => i - 1 \in 0 .. n + 1 /\ i - 1 # n + 1
        BY <4>1
      <4>4. QED
        BY <3>2, <4>2, <4>3 DEF NestIs
    <3>3. QED
      BY <3>1, <3>2
  <2>3. g = h
    BY <2>2
  <2>4. NestsUpto(g, t, v, n + 1)
    BY <2>3 DEF NestsUpto
  <2> HIDE DEF g, h
  <2>5. QED
    BY <2>4
<1> HIDE DEF T
<1>3. \A n \in Nat : n \in T
  BY <1>1, <1>2, Induction
<1>4. QED
  BY <1>3 DEF T

\* Values of one piece hold nothing, and are sound.
LEMMA ScalarIs ==
    ASSUME NEW t, NEW v, t.kind = "scalar"
    PROVE  Sound(t, v) /\ Parts(t, v) = {}
  BY DEF Sound, Parts, HasFields

\* All that is nested in a value of a closed set is sound.
LEMMA ClosedIsWellFormed ==
    ASSUME NEW S, Closed(S), NEW t, NEW v, <<t, v>> \in S
    PROVE  WellFormed(t, v)
<1> DEFINE g == CHOOSE g : NestsUpto(g, t, v, MaxNesting)
<1>0. MaxNesting \in Nat
  BY CapsAssumption
<1>1. NestsUpto(g, t, v, MaxNesting)
  BY <1>0, NestsExist
<1>2. WellFormed(t, v) <=> \A n \in 0 .. MaxNesting : \A p \in g[n] : Sound(p[1], p[2])
  BY DEF WellFormed, NestsUpto
<1> HIDE DEF g
<1> DEFINE T == {n \in Nat : n <= MaxNesting => AllIn(g[n], S)}
<1>3. 0 \in T
  <2>1. 0 \in 0 .. MaxNesting
    BY <1>0
  <2>2. NestIs(g, t, v, 0)
    BY <1>0, <1>1, <2>1, NestsAt
  <2>3. QED
    BY <2>2 DEF NestIs, AllIn
<1>4. ASSUME NEW n \in Nat, n \in T PROVE n + 1 \in T
  <2>1. SUFFICES ASSUME n + 1 <= MaxNesting PROVE AllIn(g[n + 1], S)
    OBVIOUS
  <2>2. n + 1 \in 0 .. MaxNesting /\ n + 1 # 0 /\ (n + 1) - 1 = n /\ AllIn(g[n], S)
    BY <1>0, <1>4, <2>1
  <2>3. NestIs(g, t, v, n + 1)
    BY <1>0, <1>1, <2>2, NestsAt
  <2>4. g[n + 1] = PartsOf(g[n])
    BY <2>2, <2>3 DEF NestIs
  <2>5. \A p \in g[n] : AllIn(Parts(p[1], p[2]), S)
    BY <2>2, ScalarIs DEF Closed, AllIn
  <2>6. QED
    BY <2>4, <2>5 DEF PartsOf, AllIn
<1> HIDE DEF T
<1>5. \A n \in Nat : n \in T
  BY <1>3, <1>4, Induction
<1>6. \A n \in 0 .. MaxNesting : AllIn(g[n], S)
  BY <1>0, <1>5 DEF T
<1>7. QED
  BY <1>2, <1>6, ScalarIs DEF AllIn, Closed

-----------------------------------------------------------------------------
(***************************************************************************)
(* What a function makes of a value it called for.                         *)
(***************************************************************************)
ResultFits(r, wanted, S) ==
    \/ r = UnknownVariant /\ wanted.kind = "union"
    \/ \E v : r = <<v>> /\ (<<wanted, v>> \in S \/ wanted.kind = "scalar")

\* A result is a value of the type called for, or none.
LEMMA ResultIs ==
    ASSUME NEW v
    PROVE  <<v>> # UnknownVariant /\ <<v>>[1] = v /\ <<v>> # NoKey
<1>1. Len(<<v>>) = 1 /\ Len(<<>>) = 0
  OBVIOUS
<1>2. QED
  BY <1>1 DEF UnknownVariant, NoKey

IsWith(new, got, name, value) ==
    /\ DOMAIN new = DOMAIN got \cup {name}
    /\ new[name] = value
    /\ \A n \in DOMAIN got \ {name} : new[n] = got[n]

\* A field set in what was got, and the others as they were.
LEMMA WithIs ==
    ASSUME NEW got, NEW name, NEW value
    PROVE  IsWith(With(got, name, value), got, name, value)
  BY DEF With, IsWith

\* The parts of values, by the kind of their type.
LEMMA PartsAre ==
    ASSUME NEW t, NEW v
    PROVE  /\ t.kind \in {"list", "map"} => Parts(t, v) = ElementValues(t, v)
           /\ HasFields(t) => Parts(t, v) = FieldValues(t, v)
  BY DEF Parts, HasFields

\* Only the field, or the elements, the key and the values of a frame change.
LEMMA FrameWithField ==
    ASSUME NEW f, IsFrame(f), NEW x
    PROVE  LET g == [f EXCEPT !.field = x]
           IN  /\ IsFrame(g) /\ g.field = x
               /\ g.type = f.type /\ g.left = f.left /\ g.key = f.key
               /\ g.got = f.got /\ g.all = f.all /\ g.known = f.known
  BY DEF IsFrame

\* The same for the other fields of a frame.
LEMMA FrameWithLeft ==
    ASSUME NEW f, IsFrame(f), NEW x
    PROVE  LET g == [f EXCEPT !.left = x]
           IN  /\ IsFrame(g) /\ g.left = x
               /\ g.type = f.type /\ g.field = f.field /\ g.key = f.key
               /\ g.got = f.got /\ g.all = f.all /\ g.known = f.known
  BY DEF IsFrame

LEMMA FrameWithKey ==
    ASSUME NEW f, IsFrame(f), NEW x
    PROVE  LET g == [f EXCEPT !.key = x]
           IN  /\ IsFrame(g) /\ g.key = x
               /\ g.type = f.type /\ g.field = f.field /\ g.left = f.left
               /\ g.got = f.got /\ g.all = f.all /\ g.known = f.known
  BY DEF IsFrame

LEMMA FrameWithGot ==
    ASSUME NEW f, IsFrame(f), NEW x
    PROVE  LET g == [f EXCEPT !.got = x]
           IN  /\ IsFrame(g) /\ g.got = x
               /\ g.type = f.type /\ g.field = f.field /\ g.left = f.left
               /\ g.key = f.key /\ g.all = f.all /\ g.known = f.known
  BY DEF IsFrame

LEMMA FrameWithAll ==
    ASSUME NEW f, IsFrame(f), NEW x
    PROVE  LET g == [f EXCEPT !.all = x]
           IN  /\ IsFrame(g) /\ g.all = x
               /\ g.type = f.type /\ g.field = f.field /\ g.left = f.left
               /\ g.key = f.key /\ g.got = f.got /\ g.known = f.known
  BY DEF IsFrame

LEMMA FrameWithKnown ==
    ASSUME NEW f, IsFrame(f), NEW x
    PROVE  LET g == [f EXCEPT !.known = x]
           IN  /\ IsFrame(g) /\ g.known = x
               /\ g.type = f.type /\ g.field = f.field /\ g.left = f.left
               /\ g.key = f.key /\ g.got = f.got /\ g.all = f.all
  BY DEF IsFrame

WithFields(f, field, all, known, got) ==
    [f EXCEPT !.field = field, !.all = all, !.known = known, !.got = got]

\* Several fields of a frame at once.
LEMMA FrameWithFields ==
    ASSUME NEW f, IsFrame(f), NEW field, NEW all, NEW known, NEW got
    PROVE  LET g == WithFields(f, field, all, known, got)
           IN  /\ IsFrame(g) /\ g.type = f.type /\ g.left = f.left /\ g.key = f.key
               /\ g.field = field /\ g.all = all /\ g.known = known /\ g.got = got
<1> DEFINE h == [f EXCEPT !.field = field]
           i == [h EXCEPT !.all = all]
           j == [i EXCEPT !.known = known]
           k == [j EXCEPT !.got = got]
<1>1. WithFields(f, field, all, known, got) = k
  BY DEF WithFields
<1>2. /\ IsFrame(h) /\ h.field = field
      /\ h.type = f.type /\ h.left = f.left /\ h.key = f.key
      /\ h.got = f.got /\ h.all = f.all /\ h.known = f.known
  BY FrameWithField
<1> HIDE DEF h
<1>3. /\ IsFrame(i) /\ i.all = all
      /\ i.type = h.type /\ i.field = h.field /\ i.left = h.left
      /\ i.key = h.key /\ i.got = h.got /\ i.known = h.known
  BY <1>2, FrameWithAll
<1> HIDE DEF i
<1>4. /\ IsFrame(j) /\ j.known = known
      /\ j.type = i.type /\ j.field = i.field /\ j.left = i.left
      /\ j.key = i.key /\ j.got = i.got /\ j.all = i.all
  BY <1>3, FrameWithKnown
<1> HIDE DEF j
<1>5. /\ IsFrame(k) /\ k.got = got
      /\ k.type = j.type /\ k.field = j.field /\ k.left = j.left
      /\ k.key = j.key /\ k.all = j.all /\ k.known = j.known
  BY <1>4, FrameWithGot
<1> HIDE DEF k
<1>6. QED
  BY <1>1, <1>2, <1>3, <1>4, <1>5

WithElements(f, left, got) ==
    [f EXCEPT !.left = left, !.got = got]

LEMMA FrameWithElements ==
    ASSUME NEW f, IsFrame(f), NEW left, NEW got
    PROVE  LET g == WithElements(f, left, got)
           IN  /\ IsFrame(g) /\ g.type = f.type /\ g.field = f.field /\ g.key = f.key /\ g.all = f.all /\ g.known = f.known
               /\ g.left = left /\ g.got = got
<1> DEFINE h == [f EXCEPT !.left = left]
           i == [h EXCEPT !.got = got]
<1>1. WithElements(f, left, got) = i
  BY DEF WithElements
<1>2. /\ IsFrame(h) /\ h.left = left
      /\ h.type = f.type /\ h.field = f.field /\ h.key = f.key
      /\ h.got = f.got /\ h.all = f.all /\ h.known = f.known
  BY FrameWithLeft
<1> HIDE DEF h
<1>3. /\ IsFrame(i) /\ i.got = got
      /\ i.type = h.type /\ i.field = h.field /\ i.left = h.left
      /\ i.key = h.key /\ i.all = h.all /\ i.known = h.known
  BY <1>2, FrameWithGot
<1> HIDE DEF i
<1>4. QED
  BY <1>1, <1>2, <1>3

WithValues(f, left, key, got) ==
    [f EXCEPT !.left = left, !.key = key, !.got = got]

LEMMA FrameWithValues ==
    ASSUME NEW f, IsFrame(f), NEW left, NEW key, NEW got
    PROVE  LET g == WithValues(f, left, key, got)
           IN  /\ IsFrame(g) /\ g.type = f.type /\ g.field = f.field /\ g.all = f.all /\ g.known = f.known
               /\ g.left = left /\ g.key = key /\ g.got = got
<1> DEFINE h == [f EXCEPT !.left = left]
           i == [h EXCEPT !.key = key]
           j == [i EXCEPT !.got = got]
<1>1. WithValues(f, left, key, got) = j
  BY DEF WithValues
<1>2. /\ IsFrame(h) /\ h.left = left
      /\ h.type = f.type /\ h.field = f.field /\ h.key = f.key
      /\ h.got = f.got /\ h.all = f.all /\ h.known = f.known
  BY FrameWithLeft
<1> HIDE DEF h
<1>3. /\ IsFrame(i) /\ i.key = key
      /\ i.type = h.type /\ i.field = h.field /\ i.left = h.left
      /\ i.got = h.got /\ i.all = h.all /\ i.known = h.known
  BY <1>2, FrameWithKey
<1> HIDE DEF i
<1>4. /\ IsFrame(j) /\ j.got = got
      /\ j.type = i.type /\ j.field = i.field /\ j.left = i.left
      /\ j.key = i.key /\ j.all = i.all /\ j.known = i.known
  BY <1>3, FrameWithGot
<1> HIDE DEF j
<1>5. QED
  BY <1>1, <1>2, <1>3, <1>4

\* The field of an id, and the value under its name.
FieldOf(f) == CHOOSE g \in FieldsWith(f.type, f.field.id) : TRUE

TakesField(f, r) == FieldsWith(f.type, f.field.id) # {} /\ r # UnknownVariant

\* What a frame becomes when it takes a result, field by field.
LEMMA FieldTakenIs ==
    ASSUME NEW f, IsFrame(f), NEW r
    PROVE  LET g == TakenAsField(f, r)
           IN  /\ IsFrame(g) /\ g.type = f.type /\ g.left = f.left
               /\ g.field = StopToken /\ g.key = f.key /\ g.all = f.all + 1
               /\ g.known = IF TakesField(f, r) THEN f.known + 1 ELSE f.known
               /\ g.got = IF TakesField(f, r) /\ (f.type.kind = "struct" \/ f.known = 0)
                          THEN With(f.got, FieldOf(f).name, r[1])
                          ELSE f.got
<1> DEFINE known == IF TakesField(f, r) THEN f.known + 1 ELSE f.known
           got == IF TakesField(f, r) /\ (f.type.kind = "struct" \/ f.known = 0)
                  THEN With(f.got, FieldOf(f).name, r[1])
                  ELSE f.got
           all == f.all + 1
<1>1. TakenAsField(f, r) =
        WithFields(f, StopToken, all, known, got)
  BY Zenon DEF WithFields, TakenAsField, TakesField, FieldOf
<1> HIDE DEF known, got, all
<1>2. LET g == WithFields(f, StopToken, all, known, got)
      IN  /\ IsFrame(g) /\ g.type = f.type /\ g.left = f.left /\ g.known = known /\ g.got = got
          /\ g.field = StopToken /\ g.key = f.key /\ g.all = all
  BY FrameWithFields
<1>3. QED
  BY <1>1, <1>2 DEF known, got, all

LEMMA ElementTakenIs ==
    ASSUME NEW f, IsFrame(f), NEW r
    PROVE  LET g == TakenAsElement(f, r)
           IN  /\ IsFrame(g) /\ g.type = f.type /\ g.left = f.left - 1
               /\ g.field = f.field /\ g.key = f.key /\ g.all = f.all /\ g.known = f.known
               /\ g.got = f.got \o r
<1> DEFINE left == f.left - 1
           got == f.got \o r
<1>1. TakenAsElement(f, r) = WithElements(f, left, got)
  BY Zenon DEF WithElements, TakenAsElement
<1> HIDE DEF left, got
<1>2. LET g == WithElements(f, left, got)
      IN  /\ IsFrame(g) /\ g.type = f.type /\ g.left = left /\ g.got = got
          /\ g.field = f.field /\ g.key = f.key /\ g.all = f.all /\ g.known = f.known
  BY FrameWithElements
<1>3. QED
  BY <1>1, <1>2 DEF left, got

LEMMA KeyTakenIs ==
    ASSUME NEW f, IsFrame(f), NEW r
    PROVE  LET g == TakenAsKey(f, r)
           IN  /\ IsFrame(g) /\ g.type = f.type /\ g.left = f.left /\ g.got = f.got
               /\ g.key = r /\ g.field = f.field /\ g.all = f.all /\ g.known = f.known
  BY FrameWithKey DEF TakenAsKey

LEMMA ValueTakenIs ==
    ASSUME NEW f, IsFrame(f), NEW r
    PROVE  LET g == TakenAsValue(f, r)
           IN  /\ IsFrame(g) /\ g.type = f.type /\ g.left = f.left - 1
               /\ g.key = NoKey /\ g.field = f.field /\ g.all = f.all /\ g.known = f.known
               /\ g.got = With(f.got, f.key[1], r[1])
<1> DEFINE left == f.left - 1
           got == With(f.got, f.key[1], r[1])
<1>1. TakenAsValue(f, r) = WithValues(f, left, NoKey, got)
  BY Zenon DEF WithValues, TakenAsValue
<1> HIDE DEF left, got
<1>2. LET g == WithValues(f, left, NoKey, got)
      IN  /\ IsFrame(g) /\ g.type = f.type /\ g.left = left /\ g.got = got
          /\ g.key = NoKey /\ g.field = f.field /\ g.all = f.all /\ g.known = f.known
  BY FrameWithValues
<1>3. QED
  BY <1>1, <1>2 DEF left, got

\* The frame of a function that has taken a value fits, and reserves no more.
TakenWell(g, f, S) ==
    FrameFits(g, S) /\ g.type = f.type /\ Room(g) \in Nat /\ Room(g) <= Room(f)

\* The room of a frame is a number, whatever it is of.
LEMMA RoomIs ==
    ASSUME NEW S, NEW f, FrameFits(f, S)
    PROVE  /\ Room(f) \in Nat
           /\ f.type.kind = "list" => Room(f) = f.left + Len(f.got) /\ Len(f.got) \in Nat
           /\ f.type.kind = "map" =>
                 /\ Room(f) = f.left + Cardinality(DOMAIN f.got)
                 /\ Cardinality(DOMAIN f.got) \in Nat
           /\ OfFields(f) => Room(f) = 0
<1>1. f.type.kind \in {"list", "map", "struct", "union"}
  BY TypeIs DEF FrameFits
<1>2. CASE f.type.kind = "list"
  <2>1. f.left \in Nat /\ IsSeq(f.got)
    BY <1>2 DEF FrameFits, ListFits
  <2>2. PICK U : f.got \in Seq(U)
    BY <2>1 DEF IsSeq
  <2>3. Len(f.got) \in Nat /\ DOMAIN f.got = 1 .. Len(f.got)
    BY <2>2, LenProperties
  <2>4. Cardinality(1 .. Len(f.got)) = Len(f.got)
    BY <2>3, FS_Interval
  <2>5. ~OfFields(f)
    BY <1>2 DEF OfFields, HasFields
  <2>6. Room(f) = f.left + Len(f.got)
    BY <2>3, <2>4, <2>5 DEF Room
  <2>7. QED
    BY <1>2, <2>1, <2>3, <2>5, <2>6
<1>3. CASE f.type.kind = "map"
  <2>1. f.left \in Nat /\ IsFiniteSet(DOMAIN f.got)
    BY <1>3 DEF FrameFits, MapFits
  <2>2. Cardinality(DOMAIN f.got) \in Nat
    BY <2>1, FS_CardinalityType
  <2>3. QED
    BY <1>3, <2>1, <2>2 DEF Room, OfFields, HasFields
<1>4. CASE f.type.kind \in {"struct", "union"}
  BY <1>4 DEF Room, OfFields, HasFields
<1>5. QED
  BY <1>1, <1>2, <1>3, <1>4

\* The field that was found for an id is of the type.
LEMMA FieldOfIs ==
    ASSUME NEW f, OfFields(f), FieldsWith(f.type, f.field.id) # {}
    PROVE  FieldOf(f) \in FieldsOf(f.type) /\ WantedBy(f) = FieldOf(f).type
<1>1. FieldOf(f) \in FieldsWith(f.type, f.field.id)
  BY DEF FieldOf
<1>2. WantedBy(f) = FieldOf(f).type
  BY DEF WantedBy, FieldOf
<1>3. QED
  BY <1>1, <1>2 DEF FieldsWith

\* What the value of a field adds.
LEMMA FieldPartsFit ==
    ASSUME NEW S, NEW t, TypeFits(t), HasFields(t), NEW got, AllIn(Parts(t, got), S),
           NEW h \in FieldsOf(t), NEW v, <<h.type, v>> \in S \/ h.type.kind = "scalar"
    PROVE  AllIn(Parts(t, With(got, h.name, v)), S)
<1> DEFINE new == With(got, h.name, v)
<1>1. \A x : Parts(t, x) = {<<f.type, x[f.name]>> :
                              f \in {g \in FieldsOf(t) : g.name \in DOMAIN x}}
  BY PartsAre DEF FieldValues
<1>2. /\ DOMAIN new = DOMAIN got \cup {h.name} /\ new[h.name] = v
      /\ \A n \in DOMAIN got \ {h.name} : new[n] = got[n]
  <2>1. IsWith(new, got, h.name, v)
    BY WithIs
  <2>2. QED
    BY <2>1 DEF IsWith
<1> HIDE DEF new
<1>3. ASSUME NEW q \in Parts(t, new) PROVE q \in S \/ q[1].kind = "scalar"
  <2>1. PICK f \in FieldsOf(t) : f.name \in DOMAIN new /\ q = <<f.type, new[f.name]>>
    BY <1>1
  <2>2. CASE f.name = h.name
    <3>1. f = h
      BY <2>2, TypeIs
    <3>2. q = <<h.type, v>>
      BY <1>2, <2>1, <3>1
    <3>3. QED
      BY <3>2
  <2>3. CASE f.name # h.name
    <3>1. f.name \in DOMAIN got /\ new[f.name] = got[f.name]
      BY <1>2, <2>1, <2>3
    <3>2. q \in Parts(t, got)
      BY <1>1, <2>1, <3>1
    <3>3. QED
      BY <3>2 DEF AllIn
  <2>4. QED
    BY <2>2, <2>3
<1>4. QED
  BY <1>3 DEF AllIn, new

\* A frame that fits and takes a result that fits, fits.
LEMMA FieldTakenFits ==
    ASSUME NEW S, NEW f, FrameFits(f, S), OfFields(f),
           NEW r, ResultFits(r, WantedBy(f), S)
    PROVE  TakenWell(TakenAsField(f, r), f, S)
<1> DEFINE g == TakenAsField(f, r)
           h == FieldOf(f)
<1>1. /\ IsFrame(f) /\ TypeFits(f.type) /\ HasFields(f.type) /\ f.known \in Nat
      /\ DOMAIN f.got \subseteq NamesOf(FieldsOf(f.type))
      /\ AllIn(Parts(f.type, f.got), S)
      /\ f.type.kind \in {"struct", "union"}
      /\ f.type.kind = "union" =>
            IF f.known = 0 THEN DOMAIN f.got = {}
            ELSE \E x \in FieldsOf(f.type) : DOMAIN f.got = {x.name}
  BY DEF FrameFits, FieldsFit, OfFields, HasFields
<1>2. /\ IsFrame(g) /\ g.type = f.type
      /\ g.known = IF TakesField(f, r) THEN f.known + 1 ELSE f.known
      /\ g.got = IF TakesField(f, r) /\ (f.type.kind = "struct" \/ f.known = 0)
                 THEN With(f.got, h.name, r[1]) ELSE f.got
  BY <1>1, FieldTakenIs
<1> HIDE DEF g, h
<1>3. g.known \in Nat
  BY <1>1, <1>2
<1>4. CASE ~TakesField(f, r)
  <2>1. g.known = f.known /\ g.got = f.got
    BY <1>2, <1>4
  <2>2. FieldsFit(g)
    BY <1>1, <1>2, <2>1 DEF FieldsFit
  <2>3. AllIn(Parts(g.type, g.got), S)
    BY <1>1, <1>2, <2>1
  <2>4. QED
    BY <1>1, <1>2, <2>2, <2>3
       DEF TakenWell, FrameFits, ListFits, MapFits, Room, OfFields, g
<1>5. CASE TakesField(f, r)
  <2>1. h \in FieldsOf(f.type) /\ WantedBy(f) = h.type
    BY <1>5, FieldOfIs DEF TakesField, h
  <2>2. PICK v : r = <<v>> /\ (<<h.type, v>> \in S \/ h.type.kind = "scalar")
    BY <1>5, <2>1 DEF TakesField, ResultFits
  <2>3. r[1] = v
    BY <2>2, ResultIs
  <2>4. g.known = f.known + 1 /\ g.known # 0
    BY <1>1, <1>2, <1>5
  <2>5. CASE f.type.kind = "struct" \/ f.known = 0
    <3>1. g.got = With(f.got, h.name, v)
      BY <1>2, <1>5, <2>3, <2>5
    <3>2. DOMAIN g.got = DOMAIN f.got \cup {h.name}
      <4>1. IsWith(g.got, f.got, h.name, v)
        BY <3>1, WithIs
      <4>2. QED
        BY <4>1 DEF IsWith
    <3>3. AllIn(Parts(g.type, g.got), S)
      BY <1>1, <1>2, <2>1, <2>2, <3>1, FieldPartsFit
    <3>4. DOMAIN g.got \subseteq NamesOf(FieldsOf(f.type))
      BY <1>1, <2>1, <3>2 DEF NamesOf
    <3>5. f.type.kind = "union" => DOMAIN g.got = {h.name}
      BY <1>1, <2>5, <3>2
    <3>6. FieldsFit(g)
      BY <1>2, <1>3, <2>1, <2>4, <3>4, <3>5 DEF FieldsFit
    <3>7. QED
      BY <1>1, <1>2, <3>3, <3>6
         DEF TakenWell, FrameFits, ListFits, MapFits, Room, OfFields, g
  <2>6. CASE ~(f.type.kind = "struct" \/ f.known = 0)
    <3>1. g.got = f.got
      BY <1>2, <2>6
    <3>2. FieldsFit(g)
      BY <1>1, <1>2, <1>3, <2>4, <2>6, <3>1 DEF FieldsFit
    <3>3. AllIn(Parts(g.type, g.got), S)
      BY <1>1, <1>2, <3>1
    <3>4. QED
      BY <1>1, <1>2, <3>2, <3>3
         DEF TakenWell, FrameFits, ListFits, MapFits, Room, OfFields, g
  <2>7. QED
    BY <2>5, <2>6
<1>6. QED
  BY <1>4, <1>5 DEF g

LEMMA ElementTakenFits ==
    ASSUME NEW S, NEW f, FrameFits(f, S), f.type.kind = "list", Wants(f),
           NEW r, ResultFits(r, WantedBy(f), S)
    PROVE  TakenWell(TakenAsElement(f, r), f, S)
<1> DEFINE g == TakenAsElement(f, r)
<1>1. /\ IsFrame(f) /\ TypeFits(f.type) /\ ~HasFields(f.type) /\ f.left \in Nat
      /\ f.left > 0 /\ WantedBy(f) = f.type.of
      /\ f.left + Len(f.got) <= MaxCollectionSize
      /\ AllIn(Parts(f.type, f.got), S)
  BY DEF FrameFits, ListFits, HasFields, OfFields, Wants, WantedBy
<1>2. PICK U : f.got \in Seq(U)
  BY DEF FrameFits, ListFits, IsSeq
<1>3. IsFrame(g) /\ g.type = f.type /\ g.left = f.left - 1 /\ g.got = f.got \o r
  BY <1>1, ElementTakenIs
<1> HIDE DEF g
<1>4. g.left \in Nat
  BY <1>1, <1>3
<1>5. \A x : Parts(f.type, x) = {<<f.type.of, x[i]>> : i \in DOMAIN x}
  BY PartsAre DEF ElementValues
<1>6. Room(f) = f.left + Len(f.got) /\ Len(f.got) \in Nat /\ DOMAIN f.got = 1 .. Len(f.got)
  BY <1>2, RoomIs
<1>7. ASSUME IsSeq(g.got), Len(g.got) \in {Len(f.got), Len(f.got) + 1},
             AllIn(Parts(f.type, g.got), S)
      PROVE  TakenWell(g, f, S)
  <2>1. g.left + Len(g.got) <= f.left + Len(f.got)
    BY <1>1, <1>3, <1>6, <1>7
  <2>2. FrameFits(g, S)
    <3>1. ListFits(g)
      BY <1>1, <1>3, <1>4, <1>6, <1>7, <2>1, CapsAssumption DEF ListFits
    <3>2. FieldsFit(g) /\ MapFits(g)
      BY <1>1, <1>3 DEF FieldsFit, MapFits
    <3>3. QED
      BY <1>1, <1>3, <1>7, <3>1, <3>2 DEF FrameFits
  <2>3. Room(g) \in Nat /\ Room(g) = g.left + Len(g.got)
    BY <1>3, <2>2, RoomIs
  <2>4. QED
    BY <1>3, <1>6, <2>1, <2>2, <2>3 DEF TakenWell
<1>8. CASE r = UnknownVariant
  <2>1. g.got = f.got
    BY <1>2, <1>3, <1>8 DEF UnknownVariant
  <2>2. QED
    BY <1>1, <1>2, <1>7, <2>1 DEF IsSeq, g
<1>9. CASE r # UnknownVariant
  <2>1. PICK v : r = <<v>> /\ (<<f.type.of, v>> \in S \/ f.type.of.kind = "scalar")
    BY <1>1, <1>9 DEF ResultFits
  <2>2. g.got = Append(f.got, v)
    BY <1>2, <1>3, <2>1
  <2>3. /\ IsSeq(g.got) /\ Len(g.got) = Len(f.got) + 1
        /\ \A i \in 1 .. Len(f.got) : g.got[i] = f.got[i]
        /\ g.got[Len(f.got) + 1] = v
    BY <1>2, <2>2, AppendIs
  <2>4. DOMAIN g.got = 1 .. Len(f.got) + 1
    BY <2>3 DEF IsSeq
  <2>5. AllIn(Parts(f.type, g.got), S)
    <3>1. ASSUME NEW q \in Parts(f.type, g.got) PROVE q \in S \/ q[1].kind = "scalar"
      <4>1. PICK i \in 1 .. Len(f.got) + 1 : q = <<f.type.of, g.got[i]>>
        BY <1>5, <2>4
      <4>2. CASE i = Len(f.got) + 1
        BY <2>1, <2>3, <4>1, <4>2
      <4>3. CASE i # Len(f.got) + 1
        <5>1. i \in DOMAIN f.got /\ g.got[i] = f.got[i]
          BY <1>6, <2>3, <4>1, <4>3
        <5>2. q \in Parts(f.type, f.got)
          BY <1>5, <4>1, <5>1
        <5>3. QED
          BY <1>1, <5>2 DEF AllIn
      <4>4. QED
        BY <4>2, <4>3
    <3>2. QED
      BY <3>1 DEF AllIn
  <2>6. QED
    BY <1>7, <2>3, <2>5 DEF g
<1>10. QED
  BY <1>8, <1>9

LEMMA KeyTakenFits ==
    ASSUME NEW S, NEW f, FrameFits(f, S), f.type.kind = "map", NEW r
    PROVE  TakenWell(TakenAsKey(f, r), f, S)
<1> DEFINE g == TakenAsKey(f, r)
<1>1. IsFrame(f) /\ ~HasFields(f.type)
  BY DEF FrameFits, HasFields
<1>2. IsFrame(g) /\ g.type = f.type /\ g.left = f.left /\ g.got = f.got
  BY <1>1, KeyTakenIs
<1> HIDE DEF g
<1>3. FrameFits(g, S)
  BY <1>1, <1>2 DEF FrameFits, FieldsFit, ListFits, MapFits
<1>4. Room(g) \in Nat /\ Room(g) = Room(f)
  BY <1>2, <1>3, RoomIs
<1>5. QED
  BY <1>2, <1>3, <1>4 DEF TakenWell, g

LEMMA ValueTakenFits ==
    ASSUME NEW S, NEW f, FrameFits(f, S), f.type.kind = "map", Wants(f),
           NEW v, <<f.type.of, v>> \in S \/ f.type.of.kind = "scalar"
    PROVE  TakenWell(TakenAsValue(f, <<v>>), f, S)
<1> DEFINE g == TakenAsValue(f, <<v>>)
           k == f.key[1]
<1>1. /\ IsFrame(f) /\ TypeFits(f.type) /\ ~HasFields(f.type)
      /\ f.left \in Nat /\ f.left > 0 /\ IsFiniteSet(DOMAIN f.got)
      /\ f.left + Cardinality(DOMAIN f.got) <= MaxCollectionSize
      /\ AllIn(Parts(f.type, f.got), S)
  BY DEF FrameFits, MapFits, HasFields, OfFields, Wants
<1>2. /\ IsFrame(g) /\ g.type = f.type /\ g.left = f.left - 1
      /\ g.got = With(f.got, k, v)
  <2>1. <<v>>[1] = v
    BY ResultIs
  <2>2. QED
    BY <1>1, <2>1, ValueTakenIs
<1> HIDE DEF g, k
<1>3. IsWith(g.got, f.got, k, v)
  BY <1>2, WithIs
<1>4. /\ DOMAIN g.got = DOMAIN f.got \cup {k} /\ g.got[k] = v
      /\ \A n \in DOMAIN f.got \ {k} : g.got[n] = f.got[n]
  BY <1>3 DEF IsWith
<1>5. /\ IsFiniteSet(DOMAIN g.got)
      /\ Cardinality(DOMAIN f.got) \in Nat
      /\ Cardinality(DOMAIN g.got) \in Nat
      /\ Cardinality(DOMAIN g.got) <= Cardinality(DOMAIN f.got) + 1
  <2> DEFINE D == DOMAIN f.got
             E == DOMAIN g.got
  <2>1. IsFiniteSet(D) /\ Cardinality(D) \in Nat
    BY <1>1, FS_CardinalityType
  <2>2. E = D \cup {k}
    BY <1>4
  <2> HIDE DEF D, E
  <2>3. /\ IsFiniteSet(D \cup {k})
        /\ Cardinality(D \cup {k}) =
             IF k \in D THEN Cardinality(D) ELSE Cardinality(D) + 1
    BY <2>1, FS_AddElement
  <2>4. QED
    BY <2>1, <2>2, <2>3 DEF D, E
<1>6. g.left \in Nat /\ g.left + Cardinality(DOMAIN g.got) <= f.left + Cardinality(DOMAIN f.got)
  BY <1>1, <1>2, <1>5
<1>7. \A x : Parts(f.type, x) = {<<f.type.of, x[i]>> : i \in DOMAIN x}
  BY PartsAre DEF ElementValues
<1>8. AllIn(Parts(f.type, g.got), S)
  <2>1. ASSUME NEW q \in Parts(f.type, g.got) PROVE q \in S \/ q[1].kind = "scalar"
    <3>1. PICK i \in DOMAIN g.got : q = <<f.type.of, g.got[i]>>
      BY <1>7
    <3>2. CASE i = k
      BY <1>4, <3>1, <3>2
    <3>3. CASE i # k
      <4>1. i \in DOMAIN f.got /\ g.got[i] = f.got[i]
        BY <1>4, <3>1, <3>3
      <4>2. q \in Parts(f.type, f.got)
        BY <1>7, <3>1, <4>1
      <4>3. QED
        BY <1>1, <4>2 DEF AllIn
    <3>4. QED
      BY <3>2, <3>3
  <2>2. QED
    BY <2>1 DEF AllIn
<1>9. FrameFits(g, S)
  <2>1. MapFits(g)
    BY <1>1, <1>2, <1>5, <1>6, CapsAssumption DEF MapFits
  <2>2. FieldsFit(g) /\ ListFits(g)
    BY <1>1, <1>2 DEF FieldsFit, ListFits
  <2>3. QED
    BY <1>1, <1>2, <1>8, <2>1, <2>2 DEF FrameFits
<1>10. /\ Room(g) \in Nat /\ Room(g) = g.left + Cardinality(DOMAIN g.got)
       /\ Room(f) = f.left + Cardinality(DOMAIN f.got)
  BY <1>2, <1>9, RoomIs
<1>11. QED
  BY <1>2, <1>6, <1>9, <1>10 DEF TakenWell, g

LEMMA TakenFits ==
    ASSUME NEW S, NEW f, FrameFits(f, S), Wants(f), NEW r, ResultFits(r, WantedBy(f), S)
    PROVE  TakenWell(Taken(f, r), f, S)
<1>1. f.type.kind \in {"list", "map", "struct", "union"} /\ TypeFits(f.type)
  BY TypeIs DEF FrameFits
<1>2. CASE OfFields(f)
  <2>1. Taken(f, r) = TakenAsField(f, r)
    BY <1>2 DEF Taken, OfFields, HasFields
  <2>2. QED
    BY <1>2, <2>1, FieldTakenFits
<1>3. CASE f.type.kind = "list"
  <2>1. Taken(f, r) = TakenAsElement(f, r)
    BY <1>3 DEF Taken, OfFields, HasFields
  <2>2. QED
    BY <1>3, <2>1, ElementTakenFits
<1>4. CASE f.type.kind = "map" /\ f.key = NoKey
  <2>1. Taken(f, r) = TakenAsKey(f, r)
    BY <1>4 DEF Taken, OfFields, HasFields
  <2>2. QED
    BY <1>4, <2>1, KeyTakenFits
<1>5. CASE f.type.kind = "map" /\ f.key # NoKey
  <2>1. Taken(f, r) = TakenAsValue(f, r)
    BY <1>5 DEF Taken, OfFields, HasFields
  <2>2. WantedBy(f) = f.type.of /\ f.type.of.kind # "union"
    BY <1>1, <1>5, TypeIs DEF WantedBy, OfFields, HasFields
  <2>3. PICK v : r = <<v>> /\ (<<f.type.of, v>> \in S \/ f.type.of.kind = "scalar")
    BY <2>2 DEF ResultFits
  <2>4. QED
    BY <1>5, <2>1, <2>3, ValueTakenFits
<1>6. QED
  BY <1>1, <1>2, <1>3, <1>4, <1>5 DEF OfFields, HasFields

-----------------------------------------------------------------------------
(***************************************************************************)
(* The stack of functions under way.                                       *)
(***************************************************************************)
\* A function that begins.
BeginsFor(f, s, S, root) ==
    /\ FrameFits(f, S)
    /\ IF s = <<>> THEN f.type = root ELSE CalledBy(f, s[Len(s)])

\* A frame called for by the last one fits on the stack.
LEMMA StackAppend ==
    ASSUME NEW S, NEW root, NEW s, IsSeq(s), NEW f
    PROVE  StackFits(Append(s, f), S, root) <=> StackFits(s, S, root) /\ BeginsFor(f, s, S, root)
<1> DEFINE a == Append(s, f)
           n == Len(s)
<1>1. PICK U : s \in Seq(U)
  BY DEF IsSeq
<1>2. /\ IsSeq(a) /\ a # <<>> /\ Len(a) = n + 1 /\ a[n + 1] = f
      /\ \A i \in 1 .. n : a[i] = s[i]
  BY <1>1, AppendIs
<1>3. n \in Nat /\ DOMAIN s = 1 .. n /\ (s = <<>> <=> n = 0)
  BY <1>1, LenProperties, EmptySeq
<1> HIDE DEF a
<1>4. DOMAIN a = 1 .. n + 1
  BY <1>2 DEF IsSeq
<1> HIDE DEF n
<1>5. ASSUME StackFits(a, S, root) PROVE StackFits(s, S, root) /\ BeginsFor(f, s, S, root)
  <2>1. /\ \A i \in 1 .. n + 1 : FrameFits(a[i], S)
        /\ \A i \in 1 .. n + 1 : i > 1 => CalledBy(a[i], a[i - 1])
        /\ a[1].type = root
    BY <1>2, <1>4, <1>5 DEF StackFits
  <2>2. \A i \in 1 .. n : FrameFits(s[i], S)
    BY <1>2, <1>3, <2>1
  <2>3. ASSUME NEW i \in 1 .. n, i > 1 PROVE CalledBy(s[i], s[i - 1])
    <3>1. i \in 1 .. n + 1 /\ i - 1 \in 1 .. n /\ a[i] = s[i] /\ a[i - 1] = s[i - 1]
      BY <1>2, <1>3, <2>3
    <3>2. QED
      BY <2>1, <2>3, <3>1
  <2>4. s # <<>> => s[1].type = root
    BY <1>2, <1>3, <2>1
  <2>5. StackFits(s, S, root)
    BY <1>3, <2>2, <2>3, <2>4 DEF StackFits
  <2>6. FrameFits(f, S)
    BY <1>2, <1>3, <2>1
  <2>7. s = <<>> => f.type = root
    BY <1>2, <1>3, <2>1
  <2>8. s # <<>> => CalledBy(f, s[n])
    <3>1. SUFFICES ASSUME s # <<>> PROVE CalledBy(f, s[n])
      OBVIOUS
    <3>2. n + 1 \in 1 .. n + 1 /\ n + 1 > 1 /\ (n + 1) - 1 = n /\ n \in 1 .. n
      BY <1>3, <3>1
    <3>3. CalledBy(a[n + 1], a[(n + 1) - 1])
      BY <2>1, <3>2
    <3>4. QED
      BY <1>2, <3>2, <3>3
  <2>9. QED
    BY <2>5, <2>6, <2>7, <2>8 DEF BeginsFor, n
<1>6. ASSUME StackFits(s, S, root), BeginsFor(f, s, S, root) PROVE StackFits(a, S, root)
  <2>1. /\ \A i \in 1 .. n : FrameFits(s[i], S)
        /\ \A i \in 1 .. n : i > 1 => CalledBy(s[i], s[i - 1])
        /\ s # <<>> => s[1].type = root
    BY <1>3, <1>6 DEF StackFits
  <2>2. FrameFits(f, S) /\ (s = <<>> => f.type = root) /\ (s # <<>> => CalledBy(f, s[n]))
    BY <1>6 DEF BeginsFor, n
  <2>3. \A i \in 1 .. n + 1 : FrameFits(a[i], S)
    BY <1>2, <1>3, <2>1, <2>2
  <2>4. ASSUME NEW i \in 1 .. n + 1, i > 1 PROVE CalledBy(a[i], a[i - 1])
    <3>1. CASE i = n + 1
      <4>1. i - 1 = n /\ n \in 1 .. n /\ s # <<>>
        BY <1>3, <2>4, <3>1
      <4>2. QED
        BY <1>2, <2>2, <3>1, <4>1
    <3>2. CASE i # n + 1
      <4>1. i \in 1 .. n /\ i - 1 \in 1 .. n
        BY <1>3, <2>4, <3>2
      <4>2. QED
        BY <1>2, <2>1, <2>4, <4>1
    <3>3. QED
      BY <3>1, <3>2
  <2>5. a[1].type = root
    <3>1. CASE s = <<>>
      BY <1>2, <1>3, <2>2, <3>1
    <3>2. CASE s # <<>>
      <4>1. 1 \in 1 .. n
        BY <1>3, <3>2
      <4>2. QED
        BY <1>2, <2>1, <3>2, <4>1
    <3>3. QED
      BY <3>1, <3>2
  <2>6. QED
    BY <1>2, <1>4, <2>3, <2>4, <2>5 DEF StackFits
<1>7. QED
  BY <1>5, <1>6 DEF a

\* A stack that is not empty, by its innermost function.
LEMMA StackSplit ==
    ASSUME NEW S, NEW root, NEW s, StackFits(s, S, root), s # <<>>
    PROVE  /\ s = Append(Front(s), s[Len(s)]) /\ IsSeq(Front(s))
           /\ StackFits(Front(s), S, root)
           /\ BeginsFor(s[Len(s)], Front(s), S, root)
           /\ Reserved(s) = Reserved(Front(s)) + Room(s[Len(s)])
<1>1. PICK U : s \in Seq(U)
  BY DEF StackFits, IsSeq
<1>2. Front(s) \in Seq(U) /\ s = Append(Front(s), s[Len(s)])
  BY <1>1, SplitLast
<1> DEFINE t == Front(s)
           f == s[Len(s)]
<1>3. t \in Seq(U) /\ s = Append(t, f)
  BY <1>2
<1> HIDE DEF t, f
<1>4. IsSeq(t)
  BY <1>3 DEF IsSeq
<1>5. StackFits(t, S, root) /\ BeginsFor(f, t, S, root)
  BY <1>3, <1>4, StackAppend
<1>6. Reserved(s) = Reserved(t) + Room(f)
  BY <1>3, ReservedAppend
<1>7. QED
  BY <1>3, <1>4, <1>5, <1>6 DEF t, f

\* What is reserved is a number.
LEMMA ReservedIsNat ==
    ASSUME NEW S, NEW root, NEW s, StackFits(s, S, root)
    PROVE  Reserved(s) \in Nat
<1>1. PICK U : s \in Seq(U)
  BY DEF StackFits, IsSeq
<1>2. Len(s) \in Nat /\ DOMAIN s = 1 .. Len(s)
  BY <1>1, LenProperties
<1>3. \A i \in 1 .. Len(s) : Room(s[i]) \in Nat
  BY <1>2, RoomIs DEF StackFits
<1>4. Len(Rooms(s)) = Len(s) /\ \A i \in 1 .. Len(s) : Rooms(s)[i] \in Nat
  BY <1>1, <1>3, RoomsAre
<1>5. PICK g : SumsUpto(g, Rooms(s), Len(s)) /\ SumOf(Rooms(s)) = g[Len(s)]
  BY <1>2, <1>4, SumIs
<1>6. g[Len(s)] \in Nat
  BY <1>2, <1>4, <1>5, SumsRise
<1>7. QED
  BY <1>5, <1>6 DEF Reserved

\* The innermost function takes a result.
LEMMA GiveFits ==
    ASSUME NEW S, NEW root, NEW s, StackFits(s, S, root), s # <<>>,
           Wants(s[Len(s)]), NEW r, ResultFits(r, WantedBy(s[Len(s)]), S)
    PROVE  /\ StackFits(Give(s, r), S, root)
           /\ Give(s, r) # <<>>
           /\ Reserved(Give(s, r)) <= Reserved(s)
           /\ Reserved(s) \in Nat /\ Reserved(Give(s, r)) \in Nat
<1> DEFINE t == Front(s)
           f == s[Len(s)]
           g == Taken(f, r)
<1>1. /\ s = Append(t, f) /\ IsSeq(t) /\ StackFits(t, S, root)
      /\ BeginsFor(f, t, S, root) /\ Reserved(s) = Reserved(t) + Room(f)
  BY StackSplit
<1>2. PICK U : t \in Seq(U)
  BY <1>1 DEF IsSeq
<1>3. Give(s, r) = Append(t, g)
  <2>1. Give(s, r) = t \o <<g>>
    BY DEF Give, Front
  <2> HIDE DEF t, g
  <2>2. QED
    BY <1>2, <2>1
<1>4. FrameFits(f, S) /\ Wants(f) /\ ResultFits(r, WantedBy(f), S)
  BY <1>1 DEF BeginsFor
<1> HIDE DEF t, f
<1>5. TakenWell(g, f, S)
  BY <1>4, TakenFits
<1> HIDE DEF g
<1>6. FrameFits(g, S) /\ g.type = f.type /\ Room(g) \in Nat /\ Room(g) <= Room(f)
  BY <1>5 DEF TakenWell
<1>7. BeginsFor(g, t, S, root)
  BY <1>1, <1>6 DEF BeginsFor, CalledBy
<1>8. StackFits(Append(t, g), S, root)
  BY <1>1, <1>7, StackAppend
<1>9. Append(t, g) # <<>> /\ Reserved(Append(t, g)) = Reserved(t) + Room(g)
  BY <1>2, AppendIs, ReservedAppend
<1>10. Reserved(t) \in Nat /\ Room(f) \in Nat
  BY <1>1, <1>4, ReservedIsNat, RoomIs
<1>11. QED
  BY <1>1, <1>3, <1>6, <1>8, <1>9, <1>10

\* The innermost function calls another, about a value it wants.
LEMMA CallFits ==
    ASSUME NEW S, NEW root, NEW s, StackFits(s, S, root), s # <<>>,
           Wants(s[Len(s)]), NEW f, FrameFits(f, S), Carries(f.type, WantedBy(s[Len(s)]))
    PROVE  /\ StackFits(Append(s, f), S, root)
           /\ Append(s, f) # <<>>
           /\ Reserved(Append(s, f)) = Reserved(s) + Room(f)
           /\ Reserved(s) \in Nat /\ Room(f) \in Nat
<1>1. IsSeq(s)
  BY DEF StackFits
<1>2. PICK U : s \in Seq(U)
  BY <1>1 DEF IsSeq
<1>3. BeginsFor(f, s, S, root)
  BY DEF BeginsFor, CalledBy
<1>4. StackFits(Append(s, f), S, root)
  BY <1>1, <1>3, StackAppend
<1>5. Append(s, f) # <<>> /\ Reserved(Append(s, f)) = Reserved(s) + Room(f)
  BY <1>2, AppendIs, ReservedAppend
<1>6. Reserved(s) \in Nat /\ Room(f) \in Nat
  BY ReservedIsNat, RoomIs
<1>7. QED
  BY <1>4, <1>5, <1>6

\* Frames fit a larger set.
LEMMA StackFitsMore ==
    ASSUME NEW S, NEW root, NEW s, StackFits(s, S, root), NEW R, S \subseteq R
    PROVE  StackFits(s, R, root)
<1>1. \A f : FrameFits(f, S) => FrameFits(f, R)
  BY DEF FrameFits, AllIn
<1>2. QED
  BY <1>1 DEF StackFits

-----------------------------------------------------------------------------
(***************************************************************************)
(* What a function returns.                                                *)
(***************************************************************************)
\* The frame of a function that has read all there is.
Complete(f) ==
    CASE f.type.kind = "struct" -> RequiredNames(f.type) \subseteq DOMAIN f.got
      [] f.type.kind = "union" -> f.known = 1
      [] OTHER -> f.left = 0

\* A function that returns has a sound value.
LEMMA CompleteIsSound ==
    ASSUME NEW S, NEW f, FrameFits(f, S), Complete(f)
    PROVE  Sound(f.type, f.got)
<1>1. f.type.kind \in {"list", "map", "struct", "union"}
  BY TypeIs DEF FrameFits
<1>2. CASE f.type.kind = "list"
  <2>1. f.left = 0 /\ f.left + Len(f.got) <= MaxCollectionSize
    BY <1>2 DEF FrameFits, ListFits, Complete
  <2>2. Len(f.got) \in Nat
    BY <1>2, RoomIs
  <2>3. QED
    BY <1>2, <2>1, <2>2 DEF Sound
<1>3. CASE f.type.kind = "map"
  <2>1. f.left = 0 /\ f.left + Cardinality(DOMAIN f.got) <= MaxCollectionSize
    BY <1>3 DEF FrameFits, MapFits, Complete
  <2>2. Cardinality(DOMAIN f.got) \in Nat
    BY <1>3, RoomIs
  <2>3. QED
    BY <1>3, <2>1, <2>2 DEF Sound
<1>4. CASE f.type.kind = "struct"
  BY <1>4 DEF Sound, Complete, FrameFits, FieldsFit, HasFields
<1>5. CASE f.type.kind = "union"
  <2>1. f.known = 1
    BY <1>5 DEF Complete
  <2>2. \E g \in FieldsOf(f.type) : DOMAIN f.got = {g.name}
    BY <1>5, <2>1 DEF FrameFits, FieldsFit, HasFields
  <2>3. QED
    BY <1>5, <2>2 DEF Sound
<1>6. QED
  BY <1>1, <1>2, <1>3, <1>4, <1>5

\* As the caller wants it, too.
LEMMA CarriedIsSound ==
    ASSUME NEW S, NEW f, FrameFits(f, S), Complete(f), NEW wanted, Carries(f.type, wanted)
    PROVE  Sound(wanted, f.got) /\ AllIn(Parts(wanted, f.got), S)
<1>1. Sound(f.type, f.got) /\ AllIn(Parts(f.type, f.got), S)
  BY CompleteIsSound DEF FrameFits
<1>2. CASE f.type = wanted
  BY <1>1, <1>2
<1>3. CASE \/ wanted = SkipType("list") /\ \E w : f.type = ListOf(SkipType(w))
           \/ wanted = SkipType("map") /\ \E k, w : f.type = MapOf(SkipType(k), SkipType(w))
  <2>1. /\ wanted.kind = f.type.kind /\ wanted.kind \in {"list", "map"}
        /\ wanted.of = Anything
    <3>1. CASE wanted = SkipType("list") /\ \E w : f.type = ListOf(SkipType(w))
      <4>1. wanted = ListOf(Anything)
        BY <3>1 DEF SkipType
      <4>2. QED
        BY <3>1, <4>1 DEF ListOf
    <3>2. CASE wanted = SkipType("map") /\ \E k, w : f.type = MapOf(SkipType(k), SkipType(w))
      <4>1. wanted = MapOf(Anything, Anything)
        BY <3>2 DEF SkipType
      <4>2. QED
        BY <3>2, <4>1 DEF MapOf
    <3>3. QED
      BY <1>3, <3>1, <3>2
  <2>2. Sound(wanted, f.got)
    BY <1>1, <2>1 DEF Sound
  <2>3. Parts(wanted, f.got) = {<<Anything, f.got[i]>> : i \in DOMAIN f.got}
    BY <2>1, PartsAre DEF ElementValues
  <2>4. AllIn(Parts(wanted, f.got), S)
    BY <2>3, AnythingIs DEF AllIn
  <2>5. QED
    BY <2>2, <2>4
<1>4. QED
  BY <1>2, <1>3 DEF Carries

\* Its value joins a closed set.
LEMMA ClosedGrows ==
    ASSUME NEW S, Closed(S), NEW t, NEW v, Sound(t, v), AllIn(Parts(t, v), S)
    PROVE  Closed(S \cup {<<t, v>>}) /\ <<t, v>> \in S \cup {<<t, v>>}
<1>1. <<t, v>>[1] = t /\ <<t, v>>[2] = v
  OBVIOUS
<1>2. \A parts : AllIn(parts, S) => AllIn(parts, S \cup {<<t, v>>})
  BY DEF AllIn
<1>3. QED
  BY <1>1, <1>2 DEF Closed

-----------------------------------------------------------------------------
(***************************************************************************)
(* Every step keeps the invariant.                                         *)
(***************************************************************************)
\* What a step does not reserve stays within what was reserved.
Keeps(R) ==
    /\ Closed(R) /\ StackFits(stack', R, Pass(pass').type) /\ EndFits(R)'
    /\ pass' = pass
    /\ Reserved(stack') <= Reserved(stack)

\* A pass begins with a function that fits.
LEMMA InitFits == Init => IInv
<1> SUFFICES ASSUME Init PROVE IInv
  OBVIOUS
<1> DEFINE t == Pass(pass).type
           f == StructFrame(t)
<1>1. pass \in Passes /\ stack = <<f>> /\ total = 0 /\ end = Reading
  BY DEF Init
<1>2. t \in Types /\ HasFields(t)
  BY <1>1, TypesAssumption
<1>3. /\ f.type = t /\ f.known = 0 /\ f.got = <<>> /\ IsFrame(f)
  BY DEF StructFrame, IsFrame
<1> HIDE DEF t, f
<1>4. DOMAIN f.got = {}
  BY <1>3
<1>5. FrameFits(f, {})
  <2>1. Parts(t, f.got) = {}
    BY <1>2, <1>4, PartsAre DEF FieldValues
  <2>2. FieldsFit(f) /\ ListFits(f) /\ MapFits(f)
    BY <1>2, <1>3, <1>4 DEF FieldsFit, ListFits, MapFits, HasFields
  <2>3. QED
    BY <1>2, <1>3, <2>1, <2>2 DEF FrameFits, TypeFits, HasFields, AllIn
<1>6. <<>> \in Seq({})
  OBVIOUS
<1>7. stack = Append(<<>>, f)
  BY <1>1, <1>6
<1>8. StackFits(<<>>, {}, t)
  BY <1>6 DEF StackFits, IsSeq
<1>9. BeginsFor(f, <<>>, {}, t)
  BY <1>3, <1>5 DEF BeginsFor
<1>10. IsSeq(<<>>)
  BY <1>6 DEF IsSeq
<1>11. StackFits(stack, {}, t)
  BY <1>7, <1>8, <1>9, <1>10, StackAppend
<1>12. Reserved(stack) = Reserved(<<>>) + Room(f) /\ stack # <<>>
  BY <1>6, <1>7, ReservedAppend, AppendIs
<1>13. Room(f) = 0
  BY <1>2, <1>3 DEF Room, OfFields
<1>14. Reserved(stack) = 0
  BY <1>12, <1>13, ReservedEmpty
<1>15. Closed({})
  BY DEF Closed
<1>16. EndFits({})
  BY <1>1, <1>12 DEF EndFits
<1>17. QED
  BY <1>1, <1>11, <1>14, <1>15, <1>16, CapsAssumption DEF IInv, t

\* The pass fails.
LEMMA FailKeeps ==
    ASSUME IInv, Finish(Failed), UNCHANGED total
    PROVE  IInv'
<1>1. PICK S : Closed(S) /\ StackFits(stack, S, Pass(pass).type)
  BY DEF IInv
<1>2. stack' = <<>> /\ end' = Failed /\ pass' = pass /\ total' = total
  BY DEF Finish
<1>3. StackFits(<<>>, S, Pass(pass).type)
  <2>1. <<>> \in Seq({})
    OBVIOUS
  <2>2. QED
    BY <2>1 DEF StackFits, IsSeq
<1>4. EndFits(S)'
  BY <1>2 DEF EndFits
<1>5. QED
  BY <1>1, <1>2, <1>3, <1>4, ReservedEmpty DEF IInv

\* A value or none is returned: to the caller, or as the result of the pass.
LEMMA ReturnKeeps ==
    ASSUME NEW S, Closed(S), StackFits(stack, S, Pass(pass).type), stack # <<>>,
           end = Reading, NEW r, Return(r),
           \/ r = <<Top.got>> /\ Complete(Top)
           \/ r = UnknownVariant /\ Top.type.kind = "union"
    PROVE  \E R : Keeps(R)
<1> DEFINE root == Pass(pass).type
           s == Front(stack)
<1>1. /\ stack = Append(s, Top) /\ IsSeq(s) /\ StackFits(s, S, root)
      /\ BeginsFor(Top, s, S, root) /\ Reserved(stack) = Reserved(s) + Room(Top)
  BY StackSplit DEF Top
<1>2. FrameFits(Top, S)
  BY <1>1 DEF BeginsFor
<1>3. PICK U : s \in Seq(U)
  BY <1>1 DEF IsSeq
<1>4. Len(stack) = Len(s) + 1 /\ Len(s) \in Nat /\ (s = <<>> <=> Len(s) = 0)
  BY <1>1, <1>3, AppendIs, LenProperties, EmptySeq
<1>5. Reserved(s) \in Nat /\ Room(Top) \in Nat
  BY <1>1, <1>2, ReservedIsNat, RoomIs
<1>6. Below = s
  BY DEF Below, Front
<1> HIDE DEF s, root
<1>7. CASE Len(stack) > 1
  <2> DEFINE caller == s[Len(s)]
             wanted == WantedBy(caller)
  <2>1. s # <<>> /\ Wants(caller) /\ Carries(Top.type, wanted)
    BY <1>1, <1>4, <1>7 DEF BeginsFor, CalledBy
  <2>2. stack' = Give(s, r) /\ pass' = pass /\ end' = end
    BY <1>6, <1>7 DEF Return, Continue
  <2> HIDE DEF wanted
  <2>3. \E R : Closed(R) /\ S \subseteq R /\ ResultFits(r, wanted, R)
    <3>1. CASE r = <<Top.got>> /\ Complete(Top)
      <4>1. Sound(wanted, Top.got) /\ AllIn(Parts(wanted, Top.got), S)
        BY <1>2, <2>1, <3>1, CarriedIsSound
      <4>2. Closed(S \cup {<<wanted, Top.got>>})
        BY <4>1, ClosedGrows
      <4>3. ResultFits(r, wanted, S \cup {<<wanted, Top.got>>})
        BY <3>1 DEF ResultFits
      <4>4. QED
        BY <4>2, <4>3
    <3>2. CASE r = UnknownVariant /\ Top.type.kind = "union"
      <4>1. Top.type = wanted
        <5>1. \A k, t : ListOf(t).kind = "list" /\ MapOf(k, t).kind = "map"
          BY DEF ListOf, MapOf
        <5>2. QED
          BY <2>1, <3>2, <5>1 DEF Carries
      <4>2. ResultFits(r, wanted, S)
        BY <3>2, <4>1 DEF ResultFits
      <4>3. QED
        BY <4>2
    <3>3. QED
      BY <3>1, <3>2
  <2>4. PICK R : Closed(R) /\ S \subseteq R /\ ResultFits(r, wanted, R)
    BY <2>3
  <2>5. StackFits(s, R, root)
    BY <1>1, <2>4, StackFitsMore
  <2>6. /\ StackFits(Give(s, r), R, root) /\ Give(s, r) # <<>>
        /\ Reserved(Give(s, r)) <= Reserved(s) /\ Reserved(Give(s, r)) \in Nat
    BY <2>1, <2>4, <2>5, GiveFits DEF wanted
  <2>7. EndFits(R)'
    BY <2>2, <2>6 DEF EndFits
  <2>8. Reserved(stack') <= Reserved(stack)
    BY <1>1, <1>5, <2>2, <2>6
  <2>9. Keeps(R)
    BY <2>2, <2>4, <2>6, <2>7, <2>8 DEF Keeps, root
  <2>10. QED
    BY <2>9
<1>8. CASE ~(Len(stack) > 1)
  <2>1. s = <<>> /\ Top.type = root
    BY <1>1, <1>4, <1>8 DEF BeginsFor
  <2>2. Finish(IF r = UnknownVariant THEN Failed ELSE Returned(r[1]))
    BY <1>8 DEF Return
  <2>3. stack' = <<>> /\ pass' = pass
    BY <2>2 DEF Finish
  <2>4. \A R : StackFits(stack', R, root)
    <3>1. <<>> \in Seq({})
      OBVIOUS
    <3>2. QED
      BY <2>3, <3>1 DEF StackFits, IsSeq
  <2>5. Reserved(stack') <= Reserved(stack)
    BY <1>1, <1>5, <2>3, ReservedEmpty
  <2>6. CASE r = UnknownVariant
    <3>1. EndFits(S)'
      BY <2>2, <2>6 DEF Finish, EndFits
    <3>2. Keeps(S)
      BY <2>3, <2>4, <2>5, <3>1 DEF Keeps, root
    <3>3. QED
      BY <3>2
  <2>7. CASE r # UnknownVariant
    <3>1. r = <<Top.got>> /\ Complete(Top)
      BY <2>7
    <3>2. end' = Returned(Top.got)
      BY <2>2, <2>7, <3>1, ResultIs DEF Finish
    <3>3. Sound(root, Top.got) /\ AllIn(Parts(root, Top.got), S)
      BY <1>2, <2>1, <3>1, CompleteIsSound DEF FrameFits
    <3>4. PICK R : Closed(R) /\ <<root, Top.got>> \in R
      BY <3>3, ClosedGrows
    <3>5. EndFits(R)'
      BY <2>3, <3>2, <3>4 DEF EndFits, root
    <3>6. Keeps(R)
      BY <2>3, <2>4, <2>5, <3>4, <3>5 DEF Keeps, root
    <3>7. QED
      BY <3>6
  <2>8. QED
    BY <2>6, <2>7
<1>9. QED
  BY <1>7, <1>8

\* A step that keeps to the closed set and to the total keeps the invariant.
LEMMA KeptIsFine ==
    ASSUME IInv, UNCHANGED total, \E R : Keeps(R)
    PROVE  IInv'
<1>1. PICK R : Keeps(R)
  OBVIOUS
<1>2. Reserved(stack') \in Nat
  BY <1>1, ReservedIsNat DEF Keeps
<1>3. PICK S : StackFits(stack, S, Pass(pass).type)
  BY DEF IInv
<1>4. Reserved(stack) \in Nat
  BY <1>3, ReservedIsNat
<1>5. Reserved(stack') <= total' /\ total' \in Nat /\ total' <= MaxTotalElements
  BY <1>1, <1>2, <1>4 DEF Keeps, IInv
<1>6. QED
  BY <1>1, <1>5 DEF IInv, Keeps

-----------------------------------------------------------------------------
(***************************************************************************)
(* The steps, one lemma for each.                                          *)
(***************************************************************************)
\* A pass under way.
Under(S) ==
    /\ Closed(S) /\ StackFits(stack, S, Pass(pass).type) /\ stack # <<>>
    /\ end = Reading

\* In a pass under way the stack fits, and its top is for a type that fits.
LEMMA UnderWay ==
    ASSUME IInv, end = Reading
    PROVE  \E S : Under(S)
<1>1. PICK S : Closed(S) /\ StackFits(stack, S, Pass(pass).type) /\ EndFits(S)
  BY DEF IInv
<1>2. Reading # Failed /\ \A v : Reading # Returned(v)
  <2>1. Reading.is = "reading" /\ Failed.is = "failed"
    BY DEF Reading, Failed
  <2>2. \A v : Returned(v).is = "returned"
    BY DEF Returned
  <2>3. QED
    BY <2>1, <2>2
<1>3. stack # <<>>
  BY <1>1, <1>2 DEF EndFits
<1>4. Under(S)
  BY <1>1, <1>3 DEF Under
<1>5. QED
  BY <1>4

LEMMA TopFits ==
    ASSUME NEW S, Under(S)
    PROVE  /\ FrameFits(Top, S) /\ IsFrame(Top)
           /\ TypeFits(Top.type) /\ Top.type.kind # "scalar"
           /\ TypeFits(Wanted)
<1>1. FrameFits(Top, S)
  BY StackSplit DEF Under, BeginsFor, Top
<1>2. IsFrame(Top) /\ TypeFits(Top.type) /\ Top.type.kind # "scalar"
  BY <1>1 DEF FrameFits
<1>3. QED
  BY <1>1, <1>2, WantedFits DEF Wanted

\* The innermost function is replaced by itself, a field further.
LEMMA ReadFieldKeeps ==
    ASSUME NEW S, Under(S), ReadField
    PROVE  Keeps(S)
<1> DEFINE root == Pass(pass).type
           s == Front(stack)
<1>1. PICK tok : Continue(Below \o <<[Top EXCEPT !.field = tok]>>)
  BY DEF ReadField
<1> DEFINE g == [Top EXCEPT !.field = tok]
<1>2. /\ IsFrame(g) /\ g.type = Top.type /\ g.left = Top.left
      /\ g.got = Top.got /\ g.known = Top.known
  BY TopFits, FrameWithField
<1>3. stack' = Below \o <<g>> /\ pass' = pass /\ end' = end
  BY <1>1 DEF Continue
<1> HIDE DEF g
<1>4. FrameFits(g, S)
  BY <1>2, TopFits DEF FrameFits, FieldsFit, ListFits, MapFits
<1>5. Room(g) = Room(Top)
  BY <1>2 DEF Room, OfFields
<1>6. /\ IsSeq(s) /\ StackFits(s, S, root) /\ BeginsFor(Top, s, S, root)
      /\ Reserved(stack) = Reserved(s) + Room(Top)
  BY StackSplit DEF Under, Top
<1>7. Below = s
  BY DEF Below, Front
<1> HIDE DEF s, root
<1>8. PICK U : s \in Seq(U)
  BY <1>6 DEF IsSeq
<1>9. stack' = Append(s, g)
  BY <1>3, <1>7, <1>8
<1>10. BeginsFor(g, s, S, root)
  BY <1>2, <1>4, <1>6 DEF BeginsFor, CalledBy
<1>11. StackFits(stack', S, root)
  BY <1>6, <1>9, <1>10, StackAppend
<1>12. stack' # <<>> /\ Reserved(stack') = Reserved(s) + Room(g)
  BY <1>8, <1>9, AppendIs, ReservedAppend
<1>13. Reserved(s) \in Nat /\ Room(Top) \in Nat
  BY <1>6, TopFits, ReservedIsNat, RoomIs
<1>14. Reserved(stack') <= Reserved(stack)
  BY <1>5, <1>6, <1>12, <1>13
<1>15. EndFits(S)'
  BY <1>3, <1>12 DEF EndFits, Under
<1>16. QED
  BY <1>3, <1>11, <1>14, <1>15 DEF Keeps, Under, root

\* The end of a struct, of a union or of a container returns a sound value.
LEMMA EndStructKeeps ==
    ASSUME IInv, EndStruct
    PROVE  IInv'
<1>1. PICK S : Under(S)
  BY UnderWay DEF EndStruct
<1>2. CASE RequiredNames(Top.type) \subseteq DOMAIN Top.got
  <2>1. Return(<<Top.got>>) /\ Top.type.kind = "struct" /\ UNCHANGED total
    BY <1>2 DEF EndStruct
  <2>2. Complete(Top)
    BY <1>2, <2>1 DEF Complete
  <2>3. \E R : Keeps(R)
    BY <1>1, <2>1, <2>2, ReturnKeeps DEF Under
  <2>4. QED
    BY <2>1, <2>3, KeptIsFine
<1>3. CASE ~(RequiredNames(Top.type) \subseteq DOMAIN Top.got)
  <2>1. Finish(Failed) /\ UNCHANGED total
    BY <1>3 DEF EndStruct
  <2>2. QED
    BY <2>1, FailKeeps
<1>4. QED
  BY <1>2, <1>3

LEMMA EndUnionKeeps ==
    ASSUME IInv, EndUnion
    PROVE  IInv'
<1>1. PICK S : Under(S)
  BY UnderWay DEF EndUnion
<1>2. CASE Top.all = 0 \/ Top.known > 1
  <2>1. Finish(Failed) /\ UNCHANGED total
    BY <1>2 DEF EndUnion
  <2>2. QED
    BY <2>1, FailKeeps
<1>3. CASE ~(Top.all = 0 \/ Top.known > 1)
  <2>1. /\ Top.type.kind = "union" /\ UNCHANGED total
        /\ Return(IF Top.known = 0 THEN UnknownVariant ELSE <<Top.got>>)
    BY <1>3 DEF EndUnion
  <2>2. Top.known \in Nat
    BY <1>1, <2>1, TopFits DEF FrameFits, FieldsFit, HasFields
  <2>3. CASE Top.known = 0
    <3>1. Return(UnknownVariant)
      BY <2>1, <2>3
    <3>2. \E R : Keeps(R)
      BY <1>1, <2>1, <3>1, ReturnKeeps DEF Under
    <3>3. QED
      BY <2>1, <3>2, KeptIsFine
  <2>4. CASE Top.known # 0
    <3>1. Return(<<Top.got>>)
      BY <2>1, <2>4
    <3>2. Complete(Top)
      BY <1>3, <2>1, <2>2, <2>4 DEF Complete
    <3>3. \E R : Keeps(R)
      BY <1>1, <3>1, <3>2, ReturnKeeps DEF Under
    <3>4. QED
      BY <2>1, <3>3, KeptIsFine
  <2>5. QED
    BY <2>3, <2>4
<1>4. QED
  BY <1>2, <1>3

LEMMA EndContainerKeeps ==
    ASSUME IInv, EndContainer
    PROVE  IInv'
<1>1. PICK S : Under(S)
  BY UnderWay DEF EndContainer
<1>2. Return(<<Top.got>>) /\ Top.left = 0 /\ ~OfFields(Top) /\ UNCHANGED total
  BY DEF EndContainer
<1>3. Complete(Top)
  BY <1>2 DEF Complete, OfFields, HasFields
<1>4. \E R : Keeps(R)
  BY <1>1, <1>2, <1>3, ReturnKeeps DEF Under
<1>5. QED
  BY <1>2, <1>4, KeptIsFine

\* A value of one piece is given to the function that called for it.
LEMMA ReadScalarKeeps ==
    ASSUME NEW S, Under(S), ReadScalar
    PROVE  Keeps(S)
<1>1. PICK tok : Continue(Give(stack, <<tok.value>>))
  BY DEF ReadScalar
<1> DEFINE r == <<tok.value>>
           root == Pass(pass).type
<1>2. stack' = Give(stack, r) /\ pass' = pass /\ end' = end
  BY <1>1 DEF Continue
<1>3. Wants(stack[Len(stack)]) /\ WantedBy(stack[Len(stack)]).kind = "scalar"
  BY DEF ReadScalar, WantsValue, Wanted, Top
<1>4. ResultFits(r, WantedBy(stack[Len(stack)]), S)
  BY <1>3 DEF ResultFits
<1> HIDE DEF r
<1>5. /\ StackFits(Give(stack, r), S, root) /\ Give(stack, r) # <<>>
      /\ Reserved(Give(stack, r)) <= Reserved(stack)
  BY <1>3, <1>4, GiveFits DEF Under
<1>6. EndFits(S)'
  BY <1>2, <1>5 DEF EndFits, Under
<1>7. QED
  BY <1>2, <1>5, <1>6 DEF Keeps, Under

\* A function that begins has got nothing.
LEMMA StructFrameFits ==
    ASSUME NEW t, TypeFits(t), HasFields(t)
    PROVE  LET f == StructFrame(t)
           IN  f.type = t /\ Room(f) = 0 /\ \A S : FrameFits(f, S)
<1> DEFINE f == StructFrame(t)
<1>1. f.type = t /\ f.known = 0 /\ f.got = <<>> /\ IsFrame(f)
  BY DEF StructFrame, IsFrame
<1> HIDE DEF f
<1>2. DOMAIN f.got = {}
  BY <1>1
<1>3. Parts(t, f.got) = {}
  BY <1>2, PartsAre DEF FieldValues
<1>4. FieldsFit(f) /\ ListFits(f) /\ MapFits(f)
  BY <1>1, <1>2 DEF FieldsFit, ListFits, MapFits, HasFields
<1>5. \A S : FrameFits(f, S)
  BY <1>1, <1>3, <1>4 DEF FrameFits, HasFields, AllIn
<1>6. Room(f) = 0
  BY <1>1 DEF Room, OfFields
<1>7. QED
  BY <1>1, <1>5, <1>6 DEF f

\* A container that begins has nothing yet, and room for what was announced.
LEMMA ContainerFrameFits ==
    ASSUME NEW t, TypeFits(t), t.kind \in {"list", "map"},
           NEW n \in 0 .. MaxCollectionSize
    PROVE  LET f == ContainerFrame(t, n)
           IN  f.type = t /\ Room(f) = n /\ \A S : FrameFits(f, S)
<1> DEFINE f == ContainerFrame(t, n)
<1>1. f.type = t /\ f.left = n /\ f.got = <<>> /\ IsFrame(f)
  BY DEF ContainerFrame, StructFrame, IsFrame
<1> HIDE DEF f
<1>2. n \in Nat /\ n <= MaxCollectionSize
  BY CapsAssumption
<1>3. DOMAIN f.got = {} /\ Len(f.got) = 0 /\ f.got \in Seq({})
  BY <1>1
<1>4. IsFiniteSet({}) /\ Cardinality({}) = 0
  BY FS_EmptySet
<1>5. Parts(t, f.got) = {}
  BY <1>3, PartsAre DEF ElementValues
<1>6. ~HasFields(t)
  BY DEF HasFields
<1>7. ListFits(f) /\ MapFits(f)
  BY <1>1, <1>2, <1>3, <1>4 DEF ListFits, MapFits, IsSeq
<1>8. \A S : FrameFits(f, S)
  BY <1>1, <1>5, <1>6, <1>7 DEF FrameFits, FieldsFit, AllIn
<1>9. Room(f) = n
  BY <1>1, <1>2, <1>3, <1>4, <1>6 DEF Room, OfFields
<1>10. QED
  BY <1>1, <1>8, <1>9 DEF f

\* A skipped container takes the types it announces, another keeps its own.
LEMMA OfWireIs ==
    ASSUME NEW t, TypeFits(t), t.kind \in {"list", "map"}, NEW tok
    PROVE  LET u == OfWire(t, tok)
           IN  TypeFits(u) /\ u.kind = t.kind /\ Carries(u, t)
<1>1. SkipType("list") = ListOf(Anything) /\ SkipType("map") = MapOf(Anything, Anything)
  BY DEF SkipType
<1>2. \A k, u : ListOf(u).kind = "list" /\ MapOf(k, u).kind = "map"
  BY DEF ListOf, MapOf
<1>3. CASE t = SkipType("list")
  <2>1. OfWire(t, tok) = ListOf(SkipType(tok.of))
    BY <1>1, <1>2, <1>3 DEF OfWire
  <2>2. QED
    BY <1>1, <1>2, <1>3, <2>1 DEF TypeFits, Skippable, Carries
<1>4. CASE t = SkipType("map")
  <2>1. OfWire(t, tok) = MapOf(SkipType(tok.key), SkipType(tok.of))
    BY <1>1, <1>2, <1>4 DEF OfWire
  <2>2. QED
    BY <1>1, <1>2, <1>4, <2>1 DEF TypeFits, Skippable, Carries
<1>5. CASE t # SkipType("list") /\ t # SkipType("map")
  BY <1>5 DEF OfWire, Carries
<1>6. QED
  BY <1>3, <1>4, <1>5

\* A struct or union that begins is for what the top of the stack called for.
LEMMA BeginStructKeeps ==
    ASSUME IInv, BeginStruct
    PROVE  IInv'
<1>1. PICK S : Under(S)
  BY UnderWay DEF BeginStruct
<1> DEFINE root == Pass(pass).type
           f == StructFrame(Wanted)
           last == stack[Len(stack)]
<1>2. /\ stack' = Append(stack, f) /\ pass' = pass /\ end' = end /\ UNCHANGED total
      /\ HasFields(Wanted)
  BY DEF BeginStruct, Continue, HasFields
<1>3. f.type = Wanted /\ Room(f) = 0 /\ FrameFits(f, S)
  BY <1>1, <1>2, TopFits, StructFrameFits
<1>4. Wants(last) /\ WantedBy(last) = Wanted
  BY DEF BeginStruct, WantsValue, Wanted, Top
<1> HIDE DEF f, last
<1>5. Carries(f.type, WantedBy(last))
  BY <1>3, <1>4 DEF Carries
<1>6. /\ StackFits(Append(stack, f), S, root) /\ Append(stack, f) # <<>>
      /\ Reserved(Append(stack, f)) = Reserved(stack) + Room(f)
      /\ Reserved(stack) \in Nat
  BY <1>1, <1>3, <1>4, <1>5, CallFits DEF Under, last
<1>7. Reserved(stack') <= Reserved(stack)
  BY <1>2, <1>3, <1>6
<1>8. EndFits(S)'
  BY <1>1, <1>2, <1>6 DEF EndFits, Under
<1>9. Keeps(S)
  BY <1>1, <1>2, <1>6, <1>7, <1>8 DEF Keeps, Under
<1>10. QED
  BY <1>2, <1>9, KeptIsFine

\* Only this step reserves room, and it counts it.
LEMMA BeginContainerKeeps ==
    ASSUME IInv, BeginContainer
    PROVE  IInv'
<1>1. PICK S : Under(S)
  BY UnderWay DEF BeginContainer
<1>2. PICK tok :
         IF WithinCaps(tok.size)
         THEN /\ total' = total + tok.size
              /\ Continue(Append(stack, ContainerFrame(OfWire(Wanted, tok), tok.size)))
         ELSE /\ UNCHANGED total
              /\ Finish(Failed)
  BY DEF BeginContainer
<1>3. CASE ~WithinCaps(tok.size)
  BY <1>2, <1>3, FailKeeps
<1>4. CASE WithinCaps(tok.size)
  <2> DEFINE root == Pass(pass).type
             n == tok.size
             t == OfWire(Wanted, tok)
             f == ContainerFrame(t, n)
             last == stack[Len(stack)]
  <2>1. /\ stack' = Append(stack, f) /\ pass' = pass /\ end' = end
        /\ total' = total + n
    BY <1>2, <1>4 DEF Continue
  <2>2. n \in 0 .. MaxCollectionSize /\ n \in Nat /\ total + n <= MaxTotalElements
    BY <1>4, CapsAssumption DEF WithinCaps
  <2>3. TypeFits(t) /\ t.kind \in {"list", "map"} /\ Carries(t, Wanted)
    BY <1>1, TopFits, OfWireIs DEF BeginContainer
  <2> HIDE DEF t, n
  <2>4. f.type = t /\ Room(f) = n /\ FrameFits(f, S)
    BY <2>2, <2>3, ContainerFrameFits
  <2>5. Wants(last) /\ WantedBy(last) = Wanted
    BY DEF BeginContainer, WantsValue, Wanted, Top
  <2> HIDE DEF f, last
  <2>6. Carries(f.type, WantedBy(last))
    BY <2>3, <2>4, <2>5
  <2>7. /\ StackFits(Append(stack, f), S, root) /\ Append(stack, f) # <<>>
        /\ Reserved(Append(stack, f)) = Reserved(stack) + Room(f)
        /\ Reserved(stack) \in Nat
    BY <1>1, <2>4, <2>5, <2>6, CallFits DEF Under, last
  <2>8. EndFits(S)'
    BY <1>1, <2>1, <2>7 DEF EndFits, Under
  <2>9. total' \in Nat /\ Reserved(stack') <= total' /\ total' <= MaxTotalElements
    BY <2>1, <2>2, <2>4, <2>7 DEF IInv
  <2>10. Closed(S) /\ StackFits(stack', S, Pass(pass').type) /\ EndFits(S)'
    BY <1>1, <2>1, <2>7, <2>8 DEF Under
  <2>11. QED
    BY <2>1, <2>9, <2>10 DEF IInv
<1>5. QED
  BY <1>3, <1>4

\* A step that changes nothing keeps the invariant, hence every step does.
LEMMA StutterKeeps ==
    ASSUME IInv, UNCHANGED vars
    PROVE  IInv'
<1>1. PICK S : Closed(S) /\ StackFits(stack, S, Pass(pass).type) /\ EndFits(S)
  BY DEF IInv
<1>2. stack' = stack /\ pass' = pass /\ total' = total /\ end' = end
  BY DEF vars
<1>3. EndFits(S)'
  BY <1>1, <1>2 DEF EndFits
<1>4. QED
  BY <1>1, <1>2, <1>3 DEF IInv

LEMMA StepKeeps == IInv /\ [Next]_vars => IInv'
<1> SUFFICES ASSUME IInv, [Next]_vars PROVE IInv'
  OBVIOUS
<1>1. CASE ReadField
  <2>1. PICK S : Under(S)
    BY <1>1, UnderWay DEF ReadField
  <2>2. Keeps(S) /\ UNCHANGED total
    BY <1>1, <2>1, ReadFieldKeeps DEF ReadField
  <2>3. QED
    BY <2>2, KeptIsFine
<1>2. CASE EndStruct
  BY <1>2, EndStructKeeps
<1>3. CASE EndUnion
  BY <1>3, EndUnionKeeps
<1>4. CASE ReadScalar
  <2>1. PICK S : Under(S)
    BY <1>4, UnderWay DEF ReadScalar
  <2>2. Keeps(S) /\ UNCHANGED total
    BY <1>4, <2>1, ReadScalarKeeps DEF ReadScalar
  <2>3. QED
    BY <2>2, KeptIsFine
<1>5. CASE BeginStruct
  BY <1>5, BeginStructKeeps
<1>6. CASE BeginContainer
  BY <1>6, BeginContainerKeeps
<1>7. CASE EndContainer
  BY <1>7, EndContainerKeeps
<1>8. CASE OutOfBytes
  BY <1>8, FailKeeps DEF OutOfBytes
<1>9. CASE UNCHANGED vars
  BY <1>9, StutterKeeps
<1>10. QED
  BY <1>1, <1>2, <1>3, <1>4, <1>5, <1>6, <1>7, <1>8, <1>9 DEF Next, Read, Done

-----------------------------------------------------------------------------
(***************************************************************************)
(* The invariant holds of every pass: the frames of read_from_in_protocol  *)
(* hold what the types they are about allow, each is there for the value   *)
(* the one below it wants, and the room they reserve has been counted.     *)
(***************************************************************************)
THEOREM PassInvariant == Spec => []IInv
<1>1. QED
  BY InitFits, StepKeeps, PTL DEF Spec

(***************************************************************************)
(* What a pass returns is well formed, at any depth, whatever the schema,  *)
(* the bytes and the limits: a union has one variant of its type, the      *)
(* required fields are there, and no list or map is beyond the limit       *)
(* (read_from_in_protocol of the generated types, over safe_protocol.rs).  *)
(***************************************************************************)
THEOREM ReturnsAreWellFormed == Spec => []ReturnsWellFormed
<1>1. IInv => ReturnsWellFormed
  <2> SUFFICES ASSUME IInv, end.is = "returned"
               PROVE  WellFormed(Pass(pass).type, end.value)
    BY DEF ReturnsWellFormed
  <2>1. PICK S : Closed(S) /\ EndFits(S)
    BY DEF IInv
  <2>2. end # Reading /\ end # Failed
    BY DEF Reading, Failed
  <2>3. PICK v : end = Returned(v) /\ <<Pass(pass).type, v>> \in S
    BY <2>1, <2>2 DEF EndFits
  <2>4. end.value = v
    BY <2>3 DEF Returned
  <2>5. QED
    BY <2>1, <2>3, <2>4, ClosedIsWellFormed
<1>2. QED
  BY <1>1, PassInvariant, PTL

(***************************************************************************)
(* Whatever sizes the bytes announce, the room reserved for the elements   *)
(* of all the containers being read is within what check_collection_size   *)
(* has counted, and that within the limit on the total.                    *)
(***************************************************************************)
THEOREM ReservesAreBounded == Spec => []ReservesWithinTotal
<1>1. IInv => ReservesWithinTotal
  BY DEF IInv, ReservesWithinTotal
<1>2. QED
  BY <1>1, PassInvariant, PTL

-----------------------------------------------------------------------------
(***************************************************************************)
(* How what was written is read, as far as it fits.  A token sequence is   *)
(* an item when it is read as a value of a type, with a result: a value    *)
(* this schema knows, a variant of a union it does not, or what a field it *)
(* does not know holds.                                                    *)
(***************************************************************************)
SkippedStruct == <<FieldToken(1, "string"), ScalarToken(0), StopToken>>

IsValue(W, t, r) ==
    t \in Types /\ \E newer \in BOOLEAN : \E v \in Values(t) : W = Write(v, t, newer) /\ r = <<v>>

IsVariant(W, t, r) == t \in Types /\ IsUnion(t) /\ W = NewVariant /\ r = UnknownVariant

IsSkipped(W, t, r) ==
    \/ t = SkipType("string") /\ W = <<ScalarToken(0)>> /\ r = <<0>>
    \/ t = SkipType("struct") /\ W = SkippedStruct /\ r = << <<>> >>
    \/ /\ t = SkipType("list")
       /\ W = Joined(<<ListToken("struct", 1)>>, SkippedStruct)
       /\ r = << << <<>> >> >>

Item(W, t, r) == IsSeq(W) /\ (IsValue(W, t, r) \/ IsVariant(W, t, r) \/ IsSkipped(W, t, r))

\* A turn of the loop of function f, over the tokens p.
FieldFrame(f, tok) == [f EXCEPT !.field = tok]

FieldTurn(p, f, h, tok, W) ==
    /\ OfFields(f) /\ f.field = StopToken
    /\ tok.is = "field" /\ tok # StopToken
    /\ OfFields(FieldFrame(f, tok)) /\ FieldFrame(f, tok).field = tok
    /\ p = Joined(<<tok>>, W)
    /\ \E x : Item(W, WantedBy(FieldFrame(f, tok)), x) /\ h = Taken(FieldFrame(f, tok), x)

ElementTurn(p, f, h) ==
    /\ ~OfFields(f) /\ f.left \in Nat /\ f.left > 0
    /\ \E x : Item(p, WantedBy(f), x) /\ h = Taken(f, x)

Turn(p, f, h) ==
    IsSeq(p) /\ (ElementTurn(p, f, h) \/ \E tok, W : FieldTurn(p, f, h, tok, W))

\* The end of function f, with result r.
Ends(T, f, r) ==
    IF OfFields(f)
    THEN /\ f.field = StopToken /\ T = <<StopToken>>
         /\ f.type.kind = "struct" =>
               RequiredNames(f.type) \subseteq DOMAIN f.got /\ r = <<f.got>>
         /\ f.type.kind = "union" =>
               /\ f.all # 0 /\ ~(f.known > 1)
               /\ r = IF f.known = 0 THEN UnknownVariant ELSE <<f.got>>
    ELSE T = <<>> /\ f.left = 0 /\ r = <<f.got>>

TurnsIn(n, T, f, r, ts, fs) ==
    /\ ts[0] = T /\ fs[0] = f
    /\ \A i \in 0 .. n : IsSeq(ts[i])
    /\ \A i \in 1 .. n : \E p : Turn(p, fs[i - 1], fs[i]) /\ ts[i - 1] = Joined(p, ts[i])
    /\ Ends(ts[n], fs[n], r)

\* From the head of its loop, function f reads T and returns r.
Reads(T, f, r) == \E n \in Nat : \E ts, fs : TurnsIn(n, T, f, r, ts, fs)

\* The tokens p take f to h.
Leads(p, f, h) ==
    IsSeq(p) /\ \A T, r : IsSeq(T) /\ Reads(T, h, r) => Reads(Joined(p, T), f, r)

\* What reads from the head of a loop either ends there or takes a turn first.
LEMMA ReadsIs ==
    ASSUME NEW T, NEW f, NEW r, Reads(T, f, r)
    PROVE  /\ IsSeq(T)
           /\ \/ Ends(T, f, r)
              \/ \E p, h, T2 :
                    Turn(p, f, h) /\ IsSeq(T2) /\ T = Joined(p, T2) /\ Reads(T2, h, r)
<1>1. PICK n \in Nat : \E ts, fs : TurnsIn(n, T, f, r, ts, fs)
  BY DEF Reads
<1>2. PICK ts, fs : TurnsIn(n, T, f, r, ts, fs)
  BY <1>1
<1>3. IsSeq(T)
  BY <1>2 DEF TurnsIn
<1>4. CASE n = 0
  BY <1>2, <1>3, <1>4 DEF TurnsIn
<1>5. CASE n # 0
  <2> DEFINE us == [i \in 0 .. n - 1 |-> ts[i + 1]]
             gs == [i \in 0 .. n - 1 |-> fs[i + 1]]
  <2>1. n - 1 \in Nat /\ 1 \in 1 .. n /\ 1 - 1 = 0 /\ (n - 1) + 1 = n
    BY <1>5
  <2>2. PICK p : Turn(p, fs[1 - 1], fs[1]) /\ ts[1 - 1] = Joined(p, ts[1])
    BY <1>2, <2>1 DEF TurnsIn
  <2>3. Turn(p, f, fs[1]) /\ T = Joined(p, ts[1]) /\ IsSeq(ts[1])
    BY <1>2, <2>1, <2>2 DEF TurnsIn
  <2>4. us[0] = ts[1] /\ gs[0] = fs[1]
    BY <2>1
  <2>5. \A i \in 0 .. n - 1 : IsSeq(us[i])
    BY <1>2 DEF TurnsIn
  <2>6. ASSUME NEW i \in 1 .. n - 1
        PROVE  \E q : Turn(q, gs[i - 1], gs[i]) /\ us[i - 1] = Joined(q, us[i])
    <3>1. i + 1 \in 1 .. n /\ (i + 1) - 1 = i /\ i - 1 \in 0 .. n - 1 /\ (i - 1) + 1 = i
          /\ i \in 0 .. n - 1
      BY <1>5
    <3>2. PICK q : Turn(q, fs[(i + 1) - 1], fs[i + 1]) /\ ts[(i + 1) - 1] = Joined(q, ts[i + 1])
      BY <1>2, <3>1 DEF TurnsIn
    <3>3. gs[i] = fs[i + 1] /\ us[i] = ts[i + 1] /\ gs[i - 1] = fs[i] /\ us[i - 1] = ts[i]
      BY <3>1
    <3>4. QED
      BY <3>1, <3>2, <3>3
  <2>7. Ends(us[n - 1], gs[n - 1], r)
    BY <1>2, <2>1 DEF TurnsIn
  <2> HIDE DEF us, gs
  <2>8. TurnsIn(n - 1, ts[1], fs[1], r, us, gs)
    BY <2>4, <2>5, <2>6, <2>7 DEF TurnsIn
  <2>9. Reads(ts[1], fs[1], r)
    BY <2>1, <2>8 DEF Reads
  <2>10. QED
    BY <1>3, <2>3, <2>9
<1>6. QED
  BY <1>4, <1>5

\* The converse: an end reads, and so does a turn before something that reads.
LEMMA EndReads ==
    ASSUME NEW T, IsSeq(T), NEW f, NEW r, Ends(T, f, r)
    PROVE  Reads(T, f, r)
<1> DEFINE ts == [i \in 0 .. 0 |-> T]
           fs == [i \in 0 .. 0 |-> f]
<1>1. ts[0] = T /\ fs[0] = f
  OBVIOUS
<1>2. \A i \in 0 .. 0 : IsSeq(ts[i])
  OBVIOUS
<1> HIDE DEF ts, fs
<1>3. TurnsIn(0, T, f, r, ts, fs)
  BY <1>1, <1>2 DEF TurnsIn
<1>4. QED
  BY <1>3 DEF Reads

LEMMA TurnReads ==
    ASSUME NEW p, NEW f, NEW h, Turn(p, f, h), NEW T, IsSeq(T), NEW r, Reads(T, h, r)
    PROVE  Reads(Joined(p, T), f, r)
<1>1. PICK n \in Nat : \E ts, fs : TurnsIn(n, T, h, r, ts, fs)
  BY DEF Reads
<1>2. PICK ts, fs : TurnsIn(n, T, h, r, ts, fs)
  BY <1>1
<1> DEFINE us == [i \in 0 .. n + 1 |-> IF i = 0 THEN Joined(p, T) ELSE ts[i - 1]]
           gs == [i \in 0 .. n + 1 |-> IF i = 0 THEN f ELSE fs[i - 1]]
<1>3. us[0] = Joined(p, T) /\ gs[0] = f
  OBVIOUS
<1>4. IsSeq(Joined(p, T))
  BY JoinedSeq DEF Turn, IsJoin
<1>5. ASSUME NEW i \in 1 .. n + 1 PROVE i - 1 \in 0 .. n /\ us[i] = ts[i - 1] /\ gs[i] = fs[i - 1]
  OBVIOUS
<1> HIDE DEF us, gs
<1>6. \A i \in 0 .. n + 1 : IsSeq(us[i])
  <2>1. \A i \in 1 .. n + 1 : IsSeq(us[i])
    BY <1>2, <1>5 DEF TurnsIn
  <2>2. QED
    BY <1>3, <1>4, <2>1
<1>7. ASSUME NEW i \in 1 .. n + 1
      PROVE  \E q : Turn(q, gs[i - 1], gs[i]) /\ us[i - 1] = Joined(q, us[i])
  <2>1. CASE i = 1
    <3>1. us[1] = ts[0] /\ gs[1] = fs[0] /\ 1 - 1 = 0
      BY <1>5, <2>1
    <3>2. us[1] = T /\ gs[1] = h
      BY <1>2, <3>1 DEF TurnsIn
    <3>3. QED
      BY <1>3, <2>1, <3>1, <3>2
  <2>2. CASE i # 1
    <3>1. i - 1 \in 1 .. n /\ i - 1 \in 1 .. n + 1
      BY <2>2
    <3>2. us[i] = ts[i - 1] /\ gs[i] = fs[i - 1]
      BY <1>5
    <3>3. us[i - 1] = ts[(i - 1) - 1] /\ gs[i - 1] = fs[(i - 1) - 1]
      BY <1>5, <3>1
    <3>4. QED
      BY <1>2, <3>1, <3>2, <3>3 DEF TurnsIn
  <2>3. QED
    BY <2>1, <2>2
<1>8. Ends(us[n + 1], gs[n + 1], r)
  <2>1. n + 1 \in 1 .. n + 1 /\ (n + 1) - 1 = n
    OBVIOUS
  <2>2. us[n + 1] = ts[n] /\ gs[n + 1] = fs[n]
    BY <1>5, <2>1
  <2>3. QED
    BY <1>2, <2>2 DEF TurnsIn
<1>9. TurnsIn(n + 1, Joined(p, T), f, r, us, gs)
  BY <1>3, <1>6, <1>7, <1>8 DEF TurnsIn
<1>10. QED
  BY <1>9 DEF Reads

\* A turn leads to the next head, nothing leads nowhere, and leading goes on.
LEMMA TurnLeads ==
    ASSUME NEW p, NEW f, NEW h, Turn(p, f, h)
    PROVE  Leads(p, f, h)
  BY TurnReads DEF Leads, Turn

LEMMA NothingLeads ==
    ASSUME NEW f
    PROVE  Leads(<<>>, f, f)
  BY EmptySeqIs, JoinedEmpty DEF Leads

LEMMA LeadsOn ==
    ASSUME NEW p, NEW q, NEW f, NEW g, NEW h, Leads(p, f, g), Leads(q, g, h)
    PROVE  Leads(Joined(p, q), f, h)
<1>1. IsSeq(p) /\ IsSeq(q) /\ IsSeq(Joined(p, q))
  BY JoinedSeq DEF Leads, IsJoin
<1>2. ASSUME NEW T, NEW r, IsSeq(T), Reads(T, h, r)
      PROVE  Reads(Joined(Joined(p, q), T), f, r)
  <2>1. Reads(Joined(q, T), g, r)
    BY <1>2 DEF Leads
  <2>2. IsSeq(Joined(q, T))
    BY <1>1, <1>2, JoinedSeq DEF IsJoin
  <2>3. Reads(Joined(p, Joined(q, T)), f, r)
    BY <2>1, <2>2 DEF Leads
  <2>4. QED
    BY <1>1, <1>2, <2>3, JoinedAgain
<1>3. QED
  BY <1>1, <1>2 DEF Leads

\* Pieces in a row, each of which takes any frame of one set to one of the next.
StepLeads(q, A, i) == \A f \in A[i] : \E h \in A[i + 1] : Leads(q[i], f, h)

\* Pieces written one after the other lead through the sets of frames in turn.
LEMMA RoundLeads ==
    ASSUME NEW q, IsSeq(q), NEW A, \A i \in 1 .. Len(q) : StepLeads(q, A, i),
           NEW f \in A[1]
    PROVE  \E h \in A[Len(q) + 1] : Leads(FlattenSeq(q), f, h)
<1>1. Len(q) \in Nat /\ (q = <<>> <=> Len(q) = 0)
  BY SeqIs
<1>2. CASE q = <<>>
  <2>1. Len(q) + 1 = 1
    BY <1>1, <1>2
  <2>2. Leads(FlattenSeq(q), f, f)
    BY <1>2, FlattenEmpty, NothingLeads
  <2>3. QED
    BY <2>1, <2>2
<1>3. CASE q # <<>>
  <2>1. PICK U : q \in Seq(U)
    BY DEF IsSeq
  <2>2. PICK g : IsFlattening(g, q) /\ FlattenSeq(q) = g[Len(q)]
    BY <1>3, <2>1, FlattenSeqIs
  <2> DEFINE T == {n \in Nat : n + 1 <= Len(q) => \E h \in A[n + 2] : Leads(g[n + 1], f, h)}
  <2>3. 0 \in T
    <3>1. 1 \in 1 .. Len(q)
      BY <1>1, <1>3
    <3>2. g[1] = q[1]
      BY <2>2, <3>1, FlatteningAt
    <3>3. \E h \in A[1 + 1] : Leads(q[1], f, h)
      BY <3>1 DEF StepLeads
    <3>4. QED
      BY <3>2, <3>3
  <2>4. ASSUME NEW n \in Nat, n \in T PROVE n + 1 \in T
    <3>1. SUFFICES ASSUME (n + 1) + 1 <= Len(q)
                   PROVE  \E h \in A[(n + 1) + 2] : Leads(g[(n + 1) + 1], f, h)
      OBVIOUS
    <3>2. n + 2 \in 1 .. Len(q) /\ n + 2 # 1 /\ (n + 2) - 1 = n + 1
          /\ (n + 1) + 1 = n + 2 /\ (n + 1) + 2 = (n + 2) + 1
      BY <1>1, <3>1
    <3>3. PICK x \in A[n + 2] : Leads(g[n + 1], f, x)
      BY <1>1, <2>4, <3>1
    <3>4. PICK h \in A[(n + 2) + 1] : Leads(q[n + 2], x, h)
      BY <3>2 DEF StepLeads
    <3>5. g[n + 2] = Joined(g[n + 1], q[n + 2])
      <4>1. g[n + 2] = IF n + 2 = 1 THEN q[n + 2] ELSE Joined(g[(n + 2) - 1], q[n + 2])
        BY <2>2, <3>2, FlatteningAt
      <4>2. QED
        BY <3>2, <4>1
    <3>6. Leads(g[n + 2], f, h)
      BY <3>3, <3>4, <3>5, LeadsOn
    <3>7. QED
      BY <3>2, <3>6
  <2> HIDE DEF T
  <2>5. Len(q) - 1 \in T
    <3>1. \A n \in Nat : n \in T
      BY <2>3, <2>4, Induction
    <3>2. QED
      BY <1>1, <1>3, <3>1
  <2>6. (Len(q) - 1) + 1 = Len(q) /\ (Len(q) - 1) + 2 = Len(q) + 1
    BY <1>1
  <2>7. QED
    BY <1>1, <2>2, <2>5, <2>6 DEF T
<1>4. QED
  BY <1>2, <1>3

-----------------------------------------------------------------------------
(***************************************************************************)
(* Frames at the head of their loops, and the turns between them.          *)
(***************************************************************************)
FrameOf(t, left, got, all, known) ==
    [type |-> t, field |-> StopToken, left |-> left, key |-> NoKey,
     got |-> got, all |-> all, known |-> known]

SameFields(f, g) ==
    /\ f.type = g.type /\ f.field = g.field /\ f.left = g.left /\ f.key = g.key
    /\ f.got = g.got /\ f.all = g.all /\ f.known = g.known

\* Frames are the same when their fields are.
LEMMA SameFrame ==
    ASSUME NEW f, IsFrame(f), NEW g, IsFrame(g), SameFields(f, g)
    PROVE  f = g
  BY DEF IsFrame, SameFields

\* The fields of a frame at the head of its loop; the frames that functions begin with.
LEMMA FrameOfIs ==
    ASSUME NEW t, NEW left, NEW got, NEW all, NEW known
    PROVE  LET f == FrameOf(t, left, got, all, known)
           IN  /\ IsFrame(f)
               /\ f.type = t /\ f.field = StopToken /\ f.left = left /\ f.key = NoKey
               /\ f.got = got /\ f.all = all /\ f.known = known
  BY DEF FrameOf, IsFrame

LEMMA NewFrames ==
    ASSUME NEW t, NEW n
    PROVE  /\ StructFrame(t) = FrameOf(t, 0, <<>>, 0, 0)
           /\ ContainerFrame(t, n) = FrameOf(t, n, <<>>, 0, 0)
<1>1. StructFrame(t) = FrameOf(t, 0, <<>>, 0, 0)
  BY DEF StructFrame, FrameOf
<1> DEFINE f == FrameOf(t, 0, <<>>, 0, 0)
           g == FrameOf(t, n, <<>>, 0, 0)
           h == [f EXCEPT !.left = n]
<1>2. /\ IsFrame(f) /\ f.type = t /\ f.field = StopToken /\ f.key = NoKey
      /\ f.got = <<>> /\ f.all = 0 /\ f.known = 0
  BY FrameOfIs
<1>3. /\ IsFrame(g) /\ g.type = t /\ g.field = StopToken /\ g.left = n /\ g.key = NoKey
      /\ g.got = <<>> /\ g.all = 0 /\ g.known = 0
  BY FrameOfIs
<1> HIDE DEF f, g
<1>4. /\ IsFrame(h) /\ h.left = n
      /\ h.type = f.type /\ h.field = f.field /\ h.key = f.key
      /\ h.got = f.got /\ h.all = f.all /\ h.known = f.known
  BY <1>2, FrameWithLeft
<1>5. ContainerFrame(t, n) = h
  BY <1>1 DEF ContainerFrame, f
<1> HIDE DEF h
<1>6. h = g
  BY <1>2, <1>3, <1>4, SameFrame DEF SameFields
<1>7. QED
  BY <1>1, <1>5, <1>6 DEF g

\* A frame with the field it reads.
LEMMA FieldFrameIs ==
    ASSUME NEW t, HasFields(t), NEW left, NEW got, NEW all, NEW known, NEW tok
    PROVE  LET f == FrameOf(t, left, got, all, known)
               g == FieldFrame(f, tok)
           IN  /\ OfFields(f) /\ f.field = StopToken
               /\ IsFrame(g) /\ OfFields(g) /\ g.field = tok
               /\ g.type = t /\ g.left = left /\ g.key = NoKey
               /\ g.got = got /\ g.all = all /\ g.known = known
<1> DEFINE f == FrameOf(t, left, got, all, known)
           g == FieldFrame(f, tok)
<1>1. /\ IsFrame(f)
      /\ f.type = t /\ f.field = StopToken /\ f.left = left /\ f.key = NoKey
      /\ f.got = got /\ f.all = all /\ f.known = known
  BY FrameOfIs
<1> HIDE DEF f
<1>2. /\ IsFrame(g) /\ g.field = tok
      /\ g.type = f.type /\ g.left = f.left /\ g.key = f.key
      /\ g.got = f.got /\ g.all = f.all /\ g.known = f.known
  BY <1>1, FrameWithField DEF FieldFrame
<1> HIDE DEF g
<1>3. QED
  BY <1>1, <1>2 DEF f, g, OfFields

\* The token of a field is no Stop.
LEMMA FieldTokenIs ==
    ASSUME NEW id, NEW w, w # "stop"
    PROVE  LET tok == FieldToken(id, w)
           IN  tok.is = "field" /\ tok # StopToken /\ tok.id = id /\ tok.wire = w
  BY DEF FieldToken, StopToken

\* A field this schema knows, with a value it knows.
LEMMA KnownTurn ==
    ASSUME NEW t, HasFields(t), NEW got, NEW all, NEW known,
           NEW e, NEW w, w # "stop", FieldsWith(t, e.id) = {e},
           NEW W, NEW x, Item(W, e.type, <<x>>),
           t.kind = "struct" \/ known = 0
    PROVE  Turn(Joined(<<FieldToken(e.id, w)>>, W), FrameOf(t, 0, got, all, known),
                FrameOf(t, 0, With(got, e.name, x), all + 1, known + 1))
<1> DEFINE tok == FieldToken(e.id, w)
           f == FrameOf(t, 0, got, all, known)
           g == FieldFrame(f, tok)
           r == <<x>>
           h == Taken(g, r)
           u == FrameOf(t, 0, With(got, e.name, x), all + 1, known + 1)
           p == Joined(<<tok>>, W)
<1>1. tok.is = "field" /\ tok # StopToken /\ tok.id = e.id
  BY FieldTokenIs
<1>2. IsSeq(p)
  BY SingleSeqIs, JoinedSeq DEF IsJoin, Item
<1>3. /\ OfFields(f) /\ f.field = StopToken
      /\ IsFrame(g) /\ OfFields(g) /\ g.field = tok
      /\ g.type = t /\ g.left = 0 /\ g.key = NoKey
      /\ g.got = got /\ g.all = all /\ g.known = known
  BY FieldFrameIs
<1>4. /\ IsFrame(u)
      /\ u.type = t /\ u.field = StopToken /\ u.left = 0 /\ u.key = NoKey
      /\ u.got = With(got, e.name, x) /\ u.all = all + 1 /\ u.known = known + 1
  BY FrameOfIs
<1>5. r # UnknownVariant /\ r[1] = x
  BY ResultIs
<1>6. Item(W, e.type, r)
  OBVIOUS
<1> HIDE DEF tok, f, r, u
<1>7. FieldsWith(g.type, g.field.id) = {e}
  BY <1>1, <1>3
<1> HIDE DEF g
<1>8. TakesField(g, r) /\ FieldOf(g) = e
  BY <1>5, <1>7 DEF TakesField, FieldOf
<1>9. WantedBy(g) = e.type
  BY <1>3, <1>7 DEF WantedBy
<1>10. h = TakenAsField(g, r)
  BY <1>3 DEF Taken, OfFields, HasFields
<1> HIDE DEF h
<1>11. /\ IsFrame(h) /\ h.type = g.type /\ h.left = g.left
       /\ h.field = StopToken /\ h.key = g.key /\ h.all = g.all + 1
       /\ h.known = (IF TakesField(g, r) THEN g.known + 1 ELSE g.known)
       /\ h.got = IF TakesField(g, r) /\ (g.type.kind = "struct" \/ g.known = 0)
                  THEN With(g.got, FieldOf(g).name, r[1])
                  ELSE g.got
  BY <1>3, <1>10, FieldTakenIs
<1>12. h = u
  BY <1>3, <1>4, <1>5, <1>8, <1>11, SameFrame DEF SameFields
<1>13. FieldTurn(p, f, u, tok, W)
  BY <1>1, <1>3, <1>6, <1>9, <1>12 DEF FieldTurn, g, h
<1>14. Turn(p, f, u)
  BY <1>2, <1>13 DEF Turn
<1>15. QED
  BY <1>14 DEF p, f, u, tok

\* A field it does not know, or of a variant it does not.
LEMMA BlankTurn ==
    ASSUME NEW t, HasFields(t), NEW got, NEW all, NEW known,
           NEW id, NEW w, w # "stop", NEW W,
           \/ FieldsWith(t, id) = {} /\ \E x : Item(W, SkipType(w), x)
           \/ \E e : FieldsWith(t, id) = {e} /\ Item(W, e.type, UnknownVariant)
    PROVE  Turn(Joined(<<FieldToken(id, w)>>, W), FrameOf(t, 0, got, all, known),
                FrameOf(t, 0, got, all + 1, known))
<1> DEFINE tok == FieldToken(id, w)
           f == FrameOf(t, 0, got, all, known)
           g == FieldFrame(f, tok)
           u == FrameOf(t, 0, got, all + 1, known)
           p == Joined(<<tok>>, W)
<1>1. tok.is = "field" /\ tok # StopToken /\ tok.id = id /\ tok.wire = w
  BY FieldTokenIs
<1>2. IsSeq(p)
  BY SingleSeqIs, JoinedSeq DEF IsJoin, Item
<1>3. /\ OfFields(f) /\ f.field = StopToken
      /\ IsFrame(g) /\ OfFields(g) /\ g.field = tok
      /\ g.type = t /\ g.left = 0 /\ g.key = NoKey
      /\ g.got = got /\ g.all = all /\ g.known = known
  BY FieldFrameIs
<1>4. /\ IsFrame(u)
      /\ u.type = t /\ u.field = StopToken /\ u.left = 0 /\ u.key = NoKey
      /\ u.got = got /\ u.all = all + 1 /\ u.known = known
  BY FrameOfIs
<1> HIDE DEF tok, f, u, g
<1>5. \E r : Item(W, WantedBy(g), r) /\ ~TakesField(g, r)
  <2>1. CASE FieldsWith(t, id) = {} /\ \E x : Item(W, SkipType(w), x)
    <3>1. WantedBy(g) = SkipType(w)
      BY <1>1, <1>3, <2>1 DEF WantedBy
    <3>2. QED
      BY <1>1, <1>3, <2>1, <3>1 DEF TakesField
  <2>2. ASSUME NEW e, FieldsWith(t, id) = {e}, Item(W, e.type, UnknownVariant)
        PROVE  Item(W, WantedBy(g), UnknownVariant)
    BY <1>1, <1>3, <2>2 DEF WantedBy
  <2>3. QED
    BY <2>1, <2>2 DEF TakesField
<1>6. PICK r : Item(W, WantedBy(g), r) /\ ~TakesField(g, r)
  BY <1>5
<1> DEFINE h == Taken(g, r)
<1>7. h = TakenAsField(g, r)
  BY <1>3 DEF Taken, OfFields, HasFields
<1> HIDE DEF h
<1>8. /\ IsFrame(h) /\ h.type = g.type /\ h.left = g.left
      /\ h.field = StopToken /\ h.key = g.key /\ h.all = g.all + 1
      /\ h.known = (IF TakesField(g, r) THEN g.known + 1 ELSE g.known)
      /\ h.got = IF TakesField(g, r) /\ (g.type.kind = "struct" \/ g.known = 0)
                 THEN With(g.got, FieldOf(g).name, r[1])
                 ELSE g.got
  BY <1>3, <1>7, FieldTakenIs
<1>9. h = u
  BY <1>3, <1>4, <1>6, <1>8, SameFrame DEF SameFields
<1>10. FieldTurn(p, f, u, tok, W)
  BY <1>1, <1>3, <1>6, <1>9 DEF FieldTurn, g, h
<1>11. Turn(p, f, u)
  BY <1>2, <1>10 DEF Turn
<1>12. QED
  BY <1>11 DEF p, f, u, tok

\* An element of a list.
LEMMA ListTurn ==
    ASSUME NEW t, t.kind = "list", NEW left \in Nat, left > 0, NEW got,
           NEW W, NEW r, Item(W, t.of, r)
    PROVE  Turn(W, FrameOf(t, left, got, 0, 0), FrameOf(t, left - 1, Joined(got, r), 0, 0))
<1> DEFINE f == FrameOf(t, left, got, 0, 0)
           u == FrameOf(t, left - 1, Joined(got, r), 0, 0)
           h == Taken(f, r)
<1>1. /\ IsFrame(f)
      /\ f.type = t /\ f.field = StopToken /\ f.left = left /\ f.key = NoKey
      /\ f.got = got /\ f.all = 0 /\ f.known = 0
  BY FrameOfIs
<1>2. /\ IsFrame(u)
      /\ u.type = t /\ u.field = StopToken /\ u.left = left - 1 /\ u.key = NoKey
      /\ u.got = Joined(got, r) /\ u.all = 0 /\ u.known = 0
  BY FrameOfIs
<1> HIDE DEF f, u
<1>3. ~OfFields(f) /\ WantedBy(f) = t.of /\ h = TakenAsElement(f, r)
  BY <1>1 DEF OfFields, HasFields, WantedBy, Taken
<1> HIDE DEF h
<1>4. /\ IsFrame(h) /\ h.type = f.type /\ h.left = f.left - 1
      /\ h.field = f.field /\ h.key = f.key /\ h.all = f.all /\ h.known = f.known
      /\ h.got = f.got \o r
  BY <1>1, <1>3, ElementTakenIs
<1>5. h = u
  BY <1>1, <1>2, <1>4, SameFrame DEF SameFields, Joined
<1>6. ElementTurn(W, f, u)
  BY <1>1, <1>3, <1>5 DEF ElementTurn, h
<1>7. Turn(W, f, u)
  BY <1>6 DEF Turn, Item
<1>8. QED
  BY <1>7 DEF f, u

\* A key of a map and its value.
LEMMA MapTurns ==
    ASSUME NEW t, t.kind = "map", NEW left \in Nat, left > 0, NEW got,
           NEW V, NEW k, Item(V, t.key, <<k>>), NEW W, NEW x, Item(W, t.of, <<x>>)
    PROVE  Leads(Joined(V, W), FrameOf(t, left, got, 0, 0),
                 FrameOf(t, left - 1, With(got, k, x), 0, 0))
<1> DEFINE f == FrameOf(t, left, got, 0, 0)
           u == FrameOf(t, left - 1, With(got, k, x), 0, 0)
           q == <<k>>
           r == <<x>>
           g == Taken(f, q)
           h == Taken(g, r)
<1>1. /\ IsFrame(f)
      /\ f.type = t /\ f.field = StopToken /\ f.left = left /\ f.key = NoKey
      /\ f.got = got /\ f.all = 0 /\ f.known = 0
  BY FrameOfIs
<1>2. /\ IsFrame(u)
      /\ u.type = t /\ u.field = StopToken /\ u.left = left - 1 /\ u.key = NoKey
      /\ u.got = With(got, k, x) /\ u.all = 0 /\ u.known = 0
  BY FrameOfIs
<1>3. q # NoKey /\ q[1] = k /\ r[1] = x
  BY ResultIs
<1>4. Item(V, t.key, q) /\ Item(W, t.of, r)
  OBVIOUS
<1> HIDE DEF f, u, q, r
<1>5. ~OfFields(f) /\ WantedBy(f) = t.key /\ g = TakenAsKey(f, q)
  BY <1>1 DEF OfFields, HasFields, WantedBy, Taken
<1>6. ElementTurn(V, f, g)
  BY <1>1, <1>4, <1>5 DEF ElementTurn
<1> HIDE DEF g
<1>7. /\ IsFrame(g) /\ g.type = f.type /\ g.left = f.left /\ g.got = f.got
      /\ g.key = q /\ g.field = f.field /\ g.all = f.all /\ g.known = f.known
  BY <1>1, <1>5, KeyTakenIs
<1>8. ~OfFields(g) /\ WantedBy(g) = t.of /\ h = TakenAsValue(g, r)
  BY <1>1, <1>3, <1>7 DEF OfFields, HasFields, WantedBy, Taken
<1> HIDE DEF h
<1>9. /\ IsFrame(h) /\ h.type = g.type /\ h.left = g.left - 1
      /\ h.key = NoKey /\ h.field = g.field /\ h.all = g.all /\ h.known = g.known
      /\ h.got = With(g.got, g.key[1], r[1])
  BY <1>7, <1>8, ValueTakenIs
<1>10. h = u
  BY <1>1, <1>2, <1>3, <1>7, <1>9, SameFrame DEF SameFields
<1>11. ElementTurn(W, g, u)
  BY <1>1, <1>4, <1>7, <1>8, <1>10 DEF ElementTurn, h
<1>12. Leads(V, f, g) /\ Leads(W, g, u)
  BY <1>6, <1>11, TurnLeads DEF Turn, Item
<1>13. Leads(Joined(V, W), f, u)
  BY <1>12, LeadsOn
<1>14. QED
  BY <1>13 DEF f, u

\* The ends of the loops.
LEMMA FieldsEnd ==
    ASSUME NEW t, HasFields(t), NEW got, NEW all, NEW known, NEW r,
           t.kind = "struct" => RequiredNames(t) \subseteq DOMAIN got /\ r = <<got>>,
           t.kind = "union" =>
              /\ all # 0 /\ ~(known > 1)
              /\ r = IF known = 0 THEN UnknownVariant ELSE <<got>>
    PROVE  Reads(<<StopToken>>, FrameOf(t, 0, got, all, known), r)
<1> DEFINE f == FrameOf(t, 0, got, all, known)
<1>1. /\ f.type = t /\ f.field = StopToken
      /\ f.got = got /\ f.all = all /\ f.known = known
  BY FrameOfIs
<1> HIDE DEF f
<1>2. OfFields(f)
  BY <1>1 DEF OfFields
<1>3. Ends(<<StopToken>>, f, r)
  BY <1>1, <1>2 DEF Ends
<1>4. Reads(<<StopToken>>, f, r)
  BY <1>3, EndReads, SingleSeqIs
<1>5. QED
  BY <1>4 DEF f

\* A container without elements left returns what it got.
LEMMA ElementsEnd ==
    ASSUME NEW t, t.kind \in {"list", "map"}, NEW got
    PROVE  Reads(<<>>, FrameOf(t, 0, got, 0, 0), <<got>>)
<1> DEFINE f == FrameOf(t, 0, got, 0, 0)
<1>1. f.type = t /\ f.left = 0 /\ f.got = got
  BY FrameOfIs
<1> HIDE DEF f
<1>2. ~OfFields(f)
  BY <1>1 DEF OfFields, HasFields
<1>3. Ends(<<>>, f, <<got>>)
  BY <1>1, <1>2 DEF Ends
<1>4. Reads(<<>>, f, <<got>>)
  BY <1>3, EndReads, EmptySeqIs
<1>5. QED
  BY <1>4 DEF f

-----------------------------------------------------------------------------
(***************************************************************************)
(* Every item is read as what it is: first what a schema that is newer     *)
(* adds.                                                                   *)
(***************************************************************************)
Unfolds(W, t, r) ==
    /\ t.kind \in {"scalar", "list", "map", "struct", "union"}
    /\ t.kind = "scalar" => \E x : W = <<ScalarToken(x)>> /\ r = <<x>>
    /\ HasFields(t) => Reads(W, StructFrame(t), r)
    /\ t.kind \in {"list", "map"} =>
          \E tok, T :
             /\ W = Joined(<<tok>>, T) /\ IsSeq(T)
             /\ tok.is = t.kind /\ tok.size \in Nat
             /\ Reads(T, ContainerFrame(OfWire(t, tok), tok.size), r)

\* Three elements, joined one by one.
LEMMA JoinedTuples ==
    ASSUME NEW a, NEW b, NEW c
    PROVE  Joined(Joined(<<a>>, <<b>>), <<c>>) = <<a, b, c>>
<1> DEFINE p == <<a>>
           q == <<b>>
           r == <<c>>
           all == <<a, b, c>>
           s == Joined(p, q)
           t == Joined(s, r)
<1>1. /\ IsSeq(p) /\ Len(p) = 1 /\ p[1] = a
      /\ IsSeq(q) /\ Len(q) = 1 /\ q[1] = b
      /\ IsSeq(r) /\ Len(r) = 1 /\ r[1] = c
  BY SingleSeqIs
<1>2. IsSeq(all) /\ Len(all) = 3 /\ all[1] = a /\ all[2] = b /\ all[3] = c
  <2>1. all \in Seq({a, b, c})
    OBVIOUS
  <2>2. QED
    BY <2>1 DEF IsSeq
<1> HIDE DEF p, q, r, all
<1>3. IsSeq(s) /\ Len(s) = 1 + 1 /\ s[1] = a /\ s[1 + 1] = b
  <2>1. IsJoin(s, p, q)
    BY <1>1, JoinedSeq
  <2>2. QED
    BY <1>1, <2>1 DEF IsJoin
<1> HIDE DEF s
<1>4. IsSeq(t) /\ Len(t) = 2 + 1 /\ t[1] = a /\ t[2] = b /\ t[2 + 1] = c
  <2>1. IsJoin(t, s, r)
    BY <1>1, <1>3, JoinedSeq
  <2>2. QED
    BY <1>1, <1>3, <2>1 DEF IsJoin
<1> HIDE DEF t
<1>5. \A k \in 1 .. Len(t) : t[k] = all[k]
  BY <1>2, <1>4
<1>6. t = all
  BY <1>2, <1>4, <1>5, EqualSeqs
<1>7. QED
  BY <1>6 DEF p, q, r, s, t, all

\* A string, a struct and a list of a schema that is newer are skipped over.
LEMMA SkipString ==
    /\ SkipType("string").kind = "scalar"
    /\ Item(<<ScalarToken(0)>>, SkipType("string"), <<0>>)
<1>1. SkipType("string").kind = "scalar"
  BY DEF SkipType, Scalar
<1>2. QED
  BY <1>1, SingleSeqIs DEF Item, IsSkipped

LEMMA SkipStruct ==
    LET t == SkipType("struct")
    IN  /\ t.kind = "struct" /\ IsSeq(SkippedStruct)
        /\ Item(SkippedStruct, t, << <<>> >>)
        /\ Reads(SkippedStruct, StructFrame(t), << <<>> >>)
<1> DEFINE t == SkipType("struct")
           ft == FieldToken(1, "string")
           s == ScalarToken(0)
           r == << <<>> >>
<1>1. t.kind = "struct" /\ t.fields = <<>>
  BY DEF SkipType, Struct
<1> HIDE DEF t
<1>2. HasFields(t) /\ FieldsOf(t) = {}
  BY <1>1 DEF HasFields, FieldsOf
<1>3. FieldsWith(t, 1) = {} /\ RequiredNames(t) = {}
  BY <1>2 DEF FieldsWith, RequiredNames, NamesOf
<1>4. Turn(Joined(<<ft>>, <<s>>), FrameOf(t, 0, <<>>, 0, 0), FrameOf(t, 0, <<>>, 0 + 1, 0))
  <2>1. "string" # "stop" /\ Item(<<s>>, SkipType("string"), <<0>>)
    BY SkipString
  <2>2. QED
    BY <1>2, <1>3, <2>1, BlankTurn
<1>5. Reads(<<StopToken>>, FrameOf(t, 0, <<>>, 0 + 1, 0), r)
  BY <1>1, <1>2, <1>3, FieldsEnd
<1> HIDE DEF ft, s, r
<1>6. Reads(Joined(Joined(<<ft>>, <<s>>), <<StopToken>>), FrameOf(t, 0, <<>>, 0, 0), r)
  BY <1>4, <1>5, TurnReads, SingleSeqIs
<1>7. SkippedStruct = Joined(Joined(<<ft>>, <<s>>), <<StopToken>>)
  BY JoinedTuples DEF SkippedStruct, ft, s
<1>8. Reads(SkippedStruct, StructFrame(t), r)
  BY <1>6, <1>7, NewFrames
<1>9. IsSeq(SkippedStruct)
  BY <1>8, ReadsIs
<1>10. Item(SkippedStruct, t, r)
  BY <1>9 DEF Item, IsSkipped, t, r
<1>11. QED
  BY <1>1, <1>8, <1>9, <1>10 DEF t, r

SkippedList == Joined(<<ListToken("struct", 1)>>, SkippedStruct)

LEMMA SkipList ==
    LET t == SkipType("list")
        r == << << <<>> >> >>
    IN  Item(SkippedList, t, r) /\ Unfolds(SkippedList, t, r)
<1> DEFINE t == SkipType("list")
           e == SkipType("struct")
           u == ListOf(e)
           r == << << <<>> >> >>
           q == << <<>> >>
           tok == ListToken("struct", 1)
<1>1. tok.is = "list" /\ tok.size = 1 /\ tok.of = "struct"
  BY DEF ListToken
<1>2. t.kind = "list" /\ u.kind = "list" /\ u.of = e
  BY DEF SkipType, ListOf
<1>3. OfWire(t, tok) = u
  <2>1. t # SkipType("map")
    BY DEF SkipType, ListOf, MapOf
  <2>2. QED
    BY <1>1, <2>1 DEF OfWire
<1>4. Item(SkippedStruct, e, q) /\ IsSeq(SkippedStruct)
  BY SkipStruct
<1>5. r = <<q>> /\ Joined(<<>>, q) = q
  BY JoinedEmpty, SingleSeqIs
<1> HIDE DEF t, e, u, r, q
<1>6. Turn(SkippedStruct, FrameOf(u, 1, <<>>, 0, 0), FrameOf(u, 1 - 1, Joined(<<>>, q), 0, 0))
  BY <1>2, <1>4, ListTurn
<1>7. Reads(<<>>, FrameOf(u, 0, q, 0, 0), r)
  BY <1>2, <1>5, ElementsEnd
<1>8. FrameOf(u, 1 - 1, Joined(<<>>, q), 0, 0) = FrameOf(u, 0, q, 0, 0)
  BY <1>5
<1>9. Reads(Joined(SkippedStruct, <<>>), FrameOf(u, 1, <<>>, 0, 0), r)
  BY <1>6, <1>7, <1>8, TurnReads, EmptySeqIs
<1>10. Reads(SkippedStruct, ContainerFrame(u, 1), r)
  BY <1>4, <1>9, JoinedEmpty, NewFrames
<1>11. SkippedList = Joined(<<tok>>, SkippedStruct)
  BY DEF SkippedList
<1>12. Item(SkippedList, t, r)
  <2>1. IsSeq(SkippedList)
    BY <1>4, <1>11, JoinedSeq, SingleSeqIs DEF IsJoin
  <2>2. QED
    BY <2>1 DEF Item, IsSkipped, SkippedList, t, r
<1> HIDE DEF tok
<1>13. Unfolds(SkippedList, t, r)
  <2>1. Reads(SkippedStruct, ContainerFrame(OfWire(t, tok), tok.size), r)
    BY <1>1, <1>3, <1>10
  <2>2. QED
    BY <1>1, <1>2, <1>4, <1>11, <2>1 DEF Unfolds, HasFields
<1>14. QED
  BY <1>12, <1>13 DEF t, r

\* A union of a variant that is skipped over.
LEMMA NewVariantReads ==
    ASSUME NEW t \in Types, IsUnion(t)
    PROVE  Item(NewVariant, t, UnknownVariant) /\ Reads(NewVariant, StructFrame(t), UnknownVariant)
<1> DEFINE ft == FieldToken(UnknownId, "struct")
           p == Joined(<<ft>>, SkippedStruct)
<1>1. t.kind = "union" /\ HasFields(t) /\ FieldsWith(t, UnknownId) = {}
  BY NewerAssumption DEF IsUnion, HasFields
<1>2. Turn(p, FrameOf(t, 0, <<>>, 0, 0), FrameOf(t, 0, <<>>, 0 + 1, 0))
  <2>1. "struct" # "stop" /\ Item(SkippedStruct, SkipType("struct"), << <<>> >>)
    BY SkipStruct
  <2>2. QED
    BY <1>1, <2>1, BlankTurn
<1>3. Reads(<<StopToken>>, FrameOf(t, 0, <<>>, 0 + 1, 0), UnknownVariant)
  BY <1>1, FieldsEnd
<1>4. NewVariant = Joined(p, <<StopToken>>)
  BY DEF NewVariant, Joined, SkippedStruct
<1> HIDE DEF p
<1>5. Reads(NewVariant, StructFrame(t), UnknownVariant)
  BY <1>2, <1>3, <1>4, TurnReads, SingleSeqIs, NewFrames
<1>6. IsSeq(NewVariant)
  BY <1>5, ReadsIs
<1>7. QED
  BY <1>5, <1>6 DEF Item, IsVariant

-----------------------------------------------------------------------------
(***************************************************************************)
(* The values it knows.                                                    *)
(***************************************************************************)
LEMMA ValueItem ==
    ASSUME NEW t \in Types, NEW v \in Values(t), NEW newer \in BOOLEAN
    PROVE  /\ Item(Write(v, t, newer), t, <<v>>)
           /\ Write(v, t, newer) = Writes(v, t, newer)
           /\ \A i \in DOMAIN Write(v, t, newer) : SizeOf(Write(v, t, newer)[i]) \in Nat
           /\ HasType(v, t)
           /\ \A part \in Parts(t, v) : part[2] \in Values(part[1])
           /\ t.kind = "map" => DOMAIN v \subseteq Values(t.key)
<1>1. /\ HasType(v, t)
      /\ \A part \in Parts(t, v) : part[2] \in Values(part[1])
      /\ t.kind = "map" => DOMAIN v \subseteq Values(t.key)
      /\ Write(v, t, newer) = Writes(v, t, newer) /\ IsTokens(Write(v, t, newer))
  BY WriteAssumption
<1>2. IsSeq(Write(v, t, newer))
  BY <1>1 DEF IsSeq, IsSequence, IsTokens
<1>3. QED
  BY <1>1, <1>2 DEF Item, IsValue, IsTokens

\* What types of the schema hold is of the schema, and not skipped over.
LEMMA SchemaType ==
    ASSUME NEW t \in Types
    PROVE  /\ t.kind \in {"scalar", "list", "map", "struct", "union"}
           /\ t.kind = "list" => t.of \in Types
           /\ t.kind = "map" =>
                 /\ t.key \in Types /\ t.key.kind = "scalar"
                 /\ t.of \in Types /\ t.of.kind # "union"
           /\ HasFields(t) => t.fields \in Seq(FieldsOf(t)) /\ \A f \in FieldsOf(t) : f.type \in Types
           /\ t.wire # "stop" /\ t # Anything
           /\ \A tok : OfWire(t, tok) = t
<1>1. /\ t.kind \in {"scalar", "list", "map", "struct", "union"}
      /\ t.kind = "list" => t.of \in Types
      /\ t.kind = "map" =>
            /\ t.key \in Types /\ t.key.kind = "scalar"
            /\ t.of \in Types /\ t.of.kind # "union"
      /\ HasFields(t) => t.fields \in Seq(FieldsOf(t)) /\ \A f \in FieldsOf(t) : f.type \in Types
  BY TypesAssumption DEF IsSchema
<1>2. \A u \in Types : u.wire # "stop" /\ u # Anything
  BY NewerAssumption
<1>3. SkipType("list") = ListOf(Anything) /\ SkipType("map") = MapOf(Anything, Anything)
  BY DEF SkipType
<1>4. ListOf(Anything).kind = "list" /\ ListOf(Anything).of = Anything
      /\ MapOf(Anything, Anything).kind = "map" /\ MapOf(Anything, Anything).of = Anything
  BY DEF ListOf, MapOf
<1>5. t # SkipType("list") /\ t # SkipType("map")
  BY <1>1, <1>2, <1>3, <1>4
<1>6. \A tok : OfWire(t, tok) = t
  BY <1>5 DEF OfWire
<1>7. QED
  BY <1>1, <1>2, <1>6

\* The beginnings of a sequence, each the one before it and an element.
LEMMA PrefixIs ==
    ASSUME NEW s, IsSeq(s)
    PROVE  /\ SubSeq(s, 1, 0) = <<>> /\ SubSeq(s, 1, Len(s)) = s
           /\ \A i \in 1 .. Len(s) : Joined(SubSeq(s, 1, i - 1), <<s[i]>>) = SubSeq(s, 1, i)
<1>1. PICK U : s \in Seq(U)
  BY DEF IsSeq
<1>2. Len(s) \in Nat
  BY <1>1, LenProperties
<1>3. SubSeq(s, 1, 0) = <<>> /\ SubSeq(s, 1, Len(s)) = s
  BY <1>1, <1>2
<1>4. ASSUME NEW i \in 1 .. Len(s)
      PROVE  Joined(SubSeq(s, 1, i - 1), <<s[i]>>) = SubSeq(s, 1, i)
  <2> DEFINE a == SubSeq(s, 1, i - 1)
             b == SubSeq(s, 1, i)
             e == <<s[i]>>
             j == Joined(a, e)
  <2>1. i \in Nat /\ i - 1 \in Nat /\ i <= Len(s) /\ s[i] \in U
    BY <1>1, <1>2
  <2>2. a \in Seq(U) /\ Len(a) = i - 1 /\ \A k \in 1 .. i - 1 : a[k] = s[k]
    BY <1>1, <1>2, <2>1, SubSeqIs
  <2>3. b \in Seq(U) /\ Len(b) = i /\ \A k \in 1 .. i : b[k] = s[k]
    BY <1>1, <1>2, <2>1, SubSeqIs
  <2>4. e \in Seq(U) /\ Len(e) = 1 /\ e[1] = s[i]
    BY <2>1
  <2> HIDE DEF a, b, e
  <2>5. IsSeq(a) /\ IsSeq(b) /\ IsSeq(e)
    BY <2>2, <2>3, <2>4 DEF IsSeq
  <2>6. IsJoin(j, a, e)
    BY <2>5, JoinedSeq
  <2> HIDE DEF j
  <2>7. /\ IsSeq(j) /\ Len(j) = (i - 1) + 1
        /\ \A k \in 1 .. i - 1 : j[k] = s[k]
        /\ j[(i - 1) + 1] = s[i]
    BY <2>1, <2>2, <2>4, <2>6 DEF IsJoin
  <2>8. Len(j) = Len(b) /\ \A k \in 1 .. Len(j) : j[k] = b[k]
    BY <2>1, <2>3, <2>7
  <2>9. j = b
    BY <2>5, <2>7, <2>8, EqualSeqs
  <2>10. QED
    BY <2>9 DEF a, b, e, j
<1>5. QED
  BY <1>3, <1>4

\* A sequence written as a function of the indexes of another.
LEMMA IndexedSeq ==
    ASSUME NEW n \in Nat, NEW q, q = [i \in 1 .. n |-> q[i]]
    PROVE  IsSeq(q) /\ Len(q) = n
<1> DEFINE U == {q[i] : i \in 1 .. n}
<1>1. q \in [1 .. n -> U]
  OBVIOUS
<1> HIDE DEF U
<1>2. QED
  BY <1>1, FunctionIsSeq DEF IsSeq

\* The elements of a list, one after the other.
LEMMA ElementsLead ==
    ASSUME NEW t \in Types, t.kind = "list", NEW v \in Values(t), NEW newer \in BOOLEAN
    PROVE  LET q == [i \in DOMAIN v |-> Write(v[i], t.of, newer)]
           IN  /\ IsSeq(v)
               /\ Leads(FlattenSeq(q), FrameOf(t, Len(v), <<>>, 0, 0), FrameOf(t, 0, v, 0, 0))
<1>1. HasType(v, t) /\ \A part \in Parts(t, v) : part[2] \in Values(part[1])
  BY ValueItem
<1>2. IsSeq(v)
  BY <1>1 DEF HasType, IsSequence, IsSeq
<1>3. Len(v) \in Nat /\ DOMAIN v = 1 .. Len(v)
  BY <1>2, SeqIs
<1>4. t.of \in Types
  BY SchemaType
<1>5. ASSUME NEW i \in 1 .. Len(v) PROVE Item(Write(v[i], t.of, newer), t.of, <<v[i]>>)
  <2>1. <<t.of, v[i]>> \in Parts(t, v)
    BY <1>3, PartsAre DEF ElementValues
  <2>2. v[i] \in Values(t.of)
    BY <1>1, <2>1
  <2>3. QED
    BY <1>4, <2>2, ValueItem
<1> DEFINE n == Len(v)
           q == [i \in DOMAIN v |-> Write(v[i], t.of, newer)]
           A == [i \in 1 .. n + 1 |-> {FrameOf(t, n - (i - 1), SubSeq(v, 1, i - 1), 0, 0)}]
<1>6. \A i \in 1 .. n : q[i] = Write(v[i], t.of, newer)
  BY <1>3
<1>7. IsSeq(q) /\ Len(q) = n
  <2>1. n \in Nat /\ q = [i \in 1 .. n |-> q[i]]
    BY <1>3
  <2> HIDE DEF q, n
  <2>2. QED
    BY <2>1, IndexedSeq
<1>8. \A i \in 1 .. n + 1 : A[i] = {FrameOf(t, n - (i - 1), SubSeq(v, 1, i - 1), 0, 0)}
  OBVIOUS
<1> HIDE DEF q, A
<1>9. ASSUME NEW i \in 1 .. n PROVE StepLeads(q, A, i)
  <2> DEFINE left == n - (i - 1)
             got == SubSeq(v, 1, i - 1)
             r == <<v[i]>>
             f == FrameOf(t, left, got, 0, 0)
             h == FrameOf(t, left - 1, Joined(got, r), 0, 0)
  <2>1. left \in Nat /\ left > 0 /\ left - 1 = n - ((i + 1) - 1) /\ (i + 1) - 1 = i
        /\ i + 1 \in 1 .. n + 1 /\ i \in 1 .. n + 1
    BY <1>3
  <2>2. Joined(got, r) = SubSeq(v, 1, (i + 1) - 1)
    BY <1>2, <2>1, PrefixIs
  <2>3. Item(q[i], t.of, r)
    BY <1>5, <1>6
  <2>4. A[i] = {f} /\ A[i + 1] = {FrameOf(t, n - ((i + 1) - 1), SubSeq(v, 1, (i + 1) - 1), 0, 0)}
    BY <1>8, <2>1
  <2>5. A[i + 1] = {h}
    BY <2>1, <2>2, <2>4
  <2> HIDE DEF left, got, r
  <2>6. Turn(q[i], f, h)
    BY <2>1, <2>3, ListTurn
  <2>7. Leads(q[i], f, h)
    BY <2>6, TurnLeads
  <2>8. QED
    BY <2>4, <2>5, <2>7 DEF StepLeads
<1>10. A[1] = {FrameOf(t, n, <<>>, 0, 0)} /\ A[n + 1] = {FrameOf(t, 0, v, 0, 0)}
  <2>1. 1 \in 1 .. n + 1 /\ n + 1 \in 1 .. n + 1 /\ 1 - 1 = 0 /\ n - 0 = n
        /\ (n + 1) - 1 = n /\ n - n = 0
    BY <1>3
  <2>2. A[1] = {FrameOf(t, n - (1 - 1), SubSeq(v, 1, 1 - 1), 0, 0)}
    BY <1>8, <2>1
  <2>3. A[n + 1] = {FrameOf(t, n - ((n + 1) - 1), SubSeq(v, 1, (n + 1) - 1), 0, 0)}
    BY <1>8, <2>1
  <2>4. SubSeq(v, 1, 0) = <<>> /\ SubSeq(v, 1, n) = v
    BY <1>2, PrefixIs
  <2>5. QED
    BY <2>1, <2>2, <2>3, <2>4
<1>11. \E h \in A[n + 1] : Leads(FlattenSeq(q), FrameOf(t, n, <<>>, 0, 0), h)
  BY <1>7, <1>9, <1>10, RoundLeads
<1>12. QED
  BY <1>2, <1>10, <1>11 DEF q

\* What leads to the end of a function and what is read there are read in a row.
LEMMA LeadsReads ==
    ASSUME NEW p, NEW f, NEW h, Leads(p, f, h), NEW r, Reads(<<>>, h, r)
    PROVE  IsSeq(p) /\ Reads(p, f, r)
<1>1. IsSeq(p)
  BY DEF Leads
<1>2. Reads(Joined(p, <<>>), f, r)
  BY EmptySeqIs DEF Leads
<1>3. QED
  BY <1>1, <1>2, JoinedEmpty

\* A list is read as it was written, an unknown variant before it left out.
LEMMA ListUnfolds ==
    ASSUME NEW t \in Types, t.kind = "list", NEW v \in Values(t), NEW newer \in BOOLEAN
    PROVE  Unfolds(WriteList(v, t, newer), t, <<v>>)
<1> DEFINE q == [i \in DOMAIN v |-> Write(v[i], t.of, newer)]
           added == IF newer /\ IsUnion(t.of) THEN 1 ELSE 0
           first == IF added = 1 THEN NewVariant ELSE <<>>
           rest == FlattenSeq(q)
           size == Len(v) + added
           tok == ListToken(t.of.wire, size)
           head == <<tok>>
           f == FrameOf(t, Len(v), <<>>, 0, 0)
<1>1. IsSeq(v) /\ Leads(rest, f, FrameOf(t, 0, v, 0, 0))
  BY ElementsLead
<1>2. Len(v) \in Nat /\ t.of \in Types
  BY <1>1, SeqIs, SchemaType
<1>3. WriteList(v, t, newer) = Joined(Joined(head, first), rest)
  BY DEF WriteList, Joined
<1>4. Reads(<<>>, FrameOf(t, 0, v, 0, 0), <<v>>)
  BY ElementsEnd
<1> HIDE DEF q, rest
<1>5. IsSeq(rest) /\ Reads(rest, f, <<v>>)
  BY <1>1, <1>4, LeadsReads
<1>6. IsSeq(first) /\ Reads(Joined(first, rest), ContainerFrame(t, size), <<v>>)
  <2>1. CASE newer /\ IsUnion(t.of)
    <3>1. first = NewVariant /\ size = Len(v) + 1
      BY <2>1
    <3>2. Item(NewVariant, t.of, UnknownVariant)
      BY <1>2, <2>1, NewVariantReads
    <3>3. Len(v) + 1 \in Nat /\ Len(v) + 1 > 0 /\ (Len(v) + 1) - 1 = Len(v)
      BY <1>2
    <3>4. Turn(NewVariant, FrameOf(t, Len(v) + 1, <<>>, 0, 0),
               FrameOf(t, (Len(v) + 1) - 1, Joined(<<>>, UnknownVariant), 0, 0))
      BY <3>2, <3>3, ListTurn
    <3>5. Joined(<<>>, UnknownVariant) = <<>>
      BY JoinedEmpty, EmptySeqIs DEF UnknownVariant
    <3>6. Turn(NewVariant, FrameOf(t, Len(v) + 1, <<>>, 0, 0), f)
      BY <3>3, <3>4, <3>5
    <3>7. Reads(Joined(NewVariant, rest), FrameOf(t, Len(v) + 1, <<>>, 0, 0), <<v>>)
      BY <1>5, <3>6, TurnReads
    <3>8. IsSeq(NewVariant)
      BY <3>2 DEF Item
    <3>9. QED
      BY <3>1, <3>7, <3>8, NewFrames
  <2>2. CASE ~(newer /\ IsUnion(t.of))
    <3>1. first = <<>> /\ size = Len(v)
      BY <1>2, <2>2
    <3>2. Joined(first, rest) = rest
      BY <1>5, <3>1, JoinedEmpty
    <3>3. QED
      BY <1>5, <3>1, <3>2, NewFrames, EmptySeqIs
  <2>3. QED
    BY <2>1, <2>2
<1>7. tok.is = "list" /\ tok.size = size /\ size \in Nat
  BY <1>2 DEF ListToken
<1>8. IsSeq(head)
  BY SingleSeqIs
<1>9. OfWire(t, tok) = t
  BY SchemaType
<1> DEFINE T == Joined(first, rest)
<1> HIDE DEF first, size
<1>10. IsSeq(T)
  BY <1>6, ReadsIs
<1>11. WriteList(v, t, newer) = Joined(<<tok>>, T)
  BY <1>3, <1>5, <1>6, <1>8, JoinedAgain
<1> HIDE DEF tok, T
<1>12. Reads(T, ContainerFrame(OfWire(t, tok), tok.size), <<v>>)
  BY <1>6, <1>7, <1>9 DEF T
<1>13. ~HasFields(t)
  BY DEF HasFields
<1>14. QED
  BY <1>7, <1>10, <1>11, <1>12, <1>13 DEF Unfolds

\* The keys of a map are written once each.
LEMMA SetToSeqIs ==
    ASSUME NEW S, IsFiniteSet(S)
    PROVE  LET s == SetToSeq(S)
           IN  IsSeq(s) /\ {s[i] : i \in 1 .. Len(s)} = S
<1> DEFINE n == Cardinality(S)
           s == SetToSeq(S)
<1>1. n \in Nat /\ ExistsBijection(1 .. n, S)
  BY FS_CardinalityType
<1>2. \E f \in [1 .. n -> S] : IsInjective(f)
  BY <1>1 DEF ExistsBijection, Bijection, Injection
<1>3. s \in [1 .. n -> S] /\ IsInjective(s)
  BY <1>2 DEF SetToSeq
<1> HIDE DEF s
<1>4. s \in Injection(1 .. n, S)
  BY <1>3 DEF Injection
<1>5. Cardinality(1 .. n) = n
  BY <1>1, FS_Interval
<1>6. s \in Surjection(1 .. n, S)
  BY <1>4, <1>5, FS_Injection
<1>7. {s[i] : i \in 1 .. n} = S
  BY <1>3, <1>6 DEF Surjection
<1>8. s \in Seq(S) /\ Len(s) = n
  BY <1>1, <1>3, FunctionIsSeq
<1>9. QED
  BY <1>7, <1>8 DEF IsSeq, s

\* The part of a mapping with the names or keys of a set.
Only(v, S) == [k \in S |-> v[k]]

\* What a map got is the map on the keys written so far; the next key adds itself.
LEMMA OnlyIs ==
    ASSUME NEW v
    PROVE  /\ \A S : DOMAIN Only(v, S) = S
           /\ Only(v, {}) = <<>>
           /\ IsMapping(v) => Only(v, DOMAIN v) = v
           /\ \A S, k : With(Only(v, S), k, v[k]) = Only(v, S \cup {k})
<1>1. \A S : DOMAIN Only(v, S) = S
  BY DEF Only
<1>2. Only(v, {}) = <<>>
  <2> DEFINE f == Only(v, {})
  <2>1. f \in [1 .. 0 -> {}]
    <3>1. 1 .. 0 = {}
      OBVIOUS
    <3>2. QED
      BY <3>1 DEF Only
  <2> HIDE DEF f
  <2>2. f \in Seq({}) /\ Len(f) = 0
    BY <2>1, FunctionIsSeq
  <2>3. f = <<>>
    BY <2>2, EmptySeq
  <2>4. QED
    BY <2>3 DEF f
<1>3. IsMapping(v) => Only(v, DOMAIN v) = v
  BY DEF Only, IsMapping
<1>4. ASSUME NEW S, NEW k PROVE With(Only(v, S), k, v[k]) = Only(v, S \cup {k})
  <2> DEFINE w == With(Only(v, S), k, v[k])
             o == Only(v, S)
             u == Only(v, S \cup {k})
  <2>1. \A n \in S : o[n] = v[n]
    BY DEF Only
  <2>2. DOMAIN o = S
    BY <1>1
  <2>3. \A n \in S \cup {k} : u[n] = v[n]
    BY DEF Only
  <2>4. u = [n \in S \cup {k} |-> u[n]]
    BY DEF Only
  <2> HIDE DEF o, u
  <2>5. With(o, k, v[k]) = [n \in S \cup {k} |-> IF n = k THEN v[k] ELSE o[n]]
    BY <2>2 DEF With
  <2>6. \A n \in S \cup {k} : (IF n = k THEN v[k] ELSE o[n]) = u[n]
    BY <2>1, <2>3
  <2>7. With(o, k, v[k]) = u
    BY <2>4, <2>5, <2>6
  <2>8. QED
    BY <2>7 DEF o, u
<1>5. QED
  BY <1>1, <1>2, <1>3, <1>4

\* A map is read as the map that was written.
LEMMA MapUnfolds ==
    ASSUME NEW t \in Types, t.kind = "map", NEW v \in Values(t), NEW newer \in BOOLEAN
    PROVE  Unfolds(WriteMap(v, t, newer), t, <<v>>)
<1> DEFINE keys == SetToSeq(DOMAIN v)
           n == Len(keys)
           q == [i \in DOMAIN keys |->
                    Write(keys[i], t.key, newer) \o Write(v[keys[i]], t.of, newer)]
           Upto(i) == {keys[j] : j \in 1 .. i}
           A == [i \in 1 .. n + 1 |-> {FrameOf(t, n - (i - 1), Only(v, Upto(i - 1)), 0, 0)}]
           rest == FlattenSeq(q)
           tok == MapToken(t.key.wire, t.of.wire, n)
           f == FrameOf(t, n, <<>>, 0, 0)
           h == FrameOf(t, 0, v, 0, 0)
<1>1. /\ HasType(v, t) /\ \A part \in Parts(t, v) : part[2] \in Values(part[1])
      /\ DOMAIN v \subseteq Values(t.key)
  BY ValueItem
<1>2. IsMapping(v) /\ IsFiniteSet(DOMAIN v)
  BY <1>1 DEF HasType
<1>3. IsSeq(keys) /\ Upto(n) = DOMAIN v
  BY <1>2, SetToSeqIs
<1>4. n \in Nat /\ DOMAIN keys = 1 .. n
  BY <1>3, SeqIs
<1>5. t.key \in Types /\ t.of \in Types
  BY SchemaType
<1> HIDE DEF keys
<1>6. ASSUME NEW i \in 1 .. n
      PROVE  /\ Item(Write(keys[i], t.key, newer), t.key, <<keys[i]>>)
             /\ Item(Write(v[keys[i]], t.of, newer), t.of, <<v[keys[i]]>>)
  <2>1. keys[i] \in DOMAIN v
    BY <1>3
  <2>2. keys[i] \in Values(t.key)
    BY <1>1, <2>1
  <2>3. <<t.of, v[keys[i]]>> \in Parts(t, v)
    BY <2>1, PartsAre DEF ElementValues
  <2>4. v[keys[i]] \in Values(t.of)
    BY <1>1, <2>3
  <2>5. QED
    BY <1>5, <2>2, <2>4, ValueItem
<1>7. \A i \in 1 .. n : q[i] = Joined(Write(keys[i], t.key, newer), Write(v[keys[i]], t.of, newer))
  BY <1>4 DEF Joined
<1>8. IsSeq(q) /\ Len(q) = n
  <2>1. n \in Nat /\ q = [i \in 1 .. n |-> q[i]]
    BY <1>4
  <2> HIDE DEF q, n
  <2>2. QED
    BY <2>1, IndexedSeq
<1>9. \A i \in 1 .. n + 1 : A[i] = {FrameOf(t, n - (i - 1), Only(v, Upto(i - 1)), 0, 0)}
  OBVIOUS
<1> HIDE DEF q, A
<1>10. ASSUME NEW i \in 1 .. n PROVE StepLeads(q, A, i)
  <2> DEFINE left == n - (i - 1)
             got == Only(v, Upto(i - 1))
             k == keys[i]
             g == FrameOf(t, left, got, 0, 0)
             u == FrameOf(t, left - 1, With(got, k, v[k]), 0, 0)
  <2>1. left \in Nat /\ left > 0 /\ left - 1 = n - ((i + 1) - 1) /\ (i + 1) - 1 = i
        /\ i + 1 \in 1 .. n + 1 /\ i \in 1 .. n + 1
    BY <1>4
  <2>2. Upto(i) = Upto(i - 1) \cup {k}
    <3>1. \A j : j \in 1 .. i <=> j \in 1 .. i - 1 \/ j = i
      BY <1>4
    <3>2. QED
      BY <3>1
  <2>3. With(got, k, v[k]) = Only(v, Upto((i + 1) - 1))
    <3> DEFINE S == Upto(i - 1)
    <3>1. Upto((i + 1) - 1) = S \cup {k}
      BY <2>1, <2>2
    <3> HIDE DEF Upto, S, k
    <3>2. With(Only(v, S), k, v[k]) = Only(v, S \cup {k})
      BY OnlyIs
    <3>3. QED
      BY <3>1, <3>2 DEF S
  <2>4. A[i] = {g} /\ A[i + 1] = {FrameOf(t, n - ((i + 1) - 1), Only(v, Upto((i + 1) - 1)), 0, 0)}
    BY <1>9, <2>1
  <2>5. A[i + 1] = {u}
    BY <2>1, <2>3, <2>4
  <2>6. Item(Write(k, t.key, newer), t.key, <<k>>) /\ Item(Write(v[k], t.of, newer), t.of, <<v[k]>>)
    BY <1>6
  <2>7. q[i] = Joined(Write(k, t.key, newer), Write(v[k], t.of, newer))
    BY <1>7
  <2> HIDE DEF left, got, k
  <2>8. Leads(q[i], g, u)
    BY <2>1, <2>6, <2>7, MapTurns
  <2>9. QED
    BY <2>4, <2>5, <2>8 DEF StepLeads
<1>11. A[1] = {f} /\ A[n + 1] = {h}
  <2>1. 1 \in 1 .. n + 1 /\ n + 1 \in 1 .. n + 1 /\ 1 - 1 = 0 /\ n - 0 = n
        /\ (n + 1) - 1 = n /\ n - n = 0
    BY <1>4
  <2>2. A[1] = {FrameOf(t, n - (1 - 1), Only(v, Upto(1 - 1)), 0, 0)}
    BY <1>9, <2>1
  <2>3. A[n + 1] = {FrameOf(t, n - ((n + 1) - 1), Only(v, Upto((n + 1) - 1)), 0, 0)}
    BY <1>9, <2>1
  <2>4. Upto(0) = {}
    OBVIOUS
  <2>5. Only(v, Upto(0)) = <<>> /\ Only(v, Upto(n)) = v
    BY <1>2, <1>3, <2>4, OnlyIs
  <2>6. QED
    BY <2>1, <2>2, <2>3, <2>5
<1>12. Leads(rest, f, h)
  <2>1. \E x \in A[n + 1] : Leads(rest, f, x)
    BY <1>8, <1>10, <1>11, RoundLeads
  <2>2. QED
    BY <1>11, <2>1
<1>13. Reads(<<>>, h, <<v>>)
  BY ElementsEnd
<1> HIDE DEF rest
<1>14. IsSeq(rest) /\ Reads(rest, f, <<v>>)
  BY <1>12, <1>13, LeadsReads
<1>15. WriteMap(v, t, newer) = Joined(<<tok>>, rest)
  BY DEF WriteMap, Joined, rest, q, keys
<1>16. tok.is = "map" /\ tok.size = n
  BY DEF MapToken
<1>17. OfWire(t, tok) = t
  BY SchemaType
<1> HIDE DEF tok, n
<1>18. Reads(rest, ContainerFrame(OfWire(t, tok), tok.size), <<v>>)
  BY <1>14, <1>16, <1>17, NewFrames
<1>19. ~HasFields(t)
  BY DEF HasFields
<1>20. QED
  BY <1>4, <1>14, <1>15, <1>16, <1>18, <1>19 DEF Unfolds

\* A field that is set adds itself to the fields got so far.
LEMMA OnlyWith ==
    ASSUME NEW v, NEW S, NEW k
    PROVE  With(Only(v, S), k, v[k]) = Only(v, S \cup {k})
  BY OnlyIs

\* Fields of a type, one after the other: the names of the first that are set, and
\* how many fields have been counted by then.
SetUpto(t, v, i) == {t.fields[j].name : j \in 1 .. i} \cap DOMAIN v

Counts(t, S) == IF IsUnion(t) THEN {IF S = {} THEN 0 ELSE 1} ELSE Nat

KnownFrames(t, v, S) == {FrameOf(t, 0, Only(v, S), c, c) : c \in Counts(t, S)}

\* The fields of a type are told apart by their ids and by their names.
LEMMA FieldsAre ==
    ASSUME NEW t \in Types, HasFields(t)
    PROVE  /\ Len(t.fields) \in Nat /\ DOMAIN t.fields = 1 .. Len(t.fields)
           /\ FieldsOf(t) = {t.fields[i] : i \in 1 .. Len(t.fields)}
           /\ \A i, j \in 1 .. Len(t.fields) : t.fields[i].name = t.fields[j].name => i = j
           /\ \A e \in FieldsOf(t) :
                 e.type \in Types /\ e.type.wire # "stop" /\ FieldsWith(t, e.id) = {e}
<1>1. /\ t.fields \in Seq(FieldsOf(t))
      /\ \A f \in FieldsOf(t) : f.type \in Types
      /\ \A i, j \in DOMAIN t.fields :
            t.fields[i].name = t.fields[j].name \/ t.fields[i].id = t.fields[j].id => i = j
  BY TypesAssumption DEF IsSchema
<1>2. Len(t.fields) \in Nat /\ DOMAIN t.fields = 1 .. Len(t.fields)
  BY <1>1, LenProperties
<1>3. FieldsOf(t) = {t.fields[i] : i \in 1 .. Len(t.fields)}
  BY <1>2 DEF FieldsOf
<1>4. ASSUME NEW e \in FieldsOf(t) PROVE FieldsWith(t, e.id) = {e}
  <2>1. PICK i \in DOMAIN t.fields : t.fields[i] = e
    BY DEF FieldsOf
  <2>2. ASSUME NEW g \in FieldsOf(t), g.id = e.id PROVE g = e
    <3>1. PICK j \in DOMAIN t.fields : t.fields[j] = g
      BY DEF FieldsOf
    <3>2. QED
      BY <1>1, <2>1, <2>2, <3>1
  <2>3. QED
    BY <2>2 DEF FieldsWith
<1>5. \A e \in FieldsOf(t) : e.type \in Types /\ e.type.wire # "stop"
  BY <1>1, NewerAssumption
<1>6. QED
  BY <1>1, <1>2, <1>3, <1>4, <1>5

\* One of them.
LEMMA FieldLeads ==
    ASSUME NEW t \in Types, HasFields(t), NEW v \in Values(t), NEW newer \in BOOLEAN,
           NEW i \in 1 .. Len(t.fields),
           NEW f \in KnownFrames(t, v, SetUpto(t, v, i - 1))
    PROVE  \E h \in KnownFrames(t, v, SetUpto(t, v, i)) :
              Leads(WriteField(t.fields[i], v, newer), f, h)
<1> DEFINE e == t.fields[i]
           R == SetUpto(t, v, i - 1)
           S == SetUpto(t, v, i)
           w == WriteField(e, v, newer)
<1>1. e \in FieldsOf(t) /\ e.type \in Types /\ e.type.wire # "stop" /\ FieldsWith(t, e.id) = {e}
  BY FieldsAre
<1>2. \A j : j \in 1 .. i <=> j \in 1 .. i - 1 \/ j = i
  BY FieldsAre
<1>3. PICK c \in Counts(t, R) : f = FrameOf(t, 0, Only(v, R), c, c)
  BY DEF KnownFrames
<1>4. CASE e.name \notin DOMAIN v
  <2>1. S = R
    BY <1>2, <1>4 DEF SetUpto
  <2>2. w = <<>>
    BY <1>4 DEF WriteField
  <2>3. QED
    BY <2>1, <2>2, NothingLeads
<1>5. CASE e.name \in DOMAIN v
  <2> DEFINE x == v[e.name]
             h == FrameOf(t, 0, Only(v, S), c + 1, c + 1)
  <2>1. S = R \cup {e.name}
    BY <1>2, <1>5 DEF SetUpto
  <2>2. With(Only(v, R), e.name, x) = Only(v, S)
    <3> DEFINE m == e.name
    <3>1. S = R \cup {m} /\ x = v[m] /\ e.name = m
      BY <2>1
    <3> HIDE DEF e, R, S, x, m
    <3>2. With(Only(v, R), m, v[m]) = Only(v, R \cup {m})
      BY OnlyWith
    <3>3. QED
      BY <3>1, <3>2
  <2>3. w = Joined(<<FieldToken(e.id, e.type.wire)>>, Write(x, e.type, newer))
    BY <1>5 DEF WriteField, Joined
  <2>4. Item(Write(x, e.type, newer), e.type, <<x>>)
    <3>1. <<e.type, x>> \in Parts(t, v)
      BY <1>1, <1>5, PartsAre DEF FieldValues
    <3>2. x \in Values(e.type)
      BY <3>1, ValueItem
    <3>3. QED
      BY <1>1, <3>2, ValueItem
  <2>5. IsUnion(t) => R = {}
    <3>1. SUFFICES ASSUME IsUnion(t), NEW m \in R PROVE FALSE
      OBVIOUS
    <3>2. HasType(v, t)
      BY ValueItem
    <3>3. PICK g : DOMAIN v = {g}
      BY <3>1, <3>2 DEF HasType, IsUnion
    <3>4. PICK j \in 1 .. i - 1 : m = t.fields[j].name /\ m \in DOMAIN v
      BY DEF SetUpto
    <3>5. t.fields[j].name = e.name /\ j \in 1 .. Len(t.fields)
      BY <1>5, <3>3, <3>4, FieldsAre
    <3>6. j = i
      BY <3>5, FieldsAre
    <3>7. QED
      BY <3>4, <3>6, FieldsAre
  <2>6. c \in Nat /\ (t.kind = "struct" \/ c = 0) /\ c + 1 \in Counts(t, S)
    BY <1>3, <2>1, <2>5 DEF Counts, IsUnion, HasFields
  <2>7. h \in KnownFrames(t, v, S)
    BY <2>6 DEF KnownFrames
  <2> HIDE DEF e, x, w, S, R
  <2>8. Turn(Joined(<<FieldToken(e.id, e.type.wire)>>, Write(x, e.type, newer)),
             FrameOf(t, 0, Only(v, R), c, c),
             FrameOf(t, 0, With(Only(v, R), e.name, x), c + 1, c + 1))
    BY <1>1, <2>4, <2>6, KnownTurn
  <2>9. Turn(w, f, h)
    BY <1>3, <2>2, <2>3, <2>8
  <2>10. Leads(w, f, h)
    BY <2>9, TurnLeads
  <2>11. QED
    BY <2>7, <2>10 DEF w, e, S
<1>6. QED
  BY <1>4, <1>5

\* The fields this schema knows lead to the value that was written.
LEMMA KnownFieldsLead ==
    ASSUME NEW t \in Types, HasFields(t), NEW v \in Values(t), NEW newer \in BOOLEAN
    PROVE  LET q == [i \in DOMAIN t.fields |-> WriteField(t.fields[i], v, newer)]
           IN  \E c \in Counts(t, DOMAIN v) :
                  Leads(FlattenSeq(q), FrameOf(t, 0, <<>>, 0, 0), FrameOf(t, 0, v, c, c))
<1> DEFINE n == Len(t.fields)
           q == [i \in DOMAIN t.fields |-> WriteField(t.fields[i], v, newer)]
           A == [i \in 1 .. n + 1 |-> KnownFrames(t, v, SetUpto(t, v, i - 1))]
           f == FrameOf(t, 0, <<>>, 0, 0)
<1>1. n \in Nat /\ DOMAIN t.fields = 1 .. n
  BY FieldsAre
<1>2. \A i \in 1 .. n : q[i] = WriteField(t.fields[i], v, newer)
  BY <1>1
<1>3. IsSeq(q) /\ Len(q) = n
  <2>1. n \in Nat /\ q = [i \in 1 .. n |-> q[i]]
    BY <1>1
  <2> HIDE DEF q, n
  <2>2. QED
    BY <2>1, IndexedSeq
<1>4. \A i \in 1 .. n + 1 : A[i] = KnownFrames(t, v, SetUpto(t, v, i - 1))
  OBVIOUS
<1> HIDE DEF q, A
<1>5. ASSUME NEW i \in 1 .. n PROVE StepLeads(q, A, i)
  <2>1. i \in 1 .. n + 1 /\ i + 1 \in 1 .. n + 1 /\ (i + 1) - 1 = i
    BY <1>1
  <2>2. A[i] = KnownFrames(t, v, SetUpto(t, v, i - 1))
        /\ A[i + 1] = KnownFrames(t, v, SetUpto(t, v, i))
    BY <1>4, <2>1
  <2>3. \A g \in KnownFrames(t, v, SetUpto(t, v, i - 1)) :
           \E h \in KnownFrames(t, v, SetUpto(t, v, i)) :
              Leads(WriteField(t.fields[i], v, newer), g, h)
    BY FieldLeads
  <2>4. QED
    BY <1>2, <2>2, <2>3 DEF StepLeads
<1>6. 1 \in 1 .. n + 1 /\ n + 1 \in 1 .. n + 1 /\ 1 - 1 = 0 /\ (n + 1) - 1 = n
  BY <1>1
<1>7. f \in A[1]
  <2>1. SetUpto(t, v, 0) = {}
    BY DEF SetUpto
  <2>2. A[1] = KnownFrames(t, v, {})
    BY <1>4, <1>6, <2>1
  <2>3. 0 \in Counts(t, {}) /\ Only(v, {}) = <<>>
    BY OnlyIs DEF Counts
  <2>4. QED
    BY <2>2, <2>3 DEF KnownFrames
<1>8. A[n + 1] = KnownFrames(t, v, DOMAIN v)
  <2>1. HasType(v, t)
    BY ValueItem
  <2>2. DOMAIN v \subseteq NamesOf(FieldsOf(t))
    BY <2>1 DEF HasType, HasFields, NamesOf
  <2>3. SetUpto(t, v, n) = DOMAIN v
    <3>1. FieldsOf(t) = {t.fields[i] : i \in 1 .. n}
      BY FieldsAre
    <3>2. ASSUME NEW m \in DOMAIN v PROVE m \in {t.fields[j].name : j \in 1 .. n}
      <4>1. PICK e \in FieldsOf(t) : m = e.name
        BY <2>2 DEF NamesOf
      <4>2. QED
        BY <3>1, <4>1
    <3>3. QED
      BY <3>2 DEF SetUpto
  <2>4. QED
    BY <1>4, <1>6, <2>3
<1>9. PICK h \in A[n + 1] : Leads(FlattenSeq(q), f, h)
  BY <1>3, <1>5, <1>7, RoundLeads
<1>10. IsMapping(v)
  <2>1. HasType(v, t)
    BY ValueItem
  <2>2. QED
    BY <2>1 DEF HasType, HasFields
<1>11. Only(v, DOMAIN v) = v
  BY <1>10, OnlyIs
<1>12. PICK c \in Counts(t, DOMAIN v) : h = FrameOf(t, 0, v, c, c)
  BY <1>8, <1>9, <1>11 DEF KnownFrames
<1>13. QED
  BY <1>9, <1>12 DEF q

\* What a newer schema adds to a struct: fields without effect.
LEMMA NewFieldsLead ==
    ASSUME NEW t \in Types, HasFields(t), NEW v, NEW c \in Nat
    PROVE  \E a \in Nat : Leads(WriteNew(t, v), FrameOf(t, 0, v, c, c), FrameOf(t, 0, v, a, c))
<1> DEFINE n == Len(t.fields)
           Unset(i) == IsUnion(t.fields[i].type) /\ t.fields[i].name \notin DOMAIN v
           q == [i \in DOMAIN t.fields |->
                   IF IsUnion(t.fields[i].type) /\ t.fields[i].name \notin DOMAIN v
                   THEN <<FieldToken(t.fields[i].id, "struct")>> \o NewVariant
                   ELSE <<>>]
           G == {FrameOf(t, 0, v, a, c) : a \in Nat}
           A == [i \in 1 .. n + 1 |-> G]
           f == FrameOf(t, 0, v, c, c)
<1>1. n \in Nat /\ DOMAIN t.fields = 1 .. n
  BY FieldsAre
<1>2. \A i \in 1 .. n :
         q[i] = IF Unset(i) THEN Joined(<<FieldToken(t.fields[i].id, "struct")>>, NewVariant)
                ELSE <<>>
  BY <1>1 DEF Joined
<1>3. IsSeq(q) /\ Len(q) = n
  <2>1. n \in Nat /\ q = [i \in 1 .. n |-> q[i]]
    BY <1>1
  <2> HIDE DEF q, n
  <2>2. QED
    BY <2>1, IndexedSeq
<1>4. \A i \in 1 .. n + 1 : A[i] = G
  OBVIOUS
<1> HIDE DEF q, A
<1>5. ASSUME NEW i \in 1 .. n PROVE StepLeads(q, A, i)
  <2> DEFINE e == t.fields[i]
  <2>1. e \in FieldsOf(t) /\ e.type \in Types /\ FieldsWith(t, e.id) = {e}
    BY FieldsAre
  <2>2. A[i] = G /\ A[i + 1] = G
    BY <1>1, <1>4
  <2>3. ASSUME NEW g \in G PROVE \E h \in G : Leads(q[i], g, h)
    <3>1. PICK a \in Nat : g = FrameOf(t, 0, v, a, c)
      BY <2>3
    <3>2. CASE Unset(i)
      <4>1. q[i] = Joined(<<FieldToken(e.id, "struct")>>, NewVariant)
        BY <1>2, <3>2
      <4>2. Item(NewVariant, e.type, UnknownVariant)
        BY <2>1, <3>2, NewVariantReads
      <4> HIDE DEF e
      <4>3. \E x : FieldsWith(t, e.id) = {x} /\ Item(NewVariant, x.type, UnknownVariant)
        BY <2>1, <4>2
      <4>4. Turn(Joined(<<FieldToken(e.id, "struct")>>, NewVariant),
                 FrameOf(t, 0, v, a, c), FrameOf(t, 0, v, a + 1, c))
        <5>1. "struct" # "stop"
          OBVIOUS
        <5>2. QED
          BY <4>3, <5>1, BlankTurn
      <4>5. Leads(q[i], g, FrameOf(t, 0, v, a + 1, c))
        BY <3>1, <4>1, <4>4, TurnLeads
      <4>6. FrameOf(t, 0, v, a + 1, c) \in G
        OBVIOUS
      <4>7. QED
        BY <4>5, <4>6
    <3>3. CASE ~Unset(i)
      <4>1. q[i] = <<>>
        BY <1>2, <3>3
      <4>2. QED
        BY <2>3, <4>1, NothingLeads
    <3>4. QED
      BY <3>2, <3>3
  <2>4. QED
    BY <2>2, <2>3 DEF StepLeads
<1>6. A[1] = G /\ A[n + 1] = G /\ f \in G
  BY <1>1, <1>4
<1>7. PICK h \in G : Leads(FlattenSeq(q), f, h)
  BY <1>3, <1>5, <1>6, RoundLeads
<1>8. PICK a \in Nat : h = FrameOf(t, 0, v, a, c)
  BY <1>7
<1> DEFINE u == FrameOf(t, 0, v, a + 1, c)
           p == Joined(<<FieldToken(UnknownId, "list")>>, SkippedList)
<1>9. Turn(p, h, u)
  <2>1. FieldsWith(t, UnknownId) = {}
    BY NewerAssumption
  <2>2. "list" # "stop" /\ Item(SkippedList, SkipType("list"), << << <<>> >> >>)
    BY SkipList
  <2>3. QED
    BY <1>8, <2>1, <2>2, BlankTurn
<1>10. NewField = p
  BY DEF NewField, Joined, SkippedList, SkippedStruct
<1>11. WriteNew(t, v) = Joined(FlattenSeq(q), p)
  BY <1>10 DEF WriteNew, Joined, q
<1> HIDE DEF p
<1>12. Leads(WriteNew(t, v), f, u)
  BY <1>7, <1>9, <1>11, TurnLeads, LeadsOn
<1>13. a + 1 \in Nat
  OBVIOUS
<1>14. QED
  BY <1>12, <1>13

\* A struct or union is read as what was written, whatever a newer schema adds.
LEMMA FieldsUnfold ==
    ASSUME NEW t \in Types, HasFields(t), NEW v \in Values(t), NEW newer \in BOOLEAN
    PROVE  Reads(WriteStruct(v, t, newer), StructFrame(t), <<v>>)
<1> DEFINE q == [i \in DOMAIN t.fields |-> WriteField(t.fields[i], v, newer)]
           known == FlattenSeq(q)
           new == IF newer /\ t.kind = "struct" THEN WriteNew(t, v) ELSE <<>>
           last == <<StopToken>>
           f == FrameOf(t, 0, <<>>, 0, 0)
<1>1. PICK c \in Counts(t, DOMAIN v) : Leads(known, f, FrameOf(t, 0, v, c, c))
  BY KnownFieldsLead
<1>2. HasType(v, t)
  BY ValueItem
<1>3. c \in Nat /\ (IsUnion(t) => c = 1)
  <2>1. IsUnion(t) => DOMAIN v # {}
    BY <1>2 DEF HasType, IsUnion
  <2>2. QED
    BY <1>1, <2>1 DEF Counts
<1>4. WriteStruct(v, t, newer) = Joined(Joined(known, new), last)
  BY DEF WriteStruct, Joined
<1> HIDE DEF known, q
<1>5. PICK a \in Nat :
         /\ Leads(new, FrameOf(t, 0, v, c, c), FrameOf(t, 0, v, a, c))
         /\ IsUnion(t) => a = 1
  <2>1. CASE newer /\ t.kind = "struct"
    <3>1. new = WriteNew(t, v) /\ ~IsUnion(t)
      BY <2>1 DEF IsUnion
    <3>2. QED
      BY <1>3, <3>1, NewFieldsLead
  <2>2. CASE ~(newer /\ t.kind = "struct")
    <3>1. new = <<>>
      BY <2>2
    <3>2. QED
      BY <1>3, <3>1, NothingLeads
  <2>3. QED
    BY <2>1, <2>2
<1>6. Reads(last, FrameOf(t, 0, v, a, c), <<v>>)
  <2>1. t.kind = "struct" => RequiredNames(t) \subseteq DOMAIN v
    BY <1>2 DEF HasType
  <2>2. t.kind = "union" => a # 0 /\ ~(c > 1) /\ c # 0
    BY <1>3, <1>5 DEF IsUnion
  <2>3. t.kind = "union" =>
           /\ a # 0 /\ ~(c > 1)
           /\ <<v>> = IF c = 0 THEN UnknownVariant ELSE <<v>>
    BY <2>2
  <2>4. QED
    BY <2>1, <2>3, FieldsEnd
<1> HIDE DEF new
<1>7. Leads(Joined(known, new), f, FrameOf(t, 0, v, a, c))
  BY <1>1, <1>5, LeadsOn
<1>8. Reads(Joined(Joined(known, new), last), f, <<v>>)
  BY <1>6, <1>7, SingleSeqIs DEF Leads
<1>9. QED
  BY <1>4, <1>8, NewFrames

(***************************************************************************)
(* Every item is read as what it is.                                       *)
(***************************************************************************)
LEMMA ItemUnfolds ==
    ASSUME NEW W, NEW t, NEW r, Item(W, t, r)
    PROVE  Unfolds(W, t, r)
<1>1. ASSUME NEW newer \in BOOLEAN, NEW v \in Values(t), t \in Types,
             W = Write(v, t, newer), r = <<v>>
      PROVE  Unfolds(W, t, r)
  <2>1. W = Writes(v, t, newer)
    BY <1>1, ValueItem
  <2>2. t.kind \in {"scalar", "list", "map", "struct", "union"}
    BY <1>1, SchemaType
  <2>3. CASE t.kind = "scalar"
    <3>1. W = <<ScalarToken(v)>>
      BY <2>1, <2>3 DEF Writes
    <3>2. QED
      BY <1>1, <2>3, <3>1 DEF Unfolds, HasFields
  <2>4. CASE t.kind = "list"
    BY <1>1, <2>1, <2>4, ListUnfolds DEF Writes
  <2>5. CASE t.kind = "map"
    BY <1>1, <2>1, <2>5, MapUnfolds DEF Writes
  <2>6. CASE HasFields(t)
    <3>1. W = WriteStruct(v, t, newer)
      BY <2>1, <2>6 DEF Writes, HasFields
    <3>2. Reads(W, StructFrame(t), r)
      BY <1>1, <2>6, <3>1, FieldsUnfold
    <3>3. QED
      BY <2>2, <2>6, <3>2 DEF Unfolds, HasFields
  <2>7. QED
    BY <2>2, <2>3, <2>4, <2>5, <2>6 DEF HasFields
<1>2. CASE IsVariant(W, t, r)
  <2>1. t \in Types /\ IsUnion(t) /\ W = NewVariant /\ r = UnknownVariant
    BY <1>2 DEF IsVariant
  <2>2. t.kind = "union"
    BY <2>1 DEF IsUnion
  <2>3. Reads(W, StructFrame(t), r)
    BY <2>1, NewVariantReads
  <2>4. QED
    BY <2>2, <2>3 DEF Unfolds, HasFields
<1>3. CASE t = SkipType("string") /\ W = <<ScalarToken(0)>> /\ r = <<0>>
  BY <1>3, SkipString DEF Unfolds, HasFields
<1>4. CASE t = SkipType("struct") /\ W = SkippedStruct /\ r = << <<>> >>
  <2>1. t.kind = "struct" /\ Reads(W, StructFrame(t), r)
    BY <1>4, SkipStruct
  <2>2. QED
    BY <2>1 DEF Unfolds, HasFields
<1>5. CASE t = SkipType("list") /\ W = SkippedList /\ r = << << <<>> >> >>
  BY <1>5, SkipList
<1>6. QED
  BY <1>1, <1>2, <1>3, <1>4, <1>5 DEF Item, IsValue, IsSkipped, SkippedList

-----------------------------------------------------------------------------
(***************************************************************************)
(* A pass over what was written.  Each function under way below the top    *)
(* waits for the result of the one above it, and goes on with the tokens   *)
(* that come after those the one above it reads.                           *)
(***************************************************************************)
Ready(T, f, r) ==
    IF Wants(f)
    THEN \E W, T2, x :
            /\ IsSeq(T2) /\ T = Joined(W, T2)
            /\ Item(W, WantedBy(f), x) /\ Reads(T2, Taken(f, x), r)
    ELSE Reads(T, f, r)

Waits(before, after, f, x, r) ==
    \E T : IsSeq(T) /\ before = Joined(T, after) /\ Reads(T, Taken(f, x), r)

Waiting(frames, v, c, R, n) ==
    /\ c[1] = <<>> /\ R[1] = <<v>>
    /\ \A i \in 1 .. n : IsSeq(c[i])
    /\ \A i \in 1 .. n - 1 : Waits(c[i + 1], c[i], frames[i], R[i + 1], R[i])

Heads(rest, after, f, r) == \E T : IsSeq(T) /\ rest = Joined(T, after) /\ Ready(T, f, r)

TracksBy(frames, rest, v, c, R) ==
    /\ Waiting(frames, v, c, R, Len(frames))
    /\ Heads(rest, c[Len(frames)], frames[Len(frames)], R[Len(frames)])

Tracks(frames, rest, v) ==
    IsSeq(frames) /\ frames # <<>> /\ \E c, R : TracksBy(frames, rest, v, c, R)

\* A function at the head of its loop is ready to read on.
LEMMA ReadsReady ==
    ASSUME NEW T, NEW f, NEW r, Reads(T, f, r)
    PROVE  IsSeq(T) /\ Ready(T, f, r)
<1>1. IsSeq(T)
  BY ReadsIs
<1>2. CASE ~Wants(f)
  BY <1>1, <1>2 DEF Ready
<1>3. CASE Wants(f)
  <2>1. CASE Ends(T, f, r)
    BY <1>3, <2>1 DEF Ends, Wants
  <2>2. ASSUME NEW p, NEW h, NEW T2,
               Turn(p, f, h), IsSeq(T2), T = Joined(p, T2), Reads(T2, h, r)
        PROVE  Ready(T, f, r)
    <3>1. ElementTurn(p, f, h)
      BY <1>3, <2>2 DEF Turn, FieldTurn, Wants
    <3>2. QED
      BY <1>3, <2>2, <3>1 DEF ElementTurn, Ready
  <2>3. QED
    BY <1>1, <2>1, <2>2, ReadsIs
<1>4. QED
  BY <1>2, <1>3

\* A function that gets the result it waits for reads on.
LEMMA WaitsHeads ==
    ASSUME NEW before, NEW after, NEW f, NEW x, NEW r, Waits(before, after, f, x, r)
    PROVE  Heads(before, after, Taken(f, x), r)
  BY ReadsReady DEF Waits, Heads

\* The frames below the top are what they were.
LEMMA WaitingBelow ==
    ASSUME NEW s, NEW t, NEW v, NEW c, NEW R, NEW n \in Nat, Waiting(s, v, c, R, n),
           NEW m \in Nat, m <= n, \A i \in 1 .. m - 1 : s[i] = t[i]
    PROVE  Waiting(t, v, c, R, m)
<1>1. \A i \in 1 .. m : i \in 1 .. n
  OBVIOUS
<1>2. \A i \in 1 .. m - 1 : i \in 1 .. n - 1
  OBVIOUS
<1>3. QED
  BY <1>1, <1>2 DEF Waiting

\* A pass begins with one function, which returns the value of the pass.
LEMMA TracksNew ==
    ASSUME NEW f, NEW v, NEW T, Reads(T, f, <<v>>)
    PROVE  Tracks(<<f>>, T, v)
<1> DEFINE s == <<f>>
           c == [i \in 1 .. 1 |-> <<>>]
           R == [i \in 1 .. 1 |-> <<v>>]
<1>1. IsSeq(s) /\ Len(s) = 1 /\ s[1] = f
  BY SingleSeqIs
<1>2. c[1] = <<>> /\ R[1] = <<v>>
  OBVIOUS
<1> HIDE DEF s, c, R
<1>3. \A i \in 1 .. 1 : IsSeq(c[i])
  BY <1>2, EmptySeqIs
<1>4. Waiting(s, v, c, R, 1)
  BY <1>2, <1>3 DEF Waiting
<1>5. IsSeq(T) /\ Ready(T, f, <<v>>)
  BY ReadsReady
<1>6. Heads(T, c[1], f, R[1])
  BY <1>2, <1>5, JoinedEmpty DEF Heads
<1>7. TracksBy(s, T, v, c, R)
  BY <1>1, <1>4, <1>6 DEF TracksBy
<1>8. s # <<>>
  BY <1>1, EmptySeqIs
<1>9. QED
  BY <1>1, <1>7, <1>8 DEF Tracks, s

\* The function on top reads on, and those below it wait as they did.
LEMMA TracksTop ==
    ASSUME NEW s, IsSeq(s), NEW f, NEW g, NEW v, NEW c, NEW R,
           Waiting(Append(s, f), v, c, R, Len(s) + 1),
           NEW rest, Heads(rest, c[Len(s) + 1], g, R[Len(s) + 1])
    PROVE  Tracks(Append(s, g), rest, v)
<1> DEFINE n == Len(s)
           a == Append(s, f)
           b == Append(s, g)
<1>1. PICK U : s \in Seq(U)
  BY DEF IsSeq
<1>2. n \in Nat /\ n + 1 \in Nat /\ (n + 1) - 1 = n
  BY <1>1, LenProperties
<1>3. \A i \in 1 .. n : a[i] = s[i]
  BY <1>1, AppendIs
<1>4. /\ IsSeq(b) /\ b # <<>> /\ Len(b) = n + 1 /\ b[n + 1] = g
      /\ \A i \in 1 .. n : b[i] = s[i]
  BY <1>1, AppendIs
<1>5. Waiting(a, v, c, R, n + 1) /\ Heads(rest, c[n + 1], g, R[n + 1])
  OBVIOUS
<1> HIDE DEF n, a, b
<1>6. \A i \in 1 .. (n + 1) - 1 : a[i] = b[i]
  BY <1>2, <1>3, <1>4
<1>7. Waiting(b, v, c, R, n + 1)
  BY <1>2, <1>5, <1>6, WaitingBelow
<1>8. TracksBy(b, rest, v, c, R)
  BY <1>4, <1>5, <1>7 DEF TracksBy
<1>9. QED
  BY <1>4, <1>8 DEF Tracks, b

\* A result is given to the last frame.
LEMMA GiveIs ==
    ASSUME NEW s, IsSeq(s), s # <<>>, NEW r
    PROVE  /\ IsSeq(Front(s)) /\ s = Append(Front(s), s[Len(s)])
           /\ Len(s) = Len(Front(s)) + 1
           /\ Give(s, r) = Append(Front(s), Taken(s[Len(s)], r))
<1> DEFINE t == Front(s)
           f == s[Len(s)]
           g == Taken(f, r)
<1>1. PICK U : s \in Seq(U)
  BY DEF IsSeq
<1>2. t \in Seq(U) /\ s = Append(t, f)
  BY <1>1, SplitLast
<1>3. IsSeq(t) /\ Len(s) = Len(t) + 1
  BY <1>2, AppendIs DEF IsSeq
<1>4. Give(s, r) = t \o <<g>>
  BY DEF Give, Front
<1> HIDE DEF t, f, g
<1>5. t \o <<g>> = Append(t, g)
  BY <1>2
<1>6. QED
  BY <1>2, <1>3, <1>4, <1>5 DEF t, f, g

\* The function on top returns what the one below it waits for.
LEMMA TracksPop ==
    ASSUME NEW s, IsSeq(s), s # <<>>, NEW f, NEW v, NEW c, NEW R,
           Waiting(Append(s, f), v, c, R, Len(s) + 1)
    PROVE  Tracks(Give(s, R[Len(s) + 1]), c[Len(s) + 1], v)
<1> DEFINE n == Len(s)
           a == Append(s, f)
           t == Front(s)
           e == s[n]
           x == R[n + 1]
           g == Taken(e, x)
<1>1. PICK U : s \in Seq(U)
  BY DEF IsSeq
<1>2. n \in Nat /\ n # 0
  BY <1>1, LenProperties, EmptySeq
<1>3. \A i \in 1 .. n : a[i] = s[i]
  BY <1>1, AppendIs
<1>4. IsSeq(t) /\ s = Append(t, e) /\ n = Len(t) + 1 /\ Give(s, x) = Append(t, g)
  BY GiveIs
<1>5. Waiting(a, v, c, R, n + 1)
  OBVIOUS
<1> HIDE DEF n, a, t, e, x, g
<1>6. n \in 1 .. (n + 1) - 1 /\ a[n] = e
  BY <1>2, <1>3 DEF e
<1>7. Waits(c[n + 1], c[n], e, x, R[n])
  BY <1>5, <1>6 DEF Waiting, x
<1>8. Heads(c[n + 1], c[n], g, R[n])
  BY <1>7, WaitsHeads DEF g
<1>9. Waiting(s, v, c, R, n)
  <2>1. n <= n + 1 /\ n + 1 \in Nat /\ \A i \in 1 .. n - 1 : a[i] = s[i]
    BY <1>2, <1>3
  <2>2. QED
    BY <1>2, <1>5, <2>1, WaitingBelow
<1>10. Waiting(Append(t, e), v, c, R, Len(t) + 1)
       /\ Heads(c[n + 1], c[Len(t) + 1], g, R[Len(t) + 1])
  BY <1>4, <1>8, <1>9
<1>11. Tracks(Append(t, g), c[n + 1], v)
  BY <1>4, <1>10, TracksTop
<1>12. QED
  BY <1>4, <1>11 DEF n, x

\* The function on top waits for the result of the one it calls.
LEMMA TracksPush ==
    ASSUME NEW s, IsSeq(s), s # <<>>, NEW v, NEW c, NEW R, Waiting(s, v, c, R, Len(s)),
           NEW rest, NEW x, Waits(rest, c[Len(s)], s[Len(s)], x, R[Len(s)]),
           NEW T, NEW f, Reads(T, f, x)
    PROVE  Tracks(Append(s, f), Joined(T, rest), v)
<1> DEFINE n == Len(s)
           a == Append(s, f)
           d == [i \in 1 .. n + 1 |-> IF i = n + 1 THEN rest ELSE c[i]]
           Q == [i \in 1 .. n + 1 |-> IF i = n + 1 THEN x ELSE R[i]]
<1>1. PICK U : s \in Seq(U)
  BY DEF IsSeq
<1>2. n \in Nat /\ n # 0
  BY <1>1, LenProperties, EmptySeq
<1>3. /\ IsSeq(a) /\ a # <<>> /\ Len(a) = n + 1 /\ a[n + 1] = f
      /\ \A i \in 1 .. n : a[i] = s[i]
  BY <1>1, AppendIs
<1>4. /\ d[n + 1] = rest /\ Q[n + 1] = x
      /\ \A i \in 1 .. n : d[i] = c[i] /\ Q[i] = R[i]
  BY <1>2
<1>5. /\ Waiting(s, v, c, R, n) /\ Waits(rest, c[n], s[n], x, R[n])
  OBVIOUS
<1> HIDE DEF n, a, d, Q
<1>6. n \in 1 .. n /\ 1 \in 1 .. n
  BY <1>2
<1>7. IsSeq(rest)
  <2>1. PICK Y : IsSeq(Y) /\ rest = Joined(Y, c[n])
    BY <1>5 DEF Waits
  <2>2. IsSeq(c[n])
    BY <1>5, <1>6 DEF Waiting
  <2>3. QED
    BY <2>1, <2>2, JoinedSeq DEF IsJoin
<1>8. ASSUME NEW i \in 1 .. n + 1 PROVE IsSeq(d[i])
  <2>1. i = n + 1 \/ i \in 1 .. n
    BY <1>2
  <2>2. QED
    BY <1>4, <1>5, <1>7, <2>1 DEF Waiting
<1>9. ASSUME NEW i \in 1 .. (n + 1) - 1
      PROVE  Waits(d[i + 1], d[i], a[i], Q[i + 1], Q[i])
  <2>1. i \in 1 .. n
    BY <1>2
  <2>2. d[i] = c[i] /\ Q[i] = R[i] /\ a[i] = s[i]
    BY <1>3, <1>4, <2>1
  <2>3. CASE i = n
    BY <1>4, <1>5, <2>2, <2>3
  <2>4. CASE i # n
    <3>1. i \in 1 .. n - 1 /\ i + 1 \in 1 .. n
      BY <1>2, <2>1, <2>4
    <3>2. d[i + 1] = c[i + 1] /\ Q[i + 1] = R[i + 1]
      BY <1>4, <3>1
    <3>3. Waits(c[i + 1], c[i], s[i], R[i + 1], R[i])
      BY <1>5, <3>1 DEF Waiting
    <3>4. QED
      BY <2>2, <3>2, <3>3
  <2>5. QED
    BY <2>3, <2>4
<1>10. d[1] = <<>> /\ Q[1] = <<v>>
  BY <1>4, <1>5, <1>6 DEF Waiting
<1>11. Waiting(a, v, d, Q, n + 1)
  BY <1>8, <1>9, <1>10 DEF Waiting
<1>12. Heads(Joined(T, rest), d[n + 1], a[n + 1], Q[n + 1])
  <2>1. IsSeq(T) /\ Ready(T, f, x)
    BY ReadsReady
  <2>2. QED
    BY <1>3, <1>4, <2>1 DEF Heads
<1>13. TracksBy(a, Joined(T, rest), v, d, Q)
  BY <1>3, <1>11, <1>12 DEF TracksBy
<1>14. QED
  BY <1>3, <1>13 DEF Tracks, a

-----------------------------------------------------------------------------
(***************************************************************************)
(* What the containers read so far announced, and what those to come do.   *)
(***************************************************************************)
SizesOf(tokens) == [i \in DOMAIN tokens |-> SizeOf(tokens[i])]

IsRest(rest, tokens, p) ==
    IsSeq(rest) /\ p + Len(rest) = Len(tokens) /\ \A k \in 1 .. Len(rest) : rest[k] = tokens[p + k]

ConsumedAt(tokens, rest, count, p, g) ==
    /\ SumsUpto(g, SizesOf(tokens), Len(tokens)) /\ count = g[p]
    /\ \A i \in 1 .. p : SizeOf(tokens[i]) <= MaxCollectionSize
    /\ IsRest(rest, tokens, p)

Consumed(tokens, rest, count) ==
    /\ count <= MaxTotalElements
    /\ \E p \in 0 .. Len(tokens) : \E g : ConsumedAt(tokens, rest, count, p, g)

EachFits(tokens, n) == \A i \in 1 .. n : SizeOf(tokens[i]) <= MaxCollectionSize

\* Whether what was written fits, by the sums of the sizes it announces.
LEMMA FitsIs ==
    ASSUME NEW W, IsTokens(W)
    PROVE  /\ IsSeq(W) /\ Len(W) \in Nat
           /\ \A i \in 1 .. Len(W) : SizesOf(W)[i] = SizeOf(W[i]) /\ SizeOf(W[i]) \in Nat
           /\ \A g : SumsUpto(g, SizesOf(W), Len(W)) =>
                 (Fits(W) <=> EachFits(W, Len(W)) /\ g[Len(W)] <= MaxTotalElements)
<1> DEFINE s == SizesOf(W)
           n == Len(W)
<1>1. IsSeq(W)
  BY DEF IsTokens, IsSequence, IsSeq
<1>2. n \in Nat /\ DOMAIN W = 1 .. n
  BY <1>1, SeqIs
<1>3. \A i \in 1 .. n : SizeOf(W[i]) \in Nat
  BY <1>2 DEF IsTokens
<1>4. s = [i \in 1 .. n |-> SizeOf(W[i])]
  BY <1>2 DEF SizesOf
<1> HIDE DEF n
<1>5. s \in [1 .. n -> Nat] /\ \A i \in 1 .. n : s[i] = SizeOf(W[i])
  BY <1>3, <1>4
<1>6. DOMAIN s = 1 .. n
  BY <1>4
<1> HIDE DEF s
<1>7. s \in Seq(Nat) /\ Len(s) = n
  BY <1>2, <1>5, FunctionIsSeq
<1>8. ASSUME NEW g, SumsUpto(g, s, n)
      PROVE  Fits(W) <=> EachFits(W, n) /\ g[n] <= MaxTotalElements
  <2>1. PICK h : SumsUpto(h, s, n) /\ SumOf(s) = h[n]
    BY <1>2, <1>7, SumIs
  <2>2. g[n] = h[n]
    <3>1. BeginAlike(s, s, n) /\ n <= n
      BY <1>2 DEF BeginAlike
    <3>2. QED
      BY <1>2, <1>8, <2>1, <3>1, SumsAgree
  <2>3. Fits(W) <=> (\A i \in DOMAIN s : s[i] <= MaxCollectionSize) /\ SumOf(s) <= MaxTotalElements
    BY DEF Fits, s, SizesOf
  <2>4. (\A i \in DOMAIN s : s[i] <= MaxCollectionSize) <=> EachFits(W, n)
    BY <1>5, <1>6 DEF EachFits
  <2>5. QED
    BY <2>1, <2>2, <2>3, <2>4
<1>9. QED
  BY <1>1, <1>2, <1>3, <1>5, <1>8 DEF s, n

\* Before the first token nothing is consumed.
LEMMA ConsumedNew ==
    ASSUME NEW W, IsTokens(W)
    PROVE  Consumed(W, W, 0)
<1>1. IsSeq(W) /\ Len(W) \in Nat
  BY FitsIs
<1>2. PICK g : SumsUpto(g, SizesOf(W), Len(W))
  BY <1>1, SumsExist
<1>3. 0 \in 0 .. Len(W) /\ g[0] = 0
  BY <1>1, <1>2, SumsAt
<1>4. IsRest(W, W, 0)
  BY <1>1 DEF IsRest
<1>5. ConsumedAt(W, W, 0, 0, g)
  BY <1>2, <1>3, <1>4 DEF ConsumedAt
<1>6. QED
  BY <1>3, <1>5, CapsAssumption DEF Consumed

\* The next token is within the limits if all the tokens are, and is then consumed.
LEMMA ConsumedNext ==
    ASSUME NEW W, IsTokens(W), NEW a, NEW count, Consumed(W, a, count),
           NEW tok, NEW s, IsSeq(s), IsFirst(a, tok, s)
    PROVE  LET within == SizeOf(tok) <= MaxCollectionSize /\ count + SizeOf(tok) <= MaxTotalElements
           IN  /\ SizeOf(tok) \in Nat /\ count \in Nat
               /\ within => Consumed(W, s, count + SizeOf(tok))
               /\ Fits(W) => within
<1> DEFINE n == Len(W)
           z == SizesOf(W)
<1>1. /\ n \in Nat
      /\ \A i \in 1 .. n : z[i] = SizeOf(W[i]) /\ SizeOf(W[i]) \in Nat
      /\ \A g : SumsUpto(g, z, n) =>
            (Fits(W) <=> EachFits(W, n) /\ g[n] <= MaxTotalElements)
  BY FitsIs
<1>2. PICK p \in 0 .. n : \E g : ConsumedAt(W, a, count, p, g)
  BY DEF Consumed
<1>3. PICK g : ConsumedAt(W, a, count, p, g)
  BY <1>2
<1>4. /\ SumsUpto(g, z, n) /\ count = g[p] /\ EachFits(W, p)
      /\ p + Len(a) = n /\ \A k \in 1 .. Len(a) : a[k] = W[p + k]
  BY <1>3 DEF ConsumedAt, IsRest, EachFits
<1> HIDE DEF n, z
<1>5. /\ a[1] = tok /\ Len(a) = Len(s) + 1 /\ Len(s) \in Nat
      /\ \A i \in 1 .. Len(s) : a[i + 1] = s[i]
  BY SeqIs DEF IsFirst
<1>6. p + 1 \in 1 .. n /\ p + 1 \in 0 .. n /\ p \in Nat /\ p + 1 \in Nat /\ 1 \in 1 .. Len(a)
      /\ (p + 1) - 1 = p /\ p + 1 # 0 /\ p <= n /\ p + 1 <= n
  BY <1>1, <1>4, <1>5
<1>7. W[p + 1] = tok
  BY <1>4, <1>5, <1>6
<1>8. z[p + 1] = SizeOf(tok) /\ SizeOf(tok) \in Nat
  BY <1>1, <1>6, <1>7
<1>9. \A i \in 1 .. n : z[i] \in Nat
  BY <1>1
<1>10. g[p + 1] = g[p] + SizeOf(tok)
  BY <1>1, <1>4, <1>6, <1>8, SumsAt
<1>11. g[p] \in Nat
  BY <1>1, <1>4, <1>6, <1>9, SumsRise
<1>12. g[p + 1] \in Nat /\ g[n] \in Nat /\ g[p + 1] <= g[n]
  BY <1>1, <1>4, <1>6, <1>9, SumsRise
<1>13. IsRest(s, W, p + 1)
  <2>1. (p + 1) + Len(s) = n
    BY <1>1, <1>4, <1>5
  <2>2. ASSUME NEW k \in 1 .. Len(s) PROVE s[k] = W[(p + 1) + k]
    <3>1. k + 1 \in 1 .. Len(a) /\ p + (k + 1) = (p + 1) + k
      BY <1>5, <1>6
    <3>2. QED
      BY <1>4, <1>5, <3>1
  <2>3. QED
    BY <2>1, <2>2 DEF IsRest, n
<1>14. ASSUME SizeOf(tok) <= MaxCollectionSize, count + SizeOf(tok) <= MaxTotalElements
       PROVE  Consumed(W, s, count + SizeOf(tok))
  <2>1. ASSUME NEW i \in 1 .. p + 1 PROVE SizeOf(W[i]) <= MaxCollectionSize
    <3>1. i = p + 1 \/ i \in 1 .. p
      BY <1>6
    <3>2. QED
      BY <1>4, <1>7, <1>14, <3>1 DEF EachFits
  <2>2. count + SizeOf(tok) = g[p + 1]
    BY <1>4, <1>10
  <2>3. ConsumedAt(W, s, count + SizeOf(tok), p + 1, g)
    BY <1>4, <1>13, <2>1, <2>2 DEF ConsumedAt, n, z
  <2>4. QED
    BY <1>6, <1>14, <2>3 DEF Consumed, n
<1>15. ASSUME Fits(W)
       PROVE  SizeOf(tok) <= MaxCollectionSize /\ count + SizeOf(tok) <= MaxTotalElements
  <2>1. EachFits(W, n) /\ g[n] <= MaxTotalElements
    BY <1>1, <1>4, <1>15
  <2>2. SizeOf(tok) <= MaxCollectionSize
    BY <1>6, <1>7, <2>1 DEF EachFits
  <2>3. QED
    BY <1>4, <1>10, <1>12, <2>1, <2>2, CapsAssumption
<1>16. QED
  BY <1>4, <1>8, <1>11, <1>14, <1>15

\* When all tokens are consumed, they fit.
LEMMA ConsumedAll ==
    ASSUME NEW W, IsTokens(W), NEW count, Consumed(W, <<>>, count)
    PROVE  Fits(W)
<1> DEFINE n == Len(W)
<1>1. PICK p \in 0 .. n : \E g : ConsumedAt(W, <<>>, count, p, g)
  BY DEF Consumed
<1>2. PICK g : ConsumedAt(W, <<>>, count, p, g)
  BY <1>1
<1>3. SumsUpto(g, SizesOf(W), n) /\ count = g[p] /\ EachFits(W, p) /\ p + 0 = n
  BY <1>2, EmptySeqIs DEF ConsumedAt, IsRest, EachFits
<1>4. p = n /\ count <= MaxTotalElements
  BY <1>3 DEF Consumed
<1>5. QED
  BY <1>3, <1>4, FitsIs

-----------------------------------------------------------------------------
(***************************************************************************)
(* What a function finds at the head of the tokens.                        *)
(***************************************************************************)
FindsStop(a, after, f, r) == IsFirst(a, StopToken, after) /\ Ends(<<StopToken>>, f, r)

FindsField(a, after, f, r, tok, rest) ==
    /\ tok.is = "field" /\ tok # StopToken
    /\ IsSeq(rest) /\ IsFirst(a, tok, rest) /\ Heads(rest, after, FieldFrame(f, tok), r)

FindsValue(a, after, f, r, W, T, x) ==
    /\ IsSeq(W) /\ IsSeq(T) /\ a = Joined(W, Joined(T, after))
    /\ Unfolds(W, WantedBy(f), x) /\ Reads(T, Taken(f, x), r)

\* A function that reads fields finds its Stop or a field that leads on.
LEMMA FieldHead ==
    ASSUME NEW a, NEW after, IsSeq(after), NEW f, NEW r, Heads(a, after, f, r),
           OfFields(f), ~Wants(f)
    PROVE  FindsStop(a, after, f, r) \/ \E tok, rest : FindsField(a, after, f, r, tok, rest)
<1>1. PICK T : IsSeq(T) /\ a = Joined(T, after) /\ Ready(T, f, r)
  BY DEF Heads
<1>2. Reads(T, f, r)
  BY <1>1 DEF Ready
<1>3. CASE Ends(T, f, r)
  <2>1. T = <<StopToken>>
    BY <1>3 DEF Ends
  <2>2. IsFirst(Joined(<<StopToken>>, after), StopToken, after)
    BY BeginsWith
  <2>3. QED
    BY <1>1, <1>3, <2>1, <2>2 DEF FindsStop
<1>4. ASSUME NEW p, NEW h, NEW T2,
             Turn(p, f, h), IsSeq(T2), T = Joined(p, T2), Reads(T2, h, r)
      PROVE  \E tok, rest : FindsField(a, after, f, r, tok, rest)
  <2>1. PICK tok, W : FieldTurn(p, f, h, tok, W)
    BY <1>4 DEF Turn, ElementTurn
  <2> DEFINE g == FieldFrame(f, tok)
             rest == Joined(Joined(W, T2), after)
  <2>2. PICK x : Item(W, WantedBy(g), x) /\ h = Taken(g, x)
    BY <2>1 DEF FieldTurn
  <2>3. /\ tok.is = "field" /\ tok # StopToken /\ OfFields(g) /\ g.field = tok
        /\ p = Joined(<<tok>>, W)
    BY <2>1 DEF FieldTurn
  <2>4. IsSeq(W) /\ IsSeq(<<tok>>)
    BY <2>2, SingleSeqIs DEF Item
  <2> HIDE DEF g
  <2>5. IsSeq(Joined(W, T2)) /\ IsSeq(rest)
    BY <1>4, <2>4, JoinedSeq DEF IsJoin
  <2>6. a = Joined(<<tok>>, rest)
    <3>1. T = Joined(<<tok>>, Joined(W, T2))
      BY <1>4, <2>3, <2>4, JoinedAgain
    <3>2. QED
      BY <1>1, <2>4, <2>5, <3>1, JoinedAgain
  <2>7. Ready(Joined(W, T2), g, r)
    <3>1. Wants(g)
      BY <2>3 DEF Wants
    <3>2. QED
      BY <1>4, <2>2, <3>1 DEF Ready
  <2>8. Heads(rest, after, g, r)
    BY <2>5, <2>7 DEF Heads
  <2> HIDE DEF rest
  <2>9. IsFirst(a, tok, rest)
    BY <2>5, <2>6, BeginsWith
  <2>10. QED
    BY <2>3, <2>5, <2>8, <2>9 DEF FindsField, g
<1>5. QED
  BY <1>2, <1>3, <1>4, ReadsIs

\* A function that wants a value finds one of the type it wants.
LEMMA ValueHead ==
    ASSUME NEW a, NEW after, IsSeq(after), NEW f, NEW r, Heads(a, after, f, r), Wants(f)
    PROVE  \E W, T, x : FindsValue(a, after, f, r, W, T, x)
<1>1. PICK A : IsSeq(A) /\ a = Joined(A, after) /\ Ready(A, f, r)
  BY DEF Heads
<1>2. PICK W, T, x :
         /\ IsSeq(T) /\ A = Joined(W, T)
         /\ Item(W, WantedBy(f), x) /\ Reads(T, Taken(f, x), r)
  BY <1>1 DEF Ready
<1>3. IsSeq(W) /\ Unfolds(W, WantedBy(f), x)
  BY <1>2, ItemUnfolds DEF Item
<1>4. a = Joined(W, Joined(T, after))
  BY <1>1, <1>2, <1>3, JoinedAgain
<1>5. QED
  BY <1>2, <1>3, <1>4 DEF FindsValue

\* The functions that loop over elements.
LEMMA ElementsHead ==
    ASSUME NEW a, NEW after, IsSeq(after), NEW f, NEW r, Heads(a, after, f, r),
           ~OfFields(f), f.left = 0
    PROVE  a = after /\ r = <<f.got>>
<1>1. PICK T : IsSeq(T) /\ a = Joined(T, after) /\ Ready(T, f, r)
  BY DEF Heads
<1>2. ~Wants(f)
  BY DEF Wants
<1>3. Reads(T, f, r)
  BY <1>1, <1>2 DEF Ready
<1>4. ASSUME NEW p, NEW h, Turn(p, f, h) PROVE FALSE
  <2>1. ~(f.left > 0)
    OBVIOUS
  <2>2. ElementTurn(p, f, h)
    BY <1>4 DEF Turn, FieldTurn
  <2>3. QED
    BY <2>1, <2>2 DEF ElementTurn
<1>5. Ends(T, f, r)
  BY <1>3, <1>4, ReadsIs
<1>6. T = <<>> /\ r = <<f.got>>
  BY <1>5 DEF Ends
<1>7. QED
  BY <1>1, <1>6, JoinedEmpty

\* Of bytes that are not damaged, a read finds the first token or nothing.
LEMMA FoundIs ==
    ASSUME ~damaged, NEW tok, NEW s, IsFirst(input, tok, s)
    PROVE  /\ \A kind : Found(kind) = IF tok.is = kind THEN {tok} ELSE {}
           /\ \A t : Consume(t) => input' = s
<1>1. IsSeq(input) /\ input # <<>> /\ input[1] = tok /\ Tail(input) = s
  BY DEF IsFirst
<1>2. {1} \cap DOMAIN input = {1}
  BY <1>1, SeqIs
<1>3. {input[i] : i \in {1} \cap DOMAIN input} = {tok}
  BY <1>1, <1>2
<1>4. \A kind : Found(kind) = IF tok.is = kind THEN {tok} ELSE {}
  BY <1>3 DEF Found
<1>5. QED
  BY <1>1, <1>4 DEF Consume

-----------------------------------------------------------------------------
(***************************************************************************)
(* The invariant of a pass over what was written, and what a step makes of *)
(* it.                                                                     *)
(***************************************************************************)
Outcome(p) == IF Fits(Pass(p).tokens) THEN Returned(Pass(p).value) ELSE Failed

Following(p, frames, rest, count) ==
    Tracks(frames, rest, Pass(p).value) /\ Consumed(Pass(p).tokens, rest, count)

FInv ==
    /\ pass \in Passes /\ damaged = Pass(pass).damaged
    /\ damaged \/ end = Outcome(pass) \/ (end = Reading /\ Following(pass, stack, input, total))

\* Before a step: the frames below the top, and what waits for the top.
Follows(s, c, R) ==
    /\ pass \in Passes /\ damaged = Pass(pass).damaged /\ ~damaged /\ end = Reading
    /\ Consumed(Pass(pass).tokens, input, total) /\ total \in Nat
    /\ IsSeq(stack) /\ stack # <<>> /\ IsSeq(s) /\ s = Below
    /\ stack = Append(s, Top) /\ Len(stack) = Len(s) + 1
    /\ Waiting(stack, Pass(pass).value, c, R, Len(stack))
    /\ IsSeq(c[Len(stack)])
    /\ Heads(input, c[Len(stack)], Top, R[Len(stack)])

\* What a pass is given is read as its value.
LEMMA PassIs ==
    ASSUME NEW p \in Passes, ~Pass(p).damaged
    PROVE  /\ IsTokens(Pass(p).tokens)
           /\ Reads(Pass(p).tokens, StructFrame(Pass(p).type), <<Pass(p).value>>)
<1> DEFINE t == Pass(p).type
           v == Pass(p).value
           W == Pass(p).tokens
<1>1. t \in Types /\ HasFields(t)
  BY TypesAssumption
<1>2. v \in Values(t) /\ \E newer \in BOOLEAN : W = Write(v, t, newer)
  BY WriteAssumption
<1>3. PICK newer \in BOOLEAN : W = Write(v, t, newer)
  BY <1>2
<1>4. IsTokens(W)
  BY <1>1, <1>2, <1>3, WriteAssumption
<1>5. Item(W, t, <<v>>)
  BY <1>1, <1>2, <1>3, ValueItem
<1> HIDE DEF t, v, W
<1>6. Reads(W, StructFrame(t), <<v>>)
  BY <1>1, <1>5, ItemUnfolds DEF Unfolds
<1>7. QED
  BY <1>4, <1>6 DEF t, v, W

\* The frames of a pass under way wait as the invariant says.
LEMMA FollowsFrom ==
    ASSUME FInv, IInv, ~damaged, end = Reading
    PROVE  \E s, c, R : Follows(s, c, R)
<1> DEFINE v == Pass(pass).value
<1>1. pass \in Passes /\ damaged = Pass(pass).damaged /\ total \in Nat
  BY DEF FInv, IInv
<1>2. end # Outcome(pass)
  BY DEF Outcome, Reading, Returned, Failed
<1>3. Tracks(stack, input, v) /\ Consumed(Pass(pass).tokens, input, total)
  BY <1>2 DEF FInv, Following
<1> HIDE DEF v
<1>4. PICK c, R : TracksBy(stack, input, v, c, R)
  BY <1>3 DEF Tracks
<1> DEFINE n == Len(stack)
<1>5. IsSeq(stack) /\ stack # <<>>
  BY <1>3 DEF Tracks
<1>6. n \in Nat /\ n # 0
  BY <1>5, SeqIs
<1>7. Waiting(stack, v, c, R, n) /\ Heads(input, c[n], Top, R[n])
  BY <1>4 DEF TracksBy, Top
<1>8. IsSeq(c[n])
  BY <1>6, <1>7 DEF Waiting
<1>9. IsSeq(Below) /\ stack = Append(Below, Top) /\ n = Len(Below) + 1
  BY <1>5, GiveIs DEF Below, Top, Front
<1>10. Follows(Below, c, R)
  BY <1>1, <1>3, <1>5, <1>7, <1>8, <1>9 DEF Follows, v
<1>11. QED
  BY <1>10

\* A step that reads on, or that ends the pass as it should.
LEMMA GoesOn ==
    ASSUME NEW s, NEW c, NEW R, Follows(s, c, R), UNCHANGED <<pass, damaged, end>>,
           Tracks(stack', input', Pass(pass).value),
           Consumed(Pass(pass).tokens, input', total')
    PROVE  FInv'
<1>1. pass \in Passes /\ damaged = Pass(pass).damaged /\ end = Reading
  BY DEF Follows
<1>2. Following(pass, stack', input', total')
  BY DEF Following
<1>3. pass' = pass /\ damaged' = damaged /\ end' = end
  OBVIOUS
<1>4. pass' \in Passes /\ damaged' = Pass(pass').damaged
  BY <1>1, <1>3
<1>5. end' = Reading /\ Following(pass', stack', input', total')
  BY <1>1, <1>2, <1>3
<1>6. QED
  BY <1>4, <1>5 DEF FInv

\* A step that ends the pass with its outcome keeps the invariant.
LEMMA GoesNoFurther ==
    ASSUME NEW s, NEW c, NEW R, Follows(s, c, R), Finish(Outcome(pass))
    PROVE  FInv'
<1>1. pass \in Passes /\ damaged = Pass(pass).damaged
  BY DEF Follows
<1>2. pass' = pass /\ damaged' = damaged /\ end' = Outcome(pass)
  BY DEF Finish
<1>3. pass' \in Passes /\ damaged' = Pass(pass').damaged /\ end' = Outcome(pass')
  BY <1>1, <1>2
<1>4. QED
  BY <1>3 DEF FInv

\* Reading a token.
LEMMA TokenConsumed ==
    ASSUME NEW s, NEW c, NEW R, Follows(s, c, R),
           NEW tok, NEW rest, IsSeq(rest), IsFirst(input, tok, rest)
    PROVE  LET tokens == Pass(pass).tokens
               n == SizeOf(tok)
               within == n <= MaxCollectionSize /\ total + n <= MaxTotalElements
           IN  /\ n \in Nat
               /\ within => Consumed(tokens, rest, total + n)
               /\ Fits(tokens) => within
               /\ n = 0 => Consumed(tokens, rest, total)
<1> DEFINE W == Pass(pass).tokens
           n == SizeOf(tok)
           within == n <= MaxCollectionSize /\ total + n <= MaxTotalElements
<1>1. IsTokens(W) /\ Consumed(W, input, total) /\ total \in Nat
  <2>1. pass \in Passes /\ ~Pass(pass).damaged
    BY DEF Follows
  <2>2. QED
    BY <2>1, PassIs DEF Follows
<1> HIDE DEF W
<1>2. n \in Nat
  BY <1>1, ConsumedNext
<1>3. within => Consumed(W, rest, total + n)
  BY <1>1, ConsumedNext
<1>4. Fits(W) => within
  BY <1>1, ConsumedNext
<1>5. ASSUME n = 0 PROVE Consumed(W, rest, total)
  <2>1. total <= MaxTotalElements
    BY <1>1 DEF Consumed
  <2>2. total + n = total /\ n <= MaxCollectionSize
    BY <1>1, <1>5, CapsAssumption
  <2>3. QED
    BY <1>3, <2>1, <2>2
<1> HIDE DEF n
<1>6. QED
  BY <1>2, <1>3, <1>4, <1>5 DEF W, n

-----------------------------------------------------------------------------
\* The innermost function returns what the one below waits for.
LEMMA ReturnGoesOn ==
    ASSUME NEW s, NEW c, NEW R, Follows(s, c, R), Return(R[Len(stack)]),
           input' = c[Len(stack)], Consumed(Pass(pass).tokens, c[Len(stack)], total),
           total' = total
    PROVE  FInv'
<1> DEFINE n == Len(stack)
           v == Pass(pass).value
<1>1. /\ IsSeq(s) /\ s = Below /\ stack = Append(s, Top) /\ n = Len(s) + 1
      /\ Waiting(stack, v, c, R, n)
  BY DEF Follows
<1>2. Len(s) \in Nat /\ (s = <<>> <=> Len(s) = 0)
  BY <1>1, SeqIs
<1>3. CASE Len(s) = 0
  <2>1. n = 1 /\ ~(Len(stack) > 1)
    BY <1>1, <1>3
  <2>2. c[n] = <<>> /\ R[n] = <<v>>
    BY <1>1, <2>1 DEF Waiting
  <2>3. Fits(Pass(pass).tokens)
    <3>1. Consumed(Pass(pass).tokens, <<>>, total)
      BY <2>2
    <3>2. pass \in Passes /\ ~Pass(pass).damaged
      BY DEF Follows
    <3>3. QED
      BY <3>1, <3>2, PassIs, ConsumedAll
  <2>4. <<v>> # UnknownVariant /\ <<v>>[1] = v
    BY DEF UnknownVariant
  <2>5. Return(<<v>>)
    BY <2>2
  <2>6. Finish(Returned(v))
    BY <2>1, <2>4, <2>5 DEF Return
  <2>7. Outcome(pass) = Returned(v)
    BY <2>3 DEF Outcome
  <2>8. QED
    BY <2>6, <2>7, GoesNoFurther
<1>4. CASE Len(s) # 0
  <2> DEFINE r == R[n]
  <2>1. Len(stack) > 1 /\ s # <<>>
    BY <1>1, <1>2, <1>4
  <2>2. stack' = Give(s, r) /\ UNCHANGED <<pass, damaged, end>>
    BY <1>1, <2>1 DEF Return, Continue
  <2>3. Waiting(Append(s, Top), v, c, R, Len(s) + 1)
    BY <1>1
  <2> HIDE DEF v
  <2>4. Tracks(Give(s, R[Len(s) + 1]), c[Len(s) + 1], v)
    BY <1>1, <2>1, <2>3, TracksPop
  <2>5. Tracks(stack', input', v)
    BY <1>1, <2>2, <2>4
  <2>6. Consumed(Pass(pass).tokens, input', total')
    OBVIOUS
  <2>7. QED
    BY <2>2, <2>5, <2>6, GoesOn DEF v
<1>5. QED
  BY <1>3, <1>4

\* The function on top goes on.
LEMMA TopGoesOn ==
    ASSUME NEW s, NEW c, NEW R, Follows(s, c, R),
           NEW g, stack' = Append(s, g), UNCHANGED <<pass, damaged, end>>,
           Heads(input', c[Len(stack)], g, R[Len(stack)]),
           Consumed(Pass(pass).tokens, input', total')
    PROVE  FInv'
<1> DEFINE v == Pass(pass).value
<1>1. /\ IsSeq(s) /\ stack = Append(s, Top) /\ Len(stack) = Len(s) + 1
      /\ Waiting(stack, v, c, R, Len(stack))
  BY DEF Follows
<1>2. Waiting(Append(s, Top), v, c, R, Len(s) + 1)
  BY <1>1
<1>3. Heads(input', c[Len(s) + 1], g, R[Len(s) + 1])
  BY <1>1
<1> HIDE DEF v
<1>4. Tracks(Append(s, g), input', v)
  BY <1>1, <1>2, <1>3, TracksTop
<1>5. QED
  BY <1>4, GoesOn DEF v

\* The function on top calls another.
LEMMA CallGoesOn ==
    ASSUME NEW s, NEW c, NEW R, Follows(s, c, R),
           NEW T, IsSeq(T), NEW x, Reads(T, Taken(Top, x), R[Len(stack)]),
           NEW U, NEW g, Reads(U, g, x),
           stack' = Append(stack, g), UNCHANGED <<pass, damaged, end>>,
           input' = Joined(U, Joined(T, c[Len(stack)])),
           Consumed(Pass(pass).tokens, input', total')
    PROVE  FInv'
<1> DEFINE v == Pass(pass).value
           n == Len(stack)
           rest == Joined(T, c[n])
<1>1. IsSeq(stack) /\ stack # <<>> /\ Waiting(stack, v, c, R, n)
  BY DEF Follows
<1>2. Waits(rest, c[n], stack[n], x, R[n])
  BY DEF Waits, Top
<1>3. input' = Joined(U, rest)
  OBVIOUS
<1> HIDE DEF v, rest
<1>4. Tracks(Append(stack, g), Joined(U, rest), v)
  BY <1>1, <1>2, TracksPush
<1>5. Tracks(stack', input', v)
  BY <1>3, <1>4
<1>6. QED
  BY <1>5, GoesOn DEF v

\* A field is read, and its value is wanted next.
LEMMA ReadFieldFollows ==
    ASSUME NEW s, NEW c, NEW R, Follows(s, c, R), ReadField
    PROVE  FInv'
<1> DEFINE after == c[Len(stack)]
           r == R[Len(stack)]
<1>1. ~damaged /\ IsSeq(after) /\ Heads(input, after, Top, r) /\ s = Below /\ IsSeq(s)
  BY DEF Follows
<1>2. OfFields(Top) /\ ~Wants(Top)
  BY DEF ReadField, WantsValue
<1> HIDE DEF after, r
<1>3. PICK tok :
         /\ tok \in Found("field") \ {StopToken}
         /\ Consume(tok) /\ Continue(Below \o <<[Top EXCEPT !.field = tok]>>)
  BY DEF ReadField
<1>4. CASE FindsStop(input, after, Top, r)
  <2>1. Found("field") = IF StopToken.is = "field" THEN {StopToken} ELSE {}
    BY <1>1, <1>4, FoundIs DEF FindsStop
  <2>2. QED
    BY <1>3, <2>1
<1>5. ASSUME NEW t, NEW rest, FindsField(input, after, Top, r, t, rest) PROVE FInv'
  <2>1. /\ t.is = "field" /\ IsSeq(rest) /\ IsFirst(input, t, rest)
        /\ Heads(rest, after, FieldFrame(Top, t), r)
    BY <1>5 DEF FindsField
  <2>2. Found("field") = {t} /\ input' = rest
    BY <1>1, <1>3, <2>1, FoundIs
  <2>3. tok = t
    BY <1>3, <2>2
  <2> DEFINE g == FieldFrame(Top, t)
  <2>4. stack' = Below \o <<g>> /\ UNCHANGED <<pass, damaged, end>>
    BY <1>3, <2>3 DEF Continue, FieldFrame
  <2> HIDE DEF g
  <2>5. stack' = Append(s, g)
    <3>1. PICK U : s \in Seq(U)
      BY <1>1 DEF IsSeq
    <3>2. s \o <<g>> = Append(s, g)
      BY <3>1
    <3>3. QED
      BY <1>1, <2>4, <3>2
  <2>6. Consumed(Pass(pass).tokens, input', total')
    <3>1. SizeOf(t) = 0
      BY <2>1 DEF SizeOf
    <3>2. Consumed(Pass(pass).tokens, rest, total)
      BY <2>1, <3>1, TokenConsumed
    <3>3. QED
      BY <2>2, <3>2 DEF ReadField
  <2>7. Heads(input', after, g, r)
    BY <2>1, <2>2 DEF g
  <2>8. QED
    BY <2>4, <2>5, <2>6, <2>7, TopGoesOn DEF after, r
<1>6. QED
  BY <1>1, <1>2, <1>4, <1>5, FieldHead

\* Of what was written, a Stop is where a struct or a union ends.
LEMMA StopFollows ==
    ASSUME NEW s, NEW c, NEW R, Follows(s, c, R), OfFields(Top), ~Wants(Top),
           StopToken \in Found("field"), Consume(StopToken)
    PROVE  /\ input' = c[Len(stack)] /\ Consumed(Pass(pass).tokens, c[Len(stack)], total)
           /\ Ends(<<StopToken>>, Top, R[Len(stack)])
<1> DEFINE after == c[Len(stack)]
           r == R[Len(stack)]
<1>1. ~damaged /\ IsSeq(after) /\ Heads(input, after, Top, r)
  BY DEF Follows
<1> HIDE DEF after, r
<1>2. ASSUME NEW t, NEW rest, FindsField(input, after, Top, r, t, rest) PROVE FALSE
  <2>1. t.is = "field" /\ t # StopToken /\ IsFirst(input, t, rest)
    BY <1>2 DEF FindsField
  <2>2. Found("field") = {t}
    BY <1>1, <2>1, FoundIs
  <2>3. QED
    BY <2>1, <2>2
<1>3. IsFirst(input, StopToken, after) /\ Ends(<<StopToken>>, Top, r)
  BY <1>1, <1>2, FieldHead DEF FindsStop
<1>4. input' = after
  BY <1>1, <1>3, FoundIs
<1>5. Consumed(Pass(pass).tokens, after, total)
  <2>1. SizeOf(StopToken) = 0
    BY DEF SizeOf, StopToken, FieldToken
  <2>2. QED
    BY <1>1, <1>3, <2>1, TokenConsumed
<1>6. QED
  BY <1>3, <1>4, <1>5 DEF after, r

\* A struct, a union and a container return what the function below waits for.
LEMMA EndStructFollows ==
    ASSUME NEW s, NEW c, NEW R, Follows(s, c, R), EndStruct
    PROVE  FInv'
<1> DEFINE after == c[Len(stack)]
           r == R[Len(stack)]
<1>1. OfFields(Top) /\ ~Wants(Top) /\ StopToken \in Found("field") /\ Consume(StopToken)
      /\ Top.type.kind = "struct" /\ total' = total
  BY DEF EndStruct, WantsValue
<1>2. input' = after /\ Consumed(Pass(pass).tokens, after, total)
      /\ Ends(<<StopToken>>, Top, r)
  BY <1>1, StopFollows
<1> HIDE DEF after, r
<1>3. RequiredNames(Top.type) \subseteq DOMAIN Top.got /\ r = <<Top.got>>
  BY <1>1, <1>2 DEF Ends
<1>4. Return(r)
  BY <1>3 DEF EndStruct
<1>5. QED
  BY <1>1, <1>2, <1>4, ReturnGoesOn DEF after, r

LEMMA EndUnionFollows ==
    ASSUME NEW s, NEW c, NEW R, Follows(s, c, R), EndUnion
    PROVE  FInv'
<1> DEFINE after == c[Len(stack)]
           r == R[Len(stack)]
<1>1. OfFields(Top) /\ ~Wants(Top) /\ StopToken \in Found("field") /\ Consume(StopToken)
      /\ Top.type.kind = "union" /\ total' = total
  BY DEF EndUnion, WantsValue
<1>2. input' = after /\ Consumed(Pass(pass).tokens, after, total)
      /\ Ends(<<StopToken>>, Top, r)
  BY <1>1, StopFollows
<1> HIDE DEF after, r
<1>3. /\ Top.all # 0 /\ ~(Top.known > 1)
      /\ r = IF Top.known = 0 THEN UnknownVariant ELSE <<Top.got>>
  BY <1>1, <1>2 DEF Ends
<1>4. Return(r)
  BY <1>3 DEF EndUnion
<1>5. QED
  BY <1>1, <1>2, <1>4, ReturnGoesOn DEF after, r

LEMMA EndContainerFollows ==
    ASSUME NEW s, NEW c, NEW R, Follows(s, c, R), EndContainer
    PROVE  FInv'
<1> DEFINE after == c[Len(stack)]
           r == R[Len(stack)]
<1>1. ~OfFields(Top) /\ Top.left = 0 /\ Return(<<Top.got>>) /\ input' = input /\ total' = total
  BY DEF EndContainer
<1>2. IsSeq(after) /\ Heads(input, after, Top, r) /\ Consumed(Pass(pass).tokens, input, total)
  BY DEF Follows
<1> HIDE DEF after, r
<1>3. input = after /\ r = <<Top.got>>
  BY <1>1, <1>2, ElementsHead
<1>4. Return(r) /\ input' = after /\ Consumed(Pass(pass).tokens, after, total)
  BY <1>1, <1>2, <1>3
<1>5. QED
  BY <1>1, <1>4, ReturnGoesOn DEF after, r

\* The value the function on top reads, and what comes after it.
LEMMA ValueFollows ==
    ASSUME NEW s, NEW c, NEW R, Follows(s, c, R), WantsValue
    PROVE  \E W, T, x :
              /\ IsSeq(W) /\ IsSeq(T) /\ IsSeq(Joined(T, c[Len(stack)]))
              /\ input = Joined(W, Joined(T, c[Len(stack)]))
              /\ Unfolds(W, Wanted, x) /\ Reads(T, Taken(Top, x), R[Len(stack)])
<1> DEFINE after == c[Len(stack)]
           r == R[Len(stack)]
<1>1. IsSeq(after) /\ Heads(input, after, Top, r) /\ Wants(Top)
  BY DEF Follows, WantsValue
<1> HIDE DEF after, r
<1>2. PICK W, T, x : FindsValue(input, after, Top, r, W, T, x)
  BY <1>1, ValueHead
<1>3. IsSeq(W) /\ IsSeq(T) /\ input = Joined(W, Joined(T, after))
      /\ Unfolds(W, Wanted, x) /\ Reads(T, Taken(Top, x), r)
  BY <1>2 DEF FindsValue, Wanted
<1>4. IsSeq(Joined(T, after))
  BY <1>1, <1>3, JoinedSeq DEF IsJoin
<1>5. QED
  BY <1>3, <1>4 DEF after, r

\* A value of one piece is the one that was written.
LEMMA ReadScalarFollows ==
    ASSUME NEW s, NEW c, NEW R, Follows(s, c, R), ReadScalar
    PROVE  FInv'
<1> DEFINE after == c[Len(stack)]
           r == R[Len(stack)]
<1>1. WantsValue /\ Wanted.kind = "scalar" /\ total' = total
  BY DEF ReadScalar
<1>2. PICK W, T, x :
         /\ IsSeq(W) /\ IsSeq(T) /\ IsSeq(Joined(T, after))
         /\ input = Joined(W, Joined(T, after))
         /\ Unfolds(W, Wanted, x) /\ Reads(T, Taken(Top, x), r)
  BY <1>1, ValueFollows
<1>3. PICK y : W = <<ScalarToken(y)>> /\ x = <<y>>
  BY <1>1, <1>2 DEF Unfolds
<1> DEFINE tok == ScalarToken(y)
           rest == Joined(T, after)
<1>4. tok.is = "scalar" /\ tok.value = y /\ SizeOf(tok) = 0
  BY DEF ScalarToken, SizeOf
<1> HIDE DEF tok, rest, after, r
<1>5. IsSeq(rest) /\ IsFirst(input, tok, rest)
  BY <1>2, <1>3, BeginsWith DEF tok, rest
<1>6. ~damaged /\ IsSeq(stack) /\ stack # <<>> /\ s = Below
  BY DEF Follows
<1>7. PICK found \in Found("scalar") :
         Consume(found) /\ Continue(Give(stack, <<found.value>>))
  BY DEF ReadScalar
<1>8. found = tok /\ input' = rest
  BY <1>4, <1>5, <1>6, <1>7, FoundIs
<1>9. stack' = Give(stack, x) /\ UNCHANGED <<pass, damaged, end>>
  BY <1>3, <1>4, <1>7, <1>8 DEF Continue
<1>10. stack' = Append(s, Taken(Top, x))
  BY <1>6, <1>9, GiveIs DEF Below, Top, Front
<1>11. Heads(input', after, Taken(Top, x), r)
  <2>1. Ready(T, Taken(Top, x), r)
    BY <1>2, ReadsReady
  <2>2. QED
    BY <1>2, <1>8, <2>1 DEF Heads, rest
<1>12. Consumed(Pass(pass).tokens, input', total')
  BY <1>1, <1>4, <1>5, <1>8, TokenConsumed
<1>13. QED
  BY <1>9, <1>10, <1>11, <1>12, TopGoesOn DEF after, r

\* The function called for a struct or union finds all of it.
LEMMA BeginStructFollows ==
    ASSUME NEW s, NEW c, NEW R, Follows(s, c, R), BeginStruct
    PROVE  FInv'
<1> DEFINE after == c[Len(stack)]
           r == R[Len(stack)]
           f == StructFrame(Wanted)
<1>1. /\ WantsValue /\ HasFields(Wanted) /\ input' = input /\ total' = total
      /\ stack' = Append(stack, f) /\ UNCHANGED <<pass, damaged, end>>
  BY DEF BeginStruct, HasFields, Continue
<1>2. PICK W, T, x :
         /\ IsSeq(W) /\ IsSeq(T) /\ IsSeq(Joined(T, after))
         /\ input = Joined(W, Joined(T, after))
         /\ Unfolds(W, Wanted, x) /\ Reads(T, Taken(Top, x), r)
  BY <1>1, ValueFollows
<1>3. Reads(W, f, x)
  BY <1>1, <1>2 DEF Unfolds
<1>4. Consumed(Pass(pass).tokens, input, total)
  BY DEF Follows
<1> HIDE DEF f
<1>5. Consumed(Pass(pass).tokens, input', total')
  BY <1>1, <1>4
<1>6. input' = Joined(W, Joined(T, c[Len(stack)]))
  BY <1>1, <1>2
<1>7. QED
  BY <1>1, <1>2, <1>3, <1>5, <1>6, CallGoesOn

\* A container beyond the limits is of a value that does not fit.
LEMMA BeginContainerFollows ==
    ASSUME NEW s, NEW c, NEW R, Follows(s, c, R), BeginContainer
    PROVE  FInv'
<1> DEFINE after == c[Len(stack)]
           r == R[Len(stack)]
<1>1. WantsValue /\ Wanted.kind \in {"list", "map"}
  BY DEF BeginContainer
<1>2. PICK W, T, x :
         /\ IsSeq(W) /\ IsSeq(T) /\ IsSeq(Joined(T, after))
         /\ input = Joined(W, Joined(T, after))
         /\ Unfolds(W, Wanted, x) /\ Reads(T, Taken(Top, x), r)
  BY <1>1, ValueFollows
<1>3. PICK tok, U :
         /\ W = Joined(<<tok>>, U) /\ IsSeq(U)
         /\ tok.is = Wanted.kind /\ tok.size \in Nat
         /\ Reads(U, ContainerFrame(OfWire(Wanted, tok), tok.size), x)
  BY <1>1, <1>2 DEF Unfolds
<1> DEFINE below == Joined(T, after)
           rest == Joined(U, below)
           f == ContainerFrame(OfWire(Wanted, tok), tok.size)
           tokens == Pass(pass).tokens
<1>4. SizeOf(tok) = tok.size
  BY <1>1, <1>3 DEF SizeOf
<1>5. IsSeq(rest) /\ IsFirst(input, tok, rest)
  <2>1. IsSeq(rest)
    BY <1>2, <1>3, JoinedSeq DEF IsJoin
  <2>2. IsSeq(<<tok>>)
    BY SingleSeqIs
  <2> HIDE DEF below
  <2>3. IsSeq(below) /\ input = Joined(Joined(<<tok>>, U), below)
    BY <1>2, <1>3 DEF below
  <2>4. input = Joined(<<tok>>, rest)
    BY <1>3, <2>2, <2>3, JoinedAgain
  <2> HIDE DEF rest
  <2>5. QED
    BY <2>1, <2>4, BeginsWith
<1>6. ~damaged /\ total \in Nat /\ ~Pass(pass).damaged
  BY DEF Follows
<1>7. PICK found \in Found(Wanted.kind) :
         /\ Consume(found)
         /\ IF WithinCaps(found.size)
            THEN /\ total' = total + found.size
                 /\ Continue(Append(stack, ContainerFrame(OfWire(Wanted, found), found.size)))
            ELSE /\ UNCHANGED total
                 /\ Finish(Failed)
  BY DEF BeginContainer
<1> HIDE DEF rest
<1>8. found = tok /\ input' = rest
  BY <1>3, <1>5, <1>6, <1>7, FoundIs
<1> HIDE DEF f
<1>9. CASE WithinCaps(tok.size)
  <2>1. total' = total + tok.size /\ stack' = Append(stack, f) /\ UNCHANGED <<pass, damaged, end>>
    BY <1>7, <1>8, <1>9 DEF Continue, f
  <2>2. tok.size <= MaxCollectionSize /\ total + tok.size <= MaxTotalElements
    BY <1>3, <1>9, CapsAssumption DEF WithinCaps
  <2>3. Consumed(tokens, rest, total + tok.size)
    BY <1>4, <1>5, <2>2, TokenConsumed
  <2>4. Consumed(Pass(pass).tokens, input', total')
    BY <1>8, <2>1, <2>3
  <2>5. input' = Joined(U, Joined(T, c[Len(stack)])) /\ Reads(U, f, x)
    BY <1>3, <1>8 DEF rest, f
  <2>6. QED
    BY <1>2, <2>1, <2>4, <2>5, CallGoesOn
<1>10. CASE ~WithinCaps(tok.size)
  <2>1. ~(tok.size <= MaxCollectionSize /\ total + tok.size <= MaxTotalElements)
    BY <1>3, <1>10, CapsAssumption DEF WithinCaps
  <2>2. ~Fits(tokens)
    BY <1>4, <1>5, <2>1, TokenConsumed
  <2>3. Finish(Failed)
    BY <1>7, <1>8, <1>10
  <2>4. Outcome(pass) = Failed
    BY <2>2 DEF Outcome
  <2>5. QED
    BY <2>3, <2>4, GoesNoFurther
<1>11. QED
  BY <1>9, <1>10

\* Of what was written, there is always what is sought.
LEMMA BytesAreThere ==
    ASSUME NEW s, NEW c, NEW R, Follows(s, c, R)
    PROVE  ~OutOfBytes
<1> DEFINE after == c[Len(stack)]
           r == R[Len(stack)]
<1> SUFFICES ASSUME OutOfBytes PROVE FALSE
  OBVIOUS
<1>1. ~damaged /\ IsSeq(after) /\ Heads(input, after, Top, r)
  BY DEF Follows
<1>2. PICK kind \in Sought \ {"struct", "union"} : Found(kind) = {}
  BY <1>1 DEF OutOfBytes
<1>3. CASE WantsValue
  <2>1. kind = Wanted.kind
    BY <1>2, <1>3 DEF Sought
  <2>2. PICK W, T, x :
           /\ IsSeq(W) /\ IsSeq(T) /\ IsSeq(Joined(T, after))
           /\ input = Joined(W, Joined(T, after))
           /\ Unfolds(W, Wanted, x) /\ Reads(T, Taken(Top, x), r)
    BY <1>3, ValueFollows
  <2> DEFINE below == Joined(T, after)
  <2> HIDE DEF below, after, r
  <2>3. Wanted.kind \in {"scalar", "list", "map"}
    BY <1>2, <2>1, <2>2 DEF Unfolds
  <2>4. \E tok, U : W = Joined(<<tok>>, U) /\ IsSeq(U) /\ tok.is = kind
    <3>1. CASE kind = "scalar"
      <4>1. PICK y : W = <<ScalarToken(y)>>
        BY <2>1, <2>2, <3>1 DEF Unfolds
      <4>2. W = Joined(<<ScalarToken(y)>>, <<>>) /\ IsSeq(<<>>)
        BY <4>1, SingleSeqIs, EmptySeqIs, JoinedEmpty
      <4>3. ScalarToken(y).is = kind
        BY <3>1 DEF ScalarToken
      <4>4. QED
        BY <4>2, <4>3
    <3>2. CASE kind # "scalar"
      BY <2>1, <2>2, <2>3, <3>2 DEF Unfolds
    <3>3. QED
      BY <3>1, <3>2
  <2>5. PICK tok, U : W = Joined(<<tok>>, U) /\ IsSeq(U) /\ tok.is = kind
    BY <2>4
  <2>6. IsSeq(below) /\ IsSeq(<<tok>>) /\ input = Joined(Joined(<<tok>>, U), below)
    BY <2>2, <2>5, SingleSeqIs DEF below
  <2>7. input = Joined(<<tok>>, Joined(U, below)) /\ IsSeq(Joined(U, below))
    BY <2>5, <2>6, JoinedAgain, JoinedSeq DEF IsJoin
  <2>8. IsFirst(input, tok, Joined(U, below))
    BY <2>7, BeginsWith
  <2>9. QED
    BY <1>1, <1>2, <2>5, <2>8, FoundIs
<1>4. CASE ~WantsValue
  <2>1. OfFields(Top) /\ kind = "field" /\ ~Wants(Top)
    BY <1>2, <1>4 DEF Sought, WantsValue
  <2> HIDE DEF after, r
  <2>2. CASE FindsStop(input, after, Top, r)
    <3>1. StopToken.is = "field"
      BY DEF StopToken, FieldToken
    <3>2. QED
      BY <1>1, <1>2, <2>1, <2>2, <3>1, FoundIs DEF FindsStop
  <2>3. ASSUME NEW t, NEW rest, FindsField(input, after, Top, r, t, rest) PROVE FALSE
    BY <1>1, <1>2, <2>1, <2>3, FoundIs DEF FindsField
  <2>4. QED
    BY <1>1, <2>1, <2>2, <2>3, FieldHead
<1>5. QED
  BY <1>3, <1>4

\* A step of a pass over what was written.
LEMMA ReadFollows ==
    ASSUME NEW s, NEW c, NEW R, Follows(s, c, R), Read
    PROVE  FInv'
<1>1. CASE ReadField
  BY <1>1, ReadFieldFollows
<1>2. CASE EndStruct
  BY <1>2, EndStructFollows
<1>3. CASE EndUnion
  BY <1>3, EndUnionFollows
<1>4. CASE ReadScalar
  BY <1>4, ReadScalarFollows
<1>5. CASE BeginStruct
  BY <1>5, BeginStructFollows
<1>6. CASE BeginContainer
  BY <1>6, BeginContainerFollows
<1>7. CASE EndContainer
  BY <1>7, EndContainerFollows
<1>8. ~OutOfBytes
  BY BytesAreThere
<1>9. QED
  BY <1>1, <1>2, <1>3, <1>4, <1>5, <1>6, <1>7, <1>8 DEF Read

\* No step changes the pass.
LEMMA PassStays ==
    ASSUME Read
    PROVE  UNCHANGED <<pass, damaged>> /\ end = Reading
<1>1. \A r : Return(r) => UNCHANGED <<pass, damaged>>
  BY DEF Return, Continue, Finish
<1>2. QED
  BY <1>1 DEF Read, ReadField, EndStruct, EndUnion, ReadScalar, BeginStruct, BeginContainer,
              EndContainer, OutOfBytes, Continue, Finish

\* The invariant holds at first, and every step keeps it.
LEMMA FollowInit == Init => FInv
<1> SUFFICES ASSUME Init PROVE FInv
  OBVIOUS
<1>1. /\ pass \in Passes /\ damaged = Pass(pass).damaged /\ input = Pass(pass).tokens
      /\ stack = <<StructFrame(Pass(pass).type)>> /\ total = 0 /\ end = Reading
  BY DEF Init
<1>2. ASSUME ~damaged PROVE Following(pass, stack, input, total)
  <2>1. ~Pass(pass).damaged
    BY <1>1, <1>2
  <2>2. /\ IsTokens(Pass(pass).tokens)
        /\ Reads(Pass(pass).tokens, StructFrame(Pass(pass).type), <<Pass(pass).value>>)
    BY <1>1, <2>1, PassIs
  <2>3. Tracks(stack, input, Pass(pass).value)
    BY <1>1, <2>2, TracksNew
  <2>4. Consumed(Pass(pass).tokens, input, total)
    BY <1>1, <2>2, ConsumedNew
  <2>5. QED
    BY <2>3, <2>4 DEF Following
<1>3. QED
  BY <1>1, <1>2 DEF FInv

LEMMA FollowStep == FInv /\ IInv /\ [Next]_vars => FInv'
<1> SUFFICES ASSUME FInv, IInv, [Next]_vars PROVE FInv'
  OBVIOUS
<1>1. CASE Read
  <2>1. pass' = pass /\ damaged' = damaged /\ end = Reading
    BY <1>1, PassStays
  <2>2. CASE damaged
    <3>1. pass' \in Passes /\ damaged' = Pass(pass').damaged /\ damaged'
      BY <2>1, <2>2 DEF FInv
    <3>2. QED
      BY <3>1 DEF FInv
  <2>3. CASE ~damaged
    <3>1. PICK s, c, R : Follows(s, c, R)
      BY <2>1, <2>3, FollowsFrom
    <3>2. QED
      BY <1>1, <3>1, ReadFollows
  <2>4. QED
    BY <2>2, <2>3
<1>2. CASE UNCHANGED vars
  <2>1. /\ pass' = pass /\ damaged' = damaged /\ input' = input /\ stack' = stack
        /\ total' = total /\ end' = end
    BY <1>2 DEF vars
  <2>2. /\ pass' \in Passes /\ damaged' = Pass(pass').damaged
        /\ \/ damaged'
           \/ end' = Outcome(pass')
           \/ end' = Reading /\ Following(pass', stack', input', total')
    BY <2>1 DEF FInv
  <2>3. QED
    BY <2>2 DEF FInv
<1>3. QED
  BY <1>1, <1>2 DEF Next, Done

(***************************************************************************)
(* What a peer of the same or of a newer schema wrote is read as the value *)
(* that it is, whatever the schema, the value and the limits, and refused  *)
(* if and only if it is larger than the limits: no pass over it returns    *)
(* another value, and none fails for another reason (read_from_in_protocol *)
(* and write_to_out_protocol of the generated types).                      *)
(***************************************************************************)
THEOREM WritesAreRead == Spec => []ReadsWhatWasWritten
<1>1. FInv => ReadsWhatWasWritten
  BY DEF FInv, ReadsWhatWasWritten, Outcome
<1>2. Init /\ [][Next]_vars => []FInv
  <2>1. Init => FInv
    BY FollowInit
  <2>2. FInv /\ IInv /\ [Next]_vars => FInv'
    BY FollowStep
  <2>3. Spec => []IInv
    BY PassInvariant
  <2>4. QED
    BY <2>1, <2>2, <2>3, PTL DEF Spec
<1>3. QED
  BY <1>1, <1>2, PTL DEF Spec
================================================================================
