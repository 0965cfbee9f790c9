--------------------------- MODULE SequenceLemmas ---------------------------
(***************************************************************************)
(* Facts about numbers and sequences that the proofs of several components *)
(* need.                                                                   *)
(***************************************************************************)
EXTENDS Sublists, Integers, SequencesExt, SequenceTheorems, FiniteSetTheorems,
        WellFoundedInduction, TLAPS

(* A non-empty set of numbers has a least element.                         *)
LEMMA LeastExists ==
    ASSUME NEW S, S \subseteq Nat, S # {}
    PROVE  \E x \in S : \A y \in S : x <= y
<1> DEFINE R == {p \in Nat \X Nat : p[1] < p[2]}
<1>1. IsWellFoundedOn(R, Nat)
  <2>1. OpToRel(<, Nat) = R
    BY DEF OpToRel
  <2>. QED  BY <2>1, NatLessThanWellFounded
<1>2. PICK x \in S : \A y \in S : <<y, x>> \notin R
  <2>. HIDE DEF R
  <2>. QED  BY <1>1, WFMin
<1>3. ASSUME NEW y \in S
      PROVE  x <= y
  <2>1. x \in Nat /\ y \in Nat
    OBVIOUS
  <2>2. y < x => <<y, x>> \in R
    BY <2>1
  <2> HIDE DEF R
  <2>3. <<y, x>> \notin R
    BY <1>2
  <2>. QED  BY <2>1, <2>2, <2>3
<1>. QED  BY <1>3

-----------------------------------------------------------------------------
(* Sublist is defined by recursion: what it has kept of the first k        *)
(* elements, and of all of them up to n.                                   *)

Picked(s, S, f, k) ==
    IF k = 0 THEN <<>>
    ELSE IF s[k] \in S THEN Append(f[k - 1], s[k]) ELSE f[k - 1]
Picks(s, S, f, n) == f = [k \in 0..n |-> Picked(s, S, f, k)]

LEMMA PicksExist ==
    ASSUME NEW s, NEW S, NEW n \in Nat
    PROVE  \E f : Picks(s, S, f, n)
<1> DEFINE T == {m \in Nat : ~ \E f : Picks(s, S, f, m)}
<1>. SUFFICES ASSUME T # {} PROVE FALSE
  OBVIOUS
<1>1. PICK m \in T : \A i \in T : m <= i
  BY LeastExists
<1>2. m # 0
  <2> DEFINE f == [k \in 0..0 |-> <<>>]
  <2>1. f = [k \in 0..0 |-> Picked(s, S, f, k)]
    BY DEF Picked
  <2>2. Picks(s, S, f, 0)
    BY <2>1 DEF Picks
  <2>. QED  BY <2>2
<1>3. m - 1 \in Nat /\ m - 1 \notin T
  BY <1>1, <1>2
<1>4. PICK f : Picks(s, S, f, m - 1)
  BY <1>3
<1> DEFINE g == [k \in 0..m |-> Picked(s, S, f, k)]
<1>5. \A k \in 0..(m - 1) : g[k] = f[k]
  BY <1>3, <1>4 DEF Picks
<1>6. ASSUME NEW k \in 0..m PROVE Picked(s, S, f, k) = Picked(s, S, g, k)
  <2>1. CASE k = 0
    BY <2>1 DEF Picked
  <2>2. CASE k # 0
    <3>1. k - 1 \in 0..(m - 1)
      BY <2>2
    <3>2. g[k - 1] = f[k - 1]
      BY <1>5, <3>1
    <3> HIDE DEF g
    <3>. QED  BY <3>2 DEF Picked
  <2>. QED  BY <2>1, <2>2
<1>7. Picks(s, S, g, m)
  <2>1. g = [k \in 0..m |-> Picked(s, S, g, k)]
    BY <1>6
  <2>. QED  BY <2>1 DEF Picks
<1>. QED  BY <1>1, <1>7

(* A sublist holds the elements of the sequence that are in the set.       *)
LEMMA SublistHolds ==
    ASSUME NEW V, NEW s \in Seq(V), NEW S
    PROVE  /\ Sublist(s, S) \in Seq(V \cap S)
           /\ {Sublist(s, S)[j] : j \in DOMAIN Sublist(s, S)}
                 = {s[k] : k \in DOMAIN s} \cap S
<1> DEFINE On(u) == {u[j] : j \in DOMAIN u}
           W == V \cap S
<1>1. PICK n : n = Len(s)
  OBVIOUS
<1>2. n \in Nat /\ DOMAIN s = 1..n /\ \A k \in 1..n : s[k] \in V
  BY <1>1, LenProperties, ElementOfSeq
<1>3. PICK f : f = CHOOSE g : Picks(s, S, g, n)
  OBVIOUS
<1>4. Picks(s, S, f, n)
  BY <1>2, <1>3, PicksExist
<1>5. Sublist(s, S) = f[n]
  BY <1>1, <1>3 DEF Sublist, Picks, Picked
<1> DEFINE Good(k) == /\ f[k] \in Seq(W)
                      /\ On(f[k]) = {s[j] : j \in 1..k} \cap S
           T == {k \in Nat : k <= n /\ ~Good(k)}
<1>6. T = {}
  <2>. SUFFICES ASSUME T # {} PROVE FALSE
    OBVIOUS
  <2>1. PICK k \in T : \A i \in T : k <= i
    BY LeastExists
  <2>2. k \in 0..n /\ k \in Nat
    BY <1>2, <2>1
  <2>3. f[k] = Picked(s, S, f, k)
    BY <1>4, <2>2 DEF Picks
  <2>4. CASE k = 0
    <3>1. f[k] = <<>>
      BY <2>3, <2>4 DEF Picked
    <3>2. {s[j] : j \in 1..k} = {} /\ On(<<>>) = {}
      BY <2>4
    <3>3. <<>> \in Seq(W)
      OBVIOUS
    <3> HIDE DEF On, W
    <3>4. On(f[k]) = {s[j] : j \in 1..k} \cap S
      BY <3>1, <3>2
    <3>5. f[k] \in Seq(W)
      BY <3>1, <3>3
    <3>. QED  BY <2>1, <3>4, <3>5
  <2>5. CASE k # 0
    <3>0. k - 1 \in Nat /\ k - 1 <= n /\ ~(k <= k - 1) /\ k \in 1..n
      BY <1>2, <2>2, <2>5
    <3>1. k - 1 \in Nat /\ k - 1 <= n /\ k - 1 \notin T /\ k \in 1..n
      <4> HIDE DEF T
      <4>. QED  BY <2>1, <3>0
    <3>2. PICK u, x : u = f[k - 1] /\ x = s[k]
      OBVIOUS
    <3>3. u \in Seq(W) /\ On(u) = {s[j] : j \in 1..(k - 1)} \cap S /\ x \in V
      BY <1>2, <3>1, <3>2
    <3>4. f[k] = IF x \in S THEN Append(u, x) ELSE u
      BY <2>3, <2>5, <3>2 DEF Picked
    <3>5. {s[j] : j \in 1..k} = {s[j] : j \in 1..(k - 1)} \cup {x}
      <4>1. 1..k = 1..(k - 1) \cup {k}
        BY <3>1
      <4>. QED  BY <3>2, <4>1
    <3>6. CASE x \in S
      <4>1. PICK v, m : v = Append(u, x) /\ m = Len(u)
        OBVIOUS
      <4>2. /\ v \in Seq(W) /\ Len(v) = m + 1 /\ m \in Nat /\ v[m + 1] = x
            /\ \A i \in 1..m : v[i] = u[i]
        <5>1. x \in W
          BY <3>3, <3>6
        <5> HIDE DEF W
        <5>. QED  BY <3>3, <4>1, <5>1, AppendProperties, LenProperties
      <4>3. DOMAIN v = 1..m \cup {m + 1} /\ DOMAIN u = 1..m
        <5>1. DOMAIN v = 1..(m + 1)
          BY <4>2, LenProperties
        <5>. QED  BY <3>3, <4>1, <4>2, <5>1, LenProperties
      <4>4. On(v) = On(u) \cup {x}
        BY <4>2, <4>3
      <4> HIDE DEF On, W
      <4>. QED  BY <2>1, <3>3, <3>4, <3>5, <3>6, <4>1, <4>2, <4>4
    <3>7. CASE x \notin S
      <4> HIDE DEF On, W
      <4>. QED  BY <2>1, <3>3, <3>4, <3>5, <3>7
    <3>. QED  BY <3>6, <3>7
  <2>. QED  BY <2>4, <2>5
<1>7. Good(n)
  BY <1>2, <1>6
<1> HIDE DEF On
<1>8. On(f[n]) = On(s) \cap S
  BY <1>2, <1>7 DEF On
<1>. QED  BY <1>5, <1>7, <1>8 DEF On

-----------------------------------------------------------------------------
(* A sequence is one of its own elements; two of them, joined, hold the    *)
(* elements of both.                                                       *)
Elements(s) == {s[k] : k \in DOMAIN s}
IsSequence(s) == s \in Seq(Elements(s))

LEMMA SequenceIs ==
    ASSUME NEW V, NEW s \in Seq(V)
    PROVE  IsSequence(s) /\ Elements(s) \subseteq V
<1>1. Len(s) \in Nat /\ DOMAIN s = 1..Len(s) /\ \A k \in 1..Len(s) : s[k] \in V
  BY LenProperties, ElementOfSeq
<1>2. s = [k \in 1..Len(s) |-> s[k]] /\ \A k \in 1..Len(s) : s[k] \in Elements(s)
  BY <1>1 DEF Elements
<1>3. \A k \in 1..Len(s) : s[k] \in Elements(s)
  BY <1>2
<1> HIDE DEF Elements
<1>4. IsSequence(s)
  BY <1>1, <1>2, <1>3 DEF IsSequence
<1>. QED  BY <1>1, <1>4 DEF Elements

LEMMA FunctionIsSequence ==
    ASSUME NEW n \in Nat, NEW s, DOMAIN s = 1..n, s = [k \in 1..n |-> s[k]]
    PROVE  IsSequence(s)
<1>1. \A k \in 1..n : s[k] \in Elements(s)
  BY DEF Elements
<1>. QED  BY <1>1 DEF IsSequence

LEMMA JoinedSequences ==
    ASSUME NEW s, NEW t, IsSequence(s), IsSequence(t)
    PROVE  IsSequence(s \o t) /\ Elements(s \o t) = Elements(s) \cup Elements(t)
<1>1. PICK S, T : S = Elements(s) /\ T = Elements(t)
  OBVIOUS
<1>2. s \in Seq(S) /\ t \in Seq(T)
  BY <1>1 DEF IsSequence
<1>3. PICK m, n, u : m = Len(s) /\ n = Len(t) /\ u = s \o t
  OBVIOUS
<1>4. /\ m \in Nat /\ n \in Nat /\ DOMAIN s = 1..m /\ DOMAIN t = 1..n
  BY <1>2, <1>3, LenProperties
<1>5. s \in Seq(S \cup T) /\ t \in Seq(S \cup T)
  <2>1. \A k \in 1..m : s[k] \in S
    BY <1>2, <1>3, ElementOfSeq
  <2>2. \A k \in 1..n : t[k] \in T
    BY <1>2, <1>3, ElementOfSeq
  <2>. QED  BY <1>2, <1>3, <1>4, <2>1, <2>2, SeqDef, LenProperties
<1>6. /\ u \in Seq(S \cup T) /\ DOMAIN u = 1..(m + n)
      /\ \A i \in 1..(m + n) : u[i] = IF i <= m THEN s[i] ELSE t[i - m]
  BY <1>3, <1>4, <1>5, ConcatProperties, LenProperties
<1>7. Elements(u) \subseteq S \cup T
  BY <1>6, SequenceIs
<1>8. ASSUME NEW x \in S PROVE x \in Elements(u)
  <2>1. PICK k \in 1..m : x = s[k]
    BY <1>1, <1>4, <1>8 DEF Elements
  <2>2. k \in 1..(m + n) /\ k <= m
    BY <1>4
  <2>. QED  BY <1>6, <2>1, <2>2 DEF Elements
<1>9. ASSUME NEW x \in T PROVE x \in Elements(u)
  <2>1. PICK k \in 1..n : x = t[k]
    BY <1>1, <1>4, <1>9 DEF Elements
  <2>2. m + k \in 1..(m + n) /\ ~(m + k <= m) /\ (m + k) - m = k
    BY <1>4
  <2>. QED  BY <1>6, <2>1, <2>2 DEF Elements
<1>. QED  BY <1>1, <1>3, <1>6, <1>7, <1>8, <1>9, SequenceIs

LEMMA SeqGrows ==
    ASSUME NEW S, NEW T, S \subseteq T, NEW s \in Seq(S)
    PROVE  s \in Seq(T)
OBVIOUS

-----------------------------------------------------------------------------
(* Lists, and what the functions of SequencesExt make of them.             *)

IsList(s) == Len(s) \in Nat /\ DOMAIN s = 1..Len(s)

LEMMA ListIs ==
    ASSUME NEW V, NEW n \in Nat, NEW s, s \in [1..n -> V]
    PROVE  s \in Seq(V) /\ Len(s) = n /\ IsList(s)
<1>1. s \in Seq(V)
  BY SeqDef
<1>. QED  BY <1>1, LenProperties DEF IsList

LEMMA SeqIsList ==
    ASSUME NEW V, NEW s \in Seq(V)
    PROVE  IsList(s) /\ \A k \in DOMAIN s : s[k] \in V
BY LenProperties, ElementOfSeq DEF IsList

(* A finite set in some order.                                             *)
LEMMA SetListed ==
    ASSUME NEW S, IsFiniteSet(S)
    PROVE  /\ SetToSeq(S) \in Seq(S) /\ ToSet(SetToSeq(S)) = S
           /\ IsInjective(SetToSeq(S))
<1> DEFINE n == Cardinality(S)
           Lists == {f \in [1..n -> S] : IsInjective(f)}
<1>1. n \in Nat /\ \E f \in Bijection(1..n, S) : TRUE
  BY FS_CardinalityType DEF ExistsBijection
<1>2. PICK f \in Bijection(1..n, S) : TRUE
  BY <1>1
<1>3. f \in Lists
  BY <1>2 DEF Bijection, Injection, IsInjective
<1>4. SetToSeq(S) \in Lists
  BY <1>3 DEF SetToSeq
<1>5. PICK s : s = SetToSeq(S)
  OBVIOUS
<1>6. s \in Seq(S) /\ IsInjective(s) /\ s \in [1..n -> S]
  BY <1>1, <1>4, <1>5, SeqDef
<1>7. ToSet(s) = S
  <2>1. s \in Injection(1..n, S)
    BY <1>6 DEF Injection, IsInjective
  <2>2. IsFiniteSet(1..n) /\ Cardinality(1..n) = n
    <3>1. 1 \in Int /\ n \in Int
      BY <1>1
    <3>. QED  BY <1>1, <3>1, FS_Interval
  <2>3. s \in Surjection(1..n, S)
    BY <2>1, <2>2, FS_Injection
  <2>. QED  BY <2>3 DEF Surjection, ToSet
<1>. QED  BY <1>5, <1>6, <1>7

LEMMA SetOrdered ==
    ASSUME NEW S, IsFiniteSet(S), NEW s \in SetToSeqs(S)
    PROVE  s \in Seq(S)
<1>1. Cardinality(S) \in Nat
  BY FS_CardinalityType
<1>2. s \in [1..Cardinality(S) -> S]
  BY DEF SetToSeqs
<1>. QED  BY <1>1, <1>2, SeqDef

(* FlattenSeq is defined by recursion: what it has put together of the     *)
(* first i sequences, and of all of them up to n.                          *)
Flat(s, f, i) == IF i = 1 THEN s[i] ELSE f[i - 1] \o s[i]
Flats(s, f, n) == f = [i \in 1..n |-> Flat(s, f, i)]

LEMMA FlatsExist ==
    ASSUME NEW s, NEW n \in Nat
    PROVE  \E f : Flats(s, f, n)
<1> DEFINE T == {m \in Nat : ~ \E f : Flats(s, f, m)}
<1>. SUFFICES ASSUME T # {} PROVE FALSE
  OBVIOUS
<1>1. PICK m \in T : \A i \in T : m <= i
  BY LeastExists
<1>2. m # 0
  <2> DEFINE f == [i \in 1..0 |-> <<>>]
  <2>1. 1..0 = {}
    OBVIOUS
  <2>2. f = [i \in 1..0 |-> Flat(s, f, i)]
    BY <2>1
  <2>3. Flats(s, f, 0)
    BY <2>2 DEF Flats
  <2>. QED  BY <2>3
<1>3. m - 1 \in Nat /\ m - 1 \notin T
  BY <1>1, <1>2
<1>4. PICK f : Flats(s, f, m - 1)
  BY <1>3
<1> DEFINE g == [i \in 1..m |-> Flat(s, f, i)]
<1>5. \A i \in 1..(m - 1) : g[i] = f[i]
  BY <1>3, <1>4 DEF Flats
<1>6. ASSUME NEW i \in 1..m PROVE Flat(s, f, i) = Flat(s, g, i)
  <2>1. CASE i = 1
    BY <2>1 DEF Flat
  <2>2. CASE i # 1
    <3>1. i - 1 \in 1..(m - 1)
      BY <2>2
    <3>2. g[i - 1] = f[i - 1]
      BY <1>5, <3>1
    <3> HIDE DEF g
    <3>. QED  BY <3>2 DEF Flat
  <2>. QED  BY <2>1, <2>2
<1>7. Flats(s, g, m)
  <2>1. g = [i \in 1..m |-> Flat(s, g, i)]
    BY <1>6
  <2>. QED  BY <2>1 DEF Flats
<1>. QED  BY <1>1, <1>7

LEMMA FlattenKeeps ==
    ASSUME NEW V, NEW s \in Seq(Seq(V))
    PROVE  FlattenSeq(s) \in Seq(V)
<1>1. PICK n : n = Len(s)
  OBVIOUS
<1>2. n \in Nat /\ DOMAIN s = 1..n /\ \A k \in 1..n : s[k] \in Seq(V)
  BY <1>1, LenProperties, ElementOfSeq
<1>3. CASE n = 0
  <2>1. s = <<>>
    BY <1>1, <1>3, EmptySeq
  <2>2. FlattenSeq(s) = s
    BY <1>1, <1>3 DEF FlattenSeq
  <2>3. <<>> \in Seq(V)
    OBVIOUS
  <2>. QED  BY <2>1, <2>2, <2>3
<1>4. CASE n # 0
  <2>1. PICK f : f = CHOOSE g : Flats(s, g, n)
    OBVIOUS
  <2>2. Flats(s, f, n)
    BY <1>2, <2>1, FlatsExist
  <2>3. FlattenSeq(s) = f[n]
    BY <1>1, <1>4, <2>1 DEF FlattenSeq, Flats, Flat
  <2> DEFINE T == {i \in Nat : i \in 1..n /\ f[i] \notin Seq(V)}
  <2>4. T = {}
    <3>. SUFFICES ASSUME T # {} PROVE FALSE
      OBVIOUS
    <3>1. PICK i \in T : \A j \in T : i <= j
      BY LeastExists
    <3>2. f[i] = Flat(s, f, i) /\ i \in 1..n /\ s[i] \in Seq(V)
      BY <1>2, <2>2, <3>1 DEF Flats
    <3>3. CASE i = 1
      BY <3>1, <3>2, <3>3 DEF Flat
    <3>4. CASE i # 1
      <4>1. i - 1 \in 1..n /\ i - 1 \in Nat /\ ~(i <= i - 1)
        BY <1>2, <3>2, <3>4
      <4>2. i - 1 \notin T
        <5> HIDE DEF T
        <5>. QED  BY <3>1, <4>1
      <4>3. f[i - 1] \in Seq(V)
        BY <4>1, <4>2
      <4>4. f[i] = f[i - 1] \o s[i]
        BY <3>2, <3>4 DEF Flat
      <4>5. f[i - 1] \o s[i] \in Seq(V)
        BY <3>2, <4>3
      <4>. QED  BY <3>1, <4>4, <4>5
    <3>. QED  BY <3>3, <3>4
  <2>. QED  BY <1>2, <1>4, <2>3, <2>4
<1>. QED  BY <1>3, <1>4

LEMMA SequenceIsList ==
    ASSUME NEW s, IsSequence(s)
    PROVE  IsList(s)
BY SeqIsList DEF IsSequence

(* A function on the places of a list is a list.                           *)
LEMMA ListMapped ==
    ASSUME NEW s, IsList(s), NEW t, t = [k \in DOMAIN s |-> t[k]]
    PROVE  IsSequence(t) /\ DOMAIN t = DOMAIN s
<1>1. DOMAIN s = 1..Len(s) /\ Len(s) \in Nat
  BY DEF IsList
<1>. QED  BY <1>1, FunctionIsSequence

Translate(T, s) == [k \in DOMAIN s |-> T[s[k]]]

LEMMA TranslateJoined ==
    ASSUME NEW T, NEW a, NEW b, IsSequence(a), IsSequence(b)
    PROVE  Translate(T, a \o b) = Translate(T, a) \o Translate(T, b)
<1>1. PICK A, B, m, n : /\ A = Elements(a) /\ B = Elements(b)
                        /\ m = Len(a) /\ n = Len(b)
  OBVIOUS
<1>2. PICK X : X = {T[x] : x \in A \cup B}
  OBVIOUS
<1>3. /\ a \in Seq(A) /\ b \in Seq(B) /\ m \in Nat /\ n \in Nat
      /\ DOMAIN a = 1..m /\ DOMAIN b = 1..n
  BY <1>1, LenProperties DEF IsSequence
<1>4. (\A k \in 1..m : a[k] \in A) /\ (\A k \in 1..n : b[k] \in B)
  BY <1>3, ElementOfSeq
<1>5. PICK s, t, u, v : s = Translate(T, a) /\ t = Translate(T, b) /\ u = a \o b /\ v = s \o t
  OBVIOUS
<1>6. s \in Seq(X) /\ t \in Seq(X) /\ Len(s) = m /\ Len(t) = n
  <2>1. s \in [1..m -> X] /\ t \in [1..n -> X]
    BY <1>2, <1>3, <1>4, <1>5 DEF Translate
  <2>. QED  BY <1>3, <2>1, ListIs
<1>7. /\ DOMAIN v = 1..(m + n) /\ v = [k \in 1..(m + n) |-> v[k]]
      /\ \A k \in 1..(m + n) : v[k] = IF k <= m THEN s[k] ELSE t[k - m]
  <2>1. v \in Seq(X) /\ Len(v) = m + n
    BY <1>5, <1>6
  <2>2. DOMAIN v = 1..(m + n)
    BY <2>1, LenProperties
  <2>3. v = [k \in 1..(m + n) |-> v[k]]
    BY <2>1, <2>2
  <2>4. \A k \in 1..(m + n) : v[k] = IF k <= m THEN s[k] ELSE t[k - m]
    BY <1>5, <1>6
  <2>. QED  BY <2>2, <2>3, <2>4
<1>8. /\ DOMAIN u = 1..(m + n)
      /\ \A k \in 1..(m + n) : u[k] = IF k <= m THEN a[k] ELSE b[k - m]
  <2>1. PICK Y : Y = A \cup B
    OBVIOUS
  <2>2. a \in Seq(Y) /\ b \in Seq(Y)
    <3>1. A \subseteq Y /\ B \subseteq Y
      BY <2>1
    <3>. QED  BY <1>3, <3>1, SeqGrows
  <2>3. u \in Seq(Y) /\ Len(u) = m + n
    BY <1>1, <1>5, <2>2
  <2>4. \A k \in 1..(m + n) : u[k] = IF k <= m THEN a[k] ELSE b[k - m]
    BY <1>1, <1>5, <2>2
  <2>. QED  BY <2>3, <2>4, LenProperties
<1>9. ASSUME NEW k \in 1..(m + n) PROVE T[u[k]] = v[k]
  <2>1. CASE k <= m
    <3>1. k \in 1..m /\ u[k] = a[k] /\ v[k] = s[k]
      BY <1>3, <1>7, <1>8, <2>1
    <3>. QED  BY <1>3, <1>5, <3>1 DEF Translate
  <2>2. CASE ~(k <= m)
    <3>1. k - m \in 1..n /\ u[k] = b[k - m] /\ v[k] = t[k - m]
      BY <1>3, <1>7, <1>8, <2>2
    <3>. QED  BY <1>3, <1>5, <3>1 DEF Translate
  <2>. QED  BY <2>1, <2>2
<1>10. Translate(T, u) = v
  BY <1>7, <1>8, <1>9 DEF Translate
<1>. QED  BY <1>5, <1>10

LEMMA OneListed == SetToSeq({}) = <<>> /\ \A x : SetToSeq({x}) = <<x>>
<1>1. SetToSeq({}) = <<>>
  <2>1. SetToSeq({}) \in Seq({})
    BY SetListed, FS_EmptySet
  <2>. QED  BY <2>1
<1>2. ASSUME NEW x PROVE SetToSeq({x}) = <<x>>
  <2>1. PICK s, n : s = SetToSeq({x}) /\ n = Len(s)
    OBVIOUS
  <2>2. s \in Seq({x}) /\ ToSet(s) = {x} /\ IsInjective(s)
    <3>1. IsFiniteSet({x})
      BY FS_Singleton
    <3>. QED  BY <2>1, <3>1, SetListed
  <2>3. n \in Nat /\ DOMAIN s = 1..n /\ \A k \in 1..n : s[k] = x
    BY <2>1, <2>2, SeqIsList DEF IsList
  <2>4. n # 0
    <3>1. PICK i \in DOMAIN s : s[i] = x
      BY <2>2 DEF ToSet
    <3>2. i \in 1..n
      BY <2>3
    <3>. QED  BY <2>3, <3>2
  <2>5. ~(2 <= n)
    <3>. SUFFICES ASSUME 2 <= n PROVE FALSE
      OBVIOUS
    <3>1. 1 \in 1..n /\ 2 \in 1..n
      BY <2>3
    <3>. QED  BY <2>2, <2>3, <3>1 DEF IsInjective
  <2>6. n = 1
    BY <2>3, <2>4, <2>5
  <2>. QED  BY <2>1, <2>2, <2>3, <2>6
<1>. QED  BY <1>1, <1>2

(* Where every register read has one node, the loop over the registers     *)
(* lists these nodes.                                                      *)
LEMMA FlattenReads ==
    ASSUME NEW s, IsSequence(s), NEW S, NEW W, \A r \in S : W[r].reg = r,
           NEW used, used = {W[r] : r \in ToSet(s) \cap S}
    PROVE  FlattenSeq([k \in DOMAIN s |-> SetToSeq({n \in used : n.reg = s[k]})])
              = Translate(W, Sublist(s, S))
<1>1. PICK l, n : /\ l = [k \in DOMAIN s |-> SetToSeq({x \in used : x.reg = s[k]})]
                  /\ n = Len(s)
  OBVIOUS
<1>2. n \in Nat /\ DOMAIN s = 1..n /\ DOMAIN l = 1..n
  BY <1>1, SequenceIsList DEF IsList
<1>3. ASSUME NEW k \in 1..n
      PROVE  l[k] = IF s[k] \in S THEN <<W[s[k]]>> ELSE <<>>
  <2>1. s[k] \in ToSet(s)
    BY <1>2 DEF ToSet
  <2>2. s[k] \in S => {x \in used : x.reg = s[k]} = {W[s[k]]}
    BY <2>1
  <2>3. s[k] \notin S => {x \in used : x.reg = s[k]} = {}
    OBVIOUS
  <2>. QED  BY <1>1, <1>2, <2>2, <2>3, OneListed
<1>4. PICK g : g = CHOOSE h : Picks(s, S, h, n)
  OBVIOUS
<1>5. Picks(s, S, g, n) /\ Sublist(s, S) = g[n]
  <2>1. Picks(s, S, g, n)
    BY <1>2, <1>4, PicksExist
  <2>. QED  BY <1>1, <1>4, <2>1 DEF Sublist, Picks, Picked
<1>6. g[0] = <<>>
  BY <1>2, <1>5 DEF Picks, Picked
<1>7. ASSUME NEW k \in 1..n
      PROVE  g[k] = IF s[k] \in S THEN Append(g[k - 1], s[k]) ELSE g[k - 1]
  <2>1. k \in 0..n /\ k # 0
    BY <1>2
  <2>2. g[k] = Picked(s, S, g, k)
    BY <1>5, <2>1 DEF Picks
  <2>. QED  BY <2>1, <2>2 DEF Picked
<1>8. \A k \in 0..n : IsSequence(g[k])
  <2> DEFINE Bad == {k \in Nat : k <= n /\ ~IsSequence(g[k])}
  <2>. SUFFICES ASSUME Bad # {} PROVE FALSE
    BY <1>2
  <2>1. PICK k \in Bad : \A i \in Bad : k <= i
    BY LeastExists
  <2>2. IsSequence(<<>>)
    <3>1. <<>> \in Seq({})
      OBVIOUS
    <3>. QED  BY <3>1, SequenceIs
  <2>3. k # 0
    BY <1>6, <2>1, <2>2
  <2>4. k \in 1..n /\ k - 1 \in Nat /\ k - 1 <= n /\ ~(k <= k - 1)
    BY <1>2, <2>1, <2>3
  <2>5. IsSequence(g[k - 1])
    BY <2>1, <2>4
  <2>6. PICK h, x, Y : h = g[k - 1] /\ x = s[k] /\ Y = Elements(h) \cup {x}
    OBVIOUS
  <2>7. h \in Seq(Y)
    BY <2>5, <2>6, SeqGrows DEF IsSequence
  <2>8. Append(h, x) \in Seq(Y)
    BY <2>6, <2>7
  <2>9. IsSequence(Append(h, x))
    BY <2>8, SequenceIs
  <2>10. IsSequence(g[k])
    BY <1>7, <2>4, <2>5, <2>6, <2>9
  <2>. QED  BY <2>1, <2>10
<1>9. \A k \in 0..n : Translate(W, g[k]) \o <<>> = Translate(W, g[k])
  <2>. SUFFICES ASSUME NEW k \in 0..n PROVE Translate(W, g[k]) \o <<>> = Translate(W, g[k])
    OBVIOUS
  <2>1. PICK t : t = Translate(W, g[k])
    OBVIOUS
  <2>2. t = [i \in DOMAIN g[k] |-> t[i]]
    BY <2>1 DEF Translate
  <2>3. IsSequence(t)
    BY <1>8, <2>2, ListMapped, SequenceIsList
  <2>4. t \o <<>> = t
    BY <2>3 DEF IsSequence
  <2>. QED  BY <2>1, <2>4
<1>10. ASSUME NEW k \in 1..n PROVE Translate(W, g[k]) = Translate(W, g[k - 1]) \o l[k]
  <2>0. k - 1 \in 0..n
    BY <1>2
  <2>1. CASE s[k] \in S
    <3>1. PICK h, x : h = g[k - 1] /\ x = s[k]
      OBVIOUS
    <3>2. IsSequence(h)
      BY <1>8, <2>0, <3>1
    <3>3. IsSequence(<<x>>)
      <4>1. <<x>> \in Seq({x})
        OBVIOUS
      <4>. QED  BY <4>1, SequenceIs
    <3>4. Append(h, x) = h \o <<x>>
      <4>1. PICK Y : Y = Elements(h) \cup {x}
        OBVIOUS
      <4>2. h \in Seq(Y) /\ x \in Y
        BY <3>2, <4>1, SeqGrows DEF IsSequence
      <4>. QED  BY <4>2
    <3>5. Translate(W, <<x>>) = <<W[x]>>
      BY DEF Translate
    <3>6. Translate(W, h \o <<x>>) = Translate(W, h) \o <<W[x]>>
      <4>1. PICK y : y = <<x>>
        OBVIOUS
      <4>2. IsSequence(y)
        BY <3>3, <4>1
      <4>3. Translate(W, h \o y) = Translate(W, h) \o Translate(W, y)
        BY <3>2, <4>2, TranslateJoined
      <4>. QED  BY <3>5, <4>1, <4>3
    <3>. QED  BY <1>3, <1>7, <2>1, <3>1, <3>4, <3>6
  <2>2. CASE s[k] \notin S
    BY <1>3, <1>7, <1>9, <2>0, <2>2
  <2>. QED  BY <2>1, <2>2
<1>11. CASE n = 0
  <2>1. l = <<>> /\ Len(l) = 0
    <3>1. l = [k \in 1..0 |-> l[k]]
      BY <1>1, <1>2, <1>11
    <3>2. l = <<>>
      BY <3>1
    <3>. QED  BY <3>2
  <2>2. FlattenSeq(l) = <<>>
    BY <2>1 DEF FlattenSeq
  <2>3. Translate(W, <<>>) = <<>>
    BY DEF Translate
  <2>. QED  BY <1>1, <1>5, <1>6, <1>11, <2>2, <2>3
<1>12. CASE n # 0
  <2>1. PICK f : f = CHOOSE h : Flats(l, h, n)
    OBVIOUS
  <2>2. Flats(l, f, n)
    BY <1>2, <2>1, FlatsExist
  <2>3. Len(l) = n
    <3>1. l \in [1..n -> {l[k] : k \in 1..n}]
      BY <1>1, <1>2
    <3>. QED  BY <1>2, <3>1, ListIs
  <2>4. FlattenSeq(l) = f[n]
    BY <1>12, <2>1, <2>3 DEF FlattenSeq, Flats, Flat
  <2> DEFINE Bad == {k \in Nat : k \in 1..n /\ f[k] # Translate(W, g[k])}
  <2>5. Bad = {}
    <3>. SUFFICES ASSUME Bad # {} PROVE FALSE
      OBVIOUS
    <3>1. PICK k \in Bad : \A i \in Bad : k <= i
      BY LeastExists
    <3>2. k \in 1..n /\ k \in Nat /\ f[k] = Flat(l, f, k) /\ f[k] # Translate(W, g[k])
      BY <2>2, <3>1 DEF Flats
    <3>3. CASE k = 1
      <4>1. f[k] = l[k] /\ Translate(W, g[k - 1]) = <<>>
        <5>1. Translate(W, <<>>) = <<>>
          BY DEF Translate
        <5>. QED  BY <1>6, <3>2, <3>3, <5>1 DEF Flat
      <4>2. l[k] = <<>> \/ \E y : l[k] = <<y>>
        BY <1>3, <3>2
      <4>3. <<>> \o l[k] = l[k]
        BY <4>2
      <4>. QED  BY <1>10, <3>2, <4>1, <4>3
    <3>4. CASE k # 1
      <4>1. k - 1 \in 1..n /\ k - 1 \in Nat /\ ~(k <= k - 1)
        BY <1>2, <3>2, <3>4
      <4>2. f[k - 1] = Translate(W, g[k - 1])
        <5>1. k - 1 \notin Bad
          <6> HIDE DEF Bad
          <6>. QED  BY <3>1, <4>1
        <5>. QED  BY <4>1, <5>1
      <4>3. f[k] = f[k - 1] \o l[k]
        BY <3>2, <3>4 DEF Flat
      <4>. QED  BY <1>10, <3>2, <4>2, <4>3
    <3>. QED  BY <3>3, <3>4
  <2>6. n \in 1..n /\ n \in Nat
    BY <1>2, <1>12
  <2>7. f[n] = Translate(W, g[n])
    BY <2>5, <2>6
  <2>. QED  BY <1>1, <1>5, <2>4, <2>7
<1>. QED  BY <1>11, <1>12
=============================================================================
