---------------------------- MODULE Places_proofs ----------------------------
(***************************************************************************)
(* What Count and Only do with sequences that are put together and taken   *)
(* apart, for sequences of any length.                                     *)
(***************************************************************************)
EXTENDS Places, Integers, SequenceTheorems, FiniteSetTheorems,
        WellFoundedInduction, TLAPS

-----------------------------------------------------------------------------
(***************************************************************************)
(* Induction, with a set in place of a predicate.                          *)
(***************************************************************************)
\* A set of numbers that is not empty has a smallest one.
LEMMA Smallest ==
  ASSUME NEW T, T \subseteq Nat, T # {}
  PROVE  \E m \in T : \A n \in T : m <= n
<1> DEFINE Less == {ss \in Nat \X Nat : ss[1] < ss[2]}
<1>1. IsWellFoundedOn(Less, Nat)
  BY NatLessThanWellFounded DEF OpToRel
<1>. HIDE DEF Less
<1>2. PICK m \in T : \A n \in T : ~ (<<n, m>> \in Less)
  BY <1>1, WFMin
<1>3. \A n \in T : ~ (n < m)
  BY <1>2 DEF Less
<1>. QED BY <1>3

LEMMA UpFromZero ==
  ASSUME NEW G, 0 \in G, \A n \in Nat : n \in G => n + 1 \in G
  PROVE  Nat \subseteq G
<1> SUFFICES ASSUME Nat \ G # {} PROVE FALSE
  OBVIOUS
<1>1. PICK m \in Nat \ G : \A n \in Nat \ G : m <= n
  BY Smallest
<1>2. m # 0 /\ m - 1 \in Nat /\ m - 1 \notin Nat \ G
  BY <1>1
<1>3. (m - 1) + 1 \in G
  BY <1>2
<1>. QED BY <1>1, <1>2, <1>3

\* A sequence is empty, or another one with something appended.
LEMMA BuiltByAppend ==
  ASSUME NEW T, NEW G, <<>> \in G,
         \A seq \in Seq(T), x \in T : seq \in G => Append(seq, x) \in G
  PROVE  Seq(T) \subseteq G
<1> DEFINE Lengths == {n \in Nat : \A seq \in Seq(T) : Len(seq) = n => seq \in G}
<1>1. 0 \in Lengths
  BY EmptySeq
<1>2. ASSUME NEW n \in Nat, n \in Lengths PROVE n + 1 \in Lengths
  <2> SUFFICES ASSUME NEW seq \in Seq(T), Len(seq) = n + 1 PROVE seq \in G
    OBVIOUS
  <2> DEFINE front == [i \in 1 .. n |-> seq[i]]
  <2>1. front \in Seq(T) /\ Len(front) = n /\ seq[n + 1] \in T
    BY LenProperties, ElementOfSeq, IsASeq
  <2>2. seq = Append(front, seq[n + 1])
    BY <2>1, AppendProperties, SeqEqual
  <2>. QED BY <1>2, <2>1, <2>2
<1>. HIDE DEF Lengths
<1>3. Nat \subseteq Lengths
  BY <1>1, <1>2, UpFromZero
<1>. QED BY <1>3, LenProperties DEF Lengths

-----------------------------------------------------------------------------
(***************************************************************************)
(* Only.                                                                   *)
(***************************************************************************)
\* What is left of the first n of seq, as f says of each n up to m.
Keeps(f, seq, S, m) ==
  f = [n \in 0 .. m |-> IF n = 0 THEN <<>>
                        ELSE IF seq[n] \in S THEN Append(f[n - 1], seq[n])
                        ELSE f[n - 1]]

LEMMA KeptExists ==
  ASSUME NEW seq, NEW S, NEW m \in Nat
  PROVE  \E f : Keeps(f, seq, S, m)
<1> DEFINE G == {n \in Nat : \E f : Keeps(f, seq, S, n)}
<1>1. 0 \in G
  <2>1. Keeps([n \in 0 .. 0 |-> <<>>], seq, S, 0)
    BY DEF Keeps
  <2>. QED BY <2>1
<1>2. ASSUME NEW n \in Nat, n \in G PROVE n + 1 \in G
  <2>1. PICK f : Keeps(f, seq, S, n)
    BY <1>2
  <2> DEFINE last == IF seq[n + 1] \in S THEN Append(f[n], seq[n + 1]) ELSE f[n]
             g == [i \in 0 .. n + 1 |-> IF i = n + 1 THEN last ELSE f[i]]
  <2>2. Keeps(g, seq, S, n + 1)
    <3>1. \A i \in 0 .. n : g[i] = f[i]
      OBVIOUS
    <3>2. g[n + 1] = last
      OBVIOUS
    <3>. HIDE DEF last
    <3>3. ASSUME NEW i \in 0 .. n + 1
          PROVE  g[i] = IF i = 0 THEN <<>>
                        ELSE IF seq[i] \in S THEN Append(g[i - 1], seq[i])
                        ELSE g[i - 1]
      <4>1. CASE i = n + 1
        <5>1. i # 0 /\ i - 1 = n /\ g[i - 1] = f[n]
          BY <4>1, <3>1
        <5>. QED BY <4>1, <5>1, <3>2 DEF last
      <4>2. CASE i # n + 1
        <5>1. i \in 0 .. n /\ g[i] = f[i]
          BY <4>2, <3>1
        <5>2. i # 0 => i - 1 \in 0 .. n /\ g[i - 1] = f[i - 1]
          BY <5>1, <3>1
        <5>. QED BY <5>1, <5>2, <2>1 DEF Keeps
      <4>. QED BY <4>1, <4>2
    <3>4. g = [i \in 0 .. n + 1 |-> g[i]]
      OBVIOUS
    <3>. HIDE DEF g
    <3>. QED BY <3>3, <3>4 DEF Keeps
  <2>. QED BY <2>2
<1>. HIDE DEF G
<1>3. Nat \subseteq G
  BY <1>1, <1>2, UpFromZero
<1>. QED BY <1>3 DEF G

LEMMA KeptStep ==
  ASSUME NEW f, NEW seq, NEW S, NEW m \in Nat, Keeps(f, seq, S, m)
  PROVE  /\ f[0] = <<>>
         /\ \A n \in 0 .. m : n # 0 =>
              f[n] = IF seq[n] \in S THEN Append(f[n - 1], seq[n]) ELSE f[n - 1]
<1> DEFINE Value(n) == IF n = 0 THEN <<>>
                       ELSE IF seq[n] \in S THEN Append(f[n - 1], seq[n])
                       ELSE f[n - 1]
<1>1. f = [n \in 0 .. m |-> Value(n)]
  BY DEF Keeps
<1>. HIDE DEF Value
<1>2. \A n \in 0 .. m : f[n] = Value(n)
  BY <1>1
<1>3. f[0] = Value(0)
  BY <1>2
<1>. QED BY <1>2, <1>3 DEF Value

\* Two such functions agree as far as both go.
LEMMA KeptUnique ==
  ASSUME NEW S, NEW seq, NEW more, NEW m \in Nat, NEW k \in Nat,
         \A i \in 1 .. m : seq[i] = more[i], m <= k,
         NEW f, Keeps(f, seq, S, m), NEW g, Keeps(g, more, S, k)
  PROVE  \A n \in 0 .. m : f[n] = g[n]
<1> DEFINE G == {n \in Nat : n <= m => f[n] = g[n]}
<1>1. 0 \in G
  BY KeptStep
<1>2. ASSUME NEW n \in Nat, n \in G PROVE n + 1 \in G
  <2> SUFFICES ASSUME n + 1 <= m PROVE f[n + 1] = g[n + 1]
    OBVIOUS
  <2>1. f[n] = g[n] /\ seq[n + 1] = more[n + 1]
    BY <1>2
  <2>2. n + 1 \in 0 .. m /\ n + 1 \in 0 .. k /\ n + 1 # 0 /\ (n + 1) - 1 = n
    OBVIOUS
  <2>3. f[n + 1] = IF seq[n + 1] \in S THEN Append(f[n], seq[n + 1]) ELSE f[n]
    BY <2>2, KeptStep
  <2>4. g[n + 1] = IF more[n + 1] \in S THEN Append(g[n], more[n + 1]) ELSE g[n]
    BY <2>2, KeptStep
  <2>. QED BY <2>1, <2>3, <2>4
<1>. HIDE DEF G
<1>3. Nat \subseteq G
  BY <1>1, <1>2, UpFromZero
<1>. QED BY <1>3 DEF G

LEMMA OnlyIsKept ==
  ASSUME NEW T, NEW seq \in Seq(T), NEW S
  PROVE  \E f : Keeps(f, seq, S, Len(seq)) /\ Only(seq, S) = f[Len(seq)]
<1> DEFINE kept == CHOOSE f : Keeps(f, seq, S, Len(seq))
<1>1. Keeps(kept, seq, S, Len(seq))
  BY KeptExists, LenProperties
<1>2. Only(seq, S) = kept[Len(seq)]
  BY DEF Only, Keeps
<1>. QED BY <1>1, <1>2

LEMMA OnlyEmpty ==
  ASSUME NEW S
  PROVE  Only(<<>>, S) = <<>>
<1>1. PICK f : Keeps(f, <<>>, S, 0) /\ Only(<<>>, S) = f[0]
  BY OnlyIsKept, EmptySeq
<1>. QED BY <1>1 DEF Keeps

LEMMA OnlyAppend ==
  ASSUME NEW T, NEW seq \in Seq(T), NEW x \in T, NEW S
  PROVE  /\ x \in S => Only(Append(seq, x), S) = Append(Only(seq, S), x)
         /\ x \notin S => Only(Append(seq, x), S) = Only(seq, S)
<1> DEFINE more == Append(seq, x)
           n == Len(seq)
<1>1. /\ more \in Seq(T) /\ Len(more) = n + 1 /\ more[n + 1] = x
      /\ \A i \in 1 .. n : seq[i] = more[i]
  BY AppendProperties, LenProperties
<1>2. n \in Nat
  BY LenProperties
<1>3. PICK f : Keeps(f, seq, S, n) /\ Only(seq, S) = f[n]
  BY OnlyIsKept
<1>. HIDE DEF more, n
<1>4. PICK g : Keeps(g, more, S, n + 1) /\ Only(more, S) = g[n + 1]
  BY <1>1, OnlyIsKept
<1>5. f[n] = g[n]
  BY <1>1, <1>2, <1>3, <1>4, KeptUnique
<1>6. g[n + 1] = IF more[n + 1] \in S THEN Append(g[n], more[n + 1]) ELSE g[n]
  <2>1. n + 1 \in 0 .. n + 1 /\ n + 1 # 0 /\ (n + 1) - 1 = n /\ n + 1 \in Nat
    BY <1>2
  <2>. QED BY <2>1, <1>4, KeptStep
<1>. QED BY <1>1, <1>3, <1>4, <1>5, <1>6 DEF more
LEMMA OnlyType ==
  ASSUME NEW T, NEW S, NEW seq \in Seq(T)
  PROVE  Only(seq, S) \in Seq(T \cap S)
<1> DEFINE G == {s \in Seq(T) : Only(s, S) \in Seq(T \cap S)}
<1>1. <<>> \in G
  BY OnlyEmpty, EmptySeq
<1>2. ASSUME NEW s \in Seq(T), NEW x \in T, s \in G PROVE Append(s, x) \in G
  <2>1. Append(s, x) \in Seq(T) /\ Only(s, S) \in Seq(T \cap S)
    BY <1>2
  <2>2. Only(Append(s, x), S) = IF x \in S THEN Append(Only(s, S), x) ELSE Only(s, S)
    BY OnlyAppend
  <2>3. Only(Append(s, x), S) \in Seq(T \cap S)
    <3>1. CASE x \in S
      BY <3>1, <2>1, <2>2
    <3>2. CASE x \notin S
      BY <3>2, <2>1, <2>2
    <3>. QED BY <3>1, <3>2
  <2>. QED BY <2>1, <2>3
<1>. HIDE DEF G
<1>3. Seq(T) \subseteq G
  BY <1>1, <1>2, BuiltByAppend
<1>. QED BY <1>3 DEF G

LEMMA OnlyOne ==
  ASSUME NEW x, NEW S
  PROVE  Only(<<x>>, S) = IF x \in S THEN <<x>> ELSE <<>>
<1>1. <<>> \in Seq({x}) /\ Append(<<>>, x) = <<x>>
  BY EmptySeq
<1>2. Only(Append(<<>>, x), S) = IF x \in S THEN Append(<<>>, x) ELSE <<>>
  <2>1. Only(Append(<<>>, x), S) = IF x \in S THEN Append(Only(<<>>, S), x) ELSE Only(<<>>, S)
    BY <1>1, OnlyAppend
  <2>. QED BY <2>1, OnlyEmpty
<1>. QED BY <1>1, <1>2

\* Joining and then appending is appending and then joining.
LEMMA ConcatAppend ==
  ASSUME NEW T, NEW seq \in Seq(T), NEW s \in Seq(T), NEW x \in T
  PROVE  /\ seq \o s \in Seq(T) /\ Append(s, x) \in Seq(T)
         /\ seq \o Append(s, x) = Append(seq \o s, x)
<1>1. seq \o s \in Seq(T) /\ Append(s, x) \in Seq(T)
  OBVIOUS
<1>2. seq \o Append(s, x) = Append(seq \o s, x)
  OBVIOUS
<1>. QED BY <1>1, <1>2

LEMMA OnlyConcat ==
  ASSUME NEW T, NEW S, NEW seq \in Seq(T), NEW more \in Seq(T)
  PROVE  Only(seq \o more, S) = Only(seq, S) \o Only(more, S)
<1> DEFINE G == {s \in Seq(T) : Only(seq \o s, S) = Only(seq, S) \o Only(s, S)}
<1>1. <<>> \in G
  <2>1. Only(seq, S) \in Seq(T \cap S)
    BY OnlyType
  <2>2. seq \o <<>> = seq /\ Only(seq, S) \o <<>> = Only(seq, S) /\ <<>> \in Seq(T)
    BY <2>1, EmptySeq, ConcatEmptySeq
  <2>. QED BY <2>2, OnlyEmpty
<1>2. ASSUME NEW s \in Seq(T), NEW x \in T, s \in G PROVE Append(s, x) \in G
  <2>1. seq \o s \in Seq(T) /\ Append(s, x) \in Seq(T)
        /\ seq \o Append(s, x) = Append(seq \o s, x)
    BY ConcatAppend
  <2>2. Only(seq, S) \in Seq(T \cap S) /\ Only(s, S) \in Seq(T \cap S)
    BY OnlyType
  <2>3. Only(seq \o s, S) = Only(seq, S) \o Only(s, S)
    BY <1>2
  <2>. HIDE DEF G
  <2>4. Only(Append(seq \o s, x), S) = Only(seq, S) \o Only(Append(s, x), S)
    <3>1. CASE x \in S
      <4>1. Only(Append(seq \o s, x), S) = Append(Only(seq \o s, S), x)
        BY <2>1, <3>1, OnlyAppend
      <4>2. Only(Append(s, x), S) = Append(Only(s, S), x)
        BY <3>1, OnlyAppend
      <4>3. Only(seq, S) \o Append(Only(s, S), x) = Append(Only(seq, S) \o Only(s, S), x)
        BY <2>2, <3>1
      <4>. QED BY <4>1, <4>2, <4>3, <2>3
    <3>2. CASE x \notin S
      BY <2>1, <2>3, <3>2, OnlyAppend
    <3>. QED BY <3>1, <3>2
  <2>. QED BY <2>1, <2>4 DEF G
<1>. HIDE DEF G
<1>3. Seq(T) \subseteq G
  BY <1>1, <1>2, BuiltByAppend
<1>. QED BY <1>3 DEF G

\* Taking out in two rounds.
LEMMA OnlyOnly ==
  ASSUME NEW T, NEW A, NEW B, NEW seq \in Seq(T)
  PROVE  Only(Only(seq, A), B) = Only(seq, A \cap B)
<1> DEFINE G == {s \in Seq(T) : Only(Only(s, A), B) = Only(s, A \cap B)}
<1>1. <<>> \in G
  BY OnlyEmpty, EmptySeq
<1>2. ASSUME NEW s \in Seq(T), NEW x \in T, s \in G PROVE Append(s, x) \in G
  <2>1. Only(s, A) \in Seq(T \cap A)
    BY OnlyType
  <2>2. Only(Only(s, A), B) = Only(s, A \cap B) /\ Append(s, x) \in Seq(T)
    BY <1>2
  <2>. SUFFICES Only(Only(Append(s, x), A), B) = Only(Append(s, x), A \cap B)
    BY <2>2
  <2>0. PICK t \in Seq(T \cap A) : t = Only(s, A)
    BY <2>1
  <2>. HIDE DEF G
  <2>3. CASE x \in A /\ x \in B
    <3>1. /\ Only(Append(s, x), A) = Append(Only(s, A), x)
          /\ Only(Append(s, x), A \cap B) = Append(Only(s, A \cap B), x)
      BY <2>3, OnlyAppend
    <3>2. x \in T \cap A
      BY <2>3
    <3>3. Only(Append(t, x), B) = Append(Only(t, B), x)
      BY <2>3, <3>2, OnlyAppend
    <3>. QED BY <2>0, <2>2, <3>1, <3>3
  <2>4. CASE x \in A /\ x \notin B
    <3>1. /\ Only(Append(s, x), A) = Append(Only(s, A), x)
          /\ Only(Append(s, x), A \cap B) = Only(s, A \cap B)
      BY <2>4, OnlyAppend
    <3>2. x \in T \cap A
      BY <2>4
    <3>3. Only(Append(t, x), B) = Only(t, B)
      BY <2>4, <3>2, OnlyAppend
    <3>. QED BY <2>0, <2>2, <3>1, <3>3
  <2>5. CASE x \notin A
    <3>1. Only(Append(s, x), A) = Only(s, A) /\ Only(Append(s, x), A \cap B) = Only(s, A \cap B)
      BY <2>5, OnlyAppend
    <3>. QED BY <3>1, <2>2
  <2>. QED BY <2>3, <2>4, <2>5
<1>. HIDE DEF G
<1>3. Seq(T) \subseteq G
  BY <1>1, <1>2, BuiltByAppend
<1>. QED BY <1>3 DEF G

\* Only the members of seq matter.
LEMMA OnlySame ==
  ASSUME NEW T, NEW A, NEW B, NEW seq \in Seq(T), T \cap A = T \cap B
  PROVE  Only(seq, A) = Only(seq, B)
<1> DEFINE G == {s \in Seq(T) : Only(s, A) = Only(s, B)}
<1>1. <<>> \in G
  BY OnlyEmpty, EmptySeq
<1>2. ASSUME NEW s \in Seq(T), NEW x \in T, s \in G PROVE Append(s, x) \in G
  <2>1. Only(Append(s, x), A) = IF x \in A THEN Append(Only(s, A), x) ELSE Only(s, A)
    BY OnlyAppend
  <2>2. Only(Append(s, x), B) = IF x \in B THEN Append(Only(s, B), x) ELSE Only(s, B)
    BY OnlyAppend
  <2>3. Only(s, A) = Only(s, B) /\ (x \in A <=> x \in B) /\ Append(s, x) \in Seq(T)
    BY <1>2
  <2>. QED BY <2>1, <2>2, <2>3
<1>. HIDE DEF G
<1>3. Seq(T) \subseteq G
  BY <1>1, <1>2, BuiltByAppend
<1>. QED BY <1>3 DEF G

LEMMA OnlyNone ==
  ASSUME NEW T, NEW A, NEW seq \in Seq(T), T \cap A = {}
  PROVE  Only(seq, A) = <<>>
<1>1. Only(seq, A) \in Seq({})
  BY OnlyType
<1>. QED BY <1>1, EmptySeq, LenProperties, ElementOfSeq

-----------------------------------------------------------------------------
(***************************************************************************)
(* Count.                                                                  *)
(***************************************************************************)
Is(x, d) == IF x = d THEN 1 ELSE 0

LEMMA IsType == \A x, d : Is(x, d) \in {0, 1} /\ (Is(x, d) = 1 <=> x = d)
  BY DEF Is

LEMMA PlacesFinite ==
  ASSUME NEW T, NEW seq \in Seq(T), NEW d
  PROVE  IsFiniteSet({i \in 1 .. Len(seq) : seq[i] = d})
<1>1. Len(seq) \in Nat
  BY LenProperties
<1>2. IsFiniteSet(1 .. Len(seq))
  BY <1>1, FS_Interval
<1>. QED BY <1>2, FS_Subset

LEMMA CountNat ==
  ASSUME NEW T, NEW seq \in Seq(T), NEW d
  PROVE  Count(seq, d) \in Nat
  BY PlacesFinite, FS_CardinalityType DEF Count

LEMMA CountEmpty ==
  ASSUME NEW d
  PROVE  Count(<<>>, d) = 0
<1>1. {i \in 1 .. Len(<<>>) : <<>>[i] = d} = {}
  OBVIOUS
<1>. QED BY <1>1, FS_EmptySet DEF Count

LEMMA CountAppend ==
  ASSUME NEW T, NEW seq \in Seq(T), NEW x \in T, NEW d
  PROVE  Count(Append(seq, x), d) = Count(seq, d) + Is(x, d)
<1> DEFINE n == Len(seq)
           more == Append(seq, x)
           before == {i \in 1 .. n : seq[i] = d}
           after == {i \in 1 .. Len(more) : more[i] = d}
<1>1. /\ n \in Nat /\ Len(more) = n + 1 /\ more[n + 1] = x
      /\ \A i \in 1 .. n : more[i] = seq[i]
  BY AppendProperties, LenProperties
<1>2. after = IF x = d THEN before \cup {n + 1} ELSE before
  BY <1>1
<1>3. n + 1 \notin before
  BY <1>1
<1>4. IsFiniteSet(before) /\ Cardinality(before) \in Nat
  BY PlacesFinite, FS_CardinalityType
<1>5. Cardinality(before \cup {n + 1}) = Cardinality(before) + 1
  BY <1>3, <1>4, FS_AddElement
<1>6. Count(seq, d) = Cardinality(before) /\ Count(more, d) = Cardinality(after)
  BY DEF Count
<1>. HIDE DEF before, after
<1>. QED BY <1>2, <1>4, <1>5, <1>6 DEF Is

LEMMA CountOne ==
  ASSUME NEW x, NEW d
  PROVE  Count(<<x>>, d) = Is(x, d)
<1>1. Len(<<x>>) = 1 /\ <<x>>[1] = x
  OBVIOUS
<1>2. {i \in 1 .. Len(<<x>>) : <<x>>[i] = d} = IF x = d THEN {1} ELSE {}
  BY <1>1
<1>3. Cardinality({1}) = 1 /\ Cardinality({}) = 0
  BY FS_Singleton, FS_EmptySet
<1>. QED BY <1>2, <1>3 DEF Count, Is

LEMMA CountConcat ==
  ASSUME NEW T, NEW seq \in Seq(T), NEW more \in Seq(T), NEW d
  PROVE  Count(seq \o more, d) = Count(seq, d) + Count(more, d)
<1> DEFINE G == {s \in Seq(T) : Count(seq \o s, d) = Count(seq, d) + Count(s, d)}
<1>1. <<>> \in G
  <2>1. seq \o <<>> = seq /\ <<>> \in Seq(T) /\ Count(seq, d) \in Nat
    BY EmptySeq, ConcatEmptySeq, CountNat
  <2>. QED BY <2>1, CountEmpty
<1>2. ASSUME NEW s \in Seq(T), NEW x \in T, s \in G PROVE Append(s, x) \in G
  <2>1. seq \o s \in Seq(T) /\ Append(s, x) \in Seq(T)
        /\ seq \o Append(s, x) = Append(seq \o s, x)
    BY ConcatAppend
  <2>2. Count(seq \o Append(s, x), d) = Count(seq \o s, d) + Is(x, d)
    <3>1. PICK t \in Seq(T) : t = seq \o s
      BY <2>1
    <3>2. Count(Append(t, x), d) = Count(t, d) + Is(x, d)
      BY CountAppend
    <3>. QED BY <2>1, <3>1, <3>2
  <2>3. Count(Append(s, x), d) = Count(s, d) + Is(x, d)
    BY CountAppend
  <2>4. Count(seq, d) \in Nat /\ Count(s, d) \in Nat /\ Is(x, d) \in Nat
    BY CountNat, IsType
  <2>5. Count(seq \o s, d) = Count(seq, d) + Count(s, d)
    BY <1>2
  <2>6. Count(seq \o Append(s, x), d) = Count(seq, d) + Count(Append(s, x), d)
    BY <2>2, <2>3, <2>4, <2>5
  <2>. QED BY <2>1, <2>6
<1>. HIDE DEF G
<1>3. Seq(T) \subseteq G
  BY <1>1, <1>2, BuiltByAppend
<1>. QED BY <1>3 DEF G

LEMMA CountOnly ==
  ASSUME NEW T, NEW seq \in Seq(T), NEW S, NEW d \in S
  PROVE  Count(Only(seq, S), d) = Count(seq, d)
<1> DEFINE G == {s \in Seq(T) : Count(Only(s, S), d) = Count(s, d)}
<1>1. <<>> \in G
  BY OnlyEmpty, CountEmpty, EmptySeq
<1>2. ASSUME NEW s \in Seq(T), NEW x \in T, s \in G PROVE Append(s, x) \in G
  <2>1. Only(s, S) \in Seq(T \cap S) /\ Count(s, d) \in Nat /\ Append(s, x) \in Seq(T)
    BY OnlyType, CountNat
  <2>2. Count(Only(s, S), d) = Count(s, d)
    BY <1>2
  <2>. SUFFICES Count(Only(Append(s, x), S), d) = Count(Append(s, x), d)
    BY <2>1
  <2>. HIDE DEF G
  <2>3. Count(Append(s, x), d) = Count(s, d) + Is(x, d)
    BY CountAppend
  <2>4. CASE x \in S
    <3>1. Only(Append(s, x), S) = Append(Only(s, S), x)
      BY <2>4, OnlyAppend
    <3>2. x \in T \cap S
      BY <2>4
    <3>3. Count(Append(Only(s, S), x), d) = Count(Only(s, S), d) + Is(x, d)
      BY <2>1, <3>2, CountAppend
    <3>. QED BY <2>1, <2>2, <2>3, <3>1, <3>3
  <2>5. CASE x \notin S
    <3>1. Only(Append(s, x), S) = Only(s, S) /\ Is(x, d) = 0
      BY <2>5, OnlyAppend DEF Is
    <3>. QED BY <2>1, <2>2, <2>3, <3>1
  <2>. QED BY <2>4, <2>5
<1>. HIDE DEF G
<1>3. Seq(T) \subseteq G
  BY <1>1, <1>2, BuiltByAppend
<1>. QED BY <1>3 DEF G

\* The next one out, and the rest.
LEMMA CountHead ==
  ASSUME NEW T, NEW seq \in Seq(T), seq # <<>>, NEW d
  PROVE  /\ Head(seq) \in T /\ Tail(seq) \in Seq(T)
         /\ Count(seq, d) = Is(Head(seq), d) + Count(Tail(seq), d)
<1>1. Head(seq) \in T /\ Tail(seq) \in Seq(T) /\ seq = <<Head(seq)>> \o Tail(seq)
  BY HeadTailProperties, SeqEqual
<1>2. <<Head(seq)>> \in Seq(T)
  BY <1>1
<1>3. Count(<<Head(seq)>> \o Tail(seq), d) = Count(<<Head(seq)>>, d) + Count(Tail(seq), d)
  BY <1>1, <1>2, CountConcat
<1>. QED BY <1>1, <1>3, CountOne

\* The first n, and the rest.
LEMMA Split ==
  ASSUME NEW T, NEW seq \in Seq(T), NEW n \in 0 .. Len(seq)
  PROVE  /\ SubSeq(seq, 1, n) \in Seq(T) /\ Len(SubSeq(seq, 1, n)) = n
         /\ SubSeq(seq, n + 1, Len(seq)) \in Seq(T)
         /\ Len(SubSeq(seq, n + 1, Len(seq))) = Len(seq) - n
         /\ seq = SubSeq(seq, 1, n) \o SubSeq(seq, n + 1, Len(seq))
<1> DEFINE front == SubSeq(seq, 1, n)
           back == SubSeq(seq, n + 1, Len(seq))
<1>1. Len(seq) \in Nat /\ n \in Nat /\ n <= Len(seq)
  BY LenProperties
<1>2. front \in Seq(T) /\ Len(front) = n /\ \A i \in 1 .. n : front[i] = seq[i]
  BY <1>1, SubSeqProperties
<1>3. /\ back \in Seq(T) /\ Len(back) = Len(seq) - n
      /\ \A i \in 1 .. Len(seq) - n : back[i] = seq[n + i]
  BY <1>1, SubSeqProperties
<1>. HIDE DEF front, back
<1>4. /\ front \o back \in Seq(T) /\ Len(front \o back) = Len(seq)
      /\ \A i \in 1 .. Len(seq) : (front \o back)[i] = seq[i]
  <2>1. /\ front \o back \in Seq(T) /\ Len(front \o back) = n + (Len(seq) - n)
        /\ \A i \in 1 .. n + (Len(seq) - n) :
             (front \o back)[i] = IF i <= n THEN front[i] ELSE back[i - n]
    BY <1>1, <1>2, <1>3, ConcatProperties
  <2>2. n + (Len(seq) - n) = Len(seq)
    BY <1>1
  <2>3. ASSUME NEW i \in 1 .. Len(seq) PROVE (front \o back)[i] = seq[i]
    <3>1. CASE i <= n
      BY <3>1, <1>1, <1>2, <2>1, <2>2
    <3>2. CASE ~ (i <= n)
      <4>1. i - n \in 1 .. Len(seq) - n /\ n + (i - n) = i
        BY <3>2, <1>1
      <4>. QED BY <3>2, <4>1, <1>3, <2>1, <2>2
    <3>. QED BY <3>1, <3>2
  <2>. QED BY <2>1, <2>2, <2>3
<1>5. seq = front \o back
  BY <1>4, SeqEqual
<1>. QED BY <1>2, <1>3, <1>5 DEF front, back

LEMMA CountSplit ==
  ASSUME NEW T, NEW seq \in Seq(T), NEW n \in 0 .. Len(seq), NEW d
  PROVE  Count(seq, d) = Count(SubSeq(seq, 1, n), d) + Count(SubSeq(seq, n + 1, Len(seq)), d)
<1> DEFINE front == SubSeq(seq, 1, n)
           back == SubSeq(seq, n + 1, Len(seq))
<1>1. front \in Seq(T) /\ back \in Seq(T) /\ seq = front \o back
  BY Split
<1>. HIDE DEF front, back
<1>2. Count(front \o back, d) = Count(front, d) + Count(back, d)
  BY <1>1, CountConcat
<1>. QED BY <1>1, <1>2 DEF front, back

\* What is in a sequence is counted.
LEMMA CountPositive ==
  ASSUME NEW T, NEW seq \in Seq(T), NEW d
  PROVE  Count(seq, d) > 0 <=> \E i \in 1 .. Len(seq) : seq[i] = d
<1> DEFINE places == {i \in 1 .. Len(seq) : seq[i] = d}
<1>1. IsFiniteSet(places) /\ Count(seq, d) = Cardinality(places) /\ Count(seq, d) \in Nat
  BY PlacesFinite, CountNat DEF Count
<1>2. Cardinality(places) = 0 <=> places = {}
  BY <1>1, FS_EmptySet
<1>. QED BY <1>1, <1>2

-----------------------------------------------------------------------------
(***************************************************************************)
(* Concatenation under a name of its own, which the provers leave alone.   *)
(***************************************************************************)
Joined(a, b) == a \o b

LEMMA JoinedAssociative ==
  ASSUME NEW T, NEW a \in Seq(T), NEW b \in Seq(T), NEW c \in Seq(T)
  PROVE  Joined(Joined(a, b), c) = Joined(a, Joined(b, c))
BY ConcatAssociative DEF Joined

LEMMA Regroup ==
  ASSUME NEW T, NEW a \in Seq(T), NEW b \in Seq(T), NEW c \in Seq(T),
         NEW b1 \in Seq(T), NEW c1 \in Seq(T), Joined(b1, c1) = Joined(b, c)
  PROVE  Joined(Joined(a, b1), c1) = Joined(Joined(a, b), c)
<1>1. Joined(Joined(a, b1), c1) = Joined(a, Joined(b1, c1))
  BY JoinedAssociative
<1>2. Joined(Joined(a, b), c) = Joined(a, Joined(b, c))
  BY JoinedAssociative
<1>. QED BY <1>1, <1>2
=============================================================================
