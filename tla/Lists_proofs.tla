----------------------------- MODULE Lists_proofs -----------------------------
(***************************************************************************)
(* What the lists of Lists hold: the members of the set, each once and in  *)
(* the order given; the chosen elements, in the order they had.            *)
(***************************************************************************)
EXTENDS Lists, SequenceTheorems, FiniteSetTheorems, TLAPS

(* What comes before each member is a strict total order.                   *)
TotalOrder(S, before) ==
    /\ before \in [S -> SUBSET S]
    /\ \A x \in S : x \notin before[x]
    /\ \A x, y \in S : x # y => x \in before[y] \/ y \in before[x]
    /\ \A x, y \in S : x \in before[y] => before[x] \subseteq before[y]

LEMMA UpTo == ASSUME NEW n \in Nat PROVE IsFiniteSet(1 .. n) /\ Cardinality(1 .. n) = n
<1>1. /\ IsFiniteSet(1 .. n)
      /\ Cardinality(1 .. n) = IF 1 > n THEN 0 ELSE n - 1 + 1
  BY FS_Interval
<1> QED BY <1>1

LEMMA RankGrows ==
    ASSUME NEW S, IsFiniteSet(S), NEW before, TotalOrder(S, before),
           NEW x \in S, NEW y \in S, x \in before[y]
    PROVE  Cardinality(before[x]) < Cardinality(before[y])
<1>1. before[x] \subseteq before[y] /\ before[x] # before[y] /\ before[y] \subseteq S
  BY DEF TotalOrder
<1>2. IsFiniteSet(before[y]) /\ IsFiniteSet(before[x]) BY <1>1, FS_Subset
<1>3. /\ Cardinality(before[x]) <= Cardinality(before[y])
      /\ Cardinality(before[x]) # Cardinality(before[y])
  BY <1>1, <1>2, FS_Subset
<1>4. Cardinality(before[x]) \in Nat /\ Cardinality(before[y]) \in Nat
  BY <1>2, FS_CardinalityType
<1> QED BY <1>3, <1>4

(* Each rank below the size of the set is that of one member.               *)
LEMMA RankIsTaken ==
    ASSUME NEW S, IsFiniteSet(S), NEW before, TotalOrder(S, before),
           NEW n \in 1 .. Cardinality(S)
    PROVE  \E x \in S : Cardinality(before[x]) = n - 1
<1> DEFINE size == Cardinality(S)
           rank == [x \in S |-> Cardinality(before[x]) + 1]
<1>1. size \in Nat BY FS_CardinalityType
<1>2. ASSUME NEW x \in S PROVE Cardinality(before[x]) \in Nat /\ rank[x] \in 1 .. size
  <2>1. before[x] \subseteq S /\ before[x] # S BY DEF TotalOrder
  <2>2. IsFiniteSet(before[x]) BY <2>1, FS_Subset
  <2>3. Cardinality(before[x]) <= size /\ Cardinality(before[x]) # size BY <2>1, FS_Subset
  <2>4. Cardinality(before[x]) \in Nat BY <2>2, FS_CardinalityType
  <2> QED BY <1>1, <2>3, <2>4
<1>3. ASSUME NEW x \in S, NEW y \in S, rank[x] = rank[y] PROVE x = y
  <2>1. Cardinality(before[x]) = Cardinality(before[y]) BY <1>2, <1>3
  <2>2. CASE x \in before[y] BY <1>2, <2>1, <2>2, RankGrows
  <2>3. CASE y \in before[x] BY <1>2, <2>1, <2>3, RankGrows
  <2> QED BY <2>2, <2>3 DEF TotalOrder
<1>4. rank \in [S -> 1 .. size] BY <1>2
<1> HIDE DEF rank
<1>5. rank \in Injection(S, 1 .. size) BY <1>3, <1>4 DEF Injection, IsInjective
<1>6. IsFiniteSet(1 .. size) /\ Cardinality(1 .. size) = size BY <1>1, UpTo
<1>7. rank \in Surjection(S, 1 .. size) BY <1>5, <1>6, FS_Injection
<1>8. PICK x \in S : rank[x] = n BY <1>7 DEF Surjection
<1>9. Cardinality(before[x]) + 1 = n BY <1>8 DEF rank
<1> QED BY <1>2, <1>9

LEMMA ListedIs ==
    ASSUME NEW S, IsFiniteSet(S), NEW before, TotalOrder(S, before)
    PROVE  /\ Listed(S, before) \in Seq(S)
           /\ Len(Listed(S, before)) = Cardinality(S)
           /\ DOMAIN Listed(S, before) = 1 .. Cardinality(S)
           /\ \A x \in S : \E i \in DOMAIN Listed(S, before) : Listed(S, before)[i] = x
           /\ \A i, k \in DOMAIN Listed(S, before) :
                 i < k => Listed(S, before)[i] \in before[Listed(S, before)[k]]
<1> DEFINE list == Listed(S, before)
           size == Cardinality(S)
<1>1. size \in Nat BY FS_CardinalityType
<1>2. DOMAIN list = 1 .. size BY DEF Listed
<1>3. \A n \in 1 .. size : list[n] \in S /\ Cardinality(before[list[n]]) = n - 1
  <2>1. TAKE n \in 1 .. size
  <2>2. \E x \in S : Cardinality(before[x]) = n - 1 BY RankIsTaken
  <2>3. list[n] = CHOOSE x \in S : Cardinality(before[x]) = n - 1 BY DEF Listed
  <2> HIDE DEF list
  <2> QED BY <2>2, <2>3
<1>4. list \in [1 .. size -> S]
  <2>1. list = [n \in 1 .. size |-> list[n]] BY DEF Listed
  <2> HIDE DEF list
  <2> QED BY <1>3, <2>1
<1> HIDE DEF list
<1>5. list \in Seq(S) BY <1>1, <1>4, SeqDef
<1>6. Len(list) = size BY <1>1, <1>2, <1>5, LenProperties
<1>7. ASSUME NEW x \in S PROVE \E i \in DOMAIN list : list[i] = x
  <2>1. before[x] \subseteq S /\ before[x] # S BY DEF TotalOrder
  <2>2. IsFiniteSet(before[x]) BY <2>1, FS_Subset
  <2>3. Cardinality(before[x]) <= size /\ Cardinality(before[x]) # size BY <2>1, FS_Subset
  <2>4. Cardinality(before[x]) \in Nat BY <2>2, FS_CardinalityType
  <2> DEFINE i == Cardinality(before[x]) + 1
  <2>5. i \in 1 .. size /\ i - 1 = Cardinality(before[x]) BY <1>1, <2>3, <2>4
  <2>6. list[i] \in S /\ Cardinality(before[list[i]]) = Cardinality(before[x]) BY <1>3, <2>5
  <2>7. ~(list[i] \in before[x]) /\ ~(x \in before[list[i]])
    <3>1. CASE list[i] \in before[x] BY <2>4, <2>6, <3>1, RankGrows
    <3>2. CASE x \in before[list[i]] BY <2>4, <2>6, <3>2, RankGrows
    <3> QED BY <3>1, <3>2
  <2>8. list[i] = x BY <2>6, <2>7 DEF TotalOrder
  <2> QED BY <1>2, <2>5, <2>8
<1>8. ASSUME NEW i \in DOMAIN list, NEW k \in DOMAIN list, i < k
      PROVE  list[i] \in before[list[k]]
  <2>1. i \in 1 .. size /\ k \in 1 .. size BY <1>2
  <2>2. /\ list[i] \in S /\ list[k] \in S
        /\ Cardinality(before[list[i]]) = i - 1 /\ Cardinality(before[list[k]]) = k - 1
    BY <1>3, <2>1
  <2>3. list[i] # list[k] BY <1>1, <1>8, <2>1, <2>2
  <2>4. ~(list[k] \in before[list[i]])
    <3>1. CASE list[k] \in before[list[i]]
      <4>1. k - 1 < i - 1 BY <2>2, <3>1, RankGrows
      <4> QED BY <1>1, <1>8, <2>1, <4>1
    <3> QED BY <3>1
  <2> QED BY <2>2, <2>3, <2>4 DEF TotalOrder
<1> QED BY <1>2, <1>5, <1>6, <1>7, <1>8 DEF list

-----------------------------------------------------------------------------
LEMMA IndexesAre ==
    ASSUME NEW T, NEW s \in Seq(T), NEW some
    PROVE  /\ Indexes(s, some) \subseteq 1 .. Len(s) /\ IsFiniteSet(Indexes(s, some))
           /\ Cardinality(Indexes(s, some)) \in Nat /\ Cardinality(Indexes(s, some)) <= Len(s)
<1>1. Len(s) \in Nat /\ Indexes(s, some) \subseteq 1 .. Len(s) BY LenProperties DEF Indexes
<1>2. IsFiniteSet(1 .. Len(s)) /\ Cardinality(1 .. Len(s)) = Len(s) BY <1>1, UpTo
<1>3. IsFiniteSet(Indexes(s, some)) /\ Cardinality(Indexes(s, some)) <= Len(s)
  BY <1>1, <1>2, FS_Subset
<1> QED BY <1>1, <1>3, FS_CardinalityType

(* The chosen elements stand where growing positions point, and none of     *)
(* them is left out.                                                        *)
Points(s, some, at) ==
    /\ \A k \in DOMAIN Only(s, some) : Only(s, some)[k] = s[at[k]]
    /\ \A k, m \in DOMAIN Only(s, some) : k < m => at[k] < at[m]
    /\ \A i \in Indexes(s, some) : \E k \in DOMAIN Only(s, some) : at[k] = i

LEMMA OnlyIs ==
    ASSUME NEW T, NEW s \in Seq(T), NEW some
    PROVE  /\ Only(s, some) \in Seq(T \cap some)
           /\ Len(Only(s, some)) = Cardinality(Indexes(s, some))
           /\ \E at \in [DOMAIN Only(s, some) -> Indexes(s, some)] : Points(s, some, at)
<1> DEFINE P == Indexes(s, some)
           before == [i \in P |-> {j \in P : j < i}]
           at == Listed(P, before)
           only == Only(s, some)
<1>1. P \subseteq 1 .. Len(s) /\ IsFiniteSet(P) /\ Cardinality(P) \in Nat
  BY IndexesAre
<1>2. Len(s) \in Nat /\ \A i \in P : i \in Int
  <2>1. Len(s) \in Nat BY LenProperties
  <2> QED BY <1>1, <2>1
<1>3. TotalOrder(P, before)
  <2> HIDE DEF P
  <2>1. before \in [P -> SUBSET P] OBVIOUS
  <2>2. \A x \in P, y \in P : x \in before[y] <=> x < y OBVIOUS
  <2>3. \A x \in P : before[x] \subseteq P BY <2>1
  <2> HIDE DEF before
  <2>4. \A x \in P : x \notin before[x] BY <1>2, <2>2
  <2>5. \A x, y \in P : x # y => x \in before[y] \/ y \in before[x] BY <1>2, <2>2
  <2>6. ASSUME NEW x \in P, NEW y \in P, x \in before[y], NEW z \in before[x]
        PROVE  z \in before[y]
    <3>1. z \in P /\ z < x /\ x < y BY <2>2, <2>3, <2>6
    <3> QED BY <1>2, <2>2, <3>1
  <2> QED BY <2>1, <2>4, <2>5, <2>6 DEF TotalOrder
<1>4. /\ at \in Seq(P) /\ Len(at) = Cardinality(P) /\ DOMAIN at = 1 .. Cardinality(P)
      /\ \A x \in P : \E i \in DOMAIN at : at[i] = x
      /\ \A i, k \in DOMAIN at : i < k => at[i] \in before[at[k]]
  <2> HIDE DEF P, before
  <2> QED BY <1>1, <1>3, ListedIs
<1>5. only = [n \in DOMAIN at |-> s[at[n]]] BY DEF Only
<1>6. \A n \in DOMAIN at : at[n] \in P BY <1>4, ElementOfSeq
<1>7. \A k, m \in DOMAIN at : k < m => at[k] < at[m]
  <2>1. \A y \in P : \A x \in before[y] : x < y OBVIOUS
  <2> HIDE DEF P, before, at
  <2> QED BY <1>4, <1>6, <2>1
<1> HIDE DEF at, only, before
<1>8. \A n \in DOMAIN at : s[at[n]] \in T \cap some
  <2>1. \A i \in P : s[i] \in some BY DEF Indexes
  <2>2. \A i \in P : s[i] \in T BY <1>1, ElementOfSeq
  <2> QED BY <1>6, <2>1, <2>2
<1> HIDE DEF P
<1>9. only \in [1 .. Cardinality(P) -> T \cap some] BY <1>4, <1>5, <1>8
<1>10. only \in Seq(T \cap some) BY <1>1, <1>9, SeqDef
<1>11. DOMAIN only = DOMAIN at /\ at \in [DOMAIN only -> P]
  <2>1. DOMAIN only = DOMAIN at BY <1>5
  <2>2. at \in [1 .. Cardinality(P) -> P] BY <1>4, LenProperties
  <2> QED BY <1>4, <2>1, <2>2
<1>12. Len(only) = Cardinality(P)
  <2>1. Len(only) \in Nat /\ DOMAIN only = 1 .. Len(only) BY <1>10, LenProperties
  <2>2. 1 .. Len(only) = 1 .. Cardinality(P) BY <1>4, <1>11, <2>1
  <2>3. IsFiniteSet(1 .. Len(only)) /\ Cardinality(1 .. Len(only)) = Len(only)
        /\ Cardinality(1 .. Cardinality(P)) = Cardinality(P)
    BY <1>1, <2>1, UpTo
  <2> QED BY <2>2, <2>3
<1>13. \A k \in DOMAIN only : only[k] = s[at[k]] BY <1>5
<1>14. \A i \in P : \E k \in DOMAIN only : at[k] = i BY <1>4, <1>11
<1>15. \A k, m \in DOMAIN only : k < m => at[k] < at[m] BY <1>7, <1>11
<1>16. Points(s, some, at) BY <1>13, <1>14, <1>15 DEF only, P, Points
<1> QED BY <1>10, <1>11, <1>12, <1>16 DEF only, P

(* What is most used of it.                                                 *)
LEMMA OnlyHolds ==
    ASSUME NEW T, NEW s \in Seq(T), NEW some
    PROVE  /\ Only(s, some) \in Seq(T) /\ Len(Only(s, some)) <= Len(s)
           /\ \A k \in DOMAIN Only(s, some) :
                 Only(s, some)[k] \in some /\ \E i \in DOMAIN s : s[i] = Only(s, some)[k]
           /\ \A i \in DOMAIN s : s[i] \in some =>
                 \E k \in DOMAIN Only(s, some) : Only(s, some)[k] = s[i]
<1>1. /\ Only(s, some) \in Seq(T \cap some)
      /\ Len(Only(s, some)) = Cardinality(Indexes(s, some))
  BY OnlyIs
<1>2. PICK at \in [DOMAIN Only(s, some) -> Indexes(s, some)] : Points(s, some, at)
  BY OnlyIs
<1> DEFINE only == Only(s, some)
<1>3. only \in Seq(T) BY <1>1, SeqMonotonic
<1>4. Len(only) <= Len(s) BY <1>1, IndexesAre
<1>5. \A k \in DOMAIN only : only[k] \in some BY <1>1, LenProperties, ElementOfSeq
<1>6. \A k \in DOMAIN only : \E i \in DOMAIN s : s[i] = only[k] BY <1>2 DEF Indexes, Points
<1>7. \A i \in DOMAIN s : s[i] \in some => \E k \in DOMAIN only : only[k] = s[i]
  BY <1>2 DEF Indexes, Points
<1> QED BY <1>3, <1>4, <1>5, <1>6, <1>7 DEF only

(* Whatever holds of each earlier and later element still does.             *)
LEMMA OnlyOrdered ==
    ASSUME NEW T, NEW s \in Seq(T), NEW some, NEW R,
           \A i, k \in DOMAIN s : i < k => <<s[i], s[k]>> \in R
    PROVE  \A i, k \in DOMAIN Only(s, some) :
              i < k => <<Only(s, some)[i], Only(s, some)[k]>> \in R
<1>1. PICK at \in [DOMAIN Only(s, some) -> Indexes(s, some)] : Points(s, some, at)
  BY OnlyIs
<1>2. Indexes(s, some) \subseteq DOMAIN s BY DEF Indexes
<1> QED BY <1>1, <1>2 DEF Points

(* What a list holds, and what two lists hold one after the other.          *)
LEMMA RangeInside ==
    ASSUME NEW T, NEW list \in Seq(T)
    PROVE  Range(list) \subseteq T
BY LenProperties, ElementOfSeq DEF Range

LEMMA RangeOfBoth ==
    ASSUME NEW T, NEW s \in Seq(T), NEW t \in Seq(T)
    PROVE  s \o t \in Seq(T) /\ Range(s \o t) = Range(s) \cup Range(t)
<1>1. /\ s \o t \in Seq(T) /\ Len(s) \in Nat /\ Len(t) \in Nat
      /\ DOMAIN s = 1 .. Len(s) /\ DOMAIN t = 1 .. Len(t)
      /\ Len(s \o t) = Len(s) + Len(t)
      /\ \A i \in 1 .. Len(s) + Len(t) :
            (s \o t)[i] = IF i <= Len(s) THEN s[i] ELSE t[i - Len(s)]
      /\ DOMAIN (s \o t) = 1 .. Len(s) + Len(t)
  BY LenProperties, ConcatProperties
<1> DEFINE n == Len(s)
           m == Len(t)
           both == s \o t
<1> HIDE DEF n, m, both
<1>2. /\ n \in Nat /\ m \in Nat /\ DOMAIN s = 1 .. n /\ DOMAIN t = 1 .. m
      /\ DOMAIN both = 1 .. n + m
      /\ \A i \in 1 .. n + m : both[i] = IF i <= n THEN s[i] ELSE t[i - n]
  BY <1>1 DEF n, m, both
<1>3. ASSUME NEW i \in DOMAIN s PROVE i \in DOMAIN both /\ both[i] = s[i] BY <1>2
<1>4. ASSUME NEW i \in DOMAIN t PROVE i + n \in DOMAIN both /\ both[i + n] = t[i]
  <2>1. i + n \in 1 .. n + m /\ ~(i + n <= n) /\ (i + n) - n = i BY <1>2
  <2> QED BY <1>2, <2>1
<1>5. ASSUME NEW i \in DOMAIN both
      PROVE  both[i] \in Range(s) \cup Range(t)
  <2>1. i <= n => i \in DOMAIN s /\ both[i] = s[i] BY <1>2
  <2>2. ~(i <= n) => i - n \in DOMAIN t /\ both[i] = t[i - n] BY <1>2
  <2> QED BY <2>1, <2>2 DEF Range
<1>6. Range(both) \subseteq Range(s) \cup Range(t) BY <1>5 DEF Range
<1>7. Range(s) \subseteq Range(both) BY <1>3 DEF Range
<1>8. Range(t) \subseteq Range(both)
  <2> SUFFICES ASSUME NEW i \in DOMAIN t PROVE t[i] \in Range(both)
    BY DEF Range
  <2> QED BY <1>4 DEF Range
<1> QED BY <1>1, <1>6, <1>7, <1>8 DEF both

LEMMA OnlyInjective ==
    ASSUME NEW T, NEW s \in Seq(T), NEW some, IsInjective(s)
    PROVE  IsInjective(Only(s, some))
<1> DEFINE only == Only(s, some)
           R == {pair \in T \X T : pair[1] # pair[2]}
<1>1. \A i \in DOMAIN s : s[i] \in T BY LenProperties, ElementOfSeq
<1>2. DOMAIN s = 1 .. Len(s) BY LenProperties
<1>3. \A i, k \in DOMAIN s : i < k => <<s[i], s[k]>> \in R
  BY <1>1, <1>2 DEF IsInjective
<1>4. \A i, k \in DOMAIN only : i < k => <<only[i], only[k]>> \in R
  <2> HIDE DEF R
  <2> QED BY <1>3, OnlyOrdered
<1>5. only \in Seq(T) /\ DOMAIN only = 1 .. Len(only) BY OnlyHolds, LenProperties
<1> HIDE DEF only
<1>6. \A i, k \in DOMAIN only : i < k => only[i] # only[k] BY <1>4
<1>7. \A i, k \in DOMAIN only : i # k => i < k \/ k < i BY <1>5
<1>8. IsInjective(only) BY <1>6, <1>7 DEF IsInjective
<1> QED BY <1>8 DEF only
=============================================================================
