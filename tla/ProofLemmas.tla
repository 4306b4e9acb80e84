---------------------------- MODULE ProofLemmas ----------------------------
(***************************************************************************)
(* Facts about numbers and sequences that the proofs share.                *)
(***************************************************************************)
EXTENDS Integers, SequencesExt, SequenceTheorems, WellFoundedInduction, TLAPS

LEMMA LessThan ==
  \E R : IsWellFoundedOn(R, Nat) /\ \A n, m \in Nat : n < m => <<n, m>> \in R
  <1>1. \A n, m \in Nat : n < m => <<n, m>> \in OpToRel(<, Nat)
    BY DEF OpToRel
  <1> QED
    BY <1>1, NatLessThanWellFounded, Zenon

LEMMA Smallest ==
  ASSUME NEW S, S \subseteq Nat, S # {}
  PROVE  \E m \in S : \A n \in S : m <= n
  <1>1. PICK R : IsWellFoundedOn(R, Nat) /\ \A n, m \in Nat : n < m => <<n, m>> \in R
    BY LessThan
  <1>2. PICK m \in S : \A n \in S : ~ (<<n, m>> \in R)
    <2>1. IsWellFoundedOn(R, Nat) /\ S \subseteq Nat /\ S # {}
      BY <1>1
    <2> QED
      BY <2>1, WFMin, ZenonT(60)
  <1>3. ASSUME NEW n \in S PROVE m <= n
    <2>1. ~(n < m)
      BY <1>1, <1>2
    <2> QED
      BY <2>1
  <1> QED
    BY <1>3

LEMMA MinIs ==
  ASSUME NEW S, S \subseteq Nat, S # {}
  PROVE  Min(S) \in S /\ \A n \in S : Min(S) <= n
  <1>1. \E m \in S : \A n \in S : m <= n
    BY Smallest
  <1> QED
    BY <1>1, Zenon DEF Min

LEMMA RemoveAtIs ==
  ASSUME NEW S, NEW s \in Seq(S), NEW k \in 1 .. Len(s)
  PROVE  /\ RemoveAt(s, k) \in Seq(S)
         /\ Len(RemoveAt(s, k)) = Len(s) - 1
         /\ \A i \in 1 .. Len(s) - 1 :
              RemoveAt(s, k)[i] = IF i < k THEN s[i] ELSE s[i + 1]
  <1> DEFINE u == SubSeq(s, 1, k - 1)
             w == SubSeq(s, k + 1, Len(s))
  <1>1. /\ u \in Seq(S) /\ Len(u) = k - 1
        /\ \A i \in 1 .. k - 1 : u[i] = s[i]
    OBVIOUS
  <1>2. /\ w \in Seq(S) /\ Len(w) = Len(s) - k
        /\ \A i \in 1 .. Len(s) - k : w[i] = s[k + i]
    <2>1. \A i \in k + 1 .. Len(s) : s[i] \in S
      OBVIOUS
    <2>2. /\ w \in Seq(S)
          /\ Len(w) = IF k + 1 <= Len(s) THEN Len(s) - (k + 1) + 1 ELSE 0
          /\ \A i \in 1 .. Len(s) - (k + 1) + 1 : w[i] = s[(k + 1) + i - 1]
      BY <2>1, SubSeqProperties, Len(s) \in Int, k + 1 \in Int
    <2> HIDE DEF w
    <2>3. Len(w) = Len(s) - k
      BY <2>2
    <2>4. ASSUME NEW i \in 1 .. Len(s) - k PROVE w[i] = s[k + i]
      <3>1. i \in 1 .. Len(s) - (k + 1) + 1 /\ (k + 1) + i - 1 = k + i
        OBVIOUS
      <3> QED
        BY <2>2, <3>1
    <2> QED
      BY <2>2, <2>3, <2>4
  <1> HIDE DEF u, w
  <1>3. /\ u \o w \in Seq(S) /\ Len(u \o w) = Len(s) - 1
        /\ \A i \in 1 .. Len(s) - 1 :
             (u \o w)[i] = IF i <= k - 1 THEN u[i] ELSE w[i - (k - 1)]
    <2>1. /\ u \o w \in Seq(S) /\ Len(u \o w) = Len(u) + Len(w)
          /\ \A i \in 1 .. Len(u) + Len(w) :
               (u \o w)[i] = IF i <= Len(u) THEN u[i] ELSE w[i - Len(u)]
      BY <1>1, <1>2, ConcatProperties
    <2>2. Len(u) + Len(w) = Len(s) - 1
      BY <1>1, <1>2
    <2> QED
      BY <1>1, <2>1, <2>2
  <1>4. ASSUME NEW i \in 1 .. Len(s) - 1
        PROVE  (u \o w)[i] = IF i < k THEN s[i] ELSE s[i + 1]
    <2>1. CASE i < k
      BY <1>1, <1>3, <2>1
    <2>2. CASE ~(i < k)
      <3>1. i - (k - 1) \in 1 .. Len(s) - k /\ k + (i - (k - 1)) = i + 1
        BY <2>2
      <3> QED
        BY <1>2, <1>3, <2>2, <3>1
    <2> QED
      BY <2>1, <2>2
  <1> QED
    BY <1>3, <1>4 DEF RemoveAt, u, w

(* The first occurrence of an element is removed                           *)
LEMMA RemoveFirstIs ==
  ASSUME NEW S, NEW s \in Seq(S), NEW e, \E i \in 1 .. Len(s) : s[i] = e
  PROVE  \E k \in 1 .. Len(s) : /\ s[k] = e
                                /\ \A i \in 1 .. k - 1 : s[i] # e
                                /\ RemoveFirst(s, e) = RemoveAt(s, k)
  <1> DEFINE I == {i \in 1 .. Len(s) : s[i] = e}
  <1>1. I \subseteq Nat /\ I # {}
    OBVIOUS
  <1>2. Min(I) \in I /\ \A i \in I : Min(I) <= i
    BY <1>1, MinIs
  <1>3. RemoveFirst(s, e) = RemoveAt(s, Min(I))
    BY <1>1 DEF RemoveFirst, SelectInSeq
  <1>4. \A i \in 1 .. Min(I) - 1 : i \notin I
    BY <1>2
  <1>5. \A i \in 1 .. Min(I) - 1 : s[i] # e
    BY <1>2, <1>4
  <1> QED
    BY <1>2, <1>3, <1>5
-----------------------------------------------------------------------------
(* s lists each element of S once                                          *)
Lists(s, S) ==
  /\ s \in Seq(S)
  /\ \A e \in S : \E i \in 1 .. Len(s) : s[i] = e
  /\ \A i, j \in 1 .. Len(s) : s[i] = s[j] => i = j

LEMMA ListsAppend ==
  ASSUME NEW S, NEW s, Lists(s, S), NEW e, e \notin S
  PROVE  Lists(Append(s, e), S \cup {e})
  <1> DEFINE T == S \cup {e}
             t == Append(s, e)
  <1>1. s \in Seq(S) /\ s \in Seq(T) /\ e \in T
    BY DEF Lists
  <1>2. /\ t \in Seq(T) /\ Len(t) = Len(s) + 1 /\ t[Len(s) + 1] = e
        /\ \A i \in 1 .. Len(s) : t[i] = s[i]
    BY <1>1, AppendProperties
  <1>3. Len(s) \in Nat /\ \A i \in 1 .. Len(s) : s[i] \in S
    BY <1>1
  <1> HIDE DEF t
  <1>4. ASSUME NEW x \in T PROVE \E i \in 1 .. Len(t) : t[i] = x
    <2>1. CASE x = e
      BY <1>2, <1>3, <2>1
    <2>2. CASE x \in S
      <3>1. PICK i \in 1 .. Len(s) : s[i] = x
        BY <2>2 DEF Lists
      <3> QED
        BY <1>2, <1>3, <3>1
    <2> QED
      BY <2>1, <2>2
  <1>5. ASSUME NEW i \in 1 .. Len(t), NEW j \in 1 .. Len(t), t[i] = t[j] PROVE i = j
    <2>1. CASE i \in 1 .. Len(s) /\ j \in 1 .. Len(s)
      BY <1>2, <1>5, <2>1 DEF Lists
    <2>2. CASE i = Len(s) + 1
      BY <1>2, <1>3, <1>5, <2>2
    <2>3. CASE j = Len(s) + 1
      BY <1>2, <1>3, <1>5, <2>3
    <2> QED
      BY <1>2, <1>3, <2>1, <2>2, <2>3
  <1> QED
    BY <1>2, <1>4, <1>5 DEF Lists, t

LEMMA ListsRemove ==
  ASSUME NEW S, NEW s, Lists(s, S), NEW k \in 1 .. Len(s)
  PROVE  /\ RemoveFirst(s, s[k]) = RemoveAt(s, k)
         /\ Lists(RemoveAt(s, k), S \ {s[k]})
         /\ Len(RemoveAt(s, k)) = Len(s) - 1
         /\ \A i \in 1 .. Len(s) - 1 :
              RemoveAt(s, k)[i] = IF i < k THEN s[i] ELSE s[i + 1]
  <1> DEFINE t == RemoveAt(s, k)
             T == S \ {s[k]}
  <1>1. s \in Seq(S) /\ Len(s) \in Nat /\ \A i \in 1 .. Len(s) : s[i] \in S
    BY DEF Lists
  <1>2. RemoveFirst(s, s[k]) = t
    <2>1. PICK j \in 1 .. Len(s) : s[j] = s[k] /\ RemoveFirst(s, s[k]) = RemoveAt(s, j)
      BY <1>1, RemoveFirstIs
    <2> QED
      BY <2>1 DEF Lists
  <1>3. /\ t \in Seq(S) /\ Len(t) = Len(s) - 1
        /\ \A i \in 1 .. Len(s) - 1 : t[i] = IF i < k THEN s[i] ELSE s[i + 1]
    BY <1>1, RemoveAtIs
  <1> HIDE DEF t
  <1>4. ASSUME NEW i \in 1 .. Len(t)
        PROVE  \E j \in 1 .. Len(s) : j # k /\ t[i] = s[j] /\ j = IF i < k THEN i ELSE i + 1
    BY <1>1, <1>3
  <1>5. t \in Seq(T)
    <2>1. ASSUME NEW i \in 1 .. Len(t) PROVE t[i] \in T
      <3>1. PICK j \in 1 .. Len(s) : j # k /\ t[i] = s[j]
        BY <1>4
      <3> QED
        BY <1>1, <3>1 DEF Lists
    <2> QED
      BY <1>3, <2>1
  <1>6. ASSUME NEW x \in T PROVE \E i \in 1 .. Len(t) : t[i] = x
    <2>1. PICK j \in 1 .. Len(s) : s[j] = x
      BY DEF Lists
    <2>2. CASE j < k
      BY <1>1, <1>3, <2>1, <2>2
    <2>3. CASE j > k
      <3>1. j - 1 \in 1 .. Len(t) /\ ~(j - 1 < k) /\ (j - 1) + 1 = j
        BY <1>1, <1>3, <2>3
      <3>2. t[j - 1] = x
        BY <1>3, <2>1, <3>1
      <3> QED
        BY <3>1, <3>2
    <2> QED
      BY <2>1, <2>2, <2>3
  <1>7. ASSUME NEW i \in 1 .. Len(t), NEW j \in 1 .. Len(t), t[i] = t[j] PROVE i = j
    <2>1. PICK a \in 1 .. Len(s) : t[i] = s[a] /\ a = IF i < k THEN i ELSE i + 1
      BY <1>4
    <2>2. PICK b \in 1 .. Len(s) : t[j] = s[b] /\ b = IF j < k THEN j ELSE j + 1
      BY <1>4
    <2>3. a = b
      BY <1>7, <2>1, <2>2 DEF Lists
    <2>4. i \in Int /\ j \in Int
      OBVIOUS
    <2> QED
      BY <2>1, <2>2, <2>3, <2>4
  <1> QED
    BY <1>2, <1>3, <1>5, <1>6, <1>7 DEF Lists, t
=============================================================================
