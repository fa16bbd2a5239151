-------------------------- MODULE DictionaryLemmas --------------------------
(***************************************************************************)
(* Lemmas about the operators the queue is built from: how concatenating,  *)
(* cutting and removing from a sequence changes the number of occurrences  *)
(* of a path in it.                                                        *)
(***************************************************************************)
EXTENDS Dictionary, FiniteSetTheorems, SequenceTheorems, FunctionTheorems,
        WellFoundedInduction, TLAPS

\* The members of a concatenation.
LEMMA ConcatMembers ==
  ASSUME NEW S, NEW s \in Seq(S), NEW t \in Seq(S)
  PROVE  ToSet(s \o t) = ToSet(s) \cup ToSet(t)
<1> DEFINE u == s \o t
<1>1. Len(s) \in Nat /\ Len(t) \in Nat
      /\ DOMAIN s = 1 .. Len(s) /\ DOMAIN t = 1 .. Len(t)
  BY LenProperties
<1>2. /\ u \in Seq(S) /\ Len(u) = Len(s) + Len(t)
      /\ \A i \in 1 .. Len(s) + Len(t) :
           u[i] = IF i <= Len(s) THEN s[i] ELSE t[i - Len(s)]
  BY ConcatProperties
<1> HIDE DEF u
<1>3. DOMAIN u = 1 .. Len(s) + Len(t)
  BY <1>2, LenProperties
<1>4. \A i \in 1 .. Len(s) : i \in DOMAIN u /\ u[i] = s[i]
  BY <1>1, <1>2, <1>3
<1>5. \A i \in 1 .. Len(t) : Len(s) + i \in DOMAIN u /\ u[Len(s) + i] = t[i]
  <2>1. SUFFICES ASSUME NEW i \in 1 .. Len(t)
                 PROVE  Len(s) + i \in DOMAIN u /\ u[Len(s) + i] = t[i]
    OBVIOUS
  <2>2. /\ Len(s) + i \in 1 .. Len(s) + Len(t) /\ ~(Len(s) + i <= Len(s))
        /\ (Len(s) + i) - Len(s) = i
    BY <1>1
  <2> QED
    BY <1>2, <1>3, <2>2
<1>6. \A i \in DOMAIN u : \/ i \in 1 .. Len(s) /\ u[i] = s[i]
                          \/ i - Len(s) \in 1 .. Len(t) /\ u[i] = t[i - Len(s)]
  BY <1>1, <1>2, <1>3
<1>7. ToSet(u) = ToSet(s) \cup ToSet(t)
  <2>1. ASSUME NEW x \in ToSet(u) PROVE x \in ToSet(s) \cup ToSet(t)
    BY <1>1, <1>6, <2>1 DEF ToSet
  <2>2. ASSUME NEW x \in ToSet(s) PROVE x \in ToSet(u)
    BY <1>1, <1>4, <2>2 DEF ToSet
  <2>3. ASSUME NEW x \in ToSet(t) PROVE x \in ToSet(u)
    BY <1>1, <1>5, <2>3 DEF ToSet
  <2> QED
    BY <2>1, <2>2, <2>3
<1> QED
  BY <1>7 DEF u

\* The members of a sequence with one more entry.
LEMMA AppendMembers ==
  ASSUME NEW S, NEW s \in Seq(S), NEW e \in S
  PROVE  ToSet(Append(s, e)) = ToSet(s) \cup {e}
<1> DEFINE one == <<e>>
<1>1. one \in Seq(S) /\ DOMAIN one = {1} /\ one[1] = e
  OBVIOUS
<1>2. Append(s, e) = s \o one
  BY AppendIsConcat
<1> HIDE DEF one
<1>3. ToSet(one) = {e}
  BY <1>1, Zenon DEF ToSet
<1>4. ToSet(s \o one) = ToSet(s) \cup ToSet(one)
  BY <1>1, ConcatMembers
<1> QED
  BY <1>2, <1>3, <1>4

\* A path occurs a finite number of times in a sequence.
LEMMA OccurrencesType ==
  ASSUME NEW S, NEW s \in Seq(S), NEW p
  PROVE  /\ IsFiniteSet({i \in 1 .. Len(s) : s[i] = p})
         /\ Occurrences(s, p) \in Nat
<1>1. Len(s) \in Nat
  BY LenProperties
<1>2. IsFiniteSet(1 .. Len(s))
  BY <1>1, FS_Interval
<1>3. {i \in 1 .. Len(s) : s[i] = p} \in SUBSET (1 .. Len(s))
  OBVIOUS
<1>4. IsFiniteSet({i \in 1 .. Len(s) : s[i] = p})
  BY <1>2, <1>3, FS_Subset
<1> QED
  BY <1>4, FS_CardinalityType DEF Occurrences

\* Nothing occurs in the empty sequence.
LEMMA OccurrencesEmpty ==
  ASSUME NEW p
  PROVE  Occurrences(<<>>, p) = 0
<1>1. {i \in 1 .. Len(<<>>) : <<>>[i] = p} = {}
  OBVIOUS
<1> QED
  BY <1>1, FS_EmptySet DEF Occurrences

\* A one-element sequence counts its element.
LEMMA OccurrencesSingleton ==
  ASSUME NEW q, NEW p
  PROVE  Occurrences(<<q>>, p) = IF q = p THEN 1 ELSE 0
<1>1. CASE q = p
  <2>1. {i \in 1 .. Len(<<q>>) : <<q>>[i] = p} = {1}
    BY <1>1
  <2> QED
    BY <1>1, <2>1, FS_Singleton DEF Occurrences
<1>2. CASE q # p
  <2>1. {i \in 1 .. Len(<<q>>) : <<q>>[i] = p} = {}
    BY <1>2
  <2> QED
    BY <1>2, <2>1, FS_EmptySet DEF Occurrences
<1> QED
  BY <1>1, <1>2

\* Occurrences add up over a concatenation.
LEMMA OccurrencesConcat ==
  ASSUME NEW S, NEW s \in Seq(S), NEW t \in Seq(S), NEW p
  PROVE  Occurrences(s \o t, p) = Occurrences(s, p) + Occurrences(t, p)
<1> DEFINE A == {i \in 1 .. Len(s) : s[i] = p}
           B == {i \in 1 .. Len(t) : t[i] = p}
           C == {i \in Len(s) + 1 .. Len(s) + Len(t) : t[i - Len(s)] = p}
           f == [i \in B |-> i + Len(s)]
<1>1. Len(s) \in Nat /\ Len(t) \in Nat
  BY LenProperties
<1>2. /\ IsFiniteSet(A) /\ IsFiniteSet(B)
      /\ Cardinality(A) = Occurrences(s, p)
      /\ Cardinality(B) = Occurrences(t, p)
  BY OccurrencesType DEF Occurrences
<1>3. f \in Bijection(B, C)
  <2>1. f \in [B -> C]
    BY <1>1
  <2>2. \A i, j \in B : f[i] = f[j] => i = j
    BY <1>1
  <2>3. \A k \in C : \E i \in B : f[i] = k
    <3>1. TAKE k \in C
    <3>2. k - Len(s) \in B /\ f[k - Len(s)] = k
      BY <1>1, <3>1
    <3> QED
      BY <3>2
  <2> QED
    BY <2>1, <2>2, <2>3, Fun_IsBij
<1>4. IsFiniteSet(C) /\ Cardinality(C) = Cardinality(B)
  BY <1>2, <1>3, FS_Bijection DEF ExistsBijection
<1>5. A \cap C = {}
  BY <1>1
<1>6. {i \in 1 .. Len(s \o t) : (s \o t)[i] = p} = A \cup C
  <2>1. /\ Len(s \o t) = Len(s) + Len(t)
        /\ \A i \in 1 .. Len(s) + Len(t) :
             (s \o t)[i] = IF i <= Len(s) THEN s[i] ELSE t[i - Len(s)]
    BY ConcatProperties
  <2> QED
    BY <1>1, <2>1
<1>7. Occurrences(s \o t, p) = Cardinality(A \cup C)
  BY <1>6 DEF Occurrences
<1>8. Cardinality(A) \in Nat /\ Cardinality(C) \in Nat
  BY <1>2, <1>4, FS_CardinalityType
<1> HIDE DEF A, B, C
<1>9. Cardinality(A \cup C) = Cardinality(A) + Cardinality(C) - Cardinality(A \cap C)
  BY <1>2, <1>4, FS_Union
<1>10. Cardinality(A \cap C) = 0
  BY <1>5, FS_EmptySet
<1> QED
  BY <1>2, <1>4, <1>7, <1>8, <1>9, <1>10

\* Appending an element adds one occurrence of it.
LEMMA OccurrencesAppend ==
  ASSUME NEW S, NEW s \in Seq(S), NEW q \in S, NEW p
  PROVE  Occurrences(Append(s, q), p) = Occurrences(s, p) + (IF q = p THEN 1 ELSE 0)
<1>1. Append(s, q) = s \o <<q>> /\ <<q>> \in Seq(S)
  BY AppendIsConcat
<1>2. Occurrences(s \o <<q>>, p) = Occurrences(s, p) + Occurrences(<<q>>, p)
  BY <1>1, OccurrencesConcat
<1> QED
  BY <1>1, <1>2, OccurrencesSingleton

\* Cutting a subsequence in two splits its occurrences.
LEMMA OccurrencesSplit ==
  ASSUME NEW S, NEW s \in Seq(S),
         NEW m \in 1 .. Len(s) + 1, NEW k \in m - 1 .. Len(s), NEW n \in k .. Len(s),
         NEW p
  PROVE  Occurrences(SubSeq(s, m, n), p)
           = Occurrences(SubSeq(s, m, k), p) + Occurrences(SubSeq(s, k + 1, n), p)
<1>1. Len(s) \in Nat /\ \A i \in 1 .. Len(s) : s[i] \in S
  BY LenProperties, ElementOfSeq
<1>2. SubSeq(s, m, k) \in Seq(S) /\ SubSeq(s, k + 1, n) \in Seq(S)
  BY <1>1, SubSeqProperties
<1>3. SubSeq(s, m, k) \o SubSeq(s, k + 1, n) = SubSeq(s, m, n)
  BY ConcatAdjacentSubSeq
<1>4. Occurrences(SubSeq(s, m, k) \o SubSeq(s, k + 1, n), p)
        = Occurrences(SubSeq(s, m, k), p) + Occurrences(SubSeq(s, k + 1, n), p)
  BY <1>2, OccurrencesConcat
<1> QED
  BY <1>3, <1>4

\* The same, with the cut points given as positions.
LEMMA OccurrencesCut ==
  ASSUME NEW S, NEW s \in Seq(S), NEW a \in Nat, NEW k \in Nat, NEW n \in Nat,
         a <= k, k <= n, n <= Len(s), NEW p
  PROVE  Occurrences(SubSeq(s, a + 1, n), p)
           = Occurrences(SubSeq(s, a + 1, k), p) + Occurrences(SubSeq(s, k + 1, n), p)
<1>1. Len(s) \in Nat
  BY LenProperties
<1> DEFINE m == a + 1
<1>2. m \in 1 .. Len(s) + 1 /\ k \in m - 1 .. Len(s) /\ n \in k .. Len(s)
  BY <1>1
<1> HIDE DEF m
<1>3. Occurrences(SubSeq(s, m, n), p)
        = Occurrences(SubSeq(s, m, k), p) + Occurrences(SubSeq(s, k + 1, n), p)
  BY <1>2, OccurrencesSplit
<1> QED
  BY <1>3 DEF m

\* Removing position i removes one occurrence of what stood there.
LEMMA OccurrencesRemoveAt ==
  ASSUME NEW S, NEW s \in Seq(S), NEW i \in 1 .. Len(s), NEW p
  PROVE  /\ RemoveAt(s, i) \in Seq(S)
         /\ Occurrences(s, p)
              = Occurrences(RemoveAt(s, i), p) + (IF s[i] = p THEN 1 ELSE 0)
<1> DEFINE front == SubSeq(s, 1, i - 1)
           back == SubSeq(s, i + 1, Len(s))
<1>1. Len(s) \in Nat /\ \A j \in 1 .. Len(s) : s[j] \in S
  BY LenProperties, ElementOfSeq
<1>2. front \in Seq(S) /\ back \in Seq(S)
  BY <1>1, SubSeqProperties
<1>3. Occurrences(SubSeq(s, 1, Len(s)), p)
        = Occurrences(front, p) + Occurrences(SubSeq(s, i, Len(s)), p)
  <2>1. i - 1 \in 0 .. Len(s) /\ i - 1 + 1 = i /\ Len(s) \in i - 1 .. Len(s)
    BY <1>1
  <2>2. 1 \in 1 .. Len(s) + 1 /\ i - 1 \in 1 - 1 .. Len(s)
    BY <1>1
  <2> QED
    BY <2>1, <2>2, OccurrencesSplit
<1>4. SubSeq(s, i, Len(s)) = <<s[i]>> \o back
  BY <1>1, SubSeqRecursiveFirst
<1>5. Occurrences(<<s[i]>> \o back, p)
        = (IF s[i] = p THEN 1 ELSE 0) + Occurrences(back, p)
  <2>1. <<s[i]>> \in Seq(S)
    BY <1>1
  <2>2. Occurrences(<<s[i]>> \o back, p)
          = Occurrences(<<s[i]>>, p) + Occurrences(back, p)
    BY <1>2, <2>1, OccurrencesConcat
  <2> QED
    BY <2>2, OccurrencesSingleton
<1>6. RemoveAt(s, i) = front \o back
  BY DEF RemoveAt
<1>7. /\ front \o back \in Seq(S)
      /\ Occurrences(front \o back, p) = Occurrences(front, p) + Occurrences(back, p)
  BY <1>2, ConcatProperties, OccurrencesConcat
<1>8. SubSeq(s, 1, Len(s)) = s
  BY SubSeqFull
<1>9. Occurrences(front, p) \in Nat /\ Occurrences(back, p) \in Nat
  BY <1>2, OccurrencesType
<1> DEFINE one == IF s[i] = p THEN 1 ELSE 0
<1>10. Occurrences(s, p) = Occurrences(front, p) + (one + Occurrences(back, p))
  BY <1>3, <1>4, <1>5, <1>8
<1>11. one \in Nat
  OBVIOUS
<1> HIDE DEF front, back, one
<1>12. Occurrences(s, p) = Occurrences(front \o back, p) + one
  BY <1>7, <1>9, <1>10, <1>11
<1> QED
  BY <1>6, <1>7, <1>12 DEF one

\* A non-empty set of naturals has a least element.
LEMMA LeastNatural ==
  ASSUME NEW T \in SUBSET Nat, T # {}
  PROVE  \E x \in T : \A y \in T : x <= y
<1> DEFINE R == {ss \in Nat \X Nat : ss[1] < ss[2]}
<1>1. IsWellFoundedOn(R, Nat)
  BY NatLessThanWellFounded, Zenon DEF OpToRel
<1>2. PICK x \in T : \A y \in T : ~(<<y, x>> \in R)
  <2> HIDE DEF R
  <2> QED
    BY <1>1, WFMin, Zenon
<1>3. \A y \in T : ~(y < x)
  BY <1>2
<1> QED
  BY <1>2, <1>3

\* list.remove drops exactly one occurrence of a path that is there.
LEMMA OccurrencesRemoveFirst ==
  ASSUME NEW S, NEW s \in Seq(S), NEW q, q \in ToSet(s), NEW p
  PROVE  /\ RemoveFirst(s, q) \in Seq(S)
         /\ Occurrences(s, p)
              = Occurrences(RemoveFirst(s, q), p) + (IF q = p THEN 1 ELSE 0)
<1> DEFINE I == {i \in 1 .. Len(s) : s[i] = q}
<1>1. Len(s) \in Nat /\ DOMAIN s = 1 .. Len(s)
  BY LenProperties
<1>2. I # {} /\ I \in SUBSET Nat
  BY <1>1 DEF ToSet
<1>3. Min(I) \in I
  BY <1>2, LeastNatural DEF Min
<1>4. RemoveFirst(s, q) = RemoveAt(s, Min(I))
  BY <1>2 DEF RemoveFirst, SelectInSeq
<1> QED
  BY <1>3, <1>4, OccurrencesRemoveAt

-----------------------------------------------------------------------------
(* The effect of each operation on what the queue owes                     *)

\* The parts of the queue are sequences of paths, with natural counts.
LEMMA QueueParts ==
  ASSUME DictTypeOK, RangeInFlight
  PROVE  /\ Len(Wordlist) \in Nat /\ Len(extra) \in Nat /\ Len(claimed) \in Nat
         /\ PendingExtra \in Seq(Paths)
         /\ PendingItems \in Seq(Paths)
         /\ NativeOutstanding \in Seq(Paths)
         /\ SubSeq(extra, 1, extraIndex) \in Seq(Paths)
         /\ \A p : /\ Occurrences(claimed, p) \in Nat
                   /\ Occurrences(PendingExtra, p) \in Nat
                   /\ Occurrences(PendingItems, p) \in Nat
                   /\ Occurrences(NativeOutstanding, p) \in Nat
                   /\ Outstanding(p) \in Nat
<1>1. /\ Wordlist \in Seq(Paths) /\ extra \in Seq(Paths) /\ claimed \in Seq(Paths)
      /\ index \in 0 .. Len(Wordlist) /\ extraIndex \in 0 .. Len(extra)
      /\ nativeClaim \in NativeClaims
  BY DictionaryAssumption DEF DictTypeOK
<1>2. /\ Len(Wordlist) \in Nat /\ Len(extra) \in Nat /\ Len(claimed) \in Nat
      /\ \A i \in 1 .. Len(Wordlist) : Wordlist[i] \in Paths
      /\ \A i \in 1 .. Len(extra) : extra[i] \in Paths
  BY <1>1, LenProperties, ElementOfSeq
<1>3. PendingExtra \in Seq(Paths)
  BY <1>1, <1>2, SubSeqProperties DEF PendingExtra
<1>4. PendingItems \in Seq(Paths)
  BY <1>1, <1>2, SubSeqProperties DEF PendingItems
<1>5. NativeOutstanding \in Seq(Paths)
  <2> DEFINE m == nativeClaim.start + nativeClaim.released + 1
             n == nativeClaim.start + nativeClaim.size
  <2>1. m \in Int /\ n \in Int /\ m >= 1 /\ n <= Len(Wordlist)
    BY <1>1, <1>2 DEF NativeClaims, NoClaim, RangeInFlight
  <2>2. \A i \in m .. n : Wordlist[i] \in Paths
    BY <1>2, <2>1
  <2> HIDE DEF m, n
  <2>3. SubSeq(Wordlist, m, n) \in Seq(Paths)
    BY <2>1, <2>2, SubSeqProperties
  <2> QED
    BY <2>3 DEF NativeOutstanding, m, n
<1>6. SubSeq(extra, 1, extraIndex) \in Seq(Paths)
  BY <1>1, <1>2, SubSeqProperties
<1>7. \A p : /\ Occurrences(claimed, p) \in Nat
             /\ Occurrences(PendingExtra, p) \in Nat
             /\ Occurrences(PendingItems, p) \in Nat
             /\ Occurrences(NativeOutstanding, p) \in Nat
  BY <1>1, <1>3, <1>4, <1>5, OccurrencesType
<1>8. \A p : Outstanding(p) \in Nat
  BY <1>7 DEF Outstanding
<1> QED
  BY <1>2, <1>3, <1>4, <1>5, <1>6, <1>7, <1>8, Zenon

\* What is pending after position k is a sequence, with natural counts.
LEMMA PendingType ==
  ASSUME NEW S, NEW s \in Seq(S), NEW k \in 0 .. Len(s)
  PROVE  /\ SubSeq(s, k + 1, Len(s)) \in Seq(S)
         /\ \A p : Occurrences(SubSeq(s, k + 1, Len(s)), p) \in Nat
<1>1. Len(s) \in Nat /\ \A i \in 1 .. Len(s) : s[i] \in S
  BY LenProperties, ElementOfSeq
<1>2. SubSeq(s, k + 1, Len(s)) \in Seq(S)
  BY <1>1, SubSeqProperties
<1> QED
  BY <1>2, OccurrencesType

\* Taking the next n entries off a queue splits its pending part.
LEMMA PendingSplit ==
  ASSUME NEW S, NEW s \in Seq(S), NEW k \in 0 .. Len(s), NEW n \in 0 .. Len(s) - k,
         NEW p
  PROVE  Occurrences(SubSeq(s, k + 1, Len(s)), p)
           = Occurrences(SubSeq(s, k + 1, k + n), p)
               + Occurrences(SubSeq(s, k + n + 1, Len(s)), p)
<1>1. Len(s) \in Nat
  BY LenProperties
<1>2. k + 1 \in 1 .. Len(s) + 1 /\ k + n \in k + 1 - 1 .. Len(s) /\ Len(s) \in k + n .. Len(s)
  BY <1>1
<1> QED
  BY <1>2, OccurrencesSplit

\* The entry at position k + 1 is the first of those pending after k.
LEMMA PendingHead ==
  ASSUME NEW S, NEW s \in Seq(S), NEW k \in Nat, k < Len(s), NEW p
  PROVE  /\ s[k + 1] \in S
         /\ Occurrences(SubSeq(s, k + 1, Len(s)), p)
              = (IF s[k + 1] = p THEN 1 ELSE 0)
                  + Occurrences(SubSeq(s, k + 1 + 1, Len(s)), p)
<1>1. Len(s) \in Nat /\ \A i \in 1 .. Len(s) : s[i] \in S
  BY LenProperties, ElementOfSeq
<1>2. k + 1 \in 1 .. Len(s) /\ Len(s) \in k + 1 .. Len(s)
  BY <1>1
<1>3. SubSeq(s, k + 1, Len(s)) = <<s[k + 1]>> \o SubSeq(s, k + 1 + 1, Len(s))
  BY <1>2, SubSeqRecursiveFirst
<1>4. <<s[k + 1]>> \in Seq(S) /\ SubSeq(s, k + 1 + 1, Len(s)) \in Seq(S)
  BY <1>1, <1>2, SubSeqProperties
<1>5. Occurrences(<<s[k + 1]>> \o SubSeq(s, k + 1 + 1, Len(s)), p)
        = Occurrences(<<s[k + 1]>>, p) + Occurrences(SubSeq(s, k + 1 + 1, Len(s)), p)
  BY <1>4, OccurrencesConcat
<1> QED
  BY <1>1, <1>2, <1>3, <1>5, OccurrencesSingleton

\* claim_next moves one path from the queue to the claims.
LEMMA ClaimNextOutstanding ==
  ASSUME DictTypeOK, nativeClaim = NoClaim, claim_next
  PROVE  /\ DictTypeOK'
         /\ NextPath \in Paths
         /\ \A p : Outstanding(p)' = Outstanding(p)
<1>1. /\ Wordlist \in Seq(Paths) /\ extra \in Seq(Paths) /\ claimed \in Seq(Paths)
      /\ index \in 0 .. Len(Wordlist) /\ extraIndex \in 0 .. Len(extra)
      /\ Len(Wordlist) \in Nat /\ Len(extra) \in Nat
  BY DictionaryAssumption, LenProperties DEF DictTypeOK
<1>2. UNCHANGED <<native, extra, extraMembership, nativeClaim>>
  BY DEF claim_next
<1>3. RangeInFlight
  BY DEF RangeInFlight
<1>4. /\ NativeOutstanding' = NativeOutstanding
      /\ \A p : /\ Occurrences(claimed, p) \in Nat
                /\ Occurrences(PendingExtra, p) \in Nat
                /\ Occurrences(PendingItems, p) \in Nat
                /\ Occurrences(NativeOutstanding, p) \in Nat
  BY <1>2, <1>3, QueueParts DEF NativeOutstanding
<1>5. CASE extraIndex < Len(extra)
  <2>1. NextPath = extra[extraIndex + 1] /\ extraIndex' = extraIndex + 1 /\ index' = index
    BY <1>5 DEF claim_next, NextPath
  <2>2. /\ NextPath \in Paths
        /\ \A p : Occurrences(PendingExtra, p)
                    = (IF NextPath = p THEN 1 ELSE 0) + Occurrences(PendingExtra', p)
    BY <1>1, <1>2, <1>5, <2>1, PendingHead DEF PendingExtra
  <2>3. claimed' = Append(claimed, NextPath)
    BY DEF claim_next
  <2>4. claimed' \in Seq(Paths)
    BY <1>1, <2>2, <2>3
  <2>5. \A p : Occurrences(claimed', p) = Occurrences(claimed, p)
                                            + (IF NextPath = p THEN 1 ELSE 0)
    BY <1>1, <2>2, <2>3, OccurrencesAppend
  <2>6. PendingItems' = PendingItems
    BY <2>1 DEF PendingItems
  <2>7. DictTypeOK'
    BY <1>1, <1>2, <1>5, <2>1, <2>4 DEF DictTypeOK
  <2>8. \A p : Occurrences(PendingExtra', p) \in Nat
    BY <2>7, PendingType DEF DictTypeOK, PendingExtra
  <2>9. \A p : Outstanding(p)' = Outstanding(p)
    BY <1>4, <2>2, <2>5, <2>6, <2>8 DEF Outstanding
  <2> QED
    BY <2>2, <2>7, <2>9
<1>6. CASE ~(extraIndex < Len(extra))
  <2>1. /\ NextPath = Wordlist[index + 1] /\ index' = index + 1
        /\ extraIndex' = extraIndex /\ index < Len(Wordlist)
    BY <1>1, <1>6 DEF claim_next, NextPath, Exhausted
  <2>2. /\ NextPath \in Paths
        /\ \A p : Occurrences(PendingItems, p)
                    = (IF NextPath = p THEN 1 ELSE 0) + Occurrences(PendingItems', p)
    BY <1>1, <2>1, PendingHead DEF PendingItems
  <2>3. claimed' = Append(claimed, NextPath)
    BY DEF claim_next
  <2>4. claimed' \in Seq(Paths)
    BY <1>1, <2>2, <2>3
  <2>5. \A p : Occurrences(claimed', p) = Occurrences(claimed, p)
                                            + (IF NextPath = p THEN 1 ELSE 0)
    BY <1>1, <2>2, <2>3, OccurrencesAppend
  <2>6. PendingExtra' = PendingExtra
    BY <1>2, <2>1 DEF PendingExtra
  <2>7. DictTypeOK'
    BY <1>1, <1>2, <2>1, <2>4 DEF DictTypeOK
  <2>8. \A p : Occurrences(PendingItems', p) \in Nat
    BY <1>1, <2>7, PendingType DEF DictTypeOK, PendingItems
  <2>9. \A p : Outstanding(p)' = Outstanding(p)
    BY <1>4, <2>2, <2>5, <2>6, <2>8 DEF Outstanding
  <2> QED
    BY <2>2, <2>7, <2>9
<1> QED
  BY <1>5, <1>6

\* release_claim settles one occurrence of the released path.
LEMMA ReleaseClaimOutstanding ==
  ASSUME DictTypeOK, RangeInFlight, NEW q, release_claim(q)
  PROVE  /\ DictTypeOK' /\ RangeInFlight'
         /\ \A p : /\ Occurrences(claimed, p)
                        = Occurrences(claimed', p) + (IF q = p THEN 1 ELSE 0)
                   /\ Outstanding(p) = Outstanding(p)' + (IF q = p THEN 1 ELSE 0)
<1>1. claimed \in Seq(Paths) /\ q \in ToSet(claimed) /\ claimed' = RemoveFirst(claimed, q)
  BY DEF DictTypeOK, release_claim
<1>2. /\ claimed' \in Seq(Paths)
      /\ \A p : Occurrences(claimed, p)
                  = Occurrences(claimed', p) + (IF q = p THEN 1 ELSE 0)
  BY <1>1, OccurrencesRemoveFirst
<1>3. UNCHANGED <<native, index, extra, extraIndex, extraMembership, nativeClaim>>
  BY DEF release_claim
<1>4. DictTypeOK' /\ RangeInFlight'
  BY <1>2, <1>3 DEF DictTypeOK, RangeInFlight
<1>5. /\ NativeOutstanding' = NativeOutstanding
      /\ PendingExtra' = PendingExtra /\ PendingItems' = PendingItems
  BY <1>3 DEF NativeOutstanding, PendingExtra, PendingItems
<1>6. \A p : Occurrences(claimed', p) \in Nat
  BY <1>2, OccurrencesType
<1>7. \A p : /\ Occurrences(NativeOutstanding, p) \in Nat
             /\ Occurrences(PendingExtra, p) \in Nat
             /\ Occurrences(PendingItems, p) \in Nat
  BY QueueParts
<1>8. \A p : Outstanding(p) = Outstanding(p)' + (IF q = p THEN 1 ELSE 0)
  BY <1>2, <1>5, <1>6, <1>7 DEF Outstanding
<1> QED
  BY <1>2, <1>4, <1>8

\* claim_native_many moves a prefix of the queue to the claims or the range.
LEMMA ClaimNativeOutstanding ==
  ASSUME DictTypeOK, nativeClaim = NoClaim,
         NEW maximum \in Nat, claim_native_many(maximum)
  PROVE  /\ DictTypeOK' /\ RangeInFlight'
         /\ \E more \in Seq(Paths) : claimed' = claimed \o more
         /\ \A p : Outstanding(p)' = Outstanding(p)
<1>1. /\ Wordlist \in Seq(Paths) /\ extra \in Seq(Paths) /\ claimed \in Seq(Paths)
      /\ index \in 0 .. Len(Wordlist) /\ extraIndex \in 0 .. Len(extra)
      /\ Len(Wordlist) \in Nat /\ Len(extra) \in Nat /\ Len(claimed) \in Nat
      /\ \A i \in 1 .. Len(Wordlist) : Wordlist[i] \in Paths
      /\ \A i \in 1 .. Len(extra) : extra[i] \in Paths
      /\ nativeClaim \in NativeClaims
  BY DictionaryAssumption, LenProperties, ElementOfSeq DEF DictTypeOK
<1> DEFINE e == ManyExtras(maximum)
           E == SubSeq(extra, extraIndex + 1, extraIndex + e)
<1>2. e \in 0 .. Len(extra) - extraIndex /\ e <= maximum
  BY <1>1 DEF ManyExtras, AtMost
<1>3. E \in Seq(Paths)
  BY <1>1, <1>2, SubSeqProperties
<1>4. \A p : Occurrences(PendingExtra, p)
               = Occurrences(E, p)
                   + Occurrences(SubSeq(extra, extraIndex + e + 1, Len(extra)), p)
  BY <1>1, <1>2, PendingSplit DEF PendingExtra
<1>5. RangeInFlight
  BY DEF RangeInFlight
<1>6. \A p : /\ Occurrences(claimed, p) \in Nat
             /\ Occurrences(PendingExtra, p) \in Nat
             /\ Occurrences(PendingItems, p) \in Nat
             /\ Occurrences(E, p) \in Nat
             /\ Occurrences(NativeOutstanding, p) = 0
  <2>1. NativeOutstanding = <<>>
    BY SubSeqEmpty DEF NativeOutstanding, NoClaim
  <2> QED
    BY <1>3, <1>5, <2>1, QueueParts, OccurrencesType, OccurrencesEmpty
<1>7. CASE claim_many(maximum)
  <2> DEFINE n == ManyItems(maximum)
             N == SubSeq(Wordlist, index + 1, index + n)
  <2>1. n \in 0 .. Len(Wordlist) - index
    BY <1>1, <1>2 DEF ManyItems, AtMost
  <2>2. N \in Seq(Paths)
    BY <1>1, <2>1, SubSeqProperties
  <2>3. \A p : Occurrences(PendingItems, p)
                 = Occurrences(N, p)
                     + Occurrences(SubSeq(Wordlist, index + n + 1, Len(Wordlist)), p)
    BY <1>1, <2>1, PendingSplit DEF PendingItems
  <2>4. /\ extraIndex' = extraIndex + e /\ index' = index + n
        /\ claimed' = claimed \o (E \o N)
        /\ UNCHANGED <<native, extra, extraMembership, nativeClaim>>
    BY <1>7 DEF claim_many, ManyPaths
  <2>5. E \o N \in Seq(Paths) /\ claimed' \in Seq(Paths)
    BY <1>1, <1>3, <2>2, <2>4, ConcatProperties
  <2>6. \A p : Occurrences(claimed', p)
                 = Occurrences(claimed, p) + (Occurrences(E, p) + Occurrences(N, p))
    <3>1. TAKE p
    <3>2. Occurrences(E \o N, p) = Occurrences(E, p) + Occurrences(N, p)
      BY <1>3, <2>2, OccurrencesConcat
    <3>3. Occurrences(claimed \o (E \o N), p) = Occurrences(claimed, p) + Occurrences(E \o N, p)
      <4> DEFINE EN == E \o N
      <4>1. claimed \in Seq(Paths) /\ EN \in Seq(Paths)
        BY <1>1, <2>5
      <4> HIDE DEF EN
      <4>2. Occurrences(claimed \o EN, p) = Occurrences(claimed, p) + Occurrences(EN, p)
        BY <4>1, OccurrencesConcat
      <4> QED
        BY <4>2, Zenon DEF EN
    <3> QED
      BY <2>4, <3>2, <3>3
  <2>7. DictTypeOK' /\ RangeInFlight'
    <3> HIDE DEF e, E, n, N
    <3>1. index' \in 0 .. Len(Wordlist) /\ extraIndex' \in 0 .. Len(extra')
      BY <1>1, <1>2, <2>1, <2>4
    <3>2. DictTypeOK'
      BY <2>4, <2>5, <3>1 DEF DictTypeOK
    <3> QED
      BY <2>4, <3>2 DEF RangeInFlight
  <2>8. /\ PendingExtra' = SubSeq(extra, extraIndex + e + 1, Len(extra))
        /\ PendingItems' = SubSeq(Wordlist, index + n + 1, Len(Wordlist))
        /\ NativeOutstanding' = NativeOutstanding
    BY <2>4 DEF PendingExtra, PendingItems, NativeOutstanding
  <2>9. \A p : Occurrences(PendingExtra', p) \in Nat /\ Occurrences(PendingItems', p) \in Nat
    BY <1>1, <2>7, PendingType DEF DictTypeOK, PendingExtra, PendingItems
  <2>10. \A p : Occurrences(N, p) \in Nat
    BY <2>2, OccurrencesType
  <2> HIDE DEF e, E, n, N
  <2>11. \A p : Outstanding(p)' = Outstanding(p)
    <3>1. TAKE p
    <3>2. /\ Occurrences(PendingExtra, p) = Occurrences(E, p) + Occurrences(PendingExtra', p)
          /\ Occurrences(PendingItems, p) = Occurrences(N, p) + Occurrences(PendingItems', p)
      BY <1>4, <2>3, <2>8
    <3>3. /\ Occurrences(claimed', p)
               = Occurrences(claimed, p) + (Occurrences(E, p) + Occurrences(N, p))
          /\ Occurrences(NativeOutstanding', p) = 0
          /\ Occurrences(NativeOutstanding, p) = 0
      BY <1>6, <2>6, <2>8
    <3>4. /\ Occurrences(claimed, p) \in Nat /\ Occurrences(E, p) \in Nat
          /\ Occurrences(N, p) \in Nat
          /\ Occurrences(PendingExtra', p) \in Nat /\ Occurrences(PendingItems', p) \in Nat
      BY <1>6, <2>9, <2>10
    <3> QED
      BY <3>2, <3>3, <3>4 DEF Outstanding
  <2> QED
    BY <2>4, <2>5, <2>7, <2>11
<1>8. CASE ClaimExtras(maximum)
  <2>1. /\ extraIndex' = extraIndex + e
        /\ claimed' = claimed \o E
        /\ UNCHANGED <<native, index, extra, extraMembership, nativeClaim>>
    BY <1>8 DEF ClaimExtras
  <2>2. /\ claimed' \in Seq(Paths)
        /\ \A p : Occurrences(claimed', p) = Occurrences(claimed, p) + Occurrences(E, p)
    BY <1>1, <1>3, <2>1, ConcatProperties, OccurrencesConcat
  <2>3. DictTypeOK' /\ RangeInFlight'
    <3> HIDE DEF e, E
    <3>1. extraIndex' \in 0 .. Len(extra')
      <4>1. extraIndex' = extraIndex + e /\ extra' = extra
        BY <2>1
      <4> QED
        BY <1>1, <1>2, <4>1
    <3>2. DictTypeOK'
      BY <1>1, <2>1, <2>2, <3>1 DEF DictTypeOK
    <3>3. RangeInFlight'
      BY <1>1, <2>1 DEF RangeInFlight
    <3> QED
      BY <3>2, <3>3
  <2>4. /\ PendingExtra' = SubSeq(extra, extraIndex + e + 1, Len(extra))
        /\ PendingItems' = PendingItems
        /\ NativeOutstanding' = NativeOutstanding
    BY <2>1 DEF PendingExtra, PendingItems, NativeOutstanding
  <2>5. \A p : Occurrences(PendingExtra', p) \in Nat
    BY <2>3, PendingType DEF DictTypeOK, PendingExtra
  <2> HIDE DEF e, E
  <2>6. \A p : Outstanding(p)' = Outstanding(p)
    BY <1>4, <1>6, <2>2, <2>4, <2>5 DEF Outstanding
  <2> QED
    BY <1>3, <2>1, <2>3, <2>6
<1>9. CASE ClaimRange(maximum)
  <2> DEFINE n == AtMost(maximum, Len(Wordlist) - index)
             N == SubSeq(Wordlist, index + 1, index + n)
  <2>1. n \in 0 .. Len(Wordlist) - index /\ n > 0
    BY <1>1, <1>9 DEF ClaimRange, AtMost
  <2> HIDE DEF n
  <2>2. N \in Seq(Paths)
    BY <1>1, <2>1, SubSeqProperties
  <2>3. \A p : Occurrences(PendingItems, p)
                 = Occurrences(N, p)
                     + Occurrences(SubSeq(Wordlist, index + n + 1, Len(Wordlist)), p)
    BY <1>1, <2>1, PendingSplit DEF PendingItems
  <2>4. /\ index' = index + n
        /\ nativeClaim' = [start |-> index, size |-> n, released |-> 0]
        /\ UNCHANGED <<native, extra, extraIndex, extraMembership, claimed>>
    BY <1>9 DEF ClaimRange, n
  <2>5. DictTypeOK' /\ RangeInFlight'
    BY <1>1, <2>1, <2>4 DEF DictTypeOK, RangeInFlight, NativeClaims
  <2>6. /\ PendingExtra' = PendingExtra
        /\ PendingItems' = SubSeq(Wordlist, index + n + 1, Len(Wordlist))
        /\ NativeOutstanding' = N
    <3>1. /\ nativeClaim'.start + nativeClaim'.released + 1 = index + 1
          /\ nativeClaim'.start + nativeClaim'.size = index + n
      BY <1>1, <2>1, <2>4
    <3> QED
      BY <2>4, <3>1 DEF PendingExtra, PendingItems, NativeOutstanding
  <2>7. \A p : Occurrences(N, p) \in Nat /\ Occurrences(PendingItems', p) \in Nat
    BY <1>1, <2>2, <2>5, PendingType, OccurrencesType DEF DictTypeOK, PendingItems
  <2> HIDE DEF e, E, n, N
  <2>8. \A p : Outstanding(p)' = Outstanding(p)
    BY <1>6, <2>3, <2>4, <2>6, <2>7 DEF Outstanding
  <2>9. claimed' = claimed \o <<>> /\ <<>> \in Seq(Paths)
    BY <1>1, <2>4, ConcatEmptySeq
  <2> QED
    BY <2>5, <2>8, <2>9
<1> QED
  BY <1>7, <1>8, <1>9 DEF claim_native_many

\* Releasing a prefix of the claims settles exactly that prefix.
LEMMA ReleasePrefixOutstanding ==
  ASSUME DictTypeOK, RangeInFlight, NEW count \in 1 .. Len(claimed),
         release_claims(SubSeq(claimed, 1, count))
  PROVE  /\ DictTypeOK' /\ RangeInFlight'
         /\ claimed' = SubSeq(claimed, count + 1, Len(claimed))
         /\ \A p : Outstanding(p)
                     = Outstanding(p)' + Occurrences(SubSeq(claimed, 1, count), p)
<1> DEFINE front == SubSeq(claimed, 1, count)
<1>1. /\ claimed \in Seq(Paths) /\ Len(claimed) \in Nat
      /\ \A i \in 1 .. Len(claimed) : claimed[i] \in Paths
  BY LenProperties, ElementOfSeq DEF DictTypeOK
<1>2. front \in Seq(Paths) /\ Len(front) = count
  BY <1>1, SubSeqProperties
<1>3. IsPrefix(front, claimed)
  <2>1. SubSeq(front, 1, Len(front)) = front
    BY <1>2, SubSeqFull
  <2> QED
    BY <1>1, <1>2, <2>1 DEF IsPrefix
<1>4. claimed' = SubSeq(claimed, count + 1, Len(claimed))
  BY <1>2, <1>3 DEF release_claims
<1>5. UNCHANGED <<native, index, extra, extraIndex, extraMembership, nativeClaim>>
  BY DEF release_claims
<1>6. claimed' \in Seq(Paths) /\ \A p : Occurrences(claimed', p) \in Nat
  BY <1>1, <1>4, PendingType
<1>7. DictTypeOK' /\ RangeInFlight'
  BY <1>5, <1>6 DEF DictTypeOK, RangeInFlight
<1>8. /\ NativeOutstanding' = NativeOutstanding
      /\ PendingExtra' = PendingExtra /\ PendingItems' = PendingItems
  BY <1>5 DEF NativeOutstanding, PendingExtra, PendingItems
<1>9. \A p : Occurrences(claimed, p) = Occurrences(front, p) + Occurrences(claimed', p)
  <2>1. TAKE p
  <2>2. 1 \in 1 .. Len(claimed) + 1 /\ count \in 1 - 1 .. Len(claimed)
        /\ Len(claimed) \in count .. Len(claimed)
    BY <1>1
  <2>3. Occurrences(SubSeq(claimed, 1, Len(claimed)), p)
          = Occurrences(front, p) + Occurrences(SubSeq(claimed, count + 1, Len(claimed)), p)
    BY <1>1, <2>2, OccurrencesSplit
  <2> QED
    BY <1>1, <1>4, <2>3, SubSeqFull
<1>10. \A p : /\ Occurrences(NativeOutstanding, p) \in Nat
              /\ Occurrences(PendingExtra, p) \in Nat
              /\ Occurrences(PendingItems, p) \in Nat
  BY QueueParts
<1>11. \A p : Occurrences(front, p) \in Nat
  BY <1>2, OccurrencesType
<1> HIDE DEF front
<1>12. \A p : Outstanding(p) = Outstanding(p)' + Occurrences(front, p)
  BY <1>6, <1>8, <1>9, <1>10, <1>11 DEF Outstanding
<1> QED
  BY <1>4, <1>7, <1>12 DEF front

\* The first count entries of a range, and how they split its occurrences.
LEMMA RangeCut ==
  ASSUME NEW S, NEW s \in Seq(S), NEW from \in Nat, NEW to \in 0 .. Len(s),
         NEW count \in Nat, count > 0, from + count <= to
  PROVE  /\ SubSeq(SubSeq(s, from + 1, to), 1, count) = SubSeq(s, from + 1, from + count)
         /\ \A p : Occurrences(SubSeq(s, from + 1, to), p)
                     = Occurrences(SubSeq(SubSeq(s, from + 1, to), 1, count), p)
                         + Occurrences(SubSeq(s, from + count + 1, to), p)
<1>1. Len(s) \in Nat /\ \A i \in 1 .. Len(s) : s[i] \in S
  BY LenProperties, ElementOfSeq
<1> DEFINE range == SubSeq(s, from + 1, to)
           head == SubSeq(s, from + 1, from + count)
<1>2. /\ range \in Seq(S) /\ Len(range) = to - from
      /\ \A i \in 1 .. to - from : range[i] = s[from + i]
  <2>1. /\ from + 1 \in Int /\ to \in Int /\ from + 1 <= to
        /\ \A i \in from + 1 .. to : s[i] \in S
        /\ to - (from + 1) + 1 = to - from
        /\ \A i \in Int : (from + 1) + i - 1 = from + i
    BY <1>1
  <2>2. range \in Seq(S)
    BY <2>1, SubSeqProperties
  <2>3. Len(range) = to - (from + 1) + 1
    BY <2>1, SubSeqProperties
  <2>4. \A i \in 1 .. to - (from + 1) + 1 : range[i] = s[(from + 1) + i - 1]
    BY <2>1, SubSeqProperties
  <2> HIDE DEF range
  <2>5. Len(range) = to - from
    BY <2>1, <2>3
  <2>6. \A i \in 1 .. to - from : range[i] = s[from + i]
    <3> TAKE i \in 1 .. to - from
    <3>1. i \in Int /\ i \in 1 .. to - (from + 1) + 1
      BY <2>1
    <3>2. (from + 1) + i - 1 = from + i
      BY <2>1, <3>1
    <3>3. range[i] = s[(from + 1) + i - 1]
      BY <2>4, <3>1
    <3> QED
      BY <3>2, <3>3
  <2> QED
    BY <2>2, <2>5, <2>6
<1>3. /\ head \in Seq(S) /\ Len(head) = count
      /\ \A i \in 1 .. count : head[i] = s[from + i]
  <2>1. /\ from + 1 \in Int /\ from + count \in Int /\ from + 1 <= from + count
        /\ \A i \in from + 1 .. from + count : s[i] \in S
        /\ (from + count) - (from + 1) + 1 = count
        /\ \A i \in Int : (from + 1) + i - 1 = from + i
    BY <1>1
  <2> QED
    BY <2>1, SubSeqProperties
<1>4. /\ SubSeq(range, 1, count) \in Seq(S) /\ Len(SubSeq(range, 1, count)) = count
      /\ \A i \in 1 .. count : SubSeq(range, 1, count)[i] = range[i]
  <2> HIDE DEF range
  <2>1. /\ \A i \in 1 .. Len(range) : range[i] \in S
    BY <1>2, ElementOfSeq
  <2>2. \A i \in 1 .. count : range[i] \in S
    BY <1>1, <1>2, <2>1
  <2>3. /\ 1 \in Int /\ count \in Int /\ 1 <= count /\ count - 1 + 1 = count
        /\ \A i \in Int : 1 + i - 1 = i
    OBVIOUS
  <2> QED
    BY <2>2, <2>3, SubSeqProperties
<1>5. SubSeq(range, 1, count) = head
  <2> HIDE DEF range, head
  <2>1. \A i \in 1 .. count : i \in 1 .. to - from
    BY <1>1
  <2>2. \A i \in 1 .. count : SubSeq(range, 1, count)[i] = head[i]
    BY <1>2, <1>3, <1>4, <2>1
  <2> QED
    BY <1>3, <1>4, <2>2, SeqEqual
<1>6. /\ from + count \in Nat /\ to \in Nat
      /\ from <= from + count /\ to <= Len(s)
  BY <1>1
<1>7. \A p : Occurrences(range, p)
               = Occurrences(head, p) + Occurrences(SubSeq(s, from + count + 1, to), p)
  BY <1>6, OccurrencesCut
<1> QED
  BY <1>5, <1>7

\* Releasing a prefix of the native range settles exactly that prefix.
LEMMA ReleaseRangeOutstanding ==
  ASSUME DictTypeOK, RangeInFlight, NEW count \in Nat, release_native_claims(count)
  PROVE  /\ DictTypeOK' /\ RangeInFlight'
         /\ \A p : Outstanding(p)
                     = Outstanding(p)' + Occurrences(SubSeq(NativeOutstanding, 1, count), p)
<1> DEFINE from == nativeClaim.start + nativeClaim.released
           to == nativeClaim.start + nativeClaim.size
           front == SubSeq(NativeOutstanding, 1, count)
           rest == SubSeq(Wordlist, from + count + 1, to)
<1>1. /\ Wordlist \in Seq(Paths) /\ Len(Wordlist) \in Nat
      /\ \A i \in 1 .. Len(Wordlist) : Wordlist[i] \in Paths
      /\ index \in 0 .. Len(Wordlist)
      /\ nativeClaim \in NativeClaims
  BY DictionaryAssumption, LenProperties, ElementOfSeq DEF DictTypeOK
<1>2. /\ count > 0 /\ nativeClaim.released + count <= nativeClaim.size
      /\ nativeClaim.size > 0
  BY DEF release_native_claims, NativeClaimActive
<1>3. /\ nativeClaim.start \in Nat /\ nativeClaim.size \in Nat /\ nativeClaim.released \in Nat
  BY <1>1 DEF NativeClaims
<1>4. nativeClaim.released < nativeClaim.size /\ to = index
  BY <1>2 DEF RangeInFlight, NoClaim
<1>5. /\ from \in Nat /\ to \in 0 .. Len(Wordlist) /\ from + count <= to
  <2>1. to \in 0 .. Len(Wordlist)
    BY <1>1, <1>4
  <2>2. from \in Nat /\ from + count <= to
    BY <1>2, <1>3
  <2> QED
    BY <2>1, <2>2
<1>6. NativeOutstanding = SubSeq(Wordlist, from + 1, to)
  BY DEF NativeOutstanding
<1>7. UNCHANGED <<native, index, extra, extraIndex, extraMembership, claimed>>
  BY DEF release_native_claims
<1>8. DictTypeOK' /\ RangeInFlight'
  <2>1. CASE nativeClaim.released + count = nativeClaim.size
    <3>1. nativeClaim' = NoClaim
      BY <2>1 DEF release_native_claims
    <3>2. nativeClaim' \in NativeClaims
      BY <3>1 DEF NativeClaims, NoClaim
    <3> QED
      BY <1>7, <3>1, <3>2 DEF DictTypeOK, RangeInFlight
  <2>2. CASE nativeClaim.released + count # nativeClaim.size
    <3>1. nativeClaim' = [nativeClaim EXCEPT !.released = @ + count]
      BY <2>2 DEF release_native_claims
    <3>2. nativeClaim' \in NativeClaims
      BY <1>1, <3>1 DEF NativeClaims
    <3>3. nativeClaim'.released < nativeClaim'.size
          /\ nativeClaim'.start + nativeClaim'.size = index'
      <4>1. /\ nativeClaim'.start = nativeClaim.start /\ nativeClaim'.size = nativeClaim.size
            /\ nativeClaim'.released = nativeClaim.released + count
        BY <1>1, <3>1 DEF NativeClaims
      <4> QED
        BY <1>1, <1>2, <1>3, <1>4, <1>7, <2>2, <4>1 DEF NativeClaims
    <3> QED
      BY <1>7, <3>2, <3>3 DEF DictTypeOK, RangeInFlight
  <2> QED
    BY <2>1, <2>2
<1>9. NativeOutstanding' = rest
  <2>1. CASE nativeClaim.released + count = nativeClaim.size
    <3>1. nativeClaim' = NoClaim
      BY <2>1 DEF release_native_claims
    <3>2. NativeOutstanding' = <<>>
      BY <3>1, SubSeqEmpty DEF NativeOutstanding, NoClaim
    <3>3. to < from + count + 1 /\ to \in Int /\ from + count + 1 \in Int
      <4>1. /\ nativeClaim.start \in Nat /\ nativeClaim.size \in Nat
            /\ nativeClaim.released \in Nat /\ count \in Nat
        BY <1>3
      <4> QED
        BY <2>1, <4>1
    <3>4. rest = <<>>
      BY <3>3, SubSeqEmpty
    <3> QED
      BY <3>2, <3>4
  <2>2. CASE nativeClaim.released + count # nativeClaim.size
    <3>1. nativeClaim' = [nativeClaim EXCEPT !.released = @ + count]
      BY <2>2 DEF release_native_claims
    <3>2. /\ nativeClaim'.start + nativeClaim'.released + 1 = from + count + 1
          /\ nativeClaim'.start + nativeClaim'.size = to
      BY <1>1, <1>3, <3>1 DEF NativeClaims
    <3> QED
      BY <3>2 DEF NativeOutstanding
  <2> QED
    BY <2>1, <2>2
<1>10. front = SubSeq(Wordlist, from + 1, from + count)
  <2> HIDE DEF from, to
  <2> QED
    BY <1>1, <1>2, <1>5, <1>6, RangeCut
<1>11. \A p : Occurrences(NativeOutstanding, p) = Occurrences(front, p) + Occurrences(rest, p)
  <2> HIDE DEF from, to
  <2> HIDE DEF front, rest
  <2>1. /\ Wordlist \in Seq(Paths) /\ from \in Nat /\ to \in 0 .. Len(Wordlist)
        /\ count \in Nat /\ count > 0 /\ from + count <= to
    BY <1>1, <1>2, <1>5
  <2>2. \A p : Occurrences(SubSeq(Wordlist, from + 1, to), p)
                 = Occurrences(SubSeq(SubSeq(Wordlist, from + 1, to), 1, count), p)
                     + Occurrences(SubSeq(Wordlist, from + count + 1, to), p)
    BY <2>1, RangeCut
  <2> QED
    BY <1>6, <2>2 DEF front, rest
<1>12. front \in Seq(Paths) /\ rest \in Seq(Paths)
  <2>1. /\ \A i \in from + 1 .. from + count : Wordlist[i] \in Paths
        /\ \A i \in from + count + 1 .. to : Wordlist[i] \in Paths
        /\ from + 1 \in Int /\ from + count \in Int /\ from + count + 1 \in Int /\ to \in Int
    BY <1>1, <1>2, <1>5
  <2> HIDE DEF from, to, front
  <2> QED
    BY <1>10, <2>1, SubSeqProperties
<1>13. \A p : Occurrences(front, p) \in Nat /\ Occurrences(rest, p) \in Nat
  BY <1>12, OccurrencesType
<1>14. \A p : /\ Occurrences(claimed, p) \in Nat
              /\ Occurrences(PendingExtra, p) \in Nat
              /\ Occurrences(PendingItems, p) \in Nat
  BY QueueParts
<1>15. PendingExtra' = PendingExtra /\ PendingItems' = PendingItems
  BY <1>7 DEF PendingExtra, PendingItems
<1> HIDE DEF from, to, front, rest
<1>16. \A p : Outstanding(p) = Outstanding(p)' + Occurrences(front, p)
  BY <1>7, <1>9, <1>11, <1>13, <1>14, <1>15 DEF Outstanding
<1> QED
  BY <1>8, <1>16 DEF front

\* What follows s in s \o t is t.
LEMMA SuffixOfConcat ==
  ASSUME NEW S, NEW s \in Seq(S), NEW t \in Seq(S)
  PROVE  /\ s \o t \in Seq(S)
         /\ Len(s \o t) = Len(s) + Len(t)
         /\ SubSeq(s \o t, Len(s) + 1, Len(s \o t)) = t
<1>1. Len(s) \in Nat /\ Len(t) \in Nat
  BY LenProperties
<1>2. /\ s \o t \in Seq(S) /\ Len(s \o t) = Len(s) + Len(t)
      /\ \A i \in 1 .. Len(s) + Len(t) :
           (s \o t)[i] = IF i <= Len(s) THEN s[i] ELSE t[i - Len(s)]
  BY ConcatProperties
<1> DEFINE u == s \o t
           tail == SubSeq(u, Len(s) + 1, Len(s) + Len(t))
<1>3. \A i \in Len(s) + 1 .. Len(s) + Len(t) : u[i] \in S
  BY <1>1, <1>2, ElementOfSeq
<1>4. /\ tail \in Seq(S) /\ Len(tail) = Len(t)
      /\ \A i \in 1 .. Len(t) : tail[i] = u[Len(s) + i]
  <2> HIDE DEF u
  <2>1. /\ Len(s) + 1 \in Int /\ Len(s) + Len(t) \in Int
        /\ Len(s) + Len(t) - (Len(s) + 1) + 1 = Len(t)
        /\ Len(s) + 1 <= Len(s) + Len(t) <=> Len(t) # 0
        /\ \A i \in Int : Len(s) + 1 + i - 1 = Len(s) + i
    BY <1>1
  <2> QED
    BY <1>1, <1>3, <2>1, SubSeqProperties
<1>5. \A i \in 1 .. Len(t) : u[Len(s) + i] = t[i]
  BY <1>1, <1>2
<1>6. tail = t
  <2> HIDE DEF tail, u
  <2> QED
    BY <1>4, <1>5, SeqEqual
<1> QED
  BY <1>2, <1>6

\* A snapshot owes exactly what the queue owes: its claims are queued again.
LEMMA GetstateOutstanding ==
  ASSUME DictTypeOK, RangeInFlight
  PROVE  /\ SavedStateOK(getstate)
         /\ \A p : StateOutstanding(getstate, p) = Outstanding(p)
<1> DEFINE front == SubSeq(extra, 1, extraIndex)
           rest == claimed \o PendingExtra
<1>1. /\ Wordlist \in Seq(Paths) /\ extra \in Seq(Paths) /\ claimed \in Seq(Paths)
      /\ Len(Wordlist) \in Nat /\ Len(extra) \in Nat
      /\ index \in 0 .. Len(Wordlist) /\ extraIndex \in 0 .. Len(extra)
      /\ nativeClaim \in NativeClaims
      /\ \A i \in 1 .. Len(extra) : extra[i] \in Paths
  BY DictionaryAssumption, LenProperties, ElementOfSeq DEF DictTypeOK
<1>2. front \in Seq(Paths) /\ Len(front) = extraIndex
  BY <1>1, SubSeqProperties
<1>3. /\ PendingExtra \in Seq(Paths)
      /\ \A p : /\ Occurrences(claimed, p) \in Nat
                /\ Occurrences(PendingExtra, p) \in Nat
                /\ Occurrences(PendingItems, p) \in Nat
                /\ Occurrences(NativeOutstanding, p) \in Nat
  BY QueueParts
<1>4. /\ rest \in Seq(Paths)
      /\ \A p : Occurrences(rest, p) = Occurrences(claimed, p) + Occurrences(PendingExtra, p)
  BY <1>1, <1>3, ConcatProperties, OccurrencesConcat
<1>5. /\ getstate.extra = front \o rest
      /\ getstate.extraIndex = extraIndex
      /\ getstate.index = IF NativeClaimActive
                            THEN nativeClaim.start + nativeClaim.released ELSE index
  BY DEF getstate
<1>6. /\ front \o rest \in Seq(Paths)
      /\ Len(front \o rest) = extraIndex + Len(rest)
      /\ SubSeq(front \o rest, extraIndex + 1, Len(front \o rest)) = rest
  <2> HIDE DEF front, rest
  <2> QED
    BY <1>2, <1>4, SuffixOfConcat
<1>7. Len(rest) \in Nat
  BY <1>4, LenProperties
<1>8. /\ getstate.index \in 0 .. Len(Wordlist)
      /\ \A p : Occurrences(SubSeq(Wordlist, getstate.index + 1, Len(Wordlist)), p)
                  = Occurrences(NativeOutstanding, p) + Occurrences(PendingItems, p)
  <2>1. CASE nativeClaim = NoClaim
    <3>1. getstate.index = index
      BY <1>5, <2>1 DEF NativeClaimActive, NoClaim
    <3>2. NativeOutstanding = <<>>
      BY <2>1, SubSeqEmpty DEF NativeOutstanding, NoClaim
    <3> QED
      BY <1>1, <1>3, <3>1, <3>2, OccurrencesEmpty DEF PendingItems
  <2>2. CASE nativeClaim # NoClaim
    <3> DEFINE from == nativeClaim.start + nativeClaim.released
               size == nativeClaim.start + nativeClaim.size
    <3>1. /\ nativeClaim.start \in Nat /\ nativeClaim.size \in Nat
          /\ nativeClaim.released \in Nat
          /\ nativeClaim.released < nativeClaim.size /\ size = index
      BY <1>1, <2>2 DEF RangeInFlight, NativeClaims
    <3>2. getstate.index = from
      BY <1>5, <3>1 DEF NativeClaimActive
    <3>3. from \in Nat /\ from < index
      BY <1>1, <3>1
    <3>4. NativeOutstanding = SubSeq(Wordlist, from + 1, index)
      BY <3>1 DEF NativeOutstanding
    <3>5. index \in Nat /\ from <= index /\ index <= Len(Wordlist) /\ Len(Wordlist) <= Len(Wordlist)
      BY <1>1, <3>3
    <3> HIDE DEF from, size
    <3>6. \A p : Occurrences(SubSeq(Wordlist, from + 1, Len(Wordlist)), p)
                   = Occurrences(SubSeq(Wordlist, from + 1, index), p)
                       + Occurrences(SubSeq(Wordlist, index + 1, Len(Wordlist)), p)
      BY <1>1, <3>3, <3>5, OccurrencesCut
    <3> QED
      BY <1>1, <3>2, <3>3, <3>4, <3>6 DEF PendingItems
  <2> QED
    BY <2>1, <2>2
<1>9. SavedStateOK(getstate)
  <2> HIDE DEF front, rest
  <2>1. getstate \in DictStates
    <3>1. /\ getstate.index \in Nat /\ getstate.extra \in Seq(Paths)
          /\ getstate.extraIndex \in Nat
      BY <1>1, <1>5, <1>6, <1>8
    <3>2. getstate = [index |-> getstate.index, extra |-> getstate.extra,
                      extraIndex |-> getstate.extraIndex]
      BY DEF getstate
    <3> QED
      BY <3>1, <3>2 DEF DictStates
  <2>2. extraIndex \in 0 .. extraIndex + Len(rest)
    BY <1>1, <1>7
  <2> QED
    BY <1>5, <1>6, <1>8, <2>1, <2>2 DEF SavedStateOK
<1>10. \A p : StateOutstanding(getstate, p)
               = Occurrences(rest, p)
                   + (Occurrences(NativeOutstanding, p) + Occurrences(PendingItems, p))
  <2> HIDE DEF front, rest
  <2> QED
    BY <1>5, <1>6, <1>8 DEF StateOutstanding
<1> HIDE DEF front, rest
<1>11. \A p : StateOutstanding(getstate, p) = Outstanding(p)
  BY <1>3, <1>4, <1>10 DEF Outstanding
<1> QED
  BY <1>9, <1>11

\* A queue set from a state, with no claim, owes what the state owes.
LEMMA FromStateOutstanding ==
  ASSUME NEW state, SavedStateOK(state),
         native' \in BOOLEAN, extraMembership' \in SUBSET Paths,
         index' = state.index, extra' = state.extra, extraIndex' = state.extraIndex,
         claimed' = <<>>, nativeClaim' = NoClaim
  PROVE  /\ DictTypeOK' /\ RangeInFlight'
         /\ \A p : Outstanding(p)' = StateOutstanding(state, p)
<1>1. DictTypeOK' /\ RangeInFlight'
  BY DEF DictTypeOK, RangeInFlight, SavedStateOK, DictStates, NativeClaims, NoClaim
<1>2. NativeOutstanding' = <<>>
  BY SubSeqEmpty DEF NativeOutstanding, NoClaim
<1>3. /\ PendingExtra' = SubSeq(state.extra, state.extraIndex + 1, Len(state.extra))
      /\ PendingItems' = SubSeq(Wordlist, state.index + 1, Len(Wordlist))
  BY DEF PendingExtra, PendingItems
<1>4. \A p : Occurrences(PendingExtra', p) \in Nat /\ Occurrences(PendingItems', p) \in Nat
  BY <1>1, PendingType, DictionaryAssumption DEF DictTypeOK, PendingExtra, PendingItems
<1>5. \A p : Occurrences(claimed', p) = 0 /\ Occurrences(NativeOutstanding', p) = 0
  BY <1>2, OccurrencesEmpty
<1>6. \A p : Outstanding(p)' = StateOutstanding(state, p)
  BY <1>3, <1>4, <1>5 DEF Outstanding, StateOutstanding
<1> QED
  BY <1>1, <1>6

\* QueueParts, of the state after a step.
LEMMA QueuePartsNext ==
  ASSUME DictTypeOK', RangeInFlight'
  PROVE  \A p : Outstanding(p)' \in Nat
<1>1. /\ Wordlist \in Seq(Paths) /\ Len(Wordlist) \in Nat
      /\ \A i \in 1 .. Len(Wordlist) : Wordlist[i] \in Paths
      /\ extra' \in Seq(Paths) /\ claimed' \in Seq(Paths)
      /\ index' \in 0 .. Len(Wordlist) /\ extraIndex' \in 0 .. Len(extra')
      /\ nativeClaim' \in NativeClaims
  BY DictionaryAssumption, LenProperties, ElementOfSeq DEF DictTypeOK
<1>2. \A p : /\ Occurrences(PendingExtra', p) \in Nat
             /\ Occurrences(PendingItems', p) \in Nat
             /\ Occurrences(claimed', p) \in Nat
  BY <1>1, PendingType, OccurrencesType DEF PendingExtra, PendingItems
<1>3. NativeOutstanding' \in Seq(Paths)
  <2> DEFINE from == nativeClaim'.start + nativeClaim'.released
             to == nativeClaim'.start + nativeClaim'.size
  <2>1. from \in Nat /\ to \in 0 .. Len(Wordlist)
    <3>1. /\ nativeClaim'.start \in Nat /\ nativeClaim'.released \in Nat
          /\ nativeClaim'.size \in Nat
      BY <1>1 DEF NativeClaims
    <3>2. to = 0 \/ to = index'
      BY <3>1 DEF RangeInFlight, NoClaim
    <3> QED
      BY <1>1, <3>1, <3>2
  <2>2. NativeOutstanding' = SubSeq(Wordlist, from + 1, to)
    BY DEF NativeOutstanding
  <2> HIDE DEF from, to
  <2>3. \A i \in from + 1 .. to : Wordlist[i] \in Paths
    BY <1>1, <2>1
  <2>4. SubSeq(Wordlist, from + 1, to) \in Seq(Paths)
    BY <1>1, <2>1, <2>3, SubSeqProperties
  <2> QED
    BY <2>2, <2>4
<1>4. \A p : Occurrences(NativeOutstanding', p) \in Nat
  BY <1>3, OccurrencesType
<1> QED
  BY <1>2, <1>4 DEF Outstanding

\* requeue_claims changes where paths wait, not which are owed.
LEMMA RequeueOutstanding ==
  ASSUME DictTypeOK, RangeInFlight, requeue_claims
  PROVE  /\ DictTypeOK' /\ RangeInFlight'
         /\ \A p : Outstanding(p)' = Outstanding(p)
<1>1. SavedStateOK(getstate) /\ \A p : StateOutstanding(getstate, p) = Outstanding(p)
  BY GetstateOutstanding
<1>2. /\ native' \in BOOLEAN /\ extraMembership' \in SUBSET Paths
      /\ index' = getstate.index /\ extra' = getstate.extra
      /\ extraIndex' = getstate.extraIndex
      /\ claimed' = <<>> /\ nativeClaim' = NoClaim
  BY DEF requeue_claims, getstate, DictTypeOK
<1>3. DictTypeOK' /\ RangeInFlight' /\ \A p : Outstanding(p)' = StateOutstanding(getstate, p)
  BY <1>1, <1>2, FromStateOutstanding
<1> QED
  BY <1>1, <1>3

\* reset owes the whole wordlist again and nothing else.
LEMMA ResetOutstanding ==
  ASSUME DictTypeOK, reset
  PROVE  /\ DictTypeOK' /\ RangeInFlight'
         /\ \A p : Outstanding(p)' = Occurrences(Wordlist, p)
<1> DEFINE fresh == [index |-> 0, extra |-> <<>>, extraIndex |-> 0]
<1>1. Wordlist \in Seq(Paths) /\ Len(Wordlist) \in Nat /\ \A p : Occurrences(Wordlist, p) \in Nat
  BY DictionaryAssumption, LenProperties, OccurrencesType
<1>2. SavedStateOK(fresh)
  BY <1>1 DEF SavedStateOK, DictStates
<1>3. DictTypeOK' /\ RangeInFlight' /\ \A p : Outstanding(p)' = StateOutstanding(fresh, p)
  BY <1>2, FromStateOutstanding DEF reset, DictTypeOK
<1>4. SubSeq(Wordlist, 0 + 1, Len(Wordlist)) = Wordlist /\ SubSeq(<<>>, 0 + 1, Len(<<>>)) = <<>>
  BY <1>1, SubSeqFull, SubSeqEmpty
<1>5. \A p : StateOutstanding(fresh, p) = Occurrences(Wordlist, p)
  <2>1. fresh.index = 0 /\ fresh.extra = <<>> /\ fresh.extraIndex = 0
    OBVIOUS
  <2> HIDE DEF fresh
  <2>2. \A p : StateOutstanding(fresh, p) = Occurrences(<<>>, p) + Occurrences(Wordlist, p)
    BY <1>4, <2>1 DEF StateOutstanding
  <2> QED
    BY <1>1, <2>2, OccurrencesEmpty
<1> QED
  BY <1>3, <1>5

\* Appending to a queue adds one occurrence to its pending part.
LEMMA PendingAppend ==
  ASSUME NEW S, NEW s \in Seq(S), NEW q \in S, NEW k \in 0 .. Len(s), NEW p
  PROVE  Occurrences(SubSeq(Append(s, q), k + 1, Len(Append(s, q))), p)
           = Occurrences(SubSeq(s, k + 1, Len(s)), p) + (IF q = p THEN 1 ELSE 0)
<1> DEFINE t == Append(s, q)
           n == Len(s)
<1>1. /\ n \in Nat /\ t \in Seq(S) /\ Len(t) = n + 1 /\ t[n + 1] = q
      /\ \A i \in 1 .. n : t[i] = s[i]
      /\ \A i \in 1 .. n : s[i] \in S
  BY LenProperties, AppendProperties, ElementOfSeq
<1> HIDE DEF t, n
<1>2. /\ k + 1 \in 1 .. Len(t) + 1 /\ n \in k + 1 - 1 .. Len(t) /\ n + 1 \in n .. Len(t)
  BY <1>1 DEF n
<1>3. Occurrences(SubSeq(t, k + 1, n + 1), p)
        = Occurrences(SubSeq(t, k + 1, n), p) + Occurrences(SubSeq(t, n + 1, n + 1), p)
  BY <1>1, <1>2, OccurrencesSplit
<1>4. SubSeq(t, k + 1, n) = SubSeq(s, k + 1, n)
  <2>1. /\ k \in Nat /\ k + 1 \in Int /\ n \in Int /\ n - (k + 1) + 1 = n - k
        /\ \A i \in k + 1 .. n : t[i] = s[i] /\ t[i] \in S /\ s[i] \in S
        /\ \A i \in 1 .. n - k : k + 1 + i - 1 \in k + 1 .. n
    BY <1>1 DEF n
  <2>2. /\ SubSeq(t, k + 1, n) \in Seq(S) /\ SubSeq(s, k + 1, n) \in Seq(S)
        /\ Len(SubSeq(t, k + 1, n)) = IF k + 1 <= n THEN n - k ELSE 0
        /\ Len(SubSeq(s, k + 1, n)) = IF k + 1 <= n THEN n - k ELSE 0
        /\ \A i \in 1 .. n - k : /\ SubSeq(t, k + 1, n)[i] = t[k + 1 + i - 1]
                                 /\ SubSeq(s, k + 1, n)[i] = s[k + 1 + i - 1]
    BY <2>1, SubSeqProperties
  <2>3. \A i \in 1 .. Len(SubSeq(t, k + 1, n)) : i \in 1 .. n - k
    BY <2>1, <2>2
  <2> QED
    BY <2>1, <2>2, <2>3, SeqEqual
<1>5. SubSeq(t, n + 1, n + 1) = <<q>>
  <2>1. n + 1 \in 1 .. Len(t) /\ n + 1 \in n + 1 .. Len(t) /\ n + 1 < n + 1 + 1
        /\ n + 1 \in Int /\ n + 1 + 1 \in Int
    BY <1>1
  <2>2. SubSeq(t, n + 1, n + 1) = <<t[n + 1]>> \o SubSeq(t, n + 1 + 1, n + 1)
    BY <1>1, <2>1, SubSeqRecursiveFirst
  <2>3. SubSeq(t, n + 1 + 1, n + 1) = <<>>
    BY <2>1, SubSeqEmpty
  <2>4. <<q>> \o <<>> = <<q>>
    OBVIOUS
  <2> QED
    BY <1>1, <2>2, <2>3, <2>4
<1>6. Occurrences(SubSeq(t, k + 1, Len(t)), p)
        = Occurrences(SubSeq(s, k + 1, n), p) + (IF q = p THEN 1 ELSE 0)
  <2>1. Occurrences(SubSeq(t, n + 1, n + 1), p) = IF q = p THEN 1 ELSE 0
    <3>1. Occurrences(<<q>>, p) = IF q = p THEN 1 ELSE 0
      BY OccurrencesSingleton
    <3>2. Occurrences(SubSeq(t, n + 1, n + 1), p) = Occurrences(<<q>>, p)
      BY <1>5, Zenon
    <3> QED
      BY <3>1, <3>2
  <2> QED
    BY <1>1, <1>3, <1>4, <2>1
<1> QED
  BY <1>6 DEF t, n

\* add_extra owes one more scan of an accepted path, and nothing otherwise.
LEMMA AddExtraOutstanding ==
  ASSUME DictTypeOK, RangeInFlight, NEW q, add_extra(q)
  PROVE  /\ DictTypeOK' /\ RangeInFlight'
         /\ \A p : Outstanding(p)'
                     = Outstanding(p) + (IF Accepts(q) /\ q = p THEN 1 ELSE 0)
<1>1. UNCHANGED <<native, index, extraIndex, claimed, nativeClaim>>
  BY DEF add_extra
<1>2. PendingItems' = PendingItems /\ NativeOutstanding' = NativeOutstanding
  BY <1>1 DEF PendingItems, NativeOutstanding
<1>3. \A p : /\ Occurrences(claimed, p) \in Nat
             /\ Occurrences(PendingExtra, p) \in Nat
             /\ Occurrences(PendingItems, p) \in Nat
             /\ Occurrences(NativeOutstanding, p) \in Nat
  BY QueueParts
<1>4. CASE Accepts(q)
  <2>1. extra' = Append(extra, q) /\ extraMembership' = extraMembership \cup {q}
    BY <1>4 DEF add_extra
  <2>2. q \in Paths
    BY <1>4, DictionaryAssumption DEF Accepts
  <2>3. extra \in Seq(Paths) /\ extraIndex \in 0 .. Len(extra) /\ Len(extra) \in Nat
    BY LenProperties DEF DictTypeOK
  <2>4. extra' \in Seq(Paths) /\ Len(extra') = Len(extra) + 1
    BY <2>1, <2>2, <2>3, AppendProperties
  <2>5. DictTypeOK' /\ RangeInFlight'
    BY <1>1, <2>1, <2>2, <2>3, <2>4 DEF DictTypeOK, RangeInFlight
  <2>6. \A p : Occurrences(PendingExtra', p)
                 = Occurrences(PendingExtra, p) + (IF q = p THEN 1 ELSE 0)
    BY <1>1, <2>1, <2>2, <2>3, PendingAppend DEF PendingExtra
  <2>7. \A p : Outstanding(p)' = Outstanding(p) + (IF q = p THEN 1 ELSE 0)
    BY <1>1, <1>2, <1>3, <2>6 DEF Outstanding
  <2> QED
    BY <1>4, <2>5, <2>7
<1>5. CASE ~Accepts(q)
  <2>1. UNCHANGED <<extra, extraMembership>>
    BY <1>5 DEF add_extra
  <2>2. PendingExtra' = PendingExtra
    BY <1>1, <2>1 DEF PendingExtra
  <2>3. DictTypeOK' /\ RangeInFlight'
    BY <1>1, <2>1 DEF DictTypeOK, RangeInFlight
  <2>4. \A p : Outstanding(p)' = Outstanding(p) /\ Outstanding(p) \in Nat
    BY <1>1, <1>2, <1>3, <2>2 DEF Outstanding
  <2> QED
    BY <1>5, <2>3, <2>4
<1> QED
  BY <1>4, <1>5

=============================================================================
