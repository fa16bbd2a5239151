-------------------------- MODULE NativeEngineProofs --------------------------
(***************************************************************************)
(* Proofs about the two parts of the native engine, each in a half of this *)
(* module.                                                                 *)
(*                                                                         *)
(* ResultChunks: the callback sees exactly the actionable results of the   *)
(* delivered prefix, in request order, and a call of the engine implements *)
(* the contract EngineCall states, for any number of workers, paths and    *)
(* any chunk size.                                                         *)
(*                                                                         *)
(* WordlistGeneration: the paths generated are the wordlist's lines under  *)
(* every choice of extensions and template values, each path once, and     *)
(* the two backends agree, for any lines, templates and configuration.     *)
(***************************************************************************)
EXTENDS WordlistGeneration, ResultChunks, SequenceTheorems, FiniteSetTheorems,
        NaturalsInduction, WellFoundedInduction, TLAPS

-----------------------------------------------------------------------------
(* Ascending queues                                                        *)

\* A nonempty set of naturals has a least element.
LEMMA LeastIndex ==
  ASSUME NEW T \in SUBSET Nat, T # {}
  PROVE  \E x \in T : \A y \in T : ~(y < x)
<1> DEFINE R == {ss \in Nat \X Nat : ss[1] < ss[2]}
<1>1. IsWellFoundedOn(R, Nat)
  BY NatLessThanWellFounded, Zenon DEF OpToRel
<1>2. \E x \in T : \A y \in T : ~(<<y, x>> \in R)
  <2> HIDE DEF R
  <2> QED
    BY <1>1, WFMin, Zenon
<1> QED
  BY <1>2

\* The elements of a queue, by position.
LEMMA ToSetByPosition ==
  ASSUME NEW q \in Seq(Nat)
  PROVE  /\ Len(q) \in Nat /\ DOMAIN q = 1 .. Len(q)
         /\ \A i \in 1 .. Len(q) : q[i] \in Nat
         /\ ToSet(q) = {q[i] : i \in 1 .. Len(q)}
<1>1. Len(q) \in Nat /\ DOMAIN q = 1 .. Len(q)
  BY LenProperties
<1>2. \A i \in 1 .. Len(q) : q[i] \in Nat
  BY ElementOfSeq
<1> QED
  BY <1>1, <1>2 DEF ToSet

\* Two queues, the first below the second, join into one.
LEMMA AscendingConcat ==
  ASSUME NEW s \in Seq(Nat), NEW t \in Seq(Nat), Ascending(s), Ascending(t),
         \A x \in ToSet(s), y \in ToSet(t) : x < y
  PROVE  s \o t \in Seq(Nat) /\ Ascending(s \o t) /\ ToSet(s \o t) = ToSet(s) \cup ToSet(t)
<1> DEFINE r == s \o t
<1>1. /\ r \in Seq(Nat) /\ Len(r) = Len(s) + Len(t)
      /\ \A i \in 1 .. Len(s) + Len(t) : r[i] = IF i <= Len(s) THEN s[i] ELSE t[i - Len(s)]
  BY ConcatProperties
<1>2. /\ Len(s) \in Nat /\ DOMAIN s = 1 .. Len(s) /\ ToSet(s) = {s[i] : i \in 1 .. Len(s)}
      /\ Len(t) \in Nat /\ DOMAIN t = 1 .. Len(t) /\ ToSet(t) = {t[i] : i \in 1 .. Len(t)}
      /\ \A i \in 1 .. Len(s) : s[i] \in Nat
      /\ \A i \in 1 .. Len(t) : t[i] \in Nat
  BY ToSetByPosition
<1> HIDE DEF r
<1>3. DOMAIN r = 1 .. Len(r) /\ ToSet(r) = {r[i] : i \in 1 .. Len(r)}
  BY <1>1, ToSetByPosition
<1>4. Ascending(r)
  <2> SUFFICES ASSUME NEW i \in 1 .. Len(r), NEW j \in 1 .. Len(r), i < j
               PROVE  r[i] < r[j]
    BY <1>3 DEF Ascending
  <2>1. CASE j <= Len(s)
    <3>1. i \in 1 .. Len(s) /\ j \in 1 .. Len(s) /\ r[i] = s[i] /\ r[j] = s[j]
      BY <1>1, <1>2, <2>1
    <3> QED
      BY <1>2, <3>1 DEF Ascending
  <2>2. CASE i > Len(s)
    <3>1. /\ i - Len(s) \in 1 .. Len(t) /\ j - Len(s) \in 1 .. Len(t)
          /\ i - Len(s) < j - Len(s) /\ ~(i <= Len(s)) /\ ~(j <= Len(s))
          /\ i \in 1 .. Len(s) + Len(t) /\ j \in 1 .. Len(s) + Len(t)
      <4>1. Len(r) = Len(s) + Len(t) /\ Len(s) \in Nat /\ Len(t) \in Nat
        BY <1>1, <1>2
      <4> QED
        BY <4>1, <2>2
    <3>2. r[i] = t[i - Len(s)] /\ r[j] = t[j - Len(s)]
      BY <1>1, <3>1
    <3> QED
      BY <1>2, <3>1, <3>2 DEF Ascending
  <2>3. CASE i <= Len(s) /\ j > Len(s)
    <3>1. i \in 1 .. Len(s) /\ j - Len(s) \in 1 .. Len(t) /\ r[i] = s[i] /\ r[j] = t[j - Len(s)]
      BY <1>1, <1>2, <2>3
    <3> QED
      BY <1>2, <3>1
  <2> QED
    BY <1>2, <2>1, <2>2, <2>3
<1>5. ToSet(r) = ToSet(s) \cup ToSet(t)
  <2>1. ASSUME NEW x \in ToSet(r) PROVE x \in ToSet(s) \cup ToSet(t)
    <3>1. PICK i \in 1 .. Len(r) : x = r[i]
      BY <1>3
    <3>2. CASE i <= Len(s)
      BY <1>1, <1>2, <3>1, <3>2
    <3>3. CASE i > Len(s)
      <4>1. i - Len(s) \in 1 .. Len(t) /\ x = t[i - Len(s)]
        BY <1>1, <1>2, <3>1, <3>3
      <4> QED
        BY <1>2, <4>1
    <3> QED
      BY <1>2, <3>2, <3>3
  <2>2. ASSUME NEW x \in ToSet(s) PROVE x \in ToSet(r)
    <3>1. PICK i \in 1 .. Len(s) : x = s[i]
      BY <1>2
    <3>2. Len(r) = Len(s) + Len(t) /\ Len(s) \in Nat /\ Len(t) \in Nat
      BY <1>1, <1>2
    <3>3. i \in 1 .. Len(r) /\ i \in 1 .. Len(s) + Len(t) /\ i <= Len(s)
      BY <3>2
    <3>4. r[i] = s[i]
      BY <1>1, <3>3
    <3> QED
      BY <1>3, <3>1, <3>3, <3>4
  <2>3. ASSUME NEW x \in ToSet(t) PROVE x \in ToSet(r)
    <3>1. PICK i \in 1 .. Len(t) : x = t[i]
      BY <1>2
    <3>2. Len(r) = Len(s) + Len(t) /\ Len(s) \in Nat /\ Len(t) \in Nat
      BY <1>1, <1>2
    <3> DEFINE k == i + Len(s)
    <3>3. /\ k \in 1 .. Len(r) /\ ~(k <= Len(s))
          /\ k \in 1 .. Len(s) + Len(t) /\ k - Len(s) = i
      BY <3>2
    <3> HIDE DEF k
    <3>4. r[k] = t[k - Len(s)]
      BY <1>1, <3>3
    <3> QED
      BY <1>3, <3>1, <3>3, <3>4
  <2> QED
    BY <2>1, <2>2, <2>3
<1> QED
  BY <1>1, <1>4, <1>5 DEF r

\* Any stretch of an ascending queue is one.
LEMMA AscendingStretch ==
  ASSUME NEW s \in Seq(Nat), Ascending(s), NEW m \in 1 .. Len(s) + 1, NEW n \in m - 1 .. Len(s)
  PROVE  /\ SubSeq(s, m, n) \in Seq(Nat) /\ Ascending(SubSeq(s, m, n))
         /\ ToSet(SubSeq(s, m, n)) = {s[i] : i \in m .. n}
<1> DEFINE r == SubSeq(s, m, n)
<1>1. /\ Len(s) \in Nat /\ DOMAIN s = 1 .. Len(s)
      /\ \A i \in 1 .. Len(s) : s[i] \in Nat
  BY ToSetByPosition
<1>2. m \in Nat /\ n \in Int /\ n - m + 1 \in Nat /\ n <= Len(s) /\ m >= 1
  BY <1>1
<1>3. /\ r \in Seq(Nat) /\ Len(r) = n - m + 1
      /\ \A i \in 1 .. n - m + 1 : r[i] = s[m + i - 1]
  <2>1. \A i \in m .. n : s[i] \in Nat
    BY <1>1, <1>2
  <2>2. /\ r \in Seq(Nat) /\ Len(r) = IF m <= n THEN n - m + 1 ELSE 0
        /\ \A i \in 1 .. n - m + 1 : r[i] = s[m + i - 1]
    BY <1>2, <2>1, SubSeqProperties
  <2> QED
    BY <1>2, <2>2
<1> HIDE DEF r
<1>4. DOMAIN r = 1 .. Len(r) /\ ToSet(r) = {r[i] : i \in 1 .. Len(r)}
  BY <1>3, ToSetByPosition
<1>5. Ascending(r)
  <2> SUFFICES ASSUME NEW i \in 1 .. Len(r), NEW j \in 1 .. Len(r), i < j
               PROVE  r[i] < r[j]
    BY <1>4 DEF Ascending
  <2>1. /\ m + i - 1 \in 1 .. Len(s) /\ m + j - 1 \in 1 .. Len(s)
        /\ m + i - 1 < m + j - 1
    BY <1>1, <1>2, <1>3
  <2>2. r[i] = s[m + i - 1] /\ r[j] = s[m + j - 1]
    BY <1>3
  <2> QED
    BY <1>1, <2>1, <2>2 DEF Ascending
<1>6. ToSet(r) = {s[i] : i \in m .. n}
  <2>1. ASSUME NEW i \in 1 .. Len(r) PROVE r[i] \in {s[k] : k \in m .. n}
    <3>1. m + i - 1 \in m .. n /\ r[i] = s[m + i - 1]
      BY <1>2, <1>3
    <3> QED
      BY <3>1
  <2>2. ASSUME NEW i \in m .. n PROVE s[i] \in {r[k] : k \in 1 .. Len(r)}
    <3>1. i - m + 1 \in 1 .. Len(r) /\ m + (i - m + 1) - 1 = i
      BY <1>2, <1>3
    <3>2. r[i - m + 1] = s[i]
      BY <1>3, <3>1
    <3> QED
      BY <3>1, <3>2
  <2> QED
    BY <1>4, <2>1, <2>2
<1> QED
  BY <1>3, <1>5, <1>6 DEF r

\* The queue of a set of indexes exists: least counterexample on the bound.
LEMMA InOrderWorks ==
  ASSUME NEW S \in SUBSET Indexes
  PROVE  InOrder(S) \in Seq(Nat) /\ Ascending(InOrder(S)) /\ ToSet(InOrder(S)) = S
<1> DEFINE Upto(n) == S \cap (0 .. n - 1)
           P(n) == \E q \in Seq(Nat) :
                     /\ Len(q) <= n /\ Ascending(q) /\ ToSet(q) = Upto(n)
           T == {n \in 0 .. Count : ~P(n)}
<1>1. Count \in Nat /\ S \in SUBSET Nat /\ \A x \in S : x < Count
  BY ResultChunksAssumption DEF Indexes
<1>2. P(0)
  <2> DEFINE e == <<>>
  <2>1. e \in Seq(Nat) /\ Len(e) = 0 /\ Upto(0) = {}
    BY EmptySeq, <1>1
  <2> HIDE DEF e
  <2>2. DOMAIN e = 1 .. 0
    BY <2>1, ToSetByPosition
  <2>3. DOMAIN e = {}
    BY <2>2
  <2>4. ToSet(e) = {} /\ Ascending(e)
    BY <2>3 DEF ToSet, Ascending
  <2>5. Len(e) <= 0 /\ ToSet(e) = Upto(0)
    BY <2>1, <2>4
  <2> HIDE DEF Upto
  <2> QED
    BY <2>1, <2>4, <2>5
<1>3. ASSUME NEW n \in 0 .. Count - 1, P(n) PROVE P(n + 1)
  <2>1. PICK q \in Seq(Nat) : Len(q) <= n /\ Ascending(q) /\ ToSet(q) = Upto(n)
    BY <1>3
  <2>2. Len(q) \in Nat /\ n \in Nat
    BY <1>1, LenProperties
  <2>3. CASE n \notin S
    <3>1. Upto(n + 1) = Upto(n)
      BY <1>1, <2>2, <2>3
    <3> QED
      BY <2>1, <2>2, <3>1
  <2>4. CASE n \in S
    <3> DEFINE e == <<n>>
    <3>1. e \in Seq(Nat) /\ Len(e) = 1 /\ e[1] = n
      BY <2>2
    <3> HIDE DEF e
    <3>2. DOMAIN e = 1 .. 1 /\ ToSet(e) = {n}
      <4>1. DOMAIN e = 1 .. 1 /\ ToSet(e) = {e[i] : i \in 1 .. 1}
        BY <3>1, ToSetByPosition
      <4>2. 1 .. 1 = {1}
        OBVIOUS
      <4> QED
        BY <3>1, <4>1, <4>2
    <3>3. Ascending(e)
      BY <3>2 DEF Ascending
    <3>4. \A x \in ToSet(q), y \in ToSet(e) : x < y
      BY <1>1, <2>1, <2>2, <3>2
    <3>5. q \o e \in Seq(Nat) /\ Ascending(q \o e) /\ ToSet(q \o e) = ToSet(q) \cup ToSet(e)
      BY <2>1, <3>1, <3>3, <3>4, AscendingConcat
    <3>6. Len(q \o e) = Len(q) + 1
      <4>1. Len(q \o e) = Len(q) + Len(e)
        BY <3>1, ConcatProperties, Zenon
      <4> QED
        BY <3>1, <4>1
    <3>7. Upto(n + 1) = Upto(n) \cup {n}
      BY <1>1, <2>2, <2>4
    <3> QED
      <4>1. Len(q \o e) <= n + 1
        BY <2>1, <2>2, <3>6
      <4>2. ToSet(q \o e) = Upto(n + 1)
        BY <2>1, <3>2, <3>5, <3>7
      <4> QED
        BY <3>5, <4>1, <4>2
  <2> QED
    BY <2>3, <2>4
<1> HIDE DEF P
<1>4. P(Count)
  <2> SUFFICES ASSUME T # {} PROVE FALSE
    BY <1>1
  <2>1. PICK n \in T : \A k \in T : ~(k < n)
    <3>1. T \in SUBSET Nat
      BY <1>1
    <3> HIDE DEF T
    <3> QED
      BY <3>1, LeastIndex
  <2>2. n \in 0 .. Count /\ ~P(n)
    OBVIOUS
  <2>3. n # 0
    BY <1>2, <2>2
  <2>4. n - 1 \in 0 .. Count - 1 /\ n - 1 \in 0 .. Count /\ n - 1 < n /\ (n - 1) + 1 = n
    BY <1>1, <2>2, <2>3
  <2>5. P(n - 1)
    BY <2>1, <2>4
  <2>6. P((n - 1) + 1)
    BY <1>3, <2>4, <2>5
  <2> QED
    BY <2>2, <2>4, <2>6
<1>5. Upto(Count) = S
  <2>1. \A x \in S : x \in 0 .. Count - 1
    BY <1>1
  <2> QED
    BY <2>1
<1>6. PICK q \in Seq(Nat) : Len(q) <= Count /\ Ascending(q) /\ ToSet(q) = S
  BY <1>4, <1>5 DEF P
<1>7. Len(q) \in 0 .. Count /\ DOMAIN q = 1 .. Len(q)
  BY <1>1, <1>6, LenProperties
<1>8. q \in [1 .. Len(q) -> S]
  <2>1. \A i \in 1 .. Len(q) : q[i] \in S
    BY <1>6, <1>7 DEF ToSet
  <2>2. q = [i \in 1 .. Len(q) |-> q[i]]
    BY <1>7, LenProperties
  <2> QED
    BY <2>1, <2>2
<1>9. q \in SeqOf(S, Count)
  BY <1>7, <1>8 DEF SeqOf
<1>10. InOrder(S) \in SeqOf(S, Count) /\ Ascending(InOrder(S)) /\ ToSet(InOrder(S)) = S
  BY <1>6, <1>9 DEF InOrder
<1>11. PICK m \in 0 .. Count : InOrder(S) \in [1 .. m -> S]
  BY <1>10 DEF SeqOf
<1>12. InOrder(S) \in Seq(Nat)
  <2> DEFINE o == InOrder(S)
  <2>1. m \in Nat /\ o \in [1 .. m -> Nat]
    <3>1. m \in Nat /\ S \subseteq Nat
      BY <1>1, <1>11
    <3>2. o \in [1 .. m -> S]
      BY <1>11
    <3> HIDE DEF o
    <3> QED
      BY <3>1, <3>2
  <2> HIDE DEF o
  <2>2. o \in Seq(Nat)
    BY <2>1
  <2> QED
    BY <2>2 DEF o
<1> QED
  BY <1>10, <1>12

-----------------------------------------------------------------------------
(* take_ready                                                              *)

\* refresh_ready stops: the index it stops at is well defined.
LEMMA ReadyIndexWorks ==
  ASSUME TypeOK
  PROVE  /\ ReadyIndex \in nextIndex .. Count
         /\ nextIndex .. (ReadyIndex - 1) \subseteq completed
         /\ ReadyIndex \notin completed
<1> DEFINE P(j) == nextIndex .. (j - 1) \subseteq completed /\ j \notin completed
           T == {j \in nextIndex .. Count : j \notin completed}
<1>1. /\ Count \in Nat /\ nextIndex \in Nat /\ nextIndex <= Count
      /\ completed \subseteq 0 .. Count - 1
  BY ResultChunksAssumption DEF TypeOK, Indexes
<1>2. Count \in T /\ T \in SUBSET Nat
  BY <1>1
<1>3. PICK j \in T : \A k \in T : ~(k < j)
  BY <1>2, LeastIndex
<1>4. j \in nextIndex .. Count /\ j \notin completed
  OBVIOUS
<1>5. nextIndex .. (j - 1) \subseteq completed
  <2> SUFFICES ASSUME NEW k \in nextIndex .. (j - 1) PROVE k \in completed
    OBVIOUS
  <2>1. k \in nextIndex .. Count /\ k < j
    BY <1>1, <1>4
  <2> QED
    BY <1>3, <2>1
<1>6. ReadyIndex = CHOOSE i \in nextIndex .. Count : P(i)
  BY DEF ReadyIndex
<1>7. P(j)
  BY <1>4, <1>5
<1>8. ReadyIndex \in nextIndex .. Count /\ P(ReadyIndex)
  <2> HIDE DEF P
  <2> QED
    BY <1>4, <1>6, <1>7
<1> QED
  BY <1>8

\* pop_front stops: the results of a chunk are a prefix of the queue.
LEMMA LeadingWorks ==
  ASSUME Ready \in Seq(Nat), EndIndex \in Nat
  PROVE  /\ Leading \in 0 .. Len(Ready)
         /\ \A i \in 1 .. Leading : Ready[i] < EndIndex
         /\ Leading < Len(Ready) => Ready[Leading + 1] >= EndIndex
<1> DEFINE P(k) == /\ \A i \in 1 .. k : Ready[i] < EndIndex
                   /\ k < Len(Ready) => Ready[k + 1] >= EndIndex
           T == {k \in 0 .. Len(Ready) : k < Len(Ready) => Ready[k + 1] >= EndIndex}
<1>1. Len(Ready) \in Nat /\ \A i \in 1 .. Len(Ready) : Ready[i] \in Nat
  BY ToSetByPosition
<1>2. Len(Ready) \in T /\ T \in SUBSET Nat
  BY <1>1
<1>3. PICK k \in T : \A j \in T : ~(j < k)
  BY <1>2, LeastIndex
<1>4. k \in 0 .. Len(Ready) /\ (k < Len(Ready) => Ready[k + 1] >= EndIndex)
  OBVIOUS
<1>5. ASSUME NEW i \in 1 .. k PROVE Ready[i] < EndIndex
  <2>1. /\ i - 1 \in 0 .. Len(Ready) /\ i - 1 < k /\ i - 1 < Len(Ready) /\ (i - 1) + 1 = i
        /\ i \in 1 .. Len(Ready)
    BY <1>1, <1>4
  <2>2. i - 1 \notin T
    BY <1>3, <2>1
  <2>3. ~(Ready[i] >= EndIndex)
    BY <2>1, <2>2
  <2> QED
    BY <1>1, <2>1, <2>3
<1>6. P(k)
  BY <1>4, <1>5
<1>7. Leading = CHOOSE j \in 0 .. Len(Ready) : P(j)
  BY DEF Leading
<1>8. Leading \in 0 .. Len(Ready) /\ P(Leading)
  <2> HIDE DEF P
  <2> QED
    BY <1>4, <1>6, <1>7
<1> QED
  BY <1>8

\* The actionable results of a range of indexes.
Actionable(a, b) == {i \in a .. (b - 1) : answer[i] = "actionable"}

\* The refreshed queue holds the actionable results up to the index reached.
LEMMA ReadyExact ==
  ASSUME TypeOK, Filed, Buffered
  PROVE  /\ NewResults = Actionable(nextIndex, ReadyIndex)
         /\ Ready \in Seq(Nat) /\ Ascending(Ready)
         /\ ToSet(Ready) = Actionable(chunkStart, ReadyIndex)
<1>1. /\ Count \in Nat /\ chunkStart \in Nat /\ nextIndex \in Nat
      /\ chunkStart <= nextIndex /\ nextIndex <= Count
      /\ readyResults \in Seq(Nat) /\ pendingResults \subseteq 0 .. Count - 1
  BY ResultChunksAssumption DEF TypeOK, Indexes
<1>2. /\ ReadyIndex \in nextIndex .. Count
      /\ nextIndex .. (ReadyIndex - 1) \subseteq completed
  BY ReadyIndexWorks
<1>3. NewResults = Actionable(nextIndex, ReadyIndex)
  <2>1. ASSUME NEW i \in NewResults PROVE i \in Actionable(nextIndex, ReadyIndex)
    BY DEF NewResults, Filed, Actionable
  <2>2. ASSUME NEW i \in Actionable(nextIndex, ReadyIndex) PROVE i \in NewResults
    <3>1. i \in nextIndex .. (ReadyIndex - 1) /\ answer[i] = "actionable" /\ i \in completed
      BY <1>2 DEF Actionable
    <3>2. i >= nextIndex
      BY <1>1, <1>2, <3>1
    <3>3. i \in pendingResults
      BY <3>1, <3>2 DEF Filed
    <3> QED
      BY <3>1, <3>3 DEF NewResults
  <2> QED
    BY <2>1, <2>2
<1>4. NewResults \in SUBSET Indexes
  BY <1>1 DEF NewResults, Indexes
<1>5. /\ InOrder(NewResults) \in Seq(Nat) /\ Ascending(InOrder(NewResults))
      /\ ToSet(InOrder(NewResults)) = NewResults
  BY <1>4, InOrderWorks
<1>6. Ascending(readyResults) /\ ToSet(readyResults) = Actionable(chunkStart, nextIndex)
  BY DEF Buffered, Actionable
<1>7. \A x \in ToSet(readyResults), y \in ToSet(InOrder(NewResults)) : x < y
  BY <1>1, <1>2, <1>3, <1>5, <1>6 DEF Actionable
<1>8. /\ Ready \in Seq(Nat) /\ Ascending(Ready)
      /\ ToSet(Ready) = ToSet(readyResults) \cup ToSet(InOrder(NewResults))
  BY <1>1, <1>5, <1>6, <1>7, AscendingConcat DEF Ready
<1>9. Actionable(chunkStart, nextIndex) \cup Actionable(nextIndex, ReadyIndex)
        = Actionable(chunkStart, ReadyIndex)
  BY <1>1, <1>2 DEF Actionable
<1> QED
  BY <1>3, <1>5, <1>6, <1>8, <1>9

\* A chunk takes the actionable results of its range, and leaves the rest.
LEMMA ChunkExact ==
  ASSUME TypeOK, Filed, Buffered, NEW flush \in BOOLEAN, HasChunk(flush)
  PROVE  /\ EndIndex \in chunkStart + 1 .. ReadyIndex
         /\ SubSeq(Ready, Leading + 1, Len(Ready)) \in Seq(Nat)
         /\ Ascending(SubSeq(Ready, Leading + 1, Len(Ready)))
         /\ ToSet(SubSeq(Ready, Leading + 1, Len(Ready))) = Actionable(EndIndex, ReadyIndex)
         /\ delivered \o SubSeq(Ready, 1, Leading) \in Seq(Nat)
         /\ Ascending(delivered \o SubSeq(Ready, 1, Leading))
         /\ ToSet(delivered \o SubSeq(Ready, 1, Leading)) = Actionable(0, EndIndex)
<1> DEFINE front == SubSeq(Ready, 1, Leading)
           back == SubSeq(Ready, Leading + 1, Len(Ready))
<1>1. /\ Count \in Nat /\ ChunkSize \in Nat \ {0} /\ chunkStart \in Nat /\ nextIndex \in Nat
      /\ chunkStart <= nextIndex /\ nextIndex <= Count /\ delivered \in Seq(Nat)
  BY ResultChunksAssumption DEF TypeOK
<1>2. ReadyIndex \in nextIndex .. Count
  BY ReadyIndexWorks
<1>3. EndIndex \in chunkStart + 1 .. ReadyIndex /\ EndIndex \in Nat
  BY <1>1, <1>2 DEF HasChunk, EndIndex, ReadyCount
<1>4. /\ Ready \in Seq(Nat) /\ Ascending(Ready)
      /\ ToSet(Ready) = Actionable(chunkStart, ReadyIndex)
  BY ReadyExact
<1>5. /\ Leading \in 0 .. Len(Ready)
      /\ \A i \in 1 .. Leading : Ready[i] < EndIndex
      /\ Leading < Len(Ready) => Ready[Leading + 1] >= EndIndex
  BY <1>3, <1>4, LeadingWorks
<1>6. /\ Len(Ready) \in Nat /\ DOMAIN Ready = 1 .. Len(Ready)
      /\ \A i \in 1 .. Len(Ready) : Ready[i] \in Nat
      /\ ToSet(Ready) = {Ready[i] : i \in 1 .. Len(Ready)}
  BY <1>4, ToSetByPosition
<1>7. /\ front \in Seq(Nat) /\ Ascending(front)
      /\ ToSet(front) = {Ready[i] : i \in 1 .. Leading}
  <2>1. 1 \in 1 .. Len(Ready) + 1 /\ Leading \in 1 - 1 .. Len(Ready)
    BY <1>5, <1>6
  <2> QED
    BY <1>4, <2>1, AscendingStretch
<1>8. /\ back \in Seq(Nat) /\ Ascending(back)
      /\ ToSet(back) = {Ready[i] : i \in Leading + 1 .. Len(Ready)}
  <2>1. Leading + 1 \in 1 .. Len(Ready) + 1 /\ Len(Ready) \in (Leading + 1) - 1 .. Len(Ready)
    BY <1>5, <1>6
  <2> QED
    BY <1>4, <2>1, AscendingStretch
<1>9. ASSUME NEW i \in Leading + 1 .. Len(Ready) PROVE Ready[i] >= EndIndex
  <2>1. /\ i \in 1 .. Len(Ready) /\ Leading + 1 \in 1 .. Len(Ready) /\ Leading < Len(Ready)
        /\ (i = Leading + 1 \/ Leading + 1 < i)
    BY <1>5, <1>6
  <2>2. Ready[Leading + 1] >= EndIndex /\ Ready[i] \in Nat /\ Ready[Leading + 1] \in Nat
    BY <1>5, <1>6, <2>1
  <2>3. i = Leading + 1 \/ Ready[Leading + 1] < Ready[i]
    BY <1>4, <1>6, <2>1 DEF Ascending
  <2> QED
    BY <1>3, <2>2, <2>3
<1>10. ToSet(front) = Actionable(chunkStart, EndIndex)
  <2>1. ASSUME NEW i \in 1 .. Leading PROVE Ready[i] \in Actionable(chunkStart, EndIndex)
    <3>1. i \in 1 .. Len(Ready) /\ Ready[i] < EndIndex
      BY <1>5, <1>6
    <3>2. Ready[i] \in Actionable(chunkStart, ReadyIndex)
      BY <1>4, <1>6, <3>1
    <3> QED
      BY <1>1, <1>2, <1>3, <3>1, <3>2 DEF Actionable
  <2>2. ASSUME NEW x \in Actionable(chunkStart, EndIndex)
        PROVE  x \in {Ready[i] : i \in 1 .. Leading}
    <3>1. x \in Actionable(chunkStart, ReadyIndex) /\ x \in Nat /\ x < EndIndex
      BY <1>1, <1>2, <1>3 DEF Actionable
    <3>2. PICK i \in 1 .. Len(Ready) : x = Ready[i]
      BY <1>4, <1>6, <3>1
    <3>3. i \notin Leading + 1 .. Len(Ready)
      BY <1>3, <1>9, <3>1, <3>2
    <3>4. i \in 1 .. Leading
      BY <1>5, <1>6, <3>3
    <3> QED
      BY <3>2, <3>4
  <2> QED
    BY <1>7, <2>1, <2>2
<1>11. ToSet(back) = Actionable(EndIndex, ReadyIndex)
  <2>1. ASSUME NEW i \in Leading + 1 .. Len(Ready)
        PROVE  Ready[i] \in Actionable(EndIndex, ReadyIndex)
    <3>1. i \in 1 .. Len(Ready) /\ Ready[i] >= EndIndex
      BY <1>5, <1>6, <1>9
    <3>2. Ready[i] \in Actionable(chunkStart, ReadyIndex)
      BY <1>4, <1>6, <3>1
    <3> QED
      BY <1>1, <1>2, <1>3, <3>1, <3>2 DEF Actionable
  <2>2. ASSUME NEW x \in Actionable(EndIndex, ReadyIndex)
        PROVE  x \in {Ready[i] : i \in Leading + 1 .. Len(Ready)}
    <3>1. x \in Actionable(chunkStart, ReadyIndex) /\ x \in Nat /\ ~(x < EndIndex)
      BY <1>1, <1>2, <1>3 DEF Actionable
    <3>2. PICK i \in 1 .. Len(Ready) : x = Ready[i]
      BY <1>4, <1>6, <3>1
    <3>3. i \notin 1 .. Leading
      BY <1>5, <3>1, <3>2
    <3>4. i \in Leading + 1 .. Len(Ready)
      BY <1>5, <1>6, <3>3
    <3> QED
      BY <3>2, <3>4
  <2> QED
    BY <1>8, <2>1, <2>2
<1>12. Ascending(delivered) /\ ToSet(delivered) = Actionable(0, chunkStart)
  BY DEF Buffered, DeliveredExact, Actionable
<1>13. \A x \in ToSet(delivered), y \in ToSet(front) : x < y
  BY <1>1, <1>3, <1>10, <1>12 DEF Actionable
<1>14. /\ delivered \o front \in Seq(Nat) /\ Ascending(delivered \o front)
       /\ ToSet(delivered \o front) = Actionable(0, chunkStart) \cup Actionable(chunkStart, EndIndex)
  BY <1>1, <1>7, <1>10, <1>12, <1>13, AscendingConcat
<1>15. Actionable(0, chunkStart) \cup Actionable(chunkStart, EndIndex) = Actionable(0, EndIndex)
  BY <1>1, <1>3 DEF Actionable
<1> QED
  BY <1>3, <1>8, <1>11, <1>14, <1>15

-----------------------------------------------------------------------------
(* The invariant                                                           *)

IInv == TypeOK /\ GivenOut /\ Filed /\ Buffered /\ Drained

USE DEF Busy, Gone, WorkerStates, Draining

LEMMA InitIInv == Init => IInv
<1> SUFFICES ASSUME Init PROVE IInv
  OBVIOUS
<1> DEFINE e == <<>>
<1>0. e \in Seq(Nat) /\ Len(e) = 0
  BY EmptySeq
<1>1. readyResults = e /\ delivered = e
  BY DEF Init
<1> HIDE DEF e
<1>2. DOMAIN e = 1 .. 0
  BY <1>0, ToSetByPosition
<1>3. ToSet(e) = {} /\ Ascending(e)
  BY <1>2 DEF ToSet, Ascending
<1>4. Count \in Nat
  BY ResultChunksAssumption
<1>5. TypeOK
  <2>1. result \in Call!Results
    BY DEF Init, Call!Results
  <2>2. chunkStart \in 0 .. Count /\ nextIndex \in chunkStart .. Count
    BY <1>4 DEF Init
  <2> QED
    BY <1>0, <1>1, <2>1, <2>2 DEF Init, TypeOK
<1>6. GivenOut
  BY <1>4 DEF Init, GivenOut, Indexes
<1>7. Filed
  BY DEF Init, Filed
<1>8. Buffered
  BY <1>1, <1>3 DEF Init, Buffered, DeliveredExact
<1>9. Drained
  BY DEF Init, Drained, LeftEarly
<1> QED
  BY <1>5, <1>6, <1>7, <1>8, <1>9 DEF IInv

\* A step that touches neither the buffer nor the answers it rests on.
LEMMA BufferedKept ==
  ASSUME TypeOK, Buffered, UNCHANGED bufferVars, completed \subseteq completed',
         \A i \in completed : answer'[i] = answer[i]
  PROVE  Buffered'
<1>1. /\ chunkStart \in Nat /\ nextIndex \in Nat /\ chunkStart <= nextIndex
      /\ chunkStart' = chunkStart /\ nextIndex' = nextIndex
      /\ readyResults' = readyResults /\ delivered' = delivered
  BY ResultChunksAssumption DEF TypeOK, bufferVars
<1>2. 0 .. (nextIndex - 1) \subseteq completed
  BY DEF Buffered
<1>3. \A i \in 0 .. (nextIndex - 1) : answer'[i] = answer[i]
  BY <1>2
<1>4. /\ \A i \in chunkStart .. (nextIndex - 1) : answer'[i] = answer[i]
      /\ \A i \in 0 .. chunkStart - 1 : answer'[i] = answer[i]
  BY <1>1, <1>3
<1>5. {i \in chunkStart .. (nextIndex - 1) : answer'[i] = "actionable"}
        = {i \in chunkStart .. (nextIndex - 1) : answer[i] = "actionable"}
  BY <1>4
<1>6. {i \in 0 .. chunkStart - 1 : answer'[i] = "actionable"}
        = {i \in 0 .. chunkStart - 1 : answer[i] = "actionable"}
  BY <1>4
<1> QED
  BY <1>1, <1>2, <1>5, <1>6 DEF Buffered, DeliveredExact, Ascending

\* Steps of the call's flags alone.
LEMMA StepCall ==
  ASSUME IInv,
         \/ \E flag \in BOOLEAN : SetCancelled(flag)
         \/ Enter \/ Leave \/ UNCHANGED vars
  PROVE  IInv'
<1> USE DEF IInv
<1>1. UNCHANGED <<workerVars, joined, coord, force, bufferVars>>
  BY DEF SetCancelled, Enter, Leave, vars
<1>2. cancelled' \in BOOLEAN /\ lowered' \in BOOLEAN
  BY DEF SetCancelled, Enter, Leave, vars, callVars, TypeOK
<1>3. phase' \in {"idle", "running", "leaving"} /\ result' \in Call!Results
  BY DEF SetCancelled, Enter, Leave, vars, callVars, TypeOK, Call!Results
<1>4. TypeOK'
  BY <1>1, <1>2, <1>3 DEF TypeOK, workerVars, bufferVars
<1>5. GivenOut' /\ Filed'
  BY <1>1 DEF GivenOut, Filed, workerVars, bufferVars
<1>6. Buffered'
  BY <1>1, BufferedKept DEF workerVars
<1>7. LeftEarly' = LeftEarly
  BY <1>1 DEF LeftEarly, workerVars
<1>8. Drained'
  <2>1. /\ \A w \in joined' : pc'[w] \in {"stopped", "exhausted"}
        /\ coord' \in Draining => joined' = Workers
        /\ coord' \in {"rest", "deliverRest"} => force'
    BY <1>1 DEF Drained, workerVars
  <2>2. lowered => lowered'
    BY DEF SetCancelled, Enter, Leave, vars, callVars
  <2>3. coord' \in {"rest", "deliverRest"} /\ LeftEarly' => lowered'
    BY <1>1, <1>7, <2>2 DEF Drained
  <2>4. ASSUME NEW flag \in BOOLEAN, SetCancelled(flag)
        PROVE  /\ phase' = "running" /\ LeftEarly' => cancelled' \/ lowered'
               /\ phase' = "leaving" => result' # "none"
               /\ phase' = "idle" /\ result' = "none" =>
                    chunkStart' = 0 /\ ~lowered' /\ ~LeftEarly' /\ coord' = "select"
    BY <1>1, <1>7, <2>4 DEF SetCancelled, Drained, bufferVars, TypeOK
  <2>5. ASSUME Enter
        PROVE  /\ phase' = "running" /\ LeftEarly' => cancelled' \/ lowered'
               /\ phase' = "leaving" => result' # "none"
               /\ phase' = "idle" /\ result' = "none" =>
                    chunkStart' = 0 /\ ~lowered' /\ ~LeftEarly' /\ coord' = "select"
    BY <1>1, <1>7, <2>5 DEF Enter, Drained, bufferVars, TypeOK
  <2>6. ASSUME Leave
        PROVE  /\ phase' = "running" /\ LeftEarly' => cancelled' \/ lowered'
               /\ phase' = "leaving" => result' # "none"
               /\ phase' = "idle" /\ result' = "none" =>
                    chunkStart' = 0 /\ ~lowered' /\ ~LeftEarly' /\ coord' = "select"
    BY <1>1, <1>7, <2>6 DEF Leave, Drained, bufferVars, TypeOK
  <2>7. ASSUME UNCHANGED vars
        PROVE  /\ phase' = "running" /\ LeftEarly' => cancelled' \/ lowered'
               /\ phase' = "leaving" => result' # "none"
               /\ phase' = "idle" /\ result' = "none" =>
                    chunkStart' = 0 /\ ~lowered' /\ ~LeftEarly' /\ coord' = "select"
    BY <1>7, <2>7 DEF vars, callVars, bufferVars, Drained
  <2> QED
    BY <2>1, <2>3, <2>4, <2>5, <2>6, <2>7 DEF Drained
<1> QED
  BY <1>4, <1>5, <1>6, <1>8

\* Steps of a worker.
LEMMA WorkerTypes ==
  ASSUME TypeOK, GivenOut, NEW w \in Workers, WorkerStep(w)
  PROVE  TypeOK'
<1>1. UNCHANGED <<callVars, joined, coord, force, bufferVars>>
  BY DEF WorkerStep
<1>2. pc[w] \in Busy => held[w] \in Indexes
  BY ResultChunksAssumption DEF GivenOut, Indexes, TypeOK
<1>3. /\ nextRequest' \in Nat /\ pc' \in [Workers -> WorkerStates] /\ held' \in [Workers -> Nat]
      /\ completed' \subseteq Indexes /\ pendingResults' \subseteq Indexes
      /\ answer' \in [Indexes -> {"none", "filtered", "actionable"}]
  <2>1. CASE TakeRequest(w)
    <3>1. /\ nextRequest \in Nat /\ nextRequest + 1 \in Nat
          /\ pc \in [Workers -> WorkerStates] /\ held \in [Workers -> Nat]
      BY DEF TypeOK
    <3>2. /\ nextRequest' \in {nextRequest, nextRequest + 1}
          /\ held' \in {held, [held EXCEPT ![w] = nextRequest]}
          /\ \E place \in {"stopped", "pacing", "exhausted"} : pc' = [pc EXCEPT ![w] = place]
      BY <2>1 DEF TakeRequest, Goto
    <3>3. pc' \in [Workers -> WorkerStates] /\ held' \in [Workers -> Nat]
      BY <3>1, <3>2
    <3> QED
      BY <2>1, <3>1, <3>2, <3>3 DEF TakeRequest, TypeOK
  <2>2. CASE SendRequest(w)
    BY <2>2 DEF SendRequest, Goto, TypeOK
  <2>3. CASE Respond(w)
    BY <1>2, <2>3 DEF Respond, Goto, TypeOK
  <2>4. CASE Panic(w)
    BY <2>4 DEF Panic, Goto, TypeOK
  <2>5. CASE Insert(w)
    BY <1>2, <2>5 DEF Insert, Goto, TypeOK
  <2>6. CASE Publish(w)
    BY <1>2, <2>6 DEF Publish, Goto, TypeOK
  <2> QED
    BY <2>1, <2>2, <2>3, <2>4, <2>5, <2>6 DEF WorkerStep
<1> QED
  BY <1>1, <1>3 DEF TypeOK, callVars, bufferVars

LEMMA WorkerGivenOut ==
  ASSUME TypeOK, GivenOut, NEW w \in Workers, WorkerStep(w)
  PROVE  GivenOut'
<1>1. /\ Count \in Nat /\ nextRequest \in Nat /\ pc \in [Workers -> WorkerStates]
      /\ held \in [Workers -> Nat] /\ completed \subseteq Indexes
  BY ResultChunksAssumption DEF TypeOK
<1>2. \A i \in Indexes : i \in Nat /\ i < Count
  BY <1>1 DEF Indexes
<1>3. CASE TakeRequest(w)
  <2>1. CASE cancelled
    BY <1>1, <1>2, <1>3, <2>1 DEF TakeRequest, Goto, GivenOut
  <2>2. CASE ~cancelled
    <3>1. /\ nextRequest' = nextRequest + 1 /\ held' = [held EXCEPT ![w] = nextRequest]
          /\ pc[w] = "idle" /\ completed' = completed
          /\ pc' = [pc EXCEPT ![w] = IF nextRequest < Count THEN "pacing" ELSE "exhausted"]
      BY <1>3, <2>2 DEF TakeRequest, Goto
    <3>2. /\ pc'[w] = (IF nextRequest < Count THEN "pacing" ELSE "exhausted")
          /\ held'[w] = nextRequest
          /\ \A v \in Workers \ {w} : pc'[v] = pc[v] /\ held'[v] = held[v]
      BY <1>1, <3>1
    <3>3. \A v \in Workers : pc'[v] \in Busy =>
            held'[v] < Count /\ held'[v] < nextRequest' /\ held'[v] \notin completed'
      <4> SUFFICES ASSUME NEW v \in Workers, pc'[v] \in Busy
                   PROVE  held'[v] < Count /\ held'[v] < nextRequest' /\ held'[v] \notin completed'
        OBVIOUS
      <4>1. CASE v = w
        <5>1. nextRequest < Count
          BY <3>2, <4>1
        <5>2. nextRequest \notin completed
          BY <1>1 DEF GivenOut
        <5> QED
          BY <1>1, <3>1, <3>2, <4>1, <5>1, <5>2
      <4>2. CASE v # w
        <5>1. held[v] < Count /\ held[v] < nextRequest /\ held[v] \notin completed /\ held[v] \in Nat
          BY <1>1, <3>2, <4>2 DEF GivenOut
        <5> QED
          BY <1>1, <3>1, <3>2, <4>2, <5>1
      <4> QED
        BY <4>1, <4>2
    <3>4. ASSUME NEW u \in Workers, NEW v \in Workers,
                 pc'[u] \in Busy, pc'[v] \in Busy, held'[u] = held'[v]
          PROVE  u = v
      <4>1. \A x \in Workers \ {w} : pc'[x] \in Busy => held'[x] # nextRequest
        BY <1>1, <3>2 DEF GivenOut
      <4>2. CASE u = w \/ v = w
        BY <3>2, <3>4, <4>1, <4>2
      <4>3. CASE u # w /\ v # w
        BY <3>2, <3>4, <4>3 DEF GivenOut
      <4> QED
        BY <4>2, <4>3
    <3>5. \A i \in completed' : i < nextRequest'
      BY <1>1, <1>2, <3>1 DEF GivenOut
    <3>6. ASSUME NEW i \in Indexes, i < nextRequest'
          PROVE  \/ i \in completed'
                 \/ \E v \in Workers : pc'[v] \in Busy /\ held'[v] = i
                 \/ \E v \in Workers : pc'[v] \in {"stopped", "panicked"}
      <4>1. CASE i = nextRequest
        BY <1>2, <3>2, <4>1
      <4>2. CASE i # nextRequest
        <5>1. i < nextRequest
          BY <1>1, <1>2, <3>1, <3>6, <4>2
        <5>2. \/ i \in completed
              \/ \E v \in Workers : pc[v] \in Busy /\ held[v] = i
              \/ \E v \in Workers : pc[v] \in {"stopped", "panicked"}
          BY <5>1 DEF GivenOut
        <5> QED
          BY <3>1, <3>2, <5>2
      <4> QED
        BY <4>1, <4>2
    <3>7. \A v \in Workers : pc'[v] = "exhausted" => nextRequest' >= Count
      BY <1>1, <3>1, <3>2 DEF GivenOut
    <3> QED
      BY <3>3, <3>4, <3>5, <3>6, <3>7 DEF GivenOut
  <2> QED
    BY <2>1, <2>2
<1>4. CASE SendRequest(w)
  BY <1>1, <1>4 DEF SendRequest, Goto, GivenOut
<1>5. CASE Respond(w)
  BY <1>1, <1>5 DEF Respond, Goto, GivenOut
<1>6. CASE Panic(w)
  BY <1>1, <1>6 DEF Panic, Goto, GivenOut
<1>7. CASE Insert(w)
  BY <1>1, <1>7 DEF Insert, Goto, GivenOut
<1>8. CASE Publish(w)
  BY <1>1, <1>8 DEF Publish, Goto, GivenOut
<1> QED
  BY <1>3, <1>4, <1>5, <1>6, <1>7, <1>8 DEF WorkerStep

LEMMA WorkerFiled ==
  ASSUME TypeOK, GivenOut, Filed, Buffered, NEW w \in Workers, WorkerStep(w)
  PROVE  Filed'
<1>1. /\ pc \in [Workers -> WorkerStates] /\ held \in [Workers -> Nat]
      /\ completed \subseteq Indexes /\ pendingResults \subseteq Indexes
      /\ answer \in [Indexes -> {"none", "filtered", "actionable"}]
      /\ nextIndex' = nextIndex /\ nextIndex \in Nat /\ Indexes \subseteq Nat
  BY ResultChunksAssumption DEF TypeOK, WorkerStep, bufferVars, Indexes
<1>2. \A v \in Workers : pc[v] \in Busy => held[v] \in Indexes /\ held[v] \notin completed
  BY ResultChunksAssumption, <1>1 DEF GivenOut, Indexes
<1>3. CASE TakeRequest(w)
  <2>1. /\ pc'[w] \notin {"insert", "publish"} /\ pc[w] = "idle"
        /\ \A v \in Workers \ {w} : pc'[v] = pc[v] /\ held'[v] = held[v]
        /\ UNCHANGED <<completed, pendingResults, answer>>
    BY <1>1, <1>3 DEF TakeRequest, Goto
  <2> QED
    BY <1>1, <2>1 DEF Filed
<1>4. CASE SendRequest(w)
  BY <1>1, <1>4 DEF SendRequest, Goto, Filed
<1>5. CASE Respond(w)
  <2>1. /\ pc[w] = "requesting" /\ pc'[w] \in {"insert", "publish"}
        /\ \A v \in Workers \ {w} : pc'[v] = pc[v]
        /\ UNCHANGED <<held, completed, pendingResults>>
        /\ \A i \in Indexes \ {held[w]} : answer'[i] = answer[i]
        /\ answer'[held[w]] = (IF pc'[w] = "insert" THEN "actionable" ELSE "filtered")
    <3>1. held[w] \in Indexes /\ pc[w] = "requesting"
      BY <1>2, <1>5 DEF Respond
    <3> QED
      BY <1>1, <1>5, <3>1 DEF Respond, Goto
  <2>2. \A v \in Workers \ {w} : pc[v] \in Busy => held[v] \in Indexes \ {held[w]}
    BY <1>2, <2>1 DEF GivenOut
  <2>3. \A i \in completed : i \in Indexes \ {held[w]}
    BY <1>1, <1>2, <2>1
  <2>4. \A i \in pendingResults : i \in Indexes \ {held[w]}
    <3> SUFFICES ASSUME NEW i \in pendingResults, i = held[w] PROVE FALSE
      BY <1>1
    <3>1. i \in completed \/ \E v \in Workers : pc[v] = "publish" /\ held[v] = i
      BY DEF Filed
    <3> QED
      BY <2>1, <2>2, <2>3, <3>1
  <2>5. \A v \in Workers : pc'[v] = "insert" => answer'[held'[v]] = "actionable"
    BY <2>1, <2>2 DEF Filed
  <2>6. \A v \in Workers : pc'[v] = "publish" /\ answer'[held'[v]] = "actionable" =>
          held'[v] \in pendingResults'
    BY <2>1, <2>2 DEF Filed
  <2>7. ASSUME NEW i \in pendingResults'
        PROVE  /\ answer'[i] = "actionable" /\ i >= nextIndex'
               /\ i \in completed' \/ \E v \in Workers : pc'[v] = "publish" /\ held'[v] = i
    <3>1. i \in pendingResults /\ i # held[w] /\ answer'[i] = answer[i]
      BY <2>1, <2>4
    <3>2. /\ answer[i] = "actionable" /\ i >= nextIndex
          /\ i \in completed \/ \E v \in Workers : pc[v] = "publish" /\ held[v] = i
      BY <3>1 DEF Filed
    <3> QED
      BY <1>1, <2>1, <3>1, <3>2
  <2>8. \A i \in completed' :
          answer'[i] = "actionable" /\ i >= nextIndex' => i \in pendingResults'
    BY <1>1, <2>1, <2>3 DEF Filed
  <2> QED
    BY <2>5, <2>6, <2>7, <2>8 DEF Filed
<1>6. CASE Panic(w)
  BY <1>1, <1>6 DEF Panic, Goto, Filed
<1>7. CASE Insert(w)
  <2>1. /\ pc[w] = "insert" /\ pc' = [pc EXCEPT ![w] = "publish"]
        /\ UNCHANGED <<held, completed, answer>>
        /\ pendingResults' = pendingResults \cup {held[w]}
    BY <1>7 DEF Insert, Goto
  <2>2. held[w] >= nextIndex'
    <3>1. 0 .. (nextIndex - 1) \subseteq completed
      BY DEF Buffered
    <3> QED
      BY <1>1, <1>2, <2>1, <3>1
  <2> QED
    BY <1>1, <2>1, <2>2 DEF Filed
<1>8. CASE Publish(w)
  BY <1>1, <1>8 DEF Publish, Goto, Filed
<1> QED
  BY <1>3, <1>4, <1>5, <1>6, <1>7, <1>8 DEF WorkerStep

LEMMA WorkerDrained ==
  ASSUME TypeOK, Drained, NEW w \in Workers, WorkerStep(w)
  PROVE  Drained'
<1>1. UNCHANGED <<callVars, joined, coord, force, bufferVars>> /\ phase = "running"
  BY DEF WorkerStep
<1>2. /\ pc[w] \notin {"stopped", "exhausted"}
      /\ \A v \in Workers \ {w} : pc'[v] = pc[v]
      /\ pc'[w] = "stopped" => cancelled
  <2>1. pc \in [Workers -> WorkerStates] /\ Count \in Nat /\ nextRequest \in Nat
    BY ResultChunksAssumption DEF TypeOK
  <2>2. CASE TakeRequest(w)
    BY <2>1, <2>2 DEF TakeRequest, Goto
  <2>3. CASE ~TakeRequest(w)
    BY <2>1, <2>3 DEF WorkerStep, SendRequest, Respond, Panic, Insert, Publish, Goto
  <2> QED
    BY <2>2, <2>3
<1>3. w \notin joined /\ joined \subseteq Workers
  BY <1>2 DEF Drained, TypeOK
<1>4. coord \notin Draining
  BY <1>3 DEF Drained
<1>5. LeftEarly' => LeftEarly \/ cancelled
  BY <1>2 DEF LeftEarly
<1>6. \A v \in joined' : pc'[v] \in {"stopped", "exhausted"}
  BY <1>1, <1>2, <1>3 DEF Drained
<1>7. phase' = "running" /\ LeftEarly' => cancelled' \/ lowered'
  BY <1>1, <1>5 DEF Drained, callVars
<1>8. phase' = "running" /\ coord' = coord
  BY <1>1 DEF callVars
<1> QED
  BY <1>4, <1>6, <1>7, <1>8 DEF Drained

LEMMA StepWorker ==
  ASSUME IInv, NEW w \in Workers, WorkerStep(w)
  PROVE  IInv'
<1>1. Buffered'
  <2>1. UNCHANGED bufferVars
    BY DEF WorkerStep
  <2>2. completed \subseteq completed'
    BY DEF WorkerStep, TakeRequest, SendRequest, Respond, Panic, Insert, Publish
  <2>3. \A i \in completed : answer'[i] = answer[i]
    <3>1. CASE Respond(w)
      <4>1. /\ pc[w] = "requesting"
            /\ \/ answer' = [answer EXCEPT ![held[w]] = "filtered"]
               \/ answer' = [answer EXCEPT ![held[w]] = "actionable"]
        BY <3>1 DEF Respond
      <4>2. held[w] \notin completed /\ completed \subseteq Indexes
        BY <4>1 DEF IInv, GivenOut, TypeOK
      <4>3. answer \in [Indexes -> {"none", "filtered", "actionable"}]
        BY DEF IInv, TypeOK
      <4> QED
        BY <4>1, <4>2, <4>3
    <3>2. CASE ~Respond(w)
      BY <3>2 DEF WorkerStep, TakeRequest, SendRequest, Panic, Insert, Publish
    <3> QED
      BY <3>1, <3>2
  <2> QED
    BY <2>1, <2>2, <2>3, BufferedKept DEF IInv
<1> QED
  BY <1>1, WorkerTypes, WorkerGivenOut, WorkerFiled, WorkerDrained DEF IInv

\* take_ready, with or without a chunk.
LEMMA RefreshFiled ==
  ASSUME TypeOK, GivenOut, Filed, Buffered, Refresh, CoordUnchanged
  PROVE  Filed' /\ GivenOut' /\ pendingResults' \subseteq Indexes
<1>1. /\ Count \in Nat /\ nextIndex \in Nat /\ pendingResults \subseteq Indexes
      /\ Indexes \subseteq Nat /\ completed \subseteq Indexes
  BY ResultChunksAssumption DEF TypeOK, Indexes
<1>2. /\ ReadyIndex \in nextIndex .. Count
      /\ nextIndex .. (ReadyIndex - 1) \subseteq completed
  BY ReadyIndexWorks
<1>3. /\ nextIndex' = ReadyIndex /\ pendingResults' = pendingResults \ NewResults
      /\ UNCHANGED <<nextRequest, pc, held, completed, answer>>
  BY DEF Refresh, CoordUnchanged
<1>4. NewResults = pendingResults \cap (nextIndex .. (ReadyIndex - 1))
  BY DEF NewResults
<1>5. GivenOut' /\ pendingResults' \subseteq Indexes
  BY <1>1, <1>3 DEF GivenOut
<1>6. \A w \in Workers : pc[w] = "publish" => held[w] \notin NewResults
  BY <1>2, <1>4 DEF GivenOut
<1>7. \A i \in pendingResults' : i >= nextIndex'
  <2> SUFFICES ASSUME NEW i \in pendingResults' PROVE i >= ReadyIndex
    BY <1>3
  <2>1. i \in Nat /\ i >= nextIndex /\ i \notin nextIndex .. (ReadyIndex - 1)
    BY <1>1, <1>3, <1>4 DEF Filed
  <2> QED
    BY <1>1, <1>2, <2>1
<1>8. ASSUME NEW i \in completed', answer'[i] = "actionable", i >= nextIndex'
      PROVE  i \in pendingResults'
  <2>1. i \in Nat /\ i >= nextIndex /\ i \notin nextIndex .. (ReadyIndex - 1)
    BY <1>1, <1>2, <1>3, <1>8
  <2> QED
    BY <1>3, <1>4, <1>8, <2>1 DEF Filed
<1> QED
  BY <1>3, <1>5, <1>6, <1>7, <1>8 DEF Filed

LEMMA TakeNoneKeeps ==
  ASSUME TypeOK, GivenOut, Filed, Buffered, TakeNone, CoordUnchanged
  PROVE  /\ Filed' /\ GivenOut' /\ Buffered' /\ pendingResults' \subseteq Indexes
         /\ chunkStart' \in 0 .. Count /\ nextIndex' \in chunkStart' .. Count
         /\ readyResults' \in Seq(Nat) /\ delivered' \in Seq(Nat)
<1>1. /\ Refresh /\ readyResults' = Ready /\ chunkStart' = chunkStart /\ delivered' = delivered
      /\ answer' = answer /\ completed' = completed /\ nextIndex' = ReadyIndex
  BY DEF TakeNone, CoordUnchanged, Refresh
<1>2. /\ Count \in Nat /\ chunkStart \in Nat /\ nextIndex \in Nat
      /\ chunkStart <= nextIndex /\ nextIndex <= Count /\ delivered \in Seq(Nat)
  BY ResultChunksAssumption DEF TypeOK
<1>3. /\ ReadyIndex \in nextIndex .. Count
      /\ nextIndex .. (ReadyIndex - 1) \subseteq completed
  BY ReadyIndexWorks
<1>4. /\ Ready \in Seq(Nat) /\ Ascending(Ready)
      /\ ToSet(Ready) = {i \in chunkStart .. (ReadyIndex - 1) : answer[i] = "actionable"}
  BY ReadyExact DEF Actionable
<1>5. 0 .. (ReadyIndex - 1) \subseteq completed
  <2>1. 0 .. (nextIndex - 1) \subseteq completed
    BY DEF Buffered
  <2> QED
    BY <1>2, <1>3, <2>1
<1>6. DeliveredExact'
  BY <1>1 DEF Buffered, DeliveredExact, Ascending
<1>7. Buffered'
  BY <1>1, <1>4, <1>5, <1>6 DEF Buffered, Ascending
<1> QED
  BY <1>1, <1>2, <1>3, <1>4, <1>7, RefreshFiled

LEMMA TakeChunkKeeps ==
  ASSUME TypeOK, GivenOut, Filed, Buffered, TakeChunk, CoordUnchanged,
         NEW flush \in BOOLEAN, HasChunk(flush)
  PROVE  /\ Filed' /\ GivenOut' /\ Buffered' /\ pendingResults' \subseteq Indexes
         /\ chunkStart' \in 0 .. Count /\ nextIndex' \in chunkStart' .. Count
         /\ chunkStart' \in chunkStart + 1 .. Count
         /\ readyResults' \in Seq(Nat) /\ delivered' \in Seq(Nat)
<1> DEFINE back == SubSeq(Ready, Leading + 1, Len(Ready))
           seen == delivered \o SubSeq(Ready, 1, Leading)
<1>1. /\ Refresh /\ readyResults' = back /\ chunkStart' = EndIndex /\ delivered' = seen
      /\ answer' = answer /\ completed' = completed /\ nextIndex' = ReadyIndex
  BY DEF TakeChunk, CoordUnchanged, Refresh
<1>2. /\ Count \in Nat /\ chunkStart \in Nat /\ nextIndex \in Nat
      /\ chunkStart <= nextIndex /\ nextIndex <= Count
  BY ResultChunksAssumption DEF TypeOK
<1>3. /\ ReadyIndex \in nextIndex .. Count
      /\ nextIndex .. (ReadyIndex - 1) \subseteq completed
  BY ReadyIndexWorks
<1>4. /\ EndIndex \in chunkStart + 1 .. ReadyIndex
      /\ back \in Seq(Nat) /\ Ascending(back)
      /\ ToSet(back) = {i \in EndIndex .. (ReadyIndex - 1) : answer[i] = "actionable"}
      /\ seen \in Seq(Nat) /\ Ascending(seen)
      /\ ToSet(seen) = {i \in 0 .. (EndIndex - 1) : answer[i] = "actionable"}
  BY ChunkExact DEF Actionable
<1> HIDE DEF back, seen
<1>5. 0 .. (ReadyIndex - 1) \subseteq completed
  <2>1. 0 .. (nextIndex - 1) \subseteq completed
    BY DEF Buffered
  <2> QED
    BY <1>2, <1>3, <2>1
<1>6. DeliveredExact'
  BY <1>1, <1>4 DEF DeliveredExact, Ascending
<1>7. Buffered'
  BY <1>1, <1>4, <1>5, <1>6 DEF Buffered, Ascending
<1>8. /\ EndIndex \in 0 .. Count /\ ReadyIndex \in EndIndex .. Count
      /\ EndIndex \in chunkStart + 1 .. Count
  BY <1>2, <1>3, <1>4
<1> QED
  BY <1>1, <1>4, <1>7, <1>8, RefreshFiled

\* The coordinator's steps that leave the workers and the buffer alone.
LEMMA CoordControl ==
  ASSUME IInv, phase = "running", UNCHANGED <<workerVars, bufferVars>>,
         \/ SelectJoin \/ SelectPanicked \/ SelectTick \/ Check \/ FinalCheck
         \/ Finish \/ CallbackReturns \/ CallbackRaises
  PROVE  IInv'
<1> USE DEF IInv
<1>1. GivenOut' /\ Filed' /\ LeftEarly' = LeftEarly
  BY DEF GivenOut, Filed, LeftEarly, workerVars, bufferVars
<1>2. Buffered'
  BY BufferedKept DEF workerVars
<1>3. /\ joined' \subseteq Workers /\ force' \in BOOLEAN
      /\ coord' \in {"select", "check", "take", "deliver"} \cup Draining
      /\ cancelled' = cancelled /\ lowered' = lowered
      /\ phase' \in {"running", "leaving"} /\ result' \in Call!Results
      /\ phase' = "leaving" => result' # "none"
  BY DEF SelectJoin, SelectPanicked, SelectTick, Check, FinalCheck, Finish, CallbackReturns,
         CallbackRaises, Return, callVars, TypeOK, Call!Results
<1>4. TypeOK'
  BY <1>3 DEF TypeOK, workerVars, bufferVars
<1>5. \A v \in joined' : pc'[v] \in {"stopped", "exhausted"}
  BY DEF SelectJoin, SelectPanicked, SelectTick, Check, FinalCheck, Finish, CallbackReturns,
         CallbackRaises, Return, Drained, workerVars
<1>6. coord' \in Draining => joined' = Workers
  BY DEF SelectJoin, SelectPanicked, SelectTick, Check, FinalCheck, Finish, CallbackReturns,
         CallbackRaises, Return, Drained
<1>7. /\ coord' \in {"rest", "deliverRest"} /\ LeftEarly' => lowered'
      /\ coord' \in {"rest", "deliverRest"} => force'
  BY <1>1, <1>3 DEF SelectJoin, SelectPanicked, SelectTick, Check, FinalCheck, Finish,
         CallbackReturns, CallbackRaises, Return, Drained
<1>8. phase' = "running" /\ LeftEarly' => cancelled' \/ lowered'
  BY <1>1, <1>3 DEF Drained
<1>9. Drained'
  BY <1>3, <1>5, <1>6, <1>7, <1>8 DEF Drained
<1> QED
  BY <1>1, <1>2, <1>4, <1>9

\* The steps of the coordinator.
LEMMA StepCoord ==
  ASSUME IInv, CoordStep
  PROVE  IInv'
<1>1. phase = "running"
  BY DEF CoordStep
<1>2. CASE TakeReady
  <2>1. /\ TakeChunk /\ CoordUnchanged /\ HasChunk(force) /\ force \in BOOLEAN
        /\ UNCHANGED <<callVars, joined, force>>
        /\ coord \in {"take", "rest"}
        /\ coord' = IF coord = "take" THEN "deliver" ELSE "deliverRest"
    BY <1>2 DEF TakeReady, IInv, TypeOK
  <2>2. /\ Filed' /\ GivenOut' /\ Buffered' /\ pendingResults' \subseteq Indexes
        /\ chunkStart' \in 0 .. Count /\ nextIndex' \in chunkStart' .. Count
        /\ readyResults' \in Seq(Nat) /\ delivered' \in Seq(Nat)
    BY <2>1, TakeChunkKeeps DEF IInv
  <2>3. TypeOK'
    BY <2>1, <2>2 DEF IInv, TypeOK, CoordUnchanged, callVars
  <2>4. Drained'
    BY <1>1, <2>1 DEF IInv, Drained, CoordUnchanged, callVars, LeftEarly
  <2> QED
    BY <2>2, <2>3, <2>4 DEF IInv
<1>3. CASE NothingReady
  <2>1. /\ TakeNone /\ CoordUnchanged /\ UNCHANGED <<callVars, joined, force>>
        /\ coord' = IF joined = Workers THEN "final" ELSE "select"
    BY <1>3 DEF NothingReady
  <2>2. /\ Filed' /\ GivenOut' /\ Buffered' /\ pendingResults' \subseteq Indexes
        /\ chunkStart' \in 0 .. Count /\ nextIndex' \in chunkStart' .. Count
        /\ readyResults' \in Seq(Nat) /\ delivered' \in Seq(Nat)
    BY <2>1, TakeNoneKeeps DEF IInv
  <2>3. TypeOK'
    BY <2>1, <2>2 DEF IInv, TypeOK, CoordUnchanged, callVars
  <2>4. Drained'
    BY <1>1, <2>1 DEF IInv, Drained, CoordUnchanged, callVars, LeftEarly
  <2> QED
    BY <2>2, <2>3, <2>4 DEF IInv
<1>4. CASE ~TakeReady /\ ~NothingReady
  <2>1. \/ SelectJoin \/ SelectPanicked \/ SelectTick \/ Check \/ FinalCheck
        \/ Finish \/ CallbackReturns \/ CallbackRaises
    BY <1>4 DEF CoordStep
  <2>2. UNCHANGED <<workerVars, bufferVars>>
    BY <2>1 DEF SelectJoin, SelectPanicked, SelectTick, Check, FinalCheck, Finish,
                CallbackReturns, CallbackRaises, Return
  <2> QED
    BY <1>1, <2>1, <2>2, CoordControl
<1> QED
  BY <1>2, <1>3, <1>4

LEMMA NextIInv ==
  ASSUME IInv, [Next]_vars
  PROVE  IInv'
BY StepCall, StepWorker, StepCoord DEF Next, Over

LEMMA SpecIInv == Spec => []IInv
BY InitIInv, NextIInv, PTL DEF Spec

\* The chunks given to the callback are exactly the actionable results of the
\* delivered prefix, in request order, whatever the order in which the workers
\* complete and publish them.
THEOREM ChunksAreExact == Spec => []DeliveredExact
<1>1. IInv => DeliveredExact
  BY DEF IInv, Buffered
<1> QED
  BY <1>1, SpecIInv, PTL

-----------------------------------------------------------------------------
(* The contract of a call                                                  *)

\* The abstract state each concrete state stands for.
Total == IF Open THEN Count ELSE 0
Offset == IF Open THEN chunkStart ELSE 0
Stopped == IF ~Open THEN "no"
           ELSE IF lowered THEN "missed" ELSE IF LeftEarly THEN "seen" ELSE "no"

\* A drain that ends short of the last path has lost a worker to a
\* cancellation that was withdrawn.
LEMMA ShortExplained ==
  ASSUME IInv, coord = "rest", ~HasChunk(TRUE), chunkStart # Count
  PROVE  chunkStart < Count /\ lowered
<1>1. /\ Count \in Nat /\ chunkStart \in Nat /\ nextIndex \in Nat
      /\ chunkStart <= nextIndex /\ nextIndex <= Count
  BY ResultChunksAssumption DEF IInv, TypeOK
<1>2. ReadyIndex \in nextIndex .. Count /\ ReadyIndex \notin completed
  BY ReadyIndexWorks DEF IInv
<1>3. chunkStart < Count /\ ReadyIndex = chunkStart
  BY <1>1, <1>2 DEF HasChunk, ReadyCount
<1>4. \A w \in Workers : pc[w] \in {"stopped", "exhausted"}
  BY DEF IInv, Drained
<1>5. LeftEarly
  <2> SUFFICES ASSUME ~LeftEarly PROVE FALSE
    OBVIOUS
  <2>1. \A w \in Workers : pc[w] = "exhausted"
    BY <1>4 DEF LeftEarly
  <2>2. nextRequest >= Count /\ nextRequest \in Nat
    BY <2>1, ResultChunksAssumption DEF IInv, GivenOut, TypeOK
  <2>3. chunkStart \in Indexes /\ chunkStart < nextRequest /\ chunkStart \notin completed
    BY <1>1, <1>2, <1>3, <2>2 DEF Indexes
  <2> QED
    BY <2>1, <2>3 DEF IInv, GivenOut
<1> QED
  BY <1>3, <1>5 DEF IInv, Drained

\* Call's variables, by their names here.
LEMMA CallState ==
  /\ Call!callVars = <<cancelled, phase, result, Total, Offset, Stopped>>
  /\ Call!callVars' = <<cancelled', phase', result', Total', Offset', Stopped'>>
BY DEF Call!callVars, Total, Offset, Stopped

LEMMA InitCall == Init => Call!CallInit
BY DEF Init, Call!CallInit, Open

\* cancel() and reset_cancel().
LEMMA CancelRefines ==
  ASSUME IInv, NEW flag \in BOOLEAN, SetCancelled(flag)
  PROVE  Call!SetCancelled(flag)
<1>1. /\ cancelled' = flag /\ lowered' = (lowered \/ (~flag /\ LeftEarly))
      /\ UNCHANGED <<phase, result>> /\ Open' = Open
      /\ chunkStart' = chunkStart /\ LeftEarly' = LeftEarly
  BY DEF SetCancelled, Open, LeftEarly, workerVars, bufferVars
<1> QED
  BY <1>1 DEF Call!SetCancelled

\* A call begins, or is refused.
LEMMA EnterRefines ==
  ASSUME IInv, Enter
  PROVE  Total' \in Nat /\ Call!Enter(Total')
<1>1. /\ phase = "idle" /\ cancelled' = FALSE
      /\ phase' = IF cancelled THEN "idle" ELSE "running"
      /\ result' = IF cancelled THEN "refused" ELSE "none"
      /\ lowered' = FALSE /\ LeftEarly' = FALSE /\ chunkStart' = 0
  BY DEF Enter, IInv, Drained, LeftEarly, workerVars, bufferVars, TypeOK
<1>2. Count \in Nat
  BY ResultChunksAssumption
<1> QED
  BY <1>1, <1>2 DEF Call!Enter, Open, Total

\* A worker that sees the flag is the only one the contract mentions.
LEMMA WorkerRefines ==
  ASSUME IInv, NEW w \in Workers, WorkerStep(w)
  PROVE  Call!WorkerStops \/ UNCHANGED Call!callVars
<1>1. /\ phase = "running" /\ UNCHANGED <<cancelled, phase, result, lowered, chunkStart>>
      /\ Open /\ Open'
  BY DEF WorkerStep, callVars, bufferVars, Open
<1>2. /\ pc[w] # "stopped"
      /\ pc'[w] = "stopped" => cancelled
      /\ \A v \in Workers \ {w} : pc'[v] = pc[v]
  <2>1. pc \in [Workers -> WorkerStates] /\ Count \in Nat /\ nextRequest \in Nat
    BY ResultChunksAssumption DEF IInv, TypeOK
  <2>2. CASE TakeRequest(w)
    BY <2>1, <2>2 DEF TakeRequest, Goto
  <2>3. CASE ~TakeRequest(w)
    BY <2>1, <2>3 DEF WorkerStep, SendRequest, Respond, Panic, Insert, Publish, Goto
  <2> QED
    BY <2>2, <2>3
<1>3. LeftEarly => LeftEarly'
  BY <1>2 DEF LeftEarly
<1>4. LeftEarly' => LeftEarly \/ cancelled
  BY <1>2 DEF LeftEarly
<1>5. Total' = Total /\ Offset' = Offset
  BY <1>1 DEF Total, Offset
<1>6. CASE lowered \/ LeftEarly \/ ~LeftEarly'
  <2>1. Stopped' = Stopped
    BY <1>1, <1>3, <1>6 DEF Stopped
  <2> QED
    BY <1>1, <1>5, <2>1, CallState
<1>7. CASE ~lowered /\ ~LeftEarly /\ LeftEarly'
  BY <1>1, <1>4, <1>7 DEF Call!WorkerStops
<1> QED
  BY <1>6, <1>7

\* A chunk is the next paths; nothing else of the coordinator's loop shows.
LEMMA DeliverRefines ==
  ASSUME IInv, phase = "running", TakeReady
  PROVE  Call!Deliver(Offset' - Offset)
<1>1. /\ TakeChunk /\ CoordUnchanged /\ HasChunk(force) /\ force \in BOOLEAN
      /\ UNCHANGED <<cancelled, phase, result, lowered>>
  BY DEF TakeReady, IInv, TypeOK, callVars
<1>2. chunkStart' \in chunkStart + 1 .. Count
  BY <1>1, TakeChunkKeeps DEF IInv
<1>3. Open /\ Open' /\ LeftEarly' = LeftEarly
  BY <1>1 DEF Open, CoordUnchanged, LeftEarly
<1>4. Count \in Nat /\ chunkStart \in Nat
  BY ResultChunksAssumption DEF IInv, TypeOK
<1>5. Offset = chunkStart /\ Offset' = chunkStart'
  BY <1>3 DEF Offset
<1>6. /\ chunkStart' - chunkStart \in 1 .. (Count - chunkStart)
      /\ chunkStart' = chunkStart + (chunkStart' - chunkStart)
  <2>1. \A c, s \in Nat : \A n \in s + 1 .. c : n - s \in 1 .. (c - s) /\ n = s + (n - s)
    OBVIOUS
  <2> QED
    BY <1>2, <1>4, <2>1
<1> QED
  BY <1>1, <1>3, <1>5, <1>6 DEF Call!Deliver

\* The scan ends for a reason the contract allows.
LEMMA ReturnRefines ==
  ASSUME IInv, phase = "running", NEW reason \in Call!Results, Return(reason),
         \/ reason = "failed"
         \/ reason = "cancelled" /\ cancelled
         \/ reason = "complete" /\ chunkStart = Count
         \/ reason = "short" /\ chunkStart < Count /\ lowered
  PROVE  Call!End(reason)
<1>1. /\ phase' = "leaving" /\ result' = reason
      /\ UNCHANGED <<cancelled, lowered, chunkStart>> /\ LeftEarly' = LeftEarly
      /\ Open /\ Open'
  BY DEF Return, workerVars, bufferVars, LeftEarly, Open
<1>2. Call!MayEnd(reason)
  BY <1>1 DEF Call!MayEnd
<1> QED
  BY <1>1, <1>2 DEF Call!End

LEMMA LeaveRefines ==
  ASSUME IInv, Leave
  PROVE  Call!Leave
BY DEF Leave, Call!Leave, Open

\* Every step of the coordinator is a step of the contract or none.
LEMMA CoordRefines ==
  ASSUME IInv, CoordStep
  PROVE  \/ Call!Deliver(Offset' - Offset)
         \/ \E reason \in Call!Results : Call!End(reason)
         \/ UNCHANGED Call!callVars
<1>1. phase = "running"
  BY DEF CoordStep
<1>2. CASE TakeReady
  BY <1>1, <1>2, DeliverRefines
<1>3. CASE \E reason \in Call!Results :
             /\ Return(reason)
             /\ \/ reason = "failed"
                \/ reason = "cancelled" /\ cancelled
                \/ reason = "complete" /\ chunkStart = Count
                \/ reason = "short" /\ chunkStart < Count /\ lowered
  BY <1>1, <1>3, ReturnRefines
<1>4. CASE UNCHANGED <<callVars, pc, chunkStart>>
  <2>1. Total' = Total /\ Offset' = Offset /\ Stopped' = Stopped
    BY <1>4 DEF Total, Offset, Stopped, Open, LeftEarly, callVars
  <2> QED
    BY <1>4, <2>1, CallState DEF callVars
<1>5. CASE Finish
  <2> DEFINE reason == IF chunkStart = Count THEN "complete" ELSE "short"
  <2>1. Return(reason) /\ reason \in Call!Results /\ coord = "rest" /\ ~HasChunk(TRUE)
    BY <1>5 DEF Finish, Call!Results
  <2>2. chunkStart # Count => chunkStart < Count /\ lowered
    BY <2>1, ShortExplained
  <2> QED
    BY <1>3, <2>1, <2>2
<1>6. CASE SelectPanicked \/ CallbackRaises
  BY <1>3, <1>6 DEF SelectPanicked, CallbackRaises, Call!Results
<1>7. CASE Check \/ FinalCheck
  <2>1. (cancelled /\ Return("cancelled")) \/ UNCHANGED <<callVars, workerVars, bufferVars>>
    BY <1>7 DEF Check, FinalCheck
  <2> QED
    BY <1>3, <1>4, <2>1 DEF Call!Results, workerVars, bufferVars
<1>8. CASE SelectJoin \/ SelectTick \/ CallbackReturns
  BY <1>4, <1>8 DEF SelectJoin, SelectTick, CallbackReturns, workerVars, bufferVars
<1>9. CASE NothingReady
  BY <1>4, <1>9 DEF NothingReady, TakeNone, CoordUnchanged
<1> QED
  BY <1>2, <1>5, <1>6, <1>7, <1>8, <1>9 DEF CoordStep

\* deliver_chunks keeps the contract NativeScan is built on: the paths are
\* delivered as consecutive ranges until the call is complete, cancelled,
\* failed, or short because a cancellation was withdrawn under it.
THEOREM CallKeepsItsContract == Spec => ImplementsCall
<1>1. Init => Call!CallInit
  BY InitCall
<1>2. ASSUME IInv, [Next]_vars PROVE [Call!CallNext]_(Call!callVars)
  <2>1. CASE \E flag \in BOOLEAN : SetCancelled(flag)
    BY <1>2, <2>1, CancelRefines DEF Call!CallNext
  <2>2. CASE Enter
    <3>1. Total' \in Nat /\ Call!Enter(Total')
      BY <1>2, <2>2, EnterRefines
    <3> QED
      BY <3>1 DEF Call!CallNext, Total
  <2>3. CASE Leave
    BY <1>2, <2>3, LeaveRefines DEF Call!CallNext
  <2>4. CASE \E w \in Workers : WorkerStep(w)
    BY <1>2, <2>4, WorkerRefines DEF Call!CallNext
  <2>5. CASE CoordStep
    <3>1. CASE Call!Deliver(Offset' - Offset)
      BY <3>1 DEF Call!CallNext, Offset
    <3>2. CASE ~Call!Deliver(Offset' - Offset)
      BY <1>2, <2>5, <3>2, CoordRefines DEF Call!CallNext
    <3> QED
      BY <3>1, <3>2
  <2>6. CASE UNCHANGED vars
    <3>1. UNCHANGED <<cancelled, phase, result, lowered, pc, chunkStart>>
      BY <2>6 DEF vars, callVars, workerVars, bufferVars
    <3>2. Total' = Total /\ Offset' = Offset /\ Stopped' = Stopped
      BY <3>1 DEF Total, Offset, Stopped, Open, LeftEarly
    <3> QED
      BY <3>1, <3>2, CallState
  <2> QED
    BY <1>2, <2>1, <2>2, <2>3, <2>4, <2>5, <2>6 DEF Next, Over
<1> QED
  BY <1>1, <1>2, SpecIInv, PTL DEF Spec, ImplementsCall, Call!CallSpec

-----------------------------------------------------------------------------
(***************************************************************************)
(* The wordlist generators (WordlistGeneration).                           *)
(***************************************************************************)

\* What every configuration the generators are given satisfies.
OptionsOK(o) ==
    /\ o.extensions \in Seq(STRING)
    /\ o.prefixes \in Seq(STRING)
    /\ o.suffixes \in Seq(STRING)
    /\ o.wordlist_max_size \in Nat \ {0}

\* What lines are made of: strings, the marks the code adds among them.
Token == STRING \cup {"%", "ext", "sub", ".", "/"}
Line == Seq(Token)


(***************************************************************************)
(* Functions defined by recursion over 0..n.                               *)
(***************************************************************************)
\* Induction over 0..n, stated of a set of numbers.
LEMMA Steps ==
  ASSUME NEW n \in Nat, NEW P, 0 \in P, \A i \in 1 .. n : i - 1 \in P => i \in P
  PROVE  \A i \in 0 .. n : i \in P
<1> DEFINE T == {i \in 0 .. n : i \notin P}
           R == {ss \in Nat \X Nat : ss[1] < ss[2]}
<1>1. SUFFICES ASSUME T # {}
               PROVE  FALSE
  OBVIOUS
<1>2. IsWellFoundedOn(R, Nat)
  BY NatLessThanWellFounded, Zenon DEF OpToRel
<1>3. T \subseteq Nat
  OBVIOUS
<1>4. PICK x \in T : \A y \in T : ~(<<y, x>> \in R)
  <2> HIDE DEF R, T
  <2> QED
    BY <1>1, <1>2, <1>3, WFMin, Zenon
<1>5. x \in 1 .. n /\ x - 1 \in Nat /\ x - 1 < x
  BY <1>4
<1>6. x - 1 \notin T
  BY <1>3, <1>4, <1>5
<1> QED
  BY <1>4, <1>5, <1>6

\* A step function on a set has a run of any length.
StepFunction(G, S, n) == G \in [S \X (1 .. n) -> S]

RunOf(f, G, base, S, n) ==
  /\ f \in [0 .. n -> S] /\ f[0] = base
  /\ \A i \in 1 .. n : f[i] = G[<<f[i - 1], i>>]

\* A recursive definition over 0..n has a function, with values in the set its step keeps.
LEMMA RunExists ==
  ASSUME NEW n \in Nat, NEW S, NEW base \in S, NEW G, StepFunction(G, S, n)
  PROVE  \E f : RunOf(f, G, base, S, n)
<1> USE DEF StepFunction, RunOf
<1> DEFINE Run(f, k) == /\ f \in [0 .. k -> S] /\ f[0] = base
                        /\ \A i \in 1 .. k : f[i] = G[<<f[i - 1], i>>]
           P == {k \in 0 .. n : \E f : Run(f, k)}
<1>1. 0 \in P
  <2> DEFINE f == [i \in 0 .. 0 |-> base]
  <2>1. Run(f, 0)
    OBVIOUS
  <2> HIDE DEF Run, f
  <2> QED
    BY <2>1
<1>2. ASSUME NEW k \in 1 .. n, k - 1 \in P
      PROVE  k \in P
  <2>1. PICK f : Run(f, k - 1)
    BY <1>2
  <2> DEFINE g == [i \in 0 .. k |-> IF i = k THEN G[<<f[k - 1], k>>] ELSE f[i]]
  <2>2. f[k - 1] \in S /\ G[<<f[k - 1], k>>] \in S
    <3>1. k - 1 \in 0 .. (k - 1)
      OBVIOUS
    <3>2. f[k - 1] \in S
      BY <2>1, <3>1
    <3> QED
      BY <3>2
  <2>3. g \in [0 .. k -> S] /\ g[0] = base /\ g[k] = G[<<f[k - 1], k>>]
        /\ \A i \in 0 .. k - 1 : g[i] = f[i]
    BY <2>1, <2>2
  <2>4. ASSUME NEW i \in 1 .. k
        PROVE  g[i] = G[<<g[i - 1], i>>]
    <3>1. i - 1 \in 0 .. k - 1 /\ (i # k => i \in 0 .. k - 1 /\ i \in 1 .. k - 1)
      OBVIOUS
    <3> HIDE DEF g
    <3>2. CASE i = k
      BY <2>3, <3>1, <3>2
    <3>3. CASE i # k
      BY <2>1, <2>3, <3>1, <3>3
    <3> QED
      BY <3>2, <3>3
  <2>5. Run(g, k)
    <3> HIDE DEF g
    <3> QED
      BY <2>3, <2>4
  <2> HIDE DEF Run, g
  <2> QED
    BY <2>5
<1>3. n \in P
  <2> HIDE DEF P
  <2> QED
    BY <1>1, <1>2, Steps
<1> QED
  BY <1>3

(***************************************************************************)
(* The searches for placeholders.                                          *)
(***************************************************************************)
Searches == [open : BOOLEAN, name : Seq(Token), names : Seq(Seq(Token))]

\* One token keeps a search a search.
LEMMA SearchedType ==
  ASSUME NEW s \in Searches, NEW t \in Token
  PROVE  Searched(s, t) \in Searches
<1>1. s = [open |-> s.open, name |-> s.name, names |-> s.names]
  BY DEF Searches
<1>2. s.open \in BOOLEAN /\ s.name \in Seq(Token) /\ s.names \in Seq(Seq(Token))
  BY DEF Searches
<1>3. /\ <<>> \in Seq(Token) /\ Append(s.names, s.name) \in Seq(Seq(Token))
      /\ Append(s.name, t) \in Seq(Token)
  BY <1>2, EmptySeq
<1>4. [open |-> FALSE, name |-> <<>>, names |-> Append(s.names, s.name)] \in Searches
  BY <1>3 DEF Searches
<1>5. [s EXCEPT !.open = TRUE, !.name = <<>>] \in Searches
  BY <1>3 DEF Searches
<1>6. [s EXCEPT !.name = Append(@, t)] \in Searches
  BY <1>3 DEF Searches
<1>7. [s EXCEPT !.open = FALSE, !.name = <<>>] \in Searches
  BY <1>3 DEF Searches
<1> QED
  BY <1>4, <1>5, <1>6, <1>7 DEF Searched

\* The search of a line, token by token.
LEMMA SearchSteps ==
  ASSUME NEW line \in Line, NEW n, n = Len(line)
  PROVE  /\ n \in Nat /\ Search(line)[0] = NoSearch
         /\ \A i \in 1 .. n : Search(line)[i] = Searched(Search(line)[i - 1], line[i])
         /\ \A i \in 0 .. n : Search(line)[i] \in Searches
<1> USE DEF Line
<1>1. n \in Nat /\ \A i \in 1 .. n : line[i] \in Token
  OBVIOUS
<1> DEFINE G == [z \in Searches \X (1 .. n) |-> Searched(z[1], line[z[2]])]
           IsRun(g) == g = [i \in 0 .. n |-> IF i = 0 THEN NoSearch ELSE Searched(g[i - 1], line[i])]
<1>2. NoSearch \in Searches
  BY DEF NoSearch, Searches
<1>3. StepFunction(G, Searches, n)
  BY <1>1, SearchedType DEF StepFunction
<1>4. PICK f : RunOf(f, G, NoSearch, Searches, n)
  <2> HIDE DEF G
  <2> QED
    BY <1>1, <1>2, <1>3, RunExists
<1>5. IsRun(f)
  <2>1. \A i \in 1 .. n : i - 1 \in 0 .. n /\ f[i - 1] \in Searches
    BY <1>4 DEF RunOf
  <2>2. \A i \in 1 .. n : f[i] = Searched(f[i - 1], line[i])
    BY <1>4, <2>1 DEF RunOf
  <2> QED
    BY <1>4, <2>2 DEF RunOf
<1>6. IsRun(Search(line))
  <2>1. Search(line) = CHOOSE g : IsRun(g)
    BY DEF Search
  <2> HIDE DEF IsRun
  <2> QED
    BY <1>5, <2>1, Zenon
<1> DEFINE F == Search(line)
<1>7. /\ F[0] = NoSearch
      /\ \A i \in 1 .. n : F[i] = Searched(F[i - 1], line[i])
  <2> HIDE DEF F
  <2>1. F = [i \in 0 .. n |-> IF i = 0 THEN NoSearch ELSE Searched(F[i - 1], line[i])]
    BY <1>6 DEF F
  <2> QED
    BY <1>1, <2>1
<1>8. \A i \in 0 .. n : F[i] \in Searches
  <2> DEFINE P == {i \in 0 .. n : F[i] \in Searches}
  <2>1. 0 \in P
    BY <1>1, <1>2, <1>7
  <2>2. ASSUME NEW i \in 1 .. n, i - 1 \in P
        PROVE  i \in P
    <3> HIDE DEF F
    <3>1. F[i - 1] \in Searches /\ line[i] \in Token
      BY <1>1, <2>2
    <3>2. Searched(F[i - 1], line[i]) \in Searches
      BY <3>1, SearchedType
    <3> QED
      BY <1>7, <3>2
  <2>3. \A i \in 0 .. n : i \in P
    <3> HIDE DEF P, F
    <3> QED
      BY <1>1, <2>1, <2>2, Steps
  <2> QED
    BY <2>3
<1> QED
  BY <1>1, <1>7, <1>8




(***************************************************************************)
(* The recursions of the generators, unfolded.                             *)
(***************************************************************************)
LEMMA ReplacedType ==
  ASSUME NEW out \in Line, NEW name \in Token, NEW value \in Line
  PROVE  Replaced(out, name, value) \in Line
<1> USE DEF Line
<1>1. Len(<<"%", name, "%">>) = 3 /\ Len(out) \in Nat
  BY LenProperties
<1>2. IsSuffix(<<"%", name, "%">>, out) => Len(out) >= 3
  <2>1. Len(Reverse(<<"%", name, "%">>)) = 3 /\ Len(Reverse(out)) = Len(out)
    BY <1>1 DEF Reverse
  <2> QED
    BY <1>1, <2>1 DEF IsSuffix, IsPrefix
<1>3. Len(out) >= 3 => SubSeq(out, 1, Len(out) - 3) \in Line
  <2>1. \A i \in 1 .. Len(out) : out[i] \in Token
    OBVIOUS
  <2> QED
    BY <2>1, SubSeqProperties
<1> QED
  BY <1>2, <1>3, ConcatProperties DEF Replaced

\* What a substitution has written after each token of the line.
LEMMA SubstitutionSteps ==
  ASSUME NEW line \in Line, NEW name \in Token, NEW value \in Line, NEW n, n = Len(line)
  PROVE  /\ n \in Nat /\ Substitution(line, name, value)[0] = <<>>
         /\ \A i \in 1 .. n : Substitution(line, name, value)[i] = Replaced(Append(Substitution(line, name, value)[i - 1], line[i]), name, value)
         /\ \A i \in 0 .. n : Substitution(line, name, value)[i] \in Line
<1>1. n \in Nat /\ \A i \in 1 .. n : line[i] \in Token
  BY DEF Line
<1> DEFINE G == [z \in Line \X (1 .. n) |-> Replaced(Append(z[1], line[z[2]]), name, value)]
           IsRun(g) == g = [i \in 0 .. n |->
                              IF i = 0 THEN <<>> ELSE Replaced(Append(g[i - 1], line[i]), name, value)]
<1>2. <<>> \in Line
  BY DEF Line
<1>3. \A s \in Line, i \in 1 .. n : Replaced(Append(s, line[i]), name, value) \in Line
  <2>1. \A s \in Line, i \in 1 .. n : Append(s, line[i]) \in Line
    BY <1>1 DEF Line
  <2> QED
    BY <2>1, ReplacedType
<1>4. StepFunction(G, Line, n)
  BY <1>3 DEF StepFunction
<1>5. PICK f : RunOf(f, G, <<>>, Line, n)
  <2> HIDE DEF G
  <2> QED
    BY <1>1, <1>2, <1>4, RunExists
<1>6. IsRun(f)
  <2>1. \A i \in 1 .. n : i - 1 \in 0 .. n /\ f[i - 1] \in Line
    BY <1>5 DEF RunOf
  <2>2. \A i \in 1 .. n : f[i] = Replaced(Append(f[i - 1], line[i]), name, value)
    BY <1>5, <2>1 DEF RunOf
  <2> QED
    BY <1>5, <2>2 DEF RunOf
<1>7. IsRun(Substitution(line, name, value))
  <2>1. Substitution(line, name, value) = CHOOSE g : IsRun(g)
    BY DEF Substitution
  <2> HIDE DEF IsRun
  <2> QED
    BY <1>6, <2>1, Zenon
<1> DEFINE F == Substitution(line, name, value)
<1>8. /\ F[0] = <<>>
      /\ \A i \in 1 .. n : F[i] = Replaced(Append(F[i - 1], line[i]), name, value)
  <2> DEFINE H(g, i) == Replaced(Append(g, line[i]), name, value)
  <2> HIDE DEF F
  <2>1. F = [i \in 0 .. n |-> IF i = 0 THEN <<>> ELSE H(F[i - 1], i)]
    BY <1>7 DEF F
  <2> HIDE DEF H
  <2>2. F[0] = <<>> /\ \A i \in 1 .. n : F[i] = H(F[i - 1], i)
    BY <1>1, <2>1
  <2> QED
    BY <2>2 DEF H
<1>9. \A i \in 0 .. n : F[i] \in Line
  <2> DEFINE P == {i \in 0 .. n : F[i] \in Line}
  <2>1. 0 \in P
    BY <1>1, <1>2, <1>8
  <2>2. ASSUME NEW i \in 1 .. n, i - 1 \in P
        PROVE  i \in P
    <3> HIDE DEF F
    <3> QED
      BY <1>3, <1>8, <2>2
  <2>3. \A i \in 0 .. n : i \in P
    <3> HIDE DEF P, F
    <3> QED
      BY <1>1, <2>1, <2>2, Steps
  <2> QED
    BY <2>3
<1> QED
  BY <1>1, <1>8, <1>9

NameLists == Seq({"ext", "sub"})

\* The placeholder names met after each token found.
LEMMA NamesSteps ==
  ASSUME NEW tokens \in Seq(Line), NEW n, n = Len(tokens)
  PROVE  /\ n \in Nat /\ TemplateNames(tokens)[0] = <<>>
         /\ \A i \in 1 .. n : TemplateNames(tokens)[i] = Named(TemplateNames(tokens)[i - 1], tokens[i])
         /\ \A i \in 0 .. n : TemplateNames(tokens)[i] \in NameLists
<1>1. n \in Nat /\ \A i \in 1 .. n : tokens[i] \in Line
  OBVIOUS
<1> DEFINE G == [z \in NameLists \X (1 .. n) |-> Named(z[1], tokens[z[2]])]
           IsRun(g) == g = [i \in 0 .. n |->
                              IF i = 0 THEN <<>> ELSE Named(g[i - 1], tokens[i])]
<1>2. <<>> \in NameLists
  BY DEF NameLists
<1>3. \A s \in NameLists, i \in 1 .. n : Named(s, tokens[i]) \in NameLists
  BY DEF Named, NameLists, is_template_token
<1>4. StepFunction(G, NameLists, n)
  BY <1>3 DEF StepFunction
<1>5. PICK f : RunOf(f, G, <<>>, NameLists, n)
  <2> HIDE DEF G
  <2> QED
    BY <1>1, <1>2, <1>4, RunExists
<1>6. IsRun(f)
  <2>1. \A i \in 1 .. n : i - 1 \in 0 .. n /\ f[i - 1] \in NameLists
    BY <1>5 DEF RunOf
  <2>2. \A i \in 1 .. n : f[i] = Named(f[i - 1], tokens[i])
    BY <1>5, <2>1 DEF RunOf
  <2> QED
    BY <1>5, <2>2 DEF RunOf
<1>7. IsRun(TemplateNames(tokens))
  <2>1. TemplateNames(tokens) = CHOOSE g : IsRun(g)
    BY DEF TemplateNames, Named
  <2> HIDE DEF IsRun
  <2> QED
    BY <1>6, <2>1, Zenon
<1> DEFINE F == TemplateNames(tokens)
<1>8. /\ F[0] = <<>>
      /\ \A i \in 1 .. n : F[i] = Named(F[i - 1], tokens[i])
  <2> HIDE DEF F
  <2>1. F = [i \in 0 .. n |-> IF i = 0 THEN <<>> ELSE Named(F[i - 1], tokens[i])]
    BY <1>7 DEF F
  <2> QED
    BY <1>1, <2>1
<1>9. \A i \in 0 .. n : F[i] \in NameLists
  <2> DEFINE P == {i \in 0 .. n : F[i] \in NameLists}
  <2>1. 0 \in P
    BY <1>1, <1>2, <1>8
  <2>2. ASSUME NEW i \in 1 .. n, i - 1 \in P
        PROVE  i \in P
    <3> HIDE DEF F
    <3> QED
      BY <1>3, <1>8, <2>2
  <2>3. \A i \in 0 .. n : i \in P
    <3> HIDE DEF P, F
    <3> QED
      BY <1>1, <2>1, <2>2, Steps
  <2> QED
    BY <2>3
<1> QED
  BY <1>1, <1>8, <1>9

Lists == [items : Seq(Line), error : BOOLEAN]

\* Adding a path keeps a wordlist a wordlist.
LEMMA AddedType ==
  ASSUME NEW o, NEW wordlist \in Lists, NEW path \in Line
  PROVE  _add_wordlist_entry(o, wordlist, path) \in Lists
<1>1. wordlist.items \in Seq(Line) /\ Append(wordlist.items, path) \in Seq(Line)
  BY AppendProperties DEF Lists
<1>2. (o.wordlist_max_size > 0 /\ Len(wordlist.items) + 1 > o.wordlist_max_size) \in BOOLEAN
  OBVIOUS
<1> DEFINE a == [items |-> Append(wordlist.items, path),
                 error |-> o.wordlist_max_size > 0 /\ Len(wordlist.items) + 1 > o.wordlist_max_size]
<1>3. a \in Lists
  BY <1>1, <1>2, Zenon DEF Lists
<1> HIDE DEF a
<1>4. _add_wordlist_entry(o, wordlist, path) \in {wordlist, a}
  BY DEF _add_wordlist_entry, a
<1> QED
  BY <1>3, <1>4


\* The wordlist after each path added.
LEMMA WordlistSteps ==
  ASSUME NEW o, OptionsOK(o), NEW paths \in Seq(Line), NEW n, n = Len(paths)
  PROVE  /\ n \in Nat /\ Wordlists(o, paths)[0] = Start
         /\ \A i \in 1 .. n : Wordlists(o, paths)[i] = _add_wordlist_entry(o, Wordlists(o, paths)[i - 1], paths[i])
         /\ \A i \in 0 .. n : Wordlists(o, paths)[i] \in Lists
<1>1. n \in Nat /\ \A i \in 1 .. n : paths[i] \in Line
  OBVIOUS
<1> DEFINE G == [z \in Lists \X (1 .. n) |-> _add_wordlist_entry(o, z[1], paths[z[2]])]
           IsRun(g) == g = [i \in 0 .. n |->
                              IF i = 0 THEN Start ELSE _add_wordlist_entry(o, g[i - 1], paths[i])]
<1>2. Start \in Lists
  BY DEF Start, Lists
<1>3. \A s \in Lists, i \in 1 .. n : _add_wordlist_entry(o, s, paths[i]) \in Lists
  BY <1>1, AddedType
<1>4. StepFunction(G, Lists, n)
  BY <1>3 DEF StepFunction
<1>5. PICK f : RunOf(f, G, Start, Lists, n)
  <2> HIDE DEF G
  <2> QED
    BY <1>1, <1>2, <1>4, RunExists
<1>6. IsRun(f)
  <2>1. \A i \in 1 .. n : i - 1 \in 0 .. n /\ f[i - 1] \in Lists
    BY <1>5 DEF RunOf
  <2>2. \A i \in 1 .. n : f[i] = _add_wordlist_entry(o, f[i - 1], paths[i])
    BY <1>5, <2>1 DEF RunOf
  <2> QED
    BY <1>5, <2>2 DEF RunOf
<1>7. IsRun(Wordlists(o, paths))
  <2>1. Wordlists(o, paths) = CHOOSE g : IsRun(g)
    BY DEF Wordlists
  <2> HIDE DEF IsRun
  <2> QED
    BY <1>6, <2>1, Zenon
<1> DEFINE F == Wordlists(o, paths)
<1>8. /\ F[0] = Start
      /\ \A i \in 1 .. n : F[i] = _add_wordlist_entry(o, F[i - 1], paths[i])
  <2> HIDE DEF F
  <2>1. F = [i \in 0 .. n |-> IF i = 0 THEN Start ELSE _add_wordlist_entry(o, F[i - 1], paths[i])]
    BY <1>7 DEF F
  <2> QED
    BY <1>1, <2>1
<1>9. \A i \in 0 .. n : F[i] \in Lists
  <2> DEFINE P == {i \in 0 .. n : F[i] \in Lists}
  <2>1. 0 \in P
    BY <1>1, <1>2, <1>8
  <2>2. ASSUME NEW i \in 1 .. n, i - 1 \in P
        PROVE  i \in P
    <3> HIDE DEF F
    <3> QED
      BY <1>3, <1>8, <2>2
  <2>3. \A i \in 0 .. n : i \in P
    <3> HIDE DEF P, F
    <3> QED
      BY <1>1, <2>1, <2>2, Steps
  <2> QED
    BY <2>3
<1> QED
  BY <1>1, <1>8, <1>9

(***************************************************************************)
(* Flattening.                                                             *)
(***************************************************************************)
Flattening(f, seqs, S, n) ==
  /\ f \in [0 .. n -> Seq(S)] /\ f[0] = <<>>
  /\ \A i \in 1 .. n : f[i] = f[i - 1] \o seqs[i]

\* FlattenSeq is the last of the joins of its prefixes.
LEMMA FlattenSteps ==
  ASSUME NEW S, NEW seqs \in Seq(Seq(S)), NEW n, n = Len(seqs)
  PROVE  n \in Nat /\ \E f : Flattening(f, seqs, S, n) /\ FlattenSeq(seqs) = f[n]
<1> DEFINE Q == Seq(S)
<1>1. n \in Nat /\ \A i \in 1 .. n : seqs[i] \in Q
  OBVIOUS
<1>2. <<>> \in Q /\ \A s \in Q, t \in Q : s \o t \in Q
  OBVIOUS
<1>3. \A s \in Q : <<>> \o s = s
  BY ConcatEmptySeq
<1> DEFINE G == [z \in Q \X (1 .. n) |-> z[1] \o seqs[z[2]]]
           IsRun(g) == g = [i \in 1 .. n |-> IF i = 1 THEN seqs[i] ELSE g[i - 1] \o seqs[i]]
<1>4. PICK f : RunOf(f, G, <<>>, Q, n)
  <2> HIDE DEF Q
  <2>1. StepFunction(G, Q, n)
    BY <1>1, <1>2 DEF StepFunction
  <2> HIDE DEF G
  <2> QED
    BY <1>1, <1>2, <2>1, RunExists
<1>5. Flattening(f, seqs, S, n)
  <2> HIDE DEF Q
  <2>1. \A i \in 1 .. n : i - 1 \in 0 .. n /\ f[i - 1] \in Q
    BY <1>4 DEF RunOf
  <2>2. \A i \in 1 .. n : f[i] = f[i - 1] \o seqs[i]
    BY <1>4, <2>1 DEF RunOf
  <2> QED
    BY <1>4, <2>2 DEF RunOf, Flattening, Q
<1>6. CASE n = 0
  <2>1. FlattenSeq(seqs) = seqs
    BY <1>6, Zenon DEF FlattenSeq
  <2>2. seqs = <<>>
    BY <1>6, EmptySeq
  <2> QED
    BY <1>1, <1>5, <1>6, <2>1, <2>2 DEF Flattening
<1>7. CASE n # 0
  <2>1. \A i \in 1 .. n : f[i] = IF i = 1 THEN seqs[i] ELSE f[i - 1] \o seqs[i]
    <3>1. f[1] = seqs[1]
      <4>1. 1 \in 1 .. n
        BY <1>1, <1>7
      <4> HIDE DEF Q
      <4>2. f[1] = f[1 - 1] \o seqs[1] /\ f[0] = <<>> /\ seqs[1] \in Q
        BY <1>1, <1>5, <4>1, Zenon DEF Flattening
      <4>3. 1 - 1 = 0
        OBVIOUS
      <4> QED
        BY <1>3, <4>2, <4>3, Zenon
    <3> HIDE DEF Q
    <3> QED
      BY <1>5, <3>1 DEF Flattening
  <2> DEFINE H(s, i) == s \o seqs[i]
             g == [i \in 1 .. n |-> f[i]]
  <2>2. IsRun(g)
    <3>1. \A i \in 1 .. n : g[i] = IF i = 1 THEN seqs[i] ELSE g[i - 1] \o seqs[i]
      <4>1. \A i \in 1 .. n : g[i] = f[i]
        OBVIOUS
      <4>2. \A i \in 1 .. n : i # 1 => i - 1 \in 1 .. n
        OBVIOUS
      <4> HIDE DEF g
      <4> QED
        BY <2>1, <4>1, <4>2
    <3>2. g = [i \in 1 .. n |-> g[i]]
      OBVIOUS
    <3> HIDE DEF g
    <3> QED
      BY <3>1, <3>2
  <2> DEFINE F == CHOOSE h : IsRun(h)
  <2>3. IsRun(F)
    <3> HIDE DEF IsRun, g
    <3> QED
      BY <2>2, Zenon
  <2>4. FlattenSeq(seqs) = F[n]
    BY <1>7 DEF FlattenSeq
  <2>5. \A i \in 1 .. n : F[i] = IF i = 1 THEN seqs[i] ELSE H(F[i - 1], i)
    <3>1. F = [i \in 1 .. n |-> IF i = 1 THEN seqs[i] ELSE H(F[i - 1], i)]
      BY <2>3
    <3> HIDE DEF F, H
    <3> QED
      BY <3>1
  <2>6. \A i \in 1 .. n : f[i] = IF i = 1 THEN seqs[i] ELSE H(f[i - 1], i)
    BY <2>1
  <2> DEFINE P == {i \in 0 .. n : i = 0 \/ F[i] = f[i]}
  <2>7. \A i \in 1 .. n : i - 1 \in P => i \in P
    <3> HIDE DEF F, H
    <3> QED
      BY <2>5, <2>6
  <2>8. 0 \in P
    BY <1>1
  <2>9. F[n] = f[n]
    <3>1. n \in P
      <4>1. n \in Nat
        BY <1>1
      <4> HIDE DEF P
      <4>2. \A i \in 0 .. n : i \in P
        BY <2>7, <2>8, <4>1, Steps
      <4> QED
        BY <4>1, <4>2
    <3> HIDE DEF F
    <3> QED
      BY <1>7, <3>1
  <2> HIDE DEF F
  <2> QED
    BY <1>1, <1>5, <2>4, <2>9
<1> QED
  BY <1>6, <1>7

\* Joined sequences over S are a sequence over S.
LEMMA FlattenType ==
  ASSUME NEW S, NEW seqs \in Seq(Seq(S))
  PROVE  FlattenSeq(seqs) \in Seq(S)
<1> DEFINE n == Len(seqs)
<1>1. PICK f : Flattening(f, seqs, S, n) /\ FlattenSeq(seqs) = f[n]
  BY FlattenSteps
<1>2. f \in [0 .. n -> Seq(S)] /\ n \in 0 .. n
  <2>1. n \in Nat
    BY LenProperties
  <2> QED
    BY <1>1, <2>1 DEF Flattening
<1> HIDE DEF n
<1>3. f[n] \in Seq(S)
  BY <1>2, Zenon
<1> QED
  BY <1>1, <1>3

\* One sequence joined is itself.
LEMMA FlattenSingle ==
  ASSUME NEW S, NEW seqs \in Seq(Seq(S)), Len(seqs) = 1
  PROVE  FlattenSeq(seqs) = seqs[1]
<1>1. PICK f : Flattening(f, seqs, S, 1) /\ FlattenSeq(seqs) = f[1]
  BY FlattenSteps
<1>2. f[1] = f[0] \o seqs[1] /\ f[0] = <<>> /\ seqs[1] \in Seq(S)
  <2>1. 1 \in 1 .. 1 /\ 1 - 1 = 0
    OBVIOUS
  <2>2. f[1] = f[1 - 1] \o seqs[1] /\ f[0] = <<>>
    BY <1>1, <2>1, Zenon DEF Flattening
  <2>3. seqs[1] \in Seq(S)
    BY ElementOfSeq
  <2> QED
    BY <2>1, <2>2, <2>3
<1>3. <<>> \o seqs[1] = seqs[1]
  BY <1>2, ConcatEmptySeq
<1> QED
  BY <1>1, <1>2, <1>3

\* Empty sequences joined are empty.
LEMMA FlattenNothing ==
  ASSUME NEW S, NEW seqs \in Seq(Seq(S)), \A i \in 1 .. Len(seqs) : seqs[i] = <<>>
  PROVE  FlattenSeq(seqs) = <<>>
<1> DEFINE n == Len(seqs)
<1>1. n \in Nat
  BY LenProperties
<1>2. PICK f : Flattening(f, seqs, S, n) /\ FlattenSeq(seqs) = f[n]
  BY FlattenSteps
<1> DEFINE P == {i \in 0 .. n : f[i] = <<>>}
<1>3. 0 \in P
  BY <1>1, <1>2 DEF Flattening
<1>4. <<>> \o <<>> = <<>>
  OBVIOUS
<1>5. \A i \in 1 .. n : f[i] = f[i - 1] \o seqs[i] /\ seqs[i] = <<>>
  BY <1>2 DEF Flattening
<1> HIDE DEF n
<1>6. ASSUME NEW i \in 1 .. n, i - 1 \in P
      PROVE  i \in P
  <2>1. f[i - 1] = <<>> /\ i \in 0 .. n
    BY <1>6
  <2>2. f[i] = <<>> \o <<>>
    BY <1>5, <2>1, Zenon
  <2> QED
    BY <1>4, <2>1, <2>2
<1>7. n \in P
  <2> HIDE DEF P
  <2>1. \A i \in 0 .. n : i \in P
    BY <1>1, <1>3, <1>6, Steps
  <2> QED
    BY <1>1, <2>1
<1> QED
  BY <1>2, <1>7

(***************************************************************************)
(* The placeholders a line holds.                                          *)
(***************************************************************************)
\* %ext% stands in the line.
Tag(line) == \E i \in 1..(Len(line) - 2) : SubSeq(line, i, i + 2) = <<"%", "ext", "%">>

\* The extension tag is three tokens in a row.
LEMMA TagByPosition ==
  ASSUME NEW line \in Line
  PROVE  Tag(line) <=> \E i \in 1 .. (Len(line) - 2) :
                          line[i] = "%" /\ line[i + 1] = "ext" /\ line[i + 2] = "%"
<1> DEFINE tag == <<"%", "ext", "%">>
<1>1. Len(line) \in Nat /\ \A i \in 1 .. Len(line) : line[i] \in Token
  BY DEF Line
<1>2. /\ tag \in Seq(Token) /\ Len(tag) = 3
      /\ tag[1] = "%" /\ tag[2] = "ext" /\ tag[3] = "%"
  <2>1. tag \in Seq(Token)
    <3>1. "%" \in Token /\ "ext" \in Token
      BY DEF Token
    <3> QED
      BY <3>1
  <2>2. Len(tag) = 3
    OBVIOUS
  <2> QED
    BY <2>1, <2>2
<1> HIDE DEF tag
<1> SUFFICES ASSUME NEW i \in 1 .. (Len(line) - 2)
             PROVE  SubSeq(line, i, i + 2) = tag
                      <=> line[i] = "%" /\ line[i + 1] = "ext" /\ line[i + 2] = "%"
  BY DEF Tag, tag
<1> DEFINE cut == SubSeq(line, i, i + 2)
<1>3. cut \in Seq(Token) /\ Len(cut) = 3 /\ \A k \in 1 .. 3 : cut[k] = line[i + k - 1]
  <2>1. i \in Int /\ i + 2 \in Int /\ i <= i + 2 /\ (i + 2) - i + 1 = 3
    OBVIOUS
  <2>2. \A k \in i .. i + 2 : line[k] \in Token
    BY <1>1
  <2> QED
    BY <2>1, <2>2, SubSeqProperties
<1> HIDE DEF cut
<1>4. cut[1] = line[i] /\ cut[2] = line[i + 1] /\ cut[3] = line[i + 2]
  <2>1. 1 \in 1 .. 3 /\ 2 \in 1 .. 3 /\ 3 \in 1 .. 3
    OBVIOUS
  <2>2. i + 1 - 1 = i /\ i + 2 - 1 = i + 1 /\ i + 3 - 1 = i + 2
    OBVIOUS
  <2> QED
    BY <1>3, <2>1, <2>2
<1>5. cut = tag <=> \A k \in 1 .. 3 : cut[k] = tag[k]
  BY <1>2, <1>3, SeqEqual
<1>6. (\A k \in 1 .. 3 : cut[k] = tag[k]) <=> cut[1] = tag[1] /\ cut[2] = tag[2] /\ cut[3] = tag[3]
  <2>1. \A k : k \in 1 .. 3 <=> k \in {1, 2, 3}
    OBVIOUS
  <2> QED
    BY <2>1
<1>7. cut = tag <=> line[i] = "%" /\ line[i + 1] = "ext" /\ line[i + 2] = "%"
  BY <1>2, <1>4, <1>5, <1>6
<1> QED
  BY <1>7 DEF cut

\* A name that TOKEN_RE finds is written in the line.
FoundWritten(line, s, i) ==
  /\ s.open /\ s.name = <<>> => i >= 1 /\ line[i] = "%"
  /\ s.open /\ s.name = <<"ext">> => i >= 2 /\ line[i] = "ext" /\ line[i - 1] = "%"
  /\ \A k \in DOMAIN s.names : s.names[k] = <<"ext">> =>
        \E p \in 1 .. i - 2 : line[p] = "%" /\ line[p + 1] = "ext" /\ line[p + 2] = "%"

\* One more token searched: every name found is written between percent signs.
LEMMA FoundStep ==
  ASSUME NEW line \in Line, NEW i \in 1 .. Len(line), NEW s \in Searches,
         FoundWritten(line, s, i - 1)
  PROVE  FoundWritten(line, Searched(s, line[i]), i)
<1> DEFINE t == line[i]
           written(k) == \E p \in 1 .. k - 2 : line[p] = "%" /\ line[p + 1] = "ext" /\ line[p + 2] = "%"
<1>1. /\ i \in Nat /\ i >= 1 /\ t \in Token
      /\ s.open \in BOOLEAN /\ s.name \in Seq(Token) /\ s.names \in Seq(Seq(Token))
  BY DEF Line, Searches
<1>2. /\ s.open /\ s.name = <<>> => line[i - 1] = "%"
      /\ s.open /\ s.name = <<>> => i >= 2
      /\ s.open /\ s.name = <<"ext">> => i >= 3 /\ line[i - 1] = "ext" /\ line[i - 2] = "%"
      /\ \A k \in DOMAIN s.names : s.names[k] = <<"ext">> => written(i)
  <2>1. written(i - 1) => written(i)
    BY <1>1
  <2>2. i - 1 - 1 = i - 2 /\ (i - 1 >= 1 => i >= 2) /\ (i - 1 >= 2 => i >= 3)
    BY <1>1
  <2> HIDE DEF written
  <2>3. \A k \in DOMAIN s.names : s.names[k] = <<"ext">> => written(i - 1)
    BY DEF FoundWritten, written
  <2> QED
    BY <2>1, <2>2, <2>3 DEF FoundWritten
<1>3. CASE t = "%" /\ s.open /\ s.name # <<>>
  <2>1. Searched(s, t) = [open |-> FALSE, name |-> <<>>, names |-> Append(s.names, s.name)]
    BY <1>3 DEF Searched
  <2>2. ASSUME NEW k \in DOMAIN Append(s.names, s.name), Append(s.names, s.name)[k] = <<"ext">>
        PROVE  written(i)
    <3>1. CASE k \in DOMAIN s.names
      <4>1. Append(s.names, s.name)[k] = s.names[k]
        BY <1>1, <3>1, AppendProperties
      <4> HIDE DEF written
      <4> QED
        BY <1>2, <2>2, <3>1, <4>1
    <3>2. CASE k \notin DOMAIN s.names
      <4>1. Append(s.names, s.name)[k] = s.name
        BY <1>1, <3>2, AppendProperties
      <4>2. i >= 3 /\ line[i - 1] = "ext" /\ line[i - 2] = "%" /\ line[i] = "%"
        BY <1>2, <1>3, <2>2, <4>1
      <4>3. i - 2 \in 1 .. i - 2 /\ (i - 2) + 1 = i - 1 /\ (i - 2) + 2 = i
        BY <1>1, <4>2
      <4> QED
        BY <4>2, <4>3
    <3> QED
      BY <3>1, <3>2
  <2> HIDE DEF written
  <2>3. \A k \in DOMAIN Append(s.names, s.name) :
           Append(s.names, s.name)[k] = <<"ext">> => written(i)
    BY <2>2
  <2> QED
    BY <2>1, <2>3 DEF FoundWritten, written
<1>4. CASE t = "%" /\ ~(s.open /\ s.name # <<>>)
  <2>1. Searched(s, t).name = <<>> /\ Searched(s, t).names = s.names
    BY <1>1, <1>4 DEF Searched, Searches
  <2>2. <<>> # <<"ext">>
    OBVIOUS
  <2> HIDE DEF written
  <2> QED
    BY <1>1, <1>2, <1>4, <2>1, <2>2 DEF FoundWritten, written
<1>5. CASE t # "%" /\ s.open /\ (Ascii(t) \/ t = "/")
  <2>1. Searched(s, t).name = Append(s.name, t) /\ Searched(s, t).names = s.names
    BY <1>1, <1>5 DEF Searched, Searches
  <2>2. Append(s.name, t) # <<>>
    BY <1>1, AppendProperties
  <2>3. Append(s.name, t) = <<"ext">> => s.name = <<>> /\ t = "ext"
    <3>1. /\ Len(Append(s.name, t)) = Len(s.name) + 1
          /\ Append(s.name, t)[Len(s.name) + 1] = t
      BY <1>1, AppendProperties
    <3>2. Len(<<"ext">>) = 1 /\ <<"ext">>[1] = "ext" /\ Len(s.name) \in Nat
      BY <1>1, LenProperties
    <3>3. Len(s.name) = 0 => s.name = <<>>
      BY <1>1, EmptySeq
    <3> HIDE DEF t
    <3> QED
      BY <3>1, <3>2, <3>3
  <2> HIDE DEF written
  <2> QED
    BY <1>1, <1>2, <1>5, <2>1, <2>2, <2>3 DEF FoundWritten, written
<1>6. CASE t # "%" /\ ~(s.open /\ (Ascii(t) \/ t = "/"))
  <2>1. Searched(s, t).open = FALSE /\ Searched(s, t).names = s.names
    BY <1>1, <1>6 DEF Searched, Searches
  <2> HIDE DEF written
  <2> QED
    BY <1>2, <2>1 DEF FoundWritten, written
<1> QED
  BY <1>3, <1>4, <1>5, <1>6

\* TOKEN_RE finds the extension placeholder only where the tag is written.
LEMMA FoundIsWritten ==
  ASSUME NEW line \in Line, Contains(FindTokens(line), <<"ext">>)
  PROVE  Tag(line)
<1> DEFINE F == Search(line)
           n == Len(line)
           P == {i \in 0 .. n : FoundWritten(line, F[i], i)}
<1>1. /\ n \in Nat /\ F[0] = NoSearch
      /\ \A i \in 1 .. n : F[i] = Searched(F[i - 1], line[i])
      /\ \A i \in 0 .. n : F[i] \in Searches
  BY SearchSteps
<1>2. 0 \in P
  BY <1>1 DEF FoundWritten, NoSearch
<1>3. ASSUME NEW i \in 1 .. n, i - 1 \in P
      PROVE  i \in P
  <2>1. F[i - 1] \in Searches /\ FoundWritten(line, F[i - 1], i - 1)
    BY <1>1, <1>3
  <2> HIDE DEF F
  <2>2. FoundWritten(line, Searched(F[i - 1], line[i]), i)
    BY <2>1, FoundStep
  <2> QED
    BY <1>1, <1>3, <2>2
<1>4. n \in P
  <2> HIDE DEF P, F
  <2>1. \A i \in 0 .. n : i \in P
    BY <1>1, <1>2, <1>3, Steps
  <2> QED
    BY <1>1, <2>1
<1>5. \E k \in DOMAIN F[n].names : F[n].names[k] = <<"ext">>
  <2>1. F[n].names \in Seq(Seq(Token)) /\ F[n].names = FindTokens(line)
    BY <1>1 DEF FindTokens, Searches
  <2> QED
    BY <2>1, LenProperties DEF Contains
<1>6. \E p \in 1 .. n - 2 : line[p] = "%" /\ line[p + 1] = "ext" /\ line[p + 2] = "%"
  <2> HIDE DEF F
  <2> QED
    BY <1>4, <1>5 DEF FoundWritten
<1> QED
  BY <1>6, TagByPosition

\* A leading slash changes nothing about placeholders.
LEMMA SearchAfterSlash ==
  ASSUME NEW line \in Line, line # <<>>, line[1] = "/"
  PROVE  FindTokens(Tail(line)) = FindTokens(line)
<1> DEFINE tail == Tail(line)
           n == Len(tail)
           F == Search(line)
           T == Search(tail)
           P == {i \in 0 .. n : F[i + 1] = T[i]}
<1>1. /\ tail \in Line /\ Len(line) = n + 1 /\ n \in Nat
      /\ \A i \in 1 .. n : tail[i] = line[i + 1]
  <2>1. Len(line) \in Nat
    BY LenProperties DEF Line
  <2> QED
    BY <2>1, HeadTailProperties DEF Line
<1>2. /\ F[0] = NoSearch
      /\ \A i \in 1 .. n + 1 : F[i] = Searched(F[i - 1], line[i])
  BY <1>1, SearchSteps
<1>3. /\ T[0] = NoSearch
      /\ \A i \in 1 .. n : T[i] = Searched(T[i - 1], tail[i])
  BY <1>1, SearchSteps
<1>4. Searched(NoSearch, "/") = NoSearch
  BY DEF Searched, NoSearch
<1>5. 0 \in P
  <2>1. 1 \in 1 .. n + 1 /\ 1 - 1 = 0 /\ 0 + 1 = 1 /\ 0 \in 0 .. n
    BY <1>1
  <2> HIDE DEF F, T, n
  <2>2. F[1] = Searched(F[0], "/")
    BY <1>2, <2>1
  <2> QED
    BY <1>2, <1>3, <1>4, <2>1, <2>2
<1>6. ASSUME NEW i \in 1 .. n, i - 1 \in P
      PROVE  i \in P
  <2>1. /\ i + 1 \in 1 .. n + 1 /\ (i + 1) - 1 = i /\ (i - 1) + 1 = i /\ i \in 0 .. n
        /\ tail[i] = line[i + 1]
    BY <1>1
  <2> HIDE DEF F, T, n, tail
  <2>2. F[i] = T[i - 1]
    BY <1>6, <2>1
  <2>3. F[i + 1] = Searched(F[i], line[i + 1]) /\ T[i] = Searched(T[i - 1], tail[i])
    <3>1. F[i + 1] = Searched(F[(i + 1) - 1], line[i + 1])
      BY <1>2, <2>1, Zenon
    <3> QED
      BY <1>3, <2>1, <3>1
  <2> QED
    BY <2>1, <2>2, <2>3
<1>7. n \in P
  <2> HIDE DEF P, n
  <2>1. \A i \in 0 .. n : i \in P
    BY <1>1, <1>5, <1>6, Steps
  <2> QED
    BY <1>1, <2>1
<1>8. F[n + 1] = T[n]
  BY <1>7
<1> QED
  BY <1>1, <1>8 DEF FindTokens

\* Dropping the leading slash changes neither the placeholders nor the tag.
LEMMA Stripped ==
  ASSUME NEW line \in Line, NEW stripped, stripped = lstrip_once(line, "/")
  PROVE  /\ stripped \in Line
         /\ FindTokens(stripped) = FindTokens(line)
         /\ Tag(stripped) => Tag(line)
<1>1. CASE line # <<>> /\ line[1] = "/"
  <2>1. stripped = Tail(line)
    BY <1>1 DEF lstrip_once
  <2>2. /\ stripped \in Line /\ Len(stripped) = Len(line) - 1 /\ Len(line) \in Nat
        /\ \A i \in 1 .. Len(stripped) : stripped[i] = line[i + 1]
    <3>1. Len(line) \in Nat
      BY LenProperties DEF Line
    <3> QED
      BY <1>1, <2>1, <3>1, HeadTailProperties DEF Line
  <2>3. ASSUME NEW i \in 1 .. (Len(stripped) - 2),
               stripped[i] = "%", stripped[i + 1] = "ext", stripped[i + 2] = "%"
        PROVE  Tag(line)
    <3>1. /\ i \in 1 .. Len(stripped) /\ i + 1 \in 1 .. Len(stripped) /\ i + 2 \in 1 .. Len(stripped)
          /\ i + 1 \in 1 .. (Len(line) - 2)
      BY <2>2
    <3>2. line[i + 1] = "%" /\ line[(i + 1) + 1] = "ext" /\ line[(i + 2) + 1] = "%"
      BY <2>2, <2>3, <3>1
    <3>3. (i + 2) + 1 = (i + 1) + 2
      OBVIOUS
    <3> QED
      BY <3>1, <3>2, <3>3, TagByPosition
  <2>4. Tag(stripped) => Tag(line)
    BY <2>2, <2>3, TagByPosition
  <2> QED
    BY <1>1, <2>1, <2>2, <2>4, SearchAfterSlash
<1>2. CASE ~(line # <<>> /\ line[1] = "/")
  <2>1. stripped = line
    BY <1>2 DEF lstrip_once
  <2> QED
    BY <2>1
<1> QED
  BY <1>1, <1>2

\* Of a line whose only placeholder is %ext%.
LEMMA OnlyExtensions ==
  ASSUME NEW tokens \in Seq(Line),
         \A j \in DOMAIN tokens : is_template_token(tokens[j]) => tokens[j] = <<"ext">>
  PROVE  TemplateNames(tokens)[Len(tokens)] = IF Contains(tokens, <<"ext">>) THEN <<"ext">> ELSE <<>>
<1> DEFINE n == Len(tokens)
           N == TemplateNames(tokens)
           seen(i) == \E j \in 1 .. i : tokens[j] = <<"ext">>
           P == {i \in 0 .. n : N[i] = IF seen(i) THEN <<"ext">> ELSE <<>>}
<1>1. /\ n \in Nat /\ N[0] = <<>>
      /\ \A i \in 1 .. n : N[i] = Named(N[i - 1], tokens[i])
  BY NamesSteps
<1>2. 0 \in P
  BY <1>1
<1>3. ASSUME NEW i \in 1 .. n, i - 1 \in P
      PROVE  i \in P
  <2>1. i \in 0 .. n /\ DOMAIN tokens = 1 .. n
    BY LenProperties
  <2>2. N[i - 1] = IF seen(i - 1) THEN <<"ext">> ELSE <<>>
    BY <1>3
  <2>3. N[i] = Named(N[i - 1], tokens[i])
    BY <1>1
  <2>4. seen(i) <=> seen(i - 1) \/ tokens[i] = <<"ext">>
    BY <1>1
  <2>5. is_template_token(tokens[i]) <=> tokens[i] = <<"ext">>
    BY <2>1 DEF is_template_token
  <2> HIDE DEF N, seen, n
  <2>6. CASE tokens[i] = <<"ext">>
    <3>1. seen(i) /\ is_template_token(tokens[i]) /\ tokens[i][1] = "ext"
      BY <2>4, <2>5, <2>6
    <3>2. Contains(<<"ext">>, "ext") /\ ~Contains(<<>>, "ext") /\ Append(<<>>, "ext") = <<"ext">>
      BY DEF Contains
    <3>3. N[i] = <<"ext">>
      BY <2>2, <2>3, <3>1, <3>2 DEF Named
    <3> QED
      BY <2>1, <3>1, <3>3
  <2>7. CASE tokens[i] # <<"ext">>
    <3>1. N[i] = N[i - 1]
      BY <2>3, <2>5, <2>7 DEF Named
    <3> QED
      BY <2>1, <2>2, <2>4, <2>7, <3>1
  <2> QED
    BY <2>6, <2>7
<1>4. n \in P
  <2> HIDE DEF P
  <2>1. \A i \in 0 .. n : i \in P
    <3>1. n \in Nat
      BY <1>1
    <3> HIDE DEF n
    <3> QED
      BY <1>2, <1>3, <3>1, Steps
  <2> QED
    BY <1>1, <2>1
<1>5. seen(n) <=> Contains(tokens, <<"ext">>)
  BY DEF Contains
<1> QED
  BY <1>4, <1>5

(***************************************************************************)
(* Lines are expanded the same.                                            *)
(***************************************************************************)
LEMMA SubstituteType ==
  ASSUME NEW line \in Line, NEW name \in Token, NEW value \in Line
  PROVE  Substitute(line, name, value) \in Line
<1>1. Len(line) \in Nat /\ Len(line) \in 0 .. Len(line)
  BY LenProperties DEF Line
<1> QED
  BY <1>1, SubstitutionSteps DEF Substitute

\* One rendering for each extension.
OfExtensions(o, line) ==
  [i \in DOMAIN o.extensions |-> Substitute(line, "ext", <<o.extensions[i]>>)]

\* A line under every extension is a sequence of lines.
LEMMA OfExtensionsType ==
  ASSUME NEW o, OptionsOK(o), NEW line \in Line
  PROVE  OfExtensions(o, line) \in Seq(Line)
<1>1. /\ o.extensions \in Seq(STRING) /\ DOMAIN o.extensions = 1 .. Len(o.extensions)
      /\ Len(o.extensions) \in Nat
  BY LenProperties DEF OptionsOK
<1>2. ASSUME NEW i \in DOMAIN o.extensions
      PROVE  Substitute(line, "ext", <<o.extensions[i]>>) \in Line
  <2>1. o.extensions[i] \in Token /\ "ext" \in Token
    BY <1>1 DEF Token
  <2>2. <<o.extensions[i]>> \in Line
    BY <2>1 DEF Line
  <2> QED
    BY <2>1, <2>2, SubstituteType
<1>3. OfExtensions(o, line) \in [1 .. Len(o.extensions) -> Line]
  BY <1>1, <1>2 DEF OfExtensions
<1> QED
  BY <1>1, <1>3, SeqDef

\* The extension placeholder is given every extension, in order.
LEMMA ExtensionRenderings ==
  ASSUME NEW o, OptionsOK(o), NEW line \in Line
  PROVE  SubstituteAll(<<line>>, "ext", ExtValues(o)) = OfExtensions(o, line)
<1> DEFINE one == [j \in DOMAIN ExtValues(o) |-> Substitute(line, "ext", ExtValues(o)[j])]
           all == [i \in DOMAIN <<line>> |->
                     [j \in DOMAIN ExtValues(o) |-> Substitute(<<line>>[i], "ext", ExtValues(o)[j])]]
<1>1. one = OfExtensions(o, line)
  BY DEF OfExtensions, ExtValues
<1>2. OfExtensions(o, line) \in Seq(Line)
  BY OfExtensionsType
<1>3. DOMAIN <<line>> = {1} /\ <<line>>[1] = line
  OBVIOUS
<1>4. all = [i \in {1} |-> one]
  BY <1>3
<1> HIDE DEF one
<1>5. all \in Seq(Seq(Line)) /\ Len(all) = 1 /\ all[1] = one
  <2> HIDE DEF all
  <2>1. all = <<one>>
    BY <1>4
  <2> QED
    BY <1>1, <1>2, <2>1
<1>6. FlattenSeq(all) = one
  <2> HIDE DEF all
  <2> QED
    BY <1>5, FlattenSingle
<1> QED
  BY <1>1, <1>6 DEF SubstituteAll

\* A line with no placeholder is rendered as it is.
LEMMA RendersNothing ==
  ASSUME NEW o, NEW line
  PROVE  Renders(o, line, <<>>)[0] = <<line>>
<1> DEFINE IsRun(g) == g = [i \in 0 .. Len(<<>>) |->
                              IF i = 0 THEN <<line>>
                              ELSE SubstituteAll(g[i - 1], <<>>[i], _resolve_token(o, <<>>[i]))]
           f == [i \in 0 .. 0 |-> <<line>>]
<1>1. Len(<<>>) = 0
  OBVIOUS
<1>2. f = [i \in 0 .. 0 |-> IF i = 0 THEN <<line>>
                            ELSE SubstituteAll(f[i - 1], <<>>[i], _resolve_token(o, <<>>[i]))]
  OBVIOUS
<1>3. IsRun(f)
  <2> HIDE DEF f
  <2> QED
    BY <1>1, <1>2
<1>4. Renders(o, line, <<>>) = CHOOSE g : IsRun(g)
  BY DEF Renders
<1> DEFINE R == Renders(o, line, <<>>)
<1>5. IsRun(R)
  <2> HIDE DEF IsRun, f
  <2> QED
    BY <1>3, <1>4, Zenon
<1>6. \A h \in {R} : IsRun(h) => h[0] = <<line>>
  BY <1>1
<1> QED
  BY <1>5, <1>6

\* A line with only the extension placeholder: one round of substitution.
LEMMA RendersExtensions ==
  ASSUME NEW o, NEW line
  PROVE  Renders(o, line, <<"ext">>)[1] = SubstituteAll(<<line>>, "ext", ExtValues(o))
<1> DEFINE H(s, i) == SubstituteAll(s, <<"ext">>[i], _resolve_token(o, <<"ext">>[i]))
           IsRun(g) == g = [i \in 0 .. Len(<<"ext">>) |-> IF i = 0 THEN <<line>> ELSE H(g[i - 1], i)]
           f == [i \in 0 .. 1 |-> IF i = 0 THEN <<line>> ELSE H(<<line>>, 1)]
           R == Renders(o, line, <<"ext">>)
<1>1. Len(<<"ext">>) = 1 /\ <<"ext">>[1] = "ext"
  OBVIOUS
<1>2. H(<<line>>, 1) = SubstituteAll(<<line>>, "ext", ExtValues(o))
  BY <1>1 DEF _resolve_token
<1>3. R = CHOOSE g : IsRun(g)
  BY DEF Renders
<1> HIDE DEF H
<1>4. f = [i \in 0 .. 1 |-> IF i = 0 THEN <<line>> ELSE H(f[i - 1], i)]
  <2>1. f[0] = <<line>> /\ f[1] = H(<<line>>, 1)
    OBVIOUS
  <2>2. \A i \in 0 .. 1 : i = 0 \/ i = 1
    OBVIOUS
  <2>3. \A i \in 0 .. 1 : f[i] = IF i = 0 THEN <<line>> ELSE H(f[i - 1], i)
    <3>1. f[1 - 1] = <<line>>
      BY <2>1
    <3> HIDE DEF f
    <3> QED
      BY <2>1, <2>2, <3>1
  <2>4. f = [i \in 0 .. 1 |-> f[i]]
    OBVIOUS
  <2> HIDE DEF f
  <2> QED
    BY <2>3, <2>4
<1>5. IsRun(f)
  <2> HIDE DEF f
  <2> QED
    BY <1>1, <1>4
<1>6. IsRun(R)
  <2> HIDE DEF IsRun, f, R
  <2> QED
    BY <1>3, <1>5, Zenon
<1> HIDE DEF R
<1>7. R = [i \in 0 .. 1 |-> IF i = 0 THEN <<line>> ELSE H(R[i - 1], i)]
  BY <1>1, <1>6
<1>8. R[0] = <<line>> /\ R[1] = H(R[0], 1)
  <2>1. \A i \in 0 .. 1 : R[i] = IF i = 0 THEN <<line>> ELSE H(R[i - 1], i)
    BY <1>7
  <2>2. 0 \in 0 .. 1 /\ 1 \in 0 .. 1 /\ 1 - 1 = 0
    OBVIOUS
  <2> QED
    BY <2>1, <2>2
<1> QED
  BY <1>2, <1>8 DEF R

\* Of a line that Rust is given, without a hidden tag.
LEMMA ExpandedAlike ==
  ASSUME NEW o, OptionsOK(o), NEW line \in Line,
         \A j \in DOMAIN FindTokens(line) :
            is_template_token(FindTokens(line)[j]) => FindTokens(line)[j] = <<"ext">>,
         Tag(line) => Contains(FindTokens(line), <<"ext">>)
  PROVE  /\ expand_template_line(o, line) = expand_ext(o, line)
         /\ expand_ext(o, line) \in Seq(Line)
<1> DEFINE tokens == FindTokens(line)
           names == TemplateNames(tokens)[Len(tokens)]
<1>1. tokens \in Seq(Line)
  <2>1. Len(line) \in Nat /\ Len(line) \in 0 .. Len(line)
    BY LenProperties DEF Line
  <2> QED
    BY <2>1, SearchSteps DEF FindTokens, Searches, Line
<1>2. names = IF Contains(tokens, <<"ext">>) THEN <<"ext">> ELSE <<>>
  <2> HIDE DEF names
  <2> QED
    BY <1>1, OnlyExtensions DEF names
<1>3. Contains(tokens, <<"ext">>) <=> Tag(line)
  BY FoundIsWritten
<1>4. expand_template_line(o, line) = Renders(o, line, names)[Len(names)]
  BY DEF expand_template_line
<1>5. expand_ext(o, line) = IF Tag(line) THEN OfExtensions(o, line) ELSE <<line>>
  BY DEF expand_ext, Tag, OfExtensions
<1> HIDE DEF names, tokens
<1>6. CASE Tag(line)
  <2>1. names = <<"ext">> /\ Len(names) = 1
    BY <1>2, <1>3, <1>6
  <2> QED
    BY <1>4, <1>5, <1>6, <2>1, RendersExtensions, ExtensionRenderings, OfExtensionsType
<1>7. CASE ~Tag(line)
  <2>1. names = <<>> /\ Len(names) = 0
    BY <1>2, <1>3, <1>7
  <2>2. <<line>> \in Seq(Line)
    OBVIOUS
  <2> QED
    BY <1>4, <1>5, <1>7, <2>1, <2>2, RendersNothing
<1> QED
  BY <1>6, <1>7

(***************************************************************************)
(* Lines are checked and extended the same.                                *)
(***************************************************************************)
LEMMA BeforeWorks ==
  ASSUME NEW line \in Line, NEW S
  PROVE  /\ Before(line, S) \in Line
         /\ (1 \in DOMAIN line /\ line[1] \in S) => Before(line, S) = <<>>
<1> DEFINE stops == {i \in DOMAIN line : line[i] \in S}
           least == CHOOSE i \in stops : \A j \in stops : i <= j
<1>1. /\ Len(line) \in Nat /\ DOMAIN line = 1 .. Len(line)
      /\ \A i \in 1 .. Len(line) : line[i] \in Token
  BY LenProperties DEF Line
<1>2. CASE stops = {}
  <2>1. Before(line, S) = line
    BY <1>2 DEF Before
  <2> QED
    BY <1>2, <2>1
<1>3. CASE stops # {}
  <2>1. \E i \in stops : \A j \in stops : i <= j
    <3>1. stops \in SUBSET Nat
      BY <1>1
    <3> HIDE DEF stops
    <3>2. PICK i \in stops : \A j \in stops : ~(j < i)
      BY <1>3, <3>1, LeastIndex
    <3> QED
      BY <3>1, <3>2
  <2>2. least \in stops /\ \A j \in stops : least <= j
    <3> HIDE DEF stops
    <3> QED
      BY <2>1, Zenon
  <2> HIDE DEF least
  <2>3. least \in 1 .. Len(line) /\ (1 \in stops => least = 1)
    BY <1>1, <2>2
  <2>4. Before(line, S) = SubSeq(line, 1, least - 1)
    BY <1>3 DEF Before, least
  <2>5. SubSeq(line, 1, least - 1) \in Line
    <3>1. 1 \in Int /\ least - 1 \in Int /\ \A i \in 1 .. least - 1 : line[i] \in Token
      BY <1>1, <2>3
    <3> QED
      BY <3>1, SubSeqProperties DEF Line
  <2>6. least = 1 => SubSeq(line, 1, least - 1) = <<>>
    <3>1. SubSeq(line, 1, 0) = <<>>
      BY SubSeqEmpty
    <3> QED
      BY <3>1
  <2> QED
    BY <2>3, <2>4, <2>5, <2>6
<1> QED
  BY <1>2, <1>3

\* A line that ends with an extension has two tokens at least.
LEMMA SuffixLength ==
  ASSUME NEW line \in Line, NEW e, IsSuffix(<<".", e>>, line)
  PROVE  Len(line) >= 2
<1>1. Len(line) \in Nat /\ Len(<<".", e>>) = 2
  BY LenProperties DEF Line
<1>2. Len(Reverse(<<".", e>>)) = 2 /\ Len(Reverse(line)) = Len(line)
  BY <1>1 DEF Reverse
<1> QED
  BY <1>1, <1>2 DEF IsSuffix, IsPrefix

\* The two backends exclude the same paths.
LEMMA ValidAlike ==
  ASSUME NEW o, NEW line \in Line
  PROVE  is_valid_path(o, line) <=> is_valid(o, line)
<1>1. clean_path(line) \in Line
  BY BeforeWorks DEF clean_path
<1>2. \A e : IsSuffix(<<".", e>>, clean_path(line)) => Len(clean_path(line)) >= 2
  BY <1>1, SuffixLength
<1> QED
  BY <1>2 DEF is_valid_path, is_valid

\* What both recognitions come to: a word, a dot and a word at the end.
LastToken(line) == IF Ends(line, "~") THEN Len(line) - 1 ELSE Len(line)

Dotted(line) ==
  /\ LastToken(line) > 2
  /\ Ascii(line[LastToken(line) - 2]) /\ line[LastToken(line) - 1] = "." /\ Ascii(line[LastToken(line)])

\* The Python regular expression recognises a word, a dot and a word at the end,
\* the first of which may be foreign.
LEMMA RegexIsDotted ==
  ASSUME NEW line \in Line, ~ForeignBase(line)
  PROVE  HasExtension(line) <=> Dotted(line)
<1> DEFINE end == LastToken(line)
           Matches(n) == /\ end > 2 * n
                         /\ Word(line[end - 2 * n])
                         /\ \A k \in 1 .. n : Ascii(line[end - 2 * (k - 1)]) /\ line[end - 2 * k + 1] = "."
<1>1. end \in Int
  <2>1. Len(line) \in Nat
    BY LenProperties DEF Line
  <2> QED
    BY <2>1 DEF LastToken
<1>2. HasExtension(line) <=> \E n \in 1 .. 3 : Matches(n)
  BY DEF HasExtension, LastToken
<1> HIDE DEF end
<1>3. Matches(1) <=> end > 2 /\ Word(line[end - 2]) /\ line[end - 1] = "." /\ Ascii(line[end])
  <2>1. /\ 2 * 1 = 2 /\ end - 2 * (1 - 1) = end /\ end - 2 * 1 + 1 = end - 1
        /\ \A k : k \in 1 .. 1 <=> k = 1
    BY <1>1
  <2> QED
    BY <2>1
<1>4. ASSUME NEW n \in 1 .. 3, Matches(n)
      PROVE  Matches(1)
  <2>1. /\ 1 \in 1 .. n /\ end - 2 * (1 - 1) = end /\ end - 2 * 1 + 1 = end - 1
        /\ end > 2
    BY <1>1, <1>4
  <2>2. Ascii(line[end]) /\ line[end - 1] = "."
    BY <1>4, <2>1
  <2>3. Word(line[end - 2])
    <3>1. CASE n = 1
      BY <1>4, <3>1
    <3>2. CASE n # 1
      <4>1. 2 \in 1 .. n /\ end - 2 * (2 - 1) = end - 2
        BY <1>1, <3>2
      <4> QED
        BY <1>4, <4>1 DEF Ascii
    <3> QED
      BY <3>1, <3>2
  <2> QED
    BY <1>3, <2>1, <2>2, <2>3
<1>5. 1 \in 1 .. 3
  OBVIOUS
<1>6. HasExtension(line) <=> Matches(1)
  <2> HIDE DEF Matches
  <2> QED
    BY <1>2, <1>4, <1>5
<1>7. end > 2 /\ line[end - 1] = "." => line[end - 2] # "kana"
  <2>1. Len(line) \in Nat /\ end <= Len(line)
    BY LenProperties DEF Line, LastToken, end
  <2>2. end > 2 => end - 2 \in 1 .. (Len(line) - 1) /\ (end - 2) + 1 = end - 1
    BY <1>1, <2>1
  <2> QED
    BY <2>2 DEF ForeignBase
<1> QED
  BY <1>3, <1>6, <1>7 DEF Dotted, Ascii, end

\* The part of a line that the Rust recogniser looks at.
LEMMA CandidateWorks ==
  ASSUME NEW line \in Line, NEW candidate,
         candidate = IF Ends(line, "~") THEN SubSeq(line, 1, Len(line) - 1) ELSE line
  PROVE  /\ candidate \in Line /\ Len(candidate) = LastToken(line) /\ LastToken(line) \in Nat
         /\ \A i \in 1 .. LastToken(line) : candidate[i] = line[i]
<1>1. Len(line) \in Nat /\ \A i \in 1 .. Len(line) : line[i] \in Token
  BY LenProperties DEF Line
<1>2. CASE Ends(line, "~")
  <2>1. Len(line) >= 1 /\ LastToken(line) = Len(line) - 1
    <3>1. line # <<>>
      BY <1>2 DEF Ends
    <3>2. Len(line) # 0
      BY <3>1, EmptySeq DEF Line
    <3> QED
      BY <1>1, <1>2, <3>2 DEF LastToken
  <2> DEFINE m == Len(line) - 1
  <2>2. m \in Nat /\ \A i \in 1 .. m : line[i] \in Token
    BY <1>1, <2>1
  <2> HIDE DEF m
  <2>3. /\ SubSeq(line, 1, m) \in Seq(Token)
        /\ Len(SubSeq(line, 1, m)) = IF 1 <= m THEN m - 1 + 1 ELSE 0
        /\ \A i \in 1 .. m - 1 + 1 : SubSeq(line, 1, m)[i] = line[1 + i - 1]
    <3>1. 1 \in Int /\ m \in Int
      BY <2>2
    <3> QED
      BY <2>2, <3>1, SubSeqProperties
  <2>4. Len(SubSeq(line, 1, m)) = m /\ \A i \in 1 .. m : SubSeq(line, 1, m)[i] = line[i]
    BY <2>2, <2>3
  <2> QED
    BY <1>2, <2>1, <2>2, <2>3, <2>4 DEF m, Line
<1>3. CASE ~Ends(line, "~")
  <2>1. candidate = line /\ LastToken(line) = Len(line)
    BY <1>3 DEF LastToken
  <2> QED
    BY <1>1, <2>1
<1> QED
  BY <1>2, <1>3

Dots(tail) == {i \in DOMAIN tail : tail[i] = "."}

\* What a tail must be to be recognised.
Recognised(tail) ==
  /\ Cardinality(Dots(tail)) \in 1 .. 3
  /\ Before(tail, {"."}) # <<>>
  /\ \A i \in DOMAIN tail : i \notin Dots(tail) => Ascii(tail[i])
  /\ \A i \in Dots(tail) : /\ i + 1 \in DOMAIN tail \ Dots(tail)
                           /\ i + 2 \in Dots(tail) \cup {Len(tail) + 1}

\* It ends with a word, a dot and a word.
LEMMA RecognisedEnd ==
  ASSUME NEW tail \in Line, Recognised(tail)
  PROVE  /\ Len(tail) \in Nat /\ Len(tail) >= 3
         /\ Ascii(tail[Len(tail) - 2]) /\ tail[Len(tail) - 1] = "." /\ Ascii(tail[Len(tail)])
<1> DEFINE n == Len(tail)
           dots == Dots(tail)
           T == {n - i : i \in dots}
<1>1. n \in Nat /\ DOMAIN tail = 1 .. n /\ dots \subseteq 1 .. n
  BY LenProperties DEF Line, Dots
<1>2. /\ Cardinality(dots) \in 1 .. 3
      /\ \A i \in 1 .. n : i \notin dots => Ascii(tail[i])
      /\ \A i \in dots : i + 1 \in 1 .. n /\ i + 1 \notin dots /\ (i + 2 \in dots \/ i + 2 = n + 1)
      /\ \A i \in dots : tail[i] = "."
  BY <1>1 DEF Recognised, Dots
<1>3. dots # {}
  <2>1. Cardinality({}) = 0
    BY FS_EmptySet, Zenon
  <2>2. dots = {} => Cardinality(dots) = 0
    BY <2>1, Zenon
  <2>3. Cardinality(dots) \in 1 .. 3
    BY <1>2
  <2> HIDE DEF dots
  <2> QED
    BY <2>2, <2>3
<1>4. 1 \notin dots
  <2>1. 1 \in dots => 1 \in DOMAIN tail /\ tail[1] \in {"."}
    BY <1>1, <1>2
  <2> QED
    BY <2>1, BeforeWorks DEF Recognised
<1> HIDE DEF dots, n
<1>5. PICK m \in dots : m + 2 = n + 1
  <2>1. T \in SUBSET Nat /\ T # {}
    <3>1. n \in Nat /\ dots \subseteq 1 .. n
      BY <1>1
    <3>2. \A i \in 1 .. n : n - i \in Nat
      BY <3>1
    <3>3. T \subseteq Nat
      BY <3>1, <3>2
    <3>4. PICK i \in dots : TRUE
      BY <1>3
    <3>5. n - i \in T
      BY <3>4
    <3> QED
      BY <3>3, <3>5
  <2>2. PICK x \in T : \A y \in T : ~(y < x)
    <3> HIDE DEF T
    <3> QED
      BY <2>1, LeastIndex
  <2>3. PICK m \in dots : x = n - m
    OBVIOUS
  <2>4. m + 2 \in dots => FALSE
    <3> SUFFICES ASSUME m + 2 \in dots PROVE FALSE
      OBVIOUS
    <3>1. n - (m + 2) \in T
      OBVIOUS
    <3>2. n - (m + 2) < n - m
      BY <1>1
    <3> QED
      BY <2>2, <2>3, <3>1, <3>2
  <2> QED
    BY <1>2, <2>3, <2>4
<1>6. m \in 1 .. n /\ m # 1 /\ m = n - 1
  BY <1>1, <1>4, <1>5
<1>7. m - 1 \notin dots
  <2>1. m - 1 \in dots => (m - 1) + 1 \notin dots
    BY <1>2
  <2>2. (m - 1) + 1 = m
    BY <1>6
  <2> QED
    BY <1>5, <2>1, <2>2
<1>8. m + 1 \in 1 .. n /\ m + 1 \notin dots /\ m - 1 \in 1 .. n /\ m + 1 = n /\ m - 1 = n - 2 /\ n >= 3
  BY <1>1, <1>2, <1>5, <1>6
<1> QED
  BY <1>1, <1>2, <1>5, <1>6, <1>7, <1>8 DEF n

\* Word, dot, word is a tail the native engine recognises.
LEMMA ShortRecognised ==
  ASSUME NEW tail \in Line, Len(tail) = 3, Ascii(tail[1]), tail[2] = ".", Ascii(tail[3])
  PROVE  Recognised(tail)
<1>1. DOMAIN tail = 1 .. 3 /\ \A i : i \in 1 .. 3 <=> i \in {1, 2, 3}
  BY LenProperties DEF Line
<1>2. "." # tail[1] /\ "." # tail[3]
  BY DEF Ascii, Word
<1>3. Dots(tail) = {2}
  BY <1>1, <1>2 DEF Dots
<1>4. Cardinality({2}) = 1
  BY FS_Singleton
<1>5. Before(tail, {"."}) # <<>>
  <2> DEFINE stops == {i \in DOMAIN tail : tail[i] \in {"."}}
  <2>1. stops = {2}
    BY <1>3 DEF Dots
  <2>2. (CHOOSE i \in {2} : \A j \in {2} : i <= j) = 2
    OBVIOUS
  <2>3. Before(tail, {"."}) = SubSeq(tail, 1, 2 - 1)
    <3> HIDE DEF stops
    <3>1. Before(tail, {"."}) = IF stops = {} THEN tail
                                ELSE SubSeq(tail, 1, (CHOOSE i \in stops : \A j \in stops : i <= j) - 1)
      BY DEF Before, stops
    <3> QED
      BY <2>1, <2>2, <3>1
  <2>4. Len(SubSeq(tail, 1, 1)) = 1
    <3>1. \A i \in 1 .. 1 : tail[i] \in Token
      BY <1>1 DEF Line
    <3>2. Len(SubSeq(tail, 1, 1)) = IF 1 <= 1 THEN 1 - 1 + 1 ELSE 0
      BY <3>1, SubSeqProperties
    <3> QED
      BY <3>2
  <2>5. 2 - 1 = 1 /\ Len(<<>>) = 0
    OBVIOUS
  <2> QED
    BY <2>3, <2>4, <2>5
<1>6. \A i \in DOMAIN tail : i \notin Dots(tail) => Ascii(tail[i])
  BY <1>1, <1>3
<1>7. \A i \in Dots(tail) : /\ i + 1 \in DOMAIN tail \ Dots(tail)
                            /\ i + 2 \in Dots(tail) \cup {Len(tail) + 1}
  BY <1>1, <1>3
<1> QED
  BY <1>3, <1>4, <1>5, <1>6, <1>7 DEF Recognised

\* The native engine's recogniser accepts the same lines.
LEMMA RustIsDotted ==
  ASSUME NEW line \in Line
  PROVE  has_extension_recognition_match(line) <=> Dotted(line)
<1> DEFINE candidate == IF Ends(line, "~") THEN SubSeq(line, 1, Len(line) - 1) ELSE line
           end == LastToken(line)
<1>1. /\ candidate \in Line /\ Len(candidate) = end /\ end \in Nat
      /\ DOMAIN candidate = 1 .. end
      /\ \A i \in 1 .. end : candidate[i] = line[i] /\ candidate[i] \in Token
  <2>1. /\ candidate \in Line /\ Len(candidate) = end /\ end \in Nat
        /\ \A i \in 1 .. end : candidate[i] = line[i]
    <3> HIDE DEF candidate, end
    <3> QED
      BY CandidateWorks DEF candidate, end
  <2> HIDE DEF candidate, end
  <2> QED
    BY <2>1, LenProperties DEF Line
<1>2. has_extension_recognition_match(line)
        <=> \E start \in DOMAIN candidate : Recognised(SubSeq(candidate, start, Len(candidate)))
  BY DEF has_extension_recognition_match, Recognised, Dots
<1> HIDE DEF candidate, end
<1>3. ASSUME NEW start \in 1 .. end
      PROVE  /\ SubSeq(candidate, start, end) \in Line
             /\ Len(SubSeq(candidate, start, end)) = end - start + 1
             /\ \A i \in 1 .. end - start + 1 : SubSeq(candidate, start, end)[i] = line[start + i - 1]
  <2>1. start \in Int /\ end \in Int /\ start <= end /\ \A i \in start .. end : candidate[i] \in Token
    BY <1>1
  <2>2. /\ SubSeq(candidate, start, end) \in Seq(Token)
        /\ Len(SubSeq(candidate, start, end)) = IF start <= end THEN end - start + 1 ELSE 0
        /\ \A i \in 1 .. end - start + 1 :
              SubSeq(candidate, start, end)[i] = candidate[start + i - 1]
    BY <2>1, SubSeqProperties
  <2>3. \A i \in 1 .. end - start + 1 : start + i - 1 \in 1 .. end
    BY <1>1
  <2> QED
    BY <1>1, <2>1, <2>2, <2>3 DEF Line
<1>4. ASSUME NEW start \in 1 .. end, Recognised(SubSeq(candidate, start, end))
      PROVE  Dotted(line)
  <2> DEFINE tail == SubSeq(candidate, start, end)
             n == end - start + 1
  <2>1. /\ tail \in Line /\ Len(tail) = n /\ Recognised(tail)
        /\ \A i \in 1 .. n : tail[i] = line[start + i - 1]
    BY <1>3, <1>4
  <2> HIDE DEF tail
  <2>2. n >= 3 /\ Ascii(tail[n - 2]) /\ tail[n - 1] = "." /\ Ascii(tail[n])
    BY <2>1, RecognisedEnd
  <2>3. /\ n - 2 \in 1 .. n /\ n - 1 \in 1 .. n /\ n \in 1 .. n /\ end > 2
        /\ start + (n - 2) - 1 = end - 2 /\ start + (n - 1) - 1 = end - 1 /\ start + n - 1 = end
    BY <1>1, <2>2
  <2> HIDE DEF n
  <2>4. tail[n - 2] = line[end - 2] /\ tail[n - 1] = line[end - 1] /\ tail[n] = line[end]
    BY <2>1, <2>3
  <2> QED
    BY <2>2, <2>3, <2>4 DEF Dotted, end
<1>5. ASSUME Dotted(line)
      PROVE  \E start \in 1 .. end : Recognised(SubSeq(candidate, start, end))
  <2> DEFINE start == end - 2
             tail == SubSeq(candidate, start, end)
  <2>1. end > 2 /\ Ascii(line[end - 2]) /\ line[end - 1] = "." /\ Ascii(line[end])
    BY <1>5 DEF Dotted, end
  <2>2. start \in 1 .. end /\ end - start + 1 = 3
    BY <1>1, <2>1
  <2>3. /\ tail \in Line /\ Len(tail) = 3
        /\ \A i \in 1 .. 3 : tail[i] = line[start + i - 1]
    <3> HIDE DEF start
    <3> QED
      BY <1>3, <2>2
  <2>4. start + 1 - 1 = end - 2 /\ start + 2 - 1 = end - 1 /\ start + 3 - 1 = end
    BY <1>1
  <2> HIDE DEF start, tail
  <2>5. 1 \in 1 .. 3 /\ 2 \in 1 .. 3 /\ 3 \in 1 .. 3
    OBVIOUS
  <2>6. tail[1] = line[end - 2] /\ tail[2] = line[end - 1] /\ tail[3] = line[end]
    BY <2>3, <2>4, <2>5
  <2>7. Recognised(tail)
    BY <2>1, <2>3, <2>6, ShortRecognised
  <2> QED
    BY <2>2, <2>7 DEF tail
<1> QED
  BY <1>1, <1>2, <1>4, <1>5

\* A line gives the same entries in both backends.
LEMMA EntriesAlike ==
  ASSUME NEW o, NEW line \in Line, ~o.is_blacklist, ~ForeignBase(line)
  PROVE  Entries(o, line) = native_entries(o, line)
<1>1. HasExtension(line) <=> has_extension_recognition_match(line)
  BY RegexIsDotted, RustIsDotted
<1>2. HasExtension(line) => ~Ends(line, "/")
  <2> SUFFICES ASSUME Dotted(line), Ends(line, "/")
               PROVE  FALSE
    BY RegexIsDotted
  <2>1. line[Len(line)] = "/" /\ Ascii(line[LastToken(line)])
    BY DEF Ends, Dotted
  <2>2. ~Ends(line, "~")
    BY <2>1 DEF Ends
  <2> QED
    BY <2>1, <2>2 DEF LastToken, Ascii, Word
<1>3. Overwritten(o, line) <=> o.overwrite_extensions /\ should_overwrite_extension(o, line)
  BY <1>1, <1>2 DEF Overwritten, should_overwrite_extension
<1> QED
  BY <1>3 DEF Entries, native_entries

\* A path under the configured extensions is a sequence of lines.
LEMMA ExtendedType ==
  ASSUME NEW o, OptionsOK(o), NEW base \in Line
  PROVE  Extended(o, base) \in Seq(Line)
<1>1. /\ o.extensions \in Seq(STRING) /\ DOMAIN o.extensions = 1 .. Len(o.extensions)
      /\ Len(o.extensions) \in Nat
  BY LenProperties DEF OptionsOK
<1>2. ASSUME NEW i \in DOMAIN o.extensions
      PROVE  base \o <<".", o.extensions[i]>> \in Line
  <2>1. o.extensions[i] \in Token /\ "." \in Token
    BY <1>1 DEF Token
  <2>2. <<".", o.extensions[i]>> \in Seq(Token)
    BY <2>1
  <2> QED
    BY <2>2, ConcatProperties DEF Line
<1>3. Extended(o, base) \in [1 .. Len(o.extensions) -> Line]
  BY <1>1, <1>2 DEF Extended
<1> QED
  BY <1>1, <1>3, SeqDef

\* The entries of a line are a sequence of lines.
LEMMA EntriesType ==
  ASSUME NEW o, OptionsOK(o), NEW line \in Line
  PROVE  Entries(o, line) \in Seq(Line)
<1>1. <<line>> \in Seq(Line) /\ <<>> \in Seq(Line)
  OBVIOUS
<1>2. <<line \o <<"/">>>> \in Seq(Line)
  <2>1. "/" \in Token
    BY DEF Token
  <2>2. <<"/">> \in Seq(Token)
    BY <2>1
  <2>3. line \o <<"/">> \in Line
    BY <2>2, ConcatProperties DEF Line
  <2> QED
    BY <2>3
<1>3. Extended(o, line) \in Seq(Line) /\ Extended(o, Before(line, {"."})) \in Seq(Line)
  BY ExtendedType, BeforeWorks
<1>4. \A s, t \in Seq(Line) : s \o t \in Seq(Line)
  BY ConcatProperties
<1> DEFINE more == IF o.is_blacklist THEN <<>>
                   ELSE IF Forced(o, line) THEN <<line \o <<"/">>>> \o Extended(o, line)
                   ELSE IF Overwritten(o, line) THEN Extended(o, Before(line, {"."}))
                   ELSE <<>>
<1>5. more \in Seq(Line)
  <2>1. <<line \o <<"/">>>> \o Extended(o, line) \in Seq(Line)
    BY <1>2, <1>3, <1>4
  <2> QED
    BY <1>1, <1>3, <2>1, Zenon
<1> HIDE DEF more
<1>6. <<line>> \o more \in Seq(Line)
  BY <1>1, <1>4, <1>5
<1> QED
  BY <1>6 DEF Entries, more

\* Without prefixes and suffixes nothing is altered.
LEMMA NothingAltered ==
  ASSUME NEW o, OptionsOK(o), o.prefixes = <<>>, o.suffixes = <<>>, NEW wordlist \in Lists
  PROVE  alter(o, wordlist) = wordlist
<1> DEFINE altered == [i \in DOMAIN wordlist.items |-> Altered(o, wordlist.items[i])]
           n == Len(wordlist.items)
<1>1. \A path : Altered(o, path) = <<>>
  <2>1. ASSUME NEW path
        PROVE  Altered(o, path) = <<>>
    <3> DEFINE prefixed(p) == IF path[1] \in {"/", p} THEN <<>> ELSE <<<<p>> \o path>>
               suffixed(s) == IF Ends(path, "/") \/ Has(path, "?") \/ Has(path, "#") \/ Ends(path, s)
                              THEN <<>> ELSE <<path \o <<s>>>>
    <3>1. DOMAIN <<>> = {} /\ Len(<<>>) = 0
      OBVIOUS
    <3>2. \A f : f = [i \in {} |-> f[i]] => f = <<>>
      OBVIOUS
    <3>3. [i \in DOMAIN <<>> |-> prefixed(<<>>[i])] = <<>>
      BY <3>1
    <3>4. [i \in DOMAIN <<>> |-> suffixed(<<>>[i])] = <<>>
      BY <3>1
    <3>5. Altered(o, path) = FlattenSeq([i \in DOMAIN <<>> |-> prefixed(<<>>[i])])
                             \o FlattenSeq([i \in DOMAIN <<>> |-> suffixed(<<>>[i])])
      BY DEF Altered
    <3>6. FlattenSeq(<<>>) = <<>>
      BY <3>1 DEF FlattenSeq
    <3>7. <<>> \o <<>> = <<>>
      OBVIOUS
    <3> HIDE DEF prefixed, suffixed
    <3> QED
      BY <3>3, <3>4, <3>5, <3>6, <3>7
  <2> QED
    BY <2>1
<1>2. n \in Nat /\ DOMAIN wordlist.items = 1 .. n
  BY LenProperties DEF Lists
<1>3. altered = [i \in 1 .. n |-> <<>>]
  BY <1>1, <1>2
<1> HIDE DEF altered
<1>4. altered \in Seq(Seq(Line)) /\ \A i \in 1 .. Len(altered) : altered[i] = <<>>
  <2>1. <<>> \in Seq(Line)
    OBVIOUS
  <2>2. altered \in [1 .. n -> Seq(Line)]
    BY <1>3, <2>1
  <2>3. altered \in Seq(Seq(Line))
    BY <1>2, <2>2, SeqDef
  <2>4. DOMAIN altered = 1 .. Len(altered)
    BY <2>3, LenProperties
  <2> QED
    BY <1>3, <2>3, <2>4
<1>5. FlattenSeq(altered) = <<>>
  BY <1>4, FlattenNothing
<1>6. AddAll(o, <<>>) = Start
  <2>1. <<>> \in Seq(Line) /\ Len(<<>>) = 0
    OBVIOUS
  <2> QED
    BY <2>1, WordlistSteps DEF AddAll
<1>7. Start.items = <<>>
  BY DEF Start
<1> QED
  BY <1>5, <1>6, <1>7 DEF alter, altered

(***************************************************************************)
(* Lists as the sets of what they hold.                                    *)
(***************************************************************************)
LEMMA MembersOfConcat ==
  ASSUME NEW S, NEW s \in Seq(S), NEW t \in Seq(S)
  PROVE  ToSet(s \o t) = ToSet(s) \cup ToSet(t)
<1> DEFINE r == s \o t
           m == Len(s)
           n == Len(t)
<1>1. /\ r \in Seq(S) /\ Len(r) = m + n /\ m \in Nat /\ n \in Nat
      /\ \A i \in 1 .. m + n : r[i] = IF i <= m THEN s[i] ELSE t[i - m]
  BY ConcatProperties, LenProperties
<1>2. DOMAIN s = 1 .. m /\ DOMAIN t = 1 .. n
  BY LenProperties
<1> HIDE DEF r, m, n
<1>3. DOMAIN r = 1 .. m + n
  BY <1>1, LenProperties
<1>4. ASSUME NEW i \in 1 .. m + n
      PROVE  r[i] \in ToSet(s) \cup ToSet(t)
  <2>1. CASE i <= m
    <3>1. i \in DOMAIN s /\ r[i] = s[i]
      BY <1>1, <1>2, <2>1
    <3> QED
      BY <3>1 DEF ToSet
  <2>2. CASE ~(i <= m)
    <3>1. i - m \in DOMAIN t /\ r[i] = t[i - m]
      BY <1>1, <1>2, <2>2
    <3> QED
      BY <3>1 DEF ToSet
  <2> QED
    BY <2>1, <2>2
<1>5. ASSUME NEW i \in 1 .. m
      PROVE  s[i] \in ToSet(r)
  <2>1. i \in 1 .. m + n /\ i <= m
    BY <1>1
  <2>2. r[i] = s[i]
    BY <1>1, <2>1
  <2> QED
    BY <1>3, <2>1, <2>2 DEF ToSet
<1>6. ASSUME NEW i \in 1 .. n
      PROVE  t[i] \in ToSet(r)
  <2>1. i + m \in 1 .. m + n /\ ~(i + m <= m) /\ (i + m) - m = i
    BY <1>1
  <2>2. r[i + m] = t[i]
    BY <1>1, <2>1
  <2> QED
    BY <1>3, <2>1, <2>2 DEF ToSet
<1>7. ToSet(r) \subseteq ToSet(s) \cup ToSet(t)
  BY <1>3, <1>4 DEF ToSet
<1>8. ToSet(s) \subseteq ToSet(r) /\ ToSet(t) \subseteq ToSet(r)
  BY <1>2, <1>5, <1>6 DEF ToSet
<1> QED
  BY <1>7, <1>8 DEF r

\* The members of joined sequences are the members of each.
LEMMA MembersOfFlatten ==
  ASSUME NEW S, NEW seqs \in Seq(Seq(S))
  PROVE  ToSet(FlattenSeq(seqs)) = UNION {ToSet(seqs[i]) : i \in DOMAIN seqs}
<1> DEFINE n == Len(seqs)
           upto(i) == UNION {ToSet(seqs[j]) : j \in 1 .. i}
<1>1. n \in Nat /\ DOMAIN seqs = 1 .. n /\ \A i \in 1 .. n : seqs[i] \in Seq(S)
  BY LenProperties
<1>2. PICK f : Flattening(f, seqs, S, n) /\ FlattenSeq(seqs) = f[n]
  BY FlattenSteps
<1> DEFINE P == {i \in 0 .. n : ToSet(f[i]) = upto(i)}
<1> HIDE DEF n
<1>3. 0 \in P
  <2>1. f[0] = <<>> /\ DOMAIN <<>> = {}
    BY <1>2 DEF Flattening
  <2>2. ToSet(<<>>) = {}
    BY <2>1 DEF ToSet
  <2>3. upto(0) = {}
    OBVIOUS
  <2> HIDE DEF upto
  <2>4. ToSet(f[0]) = upto(0)
    BY <2>1, <2>2, <2>3, Zenon
  <2> QED
    BY <1>1, <2>4
<1>4. ASSUME NEW i \in 1 .. n, i - 1 \in P
      PROVE  i \in P
  <2>1. i \in 0 .. n /\ i - 1 \in 0 .. n /\ ToSet(f[i - 1]) = upto(i - 1)
    BY <1>4
  <2>2. f[i] = f[i - 1] \o seqs[i] /\ f[i - 1] \in Seq(S) /\ seqs[i] \in Seq(S)
    <3>1. f[i] = f[i - 1] \o seqs[i]
      BY <1>2, Zenon DEF Flattening
    <3>2. f \in [0 .. n -> Seq(S)]
      BY <1>2, Zenon DEF Flattening
    <3>3. f[i - 1] \in Seq(S)
      BY <2>1, <3>2, Zenon
    <3>4. seqs[i] \in Seq(S)
      BY <1>1, Zenon
    <3> QED
      BY <3>1, <3>3, <3>4, Zenon
  <2>3. ToSet(f[i]) = ToSet(f[i - 1]) \cup ToSet(seqs[i])
    <3>1. \A s, t \in Seq(S) : ToSet(s \o t) = ToSet(s) \cup ToSet(t)
      BY MembersOfConcat
    <3> QED
      BY <2>2, <3>1, Zenon
  <2>4. upto(i) = upto(i - 1) \cup ToSet(seqs[i])
    <3>1. \A j : j \in 1 .. i <=> j \in 1 .. i - 1 \/ j = i
      BY <1>1
    <3> QED
      BY <3>1, Zenon
  <2> HIDE DEF upto
  <2> QED
    BY <2>1, <2>3, <2>4
<1>5. n \in P
  <2> HIDE DEF P
  <2>1. \A i \in 0 .. n : i \in P
    BY <1>1, <1>3, <1>4, Steps
  <2> QED
    BY <1>1, <2>1
<1>6. ToSet(f[n]) = upto(n)
  BY <1>5
<1> QED
  BY <1>1, <1>2, <1>6

(***************************************************************************)
(* Files as lines.                                                         *)
(***************************************************************************)
\* A token added to the last piece, or a piece begun, keeps pieces pieces.
LEMMA CutType ==
  ASSUME NEW pieces \in Seq(Line), pieces # <<>>, NEW t \in Token
  PROVE  Cut(pieces, t) \in Seq(Line) /\ Cut(pieces, t) # <<>>
<1> DEFINE n == Len(pieces)
           last == Append(pieces[n], t)
<1>1. n \in Nat /\ n # 0 /\ n \in 1 .. n /\ DOMAIN pieces = 1 .. n /\ pieces \in [1 .. n -> Line]
  BY LenProperties, EmptySeq
<1>2. <<>> \in Line /\ last \in Line
  <2>1. pieces[n] \in Seq(Token)
    BY <1>1 DEF Line
  <2> HIDE DEF n
  <2> QED
    BY <2>1 DEF Line
<1>3. Append(pieces, <<>>) \in Seq(Line) /\ Append(pieces, <<>>) # <<>>
  BY <1>2
<1> HIDE DEF last
<1>4. [pieces EXCEPT ![n] = last] \in Seq(Line) /\ [pieces EXCEPT ![n] = last] # <<>>
  <2> DEFINE cut == [pieces EXCEPT ![n] = last]
  <2> HIDE DEF n
  <2>1. cut \in [1 .. n -> Line]
    BY <1>1, <1>2
  <2>2. DOMAIN cut = 1 .. n /\ DOMAIN <<>> = {}
    BY <2>1
  <2> HIDE DEF cut
  <2>3. cut \in Seq(Line)
    BY <1>1, <2>1, SeqDef
  <2>4. cut # <<>>
    BY <1>1, <2>2
  <2> QED
    BY <2>3, <2>4 DEF cut
<1>5. Cut(pieces, t) = IF t = "sep" THEN Append(pieces, <<>>) ELSE [pieces EXCEPT ![n] = last]
  BY DEF Cut, n, last
<1> QED
  BY <1>3, <1>4, <1>5

\* The pieces of a line after each of its tokens.
LEMMA SplitSteps ==
  ASSUME NEW line \in Line, NEW n, n = Len(line)
  PROVE  /\ n \in Nat /\ splitlines(line)[0] = <<<<>>>>
         /\ \A i \in 1 .. n : splitlines(line)[i] = Cut(splitlines(line)[i - 1], line[i])
         /\ \A i \in 0 .. n : splitlines(line)[i] \in Seq(Line) \ {<<>>}
<1> DEFINE S == Seq(Line) \ {<<>>}
           first == <<<<>>>>
<1>1. n \in Nat /\ \A i \in 1 .. n : line[i] \in Token
  BY LenProperties DEF Line
<1> DEFINE G == [z \in S \X (1 .. n) |-> Cut(z[1], line[z[2]])]
           IsRun(g) == g = [i \in 0 .. n |-> IF i = 0 THEN first ELSE Cut(g[i - 1], line[i])]
<1>2. first \in S
  <2>1. <<>> \in Line
    BY DEF Line
  <2> QED
    BY <2>1
<1> HIDE DEF first
<1>3. \A s \in S, i \in 1 .. n : Cut(s, line[i]) \in S
  BY <1>1, CutType
<1> HIDE DEF S
<1>4. StepFunction(G, S, n)
  BY <1>3 DEF StepFunction
<1>5. PICK f : RunOf(f, G, first, S, n)
  <2> HIDE DEF G
  <2> QED
    BY <1>1, <1>2, <1>4, RunExists
<1>6. IsRun(f)
  <2>1. \A i \in 1 .. n : i - 1 \in 0 .. n /\ f[i - 1] \in S
    BY <1>5 DEF RunOf
  <2>2. \A i \in 1 .. n : f[i] = Cut(f[i - 1], line[i])
    BY <1>5, <2>1 DEF RunOf
  <2> QED
    BY <1>5, <2>2 DEF RunOf
<1>7. IsRun(splitlines(line))
  <2>1. splitlines(line) = CHOOSE g : IsRun(g)
    BY DEF splitlines, first
  <2> HIDE DEF IsRun
  <2> QED
    BY <1>6, <2>1, Zenon
<1> DEFINE F == splitlines(line)
<1>8. /\ F[0] = first
      /\ \A i \in 1 .. n : F[i] = Cut(F[i - 1], line[i])
  <2> HIDE DEF F
  <2>1. F = [i \in 0 .. n |-> IF i = 0 THEN first ELSE Cut(F[i - 1], line[i])]
    BY <1>7 DEF F
  <2> QED
    BY <1>1, <2>1
<1>9. \A i \in 0 .. n : F[i] \in S
  <2> DEFINE P == {i \in 0 .. n : F[i] \in S}
  <2>1. 0 \in P
    BY <1>1, <1>2, <1>8
  <2>2. ASSUME NEW i \in 1 .. n, i - 1 \in P
        PROVE  i \in P
    <3> HIDE DEF F
    <3> QED
      BY <1>3, <1>8, <2>2
  <2>3. \A i \in 0 .. n : i \in P
    <3> HIDE DEF P, F
    <3> QED
      BY <1>1, <2>1, <2>2, Steps
  <2> QED
    BY <2>3
<1> QED
  BY <1>1, <1>8, <1>9 DEF S, first

\* A line without a separator is its only piece.
LEMMA OnePiece ==
  ASSUME NEW line \in Line, ~Has(line, "sep")
  PROVE  splitlines(line)[Len(line)] = <<line>>
<1> DEFINE n == Len(line)
           F == splitlines(line)
           upto(i) == SubSeq(line, 1, i)
           P == {i \in 0 .. n : F[i] = <<upto(i)>>}
<1>1. /\ n \in Nat /\ DOMAIN line = 1 .. n /\ line \in Seq(Token)
      /\ \A i \in 1 .. n : line[i] \in Token /\ line[i] # "sep"
  BY LenProperties DEF Line, Has
<1>2. F[0] = <<<<>>>> /\ \A i \in 1 .. n : F[i] = Cut(F[i - 1], line[i])
  BY SplitSteps
<1> HIDE DEF F, n
<1>3. 0 \in P
  <2>1. upto(0) = <<>> /\ 0 \in 0 .. n
    BY <1>1
  <2> HIDE DEF upto
  <2>2. F[0] = <<upto(0)>>
    BY <1>2, <2>1, Zenon
  <2> QED
    BY <2>1, <2>2
<1>4. ASSUME NEW i \in 1 .. n, i - 1 \in P
      PROVE  i \in P
  <2> DEFINE s == upto(i - 1)
  <2>1. F[i - 1] = <<s>> /\ i \in 0 .. n
    BY <1>4
  <2>2. upto(i) = Append(s, line[i])
    BY <1>1
  <2> HIDE DEF s, upto
  <2>3. Cut(<<s>>, line[i]) = <<Append(s, line[i])>>
    BY <1>1 DEF Cut
  <2>4. F[i] = <<upto(i)>>
    BY <1>2, <2>1, <2>2, <2>3
  <2> QED
    BY <2>1, <2>4
<1>5. n \in P
  <2> HIDE DEF P
  <2>1. \A i \in 0 .. n : i \in P
    BY <1>1, <1>3, <1>4, Steps
  <2> QED
    BY <1>1, <2>1
<1>6. upto(n) = line
  BY <1>1 DEF n
<1> QED
  BY <1>5, <1>6 DEF F, n

\* The lines of a file are lines.
LEMMA LinesOfLines ==
  ASSUME NEW file \in Seq(Line)
  PROVE  get_lines(file) \in Seq(Line)
<1> DEFINE pieces == [i \in DOMAIN file |-> splitlines(file[i])[Len(file[i])]]
<1>1. DOMAIN file = 1 .. Len(file) /\ Len(file) \in Nat /\ \A i \in DOMAIN file : file[i] \in Line
  BY LenProperties
<1>2. ASSUME NEW line \in Line
      PROVE  splitlines(line)[Len(line)] \in Seq(Line)
  <2>1. Len(line) \in 0 .. Len(line)
    BY LenProperties DEF Line
  <2> QED
    BY <2>1, SplitSteps
<1>3. pieces \in [1 .. Len(file) -> Seq(Line)]
  BY <1>1, <1>2
<1>4. pieces \in Seq(Seq(Line))
  <2> HIDE DEF pieces
  <2> QED
    BY <1>1, <1>3, SeqDef
<1> HIDE DEF pieces
<1> QED
  BY <1>4, FlattenType DEF get_lines, pieces

\* Sequences of one element joined are the elements.
LEMMA FlattenSingles ==
  ASSUME NEW S, NEW s \in Seq(S), NEW seqs, seqs = [i \in DOMAIN s |-> <<s[i]>>]
  PROVE  FlattenSeq(seqs) = s
<1> DEFINE n == Len(s)
           upto(i) == SubSeq(s, 1, i)
<1>1. n \in Nat /\ DOMAIN s = 1 .. n /\ \A i \in 1 .. n : s[i] \in S
  BY LenProperties
<1>2. seqs \in Seq(Seq(S)) /\ Len(seqs) = n /\ \A i \in 1 .. n : seqs[i] = <<s[i]>>
  <2>1. seqs \in [1 .. n -> Seq(S)]
    BY <1>1
  <2> QED
    BY <1>1, <2>1, SeqDef, LenProperties
<1>3. PICK f : Flattening(f, seqs, S, n) /\ FlattenSeq(seqs) = f[n]
  BY <1>2, FlattenSteps
<1>4. f[0] = <<>> /\ \A i \in 1 .. n : f[i] = f[i - 1] \o <<s[i]>>
  BY <1>2, <1>3 DEF Flattening
<1> DEFINE P == {i \in 0 .. n : f[i] = upto(i)}
<1> HIDE DEF n
<1>5. 0 \in P
  <2>1. upto(0) = <<>> /\ 0 \in 0 .. n
    BY <1>1
  <2> HIDE DEF upto
  <2> QED
    BY <1>4, <2>1
<1>6. ASSUME NEW i \in 1 .. n, i - 1 \in P
      PROVE  i \in P
  <2>1. f[i - 1] = upto(i - 1) /\ i \in 0 .. n
    BY <1>6
  <2>2. upto(i) = upto(i - 1) \o <<s[i]>>
    BY <1>1
  <2> HIDE DEF upto
  <2>3. f[i] = upto(i)
    BY <1>4, <2>1, <2>2
  <2> QED
    BY <2>1, <2>3
<1>7. n \in P
  <2> HIDE DEF P
  <2>1. \A i \in 0 .. n : i \in P
    BY <1>1, <1>5, <1>6, Steps
  <2> QED
    BY <1>1, <2>1
<1>8. upto(n) = s
  BY <1>1 DEF n
<1> QED
  BY <1>3, <1>7, <1>8

\* A file without separators has the lines its newlines make.
LEMMA OneLineEach ==
  ASSUME NEW file \in Seq(Line), \A i \in DOMAIN file : ~Has(file[i], "sep")
  PROVE  get_lines(file) = file
<1>1. \A i \in DOMAIN file : file[i] \in Line
  OBVIOUS
<1>2. [i \in DOMAIN file |-> splitlines(file[i])[Len(file[i])]] = [i \in DOMAIN file |-> <<file[i]>>]
  BY <1>1, OnePiece
<1> QED
  BY <1>2, FlattenSingles DEF get_lines

(***************************************************************************)
(* The backends.                                                           *)
(***************************************************************************)
\* The lists of the two backends from the same file.
LEMMA GeneratedAlike ==
  ASSUME NEW o, OptionsOK(o), NEW file \in Seq(Line),
         \A i \in DOMAIN file : ~HiddenTag(file[i]) /\ ~Has(file[i], "sep") /\ ~Foreign(o, file[i])
  PROVE  python_generate(o, get_lines(file)) = native_generate(o, file)
<1>1. CASE o.is_blacklist \/ _requires_python_template_expansion(file)
  BY <1>1 DEF native_generate
<1>2. CASE ~o.is_blacklist /\ ~_requires_python_template_expansion(file)
  <2> DEFINE expanded == [i \in DOMAIN file |-> expand_template_line(o, lstrip_once(file[i], "/"))]
             rendered == FlattenSeq(expanded)
             paths == [i \in DOMAIN rendered |->
                         IF is_valid_path(o, rendered[i]) THEN Entries(o, rendered[i]) ELSE <<>>]
             wordlist == AddAll(o, FlattenSeq(paths))
             Outcome(final) == IF final.error THEN [error |-> TRUE, items |-> <<>>]
                               ELSE [error |-> FALSE,
                                     items |-> [i \in DOMAIN final.items |-> Cased(o, final.items[i])]]
             rustExpanded == [i \in DOMAIN file |-> expand_ext(o, lstrip_once(file[i], "/"))]
             rustRendered == FlattenSeq(rustExpanded)
             rustPaths == [i \in DOMAIN rustRendered |->
                         IF is_valid(o, rustRendered[i]) THEN native_entries(o, rustRendered[i]) ELSE <<>>]
             rustWordlist == AddAll(o, FlattenSeq(rustPaths))
  <2>1. /\ DOMAIN file = 1 .. Len(file) /\ Len(file) \in Nat
        /\ \A i \in DOMAIN file : file[i] \in Line
    BY LenProperties
  <2>2. ASSUME NEW i \in DOMAIN file
        PROVE  /\ expand_template_line(o, lstrip_once(file[i], "/")) = expand_ext(o, lstrip_once(file[i], "/"))
               /\ expand_ext(o, lstrip_once(file[i], "/")) \in Seq(Line)
    <3> DEFINE line == lstrip_once(file[i], "/")
    <3>1. /\ line \in Line /\ FindTokens(line) = FindTokens(file[i])
          /\ Tag(line) => Tag(file[i])
      <4> HIDE DEF line
      <4> QED
        BY <2>1, Stripped DEF line
    <3> HIDE DEF line
    <3>2. \A j \in DOMAIN FindTokens(line) :
             is_template_token(FindTokens(line)[j]) => FindTokens(line)[j] = <<"ext">>
      BY <1>2, <3>1 DEF _requires_python_template_expansion
    <3>3. Tag(line) => Contains(FindTokens(line), <<"ext">>)
      BY <3>1 DEF HiddenTag, Tag
    <3>4. expand_template_line(o, line) = expand_ext(o, line) /\ expand_ext(o, line) \in Seq(Line)
      BY <3>1, <3>2, <3>3, ExpandedAlike
    <3> QED
      BY <3>4 DEF line
  <2>3. expanded = rustExpanded
    BY <2>2
  <2>4. /\ rendered \in Seq(Line)
        /\ ToSet(rendered) = UNION {ToSet(expanded[i]) : i \in DOMAIN expanded}
    <3>1. expanded \in [1 .. Len(file) -> Seq(Line)]
      BY <2>1, <2>2
    <3>2. expanded \in Seq(Seq(Line))
      <4> HIDE DEF expanded
      <4> QED
        BY <2>1, <3>1, SeqDef
    <3> HIDE DEF expanded
    <3> QED
      BY <3>2, FlattenType, MembersOfFlatten
  <2>5. rustRendered = rendered
    <3> HIDE DEF expanded, rustExpanded
    <3> QED
      BY <2>3
  <2> HIDE DEF rendered, rustRendered
  <2>6. /\ DOMAIN rendered = 1 .. Len(rendered) /\ Len(rendered) \in Nat
        /\ \A i \in DOMAIN rendered : rendered[i] \in Line
    BY <2>4, LenProperties
  <2>7. rustPaths = paths
    <3>1. ASSUME NEW i \in DOMAIN rendered
          PROVE  /\ is_valid_path(o, rendered[i]) <=> is_valid(o, rendered[i])
                 /\ Entries(o, rendered[i]) = native_entries(o, rendered[i])
      <4>1. rendered[i] \in ToSet(rendered)
        BY DEF ToSet
      <4>2. PICK k \in DOMAIN expanded : rendered[i] \in ToSet(expanded[k])
        BY <2>4, <4>1
      <4>3. ~ForeignBase(rendered[i])
        BY <4>2 DEF Foreign
      <4> QED
        BY <1>2, <2>6, <4>3, ValidAlike, EntriesAlike
    <3> QED
      BY <2>5, <3>1
  <2>8. FlattenSeq(paths) \in Seq(Line)
    <3>1. \A i \in 1 .. Len(rendered) : Entries(o, rendered[i]) \in Seq(Line)
      BY <2>6, EntriesType
    <3>2. <<>> \in Seq(Line)
      OBVIOUS
    <3>3. paths \in [1 .. Len(rendered) -> Seq(Line)]
      BY <2>6, <3>1, <3>2
    <3>4. paths \in Seq(Seq(Line))
      <4> HIDE DEF paths
      <4> QED
        BY <2>6, <3>3, SeqDef
    <3> HIDE DEF paths
    <3> QED
      BY <3>4, FlattenType
  <2>9. rustWordlist = wordlist
    <3> HIDE DEF paths, rustPaths
    <3> QED
      BY <2>7
  <2>10. wordlist \in Lists
    <3> DEFINE all == FlattenSeq(paths)
    <3>1. all \in Seq(Line) /\ Len(all) \in Nat /\ Len(all) \in 0 .. Len(all)
      <4>1. all \in Seq(Line)
        BY <2>8
      <4> HIDE DEF all
      <4> QED
        BY <4>1, LenProperties
    <3> HIDE DEF all
    <3>2. AddAll(o, all) \in Lists
      BY <3>1, WordlistSteps DEF AddAll
    <3> QED
      BY <3>2 DEF all
  <2>11. python_generate(o, get_lines(file))
           = Outcome(IF o.is_blacklist THEN wordlist ELSE alter(o, wordlist))
    <3>1. get_lines(file) = file
      BY OneLineEach
    <3> QED
      BY <3>1 DEF python_generate, rendered
  <2>12. native_generate(o, file) = Outcome(IF o.prefixes # <<>> \/ o.suffixes # <<>>
                                            THEN alter(o, rustWordlist) ELSE rustWordlist)
    BY <1>2 DEF native_generate, generate_wordlist_items, rustRendered
  <2> HIDE DEF wordlist, rustWordlist, Outcome
  <2>13. o.prefixes = <<>> /\ o.suffixes = <<>> => alter(o, wordlist) = wordlist
    BY <2>10, NothingAltered
  <2> QED
    BY <1>2, <2>9, <2>11, <2>12, <2>13
<1> QED
  BY <1>1, <1>2

\* The lines are fixed when the first backend starts, and a list that is there
\* is the one its backend makes of them.
GeneratedFromLines ==
  /\ options \in AllOptions
  /\ lines \in Seq(AllLines)
  /\ generated \in [Backends -> {NotYet, python_generate(options, get_lines(lines)),
                                 native_generate(options, lines)}]
  /\ generated["python"] \in {NotYet, python_generate(options, get_lines(lines))}
  /\ generated["native"] \in {NotYet, native_generate(options, lines)}

\* What is generated first comes from the lines read.
LEMMA InitGenerated == GenerationInit => GeneratedFromLines
<1> SUFFICES ASSUME GenerationInit
             PROVE  GeneratedFromLines
  OBVIOUS
<1>1. <<>> \in Seq(AllLines)
  OBVIOUS
<1> QED
  BY <1>1 DEF GenerationInit, GeneratedFromLines, Backends

\* Every action generates from the lines read, or leaves them alone.
LEMMA NextGenerated ==
  ASSUME GeneratedFromLines, [GenerationNext]_generationVars
  PROVE  GeneratedFromLines'
<1> USE DEF GeneratedFromLines, Backends
<1>1. CASE ReadLine
  <2>1. /\ lines' \in Seq(AllLines) /\ options' = options /\ generated' = generated
        /\ \A b \in Backends : generated[b] = NotYet
    BY <1>1, AppendProperties DEF ReadLine
  <2> QED
    BY <2>1
<1>2. CASE \E b \in Backends : generate(b)
  <2>1. PICK b \in Backends : generate(b)
    BY <1>2
  <2>2. CASE b = "python"
    BY <2>1, <2>2 DEF generate
  <2>3. CASE b = "native"
    BY <2>1, <2>3 DEF generate
  <2> QED
    BY <2>2, <2>3
<1>3. CASE Done \/ UNCHANGED generationVars
  BY <1>3 DEF Done, generationVars
<1> QED
  BY <1>1, <1>2, <1>3 DEF GenerationNext

\* The configurations and lines of the states are what the lemmas assume.
LEMMA ConfigurationsOK ==
  ASSUME GeneratedFromLines
  PROVE  OptionsOK(options) /\ lines \in Seq(Line)
<1>1. OptionsOK(options)
  BY OptionsAssumption DEF GeneratedFromLines, OptionsOK
<1>2. AllLines \subseteq Line
  <2>1. \A s : s \in Seq(STRING) => s \in Seq(Token)
    BY SeqDef DEF Token
  <2> QED
    BY <2>1, LinesAssumption DEF Line
<1>3. lines \in Seq(Line)
  BY <1>2 DEF GeneratedFromLines
<1> QED
  BY <1>1, <1>3

\* The Rust generator and the Python one make the same list of the same files,
\* or both refuse, whatever the options and the lines, but for those in which
\* TOKEN_RE spends the first % of an %EXT% on another name, those with a separator
\* that ends a line for Python alone, and those with a foreign word before a dot.
THEOREM BackendsAgreeHolds == GenerationSpec => []BackendsAgree
<1>1. GeneratedFromLines => BackendsAgree
  <2> SUFFICES ASSUME GeneratedFromLines, Generated,
                      \A i \in DOMAIN lines : /\ ~HiddenTag(lines[i]) /\ ~Has(lines[i], "sep")
                                              /\ ~Foreign(options, lines[i])
               PROVE  generated["python"] = generated["native"]
    BY DEF BackendsAgree
  <2>1. OptionsOK(options) /\ lines \in Seq(Line)
    BY ConfigurationsOK
  <2>2. python_generate(options, get_lines(lines)) = native_generate(options, lines)
    BY <2>1, GeneratedAlike
  <2> QED
    BY <2>2 DEF GeneratedFromLines, Generated, Backends
<1> QED
  BY <1>1, InitGenerated, NextGenerated, PTL DEF GenerationSpec

(***************************************************************************)
(* Every combination of values is rendered.                                *)
(***************************************************************************)
LEMMA ResolvedType ==
  ASSUME NEW o, OptionsOK(o), NEW name
  PROVE  _resolve_token(o, name) \in Seq(Line)
<1>1. Seq(STRING) \subseteq Line
  BY SeqDef DEF Line, Token
<1>2. Subjects \in Seq(Line)
  <2>1. \A s : s \in Seq(Seq(STRING)) => s \in Seq(Line)
    <3> HIDE DEF Line
    <3> QED
      BY <1>1, SeqDef
  <2> QED
    BY <2>1, LinesAssumption
<1>3. ExtValues(o) \in Seq(Line)
  <2>1. /\ o.extensions \in Seq(STRING) /\ DOMAIN o.extensions = 1 .. Len(o.extensions)
        /\ Len(o.extensions) \in Nat
    BY LenProperties DEF OptionsOK
  <2>2. \A i \in 1 .. Len(o.extensions) : <<o.extensions[i]>> \in Line
    <3>1. \A i \in 1 .. Len(o.extensions) : <<o.extensions[i]>> \in Seq(STRING)
      BY <2>1
    <3> HIDE DEF Line
    <3> QED
      BY <1>1, <3>1
  <2>3. ExtValues(o) \in [1 .. Len(o.extensions) -> Line]
    BY <2>1, <2>2 DEF ExtValues
  <2> QED
    BY <2>1, <2>3, SeqDef
<1> QED
  BY <1>2, <1>3 DEF _resolve_token

\* Every rendering is given every value, and nothing else is produced.
LEMMA SubstituteAllWorks ==
  ASSUME NEW rendered \in Seq(Line), NEW name \in Token, NEW values \in Seq(Line)
  PROVE  /\ SubstituteAll(rendered, name, values) \in Seq(Line)
         /\ ToSet(SubstituteAll(rendered, name, values))
              = {Substitute(s, name, v) : s \in ToSet(rendered), v \in ToSet(values)}
<1> DEFINE row(i) == [j \in DOMAIN values |-> Substitute(rendered[i], name, values[j])]
           all == [i \in DOMAIN rendered |-> row(i)]
<1>1. /\ DOMAIN rendered = 1 .. Len(rendered) /\ Len(rendered) \in Nat
      /\ \A i \in DOMAIN rendered : rendered[i] \in Line
      /\ DOMAIN values = 1 .. Len(values) /\ Len(values) \in Nat
      /\ \A i \in DOMAIN values : values[i] \in Line
  BY LenProperties
<1>2. ASSUME NEW i \in DOMAIN rendered
      PROVE  row(i) \in Seq(Line)
  <2>1. \A j \in DOMAIN values : Substitute(rendered[i], name, values[j]) \in Line
    BY <1>1, SubstituteType
  <2>2. row(i) \in [1 .. Len(values) -> Line]
    BY <1>1, <2>1
  <2> HIDE DEF row
  <2> QED
    BY <1>1, <2>2, SeqDef
<1>3. all \in Seq(Seq(Line)) /\ DOMAIN all = DOMAIN rendered
  <2> HIDE DEF row
  <2>1. all \in [1 .. Len(rendered) -> Seq(Line)]
    BY <1>1, <1>2
  <2> HIDE DEF all
  <2> QED
    BY <1>1, <2>1, SeqDef
<1>4. SubstituteAll(rendered, name, values) = FlattenSeq(all)
  BY DEF SubstituteAll
<1>5. /\ FlattenSeq(all) \in Seq(Line)
      /\ ToSet(FlattenSeq(all)) = UNION {ToSet(all[i]) : i \in DOMAIN all}
  <2> HIDE DEF all
  <2> QED
    BY <1>3, FlattenType, MembersOfFlatten
<1> DEFINE substituted == SubstituteAll(rendered, name, values)
           expected == {Substitute(s, name, v) : s \in ToSet(rendered), v \in ToSet(values)}
           found == UNION {ToSet(all[i]) : i \in DOMAIN all}
<1>6. ASSUME NEW x
      PROVE  x \in found <=> x \in expected
  <2> DEFINE from(i, j) == x = Substitute(rendered[i], name, values[j])
  <2>1. \A i \in DOMAIN rendered : x \in ToSet(all[i]) <=> \E j \in DOMAIN values : from(i, j)
    BY DEF ToSet
  <2>2. x \in expected
          <=> \E i \in DOMAIN rendered : \E j \in DOMAIN values : from(i, j)
    BY DEF ToSet
  <2> HIDE DEF all, from
  <2>3. x \in found
          <=> \E i \in DOMAIN rendered : x \in ToSet(all[i])
    BY <1>3
  <2> HIDE DEF found, expected
  <2> QED
    BY <2>1, <2>2, <2>3
<1>7. \A x : x \in found <=> x \in expected
  <2> HIDE DEF found, expected
  <2> QED
    BY <1>6
<1>8. substituted \in Seq(Line)
  BY <1>4, <1>5
<1>9. ToSet(substituted) = found
  <2> HIDE DEF all
  <2> QED
    BY <1>4, <1>5
<1>10. ToSet(substituted) = expected
  <2> HIDE DEF found, expected, substituted
  <2> QED
    BY <1>7, <1>9
<1> QED
  BY <1>8, <1>10

LineLists == Seq(Line)

\* The renderings after each placeholder.
LEMMA RendersSteps ==
  ASSUME NEW o, OptionsOK(o), NEW line \in Line, NEW names \in NameLists, NEW n, n = Len(names)
  PROVE  /\ n \in Nat /\ Renders(o, line, names)[0] = <<line>>
         /\ \A i \in 1 .. n : Renders(o, line, names)[i] = SubstituteAll(Renders(o, line, names)[i - 1], names[i], _resolve_token(o, names[i]))
         /\ \A i \in 0 .. n : Renders(o, line, names)[i] \in Seq(Line)
<1>1. n \in Nat /\ \A i \in 1 .. n : names[i] \in {"ext", "sub"}
  BY LenProperties DEF NameLists
<1> DEFINE H(s, i) == SubstituteAll(s, names[i], _resolve_token(o, names[i]))
           base == <<line>>
           G == [z \in LineLists \X (1 .. n) |-> H(z[1], z[2])]
           IsRun(g) == g = [i \in 0 .. n |->
                              IF i = 0 THEN base ELSE H(g[i - 1], i)]
<1>2. base \in LineLists
  BY DEF LineLists
<1>3. \A s \in LineLists, i \in 1 .. n : H(s, i) \in LineLists
  <2>1. \A i \in 1 .. n : _resolve_token(o, names[i]) \in LineLists /\ names[i] \in Token
    <3>1. {"ext", "sub"} \subseteq Token
      BY DEF Token
    <3> QED
      BY <1>1, <3>1, ResolvedType DEF LineLists
  <2> QED
    BY <2>1, SubstituteAllWorks DEF LineLists
<1> HIDE DEF H, base
<1>4. StepFunction(G, LineLists, n)
  BY <1>3 DEF StepFunction
<1>5. PICK f : RunOf(f, G, base, LineLists, n)
  <2> HIDE DEF G
  <2> QED
    BY <1>1, <1>2, <1>4, RunExists
<1>6. IsRun(f)
  <2>1. \A i \in 1 .. n : i - 1 \in 0 .. n /\ f[i - 1] \in LineLists
    BY <1>5 DEF RunOf
  <2>2. \A i \in 1 .. n : f[i] = H(f[i - 1], i)
    BY <1>5, <2>1 DEF RunOf
  <2> QED
    BY <1>5, <2>2 DEF RunOf
<1>7. IsRun(Renders(o, line, names))
  <2>1. Renders(o, line, names) = CHOOSE g : IsRun(g)
    BY DEF Renders, H, base
  <2> HIDE DEF IsRun
  <2> QED
    BY <1>6, <2>1, Zenon
<1> DEFINE F == Renders(o, line, names)
<1>8. /\ F[0] = base
      /\ \A i \in 1 .. n : F[i] = H(F[i - 1], i)
  <2> HIDE DEF F
  <2>1. F = [i \in 0 .. n |-> IF i = 0 THEN base ELSE H(F[i - 1], i)]
    BY <1>7 DEF F
  <2> QED
    BY <1>1, <2>1
<1>9. \A i \in 0 .. n : F[i] \in LineLists
  <2> DEFINE P == {i \in 0 .. n : F[i] \in LineLists}
  <2>1. 0 \in P
    BY <1>1, <1>2, <1>8
  <2>2. ASSUME NEW i \in 1 .. n, i - 1 \in P
        PROVE  i \in P
    <3> HIDE DEF F
    <3> QED
      BY <1>3, <1>8, <2>2
  <2>3. \A i \in 0 .. n : i \in P
    <3> HIDE DEF P, F
    <3> QED
      BY <1>1, <2>1, <2>2, Steps
  <2> QED
    BY <2>3
<1> QED
  BY <1>1, <1>8, <1>9 DEF H, base, LineLists

\* The sequence of two elements.
LEMMA AppendOne ==
  ASSUME NEW a, NEW b
  PROVE  Append(<<a>>, b) = <<a, b>>
<1> DEFINE T == {a, b}
           x == Append(<<a>>, b)
           y == <<a, b>>
<1>1. <<a>> \in Seq(T) /\ Len(<<a>>) = 1 /\ <<a>>[1] = a
  OBVIOUS
<1>2. x \in Seq(T) /\ Len(x) = 2 /\ x[1] = a /\ x[2] = b
  BY <1>1, AppendProperties
<1>3. y \in Seq(T) /\ Len(y) = 2 /\ y[1] = a /\ y[2] = b
  OBVIOUS
<1>4. \A i : i \in 1 .. 2 <=> i = 1 \/ i = 2
  OBVIOUS
<1> HIDE DEF x, y, T
<1>5. \A i \in 1 .. Len(x) : x[i] = y[i]
  BY <1>2, <1>3, <1>4
<1>6. x = y
  BY <1>2, <1>3, <1>5, SeqEqual
<1> QED
  BY <1>6 DEF x, y

\* The placeholders seen, in the order they are seen in.
NamesSeen(ext, sub, subFirst) ==
  IF subFirst THEN (IF ext THEN <<"sub", "ext">> ELSE <<"sub">>)
  ELSE IF ext THEN (IF sub THEN <<"ext", "sub">> ELSE <<"ext">>)
  ELSE <<>>

\* The names seen are those of the placeholders found.
LEMMA NamesSeenContains ==
  ASSUME NEW ext \in BOOLEAN, NEW sub \in BOOLEAN, NEW subFirst \in BOOLEAN,
         subFirst => sub, sub /\ ~subFirst => ext
  PROVE  /\ Contains(NamesSeen(ext, sub, subFirst), "ext") <=> ext
         /\ Contains(NamesSeen(ext, sub, subFirst), "sub") <=> sub
<1>1. ~Contains(<<>>, "ext") /\ ~Contains(<<>>, "sub")
  BY DEF Contains
<1>2. Contains(<<"ext">>, "ext") /\ ~Contains(<<"ext">>, "sub")
  BY DEF Contains
<1>3. Contains(<<"sub">>, "sub") /\ ~Contains(<<"sub">>, "ext")
  BY DEF Contains
<1>4. Contains(<<"sub", "ext">>, "sub") /\ Contains(<<"sub", "ext">>, "ext")
  <2>1. /\ Len(<<"sub", "ext">>) = 2 /\ <<"sub", "ext">>[1] = "sub" /\ <<"sub", "ext">>[2] = "ext"
        /\ 1 \in 1 .. 2 /\ 2 \in 1 .. 2
    OBVIOUS
  <2> QED
    BY <2>1 DEF Contains
<1>5. Contains(<<"ext", "sub">>, "sub") /\ Contains(<<"ext", "sub">>, "ext")
  <2>1. /\ Len(<<"ext", "sub">>) = 2 /\ <<"ext", "sub">>[1] = "ext" /\ <<"ext", "sub">>[2] = "sub"
        /\ 1 \in 1 .. 2 /\ 2 \in 1 .. 2
    OBVIOUS
  <2> QED
    BY <2>1 DEF Contains
<1> QED
  BY <1>1, <1>2, <1>3, <1>4, <1>5, Zenon DEF NamesSeen

\* Placeholders are named once each, in the order of their first occurrence.
LEMMA NamesInOrder ==
  ASSUME NEW tokens \in Seq(Line)
  PROVE  TemplateNames(tokens)[Len(tokens)] =
           NamesSeen(Contains(tokens, <<"ext">>), Contains(tokens, <<"sub">>),
                     \E i \in DOMAIN tokens :
                        tokens[i] = <<"sub">> /\ \A j \in 1 .. i : tokens[j] # <<"ext">>)
<1> DEFINE n == Len(tokens)
           N == TemplateNames(tokens)
           ext(i) == \E j \in 1 .. i : tokens[j] = <<"ext">>
           sub(i) == \E j \in 1 .. i : tokens[j] = <<"sub">>
           first(i) == \E k \in 1 .. i : tokens[k] = <<"sub">> /\ \A j \in 1 .. k : tokens[j] # <<"ext">>
           P == {i \in 0 .. n : N[i] = NamesSeen(ext(i), sub(i), first(i))}
<1>1. /\ n \in Nat /\ N[0] = <<>> /\ DOMAIN tokens = 1 .. n
      /\ \A i \in 1 .. n : N[i] = Named(N[i - 1], tokens[i])
  BY NamesSteps, LenProperties
<1>2. <<"ext">> # <<"sub">>
  OBVIOUS
<1>3. 0 \in P
  <2>1. ~ext(0) /\ ~sub(0) /\ ~first(0)
    OBVIOUS
  <2> HIDE DEF N, ext, sub, first, n
  <2> QED
    BY <1>1, <2>1 DEF NamesSeen
<1>4. ASSUME NEW i \in 1 .. n, i - 1 \in P
      PROVE  i \in P
  <2> DEFINE e == ext(i - 1)
             s == sub(i - 1)
             f == first(i - 1)
             t == tokens[i]
  <2>1. i \in 0 .. n /\ N[i] = Named(NamesSeen(e, s, f), t)
    <3>1. N[i - 1] = NamesSeen(e, s, f) /\ i \in 0 .. n
      <4>1. i \in 0 .. n
        OBVIOUS
      <4> HIDE DEF N, ext, sub, first, n
      <4>2. N[i - 1] = NamesSeen(ext(i - 1), sub(i - 1), first(i - 1))
        BY <1>4, Zenon
      <4> QED
        BY <4>1, <4>2, Zenon
    <3>2. N[i] = Named(N[i - 1], t)
      BY <1>1
    <3> HIDE DEF N, e, s, f, t, n
    <3> QED
      BY <3>1, <3>2
  <2>2. \A j : j \in 1 .. i <=> j \in 1 .. i - 1 \/ j = i
    BY <1>1
  <2>3. /\ ext(i) <=> e \/ t = <<"ext">>
        /\ sub(i) <=> s \/ t = <<"sub">>
        /\ first(i) <=> f \/ (t = <<"sub">> /\ ~e)
    <3>1. (\A j \in 1 .. i : tokens[j] # <<"ext">>) <=> ~e /\ t # <<"ext">>
      BY <2>2
    <3>2. ext(i) <=> e \/ t = <<"ext">>
      BY <2>2
    <3>3. sub(i) <=> s \/ t = <<"sub">>
      BY <2>2
    <3>4. first(i) <=> f \/ (t = <<"sub">> /\ \A j \in 1 .. i : tokens[j] # <<"ext">>)
      BY <2>2, Zenon
    <3> HIDE DEF e, s, f, t, ext, sub, first
    <3> QED
      BY <1>2, <3>1, <3>2, <3>3, <3>4
  <2>4. (f => s) /\ (s /\ ~f => e)
    <3>1. f => s
      OBVIOUS
    <3>2. ASSUME s, ~e
          PROVE  f
      <4>1. PICK k \in 1 .. i - 1 : tokens[k] = <<"sub">>
        BY <3>2
      <4>2. \A j \in 1 .. k : j \in 1 .. i - 1
        OBVIOUS
      <4> QED
        BY <3>2, <4>1, <4>2
    <3> QED
      BY <3>1, <3>2
  <2>5. e \in BOOLEAN /\ s \in BOOLEAN /\ f \in BOOLEAN
    OBVIOUS
  <2>6. is_template_token(t) <=> t = <<"ext">> \/ t = <<"sub">>
    BY DEF is_template_token
  <2>7. <<"ext">>[1] = "ext" /\ <<"sub">>[1] = "sub"
    OBVIOUS
  <2>8. /\ Append(<<>>, "ext") = <<"ext">> /\ Append(<<>>, "sub") = <<"sub">>
        /\ Append(<<"ext">>, "sub") = <<"ext", "sub">> /\ Append(<<"sub">>, "ext") = <<"sub", "ext">>
    <3>1. Append(<<>>, "ext") = <<"ext">> /\ Append(<<>>, "sub") = <<"sub">>
      OBVIOUS
    <3> QED
      BY <3>1, AppendOne, Zenon
  <2> HIDE DEF N, n, ext, sub, first, e, s, f, t
  <2>9. /\ Contains(NamesSeen(e, s, f), "ext") <=> e
        /\ Contains(NamesSeen(e, s, f), "sub") <=> s
    BY <2>4, <2>5, NamesSeenContains
  <2>10. Named(NamesSeen(e, s, f), t) = NamesSeen(ext(i), sub(i), first(i))
    <3>1. CASE t = <<"ext">>
      <4>1. ext(i) = TRUE /\ (sub(i) <=> s) /\ (first(i) <=> f)
        BY <1>2, <2>3, <3>1
      <4>2. CASE e
        <5>1. Named(NamesSeen(e, s, f), t) = NamesSeen(e, s, f)
          BY <2>7, <2>9, <3>1, <4>2, Zenon DEF Named
        <5> QED
          BY <4>1, <4>2, <5>1, Zenon DEF NamesSeen
      <4>3. CASE ~e
        <5>1. Named(NamesSeen(e, s, f), t) = Append(NamesSeen(e, s, f), "ext")
          BY <2>6, <2>7, <2>9, <3>1, <4>3, Zenon DEF Named
        <5>2. s <=> f
          BY <2>4, <4>3
        <5>3. NamesSeen(e, s, f) = IF f THEN <<"sub">> ELSE <<>>
          BY <4>3, Zenon DEF NamesSeen
        <5>4. NamesSeen(ext(i), sub(i), first(i)) = IF f THEN <<"sub", "ext">> ELSE <<"ext">>
          BY <4>1, <5>2, Zenon DEF NamesSeen
        <5> QED
          BY <2>8, <5>1, <5>3, <5>4, Zenon
      <4> QED
        BY <4>2, <4>3
    <3>2. CASE t = <<"sub">>
      <4>1. sub(i) = TRUE /\ (ext(i) <=> e) /\ (first(i) <=> f \/ ~e)
        BY <1>2, <2>3, <3>2
      <4>2. CASE s
        <5>1. Named(NamesSeen(e, s, f), t) = NamesSeen(e, s, f)
          BY <2>7, <2>9, <3>2, <4>2, Zenon DEF Named
        <5>2. first(i) <=> f
          BY <2>4, <4>1, <4>2
        <5> QED
          BY <4>1, <4>2, <5>1, <5>2, Zenon DEF NamesSeen
      <4>3. CASE ~s
        <5>1. Named(NamesSeen(e, s, f), t) = Append(NamesSeen(e, s, f), "sub")
          BY <2>6, <2>7, <2>9, <3>2, <4>3, Zenon DEF Named
        <5>2. ~f /\ (first(i) <=> ~e)
          BY <2>4, <4>1, <4>3
        <5>3. NamesSeen(e, s, f) = IF e THEN <<"ext">> ELSE <<>>
          BY <4>3, <5>2, Zenon DEF NamesSeen
        <5>4. NamesSeen(ext(i), sub(i), first(i)) = IF e THEN <<"ext", "sub">> ELSE <<"sub">>
          BY <4>1, <5>2, Zenon DEF NamesSeen
        <5> QED
          BY <2>8, <5>1, <5>3, <5>4, Zenon
      <4> QED
        BY <4>2, <4>3
    <3>3. CASE t # <<"ext">> /\ t # <<"sub">>
      <4>1. Named(NamesSeen(e, s, f), t) = NamesSeen(e, s, f)
        BY <2>6, <3>3, Zenon DEF Named
      <4>2. (ext(i) <=> e) /\ (sub(i) <=> s) /\ (first(i) <=> f)
        BY <2>3, <3>3
      <4> QED
        BY <4>1, <4>2, Zenon DEF NamesSeen
    <3> QED
      BY <3>1, <3>2, <3>3
  <2> QED
    BY <2>1, <2>10
<1>5. n \in P
  <2>1. n \in Nat
    BY <1>1
  <2> HIDE DEF P, n
  <2>2. \A i \in 0 .. n : i \in P
    BY <1>3, <1>4, <2>1, Steps
  <2> QED
    BY <2>1, <2>2
<1>6. N[n] = NamesSeen(ext(n), sub(n), first(n))
  BY <1>5
<1>7. /\ ext(n) <=> Contains(tokens, <<"ext">>)
      /\ sub(n) <=> Contains(tokens, <<"sub">>)
      /\ first(n) <=> \E i \in DOMAIN tokens :
                         tokens[i] = <<"sub">> /\ \A j \in 1 .. i : tokens[j] # <<"ext">>
  BY <1>1, Zenon DEF Contains
<1> HIDE DEF ext, sub, first
<1> QED
  BY <1>6, <1>7, Zenon DEF NamesSeen

\* One round of substitution gives every rendering every value of a placeholder.
LEMMA RenderedOnce ==
  ASSUME NEW o, OptionsOK(o), NEW rendered \in Seq(Line), NEW name \in {"ext", "sub"}
  PROVE  /\ SubstituteAll(rendered, name, _resolve_token(o, name)) \in Seq(Line)
         /\ ToSet(SubstituteAll(rendered, name, _resolve_token(o, name))) = Given(o, ToSet(rendered), name)
<1>1. name \in Token /\ _resolve_token(o, name) \in Seq(Line)
  BY ResolvedType DEF Token
<1> QED
  BY <1>1, SubstituteAllWorks DEF Given

\* A line stands for every way to give its placeholders values.
LEMMA ExpandedExactly ==
  ASSUME NEW o, OptionsOK(o), NEW line \in Line
  PROVE  /\ expand_template_line(o, line) \in Seq(Line)
         /\ ToSet(expand_template_line(o, line)) = Renderings(o, line)
<1> DEFINE tokens == FindTokens(line)
           names == TemplateNames(tokens)[Len(tokens)]
           R == Renders(o, line, names)
           e == Seen(line, "ext")
           s == Seen(line, "sub")
           f == SubFirst(line)
           Step(S, name) == Given(o, S, name)
           resolved(rendered, name) == SubstituteAll(rendered, name, _resolve_token(o, name))
<1>1. tokens \in Seq(Line)
  <2>1. Len(line) \in Nat /\ Len(line) \in 0 .. Len(line)
    BY LenProperties DEF Line
  <2> QED
    BY <2>1, SearchSteps DEF FindTokens, Searches, Line
<1>2. names = NamesSeen(e, s, f)
  <2> HIDE DEF names, tokens
  <2>1. names = NamesSeen(Contains(tokens, <<"ext">>), Contains(tokens, <<"sub">>),
                          \E i \in DOMAIN tokens :
                             tokens[i] = <<"sub">> /\ \A j \in 1 .. i : tokens[j] # <<"ext">>)
    BY <1>1, NamesInOrder, Zenon DEF names
  <2> QED
    BY <2>1, Zenon DEF Seen, SubFirst, tokens
<1>3. (f => s) /\ (s /\ ~e => f)
  <2>1. DOMAIN tokens = 1 .. Len(tokens)
    BY <1>1, LenProperties
  <2>2. f => s
    BY <2>1 DEF SubFirst, Seen, Contains
  <2>3. ASSUME s, ~e
        PROVE  f
    <3>1. PICK k \in 1 .. Len(tokens) : tokens[k] = <<"sub">>
      BY <2>3 DEF Seen, Contains
    <3>2. \A j \in 1 .. Len(tokens) : tokens[j] # <<"ext">>
      BY <2>3 DEF Seen, Contains
    <3>3. \A j \in 1 .. k : j \in 1 .. Len(tokens)
      OBVIOUS
    <3> QED
      BY <2>1, <3>1, <3>2, <3>3 DEF SubFirst
  <2> QED
    BY <2>2, <2>3
<1>4. expand_template_line(o, line) = R[Len(names)]
  BY DEF expand_template_line
<1>5. names \in NameLists
  <2>1. /\ <<"sub", "ext">> \in Seq({"ext", "sub"}) /\ <<"ext", "sub">> \in Seq({"ext", "sub"})
        /\ <<"sub">> \in Seq({"ext", "sub"}) /\ <<"ext">> \in Seq({"ext", "sub"})
        /\ <<>> \in Seq({"ext", "sub"})
    OBVIOUS
  <2> HIDE DEF names, e, s, f
  <2> QED
    BY <1>2, <2>1, Zenon DEF NamesSeen, NameLists
<1> HIDE DEF names
<1>6. /\ R[0] = <<line>>
      /\ \A i \in 1 .. Len(names) : R[i] = resolved(R[i - 1], names[i])
  BY <1>5, RendersSteps
<1> HIDE DEF R
<1>7. <<line>> \in Seq(Line) /\ ToSet(<<line>>) = {line}
  <2>1. DOMAIN <<line>> = {1} /\ <<line>>[1] = line
    OBVIOUS
  <2> QED
    BY <2>1 DEF ToSet
<1>8. \A rendered \in Seq(Line), name \in {"ext", "sub"} :
         /\ resolved(rendered, name) \in Seq(Line)
         /\ ToSet(resolved(rendered, name)) = Step(ToSet(rendered), name)
  BY RenderedOnce
<1>9. Renderings(o, line) =
        IF f THEN IF e THEN Step(IF s THEN Step({line}, "sub") ELSE {line}, "ext")
                       ELSE IF s THEN Step({line}, "sub") ELSE {line}
        ELSE IF s THEN Step(IF e THEN Step({line}, "ext") ELSE {line}, "sub")
             ELSE IF e THEN Step({line}, "ext") ELSE {line}
  BY Zenon DEF Renderings
<1> HIDE DEF e, s, f, Step, resolved, tokens
<1>10. CASE f /\ e
  <2>1. names = <<"sub", "ext">>
    BY <1>2, <1>3, <1>10, Zenon DEF NamesSeen
  <2>2. /\ Len(names) = 2 /\ names[1] = "sub" /\ names[2] = "ext"
        /\ 1 - 1 = 0 /\ 2 - 1 = 1 /\ 1 \in 1 .. 2 /\ 2 \in 1 .. 2
    BY <2>1
  <2>3. R[1] = resolved(<<line>>, "sub") /\ R[2] = resolved(R[1], "ext")
    BY <1>6, <2>2
  <2>4. R[1] \in Seq(Line) /\ ToSet(R[1]) = Step({line}, "sub")
    BY <1>7, <1>8, <2>3
  <2>5. R[2] \in Seq(Line) /\ ToSet(R[2]) = Step(Step({line}, "sub"), "ext")
    BY <1>8, <2>3, <2>4
  <2>6. Renderings(o, line) = Step(Step({line}, "sub"), "ext")
    BY <1>3, <1>9, <1>10, Zenon
  <2> QED
    BY <1>4, <2>2, <2>5, <2>6
<1>11. CASE f /\ ~e
  <2>1. names = <<"sub">>
    BY <1>2, <1>3, <1>11, Zenon DEF NamesSeen
  <2>2. Len(names) = 1 /\ names[1] = "sub" /\ 1 - 1 = 0 /\ 1 \in 1 .. 1
    BY <2>1
  <2>3. R[1] = resolved(<<line>>, "sub")
    BY <1>6, <2>2
  <2>4. R[1] \in Seq(Line) /\ ToSet(R[1]) = Step({line}, "sub")
    BY <1>7, <1>8, <2>3
  <2>5. Renderings(o, line) = Step({line}, "sub")
    BY <1>3, <1>9, <1>11, Zenon
  <2> QED
    BY <1>4, <2>2, <2>4, <2>5
<1>12. CASE ~f /\ e /\ s
  <2>1. names = <<"ext", "sub">>
    BY <1>2, <1>3, <1>12, Zenon DEF NamesSeen
  <2>2. /\ Len(names) = 2 /\ names[1] = "ext" /\ names[2] = "sub"
        /\ 1 - 1 = 0 /\ 2 - 1 = 1 /\ 1 \in 1 .. 2 /\ 2 \in 1 .. 2
    BY <2>1
  <2>3. R[1] = resolved(<<line>>, "ext") /\ R[2] = resolved(R[1], "sub")
    BY <1>6, <2>2
  <2>4. R[1] \in Seq(Line) /\ ToSet(R[1]) = Step({line}, "ext")
    BY <1>7, <1>8, <2>3
  <2>5. R[2] \in Seq(Line) /\ ToSet(R[2]) = Step(Step({line}, "ext"), "sub")
    BY <1>8, <2>3, <2>4
  <2>6. Renderings(o, line) = Step(Step({line}, "ext"), "sub")
    BY <1>3, <1>9, <1>12, Zenon
  <2> QED
    BY <1>4, <2>2, <2>5, <2>6
<1>13. CASE ~f /\ e /\ ~s
  <2>1. names = <<"ext">>
    BY <1>2, <1>3, <1>13, Zenon DEF NamesSeen
  <2>2. Len(names) = 1 /\ names[1] = "ext" /\ 1 - 1 = 0 /\ 1 \in 1 .. 1
    BY <2>1
  <2>3. R[1] = resolved(<<line>>, "ext")
    BY <1>6, <2>2
  <2>4. R[1] \in Seq(Line) /\ ToSet(R[1]) = Step({line}, "ext")
    BY <1>7, <1>8, <2>3
  <2>5. Renderings(o, line) = Step({line}, "ext")
    BY <1>3, <1>9, <1>13, Zenon
  <2> QED
    BY <1>4, <2>2, <2>4, <2>5
<1>14. CASE ~f /\ ~e
  <2>1. names = <<>> /\ ~s
    BY <1>2, <1>3, <1>14, Zenon DEF NamesSeen
  <2>2. Len(names) = 0
    BY <2>1
  <2>3. Renderings(o, line) = {line}
    BY <1>9, <1>14, <2>1, Zenon
  <2> QED
    BY <1>4, <1>6, <1>7, <2>2, <2>3
<1> QED
  BY <1>10, <1>11, <1>12, <1>13, <1>14

(***************************************************************************)
(* Each path once, up to the limit.                                        *)
(***************************************************************************)
LEMMA MembersOfAppend ==
  ASSUME NEW S, NEW s \in Seq(S), NEW x \in S
  PROVE  /\ Append(s, x) \in Seq(S) /\ Len(Append(s, x)) = Len(s) + 1 /\ Len(s) \in Nat
         /\ ToSet(Append(s, x)) = ToSet(s) \cup {x}
         /\ IsInjective(s) /\ x \notin ToSet(s) => IsInjective(Append(s, x))
<1> DEFINE r == Append(s, x)
           n == Len(s)
<1>1. /\ r \in Seq(S) /\ Len(r) = n + 1 /\ n \in Nat /\ r[n + 1] = x
      /\ \A i \in 1 .. n : r[i] = s[i]
  BY AppendProperties, LenProperties
<1>2. DOMAIN s = 1 .. n /\ DOMAIN r = 1 .. n + 1
  BY <1>1, LenProperties
<1> HIDE DEF r, n
<1>3. \A i : i \in 1 .. n + 1 <=> i \in 1 .. n \/ i = n + 1
  BY <1>1
<1>4. ToSet(r) = ToSet(s) \cup {x}
  BY <1>1, <1>2, <1>3 DEF ToSet
<1>5. ASSUME IsInjective(s), x \notin ToSet(s)
      PROVE  IsInjective(r)
  <2>1. \A i \in 1 .. n : r[i] # x
    BY <1>1, <1>2, <1>5 DEF ToSet
  <2>2. \A i, j \in 1 .. n : r[i] = r[j] => i = j
    BY <1>1, <1>2, <1>5 DEF IsInjective
  <2> QED
    BY <1>1, <1>2, <1>3, <2>1, <2>2 DEF IsInjective
<1> QED
  BY <1>1, <1>4, <1>5 DEF r, n

\* A sequence without repetition is as long as its set of members is large.
LEMMA EachOnceCount ==
  ASSUME NEW S, NEW s \in Seq(S), IsInjective(s)
  PROVE  IsFiniteSet(ToSet(s)) /\ Cardinality(ToSet(s)) = Len(s)
<1>1. /\ Len(s) \in Nat /\ DOMAIN s = 1 .. Len(s) /\ s \in [1 .. Len(s) -> S]
  BY LenProperties
<1>2. IsFiniteSet(1 .. Len(s)) /\ Cardinality(1 .. Len(s)) = Len(s)
  <2> DEFINE n == Len(s)
  <2>1. n \in Nat
    BY <1>1
  <2> HIDE DEF n
  <2>2. /\ IsFiniteSet(1 .. n)
        /\ Cardinality(1 .. n) = IF 1 > n THEN 0 ELSE n - 1 + 1
    BY <2>1, FS_Interval
  <2>3. Cardinality(1 .. n) = n
    BY <2>1, <2>2
  <2> QED
    BY <2>2, <2>3 DEF n
<1>3. s \in Bijection(1 .. Len(s), ToSet(s))
  <2> DEFINE n == Len(s)
  <2>1. ToSet(s) = {s[i] : i \in 1 .. n}
    BY <1>1 DEF ToSet
  <2>2. \A i, j \in 1 .. n : s[i] = s[j] => i = j
    BY <1>1 DEF IsInjective
  <2> HIDE DEF n
  <2>3. s \in [1 .. n -> ToSet(s)]
    BY <1>1, <2>1 DEF n
  <2>4. s \in Injection(1 .. n, ToSet(s))
    BY <2>2, <2>3 DEF Injection, IsInjective
  <2>5. s \in Surjection(1 .. n, ToSet(s))
    BY <2>1, <2>3 DEF Surjection
  <2> QED
    BY <2>4, <2>5 DEF Bijection, n
<1>4. ExistsBijection(1 .. Len(s), ToSet(s))
  BY <1>3 DEF ExistsBijection
<1> QED
  BY <1>2, <1>4, FS_Bijection

\* What a wordlist under construction is, of the paths in all.
Collected(o, wordlist, all) ==
  /\ wordlist \in Lists
  /\ IsInjective(wordlist.items)
  /\ ToSet(wordlist.items) \subseteq all
  /\ wordlist.error => Len(wordlist.items) > o.wordlist_max_size
  /\ ~wordlist.error => ToSet(wordlist.items) = all /\ Len(wordlist.items) <= o.wordlist_max_size

\* Adding a path keeps the wordlist a collection without repetition, within the limit or refused.
LEMMA CollectStep ==
  ASSUME NEW o, OptionsOK(o), NEW all, NEW wordlist, Collected(o, wordlist, all), NEW path \in Line
  PROVE  Collected(o, _add_wordlist_entry(o, wordlist, path), all \cup {path})
<1> DEFINE items == wordlist.items
           added == _add_wordlist_entry(o, wordlist, path)
<1>1. /\ wordlist \in Lists /\ items \in Seq(Line) /\ wordlist.error \in BOOLEAN
      /\ Len(items) \in Nat /\ o.wordlist_max_size \in Nat /\ o.wordlist_max_size > 0
      /\ DOMAIN items = 1 .. Len(items)
  BY LenProperties DEF Collected, Lists, OptionsOK
<1>2. added \in Lists
  BY <1>1, AddedType
<1>3. Contains(items, path) <=> path \in ToSet(items)
  BY <1>1 DEF Contains, ToSet
<1>4. CASE wordlist.error \/ Contains(items, path)
  <2>1. added = wordlist
    BY <1>4 DEF _add_wordlist_entry
  <2>2. ~wordlist.error => path \in all
    BY <1>3, <1>4 DEF Collected
  <2>3. CASE wordlist.error
    <3>1. ToSet(items) \subseteq all \cup {path}
      BY DEF Collected
    <3>2. Collected(o, wordlist, all \cup {path})
      BY <2>3, <3>1, Zenon DEF Collected
    <3> QED
      BY <2>1, <3>2
  <2>4. CASE ~wordlist.error
    <3>1. all \cup {path} = all
      BY <2>2, <2>4
    <3> QED
      BY <2>1, <3>1
  <2> QED
    BY <2>3, <2>4
<1>5. CASE ~wordlist.error /\ ~Contains(items, path)
  <2>1. added = [items |-> Append(items, path),
                 error |-> o.wordlist_max_size > 0 /\ Len(items) + 1 > o.wordlist_max_size]
    BY <1>5 DEF _add_wordlist_entry
  <2> DEFINE more == Append(items, path)
             over == o.wordlist_max_size > 0 /\ Len(items) + 1 > o.wordlist_max_size
  <2>2. added.items = more /\ (added.error <=> over)
    <3>1. over \in BOOLEAN
      OBVIOUS
    <3> HIDE DEF over, more, added
    <3>2. added = [items |-> more, error |-> over]
      BY <2>1, Zenon DEF over, more
    <3>3. added.items = more
      BY <3>2, Zenon
    <3>4. added.error = over
      BY <3>2, Zenon
    <3>5. added.error <=> over
      BY <3>1, <3>4, Zenon
    <3> QED
      BY <3>3, <3>5, Zenon
  <2>3. /\ Len(Append(items, path)) = Len(items) + 1
        /\ ToSet(Append(items, path)) = ToSet(items) \cup {path}
        /\ IsInjective(Append(items, path))
    <3>1. IsInjective(items) /\ path \notin ToSet(items)
      BY <1>3, <1>5 DEF Collected
    <3> QED
      BY <1>1, <3>1, MembersOfAppend
  <2>4. ToSet(items) = all
    BY <1>5 DEF Collected
  <2>5. ToSet(more) = all \cup {path} /\ IsInjective(more) /\ Len(more) = Len(items) + 1
    BY <2>3, <2>4
  <2>6. /\ over => Len(more) > o.wordlist_max_size
        /\ ~over => Len(more) <= o.wordlist_max_size
    BY <1>1, <2>5
  <2>7. ToSet(more) \subseteq all \cup {path}
    BY <2>5
  <2>8. Collected(o, added, all \cup {path})
    <3> HIDE DEF added, items, more, over
    <3> QED
      BY <1>2, <2>2, <2>5, <2>6, <2>7, Zenon DEF Collected
  <2> QED
    BY <2>8
<1> QED
  BY <1>4, <1>5

\* The wordlist of some paths.
LEMMA AddAllExact ==
  ASSUME NEW o, OptionsOK(o), NEW paths \in Seq(Line), NEW W, W = AddAll(o, paths)
  PROVE  /\ W \in Lists /\ IsInjective(W.items) /\ ToSet(W.items) \subseteq ToSet(paths)
         /\ ~W.error => ToSet(W.items) = ToSet(paths)
         /\ W.error <=> Cardinality(ToSet(paths)) > o.wordlist_max_size
         /\ W.error => W.items # <<>>
<1> DEFINE n == Len(paths)
           F == Wordlists(o, paths)
           upto(i) == {paths[j] : j \in 1 .. i}
           P == {i \in 0 .. n : Collected(o, F[i], upto(i))}
<1>1. /\ n \in Nat /\ F[0] = Start /\ DOMAIN paths = 1 .. n
      /\ \A i \in 1 .. n : F[i] = _add_wordlist_entry(o, F[i - 1], paths[i])
      /\ \A i \in 1 .. n : paths[i] \in Line
  BY WordlistSteps, LenProperties
<1>2. o.wordlist_max_size \in Nat
  BY DEF OptionsOK
<1> HIDE DEF n, F
<1>3. 0 \in P
  <2>1. upto(0) = {}
    OBVIOUS
  <2> HIDE DEF upto
  <2>2. Start \in Lists /\ Start.items = <<>> /\ ~Start.error
    BY DEF Start, Lists
  <2>3. ToSet(<<>>) = {} /\ IsInjective(<<>>) /\ Len(<<>>) = 0
    <3>1. DOMAIN <<>> = {} /\ Len(<<>>) = 0
      OBVIOUS
    <3> QED
      BY <3>1 DEF ToSet, IsInjective
  <2>4. Len(<<>>) <= o.wordlist_max_size
    BY <1>2, <2>3
  <2>5. Collected(o, Start, {})
    BY <2>2, <2>3, <2>4, Zenon DEF Collected
  <2>6. Collected(o, F[0], upto(0))
    BY <1>1, <2>1, <2>5, Zenon
  <2> QED
    BY <1>1, <2>6
<1>4. ASSUME NEW i \in 1 .. n, i - 1 \in P
      PROVE  i \in P
  <2>1. Collected(o, F[i - 1], upto(i - 1)) /\ i \in 0 .. n
    BY <1>4
  <2>2. upto(i) = upto(i - 1) \cup {paths[i]}
    <3>1. \A j : j \in 1 .. i <=> j \in 1 .. i - 1 \/ j = i
      BY <1>1
    <3> QED
      BY <3>1
  <2> HIDE DEF upto
  <2>3. Collected(o, _add_wordlist_entry(o, F[i - 1], paths[i]), upto(i - 1) \cup {paths[i]})
    BY <1>1, <2>1, CollectStep
  <2> QED
    BY <1>1, <2>1, <2>2, <2>3
<1>5. n \in P
  <2> HIDE DEF P
  <2>1. \A i \in 0 .. n : i \in P
    BY <1>1, <1>3, <1>4, Steps
  <2> QED
    BY <1>1, <2>1
<1>6. Collected(o, W, ToSet(paths))
  <2>1. Collected(o, F[n], upto(n))
    BY <1>5
  <2>2. upto(n) = ToSet(paths)
    BY <1>1 DEF ToSet
  <2> HIDE DEF upto
  <2> QED
    BY <2>1, <2>2 DEF AddAll, F, n
<1>7. /\ W \in Lists /\ W.items \in Seq(Line) /\ IsInjective(W.items) /\ Len(W.items) \in Nat
      /\ W.error \in BOOLEAN
  BY <1>6, LenProperties DEF Collected, Lists
<1>8. IsFiniteSet(ToSet(W.items)) /\ Cardinality(ToSet(W.items)) = Len(W.items)
  BY <1>7, EachOnceCount
<1> HIDE DEF F
<1>9. CASE ~W.error
  BY <1>2, <1>6, <1>7, <1>8, <1>9 DEF Collected
<1>10. CASE W.error
  <2>1. IsFiniteSet(ToSet(paths))
    <3>1. IsFiniteSet(1 .. n)
      BY <1>1, FS_Interval
    <3>2. paths \in Surjection(1 .. n, ToSet(paths))
      BY <1>1, LenProperties DEF Surjection, ToSet, n
    <3> QED
      BY <3>1, <3>2, FS_Surjection
  <2>2. Cardinality(ToSet(W.items)) <= Cardinality(ToSet(paths)) /\ Cardinality(ToSet(paths)) \in Nat
    BY <1>6, <2>1, FS_Subset, FS_CardinalityType DEF Collected
  <2>3. W.items # <<>>
    <3>1. Len(<<>>) = 0
      OBVIOUS
    <3> QED
      BY <1>2, <1>6, <1>10, <3>1 DEF Collected
  <2> QED
    BY <1>2, <1>6, <1>7, <1>8, <1>10, <2>2, <2>3 DEF Collected
<1> QED
  BY <1>9, <1>10

(***************************************************************************)
(* The Python generator does what the lines promise.                       *)
(***************************************************************************)
LEMMA FlattenEach ==
  ASSUME NEW S, NEW s \in Seq(S), NEW seqs \in [DOMAIN s -> Seq(Line)]
  PROVE  /\ FlattenSeq(seqs) \in Seq(Line)
         /\ ToSet(FlattenSeq(seqs)) = UNION {ToSet(seqs[i]) : i \in DOMAIN s}
<1>1. DOMAIN s = 1 .. Len(s) /\ Len(s) \in Nat
  BY LenProperties
<1>2. seqs \in Seq(Seq(Line)) /\ DOMAIN seqs = DOMAIN s
  BY <1>1, SeqDef
<1> QED
  BY <1>2, FlattenType, MembersOfFlatten

\* The lines rendered, and the entries of those that are kept.
Rendered(o, file) == FlattenSeq([i \in DOMAIN file |-> expand_template_line(o, lstrip_once(file[i], "/"))])
Stems(o, file) == UNION {Renderings(o, lstrip_once(file[i], "/")) : i \in DOMAIN file}

\* The templates are expanded to exactly the stems of the file.
LEMMA RenderedExactly ==
  ASSUME NEW o, OptionsOK(o), NEW file \in Seq(Line)
  PROVE  Rendered(o, file) \in Seq(Line) /\ ToSet(Rendered(o, file)) = Stems(o, file)
<1> DEFINE expanded == [i \in DOMAIN file |-> expand_template_line(o, lstrip_once(file[i], "/"))]
<1>1. ASSUME NEW i \in DOMAIN file
      PROVE  /\ expanded[i] \in Seq(Line)
             /\ ToSet(expanded[i]) = Renderings(o, lstrip_once(file[i], "/"))
  <2>1. file[i] \in Line
    BY LenProperties
  <2> DEFINE line == lstrip_once(file[i], "/")
  <2>2. line \in Line
    BY <2>1, Stripped
  <2> HIDE DEF line
  <2>3. /\ expand_template_line(o, line) \in Seq(Line)
        /\ ToSet(expand_template_line(o, line)) = Renderings(o, line)
    BY <2>2, ExpandedExactly
  <2> QED
    BY <2>3 DEF line
<1>2. expanded \in [DOMAIN file -> Seq(Line)]
  BY <1>1
<1> HIDE DEF expanded
<1>3. /\ FlattenSeq(expanded) \in Seq(Line)
      /\ ToSet(FlattenSeq(expanded)) = UNION {ToSet(expanded[i]) : i \in DOMAIN file}
  BY <1>2, FlattenEach
<1>4. UNION {ToSet(expanded[i]) : i \in DOMAIN file} = Stems(o, file)
  BY <1>1 DEF Stems
<1> QED
  BY <1>3, <1>4 DEF Rendered, expanded

Paths(o, rendered) ==
  FlattenSeq([i \in DOMAIN rendered |->
                IF is_valid_path(o, rendered[i]) THEN Entries(o, rendered[i]) ELSE <<>>])

Full(o, stems) == UNION {ToSet(Entries(o, s)) : s \in {s \in stems : is_valid_path(o, s)}}

\* The stems give exactly the full paths.
LEMMA PathsExactly ==
  ASSUME NEW o, OptionsOK(o), NEW rendered \in Seq(Line)
  PROVE  Paths(o, rendered) \in Seq(Line) /\ ToSet(Paths(o, rendered)) = Full(o, ToSet(rendered))
<1> DEFINE all == [i \in DOMAIN rendered |->
                     IF is_valid_path(o, rendered[i]) THEN Entries(o, rendered[i]) ELSE <<>>]
<1>1. \A i \in DOMAIN rendered : rendered[i] \in Line /\ Entries(o, rendered[i]) \in Seq(Line)
  <2>1. \A i \in DOMAIN rendered : rendered[i] \in Line
    BY LenProperties
  <2> QED
    BY <2>1, EntriesType
<1>2. <<>> \in Seq(Line) /\ ToSet(<<>>) = {}
  <2>1. <<>> \in Seq(Line) /\ DOMAIN <<>> = {}
    OBVIOUS
  <2> QED
    BY <2>1 DEF ToSet
<1>3. all \in [DOMAIN rendered -> Seq(Line)]
  BY <1>1, <1>2
<1>4. \A i \in DOMAIN rendered :
         ToSet(all[i]) = IF is_valid_path(o, rendered[i]) THEN ToSet(Entries(o, rendered[i])) ELSE {}
  BY <1>2
<1> HIDE DEF all
<1>5. /\ FlattenSeq(all) \in Seq(Line)
      /\ ToSet(FlattenSeq(all)) = UNION {ToSet(all[i]) : i \in DOMAIN rendered}
  BY <1>3, FlattenEach
<1>6. ASSUME NEW x
      PROVE  x \in UNION {ToSet(all[i]) : i \in DOMAIN rendered} <=> x \in Full(o, ToSet(rendered))
  <2>1. x \in UNION {ToSet(all[i]) : i \in DOMAIN rendered}
          <=> \E i \in DOMAIN rendered : /\ is_valid_path(o, rendered[i])
                                         /\ x \in ToSet(Entries(o, rendered[i]))
    BY <1>4
  <2>2. x \in Full(o, ToSet(rendered))
          <=> \E s \in ToSet(rendered) : is_valid_path(o, s) /\ x \in ToSet(Entries(o, s))
    BY DEF Full
  <2>3. ToSet(rendered) = {rendered[i] : i \in DOMAIN rendered}
    BY DEF ToSet
  <2> QED
    BY <2>1, <2>2, <2>3
<1>7. ToSet(FlattenSeq(all)) = Full(o, ToSet(rendered))
  <2> DEFINE found == UNION {ToSet(all[i]) : i \in DOMAIN rendered}
  <2>1. \A x : x \in found <=> x \in Full(o, ToSet(rendered))
    BY <1>6
  <2> HIDE DEF found
  <2>2. found = Full(o, ToSet(rendered))
    BY <2>1
  <2> QED
    BY <1>5, <2>2 DEF found
<1> QED
  BY <1>5, <1>7 DEF Paths, all

\* The sequence of one element.
LEMMA OneElement ==
  ASSUME NEW S, NEW x \in S
  PROVE  <<x>> \in Seq(S)
OBVIOUS

\* A path with prefixes and suffixes is a sequence of lines.
LEMMA AlteredType ==
  ASSUME NEW o, OptionsOK(o), NEW path \in Line
  PROVE  Altered(o, path) \in Seq(Line)
<1> DEFINE prefixed(p) == IF path[1] \in {"/", p} THEN <<>> ELSE <<<<p>> \o path>>
           suffixed(s) == IF Ends(path, "/") \/ Has(path, "?") \/ Has(path, "#") \/ Ends(path, s)
                          THEN <<>> ELSE <<path \o <<s>>>>
           before == [i \in DOMAIN o.prefixes |-> prefixed(o.prefixes[i])]
           after == [i \in DOMAIN o.suffixes |-> suffixed(o.suffixes[i])]
<1>1. <<>> \in Seq(Line)
  OBVIOUS
<1>2. ASSUME NEW t \in STRING
      PROVE  <<t>> \in Line
  <2>1. t \in Token
    BY DEF Token
  <2> QED
    BY <2>1, OneElement DEF Line
<1>3. \A s, t \in Line : s \o t \in Line /\ <<s \o t>> \in Seq(Line)
  <2>1. \A s, t \in Line : s \o t \in Line
    BY ConcatProperties DEF Line
  <2> HIDE DEF Line
  <2> QED
    BY <2>1
<1>4. /\ \A i \in DOMAIN o.prefixes : o.prefixes[i] \in STRING
      /\ \A i \in DOMAIN o.suffixes : o.suffixes[i] \in STRING
  BY LenProperties DEF OptionsOK
<1>5. \A t \in STRING : prefixed(t) \in Seq(Line) /\ suffixed(t) \in Seq(Line)
  BY <1>1, <1>2, <1>3
<1> HIDE DEF prefixed, suffixed
<1>6. before \in [DOMAIN o.prefixes -> Seq(Line)] /\ after \in [DOMAIN o.suffixes -> Seq(Line)]
  BY <1>4, <1>5
<1>7. o.prefixes \in Seq(STRING) /\ o.suffixes \in Seq(STRING)
  BY DEF OptionsOK
<1> HIDE DEF before, after
<1>8. FlattenSeq(before) \in Seq(Line) /\ FlattenSeq(after) \in Seq(Line)
  BY <1>6, <1>7, FlattenEach
<1>9. FlattenSeq(before) \o FlattenSeq(after) \in Seq(Line)
  BY <1>8, ConcatProperties
<1> QED
  BY <1>9 DEF Altered, before, after, prefixed, suffixed

\* What the prefixes and suffixes make of some paths.
AlteredPaths(o, paths) == UNION {ToSet(Altered(o, p)) : p \in paths}

AlteredTo(o, W, A, V) ==
  /\ V \in Lists /\ IsInjective(V.items)
  /\ V.error <=> Cardinality(A) > o.wordlist_max_size
  /\ ~V.error => ToSet(V.items) = IF A = {} THEN ToSet(W.items) ELSE A

\* Prefixes and suffixes give exactly the altered paths, or the limit is passed.
LEMMA AlterExact ==
  ASSUME NEW o, OptionsOK(o), NEW W \in Lists, ~W.error, IsInjective(W.items),
         NEW A, A = AlteredPaths(o, ToSet(W.items)), NEW V, V = alter(o, W)
  PROVE  AlteredTo(o, W, A, V)
<1> DEFINE all == [i \in DOMAIN W.items |-> Altered(o, W.items[i])]
           X == AddAll(o, FlattenSeq(all))
<1>1. W.items \in Seq(Line) /\ \A i \in DOMAIN W.items : W.items[i] \in Line
  BY LenProperties DEF Lists
<1>2. all \in [DOMAIN W.items -> Seq(Line)]
  BY <1>1, AlteredType
<1>3. UNION {ToSet(all[i]) : i \in DOMAIN W.items} = A
  <2> DEFINE found == UNION {ToSet(all[i]) : i \in DOMAIN W.items}
  <2>1. ASSUME NEW x
        PROVE  x \in found <=> x \in A
    <3>1. x \in found <=> \E i \in DOMAIN W.items : x \in ToSet(Altered(o, W.items[i]))
      BY DEF all
    <3>2. x \in A <=> \E p \in ToSet(W.items) : x \in ToSet(Altered(o, p))
      BY DEF AlteredPaths
    <3>3. ToSet(W.items) = {W.items[i] : i \in DOMAIN W.items}
      BY DEF ToSet
    <3> HIDE DEF found
    <3> QED
      BY <3>1, <3>2, <3>3
  <2> HIDE DEF found
  <2>2. found = A
    BY <2>1
  <2> QED
    BY <2>2 DEF found
<1>4. V = IF X.items = <<>> THEN W ELSE X
  BY DEF alter
<1> HIDE DEF all
<1>5. FlattenSeq(all) \in Seq(Line) /\ ToSet(FlattenSeq(all)) = A
  BY <1>1, <1>2, <1>3, FlattenEach
<1>6. /\ X \in Lists /\ IsInjective(X.items) /\ ToSet(X.items) \subseteq A
      /\ ~X.error => ToSet(X.items) = A
      /\ X.error <=> Cardinality(A) > o.wordlist_max_size
      /\ X.error => X.items # <<>>
  BY <1>5, AddAllExact
<1> HIDE DEF X
<1>7. CASE X.items = <<>>
  <2>1. ToSet(X.items) = {}
    <3>1. DOMAIN <<>> = {}
      OBVIOUS
    <3> QED
      BY <1>7, <3>1 DEF ToSet
  <2>2. A = {} /\ ~X.error
    BY <1>6, <1>7, <2>1
  <2>3. V = W
    BY <1>4, <1>7
  <2> QED
    BY <1>6, <2>2, <2>3 DEF AlteredTo
<1>8. CASE X.items # <<>>
  <2>1. X.items \in Seq(Line)
    BY <1>6 DEF Lists
  <2>2. 1 \in DOMAIN X.items
    <3>1. Len(X.items) \in Nat \ {0} /\ DOMAIN X.items = 1 .. Len(X.items)
      BY <1>8, <2>1, EmptySeq, LenProperties
    <3> QED
      BY <3>1
  <2>3. A # {}
    BY <1>6, <2>2 DEF ToSet
  <2>4. V = X
    BY <1>4, <1>8
  <2> QED
    BY <1>6, <2>3, <2>4 DEF AlteredTo
<1> QED
  BY <1>7, <1>8

\* Changing the letters' case maps the paths, and keeps them apart when it changes none.
LEMMA CasedWorks ==
  ASSUME NEW o, NEW items \in Seq(Line), NEW cased, cased = [i \in DOMAIN items |-> Cased(o, items[i])]
  PROVE  /\ ToSet(cased) = {Cased(o, p) : p \in ToSet(items)}
         /\ o.letters = "keep" /\ IsInjective(items) => IsInjective(cased)
<1>1. ToSet(cased) = {Cased(o, p) : p \in ToSet(items)}
  BY DEF ToSet
<1>2. ASSUME o.letters = "keep", NEW p \in Line
      PROVE  Cased(o, p) = p
  <2>1. DOMAIN p = 1 .. Len(p) /\ p \in [1 .. Len(p) -> Token]
    BY LenProperties DEF Line
  <2>2. p = [i \in DOMAIN p |-> p[i]]
    BY <2>1
  <2>3. "keep" # "lowercase" /\ "keep" # "uppercase" /\ "keep" # "capitalization"
    OBVIOUS
  <2>4. Cased(o, p) = [i \in DOMAIN p |-> p[i]]
    BY <1>2, <2>3 DEF Cased
  <2> QED
    BY <2>2, <2>4
<1>3. ASSUME o.letters = "keep", IsInjective(items)
      PROVE  IsInjective(cased)
  <2>1. \A i \in DOMAIN items : items[i] \in Line
    BY LenProperties
  <2>2. DOMAIN cased = DOMAIN items /\ \A i \in DOMAIN items : cased[i] = items[i]
    BY <1>2, <1>3, <2>1
  <2> QED
    BY <1>3, <2>2 DEF IsInjective
<1> QED
  BY <1>1, <1>3

\* The fields of a generator's result.
LEMMA Fields ==
  ASSUME NEW r, NEW e, NEW s, r = [error |-> e, items |-> s]
  PROVE  r.error = e /\ r.items = s
BY Zenon

\* The Python generator makes what the reference definition promises.
LEMMA PromiseKept ==
  ASSUME NEW o, OptionsOK(o), NEW file \in Seq(Line), NEW made, made = python_generate(o, file)
  PROVE  /\ made.error = Promised(o, file).error
         /\ ~made.error => /\ ToSet(made.items) = Promised(o, file).paths
                           /\ o.letters = "keep" => IsInjective(made.items)
<1> DEFINE W == AddAll(o, Paths(o, Rendered(o, file)))
           final == IF o.is_blacklist THEN W ELSE alter(o, W)
           full == Full(o, Stems(o, file))
           altered == IF o.is_blacklist THEN {} ELSE AlteredPaths(o, full)
           over == Cardinality(full) > o.wordlist_max_size \/ Cardinality(altered) > o.wordlist_max_size
           cased == [i \in DOMAIN final.items |-> Cased(o, final.items[i])]
           promised == {Cased(o, p) : p \in IF altered = {} THEN full ELSE altered}
<1>1. made = IF final.error THEN [error |-> TRUE, items |-> <<>>] ELSE [error |-> FALSE, items |-> cased]
  BY DEF python_generate, Paths, Rendered
<1>2. Promised(o, file).error = over /\ Promised(o, file).paths = promised
  BY Zenon DEF Promised, Full, Stems, AlteredPaths
<1>3. Rendered(o, file) \in Seq(Line) /\ ToSet(Rendered(o, file)) = Stems(o, file)
  BY RenderedExactly
<1>4. Paths(o, Rendered(o, file)) \in Seq(Line) /\ ToSet(Paths(o, Rendered(o, file))) = full
  BY <1>3, PathsExactly
<1>5. /\ W \in Lists /\ IsInjective(W.items)
      /\ ~W.error => ToSet(W.items) = full
      /\ W.error <=> Cardinality(full) > o.wordlist_max_size
  BY <1>4, AddAllExact
<1> HIDE DEF W, full
<1>6. final \in Lists /\ (final.error <=> over)
      /\ (~final.error => /\ IsInjective(final.items)
                          /\ ToSet(final.items) = IF altered = {} THEN full ELSE altered)
  <2>1. o.wordlist_max_size \in Nat /\ Cardinality({}) = 0
    BY FS_EmptySet DEF OptionsOK
  <2>2. CASE W.error
    <3>1. alter(o, W) = W
      BY <2>2 DEF alter
    <3>2. final = W
      BY <3>1
    <3> QED
      BY <1>5, <2>2, <3>2
  <2>3. CASE ~W.error /\ o.is_blacklist
    <3>1. final = W /\ altered = {}
      BY <2>3
    <3>2. ~over
      BY <1>5, <2>1, <2>3, <3>1
    <3> HIDE DEF over, altered, final
    <3> QED
      BY <1>5, <2>3, <3>1, <3>2
  <2>4. CASE ~W.error /\ ~o.is_blacklist
    <3>1. final = alter(o, W) /\ altered = AlteredPaths(o, ToSet(W.items))
      BY <1>5, <2>4
    <3>2. over <=> Cardinality(altered) > o.wordlist_max_size
      BY <1>5, <2>4
    <3> HIDE DEF over, altered, final
    <3>3. AlteredTo(o, W, altered, final)
      BY <1>5, <2>4, <3>1, AlterExact
    <3> QED
      BY <1>5, <2>4, <3>2, <3>3 DEF AlteredTo
  <2> QED
    BY <2>2, <2>3, <2>4
<1>7. over \in BOOLEAN
  OBVIOUS
<1>8. final.items \in Seq(Line)
  BY <1>6 DEF Lists
<1> HIDE DEF final, over, altered
<1>9. /\ ToSet(cased) = {Cased(o, p) : p \in ToSet(final.items)}
      /\ o.letters = "keep" /\ IsInjective(final.items) => IsInjective(cased)
  BY <1>8, CasedWorks
<1>10. ~final.error => ToSet(cased) = promised
  <2>1. ASSUME ~final.error
        PROVE  ToSet(cased) = promised
    <3>1. ToSet(final.items) = IF altered = {} THEN full ELSE altered
      BY <1>6, <2>1
    <3> HIDE DEF cased
    <3> QED
      BY <1>9, <3>1, Zenon
  <2> QED
    BY <2>1
<1> HIDE DEF cased, promised
<1>11. CASE final.error
  <2>1. made.error = TRUE
    <3>1. made = [error |-> TRUE, items |-> <<>>]
      BY <1>1, <1>11, Zenon
    <3> QED
      BY <3>1, Fields, Zenon
  <2>2. over = TRUE
    BY <1>6, <1>7, <1>11, Zenon
  <2> QED
    BY <1>2, <2>1, <2>2, Zenon
<1>12. CASE ~final.error
  <2>1. made.error = FALSE /\ made.items = cased
    <3>1. made = [error |-> FALSE, items |-> cased]
      BY <1>1, <1>12, Zenon
    <3> QED
      BY <3>1, Fields, Zenon
  <2>2. over = FALSE
    BY <1>6, <1>7, <1>12, Zenon
  <2> QED
    BY <1>2, <1>6, <1>9, <1>10, <1>12, <2>1, <2>2, Zenon
<1> QED
  BY <1>11, <1>12

\* The Python generator makes exactly what the lines promise, each path once,
\* and fails exactly when the limit is exceeded, for every configuration, every
\* file and every list of subjects.
THEOREM GeneratesExactlyHolds == GenerationSpec => []GeneratesExactly
<1>1. GeneratedFromLines => GeneratesExactly
  <2> SUFFICES ASSUME GeneratedFromLines, generated["python"] # NotYet
               PROVE  GeneratesExactly
    BY DEF GeneratesExactly
  <2>1. OptionsOK(options) /\ lines \in Seq(Line)
    BY ConfigurationsOK
  <2>2. generated["python"] = python_generate(options, get_lines(lines)) /\ get_lines(lines) \in Seq(Line)
    BY <2>1, LinesOfLines DEF GeneratedFromLines
  <2> QED
    BY <2>1, <2>2, PromiseKept, Zenon DEF GeneratesExactly
<1> QED
  BY <1>1, InitGenerated, NextGenerated, PTL DEF GenerationSpec

=============================================================================
