--------------------------- MODULE AsyncScanProofs ---------------------------
(***************************************************************************)
(* The promises of the Dictionary, for every wordlist, number of workers,  *)
(* chunk size and sequence of saves and resumes; then the coroutines of    *)
(* AsyncFuzzer: they use the dictionary as DictionaryClaims allows, and no *)
(* report save outlives the directory it belongs to, for every number of   *)
(* tasks, every wordlist and every number of signals.                      *)
(***************************************************************************)
EXTENDS AsyncScan, DictionaryLemmas

-----------------------------------------------------------------------------
(* The dictionary, whoever uses it as DictionaryClaims allows              *)

\* Idle workers hold none of the claims.
LEMMA IdleHeldAreClaimed ==
  ASSUME held' = Idle, claimed' \in Seq(Paths)
  PROVE  HeldAreClaimed'
<1>1. \A p \in Paths : {w \in Workers : held'[w] = p} = {}
  BY ClaimsAssumption DEF Idle
<1>2. \A p \in Paths : Occurrences(claimed', p) \in Nat
  BY OccurrencesType
<1>3. \A p \in Paths : Cardinality({w \in Workers : held'[w] = p}) = 0
  BY <1>1, FS_EmptySet
<1>4. \A p \in Paths :
        Cardinality({w \in Workers : held'[w] = p}) <= Occurrences(claimed', p)
  BY <1>2, <1>3
<1> QED
  BY <1>4 DEF HeldAreClaimed

\* The initial queue owes the wordlist once.
LEMMA InitIInv == Init => IInv
<1> SUFFICES ASSUME Init PROVE IInv
  OBVIOUS
<1>1. Wordlist \in Seq(Paths) /\ Len(Wordlist) \in Nat /\ \A p : Occurrences(Wordlist, p) \in Nat
  BY DictionaryAssumption, LenProperties, OccurrencesType
<1>2. TypeOK
  BY <1>1, DictionaryAssumption
     DEF Init, DictInit, TypeOK, DictTypeOK, Idle, None, NoSession, NativeClaims, NoClaim,
         DictStates
<1>3. RangeInFlight /\ OneBackend /\ SavedConservation
  BY DEF Init, DictInit, RangeInFlight, OneBackend, SavedConservation, NoSession
<1>4. HeldAreClaimed
  <2>1. \A p \in Paths : {w \in Workers : held[w] = p} = {}
    BY ClaimsAssumption DEF Init, Idle
  <2>2. \A p \in Paths : Occurrences(claimed, p) = 0
    BY OccurrencesEmpty DEF Init, DictInit
  <2> QED
    BY <2>1, <2>2, FS_EmptySet DEF HeldAreClaimed
<1>5. Conservation
  <2>1. /\ PendingItems = Wordlist /\ PendingExtra = <<>> /\ NativeOutstanding = <<>>
        /\ claimed = <<>>
    <3>1. index = 0 /\ extra = <<>> /\ extraIndex = 0 /\ nativeClaim = NoClaim /\ claimed = <<>>
      BY DEF Init, DictInit
    <3>2. SubSeq(Wordlist, 0 + 1, Len(Wordlist)) = Wordlist
      BY <1>1, SubSeqFull
    <3> QED
      BY <3>1, <3>2, SubSeqEmpty DEF PendingItems, PendingExtra, NativeOutstanding, NoClaim
  <2>2. \A p \in Paths : Outstanding(p) = Occurrences(Wordlist, p)
    BY <1>1, <2>1, OccurrencesEmpty DEF Outstanding
  <2> QED
    BY <1>1, <2>2 DEF Conservation, Init, None
<1> QED
  BY <1>2, <1>3, <1>4, <1>5 DEF IInv

\* A claim moves a path from the queue to the worker that now holds it.
LEMMA ClaimIInv ==
  ASSUME IInv, NEW w \in Workers, Claim(w)
  PROVE  IInv'
<1>1. /\ DictTypeOK /\ ~NativeRequests /\ nativeClaim = NoClaim /\ batch = <<>>
      /\ held \in [Workers -> Paths \cup {NoPath}] /\ held[w] = NoPath
      /\ claim_next
      /\ held' = [held EXCEPT ![w] = NextPath]
      /\ UNCHANGED <<batch, settled, accepted, saved>>
  BY DEF IInv, TypeOK, OneBackend, Claim
<1>2. DictTypeOK' /\ NextPath \in Paths /\ \A p : Outstanding(p)' = Outstanding(p)
  BY <1>1, ClaimNextOutstanding
<1>3. TypeOK'
  BY <1>1, <1>2 DEF IInv, TypeOK
<1>4. nativeClaim' = NoClaim
  BY <1>1 DEF claim_next
<1>5. RangeInFlight' /\ OneBackend'
  BY <1>1, <1>4 DEF RangeInFlight, OneBackend
<1>6. Conservation' /\ SavedConservation'
  BY <1>1, <1>2 DEF IInv, Conservation, SavedConservation
<1>7. HeldAreClaimed'
  <2>1. SUFFICES ASSUME NEW p \in Paths
                 PROVE  Cardinality({v \in Workers : held'[v] = p}) <= Occurrences(claimed', p)
    BY DEF HeldAreClaimed
  <2> DEFINE H == {v \in Workers : held[v] = p}
             K == {v \in Workers : held'[v] = p}
  <2>2. IsFiniteSet(H) /\ Cardinality(H) \in Nat /\ Cardinality(H) <= Occurrences(claimed, p)
    BY ClaimsAssumption, FS_Subset, FS_CardinalityType DEF IInv, HeldAreClaimed
  <2>3. claimed \in Seq(Paths) /\ claimed' = Append(claimed, NextPath)
    BY <1>1 DEF DictTypeOK, claim_next
  <2>4. Occurrences(claimed', p) = Occurrences(claimed, p) + (IF NextPath = p THEN 1 ELSE 0)
    BY <1>2, <2>3, OccurrencesAppend
  <2>5. w \notin H
    BY <1>1, ClaimsAssumption
  <2>6. K = IF NextPath = p THEN H \cup {w} ELSE H
    BY <1>1, <2>5
  <2>7. Occurrences(claimed, p) \in Nat
    BY <2>3, OccurrencesType
  <2> HIDE DEF H, K
  <2>8. ASSUME NextPath = p PROVE Cardinality(K) <= Occurrences(claimed', p)
    <3>1. Cardinality(K) = Cardinality(H) + 1
      BY <2>2, <2>5, <2>6, <2>8, FS_AddElement
    <3> QED
      BY <2>2, <2>4, <2>7, <2>8, <3>1
  <2>9. ASSUME NextPath # p PROVE Cardinality(K) <= Occurrences(claimed', p)
    BY <2>2, <2>4, <2>6, <2>7, <2>9
  <2> QED
    BY <2>8, <2>9 DEF K
<1> QED
  BY <1>3, <1>5, <1>6, <1>7 DEF IInv

\* A release settles the path its worker held.
LEMMA ReleaseIInv ==
  ASSUME IInv, NEW w \in Workers, Release(w)
  PROVE  IInv'
<1> DEFINE q == held[w]
<1>1. /\ DictTypeOK /\ RangeInFlight
      /\ held \in [Workers -> Paths \cup {NoPath}] /\ q # NoPath
      /\ release_claim(q)
      /\ held' = [held EXCEPT ![w] = NoPath]
      /\ settled \in [Paths -> Nat]
      /\ settled' = [settled EXCEPT ![q] = @ + 1]
      /\ UNCHANGED <<batch, accepted, saved>>
  BY DEF IInv, TypeOK, Release
<1>2. q \in Paths
  BY <1>1
<1>3. ~NativeRequests /\ batch = <<>> /\ nativeClaim = NoClaim
  BY <1>1 DEF IInv, OneBackend, Idle
<1>4. /\ DictTypeOK' /\ RangeInFlight'
      /\ \A p : /\ Occurrences(claimed, p)
                     = Occurrences(claimed', p) + (IF q = p THEN 1 ELSE 0)
                /\ Outstanding(p) = Outstanding(p)' + (IF q = p THEN 1 ELSE 0)
  <2> HIDE DEF q
  <2> QED
    BY <1>1, ReleaseClaimOutstanding
<1>5. TypeOK'
  BY <1>1, <1>2, <1>4 DEF IInv, TypeOK
<1>6. OneBackend'
  <2>1. nativeClaim' = nativeClaim
    BY <1>1 DEF release_claim
  <2> QED
    BY <1>1, <1>3, <2>1 DEF OneBackend
<1>7. \A p : Outstanding(p)' \in Nat /\ Occurrences(claimed', p) \in Nat
  <2>1. claimed' \in Seq(Paths)
    BY <1>4 DEF DictTypeOK
  <2>2. \A p : Occurrences(claimed', p) \in Nat
    BY <2>1, OccurrencesType
  <2>3. \A p : /\ Occurrences(NativeOutstanding, p) \in Nat
               /\ Occurrences(PendingExtra, p) \in Nat
               /\ Occurrences(PendingItems, p) \in Nat
    BY <1>1, QueueParts
  <2>4. /\ NativeOutstanding' = NativeOutstanding
        /\ PendingExtra' = PendingExtra /\ PendingItems' = PendingItems
    BY <1>1 DEF release_claim, NativeOutstanding, PendingExtra, PendingItems
  <2> QED
    BY <2>2, <2>3, <2>4 DEF Outstanding
<1>8. Conservation'
  <2>1. SUFFICES ASSUME NEW p \in Paths
                 PROVE  Occurrences(Wordlist, p) + accepted[p] = settled'[p] + Outstanding(p)'
    BY <1>1 DEF Conservation
  <2>2. Occurrences(Wordlist, p) + accepted[p] = settled[p] + Outstanding(p)
    BY DEF IInv, Conservation
  <2>3. settled'[p] = settled[p] + (IF q = p THEN 1 ELSE 0) /\ settled[p] \in Nat
    BY <1>1, <1>2
  <2>4. Outstanding(p) = Outstanding(p)' + (IF q = p THEN 1 ELSE 0) /\ Outstanding(p)' \in Nat
    BY <1>4, <1>7
  <2> HIDE DEF q
  <2> QED
    BY <2>2, <2>3, <2>4
<1>9. SavedConservation'
  BY <1>1 DEF IInv, SavedConservation
<1>10. HeldAreClaimed'
  <2>1. SUFFICES ASSUME NEW p \in Paths
                 PROVE  Cardinality({v \in Workers : held'[v] = p}) <= Occurrences(claimed', p)
    BY DEF HeldAreClaimed
  <2> DEFINE H == {v \in Workers : held[v] = p}
             K == {v \in Workers : held'[v] = p}
  <2>2. IsFiniteSet(H) /\ Cardinality(H) \in Nat /\ Cardinality(H) <= Occurrences(claimed, p)
    BY ClaimsAssumption, FS_Subset, FS_CardinalityType DEF IInv, HeldAreClaimed
  <2>3. K = H \ {w} /\ (w \in H <=> q = p)
    BY <1>1, ClaimsAssumption
  <2>4. Occurrences(claimed, p) = Occurrences(claimed', p) + (IF q = p THEN 1 ELSE 0)
    BY <1>4
  <2>5. Occurrences(claimed', p) \in Nat
    BY <1>7
  <2> HIDE DEF H, K, q
  <2>6. Cardinality(K) = IF q = p THEN Cardinality(H) - 1 ELSE Cardinality(H)
    BY <2>2, <2>3, FS_RemoveElement
  <2>7. Cardinality(K) <= Occurrences(claimed', p)
    BY <2>2, <2>4, <2>5, <2>6
  <2> QED
    BY <2>7 DEF K
<1> QED
  BY <1>4, <1>5, <1>6, <1>8, <1>9, <1>10 DEF IInv


\* A batch moves paths from the queue to the native engine.
LEMMA ClaimBatchIInv ==
  ASSUME IInv, ClaimBatch
  PROVE  IInv'
<1>1. /\ DictTypeOK /\ RangeInFlight /\ NativeRequests /\ held = Idle /\ batch = claimed
      /\ claimed = <<>> /\ ~NativeClaimActive
      /\ claim_native_many(ChunkSize) /\ ChunkSize \in Nat
      /\ batch' = SubSeq(claimed', Len(claimed) + 1, Len(claimed'))
      /\ UNCHANGED <<held, settled, accepted, saved>>
  BY ClaimsAssumption DEF IInv, TypeOK, OneBackend, ClaimBatch, BatchDone
<1>2. nativeClaim = NoClaim
  BY <1>1 DEF RangeInFlight, NativeClaimActive, DictTypeOK, NativeClaims
<1>3. /\ DictTypeOK' /\ RangeInFlight'
      /\ \E more \in Seq(Paths) : claimed' = claimed \o more
      /\ \A p : Outstanding(p)' = Outstanding(p)
  BY <1>1, <1>2, ClaimNativeOutstanding
<1>4. batch' = claimed' /\ batch' \in Seq(Paths)
  <2>1. PICK more \in Seq(Paths) : claimed' = claimed \o more
    BY <1>3
  <2>2. claimed \in Seq(Paths)
    BY <1>1 DEF DictTypeOK
  <2>3. SubSeq(claimed \o more, Len(claimed) + 1, Len(claimed \o more)) = more
    BY <2>2, SuffixOfConcat
  <2>4. <<>> \o more = more
    OBVIOUS
  <2> QED
    BY <1>1, <2>1, <2>3, <2>4
<1>5. TypeOK'
  BY <1>1, <1>3, <1>4 DEF IInv, TypeOK
<1>6. OneBackend'
  BY <1>1, <1>4 DEF OneBackend
<1>7. Conservation' /\ SavedConservation'
  BY <1>1, <1>3 DEF IInv, Conservation, SavedConservation
<1>8. HeldAreClaimed'
  <2>1. held' = Idle /\ claimed' \in Seq(Paths)
    BY <1>1, <1>3 DEF DictTypeOK
  <2> QED
    BY <2>1, IdleHeldAreClaimed
<1> QED
  BY <1>3, <1>5, <1>6, <1>7, <1>8 DEF IInv

\* Releasing the front of a list batch settles exactly its paths.
LEMMA ReleaseBatchIInv ==
  ASSUME IInv, NEW count \in 1 .. ChunkSize, ReleaseBatch(count)
  PROVE  IInv'
<1> DEFINE front == SubSeq(batch, 1, count)
<1>1. /\ DictTypeOK /\ RangeInFlight /\ batch \in Seq(Paths)
      /\ count \in 1 .. Len(batch)
      /\ release_claims(front)
      /\ batch' = SubSeq(batch, count + 1, Len(batch))
      /\ settled \in [Paths -> Nat]
      /\ settled' = [p \in Paths |-> settled[p] + Occurrences(front, p)]
      /\ UNCHANGED <<held, accepted, saved>>
  BY DEF IInv, TypeOK, ReleaseBatch
<1>2. NativeRequests /\ held = Idle /\ batch = claimed
  <2>1. batch # <<>>
    BY <1>1
  <2> QED
    BY <2>1 DEF IInv, OneBackend
<1>3. /\ DictTypeOK' /\ RangeInFlight'
      /\ claimed' = SubSeq(claimed, count + 1, Len(claimed))
      /\ \A p : Outstanding(p) = Outstanding(p)' + Occurrences(front, p)
  BY <1>1, <1>2, ReleasePrefixOutstanding
<1>4. batch' = claimed' /\ batch' \in Seq(Paths)
  BY <1>1, <1>2, <1>3 DEF DictTypeOK
<1>5. \A p : Outstanding(p) \in Nat /\ Occurrences(front, p) \in Nat
  <2>1. Len(batch) \in Nat /\ \A i \in 1 .. Len(batch) : batch[i] \in Paths
    BY <1>1, LenProperties, ElementOfSeq
  <2>2. front \in Seq(Paths)
    BY <1>1, <2>1, SubSeqProperties
  <2> HIDE DEF front
  <2> QED
    BY <1>1, <2>2, OccurrencesType, QueueParts
<1>6. TypeOK'
  <2>1. settled' \in [Paths -> Nat]
    <3> HIDE DEF front
    <3>1. \A p \in Paths : settled[p] + Occurrences(front, p) \in Nat
      <4> SUFFICES ASSUME NEW p \in Paths PROVE settled[p] + Occurrences(front, p) \in Nat
        OBVIOUS
      <4>1. settled[p] \in Nat /\ Occurrences(front, p) \in Nat
        BY <1>1, <1>5
      <4> QED
        BY <4>1
    <3> QED
      BY <1>1, <3>1
  <2> QED
    BY <1>1, <1>3, <1>4, <2>1 DEF IInv, TypeOK
<1>7. OneBackend'
  BY <1>1, <1>2, <1>4 DEF OneBackend
<1>8. Conservation'
  <2>1. \A p : Outstanding(p)' \in Nat
    BY <1>3, QueuePartsNext
  <2> HIDE DEF front
  <2>2. SUFFICES ASSUME NEW p \in Paths
                 PROVE  Occurrences(Wordlist, p) + accepted[p] = settled'[p] + Outstanding(p)'
    BY <1>1 DEF Conservation
  <2>3. Occurrences(Wordlist, p) + accepted[p] = settled[p] + Outstanding(p)
    BY DEF IInv, Conservation
  <2>4. settled'[p] = settled[p] + Occurrences(front, p) /\ settled[p] \in Nat
    BY <1>1
  <2>5. Outstanding(p) = Outstanding(p)' + Occurrences(front, p)
    BY <1>3
  <2>6. Outstanding(p)' \in Nat /\ Occurrences(front, p) \in Nat
    BY <1>5, <2>1
  <2> QED
    BY <2>3, <2>4, <2>5, <2>6
<1>9. SavedConservation'
  BY <1>1 DEF IInv, SavedConservation
<1>10. HeldAreClaimed'
  <2>1. held' = Idle /\ claimed' \in Seq(Paths)
    BY <1>1, <1>2, <1>3 DEF DictTypeOK
  <2> QED
    BY <2>1, IdleHeldAreClaimed
<1> QED
  BY <1>3, <1>6, <1>7, <1>8, <1>9, <1>10 DEF IInv

\* Releasing the front of a Rust-owned range settles exactly its paths.
LEMMA ReleaseRangeIInv ==
  ASSUME IInv, NEW count \in 1 .. ChunkSize, ReleaseRange(count)
  PROVE  IInv'
<1> DEFINE front == SubSeq(NativeOutstanding, 1, count)
<1>1. /\ DictTypeOK /\ RangeInFlight /\ count \in Nat
      /\ release_native_claims(count)
      /\ settled \in [Paths -> Nat]
      /\ settled' = [p \in Paths |-> settled[p] + Occurrences(front, p)]
      /\ UNCHANGED <<held, batch, accepted, saved>>
  BY ClaimsAssumption DEF IInv, TypeOK, ReleaseRange
<1>2. /\ NativeRequests /\ held = Idle /\ batch = claimed
      /\ count > 0 /\ claimed' = claimed
      /\ nativeClaim.released + count <= nativeClaim.size
  <2>1. nativeClaim # NoClaim
    BY <1>1 DEF release_native_claims, NativeClaimActive, NoClaim
  <2> QED
    BY <1>1, <2>1 DEF IInv, OneBackend, release_native_claims
<1>3. /\ DictTypeOK' /\ RangeInFlight'
      /\ \A p : Outstanding(p) = Outstanding(p)' + Occurrences(front, p)
  BY <1>1, ReleaseRangeOutstanding
<1>4. \A p : Outstanding(p) \in Nat /\ Outstanding(p)' \in Nat
  BY <1>1, <1>3, QueueParts, QueuePartsNext
<1>5. \A p : Occurrences(front, p) \in Nat
  <2>1. NativeOutstanding \in Seq(Paths)
    BY <1>1, QueueParts
  <2>2. /\ Wordlist \in Seq(Paths) /\ Len(Wordlist) \in Nat
        /\ \A i \in 1 .. Len(Wordlist) : Wordlist[i] \in Paths
        /\ index \in 0 .. Len(Wordlist) /\ nativeClaim \in NativeClaims
    BY <1>1, DictionaryAssumption, LenProperties, ElementOfSeq DEF DictTypeOK
  <2>3. /\ nativeClaim.start + nativeClaim.size = index
        /\ nativeClaim.start \in Nat /\ nativeClaim.released \in Nat /\ nativeClaim.size \in Nat
    BY <1>1, <1>2, <2>2 DEF RangeInFlight, NativeClaims, NoClaim
  <2> DEFINE from == nativeClaim.start + nativeClaim.released
             to == nativeClaim.start + nativeClaim.size
  <2>31. NativeOutstanding = SubSeq(Wordlist, from + 1, to)
    BY DEF NativeOutstanding
  <2>32. from \in Nat /\ to \in 0 .. Len(Wordlist) /\ from + count <= to
    <3>1. from \in Nat
      BY <2>3
    <3>2. to \in 0 .. Len(Wordlist)
      BY <2>2, <2>3
    <3>3. from + count <= to
      <4> DEFINE st == nativeClaim.start
                 re == nativeClaim.released
                 si == nativeClaim.size
      <4>1. st \in Nat /\ re \in Nat /\ si \in Nat /\ count \in Nat /\ re + count <= si
        BY <1>1, <1>2, <2>3
      <4>2. from = st + re /\ to = st + si
        OBVIOUS
      <4> HIDE DEF st, re, si, from, to
      <4> QED
        BY <4>1, <4>2
    <3> QED
      BY <3>1, <3>2, <3>3
  <2>4. /\ from \in Nat /\ to \in 0 .. Len(Wordlist) /\ from + count <= to
        /\ NativeOutstanding = SubSeq(Wordlist, from + 1, to)
    BY <2>31, <2>32
  <2> HIDE DEF from, to
  <2>5. front = SubSeq(Wordlist, from + 1, from + count)
    BY <1>1, <1>2, <2>2, <2>4, RangeCut
  <2>6. SubSeq(Wordlist, from + 1, from + count) \in Seq(Paths)
    <3>1. \A i \in from + 1 .. from + count : Wordlist[i] \in Paths
      BY <1>1, <2>2, <2>4
    <3> QED
      BY <1>1, <2>4, <3>1, SubSeqProperties
  <2> HIDE DEF front
  <2> QED
    BY <2>5, <2>6, OccurrencesType
<1>6. TypeOK'
  <2>1. settled' \in [Paths -> Nat]
    <3> HIDE DEF front
    <3>1. \A p \in Paths : settled[p] + Occurrences(front, p) \in Nat
      <4> SUFFICES ASSUME NEW p \in Paths PROVE settled[p] + Occurrences(front, p) \in Nat
        OBVIOUS
      <4>1. settled[p] \in Nat /\ Occurrences(front, p) \in Nat
        BY <1>1, <1>5
      <4> QED
        BY <4>1
    <3> QED
      BY <1>1, <3>1
  <2> QED
    BY <1>1, <1>3, <2>1 DEF IInv, TypeOK
<1>7. OneBackend'
  BY <1>1, <1>2 DEF OneBackend
<1>8. Conservation'
  <2> HIDE DEF front
  <2>2. SUFFICES ASSUME NEW p \in Paths
                 PROVE  Occurrences(Wordlist, p) + accepted[p] = settled'[p] + Outstanding(p)'
    BY <1>1 DEF Conservation
  <2>3. Occurrences(Wordlist, p) + accepted[p] = settled[p] + Outstanding(p)
    BY DEF IInv, Conservation
  <2>4. settled'[p] = settled[p] + Occurrences(front, p) /\ settled[p] \in Nat
    BY <1>1
  <2>5. Outstanding(p) = Outstanding(p)' + Occurrences(front, p)
    BY <1>3
  <2>6. Outstanding(p)' \in Nat /\ Occurrences(front, p) \in Nat
    BY <1>4, <1>5
  <2> QED
    BY <2>3, <2>4, <2>5, <2>6
<1>9. SavedConservation'
  BY <1>1 DEF IInv, SavedConservation
<1>10. HeldAreClaimed'
  BY <1>1, <1>2 DEF IInv, HeldAreClaimed
<1> QED
  BY <1>3, <1>6, <1>7, <1>8, <1>9, <1>10 DEF IInv

\* Giving the rest of a batch back changes where its paths wait, not how many.
LEMMA RequeueIInv ==
  ASSUME IInv, Requeue
  PROVE  IInv'
<1>1. /\ DictTypeOK /\ RangeInFlight /\ NativeRequests /\ held = Idle
      /\ requeue_claims /\ batch' = <<>>
      /\ UNCHANGED <<held, settled, accepted, saved>>
  BY DEF IInv, TypeOK, OneBackend, Requeue
<1>2. DictTypeOK' /\ RangeInFlight' /\ \A p : Outstanding(p)' = Outstanding(p)
  BY <1>1, RequeueOutstanding
<1>3. claimed' = <<>>
  BY <1>1 DEF requeue_claims
<1>4. TypeOK'
  BY <1>1, <1>2 DEF IInv, TypeOK
<1>5. OneBackend'
  BY <1>1, <1>3 DEF OneBackend
<1>6. Conservation' /\ SavedConservation'
  BY <1>1, <1>2 DEF IInv, Conservation, SavedConservation
<1>7. HeldAreClaimed'
  <2>1. held' = Idle /\ claimed' \in Seq(Paths)
    BY <1>1, <1>3
  <2> QED
    BY <2>1, IdleHeldAreClaimed
<1> QED
  BY <1>2, <1>4, <1>5, <1>6, <1>7 DEF IInv

\* A discovered path is owed once more exactly when add_extra accepts it.
LEMMA DiscoverIInv ==
  ASSUME IInv, NEW q \in Paths, Discover(q)
  PROVE  IInv'
<1>1. /\ DictTypeOK /\ RangeInFlight /\ add_extra(q)
      /\ accepted \in [Paths -> Nat] /\ settled \in [Paths -> Nat]
      /\ accepted' = IF Accepts(q) THEN [accepted EXCEPT ![q] = @ + 1] ELSE accepted
      /\ UNCHANGED <<held, batch, settled, saved>>
  BY DEF IInv, TypeOK, Discover
<1>2. /\ DictTypeOK' /\ RangeInFlight'
      /\ \A p : Outstanding(p)'
                  = Outstanding(p) + (IF Accepts(q) /\ q = p THEN 1 ELSE 0)
  BY <1>1, AddExtraOutstanding
<1>3. claimed' = claimed /\ nativeClaim' = nativeClaim
  BY <1>1 DEF add_extra
<1>4. accepted' \in [Paths -> Nat]
  BY <1>1
<1>5. TypeOK'
  BY <1>1, <1>2, <1>4 DEF IInv, TypeOK
<1>6. OneBackend' /\ HeldAreClaimed' /\ SavedConservation'
  BY <1>1, <1>3 DEF IInv, OneBackend, HeldAreClaimed, SavedConservation
<1>7. Conservation'
  <2>1. SUFFICES ASSUME NEW p \in Paths
                 PROVE  Occurrences(Wordlist, p) + accepted'[p] = settled[p] + Outstanding(p)'
    BY <1>1 DEF Conservation
  <2>2. Occurrences(Wordlist, p) + accepted[p] = settled[p] + Outstanding(p)
    BY DEF IInv, Conservation
  <2>3. accepted'[p] = accepted[p] + (IF Accepts(q) /\ q = p THEN 1 ELSE 0)
    BY <1>1
  <2>4. Outstanding(p)' = Outstanding(p) + (IF Accepts(q) /\ q = p THEN 1 ELSE 0)
    BY <1>2
  <2>5. /\ Outstanding(p) \in Nat /\ settled[p] \in Nat /\ accepted[p] \in Nat
        /\ Occurrences(Wordlist, p) \in Nat
    BY <1>1, QueueParts, OccurrencesType, DictionaryAssumption
  <2> DEFINE d == IF Accepts(q) /\ q = p THEN 1 ELSE 0
  <2>6. d \in Nat
    OBVIOUS
  <2> HIDE DEF d
  <2>7. accepted'[p] = accepted[p] + d /\ Outstanding(p)' = Outstanding(p) + d
    BY <2>3, <2>4 DEF d
  <2> QED
    BY <2>2, <2>5, <2>6, <2>7
<1> QED
  BY <1>2, <1>5, <1>6, <1>7 DEF IInv

\* A saved session owes what the queue owes at the time of the save.
LEMMA SaveIInv ==
  ASSUME IInv, Save
  PROVE  IInv'
<1>1. /\ DictTypeOK /\ RangeInFlight
      /\ accepted \in [Paths -> Nat] /\ settled \in [Paths -> Nat]
      /\ saved' = [valid |-> TRUE, state |-> getstate,
                   settled |-> settled, accepted |-> accepted]
      /\ UNCHANGED <<native, index, extra, extraIndex, extraMembership, claimed, nativeClaim,
                     held, batch, settled, accepted>>
  BY DEF IInv, TypeOK, Save, dictVars
<1>2. SavedStateOK(getstate) /\ \A p : StateOutstanding(getstate, p) = Outstanding(p)
  BY <1>1, GetstateOutstanding
<1>3. TypeOK'
  <2>1. getstate \in DictStates
    BY <1>2 DEF SavedStateOK
  <2>2. saved' \in [valid : BOOLEAN, state : DictStates,
                    settled : [Paths -> Nat], accepted : [Paths -> Nat]]
    BY <1>1, <2>1
  <2> QED
    BY <1>1, <2>2 DEF IInv, TypeOK, DictTypeOK
<1>4. RangeInFlight' /\ OneBackend' /\ HeldAreClaimed'
  BY <1>1 DEF IInv, RangeInFlight, OneBackend, HeldAreClaimed
<1>5. Conservation'
  BY <1>1 DEF IInv, Conservation, Outstanding, NativeOutstanding, PendingExtra, PendingItems
<1>6. SavedConservation'
  <2>1. /\ saved'.state = getstate /\ saved'.settled = settled /\ saved'.accepted = accepted
    BY <1>1
  <2>2. \A p \in Paths :
          Occurrences(Wordlist, p) + accepted[p] = settled[p] + StateOutstanding(getstate, p)
    BY <1>2 DEF IInv, Conservation
  <2> HIDE DEF getstate
  <2> QED
    BY <1>2, <2>1, <2>2 DEF SavedConservation
<1> QED
  BY <1>3, <1>4, <1>5, <1>6 DEF IInv

\* A resumed process owes what the session recorded.
LEMMA ResumeIInv ==
  ASSUME IInv, Resume
  PROVE  IInv'
<1> DEFINE s == saved.state
<1>1. /\ saved.valid /\ setstate(s)
      /\ held' = Idle /\ batch' = <<>>
      /\ settled' = saved.settled /\ accepted' = saved.accepted /\ saved' = saved
      /\ saved \in [valid : BOOLEAN, state : DictStates,
                    settled : [Paths -> Nat], accepted : [Paths -> Nat]]
  BY DEF IInv, TypeOK, Resume
<1>2. /\ SavedStateOK(s)
      /\ \A p \in Paths : Occurrences(Wordlist, p) + saved.accepted[p]
                            = saved.settled[p] + StateOutstanding(s, p)
  BY <1>1 DEF IInv, SavedConservation
<1> HIDE DEF s
<1>3. /\ native' \in BOOLEAN
      /\ index' = s.index /\ extra' = s.extra /\ extraIndex' = s.extraIndex
      /\ claimed' = <<>> /\ nativeClaim' = NoClaim
      /\ extraMembership' = ToSet(s.extra)
  BY <1>1 DEF setstate
<1>4. extraMembership' \in SUBSET Paths
  <2>1. s.extra \in Seq(Paths)
    BY <1>2 DEF SavedStateOK, DictStates
  <2> QED
    BY <1>3, <2>1, ElementOfSeq DEF ToSet
<1>5. DictTypeOK' /\ RangeInFlight' /\ \A p : Outstanding(p)' = StateOutstanding(s, p)
  BY <1>2, <1>3, <1>4, FromStateOutstanding
<1>6. TypeOK'
  BY <1>1, <1>5 DEF TypeOK, Idle
<1>7. OneBackend'
  BY <1>1, <1>3 DEF OneBackend
<1>8. HeldAreClaimed'
  <2>1. held' = Idle /\ claimed' \in Seq(Paths)
    BY <1>1, <1>3
  <2> QED
    BY <2>1, IdleHeldAreClaimed
<1>9. Conservation' /\ SavedConservation'
  BY <1>1, <1>2, <1>5 DEF IInv, Conservation, SavedConservation
<1> QED
  BY <1>5, <1>6, <1>7, <1>8, <1>9 DEF IInv

\* A new directory owes the whole wordlist again.
LEMMA NextDirectoryIInv ==
  ASSUME IInv, NextDirectory
  PROVE  IInv'
<1>1. /\ DictTypeOK /\ held = Idle /\ reset /\ batch' = <<>>
      /\ settled' = None /\ accepted' = None /\ UNCHANGED <<held, saved>>
  BY DEF IInv, TypeOK, NextDirectory
<1>2. DictTypeOK' /\ RangeInFlight' /\ \A p : Outstanding(p)' = Occurrences(Wordlist, p)
  BY <1>1, ResetOutstanding
<1>3. claimed' = <<>> /\ nativeClaim' = NoClaim
  BY <1>1 DEF reset
<1>4. TypeOK'
  BY <1>1, <1>2 DEF IInv, TypeOK, None
<1>5. OneBackend'
  BY <1>1, <1>3 DEF OneBackend
<1>6. HeldAreClaimed'
  <2>1. held' = Idle /\ claimed' \in Seq(Paths)
    BY <1>1, <1>3
  <2> QED
    BY <2>1, IdleHeldAreClaimed
<1>7. Conservation'
  <2>1. SUFFICES ASSUME NEW p \in Paths
                 PROVE  Occurrences(Wordlist, p) + accepted'[p] = settled'[p] + Outstanding(p)'
    BY DEF Conservation
  <2>2. accepted'[p] = 0 /\ settled'[p] = 0
    BY <1>1 DEF None
  <2>3. Outstanding(p)' = Occurrences(Wordlist, p) /\ Occurrences(Wordlist, p) \in Nat
    BY <1>2, OccurrencesType, DictionaryAssumption
  <2> QED
    BY <2>2, <2>3
<1>8. SavedConservation'
  BY <1>1 DEF IInv, SavedConservation
<1> QED
  BY <1>2, <1>4, <1>5, <1>6, <1>7, <1>8 DEF IInv

\* Every step of the specification preserves the strengthened invariant.
LEMMA NextIInv ==
  ASSUME IInv, [Next]_vars
  PROVE  IInv'
<1>1. ASSUME NEW w \in Workers, Claim(w) PROVE IInv'
  BY <1>1, ClaimIInv
<1>2. ASSUME NEW w \in Workers, Release(w) PROVE IInv'
  BY <1>2, ReleaseIInv
<1>3. CASE ClaimBatch
  BY <1>3, ClaimBatchIInv
<1>4. ASSUME NEW count \in 1 .. ChunkSize, ReleaseBatch(count) PROVE IInv'
  BY <1>4, ReleaseBatchIInv
<1>5. ASSUME NEW count \in 1 .. ChunkSize, ReleaseRange(count) PROVE IInv'
  BY <1>5, ReleaseRangeIInv
<1>6. CASE Requeue
  BY <1>6, RequeueIInv
<1>7. ASSUME NEW q \in Paths, Discover(q) PROVE IInv'
  BY <1>7, DiscoverIInv
<1>8. CASE Save
  BY <1>8, SaveIInv
<1>9. CASE Resume
  BY <1>9, ResumeIInv
<1>10. CASE NextDirectory
  BY <1>10, NextDirectoryIInv
<1>11. CASE UNCHANGED vars
  <2>1. UNCHANGED <<native, index, extra, extraIndex, extraMembership, claimed, nativeClaim,
                    held, batch, settled, accepted, saved>>
    BY <1>11 DEF vars, dictVars
  <2>2. TypeOK' /\ RangeInFlight' /\ OneBackend' /\ HeldAreClaimed' /\ SavedConservation'
    BY <2>1 DEF IInv, TypeOK, DictTypeOK, RangeInFlight, OneBackend, HeldAreClaimed,
                SavedConservation
  <2>3. Conservation'
    BY <2>1 DEF IInv, Conservation, Outstanding, NativeOutstanding, PendingExtra, PendingItems
  <2> QED
    BY <2>2, <2>3 DEF IInv
<1> QED
  BY <1>1, <1>2, <1>3, <1>4, <1>5, <1>6, <1>7, <1>8, <1>9, <1>10, <1>11 DEF Next

LEMMA SpecIInv == Spec => []IInv
<1>1. Init => IInv
  BY InitIInv
<1>2. IInv /\ [Next]_vars => IInv'
  BY NextIInv
<1> QED
  BY <1>1, <1>2, PTL DEF Spec

\* The queue's state stays well-typed: no index of Dictionary leaves its list.
THEOREM TypeCorrect == Spec => []TypeOK
<1>1. IInv => TypeOK
  BY DEF IInv
<1> QED
  BY <1>1, SpecIInv, PTL

\* No path is lost and none is doubled, whatever the workers, the native engine,
\* the saves, the resumes and the resets of Dictionary do.
THEOREM NothingLost == Spec => []Conservation
<1>1. IInv => Conservation
  BY DEF IInv
<1> QED
  BY <1>1, SpecIInv, PTL

\* release_claim and release_claims never raise ValueError for a worker that
\* releases what it claimed.
THEOREM ReleaseSafe == Spec => []ReleaseNeverFails
<1>1. IInv => ReleaseNeverFails
  <2> SUFFICES ASSUME IInv PROVE ReleaseNeverFails
    OBVIOUS
  <2>1. claimed \in Seq(Paths) /\ (batch = <<>> \/ batch = claimed)
    BY DEF IInv, TypeOK, DictTypeOK, OneBackend
  <2>2. IsPrefix(batch, claimed)
    <3>1. Len(claimed) \in Nat /\ SubSeq(claimed, 1, Len(claimed)) = claimed
      BY <2>1, LenProperties, SubSeqFull
    <3>2. SubSeq(claimed, 1, 0) = <<>> /\ Len(<<>>) = 0
      BY SubSeqEmpty
    <3> QED
      BY <2>1, <3>1, <3>2 DEF IsPrefix
  <2> QED
    BY <2>2 DEF IInv, HeldAreClaimed, ReleaseNeverFails
<1> QED
  BY <1>1, SpecIInv, PTL

\* Writing the claims back, as requeue_claims and __getstate__ do, drops no
\* path of the extras.
LEMMA GetstateKeepsExtra ==
  ASSUME DictTypeOK
  PROVE  ToSet(extra) \subseteq ToSet(getstate.extra)
<1> DEFINE front == SubSeq(extra, 1, extraIndex)
           rest == claimed \o PendingExtra
<1>1. /\ extra \in Seq(Paths) /\ claimed \in Seq(Paths) /\ Len(extra) \in Nat
      /\ extraIndex \in 0 .. Len(extra)
      /\ \A i \in 1 .. Len(extra) : extra[i] \in Paths
  BY LenProperties, ElementOfSeq DEF DictTypeOK
<1>2. front \in Seq(Paths) /\ PendingExtra \in Seq(Paths)
  BY <1>1, SubSeqProperties DEF PendingExtra
<1>3. rest \in Seq(Paths) /\ ToSet(rest) = ToSet(claimed) \cup ToSet(PendingExtra)
  BY <1>1, <1>2, ConcatMembers, ConcatProperties
<1>4. getstate.extra = front \o rest
  BY DEF getstate
<1>5. ToSet(extra) = ToSet(front \o PendingExtra)
  <2>1. front \o PendingExtra = extra
    <3>1. /\ 1 \in 1 .. Len(extra) + 1 /\ extraIndex \in 1 - 1 .. Len(extra)
          /\ Len(extra) \in extraIndex .. Len(extra)
      BY <1>1
    <3>2. front \o PendingExtra = SubSeq(extra, 1, Len(extra))
      BY <1>1, <3>1, ConcatAdjacentSubSeq DEF PendingExtra
    <3> QED
      BY <1>1, <3>2, SubSeqFull
  <2> QED
    BY <2>1
<1>6. ToSet(front \o PendingExtra) = ToSet(front) \cup ToSet(PendingExtra)
  <2>1. front \in Seq(Paths) /\ PendingExtra \in Seq(Paths)
    BY <1>2
  <2> HIDE DEF front
  <2> QED
    BY <2>1, ConcatMembers
<1> HIDE DEF front, rest
<1>7. ToSet(front \o rest) = ToSet(front) \cup ToSet(rest)
  BY <1>2, <1>3, ConcatMembers
<1> QED
  BY <1>3, <1>4, <1>5, <1>6, <1>7

LEMMA InitDiscoveryInv == Init => DiscoveryInv
  BY DEF Init, DictInit, DiscoveryInv, AcceptedOnce, None, NoSession

\* A discovery is queued only when the index does not know it, and then the
\* index learns it in the same step.
LEMMA DiscoverDiscoveryInv ==
  ASSUME IInv, DiscoveryInv, NEW q \in Paths, Discover(q)
  PROVE  DiscoveryInv'
<1>1. /\ add_extra(q) /\ UNCHANGED saved
      /\ accepted' = IF Accepts(q) THEN [accepted EXCEPT ![q] = @ + 1] ELSE accepted
      /\ accepted \in [Paths -> Nat] /\ extra \in Seq(Paths)
  BY DEF IInv, TypeOK, DictTypeOK, Discover
<1>2. CASE ~Accepts(q)
  BY <1>1, <1>2 DEF DiscoveryInv, AcceptedOnce, add_extra
<1>3. CASE Accepts(q)
  <2>1. /\ extra' = Append(extra, q) /\ extraMembership' = extraMembership \cup {q}
        /\ q \notin extraMembership /\ q \notin ToSet(Wordlist)
        /\ accepted' = [accepted EXCEPT ![q] = @ + 1]
    BY <1>1, <1>3 DEF add_extra, Accepts
  <2>2. accepted[q] = 0
    BY <1>1, <2>1 DEF DiscoveryInv, AcceptedOnce
  <2>3. AcceptedOnce(accepted', extraMembership')
    BY <1>1, <2>1, <2>2 DEF DiscoveryInv, AcceptedOnce
  <2>4. ToSet(extra') = ToSet(extra) \cup {q}
    BY <1>1, <2>1, AppendMembers
  <2> QED
    BY <1>1, <2>1, <2>3, <2>4 DEF DiscoveryInv, AcceptedOnce
<1> QED
  BY <1>2, <1>3

\* Every step of the specification preserves what the index knows.
LEMMA NextDiscoveryInv ==
  ASSUME IInv, DiscoveryInv, [Next]_vars
  PROVE  DiscoveryInv'
<1>1. DictTypeOK
  BY DEF IInv, TypeOK
<1>2. CASE UNCHANGED <<extra, extraMembership, accepted, saved>>
  BY <1>2 DEF DiscoveryInv, AcceptedOnce
<1>3. CASE Requeue
  <2>1. extra' = getstate.extra /\ UNCHANGED <<extraMembership, accepted, saved>>
    BY <1>3 DEF Requeue, requeue_claims, getstate
  <2> QED
    BY <1>1, <2>1, GetstateKeepsExtra DEF DiscoveryInv, AcceptedOnce
<1>4. CASE Save
  <2>1. /\ saved'.accepted = accepted /\ saved'.state.extra = getstate.extra
        /\ UNCHANGED <<extra, extraMembership, accepted>>
    BY <1>4 DEF Save, dictVars
  <2> QED
    BY <1>1, <2>1, GetstateKeepsExtra DEF DiscoveryInv, AcceptedOnce
<1>5. CASE Resume
  BY <1>5 DEF Resume, setstate, DiscoveryInv, AcceptedOnce
<1>6. CASE NextDirectory
  BY <1>6 DEF NextDirectory, reset, DiscoveryInv, AcceptedOnce, None
<1>7. ASSUME NEW q \in Paths, Discover(q) PROVE DiscoveryInv'
  BY <1>7, DiscoverDiscoveryInv
<1>8. ASSUME NEW w \in Workers, Claim(w) \/ Release(w)
      PROVE  UNCHANGED <<extra, extraMembership, accepted, saved>>
  BY <1>8 DEF Claim, Release, claim_next, release_claim
<1>9. CASE ClaimBatch
  <2>1. UNCHANGED <<extra, extraMembership, accepted, saved>>
    BY <1>9 DEF ClaimBatch, claim_native_many, claim_many, ClaimExtras, ClaimRange
  <2> QED
    BY <1>2, <2>1
<1>10. ASSUME NEW count \in 1 .. ChunkSize, ReleaseBatch(count) \/ ReleaseRange(count)
       PROVE  UNCHANGED <<extra, extraMembership, accepted, saved>>
  BY <1>10 DEF ReleaseBatch, ReleaseRange, release_claims, release_native_claims
<1>11. CASE UNCHANGED vars
  BY <1>2, <1>11 DEF vars, dictVars
<1> QED
  BY <1>2, <1>3, <1>4, <1>5, <1>6, <1>7, <1>8, <1>9, <1>10, <1>11 DEF Next

\* add_extra queues a discovered path at most once per directory, and never one
\* of the wordlist, whatever is saved, resumed or requeued in between.
THEOREM DiscoveriesQueuedOnce == Spec => []DiscoveredOnce
<1>1. Init => DiscoveryInv
  BY InitDiscoveryInv
<1>2. IInv /\ DiscoveryInv /\ [Next]_vars => DiscoveryInv'
  BY NextDiscoveryInv
<1>3. IInv /\ DiscoveryInv => DiscoveredOnce
  <2> SUFFICES ASSUME IInv, DiscoveryInv, NEW p \in Paths
               PROVE  accepted[p] + AtMost(1, Occurrences(Wordlist, p)) <= 1
    BY DEF DiscoveredOnce
  <2>1. accepted[p] \in Nat /\ Occurrences(Wordlist, p) \in Nat
    BY OccurrencesType, DictionaryAssumption DEF IInv, TypeOK
  <2>2. CASE accepted[p] = 0
    BY <2>1, <2>2 DEF AtMost
  <2>3. CASE accepted[p] > 0
    <3>1. accepted[p] = 1 /\ p \notin ToSet(Wordlist)
      BY <2>3 DEF DiscoveryInv, AcceptedOnce
    <3>2. {i \in 1 .. Len(Wordlist) : Wordlist[i] = p} = {}
      BY <3>1 DEF ToSet
    <3>3. Occurrences(Wordlist, p) = 0
      BY <3>2, FS_EmptySet DEF Occurrences
    <3> QED
      BY <3>1, <3>3 DEF AtMost
  <2> QED
    BY <2>1, <2>2, <2>3
<1> QED
  BY <1>1, <1>2, <1>3, SpecIInv, PTL DEF Spec

-----------------------------------------------------------------------------
(* The coroutines of AsyncFuzzer                                           *)

Holding == {"request", "queue", "write"}

\* A task holds a path exactly from its claim to its release.
HoldsWhileRunning ==
  \A w \in Workers : pc[w] \in Holding <=> held[w] # NoPath

\* Outside its gather, AsyncFuzzer.start has no task that runs.
TasksBelongToGather ==
  fz \in {"off", "setup", "done"} => \A w \in Workers : pc[w] \in Stopped

\* start_coroutines has waited for AsyncFuzzer.start before it returns.
FuzzerEndsFirst == phase \in Leaving => fz \in {"off", "done"}

Jobs == [task : Workers \cup {NoPath}, state : {"none", "running", "saved", "failed"}]

\* The task that awaits the executor's save is still at that await.
JobIsAwaited ==
  /\ job \in Jobs
  /\ job # NoJob => job.task \in Workers /\ pc[job.task] = "write"

LEMMA NoJobType == NoJob \in Jobs
BY DEF NoJob, Jobs

AInv ==
  /\ batch = <<>>
  /\ pc \in [Workers -> Stopped \cup Holding \cup {"gate"}]
  /\ HoldsWhileRunning
  /\ TasksBelongToGather
  /\ FuzzerEndsFirst
  /\ JobIsAwaited

LEMMA AsyncInitAInv == AsyncInit => AInv
BY NoJobType
   DEF AsyncInit, Init, Idle, AInv, HoldsWhileRunning, Holding, TasksBelongToGather,
       Stopped, FuzzerEndsFirst, Leaving, JobIsAwaited

\* A step that leaves the dictionary, the tasks and the executor alone only has to
\* keep the main thread and the fuzzer in step.
LEMMA OutsideTasks ==
  ASSUME AInv, UNCHANGED <<vars, pc, job>>, TasksBelongToGather', FuzzerEndsFirst'
  PROVE  [Next]_vars /\ AInv'
BY DEF AInv, vars, HoldsWhileRunning, JobIsAwaited

-----------------------------------------------------------------------------
(* The main thread                                                         *)

LEMMA BeginDirectorySafe ==
  ASSUME AInv, BeginDirectory PROVE [Next]_vars /\ AInv'
<1>1. TasksBelongToGather' /\ FuzzerEndsFirst'
  BY DEF AInv, BeginDirectory, Loop, TasksBelongToGather, FuzzerEndsFirst, Leaving
<1> QED
  BY <1>1, OutsideTasks DEF BeginDirectory, rowVars

LEMMA CancelFuzzerSafe ==
  ASSUME AInv, CancelFuzzer, UNCHANGED pc PROVE TasksBelongToGather'
BY DEF AInv, CancelFuzzer, TasksBelongToGather

LEMMA WakeSafe ==
  ASSUME AInv, WakeAnswered \/ WakeDone \/ WakeTimeout
  PROVE  [Next]_vars /\ AInv'
<1>1. UNCHANGED <<vars, pc, job>> /\ phase' = "ending"
  BY DEF WakeAnswered, WakeDone, WakeTimeout, fuzzerVars, rowVars
<1>2. TasksBelongToGather'
  <2>1. CASE WakeAnswered \/ WakeTimeout
    BY <2>1, CancelFuzzerSafe DEF WakeAnswered, WakeTimeout
  <2>2. CASE WakeDone
    BY <2>2 DEF WakeDone, fuzzerVars, AInv, TasksBelongToGather
  <2> QED
    BY <2>1, <2>2
<1>3. FuzzerEndsFirst'
  BY <1>1 DEF FuzzerEndsFirst, Leaving
<1> QED
  BY <1>1, <1>2, <1>3, OutsideTasks

LEMMA EndedSafe ==
  ASSUME AInv, Ended PROVE [Next]_vars /\ AInv'
<1>1. TasksBelongToGather' /\ FuzzerEndsFirst'
  BY DEF AInv, Ended, fuzzerVars, TasksBelongToGather, FuzzerEndsFirst, Leaving
<1> QED
  BY <1>1, OutsideTasks DEF Ended, fuzzerVars, rowVars

\* No task runs any more, so none holds a path and the reset is NextDirectory.
LEMMA LeaveDirectorySafe ==
  ASSUME IInv, AInv, LeaveDirectory PROVE [Next]_vars /\ AInv'
<1>1. \A w \in Workers : pc[w] \in Stopped
  BY DEF AInv, LeaveDirectory, FuzzerEndsFirst, Leaving, TasksBelongToGather
<1>2. \A w \in Workers : held[w] = NoPath
  BY <1>1 DEF AInv, HoldsWhileRunning, Holding, Stopped
<1>3. held = Idle
  BY <1>2 DEF IInv, TypeOK, Idle
<1>4. job = NoJob
  BY <1>1 DEF AInv, JobIsAwaited, Stopped
<1>5. NextDirectory
  BY <1>3 DEF LeaveDirectory, NextDirectory, AInv
<1>6. /\ batch' = <<>> /\ held' = held /\ job' = NoJob /\ fz' = "off"
      /\ pc' = [w \in Workers |-> "none"]
  BY <1>4 DEF LeaveDirectory, AInv
<1>7. AInv'
  BY <1>2, <1>6 DEF AInv, HoldsWhileRunning, Holding, TasksBelongToGather, Stopped,
                    FuzzerEndsFirst, JobIsAwaited
<1> QED
  BY <1>5, <1>7 DEF Next

-----------------------------------------------------------------------------
(* AsyncFuzzer.start                                                       *)

LEMMA SetupDoneSafe ==
  ASSUME AInv, SetupDone PROVE [Next]_vars /\ AInv'
<1>1. \A w \in Workers : pc[w] \in Stopped
  BY DEF AInv, SetupDone, TasksBelongToGather
<1>2. UNCHANGED <<vars, job, phase>> /\ fz' = "gather"
  BY DEF SetupDone, Fuzz, rowVars, scanVars
<1>3. UNCHANGED <<held, batch>>
  BY <1>2 DEF vars
<1>4. job = NoJob
  BY <1>1 DEF AInv, JobIsAwaited, Stopped
<1>5. /\ pc' \in [Workers -> Stopped \cup Holding \cup {"gate"}]
      /\ \A w \in Workers : pc'[w] \notin Holding
  BY DEF SetupDone, Stopped, Holding
<1>6. HoldsWhileRunning'
  BY <1>1, <1>3, <1>5 DEF AInv, HoldsWhileRunning, Holding, Stopped
<1>7. TasksBelongToGather' /\ JobIsAwaited'
  BY <1>2, <1>4, NoJobType DEF TasksBelongToGather, JobIsAwaited
<1>8. FuzzerEndsFirst'
  BY <1>2 DEF AInv, FuzzerEndsFirst, SetupDone
<1> QED
  BY <1>2, <1>3, <1>5, <1>6, <1>7, <1>8 DEF AInv

LEMMA StartSafe ==
  ASSUME AInv, SetupRaises \/ GatherDone \/ GatherRaises \/ Drained
  PROVE  [Next]_vars /\ AInv'
<1>1. UNCHANGED <<vars, pc, job, phase>>
  BY DEF SetupRaises, GatherDone, GatherRaises, Drained, Fuzz, rowVars, scanVars
<1>2. TasksBelongToGather'
  <2>1. CASE GatherRaises
    BY <2>1, <1>1, CancelFuzzerSafe DEF GatherRaises
  <2>2. CASE SetupRaises \/ GatherDone \/ Drained
    BY <2>2, <1>1 DEF SetupRaises, GatherDone, Drained, AInv, TasksBelongToGather, Stopped
  <2> QED
    BY <2>1, <2>2
<1>3. fz \notin {"off", "done"}
  BY DEF SetupRaises, GatherDone, GatherRaises, Drained
<1>4. FuzzerEndsFirst'
  BY <1>1, <1>3 DEF AInv, FuzzerEndsFirst
<1> QED
  BY <1>1, <1>2, <1>4, OutsideTasks

-----------------------------------------------------------------------------
(* A task                                                                  *)

\* A task that runs is inside the gather, so the main thread has not left.
LEMMA StepIsInside ==
  ASSUME AInv, NEW w \in Workers, NEW from, NEW to, from \notin Stopped, Step(w, from, to)
  PROVE  TasksBelongToGather' /\ FuzzerEndsFirst'
<1>1. fz \notin {"off", "setup", "done"}
  BY DEF AInv, TasksBelongToGather, Step
<1> QED
  BY <1>1 DEF AInv, TasksBelongToGather, FuzzerEndsFirst, Step, scanVars

\* A step of a task that gives its path back.
LEMMA StepReleases ==
  ASSUME IInv, AInv, NEW w \in Workers, NEW from \in Holding,
         NEW to \in Stopped \cup {"gate"}, Step(w, from, to), Release(w),
         JobIsAwaited'
  PROVE  [Next]_vars /\ AInv'
<1>1. TasksBelongToGather' /\ FuzzerEndsFirst'
  BY StepIsInside DEF Holding, Stopped
<1>2. held \in [Workers -> Paths \cup {NoPath}]
  BY DEF IInv, TypeOK
<1>3. pc' = [pc EXCEPT ![w] = to] /\ pc[w] = from
  BY DEF Step
<1>4. held' = [held EXCEPT ![w] = NoPath] /\ batch' = <<>>
  BY DEF Release, AInv
<1>5. pc' \in [Workers -> Stopped \cup Holding \cup {"gate"}]
  BY <1>3 DEF AInv
<1>6. HoldsWhileRunning'
  BY <1>2, <1>3, <1>4 DEF AInv, HoldsWhileRunning, Holding, Stopped
<1> QED
  BY <1>1, <1>4, <1>5, <1>6 DEF AInv, Next

\* A step of a task that neither claims nor releases.
LEMMA StepKeepsPath ==
  ASSUME AInv, NEW w \in Workers, NEW from, NEW to, Step(w, from, to), UNCHANGED held,
         from \notin Stopped, to \in Stopped \cup Holding \cup {"gate"},
         from \in Holding <=> to \in Holding,
         batch' = batch, JobIsAwaited'
  PROVE  AInv'
<1>1. TasksBelongToGather' /\ FuzzerEndsFirst'
  BY StepIsInside
<1>2. pc' = [pc EXCEPT ![w] = to] /\ pc[w] = from
  BY DEF Step
<1>3. pc' \in [Workers -> Stopped \cup Holding \cup {"gate"}]
  BY <1>2 DEF AInv
<1>4. HoldsWhileRunning'
  BY <1>2 DEF AInv, HoldsWhileRunning
<1> QED
  BY <1>1, <1>3, <1>4 DEF AInv

LEMMA TaskClaimSafe ==
  ASSUME IInv, AInv, NEW w \in Workers, TaskClaim(w) PROVE [Next]_vars /\ AInv'
<1>1. Step(w, "gate", "request") /\ Claim(w) /\ UNCHANGED job
  BY DEF TaskClaim, rowVars
<1>2. TasksBelongToGather' /\ FuzzerEndsFirst'
  BY <1>1, StepIsInside DEF Stopped
<1>3. NextPath \in Paths
  BY <1>1, ClaimNextOutstanding DEF IInv, TypeOK, OneBackend, Claim
<1>4. NextPath # NoPath /\ held \in [Workers -> Paths \cup {NoPath}]
  BY <1>3, ClaimsAssumption DEF IInv, TypeOK
<1>5. held' = [held EXCEPT ![w] = NextPath] /\ batch' = <<>>
  BY <1>1 DEF Claim, AInv
<1>6. pc' = [pc EXCEPT ![w] = "request"] /\ pc[w] = "gate"
  BY <1>1 DEF Step
<1>7. pc' \in [Workers -> Stopped \cup Holding \cup {"gate"}]
  BY <1>6 DEF AInv, Holding
<1>8. HoldsWhileRunning'
  BY <1>4, <1>5, <1>6 DEF AInv, HoldsWhileRunning, Holding
<1>9. JobIsAwaited'
  BY <1>1, <1>6 DEF AInv, JobIsAwaited
<1> QED
  BY <1>1, <1>2, <1>5, <1>7, <1>8, <1>9 DEF AInv, Next

LEMMA TaskExhaustedSafe ==
  ASSUME AInv, NEW w \in Workers, TaskExhausted(w) PROVE [Next]_vars /\ AInv'
<1>1. Step(w, "gate", "done") /\ UNCHANGED <<vars, job>>
  BY DEF TaskExhausted, rowVars
<1>2. UNCHANGED <<held, batch>>
  BY <1>1 DEF vars
<1>3. JobIsAwaited'
  BY <1>1 DEF AInv, JobIsAwaited, Step
<1>4. AInv'
  BY <1>1, <1>2, <1>3, StepKeepsPath DEF Stopped, Holding
<1> QED
  BY <1>1, <1>4

LEMMA MissSafe ==
  ASSUME IInv, AInv, NEW w \in Workers, Miss(w) PROVE [Next]_vars /\ AInv'
<1>1. Step(w, "request", "gate") /\ Release(w) /\ UNCHANGED job
  BY DEF Miss, rowVars
<1>2. JobIsAwaited'
  BY <1>1 DEF AInv, JobIsAwaited, Step
<1> QED
  BY <1>1, <1>2, StepReleases DEF Holding

LEMMA CallbackRaisesSafe ==
  ASSUME IInv, AInv, NEW w \in Workers, CallbackRaises(w) PROVE [Next]_vars /\ AInv'
<1>1. Step(w, "request", "failed") /\ Release(w) /\ UNCHANGED job
  BY DEF CallbackRaises, rowVars
<1>2. JobIsAwaited'
  BY <1>1 DEF AInv, JobIsAwaited, Step
<1> QED
  BY <1>1, <1>2, StepReleases DEF Holding, Stopped

LEMMA MatchSafe ==
  ASSUME AInv, NEW w \in Workers, Match(w) PROVE [Next]_vars /\ AInv'
<1>1. Step(w, "request", "queue") /\ UNCHANGED job
  BY DEF Match
<1>2. UNCHANGED vars \/ \E p \in Paths : Discover(p)
  BY DEF Match
<1>3. UNCHANGED <<held, batch>>
  BY <1>2 DEF vars, Discover
<1>4. JobIsAwaited'
  BY <1>1 DEF AInv, JobIsAwaited, Step
<1>5. AInv'
  BY <1>1, <1>3, <1>4, StepKeepsPath DEF Stopped, Holding
<1> QED
  BY <1>2, <1>5 DEF Next

LEMMA SubmitSaveSafe ==
  ASSUME AInv, NEW w \in Workers, SubmitSave(w) PROVE [Next]_vars /\ AInv'
<1>1. Step(w, "queue", "write") /\ UNCHANGED vars /\ job' = [task |-> w, state |-> "running"]
  BY DEF SubmitSave
<1>2. UNCHANGED <<held, batch>>
  BY <1>1 DEF vars
<1>3. JobIsAwaited'
  BY <1>1 DEF AInv, JobIsAwaited, Jobs, Step
<1>4. AInv'
  BY <1>1, <1>2, <1>3, StepKeepsPath DEF Stopped, Holding
<1> QED
  BY <1>1, <1>4

LEMMA SaveReturnsSafe ==
  ASSUME IInv, AInv, NEW w \in Workers, SaveReturns(w) PROVE [Next]_vars /\ AInv'
<1>1. PICK to \in {"cancelled", "gate"} : Step(w, "write", to)
  BY DEF SaveReturns
<1>2. Release(w) /\ job' = NoJob
  BY DEF SaveReturns
<1>3. JobIsAwaited'
  BY <1>2, NoJobType DEF JobIsAwaited
<1> QED
  BY <1>1, <1>2, <1>3, StepReleases DEF Holding, Stopped

LEMMA SaveRaisesSafe ==
  ASSUME IInv, AInv, NEW w \in Workers, SaveRaises(w) PROVE [Next]_vars /\ AInv'
<1>1. Step(w, "write", "failed") /\ Release(w) /\ job' = NoJob
  BY DEF SaveRaises
<1>2. JobIsAwaited'
  BY <1>1, NoJobType DEF JobIsAwaited
<1> QED
  BY <1>1, <1>2, StepReleases DEF Holding, Stopped

LEMMA CancelledSafe ==
  ASSUME IInv, AInv, NEW w \in Workers, Cancelled(w) PROVE [Next]_vars /\ AInv'
<1>1. UNCHANGED job
  BY DEF Cancelled, rowVars
<1>2. CASE Step(w, "gate", "cancelled") /\ UNCHANGED vars
  <2>1. UNCHANGED <<held, batch>>
    BY <1>2 DEF vars
  <2>2. JobIsAwaited'
    BY <1>1, <1>2 DEF AInv, JobIsAwaited, Step
  <2>3. AInv'
    BY <1>2, <2>1, <2>2, StepKeepsPath DEF Stopped, Holding
  <2> QED
    BY <1>2, <2>3
<1>3. CASE Step(w, "request", "cancelled") /\ Release(w)
  <2>1. JobIsAwaited'
    BY <1>1, <1>3 DEF AInv, JobIsAwaited, Step
  <2> QED
    BY <1>3, <2>1, StepReleases DEF Holding, Stopped
<1>4. CASE Step(w, "queue", "cancelled") /\ Release(w)
  <2>1. JobIsAwaited'
    BY <1>1, <1>4 DEF AInv, JobIsAwaited, Step
  <2> QED
    BY <1>4, <2>1, StepReleases DEF Holding, Stopped
<1> QED
  BY <1>2, <1>3, <1>4 DEF Cancelled

-----------------------------------------------------------------------------
(* The executor and the menu                                               *)

LEMMA JobSafe ==
  ASSUME AInv, JobSaves \/ JobFails PROVE [Next]_vars /\ AInv'
<1>1. /\ UNCHANGED <<vars, phase, fz, pc>>
      /\ \E s \in {"saved", "failed"} : job' = [job EXCEPT !.state = s]
      /\ job.state = "running"
  BY DEF JobSaves, JobFails, scanVars, fuzzerVars
<1>2. job # NoJob
  BY <1>1 DEF NoJob
<1>3. job \in Jobs
  BY DEF AInv, JobIsAwaited
<1>4. job' \in Jobs /\ job'.task = job.task
  BY <1>1, <1>3 DEF Jobs
<1>5. JobIsAwaited'
  BY <1>1, <1>2, <1>4 DEF AInv, JobIsAwaited
<1> QED
  BY <1>1, <1>5 DEF AInv, vars, HoldsWhileRunning, TasksBelongToGather, FuzzerEndsFirst

\* An answer may break the process off; it moves no task.
LEMMA HandlerSafe ==
  ASSUME AInv, UNCHANGED <<vars, fz, pc, job>>, phase' = phase \/ phase' = "broken"
  PROVE  [Next]_vars /\ AInv'
<1>1. TasksBelongToGather' /\ FuzzerEndsFirst'
  BY DEF AInv, TasksBelongToGather, FuzzerEndsFirst, Leaving
<1> QED
  BY <1>1, OutsideTasks

LEMMA MenuSafe ==
  ASSUME AInv,
         Signal \/ ChooseContinue \/ ChooseNext \/ ChooseSkip \/ ChooseQuit \/ ChooseSave
           \/ SaveFails
  PROVE  [Next]_vars /\ AInv'
<1>1. UNCHANGED <<vars, fz, pc, job>>
  BY DEF Signal, ChooseContinue, ChooseNext, ChooseSkip, ChooseQuit, ChooseSave, SaveFails,
         Handler
<1>2. phase' = phase \/ phase' = "broken"
  BY DEF Signal, ChooseContinue, ChooseNext, ChooseSkip, ChooseQuit, ChooseSave, SaveFails,
         Answer
<1> QED
  BY <1>1, <1>2, HandlerSafe

LEMMA SaveSessionSafe ==
  ASSUME AInv, SaveSession PROVE [Next]_vars /\ AInv'
<1>1. /\ Save /\ UNCHANGED <<fz, pc, job>>
      /\ phase' = phase \/ phase' = "broken"
  BY DEF SaveSession, Handler, Answer
<1>2. UNCHANGED <<held, batch>>
  BY <1>1 DEF Save
<1>3. AInv'
  BY <1>1, <1>2 DEF AInv, HoldsWhileRunning, TasksBelongToGather, FuzzerEndsFirst, Leaving,
                    JobIsAwaited
<1> QED
  BY <1>1, <1>3 DEF Next

-----------------------------------------------------------------------------
LEMMA AsyncNextSafe ==
  ASSUME IInv, AInv, [AsyncNext]_asyncVars PROVE [Next]_vars /\ AInv'
<1>1. CASE MainStep
  BY <1>1, BeginDirectorySafe, WakeSafe, EndedSafe, LeaveDirectorySafe DEF MainStep
<1>2. CASE WakeTimeout
  BY <1>2, WakeSafe
<1>3. CASE FuzzerStep
  BY <1>3, SetupDoneSafe, StartSafe DEF FuzzerStep
<1>4. ASSUME NEW w \in Workers, Task(w) PROVE [Next]_vars /\ AInv'
  BY <1>4, TaskClaimSafe, TaskExhaustedSafe, MissSafe, CallbackRaisesSafe, MatchSafe,
     SubmitSaveSafe, SaveReturnsSafe, SaveRaisesSafe, CancelledSafe DEF Task
<1>5. CASE JobSaves \/ JobFails
  BY <1>5, JobSafe
<1>6. CASE Signal
  BY <1>6, MenuSafe
<1>7. CASE HandlerStep
  BY <1>7, MenuSafe, SaveSessionSafe DEF HandlerStep
<1>8. CASE UNCHANGED asyncVars
  BY <1>8, HandlerSafe DEF asyncVars, fuzzerVars, scanVars, rowVars
<1> QED
  BY <1>1, <1>2, <1>3, <1>4, <1>5, <1>6, <1>7, <1>8 DEF AsyncNext

-----------------------------------------------------------------------------
(* What a saved session may have passed                                    *)

\* Task w's match is not in the report's transaction yet.
Unwritten(w) ==
  \/ pc[w] = "queue"
  \/ pc[w] = "write" /\ job.task = w /\ job.state \in {"running", "failed"}

\* A match that is not durable is in the open transaction, or on its way there with
\* the task that still holds its path.
MatchesOnTheirWay ==
  ~abandoned =>
    \A p \in owed : p \in rows \/ \E w \in Workers : held[w] = p /\ Unwritten(w)

\* What the executor wrote after the flush belongs to a task that waits for the menu.
FlushedRowsHeld == menu = "flushed" => \A p \in rows : \E w \in Workers : held[w] = p

CInv == ~ahead /\ MatchesOnTheirWay /\ FlushedRowsHeld

LEMMA AsyncInitCInv == AsyncInit => CInv
BY DEF AsyncInit, CInv, MatchesOnTheirWay, FlushedRowsHeld

\* Steps of the main thread and of AsyncFuzzer.start move no row and no path.
LEMMA LoopKeepsRows ==
  ASSUME CInv, menu' # "flushed", UNCHANGED <<held, pc, job, rows, owed, abandoned, ahead>>
  PROVE  CInv'
BY DEF CInv, MatchesOnTheirWay, FlushedRowsHeld, Unwritten

LEMMA MainStepKeepsRows ==
  ASSUME AInv, CInv, MainStep \/ WakeTimeout PROVE CInv'
<1>1. CASE LeaveDirectory
  <2>1. /\ menu' = "off" /\ ~ahead'
        /\ owed' = owed \cap rows /\ rows' = rows
    BY <1>1 DEF LeaveDirectory, Loop, menuVars, CInv
  <2> QED
    BY <2>1 DEF CInv, MatchesOnTheirWay, FlushedRowsHeld
<1>2. CASE BeginDirectory \/ WakeAnswered \/ WakeDone \/ WakeTimeout \/ Ended
  <2>1. /\ menu' # "flushed" /\ UNCHANGED vars
        /\ UNCHANGED <<pc, job, rows, owed, abandoned, ahead>>
    BY <1>2 DEF BeginDirectory, WakeAnswered, WakeDone, WakeTimeout, Ended, Loop, menuVars,
                fuzzerVars, rowVars
  <2>2. UNCHANGED held
    BY <2>1 DEF vars
  <2> QED
    BY <2>1, <2>2, LoopKeepsRows
<1> QED
  BY <1>1, <1>2 DEF MainStep

LEMMA FuzzerStepKeepsRows ==
  ASSUME AInv, CInv, FuzzerStep PROVE CInv'
<1>1. menu' # "flushed" /\ UNCHANGED vars /\ UNCHANGED <<job, rows, owed, abandoned, ahead>>
  BY DEF FuzzerStep, SetupDone, SetupRaises, GatherDone, GatherRaises, Drained, Fuzz, Loop,
         menuVars, rowVars
<1>2. UNCHANGED held
  BY <1>1 DEF vars
<1>3. CASE SetupDone
  <2>1. \A w \in Workers : ~Unwritten(w)
    BY <1>3 DEF AInv, TasksBelongToGather, SetupDone, Stopped, Unwritten
  <2> QED
    BY <1>1, <2>1 DEF CInv, MatchesOnTheirWay, FlushedRowsHeld
<1>4. CASE SetupRaises \/ GatherDone \/ GatherRaises \/ Drained
  <2>1. UNCHANGED pc
    BY <1>4 DEF SetupRaises, GatherDone, GatherRaises, Drained
  <2> QED
    BY <1>1, <1>2, <2>1, LoopKeepsRows
<1> QED
  BY <1>3, <1>4 DEF FuzzerStep

\* A step of a task whose match is written, or that has none, disturbs no other's.
LEMMA WrittenTaskSteps ==
  ASSUME CInv, NEW w \in Workers, ~Unwritten(w), menu' = "off",
         UNCHANGED <<rows, owed, abandoned, ahead>>,
         \A v \in Workers \ {w} : held'[v] = held[v] /\ (Unwritten(v) => Unwritten(v)')
  PROVE  CInv'
BY DEF CInv, MatchesOnTheirWay, FlushedRowsHeld

\* A path given back unprocessed is what AsyncCheckpoint excepts.
LEMMA AbandonedSteps ==
  ASSUME CInv, menu' = "off", UNCHANGED ahead, abandoned' PROVE CInv'
BY DEF CInv, MatchesOnTheirWay, FlushedRowsHeld

LEMMA TaskKeepsRows ==
  ASSUME IInv, AInv, CInv, NEW w \in Workers, Task(w) PROVE CInv'
<1>0. menu' = "off" /\ UNCHANGED ahead
  BY DEF Task, TaskClaim, TaskExhausted, Miss, CallbackRaises, Match, SubmitSave, SaveReturns,
         SaveRaises, Cancelled, Step, Loop, menuVars
<1>1. CASE CallbackRaises(w) \/ SaveRaises(w)
  BY <1>0, <1>1, AbandonedSteps DEF CallbackRaises, SaveRaises
<1>2. CASE TaskClaim(w) \/ TaskExhausted(w) \/ Miss(w)
  <2>1. /\ UNCHANGED <<job, rows, owed, abandoned>>
        /\ \A v \in Workers \ {w} : held'[v] = held[v] /\ pc'[v] = pc[v]
        /\ pc[w] \in {"gate", "request"}
    BY <1>2 DEF TaskClaim, TaskExhausted, Miss, Step, rowVars, Claim, Release, vars, IInv,
                TypeOK, AInv
  <2> QED
    BY <1>0, <2>1, WrittenTaskSteps DEF Unwritten
<1>3. CASE Match(w)
  <2>1. /\ UNCHANGED <<job, rows, abandoned>>
        /\ owed' = owed \cup {held[w]}
        /\ pc[w] = "request" /\ pc'[w] = "queue"
        /\ \A v \in Workers \ {w} : pc'[v] = pc[v]
    BY <1>3 DEF Match, Step, AInv
  <2>2. UNCHANGED held
    BY <1>3 DEF Match, vars, Discover
  <2>3. \A v \in Workers : Unwritten(v) => Unwritten(v)'
    BY <2>1 DEF Unwritten
  <2>4. Unwritten(w)'
    BY <2>1 DEF Unwritten
  <2> QED
    BY <1>0, <2>1, <2>2, <2>3, <2>4 DEF CInv, MatchesOnTheirWay, FlushedRowsHeld
<1>4. CASE SubmitSave(w)
  <2>1. /\ UNCHANGED <<rows, owed, abandoned>>
        /\ job = NoJob /\ job' = [task |-> w, state |-> "running"]
        /\ pc'[w] = "write"
        /\ \A v \in Workers \ {w} : pc'[v] = pc[v]
    BY <1>4 DEF SubmitSave, Step, AInv
  <2>2. UNCHANGED held
    BY <1>4 DEF SubmitSave, vars
  <2>3. \A v \in Workers : Unwritten(v) => Unwritten(v)'
    <3>1. job.state = "none"
      BY <2>1 DEF NoJob
    <3> QED
      BY <2>1, <3>1 DEF Unwritten
  <2> QED
    BY <1>0, <2>1, <2>2, <2>3 DEF CInv, MatchesOnTheirWay, FlushedRowsHeld
<1>5. CASE SaveReturns(w)
  <2>1. /\ UNCHANGED <<rows, owed, abandoned>>
        /\ job.task = w /\ job.state = "saved"
        /\ pc[w] = "write"
        /\ \A v \in Workers \ {w} : held'[v] = held[v] /\ pc'[v] = pc[v]
    BY <1>5 DEF SaveReturns, Step, Release, IInv, TypeOK, AInv
  <2>2. ~Unwritten(w)
    BY <2>1 DEF Unwritten
  <2>3. \A v \in Workers \ {w} : Unwritten(v) => Unwritten(v)'
    BY <2>1 DEF Unwritten
  <2> QED
    BY <1>0, <2>1, <2>2, <2>3, WrittenTaskSteps
<1>6. CASE Cancelled(w)
  <2>1. CASE abandoned'
    BY <1>0, <2>1, AbandonedSteps
  <2>2. CASE Step(w, "gate", "cancelled") /\ UNCHANGED <<vars, abandoned>>
    <3>1. /\ UNCHANGED <<job, rows, owed, abandoned, held>>
          /\ \A v \in Workers \ {w} : pc'[v] = pc[v]
          /\ pc[w] = "gate"
      BY <1>6, <2>2 DEF Cancelled, Step, rowVars, vars, AInv
    <3> QED
      BY <1>0, <3>1, WrittenTaskSteps DEF Unwritten
  <2> QED
    BY <1>6, <2>1, <2>2 DEF Cancelled
<1> QED
  BY <1>1, <1>2, <1>3, <1>4, <1>5, <1>6 DEF Task

LEMMA JobKeepsRows ==
  ASSUME AInv, CInv, JobSaves \/ JobFails PROVE CInv'
<1>1. /\ job.state = "running" /\ UNCHANGED <<pc, menu, abandoned, ahead>>
      /\ UNCHANGED vars
  BY DEF JobSaves, JobFails, fuzzerVars, menuVars
<1>2. UNCHANGED held
  BY <1>1 DEF vars
<1>3. job # NoJob /\ job.task \in Workers
  BY <1>1 DEF NoJob, AInv, JobIsAwaited
<1>4. CASE JobFails
  <2>1. UNCHANGED <<rows, owed>> /\ job' = [job EXCEPT !.state = "failed"]
    BY <1>4 DEF JobFails
  <2>2. job'.task = job.task /\ job'.state = "failed"
    BY <2>1 DEF AInv, JobIsAwaited, Jobs
  <2>3. \A v \in Workers : Unwritten(v) => Unwritten(v)'
    BY <1>1, <2>2 DEF Unwritten
  <2> QED
    BY <1>1, <1>2, <2>1, <2>3 DEF CInv, MatchesOnTheirWay, FlushedRowsHeld
<1>5. CASE JobSaves
  <2> DEFINE written == rows \cup {held[job.task]}
  <2>1. \/ rows' = {} /\ owed' = owed \ written
        \/ rows' = written /\ owed' = owed
    BY <1>5 DEF JobSaves
  <2>2. \A v \in Workers : Unwritten(v) => v = job.task \/ Unwritten(v)'
    BY <1>1 DEF Unwritten
  <2>3. MatchesOnTheirWay'
    BY <1>1, <1>2, <2>1, <2>2 DEF CInv, MatchesOnTheirWay
  <2>4. FlushedRowsHeld'
    BY <1>1, <1>2, <1>3, <2>1 DEF CInv, FlushedRowsHeld
  <2> QED
    BY <1>1, <2>3, <2>4 DEF CInv
<1> QED
  BY <1>4, <1>5

\* The only step that writes a session: what is owed is with a task that holds its path.
LEMMA SaveSessionKeepsRows ==
  ASSUME CInv, SaveSession PROVE CInv'
<1>1. ~abandoned => owed \subseteq {held[w] : w \in Workers}
  BY DEF SaveSession, CInv, MatchesOnTheirWay, FlushedRowsHeld
<1>2. ~ahead'
  BY <1>1 DEF SaveSession, CInv
<1>3. menu' = "off" /\ UNCHANGED <<held, pc, job, rows, owed, abandoned>>
  BY DEF SaveSession, Save, Handler
<1> QED
  BY <1>2, <1>3 DEF CInv, MatchesOnTheirWay, FlushedRowsHeld, Unwritten

LEMMA MenuKeepsRows ==
  ASSUME CInv,
         Signal \/ ChooseContinue \/ ChooseNext \/ ChooseSkip \/ ChooseQuit \/ ChooseSave
           \/ SaveFails
  PROVE  CInv'
<1>1. UNCHANGED vars /\ UNCHANGED <<pc, job, abandoned, ahead>>
  BY DEF Signal, ChooseContinue, ChooseNext, ChooseSkip, ChooseQuit, ChooseSave, SaveFails,
         Handler
<1>2. UNCHANGED held
  BY <1>1 DEF vars
<1>3. CASE ChooseSave
  BY <1>1, <1>2, <1>3 DEF ChooseSave, CInv, MatchesOnTheirWay, FlushedRowsHeld, Unwritten
<1>4. CASE Signal \/ ChooseContinue \/ ChooseNext \/ ChooseSkip \/ ChooseQuit \/ SaveFails
  <2>1. menu' # "flushed" /\ UNCHANGED <<rows, owed>>
    BY <1>4 DEF Signal, ChooseContinue, ChooseNext, ChooseSkip, ChooseQuit, SaveFails
  <2> QED
    BY <1>1, <1>2, <2>1, LoopKeepsRows
<1> QED
  BY <1>3, <1>4

LEMMA AsyncNextCInv ==
  ASSUME IInv, AInv, CInv, [AsyncNext]_asyncVars PROVE CInv'
<1>1. CASE UNCHANGED asyncVars
  <2>1. UNCHANGED <<vars, pc, job, rows, owed, abandoned, ahead, menu>>
    BY <1>1 DEF asyncVars, fuzzerVars, rowVars, menuVars
  <2>2. UNCHANGED held
    BY <2>1 DEF vars
  <2> QED
    BY <2>1, <2>2 DEF CInv, MatchesOnTheirWay, FlushedRowsHeld, Unwritten
<1> QED
  BY <1>1, MainStepKeepsRows, FuzzerStepKeepsRows, TaskKeepsRows, JobKeepsRows,
     SaveSessionKeepsRows, MenuKeepsRows DEF AsyncNext, HandlerStep

-----------------------------------------------------------------------------
LEMMA AsyncInvariant == AsyncSpec => [](IInv /\ AInv /\ CInv)
<1>1. AsyncInit => IInv /\ AInv /\ CInv
  BY InitIInv, AsyncInitAInv, AsyncInitCInv DEF AsyncInit
<1>2. IInv /\ AInv /\ CInv /\ [AsyncNext]_asyncVars => (IInv /\ AInv /\ CInv)'
  BY AsyncNextSafe, AsyncNextCInv, NextIInv
<1> QED
  BY <1>1, <1>2, PTL DEF AsyncSpec

\* AsyncFuzzer.task_proc, save_async and handle_pause use the dictionary only in ways
\* that DictionaryClaims allows: the tasks claim and release in turn, and the reset of
\* Controller.start finds no path in flight.
THEOREM AsyncImplementsClaims == AsyncSpec => ImplementsClaims
<1>1. AsyncInit => Init
  BY DEF AsyncInit
<1>2. IInv /\ AInv /\ [AsyncNext]_asyncVars => [Next]_vars
  BY AsyncNextSafe
<1> QED
  BY <1>1, <1>2, AsyncInvariant, PTL DEF AsyncSpec, ImplementsClaims, Spec

\* Once the finally clause of start runs, no save of save_async is in the executor,
\* however the tasks were cancelled.
THEOREM SavesEndFirst == AsyncSpec => []NoLateWrite
<1>1. AInv => NoLateWrite
  BY DEF AInv, NoLateWrite, FuzzerEndsFirst, TasksBelongToGather, JobIsAwaited, Stopped
<1> QED
  BY <1>1, AsyncInvariant, PTL

\* The session that _export writes is never ahead of the report's durable rows, whatever
\* the executor does while the menu is open and however the tasks interleave.
THEOREM SessionsAreNotAhead == AsyncSpec => []AsyncCheckpoint
<1>1. CInv => AsyncCheckpoint
  BY DEF CInv, AsyncCheckpoint
<1> QED
  BY <1>1, AsyncInvariant, PTL

\* What NothingLost says of the dictionary's callers holds of the coroutines: no path is
\* lost or doubled by a cancellation, a skip, a save or a failing callback.
THEOREM AsyncLosesNothing == AsyncSpec => []Conservation
<1>1. IInv => Conservation
  BY DEF IInv
<1> QED
  BY <1>1, AsyncInvariant, PTL

=============================================================================
