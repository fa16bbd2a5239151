----------------------------- MODULE Dictionary -----------------------------
(***************************************************************************)
(* The work queue of a scan: lib/core/dictionary.py, class Dictionary.     *)
(*                                                                         *)
(* The wordlist is consumed through `index`; dynamically discovered paths  *)
(* wait in `extra`, consumed through `extraIndex`.  A path handed to a     *)
(* worker stays recoverable in `claimed` (or, for a Rust-owned range of    *)
(* the corpus, in `nativeClaim`) until its worker releases it.  Every      *)
(* method body runs under Dictionary._lock, so each is one atomic step.    *)
(*                                                                         *)
(* This module holds the component's state and operations; the modules     *)
(* that extend it (DictionaryClaims, Fuzzer, ...) say who calls them.      *)
(***************************************************************************)
EXTENDS Integers, FiniteSets, Sequences, SequencesExt

CONSTANTS
  Paths,         \* every path a wordlist, a crawl or a backup rule can name
  ValidPaths,    \* the paths is_valid_path accepts
  Wordlist,      \* self._items after generate(): a sequence, duplicates allowed
  NativeCorpus   \* generate() returned a NativeWordlistCorpus, not a list

ASSUME DictionaryAssumption ==
  /\ ValidPaths \subseteq Paths
  /\ Wordlist \in Seq(Paths)
  /\ NativeCorpus \in BOOLEAN

VARIABLES
  native,          \* isinstance(self._items, NativeWordlistCorpus)
  index,           \* self._index
  extra,           \* self._extra
  extraIndex,      \* self._extra_index
  extraMembership, \* self._extra_membership
  claimed,         \* self._claimed
  nativeClaim      \* self._native_claim

dictVars ==
  <<native, index, extra, extraIndex, extraMembership, claimed, nativeClaim>>

-----------------------------------------------------------------------------
(* State                                                                   *)

\* _NativeClaim: a range of the corpus and how much of it is released.  A
\* claimed range is never empty, so size 0 stands for None.
NoClaim == [start |-> 0, size |-> 0, released |-> 0]
NativeClaims == [start : Nat, size : Nat, released : Nat]
NativeClaimActive == nativeClaim.size > 0

DictInit ==
  /\ native = NativeCorpus
  /\ index = 0
  /\ extra = <<>>
  /\ extraIndex = 0
  /\ extraMembership = {}
  /\ claimed = <<>>
  /\ nativeClaim = NoClaim

\* The value __getstate__ returns; the items themselves are a constant here.
DictStates == [index : Nat, extra : Seq(Paths), extraIndex : Nat]

DictTypeOK ==
  /\ native \in BOOLEAN
  /\ index \in 0 .. Len(Wordlist)
  /\ extra \in Seq(Paths)
  /\ extraIndex \in 0 .. Len(extra)
  /\ extraMembership \in SUBSET Paths
  /\ claimed \in Seq(Paths)
  /\ nativeClaim \in NativeClaims

\* What the queue has not handed out yet, in the order it will hand it out.
PendingExtra == SubSeq(extra, extraIndex + 1, Len(extra))
PendingItems == SubSeq(Wordlist, index + 1, Len(Wordlist))

\* The part of a claimed corpus range that is not released.
NativeOutstanding ==
  SubSeq(Wordlist, nativeClaim.start + nativeClaim.released + 1,
                   nativeClaim.start + nativeClaim.size)

Occurrences(seq, path) == Cardinality({i \in 1 .. Len(seq) : seq[i] = path})

\* How often a path is still owed a scan: claimed, in the native range, queued.
Outstanding(path) ==
  Occurrences(claimed, path) + Occurrences(NativeOutstanding, path)
    + Occurrences(PendingExtra, path) + Occurrences(PendingItems, path)

\* The same of a saved state, where nothing is claimed.
StateOutstanding(state, path) ==
  Occurrences(SubSeq(state.extra, state.extraIndex + 1, Len(state.extra)), path)
    + Occurrences(SubSeq(Wordlist, state.index + 1, Len(Wordlist)), path)

\* A claimed range ends where the corpus has been consumed to ("no later
\* corpus claim can exist"), and is not yet released to its end.
RangeInFlight ==
  \/ nativeClaim = NoClaim
  \/ /\ nativeClaim.released < nativeClaim.size
     /\ nativeClaim.start + nativeClaim.size = index

\* The states __getstate__ can return.
SavedStateOK(state) ==
  /\ state \in DictStates
  /\ state.index \in 0 .. Len(Wordlist)
  /\ state.extraIndex \in 0 .. Len(state.extra)

Exhausted == extraIndex >= Len(extra) /\ index >= Len(Wordlist)

-----------------------------------------------------------------------------
(* Claiming                                                                *)

\* Discovered paths have priority over the wordlist.
NextPath ==
  IF extraIndex < Len(extra) THEN extra[extraIndex + 1] ELSE Wordlist[index + 1]

\* StopIteration (no step) when the queue is exhausted.
claim_next ==
  /\ ~Exhausted
  /\ claimed' = Append(claimed, NextPath)
  /\ IF extraIndex < Len(extra)
       THEN extraIndex' = extraIndex + 1 /\ index' = index
       ELSE index' = index + 1 /\ extraIndex' = extraIndex
  /\ UNCHANGED <<native, extra, extraMembership, nativeClaim>>

AtMost(a, b) == IF a <= b THEN a ELSE b

\* The paths claim_many(maximum) returns: extras first, then wordlist items.
ManyExtras(maximum) == AtMost(maximum, Len(extra) - extraIndex)
ManyItems(maximum) == AtMost(maximum - ManyExtras(maximum), Len(Wordlist) - index)
ManyPaths(maximum) ==
  SubSeq(extra, extraIndex + 1, extraIndex + ManyExtras(maximum))
    \o SubSeq(Wordlist, index + 1, index + ManyItems(maximum))

claim_many(maximum) ==
  /\ maximum > 0
  /\ extraIndex' = extraIndex + ManyExtras(maximum)
  /\ index' = index + ManyItems(maximum)
  /\ claimed' = claimed \o ManyPaths(maximum)
  /\ UNCHANGED <<native, extra, extraMembership, nativeClaim>>

\* The native corpus hands out either queued extras, through the Python claim
\* list, or one Rust-owned range.  (RuntimeError when a range is still active.)
ClaimExtras(maximum) ==
  /\ ManyExtras(maximum) > 0
  /\ extraIndex' = extraIndex + ManyExtras(maximum)
  /\ claimed' = claimed
       \o SubSeq(extra, extraIndex + 1, extraIndex + ManyExtras(maximum))
  /\ UNCHANGED <<native, index, extra, extraMembership, nativeClaim>>

ClaimRange(maximum) ==
  LET item_count == AtMost(maximum, Len(Wordlist) - index)
  IN  /\ ManyExtras(maximum) = 0
      /\ item_count > 0
      /\ index' = index + item_count
      /\ nativeClaim' = [start |-> index, size |-> item_count, released |-> 0]
      /\ UNCHANGED <<native, extra, extraIndex, extraMembership, claimed>>

claim_native_many(maximum) ==
  /\ maximum > 0
  /\ ~NativeClaimActive
  /\ ~Exhausted
  /\ \/ ~native /\ claim_many(maximum)
     \/ native /\ (ClaimExtras(maximum) \/ ClaimRange(maximum))

-----------------------------------------------------------------------------
(* Releasing                                                               *)

\* ValueError (no step) unless the range is claimed and long enough.
release_native_claims(count) ==
  /\ count > 0
  /\ NativeClaimActive
  /\ nativeClaim.released + count <= nativeClaim.size
  /\ nativeClaim' =
       IF nativeClaim.released + count = nativeClaim.size
         THEN NoClaim
         ELSE [nativeClaim EXCEPT !.released = @ + count]
  /\ UNCHANGED <<native, index, extra, extraIndex, extraMembership, claimed>>

\* list.remove: the first occurrence goes; ValueError (no step) if absent.
release_claim(path) ==
  /\ path \in ToSet(claimed)
  /\ claimed' = RemoveFirst(claimed, path)
  /\ UNCHANGED <<native, index, extra, extraIndex, extraMembership, nativeClaim>>

\* An out-of-order batch drops the first occurrences its Counter asks for.
WithoutBatch(seq, paths) == FoldLeft(RemoveFirst, seq, paths)

\* A batch taken from the wrong end of the claims.
release_claims_from_end(paths) ==
  /\ paths # <<>>
  /\ \A p \in ToSet(paths) : Occurrences(paths, p) <= Occurrences(claimed, p)
  /\ claimed' = SubSeq(claimed, 1, Len(claimed) - Len(paths))
  /\ UNCHANGED <<native, index, extra, extraIndex, extraMembership, nativeClaim>>

\* ValueError (no step) when some path of the batch is not claimed.
release_claims(paths) ==
  /\ paths # <<>>
  /\ \A p \in ToSet(paths) : Occurrences(paths, p) <= Occurrences(claimed, p)
  /\ claimed' = IF IsPrefix(paths, claimed)
                  THEN SubSeq(claimed, Len(paths) + 1, Len(claimed))
                  ELSE WithoutBatch(claimed, paths)
  /\ UNCHANGED <<native, index, extra, extraIndex, extraMembership, nativeClaim>>

\* requeue_claims that rewinds a partly released range to its start.
requeue_claims_from_start ==
  /\ extra' = SubSeq(extra, 1, extraIndex) \o (claimed \o PendingExtra)
  /\ claimed' = <<>>
  /\ index' = IF NativeClaimActive THEN nativeClaim.start ELSE index
  /\ nativeClaim' = NoClaim
  /\ UNCHANGED <<native, extraIndex, extraMembership>>

\* Outstanding claims are available again, in their order, before the rest.
requeue_claims ==
  /\ extra' = SubSeq(extra, 1, extraIndex) \o (claimed \o PendingExtra)
  /\ claimed' = <<>>
  /\ index' = IF NativeClaimActive
                THEN nativeClaim.start + nativeClaim.released
                ELSE index
  /\ nativeClaim' = NoClaim
  /\ UNCHANGED <<native, extraIndex, extraMembership>>

-----------------------------------------------------------------------------
(* Snapshot, restore, discovery, reset                                     *)

\* __getstate__ that saves the queue without the paths still being scanned.
getstate_without_claims ==
  [index |-> IF NativeClaimActive
               THEN nativeClaim.start + nativeClaim.released
               ELSE index,
   extra |-> extra,
   extraIndex |-> extraIndex]

\* __getstate__: outstanding claims are written back as queued work.
getstate ==
  [index |-> IF NativeClaimActive
               THEN nativeClaim.start + nativeClaim.released
               ELSE index,
   extra |-> SubSeq(extra, 1, extraIndex) \o (claimed \o PendingExtra),
   extraIndex |-> extraIndex]

\* __setstate__ that leaves the membership index empty.
setstate_without_membership(state) ==
  /\ native' = FALSE
  /\ index' = state.index
  /\ extra' = state.extra
  /\ extraIndex' = state.extraIndex
  /\ extraMembership' = {}
  /\ claimed' = <<>>
  /\ nativeClaim' = NoClaim

\* __setstate__: the corpus comes back as a Python list, nothing is claimed.
setstate(state) ==
  /\ native' = FALSE
  /\ index' = state.index
  /\ extra' = state.extra
  /\ extraIndex' = state.extraIndex
  /\ extraMembership' = ToSet(state.extra)
  /\ claimed' = <<>>
  /\ nativeClaim' = NoClaim

Accepts(path) ==
  /\ path \in ValidPaths
  /\ path \notin ToSet(Wordlist)
  /\ path \notin extraMembership

\* A path that is invalid, in the wordlist or already queued changes nothing.
add_extra(path) ==
  /\ IF Accepts(path)
       THEN /\ extra' = Append(extra, path)
            /\ extraMembership' = extraMembership \cup {path}
       ELSE UNCHANGED <<extra, extraMembership>>
  /\ UNCHANGED <<native, index, extraIndex, claimed, nativeClaim>>

reset ==
  /\ index' = 0
  /\ extra' = <<>>
  /\ extraIndex' = 0
  /\ extraMembership' = {}
  /\ claimed' = <<>>
  /\ nativeClaim' = NoClaim
  /\ UNCHANGED native

=============================================================================
