-------------------------- MODULE DictionaryClaims --------------------------
(***************************************************************************)
(* Who calls the Dictionary, and what it promises them.                    *)
(*                                                                         *)
(* With the Python request backend several workers (threads of Fuzzer, or  *)
(* tasks of AsyncFuzzer) each hold one claimed path; with the native one,  *)
(* NativeFuzzer.start holds one batch at a time and releases it prefix by  *)
(* prefix, or requeues it.  Callbacks add discovered paths; a session may  *)
(* be saved at any moment and resumed by a later process; the controller   *)
(* resets the queue between directories, once no worker holds a path.      *)
(***************************************************************************)
EXTENDS Dictionary

CONSTANTS
  Workers,         \* threads or tasks of the Python request backend
  NativeRequests,  \* options["request_backend"] == "native"
  ChunkSize,       \* the maximum NativeFuzzer._next_chunk asks for
  NoPath,          \* a worker that holds nothing
  MaxExtra         \* bound: requeues and saves stop growing `extra` beyond this

ASSUME ClaimsAssumption ==
  /\ IsFiniteSet(Workers)
  /\ NativeRequests \in BOOLEAN
  /\ ChunkSize \in Nat \ {0}
  /\ NoPath \notin Paths
  /\ MaxExtra \in Nat

VARIABLES
  held,      \* held[w]: the path worker w has claimed and not released
  batch,     \* list batch of NativeFuzzer, as far as it is not released
  settled,   \* history: how often each path was released since the reset
  accepted,  \* history: how often add_extra queued each path since the reset
  saved      \* the session on disk, with the histories at the time of the save

vars == <<dictVars, held, batch, settled, accepted, saved>>

None == [p \in Paths |-> 0]
Idle == [w \in Workers |-> NoPath]
NoSession ==
  [valid |-> FALSE, state |-> [index |-> 0, extra |-> <<>>, extraIndex |-> 0],
   settled |-> None, accepted |-> None]

Init ==
  /\ DictInit
  /\ held = Idle
  /\ batch = <<>>
  /\ settled = None
  /\ accepted = None
  /\ saved = NoSession

TypeOK ==
  /\ DictTypeOK
  /\ held \in [Workers -> Paths \cup {NoPath}]
  /\ batch \in Seq(Paths)
  /\ settled \in [Paths -> Nat]
  /\ accepted \in [Paths -> Nat]
  /\ saved \in [valid : BOOLEAN, state : DictStates,
                settled : [Paths -> Nat], accepted : [Paths -> Nat]]

-----------------------------------------------------------------------------
(* Python request backend: one path per worker                             *)

Claim(w) ==
  /\ ~NativeRequests
  /\ held[w] = NoPath
  /\ claim_next
  /\ held' = [held EXCEPT ![w] = NextPath]
  /\ UNCHANGED <<batch, settled, accepted, saved>>

Release(w) ==
  /\ held[w] # NoPath
  /\ release_claim(held[w])
  /\ held' = [held EXCEPT ![w] = NoPath]
  /\ settled' = [settled EXCEPT ![held[w]] = @ + 1]
  /\ UNCHANGED <<batch, accepted, saved>>

-----------------------------------------------------------------------------
(* Native request backend: one batch, released in request order            *)

BatchDone == batch = <<>> /\ ~NativeClaimActive

ClaimBatch ==
  /\ NativeRequests
  /\ BatchDone
  /\ claim_native_many(ChunkSize)
  /\ batch' = SubSeq(claimed', Len(claimed) + 1, Len(claimed'))
  /\ UNCHANGED <<held, settled, accepted, saved>>

\* An event or a filtered range of a list batch is done.
ReleaseBatch(count) ==
  /\ count \in 1 .. Len(batch)
  /\ release_claims(SubSeq(batch, 1, count))
  /\ batch' = SubSeq(batch, count + 1, Len(batch))
  /\ settled' = [p \in Paths |->
                   settled[p] + Occurrences(SubSeq(batch, 1, count), p)]
  /\ UNCHANGED <<held, accepted, saved>>

\* The same of a Rust-owned range.
ReleaseRange(count) ==
  /\ release_native_claims(count)
  /\ settled' = [p \in Paths |->
                   settled[p] + Occurrences(SubSeq(NativeOutstanding, 1, count), p)]
  /\ UNCHANGED <<held, batch, accepted, saved>>

\* Pause, cancellation or a failing callback gives the rest of the batch back.
Requeue ==
  /\ NativeRequests
  /\ ~BatchDone
  /\ Len(extra) + Len(claimed) <= MaxExtra
  /\ requeue_claims
  /\ batch' = <<>>
  /\ UNCHANGED <<held, settled, accepted, saved>>

-----------------------------------------------------------------------------
(* Either backend                                                          *)

\* A callback of a response found `path`, or crawl_target before the first claim.
Discover(path) ==
  /\ add_extra(path)
  /\ accepted' = IF Accepts(path) THEN [accepted EXCEPT ![path] = @ + 1]
                                  ELSE accepted
  /\ UNCHANGED <<held, batch, settled, saved>>

\* SessionStore.save, at any point of the scan.
Save ==
  /\ saved' = [valid |-> TRUE, state |-> getstate,
               settled |-> settled, accepted |-> accepted]
  /\ UNCHANGED <<dictVars, held, batch, settled, accepted>>

\* A later process starts from the session: no claim survives.
Resume ==
  /\ saved.valid
  /\ Len(saved.state.extra) <= MaxExtra
  /\ setstate(saved.state)
  /\ held' = Idle
  /\ batch' = <<>>
  /\ settled' = saved.settled
  /\ accepted' = saved.accepted
  /\ UNCHANGED saved

\* Controller.start leaves the directory once its workers have stopped.
NextDirectory ==
  /\ held = Idle
  /\ reset
  /\ batch' = <<>>
  /\ settled' = None
  /\ accepted' = None
  /\ UNCHANGED <<held, saved>>

Next ==
  \/ \E w \in Workers : Claim(w) \/ Release(w)
  \/ ClaimBatch
  \/ \E count \in 1 .. ChunkSize : ReleaseBatch(count) \/ ReleaseRange(count)
  \/ Requeue
  \/ \E p \in Paths : Discover(p)
  \/ Save
  \/ Resume
  \/ NextDirectory

Spec == Init /\ [][Next]_vars

-----------------------------------------------------------------------------
(* Properties                                                              *)

\* Every occurrence of a wordlist entry, and every accepted discovery, is at
\* any time exactly one of: released, claimed by a worker, part of the
\* outstanding native range, or still queued.  After a resume the same holds
\* of what the saved session recorded, so a resumed scan repeats what was in
\* flight at the save, loses no path and doubles none.
Conservation ==
  \A p \in Paths :
    Occurrences(Wordlist, p) + accepted[p] = settled[p] + Outstanding(p)

\* add_extra queues a discovered path once per directory, across a save and a
\* resume, and never one the wordlist has anyway.
DiscoveredOnce ==
  \A p \in Paths : accepted[p] + AtMost(1, Occurrences(Wordlist, p)) <= 1

\* The release a worker owes never raises: its path is among the claims once
\* for every worker that holds it, and the native batch is a prefix of them.
ReleaseNeverFails ==
  /\ \A p \in Paths :
       Cardinality({w \in Workers : held[w] = p}) <= Occurrences(claimed, p)
  /\ IsPrefix(batch, claimed)

-----------------------------------------------------------------------------
(* The inductive strengthening of the properties                           *)

\* The two backends never mix: native claims are the batch and nothing else.
OneBackend ==
  IF NativeRequests THEN held = Idle /\ batch = claimed
                    ELSE batch = <<>> /\ nativeClaim = NoClaim

HeldAreClaimed ==
  \A p \in Paths :
    Cardinality({w \in Workers : held[w] = p}) <= Occurrences(claimed, p)

\* The session on disk owes a resumed scan exactly what was not released.
SavedConservation ==
  saved.valid =>
    /\ SavedStateOK(saved.state)
    /\ \A p \in Paths :
         Occurrences(Wordlist, p) + saved.accepted[p]
           = saved.settled[p] + StateOutstanding(saved.state, p)

\* Why a discovery is never accepted twice: the membership index knows every
\* accepted path, the queue keeps what the index knows, so a session does too.
AcceptedOnce(counts, members) ==
  \A p \in Paths :
    counts[p] > 0 =>
      counts[p] = 1 /\ p \in members /\ p \notin ToSet(Wordlist)

DiscoveryInv ==
  /\ AcceptedOnce(accepted, extraMembership)
  /\ extraMembership \subseteq ToSet(extra)
  /\ AcceptedOnce(saved.accepted, ToSet(saved.state.extra))

IInv ==
  /\ TypeOK
  /\ RangeInFlight
  /\ OneBackend
  /\ HeldAreClaimed
  /\ Conservation
  /\ SavedConservation

=============================================================================
