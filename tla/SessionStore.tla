---------------------------- MODULE SessionStore ----------------------------
(***************************************************************************)
(* The session directories of lib/controller/session.py.  A session is one *)
(* checkpoint file, replaced atomically; directories written by earlier    *)
(* releases hold four files instead and are migrated by the next save.     *)
(* Every removal of a file is a step of its own, so that a process may end *)
(* between any two of them.                                                *)
(***************************************************************************)
EXTENDS Sequences, SequencesExt, FiniteSets

CONSTANTS
  Stores,         \* session paths the user may name
  LegacyStores,   \* the ones that an earlier release has left
  NoSession,      \* what load raises UnpicklingError for
  LegacySession   \* the payload an earlier release left in its four files

VARIABLES
  store,     \* store[s]: the checkpoint and the legacy files of directory s
  removing,  \* file names _delete_session_files has yet to remove
  newest,    \* history: newest[s] is the payload last written to s
  doomed     \* history: the sessions whose deletion has begun

storeVars == <<store, removing, newest, doomed>>

\* SessionStore.FILES, in the order in which its values are removed.
FILES == <<"meta", "controller", "dictionary", "options">>

StoreInit ==
  /\ store = [s \in Stores |-> [checkpoint |-> NoSession,
                                legacy |-> IF s \in LegacyStores THEN ToSet(FILES) ELSE {}]]
  /\ removing = <<>>
  /\ newest = [s \in Stores |-> IF s \in LegacyStores THEN LegacySession ELSE NoSession]
  /\ doomed = {}

\* A load that prefers the files of an earlier release.
load_legacy(s) ==
  IF store[s].legacy = ToSet(FILES) THEN LegacySession ELSE store[s].checkpoint

\* The checkpoint if there is one, otherwise all of the files it replaced.
load(s) ==
  IF store[s].checkpoint # NoSession \/ store[s].legacy # ToSet(FILES)
    THEN store[s].checkpoint
    ELSE LegacySession

\* What can be summarised; the dictionary of a legacy session is not opened.
_summarize_session_dir(s) ==
  \/ store[s].checkpoint # NoSession
  \/ {"meta", "controller", "options"} \subseteq store[s].legacy

\* list_sessions: a directory with a checkpoint or a meta file, if it can be
\* summarised.
listed(s) ==
  /\ store[s].checkpoint # NoSession \/ "meta" \in store[s].legacy
  /\ _summarize_session_dir(s)

\* save: the checkpoint first, the files it supersedes afterwards.
WriteCheckpoint(s, payload) ==
  /\ store' = [store EXCEPT ![s].checkpoint = payload]
  /\ newest' = [newest EXCEPT ![s] = payload]
  /\ doomed' = doomed \ {s}
  /\ removing' = FILES

\* delete removes the same files and the checkpoint last.
delete(s) ==
  /\ removing' = Append(FILES, "checkpoint")
  /\ doomed' = doomed \cup {s}
  /\ UNCHANGED <<store, newest>>

\* One turn of _delete_session_files; a missing file is no error.
RemoveFile(s) ==
  /\ removing # <<>>
  /\ store' = IF Head(removing) = "checkpoint"
                THEN [store EXCEPT ![s].checkpoint = NoSession]
                ELSE [store EXCEPT ![s].legacy = @ \ {Head(removing)}]
  /\ removing' = Tail(removing)
  /\ UNCHANGED <<newest, doomed>>

=============================================================================
