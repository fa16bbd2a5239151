-------------------------- MODULE StructuredReport --------------------------
(***************************************************************************)
(* JSON, XML and HTML reports: StructuredFileReportMixin of                *)
(* lib/report/factory.py.                                                  *)
(*                                                                         *)
(* A row is appended to a journal beside the report; flush (also finish)   *)
(* replays the journal into a new snapshot of the report, in three writes: *)
(* a commit record that announces the snapshot, the snapshot, the removal  *)
(* of the journal.  Any of them may fail, and the process may be killed    *)
(* between any two.  initiate() of the next process decides from the two   *)
(* files which rows the snapshot already has.                              *)
(*                                                                         *)
(* A report's content is its sequence of rows; the hash by which journal   *)
(* and report recognise each other is the content itself.                  *)
(***************************************************************************)
EXTENDS Integers, Sequences, FiniteSets

CONSTANTS
  Rows,
  MaxRows  \* bound: rows ever saved

ASSUME ReportAssumption == MaxRows \in Nat

VARIABLES
  report,   \* the rows of the report file; an absent file is created empty
  journal,  \* the journal file: its header's base, its results and commits
  state,    \* _report_states[file]: base, entries and applied entries
  step,     \* the write that the running operation is about to make
  row       \* the row being saved

vars == <<report, journal, state, step, row>>

Contents == Seq(Rows)

NoJournal == [exists |-> FALSE, base |-> <<>>, entries |-> <<>>, commits |-> {}]

\* A process that has not called initiate has no state.
NoState == [known |-> FALSE, base |-> <<>>, entries |-> 0, applied |-> 0]
Fresh(content) == [known |-> TRUE, base |-> content, entries |-> 0, applied |-> 0]

Init ==
  /\ report = <<>>
  /\ journal = NoJournal
  /\ state = NoState
  /\ step = "idle"
  /\ row = <<>>

TypeOK ==
  /\ report \in Contents
  /\ journal \in [exists : BOOLEAN, base : Contents, entries : Contents,
                  commits : SUBSET [entries : Nat, report : Contents]]
  /\ \A c \in journal.commits : c.entries <= Len(journal.entries)
  /\ state \in [known : BOOLEAN, base : Contents, entries : Nat, applied : Nat]
  /\ step \in {"idle", "header", "append", "commit", "snapshot", "remove"}
  /\ row \in Contents

-----------------------------------------------------------------------------
(* _read_journal                                                           *)

\* The commits that announced the snapshot now in the report file.
Matching == {c \in journal.commits : c.report = report}

\* ValueError (no step of initiate or _compact) unless the two belong together.
Consistent == report = journal.base \/ Matching # {}

\* A match that takes the last snapshot for the only one: none is applied.
Applied_none == 0

\* How many journal entries the report already has: the largest match.
Applied ==
  IF report = journal.base
    THEN 0
    ELSE CHOOSE n \in 0 .. Len(journal.entries) :
           /\ \E c \in Matching : c.entries = n
           /\ \A c \in Matching : c.entries <= n

\* The content after replaying the entries that are not applied.
Replayed == report \o SubSeq(journal.entries, Applied + 1, Len(journal.entries))

Recovered == IF journal.exists THEN Replayed ELSE report

ReadState ==
  [known |-> TRUE, base |-> journal.base,
   entries |-> Len(journal.entries), applied |-> Applied]

AllApplied == Applied = Len(journal.entries)

-----------------------------------------------------------------------------
(* initiate                                                                *)

\* Without a journal, or with one that is fully applied and can be removed.
InitiateFresh ==
  /\ ~state.known
  /\ journal.exists => Consistent /\ AllApplied
  /\ state' = Fresh(report)
  /\ journal' = NoJournal
  /\ UNCHANGED <<report, step, row>>

\* With pending entries, or a journal that cannot be removed.
InitiatePending ==
  /\ ~state.known
  /\ journal.exists
  /\ Consistent
  /\ state' = ReadState
  /\ UNCHANGED <<report, journal, step, row>>

-----------------------------------------------------------------------------
(* save_entry                                                              *)

Idle == state.known /\ step = "idle"

Disappeared == ~journal.exists /\ (state.entries > 0 \/ state.applied > 0)

\* _append_journal_record: a missing journal gets its header first.
Save(entry) ==
  /\ Idle
  /\ Len(Recovered) < MaxRows
  /\ ~Disappeared
  /\ row' = <<entry>>
  /\ step' = IF journal.exists THEN "append" ELSE "header"
  /\ UNCHANGED <<report, journal, state>>

WriteHeader ==
  /\ step = "header"
  /\ journal' = [NoJournal EXCEPT !.exists = TRUE, !.base = state.base]
  /\ step' = "append"
  /\ UNCHANGED <<report, state, row>>

\* The entry is durable, and counted.
AppendEntry ==
  /\ step = "append"
  /\ journal' = [journal EXCEPT !.entries = @ \o row]
  /\ state' = [state EXCEPT !.entries = @ + 1]
  /\ step' = "idle"
  /\ row' = <<>>
  /\ UNCHANGED report

-----------------------------------------------------------------------------
(* _compact, for flush and finish                                          *)

\* Nothing is pending: the journal is removed.
CompactApplied ==
  /\ Idle
  /\ journal.exists
  /\ Consistent
  /\ AllApplied
  /\ journal' = NoJournal
  /\ state' = Fresh(report)
  /\ UNCHANGED <<report, step, row>>

\* The counters take the snapshot for written.
CompactRead_counted ==
  /\ Idle
  /\ journal.exists
  /\ Consistent
  /\ state' = [ReadState EXCEPT !.applied = Len(journal.entries)]
  /\ step' = IF AllApplied THEN "idle" ELSE "commit"
  /\ UNCHANGED <<report, journal, row>>

\* Entries are pending, or the journal cannot be removed: what the file says
\* replaces the counters.
CompactRead ==
  /\ Idle
  /\ journal.exists
  /\ Consistent
  /\ state' = ReadState
  /\ step' = IF AllApplied THEN "idle" ELSE "commit"
  /\ UNCHANGED <<report, journal, row>>

\* The snapshot is written without its announcement.
AppendCommit_skipped ==
  /\ step = "commit"
  /\ step' = "snapshot"
  /\ UNCHANGED <<report, journal, state, row>>

AppendCommit ==
  /\ step = "commit"
  /\ journal' = [journal EXCEPT !.commits =
                   @ \cup {[entries |-> state.entries, report |-> Replayed]}]
  /\ step' = "snapshot"
  /\ UNCHANGED <<report, state, row>>

WriteSnapshot ==
  /\ step = "snapshot"
  /\ report' = Replayed
  /\ state' = [state EXCEPT !.applied = state.entries]
  /\ step' = "remove"
  /\ UNCHANGED <<journal, row>>

\* The journal goes, but the counters keep describing it.
RemoveJournal_counted ==
  /\ step = "remove"
  /\ journal' = NoJournal
  /\ step' = "idle"
  /\ UNCHANGED <<report, state, row>>

RemoveJournal ==
  /\ step = "remove"
  /\ journal' = NoJournal
  /\ state' = Fresh(report)
  /\ step' = "idle"
  /\ UNCHANGED <<report, row>>

-----------------------------------------------------------------------------
(* Failure                                                                 *)

\* OSError: an atomic write leaves the old file, a failed append is rolled
\* back, a failed removal leaves the journal.  The operation ends.
WriteFails ==
  /\ step # "idle"
  /\ step' = "idle"
  /\ row' = <<>>
  /\ UNCHANGED <<report, journal, state>>

\* The process ends, or is killed, between two writes.
Restart ==
  /\ state.known
  /\ state' = NoState
  /\ step' = "idle"
  /\ row' = <<>>
  /\ UNCHANGED <<report, journal>>

Next ==
  \/ InitiateFresh \/ InitiatePending
  \/ \E entry \in Rows : Save(entry)
  \/ WriteHeader \/ AppendEntry
  \/ CompactApplied \/ CompactRead
  \/ AppendCommit \/ WriteSnapshot \/ RemoveJournal
  \/ WriteFails
  \/ Restart

Spec == Init /\ [][Next]_vars

-----------------------------------------------------------------------------
(* Properties                                                              *)

Log == INSTANCE ReportLog WITH log <- Recovered

\* The report implements a durable log: what the next initiate and finish will
\* publish grows by exactly the saved row, and no failed write, compaction or
\* restart loses, repeats or reorders a row.
ImplementsLog == Log!LogSpec

\* initiate never has to refuse the two files ("Structured report and journal
\* are inconsistent"), wherever the process that wrote them was interrupted.
Recoverable == journal.exists => Consistent

\* The counters in memory never claim a journal that is not there ("Structured
\* report journal disappeared"), so a flush that follows can succeed.
NeverDisappeared == state.known => ~Disappeared

\* When the counters say that everything is applied, the report file alone has
\* every row: a checkpoint taken after a successful flush relies on that.
FlushedMeansPublished ==
  Idle /\ state.entries = state.applied => report = Recovered

-----------------------------------------------------------------------------
(* The inductive strengthening of the properties                           *)

\* What the journal says was saved, from its base on.
Whole == journal.base \o journal.entries

\* Every commit record announces a prefix of that.
CommitsArePrefixes ==
  \A c \in journal.commits : c.report = journal.base \o SubSeq(journal.entries, 1, c.entries)

\* Memory agrees with the journal.
MemoryAgrees ==
  state.known => /\ state.applied <= state.entries
                 /\ IF journal.exists THEN state.entries = Len(journal.entries)
                                      ELSE state = Fresh(report)

\* What the pending write may rely on.
StepReady ==
  /\ step # "idle" => state.known
  /\ step = "header" => ~journal.exists
  /\ step \in {"append", "commit", "snapshot", "remove"} => journal.exists
  /\ step \in {"header", "append"} => \E entry \in Rows : row = <<entry>>
  /\ step = "snapshot" =>
       \E c \in journal.commits : c.report = Whole /\ c.entries = Len(journal.entries)
  /\ step = "remove" => report = Whole

\* The counter of applied entries is right whenever an operation may begin.
AppliedAgrees ==
  state.known /\ journal.exists /\ state.applied = state.entries => report = Whole

IInv ==
  /\ TypeOK
  /\ (~journal.exists => journal = NoJournal)
  /\ CommitsArePrefixes
  /\ Recoverable
  /\ MemoryAgrees
  /\ StepReady
  /\ AppliedAgrees

=============================================================================
