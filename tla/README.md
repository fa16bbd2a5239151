# A TLA+ verification of dirsearch

dirsearch scans web targets for paths: a *controller* walks over targets and
directories, a *fuzzer* sends the paths of a *dictionary* through a *requester*
and hands responses to filters and callbacks, which write *reports*, queue
discovered paths and directories, and may end the scan; CTRL+C pauses it, shows a
menu and may save a *session* from which a later process resumes. This project
models the parts of that machinery where concurrency, interruption and failure
meet, and the algorithms the two engines (Python and Rust) must agree on. TLC
checks them on small instances; TLAPS proves the central results for every size.

## The system

| Part | State it keeps | Operations | Hard behaviour |
| --- | --- | --- | --- |
| Dictionary (`lib/core/dictionary.py`) | position in the wordlist, queue of discovered paths, claims in flight, native range | claim, release, requeue, add, snapshot, restore, reset | snapshots while paths are in flight; partial release, requeue and re-claim |
| Wordlist generation (`lib/core/wordlist_backend.py`, `wordlist_template.py`, `native/src/wordlist.rs`) | the list being built | read, expand, extend, alter, change case, limit | two implementations of one function |
| Threaded fuzzer (`lib/core/fuzzer.py`, `Fuzzer`) | threads, play and quit events, pause semaphore, first exception | start, pause, play, quit, stop, `thread_proc` | pause handshake, exceptions of callbacks, timeouts |
| Native fuzzer (`NativeFuzzer`) | native scan, batch, events | start, pause, quit, chunk processing | claims in Rust, cancellation |
| Async fuzzer (`AsyncFuzzer`) | tasks, semaphore, play event | start, pause, quit, `task_proc` | cancellation at every await, rows written by an executor |
| Controller (`lib/controller/controller.py`) | targets, directories, passed URLs, error counters | run, start, process, handle_pause, callbacks | a signal handler between any two steps of the main thread |
| Session store (`lib/controller/session.py`) | checkpoint and legacy files | save, load, list, delete | a process that ends between two file operations |
| Structured reports (`lib/report/factory.py`) | report, journal, counters | initiate, save, flush, finish | a failed or interrupted write at every point |
| SQL reports, report manager | connection, uncommitted rows | save, flush, finish | batching of commits |
| Rate limiter (`lib/connection/rate_limiter.py`, `native/src/pacing.rs`) | reservations of the last second | wait, rate | competing workers, edges of the window |
| Requesters (`lib/connection/requester.py`), native HTTP stack (`native/src/transport.rs`, `raw_client.rs`, `proxy.rs`, `session.rs`) | retries, raw target, cookies, authentication caches, clients | request, redirect, challenge | what must stay with one hop, one origin, one connection |
| Native engine (`native/src/scan.rs`) | workers, result chunks, cancellation | scan, next chunk, cancel | completion out of order |
| Responses, filters, wildcard scanners (`lib/connection/response.py`, `lib/core/filters.py`, `fuzzer.py`, `scanner.py`, `lib/utils/diff.py`, `native/src/filters.rs`, `result.rs`) | counters of repeated responses, profiles | capture, filter, calibrate, compare | a copy of the filters in Rust; counters shared by threads; truncated bodies |
| Response stores, options, crawling, terminal | mostly sequential | | |

Threads share the dictionary (its own lock), the controller's directories
(`recur`'s lock), the reports (a lock per report), the filters' counters
(`_filter_state_lock`), the rate limiter, the authentication caches and the
events. The signal handler runs on the main thread, so the main thread stands
still while the workers go on. Components interact through calls and callbacks
only; the session and report files are what processes share.

What makes each part correct: the dictionary neither loses nor doubles a path;
a pause is a pause; a checkpoint is consistent with itself and with the rows on
disk; nothing is reset under a live worker; a scan ends; over several processes
everything queued is requested, once; a report keeps every saved row through any
failure; the rate limit holds in every window; credentials, cookies and raw
targets stay where they belong; the Rust copy of an algorithm decides as the
Python one.

## Modules

| Module | Models | Extends |
| --- | --- | --- |
| `Dictionary` | `Dictionary`: its state and every operation, each atomic under its lock | |
| `DictionaryClaims` | the callers of the dictionary: workers, native batches, discovery, save, resume | `Dictionary` |
| `WordlistGeneration` | both wordlist generators and the set of paths they promise | |
| `Fuzzer` | `Fuzzer`: events, semaphore, the steps of `thread_proc` | `Dictionary` |
| `ThreadedScan` | `Controller.start`, `process`, `handle_pause`, `_export`, the callbacks, with the threads and SQLite's batching | `Fuzzer` |
| `AsyncScan` | `AsyncFuzzer`, `start_coroutines`, `save_async` and its executor, `handle_pause` | `DictionaryClaims` (and refines it) |
| `EngineCall` | what one chunked call of the Rust engine promises its caller | |
| `ResultChunks` | `deliver_result_chunks`, `run_scan_worker`, `CompletionWriter`, `OrderedChunkBuffer` | instance of `EngineCall` |
| `NativeFuzzer` | `NativeFuzzer` and the cancellation of `NativeHTTPBackend`: the worker thread and the operations of other threads | `Dictionary`, `EngineCall` |
| `NativeScan` | `start_native_fuzzer`, the deadline timer, `handle_pause` with the native worker | `NativeFuzzer` |
| `SessionStore` | session directories: checkpoint, legacy files, migration, deletion | |
| `TargetLoop` | `Controller.run`, `setup`, `_import`, error limit, recursion, menu and force quit over several processes | `SessionStore` |
| `ReportLog` | what a report promises: an append-only durable log | |
| `StructuredReport` | `StructuredFileReportMixin`: journal, snapshot, recovery, failures, restarts | instance of `ReportLog` |
| `RateLimiter` | `RequestRateLimiter` | |
| `RequestLoop` | one logical request of any backend: limiter, attempts, redirects | `RateLimiter` |
| `PythonRequester`, `NativeTransport` | what requests and httpx, or the Rust transport, send in an attempt and how they judge a reply | `RequestLoop` |
| `HttpRequests` | the workers of one backend | both |
| `HttpResponse` | what is kept of an answer: capture, truncation, decoding, comparison | |
| `ResponseFilters` | `is_excluded` without its counters, and its Rust copy | `HttpResponse` |
| `WildcardScanner` | wildcard profiles, `DynamicContentParser`, the redirect pattern | `ResponseFilters` |
| `ResponsePipeline` | from the server's answers to the findings, with the shared counters | `WildcardScanner` |
| `DictionaryLemmas`, `*Proofs` | proofs: the lemmas about the dictionary's operators, and one module per part or pair of parts | |
| `MC*` | TLC instances | |

Definitions keep the names of the code where TLA+ allows it (`claim_next`,
`requeue_claims`, `has_same_body`). Definitions whose name ends in a suffix after
an underscore and that no action uses (`reset_in_place`, `Expired_early`) are
plausible mistakes, kept to show that the properties detect them.

### Dictionary and DictionaryClaims

Every method body holds `_lock`, so each is one action; errors (`StopIteration`,
`ValueError`, `RuntimeError`) are disabled actions, and `ReleaseNeverFails` says
that the callers never meet the ones that must not occur. The wordlist is a constant
sequence with duplicates allowed. `settled` and `accepted` are history variables:
how often each path was released and accepted since the directory began.
`Conservation` relates them to the queue through `Outstanding`; because the
saved session carries its histories, it also says what a resumed scan owes.

### WordlistGeneration

A line is a sequence of tokens: the characters the code looks for and words. The
One word is outside ASCII, since `\w` and `is_word_character` disagree about it, and
one token is a separator at which `splitlines()` ends a line and `lines()` does not;
each generator reads the file by its own rule (`get_lines`). The Python generator and
the Rust one are translated separately, each in the order in
which its code expands placeholders, adds extensions, removes duplicates, adds
prefixes and suffixes, changes case and counts against the limit. `Promised` is
the reference: the same thing as sets, without any order but one: of the two kinds
of placeholder, the one that comes first in a line is given its values first
(`SubFirst`), since a value may itself look like the other one. The scans over lines
and lists are recursive functions over positions (`Search`, `Substitution`,
`TemplateNames`, `Renders`, `Wordlists`), which the proofs unfold step by step.

### Fuzzer and ThreadedScan

A thread's `pc` names the points of `thread_proc` between which other threads can
be seen: the claim, the request, the two halves of `match_callback` (recursion,
then crawling), the report, the release, the recording of an exception, the look
at the play event, the announcement on the semaphore and the wait, the look at
the quit event. `Event.set` wakes every waiter at once, which is what
`threading.Event` does even if the event is cleared before a waiter runs. The
main thread is at one of the points of `Controller.start`; a `Signal` may arrive
at any of them, and the menu's answers either return there or raise there, which
leaves the `try` block through the `finally` clause, or the `finally` clause
itself. A directory's number of requests, the content of responses and which
callback raises are nondeterministic: `Match` may queue a directory, `Crawl` a path,
and `CallbackRaises` then end the callbacks before the rest (a replayed request, or
the report, whose row is then unwritten or in a transaction that did not commit).
Report rows reach the file when a batch is
full, at a flush, or at the end; a save may fail. After an exit (`quit`, `failed`)
the process ends; after a skipped target its threads may live on, which is modelled.

### AsyncScan

Coroutines and the signal handler share one thread, so a step is what the loop runs
from one await to the next, and nothing but the executor moves while the menu is
open. Cancelling a task takes effect at its await; `save_async` shields the
executor's job and goes on awaiting it through any number of cancellations, so a
cancelled task leaves that await only when its job has ended. The first task that
raises decides the fuzzer's result; what later ones raise the second gather, which
drains them, only returns (`Raises`). `phase` distinguishes the ways `start_coroutines`
ends. An answer given between two directories reaches a `pause_future` that is
already done, which raises; the model goes to `broken`, as the process does.

### EngineCall and ResultChunks

A Tokio task's `pc` names the points of `run_scan_worker` between which the
cancellation flag or the shared completions can change; storing a result and
setting its flag are two steps. The coordinator's select, its look at the flag,
`take_ready` and the callback are one step each; `take_ready` is atomic because
flags are only ever set and each result is stored before its flag. The call is
one lifetime of the buffer: `Enter` may refuse it, `Leave` lowers the flag.
`answer` and `delivered` are histories, and `lowered` remembers that the flag was
withdrawn after a worker had left on it; it is part of the contract because it
decides whether the call may end with paths missing and no cancellation in sight.

### NativeFuzzer and NativeScan

The worker thread is inside at most one engine call, so `NativeFuzzer` extends
`EngineCall` and drives it: `DeliverChunk`, `ScanEnds` and `EngineWorkerStops`
are the engine's choices, the rest are the steps of `NativeFuzzer.start` and
`_process_native_chunk` between which another thread's change of an event can be
seen. Generations of cancellation are kept only as "consumed or not".
`quit` runs in the main thread or in the timer thread, one event per step, so
two of them may interleave. `handle_pause` runs on the main thread while it is
in the `try` clause of `start_native_fuzzer`; a signal during the winding-down
after it is not modelled. `processed` is a history: how often each path has been
settled in the directory. `gaveUp` records that some pause timed out, which the
code only warns about; several properties hold only without it.

### SessionStore and TargetLoop

The store's files are modelled one by one: a save writes the checkpoint atomically
and then removes the four legacy files, a deletion removes file after file, and
the process may end between any two. `newest` and `doomed` are histories of what
was saved last and of which deletions began.

`TargetLoop` follows one scan over several processes. `ctl` is what a session
serialises (targets left, directories, passed URLs, position, error counters),
`hist` what the properties compare it with: requests sent, directories given up, and
for the current target how many requests failed since it last answered (`streak`)
and whether what it answered was a request for a word (`spoke`). The streak is not
the counter: `crawl_target`'s answer and a new target end the one and leave the other
as it is. A directory is one request after another; what concurrent
workers do within one is the business of the three scan modules. The loop is that
of the synchronous modes. Each process either starts afresh or loads a session;
a fresh start is possible only while no checkpoint has been saved, since a second
scan would only repeat the first. The menu's save is a program of its own inside
whatever the main thread was doing (`menu`: "saving" until the checkpoint is
written, then "migrating" until the legacy files are gone), so a save chosen while
the deletion of a finished session is interrupted writes that session again before
the deletion goes on. A second CTRL+C within the window
counts towards the force quit; `Crash` ends a process anywhere.

### StructuredReport

Each write (header, entry, commit record, snapshot, removal) is a step; each may
fail, and between any two the process may end (`Restart`). The hash by which
journal and report recognise each other is the content itself, so equal contents
have equal hashes and a row may be saved twice. An append is all or nothing, as
`append_private_text` intends with its rollback.

### RateLimiter, RequestLoop, PythonRequester, NativeTransport, HttpRequests

`_reserve` runs under its lock and reads the clock there, so it is one action.
Time is a natural number; `Window` and `Poll` are the two intervals in ticks. A
logical request passes the limiter once and then makes its attempts; a message on
the wire is the record `req[w]`, and the properties are about what it carries: the
raw target, the configured Cookie, an Authorization value. The server, the proxy and
the HTTP libraries' redirect following are the environment. Python keeps the raw
target in a thread-local or a request extension; Rust arms a cookie override that
the first hop takes, answers a Digest challenge once and then pre-empts it from a
cache shared by all workers (`AnswerFails` is a challenge that cannot be answered or
a cache whose lock a panic has poisoned), and runs the NTLM exchange on a client of the worker's
own. Wire formats are left out, and so is what requests and httpx do with the header
fields and credentials they are configured with: of a Python request `HopScope` says
only where the raw target goes.

### HttpResponse, ResponseFilters, WildcardScanner, ResponsePipeline

An answer is a record of the few header fields the code reads and a body of the
bytes it tells apart: letters, a volatile value, the reflected path, a space, a line
end, a separator (white space for Python, part of a word for Rust), a control byte,
an invalid byte. Each engine's capture (chunks, truncation at
`MAX_RESPONSE_SIZE`, text or binary, `Content-Length`, decoding) is a definition of
its own. `response_fingerprint`'s size class and prefix are abstracted to the words
of the normalised body; regular expressions are literals, so the dialects of
Python's and Rust's engines are not compared. The setup of a profile replaces the path wherever it stands
(`MarkedAtSetup`), `classify` only where no word character follows it
(`MarkedByClassify`, `replace_path`). Texts longer than `AmbiguousMaxLength` are never
ambiguous. difflib is external: a common subsequence and a ratio chosen freely, 100 only for equal texts.

## Runs

| Run | Properties | Bounds | States |
| --- | --- | --- | --- |
| `dictionary_native` | `Conservation`, `DiscoveredOnce`, `ReleaseNeverFails` | one native worker, wordlist `<<a, b, a>>`, one discoverable and one invalid path, batches of 2, `MaxExtra` 4 | 107 thousand |
| `scan` | `ClaimsIntact`, `PauseSound`, `CheckpointSound`, `DrainedAtFinish`, `ScanEnds` | 2 threads, 1 path and its link, both leading to 1 subdirectory, commit batch 2, `Failures` skip and error, deadlines and timeouts, 1 signal | 1.2 million |
| `native_scan` | `ScanAccounts`, `PauseQuiescent`, `ContinueSound`, `CheckpointExact`, `TargetEnds` | 2 paths and a link, batches of 2, 1 calibration request, 2 directories, a deadline, 1 signal | 516 thousand |
| `async_scan` | `AsyncCheckpoint`, `NoLateWrite`, `ImplementsClaims`, `AsyncEnds` | 2 tasks, 2 paths and a link, commit batch 2, 2 directories, 1 signal | 449 thousand |
| `result_chunks` | `DeliveredExact`, `ImplementsCall`, `CallReturns` | 2 workers, 3 requests, chunks of 2, the flag raised and lowered without limit | 271 thousand |
| `targets` | `NothingLost`, `NothingRepeated`, `SessionSound`, `ErrorsEarned` | 2 targets, 2 start directories of which one is refused (excluded or too deep), 1 found directory, 1 word, 1 session directory left by an earlier release, 1 tolerated error, 2 signals, 2 processes | 2.6 million |
| `report` | `Recoverable`, `NeverDisappeared`, `FlushedMeansPublished`, `ImplementsLog` | 2 distinct rows, 4 saves | 6 thousand |
| `requests` | `WindowBound`, `SleepsForward`, `HopScope`, `OwnConnection`, `NonceCounts`, `RequestsEnd` | 2 workers, 3 paths (2 with Digest), 1 retry, 2 redirects, 2 nonces, 0 or 2 proxies, rate 1 per window of 2 ticks, each of 5 backends | 492 thousand |
| `responses` | `NativeFilterSound`, `MatchesBounded`, `SameBodySound`, `ProfileMatchesItself` | 2 threads, up to 4 answers, bodies of up to 5 bytes of which 4 are kept, 15 filter and 4 counter configurations | 85 thousand |
| `wordlist` | `GeneratesExactly`, `BackendsAgree` | up to 2 lines out of 25, 10 configurations | 26 thousand |

In `scan` no thread raises the exception of a quit: until the end of the process it
does what the other errors do, and the menu's quit is checked anyway. One signal
means one pause, so a token that an earlier pause left behind does not occur there.
The safety properties are proved for every choice of `Failures` and any number of
signals.

Two threads suffice for the races that involve a thread and the main thread or
two threads; with a path and its link, a thread finds the queue empty while
another is about to refill it, and both may report the same directory. Three
requests in chunks of two give a full chunk, a forced one and a completion out of
order. Batches of two from two paths and a link give a Rust-owned range, its
partial release and requeue, and a list batch; the second directory meets the
events the first one left. `MaxExtra` stops requeues and resumes from growing
`extra` for ever. Four saves let an entry be saved before, between and after two
compactions. Two targets and two processes let an error count, a skipped target and
a saved position reach the next of each; the legacy directory is migrated by the
first save. Two nonces let a challenge overtake a cached one; with rate 1 and two
workers one is always refused, and `MaxTime` 0 lets the clock run only while one
sleeps, which is when it matters. In `responses` one more equal answer arrives than
each threshold allows, and bodies are one byte longer than what is kept. Two lines
are what duplicates and the limit need; a longer list repeats the same loop.
`SYMMETRY` over threads is used in `responses`, which has no liveness property.

`CHECK_DEADLOCK FALSE` is said where the model stops when the work is done
(`async_scan`, `targets`, `requests`).

Two runs are expected to fail; each states what the repository says and shows
that the code differs:

- `checkpoint_durable` (`CheckpointDurable`): the session can be saved after a
  pause that timed out, while threads still run, and is then ahead of the committed
  rows. `CheckpointSound` is what holds: a session saved from a sound pause is
  consistent with itself and with the rows on disk.
- `resume_blacklists` (`BlacklistsApplied`): a process that resumes a session never
  reads the blacklist files, which only `setup` does.

### Conditions in the properties

Several properties carry a condition that stands for something the code does:

- `PauseSound`: a pause that timed out leaves the late thread's token in the
  semaphore, and the next pause may return `True` too early; the property is stated
  for the pauses before that and without a recorded exception.
- `ContinueSound`: when a callback keeps the engine's coordinator busy for longer
  than `NATIVE_PAUSE_TIMEOUT`, `[c]ontinue` withdraws a cancellation on which Rust
  workers have already left, and the call ends with "native chunk delivery stopped
  after ...", which `Controller.run` does not catch.
- `NothingLost`, `NothingRepeated`: `Gap` names the points at which a saved session
  does not keep its place: inside the loop over `subdirs`, between the end of a
  directory and its removal from the list, in `run`'s except clause, and before the
  reset of the dictionary. A scan resumed from there repeats or loses requests.
- `ErrorsEarned`: `crawl_target`'s answer and a new target leave `consecutive_errors`
  as it is. Until its first answer to a word a target therefore pays for what failed
  before it: after one target is given up, each later one is given up at its first
  failing request unless it has answered a request for a word by then. The property claims the two things
  that do hold: nobody is given up too late, and nobody that has answered a request
  for a word is given up too early.
- `NativeFilterSound`: `ReadsDiffer` names a header sent twice, invalid bytes in a
  binary body and the separators 0x1c to 0x1f, which the two sides read differently.
- `ProfileMatchesItself`: `RegexExact`; when one redirect is a prefix of the other,
  `generate_matching_regex` makes a pattern that misses its own input. `MarkedAlike`;
  `generate_redirect_regex` describes step 3 as the replacement that it makes itself,
  but `classify` makes it with `replace_path`. Where a word character follows the
  reflected path (first path `abc/`, redirect `/abc/login`), the pattern holds the mark
  and the redirect does not, and the profile calls its own first answer unique.
- `BackendsAgree`: `HiddenTag`; in `%word%ext%` the Python pattern spends the first
  `%` of `%ext%` on another name, the Rust generator does not. Lines with a separator
  that ends them for `splitlines()` alone. `Foreign`; a base outside ASCII before a
  dot, which Python's `\w` takes for the start of a name with an extension and Rust's
  `is_word_character` does not.
- `NonceCounts`: a server may issue a nonce again, which starts its count again.
- `ScanAccounts`, `PauseQuiescent`, `ContinueSound`, `CheckpointExact`: `gaveUp`, after
  a pause of the native worker that timed out nothing is claimed. For `ContinueSound`
  this exempts the very failure described above; what it shows is that the events and
  cancellations of one pause or directory never reach the next.

Three more behaviours are part of the models without being a property's condition:
`[n]ext` during `Fuzzer.start` is undone by its `_quit_event.clear()`; `[n]ext` while
the native worker calibrates cancels the calibration request, and the resulting
exception abandons the whole target; an answer that raises during `stop` skips
the wait for the threads, so the dictionary may be reset under live ones.

### Fairness

`scan` assumes weak fairness of every thread, of the main thread and of the
handler: requests have timeouts, so a thread is never stuck in one for ever; the
operating system schedules all threads; the user answers the menu. Nothing is
assumed of signals, exceptions and deadlines (`--max-time`): the target is left
without them. `native_scan` assumes the
same of the worker thread, the main thread, the handler and a `quit` that has
begun; `async_scan` of every task the event loop has ready, of the fuzzer's and the
main coroutine, of the executor's job and of the handler. `requests` assumes that
workers run (an attempt is answered or times out) and that time passes.
`result_chunks` assumes that Tokio runs every task and the coordinator, that the
callback returns or raises, and strong fairness of joining a worker that has
left: `select` picks among ready branches at random, so the tickers do not win
for ever. Nothing is assumed of cancellations and panics.

## Proofs

All of these hold for every value of the constants that satisfies the named
assumptions, which fix types, exclude zero sizes and number the workers:
`ClaimsAssumption`, `DictionaryAssumption`, `FuzzerAssumption`, `LoopAssumption`,
`LinesAssumption`, `NativeFuzzerAssumption`, `OptionsAssumption`, `PipelineAssumption`, `RateAssumption`, `RequestAssumption`,
`ResultChunksAssumption`, `ScanAssumption`, `ScenarioAssumption`, `SessionAssumption`,
`SizesAssumption`, `WorkerAssumption`. `LinesAssumption` and `OptionsAssumption` give
the lines, extensions, prefixes and suffixes their types and the limit a value of at
least 1, as the command line does. `ScenarioAssumption` says what a server may
answer: any bodies and header tags, and a declared length that is not below what
arrives, as a client reads no further, unless the body is encoded.
`SessionAssumption` says that the value standing for "no session" is not a payload,
and that `LegacySession` is the payload `Legacy`.

- `AsyncScanProofs`, first part, about `DictionaryClaims`: `TypeCorrect`,
  `NothingLost`, `ReleaseSafe`, `DiscoveriesQueuedOnce`. The inductive invariant
  `IInv` adds to `Conservation` that a native range ends at `index`
  (`RangeInFlight`), that the two backends never mix (`OneBackend`), that claims
  cover what workers hold (`HeldAreClaimed`), and the same conservation law for the
  saved session (`SavedConservation`). Without the last, a resume could not be shown
  to preserve anything. `DiscoveryInv` adds that an accepted path is in the set of
  known extras, in memory and in the saved session, which is what the test in
  `add_extra` relies on. `DictionaryLemmas` counts occurrences in concatenations,
  subsequences and after removals.
- `ThreadedScanProofs`: `ThreadsFindTheirClaims`, `PausesAreSound`,
  `DirectoriesAreDrained`, `CheckpointsAreSound`, in layers, each resting on the one
  before. `Placement` and `ThreadState` say which combinations of main thread, menu
  and thread can occur; `ClaimsHeld` that the claims are exactly, as a bag, what the
  threads hold; `Draining` that while the queue is not empty some thread will look
  for work again, which a thread that refills it still does; `Announced` is the pause
  handshake. It counts: the tokens in the semaphore and the live threads the pause
  has passed are together at most the threads that have stopped, so a pause that has
  passed all of them finds none working and leaves no token. `RowsKnown` says that a
  row is written only after its directory is queued, and that a save from a sound
  pause reads the directories with no row uncommitted.
- `NativeScanProofs`: `ScanAccountsHolds`, `PauseQuiescentHolds`,
  `ContinueSoundHolds`, `CheckpointExactHolds`, and `ScanStates` for the states that
  are left after a pause timed out. The strengthening `IInv` has two halves.
  `ControlPlaced` says who is where and why: which threads run when
  (`ThreadsPlaced`), whether the engine has a call and what it covers
  (`CallPlaced`), that a cancellation is explained by a quit or by a pause being
  made (`CancelPlaced`), and that a worker parked under a cleared play event goes on
  only when the handler or a quit sets it (`Handshake`), which is `PauseQuiescent`.
  The other half is about work: `ClaimsPlaced` and `ChunkPlaced` say what the worker
  holds at each of its steps, either nothing or the batch from its cursor on, as a
  range or as single paths (`BatchHeld`), so that `Accounted`, the conservation law
  of the queue, survives results skipped by a stop. All of it is under `~gaveUp`: a
  handler that stops waiting for the worker opens the menu while the worker still
  runs, of which the code only warns, and then none of these properties is
  claimed; `gaveUp` never becomes false again. How claims, releases
  and requeues change the count of a path comes from `DictionaryLemmas`. TLC checked
  `IInv` on the instance of `native_scan`, with the Rust and the Python queue, two
  signals and every failure of the engine.
- `TargetLoopProofs`: `SessionsSurvive`, `ErrorLimitEarned`, `RequestsSentOnce`,
  `EverythingRequested`. `Located`, `Removing` and `Kept` follow the files of a
  session through save, migration and deletion; `Counting` says, of the process and of
  every saved payload, that the error counter has every failure of the target's own
  streak, and nothing more once the target has answered a request for a word, which
  makes each decision right on both sides. `Conserved` says, unless the session was saved in a
  gap, that every directory to be scanned is complete, given up, queued, or still
  to be queued by this or a later target (`Covered`), and that of the queued ones
  only the first has requests, those before the index (`Recorded`, `Progress`). It
  is stated by phase (`Placed`, `Ahead`), because between two assignments of `run` a
  directory is in both of two places or in neither, and again for every saved
  payload (`Resumable`), since a resume continues from there.
- `NativeEngineProofs`, first part, about `ResultChunks`: `ChunksAreExact`, and
  `CallKeepsItsContract`, the refinement of `EngineCall`. `GivenOut` says of every index taken from the counter that its flag
  is set, or that one worker holds it, or that some worker left early; `Filed` that
  an actionable result is in the map from before its flag is set until the
  coordinator has read the flag; `Buffered` that queue and delivered results are the
  actionable ones of their ranges, in order; `Drained` that the coordinator drains
  after the last worker, with a withdrawn cancellation if one of them left early.
  The lemmas show that `refresh_ready` and `pop_front` stop where they should, and
  that a set of indexes has a queue in request order. The step that matters in the
  refinement is the end of a short drain: with every worker exhausted the first
  index whose flag is not set would be held by nobody, so a worker did leave early,
  and then `Drained` says that its cancellation was withdrawn.
- `NativeEngineProofs`, second part, about `WordlistGeneration`: `GeneratesExactlyHolds` and
  `BackendsAgreeHolds`, for any lines, subjects and configurations (the latter but for
  the lines named above). The invariant
  `GeneratedFromLines` only says that what a backend generated is what its generator
  makes of the lines read; the work is in the generators. Their recursive functions
  are unfolded by `RunExists`: induction over `0..n` is stated of a set of numbers
  (`Steps`), which needs no operator parameter. For `GeneratesExactly`: placeholders
  are named once each, in the order they are first seen (`NamesInOrder`), a round of
  substitution gives every rendering every value (`RenderedOnce`), the lists of
  renderings, entries and altered paths have the members the sets have
  (`RenderedExactly`, `PathsExactly`, `AlterExact`), and the limited set keeps each
  path once and refuses exactly when there are more than the limit (`CollectStep`).
  For `BackendsAgree`: a line without a separator is one line for both readers
  (`LinesOfLines`), a placeholder is found only where it is written
  (`FoundIsWritten`), `replace_case_insensitive` and the product over one placeholder
  make the same lines, both tests for excluded extensions agree (`ValidAlike`), and
  both recognisers of an extension, the regular expression and the Rust loop over
  suffixes of the line, accept exactly the lines that end, but for a `~`, with a
  word, a dot and a word in ASCII (`RegexIsDotted`, `RustIsDotted`).
- `AsyncScanProofs`, second part: `AsyncImplementsClaims` shows that every step is one that
  `DictionaryClaims` allows or leaves the dictionary alone, so `AsyncLosesNothing`
  (`Conservation` of an asynchronous scan) follows from the theorem above. `AInv`
  relates tasks to what they hold: a task holds a path exactly while it runs
  (`HoldsWhileRunning`), tasks live only inside the fuzzer's gather
  (`TasksBelongToGather`), the fuzzer ends before its directory is left
  (`FuzzerEndsFirst`), and the executor's job has a task that awaits it
  (`JobIsAwaited`), which gives `SavesEndFirst`. `CInv` adds that a match
  that is not durable is in the open transaction or with a task that still holds
  its path (`MatchesOnTheirWay`), and that rows written after the flush of a save
  belong to paths still held (`FlushedRowsHeld`), which gives `SessionsAreNotAhead`.
- `HttpRequestsProofs`: `RateIsBounded`, `NeverSpins` for the limiter alone (the
  reservations in memory are the latest ones, and every discarded one has left the
  window). `RequestsUseLimiter` shows that the backends implement
  `RateLimiter`, so `RequestRateIsBounded` follows. `HInv` says of every request
  that the parts that would put a credential, a cookie or a raw target on a hop
  were given up before that hop (`Scoped`), and of the Digest cache that its count
  is above every answer sent with its nonce (`Counted`); `ScopeIsKept` and
  `NoncesCount` follow, `ConnectionsAreOwn` from the numbering of clients.
- `FindingProofs`, first part, about `ResponsePipeline`: `FindingsAreBounded`,
  `BodiesComparedWhole`, `NativeFiltersHideNothing`, for any number of threads and
  any answers. `RepeatsCounted` says that for every fingerprint the findings
  reported, together with the threads between the two critical sections that may
  still report one, were counted, and are fewer than the threshold; a thread
  that finds the counter at the threshold is past it for good. Bodies: the capture
  is a function over the chunks, and `EveryPrefixKept` follows it chunk by chunk (the
  first chunk after which it failed would contradict `ChunkAdded`): until it stops,
  what is kept or digested is the part of the body read so far; when it calls itself
  complete, that is the whole of it. `RInv` says that every answer in use came from
  the server through such a capture. Filters: the two sides evaluate the same checks
  on views that agree (`SameText`, `SameHeaders`) unless `ReadsDiffer`.
- `FindingProofs`, second part: four invariants of `StructuredReport` and
  `ReportImplementsLog`. The invariant says that every commit record announces a prefix of the journal, that
  the report is such a prefix, that counters agree with the files, and what each
  pending write may rely on; then what a recovery yields is the journal's base
  followed by its entries, and only the append of an entry changes that.

TLC checked each strengthening as an invariant of the run of its module before it
was proved. Two attempts failed for a good reason and corrected the models: the
save of a session during its interrupted deletion was modelled as part of the
deletion, and two `CASE` expressions (`load`, and the exceptions of the target loop)
had guards that overlap, which TLC resolves by order and TLA+ does not.

Only model-checked:

- `ProfileMatchesItself`. A profile may be the one of another scanner whose first
  answer had the same body, and whether that body reads the same then depends on
  answers of one server with equal bodies having one charset, which holds of the
  scenarios but is not something the code ensures; besides, the profile is built with
  `SelectSeq` and difflib's result, of which the provers know nothing.
- Liveness under fairness (`ScanEnds`, `TargetEnds`, `AsyncEnds`, `RequestsEnd`,
  `CallReturns`), and ENABLED.

## Not modelled

- Wire formats: HTTP parsing, TLS, NTLM messages, decompression, SOCKS. Address
  overrides (by host in Python, by host and port in Rust), the closing of pools, the
  routing of proxies.
- `NativeDelayPacer`'s lanes: a per-worker delay without shared state to check.
- Response stores: one locked append or one file per match; the callback
  (`save_response`) catches `OSError` and `ValueError` and reports them, so that a
  scan does not see the failure. Line reports: one append per row.
- Options and command line, the Python API, crawling and parsing, terminal output,
  packaging: sequential code without state that outlives a call.
- Torn journal lines (an append whose rollback fails too, a power loss).
- MySQL's and PostgreSQL's reconnection; several reports at once.
- What daemon threads do between the end of the controller and the end of the
  process. Signals while a process starts, and while `start_native_fuzzer` waits for
  its timer and worker.

`PROJECT.json` lists every part and every hazard, with the ones no property covers.

## Plan

Done: the dictionary and its callers, the three kinds of scan, the engine call, the
loop over targets and processes with the session store, the structured report, the
request backends with the rate limiter, responses and their filters, wordlist
generation; proofs for the dictionary, the three kinds of scan, the engine call, the
target loop, the requests, the limiter, the responses with their filters, the report
and the wordlist generators.

1. `NativeScan` as a refinement of `DictionaryClaims`, like `AsyncScan`.
2. SQL reports with reconnection; response stores.
3. URL and path normalisation and crawling, against reference definitions.
