# godocs in TLA+

Models of the godocs server (Go, SQLite, local file storage), the TLC
configurations that check them and the proofs that TLAPS checks. Paths below
are relative to the repository; line numbers are in `PROJECT.json` ("map").

## 1. The system

| Component | State | Operations | Talks to |
|---|---|---|---|
| Document service (`internal/document`) | none of its own | Create, Get, Update, Delete, MarkStatus, RequeuePending, List | repository, blobs, cache, indexer |
| Document repository (`internal/db/repo.go`) | `documents` table | one statement per method, over a pool of one connection | SQLite |
| Blob storage (`internal/storage`) | files below the root | Save, Open, Delete | file system |
| TTL cache (`internal/cache`) | map of entries with an expiry | Get, Set, Delete, janitor | - |
| Index worker pool (`internal/worker`) | buffered channel, closed flag, wait group, workers | Enqueue, Start, loop, Shutdown | document service (MarkStatus) |
| Accounts and sessions (`internal/auth`, `internal/db/auth_repo.go`) | `users` and `sessions` tables | Register, Login, Authenticate, Logout, PurgeExpired | SQLite |
| Rate limiter (`internal/httpx/ratelimit.go`) | a token bucket per address | allow, cleanupLoop | - |
| Process (`cmd/api/main.go`) | phase, signal context, shutdown deadline | boot, recovery, serve, two-stage shutdown, hourly sweep | all of the above |
| Database and migrations (`internal/db/sqlite.go`) | connection pool, `schema_migrations` table | Open, Migrate | SQLite, other processes on the same file |
| HTTP helpers and middleware (`internal/httpx`) | one `statusRecorder` per request, the limiters' buckets | CORS, WithRequestID, WithLogging, WithRecover, RateLimit, WithTimeout, RequireAuth | router, access log |
| Configuration (`internal/config`) | none | Load | environment |
| Ids, logging, front end | none that lasts | - | - |

An upload saves the file, inserts a `pending` row and offers the id to the
queue. A worker marks the row `ready`, or `failed` when that fails. Reads fill
the cache; PATCH, DELETE and the worker write the row and then invalidate the
entry. A restart re-offers every pending row before the server listens. A
shutdown first waits for the requests, then closes the queue and waits for the
workers, both under one deadline.

What is hard here:

- **Interleaving.** A database statement, a cache call, a file call and a queue
  call are atomic (one connection, a mutex, a system call, a lock); a request or
  a worker is several of them, and all requests and workers overlap. What makes
  it correct: a row has its file, a document is processed once, a status settles
  once, and where one of these gives way the cause is known.
- **Failure.** Statements fail, or take effect and report that their context is
  over, which the caller cannot tell from a failure; unlinks fail, the process
  is killed or exits past its deadline. Table and files survive, queue and cache
  do not.
- **Ordering.** Migrations and recovery before serving; save before insert; row
  before file on deletion; HTTP before workers on shutdown; close after the last
  send; the order of the middleware, which a panic unwinds.
- **Time.** Expiry in whole seconds against instants; time stamps read before a
  lock and used after it; one deadline for two stages; how old a cached answer
  can be.
- **Numbers.** Two upload limits that count different things, a reader that must
  see one byte too many, megabytes shifted to bytes in an int64.

The hazards, at their lines, and the properties that watch them are in
`PROJECT.json` ("hazards").

## 2. The modules

| Module | Models | State and actions |
|---|---|---|
| `DocumentService` | document service, repository, storage, cache, what workers do to documents, `run()` | `rows` is the table, `blobs` the files, `cache`, `jobs`, `work` and `req` the goroutines, `doubtful` (a ghost) the rows whose INSERT reported an error, `phase`/`scan`/`signalled`/`late` where `run()` is. One action per statement, cache call, file call or queue call: a request's `pc` names the call it makes next |
| `DocumentLifecycle` | abstract: what happens to one document's status | `Upload`, `Index`, `Retract`, `Keep`, `Remove`; `unsure` is a ready that was reported as an error |
| `Indexer` | the worker pool at the grain of its RWMutex | each `Enqueue` and `Shutdown` call step by step, announcing and acquiring of the write lock apart, channel close, wait group |
| `JobPool` | abstract: accept or refuse, take in order, handle once, report drained | `Accept`, `Refuse`, `Begin`, `Finish`, `Stop`, `ReportDrained` |
| `Sessions` | accounts, sessions, the gate, the sweep | tables `accounts` and `sessions`, a clock of `Second` ticks to the second, one action per statement |
| `Uploads` | the bytes of an upload: body limit, sniffed head, limited reader, `Local.Save` step by step, row, compensation, deletion, download | `up` is where each upload's handler is; `name` is the directory entry processes see, `disk` the one on the medium; `len`, `synced` the content; `rows` keeps the size; one action per system call or statement |
| `TTLCache` | one key of the cache under a clock, with its readers, writers and janitor | `entry` is the map's entry, `reader` the `Service.Get` calls in three steps (copy, load, fill), `owing` the writers that have not invalidated yet, `scan` the time the janitor has read; `ended` (when each version was overwritten) and `answer` are ghosts |
| `Config` | `config.Load` as a function over integers of `Width` bits | `Load`, `Accepted` |
| `Startup` (on `Config`) | `run()` up to the listener, for several processes on one database file: configuration, Open, Migrate | `pc`, `files`, `at` per process; `applied` and `effects` are the database, `writer` and `done` the open transaction |
| `Server` (on `Startup`) | the middleware chain and the gates of the routes, for one request at a time in a process that has come up there | `req.at` is the layer, `req.way` the direction (in, handler, out, panic, abort); `tokens` the two buckets of a client |
| `RateLimit` | one client's token bucket | time read before the lock (`stamp`), bucket (`tokens`, `last`), cleanup in two steps (`cutoff`); `credit` is the ghost the bound is stated with |
| `DocumentServiceProofs`, `DocumentProcessProofs`, `IndexerProofs`, `SessionsProofs`, `UploadsProofs`, `TTLCacheProofs`, `ServerProofs`, `RateLimitProofs` | theorems; `DocumentProcessProofs` goes on from `DocumentServiceProofs`, `ServerProofs` is about `Config` and `Startup` too | - |
| `MC...` | instances for TLC: symmetry sets, environments | - |

`DocumentService` takes Enqueue and idx.Shutdown as one step each; `Indexer`
justifies that: `ImplementsJobPool` shows that behind the lock an offer is one
step that appends when the pool is open and has room and otherwise refuses,
and that closing is one step.

It also takes `Save`, the cache's clock and the way up as given. `Uploads`,
`TTLCache` and `Startup` look into these: a blob appears whole or not at all
(`WholeOrAbsent`), an entry vanishes at the latest when its time is up
(`StalenessBounded`, `ExpiredIsFreed`), and `Boot` starts on a migrated database
(`ServesMigrated`). `Server` takes the session gate's verdict from `Sessions` and
the races on a bucket from `RateLimit`.

Faults are a CONSTANT of each instance, so that a run says which it admits:
`db` (any statement may fail with no effect: error, cancelled request, expired
context), `unsure` (a statement takes effect and reports an error all the same,
that of a context which ended while it ran), `slow` (an index job uses up its
30 s), `disk` (a file operation fails), `crash`, `listen` (the listener dies),
`late` (the shutdown deadline passes); in `Uploads` also `power` (what was not
written back is lost). The driver returns the context's error whether or not the
statement has taken effect, so each INSERT, UPDATE and DELETE of `DocumentService`
has three outcomes, and the code's error path runs after two of them: the
compensation after `InsertUnsure`, the return before the invalidation after
`PatchUnsure` and `DelRowUnsure`, the second status write after `ReadyUnsure`.
`Startup` has failed starts, kills, lost commits and a busy lock, `MaxEnds` ends of
processes in all.

Definitions headed "Mutant of X" are X with a plausible bug. No specification
uses them: they show that the property named in `PROJECT.json` would notice.

### Abstractions

- A document is its place in `ORDER BY created_at DESC, id DESC`; the file has
  the same number. New ids are taken in any order, so nothing depends on
  uploads being numbered as they arrive.
- Of a row, the status, title and summary are kept. Values are from a small set.
- Requests that fail validation or login checks change no state and have no
  action; neither do List, `/me`, a cache hit or `/healthz`. A download, and a
  request for somebody else's document, read through `Service.Get` and fill the
  cache before the owner is looked at: in `DocumentService` they are a Get.
- A request may have its first effect as late as the HTTP drain, or after it if
  the deadline cut the drain short (`Accepting`).
- A cache entry may be lost at any time, which covers expiry and the janitor.
- The sweep reads the time and deletes in one step; a time read earlier would
  delete less.
- In `DocumentService` `Save` is one step that succeeds; `Uploads` has the others.
- `Uploads` counts in units and tells a file by its length. What a driver does
  with a statement whose context ends, and what a medium keeps of an unsynced
  file or directory, is not in this repository: both are free choices.
- A migration script is a number of statements. The lock of SQLite is taken at
  the first statement that writes and given back by commit, rollback or death.
- `Server` follows one client's request at a time: requests share nothing else
  in the chain. Its handler answers 200 for whatever it answers.
- When `run` returns late, requests and workers stop at once; the instants
  between `pool.Close` and the end of the process are left out.

## 3. Runs

Runs that pass:

| Run | Instance | Shows |
|---|---|---|
| `ds_core` | 1 document with 2 texts, 2 requests, 2 workers, queue 1, page 1, `db`, `unsure`, `disk`, `crash` | how table, files and cache drift apart: `RowHasBlob`: a row lacks its file only if its INSERT was doubtful; `OrphanHasCulprit`: a file is left without a row only by a failed unlink, a crash or a doubtful DELETE; `StaleHasCulprit`: only a read overlapping a write, or a doubtful write, makes the cache stale; `ImplementsLifecycle`: a status settles once, but for a ready that was reported as an error |
| `ds_jobs` | 2 documents, 1 request, 2 workers, queue 2, page 2, `slow`, `crash`, `late`, `listen`, fair | `OneJobPerDoc`: no document is queued or processed twice; `NothingStranded`: with room, recovery and uploads leave no pending document without a job; `GracefulExitDrains`; `QueuedIsSettled`: also a job that uses up its time settles its document; `SignalStops` |
| `ix_core` | 3 producers, 2 stoppers, 2 workers, queue 2, fair | `TypeOK`, `NoPanic`, `NilMeansHandled`, `ImplementsJobPool`, `CallsReturn`, `AcceptedIsHandled` |
| `se_core` | 2 addresses, 2 users, 2 tokens, 2 calls, clock to 3, `db`, `crash`, fair sweep | `TypeOK`, `OneAccount`, `AdmitsOnlyLive`, `EndsForAReason`, `ExpiredIsSwept` |
| `rl_core` | 3 requests, rate 1 per 2 ticks, burst 2, quiet 6, skew 1, clock to 14 | `TypeOK`, `RateBound` |
| `up_core` | 2 uploads of 1 to 3 units, limit 2, body limit 2 or 4, 1 unit of framing, head 1, 1 download, all faults | `WholeOrAbsent`; `RowTellsSize`: no file is cut short, however the limits are set; `SecondLimitIdle`; `DownloadIsWhole`; `BareHasCulprit`, `OrphanHasCulprit`, `LeftoverHasCulprit`, `MissHasCulprit`: the only causes of a row without a file, of a file without a row, of a stray staging file and of a download that finds no file |
| `tc_core` | 2 reads, 1 writer, time to live 2, pauses to 1, 2 writes, clock to 5, fair janitor | `StalenessBounded`: no answer is of a version overwritten longer ago than the time to live and one pause; `JanitorSparesLive`; `ExpiredIsFreed` |
| `sv_core` | 2 processes, 2 scripts of 2 statements, 2 ends, 10 environments over ints of 6 bits, 4 kinds of route, bursts 2 and 1, fair processes | `ExactlyOnce`, `InOrder`, `ServesMigrated`; `RunsAsAsked`; `RunsOnlyAdmitted`: no handler runs without its gates; `LogTellsAnswer`: what a panic does to the answer and to the log; `AllServe` |

The type invariants of `DocumentService`, `Uploads`, `TTLCache` and `Server`, and
the strengthenings that the proofs add, are in no run: they are proved for every
instance (section 4).

Runs that find a disagreement between the code and what is said of it (each is
a finding in `PROJECT.json`, with the quotation):

| Run | Property | What happens |
|---|---|---|
| `ds_paging` | `RequeueRecoversAll` | workers settle documents while recovery pages by OFFSET, and a document is skipped although the queue has room |
| `ds_stale` | `NoStaleEntry` | a read that overlaps a write re-fills the cache after the invalidation |
| `ds_patch` | `PatchTouchesOnlySent` | of two overlapping PATCHes the later writes back the field it did not send |
| `se_outage` | `RejectsOnlyDead` | the gate's second statement fails and a live session gets 401 and a cleared cookie |

More disagreements were met on the way and have no run of their own; the model
shows each as a step:

- The logout handler discards the error of its DELETE, clears the cookie and
  answers 204 (`internal/auth/handler.go:73`); `resources/flow/auth_logout.md:5`
  says it "Deletes the session row".
- `resources/FLOW.md:22-23` puts logout and `/me` under the global limit alone;
  `cmd/api/main.go:107` has all of `/api/auth/` behind the strict limiter as well
  (`Inner` in `Server`).
- `resources/FLOW.md:63` promises one log line per request; preflights are
  answered outside of the logger, a cut connection unwinds past it, and a panic
  after the first byte is logged as 500 though the client got something else
  (`LogTellsAnswer` has all three).
- `APP_RATE_RPS=NaN` is accepted although the message says "must be > 0", and
  switches the limiter off (`HasToken`); a number of megabytes whose bytes do not
  fit an int64 can come out as another positive limit (`LimitAsAsked`).
- The body limit includes the form's framing, so a file of exactly the maximum is
  refused with 413 (`Fits`); `internal/config/config.go` calls it the limit per
  file.
- `resources/flow/document_upload.md:103-106` and step 6 of its list roll the file
  back when "insert fails". An INSERT that took effect and reported its context's
  error is rolled back in the same way, and the row stays without its file
  (`InsertUnsure`, `RowHasBlob`).
- `document_update.md:102-103` and `document_delete.md:68` of the same directory
  promise the invalidation. After an UPDATE or DELETE that took effect and reported
  an error it is not made, and after such a DELETE the file stays as well
  (`PatchUnsure`, `DelRowUnsure`).
- A `ready` that commits as the job's time runs out is taken for a failure and
  overwritten with `failed` (`internal/worker/indexer.go:92`; `Retract`).
- Nothing syncs the directory after the rename: after a power failure a
  document answered 201 may have its row and no file (`BareHasCulprit`).

Three more instances are worth knowing:

- `RequeueRecoversAll` with queue 1 and page 3 fails without any race: recovery
  does not wait for room, so of a backlog longer than the queue the oldest
  documents stay pending until the next boot.
- `GracefulExitDrains` says "within its deadline". Without that condition it
  fails: both shutdown stages share one 20 s context, and past it requests and
  jobs are dropped (`resources/FLOW.md:96-97` does not mention the limit).
- `RateBound` with burst 4, quiet 3 fails: a bucket that takes longer to fill
  than the quiet time (180 s in the code) is forgotten, hence refilled, early.
  `config.Load` accepts such a rate and burst; the defaults are far from it.

### Why the bounds are enough

File, cache entry and row of a document depend on nobody else's, so `ds_core` has
one document and puts the bound where the races are: two requests and the workers
on it, and two texts, since with one text a forgotten invalidation after a PATCH
would not show. Jobs depend on the order of the documents: `ds_jobs` has two, and
a page and a queue of two, the least that leaves room for both (`NothingStranded`
asks for it) and the most that makes recovery ask for a second page. One
request is enough there: requests meet jobs only through the row and the queue,
one statement or one offer at a time. `ds_jobs` leaves out doubtful statements,
which would multiply its states by what they leave behind in files and cache; its
safety properties hold under them too, with the exceptions they name (doubtful
rows, a ready in a worker that was told otherwise), by the theorems of section 4,
which have no bounds. `ds_paging` has pages of one, and `ix_core` two workers under
a shutdown at the grain of the lock.

In `up_core` a file is below, at or above the limit, is longer than the head or
not, and its framing is what takes it past the body limit or not; body limit 4
lets the second limit act. Two uploads are enough, since uploads share nothing
but faults that strike all of them. In `tc_core` two reads are the fewest for an
old fill to meet a fresh one; the clock passes the last possible expiry of a
first fill and of its refill. In `sv_core` two scripts make an order, two
statements an inside, two processes a race, and two ends let one fail, be
restarted and fail again; six bits shifted by two have megabytes that wrap to a
negative, a zero and a positive limit, as 44 bits do in the code.

`NumDocs`, `NumUploads`, `MaxVersion`, `NumScripts` and `MaxEnds` bound what is
ever created or ends; clocks stop at `MaxClock`, past the last expiry (Sessions,
TTLCache) and past a refill, a quiet time and another burst (RateLimit). `Pause`
and `Skew` bound how long a goroutine stands between two steps; the bounds that
are proved name them. Everything else in the state is finite by itself.

Symmetry is used in safety runs only, over requests, workers, calls, tokens and
the like, none of which is ordered or told from the others by name. Deadlock is checked in every
run: a stopped process can boot, an indexer at rest takes the step `Rest`, which
is enabled only when all calls have returned and no worker has work, and uploads
and caches can always be read again.

### Fairness

- `DocumentService`: weak fairness of each worker, of the main goroutine (`Main`:
  recovery and the steps of the shutdown) and of the shutdown's timer: goroutines
  that can run are scheduled, and statements return (the worker's contexts have
  deadlines). Requests, signals, boots and faults are not fair: `SignalStops`
  holds although a client hangs.
- `Indexer`: weak fairness of each call under way and of each worker, not of
  making a call. The RWMutex hands the lock on because a waiting writer turns
  new readers away, which the model has as a step of its own.
- `Sessions`: weak fairness of the sweep: its ticker fires every hour of the
  process's life, and its statement works now and then. It assumes that the
  process is not restarted more than once an hour for ever, since a restart
  starts the ticker again. Nothing else is fair.
- `TTLCache`: weak fairness of the janitor's tick and sweep: its goroutine lives
  as long as the process and the lock is handed on. Readers, writers and the
  clock are not fair; `ExpiredIsFreed` needs no more.
- `Server`: weak fairness of every process on its way up, the restart included,
  because docker-compose.yml says `restart: unless-stopped`. Being refused the
  lock, failing and being killed is not fair, and bounded by `MaxEnds` but for
  the lock. Requests are not fair.
- `Uploads` states no fairness and no liveness: a handler that hangs loses
  nothing but its own upload.

## 4. Proofs

Every invariant, every action property and both refinements that a passing run
checks are proved for every value of the constants; what is left to TLC is
liveness. The assumptions are those named in the modules that declare the
constants, as the code justifies them: sizes and clocks are natural numbers,
`config.Load` refuses less than one worker (`WorkersAssumption`; in `Indexer`
also finitely many, which a wait group has to count), the defaults are numbers
and `Atoi` yields numbers (`DefaultsAssumption`, `EnvsAssumption`; the rate alone
may be NaN), an int is wider than the shift from megabytes to bytes
(`WidthAssumption`), and a name that stands for "nothing" is none of the things.

### Documents

`DocumentServiceProofs` proves, for any number of documents, requests and
workers, any queue and page size and any set of faults:

- `TypeCorrect`, `RowAlwaysHasBlob`, `OneJobPerDocument`: `Spec => []P` for
  `TypeOK`, `RowHasBlob` and `OneJobPerDoc`;
- `RefinesLifecycle`: `Spec` implements `DocumentLifecycle` under the mapping
  `lives`; each step is one lifecycle step of one document, a stutter, or the end of
  the process, which leaves every unsure `ready` a `ready` (`Keep`). A document is
  `unsure` while its row is ready and its worker has been told otherwise.

The inductive invariant is `IndInv == TypeOK /\ BlobInv /\ Jobs`.

- `RowHasBlob` is not inductive: a deletion or a compensation must not unlink the
  file of a row that is there. `BlobInv` adds why: until its row is there an
  upload's id is known to nobody else, a request that unlinks works on an id that
  is removed for good or, after an INSERT that reported an error, on a doubtful
  row, and removed ids never get a row again. `doubtful` is a ghost: it is
  written by `InsertUnsure`, cleared by the deletion of the row and read by no
  action.
- `OneJobPerDoc` is not inductive either: an upload must not enqueue what
  recovery has queued. `JobInv` adds that an id under upload is not queued, that
  no request runs before recovery ends, and the ranks: every pending document
  already handed over lies, in the listing, before the rest of the page. The
  backlog only shrinks during recovery, so ranks only fall and an offset never
  comes back to a document. This is the counting argument behind "recovery may
  skip (see `ds_paging`) but never repeats".

`FilesFollowRows` and `HandedOverOnce` state the two strengthenings themselves.

`DocumentProcessProofs` builds on `IndInv`:

- `OrphansHaveACulprit` and `StaleCopiesHaveACulprit` go through the steps of each
  kind of request and of the worker. A step that changes a table and is told so
  owes the unlink or the invalidation that its next place in the code makes
  (`Owing`, `Excused`). What is left to blame is a failed unlink, the end of the
  process, a read that overlapped a write, and a statement that took effect and
  reported an error, after which nobody owes anything.
- `GracefulExitIsClean` rests on `DrainInv`: the queue is closed in the last stage
  only, after the last request unless the deadline is past, and a worker leaves
  only an empty closed queue. With no worker at all the queue would never be
  emptied, hence `WorkersAssumption`.
- `NoneStranded`, where no statement fails without effect, rests on `BacklogInv`:
  if a page has room for the backlog, the first page is all of it, and what leaves
  the page, an upload or the queue goes to the next of them. That an offer finds
  room is a pigeonhole: the queue holds each document at most once
  (`OneJobPerDoc`), and not the one that is offered.
- `RoomyRecoveryIsComplete` states from the same invariant where the finding of
  `ds_paging` ends: where no statement fails without effect and the backlog fits
  one page and the queue, recovery leaves nobody out.
- `StalePatchesHaveACulprit` does the same for `ds_patch`: what a PATCH has read,
  in the fields it did not send, is what the row has (`Fresh`) until another PATCH
  of that document is written. The worker's UPDATE leaves those fields alone, and
  a document cannot be deleted and inserted anew in between: a PATCH is about a
  document that has a row or had one (`PatchInv`), and such ids get no second
  insert. With one request at a time, therefore, a PATCH touches only what was
  sent (`PatchesInTurnAreFaithful`).

### Worker pool

`IndexerProofs` proves `TypeCorrect`, `NeverPanics`, `NilIsTrue` and
`RefinesJobPool` for any number of callers, any finite number of workers and any
queue size. `IndInv` has four parts beside the types: who holds the lock is told
by where the calls are (`LockInv`); between setting the flag and closing the
channel there is one stopper and no producer that has seen the flag unset
(`CloseInv`), which is why nobody sends on the closed channel; an accepted job is
in the channel, in a hand or handled, and only one of these (`JobInv`); a worker
leaves only a closed, empty channel, and the wait group counts those that have
not left (`DrainInv`). The refinement maps what has become of a call to the
fates of `JobPool`, one step of the pool or a stutter for each step.

### Accounts and sessions

`SessionsProofs` proves `TypeCorrect`, `AccountsAreUnique`, `GateAdmitsOnlyLive`
and `SessionsEndForAReason`. `CallInv` says what a request knows after its first
statement: its token was given out; its session's row, if it is still there, is
the one it read; and if the session was over when the request came, it cannot
get past the expiry check. Tokens are given out once, so a row that is gone does
not come back as somebody else's (`TokenInv`). The sweep compares whole seconds and
the gate instants; the lemma `SweepIsLate` is why the sweep never goes first.

`OnlyOutagesReject` states the extent of the finding of `se_outage`: the gate
answers 401 to a live session only when the statement that looks for its user
fails. `RejectsOnlyDeadInPeace` follows: without such failures the comments of
`RequireAuth` are true.

### Uploads, cache, server, rate limiter

`UploadsProofs` proves type correctness and all eight properties of `up_core`, for
every limit, head length, set of sizes and number of uploads and downloads:
`TypeCorrect`, `FilesAreWhole`, `RowsTellTheSize`, `SecondLimitNeverBites`,
`DownloadsAreWhole`, `BareRowsHaveCulprit`, `OrphansHaveCulprit`,
`LeftoversHaveCulprit`, `MissesHaveCulprit`. Everything about sizes rests on the
lemma `LimitDetects`: the head and one unit past the rest of the limit are enough
to see that a file is too large, and a file within the limit is stored whole. The
inductive invariant `IndInv` says of each upload what its place in the code has
already brought about (length copied, synced, renamed, within the limit), that the
id of a row or of a deleted row belongs to an upload past its insert, and of each
download that its document was one of those.

`TTLCacheProofs` proves `TypeCorrect`, `AlwaysInTime`, `BoundedStaleness`,
`LateFillsOnly` and `JanitorIsHarmless` for every time to live, pause and number
of calls. `StalenessBounded` speaks of the last answer; `AgeInv` adds the same for
what may become one: what a call carries was current when the call began, and
what the cache holds was current at most a pause before it was put there.

`ServerProofs` proves all that `sv_core` checks but the liveness of `AllServe`, in
three layers:

- `MigratedExactlyOnce`, `MigratedBeforeServing`, `MigratedInOrder`, for any number
  of processes, scripts and statements. `BootInv` adds to `ExactlyOnce` that the
  lock's holder, and nobody else, is inside a transaction, how many statements it
  has executed there, and that a process in its loop has found every earlier
  script of its list applied. That the next script of a finite list exists is
  well-foundedness of the naturals, from the library.
- `AcceptedAsAsked`, for any width of an int and any shift. Exponentiation is
  opaque to the provers; that a power of two is positive is proved by counting
  the subsets of `1 .. n` (`PowerOfTwo`), and that a number in range does not wrap
  by arithmetic (`WrapIsIdentity`). `ConfigInv` carries the verdict of `Load` along
  with a process that is past it.
- `TypeCorrect`, `HandlersRunBehindGates`, `LogIsTheAnswer`. `ReqInv` says of a
  request, by the position of its layer, what lies behind it: where it may be at
  all (`PlaceInv`: a panic never gets past Recover), which tokens and user it has
  (`GateInv`), and what status and log line it has to show on the way out
  (`AnswerInv`: the recorder and the client agree from layer 3 inwards, unless the
  handler panicked after its first byte). `LayerTable` is the chain of each route,
  position by position, so a proof step names the layers it depends on.
  `ServingInv` ties request and buckets to the process: a process on its way up
  has neither, and a bucket is never below zero or above its burst, which is
  positive because the configuration was accepted.

`RateLimitProofs` proves `RateIsBounded` and `CreditCoversTokens`: if
`Quiet >= Capacity + 2 * Skew` then `RateBound` and `CreditInv` hold always. The
inductive invariant is `CreditInv` with types: what the bucket would be worth now
is at most the ghost's credit, and an entry is forgotten only when the ghost is
full again. The condition is not an assumption of the module, and section 3 has
an instance without it where the bound fails. `TypeCorrect` holds without it;
`BucketInv` adds that a bucket whose time stamp was overtaken is in debt by no
more than what has passed since.

### Only model-checked

- Liveness, which needs fairness and ENABLED: `QueuedIsSettled`, `SignalStops`,
  `CallsReturn`, `AcceptedIsHandled`, `ExpiredIsSwept`, `ExpiredIsFreed`,
  `AllServe`.
- The properties of the four runs that expect a violation. Theorems say how far
  each reaches: `RoomyRecoveryIsComplete`, `OnlyOutagesReject`,
  `StaleCopiesHaveACulprit`, `StalePatchesHaveACulprit`.

## 5. Not modelled

- The front end and logging: they keep no state the properties are about.
- Id generation is "a fresh one"; collisions of 128 random bits are not looked at.
- Password hashing, cookie attributes, response headers, JSON decoding and the
  form of error bodies: data without control.
- `Local.resolve` and the checks of names, types and texts are pure functions over
  strings; a refusal by them is a step (`RefuseForm`), the decision is not.
- `Config` has the five numbers `Load` checks. Strings, the boolean, the origin
  list and the two durations are passed on unchecked; `TTL` may be 0 in the models
  but not negative.
- `List` beyond its use by recovery: a read that changes nothing.
- Range requests of a download: `http.ServeContent` is one step.

## 6. Plan

Done, in this order: `DocumentService` with its abstract `DocumentLifecycle`
(the core), `Indexer` with `JobPool`, `Sessions`, `RateLimit`; then `Uploads`,
`TTLCache`, `Config`, `Startup` and `Server`; the proofs about all of these.

To do: state what `DocumentService` takes from `Indexer`, `Uploads` and `Startup`
as theorems about them, where section 2 says it in words.
