-------------------------- MODULE DocumentService --------------------------
(***************************************************************************)
(* The document service of godocs and the process it runs in: the          *)
(* documents table, the blob directory, the read cache, the index queue    *)
(* with its workers, the HTTP requests in flight, and the life cycle of    *)
(* run() from boot through recovery to the two-stage shutdown.             *)
(*                                                                         *)
(* One step of the model is one effect another goroutine can observe: a    *)
(* statement on the database (the pool holds a single connection), one     *)
(* cache operation (a mutex), one file operation, one queue operation (see *)
(* module Indexer).  Validation failures and list requests change nothing  *)
(* and have no action.  A download, and a Get that ends in an ownership    *)
(* mismatch, go through Get's read of cache and table first: they are Get. *)
(*                                                                         *)
(* A document is known by its place in ORDER BY created_at, id: a larger   *)
(* number is a newer document.  Its blob has the same number.              *)
(***************************************************************************)
EXTENDS Integers, Sequences, FiniteSets

CONSTANTS
    NumDocs,    \* how many ids are ever handed out (bound)
    Texts,      \* the values a title or a summary can take
    Reqs,       \* HTTP requests in flight at the same time
    Workers,    \* goroutines of the worker pool
    QueueSize,  \* capacity of the jobs channel
    PageSize,   \* page length of RequeuePending
    Faults,     \* what may go wrong in this instance
    Absent      \* no row, no cache entry, a nil field

ASSUME NumDocsAssumption == NumDocs \in Nat
ASSUME SizesAssumption == QueueSize \in Nat \ {0} /\ PageSize \in Nat \ {0}
\* config.Load refuses less than one worker.
ASSUME WorkersAssumption == Workers # {}
ASSUME FaultsAssumption ==
    Faults \subseteq {"db", "unsure", "slow", "disk", "crash", "listen", "late"}

Docs == 1 .. NumDocs
Fields == {"title", "summary"}
Statuses == {"pending", "ready", "failed"}
Row == [status : Statuses, title : Texts, summary : Texts]

ASSUME AbsentAssumption == Absent \notin Row \cup Texts

MaybeRow == Row \cup {Absent}

VARIABLES
    rows,       \* the documents table
    issued,     \* ids handed out by id.New
    removed,    \* history: ids whose row was deleted
    doubtful,   \* history: the rows whose INSERT reported an error
    blobs,      \* files under the storage root
    cache,      \* TTL cache: copies of rows
    jobs,       \* buffered channel of the indexer
    closed,     \* Indexer.closed
    work,       \* the worker goroutines
    req,        \* the HTTP requests
    phase,      \* where run() is
    scan,       \* RequeuePending's loop
    signalled,  \* ctx of run() is cancelled
    late        \* shutdownCtx has expired

table == <<rows, issued, removed, doubtful>>
queue == <<jobs, closed>>
control == <<phase, scan, signalled, late>>
vars == <<rows, issued, removed, doubtful, blobs, cache, jobs, closed, work, req,
          phase, scan, signalled, late>>

-----------------------------------------------------------------------------
(* Requests, workers and the recovery loop, as records.                      *)

PlainPcs == {"insert", "purge", "enqueue", "load", "patchDrop",
             "delRow", "delDrop", "delBlob"}
CopyPcs == {"fill", "write"}     \* the request carries a copy of the row
JobPcs == {"markReady", "markFailed", "markDrop"}
Phases == {"down", "recovering", "serving", "httpDrain", "workerDrain"}

At(pc, d) == [pc |-> pc, doc |-> d, row |-> Absent, sent |-> {}]
Holding(pc, d, row, sent) == [pc |-> pc, doc |-> d, row |-> row, sent |-> sent]
Idle == At("idle", 0)

ReqState ==
    [pc : PlainPcs, doc : Docs, row : {Absent}, sent : {{}}] \cup {Idle}
    \cup [pc : CopyPcs, doc : Docs, row : Row, sent : SUBSET Fields]

Worker(pc, d) == [pc |-> pc, doc |-> d]
WorkState ==
    [pc : JobPcs, doc : Docs] \cup [pc : {"exited", "idle"}, doc : {0}]

Scan(pc, offset, page, last) ==
    [pc |-> pc, offset |-> offset, page |-> page, last |-> last]
NoScan == Scan("off", 0, {}, FALSE)
ScanState == [pc : {"off", "list", "page"}, offset : Nat,
              page : SUBSET Docs, last : BOOLEAN]

Stored == {d \in Docs : rows[d] # Absent}
Pending == {d \in Stored : rows[d].status = "pending"}
Ready == {d \in Stored : rows[d].status = "ready"}
Queued == {jobs[i] : i \in 1 .. Len(jobs)}
InHand == {work[w].doc : w \in Workers} \ {0}
AllIdle == \A r \in Reqs : req[r].pc = "idle"
AllExited == \A w \in Workers : work[w].pc = "exited"

Init ==
    /\ rows = [d \in Docs |-> Absent]
    /\ issued = {} /\ removed = {} /\ doubtful = {} /\ blobs = {}
    /\ cache = [d \in Docs |-> Absent]
    /\ jobs = <<>> /\ closed = FALSE
    /\ work = [w \in Workers |-> Worker("exited", 0)]
    /\ req = [r \in Reqs |-> Idle]
    /\ phase = "down"
    /\ scan = NoScan
    /\ signalled = FALSE /\ late = FALSE

-----------------------------------------------------------------------------
(* Building blocks: the effect of one call on the component it goes to.      *)
(*                                                                           *)
(* A statement has three outcomes: it succeeds, it fails ("db"), or it takes *)
(* effect and yet reports an error, that of a context that was cancelled or  *)
(* ran out while the statement ran ("unsure").  The caller cannot tell the   *)
(* last two apart and handles both as a failure.  "slow" stands for an index *)
(* job that uses up the 30 s it has.                                         *)

Fault(kind) == kind \in Faults

\* A request is accepted while the listener is open; its first effect may
\* come as late as the drain, and after it when the deadline has cut it short.
Accepting == phase \in {"serving", "httpDrain"} \/ (phase = "workerDrain" /\ late)

Step(r, next) == req' = [req EXCEPT ![r] = next]

\* Indexer.Enqueue: a refused id is dropped, the caller only logs it.
CanSend == ~closed /\ Len(jobs) < QueueSize
Enqueue(d) == jobs' = IF CanSend THEN Append(jobs, d) ELSE jobs

PutRow(d, row) == rows' = [rows EXCEPT ![d] = row]
Invalidate(d) == cache' = [cache EXCEPT ![d] = Absent]

\* Mutant of Edited: the UPDATE writes back the status that was read.
WritesStatusBack(d, row) == row

\* UPDATE documents SET title, summary: the status column is left alone.
Edited(d, row) ==
    [status |-> rows[d].status, title |-> row.title, summary |-> row.summary]

\* UPDATE documents SET status.
WithStatus(d, st) == [rows[d] EXCEPT !.status = st]

\* The PATCH body's fields are pointers: a nil one keeps what was read.
Patches == [Fields -> Texts \cup {Absent}]
Merge(row, new) ==
    [status |-> row.status,
     title |-> IF new["title"] = Absent THEN row.title ELSE new["title"],
     summary |-> IF new["summary"] = Absent THEN row.summary
                                            ELSE new["summary"]]
Sent(new) == {f \in Fields : new[f] # Absent}

-----------------------------------------------------------------------------
(* Service.Create: save the file, insert the row, enqueue the id.            *)

\* blob.Save succeeded: the file is on disk.  A file above the limit goes
\* to the purge, any other to the insert.  A failed Save leaves nothing.
BeginCreate(r, d) ==
    /\ Accepting /\ req[r].pc = "idle" /\ d \notin issued
    /\ issued' = issued \cup {d}
    /\ blobs' = blobs \cup {d}
    /\ \E pc \in {"insert", "purge"} : Step(r, At(pc, d))
    /\ UNCHANGED <<rows, removed, doubtful, cache, queue, work, control>>

\* The INSERT takes effect.
InsertRow(r) ==
    /\ req[r].pc = "insert"
    /\ \E t, s \in Texts :
          PutRow(req[r].doc, [status |-> "pending", title |-> t, summary |-> s])
    /\ UNCHANGED <<issued, removed, blobs, cache, queue, work, control>>

InsertOk(r) ==
    /\ InsertRow(r)
    /\ Step(r, At("enqueue", req[r].doc))
    /\ UNCHANGED doubtful

\* The row is there and its file is about to be purged.
InsertUnsure(r) ==
    /\ Fault("unsure") /\ InsertRow(r)
    /\ doubtful' = doubtful \cup {req[r].doc}
    /\ Step(r, At("purge", req[r].doc))

\* Mutant of InsertFails: no compensating delete.
InsertFailsNoPurge(r) ==
    /\ req[r].pc = "insert" /\ Fault("db")
    /\ Step(r, Idle)
    /\ UNCHANGED <<table, blobs, cache, queue, work, control>>

InsertFails(r) ==
    /\ req[r].pc = "insert" /\ Fault("db")
    /\ Step(r, At("purge", req[r].doc))
    /\ UNCHANGED <<table, blobs, cache, queue, work, control>>

\* The compensating delete; when the disk refuses, the file stays.
PurgeBlob(r) ==
    /\ req[r].pc = "purge"
    /\ \/ blobs' = blobs \ {req[r].doc}
       \/ Fault("disk") /\ blobs' = blobs
    /\ Step(r, Idle)
    /\ UNCHANGED <<table, cache, queue, work, control>>

EnqueueNew(r) ==
    /\ req[r].pc = "enqueue"
    /\ Enqueue(req[r].doc)
    /\ Step(r, Idle)
    /\ UNCHANGED <<table, blobs, cache, closed, work, control>>

Create(r) ==
    \/ \E d \in Docs : BeginCreate(r, d)
    \/ InsertOk(r) \/ InsertUnsure(r) \/ InsertFails(r)
    \/ PurgeBlob(r) \/ EnqueueNew(r)

-----------------------------------------------------------------------------
(* Service.Get: cache-aside.  A hit changes nothing.                         *)

BeginGet(r, d) ==
    /\ Accepting /\ req[r].pc = "idle" /\ d \in issued
    /\ cache[d] = Absent
    /\ Step(r, At("load", d))
    /\ UNCHANGED <<table, blobs, cache, queue, work, control>>

LoadOk(r) ==
    /\ req[r].pc = "load" /\ req[r].doc \in Stored
    /\ Step(r, Holding("fill", req[r].doc, rows[req[r].doc], {}))
    /\ UNCHANGED <<table, blobs, cache, queue, work, control>>

LoadFails(r) ==
    /\ req[r].pc = "load"
    /\ req[r].doc \notin Stored \/ Fault("db")
    /\ Step(r, Idle)
    /\ UNCHANGED <<table, blobs, cache, queue, work, control>>

\* The copy read earlier goes into the cache, whatever happened since.
Fill(r) ==
    /\ req[r].pc = "fill"
    /\ cache' = [cache EXCEPT ![req[r].doc] = req[r].row]
    /\ Step(r, Idle)
    /\ UNCHANGED <<table, blobs, queue, work, control>>

Get(r) ==
    \/ \E d \in Docs : BeginGet(r, d)
    \/ LoadOk(r) \/ LoadFails(r) \/ Fill(r)

-----------------------------------------------------------------------------
(* Service.Update: read the row, merge the sent fields, write, invalidate.   *)

BeginPatch(r, d) ==
    /\ Accepting /\ req[r].pc = "idle" /\ d \in Stored
    /\ \E new \in Patches :
          Step(r, Holding("write", d, Merge(rows[d], new), Sent(new)))
    /\ UNCHANGED <<table, blobs, cache, queue, work, control>>

\* The UPDATE takes effect.
WriteRow(r) ==
    /\ req[r].pc = "write" /\ req[r].doc \in Stored
    /\ PutRow(req[r].doc, Edited(req[r].doc, req[r].row))
    /\ UNCHANGED <<issued, removed, doubtful, blobs, cache, queue, work, control>>

PatchOk(r) == WriteRow(r) /\ Step(r, At("patchDrop", req[r].doc))

\* Update returns before the invalidation.
PatchUnsure(r) == Fault("unsure") /\ WriteRow(r) /\ Step(r, Idle)

PatchFails(r) ==
    /\ req[r].pc = "write"
    /\ req[r].doc \notin Stored \/ Fault("db")
    /\ Step(r, Idle)
    /\ UNCHANGED <<table, blobs, cache, queue, work, control>>

\* Mutant of PatchDrop: the entry stays in the cache.
PatchDropForgets(r) ==
    /\ req[r].pc = "patchDrop"
    /\ Step(r, Idle)
    /\ UNCHANGED <<table, blobs, cache, queue, work, control>>

PatchDrop(r) ==
    /\ req[r].pc = "patchDrop"
    /\ Invalidate(req[r].doc)
    /\ Step(r, Idle)
    /\ UNCHANGED <<table, blobs, queue, work, control>>

Patch(r) ==
    \/ \E d \in Docs : BeginPatch(r, d)
    \/ PatchOk(r) \/ PatchUnsure(r) \/ PatchFails(r) \/ PatchDrop(r)

-----------------------------------------------------------------------------
(* Service.Delete: read the row, delete it, invalidate, unlink the file.     *)

\* Mutant of BeginDelete: the file is unlinked before the row is deleted.
UnlinksFirst(r, d) ==
    /\ Accepting /\ req[r].pc = "idle" /\ d \in Stored
    /\ blobs' = blobs \ {d}
    /\ Step(r, At("delRow", d))
    /\ UNCHANGED <<table, cache, queue, work, control>>

BeginDelete(r, d) ==
    /\ Accepting /\ req[r].pc = "idle" /\ d \in Stored
    /\ Step(r, At("delRow", d))
    /\ UNCHANGED <<table, blobs, cache, queue, work, control>>

\* The DELETE takes effect.
DropRow(r) ==
    /\ req[r].pc = "delRow" /\ req[r].doc \in Stored
    /\ PutRow(req[r].doc, Absent)
    /\ removed' = removed \cup {req[r].doc}
    /\ doubtful' = doubtful \ {req[r].doc}
    /\ UNCHANGED <<issued, blobs, cache, queue, work, control>>

DelRowOk(r) == DropRow(r) /\ Step(r, At("delDrop", req[r].doc))

\* Delete returns: the cache entry and the file stay.
DelRowUnsure(r) == Fault("unsure") /\ DropRow(r) /\ Step(r, Idle)

\* No row affected, or the statement failed: nothing else is touched.
DelRowFails(r) ==
    /\ req[r].pc = "delRow"
    /\ req[r].doc \notin Stored \/ Fault("db")
    /\ Step(r, Idle)
    /\ UNCHANGED <<table, blobs, cache, queue, work, control>>

DelDrop(r) ==
    /\ req[r].pc = "delDrop"
    /\ Invalidate(req[r].doc)
    /\ Step(r, At("delBlob", req[r].doc))
    /\ UNCHANGED <<table, blobs, queue, work, control>>

\* A failed unlink is logged and does not fail the request.
DelBlob(r) ==
    /\ req[r].pc = "delBlob"
    /\ \/ blobs' = blobs \ {req[r].doc}
       \/ Fault("disk") /\ blobs' = blobs
    /\ Step(r, Idle)
    /\ UNCHANGED <<table, cache, queue, work, control>>

Delete(r) ==
    \/ \E d \in Docs : BeginDelete(r, d)
    \/ DelRowOk(r) \/ DelRowUnsure(r) \/ DelRowFails(r)
    \/ DelDrop(r) \/ DelBlob(r)

Request(r) == Create(r) \/ Get(r) \/ Patch(r) \/ Delete(r)

\* An entry whose time to live has passed is no longer returned.
Expire(d) ==
    /\ cache[d] # Absent
    /\ Invalidate(d)
    /\ UNCHANGED <<table, blobs, queue, work, req, control>>

-----------------------------------------------------------------------------
(* The worker loop: take an id, mark it ready, or failed when that fails.    *)

Go(w, pc, d) == work' = [work EXCEPT ![w] = Worker(pc, d)]

Take(w) ==
    /\ work[w].pc = "idle" /\ jobs # <<>>
    /\ Go(w, "markReady", Head(jobs))
    /\ jobs' = Tail(jobs)
    /\ UNCHANGED <<table, blobs, cache, closed, req, control>>

\* SetStatus(st) takes effect.
PutStatus(w, pc, st) ==
    /\ work[w].pc = pc /\ work[w].doc \in Stored
    /\ PutRow(work[w].doc, WithStatus(work[w].doc, st))
    /\ UNCHANGED <<issued, removed, doubtful, blobs, cache, queue, req, control>>

\* It succeeded: the cache entry is dropped next.
MarkOk(w, pc, st) == PutStatus(w, pc, st) /\ Go(w, "markDrop", work[w].doc)

\* It reported an error: MarkStatus returns before the invalidation, and the
\* loop goes on as after a failure.
ReadyUnsure(w) ==
    /\ Fault("unsure") /\ PutStatus(w, "markReady", "ready")
    /\ Go(w, "markFailed", work[w].doc)
FailedUnsure(w) ==
    /\ Fault("unsure") /\ PutStatus(w, "markFailed", "failed")
    /\ Go(w, "idle", 0)

\* Mutant of MarkFails: the second write uses the job's context again.
MarkFailsOnOldContext(w, pc, next, d) ==
    /\ work[w].pc = pc
    /\ work[w].doc \notin Stored \/ Fault("db") \/ Fault("slow")
    /\ Go(w, next, d)
    /\ UNCHANGED <<table, blobs, cache, queue, req, control>>

\* The row is gone, the statement failed, or the job's time was up before it.
\* The second write has a context of its own.
MarkFails(w, pc, next, d) ==
    /\ work[w].pc = pc
    /\ \/ work[w].doc \notin Stored
       \/ Fault("db")
       \/ Fault("slow") /\ pc = "markReady"
    /\ Go(w, next, d)
    /\ UNCHANGED <<table, blobs, cache, queue, req, control>>

MarkReady(w) ==
    \/ MarkOk(w, "markReady", "ready") \/ ReadyUnsure(w)
    \/ MarkFails(w, "markReady", "markFailed", work[w].doc)

MarkFailed(w) ==
    \/ MarkOk(w, "markFailed", "failed") \/ FailedUnsure(w)
    \/ MarkFails(w, "markFailed", "idle", 0)

MarkDrop(w) ==
    /\ work[w].pc = "markDrop"
    /\ Invalidate(work[w].doc)
    /\ Go(w, "idle", 0)
    /\ UNCHANGED <<table, blobs, queue, req, control>>

\* range over a closed channel ends once the channel is drained.
WorkerExit(w) ==
    /\ work[w].pc = "idle" /\ closed /\ jobs = <<>>
    /\ Go(w, "exited", 0)
    /\ UNCHANGED <<table, blobs, cache, queue, req, control>>

Work(w) == Take(w) \/ MarkReady(w) \/ MarkFailed(w) \/ MarkDrop(w)
           \/ WorkerExit(w)

-----------------------------------------------------------------------------
(* run(): boot, recovery, serving, shutdown.                                 *)

\* Migrations done, workers started, nothing queued: RequeuePending begins.
Boot ==
    /\ phase = "down"
    /\ phase' = "recovering"
    /\ scan' = Scan("list", 0, {}, FALSE)
    /\ work' = [w \in Workers |-> Worker("idle", 0)]
    /\ UNCHANGED <<table, blobs, cache, queue, req, signalled, late>>

\* The place of d among the pending documents, newest first.
Rank(d) == Cardinality({e \in Pending : e > d})
\* Mutant of Page: the page starts one row too late.
PageOffByOne(offset) == {d \in Pending : Rank(d) \in offset + 1 .. offset + PageSize}

Page(offset) == {d \in Pending : Rank(d) \in offset .. offset + PageSize - 1}

\* List(Status = pending, LIMIT PageSize OFFSET offset).
RequeueList ==
    /\ phase = "recovering" /\ scan.pc = "list" /\ ~signalled
    /\ scan' = Scan("page", scan.offset, Page(scan.offset),
                    Cardinality(Page(scan.offset)) < PageSize)
    /\ UNCHANGED <<table, blobs, cache, queue, work, req, phase, signalled, late>>

\* List failed, or its context was cancelled by a signal: recovery gives up.
RequeueGivesUp ==
    /\ phase = "recovering" /\ scan.pc = "list"
    /\ signalled \/ Fault("db")
    /\ phase' = "serving" /\ scan' = NoScan
    /\ UNCHANGED <<table, blobs, cache, queue, work, req, signalled, late>>

\* The page is handed over newest first.
RequeueOne ==
    /\ phase = "recovering" /\ scan.pc = "page"
    /\ \E d \in scan.page :
          /\ \A e \in scan.page : e <= d
          /\ Enqueue(d)
          /\ scan' = Scan("page", scan.offset, scan.page \ {d}, scan.last)
    /\ UNCHANGED <<table, blobs, cache, closed, work, req, phase, signalled, late>>

\* Mutant of RequeueNext: the offset does not advance.
SamePageAgain ==
    /\ phase = "recovering" /\ scan.pc = "page" /\ scan.page = {} /\ ~scan.last
    /\ scan' = Scan("list", scan.offset, {}, FALSE)
    /\ UNCHANGED <<table, blobs, cache, queue, work, req, phase, signalled, late>>

RequeueNext ==
    /\ phase = "recovering" /\ scan.pc = "page" /\ scan.page = {} /\ ~scan.last
    /\ scan' = Scan("list", scan.offset + PageSize, {}, FALSE)
    /\ UNCHANGED <<table, blobs, cache, queue, work, req, phase, signalled, late>>

\* The last page was short: the server starts to listen.
RequeueDone ==
    /\ phase = "recovering" /\ scan.pc = "page" /\ scan.page = {} /\ scan.last
    /\ phase' = "serving" /\ scan' = NoScan
    /\ UNCHANGED <<table, blobs, cache, queue, work, req, signalled, late>>

Recover == RequeueList \/ RequeueGivesUp \/ RequeueOne \/ RequeueNext
           \/ RequeueDone

\* SIGINT or SIGTERM.
Signal ==
    /\ phase \in {"recovering", "serving"} /\ ~signalled
    /\ signalled' = TRUE
    /\ UNCHANGED <<table, blobs, cache, queue, work, req, phase, scan, late>>

\* srv.Shutdown: the listener closes, requests in flight go on.
BeginStop ==
    /\ phase = "serving" /\ signalled
    /\ phase' = "httpDrain"
    /\ UNCHANGED <<table, blobs, cache, queue, work, req, scan, signalled, late>>

\* The deadline both shutdown stages share.
Deadline ==
    /\ phase \in {"httpDrain", "workerDrain"} /\ ~late /\ Fault("late")
    /\ late' = TRUE
    /\ UNCHANGED <<table, blobs, cache, queue, work, req, phase, scan, signalled>>

\* Mutants of StopHTTP: srv.Close instead of srv.Shutdown; no deadline.
ClosesAtOnce ==
    /\ phase = "httpDrain"
    /\ phase' = "workerDrain" /\ closed' = TRUE
    /\ UNCHANGED <<table, blobs, cache, jobs, work, req, scan, signalled, late>>
WaitsForever == AllIdle /\ ClosesAtOnce

\* srv.Shutdown returns; idx.Shutdown closes the queue.
StopHTTP ==
    /\ phase = "httpDrain" /\ (AllIdle \/ late)
    /\ phase' = "workerDrain" /\ closed' = TRUE
    /\ UNCHANGED <<table, blobs, cache, jobs, work, req, scan, signalled, late>>

\* The process ends: everything but the database and the files is gone.
ProcessEnds ==
    /\ phase' = "down" /\ scan' = NoScan /\ signalled' = FALSE /\ late' = FALSE
    /\ cache' = [d \in Docs |-> Absent]
    /\ jobs' = <<>> /\ closed' = FALSE
    /\ work' = [w \in Workers |-> Worker("exited", 0)]
    /\ req' = [r \in Reqs |-> Idle]
    /\ UNCHANGED <<table, blobs>>

Exit ==
    /\ phase = "workerDrain" /\ (AllExited \/ late)
    /\ ProcessEnds

\* ListenAndServe fails: run returns without draining anything.
ListenFails ==
    /\ phase = "serving" /\ Fault("listen")
    /\ ProcessEnds

Crash ==
    /\ phase # "down" /\ Fault("crash")
    /\ ProcessEnds

Run == Boot \/ Recover \/ Signal \/ BeginStop \/ Deadline \/ StopHTTP \/ Exit
       \/ ListenFails \/ Crash

Next ==
    \/ \E r \in Reqs : Request(r)
    \/ \E w \in Workers : Work(w)
    \/ \E d \in Docs : Expire(d)
    \/ Run

Spec == Init /\ [][Next]_vars

\* The runtime schedules the workers and the main goroutine, statements return,
\* and the shutdown timer fires.  Clients, signals and boots owe nothing.
Main == Recover \/ BeginStop \/ StopHTTP \/ Exit
Fairness ==
    /\ \A w \in Workers : WF_vars(Work(w))
    /\ WF_vars(Main) /\ WF_vars(Deadline)

FairSpec == Spec /\ Fairness

-----------------------------------------------------------------------------
(* Properties.                                                               *)

\* Every variable stays in its set.
TypeOK ==
    /\ rows \in [Docs -> MaybeRow]
    /\ issued \subseteq Docs /\ removed \subseteq Docs
    /\ doubtful \subseteq Docs /\ blobs \subseteq Docs
    /\ cache \in [Docs -> MaybeRow]
    /\ jobs \in Seq(Docs) /\ closed \in BOOLEAN
    /\ work \in [Workers -> WorkState]
    /\ req \in [Reqs -> ReqState]
    /\ phase \in Phases /\ scan \in ScanState
    /\ signalled \in BOOLEAN /\ late \in BOOLEAN

\* A row has its file on disk, through every race of uploads and deletes,
\* every failing call and every crash: the file is saved before the insert and
\* unlinked after the row is gone (service.go Create, Delete).  The exception
\* is the upload that purged its file because an INSERT that took effect had
\* reported an error: such a row may be without.
RowHasBlob == \A d \in Stored : d \in blobs \/ d \in doubtful

\* A file without a row normally belongs to a request that will still insert
\* the row or unlink the file.
Adrift(d) ==
    /\ d \in blobs /\ rows[d] = Absent
    /\ \A r \in Reqs :
          ~(req[r].doc = d /\ req[r].pc \in {"insert", "purge", "delDrop", "delBlob"})

\* A file is left behind for three reasons only: the unlink that was owed
\* failed, the process ended under the request that owed it, or a DELETE that
\* took effect reported an error and Delete returned before the unlink.
OrphanHasCulprit ==
    [][\A d \in Docs : ~Adrift(d) /\ Adrift(d)' =>
          \/ phase' = "down"
          \/ \E r \in Reqs : /\ req[r].doc = d /\ d \in blobs'
                            /\ req[r].pc \in {"purge", "delBlob"}
          \/ \E r \in Reqs : DelRowUnsure(r) /\ req[r].doc = d]_vars

Unsettled == Pending \cup (Docs \ Stored)

\* No document is queued twice or queued while a worker has it, and whatever
\* is queued or about to be marked ready is still pending or deleted: recovery
\* ends before the first upload, and each upload enqueues once.  What is about
\* to be marked failed can also be ready, by the same worker's first write.
OneJobPerDoc ==
    /\ \A i, j \in 1 .. Len(jobs) : jobs[i] = jobs[j] => i = j
    /\ \A w \in Workers : work[w].doc # 0 =>
          /\ work[w].doc \notin Queued
          /\ \A v \in Workers : work[v].doc = work[w].doc => v = w
          /\ work[w].pc = "markReady" => work[w].doc \in Unsettled
          /\ work[w].pc = "markFailed" => work[w].doc \in Unsettled \cup Ready
    /\ Queued \subseteq Unsettled

\* With room for every document in one page and in the queue, and no statement
\* that fails without effect, a serving process has every pending document
\* queued, in a worker's hands or about to be enqueued by its upload.  A row
\* whose upload was answered with an error waits for the next recovery.
NothingStranded ==
    /\ PageSize >= NumDocs /\ QueueSize >= NumDocs
    /\ phase = "serving" /\ ~signalled /\ "db" \notin Faults
    => Pending \subseteq Queued \cup InHand \cup doubtful \cup
                         {req[r].doc : r \in {q \in Reqs : req[q].pc = "enqueue"}}

\* What RequeuePending's comment says: when it has paged through the backlog,
\* no pending document is left out, the oldest included.
RequeueRecoversAll == [][RequeueDone => Pending \subseteq Queued \cup InHand]_vars

\* A cached copy and the row it should be a copy of.
Stale(d) == cache[d] # Absent /\ cache[d] # rows[d]
DropPending(d) ==
    \/ \E r \in Reqs : req[r].doc = d /\ req[r].pc \in {"patchDrop", "delDrop"}
    \/ \E w \in Workers : work[w].doc = d /\ work[w].pc = "markDrop"
Excused(d) == Stale(d) => DropPending(d)

\* What the update and delete docs say of the invalidation: once it is done,
\* the cache holds the row or nothing.
NoStaleEntry == \A d \in Docs : Excused(d)

\* A write of d takes effect and reports an error, so that its caller returns
\* without the invalidation.
WritesUnsure(d) ==
    \/ \E r \in Reqs : req[r].doc = d /\ (PatchUnsure(r) \/ DelRowUnsure(r))
    \/ \E w \in Workers : work[w].doc = d /\ (ReadyUnsure(w) \/ FailedUnsure(w))

\* Staleness beyond that has two causes only: a read that overlapped a write
\* and fills the cache with what it read before, and a write that took effect
\* and reported an error.  Every other writer owes an invalidation after its
\* write, and an invalidation works.
StaleHasCulprit ==
    [][\A d \in Docs : Excused(d) /\ ~Excused(d)' =>
          \/ \E r \in Reqs : /\ req[r].pc = "fill" /\ req[r].doc = d
                            /\ req[r].row # rows[d]
          \/ WritesUnsure(d)]_vars

\* The UPDATE of r takes effect, whatever it reports.
Writes(r) == PatchOk(r) \/ PatchUnsure(r)

\* What document_update.md says of PATCH: a field the body leaves out keeps
\* the value it has.
PatchTouchesOnlySent ==
    [][\A r \in Reqs : Writes(r) =>
          \A f \in Fields \ req[r].sent :
             rows'[req[r].doc][f] = rows[req[r].doc][f]]_vars

\* A shutdown within its deadline loses nothing: when the process exits, no
\* request is in flight, the queue is empty and every worker has finished.
GracefulExitDrains ==
    [][Exit /\ ~late => AllIdle /\ jobs = <<>> /\ InHand = {}]_vars

\* A queued document is indexed, failed or deleted unless the process ends.
QueuedIsSettled ==
    \A d \in Docs : d \in Queued ~> d \notin Pending \/ phase = "down"

\* A signal ends the process, even with requests that never finish.
SignalStops == signalled ~> phase = "down"

\* Marked ready, by a worker that was told that it failed.
InDoubt(d) == d \in Ready /\ \E w \in Workers : work[w] = Worker("markFailed", d)

\* The refinement mapping: the life of each document, read off the table.
StateOf(d) ==
    IF rows[d] # Absent
    THEN IF InDoubt(d) THEN "unsure" ELSE rows[d].status
    ELSE IF d \in removed THEN "deleted" ELSE "unborn"
lives == [d \in Docs |-> StateOf(d)]

Lifecycle == INSTANCE DocumentLifecycle WITH state <- lives

\* A status settles once: no PATCH, no second job and no restart takes ready or
\* failed back, and a deleted document never returns.  Only the worker whose
\* ready was reported as an error may still make it failed.
ImplementsLifecycle == Lifecycle!Spec

-----------------------------------------------------------------------------
(* The invariants above with what makes them inductive.                      *)

Uploading(r) == req[r].pc \in {"insert", "purge", "enqueue"}

\* Why RowHasBlob holds: an upload is the only request that knows its id until
\* the row is there, and a file is unlinked only when its row is gone for good
\* or doubtful.
BlobInv ==
    /\ doubtful \subseteq Stored /\ Stored \subseteq issued
    /\ Stored \ doubtful \subseteq blobs
    /\ removed \subseteq issued \ Stored
    /\ \A r \in Reqs :
          /\ Uploading(r) => req[r].doc \in issued
          /\ req[r].pc = "insert" =>
                req[r].doc \in blobs \ (Stored \cup removed)
          /\ req[r].pc = "purge" => req[r].doc \notin Stored \ doubtful
          /\ req[r].pc = "enqueue" => req[r].doc \in Pending \cup removed
          /\ req[r].pc \in {"delDrop", "delBlob"} => req[r].doc \in removed
    /\ \A r, q \in Reqs :
          Uploading(r) /\ Uploading(q) /\ req[r].doc = req[q].doc => r = q

\* Why OneJobPerDoc holds: an id is handed over once by its upload, or once by
\* the recovery that runs before any upload.  The pending documents already
\* handed over are ahead of the page, since the backlog only shrinks.
JobInv ==
    /\ Queued \cup InHand \subseteq issued
    /\ \A r \in Reqs : Uploading(r) => req[r].doc \notin Queued \cup InHand
    /\ phase \in {"down", "recovering"} => AllIdle
    /\ phase = "down" => jobs = <<>> /\ AllExited
    /\ scan.pc # "off" => phase = "recovering"
    /\ scan.pc = "list" =>
          \A d \in Pending \cap (Queued \cup InHand) : Rank(d) < scan.offset
    /\ scan.pc = "page" =>
          /\ scan.page \subseteq Pending \ (Queued \cup InHand)
          /\ \A d \in Pending \cap (Queued \cup InHand \cup scan.page) :
                Rank(d) < scan.offset + PageSize

=============================================================================
