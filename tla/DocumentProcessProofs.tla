----------------------- MODULE DocumentProcessProofs -----------------------
(* Theorems about the process around the documents: who is to blame for a    *)
(* file left behind or a stale copy, what a shutdown leaves undone, that     *)
(* recovery and uploads together lose no pending document, and when a PATCH  *)
(* can write back what it did not send.                                      *)
EXTENDS DocumentServiceProofs

-----------------------------------------------------------------------------
(* Culprits.                                                                 *)

Owing == {"insert", "purge", "delDrop", "delBlob"}

(* A request step that leaves the table's documents and the file of d alone  *)
(* casts d adrift only by leaving the steps that owe it something.           *)
LEMMA AdriftFrame ==
    ASSUME TypeOK, NEW d \in Docs, ~Adrift(d), Adrift(d)',
           NEW r \in Reqs, NEW next, Step(r, next),
           rows'[d] = Absent => rows[d] = Absent,
           d \in blobs' => d \in blobs
    PROVE  req[r].doc = d /\ req[r].pc \in Owing
                          /\ ~(next.doc = d /\ next.pc \in Owing)
  BY DEF Adrift, Step, TypeOK, Owing

LEMMA OrphanCreate ==
    ASSUME TypeOK, NEW d \in Docs, ~Adrift(d), Adrift(d)',
           NEW r \in Reqs, Create(r)
    PROVE  req[r].doc = d /\ d \in blobs' /\ req[r].pc = "purge"
<1> USE DEF table
<1>1. ASSUME NEW e \in Docs, BeginCreate(r, e) PROVE FALSE
  BY <1>1 DEF BeginCreate, Adrift, Step, At, TypeOK
<1>2. CASE InsertRow(r)
  <2>1. PICK row \in Row : PutRow(req[r].doc, row)
    BY <1>2 DEF InsertRow, Row, Statuses
  <2>2. rows'[d] = Absent => rows[d] = Absent /\ req[r].doc # d
    BY <2>1, AbsentAssumption DEF PutRow, TypeOK
  <2>3. PICK next : Step(r, next) /\ blobs' = blobs
    BY <1>2 DEF Create, InsertOk, InsertUnsure, InsertRow, BeginCreate,
                InsertFails, PurgeBlob, EnqueueNew
  <2> QED
    BY <2>2, <2>3, AdriftFrame DEF Adrift
<1>3. CASE InsertFails(r)
  BY <1>3, AdriftFrame DEF InsertFails, At, Owing
<1>4. CASE PurgeBlob(r)
  BY <1>4, AdriftFrame DEF PurgeBlob, Adrift
<1>5. CASE EnqueueNew(r)
  BY <1>5, AdriftFrame DEF EnqueueNew, Owing
<1> QED
  BY <1>1, <1>2, <1>3, <1>4, <1>5 DEF Create, InsertOk, InsertUnsure

LEMMA OrphanDelete ==
    ASSUME TypeOK, NEW d \in Docs, ~Adrift(d), Adrift(d)',
           NEW r \in Reqs, Delete(r)
    PROVE  /\ req[r].doc = d
           /\ \/ d \in blobs' /\ req[r].pc = "delBlob"
              \/ DelRowUnsure(r)
<1> USE DEF table
<1>1. ASSUME NEW e \in Docs, BeginDelete(r, e) PROVE FALSE
  BY <1>1, AdriftFrame DEF BeginDelete, Owing
<1>2. ASSUME DropRow(r), NEW next, Step(r, next) PROVE req[r].doc = d
  <2> SUFFICES ASSUME req[r].doc # d PROVE FALSE
    OBVIOUS
  <2>1. rows'[d] = rows[d] /\ blobs' = blobs
    BY <1>2 DEF DropRow, PutRow, TypeOK
  <2> QED
    BY <1>2, <2>1, AdriftFrame
<1>6. CASE DelRowOk(r)
  <2>1. req'[r] = At("delDrop", req[r].doc) /\ req[r].doc = d
    BY <1>2, <1>6 DEF DelRowOk, Step, TypeOK
  <2> QED
    BY <2>1 DEF Adrift, At
<1>7. CASE DelRowUnsure(r)
  BY <1>2, <1>7 DEF DelRowUnsure
<1>3. CASE DelRowFails(r)
  BY <1>3, AdriftFrame DEF DelRowFails, Owing
<1>4. CASE DelDrop(r)
  BY <1>4, AdriftFrame DEF DelDrop, At, Owing
<1>5. CASE DelBlob(r)
  BY <1>5, AdriftFrame DEF DelBlob, Adrift
<1> QED
  BY <1>1, <1>3, <1>4, <1>5, <1>6, <1>7 DEF Delete

(* Reading, patching and indexing leave no file behind.                      *)
LEMMA OrphanOthers ==
    ASSUME TypeOK, NEW d \in Docs, ~Adrift(d), Adrift(d)'
    PROVE  /\ \A r \in Reqs : ~Get(r) /\ ~Patch(r)
           /\ \A w \in Workers : ~Work(w)
           /\ \A e \in Docs : ~Expire(e)
           /\ Run => phase' = "down"
<1> USE DEF table, queue, control
<1>1. ASSUME NEW r \in Reqs, Get(r) PROVE FALSE
  <2>1. PICK next : Step(r, next) /\ req[r].pc \in {"idle", "load", "fill"}
                    /\ UNCHANGED <<rows, blobs>>
    BY <1>1 DEF Get, BeginGet, LoadOk, LoadFails, Fill
  <2> QED
    BY <2>1, AdriftFrame DEF Owing
<1>2. ASSUME NEW r \in Reqs, Patch(r) PROVE FALSE
  <2>1. PICK next : Step(r, next) /\ req[r].pc \in {"idle", "write", "patchDrop"}
                    /\ UNCHANGED blobs
    BY <1>2 DEF Patch, BeginPatch, PatchOk, PatchUnsure, WriteRow, PatchFails,
                PatchDrop
  <2>2. rows'[d] = Absent => rows[d] = Absent
    <3>1. CASE WriteRow(r)
      BY <3>1, BusyHasDoc, StoredRow, EditedType, AbsentAssumption
         DEF WriteRow, PutRow, CopyPcs, TypeOK
    <3> QED
      BY <1>2, <3>1 DEF Patch, BeginPatch, PatchOk, PatchUnsure, PatchFails,
                        PatchDrop
  <2> QED
    BY <2>1, <2>2, AdriftFrame DEF Owing
<1>3. ASSUME NEW w \in Workers, Work(w) PROVE FALSE
  <2>1. UNCHANGED <<blobs, req>>
    BY <1>3 DEF Work, Take, MarkReady, MarkFailed, MarkOk, ReadyUnsure,
                FailedUnsure, PutStatus, MarkFails, MarkDrop, WorkerExit
  <2>2. rows'[d] = Absent => rows[d] = Absent
    <3>1. ASSUME NEW pc, NEW st \in Statuses, PutStatus(w, pc, st)
          PROVE  rows'[d] = Absent => rows[d] = Absent
      BY <3>1, StoredRow, StatusType, AbsentAssumption
         DEF PutStatus, PutRow, TypeOK
    <3> QED
      BY <1>3, <3>1 DEF Work, Take, MarkReady, MarkFailed, MarkOk, ReadyUnsure,
                        FailedUnsure, MarkFails, MarkDrop, WorkerExit, Statuses
  <2> QED
    BY <2>1, <2>2 DEF Adrift
<1>4. ASSUME NEW e \in Docs, Expire(e) PROVE FALSE
  BY <1>4 DEF Expire, Adrift
<1>5. Run => phase' = "down"
  BY DEF Run, Recover, Boot, RequeueList, RequeueGivesUp, RequeueOne,
         RequeueNext, RequeueDone, Signal, BeginStop, Deadline, StopHTTP, Exit,
         ListenFails, Crash, ProcessEnds, Adrift
<1> QED
  BY <1>1, <1>2, <1>3, <1>4, <1>5

(* A file that has no row is on the disk for good only when an unlink failed,*)
(* when the process ended before it, or when a DELETE that took effect       *)
(* reported an error and its request returned (service.go Create, Delete).   *)
THEOREM OrphansHaveACulprit == Spec => OrphanHasCulprit
<1>1. ASSUME TypeOK, [Next]_vars, NEW d \in Docs, ~Adrift(d), Adrift(d)'
      PROVE  \/ phase' = "down"
             \/ \E r \in Reqs : /\ req[r].doc = d /\ d \in blobs'
                               /\ req[r].pc \in {"purge", "delBlob"}
             \/ \E r \in Reqs : DelRowUnsure(r) /\ req[r].doc = d
  <2>1. CASE UNCHANGED vars
    BY <1>1, <2>1 DEF vars, Adrift
  <2> QED
    BY <1>1, <2>1, OrphanCreate, OrphanDelete, OrphanOthers DEF Next, Request
<1>2. TypeOK /\ [Next]_vars =>
         [\A d \in Docs : ~Adrift(d) /\ Adrift(d)' =>
             \/ phase' = "down"
             \/ \E r \in Reqs : /\ req[r].doc = d /\ d \in blobs'
                               /\ req[r].pc \in {"purge", "delBlob"}
             \/ \E r \in Reqs : DelRowUnsure(r) /\ req[r].doc = d]_vars
  BY <1>1
<1> QED
  BY <1>2, TypeCorrect, PTL DEF Spec, OrphanHasCulprit

-----------------------------------------------------------------------------
(* Stale copies.                                                             *)

(* When the row of d and its cache entry are left alone, d stops being       *)
(* excused only because an invalidation it waited for is no longer owed.     *)
LEMMA StaleFrame ==
    ASSUME NEW d \in Docs, Excused(d), ~Excused(d)',
           rows'[d] = rows[d], cache'[d] \in {cache[d], Absent}
    PROVE  DropPending(d) /\ ~DropPending(d)' /\ cache'[d] # Absent
  BY DEF Excused, Stale

(* A request that owes no invalidation owes none to d after another's step.  *)
LEMMA DropFrame ==
    ASSUME TypeOK, NEW d, DropPending(d), ~DropPending(d)', work' = work,
           NEW r \in Reqs, NEW next, Step(r, next)
    PROVE  req[r].doc = d /\ req[r].pc \in {"patchDrop", "delDrop"}
  BY DEF DropPending, Step, TypeOK

(* An invalidation leaves no copy, of whatever age.                          *)
LEMMA InvalidateDrops ==
    ASSUME TypeOK, NEW d \in Docs, NEW e, Invalidate(e)
    PROVE  cache'[d] \in {cache[d], Absent} /\ (d = e => cache'[d] = Absent)
  BY DEF Invalidate, TypeOK

(* A row is inserted where there was none, so no copy of it is older.        *)
LEMMA StaleCreate ==
    ASSUME TypeOK, BlobInv, NEW d \in Docs, Excused(d), ~Excused(d)',
           NEW r \in Reqs, Create(r)
    PROVE  FALSE
<1> USE DEF table, queue, control
<1>1. PICK next : Step(r, next) /\ UNCHANGED <<cache, work>>
                  /\ req[r].pc \in {"idle", "insert", "purge", "enqueue"}
  BY DEF Create, BeginCreate, InsertOk, InsertUnsure, InsertRow, InsertFails,
         PurgeBlob, EnqueueNew
<1>2. DropPending(d) => DropPending(d)'
  BY <1>1, DropFrame
<1>3. rows'[d] # rows[d]
  BY <1>1, <1>2, StaleFrame
<1>4. InsertRow(r)
  BY <1>3 DEF Create, BeginCreate, InsertOk, InsertUnsure, InsertFails,
              PurgeBlob, EnqueueNew
<1>5. rows[d] = Absent
  BY <1>3, <1>4, BusyHasDoc DEF InsertRow, PutRow, BlobInv, Stored, TypeOK
<1> QED
  BY <1>1, <1>2, <1>5 DEF Excused, Stale

LEMMA StaleGet ==
    ASSUME TypeOK, NEW d \in Docs, Excused(d), ~Excused(d)',
           NEW r \in Reqs, Get(r)
    PROVE  req[r].pc = "fill" /\ req[r].doc = d /\ req[r].row # rows[d]
<1> USE DEF table, queue, control
<1>1. PICK next : Step(r, next) /\ UNCHANGED <<rows, work>>
                  /\ req[r].pc \in {"idle", "load", "fill"}
  BY DEF Get, BeginGet, LoadOk, LoadFails, Fill
<1>2. DropPending(d) => DropPending(d)'
  BY <1>1, DropFrame
<1>3. cache'[d] \notin {cache[d], Absent}
  BY <1>1, <1>2, StaleFrame
<1>4. Fill(r)
  BY <1>3 DEF Get, BeginGet, LoadOk, LoadFails, Fill
<1>5. req[r].doc = d /\ cache'[d] = req[r].row
  BY <1>3, <1>4 DEF Fill, TypeOK
<1> QED
  BY <1>1, <1>4, <1>5 DEF Fill, Excused, Stale

(* Whoever writes the row and is told so owes the invalidation, whoever owed *)
(* it has done it.                                                           *)
LEMMA StalePatch ==
    ASSUME TypeOK, NEW d \in Docs, Excused(d), ~Excused(d)',
           NEW r \in Reqs, Patch(r)
    PROVE  PatchUnsure(r) /\ req[r].doc = d
<1> USE DEF table, queue, control
<1>1. PICK next : Step(r, next) /\ UNCHANGED work
                  /\ req[r].pc \in {"idle", "write", "patchDrop"}
  BY DEF Patch, BeginPatch, PatchOk, PatchUnsure, WriteRow, PatchFails, PatchDrop
<1>2. ASSUME WriteRow(r) PROVE req[r].doc = d
  <2> SUFFICES ASSUME req[r].doc # d PROVE FALSE
    OBVIOUS
  <2>1. rows'[d] = rows[d] /\ cache' = cache /\ req[r].pc = "write"
    BY <1>2 DEF WriteRow, PutRow, TypeOK
  <2> QED
    BY <1>1, <2>1, StaleFrame, DropFrame
<1>5. ASSUME PatchOk(r) PROVE FALSE
  <2>1. req'[r] = At("patchDrop", req[r].doc) /\ req[r].doc = d
    BY <1>2, <1>5 DEF PatchOk, Step, TypeOK
  <2> QED
    BY <2>1 DEF Excused, DropPending, At
<1>6. CASE PatchUnsure(r)
  BY <1>2, <1>6 DEF PatchUnsure
<1>3. CASE PatchDrop(r)
  BY <1>1, <1>3, StaleFrame, DropFrame, InvalidateDrops DEF PatchDrop
<1>4. CASE PatchFails(r) \/ \E e \in Docs : BeginPatch(r, e)
  BY <1>1, <1>4, StaleFrame, DropFrame DEF PatchFails, BeginPatch
<1> QED
  BY <1>3, <1>4, <1>5, <1>6 DEF Patch

LEMMA StaleDelete ==
    ASSUME TypeOK, NEW d \in Docs, Excused(d), ~Excused(d)',
           NEW r \in Reqs, Delete(r)
    PROVE  DelRowUnsure(r) /\ req[r].doc = d
<1> USE DEF table, queue, control
<1>1. PICK next : Step(r, next) /\ UNCHANGED work
                  /\ req[r].pc \in {"idle", "delRow", "delDrop", "delBlob"}
  BY DEF Delete, BeginDelete, DelRowOk, DelRowUnsure, DropRow, DelRowFails,
         DelDrop, DelBlob
<1>2. ASSUME DropRow(r) PROVE req[r].doc = d
  <2> SUFFICES ASSUME req[r].doc # d PROVE FALSE
    OBVIOUS
  <2>1. rows'[d] = rows[d] /\ cache' = cache /\ req[r].pc = "delRow"
    BY <1>2 DEF DropRow, PutRow, TypeOK
  <2> QED
    BY <1>1, <2>1, StaleFrame, DropFrame
<1>5. ASSUME DelRowOk(r) PROVE FALSE
  <2>1. req'[r] = At("delDrop", req[r].doc) /\ req[r].doc = d
    BY <1>2, <1>5 DEF DelRowOk, Step, TypeOK
  <2> QED
    BY <2>1 DEF Excused, DropPending, At
<1>6. CASE DelRowUnsure(r)
  BY <1>2, <1>6 DEF DelRowUnsure
<1>3. CASE DelDrop(r)
  BY <1>1, <1>3, StaleFrame, DropFrame, InvalidateDrops DEF DelDrop
<1>4. CASE DelRowFails(r) \/ DelBlob(r) \/ \E e \in Docs : BeginDelete(r, e)
  BY <1>1, <1>4, StaleFrame, DropFrame DEF DelRowFails, DelBlob, BeginDelete
<1> QED
  BY <1>3, <1>4, <1>5, <1>6 DEF Delete

LEMMA StaleWork ==
    ASSUME TypeOK, NEW d \in Docs, Excused(d), ~Excused(d)',
           NEW w \in Workers, Work(w)
    PROVE  work[w].doc = d /\ (ReadyUnsure(w) \/ FailedUnsure(w))
<1> USE DEF table, queue, control
<1>1. req' = req /\ work \in [Workers -> WorkState]
  BY DEF Work, Take, MarkReady, MarkFailed, MarkOk, ReadyUnsure, FailedUnsure,
         PutStatus, MarkFails, MarkDrop, WorkerExit, TypeOK
<1>2. ASSUME NEW pc, NEW e, Go(w, pc, e), DropPending(d), ~DropPending(d)'
      PROVE  work[w].doc = d /\ work[w].pc = "markDrop"
  BY <1>1, <1>2 DEF DropPending, Go
<1>7. ASSUME NEW pc \in {"markReady", "markFailed"}, NEW st, PutStatus(w, pc, st),
             NEW next, NEW e, Go(w, next, e)
      PROVE  work[w].doc = d
  <2> SUFFICES ASSUME work[w].doc # d PROVE FALSE
    OBVIOUS
  <2>1. rows'[d] = rows[d] /\ cache' = cache
    BY <1>7 DEF PutStatus, PutRow, TypeOK
  <2> QED
    BY <1>2, <1>7, <2>1, StaleFrame
<1>3. ASSUME NEW pc \in {"markReady", "markFailed"}, NEW st, MarkOk(w, pc, st)
      PROVE  FALSE
  <2>1. work'[w] = Worker("markDrop", work[w].doc) /\ work[w].doc = d
    BY <1>3, <1>7 DEF MarkOk, Go, TypeOK
  <2> QED
    BY <2>1 DEF Excused, DropPending, Worker
<1>8. CASE ReadyUnsure(w) \/ FailedUnsure(w)
  BY <1>7, <1>8 DEF ReadyUnsure, FailedUnsure
<1>4. CASE MarkDrop(w)
  BY <1>2, <1>4, StaleFrame, InvalidateDrops DEF MarkDrop
<1>5. CASE Take(w) \/ WorkerExit(w)
  BY <1>2, <1>5, StaleFrame DEF Take, WorkerExit
<1>6. ASSUME NEW pc \in {"markReady", "markFailed"}, NEW next, NEW e,
             MarkFails(w, pc, next, e)
      PROVE  FALSE
  BY <1>2, <1>6, StaleFrame DEF MarkFails
<1> QED
  BY <1>3, <1>4, <1>5, <1>6, <1>8 DEF Work, MarkReady, MarkFailed

(* Two things leave a stale copy that no one will invalidate: a read that    *)
(* overlapped a write, and a write that took effect and reported an error.   *)
(* No write, deletion or status change that is told of its success forgets   *)
(* to invalidate (service.go Update, Delete, MarkStatus).                    *)
THEOREM StaleCopiesHaveACulprit == Spec => StaleHasCulprit
<1>1. ASSUME IndInv, [Next]_vars, NEW d \in Docs, Excused(d), ~Excused(d)'
      PROVE  \/ \E r \in Reqs : /\ req[r].pc = "fill" /\ req[r].doc = d
                                /\ req[r].row # rows[d]
             \/ WritesUnsure(d)
  <2> USE DEF table, queue, control
  <2>1. ~UNCHANGED <<rows, cache, req, work>>
    BY <1>1 DEF Excused, Stale, DropPending
  <2>2. ~UNCHANGED vars
    BY <2>1 DEF vars
  <2>3. ASSUME NEW e \in Docs, Expire(e) PROVE FALSE
    BY <1>1, <2>3, StaleFrame, InvalidateDrops
       DEF Expire, DropPending, IndInv
  <2>4. ~Run
    <3>1. ~ProcessEnds
      BY <1>1 DEF ProcessEnds, Excused, Stale
    <3>2. ~Boot
      BY <1>1 DEF Boot, Worker, Excused, Stale, DropPending, IndInv, Jobs,
                  JobInv, AllExited
    <3> QED
      BY <2>1, <3>1, <3>2
         DEF Run, Recover, RequeueList, RequeueGivesUp, RequeueOne, RequeueNext,
             RequeueDone, Signal, BeginStop, Deadline, StopHTTP, Exit,
             ListenFails, Crash
  <2> QED
    BY <1>1, <2>2, <2>3, <2>4, StaleCreate, StaleGet, StalePatch, StaleDelete,
       StaleWork DEF Next, Request, IndInv, WritesUnsure
<1>2. IndInv /\ [Next]_vars =>
         [\A d \in Docs : Excused(d) /\ ~Excused(d)' =>
             \/ \E r \in Reqs : /\ req[r].pc = "fill" /\ req[r].doc = d
                               /\ req[r].row # rows[d]
             \/ WritesUnsure(d)]_vars
  BY <1>1
<1> QED
  BY <1>2, IndCorrect, PTL DEF Spec, StaleHasCulprit

-----------------------------------------------------------------------------
(* The shutdown.                                                             *)

(* Why GracefulExitDrains holds: the queue is closed in the last stage only, *)
(* which is entered without requests unless the deadline struck; a worker of *)
(* a running process leaves only a closed and empty queue.                   *)
DrainInv ==
    /\ closed <=> phase = "workerDrain"
    /\ phase = "workerDrain" /\ ~late => AllIdle
    /\ phase # "down" =>
          \A w \in Workers : work[w].pc = "exited" => closed /\ jobs = <<>>

(* A request step: none starts after a drain that was in time, and an upload *)
(* that arrives at a closed queue changes nothing there.                     *)
LEMMA DrainRequest ==
    ASSUME IndInv, DrainInv, NEW r \in Reqs, Request(r)
    PROVE  DrainInv'
<1> USE DEF table, queue, control
<1>1. UNCHANGED <<closed, phase, late, work>>
  BY DEF Request, Create, BeginCreate, InsertOk, InsertUnsure, InsertRow,
         InsertFails, PurgeBlob, EnqueueNew, Get, BeginGet, LoadOk, LoadFails,
         Fill, Patch, BeginPatch, PatchOk, PatchUnsure, WriteRow, PatchFails,
         PatchDrop, Delete, BeginDelete, DelRowOk, DelRowUnsure, DropRow,
         DelRowFails, DelDrop, DelBlob
<1>2. req[r].pc # "idle" \/ Accepting
  BY DEF Request, Create, BeginCreate, InsertOk, InsertUnsure, InsertRow,
         InsertFails, PurgeBlob, EnqueueNew, Get, BeginGet, LoadOk, LoadFails,
         Fill, Patch, BeginPatch, PatchOk, PatchUnsure, WriteRow, PatchFails,
         PatchDrop, Delete, BeginDelete, DelRowOk, DelRowUnsure, DropRow,
         DelRowFails, DelDrop, DelBlob
<1>3. closed => jobs' = jobs
  BY DEF Request, Create, BeginCreate, InsertOk, InsertUnsure, InsertRow,
         InsertFails, PurgeBlob, EnqueueNew, Get, BeginGet, LoadOk, LoadFails,
         Fill, Patch, BeginPatch, PatchOk, PatchUnsure, WriteRow, PatchFails,
         PatchDrop, Delete, BeginDelete, DelRowOk, DelRowUnsure, DropRow,
         DelRowFails, DelDrop, DelBlob, Enqueue, CanSend
<1>4. ~(phase = "workerDrain" /\ ~late)
  BY <1>2 DEF DrainInv, AllIdle, Accepting
<1> QED
  BY <1>1, <1>3, <1>4 DEF DrainInv

LEMMA DrainWork ==
    ASSUME IndInv, DrainInv, NEW w \in Workers, Work(w)
    PROVE  DrainInv'
<1> USE DEF table, queue, control
<1>1. UNCHANGED <<closed, phase, late, req>>
  BY DEF Work, Take, MarkReady, MarkFailed, MarkOk, ReadyUnsure, FailedUnsure,
         PutStatus, MarkFails, MarkDrop, WorkerExit
<1>2. \A v \in Workers \ {w} : work'[v] = work[v]
  BY DEF Work, Take, MarkReady, MarkFailed, MarkOk, ReadyUnsure, FailedUnsure,
         PutStatus, MarkFails, MarkDrop, WorkerExit, Go, IndInv, TypeOK
<1>3. jobs' = jobs \/ jobs # <<>>
  BY DEF Work, Take, MarkReady, MarkFailed, MarkOk, ReadyUnsure, FailedUnsure,
         PutStatus, MarkFails, MarkDrop, WorkerExit
<1>4. work'[w].pc = "exited" => closed /\ jobs' = <<>>
  BY DEF Work, Take, MarkReady, MarkFailed, MarkOk, ReadyUnsure, FailedUnsure,
         PutStatus, MarkFails, MarkDrop, WorkerExit, Go, Worker, IndInv, TypeOK
<1> QED
  BY <1>1, <1>2, <1>3, <1>4 DEF DrainInv, AllIdle

LEMMA DrainRun ==
    ASSUME IndInv, DrainInv, Run
    PROVE  DrainInv'
<1> USE DEF table, queue, control
<1>1. CASE ProcessEnds
  BY <1>1 DEF ProcessEnds, DrainInv
<1>2. CASE Boot
  BY <1>2 DEF Boot, Worker, DrainInv
<1>3. CASE Recover
  <2>1. closed = FALSE /\ closed' = closed /\ phase' \in {"recovering", "serving"}
        /\ phase = "recovering" /\ work' = work
    BY <1>3 DEF Recover, RequeueList, RequeueGivesUp, RequeueOne, RequeueNext,
                RequeueDone, DrainInv, IndInv, TypeOK
  <2> QED
    BY <2>1 DEF DrainInv
<1>4. CASE Signal \/ BeginStop \/ Deadline \/ StopHTTP
  BY <1>4 DEF Signal, BeginStop, Deadline, StopHTTP, DrainInv, AllIdle
<1> QED
  BY <1>1, <1>2, <1>3, <1>4 DEF Run, Exit, ListenFails, Crash

LEMMA DrainCorrect == Spec => []DrainInv
<1>1. Init => DrainInv
  BY DEF Init, DrainInv
<1>2. IndInv /\ DrainInv /\ [Next]_vars => DrainInv'
  <2> SUFFICES ASSUME IndInv, DrainInv, [Next]_vars PROVE DrainInv'
    OBVIOUS
  <2>1. CASE UNCHANGED vars
    BY <2>1 DEF vars, DrainInv, AllIdle
  <2>2. ASSUME NEW d \in Docs, Expire(d) PROVE DrainInv'
    BY <2>2 DEF Expire, DrainInv, AllIdle, queue, control
  <2> QED
    BY <2>1, <2>2, DrainRequest, DrainWork, DrainRun DEF Next
<1> QED
  BY <1>1, <1>2, IndCorrect, PTL DEF Spec

(* A shutdown that beats its deadline leaves nothing undone: whatever was    *)
(* queued has been through a worker (main.go run, indexer.go Shutdown).      *)
THEOREM GracefulExitIsClean == Spec => GracefulExitDrains
<1>1. ASSUME IndInv, DrainInv, Exit, ~late
      PROVE  AllIdle /\ jobs = <<>> /\ InHand = {}
  <2>1. phase = "workerDrain" /\ AllExited /\ AllIdle
    BY <1>1 DEF Exit, DrainInv
  <2>2. jobs = <<>>
    BY <1>1, <2>1, WorkersAssumption DEF DrainInv, AllExited
  <2>3. \A w \in Workers : work[w].doc = 0
    BY <1>1, <2>1 DEF AllExited, IndInv, TypeOK, WorkState, JobPcs
  <2> QED
    BY <2>1, <2>2, <2>3 DEF InHand
<1>2. IndInv /\ DrainInv =>
         [Exit /\ ~late => AllIdle /\ jobs = <<>> /\ InHand = {}]_vars
  BY <1>1
<1> QED
  BY <1>2, IndCorrect, DrainCorrect, PTL DEF GracefulExitDrains

-----------------------------------------------------------------------------
(* The backlog.                                                              *)

Enqueuing == {req[r].doc : r \in {q \in Reqs : req[q].pc = "enqueue"}}

(* With room for every document in a page and in the queue, and no statement *)
(* that fails without effect, but for those of jobs whose time was up.       *)
Roomy == PageSize >= NumDocs /\ QueueSize >= NumDocs /\ "db" \notin Faults

(* Why NothingStranded holds: the first page of recovery is the whole        *)
(* backlog, so that there is nothing left for a second, and what leaves the  *)
(* page, an upload or the queue reaches the next of them; a job that is      *)
(* being finished is no longer pending.                                      *)
BacklogInv ==
    /\ \A w \in Workers : work[w].pc = "markDrop" => work[w].doc \notin Pending
    /\ scan.pc = "list" /\ scan.offset # 0 => Pending \subseteq Queued \cup InHand
    /\ scan.pc = "page" => Pending \subseteq Queued \cup InHand \cup scan.page
    /\ phase = "serving" /\ ~signalled =>
          Pending \subseteq Queued \cup InHand \cup Enqueuing \cup doubtful

(* The queue holds each document once, so it cannot be full of others.       *)
LEMMA QueueHasRoom ==
    ASSUME TypeOK, OneJobPerDoc, QueueSize >= NumDocs, NEW d \in Docs \ Queued
    PROVE  Len(jobs) < QueueSize
<1> DEFINE D == Docs \ {d}
<1>1. /\ IsFiniteSet(D) /\ Cardinality(D) = NumDocs - 1
      /\ NumDocs \in Nat /\ QueueSize \in Nat
  <2>1. IsFiniteSet(Docs) /\ Cardinality(Docs) = NumDocs
    BY FS_Interval, NumDocsAssumption DEF Docs
  <2>2. QueueSize \in Nat /\ NumDocs \in Nat
    BY NumDocsAssumption, SizesAssumption
  <2> QED
    BY <2>1, <2>2, FS_RemoveElement
<1>2. Len(jobs) \in Nat /\ jobs \in [1 .. Len(jobs) -> D]
  BY LenProperties DEF TypeOK, Queued
<1>3. /\ IsFiniteSet(1 .. Len(jobs))
      /\ Cardinality(1 .. Len(jobs)) = Len(jobs)
  <2>1. \A n \in Nat : IsFiniteSet(1 .. n) /\ Cardinality(1 .. n) = n
    BY FS_Interval
  <2> QED
    BY <1>2, <2>1
<1>4. ~(Cardinality(D) < Cardinality(1 .. Len(jobs)))
  <2> HIDE DEF D
  <2> QED
    BY <1>1, <1>2, <1>3, FS_PigeonHole DEF OneJobPerDoc
<1> QED
  BY <1>1, <1>2, <1>3, <1>4

(* An enqueue then never drops the document.                                 *)
LEMMA EnqueueKeeps ==
    ASSUME TypeOK, OneJobPerDoc, QueueSize >= NumDocs, ~closed,
           NEW d \in Docs \ Queued, Enqueue(d)
    PROVE  Queued' = Queued \cup {d}
<1>1. jobs' = Append(jobs, d) /\ jobs \in Seq(Docs) /\ d \in Docs
  BY QueueHasRoom DEF Enqueue, CanSend, TypeOK
<1>2. /\ Len(jobs) \in Nat /\ Len(jobs') = Len(jobs) + 1
      /\ \A i \in 1 .. Len(jobs) : jobs'[i] = jobs[i]
      /\ jobs'[Len(jobs) + 1] = d
  BY <1>1, AppendProperties, LenProperties
<1> QED
  BY <1>2 DEF Queued

(* A page with room for the table holds the whole backlog.                   *)
LEMMA FirstPage == ASSUME TypeOK, PageSize >= NumDocs PROVE Page(0) = Pending
<1>1. IsFiniteSet(Docs) /\ Cardinality(Docs) = NumDocs /\ NumDocs \in Nat
      /\ PageSize \in Nat
  BY FS_Interval, NumDocsAssumption, SizesAssumption DEF Docs
<1>2. Pending \in SUBSET Docs
  BY DEF Pending, Stored
<1>3. \A d \in Pending : Rank(d) \in 0 .. 0 + PageSize - 1
  <2> SUFFICES ASSUME NEW d \in Pending PROVE Rank(d) \in 0 .. 0 + PageSize - 1
    OBVIOUS
  <2>1. {e \in Pending : e > d} \in SUBSET (Docs \ {d}) /\ d \in Docs
    <3>1. d \in Docs /\ d \in Int /\ ~(d > d)
      BY <1>1, <1>2 DEF Docs
    <3> QED
      BY <1>2, <3>1
  <2>2. IsFiniteSet(Docs \ {d}) /\ Cardinality(Docs \ {d}) = NumDocs - 1
    BY <1>1, <2>1, FS_RemoveElement
  <2>3. Rank(d) <= NumDocs - 1
    BY <2>1, <2>2, FS_Subset DEF Rank
  <2>4. Rank(d) \in Nat
    BY RankType
  <2> QED
    BY <1>1, <2>3, <2>4
<1> QED
  BY <1>3 DEF Page

(* A request step that adds to the backlog, or stops enqueuing, only what is *)
(* then on its way, and nothing that a worker is finishing.                  *)
LEMMA BacklogRequestFrame ==
    ASSUME TypeOK, BacklogInv, UNCHANGED <<scan, phase, signalled, work>>,
           scan.pc = "off", Queued \subseteq Queued',
           \A d \in Pending' \ Pending : d \notin InHand,
           doubtful \cap Pending' \subseteq doubtful',
           phase = "serving" =>
              Enqueuing \cup (Pending' \ Pending)
                 \subseteq Enqueuing' \cup Queued' \cup doubtful'
    PROVE  BacklogInv'
<1>1. InHand' = InHand
  BY DEF InHand
<1>2. \A w \in Workers : work[w].pc = "markDrop" => work[w].doc \in InHand
  BY BusyHasDoc, NumDocsAssumption DEF InHand, JobPcs, Docs
<1> QED
  BY <1>1, <1>2 DEF BacklogInv

LEMMA BacklogRequest ==
    ASSUME IndInv, DrainInv, Roomy, BacklogInv, NEW r \in Reqs, Request(r)
    PROVE  BacklogInv'
<1> USE DEF table, queue, control
<1>1. UNCHANGED <<scan, phase, signalled, work>> /\ TypeOK
  BY DEF Request, Create, BeginCreate, InsertOk, InsertUnsure, InsertRow,
         InsertFails, PurgeBlob, EnqueueNew, Get, BeginGet, LoadOk, LoadFails,
         Fill, Patch, BeginPatch, PatchOk, PatchUnsure, WriteRow, PatchFails,
         PatchDrop, Delete, BeginDelete, DelRowOk, DelRowUnsure, DropRow,
         DelRowFails, DelDrop, DelBlob, IndInv
<1>2. scan.pc = "off"
  <2>1. req[r].pc # "idle" \/ phase \notin {"down", "recovering"}
    BY DEF Request, Create, BeginCreate, InsertOk, InsertUnsure, InsertRow,
           InsertFails, PurgeBlob, EnqueueNew, Get, BeginGet, LoadOk, LoadFails,
           Fill, Patch, BeginPatch, PatchOk, PatchUnsure, WriteRow, PatchFails,
           PatchDrop, Delete, BeginDelete, DelRowOk, DelRowUnsure, DropRow,
           DelRowFails, DelDrop, DelBlob, Accepting
  <2> QED
    BY <2>1, NoScanWhileServing DEF IndInv, Jobs
<1>3. ASSUME NEW next, Step(r, next)
      PROVE  \A d \in Enqueuing : \/ d \in Enqueuing'
                                  \/ (req[r].pc = "enqueue" /\ req[r].doc = d)
  BY <1>1, <1>3 DEF Enqueuing, Step, TypeOK
<1>4. CASE InsertOk(r) \/ InsertUnsure(r)
  <2> DEFINE d == req[r].doc
  <2>0. InsertRow(r) /\ doubtful \subseteq doubtful'
    BY <1>4 DEF InsertOk, InsertUnsure
  <2>1. PICK row \in Row : row.status = "pending" /\ PutRow(d, row)
    BY <2>0 DEF InsertRow, Row, Statuses
  <2>2. Pending' \subseteq Pending \cup {d}
    BY <1>1, <2>1 DEF PutRow, Pending, Stored, TypeOK
  <2>3. d \in Enqueuing' \cup doubtful'
    BY <1>1, <1>4 DEF InsertOk, InsertUnsure, Enqueuing, Step, At, TypeOK
  <2>4. d \notin InHand /\ jobs' = jobs
    BY <2>0 DEF InsertRow, IndInv, Jobs, JobInv, Uploading
  <2>5. Enqueuing \subseteq Enqueuing'
    BY <1>3, <1>4, <2>0 DEF InsertOk, InsertUnsure, InsertRow
  <2> HIDE DEF d
  <2> QED
    BY <1>1, <1>2, <2>0, <2>2, <2>3, <2>4, <2>5, BacklogRequestFrame DEF Queued
<1>5. CASE EnqueueNew(r)
  <2> DEFINE d == req[r].doc
  <2>1. /\ d \in Docs \ Queued /\ Enqueue(d)
        /\ rows' = rows /\ doubtful' = doubtful
    BY <1>1, <1>5, BusyHasDoc DEF EnqueueNew, IndInv, Jobs, JobInv, Uploading
  <2>2. CASE closed
    BY <1>1, <1>2, <2>1, <2>2, BacklogRequestFrame
       DEF DrainInv, Enqueue, CanSend, Queued, Pending, Stored
  <2>3. CASE ~closed
    <3>1. Queued' = Queued \cup {d}
      BY <1>1, <2>1, <2>3, EnqueueKeeps DEF Roomy, IndInv, Jobs
    <3>2. Enqueuing \subseteq Enqueuing' \cup {d}
      BY <1>3, <1>5 DEF EnqueueNew
    <3> QED
      BY <1>1, <1>2, <2>1, <3>1, <3>2, BacklogRequestFrame DEF Pending, Stored
  <2> QED
    BY <2>2, <2>3
<1>6. CASE ~InsertOk(r) /\ ~InsertUnsure(r) /\ ~EnqueueNew(r)
  <2>1. PICK next : Step(r, next) /\ req[r].pc # "enqueue" /\ jobs' = jobs
    BY <1>6 DEF Request, Create, BeginCreate, InsertFails, PurgeBlob,
                Get, BeginGet, LoadOk, LoadFails, Fill, Patch,
                BeginPatch, PatchOk, PatchUnsure, WriteRow, PatchFails, PatchDrop,
                Delete, BeginDelete, DelRowOk, DelRowUnsure, DropRow, DelRowFails,
                DelDrop, DelBlob
  <2>2. Pending' \subseteq Pending /\ doubtful \cap Pending' \subseteq doubtful'
    <3>1. CASE WriteRow(r)
      BY <1>1, <3>1 DEF WriteRow, PutRow, Edited, Pending, Stored, TypeOK
    <3>2. CASE DropRow(r)
      BY <1>1, <3>2 DEF DropRow, PutRow, Pending, Stored, TypeOK
    <3>3. CASE rows' = rows /\ doubtful' = doubtful
      BY <3>3 DEF Pending, Stored
    <3> QED
      BY <1>6, <3>1, <3>2, <3>3
         DEF Request, Create, BeginCreate, InsertFails, PurgeBlob,
             Get, BeginGet, LoadOk, LoadFails, Fill, Patch,
             BeginPatch, PatchOk, PatchUnsure, PatchFails, PatchDrop, Delete,
             BeginDelete, DelRowOk, DelRowUnsure, DelRowFails, DelDrop, DelBlob
  <2>3. Enqueuing \subseteq Enqueuing'
    BY <1>3, <2>1
  <2> QED
    BY <1>1, <1>2, <2>1, <2>2, <2>3, BacklogRequestFrame DEF Queued
<1> QED
  BY <1>4, <1>5, <1>6

(* A worker step: what leaves the queue is in its hands, and what it lets go *)
(* of is no longer pending.                                                  *)
LEMMA BacklogWorkFrame ==
    ASSUME TypeOK, BacklogInv, NEW w \in Workers, NEW pc, NEW d, Go(w, pc, d),
           UNCHANGED <<scan, phase, signalled, req, doubtful>>,
           Pending' \subseteq Pending,
           d \in Pending' => d # 0,
           Pending' \cap Queued \subseteq Queued' \cup {d},
           work[w].doc \in Pending' => d = work[w].doc,
           pc = "markDrop" => d \notin Pending'
    PROVE  BacklogInv'
<1>1. /\ \A v \in Workers \ {w} : work'[v] = work[v]
      /\ work'[w].pc = pc /\ work'[w].doc = d
  BY InHandAfter
<1>2. Pending' \cap (InHand \cup {d}) \subseteq InHand'
  BY <1>1 DEF InHand
<1>3. Enqueuing' = Enqueuing
  BY DEF Enqueuing
<1> QED
  BY <1>1, <1>2, <1>3 DEF BacklogInv

LEMMA BacklogWork ==
    ASSUME IndInv, Roomy, BacklogInv, NEW w \in Workers, Work(w)
    PROVE  BacklogInv'
<1> USE DEF table, queue, control
<1>0. TypeOK /\ OneJobPerDoc /\ 0 \notin Pending
  BY NumDocsAssumption DEF IndInv, Jobs, Pending, Stored, Docs
<1>1. CASE Take(w)
  <2>1. PICK d : d = Head(jobs)
    OBVIOUS
  <2>2. Queued' = Queued \ {d}
    BY <1>0, <1>1, <2>1, TakeQueued DEF Take
  <2>3. work[w].doc = 0
    BY <1>0, <1>1 DEF Take, TypeOK, WorkState, JobPcs
  <2>4. Pending' = Pending /\ Go(w, "markReady", d)
        /\ UNCHANGED <<scan, phase, signalled, req, doubtful>>
    BY <1>1, <2>1 DEF Take, Pending, Stored
  <2> QED
    BY <1>0, <2>2, <2>3, <2>4, BacklogWorkFrame
<1>2. ASSUME NEW pc \in {"markReady", "markFailed"},
             NEW st \in {"ready", "failed"}, PutStatus(w, pc, st),
             NEW next, NEW e \in {0, work[w].doc}, Go(w, next, e)
      PROVE  BacklogInv'
  <2> DEFINE d == work[w].doc
  <2>1. d \in Stored /\ d \in Docs /\ PutRow(d, WithStatus(d, st))
    BY <1>0, <1>2, StoredRow DEF PutStatus
  <2>2. WithStatus(d, st).status = st
    BY <1>0, <2>1, StoredRow DEF WithStatus, Row
  <2>3. Pending' \subseteq Pending \ {d}
    BY <1>0, <2>1, <2>2 DEF Stored, Pending, PutRow, TypeOK
  <2>4. /\ Queued' = Queued
        /\ UNCHANGED <<scan, phase, signalled, req, doubtful>>
    BY <1>2 DEF PutStatus, Queued
  <2> QED
    BY <1>0, <1>2, <2>3, <2>4, BacklogWorkFrame
<1>3. ASSUME MarkFails(w, "markReady", "markFailed", work[w].doc) PROVE BacklogInv'
  <2>1. /\ Queued' = Queued /\ Pending' = Pending
        /\ Go(w, "markFailed", work[w].doc)
        /\ UNCHANGED <<scan, phase, signalled, req, doubtful>>
    BY <1>3 DEF MarkFails, Queued, Pending, Stored
  <2> QED
    BY <1>0, <2>1, BacklogWorkFrame
<1>5. ASSUME MarkFails(w, "markFailed", "idle", 0) PROVE BacklogInv'
  <2>1. work[w].doc \notin Pending
    BY <1>5 DEF MarkFails, Fault, Roomy, Pending
  <2>2. /\ Queued' = Queued /\ Pending' = Pending /\ Go(w, "idle", 0)
        /\ UNCHANGED <<scan, phase, signalled, req, doubtful>>
    BY <1>5 DEF MarkFails, Queued, Pending, Stored
  <2> QED
    BY <1>0, <2>1, <2>2, BacklogWorkFrame
<1>6. ASSUME NEW pc \in {"markReady", "markFailed"},
             NEW st \in {"ready", "failed"}, MarkOk(w, pc, st)
      PROVE  BacklogInv'
  BY <1>2, <1>6 DEF MarkOk
<1>7. CASE ReadyUnsure(w) \/ FailedUnsure(w)
  BY <1>2, <1>7 DEF ReadyUnsure, FailedUnsure
<1>4. CASE MarkDrop(w) \/ WorkerExit(w)
  <2>1. work[w].doc \notin Pending
    BY <1>0, <1>4
       DEF MarkDrop, WorkerExit, BacklogInv, TypeOK, WorkState, JobPcs
  <2>2. PICK pc \in {"idle", "exited"} : Go(w, pc, 0)
    BY <1>4 DEF MarkDrop, WorkerExit
  <2>3. /\ Queued' = Queued /\ Pending' = Pending
        /\ UNCHANGED <<scan, phase, signalled, req, doubtful>>
    BY <1>4 DEF MarkDrop, WorkerExit, Queued, Pending, Stored
  <2> QED
    BY <1>0, <2>1, <2>2, <2>3, BacklogWorkFrame
<1> QED
  BY <1>1, <1>3, <1>4, <1>5, <1>6, <1>7 DEF Work, MarkReady, MarkFailed

LEMMA BacklogRecover ==
    ASSUME IndInv, DrainInv, Roomy, BacklogInv, Recover
    PROVE  BacklogInv'
<1> USE DEF table, queue, control
<1>1. TypeOK /\ OneJobPerDoc /\ JobInv
  BY DEF IndInv, Jobs
<1>2. UNCHANGED <<work, rows, doubtful, signalled, req>> /\ phase = "recovering"
  BY DEF Recover, RequeueList, RequeueGivesUp, RequeueOne, RequeueNext,
         RequeueDone
<1>3. UNCHANGED <<InHand, Pending, Enqueuing>>
  BY <1>2 DEF InHand, Pending, Stored, Enqueuing
<1>4. CASE RequeueList
  <2>1. /\ scan.pc = "list" /\ scan'.pc = "page"
        /\ scan'.page = Page(scan.offset)
    BY <1>4 DEF RequeueList, Scan
  <2>2. Queued' = Queued
    BY <1>4 DEF RequeueList, Queued
  <2>3. CASE scan.offset = 0
    <3>1. scan'.page = Pending
      BY <1>1, <2>1, <2>3, FirstPage DEF Roomy
    <3> QED
      BY <1>2, <1>3, <1>4, <2>1, <3>1 DEF RequeueList, BacklogInv
  <2>4. CASE scan.offset # 0
    BY <1>2, <1>3, <1>4, <2>1, <2>2, <2>4 DEF RequeueList, BacklogInv
  <2> QED
    BY <2>3, <2>4
<1>5. CASE RequeueGivesUp
  BY <1>2, <1>3, <1>5
     DEF RequeueGivesUp, NoScan, Scan, BacklogInv, Fault, Roomy
<1>6. CASE RequeueOne
  <2>1. PICK d \in scan.page :
           /\ Enqueue(d)
           /\ scan' = Scan("page", scan.offset, scan.page \ {d}, scan.last)
    BY <1>6 DEF RequeueOne
  <2>2. scan'.pc = "page" /\ scan'.page = scan.page \ {d}
    BY <2>1 DEF Scan
  <2>3. d \in Docs \ Queued
    BY <1>1, <1>6, <2>1 DEF RequeueOne, JobInv, Pending, Stored
  <2>4. ~closed
    BY <1>2 DEF DrainInv
  <2>5. Queued' = Queued \cup {d}
    BY <1>1, <2>1, <2>3, <2>4, EnqueueKeeps DEF Roomy
  <2> QED
    BY <1>2, <1>3, <1>6, <2>2, <2>5 DEF RequeueOne, BacklogInv
<1>7. CASE RequeueNext
  <2>1. Queued' = Queued /\ scan'.pc = "list" /\ phase' = phase
    BY <1>7 DEF RequeueNext, Scan, Queued
  <2>2. Pending \subseteq Queued \cup InHand
    BY <1>7 DEF RequeueNext, BacklogInv
  <2> QED
    BY <1>2, <1>3, <2>1, <2>2 DEF BacklogInv
<1>8. CASE RequeueDone
  <2>1. Queued' = Queued /\ scan'.pc = "off" /\ phase' = "serving"
    BY <1>8 DEF RequeueDone, NoScan, Scan, Queued
  <2>2. Pending \subseteq Queued \cup InHand
    BY <1>8 DEF RequeueDone, BacklogInv
  <2> QED
    BY <1>2, <1>3, <2>1, <2>2 DEF BacklogInv
<1> QED
  BY <1>4, <1>5, <1>6, <1>7, <1>8 DEF Recover

LEMMA BacklogRun ==
    ASSUME IndInv, DrainInv, Roomy, BacklogInv, Run
    PROVE  BacklogInv'
<1> USE DEF table, queue, control
<1>1. CASE ProcessEnds
  BY <1>1 DEF ProcessEnds, NoScan, Scan, Worker, BacklogInv
<1>2. CASE Boot
  BY <1>2 DEF Boot, Scan, Worker, BacklogInv
<1>3. CASE Signal \/ BeginStop \/ Deadline \/ StopHTTP
  <2>1. UNCHANGED <<Queued, InHand, Pending, Enqueuing, scan, work, doubtful>>
    BY <1>3 DEF Signal, BeginStop, Deadline, StopHTTP, Queued, InHand, Pending,
                Stored, Enqueuing
  <2>2. phase' = "serving" /\ ~signalled' => phase = "serving" /\ ~signalled
    BY <1>3 DEF Signal, BeginStop, Deadline, StopHTTP
  <2> QED
    BY <2>1, <2>2 DEF BacklogInv
<1> QED
  BY <1>1, <1>2, <1>3, BacklogRecover DEF Run, Exit, ListenFails, Crash

LEMMA BacklogAlways == ASSUME Roomy PROVE Spec => []BacklogInv
<1>1. Init => BacklogInv
  BY DEF Init, BacklogInv, Worker, NoScan, Scan
<1>2. ASSUME IndInv, DrainInv, BacklogInv, [Next]_vars PROVE BacklogInv'
  <2>1. ASSUME UNCHANGED <<rows, doubtful, jobs, work, req, phase, scan, signalled>>
        PROVE  BacklogInv'
    <3>1. UNCHANGED <<Queued, InHand, Pending, Enqueuing>>
      BY <2>1 DEF Queued, InHand, Pending, Stored, Enqueuing
    <3> QED
      BY <1>2, <2>1, <3>1 DEF BacklogInv
  <2>2. CASE UNCHANGED vars
    BY <2>1, <2>2 DEF vars
  <2>3. ASSUME NEW d \in Docs, Expire(d) PROVE BacklogInv'
    BY <2>1, <2>3 DEF Expire, table, queue, control
  <2> QED
    BY <1>2, <2>2, <2>3, BacklogRequest, BacklogWork, BacklogRun DEF Next
<1> QED
  BY <1>1, <1>2, IndCorrect, DrainCorrect, PTL DEF Spec

(* While the service runs, every pending document has someone who will index *)
(* it: the queue, a worker, or the upload that is about to enqueue it; the   *)
(* exception is a row whose upload was answered with an error.               *)
THEOREM NoneStranded == Spec => []NothingStranded
<1>1. CASE ~Roomy
  <2>1. NothingStranded
    BY <1>1 DEF NothingStranded, Roomy
  <2> QED
    BY <2>1, PTL
<1>2. CASE Roomy
  <2>1. BacklogInv => NothingStranded
    BY DEF BacklogInv, NothingStranded, Enqueuing
  <2> QED
    BY <1>2, <2>1, BacklogAlways, PTL
<1> QED
  BY <1>1, <1>2

(* What the comment of RequeuePending says of recovery is true of a backlog  *)
(* that fits one page and the queue, when no statement fails without effect. *)
THEOREM RoomyRecoveryIsComplete == Roomy => (Spec => RequeueRecoversAll)
<1> SUFFICES ASSUME Roomy PROVE Spec => RequeueRecoversAll
  OBVIOUS
<1>1. BacklogInv => [RequeueDone => Pending \subseteq Queued \cup InHand]_vars
  BY DEF BacklogInv, RequeueDone
<1> QED
  BY <1>1, BacklogAlways, PTL DEF RequeueRecoversAll

-----------------------------------------------------------------------------
(* Overlapping PATCHes.                                                      *)

(* What a PATCH will write back, in the fields it did not send, is what the  *)
(* row has.                                                                  *)
Fresh(r) ==
    req[r].pc = "write" /\ req[r].doc \in Stored =>
        \A f \in Fields \ req[r].sent : req[r].row[f] = rows[req[r].doc][f]

(* A PATCH is about a row that is there or has been deleted: never about one *)
(* that is still to be inserted.                                             *)
PatchInv == \A r \in Reqs : req[r].pc = "write" => req[r].doc \in Stored \cup removed

(* The statements that change a row.                                         *)
LEMMA TableSteps ==
    ASSUME [Next]_vars
    PROVE  \/ UNCHANGED <<rows, removed>>
           \/ \E q \in Reqs : InsertRow(q) \/ Writes(q) \/ DropRow(q)
           \/ \E w \in Workers, st \in Statuses : PutStatus(w, work[w].pc, st)
<1> USE DEF table, queue, control
<1>1. CASE \E q \in Reqs : Request(q)
  BY <1>1
  DEF Request, Create, Get, Patch, Delete, BeginCreate, InsertOk, InsertUnsure,
      InsertFails, PurgeBlob, EnqueueNew, BeginGet, LoadOk, LoadFails, Fill,
      BeginPatch, Writes, PatchFails, PatchDrop, BeginDelete, DelRowOk,
      DelRowUnsure, DelRowFails, DelDrop, DelBlob
<1>2. CASE \E w \in Workers : Work(w)
  <2>1. PICK w \in Workers : Work(w)
    BY <1>2
  <2>2. ASSUME NEW pc, NEW st \in Statuses, PutStatus(w, pc, st)
        PROVE  PutStatus(w, work[w].pc, st)
    BY <2>2 DEF PutStatus
  <2>3. "ready" \in Statuses /\ "failed" \in Statuses
    BY DEF Statuses
  <2> QED
    BY <2>1, <2>2, <2>3
    DEF Work, Take, MarkReady, MarkFailed, MarkOk, ReadyUnsure, FailedUnsure,
        MarkFails, MarkDrop, WorkerExit
<1>3. CASE (\E d \in Docs : Expire(d)) \/ Run \/ UNCHANGED vars
  BY <1>3
  DEF Expire, Run, Boot, Recover, RequeueList, RequeueGivesUp, RequeueOne,
      RequeueNext, RequeueDone, Signal, BeginStop, Deadline, StopHTTP, Exit,
      ListenFails, Crash, ProcessEnds, vars
<1> QED
  BY <1>1, <1>2, <1>3 DEF Next

(* How a request comes to be about to write.                                 *)
LEMMA WriteBegins ==
    ASSUME TypeOK, [Next]_vars, NEW r \in Reqs, req'[r].pc = "write"
    PROVE  req'[r] = req[r] \/ \E d \in Docs : BeginPatch(r, d)
<1> USE DEF table, queue, control
<1>1. ASSUME NEW q \in Reqs, Request(q)
      PROVE  req'[r] = req[r] \/ \E d \in Docs : BeginPatch(r, d)
  <2>1. CASE q # r
    <3>1. PICK next : Step(q, next)
      BY <1>1
      DEF Request, Create, Get, Patch, Delete, BeginCreate, InsertOk,
          InsertUnsure, InsertFails, PurgeBlob, EnqueueNew, BeginGet, LoadOk,
          LoadFails, Fill, BeginPatch, PatchOk, PatchUnsure, PatchFails,
          PatchDrop, BeginDelete, DelRowOk, DelRowUnsure, DelRowFails, DelDrop,
          DelBlob
    <3> QED
      BY <2>1, <3>1 DEF Step, TypeOK
  <2>2. CASE q = r
    <3>1. ASSUME NEW pc, NEW d, Step(r, At(pc, d)) PROVE pc = "write"
      BY <3>1 DEF Step, At, TypeOK
    <3>2. ASSUME NEW d, NEW row, NEW sent,
                 Step(r, Holding("fill", d, row, sent)) PROVE FALSE
      BY <3>2 DEF Step, Holding, TypeOK
    <3>3. ~Step(r, Idle)
      BY <3>1 DEF Idle
    <3>4. ~Create(r)
      <4>1. ASSUME NEW d \in Docs PROVE ~BeginCreate(r, d)
        BY <3>1 DEF BeginCreate
      <4>2. ~InsertOk(r) /\ ~InsertUnsure(r) /\ ~InsertFails(r)
        BY <3>1 DEF InsertOk, InsertUnsure, InsertFails
      <4>3. ~PurgeBlob(r) /\ ~EnqueueNew(r)
        BY <3>3 DEF PurgeBlob, EnqueueNew
      <4> QED
        BY <4>1, <4>2, <4>3 DEF Create
    <3>5. ~Get(r)
      <4>1. ASSUME NEW d \in Docs PROVE ~BeginGet(r, d)
        BY <3>1 DEF BeginGet
      <4>2. ~LoadOk(r) /\ ~LoadFails(r) /\ ~Fill(r)
        BY <3>2, <3>3 DEF LoadOk, LoadFails, Fill
      <4> QED
        BY <4>1, <4>2 DEF Get
    <3>6. ~Delete(r)
      <4>1. ASSUME NEW d \in Docs PROVE ~BeginDelete(r, d)
        BY <3>1 DEF BeginDelete
      <4>2. ~DelRowOk(r) /\ ~DelDrop(r)
        BY <3>1 DEF DelRowOk, DelDrop
      <4>3. ~DelRowUnsure(r) /\ ~DelRowFails(r) /\ ~DelBlob(r)
        BY <3>3 DEF DelRowUnsure, DelRowFails, DelBlob
      <4> QED
        BY <4>1, <4>2, <4>3 DEF Delete
    <3>7. ~PatchOk(r) /\ ~PatchUnsure(r) /\ ~PatchFails(r) /\ ~PatchDrop(r)
      BY <3>1, <3>3 DEF PatchOk, PatchUnsure, PatchFails, PatchDrop
    <3> QED
      BY <1>1, <2>2, <3>4, <3>5, <3>6, <3>7 DEF Request, Patch
  <2> QED
    BY <2>1, <2>2
<1>2. ASSUME ProcessEnds PROVE FALSE
  BY <1>2 DEF ProcessEnds, Idle, At
<1>3. CASE UNCHANGED req
  BY <1>3
<1>4. CASE (\E w \in Workers : Work(w)) \/ (\E d \in Docs : Expire(d))
           \/ Run \/ UNCHANGED vars
  BY <1>2, <1>3, <1>4
  DEF Work, Take, MarkReady, MarkFailed, MarkOk, ReadyUnsure, FailedUnsure,
      PutStatus, MarkFails, MarkDrop, WorkerExit, Expire, Run, Boot, Recover, RequeueList, RequeueGivesUp,
      RequeueOne, RequeueNext, RequeueDone, Signal, BeginStop, Deadline,
      StopHTTP, Exit, ListenFails, Crash, vars
<1> QED
  BY <1>1, <1>4 DEF Next

LEMMA PatchInvAlways == Spec => []PatchInv
<1>1. Init => PatchInv
  BY DEF Init, PatchInv, Idle, At
<1>2. ASSUME IndInv, PatchInv, [Next]_vars PROVE PatchInv'
  <2>1. Stored \cup removed \subseteq (Stored \cup removed)'
    <3>1. ASSUME NEW d \in Docs, NEW row, row # Absent, PutRow(d, row)
          PROVE  Stored \subseteq Stored'
      BY <1>2, <3>1 DEF PutRow, Stored, IndInv, TypeOK
    <3>2. ASSUME NEW q \in Reqs, InsertRow(q)
          PROVE  Stored \cup removed \subseteq (Stored \cup removed)'
      <4>1. req[q].doc \in Docs
        BY <1>2, <3>2, BusyHasDoc DEF IndInv, InsertRow
      <4>2. PICK t \in Texts, s \in Texts :
               PutRow(req[q].doc, [status |-> "pending", title |-> t, summary |-> s])
        BY <3>2 DEF InsertRow
      <4>3. [status |-> "pending", title |-> t, summary |-> s] \in Row
        BY DEF Row, Statuses
      <4> QED
        BY <3>1, <3>2, <4>1, <4>2, <4>3, AbsentAssumption DEF InsertRow
    <3>3. ASSUME NEW q \in Reqs, Writes(q)
          PROVE  Stored \cup removed \subseteq (Stored \cup removed)'
      <4>1. req[q].doc \in Stored /\ req[q].row \in Row
        BY <1>2, <3>3, BusyHasDoc
           DEF IndInv, Writes, PatchOk, PatchUnsure, WriteRow, CopyPcs
      <4>2. Edited(req[q].doc, req[q].row) \in Row /\ req[q].doc \in Docs
        BY <1>2, <4>1, StoredRow, EditedType DEF IndInv
      <4> QED
        BY <3>1, <3>3, <4>2, AbsentAssumption
           DEF Writes, PatchOk, PatchUnsure, WriteRow
    <3>4. ASSUME NEW q \in Reqs, DropRow(q)
          PROVE  Stored \cup removed \subseteq (Stored \cup removed)'
      BY <1>2, <3>4 DEF DropRow, PutRow, Stored, IndInv, TypeOK
    <3>5. ASSUME NEW w \in Workers, NEW st \in Statuses, PutStatus(w, work[w].pc, st)
          PROVE  Stored \cup removed \subseteq (Stored \cup removed)'
      <4>1. WithStatus(work[w].doc, st) \in Row /\ work[w].doc \in Docs
        BY <1>2, <3>5, StoredRow, StatusType DEF IndInv, PutStatus
      <4> QED
        BY <3>1, <3>5, <4>1, AbsentAssumption DEF PutStatus
    <3> QED
      BY <1>2, <3>2, <3>3, <3>4, <3>5, TableSteps DEF Stored
  <2>2. ASSUME NEW r \in Reqs, req'[r].pc = "write"
        PROVE  req'[r].doc \in (Stored \cup removed)'
    <3>1. CASE req'[r] = req[r]
      BY <1>2, <2>1, <2>2, <3>1 DEF PatchInv
    <3>2. ASSUME NEW d \in Docs, BeginPatch(r, d)
          PROVE  req'[r].doc \in (Stored \cup removed)'
      <4>1. req'[r].doc = d /\ d \in Stored
        BY <1>2, <3>2 DEF BeginPatch, Step, Holding, IndInv, TypeOK
      <4> QED
        BY <2>1, <4>1
    <3> QED
      BY <1>2, <2>2, <3>1, <3>2, WriteBegins DEF IndInv
  <2> QED
    BY <2>2 DEF PatchInv
<1> QED
  BY <1>1, <1>2, IndCorrect, PTL DEF Spec

LEMMA FreshStep ==
    ASSUME IndInv, PatchInv, [Next]_vars, NEW r \in Reqs, Fresh(r), ~Fresh(r)'
    PROVE  \E q \in Reqs \ {r} : Writes(q) /\ req[q].doc = req[r].doc
<1>1. /\ req'[r].pc = "write" /\ req'[r].doc \in Stored'
      /\ \E f \in Fields \ req'[r].sent : req'[r].row[f] # rows'[req'[r].doc][f]
  BY DEF Fresh
<1>2. ASSUME NEW d \in Docs, BeginPatch(r, d) PROVE FALSE
  <2>1. PICK new \in Patches :
           req'[r] = Holding("write", d, Merge(rows[d], new), Sent(new))
    BY <1>2 DEF BeginPatch, Step, IndInv, TypeOK
  <2>2. rows' = rows
    BY <1>2 DEF BeginPatch, table
  <2>3. \A f \in Fields \ Sent(new) : Merge(rows[d], new)[f] = rows[d][f]
    BY DEF Merge, Sent, Fields
  <2> QED
    BY <1>1, <2>1, <2>2, <2>3 DEF Holding
<1>3. req'[r] = req[r]
  BY <1>1, <1>2, WriteBegins DEF IndInv
<1> DEFINE d == req[r].doc
<1>4. req[r].pc = "write" /\ d \in Docs
  BY <1>1, <1>3, BusyHasDoc DEF IndInv
<1>5. ASSUME d \in Stored, \A f \in Fields : rows'[d][f] = rows[d][f] PROVE FALSE
  BY <1>1, <1>3, <1>4, <1>5 DEF Fresh
<1>6. d \in Stored' /\ (rows'[d] = rows[d] => d \in Stored)
  BY <1>1, <1>3, <1>4 DEF Stored
<1>7. rows'[d] # rows[d]
  BY <1>5, <1>6
<1>8. ASSUME NEW q \in Reqs, InsertRow(q) PROVE FALSE
  <2>1. req[q].doc = d
    BY <1>7, <1>8 DEF InsertRow, PutRow, IndInv, TypeOK
  <2> QED
    BY <1>4, <1>8, <2>1 DEF InsertRow, IndInv, BlobInv, PatchInv
<1>9. ASSUME NEW q \in Reqs, DropRow(q) PROVE FALSE
  <2>1. req[q].doc = d
    BY <1>7, <1>9 DEF DropRow, PutRow, IndInv, TypeOK
  <2> QED
    BY <1>6, <1>9, <2>1 DEF DropRow, PutRow, IndInv, TypeOK, Stored
<1>10. ASSUME NEW w \in Workers, NEW st \in Statuses, PutStatus(w, work[w].pc, st)
       PROVE  FALSE
  <2>1. work[w].doc = d
    BY <1>7, <1>10 DEF PutStatus, PutRow, IndInv, TypeOK
  <2>2. d \in Stored /\ rows[d] \in Row /\ rows'[d] = WithStatus(d, st)
    BY <1>10, <2>1, StoredRow DEF PutStatus, PutRow, IndInv, TypeOK
  <2>3. \A f \in Fields : rows'[d][f] = rows[d][f]
    BY <2>2 DEF WithStatus, Row, Fields
  <2> QED
    BY <1>5, <2>2, <2>3
<1>11. ASSUME NEW q \in Reqs, Writes(q)
       PROVE  q # r /\ req[q].doc = d
  <2>1. req'[q].pc # "write"
    BY <1>11 DEF Writes, PatchOk, PatchUnsure, Step, At, Idle, IndInv, TypeOK
  <2>2. WriteRow(q)
    BY <1>11 DEF Writes, PatchOk, PatchUnsure
  <2>3. req[q].doc = d
    BY <1>7, <2>2 DEF WriteRow, PutRow, IndInv, TypeOK
  <2> QED
    BY <1>1, <2>1, <2>3
<1> QED
  BY <1>7, <1>8, <1>9, <1>10, <1>11, TableSteps

(* What a PATCH has read goes stale for one reason only, another PATCH of    *)
(* the same document: neither the worker, nor a deletion, nor an upload, nor *)
(* a restart gets in between (service.go Update, repo.go Update).            *)
THEOREM StalePatchesHaveACulprit ==
    Spec => [][\A r \in Reqs : Fresh(r) /\ ~Fresh(r)' =>
                 \E q \in Reqs \ {r} : Writes(q) /\ req[q].doc = req[r].doc]_vars
<1>1. IndInv /\ PatchInv /\ [Next]_vars =>
        [\A r \in Reqs : Fresh(r) /\ ~Fresh(r)' =>
            \E q \in Reqs \ {r} : Writes(q) /\ req[q].doc = req[r].doc]_vars
  BY FreshStep
<1> QED
  BY <1>1, IndCorrect, PatchInvAlways, PTL DEF Spec

(* One at a time, PATCHes do what document_update.md says, whatever workers, *)
(* failures and crashes do meanwhile.                                        *)
THEOREM PatchesInTurnAreFaithful ==
    (\A q, r \in Reqs : q = r) => (Spec => PatchTouchesOnlySent)
<1> SUFFICES ASSUME \A q, r \in Reqs : q = r PROVE Spec => PatchTouchesOnlySent
  OBVIOUS
<1> DEFINE AllFresh == \A r \in Reqs : Fresh(r)
<1>1. Init => AllFresh
  BY DEF Init, Fresh, Idle, At
<1>2. IndInv /\ PatchInv /\ AllFresh /\ [Next]_vars => AllFresh'
  BY FreshStep
<1>3. IndInv /\ AllFresh =>
        [\A r \in Reqs : Writes(r) =>
            \A f \in Fields \ req[r].sent :
               rows'[req[r].doc][f] = rows[req[r].doc][f]]_vars
  <2> SUFFICES ASSUME IndInv, AllFresh, NEW r \in Reqs, Writes(r),
                      NEW f \in Fields \ req[r].sent
               PROVE  rows'[req[r].doc][f] = rows[req[r].doc][f]
    OBVIOUS
  <2>0. WriteRow(r)
    BY DEF Writes, PatchOk, PatchUnsure
  <2>1. rows'[req[r].doc] = Edited(req[r].doc, req[r].row)
    BY <2>0 DEF WriteRow, PutRow, Stored, IndInv, TypeOK
  <2>2. req[r].row[f] = rows[req[r].doc][f]
    BY <2>0 DEF WriteRow, Fresh
  <2>3. Edited(req[r].doc, req[r].row)[f] = req[r].row[f]
    BY DEF Edited, Fields
  <2> QED
    BY <2>1, <2>2, <2>3
<1> QED
  BY <1>1, <1>2, <1>3, IndCorrect, PatchInvAlways, PTL
     DEF Spec, PatchTouchesOnlySent

=============================================================================
