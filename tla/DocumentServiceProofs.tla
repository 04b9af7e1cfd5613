----------------------- MODULE DocumentServiceProofs -----------------------
(* Theorems about DocumentService, for every number of documents, requests   *)
(* and workers, every queue and page size, and every set of faults.          *)
EXTENDS DocumentService, FiniteSetTheorems, SequenceTheorems, TLAPS

-----------------------------------------------------------------------------
(* Type correctness.                                                         *)

(* The records the steps put into req and work.                              *)
LEMMA RecordTypes ==
    /\ Idle \in ReqState
    /\ Worker("idle", 0) \in WorkState /\ Worker("exited", 0) \in WorkState
    /\ \A d \in Docs :
          /\ \A pc \in PlainPcs : At(pc, d) \in ReqState
          /\ \A pc \in CopyPcs, row \in Row, sent \in SUBSET Fields :
                Holding(pc, d, row, sent) \in ReqState
          /\ \A pc \in JobPcs : Worker(pc, d) \in WorkState
  BY DEF At, Holding, Worker, ReqState, WorkState, JobPcs

LEMMA ScanTypes ==
    /\ NoScan \in ScanState
    /\ \A offset \in Nat, page \in SUBSET Docs, last \in BOOLEAN :
          \A pc \in {"list", "page"} : Scan(pc, offset, page, last) \in ScanState
  BY DEF NoScan, Scan, ScanState

(* A request that is under way, or a worker at work, has a document; a       *)
(* request that is to write or fill has a copy of a row.                     *)
LEMMA BusyHasDoc ==
    ASSUME TypeOK
    PROVE  /\ \A r \in Reqs :
                 /\ req[r].pc # "idle" => req[r].doc \in Docs
                 /\ req[r].pc \in CopyPcs => req[r].row \in Row
           /\ \A w \in Workers :
                 work[w].pc \in JobPcs => work[w].doc \in Docs
  BY DEF TypeOK, ReqState, WorkState, JobPcs, PlainPcs, CopyPcs, Idle, At

(* What the statements on the table write.                                   *)
LEMMA EditedType ==
    ASSUME NEW d, rows[d] \in Row, NEW row \in Row
    PROVE  Edited(d, row) \in Row
  BY DEF Edited, Row

LEMMA StatusType ==
    ASSUME NEW d, rows[d] \in Row, NEW st \in Statuses
    PROVE  WithStatus(d, st) \in Row
  BY DEF WithStatus, Row

LEMMA StoredRow ==
    ASSUME TypeOK, NEW d \in Stored
    PROVE  d \in Docs /\ rows[d] \in Row
  BY DEF TypeOK, Stored, MaybeRow

LEMMA MergeType ==
    ASSUME NEW row \in Row, NEW new \in Patches
    PROVE  Merge(row, new) \in Row /\ Sent(new) \in SUBSET Fields
  BY DEF Merge, Row, Patches, Fields, Sent

LEMMA EnqueueType ==
    ASSUME TypeOK, NEW d \in Docs, Enqueue(d)
    PROVE  jobs' \in Seq(Docs)
  BY AppendProperties DEF TypeOK, Enqueue

LEMMA TakeType ==
    ASSUME TypeOK, jobs # <<>>
    PROVE  Head(jobs) \in Docs /\ Tail(jobs) \in Seq(Docs)
  BY HeadTailProperties DEF TypeOK

LEMMA TypeCreate ==
    ASSUME TypeOK, NEW r \in Reqs, Create(r)
    PROVE  TypeOK'
<1> USE DEF TypeOK, table, queue, control
<1>1. ASSUME NEW d \in Docs, BeginCreate(r, d) PROVE TypeOK'
  BY <1>1, RecordTypes DEF BeginCreate, Step, PlainPcs
<1>2. CASE InsertOk(r) \/ InsertUnsure(r)
  <2>1. InsertRow(r) /\ req[r].doc \in Docs
    BY <1>2, BusyHasDoc DEF InsertOk, InsertUnsure, InsertRow
  <2>2. rows' \in [Docs -> MaybeRow]
    BY <2>1 DEF InsertRow, PutRow, Row, MaybeRow, Statuses
  <2>3. PICK pc \in PlainPcs : Step(r, At(pc, req[r].doc))
    BY <1>2 DEF InsertOk, InsertUnsure, PlainPcs
  <2>4. req' \in [Reqs -> ReqState] /\ doubtful' \subseteq Docs
    BY <1>2, <2>1, <2>3, RecordTypes DEF InsertOk, InsertUnsure, Step
  <2> QED
    BY <2>1, <2>2, <2>4 DEF InsertRow
<1>3. CASE InsertFails(r)
  BY <1>3, RecordTypes, BusyHasDoc DEF InsertFails, Step, PlainPcs
<1>4. CASE PurgeBlob(r)
  BY <1>4, RecordTypes DEF PurgeBlob, Step
<1>5. CASE EnqueueNew(r)
  BY <1>5, RecordTypes, BusyHasDoc, EnqueueType DEF EnqueueNew, Step
<1> QED
  BY <1>1, <1>2, <1>3, <1>4, <1>5 DEF Create

LEMMA TypeGet ==
    ASSUME TypeOK, NEW r \in Reqs, Get(r)
    PROVE  TypeOK'
<1> USE DEF TypeOK, table, queue, control
<1>1. ASSUME NEW d \in Docs, BeginGet(r, d) PROVE TypeOK'
  BY <1>1, RecordTypes DEF BeginGet, Step, PlainPcs
<1>2. CASE LoadOk(r)
  BY <1>2, RecordTypes, StoredRow DEF LoadOk, Step, CopyPcs
<1>3. CASE LoadFails(r)
  BY <1>3, RecordTypes DEF LoadFails, Step
<1>4. CASE Fill(r)
  BY <1>4, RecordTypes, BusyHasDoc DEF Fill, Step, CopyPcs, MaybeRow
<1> QED
  BY <1>1, <1>2, <1>3, <1>4 DEF Get

LEMMA TypePatch ==
    ASSUME TypeOK, NEW r \in Reqs, Patch(r)
    PROVE  TypeOK'
<1> USE DEF TypeOK, table, queue, control
<1>1. ASSUME NEW d \in Docs, BeginPatch(r, d) PROVE TypeOK'
  BY <1>1, RecordTypes, StoredRow, MergeType
     DEF BeginPatch, Step, CopyPcs
<1>2. CASE PatchOk(r) \/ PatchUnsure(r)
  BY <1>2, RecordTypes, BusyHasDoc, StoredRow, EditedType
     DEF PatchOk, PatchUnsure, WriteRow, Step, PutRow, PlainPcs, CopyPcs, MaybeRow
<1>3. CASE PatchFails(r)
  BY <1>3, RecordTypes DEF PatchFails, Step
<1>4. CASE PatchDrop(r)
  BY <1>4, RecordTypes DEF PatchDrop, Invalidate, Step, MaybeRow
<1> QED
  BY <1>1, <1>2, <1>3, <1>4 DEF Patch

LEMMA TypeDelete ==
    ASSUME TypeOK, NEW r \in Reqs, Delete(r)
    PROVE  TypeOK'
<1> USE DEF TypeOK, table, queue, control
<1>1. ASSUME NEW d \in Docs, BeginDelete(r, d) PROVE TypeOK'
  BY <1>1, RecordTypes DEF BeginDelete, Step, PlainPcs
<1>2. CASE DelRowOk(r) \/ DelRowUnsure(r)
  BY <1>2, RecordTypes, BusyHasDoc
     DEF DelRowOk, DelRowUnsure, DropRow, Step, PutRow, PlainPcs, MaybeRow
<1>3. CASE DelRowFails(r)
  BY <1>3, RecordTypes DEF DelRowFails, Step
<1>4. CASE DelDrop(r)
  BY <1>4, RecordTypes, BusyHasDoc DEF DelDrop, Invalidate, Step, PlainPcs, MaybeRow
<1>5. CASE DelBlob(r)
  BY <1>5, RecordTypes DEF DelBlob, Step
<1> QED
  BY <1>1, <1>2, <1>3, <1>4, <1>5 DEF Delete

LEMMA TypeWork ==
    ASSUME TypeOK, NEW w \in Workers, Work(w)
    PROVE  TypeOK'
<1> USE DEF TypeOK, table, queue, control
<1>1. CASE Take(w)
  BY <1>1, RecordTypes, TakeType DEF Take, Go, JobPcs
<1>2. ASSUME NEW st \in Statuses, PutStatus(w, work[w].pc, st),
             NEW next, NEW d, Worker(next, d) \in WorkState, Go(w, next, d)
      PROVE  TypeOK'
  BY <1>2, StoredRow, StatusType DEF PutStatus, PutRow, Go, MaybeRow
<1>3. CASE MarkFails(w, "markReady", "markFailed", work[w].doc)
  BY <1>3, RecordTypes, BusyHasDoc DEF MarkFails, Go, JobPcs
<1>4. CASE MarkFails(w, "markFailed", "idle", 0)
  BY <1>4, RecordTypes DEF MarkFails, Go
<1>5. CASE MarkDrop(w)
  BY <1>5, RecordTypes DEF MarkDrop, Invalidate, Go, MaybeRow
<1>6. CASE WorkerExit(w)
  BY <1>6, RecordTypes DEF WorkerExit, Go
<1>7. ASSUME NEW pc, NEW st \in {"ready", "failed"}, MarkOk(w, pc, st)
      PROVE  TypeOK'
  BY <1>2, <1>7, RecordTypes, StoredRow DEF MarkOk, PutStatus, JobPcs, Statuses
<1>8. CASE ReadyUnsure(w) \/ FailedUnsure(w)
  BY <1>2, <1>8, RecordTypes, StoredRow
     DEF ReadyUnsure, FailedUnsure, PutStatus, JobPcs, Statuses
<1> QED
  BY <1>1, <1>3, <1>4, <1>5, <1>6, <1>7, <1>8 DEF Work, MarkReady, MarkFailed

LEMMA TypeRun ==
    ASSUME TypeOK, Run
    PROVE  TypeOK'
<1> USE DEF TypeOK, table, queue, control
<1>1. CASE Boot
  BY <1>1, RecordTypes, ScanTypes DEF Boot, Phases
<1>2. CASE RequeueList
  <2>1. Page(scan.offset) \in SUBSET Docs /\ scan.offset \in Nat
    BY DEF Page, Pending, Stored, ScanState
  <2>2. (Cardinality(Page(scan.offset)) < PageSize) \in BOOLEAN
    OBVIOUS
  <2>3. scan' \in ScanState
    BY <1>2, <2>1, <2>2, ScanTypes DEF RequeueList
  <2> QED
    BY <1>2, <2>3 DEF RequeueList
<1>3. CASE RequeueGivesUp \/ RequeueDone
  BY <1>3, ScanTypes DEF RequeueGivesUp, RequeueDone, Phases
<1>4. CASE RequeueOne
  <2>1. PICK d \in scan.page :
           /\ Enqueue(d)
           /\ scan' = Scan("page", scan.offset, scan.page \ {d}, scan.last)
    BY <1>4 DEF RequeueOne
  <2>2. d \in Docs /\ scan' \in ScanState
    BY <2>1, ScanTypes DEF ScanState
  <2> QED
    BY <1>4, <2>1, <2>2, EnqueueType DEF RequeueOne
<1>5. CASE RequeueNext
  <2>1. scan.offset + PageSize \in Nat
    BY SizesAssumption DEF ScanState
  <2>2. scan' \in ScanState
    BY <1>5, <2>1, ScanTypes DEF RequeueNext
  <2> QED
    BY <1>5, <2>2 DEF RequeueNext
<1>6. CASE Signal \/ BeginStop \/ Deadline \/ StopHTTP
  BY <1>6 DEF Signal, BeginStop, Deadline, StopHTTP, Phases
<1>7. CASE ProcessEnds
  BY <1>7, RecordTypes, ScanTypes, EmptySeq DEF ProcessEnds, Phases, MaybeRow
<1> QED
  BY <1>1, <1>2, <1>3, <1>4, <1>5, <1>6, <1>7
     DEF Run, Recover, Exit, ListenFails, Crash

LEMMA TypeInit == Init => TypeOK
  BY RecordTypes, ScanTypes, EmptySeq DEF Init, TypeOK, Phases, MaybeRow

LEMMA TypeStep == TypeOK /\ [Next]_vars => TypeOK'
<1> SUFFICES ASSUME TypeOK, [Next]_vars PROVE TypeOK'
  OBVIOUS
<1>1. CASE UNCHANGED vars
  BY <1>1 DEF vars, TypeOK
<1>2. ASSUME NEW d \in Docs, Expire(d) PROVE TypeOK'
  BY <1>2 DEF Expire, Invalidate, TypeOK, table, queue, control, MaybeRow
<1> QED
  BY <1>1, <1>2, TypeCreate, TypeGet, TypePatch, TypeDelete, TypeWork, TypeRun
     DEF Next, Request

(* Every variable of the process and of its stores keeps its type: the run   *)
(* checks it on small instances, here it holds for all of them.              *)
THEOREM TypeCorrect == Spec => []TypeOK
<1> QED
  BY TypeInit, TypeStep, PTL DEF Spec

-----------------------------------------------------------------------------
(* Rows and files.                                                           *)

(* Only the documents of the table, blobs and req matter here.               *)
LEMMA BlobFrame ==
    ASSUME BlobInv, UNCHANGED <<rows, issued, removed, doubtful, blobs, req>>
    PROVE  BlobInv'
  BY DEF BlobInv, Stored, Pending, Uploading

(* A request that gives up or ends without touching the stores.              *)
LEMMA BlobLeave ==
    ASSUME TypeOK, BlobInv, NEW r \in Reqs, Step(r, Idle),
           UNCHANGED <<rows, issued, removed, doubtful, blobs>>
    PROVE  BlobInv'
  BY DEF BlobInv, Stored, Pending, Uploading, TypeOK, Step, Idle, At

(* A request that is no upload and no delete past its row moves on.          *)
LEMMA BlobMove ==
    ASSUME TypeOK, BlobInv, NEW r \in Reqs, NEW next, Step(r, next),
           next.pc \in {"load", "fill", "write", "patchDrop", "delRow"},
           UNCHANGED <<rows, issued, removed, doubtful, blobs>>
    PROVE  BlobInv'
  BY DEF BlobInv, Stored, Pending, Uploading, TypeOK, Step

LEMMA BlobCreate ==
    ASSUME TypeOK, BlobInv, NEW r \in Reqs, Create(r)
    PROVE  BlobInv'
<1> USE DEF BlobInv, Stored, Uploading, TypeOK, Step, At, Idle, table
<1>1. ASSUME NEW d \in Docs, BeginCreate(r, d) PROVE BlobInv'
  BY <1>1 DEF BeginCreate, Pending
<1>2. CASE InsertOk(r) \/ InsertUnsure(r)
  <2> DEFINE d == req[r].doc
  <2>0. InsertRow(r)
    BY <1>2 DEF InsertOk, InsertUnsure
  <2>1. PICK row \in Row : row.status = "pending" /\ PutRow(d, row)
    BY <2>0 DEF InsertRow, Row, Statuses
  <2>2. d \in Docs /\ row # Absent
    BY <2>0, BusyHasDoc, AbsentAssumption DEF InsertRow
  <2>3. Stored' = Stored \cup {d} /\ Pending' = Pending \cup {d}
    BY <2>1, <2>2 DEF PutRow, Pending
  <2>4. CASE InsertOk(r)
    BY <2>0, <2>2, <2>3, <2>4 DEF InsertOk, InsertRow
  <2>5. CASE InsertUnsure(r)
    BY <2>0, <2>2, <2>3, <2>5 DEF InsertUnsure, InsertRow
  <2> QED
    BY <1>2, <2>4, <2>5
<1>3. CASE InsertFails(r)
  BY <1>3 DEF InsertFails, Pending
<1>4. CASE PurgeBlob(r)
  BY <1>4 DEF PurgeBlob, Pending
<1>5. CASE EnqueueNew(r)
  BY <1>5, BlobLeave DEF EnqueueNew
<1> QED
  BY <1>1, <1>2, <1>3, <1>4, <1>5 DEF Create

LEMMA BlobGet ==
    ASSUME TypeOK, BlobInv, NEW r \in Reqs, Get(r)
    PROVE  BlobInv'
<1>1. ASSUME NEW d \in Docs, BeginGet(r, d) PROVE BlobInv'
  BY <1>1, BlobMove DEF BeginGet, At, table
<1>2. CASE LoadOk(r)
  BY <1>2, BlobMove DEF LoadOk, Holding, table
<1>3. CASE LoadFails(r) \/ Fill(r)
  BY <1>3, BlobLeave DEF LoadFails, Fill, table
<1> QED
  BY <1>1, <1>2, <1>3 DEF Get

(* Writing a row that is there neither adds a document nor removes one.      *)
LEMMA BlobPatch ==
    ASSUME TypeOK, BlobInv, NEW r \in Reqs, Patch(r)
    PROVE  BlobInv'
<1>1. ASSUME NEW d \in Docs, BeginPatch(r, d) PROVE BlobInv'
  BY <1>1, BlobMove DEF BeginPatch, Holding, table
<1>2. CASE PatchOk(r) \/ PatchUnsure(r)
  <2> DEFINE d == req[r].doc
  <2>0. WriteRow(r)
    BY <1>2 DEF PatchOk, PatchUnsure
  <2>1. d \in Stored /\ PutRow(d, Edited(d, req[r].row)) /\ req[r].row \in Row
    BY <2>0, BusyHasDoc DEF WriteRow, CopyPcs
  <2>2. /\ d \in Docs /\ Edited(d, req[r].row) # Absent
        /\ Edited(d, req[r].row).status = rows[d].status
    BY <2>1, StoredRow, EditedType, AbsentAssumption DEF Edited
  <2>3. Stored' = Stored /\ Pending' = Pending
    BY <2>1, <2>2 DEF Stored, Pending, PutRow, TypeOK
  <2> QED
    BY <1>2, <2>3 DEF PatchOk, PatchUnsure, WriteRow, BlobInv, Uploading, TypeOK,
                      Step, At, Idle
<1>3. CASE PatchFails(r) \/ PatchDrop(r)
  BY <1>3, BlobLeave DEF PatchFails, PatchDrop, table
<1> QED
  BY <1>1, <1>2, <1>3 DEF Patch

LEMMA BlobDelete ==
    ASSUME TypeOK, BlobInv, NEW r \in Reqs, Delete(r)
    PROVE  BlobInv'
<1>1. ASSUME NEW d \in Docs, BeginDelete(r, d) PROVE BlobInv'
  BY <1>1, BlobMove DEF BeginDelete, At, table
<1>2. CASE DelRowOk(r) \/ DelRowUnsure(r)
  <2> DEFINE d == req[r].doc
  <2>0. DropRow(r)
    BY <1>2 DEF DelRowOk, DelRowUnsure
  <2>1. d \in Stored /\ d \in Docs /\ PutRow(d, Absent)
    BY <2>0, StoredRow DEF DropRow
  <2>2. Stored' = Stored \ {d} /\ Pending' = Pending \ {d}
    BY <2>1 DEF Stored, Pending, PutRow, TypeOK
  <2>3. PICK next : Step(r, next) /\ next.pc \in {"delDrop", "idle"}
                    /\ (next.pc = "delDrop" => next.doc = d)
    BY <1>2 DEF DelRowOk, DelRowUnsure, At, Idle
  <2> QED
    BY <2>0, <2>1, <2>2, <2>3 DEF DropRow, BlobInv, Uploading, TypeOK, Step
<1>3. CASE DelRowFails(r)
  BY <1>3, BlobLeave DEF DelRowFails, table
<1>4. CASE DelDrop(r)
  BY <1>4 DEF DelDrop, BlobInv, Stored, Pending, Uploading, TypeOK, Step, At, table
<1>5. CASE DelBlob(r)
  BY <1>5 DEF DelBlob, BlobInv, Stored, Pending, Uploading, TypeOK, Step, At,
              Idle, table
<1> QED
  BY <1>1, <1>2, <1>3, <1>4, <1>5 DEF Delete

(* A status write makes a document of the worker's no longer pending; no     *)
(* upload is left to enqueue it.                                             *)
LEMMA BlobWork ==
    ASSUME TypeOK, BlobInv, JobInv, NEW w \in Workers, Work(w)
    PROVE  BlobInv'
<1>1. CASE Take(w) \/ MarkDrop(w) \/ WorkerExit(w)
  BY <1>1, BlobFrame DEF Take, MarkDrop, WorkerExit, table
<1>2. ASSUME NEW pc, NEW st \in Statuses, PutStatus(w, pc, st)
      PROVE  BlobInv'
  <2> DEFINE d == work[w].doc
  <2>1. d \in Stored /\ d \in Docs /\ PutRow(d, WithStatus(d, st))
    BY <1>2, StoredRow DEF PutStatus
  <2>2. WithStatus(d, st) # Absent
    BY <2>1, StoredRow, StatusType, AbsentAssumption
  <2>3. Stored' = Stored /\ Pending \ {d} \subseteq Pending'
    BY <2>1, <2>2 DEF Stored, Pending, PutRow, TypeOK
  <2>4. d \in InHand
    BY <2>1, NumDocsAssumption DEF InHand, Docs
  <2>5. \A r \in Reqs : Uploading(r) => req[r].doc # d
    BY <2>4 DEF JobInv
  <2> QED
    BY <1>2, <2>3, <2>5 DEF PutStatus, BlobInv, Uploading
<1>3. ASSUME NEW pc, NEW next, NEW d, MarkFails(w, pc, next, d) PROVE BlobInv'
  BY <1>3, BlobFrame DEF MarkFails, table
<1> QED
  BY <1>1, <1>2, <1>3 DEF Work, MarkReady, MarkFailed, MarkOk, ReadyUnsure,
                          FailedUnsure, Statuses

LEMMA BlobRun ==
    ASSUME TypeOK, BlobInv, Run
    PROVE  BlobInv'
<1>1. CASE UNCHANGED <<rows, issued, removed, doubtful, blobs, req>>
  BY <1>1, BlobFrame
<1>2. CASE ProcessEnds
  BY <1>2 DEF ProcessEnds, BlobInv, Stored, Pending, Uploading, Idle, At, table
<1> QED
  BY <1>1, <1>2
     DEF Run, Recover, Boot, RequeueList, RequeueGivesUp, RequeueOne,
         RequeueNext, RequeueDone, Signal, BeginStop, Deadline, StopHTTP, Exit,
         ListenFails, Crash, table

-----------------------------------------------------------------------------
(* Jobs.                                                                     *)

Jobs == OneJobPerDoc /\ JobInv

(* What an enqueue and a take do to the set of queued documents.             *)
LEMMA EnqueueQueued ==
    ASSUME TypeOK, OneJobPerDoc, NEW d \in Docs, d \notin Queued, Enqueue(d)
    PROVE  /\ Queued' \subseteq Queued \cup {d}
           /\ \A i, j \in 1 .. Len(jobs') : jobs'[i] = jobs'[j] => i = j
<1>1. CASE ~CanSend
  BY <1>1 DEF Enqueue, OneJobPerDoc, Queued
<1>2. CASE CanSend
  <2>1. /\ Len(jobs) \in Nat /\ Len(jobs') = Len(jobs) + 1
        /\ \A i \in 1 .. Len(jobs) : jobs'[i] = jobs[i]
        /\ jobs'[Len(jobs) + 1] = d
    BY <1>2, AppendProperties, LenProperties DEF Enqueue, TypeOK
  <2> QED
    BY <2>1 DEF OneJobPerDoc, Queued
<1> QED
  BY <1>1, <1>2

LEMMA TakeQueued ==
    ASSUME TypeOK, OneJobPerDoc, jobs # <<>>, jobs' = Tail(jobs)
    PROVE  /\ Head(jobs) \in Queued
           /\ Queued' = Queued \ {Head(jobs)}
           /\ \A i, j \in 1 .. Len(jobs') : jobs'[i] = jobs'[j] => i = j
<1>1. /\ Len(jobs) \in Nat \ {0} /\ Len(jobs') = Len(jobs) - 1
      /\ \A i \in 1 .. Len(jobs') : jobs'[i] = jobs[i + 1]
      /\ Head(jobs) = jobs[1]
  BY HeadTailProperties, EmptySeq, LenProperties DEF TypeOK
<1>2. \A i \in 2 .. Len(jobs) : i - 1 \in 1 .. Len(jobs') /\ jobs'[i - 1] = jobs[i]
  BY <1>1
<1>3. Queued' \subseteq Queued \ {Head(jobs)}
  BY <1>1 DEF OneJobPerDoc, Queued
<1>4. Queued \ {Head(jobs)} \subseteq Queued'
  BY <1>1, <1>2 DEF Queued
<1>5. Head(jobs) \in Queued
  BY <1>1 DEF Queued
<1>6. ASSUME NEW i \in 1 .. Len(jobs'), NEW j \in 1 .. Len(jobs'),
             jobs'[i] = jobs'[j]
      PROVE  i = j
  <2>1. i + 1 \in 1 .. Len(jobs) /\ j + 1 \in 1 .. Len(jobs)
    BY <1>1
  <2>2. i + 1 = j + 1
    BY <1>1, <1>6, <2>1 DEF OneJobPerDoc
  <2> QED
    BY <2>2
<1> QED
  BY <1>3, <1>4, <1>5, <1>6

(* The backlog of pending documents is finite, and as it shrinks a document  *)
(* moves forward in it.                                                      *)
LEMMA RankType ==
    ASSUME TypeOK, NEW d
    PROVE  IsFiniteSet({e \in Pending : e > d}) /\ Rank(d) \in Nat
<1>1. IsFiniteSet(Docs)
  BY FS_Interval, NumDocsAssumption DEF Docs
<1>2. {e \in Pending : e > d} \subseteq Docs
  BY DEF Pending, Stored
<1> QED
  BY <1>1, <1>2, FS_Subset, FS_CardinalityType DEF Rank

LEMMA RankShrinks ==
    ASSUME TypeOK, Pending' \subseteq Pending, NEW d
    PROVE  Rank(d)' \in Nat /\ Rank(d) \in Nat /\ Rank(d)' <= Rank(d)
<1>1. {e \in Pending' : e > d} \in SUBSET {e \in Pending : e > d}
  OBVIOUS
<1>2. /\ IsFiniteSet({e \in Pending' : e > d})
      /\ Cardinality({e \in Pending' : e > d})
            <= Cardinality({e \in Pending : e > d})
  BY <1>1, RankType, FS_Subset
<1> QED
  BY <1>2, RankType, FS_CardinalityType DEF Rank

(* While requests run there is no recovery.                                  *)
LEMMA NoScanWhileServing ==
    ASSUME TypeOK, JobInv, phase \notin {"down", "recovering"}
           \/ \E r \in Reqs : req[r].pc # "idle"
    PROVE  scan.pc = "off" /\ phase \notin {"down", "recovering"}
  BY DEF JobInv, AllIdle, TypeOK, ScanState

(* A request step leaves the jobs in order when it settles nothing and       *)
(* uploads only what is not a job.                                           *)
LEMMA JobRequestFrame ==
    ASSUME TypeOK, Jobs, UNCHANGED <<jobs, work, phase, scan>>,
           scan.pc = "off", phase \notin {"down", "recovering"},
           issued \subseteq issued', Unsettled \subseteq Unsettled',
           Ready \subseteq Unsettled' \cup Ready',
           \A q \in Reqs : Uploading(q)' => req'[q].doc \notin Queued \cup InHand
    PROVE  Jobs'
  BY DEF Jobs, OneJobPerDoc, JobInv, Queued, InHand

LEMMA JobCreate ==
    ASSUME TypeOK, BlobInv, Jobs, NEW r \in Reqs, Create(r)
    PROVE  Jobs'
<1> USE DEF table, queue, control
<1>1. ASSUME NEW d \in Docs, BeginCreate(r, d) PROVE Jobs'
  <2>1. scan.pc = "off" /\ phase \notin {"down", "recovering"}
    BY <1>1, NoScanWhileServing DEF BeginCreate, Accepting, Jobs
  <2>2. \A q \in Reqs : Uploading(q)' => req'[q].doc \notin Queued \cup InHand
    BY <1>1 DEF BeginCreate, Jobs, JobInv, Uploading, Step, At, TypeOK
  <2> QED
    BY <1>1, <2>1, <2>2, JobRequestFrame
       DEF BeginCreate, Unsettled, Stored, Pending, Ready
<1>2. CASE InsertOk(r) \/ InsertUnsure(r) \/ InsertFails(r) \/ PurgeBlob(r)
  <2>1. scan.pc = "off" /\ phase \notin {"down", "recovering"}
    BY <1>2, NoScanWhileServing
       DEF InsertOk, InsertUnsure, InsertRow, InsertFails, PurgeBlob, Jobs
  <2>2. \A q \in Reqs : Uploading(q)' => req'[q].doc \notin Queued \cup InHand
    BY <1>2 DEF InsertOk, InsertUnsure, InsertRow, InsertFails, PurgeBlob, Jobs,
                JobInv, Uploading, Step, At, Idle, TypeOK
  <2>3. CASE InsertRow(r)
    <3> DEFINE d == req[r].doc
    <3>1. PICK row \in Row : row.status = "pending" /\ PutRow(d, row)
      BY <2>3 DEF InsertRow, Row, Statuses
    <3>2. Unsettled \subseteq Unsettled' /\ Ready \subseteq Unsettled' \cup Ready'
      BY <3>1, AbsentAssumption
         DEF PutRow, Unsettled, Stored, Pending, Ready, TypeOK
    <3> QED
      BY <2>1, <2>2, <2>3, <3>2, JobRequestFrame DEF InsertRow
  <2>4. CASE InsertFails(r) \/ PurgeBlob(r)
    BY <2>1, <2>2, <2>4, JobRequestFrame
       DEF InsertFails, PurgeBlob, Unsettled, Stored, Pending, Ready
  <2> QED
    BY <1>2, <2>3, <2>4 DEF InsertOk, InsertUnsure
<1>3. CASE EnqueueNew(r)
  <2> DEFINE d == req[r].doc
  <2>1. scan.pc = "off" /\ phase \notin {"down", "recovering"}
    BY <1>3, NoScanWhileServing DEF EnqueueNew, Jobs
  <2>2. /\ d \in Docs /\ d \notin Queued \cup InHand /\ d \in issued
        /\ d \in Unsettled
    BY <1>3, BusyHasDoc
       DEF EnqueueNew, Jobs, JobInv, BlobInv, Uploading, Unsettled
  <2>3. /\ Queued' \subseteq Queued \cup {d}
        /\ \A i, j \in 1 .. Len(jobs') : jobs'[i] = jobs'[j] => i = j
    BY <1>3, <2>2, EnqueueQueued DEF EnqueueNew, Jobs
  <2>4. \A q \in Reqs : Uploading(q)' =>
           Uploading(q) /\ req'[q].doc = req[q].doc /\ req[q].doc # d
    BY <1>3 DEF EnqueueNew, BlobInv, Uploading, Step, Idle, At, TypeOK
  <2>5. InHand' = InHand /\ Unsettled' = Unsettled /\ Ready' = Ready
    BY <1>3 DEF EnqueueNew, InHand, Unsettled, Stored, Pending, Ready
  <2>6. OneJobPerDoc'
    BY <1>3, <2>2, <2>3, <2>5, BusyHasDoc
       DEF EnqueueNew, Jobs, OneJobPerDoc, InHand
  <2>7. JobInv'
    BY <1>3, <2>1, <2>2, <2>3, <2>4, <2>5 DEF EnqueueNew, Jobs, JobInv
  <2> QED
    BY <2>6, <2>7 DEF Jobs
<1> QED
  BY <1>1, <1>2, <1>3 DEF Create

LEMMA JobGet ==
    ASSUME TypeOK, Jobs, NEW r \in Reqs, Get(r)
    PROVE  Jobs'
<1>1. PICK next : /\ Step(r, next)
                  /\ next.pc \in {"load", "fill", "idle"}
                  /\ UNCHANGED <<rows, issued, jobs, work, phase, scan>>
  BY DEF Get, BeginGet, LoadOk, LoadFails, Fill, At, Holding, Idle, table,
         queue, control
<1>2. scan.pc = "off" /\ phase \notin {"down", "recovering"}
  BY NoScanWhileServing
     DEF Get, BeginGet, LoadOk, LoadFails, Fill, Accepting, Jobs
<1>3. \A q \in Reqs : Uploading(q)' => req'[q].doc \notin Queued \cup InHand
  BY <1>1 DEF Step, Uploading, Jobs, JobInv, TypeOK
<1> QED
  BY <1>1, <1>2, <1>3, JobRequestFrame DEF Unsettled, Stored, Pending, Ready

LEMMA JobPatch ==
    ASSUME TypeOK, Jobs, NEW r \in Reqs, Patch(r)
    PROVE  Jobs'
<1>1. PICK next : /\ Step(r, next)
                  /\ next.pc \in {"write", "patchDrop", "idle"}
                  /\ UNCHANGED <<issued, jobs, work, phase, scan>>
  BY DEF Patch, BeginPatch, PatchOk, PatchUnsure, WriteRow, PatchFails,
         PatchDrop, At, Holding, Idle, table, queue, control
<1>2. scan.pc = "off" /\ phase \notin {"down", "recovering"}
  BY NoScanWhileServing
     DEF Patch, BeginPatch, PatchOk, PatchUnsure, WriteRow, PatchFails,
         PatchDrop, Accepting, Jobs
<1>3. \A q \in Reqs : Uploading(q)' => req'[q].doc \notin Queued \cup InHand
  BY <1>1 DEF Step, Uploading, Jobs, JobInv, TypeOK
<1>4. Unsettled \subseteq Unsettled' /\ Ready \subseteq Unsettled' \cup Ready'
  <2>1. CASE WriteRow(r)
    <3> DEFINE d == req[r].doc
    <3>1. /\ d \in Docs /\ rows[d] \in Row /\ rows'[d] = Edited(d, req[r].row)
          /\ \A e \in Docs \ {d} : rows'[e] = rows[e]
      BY <2>1, StoredRow DEF WriteRow, PutRow, TypeOK
    <3>2. rows'[d] # Absent /\ rows'[d].status = rows[d].status
      BY <2>1, <3>1, BusyHasDoc, EditedType, AbsentAssumption
         DEF WriteRow, Edited, CopyPcs
    <3>3. UNCHANGED <<Stored, Pending, Ready>>
      BY <3>1, <3>2, AbsentAssumption DEF Stored, Pending, Ready
    <3> QED
      BY <3>3 DEF Unsettled
  <2>2. CASE rows' = rows
    BY <2>2 DEF Unsettled, Stored, Pending, Ready
  <2> QED
    BY <2>1, <2>2 DEF Patch, PatchOk, PatchUnsure, BeginPatch, PatchFails,
                      PatchDrop, table
<1> QED
  BY <1>1, <1>2, <1>3, <1>4, JobRequestFrame

LEMMA JobDelete ==
    ASSUME TypeOK, Jobs, NEW r \in Reqs, Delete(r)
    PROVE  Jobs'
<1>1. PICK next : /\ Step(r, next)
                  /\ next.pc \in {"delRow", "delDrop", "delBlob", "idle"}
                  /\ UNCHANGED <<issued, jobs, work, phase, scan>>
  BY DEF Delete, BeginDelete, DelRowOk, DelRowUnsure, DropRow, DelRowFails,
         DelDrop, DelBlob, At, Idle, table, queue, control
<1>2. scan.pc = "off" /\ phase \notin {"down", "recovering"}
  BY NoScanWhileServing
     DEF Delete, BeginDelete, DelRowOk, DelRowUnsure, DropRow, DelRowFails,
         DelDrop, DelBlob, Accepting, Jobs
<1>3. \A q \in Reqs : Uploading(q)' => req'[q].doc \notin Queued \cup InHand
  BY <1>1 DEF Step, Uploading, Jobs, JobInv, TypeOK
<1>4. Unsettled \subseteq Unsettled' /\ Ready \subseteq Unsettled' \cup Ready'
  <2>1. CASE DropRow(r)
    BY <2>1 DEF DropRow, PutRow, Unsettled, Stored, Pending, Ready, TypeOK
  <2>2. CASE rows' = rows
    BY <2>2 DEF Unsettled, Stored, Pending, Ready
  <2> QED
    BY <2>1, <2>2 DEF Delete, DelRowOk, DelRowUnsure, BeginDelete, DelRowFails,
                      DelDrop, DelBlob, table
<1> QED
  BY <1>1, <1>2, <1>3, <1>4, JobRequestFrame

(* What a worker holds, after a step of worker w.                            *)
LEMMA InHandAfter ==
    ASSUME TypeOK, NEW w \in Workers, NEW pc, NEW d, Go(w, pc, d)
    PROVE  /\ \A v \in Workers \ {w} : work'[v] = work[v]
           /\ work'[w].pc = pc /\ work'[w].doc = d
           /\ InHand' \subseteq InHand \cup {d}
           /\ 0 \notin InHand'
  BY DEF TypeOK, Go, Worker, InHand

(* A worker step that keeps its document or lets go of it, and settles no    *)
(* other document.                                                           *)
LEMMA JobWorkFrame ==
    ASSUME TypeOK, Jobs, NEW w \in Workers, NEW pc \in JobPcs \cup {"idle", "exited"},
           NEW d \in {0, work[w].doc}, Go(w, pc, d), work[w].pc # "exited",
           d # 0 /\ pc # "markDrop" =>
              pc = "markFailed" /\ d \in (Unsettled \cup Ready)',
           UNCHANGED <<issued, jobs, req, phase, scan>>,
           Pending' \in {Pending, Pending \ {work[w].doc}},
           Unsettled \ {work[w].doc} \subseteq Unsettled',
           Ready \ {work[w].doc} \subseteq Ready'
    PROVE  Jobs'
<1>1. /\ \A v \in Workers \ {w} : work'[v] = work[v]
      /\ work'[w].pc = pc /\ work'[w].doc = d
  BY InHandAfter
<1>2. InHand' \subseteq InHand
  BY <1>1 DEF InHand
<1>3. work[w].doc \notin Queued /\ (work[w].doc # 0 => work[w].doc \in InHand)
  <2>1. 0 \notin Queued
    BY LenProperties, ElementOfSeq, NumDocsAssumption DEF Queued, TypeOK, Docs
  <2> QED
    BY <2>1 DEF Jobs, OneJobPerDoc, InHand
<1>4. OneJobPerDoc'
  BY <1>1, <1>3 DEF Jobs, OneJobPerDoc, Queued
<1>5. phase # "down"
  BY DEF Jobs, JobInv, AllExited
<1>6. scan.pc = "page" =>
         /\ scan.page \subseteq Pending' \ (Queued \cup InHand')
         /\ \A e \in Pending' \cap (Queued \cup InHand' \cup scan.page) :
               Rank(e)' < scan.offset + PageSize
  <2>1. \A e \in Pending' :
           Rank(e)' \in Nat /\ Rank(e) \in Nat /\ Rank(e)' <= Rank(e)
    BY RankShrinks
  <2>2. scan.offset + PageSize \in Nat
    BY SizesAssumption DEF TypeOK, ScanState
  <2> QED
    BY <1>2, <1>3, <2>1, <2>2 DEF Jobs, JobInv, Pending, Stored, Docs
<1>7. scan.pc = "list" =>
         \A e \in Pending' \cap (Queued \cup InHand') : Rank(e)' < scan.offset
  <2>1. \A e \in Pending' :
           Rank(e)' \in Nat /\ Rank(e) \in Nat /\ Rank(e)' <= Rank(e)
    BY RankShrinks
  <2>2. scan.offset \in Nat
    BY DEF TypeOK, ScanState
  <2> QED
    BY <1>2, <2>1, <2>2 DEF Jobs, JobInv
<1>8. JobInv'
  BY <1>2, <1>5, <1>6, <1>7 DEF Jobs, JobInv, Queued, Uploading, AllIdle
<1> QED
  BY <1>4, <1>8 DEF Jobs

LEMMA JobWork ==
    ASSUME TypeOK, Jobs, NEW w \in Workers, Work(w)
    PROVE  Jobs'
<1> USE DEF table, queue, control
<1>1. CASE Take(w)
  <2> DEFINE d == Head(jobs)
  <2>1. /\ d \in Queued /\ Queued' = Queued \ {d}
        /\ \A i, j \in 1 .. Len(jobs') : jobs'[i] = jobs'[j] => i = j
    BY <1>1, TakeQueued DEF Take, Jobs
  <2>2. /\ \A v \in Workers \ {w} : work'[v] = work[v]
        /\ work'[w].pc = "markReady" /\ work'[w].doc = d
        /\ InHand' \subseteq InHand \cup {d}
    BY <1>1, InHandAfter DEF Take
  <2>3. phase # "down" /\ d \in Docs
    BY <1>1, TakeType DEF Take, Jobs, JobInv, AllExited
  <2>4. Unsettled' = Unsettled /\ Pending' = Pending /\ Ready' = Ready
        /\ \A e : Rank(e)' = Rank(e)
    BY <1>1 DEF Take, Unsettled, Pending, Stored, Ready, Rank
  <2>5. OneJobPerDoc'
    BY <2>1, <2>2, <2>4 DEF Jobs, OneJobPerDoc
  <2>6. JobInv'
    BY <1>1, <2>1, <2>2, <2>3, <2>4 DEF Take, Jobs, JobInv, Uploading, AllIdle
  <2> QED
    BY <2>5, <2>6 DEF Jobs
<1>2. ASSUME NEW pc \in {"markReady", "markFailed"},
             NEW st \in {"ready", "failed"}, PutStatus(w, pc, st),
             NEW next \in {"markFailed", "markDrop", "idle"},
             NEW e \in {0, work[w].doc}, Go(w, next, e),
             next = "markFailed" => st = "ready",
             next = "idle" => e = 0
      PROVE  Jobs'
  <2> DEFINE d == work[w].doc
  <2>1. d \in Stored /\ d \in Docs /\ PutRow(d, WithStatus(d, st))
    BY <1>2, StoredRow DEF PutStatus
  <2>2. WithStatus(d, st) # Absent /\ WithStatus(d, st).status = st
    BY <2>1, StoredRow, StatusType, AbsentAssumption DEF Statuses, WithStatus, Row
  <2>3. /\ Pending' = Pending \ {d} /\ Unsettled \ {d} \subseteq Unsettled'
        /\ Ready \ {d} \subseteq Ready' /\ (st = "ready" => d \in Ready')
    BY <2>1, <2>2 DEF Unsettled, Stored, Pending, Ready, PutRow, TypeOK
  <2>4. UNCHANGED <<issued, jobs, req, phase, scan>> /\ work[w].pc # "exited"
    BY <1>2 DEF PutStatus
  <2> QED
    BY <1>2, <2>3, <2>4, JobWorkFrame DEF JobPcs
<1>3. ASSUME NEW pc \in {"markReady", "markFailed"},
             NEW next \in {"markFailed", "idle"},
             NEW d \in {0, work[w].doc}, MarkFails(w, pc, next, d),
             next = "idle" => d = 0
      PROVE  Jobs'
  <2>1. Unsettled' = Unsettled /\ Pending' = Pending /\ Ready' = Ready
    BY <1>3 DEF MarkFails, Unsettled, Stored, Pending, Ready
  <2>2. d # 0 => d \in Unsettled \cup Ready
    BY <1>3 DEF MarkFails, Jobs, OneJobPerDoc
  <2> QED
    BY <1>3, <2>1, <2>2, JobWorkFrame DEF MarkFails, JobPcs
<1>4. CASE MarkDrop(w) \/ WorkerExit(w)
  <2>1. Unsettled' = Unsettled /\ Pending' = Pending /\ Ready' = Ready
    BY <1>4 DEF MarkDrop, WorkerExit, Unsettled, Stored, Pending, Ready
  <2> QED
    BY <1>4, <2>1, JobWorkFrame DEF MarkDrop, WorkerExit
<1>5. ASSUME NEW pc \in {"markReady", "markFailed"},
             NEW st \in {"ready", "failed"}, MarkOk(w, pc, st)
      PROVE  Jobs'
  BY <1>2, <1>5 DEF MarkOk
<1>6. CASE ReadyUnsure(w) \/ FailedUnsure(w)
  BY <1>2, <1>6 DEF ReadyUnsure, FailedUnsure
<1> QED
  BY <1>1, <1>3, <1>4, <1>5, <1>6 DEF Work, MarkReady, MarkFailed

(* The steps of run(): boot, recovery, shutdown.                             *)
LEMMA JobRecover ==
    ASSUME TypeOK, BlobInv, Jobs, Recover
    PROVE  Jobs'
<1> USE DEF table, queue, control
<1>1. CASE RequeueList
  <2> DEFINE P == Page(scan.offset)
  <2>1. /\ scan' = Scan("page", scan.offset, P, Cardinality(P) < PageSize)
        /\ scan.offset \in Nat /\ PageSize \in Nat
    BY <1>1, SizesAssumption DEF RequeueList, TypeOK, ScanState
  <2>2. /\ scan'.pc = "page" /\ scan'.page = P /\ scan'.offset = scan.offset
    BY <2>1 DEF Scan
  <2>3. \A d \in P : /\ d \in Pending /\ Rank(d) \in Nat
                     /\ Rank(d) >= scan.offset /\ Rank(d) < scan.offset + PageSize
    BY <2>1, RankType DEF Page
  <2>4. \A d \in Pending \cap (Queued \cup InHand) :
           /\ d \notin P /\ Rank(d) \in Nat /\ Rank(d) < scan.offset
           /\ Rank(d) < scan.offset + PageSize
    <3>1. \A d \in Pending \cap (Queued \cup InHand) :
             Rank(d) \in Nat /\ Rank(d) < scan.offset
      BY <1>1, RankType DEF RequeueList, Jobs, JobInv
    <3> HIDE DEF P
    <3> QED
      BY <2>1, <2>3, <3>1
  <2>5. UNCHANGED <<rows, issued, jobs, work, req, phase>>
    BY <1>1 DEF RequeueList
  <2>6. UNCHANGED <<Queued, InHand, Pending, Unsettled, Ready>>
        /\ \A d : Rank(d)' = Rank(d)
    BY <2>5 DEF Queued, InHand, Pending, Stored, Unsettled, Ready, Rank
  <2>7. JobInv'
    BY <1>1, <2>2, <2>3, <2>4, <2>5, <2>6
       DEF RequeueList, Jobs, JobInv, Uploading, AllIdle, AllExited
  <2> QED
    BY <2>5, <2>6, <2>7 DEF Jobs, OneJobPerDoc
<1>2. CASE RequeueGivesUp \/ RequeueDone
  <2>1. /\ phase' = "serving" /\ scan'.pc = "off"
        /\ UNCHANGED <<rows, issued, jobs, work, req>>
    BY <1>2 DEF RequeueGivesUp, RequeueDone, NoScan, Scan
  <2>2. UNCHANGED <<Queued, InHand, Unsettled, Ready>>
    BY <2>1 DEF Queued, InHand, Pending, Stored, Unsettled, Ready
  <2> QED
    BY <2>1, <2>2 DEF Jobs, OneJobPerDoc, JobInv, Uploading
<1>3. CASE RequeueOne
  <2>1. PICK d \in scan.page :
           /\ Enqueue(d)
           /\ scan' = Scan("page", scan.offset, scan.page \ {d}, scan.last)
    BY <1>3 DEF RequeueOne
  <2>2. /\ scan'.pc = "page" /\ scan'.page = scan.page \ {d}
        /\ scan'.offset = scan.offset
    BY <2>1 DEF Scan
  <2>3. d \in Docs /\ d \in Pending /\ d \notin Queued \cup InHand /\ d \in issued
    BY <1>3, <2>1
       DEF RequeueOne, Jobs, JobInv, BlobInv, Pending, Stored
  <2>4. /\ Queued' \subseteq Queued \cup {d}
        /\ \A i, j \in 1 .. Len(jobs') : jobs'[i] = jobs'[j] => i = j
    BY <2>1, <2>3, EnqueueQueued DEF Jobs
  <2>5. UNCHANGED <<rows, issued, work, req, phase>>
    BY <1>3 DEF RequeueOne
  <2>6. UNCHANGED <<InHand, Pending, Unsettled, Ready>>
        /\ \A e : Rank(e)' = Rank(e)
    BY <2>5 DEF InHand, Pending, Stored, Unsettled, Ready, Rank
  <2>7. OneJobPerDoc'
    <3>1. \A w \in Workers : work[w].doc # 0 => work[w].doc # d
      BY <2>3 DEF InHand
    <3> QED
      BY <2>3, <2>4, <2>5, <2>6, <3>1 DEF Jobs, OneJobPerDoc, Unsettled
  <2>8. phase = "recovering" /\ AllIdle /\ scan.pc = "page"
    BY <1>3 DEF RequeueOne, Jobs, JobInv
  <2>9. JobInv'
    BY <2>2, <2>3, <2>4, <2>5, <2>6, <2>8
       DEF Jobs, JobInv, Uploading, AllIdle, AllExited
  <2> QED
    BY <2>7, <2>9 DEF Jobs
<1>4. CASE RequeueNext
  <2>1. /\ scan'.pc = "list" /\ scan'.offset = scan.offset + PageSize
        /\ UNCHANGED <<rows, issued, jobs, work, req, phase>>
    BY <1>4 DEF RequeueNext, Scan
  <2>2. UNCHANGED <<Queued, InHand, Pending, Unsettled, Ready>>
        /\ \A d : Rank(d)' = Rank(d)
    BY <2>1 DEF Queued, InHand, Pending, Stored, Unsettled, Ready, Rank
  <2>3. JobInv'
    BY <1>4, <2>1, <2>2
       DEF RequeueNext, Jobs, JobInv, Uploading, AllIdle, AllExited
  <2> QED
    BY <2>1, <2>2, <2>3 DEF Jobs, OneJobPerDoc
<1> QED
  BY <1>1, <1>2, <1>3, <1>4 DEF Recover

LEMMA JobRun ==
    ASSUME TypeOK, BlobInv, Jobs, Run
    PROVE  Jobs'
<1> USE DEF table, queue, control
<1>1. CASE Boot
  <2>1. /\ phase' = "recovering" /\ scan'.pc = "list" /\ jobs' = <<>>
        /\ AllIdle /\ UNCHANGED <<rows, issued, req>>
    BY <1>1 DEF Boot, Scan, Jobs, JobInv
  <2>2. Queued' = {} /\ InHand' = {} /\ \A w \in Workers : work'[w].doc = 0
    BY <1>1, <2>1, EmptySeq DEF Boot, Queued, InHand, Worker
  <2>3. Len(jobs') = 0
    BY <2>1, EmptySeq
  <2> QED
    BY <2>1, <2>2, <2>3 DEF Jobs, OneJobPerDoc, JobInv, AllIdle
<1>2. CASE Recover
  BY <1>2, JobRecover
<1>3. CASE Signal \/ BeginStop \/ Deadline \/ StopHTTP
  <2>1. UNCHANGED <<rows, issued, jobs, work, req, scan>>
    BY <1>3 DEF Signal, BeginStop, Deadline, StopHTTP
  <2>2. /\ phase' = "recovering" <=> phase = "recovering"
        /\ phase' = "down" <=> phase = "down"
    BY <1>3 DEF Signal, BeginStop, Deadline, StopHTTP
  <2>3. UNCHANGED <<Queued, InHand, Pending, Unsettled, Ready>>
        /\ \A d : Rank(d)' = Rank(d)
    BY <2>1 DEF Queued, InHand, Pending, Stored, Unsettled, Ready, Rank
  <2> QED
    BY <2>1, <2>2, <2>3
       DEF Jobs, OneJobPerDoc, JobInv, Uploading, AllIdle, AllExited
<1>4. CASE ProcessEnds
  <2>1. /\ phase' = "down" /\ scan'.pc = "off" /\ jobs' = <<>>
        /\ \A r \in Reqs : req'[r].pc = "idle"
        /\ \A w \in Workers : work'[w].pc = "exited" /\ work'[w].doc = 0
    BY <1>4 DEF ProcessEnds, NoScan, Scan, Idle, At, Worker
  <2>2. Queued' = {} /\ InHand' = {} /\ Len(jobs') = 0
    BY <2>1, EmptySeq DEF Queued, InHand
  <2> QED
    BY <2>1, <2>2 DEF Jobs, OneJobPerDoc, JobInv, AllIdle, AllExited, Uploading
<1> QED
  BY <1>1, <1>2, <1>3, <1>4 DEF Run, Exit, ListenFails, Crash

-----------------------------------------------------------------------------
(* The theorems.                                                             *)

IndInv == TypeOK /\ BlobInv /\ Jobs

LEMMA IndInit == Init => IndInv
<1> SUFFICES ASSUME Init PROVE IndInv
  OBVIOUS
<1>1. TypeOK
  BY TypeInit
<1>2. /\ Stored = {} /\ Queued = {} /\ InHand = {} /\ Len(jobs) = 0
      /\ \A w \in Workers : work[w].pc = "exited" /\ work[w].doc = 0
      /\ \A r \in Reqs : req[r].pc = "idle"
      /\ scan.pc = "off"
  BY EmptySeq DEF Init, Stored, Queued, InHand, Worker, Idle, At, NoScan, Scan
<1>3. BlobInv
  BY <1>2 DEF Init, BlobInv, Uploading
<1>4. Jobs
  <2>1. \A i, j \in 1 .. Len(jobs) : jobs[i] = jobs[j] => i = j
    BY <1>2
  <2>2. OneJobPerDoc
    BY <1>2, <2>1 DEF OneJobPerDoc
  <2>3. JobInv
    BY <1>2 DEF Init, JobInv, Uploading, AllIdle, AllExited
  <2> QED
    BY <2>2, <2>3 DEF Jobs
<1> QED
  BY <1>1, <1>3, <1>4 DEF IndInv

LEMMA IndStep == IndInv /\ [Next]_vars => IndInv'
<1> SUFFICES ASSUME IndInv, [Next]_vars PROVE IndInv'
  OBVIOUS
<1> USE DEF IndInv
<1>1. TypeOK'
  BY TypeStep
<1>2. CASE UNCHANGED <<rows, issued, removed, doubtful, blobs, jobs, work, req,
                       phase, scan>>
  <2>1. UNCHANGED <<Queued, InHand, Pending, Unsettled, Ready>>
        /\ \A d : Rank(d)' = Rank(d)
    BY <1>2 DEF Queued, InHand, Pending, Stored, Unsettled, Ready, Rank
  <2>2. Jobs'
    BY <1>2, <2>1
       DEF Jobs, OneJobPerDoc, JobInv, Uploading, AllIdle, AllExited
  <2> QED
    BY <1>1, <1>2, <2>2, BlobFrame
<1>3. ASSUME NEW r \in Reqs, Request(r) PROVE BlobInv' /\ Jobs'
  BY <1>3, BlobCreate, BlobGet, BlobPatch, BlobDelete, JobCreate, JobGet,
     JobPatch, JobDelete DEF Request
<1>4. ASSUME NEW w \in Workers, Work(w) PROVE BlobInv' /\ Jobs'
  BY <1>4, BlobWork, JobWork DEF Jobs
<1>5. CASE Run
  BY <1>1, <1>5, BlobRun, JobRun
<1>6. ASSUME NEW d \in Docs, Expire(d) PROVE BlobInv' /\ Jobs'
  BY <1>2, <1>6 DEF Expire, table, queue, control
<1>7. CASE UNCHANGED vars
  BY <1>2, <1>7 DEF vars
<1> QED
  BY <1>1, <1>3, <1>4, <1>5, <1>6, <1>7 DEF Next

LEMMA IndCorrect == Spec => []IndInv
  BY IndInit, IndStep, PTL DEF Spec

(* No row without its file, in whatever order uploads, deletes, failing      *)
(* statements, failing unlinks and crashes come, with one exception: the row *)
(* of an INSERT that took effect and reported an error, whose upload purges  *)
(* the file (service.go Create).                                             *)
THEOREM RowAlwaysHasBlob == Spec => []RowHasBlob
<1>1. IndInv => RowHasBlob
  BY DEF IndInv, BlobInv, RowHasBlob, Stored
<1> QED
  BY <1>1, IndCorrect, PTL

(* No document is ever indexed twice, however many pages the recovery reads  *)
(* while the workers change the list under it.                               *)
THEOREM OneJobPerDocument == Spec => []OneJobPerDoc
<1>1. IndInv => OneJobPerDoc
  BY DEF IndInv, Jobs
<1> QED
  BY <1>1, IndCorrect, PTL

(* What every upload, deletion, recovery and worker may count on, as long as *)
(* the service runs: whose id it is, whose file, and whose turn to enqueue.  *)
(* An upload that purges its file has no row, or a doubtful one.             *)
THEOREM FilesFollowRows == Spec => []BlobInv
<1>1. IndInv => BlobInv
  BY DEF IndInv
<1> QED
  BY <1>1, IndCorrect, PTL

(* A pending document that was handed over stays ahead of the page recovery  *)
(* reads next (service.go RequeuePending).                                   *)
THEOREM HandedOverOnce == Spec => []JobInv
<1>1. IndInv => JobInv
  BY DEF IndInv, Jobs
<1> QED
  BY <1>1, IndCorrect, PTL

-----------------------------------------------------------------------------
(* The refinement.                                                           *)

(* How the state of a document is read off.                                  *)
LEMMA StateCases ==
    ASSUME NEW d \in Docs
    PROVE  /\ lives[d] = StateOf(d)
           /\ d \in Pending => StateOf(d) = "pending"
           /\ InDoubt(d) => StateOf(d) = "unsure"
           /\ d \in Stored /\ ~InDoubt(d) => StateOf(d) = rows[d].status
           /\ d \notin Stored /\ d \notin removed => StateOf(d) = "unborn"
  BY DEF Stored, Pending, Ready, InDoubt, lives, StateOf

(* A document whose row stays, and of which no worker comes to doubt.        *)
LEMMA LifeSame ==
    ASSUME NEW d \in Docs, rows'[d] = rows[d], d \in removed' <=> d \in removed,
           (\E w \in Workers : work'[w] = Worker("markFailed", d))
              <=> (\E w \in Workers : work[w] = Worker("markFailed", d))
    PROVE  StateOf(d)' = StateOf(d)
<1>1. (d \in Ready)' <=> d \in Ready
  BY DEF Ready, Stored
<1>2. InDoubt(d)' <=> InDoubt(d)
  BY <1>1 DEF InDoubt
<1> QED
  BY <1>2 DEF StateOf

(* A step that changes the state of one document only.                       *)
LEMMA LifeMove ==
    ASSUME NEW d \in Docs, \A e \in Docs \ {d} : StateOf(e)' = StateOf(e)
    PROVE  lives' = [lives EXCEPT ![d] = StateOf(d)']
  BY DEF lives

(* A step that ends doubts, none at the least.                               *)
LEMMA LifeKeep ==
    ASSUME \A d \in Docs : \/ StateOf(d)' = StateOf(d)
                           \/ InDoubt(d) /\ StateOf(d)' = "ready"
    PROVE  Lifecycle!Keep
<1> DEFINE S == {d \in Docs : InDoubt(d) /\ StateOf(d)' = "ready"}
<1>1. S \in SUBSET {d \in Docs : lives[d] = "unsure"}
  BY StateCases
<1>2. lives' = [d \in Docs |-> IF d \in S THEN "ready" ELSE lives[d]]
  BY DEF lives
<1> QED
  BY <1>1, <1>2 DEF Lifecycle!Keep

(* A statement of a request on the row of d.                                 *)
LEMMA LifeTable ==
    ASSUME TypeOK, NEW d \in Docs, NEW row, PutRow(d, row), work' = work,
           removed' \in {removed, removed \cup {d}}
    PROVE  /\ rows'[d] = row
           /\ \A e \in Docs \ {d} : StateOf(e)' = StateOf(e)
<1>1. rows'[d] = row /\ \A e \in Docs \ {d} : rows'[e] = rows[e]
  BY DEF PutRow, TypeOK
<1>2. \A e \in Docs \ {d} : e \in removed' <=> e \in removed
  OBVIOUS
<1> QED
  BY <1>1, <1>2, LifeSame

LEMMA LifeRequest ==
    ASSUME IndInv, NEW r \in Reqs, Request(r)
    PROVE  Lifecycle!Next
<1> USE DEF IndInv
<1>0. PICK d : d = req[r].doc
  OBVIOUS
<1>1. CASE InsertRow(r)
  <2>1. PICK row \in Row : row.status = "pending" /\ PutRow(d, row)
    BY <1>0, <1>1 DEF InsertRow, Row, Statuses
  <2>2. /\ d \in Docs /\ d \notin Stored \cup removed /\ row # Absent
        /\ removed' = removed /\ work' = work
    BY <1>0, <1>1, BusyHasDoc, AbsentAssumption DEF InsertRow, BlobInv
  <2>3. lives[d] = "unborn"
    BY <2>2, StateCases
  <2>4. rows'[d] = row /\ lives' = [lives EXCEPT ![d] = StateOf(d)']
    BY <2>1, <2>2, LifeTable, LifeMove
  <2>5. StateOf(d)' = "pending"
    BY <2>1, <2>2, <2>4 DEF StateOf, InDoubt, Ready
  <2>6. Lifecycle!Upload(d)
    BY <2>3, <2>4, <2>5 DEF Lifecycle!Upload, Lifecycle!Move
  <2> QED
    BY <2>2, <2>6 DEF Lifecycle!Next
<1>2. CASE DropRow(r)
  <2>1. /\ d \in Stored /\ d \in Docs /\ rows[d].status \in Statuses
        /\ PutRow(d, Absent) /\ removed' = removed \cup {d} /\ work' = work
    BY <1>0, <1>2, StoredRow DEF DropRow, Row
  <2>2. lives[d] \in Statuses \cup {"unsure"}
    BY <2>1, StateCases
  <2>3. rows'[d] = Absent /\ lives' = [lives EXCEPT ![d] = StateOf(d)']
    BY <2>1, LifeTable, LifeMove
  <2>4. StateOf(d)' = "deleted"
    BY <2>1, <2>3 DEF StateOf
  <2>5. Lifecycle!Remove(d)
    BY <2>2, <2>3, <2>4 DEF Lifecycle!Remove, Lifecycle!Move, Statuses
  <2> QED
    BY <2>1, <2>5 DEF Lifecycle!Next
<1>3. CASE WriteRow(r)
  <2>1. /\ d \in Stored /\ PutRow(d, Edited(d, req[r].row))
        /\ req[r].row \in Row /\ removed' = removed /\ work' = work
    BY <1>0, <1>3, BusyHasDoc DEF WriteRow, CopyPcs
  <2>2. /\ d \in Docs /\ Edited(d, req[r].row) # Absent /\ rows[d] # Absent
        /\ Edited(d, req[r].row).status = rows[d].status
    BY <2>1, StoredRow, EditedType, AbsentAssumption DEF Edited
  <2>3. /\ rows'[d] = Edited(d, req[r].row)
        /\ \A e \in Docs \ {d} : StateOf(e)' = StateOf(e)
    BY <2>1, <2>2, LifeTable
  <2>4. (d \in Ready)' <=> d \in Ready
    BY <2>2, <2>3 DEF Ready, Stored
  <2>5. InDoubt(d)' <=> InDoubt(d)
    BY <2>1, <2>4 DEF InDoubt
  <2>6. StateOf(d)' = StateOf(d)
    BY <2>2, <2>3, <2>5 DEF StateOf
  <2> QED
    BY <2>3, <2>6, LifeKeep DEF Lifecycle!Next
<1>4. CASE UNCHANGED <<rows, removed, work>>
  BY <1>4, LifeSame, LifeKeep DEF Lifecycle!Next
<1> QED
  BY <1>1, <1>2, <1>3, <1>4
     DEF Request, Create, BeginCreate, InsertOk, InsertUnsure, InsertFails,
         PurgeBlob, EnqueueNew, Get, BeginGet, LoadOk, LoadFails, Fill, Patch,
         BeginPatch, PatchOk, PatchUnsure, PatchFails, PatchDrop, Delete,
         BeginDelete, DelRowOk, DelRowUnsure, DelRowFails, DelDrop, DelBlob,
         table

(* The doubts of one worker are its own: a step of w that does not take up   *)
(* another document changes no other document's state.                       *)
LEMMA LifeOthers ==
    ASSUME TypeOK, NEW w \in Workers, NEW pc, NEW e, Go(w, pc, e),
           e = work[w].doc \/ pc # "markFailed",
           removed' = removed, NEW d \in Docs, d # work[w].doc,
           rows'[d] = rows[d]
    PROVE  StateOf(d)' = StateOf(d)
<1>1. /\ \A v \in Workers \ {w} : work'[v] = work[v]
      /\ work'[w] = Worker(pc, e)
  BY DEF Go, TypeOK
<1>2. work[w] # Worker("markFailed", d) /\ work'[w] # Worker("markFailed", d)
  BY <1>1 DEF Worker
<1> QED
  BY <1>1, <1>2, LifeSame

(* Whether its own document is in doubt shows in w alone.                    *)
LEMMA OwnDoubt ==
    ASSUME TypeOK, OneJobPerDoc, NEW w \in Workers, NEW pc, NEW e, Go(w, pc, e),
           NEW d \in Docs, d = work[w].doc
    PROVE  /\ InDoubt(d) <=> d \in Ready /\ work[w].pc = "markFailed"
           /\ InDoubt(d)' => d \in Ready' /\ pc = "markFailed"
           /\ e = d /\ pc = "markFailed" /\ d \in Ready' => InDoubt(d)'
<1>1. /\ \A v \in Workers \ {w} : work'[v] = work[v]
      /\ work'[w] = Worker(pc, e)
  BY DEF Go, TypeOK
<1>2. \A v \in Workers : work[v] = Worker("markFailed", d) => v = w
  BY NumDocsAssumption DEF OneJobPerDoc, Worker, Docs
<1>3. work[w] = Worker("markFailed", d) <=> work[w].pc = "markFailed"
  BY DEF Worker, TypeOK, WorkState
<1>4. \A v \in Workers : work'[v] = Worker("markFailed", d) => v = w
  BY <1>1, <1>2
<1>5. Worker(pc, e) = Worker("markFailed", d) <=> pc = "markFailed" /\ e = d
  BY DEF Worker
<1> QED
  BY <1>1, <1>2, <1>3, <1>4, <1>5 DEF InDoubt

(* A status write: the document was pending, or in doubt of this worker.     *)
LEMMA LifeStatus ==
    ASSUME IndInv, NEW w \in Workers, NEW pc, NEW st \in {"ready", "failed"},
           <<pc, st>> \in {<<"markReady", "ready">>, <<"markFailed", "failed">>},
           PutStatus(w, pc, st), NEW next, NEW e, Go(w, next, e),
           e = work[w].doc \/ next # "markFailed",
           next = "markFailed" => pc = "markReady"
    PROVE  Lifecycle!Next
<1> USE DEF IndInv
<1>0. PICK d : d = work[w].doc
  OBVIOUS
<1>1. /\ d \in Stored /\ d \in Docs /\ PutRow(d, WithStatus(d, st))
      /\ removed' = removed /\ work[w].pc = pc
  BY <1>0, StoredRow DEF PutStatus
<1>2. WithStatus(d, st) # Absent /\ WithStatus(d, st).status = st
  BY <1>1, StoredRow, StatusType, AbsentAssumption DEF Statuses, WithStatus, Row
<1>3. rows'[d] = WithStatus(d, st) /\ \A x \in Docs \ {d} : rows'[x] = rows[x]
  BY <1>1 DEF PutRow, TypeOK
<1>4. lives' = [lives EXCEPT ![d] = StateOf(d)']
  BY <1>0, <1>1, <1>3, LifeOthers, LifeMove
<1>5. OneJobPerDoc /\ d # 0
  BY <1>1, NumDocsAssumption DEF Jobs, Docs
<1>6. d \in Pending \/ (pc = "markFailed" /\ InDoubt(d))
  BY <1>0, <1>1, <1>5, OwnDoubt DEF OneJobPerDoc, Unsettled
<1>7. \/ lives[d] = "pending"
      \/ pc = "markFailed" /\ lives[d] = "unsure"
  BY <1>1, <1>6, StateCases
<1>8. /\ StateOf(d)' \in {st, "unsure"}
      /\ StateOf(d)' = "unsure" => pc = "markReady"
  <2>1. StateOf(d)' = IF InDoubt(d)' THEN "unsure" ELSE st
    BY <1>2, <1>3 DEF StateOf
  <2>2. InDoubt(d)' => pc = "markReady"
    BY <1>0, <1>1, <1>5, OwnDoubt
  <2> QED
    BY <2>1, <2>2
<1>9. Lifecycle!Index(d) \/ Lifecycle!Retract(d)
  BY <1>4, <1>7, <1>8
     DEF Lifecycle!Index, Lifecycle!Retract, Lifecycle!Move
<1> QED
  BY <1>1, <1>9 DEF Lifecycle!Next

LEMMA LifeWork ==
    ASSUME IndInv, NEW w \in Workers, Work(w)
    PROVE  Lifecycle!Next
<1> USE DEF IndInv, table
<1>1. CASE \/ MarkOk(w, "markReady", "ready")
           \/ MarkOk(w, "markFailed", "failed")
  BY <1>1, LifeStatus DEF MarkOk
<1>2. CASE ReadyUnsure(w) \/ FailedUnsure(w)
  BY <1>2, LifeStatus DEF ReadyUnsure, FailedUnsure
<1>3. ASSUME NEW pc, NEW e, Go(w, pc, e), UNCHANGED <<rows, removed>>,
             pc # "markFailed"
      PROVE  Lifecycle!Next
  <2>1. \A d \in Docs : d # work[w].doc => StateOf(d)' = StateOf(d)
    BY <1>3, LifeOthers
  <2>2. ASSUME NEW d \in Docs, d = work[w].doc
        PROVE  \/ StateOf(d)' = StateOf(d)
               \/ InDoubt(d) /\ StateOf(d)' = "ready"
    <3>1. ~InDoubt(d)'
      BY <1>3, <2>2, OwnDoubt DEF Jobs
    <3>2. InDoubt(d) => rows[d] # Absent /\ rows[d].status = "ready"
      BY DEF InDoubt, Ready, Stored
    <3> QED
      BY <1>3, <3>1, <3>2 DEF StateOf
  <2> QED
    BY <2>1, <2>2, LifeKeep DEF Lifecycle!Next
<1>4. CASE MarkFails(w, "markReady", "markFailed", work[w].doc)
  <2>1. \A d \in Docs : d # work[w].doc => StateOf(d)' = StateOf(d)
    BY <1>4, LifeOthers DEF MarkFails
  <2>2. ASSUME NEW d \in Docs, d = work[w].doc PROVE StateOf(d)' = StateOf(d)
    <3>1. d \in Unsettled
      BY <1>4, <2>2, NumDocsAssumption DEF MarkFails, Jobs, OneJobPerDoc, Docs
    <3>2. d \notin Ready /\ d \notin Ready'
      BY <1>4, <3>1 DEF MarkFails, Unsettled, Pending, Ready, Stored
    <3> QED
      BY <1>4, <3>2 DEF MarkFails, StateOf, InDoubt
  <2> QED
    BY <2>1, <2>2, LifeKeep DEF Lifecycle!Next
<1>5. CASE MarkFails(w, "markFailed", "idle", 0)
  BY <1>3, <1>5 DEF MarkFails
<1>6. CASE Take(w) \/ MarkDrop(w) \/ WorkerExit(w)
  BY <1>3, <1>6 DEF Take, MarkDrop, WorkerExit
<1> QED
  BY <1>1, <1>2, <1>4, <1>5, <1>6 DEF Work, MarkReady, MarkFailed

(* The end of the process leaves a ready in doubt as it is; a boot finds     *)
(* none.                                                                     *)
LEMMA LifeRun ==
    ASSUME IndInv, Run
    PROVE  Lifecycle!Next
<1> USE DEF IndInv, table
<1>1. CASE UNCHANGED <<rows, removed, work>>
  BY <1>1, LifeSame, LifeKeep DEF Lifecycle!Next
<1>2. CASE ProcessEnds
  <2>1. \A d \in Docs : ~InDoubt(d)'
    BY <1>2 DEF ProcessEnds, InDoubt, Worker
  <2>2. \A d \in Docs : InDoubt(d) => rows[d] # Absent /\ rows[d].status = "ready"
    BY DEF InDoubt, Ready, Stored
  <2>3. \A d \in Docs : \/ StateOf(d)' = StateOf(d)
                        \/ InDoubt(d) /\ StateOf(d)' = "ready"
    BY <1>2, <2>1, <2>2 DEF ProcessEnds, StateOf
  <2> QED
    BY <2>3, LifeKeep DEF Lifecycle!Next
<1>3. CASE Boot
  <2>1. \A w \in Workers : work[w].pc = "exited" /\ work'[w].pc = "idle"
    BY <1>3 DEF Boot, Worker, Jobs, JobInv, AllExited
  <2>2. \A w \in Workers, d \in Docs :
           work[w] # Worker("markFailed", d) /\ work'[w] # Worker("markFailed", d)
    BY <2>1 DEF Worker
  <2>3. \A d \in Docs : StateOf(d)' = StateOf(d)
    BY <1>3, <2>2, LifeSame DEF Boot
  <2> QED
    BY <2>3, LifeKeep DEF Lifecycle!Next
<1> QED
  BY <1>1, <1>2, <1>3
     DEF Run, Recover, RequeueList, RequeueGivesUp, RequeueOne, RequeueNext,
         RequeueDone, Signal, BeginStop, Deadline, StopHTTP, Exit, ListenFails,
         Crash

LEMMA LifeStep ==
    IndInv /\ [Next]_vars => [Lifecycle!Next]_lives
<1> SUFFICES ASSUME IndInv, [Next]_vars PROVE Lifecycle!Next \/ UNCHANGED lives
  OBVIOUS
<1>1. CASE UNCHANGED vars \/ \E d \in Docs : Expire(d)
  <2>1. UNCHANGED <<rows, removed, work>>
    BY <1>1 DEF vars, Expire, table
  <2> QED
    BY <2>1, LifeSame, LifeKeep DEF Lifecycle!Next
<1> QED
  BY <1>1, LifeRequest, LifeWork, LifeRun DEF Next

(* The detailed specification implements DocumentLifecycle: a status settles *)
(* once, but for a ready that was reported as an error, which the same       *)
(* worker may still make failed, and which is ready for good when it does    *)
(* not (indexer.go loop).                                                    *)
THEOREM RefinesLifecycle == Spec => ImplementsLifecycle
<1>1. Init => Lifecycle!Init
  BY DEF Init, Lifecycle!Init, lives, StateOf
<1> QED
  BY <1>1, LifeStep, IndCorrect, PTL
     DEF Spec, ImplementsLifecycle, Lifecycle!Spec
=============================================================================
