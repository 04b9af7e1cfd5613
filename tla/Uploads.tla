------------------------------ MODULE Uploads ------------------------------
(***************************************************************************)
(* The way of an upload's bytes in godocs, at the grain DocumentService    *)
(* leaves out: the two size limits, the staging file that Local.Save       *)
(* writes, syncs and renames, the row, the compensating unlink, downloads  *)
(* and deletions that overlap, and what a crash or a power failure leaves. *)
(*                                                                         *)
(* Upload u is one POST /api/documents; its document, its row and its file *)
(* are called u as well, since names and ids are fresh.  Sizes are counted *)
(* in units; nothing of a file but its length is told apart.               *)
(***************************************************************************)
EXTENDS Integers

CONSTANTS
    NumUploads, \* uploads ever begun (bound)
    Readers,    \* downloads under way at the same time
    MaxSize,    \* Service.maxSize
    BodyLimits, \* what Handler.maxBody may be; main.go gives it maxSize
    Head,       \* how many units are sniffed: 512 bytes in the code
    Sizes,      \* file sizes clients send
    Overheads,  \* what multipart framing and the other fields add
    Faults,     \* what may go wrong in this instance
    Absent      \* no row, no answer yet

ASSUME NumUploadsAssumption == NumUploads \in Nat
ASSUME LimitsAssumption ==
    MaxSize \in Nat \ {0} /\ BodyLimits \subseteq Nat /\ Head \in Nat \ {0}
ASSUME BodiesAssumption == Sizes \subseteq Nat /\ Overheads \subseteq Nat \ {0}
ASSUME FaultsAssumption ==
    Faults \subseteq {"db", "disk", "unsure", "crash", "power"}
ASSUME AbsentAssumption == Absent \notin Int

Docs == 1 .. NumUploads

VARIABLES
    maxBody,    \* Handler.maxBody of this deployment
    up,         \* the handlers of the uploads: where each is
    sent,       \* the size of the file each client sends
    answer,     \* the status code each upload was answered
    name,       \* directory entry of the upload's file, as processes see it
    disk,       \* the same, as it has reached the medium
    len,        \* length of that file
    synced,     \* its content has reached the medium
    rows,       \* documents table: size_bytes
    gone,       \* history: ids whose row was deleted
    del,        \* the DELETE of each document
    get,        \* the downloads
    outage      \* history: the power has failed

dir == <<name, disk>>
content == <<len, synced>>
table == <<rows, gone>>
rest == <<maxBody, del, get, outage>>
vars == <<maxBody, up, sent, answer, name, disk, len, synced, rows, gone,
          del, get, outage>>

Entries == {"none", "part", "final"}
SavePcs == {"save", "copy", "sync", "rename", "cleanup"}
UploadPcs == SavePcs \cup {"new", "check", "insert", "purge", "done", "killed"}
Download(pc, d, size) == [pc |-> pc, doc |-> d, size |-> size]
Idle == Download("idle", 0, 0)

Init ==
    /\ maxBody \in BodyLimits
    /\ up = [u \in Docs |-> "new"]
    /\ sent = [u \in Docs |-> 0]
    /\ answer = [u \in Docs |-> Absent]
    /\ name = [u \in Docs |-> "none"] /\ disk = name
    /\ len = [u \in Docs |-> 0] /\ synced = [u \in Docs |-> FALSE]
    /\ rows = [u \in Docs |-> Absent] /\ gone = {}
    /\ del = [u \in Docs |-> "idle"]
    /\ get = [r \in Readers |-> Idle]
    /\ outage = FALSE

-----------------------------------------------------------------------------
(* How much of the file is read, and stored.                                 *)

Least(a, b) == IF a <= b THEN a ELSE b

\* What LimitReader lets through after the head: one unit past the limit.
\* Mutant of Remain: the extra unit is forgotten.
NoExtraUnit(n) == IF MaxSize - n < 1 THEN 1 ELSE MaxSize - n

Remain(n) == IF MaxSize - n + 1 < 1 THEN 1 ELSE MaxSize - n + 1

\* The stream Save is given: the sniffed head, then at most Remain.
Stored(size) ==
    LET n == Least(size, Head) IN n + Least(size - n, Remain(n))

Fault(kind) == kind \in Faults
Go(u, pc) == up' = [up EXCEPT ![u] = pc]
Reply(u, code) == Go(u, "done") /\ answer' = [answer EXCEPT ![u] = code]

-----------------------------------------------------------------------------
(* Handler.create: the whole body is read against the limit first.           *)

\* Mutant of Fits: the body limit leaves room for the framing.
FitsWithRoom(size, over) == size + over <= maxBody + 2

Fits(size, over) == size + over <= maxBody

\* 413 from MaxBytesReader, before anything is stored.
RefuseBody(u) ==
    /\ up[u] = "new"
    /\ \E size \in Sizes, over \in Overheads :
          ~Fits(size, over) /\ sent' = [sent EXCEPT ![u] = size]
    /\ Reply(u, 413)
    /\ UNCHANGED <<dir, content, table, rest>>

\* 400, 415 or 422: form, sniffed type or metadata refused.
RefuseForm(u) ==
    /\ up[u] = "new"
    /\ Reply(u, 422)
    /\ UNCHANGED <<sent, dir, content, table, rest>>

Accept(u) ==
    /\ up[u] = "new"
    /\ \E size \in Sizes, over \in Overheads :
          Fits(size, over) /\ sent' = [sent EXCEPT ![u] = size]
    /\ Go(u, "save")
    /\ UNCHANGED <<answer, dir, content, table, rest>>

-----------------------------------------------------------------------------
(* Local.Save.                                                               *)

\* The context is still alive, the directory is there: CreateTemp.
CreateTemp(u) ==
    /\ up[u] = "save"
    /\ name' = [name EXCEPT ![u] = "part"]
    /\ Go(u, "copy")
    /\ UNCHANGED <<sent, answer, disk, content, table, rest>>

\* Context ended, or no directory, or no staging file: nothing to clean up.
SaveRefused(u) ==
    /\ up[u] = "save"
    /\ Reply(u, 500)
    /\ UNCHANGED <<sent, dir, content, table, rest>>

\* io.Copy, a unit at a time.
CopyUnit(u) ==
    /\ up[u] = "copy" /\ len[u] < Stored(sent[u])
    /\ len' = [len EXCEPT ![u] = @ + 1]
    /\ UNCHANGED <<up, sent, answer, dir, synced, table, rest>>

\* Mutant of CopyEnds: the error of a copy that broke off is ignored.
CopyErrorIgnored(u) ==
    /\ up[u] = "copy"
    /\ Go(u, "sync")
    /\ UNCHANGED <<sent, answer, dir, content, table, rest>>

CopyEnds(u) ==
    /\ up[u] = "copy" /\ len[u] = Stored(sent[u])
    /\ Go(u, "sync")
    /\ UNCHANGED <<sent, answer, dir, content, table, rest>>

\* Mutant of Sync: the rename is reached without it.
SyncSkipped(u) ==
    /\ up[u] = "sync"
    /\ Go(u, "rename")
    /\ UNCHANGED <<sent, answer, dir, content, table, rest>>

\* tmp.Sync and tmp.Close.
Sync(u) ==
    /\ up[u] = "sync"
    /\ synced' = [synced EXCEPT ![u] = TRUE]
    /\ Go(u, "rename")
    /\ UNCHANGED <<sent, answer, dir, len, table, rest>>

\* Mutant of SaveFails: the clean-up is deferred too late to run.
SaveFailsEarly(u) ==
    /\ up[u] \in {"copy", "sync", "rename"} /\ Fault("disk")
    /\ Reply(u, 500)
    /\ UNCHANGED <<sent, dir, content, table, rest>>

\* A failed step of Save runs the deferred clean-up.
SaveFails(u) ==
    /\ up[u] \in {"copy", "sync", "rename"} /\ Fault("disk")
    /\ Go(u, "cleanup")
    /\ UNCHANGED <<sent, answer, dir, content, table, rest>>

\* The deferred os.Remove, whose error nobody sees.
CleanUp(u) ==
    /\ up[u] = "cleanup"
    /\ \/ name' = [name EXCEPT ![u] = "none"]
       \/ Fault("disk") /\ name' = name
    /\ Reply(u, 500)
    /\ UNCHANGED <<sent, disk, content, table, rest>>

\* After the rename the deferred os.Remove finds nothing to remove.
Rename(u) ==
    /\ up[u] = "rename"
    /\ name' = [name EXCEPT ![u] = "final"]
    /\ Go(u, "check")
    /\ UNCHANGED <<sent, answer, disk, content, table, rest>>

Save(u) == CreateTemp(u) \/ SaveRefused(u) \/ CopyUnit(u) \/ CopyEnds(u)
           \/ Sync(u) \/ SaveFails(u) \/ CleanUp(u) \/ Rename(u)

-----------------------------------------------------------------------------
(* The rest of Service.Create: size check, row, compensation.                *)

\* saved.Size > maxSize: unlink, and 413 instead of the insert.
TooLarge(u) == len[u] > MaxSize
CheckSize(u) ==
    /\ up[u] = "check"
    /\ Go(u, IF TooLarge(u) THEN "purge" ELSE "insert")
    /\ UNCHANGED <<sent, answer, dir, content, table, rest>>

Insert(u) == rows' = [rows EXCEPT ![u] = len[u]]

InsertOk(u) ==
    /\ up[u] = "insert"
    /\ Insert(u) /\ Reply(u, 201)
    /\ UNCHANGED <<sent, dir, content, gone, rest>>

\* Mutant of InsertFails: no compensating unlink.
InsertFailsNoPurge(u) ==
    /\ up[u] = "insert" /\ Fault("db")
    /\ Reply(u, 500)
    /\ UNCHANGED <<sent, dir, content, table, rest>>

\* The statement had no effect.
InsertFails(u) ==
    /\ up[u] = "insert" /\ Fault("db")
    /\ Go(u, "purge")
    /\ UNCHANGED <<sent, answer, dir, content, table, rest>>

\* The request's context ended while the statement ran: the driver reports
\* the context's error although the row is in.
InsertUnsure(u) ==
    /\ up[u] = "insert" /\ Fault("unsure")
    /\ Insert(u) /\ Go(u, "purge")
    /\ UNCHANGED <<sent, answer, dir, content, gone, rest>>

\* The compensating unlink; when it fails the file stays and is logged.
Purge(u) ==
    /\ up[u] = "purge"
    /\ \/ name' = [name EXCEPT ![u] = "none"]
       \/ Fault("disk") /\ name' = name
    /\ Reply(u, IF TooLarge(u) THEN 413 ELSE 500)
    /\ UNCHANGED <<sent, disk, content, table, rest>>

Store(u) == CheckSize(u) \/ InsertOk(u) \/ InsertFails(u) \/ InsertUnsure(u)
            \/ Purge(u)

Upload(u) == RefuseBody(u) \/ RefuseForm(u) \/ Accept(u) \/ Save(u) \/ Store(u)

-----------------------------------------------------------------------------
(* Service.Delete: the row first, then the file.                             *)

DeleteRow(u) ==
    /\ rows' = [rows EXCEPT ![u] = Absent] /\ gone' = gone \cup {u}

\* Mutant of DeleteOk: the file is unlinked first.
DeletesFileFirst(u) ==
    /\ rows[u] # Absent
    /\ name' = [name EXCEPT ![u] = "none"]
    /\ UNCHANGED <<up, sent, answer, disk, content, table, rest>>

DeleteOk(u) ==
    /\ rows[u] # Absent
    /\ DeleteRow(u) /\ del' = [del EXCEPT ![u] = "unlink"]
    /\ UNCHANGED <<maxBody, up, sent, answer, dir, content, get, outage>>

\* The row is gone but the statement reports the context's error: the handler
\* leaves without the unlink.
DeleteUnsure(u) ==
    /\ rows[u] # Absent /\ Fault("unsure")
    /\ DeleteRow(u)
    /\ UNCHANGED <<up, sent, answer, dir, content, rest>>

\* Local.Delete: no such file is no error.
Unlink(u) ==
    /\ del[u] = "unlink"
    /\ \/ name' = [name EXCEPT ![u] = "none"]
       \/ Fault("disk") /\ name' = name
    /\ del' = [del EXCEPT ![u] = "idle"]
    /\ UNCHANGED <<up, sent, answer, disk, content, table, maxBody,
                   get, outage>>

Delete(u) == DeleteOk(u) \/ DeleteUnsure(u) \/ Unlink(u)

-----------------------------------------------------------------------------
(* Handler.download: the row, perhaps a cached one, then the file.           *)

\* Service.Get answers from the table, or from a cache entry that outlived
\* the row (see DocumentService).
FindRow(r, u) ==
    /\ get[r].pc = "idle"
    /\ rows[u] # Absent \/ u \in gone
    /\ get' = [get EXCEPT ![r] = Download("open", u, 0)]
    /\ UNCHANGED <<maxBody, up, sent, answer, dir, content, table, del, outage>>

\* An open file can be read to its end even if it is unlinked meanwhile.
Open(r) ==
    /\ get[r].pc = "open" /\ name[get[r].doc] = "final"
    /\ get' = [get EXCEPT ![r] = Download("send", get[r].doc, len[get[r].doc])]
    /\ UNCHANGED <<maxBody, up, sent, answer, dir, content, table, del, outage>>

\* No such file: not a domain error, hence 500.
OpenFails(r) ==
    /\ get[r].pc = "open" /\ name[get[r].doc] # "final"
    /\ get' = [get EXCEPT ![r] = Idle]
    /\ UNCHANGED <<maxBody, up, sent, answer, dir, content, table, del, outage>>

ServeContent(r) ==
    /\ get[r].pc = "send"
    /\ get' = [get EXCEPT ![r] = Idle]
    /\ UNCHANGED <<maxBody, up, sent, answer, dir, content, table, del, outage>>

Fetch(r) == (\E u \in Docs : FindRow(r, u)) \/ Open(r) \/ OpenFails(r)
            \/ ServeContent(r)

-----------------------------------------------------------------------------
(* The medium, crashes and power failures.                                   *)

\* The file system writes directory changes back when it likes: Save syncs
\* the file, nobody syncs the directory.
WriteBack(u) ==
    /\ disk[u] # name[u]
    /\ disk' = [disk EXCEPT ![u] = name[u]]
    /\ UNCHANGED <<up, sent, answer, name, content, table, rest>>

\* The handlers die with the process; a new process answers new requests.
ProcessDies ==
    /\ up' = [u \in Docs |->
                 IF up[u] \in {"new", "done"} THEN up[u] ELSE "killed"]
    /\ del' = [u \in Docs |-> "idle"]
    /\ get' = [r \in Readers |-> Idle]
    /\ UNCHANGED <<maxBody, sent, answer, table>>

Crash ==
    /\ Fault("crash")
    /\ ProcessDies
    /\ UNCHANGED <<dir, content, outage>>

\* What was not written back is undone, and of a file that was not synced any
\* part may be there.  Committed rows survive.
PowerFails ==
    /\ Fault("power")
    /\ ProcessDies
    /\ name' = disk /\ outage' = TRUE
    /\ \E cut \in [Docs -> 0 .. MaxSize + 1] :
          len' = [u \in Docs |-> IF synced[u] THEN len[u]
                                 ELSE Least(len[u], cut[u])]
    /\ UNCHANGED <<disk, synced>>

Next ==
    \/ \E u \in Docs : Upload(u) \/ Delete(u) \/ WriteBack(u)
    \/ \E r \in Readers : Fetch(r)
    \/ Crash \/ PowerFails

Spec == Init /\ [][Next]_vars

-----------------------------------------------------------------------------
(* Properties.                                                               *)

\* Every variable stays in its set.
TypeOK ==
    /\ maxBody \in BodyLimits
    /\ up \in [Docs -> UploadPcs]
    /\ sent \in [Docs -> Sizes \cup {0}]
    /\ answer \in [Docs -> {201, 413, 422, 500, Absent}]
    /\ name \in [Docs -> Entries] /\ disk \in [Docs -> Entries]
    /\ len \in [Docs -> Nat] /\ \A u \in Docs : len[u] <= Stored(sent[u])
    /\ synced \in [Docs -> BOOLEAN]
    /\ rows \in [Docs -> Nat \cup {Absent}] /\ gone \subseteq Docs
    /\ del \in [Docs -> {"idle", "unlink"}]
    /\ get \in [Readers -> [pc : {"open", "send"}, doc : Docs, size : Nat]
                           \cup {Idle}]
    /\ outage \in BOOLEAN

\* What local.go says of its atomic writes: under its final name a file is
\* complete, whenever the process is killed and whatever the medium forgets.
WholeOrAbsent ==
    \A u \in Docs : "final" \in {name[u], disk[u]} =>
        synced[u] /\ len[u] = Stored(sent[u])

\* A row tells the size of what the client sent, within the limit: neither the
\* limited reader nor the two limits ever cut a file short that gets a row
\* (service.go Create).
RowTellsSize ==
    \A u \in Docs : rows[u] # Absent => rows[u] = sent[u] /\ sent[u] <= MaxSize

\* With both limits from one setting, as run() has it, the body limit comes
\* first: no file is stored only to be found too large.
SecondLimitIdle ==
    maxBody <= MaxSize => \A u \in Docs : up[u] = "purge" => ~TooLarge(u)

\* A row whose file is not there.
Bare(u) == rows[u] # Absent /\ name[u] # "final"

\* A row loses its file for two reasons only: the insert took effect although
\* it reported an error, so that the compensation unlinked the file of a row
\* that exists, or the power failed before the rename was written back
\* (service.go Create and Delete, local.go Save).
BareHasCulprit ==
    [][\A u \in Docs : ~Bare(u) /\ Bare(u)' =>
          PowerFails \/ up[u] = "purge"]_vars

\* A stored file without a row, which no upload will insert and nobody unlink.
Orphan(u) ==
    /\ name[u] = "final" /\ rows[u] = Absent
    /\ up[u] \notin {"check", "insert", "purge"} /\ del[u] # "unlink"

\* A stored file is left without a row for three reasons only: the unlink that
\* was owed failed, the process or the power went before it (or the power
\* undid it), or a DELETE that took effect reported an error and Delete
\* returned before the unlink (service.go Create and Delete).
OrphanHasCulprit ==
    [][\A u \in Docs : ~Orphan(u) /\ Orphan(u)' =>
          \/ Crash \/ PowerFails \/ DeleteUnsure(u)
          \/ name'[u] = "final" /\ (up[u] = "purge" \/ del[u] = "unlink")]_vars

\* A staging file that no upload will remove.
Leftover(u) == name[u] = "part" /\ up[u] \notin SavePcs

\* A staging file is left behind by a removal that failed or a process that
\* died; every error path of Save removes it.
LeftoverHasCulprit ==
    [][\A u \in Docs : ~Leftover(u) /\ Leftover(u)' =>
          Crash \/ PowerFails \/ up[u] = "cleanup"]_vars

\* A download sends the file the client of its upload sent, complete, even if
\* the document is deleted while it is on its way.
DownloadIsWhole ==
    \A r \in Readers : get[r].pc = "send" => get[r].size = sent[get[r].doc]

\* A download that finds the row and then no file, a 500, met a deletion, unless
\* the upload was answered with an error or the power has failed: the file of
\* every 201 is there until its row is gone (handler.go download).
MissHasCulprit ==
    [][\A r \in Readers : OpenFails(r) =>
          get[r].doc \in gone \/ answer[get[r].doc] # 201 \/ outage]_vars

=============================================================================
