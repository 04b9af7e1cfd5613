--------------------------- MODULE UploadsProofs ---------------------------
(* Files are complete and rows tell the truth for every size limit, every    *)
(* body limit and every number of uploads and downloads, whatever fails.     *)
EXTENDS Uploads, TLAPS

(* What the limited reader stores decides the size check: a file within the  *)
(* limit is stored whole, and one over it is seen to be over it.             *)
LEMMA LimitDetects ==
    ASSUME NEW size \in Nat
    PROVE  /\ Stored(size) \in Nat /\ Stored(size) <= size
           /\ size <= MaxSize <=> Stored(size) <= MaxSize
           /\ size <= MaxSize => Stored(size) = size
  BY LimitsAssumption DEF Stored, Remain, Least

Early == {"new", "save", "copy", "sync", "rename"}
Live ==
    {"save", "copy", "sync", "rename", "cleanup", "check", "insert", "purge"}

Types ==
    /\ maxBody \in Nat /\ maxBody \in BodyLimits /\ outage \in BOOLEAN
    /\ \A u \in Docs : sent[u] \in Sizes \cup {0}
    /\ up \in [Docs -> UploadPcs]
    /\ sent \in [Docs -> Nat] /\ len \in [Docs -> Nat]
    /\ name \in [Docs -> Entries] /\ disk \in [Docs -> Entries]
    /\ synced \in [Docs -> BOOLEAN]
    /\ rows \in [Docs -> Nat \cup {Absent}] /\ gone \subseteq Docs
    /\ answer \in [Docs -> {201, 413, 422, 500, Absent}]
    /\ del \in [Docs -> {"idle", "unlink"}]
    /\ get \in [Readers -> [pc : {"open", "send"}, doc : Docs, size : Nat]
                           \cup {Idle}]

(* What is known of one upload, by where its handler is.                     *)
Within(u) == up[u] # "new" /\ sent[u] <= MaxSize
UploadInv(u) ==
    /\ up[u] \in Early => name[u] # "final" /\ disk[u] # "final"
    /\ up[u] \in {"new", "save"} =>
          len[u] = 0 /\ name[u] = "none" /\ disk[u] = "none"
    /\ len[u] <= Stored(sent[u])
    /\ up[u] \in {"sync", "rename", "check", "insert", "purge"} =>
          len[u] = Stored(sent[u])
    /\ up[u] \in {"rename", "check", "insert", "purge"} => synced[u]
    /\ up[u] = "insert" => len[u] <= MaxSize
    /\ up[u] \in Live => sent[u] <= maxBody
    /\ "final" \in {name[u], disk[u]} => synced[u] /\ len[u] = Stored(sent[u])
    /\ rows[u] # Absent => rows[u] = sent[u] /\ Within(u)
    /\ u \in gone => Within(u)
    /\ up[u] \in {"check", "insert"} => name[u] = "final"
    /\ rows[u] # Absent \/ u \in gone => up[u] \in {"purge", "done", "killed"}
    /\ u \in gone => rows[u] = Absent
    /\ del[u] = "unlink" => u \in gone
    /\ answer[u] = 201 => up[u] = "done"
    /\ answer[u] = 201 /\ u \notin gone => name[u] = "final" \/ outage

ReaderInv(r) ==
    /\ get[r].pc # "idle" => Within(get[r].doc)
    /\ get[r].pc = "send" => get[r].size = sent[get[r].doc]

IndInv ==
    /\ Types
    /\ \A u \in Docs : UploadInv(u)
    /\ \A r \in Readers : ReaderInv(r)

LEMMA IndInit == Init => IndInv
<1> SUFFICES ASSUME Init PROVE IndInv
  OBVIOUS
<1>1. Types
  <2>1. maxBody \in Nat /\ maxBody \in BodyLimits /\ outage \in BOOLEAN
    BY LimitsAssumption DEF Init
  <2>2. /\ up \in [Docs -> UploadPcs] /\ name \in [Docs -> Entries]
        /\ disk \in [Docs -> Entries]
    BY DEF Init, UploadPcs, Entries
  <2>3. /\ \A u \in Docs : sent[u] \in Sizes \cup {0}
        /\ sent \in [Docs -> Nat] /\ len \in [Docs -> Nat]
        /\ synced \in [Docs -> BOOLEAN]
    BY DEF Init
  <2>4. /\ rows \in [Docs -> Nat \cup {Absent}] /\ gone \subseteq Docs
        /\ answer \in [Docs -> {201, 413, 422, 500, Absent}]
        /\ del \in [Docs -> {"idle", "unlink"}]
        /\ get \in [Readers -> [pc : {"open", "send"}, doc : Docs, size : Nat]
                               \cup {Idle}]
    BY DEF Init
  <2> QED
    BY <2>1, <2>2, <2>3, <2>4 DEF Types
<1>2. \A u \in Docs : UploadInv(u)
  <2>1. Stored(0) \in Nat
    BY LimitDetects
  <2> QED
    BY <2>1, AbsentAssumption DEF Init, UploadInv, Early, Live
<1>3. \A r \in Readers : ReaderInv(r)
  BY DEF Init, ReaderInv, Idle, Download
<1> QED
  BY <1>1, <1>2, <1>3 DEF IndInv

(* What a reader knows stays true: the size a client sent is fixed once its  *)
(* upload has begun.                                                         *)
LEMMA ReadersKept ==
    ASSUME IndInv, get' = get,
           \A u \in Docs : Within(u) => up'[u] # "new" /\ sent'[u] = sent[u]
    PROVE  \A r \in Readers : ReaderInv(r)'
<1>1. ASSUME NEW r \in Readers PROVE ReaderInv(r)'
  <2>1. get[r].pc = "idle" \/ get[r].doc \in Docs
    BY DEF IndInv, Types, Idle, Download
  <2> QED
    BY <2>1 DEF IndInv, ReaderInv, Within
<1> QED
  BY <1>1

(* An upload's own step: the other uploads keep what is known of them.       *)
LEMMA OthersKept ==
    ASSUME IndInv, NEW u \in Docs, NEW v \in Docs, v # u, maxBody' = maxBody,
           up'[v] = up[v], sent'[v] = sent[v], len'[v] = len[v],
           name'[v] = name[v], disk'[v] = disk[v], synced'[v] = synced[v],
           rows'[v] = rows[v], v \in gone' <=> v \in gone, del'[v] = del[v],
           answer'[v] = answer[v], outage' = outage
    PROVE  UploadInv(v)'
  BY DEF IndInv, UploadInv, Within, Stored, Remain

(* A step of one upload, or of its deletion, leaves all the rest alone.      *)
OnlyThis(u) ==
    /\ get' = get /\ maxBody' = maxBody /\ outage' = outage
    /\ \A v \in Docs : v # u =>
          /\ up'[v] = up[v] /\ sent'[v] = sent[v] /\ len'[v] = len[v]
          /\ name'[v] = name[v] /\ disk'[v] = disk[v]
          /\ synced'[v] = synced[v] /\ rows'[v] = rows[v]
          /\ v \in gone' <=> v \in gone
          /\ del'[v] = del[v] /\ answer'[v] = answer[v]
    /\ Within(u) => up'[u] # "new" /\ sent'[u] = sent[u]

LEMMA OneUpload ==
    ASSUME IndInv, NEW u \in Docs, OnlyThis(u), Types', UploadInv(u)'
    PROVE  IndInv'
<1>1. \A v \in Docs : UploadInv(v)'
  <2>1. ASSUME NEW v \in Docs, v # u PROVE UploadInv(v)'
    BY <2>1, OthersKept DEF OnlyThis
  <2> QED
    BY <2>1
<1>2. \A v \in Docs : Within(v) => up'[v] # "new" /\ sent'[v] = sent[v]
  BY DEF Within, OnlyThis
<1>3. \A r \in Readers : ReaderInv(r)'
  BY <1>2, ReadersKept DEF OnlyThis
<1> QED
  BY <1>1, <1>3 DEF IndInv

(* The handler of an upload, one case per step.                              *)
LEMMA UploadStep == ASSUME IndInv, NEW u \in Docs, Upload(u) PROVE IndInv'
<1> DEFINE Kept == Types' /\ UploadInv(u)' /\ OnlyThis(u)
<1> SUFFICES Kept
  BY OneUpload
<1>0. Types /\ UploadInv(u)
  BY DEF IndInv
<1>a. sent[u] \in Nat /\ Stored(sent[u]) \in Nat /\ Stored(sent[u]) <= sent[u]
  BY <1>0, LimitDetects DEF Types
<1>b. sent[u] <= MaxSize <=> Stored(sent[u]) <= MaxSize
  BY <1>a, LimitDetects
<1>c. sent[u] <= MaxSize => Stored(sent[u]) = sent[u]
  BY <1>a, LimitDetects
<1> USE <1>0, <1>a, AbsentAssumption
    DEF Types, UploadInv, OnlyThis, UploadPcs, SavePcs, Entries, Early, Live,
        Within, Go, Reply, rest, dir, content, table, Stored, Remain
<1>1. CASE RefuseBody(u)
  BY <1>1, BodiesAssumption, LimitsAssumption DEF RefuseBody, Least
<1>2. CASE RefuseForm(u)
  BY <1>2 DEF RefuseForm
<1>3. CASE Accept(u)
  BY <1>3, BodiesAssumption, LimitsAssumption DEF Accept, Fits, Least
<1>4. CASE CreateTemp(u)
  BY <1>4 DEF CreateTemp
<1>5. CASE SaveRefused(u)
  BY <1>5 DEF SaveRefused
<1>6. CASE CopyUnit(u)
  BY <1>6 DEF CopyUnit
<1>7. CASE CopyEnds(u)
  BY <1>7 DEF CopyEnds
<1>8. CASE Sync(u)
  BY <1>8 DEF Sync
<1>9. CASE SaveFails(u)
  BY <1>9 DEF SaveFails
<1>10. CASE CleanUp(u)
  BY <1>10 DEF CleanUp
<1>11. CASE Rename(u)
  BY <1>11 DEF Rename
<1>12. CASE CheckSize(u)
  BY <1>12, LimitsAssumption DEF CheckSize, TooLarge
<1>13. CASE InsertOk(u)
  BY <1>13, <1>b, <1>c DEF InsertOk, Insert
<1>14. CASE InsertFails(u)
  BY <1>14 DEF InsertFails
<1>15. CASE InsertUnsure(u)
  BY <1>15, <1>b, <1>c DEF InsertUnsure, Insert
<1>16. CASE Purge(u)
  BY <1>16 DEF Purge
<1> HIDE <1>0, <1>a
<1> HIDE DEF Kept, Types, UploadInv, OnlyThis, UploadPcs, SavePcs, Entries,
             Early, Live, Within, Go, Reply, rest, dir, content, table, Stored,
             Remain
<1> QED
  BY <1>1, <1>2, <1>3, <1>4, <1>5, <1>6, <1>7, <1>8,
     <1>9, <1>10, <1>11, <1>12, <1>13, <1>14, <1>15, <1>16
     DEF Upload, Save, Store

(* A deletion, and the medium catching up with the directory.                *)
LEMMA DeleteStep ==
    ASSUME IndInv, NEW u \in Docs, Delete(u) \/ WriteBack(u)
    PROVE  IndInv'
<1> DEFINE Kept == Types' /\ UploadInv(u)' /\ OnlyThis(u)
<1> SUFFICES Kept
  BY OneUpload
<1> USE AbsentAssumption
    DEF IndInv, Types, UploadInv, OnlyThis, Entries, Early, Live, Within, rest,
        dir, content, table, Stored, Remain
<1>1. CASE DeleteOk(u)
  BY <1>1 DEF DeleteOk, DeleteRow
<1>2. CASE DeleteUnsure(u)
  BY <1>2 DEF DeleteUnsure, DeleteRow
<1>3. CASE Unlink(u)
  BY <1>3 DEF Unlink
<1>4. CASE WriteBack(u)
  BY <1>4 DEF WriteBack
<1> HIDE DEF Kept
<1> QED
  BY <1>1, <1>2, <1>3, <1>4 DEF Delete

(* A download: it looks at a row that is or was there, and at a file of      *)
(* that row's document.                                                      *)
LEMMA FetchStep ==
    ASSUME IndInv, NEW r \in Readers, Fetch(r)
    PROVE  IndInv'
<1>1. /\ UNCHANGED <<maxBody, up, sent, answer, dir, content, table, del,
                     outage>>
      /\ \E d \in [pc : {"open", "send"}, doc : Docs, size : Nat] \cup {Idle} :
            /\ get' = [get EXCEPT ![r] = d]
            /\ d.pc # "idle" => Within(d.doc)
            /\ d.pc = "send" => d.size = sent[d.doc]
  <2>1. CASE \E u \in Docs : FindRow(r, u)
    <3>1. PICK u \in Docs : FindRow(r, u)
      BY <2>1
    <3>2. Within(u) /\ Download("open", u, 0).pc = "open"
      BY <3>1 DEF FindRow, IndInv, UploadInv, Download
    <3> DEFINE d == Download("open", u, 0)
    <3>3. d \in [pc : {"open", "send"}, doc : Docs, size : Nat]
          /\ d.pc = "open" /\ d.doc = u
      BY DEF Download
    <3>4. get' = [get EXCEPT ![r] = d]
          /\ UNCHANGED <<maxBody, up, sent, answer, dir, content, table, del,
                         outage>>
      BY <3>1 DEF FindRow
    <3> HIDE DEF d
    <3> QED
      BY <3>2, <3>3, <3>4
  <2>2. CASE Open(r)
    <3> DEFINE u == get[r].doc
    <3>1. get[r].pc = "open" /\ name[u] = "final"
      BY <2>2 DEF Open
    <3>2. u \in Docs /\ Within(u)
      BY <3>1 DEF IndInv, Types, ReaderInv, Idle, Download
    <3>3. len[u] = Stored(sent[u]) /\ len[u] \in Nat /\ sent[u] \in Nat
      BY <3>1, <3>2 DEF IndInv, Types, UploadInv
    <3>4. len[u] = sent[u]
      BY <3>2, <3>3, LimitDetects DEF Within
    <3> DEFINE d == Download("send", u, len[u])
    <3>5. d \in [pc : {"open", "send"}, doc : Docs, size : Nat]
          /\ d.doc = u /\ d.size = sent[u]
      BY <3>2, <3>3, <3>4 DEF Download
    <3>6. get' = [get EXCEPT ![r] = d]
          /\ UNCHANGED <<maxBody, up, sent, answer, dir, content, table, del,
                         outage>>
      BY <2>2 DEF Open
    <3>7. Within(d.doc)
      BY <3>2, <3>5
    <3> HIDE DEF d, u
    <3> QED
      BY <3>5, <3>6, <3>7
  <2>3. CASE OpenFails(r) \/ ServeContent(r)
    <3>1. Idle.pc = "idle"
      BY DEF Idle, Download
    <3>2. get' = [get EXCEPT ![r] = Idle]
          /\ UNCHANGED <<maxBody, up, sent, answer, dir, content, table, del,
                         outage>>
      BY <2>3 DEF OpenFails, ServeContent
    <3> QED
      BY <3>1, <3>2
  <2> QED
    BY <2>1, <2>2, <2>3 DEF Fetch
<1>2. Types'
  BY <1>1 DEF IndInv, Types, dir, content, table
<1>3. ASSUME NEW u \in Docs PROVE UploadInv(u)'
  BY <1>1 DEF IndInv, UploadInv, Within, Stored, Remain, dir, content, table
<1>4. ASSUME NEW q \in Readers PROVE ReaderInv(q)'
  BY <1>1 DEF IndInv, Types, ReaderInv, Within, dir, content, table
<1> QED
  BY <1>2, <1>3, <1>4 DEF IndInv

(* The end of the process stops every handler where it is.                   *)
LEMMA DeathStep == ASSUME IndInv, Crash \/ PowerFails PROVE IndInv'
<1>1. /\ ProcessDies /\ UNCHANGED synced
      /\ \/ UNCHANGED <<name, disk, len, outage>>
         \/ /\ outage' = TRUE /\ name' = disk /\ UNCHANGED disk
            /\ len' \in [Docs -> Nat]
            /\ \A u \in Docs : len'[u] <= len[u]
                               /\ (synced[u] => len'[u] = len[u])
  <2>1. CASE Crash
    BY <2>1 DEF Crash, dir, content
  <2>2. CASE PowerFails
    <3>1. PICK cut \in [Docs -> 0 .. MaxSize + 1] :
             len' = [u \in Docs |-> IF synced[u] THEN len[u]
                                    ELSE Least(len[u], cut[u])]
      BY <2>2 DEF PowerFails
    <3>2. ASSUME NEW u \in Docs
          PROVE  /\ len'[u] \in Nat /\ len'[u] <= len[u]
                 /\ synced[u] => len'[u] = len[u]
      BY <3>1, LimitsAssumption DEF IndInv, Types, Least
    <3> QED
      BY <2>2, <3>1, <3>2 DEF PowerFails
  <2> QED
    BY <2>1, <2>2
<1>2. Types'
  <2>1. UNCHANGED <<maxBody, sent, answer, rows, gone>>
    BY <1>1 DEF ProcessDies, table
  <2>2. up' \in [Docs -> UploadPcs]
    BY <1>1 DEF ProcessDies, IndInv, Types, UploadPcs
  <2>3. del' \in [Docs -> {"idle", "unlink"}] /\ get' \in [Readers -> {Idle}]
    BY <1>1 DEF ProcessDies
  <2>4. /\ outage' \in BOOLEAN /\ len' \in [Docs -> Nat]
        /\ name' \in [Docs -> Entries] /\ disk' \in [Docs -> Entries]
    <3>1. /\ outage \in BOOLEAN /\ len \in [Docs -> Nat]
          /\ name \in [Docs -> Entries] /\ disk \in [Docs -> Entries]
      BY DEF IndInv, Types
    <3>2. CASE UNCHANGED <<name, disk, len, outage>>
      BY <3>1, <3>2
    <3>3. CASE /\ outage' = TRUE /\ name' = disk /\ UNCHANGED disk
               /\ len' \in [Docs -> Nat]
      BY <3>1, <3>3
    <3> QED
      BY <1>1, <3>2, <3>3
  <2> QED
    BY <1>1, <2>1, <2>2, <2>3, <2>4 DEF IndInv, Types
<1>3. ASSUME NEW u \in Docs PROVE UploadInv(u)'
  <2>1. /\ sent'[u] = sent[u] /\ Stored(sent[u]) \in Nat
        /\ len[u] \in Nat /\ len'[u] \in Nat /\ len[u] <= Stored(sent[u])
    BY <1>1, <1>2, LimitDetects
       DEF IndInv, Types, UploadInv, ProcessDies, table
  <2>2. len'[u] <= len[u]
    BY <1>1, <2>1
  <2>3. Stored(sent[u])' = Stored(sent[u])
    BY <2>1 DEF Stored, Remain
  <2> QED
    BY <1>1, <2>1, <2>2, <2>3
       DEF IndInv, Types, UploadInv, ProcessDies, table, Within, Early, Live
<1>4. ASSUME NEW r \in Readers PROVE ReaderInv(r)'
  BY <1>1 DEF ProcessDies, ReaderInv, Idle, Download
<1> QED
  BY <1>2, <1>3, <1>4 DEF IndInv

LEMMA IndStep == ASSUME IndInv, [Next]_vars PROVE IndInv'
<1>1. CASE \E u \in Docs : Upload(u) \/ Delete(u) \/ WriteBack(u)
  BY <1>1, UploadStep, DeleteStep
<1>2. CASE \E r \in Readers : Fetch(r)
  BY <1>2, FetchStep
<1>3. CASE Crash \/ PowerFails
  BY <1>3, DeathStep
<1>4. CASE UNCHANGED vars
  BY <1>4 DEF vars, IndInv, Types, UploadInv, ReaderInv, Within, Stored, Remain
<1> QED
  BY <1>1, <1>2, <1>3, <1>4 DEF Next

LEMMA Inductive == Spec => []IndInv
  BY IndInit, IndStep, PTL DEF Spec

(* Type correctness, for every limit and every number of uploads and         *)
(* downloads; a staging file never outgrows what the limited reader lets     *)
(* through (service.go Create).                                              *)
THEOREM TypeCorrect == Spec => []TypeOK
<1>1. IndInv => TypeOK
  <2> SUFFICES ASSUME IndInv PROVE TypeOK
    OBVIOUS
  <2>1. sent \in [Docs -> Sizes \cup {0}]
    BY DEF IndInv, Types
  <2>2. \A u \in Docs : len[u] <= Stored(sent[u])
    BY DEF IndInv, UploadInv
  <2> QED
    BY <2>1, <2>2 DEF IndInv, Types, TypeOK
<1> QED
  BY <1>1, Inductive, PTL

(* Under its final name a file is complete, for every limit and every        *)
(* number of uploads, across crashes and power failures (local.go Save).     *)
THEOREM FilesAreWhole == Spec => []WholeOrAbsent
<1>1. IndInv => WholeOrAbsent
  BY DEF IndInv, UploadInv, WholeOrAbsent
<1> QED
  BY <1>1, Inductive, PTL

(* Whatever the limit, a row tells the size the client sent (service.go      *)
(* Create).                                                                  *)
THEOREM RowsTellTheSize == Spec => []RowTellsSize
<1>1. IndInv => RowTellsSize
  BY DEF IndInv, UploadInv, Within, RowTellsSize
<1> QED
  BY <1>1, Inductive, PTL

(* With both limits from one setting, the second one never refuses: the body *)
(* limit has refused such a file before it was stored (handler.go create).   *)
THEOREM SecondLimitNeverBites == Spec => []SecondLimitIdle
<1>1. IndInv => SecondLimitIdle
  <2> SUFFICES ASSUME IndInv, maxBody <= MaxSize,
                      NEW u \in Docs, up[u] = "purge"
               PROVE  ~TooLarge(u)
    BY DEF SecondLimitIdle
  <2>1. /\ maxBody \in Nat /\ sent[u] \in Nat /\ sent[u] <= maxBody
        /\ len[u] = Stored(sent[u])
    BY DEF IndInv, Types, UploadInv, Live
  <2>2. Stored(sent[u]) \in Nat /\ Stored(sent[u]) <= sent[u]
    BY <2>1, LimitDetects
  <2> QED
    BY <2>1, <2>2, LimitsAssumption DEF TooLarge
<1> QED
  BY <1>1, Inductive, PTL

(* A download sends the file its uploader sent, whole, whatever is deleted   *)
(* or lost meanwhile (handler.go download).                                  *)
THEOREM DownloadsAreWhole == Spec => []DownloadIsWhole
<1>1. IndInv => DownloadIsWhole
  BY DEF IndInv, ReaderInv, DownloadIsWhole
<1> QED
  BY <1>1, Inductive, PTL

(* A row without its file has one of two causes, an insert that reported an  *)
(* error and took effect all the same, or a power failure (service.go Create *)
(* and Delete, local.go Save).                                               *)
THEOREM BareRowsHaveCulprit == Spec => BareHasCulprit
<1>1. ASSUME IndInv, [Next]_vars
      PROVE  [\A u \in Docs : ~Bare(u) /\ Bare(u)' =>
                 PowerFails \/ up[u] = "purge"]_vars
  <2> SUFFICES ASSUME IndInv, Next, NEW u \in Docs, ~Bare(u), Bare(u)',
                      ~PowerFails
               PROVE  up[u] = "purge"
    BY <1>1 DEF vars
  <2> USE DEF IndInv, Types, UploadInv, Bare, rest, dir, content, table, Go,
              Reply
  <2>1. ASSUME NEW v \in Docs, Upload(v) PROVE up[u] = "purge"
    <3>1. CASE \/ RefuseBody(v) \/ RefuseForm(v) \/ Accept(v) \/ SaveRefused(v)
               \/ CopyUnit(v) \/ CopyEnds(v) \/ Sync(v) \/ SaveFails(v)
               \/ CheckSize(v) \/ InsertFails(v)
      <4>1. UNCHANGED <<name, rows>>
        BY <3>1 DEF RefuseBody, RefuseForm, Accept, SaveRefused, CopyUnit,
                    CopyEnds, Sync, SaveFails, CheckSize, InsertFails
      <4> QED
        BY <4>1
    <3>2. CASE CreateTemp(v)
      BY <3>2 DEF CreateTemp
    <3>3. CASE CleanUp(v)
      BY <3>3 DEF CleanUp
    <3>4. CASE Rename(v)
      BY <3>4 DEF Rename
    <3>5. CASE InsertOk(v) \/ InsertUnsure(v)
      BY <3>5 DEF InsertOk, InsertUnsure, Insert
    <3>6. CASE Purge(v)
      BY <3>6 DEF Purge
    <3> QED
      BY <2>1, <3>1, <3>2, <3>3, <3>4, <3>5, <3>6 DEF Upload, Save, Store
  <2>2. ASSUME NEW v \in Docs, Delete(v) PROVE FALSE
    <3>1. CASE DeleteOk(v) \/ DeleteUnsure(v)
      BY <3>1, AbsentAssumption DEF DeleteOk, DeleteUnsure, DeleteRow
    <3>2. CASE Unlink(v)
      BY <3>2 DEF Unlink
    <3> QED
      BY <2>2, <3>1, <3>2 DEF Delete
  <2>3. ASSUME NEW v \in Docs, WriteBack(v) PROVE FALSE
    BY <2>3 DEF WriteBack
  <2>4. ASSUME NEW r \in Readers, Fetch(r) PROVE FALSE
    BY <2>4 DEF Fetch, FindRow, Open, OpenFails, ServeContent
  <2>5. ASSUME Crash PROVE FALSE
    BY <2>5 DEF Crash, ProcessDies
  <2> QED
    BY <2>1, <2>2, <2>3, <2>4, <2>5 DEF Next
<1> QED
  BY <1>1, Inductive, PTL DEF Spec, BareHasCulprit

(* A stored file is left without a row by an unlink that failed, the end of   *)
(* the process, a power failure or a DELETE that took effect and reported an *)
(* error (service.go Create and Delete).                                     *)
THEOREM OrphansHaveCulprit == Spec => OrphanHasCulprit
<1> DEFINE Blame(u) == \/ Crash \/ PowerFails \/ DeleteUnsure(u)
                       \/ name'[u] = "final" /\ (up[u] = "purge" \/ del[u] = "unlink")
<1>1. ASSUME IndInv, [Next]_vars
      PROVE  [\A u \in Docs : ~Orphan(u) /\ Orphan(u)' => Blame(u)]_vars
  <2> SUFFICES ASSUME IndInv, Next, NEW u \in Docs, ~Orphan(u), Orphan(u)',
                      ~Crash, ~PowerFails, ~DeleteUnsure(u)
               PROVE  name'[u] = "final" /\ (up[u] = "purge" \/ del[u] = "unlink")
    BY <1>1 DEF vars
  <2> USE DEF IndInv, Types, UploadInv, Orphan, rest, dir, content, table,
              Go, Reply, Early
  <2>1. ASSUME NEW v \in Docs, Upload(v) PROVE up[u] = "purge"
    <3>1. CASE RefuseBody(v) \/ RefuseForm(v) \/ SaveRefused(v)
      BY <3>1 DEF RefuseBody, RefuseForm, SaveRefused
    <3>2. CASE Accept(v) \/ CopyEnds(v) \/ Sync(v) \/ SaveFails(v)
      BY <3>2 DEF Accept, CopyEnds, Sync, SaveFails
    <3>3. CASE CreateTemp(v) \/ Rename(v)
      BY <3>3 DEF CreateTemp, Rename
    <3>4. CASE CopyUnit(v) \/ CleanUp(v)
      BY <3>4 DEF CopyUnit, CleanUp
    <3>5. CASE CheckSize(v) \/ InsertFails(v) \/ Purge(v)
      BY <3>5 DEF CheckSize, InsertFails, Purge
    <3>6. CASE InsertOk(v) \/ InsertUnsure(v)
      BY <3>6, AbsentAssumption DEF InsertOk, InsertUnsure, Insert
    <3> QED
      BY <2>1, <3>1, <3>2, <3>3, <3>4, <3>5, <3>6 DEF Upload, Save, Store
  <2>2. ASSUME NEW v \in Docs, Delete(v) \/ WriteBack(v)
        PROVE  del[u] = "unlink"
    <3>1. CASE DeleteOk(v)
      BY <3>1 DEF DeleteOk, DeleteRow
    <3>2. CASE DeleteUnsure(v)
      <4>1. u # v
        BY <3>2
      <4> QED
        BY <3>2, <4>1 DEF DeleteUnsure, DeleteRow
    <3>3. CASE Unlink(v)
      BY <3>3 DEF Unlink
    <3>4. CASE WriteBack(v)
      BY <3>4 DEF WriteBack
    <3> QED
      BY <2>2, <3>1, <3>2, <3>3, <3>4 DEF Delete
  <2>3. ASSUME NEW r \in Readers, Fetch(r) PROVE FALSE
    BY <2>3 DEF Fetch, FindRow, Open, OpenFails, ServeContent
  <2>4. name'[u] = "final"
    OBVIOUS
  <2> QED
    BY <2>1, <2>2, <2>3, <2>4 DEF Next
<1> QED
  BY <1>1, Inductive, PTL DEF Spec, OrphanHasCulprit

(* A staging file is left behind by a removal that failed or by the end of   *)
(* the process, by no error path of Save (local.go Save).                    *)
THEOREM LeftoversHaveCulprit == Spec => LeftoverHasCulprit
<1>1. ASSUME IndInv, [Next]_vars
      PROVE  [\A u \in Docs : ~Leftover(u) /\ Leftover(u)' =>
                 Crash \/ PowerFails \/ up[u] = "cleanup"]_vars
  <2> SUFFICES ASSUME IndInv, Next, NEW u \in Docs, ~Leftover(u), Leftover(u)',
                      ~Crash, ~PowerFails
               PROVE  up[u] = "cleanup"
    BY <1>1 DEF vars
  <2> USE DEF IndInv, Types, UploadInv, Leftover, rest, dir, content, table,
              Go, Reply, SavePcs
  <2>1. ASSUME NEW v \in Docs, Upload(v) PROVE up[u] = "cleanup"
    <3>1. CASE RefuseBody(v) \/ RefuseForm(v) \/ SaveRefused(v)
      BY <3>1 DEF RefuseBody, RefuseForm, SaveRefused
    <3>2. CASE Accept(v) \/ CopyEnds(v) \/ Sync(v) \/ SaveFails(v)
      BY <3>2 DEF Accept, CopyEnds, Sync, SaveFails
    <3>3. CASE CreateTemp(v) \/ Rename(v)
      BY <3>3 DEF CreateTemp, Rename
    <3>4. CASE CopyUnit(v) \/ CleanUp(v)
      BY <3>4 DEF CopyUnit, CleanUp
    <3>5. CASE CheckSize(v) \/ InsertFails(v) \/ Purge(v)
      BY <3>5 DEF CheckSize, InsertFails, Purge
    <3>6. CASE InsertOk(v) \/ InsertUnsure(v)
      BY <3>6 DEF InsertOk, InsertUnsure
    <3> QED
      BY <2>1, <3>1, <3>2, <3>3, <3>4, <3>5, <3>6 DEF Upload, Save, Store
  <2>2. ASSUME NEW v \in Docs, Delete(v) \/ WriteBack(v) PROVE FALSE
    <3>1. CASE DeleteOk(v) \/ DeleteUnsure(v) \/ WriteBack(v)
      <4>1. UNCHANGED <<name, up>>
        BY <3>1 DEF DeleteOk, DeleteUnsure, WriteBack
      <4> QED
        BY <4>1
    <3>2. CASE Unlink(v)
      BY <3>2 DEF Unlink
    <3> QED
      BY <2>2, <3>1, <3>2 DEF Delete
  <2>3. ASSUME NEW r \in Readers, Fetch(r) PROVE FALSE
    BY <2>3 DEF Fetch, FindRow, Open, OpenFails, ServeContent
  <2> QED
    BY <2>1, <2>2, <2>3 DEF Next
<1> QED
  BY <1>1, Inductive, PTL DEF Spec, LeftoverHasCulprit

(* The file of every upload that was answered 201 is there until its row is  *)
(* gone, short of a power failure (handler.go download).                     *)
THEOREM MissesHaveCulprit == Spec => MissHasCulprit
<1>1. ASSUME IndInv, [Next]_vars
      PROVE  [\A r \in Readers : OpenFails(r) =>
                 get[r].doc \in gone \/ answer[get[r].doc] # 201 \/ outage]_vars
  <2> SUFFICES ASSUME IndInv, NEW r \in Readers, OpenFails(r)
               PROVE  get[r].doc \in gone \/ answer[get[r].doc] # 201 \/ outage
    BY <1>1
  <2>1. get[r].pc = "open" /\ name[get[r].doc] # "final"
    BY DEF OpenFails
  <2>2. get[r].doc \in Docs
    BY <1>1, <2>1 DEF IndInv, Types, Idle, Download
  <2> QED
    BY <1>1, <2>1, <2>2 DEF IndInv, UploadInv
<1> QED
  BY <1>1, Inductive, PTL DEF Spec, MissHasCulprit

=============================================================================
