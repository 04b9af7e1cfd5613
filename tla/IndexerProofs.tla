---------------------------- MODULE IndexerProofs ----------------------------
(* The worker pool for every number of callers, workers and places in the    *)
(* channel: the lock keeps senders away from the close, a shutdown that      *)
(* returns nil has outlived every accepted job, and the pool implements      *)
(* JobPool.                                                                  *)
EXTENDS Indexer, FiniteSetTheorems, SequenceTheorems, TLAPS

(* Who holds the lock is told by where the calls are.                        *)
Reading(p) == ppc[p] \in {"check", "send", "unlock"}
Writing(s) == spc[s] \in {"announced", "check", "close", "unlock"}
LockInv ==
    /\ \A p \in Producers : p \in readers <=> Reading(p)
    /\ \A s \in Stoppers : writer = s <=> Writing(s)
    /\ \A s \in Stoppers :
          spc[s] \in {"check", "close", "unlock"} => readers = {}

(* Between the flag and the close there is exactly one stopper, and no       *)
(* producer that has read the flag as unset.                                 *)
CloseInv ==
    /\ \A p \in Producers : ppc[p] = "send" => ~closed
    /\ chanClosed => closed
    /\ closed /\ ~chanClosed => \E s \in Stoppers : spc[s] = "close"
    /\ \A s \in Stoppers :
          /\ spc[s] = "close" => closed /\ ~chanClosed
          /\ spc[s] \in {"unlock", "wait", "nil", "deadline"} => chanClosed

(* An accepted job is in exactly one place.                                  *)
Queued(p) == \E i \in 1 .. Len(jobs) : jobs[i] = p
Held(p) == \E w \in Workers : hand[w] = p
JobInv ==
    /\ \A p \in Producers :
          ppc[p] \in {"new", "rlock", "check", "send"} <=> answer[p] = "none"
    /\ \A i, j \in 1 .. Len(jobs) : jobs[i] = jobs[j] => i = j
    /\ \A w \in Workers : wpc[w] = "process" <=> hand[w] # None
    /\ \A w, v \in Workers : hand[w] = hand[v] /\ hand[w] # None => w = v
    /\ \A p \in Producers :
          /\ answer[p] = "accepted" <=> Queued(p) \/ Held(p) \/ p \in handled
          /\ Queued(p) => ~Held(p) /\ p \notin handled
          /\ Held(p) => p \notin handled

(* A worker leaves a closed and empty channel, and is counted until then.    *)
Running == {w \in Workers : wpc[w] # "exited"}
DrainInv ==
    /\ \A w \in Workers : wpc[w] \in {"done", "exited"} => chanClosed /\ jobs = <<>>
    /\ wg = Cardinality(Running)
    /\ \A s \in Stoppers : spc[s] = "nil" => wg = 0

IndInv == TypeOK /\ LockInv /\ CloseInv /\ JobInv /\ DrainInv /\ NoPanic

-----------------------------------------------------------------------------
(* Types.                                                                    *)

LEMMA TypeInit == Init => TypeOK
<1> SUFFICES ASSUME Init PROVE TypeOK
  OBVIOUS
<1>1. Cardinality(Workers) \in Nat
  BY WorkersAssumption, FS_CardinalityType
<1>2. wg \in 0 .. Cardinality(Workers)
  BY <1>1 DEF Init
<1>3. jobs \in Seq(Producers) /\ Len(jobs) <= QueueSize
  BY QueueSizeAssumption, EmptySeq DEF Init
<1> QED
  BY <1>2, <1>3 DEF Init, TypeOK, ProducerPcs, StopperPcs, WorkerPcs

(* The three kinds of goroutine move within their places.                    *)
LEMMA GoTypes ==
    ASSUME TypeOK
    PROVE  /\ \A p \in Producers, from \in ProducerPcs, to \in ProducerPcs :
                PGo(p, from, to) => ppc' \in [Producers -> ProducerPcs]
           /\ \A s \in Stoppers, from \in StopperPcs, to \in StopperPcs :
                SGo(s, from, to) => spc' \in [Stoppers -> StopperPcs]
           /\ \A w \in Workers, from \in WorkerPcs, to \in WorkerPcs :
                WGo(w, from, to) => wpc' \in [Workers -> WorkerPcs]
           /\ \A p \in Producers, a \in {"none", "accepted", "refused"} :
                Answer(p, a) =>
                    answer' \in [Producers -> {"none", "accepted", "refused"}]
  BY DEF TypeOK, PGo, SGo, WGo, Answer

LEMMA EnqueueTypes ==
    ASSUME TypeOK, NEW p \in Producers, CallEnqueue(p) \/ EnqueueStep(p)
    PROVE  TypeOK'
<1> USE DEF lock, chan, pool, calls, ProducerPcs
<1>1. CASE CallEnqueue(p)
  <2>1. ppc' \in [Producers -> ProducerPcs]
    BY <1>1, GoTypes DEF CallEnqueue
  <2> QED
    BY <1>1, <2>1 DEF CallEnqueue, TypeOK
<1>2. CASE RLock(p)
  <2>1. ppc' \in [Producers -> ProducerPcs]
    BY <1>2, GoTypes DEF RLock
  <2> QED
    BY <1>2, <2>1 DEF RLock, TypeOK
<1>3. CASE CheckClosed(p)
  <2>1. ppc' \in [Producers -> ProducerPcs]
    BY <1>3, GoTypes DEF CheckClosed
  <2>2. answer' \in [Producers -> {"none", "accepted", "refused"}]
    BY <1>3, GoTypes DEF CheckClosed, TypeOK
  <2> QED
    BY <1>3, <2>1, <2>2 DEF CheckClosed, TypeOK
<1>4. CASE TrySend(p)
  <2>1. ppc' \in [Producers -> ProducerPcs]
    BY <1>4, GoTypes DEF TrySend
  <2>2. answer' \in [Producers -> {"none", "accepted", "refused"}]
    BY <1>4, GoTypes DEF TrySend
  <2>3. jobs' \in Seq(Producers) /\ Len(jobs') <= QueueSize
    <3>1. /\ Append(jobs, p) \in Seq(Producers)
          /\ Len(Append(jobs, p)) = Len(jobs) + 1 /\ Len(jobs) \in Nat
      BY AppendProperties, LenProperties DEF TypeOK
    <3>2. jobs' = jobs \/ (Len(jobs) < QueueSize /\ jobs' = Append(jobs, p))
      BY <1>4 DEF TrySend, Room
    <3>3. jobs \in Seq(Producers) /\ Len(jobs) <= QueueSize /\ QueueSize \in Nat
      BY QueueSizeAssumption DEF TypeOK
    <3>4. CASE jobs' = jobs
      BY <3>3, <3>4
    <3>5. CASE Len(jobs) < QueueSize /\ jobs' = Append(jobs, p)
      BY <3>1, <3>3, <3>5
    <3> QED
      BY <3>2, <3>4, <3>5
  <2>4. panicked' \in BOOLEAN
    BY <1>4 DEF TrySend
  <2>5. UNCHANGED <<lock, closed, chanClosed, pool, spc>>
    BY <1>4 DEF TrySend
  <2> QED
    BY <2>1, <2>2, <2>3, <2>4, <2>5 DEF TypeOK
<1>5. CASE RUnlock(p)
  <2>1. ppc' \in [Producers -> ProducerPcs]
    BY <1>5, GoTypes DEF RUnlock
  <2> QED
    BY <1>5, <2>1 DEF RUnlock, TypeOK
<1> QED
  BY <1>1, <1>2, <1>3, <1>4, <1>5 DEF EnqueueStep

LEMMA ShutdownTypes ==
    ASSUME TypeOK, NEW s \in Stoppers, CallShutdown(s) \/ ShutdownStep(s)
    PROVE  TypeOK'
<1>1. spc' \in [Stoppers -> StopperPcs]
  BY GoTypes DEF CallShutdown, ShutdownStep, Announce, Acquire, SetClosed,
     CloseChan, Unlock, WaitDone, WaitDeadline, StopperPcs
<1>2. writer' \in Stoppers \cup {None}
  BY DEF CallShutdown, ShutdownStep, Announce, Acquire, SetClosed, CloseChan,
     Unlock, WaitDone, WaitDeadline, TypeOK, lock
<1>3. closed' \in BOOLEAN /\ chanClosed' \in BOOLEAN /\ panicked' \in BOOLEAN
  BY DEF CallShutdown, ShutdownStep, Announce, Acquire, SetClosed, CloseChan,
     Unlock, WaitDone, WaitDeadline, TypeOK, chan
<1>4. UNCHANGED <<readers, jobs, ppc, answer, pool>>
  BY DEF CallShutdown, ShutdownStep, Announce, Acquire, SetClosed, CloseChan,
     Unlock, WaitDone, WaitDeadline, lock, chan, calls
<1> QED
  BY <1>1, <1>2, <1>3, <1>4 DEF TypeOK, pool

(* A worker past its loop is still counted until it has left.                *)
LEMMA WorkerTypes ==
    ASSUME TypeOK, JobInv, DrainInv, NEW w \in Workers, WorkerStep(w)
    PROVE  TypeOK'
<1> USE DEF lock, chan, pool, calls
<1>1. wpc' \in [Workers -> WorkerPcs]
  BY GoTypes DEF WorkerStep, Receive, Process, LoopEnds, WorkerDone, WorkerPcs
<1>2. CASE Receive(w)
  <2>1. Head(jobs) \in Producers /\ Tail(jobs) \in Seq(Producers)
        /\ Len(Tail(jobs)) <= QueueSize
    BY <1>2, QueueSizeAssumption, HeadTailProperties DEF Receive, TypeOK
  <2> QED
    BY <1>1, <1>2, <2>1 DEF Receive, TypeOK
<1>3. CASE Process(w)
  <2>1. handled' \subseteq Producers
    BY <1>3 DEF Process, WGo, TypeOK, JobInv
  <2> QED
    BY <1>1, <1>3, <2>1 DEF Process, TypeOK
<1>4. CASE LoopEnds(w)
  BY <1>1, <1>4 DEF LoopEnds, TypeOK
<1>5. CASE WorkerDone(w)
  <2>1. w \in Running
    BY <1>5 DEF WorkerDone, WGo, Running
  <2>2. wg # 0
    BY <2>1, WorkersAssumption, FS_Subset, FS_EmptySet DEF DrainInv, Running
  <2>3. wg - 1 \in 0 .. Cardinality(Workers)
    BY <2>2, WorkersAssumption, FS_CardinalityType DEF TypeOK
  <2> QED
    BY <1>1, <1>5, <2>3 DEF WorkerDone, TypeOK
<1> QED
  BY <1>2, <1>3, <1>4, <1>5 DEF WorkerStep

-----------------------------------------------------------------------------
(* The lock and the close.                                                   *)

LEMMA LockEnqueue ==
    ASSUME TypeOK, LockInv, NEW p \in Producers, CallEnqueue(p) \/ EnqueueStep(p)
    PROVE  LockInv'
<1> USE DEF lock, PGo, Reading, Writing
<1>1. CASE CallEnqueue(p)
  BY <1>1 DEF CallEnqueue, TypeOK, LockInv
<1>2. CASE RLock(p)
  <2>1. writer = None /\ UNCHANGED <<writer, spc>>
    BY <1>2 DEF RLock, MayRead
  <2>2. \A s \in Stoppers : ~Writing(s)
    BY <2>1, NoneAssumption DEF LockInv
  <2>3. \A q \in Producers : (q \in readers <=> Reading(q))'
    BY <1>2 DEF RLock, TypeOK, LockInv
  <2> QED
    BY <2>1, <2>2, <2>3 DEF LockInv
<1>3. CASE CheckClosed(p)
  BY <1>3 DEF CheckClosed, TypeOK, LockInv
<1>4. CASE TrySend(p)
  BY <1>4 DEF TrySend, TypeOK, LockInv
<1>5. CASE RUnlock(p)
  BY <1>5 DEF RUnlock, TypeOK, LockInv
<1> QED
  BY <1>1, <1>2, <1>3, <1>4, <1>5 DEF EnqueueStep

LEMMA LockShutdown ==
    ASSUME TypeOK, LockInv, NEW s \in Stoppers, CallShutdown(s) \/ ShutdownStep(s)
    PROVE  LockInv'
<1> USE DEF lock, calls, SGo, Reading, Writing
<1>1. CASE CallShutdown(s)
  BY <1>1 DEF CallShutdown, TypeOK, LockInv
<1>2. CASE Announce(s)
  BY <1>2, NoneAssumption DEF Announce, TypeOK, LockInv
<1>3. CASE Acquire(s)
  BY <1>3 DEF Acquire, ReadersGone, TypeOK, LockInv
<1>4. CASE SetClosed(s)
  BY <1>4 DEF SetClosed, TypeOK, LockInv
<1>5. CASE CloseChan(s)
  BY <1>5 DEF CloseChan, TypeOK, LockInv
<1>6. CASE Unlock(s)
  BY <1>6, NoneAssumption DEF Unlock, TypeOK, LockInv
<1>7. CASE WaitDone(s)
  BY <1>7 DEF WaitDone, TypeOK, LockInv
<1>8. CASE WaitDeadline(s)
  BY <1>8 DEF WaitDeadline, TypeOK, LockInv
<1> QED
  BY <1>1, <1>2, <1>3, <1>4, <1>5, <1>6, <1>7, <1>8 DEF ShutdownStep

(* Nobody has read an unset flag who could still send when it is set, and    *)
(* nobody sends on or closes a closed channel.                               *)
LEMMA CloseEnqueue ==
    ASSUME TypeOK, CloseInv, NoPanic, NEW p \in Producers,
           CallEnqueue(p) \/ EnqueueStep(p)
    PROVE  CloseInv' /\ NoPanic'
<1> USE DEF chan, PGo, NoPanic
<1>1. CASE CallEnqueue(p)
  BY <1>1 DEF CallEnqueue, TypeOK, CloseInv
<1>2. CASE RLock(p)
  BY <1>2 DEF RLock, TypeOK, CloseInv
<1>3. CASE CheckClosed(p)
  BY <1>3 DEF CheckClosed, TypeOK, CloseInv
<1>4. CASE TrySend(p)
  BY <1>4 DEF TrySend, TypeOK, CloseInv
<1>5. CASE RUnlock(p)
  BY <1>5 DEF RUnlock, TypeOK, CloseInv
<1> QED
  BY <1>1, <1>2, <1>3, <1>4, <1>5 DEF EnqueueStep

LEMMA CloseShutdown ==
    ASSUME TypeOK, LockInv, CloseInv, NoPanic, NEW s \in Stoppers,
           CallShutdown(s) \/ ShutdownStep(s)
    PROVE  CloseInv' /\ NoPanic'
<1> USE DEF chan, calls, SGo, NoPanic
<1>1. CASE CallShutdown(s)
  BY <1>1 DEF CallShutdown, TypeOK, CloseInv
<1>2. CASE Announce(s)
  BY <1>2 DEF Announce, TypeOK, CloseInv
<1>3. CASE Acquire(s)
  BY <1>3 DEF Acquire, TypeOK, CloseInv
<1>4. CASE SetClosed(s)
  <2>1. \A p \in Producers : ppc[p] # "send"
    BY <1>4 DEF SetClosed, LockInv, Reading
  <2>2. \A r \in Stoppers : r # s => spc[r] # "close"
    BY <1>4 DEF SetClosed, LockInv, Writing
  <2> QED
    BY <1>4, <2>1, <2>2 DEF SetClosed, TypeOK, CloseInv
<1>5. CASE CloseChan(s)
  <2>1. \A r \in Stoppers : r # s => spc[r] # "close"
    BY <1>5 DEF CloseChan, LockInv, Writing
  <2> QED
    BY <1>5, <2>1 DEF CloseChan, TypeOK, CloseInv
<1>6. CASE Unlock(s)
  BY <1>6 DEF Unlock, TypeOK, CloseInv
<1>7. CASE WaitDone(s)
  BY <1>7 DEF WaitDone, TypeOK, CloseInv
<1>8. CASE WaitDeadline(s)
  BY <1>8 DEF WaitDeadline, TypeOK, CloseInv
<1> QED
  BY <1>1, <1>2, <1>3, <1>4, <1>5, <1>6, <1>7, <1>8 DEF ShutdownStep

(* Workers do not touch the lock or close the channel.                       *)
LEMMA WorkersKeepLock ==
    ASSUME LockInv, CloseInv, NoPanic, NEW w \in Workers, WorkerStep(w)
    PROVE  LockInv' /\ CloseInv' /\ NoPanic'
<1>1. UNCHANGED <<readers, writer, closed, chanClosed, ppc, spc, panicked>>
  BY DEF WorkerStep, Receive, Process, LoopEnds, WorkerDone, lock, chan, calls
<1> QED
  BY <1>1 DEF LockInv, CloseInv, NoPanic, Reading, Writing

-----------------------------------------------------------------------------
(* The jobs.                                                                 *)

(* What a receive and a send do to the channel's contents.                   *)
LEMMA SendFacts ==
    ASSUME TypeOK, NEW p \in Producers, jobs' = Append(jobs, p)
    PROVE  /\ Len(jobs') = Len(jobs) + 1 /\ Len(jobs) \in Nat
           /\ jobs'[Len(jobs) + 1] = p
           /\ \A i \in 1 .. Len(jobs) : jobs'[i] = jobs[i]
           /\ \A q \in Producers : Queued(q)' <=> Queued(q) \/ q = p
<1>1. /\ Len(jobs') = Len(jobs) + 1 /\ Len(jobs) \in Nat
      /\ jobs'[Len(jobs) + 1] = p
      /\ \A i \in 1 .. Len(jobs) : jobs'[i] = jobs[i]
  BY AppendProperties, LenProperties DEF TypeOK
<1>2. \A q \in Producers : Queued(q)' <=> Queued(q) \/ q = p
  BY <1>1 DEF Queued
<1> QED
  BY <1>1, <1>2

LEMMA ReceiveFacts ==
    ASSUME TypeOK, JobInv, jobs # <<>>, jobs' = Tail(jobs)
    PROVE  /\ Head(jobs) \in Producers /\ Queued(Head(jobs))
           /\ Len(jobs) \in Nat /\ Len(jobs') = Len(jobs) - 1
           /\ \A i \in 1 .. Len(jobs') : jobs'[i] = jobs[i + 1]
           /\ \A q \in Producers : Queued(q)' <=> Queued(q) /\ q # Head(jobs)
<1>1. /\ Len(jobs) \in Nat /\ Len(jobs) >= 1
      /\ Head(jobs) = jobs[1] /\ jobs[1] \in Producers
  BY EmptySeq, LenProperties, HeadTailProperties DEF TypeOK
<1>2. /\ Len(jobs') = Len(jobs) - 1
      /\ \A i \in 1 .. Len(jobs') : jobs'[i] = jobs[i + 1]
  BY <1>1, HeadTailProperties DEF TypeOK
<1>3. Queued(Head(jobs))
  BY <1>1 DEF Queued
<1>4. ASSUME NEW q \in Producers, Queued(q), q # Head(jobs)
      PROVE  Queued(q)'
  <2>1. PICK i \in 1 .. Len(jobs) : jobs[i] = q
    BY <1>4 DEF Queued
  <2>2. i # 1 /\ i - 1 \in 1 .. Len(jobs')
    BY <2>1, <1>1, <1>2, <1>4
  <2>3. jobs'[i - 1] = jobs[i]
    BY <2>2, <1>1, <1>2
  <2> QED
    BY <2>1, <2>2, <2>3 DEF Queued
<1>5. ASSUME NEW q \in Producers, Queued(q)' PROVE Queued(q) /\ q # Head(jobs)
  <2>1. PICK i \in 1 .. Len(jobs') : jobs'[i] = q
    BY <1>5 DEF Queued
  <2>2. i + 1 \in 1 .. Len(jobs) /\ jobs[i + 1] = q
    BY <2>1, <1>1, <1>2
  <2>3. i + 1 # 1 /\ 1 \in 1 .. Len(jobs)
    BY <2>2, <1>1
  <2> QED
    BY <2>2, <2>3, <1>1 DEF Queued, JobInv
<1> QED
  BY <1>1, <1>2, <1>3, <1>4, <1>5

(* Where the jobs are does not depend on the lock or on the stoppers.        *)
LEMMA JobsElsewhere ==
    ASSUME JobInv, UNCHANGED <<jobs, answer, wpc, hand, handled>>,
           \A p \in Producers :
              (ppc[p] \in {"new", "rlock", "check", "send"})' <=>
               ppc[p] \in {"new", "rlock", "check", "send"}
    PROVE  JobInv'
  BY DEF JobInv, Queued, Held

LEMMA JobEnqueue ==
    ASSUME TypeOK, JobInv, NEW p \in Producers, CallEnqueue(p) \/ EnqueueStep(p)
    PROVE  JobInv'
<1> USE DEF lock, chan, pool, PGo
<1>1. CASE CallEnqueue(p)
  BY <1>1, JobsElsewhere DEF CallEnqueue, TypeOK
<1>2. CASE RLock(p)
  BY <1>2, JobsElsewhere DEF RLock, TypeOK
<1>3. ASSUME Answer(p, "refused"), ppc[p] \in {"check", "send"},
             ppc' = [ppc EXCEPT ![p] = "unlock"],
             UNCHANGED <<jobs, hand, handled, wpc>>
      PROVE  JobInv'
  <2>1. answer' = [answer EXCEPT ![p] = "refused"] /\ answer[p] = "none"
    BY <1>3 DEF Answer, JobInv
  <2>2. \A q \in Producers : /\ Queued(q)' <=> Queued(q)
                             /\ Held(q)' <=> Held(q)
    BY <1>3 DEF Queued, Held
  <2>3. \A q \in Producers : /\ q # p => answer'[q] = answer[q] /\ ppc'[q] = ppc[q]
                             /\ answer'[p] = "refused" /\ ppc'[p] = "unlock"
    BY <1>3, <2>1 DEF TypeOK
  <2> QED
    BY <1>3, <2>1, <2>2, <2>3 DEF JobInv
<1>4. CASE CheckClosed(p)
  <2>1. CASE closed
    BY <1>3, <1>4, <2>1 DEF CheckClosed
  <2>2. CASE ~closed
    BY <1>4, <2>2, JobsElsewhere DEF CheckClosed, TypeOK
  <2> QED
    BY <2>1, <2>2
<1>5. CASE TrySend(p)
  <2>1. CASE ~Room
    BY <1>3, <1>5, <2>1 DEF TrySend
  <2>2. CASE Room
    <3>1. jobs' = Append(jobs, p) /\ UNCHANGED <<hand, handled, wpc>>
      BY <1>5, <2>2 DEF TrySend
    <3>2. \A q \in Producers : Held(q)' <=> Held(q)
      BY <3>1 DEF Held
    <3>3. answer[p] = "none"
      BY <1>5 DEF TrySend, JobInv
    <3>4. ~Queued(p) /\ ~Held(p) /\ p \notin handled
      BY <3>3 DEF JobInv
    <3>5. \A q \in Producers : /\ q # p => answer'[q] = answer[q] /\ ppc'[q] = ppc[q]
                               /\ answer'[p] = "accepted" /\ ppc'[p] = "unlock"
      BY <1>5, <2>2 DEF TrySend, Answer, TypeOK
    <3>6. \A i, j \in 1 .. Len(jobs') : jobs'[i] = jobs'[j] => i = j
      <4>1. \A i \in 1 .. Len(jobs) : jobs[i] # p
        BY <3>4 DEF Queued
      <4>2. \A i \in 1 .. Len(jobs') : i \in 1 .. Len(jobs) \/ i = Len(jobs) + 1
        BY <3>1, SendFacts
      <4> QED
        BY <3>1, <4>1, <4>2, SendFacts DEF JobInv
    <3>7. \A q \in Producers : Queued(q)' <=> Queued(q) \/ q = p
      BY <3>1, SendFacts
    <3> QED
      BY <3>1, <3>2, <3>4, <3>5, <3>6, <3>7 DEF JobInv
  <2> QED
    BY <2>1, <2>2
<1>6. CASE RUnlock(p)
  BY <1>6, JobsElsewhere DEF RUnlock, TypeOK
<1> QED
  BY <1>1, <1>2, <1>4, <1>5, <1>6 DEF EnqueueStep

LEMMA JobShutdown ==
    ASSUME JobInv, NEW s \in Stoppers, CallShutdown(s) \/ ShutdownStep(s)
    PROVE  JobInv'
<1>1. UNCHANGED <<jobs, ppc, answer, wpc, hand, handled>>
  BY DEF CallShutdown, ShutdownStep, Announce, Acquire, SetClosed, CloseChan,
     Unlock, WaitDone, WaitDeadline, lock, chan, pool, calls
<1> QED
  BY <1>1, JobsElsewhere

LEMMA JobWorker ==
    ASSUME TypeOK, JobInv, NEW w \in Workers, WorkerStep(w)
    PROVE  JobInv'
<1> USE DEF lock, chan, calls, WGo
<1>1. CASE Receive(w)
  <2> DEFINE h == Head(jobs)
  <2>1. /\ jobs # <<>> /\ jobs' = Tail(jobs)
        /\ UNCHANGED <<ppc, answer, handled>>
        /\ wpc[w] = "receive" /\ wpc' = [wpc EXCEPT ![w] = "process"]
        /\ hand' = [hand EXCEPT ![w] = h]
    BY <1>1 DEF Receive
  <2>2. h \in Producers /\ Queued(h) /\ ~Held(h) /\ h \notin handled /\ h # None
    BY <2>1, ReceiveFacts, NoneAssumption DEF JobInv
  <2>3. hand[w] = None
    BY <2>1 DEF JobInv
  <2>4. \A v \in Workers : /\ v # w => hand'[v] = hand[v] /\ wpc'[v] = wpc[v]
                           /\ hand'[w] = h /\ wpc'[w] = "process"
    BY <2>1 DEF TypeOK
  <2>5. \A q \in Producers : Held(q)' <=> Held(q) \/ q = h
    BY <2>3, <2>4, NoneAssumption DEF Held
  <2>6. \A i, j \in 1 .. Len(jobs') : jobs'[i] = jobs'[j] => i = j
    <3>1. \A i \in 1 .. Len(jobs') : /\ i + 1 \in 1 .. Len(jobs)
                                     /\ jobs'[i] = jobs[i + 1]
      BY <2>1, ReceiveFacts
    <3> QED
      BY <3>1, <2>1, ReceiveFacts DEF JobInv
  <2>7. \A q \in Producers : Queued(q)' <=> Queued(q) /\ q # h
    BY <2>1, ReceiveFacts
  <2>8. \A v, u \in Workers : hand'[v] = hand'[u] /\ hand'[v] # None => v = u
    BY <2>2, <2>4 DEF JobInv, Held
  <2>9. \A v \in Workers : wpc'[v] = "process" <=> hand'[v] # None
    BY <2>2, <2>4 DEF JobInv
  <2> HIDE DEF h
  <2> QED
    BY <2>1, <2>2, <2>5, <2>6, <2>7, <2>8, <2>9 DEF JobInv
<1>2. CASE Process(w)
  <2>1. /\ UNCHANGED <<ppc, answer, jobs>>
        /\ wpc[w] = "process" /\ wpc' = [wpc EXCEPT ![w] = "receive"]
        /\ hand' = [hand EXCEPT ![w] = None]
        /\ handled' = handled \cup {hand[w]}
    BY <1>2 DEF Process
  <2>2. hand[w] \in Producers /\ Held(hand[w])
    BY <2>1 DEF JobInv, TypeOK, Held
  <2>3. \A v \in Workers : /\ v # w => hand'[v] = hand[v] /\ wpc'[v] = wpc[v]
                           /\ hand'[w] = None /\ wpc'[w] = "receive"
    BY <2>1 DEF TypeOK
  <2>4. \A q \in Producers : Held(q)' <=> Held(q) /\ q # hand[w]
    BY <2>2, <2>3, NoneAssumption DEF Held, JobInv
  <2>5. \A q \in Producers : Queued(q)' <=> Queued(q)
    BY <2>1 DEF Queued
  <2>6. \A v, u \in Workers : hand'[v] = hand'[u] /\ hand'[v] # None => v = u
    BY <2>3 DEF JobInv
  <2>7. \A v \in Workers : wpc'[v] = "process" <=> hand'[v] # None
    BY <2>3 DEF JobInv
  <2> QED
    BY <2>1, <2>2, <2>4, <2>5, <2>6, <2>7 DEF JobInv
<1>3. CASE LoopEnds(w)
  <2>1. UNCHANGED <<ppc, answer, jobs, hand, handled>>
    BY <1>3 DEF LoopEnds
  <2>2. \A v \in Workers : wpc'[v] = "process" <=> wpc[v] = "process"
    BY <1>3 DEF LoopEnds, TypeOK
  <2> QED
    BY <2>1, <2>2 DEF JobInv, Queued, Held
<1>4. CASE WorkerDone(w)
  <2>1. UNCHANGED <<ppc, answer, jobs, hand, handled>>
    BY <1>4 DEF WorkerDone
  <2>2. \A v \in Workers : wpc'[v] = "process" <=> wpc[v] = "process"
    BY <1>4 DEF WorkerDone, TypeOK
  <2> QED
    BY <2>1, <2>2 DEF JobInv, Queued, Held
<1> QED
  BY <1>1, <1>2, <1>3, <1>4 DEF WorkerStep

-----------------------------------------------------------------------------
(* The end: nothing is sent after the close, so a channel found empty then   *)
(* stays empty.                                                              *)

LEMMA DrainEnqueue ==
    ASSUME TypeOK, CloseInv, DrainInv, NEW p \in Producers,
           CallEnqueue(p) \/ EnqueueStep(p)
    PROVE  DrainInv'
<1>1. UNCHANGED <<chanClosed, wg, wpc, spc>>
  BY DEF CallEnqueue, EnqueueStep, RLock, CheckClosed, TrySend, RUnlock, chan, pool
<1>2. chanClosed => UNCHANGED jobs
  BY DEF CallEnqueue, EnqueueStep, RLock, CheckClosed, TrySend, RUnlock, chan,
     PGo, CloseInv
<1> QED
  BY <1>1, <1>2 DEF DrainInv, Running

LEMMA DrainShutdown ==
    ASSUME TypeOK, DrainInv, NEW s \in Stoppers, CallShutdown(s) \/ ShutdownStep(s)
    PROVE  DrainInv'
<1>1. UNCHANGED <<jobs, wg, wpc>> /\ (chanClosed => chanClosed')
  BY DEF CallShutdown, ShutdownStep, Announce, Acquire, SetClosed, CloseChan,
     Unlock, WaitDone, WaitDeadline, chan, pool
<1>2. \A r \in Stoppers : spc'[r] = "nil" => spc[r] = "nil" \/ wg = 0
  BY DEF CallShutdown, ShutdownStep, Announce, Acquire, SetClosed, CloseChan,
     Unlock, WaitDone, WaitDeadline, SGo, TypeOK
<1> QED
  BY <1>1, <1>2 DEF DrainInv, Running

LEMMA DrainWorker ==
    ASSUME TypeOK, DrainInv, NEW w \in Workers, WorkerStep(w)
    PROVE  DrainInv'
<1> USE DEF chan, WGo
<1>1. UNCHANGED <<chanClosed, spc>>
  BY DEF WorkerStep, Receive, Process, LoopEnds, WorkerDone
<1>2. CASE Receive(w) \/ Process(w) \/ LoopEnds(w)
  <2>1. UNCHANGED wg
    BY <1>2 DEF Receive, Process, LoopEnds
  <2>2. Running' = Running
    BY <1>2 DEF Receive, Process, LoopEnds, Running, TypeOK
  <2>3. jobs = <<>> => UNCHANGED jobs
    BY <1>2 DEF Receive, Process, LoopEnds
  <2>4. \A v \in Workers : wpc'[v] \in {"done", "exited"} =>
           wpc[v] \in {"done", "exited"} \/ (chanClosed /\ jobs = <<>>)
    BY <1>2 DEF Receive, Process, LoopEnds, TypeOK
  <2> QED
    BY <1>1, <2>1, <2>2, <2>3, <2>4 DEF DrainInv
<1>3. CASE WorkerDone(w)
  <2>1. wg' = wg - 1 /\ UNCHANGED jobs
    BY <1>3 DEF WorkerDone
  <2>2. w \in Running /\ Running' = Running \ {w}
    BY <1>3 DEF WorkerDone, Running, TypeOK
  <2>3. IsFiniteSet(Running) /\ Cardinality(Running) # 0
    BY <2>2, WorkersAssumption, FS_Subset, FS_EmptySet DEF Running
  <2>4. wg' = Cardinality(Running')
    BY <2>1, <2>2, <2>3, FS_RemoveElement DEF DrainInv
  <2>5. \A v \in Workers : wpc'[v] \in {"done", "exited"} =>
           wpc[v] \in {"done", "exited"}
    BY <1>3 DEF WorkerDone, TypeOK
  <2>6. wg # 0
    BY <2>3 DEF DrainInv
  <2>7. \A r \in Stoppers : spc'[r] # "nil"
    BY <1>1, <2>6 DEF DrainInv
  <2>8. \A v \in Workers :
           wpc'[v] \in {"done", "exited"} => chanClosed' /\ jobs' = <<>>
    BY <1>1, <2>1, <2>5 DEF DrainInv
  <2> QED
    BY <2>4, <2>7, <2>8 DEF DrainInv
<1> QED
  BY <1>2, <1>3 DEF WorkerStep

-----------------------------------------------------------------------------
(* The invariant.                                                            *)

LEMMA IndInit == Init => IndInv
<1> SUFFICES ASSUME Init PROVE IndInv
  OBVIOUS
<1>1. TypeOK
  BY TypeInit
<1>2. LockInv /\ CloseInv /\ NoPanic
  BY NoneAssumption
  DEF Init, LockInv, CloseInv, NoPanic, Reading, Writing
<1>3. JobInv
  <2>1. \A p \in Producers : ~Queued(p) /\ ~Held(p)
    BY NoneAssumption, EmptySeq DEF Init, Queued, Held
  <2> QED
    BY <2>1, EmptySeq DEF Init, JobInv
<1>4. DrainInv
  <2>1. Running = Workers
    BY DEF Init, Running
  <2> QED
    BY <2>1 DEF Init, DrainInv
<1> QED
  BY <1>1, <1>2, <1>3, <1>4 DEF IndInv

LEMMA IndStep == ASSUME IndInv, [Next]_vars PROVE IndInv'
<1> USE DEF IndInv
<1>1. ASSUME NEW p \in Producers, CallEnqueue(p) \/ EnqueueStep(p)
      PROVE  IndInv'
  BY <1>1, EnqueueTypes, LockEnqueue, CloseEnqueue, JobEnqueue, DrainEnqueue
<1>2. ASSUME NEW s \in Stoppers, CallShutdown(s) \/ ShutdownStep(s)
      PROVE  IndInv'
  BY <1>2, ShutdownTypes, LockShutdown, CloseShutdown, JobShutdown,
     DrainShutdown
<1>3. ASSUME NEW w \in Workers, WorkerStep(w) PROVE IndInv'
  BY <1>3, WorkerTypes, WorkersKeepLock, JobWorker, DrainWorker
<1>4. CASE UNCHANGED vars
  BY <1>4 DEF vars, TypeOK, LockInv, CloseInv, JobInv, DrainInv, NoPanic,
     Reading, Writing, Queued, Held, Running
<1> QED
  BY <1>1, <1>2, <1>3, <1>4 DEF Next, Rest

LEMMA IndAlways == Spec => []IndInv
<1>1. IndInv /\ [Next]_vars => IndInv'
  BY IndStep
<1> QED
  BY <1>1, IndInit, PTL DEF Spec

(* Every variable stays in its set; the wait group's counter never goes below*)
(* zero, and the channel never holds more than it has room for.              *)
THEOREM TypeCorrect == Spec => []TypeOK
<1>1. IndInv => TypeOK
  BY DEF IndInv
<1> QED
  BY <1>1, IndAlways, PTL

(* However many calls overlap, nobody sends on the closed channel or closes  *)
(* it a second time (indexer.go Enqueue, Shutdown).                          *)
THEOREM NeverPanics == Spec => []NoPanic
<1>1. IndInv => NoPanic
  BY DEF IndInv
<1> QED
  BY <1>1, IndAlways, PTL

(* A shutdown that returns nil has outlived every job ever accepted.         *)
THEOREM NilIsTrue == Spec => []NilMeansHandled
<1>1. ASSUME IndInv PROVE NilMeansHandled
  <2> SUFFICES ASSUME NEW s \in Stoppers, spc[s] = "nil"
               PROVE  /\ \A p \in Producers : answer[p] = "accepted" => p \in handled
                      /\ \A w \in Workers : wpc[w] = "exited"
    BY DEF NilMeansHandled
  <2>1. Cardinality(Running) = 0
    BY <1>1 DEF IndInv, DrainInv
  <2>2. Running = {}
    BY <2>1, WorkersAssumption, FS_Subset, FS_EmptySet DEF Running
  <2>3. \A w \in Workers : wpc[w] = "exited"
    BY <2>2 DEF Running
  <2>4. jobs = <<>>
    BY <1>1, <2>3, WorkersAssumption DEF IndInv, DrainInv
  <2>5. \A p \in Producers : ~Queued(p)
    BY <2>4, EmptySeq DEF Queued
  <2>6. \A p \in Producers : ~Held(p)
    BY <1>1, <2>3, NoneAssumption DEF IndInv, JobInv, Held
  <2> QED
    BY <1>1, <2>3, <2>5, <2>6 DEF IndInv, JobInv
<1> QED
  BY <1>1, IndAlways, PTL

-----------------------------------------------------------------------------
(* The refinement of JobPool.                                                *)

fates == [p \in Producers |-> Fate(p)]
Drained == \E s \in Stoppers : spc[s] = "nil"

(* What became of a job is told by the place it is in.                       *)
FateTable ==
    \A p \in Producers :
        /\ answer[p] = "none" => Fate(p) = "new"
        /\ answer[p] = "refused" => Fate(p) = "refused"
        /\ Queued(p) => Fate(p) = "queued"
        /\ Held(p) => Fate(p) = "running"
        /\ p \in handled => Fate(p) = "handled"

LEMMA FatesTold == IndInv => FateTable
<1> SUFFICES ASSUME IndInv, NEW p \in Producers
             PROVE  /\ answer[p] = "none" => Fate(p) = "new"
                    /\ answer[p] = "refused" => Fate(p) = "refused"
                    /\ Queued(p) => Fate(p) = "queued"
                    /\ Held(p) => Fate(p) = "running"
                    /\ p \in handled => Fate(p) = "handled"
  BY DEF FateTable
<1>1. /\ answer[p] = "accepted" <=> Queued(p) \/ Held(p) \/ p \in handled
      /\ Queued(p) => ~Held(p) /\ p \notin handled
      /\ Held(p) => p \notin handled
  BY DEF IndInv, JobInv
<1> QED
  BY <1>1 DEF Fate, Held

(* One job moves on and the others stay.                                     *)
LEMMA FateMoves ==
    ASSUME NEW p \in Producers, NEW from, NEW to, Fate(p) = from, Fate(p)' = to,
           \A q \in Producers : q # p => Fate(q)' = Fate(q)
    PROVE  Pool!Move(p, from, to)
  BY DEF Pool!Move

LEMMA PoolStutters ==
    ASSUME UNCHANGED <<jobs, closed, answer, handled, hand>>, Drained' = Drained
    PROVE  UNCHANGED <<fates, jobs, closed, Drained>>
  BY DEF fates, Fate

LEMMA PoolEnqueue ==
    ASSUME IndInv, IndInv', FateTable, FateTable', NEW p \in Producers,
           CallEnqueue(p) \/ EnqueueStep(p)
    PROVE  Pool!Next \/ UNCHANGED <<fates, jobs, closed, Drained>>
<1> USE DEF lock, chan, pool
<1>1. UNCHANGED <<closed, hand, handled, spc>> /\ Drained' = Drained
  BY DEF CallEnqueue, EnqueueStep, RLock, CheckClosed, TrySend, RUnlock, Drained
<1>2. CASE UNCHANGED <<jobs, answer>>
  BY <1>1, <1>2, PoolStutters
<1>3. ASSUME Answer(p, "refused"), ppc[p] \in {"check", "send"}, UNCHANGED jobs,
             closed \/ Len(jobs) = QueueSize
      PROVE  Pool!Next
  <2>1. answer[p] = "none" /\ answer'[p] = "refused"
        /\ \A q \in Producers : q # p => answer'[q] = answer[q]
    BY <1>3 DEF Answer, IndInv, JobInv, TypeOK
  <2>2. Fate(p) = "new" /\ Fate(p)' = "refused"
    BY <2>1 DEF FateTable
  <2>3. \A q \in Producers : q # p => Fate(q)' = Fate(q)
    BY <1>1, <2>1 DEF Fate
  <2>4. Pool!Move(p, "new", "refused")
    BY <2>2, <2>3, FateMoves
  <2>5. Pool!Refuse(p)
    BY <1>1, <1>3, <2>4 DEF Pool!Refuse, Drained
  <2> QED
    BY <2>5 DEF Pool!Next
<1>4. CASE CheckClosed(p)
  BY <1>2, <1>3, <1>4 DEF CheckClosed, PGo
<1>5. CASE TrySend(p)
  <2>1. CASE ~Room
    <3>1. Len(jobs) = QueueSize
      BY <2>1, QueueSizeAssumption, LenProperties DEF Room, IndInv, TypeOK
    <3> QED
      BY <1>3, <1>5, <2>1, <3>1 DEF TrySend, PGo
  <2>2. CASE Room
    <3>1. jobs' = Append(jobs, p) /\ Answer(p, "accepted") /\ ppc[p] = "send"
      BY <1>5, <2>2 DEF TrySend, PGo
    <3>2. answer[p] = "none" /\ \A q \in Producers : q # p => answer'[q] = answer[q]
      BY <3>1 DEF Answer, IndInv, JobInv, TypeOK
    <3>3. Queued(p)'
      BY <3>1, SendFacts DEF IndInv
    <3>4. Fate(p) = "new" /\ Fate(p)' = "queued"
      BY <3>2, <3>3 DEF FateTable
    <3>5. \A q \in Producers : q # p => Fate(q)' = Fate(q)
      BY <1>1, <3>2 DEF Fate
    <3>6. Pool!Move(p, "new", "queued")
      BY <3>4, <3>5, FateMoves
    <3>7. ~closed
      BY <3>1 DEF IndInv, CloseInv
    <3>8. Pool!Accept(p)
      BY <1>1, <2>2, <3>1, <3>6, <3>7 DEF Pool!Accept, Room, Drained
    <3> QED
      BY <3>8 DEF Pool!Next
  <2> QED
    BY <2>1, <2>2
<1> QED
  BY <1>2, <1>4, <1>5 DEF CallEnqueue, EnqueueStep, RLock, RUnlock

LEMMA PoolShutdown ==
    ASSUME IndInv, NilMeansHandled', FateTable, NEW s \in Stoppers,
           CallShutdown(s) \/ ShutdownStep(s)
    PROVE  Pool!Next \/ UNCHANGED <<fates, jobs, closed, Drained>>
<1> USE DEF lock, chan, pool, calls
<1>1. UNCHANGED <<jobs, answer, handled, hand>>
  BY DEF CallShutdown, ShutdownStep, Announce, Acquire, SetClosed, CloseChan,
     Unlock, WaitDone, WaitDeadline
<1>2. UNCHANGED fates
  BY <1>1 DEF fates, Fate
<1>3. CASE SetClosed(s)
  <2>1. Drained' = Drained
    BY <1>3 DEF SetClosed, SGo, Drained, IndInv, TypeOK
  <2>2. CASE closed
    BY <1>1, <1>3, <2>1, <2>2, PoolStutters DEF SetClosed
  <2>3. CASE ~closed
    <3>1. Pool!Stop
      BY <1>1, <1>2, <1>3, <2>1, <2>3 DEF SetClosed, Pool!Stop, fates, Drained
    <3> QED
      BY <3>1 DEF Pool!Next
  <2> QED
    BY <2>2, <2>3
<1>4. CASE WaitDone(s)
  <2>1. closed
    BY <1>4 DEF WaitDone, SGo, IndInv, CloseInv
  <2>2. spc'[s] = "nil"
    BY <1>4 DEF WaitDone, SGo, IndInv, TypeOK
  <2>3. \A p \in Producers : answer[p] = "accepted" => p \in handled
    BY <1>1, <2>2 DEF NilMeansHandled
  <2>4. \A p \in Producers : Fate(p) \notin {"queued", "running"}
    BY <2>3 DEF FateTable, IndInv, TypeOK
  <2>5. Pool!ReportDrained
    BY <1>2, <1>4, <2>1, <2>2, <2>4
    DEF WaitDone, Pool!ReportDrained, fates, Drained
  <2> QED
    BY <2>5 DEF Pool!Next
<1>5. CASE ~SetClosed(s) /\ ~WaitDone(s)
  <2>1. UNCHANGED closed /\ Drained' = Drained
    BY <1>5 DEF CallShutdown, ShutdownStep, Announce, Acquire, CloseChan, Unlock,
       WaitDeadline, SGo, Drained, IndInv, TypeOK
  <2> QED
    BY <1>1, <2>1, PoolStutters
<1> QED
  BY <1>3, <1>4, <1>5

LEMMA PoolWorker ==
    ASSUME IndInv, IndInv', FateTable, FateTable', NEW w \in Workers, WorkerStep(w)
    PROVE  Pool!Next \/ UNCHANGED <<fates, jobs, closed, Drained>>
<1> USE DEF lock, chan, calls, WGo
<1>1. UNCHANGED <<closed, answer, spc>> /\ Drained' = Drained
  BY DEF WorkerStep, Receive, Process, LoopEnds, WorkerDone, Drained
<1>2. CASE LoopEnds(w) \/ WorkerDone(w)
  <2>1. UNCHANGED <<jobs, handled, hand>>
    BY <1>2 DEF LoopEnds, WorkerDone
  <2> QED
    BY <1>1, <2>1, PoolStutters
<1>3. CASE Receive(w)
  <2>1. /\ jobs # <<>> /\ jobs' = Tail(jobs) /\ UNCHANGED handled
        /\ wpc[w] = "receive" /\ hand' = [hand EXCEPT ![w] = Head(jobs)]
    BY <1>3 DEF Receive
  <2>2. PICK h \in Producers : h = Head(jobs) /\ Queued(h)
    BY <2>1, ReceiveFacts DEF IndInv
  <2>3. hand'[w] = h /\ hand[w] = None
        /\ \A v \in Workers : v # w => hand'[v] = hand[v]
    BY <2>1, <2>2 DEF IndInv, TypeOK, JobInv
  <2>4. Held(h)'
    BY <2>3 DEF Held
  <2>5. Fate(h) = "queued" /\ Fate(h)' = "running"
    BY <2>2, <2>4 DEF FateTable
  <2>6. \A q \in Producers : q # h =>
           ((\E v \in Workers : hand'[v] = q) <=> \E v \in Workers : hand[v] = q)
    BY <2>3, NoneAssumption
  <2>7. \A q \in Producers : q # h => Fate(q)' = Fate(q)
    BY <1>1, <2>1, <2>6 DEF Fate
  <2>8. Pool!Move(h, "queued", "running")
    BY <2>2, <2>5, <2>7, FateMoves
  <2>9. Pool!Begin(h)
    BY <1>1, <2>1, <2>2, <2>8 DEF Pool!Begin, Drained
  <2> QED
    BY <2>2, <2>9 DEF Pool!Next
<1>4. CASE Process(w)
  <2>1. /\ UNCHANGED jobs /\ handled' = handled \cup {hand[w]}
        /\ wpc[w] = "process" /\ hand' = [hand EXCEPT ![w] = None]
    BY <1>4 DEF Process
  <2>2. PICK h \in Producers : h = hand[w] /\ Held(h)
    BY <2>1 DEF IndInv, TypeOK, JobInv, Held
  <2>3. hand'[w] = None /\ \A v \in Workers : v # w => hand'[v] = hand[v]
    BY <2>1 DEF IndInv, TypeOK
  <2>4. Fate(h) = "running" /\ Fate(h)' = "handled"
    BY <2>1, <2>2 DEF FateTable
  <2>5. \A q \in Producers : q # h =>
           ((\E v \in Workers : hand'[v] = q) <=> \E v \in Workers : hand[v] = q)
    BY <2>2, <2>3, NoneAssumption
  <2>6. \A q \in Producers : q # h => Fate(q)' = Fate(q)
    BY <1>1, <2>1, <2>2, <2>5 DEF Fate
  <2>7. Pool!Move(h, "running", "handled")
    BY <2>2, <2>4, <2>6, FateMoves
  <2>8. Pool!Finish(h)
    BY <1>1, <2>1, <2>7 DEF Pool!Finish, Drained
  <2> QED
    BY <2>2, <2>8 DEF Pool!Next
<1> QED
  BY <1>2, <1>3, <1>4 DEF WorkerStep

LEMMA PoolStep ==
    ASSUME IndInv, IndInv', NilMeansHandled', FateTable, FateTable', [Next]_vars
    PROVE  Pool!Next \/ UNCHANGED <<fates, jobs, closed, Drained>>
<1>1. CASE UNCHANGED vars
  BY <1>1 DEF vars, fates, Fate, Drained
<1> QED
  BY <1>1, PoolEnqueue, PoolShutdown, PoolWorker DEF Next, Rest

(* Behind its lock the pool is JobPool: an offer is accepted or refused in   *)
(* one step, refused only by a full or stopped pool, jobs begin in order and *)
(* end once, and a shutdown reports success when none is left.               *)
THEOREM RefinesJobPool == Spec => ImplementsJobPool
<1>1. ASSUME Init PROVE Pool!Init
  <2>1. \A p \in Producers : Fate(p) = "new"
    BY <1>1, IndInit, FatesTold DEF FateTable, Init
  <2>2. ~Drained
    BY <1>1 DEF Init, Drained
  <2> QED
    BY <1>1, <2>1, <2>2 DEF Init, Pool!Init, Drained
<1>2. IndInv /\ IndInv' /\ NilMeansHandled' /\ FateTable /\ FateTable' /\ [Next]_vars
      => [Pool!Next]_<<fates, jobs, closed, Drained>>
  BY PoolStep
<1> QED
  BY <1>1, <1>2, IndAlways, NilIsTrue, FatesTold, PTL
  DEF Spec, ImplementsJobPool, Pool!Spec, Pool!pool, fates, Drained

=============================================================================
