------------------------------ MODULE Indexer ------------------------------
(***************************************************************************)
(* The worker pool of godocs at the grain of its lock: concurrent Enqueue  *)
(* and Shutdown calls, the RWMutex between them, the buffered channel, the *)
(* closed flag, the wait group, and the worker goroutines.  The initial    *)
(* state is the one Start leaves: every worker is counted and receiving.   *)
(*                                                                         *)
(* Each producer makes one Enqueue call and its job carries its name; each *)
(* stopper makes one Shutdown call.  What a worker does with a job is one  *)
(* step here; module DocumentService tells what it does to the document.   *)
(***************************************************************************)
EXTENDS Naturals, Sequences, FiniteSets

CONSTANTS
    Producers,  \* goroutines that call Enqueue, one job each
    Stoppers,   \* goroutines that call Shutdown
    Workers,    \* goroutines started by Start
    QueueSize,  \* capacity of the channel
    None        \* no goroutine, no job

ASSUME QueueSizeAssumption == QueueSize \in Nat \ {0}
\* config.Load refuses less than one worker.
ASSUME WorkersAssumption == IsFiniteSet(Workers) /\ Workers # {}
ASSUME NoneAssumption == None \notin Producers \cup Stoppers

VARIABLES
    readers,    \* goroutines holding the read lock
    writer,     \* the goroutine that announced or holds the write lock
    closed,     \* Indexer.closed
    chanClosed, \* close(jobs) was executed
    jobs,       \* what the channel buffers
    wg,         \* the wait group's counter
    ppc,        \* where each Enqueue call is
    answer,     \* what each Enqueue call returns
    spc,        \* where each Shutdown call is
    wpc,        \* where each worker is
    hand,       \* the job each worker has
    handled,    \* history: jobs a worker has finished
    panicked    \* the runtime aborted the process

lock == <<readers, writer>>
chan == <<jobs, chanClosed>>
calls == <<ppc, answer>>
pool == <<wpc, hand, handled, wg>>
vars == <<readers, writer, closed, chanClosed, jobs, wg, ppc, answer, spc,
          wpc, hand, handled, panicked>>

ProducerPcs == {"new", "rlock", "check", "send", "unlock", "returned"}
StopperPcs == {"new", "lock", "announced", "check", "close", "unlock", "wait",
               "nil", "deadline"}
WorkerPcs == {"receive", "process", "done", "exited"}

Init ==
    /\ readers = {} /\ writer = None
    /\ closed = FALSE /\ chanClosed = FALSE /\ jobs = <<>>
    /\ wg = Cardinality(Workers)
    /\ ppc = [p \in Producers |-> "new"]
    /\ answer = [p \in Producers |-> "none"]
    /\ spc = [s \in Stoppers |-> "new"]
    /\ wpc = [w \in Workers |-> "receive"]
    /\ hand = [w \in Workers |-> None]
    /\ handled = {}
    /\ panicked = FALSE

-----------------------------------------------------------------------------
(* Enqueue.                                                                  *)

PGo(p, from, to) == ppc[p] = from /\ ppc' = [ppc EXCEPT ![p] = to]
Answer(p, a) == answer' = [answer EXCEPT ![p] = a]

CallEnqueue(p) ==
    /\ PGo(p, "new", "rlock")
    /\ UNCHANGED <<lock, closed, chan, pool, answer, spc, panicked>>

\* Mutant of MayRead: a writer holds nobody up.
ReadsAnyway == TRUE

\* RLock waits while a writer holds the lock or waits for it.
MayRead == writer = None
RLock(p) ==
    /\ MayRead
    /\ PGo(p, "rlock", "check")
    /\ readers' = readers \cup {p}
    /\ UNCHANGED <<writer, closed, chan, pool, answer, spc, panicked>>

CheckClosed(p) ==
    /\ IF closed THEN PGo(p, "check", "unlock") /\ Answer(p, "refused")
                 ELSE PGo(p, "check", "send") /\ UNCHANGED answer
    /\ UNCHANGED <<lock, closed, chan, pool, spc, panicked>>

\* Mutant of Room: off by one.
RoomForOneMore == Len(jobs) <= QueueSize

\* The select with a default: a send on a closed channel panics.
Room == Len(jobs) < QueueSize
TrySend(p) ==
    /\ PGo(p, "send", "unlock")
    /\ panicked' = (panicked \/ chanClosed)
    /\ IF Room THEN jobs' = Append(jobs, p) /\ Answer(p, "accepted")
               ELSE jobs' = jobs /\ Answer(p, "refused")
    /\ UNCHANGED <<lock, closed, chanClosed, pool, spc>>

\* Mutant of RUnlock: the read lock leaks.
RUnlockForgotten(p) ==
    /\ PGo(p, "unlock", "returned")
    /\ UNCHANGED <<lock, closed, chan, pool, answer, spc, panicked>>

RUnlock(p) ==
    /\ PGo(p, "unlock", "returned")
    /\ readers' = readers \ {p}
    /\ UNCHANGED <<writer, closed, chan, pool, answer, spc, panicked>>

EnqueueStep(p) == RLock(p) \/ CheckClosed(p) \/ TrySend(p) \/ RUnlock(p)

-----------------------------------------------------------------------------
(* Shutdown.                                                                 *)

SGo(s, from, to) == spc[s] = from /\ spc' = [spc EXCEPT ![s] = to]

CallShutdown(s) ==
    /\ SGo(s, "new", "lock")
    /\ UNCHANGED <<lock, closed, chan, pool, calls, panicked>>

\* Lock, first half: one writer at a time turns new readers away.
Announce(s) ==
    /\ writer = None
    /\ SGo(s, "lock", "announced")
    /\ writer' = s
    /\ UNCHANGED <<readers, closed, chan, pool, calls, panicked>>

\* Mutant of ReadersGone: the writer does not wait for readers.
IgnoresReaders == TRUE

\* Lock, second half: the readers that were in have left.
ReadersGone == readers = {}
Acquire(s) ==
    /\ ReadersGone
    /\ SGo(s, "announced", "check")
    /\ UNCHANGED <<lock, closed, chan, pool, calls, panicked>>

SetClosed(s) ==
    /\ IF closed THEN SGo(s, "check", "unlock") /\ UNCHANGED closed
                 ELSE SGo(s, "check", "close") /\ closed' = TRUE
    /\ UNCHANGED <<lock, chan, pool, calls, panicked>>

\* close(jobs): closing a closed channel panics.
CloseChan(s) ==
    /\ SGo(s, "close", "unlock")
    /\ panicked' = (panicked \/ chanClosed)
    /\ chanClosed' = TRUE
    /\ UNCHANGED <<lock, closed, jobs, pool, calls>>

Unlock(s) ==
    /\ SGo(s, "unlock", "wait")
    /\ writer' = None
    /\ UNCHANGED <<readers, closed, chan, pool, calls, panicked>>

WaitDone(s) ==
    /\ wg = 0
    /\ SGo(s, "wait", "nil")
    /\ UNCHANGED <<lock, closed, chan, pool, calls, panicked>>

\* The caller's context ends first; the workers go on.
WaitDeadline(s) ==
    /\ SGo(s, "wait", "deadline")
    /\ UNCHANGED <<lock, closed, chan, pool, calls, panicked>>

ShutdownStep(s) ==
    \/ Announce(s) \/ Acquire(s) \/ SetClosed(s) \/ CloseChan(s) \/ Unlock(s)
    \/ WaitDone(s) \/ WaitDeadline(s)

-----------------------------------------------------------------------------
(* The worker loop.                                                          *)

WGo(w, from, to) == wpc[w] = from /\ wpc' = [wpc EXCEPT ![w] = to]

Receive(w) ==
    /\ jobs # <<>>
    /\ WGo(w, "receive", "process")
    /\ hand' = [hand EXCEPT ![w] = Head(jobs)]
    /\ jobs' = Tail(jobs)
    /\ UNCHANGED <<lock, closed, chanClosed, wg, handled, calls, spc, panicked>>

Process(w) ==
    /\ WGo(w, "process", "receive")
    /\ handled' = handled \cup {hand[w]}
    /\ hand' = [hand EXCEPT ![w] = None]
    /\ UNCHANGED <<lock, closed, chan, wg, calls, spc, panicked>>

\* Mutant of LoopEnds: the worker leaves at the close, jobs or not.
LeavesAtClose(w) ==
    /\ chanClosed
    /\ WGo(w, "receive", "done")
    /\ UNCHANGED <<lock, closed, chan, wg, hand, handled, calls, spc, panicked>>

\* The range loop ends on a channel that is closed and empty.
LoopEnds(w) ==
    /\ chanClosed /\ jobs = <<>>
    /\ WGo(w, "receive", "done")
    /\ UNCHANGED <<lock, closed, chan, wg, hand, handled, calls, spc, panicked>>

\* The deferred wg.Done.
WorkerDone(w) ==
    /\ WGo(w, "done", "exited")
    /\ wg' = wg - 1
    /\ UNCHANGED <<lock, closed, chan, hand, handled, calls, spc, panicked>>

WorkerStep(w) == Receive(w) \/ Process(w) \/ LoopEnds(w) \/ WorkerDone(w)

-----------------------------------------------------------------------------

\* Nothing is left to do: calls have returned, workers have exited or wait
\* for a job.
Rest ==
    /\ \A p \in Producers : ppc[p] \in {"new", "returned"}
    /\ \A s \in Stoppers : spc[s] \in {"new", "nil", "deadline"}
    /\ \A w \in Workers : \/ wpc[w] = "exited"
                          \/ wpc[w] = "receive" /\ jobs = <<>> /\ ~chanClosed
    /\ UNCHANGED vars

Next ==
    /\ ~panicked
    /\ \/ \E p \in Producers : CallEnqueue(p) \/ EnqueueStep(p)
       \/ \E s \in Stoppers : CallShutdown(s) \/ ShutdownStep(s)
       \/ \E w \in Workers : WorkerStep(w)
       \/ Rest

Spec == Init /\ [][Next]_vars

\* A call under way is scheduled, a worker too, and the deadline of a shutdown
\* comes; nobody has to call.
Fairness ==
    /\ \A p \in Producers : WF_vars(~panicked /\ EnqueueStep(p))
    /\ \A s \in Stoppers : WF_vars(~panicked /\ ShutdownStep(s))
    /\ \A w \in Workers : WF_vars(~panicked /\ WorkerStep(w))

FairSpec == Spec /\ Fairness

-----------------------------------------------------------------------------
(* Properties.                                                               *)

\* Every variable stays in its set.
TypeOK ==
    /\ readers \subseteq Producers /\ writer \in Stoppers \cup {None}
    /\ closed \in BOOLEAN /\ chanClosed \in BOOLEAN
    /\ jobs \in Seq(Producers) /\ Len(jobs) <= QueueSize
    /\ wg \in 0 .. Cardinality(Workers)
    /\ ppc \in [Producers -> ProducerPcs]
    /\ answer \in [Producers -> {"none", "accepted", "refused"}]
    /\ spc \in [Stoppers -> StopperPcs]
    /\ wpc \in [Workers -> WorkerPcs]
    /\ hand \in [Workers -> Producers \cup {None}]
    /\ handled \subseteq Producers
    /\ panicked \in BOOLEAN

\* The reason for the lock: however many Enqueue and Shutdown calls overlap,
\* nobody sends on the closed channel or closes it again.
NoPanic == ~panicked

\* A shutdown that returns nil has outlived every job ever accepted, also the
\* one whose Enqueue overlapped the call.
NilMeansHandled ==
    \A s \in Stoppers : spc[s] = "nil" =>
        /\ \A p \in Producers : answer[p] = "accepted" => p \in handled
        /\ \A w \in Workers : wpc[w] = "exited"

\* Every call ends: Enqueue never blocks for good, whoever holds the lock
\* (backpressure is an answer, not a wait), and Shutdown ends even when
\* producers keep the lock busy and workers hang on.
CallsReturn ==
    /\ \A p \in Producers : ppc[p] = "rlock" ~> ppc[p] = "returned"
    /\ \A s \in Stoppers : spc[s] = "lock" ~> spc[s] \in {"nil", "deadline"}

\* An accepted job is handled, whether or not a shutdown comes meanwhile.
AcceptedIsHandled ==
    \A p \in Producers : answer[p] = "accepted" ~> p \in handled

\* The refinement mapping onto JobPool.
Fate(p) ==
    CASE answer[p] = "none" -> "new"
      [] answer[p] = "refused" -> "refused"
      [] p \in handled -> "handled"
      [] \E w \in Workers : hand[w] = p -> "running"
      [] OTHER -> "queued"

Pool == INSTANCE JobPool WITH
    Jobs <- Producers, Capacity <- QueueSize,
    fate <- [p \in Producers |-> Fate(p)], queue <- jobs, stopped <- closed,
    drained <- \E s \in Stoppers : spc[s] = "nil"

\* Behind the lock the pool is as simple as JobPool says.
ImplementsJobPool == Pool!Spec

=============================================================================
