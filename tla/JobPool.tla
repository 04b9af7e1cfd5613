------------------------------ MODULE JobPool ------------------------------
(***************************************************************************)
(* What the indexer promises its callers: each offered job is accepted or  *)
(* refused at once; an accepted job is taken in order and handled once; no *)
(* job is refused while there is room and none accepted after the stop;    *)
(* a shutdown that reports success leaves nothing behind.                  *)
(***************************************************************************)
EXTENDS Sequences, Naturals

CONSTANTS Jobs, Capacity

VARIABLES fate,     \* what became of each job
          queue,    \* accepted, not yet taken, oldest first
          stopped,  \* no job is accepted any more
          drained   \* a shutdown has reported success

pool == <<fate, queue, stopped, drained>>

Init ==
    /\ fate = [j \in Jobs |-> "new"]
    /\ queue = <<>>
    /\ stopped = FALSE /\ drained = FALSE

Move(j, from, to) == fate[j] = from /\ fate' = [fate EXCEPT ![j] = to]

Accept(j) ==
    /\ ~stopped /\ Len(queue) < Capacity
    /\ Move(j, "new", "queued")
    /\ queue' = Append(queue, j)
    /\ UNCHANGED <<stopped, drained>>

Refuse(j) ==
    /\ stopped \/ Len(queue) = Capacity
    /\ Move(j, "new", "refused")
    /\ UNCHANGED <<queue, stopped, drained>>

Begin(j) ==
    /\ queue # <<>> /\ j = Head(queue)
    /\ Move(j, "queued", "running")
    /\ queue' = Tail(queue)
    /\ UNCHANGED <<stopped, drained>>

Finish(j) ==
    /\ Move(j, "running", "handled")
    /\ UNCHANGED <<queue, stopped, drained>>

Stop ==
    /\ ~stopped /\ stopped' = TRUE
    /\ UNCHANGED <<fate, queue, drained>>

ReportDrained ==
    /\ stopped
    /\ \A j \in Jobs : fate[j] \notin {"queued", "running"}
    /\ drained' = TRUE
    /\ UNCHANGED <<fate, queue, stopped>>

Next ==
    \/ \E j \in Jobs : Accept(j) \/ Refuse(j) \/ Begin(j) \/ Finish(j)
    \/ Stop \/ ReportDrained

Spec == Init /\ [][Next]_pool

=============================================================================
