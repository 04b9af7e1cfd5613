----------------------------- MODULE TTLCache ------------------------------
(***************************************************************************)
(* The read cache of godocs under a clock, and the two ways it is used:    *)
(* Service.Get fills it with the row it has read, and whoever writes the   *)
(* row drops the entry afterwards.  DocumentService lets an entry vanish at *)
(* any moment; here it does so when its time is up, and the question is    *)
(* how old an answer can be.                                               *)
(*                                                                         *)
(* One key is followed: entries do not interact, and the janitor treats    *)
(* all of them in one scan under the lock.  The row is a version number.   *)
(***************************************************************************)
EXTENDS Integers

CONSTANTS
    Readers,    \* Service.Get calls under way
    Writers,    \* PATCH, DELETE or MarkStatus calls under way
    TTL,        \* Config.CacheTTL, in ticks
    Pause,      \* bound: how long a Get may stand between two of its steps
    MaxVersion, \* writes to the row (bound)
    MaxClock,   \* where the clock stops (bound)
    None        \* no time

ASSUME TTLAssumption == TTL \in Nat
ASSUME PauseAssumption == Pause \in Nat
ASSUME BoundsAssumption == MaxVersion \in Nat /\ MaxClock \in Nat
ASSUME NoneAssumption == None \notin Int

VARIABLES
    clock,      \* time.Now
    row,        \* the version in the database
    ended,      \* history: when each earlier version was overwritten
    entry,      \* the map's entry: a version and its expiresAt
    reader,     \* the Get calls
    owing,      \* the writers that have not invalidated yet
    scan,       \* the time the janitor has read, before it has the lock
    answer      \* the last answer of Get: a version and when it was given

vars == <<clock, row, ended, entry, reader, owing, scan, answer>>

Versions == 0 .. MaxVersion
Times == 0 .. MaxClock
Entry(v, t) == [val |-> v, expiresAt |-> t]
NoEntry == Entry(0, None)
Entries == [val : Versions, expiresAt : TTL .. MaxClock + TTL]

\* A call: where it is, what it carries, and since when.
Call(pc, e, t) == [pc |-> pc, entry |-> e, since |-> t]
IdleCall == Call("idle", NoEntry, 0)

Init ==
    /\ clock = 0
    /\ row = 0 /\ ended = [v \in Versions |-> None]
    /\ entry = NoEntry
    /\ reader = [r \in Readers |-> IdleCall]
    /\ owing = {} /\ scan = None
    /\ answer = [val |-> 0, at |-> 0]

-----------------------------------------------------------------------------
(* TTL.Get, and Service.Get around it.                                       *)

\* now.After(expiresAt): an entry is good up to and including that instant.
After(now, e) == now > e.expiresAt

Step(r, c) == reader' = [reader EXCEPT ![r] = c]
Answer(v) == answer' = [val |-> v, at |-> clock]

\* The entry is copied under the read lock.
Lookup(r) ==
    /\ reader[r].pc = "idle"
    /\ Step(r, Call("look", entry, clock))
    /\ UNCHANGED <<clock, row, ended, entry, owing, scan, answer>>

\* Mutant of Valid: entries are served until the janitor comes.
AnyEntry(e) == e # NoEntry

\* The time is looked at after the unlock.
Valid(e) == e # NoEntry /\ ~After(clock, e)

Hit(r) ==
    /\ reader[r].pc = "look" /\ Valid(reader[r].entry)
    /\ Answer(reader[r].entry.val) /\ Step(r, IdleCall)
    /\ UNCHANGED <<clock, row, ended, entry, owing, scan>>

\* A miss: the row is read from the database.
Load(r) ==
    /\ reader[r].pc = "look" /\ ~Valid(reader[r].entry)
    /\ Step(r, Call("fill", Entry(row, None), clock))
    /\ UNCHANGED <<clock, row, ended, entry, owing, scan, answer>>

\* TTL.Set, and the answer: the time to live starts here.
Set(r) ==
    /\ reader[r].pc = "fill"
    /\ entry' = Entry(reader[r].entry.val, clock + TTL)
    /\ Answer(reader[r].entry.val) /\ Step(r, IdleCall)
    /\ UNCHANGED <<clock, row, ended, owing, scan>>

Get(r) == Lookup(r) \/ Hit(r) \/ Load(r) \/ Set(r)

-----------------------------------------------------------------------------
(* A writer: the statement, then TTL.Delete.                                 *)

Write(w) ==
    /\ w \notin owing /\ row < MaxVersion
    /\ row' = row + 1 /\ ended' = [ended EXCEPT ![row] = clock]
    /\ owing' = owing \cup {w}
    /\ UNCHANGED <<clock, entry, reader, scan, answer>>

Delete(w) ==
    /\ w \in owing
    /\ entry' = NoEntry /\ owing' = owing \ {w}
    /\ UNCHANGED <<clock, row, ended, reader, scan, answer>>

-----------------------------------------------------------------------------
(* TTL.StartJanitor.                                                         *)

\* now := time.Now(), before the lock is asked for.
JanitorTick ==
    /\ scan = None
    /\ scan' = clock
    /\ UNCHANGED <<clock, row, ended, entry, reader, owing, answer>>

\* Mutants of Sweepable: a fresh entry is taken for an expired one; nothing is.
SweepsFresh(e) == e # NoEntry /\ e.expiresAt > scan
SweepsNothing(e) == FALSE

Sweepable(e) == e # NoEntry /\ After(scan, e)

JanitorSweep ==
    /\ scan # None
    /\ entry' = IF Sweepable(entry) THEN NoEntry ELSE entry
    /\ scan' = None
    /\ UNCHANGED <<clock, row, ended, reader, owing, answer>>

\* Time passes; a Get does not stand between two steps longer than Pause.
Tick ==
    /\ clock < MaxClock
    /\ \A r \in Readers :
          reader[r].pc # "idle" => clock < reader[r].since + Pause
    /\ clock' = clock + 1
    /\ UNCHANGED <<row, ended, entry, reader, owing, scan, answer>>

Next ==
    \/ \E r \in Readers : Get(r)
    \/ \E w \in Writers : Write(w) \/ Delete(w)
    \/ JanitorTick \/ JanitorSweep \/ Tick

Spec == Init /\ [][Next]_vars

\* The janitor's goroutine is scheduled, its ticker fires and the lock is
\* handed on.  Nobody else owes a step.
FairSpec == Spec /\ WF_vars(JanitorTick) /\ WF_vars(JanitorSweep)

-----------------------------------------------------------------------------
(* Properties.                                                               *)

\* Every variable stays in its set.
TypeOK ==
    /\ clock \in Times /\ row \in Versions
    /\ ended \in [Versions -> Times \cup {None}]
    /\ entry \in Entries \cup {NoEntry}
    /\ reader \in [Readers ->
          [pc : {"look"}, entry : Entries \cup {NoEntry}, since : Times]
          \cup [pc : {"fill"}, entry : [val : Versions, expiresAt : {None}],
                since : Times]
          \cup {IdleCall}]
    /\ owing \subseteq Writers
    /\ scan \in Times \cup {None}
    /\ answer \in [val : Versions, at : Times]

\* However reads, writes, invalidations and the janitor interleave, and even
\* if a writer never gets to its invalidation, Get does not answer with a
\* version that was overwritten longer ago than the time to live and one
\* pause (ttl.go Get and Set, service.go Get).
StalenessBounded ==
    ended[answer.val] # None => answer.at <= ended[answer.val] + TTL + Pause

\* With every invalidation made, an old version is in the cache only if it was
\* put there after the write: by a Get that had read the row before.
OnlyLateFills ==
    owing = {} /\ entry # NoEntry /\ ended[entry.val] # None =>
        entry.expiresAt >= ended[entry.val] + TTL

\* The janitor takes nothing that Get would still serve, although it compares
\* with a time it read before it had the lock (ttl.go StartJanitor).
JanitorSparesLive == [][JanitorSweep => entry' = entry \/ ~Valid(entry)]_vars

\* An entry whose time is up leaves the map, even if nobody asks for it again.
Stale == entry # NoEntry /\ ~Valid(entry)
ExpiredIsFreed == Stale ~> ~Stale

\* The invariant behind StalenessBounded: what the cache or a call holds was
\* current long enough to be served until its time is up.
LastHeld(v) == IF ended[v] = None THEN clock ELSE ended[v]
InTime(v, t) == t <= LastHeld(v) + TTL + Pause
AgeInv ==
    /\ \A v \in Versions :
          IF v < row THEN ended[v] # None /\ ended[v] <= clock
                     ELSE ended[v] = None
    /\ scan # None => scan <= clock
    /\ entry # NoEntry => InTime(entry.val, entry.expiresAt)
    /\ InTime(answer.val, answer.at)
    /\ \A r \in Readers :
          LET c == reader[r] IN
          /\ c.pc # "idle" => clock <= c.since + Pause
          /\ c.pc = "look" /\ c.entry # NoEntry =>
                InTime(c.entry.val, c.entry.expiresAt)
          /\ c.pc = "fill" => c.since <= LastHeld(c.entry.val)

=============================================================================
