----------------------------- MODULE RateLimit -----------------------------
(***************************************************************************)
(* The token bucket of godocs for one client address: the requests that    *)
(* race for its lock, each with a time it read before it got there, and    *)
(* the loop that forgets addresses that have been quiet.                   *)
(*                                                                         *)
(* Credit is counted in ticks: a tick earns one unit, a request costs Cost *)
(* units (so the rate is one request every Cost ticks) and the bucket      *)
(* holds Burst requests' worth.                                            *)
(***************************************************************************)
EXTENDS Integers

CONSTANTS
    Reqs,       \* requests of the client under way at the same time
    Cost,       \* ticks that earn one request: 1 / rps
    Burst,      \* size of the bucket, in requests
    Quiet,      \* ticks after which a silent client is forgotten
    Skew,       \* bound: how long a request may wait for the lock
    MaxClock,   \* where the clock stops (bound)
    None        \* no time read yet

ASSUME BucketAssumption == Cost \in Nat \ {0} /\ Burst \in Nat \ {0}
ASSUME TimeAssumption == Quiet \in Nat /\ Skew \in Nat /\ MaxClock \in Nat
ASSUME NoneAssumption == None \notin Int

Capacity == Burst * Cost

VARIABLES
    clock,      \* time.Now
    known,      \* the client has an entry in visitors
    tokens,     \* its bucket.tokens
    last,       \* its bucket.last
    stamp,      \* the time each request has read
    cutoff,     \* the cutoff the cleanup has computed
    credit      \* what a bucket that never forgets would hold (see Ideal)

vars == <<clock, known, tokens, last, stamp, cutoff, credit>>

\* The yardstick: a bucket with the same rate, one that also grants what can be
\* earned while a request waits for the lock, and never forgets.
Ideal == Capacity + Skew

Init ==
    /\ clock = 0
    /\ known = FALSE /\ tokens = 0 /\ last = 0
    /\ stamp = [r \in Reqs |-> None]
    /\ cutoff = None
    /\ credit = Ideal

-----------------------------------------------------------------------------

Min2(a, b) == IF a <= b THEN a ELSE b

\* now := time.Now(), before the lock is asked for.
ReadClock(r) ==
    /\ stamp[r] = None
    /\ stamp' = [stamp EXCEPT ![r] = clock]
    /\ UNCHANGED <<clock, known, tokens, last, cutoff, credit>>

\* Mutant of Replenished: no cap at burst.
Uncapped(now) == tokens + (now - last)

\* What the bucket holds at the time the request has read.
Replenished(now) == Min2(tokens + (now - last), Capacity)

Served(r) == stamp' = [stamp EXCEPT ![r] = None]
Charge == credit' = credit - Cost

\* A new address: a full bucket, minus this request.
AllowNew(r) ==
    /\ stamp[r] # None /\ ~known
    /\ known' = TRUE /\ tokens' = Capacity - Cost /\ last' = stamp[r]
    /\ Charge /\ Served(r)
    /\ UNCHANGED <<clock, cutoff>>

Allow(r) ==
    /\ stamp[r] # None /\ known
    /\ Replenished(stamp[r]) >= Cost
    /\ tokens' = Replenished(stamp[r]) - Cost /\ last' = stamp[r]
    /\ Charge /\ Served(r)
    /\ UNCHANGED <<clock, known, cutoff>>

\* 429: the bucket is brought up to date all the same.
Refuse(r) ==
    /\ stamp[r] # None /\ known
    /\ Replenished(stamp[r]) < Cost
    /\ tokens' = Replenished(stamp[r]) /\ last' = stamp[r]
    /\ Served(r)
    /\ UNCHANGED <<clock, known, cutoff, credit>>

\* The cleanup loop computes its cutoff, then takes the lock.
ComputeCutoff ==
    /\ cutoff = None
    /\ cutoff' = clock - Quiet
    /\ UNCHANGED <<clock, known, tokens, last, stamp, credit>>

\* Mutant of Forgettable: the comparison is the wrong way round.
ForgetsActive == last > cutoff

Forgettable == last < cutoff
Cleanup ==
    /\ cutoff # None
    /\ IF known /\ Forgettable
       THEN known' = FALSE /\ tokens' = 0 /\ last' = 0
       ELSE UNCHANGED <<known, tokens, last>>
    /\ cutoff' = None
    /\ UNCHANGED <<clock, stamp, credit>>

\* Time passes; no request waits for the lock longer than Skew.
Tick ==
    /\ clock < MaxClock
    /\ \A r \in Reqs : stamp[r] # None => clock < stamp[r] + Skew
    /\ clock' = clock + 1
    /\ credit' = Min2(credit + 1, Ideal)
    /\ UNCHANGED <<known, tokens, last, stamp, cutoff>>

Next ==
    \/ \E r \in Reqs : ReadClock(r) \/ AllowNew(r) \/ Allow(r) \/ Refuse(r)
    \/ ComputeCutoff \/ Cleanup \/ Tick

Spec == Init /\ [][Next]_vars

-----------------------------------------------------------------------------
(* Properties.                                                               *)

\* Every variable stays in its set.  The balance can fall below zero: a request
\* with an older time than the bucket's takes back what was earned since.
TypeOK ==
    /\ clock \in 0 .. MaxClock /\ known \in BOOLEAN
    /\ tokens \in -Skew .. Capacity /\ last \in 0 .. MaxClock
    /\ stamp \in [Reqs -> 0 .. MaxClock \cup {None}]
    /\ cutoff \in -Quiet .. MaxClock \cup {None}
    /\ credit \in Int

\* The limit: in no stretch of time does a client get more than the burst, the
\* rate over that time and what a wait for the lock is worth, however requests
\* overtake each other and whenever its entry is forgotten.  Charging every
\* admission to a bucket that never forgets must not overdraw it.
RateBound == credit >= 0

\* Why RateBound holds: what the entry will be worth now is covered by credit,
\* and an entry is forgotten when the bucket would be full again.
Worth == Min2(tokens + (clock - last), Ideal)
CreditInv ==
    /\ credit <= Ideal
    /\ ~known => credit = Ideal
    /\ known => /\ Worth <= credit /\ tokens + (clock - last) >= 0
                /\ tokens >= -Skew
    /\ \A r \in Reqs : stamp[r] # None =>
          stamp[r] <= clock /\ clock <= stamp[r] + Skew
    /\ cutoff # None => cutoff <= clock - Quiet

=============================================================================
