-------------------------- MODULE RateLimitProofs --------------------------
(* The rate limit holds for every rate, every burst and every delay at the   *)
(* lock, provided a client is forgotten only after its bucket has refilled.  *)
EXTENDS RateLimit, TLAPS

(* What the bucket is worth is a number, and a burst is at least a request.  *)
LEMMA CapacityFacts == Capacity \in Nat /\ Capacity >= Cost /\ Cost \in Nat \ {0}
<1>1. Burst \in Nat \ {0} /\ Cost \in Nat \ {0}
  BY BucketAssumption
<1>2. \A b, c \in Nat \ {0} : b * c \in Nat /\ b * c >= c
  BY SMT
<1> QED
  BY <1>1, <1>2 DEF Capacity

Numbers ==
    /\ clock \in Nat /\ known \in BOOLEAN
    /\ tokens \in Int /\ last \in Int /\ credit \in Int
    /\ stamp \in [Reqs -> Nat \cup {None}]
    /\ cutoff \in Int \cup {None}

IndInv == Numbers /\ CreditInv

LEMMA IndInit == Init => IndInv
<1> SUFFICES ASSUME Init PROVE IndInv
  OBVIOUS
<1>1. Ideal \in Nat
  BY CapacityFacts, TimeAssumption DEF Ideal
<1>2. known \in BOOLEAN /\ ~known
  BY DEF Init
<1>3. /\ clock = 0 /\ tokens = 0 /\ last = 0 /\ credit = Ideal /\ cutoff = None
      /\ stamp \in [Reqs -> Nat \cup {None}]
  BY DEF Init
<1>4. Numbers
  BY <1>1, <1>2, <1>3 DEF Numbers
<1>5. CreditInv
  BY <1>1, <1>2 DEF Init, CreditInv
<1> QED
  BY <1>4, <1>5 DEF IndInv

(* One step keeps the books.                                                 *)
LEMMA IndStep ==
    ASSUME Quiet >= Capacity + 2 * Skew, IndInv, [Next]_vars
    PROVE  IndInv'
<1> USE CapacityFacts, TimeAssumption, NoneAssumption
    DEF IndInv, Numbers, CreditInv, Ideal, Worth, Min2
<1>1. ASSUME NEW r \in Reqs, ReadClock(r) PROVE IndInv'
  BY <1>1 DEF ReadClock
<1>2. ASSUME NEW r \in Reqs, AllowNew(r) PROVE IndInv'
  BY <1>2 DEF AllowNew, Charge, Served
<1>3. ASSUME NEW r \in Reqs, Allow(r) PROVE IndInv'
  BY <1>3 DEF Allow, Charge, Served, Replenished
<1>4. ASSUME NEW r \in Reqs, Refuse(r) PROVE IndInv'
  BY <1>4 DEF Refuse, Served, Replenished
<1>5. CASE ComputeCutoff
  BY <1>5 DEF ComputeCutoff
<1>6. CASE Cleanup
  <2>1. /\ cutoff' = None /\ UNCHANGED <<clock, stamp, credit>>
        /\ cutoff \in Int /\ cutoff <= clock - Quiet
    BY <1>6 DEF Cleanup
  <2>2. CASE known /\ last < cutoff
    <3>1. tokens + (clock - last) > Ideal
      BY <2>1, <2>2
    <3>2. credit = Ideal
      BY <2>2, <3>1
    <3>3. tokens' = 0 /\ last' = 0
      BY <1>6, <2>2 DEF Cleanup, Forgettable
    <3>4. known' \in BOOLEAN /\ ~known'
      BY <1>6, <2>2 DEF Cleanup, Forgettable
    <3> QED
      BY <2>1, <3>2, <3>3, <3>4
  <2>3. CASE ~(known /\ last < cutoff)
    <3>1. UNCHANGED <<known, tokens, last>>
      BY <1>6, <2>3 DEF Cleanup, Forgettable
    <3> QED
      BY <2>1, <3>1
  <2> QED
    BY <2>2, <2>3
<1>7. CASE Tick
  BY <1>7 DEF Tick
<1>8. CASE UNCHANGED vars
  BY <1>8 DEF vars
<1> QED
  BY <1>1, <1>2, <1>3, <1>4, <1>5, <1>6, <1>7, <1>8 DEF Next

(* No client is served more than its bucket could ever have paid for.        *)
THEOREM RateIsBounded ==
    ASSUME Quiet >= Capacity + 2 * Skew
    PROVE  Spec => []RateBound
<1>1. IndInv /\ [Next]_vars => IndInv'
  BY IndStep
<1>2. IndInv => RateBound
  BY CapacityFacts, TimeAssumption
     DEF IndInv, Numbers, CreditInv, Worth, Min2, RateBound, Ideal
<1> QED
  BY <1>1, <1>2, IndInit, PTL DEF Spec

(* What the entry of a client is worth never exceeds what the client has     *)
(* left to spend, also when requests overtake each other on their way to the *)
(* lock and when the entry is forgotten (limiter.allow, cleanupLoop).        *)
THEOREM CreditCoversTokens ==
    ASSUME Quiet >= Capacity + 2 * Skew
    PROVE  Spec => []CreditInv
<1>1. IndInv /\ [Next]_vars => IndInv'
  BY IndStep
<1>2. IndInv => CreditInv
  BY DEF IndInv
<1> QED
  BY <1>1, <1>2, IndInit, PTL DEF Spec

-----------------------------------------------------------------------------
(* Type correctness, whatever Quiet is: the balance of a bucket goes below   *)
(* zero, but never by more than a request may have waited for the lock.      *)

BucketInv ==
    /\ TypeOK
    /\ known => tokens + (clock - last) >= 0
    /\ \A r \in Reqs : stamp[r] # None =>
          stamp[r] <= clock /\ clock <= stamp[r] + Skew

LEMMA BucketStep == ASSUME BucketInv, [Next]_vars PROVE BucketInv'
<1> USE CapacityFacts, TimeAssumption, NoneAssumption
    DEF BucketInv, TypeOK, Min2
<1>1. ASSUME NEW r \in Reqs, ReadClock(r) PROVE BucketInv'
  BY <1>1 DEF ReadClock
<1>2. ASSUME NEW r \in Reqs, AllowNew(r) PROVE BucketInv'
  BY <1>2 DEF AllowNew, Charge, Served
<1>3. ASSUME NEW r \in Reqs, Allow(r) PROVE BucketInv'
  BY <1>3 DEF Allow, Charge, Served, Replenished
<1>4. ASSUME NEW r \in Reqs, Refuse(r) PROVE BucketInv'
  BY <1>4 DEF Refuse, Served, Replenished
<1>5. CASE ComputeCutoff
  BY <1>5 DEF ComputeCutoff
<1>6. CASE Cleanup
  <2>1. cutoff' = None /\ UNCHANGED <<clock, stamp, credit>>
    BY <1>6 DEF Cleanup
  <2>2. CASE known /\ Forgettable
    <3>1. tokens' = 0 /\ last' = 0
      BY <1>6, <2>2 DEF Cleanup
    <3>2. known' \in BOOLEAN /\ ~known'
      BY <1>6, <2>2 DEF Cleanup
    <3> QED
      BY <2>1, <3>1, <3>2
  <2>3. CASE ~(known /\ Forgettable)
    <3>1. UNCHANGED <<known, tokens, last>>
      BY <1>6, <2>3 DEF Cleanup
    <3> QED
      BY <2>1, <3>1
  <2> QED
    BY <2>2, <2>3
<1>7. CASE Tick
  BY <1>7 DEF Tick, Ideal
<1>8. CASE UNCHANGED vars
  BY <1>8 DEF vars
<1> QED
  BY <1>1, <1>2, <1>3, <1>4, <1>5, <1>6, <1>7, <1>8 DEF Next

(* Every variable stays in its set.                                          *)
THEOREM TypeCorrect == Spec => []TypeOK
<1>1. Init => BucketInv
  <2> SUFFICES ASSUME Init PROVE BucketInv
    OBVIOUS
  <2>1. known \in BOOLEAN /\ ~known
    BY DEF Init
  <2>2. /\ clock = 0 /\ tokens = 0 /\ last = 0 /\ credit = Ideal
        /\ cutoff = None /\ stamp = [r \in Reqs |-> None]
    BY DEF Init
  <2>3. TypeOK
    BY <2>1, <2>2, CapacityFacts, TimeAssumption DEF TypeOK, Ideal
  <2> QED
    BY <2>1, <2>2, <2>3 DEF BucketInv
<1>2. BucketInv /\ [Next]_vars => BucketInv'
  BY BucketStep
<1>3. BucketInv => TypeOK
  BY DEF BucketInv
<1> QED
  BY <1>1, <1>2, <1>3, PTL DEF Spec

=============================================================================
