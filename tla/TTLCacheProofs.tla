--------------------------- MODULE TTLCacheProofs ---------------------------
(* Bounded staleness for every number of readers and writers, every time to  *)
(* live and every pause.  The type invariant says what is a time; AgeInv says *)
(* how long ago what is held was current.                                    *)
EXTENDS TTLCache, TLAPS

(* A type is easier to use by fields.                                        *)
Held(e) == e.val \in Versions /\ e.expiresAt \in TTL .. MaxClock + TTL

LEMMA EntryFacts ==
    /\ NoEntry \notin Entries
    /\ \A e \in Entries : Held(e)
    /\ \A v \in Versions, t \in TTL .. MaxClock + TTL : Entry(v, t) \in Entries
    /\ 0 \in Versions /\ 0 \in Times
<1> USE TTLAssumption, BoundsAssumption, NoneAssumption
<1>1. NoEntry \notin Entries
  BY DEF NoEntry, Entry, Entries
<1>2. \A e \in Entries : Held(e)
  BY DEF Entries, Held
<1>3. \A v \in Versions, t \in TTL .. MaxClock + TTL : Entry(v, t) \in Entries
  BY DEF Entry, Entries
<1> QED
  BY <1>1, <1>2, <1>3 DEF Versions, Times

(* What a call carries, told by where it is.                                 *)
Calls ==
    [pc : {"look"}, entry : Entries \cup {NoEntry}, since : Times]
    \cup [pc : {"fill"}, entry : [val : Versions, expiresAt : {None}],
          since : Times]
    \cup {IdleCall}

LEMMA CallFacts ==
    /\ IdleCall \in Calls /\ IdleCall.pc = "idle"
    /\ \A e \in Entries \cup {NoEntry}, t \in Times : Call("look", e, t) \in Calls
    /\ \A v \in Versions, t \in Times :
          Call("fill", Entry(v, None), t) \in Calls
    /\ \A c \in Calls :
          /\ c.pc = "look" => c.entry \in Entries \cup {NoEntry}
                              /\ c.since \in Times
          /\ c.pc = "fill" => c.entry.val \in Versions /\ c.since \in Times
          /\ c.pc \in {"idle", "look", "fill"}
  BY DEF Calls, Call, IdleCall, Entry

LEMMA TypeInit == Init => TypeOK
<1> SUFFICES ASSUME Init PROVE TypeOK
  OBVIOUS
<1>1. reader \in [Readers -> Calls]
  BY CallFacts DEF Init
<1>2. ended \in [Versions -> Times \cup {None}]
  BY DEF Init
<1>3. answer \in [val : Versions, at : Times]
  BY EntryFacts DEF Init
<1> QED
  BY <1>1, <1>2, <1>3, EntryFacts DEF Init, TypeOK, Calls

(* One step keeps the types.                                                 *)
LEMMA TypeStep == ASSUME TypeOK, [Next]_vars PROVE TypeOK'
<1> USE TTLAssumption, BoundsAssumption, NoneAssumption
<1>0. reader \in [Readers -> Calls]
  BY DEF TypeOK, Calls
<1>g. ASSUME NEW r \in Readers, NEW c \in Calls, Step(r, c)
      PROVE  reader' \in [Readers -> Calls]
  BY <1>0, <1>g DEF Step
<1>a. ASSUME NEW v \in Versions, Answer(v)
      PROVE  answer' \in [val : Versions, at : Times]
  BY <1>a DEF Answer, TypeOK
<1>1. ASSUME NEW r \in Readers, Lookup(r) PROVE TypeOK'
  <2>1. Call("look", entry, clock) \in Calls
    BY CallFacts DEF TypeOK
  <2>2. reader' \in [Readers -> Calls]
    BY <2>1, <1>1, <1>g DEF Lookup
  <2> QED
    BY <2>2, <1>1 DEF Lookup, TypeOK, Calls
<1>2. ASSUME NEW r \in Readers, Hit(r) PROVE TypeOK'
  <2>1. reader' \in [Readers -> Calls]
    BY <1>2, <1>g, CallFacts DEF Hit
  <2>2. reader[r].entry.val \in Versions
    BY <1>0, <1>2, CallFacts, EntryFacts DEF Hit, Valid, Held
  <2>3. answer' \in [val : Versions, at : Times]
    BY <2>2, <1>2, <1>a DEF Hit
  <2> QED
    BY <2>1, <2>3, <1>2 DEF Hit, TypeOK, Calls
<1>3. ASSUME NEW r \in Readers, Load(r) PROVE TypeOK'
  <2>1. Call("fill", Entry(row, None), clock) \in Calls
    BY CallFacts DEF TypeOK
  <2>2. reader' \in [Readers -> Calls]
    BY <2>1, <1>3, <1>g DEF Load
  <2> QED
    BY <2>2, <1>3 DEF Load, TypeOK, Calls
<1>4. ASSUME NEW r \in Readers, Set(r) PROVE TypeOK'
  <2>1. reader' \in [Readers -> Calls]
    BY <1>4, <1>g, CallFacts DEF Set
  <2>2. reader[r].entry.val \in Versions
    BY <1>0, <1>4, CallFacts DEF Set
  <2>3. answer' \in [val : Versions, at : Times]
    BY <2>2, <1>4, <1>a DEF Set
  <2>4. clock + TTL \in TTL .. MaxClock + TTL
    BY DEF TypeOK, Times
  <2>5. entry' \in Entries
    BY <2>2, <2>4, <1>4, EntryFacts DEF Set
  <2> QED
    BY <2>1, <2>3, <2>5, <1>4 DEF Set, TypeOK, Calls
<1>5. ASSUME NEW w \in Writers, Write(w) PROVE TypeOK'
  <2>1. row' \in Versions
    BY <1>5 DEF Write, TypeOK, Versions
  <2>2. ended' \in [Versions -> Times \cup {None}]
    BY <1>5 DEF Write, TypeOK
  <2> QED
    BY <2>1, <2>2, <1>5 DEF Write, TypeOK
<1>6. ASSUME NEW w \in Writers, Delete(w) PROVE TypeOK'
  BY <1>6 DEF Delete, TypeOK
<1>7. CASE JanitorTick
  BY <1>7 DEF JanitorTick, TypeOK
<1>8. CASE JanitorSweep
  BY <1>8 DEF JanitorSweep, TypeOK
<1>9. CASE Tick
  BY <1>9 DEF Tick, TypeOK, Times
<1>10. CASE UNCHANGED vars
  BY <1>10 DEF vars, TypeOK
<1> QED
  BY <1>1, <1>2, <1>3, <1>4, <1>5, <1>6, <1>7, <1>8, <1>9, <1>10
  DEF Next, Get

(* Every variable stays in its set.                                          *)
THEOREM TypeCorrect == Spec => []TypeOK
  BY TypeInit, TypeStep, PTL DEF Spec

-----------------------------------------------------------------------------

LEMMA AgeInit == Init => AgeInv
<1> SUFFICES ASSUME Init PROVE AgeInv
  OBVIOUS
<1>1. \A r \in Readers : reader[r].pc = "idle"
  BY CallFacts DEF Init
<1>2. \A v \in Versions : ended[v] = None /\ ~(v < row)
  BY DEF Init, Versions
<1>3. InTime(answer.val, answer.at)
  BY <1>2, EntryFacts, TTLAssumption, PauseAssumption
  DEF Init, InTime, LastHeld
<1> QED
  BY <1>1, <1>2, <1>3 DEF Init, AgeInv

(* A version that was current until a moment keeps its date or, if it is     *)
(* current still, has it moved on: the clock does not go back.               *)
LEMMA DatesKept ==
    ASSUME TypeOK, AgeInv, [Next]_vars
    PROVE  /\ clock \in Nat /\ clock' \in Nat /\ clock <= clock'
           /\ \A v \in Versions :
                /\ ended[v] = None \/ ended[v] \in Nat
                /\ \/ ended'[v] = ended[v]
                   \/ ended[v] = None /\ ended'[v] = clock
<1> USE BoundsAssumption, NoneAssumption
<1>1. /\ clock \in Nat
      /\ ended \in [Versions -> Times \cup {None}] /\ Times \subseteq Nat
  BY DEF TypeOK, Times
<1>2. clock' \in Nat /\ clock <= clock'
  BY <1>1
  DEF Next, vars, Get, Lookup, Hit, Load, Set, Write, Delete, JanitorTick,
      JanitorSweep, Tick
<1>3. ASSUME NEW v \in Versions
      PROVE  /\ ended[v] = None \/ ended[v] \in Nat
             /\ \/ ended'[v] = ended[v]
                \/ ended[v] = None /\ ended'[v] = clock
  <2>1. ended[v] = None \/ ended[v] \in Nat
    BY <1>1
  <2>2. ASSUME NEW w \in Writers, Write(w)
        PROVE  ended'[v] = ended[v] \/ (ended[v] = None /\ ended'[v] = clock)
    <3>1. row \in Versions /\ ended[row] = None
      BY DEF TypeOK, AgeInv, Versions
    <3>2. ended' = [ended EXCEPT ![row] = clock]
      BY <2>2 DEF Write
    <3> QED
      BY <1>1, <3>1, <3>2
  <2>3. (\E w \in Writers : Write(w)) \/ ended' = ended
    BY DEF Next, vars, Get, Lookup, Hit, Load, Set, Delete, JanitorTick,
           JanitorSweep, Tick
  <2> QED
    BY <2>1, <2>2, <2>3
<1> QED
  BY <1>1, <1>2, <1>3

LEMMA DatesStay ==
    ASSUME TypeOK, AgeInv, [Next]_vars, NEW v \in Versions
    PROVE  /\ LastHeld(v) \in Nat /\ LastHeld(v)' \in Nat
           /\ LastHeld(v) <= LastHeld(v)'
<1>1. /\ clock \in Nat /\ clock' \in Nat /\ clock <= clock'
      /\ ended[v] = None \/ ended[v] \in Nat
      /\ ended'[v] = ended[v] \/ (ended[v] = None /\ ended'[v] = clock)
  BY DatesKept
<1>2. None \notin Nat
  BY NoneAssumption
<1> QED
  BY <1>1, <1>2 DEF LastHeld

LEMMA InTimeStays ==
    ASSUME TypeOK, AgeInv, [Next]_vars, NEW v \in Versions, NEW t \in Int,
           InTime(v, t)
    PROVE  t <= LastHeld(v)' + TTL + Pause
<1>1. /\ LastHeld(v) \in Nat /\ LastHeld(v)' \in Nat
      /\ LastHeld(v) <= LastHeld(v)'
  BY DatesStay
<1>2. TTL \in Nat /\ Pause \in Nat
  BY TTLAssumption, PauseAssumption
<1> QED
  BY <1>1, <1>2 DEF InTime

(* The books of the versions: each is overwritten once, in order.            *)
Dated ==
    \A v \in Versions :
        IF v < row THEN ended[v] # None /\ ended[v] <= clock
                   ELSE ended[v] = None

LEMMA DatedStep == ASSUME TypeOK, AgeInv, [Next]_vars PROVE Dated'
<1> USE NoneAssumption, BoundsAssumption
<1>1. Dated /\ clock \in Int /\ row \in Int
      /\ ended \in [Versions -> Times \cup {None}] /\ Times \subseteq Int
  BY DEF AgeInv, Dated, TypeOK, Times, Versions
<1>2. clock <= clock' /\ clock' \in Int
  BY DatesKept
<1>3. CASE \E w \in Writers : Write(w)
  <2>1. Versions \subseteq Int
    BY DEF Versions
  <2> QED
    BY <1>1, <1>3, <2>1 DEF Write, Dated
<1>4. CASE UNCHANGED <<row, ended>>
  <2>1. \A v \in Versions : ended[v] = None \/ ended[v] \in Int
    BY <1>1
  <2> QED
    BY <1>1, <1>2, <1>4, <2>1 DEF Dated
<1> QED
  BY <1>3, <1>4
  DEF Next, vars, Get, Lookup, Hit, Load, Set, Delete, JanitorTick,
      JanitorSweep, Tick

(* What AgeInv says of one call.                                             *)
CallInv(c) ==
    /\ c.pc # "idle" => clock <= c.since + Pause
    /\ c.pc = "look" /\ c.entry # NoEntry =>
          InTime(c.entry.val, c.entry.expiresAt)
    /\ c.pc = "fill" => c.since <= LastHeld(c.entry.val)

(* A call that does not move stays in time: only Tick moves the clock, and    *)
(* it waits for the call.                                                    *)
LEMMA CallStays ==
    ASSUME TypeOK, AgeInv, [Next]_vars, NEW r \in Readers,
           reader'[r] = reader[r]
    PROVE  CallInv(reader[r])'
<1> DEFINE c == reader[r]
<1> USE TTLAssumption, PauseAssumption, BoundsAssumption
<1>0. TTL \in Nat /\ Pause \in Nat
  OBVIOUS
<1>1. c \in Calls /\ CallInv(c) /\ c' = c
  BY DEF TypeOK, Calls, AgeInv, CallInv
<1>2. clock' = clock \/ Tick
  BY DEF Next, vars, Get, Lookup, Hit, Load, Set, Write, Delete, JanitorTick,
         JanitorSweep
<1>3. c.pc # "idle" => clock' <= c.since + Pause
  <2>1. c.pc # "idle" => c.since \in Int /\ clock \in Int
    BY <1>1, CallFacts DEF TypeOK, Times
  <2> QED
    BY <1>0, <1>1, <1>2, <2>1 DEF CallInv, Tick
<1>4. ASSUME c.pc = "look", c.entry # NoEntry
      PROVE  c.entry.expiresAt <= LastHeld(c.entry.val)' + TTL + Pause
  <2>1. Held(c.entry)
    BY <1>1, <1>4, CallFacts, EntryFacts
  <2>2. c.entry.expiresAt \in Int /\ c.entry.val \in Versions
    BY <2>1 DEF Held
  <2>3. InTime(c.entry.val, c.entry.expiresAt)
    BY <1>1, <1>4 DEF CallInv
  <2> QED
    BY <2>2, <2>3, InTimeStays
<1>5. ASSUME c.pc = "fill" PROVE c.since <= LastHeld(c.entry.val)'
  <2>1. c.entry.val \in Versions /\ c.since \in Int
    BY <1>1, <1>5, CallFacts DEF Times
  <2>2. c.since <= LastHeld(c.entry.val)
    BY <1>1, <1>5 DEF CallInv
  <2>3. /\ LastHeld(c.entry.val) \in Nat /\ LastHeld(c.entry.val)' \in Nat
        /\ LastHeld(c.entry.val) <= LastHeld(c.entry.val)'
    BY <2>1, DatesStay
  <2> QED
    BY <2>1, <2>2, <2>3
<1> QED
  BY <1>1, <1>3, <1>4, <1>5 DEF CallInv, InTime, LastHeld

(* One step keeps everything in time.                                        *)
AgeRest ==
    /\ scan # None => scan <= clock
    /\ entry # NoEntry => InTime(entry.val, entry.expiresAt)
    /\ InTime(answer.val, answer.at)

(* An entry that is kept and an answer that is not given again.              *)
LEMMA EntryStays ==
    ASSUME TypeOK, AgeInv, [Next]_vars, entry' = entry
    PROVE  (entry # NoEntry => InTime(entry.val, entry.expiresAt))'
<1> SUFFICES ASSUME entry # NoEntry
             PROVE  entry.expiresAt <= LastHeld(entry.val)' + TTL + Pause
  BY DEF InTime, LastHeld
<1>1. entry.val \in Versions /\ entry.expiresAt \in Int
  BY EntryFacts, TTLAssumption, BoundsAssumption DEF TypeOK, Held
<1>2. InTime(entry.val, entry.expiresAt)
  BY DEF AgeInv
<1> QED
  BY <1>1, <1>2, InTimeStays

LEMMA AnswerStays ==
    ASSUME TypeOK, AgeInv, [Next]_vars, answer' = answer
    PROVE  InTime(answer.val, answer.at)'
<1> SUFFICES answer.at <= LastHeld(answer.val)' + TTL + Pause
  BY DEF InTime, LastHeld
<1>1. answer.val \in Versions /\ answer.at \in Int
  BY DEF TypeOK, Times
<1>2. InTime(answer.val, answer.at)
  BY DEF AgeInv
<1> QED
  BY <1>1, <1>2, InTimeStays

LEMMA ScanStays ==
    ASSUME TypeOK, AgeInv, [Next]_vars
    PROVE  (scan # None => scan <= clock)'
<1>1. clock \in Nat /\ clock' \in Nat /\ clock <= clock'
  BY DatesKept
<1>2. scan # None => scan \in Int /\ scan <= clock
  BY DEF TypeOK, AgeInv, Times
<1>3. scan' = scan \/ scan' = None \/ scan' = clock
  BY DEF Next, vars, Get, Lookup, Hit, Load, Set, Write, Delete, JanitorTick,
         JanitorSweep, Tick
<1> QED
  BY <1>1, <1>2, <1>3

(* A call that moves carries what is in time.                                *)
LEMMA CallMoves ==
    ASSUME TypeOK, AgeInv, [Next]_vars, NEW r \in Readers,
           reader'[r] # reader[r]
    PROVE  CallInv(reader[r])'
<1> USE TTLAssumption, PauseAssumption, BoundsAssumption, NoneAssumption
<1>0. reader \in [Readers -> Calls] /\ clock \in Nat
  BY DEF TypeOK, Calls, Times
<1>1. CASE Lookup(r)
  <2>1. reader'[r] = Call("look", entry, clock) /\ UNCHANGED <<clock, ended>>
    BY <1>0, <1>1 DEF Lookup, Step
  <2>2. entry # NoEntry => InTime(entry.val, entry.expiresAt)
    BY DEF AgeInv
  <2> QED
    BY <1>0, <2>1, <2>2 DEF CallInv, Call, InTime, LastHeld
<1>2. CASE Load(r)
  <2>1. reader'[r] = Call("fill", Entry(row, None), clock)
        /\ UNCHANGED <<clock, ended>>
    BY <1>0, <1>2 DEF Load, Step
  <2>2. row \in Versions /\ ended[row] = None
    BY DEF TypeOK, AgeInv, Versions
  <2> QED
    BY <1>0, <2>1, <2>2 DEF CallInv, Call, Entry, LastHeld
<1>3. CASE Hit(r) \/ Set(r)
  <2>1. reader'[r] = IdleCall
    BY <1>0, <1>3 DEF Hit, Set, Step
  <2> QED
    BY <2>1, CallFacts DEF CallInv
<1>4. Lookup(r) \/ Load(r) \/ Hit(r) \/ Set(r)
  <2>1. ASSUME NEW q \in Readers, Get(q) PROVE Get(r)
    BY <1>0, <2>1 DEF Get, Lookup, Load, Hit, Set, Step
  <2>2. \E q \in Readers : Get(q)
    BY DEF Next, vars, Write, Delete, JanitorTick, JanitorSweep, Tick
  <2> QED
    BY <2>1, <2>2 DEF Get
<1> QED
  BY <1>1, <1>2, <1>3, <1>4

LEMMA AgeStep == ASSUME TypeOK, AgeInv, [Next]_vars PROVE AgeInv'
<1> USE TTLAssumption, PauseAssumption, BoundsAssumption, NoneAssumption
<1>1. Dated'
  BY DatedStep
<1>2. \A r \in Readers : CallInv(reader[r])'
  BY CallStays, CallMoves
<1>3. (scan # None => scan <= clock)'
  BY ScanStays
<1>4. /\ reader \in [Readers -> Calls] /\ clock \in Nat
      /\ \A r \in Readers : CallInv(reader[r])
  BY DEF TypeOK, Calls, Times, AgeInv, CallInv
<1>5. ASSUME NEW r \in Readers, Set(r)
      PROVE  InTime(entry.val, entry.expiresAt)' /\ InTime(answer.val, answer.at)'
  <2>1. /\ reader[r].entry.val \in Versions /\ reader[r].since \in Nat
        /\ clock <= reader[r].since + Pause
        /\ reader[r].since <= LastHeld(reader[r].entry.val)
    BY <1>4, <1>5, CallFacts DEF Set, CallInv, Times
  <2>2. PICK v \in Versions : v = reader[r].entry.val
    BY <2>1
  <2>3. LastHeld(v) \in Nat /\ clock <= LastHeld(v) + Pause
    BY <1>4, <2>1, <2>2, DatesStay
  <2>4. /\ entry'.val = v /\ entry'.expiresAt = clock + TTL
        /\ answer'.val = v /\ answer'.at = clock
        /\ clock' = clock /\ ended' = ended
    BY <1>5, <2>2 DEF Set, Answer, Entry
  <2> QED
    BY <1>4, <2>3, <2>4 DEF InTime, LastHeld
<1>6. ASSUME NEW r \in Readers, Hit(r)
      PROVE  InTime(answer.val, answer.at)'
  <2>1. Held(reader[r].entry) /\ clock <= reader[r].entry.expiresAt
        /\ InTime(reader[r].entry.val, reader[r].entry.expiresAt)
    <3>1. reader[r].entry \in Entries
      BY <1>4, <1>6, CallFacts DEF Hit, Valid
    <3>2. Held(reader[r].entry)
      BY <3>1, EntryFacts
    <3>3. InTime(reader[r].entry.val, reader[r].entry.expiresAt)
      BY <1>4, <1>6 DEF Hit, Valid, CallInv
    <3> QED
      BY <1>4, <1>6, <3>2, <3>3 DEF Hit, Valid, After, Held
  <2>2. PICK v \in Versions : v = reader[r].entry.val
    BY <2>1 DEF Held
  <2>3. LastHeld(v) \in Nat /\ clock <= LastHeld(v) + TTL + Pause
    BY <1>4, <2>1, <2>2, DatesStay DEF Held, InTime
  <2>4. /\ answer'.val = v /\ answer'.at = clock
        /\ clock' = clock /\ ended' = ended
    BY <1>6, <2>2 DEF Hit, Answer
  <2> QED
    BY <1>4, <2>3, <2>4 DEF InTime, LastHeld
<1>7. entry' = entry \/ entry' = NoEntry \/ \E r \in Readers : Set(r)
  BY DEF Next, vars, Get, Lookup, Hit, Load, Write, Delete, JanitorTick,
         JanitorSweep, Tick
<1>8. answer' = answer \/ \E r \in Readers : Set(r) \/ Hit(r)
  BY DEF Next, vars, Get, Lookup, Load, Write, Delete, JanitorTick,
         JanitorSweep, Tick
<1>9. (entry # NoEntry => InTime(entry.val, entry.expiresAt))'
  BY <1>5, <1>7, EntryStays
<1>10. InTime(answer.val, answer.at)'
  BY <1>5, <1>6, <1>8, AnswerStays
<1>11. AgeRest'
  BY <1>3, <1>9, <1>10 DEF AgeRest
<1> QED
  BY <1>1, <1>2, <1>11 DEF AgeInv, Dated, AgeRest, CallInv

(* What the cache and the calls hold is in time, whatever happens.           *)
THEOREM AlwaysInTime == Spec => []AgeInv
<1>1. Init => TypeOK /\ AgeInv
  BY TypeInit, AgeInit
<1>2. TypeOK /\ AgeInv /\ [Next]_vars => (TypeOK /\ AgeInv)'
  BY TypeStep, AgeStep
<1> QED
  BY <1>1, <1>2, PTL DEF Spec

(* Get never answers with a version that was overwritten longer ago than the *)
(* time to live and one pause.                                               *)
THEOREM BoundedStaleness == Spec => []StalenessBounded
<1>1. AgeInv => StalenessBounded
  BY DEF AgeInv, InTime, LastHeld, StalenessBounded
<1> QED
  BY <1>1, AlwaysInTime, PTL

(* The janitor takes nothing that Get would still serve.                     *)
THEOREM JanitorIsHarmless == Spec => JanitorSparesLive
<1>1. ASSUME TypeOK, AgeInv, [Next]_vars, JanitorSweep
      PROVE  entry' = entry \/ ~Valid(entry)
  <2> USE TTLAssumption, BoundsAssumption
  <2>1. scan \in Int /\ scan <= clock /\ clock \in Int
    BY <1>1 DEF JanitorSweep, TypeOK, AgeInv, Times
  <2>2. entry # NoEntry => entry.expiresAt \in Int
    BY <1>1, EntryFacts DEF TypeOK, Held
  <2> QED
    BY <1>1, <2>1, <2>2 DEF JanitorSweep, Sweepable, Valid, After
<1>2. TypeOK /\ AgeInv /\ [Next]_vars
      => [JanitorSweep => entry' = entry \/ ~Valid(entry)]_vars
  BY <1>1
<1> QED
  BY <1>2, TypeCorrect, AlwaysInTime, PTL DEF Spec, JanitorSparesLive

LEMMA LateFillsStep ==
    ASSUME TypeOK, AgeInv, OnlyLateFills, [Next]_vars PROVE OnlyLateFills'
<1> USE TTLAssumption, BoundsAssumption, NoneAssumption
<1>0. clock \in Nat /\ owing \subseteq Writers
      /\ \A v \in Versions : ended[v] = None \/ ended[v] \in Nat
  BY DatesKept DEF TypeOK
<1>1. CASE \E r \in Readers : Set(r)
  <2>1. PICK r \in Readers : Set(r)
    BY <1>1
  <2>2. reader[r].entry.val \in Versions
    BY <2>1, CallFacts DEF Set, TypeOK, Calls
  <2>3. /\ entry' = Entry(reader[r].entry.val, clock + TTL)
        /\ UNCHANGED <<ended, owing>>
    BY <2>1 DEF Set
  <2>4. ended[entry'.val] # None => ended[entry'.val] <= clock
    BY <2>2, <2>3 DEF AgeInv, Entry
  <2> QED
    BY <1>0, <2>2, <2>3, <2>4 DEF OnlyLateFills, Entry
<1>2. CASE \E w \in Writers : Write(w)
  BY <1>2 DEF Write, OnlyLateFills
<1>3. CASE \E w \in Writers : Delete(w)
  BY <1>3 DEF Delete, OnlyLateFills
<1>4. CASE JanitorSweep
  BY <1>4 DEF JanitorSweep, OnlyLateFills
<1>5. CASE UNCHANGED <<entry, ended, owing>>
  BY <1>5 DEF OnlyLateFills
<1> QED
  BY <1>1, <1>2, <1>3, <1>4, <1>5
  DEF Next, vars, Get, Lookup, Hit, Load, JanitorTick, Tick

(* With every invalidation made, an old version in the cache was put there   *)
(* after the write: by a load that began before it (service.go Get, Update). *)
THEOREM LateFillsOnly == Spec => []OnlyLateFills
<1>1. Init => OnlyLateFills
  BY DEF Init, OnlyLateFills
<1>2. TypeOK /\ AgeInv /\ OnlyLateFills /\ [Next]_vars => OnlyLateFills'
  BY LateFillsStep
<1> QED
  BY <1>1, <1>2, TypeCorrect, AlwaysInTime, PTL DEF Spec

=============================================================================
