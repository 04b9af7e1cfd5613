---------------------------- MODULE SessionsProofs ----------------------------
(* Accounts and sessions for every number of addresses, tokens and requests, *)
(* every time to live and every fineness of the clock: one account per       *)
(* address, a gate that lets nobody in whose session was over, and a sweep   *)
(* that removes no session the gate would accept.                            *)
EXTENDS Sessions, TLAPS

HasAccount(u) == \E a \in accounts : a.id = u

(* A token is given out once, to a user that has an account.                 *)
TokenInv ==
    \A t \in Tokens : sessions[t] # Absent =>
        sessions[t].user = owner[t] /\ owner[t] # Absent /\ HasAccount(owner[t])

(* What a request knows after its first statement.  Its session's row, if it *)
(* is still there, is the one that was read; and a request whose session was *)
(* over when it came will be turned away.                                    *)
Gated(x) == x.pc \in {"find", "check", "purge", "user", "logout"}
CallOK(x) ==
    /\ x.pc = "login" => x.user \in Users /\ HasAccount(x.user)
    /\ Gated(x) => x.token \in Tokens /\ owner[x.token] # Absent
    /\ x.pc = "find" /\ Live(x.token) => x.good
    /\ x.pc \in {"check", "purge"} /\ sessions[x.token] # Absent =>
          sessions[x.token].expires = x.expires
    /\ x.pc = "check" => Expired(clock, x.expires) \/ x.good
    /\ x.pc \in {"check", "user"} => x.user = owner[x.token]
    /\ x.pc = "purge" => Expired(clock, x.expires)
    /\ x.pc = "user" => x.good
CallInv == \A c \in Calls : CallOK(call[c])

IndInv == TypeOK /\ OneAccount /\ TokenInv /\ CallInv

-----------------------------------------------------------------------------
(* Seconds and instants.                                                     *)

(* Cutting an instant to its second never makes it later.                    *)
LEMMA UnixFacts ==
    ASSUME NEW t \in Nat
    PROVE  Unix(t) \in Nat /\ Unix(t) * Second <= t
<1>1. Second \in Nat /\ Second > 0
  BY ClockAssumption
<1> QED
  BY <1>1 DEF Unix

(* What the sweep takes for over, the gate would not accept.                 *)
LEMMA SweepIsLate ==
    ASSUME NEW now \in Nat, NEW e \in Nat, Purged(now, e)
    PROVE  Expired(now, e)
<1>1. Second \in Nat /\ Unix(now) \in Nat /\ Unix(now) * Second <= now
  BY ClockAssumption, UnixFacts
<1>2. e + 1 <= Unix(now)
  BY <1>1 DEF Purged
<1>3. (e + 1) * Second <= Unix(now) * Second
  BY <1>1, <1>2
<1>4. (e + 1) * Second = e * Second + Second
  BY <1>1
<1>5. e * Second \in Nat /\ Second >= 1
  BY <1>1, ClockAssumption
<1> QED
  BY <1>1, <1>3, <1>4, <1>5 DEF Expired

(* Time does not revive a session.                                           *)
LEMMA ExpiredStays ==
    ASSUME NEW now \in Nat, NEW e \in Nat, Expired(now, e)
    PROVE  Expired(now + 1, e)
<1>1. e * Second \in Nat
  BY ClockAssumption
<1> QED
  BY <1>1 DEF Expired

-----------------------------------------------------------------------------
(* Requests.                                                                 *)

LEMMA BlankOK == Blank \in CallState /\ CallOK(Blank)
<1>1. Blank \in CallState
  BY DEF Blank, CallState, Pcs
<1> QED
  BY <1>1 DEF Blank, CallOK, Gated

(* A request moves on and the tables stay.                                   *)
LEMMA RequestMoves ==
    ASSUME IndInv, NEW c \in Calls, NEW next \in CallState, CallOK(next),
           Go(c, next), UNCHANGED <<clock, accounts, sessions, owner>>
    PROVE  IndInv'
<1>1. call' \in [Calls -> CallState]
  BY DEF Go, IndInv, TypeOK
<1>2. \A b \in Calls : call'[b] = IF b = c THEN next ELSE call[b]
  BY DEF Go, IndInv, TypeOK
<1>3. \A b \in Calls : CallOK(call'[b])
  BY <1>2 DEF IndInv, CallInv
<1>4. CallInv'
  BY <1>3 DEF CallInv, CallOK, HasAccount, Live
<1> QED
  BY <1>1, <1>4 DEF IndInv, TypeOK, OneAccount, TokenInv, HasAccount

(* A table changes under the requests, one of which may leave.               *)
LEMMA TablesMove ==
    ASSUME IndInv, TypeOK', OneAccount', TokenInv',
           \A c \in Calls : call'[c] = call[c] \/ call'[c] = Blank,
           \A x \in CallState : CallOK(x) => CallOK(x)'
    PROVE  IndInv'
<1>1. \A c \in Calls : call'[c] \in CallState /\ CallOK(call'[c])
  BY BlankOK DEF IndInv, CallInv, TypeOK
<1>2. ASSUME NEW c \in Calls PROVE CallOK(call[c])'
  <2>1. PICK x \in CallState : x = call'[c]
    BY <1>1
  <2>2. CallOK(x)'
    BY <1>1, <2>1
  <2> QED
    BY <2>1, <2>2 DEF CallOK, Gated
<1>3. CallInv'
  BY <1>2 DEF CallInv
<1> QED
  BY <1>3 DEF IndInv

LEMMA IndInit == Init => IndInv
<1> SUFFICES ASSUME Init PROVE IndInv
  OBVIOUS
<1>1. TypeOK
  BY BlankOK, ClockAssumption DEF Init, TypeOK
<1>2. OneAccount /\ TokenInv
  BY DEF Init, OneAccount, TokenInv
<1>3. CallInv
  BY BlankOK DEF Init, CallInv
<1> QED
  BY <1>1, <1>2, <1>3 DEF IndInv

(* The types of what a request carries, by fields.                           *)
LEMMA CallTypes ==
    ASSUME IndInv, NEW c \in Calls
    PROVE  /\ call[c] \in CallState /\ CallOK(call[c])
           /\ call[c].pc \in Pcs /\ call[c].user \in Users \cup {Absent}
           /\ call[c].token \in Tokens \cup {Absent} /\ call[c].expires \in Nat
           /\ call[c].good \in BOOLEAN
  BY DEF IndInv, CallInv, TypeOK, CallState

(* The requests that read, or fail, or are turned away.                      *)
LEMMA ReadingStep ==
    ASSUME IndInv, NEW c \in Calls,
           \/ \E e \in Emails : FindUser(c, e)
           \/ \E t \in Tokens : BeginAuth(c, t) \/ BeginLogout(c, t)
           \/ LoginFails(c) \/ FoundSession(c) \/ SessionMissing(c)
           \/ FindSessionFails(c) \/ CheckExpiry(c) \/ Admit(c) \/ RejectUser(c)
    PROVE  IndInv'
<1>1. ASSUME NEW e \in Emails, FindUser(c, e) PROVE IndInv'
  <2>1. PICK a \in accounts : a.email = e
           /\ Go(c, [Blank EXCEPT !.pc = "login", !.user = a.id])
    BY <1>1 DEF FindUser
  <2> DEFINE next == [Blank EXCEPT !.pc = "login", !.user = a.id]
  <2>2. next \in CallState
    BY <2>1 DEF IndInv, TypeOK, Blank, CallState, Pcs
  <2>3. CallOK(next)
    BY <2>1 DEF IndInv, TypeOK, CallOK, Gated, Blank, HasAccount
  <2> QED
    BY <1>1, <2>1, <2>2, <2>3, RequestMoves DEF FindUser
<1>2. ASSUME NEW t \in Tokens, BeginAuth(c, t) PROVE IndInv'
  <2> DEFINE next == [Blank EXCEPT !.pc = "find", !.token = t, !.good = Live(t)]
  <2>1. next \in CallState
    BY DEF Blank, CallState, Pcs, Live
  <2>2. CallOK(next)
    BY <1>2 DEF BeginAuth, CallOK, Gated, Blank
  <2> QED
    BY <1>2, <2>1, <2>2, RequestMoves DEF BeginAuth
<1>3. ASSUME NEW t \in Tokens, BeginLogout(c, t) PROVE IndInv'
  <2> DEFINE next == [Blank EXCEPT !.pc = "logout", !.token = t]
  <2>1. next \in CallState
    BY DEF Blank, CallState, Pcs
  <2>2. CallOK(next)
    BY <1>3 DEF BeginLogout, CallOK, Gated, Blank
  <2> QED
    BY <1>3, <2>1, <2>2, RequestMoves DEF BeginLogout
<1>4. CASE LoginFails(c) \/ SessionMissing(c) \/ FindSessionFails(c) \/ Admit(c)
           \/ RejectUser(c)
  <2>1. Go(c, Blank) /\ UNCHANGED <<clock, accounts, sessions, owner>>
    BY <1>4 DEF LoginFails, SessionMissing, FindSessionFails, Admit, RejectUser,
       Reject, Break, Leave
  <2> QED
    BY <2>1, BlankOK, RequestMoves
<1>5. CASE FoundSession(c)
  <2> DEFINE s == sessions[call[c].token]
             next == [call[c] EXCEPT !.pc = "check", !.user = s.user,
                                     !.expires = s.expires]
  <2>1. call[c].token \in Tokens /\ s # Absent
    BY <1>5, CallTypes DEF FoundSession, CallOK, Gated
  <2>2. s \in Session /\ s.user = owner[call[c].token]
    BY <2>1 DEF IndInv, TypeOK, TokenInv
  <2>3. next \in CallState
    <3>1. s.user \in Users /\ s.expires \in Nat /\ "check" \in Pcs
      BY <2>2 DEF Session, Pcs
    <3>2. call[c] \in CallState
      BY CallTypes
    <3> HIDE DEF s
    <3> QED
      BY <3>1, <3>2 DEF CallState
  <2>4. /\ next.pc = "check" /\ next.token = call[c].token /\ next.user = s.user
        /\ next.expires = s.expires /\ next.good = call[c].good
    BY CallTypes DEF CallState
  <2>5. Expired(clock, s.expires) \/ call[c].good
    BY <1>5, <2>1, CallTypes DEF FoundSession, CallOK, Live
  <2>6. CallOK(next)
    BY <1>5, <2>1, <2>2, <2>4, <2>5, CallTypes DEF FoundSession, CallOK, Gated
  <2> QED
    BY <1>5, <2>3, <2>6, RequestMoves DEF FoundSession
<1>6. CASE CheckExpiry(c)
  <2> DEFINE pc == IF Expired(clock, call[c].expires) THEN "purge" ELSE "user"
             next == [call[c] EXCEPT !.pc = pc]
  <2>1. next \in CallState
    BY CallTypes DEF CallState, Pcs
  <2>2. /\ next.pc = pc /\ next.token = call[c].token
        /\ next.user = call[c].user /\ next.expires = call[c].expires
        /\ next.good = call[c].good
    BY CallTypes DEF CallState
  <2>3. CallOK(next)
    BY <1>6, <2>2, CallTypes DEF CheckExpiry, CallOK, Gated
  <2> QED
    BY <1>6, <2>1, <2>3, RequestMoves DEF CheckExpiry
<1> QED
  BY <1>1, <1>2, <1>3, <1>4, <1>5, <1>6

-----------------------------------------------------------------------------
(* Tables.                                                                   *)

LEMMA RegisterStep ==
    ASSUME IndInv, NEW e \in Emails, NEW u \in Users, CreateUser(e, u)
    PROVE  IndInv'
<1>1. /\ UNCHANGED <<clock, sessions, owner, call>>
      /\ accounts' = accounts \cup {[id |-> u, email |-> e]}
      /\ \A a \in accounts : a.email # e /\ a.id # u
  BY DEF CreateUser, EmailFree
<1>2. TypeOK'
  BY <1>1 DEF IndInv, TypeOK
<1>3. \A v : HasAccount(v) => HasAccount(v)'
  BY <1>1 DEF HasAccount
<1>4. \A a, b \in accounts' : a.email = b.email \/ a.id = b.id => a = b
  BY <1>1 DEF IndInv, OneAccount
<1>5. TokenInv'
  BY <1>1, <1>3 DEF IndInv, TokenInv
<1>6. OneAccount'
  BY <1>4, <1>5 DEF OneAccount, TokenInv, HasAccount
<1>7. \A x \in CallState : CallOK(x) => CallOK(x)'
  BY <1>1, <1>3 DEF CallOK, Live
<1> QED
  BY <1>1, <1>2, <1>5, <1>6, <1>7, TablesMove

(* The new row's token is nobody else's.                                     *)
LEMMA LoginStep ==
    ASSUME IndInv, NEW c \in Calls, CreateSession(c)
    PROVE  IndInv'
<1>1. PICK t \in Tokens :
         /\ owner[t] = Absent /\ owner' = [owner EXCEPT ![t] = call[c].user]
         /\ sessions' = [sessions EXCEPT ![t] =
               [user |-> call[c].user, expires |-> Unix(clock + TTL)]]
  BY DEF CreateSession
<1>2. UNCHANGED <<clock, accounts>> /\ call' = [call EXCEPT ![c] = Blank]
  BY DEF CreateSession, Leave, Go
<1>3. call[c].user \in Users /\ HasAccount(call[c].user)
  BY CallTypes DEF CreateSession, CallOK
<1>4. clock + TTL \in Nat /\ Unix(clock + TTL) \in Nat
  BY ClockAssumption, UnixFacts DEF IndInv, TypeOK
<1>5. [user |-> call[c].user, expires |-> Unix(clock + TTL)] \in Session
  BY <1>3, <1>4 DEF Session
<1>6. TypeOK'
  BY <1>1, <1>2, <1>3, <1>5, BlankOK DEF IndInv, TypeOK
<1>7. \A b \in Calls : call'[b] = call[b] \/ call'[b] = Blank
  BY <1>2 DEF IndInv, TypeOK
<1>8. \A r \in Tokens : r # t => sessions'[r] = sessions[r] /\ owner'[r] = owner[r]
  BY <1>1 DEF IndInv, TypeOK
<1>9. sessions'[t].user = call[c].user /\ owner'[t] = call[c].user
  BY <1>1 DEF IndInv, TypeOK
<1>10. TokenInv'
  BY <1>2, <1>3, <1>8, <1>9, AbsentAssumption DEF IndInv, TokenInv, HasAccount
<1>11. OneAccount'
  BY <1>2, <1>10 DEF IndInv, OneAccount, TokenInv, HasAccount
<1>12. ASSUME NEW x \in CallState, CallOK(x) PROVE CallOK(x)'
  <2>1. Gated(x) => x.token \in Tokens /\ x.token # t
    BY <1>1, <1>12 DEF CallOK
  <2> QED
    BY <1>2, <1>8, <1>12, <2>1 DEF CallOK, Gated, Live, HasAccount
<1> QED
  BY <1>6, <1>7, <1>10, <1>11, <1>12, TablesMove

(* Sessions that go, whoever deletes them, take nothing else along.          *)
LEMMA DeletingStep ==
    ASSUME IndInv, UNCHANGED <<clock, accounts, owner>>,
           sessions' \in [Tokens -> Session \cup {Absent}],
           \A t \in Tokens : sessions'[t] = sessions[t] \/ sessions'[t] = Absent,
           call' \in [Calls -> CallState],
           \A c \in Calls : call'[c] = call[c] \/ call'[c] = Blank
    PROVE  IndInv'
<1>1. TypeOK'
  BY DEF IndInv, TypeOK
<1>2. TokenInv'
  BY DEF IndInv, TokenInv, HasAccount
<1>3. OneAccount'
  BY <1>2 DEF IndInv, OneAccount, TokenInv, HasAccount
<1>4. \A x \in CallState : CallOK(x) => CallOK(x)'
  BY DEF CallOK, Gated, Live, HasAccount
<1> QED
  BY <1>1, <1>2, <1>3, <1>4, TablesMove

LEMMA LeavingStep ==
    ASSUME IndInv, NEW c \in Calls, RejectExpired(c) \/ Logout(c)
    PROVE  IndInv'
<1>1. UNCHANGED <<clock, accounts, owner>> /\ call' = [call EXCEPT ![c] = Blank]
  BY DEF RejectExpired, Logout, Leave, Go
<1>2. sessions' = sessions \/ sessions' = [sessions EXCEPT ![call[c].token] = Absent]
  BY DEF RejectExpired, Logout, DropSession
<1>3. /\ sessions' \in [Tokens -> Session \cup {Absent}]
      /\ \A t \in Tokens : sessions'[t] = sessions[t] \/ sessions'[t] = Absent
  BY <1>2 DEF IndInv, TypeOK
<1>4. /\ call' \in [Calls -> CallState]
      /\ \A b \in Calls : call'[b] = call[b] \/ call'[b] = Blank
  BY <1>1, BlankOK DEF IndInv, TypeOK
<1> QED
  BY <1>1, <1>3, <1>4, DeletingStep

LEMMA SweepStep == ASSUME IndInv, Sweep PROVE IndInv'
<1>1. UNCHANGED <<clock, accounts, owner, call>>
  BY DEF Sweep
<1>2. /\ sessions' \in [Tokens -> Session \cup {Absent}]
      /\ \A t \in Tokens : sessions'[t] = sessions[t] \/ sessions'[t] = Absent
  BY DEF Sweep, IndInv, TypeOK
<1> QED
  BY <1>1, <1>2, DeletingStep DEF IndInv, TypeOK

LEMMA RestartStep == ASSUME IndInv, Restart PROVE IndInv'
<1>1. /\ UNCHANGED <<clock, accounts, owner, sessions>>
      /\ call' \in [Calls -> CallState]
      /\ \A c \in Calls : call'[c] = Blank
  BY BlankOK DEF Restart
<1> QED
  BY <1>1, DeletingStep DEF IndInv, TypeOK

LEMMA TickStep == ASSUME IndInv, Tick PROVE IndInv'
<1>1. clock \in Nat /\ clock' = clock + 1 /\ clock' \in 0 .. MaxClock
      /\ UNCHANGED <<accounts, sessions, owner, call>>
  BY ClockAssumption DEF Tick, IndInv, TypeOK
<1>2. TypeOK' /\ OneAccount' /\ TokenInv'
  BY <1>1 DEF IndInv, TypeOK, OneAccount, TokenInv, HasAccount
<1>3. \A e \in Nat : Expired(clock, e) => Expired(clock, e)'
  BY <1>1, ExpiredStays DEF Expired
<1>4. \A t \in Tokens : Live(t)' => Live(t)
  BY <1>1, <1>3 DEF Live, Expired, IndInv, TypeOK, Session
<1>5. ASSUME NEW x \in CallState, CallOK(x) PROVE CallOK(x)'
  <2>1. x.expires \in Nat
    BY DEF CallState
  <2>2. x.pc = "find" => x.token \in Tokens
    BY <1>5 DEF CallOK, Gated
  <2>3. Expired(clock, x.expires) => Expired(clock, x.expires)'
    BY <1>3, <2>1
  <2>4. x.pc = "find" /\ Live(x.token)' => x.good
    BY <1>4, <1>5, <2>2 DEF CallOK
  <2> QED
    BY <1>1, <1>5, <2>3, <2>4 DEF CallOK, Gated, HasAccount
<1> QED
  BY <1>1, <1>2, <1>5, TablesMove

LEMMA IndStep == ASSUME IndInv, [Next]_vars PROVE IndInv'
<1>1. CASE UNCHANGED vars
  BY <1>1, DeletingStep DEF vars, IndInv, TypeOK
<1> QED
  BY <1>1, ReadingStep, RegisterStep, LoginStep, LeavingStep, SweepStep,
     RestartStep, TickStep
  DEF Next, Request, Authenticate

LEMMA IndAlways == Spec => []IndInv
<1>1. IndInv /\ [Next]_vars => IndInv'
  BY IndStep
<1> QED
  BY <1>1, IndInit, PTL DEF Spec

-----------------------------------------------------------------------------
(* Results.                                                                  *)

(* Every variable stays in its set.                                          *)
THEOREM TypeCorrect == Spec => []TypeOK
<1>1. IndInv => TypeOK
  BY DEF IndInv
<1> QED
  BY <1>1, IndAlways, PTL

(* However registrations overlap an address has one account, and every live  *)
(* token belongs to the account it was made for (auth_repo.go CreateUser).   *)
THEOREM AccountsAreUnique == Spec => []OneAccount
<1>1. IndInv => OneAccount
  BY DEF IndInv
<1> QED
  BY <1>1, IndAlways, PTL

(* The gate admits nobody whose session was over when the request came, and  *)
(* nobody as somebody else, whatever logouts, sweeps and seconds pass between*)
(* its statements (auth/service.go Authenticate).                            *)
THEOREM GateAdmitsOnlyLive == Spec => AdmitsOnlyLive
<1>1. ASSUME IndInv
      PROVE  \A c \in Calls : Admit(c) =>
                call[c].good /\ call[c].user = owner[call[c].token]
  BY <1>1, CallTypes DEF Admit, CallOK
<1> QED
  BY <1>1, IndAlways, PTL DEF AdmitsOnlyLive

(* A session ends by a logout with its token or because its time is over:    *)
(* the sweep and the gate delete nothing that the gate would accept.         *)
THEOREM SessionsEndForAReason == Spec => EndsForAReason
<1>1. ASSUME IndInv, [Next]_vars, NEW t \in Tokens, sessions[t] # Absent,
             sessions'[t] # sessions[t], ~Expired(clock, sessions[t].expires)
      PROVE  \E c \in Calls : call[c].pc = "logout" /\ call[c].token = t
                              /\ call'[c].pc = "idle"
  <2>1. sessions[t].expires \in Nat /\ clock \in Nat
    BY <1>1 DEF IndInv, TypeOK, Session
  <2>2. ~Sweep
    BY <1>1, <2>1, SweepIsLate DEF Sweep
  <2>3. ASSUME NEW c \in Calls, CreateSession(c) PROVE FALSE
    <3>1. owner[t] # Absent
      BY <1>1 DEF IndInv, TokenInv
    <3> QED
      BY <1>1, <2>3, <3>1 DEF CreateSession, IndInv, TypeOK
  <2>4. ASSUME NEW c \in Calls, RejectExpired(c) PROVE FALSE
    <3>1. call[c].token = t
      BY <1>1, <2>4 DEF RejectExpired, DropSession, IndInv, TypeOK
    <3>2. /\ call[c].expires = sessions[t].expires
          /\ Expired(clock, call[c].expires)
      BY <1>1, <2>4, <3>1, CallTypes DEF RejectExpired, CallOK
    <3> QED
      BY <1>1, <3>2
  <2>5. \E c \in Calls : Logout(c)
    BY <1>1, <2>2, <2>3, <2>4
    DEF Next, vars, Request, Authenticate, CreateUser, FindUser, LoginFails,
        BeginAuth, FoundSession, SessionMissing, FindSessionFails, CheckExpiry,
        Admit, RejectUser, Reject, Break, BeginLogout, Tick, Restart
  <2>6. PICK c \in Calls : Logout(c)
    BY <2>5
  <2>7. call[c].pc = "logout" /\ call[c].token = t
    BY <1>1, <2>6 DEF Logout, DropSession, IndInv, TypeOK
  <2>8. call'[c] = Blank
    BY <1>1, <2>6 DEF Logout, Leave, Go, IndInv, TypeOK
  <2> QED
    BY <2>7, <2>8 DEF Blank
<1>2. IndInv /\ [Next]_vars =>
         \A t \in Tokens : sessions[t] # Absent /\ sessions'[t] # sessions[t] =>
            \/ Expired(clock, sessions[t].expires)
            \/ \E c \in Calls : call[c].pc = "logout" /\ call[c].token = t
                                /\ call'[c].pc = "idle"
  BY <1>1
<1> QED
  BY <1>2, IndAlways, PTL DEF Spec, EndsForAReason

(* The gate answers 401 to a live session for one reason only: the statement *)
(* that looks for its user failed (auth/service.go Authenticate).            *)
THEOREM OnlyOutagesReject ==
    Spec => [][\A c \in Calls :
                  /\ SessionMissing(c) \/ RejectExpired(c) \/ RejectUser(c)
                  /\ Live(call[c].token)
                  => call[c].pc = "user" /\ "db" \in Faults]_vars
<1>1. ASSUME IndInv, NEW c \in Calls, Live(call[c].token),
             SessionMissing(c) \/ RejectExpired(c) \/ RejectUser(c)
      PROVE  call[c].pc = "user" /\ "db" \in Faults
  <2>1. /\ call[c].pc \in {"find", "purge", "user"}
        /\ call[c].token \in Tokens /\ CallOK(call[c])
    BY <1>1, CallTypes
       DEF SessionMissing, RejectExpired, RejectUser, CallOK, Gated
  <2>2. sessions[call[c].token] # Absent
        /\ ~Expired(clock, sessions[call[c].token].expires)
    BY <1>1 DEF Live
  <2>3. ~SessionMissing(c) /\ ~RejectExpired(c)
    BY <2>1, <2>2 DEF SessionMissing, RejectExpired, CallOK
  <2>4. RejectUser(c)
    BY <1>1, <2>3
  <2>5. HasAccount(call[c].user)
    BY <1>1, <2>1, <2>2, <2>4 DEF RejectUser, CallOK, IndInv, TokenInv
  <2> QED
    BY <2>4, <2>5 DEF RejectUser, HasAccount, Fault
<1>2. IndInv =>
        [\A c \in Calls :
            /\ SessionMissing(c) \/ RejectExpired(c) \/ RejectUser(c)
            /\ Live(call[c].token)
            => call[c].pc = "user" /\ "db" \in Faults]_vars
  BY <1>1
<1> QED
  BY <1>2, IndAlways, PTL

(* As long as no statement fails, what RequireAuth's comments say is true:   *)
(* 401 is for a session that is really over.                                 *)
THEOREM RejectsOnlyDeadInPeace ==
    "db" \notin Faults => (Spec => RejectsOnlyDead)
<1> SUFFICES ASSUME "db" \notin Faults PROVE Spec => RejectsOnlyDead
  OBVIOUS
<1>1. [\A c \in Calls :
          /\ SessionMissing(c) \/ RejectExpired(c) \/ RejectUser(c)
          /\ Live(call[c].token)
          => call[c].pc = "user" /\ "db" \in Faults]_vars
      => [\A c \in Calls : SessionMissing(c) \/ RejectExpired(c) \/ RejectUser(c)
             => ~Live(call[c].token)]_vars
  OBVIOUS
<1> QED
  BY <1>1, OnlyOutagesReject, PTL DEF RejectsOnlyDead

=============================================================================
