------------------------------ MODULE Sessions ------------------------------
(***************************************************************************)
(* Accounts and sessions of godocs: registration, login, logout, the       *)
(* session gate in front of the documents, and the hourly sweep, each      *)
(* request interleaved with the others at every database statement.        *)
(*                                                                         *)
(* The clock counts ticks, Second of them to a second: the service         *)
(* compares instants, the table stores whole seconds.  A password is right *)
(* or wrong; requests rejected before any statement runs have no action.   *)
(***************************************************************************)
EXTENDS Integers, FiniteSets

CONSTANTS
    Emails,     \* normalised addresses
    Tokens,     \* session tokens
    Users,      \* user ids
    Calls,      \* requests in flight at the same time
    Second,     \* ticks in a second
    TTL,        \* life of a session, in ticks
    MaxClock,   \* where the clock stops (bound)
    Faults,     \* "db": a statement may fail; "crash": the process may end
    Absent      \* no row, no token

ASSUME ClockAssumption == Second \in Nat \ {0} /\ TTL \in Nat /\ MaxClock \in Nat
ASSUME FaultsAssumption == Faults \subseteq {"db", "crash"}

Session == [user : Users, expires : Nat]
ASSUME AbsentAssumption == Absent \notin Session \cup Users \cup Tokens

VARIABLES
    clock,      \* time.Now, in ticks
    accounts,   \* the users table: rows of id and email
    sessions,   \* the sessions table, by token
    owner,      \* history: for whom each token was made
    call        \* the requests

vars == <<clock, accounts, sessions, owner, call>>

\* A request: where it is, the user or token it works on, the expiry it read,
\* and (history) whether the request came while its session was good.
Pcs == {"idle", "login", "find", "check", "purge", "user", "logout"}
Blank == [pc |-> "idle", user |-> Absent, token |-> Absent, expires |-> 0,
          good |-> FALSE]
CallState ==
    [pc : Pcs, user : Users \cup {Absent}, token : Tokens \cup {Absent},
     expires : Nat, good : BOOLEAN]

Init ==
    /\ clock = 0
    /\ accounts = {}
    /\ sessions = [t \in Tokens |-> Absent]
    /\ owner = [t \in Tokens |-> Absent]
    /\ call = [c \in Calls |-> Blank]

-----------------------------------------------------------------------------
(* Instants and stored seconds.                                              *)

\* time.Time.Unix: the fraction of the second is cut off.
Unix(t) == t \div Second

\* time.Now().After(ExpiresAt), the latter read back from whole seconds.
Expired(now, expires) == now > expires * Second

\* Mutant of Purged: <= for <.
PurgedEarly(now, expires) == expires <= Unix(now)

\* DELETE FROM sessions WHERE expires_at < now.Unix().
Purged(now, expires) == expires < Unix(now)

Live(t) == sessions[t] # Absent /\ ~Expired(clock, sessions[t].expires)

Fault(kind) == kind \in Faults
Go(c, next) == call' = [call EXCEPT ![c] = next]
Leave(c) == Go(c, Blank)

-----------------------------------------------------------------------------
(* Register and Login.                                                       *)

\* Mutant of EmailFree: the email column is not UNIQUE.
NoUniqueColumn(e) == TRUE

\* CreateUser: one INSERT; the UNIQUE column refuses a second account.
EmailFree(e) == \A a \in accounts : a.email # e
CreateUser(e, u) ==
    /\ EmailFree(e) /\ \A a \in accounts : a.id # u
    /\ accounts' = accounts \cup {[id |-> u, email |-> e]}
    /\ UNCHANGED <<clock, sessions, owner, call>>

\* Mutant of FindUser: the session is made without the user's id.
FindUserNoId(c, e) ==
    /\ call[c].pc = "idle"
    /\ \E a \in accounts : a.email = e /\ Go(c, [Blank EXCEPT !.pc = "login"])
    /\ UNCHANGED <<clock, accounts, sessions, owner>>

\* FindUserByEmail, then the password matches.
FindUser(c, e) ==
    /\ call[c].pc = "idle"
    /\ \E a \in accounts :
          a.email = e /\ Go(c, [Blank EXCEPT !.pc = "login", !.user = a.id])
    /\ UNCHANGED <<clock, accounts, sessions, owner>>

\* A fresh token, now + TTL cut to the second, and the cookie in the answer.
CreateSession(c) ==
    /\ call[c].pc = "login"
    /\ \E t \in Tokens :
          /\ owner[t] = Absent
          /\ owner' = [owner EXCEPT ![t] = call[c].user]
          /\ sessions' = [sessions EXCEPT ![t] =
                [user |-> call[c].user, expires |-> Unix(clock + TTL)]]
    /\ Leave(c)
    /\ UNCHANGED <<clock, accounts>>

LoginFails(c) ==
    /\ call[c].pc = "login" /\ Fault("db")
    /\ Leave(c)
    /\ UNCHANGED <<clock, accounts, sessions, owner>>

-----------------------------------------------------------------------------
(* RequireAuth and Authenticate.                                             *)

\* A request that shows a token somebody was given.
BeginAuth(c, t) ==
    /\ call[c].pc = "idle" /\ owner[t] # Absent
    /\ Go(c, [Blank EXCEPT !.pc = "find", !.token = t, !.good = Live(t)])
    /\ UNCHANGED <<clock, accounts, sessions, owner>>

FoundSession(c) ==
    /\ call[c].pc = "find" /\ sessions[call[c].token] # Absent
    /\ Go(c, [call[c] EXCEPT !.pc = "check",
                             !.user = sessions[call[c].token].user,
                             !.expires = sessions[call[c].token].expires])
    /\ UNCHANGED <<clock, accounts, sessions, owner>>

\* 401, and the cookie is cleared.
Reject(c) == Leave(c) /\ UNCHANGED <<clock, accounts, sessions, owner>>

\* 500, and the cookie is left alone.
Break(c) == Leave(c) /\ UNCHANGED <<clock, accounts, sessions, owner>>

SessionMissing(c) ==
    /\ call[c].pc = "find" /\ sessions[call[c].token] = Absent
    /\ Reject(c)

FindSessionFails(c) ==
    /\ call[c].pc = "find" /\ Fault("db")
    /\ Break(c)

\* Mutant of CheckExpiry: no check.
ExpiryUnchecked(c) ==
    /\ call[c].pc = "check"
    /\ Go(c, [call[c] EXCEPT !.pc = "user"])
    /\ UNCHANGED <<clock, accounts, sessions, owner>>

CheckExpiry(c) ==
    /\ call[c].pc = "check"
    /\ Go(c, [call[c] EXCEPT !.pc =
                 IF Expired(clock, call[c].expires) THEN "purge" ELSE "user"])
    /\ UNCHANGED <<clock, accounts, sessions, owner>>

DropSession(t) == sessions' = [sessions EXCEPT ![t] = Absent]

\* The expired row is deleted if the statement works; 401 either way.
RejectExpired(c) ==
    /\ call[c].pc = "purge"
    /\ DropSession(call[c].token) \/ (Fault("db") /\ UNCHANGED sessions)
    /\ Leave(c)
    /\ UNCHANGED <<clock, accounts, owner>>

\* FindUserByID found the account: the protected handler runs.
Admit(c) ==
    /\ call[c].pc = "user"
    /\ \E a \in accounts : a.id = call[c].user
    /\ Leave(c)
    /\ UNCHANGED <<clock, accounts, sessions, owner>>

\* Any error of FindUserByID is taken for a missing session.
RejectUser(c) ==
    /\ call[c].pc = "user"
    /\ (\A a \in accounts : a.id # call[c].user) \/ Fault("db")
    /\ Reject(c)

Authenticate(c) ==
    \/ \E t \in Tokens : BeginAuth(c, t)
    \/ FoundSession(c) \/ SessionMissing(c) \/ FindSessionFails(c)
    \/ CheckExpiry(c) \/ RejectExpired(c) \/ Admit(c) \/ RejectUser(c)

-----------------------------------------------------------------------------
(* Logout, the sweep, time and restarts.                                     *)

BeginLogout(c, t) ==
    /\ call[c].pc = "idle" /\ owner[t] # Absent
    /\ Go(c, [Blank EXCEPT !.pc = "logout", !.token = t])
    /\ UNCHANGED <<clock, accounts, sessions, owner>>

\* The handler answers 204 and clears the cookie whatever DeleteSession said.
Logout(c) ==
    /\ call[c].pc = "logout"
    /\ DropSession(call[c].token) \/ (Fault("db") /\ UNCHANGED sessions)
    /\ Leave(c)
    /\ UNCHANGED <<clock, accounts, owner>>

\* Mutant of Sweep: the comparison is the wrong way round.
SweepFlipped ==
    /\ sessions' = [t \in Tokens |->
          IF sessions[t] # Absent /\ sessions[t].expires > Unix(clock)
          THEN Absent ELSE sessions[t]]
    /\ UNCHANGED <<clock, accounts, owner, call>>

\* PurgeExpired: the sweep's statement, with the time it was given.
Sweep ==
    /\ sessions' = [t \in Tokens |->
          IF sessions[t] # Absent /\ Purged(clock, sessions[t].expires)
          THEN Absent ELSE sessions[t]]
    /\ UNCHANGED <<clock, accounts, owner, call>>

Tick ==
    /\ clock < MaxClock /\ clock' = clock + 1
    /\ UNCHANGED <<accounts, sessions, owner, call>>

\* The tables outlive the process, the requests do not.
Restart ==
    /\ Fault("crash")
    /\ call' = [c \in Calls |-> Blank]
    /\ UNCHANGED <<clock, accounts, sessions, owner>>

Request(c) ==
    \/ \E e \in Emails : FindUser(c, e)
    \/ CreateSession(c) \/ LoginFails(c)
    \/ Authenticate(c)
    \/ \E t \in Tokens : BeginLogout(c, t)
    \/ Logout(c)

Next ==
    \/ \E e \in Emails, u \in Users : CreateUser(e, u)
    \/ \E c \in Calls : Request(c)
    \/ Sweep \/ Tick \/ Restart

Spec == Init /\ [][Next]_vars

\* The sweep's ticker fires every hour as long as the process runs.
FairSpec == Spec /\ WF_vars(Sweep)

-----------------------------------------------------------------------------
(* Properties.                                                               *)

\* Every variable stays in its set.
TypeOK ==
    /\ clock \in 0 .. MaxClock
    /\ accounts \subseteq [id : Users, email : Emails]
    /\ sessions \in [Tokens -> Session \cup {Absent}]
    /\ owner \in [Tokens -> Users \cup {Absent}]
    /\ call \in [Calls -> CallState]

\* Two registrations of one address, however they overlap, make one account;
\* and each live token belongs to an account that exists.
OneAccount ==
    /\ \A a, b \in accounts : a.email = b.email \/ a.id = b.id => a = b
    /\ \A t \in Tokens : sessions[t] # Absent =>
          \E a \in accounts : a.id = owner[t] /\ a.id = sessions[t].user

\* The gate admits nobody whose session was over when the request came, be it
\* logged out, swept or expired, and lets no one in as somebody else.
AdmitsOnlyLive ==
    [][\A c \in Calls : Admit(c) =>
          call[c].good /\ call[c].user = owner[call[c].token]]_vars

\* A session ends by its own logout or because its time is over: neither the
\* sweep nor the gate's clean-up removes one the gate would still accept,
\* although they compare cut seconds with instants.
EndsForAReason ==
    [][\A t \in Tokens : sessions[t] # Absent /\ sessions'[t] # sessions[t] =>
          \/ Expired(clock, sessions[t].expires)
          \/ \E c \in Calls : call[c].pc = "logout" /\ call[c].token = t
                              /\ call'[c].pc = "idle"]_vars

\* What RequireAuth's comments say: 401 is for a session that is really bad; a
\* failing database is not a reason to log anyone out.
RejectsOnlyDead ==
    [][\A c \in Calls : SessionMissing(c) \/ RejectExpired(c) \/ RejectUser(c)
          => ~Live(call[c].token)]_vars

\* A session whose last second is over is removed in the end, also when its
\* owner never comes back.
ExpiredIsSwept ==
    \A t \in Tokens :
        sessions[t] # Absent /\ Purged(clock, sessions[t].expires)
            ~> sessions[t] = Absent

=============================================================================
