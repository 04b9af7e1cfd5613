------------------------------ MODULE Startup ------------------------------
(***************************************************************************)
(* How a godocs process comes up: configuration, database, migrations,     *)
(* storage, listener; and what is left when it ends on the way.  Several   *)
(* processes may share the database file, as during a rolling restart, and *)
(* scripts may be added between two starts.                                *)
(*                                                                         *)
(* Scripts are numbered in the lexicographic order of their names.  SQLite *)
(* lets readers in while a transaction writes, and one writer at a time.   *)
(***************************************************************************)
EXTENDS Config

CONSTANTS
    Procs,      \* processes that share the database
    NumScripts, \* scripts ever written (bound)
    Stmts,      \* statements of a script
    Envs,       \* environments the deployment may have
    MaxEnds,    \* failed starts, crashes and restarts (bound)
    None        \* nobody

ASSUME StartupAssumption ==
    /\ NumScripts \in Nat /\ Stmts \in Nat \ {0} /\ MaxEnds \in Nat
    /\ None \notin Procs

\* What Atoi makes of the variables; the rate alone goes through ParseFloat.
ASSUME EnvsAssumption ==
    \A e \in Envs : \A k \in Fields \ {"rps"} : e[k] \in Int \cup {Unset}

Scripts == 1 .. NumScripts

VARIABLES
    env,        \* the environment of this deployment
    deployed,   \* migrations/*.sql of the next process to start
    pc,         \* where run() is, for each process
    files,      \* the scripts the process found
    at,         \* the script it is at
    applied,    \* names in schema_migrations
    effects,    \* how many statements of each script the database has seen
    writer,     \* the process whose transaction holds the write lock
    done,       \* statements executed in that transaction
    ends        \* how many processes have ended

database == <<applied, effects>>
tx == <<writer, done>>
bootVars == <<env, deployed, pc, files, at, applied, effects, writer, done,
              ends>>

\* Where the transaction is open, and where the process has the database.
TxPcs == {"exec", "record", "commit"}
BootPcs == TxPcs \cup {"load", "open", "table", "check", "begin", "store"}

BootInit ==
    /\ env \in Envs
    /\ deployed = {s \in Scripts : s = 1}
    /\ pc = [p \in Procs |-> "down"]
    /\ files = [p \in Procs |-> {}] /\ at = [p \in Procs |-> 0]
    /\ applied = {} /\ effects = [s \in Scripts |-> 0]
    /\ writer = None /\ done = 0
    /\ ends = 0

GoTo(p, where) == pc' = [pc EXCEPT ![p] = where]

\* A new release brings a script.
Deploy(s) ==
    /\ s \notin deployed
    /\ deployed' = deployed \cup {s}
    /\ UNCHANGED <<env, pc, files, at, database, tx, ends>>

-----------------------------------------------------------------------------
(* run(), up to the listener.                                                *)

Start(p) ==
    /\ pc[p] = "down"
    /\ GoTo(p, "load")
    /\ UNCHANGED <<env, deployed, files, at, database, tx, ends>>

\* A configuration that is not accepted ends the process.
LoadConfig(p) ==
    /\ pc[p] = "load"
    /\ GoTo(p, IF Accepted(Load(env)) THEN "open" ELSE "down")
    /\ UNCHANGED <<env, deployed, files, at, database, tx, ends>>

\* db.Open, and the list of scripts Migrate begins with.
Open(p) ==
    /\ pc[p] = "open"
    /\ files' = [files EXCEPT ![p] = deployed]
    /\ GoTo(p, IF deployed = {} THEN "down" ELSE "table")
    /\ UNCHANGED <<env, deployed, at, database, tx, ends>>

\* Mutant of Following: the list is not sorted.
AnyFollowing(p) ==
    LET rest == files[p] \ (applied \cup {at[p]})
    IN  IF rest = {} THEN 0
        ELSE CHOOSE s \in rest : \A t \in rest : t <= s

\* The next script in file order, or 0.
Following(p) ==
    LET rest == {s \in files[p] : s > at[p]}
    IN  IF rest = {} THEN 0
        ELSE CHOOSE s \in rest : \A t \in rest : s <= t

\* The loop goes to the next script, or is over.
NextScript(p) ==
    /\ at' = [at EXCEPT ![p] = Following(p)]
    /\ GoTo(p, IF Following(p) = 0 THEN "store" ELSE "check")

\* CREATE TABLE IF NOT EXISTS schema_migrations.
CreateTable(p) ==
    /\ pc[p] = "table" /\ writer = None
    /\ NextScript(p)
    /\ UNCHANGED <<env, deployed, files, database, tx, ends>>

\* Mutant of Skip: any answer is taken for a row.
SkipsOnError(p) ==
    /\ pc[p] = "check"
    /\ NextScript(p)
    /\ UNCHANGED <<env, deployed, files, database, tx, ends>>

\* The question is asked outside the transaction.
Skip(p) ==
    /\ pc[p] = "check" /\ at[p] \in applied
    /\ NextScript(p)
    /\ UNCHANGED <<env, deployed, files, database, tx, ends>>

Pending(p) ==
    /\ pc[p] = "check" /\ at[p] \notin applied
    /\ GoTo(p, "begin")
    /\ UNCHANGED <<env, deployed, files, at, database, tx, ends>>

\* The transaction takes the write lock at its first statement.
Begin(p) ==
    /\ pc[p] = "begin" /\ writer = None
    /\ writer' = p /\ done' = 1
    /\ GoTo(p, "exec")
    /\ UNCHANGED <<env, deployed, files, at, database, ends>>

Exec(p) ==
    /\ pc[p] = "exec"
    /\ IF done < Stmts THEN done' = done + 1 /\ GoTo(p, "exec")
                       ELSE done' = done /\ GoTo(p, "record")
    /\ UNCHANGED <<env, deployed, files, at, database, writer, ends>>

\* Mutant of Rollback: the transaction is left open.
RollbackForgotten(p) == UNCHANGED tx

\* The end of a process, the rollback of its transaction included.
Rollback(p) ==
    /\ writer' = IF writer = p THEN None ELSE writer
    /\ done' = IF writer = p THEN 0 ELSE done
Down(p) == GoTo(p, "down") /\ files' = [files EXCEPT ![p] = {}]
           /\ at' = [at EXCEPT ![p] = 0]

\* Mutant of Record: a name that is there already is replaced.
RecordAnyway(p) ==
    /\ pc[p] = "record"
    /\ GoTo(p, "commit")
    /\ UNCHANGED <<env, deployed, files, at, database, tx, ends>>

\* The bookkeeping row: its name is a primary key.
Record(p) ==
    /\ pc[p] = "record" /\ at[p] \notin applied
    /\ GoTo(p, "commit")
    /\ UNCHANGED <<env, deployed, files, at, database, tx, ends>>

RecordRefused(p) ==
    /\ pc[p] = "record" /\ at[p] \in applied
    /\ Rollback(p) /\ Down(p)
    /\ UNCHANGED <<env, deployed, database, ends>>

Committed(p) ==
    /\ applied' = applied \cup {at[p]}
    /\ effects' = [effects EXCEPT ![at[p]] = @ + done]
    /\ writer' = None /\ done' = 0

Commit(p) ==
    /\ pc[p] = "commit"
    /\ Committed(p)
    /\ NextScript(p)
    /\ UNCHANGED <<env, deployed, files, ends>>

\* The lock is not let go within busy_timeout.
Busy(p) ==
    /\ pc[p] \in {"table", "begin"} /\ writer # None
    /\ Down(p)
    /\ UNCHANGED <<env, deployed, database, tx, ends>>

\* storage.NewLocal, the wiring, the listener.
Listen(p) ==
    /\ pc[p] = "store"
    /\ GoTo(p, "serve")
    /\ UNCHANGED <<env, deployed, files, at, database, tx, ends>>

-----------------------------------------------------------------------------
(* The ways to end: an error, a signal whose context ends the statement, a   *)
(* kill.                                                                     *)

Ends(p) ==
    /\ pc[p] # "down" /\ ends < MaxEnds
    /\ ends' = ends + 1
    /\ Rollback(p) /\ Down(p)
    /\ UNCHANGED <<env, deployed, database>>

\* The commit takes effect but its answer is lost.
EndsCommitted(p) ==
    /\ pc[p] = "commit" /\ ends < MaxEnds
    /\ ends' = ends + 1
    /\ Committed(p) /\ Down(p)
    /\ UNCHANGED <<env, deployed>>

Migrate(p) ==
    CreateTable(p) \/ Skip(p) \/ Pending(p) \/ Begin(p) \/ Exec(p)
    \/ Record(p) \/ RecordRefused(p) \/ Commit(p)

\* What a process does by itself.
Proceed(p) == Start(p) \/ LoadConfig(p) \/ Open(p) \/ Migrate(p) \/ Listen(p)

\* What befalls it.
Others ==
    \/ \E s \in Scripts : Deploy(s)
    \/ \E p \in Procs : Busy(p) \/ EndsCommitted(p)

-----------------------------------------------------------------------------
(* Properties.                                                               *)

\* Every variable stays in its set; the lock is held where a transaction is.
BootTypeOK ==
    /\ env \in Envs /\ deployed \subseteq Scripts
    /\ pc \in [Procs -> BootPcs \cup {"down", "serve"}]
    /\ files \in [Procs -> SUBSET Scripts]
    /\ at \in [Procs -> Scripts \cup {0}]
    /\ applied \subseteq Scripts /\ effects \in [Scripts -> Nat]
    /\ writer \in Procs \cup {None} /\ done \in 0 .. Stmts
    /\ ends \in 0 .. MaxEnds
    /\ \A p \in Procs : /\ writer = p <=> pc[p] \in TxPcs
                        /\ pc[p] \in TxPcs \cup {"begin", "check"} =>
                              at[p] \in files[p]

\* Whatever two processes do at the same time and wherever one of them ends, a
\* script is in schema_migrations if and only if the database has seen each of
\* its statements, once (sqlite.go Migrate).
ExactlyOnce ==
    \A s \in Scripts : effects[s] = IF s \in applied THEN Stmts ELSE 0

\* A process applies its scripts in file order: none before an earlier one of
\* its list is in, by itself or by another process (sqlite.go Migrate).
InOrder ==
    [][\A p \in Procs : Commit(p) \/ EndsCommitted(p) =>
          \A s \in files[p] : s < at[p] => s \in applied]_bootVars

\* Who listens has a database that all its scripts have been applied to.
ServesMigrated ==
    \A p \in Procs : pc[p] \in {"store", "serve"} => files[p] \subseteq applied

\* A process that got past the configuration has a usable one.
RunsAsAsked ==
    LimitAsAsked(env)
    /\ \A p \in Procs : pc[p] \notin {"down", "load"} => Accepted(Load(env))

=============================================================================
