---------------------------- MODULE ServerProofs ----------------------------
(* The process from its start to its answers.  Migrations are applied        *)
(* exactly once, in order and before anything is served, for every number of *)
(* processes that share the database, every list of scripts and wherever     *)
(* processes end: the invariant says what the open transaction has executed  *)
(* and how far each process's loop has come.  What is accepted as a          *)
(* configuration is what was asked for, whatever the width of an int.  And a *)
(* request gets past the gates of its route and back with an answer and its  *)
(* line in the log: the invariant says what lies behind it at each layer.    *)
EXTENDS Server, WellFoundedInduction, FiniteSetTheorems, SequenceTheorems,
        TLAPS

LoopPcs == TxPcs \cup {"check", "begin"}

(* The transaction: who has it, what it has executed.                        *)
TxInv ==
    \A p \in Procs :
        /\ writer = p <=> pc[p] \in TxPcs
        /\ pc[p] = "exec" => done \in 1 .. Stmts
        /\ pc[p] \in {"record", "commit"} => done = Stmts
        /\ pc[p] = "commit" => at[p] \notin applied

(* The loop: what lies behind a process is applied.                          *)
LoopInv ==
    \A p \in Procs :
        /\ pc[p] \in {"down", "load", "open", "table"} => at[p] = 0
        /\ pc[p] \in LoopPcs => at[p] \in files[p]
        /\ pc[p] \in LoopPcs => \A s \in files[p] : s < at[p] => s \in applied
        /\ pc[p] \in {"store", "serve"} => files[p] \subseteq applied

Types ==
    /\ pc \in [Procs -> BootPcs \cup {"down", "serve"}]
    /\ files \in [Procs -> SUBSET Scripts] /\ deployed \subseteq Scripts
    /\ at \in [Procs -> Scripts \cup {0}]
    /\ applied \subseteq Scripts /\ effects \in [Scripts -> Nat]
    /\ writer \in Procs \cup {None} /\ done \in 0 .. Stmts

BootInv == Types /\ TxInv /\ LoopInv /\ ExactlyOnce

LEMMA BootInvInit == Init => BootInv
<1> SUFFICES ASSUME Init PROVE BootInv
  OBVIOUS
<1> USE StartupAssumption DEF Init, BootInit
<1>1. Types
  BY DEF Types, Scripts
<1>2. TxInv
  BY DEF TxInv, TxPcs
<1>3. LoopInv
  BY DEF LoopInv, LoopPcs, TxPcs
<1>4. ExactlyOnce
  BY DEF ExactlyOnce
<1> QED
  BY <1>1, <1>2, <1>3, <1>4 DEF BootInv

LEMMA ScriptFacts == \A s \in Scripts : s \in Nat /\ s # 0
  BY StartupAssumption DEF Scripts

(* A non-empty set of scripts has a first one: what Following chooses.       *)
LEMMA FirstScript ==
    ASSUME NEW S \in SUBSET Scripts, S # {}
    PROVE  LET f == CHOOSE s \in S : \A t \in S : s <= t
           IN  f \in S /\ \A t \in S : f <= t
<1>1. S \subseteq Nat
  BY StartupAssumption DEF Scripts
<1> DEFINE R == OpToRel(<, Nat)
<1>2. \E s \in S : \A t \in S : ~(<<t, s>> \in R)
  <2> HIDE DEF R
  <2>1. IsWellFoundedOn(R, Nat)
    BY NatLessThanWellFounded DEF R
  <2> QED
    BY <1>1, <2>1, WFMin
<1>3. \A s, t \in S : t < s => <<t, s>> \in R
  BY <1>1 DEF OpToRel
<1> HIDE DEF R
<1>4. PICK m \in S : \A t \in S : ~(<<t, m>> \in R)
  BY <1>2
<1>5. ASSUME NEW t \in S PROVE m <= t
  <2>1. ~(t < m)
    BY <1>3, <1>4
  <2>2. t \in Nat /\ m \in Nat
    BY <1>1
  <2> QED
    BY <2>1, <2>2
<1> QED
  BY <1>5

(* The loop goes on: everything before the next script is applied, and when  *)
(* there is none, everything.                                                *)
LEMMA NextScriptFacts ==
    ASSUME Types, NEW p \in Procs, NextScript(p),
           NEW A \in SUBSET Scripts,
           \A s \in files[p] : s <= at[p] => s \in A
    PROVE  /\ at' \in [Procs -> Scripts \cup {0}]
           /\ pc' \in [Procs -> BootPcs \cup {"down", "serve"}]
           /\ \A q \in Procs \ {p} : pc'[q] = pc[q] /\ at'[q] = at[q]
           /\ pc'[p] \in {"store", "check"}
           /\ pc'[p] = "check" =>
                at'[p] \in files[p] /\ \A s \in files[p] : s < at'[p] => s \in A
           /\ pc'[p] = "store" => files[p] \subseteq A
<1> DEFINE rest == {s \in files[p] : s > at[p]}
<1>1. files[p] \subseteq Scripts /\ rest \in SUBSET Scripts
      /\ at[p] \in Scripts \cup {0} /\ Scripts \subseteq Nat
  BY StartupAssumption DEF Types, Scripts
<1>n. at[p] \in Nat /\ \A s \in files[p] : s \in Nat
  <2>1. at[p] \in Scripts \/ at[p] = 0
    BY <1>1
  <2>2. \A s \in files[p] : s \in Scripts
    BY <1>1
  <2> QED
    BY <2>1, <2>2, ScriptFacts
<1>2. rest = {} => Following(p) = 0
  BY DEF Following
<1>3. rest # {} => /\ Following(p) \in rest
                   /\ \A t \in rest : Following(p) <= t
  BY <1>1, FirstScript DEF Following
<1>4. at'[p] = Following(p)
      /\ pc'[p] = (IF Following(p) = 0 THEN "store" ELSE "check")
      /\ \A q \in Procs \ {p} : pc'[q] = pc[q] /\ at'[q] = at[q]
  BY DEF NextScript, GoTo, Types
<1>5. 0 \notin Scripts
  BY DEF Scripts
<1>6. Following(p) \in Scripts \cup {0}
  BY <1>1, <1>2, <1>3
<1>7. at' \in [Procs -> Scripts \cup {0}]
  BY <1>6 DEF NextScript, Types
<1>8. pc' \in [Procs -> BootPcs \cup {"down", "serve"}]
  BY DEF NextScript, GoTo, Types, BootPcs
<1>9. CASE rest = {}
  <2>1. at[p] \in Nat /\ \A s \in files[p] : s \in Nat
    BY <1>n
  <2>2. \A s \in files[p] : s <= at[p]
    BY <1>9, <2>1
  <2> QED
    BY <1>2, <1>4, <1>7, <1>8, <1>9, <2>2
<1>10. CASE rest # {}
  <2>1. Following(p) \in files[p] /\ Following(p) # 0
    BY <1>1, <1>3, <1>5, <1>10
  <2>2. ASSUME NEW s \in files[p], s < Following(p) PROVE s <= at[p]
    <3>1. s \in Nat /\ at[p] \in Nat /\ Following(p) \in Nat
      BY <1>n, <1>3, <1>10
    <3>2. s \notin rest
      BY <1>3, <1>10, <2>2, <3>1
    <3> QED
      BY <3>1, <3>2
  <2> QED
    BY <1>4, <1>7, <1>8, <2>1, <2>2
<1> QED
  BY <1>9, <1>10

(* A step of one process that only moves it outside of a transaction.        *)
LEMMA MoveKeeps ==
    ASSUME BootInv, NEW p \in Procs,
           NEW where \in {"down", "load", "open", "table", "begin", "serve"},
           GoTo(p, where), pc[p] \notin TxPcs,
           files' \in [Procs -> SUBSET Scripts],
           at' \in [Procs -> Scripts \cup {0}],
           \A q \in Procs \ {p} : files'[q] = files[q] /\ at'[q] = at[q],
           where \in {"down", "load", "open", "table"} => at'[p] = 0,
           where \in {"begin", "serve"} => files'[p] = files[p] /\ at'[p] = at[p],
           where = "begin" => pc[p] = "check",
           where = "serve" => pc[p] = "store",
           deployed' \subseteq Scripts,
           UNCHANGED <<applied, effects, writer, done>>
    PROVE  BootInv'
<1> USE DEF GoTo
<1>1. pc'[p] = where /\ \A q \in Procs \ {p} : pc'[q] = pc[q]
  BY DEF BootInv, Types
<1>2. Types'
  BY DEF BootInv, Types, BootPcs
<1>3. TxInv'
  BY <1>1 DEF BootInv, TxInv, TxPcs
<1>4. LoopInv'
  BY <1>1 DEF BootInv, LoopInv, LoopPcs, TxPcs
<1>5. ExactlyOnce'
  BY DEF BootInv, ExactlyOnce
<1> QED
  BY <1>2, <1>3, <1>4, <1>5 DEF BootInv

(* A step that ends a process, its transaction rolled back.                  *)
LEMMA EndKeeps ==
    ASSUME BootInv, NEW p \in Procs, Rollback(p), Down(p),
           UNCHANGED <<deployed, applied, effects>>
    PROVE  BootInv'
<1> USE StartupAssumption DEF Rollback, Down, GoTo
<1>1. pc'[p] = "down" /\ at'[p] = 0 /\ \A q \in Procs \ {p} :
          pc'[q] = pc[q] /\ files'[q] = files[q] /\ at'[q] = at[q]
  BY DEF BootInv, Types
<1>2. Types'
  BY DEF BootInv, Types, BootPcs
<1>3. TxInv'
  <2>1. \A q \in Procs : pc[q] \in TxPcs => writer = q
    BY DEF BootInv, TxInv
  <2> QED
    BY <1>1, <2>1 DEF BootInv, TxInv, TxPcs
<1>4. LoopInv'
  BY <1>1 DEF BootInv, LoopInv, LoopPcs, TxPcs
<1>5. ExactlyOnce'
  BY DEF BootInv, ExactlyOnce
<1> QED
  BY <1>2, <1>3, <1>4, <1>5 DEF BootInv

(* A commit, whether the process learns of it or not.                        *)
LEMMA CommitKeeps ==
    ASSUME BootInv, NEW p \in Procs, pc[p] = "commit", Committed(p)
    PROVE  /\ applied' \subseteq Scripts /\ effects' \in [Scripts -> Nat]
           /\ writer' \in Procs \cup {None} /\ done' \in 0 .. Stmts
           /\ \A q \in Procs \ {p} : pc[q] \notin TxPcs
           /\ at[p] \in applied' /\ applied \subseteq applied'
           /\ ExactlyOnce'
<1> USE StartupAssumption DEF Committed
<1>1. writer = p /\ done = Stmts /\ at[p] \notin applied
  BY DEF BootInv, TxInv, TxPcs
<1>2. at[p] \in Scripts
  BY DEF BootInv, Types, LoopInv, LoopPcs, TxPcs
<1>3. effects[at[p]] = 0
  BY <1>1, <1>2 DEF BootInv, ExactlyOnce
<1>4. \A q \in Procs \ {p} : pc[q] \notin TxPcs
  BY <1>1 DEF BootInv, TxInv
<1>5. effects' = [effects EXCEPT ![at[p]] = Stmts]
  BY <1>1, <1>2, <1>3 DEF BootInv, Types
<1>6. ExactlyOnce'
  BY <1>2, <1>5 DEF BootInv, Types, ExactlyOnce
<1> QED
  BY <1>1, <1>2, <1>4, <1>5, <1>6 DEF BootInv, Types

(* The loop moves on, after a commit or past a script that is applied.       *)
LEMMA LoopKeeps ==
    ASSUME BootInv, NEW p \in Procs, NextScript(p),
           applied' \subseteq Scripts, applied \subseteq applied',
           \A s \in files[p] : s <= at[p] => s \in applied',
           \A q \in Procs \ {p} : pc[q] # "commit" \/ applied' = applied,
           files' = files
    PROVE  /\ pc' \in [Procs -> BootPcs \cup {"down", "serve"}]
           /\ at' \in [Procs -> Scripts \cup {0}]
           /\ pc'[p] \in {"store", "check"}
           /\ \A q \in Procs \ {p} : pc'[q] = pc[q] /\ at'[q] = at[q]
           /\ LoopInv'
<1>1. Types
  BY DEF BootInv
<1>2. /\ at' \in [Procs -> Scripts \cup {0}]
      /\ pc' \in [Procs -> BootPcs \cup {"down", "serve"}]
      /\ \A q \in Procs \ {p} : pc'[q] = pc[q] /\ at'[q] = at[q]
      /\ pc'[p] \in {"store", "check"}
      /\ pc'[p] = "check" => /\ at'[p] \in files[p]
                             /\ \A s \in files[p] : s < at'[p] => s \in applied'
      /\ pc'[p] = "store" => files[p] \subseteq applied'
  BY <1>1, NextScriptFacts
<1>3. LoopInv'
  BY <1>2 DEF BootInv, LoopInv, LoopPcs, TxPcs
<1> QED
  BY <1>2, <1>3

(* One step of a process on its way up.                                      *)
LEMMA ProceedKeeps ==
    ASSUME BootInv, NEW p \in Procs, Proceed(p) PROVE BootInv'
<1> USE StartupAssumption
<1>0. /\ files \in [Procs -> SUBSET Scripts] /\ deployed \subseteq Scripts
      /\ at \in [Procs -> Scripts \cup {0}]
      /\ pc \in [Procs -> BootPcs \cup {"down", "serve"}]
  BY DEF BootInv, Types
<1>f. pc[p] \in {"down", "load", "open"} => at[p] = 0
  BY DEF BootInv, LoopInv
<1>1. CASE Start(p)
  BY <1>0, <1>f, <1>1, MoveKeeps DEF Start, database, tx, TxPcs
<1>2. CASE LoadConfig(p)
  <2>1. CASE Accepted(Load(env))
    BY <1>0, <1>f, <1>2, <2>1, MoveKeeps DEF LoadConfig, database, tx, TxPcs
  <2>2. CASE ~Accepted(Load(env))
    BY <1>0, <1>f, <1>2, <2>2, MoveKeeps DEF LoadConfig, database, tx, TxPcs
  <2> QED
    BY <2>1, <2>2
<1>3. CASE Open(p)
  <2>1. files' \in [Procs -> SUBSET Scripts]
        /\ \A q \in Procs \ {p} : files'[q] = files[q]
    BY <1>0, <1>3 DEF Open
  <2>2. at' = at /\ pc[p] = "open"
        /\ UNCHANGED <<deployed, applied, effects, writer, done>>
        /\ pc' = [pc EXCEPT ![p] = IF deployed = {} THEN "down" ELSE "table"]
    BY <1>3 DEF Open, database, tx, GoTo
  <2>3. at[p] = 0
    BY <2>2 DEF BootInv, LoopInv
  <2> QED
    BY <1>0, <2>1, <2>2, <2>3, MoveKeeps DEF TxPcs, GoTo
<1>4. CASE CreateTable(p) \/ Skip(p)
  <2>1. /\ NextScript(p) /\ pc[p] \in {"table", "check"}
        /\ UNCHANGED <<deployed, files, applied, effects, writer, done>>
    BY <1>4 DEF CreateTable, Skip, database, tx
  <2>2. \A s \in files[p] : s <= at[p] => s \in applied
    <3>1. at[p] \in Nat /\ \A s \in files[p] : s \in Nat /\ s # 0
      BY <1>0, ScriptFacts
    <3>2. CASE CreateTable(p)
      BY <3>1, <3>2 DEF CreateTable, BootInv, LoopInv
    <3>3. CASE Skip(p)
      <4>1. /\ at[p] \in applied
            /\ \A s \in files[p] : s < at[p] => s \in applied
        BY <3>3 DEF Skip, BootInv, LoopInv, LoopPcs
      <4>2. \A s \in files[p] : s <= at[p] => s < at[p] \/ s = at[p]
        BY <3>1
      <4> QED
        BY <4>1, <4>2
    <3> QED
      BY <1>4, <3>2, <3>3
  <2>3. /\ pc' \in [Procs -> BootPcs \cup {"down", "serve"}]
        /\ at' \in [Procs -> Scripts \cup {0}]
        /\ pc'[p] \in {"store", "check"}
        /\ \A q \in Procs \ {p} : pc'[q] = pc[q] /\ at'[q] = at[q]
        /\ LoopInv'
    BY <2>1, <2>2, LoopKeeps DEF BootInv, Types
  <2>4. TxInv'
    BY <2>1, <2>3 DEF BootInv, TxInv, TxPcs
  <2> QED
    BY <2>1, <2>3, <2>4 DEF BootInv, Types, ExactlyOnce
<1>5. CASE Pending(p)
  BY <1>0, <1>5, MoveKeeps DEF Pending, database, tx, TxPcs
<1>6. CASE Begin(p)
  <2>1. /\ pc[p] = "begin" /\ pc' = [pc EXCEPT ![p] = "exec"]
        /\ writer = None /\ writer' = p /\ done' = 1
        /\ UNCHANGED <<deployed, files, at, applied, effects>>
    BY <1>6 DEF Begin, database, GoTo
  <2>2. \A q \in Procs : pc[q] \notin TxPcs
    BY <2>1 DEF BootInv, TxInv
  <2>3. TxInv'
    BY <1>0, <2>1, <2>2 DEF TxInv, TxPcs
  <2>4. LoopInv'
    BY <1>0, <2>1 DEF BootInv, LoopInv, LoopPcs, TxPcs
  <2>5. Types'
    BY <2>1 DEF BootInv, Types, BootPcs, TxPcs
  <2> QED
    BY <2>1, <2>3, <2>4, <2>5 DEF BootInv, ExactlyOnce
<1>7. CASE Exec(p) \/ Record(p)
  <2>1. /\ pc[p] \in {"exec", "record"}
        /\ UNCHANGED <<deployed, files, at, applied, effects, writer>>
        /\ \A q \in Procs \ {p} : pc'[q] = pc[q]
        /\ \/ pc'[p] = "exec" /\ done' \in 1 .. Stmts
           \/ pc'[p] = "record" /\ done' = Stmts
           \/ pc'[p] = "commit" /\ done' = Stmts /\ at[p] \notin applied
        /\ pc' \in [Procs -> BootPcs \cup {"down", "serve"}]
    BY <1>0, <1>7
    DEF Exec, Record, GoTo, database, tx, BootInv, TxInv, BootPcs, TxPcs
  <2>2. \A q \in Procs \ {p} : pc[q] \notin TxPcs
    BY <2>1 DEF BootInv, TxInv, TxPcs
  <2>3. TxInv'
    BY <2>1, <2>2 DEF BootInv, TxInv, TxPcs
  <2>4. LoopInv'
    BY <2>1 DEF BootInv, LoopInv, LoopPcs, TxPcs
  <2>5. Types'
    BY <2>1 DEF BootInv, Types
  <2> QED
    BY <2>1, <2>3, <2>4, <2>5 DEF BootInv, ExactlyOnce
<1>8. CASE RecordRefused(p)
  BY <1>8, EndKeeps DEF RecordRefused, database
<1>9. CASE Commit(p)
  <2>1. /\ pc[p] = "commit" /\ Committed(p) /\ NextScript(p)
        /\ UNCHANGED <<deployed, files>>
    BY <1>9 DEF Commit
  <2>2. /\ applied' \subseteq Scripts /\ effects' \in [Scripts -> Nat]
        /\ writer' \in Procs \cup {None} /\ done' \in 0 .. Stmts
        /\ \A q \in Procs \ {p} : pc[q] \notin TxPcs
        /\ at[p] \in applied' /\ applied \subseteq applied'
        /\ ExactlyOnce'
    BY <2>1, CommitKeeps
  <2>3. \A s \in files[p] : s <= at[p] => s \in applied'
    <3>1. at[p] \in Nat /\ \A s \in files[p] : s \in Nat
      BY <1>0, ScriptFacts
    <3>2. \A s \in files[p] : s < at[p] => s \in applied
      BY <2>1 DEF BootInv, LoopInv, LoopPcs, TxPcs
    <3>3. \A s \in files[p] : s <= at[p] => s < at[p] \/ s = at[p]
      BY <3>1
    <3> QED
      BY <2>2, <3>2, <3>3
  <2>4. /\ pc' \in [Procs -> BootPcs \cup {"down", "serve"}]
        /\ at' \in [Procs -> Scripts \cup {0}]
        /\ pc'[p] \in {"store", "check"}
        /\ \A q \in Procs \ {p} : pc'[q] = pc[q] /\ at'[q] = at[q]
        /\ LoopInv'
    BY <2>1, <2>2, <2>3, LoopKeeps DEF TxPcs
  <2>5. writer' = None
    BY <2>1 DEF Committed
  <2>6. TxInv'
    BY <2>2, <2>4, <2>5 DEF TxInv, TxPcs
  <2>7. Types'
    BY <2>1, <2>2, <2>4 DEF BootInv, Types
  <2> QED
    BY <2>2, <2>4, <2>6, <2>7 DEF BootInv
<1>10. CASE Listen(p)
  BY <1>0, <1>10, MoveKeeps DEF Listen, database, tx, TxPcs
<1> QED
  BY <1>1, <1>2, <1>3, <1>4, <1>5, <1>6, <1>7, <1>8, <1>9, <1>10
  DEF Proceed, Migrate

(* One step of the server: a request changes none of this.                   *)
LEMMA BootInvStep == ASSUME BootInv, [Next]_vars PROVE BootInv'
<1> USE StartupAssumption
<1>1. ASSUME NEW p \in Procs, Rises(p) PROVE BootInv'
  BY <1>1, ProceedKeeps DEF Rises
<1>2. ASSUME NEW p \in Procs, EndsServing(p) PROVE BootInv'
  BY <1>2, EndKeeps DEF EndsServing, Ends, database
<1>3. ASSUME NEW p \in Procs, Busy(p) PROVE BootInv'
  <2>1. writer # p
    BY <1>3 DEF Busy, BootInv, TxInv, TxPcs
  <2>2. Rollback(p)
    BY <1>3, <2>1 DEF Busy, tx, Rollback
  <2> QED
    BY <1>3, <2>2, EndKeeps DEF Busy, database
<1>4. ASSUME NEW p \in Procs, EndsCommitted(p) PROVE BootInv'
  <2>1. pc[p] = "commit" /\ Committed(p) /\ Down(p) /\ deployed' = deployed
    BY <1>4 DEF EndsCommitted
  <2>2. /\ applied' \subseteq Scripts /\ effects' \in [Scripts -> Nat]
        /\ writer' \in Procs \cup {None} /\ done' \in 0 .. Stmts
        /\ \A q \in Procs \ {p} : pc[q] \notin TxPcs
        /\ at[p] \in applied' /\ applied \subseteq applied'
        /\ ExactlyOnce'
    BY <2>1, CommitKeeps
  <2>3. pc'[p] = "down" /\ at'[p] = 0 /\ \A q \in Procs \ {p} :
            pc'[q] = pc[q] /\ files'[q] = files[q] /\ at'[q] = at[q]
    BY <2>1 DEF Down, GoTo, BootInv, Types
  <2>4. writer' = None
    BY <2>1 DEF Committed
  <2>5. TxInv'
    BY <2>2, <2>3, <2>4 DEF TxInv, TxPcs
  <2>6. LoopInv'
    BY <2>2, <2>3 DEF BootInv, LoopInv, LoopPcs, TxPcs
  <2>7. Types'
    BY <2>1, <2>2 DEF BootInv, Types, Down, GoTo, BootPcs
  <2> QED
    BY <2>2, <2>5, <2>6, <2>7 DEF BootInv
<1>5. ASSUME NEW s \in Scripts, Deploy(s) PROVE BootInv'
  <2>1. deployed' \subseteq Scripts
        /\ UNCHANGED <<pc, files, at, applied, effects, writer, done>>
    BY <1>5 DEF Deploy, database, tx, BootInv, Types
  <2> QED
    BY <2>1 DEF BootInv, Types, TxInv, LoopInv, ExactlyOnce
<1>6. CASE Serve \/ UNCHANGED vars
  <2>1. UNCHANGED <<deployed, pc, files, at, applied, effects, writer, done>>
    BY <1>6
    DEF Serve, Arrive, CORS, PassIn, RequireAuth, Admit, TooMany, Refill,
        HandlerWrites, HandlerReturns, HandlerPanics, Log, Recover, PassOut,
        vars, bootVars, database, tx
  <2> QED
    BY <2>1 DEF BootInv, Types, TxInv, LoopInv, ExactlyOnce
<1> QED
  BY <1>1, <1>2, <1>3, <1>4, <1>5, <1>6 DEF Next, Others

LEMMA BootInvAlways == Spec => []BootInv
  BY BootInvInit, BootInvStep, PTL DEF Spec

(* A script is in schema_migrations if and only if the database has seen     *)
(* each of its statements, once.                                             *)
THEOREM MigratedExactlyOnce == Spec => []ExactlyOnce
<1>1. BootInv => ExactlyOnce
  BY DEF BootInv
<1> QED
  BY <1>1, BootInvAlways, PTL

(* Who listens has a database that all its scripts have been applied to.     *)
THEOREM MigratedBeforeServing == Spec => []ServesMigrated
<1>1. BootInv => ServesMigrated
  BY DEF BootInv, LoopInv, ServesMigrated
<1> QED
  BY <1>1, BootInvAlways, PTL

(* No process applies a script before an earlier one of its list is in.      *)
THEOREM MigratedInOrder == Spec => InOrder
<1>1. BootInv /\ [Next]_vars =>
        [\A p \in Procs : Commit(p) \/ EndsCommitted(p) =>
            \A s \in files[p] : s < at[p] => s \in applied]_bootVars
  BY DEF BootInv, LoopInv, LoopPcs, TxPcs, Commit, EndsCommitted
<1> QED
  BY <1>1, BootInvAlways, PTL DEF Spec, InOrder

-----------------------------------------------------------------------------
(* The configuration.                                                        *)

(* A power of two is how many subsets a set has: positive, in particular.    *)
LEMMA PowerOfTwo == \A n \in Nat : 2 ^ n \in Nat \ {0}
<1> SUFFICES ASSUME NEW n \in Nat PROVE 2 ^ n \in Nat \ {0}
  OBVIOUS
<1> DEFINE S == SUBSET (1 .. n)
<1>1. IsFiniteSet(1 .. n) /\ Cardinality(1 .. n) = n
  BY FS_Interval
<1>2. IsFiniteSet(S) /\ Cardinality(S) = 2 ^ n
  BY <1>1, FS_SUBSET
<1>3. S # {}
  BY {} \in S
<1>4. Cardinality(S) \in Nat /\ Cardinality(S) # 0
  <2> HIDE DEF S
  <2> QED
    BY <1>2, <1>3, FS_CardinalityType, FS_EmptySet
<1> QED
  BY <1>2, <1>4

(* Within its range an integer does not wrap.                                *)
LEMMA WrapIsIdentity ==
    /\ HalfRange \in Nat \ {0}
    /\ \A n \in Int : n \in -HalfRange .. HalfRange - 1 => Wrap(n) = n
<1>1. HalfRange \in Nat \ {0}
  BY PowerOfTwo, WidthAssumption DEF HalfRange
<1>2. ASSUME NEW H \in Nat \ {0}, NEW n \in Int, -H <= n, n <= H - 1
      PROVE  ((n + H) % (2 * H)) - H = n
  BY <1>2
<1> QED
  BY <1>1, <1>2 DEF Wrap

(* The values that config.Load compares are numbers.                         *)
LEMMA EnvNumbers ==
    ASSUME NEW e \in Envs, NEW k \in Fields \ {"rps"}
    PROVE  EnvValue(e, k) \in Int
  BY EnvsAssumption, DefaultsAssumption DEF EnvValue

LEMMA UploadLimit ==
    ASSUME NEW e \in Envs
    PROVE  LimitAsAsked(e)
<1> DEFINE mb == EnvValue(e, "uploadMB")
           unit == 2 ^ Shift
<1>1. mb \in Int /\ unit \in Nat \ {0}
  BY EnvNumbers, PowerOfTwo, WidthAssumption DEF Fields
<1>2. Load(e)["uploadMB"] = Wrap(mb * unit)
  BY DEF Load, Fields, ShiftLeft
<1>3. mb * unit \in Int
  BY <1>1
<1>4. Representable(mb) => Load(e)["uploadMB"] = mb * unit
  BY <1>2, <1>3, WrapIsIdentity DEF Representable
<1>5. mb * unit > 0 => mb > 0
  BY <1>1
<1> HIDE DEF mb, unit
<1> QED
  BY <1>4, <1>5 DEF LimitAsAsked, Accepted, mb, unit

(* Whoever is past the configuration has an accepted one.                    *)
ConfigInv ==
    /\ env \in Envs /\ ends \in 0 .. MaxEnds
    /\ \A p \in Procs : pc[p] \notin {"down", "load"} => Accepted(Load(env))

LEMMA ConfigStep == ASSUME BootInv, ConfigInv, [Next]_vars PROVE ConfigInv'
<1> USE StartupAssumption DEF BootInv, Types, ConfigInv
<1>1. CASE UNCHANGED <<env, ends, pc>>
  BY <1>1
<1>2. ASSUME NEW p \in Procs, Proceed(p) PROVE ConfigInv'
  <2>1. UNCHANGED <<env, ends>> /\ \A q \in Procs \ {p} : pc'[q] = pc[q]
    BY <1>2
    DEF Proceed, Start, LoadConfig, Open, Migrate, CreateTable, Skip, Pending,
        Begin, Exec, Record, RecordRefused, Commit, Listen, NextScript, Down,
        GoTo
  <2>2. pc'[p] \notin {"down", "load"} => Accepted(Load(env))
    BY <1>2
    DEF Proceed, Start, LoadConfig, Open, Migrate, CreateTable, Skip, Pending,
        Begin, Exec, Record, RecordRefused, Commit, Listen, NextScript, Down,
        GoTo
  <2> QED
    BY <2>1, <2>2
<1>3. ASSUME NEW p \in Procs, Ends(p) \/ Busy(p) \/ EndsCommitted(p)
      PROVE  ConfigInv'
  <2>1. env' = env /\ ends' \in 0 .. MaxEnds
    BY <1>3 DEF Ends, Busy, EndsCommitted
  <2>2. pc'[p] = "down" /\ \A q \in Procs \ {p} : pc'[q] = pc[q]
    BY <1>3 DEF Ends, Busy, EndsCommitted, Down, GoTo
  <2> QED
    BY <2>1, <2>2
<1> QED
  BY <1>1, <1>2, <1>3
  DEF Next, Rises, EndsServing, Others, Deploy, Serve, Arrive, CORS, PassIn,
      RequireAuth, Admit, TooMany, Refill, HandlerWrites, HandlerReturns,
      HandlerPanics, Log, Recover, PassOut, vars, bootVars

LEMMA ConfigAlways == Spec => []ConfigInv
<1>1. Init => ConfigInv
  BY StartupAssumption DEF Init, BootInit, ConfigInv
<1> QED
  BY <1>1, ConfigStep, BootInvAlways, PTL DEF Spec

(* An upload limit that is accepted is positive, and it is the one asked for *)
(* unless its bytes do not fit the integer; and a process that got past the  *)
(* configuration has an accepted one (config.go Load).                       *)
THEOREM AcceptedAsAsked == Spec => []RunsAsAsked
<1>1. ConfigInv => RunsAsAsked
  BY UploadLimit DEF ConfigInv, RunsAsAsked
<1> QED
  BY <1>1, ConfigAlways, PTL

-----------------------------------------------------------------------------
(* The layers of a route.                                                    *)

Last(route) == Len(Layers(route))

LEMMA LayerTable ==
    ASSUME NEW route \in Routes
    PROVE  LET L == Layers(route) IN
           /\ Last(route) \in 6 .. 8 /\ DOMAIN L = 1 .. Last(route)
           /\ L[1] = "CORS" /\ L[2] = "RequestID" /\ L[3] = "Logging"
           /\ L[4] = "Recover" /\ L[5] = "RateLimit" /\ L[6] = "Timeout"
           /\ route = "open" => Last(route) = 6
           /\ route = "auth" => Last(route) = 7 /\ L[7] = "AuthLimit"
           /\ route = "me" => Last(route) = 8 /\ L[7] = "AuthLimit"
                                             /\ L[8] = "RequireAuth"
           /\ route = "documents" => Last(route) = 7 /\ L[7] = "RequireAuth"
<1> USE DEF Layers, Outer, Inner, Last
<1>1. CASE route = "open"
  BY <1>1
<1>2. CASE route = "auth"
  BY <1>2
<1>3. CASE route = "me"
  BY <1>3
<1>4. CASE route = "documents"
  BY <1>4
<1> QED
  BY <1>1, <1>2, <1>3, <1>4 DEF Routes

(* Where a layer is, is where a request that is at it is.                    *)
LEMMA LayerPlaces ==
    ASSUME NEW route \in Routes, NEW i \in 1 .. Last(route)
    PROVE  LET l == Layers(route)[i] IN
           /\ l = "CORS" <=> i = 1
           /\ l = "Logging" <=> i = 3
           /\ l = "Recover" <=> i = 4
           /\ l = "RateLimit" <=> i = 5
           /\ l = "AuthLimit" <=> route \in {"auth", "me"} /\ i = 7
           /\ l = "RequireAuth" <=> route \in {"me", "documents"} /\ i = Last(route)
<1>1. i \in {1, 2, 3, 4, 5, 6, 7, 8}
  BY LayerTable
<1> QED
  BY <1>1, LayerTable DEF Routes

LEMMA LoggingIsThird ==
    ASSUME NEW route \in Routes
    PROVE  Position("Logging", route) = 3
<1>1. /\ 3 \in DOMAIN Layers(route) /\ Layers(route)[3] = "Logging"
      /\ \A i \in DOMAIN Layers(route) : Layers(route)[i] = "Logging" => i = 3
  BY LayerTable, LayerPlaces
<1> QED
  BY <1>1 DEF Position

-----------------------------------------------------------------------------
(* The request on its way.                                                   *)

Codes == {0, 200, 204, 401, 429, 500}
Ways == {"in", "handler", "out", "panic", "abort", "over"}
ReqSet == [route : Routes, preflight : BOOLEAN, at : Nat, way : Ways,
           charged : SUBSET Limits, user : BOOLEAN, ran : BOOLEAN,
           panicked : {"no", "early", "late", "cut"}, sent : Codes,
           noted : Codes, log : Seq(Codes)]

(* Where it may be: a panic does not get past Recover, a preflight not in.   *)
PlaceInv(r) ==
    /\ r.at \in 0 .. Last(r.route)
    /\ r.way = "over" <=> r.at = 0
    /\ r.way = "panic" => r.at >= 4
    /\ r.way = "handler" => r.at = Last(r.route)
    /\ r.way \notin {"in", "over"} => ~r.preflight

(* What it has behind it on the way in.                                      *)
Gated(r) ==
    /\ ~r.preflight /\ "RateLimit" \in r.charged
    /\ r.route \in {"auth", "me"} => "AuthLimit" \in r.charged
    /\ r.route \in {"me", "documents"} => r.user

GateInv(r) ==
    /\ r.way = "in" =>
          /\ ~r.ran
          /\ r.at > 1 => ~r.preflight
          /\ r.at > 5 => "RateLimit" \in r.charged
          /\ r.route \in {"auth", "me"} /\ r.at > 7 => "AuthLimit" \in r.charged
    /\ r.way = "handler" => Gated(r)
    /\ r.ran => Gated(r)

(* What it has to show on the way out: the line is written at the third      *)
(* layer, from what the recorder inside of it was told last.                 *)
Line(r) == IF r.panicked = "late" THEN 500 ELSE r.sent

AnswerInv(r) ==
    /\ r.way \in {"in", "handler"} =>
          r.panicked = "no" /\ r.log = <<>> /\ r.noted = r.sent
    /\ r.way = "in" => r.sent = 0
    /\ r.way = "panic" =>
          /\ r.panicked \in {"early", "late"} /\ r.log = <<>>
          /\ r.panicked = "early" <=> r.sent = 0
    /\ r.way = "out" =>
          /\ r.panicked # "cut" /\ r.sent # 0
          /\ r.panicked = "early" => r.sent = 500
          /\ r.at >= 3 => r.log = <<>> /\ r.noted = Line(r)
          /\ r.at < 3 => r.log = <<Line(r)>>
    /\ r.way = "abort" => r.panicked = "cut" /\ r.log = <<>>
    /\ r.way = "over" /\ r # NoRequest =>
          /\ r.sent # 0 \/ r.panicked = "cut"
          /\ r.panicked = "early" => r.sent = 500
          /\ r.log = IF r.preflight \/ r.panicked = "cut" THEN <<>>
                     ELSE <<Line(r)>>

ReqInv(r) == r \in ReqSet /\ PlaceInv(r) /\ GateInv(r) /\ AnswerInv(r)

LEMMA NewRequest ==
    ASSUME NEW route \in Routes, NEW preflight \in BOOLEAN
    PROVE  LET r == Request(route, preflight) IN
           /\ r \in ReqSet /\ r.route = route
           /\ r.at = 1 /\ r.way = "in" /\ ~r.ran /\ r.panicked = "no"
           /\ r.sent = 0 /\ r.noted = 0 /\ r.log = <<>>
<1>1. <<>> \in Seq(Codes)
  BY EmptySeq
<1> QED
  BY <1>1 DEF Request, ReqSet, Ways, Codes

LEMMA NoRequestFields ==
    /\ NoRequest \in ReqSet /\ NoRequest.route = "open"
    /\ NoRequest.at = 0 /\ NoRequest.way = "over" /\ ~NoRequest.ran
<1> DEFINE r == Request("open", FALSE)
<1>1. r \in ReqSet /\ r.route = "open" /\ ~r.ran
  BY NewRequest DEF Routes
<1>2. NoRequest = [r EXCEPT !.way = "over", !.at = 0]
  BY DEF NoRequest
<1> HIDE DEF r
<1> QED
  BY <1>1, <1>2 DEF ReqSet, Ways

(* The parts of it.                                                          *)
SameTask(n, r) ==
    /\ n.route = r.route /\ n.preflight = r.preflight /\ n.charged = r.charged
    /\ n.user = r.user /\ n.ran = r.ran /\ n.panicked = r.panicked
SameAnswer(n, r) == n.sent = r.sent /\ n.noted = r.noted /\ n.log = r.log
SamePlace(n, r) == n.at = r.at /\ n.way = r.way

(* One layer further in: all else stays.                                     *)
LEMMA DeeperKeeps ==
    ASSUME NEW r \in ReqSet, r.way = "in"
    PROVE  LET n == Deeper(r) IN
           /\ n \in ReqSet /\ SameTask(n, r) /\ SameAnswer(n, r)
           /\ r.at = Last(r.route) => n.way = "handler" /\ n.at = r.at
           /\ r.at # Last(r.route) => n.way = "in" /\ n.at = r.at + 1
<1>1. CASE r.at = Last(r.route)
  <2>1. Deeper(r) = [r EXCEPT !.way = "handler"] /\ "handler" \in Ways
    BY <1>1 DEF Deeper, Last, Ways
  <2> QED
    BY <1>1, <2>1 DEF ReqSet, SameTask, SameAnswer
<1>2. CASE r.at # Last(r.route)
  <2>1. Deeper(r) = [r EXCEPT !.at = r.at + 1]
    BY <1>2 DEF Deeper, Last
  <2> QED
    BY <1>2, <2>1 DEF ReqSet, SameTask, SameAnswer
<1> QED
  BY <1>1, <1>2

(* One layer further out.                                                    *)
LEMMA FurtherKeeps ==
    ASSUME NEW r \in ReqSet, r.at > 0
    PROVE  LET n == Further(r) IN
           /\ n \in ReqSet /\ SameTask(n, r) /\ SameAnswer(n, r)
           /\ r.at = 1 => n.way = "over" /\ n.at = 0
           /\ r.at > 1 => n.way = r.way /\ n.at = r.at - 1
<1>1. CASE r.at = 1
  <2>1. Further(r) = [r EXCEPT !.at = 0, !.way = "over"]
    BY <1>1 DEF Further
  <2>2. Further(r) \in ReqSet
    <3>1. 0 \in Nat /\ "over" \in Ways
      BY DEF Ways
    <3> QED
      BY <2>1, <3>1 DEF ReqSet
  <2>3. SameTask(Further(r), r) /\ SameAnswer(Further(r), r)
    BY <2>1 DEF ReqSet, SameTask, SameAnswer
  <2>4. Further(r).at = 0 /\ Further(r).way = "over"
    BY <2>1 DEF ReqSet
  <2> QED
    BY <1>1, <2>2, <2>3, <2>4
<1>2. CASE r.at # 1
  BY <1>2 DEF Further, ReqSet, Ways, SameTask, SameAnswer
<1> QED
  BY <1>1, <1>2

LEMMA WroteKeeps ==
    ASSUME NEW r \in ReqSet, NEW code \in Codes, NEW i \in Nat,
           req.route \in Routes
    PROVE  LET n == Wrote(r, code, i) IN
           /\ n \in ReqSet /\ SameTask(n, r) /\ SamePlace(n, r)
           /\ n.log = r.log
           /\ n.sent = IF r.sent = 0 THEN code ELSE r.sent
           /\ n.noted = IF i > 3 THEN code ELSE r.noted
<1>1. Recorded(i) <=> i > 3
  BY LoggingIsThird DEF Recorded
<1>2. CASE i > 3
  BY <1>1, <1>2 DEF Wrote, ReqSet, SameTask, SamePlace
<1>3. CASE ~(i > 3)
  BY <1>1, <1>3 DEF Wrote, ReqSet, SameTask, SamePlace
<1> QED
  BY <1>2, <1>3

(* An answer on the spot.                                                    *)
LEMMA AnsweredKeeps ==
    ASSUME NEW r \in ReqSet, NEW code \in Codes, r.at > 0, req.route \in Routes
    PROVE  LET n == Answered(r, code) IN
           /\ n \in ReqSet /\ SameTask(n, r) /\ n.log = r.log
           /\ n.sent = IF r.sent = 0 THEN code ELSE r.sent
           /\ n.noted = IF r.at > 3 THEN code ELSE r.noted
           /\ r.at = 1 => n.way = "over" /\ n.at = 0
           /\ r.at > 1 => n.way = "out" /\ n.at = r.at - 1
<1> DEFINE w == Wrote(r, code, r.at)
           o == [w EXCEPT !.way = "out"]
<1>1. r.at \in Nat
  BY DEF ReqSet
<1>2. /\ w \in ReqSet /\ SameTask(w, r) /\ SamePlace(w, r) /\ w.log = r.log
      /\ w.sent = IF r.sent = 0 THEN code ELSE r.sent
      /\ w.noted = IF r.at > 3 THEN code ELSE r.noted
  BY <1>1, WroteKeeps
<1> HIDE DEF w
<1>3. /\ o \in ReqSet /\ SameTask(o, w) /\ SameAnswer(o, w)
      /\ o.at = w.at /\ o.way = "out"
  BY <1>2 DEF ReqSet, Ways, SameTask, SameAnswer
<1>4. Answered(r, code) = Further(o)
  BY DEF Answered, w
<1> HIDE DEF o
<1>5. o.at > 0 /\ o.at = r.at
  BY <1>2, <1>3 DEF SamePlace
<1>6. /\ Further(o) \in ReqSet
      /\ SameTask(Further(o), o) /\ SameAnswer(Further(o), o)
      /\ o.at = 1 => Further(o).way = "over" /\ Further(o).at = 0
      /\ o.at > 1 => Further(o).way = o.way /\ Further(o).at = o.at - 1
  BY <1>3, <1>5, FurtherKeeps
<1> QED
  BY <1>2, <1>3, <1>4, <1>5, <1>6 DEF SameTask, SameAnswer, SamePlace

(* Where the request is when a layer handles it.                             *)
LEMMA HereMeans ==
    ASSUME ReqInv(req), NEW layer, Here(layer)
    PROVE  /\ req \in ReqSet /\ req.route \in Routes /\ req.way # "over"
           /\ req.at \in 1 .. Last(req.route) /\ req.at > 0
           /\ layer = Layers(req.route)[req.at]
<1>1. req \in ReqSet /\ req.route \in Routes
  BY DEF ReqInv, ReqSet
<1>2. req.at \in 1 .. Last(req.route)
  BY <1>1, LayerTable DEF Here
<1> QED
  BY <1>1, <1>2 DEF Here

(* The next layer of a request that is let in.                               *)
LEMMA DeeperInv ==
    ASSUME ReqInv(req), req.way = "in", NEW r \in ReqSet,
           r.route = req.route, r.at = req.at, r.way = "in",
           r.preflight = req.preflight, r.ran = req.ran,
           r.panicked = req.panicked, SameAnswer(r, req),
           req.charged \subseteq r.charged,
           ~r.preflight, r.at \in 1 .. Last(r.route),
           r.at = 5 => "RateLimit" \in r.charged,
           r.route \in {"auth", "me"} /\ r.at = 7 => "AuthLimit" \in r.charged,
           r.route \in {"me", "documents"} /\ r.at = Last(r.route) => r.user
    PROVE  ReqInv(Deeper(r))
<1> DEFINE n == Deeper(r)
<1>1. /\ n \in ReqSet /\ SameTask(n, r) /\ SameAnswer(n, r)
      /\ r.at = Last(r.route) => n.way = "handler" /\ n.at = r.at
      /\ r.at # Last(r.route) => n.way = "in" /\ n.at = r.at + 1
  BY DeeperKeeps
<1>2. /\ r.route \in Routes /\ Last(r.route) \in 6 .. 8
      /\ r.route = "auth" => Last(r.route) = 7
      /\ r.route = "me" => Last(r.route) = 8
  BY LayerTable DEF ReqSet
<1> HIDE DEF n
<1>3. PlaceInv(n)
  BY <1>1, <1>2 DEF PlaceInv, SameTask
<1>4. GateInv(n)
  BY <1>1, <1>2 DEF GateInv, Gated, ReqInv, SameTask
<1>5. AnswerInv(n)
  BY <1>1 DEF AnswerInv, ReqInv, SameTask, SameAnswer
<1> QED
  BY <1>1, <1>3, <1>4, <1>5 DEF ReqInv, n

(* Every step of the server keeps the request's books.                       *)
LEMMA ReqStep == ASSUME ReqInv(req), Serve PROVE ReqInv(req')
<1>0. ASSUME NEW layer, Here(layer)
      PROVE  /\ req \in ReqSet /\ req.route \in Routes /\ req.way # "over"
             /\ req.at \in 1 .. Last(req.route) /\ req.at > 0
             /\ Last(req.route) \in 6 .. 8
             /\ layer = "CORS" <=> req.at = 1
             /\ layer = "Logging" <=> req.at = 3
             /\ layer = "Recover" <=> req.at = 4
             /\ layer = "RateLimit" <=> req.at = 5
             /\ layer = "AuthLimit" <=>
                   req.route \in {"auth", "me"} /\ req.at = 7
             /\ layer = "RequireAuth" <=>
                   /\ req.route \in {"me", "documents"}
                   /\ req.at = Last(req.route)
  <2>1. /\ req \in ReqSet /\ req.route \in Routes /\ req.way # "over"
        /\ req.at \in 1 .. Last(req.route) /\ req.at > 0
        /\ layer = Layers(req.route)[req.at]
    BY <1>0, HereMeans
  <2>2. Last(req.route) \in 6 .. 8
    BY <2>1, LayerTable
  <2> QED
    BY <2>1, <2>2, LayerPlaces
<1>1. CASE Arrive
  <2>1. PICK route \in Routes, preflight \in BOOLEAN :
           req' = Request(route, preflight)
    BY <1>1 DEF Arrive
  <2> QED
    BY <2>1, NewRequest, LayerTable
       DEF ReqInv, PlaceInv, GateInv, AnswerInv
<1>2. CASE CORS
  <2>1. req \in ReqSet /\ req.route \in Routes /\ req.at = 1 /\ req.way = "in"
        /\ Last(req.route) \in 6 .. 8
    BY <1>0, <1>2 DEF CORS
  <2>2. CASE req.preflight
    <3>1. 204 \in Codes
      BY DEF Codes
    <3>2. req' = Answered(req, 204)
      BY <1>2, <2>2 DEF CORS
    <3> QED
      BY <2>1, <2>2, <3>1, <3>2, AnsweredKeeps
         DEF ReqInv, PlaceInv, GateInv, AnswerInv, SameTask
  <2>3. CASE ~req.preflight
    BY <1>2, <2>1, <2>3, DeeperInv DEF CORS, SameAnswer
  <2> QED
    BY <2>2, <2>3
<1>3. CASE PassIn
  <2>1. PICK l \in {"RequestID", "Logging", "Recover", "Timeout"} : Here(l)
    BY <1>3 DEF PassIn
  <2>2. req.way = "in" /\ req' = Deeper(req)
    BY <1>3 DEF PassIn
  <2>3. /\ req \in ReqSet /\ req.at \in 1 .. Last(req.route)
        /\ req.at # 1 /\ req.at # 5
        /\ ~(req.route \in {"auth", "me"} /\ req.at = 7)
        /\ ~(req.route \in {"me", "documents"} /\ req.at = Last(req.route))
    BY <1>0, <2>1
  <2>4. ~req.preflight
    BY <2>2, <2>3 DEF ReqInv, GateInv
  <2> QED
    BY <2>2, <2>3, <2>4, DeeperInv DEF SameAnswer
<1>4. ASSUME NEW l \in Limits, Admit(l) PROVE ReqInv(req')
  <2> DEFINE r == [req EXCEPT !.charged = @ \cup {l}]
  <2>1. req.way = "in" /\ req' = Deeper(r)
    BY <1>4 DEF Admit
  <2>2. /\ req \in ReqSet /\ req.at \in 1 .. Last(req.route) /\ req.at # 1
        /\ ~(req.route \in {"me", "documents"} /\ req.at = Last(req.route))
        /\ req.at = 5 => l = "RateLimit"
        /\ req.route \in {"auth", "me"} /\ req.at = 7 => l = "AuthLimit"
    BY <1>0, <1>4 DEF Admit, Limits
  <2>3. /\ r \in ReqSet /\ r.charged = req.charged \cup {l}
        /\ r.route = req.route /\ r.at = req.at /\ r.way = "in"
        /\ r.preflight = req.preflight /\ r.ran = req.ran
        /\ r.panicked = req.panicked /\ SameAnswer(r, req)
    BY <2>1, <2>2 DEF ReqSet, SameAnswer
  <2>4. ~req.preflight
    BY <2>1, <2>2 DEF ReqInv, GateInv
  <2> HIDE DEF r
  <2> QED
    BY <2>1, <2>2, <2>3, <2>4, DeeperInv
<1>5. ASSUME NEW code \in {401, 429, 500}, NEW l \in Limits \cup {"RequireAuth"},
             Here(l), req.way = "in", req' = Answered(req, code)
      PROVE  ReqInv(req')
  <2>1. /\ req \in ReqSet /\ req.route \in Routes /\ req.at \in 5 .. Last(req.route)
        /\ Last(req.route) \in 6 .. 8
    BY <1>0, <1>5 DEF Limits
  <2>2. code \in Codes /\ code # 0
    BY DEF Codes
  <2>3. req.sent = 0 /\ req.panicked = "no" /\ ~req.ran /\ ~req.preflight
        /\ req.log = <<>>
    BY <1>5, <2>1 DEF ReqInv, GateInv, AnswerInv
  <2>4. /\ req' \in ReqSet /\ SameTask(req', req) /\ req'.log = req.log
        /\ req'.sent = code /\ req'.noted = code
        /\ req'.way = "out" /\ req'.at = req.at - 1
    BY <1>5, <2>1, <2>2, <2>3, AnsweredKeeps
  <2> QED
    BY <2>1, <2>2, <2>3, <2>4
       DEF ReqInv, PlaceInv, GateInv, AnswerInv, SameTask, Line
<1>6. CASE RequireAuth
  <2>1. CASE req' = Deeper([req EXCEPT !.user = TRUE])
    <3> DEFINE r == [req EXCEPT !.user = TRUE]
    <3>1. req.way = "in" /\ Here("RequireAuth")
      BY <1>6 DEF RequireAuth
    <3>2. /\ req \in ReqSet /\ req.at = Last(req.route) /\ req.at \in 6 .. 8
          /\ req.at \in 1 .. Last(req.route) /\ req.at # 5
          /\ ~(req.route \in {"auth", "me"} /\ req.at = 7)
      BY <1>0, <3>1
    <3>3. /\ r \in ReqSet /\ r.charged = req.charged /\ r.user
          /\ r.route = req.route /\ r.at = req.at /\ r.way = "in"
          /\ r.preflight = req.preflight /\ r.ran = req.ran
          /\ r.panicked = req.panicked /\ SameAnswer(r, req)
      BY <3>1, <3>2 DEF ReqSet, SameAnswer
    <3>4. ~req.preflight
      BY <3>1, <3>2 DEF ReqInv, GateInv
    <3> HIDE DEF r
    <3>5. req' = Deeper(r)
      BY <2>1 DEF r
    <3> QED
      BY <3>1, <3>2, <3>3, <3>4, <3>5, DeeperInv
  <2>2. ASSUME NEW code \in {401, 500}, req' = Answered(req, code)
        PROVE  ReqInv(req')
    BY <1>5, <1>6, <2>2 DEF RequireAuth
  <2> QED
    BY <1>6, <2>1, <2>2 DEF RequireAuth
<1>7. ASSUME NEW l \in Limits, TooMany(l) PROVE ReqInv(req')
  BY <1>5, <1>7 DEF TooMany
<1>8. CASE HandlerWrites
  <2>1. /\ req.way = "handler" /\ req.sent = 0 /\ req \in ReqSet
        /\ req.at = Last(req.route) /\ req.route \in Routes
        /\ Last(req.route) \in 6 .. 8 /\ Gated(req)
        /\ req.panicked = "no" /\ req.log = <<>>
    BY <1>8, LayerTable
       DEF HandlerWrites, Handling, ReqInv, ReqSet, PlaceInv, GateInv, AnswerInv
  <2> DEFINE i == req.at + 1
             w == Wrote(req, 200, i)
  <2>2. /\ w \in ReqSet /\ SameTask(w, req) /\ SamePlace(w, req)
        /\ w.log = req.log /\ w.sent = 200 /\ w.noted = 200
    <3>1. 200 \in Codes
      BY DEF Codes
    <3>2. i \in Nat /\ i > 3
      BY <2>1
    <3>0. req \in ReqSet /\ req.route \in Routes
      BY <2>1
    <3> HIDE DEF i
    <3>3. /\ w \in ReqSet /\ SameTask(w, req) /\ SamePlace(w, req)
          /\ w.log = req.log
          /\ w.sent = IF req.sent = 0 THEN 200 ELSE req.sent
          /\ w.noted = IF i > 3 THEN 200 ELSE req.noted
      BY <3>0, <3>1, <3>2, WroteKeeps
    <3> QED
      BY <2>1, <3>2, <3>3
  <2> HIDE DEF w
  <2>3. req' = [w EXCEPT !.ran = TRUE]
    BY <1>8 DEF HandlerWrites, w
  <2>4. /\ req' \in ReqSet /\ req'.route = w.route /\ req'.preflight = w.preflight
        /\ req'.charged = w.charged /\ req'.user = w.user
        /\ req'.panicked = w.panicked /\ SamePlace(req', w) /\ SameAnswer(req', w)
    BY <2>2, <2>3 DEF ReqSet, SamePlace, SameAnswer
  <2> QED
    BY <2>1, <2>2, <2>4
       DEF ReqInv, PlaceInv, GateInv, Gated, AnswerInv, SameTask, SamePlace,
           SameAnswer
<1>9. CASE HandlerReturns
  <2>1. /\ req.way = "handler" /\ req.sent # 0 /\ req \in ReqSet
        /\ req.at = Last(req.route) /\ Last(req.route) \in 6 .. 8
    BY <1>9, LayerTable DEF HandlerReturns, Handling, ReqInv, ReqSet, PlaceInv
  <2>2. req' = [req EXCEPT !.way = "out"] /\ "out" \in Ways
    BY <1>9 DEF HandlerReturns, Ways
  <2>3. /\ req' \in ReqSet /\ SameTask(req', req) /\ SameAnswer(req', req)
        /\ req'.at = req.at /\ req'.way = "out"
    BY <2>1, <2>2 DEF ReqSet, SameTask, SameAnswer
  <2> QED
    BY <2>1, <2>3
       DEF ReqInv, PlaceInv, GateInv, Gated, AnswerInv, Line, SameTask,
           SameAnswer
<1>10. CASE HandlerPanics
  <2>1. /\ req.way = "handler" /\ req \in ReqSet
        /\ req.at = Last(req.route) /\ Last(req.route) \in 6 .. 8
    BY <1>10, LayerTable DEF HandlerPanics, Handling, ReqInv, ReqSet, PlaceInv
  <2>2. PICK how \in {"panic", "abort"}, what \in {"cut", "early", "late"} :
           /\ req' = [req EXCEPT !.way = how, !.ran = TRUE, !.panicked = what]
           /\ what = "cut" <=> how = "abort"
           /\ what = "early" => req.sent = 0
           /\ what = "late" => req.sent # 0
    <3>1. PICK how \in {"panic", "abort"} :
             req' = [req EXCEPT !.way = how, !.ran = TRUE,
                                !.panicked = IF how = "abort" THEN "cut"
                                             ELSE IF req.sent = 0 THEN "early"
                                             ELSE "late"]
      BY <1>10 DEF HandlerPanics
    <3> QED
      BY <3>1
  <2>3. how \in Ways /\ what \in {"no", "early", "late", "cut"}
    BY DEF Ways
  <2>4. /\ req' \in ReqSet /\ req'.route = req.route
        /\ req'.preflight = req.preflight /\ req'.at = req.at
        /\ req'.charged = req.charged /\ req'.user = req.user
        /\ req'.panicked = what /\ req'.way = how /\ SameAnswer(req', req)
    BY <2>1, <2>2, <2>3 DEF ReqSet, SameAnswer
  <2> QED
    BY <2>1, <2>2, <2>4
       DEF ReqInv, PlaceInv, GateInv, Gated, AnswerInv, SameAnswer
<1>11. CASE Log
  <2> DEFINE r == [req EXCEPT !.log = Append(@, req.noted)]
  <2>1. /\ req \in ReqSet /\ req.at = 3 /\ req.way = "out"
        /\ Last(req.route) \in 6 .. 8
    BY <1>0, <1>11 DEF Log
  <2>2. req.log = <<>> /\ req.noted = Line(req)
    BY <2>1 DEF ReqInv, AnswerInv
  <2>3. Append(req.log, req.noted) = <<Line(req)>>
        /\ Append(req.log, req.noted) \in Seq(Codes)
    BY <2>1, <2>2, AppendProperties DEF ReqSet
  <2>4. /\ r \in ReqSet /\ SameTask(r, req) /\ SamePlace(r, req)
        /\ r.sent = req.sent /\ r.log = <<Line(req)>>
    BY <2>1, <2>3 DEF ReqSet, SameTask, SamePlace
  <2>5. req' = Further(r)
    BY <1>11 DEF Log
  <2> HIDE DEF r
  <2>6. /\ req' \in ReqSet /\ SameTask(req', r) /\ SameAnswer(req', r)
        /\ req'.way = "out" /\ req'.at = 2
    BY <2>1, <2>4, <2>5, FurtherKeeps DEF SamePlace
  <2>7. Line(req') = Line(req)
    BY <2>4, <2>6 DEF Line, SameTask, SameAnswer
  <2> QED
    BY <2>1, <2>4, <2>6, <2>7
       DEF ReqInv, PlaceInv, GateInv, Gated, AnswerInv, SameTask, SameAnswer
<1>12. CASE Recover
  <2>1. /\ req \in ReqSet /\ req.route \in Routes /\ req.at = 4
        /\ req.way = "panic" /\ Last(req.route) \in 6 .. 8
    BY <1>0, <1>12 DEF Recover
  <2>2. req' = Answered(req, 500) /\ 500 \in Codes
    BY <1>12 DEF Recover, Codes
  <2>3. /\ req' \in ReqSet /\ SameTask(req', req) /\ req'.log = req.log
        /\ req'.sent = IF req.sent = 0 THEN 500 ELSE req.sent
        /\ req'.noted = 500 /\ req'.way = "out" /\ req'.at = 3
    BY <2>1, <2>2, AnsweredKeeps
  <2> QED
    BY <2>1, <2>3
       DEF ReqInv, PlaceInv, GateInv, Gated, AnswerInv, Line, SameTask
<1>13. CASE PassOut
  <2>1. /\ req \in ReqSet /\ req.route \in Routes /\ req.at > 0
        /\ req.at \in 1 .. Last(req.route) /\ Last(req.route) \in 6 .. 8
        /\ req' = Further(req)
    BY <1>13, LayerTable DEF PassOut, ReqInv, ReqSet, PlaceInv
  <2>2. /\ Layers(req.route)[req.at] = "Logging" <=> req.at = 3
        /\ Layers(req.route)[req.at] = "Recover" <=> req.at = 4
    BY <2>1, LayerPlaces
  <2>3. \/ req.way = "out" /\ req.at # 3
        \/ req.way = "panic" /\ req.at # 4
        \/ req.way = "abort"
    BY <1>13, <2>2 DEF PassOut
  <2>4. /\ req' \in ReqSet /\ SameTask(req', req) /\ SameAnswer(req', req)
        /\ req.at = 1 => req'.way = "over" /\ req'.at = 0
        /\ req.at > 1 => req'.way = req.way /\ req'.at = req.at - 1
    BY <2>1, FurtherKeeps
  <2>5. Line(req') = Line(req)
    BY <2>4 DEF Line, SameTask, SameAnswer
  <2>6. PlaceInv(req')
    BY <2>1, <2>3, <2>4 DEF ReqInv, PlaceInv, SameTask
  <2>7. GateInv(req')
    BY <2>1, <2>3, <2>4 DEF ReqInv, GateInv, Gated, SameTask
  <2>8. AnswerInv(req')
    BY <2>1, <2>3, <2>4, <2>5
       DEF ReqInv, PlaceInv, AnswerInv, SameTask, SameAnswer
  <2> QED
    BY <2>4, <2>6, <2>7, <2>8 DEF ReqInv
<1>14. ASSUME NEW l \in Limits, Refill(l) PROVE ReqInv(req')
  BY <1>14 DEF Refill
<1> QED
  BY <1>1, <1>2, <1>3, <1>4, <1>6, <1>7, <1>8, <1>9, <1>10, <1>11, <1>12, <1>13,
     <1>14 DEF Serve

-----------------------------------------------------------------------------
(* The process and its request.                                              *)

LEMMA BurstFacts ==
    ASSUME env \in Envs, NEW l \in Limits
    PROVE  Burst(l) \in Int /\ (Accepted(Load(env)) => Burst(l) >= 1)
<1>1. /\ Load(env)["burst"] \in Int
      /\ Accepted(Load(env)) => Load(env)["burst"] >= 1
  BY EnvNumbers DEF Load, Accepted, Fields
<1>2. StrictBurst \in Int /\ StrictBurst >= 1
  BY ServerAssumption
<1> QED
  BY <1>1, <1>2 DEF Burst

(* A request, and a bucket that is not full, are only where there is a       *)
(* server, and a bucket never holds less than nothing or more than a burst.  *)
ServingInv ==
    /\ req.way # "over" => Serving
    /\ tokens \in [Limits -> Int]
    /\ IF Serving THEN \A l \in Limits : tokens[l] \in 0 .. Burst(l)
                  ELSE tokens = FullBuckets

(* While the watched process comes up or is away, nothing is asked of it.    *)
LEMMA UpAndDown ==
    ASSUME BootInv, ConfigInv, NEW p \in Procs,
           Rises(p) \/ Busy(p) \/ EndsCommitted(p)
    PROVE  /\ env' = env
           /\ Serving' = Serving \/ (~Serving /\ Serving' /\ Accepted(Load(env)))
<1>1. env' = env
  BY DEF Rises, Proceed, Start, LoadConfig, Open, Migrate, CreateTable, Skip,
         Pending, Begin, Exec, Record, RecordRefused, Commit, Listen, Busy,
         EndsCommitted
<1>2. \A q \in Procs \ {p} : pc'[q] = pc[q]
  BY DEF Rises, Proceed, Start, LoadConfig, Open, Migrate, CreateTable, Skip,
         Pending, Begin, Exec, Record, RecordRefused, Commit, Listen, Busy,
         EndsCommitted, NextScript, Down, GoTo, BootInv, Types
<1>3. pc[p] # "serve"
  BY DEF Rises, Proceed, Start, LoadConfig, Open, Migrate, CreateTable, Skip,
         Pending, Begin, Exec, Record, RecordRefused, Commit, Listen, Busy,
         EndsCommitted
<1>4. pc'[p] = "serve" => pc[p] = "store"
  BY DEF Rises, Proceed, Start, LoadConfig, Open, Migrate, CreateTable, Skip,
         Pending, Begin, Exec, Record, RecordRefused, Commit, Listen, Busy,
         EndsCommitted, NextScript, Down, GoTo, BootInv, Types
<1>5. pc[p] = "store" => Accepted(Load(env))
  BY DEF ConfigInv
<1> QED
  BY <1>1, <1>2, <1>3, <1>4, <1>5, ServerAssumption DEF Serving

(* A step inside the server leaves the process alone and every bucket        *)
(* between empty and full.                                                   *)
LEMMA ServeStep ==
    ASSUME ConfigInv, ServingInv, Serve
    PROVE  UNCHANGED bootVars /\ ServingInv'
<1>1. UNCHANGED bootVars /\ Serving
  BY DEF Serve, Arrive, CORS, PassIn, RequireAuth, Admit, TooMany, Refill,
         HandlerWrites, HandlerReturns, HandlerPanics, Log, Recover, PassOut,
         Here, Handling
<1>2. /\ Serving' /\ \A l \in Limits : Burst(l)' = Burst(l)
      /\ \A l \in Limits : Burst(l) \in Int /\ tokens[l] \in 0 .. Burst(l)
      /\ tokens \in [Limits -> Int]
  BY <1>1, BurstFacts DEF Serving, Burst, bootVars, ConfigInv, ServingInv
<1>3. ASSUME NEW l \in Limits, NEW n \in 0 .. Burst(l),
             tokens' = [tokens EXCEPT ![l] = n]
      PROVE  ServingInv'
  <2>1. tokens' \in [Limits -> Int] /\ \A m \in Limits : tokens'[m] \in 0 .. Burst(m)
    BY <1>2, <1>3
  <2> QED
    BY <1>2, <2>1 DEF ServingInv
<1>4. ASSUME NEW l \in Limits, Admit(l) PROVE ServingInv'
  <2>1. CASE tokens[l] >= 1
    <3>1. tokens' = [tokens EXCEPT ![l] = tokens[l] - 1]
      BY <1>4, <2>1 DEF Admit
    <3>2. tokens[l] - 1 \in 0 .. Burst(l)
      BY <1>2, <2>1
    <3> QED
      BY <1>3, <3>1, <3>2
  <2>2. CASE ~(tokens[l] >= 1)
    <3>1. tokens' = [tokens EXCEPT ![l] = tokens[l]]
      BY <1>4, <2>2 DEF Admit
    <3> QED
      BY <1>2, <1>3, <3>1
  <2> QED
    BY <2>1, <2>2
<1>5. ASSUME NEW l \in Limits, Refill(l) PROVE ServingInv'
  <2>1. tokens' = [tokens EXCEPT ![l] = tokens[l] + 1] /\ tokens[l] < Burst(l)
    BY <1>5 DEF Refill
  <2>2. tokens[l] + 1 \in 0 .. Burst(l)
    BY <1>2, <2>1
  <2> QED
    BY <1>3, <2>1, <2>2
<1>6. ASSUME UNCHANGED tokens PROVE ServingInv'
  BY <1>2, <1>6 DEF ServingInv
<1> QED
  BY <1>1, <1>4, <1>5, <1>6
     DEF Serve, Arrive, CORS, PassIn, RequireAuth, TooMany, HandlerWrites,
         HandlerReturns, HandlerPanics, Log, Recover, PassOut

WebInv == ReqInv(req) /\ ServingInv

LEMMA NoRequestInv == ReqInv(NoRequest)
<1>1. Last("open") \in 6 .. 8
  BY LayerTable DEF Routes
<1> QED
  BY <1>1, NoRequestFields DEF ReqInv, PlaceInv, GateInv, AnswerInv

LEMMA WebInit == Init => WebInv
<1> SUFFICES ASSUME Init PROVE WebInv
  OBVIOUS
<1>1. env \in Envs /\ req = NoRequest /\ tokens = FullBuckets /\ ~Serving
  BY ServerAssumption DEF Init, BootInit, Serving
<1>2. FullBuckets \in [Limits -> Int]
  BY <1>1, BurstFacts DEF FullBuckets
<1> QED
  BY <1>1, <1>2, NoRequestInv, NoRequestFields DEF WebInv, ServingInv

LEMMA WebStep == ASSUME BootInv, ConfigInv, WebInv, [Next]_vars PROVE WebInv'
<1>0. /\ \A l \in Limits : Burst(l) \in Int
      /\ Accepted(Load(env)) => \A l \in Limits : Burst(l) >= 1
  BY BurstFacts DEF ConfigInv
<1>1. ASSUME env' = env PROVE FullBuckets' = FullBuckets
                              /\ \A l \in Limits : Burst(l)' = Burst(l)
  BY <1>1 DEF FullBuckets, Burst
<1>2. ASSUME UNCHANGED <<env, req, tokens>>, Serving' = Serving PROVE WebInv'
  <2>1. ReqInv(req)'
    BY <1>2 DEF WebInv, ReqInv, PlaceInv, GateInv, AnswerInv
  <2> QED
    BY <1>1, <1>2, <2>1 DEF WebInv, ServingInv
<1>3. ASSUME NEW p \in Procs, Rises(p) \/ Busy(p) \/ EndsCommitted(p),
             UNCHANGED <<req, tokens>>
      PROVE  WebInv'
  <2>1. /\ env' = env
        /\ Serving' = Serving \/ (~Serving /\ Serving' /\ Accepted(Load(env)))
    BY <1>3, UpAndDown
  <2>2. ASSUME ~Serving, Serving', Accepted(Load(env)) PROVE WebInv'
    <3>1. tokens = FullBuckets /\ tokens \in [Limits -> Int] /\ ReqInv(req)
      BY <2>2 DEF WebInv, ServingInv
    <3>2. \A l \in Limits : tokens[l] \in 0 .. Burst(l)
      BY <1>0, <2>2, <3>1 DEF FullBuckets
    <3>3. ReqInv(req)'
      BY <1>3, <3>1 DEF ReqInv, PlaceInv, GateInv, AnswerInv
    <3> QED
      BY <1>1, <1>3, <2>1, <2>2, <3>1, <3>2, <3>3 DEF WebInv, ServingInv
  <2> QED
    BY <1>2, <1>3, <2>1, <2>2
<1>4. ASSUME NEW p \in Procs, EndsServing(p) PROVE WebInv'
  <2>1. env' = env /\ pc'[p] = "down" /\ \A q \in Procs \ {p} : pc'[q] = pc[q]
    BY <1>4 DEF EndsServing, Ends, Down, GoTo, BootInv, Types
  <2>2. CASE p = Web
    <3>1. req' = NoRequest /\ tokens' = FullBuckets' /\ ~Serving'
      BY <1>1, <1>4, <2>1, <2>2 DEF EndsServing, Serving
    <3>2. FullBuckets \in [Limits -> Int]
      BY <1>0 DEF FullBuckets
    <3> QED
      BY <1>1, <2>1, <3>1, <3>2, NoRequestInv, NoRequestFields
         DEF WebInv, ServingInv
  <2>3. CASE p # Web
    BY <1>2, <1>4, <2>1, <2>3, ServerAssumption DEF EndsServing, Serving
  <2> QED
    BY <2>2, <2>3
<1>5. ASSUME NEW s \in Scripts, Deploy(s), UNCHANGED <<req, tokens>> PROVE WebInv'
  BY <1>2, <1>5 DEF Deploy, Serving
<1>6. CASE Serve
  BY <1>6, ReqStep, ServeStep DEF WebInv
<1>7. CASE UNCHANGED vars
  BY <1>2, <1>7 DEF vars, bootVars, Serving
<1> QED
  BY <1>3, <1>4, <1>5, <1>6, <1>7 DEF Next, Others, Rises

LEMMA WebAlways == Spec => []WebInv
  BY WebInit, WebStep, BootInvAlways, ConfigAlways, PTL DEF Spec

(* Every variable stays in its set, a request is only where there is a       *)
(* server, and a bucket holds between nothing and its burst.                 *)
THEOREM TypeCorrect == Spec => []TypeOK
<1>1. BootInv /\ ConfigInv => BootTypeOK
  BY DEF BootInv, Types, TxInv, LoopInv, LoopPcs, ConfigInv, BootTypeOK
<1>2. WebInv => /\ req.route \in Routes
                /\ req.at \in 0 .. Len(Layers(req.route))
                /\ req.way \in {"in", "handler", "out", "panic", "abort", "over"}
                /\ req.way = "over" <=> req.at = 0
                /\ req.charged \subseteq Limits
                /\ {req.sent, req.noted} \subseteq {0, 200, 204, 401, 429, 500}
  BY DEF WebInv, ReqInv, ReqSet, PlaceInv, Last, Ways, Codes
<1>3. BootInv /\ ConfigInv /\ WebInv => TypeOK
  BY <1>1, <1>2 DEF WebInv, ServingInv, TypeOK
<1> QED
  BY <1>3, BootInvAlways, ConfigAlways, WebAlways, PTL

(* A handler runs only for a request that every gate of its route has let    *)
(* in: with a user where the route asks for one, with a token of either      *)
(* limiter, and never for a preflight (main.go run).                         *)
THEOREM HandlersRunBehindGates == Spec => []RunsOnlyAdmitted
<1>1. WebInv => RunsOnlyAdmitted
  BY DEF WebInv, ReqInv, GateInv, Gated, RunsOnlyAdmitted
<1> QED
  BY <1>1, WebAlways, PTL

(* Every request that comes back has an answer unless its connection was     *)
(* cut, and the access log has one line for it with the status the client    *)
(* got, or 500 after a panic (httpx.go WithLogging, WithRecover).            *)
THEOREM LogIsTheAnswer == Spec => []LogTellsAnswer
<1>1. WebInv => LogTellsAnswer
  BY DEF WebInv, ReqInv, AnswerInv, Line, Over, LogTellsAnswer
<1> QED
  BY <1>1, WebAlways, PTL

=============================================================================
