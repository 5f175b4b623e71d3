-------------------------------- MODULE Startup --------------------------------
(***************************************************************************)
(* Server processes that start against one database: main.go, OpenDB and   *)
(* InitSchema of internal/repository/db.go, LoadConfig of internal/config. *)
(*                                                                         *)
(* InitSchema takes an advisory lock, runs the schema as one batch, which  *)
(* PostgreSQL makes one transaction, and gives the lock back.  Each is a   *)
(* statement of its own on a connection of the pool; the lock belongs to   *)
(* the session, the backend at the other end.  A session may break, and    *)
(* the driver then goes on with another; a backend whose client is gone    *)
(* finishes its statement, then notices.  Servers that already run write   *)
(* to the tables whose indexes the batch locks.                            *)
(***************************************************************************)
EXTENDS Naturals

CONSTANTS
    Processes,   \* server processes: each is started again whenever it ends
    Env,         \* [Processes -> what the environment of each sets]
    Sessions,    \* backends the database has at most at one time
    NoSession,
    MaxFaults    \* bound on lost connections and ended processes

\* What OpenDB and LoadConfig ask for; "postgres://" stands for a DATABASE_URL
\* that LoadConfig knows the form of.
Variables == {"DATABASE_URL", "postgres://", "JWT_SECRET", "PORT", "JWT_ISSUER",
              "JWT_AUDIENCE", "ALLOWED_EMAIL_DOMAINS"}

ASSUME StartupAssumption ==
    /\ Env \in [Processes -> SUBSET Variables]
    /\ NoSession \notin Sessions
    /\ MaxFaults \in Nat

VARIABLES
    pc,        \* [Processes -> the statement of InitSchema each is at, or "down", "serving"]
    failed,    \* processes whose batch failed
    conn,      \* [Processes -> the session the process uses]
    run,       \* [Sessions -> what the backend does]
    holder,    \* the session that holds the advisory lock
    creator,   \* the session that has created the tables and not committed
    schema,    \* the tables are there
    writer,    \* [Processes -> the last table its open write transaction wrote to]
    faults

processes == <<pc, failed, conn>>
database  == <<holder, creator, schema>>
vars      == <<processes, run, database, writer, faults>>

Init ==
    /\ pc = [p \in Processes |-> "down"]
    /\ failed = {}
    /\ conn = [p \in Processes |-> NoSession]
    /\ run = [s \in Sessions |-> "none"]
    /\ holder = NoSession
    /\ creator = NoSession
    /\ schema \in BOOLEAN      \* a new database, or one that served before
    /\ writer = [p \in Processes |-> "none"]
    /\ faults = 0

--------------------------------------------------------------------------------
\* The process.

\* Mutant: PORT has a default, the way REDIS_ADDRESS has.
PortDefaults(p) == Variables \ {"PORT"} \subseteq Env[p]

\* LoadConfig and auth.ValidateConfig.
Configured(p) == Variables \subseteq Env[p]

\* Mutant: InitSchema logs that the batch failed and returns nil.
AfterStatementIgnoringFailure(p, ok) ==
    CASE pc[p] = "lock"   -> IF ok THEN "ddl" ELSE "down"
      [] pc[p] = "ddl"    -> "unlock"
      [] pc[p] = "unlock" -> IF Configured(p) THEN "serving" ELSE "down"

\* What follows a statement.  The unlock is deferred: it runs whether the batch
\* succeeded or not, and its own result is ignored.
AfterStatement(p, ok) ==
    CASE pc[p] = "lock"   -> IF ok THEN "ddl" ELSE "down"
      [] pc[p] = "ddl"    -> "unlock"
      [] pc[p] = "unlock" -> IF p \notin failed /\ Configured(p) THEN "serving" ELSE "down"

\* A statement of process p returned; its session is then s.
Return(p, ok, s) ==
    /\ pc' = [pc EXCEPT ![p] = AfterStatement(p, ok)]
    /\ failed' = IF pc[p] = "ddl" /\ ~ok THEN failed \cup {p} ELSE failed
    /\ conn' = [conn EXCEPT ![p] = IF AfterStatement(p, ok) = "down" THEN NoSession ELSE s]

Starting(p) == pc[p] \in {"lock", "ddl", "unlock"}
Waiting(p)  == Starting(p) /\ conn[p] # NoSession /\ run[conn[p]] # "idle"

\* main: OpenDB found the database, or the process would not get further.
Start(p) ==
    /\ pc[p] = "down"
    /\ "DATABASE_URL" \in Env[p]
    /\ pc' = [pc EXCEPT ![p] = "lock"]
    /\ failed' = failed \ {p}
    /\ UNCHANGED <<conn, run, database, writer, faults>>

\* What a backend does first of each statement.
First(statement) == IF statement = "ddl" THEN "check" ELSE statement

\* A new backend: which of the free ones does not matter.
IsNew(s) == run[s] = "none" /\ s = CHOOSE t \in Sessions : run[t] = "none"

\* Mutant: a session whose client is between two statements is taken for free.
ExecOnIdleSession(p) ==
    /\ Starting(p)
    /\ ~Waiting(p)
    /\ \E s \in Sessions :
          /\ IF conn[p] = NoSession THEN run[s] \in {"none", "idle"} ELSE s = conn[p]
          /\ run' = [run EXCEPT ![s] = First(pc[p])]
          /\ conn' = [conn EXCEPT ![p] = s]
    /\ UNCHANGED <<pc, failed, database, writer, faults>>

\* db.Exec: on the connection of the pool, or on a new one.
Exec(p) ==
    /\ Starting(p)
    /\ ~Waiting(p)
    /\ \E s \in Sessions :
          /\ IF conn[p] = NoSession THEN IsNew(s) ELSE s = conn[p]
          /\ run' = [run EXCEPT ![s] = First(pc[p])]
          /\ conn' = [conn EXCEPT ![p] = s]
    /\ UNCHANGED <<pc, failed, database, writer, faults>>

--------------------------------------------------------------------------------
\* The backend.

\* The backend is done with its statement; its process, if there is one, learns.
Reply(s, ok) ==
    /\ run' = [run EXCEPT ![s] = "idle"]
    /\ \/ \E p \in Processes : conn[p] = s /\ Return(p, ok, s)
       \/ (\A p \in Processes : conn[p] # s) /\ UNCHANGED processes

\* Mutant: pg_try_advisory_lock, the result not looked at.
TryLock(s) ==
    /\ run[s] = "lock"
    /\ holder' = IF holder = NoSession THEN s ELSE holder
    /\ Reply(s, TRUE)
    /\ UNCHANGED <<creator, schema, writer, faults>>

\* SELECT pg_advisory_lock(942834729).
GrantLock(s) ==
    /\ run[s] = "lock"
    /\ holder = NoSession
    /\ holder' = s
    /\ Reply(s, TRUE)
    /\ UNCHANGED <<creator, schema, writer, faults>>

\* Mutant: no deferred unlock.
NoUnlock(s) ==
    /\ run[s] = "unlock"
    /\ Reply(s, TRUE)
    /\ UNCHANGED <<database, writer, faults>>

\* SELECT pg_advisory_unlock(942834729): a warning where the lock is another's.
Unlock(s) ==
    /\ run[s] = "unlock"
    /\ holder' = IF holder = s THEN NoSession ELSE holder
    /\ Reply(s, TRUE)
    /\ UNCHANGED <<creator, schema, writer, faults>>

\* CREATE .. IF NOT EXISTS: what is committed decides.
CheckSchema(s) ==
    /\ run[s] = "check"
    /\ run' = [run EXCEPT ![s] = IF schema THEN "index1" ELSE "create"]
    /\ UNCHANGED <<processes, database, writer, faults>>

\* The new rows of the catalog are unique: one who creates the same waits for
\* the other to end, and fails if it committed.
CreateTables(s) ==
    /\ run[s] = "create"
    /\ creator = NoSession
    /\ \/ schema /\ Reply(s, FALSE) /\ UNCHANGED creator
       \/ ~schema /\ creator' = s /\ run' = [run EXCEPT ![s] = "index1"] /\ UNCHANGED processes
    /\ UNCHANGED <<holder, schema, writer, faults>>

\* Mutant: the index on answers first.
AnswersFirst == <<"answers", "submissions">>

\* The order of CREATE INDEX, the indexes on submissions taken as one.
IndexTables == <<"submissions", "answers">>

\* Tables the backend has a SHARE lock on, a process a ROW EXCLUSIVE lock.
Shares(s)  == {IndexTables[i] : i \in CASE run[s] = "index2" -> {1}
                                        [] run[s] = "commit" -> {1, 2}
                                        [] OTHER             -> {}}
Written(p) == CASE writer[p] = "submissions" -> {"submissions"}
                [] writer[p] = "answers"     -> {"submissions", "answers"}
                [] OTHER                     -> {}

\* The table whose lock the next CREATE INDEX asks for.
Wanted(s) == CASE run[s] = "index1" -> IndexTables[1] [] run[s] = "index2" -> IndexTables[2]

\* CREATE INDEX IF NOT EXISTS: locks the table first, then looks for the index.
CreateIndex(s) ==
    /\ run[s] \in {"index1", "index2"}
    /\ \A p \in Processes : Wanted(s) \notin Written(p)
    /\ run' = [run EXCEPT ![s] = IF run[s] = "index1" THEN "index2" ELSE "commit"]
    /\ UNCHANGED <<processes, database, writer, faults>>

\* The end of the batch.
Commit(s) ==
    /\ run[s] = "commit"
    /\ schema' = TRUE
    /\ creator' = IF creator = s THEN NoSession ELSE creator
    /\ Reply(s, TRUE)
    /\ UNCHANGED <<holder, writer, faults>>

\* The session ends: its transaction is rolled back, its advisory lock released.
End(s) ==
    /\ run' = [run EXCEPT ![s] = "none"]
    /\ holder' = IF holder = s THEN NoSession ELSE holder
    /\ creator' = IF creator = s THEN NoSession ELSE creator
    /\ UNCHANGED <<schema, writer>>

\* Nothing to do, and the client is gone.
Hangup(s) ==
    /\ run[s] = "idle"
    /\ \A p \in Processes : conn[p] # s
    /\ End(s)
    /\ UNCHANGED <<processes, faults>>

Backend(s) ==
    \/ GrantLock(s) \/ Unlock(s)
    \/ CheckSchema(s) \/ CreateTables(s) \/ CreateIndex(s) \/ Commit(s)
    \/ Hangup(s)

--------------------------------------------------------------------------------
\* Requests of a server that runs: InsertSubmission, and the cascade of
\* DeleteSurveyByID, write to submissions before answers.

Shared(table) == \E s \in Sessions : table \in Shares(s)

BeginWrite(p) ==
    /\ pc[p] = "serving"
    /\ writer[p] = "none"
    /\ ~Shared("submissions")
    /\ writer' = [writer EXCEPT ![p] = "submissions"]
    /\ UNCHANGED <<processes, run, database, faults>>

WriteAnswers(p) ==
    /\ writer[p] = "submissions"
    /\ ~Shared("answers")
    /\ writer' = [writer EXCEPT ![p] = "answers"]
    /\ UNCHANGED <<processes, run, database, faults>>

EndWrite(p) ==
    /\ writer[p] = "answers"
    /\ writer' = [writer EXCEPT ![p] = "none"]
    /\ UNCHANGED <<processes, run, database, faults>>

--------------------------------------------------------------------------------
\* Faults.

Fault == faults < MaxFaults /\ faults' = faults + 1

\* The process ends; the backends of its sessions do not know yet.
Crash(p) ==
    /\ pc[p] # "down"
    /\ Fault
    /\ pc' = [pc EXCEPT ![p] = "down"]
    /\ conn' = [conn EXCEPT ![p] = NoSession]
    /\ UNCHANGED <<failed, run, database, writer>>

\* The process gives a connection up whose backend lives on.
LoseReply(p) ==
    /\ Waiting(p)
    /\ Fault
    /\ Return(p, FALSE, NoSession)
    /\ UNCHANGED <<run, database, writer>>

\* The backend ends.  The process gets an error, or the driver sends the
\* statement again in a new session; between statements it does not notice.
Terminate(s) ==
    /\ run[s] # "none"
    /\ Fault
    /\ End(s)
    /\ \/ \E p \in Processes : conn[p] = s /\ Waiting(p) /\ Return(p, FALSE, NoSession)
       \/ /\ conn' = [p \in Processes |-> IF conn[p] = s THEN NoSession ELSE conn[p]]
          /\ UNCHANGED <<pc, failed>>

Next ==
    \/ \E p \in Processes :
          \/ Start(p) \/ Exec(p)
          \/ BeginWrite(p) \/ WriteAnswers(p) \/ EndWrite(p)
          \/ Crash(p) \/ LoseReply(p)
    \/ \E s \in Sessions : Backend(s) \/ Terminate(s)

Spec == Init /\ [][Next]_vars

\* docker-compose.yml:20 starts a server again that ended; lock queues are first
\* come, first served, so a lock that is free again and again is granted.
Fairness ==
    /\ \A p \in Processes :
          /\ WF_vars(Start(p)) /\ SF_vars(Exec(p))
          /\ SF_vars(WriteAnswers(p)) /\ WF_vars(EndWrite(p))
    /\ \A s \in Sessions : SF_vars(Backend(s))

FairSpec == Spec /\ Fairness

--------------------------------------------------------------------------------
\* Properties.

\* The type invariant; two processes never share a session.
TypeOK ==
    /\ pc \in [Processes -> {"down", "lock", "ddl", "unlock", "serving"}]
    /\ failed \subseteq Processes
    /\ conn \in [Processes -> Sessions \cup {NoSession}]
    /\ run \in [Sessions -> {"none", "idle", "lock", "check", "create", "index1", "index2",
                             "commit", "unlock"}]
    /\ holder \in Sessions \cup {NoSession}
    /\ creator \in Sessions \cup {NoSession}
    /\ schema \in BOOLEAN
    /\ writer \in [Processes -> {"none", "submissions", "answers"}]
    /\ faults \in 0..MaxFaults
    /\ \A p, q \in Processes : conn[p] = conn[q] /\ conn[p] # NoSession => p = q

\* A server that serves has the whole schema, whichever of its sessions broke and
\* whoever created the tables (main.go:30-32, db.go:96-109).
ServesOnlyWithSchema == \A p \in Processes : pc[p] = "serving" => schema

\* Without a fault no start fails because another creates the same tables, in
\* any order of their statements (db.go:97).
StartsDontClash == failed # {} => faults > 0

\* Whatever breaks, when the faults are over every configured server is up in the
\* end, and stays up: no lock is left behind, and no start fails twice for the
\* tables of another (db.go:97-102, docker-compose.yml:20).
EventuallyServes == \A p \in Processes : Configured(p) => <>[](pc[p] = "serving")

\* A start delays the writes of the servers that run, and stops none for ever: it
\* never waits for a write that waits for it (db.go:72-75, 472, 489).
WritersFinish == \A p \in Processes : writer[p] # "none" ~> writer[p] = "none"
================================================================================
