----------------------------- MODULE StartupProofs -----------------------------
(***************************************************************************)
(* Theorems about Startup, for any number of processes, sessions and       *)
(* faults, and any environment.                                            *)
(*                                                                         *)
(* The argument: a session runs only what its process waits for            *)
(* (SessionsFollow); a process past its batch knows the outcome of that    *)
(* batch (OutcomeKnown); and as long as nothing broke, who is between lock *)
(* and unlock still has the session that holds the lock (LockedBatch), so  *)
(* that what it found missing is still missing when it creates it.         *)
(***************************************************************************)
EXTENDS Startup, TLAPS

BatchStages == {"check", "create", "index1", "index2", "commit"}

\* What a session may do for a process that is at `statement`.
Stages(statement) ==
    CASE statement = "lock"    -> {"idle", "lock"}
      [] statement = "ddl"     -> {"idle"} \cup BatchStages
      [] statement = "unlock"  -> {"idle", "unlock"}
      [] statement = "serving" -> {"idle"}
      [] OTHER                 -> {}

SessionsFollow ==
    \A p \in Processes : conn[p] # NoSession => run[conn[p]] \in Stages(pc[p])

OutcomeKnown ==
    \A p \in Processes :
        \/ pc[p] = "serving"
        \/ pc[p] = "unlock" /\ p \notin failed
        => schema

LockedBatch ==
    /\ failed = {}
    /\ \A p \in Processes : pc[p] \in {"ddl", "unlock"} => conn[p] # NoSession /\ conn[p] = holder
    /\ \A s \in Sessions : run[s] \in BatchStages => holder = s
    /\ \A s \in Sessions : run[s] = "create" => ~schema

IInv ==
    /\ TypeOK
    /\ SessionsFollow
    /\ OutcomeKnown
    /\ faults = 0 => LockedBatch

--------------------------------------------------------------------------------

\* What a statement that returns does to its process.
LEMMA AfterStatementType ==
    ASSUME NEW p \in Processes, NEW ok \in BOOLEAN, pc[p] \in {"lock", "ddl", "unlock"}
    PROVE  /\ AfterStatement(p, ok) \in {"ddl", "unlock", "serving", "down"}
           /\ AfterStatement(p, ok) = "ddl" => pc[p] = "lock" /\ ok
           /\ AfterStatement(p, ok) = "unlock" => pc[p] = "ddl"
           /\ AfterStatement(p, ok) = "serving" => pc[p] = "unlock" /\ p \notin failed
           /\ pc[p] = "lock" /\ ok => AfterStatement(p, ok) = "ddl"
           /\ pc[p] = "ddl" => AfterStatement(p, ok) = "unlock"
           /\ pc[p] = "unlock" => AfterStatement(p, ok) \in {"serving", "down"}
BY SMTT(30) DEF AfterStatement

\* The start is no special case: nothing runs yet.
LEMMA InitIInv == Init => IInv
<1> SUFFICES ASSUME Init PROVE IInv
    OBVIOUS
<1> USE DEF Init
<1>1. TypeOK
    BY StartupAssumption DEF TypeOK
<1>2. SessionsFollow
    BY DEF SessionsFollow
<1>3. OutcomeKnown
    BY DEF OutcomeKnown
<1>4. LockedBatch
    BY DEF LockedBatch, BatchStages
<1> QED
    BY <1>1, <1>2, <1>3, <1>4 DEF IInv

--------------------------------------------------------------------------------
\* What a statement that returns, with a session or without, leaves alone.

\* The process of a session that is at work waits for it, and no other does.
LEMMA ReturnKeeps ==
    ASSUME TypeOK, SessionsFollow, NEW p \in Processes, NEW ok \in BOOLEAN,
           NEW s \in Sessions \cup {NoSession}, s = conn[p] \/ s = NoSession,
           Starting(p), Return(p, ok, s)
    PROVE  /\ pc' \in [Processes -> {"down", "lock", "ddl", "unlock", "serving"}]
           /\ failed' \subseteq Processes
           /\ conn' \in [Processes -> Sessions \cup {NoSession}]
           /\ \A q \in Processes \ {p} : pc'[q] = pc[q] /\ conn'[q] = conn[q]
           /\ pc'[p] = AfterStatement(p, ok)
           /\ conn'[p] = IF AfterStatement(p, ok) = "down" THEN NoSession ELSE s
           /\ failed' = IF pc[p] = "ddl" /\ ~ok THEN failed \cup {p} ELSE failed
<1>1. AfterStatement(p, ok) \in {"ddl", "unlock", "serving", "down"}
    BY AfterStatementType DEF Starting
<1> QED
    BY <1>1 DEF Return, TypeOK

\* What the answer of session s changes.
Answered(s, ok) ==
    /\ pc' \in [Processes -> {"down", "lock", "ddl", "unlock", "serving"}]
    /\ failed' \subseteq Processes
    /\ conn' \in [Processes -> Sessions \cup {NoSession}]
    /\ run' = [run EXCEPT ![s] = "idle"]
    /\ \A p, q \in Processes : conn'[p] = conn'[q] /\ conn'[p] # NoSession => p = q
    /\ SessionsFollow'
    /\ \A q \in Processes : conn[q] # s => pc'[q] = pc[q] /\ conn'[q] = conn[q]
    /\ \A p \in Processes : conn[p] = s =>
          /\ Starting(p)
          /\ pc'[p] = AfterStatement(p, ok)
          /\ conn'[p] = IF AfterStatement(p, ok) = "down" THEN NoSession ELSE s
    /\ failed' = IF ok THEN failed
                 ELSE failed \cup {p \in Processes : conn[p] = s /\ pc[p] = "ddl"}

\* A backend that was at a statement and answers has Answered.
LEMMA ReplyKeeps ==
    ASSUME TypeOK, SessionsFollow, NEW s \in Sessions, NEW ok \in BOOLEAN,
           run[s] \notin {"none", "idle"}, Reply(s, ok)
    PROVE  Answered(s, ok)
<1>1. run' = [run EXCEPT ![s] = "idle"]
    BY DEF Reply
<1>2. s # NoSession
    BY StartupAssumption
<1>3. ASSUME NEW p \in Processes, conn[p] = s
      PROVE  Starting(p)
    <2>1. run[s] \in Stages(pc[p])
        BY <1>2, <1>3 DEF SessionsFollow
    <2> QED
        BY <2>1 DEF Stages, Starting, TypeOK
<1>4. CASE \A p \in Processes : conn[p] # s
    <2>1. UNCHANGED processes
        BY <1>4 DEF Reply
    <2>2. SessionsFollow'
        BY <1>1, <1>4, <2>1 DEF SessionsFollow, processes, TypeOK
    <2> QED
        BY <1>1, <1>4, <2>1, <2>2 DEF processes, TypeOK, Answered
<1>5. ASSUME NEW p \in Processes, conn[p] = s, Return(p, ok, s)
      PROVE  Answered(s, ok)
    <2>1. Starting(p)
        BY <1>3, <1>5
    <2>2. \A q \in Processes : conn[q] = s <=> q = p
        BY <1>2, <1>5 DEF TypeOK
    <2>3. /\ pc' \in [Processes -> {"down", "lock", "ddl", "unlock", "serving"}]
          /\ failed' \subseteq Processes
          /\ conn' \in [Processes -> Sessions \cup {NoSession}]
          /\ \A q \in Processes \ {p} : pc'[q] = pc[q] /\ conn'[q] = conn[q]
          /\ pc'[p] = AfterStatement(p, ok)
          /\ conn'[p] = IF AfterStatement(p, ok) = "down" THEN NoSession ELSE s
          /\ failed' = IF pc[p] = "ddl" /\ ~ok THEN failed \cup {p} ELSE failed
        BY <1>5, <2>1, ReturnKeeps
    <2>4. failed' = IF ok THEN failed
                    ELSE failed \cup {q \in Processes : conn[q] = s /\ pc[q] = "ddl"}
        BY <2>2, <2>3
    <2>5. \A q, r \in Processes : conn'[q] = conn'[r] /\ conn'[q] # NoSession => q = r
        BY <1>2, <1>5, <2>2, <2>3 DEF TypeOK
    <2>6. AfterStatement(p, ok) \in {"ddl", "unlock", "serving", "down"}
        BY <2>1, AfterStatementType DEF Starting
    <2>7. SessionsFollow'
        <3> SUFFICES ASSUME NEW q \in Processes, conn'[q] # NoSession
                     PROVE  run'[conn'[q]] \in Stages(pc'[q])
            BY DEF SessionsFollow, Stages
        <3>1. CASE q = p
            <4>1. conn'[p] = s /\ pc'[p] \in {"ddl", "unlock", "serving"}
                BY <2>3, <2>6, <3>1
            <4>2. run'[s] = "idle"
                BY <1>1 DEF TypeOK
            <4> QED
                BY <3>1, <4>1, <4>2 DEF Stages
        <3>2. CASE q # p
            <4>1. conn'[q] = conn[q] /\ pc'[q] = pc[q] /\ conn[q] # s
                BY <2>2, <2>3, <3>2
            <4>2. run'[conn[q]] = run[conn[q]]
                BY <1>1, <4>1 DEF TypeOK
            <4> QED
                BY <4>1, <4>2 DEF SessionsFollow
        <3> QED
            BY <3>1, <3>2
    <2> QED
        BY <1>1, <1>3, <2>2, <2>3, <2>4, <2>5, <2>7 DEF Answered
<1> QED
    BY <1>4, <1>5 DEF Reply

--------------------------------------------------------------------------------
\* One lemma for each kind of step.

\* Start, Exec: no session answers.
LEMMA ProcessStep ==
    ASSUME IInv, NEW p \in Processes, Start(p) \/ Exec(p)
    PROVE  IInv'
<1> USE DEF IInv
<1>1. CASE Start(p)
    <2> USE <1>1 DEF Start, database
    <2>1. TypeOK'
        BY DEF TypeOK
    <2>2. conn[p] = NoSession
        BY DEF SessionsFollow, Stages, TypeOK
    <2>3. SessionsFollow'
        BY <2>2 DEF SessionsFollow, Stages, TypeOK
    <2>4. OutcomeKnown'
        BY DEF OutcomeKnown, TypeOK
    <2>5. faults' = 0 => LockedBatch'
        BY DEF LockedBatch, TypeOK
    <2> QED
        BY <2>1, <2>3, <2>4, <2>5
<1>2. CASE Exec(p)
    <2>1. PICK s \in Sessions :
             /\ IF conn[p] = NoSession THEN run[s] = "none" ELSE s = conn[p]
             /\ run' = [run EXCEPT ![s] = First(pc[p])]
             /\ conn' = [conn EXCEPT ![p] = s]
        BY <1>2 DEF Exec, IsNew
    <2>2. /\ UNCHANGED <<pc, failed, holder, creator, schema, writer, faults>>
          /\ pc[p] \in {"lock", "ddl", "unlock"}
        BY <1>2 DEF Exec, Starting, database
    <2>3. s # NoSession
        BY StartupAssumption
    <2>4. \A q \in Processes \ {p} : conn[q] # s
        <3> SUFFICES ASSUME NEW q \in Processes \ {p}, conn[q] = s PROVE FALSE
            OBVIOUS
        <3>1. run[s] \in Stages(pc[q])
            BY <2>3 DEF SessionsFollow
        <3>2. run[s] # "none"
            BY <3>1 DEF Stages, BatchStages, TypeOK
        <3> QED
            BY <2>1, <2>3, <3>2 DEF TypeOK
    <2>5. First(pc[p]) \in {"lock", "check", "unlock"} /\ First(pc[p]) \in Stages(pc[p])
        BY <2>2 DEF First, Stages, BatchStages
    <2>6. TypeOK'
        BY <2>1, <2>2, <2>4, <2>5 DEF TypeOK
    <2>7. SessionsFollow'
        <3> SUFFICES ASSUME NEW q \in Processes, conn'[q] # NoSession
                     PROVE  run'[conn'[q]] \in Stages(pc'[q])
            BY DEF SessionsFollow, Stages
        <3>1. CASE q = p
            BY <2>1, <2>2, <2>5, <3>1 DEF TypeOK
        <3>2. CASE q # p
            <4>1. conn'[q] = conn[q] /\ run'[conn[q]] = run[conn[q]]
                BY <2>1, <2>4, <3>2 DEF TypeOK
            <4> QED
                BY <2>2, <4>1 DEF SessionsFollow
        <3> QED
            BY <3>1, <3>2
    <2>8. OutcomeKnown'
        BY <2>2 DEF OutcomeKnown
    <2>9. ASSUME faults' = 0
          PROVE  LockedBatch'
        <3>1. LockedBatch
            BY <2>2, <2>9
        <3>2. pc[p] \in {"ddl", "unlock"} => s = conn[p] /\ s = holder
            BY <2>1, <3>1 DEF LockedBatch
        <3>3. First(pc[p]) \in BatchStages => pc[p] = "ddl"
            BY <2>2 DEF First, BatchStages
        <3> QED
            BY <2>1, <2>2, <2>3, <2>5, <3>1, <3>2, <3>3 DEF LockedBatch, TypeOK
    <2> QED
        BY <2>6, <2>7, <2>8, <2>9
<1> QED
    BY <1>1, <1>2

\* CheckSchema, CreateTables, CreateIndex: a statement goes on.
LEMMA StageStep ==
    ASSUME IInv, NEW s \in Sessions, NEW stage \in BatchStages, run[s] \in BatchStages,
           run' = [run EXCEPT ![s] = stage], UNCHANGED <<processes, holder, schema, writer, faults>>,
           creator' \in Sessions \cup {NoSession}, stage = "create" => ~schema
    PROVE  IInv'
<1> USE DEF IInv, processes
<1>1. TypeOK'
    BY DEF TypeOK, BatchStages
<1>2. SessionsFollow'
    <2> SUFFICES ASSUME NEW q \in Processes, conn[q] # NoSession
                 PROVE  run'[conn[q]] \in Stages(pc[q])
        BY DEF SessionsFollow, Stages
    <2>1. run[conn[q]] \in Stages(pc[q])
        BY DEF SessionsFollow
    <2>2. CASE conn[q] = s
        <3>1. pc[q] = "ddl"
            BY <2>1, <2>2 DEF Stages, BatchStages
        <3> QED
            BY <2>2, <3>1 DEF Stages, TypeOK
    <2>3. CASE conn[q] # s
        BY <2>1, <2>3 DEF TypeOK
    <2> QED
        BY <2>2, <2>3
<1>3. OutcomeKnown'
    BY DEF OutcomeKnown
<1>4. faults' = 0 => LockedBatch'
    BY DEF LockedBatch, TypeOK
<1> QED
    BY <1>1, <1>2, <1>3, <1>4

\* SELECT pg_advisory_lock returns.
LEMMA LockStep ==
    ASSUME IInv, NEW s \in Sessions, GrantLock(s)
    PROVE  IInv'
<1>a. /\ TypeOK /\ SessionsFollow /\ OutcomeKnown
      /\ faults = 0 => LockedBatch
    BY DEF IInv
<1>1. /\ run[s] = "lock" /\ holder = NoSession /\ holder' = s /\ Reply(s, TRUE)
      /\ UNCHANGED <<creator, schema, writer, faults>>
    BY DEF GrantLock
<1>2. s # NoSession
    BY StartupAssumption
<1>b. Answered(s, TRUE)
    BY <1>a, <1>1, ReplyKeeps
<1>3. \A p \in Processes : conn[p] = s => pc[p] = "lock"
    BY <1>a, <1>1, <1>2 DEF SessionsFollow, Stages, BatchStages, TypeOK
<1>4. \A p \in Processes : conn[p] = s => pc'[p] = "ddl" /\ conn'[p] = s
    <2> SUFFICES ASSUME NEW p \in Processes, conn[p] = s
                 PROVE  pc'[p] = "ddl" /\ conn'[p] = s
        OBVIOUS
    <2>1. AfterStatement(p, TRUE) = "ddl"
        BY <1>3, AfterStatementType
    <2> QED
        BY <1>b, <2>1 DEF Answered
<1>5. \A p \in Processes : conn[p] # s => pc'[p] = pc[p] /\ conn'[p] = conn[p]
    BY <1>b DEF Answered
<1>6. failed' = failed /\ run' = [run EXCEPT ![s] = "idle"]
    BY <1>b DEF Answered
<1>7. TypeOK'
    BY <1>a, <1>b, <1>1 DEF Answered, TypeOK
<1>8. SessionsFollow'
    BY <1>b DEF Answered
<1>9. OutcomeKnown'
    BY <1>a, <1>1, <1>4, <1>5, <1>6 DEF OutcomeKnown
<1>10. ASSUME faults' = 0
       PROVE  LockedBatch'
    <2>1. LockedBatch
        BY <1>a, <1>1, <1>10
    <2>2. \A t \in Sessions : run'[t] \notin BatchStages
        <3> SUFFICES ASSUME NEW t \in Sessions PROVE run'[t] \notin BatchStages
            OBVIOUS
        <3>1. run[t] \notin BatchStages
            BY <1>1, <2>1, StartupAssumption DEF LockedBatch
        <3> QED
            BY <1>a, <1>6, <3>1 DEF BatchStages, TypeOK
    <2>3. \A p \in Processes : pc'[p] \in {"ddl", "unlock"} =>
              conn'[p] # NoSession /\ conn'[p] = holder'
        BY <1>1, <1>2, <1>4, <1>5, <2>1 DEF LockedBatch
    <2> QED
        BY <1>6, <2>1, <2>2, <2>3 DEF LockedBatch, BatchStages
<1> QED
    BY <1>7, <1>8, <1>9, <1>10 DEF IInv

\* SELECT pg_advisory_unlock returns.
LEMMA UnlockStep ==
    ASSUME IInv, NEW s \in Sessions, Unlock(s)
    PROVE  IInv'
<1>a. /\ TypeOK /\ SessionsFollow /\ OutcomeKnown
      /\ faults = 0 => LockedBatch
    BY DEF IInv
<1>1. /\ run[s] = "unlock" /\ holder' = (IF holder = s THEN NoSession ELSE holder)
      /\ Reply(s, TRUE) /\ UNCHANGED <<creator, schema, writer, faults>>
    BY DEF Unlock
<1>2. s # NoSession
    BY StartupAssumption
<1>b. Answered(s, TRUE)
    BY <1>a, <1>1, ReplyKeeps
<1>3. \A p \in Processes : conn[p] = s => pc[p] = "unlock"
    BY <1>a, <1>1, <1>2 DEF SessionsFollow, Stages, BatchStages, TypeOK
<1>4. \A p \in Processes : conn[p] = s =>
          pc'[p] = "down" \/ (pc'[p] = "serving" /\ p \notin failed)
    <2> SUFFICES ASSUME NEW p \in Processes, conn[p] = s
                 PROVE  pc'[p] = "down" \/ (pc'[p] = "serving" /\ p \notin failed)
        OBVIOUS
    <2>1. /\ AfterStatement(p, TRUE) \in {"serving", "down"}
          /\ AfterStatement(p, TRUE) = "serving" => p \notin failed
        BY <1>3, AfterStatementType
    <2> QED
        BY <1>b, <2>1 DEF Answered
<1>5. \A p \in Processes : conn[p] # s => pc'[p] = pc[p] /\ conn'[p] = conn[p]
    BY <1>b DEF Answered
<1>6. failed' = failed /\ run' = [run EXCEPT ![s] = "idle"]
    BY <1>b DEF Answered
<1>7. TypeOK'
    BY <1>a, <1>b, <1>1 DEF Answered, TypeOK
<1>8. SessionsFollow'
    BY <1>b DEF Answered
<1>9. OutcomeKnown'
    BY <1>a, <1>1, <1>3, <1>4, <1>5, <1>6 DEF OutcomeKnown
<1>10. faults' = 0 => LockedBatch'
    BY <1>a, <1>1, <1>2, <1>3, <1>4, <1>5, <1>6 DEF LockedBatch, BatchStages, TypeOK
<1> QED
    BY <1>7, <1>8, <1>9, <1>10 DEF IInv

\* The batch returns: committed, or because the tables appeared meanwhile.
LEMMA BatchStep ==
    ASSUME IInv, NEW s \in Sessions, NEW ok \in BOOLEAN, Reply(s, ok),
           run[s] \in BatchStages, creator' \in Sessions \cup {NoSession},
           schema' = (schema \/ ok), UNCHANGED <<holder, writer, faults>>,
           ~ok => run[s] = "create" /\ schema
    PROVE  IInv'
<1>a. /\ TypeOK /\ SessionsFollow /\ OutcomeKnown
      /\ faults = 0 => LockedBatch
    BY DEF IInv
<1>1. s # NoSession /\ run[s] \notin {"none", "idle"}
    BY StartupAssumption DEF BatchStages
<1>b. Answered(s, ok)
    BY <1>a, <1>1, ReplyKeeps
<1>2. \A p \in Processes : conn[p] = s => pc[p] = "ddl"
    BY <1>a, <1>1 DEF SessionsFollow, Stages, BatchStages, TypeOK
<1>3. \A p \in Processes : conn[p] = s => pc'[p] = "unlock" /\ conn'[p] = s
    <2> SUFFICES ASSUME NEW p \in Processes, conn[p] = s
                 PROVE  pc'[p] = "unlock" /\ conn'[p] = s
        OBVIOUS
    <2>1. AfterStatement(p, ok) = "unlock"
        BY <1>2, AfterStatementType
    <2> QED
        BY <1>b, <2>1 DEF Answered
<1>4. \A p \in Processes : conn[p] # s => pc'[p] = pc[p] /\ conn'[p] = conn[p]
    BY <1>b DEF Answered
<1>5. run' = [run EXCEPT ![s] = "idle"]
    BY <1>b DEF Answered
<1>6. failed' = IF ok THEN failed ELSE failed \cup {p \in Processes : conn[p] = s}
    <2>1. failed' = IF ok THEN failed
                    ELSE failed \cup {p \in Processes : conn[p] = s /\ pc[p] = "ddl"}
        BY <1>b DEF Answered
    <2> QED
        BY <1>2, <2>1
<1>7. TypeOK'
    <2>1. schema' \in BOOLEAN
        BY <1>a DEF TypeOK
    <2> QED
        BY <1>a, <1>b, <1>5, <2>1 DEF Answered, TypeOK
<1>8. SessionsFollow'
    BY <1>b DEF Answered
<1>9. OutcomeKnown'
    BY <1>a, <1>2, <1>3, <1>4, <1>6 DEF OutcomeKnown, TypeOK
<1>10. ASSUME faults' = 0
       PROVE  LockedBatch'
    <2>1. LockedBatch
        BY <1>a, <1>10
    <2>2. ok
        BY <2>1 DEF LockedBatch
    <2>3. \A t \in Sessions \ {s} : run[t] \notin BatchStages
        BY <2>1 DEF LockedBatch
    <2>4. \A t \in Sessions : run'[t] \notin BatchStages
        BY <1>a, <1>5, <2>3 DEF TypeOK, BatchStages
    <2>5. \A p \in Processes : pc'[p] \in {"ddl", "unlock"} =>
              conn'[p] # NoSession /\ conn'[p] = holder'
        BY <1>1, <1>2, <1>3, <1>4, <2>1 DEF LockedBatch
    <2>6. failed' = {}
        BY <1>6, <2>1, <2>2 DEF LockedBatch
    <2> QED
        BY <2>4, <2>5, <2>6 DEF LockedBatch, BatchStages
<1> QED
    BY <1>7, <1>8, <1>9, <1>10 DEF IInv

\* A backend whose client is gone.
LEMMA HangupStep ==
    ASSUME IInv, NEW s \in Sessions, Hangup(s)
    PROVE  IInv'
<1> USE DEF IInv, Hangup, End, processes
<1>1. TypeOK'
    BY DEF TypeOK
<1>2. SessionsFollow'
    BY DEF SessionsFollow, TypeOK
<1>3. OutcomeKnown'
    BY DEF OutcomeKnown
<1>4. faults' = 0 => LockedBatch'
    BY DEF LockedBatch, BatchStages, TypeOK
<1> QED
    BY <1>1, <1>2, <1>3, <1>4

\* Every step of a backend.
LEMMA BackendStep ==
    ASSUME IInv, NEW s \in Sessions, Backend(s)
    PROVE  IInv'
<1>1. CASE CheckSchema(s)
    <2> DEFINE stage == IF schema THEN "index1" ELSE "create"
    <2>1. stage \in BatchStages /\ run[s] \in BatchStages /\ (stage = "create" => ~schema)
        BY <1>1 DEF CheckSchema, BatchStages
    <2>2. run' = [run EXCEPT ![s] = stage]
        BY <1>1 DEF CheckSchema
    <2>3. /\ UNCHANGED <<processes, holder, schema, writer, faults>>
          /\ creator' \in Sessions \cup {NoSession}
        BY <1>1 DEF CheckSchema, database, IInv, TypeOK
    <2> HIDE DEF stage
    <2> QED
        BY <2>1, <2>2, <2>3, StageStep
<1>2. CASE CreateTables(s)
    <2>1. CASE ~schema /\ creator' = s /\ run' = [run EXCEPT ![s] = "index1"] /\ UNCHANGED processes
        BY <1>2, <2>1, StageStep DEF CreateTables, BatchStages
    <2>2. CASE schema /\ Reply(s, FALSE) /\ UNCHANGED creator
        <3>1. run[s] \in BatchStages /\ creator' \in Sessions \cup {NoSession}
            BY <1>2, <2>2 DEF CreateTables, BatchStages, IInv, TypeOK
        <3>2. schema' = (schema \/ FALSE)
            BY <1>2, <2>2 DEF CreateTables, IInv, TypeOK
        <3>3. run[s] = "create" /\ UNCHANGED <<holder, writer, faults>>
            BY <1>2 DEF CreateTables
        <3> QED
            BY <2>2, <3>1, <3>2, <3>3, BatchStep
    <2> QED
        BY <1>2, <2>1, <2>2 DEF CreateTables
<1>3. CASE CreateIndex(s)
    <2> DEFINE stage == IF run[s] = "index1" THEN "index2" ELSE "commit"
    <2>1. stage \in BatchStages /\ run[s] \in BatchStages /\ stage # "create"
        BY <1>3 DEF CreateIndex, BatchStages
    <2>2. run' = [run EXCEPT ![s] = stage]
        BY <1>3 DEF CreateIndex
    <2>3. /\ UNCHANGED <<processes, holder, schema, writer, faults>>
          /\ creator' \in Sessions \cup {NoSession}
        BY <1>3 DEF CreateIndex, database, IInv, TypeOK
    <2> HIDE DEF stage
    <2> QED
        BY <2>1, <2>2, <2>3, StageStep
<1>4. CASE Commit(s)
    <2>1. run[s] \in BatchStages /\ creator' \in Sessions \cup {NoSession}
        BY <1>4 DEF Commit, BatchStages, IInv, TypeOK
    <2>2. schema' = (schema \/ TRUE) /\ Reply(s, TRUE) /\ UNCHANGED <<holder, writer, faults>>
        BY <1>4 DEF Commit
    <2> QED
        BY <2>1, <2>2, BatchStep
<1> QED
    BY <1>1, <1>2, <1>3, <1>4, LockStep, UnlockStep, HangupStep DEF Backend

\* Requests touch only the tables.
LEMMA WriteStep ==
    ASSUME IInv, NEW p \in Processes, BeginWrite(p) \/ WriteAnswers(p) \/ EndWrite(p)
    PROVE  IInv'
<1>1. UNCHANGED <<pc, failed, conn, run, holder, creator, schema, faults>>
    BY DEF BeginWrite, WriteAnswers, EndWrite, processes, database
<1>2. writer' \in [Processes -> {"none", "submissions", "answers"}]
    BY DEF BeginWrite, WriteAnswers, EndWrite, IInv, TypeOK
<1>3. TypeOK'
    BY <1>1, <1>2 DEF IInv, TypeOK
<1> QED
    BY <1>1, <1>3 DEF IInv, SessionsFollow, OutcomeKnown, LockedBatch, Stages

\* Faults: of the invariant only what is not about the lock remains to be shown.
LEMMA FaultStep ==
    ASSUME IInv, \/ \E p \in Processes : Crash(p) \/ LoseReply(p)
                 \/ \E s \in Sessions : Terminate(s)
    PROVE  IInv'
<1> USE DEF IInv
<1>1. faults' \in 0..MaxFaults /\ faults' # 0
    <2>1. Fault
        BY DEF Crash, LoseReply, Terminate
    <2>2. faults \in 0..MaxFaults /\ MaxFaults \in Nat
        BY StartupAssumption DEF TypeOK
    <2> QED
        BY <2>1, <2>2 DEF Fault
<1>2. ASSUME NEW p \in Processes, Crash(p)
      PROVE  IInv'
    <2> USE <1>2 DEF Crash, database
    <2>1. TypeOK'
        BY <1>1 DEF TypeOK
    <2>2. SessionsFollow'
        BY DEF SessionsFollow, TypeOK
    <2>3. OutcomeKnown'
        BY DEF OutcomeKnown, TypeOK
    <2> QED
        BY <1>1, <2>1, <2>2, <2>3
<1>3. ASSUME NEW p \in Processes, LoseReply(p)
      PROVE  IInv'
    <2>1. /\ Starting(p) /\ Return(p, FALSE, NoSession)
          /\ UNCHANGED <<run, holder, creator, schema, writer>>
        BY <1>3 DEF LoseReply, Waiting, database
    <2>2. pc[p] \in {"lock", "ddl", "unlock"}
        BY <2>1 DEF Starting
    <2>3. /\ pc' \in [Processes -> {"down", "lock", "ddl", "unlock", "serving"}]
          /\ failed' \subseteq Processes
          /\ conn' \in [Processes -> Sessions \cup {NoSession}]
          /\ \A q \in Processes \ {p} : pc'[q] = pc[q] /\ conn'[q] = conn[q]
          /\ pc'[p] = AfterStatement(p, FALSE)
          /\ conn'[p] = NoSession
          /\ failed' = IF pc[p] = "ddl" THEN failed \cup {p} ELSE failed
        BY <2>1, ReturnKeeps
    <2>4. TypeOK'
        BY <1>1, <2>1, <2>3 DEF TypeOK
    <2>5. SessionsFollow'
        BY <2>1, <2>3 DEF SessionsFollow
    <2>6. OutcomeKnown'
        BY <2>1, <2>2, <2>3, AfterStatementType DEF OutcomeKnown
    <2> QED
        BY <1>1, <2>4, <2>5, <2>6
<1>4. ASSUME NEW s \in Sessions, Terminate(s)
      PROVE  IInv'
    <2>1. End(s) /\ s # NoSession
        BY <1>4, StartupAssumption DEF Terminate
    <2>2. /\ run' = [run EXCEPT ![s] = "none"]
          /\ holder' \in Sessions \cup {NoSession} /\ creator' \in Sessions \cup {NoSession}
          /\ UNCHANGED <<schema, writer>>
        BY <2>1 DEF End, TypeOK
    <2>3. ASSUME NEW p \in Processes, conn[p] = s, Waiting(p), Return(p, FALSE, NoSession)
          PROVE  IInv'
        <3>1. Starting(p) /\ pc[p] \in {"lock", "ddl", "unlock"}
            BY <2>3 DEF Waiting, Starting
        <3>2. /\ pc' \in [Processes -> {"down", "lock", "ddl", "unlock", "serving"}]
              /\ failed' \subseteq Processes
              /\ conn' \in [Processes -> Sessions \cup {NoSession}]
              /\ \A q \in Processes \ {p} : pc'[q] = pc[q] /\ conn'[q] = conn[q]
              /\ pc'[p] = AfterStatement(p, FALSE)
              /\ conn'[p] = NoSession
              /\ failed' = IF pc[p] = "ddl" THEN failed \cup {p} ELSE failed
            BY <2>3, <3>1, ReturnKeeps
        <3>3. \A q \in Processes \ {p} : conn[q] # s
            BY <2>1, <2>3 DEF TypeOK
        <3>4. TypeOK'
            BY <1>1, <2>2, <3>2 DEF TypeOK
        <3>5. SessionsFollow'
            BY <2>2, <3>2, <3>3 DEF SessionsFollow, TypeOK
        <3>6. OutcomeKnown'
            BY <2>2, <3>1, <3>2, AfterStatementType DEF OutcomeKnown
        <3> QED
            BY <1>1, <3>4, <3>5, <3>6
    <2>4. ASSUME conn' = [p \in Processes |-> IF conn[p] = s THEN NoSession ELSE conn[p]],
                 UNCHANGED <<pc, failed>>
          PROVE  IInv'
        <3>1. TypeOK'
            BY <1>1, <2>2, <2>4 DEF TypeOK
        <3>2. SessionsFollow'
            BY <2>2, <2>4 DEF SessionsFollow, TypeOK
        <3>3. OutcomeKnown'
            BY <2>2, <2>4 DEF OutcomeKnown
        <3> QED
            BY <1>1, <3>1, <3>2, <3>3
    <2> QED
        BY <1>4, <2>3, <2>4 DEF Terminate
<1> QED
    BY <1>2, <1>3, <1>4

\* Every step keeps the invariant.
LEMMA NextIInv == IInv /\ [Next]_vars => IInv'
<1> SUFFICES ASSUME IInv, [Next]_vars PROVE IInv'
    OBVIOUS
<1>1. CASE UNCHANGED vars
    BY <1>1 DEF vars, processes, database, IInv, TypeOK, SessionsFollow, OutcomeKnown, LockedBatch
<1> QED
    BY <1>1, ProcessStep, BackendStep, WriteStep, FaultStep DEF Next

\* The invariant holds of every behaviour.
THEOREM Invariance == Spec => []IInv
BY InitIInv, NextIInv, PTL DEF Spec

--------------------------------------------------------------------------------
\* Processes, sessions and locks have their types in every reachable state, and
\* no two processes share a session.
THEOREM TypeCorrect == Spec => []TypeOK
BY Invariance, PTL DEF IInv

\* A server that serves has the schema: no order of starts, broken sessions and
\* failed batches lets one through without (main.go:30-32).
THEOREM SchemaServed == Spec => []ServesOnlyWithSchema
<1>1. IInv => ServesOnlyWithSchema
    BY DEF IInv, OutcomeKnown, ServesOnlyWithSchema
<1> QED
    BY <1>1, Invariance, PTL

\* As long as nothing breaks the advisory lock keeps the starts of any number of
\* servers apart, though lock and batch are separate statements (db.go:97-104).
THEOREM StartsKeptApart == Spec => []StartsDontClash
<1>1. IInv => StartsDontClash
    BY DEF IInv, TypeOK, LockedBatch, StartsDontClash
<1> QED
    BY <1>1, Invariance, PTL
================================================================================
