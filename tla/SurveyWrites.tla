----------------------------- MODULE SurveyWrites ------------------------------
(***************************************************************************)
(* The three handlers that change the survey tables (CreateSurvey,         *)
(* CreateSubmission, DeleteSurvey of internal/handlers/handlers.go) and the *)
(* repository functions under them (internal/repository/db.go), as         *)
(* concurrent requests against PostgreSQL at READ COMMITTED.               *)
(*                                                                         *)
(* A step is one SQL statement, one COMMIT, or the reply.  A transaction   *)
(* keeps the rows it inserted and deleted to itself until it commits.  An  *)
(* INSERT locks the rows its foreign keys name (FOR KEY SHARE) until the   *)
(* transaction ends, a DELETE locks the rows it deletes, and each waits    *)
(* for the other.  A statement or a connection may fail at any time, and   *)
(* the server process may be killed and restarted.                         *)
(*                                                                         *)
(* uuid.New() is the request that draws it: the survey (or submission) of  *)
(* request r has id r, its i-th question (answer) <<r, i>>, and the j-th   *)
(* choice of that question <<r, i, j>>.                                    *)
(***************************************************************************)
EXTENDS Integers, Sequences, FiniteSets

CONSTANTS
    Requests,    \* the HTTP requests: each is received at most once
    Users,       \* subjects of the bearer tokens
    Admins,      \* those whose token carries the role "admin"
    Inputs,      \* [Requests -> set of what the client may ask in that request]
    NoSurvey,    \* a well-formed uuid that names no survey
    NoChoice,    \* a NULL choice_id
    NoRequest    \* what was asked by a request not received yet

QuestionIds == Requests \X (Nat \ {0})
ChoiceIds   == Requests \X (Nat \ {0}) \X (Nat \ {0})

\* A questionnaire as decoded by CreateSurvey.  blank: the name, or the
\* description of a question or of a choice, is empty after TrimSpace.
Forms == [blank : BOOLEAN,
          questions : Seq([type : {"multiple", "text", "other"},
                           mandatory : BOOLEAN, choices : Nat])]

\* An answer as decoded by CreateSubmission.  text: text_response is not
\* empty after TrimSpace.
Bodies == Seq([question : QuestionIds, choice : ChoiceIds \cup {NoChoice},
               text : BOOLEAN])

CreateInputs == [op : {"create"}, user : Users, form : Forms]
SubmitInputs == [op : {"submit"}, user : Users,
                 survey : Requests \cup {NoSurvey}, answers : Bodies]
DeleteInputs == [op : {"delete"}, user : Users,
                 survey : Requests \cup {NoSurvey}]

ASSUME InputsAssumption ==
    Inputs \in [Requests -> SUBSET (CreateInputs \cup SubmitInputs \cup DeleteInputs)]

ASSUME IdsAssumption ==
    /\ Admins \subseteq Users
    /\ NoSurvey \notin Requests
    /\ NoChoice \notin ChoiceIds
    /\ NoRequest \notin CreateInputs \cup SubmitInputs \cup DeleteInputs

VARIABLES
    db,          \* the committed rows of the five tables
    req,         \* what each request asked for
    pc,          \* where each request is
    seen,        \* what GetSurveyQuestionMeta has read so far for a submission
    at,          \* the row the INSERT loops of a transaction are at
    inserted,    \* rows inserted by the open transaction of a request
    deleted,     \* rows deleted by the open transaction of a request
    committed,   \* requests whose COMMIT the database has applied
    resp         \* HTTP status sent; 0 while there is none

vars == <<db, req, pc, seen, at, inserted, deleted, committed, resp>>

--------------------------------------------------------------------------------
\* Rows, keys and the schema.

SurveyRow(r) == [table |-> "surveys", id |-> r, owner |-> req[r].user]

QuestionRow(r, i) ==
    LET q == req[r].form.questions[i]
    IN  [table |-> "questions", id |-> <<r, i>>, survey |-> r,
         type |-> q.type, mandatory |-> q.mandatory]

ChoiceRow(r, i, j) ==
    [table |-> "choices", id |-> <<r, i, j>>, question |-> <<r, i>>]

SubmissionRow(r) ==
    [table |-> "submissions", id |-> r, survey |-> req[r].survey, user |-> req[r].user]

AnswerRow(r, k) ==
    LET a == req[r].answers[k]
    IN  [table |-> "answers", id |-> <<r, k>>, submission |-> r,
         question |-> a.question, choice |-> a.choice, text |-> a.text]

Key(x)     == <<x.table, x.id>>
Keys(rows) == {Key(x) : x \in rows}

\* The rows whose deletion deletes x (FOREIGN KEY ... ON DELETE CASCADE).
Owners(x) ==
    CASE x.table = "questions"   -> {<<"surveys", x.survey>>}
      [] x.table = "choices"     -> {<<"questions", x.question>>}
      [] x.table = "submissions" -> {<<"surveys", x.survey>>}
      [] x.table = "answers"     -> {<<"submissions", x.submission>>,
                                     <<"questions", x.question>>}
      [] OTHER                   -> {}

\* The rows whose deletion sets a column of x to NULL (ON DELETE SET NULL).
Picks(x) ==
    IF x.table = "answers" /\ x.choice # NoChoice
    THEN {<<"choices", x.choice>>} ELSE {}

References(x) == Owners(x) \cup Picks(x)

Table(name) == {x \in db : x.table = name}

\* What the rows of `rows` whose keys are in `keys` drag along when they go.
Dependents(rows, keys) == {x \in rows : Owners(x) \cap keys # {}}

\* Mutant: submissions(id) and questions(id) are referenced without a cascade.
CascadedOnce(rows, s) ==
    {x \in rows : Key(x) = <<"surveys", s>>} \cup Dependents(rows, {<<"surveys", s>>})

\* Everything DELETE FROM surveys WHERE id = s takes with it: the schema
\* cascades survey -> question, submission -> choice, answer.
Cascaded(rows, s) ==
    LET first  == Dependents(rows, {<<"surveys", s>>})
        second == Dependents(rows, Keys(first))
    IN  {x \in rows : Key(x) = <<"surveys", s>>} \cup first \cup second

\* The rows that survive the deletion of `gone`.
Without(rows, gone) ==
    {IF Picks(x) \cap Keys(gone) # {} THEN [x EXCEPT !.choice = NoChoice] ELSE x :
        x \in {x \in rows : Key(x) \notin Keys(gone)}}

--------------------------------------------------------------------------------
\* Row locks.

Shared(r)    == UNION {References(x) : x \in inserted[r]}   \* FOR KEY SHARE
Exclusive(r) == Keys(deleted[r])

\* Mutant: foreign keys are checked without locking what they refer to.
CanShareUnlocked(r, keys) == TRUE

\* Nobody else holds a lock that a FOR KEY SHARE on `keys` would wait for.
CanShare(r, keys) == \A p \in Requests \ {r} : Exclusive(p) \cap keys = {}

\* Nobody else holds a lock that deleting the rows `keys` would wait for.
CanDelete(r, keys) ==
    \A p \in Requests \ {r} : (Shared(p) \cup Exclusive(p)) \cap keys = {}

--------------------------------------------------------------------------------
\* Validation.

ValidateSurveyAdding(form) ==
    /\ ~form.blank
    /\ form.questions # << >>
    /\ \A i \in DOMAIN form.questions :
          LET q == form.questions[i]
          IN  \/ q.type = "multiple" /\ q.choices > 0
              \/ q.type = "text" /\ q.choices = 0

\* Mutant: the map of answered questions is never filled.
AnsweredNever(answers, k) == FALSE

AnsweredBefore(answers, k) ==
    \E l \in 1..(k - 1) : answers[l].question = answers[k].question

\* Against the questions and choices that were read, not those in the tables.
ValidateSubmissionRequest(answers, meta) ==
    /\ answers # << >>
    /\ \A k \in DOMAIN answers :
          /\ ~AnsweredBefore(answers, k)
          /\ \E q \in meta.questions :
                /\ q.id = answers[k].question
                /\ \/ /\ q.type = "multiple"
                      /\ \E c \in meta.choices :
                            c.id = answers[k].choice /\ c.question = q.id
                      /\ ~answers[k].text
                   \/ /\ q.type = "text"
                      /\ answers[k].choice = NoChoice
                      /\ answers[k].text
    /\ \A q \in meta.questions :
          q.mandatory => \E k \in DOMAIN answers : answers[k].question = q.id

--------------------------------------------------------------------------------
\* Requests.

Goto(r, stage)    == pc' = [pc EXCEPT ![r] = stage] /\ UNCHANGED resp
Answer(r, status) == pc' = [pc EXCEPT ![r] = "done"] /\ resp' = [resp EXCEPT ![r] = status]

\* Mutant: a transaction that ends keeps the locks of what it deleted.
RollbackInserts(r) ==
    /\ inserted' = [inserted EXCEPT ![r] = {}]
    /\ UNCHANGED deleted

\* Mutant: no deferred tx.Rollback.
RollbackNothing(r) == UNCHANGED <<inserted, deleted>>

\* The deferred tx.Rollback: the rows are forgotten, the locks released.
Rollback(r) ==
    /\ inserted' = [inserted EXCEPT ![r] = {}]
    /\ deleted' = [deleted EXCEPT ![r] = {}]

\* A client can name a survey once it was published, and no sooner.
Published == {s \in committed : req[s].op = "create"}

NothingRead == [questions |-> {}, unread |-> {}, choices |-> {}]

Init ==
    /\ db = {}
    /\ req = [r \in Requests |-> NoRequest]
    /\ pc = [r \in Requests |-> "idle"]
    /\ seen = [r \in Requests |-> NothingRead]
    /\ at = [r \in Requests |-> <<0, 0>>]
    /\ inserted = [r \in Requests |-> {}]
    /\ deleted = [r \in Requests |-> {}]
    /\ committed = {}
    /\ resp = [r \in Requests |-> 0]

tables == <<db, seen, at, inserted, deleted, committed>>

\* CreateSurvey up to InsertSurvey: decode, ToSurvey, validate.
CreateSurvey(r) ==
    /\ pc[r] = "idle"
    /\ \E in \in Inputs[r] :
          /\ in.op = "create"
          /\ req' = [req EXCEPT ![r] = in]
          /\ IF ValidateSurveyAdding(in.form) THEN Goto(r, "insert") ELSE Answer(r, 400)
    /\ UNCHANGED tables

\* CreateSubmission up to its first statement.
CreateSubmission(r) ==
    /\ pc[r] = "idle"
    /\ \E in \in Inputs[r] :
          /\ in.op = "submit"
          /\ in.survey \in Published \cup {NoSurvey}
          /\ \A k \in DOMAIN in.answers : in.answers[k].question[1] \in Published
          /\ req' = [req EXCEPT ![r] = in]
    /\ Goto(r, "exists")
    /\ UNCHANGED tables

\* DeleteSurvey up to its first statement: an admin is not asked to own it.
DeleteSurvey(r) ==
    /\ pc[r] = "idle"
    /\ \E in \in Inputs[r] :
          /\ in.op = "delete"
          /\ in.survey \in Published \cup {NoSurvey}
          /\ req' = [req EXCEPT ![r] = in]
          /\ Goto(r, IF in.user \in Admins THEN "delete" ELSE "owner")
    /\ UNCHANGED tables

--------------------------------------------------------------------------------
\* CreateSubmission reads: three kinds of statement, no transaction around them.

SurveyExists(r) ==
    /\ pc[r] = "exists"
    /\ IF <<"surveys", req[r].survey>> \in Keys(db)
       THEN Goto(r, "questions")
       ELSE Answer(r, 404)
    /\ UNCHANGED <<tables, req>>

\* Mutant: the query for questions lost its WHERE survey_id = $1.
EveryQuestion(s) == Table("questions")

SurveyQuestions(s) == {q \in Table("questions") : q.survey = s}

\* GetSurveyQuestionMeta, first query.
ReadQuestions(r) ==
    /\ pc[r] = "questions"
    /\ LET qs == SurveyQuestions(req[r].survey)
       IN  seen' = [seen EXCEPT ![r] =
                       [questions |-> qs, unread |-> {q.id : q \in qs}, choices |-> {}]]
    /\ Goto(r, "choices")
    /\ UNCHANGED <<db, req, at, inserted, deleted, committed>>

\* GetSurveyQuestionMeta, one query per question, in the order the rows came.
ReadChoices(r) ==
    /\ pc[r] = "choices"
    /\ \E q \in seen[r].unread :
          seen' = [seen EXCEPT
              ![r].unread = @ \ {q},
              ![r].choices = @ \cup {c \in Table("choices") : c.question = q}]
    /\ UNCHANGED <<db, req, pc, at, inserted, deleted, committed, resp>>

ValidateSubmission(r) ==
    /\ pc[r] = "choices"
    /\ seen[r].unread = {}
    /\ IF ValidateSubmissionRequest(req[r].answers, seen[r])
       THEN Goto(r, "insert")
       ELSE Answer(r, 400)
    /\ UNCHANGED <<tables, req>>

--------------------------------------------------------------------------------
\* InsertSurvey and InsertSubmission: the INSERT loops.

\* The row the loops are at: <<0, 0>> is the survey (submission) itself,
\* <<i, 0>> its i-th question (answer), <<i, j>> the j-th choice of question i.
RowAt(r) ==
    LET i == at[r][1]  j == at[r][2]
    IN  IF req[r].op = "create"
        THEN IF i = 0 THEN SurveyRow(r)
             ELSE IF j = 0 THEN QuestionRow(r, i) ELSE ChoiceRow(r, i, j)
        ELSE IF i = 0 THEN SubmissionRow(r) ELSE AnswerRow(r, i)

\* Mutant: the inner loop, over the choices, is missing.
NextAtNoChoices(r) == <<at[r][1] + 1, 0>>

NextAt(r) ==
    LET i == at[r][1]  j == at[r][2]
    IN  IF req[r].op = "create" /\ i > 0 /\ j < req[r].form.questions[i].choices
        THEN <<i, j + 1>> ELSE <<i + 1, 0>>

\* Mutant: the loop stops one question (answer) early.
LengthShort(in) == IF in.op = "create" THEN Len(in.form.questions) - 1 ELSE Len(in.answers) - 1

Length(in) == IF in.op = "create" THEN Len(in.form.questions) ELSE Len(in.answers)

\* tx.Exec of one INSERT.  It waits for whoever is deleting a row it refers to,
\* and fails if such a row is not there.
Insert(r) ==
    /\ pc[r] = "insert"
    /\ CanShare(r, References(RowAt(r)))
    /\ IF References(RowAt(r)) \subseteq Keys(db \cup inserted[r])
       THEN /\ inserted' = [inserted EXCEPT ![r] = @ \cup {RowAt(r)}]
            /\ at' = [at EXCEPT ![r] = NextAt(r)]
            /\ Goto(r, IF NextAt(r)[1] > Length(req[r]) THEN "commit" ELSE "insert")
            /\ UNCHANGED deleted
       ELSE /\ Rollback(r)
            /\ Answer(r, 500)
            /\ UNCHANGED at
    /\ UNCHANGED <<db, req, seen, committed>>

--------------------------------------------------------------------------------
\* DeleteSurvey: the ownership check, then one DELETE in a transaction.

SurveyRowOf(s) == {x \in Table("surveys") : x.id = s}

\* Mutant: the owner that was read is not compared with the caller.
OwnsAnything(x, user) == TRUE

Owns(x, user) == x.owner = user

CheckOwnership(r) ==
    /\ pc[r] = "owner"
    /\ LET found == SurveyRowOf(req[r].survey)
       IN  IF found = {} THEN Answer(r, 404)
           ELSE IF \E x \in found : ~Owns(x, req[r].user)
           THEN Answer(r, 403)
           ELSE Goto(r, "delete")
    /\ UNCHANGED <<tables, req>>

\* Mutant: RowsAffected() is not looked at.
AffectedAnyway(rows) == TRUE

Affected(rows) == rows # {}

\* Mutant: the rows under the survey are deleted before the survey itself.
ChildRowsOf(s) == Dependents(db, {<<"surveys", s>>})

\* The row a DELETE of survey s locks first.
FirstRowsOf(s) == SurveyRowOf(s)

\* The DELETE reaches the survey's row; no row is RowsAffected() = 0.
DeleteRow(r) ==
    /\ pc[r] = "delete"
    /\ LET found == FirstRowsOf(req[r].survey)
       IN  /\ CanDelete(r, Keys(found))
           /\ deleted' = [deleted EXCEPT ![r] = found]
           /\ IF Affected(found) THEN Goto(r, "cascade") ELSE Answer(r, 404)
    /\ UNCHANGED <<db, req, seen, at, inserted, committed>>

\* The same DELETE: its foreign-key triggers delete whatever refers to the row.
Cascade(r) ==
    /\ pc[r] = "cascade"
    /\ CanDelete(r, Keys(Cascaded(db, req[r].survey)))
    /\ deleted' = [deleted EXCEPT ![r] = Cascaded(db, req[r].survey)]
    /\ Goto(r, "commit")
    /\ UNCHANGED <<db, req, seen, at, inserted, committed>>

--------------------------------------------------------------------------------
\* The end of a transaction.

\* The database applies COMMIT.
Commit(r) ==
    /\ pc[r] = "commit"
    /\ db' = Without(db, deleted[r]) \cup inserted[r]
    /\ committed' = committed \cup {r}
    /\ Rollback(r)      \* nothing is left pending, and the locks go
    /\ Goto(r, "committed")
    /\ UNCHANGED <<req, seen, at>>

\* The handler sees tx.Commit return nil.
Reply(r) ==
    /\ pc[r] = "committed"
    /\ Answer(r, IF req[r].op = "delete" THEN 200 ELSE 201)
    /\ UNCHANGED <<tables, req>>

Step(r) ==
    \/ SurveyExists(r)
    \/ ReadQuestions(r)
    \/ ReadChoices(r)
    \/ ValidateSubmission(r)
    \/ CheckOwnership(r)
    \/ Insert(r)
    \/ DeleteRow(r)
    \/ Cascade(r)
    \/ Commit(r)
    \/ Reply(r)

--------------------------------------------------------------------------------
\* Failures.

\* Mutant: the error of tx.Commit is dropped.
StatusCommitIgnored(stage) == IF stage = "commit" THEN 201 ELSE 500

\* DeleteSurvey turns any error of CheckOwnership but "not found" into 403.
FailureStatus(stage) == IF stage = "owner" THEN 403 ELSE 500

\* A statement, a Begin or a COMMIT fails, or its connection breaks, before it
\* took effect.
StatementFails(r) ==
    /\ pc[r] \in {"exists", "questions", "choices", "owner",
                  "insert", "delete", "cascade", "commit"}
    /\ Rollback(r)
    /\ Answer(r, FailureStatus(pc[r]))
    /\ UNCHANGED <<db, req, seen, at, committed>>

\* The connection breaks after COMMIT took effect: tx.Commit returns an error.
CommitReplyLost(r) ==
    /\ pc[r] = "committed"
    /\ Answer(r, 500)
    /\ UNCHANGED <<tables, req>>

Working(r) == pc[r] \notin {"idle", "done", "dead"}
Pending(r) == inserted[r] # {} \/ deleted[r] # {}

\* The server process dies and is started again: its handlers are gone.
Crash ==
    /\ \E r \in Requests : Working(r)
    /\ pc' = [r \in Requests |-> IF Working(r) THEN "dead" ELSE pc[r]]
    /\ UNCHANGED <<tables, req, resp>>

\* The database notices the closed connection and aborts what it had open.
Reap(r) ==
    /\ pc[r] = "dead"
    /\ Pending(r)
    /\ Rollback(r)
    /\ UNCHANGED <<db, req, pc, seen, at, committed, resp>>

\* Nothing is in flight: the server waits for requests.
Quiet ==
    /\ \A r \in Requests : ~Working(r) /\ ~Pending(r)
    /\ UNCHANGED vars

Next ==
    \/ \E r \in Requests :
          \/ CreateSurvey(r)
          \/ CreateSubmission(r)
          \/ DeleteSurvey(r)
          \/ Step(r)
          \/ StatementFails(r)
          \/ CommitReplyLost(r)
          \/ Reap(r)
    \/ Crash
    \/ Quiet

Spec == Init /\ [][Next]_vars

\* A handler that can take its next step takes it, and the database cleans up
\* after a dead client.  Nobody owes the system a request or a failure.
Fairness == \A r \in Requests : WF_vars(Step(r)) /\ WF_vars(Reap(r))

FairSpec == Spec /\ Fairness

--------------------------------------------------------------------------------
\* Properties.

RowType ==
    [table : {"surveys"}, id : Requests, owner : Users]
    \cup [table : {"questions"}, id : QuestionIds, survey : Requests,
          type : {"multiple", "text", "other"}, mandatory : BOOLEAN]
    \cup [table : {"choices"}, id : Requests \X Nat \X Nat, question : QuestionIds]
    \cup [table : {"submissions"}, id : Requests,
          survey : Requests \cup {NoSurvey}, user : Users]
    \cup [table : {"answers"}, id : Requests \X Nat, submission : Requests,
          question : QuestionIds, choice : ChoiceIds \cup {NoChoice}, text : BOOLEAN]

\* The type invariant: the rows of the five tables, the requests and their
\* stages, the status codes; and a transaction is open only where the code has
\* one open (every return of InsertSurvey, InsertSubmission and
\* DeleteSurveyByID ends it).
TypeOK ==
    /\ db \subseteq RowType
    /\ req \in [Requests -> CreateInputs \cup SubmitInputs \cup DeleteInputs \cup {NoRequest}]
    /\ pc \in [Requests -> {"idle", "exists", "questions", "choices", "owner", "insert",
                            "delete", "cascade", "commit", "committed", "done", "dead"}]
    /\ DOMAIN seen = Requests
    /\ at \in [Requests -> Nat \X Nat]
    /\ inserted \in [Requests -> SUBSET RowType]
    /\ deleted \in [Requests -> SUBSET RowType]
    /\ committed \subseteq Requests
    /\ resp \in [Requests -> {0, 200, 201, 400, 403, 404, 500}]
    /\ \A r \in Requests :
          /\ inserted[r] # {} => pc[r] \in {"insert", "commit", "dead"}
          /\ deleted[r] # {} => pc[r] \in {"cascade", "commit", "dead"}

\* Every committed row finds the rows its foreign keys name, whatever was
\* inserted and deleted in which order (a submission whose survey is deleted
\* between its checks and its INSERTs, db.go:456-499 against db.go:226-250).
ReferentialIntegrity ==
    \A x \in db : References(x) \subseteq Keys(db)

\* What the row locks are for.  What an open transaction refers to is there and
\* nobody is deleting it; a DELETE that has run has caught everything that
\* refers to what it deletes, and nothing slips under it before it commits
\* (db.go:472-489 against db.go:237).
LockSafety ==
    /\ \A r \in Requests :
          /\ \A x \in inserted[r] : References(x) \subseteq Keys(db \cup inserted[r])
          /\ \A p \in Requests \ {r} : Shared(r) \cap Exclusive(p) = {}
          /\ pc[r] = "commit" =>
                \A x \in db : Owners(x) \cap Exclusive(r) # {} => Key(x) \in Exclusive(r)
          /\ inserted[r] = {} \/ deleted[r] = {}

\* A committed submission answers the survey it belongs to: that survey's own
\* questions, each once, with that question's own choices, and every mandatory
\* one.  No constraint of the schema says so: CreateSubmission alone does, by
\* reads that no transaction ties to its INSERTs (handlers.go:210-255).
SubmissionsAnswerTheirSurvey ==
    \A x \in Table("submissions") :
        LET answers == {a \in Table("answers") : a.submission = x.id}
            asked   == {q \in Table("questions") : q.survey = x.survey}
        IN  /\ answers # {}
            /\ \A a \in answers : \E q \in asked :
                  /\ a.question = q.id
                  /\ \/ /\ q.type = "multiple"
                        /\ \E c \in Table("choices") : c.id = a.choice /\ c.question = q.id
                     \/ q.type = "text" /\ a.choice = NoChoice /\ a.text
            /\ \A a, b \in answers : a.question = b.question => a = b
            /\ \A q \in asked : q.mandatory => \E a \in answers : a.question = q.id

\* What request r inserts when its transaction gets to its end.
AllRows(r) ==
    LET in == req[r]
    IN  IF in.op = "create"
        THEN {SurveyRow(r)}
             \cup {QuestionRow(r, i) : i \in DOMAIN in.form.questions}
             \cup UNION {{ChoiceRow(r, i, j) : j \in 1..in.form.questions[i].choices} :
                            i \in DOMAIN in.form.questions}
        ELSE IF in.op = "submit"
        THEN {SubmissionRow(r)} \cup {AnswerRow(r, k) : k \in DOMAIN in.answers}
        ELSE {}

Target(r)  == IF req[r].op = "create" THEN r ELSE req[r].survey
Retractions(s) == {d \in committed : req[d].op = "delete" /\ req[d].survey = s}

\* Writes are all or nothing: a request whose COMMIT was applied has all its
\* rows in the tables until its survey is deleted and none from then on, and
\* one that failed, was refused, or died has none (InsertSurvey,
\* InsertSubmission and the cascade, with every interleaving and crash).
AllOrNothing ==
    \A r \in Requests :
        LET mine == IF pc[r] = "idle" THEN {} ELSE AllRows(r)
        IN  mine \cap db = IF r \in committed /\ Retractions(Target(r)) = {} THEN mine ELSE {}

Gone(s) == s = NoSurvey \/ Retractions(s) # {}

\* The status tells the client the truth: success means committed; 4xx means
\* not committed; 404 only for a survey that is gone; and a submission that
\* answers its survey is refused (400) only if the survey was deleted under it.
RepliesTruthful ==
    \A r \in Requests : pc[r] = "done" =>
        /\ resp[r] \in {200, 201} => r \in committed
        /\ resp[r] \in {400, 403, 404} => r \notin committed
        /\ resp[r] = 404 => Gone(req[r].survey)
        /\ resp[r] = 400 /\ req[r].op = "submit" =>
              LET s    == req[r].survey
                  asks == [questions |-> {x \in AllRows(s) : x.table = "questions"},
                           choices   |-> {x \in AllRows(s) : x.table = "choices"}]
              IN  Gone(s) \/ ~ValidateSubmissionRequest(req[r].answers, asks)

\* Two deletions of one survey never both succeed, not even when one of them
\* got its 500 from a lost COMMIT (db.go:241-249).
DeletedOnce ==
    \A s \in Requests : Cardinality(Retractions(s)) <= 1

\* The DELETE waits at the survey's row or not at all: once it holds that row,
\* nobody holds a lock on anything it cascades to, so that it cannot be part
\* of a deadlock (InsertSubmission locks the survey first, db.go:472).
CascadeNeverWaits ==
    \A r \in Requests : pc[r] = "cascade" =>
        CanDelete(r, Keys(Cascaded(db, req[r].survey)))

Wants(r) ==
    CASE pc[r] = "insert"  -> References(RowAt(r))
      [] pc[r] = "delete"  -> {<<"surveys", req[r].survey>>}
      [] pc[r] = "cascade" -> Keys(Cascaded(db, req[r].survey))
      [] OTHER             -> {}

WaitsFor(r) ==
    {p \in Requests \ {r} :
        LET locks == Exclusive(p) \cup (IF pc[r] = "insert" THEN {} ELSE Shared(p))
        IN  locks \cap Wants(r) # {}}

\* No set of transactions waits for each other (the order in which
\* InsertSubmission and the cascade take their row locks).
NoDeadlock ==
    \A S \in (SUBSET Requests) \ {{}} :
        \E r \in S : WaitsFor(r) \cap S = {}

\* A survey leaves the tables only by the COMMIT of a DeleteSurvey request of
\* its owner or of an admin, however stale the ownership check has become.
OnlyItsOwnerOrAnAdmin ==
    [][\A x \in Table("surveys") :
          x \notin db' =>
             \E r \in committed' \ committed :
                /\ req[r].op = "delete" /\ req[r].survey = x.id
                /\ req[r].user = x.owner \/ req[r].user \in Admins]_vars

\* Every request that was received is answered, or its process died, and it
\* leaves no lock behind: no wait lasts for ever.
EveryRequestEnds ==
    \A r \in Requests :
        pc[r] # "idle" ~> pc[r] \in {"done", "dead"} /\ ~Pending(r)

--------------------------------------------------------------------------------
\* The store these transactions implement.

QuestionsOf(s) ==
    {[id |-> q.id, type |-> q.type, mandatory |-> q.mandatory,
      choices |-> {c.id : c \in {c \in Table("choices") : c.question = q.id}}] :
        q \in {q \in Table("questions") : q.survey = s}}

AnswersOf(x) ==
    {[id |-> a.id, question |-> a.question, choice |-> a.choice, text |-> a.text] :
        a \in {a \in Table("answers") : a.submission = x}}

\* The same, of what clients may ask.
Promised(r, in) ==
    [id |-> r, owner |-> in.user,
     questions |->
        {[id |-> <<r, i>>, type |-> in.form.questions[i].type,
          mandatory |-> in.form.questions[i].mandatory,
          choices |-> {<<r, i, j>> : j \in 1..in.form.questions[i].choices}] :
            i \in DOMAIN in.form.questions}]

Offered(r, in) ==
    [id |-> r, survey |-> in.survey, user |-> in.user,
     answers |->
        {[id |-> <<r, k>>, question |-> in.answers[k].question,
          choice |-> in.answers[k].choice, text |-> in.answers[k].text] :
            k \in DOMAIN in.answers}]

Asking(op) == {a \in Requests \X UNION {Inputs[r] : r \in Requests} :
                  a[2] \in Inputs[a[1]] /\ a[2].op = op}

Store == INSTANCE SurveyStore WITH
    Surveys     <- {Promised(a[1], a[2]) : a \in Asking("create")},
    Submissions <- {Offered(a[1], a[2]) : a \in Asking("submit")},
    live        <- {[id |-> x.id, owner |-> x.owner, questions |-> QuestionsOf(x.id)] :
                       x \in Table("surveys")},
    accepted    <- {[id |-> x.id, survey |-> x.survey, user |-> x.user,
                     answers |-> AnswersOf(x.id)] : x \in Table("submissions")},
    spent       <- {r \in committed : req[r].op # "delete"}

\* Each COMMIT publishes, accepts or retracts one thing whole, and nothing else
\* changes what the tables say: the many statements act like one.
ImplementsStore == Store!Spec
================================================================================
