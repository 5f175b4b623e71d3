------------------------------ MODULE SurveyReads ------------------------------
(***************************************************************************)
(* The handlers that read the survey tables (GetSurveys, GetSingleSurvey,  *)
(* GetSubmissionsBySurvey, GetSubmissionsByUser, the two catalog handlers   *)
(* of internal/handlers/handlers.go and the queries of                     *)
(* internal/repository/db.go under them), while surveys are published,     *)
(* answered and retracted.                                                 *)
(*                                                                         *)
(* Writers act as SurveyStore says, which SurveyWrites implements.  A read *)
(* is several queries without a transaction: each sees what is committed   *)
(* when it runs.  The time of a submission is taken by its handler, before *)
(* it is inserted, to the microsecond: two may have the same.              *)
(***************************************************************************)
EXTENDS Naturals, SequencesExt, FiniteSets

CONSTANTS
    Surveys, Submissions, Users, Admins, NoChoice,   \* as in SurveyStore
    Readers,     \* clients that read: each makes one request, or pages through
    Inputs,      \* [Readers -> set of what the client may ask]
    NoRequest,   \* what was asked by a client that did not ask yet
    MaxClock     \* bound on the clock

\* `id` is the survey, user or question the path names; `limit` the page size a
\* catalog client asks for.
ASSUME ReadInputsAssumption ==
    \A r \in Readers : \A in \in Inputs[r] :
        /\ in.op \in {"surveys", "survey", "submissions", "mine", "catalog", "answers"}
        /\ in.user \in Users
        /\ in.limit \in Nat
        /\ in # NoRequest

\* uuid.New gives no two surveys, and no two questions, one id.  Rows have the
\* columns of the schema; what a client may send is finite.
ASSUME ReadStoreAssumption ==
    /\ IsFiniteSet(Submissions)
    /\ \A x \in Submissions :
          x = [id |-> x.id, survey |-> x.survey, user |-> x.user, answers |-> x.answers]
    /\ \A s, t \in Surveys : s.id = t.id => s = t
    /\ \A s \in Surveys :
          /\ IsFiniteSet(s.questions)
          /\ \A q \in s.questions :
                /\ q = [id |-> q.id, type |-> q.type, mandatory |-> q.mandatory, choices |-> q.choices]
                /\ \A t \in Surveys : \A p \in t.questions : q.id = p.id => s = t /\ q = p

ASSUME MaxClockAssumption == MaxClock \in Nat

VARIABLES
    live, accepted, spent,   \* as in SurveyStore
    clock,       \* the time
    stamp,       \* submitted_at of the submissions that were prepared
    req,         \* what each client asked for
    pc,          \* the query each is at
    offset,      \* of the page it is at
    rows,        \* rows of the last query that still lack their own rows
    shown,       \* what the response, or all its pages, hold
    first,       \* what was accepted when it started
    resp         \* HTTP status sent; 0 while there is none

Store == INSTANCE SurveyStore

store   == <<live, accepted, spent>>
writers == <<live, accepted, spent, clock, stamp>>
readers == <<req, pc, offset, rows, shown, first, resp>>
vars    == <<writers, readers>>

SubmissionIds == {x.id : x \in Submissions}

Init ==
    /\ Store!Init
    /\ clock = 0
    /\ stamp = [x \in {} |-> 0]
    /\ req = [r \in Readers |-> NoRequest]
    /\ pc = [r \in Readers |-> "idle"]
    /\ offset = [r \in Readers |-> 0]
    /\ rows = [r \in Readers |-> << >>]
    /\ shown = [r \in Readers |-> << >>]
    /\ first = [r \in Readers |-> {}]
    /\ resp = [r \in Readers |-> 0]

--------------------------------------------------------------------------------
\* Writers.

Tick ==
    /\ clock < MaxClock
    /\ clock' = clock + 1
    /\ UNCHANGED <<store, stamp, readers>>

\* time.Now() in CreateSubmission, before InsertSubmission.
Prepare(x) ==
    /\ x.id \notin DOMAIN stamp
    /\ stamp' = [id \in DOMAIN stamp \cup {x.id} |-> IF id = x.id THEN clock ELSE stamp[id]]
    /\ UNCHANGED <<store, clock, readers>>

Write ==
    /\ \/ \E s \in Surveys : Store!Publish(s)
       \/ \E x \in Submissions : x.id \in DOMAIN stamp /\ Store!Submit(x)
       \/ \E s \in live, u \in Users : Store!Retract(s, u)
    /\ UNCHANGED <<clock, stamp, readers>>

--------------------------------------------------------------------------------
\* Queries.

\* The orders in which the rows S may come that no ORDER BY sorts.
AnyOrder(S) == {s \in [1..Cardinality(S) -> S] : IsInjective(s)}

\* Mutant: no ORDER BY.
Unsorted(S) == AnyOrder(S)

\* ORDER BY submitted_at DESC: the order of equal times is the database's.
NewestFirst(S) ==
    {s \in AnyOrder(S) :
        \A i, j \in DOMAIN s : i < j => stamp[s[i].id] >= stamp[s[j].id]}

\* parsePaginationParams.
Limit(in) == IF in.limit \in 1..1000 THEN in.limit ELSE 50

\* LIMIT .. OFFSET ...
Page(s, r) == SubSeq(s, offset[r] + 1, Min({offset[r] + Limit(req[r]), Len(s)}))

\* Mutant: the filter by user is never set.
EverybodysSubmissions(in) == {x \in accepted : x.survey = in.id}

\* ListSubmissionsBySurvey: all for an admin, else the caller's own.
SurveySubmissions(in) ==
    {x \in accepted : x.survey = in.id /\ (in.user \in Admins \/ x.user = in.user)}

UserSubmissions(in)    == {x \in accepted : x.user = in.id}
CatalogSubmissions(in) == {x \in accepted : x.survey = in.id}
QuestionIsThere(id)    == \E s \in live : \E q \in s.questions : q.id = id

\* The submissions that answer question `id`: ListPublicAnswersByQuestion joins.
AnsweringSubmissions(id) == {x \in accepted : \E a \in x.answers : a.question = id}

Goto(r, query)    == pc' = [pc EXCEPT ![r] = query] /\ UNCHANGED resp
Answer(r, status) == pc' = [pc EXCEPT ![r] = "done"] /\ resp' = [resp EXCEPT ![r] = status]

\* The first query of each handler; another user's submissions are refused.
Start(in) ==
    CASE in.op \in {"surveys", "survey", "submissions"} -> in.op
      [] in.op = "mine"                                 -> "mine"
      [] in.op \in {"catalog", "answers"}               -> "exists"

Ask(r) ==
    /\ pc[r] = "idle"
    /\ \E in \in Inputs[r] :
          /\ req' = [req EXCEPT ![r] = in]
          /\ IF in.op = "mine" /\ in.user \notin Admins /\ in.user # in.id
             THEN Answer(r, 403)
             ELSE Goto(r, Start(in))
    /\ first' = [first EXCEPT ![r] = accepted]
    /\ UNCHANGED <<writers, offset, rows, shown>>

\* ListSurveys.
ListSurveys(r) ==
    /\ pc[r] = "surveys"
    /\ \E s \in AnyOrder(live) : shown' = [shown EXCEPT ![r] = s]
    /\ Answer(r, 200)
    /\ UNCHANGED <<writers, req, offset, rows, first>>

\* RetrieveSurvey, first query.
RetrieveSurvey(r) ==
    /\ pc[r] = "survey"
    /\ IF \E s \in live : s.id = req[r].id THEN Goto(r, "questions") ELSE Answer(r, 404)
    /\ UNCHANGED <<writers, req, offset, rows, shown, first>>

\* RetrieveSurvey, second query.
RetrieveQuestions(r) ==
    /\ pc[r] = "questions"
    /\ \E qs \in AnyOrder(UNION {s.questions : s \in {s \in live : s.id = req[r].id}}) :
          rows' = [rows EXCEPT ![r] = qs]
    /\ Goto(r, "choices")
    /\ UNCHANGED <<writers, req, offset, shown, first>>

\* Mutant: the query for choices lost its WHERE question_id = $1.
EveryChoice(id) == UNION {q.choices : q \in UNION {s.questions : s \in live}}

QuestionChoices(id) ==
    UNION {q.choices : q \in {q \in UNION {s.questions : s \in live} : q.id = id}}

\* Mutant: the loop over the rows does not advance.
CompleteAgain(r, x) ==
    /\ rows[r] # << >>
    /\ shown' = [shown EXCEPT ![r] = Append(@, x)]
    /\ UNCHANGED rows

\* The first of the rows is complete, as x.
Complete(r, x) ==
    /\ rows[r] # << >>
    /\ shown' = [shown EXCEPT ![r] = Append(@, x)]
    /\ rows' = [rows EXCEPT ![r] = Tail(@)]

\* RetrieveSurvey, one query per question.
RetrieveChoices(r) ==
    /\ pc[r] = "choices"
    /\ Complete(r, [Head(rows[r]) EXCEPT !.choices = QuestionChoices(Head(rows[r]).id)])
    /\ UNCHANGED <<writers, req, pc, offset, first, resp>>

\* ListSubmissionsBySurvey or ListSubmissionsByUser, first query.
ListSubmissions(r) ==
    /\ pc[r] \in {"submissions", "mine"}
    /\ LET found == IF pc[r] = "mine" THEN UserSubmissions(req[r]) ELSE SurveySubmissions(req[r])
       IN  \E xs \in NewestFirst(found) : rows' = [rows EXCEPT ![r] = xs]
    /\ Goto(r, "details")
    /\ UNCHANGED <<writers, req, offset, shown, first>>

\* The catalog: SurveyExists or QuestionExists, once per page.
Exists(r) ==
    /\ pc[r] = "exists"
    /\ IF \/ req[r].op = "catalog" /\ \E s \in live : s.id = req[r].id
          \/ req[r].op = "answers" /\ QuestionIsThere(req[r].id)
       THEN Goto(r, "page")
       ELSE Answer(r, 404)
    /\ UNCHANGED <<writers, req, offset, rows, shown, first>>

\* A client asks for what follows the rows it got.
NextOffset(r, page) == offset[r] + Len(page)

\* ListPublicSubmissionsBySurvey or ListPublicAnswersByQuestion, first query.
ReadPage(r) ==
    /\ pc[r] = "page"
    /\ LET found == IF req[r].op = "catalog" THEN CatalogSubmissions(req[r])
                    ELSE AnsweringSubmissions(req[r].id)
       IN  \E xs \in NewestFirst(found) :
              LET page == Page(xs, r)
              IN  IF page = << >>
                  THEN Answer(r, 200) /\ UNCHANGED <<offset, rows>>
                  ELSE /\ rows' = [rows EXCEPT ![r] = page]
                       /\ offset' = [offset EXCEPT ![r] = NextOffset(r, page)]
                       /\ Goto(r, IF req[r].op = "catalog" THEN "details" ELSE "joined")
    /\ UNCHANGED <<writers, req, shown, first>>

\* Mutant: the query for answers lost its WHERE submission_id = $1.
EveryAnswer(id) == UNION {x.answers : x \in accepted}

SubmissionAnswers(id) == UNION {x.answers : x \in {x \in accepted : x.id = id}}

\* listAnswersBySubmission, one query per submission.
ListAnswers(r) ==
    /\ pc[r] = "details"
    /\ Complete(r, [Head(rows[r]) EXCEPT !.answers = SubmissionAnswers(Head(rows[r]).id)])
    /\ UNCHANGED <<writers, req, pc, offset, first, resp>>

\* ListPublicAnswersByQuestion has its answers from the join.
ShowAnswers(r) ==
    /\ pc[r] = "joined"
    /\ Complete(r, [Head(rows[r]) EXCEPT !.answers = {a \in @ : a.question = req[r].id}])
    /\ UNCHANGED <<writers, req, pc, offset, first, resp>>

\* The response; after a page of the catalog the client asks for the next.
Respond(r) ==
    /\ pc[r] \in {"choices", "details", "joined"}
    /\ rows[r] = << >>
    /\ IF req[r].op \in {"catalog", "answers"} THEN Goto(r, "exists") ELSE Answer(r, 200)
    /\ UNCHANGED <<writers, req, offset, rows, shown, first>>

Step(r) ==
    \/ ListSurveys(r)
    \/ RetrieveSurvey(r)
    \/ RetrieveQuestions(r)
    \/ RetrieveChoices(r)
    \/ ListSubmissions(r)
    \/ Exists(r)
    \/ ReadPage(r)
    \/ ListAnswers(r)
    \/ ShowAnswers(r)
    \/ Respond(r)

\* A query fails: what was read is not sent.
QueryFails(r) ==
    /\ pc[r] \notin {"idle", "done"}
    /\ Answer(r, 500)
    /\ UNCHANGED <<writers, req, offset, rows, shown, first>>

\* Nobody waits for a response: the server waits for requests.
Quiet ==
    /\ \A r \in Readers : pc[r] \in {"idle", "done"}
    /\ UNCHANGED vars

Next ==
    \/ Tick
    \/ \E x \in Submissions : Prepare(x)
    \/ Write
    \/ \E r \in Readers : Ask(r) \/ Step(r) \/ QueryFails(r)
    \/ Quiet

Spec == Init /\ [][Next]_vars

--------------------------------------------------------------------------------
\* Properties.

\* The type invariant; and a client that asked once holds no more rows than it
\* asked about.
TypeOK ==
    /\ live \subseteq Surveys
    /\ accepted \subseteq Submissions
    /\ clock \in 0..MaxClock
    /\ stamp \in [DOMAIN stamp -> 0..clock]
    /\ {x.id : x \in accepted} \subseteq DOMAIN stamp
    /\ \A r \in Readers :
          /\ pc[r] \in {"idle", "surveys", "survey", "questions", "choices", "submissions",
                        "mine", "exists", "page", "details", "joined", "done"}
          /\ pc[r] # "idle" => req[r] \in Inputs[r]
          /\ first[r] \subseteq Submissions
          /\ offset[r] \in 0..Cardinality(Submissions)
          /\ resp[r] \in {0, 200, 403, 404, 500}
          /\ resp[r] = 0 <=> pc[r] # "done"
          /\ pc[r] # "idle" /\ req[r].op \in {"submissions", "mine"} =>
                Len(shown[r]) + Len(rows[r]) <= Cardinality(Submissions)

Got(r, op)    == pc[r] = "done" /\ resp[r] = 200 /\ req[r].op = op
Published(id) == CHOOSE s \in Surveys : s.id = id
Live(id)      == \E s \in live : s.id = id

\* GetSingleSurvey answers 200 with the whole survey, or the survey was
\* retracted while it was read: then questions or choices are missing, but no
\* question shows a part of its choices, or those of another (db.go:310-365).
SurveyTornOnlyByRetraction ==
    \A r \in Readers : Got(r, "survey") =>
        LET all   == Published(req[r].id).questions
            part  == all \cup {[q EXCEPT !.choices = {}] : q \in all}
            whole == Range(shown[r]) = all /\ Len(shown[r]) = Cardinality(all)
        IN  whole \/ (~Live(req[r].id) /\ Range(shown[r]) \subseteq part)

Whole(x) == x \in Submissions
Bare(x)  == x.answers = {} /\ \E y \in Submissions : y.id = x.id /\ y.survey = x.survey

\* A listing shows submissions of the survey (or user) asked about, to their
\* submitter or an admin, newest first, each with all its answers, or with none
\* if its survey was retracted since (db.go:501-550, 600-644).
ListingsTruthful ==
    \A r \in Readers : Got(r, "submissions") \/ Got(r, "mine") =>
        LET in == req[r]
        IN  /\ \A x \in Range(shown[r]) :
                  /\ IF in.op = "mine" THEN x.user = in.id ELSE x.survey = in.id
                  /\ x.user = in.user \/ in.user \in Admins
                  /\ Whole(x) \/ (Bare(x) /\ ~Live(x.survey))
            /\ \A i, j \in DOMAIN shown[r] :
                  i < j => stamp[shown[r][i].id] >= stamp[shown[r][j].id]

\* A client that pages through the catalog until a page is empty has seen
\* everything that was there when it began, although submissions go on arriving
\* in front of or between what it has read, in an order that is not that of
\* their times; unless another has the same time (db.go:558, 652).
PagesMissNothing ==
    \A r \in Readers : Got(r, "catalog") \/ Got(r, "answers") =>
        \A x \in first[r] :
            LET asked == IF req[r].op = "catalog" THEN x.survey = req[r].id
                         ELSE \E a \in x.answers : a.question = req[r].id
                alone == \A y \in Submissions \ {x} :
                            y.id \in DOMAIN stamp => stamp[y.id] # stamp[x.id]
            IN  asked /\ alone /\ Live(x.survey) => \E y \in Range(shown[r]) : y.id = x.id

\* README.md:126, "retrieve a single survey by id": 200 with the survey as it
\* was published.
SurveyIsRetrieved ==
    \A r \in Readers : Got(r, "survey") =>
        Range(shown[r]) = Published(req[r].id).questions
================================================================================
