--------------------------- MODULE SurveyStoreProofs ---------------------------
(***************************************************************************)
(* Proof that the transactions of the writers implement SurveyStore, for   *)
(* any number of requests, surveys and forms: what the five tables say     *)
(* changes by one survey published, one submission accepted or one survey  *)
(* retracted at a time, each of them at a COMMIT.                          *)
(*                                                                         *)
(* The argument: the tables hold the rows of what stands, so that what     *)
(* they say is what was asked for (LiveIs, AcceptedAre); and every COMMIT  *)
(* adds one request to what stands, or takes away those of one survey.     *)
(***************************************************************************)
EXTENDS SurveyWholeProofs

\* What the tables say, as SurveyWrites maps it to the store.
Live == {[id |-> x.id, owner |-> x.owner, questions |-> QuestionsOf(x.id)] : x \in Table("surveys")}

Accepted == {[id |-> x.id, survey |-> x.survey, user |-> x.user, answers |-> AnswersOf(x.id)] :
                x \in Table("submissions")}

Spent == {r \in committed : req[r].op # "delete"}

\* What stands.
Surviving == {r \in Standing : req[r].op = "create"}
Submitted == {r \in Standing : req[r].op = "submit"}

\* What is inserted is what a client asked for, and a questionnaire was validated.
Asked ==
    \A r \in Requests :
        /\ pc[r] # "idle" => req[r] \in Inputs[r]
        /\ pc[r] \in {"insert", "commit"} /\ req[r].op = "create" => ValidateSurveyAdding(req[r].form)

StoreInv == WholeInv /\ Asked

--------------------------------------------------------------------------------
\* What the tables say is what was asked for.

\* What survey s asks to choose from in question q.
ChoicesAsked(s, q) == {c \in Asks(s).choices : c.question = q}

\* The choices of a question, by id.
LEMMA ChoiceIdsOf ==
    ASSUME NEW s, req[s].op = "create", NEW i \in DOMAIN req[s].form.questions
    PROVE  {c.id : c \in ChoicesAsked(s, <<s, i>>)}
              = {<<s, i, j>> : j \in 1..req[s].form.questions[i].choices}
<1> DEFINE n  == req[s].form.questions[i].choices
           cs == ChoicesAsked(s, <<s, i>>)
<1>1. \A c : c \in Asks(s).choices <=> c \in AllRows(s) /\ c.table = "choices"
  BY DEF Asks
<1> USE DEF ChoicesAsked
<1>2. \A j \in 1..n : ChoiceRow(s, i, j) \in cs /\ ChoiceRow(s, i, j).id = <<s, i, j>>
  <2>1. \A j \in 1..n : ChoiceRow(s, i, j) \in AllRows(s)
    BY RowsOfRequest DEF OfSurvey
  <2>2. QED
    BY <1>1, <2>1 DEF ChoiceRow
<1>3. ASSUME NEW c \in cs PROVE \E j \in 1..n : c = ChoiceRow(s, i, j)
  <2>1. OfSurvey(s, c) /\ c.table = "choices" /\ c.question = <<s, i>>
    BY <1>1, RowsOfRequest
  <2>2. \A k : SurveyRow(s).table # "choices" /\ QuestionRow(s, k).table # "choices"
    BY DEF SurveyRow, QuestionRow
  <2>3. PICK k \in DOMAIN req[s].form.questions :
           \E j \in 1..req[s].form.questions[k].choices : c = ChoiceRow(s, k, j)
    BY <2>1, <2>2 DEF OfSurvey
  <2>4. k = i
    BY <2>1, <2>3 DEF ChoiceRow
  <2>5. QED
    BY <2>3, <2>4
<1> HIDE DEF cs, n, ChoicesAsked
<1>4. {c.id : c \in cs} = {<<s, i, j>> : j \in 1..n}
  BY <1>2, <1>3
<1>5. QED
  BY <1>4 DEF cs, n

\* The questions of a survey.
LEMMA QuestionsAsked ==
    ASSUME NEW s, req[s].op = "create"
    PROVE  Asks(s).questions = {QuestionRow(s, i) : i \in DOMAIN req[s].form.questions}
<1>1. \A q : q \in Asks(s).questions <=> q \in AllRows(s) /\ q.table = "questions"
  BY DEF Asks
<1>2. \A i \in DOMAIN req[s].form.questions : QuestionRow(s, i) \in Asks(s).questions
  <2>1. \A i \in DOMAIN req[s].form.questions : QuestionRow(s, i) \in AllRows(s)
    BY RowsOfRequest DEF OfSurvey
  <2>2. QED
    BY <1>1, <2>1 DEF QuestionRow
<1>3. ASSUME NEW q \in Asks(s).questions
      PROVE  \E i \in DOMAIN req[s].form.questions : q = QuestionRow(s, i)
  <2>1. OfSurvey(s, q) /\ q.table = "questions"
    BY <1>1, RowsOfRequest
  <2>2. \A i, j : SurveyRow(s).table # "questions" /\ ChoiceRow(s, i, j).table # "questions"
    BY DEF SurveyRow, ChoiceRow
  <2>3. QED
    BY <2>1, <2>2 DEF OfSurvey
<1>4. QED
  BY <1>2, <1>3

\* A survey that stands is published as it was asked for.
LEMMA QuestionsOfSurvivor ==
    ASSUME WholeInv, NEW s \in Surviving
    PROVE  QuestionsOf(s) = Promised(s, req[s]).questions
<1>1. req[s].op = "create" /\ Known(s) /\ ~Gone(s)
  BY IdsAssumption DEF Surviving, Standing, Target, Known, Gone, WholeInv, LocksInv, DeletionInv, TypeInv, TypeOK
<1> DEFINE D       == DOMAIN req[s].form.questions
           Found(q) == [id |-> q.id, type |-> q.type, mandatory |-> q.mandatory,
                        choices |-> {c.id : c \in {c \in Table("choices") : c.question = q.id}}]
           Wanted(i) == [id |-> <<s, i>>, type |-> req[s].form.questions[i].type,
                         mandatory |-> req[s].form.questions[i].mandatory,
                         choices |-> {<<s, i, j>> : j \in 1..req[s].form.questions[i].choices}]
<1>2. QuestionsOf(s) = {Found(q) : q \in SurveyQuestions(s)}
  BY DEF QuestionsOf, SurveyQuestions
<1>3. SurveyQuestions(s) = {QuestionRow(s, i) : i \in D}
  BY <1>1, QuestionsFound, QuestionsAsked
<1>4. Promised(s, req[s]).questions = {Wanted(i) : i \in D}
  BY DEF Promised
<1>5. ASSUME NEW i \in D PROVE Found(QuestionRow(s, i)) = Wanted(i)
  <2>1. /\ QuestionRow(s, i).id = <<s, i>>
        /\ QuestionRow(s, i).type = req[s].form.questions[i].type
        /\ QuestionRow(s, i).mandatory = req[s].form.questions[i].mandatory
    BY DEF QuestionRow
  <2>2. {c \in Table("choices") : c.question = <<s, i>>} = ChoicesAsked(s, <<s, i>>)
    BY <1>1, QuestionsFound DEF ChoicesAsked
  <2>3. {c.id : c \in ChoicesAsked(s, <<s, i>>)}
           = {<<s, i, j>> : j \in 1..req[s].form.questions[i].choices}
    BY <1>1, ChoiceIdsOf, Zenon
  <2>4. {c.id : c \in {c \in Table("choices") : c.question = <<s, i>>}}
           = {<<s, i, j>> : j \in 1..req[s].form.questions[i].choices}
    BY <2>2, <2>3, Zenon
  <2>5. QED
    BY <2>1, <2>4
<1> HIDE DEF Found, Wanted, D
<1>6. {Found(q) : q \in {QuestionRow(s, i) : i \in D}} = {Wanted(i) : i \in D}
  BY <1>5
<1>7. QED
  BY <1>2, <1>3, <1>4, <1>6

\* The surveys in the tables are those that stand.
LEMMA LiveIs == WholeInv => Live = {Promised(s, req[s]) : s \in Surviving}
<1> SUFFICES ASSUME WholeInv PROVE Live = {Promised(s, req[s]) : s \in Surviving}
  OBVIOUS
<1> DEFINE Found(x) == [id |-> x.id, owner |-> x.owner, questions |-> QuestionsOf(x.id)]
<1>1. Table("surveys") = {SurveyRow(s) : s \in Surviving}
  <2>1. ASSUME NEW x \in Table("surveys") PROVE \E s \in Surviving : x = SurveyRow(s)
    <3>1. PICK s \in Standing : x \in AllRows(s)
      BY DEF WholeInv, Exact, Table
    <3>2. req[s].op = "create" /\ x.id = s
      BY <3>1, RowsNameTheirRequest DEF Table
    <3>3. x = SurveyRow(s)
      BY <3>2 DEF Table, WholeInv, LocksInv, DeletionInv, SurveyRows
    <3>4. QED
      BY <3>2, <3>3 DEF Surviving
  <2>2. ASSUME NEW s \in Surviving PROVE SurveyRow(s) \in Table("surveys")
    <3>1. SurveyRow(s) \in AllRows(s)
      BY RowsOfRequest DEF OfSurvey, Surviving
    <3>2. QED
      BY <3>1 DEF Surviving, WholeInv, Exact, Table, SurveyRow
  <2>3. QED
    BY <2>1, <2>2
<1>2. ASSUME NEW s \in Surviving PROVE Found(SurveyRow(s)) = Promised(s, req[s])
  <2>1. SurveyRow(s).id = s /\ SurveyRow(s).owner = req[s].user
    BY DEF SurveyRow
  <2>2. Promised(s, req[s]) = [id |-> s, owner |-> req[s].user, questions |-> Promised(s, req[s]).questions]
    BY DEF Promised
  <2>3. QED
    BY <2>1, <2>2, QuestionsOfSurvivor
<1>3. Live = {Found(x) : x \in Table("surveys")}
  BY DEF Live
<1> HIDE DEF Found
<1>4. QED
  BY <1>1, <1>2, <1>3

\* The submissions in the tables are those that stand.
LEMMA AcceptedAre == WholeInv => Accepted = {Offered(r, req[r]) : r \in Submitted}
<1> SUFFICES ASSUME WholeInv PROVE Accepted = {Offered(r, req[r]) : r \in Submitted}
  OBVIOUS
<1> DEFINE Found(x) == [id |-> x.id, survey |-> x.survey, user |-> x.user, answers |-> AnswersOf(x.id)]
<1>1. Table("submissions") = {SubmissionRow(r) : r \in Submitted}
  <2>1. ASSUME NEW x \in Table("submissions") PROVE \E r \in Submitted : x = SubmissionRow(r)
    <3>1. PICK r \in Standing : x \in AllRows(r)
      BY DEF WholeInv, Exact, Table
    <3>2. req[r].op = "submit" /\ x = SubmissionRow(r)
      BY <3>1, RowsNameTheirRequest DEF Table
    <3>3. QED
      BY <3>2 DEF Submitted
  <2>2. ASSUME NEW r \in Submitted PROVE SubmissionRow(r) \in Table("submissions")
    <3>1. SubmissionRow(r) \in AllRows(r)
      BY RowsOfRequest DEF OfSubmission, Submitted
    <3>2. QED
      BY <3>1 DEF Submitted, WholeInv, Exact, Table, SubmissionRow
  <2>3. QED
    BY <2>1, <2>2
<1>2. ASSUME NEW r \in Submitted PROVE Found(SubmissionRow(r)) = Offered(r, req[r])
  <2> DEFINE Row(a)  == [id |-> a.id, question |-> a.question, choice |-> a.choice, text |-> a.text]
             Sent(k) == [id |-> <<r, k>>, question |-> req[r].answers[k].question,
                         choice |-> req[r].answers[k].choice, text |-> req[r].answers[k].text]
  <2>1. AnswersOf(r) = {Row(a) : a \in {a \in Table("answers") : a.submission = r}}
    BY DEF AnswersOf
  <2>2. {a \in Table("answers") : a.submission = r} = {AnswerRow(r, k) : k \in DOMAIN req[r].answers}
    BY AnswersFound DEF Submitted
  <2>3. \A k \in DOMAIN req[r].answers : Row(AnswerRow(r, k)) = Sent(k)
    BY DEF AnswerRow
  <2>4. Offered(r, req[r]) = [id |-> r, survey |-> req[r].survey, user |-> req[r].user,
                              answers |-> {Sent(k) : k \in DOMAIN req[r].answers}]
    BY DEF Offered
  <2> HIDE DEF Row, Sent
  <2>5. AnswersOf(r) = {Sent(k) : k \in DOMAIN req[r].answers}
    BY <2>1, <2>2, <2>3
  <2>6. SubmissionRow(r).id = r /\ SubmissionRow(r).survey = req[r].survey /\ SubmissionRow(r).user = req[r].user
    BY DEF SubmissionRow
  <2>7. QED
    BY <2>4, <2>5, <2>6
<1>3. Accepted = {Found(x) : x \in Table("submissions")}
  BY DEF Accepted
<1> HIDE DEF Found
<1>4. QED
  BY <1>1, <1>2, <1>3

\* The same of the tables after a step.
LEMMA TablesNext ==
    WholeInv' => (/\ Live = {Promised(s, req[s]) : s \in Surviving}
                  /\ Accepted = {Offered(r, req[r]) : r \in Submitted})'
<1>1. WholeInv => /\ Live = {Promised(s, req[s]) : s \in Surviving}
                  /\ Accepted = {Offered(r, req[r]) : r \in Submitted}
  BY LiveIs, AcceptedAre
<1>2. QED
  BY <1>1, PTL

--------------------------------------------------------------------------------
\* What is asked for.

\* Every step keeps what was asked, and validated.
LEMMA AskedNext == StoreInv /\ [Next]_vars => Asked'
<1> SUFFICES ASSUME StoreInv, [Next]_vars PROVE Asked'
  OBVIOUS
<1>1. /\ DOMAIN pc = Requests /\ DOMAIN req = Requests
      /\ \A r \in Requests : /\ pc[r] \in {"exists", "questions", "choices"} => req[r].op = "submit"
                             /\ pc[r] \in {"owner", "delete", "cascade"} => req[r].op = "delete"
  BY DEF StoreInv, WholeInv, LocksInv, DeletionInv, TypeInv, TypeOK, Stages, Kinds, SubmitInputs
<1>2. ASSUME NEW r \in Requests, CreateSurvey(r) \/ CreateSubmission(r) \/ DeleteSurvey(r)
      PROVE  Asked'
  <2>1. PICK in \in Inputs[r] :
           /\ req' = [req EXCEPT ![r] = in]
           /\ pc'[r] \in {"insert", "commit"} => ValidateSurveyAdding(in.form)
           /\ \A p \in Requests \ {r} : pc'[p] = pc[p]
    <3>1. CASE CreateSurvey(r)
      BY <1>1, <3>1 DEF CreateSurvey, Goto, Answer
    <3>2. CASE CreateSubmission(r)
      BY <1>1, <3>2 DEF CreateSubmission, Goto
    <3>3. CASE DeleteSurvey(r)
      BY <1>1, <3>3 DEF DeleteSurvey, Goto
    <3>4. QED
      BY <1>2, <3>1, <3>2, <3>3
  <2>2. req'[r] = in /\ \A p \in Requests \ {r} : req'[p] = req[p]
    BY <1>1, <2>1
  <2>3. QED
    BY <2>1, <2>2 DEF StoreInv, Asked, ValidateSurveyAdding
<1>3. CASE /\ req' = req
           /\ \A p \in Requests :
                 /\ pc'[p] # "idle" => pc[p] # "idle"
                 /\ pc'[p] \in {"insert", "commit"} /\ req[p].op = "create" => pc[p] \in {"insert", "commit"}
  BY <1>3 DEF StoreInv, Asked, ValidateSurveyAdding
<1>4. ASSUME NEW r \in Requests, Step(r) \/ StatementFails(r) \/ CommitReplyLost(r) \/ Reap(r)
      PROVE  /\ req' = req
             /\ \A p \in Requests :
                   /\ pc'[p] # "idle" => pc[p] # "idle"
                   /\ pc'[p] \in {"insert", "commit"} /\ req[p].op = "create" => pc[p] \in {"insert", "commit"}
  <2>1. CASE Insert(r) \/ Commit(r) \/ DeleteRow(r) \/ Cascade(r)
    BY <1>1, <2>1 DEF Insert, Commit, DeleteRow, Cascade, Goto, Answer
  <2>2. CASE SurveyExists(r) \/ ReadQuestions(r) \/ ReadChoices(r) \/ ValidateSubmission(r)
    BY <1>1, <2>2 DEF SurveyExists, ReadQuestions, ReadChoices, ValidateSubmission, Goto, Answer
  <2>3. CASE CheckOwnership(r) \/ Reply(r) \/ StatementFails(r) \/ CommitReplyLost(r) \/ Reap(r)
    BY <1>1, <2>3 DEF CheckOwnership, Reply, StatementFails, CommitReplyLost, Reap, Goto, Answer
  <2>4. QED
    BY <1>4, <2>1, <2>2, <2>3 DEF Step
<1>5. CASE Crash \/ UNCHANGED vars
  <2>1. /\ req' = req
        /\ \A p \in Requests : pc'[p] = pc[p] \/ (pc'[p] = "dead" /\ pc[p] # "idle")
    BY <1>5 DEF Crash, Working, vars
  <2>2. QED
    BY <1>3, <2>1
<1>6. QED
  BY <1>2, <1>3, <1>4, <1>5 DEF Next, Quiet

\* The invariant holds of every behaviour.
LEMMA StoreInvariance == Spec => []StoreInv
<1>1. Init => Asked
  BY DEF Init, Asked
<1>2. Init => StoreInv
  BY <1>1, WholeInit DEF StoreInv
<1>3. StoreInv /\ [Next]_vars => StoreInv'
  BY WholeNext, AskedNext DEF StoreInv
<1>4. QED
  BY <1>2, <1>3, PTL DEF Spec

--------------------------------------------------------------------------------
\* The steps.

\* Only a COMMIT changes what the tables say.
LEMMA OthersSayNothing ==
    ASSUME StoreInv, [Next]_vars, \A r \in Requests : ~Commit(r)
    PROVE  UNCHANGED <<Live, Accepted, Spent>>
<1>1. db' = db /\ committed' = committed /\ \A d \in committed : req'[d] = req[d]
  <2>1. ASSUME NEW r \in Requests, CreateSurvey(r) \/ CreateSubmission(r) \/ DeleteSurvey(r)
        PROVE  db' = db /\ committed' = committed /\ \A d \in committed : req'[d] = req[d]
    <3>1. /\ UNCHANGED tables /\ pc[r] = "idle" /\ \E in : req' = [req EXCEPT ![r] = in]
      BY <2>1 DEF CreateSurvey, CreateSubmission, DeleteSurvey
    <3>2. r \notin committed /\ committed \subseteq Requests /\ DOMAIN req = Requests
      BY <3>1 DEF StoreInv, WholeInv, LocksInv, DeletionInv, TypeInv, TypeOK, Kinds
    <3>3. QED
      BY <3>1, <3>2 DEF tables
  <2>2. ASSUME NEW r \in Requests, Step(r) \/ StatementFails(r) \/ CommitReplyLost(r) \/ Reap(r)
        PROVE  db' = db /\ committed' = committed /\ req' = req
    BY <2>2 DEF Step, SurveyExists, ReadQuestions, ReadChoices, ValidateSubmission, CheckOwnership, Insert,
                DeleteRow, Cascade, Reply, StatementFails, CommitReplyLost, Reap, tables
  <2>3. CASE Crash \/ UNCHANGED vars
    BY <2>3 DEF Crash, tables, vars
  <2>4. QED
    BY <2>1, <2>2, <2>3 DEF Next, Quiet
<1>2. Live' = Live /\ Accepted' = Accepted
  BY <1>1 DEF Live, Accepted, Table, QuestionsOf, AnswersOf
<1>3. Spent' = Spent
  BY <1>1 DEF Spent
<1>4. QED
  BY <1>2, <1>3

\* What a COMMIT has to do with the store.
LEMMA Committing ==
    ASSUME StoreInv, WholeInv', NEW r \in Requests, Commit(r)
    PROVE  /\ committed' = committed \cup {r} /\ req' = req /\ r \notin committed
           /\ req[r] \in Inputs[r] /\ req[r] \in CreateInputs \cup SubmitInputs \cup DeleteInputs
           /\ <<r, req[r]>> \in Requests \X UNION {Inputs[p] : p \in Requests}
           /\ Live = {Promised(s, req[s]) : s \in Surviving}
           /\ Accepted = {Offered(p, req[p]) : p \in Submitted}
           /\ Live' = {Promised(s, req[s]) : s \in Surviving'}
           /\ Accepted' = {Offered(p, req[p]) : p \in Submitted'}
           /\ Surviving' = {p \in Standing' : req[p].op = "create"}
           /\ Submitted' = {p \in Standing' : req[p].op = "submit"}
<1>1. committed' = committed \cup {r} /\ req' = req /\ pc[r] = "commit" /\ r \notin committed
  BY DEF Commit, StoreInv, WholeInv, LocksInv, DeletionInv, Kinds
<1>2. req[r] \in Inputs[r] /\ req[r] \in CreateInputs \cup SubmitInputs \cup DeleteInputs
  BY <1>1, InputKinds DEF StoreInv, Asked
<1>3. <<r, req[r]>> \in Requests \X UNION {Inputs[p] : p \in Requests}
  BY <1>2
<1>4. Live = {Promised(s, req[s]) : s \in Surviving} /\ Accepted = {Offered(p, req[p]) : p \in Submitted}
  BY LiveIs, AcceptedAre DEF StoreInv
<1>5. /\ Surviving' = {p \in Standing' : req[p].op = "create"}
      /\ Submitted' = {p \in Standing' : req[p].op = "submit"}
  BY <1>1 DEF Surviving, Submitted
<1>6. /\ Live' = {Promised(s, req[s]) : s \in Surviving'}
      /\ Accepted' = {Offered(p, req[p]) : p \in Submitted'}
  BY <1>1, TablesNext DEF Promised, Offered
<1>7. QED
  BY <1>1, <1>2, <1>3, <1>4, <1>5, <1>6

\* A questionnaire that was validated can be answered.
LEMMA ValidatedIsWellFormed ==
    ASSUME NEW r, req[r] \in CreateInputs, ValidateSurveyAdding(req[r].form)
    PROVE  Store!WellFormed(Promised(r, req[r]).questions)
<1> DEFINE qs == req[r].form.questions
           Wanted(i) == [id |-> <<r, i>>, type |-> qs[i].type, mandatory |-> qs[i].mandatory,
                         choices |-> {<<r, i, j>> : j \in 1..qs[i].choices}]
<1>1. Promised(r, req[r]).questions = {Wanted(i) : i \in DOMAIN qs}
  BY DEF Promised
<1>2. \A i \in DOMAIN qs : \/ qs[i].type = "multiple" /\ qs[i].choices > 0
                           \/ qs[i].type = "text" /\ qs[i].choices = 0
  BY DEF ValidateSurveyAdding
<1>3. 1 \in DOMAIN qs
  <2>1. qs # << >>
    BY DEF ValidateSurveyAdding
  <2>2. qs \in Seq([type : {"multiple", "text", "other"}, mandatory : BOOLEAN, choices : Nat])
    BY DEF CreateInputs, Forms
  <2> HIDE DEF qs
  <2>3. QED
    BY <2>1, <2>2, FirstElement
<1>4. \A i \in DOMAIN qs : qs[i].choices \in Nat
  BY LoopsOfSurvey
<1> HIDE DEF qs
<1>5. \A i \in DOMAIN qs : \/ Wanted(i).type = "multiple" /\ Wanted(i).choices # {}
                           \/ Wanted(i).type = "text" /\ Wanted(i).choices = {}
  <2> SUFFICES ASSUME NEW i \in DOMAIN qs
               PROVE  \/ qs[i].type = "multiple" /\ {<<r, i, j>> : j \in 1..qs[i].choices} # {}
                      \/ qs[i].type = "text" /\ {<<r, i, j>> : j \in 1..qs[i].choices} = {}
    OBVIOUS
  <2>1. CASE qs[i].type = "multiple" /\ qs[i].choices > 0
    <3>1. 1 \in 1..qs[i].choices
      BY <1>4, <2>1
    <3>2. QED
      BY <2>1, <3>1
  <2>2. CASE qs[i].type = "text" /\ qs[i].choices = 0
    <3>1. 1..qs[i].choices = {}
      BY <2>2
    <3>2. QED
      BY <2>2, <3>1
  <2>3. QED
    BY <1>2, <2>1, <2>2
<1> HIDE DEF Wanted
<1>6. QED
  BY <1>1, <1>3, <1>5 DEF Store!WellFormed

\* The COMMIT of a survey publishes it.
LEMMA CommitPublishes ==
    ASSUME StoreInv, WholeInv', NEW r \in Requests, Commit(r), req[r].op = "create"
    PROVE  Store!Next
<1>1. PICK s : s = Promised(r, req[r])
  OBVIOUS
<1>2. Standing' = Standing \cup {r}
  BY WholeCommitOfRows DEF StoreInv
<1>3. Surviving' = Surviving \cup {r} /\ Submitted' = Submitted
  BY <1>2, Committing DEF Surviving, Submitted
<1>4. /\ Live' = Live \cup {s} /\ Accepted' = Accepted
      /\ Spent' = Spent \cup {r} /\ r \notin Spent
  <2>1. /\ Live = {Promised(p, req[p]) : p \in Surviving}
        /\ Accepted = {Offered(p, req[p]) : p \in Submitted}
        /\ Live' = {Promised(p, req[p]) : p \in Surviving'}
        /\ Accepted' = {Offered(p, req[p]) : p \in Submitted'}
    BY Committing
  <2>2. committed' = committed \cup {r} /\ req' = req /\ r \notin committed
    BY Committing
  <2>3. Spent' = Spent \cup {r} /\ r \notin Spent
    BY <2>2 DEF Spent
  <2>4. QED
    BY <1>1, <1>3, <2>1, <2>3
<1>5. s.id = r
  BY <1>1 DEF Promised
<1>6. Store!WellFormed(s.questions)
  <2>1. ValidateSurveyAdding(req[r].form) /\ req[r] \in CreateInputs
    BY Committing DEF Commit, StoreInv, Asked, SubmitInputs, DeleteInputs
  <2>2. QED
    BY <1>1, <2>1, ValidatedIsWellFormed
<1>7. s \in {Promised(a[1], a[2]) : a \in Asking("create")}
  <2>1. <<r, req[r]>> \in Asking("create")
    BY Committing DEF Asking
  <2>2. QED
    BY <1>1, <2>1
<1>8. Store!Publish(s)
  BY <1>4, <1>5, <1>6 DEF Store!Publish, Live, Accepted, Spent
<1>9. QED
  BY <1>7, <1>8 DEF Store!Next

\* Valid answers to what a survey asks answer the survey as it was published.
LEMMA ValidIsAnswered ==
    ASSUME NEW r, NEW s, req[r] \in SubmitInputs, req[s].op = "create",
           ValidateSubmissionRequest(req[r].answers, Asks(s))
    PROVE  Store!Answered(Offered(r, req[r]).answers, Promised(s, req[s]).questions)
<1> DEFINE as == req[r].answers
           qs == req[s].form.questions
           Sent(k) == [id |-> <<r, k>>, question |-> as[k].question, choice |-> as[k].choice, text |-> as[k].text]
           Wanted(i) == [id |-> <<s, i>>, type |-> qs[i].type, mandatory |-> qs[i].mandatory,
                         choices |-> {<<s, i, j>> : j \in 1..qs[i].choices}]
<1>1. /\ Offered(r, req[r]).answers = {Sent(k) : k \in DOMAIN as}
      /\ Promised(s, req[s]).questions = {Wanted(i) : i \in DOMAIN qs}
  BY DEF Offered, Promised
<1>2. /\ as # << >>
      /\ \A k \in DOMAIN as : ~AnsweredBefore(as, k)
      /\ \A k \in DOMAIN as :
            \E q \in Asks(s).questions :
               /\ q.id = as[k].question
               /\ \/ /\ q.type = "multiple"
                     /\ \E c \in Asks(s).choices : c.id = as[k].choice /\ c.question = q.id
                     /\ ~as[k].text
                  \/ q.type = "text" /\ as[k].choice = NoChoice /\ as[k].text
      /\ \A q \in Asks(s).questions : q.mandatory => \E k \in DOMAIN as : as[k].question = q.id
  BY Zenon DEF ValidateSubmissionRequest
<1>3. Asks(s).questions = {QuestionRow(s, i) : i \in DOMAIN qs}
  BY QuestionsAsked
<1>4. \A i \in DOMAIN qs : /\ QuestionRow(s, i).id = <<s, i>> /\ QuestionRow(s, i).type = qs[i].type
                           /\ QuestionRow(s, i).mandatory = qs[i].mandatory
  BY DEF QuestionRow
<1>5. \A i \in DOMAIN qs : \A c \in Asks(s).choices : c.question = <<s, i>> => c.id \in Wanted(i).choices
  <2> SUFFICES ASSUME NEW i \in DOMAIN qs, NEW c \in Asks(s).choices, c.question = <<s, i>>
               PROVE  c.id \in {<<s, i, j>> : j \in 1..qs[i].choices}
    OBVIOUS
  <2>1. c \in ChoicesAsked(s, <<s, i>>)
    BY DEF ChoicesAsked
  <2>2. {d.id : d \in ChoicesAsked(s, <<s, i>>)} = {<<s, i, j>> : j \in 1..qs[i].choices}
    BY ChoiceIdsOf
  <2>3. QED
    BY <2>1, <2>2
<1>6. /\ DOMAIN as = 1..Length(req[r]) /\ Length(req[r]) \in Nat
      /\ 1 \in DOMAIN as
  <2>1. as \in Bodies
    BY DEF SubmitInputs
  <2>2. QED
    BY <1>2, <2>1, LoopsOfSubmission, FirstElement DEF Bodies
<1>7. \A k \in DOMAIN as : /\ Sent(k).question = as[k].question /\ Sent(k).choice = as[k].choice
                           /\ Sent(k).text = as[k].text
  OBVIOUS
<1>8. \A i \in DOMAIN qs : /\ Wanted(i).id = <<s, i>> /\ Wanted(i).type = qs[i].type
                           /\ Wanted(i).mandatory = qs[i].mandatory
  OBVIOUS
<1> HIDE DEF as, qs, Sent, Wanted
<1>9. \A k \in DOMAIN as : \E i \in DOMAIN qs : Store!Fits(Sent(k), Wanted(i))
  <2> SUFFICES ASSUME NEW k \in DOMAIN as PROVE \E i \in DOMAIN qs : Store!Fits(Sent(k), Wanted(i))
    OBVIOUS
  <2>1. PICK q \in Asks(s).questions :
               /\ q.id = as[k].question
               /\ \/ /\ q.type = "multiple"
                     /\ \E c \in Asks(s).choices : c.id = as[k].choice /\ c.question = q.id
                     /\ ~as[k].text
                  \/ q.type = "text" /\ as[k].choice = NoChoice /\ as[k].text
    BY <1>2, Zenon
  <2>2. PICK i \in DOMAIN qs : q = QuestionRow(s, i)
    BY <1>3, <2>1
  <2>3. q.id = <<s, i>> /\ q.type = qs[i].type
    BY <1>4, <2>2
  <2>4. (\E c \in Asks(s).choices : c.id = as[k].choice /\ c.question = q.id) => as[k].choice \in Wanted(i).choices
    BY <1>5, <2>3
  <2>5. Sent(k).question = Wanted(i).id
    BY <1>7, <1>8, <2>1, <2>3
  <2>6. Store!Fits(Sent(k), Wanted(i))
    BY <1>7, <1>8, <2>1, <2>3, <2>4, <2>5, Zenon DEF Store!Fits
  <2>7. QED
    BY <2>6
<1>10. \A k, l \in DOMAIN as : Sent(k).question = Sent(l).question => Sent(k) = Sent(l)
  <2> SUFFICES ASSUME NEW k \in DOMAIN as, NEW l \in DOMAIN as, as[k].question = as[l].question
               PROVE  k = l
    BY <1>7
  <2>1. k \in Nat /\ l \in Nat /\ k > 0 /\ l > 0
    BY <1>6
  <2>2. k \notin 1..(l - 1) /\ l \notin 1..(k - 1)
    BY <1>2 DEF AnsweredBefore
  <2>3. QED
    BY <2>1, <2>2
<1>11. \A i \in DOMAIN qs : Wanted(i).mandatory => \E k \in DOMAIN as : Sent(k).question = Wanted(i).id
  <2>1. \A i \in DOMAIN qs : QuestionRow(s, i).mandatory => \E k \in DOMAIN as : as[k].question = <<s, i>>
    <3>1. \A i \in DOMAIN qs : QuestionRow(s, i) \in Asks(s).questions
      BY <1>3
    <3>2. QED
      BY <1>2, <1>4, <3>1, ZenonT(60)
  <2>2. QED
    BY <1>4, <1>7, <1>8, <2>1
<1>12. Store!Answered({Sent(k) : k \in DOMAIN as}, {Wanted(i) : i \in DOMAIN qs})
  BY <1>6, <1>9, <1>10, <1>11 DEF Store!Answered
<1>13. QED
  BY <1>1, <1>12

\* The COMMIT of a submission accepts it, and its survey is live.
LEMMA CommitAccepts ==
    ASSUME StoreInv, WholeInv', NEW r \in Requests, Commit(r), req[r].op = "submit"
    PROVE  Store!Next
<1>1. PICK x : x = Offered(r, req[r])
  OBVIOUS
<1>2. PICK s : s = Promised(req[r].survey, req[req[r].survey])
  OBVIOUS
<1>3. Standing' = Standing \cup {r} /\ req[r].survey \in committed /\ ~Gone(req[r].survey)
  BY WholeCommitOfRows DEF StoreInv
<1>4. Surviving' = Surviving /\ Submitted' = Submitted \cup {r}
  BY <1>3, Committing DEF Surviving, Submitted
<1>5. /\ Live' = Live /\ Accepted' = Accepted \cup {x}
      /\ Spent' = Spent \cup {r} /\ r \notin Spent
  <2>1. /\ Live = {Promised(p, req[p]) : p \in Surviving}
        /\ Accepted = {Offered(p, req[p]) : p \in Submitted}
        /\ Live' = {Promised(p, req[p]) : p \in Surviving'}
        /\ Accepted' = {Offered(p, req[p]) : p \in Submitted'}
    BY Committing
  <2>2. committed' = committed \cup {r} /\ req' = req /\ r \notin committed
    BY Committing
  <2>3. Spent' = Spent \cup {r} /\ r \notin Spent
    BY <2>2 DEF Spent
  <2>4. QED
    BY <1>1, <1>4, <2>1, <2>3
<1>6. /\ pc[r] = "commit" /\ Reads(r)
      /\ req[r] \in SubmitInputs
  <2>1. req[r] \in CreateInputs \cup SubmitInputs \cup DeleteInputs
    BY Committing
  <2>2. QED
    BY <2>1 DEF Commit, StoreInv, WholeInv, Fine, CreateInputs, DeleteInputs
<1>7. Known(req[r].survey) /\ Valid(r)
  BY <1>3, <1>6 DEF Reads
<1>8. req[r].survey \in Surviving
  BY <1>3, <1>7, StandsUntilGone DEF StoreInv, Surviving
<1>9. s \in Live
  BY <1>2, <1>8, LiveIs DEF StoreInv
<1>10. Store!Answered(x.answers, s.questions)
  <2>1. req[req[r].survey].op = "create"
    BY <1>8 DEF Surviving
  <2>2. Store!Answered(Offered(r, req[r]).answers, Promised(req[r].survey, req[req[r].survey]).questions)
    BY <1>6, <1>7, <2>1, ValidIsAnswered DEF Valid
  <2>3. QED
    BY <1>1, <1>2, <2>2
<1>11. x.id = r /\ x.survey = req[r].survey /\ s.id = req[r].survey
  BY <1>1, <1>2 DEF Offered, Promised
<1>12. x \in {Offered(a[1], a[2]) : a \in Asking("submit")}
  <2>1. <<r, req[r]>> \in Asking("submit")
    BY Committing DEF Asking
  <2>2. QED
    BY <1>1, <2>1
<1>13. Store!Submit(x)
  BY <1>5, <1>9, <1>10, <1>11 DEF Store!Submit, Live, Accepted, Spent
<1>14. QED
  BY <1>12, <1>13 DEF Store!Next

\* The COMMIT of a deletion retracts the survey, for its owner or an admin.
LEMMA CommitRetracts ==
    ASSUME StoreInv, WholeInv', NEW r \in Requests, Commit(r), req[r].op = "delete"
    PROVE  Store!Next
<1>1. PICK t : t = req[r].survey
  OBVIOUS
<1>2. PICK s : s = Promised(t, req[t])
  OBVIOUS
<1>3. PICK u : u = req[r].user
  OBVIOUS
<1>4. Standing' = {p \in Standing : Target(p) # t}
  BY <1>1, WholeCommitOfDeletion DEF StoreInv
<1>5. /\ Surviving' = {p \in Surviving : p # t}
      /\ Submitted' = {p \in Submitted : req[p].survey # t}
  BY <1>4, Committing DEF Surviving, Submitted, Target
<1>6. /\ Live = {Promised(p, req[p]) : p \in Surviving}
      /\ Accepted = {Offered(p, req[p]) : p \in Submitted}
      /\ Live' = {Promised(p, req[p]) : p \in Surviving'}
      /\ Accepted' = {Offered(p, req[p]) : p \in Submitted'}
  BY Committing
<1>7. /\ \A p : Promised(p, req[p]).id = p /\ Promised(p, req[p]).owner = req[p].user
      /\ \A p : Offered(p, req[p]).survey = req[p].survey
  BY DEF Promised, Offered
<1>8. Live' = Live \ {s} /\ Accepted' = {x \in Accepted : x.survey # s.id}
  <2>1. Live' = Live \ {s}
    BY <1>2, <1>5, <1>6, <1>7
  <2>2. Accepted' = {x \in Accepted : x.survey # t}
    BY <1>5, <1>6, <1>7
  <2>3. QED
    BY <1>2, <1>7, <2>1, <2>2
<1>9. Spent' = Spent
  <2>1. committed' = committed \cup {r} /\ req' = req
    BY Committing
  <2>2. QED
    BY <2>1 DEF Spent
<1>10. t \in Surviving
  <2>1. pc[r] = "commit"
    BY DEF Commit
  <2>2. PICK x \in deleted[r] : x.table = "surveys" /\ x \in db /\ x.id = t
    BY <1>1, <2>1 DEF StoreInv, WholeInv, LocksInv, DeletionInv, Deleting
  <2>3. x \in AllRows(t) /\ req[t].op = "create"
    BY <2>2, RowsOfRequest DEF StoreInv, WholeInv, LocksInv, DeletionInv, SurveyRows, OfSurvey
  <2>4. PICK p \in Standing : x \in AllRows(p)
    BY <2>2 DEF StoreInv, WholeInv, Exact
  <2>5. p = t
    BY <2>3, <2>4, RowsNameTheirRequest
  <2>6. QED
    BY <2>3, <2>4, <2>5 DEF Surviving
<1>11. s \in Live
  BY <1>2, <1>6, <1>10
<1>12. u \in Users /\ (u = s.owner \/ u \in Admins)
  <2>1. req[r] \in DeleteInputs
    <3>1. req[r] \in CreateInputs \cup SubmitInputs \cup DeleteInputs
      BY Committing
    <3>2. QED
      BY <3>1 DEF CreateInputs, SubmitInputs
  <2>2. u \in Admins \/ req[t].user = u
    BY <1>1, <1>3 DEF Commit, StoreInv, WholeInv, LocksInv, DeletionInv, Entitled
  <2>3. QED
    BY <1>2, <1>3, <1>7, <2>1, <2>2 DEF DeleteInputs
<1>13. Store!Retract(s, u)
  BY <1>8, <1>9, <1>12 DEF Store!Retract, Live, Accepted, Spent
<1>14. QED
  BY <1>11, <1>12, <1>13 DEF Store!Next, Live

\* The transactions of the writers implement the store: each COMMIT publishes, accepts or
\* retracts one thing whole, and nothing else, no failure, no crash and no read of a
\* half-written survey, changes what the tables say (db.go:128-181, db.go:226-250,
\* db.go:456-499).
THEOREM ImplementsStoreHolds == Spec => ImplementsStore
<1>1. Init => Store!Init
  BY DEF Init, Store!Init, Table
<1>2. StoreInv /\ [Next]_vars => [Store!Next]_Store!vars
  <2> SUFFICES ASSUME StoreInv, [Next]_vars PROVE [Store!Next]_Store!vars
    OBVIOUS
  <2>1. WholeInv'
    BY WholeNext DEF StoreInv
  <2>2. CASE \A r \in Requests : ~Commit(r)
    <3>1. UNCHANGED <<Live, Accepted, Spent>>
      BY <2>2, OthersSayNothing
    <3>2. UNCHANGED Store!vars
      BY <3>1 DEF Store!vars, Live, Accepted, Spent
    <3>3. QED
      BY <3>2
  <2>3. ASSUME NEW r \in Requests, Commit(r) PROVE Store!Next
    <3>1. req[r].op \in {"create", "submit", "delete"}
      BY <2>1, <2>3, Committing DEF CreateInputs, SubmitInputs, DeleteInputs
    <3>2. QED
      BY <2>1, <2>3, <3>1, CommitPublishes, CommitAccepts, CommitRetracts
  <2>4. QED
    BY <2>2, <2>3
<1>3. QED
  BY <1>1, <1>2, StoreInvariance, PTL DEF Spec, ImplementsStore, Store!Spec
================================================================================
