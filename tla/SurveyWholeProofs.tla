---------------------------- MODULE SurveyWholeProofs ---------------------------
(***************************************************************************)
(* Proofs that each request of a writer takes effect whole or not at all,  *)
(* that submissions answer their survey, and that replies are true, for    *)
(* any number of requests, surveys and forms.                              *)
(*                                                                         *)
(* The argument: the tables hold exactly the rows of the committed         *)
(* requests whose survey was not deleted (Exact).  A loop has inserted     *)
(* what precedes the row it is at, so that at the COMMIT it has inserted   *)
(* all (Loops); a deletion takes all rows at home in its survey, and no    *)
(* other.  While a survey stands its questions and choices are those of    *)
(* its request, whenever they are read: what a submission was validated    *)
(* against is what it stands beside (Reads).                               *)
(***************************************************************************)
EXTENDS SurveyDeletionProofs

\* Where in the loops the row x is inserted.
Place(x) ==
    CASE x.table = "questions" -> <<x.id[2], 0>>
      [] x.table = "choices"   -> <<x.id[2], x.id[3]>>
      [] x.table = "answers"   -> <<x.id[2], 0>>
      [] OTHER                 -> <<0, 0>>

Precedes(a, b) == a[1] < b[1] \/ (a[1] = b[1] /\ a[2] < b[2])

\* What was written and is still there.
Standing == {r \in committed : Retractions(Target(r)) = {}}

Exact ==
    /\ \A x \in db : \E r \in Standing : x \in AllRows(r)
    /\ \A r \in Standing : AllRows(r) \subseteq db

\* The loops of r insert its own rows, in order, up to the last.
Loops(r) ==
    /\ \A x \in inserted[r] : x \in AllRows(r)
    /\ pc[r] = "insert" =>
          /\ at[r] # <<0, 0>> =>
                \A x \in AllRows(r) : Precedes(Place(x), at[r]) => x \in inserted[r]
          /\ req[r].op = "create" /\ at[r][1] # 0 =>
                at[r][2] <= req[r].form.questions[at[r][1]].choices
    /\ pc[r] = "commit" /\ req[r].op # "delete" => AllRows(r) \subseteq inserted[r]

\* What survey s asks.
Asks(s) == [questions |-> {x \in AllRows(s) : x.table = "questions"},
            choices   |-> {x \in AllRows(s) : x.table = "choices"}]

\* Survey s was published, or there is none.
Known(s) == s = NoSurvey \/ (s \in committed /\ req[s].op = "create")

\* The answers of r are valid ones to its survey.
Valid(r) == ValidateSubmissionRequest(req[r].answers, Asks(req[r].survey))

\* What r has read of its survey, if that still stands, is what the survey asks.
Reads(r) ==
    /\ pc[r] # "idle" => req[r] \in CreateInputs \cup SubmitInputs \cup DeleteInputs
    /\ pc[r] # "idle" /\ req[r].op # "create" => Known(req[r].survey)
    /\ pc[r] = "choices" /\ ~Gone(req[r].survey) =>
          /\ \A q \in seen[r].unread : q[1] = req[r].survey
          /\ seen[r].questions = Asks(req[r].survey).questions
          /\ seen[r].choices = {c \in Asks(req[r].survey).choices : c.question \notin seen[r].unread}
    /\ pc[r] \in {"insert", "commit"} /\ req[r].op = "submit" => Gone(req[r].survey) \/ Valid(r)
    /\ r \in committed /\ req[r].op = "submit" => req[r].survey \in committed /\ Valid(r)

\* What r was told is true.
Replies(r) ==
    /\ pc[r] = "committed" => r \in committed
    /\ pc[r] = "done" =>
          /\ resp[r] \in {200, 201} => r \in committed
          /\ resp[r] \in {400, 403, 404} => r \notin committed
          /\ resp[r] = 404 => Gone(req[r].survey)
          /\ resp[r] = 400 /\ req[r].op = "submit" => Gone(req[r].survey) \/ ~Valid(r)

Fine(r)  == Loops(r) /\ Reads(r) /\ Replies(r)
WholeInv == LocksInv /\ Exact /\ \A r \in Requests : Fine(r)

--------------------------------------------------------------------------------
\* The rows of a request.

OfSurvey(r, x) ==
    \/ x = SurveyRow(r)
    \/ \E i \in DOMAIN req[r].form.questions :
          \/ x = QuestionRow(r, i)
          \/ \E j \in 1..req[r].form.questions[i].choices : x = ChoiceRow(r, i, j)

OfSubmission(r, x) ==
    \/ x = SubmissionRow(r)
    \/ \E k \in DOMAIN req[r].answers : x = AnswerRow(r, k)

\* A row of a request is one of its survey or of its submission.
LEMMA RowsOfRequest ==
    ASSUME NEW r
    PROVE  \A x : x \in AllRows(r) <=>
              \/ req[r].op = "create" /\ OfSurvey(r, x)
              \/ req[r].op = "submit" /\ OfSubmission(r, x)
<1>1. CASE req[r].op = "create"
  BY <1>1 DEF AllRows, OfSurvey
<1>2. CASE req[r].op = "submit"
  BY <1>2 DEF AllRows, OfSubmission
<1>3. CASE req[r].op \notin {"create", "submit"}
  BY <1>3 DEF AllRows
<1>4. QED
  BY <1>1, <1>2, <1>3

\* Its columns name the request, and it is at home in the request's survey.
LEMMA RowsNameTheirRequest ==
    ASSUME NEW r, NEW x \in AllRows(r)
    PROVE  /\ Writer(Key(x)) = r /\ Home(Key(x)) = Target(r)
           /\ \/ req[r].op = "create" /\ x.table \in {"surveys", "questions", "choices"}
              \/ req[r].op = "submit" /\ x.table \in {"submissions", "answers"}
           /\ x.table = "surveys" => x.id = r
           /\ x.table = "questions" => x.survey = r /\ x.id[1] = r
           /\ x.table = "choices" => x.question = <<r, x.id[2]>>
           /\ x.table = "submissions" => x = SubmissionRow(r)
           /\ x.table = "answers" => x.submission = r
<1>1. CASE req[r].op = "create"
  <2>1. CASE x = SurveyRow(r)
    BY <1>1, <2>1 DEF SurveyRow, Key, Writer, Home, HomeOf, Target
  <2>2. ASSUME NEW i, x = QuestionRow(r, i) PROVE x.table = "questions" /\ x.survey = r /\ x.id = <<r, i>>
    BY <2>2 DEF QuestionRow
  <2>3. ASSUME NEW i, NEW j, x = ChoiceRow(r, i, j)
        PROVE x.table = "choices" /\ x.id = <<r, i, j>> /\ x.question = <<r, i>>
    BY <2>3 DEF ChoiceRow
  <2>4. CASE x.table = "questions" /\ x.survey = r /\ \E i : x.id = <<r, i>>
    BY <1>1, <2>4 DEF Key, Writer, Home, HomeOf, Target
  <2>5. CASE x.table = "choices" /\ \E i, j : x.id = <<r, i, j>> /\ x.question = <<r, i>>
    BY <1>1, <2>5 DEF Key, Writer, Home, HomeOf, Target
  <2>6. OfSurvey(r, x)
    BY <1>1, RowsOfRequest
  <2>7. QED
    BY <2>1, <2>2, <2>3, <2>4, <2>5, <2>6 DEF OfSurvey
<1>2. CASE req[r].op # "create"
  <2>1. req[r].op = "submit" /\ OfSubmission(r, x)
    BY <1>2, RowsOfRequest
  <2>2. CASE x = SubmissionRow(r)
    BY <2>1, <2>2 DEF SubmissionRow, Key, Writer, Home, HomeOf, Target
  <2>3. ASSUME NEW k, x = AnswerRow(r, k) PROVE x.table = "answers" /\ x.id = <<r, k>> /\ x.submission = r
    BY <2>3 DEF AnswerRow
  <2>4. CASE x.table = "answers" /\ x.submission = r /\ \E k : x.id = <<r, k>>
    BY <2>1, <2>4 DEF Key, Writer, Home, HomeOf, Target
  <2>5. QED
    BY <2>1, <2>2, <2>3, <2>4 DEF OfSubmission
<1>3. QED
  BY <1>1, <1>2

\* Where they are in the loops.
LEMMA Places ==
    ASSUME NEW r, NEW i, NEW j
    PROVE  /\ Place(SurveyRow(r)) = <<0, 0>>
           /\ Place(QuestionRow(r, i)) = <<i, 0>>
           /\ Place(ChoiceRow(r, i, j)) = <<i, j>>
           /\ Place(SubmissionRow(r)) = <<0, 0>>
           /\ Place(AnswerRow(r, i)) = <<i, 0>>
BY DEF Place, SurveyRow, QuestionRow, ChoiceRow, SubmissionRow, AnswerRow

\* How far the loops of a request go.
LEMMA LoopsOfSurvey ==
    ASSUME NEW in \in CreateInputs
    PROVE  /\ in.op = "create"
           /\ Length(in) \in Nat
           /\ DOMAIN in.form.questions = 1..Length(in)
           /\ \A i \in 1..Length(in) : in.form.questions[i].choices \in Nat
<1> DEFINE Q  == [type : {"multiple", "text", "other"}, mandatory : BOOLEAN, choices : Nat]
           qs == in.form.questions
<1>1. in.op = "create" /\ qs \in Seq(Q)
  BY DEF CreateInputs, Forms
<1>2. Length(in) = Len(qs) /\ Len(qs) \in Nat /\ DOMAIN qs = 1..Len(qs)
  BY <1>1 DEF Length
<1>3. \A q \in Q : q.choices \in Nat
  OBVIOUS
<1> HIDE DEF Q, qs
<1>4. \A i \in 1..Len(qs) : qs[i] \in Q
  BY <1>1
<1>5. QED
  BY <1>1, <1>2, <1>3, <1>4 DEF qs

\* The same of a submission.
LEMMA LoopsOfSubmission ==
    ASSUME NEW in \in SubmitInputs
    PROVE  /\ in.op = "submit"
           /\ Length(in) \in Nat
           /\ DOMAIN in.answers = 1..Length(in)
BY DEF SubmitInputs, Bodies, Length

\* A row of a survey's request is found by its place, and the other way round.
LEMMA PlacesOfSurvey ==
    ASSUME NEW r, req[r] \in CreateInputs, NEW x \in AllRows(r)
    PROVE  \/ x = SurveyRow(r) /\ Place(x) = <<0, 0>>
           \/ \E i \in 1..Length(req[r]) :
                 \/ x = QuestionRow(r, i) /\ Place(x) = <<i, 0>>
                 \/ \E j \in 1..req[r].form.questions[i].choices :
                       x = ChoiceRow(r, i, j) /\ Place(x) = <<i, j>>
<1>1. req[r].op = "create" /\ DOMAIN req[r].form.questions = 1..Length(req[r])
  BY LoopsOfSurvey
<1>2. OfSurvey(r, x)
  BY <1>1, RowsOfRequest, Zenon
<1>3. QED
  BY <1>1, <1>2, Places DEF OfSurvey

\* The same of a submission.
LEMMA PlacesOfSubmission ==
    ASSUME NEW r, req[r] \in SubmitInputs, NEW x \in AllRows(r)
    PROVE  \/ x = SubmissionRow(r) /\ Place(x) = <<0, 0>>
           \/ \E k \in 1..Length(req[r]) : x = AnswerRow(r, k) /\ Place(x) = <<k, 0>>
<1>1. req[r].op = "submit" /\ DOMAIN req[r].answers = 1..Length(req[r])
  BY LoopsOfSubmission
<1>2. OfSubmission(r, x)
  BY <1>1, RowsOfRequest, Zenon
<1>3. QED
  BY <1>1, <1>2, Places DEF OfSubmission

\* The loops end after the last row.
LEMMA PlacesInLoops ==
    ASSUME NEW r, req[r] \in CreateInputs \cup SubmitInputs, NEW x \in AllRows(r)
    PROVE  /\ Place(x)[1] \in Nat /\ Place(x)[2] \in Nat
           /\ Place(x)[1] <= Length(req[r])
<1>1. CASE req[r] \in CreateInputs
  <2>1. CASE Place(x) = <<0, 0>>
    BY <1>1, <2>1, LoopsOfSurvey
  <2>2. CASE \E i \in 1..Length(req[r]) : Place(x) = <<i, 0>>
    BY <1>1, <2>2, LoopsOfSurvey
  <2>3. CASE \E i \in 1..Length(req[r]) : \E j \in 1..req[r].form.questions[i].choices : Place(x) = <<i, j>>
    <3>1. PICK i \in 1..Length(req[r]) : \E j \in 1..req[r].form.questions[i].choices : Place(x) = <<i, j>>
      BY <2>3
    <3>2. PICK j \in 1..req[r].form.questions[i].choices : Place(x) = <<i, j>>
      BY <3>1
    <3>3. i \in Nat /\ req[r].form.questions[i].choices \in Nat /\ Length(req[r]) \in Nat
      BY <1>1, LoopsOfSurvey
    <3>4. j \in Nat /\ i <= Length(req[r])
      BY <3>3
    <3>5. QED
      BY <3>2, <3>3, <3>4
  <2>4. QED
    BY <1>1, <2>1, <2>2, <2>3, PlacesOfSurvey
<1>2. CASE req[r] \in SubmitInputs
  BY <1>2, PlacesOfSubmission, LoopsOfSubmission
<1>3. QED
  BY <1>1, <1>2

\* The loops insert rows of the request.
LEMMA RowAtIsOwn ==
    ASSUME TypeInv, NEW r \in Requests, Loops(r), pc[r] = "insert"
    PROVE  RowAt(r) \in AllRows(r)
<1> DEFINE i == at[r][1]
           j == at[r][2]
<1>1. /\ i \in Nat /\ j \in Nat /\ i <= Length(req[r])
      /\ req[r] \in CreateInputs \cup SubmitInputs
  BY DEF TypeInv, TypeOK, Stages
<1>2. CASE req[r] \in CreateInputs
  <2>1. req[r].op = "create" /\ Length(req[r]) \in Nat /\ DOMAIN req[r].form.questions = 1..Length(req[r])
        /\ \A k \in 1..Length(req[r]) : req[r].form.questions[k].choices \in Nat
    BY <1>2, LoopsOfSurvey
  <2>2. i = 0 \/ (i \in DOMAIN req[r].form.questions /\ (j = 0 \/ j \in 1..req[r].form.questions[i].choices))
    BY <1>1, <2>1 DEF Loops
  <2>3. OfSurvey(r, RowAt(r))
    BY <2>1, <2>2 DEF RowAt, OfSurvey
  <2>4. QED
    BY <2>1, <2>3, RowsOfRequest, Zenon
<1>3. CASE req[r] \in SubmitInputs
  <2>1. req[r].op = "submit" /\ Length(req[r]) \in Nat /\ DOMAIN req[r].answers = 1..Length(req[r])
    BY <1>3, LoopsOfSubmission
  <2>2. i = 0 \/ i \in DOMAIN req[r].answers
    BY <1>1, <2>1
  <2>3. OfSubmission(r, RowAt(r))
    BY <2>1, <2>2 DEF RowAt, OfSubmission
  <2>4. QED
    BY <2>1, <2>3, RowsOfRequest, Zenon
<1>4. QED
  BY <1>1, <1>2, <1>3

\* Between the row the loops are at and the next one there is no other.
LEMMA NextIsNext ==
    ASSUME TypeInv, NEW r \in Requests, pc[r] = "insert",
           NEW x \in AllRows(r), Precedes(Place(x), NextAt(r))
    PROVE  x = RowAt(r) \/ Precedes(Place(x), at[r])
<1> DEFINE i == at[r][1]
           j == at[r][2]
<1>1. /\ i \in Nat /\ j \in Nat /\ at[r] = <<i, j>>
      /\ req[r] \in CreateInputs \cup SubmitInputs
  BY DEF TypeInv, TypeOK, Stages
<1> HIDE DEF i, j
<1>2. CASE req[r] \in CreateInputs
  <2>1. req[r].op = "create" /\ Length(req[r]) \in Nat
        /\ \A k \in 1..Length(req[r]) : req[r].form.questions[k].choices \in Nat
    BY <1>2, LoopsOfSurvey
  <2>2. CASE x = SurveyRow(r) /\ Place(x) = <<0, 0>>
    <3>1. i = 0 => RowAt(r) = x
      BY <2>1, <2>2, <1>1 DEF RowAt, i
    <3>2. QED
      BY <1>1, <2>2, <3>1 DEF Precedes
  <2>3. ASSUME NEW k \in 1..Length(req[r]), x = QuestionRow(r, k), Place(x) = <<k, 0>>
        PROVE  x = RowAt(r) \/ Precedes(Place(x), at[r])
    <3>1. k \in Nat /\ k # 0
      BY <2>1
    <3>2. i = k /\ j = 0 => RowAt(r) = x
      BY <2>1, <2>3, <3>1, <1>1 DEF RowAt
    <3>3. k <= i
      <4>1. NextAt(r) = <<i, j + 1>> \/ NextAt(r) = <<i + 1, 0>>
        BY <1>1 DEF NextAt
      <4>2. QED
        BY <1>1, <2>3, <3>1, <4>1 DEF Precedes
    <3>4. QED
      BY <1>1, <2>3, <3>1, <3>2, <3>3 DEF Precedes
  <2>4. ASSUME NEW k \in 1..Length(req[r]), NEW l \in 1..req[r].form.questions[k].choices,
               x = ChoiceRow(r, k, l), Place(x) = <<k, l>>
        PROVE  x = RowAt(r) \/ Precedes(Place(x), at[r])
    <3> DEFINE n == req[r].form.questions[k].choices
    <3>1. k \in Nat /\ k # 0 /\ n \in Nat
      BY <2>1
    <3>2. l \in Nat /\ l # 0 /\ l <= n
      BY <3>1
    <3>3. i = k /\ j = l => RowAt(r) = x
      BY <2>1, <2>4, <3>1, <3>2, <1>1 DEF RowAt
    <3>4. \/ NextAt(r) = <<i, j + 1>>
          \/ NextAt(r) = <<i + 1, 0>> /\ (k = i => j >= n)
      BY <1>1, <2>1, <3>1 DEF NextAt
    <3> HIDE DEF n
    <3>5. k < i \/ (k = i /\ l <= j)
      BY <1>1, <2>4, <3>1, <3>2, <3>4 DEF Precedes
    <3>6. QED
      BY <1>1, <2>4, <3>1, <3>2, <3>3, <3>5 DEF Precedes
  <2>5. QED
    BY <1>2, <2>2, <2>3, <2>4, PlacesOfSurvey
<1>3. CASE req[r] \in SubmitInputs
  <2>1. req[r].op = "submit" /\ Length(req[r]) \in Nat
    BY <1>3, LoopsOfSubmission
  <2>2. NextAt(r) = <<i + 1, 0>>
    BY <2>1 DEF NextAt, i
  <2>3. CASE x = SubmissionRow(r) /\ Place(x) = <<0, 0>>
    <3>1. i = 0 => RowAt(r) = x
      BY <2>1, <2>3 DEF RowAt, i
    <3>2. QED
      BY <1>1, <2>3, <3>1 DEF Precedes
  <2>4. ASSUME NEW k \in 1..Length(req[r]), x = AnswerRow(r, k), Place(x) = <<k, 0>>
        PROVE  x = RowAt(r) \/ Precedes(Place(x), at[r])
    <3>1. k \in Nat /\ k # 0
      BY <2>1
    <3>2. i = k => RowAt(r) = x
      BY <2>1, <2>4, <3>1 DEF RowAt, i
    <3>3. QED
      BY <1>1, <2>2, <2>4, <3>1, <3>2 DEF Precedes
  <2>5. QED
    BY <1>3, <2>3, <2>4, PlacesOfSubmission
<1>4. QED
  BY <1>1, <1>2, <1>3

--------------------------------------------------------------------------------
\* What stays.

\* The rows of a request, and whether its answers are valid, stay while what was
\* asked does.
LEMMA RowsStay ==
    ASSUME NEW r, req'[r] = req[r]
    PROVE  AllRows(r)' = AllRows(r) /\ Target(r)' = Target(r) /\ Asks(r)' = Asks(r)
<1>1. AllRows(r)' = AllRows(r)
  BY DEF AllRows, SurveyRow, QuestionRow, ChoiceRow, SubmissionRow, AnswerRow
<1>2. QED
  BY <1>1 DEF Target, Asks

\* A COMMIT that is no deletion, and any other step, leaves the surveys that are gone.
LEMMA RetractionsStay ==
    ASSUME committed \subseteq committed', \A d \in committed : req'[d] = req[d],
           \A d \in committed' : d \in committed \/ req'[d].op # "delete",
           NEW s
    PROVE  Retractions(s)' = Retractions(s) /\ (Gone(s)' <=> Gone(s))
<1>1. Retractions(s)' = Retractions(s)
  BY DEF Retractions
<1>2. QED
  BY <1>1 DEF Gone

\* What is gone does not come back.
LEMMA GoneStays ==
    ASSUME committed \subseteq committed', \A d \in committed : req'[d] = req[d],
           NEW s, Gone(s)
    PROVE  Gone(s)'
BY DEF Gone, Retractions

\* As long as no row changes, the tables stay what they are.
LEMMA ExactStays ==
    ASSUME Exact, db' = db, committed' = committed, \A d \in committed : req'[d] = req[d]
    PROVE  Exact'
<1>1. \A s : Retractions(s)' = Retractions(s)
  BY RetractionsStay
<1>2. \A r \in committed : AllRows(r)' = AllRows(r) /\ Target(r)' = Target(r)
  BY RowsStay
<1>3. Standing' = Standing
  BY <1>1, <1>2 DEF Standing
<1>4. \A r \in Standing : r \in committed
  BY DEF Standing
<1>5. QED
  BY <1>2, <1>3, <1>4 DEF Exact

\* A request that takes no step, or dies, is as it was, whatever another one commits.
LEMMA OthersStay ==
    ASSUME WholeInv, NEW p \in Requests,
           committed \subseteq committed', p \in committed' => p \in committed,
           \A d \in committed : req'[d] = req[d],
           req'[p] = req[p], seen'[p] = seen[p], at'[p] = at[p], inserted'[p] = inserted[p],
           resp'[p] = resp[p],
           pc'[p] = pc[p] \/ (pc'[p] = "dead" /\ pc[p] # "idle")
    PROVE  Fine(p)'
<1> DEFINE s == req[p].survey
<1>1. /\ Loops(p) /\ Reads(p) /\ Replies(p)
      /\ p \in committed => pc[p] # "idle"
      /\ pc[p] = "choices" => req[p].op = "submit"
      /\ AllRows(p)' = AllRows(p)
  BY RowsStay DEF WholeInv, Fine, LocksInv, DeletionInv, Kinds, TypeInv, Stages, SubmitInputs
<1>2. Loops(p)'
  BY <1>1 DEF Loops
<1>3. Gone(s) => Gone(s)'
  BY GoneStays
<1>4. Known(s) => Known(s)'
  BY DEF Known
<1>5. Known(s) => Gone(s) \/ s \in committed
  BY DEF Known, Gone
<1>6. s \in committed => Asks(s)' = Asks(s) /\ (Valid(p)' <=> Valid(p))
  <2> SUFFICES ASSUME s \in committed PROVE Asks(s)' = Asks(s) /\ (Valid(p)' <=> Valid(p))
    OBVIOUS
  <2>1. Asks(s)' = Asks(s)
    BY RowsStay
  <2>2. QED
    BY <2>1 DEF Valid, ValidateSubmissionRequest, AnsweredBefore
<1>7. Reads(p)'
  <2>1. /\ pc[p] # "idle" /\ req[p].op # "create" => Known(s)'
        /\ pc[p] = "choices" /\ ~Gone(s)' =>
              /\ \A q \in seen[p].unread : q[1] = s
              /\ seen[p].questions = Asks(s)'.questions
              /\ seen[p].choices = {c \in Asks(s)'.choices : c.question \notin seen[p].unread}
    BY <1>1, <1>3, <1>4, <1>5, <1>6 DEF Reads
  <2>2. /\ pc[p] \in {"insert", "commit"} /\ req[p].op = "submit" => Gone(s)' \/ Valid(p)'
        /\ p \in committed /\ req[p].op = "submit" => s \in committed' /\ Valid(p)'
    BY <1>1, <1>3, <1>5, <1>6 DEF Reads
  <2>3. pc'[p] # "idle" => pc[p] # "idle"
    OBVIOUS
  <2>4. QED
    BY <1>1, <2>1, <2>2, <2>3 DEF Reads
<1>8. Replies(p)'
  BY <1>1, <1>3, <1>5, <1>6 DEF Reads, Replies
<1>9. QED
  BY <1>2, <1>7, <1>8 DEF Fine

--------------------------------------------------------------------------------
\* What a reader of the tables finds of a survey.

\* A survey that is published and not deleted is there.
LEMMA StandsUntilGone ==
    ASSUME WholeInv, NEW s, Known(s), ~Gone(s)
    PROVE  /\ s \in Standing /\ req[s].op = "create"
           /\ SurveyRow(s) \in db
           /\ AllRows(s) \subseteq db
<1>1. s \in committed /\ req[s].op = "create" /\ Retractions(s) = {}
  BY DEF Known, Gone
<1>2. s \in Standing
  BY <1>1 DEF Standing, Target
<1>3. AllRows(s) \subseteq db
  BY <1>2 DEF WholeInv, Exact
<1>4. SurveyRow(s) \in AllRows(s)
  BY <1>1, RowsOfRequest DEF OfSurvey
<1>5. QED
  BY <1>1, <1>2, <1>3, <1>4

\* So that a survey that is not there is gone.
LEMMA AbsentIsGone ==
    ASSUME WholeInv, NEW s, Known(s), <<"surveys", s>> \notin Keys(db)
    PROVE  Gone(s)
<1> SUFFICES ASSUME ~Gone(s) PROVE FALSE
  OBVIOUS
<1>1. SurveyRow(s) \in db
  BY StandsUntilGone
<1>2. QED
  BY <1>1 DEF SurveyRow, Key, Keys

\* Its questions and choices are those that were asked to be published.
LEMMA QuestionsFound ==
    ASSUME WholeInv, NEW s, Known(s), ~Gone(s)
    PROVE  /\ SurveyQuestions(s) = Asks(s).questions
           /\ \A q : q[1] = s =>
                 {c \in Table("choices") : c.question = q} = {c \in Asks(s).choices : c.question = q}
           /\ \A c \in Asks(s).choices : \E q \in Asks(s).questions : q.id = c.question
           /\ \A q \in Asks(s).questions : q.id[1] = s
<1>1. s \in Standing /\ req[s].op = "create" /\ AllRows(s) \subseteq db
  BY StandsUntilGone
<1>2. \A x \in db : \E r \in Standing : x \in AllRows(r)
  BY DEF WholeInv, Exact
<1>3. \A x \in db : x.table = "questions" /\ x.survey = s => x \in AllRows(s)
  BY <1>2, RowsNameTheirRequest
<1>4. \A x \in db : x.table = "choices" /\ x.question[1] = s => x \in AllRows(s)
  BY <1>2, RowsNameTheirRequest
<1>5. \A x \in AllRows(s) : x.table = "questions" => x.survey = s /\ x.id[1] = s
  BY RowsNameTheirRequest
<1>6. Asks(s).questions = {x \in AllRows(s) : x.table = "questions"}
  BY DEF Asks
<1>7. Asks(s).choices = {x \in AllRows(s) : x.table = "choices"}
  BY DEF Asks
<1>8. SurveyQuestions(s) = Asks(s).questions
  BY <1>1, <1>3, <1>5, <1>6 DEF SurveyQuestions, Table
<1>9. \A q : q[1] = s =>
         {c \in Table("choices") : c.question = q} = {c \in Asks(s).choices : c.question = q}
  BY <1>1, <1>4, <1>7 DEF Table
<1>10. \A c \in Asks(s).choices : \E q \in Asks(s).questions : q.id = c.question
  <2> SUFFICES ASSUME NEW c \in AllRows(s), c.table = "choices"
               PROVE  \E q \in AllRows(s) : q.table = "questions" /\ q.id = c.question
    BY <1>6, <1>7
  <2>1. OfSurvey(s, c)
    BY <1>1, RowsOfRequest, Zenon
  <2>2. \A i : SurveyRow(s).table # "choices" /\ QuestionRow(s, i).table # "choices"
    BY DEF SurveyRow, QuestionRow
  <2>3. PICK i \in DOMAIN req[s].form.questions :
           \E j \in 1..req[s].form.questions[i].choices : c = ChoiceRow(s, i, j)
    BY <2>1, <2>2 DEF OfSurvey
  <2>4. QuestionRow(s, i) \in AllRows(s)
    BY <1>1, RowsOfRequest DEF OfSurvey
  <2>5. c.question = <<s, i>>
    BY <2>3 DEF ChoiceRow
  <2>6. QuestionRow(s, i).table = "questions" /\ QuestionRow(s, i).id = <<s, i>>
    BY DEF QuestionRow
  <2>7. QED
    BY <2>4, <2>5, <2>6
<1>11. QED
  BY <1>5, <1>6, <1>8, <1>9, <1>10

\* A submission that stands has the answers that were sent.
LEMMA AnswersFound ==
    ASSUME WholeInv, NEW r \in Standing, req[r].op = "submit"
    PROVE  {a \in Table("answers") : a.submission = r} = {AnswerRow(r, k) : k \in DOMAIN req[r].answers}
<1>1. \A k \in DOMAIN req[r].answers : AnswerRow(r, k) \in AllRows(r)
  BY RowsOfRequest DEF OfSubmission
<1>2. AllRows(r) \subseteq db
  BY DEF WholeInv, Exact
<1>3. \A k \in DOMAIN req[r].answers : AnswerRow(r, k) \in Table("answers") /\ AnswerRow(r, k).submission = r
  BY <1>1, <1>2 DEF AnswerRow, Table
<1>4. ASSUME NEW a \in Table("answers"), a.submission = r
      PROVE  \E k \in DOMAIN req[r].answers : a = AnswerRow(r, k)
  <2>1. PICK p \in Standing : a \in AllRows(p)
    BY DEF WholeInv, Exact, Table
  <2>2. a \in AllRows(r) /\ a.table = "answers"
    BY <1>4, <2>1, RowsNameTheirRequest DEF Table
  <2>3. OfSubmission(r, a)
    BY <2>2, RowsOfRequest, Zenon
  <2>4. QED
    BY <2>2, <2>3 DEF OfSubmission, SubmissionRow
<1>5. QED
  BY <1>3, <1>4

--------------------------------------------------------------------------------
\* The steps.

\* At first nothing is there.
LEMMA WholeInit == Init => WholeInv
<1> SUFFICES ASSUME Init PROVE WholeInv
  OBVIOUS
<1>1. LocksInv
  BY DeletionInit, LockInit, HomeInit DEF LocksInv
<1>2. Exact
  BY DEF Init, Exact, Standing
<1>3. \A r \in Requests : Fine(r)
  BY DEF Init, Fine, Loops, Reads, Replies
<1>4. QED
  BY <1>1, <1>2, <1>3 DEF WholeInv

\* A request that is received has inserted and read nothing.
LEMMA WholeReceive ==
    ASSUME WholeInv, NEW r \in Requests,
           CreateSurvey(r) \/ CreateSubmission(r) \/ DeleteSurvey(r)
    PROVE  Exact' /\ \A p \in Requests : Fine(p)'
<1>1. PICK in \in Inputs[r] :
         /\ req' = [req EXCEPT ![r] = in]
         /\ \/ in.op = "create" /\ (pc'[r] = "insert" \/ (pc'[r] = "done" /\ resp'[r] = 400))
            \/ /\ in.op \in {"submit", "delete"} /\ in.survey \in Published \cup {NoSurvey}
               /\ pc'[r] \in {"exists", "owner", "delete"}
  <2>1. r \in DOMAIN pc /\ r \in DOMAIN resp
    BY DEF WholeInv, LocksInv, DeletionInv, TypeInv, TypeOK
  <2>2. CASE CreateSurvey(r)
    BY <2>1, <2>2, ZenonT(60) DEF CreateSurvey, Goto, Answer
  <2>3. CASE CreateSubmission(r)
    BY <2>1, <2>3 DEF CreateSubmission, Goto
  <2>4. CASE DeleteSurvey(r)
    BY <2>1, <2>4 DEF DeleteSurvey, Goto
  <2>5. QED
    BY <2>2, <2>3, <2>4
<1>2. /\ pc[r] = "idle" /\ UNCHANGED <<db, seen, at, inserted, deleted, committed>>
      /\ \A q \in Requests \ {r} : pc'[q] = pc[q] /\ resp'[q] = resp[q] /\ req'[q] = req[q]
  BY DEF CreateSurvey, CreateSubmission, DeleteSurvey, Goto, Answer, tables,
         WholeInv, LocksInv, DeletionInv, TypeInv, TypeOK
<1>3. /\ r \notin committed /\ inserted[r] = {} /\ at[r] = <<0, 0>>
      /\ committed \subseteq Requests
      /\ req'[r] = in
  BY <1>1, <1>2 DEF WholeInv, LocksInv, DeletionInv, TypeInv, TypeOK, Stages, Kinds
<1>4. \A d \in committed : req'[d] = req[d]
  BY <1>2, <1>3
<1>5. Exact'
  BY <1>2, <1>4, ExactStays DEF WholeInv
<1>6. \A p \in Requests \ {r} : Fine(p)'
  BY <1>2, <1>4, OthersStay
<1>7. Fine(r)'
  <2>1. in \in CreateInputs \cup SubmitInputs \cup DeleteInputs
    BY InputKinds
  <2>2. in.op # "create" => Known(in.survey)'
    BY <1>1, <1>2, <1>4 DEF Published, Known
  <2>3. Loops(r)'
    BY <1>1, <1>2, <1>3 DEF Loops
  <2>4. Reads(r)'
    BY <1>1, <1>2, <1>3, <2>1, <2>2 DEF Reads
  <2>5. Replies(r)'
    BY <1>1, <1>2, <1>3 DEF Replies
  <2>6. QED
    BY <2>3, <2>4, <2>5 DEF Fine
<1>8. QED
  BY <1>5, <1>6, <1>7

\* The reads of a request see the survey whole, or it is gone; so does the
\* ownership check, and the reply follows the COMMIT.
LEMMA WholeRead ==
    ASSUME WholeInv, NEW r \in Requests,
           \/ SurveyExists(r) \/ ReadQuestions(r) \/ ReadChoices(r) \/ ValidateSubmission(r)
           \/ CheckOwnership(r) \/ Reply(r) \/ CommitReplyLost(r)
    PROVE  Exact' /\ \A p \in Requests : Fine(p)'
<1> DEFINE s == req[r].survey
<1>1. /\ UNCHANGED <<db, req, at, inserted, deleted, committed>>
      /\ \A p \in Requests \ {r} : pc'[p] = pc[p] /\ resp'[p] = resp[p] /\ seen'[p] = seen[p]
  <2>1. UNCHANGED <<db, req, at, inserted, deleted, committed>>
    BY DEF SurveyExists, ReadQuestions, ReadChoices, ValidateSubmission, CheckOwnership, Reply, CommitReplyLost,
           tables
  <2>2. DOMAIN pc = Requests /\ DOMAIN resp = Requests /\ DOMAIN seen = Requests
    BY DEF WholeInv, LocksInv, DeletionInv, TypeInv, TypeOK
  <2>3. \A p \in Requests \ {r} : pc'[p] = pc[p] /\ resp'[p] = resp[p]
    BY <2>2 DEF SurveyExists, ReadQuestions, ReadChoices, ValidateSubmission, CheckOwnership, Reply, CommitReplyLost,
                Goto, Answer
  <2>4. \A p \in Requests \ {r} : seen'[p] = seen[p]
    BY <2>2 DEF SurveyExists, ReadQuestions, ReadChoices, ValidateSubmission, CheckOwnership, Reply, CommitReplyLost,
                tables
  <2>5. QED
    BY <2>1, <2>3, <2>4
<1>2. Exact'
  BY <1>1, ExactStays DEF WholeInv
<1>3. \A p \in Requests \ {r} : Fine(p)'
  BY <1>1, OthersStay
<1>4. /\ Loops(r) /\ Reads(r) /\ Replies(r)
      /\ r \in DOMAIN pc /\ r \in DOMAIN resp /\ DOMAIN seen = Requests
      /\ DOMAIN seen[r] = {"questions", "unread", "choices"}
      /\ pc[r] \in {"exists", "questions", "choices"} => req[r].op = "submit" /\ at[r] = <<0, 0>> /\ inserted[r] = {}
      /\ pc[r] = "owner" => req[r].op = "delete" /\ inserted[r] = {}
      /\ pc[r] = "committed" => inserted[r] = {}
      /\ pc[r] \in {"exists", "questions", "choices", "owner"} => r \notin committed
  BY DEF WholeInv, Fine, LocksInv, DeletionInv, TypeInv, TypeOK, Stages, Kinds, SubmitInputs, HomeInv, Checked
<1>5. \A t : /\ AllRows(t)' = AllRows(t) /\ Asks(t)' = Asks(t)
             /\ Known(t)' <=> Known(t)
             /\ Gone(t)' <=> Gone(t)
  BY <1>1, RowsStay, RetractionsStay DEF Known
<1>6. Valid(r)' <=> Valid(r)
  BY <1>1, <1>5 DEF Valid, ValidateSubmissionRequest, AnsweredBefore
<1>7. CASE SurveyExists(r)
  <2>1. pc[r] = "exists" /\ (pc'[r] = "questions" \/ (pc'[r] = "done" /\ resp'[r] = 404 /\ Gone(s)))
    BY <1>4, <1>7, AbsentIsGone DEF SurveyExists, Goto, Answer, Reads
  <2>2. Loops(r)'
    BY <1>1, <1>4, <2>1 DEF Loops
  <2>3. Reads(r)'
    BY <1>1, <1>4, <1>5, <2>1 DEF Reads
  <2>4. Replies(r)'
    BY <1>1, <1>4, <1>5, <2>1 DEF Replies
  <2>5. QED
    BY <1>2, <1>3, <2>2, <2>3, <2>4 DEF Fine
<1>8. CASE ReadQuestions(r)
  <2> DEFINE qs == SurveyQuestions(s)
  <2>1. /\ pc[r] = "questions" /\ pc'[r] = "choices"
        /\ seen'[r] = [questions |-> qs, unread |-> {q.id : q \in qs}, choices |-> {}]
    BY <1>4, <1>8 DEF ReadQuestions, Goto
  <2> HIDE DEF qs
  <2>2. Known(s)
    BY <1>4, <2>1 DEF Reads
  <2>3. ~Gone(s) => /\ \A q \in seen'[r].unread : q[1] = s
                    /\ seen'[r].questions = Asks(s).questions
                    /\ seen'[r].choices = {c \in Asks(s).choices : c.question \notin seen'[r].unread}
    <3> SUFFICES ASSUME ~Gone(s)
                 PROVE  /\ \A q \in qs : q.id[1] = s
                        /\ qs = Asks(s).questions
                        /\ {c \in Asks(s).choices : c.question \notin {q.id : q \in qs}} = {}
      BY <2>1
    <3>1. /\ qs = Asks(s).questions
          /\ \A c \in Asks(s).choices : \E q \in Asks(s).questions : q.id = c.question
          /\ \A q \in Asks(s).questions : q.id[1] = s
      BY <2>2, QuestionsFound DEF qs
    <3>2. QED
      BY <3>1
  <2>4. Loops(r)' /\ Replies(r)'
    BY <1>1, <1>4, <2>1 DEF Loops, Replies
  <2>5. Reads(r)'
    BY <1>1, <1>4, <1>5, <2>1, <2>3 DEF Reads
  <2>6. QED
    BY <1>2, <1>3, <2>4, <2>5 DEF Fine
<1>9. CASE ReadChoices(r)
  <2> DEFINE More(q) == {c \in Table("choices") : c.question = q}
  <2>1. PICK q \in seen[r].unread :
           seen' = [seen EXCEPT ![r].unread = @ \ {q}, ![r].choices = @ \cup More(q)]
    BY <1>9 DEF ReadChoices
  <2> HIDE DEF More
  <2>2. pc[r] = "choices" /\ pc'[r] = "choices"
    BY <1>9 DEF ReadChoices
  <2>3. seen'[r] = [[seen[r] EXCEPT !.unread = @ \ {q}] EXCEPT !.choices = @ \cup More(q)]
    BY <1>4, <2>1
  <2>4. /\ seen'[r].questions = seen[r].questions
        /\ seen'[r].unread = seen[r].unread \ {q}
        /\ seen'[r].choices = seen[r].choices \cup More(q)
    BY <1>4, <2>3
  <2>5. ~Gone(s) => /\ \A k \in seen'[r].unread : k[1] = s
                    /\ seen'[r].questions = Asks(s).questions
                    /\ seen'[r].choices = {c \in Asks(s).choices : c.question \notin seen'[r].unread}
    <3> SUFFICES ASSUME ~Gone(s)
                 PROVE  /\ \A k \in seen'[r].unread : k[1] = s
                        /\ seen'[r].questions = Asks(s).questions
                        /\ seen'[r].choices = {c \in Asks(s).choices : c.question \notin seen'[r].unread}
      OBVIOUS
    <3>1. /\ \A k \in seen[r].unread : k[1] = s
          /\ seen[r].questions = Asks(s).questions
          /\ seen[r].choices = {c \in Asks(s).choices : c.question \notin seen[r].unread}
          /\ Known(s)
      BY <1>4, <2>2 DEF Reads
    <3>2. More(q) = {c \in Asks(s).choices : c.question = q}
      BY <3>1, QuestionsFound DEF More
    <3>3. QED
      BY <2>4, <3>1, <3>2
  <2>6. Loops(r)' /\ Replies(r)'
    BY <1>1, <1>4, <2>2 DEF Loops, Replies
  <2>7. Reads(r)'
    BY <1>1, <1>4, <1>5, <2>2, <2>5 DEF Reads
  <2>8. QED
    BY <1>2, <1>3, <2>6, <2>7 DEF Fine
<1>10. CASE ValidateSubmission(r)
  <2>1. /\ pc[r] = "choices" /\ seen[r].unread = {} /\ req[r].op = "submit"
        /\ \/ pc'[r] = "insert" /\ ValidateSubmissionRequest(req[r].answers, seen[r])
           \/ pc'[r] = "done" /\ resp'[r] = 400 /\ ~ValidateSubmissionRequest(req[r].answers, seen[r])
    BY <1>4, <1>10 DEF ValidateSubmission, Goto, Answer
  <2>2. ~Gone(s) => seen[r].questions = Asks(s).questions /\ seen[r].choices = Asks(s).choices
    BY <1>4, <2>1, ZenonT(60) DEF Reads
  <2>3. ~Gone(s) => (Valid(r) <=> ValidateSubmissionRequest(req[r].answers, seen[r]))
    BY <2>2 DEF Valid, ValidateSubmissionRequest
  <2>4. Loops(r)'
    BY <1>1, <1>4, <2>1 DEF Loops
  <2>5. Reads(r)'
    BY <1>1, <1>4, <1>5, <1>6, <2>1, <2>3 DEF Reads
  <2>6. Replies(r)'
    BY <1>1, <1>4, <1>5, <1>6, <2>1, <2>3 DEF Replies
  <2>7. QED
    BY <1>2, <1>3, <2>4, <2>5, <2>6 DEF Fine
<1>11. CASE CheckOwnership(r)
  <2>1. SurveyRowOf(s) = {} => <<"surveys", s>> \notin Keys(db)
    BY DEF SurveyRowOf, Table, Key, Keys
  <2>2. pc[r] = "owner" /\ \/ pc'[r] = "delete"
                           \/ pc'[r] = "done" /\ resp'[r] = 403
                           \/ pc'[r] = "done" /\ resp'[r] = 404 /\ Gone(s)
    BY <1>4, <1>11, <2>1, AbsentIsGone DEF CheckOwnership, Goto, Answer, Reads
  <2>3. Loops(r)'
    BY <1>1, <1>4, <2>2 DEF Loops
  <2>4. Reads(r)'
    BY <1>1, <1>4, <1>5, <2>2 DEF Reads
  <2>5. Replies(r)'
    BY <1>1, <1>4, <1>5, <2>2 DEF Replies
  <2>6. QED
    BY <1>2, <1>3, <2>3, <2>4, <2>5 DEF Fine
<1>12. CASE Reply(r) \/ CommitReplyLost(r)
  <2>1. pc[r] = "committed" /\ pc'[r] = "done" /\ resp'[r] \in {200, 201, 500}
    BY <1>4, <1>12 DEF Reply, CommitReplyLost, Answer
  <2>2. Loops(r)'
    BY <1>1, <1>4, <2>1 DEF Loops
  <2>3. Reads(r)'
    BY <1>1, <1>4, <1>5, <1>6, <2>1 DEF Reads
  <2>4. Replies(r)'
    BY <1>1, <1>4, <2>1 DEF Replies
  <2>5. QED
    BY <1>2, <1>3, <2>2, <2>3, <2>4 DEF Fine
<1>13. QED
  BY <1>2, <1>3, <1>7, <1>8, <1>9, <1>10, <1>11, <1>12

\* A transaction that fails has inserted nothing, and what it answers says nothing
\* of its survey.
LEMMA WholeRollback ==
    ASSUME WholeInv, NEW r \in Requests, Rollback(r), UNCHANGED <<db, req, seen, at, committed>>,
           \/ pc'[r] = "done" /\ resp'[r] \in {403, 500} /\ pc[r] # "idle"
              /\ (resp'[r] = 403 => r \notin committed)
           \/ pc'[r] = "dead" /\ pc[r] = "dead",
           \A p \in Requests \ {r} : pc'[p] = pc[p] /\ resp'[p] = resp[p]
    PROVE  Exact' /\ \A p \in Requests : Fine(p)'
<1>1. /\ inserted'[r] = {}
      /\ \A p \in Requests \ {r} : inserted'[p] = inserted[p]
      /\ Loops(r) /\ Reads(r)
  BY DEF Rollback, WholeInv, Fine, LocksInv, DeletionInv, TypeInv, TypeOK
<1>2. Exact'
  BY ExactStays DEF WholeInv
<1>3. \A p \in Requests \ {r} : Fine(p)'
  BY <1>1, OthersStay
<1>4. \A t : (Known(t)' <=> Known(t)) /\ Asks(t)' = Asks(t)
  BY RowsStay DEF Known
<1>5. Valid(r)' <=> Valid(r)
  BY <1>4 DEF Valid, ValidateSubmissionRequest, AnsweredBefore
<1>6. Loops(r)' /\ Replies(r)'
  BY <1>1 DEF Loops, Replies
<1>7. Reads(r)'
  BY <1>1, <1>4, <1>5 DEF Reads
<1>8. QED
  BY <1>2, <1>3, <1>6, <1>7 DEF Fine

\* A statement that fails, and a connection that is closed, are rolled back.
LEMMA WholeFailure ==
    ASSUME WholeInv, NEW r \in Requests, StatementFails(r) \/ Reap(r)
    PROVE  Exact' /\ \A p \in Requests : Fine(p)'
<1>1. /\ DOMAIN pc = Requests /\ DOMAIN resp = Requests
      /\ pc[r] = "owner" => r \notin committed
  BY DEF WholeInv, LocksInv, DeletionInv, TypeInv, TypeOK, Kinds
<1>2. Rollback(r) /\ UNCHANGED <<db, req, seen, at, committed>>
  BY DEF StatementFails, Reap
<1>3. \/ /\ pc'[r] = "done" /\ resp'[r] \in {403, 500} /\ pc[r] # "idle"
         /\ resp'[r] = 403 => r \notin committed
      \/ pc'[r] = "dead" /\ pc[r] = "dead"
  BY <1>1 DEF StatementFails, Reap, Answer, FailureStatus
<1>4. \A p \in Requests \ {r} : pc'[p] = pc[p] /\ resp'[p] = resp[p]
  BY <1>1 DEF StatementFails, Reap, Answer
<1>5. QED
  BY <1>2, <1>3, <1>4, WholeRollback

\* An INSERT adds the next row of the request; after the last one the COMMIT comes.
LEMMA WholeInsert ==
    ASSUME WholeInv, NEW r \in Requests, Insert(r)
    PROVE  Exact' /\ \A p \in Requests : Fine(p)'
<1> DEFINE x == RowAt(r)
           n == NextAt(r)
<1>1. /\ DOMAIN pc = Requests /\ DOMAIN resp = Requests /\ DOMAIN inserted = Requests /\ DOMAIN at = Requests
      /\ pc[r] = "insert" /\ TypeInv /\ Loops(r) /\ Reads(r)
      /\ req[r] \in CreateInputs \cup SubmitInputs
      /\ r \notin committed
      /\ UNCHANGED <<db, req, seen, committed>>
  BY DEF Insert, WholeInv, Fine, LocksInv, DeletionInv, TypeInv, TypeOK, Stages, Kinds
<1>2. CASE References(x) \subseteq Keys(db \cup inserted[r])
  <2>1. /\ inserted'[r] = inserted[r] \cup {x}
        /\ at'[r] = n
        /\ pc'[r] = IF n[1] > Length(req[r]) THEN "commit" ELSE "insert"
        /\ \A p \in Requests \ {r} : pc'[p] = pc[p] /\ at'[p] = at[p] /\ inserted'[p] = inserted[p]
        /\ resp' = resp
    BY <1>1, <1>2 DEF Insert, Goto
  <2>2. x \in AllRows(r)
    BY <1>1, RowAtIsOwn
  <2>3. \A y \in AllRows(r) : Precedes(Place(y), n) => y \in inserted[r] \cup {x}
    <3>1. \A y \in AllRows(r) : at[r] = <<0, 0>> => ~Precedes(Place(y), at[r])
      BY <1>1, PlacesInLoops DEF Precedes
    <3>2. QED
      BY <1>1, <3>1, NextIsNext DEF Loops
  <2>4. n[1] > Length(req[r]) => \A y \in AllRows(r) : Precedes(Place(y), n)
    <3> SUFFICES ASSUME n[1] > Length(req[r]), NEW y \in AllRows(r) PROVE Place(y)[1] < n[1]
      BY DEF Precedes
    <3>1. /\ Place(y)[1] \in Nat /\ Place(y)[1] <= Length(req[r])
          /\ Length(req[r]) \in Nat /\ n[1] \in Nat
      BY <1>1, PlacesInLoops, LengthType, RowAtType
    <3> HIDE DEF n
    <3>2. QED
      BY <3>1
  <2>5. n[1] <= Length(req[r]) /\ req[r].op = "create" /\ n[1] # 0 =>
           n[2] <= req[r].form.questions[n[1]].choices
    <3> SUFFICES ASSUME n[1] <= Length(req[r]), req[r].op = "create"
                 PROVE  n[2] <= req[r].form.questions[n[1]].choices
      OBVIOUS
    <3> DEFINE i == at[r][1]
               j == at[r][2]
    <3>1. i \in Nat /\ j \in Nat
      BY <1>1 DEF TypeInv, TypeOK
    <3>2. req[r] \in CreateInputs
      BY <1>1 DEF SubmitInputs
    <3>3. /\ Length(req[r]) \in Nat
          /\ \A k \in 1..Length(req[r]) : req[r].form.questions[k].choices \in Nat
      BY <3>2, LoopsOfSurvey
    <3>4. CASE i > 0 /\ j < req[r].form.questions[i].choices
      <4>1. n = <<i, j + 1>>
        BY <3>4 DEF NextAt
      <4>2. req[r].form.questions[i].choices \in Nat
        BY <3>1, <3>3, <3>4, <4>1
      <4>3. QED
        BY <3>1, <3>4, <4>1, <4>2
    <3>5. CASE ~(i > 0 /\ j < req[r].form.questions[i].choices)
      <4>1. n = <<i + 1, 0>>
        BY <3>5 DEF NextAt
      <4>2. i + 1 \in 1..Length(req[r])
        BY <3>1, <3>3, <4>1
      <4>3. QED
        BY <3>3, <4>1, <4>2
    <3>6. QED
      BY <3>4, <3>5
  <2> HIDE DEF x, n
  <2>6. n[1] \in Nat /\ Length(req[r]) \in Nat
    BY <1>1, RowAtType, LengthType DEF n
  <2>7. /\ AllRows(r)' = AllRows(r)
        /\ \A t : (Known(t)' <=> Known(t)) /\ (Gone(t)' <=> Gone(t)) /\ Asks(t)' = Asks(t)
    BY <1>1, RowsStay, RetractionsStay DEF Known
  <2>8. Valid(r)' <=> Valid(r)
    BY <1>1, <2>7 DEF Valid, ValidateSubmissionRequest, AnsweredBefore
  <2>9. Loops(r)'
    BY <1>1, <2>1, <2>2, <2>3, <2>4, <2>5, <2>6, <2>7 DEF Loops
  <2>10. Reads(r)'
    BY <1>1, <2>1, <2>7, <2>8 DEF Reads
  <2>11. Replies(r)'
    BY <2>1 DEF Replies
  <2>12. Exact'
    BY <1>1, ExactStays DEF WholeInv
  <2>13. \A p \in Requests \ {r} : Fine(p)'
    BY <1>1, <2>1, OthersStay
  <2>14. QED
    BY <2>9, <2>10, <2>11, <2>12, <2>13 DEF Fine
<1>3. CASE ~(References(x) \subseteq Keys(db \cup inserted[r]))
  <2>1. Rollback(r) /\ UNCHANGED at /\ pc'[r] = "done" /\ resp'[r] = 500
        /\ \A p \in Requests \ {r} : pc'[p] = pc[p] /\ resp'[p] = resp[p]
    BY <1>1, <1>3 DEF Insert, Answer
  <2>2. QED
    BY <1>1, <2>1, WholeRollback
<1>4. QED
  BY <1>2, <1>3

\* A DELETE that has not committed has changed nothing; one that finds no survey
\* answers 404.
LEMMA WholeDelete ==
    ASSUME WholeInv, NEW r \in Requests, DeleteRow(r) \/ Cascade(r)
    PROVE  Exact' /\ \A p \in Requests : Fine(p)'
<1> DEFINE s == req[r].survey
<1>1. /\ DOMAIN pc = Requests /\ DOMAIN resp = Requests
      /\ Loops(r) /\ Reads(r)
      /\ UNCHANGED <<db, req, seen, at, inserted, committed>>
  BY DEF DeleteRow, Cascade, WholeInv, Fine, LocksInv, DeletionInv, TypeInv, TypeOK
<1>2. \A p \in Requests \ {r} : pc'[p] = pc[p] /\ resp'[p] = resp[p]
  BY <1>1 DEF DeleteRow, Cascade, Goto, Answer
<1>3. pc[r] \in {"delete", "cascade"}
  BY DEF DeleteRow, Cascade
<1>4. /\ req[r].op = "delete" /\ inserted[r] = {} /\ r \notin committed
  BY <1>3 DEF WholeInv, LocksInv, DeletionInv, Kinds
<1>5. SurveyRowOf(s) = {} => <<"surveys", s>> \notin Keys(db)
  BY DEF SurveyRowOf, Table, Key, Keys
<1>6. \/ pc'[r] \in {"cascade", "commit"}
      \/ pc'[r] = "done" /\ resp'[r] = 404 /\ Gone(s)
  BY <1>1, <1>3, <1>4, <1>5, AbsentIsGone DEF DeleteRow, Cascade, FirstRowsOf, Affected, Goto, Answer, Reads
<1>7. Exact'
  BY <1>1, ExactStays DEF WholeInv
<1>8. \A p \in Requests \ {r} : Fine(p)'
  BY <1>1, <1>2, OthersStay
<1>9. \A t : (Known(t)' <=> Known(t)) /\ (Gone(t)' <=> Gone(t))
  BY <1>1, RetractionsStay DEF Known
<1>10. Loops(r)'
  BY <1>1, <1>4, <1>6 DEF Loops
<1>11. Reads(r)'
  BY <1>1, <1>3, <1>4, <1>6, <1>9 DEF Reads
<1>12. Replies(r)'
  BY <1>1, <1>4, <1>6, <1>9 DEF Replies
<1>13. QED
  BY <1>7, <1>8, <1>10, <1>11, <1>12 DEF Fine

\* The COMMIT of a survey or a submission adds all its rows, below a survey that stands.
LEMMA WholeCommitOfRows ==
    ASSUME WholeInv, NEW r \in Requests, Commit(r), req[r].op # "delete"
    PROVE  /\ Exact' /\ Standing' = Standing \cup {r}
           /\ req[r].op = "submit" => req[r].survey \in committed /\ ~Gone(req[r].survey)
<1>1. /\ pc[r] = "commit" /\ committed' = committed \cup {r} /\ req' = req
      /\ db' = Without(db, deleted[r]) \cup inserted[r]
      /\ deleted[r] = {} /\ r \notin committed /\ committed \subseteq Requests
      /\ Loops(r) /\ Reads(r) /\ Retracted /\ SurveyRows
  BY DEF Commit, WholeInv, Fine, LocksInv, DeletionInv, TypeInv, TypeOK, Kinds
<1>2. Without(db, {}) = db
  BY DEF Without, Keys
<1>3. inserted[r] = AllRows(r)
  BY <1>1 DEF Loops
<1>4. db' = db \cup AllRows(r)
  BY <1>1, <1>2, <1>3
<1>5. req[r].op = "submit" => req[r].survey \in committed /\ Retractions(req[r].survey) = {}
  <2> SUFFICES ASSUME req[r].op = "submit"
               PROVE  req[r].survey \in committed /\ Retractions(req[r].survey) = {}
    OBVIOUS
  <2> DEFINE s == req[r].survey
  <2>1. SubmissionRow(r) \in inserted[r]
    BY <1>3, RowsOfRequest DEF OfSubmission
  <2>2. <<"surveys", s>> \in References(SubmissionRow(r))
    BY DEF SubmissionRow, References, Owners
  <2>3. <<"surveys", s>> \in Keys(db \cup inserted[r])
    BY <2>1, <2>2 DEF WholeInv, LocksInv, LockInv, LockSafety
  <2>4. \A y \in inserted[r] : y.table # "surveys"
    BY <1>1 DEF SurveyRows
  <2>5. PICK y \in db : y.table = "surveys" /\ y.id = s
    BY <2>3, <2>4 DEF Keys, Key
  <2>6. s \in committed
    BY <1>1, <2>5 DEF SurveyRows
  <2>7. Retractions(s) = {}
    BY <1>1, <2>5 DEF Retracted, Retractions
  <2>8. QED
    BY <2>6, <2>7
<1>6. Retractions(Target(r)) = {}
  <2>1. CASE req[r].op = "create"
    <3>1. Target(r) = r
      BY <2>1 DEF Target
    <3>2. QED
      BY <1>1, <3>1 DEF Retracted, Retractions
  <2>2. CASE req[r].op = "submit"
    BY <1>5, <2>2 DEF Target
  <2>3. CASE req[r].op \notin {"create", "submit"}
    <3>1. req[r].op \in {"create", "submit", "delete"}
      BY <1>1 DEF Reads, CreateInputs, SubmitInputs, DeleteInputs
    <3>2. QED
      BY <2>3, <3>1
  <2>4. QED
    BY <2>1, <2>2, <2>3
<1>7. \A p : /\ AllRows(p)' = AllRows(p) /\ Target(p)' = Target(p)
             /\ Retractions(p)' = Retractions(p)
  BY <1>1, RowsStay, RetractionsStay
<1>8. Standing' = Standing \cup {r}
  <2>1. Standing' = {p \in committed \cup {r} : Retractions(Target(p)) = {}}
    BY <1>1, <1>7 DEF Standing, Retractions
  <2>2. QED
    BY <1>6, <2>1 DEF Standing
<1>9. Exact'
  BY <1>4, <1>7, <1>8 DEF WholeInv, Exact
<1>10. req[r].op = "submit" => ~Gone(req[r].survey)
  BY <1>1, <1>5, IdsAssumption DEF Gone
<1>11. QED
  BY <1>5, <1>8, <1>9, <1>10

\* Before the COMMIT of a deletion every row at home in the survey is caught.
LEMMA AllCaught ==
    ASSUME WholeInv, NEW r \in Requests, pc[r] = "commit", req[r].op = "delete",
           NEW x \in db, Home(Key(x)) = req[r].survey
    PROVE  Key(x) \in Exclusive(r)
<1> DEFINE s == req[r].survey
<1>1. \A y \in db : Owners(y) \cap Exclusive(r) # {} => Key(y) \in Exclusive(r)
  BY DEF WholeInv, LocksInv, LockInv, LockSafety
<1>2. <<"surveys", s>> \in Exclusive(r)
  BY DEF WholeInv, LocksInv, DeletionInv, Deleting, Exclusive, Keys, Key
<1>3. \A y \in db : Home(Key(y)) = s /\ y.table \in {"surveys", "questions", "submissions"} =>
         Key(y) \in Exclusive(r)
  <2> SUFFICES ASSUME NEW y \in db, Home(Key(y)) = s, y.table \in {"surveys", "questions", "submissions"}
               PROVE  Key(y) \in Exclusive(r)
    OBVIOUS
  <2>1. PICK p \in Standing : y \in AllRows(p)
    BY DEF WholeInv, Exact
  <2>2. /\ Target(p) = s
        /\ \/ req[p].op = "create" /\ y.table \in {"surveys", "questions", "choices"}
           \/ req[p].op = "submit" /\ y.table \in {"submissions", "answers"}
        /\ y.table = "surveys" => y.id = p
        /\ y.table = "questions" => y.survey = p
        /\ y.table = "submissions" => y = SubmissionRow(p)
    BY <2>1, RowsNameTheirRequest
  <2>3. CASE y.table = "surveys"
    BY <1>2, <2>2, <2>3 DEF Target, Key
  <2>4. CASE y.table = "questions"
    <3>1. <<"surveys", s>> \in Owners(y)
      BY <2>2, <2>4 DEF Target, Owners
    <3>2. QED
      BY <1>1, <1>2, <3>1
  <2>5. CASE y.table = "submissions"
    <3>1. <<"surveys", s>> \in Owners(y)
      BY <2>2, <2>5 DEF Target, Owners, SubmissionRow
    <3>2. QED
      BY <1>1, <1>2, <3>1
  <2>6. QED
    BY <2>3, <2>4, <2>5
<1>4. ASSUME NEW k \in Owners(x), k[1] \in {"questions", "submissions"} PROVE Key(x) \in Exclusive(r)
  <2>1. k \in References(x)
    BY <1>4 DEF References
  <2>2. k \in Keys(db)
    BY <2>1 DEF WholeInv, LocksInv, LockInv, ReferentialIntegrity
  <2>3. PICK y \in db : Key(y) = k
    BY <2>2 DEF Keys
  <2>4. Home(Key(y)) = s
    BY <2>1, <2>3 DEF WholeInv, LocksInv, HomeInv, Homes, AtHome
  <2>5. y.table \in {"questions", "submissions"}
    BY <1>4, <2>3 DEF Key
  <2>6. k \in Exclusive(r)
    BY <1>3, <2>3, <2>4, <2>5
  <2>7. QED
    BY <1>1, <1>4, <2>6
<1>5. x.table \in {"surveys", "questions", "choices", "submissions", "answers"}
  BY DEF WholeInv, LocksInv, DeletionInv, TypeInv, TypeOK, RowType
<1>6. CASE x.table = "choices"
  <2>1. <<"questions", x.question>> \in Owners(x)
    BY <1>6 DEF Owners
  <2>2. QED
    BY <1>4, <2>1
<1>7. CASE x.table = "answers"
  <2>1. <<"questions", x.question>> \in Owners(x)
    BY <1>7 DEF Owners
  <2>2. QED
    BY <1>4, <2>1
<1>8. QED
  BY <1>3, <1>5, <1>6, <1>7

\* The COMMIT of a deletion takes the rows of its survey, and touches no other.
LEMMA WholeCommitOfDeletion ==
    ASSUME WholeInv, NEW r \in Requests, Commit(r), req[r].op = "delete"
    PROVE  Exact' /\ Standing' = {p \in Standing : Target(p) # req[r].survey}
<1> DEFINE s == req[r].survey
<1>1. /\ pc[r] = "commit" /\ committed' = committed \cup {r} /\ req' = req
      /\ db' = Without(db, deleted[r]) \cup inserted[r]
      /\ inserted[r] = {} /\ r \notin committed
  BY DEF Commit, WholeInv, LocksInv, DeletionInv, Kinds
<1>2. \A x \in db : Key(x) \in Keys(deleted[r]) <=> Home(Key(x)) = s
  <2>1. \A x \in db : Home(Key(x)) = s => Key(x) \in Keys(deleted[r])
    BY <1>1, AllCaught DEF Exclusive
  <2>2. \A x \in db : Key(x) \in Keys(deleted[r]) => Home(Key(x)) = s
    BY DEF WholeInv, LocksInv, HomeInv, Homes, Keys
  <2>3. QED
    BY <2>1, <2>2
<1>3. \A x \in db : Key(x) \notin Keys(deleted[r]) => Picks(x) \cap Keys(deleted[r]) = {}
  <2> SUFFICES ASSUME NEW x \in db, NEW k \in Picks(x), k \in Keys(deleted[r])
               PROVE  Key(x) \in Keys(deleted[r])
    OBVIOUS
  <2>1. Home(k) = s
    BY DEF WholeInv, LocksInv, HomeInv, Homes, Keys
  <2>2. Home(Key(x)) = s
    BY <2>1 DEF WholeInv, LocksInv, HomeInv, Homes, AtHome, References
  <2>3. QED
    BY <1>2, <2>2
<1>4. db' = {x \in db : Home(Key(x)) # s}
  <2>1. Without(db, deleted[r]) = {x \in db : Key(x) \notin Keys(deleted[r])}
    BY <1>3 DEF Without
  <2>2. QED
    BY <1>1, <1>2, <2>1
<1>5. \A p : AllRows(p)' = AllRows(p) /\ Target(p)' = Target(p)
  BY <1>1, RowsStay
<1>6. Target(r) = s /\ \A p : \A x \in AllRows(p) : Home(Key(x)) = Target(p)
  BY RowsNameTheirRequest DEF Target
<1>7. Standing' = {p \in Standing : Target(p) # s}
  <2> DEFINE Undeleted(t) == {d \in committed \cup {r} : req[d].op = "delete" /\ req[d].survey = t} = {}
  <2>1. \A p : p \in Standing' <=> p \in committed \cup {r} /\ Undeleted(Target(p))
    BY <1>1, <1>5 DEF Standing, Retractions
  <2>2. \A p : p \in Standing <=> p \in committed /\ Retractions(Target(p)) = {}
    BY DEF Standing
  <2>3. \A p : Target(p) # s => (p \in Standing' <=> p \in Standing)
    BY <1>6, <2>1, <2>2 DEF Retractions
  <2>4. ~Undeleted(s)
    OBVIOUS
  <2> HIDE DEF Undeleted
  <2>5. \A p : Target(p) = s => p \notin Standing'
    BY <2>1, <2>4
  <2>6. QED
    BY <2>3, <2>5
<1>8. \A x \in db' : \E p \in Standing' : x \in AllRows(p)
  BY <1>4, <1>6, <1>7 DEF WholeInv, Exact
<1>9. \A p \in Standing' : AllRows(p) \subseteq db'
  BY <1>4, <1>6, <1>7 DEF WholeInv, Exact
<1>10. QED
  BY <1>5, <1>7, <1>8, <1>9 DEF Exact

\* Nobody else notices more of a COMMIT than that a survey is gone.
LEMMA WholeCommit ==
    ASSUME WholeInv, NEW r \in Requests, Commit(r)
    PROVE  Exact' /\ \A p \in Requests : Fine(p)'
<1>1. /\ pc[r] = "commit" /\ pc'[r] = "committed" /\ committed' = committed \cup {r}
      /\ UNCHANGED <<req, seen, at, resp>>
      /\ inserted'[r] = {} /\ Reads(r)
      /\ \A p \in Requests \ {r} : pc'[p] = pc[p] /\ inserted'[p] = inserted[p]
  BY DEF Commit, Rollback, Goto, WholeInv, Fine, LocksInv, DeletionInv, TypeInv, TypeOK
<1>2. Exact' /\ (req[r].op = "submit" => req[r].survey \in committed /\ ~Gone(req[r].survey))
  BY WholeCommitOfRows, WholeCommitOfDeletion
<1>3. \A p \in Requests \ {r} : Fine(p)'
  BY <1>1, OthersStay
<1>4. \A t : (Known(t) => Known(t)') /\ Asks(t)' = Asks(t)
  BY <1>1, RowsStay DEF Known
<1>5. Valid(r)' <=> Valid(r)
  BY <1>1, <1>4 DEF Valid, ValidateSubmissionRequest, AnsweredBefore
<1>6. Loops(r)' /\ Replies(r)'
  BY <1>1 DEF Loops, Replies
<1>7. Reads(r)'
  BY <1>1, <1>2, <1>4, <1>5 DEF Reads
<1>8. QED
  BY <1>2, <1>3, <1>6, <1>7 DEF Fine

\* Every step keeps the invariant.
LEMMA WholeNext == WholeInv /\ [Next]_vars => WholeInv'
<1> SUFFICES ASSUME WholeInv, [Next]_vars PROVE WholeInv'
  OBVIOUS
<1>1. LocksInv'
  BY LocksNext DEF WholeInv
<1>2. Exact' /\ \A p \in Requests : Fine(p)'
  <2>1. CASE Crash \/ UNCHANGED vars
    <3>1. /\ UNCHANGED <<db, req, seen, at, inserted, committed, resp>>
          /\ \A p \in Requests : pc'[p] = pc[p] \/ (pc'[p] = "dead" /\ pc[p] # "idle")
      BY <2>1 DEF Crash, Working, tables, vars
    <3>2. QED
      BY <3>1, ExactStays, OthersStay DEF WholeInv
  <2>2. QED
    BY <2>1, WholeReceive, WholeRead, WholeInsert, WholeDelete, WholeCommit, WholeFailure
       DEF Next, Step, Quiet
<1>3. QED
  BY <1>1, <1>2 DEF WholeInv

\* The invariant holds of every behaviour.
THEOREM WholeInvariance == Spec => []WholeInv
BY WholeInit, WholeNext, PTL DEF Spec

--------------------------------------------------------------------------------

\* A request leaves all its rows or none, whatever fails and whoever else writes
\* (db.go:128-181, db.go:456-499, db.go:226-250).
THEOREM AllOrNothingHolds == Spec => []AllOrNothing
<1>1. WholeInv => AllOrNothing
  <2> SUFFICES ASSUME WholeInv, NEW r \in Requests
               PROVE  LET mine == IF pc[r] = "idle" THEN {} ELSE AllRows(r)
                      IN  mine \cap db = IF r \in committed /\ Retractions(Target(r)) = {} THEN mine ELSE {}
    BY DEF AllOrNothing
  <2>1. r \in committed => pc[r] # "idle"
    BY DEF WholeInv, LocksInv, DeletionInv, Kinds
  <2>2. CASE r \in Standing
    <3>1. AllRows(r) \subseteq db /\ r \in committed /\ Retractions(Target(r)) = {}
      BY <2>2 DEF WholeInv, Exact, Standing
    <3>2. QED
      BY <2>1, <3>1
  <2>3. CASE r \notin Standing
    <3>1. ~(r \in committed /\ Retractions(Target(r)) = {})
      BY <2>3 DEF Standing
    <3>2. ASSUME NEW x \in AllRows(r), x \in db PROVE FALSE
      <4>1. PICK p \in Standing : x \in AllRows(p)
        BY <3>2 DEF WholeInv, Exact
      <4>2. Writer(Key(x)) = r /\ Writer(Key(x)) = p
        BY <4>1, RowsNameTheirRequest
      <4>3. QED
        BY <2>3, <4>1, <4>2
    <3>3. QED
      BY <3>1, <3>2
  <2>4. QED
    BY <2>2, <2>3
<1>2. QED
  BY <1>1, WholeInvariance, PTL

\* The status tells the client the truth: a 404 for a survey that was read as absent, a
\* 400 for answers that were checked against a survey read in pieces, a success for what
\* was committed (handlers.go:89-124, handlers.go:176-262).
THEOREM RepliesTruthfulHolds == Spec => []RepliesTruthful
<1>1. WholeInv => RepliesTruthful
  BY DEF WholeInv, Fine, Replies, RepliesTruthful, Valid, Asks
<1>2. QED
  BY <1>1, WholeInvariance, PTL

\* A sequence that is not empty has a first element.
LEMMA FirstElement ==
    ASSUME NEW S, NEW seq \in Seq(S), seq # << >>
    PROVE  1 \in DOMAIN seq
OBVIOUS

\* A committed submission answers the survey it stands beside: what it was checked
\* against, read outside of any transaction, is what is there (handlers.go:210-255).
THEOREM SubmissionsAnswerHolds == Spec => []SubmissionsAnswerTheirSurvey
<1> DEFINE AnswersOfRow(x)  == {a \in Table("answers") : a.submission = x.id}
           AskedOf(x) == {q \in Table("questions") : q.survey = x.survey}
           Picked(a, q) == \E c \in Table("choices") : c.id = a.choice /\ c.question = q.id
           Answering(x) ==
              /\ AnswersOfRow(x) # {}
              /\ \A a \in AnswersOfRow(x) : \E q \in AskedOf(x) :
                    /\ a.question = q.id
                    /\ \/ q.type = "multiple" /\ Picked(a, q)
                       \/ q.type = "text" /\ a.choice = NoChoice /\ a.text
              /\ \A a, b \in AnswersOfRow(x) : a.question = b.question => a = b
              /\ \A q \in AskedOf(x) : q.mandatory => \E a \in AnswersOfRow(x) : a.question = q.id
<1>1. ASSUME WholeInv, NEW x \in Table("submissions") PROVE Answering(x)
  <2>1. PICK r \in Standing : x \in AllRows(r)
    BY <1>1 DEF WholeInv, Exact, Table
  <2>2. req[r].op = "submit" /\ x = SubmissionRow(r)
    BY <1>1, <2>1, RowsNameTheirRequest DEF Table
  <2> DEFINE s  == req[r].survey
             as == req[r].answers
  <2>3. /\ r \in committed /\ r \in Requests /\ pc[r] # "idle" /\ Reads(r)
        /\ Retractions(s) = {} /\ AllRows(r) \subseteq db
    BY <1>1, <2>1, <2>2 DEF Standing, Target, WholeInv, Exact, Fine, LocksInv, DeletionInv, Kinds, TypeInv, TypeOK
  <2>4. /\ s \in committed /\ Valid(r) /\ Known(s) /\ ~Gone(s)
        /\ req[r] \in SubmitInputs
    BY <1>1, <2>2, <2>3, IdsAssumption
       DEF Reads, Gone, CreateInputs, DeleteInputs, WholeInv, LocksInv, DeletionInv, TypeInv, TypeOK
  <2>5. /\ DOMAIN as = 1..Length(req[r]) /\ Length(req[r]) \in Nat
        /\ as # << >> => DOMAIN as # {}
    <3>1. as \in Bodies
      BY <2>4 DEF SubmitInputs
    <3>2. QED
      BY <2>4, <3>1, LoopsOfSubmission, FirstElement DEF Bodies
  <2>6. AskedOf(x) = Asks(s).questions
    BY <1>1, <2>2, <2>4, QuestionsFound DEF SurveyQuestions, SubmissionRow
  <2>7. Asks(s).choices \subseteq Table("choices")
    BY <1>1, <2>4, StandsUntilGone DEF Asks, Table
  <2>8. AnswersOfRow(x) = {AnswerRow(r, k) : k \in DOMAIN as}
    BY <1>1, <2>1, <2>2, AnswersFound DEF SubmissionRow
  <2>9. \A k \in DOMAIN as : /\ AnswerRow(r, k).question = as[k].question
                             /\ AnswerRow(r, k).choice = as[k].choice
                             /\ AnswerRow(r, k).text = as[k].text
    BY DEF AnswerRow
  <2>10. ValidateSubmissionRequest(as, Asks(s))
    BY <2>4 DEF Valid
  <2> HIDE DEF s, as, AnswersOfRow, AskedOf
  <2>11. AnswersOfRow(x) # {}
    BY <2>5, <2>8, <2>10 DEF ValidateSubmissionRequest
  <2>12. \A a \in AnswersOfRow(x) : \E q \in AskedOf(x) :
            /\ a.question = q.id
            /\ \/ q.type = "multiple" /\ Picked(a, q)
               \/ q.type = "text" /\ a.choice = NoChoice /\ a.text
    <3> SUFFICES ASSUME NEW k \in DOMAIN as
                 PROVE  \E q \in AskedOf(x) :
                           /\ AnswerRow(r, k).question = q.id
                           /\ \/ q.type = "multiple" /\ Picked(AnswerRow(r, k), q)
                              \/ q.type = "text" /\ AnswerRow(r, k).choice = NoChoice /\ AnswerRow(r, k).text
      BY <2>8, Zenon
    <3>1. PICK q \in Asks(s).questions :
             /\ q.id = as[k].question
             /\ \/ /\ q.type = "multiple"
                   /\ \E c \in Asks(s).choices : c.id = as[k].choice /\ c.question = q.id
                   /\ ~as[k].text
                \/ q.type = "text" /\ as[k].choice = NoChoice /\ as[k].text
      BY <2>10, Zenon DEF ValidateSubmissionRequest
    <3>2. (\E c \in Asks(s).choices : c.id = as[k].choice /\ c.question = q.id) => Picked(AnswerRow(r, k), q)
      BY <2>7, <2>9
    <3>3. QED
      BY <2>6, <2>9, <3>1, <3>2, Zenon
  <2>13. \A a, b \in AnswersOfRow(x) : a.question = b.question => a = b
    <3>1. ASSUME NEW k \in DOMAIN as, NEW l \in DOMAIN as, as[k].question = as[l].question
          PROVE  k = l
      <4>1. ~AnsweredBefore(as, k) /\ ~AnsweredBefore(as, l)
        BY <2>10 DEF ValidateSubmissionRequest
      <4>2. k \in Nat /\ l \in Nat /\ k > 0 /\ l > 0
        BY <2>5
      <4>3. k \notin 1..(l - 1) /\ l \notin 1..(k - 1)
        BY <3>1, <4>1 DEF AnsweredBefore
      <4>4. QED
        BY <4>2, <4>3
    <3>2. ASSUME NEW a \in AnswersOfRow(x), NEW b \in AnswersOfRow(x), a.question = b.question
          PROVE  a = b
      <4>1. PICK k \in DOMAIN as : a = AnswerRow(r, k)
        BY <2>8
      <4>2. PICK l \in DOMAIN as : b = AnswerRow(r, l)
        BY <2>8
      <4>3. as[k].question = as[l].question
        BY <2>9, <3>2, <4>1, <4>2
      <4>4. k = l
        BY <3>1, <4>3
      <4>5. QED
        BY <4>1, <4>2, <4>4
    <3>3. QED
      BY <3>2
  <2>14. \A q \in AskedOf(x) : q.mandatory => \E a \in AnswersOfRow(x) : a.question = q.id
    <3>1. \A q \in Asks(s).questions : q.mandatory => \E k \in DOMAIN as : as[k].question = q.id
      BY <2>10, Zenon DEF ValidateSubmissionRequest
    <3>2. \A k \in DOMAIN as : \E a \in AnswersOfRow(x) : a.question = as[k].question
      BY <2>8, <2>9
    <3>3. QED
      BY <2>6, <3>1, <3>2, Zenon
  <2>15. QED
    BY <2>11, <2>12, <2>13, <2>14
<1>2. WholeInv => SubmissionsAnswerTheirSurvey
  BY <1>1 DEF SubmissionsAnswerTheirSurvey
<1>3. QED
  BY <1>2, WholeInvariance, PTL
================================================================================
