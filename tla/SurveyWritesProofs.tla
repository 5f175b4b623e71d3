-------------------------- MODULE SurveyWritesProofs ---------------------------
(***************************************************************************)
(* Proofs about SurveyWrites, for any number of requests, users and forms: *)
(* the type invariant, the row-lock discipline, and from it referential    *)
(* integrity under every interleaving, failed statement and crash.         *)
(***************************************************************************)
EXTENDS SurveyWrites, TLAPS

--------------------------------------------------------------------------------
\* Rows and the cascade.

\* Setting choice_id to NULL keeps a row's key, its owners and its type.
LEMMA NulledRow ==
    ASSUME NEW x \in RowType, Picks(x) # {}
    PROVE  LET y == [x EXCEPT !.choice = NoChoice]
           IN  /\ y \in RowType
               /\ Key(y) = Key(x)
               /\ Owners(y) = Owners(x)
               /\ Picks(y) = {}
<1>1. x.table = "answers"
  BY DEF Picks
<1>2. x \in [table : {"answers"}, id : Requests \X Nat, submission : Requests,
             question : QuestionIds, choice : ChoiceIds \cup {NoChoice}, text : BOOLEAN]
  BY <1>1 DEF RowType
<1>3. [x EXCEPT !.choice = NoChoice] \in
            [table : {"answers"}, id : Requests \X Nat, submission : Requests,
             question : QuestionIds, choice : ChoiceIds \cup {NoChoice}, text : BOOLEAN]
  BY <1>2
<1> QED
  BY <1>1, <1>2, <1>3 DEF RowType, Key, Owners, Picks

\* Deleting rows deletes their keys and no other, and a survivor refers to what
\* it referred to, less what is gone.
LEMMA WithoutRows ==
    ASSUME NEW rows \in SUBSET RowType, NEW gone \in SUBSET RowType
    PROVE  /\ Without(rows, gone) \subseteq RowType
           /\ Keys(Without(rows, gone)) = Keys(rows) \ Keys(gone)
           /\ \A y \in Without(rows, gone) :
                 \E x \in rows : /\ Key(x) = Key(y)
                                 /\ Key(x) \notin Keys(gone)
                                 /\ Owners(y) = Owners(x)
                                 /\ Picks(y) \subseteq Picks(x) \ Keys(gone)
<1> DEFINE kept == {x \in rows : Key(x) \notin Keys(gone)}
           After(x) == IF Picks(x) \cap Keys(gone) # {}
                       THEN [x EXCEPT !.choice = NoChoice] ELSE x
<1>1. Without(rows, gone) = {After(x) : x \in kept}
  BY DEF Without
<1>2. ASSUME NEW x \in kept
      PROVE  /\ After(x) \in RowType
             /\ Key(After(x)) = Key(x)
             /\ Owners(After(x)) = Owners(x)
             /\ Picks(After(x)) \subseteq Picks(x) \ Keys(gone)
  <2>1. CASE Picks(x) \cap Keys(gone) # {}
    <3>1. x \in RowType /\ Picks(x) # {} /\ After(x) = [x EXCEPT !.choice = NoChoice]
      BY <2>1
    <3> QED
      BY <3>1, NulledRow
  <2>2. CASE Picks(x) \cap Keys(gone) = {}
    BY <2>2
  <2> QED
    BY <2>1, <2>2
<1> HIDE DEF After
<1>3. Without(rows, gone) \subseteq RowType
  BY <1>1, <1>2
<1>4. Keys(Without(rows, gone)) = Keys(rows) \ Keys(gone)
  BY <1>1, <1>2 DEF Keys
<1>5. \A y \in Without(rows, gone) :
          \E x \in rows : /\ Key(x) = Key(y)
                          /\ Key(x) \notin Keys(gone)
                          /\ Owners(y) = Owners(x)
                          /\ Picks(y) \subseteq Picks(x) \ Keys(gone)
  <2> SUFFICES ASSUME NEW x \in kept
               PROVE  /\ Key(x) = Key(After(x))
                      /\ Key(x) \notin Keys(gone)
                      /\ Owners(After(x)) = Owners(x)
                      /\ Picks(After(x)) \subseteq Picks(x) \ Keys(gone)
    BY <1>1
  <2> QED
    BY <1>2
<1> QED
  BY <1>3, <1>4, <1>5

\* The cascade of the schema is two levels deep, and Cascaded stops there: a
\* row owned by a deleted row is deleted.
LEMMA CascadeClosed ==
    ASSUME NEW rows, NEW s, NEW x \in rows,
           Owners(x) \cap Keys(Cascaded(rows, s)) # {}
    PROVE  Key(x) \in Keys(Cascaded(rows, s))
<1> DEFINE top    == {y \in rows : Key(y) = <<"surveys", s>>}
           first  == Dependents(rows, {<<"surveys", s>>})
           second == Dependents(rows, Keys(first))
<1>1. Cascaded(rows, s) = top \cup first \cup second
  BY DEF Cascaded
<1>2. PICK y \in top \cup first \cup second : Key(y) \in Owners(x)
  BY <1>1 DEF Keys
<1>3. CASE y \in top
  <2>1. x \in first
    BY <1>2, <1>3 DEF Dependents
  <2> QED
    BY <2>1, <1>1 DEF Keys
<1>4. CASE y \in first
  <2>1. Key(y) \in Keys(first)
    BY <1>4 DEF Keys
  <2>2. x \in second
    BY <2>1, <1>2 DEF Dependents
  <2> QED
    BY <2>2, <1>1 DEF Keys
<1>5. CASE y \in second
  <2>1. PICK z \in first : Key(z) \in Owners(y)
    BY <1>5 DEF Dependents, Keys
  <2>2. <<"surveys", s>> \in Owners(z)
    BY <2>1 DEF Dependents
  <2>3. z.table \in {"questions", "submissions"}
    BY <2>2 DEF Owners
  <2>4. y.table \in {"choices", "answers"}
    BY <2>1, <2>3 DEF Owners, Key
  <2>5. \A k \in Owners(x) : k[1] \in {"surveys", "questions", "submissions"}
    BY DEF Owners
  <2> QED
    BY <1>2, <2>4, <2>5 DEF Key
<1> QED
  BY <1>2, <1>3, <1>4, <1>5

--------------------------------------------------------------------------------
\* The type invariant.

\* What TypeOK needs to be inductive: which requests are in which stage, and
\* that the INSERT loops stay within the questions (answers) of the request.
Stages ==
    \A r \in Requests :
        /\ pc[r] \in {"exists", "questions", "choices"} => req[r] \in SubmitInputs
        /\ pc[r] = "insert" => /\ req[r] \in CreateInputs \cup SubmitInputs
                               /\ at[r][1] <= Length(req[r])
        /\ pc[r] \in {"idle", "exists", "questions", "choices"} => at[r] = <<0, 0>>

TypeInv == TypeOK /\ Stages

\* What a client asks for is one of the three requests.
LEMMA InputKinds ==
    ASSUME NEW r \in Requests, NEW in \in Inputs[r]
    PROVE  /\ in \in CreateInputs \cup SubmitInputs \cup DeleteInputs
           /\ in.op = "create" => in \in CreateInputs
           /\ in.op = "submit" => in \in SubmitInputs
<1>1. in \in CreateInputs \cup SubmitInputs \cup DeleteInputs
  BY InputsAssumption
<1> QED
  BY <1>1 DEF CreateInputs, SubmitInputs, DeleteInputs

\* An element of a sequence is of the sequence's element type.
LEMMA ElementType ==
    ASSUME NEW S, NEW seq \in Seq(S), NEW k \in Nat, k # 0, k <= Len(seq)
    PROVE  seq[k] \in S
OBVIOUS

\* Records with columns of the right types are rows of the right type.
LEMMA QuestionRecord ==
    ASSUME NEW T, NEW I, NEW S, NEW Y, NEW M,
           NEW t \in T, NEW i \in I, NEW s \in S, NEW y \in Y, NEW m \in M
    PROVE  [table |-> t, id |-> i, survey |-> s, type |-> y, mandatory |-> m]
              \in [table : T, id : I, survey : S, type : Y, mandatory : M]
OBVIOUS

\* The same of the rows of the table of answers.
LEMMA AnswerRecord ==
    ASSUME NEW T, NEW I, NEW S, NEW Q, NEW C, NEW X,
           NEW t \in T, NEW i \in I, NEW s \in S, NEW q \in Q, NEW c \in C, NEW x \in X
    PROVE  [table |-> t, id |-> i, submission |-> s, question |-> q, choice |-> c, text |-> x]
              \in [table : T, id : I, submission : S, question : Q, choice : C, text : X]
OBVIOUS

\* How far the INSERT loops go is a number.
LEMMA LengthType ==
    ASSUME NEW in \in CreateInputs \cup SubmitInputs
    PROVE  Length(in) \in Nat
<1>1. CASE in \in CreateInputs
  BY <1>1 DEF CreateInputs, Forms, Length
<1>2. CASE in \in SubmitInputs
  BY <1>2 DEF SubmitInputs, Bodies, Length
<1> QED
  BY <1>1, <1>2

\* The row an INSERT writes fits its table, and the loop's next row is a pair.
LEMMA RowAtType ==
    ASSUME TypeInv, NEW r \in Requests, pc[r] = "insert"
    PROVE  RowAt(r) \in RowType /\ NextAt(r) \in Nat \X Nat
<1> DEFINE i == at[r][1]
           j == at[r][2]
           in == req[r]
<1>1. /\ i \in Nat /\ j \in Nat
      /\ in \in CreateInputs \cup SubmitInputs
      /\ i <= Length(in)
  BY DEF TypeInv, TypeOK, Stages
<1>2. NextAt(r) \in Nat \X Nat
  BY <1>1 DEF NextAt
<1>3. CASE in \in CreateInputs
  <2>1. in.op = "create" /\ in.user \in Users /\ in.form \in Forms
    BY <1>3 DEF CreateInputs
  <2>2. CASE i = 0
    <3>1. RowAt(r) = SurveyRow(r)
      BY <2>1, <2>2 DEF RowAt
    <3> QED
      BY <2>1, <3>1, <1>2 DEF SurveyRow, RowType
  <2>3. CASE i # 0 /\ j = 0
    <3>1. RowAt(r) = QuestionRow(r, i)
      BY <2>1, <2>3 DEF RowAt
    <3>2. in.form.questions[i] \in [type : {"multiple", "text", "other"},
                                    mandatory : BOOLEAN, choices : Nat]
      BY <1>1, <2>1, <2>3, ElementType DEF Forms, Length
    <3>3. <<r, i>> \in QuestionIds
      BY <1>1, <2>3 DEF QuestionIds
    <3> DEFINE q == in.form.questions[i]
    <3>4. q.type \in {"multiple", "text", "other"} /\ q.mandatory \in BOOLEAN
      BY <3>2
    <3>5. RowAt(r) = [table |-> "questions", id |-> <<r, i>>, survey |-> r,
                      type |-> q.type, mandatory |-> q.mandatory]
      BY <3>1 DEF QuestionRow
    <3> HIDE DEF q
    <3>6. "questions" \in {"questions"}
      OBVIOUS
    <3>7. [table |-> "questions", id |-> <<r, i>>, survey |-> r, type |-> q.type,
           mandatory |-> q.mandatory]
             \in [table : {"questions"}, id : QuestionIds, survey : Requests,
                  type : {"multiple", "text", "other"}, mandatory : BOOLEAN]
      BY <3>3, <3>4, <3>6, QuestionRecord, Zenon
    <3> QED
      BY <3>5, <3>7, <1>2 DEF RowType
  <2>4. CASE i # 0 /\ j # 0
    <3>1. RowAt(r) = ChoiceRow(r, i, j)
      BY <2>1, <2>4 DEF RowAt
    <3>2. <<r, i>> \in QuestionIds /\ <<r, i, j>> \in Requests \X Nat \X Nat
      BY <1>1, <2>4 DEF QuestionIds
    <3> QED
      BY <3>1, <3>2, <1>2 DEF ChoiceRow, RowType
  <2> QED
    BY <2>2, <2>3, <2>4
<1>4. CASE in \in SubmitInputs
  <2>1. /\ in.op = "submit" /\ in.user \in Users /\ in.answers \in Bodies
        /\ in.survey \in Requests \cup {NoSurvey}
    BY <1>4 DEF SubmitInputs
  <2>2. CASE i = 0
    <3>1. RowAt(r) = SubmissionRow(r)
      BY <2>1, <2>2 DEF RowAt
    <3> QED
      BY <2>1, <3>1, <1>2 DEF SubmissionRow, RowType
  <2>3. CASE i # 0
    <3>1. RowAt(r) = AnswerRow(r, i)
      BY <2>1, <2>3 DEF RowAt
    <3>2. in.answers[i] \in [question : QuestionIds, choice : ChoiceIds \cup {NoChoice},
                             text : BOOLEAN]
      BY <1>1, <2>1, <2>3, ElementType DEF Bodies, Length
    <3> DEFINE a == in.answers[i]
    <3>3. /\ a.question \in QuestionIds /\ a.choice \in ChoiceIds \cup {NoChoice}
          /\ a.text \in BOOLEAN
      BY <3>2
    <3>4. RowAt(r) = [table |-> "answers", id |-> <<r, i>>, submission |-> r,
                      question |-> a.question, choice |-> a.choice, text |-> a.text]
      BY <3>1 DEF AnswerRow
    <3>5. <<r, i>> \in Requests \X Nat
      BY <1>1
    <3> HIDE DEF a
    <3>6. "answers" \in {"answers"}
      OBVIOUS
    <3>7. [table |-> "answers", id |-> <<r, i>>, submission |-> r, question |-> a.question,
           choice |-> a.choice, text |-> a.text]
             \in [table : {"answers"}, id : Requests \X Nat, submission : Requests,
                  question : QuestionIds, choice : ChoiceIds \cup {NoChoice},
                  text : BOOLEAN]
      BY <3>3, <3>5, <3>6, AnswerRecord, Zenon
    <3> QED
      BY <3>4, <3>7, <1>2 DEF RowType
  <2> QED
    BY <2>2, <2>3
<1> QED
  BY <1>1, <1>2, <1>3, <1>4

\* Nothing is there at first, and it has the right type.
LEMMA TypeInit == Init => TypeInv
<1> SUFFICES ASSUME Init PROVE TypeOK /\ Stages
  BY DEF TypeInv
<1>1. TypeOK
  BY DEF Init, TypeOK
<1>2. Stages
  BY DEF Init, Stages
<1> QED
  BY <1>1, <1>2

\* Every action, step by step, keeps the types and the input of a request.
LEMMA TypeNext == TypeInv /\ [Next]_vars => TypeInv'
<1> SUFFICES ASSUME TypeInv, [Next]_vars PROVE TypeOK' /\ Stages'
  BY DEF TypeInv
<1> USE DEF TypeInv
<1>1. ASSUME NEW r \in Requests, CreateSurvey(r) PROVE TypeOK' /\ Stages'
  <2>1. PICK in \in Inputs[r] :
            /\ in.op = "create"
            /\ req' = [req EXCEPT ![r] = in]
            /\ IF ValidateSurveyAdding(in.form) THEN Goto(r, "insert") ELSE Answer(r, 400)
    BY <1>1 DEF CreateSurvey
  <2>2. in \in CreateInputs /\ Length(in) \in Nat
    BY <2>1, InputKinds, LengthType
  <2>3. TypeOK'
    <3>1. \E stage \in {"done", "insert"}, status \in {0, 200, 201, 400, 403, 404, 500} :
             pc' = [pc EXCEPT ![r] = stage] /\ resp' = [resp EXCEPT ![r] = status]
      BY <2>1 DEF TypeOK, Goto, Answer
    <3>2. req' \in [Requests -> CreateInputs \cup SubmitInputs \cup DeleteInputs
                                 \cup {NoRequest}]
      BY <2>1, <2>2 DEF TypeOK
    <3> QED
      BY <1>1, <3>1, <3>2 DEF CreateSurvey, TypeOK, tables
  <2>4. Stages'
    BY <1>1, <2>1, <2>2 DEF CreateSurvey, TypeOK, Stages, Goto, Answer, tables
  <2> QED
    BY <2>3, <2>4
<1>2. ASSUME NEW r \in Requests, CreateSubmission(r) PROVE TypeOK' /\ Stages'
  <2>1. PICK in \in Inputs[r] : in.op = "submit" /\ req' = [req EXCEPT ![r] = in]
    BY <1>2 DEF CreateSubmission
  <2>2. in \in SubmitInputs
    BY <2>1, InputKinds
  <2>3. TypeOK'
    BY <1>2, <2>1, <2>2 DEF CreateSubmission, TypeOK, Goto, tables
  <2>4. Stages'
    BY <1>2, <2>1, <2>2 DEF CreateSubmission, TypeOK, Stages, Goto, tables
  <2> QED
    BY <2>3, <2>4
<1>3. ASSUME NEW r \in Requests, DeleteSurvey(r) PROVE TypeOK' /\ Stages'
  <2>1. PICK in \in Inputs[r] : /\ req' = [req EXCEPT ![r] = in]
                                /\ Goto(r, IF in.user \in Admins THEN "delete" ELSE "owner")
    BY <1>3 DEF DeleteSurvey
  <2>2. in \in CreateInputs \cup SubmitInputs \cup DeleteInputs
    BY InputKinds
  <2>3. TypeOK'
    BY <1>3, <2>1, <2>2 DEF DeleteSurvey, TypeOK, Goto, tables
  <2>4. Stages'
    BY <1>3, <2>1, <2>2 DEF DeleteSurvey, TypeOK, Stages, Goto, tables
  <2> QED
    BY <2>3, <2>4
<1>4. ASSUME NEW r \in Requests,
             SurveyExists(r) \/ ReadQuestions(r) \/ ReadChoices(r) \/ CheckOwnership(r)
             \/ Reply(r) \/ CommitReplyLost(r)
      PROVE  TypeOK' /\ Stages'
  <2>1. CASE SurveyExists(r)
    <3>1. \E stage \in {"done", "questions"}, status \in {0, 200, 201, 400, 403, 404, 500} :
             pc' = [pc EXCEPT ![r] = stage] /\ resp' = [resp EXCEPT ![r] = status]
      BY <2>1 DEF SurveyExists, TypeOK, Goto, Answer
    <3>2. TypeOK'
      BY <2>1, <3>1 DEF SurveyExists, TypeOK, tables
    <3>3. Stages'
      BY <2>1 DEF SurveyExists, TypeOK, Stages, Goto, Answer, tables
    <3> QED
      BY <3>2, <3>3
  <2>2. CASE ReadQuestions(r)
    BY <2>2 DEF ReadQuestions, TypeOK, Stages, Goto
  <2>3. CASE ReadChoices(r)
    BY <2>3 DEF ReadChoices, TypeOK, Stages
  <2>4. CASE CheckOwnership(r)
    <3>1. \E stage \in {"done", "delete"}, status \in {0, 200, 201, 400, 403, 404, 500} :
             pc' = [pc EXCEPT ![r] = stage] /\ resp' = [resp EXCEPT ![r] = status]
      BY <2>4 DEF CheckOwnership, TypeOK, Goto, Answer
    <3>2. TypeOK'
      BY <2>4, <3>1 DEF CheckOwnership, TypeOK, tables
    <3>3. Stages'
      BY <2>4, <3>1 DEF CheckOwnership, TypeOK, Stages, tables
    <3> QED
      BY <3>2, <3>3
  <2>5. CASE Reply(r)
    BY <2>5 DEF Reply, TypeOK, Stages, Answer, tables
  <2>6. CASE CommitReplyLost(r)
    BY <2>6 DEF CommitReplyLost, TypeOK, Stages, Answer, tables
  <2> QED
    BY <1>4, <2>1, <2>2, <2>3, <2>4, <2>5, <2>6
<1>5. ASSUME NEW r \in Requests, ValidateSubmission(r) PROVE TypeOK' /\ Stages'
  <2>1. req[r] \in SubmitInputs /\ at[r] = <<0, 0>> /\ Length(req[r]) \in Nat
    BY <1>5, LengthType DEF ValidateSubmission, Stages
  <2>2. TypeOK'
    BY <1>5 DEF ValidateSubmission, TypeOK, Goto, Answer, tables
  <2>3. Stages'
    BY <1>5, <2>1 DEF ValidateSubmission, TypeOK, Stages, Goto, Answer, tables
  <2> QED
    BY <2>2, <2>3
<1>6. ASSUME NEW r \in Requests, Insert(r) PROVE TypeOK' /\ Stages'
  <2>1. /\ pc[r] = "insert"
        /\ RowAt(r) \in RowType /\ NextAt(r) \in Nat \X Nat
        /\ req[r] \in CreateInputs \cup SubmitInputs /\ Length(req[r]) \in Nat
    BY <1>6, RowAtType, LengthType DEF Insert, Stages
  <2>2. TypeOK'
    <3>1. \/ /\ inserted' = [inserted EXCEPT ![r] = @ \cup {RowAt(r)}]
             /\ at' = [at EXCEPT ![r] = NextAt(r)]
             /\ \E stage \in {"insert", "commit"} : pc' = [pc EXCEPT ![r] = stage]
             /\ UNCHANGED <<deleted, resp>>
          \/ /\ Rollback(r)
             /\ Answer(r, 500)
             /\ UNCHANGED at
      BY <1>6 DEF Insert, Goto
    <3> HIDE DEF TypeInv
    <3>2. TypeOK
      BY DEF TypeInv
    <3>3. UNCHANGED <<db, req, seen, committed>>
      BY <1>6 DEF Insert
    <3>4. CASE Rollback(r) /\ Answer(r, 500) /\ UNCHANGED at
      BY <3>2, <3>3, <3>4 DEF TypeOK, Answer, Rollback
    <3>5. CASE /\ inserted' = [inserted EXCEPT ![r] = @ \cup {RowAt(r)}]
               /\ at' = [at EXCEPT ![r] = NextAt(r)]
               /\ \E stage \in {"insert", "commit"} : pc' = [pc EXCEPT ![r] = stage]
               /\ UNCHANGED <<deleted, resp>>
      <4>1. /\ inserted' \in [Requests -> SUBSET RowType]
            /\ at' \in [Requests -> Nat \X Nat]
        BY <2>1, <3>2, <3>5 DEF TypeOK
      <4> QED
        BY <2>1, <3>2, <3>3, <3>5, <4>1 DEF TypeOK
    <3> QED
      BY <3>1, <3>4, <3>5
  <2>3. Stages'
    BY <1>6, <2>1 DEF Insert, TypeOK, Stages, Goto, Answer
  <2> QED
    BY <2>2, <2>3
<1>7. ASSUME NEW r \in Requests, DeleteRow(r) \/ Cascade(r) PROVE TypeOK' /\ Stages'
  <2>1. /\ SurveyRowOf(req[r].survey) \subseteq RowType
        /\ Cascaded(db, req[r].survey) \subseteq RowType
    BY DEF TypeOK, SurveyRowOf, Table, Cascaded, Dependents
  <2>2. CASE DeleteRow(r)
    <3>1. \E stage \in {"done", "cascade"}, status \in {0, 200, 201, 400, 403, 404, 500} :
             /\ pc' = [pc EXCEPT ![r] = stage] /\ resp' = [resp EXCEPT ![r] = status]
             /\ stage = "done" => deleted'[r] = {}
      BY <2>2 DEF DeleteRow, FirstRowsOf, Affected, TypeOK, Goto, Answer
    <3>2. /\ pc[r] = "delete"
          /\ deleted' = [deleted EXCEPT ![r] = SurveyRowOf(req[r].survey)]
          /\ UNCHANGED <<db, req, seen, at, inserted, committed>>
      BY <2>2 DEF DeleteRow, FirstRowsOf
    <3>3. TypeOK'
      BY <2>1, <3>1, <3>2 DEF TypeOK
    <3>4. Stages'
      BY <3>1, <3>2 DEF TypeOK, Stages
    <3> QED
      BY <3>3, <3>4
  <2>3. CASE Cascade(r)
    <3>1. TypeOK'
      BY <2>1, <2>3 DEF Cascade, TypeOK, Goto
    <3>2. Stages'
      BY <2>3 DEF Cascade, TypeOK, Stages, Goto
    <3> QED
      BY <3>1, <3>2
  <2> QED
    BY <1>7, <2>2, <2>3
<1>8. ASSUME NEW r \in Requests, Commit(r) PROVE TypeOK' /\ Stages'
  <2>1. db' \subseteq RowType
    <3>1. db \in SUBSET RowType /\ deleted[r] \in SUBSET RowType
      BY DEF TypeOK
    <3>2. Without(db, deleted[r]) \subseteq RowType
      BY <3>1, WithoutRows
    <3> QED
      BY <1>8, <3>2 DEF Commit, TypeOK
  <2>2. TypeOK'
    BY <1>8, <2>1 DEF Commit, TypeOK, Goto, Rollback
  <2>3. Stages'
    BY <1>8 DEF Commit, TypeOK, Stages, Goto
  <2> QED
    BY <2>2, <2>3
<1>9. ASSUME NEW r \in Requests, StatementFails(r) \/ Reap(r) PROVE TypeOK' /\ Stages'
  <2>1. CASE StatementFails(r)
    BY <2>1 DEF StatementFails, FailureStatus, TypeOK, Stages, Answer, Rollback
  <2>2. CASE Reap(r)
    BY <2>2 DEF Reap, TypeOK, Stages, Rollback
  <2> QED
    BY <1>9, <2>1, <2>2
<1>10. ASSUME Crash PROVE TypeOK' /\ Stages'
  BY <1>10 DEF Crash, Working, TypeOK, Stages, tables
<1>11. ASSUME UNCHANGED vars PROVE TypeOK' /\ Stages'
  BY <1>11 DEF vars, TypeOK, Stages
<1> QED
  BY <1>1, <1>2, <1>3, <1>4, <1>5, <1>6, <1>7, <1>8, <1>9, <1>10, <1>11
     DEF Next, Step, Quiet

\* In every reachable state the rows, requests and stages are of their types,
\* and a transaction is open only where the code has one open.
THEOREM TypeCorrect == Spec => []TypeOK
<1>1. TypeInv => TypeOK
  BY DEF TypeInv
<1> QED
  BY <1>1, TypeInit, TypeNext, PTL DEF Spec

--------------------------------------------------------------------------------
\* Row locks and referential integrity.

\* ReferentialIntegrity alone is not inductive: a COMMIT needs to know that what
\* its rows refer to is still there, and that is what the locks see to.
LockInv == ReferentialIntegrity /\ LockSafety

\* At first no transaction is open.
LEMMA LockInit == Init => LockInv
BY DEF Init, LockInv, ReferentialIntegrity, LockSafety, Shared, Exclusive, Keys

\* A step that neither changes rows nor brings a transaction to its COMMIT.
LEMMA LockIdle ==
    ASSUME LockInv, UNCHANGED <<db, inserted, deleted>>,
           \A r \in Requests : pc'[r] = "commit" => pc[r] = "commit"
    PROVE  LockInv'
BY DEF LockInv, ReferentialIntegrity, LockSafety, Shared, Exclusive, Keys

\* A transaction that is rolled back gives up its rows and its locks.
LEMMA LockRollback ==
    ASSUME TypeOK, LockInv, NEW r \in Requests, Rollback(r), UNCHANGED db,
           \A p \in Requests : pc'[p] = "commit" => pc[p] = "commit" /\ p # r
    PROVE  LockInv'
<1>1. /\ inserted'[r] = {} /\ deleted'[r] = {}
      /\ \A p \in Requests \ {r} : inserted'[p] = inserted[p] /\ deleted'[p] = deleted[p]
  BY DEF Rollback, TypeOK
<1>2. /\ Shared(r)' = {} /\ Exclusive(r)' = {}
      /\ \A p \in Requests \ {r} : Shared(p)' = Shared(p) /\ Exclusive(p)' = Exclusive(p)
  BY <1>1 DEF Shared, Exclusive, Keys
<1>3. ReferentialIntegrity'
  BY DEF LockInv, ReferentialIntegrity
<1>4. LockSafety'
  <2> SUFFICES ASSUME NEW p \in Requests
               PROVE  /\ \A x \in inserted'[p] : References(x) \subseteq Keys(db \cup inserted'[p])
                      /\ \A q \in Requests \ {p} : Shared(p)' \cap Exclusive(q)' = {}
                      /\ pc'[p] = "commit" =>
                            \A x \in db : Owners(x) \cap Exclusive(p)' # {}
                                             => Key(x) \in Exclusive(p)'
                      /\ inserted'[p] = {} \/ deleted'[p] = {}
    BY DEF LockSafety, Keys
  <2>1. CASE p = r
    BY <1>1, <1>2, <2>1
  <2>2. CASE p # r
    BY <1>1, <1>2, <2>2 DEF LockInv, LockSafety
  <2> QED
    BY <2>1, <2>2
<1> QED
  BY <1>3, <1>4 DEF LockInv

\* An INSERT takes its locks only when nobody is deleting what it refers to.
LEMMA LockInsert ==
    ASSUME TypeOK, LockInv, NEW r \in Requests, Insert(r)
    PROVE  LockInv'
<1> DEFINE x == RowAt(r)
<1>1. CASE References(x) \subseteq Keys(db \cup inserted[r])
  <2>1. /\ inserted' = [inserted EXCEPT ![r] = @ \cup {x}]
        /\ UNCHANGED <<db, deleted>>
        /\ \A p \in Requests \ {r} : pc'[p] = pc[p]
        /\ \A p \in Requests \ {r} : Exclusive(p) \cap References(x) = {}
        /\ deleted[r] = {}
    BY <1>1 DEF Insert, Goto, CanShare, TypeOK
  <2>2. /\ inserted'[r] = inserted[r] \cup {x}
        /\ \A p \in Requests \ {r} : inserted'[p] = inserted[p]
    BY <2>1 DEF TypeOK
  <2> HIDE DEF x
  <2>3. /\ Shared(r)' = Shared(r) \cup References(x)
        /\ \A p \in Requests \ {r} : Shared(p)' = Shared(p)
        /\ \A p \in Requests : Exclusive(p)' = Exclusive(p)
        /\ Exclusive(r) = {}
    <3>1. Shared(r)' = Shared(r) \cup References(x)
      BY <2>2 DEF Shared
    <3>2. \A p \in Requests \ {r} : Shared(p)' = Shared(p)
      BY <2>2 DEF Shared
    <3> QED
      BY <2>1, <3>1, <3>2 DEF Exclusive, Keys
  <2>4. Keys(db \cup inserted[r]) \subseteq Keys(db \cup inserted'[r])
    BY <2>2 DEF Keys
  <2>5. LockSafety'
    <3> SUFFICES ASSUME NEW p \in Requests
                 PROVE  /\ \A y \in inserted'[p] :
                              References(y) \subseteq Keys(db' \cup inserted'[p])
                        /\ \A q \in Requests \ {p} : Shared(p)' \cap Exclusive(q)' = {}
                        /\ pc'[p] = "commit" =>
                              \A y \in db' : Owners(y) \cap Exclusive(p)' # {}
                                                => Key(y) \in Exclusive(p)'
                        /\ inserted'[p] = {} \/ deleted'[p] = {}
      BY DEF LockSafety
    <3> USE <2>1
    <3>1. CASE p = r
      <4>1. \A y \in inserted'[r] : References(y) \subseteq Keys(db \cup inserted'[r])
        BY <1>1, <2>2, <2>4 DEF LockInv, LockSafety, x
      <4>2. \A q \in Requests \ {r} : Shared(r)' \cap Exclusive(q) = {}
        BY <2>1, <2>3 DEF LockInv, LockSafety
      <4> QED
        BY <3>1, <4>1, <4>2, <2>1, <2>3
    <3>2. CASE p # r
      <4>1. /\ inserted'[p] = inserted[p] /\ deleted' = deleted /\ db' = db
            /\ pc'[p] = pc[p] /\ Shared(p)' = Shared(p)
        BY <3>2, <2>1, <2>2, <2>3
      <4>2. \A q \in Requests \ {p} : Shared(p)' \cap Exclusive(q)' = {}
        BY <4>1, <2>3 DEF LockInv, LockSafety
      <4>3. Exclusive(p)' = Exclusive(p)
        BY <2>3
      <4>4. /\ pc[p] = "commit" => \A y \in db : Owners(y) \cap Exclusive(p) # {}
                                                    => Key(y) \in Exclusive(p)
            /\ \A y \in inserted[p] : References(y) \subseteq Keys(db \cup inserted[p])
            /\ inserted[p] = {} \/ deleted[p] = {}
        BY DEF LockInv, LockSafety
      <4> QED
        BY <4>1, <4>2, <4>3, <4>4
    <3> QED
      BY <3>1, <3>2
  <2> QED
    BY <2>1, <2>5 DEF LockInv, ReferentialIntegrity
<1>2. CASE ~(References(x) \subseteq Keys(db \cup inserted[r]))
  <2>1. Rollback(r) /\ UNCHANGED db
    BY <1>2 DEF Insert
  <2>2. \A p \in Requests : pc'[p] = "commit" => pc[p] = "commit" /\ p # r
    BY <1>2 DEF Insert, Answer, TypeOK
  <2> QED
    BY <2>1, <2>2, LockRollback
<1> QED
  BY <1>1, <1>2

\* A DELETE locks rows only when nobody refers to them, and its cascade leaves
\* no row behind that is owned by one it deletes.
LEMMA LockDelete ==
    ASSUME TypeOK, LockInv, NEW r \in Requests, DeleteRow(r) \/ Cascade(r)
    PROVE  LockInv'
<1>1. PICK rows : /\ deleted' = [deleted EXCEPT ![r] = rows]
                  /\ CanDelete(r, Keys(rows))
                  /\ Cascade(r) => rows = Cascaded(db, req[r].survey)
                  /\ DeleteRow(r) => pc'[r] # "commit"
                  /\ UNCHANGED <<db, inserted>>
                  /\ \A p \in Requests \ {r} : pc'[p] = pc[p]
                  /\ inserted[r] = {}
  <2>1. CASE DeleteRow(r)
    <3>1. PICK rows : rows = FirstRowsOf(req[r].survey)
      OBVIOUS
    <3>2. pc[r] = "delete" /\ inserted[r] = {}
      BY <2>1 DEF DeleteRow, TypeOK
    <3>3. pc'[r] # "commit" /\ \A p \in Requests \ {r} : pc'[p] = pc[p]
      BY <2>1 DEF DeleteRow, Goto, Answer, TypeOK
    <3>4. ~Cascade(r)
      BY <3>2 DEF Cascade
    <3> QED
      BY <2>1, <3>1, <3>2, <3>3, <3>4 DEF DeleteRow
  <2>2. CASE Cascade(r)
    <3>1. PICK rows : rows = Cascaded(db, req[r].survey)
      OBVIOUS
    <3>2. pc[r] = "cascade" /\ inserted[r] = {}
      BY <2>2 DEF Cascade, TypeOK
    <3> QED
      BY <2>2, <3>1, <3>2 DEF DeleteRow, Cascade, Goto, TypeOK
  <2> QED
    BY <2>1, <2>2
<1>2. /\ deleted'[r] = rows
      /\ \A p \in Requests \ {r} : deleted'[p] = deleted[p]
  BY <1>1 DEF TypeOK
<1>3. /\ Exclusive(r)' = Keys(rows)
      /\ \A p \in Requests \ {r} : Exclusive(p)' = Exclusive(p)
      /\ \A p \in Requests : Shared(p)' = Shared(p)
  BY <1>1, <1>2 DEF Exclusive, Shared, Keys
<1>4. pc'[r] = "commit" =>
          \A x \in db : Owners(x) \cap Keys(rows) # {} => Key(x) \in Keys(rows)
  BY <1>1, CascadeClosed
<1>5. LockSafety'
  <2> SUFFICES ASSUME NEW p \in Requests
               PROVE  /\ \A x \in inserted'[p] :
                            References(x) \subseteq Keys(db' \cup inserted'[p])
                      /\ \A q \in Requests \ {p} : Shared(p)' \cap Exclusive(q)' = {}
                      /\ pc'[p] = "commit" =>
                            \A x \in db' : Owners(x) \cap Exclusive(p)' # {}
                                              => Key(x) \in Exclusive(p)'
                      /\ inserted'[p] = {} \/ deleted'[p] = {}
    BY DEF LockSafety
  <2>1. CASE p = r
    <3>1. \A q \in Requests \ {r} : Shared(r)' \cap Exclusive(q)' = {}
      BY <1>3 DEF LockInv, LockSafety
    <3> QED
      BY <1>1, <1>3, <1>4, <2>1, <3>1
  <2>2. CASE p # r
    BY <1>1, <1>2, <1>3, <2>2 DEF LockInv, LockSafety, CanDelete
  <2> QED
    BY <2>1, <2>2
<1> QED
  BY <1>1, <1>5 DEF LockInv, ReferentialIntegrity

\* A COMMIT keeps every reference: of the rows it adds, of the rows it leaves,
\* and of the rows others have not committed yet.
LEMMA LockCommit ==
    ASSUME TypeOK, LockInv, NEW r \in Requests, Commit(r)
    PROVE  LockInv'
<1> DEFINE left == Without(db, deleted[r])
<1>1. /\ db \in SUBSET RowType /\ deleted[r] \in SUBSET RowType
      /\ pc[r] = "commit"
      /\ db' = left \cup inserted[r]
  BY DEF TypeOK, Commit
<1>2. /\ Keys(left) = Keys(db) \ Exclusive(r)
      /\ \A y \in left : \E x \in db : /\ Key(x) = Key(y)
                                       /\ Key(x) \notin Exclusive(r)
                                       /\ Owners(y) = Owners(x)
                                       /\ Picks(y) \subseteq Picks(x) \ Exclusive(r)
  BY <1>1, WithoutRows DEF Exclusive
<1> HIDE DEF left
<1>3. Keys(db') = (Keys(db) \ Exclusive(r)) \cup Keys(inserted[r])
  BY <1>1, <1>2 DEF Keys
<1>4. /\ inserted'[r] = {} /\ deleted'[r] = {} /\ pc'[r] = "committed"
      /\ \A p \in Requests \ {r} : /\ inserted'[p] = inserted[p]
                                   /\ deleted'[p] = deleted[p]
                                   /\ pc'[p] = pc[p]
  BY DEF Commit, Rollback, Goto, TypeOK
<1>5. /\ Shared(r)' = {} /\ Exclusive(r)' = {}
      /\ \A p \in Requests \ {r} : Shared(p)' = Shared(p) /\ Exclusive(p)' = Exclusive(p)
  BY <1>4 DEF Shared, Exclusive, Keys
<1>6. /\ \A x \in db : References(x) \subseteq Keys(db)
      /\ \A x \in inserted[r] : References(x) \subseteq Keys(db \cup inserted[r])
      /\ \A x \in db : Owners(x) \cap Exclusive(r) # {} => Key(x) \in Exclusive(r)
      /\ inserted[r] = {} \/ deleted[r] = {}
  BY <1>1 DEF LockInv, ReferentialIntegrity, LockSafety
<1>7. deleted[r] = {} => Exclusive(r) = {}
  BY DEF Exclusive, Keys
<1>8. ReferentialIntegrity'
  <2> SUFFICES ASSUME NEW y \in left \cup inserted[r] PROVE References(y) \subseteq Keys(db')
    BY <1>1 DEF ReferentialIntegrity
  <2>1. CASE y \in left
    <3>1. PICK x \in db : /\ Key(x) \notin Exclusive(r)
                          /\ Owners(y) = Owners(x)
                          /\ Picks(y) \subseteq Picks(x) \ Exclusive(r)
      BY <1>2, <2>1
    <3>2. Owners(x) \cap Exclusive(r) = {}
      BY <3>1, <1>6
    <3> QED
      BY <3>1, <3>2, <1>3, <1>6 DEF References
  <2>2. CASE y \in inserted[r]
    <3>1. Exclusive(r) = {}
      BY <2>2, <1>6, <1>7
    <3>2. Keys(db \cup inserted[r]) = Keys(db')
      BY <3>1, <1>3 DEF Keys
    <3> QED
      BY <2>2, <3>2, <1>6
  <2> QED
    BY <2>1, <2>2
<1>9. LockSafety'
  <2> SUFFICES ASSUME NEW p \in Requests
               PROVE  /\ \A x \in inserted'[p] :
                            References(x) \subseteq Keys(db' \cup inserted'[p])
                      /\ \A q \in Requests \ {p} : Shared(p)' \cap Exclusive(q)' = {}
                      /\ pc'[p] = "commit" =>
                            \A x \in db' : Owners(x) \cap Exclusive(p)' # {}
                                              => Key(x) \in Exclusive(p)'
                      /\ inserted'[p] = {} \/ deleted'[p] = {}
    BY DEF LockSafety
  <2>1. CASE p = r
    BY <1>4, <1>5, <2>1
  <2>2. CASE p # r
    <3>1. \A x \in inserted[p] : References(x) \subseteq Keys(db' \cup inserted[p])
      <4> SUFFICES ASSUME NEW x \in inserted[p], NEW k \in References(x)
                   PROVE  k \in Keys(db' \cup inserted[p])
        OBVIOUS
      <4>1. k \in Keys(db \cup inserted[p]) /\ k \in Shared(p)
        BY DEF LockInv, LockSafety, Shared
      <4>2. k \notin Exclusive(r)
        BY <4>1, <2>2 DEF LockInv, LockSafety
      <4>3. k \in Keys(db') \cup Keys(inserted[p])
        BY <4>1, <4>2, <1>3 DEF Keys
      <4> QED
        BY <4>3 DEF Keys
    <3>2. \A q \in Requests \ {p} : Shared(p)' \cap Exclusive(q)' = {}
      BY <1>5, <2>2 DEF LockInv, LockSafety
    <3>3. ASSUME pc[p] = "commit", NEW y \in left \cup inserted[r],
                 Owners(y) \cap Exclusive(p) # {}
          PROVE  Key(y) \in Exclusive(p)
      <4>1. CASE y \in left
        BY <4>1, <1>2, <3>3 DEF LockInv, LockSafety
      <4>2. CASE y \in inserted[r]
        <5>1. Owners(y) \subseteq Shared(r)
          BY <4>2 DEF Shared, References
        <5>2. Shared(r) \cap Exclusive(p) = {}
          BY <2>2 DEF LockInv, LockSafety
        <5> QED
          BY <5>1, <5>2, <3>3
      <4> QED
        BY <4>1, <4>2
    <3>4. inserted[p] = {} \/ deleted[p] = {}
      BY DEF LockInv, LockSafety
    <3> QED
      BY <1>1, <1>4, <1>5, <2>2, <3>1, <3>2, <3>3, <3>4
  <2> QED
    BY <2>1, <2>2
<1> QED
  BY <1>8, <1>9 DEF LockInv

\* Every action keeps the lock discipline.
LEMMA LockNext == TypeOK /\ LockInv /\ [Next]_vars => LockInv'
<1> SUFFICES ASSUME TypeOK, LockInv, [Next]_vars PROVE LockInv'
  OBVIOUS
<1>1. ASSUME NEW r \in Requests,
             \/ CreateSurvey(r) \/ CreateSubmission(r) \/ DeleteSurvey(r)
             \/ SurveyExists(r) \/ ReadQuestions(r) \/ ReadChoices(r) \/ ValidateSubmission(r)
             \/ CheckOwnership(r) \/ Reply(r) \/ CommitReplyLost(r)
      PROVE  LockInv'
  <2>1. /\ UNCHANGED <<db, inserted, deleted>>
        /\ \A p \in Requests : pc'[p] = "commit" => pc[p] = "commit"
    BY <1>1 DEF CreateSurvey, CreateSubmission, DeleteSurvey, SurveyExists, ReadQuestions,
                ReadChoices, ValidateSubmission, CheckOwnership, Reply, CommitReplyLost,
                Goto, Answer, tables, TypeOK
  <2> QED
    BY <2>1, LockIdle
<1>2. ASSUME NEW r \in Requests, StatementFails(r) \/ Reap(r) PROVE LockInv'
  <2>1. /\ Rollback(r) /\ UNCHANGED db
        /\ \A p \in Requests : pc'[p] = "commit" => pc[p] = "commit" /\ p # r
    BY <1>2 DEF StatementFails, Reap, Answer, TypeOK
  <2> QED
    BY <2>1, LockRollback
<1>3. CASE Crash
  <2>1. /\ UNCHANGED <<db, inserted, deleted>>
        /\ \A p \in Requests : pc'[p] = "commit" => pc[p] = "commit"
    BY <1>3 DEF Crash, tables
  <2> QED
    BY <2>1, LockIdle
<1>4. CASE UNCHANGED vars
  BY <1>4, LockIdle DEF vars
<1> QED
  BY <1>1, <1>2, <1>3, <1>4, LockInsert, LockDelete, LockCommit DEF Next, Step, Quiet

\* The inductive invariant holds in every reachable state.
LEMMA LockCorrect == Spec => [](TypeInv /\ LockInv)
<1>1. Init => TypeInv /\ LockInv
  BY TypeInit, LockInit
<1>2. TypeInv /\ LockInv /\ [Next]_vars => (TypeInv /\ LockInv)'
  BY TypeNext, LockNext DEF TypeInv
<1> QED
  BY <1>1, <1>2, PTL DEF Spec

\* No transaction loses what it refers to, and no DELETE leaves a row behind,
\* for any number of concurrent requests.
THEOREM LockSafetyHolds == Spec => []LockSafety
<1>1. LockInv => LockSafety
  BY DEF LockInv
<1> QED
  BY <1>1, LockCorrect, PTL

\* No committed row ever refers to a row that is not there.
THEOREM ReferencesHold == Spec => []ReferentialIntegrity
<1>1. LockInv => ReferentialIntegrity
  BY DEF LockInv
<1> QED
  BY <1>1, LockCorrect, PTL
================================================================================
