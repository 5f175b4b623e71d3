------------------------- MODULE SurveyDeletionProofs --------------------------
(***************************************************************************)
(* Proofs about who deletes a survey, how often, and whom that keeps       *)
(* waiting, for any number of requests, surveys and answers: an ownership  *)
(* check that has become stale, two deletions that race, and a COMMIT      *)
(* whose reply is lost do no harm, and row locks never close a cycle.      *)
(*                                                                         *)
(* The argument for the first half: the row of a survey is the one its     *)
(* creation wrote, and is written once (SurveyRows); a deletion that holds *)
(* that row is alone, and the row is there until it commits (Deleting); so *)
(* that after it no other finds the row (Retracted); and who may delete is *)
(* decided by what does not change any more (Entitled).                    *)
(*                                                                         *)
(* For the second: every row has a home, the survey it is deleted with,    *)
(* and refers only to rows of that home: the schema sees to it for         *)
(* questions and choices, the validation of CreateSubmission for answers   *)
(* (Checked).  Who inserts below a survey has locked the survey's row      *)
(* first, and who deletes anything below it has locked that row, too.  So  *)
(* a cascade that has the row is alone in that home, and waits for nobody. *)
(***************************************************************************)
EXTENDS SurveyWritesProofs, FiniteSetTheorems

\* Which kind of request is where, and that a transaction is over when it committed.
Kinds ==
    \A r \in Requests :
        /\ pc[r] \in {"owner", "delete", "cascade"} => req[r].op = "delete"
        /\ pc[r] \in {"exists", "questions", "choices", "insert"} => req[r].op # "delete"
        /\ inserted[r] # {} => req[r].op # "delete"
        /\ deleted[r] # {} => req[r].op = "delete"
        /\ r \in committed => pc[r] \in {"committed", "done", "dead"}

\* A survey's row is what its own request wrote.
SurveyRows ==
    /\ \A x \in db : x.table = "surveys" =>
          x.id \in committed /\ req[x.id].op = "create" /\ x = SurveyRow(x.id)
    /\ \A r \in Requests : \A x \in inserted[r] : x.table = "surveys" =>
          x = SurveyRow(r) /\ req[r].op = "create"

\* What is being deleted is still there, and nobody else is deleting it.
Deleting ==
    \A r \in Requests :
        /\ \A x \in deleted[r] : x.table = "surveys" => x \in db /\ x.id = req[r].survey
        /\ \A p \in Requests \ {r} : Exclusive(p) \cap Exclusive(r) = {}
        /\ pc[r] \in {"cascade", "commit"} /\ req[r].op = "delete" =>
              \E x \in deleted[r] : x.table = "surveys"

\* What was deleted is not there, and does not come back.
Retracted ==
    \A d \in committed : req[d].op = "delete" =>
        /\ req[d].survey \in committed
        /\ \A x \in db : x.table = "surveys" => x.id # req[d].survey
        /\ \A e \in committed : req[e].op = "delete" /\ req[e].survey = req[d].survey => e = d

\* Who deletes owns the survey, or is an admin.
Entitled ==
    \A r \in Requests : pc[r] \in {"delete", "cascade", "commit"} /\ req[r].op = "delete" =>
        \/ req[r].user \in Admins
        \/ req[r].survey \in committed /\ req[req[r].survey].user = req[r].user

DeletionInv == TypeInv /\ Kinds /\ SurveyRows /\ Deleting /\ Retracted /\ Entitled

--------------------------------------------------------------------------------

\* At first nothing is there.
LEMMA DeletionInit == Init => DeletionInv
<1> SUFFICES ASSUME Init PROVE DeletionInv
  OBVIOUS
<1>1. Kinds /\ SurveyRows /\ Deleting /\ Retracted /\ Entitled
  BY DEF Init, Kinds, SurveyRows, Deleting, Retracted, Entitled, Exclusive, Keys
<1>2. QED
  BY <1>1, TypeInit DEF DeletionInv

\* A request that is received asks for what nobody has asked before.
LEMMA DeletionReceive ==
    ASSUME DeletionInv, NEW r \in Requests,
           CreateSurvey(r) \/ CreateSubmission(r) \/ DeleteSurvey(r)
    PROVE  Kinds' /\ SurveyRows' /\ Deleting' /\ Retracted' /\ Entitled'
<1>1. PICK in \in Inputs[r] :
         /\ req' = [req EXCEPT ![r] = in]
         /\ \/ in.op = "create" /\ pc'[r] \in {"insert", "done"}
            \/ in.op = "submit" /\ pc'[r] = "exists"
            \/ in.op = "delete" /\ pc'[r] = "owner"
            \/ in.op = "delete" /\ pc'[r] = "delete" /\ in.user \in Admins
  BY DEF CreateSurvey, CreateSubmission, DeleteSurvey, Goto, Answer, DeletionInv, TypeInv, TypeOK
<1>2. /\ pc[r] = "idle" /\ r \notin committed
      /\ inserted[r] = {} /\ deleted[r] = {}
      /\ UNCHANGED <<db, inserted, deleted, committed>>
      /\ \A q \in Requests \ {r} : req'[q] = req[q] /\ pc'[q] = pc[q]
      /\ req'[r] = in
  <2>1. pc[r] = "idle" /\ UNCHANGED tables /\ \E stage : pc' = [pc EXCEPT ![r] = stage]
    BY DEF CreateSurvey, CreateSubmission, DeleteSurvey, Goto, Answer
  <2>2. r \notin committed /\ inserted[r] = {} /\ deleted[r] = {}
    BY <2>1 DEF DeletionInv, TypeInv, TypeOK, Kinds
  <2>3. QED
    BY <1>1, <2>1, <2>2 DEF tables, DeletionInv, TypeInv, TypeOK
<1>3. \A s \in committed : s \in Requests \ {r} /\ req'[s] = req[s]
  BY <1>2 DEF DeletionInv, TypeInv, TypeOK
<1>4. \A p \in Requests : Exclusive(p)' = Exclusive(p)
  BY <1>2 DEF Exclusive
<1>5. \A s \in committed : SurveyRow(s)' = SurveyRow(s)
  BY <1>3 DEF SurveyRow
<1>6. Kinds'
  BY <1>1, <1>2 DEF DeletionInv, Kinds
<1>7. SurveyRows'
  <2>1. \A q \in Requests : \A x \in inserted[q] : x.table = "surveys" =>
            x = SurveyRow(q)' /\ req'[q].op = "create"
    BY <1>2 DEF DeletionInv, SurveyRows, SurveyRow
  <2>2. QED
    BY <2>1, <1>2, <1>3, <1>5 DEF DeletionInv, SurveyRows
<1>8. Deleting'
  BY <1>1, <1>2, <1>4 DEF DeletionInv, Deleting
<1>9. Retracted'
  BY <1>2, <1>3 DEF DeletionInv, Retracted
<1>10. Entitled'
  BY <1>1, <1>2, <1>3 DEF DeletionInv, Entitled
<1>11. QED
  BY <1>6, <1>7, <1>8, <1>9, <1>10

\* A step that changes nothing but how far the handlers are.
LEMMA DeletionIdle ==
    ASSUME DeletionInv, UNCHANGED <<db, req, inserted, deleted, committed>>,
           \A p \in Requests :
              \/ pc'[p] = pc[p]
              \/ pc'[p] \in {"done", "dead"}
              \/ pc'[p] \in {"questions", "choices", "insert"} /\ pc[p] \in {"exists", "questions", "choices"}
              \/ /\ pc[p] = "owner" /\ pc'[p] = "delete"
                 /\ req[p].survey \in committed /\ req[req[p].survey].user = req[p].user
    PROVE  Kinds' /\ SurveyRows' /\ Deleting' /\ Retracted' /\ Entitled'
<1>1. \A p \in Requests : Exclusive(p)' = Exclusive(p) /\ SurveyRow(p)' = SurveyRow(p)
  BY DEF Exclusive, SurveyRow
<1>2. Kinds'
  BY DEF DeletionInv, Kinds
<1>3. SurveyRows'
  BY <1>1 DEF DeletionInv, TypeInv, TypeOK, SurveyRows
<1>4. Deleting'
  BY <1>1 DEF DeletionInv, Deleting
<1>5. Retracted'
  BY DEF DeletionInv, Retracted
<1>6. Entitled'
  BY DEF DeletionInv, Entitled
<1>7. QED
  BY <1>2, <1>3, <1>4, <1>5, <1>6

\* The reads of a handler and its reply.
LEMMA DeletionRead ==
    ASSUME DeletionInv, NEW r \in Requests,
           \/ SurveyExists(r) \/ ReadQuestions(r) \/ ReadChoices(r) \/ ValidateSubmission(r)
           \/ CheckOwnership(r) \/ Reply(r) \/ CommitReplyLost(r)
    PROVE  Kinds' /\ SurveyRows' /\ Deleting' /\ Retracted' /\ Entitled'
<1>1. /\ UNCHANGED <<db, req, inserted, deleted, committed>>
      /\ \A p \in Requests \ {r} : pc'[p] = pc[p]
  BY DEF SurveyExists, ReadQuestions, ReadChoices, ValidateSubmission, CheckOwnership, Reply, CommitReplyLost,
         Goto, Answer, tables, DeletionInv, TypeInv, TypeOK
<1>2. CASE CheckOwnership(r)
  <2>1. pc[r] = "owner" /\ pc'[r] \in {"done", "delete"}
    BY <1>2 DEF CheckOwnership, Goto, Answer, DeletionInv, TypeInv, TypeOK
  <2>2. CASE pc'[r] = "delete"
    <3>1. PICK x \in SurveyRowOf(req[r].survey) : Owns(x, req[r].user)
      BY <1>2, <2>2 DEF CheckOwnership, Answer, DeletionInv, TypeInv, TypeOK
    <3>2. x \in db /\ x.table = "surveys" /\ x.id = req[r].survey /\ x.owner = req[r].user
      BY <3>1 DEF SurveyRowOf, Table, Owns
    <3>3. x.id \in committed /\ x = SurveyRow(x.id)
      BY <3>2 DEF DeletionInv, SurveyRows
    <3>4. x.owner = req[x.id].user
      BY <3>3 DEF SurveyRow
    <3>5. QED
      BY <1>1, <2>1, <2>2, <3>2, <3>3, <3>4, DeletionIdle
  <2>3. QED
    BY <1>1, <2>1, <2>2, DeletionIdle
<1>3. CASE ~CheckOwnership(r)
  <2>1. \/ pc'[r] = pc[r]
        \/ pc'[r] = "done"
        \/ pc'[r] \in {"questions", "choices", "insert"} /\ pc[r] \in {"exists", "questions", "choices"}
    BY <1>3 DEF SurveyExists, ReadQuestions, ReadChoices, ValidateSubmission, Reply, CommitReplyLost,
                Goto, Answer, DeletionInv, TypeInv, TypeOK
  <2>2. QED
    BY <1>1, <2>1, DeletionIdle
<1>4. QED
  BY <1>2, <1>3

\* A transaction that is rolled back.
LEMMA DeletionRollback ==
    ASSUME DeletionInv, NEW r \in Requests, Rollback(r), UNCHANGED <<db, req, committed>>,
           pc'[r] \in {"done", "dead"}, \A p \in Requests \ {r} : pc'[p] = pc[p]
    PROVE  Kinds' /\ SurveyRows' /\ Deleting' /\ Retracted' /\ Entitled'
<1>1. /\ inserted'[r] = {} /\ deleted'[r] = {}
      /\ \A p \in Requests \ {r} : inserted'[p] = inserted[p] /\ deleted'[p] = deleted[p]
  BY DEF Rollback, DeletionInv, TypeInv, TypeOK
<1>2. /\ Exclusive(r)' = {}
      /\ \A p \in Requests \ {r} : Exclusive(p)' = Exclusive(p)
      /\ \A p \in Requests : SurveyRow(p)' = SurveyRow(p)
  BY <1>1 DEF Exclusive, Keys, SurveyRow
<1>3. Kinds'
  BY <1>1 DEF DeletionInv, Kinds
<1>4. SurveyRows'
  BY <1>1, <1>2 DEF DeletionInv, TypeInv, TypeOK, SurveyRows
<1>5. Deleting'
  BY <1>1, <1>2 DEF DeletionInv, Deleting
<1>6. Retracted'
  BY DEF DeletionInv, Retracted
<1>7. Entitled'
  BY DEF DeletionInv, Entitled
<1>8. QED
  BY <1>3, <1>4, <1>5, <1>6, <1>7

\* An INSERT adds the row of its own request, or rolls back.
LEMMA DeletionInsert ==
    ASSUME DeletionInv, NEW r \in Requests, Insert(r)
    PROVE  Kinds' /\ SurveyRows' /\ Deleting' /\ Retracted' /\ Entitled'
<1> DEFINE x == RowAt(r)
<1>1. CASE References(x) \subseteq Keys(db \cup inserted[r])
  <2>1. /\ inserted'[r] = inserted[r] \cup {x}
        /\ \A p \in Requests \ {r} : inserted'[p] = inserted[p] /\ pc'[p] = pc[p]
        /\ UNCHANGED <<db, req, deleted, committed>>
        /\ pc[r] = "insert" /\ pc'[r] \in {"insert", "commit"}
        /\ req[r].op # "delete" /\ r \notin committed
    BY <1>1 DEF Insert, Goto, DeletionInv, TypeInv, TypeOK, Kinds
  <2>2. x.table = "surveys" => x = SurveyRow(r) /\ req[r].op = "create"
    BY DEF RowAt, SurveyRow, QuestionRow, ChoiceRow, SubmissionRow, AnswerRow
  <2> HIDE DEF x
  <2>3. \A p \in Requests : Exclusive(p)' = Exclusive(p) /\ SurveyRow(p)' = SurveyRow(p)
    BY <2>1 DEF Exclusive, SurveyRow
  <2>4. Kinds'
    BY <2>1 DEF DeletionInv, Kinds
  <2>5. SurveyRows'
    BY <2>1, <2>2, <2>3 DEF DeletionInv, TypeInv, TypeOK, SurveyRows
  <2>6. Deleting'
    BY <2>1, <2>3 DEF DeletionInv, Deleting
  <2>7. Retracted'
    BY <2>1 DEF DeletionInv, Retracted
  <2>8. Entitled'
    BY <2>1 DEF DeletionInv, Entitled
  <2>9. QED
    BY <2>4, <2>5, <2>6, <2>7, <2>8
<1>2. CASE ~(References(x) \subseteq Keys(db \cup inserted[r]))
  <2>1. /\ Rollback(r) /\ UNCHANGED <<db, req, committed>>
        /\ pc'[r] = "done" /\ \A p \in Requests \ {r} : pc'[p] = pc[p]
    BY <1>2 DEF Insert, Answer, DeletionInv, TypeInv, TypeOK
  <2>2. QED
    BY <2>1, DeletionRollback
<1>3. QED
  BY <1>1, <1>2

\* A DELETE takes the row of its own survey, which nobody else deletes, and keeps it.
LEMMA DeletionDelete ==
    ASSUME DeletionInv, NEW r \in Requests, DeleteRow(r) \/ Cascade(r)
    PROVE  Kinds' /\ SurveyRows' /\ Deleting' /\ Retracted' /\ Entitled'
<1>1. PICK rows :
         /\ deleted' = [deleted EXCEPT ![r] = rows]
         /\ CanDelete(r, Keys(rows))
         /\ \/ DeleteRow(r) /\ rows = SurveyRowOf(req[r].survey)
            \/ Cascade(r) /\ rows = Cascaded(db, req[r].survey)
  BY DEF DeleteRow, Cascade, FirstRowsOf
<1>2. /\ UNCHANGED <<db, req, inserted, committed>>
      /\ \A p \in Requests \ {r} : pc'[p] = pc[p] /\ deleted'[p] = deleted[p]
      /\ deleted'[r] = rows
      /\ req[r].op = "delete" /\ r \notin committed
      /\ pc[r] \in {"delete", "cascade"}
      /\ pc'[r] \in {"cascade", "commit"} \/ (pc'[r] = "done" /\ rows = {})
  BY <1>1 DEF DeleteRow, Cascade, Goto, Answer, Affected, FirstRowsOf, DeletionInv, TypeInv, TypeOK, Kinds
<1>3. \A x \in rows : x.table = "surveys" => x \in db /\ x.id = req[r].survey
  <2>1. CASE rows = SurveyRowOf(req[r].survey)
    BY <2>1 DEF SurveyRowOf, Table
  <2>2. CASE rows = Cascaded(db, req[r].survey)
    <3> SUFFICES ASSUME NEW x \in rows, x.table = "surveys"
                 PROVE  x \in db /\ x.id = req[r].survey
      OBVIOUS
    <3>1. Owners(x) = {}
      BY DEF Owners
    <3>2. x \in db /\ Key(x) = <<"surveys", req[r].survey>>
      BY <2>2, <3>1 DEF Cascaded, Dependents
    <3>3. QED
      BY <3>2 DEF Key
  <2>3. QED
    BY <1>1, <2>1, <2>2
<1>4. pc'[r] \in {"cascade", "commit"} => \E x \in rows : x.table = "surveys"
  <2>1. CASE DeleteRow(r)
    <3>1. rows = SurveyRowOf(req[r].survey) /\ (rows # {} \/ pc'[r] = "done")
      BY <2>1, <1>1 DEF DeleteRow, Cascade, Goto, Answer, Affected, FirstRowsOf, DeletionInv, TypeInv, TypeOK
    <3>2. QED
      BY <3>1 DEF SurveyRowOf, Table
  <2>2. CASE Cascade(r)
    <3>1. pc[r] = "cascade" /\ rows = Cascaded(db, req[r].survey)
      BY <2>2, <1>1 DEF DeleteRow, Cascade
    <3>2. PICK x \in deleted[r] : x.table = "surveys" /\ x \in db /\ x.id = req[r].survey
      BY <3>1, <1>2 DEF DeletionInv, Deleting
    <3>3. x \in rows
      BY <3>1, <3>2 DEF Cascaded, Key
    <3>4. QED
      BY <3>2, <3>3
  <2>3. QED
    BY <2>1, <2>2
<1>5. /\ Exclusive(r)' = Keys(rows)
      /\ \A p \in Requests \ {r} : Exclusive(p)' = Exclusive(p) /\ Exclusive(p) \cap Keys(rows) = {}
      /\ \A p \in Requests : SurveyRow(p)' = SurveyRow(p)
  BY <1>1, <1>2 DEF Exclusive, CanDelete, SurveyRow
<1>6. Kinds'
  BY <1>2 DEF DeletionInv, Kinds
<1>7. SurveyRows'
  BY <1>2, <1>5 DEF DeletionInv, TypeInv, TypeOK, SurveyRows
<1>8. Deleting'
  BY <1>2, <1>3, <1>4, <1>5 DEF DeletionInv, Deleting
<1>9. Retracted'
  BY <1>2 DEF DeletionInv, Retracted
<1>10. Entitled'
  BY <1>2 DEF DeletionInv, Entitled
<1>11. QED
  BY <1>6, <1>7, <1>8, <1>9, <1>10

\* A deletion changes no row of the table of surveys but those it takes away.
LEMMA SurveysWithout ==
    ASSUME NEW rows, NEW gone, NEW x, x.table = "surveys"
    PROVE  x \in Without(rows, gone) <=> x \in rows /\ Key(x) \notin Keys(gone)
<1>1. Picks(x) = {}
  BY DEF Picks
<1>2. ASSUME NEW y \in rows, Picks(y) # {} PROVE [y EXCEPT !.choice = NoChoice].table # "surveys"
  BY <1>2 DEF Picks
<1>3. ASSUME x \in Without(rows, gone) PROVE x \in rows /\ Key(x) \notin Keys(gone)
  <2>1. PICK y \in rows : /\ Key(y) \notin Keys(gone)
                          /\ x = IF Picks(y) \cap Keys(gone) # {} THEN [y EXCEPT !.choice = NoChoice] ELSE y
    BY <1>3 DEF Without
  <2>2. Picks(y) \cap Keys(gone) = {}
    BY <2>1, <1>2
  <2>3. QED
    BY <2>1, <2>2
<1>4. ASSUME x \in rows, Key(x) \notin Keys(gone) PROVE x \in Without(rows, gone)
  BY <1>1, <1>4 DEF Without
<1>5. QED
  BY <1>3, <1>4

\* The COMMIT of a creation adds a survey that was never deleted; that of a
\* deletion takes away one that no other took away.
LEMMA DeletionCommit ==
    ASSUME DeletionInv, NEW r \in Requests, Commit(r)
    PROVE  Kinds' /\ SurveyRows' /\ Deleting' /\ Retracted' /\ Entitled'
<1>1. /\ db' = Without(db, deleted[r]) \cup inserted[r]
      /\ committed' = committed \cup {r} /\ req' = req
      /\ inserted'[r] = {} /\ deleted'[r] = {} /\ pc[r] = "commit" /\ pc'[r] = "committed"
      /\ \A p \in Requests \ {r} : /\ inserted'[p] = inserted[p]
                                   /\ deleted'[p] = deleted[p]
                                   /\ pc'[p] = pc[p]
      /\ r \notin committed /\ committed \subseteq Requests
  BY DEF Commit, Rollback, Goto, DeletionInv, TypeInv, TypeOK, Kinds
<1>2. /\ Exclusive(r)' = {}
      /\ \A p \in Requests \ {r} : Exclusive(p)' = Exclusive(p) /\ Exclusive(p) \cap Exclusive(r) = {}
      /\ \A p \in Requests : SurveyRow(p)' = SurveyRow(p)
  BY <1>1 DEF Exclusive, Keys, SurveyRow, DeletionInv, Deleting
<1>3. \A x : x.table = "surveys" =>
         (x \in db' <=> (x \in db /\ Key(x) \notin Exclusive(r)) \/ x \in inserted[r])
  BY <1>1, SurveysWithout DEF Exclusive
<1>4. Kinds'
  BY <1>1 DEF DeletionInv, Kinds
<1>5. SurveyRows'
  <2>1. ASSUME NEW x \in db', x.table = "surveys"
        PROVE  x.id \in committed' /\ req[x.id].op = "create" /\ x = SurveyRow(x.id)
    <3>1. CASE x \in db
      BY <3>1, <2>1, <1>1 DEF DeletionInv, SurveyRows
    <3>2. CASE x \in inserted[r]
      <4>1. x = SurveyRow(r) /\ req[r].op = "create"
        BY <3>2, <2>1 DEF DeletionInv, SurveyRows
      <4>2. x.id = r
        BY <4>1 DEF SurveyRow
      <4>3. QED
        BY <4>1, <4>2, <1>1
    <3>3. QED
      BY <2>1, <3>1, <3>2, <1>3
  <2>2. \A p \in Requests : \A x \in inserted'[p] : x.table = "surveys" =>
            x = SurveyRow(p) /\ req[p].op = "create"
    BY <1>1 DEF DeletionInv, SurveyRows
  <2>3. committed' \subseteq Requests
    BY <1>1
  <2>4. QED
    BY <2>1, <2>2, <2>3, <1>1, <1>2 DEF SurveyRows
<1>6. Deleting'
  <2>1. ASSUME NEW p \in Requests \ {r}, NEW x \in deleted[p], x.table = "surveys"
        PROVE  x \in db' /\ x.id = req[p].survey
    <3>1. x \in db /\ x.id = req[p].survey
      BY <2>1 DEF DeletionInv, Deleting
    <3>2. Key(x) \in Exclusive(p)
      BY DEF Exclusive, Keys
    <3>3. QED
      BY <2>1, <3>1, <3>2, <1>2, <1>3
  <2>2. QED
    BY <2>1, <1>1, <1>2 DEF DeletionInv, Deleting
<1>7. Retracted'
  <2> SUFFICES ASSUME NEW d \in committed', req[d].op = "delete"
               PROVE  /\ req[d].survey \in committed'
                      /\ \A x \in db' : x.table = "surveys" => x.id # req[d].survey
                      /\ \A e \in committed' : req[e].op = "delete" /\ req[e].survey = req[d].survey => e = d
    BY <1>1 DEF Retracted
  <2>1. CASE d = r
    <3>1. PICK y \in deleted[r] : y.table = "surveys" /\ y \in db /\ y.id = req[r].survey
      BY <2>1, <1>1 DEF DeletionInv, Deleting
    <3>2. req[r].survey \in committed /\ Key(y) = <<"surveys", req[r].survey>> /\ Key(y) \in Exclusive(r)
      BY <3>1 DEF DeletionInv, SurveyRows, Key, Exclusive, Keys
    <3>3. ASSUME NEW x \in db', x.table = "surveys" PROVE x.id # req[r].survey
      <4>1. CASE x \in inserted[r]
        BY <4>1, <2>1, <3>3 DEF DeletionInv, SurveyRows
      <4>2. CASE x \in db /\ Key(x) \notin Exclusive(r)
        BY <4>2, <3>2, <3>3 DEF Key
      <4>3. QED
        BY <3>3, <4>1, <4>2, <1>3
    <3>4. \A e \in committed : req[e].op = "delete" => req[e].survey # req[r].survey
      BY <3>1 DEF DeletionInv, Retracted
    <3>5. QED
      BY <2>1, <3>2, <3>3, <3>4, <1>1
  <2>2. CASE d # r
    <3>1. /\ req[d].survey \in committed
          /\ \A x \in db : x.table = "surveys" => x.id # req[d].survey
          /\ \A e \in committed : req[e].op = "delete" /\ req[e].survey = req[d].survey => e = d
      BY <2>2, <1>1 DEF DeletionInv, Retracted
    <3>2. ASSUME NEW x \in db', x.table = "surveys" PROVE x.id # req[d].survey
      <4>1. CASE x \in inserted[r]
        BY <4>1, <3>1, <3>2, <1>1 DEF DeletionInv, SurveyRows, SurveyRow
      <4>2. CASE x \in db
        BY <4>2, <3>1, <3>2
      <4>3. QED
        BY <3>2, <4>1, <4>2, <1>3
    <3>3. req[r].op = "delete" => req[r].survey # req[d].survey
      BY <3>1, <1>1 DEF DeletionInv, Deleting
    <3>4. QED
      BY <2>2, <3>1, <3>2, <3>3, <1>1
  <2>3. QED
    BY <2>1, <2>2
<1>8. Entitled'
  BY <1>1 DEF DeletionInv, Entitled
<1>9. QED
  BY <1>4, <1>5, <1>6, <1>7, <1>8

\* Every step keeps the invariant.
LEMMA DeletionNext == DeletionInv /\ [Next]_vars => DeletionInv'
<1> SUFFICES ASSUME DeletionInv, [Next]_vars
             PROVE  Kinds' /\ SurveyRows' /\ Deleting' /\ Retracted' /\ Entitled'
  BY TypeNext DEF DeletionInv
<1>1. ASSUME NEW r \in Requests, StatementFails(r) \/ Reap(r)
      PROVE  Kinds' /\ SurveyRows' /\ Deleting' /\ Retracted' /\ Entitled'
  <2>1. /\ Rollback(r) /\ UNCHANGED <<db, req, committed>>
        /\ pc'[r] \in {"done", "dead"} /\ \A p \in Requests \ {r} : pc'[p] = pc[p]
    BY <1>1 DEF StatementFails, Reap, Answer, DeletionInv, TypeInv, TypeOK
  <2>2. QED
    BY <2>1, DeletionRollback
<1>2. CASE Crash
  <2>1. UNCHANGED <<db, req, inserted, deleted, committed>> /\ \A p \in Requests : pc'[p] \in {pc[p], "dead"}
    BY <1>2 DEF Crash, tables
  <2>2. QED
    BY <2>1, DeletionIdle
<1>3. CASE UNCHANGED vars
  BY <1>3, DeletionIdle DEF vars
<1>4. QED
  BY <1>1, <1>2, <1>3, DeletionReceive, DeletionRead, DeletionInsert, DeletionDelete, DeletionCommit
     DEF Next, Step, Quiet

\* The invariant holds of every behaviour.
THEOREM DeletionInvariance == Spec => []DeletionInv
BY DeletionInit, DeletionNext, PTL DEF Spec

\* Two deletions of one survey never both succeed, whoever got which answer
\* (db.go:226-250).
THEOREM DeletedOnceHolds == Spec => []DeletedOnce
<1>1. DeletionInv => DeletedOnce
  <2> SUFFICES ASSUME DeletionInv, NEW s \in Requests PROVE Cardinality(Retractions(s)) <= 1
    BY DEF DeletedOnce
  <2>1. \A d, e \in Retractions(s) : d = e
    BY DEF Retractions, DeletionInv, Retracted
  <2>2. CASE Retractions(s) = {}
    BY <2>2, FS_EmptySet
  <2>3. CASE Retractions(s) # {}
    <3>1. PICK d : Retractions(s) = {d}
      BY <2>1, <2>3
    <3>2. QED
      BY <3>1, FS_Singleton
  <2>4. QED
    BY <2>2, <2>3
<1>2. QED
  BY <1>1, DeletionInvariance, PTL

\* A survey goes only when its owner or an admin deletes it, however old the
\* ownership check is by then (handlers.go:104-124, db.go:202-250).
THEOREM OnlyItsOwnerOrAnAdminHolds == Spec => OnlyItsOwnerOrAnAdmin
<1> DEFINE Leaving(x) ==
       x \notin db' => \E r \in committed' \ committed :
                          /\ req[r].op = "delete" /\ req[r].survey = x.id
                          /\ req[r].user = x.owner \/ req[r].user \in Admins
<1>1. DeletionInv /\ [Next]_vars => [\A x \in Table("surveys") : Leaving(x)]_vars
  <2> SUFFICES ASSUME DeletionInv, Next, NEW x \in Table("surveys"), x \notin db'
               PROVE  \E r \in committed' \ committed :
                          /\ req[r].op = "delete" /\ req[r].survey = x.id
                          /\ req[r].user = x.owner \/ req[r].user \in Admins
    OBVIOUS
  <2>1. x \in db /\ x.table = "surveys"
    BY DEF Table
  <2>2. PICK r \in Requests : Commit(r)
    BY <2>1, ZenonT(60) DEF Next, Step, CreateSurvey, CreateSubmission, DeleteSurvey, SurveyExists, ReadQuestions,
                ReadChoices, ValidateSubmission, CheckOwnership, Insert, DeleteRow, Cascade, Reply,
                StatementFails, CommitReplyLost, Reap, Crash, Quiet, tables, vars
  <2>3. Key(x) \in Exclusive(r)
    BY <2>1, <2>2, SurveysWithout DEF Commit, Exclusive
  <2>4. PICK y \in deleted[r] : Key(y) = Key(x)
    BY <2>3 DEF Exclusive, Keys
  <2>5. y.table = "surveys" /\ y.id = x.id
    BY <2>1, <2>4 DEF Key
  <2>6. pc[r] = "commit" /\ req[r].op = "delete" /\ req[r].survey = x.id /\ r \in committed' \ committed
    BY <2>2, <2>5 DEF Commit, DeletionInv, Kinds, Deleting
  <2>7. x.owner = req[x.id].user
    BY <2>1 DEF DeletionInv, SurveyRows, SurveyRow
  <2>8. req[r].user = x.owner \/ req[r].user \in Admins
    BY <2>6, <2>7 DEF DeletionInv, Entitled
  <2>9. QED
    BY <2>6, <2>8
<1>2. QED
  BY <1>1, DeletionInvariance, PTL DEF Spec, OnlyItsOwnerOrAnAdmin

--------------------------------------------------------------------------------
\* Row locks.

\* The survey a request writes to, and the survey and the request that a key belongs to.
HomeOf(r) == IF req[r].op = "create" THEN r ELSE req[r].survey
Writer(k) == IF k[1] \in {"surveys", "submissions"} THEN k[2] ELSE k[2][1]
Home(k)   == IF k[1] \in {"submissions", "answers"} THEN HomeOf(Writer(k)) ELSE Writer(k)

AtHome(x) ==
    \A k \in References(x) :
        /\ Home(k) = Home(Key(x))
        /\ k[1] = "submissions" => Writer(k) = Writer(Key(x))

Homes ==
    /\ \A x \in db : AtHome(x) /\ Writer(Key(x)) \in committed
    /\ \A r \in Requests : \A x \in inserted[r] :
          AtHome(x) /\ Writer(Key(x)) = r /\ Home(Key(x)) = HomeOf(r)
    /\ \A r \in Requests : \A x \in deleted[r] :
          Writer(Key(x)) \in committed /\ Home(Key(x)) = req[r].survey

\* A transaction holds the row of the survey, or a lock on it, before anything below it.
FromTheTop ==
    \A r \in Requests :
        /\ r \in committed => inserted[r] = {} /\ deleted[r] = {}
        /\ deleted[r] # {} => \E x \in deleted[r] : x.table = "surveys"
        /\ inserted[r] # {} => req[r].op \in {"create", "submit"}
        /\ inserted[r] # {} /\ req[r].op = "submit" => SubmissionRow(r) \in inserted[r]
        /\ pc[r] = "insert" /\ req[r].op = "submit" /\ at[r][1] # 0 => SubmissionRow(r) \in inserted[r]

\* What was read for a submission is of its survey, and so is what it answers.
Checked ==
    \A r \in Requests :
        /\ DOMAIN seen[r] = {"questions", "unread", "choices"}
        /\ pc[r] = "choices" =>
              /\ \A q \in seen[r].questions : q.id[1] = req[r].survey
              /\ \A c \in seen[r].choices : c.id[1] = c.question[1]
        /\ pc[r] = "insert" /\ req[r].op = "submit" =>
              \A k \in DOMAIN req[r].answers :
                 LET a == req[r].answers[k]
                 IN  /\ a.question[1] = req[r].survey
                     /\ a.choice # NoChoice => a.choice[1] = req[r].survey

HomeInv  == Homes /\ FromTheTop /\ Checked
LocksInv == DeletionInv /\ LockInv /\ HomeInv

--------------------------------------------------------------------------------

\* What a question, a choice, an answer or a submission refers to.
LEMMA ReferencedTables ==
    ASSUME NEW x
    PROVE  /\ \A k \in References(x) : k[1] \in {"surveys", "questions", "submissions", "choices"}
           /\ x.table = "questions" => <<"surveys", x.survey>> \in References(x)
           /\ x.table = "choices" => <<"questions", x.question>> \in References(x)
BY DEF References, Owners, Picks

\* A row's home stays while the request that wrote it does.
LEMMA HomeStays ==
    ASSUME NEW k, req'[Writer(k)] = req[Writer(k)]
    PROVE  Home(k)' = Home(k)
BY DEF Home, HomeOf, Writer

\* So does what it says about its references.
LEMMA AtHomeStays ==
    ASSUME NEW x, AtHome(x), req'[Writer(Key(x))] = req[Writer(Key(x))]
    PROVE  AtHome(x)' /\ Home(Key(x))' = Home(Key(x))
<1> SUFFICES ASSUME NEW k \in References(x)
             PROVE  Home(k)' = Home(k)
  BY HomeStays DEF AtHome
<1>1. CASE k[1] = "submissions"
  BY <1>1, HomeStays DEF AtHome
<1>2. CASE k[1] # "submissions"
  BY <1>2, ReferencedTables DEF Home, Writer
<1>3. QED
  BY <1>1, <1>2

\* A question names the survey it is at home in, a choice the question.
LEMMA QuestionsAndChoices ==
    ASSUME NEW x, AtHome(x)
    PROVE  /\ x.table = "questions" => x.id[1] = x.survey
           /\ x.table = "choices" => x.id[1] = x.question[1]
<1>1. CASE x.table = "questions"
  <2>1. Home(<<"surveys", x.survey>>) = Home(<<"questions", x.id>>)
    BY <1>1, ReferencedTables DEF AtHome, Key
  <2>2. Home(<<"surveys", x.survey>>) = x.survey /\ Home(<<"questions", x.id>>) = x.id[1]
    BY DEF Home, Writer
  <2>3. QED
    BY <1>1, <2>1, <2>2
<1>2. CASE x.table = "choices"
  <2>1. Home(<<"questions", x.question>>) = Home(<<"choices", x.id>>)
    BY <1>2, ReferencedTables DEF AtHome, Key
  <2>2. Home(<<"questions", x.question>>) = x.question[1] /\ Home(<<"choices", x.id>>) = x.id[1]
    BY DEF Home, Writer
  <2>3. QED
    BY <1>2, <2>1, <2>2
<1>3. QED
  BY <1>1, <1>2

\* The rows that a request writes are of its home.
LEMMA RowIsAtHome ==
    ASSUME LocksInv, NEW r \in Requests, pc[r] = "insert"
    PROVE  LET x == RowAt(r)
           IN  AtHome(x) /\ Writer(Key(x)) = r /\ Home(Key(x)) = HomeOf(r)
<1> DEFINE i == at[r][1]
           j == at[r][2]
<1>1. /\ i \in Nat /\ j \in Nat /\ i <= Length(req[r])
      /\ req[r] \in CreateInputs \cup SubmitInputs
  BY DEF LocksInv, DeletionInv, TypeInv, TypeOK, Stages
<1>2. CASE req[r].op = "create" /\ i = 0
  <2>1. RowAt(r) = SurveyRow(r)
    BY <1>2 DEF RowAt
  <2>2. QED
    BY <2>1, <1>2 DEF SurveyRow, AtHome, References, Owners, Picks, Key, Writer, Home, HomeOf
<1>3. CASE req[r].op = "create" /\ i # 0 /\ j = 0
  <2>1. RowAt(r) = QuestionRow(r, i)
    BY <1>3 DEF RowAt
  <2>2. QED
    BY <2>1, <1>3 DEF QuestionRow, AtHome, References, Owners, Picks, Key, Writer, Home, HomeOf
<1>4. CASE req[r].op = "create" /\ i # 0 /\ j # 0
  <2>1. RowAt(r) = ChoiceRow(r, i, j)
    BY <1>4 DEF RowAt
  <2>2. QED
    BY <2>1, <1>4 DEF ChoiceRow, AtHome, References, Owners, Picks, Key, Writer, Home, HomeOf
<1>5. CASE req[r].op # "create" /\ i = 0
  <2>1. RowAt(r) = SubmissionRow(r)
    BY <1>5 DEF RowAt
  <2>2. QED
    BY <2>1, <1>5 DEF SubmissionRow, AtHome, References, Owners, Picks, Key, Writer, Home, HomeOf
<1>6. CASE req[r].op # "create" /\ i # 0
  <2>1. RowAt(r) = AnswerRow(r, i)
    BY <1>6 DEF RowAt
  <2>2. req[r].op = "submit" /\ req[r].answers \in Bodies /\ i \in 1..Len(req[r].answers)
    BY <1>1, <1>6 DEF CreateInputs, SubmitInputs, Length
  <2>3. i \in DOMAIN req[r].answers
    BY <2>2 DEF Bodies
  <2> DEFINE a == req[r].answers[i]
  <2>4. a.question[1] = req[r].survey /\ (a.choice # NoChoice => a.choice[1] = req[r].survey)
    BY <2>2, <2>3 DEF LocksInv, HomeInv, Checked
  <2>5. RowAt(r) = [table |-> "answers", id |-> <<r, i>>, submission |-> r, question |-> a.question,
                    choice |-> a.choice, text |-> a.text]
    BY <2>1 DEF AnswerRow
  <2> HIDE DEF a
  <2> DEFINE x == RowAt(r)
  <2>6. References(x) \subseteq {<<"submissions", r>>, <<"questions", a.question>>}
                                \cup (IF a.choice # NoChoice THEN {<<"choices", a.choice>>} ELSE {})
    BY <2>5 DEF References, Owners, Picks
  <2>7. Writer(Key(x)) = r /\ Home(Key(x)) = req[r].survey /\ HomeOf(r) = req[r].survey
    BY <2>5, <1>6 DEF Key, Writer, Home, HomeOf
  <2> HIDE DEF x
  <2>8. AtHome(x)
    BY <2>4, <2>6, <2>7 DEF AtHome, Writer, Home
  <2>9. QED
    BY <2>7, <2>8 DEF x
<1>7. QED
  BY <1>1, <1>2, <1>3, <1>4, <1>5, <1>6

\* The rows that a cascade takes are of the survey it starts from.
LEMMA CascadeIsAtHome ==
    ASSUME Homes, NEW s, NEW x \in Cascaded(db, s)
    PROVE  x \in db /\ Home(Key(x)) = s
<1> DEFINE first == Dependents(db, {<<"surveys", s>>})
<1>1. \A y \in db : Key(y) = <<"surveys", s>> => Home(Key(y)) = s
  BY DEF Home, Writer
<1>2. \A y \in first : y \in db /\ Home(Key(y)) = s
  BY DEF Dependents, Homes, AtHome, References, Home, Writer
<1>3. \A y \in Dependents(db, Keys(first)) : y \in db /\ Home(Key(y)) = s
  <2> SUFFICES ASSUME NEW y \in db, NEW z \in first, Key(z) \in Owners(y) PROVE Home(Key(y)) = s
    BY DEF Dependents, Keys
  <2>1. QED
    BY <1>2 DEF Homes, AtHome, References
<1>4. QED
  BY <1>1, <1>2, <1>3 DEF Cascaded

--------------------------------------------------------------------------------

\* At first nothing is there.
LEMMA HomeInit == Init => HomeInv
<1> SUFFICES ASSUME Init PROVE HomeInv
  OBVIOUS
<1>1. Homes /\ FromTheTop
  BY DEF Init, Homes, FromTheTop
<1>2. Checked
  BY DEF Init, Checked, NothingRead
<1>3. QED
  BY <1>1, <1>2 DEF HomeInv

\* A request that is received has written nothing.
LEMMA HomeReceive ==
    ASSUME LocksInv, NEW r \in Requests,
           CreateSurvey(r) \/ CreateSubmission(r) \/ DeleteSurvey(r)
    PROVE  HomeInv'
<1>1. /\ pc[r] = "idle" /\ UNCHANGED tables
      /\ \E in \in Inputs[r] :
            /\ req' = [req EXCEPT ![r] = in]
            /\ \/ in.op = "create" /\ pc'[r] \in {"insert", "done"}
               \/ in.op # "create" /\ pc'[r] \in {"exists", "owner", "delete"}
      /\ \A q \in Requests \ {r} : pc'[q] = pc[q]
  BY DEF CreateSurvey, CreateSubmission, DeleteSurvey, Goto, Answer, LocksInv, DeletionInv, TypeInv, TypeOK
<1>2. /\ r \notin committed /\ inserted[r] = {} /\ deleted[r] = {}
      /\ committed \subseteq Requests
      /\ \A q \in Requests \ {r} : req'[q] = req[q]
  BY <1>1 DEF LocksInv, DeletionInv, TypeInv, TypeOK, Kinds
<1>3. UNCHANGED <<db, seen, at, inserted, deleted, committed>>
  BY <1>1 DEF tables
<1>4. \A q \in Requests \ {r} : HomeOf(q)' = HomeOf(q) /\ SubmissionRow(q)' = SubmissionRow(q)
  BY <1>2 DEF HomeOf, SubmissionRow
<1>5. pc'[r] # "choices" /\ (pc'[r] = "insert" => req'[r].op = "create")
  BY <1>1 DEF LocksInv, DeletionInv, TypeInv, TypeOK
<1>6. Homes'
  <2>1. \A x \in db : AtHome(x)' /\ Writer(Key(x)) \in committed
    BY <1>2, AtHomeStays DEF LocksInv, HomeInv, Homes
  <2>2. \A q \in Requests \ {r} : \A x \in inserted[q] :
            AtHome(x)' /\ Writer(Key(x)) = q /\ Home(Key(x))' = HomeOf(q)'
    BY <1>2, <1>4, AtHomeStays DEF LocksInv, HomeInv, Homes
  <2>3. \A q \in Requests \ {r} : \A x \in deleted[q] :
            Writer(Key(x)) \in committed /\ Home(Key(x))' = req'[q].survey
    BY <1>2, HomeStays DEF LocksInv, HomeInv, Homes
  <2>4. QED
    BY <1>2, <1>3, <2>1, <2>2, <2>3 DEF Homes
<1>7. FromTheTop'
  BY <1>1, <1>2, <1>3, <1>4, <1>5 DEF LocksInv, HomeInv, FromTheTop
<1>8. Checked'
  <2> SUFFICES ASSUME NEW q \in Requests
               PROVE  /\ DOMAIN seen'[q] = {"questions", "unread", "choices"}
                      /\ pc'[q] = "choices" =>
                            /\ \A x \in seen'[q].questions : x.id[1] = req'[q].survey
                            /\ \A c \in seen'[q].choices : c.id[1] = c.question[1]
                      /\ pc'[q] = "insert" /\ req'[q].op = "submit" =>
                            \A k \in DOMAIN req'[q].answers :
                               LET a == req'[q].answers[k]
                               IN  /\ a.question[1] = req'[q].survey
                                   /\ a.choice # NoChoice => a.choice[1] = req'[q].survey
    BY DEF Checked
  <2>1. CASE q = r
    BY <2>1, <1>3, <1>5 DEF LocksInv, HomeInv, Checked
  <2>2. CASE q # r
    BY <2>2, <1>1, <1>2, <1>3 DEF LocksInv, HomeInv, Checked
  <2>3. QED
    BY <2>1, <2>2
<1>9. QED
  BY <1>6, <1>7, <1>8 DEF HomeInv

\* As long as no row and no request changes, every row is at home.
LEMMA HomesStay ==
    ASSUME Homes, req' = req, db' = db, committed' = committed,
           \A r \in Requests : inserted'[r] \subseteq inserted[r] /\ deleted'[r] \subseteq deleted[r]
    PROVE  Homes'
<1>1. /\ \A x : AtHome(x) => AtHome(x)'
      /\ \A k : Home(k)' = Home(k)
      /\ \A r : HomeOf(r)' = HomeOf(r)
  BY AtHomeStays, HomeStays DEF HomeOf
<1>2. QED
  BY <1>1 DEF Homes

\* The reads of a submission see questions and choices of its survey, and then it
\* answers no other.
LEMMA HomeRead ==
    ASSUME LocksInv, NEW r \in Requests,
           \/ SurveyExists(r) \/ ReadQuestions(r) \/ ReadChoices(r) \/ ValidateSubmission(r)
           \/ CheckOwnership(r) \/ Reply(r) \/ CommitReplyLost(r)
    PROVE  HomeInv'
<1>1. /\ UNCHANGED <<db, req, at, inserted, deleted, committed>>
      /\ \A p \in Requests \ {r} : pc'[p] = pc[p]
  BY DEF SurveyExists, ReadQuestions, ReadChoices, ValidateSubmission, CheckOwnership, Reply, CommitReplyLost,
         Goto, Answer, tables, LocksInv, DeletionInv, TypeInv, TypeOK
<1>2. Homes'
  BY <1>1, HomesStay DEF LocksInv, HomeInv
<1>3. pc'[r] = "insert" => pc[r] = "choices" /\ at[r] = <<0, 0>>
  BY DEF SurveyExists, ReadQuestions, ReadChoices, ValidateSubmission, CheckOwnership, Reply, CommitReplyLost,
         Goto, Answer, LocksInv, DeletionInv, TypeInv, TypeOK, Stages
<1>4. FromTheTop'
  BY <1>1, <1>3 DEF LocksInv, HomeInv, FromTheTop, SubmissionRow
<1>5. \A q \in db : q.table = "questions" => q.id[1] = q.survey
  BY QuestionsAndChoices DEF LocksInv, HomeInv, Homes
<1>6. \A c \in db : c.table = "choices" => c.id[1] = c.question[1]
  BY QuestionsAndChoices DEF LocksInv, HomeInv, Homes
<1>7. /\ \A p \in Requests \ {r} : seen'[p] = seen[p]
      /\ DOMAIN seen'[r] = {"questions", "unread", "choices"}
  <2>1. CASE ReadQuestions(r)
    BY <2>1 DEF ReadQuestions, LocksInv, DeletionInv, TypeInv, TypeOK
  <2>2. CASE ReadChoices(r)
    <3>1. PICK q \in seen[r].unread :
             seen' = [seen EXCEPT ![r].unread = @ \ {q},
                                  ![r].choices = @ \cup {c \in Table("choices") : c.question = q}]
      BY <2>2 DEF ReadChoices
    <3>2. QED
      BY <3>1 DEF LocksInv, DeletionInv, TypeInv, TypeOK, HomeInv, Checked
  <2>3. CASE ~(ReadQuestions(r) \/ ReadChoices(r))
    <3>1. UNCHANGED seen
      BY <2>3 DEF SurveyExists, ValidateSubmission, CheckOwnership, Reply, CommitReplyLost, tables
    <3>2. QED
      BY <3>1 DEF LocksInv, HomeInv, Checked
  <2>4. QED
    BY <2>1, <2>2, <2>3
<1>8. pc'[r] = "choices" =>
         /\ \A q \in seen'[r].questions : q.id[1] = req[r].survey
         /\ \A c \in seen'[r].choices : c.id[1] = c.question[1]
  <2> SUFFICES ASSUME pc'[r] = "choices"
               PROVE  /\ \A q \in seen'[r].questions : q.id[1] = req[r].survey
                      /\ \A c \in seen'[r].choices : c.id[1] = c.question[1]
    OBVIOUS
  <2>1. ReadQuestions(r) \/ ReadChoices(r)
    BY DEF SurveyExists, ValidateSubmission, CheckOwnership, Reply, CommitReplyLost,
           Goto, Answer, LocksInv, DeletionInv, TypeInv, TypeOK
  <2>2. CASE ReadQuestions(r)
    <3> DEFINE qs == SurveyQuestions(req[r].survey)
    <3>1. seen'[r] = [questions |-> qs, unread |-> {q.id : q \in qs}, choices |-> {}]
      BY <2>2 DEF ReadQuestions, LocksInv, DeletionInv, TypeInv, TypeOK
    <3>2. \A q \in qs : q.id[1] = req[r].survey
      BY <1>5 DEF SurveyQuestions, Table
    <3> HIDE DEF qs
    <3>3. QED
      BY <3>1, <3>2
  <2>3. CASE ReadChoices(r)
    <3>1. pc[r] = "choices"
      BY <2>3 DEF ReadChoices
    <3>2. PICK q \in seen[r].unread :
             seen' = [seen EXCEPT ![r].unread = @ \ {q},
                                  ![r].choices = @ \cup {c \in Table("choices") : c.question = q}]
      BY <2>3 DEF ReadChoices
    <3>3. /\ seen'[r].questions = seen[r].questions
          /\ seen'[r].choices = seen[r].choices \cup {c \in Table("choices") : c.question = q}
      <4>1. DOMAIN seen = Requests /\ DOMAIN seen[r] = {"questions", "unread", "choices"}
        BY DEF LocksInv, DeletionInv, TypeInv, TypeOK, HomeInv, Checked
      <4> DEFINE more == {c \in Table("choices") : c.question = q}
      <4> HIDE DEF more
      <4>2. seen'[r] = [[seen[r] EXCEPT !.unread = @ \ {q}] EXCEPT !.choices = @ \cup more]
        BY <3>2, <4>1 DEF more
      <4>3. QED
        BY <4>1, <4>2 DEF more
    <3>4. QED
      BY <3>1, <3>3, <1>6 DEF LocksInv, HomeInv, Checked, Table
  <2>4. QED
    BY <2>1, <2>2, <2>3
<1>9. pc'[r] = "insert" =>
         \A k \in DOMAIN req[r].answers :
            LET a == req[r].answers[k]
            IN  /\ a.question[1] = req[r].survey
                /\ a.choice # NoChoice => a.choice[1] = req[r].survey
  <2> SUFFICES ASSUME pc'[r] = "insert", NEW k \in DOMAIN req[r].answers
               PROVE  /\ req[r].answers[k].question[1] = req[r].survey
                      /\ req[r].answers[k].choice # NoChoice => req[r].answers[k].choice[1] = req[r].survey
    OBVIOUS
  <2>1. pc[r] = "choices" /\ ValidateSubmissionRequest(req[r].answers, seen[r])
    BY <1>3 DEF SurveyExists, ReadQuestions, ReadChoices, ValidateSubmission, CheckOwnership, Reply, CommitReplyLost,
                Goto, Answer, LocksInv, DeletionInv, TypeInv, TypeOK
  <2>2. /\ \A q \in seen[r].questions : q.id[1] = req[r].survey
        /\ \A c \in seen[r].choices : c.id[1] = c.question[1]
    BY <2>1 DEF LocksInv, HomeInv, Checked
  <2>3. PICK q \in seen[r].questions :
           /\ q.id = req[r].answers[k].question
           /\ \/ \E c \in seen[r].choices : c.id = req[r].answers[k].choice /\ c.question = q.id
              \/ req[r].answers[k].choice = NoChoice
    BY <2>1 DEF ValidateSubmissionRequest
  <2>4. QED
    BY <2>2, <2>3
<1>10. Checked'
  BY <1>1, <1>7, <1>8, <1>9 DEF LocksInv, HomeInv, Checked
<1>11. QED
  BY <1>2, <1>4, <1>10 DEF HomeInv

\* A transaction that is rolled back has nothing written.
LEMMA HomeRollback ==
    ASSUME LocksInv, NEW r \in Requests, Rollback(r), UNCHANGED <<db, req, seen, committed>>,
           pc'[r] \in {"done", "dead"},
           \A p \in Requests \ {r} : pc'[p] = pc[p] /\ at'[p] = at[p]
    PROVE  HomeInv'
<1>1. /\ inserted'[r] = {} /\ deleted'[r] = {}
      /\ \A p \in Requests \ {r} : inserted'[p] = inserted[p] /\ deleted'[p] = deleted[p]
  BY DEF Rollback, LocksInv, DeletionInv, TypeInv, TypeOK
<1>2. Homes'
  BY <1>1, HomesStay DEF LocksInv, HomeInv
<1>3. FromTheTop'
  BY <1>1 DEF LocksInv, HomeInv, FromTheTop, SubmissionRow
<1>4. Checked'
  BY DEF LocksInv, HomeInv, Checked
<1>5. QED
  BY <1>2, <1>3, <1>4 DEF HomeInv

\* An INSERT writes a row at home, a submission's own row first.
LEMMA HomeInsert ==
    ASSUME LocksInv, NEW r \in Requests, Insert(r)
    PROVE  HomeInv'
<1> DEFINE x == RowAt(r)
<1>1. CASE References(x) \subseteq Keys(db \cup inserted[r])
  <2>1. /\ inserted'[r] = inserted[r] \cup {x}
        /\ \A p \in Requests \ {r} : inserted'[p] = inserted[p] /\ pc'[p] = pc[p] /\ at'[p] = at[p]
        /\ UNCHANGED <<db, req, seen, deleted, committed>>
        /\ pc[r] = "insert" /\ pc'[r] \in {"insert", "commit"} /\ r \notin committed
    BY <1>1 DEF Insert, Goto, LocksInv, DeletionInv, TypeInv, TypeOK, Kinds
  <2>2. AtHome(x) /\ Writer(Key(x)) = r /\ Home(Key(x)) = HomeOf(r)
    BY <2>1, RowIsAtHome
  <2>3. req[r].op \in {"create", "submit"}
    BY <2>1 DEF LocksInv, DeletionInv, TypeInv, Stages, CreateInputs, SubmitInputs
  <2>4. req[r].op = "submit" => SubmissionRow(r) \in inserted'[r]
    <3>1. CASE at[r][1] = 0
      BY <3>1, <2>1 DEF RowAt
    <3>2. CASE at[r][1] # 0
      BY <3>2, <2>1 DEF LocksInv, HomeInv, FromTheTop
    <3>3. QED
      BY <3>1, <3>2
  <2> HIDE DEF x
  <2>5. /\ \A y : AtHome(y) => AtHome(y)'
        /\ \A k : Home(k)' = Home(k)
        /\ \A p : HomeOf(p)' = HomeOf(p)
    BY <2>1, AtHomeStays, HomeStays DEF HomeOf
  <2>6. Homes'
    BY <2>1, <2>2, <2>5 DEF LocksInv, HomeInv, Homes
  <2>7. FromTheTop'
    BY <2>1, <2>3, <2>4 DEF LocksInv, HomeInv, FromTheTop, SubmissionRow
  <2>8. Checked'
    BY <2>1 DEF LocksInv, HomeInv, Checked
  <2>9. QED
    BY <2>6, <2>7, <2>8 DEF HomeInv
<1>2. CASE ~(References(x) \subseteq Keys(db \cup inserted[r]))
  <2>1. /\ Rollback(r) /\ UNCHANGED <<db, req, seen, committed, at>>
        /\ pc'[r] = "done" /\ \A p \in Requests \ {r} : pc'[p] = pc[p]
    BY <1>2 DEF Insert, Answer, LocksInv, DeletionInv, TypeInv, TypeOK
  <2>2. QED
    BY <2>1, HomeRollback
<1>3. QED
  BY <1>1, <1>2

\* A DELETE takes rows of its survey, the survey's row first.
LEMMA HomeDelete ==
    ASSUME LocksInv, NEW r \in Requests, DeleteRow(r) \/ Cascade(r), Deleting', Kinds'
    PROVE  HomeInv'
<1>1. PICK rows :
         /\ deleted' = [deleted EXCEPT ![r] = rows]
         /\ \/ DeleteRow(r) /\ rows = SurveyRowOf(req[r].survey)
            \/ Cascade(r) /\ rows = Cascaded(db, req[r].survey)
  BY DEF DeleteRow, Cascade, FirstRowsOf
<1>2. /\ UNCHANGED <<db, req, seen, at, inserted, committed>>
      /\ \A p \in Requests \ {r} : pc'[p] = pc[p] /\ deleted'[p] = deleted[p]
      /\ deleted'[r] = rows
      /\ pc'[r] \in {"cascade", "commit", "done"}
      /\ Cascade(r) => pc'[r] = "commit"
      /\ req[r].op = "delete" /\ r \notin committed
  BY <1>1 DEF DeleteRow, Cascade, Goto, Answer, LocksInv, DeletionInv, TypeInv, TypeOK, Kinds
<1>3. \A x \in rows : Writer(Key(x)) \in committed /\ Home(Key(x)) = req[r].survey
  <2>1. CASE rows = SurveyRowOf(req[r].survey)
    BY <2>1 DEF SurveyRowOf, Table, LocksInv, HomeInv, Homes, Home, Writer, Key
  <2>2. CASE rows = Cascaded(db, req[r].survey)
    BY <2>2, CascadeIsAtHome DEF LocksInv, HomeInv, Homes
  <2>3. QED
    BY <1>1, <2>1, <2>2
<1>4. rows # {} => \E x \in rows : x.table = "surveys"
  <2>1. CASE DeleteRow(r) /\ rows = SurveyRowOf(req[r].survey)
    BY <2>1 DEF SurveyRowOf, Table
  <2>2. CASE Cascade(r)
    BY <2>2, <1>2 DEF Deleting
  <2>3. QED
    BY <1>1, <2>1, <2>2
<1>5. /\ \A y : AtHome(y) => AtHome(y)'
      /\ \A k : Home(k)' = Home(k)
      /\ \A p : HomeOf(p)' = HomeOf(p)
  BY <1>2, AtHomeStays, HomeStays DEF HomeOf
<1>6. Homes'
  BY <1>2, <1>3, <1>5 DEF LocksInv, HomeInv, Homes
<1>7. FromTheTop'
  BY <1>2, <1>4 DEF LocksInv, HomeInv, FromTheTop, SubmissionRow
<1>8. Checked'
  BY <1>2 DEF LocksInv, HomeInv, Checked
<1>9. QED
  BY <1>6, <1>7, <1>8 DEF HomeInv

\* What a COMMIT leaves and what it adds is at home.
LEMMA HomeCommit ==
    ASSUME LocksInv, NEW r \in Requests, Commit(r)
    PROVE  HomeInv'
<1> DEFINE left == Without(db, deleted[r])
<1>1. /\ db' = left \cup inserted[r]
      /\ committed' = committed \cup {r} /\ req' = req /\ UNCHANGED <<seen, at>>
      /\ inserted'[r] = {} /\ deleted'[r] = {} /\ pc'[r] = "committed"
      /\ \A p \in Requests \ {r} : /\ inserted'[p] = inserted[p]
                                   /\ deleted'[p] = deleted[p]
                                   /\ pc'[p] = pc[p]
      /\ db \in SUBSET RowType /\ deleted[r] \in SUBSET RowType
  BY DEF Commit, Rollback, Goto, LocksInv, DeletionInv, TypeInv, TypeOK
<1>2. \A y \in left : \E x \in db : Key(x) = Key(y) /\ References(y) \subseteq References(x)
  <2>1. \A y \in Without(db, deleted[r]) :
          \E x \in db : /\ Key(x) = Key(y)
                       /\ Key(x) \notin Keys(deleted[r])
                       /\ Owners(y) = Owners(x)
                       /\ Picks(y) \subseteq Picks(x) \ Keys(deleted[r])
    <3>1. db \in SUBSET RowType /\ deleted[r] \in SUBSET RowType
      BY <1>1
    <3>2. QED
      BY <3>1, WithoutRows
  <2>2. \A y \in Without(db, deleted[r]) :
          \E x \in db : Key(x) = Key(y) /\ References(y) \subseteq References(x)
    BY <2>1 DEF References
  <2>3. QED
    BY ONLY <2>2
<1> HIDE DEF left
<1>3. \A y \in left : AtHome(y) /\ Writer(Key(y)) \in committed
  BY <1>2 DEF LocksInv, HomeInv, Homes, AtHome
<1>4. /\ \A y : AtHome(y) => AtHome(y)'
      /\ \A k : Home(k)' = Home(k)
      /\ \A p : HomeOf(p)' = HomeOf(p)
  BY <1>1, AtHomeStays, HomeStays DEF HomeOf
<1>5. Homes'
  BY <1>1, <1>3, <1>4 DEF LocksInv, HomeInv, Homes
<1>6. FromTheTop'
  BY <1>1 DEF LocksInv, HomeInv, FromTheTop, SubmissionRow
<1>7. Checked'
  BY <1>1 DEF LocksInv, HomeInv, Checked
<1>8. QED
  BY <1>5, <1>6, <1>7 DEF HomeInv

\* Every step keeps the invariant.
LEMMA LocksNext == LocksInv /\ [Next]_vars => LocksInv'
<1> SUFFICES ASSUME LocksInv, [Next]_vars PROVE LocksInv'
  OBVIOUS
<1>1. DeletionInv' /\ LockInv'
  BY DeletionNext, LockNext DEF LocksInv, DeletionInv, TypeInv
<1>2. HomeInv'
  <2>1. ASSUME NEW r \in Requests, StatementFails(r) \/ Reap(r) PROVE HomeInv'
    <3>1. /\ Rollback(r) /\ UNCHANGED <<db, req, seen, at, committed>>
          /\ pc'[r] \in {"done", "dead"} /\ \A p \in Requests \ {r} : pc'[p] = pc[p]
      BY <2>1 DEF StatementFails, Reap, Answer, LocksInv, DeletionInv, TypeInv, TypeOK
    <3>2. QED
      BY <3>1, HomeRollback
  <2>2. CASE Crash \/ UNCHANGED vars
    <3>1. /\ UNCHANGED <<db, req, seen, at, inserted, deleted, committed>>
          /\ \A p \in Requests : pc'[p] \in {pc[p], "dead"}
      BY <2>2 DEF Crash, tables, vars, LocksInv, DeletionInv, TypeInv, TypeOK
    <3>2. Homes'
      BY <3>1, HomesStay DEF LocksInv, HomeInv
    <3>3. FromTheTop' /\ Checked'
      BY <3>1 DEF LocksInv, HomeInv, FromTheTop, Checked, SubmissionRow
    <3>4. QED
      BY <3>2, <3>3 DEF HomeInv
  <2>3. QED
    BY <1>1, <2>1, <2>2, HomeReceive, HomeRead, HomeInsert, HomeDelete, HomeCommit
       DEF Next, Step, Quiet, DeletionInv
<1>3. QED
  BY <1>1, <1>2 DEF LocksInv

\* The invariant holds of every behaviour.
THEOREM LocksInvariance == Spec => []LocksInv
<1>1. Init => LocksInv
  BY DeletionInit, LockInit, HomeInit DEF LocksInv
<1>2. QED
  BY <1>1, LocksNext, PTL DEF Spec

--------------------------------------------------------------------------------

\* A cascade that has the survey's row finds nothing below it locked.
LEMMA CascadeAlone == LocksInv => CascadeNeverWaits
<1> SUFFICES ASSUME LocksInv, NEW r \in Requests, pc[r] = "cascade", NEW p \in Requests \ {r},
                    NEW k \in Keys(Cascaded(db, req[r].survey)), k \in Shared(p) \cup Exclusive(p)
             PROVE  FALSE
  BY DEF CascadeNeverWaits, CanDelete
<1> DEFINE s == req[r].survey
<1>1. Home(k) = s
  BY CascadeIsAtHome DEF LocksInv, HomeInv, Keys
<1>2. PICK top \in deleted[r] : top.table = "surveys" /\ top.id = s /\ top \in db
  BY DEF LocksInv, DeletionInv, Kinds, Deleting
<1>3. <<"surveys", s>> \in Exclusive(r) /\ s \in committed /\ req[s].op = "create"
  BY <1>2 DEF Exclusive, Keys, Key, LocksInv, DeletionInv, SurveyRows
<1>4. CASE k \in Shared(p)
  <2>1. PICK x \in inserted[p] : k \in References(x)
    BY <1>4 DEF Shared
  <2>2. HomeOf(p) = s
    BY <2>1, <1>1 DEF LocksInv, HomeInv, Homes, AtHome
  <2>3. p \notin committed
    BY <2>1 DEF LocksInv, HomeInv, FromTheTop
  <2>4. req[p].op = "submit"
    BY <2>1, <2>2, <2>3, <1>3 DEF LocksInv, HomeInv, FromTheTop, HomeOf
  <2>5. SubmissionRow(p) \in inserted[p]
    BY <2>1, <2>4 DEF LocksInv, HomeInv, FromTheTop
  <2>6. <<"surveys", s>> \in References(SubmissionRow(p))
    BY <2>2, <2>4 DEF SubmissionRow, References, Owners, HomeOf
  <2>7. <<"surveys", s>> \in Shared(p)
    BY <2>5, <2>6 DEF Shared
  <2>8. Shared(p) \cap Exclusive(r) = {}
    BY DEF LocksInv, LockInv, LockSafety
  <2>9. QED
    BY <2>7, <2>8, <1>3
<1>5. CASE k \in Exclusive(p)
  <2>1. PICK x \in deleted[p] : k = Key(x)
    BY <1>5 DEF Exclusive, Keys
  <2>2. req[p].survey = s
    BY <2>1, <1>1 DEF LocksInv, HomeInv, Homes
  <2>3. PICK y \in deleted[p] : y.table = "surveys"
    BY <2>1 DEF LocksInv, HomeInv, FromTheTop
  <2>4. <<"surveys", s>> \in Exclusive(p)
    BY <2>2, <2>3 DEF LocksInv, DeletionInv, Deleting, Exclusive, Keys, Key
  <2>5. QED
    BY <2>4, <1>3 DEF LocksInv, DeletionInv, Deleting
<1>6. QED
  BY <1>4, <1>5

\* The DELETE of a survey waits for nobody once it has the survey's row
\* (db.go:237, db.go:472).
THEOREM CascadeNeverWaitsHolds == Spec => []CascadeNeverWaits
BY LocksInvariance, CascadeAlone, PTL

\* No set of transactions waits for each other: who waits at the survey's row holds
\* nothing, who waits with an INSERT waits for a deletion, and that waits for nobody
\* (db.go:456-493, db.go:226-250).
THEOREM NoDeadlockHolds == Spec => []NoDeadlock
<1>1. LocksInv => NoDeadlock
  <2> SUFFICES ASSUME LocksInv, NEW S \in SUBSET Requests, S # {}
               PROVE  \E r \in S : WaitsFor(r) \cap S = {}
    BY DEF NoDeadlock
  <2>1. CASE \E r \in S : pc[r] \notin {"insert", "delete"}
    <3>1. PICK r \in S : pc[r] \notin {"insert", "delete"}
      BY <2>1
    <3>2. CASE pc[r] = "cascade"
      <4>1. CanDelete(r, Keys(Cascaded(db, req[r].survey)))
        BY <3>2, CascadeAlone DEF CascadeNeverWaits
      <4>2. Wants(r) = Keys(Cascaded(db, req[r].survey))
        BY <3>2 DEF Wants
      <4>3. WaitsFor(r) = {}
        BY <4>1, <4>2, <3>2 DEF WaitsFor, CanDelete
      <4>4. QED
        BY <4>3
    <3>3. CASE pc[r] # "cascade"
      <4>1. Wants(r) = {}
        BY <3>1, <3>3 DEF Wants
      <4>2. WaitsFor(r) = {}
        BY <4>1 DEF WaitsFor
      <4>3. QED
        BY <4>2
    <3>4. QED
      BY <3>2, <3>3
  <2>2. CASE \A r \in S : pc[r] \in {"insert", "delete"}
    <3>1. \A p \in S : Exclusive(p) = {}
      BY <2>2 DEF LocksInv, DeletionInv, TypeInv, TypeOK, Exclusive, Keys
    <3>2. CASE \E r \in S : pc[r] = "insert"
      <4>1. PICK r \in S : pc[r] = "insert"
        BY <3>2
      <4>2. \A p \in WaitsFor(r) : Exclusive(p) # {}
        BY <4>1 DEF WaitsFor
      <4>3. QED
        BY <3>1, <4>1, <4>2
    <3>3. CASE \A r \in S : pc[r] = "delete"
      <4>1. \A p \in S : Shared(p) = {}
        BY <3>3 DEF LocksInv, DeletionInv, TypeInv, TypeOK, Shared
      <4>2. PICK r \in S : TRUE
        OBVIOUS
      <4>3. \A p \in WaitsFor(r) : Exclusive(p) \cup Shared(p) # {}
        BY <3>3, <4>2 DEF WaitsFor
      <4>4. QED
        BY <3>1, <4>1, <4>2, <4>3
    <3>4. QED
      BY <2>2, <3>2, <3>3
  <2>3. QED
    BY <2>1, <2>2
<1>2. QED
  BY <1>1, LocksInvariance, PTL

================================================================================
