---------------------------- MODULE MCSurveyWrites -----------------------------
(***************************************************************************)
(* Small instances of SurveyWrites: two surveys' worth of questionnaires,  *)
(* two users of whom one owns the survey, an admin, and one list of what   *)
(* each request may ask per question the runs put.                         *)
(***************************************************************************)
EXTENDS SurveyWrites

CONSTANTS r1, r2, r3, r4, Ann, Bob, Root

MCUsers  == {Ann, Bob, Root}
MCAdmins == {Root}

Q(type, mandatory, choices) == [type |-> type, mandatory |-> mandatory, choices |-> choices]
Form(blank, questions)      == [blank |-> blank, questions |-> questions]
Pick(s, i, j) == [question |-> <<s, i>>, choice |-> <<s, i, j>>, text |-> FALSE]
Text(s, i)    == [question |-> <<s, i>>, choice |-> NoChoice, text |-> TRUE]

Create(u, form)       == [op |-> "create", user |-> u, form |-> form]
Submit(u, s, answers) == [op |-> "submit", user |-> u, survey |-> s, answers |-> answers]
Delete(u, s)          == [op |-> "delete", user |-> u, survey |-> s]

\* A mandatory choice between two and an optional free text.
Poll == Form(FALSE, <<Q("multiple", TRUE, 2), Q("text", FALSE, 0)>>)
\* One free-text question.
Note == Form(FALSE, <<Q("text", TRUE, 0)>>)

Creates == {Create(Ann, Poll)}
Rejects == {Create(Ann, Form(TRUE, <<Q("text", TRUE, 0)>>)), Create(Ann, Form(FALSE, << >>)),
            Create(Ann, Form(FALSE, <<Q("multiple", TRUE, 0)>>)),
            Create(Ann, Form(FALSE, <<Q("text", TRUE, 1)>>)),
            Create(Ann, Form(FALSE, <<Q("other", TRUE, 0)>>))}

Good(s) == <<Pick(s, 1, 2), Text(s, 2)>>
Bad(s)  == {<<Text(s, 2)>>,                        \* the mandatory one left out
            <<Pick(s, 1, 1), Pick(s, 1, 2)>>,      \* one question answered twice
            <<Pick(s, 1, 3)>>,                     \* no such choice
            << >>}

\* One survey; a submission to it, its deletion by its owner, a stranger or an
\* admin, and one more submission or deletion.
OneSurvey ==
    [r \in Requests |->
        CASE r = r1 -> Creates \cup Rejects
          [] r = r2 -> {Submit(Bob, r1, b) : b \in Bad(r1) \cup {Good(r1)}}
          [] r = r3 -> {Delete(Ann, r1), Delete(Bob, r1), Delete(Root, r1), Delete(Ann, NoSurvey)}
          [] OTHER  -> {Submit(Bob, r1, Good(r1)), Delete(Root, r1)}]

\* Two surveys: a submission to the first that also answers a question of the
\* second, the deletion of either, and a submission to none.
TwoSurveys ==
    [r \in Requests |->
        CASE r = r1 -> {Create(Ann, Poll)}
          [] r = r2 -> {Create(Bob, Note)}
          [] r = r3 -> {Submit(Bob, r1, <<Pick(r1, 1, 1), Text(r2, 1)>>),
                        Submit(Bob, r1, <<Pick(r1, 1, 1)>>),
                        Submit(Bob, NoSurvey, <<Text(r2, 1)>>)}
          [] OTHER  -> {Delete(Ann, r1), Delete(Bob, r2)}]
================================================================================
