------------------------------ MODULE SurveyStore ------------------------------
(***************************************************************************)
(* What the survey tables promise to a client, with no statement, lock,    *)
(* transaction or crash in sight: a survey is published whole, a           *)
(* submission is accepted whole and only if it answers the survey that is  *)
(* live at that moment, and a survey is retracted together with everything *)
(* that was submitted to it.  SurveyWrites implements this module.         *)
(***************************************************************************)
EXTENDS Naturals, FiniteSets

CONSTANTS
    Surveys,      \* every survey a client may publish: [id, owner, questions]
    Submissions,  \* every submission a client may send: [id, survey, user, answers]
    Users,
    Admins,
    NoChoice      \* the choice of a free-text answer

VARIABLES
    live,         \* the published surveys that were not retracted
    accepted,     \* the submissions to live surveys
    spent         \* ids of everything ever published or accepted

vars == <<live, accepted, spent>>

\* One answer fits one question: a choice of that question, or free text.
Fits(a, q) ==
    /\ a.question = q.id
    /\ \/ q.type = "multiple" /\ a.choice \in q.choices /\ ~a.text
       \/ q.type = "text" /\ a.choice = NoChoice /\ a.text

\* A set of answers answers a set of questions: something is answered, every
\* answer fits a question, none is answered twice, no mandatory one is left out.
Answered(answers, questions) ==
    /\ answers # {}
    /\ \A a \in answers : \E q \in questions : Fits(a, q)
    /\ \A a, b \in answers : a.question = b.question => a = b
    /\ \A q \in questions : q.mandatory => \E a \in answers : a.question = q.id

\* A questionnaire somebody can answer: choices exactly where they are asked for.
WellFormed(questions) ==
    /\ questions # {}
    /\ \A q \in questions : \/ q.type = "multiple" /\ q.choices # {}
                            \/ q.type = "text" /\ q.choices = {}

Init ==
    /\ live = {}
    /\ accepted = {}
    /\ spent = {}

Publish(s) ==
    /\ s.id \notin spent
    /\ WellFormed(s.questions)
    /\ live' = live \cup {s}
    /\ spent' = spent \cup {s.id}
    /\ UNCHANGED accepted

Submit(x) ==
    /\ x.id \notin spent
    /\ \E s \in live : s.id = x.survey /\ Answered(x.answers, s.questions)
    /\ accepted' = accepted \cup {x}
    /\ spent' = spent \cup {x.id}
    /\ UNCHANGED live

Retract(s, u) ==
    /\ u = s.owner \/ u \in Admins
    /\ live' = live \ {s}
    /\ accepted' = {x \in accepted : x.survey # s.id}
    /\ UNCHANGED spent

Next ==
    \/ \E s \in Surveys : Publish(s)
    \/ \E x \in Submissions : Submit(x)
    \/ \E s \in live, u \in Users : Retract(s, u)

Spec == Init /\ [][Next]_vars
================================================================================
