----------------------------- MODULE MCSurveyReads -----------------------------
(***************************************************************************)
(* Small instances of SurveyReads: two questionnaires, up to three         *)
(* submissions by two users, and a client that reads them meanwhile.      *)
(***************************************************************************)
EXTENDS SurveyReads

CONSTANTS Ann, Bob, Root, reader

Q(id, type, mandatory, choices) ==
    [id |-> id, type |-> type, mandatory |-> mandatory, choices |-> choices]
Pick(id, q, c) == [id |-> id, question |-> q, choice |-> c, text |-> FALSE]
Text(id, q)    == [id |-> id, question |-> q, choice |-> NoChoice, text |-> TRUE]

Poll == [id |-> "poll", owner |-> Ann,
         questions |-> {Q("which", "multiple", TRUE, {"red", "blue"}),
                        Q("why", "text", FALSE, {})}]
Note == [id |-> "note", owner |-> Bob,
         questions |-> {Q("who", "multiple", TRUE, {"me"})}]

MCSurveys  == {Poll, Note}
OneSurvey  == {Poll}
MCUsers    == {Ann, Bob, Root}
MCAdmins   == {Root}

FromAnn == [id |-> "x1", survey |-> "poll", user |-> Ann,
            answers |-> {Pick("a11", "which", "red"), Text("a12", "why")}]
FromBob == [id |-> "x2", survey |-> "poll", user |-> Bob, answers |-> {Pick("a21", "which", "blue")}]
ToNote  == [id |-> "x3", survey |-> "note", user |-> Ann, answers |-> {Pick("a31", "who", "me")}]
AnnAgain == [id |-> "x4", survey |-> "poll", user |-> Ann, answers |-> {Pick("a41", "which", "red")}]

Listed == {FromAnn, FromBob, ToNote}
Paged  == {FromAnn, FromBob, AnnAgain}

Read(op, user, id, limit) == [op |-> op, user |-> user, id |-> id, limit |-> limit]

Listings ==
    [r \in Readers |->
        {Read("surveys", Ann, "", 0), Read("survey", Ann, "poll", 0),
         Read("submissions", Root, "poll", 0), Read("submissions", Bob, "poll", 0),
         Read("mine", Ann, Ann, 0), Read("mine", Bob, Ann, 0), Read("mine", Root, Ann, 0)}]

\* Pages of one, of two, and of the default size.
Walks ==
    [r \in Readers |->
        {Read("catalog", Bob, "poll", 1), Read("catalog", Bob, "poll", 2),
         Read("catalog", Bob, "poll", 1001), Read("answers", Bob, "which", 1)}]

OneRead == [r \in Readers |-> {Read("survey", Ann, "poll", 0)}]
================================================================================
