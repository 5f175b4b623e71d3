SPECIFICATION Spec
CONSTANTS
    Ann = Ann
    Bob = Bob
    Root = Root
    reader = reader
    NoChoice = NoChoice
    NoRequest = NoRequest
    Readers = {reader}
    Users <- MCUsers
    Admins <- MCAdmins
    Surveys <- OneSurvey
    Submissions <- Listed
    Inputs <- OneRead
    MaxClock = 1
INVARIANTS
    SurveyIsRetrieved
