SPECIFICATION Spec
CONSTANTS
    Ann = Ann
    Bob = Bob
    Root = Root
    reader = reader
    NoChoice = NoChoice
    NoRequest = NoRequest
    Readers = {reader}
    Users <- MCUsers
    Admins <- MCAdmins
    Surveys <- OneSurvey
    Submissions <- Paged
    Inputs <- Walks
    MaxClock = 3
INVARIANTS
    PagesMissNothing
