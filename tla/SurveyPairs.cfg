SPECIFICATION FairSpec
CONSTANTS
    r1 = r1
    r2 = r2
    r3 = r3
    r4 = r4
    Ann = Ann
    Bob = Bob
    Root = Root
    NoSurvey = NoSurvey
    NoChoice = NoChoice
    NoRequest = NoRequest
    Requests = {r1, r2, r3, r4}
    Users <- MCUsers
    Admins <- MCAdmins
    Inputs <- TwoSurveys
INVARIANTS
    CascadeNeverWaits
PROPERTIES
    EveryRequestEnds
    ImplementsStore
