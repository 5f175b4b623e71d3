SPECIFICATION Spec
CONSTANTS
    Ann = Ann
    Bob = Bob
    Root = Root
    reader = reader
    NoChoice = NoChoice
    NoRequest = NoRequest
    Readers = {reader}
    Users <- MCUsers
    Admins <- MCAdmins
    Surveys <- MCSurveys
    Submissions <- Listed
    Inputs <- Listings
    MaxClock = 2
INVARIANTS
    TypeOK
    SurveyTornOnlyByRetraction
    ListingsTruthful
