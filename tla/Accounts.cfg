SPECIFICATION Spec
CONSTANTS
    r1 = r1
    r2 = r2
    r3 = r3
    r4 = r4
    Secret = Secret
    Other = Other
    Brief = Brief
    Accented = Accented
    Here = Here
    Away = Away
    NoRequest = NoRequest
    Requests = {r1, r2, r3, r4}
    Inputs <- MCInputs
    AllowedDomains = {Here}
    TokenLife = 1
    MaxClock = 2
INVARIANTS
    TypeOK
    RegistrationTruthful
    RegisteredCanLogIn
    AdmittedAsRegistered
