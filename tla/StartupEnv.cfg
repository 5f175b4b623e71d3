SPECIFICATION Spec
CONSTANTS
    NoSession = 0
    Processes = {p1, p2}
    Sessions = {1, 2, 3}
    Env <- ByTheExample
    MaxFaults = 0
PROPERTIES
    ExampleServes
