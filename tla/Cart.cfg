SPECIFICATION FairSpec
CONSTANTS
    r1 = r1
    r2 = r2
    r3 = r3
    r4 = r4
    Ann = Ann
    Bob = Bob
    book = book
    song = song
    NoItem = NoItem
    Marker = Marker
    NoRequest = NoRequest
    Requests = {r1, r2, r3, r4}
    Users = {Ann, Bob}
    Items = {book, song}
    Inputs <- Overlapping
    MaxResends = 1
    MaxFaults = 2
INVARIANTS
    TypeOK
    MarkersOwed
    NothingLost
    NothingForged
PROPERTIES
    UnreadableOnlyWhileRemoving
    MarkersGo
    EveryCartRequestEnds
    ImplementsCartStore
    RemovalTakesItsItem
