SPECIFICATION Spec
CONSTANTS
    r1 = r1
    r2 = r2
    r3 = r3
    r4 = r4
    Ann = Ann
    Bob = Bob
    book = book
    song = song
    NoItem = NoItem
    Marker = Marker
    NoRequest = NoRequest
    Requests = {r1, r2, r3, r4}
    Users = {Ann, Bob}
    Items = {book, song}
    Inputs <- ReadWhileRemoving
    MaxResends = 0
    MaxFaults = 0
INVARIANTS
    CartIsRetrieved
