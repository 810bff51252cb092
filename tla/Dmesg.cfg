\* A ring of four bytes, twice around and more, with writes longer than it.
CONSTANTS
    Cap = 4
    MaxWrite = 6
    Readers = {r1, r2}
    Chunks = {1, 3}
    MaxTotal = 12
SPECIFICATION FairSpec
INVARIANTS TypeOK ReadsInOrder FailsOnlyOverlong
PROPERTIES ReadEnds
