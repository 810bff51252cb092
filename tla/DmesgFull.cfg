CONSTANTS
    Cap = 4
    MaxWrite = 4
    Readers = {r1}
    Chunks = {1, 3}
    MaxTotal = 10
SPECIFICATION FairSpec
INVARIANTS OnlyOldestDiscarded
