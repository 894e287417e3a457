CONSTANTS
    MaxLen = 5
    Counts <- MCCounts
SPECIFICATION FairSpec
INVARIANTS ReadsInBounds Permutation Partitioned
PROPERTY Termination
