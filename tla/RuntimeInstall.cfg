SPECIFICATION FairSpec
CONSTANTS
    w1 = w1
    w2 = w2
    Work <- MCWork
    MaxMain = 3
    MaxFaults = 3
INVARIANTS Whole WorkKept
PROPERTIES StartsOnMain OpensAgain
