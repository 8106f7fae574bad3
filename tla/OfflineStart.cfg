SPECIFICATION Spec
CONSTANTS
    w1 = w1
    w2 = w2
    Work <- MCWork
    MaxMain = 1
    MaxFaults = 1
PROPERTIES OfflineOpens
