SPECIFICATION FairSpec
CONSTANTS
    saver = saver
    worker = worker
    interface = interface
    poller = poller
    Handle <- MCHandle
    Saver <- saver
    Observer <- MCObserver
    UI <- interface
    Lease = 1
    MaxTime = 1
    MaxOpen = 2
INVARIANTS LeaseCovers CommitsInItsSession NobodyElseInside
PROPERTIES LossIsFinal LossTakesEffect InterfaceGoesOn
