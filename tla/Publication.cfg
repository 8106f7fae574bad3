SPECIFICATION MCSpec
CONSTANTS
    h1 = h1
    h2 = h2
    Holder <- MCHolder
    Offset <- MCOffset
    Lease = 2
    Grace = 1
    MaxObjects = 3
    MaxTime = 3
    s1 = s1
    s2 = s2
    Session <- MCWorkstation
    MaxCommits = 3
    MaxTx = 2
    MaxEdits = 2
    MaxFaults = 1
    d1 = d1
    d2 = d2
    v1 = v1
    v2 = v2
    Workstation <- MCWorkstation
    Document <- OneDocument
    Voucher <- OneVoucher
    MaxMainCommits = 3
SYMMETRY SwapWorkstations
INVARIANTS LeaseExclusion
           WorkNeverLost CleanIsPublished LostIsNotPublished
           VouchersTravel VouchersOpen
PROPERTIES TenuresEndProperly LeasesOnlyExtend OneHistory VouchersKept
CHECK_DEADLOCK FALSE
