SPECIFICATION AttachmentsSpec
CONSTANTS
    s1 = s1
    s2 = s2
    d1 = d1
    d2 = d2
    v1 = v1
    v2 = v2
    Workstation <- MCWorkstation
    Document <- MCDocument
    Voucher <- MCVoucher
    MaxMainCommits = 3
SYMMETRY Symmetry
INVARIANTS DocumentsTravel
