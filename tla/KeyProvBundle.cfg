SPECIFICATION Spec
CONSTANTS
    import_min = 2
    ack_grace = 2
    skew = 1
    Leases = {0, 4, 5}
    Contents = {k1, k2}
    MaxNow = 8
INVARIANTS
    EncodersAccept
    AckReportsJournal
    AckInTime
PROPERTY ImportInTime
