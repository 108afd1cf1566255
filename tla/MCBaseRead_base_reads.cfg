CONSTANTS
    ka = ka
    kb = kb
    kc = kc
    r1 = r1
    r2 = r2
    Absent = Absent
    Err = Err
    Panic = Panic
    Pending = Pending
    Keys <- MCKeys
    Readers <- MCReaders
    Entries <- MCEntries
    Setups <- MCSetups
    Lengths <- MCLengths
    Junk <- MCJunk
    SmallBases <- MCSmallBases
    CHECKSUM_BLOCK_SIZE = 3
    DataSize = 10
SYMMETRY MCSymmetry
SPECIFICATION ReadSpec
INVARIANTS TypeOK OkRangeIntact OkVerifyComplete ShortCutExact LookupRight NoFalseAlarm PairsStored IterationExact TrustedWalk BuilderAgrees
PROPERTIES UsesVerifier
CHECK_DEADLOCK FALSE
