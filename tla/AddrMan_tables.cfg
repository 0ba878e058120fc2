SPECIFICATION Spec
CONSTANTS
    x1 = x1
    x2 = x2
    y1 = y1
    z1 = z1
    x = x
    y = y
    z = z
    s = s
    t = t
    Services <- MCServices
    Addrs <- MCAddrs
    AddrOf <- MCAddrOf
    Sources <- MCSources
    nNewBuckets = 2
    nTriedBuckets = 1
    NewBucketOf <- MCNewBucketOf
    TriedBucketOf <- MCTriedBucketOf
    NewBucketSize = 1
    TriedBucketSize = 1
    BucketsPerAddress = 2
    TriedInspect = 4
    GetAddrMaxPct = 34
    SameBucketCount = {TRUE}
    MaxTime = 1
    MaxId = 3
    MaxSaved = 1
INVARIANTS
    Check_
    NewBucketsBounded
    RoundTrip
PROPERTIES
    ImplementsAddrBook
