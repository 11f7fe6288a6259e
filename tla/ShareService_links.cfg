\* Three links of a client, two starts, one failing operation.
SPECIFICATION Spec
CONSTANTS
    Share = {s1, s2, s3}
    Client = {alice}
    Size = {1, 2}
    Lifetime = {1, 2}
    RateSpan = 1
    RateLimit = 2
    QuotaSpan = 2
    Quota = 3
    Horizon = 4
    MaxBoots = 2
    MaxFaults = 1
SYMMETRY Symmetry
INVARIANTS LinkServesCase QuotaHolds
CHECK_DEADLOCK FALSE
