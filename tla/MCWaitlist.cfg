SPECIFICATION MCSpec
CONSTANTS
    NoDelivery = NoDelivery
    Started = started
    Ended = ended
    Deliveries = {started, ended}
    Active = {started}
    TierOf <- MCTierOf
    Savers = {s1, s2}
    Readers = {r1}
    Window = 2
    Grant = 1
    NoKey = NoKey
    Keys = {k1, k2, k3}
    Admins = {a1, a2}
    Creators = {c1, c2}
    Casts = {{s1, s2, r1, a1}, {s1, s2, a1, started}, {s1, s2, r1, started, ended}, {s1, r1, a1, started, ended}, {r1, a1, a2}, {a1, c1, c2}}
SYMMETRY Symmetry
INVARIANTS
    TypeOK
    GrantHolds
    SponsorCounts
    TesterIsApproved
    PreviewKeyAccounted
