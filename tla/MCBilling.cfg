SPECIFICATION MCSpec
CONSTANTS
    s2 = s2
    k2 = k2
    Requests = {r1}
    Syncs = {s1, s2}
    Workers = {w1}
    Subs = {k1, k2}
    Jobs = {j1}
    Slots = {0, 1}
    WithGifts = TRUE
    MonthLength = 2
    MaxTime = 3
    None = None
INVARIANTS
    TypeOK
    RowFollowsStripe
    PeriodsAreForward
PROPERTIES
    SecondIsUnseen
    SubscriptionIsFollowed
