SPECIFICATION SmoothSpec
CONSTANTS
    s2 = s2
    k2 = k2
    Requests = {r1}
    Syncs = {s1}
    Workers = {w1}
    Subs = {k1, k2}
    Jobs = {j1}
    Slots = {0}
    WithGifts = FALSE
    MonthLength = 2
    MaxTime = 5
    None = None
INVARIANT
    InvoicedOnce
