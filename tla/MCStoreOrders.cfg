SPECIFICATION MCSpec
CONSTANTS
    o1 = o1
    o2 = o2
    c1 = c1
    p1 = p1
    p2 = p2
    h1 = h1
    h2 = h2
    Orders = {o1}
    Contacts = {c1}
    Products = {p1}
    Handlers = {h1, h2}
    NoOrder = NoOrder
    Buyer <- MCBuyer
    Items <- MCItems
CHECK_DEADLOCK FALSE
INVARIANTS
    TypeOK
    AccessIsEarned
    CompletedIsDelivered
    CompletedOnce
    ConfirmedIsCompleted
PROPERTIES
    CompletionIsFinal
    Implements
    PaidIsCompleted
    InvoiceIsSaved
    ExpiredIsCanceled
