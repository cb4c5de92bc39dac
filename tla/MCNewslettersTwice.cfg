SPECIFICATION AllSpec
CONSTANTS
    c1 = c1
    Newsletters = {n1}
    Contacts = {c1}
    Requests = {r1}
    Tasks = {t1}
    Workers = {w1}
    ChunkSize = 1
    RateLimit = 1
    MaxJobs = 1
    MaxMailings = 2
    NoNewsletter = NoNewsletter
INVARIANTS
    SentIsNotSentAgain
