SPECIFICATION FairSpec
CONSTANTS
    m1 = m1
    m2 = m2
    r1 = r1
    r2 = r2
    b1 = b1
    b2 = b2
    Masters = {m1, m2}
    Bookings = {b1}
    Slots <- TwoMasters
    WindowSlots <- FirstHour
    BlockSlots <- FirstHour
    Requests = {r1}
    Wants <- OneWantsFirst
    EditKinds = {"confirm"}
    MaxStale = 0
    Restarts = TRUE
PROPERTIES
    OfferDecided
