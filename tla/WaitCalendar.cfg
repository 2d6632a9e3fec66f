SPECIFICATION Spec
CONSTANTS
    m1 = m1
    m2 = m2
    r1 = r1
    r2 = r2
    b1 = b1
    b2 = b2
    Masters = {m1}
    Bookings = {b1, b2}
    Slots <- TwoLengths
    WindowSlots <- WholeDay
    BlockSlots <- NoSlots
    Requests = {r1}
    Wants <- OneWantsFirst
    EditKinds = {"move", "confirm"}
    MaxStale = 1
    Restarts = FALSE
SYMMETRY Visits
INVARIANTS
    NoDoubleBooking
PROPERTIES
    HoldsRespected
