CONSTANTS
    None = None
    u1 = u1
    u2 = u2
    b1 = b1
    b2 = b2
    c1 = c1
    c2 = c2
    p1 = p1
    p2 = p2
    p3 = p3
    Readers = {u1, u2}
    Books = {b1, b2}
    Copies = {c1, c2}
    BookOf <- TitleEach
    LoanIds = {1, 2}
    ReservationIds = {1, 2}
    MaxActiveLoans <- OneEach
    MaxActiveReservations <- OneEach
    CanReserve = {u1, u2}
    Requests = {p1, p2}
    Overlapping = {"lend", "pickup", "reserve"}
    Alone = {"return", "cancel"}
    PatchedTo = {}
SPECIFICATION SessionSpec
SYMMETRY RequestSymmetry
CHECK_DEADLOCK FALSE
INVARIANTS
    OneLoanPerCopy
    Custody
    LoanLimit
PROPERTIES
    Serialized
