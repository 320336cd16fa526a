CONSTANTS
    None = None
    u1 = u1
    u2 = u2
    u3 = u3
    b1 = b1
    b2 = b2
    c1 = c1
    c2 = c2
    Readers = {u1, u2, u3}
    Books = {b1, b2}
    Copies = {c1, c2}
    BookOf <- OneTitle
    LoanIds = {1, 2, 3}
    ReservationIds = {1, 2}
    MaxActiveLoans <- OneEach
    MaxActiveReservations <- OneEach
    CanReserve = {u1, u2, u3}
SPECIFICATION DeskSpec
SYMMETRY ReaderSymmetry
CHECK_DEADLOCK FALSE
INVARIANTS
    NoIdleCopyWhileWaiting
    FirstComeFirstServed
    LoanLimit
    ReservationLimit
