CONSTANTS
    None = None
    u1 = u1
    u2 = u2
    u3 = u3
    b1 = b1
    b2 = b2
    c1 = c1
    c2 = c2
    Readers = {u1, u2}
    Books = {b1}
    Copies = {c1, c2}
    BookOf <- OneTitle
    LoanIds = {1, 2}
    ReservationIds = {1, 2, 3}
    MaxActiveLoans <- OneEach
    MaxActiveReservations <- OneEach
    CanReserve = {u1, u2}
SPECIFICATION CarefulSpec
SYMMETRY ReaderCopySymmetry
CHECK_DEADLOCK FALSE
INVARIANTS
    Custody
    CustodyInv
PROPERTIES
    ImplementsCustody
