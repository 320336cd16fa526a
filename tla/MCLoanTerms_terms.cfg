CONSTANTS
    None = None
    LOAN_MIN_DAYS = 1
    DefaultPolicy <- Plain
    Policies <- StrictAndForgetting
    l1 = l1
    l2 = l2
    l3 = l3
    LoanIds = {l1, l2, l3}
    Instants = 2
    LastDay = 5
    Holidays = {1}
SPECIFICATION Spec
SYMMETRY LoanSymmetry
CHECK_DEADLOCK FALSE
INVARIANTS
    TypeOK
    ListedOverdueIsLate
    PenaltyMatchesHistory
    SuspensionHonoured
PROPERTIES
    DueOnCountedDay
