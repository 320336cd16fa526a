CONSTANTS
  p1 = p1
  p2 = p2
  north = north
  south = south
  hobbit = hobbit
  fantasy = fantasy
  OldTitle = OldTitle
  NewTitle = NewTitle
  ann = ann
  a1 = a1
  a2 = a2
  resident = resident
  Requests = {p1, p2}
  Schools = {north, south}
  Office = north
  Keep = Keep
  None = None
  Inherit = Inherit
  Books = {hobbit}
  Terms = {fantasy}
  Titles = {OldTitle, NewTitle}
  Spans <- MCSpans
  Answers <- MCAnswers
  Capabilities = {"manage_library_calendar", "manage_circulation_rules"}
  Roles = {"student"}
  Rules <- MCRules
  Residents = {resident}
  Names = {ann}
  Emails = {a1, a2}
  Cpfs <- MCCpfs
  LookupHash <- MCLookupHash
  Earlier = Earlier
  InitialBooks <- MCInitialBooks
  InitialOverrides <- MCInitialOverrides
  InitialPolicies <- MCInitialPolicies
  InitialAccounts <- MCInitialAccounts
SPECIFICATION Spec
SYMMETRY Symmetry
CHECK_DEADLOCK FALSE
INVARIANT OneAccountPerPerson
PROPERTIES CustomizationKept SchoolsStayIsolated RangeStaysMarked
