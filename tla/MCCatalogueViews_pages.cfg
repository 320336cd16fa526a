SPECIFICATION Spec
CONSTANTS
  Newest = 5
  Genres = {1, 2}
  GenresOf <- MCGenresOf
  AuthorOf <- MCAuthorOf
  Copies = {1, 2, 3, 4}
  BookOf <- MCBookOf
  SchoolOf <- MCSchoolOf
  Readers = {ann, bea}
  HomeSchool <- MCHomeSchool
  LoanIds = {1, 2}
  ReservationIds = {1}
  LastAge = 2
  Stride = 2
  CanReserve = {ann}
  Minimum = 2
  SectionSize = 2
  GuestSections = 6
  ReaderSections = 8
  RelatedBelow = 2
  HomeLimit = 3
  GenreLimit = 2
  RecommendationLimits = {4}
  MaxActiveLoans = 1
  MaxActiveReservations = 1
  Stock = {1, 2, 3, 4}
  Shelved = {1, 2, 4}
  Withdrawn = {1}
  Wanted = {1}
  PatchedTo = {"RESERVED", "LOST"}
  Patched = {3}
  None = None
  north = north
  south = south
  ann = ann
  bea = bea
  tolkien = tolkien
INVARIANTS
  PagesOpen
  PagesPartition
  SectionsUseful
  RecommendationsDiverse
CHECK_DEADLOCK FALSE
