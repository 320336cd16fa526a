--------------------------- MODULE CatalogueViews ---------------------------
(***************************************************************************)
(* What the pages of the catalogue show to a guest, a reader, a librarian    *)
(* and a super administrator: the list of books, one book, the home page and *)
(* the recommendations (src/src/routers/books.py), worked out from the       *)
(* tables as cataloguing and circulation leave them.                         *)
(*                                                                         *)
(* Books and genres are numbers, later ones newer.  The database may return  *)
(* rows that its ORDER BY leaves equal in any order; here the older comes     *)
(* first.  An age is a band of the windows the code compares with: at most   *)
(* 30, 90, 180 or 365 days, or more.  A book has at most one author.        *)
(***************************************************************************)
EXTENDS Integers, FiniteSetsExt, SequencesExt

CONSTANTS
  Newest, Genres,         \* the newest book; genres, numbered like books
  GenresOf, AuthorOf,     \* what the catalogue says of a book
  Copies, BookOf, SchoolOf,  \* copies with their book and school
  Readers, HomeSchool,    \* readers with their school
  LoanIds, ReservationIds,
  CanReserve,             \* readers whose policy lets them reserve
  LastAge, Stride,        \* the oldest band, and the bands a step of time passes
  Minimum,                \* books without which a section is not published: 10
  SectionSize,            \* books of a section at most: 20
  GuestSections, ReaderSections,  \* sections of a page at most: 6 and 8
  RelatedBelow,           \* a genre with fewer books is completed: 6
  HomeLimit, GenreLimit, RecommendationLimits,  \* limit, genre_limit
  MaxActiveLoans, MaxActiveReservations,
  Stock, Shelved,         \* books and copies the library begins with
  Withdrawn, Wanted,      \* books that may be deactivated, and reserved
  Patched, PatchedTo,     \* copies that may be patched, and states asked for
  None

Books == 1 .. Newest
States == {"AVAILABLE", "RESERVED", "BORROWED", "LOST", "ARCHIVED"}

ASSUME ViewsAssumption ==
  /\ Newest \in Nat /\ Genres \subseteq Books
  /\ GenresOf \in [Books -> SUBSET Genres] /\ DOMAIN AuthorOf = Books
  /\ BookOf \in [Copies -> Books] /\ DOMAIN SchoolOf = Copies
  /\ DOMAIN HomeSchool = Readers
  /\ IsFiniteSet(Copies) /\ None \notin States \cup {"active"}
  /\ LoanIds \subseteq Nat /\ ReservationIds \subseteq Nat
  /\ LastAge \in 0 .. 4 /\ CanReserve \subseteq Readers
  /\ \A n \in {Stride, Minimum, SectionSize, GuestSections, ReaderSections, RelatedBelow,
               HomeLimit, GenreLimit, MaxActiveLoans, MaxActiveReservations}
               \cup RecommendationLimits : n \in Nat \ {0}
  /\ Minimum <= SectionSize
  /\ Stock \subseteq Books /\ Shelved \subseteq {c \in Copies : BookOf[c] \in Stock}

VARIABLES
  shelf,        \* books catalogued, and whether they are active
  copies,       \* the state of each copy, None before it is added
  loans,        \* rows of loans
  reservations  \* rows of reservations

vars == <<shelf, copies, loans, reservations>>

-----------------------------------------------------------------------------
(* The tables.                                                             *)

Catalogued == {b \in Books : shelf[b] # None}
Active == {b \in Books : shelf[b] = "active"}
Lent == {l \in LoanIds : loans[l] # None}
Reserved == {r \in ReservationIds : reservations[r] # None}

Open == {"ACTIVE", "READY"}
LoansOf(u) == {l \in Lent : loans[l].user = u}
LentBook(l) == BookOf[loans[l].copy]

Schools == Range(SchoolOf) \cup Range(HomeSchool)

(* The copies of a book, in one school or (None) in all.                   *)
MayHold == [b \in Books |-> [school \in Schools \cup {None} |->
              {c \in Copies : BookOf[c] = b /\ school \in {None, SchoolOf[c]}}]]
CopiesOf(b, school) == {c \in MayHold[b][school] : copies[c] # None}

Viewer(role, school, user) == [role |-> role, school |-> school, user |-> user]
SuperAdmin == Viewer("super_admin", None, None)
Librarian(s) == Viewer("librarian", s, None)
Guest(s) == Viewer("guest", s, None)
Reader(u) == Viewer("reader", HomeSchool[u], u)

-----------------------------------------------------------------------------
(* Sequences.                                                              *)

(* The elements that are in a set, or are not, in their order.             *)
Keep(s, S) ==
  LET kept[n \in 0 .. Len(s)] ==
        IF n = 0 THEN <<>>
        ELSE IF s[n] \in S THEN Append(kept[n - 1], s[n]) ELSE kept[n - 1]
  IN  kept[Len(s)]
Drop(s, S) == Keep(s, Range(s) \ S)

First(n, s) == SubSeq(s, 1, IF n <= Len(s) THEN n ELSE Len(s))
OldestFirst(S) == Keep([i \in 1 .. Newest |-> i], S)
NewestFirst(S) == Reverse(OldestFirst(S))

(* Heaviest first; what weighs the same stays in order.                    *)
Sorted(s, weight) ==
  LET sorted[n \in 0 .. Len(s)] ==
        IF n = 0 THEN <<>>
        ELSE LET ahead == {b \in Range(sorted[n - 1]) : weight[b] >= weight[s[n]]}
             IN  Append(Keep(sorted[n - 1], ahead), s[n]) \o Drop(sorted[n - 1], ahead)
  IN  sorted[Len(s)]

-----------------------------------------------------------------------------
(* The state of a book.                                                    *)

Counted(b, school, state) ==
  Cardinality({c \in CopiesOf(b, school) : copies[c] = state})

(* Mutant of DerivedStateExpr: BORROWED before RESERVED.                   *)
BorrowedFirst(b, school) ==
  CASE Counted(b, school, "AVAILABLE") > 0 -> "AVAILABLE"
    [] OTHER -> CASE Counted(b, school, "BORROWED") > 0 -> "BORROWED"
    [] OTHER -> CASE Counted(b, school, "RESERVED") > 0 -> "RESERVED"
    [] OTHER -> IF Counted(b, school, "LOST") > 0 THEN "LOST" ELSE "ARCHIVED"

(* Book.derived_state_expr: what the filters of the list compare, in SQL.  *)
DerivedStateExpr(b, school) ==
  CASE Counted(b, school, "AVAILABLE") > 0 -> "AVAILABLE"
    [] OTHER -> CASE Counted(b, school, "RESERVED") > 0 -> "RESERVED"
    [] OTHER -> CASE Counted(b, school, "BORROWED") > 0 -> "BORROWED"
    [] OTHER -> IF Counted(b, school, "LOST") > 0 THEN "LOST" ELSE "ARCHIVED"

Priority == <<"AVAILABLE", "RESERVED", "BORROWED", "LOST">>

(* _derived_states: what a page shows, worked out from the rows in Python. *)
DerivedState(b, school) ==
  LET present == {copies[c] : c \in CopiesOf(b, school)}
      found == Keep(Priority, present)
  IN  IF found = <<>> THEN "ARCHIVED" ELSE Head(found)

(* _copies_counts.                                                         *)
AvailableCopies(b, school) == Counted(b, school, "AVAILABLE")

-----------------------------------------------------------------------------
(* Who may open and who is shown a book.                                   *)

InSchool(b, school) == CopiesOf(b, school) # {}
Orphan(b) == CopiesOf(b, None) = {}

(* get_book: an inactive book still opens.                                 *)
Opens(v, b) ==
  /\ b \in Catalogued
  /\ \/ v.role = "super_admin"
     \/ Orphan(b) /\ v.role # "guest"
     \/ InSchool(b, v.school)

(* Mutant of InScope: guests are shown orphans as well.                    *)
InScopeOfAll(v, b) ==
  \/ v.role = "super_admin"
  \/ InSchool(b, v.school)
  \/ Orphan(b)

(* What the lists and feeds filter by.                                     *)
InScope(v, b) ==
  \/ v.role = "super_admin"
  \/ InSchool(b, v.school)
  \/ v.role # "guest" /\ Orphan(b)

Visible(v) == {b \in Active : InScope(v, b)}

-----------------------------------------------------------------------------
(* list_books.                                                             *)

OwnLoan(v, b) ==
  \E l \in LoansOf(v.user) :
    /\ LentBook(l) = b /\ SchoolOf[loans[l].copy] = v.school
    /\ loans[l].status = "ACTIVE"

OwnReservation(v, b) ==
  \E r \in Reserved :
    /\ reservations[r].user = v.user /\ reservations[r].book = b
    /\ reservations[r].status \in Open

(* A reader's states are her own; what is lost or archived she is not shown. *)
ReaderSees(v, b, state) ==
  LET derived == DerivedStateExpr(b, v.school)
  IN  /\ derived \in {"AVAILABLE", "RESERVED", "BORROWED"}
      /\ CASE state = "AVAILABLE" -> derived = "AVAILABLE"
           [] state = "BORROWED" -> OwnLoan(v, b)
           [] state = "RESERVED" -> OwnReservation(v, b)
           [] state = None -> \/ derived = "AVAILABLE"
                              \/ OwnLoan(v, b)
                              \/ OwnReservation(v, b)
           [] OTHER -> FALSE

(* A word of the search that names a state.                                *)
WordMatches(v, b, word) ==
  CASE word = None -> FALSE
    [] word # None /\ v.role = "reader" ->
         \/ word = "BORROWED" /\ OwnLoan(v, b)
         \/ word = "RESERVED" /\ OwnReservation(v, b)
         \/ word = "AVAILABLE" /\ DerivedStateExpr(b, v.school) = "AVAILABLE"
    [] OTHER -> DerivedStateExpr(b, v.school) = word

(* A filter: the flag, the state, the books that its text and its other       *)
(* fields match, and the state the text names; None where it says nothing.  *)
NoFilter == [active |-> TRUE, state |-> None, q |-> Books, word |-> None]

Listed(v, filter) ==
  {b \in Catalogued :
    /\ (shelf[b] = "active") = filter.active
    /\ InScope(v, b)
    /\ b \in filter.q \/ WordMatches(v, b, filter.word)
    /\ IF v.role = "reader"
       THEN ReaderSees(v, b, filter.state)
       ELSE filter.state \in {None, DerivedStateExpr(b, v.school)}}

(* paginate, FilterPage.                                                   *)
Pages(total, size) == IF total = 0 THEN 0 ELSE (total + size - 1) \div size
Page(v, filter, page, size) ==
  LET rows == OldestFirst(Listed(v, filter))
      offset == (page - 1) * size
  IN  First(size, SubSeq(rows, offset + 1, Len(rows)))

(* suggest_books, for the books that match the text: what has no copies is    *)
(* suggested to guests too.                                                *)
Suggested(v, matching, limit) ==
  First(limit, OldestFirst({b \in Active \cap matching :
                              v.role = "super_admin" \/ InSchool(b, v.school) \/ Orphan(b)}))

-----------------------------------------------------------------------------
(* Ranking.                                                                *)

Ranked(weight) == Sorted(OldestFirst(DOMAIN weight), weight)
(* A stable sort of what comes newest first.                               *)
RankedNewest(weight) == Sorted(NewestFirst(DOMAIN weight), weight)

(* Returned loans of a school, or (None) of all, in a window.              *)
ReturnedLoans(school, age) ==
  {l \in Lent : /\ loans[l].status = "RETURNED" /\ loans[l].age <= age
                /\ school \in {None, SchoolOf[loans[l].copy]}}

TimesLent(b, rows) == Cardinality({l \in rows : LentBook(l) = b})
MostLent(rows) ==
  Ranked([b \in {LentBook(l) : l \in rows} |-> TimesLent(b, rows)])

TimesOfGenre(g, rows) == Cardinality({l \in rows : g \in GenresOf[LentBook(l)]})
(* Both have an inner join: a genre no book of which was lent is not there. *)
GenresByLoans(rows) ==
  Ranked([g \in UNION {GenresOf[LentBook(l)] : l \in rows} |-> TimesOfGenre(g, rows)])

WithGenre(S, g) == {b \in S : g \in GenresOf[b]}

(* Books that share a genre or the author with one of a set.               *)
Akin(b, others) ==
  \E o \in others : \/ GenresOf[b] \cap GenresOf[o] # {}
                    \/ AuthorOf[b] # None /\ AuthorOf[b] = AuthorOf[o]

-----------------------------------------------------------------------------
(* A reader's tastes: _interaction_affinity_score, _recency_factor, with the  *)
(* weights 2, 2.5 and 1 and the factors 1.5, 1.25, 1 and 0.7 multiplied out. *)

Factor(age) == CASE age = 0 -> 30 [] age = 1 -> 25 [] age = 2 -> 20 [] OTHER -> 14
LoanScore(l) == (IF loans[l].status = "RETURNED" THEN 5 ELSE 4) * Factor(loans[l].age)
ReservationScore(r) == 2 * Factor(reservations[r].age)

ReservationsOf(u) == {r \in Reserved : reservations[r].user = u}
History(u) ==
  {LentBook(l) : l \in LoansOf(u)} \cup {reservations[r].book : r \in ReservationsOf(u)}

BookScore(u, b) ==
  MapThenSumSet(LoanScore, {l \in LoansOf(u) : LentBook(l) = b})
    + MapThenSumSet(ReservationScore,
                    {r \in ReservationsOf(u) : reservations[r].book = b})

GenreScore(u, g) ==
  MapThenSumSet(LAMBDA b : BookScore(u, b), WithGenre(History(u), g))
AuthorScore(u, a) ==
  MapThenSumSet(LAMBDA b : BookScore(u, b), {b \in History(u) : AuthorOf[b] = a})
Taste(u, b) ==
  MapThenSumSet(LAMBDA g : GenreScore(u, g), GenresOf[b])
    + IF AuthorOf[b] = None THEN 0 ELSE AuthorScore(u, AuthorOf[b])

-----------------------------------------------------------------------------
(* get_recommendations.                                                    *)

(* What is not there yet is appended until there are n, at least one.      *)
AppendUntil(s, candidates, n) ==
  LET new == Drop(candidates, Range(s))
      missing == IF n > Len(s) THEN n - Len(s) ELSE 1
  IN  s \o First(missing, new)

(* The loans of readers with a loan akin to the reader's history; the code    *)
(* keeps the twenty that have most, the model has fewer.  Neither the school *)
(* nor the flag of a book is looked at.                                     *)
SimilarLoans(u) ==
  LET alike == {w \in Readers \ {u} :
                  \E l \in LoansOf(w) : Akin(LentBook(l), History(u))}
  IN  {l \in Lent : loans[l].user \in alike /\ LentBook(l) \notin History(u)}

(* About half: what similar readers borrowed, or else what the reader's own   *)
(* tastes suggest.                                                          *)
Affinity(v, target, quota) ==
  LET similar == {l \in SimilarLoans(v.user) : LentBook(l) # target}
      borrowed == First(2 * quota, MostLent(similar))
      own == {b \in Visible(v) \ {target} : Akin(b, History(v.user))}
      newest == First(2 * (quota - Len(borrowed)), NewestFirst(own))
      liked == RankedNewest([b \in Range(newest) |-> Taste(v.user, b)])
  IN  IF Len(borrowed) >= quota THEN borrowed ELSE AppendUntil(borrowed, liked, quota)

(* Both the genre and the author first.                                    *)
Likeness(b, target) ==
  (IF GenresOf[b] \cap GenresOf[target] # {} THEN 1 ELSE 0)
    + IF AuthorOf[b] # None /\ AuthorOf[b] = AuthorOf[target] THEN 2 ELSE 0

AkinVisible(v, target) == {b \in Visible(v) \ {target} : Akin(b, {target})}

Context(v, target, quota) ==
  LET newest == First(3 * quota, NewestFirst(AkinVisible(v, target)))
  IN  RankedNewest([b \in Range(newest) |-> Likeness(b, target)])

(* What all the schools borrowed this month.                               *)
Trends(v, target, quota) ==
  Keep(First(3 * quota, MostLent({l \in Lent : loans[l].age = 0})),
       Visible(v) \ {target})

(* Mutant of TooMany: three in a row are let through.                      *)
FourInARow(s, b) ==
  /\ Len(s) >= 3 /\ AuthorOf[b] # None
  /\ \A i \in (Len(s) - 2) .. Len(s) : AuthorOf[s[i]] = AuthorOf[b]

(* A third book of one author in a row.                                    *)
TooMany(s, b) ==
  /\ Len(s) >= 2 /\ AuthorOf[b] # None
  /\ \A i \in (Len(s) - 1) .. Len(s) : AuthorOf[s[i]] = AuthorOf[b]

(* _diversify_books: the first that is not too many, or else the first.    *)
Diversified(s) ==
  LET Pick(done, rest) ==
        LET fit == {i \in DOMAIN rest : ~TooMany(done, rest[i])}
        IN  IF fit = {} THEN 1 ELSE Min(fit)
      after[n \in 0 .. Len(s)] ==
        IF n = 0 THEN [done |-> <<>>, rest |-> s]
        ELSE LET before == after[n - 1]
                 i == Pick(before.done, before.rest)
             IN  [done |-> Append(before.done, before.rest[i]),
                  rest |-> RemoveAt(before.rest, i)]
  IN  after[Len(s)].done

(* What is too short is completed by the newest of what may be added.      *)
Completed(s, limit, spare) ==
  IF Len(s) < limit
  THEN s \o First(limit - Len(s), NewestFirst(spare \ Range(s)))
  ELSE s

(* The layers one after the other, completed with what is akin to the book,  *)
(* and cut to the limit.                                                   *)
AccountRecommendations(v, target, limit) ==
  LET affinity == limit \div 2
      context == (limit * 3) \div 10
      own == Affinity(v, target, affinity)
      akin == AppendUntil(own, Context(v, target, context), affinity + context)
      all == AppendUntil(akin, Trends(v, target, limit - affinity - context), limit)
  IN  Diversified(First(limit, Completed(all, limit, AkinVisible(v, target))))

(* A guest has no history: what is akin to the book, by title.             *)
GuestRecommendations(v, target, limit) ==
  First(limit, OldestFirst(AkinVisible(v, target)))

Recommendations(v, target, limit) ==
  IF v.role = "guest"
  THEN GuestRecommendations(v, target, limit)
  ELSE AccountRecommendations(v, target, limit)

-----------------------------------------------------------------------------
(* The home page.                                                          *)

Section(kind, books) == [kind |-> kind, books |-> books, minimum |-> Minimum]
Ranking(kind, books, minimum) == [kind |-> kind, books |-> books, minimum |-> minimum]
RankingKinds == {"quarter", "semester", "year"}

ShownOn(page) == UNION {Range(page[i].books) : i \in DOMAIN page}
Distinct(s) ==
  LET first == {i \in DOMAIN s : \A j \in 1 .. (i - 1) : s[j] # s[i]}
      kept == Keep([i \in DOMAIN s |-> i], first)
  IN  [i \in DOMAIN kept |-> s[kept[i]]]

(* Books with a copy to take come first.                                   *)
AvailableFirst(v, s) ==
  LET there == {b \in Range(s) : AvailableCopies(b, v.school) > 0}
  IN  Keep(s, there) \o Drop(s, there)

(* A section with too few books is left out.                               *)
Published(page, section, books, most) ==
  IF Len(page) >= most \/ Len(books) < section.minimum
  THEN page
  ELSE Append(page, [section EXCEPT !.books = books])

(* Mutant of AddPublic: the books are counted before the repeated ones go.  *)
AddPublicRepeated(page, section) ==
  LET unseen == Drop(section.books, ShownOn(page))
      books == IF Len(unseen) < Minimum THEN section.books ELSE unseen
  IN  Published(page, section, First(SectionSize, books), GuestSections)

(* add_public: books no other section shows, if there are enough of them; a   *)
(* book offered twice counts twice here, and once below.                   *)
AddPublic(page, section) ==
  LET unseen == Drop(section.books, ShownOn(page))
      books == IF Len(unseen) < Minimum THEN section.books ELSE unseen
  IN  Published(page, section, First(SectionSize, Distinct(books)), GuestSections)

(* The ranking goes to the fifth place, or to the end of a shorter page.    *)
RankingFifth(page) ==
  LET rankings == {section \in Range(page) : section.kind \in RankingKinds}
      others == Drop(page, rankings)
      place == Min({4, Len(others)})
  IN  First(place, others) \o Keep(page, rankings)
        \o SubSeq(others, place + 1, Len(others))

(* The two hundred newest books of a guest's school; the model has fewer.    *)
GuestPayload(v) == AvailableFirst(v, NewestFirst(Visible(v)))

(* The six genres lent most; the model has fewer.                          *)
EligibleGenres(v) == {g \in Genres : Cardinality(WithGenre(Visible(v), g)) >= Minimum}

(* The orders random.shuffle and random.sample may give.                   *)
Shuffles(v) == SetToSeqs(Visible(v))
Samples(v) ==
  LET k == Min({2, Cardinality(EligibleGenres(v))})
  IN  UNION {SetToSeqs(picked) : picked \in kSubset(k, EligibleGenres(v))}

GuestOffers(v, shuffled, picked) ==
  LET known(s) == Keep(s, Visible(v))
      all == GuestPayload(v)
      popular == known(MostLent(ReturnedLoans(v.school, 4)))
      quarter == known(First(SectionSize, MostLent(ReturnedLoans(v.school, 1))))
      genre(g) == Section("genre", First(SectionSize, NewestFirst(WithGenre(Visible(v), g))))
  IN  <<Section("popular", popular \o all),
        Section("new", NewestFirst(Visible(v))),
        Ranking("quarter", quarter \o popular \o all, Minimum),
        Section("shuffled", shuffled)>>
      \o [i \in DOMAIN picked |-> genre(picked[i])]

(* What is offered is added in turn, and the ranking then put in its place. *)
GuestPage(offers) ==
  LET page[n \in 0 .. Len(offers)] ==
        IF n = 0 THEN <<>> ELSE AddPublic(page[n - 1], offers[n])
  IN  RankingFifth(page[Len(offers)])

GuestHome(v, shuffled, picked) == GuestPage(GuestOffers(v, shuffled, picked))

(* Mutant of AddCarousel: the limit on sections is looked at after adding.  *)
AddCarouselBeyond(v, page, section) ==
  LET books == IF section.kind \in RankingKinds
               THEN section.books ELSE AvailableFirst(v, section.books)
      unseen == Drop(books, ShownOn(page))
      seen == Keep(books, ShownOn(page))
      selected == IF Len(unseen) >= Minimum THEN unseen ELSE unseen \o seen
  IN  Published(page, section, First(SectionSize, Distinct(selected)), ReaderSections + 1)

(* add_carousel.                                                           *)
AddCarousel(v, page, section) ==
  LET books == IF section.kind \in RankingKinds
               THEN section.books ELSE AvailableFirst(v, section.books)
      unseen == Drop(books, ShownOn(page))
      seen == Keep(books, ShownOn(page))
      selected == IF Len(unseen) >= Minimum THEN unseen ELSE unseen \o seen
  IN  Published(page, section, First(SectionSize, Distinct(selected)), ReaderSections)

NewBooks(v) == AvailableFirst(v, First(HomeLimit, NewestFirst(Visible(v))))

(* What is offered in place of nothing.                                    *)
OrElse(s, other) == IF s = <<>> THEN other ELSE s

(* For the book last borrowed, or else what is new.                        *)
Recommended(v) ==
  OrElse(IF LoansOf(v.user) = {}
         THEN <<>>
         ELSE Recommendations(v, LentBook(Max(LoansOf(v.user))), HomeLimit),
         NewBooks(v))

(* Read last first; inactive books too.                                    *)
RecentlyRead(v) ==
  LET done == {l \in LoansOf(v.user) : loans[l].status = "RETURNED"}
      last(b) == Max({loans[l].returned : l \in {m \in done : LentBook(m) = b}})
  IN  First(HomeLimit, Ranked([b \in {LentBook(l) : l \in done} |-> last(b)]))

BecauseYouRead(v) ==
  Drop(Recommendations(v, Head(RecentlyRead(v)), HomeLimit), History(v.user))

PersonalSections(v) ==
  IF RecentlyRead(v) = <<>>
  THEN <<>>
  ELSE <<[Section("recently-read", RecentlyRead(v)) EXCEPT !.minimum = 1],
         Section("because-you-read", BecauseYouRead(v))>>

GenresOfHistory(v) ==
  LET read == History(v.user)
  IN  First(3, Ranked([g \in UNION {GenresOf[b] : b \in read} |->
                          Cardinality(WithGenre(read, g))]))

NewOfGenre(v, g) == First(GenreLimit, NewestFirst(WithGenre(Visible(v), g)))

(* A genre with few books is completed by the other books of its authors.   *)
BooksOfGenre(v, g) ==
  LET books == NewOfGenre(v, g)
      authors == {AuthorOf[b] : b \in WithGenre(Catalogued, g)} \ {None}
      related == {b \in Visible(v) \ Range(books) : AuthorOf[b] \in authors}
      more == IF Len(books) < RelatedBelow
              THEN First(GenreLimit - Len(books), NewestFirst(related))
              ELSE <<>>
  IN  AvailableFirst(v, books \o more)

PopularInGenre(v, g) ==
  LET lent == {l \in ReturnedLoans(None, 1) : g \in GenresOf[LentBook(l)]}
  IN  IF lent = {}
      THEN BooksOfGenre(v, g)
      ELSE Keep(First(GenreLimit, MostLent(lent)), Visible(v))

GenreSections(v) ==
  LET genres == GenresOfHistory(v)
  IN  [i \in 1 .. 2 * Len(genres) |->
         LET g == genres[(i + 1) \div 2]
         IN  IF i % 2 = 1
             THEN Section("because-you-like", BooksOfGenre(v, g))
             ELSE Section("popular-in-genre", PopularInGenre(v, g))]

(* A reader without genres is offered the genre lent most.                 *)
SeedSections(v) ==
  LET lent == GenresByLoans(ReturnedLoans(None, 4))
      books == NewOfGenre(v, Head(lent))
  IN  IF GenresOfHistory(v) # <<>> \/ lent = <<>>
      THEN <<>>
      ELSE <<Section("because-you-like", books), Section("popular-in-genre", books)>>

(* The semester's ranking, or the year's.                                  *)
RankingSections(v) ==
  LET lent(age) == First(HomeLimit, MostLent(ReturnedLoans(v.school, age)))
      short == Len(lent(2)) < Minimum
      kind == IF short THEN "year" ELSE "semester"
      popular == IF short THEN lent(3) ELSE lent(2)
      books == IF popular = <<>>
               THEN NewBooks(v)
               ELSE Keep(popular, Visible(v))
  IN  <<Ranking(kind, books, 1)>>

PopularGenres(v) ==
  IF History(v.user) # {}
  THEN <<>>
  ELSE LET lent == First(2, GenresByLoans(ReturnedLoans(None, 4)))
       IN  [i \in DOMAIN lent |-> Section("popular-genre", NewOfGenre(v, lent[i]))]

ReaderOffers(v) ==
  <<Section("recommended", Recommended(v))>>
  \o PersonalSections(v) \o GenreSections(v) \o SeedSections(v)
  \o RankingSections(v) \o PopularGenres(v)
  \o <<Section("new", NewBooks(v)), Section("discovery", NewBooks(v))>>

ReaderPage(v, offers) ==
  LET page[n \in 0 .. Len(offers)] ==
        IF n = 0 THEN <<>> ELSE AddCarousel(v, page[n - 1], offers[n])
  IN  RankingFifth(page[Len(offers)])

ReaderHome(v) == ReaderPage(v, ReaderOffers(v))

-----------------------------------------------------------------------------
(* What changes the tables: cataloguing, circulation and time, in requests    *)
(* that run alone, of accounts that stay active and return in time.  How      *)
(* requests overlap is in Circulation, CirculationSessions and Catalogue.   *)

Init ==
  /\ shelf = [b \in Books |-> IF b \in Stock THEN "active" ELSE None]
  /\ copies = [c \in Copies |-> IF c \in Shelved THEN "AVAILABLE" ELSE None]
  /\ loans = [l \in LoanIds |-> None]
  /\ reservations = [r \in ReservationIds |-> None]

CreateBook(b) ==
  /\ shelf[b] = None
  /\ \A earlier \in Books : earlier < b => shelf[earlier] # None
  /\ shelf' = [shelf EXCEPT ![b] = "active"]
  /\ UNCHANGED <<copies, loans, reservations>>

DeleteBook(b) ==
  /\ shelf[b] = "active"
  /\ shelf' = [shelf EXCEPT ![b] = "inactive"]
  /\ UNCHANGED <<copies, loans, reservations>>

(* BookCopySchema.state: AVAILABLE unless the body says otherwise.         *)
CreateBookCopy(c, state) ==
  /\ copies[c] = None /\ BookOf[c] \in Catalogued
  /\ copies' = [copies EXCEPT ![c] = state]
  /\ UNCHANGED <<shelf, loans, reservations>>

(* Any state, and the loans and reservations of the copy stay.             *)
PatchCopy(c, state) ==
  /\ copies[c] # None /\ copies[c] # state
  /\ copies' = [copies EXCEPT ![c] = state]
  /\ UNCHANGED <<shelf, loans, reservations>>

OutBy(u) == {l \in LoansOf(u) : loans[l].status = "ACTIVE"}

NewLoan(u, c) ==
  /\ Cardinality(OutBy(u)) < MaxActiveLoans
  /\ LoanIds # Lent
  /\ loans' = [loans EXCEPT ![Min(LoanIds \ Lent)] =
                 [user |-> u, copy |-> c, status |-> "ACTIVE", age |-> 0, returned |-> 0]]
  /\ copies' = [copies EXCEPT ![c] = "BORROWED"]

CreateLoan(u, c) ==
  /\ SchoolOf[c] = HomeSchool[u]
  /\ copies[c] = "AVAILABLE"
  /\ NewLoan(u, c)
  /\ UNCHANGED <<shelf, reservations>>

PickUp(r) ==
  /\ r \in Reserved /\ reservations[r].status = "READY"
  /\ copies[reservations[r].copy] = "RESERVED"
  /\ NewLoan(reservations[r].user, reservations[r].copy)
  /\ reservations' = [reservations EXCEPT ![r].status = "FULFILLED"]
  /\ UNCHANGED shelf

(* promote_copy_to_next_reservation, with `rows` for the reservations.      *)
Waiting(rows, c) ==
  {r \in Reserved : /\ rows[r].status = "ACTIVE" /\ rows[r].book = BookOf[c]
                    /\ HomeSchool[rows[r].user] = SchoolOf[c]}
Promote(rows, c) ==
  IF Waiting(rows, c) = {}
  THEN /\ copies' = [copies EXCEPT ![c] = "AVAILABLE"]
       /\ reservations' = rows
  ELSE /\ copies' = [copies EXCEPT ![c] = "RESERVED"]
       /\ reservations' = [rows EXCEPT ![Min(Waiting(rows, c))] =
                             [@ EXCEPT !.status = "READY", !.copy = c]]

ReturnLoan(l) ==
  /\ l \in Lent /\ loans[l].status = "ACTIVE"
  /\ LET done == {m \in Lent : loans[m].status = "RETURNED"}
     IN  loans' = [loans EXCEPT ![l].status = "RETURNED",
                                ![l].returned = Cardinality(done) + 1]
  /\ Promote(reservations, loans[l].copy)
  /\ UNCHANGED shelf

OpenOf(u) ==
  {r \in Reserved : reservations[r].user = u /\ reservations[r].status \in Open}

CreateReservation(u, b) ==
  /\ u \in CanReserve /\ b \in Active
  /\ \A r \in OpenOf(u) : reservations[r].book # b
  /\ Cardinality(OpenOf(u)) < MaxActiveReservations
  /\ AvailableCopies(b, HomeSchool[u]) = 0
  /\ ReservationIds # Reserved
  /\ reservations' = [reservations EXCEPT ![Min(ReservationIds \ Reserved)] =
                        [user |-> u, book |-> b, copy |-> None,
                         status |-> "ACTIVE", age |-> 0]]
  /\ UNCHANGED <<shelf, copies, loans>>

(* A reservation that is ready passes its copy on.                         *)
CancelReservation(r) ==
  LET rows == [reservations EXCEPT ![r].status = "CANCELLED"]
  IN  /\ r \in Reserved /\ reservations[r].status \in Open
      /\ IF reservations[r].copy # None
         THEN Promote(rows, reservations[r].copy)
         ELSE reservations' = rows /\ UNCHANGED copies
      /\ UNCHANGED <<shelf, loans>>

(* Every loan and reservation grows older.                                 *)
TimePasses ==
  LET older(age) == Min({age + Stride, LastAge})
  IN  /\ loans' = [l \in LoanIds |->
                     IF l \in Lent THEN [loans[l] EXCEPT !.age = older(@)] ELSE None]
      /\ reservations' = [r \in ReservationIds |->
                            IF r \in Reserved
                            THEN [reservations[r] EXCEPT !.age = older(@)] ELSE None]
      /\ <<loans, reservations>>' # <<loans, reservations>>
      /\ UNCHANGED <<shelf, copies>>

Next ==
  \/ \E b \in Books : CreateBook(b)
  \/ \E b \in Withdrawn : DeleteBook(b)
  \/ \E c \in Copies, state \in {"AVAILABLE"} \cup PatchedTo : CreateBookCopy(c, state)
  \/ \E c \in Patched, state \in PatchedTo : PatchCopy(c, state)
  \/ \E u \in Readers, c \in Copies : CreateLoan(u, c)
  \/ \E r \in ReservationIds : PickUp(r)
  \/ \E l \in LoanIds : ReturnLoan(l)
  \/ \E u \in Readers, b \in Wanted : CreateReservation(u, b)
  \/ \E r \in ReservationIds : CancelReservation(r)
  \/ TimePasses

Spec == Init /\ [][Next]_vars

-----------------------------------------------------------------------------
(* Properties.                                                             *)

Guests == {Guest(s) : s \in Schools}
Staff == {SuperAdmin} \cup {Librarian(s) : s \in Schools}
Students == {Reader(u) : u \in Readers}
Accounts == Staff \cup Students
Searches ==
  {NoFilter, [NoFilter EXCEPT !.active = FALSE]}
    \cup {[NoFilter EXCEPT !.q = {}, !.word = state] : state \in States}

GuestHomes(g) ==
  UNION {{GuestHome(g, shuffled, picked) : shuffled \in Shuffles(g)} : picked \in Samples(g)}

BooksOn(page, kinds) ==
  UNION {Range(page[i].books) : i \in {n \in DOMAIN page : page[n].kind \notin kinds}}

(* Whoever is shown a book may open it: on the lists, searched or not, on     *)
(* a guest's home page and recommendations, among what is suggested to an     *)
(* account, and on a reader's home page but for the sections fed by what     *)
(* other readers borrowed or she has read.  Each query has the scope of      *)
(* get_book written out anew.                                              *)
PagesOpen ==
  /\ \A v \in Guests \cup Accounts, filter \in Searches :
       \A b \in Listed(v, filter) : Opens(v, b)
  /\ \A g \in Guests :
       /\ \A picked \in Samples(g) :
            \A b \in BooksOn(GuestHome(g, GuestPayload(g), picked), {}) : Opens(g, b)
       /\ \A target \in Catalogued, limit \in RecommendationLimits :
            \A b \in Range(Recommendations(g, target, limit)) : Opens(g, b)
  /\ \A v \in Accounts : \A b \in Range(Suggested(v, Books, 10)) : Opens(v, b)
  /\ \A v \in Students :
       \A b \in BooksOn(ReaderHome(v), {"recommended", "recently-read", "because-you-read"}) :
         Opens(v, b)

(* For everyone but a reader the filters on the state divide what she may     *)
(* see: however long a page is, each active book is on one page of one of    *)
(* the five lists, once, and shows the state that list was filtered by,     *)
(* though SQL derives one and Python the other.                            *)
PagesPartition ==
  \A v \in Guests \cup Staff :
    \A state \in States, size \in 1 .. Newest :
      LET filter == [NoFilter EXCEPT !.state = state]
          pages == Pages(Cardinality(Listed(v, filter)), size)
      IN  FlattenSeq([n \in 1 .. pages |-> Page(v, filter, n, size)])
            = OldestFirst({b \in Visible(v) : DerivedState(b, v.school) = state})

Useful(page, most) ==
  /\ Len(page) <= most
  /\ \A i \in DOMAIN page :
       /\ IsInjective(page[i].books)
       /\ Len(page[i].books) \in page[i].minimum .. SectionSize
       /\ page[i].kind \in RankingKinds =>
            /\ i = Min({5, Len(page)})
            /\ \A j \in DOMAIN page \ {i} : page[j].kind \notin RankingKinds

(* Whatever the shuffle, the sample and the history, a home page keeps to its *)
(* sections; a section shows no book twice, enough of them and not too many;  *)
(* its one ranking is the fifth or the last; and with enough books in sight,  *)
(* and a limit that lets a section have enough, the page is not empty.      *)
SectionsUseful ==
  /\ \A g \in Guests : \A page \in GuestHomes(g) :
       /\ Useful(page, GuestSections)
       /\ Cardinality(Visible(g)) >= Minimum => page # <<>>
  /\ \A v \in Students :
       /\ Useful(ReaderHome(v), ReaderSections)
       /\ Min({HomeLimit, Cardinality(Visible(v))}) >= Minimum => ReaderHome(v) # <<>>

SameAuthor(s, i) ==
  AuthorOf[s[i]] # None /\ AuthorOf[s[i]] = AuthorOf[s[i - 1]]

(* Recommendations for a book never name it, no book twice and no more than   *)
(* asked for; and an account sees three books of one author in a row only     *)
(* where nothing else is left to put between them.                         *)
RecommendationsDiverse ==
  \A v \in Guests \cup Accounts, target \in Catalogued, limit \in RecommendationLimits :
    LET s == Recommendations(v, target, limit)
    IN  /\ IsInjective(s) /\ target \notin Range(s) /\ Len(s) <= limit
        /\ v \in Accounts =>
             \A i \in 3 .. Len(s) :
               SameAuthor(s, i) /\ SameAuthor(s, i - 1) =>
                 \A j \in i .. Len(s) : SameAuthor(s, j)
=============================================================================
