# Verification of the school-library backend

TLA+ models, TLC runs and TLAPS proofs for the backend in `src/` (FastAPI,
SQLAlchemy over an async driver, PostgreSQL). Paths below are relative to the
repository.

## 1. Inventory

### Components

| Part | Code | State it keeps | Operations that change state |
|---|---|---|---|
| Loans | `src/src/routers/loans.py` | `loans`, `book_copies.state` | `create_loan` (lend, or pick up a reservation), `return_loan`, `undo_return` |
| Reservations | `src/src/routers/reservations.py` | `reservations`, `book_copies.state` | `create_reservation`, `cancel_reservation`, `restore_reservation` |
| Queue of a title | `src/src/utils/reservation_queue.py` | the same two tables | `lock_book_queue`, `promote_copy_to_next_reservation` |
| Copies | `src/src/routers/copies.py`, `create_book_copy` in `routers/books.py` | `book_copies` | create, patch, delete |
| Circulation rules | `src/src/circulation.py`, `routers/circulation_policies.py` | `circulation_policies` | upsert of a policy; limits, due dates, suspensions |
| Library calendar | `src/src/routers/library_calendar.py` | `school_non_working_days` | day, range, month, national holidays |
| Accounts | `src/src/routers/users.py`, `routers/account_activation.py`, `services/account_activation.py` | `users`, invitations, attempts, reset-undo records, audit | create, update, deactivate, invite, complete, reset, undo reset, revoke, capabilities |
| Tokens | `src/src/routers/auth.py`, `src/src/security.py` | `revoked_tokens`, `users.auth_version` | login, refresh rotation, logout |
| Catalogue | `src/src/routers/books.py`, `services/book_catalog.py`, `routers/genres.py`, `routers/authors.py` | `books`, `book_school_overrides`, genres, authors | create, update, customize, deactivate |
| Schools | `src/src/routers/schools.py` | `schools` | create, first administrator, delete with its cascades |
| Pages of the catalogue | `src/src/routers/books.py` | none of its own; computed from all the others | none: lists, one book, suggestions, home pages, recommendations |
| Recommendation profile | `services/preference_profile.py` | none | none |
| Shell | `src/src/app.py`, `database.py`, `limiter.py`, `settings.py`, `schemas.py`, `permissions.py`, `utils/` | none | session per request |

### How they interact

There is no in-process state shared by requests: components meet in the tables.
`loans.py` and `reservations.py` both call `reservation_queue.py`, which writes
the rows of the other: a return makes somebody's reservation READY, a
cancellation moves a copy, an undone return takes a kept copy away. Both read
the limits of `circulation.py`. `copies.py` and `books.py` write the same
`book_copies.state` and know nothing of the queue. `users.py` closes accounts
that queues and loans still name, `auth.py` reads the `auth_version` that they move,
and the pages of `books.py` read everything the others write.

### What is hard

* **Stale reads.** Every request has one `AsyncSession` with an identity map, at
  READ COMMITTED. A handler reads its target, waits for the row lock of
  `lock_book_queue`, and reads it again `FOR UPDATE`. That second read locks the
  row but does not refresh attributes that were loaded before, except in
  `create_loan`, which asks for `populate_existing` (`loans.py:141-148`,
  `176-180`). The relations loaded with `selectin` widen this: the first read of
  a loan or reservation also fixes the session's view of its copy's state and of
  the readers' `is_active`.
* **Lock order.** `create_loan` locks the title and then the reader,
  `create_reservation` the reader and then the title.
* **Three tables, one fact.** Where a copy is follows from `book_copies.state`,
  from open loans and from READY reservations, written by six handlers.
* **Long legal sequences.** `undo_return` and `restore_reservation` reopen rows
  after anything may have happened to the copy and to the reader.
* **Uniqueness at flush.** Two partial unique indexes refuse a commit late; the
  unit of work sends UPDATEs in primary-key order, and the index is checked at
  each.
* **Accounts and tokens.** Invitations, activation, reset and its undo race each
  other, and take the locks of the user and of the code in both orders; a
  refresh token may be presented twice at once, or while the account changes;
  attempts are counted without a lock.
* **Get or create.** Terms, overrides, calendar days, policies and accounts are
  looked up first and inserted then. The loser of a race meets a unique key; in
  some handlers it rolls its session back and goes on with expired objects, in
  others it fails.
* **History that is rewritten.** Penalties and suspensions are computed from past
  loans, and an undone return takes its place in the past away.
* **One rule, many queries.** Who may see a book, and in which state it is, is
  written anew in every list, suggestion, home page and recommendation.

### What makes each part correct

* Loans, reservations, copies: a copy has one place (*custody*); nobody exceeds
  the policy's limits; no copy idles while someone waits; first come, first
  served; history is not rewritten; concurrent requests have the effect of
  requests that run alone; every request ends.
* Circulation rules and calendar: the due date is a working day within the
  policy; penalties only shorten it, down to a minimum; a suspended reader
  borrows again after the suspension and not before.
* Accounts: at most one usable invitation; a code is used once; an undone reset
  restores exactly what it took, or fails; no update is lost.
* Tokens: a refresh token yields one successor; a token of an older
  `auth_version` opens nothing.
* Catalogue: the merge of a global book and a school's override shows each
  school its own values and nobody else's; a saved customization is what was
  asked for, whatever overlapped with it.
* School office: a saved range of days stays marked; one person has one account.
* Pages: whoever is shown a book may open it; filters and pages divide the
  catalogue; sections keep their sizes; recommendations stay diverse.

`PROJECT.json` lists the components with their status and the hazards with their
lines.

## 2. Modules

| Module | What it is |
|---|---|
| `Circulation.tla` | The handlers of loans, reservations and copies as atomic requests over the tables. |
| `CopyCustody.tla` | The abstract promise: each copy is off, on the shelf, kept for a reader or with a reader. |
| `CirculationSessions.tla` | The same handlers as concurrent transactions: first read, lock waits, stale views, deadlock, rollback. |
| `LoanTerms.tla` | Due dates, lateness, penalties and suspensions of one reader in time. |
| `Accounts.tla` | One account, its invitations and undo records, and the requests that race for them, statement by statement. |
| `AccountSessions.tla` | Composes `Accounts` with the refresh tokens of `auth.py`. |
| `StaffRequests.tla` | What PostgreSQL gives a staff request: keys and rows held to the commit, waits, deadlock. |
| `Catalogue.tla` | Books, genres and authors, and the customizations of a school. |
| `SchoolOffice.tla` | Calendar, rules, delegated capabilities, registrations. |
| `Administration.tla` | Composes `Catalogue` and `SchoolOffice` over one database, and deletes schools. |
| `CatalogueViews.tla` | What the lists, the home pages and the recommendations show, as functions of the tables. |
| `CirculationProofs`, `DeskProofs`, `SerialProofs`, `LoanTermsProofs`, `AccountProofs`, `TokenProofs`, `AdministrationProofs`, `ViewsProofs` | TLAPS proofs, for all values of the constants (section 5). |
| `MC*.tla` | Small instances; each run is one `.cfg` of them. |

`PROJECT.json` maps each definition to the lines it models.

### Circulation

State: `copyState` (`book_copies.state`, with `"absent"` for no row), `loans`
and `reservations` (rows by primary key, status `"none"` before the insert),
`activeReaders` (`users.is_active`) and `openBooks` (`books.is_active`).

Every handler is an operator `XWith(target, seen)`: `seen` is the session's view
of its rows (`SeenLoan`, `SeenReservation`, `SeenCopy`, `SeenReaders`). Checks
the code makes on attributes loaded earlier use `seen`; queries evaluated by
PostgreSQL use the tables. In this module `seen` is read in the same step, so
the view is current. A refused request changes nothing and is not a step.

| Action | Code |
|---|---|
| `Lend`, `Pickup` | `create_loan`, without and with a `reservation_id` |
| `ReturnLoan`, `UndoReturn` | `return_loan`, `undo_return` |
| `CreateReservation`, `CancelReservation`, `RestoreReservation` | the three handlers of `reservations.py` |
| `PatchCopy`, `DeleteCopy`, `CreateCopy` | `patch_copy`, `delete_copy`, `create_book_copy` |
| `DeactivateReader`, `DeactivateBook` | `delete_user`, `delete_book` |

`Promoted` and `PromotedState` are the loop of
`promote_copy_to_next_reservation`; `PromoteCopy` adds the unique index and the
write of the copy's state. `WriteState` is the unit of work: a column is written
only when its new value differs from the value the session loaded.

Three specifications share the actions. `DeskSpec` is the desk: lend, return,
reserve, cancel, delete idle copies, close accounts and titles. `CarefulSpec`
adds undo, restore and copy edits, with staff who undo a return only while the
copy is in the building and edit by hand only copies nobody borrows or waits
for. The code enforces neither: it accepts everything `Spec` allows. A property
is checked under the widest of the three in which the code provides it, and the
difference is the content of the claim.

### CopyCustody

What circulation promises of a copy, without tables: it goes to a reader only
from the shelf or from being kept for that same reader; after being with a
reader it is kept or shelved before it is given out again; a return is undone
only for someone who has had the copy. `Circulation!ImplementsCustody` maps each
copy to its place (`PlaceOf`) and past readers and is checked as a refinement.

### CirculationSessions

`req[p]` is a request: its operation, how far it is, its target and what its
session has read. `bookLock` and `readerLock` are the row locks of
`lock_book_queue` and `lock_borrower`.

* `Begin...`: the first, unlocked read, which fills the session's view
  (`Begun`).
* `LockBook`, `LockBorrower`, `CommitLoan`: `create_loan`. Its second lookup is
  refreshed, so `CopyIsFree` reads the table; the reader's `is_active` is from
  the view. The copy's row stays locked from there on (`HoldsCopy`).
* `LockReserver`, then `Serve`: `create_reservation`, reader first.
* `Serve`: the rest of the other handlers once the book's lock is granted, with
  the view of the first read. Everything after that lock is one step: the
  handler holds the lock on the title's queue to its commit, and the writes
  become visible together at that commit.
* `WritePatch`: `patch_copy`, which takes no queue lock and waits only for the
  copy's row.
* `DeadlockVictim`: PostgreSQL aborts a request of a waiting circle. `Abort`: a
  refusal whose reason is not modelled (an overdue or suspended reader), or a
  lost connection; the transaction is rolled back.

`Overlapping` selects the operations whose requests interleave; those in `Alone`
run from first read to commit with the title's lock free.

### LoanTerms

One reader, because every query of `circulation.py` is about one: the clock, her
school's saved rules and marked days, and her loans with their dates. `Lend` is
the rest of `create_loan` (`MayBorrow`, then `DueDate`), `Return` and
`UndoReturn` the handlers, `Tick` the clock. There are `Instants` to a day,
because the code compares some times as timestamps and others as dates.
`Reductions` is `active_overdue_reductions`, with its loop over the returns in
order as a recursive function; `PenaltyMatchesHistory` compares it with a definition that looks at the
whole history instead. `ListedOverdue` is the staff's situation filter.

### Accounts and AccountSessions

`Accounts` has one row of `users`, the rows of `account_activation_tokens` and
`password_reset_undos`, and the count of failed attempts. A request reads the
user once and keeps what it read (`seen`, the identity map). A statement that
locks many rows works as PostgreSQL does it: `cand` are the rows it saw when it
was issued, it waits for them one by one and looks again at each before it
takes it (`Find`/`Found` for the newest live code, `Sweep`/`SweepRow`/`Swept`
for the revocation of the others). `Regenerate`, `Reset`, `UndoReset`, `Revoke`,
`Complete`, `SetPassword` and `Deactivate` are the commits; `Fail` is a refused
code that counts and may lock the code, `Refused` any other refusal. `Time`
has the lapses: a code or an undo record expires, attempts grow old, a locked
code is unlocked.

`AccountSessions` adds the refresh tokens, `<<jti, auth_version>>`, and
`revoked_tokens`, whose unique jti makes the second of two insertions wait and
fail. `Login`, `Exchange`/`Insert`/`ReadUser`, then `Rotate` or `Logout`, are
the handlers of `auth.py`; `Accepts` is the condition of `get_current_user`.
Histories (`issued`, `ended`, `withdrawn`, `activations`, `root` and `parent` of
a token) exist for the properties only and no guard of the code's actions reads
them.

### StaffRequests, Catalogue, SchoolOffice, Administration

A request holds keys and rows to its end and may want one more; `WaitsFor`
makes the circles that `DeadlockVictim` breaks.

* `Catalogue`: `terms` stands for both genres and authors, which work alike; a
  row is named by the request that inserted it, so a deleted and created term is
  another row. `LookUp`, `InsertTerm` and `TermsExist` are get-or-create, with
  the loser's rollback and second look. `BeginUpdate`/`LockBook`/`CommitUpdate`
  is the global update, which replaces a collection by what the session has read
  (`Added`, `Removed`, `Applied`). `BeginCustomize`/`SelectOverride`/
  `InsertOverride`/`CommitCustomize` is `_apply_school_customization`; `Written`
  and `Held` are the unit of work over a row loaded before the lock.
  `Effective` is the merge of `resolve_book`.
* `SchoolOffice`: `BeginMark`/`BeginImport`/`SaveDays`, `DeleteDays`,
  `BeginPolicies`/`SavePolicies` (column by column against what was read),
  `BeginDelegate`/`SaveCapabilities`, `BeginRegister`/`InsertAccount`/
  `CommitAccount`, `BeginEdit`/`SaveAccount`, `CreateSchool`. `LookupHash` may
  map two CPFs to one hash, as the code provides for.
* `Administration` puts both on one database and adds `DeleteSchool` with the
  cascades of the foreign keys and the references that forbid it.

### CatalogueViews

The tables move as cataloguing, circulation and time move them, in short forms of
the same handlers. On them stand the queries of `routers/books.py` as operators:
scopes (`Opens` for `get_book`, `InScope`, `ReaderSees`), the state of a book
derived in SQL (`DerivedStateExpr`) and in Python (`DerivedState`), filters and
pages, suggestions, the guest's home page (`GuestHome`, for every shuffle and
every sample), the reader's (`ReaderHome`) and the recommendations
(`Recommendations`) with their scores, completion and diversification. The loops
of the handlers are recursive functions over sequences: what a comprehension keeps
(`Keep`, `Drop`), a stable sort (`Sorted`), the carousels added one offer after the
other (`GuestOffers`, `ReaderOffers`).

## 3. Runs

| Run | Module, specification | Instance | Properties |
|---|---|---|---|
| `desk` | `Circulation`, `DeskSpec` | 3 readers, 2 titles, 2 copies of one of them, 3 loans, 2 reservations, limits of 1 | `NoIdleCopyWhileWaiting`, `FirstComeFirstServed`, `LoanLimit`, `ReservationLimit` |
| `careful` | `Circulation`, `CarefulSpec` | 2 readers, 1 title, 2 copies, 2 loans, 3 reservations | `Custody`, `CustodyInv`, `ImplementsCustody` |
| `full` | `Circulation`, `Spec` | 2 readers, 1 title, 2 copies, 2 loans, 2 reservations | `TypeOK`, `ReservationShape`, `FulfilledByLoan`, `HistoryIsFinal` |
| `lending` | `CirculationSessions`, `SessionSpec` | 2 requests, 2 readers, 2 titles; lend, pickup, reserve overlap, return and cancel run alone | `OneLoanPerCopy`, `Custody`, `Serialized`, `LoanLimit` |
| `taking` | `CirculationSessions`, `SessionSpec` | 2 requests, 2 readers, 1 copy, 2 loans, 2 reservations; all operations but undo overlap | `LoanTakesFreeCopy` |
| `finish` | `CirculationSessions`, `FairSpec` | 2 requests, 1 copy, 1 loan, 1 reservation; lend, pickup, reserve overlap, returns and closed accounts between them | `RequestsFinish` |
| `terms` | `LoanTerms` | 3 loans, 2 instants a day, 6 days from a Monday, three sets of rules | `TypeOK`, `DueOnCountedDay`, `PenaltyMatchesHistory`, `SuspensionHonoured`, `ListedOverdueIsLate` |
| `codes` | `Accounts` | 2 requests, 2 codes, 1 undo record, attempts limited to 1 | `TypeOK`, `UsedOnce`, `UndoneNeverCompleted`, `WithdrawnStaysDead`, `AttemptsBounded`, `NobodyStuck` |
| `account_sessions` | `AccountSessions` | 2 requests, 2 exchanges, 3 refresh tokens of 1 login, 2 codes, 1 undo record | `OneLiveInvitation`, `SpentOnce`, `EndedSessionsStayEnded`, `UndoRestores` |
| `administration` | `Administration` | 2 requests after others, 2 schools, 1 book, 1 term, 3 CPFs of which two collide | `OneAccountPerPerson`, `CustomizationKept`, `SchoolsStayIsolated`, `RangeStaysMarked` |
| `pages` | `CatalogueViews` | 5 books, 4 copies in 2 schools, 2 readers, 2 loans, 1 reservation | `PagesOpen`, `PagesPartition`, `SectionsUseful`, `RecommendationsDiverse` |
| `double_return` | `CirculationSessions`, `SessionSpec` | 2 requests; lend and return overlap | violates `OneLoanPerCopy` |

### Bounds, and why they are enough

* **Circulation.** Three readers at one title let the queue hold an inactive
  reader between two active ones, and two copies let a second copy come back
  while the first is kept; the second title of `desk` lets one reader stand in
  two queues. In `lending` the two titles have a lock each, so that only the
  reader's lock keeps her limit. Three reservations in `careful` let a cancelled
  one be restored over a holder while a third waits. Two requests are enough for
  every conflict of one title or one reader: a third waits for the same locks,
  and the proofs of section 5 have no such bound. `LoanIds` and `ReservationIds`
  bound the length of a run. `taking` lets a copy be lent, come back, be kept
  for a reader, be cancelled, restored or picked up, and be lent again while
  another request that read it earlier is still waiting; `PatchedTo` bounds the
  edits by hand there to the one that takes a free copy away (lost). That
  accounts close meanwhile, and that returns are undone, is left to the theorem
  `FreeCopyTaken`. `finish` has one loan, which is lent and returned while
  others are reserved and picked up: what a loan enters does not decide who
  waits for whom.
* **Terms.** A day has two instants, so that a return can be late by the instant
  and not by the date. Six days from a Monday hold a holiday and the Saturday a
  due date must pass, and go on in the calendar beyond the clock. `Instants`,
  `LastDay` and the numbers of the rules are scaled down; the switches of
  `Plain` are those of `DEFAULT_POLICIES`, `Strict` and `Forgetting` set the
  others.
* **Accounts.** Two codes are the old and the new one of a reset; one undo record
  is what it leaves. The requests of `codes` that are in `Codes` overlap in
  pairs; generating a new code, setting a password and closing the account occur alone
  there. `KeysLeft` and `JtiLeft` bound the codes, records and tokens of a run.
  `Logins` leaves one login to three tokens, so that two refreshes of one token
  are in flight at once.
* **Administration.** Each slot serves one request, after a past that `Init`
  chooses (`Initial...`). Requests that share no table are not interleaved
  (`Together`, `Area`): they are served in the same way whether they overlap or
  not. `DeleteSchool` is taken when nothing is in flight; the rows of a request
  that is committed are one step.
* **Pages.** `Minimum`, `SectionSize`, `HomeLimit`, `GenreLimit` and
  `RecommendationLimits` are scaled down so that sections are completed, cut and
  dropped; the caps of 200, 50 and 6 rows on intermediate queries are never
  reached. `Stock` and `Shelved` are what the library begins with, `Withdrawn`,
  `Wanted`, `Patched` and `PatchedTo` what of it may change (one copy is kept or
  lost by hand), `Stride` how many
  bands of age pass at once. At most one author to a book; rows an ORDER BY
  leaves equal come in order of age.

Deadlock is not checked in any run: keys may be used up, a staff slot serves one
request, and nothing obliges a reader to come. Waiting for ever is a property
instead (`RequestsFinish`, `NobodyStuck`). Symmetry sets hold only values the
specification does not tell apart; the liveness run uses none.

### What holds only under a condition

Some properties are checked under less than all the code accepts, because more
would break them and no document of the repository promises more. Each is a
hazard in `PROJECT.json` with its note.

* `LoanLimit` holds as long as no return is undone, however requests overlap, and
  `ReservationLimit` at the desk. `undo_return`
  (`loans.py:415`) and `restore_reservation` (`reservations.py:454`) reopen rows
  without looking at the limits: a reader returns, borrows again, the return is
  undone, and she has one loan too many.
* `Serialized` and `Custody` hold while returns and cancellations run alone. A
  cancellation that waited decides on the row it read before
  (`reservations.py:345`): a reservation made READY meanwhile is cancelled
  without its copy going to the next reader.
* `OneLiveInvitation` holds when codes are issued one request at a time, and
  `UndoRestores` when besides no password is set but with a code: an undo writes
  from the user it read first, and a password that staff set for an account
  between two resets of it can be left in place by two undos that overlap.
* `PagesOpen` leaves out the three sections of the reader's home that are fed by
  what other readers borrowed or she has read herself, and the suggestions to
  guests.
* `SectionsUseful` promises a section of what is new when `Minimum` books are
  visible and `limit` is at least that: a caller may ask for less
  (`books.py:102`), and then the section has too few books to be shown.

### Finding

`double_return` is expected to fail. A test states that concurrent transactions
cannot create two loans for one copy (`src/tests/test_loans.py:210`). Two returns
of one loan overlap, the copy is lent in between, and the second return, which
still sees the loan ACTIVE, puts the lent copy back on the shelf
(`loans.py:321`); it is then lent again.

## 4. Fairness

`FairSpec` of `CirculationSessions` assumes that a request whose lock is free
again and again obtains it (strong fairness of the lock steps: PostgreSQL queues
waiters for a row), that a request with nothing to wait for proceeds (weak
fairness: every request has its own task), and that PostgreSQL's deadlock
detector fires on a circle that persists. Nothing is assumed of readers and
staff: arrivals, aborts and lone requests have no fairness. For accounts the
same is stated without fairness: `NobodyStuck` says that while a request is in
flight one can go on, or there is a circle for PostgreSQL to break.

## 5. Proofs

Everything here is proved for any number of readers, titles, copies, rows,
requests, codes, tokens, schools, books, terms and days, any history and any page
size. What is assumed of the constants is named in the module that declares them,
and TLC evaluates it:

* `CirculationAssumption`: keys and limits are naturals, every copy has a title,
  `None` is none of the values.
* `SessionAssumption`: operations are among those listed, `None` is neither a
  request nor an operation.
* `TermsAssumption`: loans and marked days are finitely many, a day has an
  instant, and the rules that may be saved, like the default ones, are in
  `Policy`: what `CirculationPolicyUpdate` lets through, `validate_recovery`
  included.
* `AccountsAssumption`, `SessionsAssumption`: keys are positive naturals, finitely
  many, and `None` is none of the values.
* `OfficeAssumption`, `CatalogueAssumption`, `AdministrationAssumption`: the
  values that stand for "no value", "as it was" and "inserted earlier" are no
  other values; the accounts that exist to begin with keep to the unique
  constraints, and the customizations are rows of their table.
* `ViewsAssumption`: books and genres are numbered, copies are finitely many, the
  sizes and limits are positive, a section that is large enough to be published is
  not too large to be (10 and 20 in `books.py`), and `None` is neither a state nor
  a flag.

Some theorems have a hypothesis more. `LendingAtOnce` is discussed with the
sessions below. `IssuersAlone`, for one live code, for ended sessions and for
undone resets, says that no operation that issues a code is among the overlapping
ones, and `NoPasswordSet`, for undone resets, that `set_password` does not occur:
it is how the run `account_sessions` is configured, and what happens otherwise is
told in section 3.

| Theorem | States |
|---|---|
| `CirculationProofs!TypeCorrect` | `Spec => []TypeOK` |
| `CirculationProofs!CustodyInvariant`, `CustodyHolds` | `CarefulSpec => []CustodyInv`, `[]Custody` |
| `CirculationProofs!HistoryStays` | `Spec => HistoryIsFinal` |
| `CirculationProofs!FulfilmentIsLoan`, `OnlyReadyHolds` | `Spec => []FulfilledByLoan`, `[]ReservationShape` |
| `CirculationProofs!CustodyImplemented` | `CarefulSpec => ImplementsCustody` |
| `DeskProofs!NoIdleCopy`, `FirstServed` | `DeskSpec => []NoIdleCopyWhileWaiting`, `[]FirstComeFirstServed` |
| `DeskProofs!LoansLimited`, `ReservationsLimited` | `DeskSpec => []LoanLimit`, `[]ReservationLimit` |
| `SerialProofs!LoansLimitedAtOnce` | `"undo" \notin Overlapping` implies `SessionSpec => []LoanLimit` |
| `SerialProofs!FreeCopyTaken` | `SessionSpec => LoanTakesFreeCopy` |
| `SerialProofs!SessionsImplementDesk` | `LendingAtOnce` implies `SessionSpec => DeskSpec` |
| `SerialProofs!RequestsSerialized`, `OneLoanAtATime` | under the same, `Serialized`, `[]OneLoanPerCopy` |
| `LoanTermsProofs!TermsTyped`, `SuspensionsHold` | `Spec => []TypeOK`, `[]SuspensionHonoured` |
| `LoanTermsProofs!DueWhenOpen` | `Spec => DueOnCountedDay` |
| `LoanTermsProofs!PenaltiesMatch`, `ReturnsInOrder` | `Spec => []PenaltyMatchesHistory`, and the order it speaks of exists |
| `LoanTermsProofs!OverdueIsLate` | `Spec => []ListedOverdueIsLate` |
| `AccountProofs!TypesKept`, `CodeUsedOnce` | `Spec => []TypeOK`, `[]UsedOnce` |
| `AccountProofs!AttemptsLimited` | `Spec => []AttemptsBounded` |
| `AccountProofs!UndoneStaysUncompleted`, `WithdrawnNeverLive` | `Spec => []UndoneNeverCompleted`, `[]WithdrawnStaysDead` |
| `AccountProofs!OneCodeLive` | `IssuersAlone` implies `Spec => []OneLiveInvitation` |
| `TokenProofs!TokenSpentOnce` | `SessionsSpec => []SpentOnce` |
| `TokenProofs!EndedForGood` | `IssuersAlone` implies `SessionsSpec => []EndedSessionsStayEnded` |
| `TokenProofs!UndoGivesBack` | `IssuersAlone` and `NoPasswordSet` imply `SessionsSpec => UndoRestores` |
| `AdministrationProofs!AccountsApart` | `Spec => []OneAccountPerPerson` |
| `AdministrationProofs!RangesMarked` | `Spec => RangeStaysMarked` |
| `AdministrationProofs!SchoolsApart`, `CustomizationsStick` | `Spec => SchoolsStayIsolated`, `CustomizationKept` |
| `ViewsProofs!ShownOpens`, `ListsPartition` | `Spec => []PagesOpen`, `[]PagesPartition` |
| `ViewsProofs!SectionsKeptUseful` | `Spec => []SectionsUseful` |
| `ViewsProofs!RecommendationsVary` | `Spec => []RecommendationsDiverse` |

**Custody.** `Custody` is not inductive. Cancelling a READY reservation passes on
the copy *its row* names, so the proof needs that a READY reservation has a copy
and an ACTIVE one has none; restoring needs that the copy kept in a cancelled row
is one of its own title; returning and undoing need that an entered loan names a
copy. `CustodyInv` adds these facts, and the run `careful` checks it. The proof
goes copy by copy: every request touches one copy (`OneCopy`), so each lemma
(`LendKeepsCustody`, ..., `RestoreKeepsCustody`) accounts for that copy and
shows that the others keep their loans and holders. `PromotedRows` says once
what the promotion loop does to the table. `Oldest` is a choice, shown to exist
by the well-foundedness of `<` on the naturals (`OldestInSet`).

**The refinement of custody.** Under `CustodyInv` the place of a copy is told by
one row, so `PlaceOf`, which chooses among rows, has no choice (`PlaceNow`).
`RefinementInv` adds that an entered reservation names a reader and that a loan
row not yet entered names no copy, so that entering it adds exactly one reader to
the past of one copy. A request that leaves alone the rows of other copies
(`Concerns`) leaves their places (`OthersStay`); for its own copy it is one of
four things: shelved, set aside, given out, given back (`Shelved`, `SetAside`,
`GivenOut`, `GivenBack`), each an action of `CopyCustody` or a stutter.

**The queue.** `FirstComeFirstServed` needs that a new reservation has a larger
key than every earlier one (`KeysInOrder`), and `NoIdleCopyWhileWaiting` that a
reservation is entered only where no copy is free. Every step of the desk either
enters one reservation (`Joined`) or none (`Settled`): it keeps rows going
forward, a copy it sets aside is for the oldest waiting active reader, a copy it
shelves leaves nobody waiting. The invariant follows from these two descriptions
alone.

**The limits.** `LimitsInv` carries, besides each limit, that the counted set is
finite, without which its cardinality says nothing; a step adds at most one
element to it, behind the check, or takes from it.

**The tables.** Under everything the routes accept, a loan's copy and reader are
never rewritten (`LoansKept`), which is why a fulfilled reservation stays
answered.

**Concurrent requests.** A request begins, waits for a lock, or ends and releases
all (`Advances`); the others go on as they were (`OthersGoOn`). Each proof about
them has these three kinds of step.

**A free copy.** `LoanTakesFreeCopy` needs no hypothesis on what overlaps. The
handlers that decide on old rows may write a wrong status, but not at another
title: `Titled` says that the copies in the rows are of their title, `Aims` that
what a request found before it waited is of the title it has named, and
`TakesFree` that behind the lock of the title the copy of a loan is available or
reserved, as `CopyIsFree` read it there. The rest is who could take it away.
Returns, cancellations, restorations and their undoing wait for that lock and
write no copy of another title (`Writes`, `TitleSpares`), another loan has another
title's lock, and an update of the copy by hand waits for its row (`WriteSpares`).

**The limit at once.** `LoanLimit` in the sessions excludes only `undo_return`.
Beside what `TakingInv` says, a loan that was granted has the row of its reader
locked and she is still under her limit (`CountsRight`): of what requests write,
only a loan that was granted adds to what is counted (`WriteCounted`), and
another such loan has another reader's lock. Without that lock two loans in two
titles both count right and both are entered.

**The sessions implement the desk.** `LendingAtOnce` says that only lending,
pickups and reservations overlap, and that no account is closed meanwhile; the
stale cancellation and the double return of section 3 show why it cannot be
dropped. The refinement is the identity on the tables, and the invariant is what
a request may rely on after it looked: `Remembers` (what it read before it waited
is still so, because rows keep their readers and accounts stay open) and `Relies`
(behind the book's lock its copy is still free; behind the reader's lock she is
still under her limit). The heart is that nobody else disturbs this
(`LoanLeavesOthers`, `ReservationLeavesOthers`, `ReturnLeavesOthers`,
`CancelLeavesOthers`): a loan that commits holds another book's lock and another
reader's, a reservation enters an empty row, a return or cancellation finds the
book's lock free. So when a request commits, the guard of the atomic handler
holds of the tables at that moment (`WrittenAsAtDesk`), and the theorems of the
desk carry over, whatever the order in which the locks are taken.

**Dates and penalties.** The code computes with loops, and TLAPS has no
induction over data here. Each loop is a recursive function over an interval of
naturals, and a statement about all its values is proved by its least
counterexample, which the well-foundedness of `<` gives (`LeastExists`).
`DueWhenOpen` needs first that the search for a day on which the library works
ends: marked days are finitely many and the Mondays are not (`SomeWorkingDay`).
Then the day found is the least one (`NextCountedOK`), and each turn of the loop
adds one working day to those between (`LoopCounts`).
`PenaltiesMatch` compares the two counters of the loop, as they are after any
number of returns, with the late returns that no run of good ones has come after
so far (`LoopIsHistory`): a late return adds itself, a run that is complete takes
all away, a shorter one takes none (`LateAdds`, `RunClears`, `RunGoesOn`).
`ReturnsInOrder` adds that the history is what it should be: returns have
different times (`Dates`), so they can be listed (`Sortable`).
`SuspensionHonoured` is inductive with `Dates`, which says that nothing is dated
in the future: a new loan is younger than every return, so the check of
`MayBorrow` covers all it is compared with, and a new return is younger than
every loan.

**Codes.** That a code activates the account once needs that the request that
uses it holds its row and that the row is live then, as `verify_invitation` reads
it again behind its lock. `AccountInv` says what a request has found (`Holding`):
a code it keeps or means to revoke is locked by it and live. What breaks this is
a step of another request, so the heart is `OthersHold`: whoever is careful with
rows that others hold (`Considerate`) leaves them what they found. The rest of
the invariant is about keys: a request that will issue a code has one left
(`Keys`), so that the key of a code in use is not given out again. There is one
lemma per action. With it `TypeOK` is all but proved; and `AttemptsBounded`
follows from counting those in flight with those that failed (`AttemptsInv`): an
attempt begins below the limit, and then only turns from the one into the other.

**Codes that are over.** That a code is dead says nothing of tomorrow, because
the undo of a reset brings one back. `HistoryInv` says which ones: a code is
`Retired` when it is revoked or used and is the previous code of no reset that
can still be undone. The previous code of a pending reset is dead and is that
reset's alone (`Replaced`), so its undo revives no other's; the code of a reset
that was undone, and every code that staff withdrew, is retired (`Reverted`,
`Withdrawn`). A request on its way has to be followed as well (`Progress`): an
undo that has gone on to the code has its record to itself, and a reset that will
write a record will revoke the code it names.

**One live code.** `LiveInv` needs `IssuersAlone`: whoever issues a code has taken,
or has still to take, every code that is live (`Sweeps`), which another issuer
would break.

**Ended sessions.** The version of an account only grows, but a session that was
ended is at the version of its time, and an undo restores the account of an
earlier time. `VersionInv` says of an active account that its version is not one
that was ended, and of one that waits for its activation that its version has been
given to nobody. An undo keeps this only if no session was opened since the
reset, which is so as long as the code of the reset, or of a reset that replaced
it, is unused. That is a chain of resets of any length; instead of following it,
`Reachable` says that there is a set of lapsed resets, closed under being
replaced, outside of which no version has been handed out since (`Lapsed`).
`RootInv` says that a rotated token keeps the version of the login it goes back
to, so the version decides.

**Undone resets.** An undo writes from a copy of the user that is older than its
locks, and only the columns in which that copy differs from what the reset
remembers. `BlankInv` shows why no column is missed: an account with a live code
is blank, without a password and waiting for its activation, and so is one that a
reset with a code to replace remembers (`Invited`); so an undo that finds its code
live reads a blank user and writes over a blank user, whatever has happened to
her in between (`Recalls`, `UndoFinds`). A deactivation that read an active
account might close one that has a code since, but then no code was live when it
began and none is issued beside it.

**Tokens.** `TokenInv` follows the jti: two exchanges past their insertion have
different ones (`Alone`), none of them revoked (`Fresh`), and a token that bought
a pair or a logout is revoked (`Gone`). So a commit finds that its token has
bought nothing. Nothing about the account is needed: whatever `Accounts` does
meanwhile leaves the tables of sessions alone.

**Staff requests.** A key of the database is held by one request at a time
(`Exclusive`), and `OfficeInv` extends the uniqueness of accounts to those that
are inserted and not committed: their keys are held by their request and are
those of no account (`AccountKeys`). So a commit adds an account that shares
nothing, whatever was looked up before. `RangeRead` keeps what a marking has
worked out from what it has read, which is all `RangesMarked` needs.

**Customizations.** A row is named by the request that inserted it, and that of a
request that is over is never inserted again (`Over`): a term deleted and created
is another row. `CustomInv` says that a customization refers to rows that are
there, and what a request has read of the one it has locked: the references that
are still there are the ones it read, and those it misses are gone
(`References`). Replacing them by what has been read is then the same as replacing
them by what is there. `SchoolsApart` asks less: which
commit a success is, whose customization it writes, and that a field of the
school's own is resolved without the shared record.

**Pages.** What a page shows is a function of the tables, so these four need no
invariant of the tables: they are proved of every state, whatever led to it, and
the work is in the functions. A loop over a sequence is a recursive function, and
nothing can be proved of it before it is known to exist: `LoopRuns` says that a
loop can be run, and `EveryTurn` that what each turn keeps holds after the last,
both from the well-foundedness of `<` on the naturals. On these stand the lemmas
about sequences: `KeepChooses` (what is kept is all that is in the set, in its
order), `SortedIs`, `DistinctIs`, `CatIs`.

* `ListsPartition`: `DerivationsAgree` says that the state counted in SQL and the
  one picked in Python by priority are the same; then the five lists are the parts
  of what is visible, and `FlattenPages` that pages of any size put one after the
  other are the rows, none skipped or shown twice.
* `RecommendationsVary`: each layer is a list of books, each once, without the
  target (`Without`), and completing keeps that. The loop of `_diversify_books`
  keeps `Varied`: if three books of one author stand in a row, then all that
  follows, *and all that is left to place*, is of that author. Without the second
  part it is not kept by a turn.
* `SectionsKeptUseful`: a turn of `add_public` or `add_carousel` leaves the page as
  it was or adds a section that `Shows` some of one offer (`Grown`), never after the
  page is full (`PageGrows`). Offers hold one ranking at most, so the page does
  (`GuestOffersAre`, `ReaderOffersAre`), and it is put fifth or last (`FifthIs`).
  The offer of what is new makes the first section, if no other has.
* `ShownOpens`: the offers are of what is visible, so what a page shows of them is,
  and what is in the scope of a list opens (`ScopeOpens`).

### Only model-checked

* **Liveness and `NobodyStuck`**, which speak of fairness and `ENABLED`, beyond
  what TLAPS proves.

## 6. Not modelled

* **In circulation**: a refusal for an overdue or suspended reader is `Abort` in
  the sessions and absent from the atomic model, where it would change nothing;
  what it depends on is `LoanTerms`. One school is modelled: every query of
  these handlers is scoped to the school of its user. Primary keys stand for
  queue order (`ORDER BY created_at, id`); the case where `created_at` inverts
  against the order of commits is a hazard. The first read of a handler is one
  snapshot, although it is several SELECTs.
* **Accounts**: attempts by origin, which work like attempts by user; the digest
  of a code; the printed activation sheet; signatures and password hashes, which
  are assumed to work. A code's expiry is judged when its row is found, where the
  code compares with the instant at which the request began; the failures leave
  the window of attempts together, where the window slides; a failed attempt and
  the lock it leads to are written with the commit of their request.
* **CPF**: check digits and HMACs, functions of a string.
* **Books**: the ISBN lookup and what it resolves from external data
  (`utils/apis.py`), and the layout of answers. A shared record has no
  description, so that a school that does not override it shows none.
* **Recommendation profile** (`services/preference_profile.py`): scores in
  floating point for one page, from the weights of `books.py`; nothing depends on
  them.
* **Schemas**: validation of single fields. The inputs of the models are values
  the schemas let through.
* **Migrations** other than the one unique index the ORM does not declare;
  **seeds**; wiring, settings and rate limiting of `app.py`.

## 7. Plan

1. *Done*: the modules, runs and proofs above.
2. `QueueOrder`: `created_at` apart from the key, and what first come, first
   served then means.
