------------------------------ MODULE Catalogue ------------------------------
(***************************************************************************)
(* The shared catalogue and what each school makes of it: books, the rows    *)
(* of genres and authors they point at, and the customizations of a school  *)
(* (src/src/routers/books.py, genres.py, authors.py and                     *)
(* src/src/services/book_catalog.py).                                       *)
(*                                                                         *)
(* The tables genres and authors work alike; a term is a row of either, its   *)
(* slug and the request that inserted it: one that is deleted and created    *)
(* again is another row.  The title stands for the fields of a book that are    *)
(* never empty, the description for those that may be.                      *)
(***************************************************************************)
EXTENDS StaffRequests

CONSTANTS
  Books,     \* books, named by their ISBN
  Terms,     \* slugs of genres and of authors
  Titles,
  Inherit    \* <field>_overridden is false

ASSUME CatalogueAssumption ==
  /\ None \notin Schools \cup Books \cup Terms \cup Titles
  /\ {Inherit, Keep} \cap (Titles \cup {None}) = {}
  /\ \A names \in SUBSET Terms : names \notin {Inherit, Keep}

VARIABLES
  terms,      \* rows of genres and authors: who inserted the row of a slug
  books,      \* rows of books with their book_genres and book_authors
  overrides,  \* rows of book_school_overrides, by school and book
  shelves     \* the schools that have copies of a book

catalogueVars == <<terms, books, overrides, shelves>>

NoBook == [status |-> "absent", title |-> None, terms |-> {}, added_by |-> None]
Catalogued == {b \in Books : books[b].status # "absent"}

(* A new override; like a term, it is another row than one deleted before. *)
NewOverride(p) ==
  [row |-> p, title |-> Inherit, description |-> Inherit, terms |-> Inherit]

-----------------------------------------------------------------------------
(* What a school sees.                                                     *)

(* Mutant of OverrideOf: the override is looked up by book alone.          *)
OverrideOfAnySchool(s, b) ==
  IF \E t \in Schools : overrides[t, b] # None
  THEN overrides[CHOOSE t \in Schools : overrides[t, b] # None, b]
  ELSE NewOverride(None)

(* load_book_overrides: the row of this school, or nothing.                *)
OverrideOf(s, b) ==
  IF overrides[s, b] = None THEN NewOverride(None) ELSE overrides[s, b]

(* resolve_book: field by field, the school's own or the shared one.  A     *)
(* shared record has a title and terms here, and no description.           *)
Effective(s, b) ==
  LET own == OverrideOf(s, b)
      base == books[b]
  IN  [title |-> IF own.title = Inherit THEN base.title ELSE own.title,
       description |-> IF own.description = Inherit THEN None ELSE own.description,
       terms |-> IF own.terms = Inherit THEN base.terms ELSE own.terms]

(* _book_visible_in_school: on the school's shelves, or on nobody's.       *)
VisibleIn(s, b) ==
  b \in Catalogued /\ (shelves[b] = {} \/ s \in shelves[b])

(* customization_fields.                                                   *)
Customized(s, b) ==
  {field \in {"title", "description", "terms"} : OverrideOf(s, b)[field] # Inherit}

-----------------------------------------------------------------------------
(* Terms: looked up by slug, created when missing.                         *)

TermKey(g) == <<"term", g>>
OverrideKey(s, b) == <<"override", s, b>>
BookKey(b) == <<"book", b>>

RowsOf(slugs) == {<<g, terms[g]>> : g \in slugs}
Present == {g \in Terms : terms[g] # None}

(* The rows this request has inserted and not committed.                   *)
OwnTerms(p) == {g \in Terms : TermKey(g) \in req[p].holds}
WithOwnTerms(p) ==
  [g \in Terms |-> IF g \in OwnTerms(p) THEN p ELSE terms[g]]

Resolving(p) == req[p].pc = "terms"
Unresolved(p) == req[p].names \ {row[1] : row \in req[p].got}

(* _get_or_create_*_by_name: a name that has a row is taken as it is; one   *)
(* that has none is inserted and flushed.                                  *)
LookUp(p, g) ==
  /\ Resolving(p) /\ g \in Unresolved(p)
  /\ IF g \in Present
     THEN Set(p, [req[p] EXCEPT !.got = @ \cup RowsOf({g})])
     ELSE Set(p, [req[p] EXCEPT !.pc = "insert term", !.wants = TermKey(g)])
  /\ UNCHANGED catalogueVars

(* The flush waits for another insertion of the slug.  When that one has     *)
(* committed, the request rolls back and reads the row, but every object it  *)
(* read before has expired, and its next use of one ends it.               *)
InsertTerm(p) ==
  LET g == req[p].wants[2]
  IN  /\ req[p].pc = "insert term" /\ Free(p, req[p].wants)
      /\ IF g \in Present
         THEN Rollback(p)
         ELSE Set(p, [req[p] EXCEPT !.pc = "terms", !.wants = None,
                        !.got = @ \cup {<<g, p>>}, !.holds = @ \cup {TermKey(g)}])
      /\ UNCHANGED catalogueVars

(* The rows that the request wants to point at are there.                  *)
TermsExist(p) == \A row \in req[p].got : row[2] \in {p, terms[row[1]]}
Resolved(p) == Resolving(p) /\ Unresolved(p) = {}

(* create_genre, create_author.                                            *)
CreateTerm(p, g) ==
  /\ New(p) /\ g \notin Present /\ FreeOfAll(TermKey(g))
  /\ terms' = [terms EXCEPT ![g] = p]
  /\ Commit(p)
  /\ UNCHANGED <<books, overrides, shelves>>

(* delete_genre, delete_author: the references go with the row.            *)
DeleteTerm(p, g) ==
  /\ New(p) /\ g \in Present
  /\ terms' = [terms EXCEPT ![g] = None]
  /\ books' = [b \in Books |-> [books[b] EXCEPT !.terms = @ \ {g}]]
  /\ overrides' = [sb \in Schools \X Books |->
       IF overrides[sb] = None \/ overrides[sb].terms = Inherit
       THEN overrides[sb]
       ELSE [overrides[sb] EXCEPT !.terms = @ \ {g}]]
  /\ Commit(p)
  /\ UNCHANGED shelves

-----------------------------------------------------------------------------
(* create_book.                                                            *)

BeginCreate(p, s, b, title, names) ==
  /\ New(p) /\ b \notin Catalogued
  /\ Set(p, [op |-> "create", pc |-> "terms", holds |-> {}, wants |-> None,
             school |-> s, book |-> b, title |-> title, names |-> names,
             got |-> {}])
  /\ UNCHANGED catalogueVars

(* The book, its references and the new terms in one commit; the ISBN is     *)
(* unique, and a reference to a row that is gone is refused.               *)
CommitCreate(p) ==
  LET r == req[p]
  IN  /\ r.op = "create" /\ Resolved(p)
      /\ IF r.book \in Catalogued \/ ~TermsExist(p)
         THEN Rollback(p) /\ UNCHANGED catalogueVars
         ELSE /\ books' = [books EXCEPT ![r.book] =
                   [status |-> "active", title |-> r.title, terms |-> r.names,
                    added_by |-> r.school]]
              /\ terms' = WithOwnTerms(p)
              /\ Commit(p)
              /\ UNCHANGED <<overrides, shelves>>

(* delete_book: only the flag.                                             *)
DeactivateBook(p, b) ==
  /\ New(p) /\ books[b].status = "active" /\ FreeOfAll(BookKey(b))
  /\ books' = [books EXCEPT ![b].status = "inactive"]
  /\ Commit(p)
  /\ UNCHANGED <<terms, overrides, shelves>>

(* create_book_copy puts the book on the school's shelves.                 *)
AddCopy(p, s, b) ==
  /\ New(p) /\ b \in Catalogued /\ s \notin shelves[b]
  /\ shelves' = [shelves EXCEPT ![b] = @ \cup {s}]
  /\ Commit(p)
  /\ UNCHANGED <<terms, books, overrides>>

-----------------------------------------------------------------------------
(* References replaced through the session: the rows to add and to remove    *)
(* are worked out from the collection as it was read.                      *)
Added(p) == req[p].got \ req[p].seen
Removed(p) == req[p].seen \ req[p].got

(* The two statements succeed against the references there are now.        *)
Applies(p, slugs) ==
  Added(p) \cap RowsOf(slugs) = {} /\ Removed(p) \subseteq RowsOf(slugs)
Applied(p, slugs) ==
  {row[1] : row \in (RowsOf(slugs) \cup Added(p)) \ Removed(p)}

(* _apply_global_book_update.  A changed title is flushed, and the row       *)
(* locked, by the first query for a term.                                  *)
BeginUpdate(p, b, title, names) ==
  /\ New(p) /\ b \in Catalogued
  /\ title \notin {Keep, books[b].title} \/ names # Keep
  /\ LET written == title \notin {Keep, books[b].title}
     IN Set(p, [op |-> "update", pc |-> IF written THEN "lock book" ELSE "terms",
             holds |-> {}, wants |-> IF written THEN BookKey(b) ELSE None,
             book |-> b, title |-> IF written THEN title ELSE Keep, replaces |-> names # Keep,
             names |-> IF names = Keep THEN {} ELSE names, got |-> {},
             seen |-> RowsOf(books[b].terms)])
  /\ UNCHANGED catalogueVars

LockBook(p) ==
  /\ req[p].pc = "lock book" /\ Free(p, req[p].wants)
  /\ Set(p, [req[p] EXCEPT !.pc = "terms", !.wants = None,
                           !.holds = @ \cup {BookKey(req[p].book)}])
  /\ UNCHANGED catalogueVars

(* Only a super administrator's update reaches the shared record; it locks   *)
(* the row at the latest now, for edited_by.                               *)
CommitUpdate(p) ==
  LET r == req[p]
      slugs == books[r.book].terms
  IN  /\ r.op = "update" /\ Resolved(p) /\ Free(p, BookKey(r.book))
      /\ IF r.replaces /\ ~(Applies(p, slugs) /\ TermsExist(p))
         THEN Rollback(p) /\ UNCHANGED catalogueVars
         ELSE /\ books' = [books EXCEPT
                   ![r.book].title = IF r.title = Keep THEN @ ELSE r.title,
                   ![r.book].terms = IF r.replaces THEN Applied(p, @) ELSE @]
              /\ terms' = WithOwnTerms(p)
              /\ Commit(p)
              /\ UNCHANGED <<overrides, shelves>>

(* The row may be another's until then.                                    *)
WantBook(p) ==
  /\ req[p].op = "update" /\ Resolved(p) /\ req[p].wants = None
  /\ ~Free(p, BookKey(req[p].book))
  /\ Set(p, [req[p] EXCEPT !.wants = BookKey(req[p].book)])
  /\ UNCHANGED catalogueVars

-----------------------------------------------------------------------------
(* _apply_school_customization, by the staff of school s.  The overrides of  *)
(* the school are loaded with the user who asks (School.book_overrides), and *)
(* are not loaded again: text is compared with what was there then.        *)

BeginCustomize(p, s, b, title, description, names) ==
  /\ New(p) /\ VisibleIn(s, b)
  /\ title # Keep \/ description # Keep \/ names # Keep
  /\ Set(p, [op |-> "customize", pc |-> "select", holds |-> {}, wants |-> None,
             school |-> s, book |-> b, title |-> title,
             description |-> description, replaces |-> names # Keep,
             names |-> IF names = Keep THEN {} ELSE names, got |-> {},
             loaded |-> overrides[s, b], seen |-> {}])
  /\ UNCHANGED catalogueVars

(* The collection of an override that does not override it is empty.       *)
OverrideTerms(o) == IF o.terms = Inherit THEN {} ELSE o.terms

(* Mutant of SelectOverride: the row is read without FOR UPDATE.           *)
SelectOverrideUnlocked(p) ==
  LET r == req[p]
      key == OverrideKey(r.school, r.book)
  IN  /\ At(p, "customize", "select")
      /\ IF overrides[r.school, r.book] = None
         THEN Set(p, [r EXCEPT !.pc = "insert override", !.wants = key])
         ELSE Set(p, [r EXCEPT !.pc = "terms",
                        !.seen = RowsOf(OverrideTerms(overrides[r.school, r.book]))])
      /\ UNCHANGED catalogueVars

(* SELECT ... FOR UPDATE: an override that is there is locked, and its       *)
(* collections, not its text, are read again under the lock; of one that is *)
(* being inserted nothing is seen.                                         *)
SelectOverride(p) ==
  LET r == req[p]
      key == OverrideKey(r.school, r.book)
  IN  /\ At(p, "customize", "select")
      /\ IF overrides[r.school, r.book] = None
         THEN Set(p, [r EXCEPT !.pc = "insert override", !.wants = key])
         ELSE /\ Free(p, key)
              /\ Set(p, [r EXCEPT !.pc = "terms", !.holds = {key},
                           !.seen = RowsOf(OverrideTerms(overrides[r.school, r.book]))])
      /\ UNCHANGED catalogueVars

(* The first customization inserts the row at once, and fails when another   *)
(* first one was quicker.                                                  *)
InsertOverride(p) ==
  LET r == req[p]
  IN  /\ At(p, "customize", "insert override") /\ Free(p, r.wants)
      /\ IF overrides[r.school, r.book] # None \/ r.book \notin Catalogued
         THEN Rollback(p)
         ELSE Set(p, [r EXCEPT !.pc = "terms", !.holds = {r.wants},
                               !.wants = None])
      /\ UNCHANGED catalogueVars

(* A text that is what was loaded is not written.                          *)
Written(asked, loaded, current) ==
  IF asked \in {Keep, loaded} THEN current ELSE asked

(* What the session holds of the override: what it loaded, unless that row   *)
(* has gone.                                                               *)
Held(r, current) ==
  IF r.loaded # None /\ r.loaded.row = current.row THEN r.loaded ELSE current

CommitCustomize(p) ==
  LET r == req[p]
      current == IF overrides[r.school, r.book] = None
                 THEN NewOverride(p) ELSE overrides[r.school, r.book]
      held == Held(r, current)
      slugs == OverrideTerms(current)
  IN  /\ r.op = "customize" /\ Resolved(p)
      /\ IF r.replaces /\ ~(Applies(p, slugs) /\ TermsExist(p))
         THEN Rollback(p) /\ UNCHANGED catalogueVars
         ELSE /\ overrides' = [overrides EXCEPT ![<<r.school, r.book>>] =
                   [row |-> current.row,
                    title |-> Written(r.title, held.title, current.title),
                    description |->
                      Written(r.description, held.description, current.description),
                    terms |-> IF r.replaces THEN Applied(p, slugs) ELSE current.terms]]
              /\ terms' = WithOwnTerms(p)
              /\ Commit(p)
              /\ UNCHANGED <<books, shelves>>

(* delete_book_customization.                                              *)
RestoreBook(p, s, b) ==
  /\ New(p) /\ VisibleIn(s, b)
  /\ overrides[s, b] # None /\ FreeOfAll(OverrideKey(s, b))
  /\ overrides' = [overrides EXCEPT ![<<s, b>>] = None]
  /\ Set(p, [Ended("done") EXCEPT !.op = "restore"])
  /\ UNCHANGED <<terms, books, shelves>>

-----------------------------------------------------------------------------
CatalogueBegin(p) ==
  \/ \E g \in Terms : CreateTerm(p, g) \/ DeleteTerm(p, g)
  \/ \E b \in Books :
       \/ DeactivateBook(p, b)
       \/ \E title \in Titles \cup {Keep}, names \in (SUBSET Terms) \cup {Keep} :
            BeginUpdate(p, b, title, names)
  \/ \E s \in Schools, b \in Books :
       \/ AddCopy(p, s, b) \/ RestoreBook(p, s, b)
       \/ \E title \in Titles, names \in SUBSET Terms :
            BeginCreate(p, s, b, title, names)
       \/ \E title \in Titles \cup {Keep}, description \in {Keep, None},
             names \in (SUBSET Terms) \cup {Keep} :
            BeginCustomize(p, s, b, title, description, names)

CatalogueStep(p) ==
  \/ \E g \in Terms : LookUp(p, g)
  \/ InsertTerm(p)
  \/ CommitCreate(p)
  \/ LockBook(p) \/ WantBook(p) \/ CommitUpdate(p)
  \/ SelectOverride(p) \/ InsertOverride(p) \/ CommitCustomize(p)

-----------------------------------------------------------------------------
(* A customization that has been saved shows the genres and authors it asked  *)
(* for, the text it asked for, and what it left out as it was, however        *)
(* customizations of the same book overlap with it, with each other and with *)
(* new or deleted terms; only a text that another has changed under way, and *)
(* that it asks to be what it was, stays as the other made it               *)
(* (_apply_school_customization, resolve_book).                             *)
CustomizationSticks ==
  \A p \in Requests : Succeeds(p) /\ req[p].op = "customize" =>
    \A s \in {req[p].school}, b \in {req[p].book} :
      LET r == req[p]
          was == OverrideOf(s, b)
          now == OverrideOf(s, b)'
          AskedAsLoaded(field) ==
            r.loaded # None /\ r.loaded.row = was.row /\ r[field] = r.loaded[field]
      IN  /\ \A field \in {"title", "description"} :
               now[field] = IF r[field] = Keep \/ AskedAsLoaded(field)
                            THEN was[field] ELSE r[field]
          /\ now.terms = IF r.replaces THEN r.names ELSE was.terms

(* What a school's staff customizes shows at that school and                 *)
(* nowhere else, and a change to the shared record never shows through a     *)
(* field that the school has made its own (resolve_book, load_book_         *)
(* overrides, _apply_global_book_update).                                   *)
SchoolsIsolated ==
  \A p \in Requests : Succeeds(p) =>
    /\ req[p].op = "customize" =>
         \A s \in Schools \ {req[p].school}, b \in Books :
           Effective(s, b)' = Effective(s, b)
    /\ req[p].op = "update" =>
         \A s \in Schools, b \in {req[p].book} :
           \A field \in Customized(s, b) :
             Effective(s, b)'[field] = Effective(s, b)[field]
==============================================================================
