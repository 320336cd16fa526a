-------------------------- MODULE MCCatalogueViews --------------------------
EXTENDS CatalogueViews

CONSTANTS north, south, ann, bea, tolkien

(* Four books of one author and one of none; the last is of its own genre.   *)
MCGenresOf == [b \in Books |-> IF b = 5 THEN {2} ELSE IF b = 3 THEN {1, 2} ELSE {1}]
MCAuthorOf == [b \in Books |-> IF b \in {2, 5} THEN None ELSE tolkien]

(* The first book is in both schools, the fourth and fifth in neither.       *)
MCBookOf == <<1, 2, 1, 3>>
MCSchoolOf == <<south, south, north, south>>
MCHomeSchool == [u \in Readers |-> IF u = ann THEN south ELSE north]
=============================================================================
