--------------------------- MODULE MCDocumentRules ---------------------------
(* A known header list in two spellings, one with blank cells and one of no  *)
(* known column; a table of headers only; pages that speak strongly or       *)
(* weakly for a schema.                                                      *)
EXTENDS DocumentRules

Matches(b, c) == [s \in WithTable |-> IF s = "bank_statement" THEN b ELSE c]
Cells(norm, form, cells, blank, matches) ==
  [norm |-> norm, form |-> form, cells |-> cells, blank |-> blank, matches |-> matches]
Dated   == Cells("dated", 1, 4, FALSE, Matches(4, 0))
Dated2  == Cells("dated", 2, 4, FALSE, Matches(4, 0))
Blank   == Cells("blank", 1, 3, TRUE, Matches(0, 0))
Other   == Cells("other", 1, 2, FALSE, Matches(0, 0))

Table(h, n) == [head |-> h, size |-> n]
Scores == {<<3, 0, 0>>, <<1, 3, 0>>, <<1, 0, 0>>}
Tables == {<<>>, <<Table(Dated, 2)>>, <<Table(Dated2, 1)>>, <<Table(Dated, 0)>>,
           <<Table(Blank, 1)>>,
           <<Table(Dated, 1), Table(Dated, 1)>>, <<Table(Other, 1), Table(Dated, 1)>>}
McHeads == {Dated, Dated2, Blank, Other}
McPageKinds == [score : Scores, tables : Tables]
=============================================================================
