------------------------ MODULE MCChunkedExtraction ------------------------
(***************************************************************************)
(* Sections of up to five pages in windows of two pages with one in        *)
(* common.  A fee of 0 is printed on two pages under the same key.         *)
(***************************************************************************)
EXTENDS ChunkedExtraction

MCFields == {"institution", "opening_balance", "closing_balance", "portfolio_id"}
MCFieldLists ==
  {<<>>, <<"institution", "closing_balance">>, <<"portfolio_id", "closing_balance">>,
   <<"institution", "opening_balance", "closing_balance">>}
MCPageCounts == {1, 3, 5}
MCLines == [p \in 1 .. 5 |-> CASE p = 1 -> <<"t1">> [] p = 2 -> <<"t2", "fee">>
                               [] p = 3 -> <<>> [] p = 4 -> <<"fee", "t4">> [] OTHER -> <<"t5">>]
MCKey == [t \in {"t1", "t2", "t4", "t5", "fee"} |-> t]

\* What the theorem about the merged lines supposes holds here.
ASSUME LinesHaveKeys == KeysDiffer
=============================================================================
