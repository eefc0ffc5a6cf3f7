------------------------ MODULE MCTemplateLearning ------------------------
EXTENDS TemplateLearning, TLC

CONSTANTS d1, d2, d3, d4, d5, t1, t2, unseen, giro, k1, k2

\* A tenant with three documents of a layout nobody has a template for and one
\* of the seeded layout, and a second tenant with a document of that layout
\* which the built-in extractor reads in part.
MCTenantOf  == (d5 :> t2) @@ [d \in {d1, d2, d3, d4} |-> t1]
MCLayoutOf  == (d4 :> giro) @@ (d5 :> giro) @@ [d \in {d1, d2, d3} |-> unseen]
MCBuiltIn   == (d4 :> "empty") @@ (d5 :> "partial") @@ [d \in {d1, d2, d3} |-> "unknown"]
MCSeedScore == (unseen :> 0) @@ (giro :> 1)
=============================================================================
