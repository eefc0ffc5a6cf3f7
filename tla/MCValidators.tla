----------------------------- MODULE MCValidators -----------------------------
(* Short IBANs of one bank (the code asks for five characters) and ISINs     *)
(* that differ in a letter and two digits; two movements that cancel out and  *)
(* one the tolerance swallows.                                               *)
EXTENDS Validators

McAmounts == {-50, 2, 50}

McCodes ==
  {[kind |-> "iban", chars |-> <<10, 29, a, b>>] : a \in {0, 7, 35}, b \in {4, 9}}
  \cup {[kind |-> "isin", chars |-> <<30, 28, 0, 3, 7, a, 3, 3, 1, 0, b>>] :
          a \in {8, 10, 35}, b \in {0, 9}}
=============================================================================
