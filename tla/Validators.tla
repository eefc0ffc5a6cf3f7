------------------------------ MODULE Validators ------------------------------
(***************************************************************************)
(* run_validators (pipeline/validator.py): twelve pure functions, one      *)
(* after the other, over one output.                                       *)
(*                                                                         *)
(* The output is described together with the document it was read from: a  *)
(* statement of signed movements and what became of each of its rows, or a *)
(* code and the characters read for it, and the place a field was grounded *)
(* at (pipeline/vlm/verifier.py). Amounts are in cents; the code's are     *)
(* floats, which differ from cents by less than half of one, and compares  *)
(* them with 0.02: of a difference of exactly two cents it depends on the  *)
(* rounding which way the comparison goes. Characters are                  *)
(* their values, 0 to 9 for digits and 10 to 35 for letters. A verdict     *)
(* that depends on spelling alone is that of a kind of value.              *)
(* The names of the initial states, the steps and the specification leave  *)
(* room for those of DocumentRules: one module proves things about both.   *)
(***************************************************************************)
EXTENDS Integers, SequencesExt

CONSTANTS
  MaxRows,
  Amounts,   \* movements, debits negative
  Codes,     \* [kind |-> "iban" or "isin", chars |-> ...] without their check digits
  NoValue    \* a balance that was not read

Opening   == 100
Tolerance == 2
Rounded   == Tolerance - 1  \* a float of two cents may be more than 0.02
TotalPages == 1
Letter(c) == c >= 10

ASSUME AmountsAssumption == Amounts \subseteq Int \ {0} /\ MaxRows \in Nat \ {0}
ASSUME NoValueAssumption == NoValue \notin Int
ASSUME CodesAssumption ==
  \A c \in Codes :
    /\ c.chars \in Seq(0..35) /\ Len(c.chars) > 2
    /\ Letter(c.chars[1]) /\ Letter(c.chars[2])
    /\ \/ c.kind = "iban"
       \/ c.kind = "isin" /\ Len(c.chars) = 11

VARIABLES
  moves,     \* the true movements, in order
  reading,   \* what became of each row of the statement
  out,       \* the FinalOutput
  today,     \* whether it is 29 February
  next,      \* the validator run next
  failures   \* pairs: validator, place

runVars == <<moves, reading, out, today, next, failures>>

SumOf(s) ==
  LET sum[k \in 0..Len(s)] == IF k = 0 THEN 0 ELSE sum[k - 1] + s[k] IN sum[Len(s)]
Distance(a, b) == IF a < b THEN b - a ELSE a - b
Off(a, b, t) == Distance(a, b) > t

------------------------------------------------------------------------------
(* What the extraction makes of a statement.                                 *)
RowReadings == {"right", "noBalance", "undated", "swapped", "missed"}

TrueBalance(i) == Opening + SumOf(SubSeq(moves, 1, i))
Debit(a)  == IF a < 0 THEN -a ELSE 0
Credit(a) == IF a > 0 THEN a ELSE 0

(* A row the statement prints no balance on, one with a number for a date,   *)
(* one whose amounts were taken for each other's column.                     *)
Transaction(i) ==
  LET a == IF reading[i] = "swapped" THEN -moves[i] ELSE moves[i]
  IN [debit |-> Debit(a), credit |-> Credit(a),
      dated |-> reading[i] # "undated",
      balance |-> IF reading[i] = "noBalance" THEN NoValue ELSE TrueBalance(i)]

(* The rows found, from the first to the last. *)
Rows ==
  LET found[i \in 0..Len(moves)] ==
        IF i = 0 THEN <<>>
        ELSE IF reading[i] = "missed" THEN found[i - 1] ELSE Append(found[i - 1], i)
  IN found[Len(moves)]
Transactions == [k \in DOMAIN Rows |-> Transaction(Rows[k])]

(* The two check digits of an IBAN, and the one of an ISIN, as issued.       *)
Expand(chars) ==
  FlattenSeq([i \in DOMAIN chars |->
    IF chars[i] < 10 THEN <<chars[i]>> ELSE <<chars[i] \div 10, chars[i] % 10>>])
Remainder(digits) ==
  LET r[k \in 0..Len(digits)] == IF k = 0 THEN 0 ELSE ((10 * r[k - 1]) + digits[k]) % 97
  IN r[Len(digits)]

IbanOf(chars) ==
  LET c == 98 - Remainder(Expand(SubSeq(chars, 3, Len(chars)) \o SubSeq(chars, 1, 2) \o <<0, 0>>))
  IN SubSeq(chars, 1, 2) \o <<c \div 10, c % 10>> \o SubSeq(chars, 3, Len(chars))

CrossSum(d) == ((2 * d) \div 10) + ((2 * d) % 10)
Weighed(digits) ==
  [i \in DOMAIN digits |-> IF (Len(digits) - i) % 2 = 0 THEN CrossSum(digits[i]) ELSE digits[i]]
IsinOf(chars) == Append(chars, (10 - (SumOf(Weighed(Expand(chars))) % 10)) % 10)

Issued(c) == IF c.kind = "iban" THEN IbanOf(c.chars) ELSE IsinOf(c.chars)

(* One digit read as another one, or all as they are. *)
Readings(chars) ==
  {chars} \cup {[chars EXCEPT ![i] = d] : i \in {j \in DOMAIN chars : chars[j] < 10}, d \in 0..9}

(* The place verify_vlm_result grounds a value at: a token and a window of   *)
(* tokens do not know their page.                                            *)
PageOf(place) == CASE place \in {"token", "window"} -> 0
                   [] place \in {"pattern", "substring"} -> 1

WithoutAccount(field) ==
  [opening |-> NoValue, closing |-> NoValue, totals |-> FALSE,
   columns |-> FALSE, account |-> FALSE, field |-> field]
Field(kind, chars, place) == [kind |-> kind, chars |-> chars, page |-> PageOf(place)]

StatementInit ==
  /\ \E n \in 1..MaxRows : moves \in [1..n -> Amounts] /\ reading \in [1..n -> RowReadings]
  /\ \E ends, totals, columns \in BOOLEAN :
       out = [opening |-> IF ends THEN Opening ELSE NoValue,
              closing |-> IF ends THEN TrueBalance(Len(moves)) ELSE NoValue,
              totals |-> totals, columns |-> columns, account |-> TRUE,
              field |-> Field("text", <<>>, "pattern")]

FieldInit ==
  /\ moves = <<>> /\ reading = <<>>
  /\ \/ \E c \in Codes : \E chars \in Readings(Issued(c)) :
          out = WithoutAccount(Field(c.kind, chars, "pattern"))
     \/ \E kind \in {"bic", "number8", "currency", "word3", "future", "old", "recent", "text"},
           place \in {"token", "window", "substring", "pattern"} :
          out = WithoutAccount(Field(kind, <<>>, place))

RunInit ==
  /\ StatementInit \/ FieldInit
  /\ today \in {"leapDay", "otherDay"}
  /\ next = 1
  /\ failures = {}

------------------------------------------------------------------------------
(* The validators, with more than t cents for a difference.                  *)
Known(a) == a # NoValue
Txns == IF out.account THEN Transactions ELSE <<>>
Net(txns) == SumOf([k \in DOMAIN txns |-> txns[k].credit - txns[k].debit])

(* The document's transactions table is the account's; without a debit and a *)
(* credit column its sums stay zero.                                         *)
ArithmeticTotals(t) ==
  /\ Known(out.opening) /\ Known(out.closing)
  /\ Off(out.closing, out.opening + (IF out.columns THEN Net(Txns) ELSE 0), t)

(* Two letters and two digits and more: an IBAN, but most ISINs as well.     *)
LooksLikeIban(chars) ==
  /\ Len(chars) > 4
  /\ Letter(chars[1]) /\ Letter(chars[2]) /\ ~Letter(chars[3]) /\ ~Letter(chars[4])
LooksLikeIsin(chars) ==
  /\ Len(chars) = 12
  /\ Letter(chars[1]) /\ Letter(chars[2]) /\ ~Letter(chars[12])

(* _is_valid_iban. *)
ValidIban(chars) ==
  Remainder(Expand(SubSeq(chars, 5, Len(chars)) \o SubSeq(chars, 1, 4))) = 1

(* _luhn_check. *)
Doubled(d) == IF 2 * d > 9 THEN 2 * d - 9 ELSE 2 * d
LuhnFromLeft(digits) ==  \* a mutant of Luhn
  SumOf([i \in DOMAIN digits |-> IF i % 2 = 1 THEN Doubled(digits[i]) ELSE digits[i]]) % 10 = 0
EverySecondDoubled(digits) ==
  [i \in DOMAIN digits |-> IF i % 2 = 0 THEN Doubled(digits[i]) ELSE digits[i]]
Luhn(digits) == SumOf(EverySecondDoubled(Reverse(digits))) % 10 = 0

(* Eight characters or digits look like a BIC, three letters like a currency *)
(* code, whatever the field is.                                              *)
FieldIsWrong(v) ==
  LET f == out.field
  IN CASE v = "validate_iban" -> LooksLikeIban(f.chars) /\ ~ValidIban(f.chars)
       [] v = "validate_isin" -> LooksLikeIsin(f.chars) /\ ~Luhn(Expand(f.chars))
       [] v = "validate_bic" -> f.kind = "number8"
       [] v = "validate_date_range" -> f.kind \in {"future", "old"}
       [] v = "validate_currency_codes" -> f.kind = "word3"
       [] v = "validate_provenance_integrity" -> f.page \notin 1..TotalPages

(* The last balance seen before a transaction. *)
LastBalance(txns, k) ==
  LET seen == {j \in 1..(k - 1) : Known(txns[j].balance)}
  IN IF seen = {} THEN NoValue ELSE txns[Max(seen)].balance

BreaksFromOpening(txns, t) ==  \* a mutant of Breaks
  {k \in DOMAIN txns :
     /\ Known(txns[k].balance) /\ k > 1 /\ Known(txns[k - 1].balance)
     /\ Off(txns[k].balance, txns[k - 1].balance + txns[k].credit - txns[k].debit, t)}

(* validate_running_balance: a transaction without a balance is passed over, *)
(* its amounts too.                                                          *)
Breaks(txns, t) ==
  {k \in DOMAIN txns :
     /\ Known(txns[k].balance) /\ Known(LastBalance(txns, k))
     /\ Off(txns[k].balance, LastBalance(txns, k) + txns[k].credit - txns[k].debit, t)}

ReconciliationOfDebits(txns, t) ==  \* a mutant of Reconciliation
  /\ Known(out.opening) /\ Known(out.closing) /\ txns # <<>>
  /\ Off(out.closing,
         out.opening + SumOf([k \in DOMAIN txns |-> txns[k].credit + txns[k].debit]), t)

Reconciliation(txns, t) ==
  /\ Known(out.opening) /\ Known(out.closing) /\ txns # <<>>
  /\ Off(out.closing, out.opening + Net(txns), t)

(* More than a fifth of the rows. *)
DatesAreNumbers(txns) ==
  5 * Cardinality({k \in DOMAIN txns : ~txns[k].dated}) > Len(txns)

(* The totals a statement prints are those of its true movements. *)
TotalsCrosscheck(txns, t) ==
  /\ out.totals
  /\ \/ Off(SumOf([i \in DOMAIN moves |-> Debit(moves[i])]),
            SumOf([k \in DOMAIN txns |-> txns[k].debit]), t)
     \/ Off(SumOf([i \in DOMAIN moves |-> Credit(moves[i])]),
            SumOf([k \in DOMAIN txns |-> txns[k].credit]), t)

Order == <<"validate_arithmetic_totals", "validate_iban", "validate_isin", "validate_bic",
           "validate_date_range", "validate_currency_codes", "validate_provenance_integrity",
           "validate_running_balance", "validate_account_balance_reconciliation",
           "validate_column_type_consistency",
           "validate_transaction_completeness", "validate_totals_crosscheck">>

OfAccount(v, t) ==
  CASE v = "validate_arithmetic_totals" -> ArithmeticTotals(t)
    [] v = "validate_account_balance_reconciliation" -> Reconciliation(Txns, t)
    [] v = "validate_column_type_consistency" -> DatesAreNumbers(Txns)
    [] v = "validate_transaction_completeness" -> Txns = <<>>
    [] v = "validate_totals_crosscheck" -> TotalsCrosscheck(Txns, t)

FieldChecks == {"validate_iban", "validate_isin", "validate_bic", "validate_date_range",
                "validate_currency_codes", "validate_provenance_integrity"}

Failures(v, t) ==
  IF v = "validate_running_balance" THEN {<<v, k>> : k \in Breaks(Txns, t)}
  ELSE IF (IF v \in FieldChecks THEN FieldIsWrong(v) ELSE out.account /\ OfAccount(v, t))
    THEN {<<v, 0>>} ELSE {}

(* Ten years before 29 February there is no such day: validate_date_range    *)
(* raises, and nobody catches it here.                                       *)
Raises(v) == v = "validate_date_range" /\ today = "leapDay"

(* What is found for certain, and any of what two cents may make wrong. *)
RunValidator ==
  /\ next \in DOMAIN Order
  /\ ~Raises(Order[next])
  /\ \E found \in SUBSET Failures(Order[next], Rounded) :
       /\ Failures(Order[next], Tolerance) \subseteq found
       /\ failures' = failures \cup found
  /\ next' = next + 1
  /\ UNCHANGED <<moves, reading, out, today>>

Raise ==
  /\ next \in DOMAIN Order
  /\ Raises(Order[next])
  /\ next' = 0
  /\ UNCHANGED <<moves, reading, out, today, failures>>

RunNext == RunValidator \/ Raise

RunSpec == RunInit /\ [][RunNext]_runVars

------------------------------------------------------------------------------
Done == next = Len(Order) + 1

(* The sum of the true movements of the rows after row a and before row b.   *)
Between(a, b) == SumOf(SubSeq(moves, a + 1, b - 1))
(* The difference between what row b was read as and what it is. *)
Misread(b) == IF reading[b] = "swapped" THEN 2 * moves[b] ELSE 0

(* The rows before row b with a printed balance that was read, and whether   *)
(* what came after the last of them leaves more than t cents.                *)
Balanced(b) == {a \in 1..(b - 1) : reading[a] \in {"right", "undated", "swapped"}}
Gap(b, t) ==
  /\ reading[b] # "noBalance" /\ Balanced(b) # {}
  /\ Off(Between(Max(Balanced(b)), b) + Misread(b), 0, t)

(* The running balance breaks where the rows between two printed balances,   *)
(* those missed and those printed without a balance, do not cancel out, the  *)
(* later row's own misreading included: wherever they leave more than the    *)
(* tolerance, and nowhere that they leave less. At the tolerance itself the  *)
(* rounding of the floats decides (validate_running_balance).                *)
BreaksAreGaps ==
  next > 8 /\ out.account =>
    \A k \in DOMAIN Rows :
      /\ Gap(Rows[k], Tolerance) => <<"validate_running_balance", k>> \in failures
      /\ <<"validate_running_balance", k>> \in failures => Gap(Rows[k], Rounded)

(* A statement read right passes; one row missed, or read into the wrong     *)
(* column, does not if the opening and closing balance were read and what    *)
(* the row moves is more than the tolerance: what the checks of an account   *)
(* are for (validator.py, account-level validators).                         *)
OneWrongRowIsSeen ==
  LET wrong == {i \in DOMAIN reading : reading[i] \in {"missed", "swapped"}}
      plain == \A i \in DOMAIN reading : reading[i] \notin {"noBalance", "undated"}
      Moved(i) == IF reading[i] = "missed" THEN moves[i] ELSE Misread(i)
  IN Done /\ out.account =>
       /\ wrong = {} /\ plain /\ out.columns => failures = {}
       /\ \A i \in wrong :
            wrong = {i} /\ Off(Moved(i), 0, Tolerance) /\ Known(out.opening) => failures # {}

(* An IBAN as issued passes its check and an ISIN as issued passes its own,  *)
(* and one with a single wrong digit does not (_is_valid_iban,               *)
(* _is_valid_isin). The IBAN check of an ISIN is another matter.             *)
CodesAreJudged ==
  LET own == [iban |-> "validate_iban", isin |-> "validate_isin"]
      f   == out.field
  IN Done /\ f.kind \in DOMAIN own =>
       (<<own[f.kind], 0>> \notin failures
          <=> \E c \in Codes : c.kind = f.kind /\ f.chars = Issued(c))
=============================================================================
