-------------------------------- MODULE Money --------------------------------
(***************************************************************************)
(* Amounts of money as the ledger handles them.                            *)
(*                                                                         *)
(* A request carries an exact decimal; the database stores NUMERIC(19,4).  *)
(* Stored values are integers here, in units of 0.0001.  Raw amounts are   *)
(* integers in units of 0.00001: one digit more than is stored is all that *)
(* decides the rounding of StringFixed(4), and it also represents every    *)
(* amount that lies strictly between two stored values.                    *)
(***************************************************************************)
EXTENDS Integers, FiniteSets

CONSTANT NumericMax   \* largest magnitude NUMERIC(19,4) holds

ASSUME NumericMaxAssumption == NumericMax \in Nat \ {0}

\* validatePositiveAmount: the test is made on the raw decimal.
Positive(raw) == raw > 0

\* decimal.StringFixed(4) of a positive amount: halves round away from zero.
\* amount.Neg().StringFixed(4) is its negation.
StringFixed4(raw) == (raw + 5) \div 10

\* Variant: the test is made on the truncated amount, the entry on the rounded.
Covers_Truncated(stored, raw) == stored >= raw \div 10

\* ~balance.LessThan(amount): a stored balance against the unrounded amount.
Covers(stored, raw) == stored * 10 >= raw

\* What a NUMERIC(19,4) column accepts without SQLSTATE 22003.
InRange(stored) == -NumericMax <= stored /\ stored <= NumericMax

-----------------------------------------------------------------------------
(* Rows of table entries and their sums. *)

\* SUM(col) over a finite set of rows, counted unit by unit: row e carries
\* the units <<e, 1>>, ..., <<e, e[col]>>.
Units(rows, col) == {u \in rows \X (1 .. NumericMax) : u[2] <= u[1][col]}
Total(rows, col) == Cardinality(Units(rows, col))

\* GetAccountBalance: COALESCE(SUM(credit), 0) - COALESCE(SUM(debit), 0).
OfAccount(rows, a) == {e \in rows : e.account = a}
GetAccountBalance(rows, a) ==
  Total(OfAccount(rows, a), "credit") - Total(OfAccount(rows, a), "debit")
=============================================================================
