--------------------------- MODULE MCFiscalYears ----------------------------
(* Values for the model-checking runs of FiscalYears. *)
EXTENDS FiscalYears

Book(m, d) == [margin |-> m, depreciation |-> d]

\* A loss, and a profit that can absorb it.
MCLossBooks == {Book(-1, 0), Book(1, 0)}
=============================================================================
