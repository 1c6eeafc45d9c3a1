---------------------------- MODULE MCOperations ----------------------------
(* Values for the model-checking runs of Operations. *)
EXTENDS Operations

\* An exercise of two days, and the first day of the next.
MCDates == 1..3
MCYearStart == <<1, 1, 3>>
\* A loan older than the activity, and one of the first exercise.
MCLoanStarts == {0, 2}
=============================================================================
