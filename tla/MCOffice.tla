----------------------------- MODULE MCOffice -------------------------------
(* The office work of the year: tenants and rents (Rents), settlements and a   *)
(* loan (Operations), files of operations and of bank movements (Imports),     *)
(* loan schedules (LoanImports).  A behaviour plays one of them (its scene),   *)
(* the variables of the others stay at their initial values.                   *)
EXTENDS Rents

ASSUME ExercisesAssumption == RentsAssumption

CONSTANT Scenes
VARIABLE scene

-----------------------------------------------------------------------------
\* Operations
CONSTANTS Dates, YearStart, LoanStarts, InitialPrincipal, Rows, ManualDates,
          MaxAmount, MaxOperations, MaxEntries
VARIABLES book, loanStart

O == INSTANCE Operations
ASSUME OperationsAssumption == O!OperationsAssumption
\* An exercise of two days, and the first day of the next.
MCDates == 1..3
MCYearStart == <<1, 1, 3>>
\* A loan older than the activity, and one of the first exercise.
MCLoanStarts == {0, 2}
settlementVars == <<book, loanStart>>

-----------------------------------------------------------------------------
\* Imports
CONSTANTS ImportYears, Banks, Numbers, Files, Statements, Keys, NoBank, NoKey,
          NoBatch, NoRequest, NoNumber, MaxImported
VARIABLES importYears, operations, batches, movements, number

I == INSTANCE Imports WITH Years <- ImportYears, MaxOperations <- MaxImported,
                         writable <- importYears
ASSUME FilesAssumption == I!ImportsAssumption

FileRow(p, c, y, paid, legible) ==
  [piece |-> p, contents |-> c, year |-> y, paid |-> paid, legible |-> legible]
File(rows) == [ready |-> TRUE, rows |-> rows]
\* The same pieces with the same or other contents, of one year or the other,
\* with an illegible row.
MCFiles ==
  {File(<<FileRow("p1", "c1", 1, FALSE, TRUE), FileRow("p2", "c1", 1, TRUE, TRUE)>>),
   File(<<FileRow("p1", "c2", 1, FALSE, TRUE), FileRow("p2", "c1", 2, FALSE, TRUE)>>),
   File(<<FileRow("p2", "c1", 1, FALSE, TRUE), FileRow("p1", "c1", 1, FALSE, FALSE)>>),
   File(<<FileRow("p1", "c1", 2, FALSE, TRUE), FileRow("p1", "c2", 2, FALSE, TRUE)>>)}
Movement(r, c) == [reference |-> r, contents |-> c, legible |-> TRUE]
MCStatements == {<<Movement("r1", "c1")>>, <<Movement("r1", "c2"), Movement("r2", "c2")>>}

-----------------------------------------------------------------------------
\* LoanImports
CONSTANTS PaymentDays, ExerciseOf, LoanStart, FundedOn, LoanPrincipal,
          Schedules, ManualDue, MaxPayments
VARIABLES loanToday, loanYears, payments

L == INSTANCE LoanImports WITH Days <- PaymentDays, InitialPrincipal <- LoanPrincipal,
                             today <- loanToday, writable <- loanYears
ASSUME SchedulesAssumption == L!LoanImportsAssumption

LoanRow(l, due, day, p, legible) ==
  [loan |-> l, due |-> due, day |-> day, principal |-> p, legible |-> legible]
\* Rows in and out of order, one illegible, of another loan, of one day, that
\* exceed the loan.
MCSchedules ==
  {<<LoanRow("a", 3, 3, 1, TRUE), LoanRow("a", 2, 2, 1, FALSE)>>,
   <<LoanRow("a", 2, 2, 1, TRUE), LoanRow("a", 3, 3, 1, TRUE)>>,
   <<LoanRow("a", 2, 3, 1, TRUE), LoanRow("a", 4, 4, 2, TRUE)>>,
   <<LoanRow("a", 3, 3, 2, TRUE)>>,
   <<LoanRow("b", 2, 2, 1, TRUE), LoanRow("a", 4, 4, 1, TRUE)>>,
   <<LoanRow("a", 3, 2, 1, TRUE), LoanRow("a", 4, 2, 1, TRUE)>>}
MCExerciseOf == <<1, 1, 1, 1>>

-----------------------------------------------------------------------------
\* Rents
MCFirstDay == <<1, 5>>
MCLastDay == <<4, 8>>

-----------------------------------------------------------------------------
importVars == <<importYears, operations, batches, movements, number>>
loanVars == <<loanToday, loanYears, payments>>

MCInit ==
  /\ Init /\ O!Init /\ I!Init /\ L!Init /\ scene \in Scenes
  /\ scene # "imports" => \A b \in Banks : \A n \in Numbers : number[b] <= n
  /\ scene # "loans" => loanToday = FundedOn
MCNext ==
  \/ /\ scene = "settlements" /\ O!Next
     /\ UNCHANGED <<importVars, loanVars, rentVars, scene>>
  \/ /\ scene = "imports" /\ I!Next
     /\ UNCHANGED <<settlementVars, loanVars, rentVars, scene>>
  \/ /\ scene = "loans" /\ L!Next
     /\ UNCHANGED <<settlementVars, importVars, rentVars, scene>>
  \/ /\ scene = "rents" /\ Next
     /\ UNCHANGED <<settlementVars, importVars, loanVars, scene>>
MCSpec == MCInit /\ [][MCNext]_<<settlementVars, importVars, loanVars, rentVars, scene>>

-----------------------------------------------------------------------------
(* The properties of the modules *)

SettledWithinOperation == scene = "settlements" => O!SettledWithinOperation
PrincipalWithinLoan == scene = "settlements" => O!PrincipalWithinLoan
LoanChronology == scene = "settlements" => O!LoanChronology
PreviewedIsAccepted == scene = "imports" => I!PreviewedIsAccepted
BankKeepsItsNumber == scene = "imports" => I!BankKeepsItsNumber
ReportMatchesBooks == scene = "imports" => I!ReportMatchesBooks
ValidRowsPost == scene = "loans" => L!ValidRowsPost
RowsGetTheirPayment == scene = "loans" => L!RowsGetTheirPayment
RowPaidOnce == scene = "loans" => L!RowPaidOnce
=============================================================================
