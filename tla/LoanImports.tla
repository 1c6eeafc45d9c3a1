---------------------------- MODULE LoanImports -----------------------------
(***************************************************************************)
(* The instalments of one loan: files of the bank's schedule, previewed    *)
(* and committed by the assistant (_annotate_loans, commit_import) or sent *)
(* to the import endpoint (import_loan_payments_csv), instalments entered  *)
(* by hand (loan_post), and their cancellations.                           *)
(*                                                                         *)
(* The assistant keeps the rows it calls valid and leaves the others out,  *)
(* those of another exercise or of a day to come among them; the import    *)
(* checks the rows it is given as a whole, then posts them one by one,     *)
(* each checked again against what the previous ones left.  The loan is    *)
(* funded before the first state.                                          *)
(***************************************************************************)
EXTENDS Integers, Sequences, FiniteSetsExt, Functions

CONSTANTS Days,
          ExerciseOf,   \* the exercise of each day
          LoanStart,
          FundedOn,
          InitialPrincipal,
          Schedules,    \* files: sequences of rows
          ManualDue,    \* no row of the schedule: entered by hand
          MaxPayments   \* bound: payments entered

VARIABLES today, writable, payments

loanVars == <<today, writable, payments>>

Exercises == Range(ExerciseOf)
\* The exercise of a day the loan may have, none before the first.
InExercise(row, y) == row.day \in Days /\ ExerciseOf[row.day] = y

-----------------------------------------------------------------------------
(* What is booked *)

Active == {n \in DOMAIN payments : ~ payments[n].reversed}

\* principal_balance
Balance(ps) ==
  InitialPrincipal - SumFunctionOnSet([n \in DOMAIN ps |-> ps[n].principal],
                                      {n \in DOMAIN ps : ~ ps[n].reversed})

\* The day of latest_active_principal_movement; a payment without principal
\* moves nothing on the account.
Latest(ps) ==
  Max({FundedOn} \cup {ps[n].day : n \in {k \in DOMAIN ps :
                                            ~ ps[k].reversed /\ ps[k].principal > 0}})

\* replaces_reversed_loan_payment: same day, or a piece of the same row.
Replaces(ps, due, day) == \E n \in DOMAIN ps :
  /\ ps[n].reversed
  /\ ps[n].day = day \/ (due # ManualDue /\ ps[n].due = due)

\* Variant: a row is known by the day it was paid.
PriorOfDay(row) == {n \in DOMAIN payments : payments[n].day = row.day}

\* The payments of the day, or of the row of the schedule (ECH-account-due).
Prior(row) == {n \in DOMAIN payments :
  payments[n].day = row.day \/ payments[n].due = row.due}

\* _same_imported_loan_payment
Same(n, row) == payments[n].day = row.day /\ payments[n].principal = row.principal

Known(row) == Prior(row) \cap Active
Conflicts(row) == Known(row) # {} /\ ~ \E n \in Known(row) : Known(row) = {n} /\ Same(n, row)

\* Variant: a cancelled payment gives its revision back.
RevisionOfActive(row) == Cardinality(Known(row))

\* The number of the piece and of the request of a row.
Revision(row) == Cardinality(Prior(row))

Request(row) == <<row.due, row.day, Revision(row)>>

-----------------------------------------------------------------------------
(* The preview of the assistant *)

\* parse_loan_row: every cell of the row can be read.
Legible(row) == row.legible

\* flag_duplicates
Repeats(rows, i) == \E j \in DOMAIN rows \ {i} :
  rows[j].due = rows[i].due \/ rows[j].day = rows[i].day

OneLoan(rows) == \A i, j \in DOMAIN rows : rows[i].loan = rows[j].loan

\* Rows that pass every check but the chronology and the balance, and are not
\* booked yet.
Candidates(rows, y) == {i \in DOMAIN rows :
  /\ Legible(rows[i]) /\ ~ Repeats(rows, i) /\ OneLoan(rows)
  /\ rows[i].day >= LoanStart
  /\ InExercise(rows[i], y) /\ rows[i].day <= today
  /\ Known(rows[i]) = {}}

Ordered(row) ==
  row.day >= Latest(payments) \/ Replaces(payments, row.due, row.day)

\* Variant: the principal of the other rows of the file is forgotten.
WithinAlone(rows, lines, i) ==
  Balance(payments) > 0 /\ rows[i].principal <= Balance(payments)

\* The principal of a row and of those before it stays within the balance.
Within(rows, lines, i) ==
  /\ Balance(payments) > 0
  /\ SumFunctionOnSet([j \in DOMAIN rows |-> rows[j].principal],
                      {j \in lines : rows[j].day <= rows[i].day}) <= Balance(payments)

Importable(rows, y) ==
  LET ordered == {i \in Candidates(rows, y) : Ordered(rows[i])}
  IN {i \in ordered : Within(rows, ordered, i)}

\* The elements of a sequence at some places, in the order of their keys.
Sorted(s, places, key) == [k \in 1..Cardinality(places) |->
  s[CHOOSE i \in places : Cardinality({j \in places : key[j] <= key[i]}) = k]]

ByDay(rows, lines) == Sorted(rows, lines, [i \in lines |-> rows[i].day])

-----------------------------------------------------------------------------
(* The import *)

\* parse_loan_payments_csv: one row that cannot be read refuses the file.
Parsed(rows) ==
  /\ OneLoan(rows)
  /\ \A i \in DOMAIN rows : rows[i].legible /\ ~ Repeats(rows, i)

\* Every check on the rows of the exercise already due, before posting.
Accepts(rows, y) ==
  LET eligible == {i \in DOMAIN rows : InExercise(rows[i], y) /\ rows[i].day <= today}
      new == {i \in eligible : Known(rows[i]) = {}}
  IN /\ writable[y]
     /\ \A i \in eligible : rows[i].day >= LoanStart /\ ~ Conflicts(rows[i])
     /\ \A i \in new : Ordered(rows[i])
     /\ new # {} =>
          /\ Balance(payments) > 0
          /\ SumFunctionOnSet([j \in DOMAIN rows |-> rows[j].principal], new)
               <= Balance(payments)

\* The rows to post, by day, with the request each is posted under.
Prepared(rows, y) ==
  LET new == {i \in DOMAIN rows :
                InExercise(rows[i], y) /\ rows[i].day <= today /\ Known(rows[i]) = {}}
      sorted == ByDay(rows, new)
  IN [k \in DOMAIN sorted |->
        [request |-> Request(sorted[k]), due |-> sorted[k].due, day |-> sorted[k].day,
         principal |-> sorted[k].principal, reversed |-> FALSE]]

\* loan_post: a request already served is answered as it was.
Served(ps, p) == \E n \in DOMAIN ps : ps[n].request = p.request
Postable(ps, p) ==
  /\ p.day >= LoanStart
  /\ p.day >= Latest(ps) \/ Replaces(ps, p.due, p.day)
  /\ Balance(ps) > 0 /\ p.principal <= Balance(ps)
After(ps, new) ==
  LET posted == {k \in DOMAIN new : ~ Served(ps \o SubSeq(new, 1, k - 1), new[k])}
  IN ps \o Sorted(new, posted, [k \in posted |-> k])
AllPostable(ps, new) == \A k \in DOMAIN new :
  LET before == After(ps, SubSeq(new, 1, k - 1))
  IN Served(before, new[k]) \/ Postable(before, new[k])

Post(new) ==
  /\ AllPostable(payments, new)
  /\ Len(payments) + Len(new) <= MaxPayments
  /\ payments' = After(payments, new)
  /\ UNCHANGED <<today, writable>>

-----------------------------------------------------------------------------
\* The cells of a row that can be read: a day, and a principal without sign.  No
\* date of a schedule is the mark of an instalment entered by hand.
LoanImportsAssumption ==
  /\ \A d \in Days : d \in Int
  /\ LoanStart \in Int /\ FundedOn \in Int /\ InitialPrincipal \in Nat
  /\ \A rows \in Schedules :
       /\ rows \in Seq(Range(rows))
       /\ \A i \in DOMAIN rows : Legible(rows[i]) =>
            rows[i].day \in Int /\ rows[i].principal \in Nat /\ rows[i].due # ManualDue

Init ==
  /\ today \in Days /\ today >= FundedOn
  /\ writable = [y \in Exercises |-> TRUE]
  /\ payments = <<>>

\* commit_import: the valid rows; the user confirms the loan they name.
CommitFile(rows, y) ==
  /\ writable[y]
  /\ Importable(rows, y) # {}
  /\ LET kept == ByDay(rows, Importable(rows, y))
     IN Accepts(kept, y) /\ Post(Prepared(kept, y))

\* The import endpoint, without the assistant.
ImportFile(rows, y) ==
  /\ Parsed(rows)
  /\ Accepts(rows, y)
  /\ Prepared(rows, y) # <<>>
  /\ Post(Prepared(rows, y))

\* An instalment entered by hand, under a request id of the screen.
PayLoan(day, principal) ==
  /\ day <= today /\ writable[ExerciseOf[day]]
  /\ Post(<<[request |-> <<ManualDue, day, Len(payments)>>, due |-> ManualDue,
             day |-> day, principal |-> principal, reversed |-> FALSE]>>)

CancelPayment(n) ==
  /\ n \in Active /\ writable[ExerciseOf[payments[n].day]]
  /\ payments' = [payments EXCEPT ![n].reversed = TRUE]
  /\ UNCHANGED <<today, writable>>

Switch(y) ==
  /\ writable' = [writable EXCEPT ![y] = ~ @]
  /\ UNCHANGED <<today, payments>>

Tick ==
  /\ today + 1 \in Days
  /\ today' = today + 1
  /\ UNCHANGED <<writable, payments>>

Next ==
  \/ \E rows \in Schedules, y \in Exercises : CommitFile(rows, y) \/ ImportFile(rows, y)
  \/ \E d \in Days, principal \in 0..InitialPrincipal : PayLoan(d, principal)
  \/ \E n \in DOMAIN payments : CancelPayment(n)
  \/ \E y \in Exercises : Switch(y)
  \/ Tick

-----------------------------------------------------------------------------
(* Properties *)

\* Files of instalments that repay some principal.
Repaying == {rows \in Schedules : \A i \in DOMAIN rows : rows[i].principal > 0}

\* The rows a preview calls valid are posted: neither the checks of the import
\* on the file nor those of loan_post on each row in turn refuse them, whatever
\* was paid, cancelled or replaced before.
ValidRowsPost == \A rows \in Repaying, y \in Exercises :
  (writable[y] /\ Importable(rows, y) # {}) =>
    LET kept == ByDay(rows, Importable(rows, y))
    IN Accepts(kept, y) /\ AllPostable(payments, Prepared(kept, y))

\* Every row the preview calls valid gets a payment of its own: no request of
\* an import was ever used by another payment, which would be answered in place
\* of the row.
RowsGetTheirPayment == \A rows \in Schedules, y \in Exercises :
  LET new == Prepared(ByDay(rows, Importable(rows, y)), y)
  IN After(payments, new) = payments \o new

\* A row of the schedule is paid at most once, and no two rows of the schedule
\* are paid on one day, however often files are sent again with other days.
RowPaidOnce == \A n, k \in Active :
  (n # k /\ payments[n].due # ManualDue /\ payments[k].due # ManualDue) =>
    payments[n].due # payments[k].due /\ payments[n].day # payments[k].day
=============================================================================
