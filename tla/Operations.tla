----------------------------- MODULE Operations -----------------------------
(***************************************************************************)
(* The chains of business operations of services/operations.py: an         *)
(* operation settled by instalments, and a loan put on the books by its    *)
(* funding or by the entry of its property (services/assets.py), paid and  *)
(* corrected in any order.                                                 *)
(*                                                                         *)
(* Every operation posts one entry of the ledger and is cancelled by the   *)
(* reversal of that entry (module Ledger); book holds the validated        *)
(* entries.  Of an entry are kept the amount of the operation and what it  *)
(* moves on the account 164 of the loan, credit positive.  Retried         *)
(* requests and locked years are in Ledger; here they would only refuse.   *)
(***************************************************************************)
EXTENDS Integers, Sequences, FiniteSets, Functions

CONSTANTS Dates,       \* the days
          YearStart,   \* the first day of the exercise of each day
          LoanStarts,  \* the start dates a loan may have
          InitialPrincipal,
          Rows,        \* the rows of the loan schedule
          ManualDates, \* the days of manual entries on the loan account
          MaxAmount,   \* bound: amount of an operation
          MaxOperations, \* bound: operations to settle
          MaxEntries   \* bound: entries validated

OperationsAssumption ==
  /\ Dates \subseteq Nat /\ LoanStarts \subseteq Nat
  /\ YearStart \in [Dates -> Dates]
  /\ ManualDates \subseteq Dates
  /\ 0 \notin Rows
  /\ InitialPrincipal \in Nat \ {0} /\ MaxAmount \in Nat
  /\ MaxEntries \in Nat /\ MaxOperations \in Nat

VARIABLES book,      \* validated entries, in their order
          loanStart  \* start date of the loan

vars == <<book, loanStart>>

Amounts == 1..MaxAmount
Blank == [kind |-> "MANUAL", date |-> 0, amount |-> 0, principal |-> 0,
          due |-> 0, parent |-> 0, of |-> 0, paid |-> FALSE]

-----------------------------------------------------------------------------
(* Reading the entries *)

\* reversed_entry
Reversed(n) == \E k \in DOMAIN book : book[k].of = n

\* Entries of these kinds that are not reversed.
Standing(kinds) == {n \in DOMAIN book : book[n].kind \in kinds /\ ~ Reversed(n)}

Children(n) == {k \in DOMAIN book : book[k].parent = n}
Settled(n) ==
  SumFunctionOnSet([k \in DOMAIN book |-> book[k].amount],
                   Children(n) \cap Standing({"SETTLEMENT"}))

\* remaining
Remaining(n) ==
  IF book[n].paid \/ Reversed(n) THEN 0 ELSE book[n].amount - Settled(n)

\* principal_balance: what account 164 holds.
Principal == SumFunction([n \in DOMAIN book |-> book[n].principal])

\* Movements of the account that count for the chronology
\* (latest_active_principal_movement): neither reversed nor reversals.
Movements == {n \in DOMAIN book :
  book[n].principal # 0 /\ book[n].of = 0 /\ ~ Reversed(n)}

LoanOperations == {"LOAN_FUNDING", "LOAN_PAYMENT"}

\* Variant: an operation that is not reversed will do as well.
ReplacesAnyPayment(d, due) == \E n \in DOMAIN book :
  /\ book[n].kind = "LOAN_PAYMENT"
  /\ book[n].date = d \/ (due # 0 /\ book[n].due = due)

\* replaces_reversed_loan_payment: same day, or same row of the schedule.
ReplacesReversed(d, due) == \E n \in DOMAIN book :
  /\ book[n].kind = "LOAN_PAYMENT"
  /\ Reversed(n)
  /\ book[n].date = d \/ (due # 0 /\ book[n].due = due)

\* LOAN_CHRONOLOGY
InOrder(d) == d >= loanStart /\ \A n \in Movements : d >= book[n].date

\* _live_property_entry
PropertyBooked == Standing({"ACQUISITION"}) # {}

\* funding_before_entry_refused
EntryRequired(d) == loanStart < YearStart[d] /\ ~ PropertyBooked

\* Variant: the balance alone tells whether the loan is funded.
UnfundedByBalance == Principal = 0

\* LOAN_ALREADY_FUNDED
Unfunded == Principal = 0 /\ Standing(LoanOperations) = {}

\* LOAN_ALREADY_BOOKED: no line at all on the account, reversed or not.
NeverBooked == \A n \in DOMAIN book : book[n].principal = 0

Posted(r) == book' = Append(book, r) /\ UNCHANGED loanStart

\* The bound on entries, first in every action.
Room == Len(book) < MaxEntries

-----------------------------------------------------------------------------
Init ==
  /\ book = <<>>
  /\ loanStart \in LoanStarts

\* create_operation: on the bank at once, or on the customer or supplier account.
CreateOperation(d, amount, paid) ==
  /\ Room
  /\ Cardinality({n \in DOMAIN book : book[n].kind = "OPERATION"}) < MaxOperations
  /\ Posted([Blank EXCEPT !.kind = "OPERATION", !.date = d, !.amount = amount,
                          !.paid = paid])

Settle(n, d, amount) ==
  /\ Room
  /\ book[n].kind = "OPERATION"
  /\ d >= book[n].date
  /\ amount <= Remaining(n)
  /\ Posted([Blank EXCEPT !.kind = "SETTLEMENT", !.date = d, !.amount = amount,
                          !.parent = n])

FundLoan(d) ==
  /\ Room
  /\ InOrder(d)
  /\ ~ EntryRequired(d)
  /\ Unfunded
  /\ Posted([Blank EXCEPT !.kind = "LOAN_FUNDING", !.date = d,
                          !.amount = InitialPrincipal,
                          !.principal = InitialPrincipal])

\* An instalment; its principal may be zero.  due is its row in the schedule,
\* zero when it is entered by hand.
PayLoan(d, due, principal) ==
  /\ Room
  /\ d >= loanStart
  /\ InOrder(d) \/ ReplacesReversed(d, due)
  /\ Principal > 0
  /\ principal <= Principal
  /\ Posted([Blank EXCEPT !.kind = "LOAN_PAYMENT", !.date = d, !.due = due,
                          !.amount = principal, !.principal = -principal])

\* property_entry: outstanding is what it takes over of a loan it names.
EnterProperty(d, named, outstanding) ==
  /\ Room
  /\ d = YearStart[d]
  /\ ~ PropertyBooked
  /\ named => NeverBooked
  /\ outstanding # 0 => named /\ outstanding <= InitialPrincipal /\ loanStart < d
  /\ Posted([Blank EXCEPT !.kind = "ACQUISITION", !.date = d,
                          !.principal = outstanding])

\* A manual entry validated on the account of the loan.
PostManual(d, principal) ==
  Room /\ Posted([Blank EXCEPT !.date = d, !.principal = principal])

\* The entry that reverses another.  No check reads the day of a reversal.
Mirror(n) == [Blank EXCEPT !.kind = "REVERSAL", !.of = n, !.date = book[n].date,
                           !.principal = -book[n].principal]

\* reverse_entry
PostReversal(n) ==
  /\ book[n].of = 0
  /\ ~ Reversed(n)
  /\ Posted(Mirror(n))

\* The reverse endpoint of the ledger, for entries that are not operations.
ReverseEntry(n) ==
  /\ Room
  /\ book[n].kind \in {"MANUAL", "ACQUISITION"}
  /\ PostReversal(n)

\* Variant: settlements that stand do not keep their operation from being cancelled.
FundingCancellable(n) ==
  book[n].kind = "LOAN_FUNDING" => Principal >= book[n].amount

\* cancel: SETTLEMENTS_EXIST, LOAN_PAYMENTS_EXIST
Cancellable(n) ==
  /\ \A k \in Children(n) : Reversed(k)
  /\ book[n].kind = "LOAN_FUNDING" => Principal >= book[n].amount

CancelOperation(n) ==
  /\ Room
  /\ book[n].kind \in {"OPERATION", "SETTLEMENT"} \cup LoanOperations
  /\ Cancellable(n)
  /\ PostReversal(n)

Next ==
  \/ \E d \in Dates :
       \/ \E amount \in Amounts, paid \in BOOLEAN : CreateOperation(d, amount, paid)
       \/ \E n \in DOMAIN book, amount \in Amounts : Settle(n, d, amount)
       \/ FundLoan(d)
       \/ \E due \in Rows \cup {0}, principal \in 0..InitialPrincipal :
            PayLoan(d, due, principal)
       \/ \E named \in BOOLEAN, outstanding \in 0..InitialPrincipal :
            EnterProperty(d, named, outstanding)
  \/ \E d \in ManualDates, principal \in {-1, 1} : PostManual(d, principal)
  \/ \E n \in DOMAIN book : ReverseEntry(n) \/ CancelOperation(n)

Spec == Init /\ [][Next]_vars

-----------------------------------------------------------------------------
(* Properties *)

\* The customer or supplier account of an operation is never settled beyond
\* what the operation put on it: settlements and their cancellations, in any
\* order, leave at most its amount, and none once it is cancelled.
SettledWithinOperation == \A n \in DOMAIN book :
  book[n].kind = "OPERATION" =>
    /\ Settled(n) <= book[n].amount
    /\ Settled(n) > 0 => ~ Reversed(n) /\ ~ book[n].paid

\* As long as nobody posts on account 164 by hand, one entry at most puts the
\* loan on the books, and the account then stays between zero and the initial
\* principal.  It can be overdrawn only by reversing the entry of the property
\* under payments made since, which the ledger lets through.
PrincipalWithinLoan ==
  (\A n \in DOMAIN book : book[n].kind = "MANUAL" => book[n].principal = 0) =>
    LET sources == {n \in Standing({"LOAN_FUNDING", "ACQUISITION"}) :
                      book[n].principal # 0}
    IN /\ Cardinality(sources) <= 1
       /\ sources # {} => Principal \in 0..InitialPrincipal
       /\ sources = {} => Principal <= 0
       /\ Principal < 0 => \E n \in DOMAIN book :
            /\ book[n].kind = "ACQUISITION"
            /\ Reversed(n)
            /\ Principal + book[n].principal >= 0

\* The movements of a loan that stand follow the calendar; an instalment out of
\* order takes the place of one that was reversed before it was entered
\* (LOAN_CHRONOLOGY).
LoanChronology == \A n, k \in Movements :
  (n < k /\ book[k].kind \in LoanOperations /\ book[k].date < book[n].date) =>
    \E r, v \in 1..(k - 1) :
      /\ book[r].kind = "LOAN_PAYMENT"
      /\ book[v].of = r
      /\ book[r].date = book[k].date \/ (book[k].due # 0 /\ book[r].due = book[k].due)

-----------------------------------------------------------------------------
(* A statement of the code's own messages that the code does not keep *)

\* "Extournez-la depuis le journal pour la refaire" (PROPERTY_ALREADY_BOOKED):
\* once the entry of the property is reversed and nothing stands on the account
\* of its loan, the entry can take the loan over again.
EntryRedoable ==
  (\E n \in DOMAIN book : book[n].kind = "ACQUISITION" /\ Reversed(n))
    /\ ~ PropertyBooked /\ Movements = {}
  => NeverBooked
=============================================================================
