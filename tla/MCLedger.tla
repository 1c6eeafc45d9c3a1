------------------------------ MODULE MCLedger ------------------------------
(* Ledger under two bounds, one of which a behaviour keeps to: few entries     *)
(* whose drafts are edited and moved between two years, or more entries of one *)
(* year, posted, reversed and matched.                                         *)
EXTENDS Ledger, TLC

CONSTANTS Bank, Rent, Sales, \* the accounts and the journal, as model values
          MaxDrafts          \* bound: entries created when drafts are edited

VARIABLE scene

MCAccounts == {Bank, Rent}
MCJournals == {Sales}
MCLine(b, r) == (Bank :> b) @@ (Rent :> r)

\* A receipt and an entry that does not balance, which only a draft may hold.
MCInputs == {MCLine(1, -1), MCLine(1, 0)}

MCYears == 1..2
MCYearDates == <<{1, 2}, {3}>>
MCClock == 1..3
MCMovement(x) == [date |-> 1, amount |-> 1]
MCMovements == [x \in BankTransactions |-> MCMovement(x)]

\* Drafts of the last day of the first year and of the day of the second.
Rows == {entry[i] : i \in 1..lastId} \ {NoRow}
Days == {r.date : r \in Rows} \cup {r.stamp : r \in Rows}
Editing ==
  /\ DraftStep \/ PostingStep \/ YearStep
  /\ lastId' <= MaxDrafts
  /\ Days' \subseteq {0, 2, 3}
  /\ UNCHANGED <<bankMatch, active>>

\* Receipts of the first year, each written once.
Receipt == MCLine(1, -1)
Posting(d, t) ==
  \/ \E i \in Ids : \/ PostEntry(i, 1, t)
                    \/ ReverseEntry(i, d, t)
                    \/ CancelOperation(i, d, t)
  \/ \E r \in Requests :
       \/ PostInventory(r, 1, d, Sales, Receipt, t)
       \/ \E settled \in SUBSET BankTransactions :
            PostBusiness(r, 1, d, Sales, Receipt, t, settled)
Booking ==
  \/ \E d \in YearDates[1] : CreateDraft(1, d, Sales, Receipt)
  \/ \E i \in Ids : DeleteDraft(i, 1)
  \/ \E d, t \in YearDates[1] : Posting(d, t)
  \/ BankStep
  \/ MarkReady(1) \/ CloseYear(1) \/ ReopenYear(1) \/ InvalidateReadyYears
  \/ \E c \in Switchable : SwitchActive(c)

MCInit == Init /\ scene \in {"drafts", "posting"}
MCNext == /\ \/ scene = "drafts" /\ Editing
             \/ scene = "posting" /\ Booking
          /\ UNCHANGED scene
MCSpec == MCInit /\ [][MCNext]_<<vars, scene>>
=============================================================================
