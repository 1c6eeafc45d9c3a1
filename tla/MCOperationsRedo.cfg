\* One entry of the property and its reversal.
\* Once all entries are used up nothing more can happen.
SPECIFICATION Spec
CHECK_DEADLOCK FALSE
CONSTANTS
  Dates <- MCDates
  YearStart <- MCYearStart
  LoanStarts <- MCLoanStarts
  InitialPrincipal = 2
  Rows = {1}
  ManualDates = {2}
  MaxAmount = 2
  MaxOperations = 1
  MaxEntries = 2
INVARIANT
  EntryRedoable
