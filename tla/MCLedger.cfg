SPECIFICATION MCSpec
CONSTANTS
  Bank = Bank
  Rent = Rent
  Sales = Sales
  Accounts <- MCAccounts
  Journals <- MCJournals
  BankAccount = Bank
  Years <- MCYears
  YearDates <- MCYearDates
  Clock <- MCClock
  Inputs <- MCInputs
  BankTransactions = {x1}
  Movement <- MCMovements
  Requests = {r1}
  Switchable = {Rent}
  MaxCents = 1
  MaxEntries = 4
  MaxEdits = 1
  MaxDrafts = 2
INVARIANTS
  GaplessNumbering
  NoDraftOutsideOpenYear
  VersionIdentifiesContents
  LogReconstructsTable
  ChronologicalNumbers
  ReversalExact
  MatchedEntryStands
PROPERTIES
  PostedImmutable
  ImplementsJournal
