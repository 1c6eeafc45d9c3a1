\* Settlements and a loan over two exercises; files of operations and of bank
\* movements over two exercises; loan schedules of one exercise; rents of two
\* exercises of two months.
\* Every bound can be used up: then nothing more can happen.
SPECIFICATION MCSpec
CHECK_DEADLOCK FALSE
CONSTANTS
  Scenes = {"settlements", "imports", "loans", "rents"}
  Dates <- MCDates
  YearStart <- MCYearStart
  LoanStarts <- MCLoanStarts
  InitialPrincipal = 2
  Rows = {1}
  ManualDates = {2}
  MaxAmount = 2
  MaxOperations = 1
  MaxEntries = 5
  ImportYears = {1, 2}
  Banks = {"bank"}
  Numbers = {512000, 512100}
  Files <- MCFiles
  Statements <- MCStatements
  Keys = {"k1"}
  NoBank = NoBank
  NoKey = NoKey
  NoBatch = NoBatch
  NoRequest = NoRequest
  NoNumber = NoNumber
  MaxImported = 2
  PaymentDays = {1, 2, 3}
  ExerciseOf <- MCExerciseOf
  LoanStart = 1
  FundedOn = 1
  LoanPrincipal = 2
  Schedules <- MCSchedules
  ManualDue = 0
  MaxPayments = 3
  Years = {1, 2}
  FirstDay <- MCFirstDay
  LastDay <- MCLastDay
  Days = {2}
  MonthDays = 2
  Names = {"ana", "bob"}
  RentAmounts = {1}
  NoExit = 99
  MaxTenants = 2
INVARIANTS
  SettledWithinOperation
  PrincipalWithinLoan
  LoanChronology
  PreviewedIsAccepted
  ReportMatchesBooks
  BankKeepsItsNumber
  ValidRowsPost
  RowsGetTheirPayment
  RowPaidOnce
  ReceiptsAsScheduled
