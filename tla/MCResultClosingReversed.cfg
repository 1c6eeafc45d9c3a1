\* One operation, one centralization, and its reversal.
SPECIFICATION Spec
CONSTANTS
  Requests = {r1}
  Operations <- MCOperations
  MaxEntries = 3
  MaxSent = 1
INVARIANT
  FiscalAgreesWithStatements
