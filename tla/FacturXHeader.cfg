SPECIFICATION TotalsSpec
CONSTANTS
  LineItems <- mcLineItems
  ServiceItems <- mcServiceItems
  ManualTables <- mcManualTables
  Remises = {9000}
  Rates = {2000}
  MaxLines = 2
  MaxDocuments = 1
INVARIANT HeaderAddsUp
CHECK_DEADLOCK FALSE
