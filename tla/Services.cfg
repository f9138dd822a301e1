SPECIFICATION Spec
CONSTANTS
  Accounts = {a1, a2}
  Customers = {u1}
  MaxDay = 2
  DueDays = 1
  MaxService = 2
  MaxToken = 3
  MaxRenewals = 2
  MaxImport = 1
  MaxChanges = 4
  NoAccount = NoAccount
  NoService = NoService
  NoToken = NoToken
  NoPage = NoPage
CONSTRAINT FewChanges
SYMMETRY Symmetry
INVARIANTS LinkMatchesState PagesAgree RenewalLedger
PROPERTIES RevokedStaysRevoked PausedStaysPaused CustomersKept
CHECK_DEADLOCK FALSE
