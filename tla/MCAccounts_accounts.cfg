CONSTANTS
  None = None
  First = First
  Calls = {c1, c2, c3}
  MailLimit = 1
  Menu <- FullMenu
  FirstAccounts <- Starts
SPECIFICATION Spec
INVARIANTS
  PasswordProven
  MailsInOrder
PROPERTIES
  NothingTakenBack
SYMMETRY SymCalls
