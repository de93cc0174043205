CONSTANTS
  Nothing = Nothing
  o1 = o1
  o2 = o2
  a1 = a1
  c1 = c1
  u = u
  l1 = l1
  m1 = m1
  Orders = {o1, o2}
  Staff = {a1}
  Customer = u
  Changes = {c1}
  Clients = {a1}
  Mails = {l1}
  Marks = {m1}
  MaxTime = 1
  MaxCrashes = 2
  MaxRefusals = 1
SPECIFICATION CommunicationsSpec
INVARIANTS
  OneNoteEach
  AtMostTwice
  ReadByRecipient
  GivenUpMeansAllTried
SYMMETRY Symmetric
CHECK_DEADLOCK FALSE
