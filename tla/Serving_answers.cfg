SPECIFICATION FairServing
CONSTANTS
  closed = closed
  open = open
  r1 = r1
  None = None
  Server = {1, 2, 3}
  Size = 4
  MaxPoints = 2
  PointHash <- Points123
  TenantHash <- TenantAtZero
  Tenant = {closed, open}
  FailsClosed = {closed}
  Trusts = {1, 2}
  Verifies = {1, 3}
  Capacity = 1
  Req = {r1}
INVARIANTS OneHop  AnswersAreAboutTheTenant SpeaksForItsKey
PROPERTY Answered
CHECK_DEADLOCK FALSE
