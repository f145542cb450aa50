SPECIFICATION ServicesSpec
CONSTANTS
  Requests = {r1, r2}
  Tickets = {t1, t2}
  Capacity = 1
  Places = 1
  NoTicket = NoTicket
  Updates = {u1, u2}
  Shipped = Shipped
  Nothing = Nothing
  Wanted = 2
  MaxHistory = 6
  MaxHooks = 1
  MaxText = 5
  MaxChanges = 2
  MaxSaid = 1
  Lengths = {0, 2000}
  MaxLinks = 2
  MaxResults = 1
  ChainBudget = 1
  Timeouts = {1, 2}
INVARIANTS
  BinarySurvives
  RequestFaithful
  TextFaithful
  ServedAsTold
  SearchAccounted
PROPERTIES
  AdmissionDecides TicketsSpentByEchoes
  FailedUpdateRestores AppliedAsMeant
CHECK_DEADLOCK FALSE
