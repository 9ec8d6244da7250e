SPECIFICATION SuiteSpec
CONSTANTS
  Clients = {d1, d2, d3}
  Accounts = {b1, b2}
  NoClient = NoClient
  MaxTickets = 3
  None = None
  p1 = p1
  s1 = s1
  c1 = c1
  i1 = i1
  a1 = a1
  NoDomain = NoDomain
  l1 = l1
  r1 = r1
INVARIANTS
  WokenIffUnblocked
  TurnsExclude
  CountedOnce
PROPERTIES
  ViewsAdvance
  EveryTicketTurns
  LinksEnd
  PlacesComeBack
