SPECIFICATION Spec
CONSTANTS
  c1 = c1
  c2 = c2
  s1 = s1
  NoSession = NoSession
  Conns <- TwoConns
  Sessions <- OneSession
  Inputs <- Streams
  DbTerm = 4
  LocalTerm = 3
  WriteSlack = 1
  Quantum = 2
  MaxReservations = 2
  Gift = 2
  Wallet = 7
  Percent = 50
PROPERTIES RevokedEnds
INVARIANTS OneWriter FramesArePrepaid BillIsExact
CHECK_DEADLOCK FALSE
