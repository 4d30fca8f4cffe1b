SPECIFICATION SocketSpec
CONSTANTS
  c1 = c1
  c2 = c2
  w1 = w1
  w2 = w2
  q1 = q1
  s1 = s1
  s2 = s2
  x1 = x1
  x2 = x2
  Conns <- TwoConns
  Plain = {}
  Identified <- TwoConns
  Summarising = {}
  JobWorkers <- OneWorker
  Requests = {q1}
  Contents = {x1, x2}
  Sessions = {s1}
  First = s1
  QueueCap = 1
  FlushSlots = 1
  MaxUnits = 2
  MaxFaults = 1
INVARIANTS AnswersMatch PaidIsServed
PROPERTIES Answered Ends
CHECK_DEADLOCK FALSE
