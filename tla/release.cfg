SPECIFICATION Spec
CONSTANTS
  Timely = TRUE
  Careless = FALSE
INVARIANTS RouteServes LeavesDrained
PROPERTIES ReleaseEnds
CHECK_DEADLOCK FALSE
