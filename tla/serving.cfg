SPECIFICATION AllEnds
CONSTANTS
    home = home  new = new  app = app
    d1 = d1  d2 = d2  q1 = q1  q2 = q2  k1 = k1
    Nil = Nil
    Workspaces = {home, new}
    Applications = {app}
    Requests = {r1, r2}
    Home = home
    Owner <- MCOwner
    Conns = 3
    Overlap = {TRUE, FALSE}
    LastTick = 1
INVARIANTS ServedPersisted
PROPERTIES RequestsEnd EveryDeliveryEnds DueRecordsFire
CHECK_DEADLOCK FALSE
