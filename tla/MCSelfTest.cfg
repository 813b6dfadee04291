\* Two hosts, any two kinds of disturbance, the three minutes around midnight.
CONSTANTS
  h1 = h1
  h2 = h2
  None = None
  Hosts = {h1, h2}
  Watched = h1
  DayLength = 6
  Schedules <- AllSchedules
  Scenarios <- Pairs
  Clock <- AroundMidnight
SPECIFICATION Spec
INVARIANTS ChecksSeeTheConfig
PROPERTIES SlotRunsOnce RearmTestIsKept
