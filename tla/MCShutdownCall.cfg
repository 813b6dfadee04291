\* Two calls at a time, in every layout and across a save from one to another; every call
\* ends, under the fairness of the clock and of the deadline.
CONSTANTS
  e1 = e1
  e2 = e2
  m1 = m1
  m2 = m2
  u1 = u1
  u2 = u2
  Bad = Bad
  Entries = {e1, e2}
  Machines = {m1, m2}
  Urls = {u1, u2}
  Behind <- MCBehind
  Configs <- MCConfigs
  Timeout = 2
  Grace = 1
  Overruns = TRUE
SPECIFICATION FairSpec
INVARIANTS OneMachinePerCall GreenIsServed DeadlineIsBackstop
PROPERTIES CallsEnd
