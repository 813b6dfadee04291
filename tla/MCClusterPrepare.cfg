\* Every site with every configuration, reads that fail in either call.
CONSTANTS
  db = db
  usv = usv
  twin = twin
  NoGuest = NoGuest
  Gone = Gone
  Guests <- MCGuests
  Name <- MCName
  Container = {usv}
  Flags = {"noout", "norecover"}
  Sites <- MCSites
  Settings <- MCSettings
  Unread = {"guests", "ha", "prepare", "restore"}
SPECIFICATION Spec
INVARIANTS OwnGuestIsSpared
PROPERTIES PreparedIsPrepared FlagsComeAnyway RestoredIsRestored
\* Where nothing is wanted, nothing ever happens.
CHECK_DEADLOCK FALSE
