\* One UPS, every answer, four profiles an operator switches between, and the
\* fairness of the loop and of the service manager.
CONSTANTS
  MaxAge = 4
  MaxPolls = 2
  Levels = {1, 2}
  Ups = {u1}
  Profiles <- AllProfiles
  Readings <- AllReadings
  RestoreMax = 3
SPECIFICATION FairSpec
INVARIANTS FailSafe
PROPERTIES ConfirmedOutageFires UnreachableRaisesAlarm CommLossIsProlonged
  DemandSurvivesBlindness CountdownSurvives KeepsPromise
