\* The comms-loss opt-in against a device that answers unusably.
CONSTANTS
  MaxAge = 4
  MaxPolls = 2
  Levels = {1, 2}
  Ups = {u1}
  Profiles <- OptInOnly
  Readings <- AllReadings
  RestoreMax = 3
SPECIFICATION Spec
PROPERTIES CommLossMeansSilence
