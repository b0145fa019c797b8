SPECIFICATION WatchFairSpec
CONSTANTS
  Pushed = {1, 2}
  Outside = {2}
  Fires = {11}
  Intents <- TwoIntents
  Versions = 2
  MaxEvents = 2
  Policy <- Verified
  Flags <- Defaults
  Explicit = {}
  MaxAgents = 1
INVARIANTS
  AcceptanceJudges
PROPERTIES
  LandsOnTop
  ArrivalsDecided
  IntentsServed
