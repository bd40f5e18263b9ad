SPECIFICATION FairSession
CONSTANTS
  Host = TRUE
  Tabs = {"persistent", "settings"}
  Planned = {"fix", "prune"}
  Confirmed = {"rollback"}
  Direct = {"destroyOne", "restore"}
  Forms = {"runnerEdit", "uninstall", "create", "group", "onboard"}
  Panels = {"orgPick", "picker", "filter"}
  Steps = 1
  MaxFlight = 2
  MaxTicks = 1
PROPERTIES
  ConfirmedIsWhatRuns
CHECK_DEADLOCK FALSE
