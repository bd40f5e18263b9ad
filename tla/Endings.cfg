SPECIFICATION EndingsSpec
CONSTANTS
  Host = TRUE
  Tabs = {"groups", "persistent", "settings"}
  Planned = {"fix", "purge"}
  Confirmed = {"rollback"}
  Direct = {"destroyOne", "restore"}
  Forms = {"runnerEdit", "uninstall", "create", "group", "onboard"}
  Panels = {"orgPick", "picker", "filter"}
  Steps = 1
  MaxFlight = 2
  MaxTicks = 1
  Versions = {"v1", "v2", "bad"}
  Healthy = {"v1", "v2"}
  First = "v1"
  Faults = {"fetch", "stop", "rename", "extract", "start", "selftest", "crash"}
  MaxFaults = 3
INVARIANTS
  SessionSafe
PROPERTIES
  NeverLosesAgent
  RunsAsAsked
  WhatIsStartedEnds
CHECK_DEADLOCK FALSE
