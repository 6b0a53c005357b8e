\* Two sensors and a network that comes and goes.
CONSTANTS
  First = "leak1"
  Second = "leak2"
  Endpoints = {"ep4", "ep5"}
  Polls = 3
  Selectable = {}
  MaxRestarts = 0
  Offline = TRUE
SPECIFICATION FairSpec
PROPERTIES OutageOnlyDelays
