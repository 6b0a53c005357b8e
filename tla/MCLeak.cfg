\* Two sensors that bounce, a network that comes and goes, one restart.
CONSTANTS
  First = "leak1"
  Second = "leak2"
  Endpoints = {"ep4", "ep5"}
  Polls = 3
  Selectable = {"on_off", "off_on", "toggle", "other"}
  MaxRestarts = 1
  Offline = TRUE
SPECIFICATION FairSpec
INVARIANTS TypeOK AlarmFollowsSensors CoordinatorTold
PROPERTIES ActionsSurvive LeakStopsWater ValveStaysShut
