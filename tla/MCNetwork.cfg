\* Joining, losing and finding the network again, with stops, pulses, clicks
\* and updates at any moment.
CONSTANTS
  Attempts = 2
  MaxTasks = 3
  Disturbances = {}
SPECIFICATION FairSpec
INVARIANTS TypeOK SomethingWillRun BackoffEndsWithNetwork PollTimerRuns OneAttemptAtATime
PROPERTIES GivesUpOrTriesOn
