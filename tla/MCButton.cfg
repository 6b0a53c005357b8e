\* Five clicks scaled to three; presses of all lengths, beyond the wrap; a contact that bounces.
CONSTANTS
  Polls = 3
  Clicks = 3
  CounterSize = 8
  Long = 2
  Full = 4
  Report = 3
  Wrap = 6
  MaxHold = 7
  Bounce = TRUE
SPECIFICATION FairSpec
INVARIANTS TypeOK
PROPERTIES FactoryResetEarned LongPressRestarts RestartComesFirst LeftAloneSleeps
