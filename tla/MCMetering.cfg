\* Pulses, presets, restarts and failing updates; one contact bounces.
CONSTANTS
  Channels = {"hot", "cold"}
  Polls = 2
  Overflow = 3
  Unit = 2
  MaxStep = 2
  Written = {"hot", "step", "other"}
  Values = {1, 5}
  MaxWrites = 1
  Bouncing = {"hot"}
SPECIFICATION FairSpec
INVARIANTS TypeOK AttributeShowsReading CountedPulsesKept BelowOverflow EachClosureCountedOnce
PROPERTIES ClosuresGetCounted
