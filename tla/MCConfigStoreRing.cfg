\* No events: the ring alone.
CONSTANTS
  NPages = 4
  SectorStarts <- TwoSectors
  TopMask = 7
  MaxTop = 7
  Zero = z
  Reading = {z, a}
  Garbage = g
  NImage = 3
  ResumeMin = 1
  Events = {}
SPECIFICATION Spec
INVARIANTS RingNeverLosesReading
