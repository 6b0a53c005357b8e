\* Power cuts between and inside flash operations, during updates and factory
\* resets too.
CONSTANTS
  NPages = 4
  SectorStarts <- TwoSectors
  TopMask = 6
  MaxTop = 6
  Zero = z
  Reading = {z, a}
  Garbage = g
  NImage = 3
  ResumeMin = 1
  Events = {"update", "cut", "factory"}
SPECIFICATION Spec
INVARIANTS UpdateKeepsReading
PROPERTIES AppendKeepsOldOrNew
