\* Saves, presets, updates and restarts in any order, two laps of the ring.
CONSTANTS
  NPages = 4
  SectorStarts <- TwoSectors
  TopMask = 7
  MaxTop = 7
  Zero = z
  Reading = {z, a}
  Garbage = g
  NImage = 3
  ResumeMin = 1
  Events = {"update"}
SPECIFICATION Spec
INVARIANTS TypeOK ReadingSurvives StoreInv WritesOnlyErasedPages
PROPERTIES ImplementsDurableReading
