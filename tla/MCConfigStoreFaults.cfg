\* Everything that can happen, on a log of three pages: updates that are refused
\* or wait for an address, flash operations skipped on a low battery, power cuts.
CONSTANTS
  NPages = 3
  SectorStarts <- TwoSectors
  TopMask = 3
  MaxTop = 3
  Zero = z
  Reading = {z}
  Garbage = g
  NImage = 2
  ResumeMin = 0
  Events = {"update", "cut", "lowcharge", "noaddr", "factory", "lowflash"}
SPECIFICATION Spec
PROPERTIES ImageUntouched
