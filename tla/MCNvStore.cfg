\* Power cuts at every step of writes and factory resets, in a module that
\* cannot hold all items at once.
CONSTANTS
  small = small
  alike = alike
  large = large
  Items = {small, alike, large}
  Values = {old, new}
  None = none
  Size <- SmallAndLarge
  Slots = 3
  Room = 3
  FlagTears = FALSE
SYMMETRY Symmetry
SPECIFICATION Spec
INVARIANTS TypeOK
PROPERTIES WritesAreAtomic AlwaysASector RefusedOnlyWhenFull
