\* The battery is to be reported once an hour.
CONSTANTS
  Entries = {"battery"}
  Initial <- Battery
  Configs = {}
  MaxAttrs = 0
  UnitMs = 300000
  WrapMs = 268435
  MaxPosted = 40
  MaxSince = 30
  Unstable = {}
SPECIFICATION Spec
INVARIANTS OncePerMaximum
