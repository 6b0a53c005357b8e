\* The battery with the minimum of user_init, 300 s, and a maximum of half an
\* hour, which a client may replace by any other kind, on the clock that repeats;
\* network and binding come and go.
CONSTANTS
  Entries = {"battery"}
  Initial <- FineBattery
  Configs <- AnyKind
  MaxAttrs = 1
  UnitMs = 100000
  WrapMs = 268435
  MaxPosted = 44
  MaxSince = 37
  Unstable = {"network", "binding"}
SPECIFICATION Spec
INVARIANTS TypeOK IntervalsInEffect OncePerTwoMaxima
PROPERTIES ReadingsReported NotTooOften
