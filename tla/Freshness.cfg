SPECIFICATION Spec
CONSTANTS
  Second = 2
  MaxDuration = 15
  Illegal = Illegal
  Controls <- SomeControls
  Ahead <- SomeExpires
  Malformed = TRUE
  Births <- SomeBirths
  Expires = {0, 5}
  Skews <- SomeSkews
  MaxPause = 1
  MaxClock = 7
CHECK_DEADLOCK FALSE
INVARIANTS TypeOK ReplayedWhileFresh AgeNotUnderstated TTLWithinLifetime LastsItsTTL OrderIsImmaterial
