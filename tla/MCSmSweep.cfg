SPECIFICATION Spec
CONSTANTS
  Host = {h1}
  Rates = {"on"}
  Traps = TRUE
  Forces = TRUE
  Rejoins = TRUE
  MaxFails = 1
INVARIANTS
  TypeOK
  AlwaysSweepAhead
