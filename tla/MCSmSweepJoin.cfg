SPECIFICATION FairSpec
CONSTANTS
  Host = {h1}
  Rates = {"on", "off"}
  Traps = FALSE
  Forces = FALSE
  Rejoins = FALSE
  MaxFails = 1
INVARIANTS
  NoLostJoin
  RetryIsSoon
PROPERTY
  MembersProgrammed
