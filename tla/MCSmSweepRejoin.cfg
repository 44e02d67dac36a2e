SPECIFICATION FairSpec
CONSTANTS
  Host = {h1}
  Rates = {"on"}
  Traps = FALSE
  Forces = FALSE
  Rejoins = TRUE
  MaxFails = 0
PROPERTY
  MembersProgrammed
