SPECIFICATION FairSpec
CONSTANTS
  Readers = {r1}
  Calls = {"read", "readnb", "poll"}
  SMP = TRUE
  Signals = FALSE
PROPERTIES WokenWhenData
