SPECIFICATION Spec
CONSTANTS
  Readers = {r1}
  Calls = {"read", "readnb", "poll"}
  SMP = TRUE
  Signals = TRUE
PROPERTIES ReadWaitsForData
