SPECIFICATION TestSpec
CONSTANTS
  Readers = {r1}
  Calls = {"read"}
  SMP = FALSE
  Signals = FALSE
INVARIANTS ShowsTheKey
