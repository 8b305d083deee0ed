SPECIFICATION Spec
CONSTANTS
  Readers = {r1, r2}
  Calls = {"read", "readnb", "poll"}
  SMP = FALSE
  Signals = TRUE
SYMMETRY ReaderSymmetry
VIEW KernelView
INVARIANTS NoSleepOnData PublishedEventIsWhole
