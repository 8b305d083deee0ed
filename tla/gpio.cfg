SPECIFICATION Spec
CONSTANTS
  Procs = {p1, p2}
  Loader = loader
SYMMETRY ProcSymmetry
VIEW PinView
INVARIANTS TypeOK NeighbourKept
PROPERTIES SettledAsWritten ReadAloneIsExact
