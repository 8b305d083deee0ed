SPECIFICATION BusSpec
CONSTANTS
  Drivers <- ChrdevAndKeyirq
  Load <- LoadTable
  Unwind <- UnwindTable
  Unload <- UnloadTable
  Leaks <- LeaksTable
  Pinned <- ChrdevAndKeyirq
  FileNeeds <- FileNeedsTable
  HandlerNeeds <- HandlerNeedsTable
  Reporting <- NoDrivers
  MaxActive = 2
  MaxOpen = 1
  BusOf <- NoBus
INVARIANTS LoadedMeansComplete
