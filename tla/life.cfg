SPECIFICATION BusSpec
CONSTANTS
  Drivers <- AllDrivers
  Load <- LoadTable
  Unwind <- UnwindTable
  Unload <- UnloadTable
  Leaks <- LeaksTable
  Pinned <- OwnModules
  FileNeeds <- FileNeedsTable
  HandlerNeeds <- HandlerNeedsTable
  Reporting <- PtrErrDrivers
  MaxActive = 2
  MaxOpen = 1
  BusOf <- BusTable
INVARIANTS TypeOK NothingLeftBehind ReleasesOnlyHeld LiveIsComplete Grounded QuietBeforeFree PinnedFileSafe BoundIsRegistered PairIsProbed
