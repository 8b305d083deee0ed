SPECIFICATION BusSpec
CONSTANTS
  Drivers <- OnlyPlatformGpio
  Load <- LoadTable
  Unwind <- UnwindTable
  Unload <- UnloadTable
  Leaks <- LeaksTable
  Pinned <- NoDrivers
  FileNeeds <- FileNeedsTable
  HandlerNeeds <- HandlerNeedsTable
  Reporting <- NoDrivers
  MaxActive = 2
  MaxOpen = 1
  BusOf <- GpioBus
INVARIANTS FileSafe
