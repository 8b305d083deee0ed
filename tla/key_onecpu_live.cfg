SPECIFICATION FairSpec
CONSTANTS
  Readers = {r1}
  Calls = {"read", "readnb", "poll"}
  SMP = FALSE
  Signals = FALSE
INVARIANTS TypeOK NonBlockNeverSleeps PollPromise
PROPERTIES ReadDeliversSample BlockedReadReturns WokenWhenData ImplementsLatch
