# Verification of DriverDemo

DriverDemo is a set of Linux kernel modules for one pin of a RK3288 board,
GPIO0_A7: character devices that set or read the pin, drivers that take its
interrupt and hand key events to processes, the same drivers once more on the
platform bus and in the input subsystem, a bus of its own, and two user
programs that read the key. This directory holds TLA+ models of them, the TLC
configurations that check the models, and TLAPS proofs.

    tlc -workers 2 -config key_onecpu.cfg MCKeyIrq.tla      (10 s, 257 000 states)
    tlc -workers 2 -config life.cfg MCDriverLife.tla        (1 min, 506 000 states)
    tlc -workers 2 -config gpio.cfg MCGpioReg.tla           (1 min, 827 000 states)
    tlc -workers 2 -config files.cfg FileLoop.tla           (1 min, 97 000 states)
    tlapm DriverLifeProofs.tla                              (and the other *Proofs.tla)

## 1. Inventory

| Part | State it keeps | Operations | Talks to |
|---|---|---|---|
| `keyirq_demo.c`, run time | `event` (two words), `key_state`, `wq_head` | `key_irq_handler`, `read`, `poll`; `open`, `release`, `write` change nothing | interrupt controller, wait queue, user processes |
| `keyirq_demo.c`, load/unload | record, region, cdev, class, node, three mappings, interrupt line | `init` with a goto ladder, `exit` | module loader, `/dev`, processes |
| `platform_keyirqdrv.c` | the same, two mappings | `probe`, `remove`, `read`, `poll`, handler | platform bus, `platform_keyirqdev.c` |
| `platform_gpiodrv.c` | the same without interrupt | `probe`, `remove`, `read`, `write` | platform bus, `platform_gpiodev.c`, registers |
| `chrybus`, `chrydev`, `chrydrv` | bus, device, driver registration | `init`, `exit`, prefix `match`, `probe`, `remove` | driver core |
| `chrdev_demo.c` | a 32 byte buffer `knbuf`, file position | `init`, `exit`, `read`, `write` | `chry_math.c` |
| `ioremap_gpio_demo.c` | three mapped registers | `init`, `exit`, `read`, `write` | registers shared with the GPIO driver |
| `export_gpio_demo.c`, `export_gpiod_demo.c` | a GPIO number or descriptor | `init`, `exit`, `read`, `write` | gpiolib |
| `simple_input_drv.c`, `mt_input_drv.c` | an input device, one or two lines | `init`, `exit`, handler | input core, device tree |
| `key_test.c`, `input_test.c` | last event | endless read loop | the key drivers |

How they interact: `insmod`/`rmmod` and the platform bus call `init`/`probe` and
`exit`/`remove`; processes call the file operations through the node that
`device_create` publishes; the interrupt calls the handler, which shares one
global record with the file operations and no lock. All character drivers create
a class of the same name and four of them take the same pin or line, so they
compete when two are loaded.

What is hard in this code, and what would make each part correct:

* **Run time of the key driver** (concurrency, liveness). Handler and readers
  share `event` and `key_state` without a lock; the handler wakes the queue
  *before* it raises the flag. Right is: no thread sleeps on published data, a
  delivered event is one whole sample of the pin, `O_NONBLOCK` never sleeps,
  what `poll` reports is there, a blocked read ends after the next edge.
* **Load and unload** (partial failure, ordering). Up to fourteen steps may
  fail, each with a label of its own. Right is: after a failed load or an unload
  nothing is left, nothing is released twice, "loaded" means complete, the
  interrupt goes before what its handler touches, an open file finds its driver.
* **Bus** (order of events). Device, driver and bus are modules of their own,
  loaded and removed in any order, and a probe may fail. Right is: a pair is
  probed as soon as both halves are there and taken apart before either is gone.
* **Registers** (read-modify-write without a lock, torn reads). Right is: the pin
  ends as some order of the writes leaves it, other pins of the bank keep their
  level, a read that nobody disturbs is exact.
* **File operations** (position, lengths, results). Right is: `cat` and `echo`
  end, and it can be said what they print and store.
* **key_test** (lost events). Right is: what it shows last is the state of the key.

The hazards, each at its source line with the properties that would catch it,
are in `PROJECT.json`.

## 2. Modules

| Module | What it is |
|---|---|
| `KeyIrq` | handler, wait queue, `read`, `poll` of the key drivers |
| `KeyLatch` | abstract specification: a lossy one-place latch |
| `KeyIrqLatch` | refinement mapping `KeyIrq` -> `KeyLatch` |
| `MCKeyIrq` | symmetry and view for TLC |
| `KeyTest` | `key_test.c` composed with `KeyIrq` |
| `DriverLife` | one machine for load, goto ladder, unload and open files |
| `DriverTables` | the tables of the ten drivers for it |
| `PlatformBus` | `DriverLife` with buses, device and driver modules in between; its steps on a driver are the actions of `DriverLife` |
| `MCDriverLife` | constants of both for TLC, with `ASSUME`s of what the order theorems ask of the tables and of which drivers may be opened during `init` |
| `GpioReg` | the three registers under read-modify-write, and the reads |
| `MCGpioReg` | symmetry and view for TLC |
| `FileLoop` | `cat` and `echo` on `chrdev_demo`, the GPIO drivers and `keyirq_demo` |
| `KeyIrqProofs`, `KeyIrqLatchProofs`, `DriverLifeProofs`, `DriverOrderProofs`, `PlatformBusProofs`, `GpioRegProofs`, `GpioOrderProofs`, `FileLoopProofs` | proofs (section 7) |

One specification is abstract: `KeyLatch`, which the key driver implements.
`PlatformBus` is built from the actions of `DriverLife`: the bus only decides *when*
a probe or a remove starts, so what is proved of a driver's life from its tables
alone holds under the bus as well (section 7 uses it; that a bus behaviour is one of
`DriverLife` follows from how the module is written and is no result).
The modules that are proved about use no recursive
operator; `Orders` of `GpioReg` is a recursive function.

## 3. `KeyIrq`: the key driver at run time

One access to shared memory is one step.

| Model | Code (`keyirq_demo.c`) |
|---|---|
| `event`, `key_state`, `wq_head` | fields of `keyirq_demo_desc` (65-79); `wq_head` keeps only the threads nothing has woken yet |
| `level`, `pending`, `KeyEdge` | the pin and the controller: both edges trigger, an edge during the handler stays latched (external) |
| `HandlerEnter`, `HandlerKey`, `HandlerVal`, `HandlerWake`, `HandlerFlag` | `key_irq_handler` (243-268): sample, two stores, wake, flag |
| `ReadEnter` | the `O_NONBLOCK` test (118) |
| `WaitCond` ... `WaitWoken` | `wait_event_interruptible` (124), as its macro orders condition, queueing, condition, sleep; the error after a signal is not looked at |
| `ReadLength`, `ReadTooShort` | 126-129, after the wait |
| `CopyKey`, `CopyVal`, `CopyFault` | `copy_to_user` (132-137), word by word |
| `ClearKey`, `ClearVal`, `ClearFlag` | 140-142 |
| `PollEnter` ... `PollLast` | `keyirq_demo_poll` (151-172) inside the kernel's poll loop |

`Init` is the state after a successful load. `kmalloc` does not clear, so `event`
starts with any contents. `val` is 128 for a pressed key, not the 1 of the
comment at line 61, because the handler stores the masked register: the model
keeps 128. `poll` returns `POLL_IN`, whose low bit is `POLLIN`; the model has the
result a caller sees.

The constant `SMP` says whether threads run while the handler does. On one CPU
(`FALSE`) the handler is atomic for them, although they interleave with each
other at every access; on several CPUs (`TRUE`) it is not. The order of stores is
program order; the weaker orders of the hardware are not modelled.

Runs:

| Run | Instance | Shows |
|---|---|---|
| `key_onecpu` | 2 processes, one CPU, signals | `NoSleepOnData`: waking before raising the flag loses no wake-up here. `PublishedEventIsWhole`: a raised flag goes with one whole sample unless a reader is clearing it |
| `key_onecpu_live` | 1 process, one CPU, fairness | `NonBlockNeverSleeps`, `PollPromise`, `TypeOK`, `ReadDeliversSample`, `BlockedReadReturns`, `WokenWhenData`, `ImplementsLatch` |
| `key_smp_wakeup` | 1 process, several CPUs, fairness | **violated** `WokenWhenData`: the lost wake-up |
| `key_signal` | 1 process, signals | **violated** `ReadWaitsForData`: after a signal `read` returns an event nobody published |
| `keytest_stuck` | `key_test` alone, one CPU, no signals | **violated** `ShowsTheKey`: an edge handled between the copy and `key_state = 0` is wiped with the delivered event |

Bounds. Two processes are the smallest number in which one takes the event
another waits for; processes are interchangeable (symmetry), and
`NoSleepOnData` and `PublishedEventIsWhole` speak of each process against the
device, so a third adds no new pair. They are proved for any number in section
7. `key_onecpu` uses the view `KernelView`, which drops the user buffers and
the past results: no action and neither invariant reads them. The runs with one
process check promises the driver makes only to a process that has the device to
itself: with two, the other one can take the event between the `O_NONBLOCK` test
(118) and the wait (124), or between `poll` and `read`, and the non-blocking read
sleeps. `PollPromise` says that what `poll` reported is still there; it does not say
that `poll` reports every event. `NonBlockNeverSleeps` and `PollPromise` do not depend
on the number of CPUs or on signals: the run has one CPU and none, the theorem
`AloneKeepsPromises` (section 7) all. Nothing else is bounded: the number of
edges, calls and signals is not.

Fairness. `WF_vars(Handler)`: an interrupt that is latched is served and its
handler, which contains no loop, ends. `SF_vars(Thread(r))`: a thread that is
runnable again and again gets the CPU although interrupts keep coming (on one CPU
every interrupt disables its step, so weak fairness would say nothing). No
fairness for `KeyEdge`, calls, signals or the poll timeout: nobody must press,
read, send or set one.

`KeyLatch` is what the driver promises to a process alone with it: room for one
sample, a newer one replaces it, a sample is handed over once, one that arrives
while the last is being cleared is lost with it. `KeyIrqLatch` maps `full` to
`key_state = 1`, `clearing` to the reader between its copy and `key_state = 0`,
and the hand-over to the copy of the second word.

`KeyTest` adds the program: a blocking read of one whole event, then a line of
output (`Judge`, `key_test.c` 26-39). Its result is ignored there (25); in this run
every read succeeds. `ShowsTheKey` asks that when the program sleeps and every edge
has been handled, its last line tells the state of the key.

## 4. `DriverLife` and `PlatformBus`: load, failure, unload, and the bus

Every `init`/`probe` of the repository is a list of steps, each with the value its
failure leaves in `ret` and the label it jumps to; the ladder and `exit`/`remove`
are lists of releases. `DriverTables` has these three lists for ten drivers, line
by line; `DriverLife` runs them, several drivers side by side. `PlatformBus` puts
the bus in between for the three drivers that have one.

| Model | Code |
|---|---|
| `Insmod`, `Acquire`, `Jump`, `Overlook`, `Loaded` | `init`/`probe`: the next step succeeds, fails and jumps, or fails unnoticed (then it is in `skipped`) |
| `Release`, `Unwound` | the labels, then `return ret`: only a negative value makes the loader give up |
| `Orphan` | the loader then frees the module, also under a file that a process opened meanwhile (`opened` becomes `"stale"`) |
| `Rmmod`, `Release`, `Unloaded` | `exit`/`remove`; an open file pins the module through `fops.owner`, not a platform device |
| `Open`, `Close` | processes and the node: it can be opened from `device_create` to `device_destroy`, in every driver, also while `init` or its ladder runs, but not once `rmmod` has begun. `opened` remembers whether the driver was live then (`"live"`) or not (`"amid"`) |
| `Taken` | one class `chry`, one owner for each line and requested pin |
| `RegisterBus`, `UnregisterBus` | `chrybus_demo.c`: the module can go when no module that uses its symbol is left |
| `RegisterDevice`, `RegisterDriver` | the two halves of a pair, in either order; `Probe` runs when the other half is there |
| `UnregisterDevice`, `UnregisterDriver`, `Unbind` | the first half that leaves takes a bound pair apart; the device lock makes it wait for a probe or remove that runs |
| `Proceed` | one step of a load or unload; a probe that failed is not repeated (`refused`) |
| `Alone` | `insmod` and `rmmod` of the drivers that are modules of their own |

| Run | Instance | Shows |
|---|---|---|
| `life` | 10 drivers, two at a time, platform bus and chrybus | the nine invariants below and, as `ASSUME`s, the conditions on the tables and that only `chrdev_demo` is ready with its node |
| `life_hollow` | chrdev + keyirq | **violated** `LoadedMeansComplete`: `ret = IS_ERR(...)` is 1, and a load that undid everything counts as loaded |
| `life_remove_open` | platform_gpio | **violated** `FileSafe`: `remove` with the file open |

`NothingLeftBehind`, `ReleasesOnlyHeld`, `LiveIsComplete`, `Grounded` (the record is
taken first and given back last), `QuietBeforeFree` (the interrupt goes before what
its handler touches) and `PinnedFileSafe` are about one driver's tables at every
failure, beside a second driver that holds what the first one wants.
`BoundIsRegistered` and `PairIsProbed` are about the
order in which modules come and go.

Bounds. `MaxActive = 2`: drivers with a module loaded or a file open, plus buses that
are modules.
Drivers meet over resources in pairs, one holding what the other wants; a pair on
the bus is one driver here, so both halves, a competitor and a failing probe fit.
`MaxOpen = 1`: the files of two drivers share nothing, so an open file of one, beside
another driver that loads, fails or unloads, is all there is to see. Every failure of
every step is in the run. Restrictions of the promises, not of the code paths:

* `Leaks` names what two drivers are known to leave: `platform_gpiodrv.c:244`
  forgets the third mapping, and `err1` of `mt_input_drv.c` frees no interrupt line
  (175, 192). `NothingLeftBehind` says that nothing else stays; `Grounded` and
  `QuietBeforeFree` are about the other drivers.
* `skipped` records the failures nobody tests: the ioremap of the input register
  (`platform_gpiodrv.c:171` and the second ioremap of `platform_keyirqdrv.c` test
  another pointer). Such a driver is live without its register; the properties
  allow that one gap.
* `QuietBeforeFree` exempts the wait queue while a key driver loads, because
  `request_irq` (`keyirq_demo.c:376`) comes before `init_waitqueue_head` (384).
* `ReleasesOnlyHeld` and `LiveIsComplete` are stated for the drivers that report
  every failure as a negative errno (`chrdev_demo`, `platform_keyirqdrv`): the others
  break them, `life_hollow` shows how, `export_gpiod_demo` puts a descriptor it never
  got, and `simple_input_drv` frees its input device after unregistering it.
* `PinnedFileSafe` is about files opened while the driver was live. Of a file that
  was opened during `init` it promises something only for a driver that is
  `ReadyWithNode`: what the operations touch comes before the node, and no later step
  can fail. `OnlyChrdevIsReady` finds that `chrdev_demo` is the only one. In
  `keyirq_demo.c` (316), `ioremap_gpio_demo.c` (249) and the export drivers the node
  comes first: a file opened then reads through pointers that are not set yet, and if
  a later step fails, `init` frees everything, and the loader the module, while the
  file is open. The model has these steps; no property excuses or denies them.

No fairness: `init`, `probe`, their ladders and `remove` are straight-line code, and
nothing is claimed about when they end.

## 5. `GpioReg`: the pin behind its registers

`ioremap_gpio_demo.c` and `platform_gpiodrv.c` change the direction and the output
register by a load and a store of the whole bank, without a lock; both the
`readl`/`writel` form that is compiled and the `|=` form behind
`USE_BIT_OP_MODE` are one load and one store.

| Model | Code (`ioremap_gpio_demo.c`) |
|---|---|
| `ddr`, `dr` | the registers, as sets of pins: A7 and one other pin of the bank |
| `Write`, `LoadDdr`, `StoreDdr`, `LoadDr`, `StoreDr` | `gpio_demo_write` (175-196): '0' and '1' set the direction, then the level; '2' the direction only |
| `ReadDdr`, `ReadDr`, `ReadExt` | `gpio_demo_read` (100-102 and 120-131), one register after the other |
| `Mapped`, `InitHigh`, `InitLow` | `init` (256-313): the node is usable before and while init blinks the pin |
| `Exit` | 346-350; an open file keeps `exit` from running |
| `Kernel` | the GPIO driver of the kernel on its own pin (external) |

`poss` is a history variable: the configurations that some order of the writes in
progress can have left, so that `SettledAsWritten` can say that overlapping writes
behave as if they were atomic once all have returned. `neighbour` holds the levels
the other pin may have.

The run `gpio` has two processes, the loader and the kernel: three threads that
write at once, two readers, every command, every initial level and direction.
Processes are interchangeable (symmetry); the view leaves out `answer`, which no
action reads. More writers add no new register access pattern to a single bit: a
store sets or clears A7 by its own command, whatever it loaded. All four
properties are proved for any number of processes in section 7.

What the run shows and what it does not:

* A lost update of the *other* pin is possible (`neighbour` becomes both levels when
  the kernel sets its pin between a load and a store); nothing else disturbs it.
* On one CPU the pin itself is safe: when all writes have returned, direction and
  driven level are those of some order. `Kernel` is one step, the read-modify-write of
  the GPIO driver with interrupts off; on several CPUs it could load before a store
  of this driver and write the old bit of A7 back after it, which the model does not
  have. The output bit *behind an input* may be one that no
  order leaves: with three overlapping writers, '2' may come last in the direction
  register and not in the output register. Nobody sees it until the direction
  changes, which sets the level too.
* A read that overlaps a write may mix two settings (an output reported with the old
  level); only undisturbed reads are exact.
* Writing '0' to an input that has the output bit set drives it high between
  `StoreDdr` and `StoreDr`; the model has this, no property forbids it.

## 6. `FileLoop`: `cat` and `echo`

The comments of the drivers propose `cat` and `echo` to try them (for example
`ioremap_gpio_demo.c:87-88`). `FileLoop` runs these programs: `cat` reads chunks of
one size until it gets 0 or an error, `echo` writes its message and goes on with
what a write left over.

| Model | Code |
|---|---|
| `Read`, `AtEnd`, `ReadRefused` | position and length tests: `chrdev_demo.c` 89-97, `export_gpio_demo.c` 66-74 (and the other GPIO drivers) |
| `CopyOut`, `ReadReturn` | the copy, always from the start of `knbuf`; `pos` and result move by `len`, or by 3 |
| `Write`, `CopyIn`, `WriteReturn` | `chrdev_demo.c` 121-135; GPIO drivers 104-139; `keyirq_demo_write`, which returns 0 |
| `WriteInvalid`, `Fault` | `-EINVAL` after the copy, `-EFAULT` in the middle of one |

`files`: two processes on `chrdev` and `gpio`, `KNBUFLEN = 2`, lengths 1 to 3, so
that a chunk and a message are shorter than the buffer, as long, and longer; with
longer buffers the same three cases repeat. Bytes are copied one at a time and
`knbuf` has no lock, so two programs interleave in every way. `CatPrints` says what
`cat` prints when no `echo` overlaps it, and that is not the content of the device:
each chunk is the *first* bytes of the buffer again, and a chunk longer than the
buffer has bytes nobody stored. It describes the code; the comment of
`chrdev_demo_read` (82) promises that `pos` says where to start reading, which
`file_cat` states and finds **violated** (`ReadStartsAtPos`): a second read of one
byte gets the first byte again. `EchoStores` says that the tail of a long message
overwrites its head. `file_echo` is the same on `keyirq_demo`: **violated**
`EchoEnds`.

Fairness: `WF(Step(u))`, a program that was started runs on; nobody has to start
one.

Not visible here: a GPIO read of length 2 is accepted but copies 3 bytes, and
`chrdev_demo.c:133` prints `knbuf` as a string without a terminating 0.

## 7. What is proved

For every value of the constants that satisfies the named assumptions of the
modules and, where said, more:

| Theorem | From | Says |
|---|---|---|
| `TypeCorrect` | - | `KeyIrq`: `Spec => []TypeOK` |
| `NoLostWakeup` | one CPU | `[]NoSleepOnData`, any number of processes, with signals |
| `PublishedWhole` | one CPU | `[]PublishedEventIsWhole`, any number of processes |
| `AloneKeepsPromises` | one process | `[]NonBlockNeverSleeps` and `[]PollPromise`, several CPUs, signals |
| `DeliveredWhole` | one process, one CPU, no signals | the action property `ReadDeliversSample` |
| `ImplementsLatchSafely` | the same | `KeyIrq` implements the safety half of `KeyLatch` |
| `LifeTypeCorrect` | - | `DriverLife`: `[]TypeOK`, any drivers and tables |
| `CoveringTablesLeaveNothing` | `TablesCover` | `[]NothingLeftBehind` |
| `ReportingDriversAreComplete` | `TablesReport`, `TablesCover` | `[]LiveIsComplete` |
| `NothingReleasedTwice` | `TablesCover`, `TablesReport`, `TablesExact` | `[]ReleasesOnlyHeld` |
| `RecordOutlivesHandles` | `TablesCover`, `TablesGround` | `[]Grounded` |
| `LineGoesBeforeHandlerNeeds` | `TablesCover`, `TablesQuiet` | `[]QuietBeforeFree` |
| `OpenFilesAreUsable` | `TablesCover`, `TablesOpen` | `[]PinnedFileSafe` |
| `BusTypeCorrect`, `BusLeavesNothing`, `BusLoadsComplete` | `TablesCover`, `TablesReport`, which `PlatformBusAssumption` includes | the first three invariants above under the bus, where a driver makes the steps of `DriverLife` |
| `BusKeepsOrder` | `TablesExact`, `TablesGround`, `TablesQuiet`, `TablesOpen` as well | the other four under the bus |
| `BoundWhileRegistered`, `EveryPairIsProbed` | - | the invariants of `PlatformBus`, any drivers and buses |
| `GpioTypeCorrect`, `NeighboursAreKept`, `UndisturbedReadIsExact` | - | `GpioReg`, any number of processes |
| `WritesSettle` | - | the action property `SettledAsWritten`, any number of overlapping writers |
| `FilesTypeCorrect` | - | `FileLoop`: `[]TypeOK`, any processes, buffer size and lengths |
| `CatPrintsFirstBytes`, `EchoStoresLastBytes` | - | the action properties `CatPrints` and `EchoStores`, likewise |

The invariants checked are not inductive; the strengthenings are:

* `SleepInv` for `NoSleepOnData`. The danger is the point between wake and flag, so
  the invariant speaks of it: while the handler has woken but not raised the flag,
  no thread is on the queue. On one CPU no thread can join it then.
* `EventInv` for `PublishedEventIsWhole`: what the event holds at each point of the
  handler, and that between handlers, flag up and nobody clearing, it is the last
  sample.
* `AloneInv` for the promises to one process: between its test and its read nobody
  but the handler touches the flag, and the handler only raises it.
* `DeliverInv` for `ReadDeliversSample` and for the latch: during the copy the flag is
  up, the event whole, and the word already copied is the key, which no later event
  changes. A step of `KeyIrq` that moves neither the reader between copying and
  clearing, nor the flag, nor the value, is a stutter of the latch.
* `HoldsOwed` for `NothingLeftBehind`: what a driver holds is covered by what the
  rest of its tables will still release (`Owed`), beyond its leaks. `TablesCover`
  is what the code must do for that: each label releases at least what was taken
  before the jumps to it. TLC evaluates it, and `TablesReport`, for the tables of
  the repository: they are assumptions of `PlatformBus`, which run `life` extends.
* `CompleteInv` for `LiveIsComplete`: at each step of a load, all earlier steps
  succeeded or were overlooked.
* `TakenInv` for the orders of release: a driver misses nothing it has come past but
  what it overlooked, and if it is live without having finished its load it holds
  only its leaks. `BasedInv` carries from step to step, for a resource `r` and
  a `b` it stands on, that `b` is there while `r` is held: `TablesGround` (b taken
  before r and released after it, on every path) gives `Grounded`, `TablesQuiet` the
  same for the line and what its handler needs.
* `OpenInv` for `PinnedFileSafe`: a file opened of a live driver keeps the driver
  live, with all that its operations use (`TablesOpen`: `init` takes it and tests for
  it); a file opened during `init` of a driver that is ready with its node finds the
  driver still loading, past the last step that can fail, or live.
* `AheadInv` for `ReleasesOnlyHeld`: everything the rest of the list releases is still
  held, or was overlooked. `TablesExact` is needed: without it a list may name a
  thing twice, or a label release what comes after the jump to it.
* `BusInv` for the two properties of the bus: they hold together with the fact
  that a driver in its remove never has both halves registered.
* `OrderInv` for `SettledAsWritten`, with `CmdInv` and `PossInv`. The property looks at
  the last return only; to get there each return has to leave orders that still serve
  the writes in progress. While the pin is an input, some order of exactly the
  writers that have set their direction (`Directed`) ends as an input; while it is an
  output, each of them can be the one that went last; and *any* set of the writers can
  be the ones that are in the order so far, so an input command, which ends at its
  direction store, always finds an order to end. That `Orders` is closed, so that a
  writer can be appended, is `RoundsClosed`: a pair that first appears in round k has
  at least k writers in it, so after as many rounds as there are writers none is
  left to add. `Orders` is a recursive function, that is a `CHOOSE`; `RoundsExist`
  shows that there is one. The inductions go through the least-number principle
  (`LeastNumber`), stated of sets.
* `NeighbourInv`: the word a thread has loaded has the other pin at one of the
  levels it may have. `ReadInv`: what a pure read has sampled is still what the
  registers hold.
* `TypeInv` for `TypeOK` of `FileLoop`: how far each call and each program is, which
  bounds the position by the file size plus one call. `AloneInv`: a program counts as alone
  only while nobody else runs an `echo`. `PrintInv` for `CatPrints`: whole chunks printed
  so far, and each printed byte is the cell at its place in the chunk.
  `StoreInv` for `EchoStores`: `knbuf` filled a whole number of times, and each cell
  holds the last byte of its residue class among those stored. Both need a few facts
  about `%` and `\div` that the prover does not find by itself (a multiple
  of the chunk length adds nothing to a remainder, two numbers of one class are a
  buffer apart).

The assumptions are needed: without one CPU TLC finds `key_smp_wakeup`; without one
process a non-blocking read sleeps; without "no signals" a read copies an empty
event.

`TablesCover` and `TablesReport` are evaluated by TLC in every run of `PlatformBus`,
whose assumption they are, and `TablesExact`, `TablesGround`, `TablesQuiet` and
`TablesOpen` in `life` (`ASSUME TablesOrdered` in `MCDriverLife`, with
`OnlyChrdevIsReady`): the tables of the repository satisfy all six. They are
conditions on the text of each driver alone, so that a change of one `init` or
`exit` can be judged without its interleavings.

Only model-checked: everything under fairness (`WokenWhenData`,
`BlockedReadReturns`, `CatEnds`, `EchoEnds`, and the liveness half of
`ImplementsLatch`), because the prover has no rule for fairness here. Every other property
of a passing run has a theorem.

## 8. Where code and documents disagree

* `keyirq_demo.c:123` "block until key_state = 1": the lost wake-up on several CPUs
  (`key_smp_wakeup`) and the ignored signal (`key_signal`).
* `keyirq_demo.c:139` "clear the data after it was passed to user space": an event
  that was not passed on is cleared too (`keytest_stuck`).
* `README.md:51-53` goto ladder and release in exit: the hollow load (`life_hollow`).
* `platform_gpiodrv.c:61` the owner keeps operations usable: `life_remove_open`.
* `chrdev_demo.c:82` "pos says where in the file to start reading": `read` starts at
  the beginning of `knbuf` whatever `pos` is (`file_cat`).
* `export_gpio_demo.c:139` "if 0 is returned echo retries forever":
  `keyirq_demo_write` returns 0 (`file_echo`).

Without a run: `keyirq_demo.c:91`, and the same comment in the ioremap and export
drivers, says that `.owner` keeps the module from being unloaded while its operations
are in use, but an `init` that fails after a process has opened the node frees the
module all the same (section 4); `val` is 128 for a pressed key, not 1 (`keyirq_demo.c:61`);
`O_NONBLOCK` with two readers may sleep (`keyirq_demo.c:117`); the queue is
initialised after the interrupt is requested (against `中断.md:199`); the export
drivers answer value, then direction, the ioremap drivers direction, then value;
the id tables of both platform drivers have no terminating entry.

## 9. Not modelled

`chry_math.c` (two pure lines), `input_test.c` and the input core it reads from and
the input drivers report to, what gpiolib does with the pin of the export drivers,
`printk`, the disabled `#if 0` branches, device-tree parsing beyond "the lookup may
fail" (so also the number of keys `mt_input_drv` finds, and the 0 with which
`irq_of_parse_and_map` reports a failure), the documents. A failing registration of
a device, a driver or a bus: these modules have one step, and refuse to load. What a
second reader copies while the first one clears. Memory order weaker than program
order.
