---------------------------- MODULE DriverTables ----------------------------
(***************************************************************************)
(* The init/probe function, the goto ladder and the exit/remove function   *)
(* of each driver as three tables.  A step of Load names what it takes,    *)
(* the value its failure leaves in ret (neg: a negative errno; one: the    *)
(* result of IS_ERR; zero: ret was not set; ignored: the result is not     *)
(* tested; none: it cannot fail) and the place in the ladder it jumps to.  *)
(***************************************************************************)
EXTENDS Sequences, Naturals

Step(get, fail, to) == [get |-> get, fail |-> fail, to |-> to]

(* Every character driver starts with the same five steps and ends with    *)
(* their mirror image; n is what its own ladder has in front of it, errno  *)
(* is what a failing class_create or device_create leaves in ret.          *)
CdevLoad(n, errno) == << Step("mem", "neg", n + 6), Step("region", "neg", n + 5),
                         Step("cdev", "neg", n + 4), Step("class", errno, n + 3),
                         Step("node", errno, n + 2) >>
CdevUnwind == <<"node", "class", "cdev", "region", "mem">>

(* chrdev_demo.c                                                           *)
ChrdevLoad == CdevLoad(0, "neg")
ChrdevUnwind == CdevUnwind
ChrdevUnload == CdevUnwind

(* export_gpio_demo.c                                                      *)
ExportGpioLoad == CdevLoad(1, "one") \o
                  << Step("gpioA7", "neg", 2), Step("check", "neg", 1) >>
ExportGpioUnwind == <<"gpioA7">> \o CdevUnwind
ExportGpioUnload == <<"gpioA7">> \o CdevUnwind

(* export_gpiod_demo.c: the descriptor is looked up, never requested, and  *)
(* gpiod_put gives it back all the same.                                   *)
ExportGpiodLoad == CdevLoad(1, "one") \o
                   << Step("check", "zero", 2), Step("check", "neg", 1) >>
ExportGpiodUnwind == <<"gpiod">> \o CdevUnwind
ExportGpiodUnload == <<"gpiod">> \o CdevUnwind

(* ioremap_gpio_demo.c                                                     *)
IoremapLoad == CdevLoad(3, "one") \o
               << Step("ddr", "neg", 4), Step("dr", "neg", 3), Step("ext", "neg", 2) >>
IoremapUnwind == <<"ext", "dr", "ddr">> \o CdevUnwind
IoremapUnload == <<"ext", "ddr", "dr">> \o CdevUnwind

(* keyirq_demo.c                                                           *)
KeyirqLoad == CdevLoad(4, "one") \o
              << Step("ddr", "neg", 5), Step("dr", "neg", 4), Step("ext", "neg", 3),
                 Step("irqA7", "neg", 2), Step("wq", "none", 1) >>
KeyirqUnwind == <<"irqA7", "ext", "dr", "ddr">> \o CdevUnwind
KeyirqUnload == <<"irqA7", "ext", "ddr", "dr">> \o CdevUnwind

(* platform_gpiodrv.c: the test after the third ioremap looks at the first *)
(* mapping, and remove forgets the third.                                  *)
PlatformGpioLoad == CdevLoad(3, "neg") \o
                    << Step("check", "neg", 4), Step("ddr", "neg", 4),
                       Step("check", "neg", 3), Step("dr", "neg", 3),
                       Step("check", "neg", 2), Step("ext", "ignored", 2) >>
PlatformGpioUnwind == <<"ext", "dr", "ddr">> \o CdevUnwind
PlatformGpioUnload == <<"dr", "ddr">> \o CdevUnwind

(* platform_keyirqdrv.c: the test after the second ioremap looks at the    *)
(* first mapping.                                                          *)
PlatformKeyirqLoad == CdevLoad(3, "neg") \o
                      << Step("check", "neg", 4), Step("ddr", "neg", 4),
                         Step("check", "neg", 3), Step("ext", "ignored", 3),
                         Step("check", "neg", 2), Step("check", "neg", 2),
                         Step("irqA7", "neg", 2), Step("wq", "none", 1) >>
PlatformKeyirqUnwind == <<"irqA7", "ext", "ddr">> \o CdevUnwind
PlatformKeyirqUnload == <<"irqA7", "ext", "ddr">> \o CdevUnwind

(* simple_input_drv.c: input_unregister_device is followed by              *)
(* input_free_device on every path.                                        *)
SimpleInputLoad == << Step("mem", "neg", 5), Step("inputreg", "neg", 4),
                      Step("check", "neg", 3), Step("irqA7", "neg", 2) >>
SimpleInputUnwind == <<"irqA7", "gpiod", "inputreg", "mem">>
SimpleInputUnload == <<"irqA7", "inputreg", "mem">>

(* mt_input_drv.c with the two keys of its device tree.  The properties of *)
(* a key are read untested; err2 frees the lines of the keys before the    *)
(* failing one, err1 frees none.                                           *)
MtInputLoad == << Step("mem", "neg", 5),
                  Step("check", "ignored", 1), Step("check", "neg", 4), Step("irqA7", "neg", 4),
                  Step("check", "ignored", 1), Step("check", "neg", 3), Step("irqB1", "neg", 3),
                  Step("inputreg", "neg", 4) >>
MtInputUnwind == <<"inputreg", "irqB1", "irqA7", "mem">>
MtInputUnload == <<"irqB1", "irqA7", "inputreg", "mem">>

(* The pair on chrybus: probe and remove take and give back nothing.       *)
ChryLoad == << Step("check", "none", 1) >>

AllDrivers == {"chrdev", "export_gpio", "export_gpiod", "ioremap", "keyirq",
               "platform_gpio", "platform_keyirq", "simple_input", "mt_input",
               "chry"}

LoadTable == [chrdev |-> ChrdevLoad, export_gpio |-> ExportGpioLoad,
              export_gpiod |-> ExportGpiodLoad, ioremap |-> IoremapLoad,
              keyirq |-> KeyirqLoad, platform_gpio |-> PlatformGpioLoad,
              platform_keyirq |-> PlatformKeyirqLoad,
              simple_input |-> SimpleInputLoad, mt_input |-> MtInputLoad,
              chry |-> ChryLoad]
UnwindTable == [chrdev |-> ChrdevUnwind, export_gpio |-> ExportGpioUnwind,
                export_gpiod |-> ExportGpiodUnwind, ioremap |-> IoremapUnwind,
                keyirq |-> KeyirqUnwind, platform_gpio |-> PlatformGpioUnwind,
                platform_keyirq |-> PlatformKeyirqUnwind,
                simple_input |-> SimpleInputUnwind, mt_input |-> MtInputUnwind,
                chry |-> <<>>]
UnloadTable == [chrdev |-> ChrdevUnload, export_gpio |-> ExportGpioUnload,
                export_gpiod |-> ExportGpiodUnload, ioremap |-> IoremapUnload,
                keyirq |-> KeyirqUnload, platform_gpio |-> PlatformGpioUnload,
                platform_keyirq |-> PlatformKeyirqUnload,
                simple_input |-> SimpleInputUnload, mt_input |-> MtInputUnload,
                chry |-> <<>>]

(* What the read, write and poll operations of each driver dereference.    *)
FileNeedsTable == [chrdev |-> {"mem"}, export_gpio |-> {"mem", "gpioA7"},
                   export_gpiod |-> {"mem"}, ioremap |-> {"mem", "ddr", "dr", "ext"},
                   keyirq |-> {"mem", "wq"}, platform_gpio |-> {"mem", "ddr", "dr", "ext"},
                   platform_keyirq |-> {"mem", "wq"},
                   simple_input |-> {}, mt_input |-> {}, chry |-> {}]

(* What each interrupt handler dereferences.                               *)
HandlerNeedsTable == [chrdev |-> {}, export_gpio |-> {}, export_gpiod |-> {},
                      ioremap |-> {}, keyirq |-> {"mem", "ext", "wq"},
                      platform_gpio |-> {}, platform_keyirq |-> {"mem", "ext", "wq"},
                      simple_input |-> {"mem"}, mt_input |-> {"mem"}, chry |-> {}]

(* What stays behind: remove of platform_gpio does not unmap the input     *)
(* register, and err1 of mt_input frees no interrupt line.                 *)
LeaksTable == [chrdev |-> {}, export_gpio |-> {}, export_gpiod |-> {},
               ioremap |-> {}, keyirq |-> {}, platform_gpio |-> {"ext"},
               platform_keyirq |-> {}, simple_input |-> {},
               mt_input |-> {"irqA7", "irqB1"}, chry |-> {}]
=============================================================================
