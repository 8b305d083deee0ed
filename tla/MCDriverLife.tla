---------------------------- MODULE MCDriverLife ----------------------------
(* PlatformBus over the drivers of the repository.  TLC evaluates for      *)
(* their tables what the theorems about the order of the releases assume.  *)
EXTENDS PlatformBus, DriverTables

(* What sits on a bus, and what an open file keeps loaded.                 *)
BusTable == [platform_gpio |-> "platform", platform_keyirq |-> "platform",
             chry |-> "chrybus"]
OwnModules == AllDrivers \ DOMAIN BusTable

(* class_create and device_create report with PTR_ERR, and every release   *)
(* on the way out is of something taken.                                   *)
PtrErrDrivers == {"chrdev", "platform_keyirq"}

NoDrivers == {}
ChrdevAndKeyirq == {"chrdev", "keyirq"}
NoBus == <<>>
OnlyPlatformGpio == {"platform_gpio"}
GpioBus == [platform_gpio |-> "platform"]

(* Only chrdev_demo can be opened safely while its init still runs; in the *)
(* others the node is there before what read and write dereference.        *)
ASSUME OnlyChrdevIsReady ==
  {d \in Pinned : "node" \in Gets(d) /\ ReadyWithNode(d)} = Pinned \cap {"chrdev"}

ASSUME TablesOrdered == TablesExact /\ TablesGround /\ TablesQuiet /\ TablesOpen
=============================================================================
