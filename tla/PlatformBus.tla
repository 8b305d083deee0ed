---------------------------- MODULE PlatformBus -----------------------------
(***************************************************************************)
(* DriverLife with the bus in between.  A driver of bus_demo is two        *)
(* modules, one that registers a device and one that registers a driver;   *)
(* they may be loaded and removed in either order, and the bus calls probe *)
(* when the second of the two arrives and remove when the first leaves.    *)
(* chrybus is itself a module, which the modules that use its symbol keep  *)
(* loaded.                                                                 *)
(***************************************************************************)
EXTENDS DriverLife

CONSTANTS BusOf        \* the bus of each driver that sits on one

ASSUME PlatformBusAssumption ==
         /\ DOMAIN BusOf \subseteq Drivers \ Pinned
         /\ TablesCover /\ TablesReport

BusDrivers == DOMAIN BusOf

VARIABLES devices,     \* pairs whose device is registered
          modules,     \* pairs whose driver is registered
          refused,     \* history: pairs whose probe failed since they met
          buses        \* the registered buses

registry == <<devices, modules, refused, buses>>
busVars == <<vars, registry>>

BusInit == /\ Init
           /\ devices = {} /\ modules = {} /\ refused = {} /\ buses = {"platform"}

Busy(d) == phase[d] # "out" \/ d \in devices \cup modules

(* The bound MaxActive counts the drivers with a module loaded or a file   *)
(* open and the buses that are modules.                                    *)
Room(others) == Cardinality({e \in others : Busy(e) \/ Active(e)})
                  + Cardinality(buses \ {"platform"}) < MaxActive
Admitted(d) == Room(Drivers \ {d})

-----------------------------------------------------------------------------
(* insmod of the module chrybus, and its rmmod once no module that uses    *)
(* its symbol is left.                                                     *)
RegisterBus(b) == /\ b \notin buses /\ Room(Drivers)
                  /\ buses' = buses \cup {b}
                  /\ UNCHANGED <<vars, devices, modules, refused>>

UnregisterBus(b) == /\ b \in buses \ {"platform"}
                    /\ \A d \in BusDrivers : BusOf[d] = b => ~Busy(d)
                    /\ buses' = buses \ {b}
                    /\ UNCHANGED <<vars, devices, modules, refused>>

(* The other half is there: the bus matches the names and calls probe.  A  *)
(* failing probe leaves both registered.                                   *)
Probe(d, others) == IF d \in others THEN Insmod(d) ELSE UNCHANGED vars

RegisterDevice(d) == /\ d \notin devices /\ phase[d] = "out"
                     /\ BusOf[d] \in buses /\ Admitted(d)
                     /\ Probe(d, modules)
                     /\ devices' = devices \cup {d}
                     /\ UNCHANGED <<modules, refused, buses>>

(* Faulty variant: only the registration of a device looks for a partner.  *)
RegisterDriverUnmatched(d) == /\ d \notin modules /\ phase[d] = "out"
                              /\ BusOf[d] \in buses /\ Admitted(d)
                              /\ modules' = modules \cup {d}
                              /\ UNCHANGED <<vars, devices, refused, buses>>

RegisterDriver(d) == /\ d \notin modules /\ phase[d] = "out"
                     /\ BusOf[d] \in buses /\ Admitted(d)
                     /\ Probe(d, devices)
                     /\ modules' = modules \cup {d}
                     /\ UNCHANGED <<devices, refused, buses>>

(* A bound pair is taken apart by remove; an unbound half just goes.  The  *)
(* device lock keeps either from happening while probe or remove runs.     *)
Unbind(d) == \/ Rmmod(d)
             \/ phase[d] = "out" /\ UNCHANGED vars

(* Faulty variant: the device goes without remove.                         *)
UnregisterDeviceBound(d) == /\ d \in devices /\ phase[d] \in {"live", "out"}
                            /\ devices' = devices \ {d} /\ refused' = refused \ {d}
                            /\ UNCHANGED <<vars, modules, buses>>

UnregisterDevice(d) == /\ d \in devices
                       /\ Unbind(d)
                       /\ devices' = devices \ {d} /\ refused' = refused \ {d}
                       /\ UNCHANGED <<modules, buses>>

(* The driver's module is the one an open file pins.                       *)
UnregisterDriver(d) == /\ d \in modules /\ opened[d] = "no"
                       /\ Unbind(d)
                       /\ modules' = modules \ {d} /\ refused' = refused \ {d}
                       /\ UNCHANGED <<devices, buses>>

-----------------------------------------------------------------------------
(* The drivers that are modules of their own.                              *)
Alone(d) == /\ d \notin BusDrivers
            /\ \/ Insmod(d) /\ Admitted(d)
               \/ Rmmod(d)
            /\ UNCHANGED registry

(* A load or an unload goes on; a probe that has failed is not repeated.   *)
Proceed(d) ==
  /\ Progress(d)
  /\ refused' = IF d \in BusDrivers /\ phase[d] = "unwind" /\ phase'[d] = "out"
                  THEN refused \cup {d} ELSE refused
  /\ UNCHANGED <<devices, modules, buses>>

(* A driver whose module is on its way out cannot be opened any more; one  *)
(* that loses its device can, until remove destroys the node.              *)
Use(d) == /\ \/ Open(d) /\ (d \in BusDrivers => d \in modules)
             \/ Close(d)
          /\ UNCHANGED registry

BusNext ==
  \/ \E d \in Drivers : Alone(d) \/ Proceed(d) \/ Use(d)
  \/ \E d \in BusDrivers : \/ RegisterDevice(d) \/ RegisterDriver(d)
                           \/ UnregisterDevice(d) \/ UnregisterDriver(d)
                           \/ RegisterBus(BusOf[d]) \/ UnregisterBus(BusOf[d])

BusSpec == BusInit /\ [][BusNext]_busVars

-----------------------------------------------------------------------------
(* A device and a driver are bound, or about to be, only while both are    *)
(* registered; whichever leaves first takes the pair apart.                *)
BoundIsRegistered ==
  \A d \in BusDrivers : phase[d] \in {"load", "unwind", "live"} => d \in devices \cap modules

(* Once both are registered, in either order, and no load is under way,    *)
(* they are bound unless a probe has failed since.                         *)
PairIsProbed ==
  \A d \in devices \cap modules : phase[d] = "out" => d \in refused
=============================================================================
