------------------------- MODULE PlatformBusProofs -------------------------
(***************************************************************************)
(* Proofs about PlatformBus, for any drivers, tables and buses: what is    *)
(* shown of DriverLife carries over; a pair is bound only while both       *)
(* halves are registered; a registered pair is probed.                     *)
(***************************************************************************)
EXTENDS PlatformBus, DriverOrderProofs

USE PlatformBusAssumption

(* Every step of the bus is a step of one driver's life or leaves all      *)
(* lives alone.                                                            *)
LEMMA BusStepIsLifeStep == [BusNext]_busVars => [Next]_vars
<1> SUFFICES ASSUME [BusNext]_busVars
             PROVE  [Next]_vars
  OBVIOUS
<1>1. CASE UNCHANGED busVars
  BY <1>1 DEF busVars
<1>2. CASE \E d \in Drivers : Alone(d) \/ Proceed(d) \/ Use(d)
  BY <1>2 DEF Alone, Proceed, Use, Next
<1>3. ASSUME NEW d \in BusDrivers,
             RegisterDevice(d) \/ RegisterDriver(d)
      PROVE  [Next]_vars
  <2>1. Insmod(d) \/ UNCHANGED vars
    BY <1>3 DEF RegisterDevice, RegisterDriver, Probe
  <2> QED
    BY <2>1 DEF Next, BusDrivers
<1>4. ASSUME NEW d \in BusDrivers,
             UnregisterDevice(d) \/ UnregisterDriver(d)
      PROVE  [Next]_vars
  <2>1. Rmmod(d) \/ UNCHANGED vars
    BY <1>4 DEF UnregisterDevice, UnregisterDriver, Unbind
  <2> QED
    BY <2>1 DEF Next, BusDrivers
<1>5. ASSUME NEW d \in BusDrivers,
             RegisterBus(BusOf[d]) \/ UnregisterBus(BusOf[d])
      PROVE  [Next]_vars
  BY <1>5 DEF RegisterBus, UnregisterBus
<1> QED
  BY <1>1, <1>2, <1>3, <1>4, <1>5 DEF BusNext

(* So whatever is shown of DriverLife holds here.                          *)
LEMMA BusImplementsLife == BusSpec => Spec
<1>1. BusInit => Init
  BY DEF BusInit
<1> QED
  BY <1>1, BusStepIsLifeStep, PTL DEF BusSpec, Spec

(* Type correctness carries over.                                          *)
THEOREM BusTypeCorrect == BusSpec => []TypeOK
<1> QED
  BY BusImplementsLife, LifeTypeCorrect, PTL

(* On the bus too nothing is left behind: that the tables cover is an      *)
(* assumption of the module, which each run evaluates for its tables.      *)
THEOREM BusLeavesNothing == BusSpec => []NothingLeftBehind
<1> QED
  BY BusImplementsLife, CoveringTablesLeaveNothing, PTL

(* Nor is a driver of a bus loaded with half of its resources.             *)
THEOREM BusLoadsComplete == BusSpec => []LiveIsComplete
<1> QED
  BY BusImplementsLife, ReportingDriversAreComplete, PTL

(* Give back in the right order, and a probe or a remove that the bus      *)
(* starts at any moment does too: nothing goes twice, the record last, the *)
(* interrupt before what its handler touches, and what an open file needs  *)
(* not while it is open.                                                   *)
THEOREM BusKeepsOrder ==
  ASSUME TablesExact, TablesGround, TablesQuiet, TablesOpen
  PROVE  BusSpec => []ReleasesOnlyHeld /\ []Grounded /\ []QuietBeforeFree /\ []PinnedFileSafe
<1>1. Spec => []ReleasesOnlyHeld /\ []Grounded /\ []QuietBeforeFree /\ []PinnedFileSafe
  BY NothingReleasedTwice, RecordOutlivesHandles, LineGoesBeforeHandlerNeeds,
     OpenFilesAreUsable, PTL
<1> QED
  BY BusImplementsLife, <1>1, PTL

-----------------------------------------------------------------------------
(* How a step moves the phase of one driver.                               *)
LEMMA PhaseOfMover ==
  ASSUME TypeOK, NEW d \in Drivers
  PROVE  /\ Insmod(d) => phase[d] = "out" /\ phase'[d] = "load"
         /\ Rmmod(d) => phase[d] = "live" /\ phase'[d] = "unload"
         /\ Open(d) \/ Close(d) => phase' = phase
         /\ Progress(d) =>
              \/ phase[d] \in {"load", "unwind"} /\ phase'[d] \in {"load", "unwind", "live"}
              \/ phase[d] = "unwind" /\ phase'[d] = "out"
              \/ phase[d] = "unload" /\ phase'[d] \in {"unload", "out"}
<1>0. phase \in [Drivers -> Phases]
  BY DEF TypeOK
<1>1. /\ Insmod(d) => phase[d] = "out" /\ phase'[d] = "load"
      /\ Rmmod(d) => phase[d] = "live" /\ phase'[d] = "unload"
      /\ Open(d) \/ Close(d) => phase' = phase
  BY <1>0 DEF Insmod, Rmmod, Open, Close, Enter
<1>2. ASSUME Progress(d)
      PROVE  \/ phase[d] \in {"load", "unwind"} /\ phase'[d] \in {"load", "unwind", "live"}
             \/ phase[d] = "unwind" /\ phase'[d] = "out"
             \/ phase[d] = "unload" /\ phase'[d] \in {"unload", "out"}
  BY <1>0, <1>2 DEF Progress, Acquire, Jump, Overlook, Loaded, Release, Unwound,
                    Unloaded, Enter, StepFails, Loading, Releasing
<1> QED
  BY <1>1, <1>2

(* PairIsProbed is not inductive: a driver that is being removed must not  *)
(* find both halves registered when it is out.  RegisterDevice and         *)
(* RegisterDriver wait until it is.                                        *)
Together(d) == d \in devices /\ d \in modules

Paired(d) == /\ phase[d] \in {"load", "unwind", "live"} => Together(d)
             /\ phase[d] = "unload" => ~Together(d)
             /\ phase[d] = "out" /\ Together(d) => d \in refused

BusInv == /\ devices \subseteq BusDrivers
          /\ \A d \in BusDrivers : Paired(d)

LEMMA InitBusInv == BusInit => BusInv
BY DEF BusInit, Init, BusInv, Paired, Together, BusDrivers

(* A driver that none of the variables about it sees moving.               *)
LEMMA PairedUnmoved ==
  ASSUME NEW e, Paired(e), phase'[e] = phase[e],
         e \in devices' <=> e \in devices, e \in modules' <=> e \in modules,
         e \in refused => e \in refused'
  PROVE  Paired(e)'
BY DEF Paired, Together

LEMMA PhaseOfOthers ==
  ASSUME TypeOK, NEW d \in Drivers, NEW e \in Drivers, e # d,
         \/ Insmod(d) \/ Rmmod(d) \/ Open(d) \/ Close(d) \/ Progress(d)
         \/ UNCHANGED vars
  PROVE  phase'[e] = phase[e]
BY OthersUnmoved DEF vars

LEMMA NextBusInv == TypeOK /\ BusInv /\ [BusNext]_busVars => BusInv'
<1> SUFFICES ASSUME TypeOK, BusInv, [BusNext]_busVars
             PROVE  BusInv'
  OBVIOUS
<1> USE DEF BusDrivers
<1>1. CASE UNCHANGED busVars
  BY <1>1 DEF busVars, vars, registry, BusInv, Paired, Together
<1>2. ASSUME NEW d \in Drivers, Alone(d)
      PROVE  BusInv'
  <2>1. Insmod(d) \/ Rmmod(d)
    BY <1>2 DEF Alone
  <2>2. d \notin BusDrivers /\ UNCHANGED registry
    BY <1>2 DEF Alone
  <2>3. \A e \in BusDrivers : phase'[e] = phase[e]
    BY <2>1, <2>2, PhaseOfOthers
  <2> QED
    BY <2>2, <2>3, PairedUnmoved DEF BusInv, registry
<1>3. ASSUME NEW d \in Drivers, Proceed(d)
      PROVE  BusInv'
  <2>1. /\ Progress(d) /\ UNCHANGED <<devices, modules>>
        /\ refused \subseteq refused'
        /\ d \in BusDrivers /\ phase[d] = "unwind" /\ phase'[d] = "out" => d \in refused'
    BY <1>3 DEF Proceed
  <2>2. ASSUME NEW e \in BusDrivers, e # d PROVE Paired(e)'
    BY <2>1, <2>2, PhaseOfOthers, PairedUnmoved DEF BusInv
  <2>3. ASSUME d \in BusDrivers PROVE Paired(d)'
    BY <2>1, <2>3, PhaseOfMover DEF BusInv, Paired, Together
  <2> QED
    BY <2>1, <2>2, <2>3 DEF BusInv
<1>4. ASSUME NEW d \in Drivers, Use(d)
      PROVE  BusInv'
  <2>1. phase' = phase /\ UNCHANGED registry
    BY <1>4, PhaseOfMover DEF Use
  <2> QED
    BY <2>1, PairedUnmoved DEF BusInv, registry
<1>5. ASSUME NEW d \in BusDrivers, RegisterDevice(d) \/ RegisterDriver(d)
      PROVE  BusInv'
  <2>0. d \in Drivers
    OBVIOUS
  <2>1. /\ phase[d] = "out"
        /\ Insmod(d) \/ UNCHANGED vars
        /\ UNCHANGED refused
    BY <1>5 DEF RegisterDevice, RegisterDriver, Probe
  <2>2. /\ devices' \subseteq BusDrivers
        /\ \A e \in BusDrivers \ {d} : /\ e \in devices' <=> e \in devices
                                       /\ e \in modules' <=> e \in modules
    BY <1>5 DEF RegisterDevice, RegisterDriver, BusInv
  <2>3. \/ Insmod(d) /\ Together(d)'
        \/ UNCHANGED vars /\ ~Together(d)'
    BY <1>5 DEF RegisterDevice, RegisterDriver, Probe, Together
  <2>4. ASSUME NEW e \in BusDrivers, e # d PROVE Paired(e)'
    <3>1. e \in Drivers /\ phase'[e] = phase[e]
      BY <2>0, <2>1, <2>4, PhaseOfOthers
    <3> QED
      BY <2>1, <2>2, <2>4, <3>1, PairedUnmoved DEF BusInv
  <2>5. CASE Insmod(d) /\ Together(d)'
    <3>1. phase'[d] = "load"
      BY <2>5, <2>0, PhaseOfMover
    <3>2. Paired(d)'
      BY <2>1, <2>5, <3>1 DEF Paired
    <3> QED
      BY <2>2, <2>4, <3>2 DEF BusInv
  <2>6. CASE UNCHANGED vars /\ ~Together(d)'
    <3>1. phase'[d] = "out"
      BY <2>1, <2>6 DEF vars
    <3>2. Paired(d)'
      BY <2>1, <2>6, <3>1 DEF Paired
    <3> QED
      BY <2>2, <2>4, <3>2 DEF BusInv
  <2> QED
    BY <2>3, <2>5, <2>6
<1>6. ASSUME NEW d \in BusDrivers, UnregisterDevice(d) \/ UnregisterDriver(d)
      PROVE  BusInv'
  <2>0. d \in Drivers
    OBVIOUS
  <2>1. Rmmod(d) \/ (phase[d] = "out" /\ UNCHANGED vars)
    BY <1>6 DEF UnregisterDevice, UnregisterDriver, Unbind
  <2>2. /\ ~Together(d)' /\ devices' \subseteq BusDrivers
        /\ \A e \in BusDrivers \ {d} : /\ e \in devices' <=> e \in devices
                                       /\ e \in modules' <=> e \in modules
                                       /\ e \in refused => e \in refused'
    BY <1>6 DEF UnregisterDevice, UnregisterDriver, BusInv, Together
  <2>3. ASSUME NEW e \in BusDrivers, e # d PROVE Paired(e)'
    <3>1. e \in Drivers /\ phase'[e] = phase[e]
      BY <2>0, <2>1, <2>3, PhaseOfOthers
    <3> QED
      BY <2>1, <2>2, <2>3, <3>1, PairedUnmoved DEF BusInv
  <2>4. phase'[d] \in {"unload", "out"}
    BY <2>0, <2>1, PhaseOfMover DEF vars
  <2>5. Paired(d)'
    BY <2>1, <2>2, <2>4 DEF BusInv, Paired
  <2> QED
    BY <2>2, <2>3, <2>5 DEF BusInv
<1>7. ASSUME NEW d \in BusDrivers, RegisterBus(BusOf[d]) \/ UnregisterBus(BusOf[d])
      PROVE  BusInv'
  BY <1>7, PairedUnmoved DEF RegisterBus, UnregisterBus, BusInv, vars
<1> QED
  BY <1>1, <1>2, <1>3, <1>4, <1>5, <1>6, <1>7 DEF BusNext

LEMMA BusInvHolds == BusSpec => []BusInv
<1>1. BusInit => BusInv
  BY InitBusInv
<1> QED
  BY <1>1, NextBusInv, BusTypeCorrect, PTL DEF BusSpec

(* A pair is bound, or about to be, only while both halves are registered, *)
(* whichever of the two modules is loaded or removed first.                *)
THEOREM BoundWhileRegistered == BusSpec => []BoundIsRegistered
<1>1. BusInv => BoundIsRegistered
  BY DEF BusInv, Paired, Together, BoundIsRegistered
<1> QED
  BY <1>1, BusInvHolds, PTL

(* Once both halves are registered, in either order, the pair is bound or  *)
(* its probe has failed.                                                   *)
THEOREM EveryPairIsProbed == BusSpec => []PairIsProbed
<1>1. BusInv => PairIsProbed
  BY DEF BusInv, Paired, Together, PairIsProbed
<1> QED
  BY <1>1, BusInvHolds, PTL
=============================================================================
