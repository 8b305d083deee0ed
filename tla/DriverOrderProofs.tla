-------------------------- MODULE DriverOrderProofs --------------------------
(***************************************************************************)
(* Proofs about the order in which DriverLife gives back what it took: the *)
(* record goes last, the interrupt before what its handler touches, what   *)
(* an open file needs not at all, and nothing goes twice.  Each follows    *)
(* from a condition on the tables alone, whatever fails and whoever else   *)
(* loads meanwhile.                                                        *)
(***************************************************************************)
EXTENDS DriverLifeProofs

(* What HoldsOwed leaves open: a driver misses nothing it has come past,   *)
(* except what it overlooked, and a driver that is live without having     *)
(* finished its load has nothing at all.                                   *)
MissesNothing(d) ==
  /\ skipped[d] \subseteq Overlooked(d)
  /\ phase[d] = "load" => HeldBefore(d, at[d]) \subseteq held[d] \cup skipped[d]
  /\ phase[d] = "live" => \/ Gets(d) \subseteq held[d] \cup skipped[d]
                          \/ held[d] \subseteq Leaks[d]

TakenInv == \A d \in Drivers : MissesNothing(d)

(* The constants a state function is made of do not change in a step.      *)
LEMMA TablesUnmoved ==
  ASSUME NEW d
  PROVE  /\ Gets(d)' = Gets(d) /\ Overlooked(d)' = Overlooked(d)
         /\ \A i : HeldBefore(d, i)' = HeldBefore(d, i)
         /\ \A b, r : Outlives(d, b, r)' <=> Outlives(d, b, r)
BY DEF Gets, HeldBefore, Overlooked, Outlives, ReleasedFrom, Drop, MayJump

(* A step of driver d, in terms of d's own variables.                      *)
LEMMA DriverSteps ==
  ASSUME TypeOK, NEW d \in Drivers,
         Insmod(d) \/ Rmmod(d) \/ Open(d) \/ Close(d) \/ Progress(d)
  PROVE  \/ /\ phase[d] = "out" /\ phase'[d] = "load" /\ at'[d] = 1
            /\ UNCHANGED <<held, skipped, opened>>
         \/ /\ phase[d] = "live" /\ phase'[d] = "unload" /\ at'[d] = 1
            /\ d \in Pinned => opened[d] \in {"no", "stale"}
            /\ UNCHANGED <<held, skipped, opened>>
         \/ /\ "node" \in held[d]
            /\ phase[d] = "unload" => d \notin Pinned
            /\ opened'[d] = IF phase[d] = "live" THEN "live" ELSE "amid"
            /\ UNCHANGED <<phase, at, held, skipped>>
         \/ opened'[d] = "no" /\ UNCHANGED <<phase, at, held, skipped>>
         \/ /\ phase[d] = "load" /\ at[d] \in 1 .. Len(Load[d])
            /\ phase'[d] = "load" /\ at'[d] = at[d] + 1
            /\ \/ /\ held'[d] = held[d] \cup ({Load[d][at[d]].get} \ {"check"})
                  /\ skipped'[d] = skipped[d]
               \/ /\ Load[d][at[d]].fail = "ignored" /\ held'[d] = held[d]
                  /\ skipped'[d] = skipped[d] \cup ({Load[d][at[d]].get} \ {"check"})
            /\ UNCHANGED opened
         \/ /\ phase[d] = "load" /\ at[d] \in 1 .. Len(Load[d]) /\ MayJump(d, at[d])
            /\ phase'[d] = "unwind" /\ at'[d] = Load[d][at[d]].to
            /\ UNCHANGED <<held, skipped, opened>>
         \/ /\ phase[d] = "load" /\ at[d] = Len(Load[d]) + 1 /\ phase'[d] = "live"
            /\ UNCHANGED <<held, skipped, opened>>
         \/ /\ phase[d] \in {"unwind", "unload"} /\ phase'[d] = phase[d]
            /\ at[d] \in 1 .. Len(Table(d)) /\ at'[d] = at[d] + 1
            /\ held'[d] = held[d] \ Drop(Table(d)[at[d]])
            /\ UNCHANGED <<skipped, opened>>
         \/ /\ phase[d] \in {"unwind", "unload"} /\ at[d] = Len(Table(d)) + 1
            /\ phase'[d] \in {"live", "out"} /\ skipped'[d] = {}
            /\ opened'[d] = opened[d] \/ (opened[d] # "no" /\ opened'[d] = "stale")
            /\ UNCHANGED held
<1>0. /\ phase \in [Drivers -> Phases] /\ at \in [Drivers -> Nat]
      /\ held \in [Drivers -> SUBSET STRING] /\ skipped \in [Drivers -> SUBSET STRING]
      /\ opened \in [Drivers -> Files]
  BY DEF TypeOK
<1>1. CASE Insmod(d) \/ Rmmod(d)
  BY <1>0, <1>1 DEF Insmod, Rmmod, Enter
<1>2. CASE Open(d) \/ Close(d)
  BY <1>0, <1>2 DEF Open, Close
<1>3. CASE Acquire(d) \/ Overlook(d)
  BY <1>0, <1>3 DEF Acquire, Overlook, StepFails, Loading, LoadStep
<1>4. CASE Jump(d) \/ Loaded(d)
  BY <1>0, <1>4 DEF Jump, Loaded, StepFails, Loading, LoadStep, Enter, MayJump
<1>5. CASE Release(d)
  BY <1>0, <1>5 DEF Release, Releasing
<1>6. CASE Unwound(d) \/ Unloaded(d)
  BY <1>0, <1>6 DEF Unwound, Unloaded, Enter, Table, Orphan
<1> QED
  BY <1>1, <1>2, <1>3, <1>4, <1>5, <1>6 DEF Progress

LEMMA OthersStay ==
  ASSUME TypeOK, NEW d \in Drivers, NEW e \in Drivers, e # d,
         Insmod(d) \/ Rmmod(d) \/ Open(d) \/ Close(d) \/ Progress(d)
  PROVE  /\ phase'[e] = phase[e] /\ at'[e] = at[e] /\ held'[e] = held[e]
         /\ skipped'[e] = skipped[e] /\ opened'[e] = opened[e]
BY DEF Progress, Insmod, Rmmod, Open, Close, Acquire, Jump, Overlook, Loaded,
       Release, Unwound, Unloaded, Enter, Orphan, TypeOK

-----------------------------------------------------------------------------
LEMMA InitTaken == Init => TakenInv
BY DEF Init, TakenInv, MissesNothing

LEMMA MoverMissesNothing ==
  ASSUME TypeOK, HoldsOwed, NEW d \in Drivers, MissesNothing(d),
         Insmod(d) \/ Rmmod(d) \/ Open(d) \/ Close(d) \/ Progress(d)
  PROVE  MissesNothing(d)'
<1> DEFINE new == {Load[d][at[d]].get} \ {"check"}
<1>1. CASE UNCHANGED <<phase, at, held, skipped>>
  BY <1>1, TablesUnmoved DEF MissesNothing
<1>2. CASE phase'[d] = "load" /\ at'[d] = 1 /\ UNCHANGED skipped
  BY <1>2, HeldBeforeFirst, TablesUnmoved DEF MissesNothing
<1>3. CASE /\ phase[d] = "load" /\ at[d] \in 1 .. Len(Load[d])
           /\ phase'[d] = "load" /\ at'[d] = at[d] + 1
           /\ \/ held'[d] = held[d] \cup new /\ skipped'[d] = skipped[d]
              \/ /\ Load[d][at[d]].fail = "ignored" /\ held'[d] = held[d]
                 /\ skipped'[d] = skipped[d] \cup new
  <2>1. HeldBefore(d, at[d] + 1) = HeldBefore(d, at[d]) \cup new
    <3>1. at[d] \in Nat \ {0}
      BY <1>3, TablesShape
    <3> QED
      BY <3>1, HeldBeforeStep
  <2>2. Load[d][at[d]].fail = "ignored" => new \subseteq Overlooked(d)
    BY <1>3 DEF Overlooked
  <2> HIDE DEF new
  <2> QED
    BY <1>3, <2>1, <2>2, TablesUnmoved DEF MissesNothing
<1>4. CASE phase'[d] \in {"unwind", "unload"} /\ UNCHANGED skipped
  BY <1>4, TablesUnmoved DEF MissesNothing
<1>5. CASE /\ phase[d] = "load" /\ at[d] = Len(Load[d]) + 1 /\ phase'[d] = "live"
           /\ UNCHANGED <<held, skipped>>
  BY <1>5, TablesUnmoved DEF MissesNothing, Gets
<1>6. CASE /\ phase[d] \in {"unwind", "unload"} /\ at[d] = Len(Table(d)) + 1
           /\ phase'[d] \in {"live", "out"} /\ skipped'[d] = {} /\ UNCHANGED held
  <2>1. Owed(d) = {}
    BY <1>6, OwedByPhase, ReleasedFromEnd, TablesShape DEF Table
  <2>2. held'[d] \subseteq Leaks[d]
    BY <1>6, <2>1 DEF HoldsOwed
  <2> QED
    BY <1>6, <2>2 DEF MissesNothing
<1> QED
  BY <1>1, <1>2, <1>3, <1>4, <1>5, <1>6, DriverSteps

LEMMA NextTaken == TypeOK /\ HoldsOwed /\ TakenInv /\ [Next]_vars => TakenInv'
<1> SUFFICES ASSUME TypeOK, HoldsOwed, TakenInv, [Next]_vars, NEW e \in Drivers
             PROVE  MissesNothing(e)'
  BY DEF TakenInv
<1>0. MissesNothing(e)
  BY DEF TakenInv
<1>1. CASE UNCHANGED vars
  BY <1>0, <1>1, TablesUnmoved DEF vars, MissesNothing
<1>2. CASE Next
  <2> PICK d \in Drivers : Insmod(d) \/ Rmmod(d) \/ Open(d) \/ Close(d) \/ Progress(d)
    BY <1>2 DEF Next
  <2>1. CASE e = d
    BY <1>0, <2>1, MoverMissesNothing
  <2>2. CASE e # d
    BY <1>0, <2>2, OthersStay, TablesUnmoved DEF MissesNothing
  <2> QED
    BY <2>1, <2>2
<1> QED
  BY <1>1, <1>2

LEMMA TakenHolds ==
  ASSUME TablesCover
  PROVE  Spec => [](TypeOK /\ HoldsOwed /\ TakenInv)
<1> QED
  BY InitTypeOK, InitHoldsOwed, InitTaken, NextTypeOK, NextHoldsOwed, NextTaken, PTL DEF Spec

-----------------------------------------------------------------------------
(* While a tidy driver gives back, b is there as long as r is, if the      *)
(* tables keep b until r is gone.                                          *)
Based(d, b, r) ==
  phase[d] \in {"unwind", "unload"} /\ r \in held[d] => b \in held[d] \cup skipped[d]

BasedInv ==
  \A d \in Tidy : \A b, r \in Gets(d) : Outlives(d, b, r) => Based(d, b, r)

LEMMA InitBased == Init => BasedInv
BY DEF Init, BasedInv, Based, Tidy

LEMMA MoverBased ==
  ASSUME TypeOK, HoldsOwed, HoldsOwed', TakenInv,
         NEW d \in Tidy, NEW b \in Gets(d), NEW r \in Gets(d), Outlives(d, b, r), Based(d, b, r),
         Insmod(d) \/ Rmmod(d) \/ Open(d) \/ Close(d) \/ Progress(d)
  PROVE  Based(d, b, r)'
<1>0. d \in Drivers /\ Leaks[d] = {} /\ MissesNothing(d) /\ held[d] \subseteq Owed(d)
  BY DEF Tidy, TakenInv, HoldsOwed
<1>1. CASE phase'[d] \notin {"unwind", "unload"} \/ UNCHANGED <<phase, at, held, skipped>>
  BY <1>1 DEF Based
(* A jump: r is among what came before, so b is.                           *)
<1>2. CASE /\ phase[d] = "load" /\ at[d] \in 1 .. Len(Load[d]) /\ MayJump(d, at[d])
           /\ UNCHANGED <<held, skipped>>
  <2>1. /\ held[d] \subseteq HeldBefore(d, at[d])
        /\ HeldBefore(d, at[d]) \subseteq held[d] \cup skipped[d]
    BY <1>0, <1>2, OwedByPhase DEF MissesNothing
  <2>2. r \in HeldBefore(d, at[d]) => b \in HeldBefore(d, at[d])
    BY <1>2 DEF Outlives
  <2> QED
    BY <1>2, <2>1, <2>2 DEF Based
(* exit: the driver has everything, or nothing.                            *)
<1>3. CASE phase[d] = "live" /\ UNCHANGED <<held, skipped>>
  BY <1>0, <1>3 DEF Based, MissesNothing
(* A release that takes b away: nothing later in the list releases r, and  *)
(* the driver holds only what the list still releases.                     *)
<1>4. CASE /\ phase[d] \in {"unwind", "unload"} /\ phase'[d] = phase[d]
           /\ at[d] \in 1 .. Len(Table(d)) /\ at'[d] = at[d] + 1
           /\ held'[d] = held[d] \ Drop(Table(d)[at[d]])
           /\ UNCHANGED <<skipped, opened>>
  <2>1. held'[d] \subseteq ReleasedFrom(Table(d), at[d] + 1)
    <3>1. Owed(d)' = ReleasedFrom(Table(d), at'[d])
      BY <1>0, <1>4, OwedByPhaseAfter DEF Table
    <3>2. held'[d] \subseteq Owed(d)' \cup Leaks[d]
      BY <1>0 DEF HoldsOwed
    <3> QED
      BY <1>0, <1>4, <3>1, <3>2
  <2>2. b \in Drop(Table(d)[at[d]]) => r \notin ReleasedFrom(Table(d), at[d] + 1)
    BY <1>4 DEF Outlives, Table
  <2> QED
    BY <1>4, <2>1, <2>2 DEF Based
<1> QED
  BY <1>0, <1>1, <1>2, <1>3, <1>4, DriverSteps

LEMMA NextBased ==
  ASSUME TablesCover
  PROVE  TypeOK /\ HoldsOwed /\ TakenInv /\ BasedInv /\ [Next]_vars => BasedInv'
<1> SUFFICES ASSUME TypeOK, HoldsOwed, TakenInv, BasedInv, [Next]_vars
             PROVE  BasedInv'
  OBVIOUS
<1>0. HoldsOwed'
  BY NextHoldsOwed
<1> SUFFICES ASSUME NEW e \in Tidy, NEW b \in Gets(e), NEW r \in Gets(e), Outlives(e, b, r)
             PROVE  Based(e, b, r)'
  BY TablesUnmoved DEF BasedInv, Tidy
<1>1. Based(e, b, r) /\ e \in Drivers
  BY DEF BasedInv, Tidy
<1>2. CASE UNCHANGED vars
  BY <1>1, <1>2 DEF vars, Based
<1>3. CASE Next
  <2> PICK d \in Drivers : Insmod(d) \/ Rmmod(d) \/ Open(d) \/ Close(d) \/ Progress(d)
    BY <1>3 DEF Next
  <2>1. CASE e = d
    BY <1>0, <1>1, <2>1, MoverBased
  <2>2. CASE e # d
    BY <1>1, <2>2, OthersStay DEF Based
  <2> QED
    BY <2>1, <2>2
<1> QED
  BY <1>2, <1>3

LEMMA BasedHolds ==
  ASSUME TablesCover
  PROVE  Spec => [](TypeOK /\ HoldsOwed /\ TakenInv /\ BasedInv)
<1> QED
  BY InitTypeOK, InitHoldsOwed, InitTaken, InitBased, NextTypeOK, NextHoldsOwed,
     NextTaken, NextBased, PTL DEF Spec

(* In every phase: what b is needed for finds b, if the tables take b      *)
(* first and keep it until the other is gone; without the first condition, *)
(* once the load is over.                                                  *)
LEMMA Supported ==
  ASSUME TypeOK, HoldsOwed, TakenInv, BasedInv,
         NEW d \in Tidy, NEW b \in Gets(d), NEW r \in held[d], Outlives(d, b, r),
         TakenBefore(d, b, r) \/ phase[d] # "load"
  PROVE  b \in held[d] \cup skipped[d]
<1>0. /\ d \in Drivers /\ Leaks[d] = {} /\ MissesNothing(d) /\ held[d] \subseteq Owed(d)
      /\ phase[d] \in Phases /\ at[d] \in 1 .. Steps(d, phase[d]) + 1 /\ r \in Gets(d)
  BY DEF Tidy, TakenInv, HoldsOwed, TypeOK
<1>1. CASE phase[d] = "load"
  <2>1. r \in HeldBefore(d, at[d]) /\ HeldBefore(d, at[d]) \subseteq held[d] \cup skipped[d]
    BY <1>0, <1>1, OwedByPhase DEF MissesNothing
  <2>2. at[d] \in 1 .. Len(Load[d]) + 1
    BY <1>0, <1>1, StepsShape
  <2> QED
    BY <1>1, <2>1, <2>2 DEF TakenBefore
<1>2. CASE phase[d] = "live"
  BY <1>0, <1>2 DEF MissesNothing
<1>3. CASE phase[d] \in {"unwind", "unload"}
  BY <1>0, <1>3 DEF BasedInv, Based
<1>4. CASE phase[d] = "out"
  BY <1>0, <1>4, OwedByPhase
<1> QED
  BY <1>0, <1>1, <1>2, <1>3, <1>4 DEF Phases

(* With tables that take the record first and give it back last, and the   *)
(* class and the cdev around the node, every driver without known leaks    *)
(* stands on its record in every state, whichever step fails.              *)
THEOREM RecordOutlivesHandles ==
  ASSUME TablesCover, TablesGround
  PROVE  Spec => []Grounded
<1>1. ASSUME TypeOK, HoldsOwed, TakenInv, BasedInv, NEW d \in Tidy,
             NEW r \in held[d], NEW b \in Bases(r)
      PROVE  b \in held[d]
  <2>1. d \in Drivers /\ r \in Gets(d) /\ skipped[d] \subseteq Overlooked(d)
    BY <1>1 DEF Tidy, TypeOK, TakenInv, MissesNothing
  <2>2. TakenBefore(d, b, r) /\ Outlives(d, b, r) /\ b \notin Overlooked(d)
    BY <1>1, <2>1 DEF TablesGround
  <2>3. b \in Gets(d)
    BY <2>1, <2>2, TablesShape DEF TakenBefore, Gets
  <2>4. b \in held[d] \cup skipped[d]
    BY <1>1, <2>2, <2>3, Supported
  <2> QED
    BY <2>1, <2>2, <2>4
<1>2. TypeOK /\ HoldsOwed /\ TakenInv /\ BasedInv => Grounded
  BY <1>1 DEF Grounded, Bases
<1> QED
  BY BasedHolds, <1>2, PTL

(* With tables that free the interrupt line before anything its handler    *)
(* touches, a driver never holds a line whose handler would find something *)
(* gone: not after any failure, and not between two steps of exit.         *)
THEOREM LineGoesBeforeHandlerNeeds ==
  ASSUME TablesCover, TablesQuiet
  PROVE  Spec => []QuietBeforeFree
<1>1. ASSUME TypeOK, HoldsOwed, TakenInv, BasedInv, NEW d \in Tidy,
             NEW r \in held[d], r \in Irqs, NEW b \in HandlerNeeds[d],
             b # "wq" \/ phase[d] # "load"
      PROVE  b \in held[d] \cup skipped[d]
  <2>1. d \in Drivers /\ r \in Irqs \cap Gets(d)
    BY <1>1 DEF Tidy, TypeOK
  <2>2. b \in Gets(d) /\ Outlives(d, b, r) /\ (b # "wq" => TakenBefore(d, b, r))
    BY <1>1, <2>1 DEF TablesQuiet
  <2> QED
    BY <1>1, <2>2, Supported
<1>2. TypeOK /\ HoldsOwed /\ TakenInv /\ BasedInv => QuietBeforeFree
  BY <1>1 DEF QuietBeforeFree
<1> QED
  BY BasedHolds, <1>2, PTL

-----------------------------------------------------------------------------
(* PinnedFileSafe is not inductive: what is open must also keep its driver *)
(* out of the ladder and of exit, and a ladder that can still be entered   *)
(* must find no node.                                                      *)
Usable(d) ==
  /\ opened[d] = "live" => phase[d] = "live" /\ FileNeeds[d] \subseteq held[d]
  /\ ReadyWithNode(d) =>
       /\ opened[d] # "no" => /\ phase[d] \in {"load", "live"} /\ opened[d] # "stale"
                              /\ "node" \in held[d] /\ FileNeeds[d] \subseteq held[d]
       /\ phase[d] = "unwind" => "node" \notin held[d]

OpenInv == \A d \in Pinned : Usable(d)

LEMMA InitOpen == Init => OpenInv
BY DriverLifeAssumption DEF Init, OpenInv, Usable

LEMMA ReadyUnmoved == ASSUME NEW d PROVE ReadyWithNode(d)' <=> ReadyWithNode(d)
BY DEF ReadyWithNode, HeldBefore, MayJump

(* A driver that is live and whose node is visible has what its file       *)
(* operations need; one that is ready with its node has it during init     *)
(* too, and that init no longer fails.                                     *)
LEMMA NodeHasNeeds ==
  ASSUME TablesOpen, TypeOK, HoldsOwed, TakenInv, NEW d \in Pinned, "node" \in held[d],
         phase[d] = "live" \/ (phase[d] = "load" /\ ReadyWithNode(d))
  PROVE  /\ FileNeeds[d] \subseteq held[d]
         /\ phase[d] = "load" /\ at[d] <= Len(Load[d]) => ~MayJump(d, at[d])
<1>0. /\ d \in Drivers /\ MissesNothing(d) /\ held[d] \subseteq Owed(d) \cup Leaks[d]
      /\ held[d] \subseteq Gets(d) /\ at[d] \in 1 .. Steps(d, phase[d]) + 1
  BY DriverLifeAssumption DEF TakenInv, HoldsOwed, TypeOK
<1>1. /\ "node" \notin Leaks[d] /\ FileNeeds[d] \subseteq Gets(d) \ Overlooked(d)
      /\ skipped[d] \subseteq Overlooked(d)
  BY <1>0 DEF TablesOpen, MissesNothing
<1>2. CASE phase[d] = "live"
  BY <1>0, <1>1, <1>2 DEF MissesNothing
<1>3. CASE phase[d] = "load" /\ ReadyWithNode(d)
  <2>1. /\ "node" \in HeldBefore(d, at[d])
        /\ HeldBefore(d, at[d]) \subseteq held[d] \cup skipped[d]
    BY <1>0, <1>1, <1>3, OwedByPhase DEF MissesNothing
  <2>2. at[d] \in 1 .. Len(Load[d]) + 1
    BY <1>0, <1>3, StepsShape
  <2>3. /\ FileNeeds[d] \subseteq HeldBefore(d, at[d])
        /\ at[d] <= Len(Load[d]) => ~MayJump(d, at[d])
    BY <1>3, <2>1, <2>2 DEF ReadyWithNode
  <2> QED
    BY <1>1, <2>1, <2>3
<1> QED
  BY <1>2, <1>3

LEMMA MoverUsable ==
  ASSUME TablesOpen, TypeOK, HoldsOwed, TakenInv, NEW d \in Pinned, Usable(d),
         Insmod(d) \/ Rmmod(d) \/ Open(d) \/ Close(d) \/ Progress(d)
  PROVE  Usable(d)'
<1>0. /\ d \in Drivers /\ opened[d] \in Files
      /\ ReadyWithNode(d)' <=> ReadyWithNode(d)
  BY DriverLifeAssumption, ReadyUnmoved DEF TypeOK
(* Nobody but Open opens.                                                  *)
<1>1. CASE opened[d] = "no" /\ opened'[d] = "no"
  <2>1. CASE phase'[d] # "unwind"
    BY <1>1, <2>1 DEF Usable
  <2>2. CASE phase'[d] = "unwind" /\ phase[d] = "unwind"
    <3>1. held'[d] \subseteq held[d]
      BY <1>0, <2>2, DriverSteps
    <3> QED
      BY <1>0, <1>1, <2>2, <3>1 DEF Usable
  <2>3. CASE phase'[d] = "unwind" /\ phase[d] # "unwind"
    <3>1. /\ phase[d] = "load" /\ at[d] \in 1 .. Len(Load[d]) /\ MayJump(d, at[d])
          /\ held'[d] = held[d]
      BY <1>0, <2>3, DriverSteps
    <3>2. ReadyWithNode(d) => "node" \notin held[d]
      BY <3>1, NodeHasNeeds, TablesShape, <1>0
    <3> QED
      BY <1>0, <1>1, <3>1, <3>2 DEF Usable
  <2> QED
    BY <2>1, <2>2, <2>3
(* Open.                                                                   *)
<1>2. CASE /\ "node" \in held[d] /\ UNCHANGED <<phase, held>>
           /\ phase[d] = "unload" => d \notin Pinned
           /\ opened'[d] = IF phase[d] = "live" THEN "live" ELSE "amid"
  <2>1. phase[d] = "live" \/ (phase[d] = "load" /\ ReadyWithNode(d)) =>
          FileNeeds[d] \subseteq held[d]
    BY <1>2, NodeHasNeeds
  <2>2. phase[d] # "out" /\ phase[d] \in Phases
    <3>1. "node" \notin Leaks[d] /\ held[d] \subseteq Owed(d) \cup Leaks[d]
      BY <1>0, <1>2 DEF TablesOpen, HoldsOwed
    <3> QED
      BY <1>0, <1>2, <3>1, OwedByPhase DEF TypeOK
  <2> QED
    BY <1>0, <1>2, <2>1, <2>2 DEF Usable, Phases
(* Close.                                                                  *)
<1>3. CASE opened'[d] = "no" /\ UNCHANGED <<phase, held>>
  BY <1>0, <1>3 DEF Usable
(* A step beside an open file: it keeps the driver from exit, and, if the  *)
(* driver was ready with its node, init from its ladder.                   *)
<1>4. CASE /\ opened[d] # "no" /\ opened'[d] # "no"
           /\ ~UNCHANGED <<phase, at, held, skipped>>
  <2>1. CASE ReadyWithNode(d)
    <3>0. /\ phase[d] \in {"load", "live"} /\ opened[d] # "stale"
          /\ "node" \in held[d] /\ FileNeeds[d] \subseteq held[d]
      BY <1>4, <2>1 DEF Usable
    <3>1. ~(phase[d] = "load" /\ at[d] \in 1 .. Len(Load[d]) /\ MayJump(d, at[d]))
      BY <2>1, <3>0, NodeHasNeeds, TablesShape
    <3>2. /\ phase'[d] \in {"load", "live"} /\ opened'[d] = opened[d]
          /\ held[d] \subseteq held'[d]
          /\ phase[d] = "live" => phase'[d] = "live"
      BY <1>0, <1>4, <3>0, <3>1, DriverSteps
    <3> QED
      BY <1>0, <3>0, <3>2 DEF Usable
  <2>2. CASE ~ReadyWithNode(d) /\ opened[d] = "live"
    <3>0. phase[d] = "live" /\ FileNeeds[d] \subseteq held[d]
      BY <2>2 DEF Usable
    <3>1. FALSE
      BY <1>0, <1>4, <2>2, <3>0, DriverSteps
    <3> QED
      BY <3>1
  <2>3. CASE ~ReadyWithNode(d) /\ opened[d] # "live"
    <3>1. opened'[d] # "live"
      BY <1>0, <1>4, <2>3, DriverSteps
    <3> QED
      BY <1>0, <2>3, <3>1 DEF Usable
  <2> QED
    BY <2>1, <2>2, <2>3
<1> QED
  BY <1>0, <1>1, <1>2, <1>3, <1>4, DriverSteps

LEMMA NextOpen ==
  ASSUME TablesOpen
  PROVE  TypeOK /\ HoldsOwed /\ TakenInv /\ OpenInv /\ [Next]_vars => OpenInv'
<1> SUFFICES ASSUME TypeOK, HoldsOwed, TakenInv, OpenInv, [Next]_vars, NEW e \in Pinned
             PROVE  Usable(e)'
  BY DEF OpenInv
<1>0. Usable(e) /\ e \in Drivers
  BY DriverLifeAssumption DEF OpenInv
<1>1. CASE UNCHANGED vars
  BY <1>0, <1>1 DEF vars, Usable
<1>2. CASE Next
  <2> PICK d \in Drivers : Insmod(d) \/ Rmmod(d) \/ Open(d) \/ Close(d) \/ Progress(d)
    BY <1>2 DEF Next
  <2>1. CASE e = d
    BY <1>0, <2>1, MoverUsable
  <2>2. CASE e # d
    BY <1>0, <2>2, OthersStay DEF Usable
  <2> QED
    BY <2>1, <2>2
<1> QED
  BY <1>1, <1>2

(* fops.owner does its work: a file that was opened of a live driver finds *)
(* what its operations dereference until it is closed; a file opened while *)
(* init still runs does if the tables make the node only when the file     *)
(* operations are ready and init can no longer fail, and a driver whose    *)
(* tables do not is promised nothing before init is over.                  *)
THEOREM OpenFilesAreUsable ==
  ASSUME TablesCover, TablesOpen
  PROVE  Spec => []PinnedFileSafe
<1>1. OpenInv => PinnedFileSafe
  BY DEF OpenInv, Usable, PinnedFileSafe
<1> QED
  BY InitTypeOK, InitHoldsOwed, InitTaken, InitOpen, NextTypeOK, NextHoldsOwed, NextTaken,
     NextOpen, <1>1, PTL DEF Spec

-----------------------------------------------------------------------------
(* ReleasesOnlyHeld looks at the next release; all those that are still to *)
(* come release something that is there.                                   *)
Ahead(d) ==
  phase[d] \in {"unwind", "unload"} =>
    \A j \in at[d] .. Len(Table(d)) : Table(d)[j] \in held[d] \cup skipped[d]

AheadInv == \A d \in Reporting : Ahead(d)

LEMMA InitAhead == Init => AheadInv
BY DriverLifeAssumption DEF Init, AheadInv, Ahead

LEMMA MoverAhead ==
  ASSUME TablesExact, TypeOK, TakenInv, CompleteInv, NEW d \in Reporting, Ahead(d),
         Insmod(d) \/ Rmmod(d) \/ Open(d) \/ Close(d) \/ Progress(d)
  PROVE  Ahead(d)'
<1>0. d \in Drivers /\ MissesNothing(d) /\ Complete(d)
  BY DriverLifeAssumption DEF TakenInv, CompleteInv
<1>1. CASE phase'[d] \notin {"unwind", "unload"} \/ UNCHANGED <<phase, at, held, skipped>>
  BY <1>1 DEF Ahead, Table
<1>2. CASE /\ phase[d] = "live" /\ phase'[d] = "unload" /\ at'[d] = 1
           /\ UNCHANGED <<held, skipped>>
  <2>1. \A j \in 1 .. Len(Unload[d]) : Unload[d][j] \in held[d] \cup skipped[d]
    BY <1>0, <1>2 DEF TablesExact, Complete
  <2> QED
    BY <1>2, <2>1 DEF Ahead, Table
<1>3. CASE /\ phase[d] = "load" /\ at[d] \in 1 .. Len(Load[d]) /\ MayJump(d, at[d])
           /\ phase'[d] = "unwind" /\ at'[d] = Load[d][at[d]].to
           /\ UNCHANGED <<held, skipped>>
  <2>1. \A j \in Load[d][at[d]].to .. Len(Unwind[d]) : Unwind[d][j] \in HeldBefore(d, at[d])
    BY <1>3 DEF TablesExact
  <2>2. HeldBefore(d, at[d]) \subseteq held[d] \cup skipped[d]
    BY <1>0, <1>3 DEF MissesNothing
  <2> QED
    BY <1>3, <2>1, <2>2 DEF Ahead, Table
<1>4. CASE /\ phase[d] \in {"unwind", "unload"} /\ phase'[d] = phase[d]
           /\ at[d] \in 1 .. Len(Table(d)) /\ at'[d] = at[d] + 1
           /\ held'[d] = held[d] \ Drop(Table(d)[at[d]])
           /\ UNCHANGED skipped
  <2>0. Len(Table(d)) \in Nat /\ Table(d)' = Table(d)
    BY <1>0, <1>4, TablesShape DEF Table
  <2>1. ReleasesOnce(Table(d))
    BY DEF TablesExact, Table
  <2>2. ASSUME NEW j \in at[d] + 1 .. Len(Table(d))
        PROVE  Table(d)[j] \in held'[d] \cup skipped[d]
    <3>1. j \in 1 .. Len(Table(d)) /\ at[d] < j /\ j \in at[d] .. Len(Table(d))
      BY <1>4, <2>0
    <3>2. Table(d)[j] \notin Drop(Table(d)[at[d]])
      BY <1>4, <2>1, <3>1 DEF ReleasesOnce
    <3>3. Table(d)[j] \in held[d] \cup skipped[d]
      BY <1>4, <3>1 DEF Ahead
    <3> QED
      BY <1>4, <3>2, <3>3
  <2> QED
    BY <1>4, <2>0, <2>2 DEF Ahead
<1> QED
  BY <1>0, <1>1, <1>2, <1>3, <1>4, DriverSteps

LEMMA NextAhead ==
  ASSUME TablesExact
  PROVE  TypeOK /\ TakenInv /\ CompleteInv /\ AheadInv /\ [Next]_vars => AheadInv'
<1> SUFFICES ASSUME TypeOK, TakenInv, CompleteInv, AheadInv, [Next]_vars, NEW e \in Reporting
             PROVE  Ahead(e)'
  BY DEF AheadInv
<1>0. Ahead(e) /\ e \in Drivers
  BY DriverLifeAssumption DEF AheadInv
<1>1. CASE UNCHANGED vars
  BY <1>0, <1>1 DEF vars, Ahead, Table
<1>2. CASE Next
  <2> PICK d \in Drivers : Insmod(d) \/ Rmmod(d) \/ Open(d) \/ Close(d) \/ Progress(d)
    BY <1>2 DEF Next
  <2>1. CASE e = d
    BY <1>0, <2>1, MoverAhead
  <2>2. CASE e # d
    BY <1>0, <2>2, OthersStay DEF Ahead, Table
  <2> QED
    BY <2>1, <2>2
<1> QED
  BY <1>1, <1>2

(* A driver that reports its failures never releases what it does not hold *)
(* and nothing twice, from whichever label it enters the ladder, if no     *)
(* list repeats a release and each label releases only what was taken.     *)
THEOREM NothingReleasedTwice ==
  ASSUME TablesCover, TablesReport, TablesExact
  PROVE  Spec => []ReleasesOnlyHeld
<1>1. TypeOK /\ AheadInv => ReleasesOnlyHeld
  <2> SUFFICES ASSUME TypeOK, AheadInv, NEW d \in Reporting, Releasing(d)
               PROVE  Table(d)[at[d]] \in held[d] \cup skipped[d]
    BY DEF ReleasesOnlyHeld
  <2>1. d \in Drivers /\ Len(Table(d)) \in Nat
    BY DriverLifeAssumption, TablesShape DEF Table
  <2>2. at[d] \in at[d] .. Len(Table(d))
    BY <2>1 DEF Releasing
  <2> QED
    BY <2>2 DEF AheadInv, Ahead, Releasing
<1> QED
  BY InitTypeOK, InitHoldsOwed, InitTaken, InitComplete, InitAhead, NextTypeOK,
     NextHoldsOwed, NextTaken, NextComplete, NextAhead, <1>1, PTL DEF Spec
=============================================================================
