-------------------------- MODULE DriverLifeProofs --------------------------
(***************************************************************************)
(* Proofs about DriverLife, for any drivers and any tables of the right    *)
(* shape: type correctness, and that failed loads and unloads leave        *)
(* nothing behind if the labels of each ladder cover what was taken.       *)
(***************************************************************************)
EXTENDS DriverLife, TLAPS

USE DriverLifeAssumption

LEMMA ElementsOf ==
  ASSUME NEW S, NEW q \in Seq(S)
  PROVE  Len(q) \in Nat /\ \A i \in 1 .. Len(q) : q[i] \in S
OBVIOUS

(* What a step of a load can take, and the shape of the tables.            *)
LEMMA TablesShape ==
  ASSUME NEW d \in Drivers
  PROVE  /\ Unwind[d] \in Seq(STRING) /\ Unload[d] \in Seq(STRING)
         /\ Len(Load[d]) \in Nat /\ Len(Unwind[d]) \in Nat /\ Len(Unload[d]) \in Nat
         /\ \A i \in 1 .. Len(Load[d]) :
              /\ Load[d][i].get \in STRING /\ Load[d][i].fail \in Failures
              /\ Load[d][i].to \in 1 .. Len(Unwind[d]) + 1
<1>1. /\ Load[d] \in Seq([get : STRING, fail : Failures, to : Nat])
      /\ Unwind[d] \in Seq(STRING) /\ Unload[d] \in Seq(STRING)
      /\ \A i \in 1 .. Len(Load[d]) : Load[d][i].to \in 1 .. Len(Unwind[d]) + 1
  BY DEF TablesTyped
<1>2. /\ Len(Load[d]) \in Nat
      /\ \A i \in 1 .. Len(Load[d]) : Load[d][i] \in [get : STRING, fail : Failures, to : Nat]
  <2> DEFINE S == [get : STRING, fail : Failures, to : Nat]
  <2>1. Load[d] \in Seq(S)
    BY <1>1
  <2> HIDE DEF S
  <2>2. Len(Load[d]) \in Nat /\ \A i \in 1 .. Len(Load[d]) : Load[d][i] \in S
    BY <2>1, ElementsOf
  <2> USE DEF S
  <2> QED
    BY <2>2
<1>3. Len(Unwind[d]) \in Nat /\ Len(Unload[d]) \in Nat
  BY <1>1, ElementsOf
<1> QED
  BY <1>1, <1>2, <1>3

(* A step of the load adds its resource to what was taken before it.       *)
LEMMA HeldBeforeStep ==
  ASSUME NEW d \in Drivers, NEW i \in Nat \ {0}
  PROVE  HeldBefore(d, i + 1) = HeldBefore(d, i) \cup ({Load[d][i].get} \ {"check"})
<1>1. 1 .. (i + 1) - 1 = (1 .. i - 1) \cup {i}
  OBVIOUS
<1> QED
  BY <1>1 DEF HeldBefore

LEMMA HeldBeforeGrows ==
  ASSUME NEW d \in Drivers, NEW i \in 1 .. Len(Load[d]) + 1
  PROVE  HeldBefore(d, i) \subseteq Gets(d)
<1>1. 1 .. i - 1 \subseteq 1 .. (Len(Load[d]) + 1) - 1
  BY TablesShape
<1> QED
  BY <1>1 DEF HeldBefore, Gets

LEMMA GetsAreNames ==
  ASSUME NEW d \in Drivers
  PROVE  Gets(d) \subseteq STRING
BY TablesShape DEF Gets, HeldBefore

(* Releasing one entry leaves what the rest of the table releases.         *)
LEMMA ReleasedFromStep ==
  ASSUME NEW table, NEW i \in Nat \ {0}, Len(table) \in Nat, i <= Len(table)
  PROVE  ReleasedFrom(table, i) = Drop(table[i]) \cup ReleasedFrom(table, i + 1)
<1>1. i .. Len(table) = {i} \cup (i + 1 .. Len(table))
  OBVIOUS
<1> QED
  BY <1>1 DEF ReleasedFrom

LEMMA ReleasedFromEnd ==
  ASSUME NEW table, Len(table) \in Nat
  PROVE  ReleasedFrom(table, Len(table) + 1) = {}
<1>1. Len(table) + 1 .. Len(table) = {}
  OBVIOUS
<1> QED
  BY <1>1 DEF ReleasedFrom

-----------------------------------------------------------------------------
(* TypeOK is inductive as it stands: a step moves one driver to a place of *)
(* one of its own tables.                                                  *)
LEMMA InitTypeOK == Init => TypeOK
BY TablesShape DEF Init, TypeOK, Steps, Phases, Rets, Files

LEMMA StepsShape ==
  ASSUME NEW d \in Drivers
  PROVE  /\ Steps(d, "load") = Len(Load[d]) /\ Steps(d, "unwind") = Len(Unwind[d])
         /\ Steps(d, "unload") = Len(Unload[d])
         /\ Steps(d, "out") = 0 /\ Steps(d, "live") = 0
BY DEF Steps

LEMMA OneDriverMoves ==
  ASSUME TypeOK, NEW d \in Drivers,
         NEW p \in Phases, phase' = [phase EXCEPT ![d] = p],
         NEW i \in 1 .. Steps(d, p) + 1, at' = [at EXCEPT ![d] = i],
         NEW H \in SUBSET Gets(d), held' = [held EXCEPT ![d] = H],
         NEW S \in SUBSET STRING, skipped' = [skipped EXCEPT ![d] = S],
         NEW r \in Rets, ret' = [ret EXCEPT ![d] = r],
         opened' \in [Drivers -> Files]
  PROVE  TypeOK'
<1>1. i \in Nat /\ H \in SUBSET STRING
  <2>1. Steps(d, p) \in Nat
    BY StepsShape, TablesShape DEF Phases
  <2> QED
    BY <2>1, GetsAreNames
<1>2. /\ phase' \in [Drivers -> Phases] /\ at' \in [Drivers -> Nat]
      /\ ret' \in [Drivers -> Rets] /\ held' \in [Drivers -> SUBSET STRING]
      /\ skipped' \in [Drivers -> SUBSET STRING]
  BY <1>1 DEF TypeOK
<1>3. ASSUME NEW e \in Drivers
      PROVE  at'[e] \in 1 .. Steps(e, phase'[e]) + 1 /\ held'[e] \subseteq Gets(e)
  BY <1>3 DEF TypeOK
<1> QED
  BY <1>2, <1>3 DEF TypeOK, Gets, HeldBefore, Steps

LEMMA NextTypeOK == TypeOK /\ [Next]_vars => TypeOK'
<1> SUFFICES ASSUME TypeOK, [Next]_vars
             PROVE  TypeOK'
  OBVIOUS
<1>1. CASE UNCHANGED vars
  BY <1>1 DEF TypeOK, vars
<1>2. CASE Next
  <2> PICK d \in Drivers : \/ Insmod(d) \/ Rmmod(d) \/ Open(d) \/ Close(d)
                           \/ Progress(d)
    BY <1>2 DEF Next
  <2>0. /\ phase[d] \in Phases /\ ret[d] \in Rets
        /\ held[d] \in SUBSET Gets(d) /\ skipped[d] \in SUBSET STRING
        /\ at[d] \in 1 .. Steps(d, phase[d]) + 1
        /\ phase = [phase EXCEPT ![d] = phase[d]] /\ at = [at EXCEPT ![d] = at[d]]
        /\ ret = [ret EXCEPT ![d] = ret[d]] /\ held = [held EXCEPT ![d] = held[d]]
        /\ skipped = [skipped EXCEPT ![d] = skipped[d]]
        /\ opened \in [Drivers -> Files]
    BY DEF TypeOK
  <2> DEFINE step == Load[d][at[d]]
  <2>1. CASE Insmod(d)
    <3>1. 1 \in 1 .. Steps(d, "load") + 1 /\ "load" \in Phases
      BY StepsShape, TablesShape DEF Phases
    <3> QED
      BY <2>0, <2>1, <3>1, OneDriverMoves DEF Insmod, Enter
  <2>2. CASE Rmmod(d)
    <3>1. 1 \in 1 .. Steps(d, "unload") + 1 /\ "unload" \in Phases
      BY StepsShape, TablesShape DEF Phases
    <3> QED
      BY <2>0, <2>2, <3>1, OneDriverMoves DEF Rmmod, Enter
  <2>3. CASE Open(d)
    BY <2>3 DEF Open, TypeOK, Files
  <2>4. CASE Close(d)
    BY <2>4 DEF Close, TypeOK, Files
  <2>5. CASE Acquire(d)
    <3>1. /\ phase[d] = "load" /\ at[d] \in 1 .. Len(Load[d])
          /\ at' = [at EXCEPT ![d] = at[d] + 1]
          /\ held' = [held EXCEPT ![d] = held[d] \cup ({step.get} \ {"check"})]
          /\ UNCHANGED <<phase, ret, skipped, opened>>
      BY <2>5 DEF Acquire, Loading, LoadStep
    <3>2. {step.get} \ {"check"} \subseteq Gets(d)
      BY <3>1, TablesShape DEF Gets, HeldBefore
    <3>3. at[d] + 1 \in 1 .. Steps(d, phase[d]) + 1
      BY <3>1, StepsShape, TablesShape
    <3>4. held[d] \cup ({step.get} \ {"check"}) \in SUBSET Gets(d)
      BY <2>0, <3>2
    <3> HIDE DEF step
    <3> QED
      BY <2>0, <3>1, <3>3, <3>4, OneDriverMoves
  <2>6. CASE Jump(d)
    <3>1. /\ phase[d] = "load" /\ at[d] \in 1 .. Len(Load[d])
          /\ phase' = [phase EXCEPT ![d] = "unwind"]
          /\ at' = [at EXCEPT ![d] = step.to]
          /\ ret' = [ret EXCEPT ![d] = step.fail]
          /\ step.fail \notin {"ignored", "none"}
          /\ UNCHANGED <<held, skipped, opened>>
      BY <2>6 DEF Jump, StepFails, Loading, LoadStep, Enter
    <3>2. step.to \in 1 .. Steps(d, "unwind") + 1 /\ "unwind" \in Phases
      BY <3>1, StepsShape, TablesShape DEF Phases
    <3>3. step.fail \in Rets
      BY <3>1, TablesShape DEF Failures, Rets
    <3> HIDE DEF step
    <3> QED
      BY <2>0, <3>1, <3>2, <3>3, OneDriverMoves
  <2>7. CASE Overlook(d)
    <3>1. /\ phase[d] = "load" /\ at[d] \in 1 .. Len(Load[d])
          /\ at' = [at EXCEPT ![d] = at[d] + 1]
          /\ skipped' = [skipped EXCEPT ![d] = skipped[d] \cup ({step.get} \ {"check"})]
          /\ UNCHANGED <<phase, ret, held, opened>>
      BY <2>7 DEF Overlook, StepFails, Loading, LoadStep
    <3>2. skipped[d] \cup ({step.get} \ {"check"}) \in SUBSET STRING
      BY <2>0, <3>1, TablesShape
    <3>3. at[d] + 1 \in 1 .. Steps(d, phase[d]) + 1
      BY <3>1, StepsShape, TablesShape
    <3> HIDE DEF step
    <3> QED
      BY <2>0, <3>1, <3>2, <3>3, OneDriverMoves
  <2>8. CASE Loaded(d)
    <3>1. 1 \in 1 .. Steps(d, "live") + 1 /\ "live" \in Phases
      BY StepsShape DEF Phases
    <3> QED
      BY <2>0, <2>8, <3>1, OneDriverMoves DEF Loaded, Enter
  <2>9. CASE Release(d)
    <3>1. /\ phase[d] \in {"unwind", "unload"}
          /\ at[d] \in 1 .. Len(Table(d)) /\ at' = [at EXCEPT ![d] = at[d] + 1]
          /\ held' = [held EXCEPT ![d] = held[d] \ Drop(Table(d)[at[d]])]
          /\ UNCHANGED <<phase, ret, skipped, opened>>
      BY <2>9 DEF Release, Releasing
    <3>2. at[d] + 1 \in 1 .. Steps(d, phase[d]) + 1
      BY <3>1, StepsShape, TablesShape DEF Table
    <3>3. held[d] \ Drop(Table(d)[at[d]]) \in SUBSET Gets(d)
      BY <2>0
    <3> QED
      BY <2>0, <3>1, <3>2, <3>3, OneDriverMoves
  <2>10. CASE Unwound(d)
    <3>1. \A p \in {"out", "live"} : 1 \in 1 .. Steps(d, p) + 1 /\ p \in Phases
      BY StepsShape DEF Phases
    <3>2. "ok" \in Rets /\ {} \in SUBSET STRING
      BY DEF Rets
    <3>3. opened' \in [Drivers -> Files]
      BY <2>0, <2>10 DEF Unwound, Orphan, Files
    <3> QED
      BY <2>0, <2>10, <3>1, <3>2, <3>3, OneDriverMoves DEF Unwound, Enter
  <2>11. CASE Unloaded(d)
    <3>1. 1 \in 1 .. Steps(d, "out") + 1 /\ "out" \in Phases /\ {} \in SUBSET STRING
      BY StepsShape DEF Phases
    <3> QED
      BY <2>0, <2>11, <3>1, OneDriverMoves DEF Unloaded, Enter
  <2> QED
    BY <2>1, <2>2, <2>3, <2>4, <2>5, <2>6, <2>7, <2>8, <2>9, <2>10, <2>11
       DEF Progress
<1> QED
  BY <1>1, <1>2

(* Whatever the tables say, every driver stays inside them and never holds *)
(* anything its load does not take.                                        *)
THEOREM LifeTypeCorrect == Spec => []TypeOK
<1> QED
  BY InitTypeOK, NextTypeOK, PTL DEF Spec

-----------------------------------------------------------------------------
(* NothingLeftBehind is not inductive: it speaks only of drivers that are  *)
(* out.  What a driver holds is bounded by the place it has reached: before *)
(* that place in a load, from that place on in a ladder or an exit.        *)
Owed(d) == CASE phase[d] = "load" -> HeldBefore(d, at[d])
             [] phase[d] = "unwind" -> ReleasedFrom(Unwind[d], at[d])
             [] phase[d] = "unload" -> ReleasedFrom(Unload[d], at[d])
             [] phase[d] = "live" -> Gets(d)
             [] OTHER -> {}

HoldsOwed == \A d \in Drivers : held[d] \subseteq Owed(d) \cup Leaks[d]

LEMMA OwedByPhase ==
  ASSUME NEW d \in Drivers
  PROVE  /\ phase[d] = "load" => Owed(d) = HeldBefore(d, at[d])
         /\ phase[d] = "unwind" => Owed(d) = ReleasedFrom(Unwind[d], at[d])
         /\ phase[d] = "unload" => Owed(d) = ReleasedFrom(Unload[d], at[d])
         /\ phase[d] = "live" => Owed(d) = Gets(d)
         /\ phase[d] = "out" => Owed(d) = {}
BY DEF Owed

LEMMA OwedByPhaseAfter ==
  ASSUME NEW d \in Drivers
  PROVE  /\ phase'[d] = "load" => Owed(d)' = HeldBefore(d, at'[d])
         /\ phase'[d] = "unwind" => Owed(d)' = ReleasedFrom(Unwind[d], at'[d])
         /\ phase'[d] = "unload" => Owed(d)' = ReleasedFrom(Unload[d], at'[d])
         /\ phase'[d] = "live" => Owed(d)' = Gets(d)
         /\ phase'[d] = "out" => Owed(d)' = {}
BY DEF Owed, HeldBefore, ReleasedFrom, Gets, Drop

(* A driver whose position does not move owes what it owed.                *)
LEMMA OwedUnmoved ==
  ASSUME NEW d \in Drivers, phase'[d] = phase[d], at'[d] = at[d], held'[d] = held[d],
         held[d] \subseteq Owed(d) \cup Leaks[d]
  PROVE  held'[d] \subseteq Owed(d)' \cup Leaks[d]
BY DEF Owed, HeldBefore, ReleasedFrom, Gets, Drop

LEMMA InitHoldsOwed == Init => HoldsOwed
BY DEF Init, HoldsOwed

(* The driver that moves, one action at a time.                            *)
LEMMA MoverHoldsOwed ==
  ASSUME TablesCover, TypeOK, TypeOK', HoldsOwed, NEW d \in Drivers,
         Insmod(d) \/ Rmmod(d) \/ Open(d) \/ Close(d) \/ Progress(d)
  PROVE  held'[d] \subseteq Owed(d)' \cup Leaks[d]
<1> DEFINE step == Load[d][at[d]]
<1>0. /\ held[d] \subseteq Owed(d) \cup Leaks[d] /\ held[d] \subseteq Gets(d)
      /\ phase[d] \in Phases /\ at[d] \in Nat /\ at[d] \in 1 .. Steps(d, phase[d]) + 1
      /\ phase \in [Drivers -> Phases] /\ at \in [Drivers -> Nat]
      /\ held \in [Drivers -> SUBSET STRING]
  BY DEF TypeOK, HoldsOwed
<1>1. CASE Insmod(d)
  <2>1. held'[d] = held[d] /\ phase[d] = "out" /\ Owed(d) = {}
    BY <1>1, OwedByPhase DEF Insmod, Enter
  <2> QED
    BY <1>0, <2>1
<1>2. CASE Rmmod(d)
  <2>1. held'[d] = held[d] /\ phase'[d] = "unload" /\ at'[d] = 1
    BY <1>0, <1>2 DEF Rmmod, Enter
  <2>2. Gets(d) \subseteq ReleasedFrom(Unload[d], 1) \cup Leaks[d]
    BY DEF TablesCover
  <2> QED
    BY <1>0, <2>1, <2>2, OwedByPhaseAfter
<1>3. CASE Open(d) \/ Close(d)
  BY <1>0, <1>3, OwedUnmoved DEF Open, Close
<1>4. CASE Acquire(d)
  <2>1. /\ phase[d] = "load" /\ phase'[d] = "load"
        /\ at[d] \in 1 .. Len(Load[d]) /\ at'[d] = at[d] + 1
        /\ held'[d] = held[d] \cup ({step.get} \ {"check"})
    BY <1>0, <1>4 DEF Acquire, Loading, LoadStep
  <2>2. Owed(d) = HeldBefore(d, at[d]) /\ Owed(d)' = HeldBefore(d, at[d] + 1)
    BY <2>1, OwedByPhase, OwedByPhaseAfter
  <2>3. at[d] \in Nat \ {0}
    BY <1>0, <2>1, TablesShape
  <2> QED
    BY <1>0, <2>1, <2>2, <2>3, HeldBeforeStep
<1>5. CASE Jump(d)
  <2>1. /\ phase[d] = "load" /\ phase'[d] = "unwind"
        /\ at[d] \in 1 .. Len(Load[d]) /\ at'[d] = step.to
        /\ step.fail \notin {"ignored", "none"} /\ held'[d] = held[d]
    BY <1>0, <1>5 DEF Jump, StepFails, Loading, LoadStep, Enter
  <2>2. HeldBefore(d, at[d]) \subseteq ReleasedFrom(Unwind[d], step.to) \cup Leaks[d]
    BY <2>1 DEF TablesCover, MayJump
  <2> QED
    BY <1>0, <2>1, <2>2, OwedByPhase, OwedByPhaseAfter
<1>6. CASE Overlook(d)
  <2>1. /\ phase[d] = "load" /\ phase'[d] = "load"
        /\ at[d] \in 1 .. Len(Load[d]) /\ at'[d] = at[d] + 1 /\ held'[d] = held[d]
    BY <1>0, <1>6 DEF Overlook, StepFails, Loading
  <2>2. Owed(d) = HeldBefore(d, at[d]) /\ Owed(d)' = HeldBefore(d, at[d] + 1)
    BY <2>1, OwedByPhase, OwedByPhaseAfter
  <2>3. at[d] \in Nat \ {0}
    BY <1>0, <2>1, TablesShape
  <2> QED
    BY <1>0, <2>1, <2>2, <2>3, HeldBeforeStep
<1>7. CASE Loaded(d)
  <2>1. held'[d] = held[d] /\ phase'[d] = "live"
    BY <1>0, <1>7 DEF Loaded, Enter
  <2> QED
    BY <1>0, <2>1, OwedByPhaseAfter
<1>8. CASE Release(d)
  <2>1. /\ phase[d] \in {"unwind", "unload"} /\ phase'[d] = phase[d]
        /\ at[d] \in 1 .. Len(Table(d)) /\ at'[d] = at[d] + 1
        /\ held'[d] = held[d] \ Drop(Table(d)[at[d]])
    BY <1>0, <1>8 DEF Release, Releasing
  <2>2. /\ Owed(d) = ReleasedFrom(Table(d), at[d])
        /\ Owed(d)' = ReleasedFrom(Table(d), at[d] + 1)
    BY <2>1, OwedByPhase, OwedByPhaseAfter DEF Table
  <2>3. Len(Table(d)) \in Nat /\ at[d] \in Nat \ {0} /\ at[d] <= Len(Table(d))
    BY <1>0, <2>1, TablesShape DEF Table
  <2>4. Owed(d) = Drop(Table(d)[at[d]]) \cup Owed(d)'
    BY <2>2, <2>3, ReleasedFromStep
  <2> QED
    BY <1>0, <2>1, <2>4
<1>9. CASE Unwound(d)
  <2>1. /\ phase[d] = "unwind" /\ at[d] = Len(Unwind[d]) + 1 /\ held'[d] = held[d]
        /\ phase'[d] \in {"out", "live"}
    BY <1>0, <1>9 DEF Unwound, Enter
  <2>2. Owed(d) = {}
    BY <2>1, OwedByPhase, ReleasedFromEnd, TablesShape
  <2> QED
    BY <1>0, <2>1, <2>2
<1>10. CASE Unloaded(d)
  <2>1. /\ phase[d] = "unload" /\ at[d] = Len(Unload[d]) + 1 /\ held'[d] = held[d]
    BY <1>10 DEF Unloaded
  <2>2. Owed(d) = {}
    BY <2>1, OwedByPhase, ReleasedFromEnd, TablesShape
  <2> QED
    BY <1>0, <2>1, <2>2
<1> QED
  BY <1>1, <1>2, <1>3, <1>4, <1>5, <1>6, <1>7, <1>8, <1>9, <1>10 DEF Progress

LEMMA OthersUnmoved ==
  ASSUME TypeOK, NEW d \in Drivers, NEW e \in Drivers, e # d,
         Insmod(d) \/ Rmmod(d) \/ Open(d) \/ Close(d) \/ Progress(d)
  PROVE  phase'[e] = phase[e] /\ at'[e] = at[e] /\ held'[e] = held[e]
BY DEF Progress, Insmod, Rmmod, Open, Close, Acquire, Jump, Overlook, Loaded,
       Release, Unwound, Unloaded, Enter, TypeOK

LEMMA NextHoldsOwed ==
  ASSUME TablesCover
  PROVE  TypeOK /\ HoldsOwed /\ [Next]_vars => HoldsOwed'
<1> SUFFICES ASSUME TypeOK, HoldsOwed, [Next]_vars
             PROVE  HoldsOwed'
  OBVIOUS
<1>0. TypeOK'
  BY NextTypeOK
<1>1. CASE UNCHANGED vars
  BY <1>1, OwedUnmoved DEF HoldsOwed, vars
<1>2. CASE Next
  <2> PICK d \in Drivers : Insmod(d) \/ Rmmod(d) \/ Open(d) \/ Close(d) \/ Progress(d)
    BY <1>2 DEF Next
  <2>1. held'[d] \subseteq Owed(d)' \cup Leaks[d]
    BY <1>0, MoverHoldsOwed
  <2>2. ASSUME NEW e \in Drivers, e # d
        PROVE  held'[e] \subseteq Owed(e)' \cup Leaks[e]
    BY <2>2, OthersUnmoved, OwedUnmoved DEF HoldsOwed
  <2> QED
    BY <2>1, <2>2 DEF HoldsOwed
<1> QED
  BY <1>1, <1>2

(* If every label of every ladder covers what was taken before the jumps   *)
(* that lead to it, a load that fails anywhere, and every unload, leaves   *)
(* nothing behind but the known leaks.                                     *)
THEOREM CoveringTablesLeaveNothing ==
  ASSUME TablesCover
  PROVE  Spec => []NothingLeftBehind
<1>1. TypeOK /\ HoldsOwed => NothingLeftBehind
  BY OwedByPhase DEF HoldsOwed, NothingLeftBehind
<1> QED
  BY InitTypeOK, InitHoldsOwed, NextTypeOK, NextHoldsOwed, <1>1, PTL DEF Spec

-----------------------------------------------------------------------------
(* LiveIsComplete looks at loaded drivers only.  On the way there a driver *)
(* holds what the steps behind it took, but for what it overlooked; and it *)
(* starts the load with nothing.                                           *)
Complete(d) ==
  /\ phase[d] = "load" => /\ held[d] = HeldBefore(d, at[d]) \ skipped[d]
                          /\ skipped[d] \subseteq HeldBefore(d, at[d])
  /\ phase[d] = "unwind" => ret[d] = "neg"
  /\ phase[d] = "live" => held[d] = Gets(d) \ skipped[d]
  /\ phase[d] = "out" => held[d] = {} /\ skipped[d] = {}

CompleteInv == \A d \in Reporting : Complete(d)

LEMMA HeldBeforeFirst ==
  ASSUME NEW d
  PROVE  HeldBefore(d, 1) = {}
<1>1. 1 .. 1 - 1 = {}
  OBVIOUS
<1> QED
  BY <1>1 DEF HeldBefore

LEMMA InitComplete == Init => CompleteInv
BY DEF Init, CompleteInv, Complete

LEMMA MoverComplete ==
  ASSUME TablesReport, TablesCover, TypeOK, TypeOK', HoldsOwed, HoldsOwed',
         NEW d \in Reporting, Complete(d),
         Insmod(d) \/ Rmmod(d) \/ Open(d) \/ Close(d) \/ Progress(d)
  PROVE  Complete(d)'
<1> DEFINE step == Load[d][at[d]]
<1>0. /\ d \in Drivers /\ phase[d] \in Phases /\ at[d] \in Nat
      /\ phase \in [Drivers -> Phases] /\ at \in [Drivers -> Nat]
      /\ held \in [Drivers -> SUBSET STRING] /\ skipped \in [Drivers -> SUBSET STRING]
      /\ ret \in [Drivers -> Rets]
  BY DEF TypeOK
<1>1. CASE Insmod(d)
  <2>1. /\ phase'[d] = "load" /\ at'[d] = 1 /\ held'[d] = {} /\ skipped'[d] = {}
    BY <1>0, <1>1 DEF Insmod, Enter, Complete
  <2> QED
    BY <2>1, HeldBeforeFirst DEF Complete, HeldBefore, Gets
<1>2. CASE Rmmod(d)
  <2>1. phase'[d] = "unload"
    BY <1>0, <1>2 DEF Rmmod, Enter
  <2> QED
    BY <2>1 DEF Complete
<1>3. CASE Open(d) \/ Close(d)
  BY <1>3 DEF Open, Close, Complete, HeldBefore, Gets
<1>4. CASE Acquire(d) \/ Overlook(d)
  <2>1. /\ phase[d] = "load" /\ phase'[d] = "load"
        /\ at[d] \in 1 .. Len(Load[d]) /\ at'[d] = at[d] + 1
        /\ \/ /\ held'[d] = held[d] \cup ({step.get} \ {"check"})
              /\ skipped'[d] = skipped[d]
           \/ /\ held'[d] = held[d]
              /\ skipped'[d] = skipped[d] \cup ({step.get} \ {"check"})
    BY <1>0, <1>4 DEF Acquire, Overlook, StepFails, Loading, LoadStep
  <2>2. step.get \notin HeldBefore(d, at[d])
    BY <2>1 DEF TablesReport
  <2>3. HeldBefore(d, at[d] + 1) = HeldBefore(d, at[d]) \cup ({step.get} \ {"check"})
    <3>1. at[d] \in Nat \ {0}
      BY <1>0, <2>1, TablesShape
    <3> QED
      BY <1>0, <3>1, HeldBeforeStep
  <2>4. /\ held[d] = HeldBefore(d, at[d]) \ skipped[d]
        /\ skipped[d] \subseteq HeldBefore(d, at[d])
    BY <2>1 DEF Complete
  <2> HIDE DEF step
  <2>5. /\ held'[d] = HeldBefore(d, at[d] + 1) \ skipped'[d]
        /\ skipped'[d] \subseteq HeldBefore(d, at[d] + 1)
    BY <2>1, <2>2, <2>3, <2>4
  <2> QED
    BY <2>1, <2>5 DEF Complete, HeldBefore
<1>5. CASE Jump(d)
  <2>1. /\ phase[d] = "load" /\ phase'[d] = "unwind" /\ ret'[d] = step.fail
        /\ at[d] \in 1 .. Len(Load[d]) /\ step.fail \notin {"ignored", "none"}
    BY <1>0, <1>5 DEF Jump, StepFails, Loading, LoadStep, Enter
  <2>2. step.fail = "neg"
    BY <2>1 DEF TablesReport
  <2> QED
    BY <2>1, <2>2 DEF Complete
<1>6. CASE Loaded(d)
  <2>1. /\ phase[d] = "load" /\ phase'[d] = "live" /\ at[d] = Len(Load[d]) + 1
        /\ held'[d] = held[d] /\ skipped'[d] = skipped[d]
    BY <1>0, <1>6 DEF Loaded, Enter
  <2> QED
    BY <2>1 DEF Complete, Gets, HeldBefore
<1>7. CASE Release(d)
  <2>1. phase'[d] = phase[d] /\ ret' = ret /\ phase[d] \in {"unwind", "unload"}
    BY <1>7 DEF Release, Releasing
  <2> QED
    BY <2>1 DEF Complete
<1>8. CASE Unwound(d) \/ Unloaded(d)
  <2>1. phase'[d] = "out" /\ skipped'[d] = {}
    BY <1>0, <1>8 DEF Unwound, Unloaded, Enter, Complete
  <2>2. held'[d] \subseteq Leaks[d]
    BY <1>0, <2>1, OwedByPhaseAfter DEF HoldsOwed
  <2>3. Leaks[d] = {}
    BY DEF TablesReport
  <2> QED
    BY <2>1, <2>2, <2>3 DEF Complete
<1> QED
  BY <1>1, <1>2, <1>3, <1>4, <1>5, <1>6, <1>7, <1>8 DEF Progress

LEMMA NextComplete ==
  ASSUME TablesReport, TablesCover
  PROVE  TypeOK /\ HoldsOwed /\ CompleteInv /\ [Next]_vars => CompleteInv'
<1> SUFFICES ASSUME TypeOK, HoldsOwed, CompleteInv, [Next]_vars, NEW e \in Reporting
             PROVE  Complete(e)'
  BY DEF CompleteInv
<1>0. TypeOK' /\ HoldsOwed' /\ Complete(e) /\ e \in Drivers
  BY NextTypeOK, NextHoldsOwed DEF CompleteInv
<1>1. CASE UNCHANGED vars
  BY <1>0, <1>1 DEF vars, Complete, HeldBefore, Gets
<1>2. CASE Next
  <2> PICK d \in Drivers : Insmod(d) \/ Rmmod(d) \/ Open(d) \/ Close(d) \/ Progress(d)
    BY <1>2 DEF Next
  <2>1. CASE e = d
    BY <1>0, <2>1, MoverComplete
  <2>2. CASE e # d
    <3>1. /\ phase'[e] = phase[e] /\ at'[e] = at[e] /\ held'[e] = held[e]
          /\ skipped'[e] = skipped[e] /\ ret'[e] = ret[e]
      BY <1>0, <2>2 DEF Progress, Insmod, Rmmod, Open, Close, Acquire, Jump, Overlook,
         Loaded, Release, Unwound, Unloaded, Enter, TypeOK
    <3> QED
      BY <1>0, <3>1 DEF Complete, HeldBefore, Gets
  <2> QED
    BY <2>1, <2>2
<1> QED
  BY <1>1, <1>2

(* A driver whose ladder covers, and that reports every failure it tests   *)
(* as a negative errno, is never loaded with half of its resources.        *)
THEOREM ReportingDriversAreComplete ==
  ASSUME TablesReport, TablesCover
  PROVE  Spec => []LiveIsComplete
<1>1. CompleteInv => LiveIsComplete
  BY DEF CompleteInv, Complete, LiveIsComplete
<1> QED
  BY InitTypeOK, InitHoldsOwed, InitComplete, NextTypeOK, NextHoldsOwed, NextComplete,
     <1>1, PTL DEF Spec
=============================================================================
