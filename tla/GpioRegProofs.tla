--------------------------- MODULE GpioRegProofs ---------------------------
(***************************************************************************)
(* Proofs about GpioReg, for any number of processes: type correctness,    *)
(* and that the other pins of the bank keep direction and level.           *)
(***************************************************************************)
EXTENDS GpioReg, TLAPS

USE GpioRegAssumption

Stages == {"out", "mapped", "high", "sleeping", "low", "live", "exit"}
PCs == {"idle"} \cup WritePCs \cup ReadPCs

LEMMA TruthValues ==
  ASSUME NEW x, NEW S
  PROVE  (x \in S) \in BOOLEAN /\ (x = S) \in BOOLEAN
OBVIOUS

(* A sample taken by a read is a truth value.                              *)
LEMMA SampledSeen ==
  ASSUME NEW p \in Procs, NEW bit \in BOOLEAN,
         seen \in [Procs -> [out : BOOLEAN, high : BOOLEAN]]
  PROVE  /\ [seen EXCEPT ![p].out = bit] \in [Procs -> [out : BOOLEAN, high : BOOLEAN]]
         /\ [seen EXCEPT ![p].high = bit] \in [Procs -> [out : BOOLEAN, high : BOOLEAN]]
OBVIOUS

LEMMA SetPure ==
  ASSUME NEW p \in Procs, NEW bit \in BOOLEAN, pure \in [Procs -> BOOLEAN]
  PROVE  [pure EXCEPT ![p] = bit] \in [Procs -> BOOLEAN]
OBVIOUS

(* What TypeOK says of one thread, and of the loader's stage.              *)
ThreadOK(t) == /\ pc[t] \in PCs /\ cmd[t] \in Commands \cup {"low", "none"}
               /\ cmd[t] # "none" <=> pc[t] \in WritePCs
LoaderOK == pc[Loader] # "idle" <=> stage \in {"high", "low", "exit"}

LEMMA TypeParts ==
  TypeOK <=> /\ ddr \subseteq Pins /\ dr \subseteq Pins
             /\ stage \in Stages /\ LoaderOK
             /\ pc \in [Threads -> PCs]
             /\ cmd \in [Threads -> Commands \cup {"low", "none"}]
             /\ word \in [Threads -> SUBSET Pins]
             /\ seen \in [Procs -> [out : BOOLEAN, high : BOOLEAN]]
             /\ answer \in [Procs -> [input : BOOLEAN, value : BOOLEAN]]
             /\ pure \in [Procs -> BOOLEAN]
             /\ \A t \in Threads : ThreadOK(t)
             /\ neighbour \subseteq BOOLEAN
BY DEF TypeOK, Stages, PCs, LoaderOK, ThreadOK, Writers

LEMMA AfterCommandValues ==
  /\ stage = "high" => AfterCommand = "sleeping"
  /\ stage = "low" => AfterCommand = "live"
  /\ stage = "exit" => AfterCommand = "out"
BY DEF AfterCommand

LEMMA InitTypeOK == Init => TypeOK
<1> SUFFICES ASSUME Init PROVE TypeOK
  OBVIOUS
<1>1. ddr \subseteq Pins /\ dr \subseteq Pins /\ stage \in Stages /\ LoaderOK
  BY DEF Init, Pins, Stages, LoaderOK, Threads
<1>2. /\ pc \in [Threads -> PCs] /\ cmd \in [Threads -> Commands \cup {"low", "none"}]
      /\ word \in [Threads -> SUBSET Pins]
      /\ \A t \in Threads : ThreadOK(t)
  BY DEF Init, PCs, ThreadOK, WritePCs
<1>3. /\ seen \in [Procs -> [out : BOOLEAN, high : BOOLEAN]]
      /\ answer \in [Procs -> [input : BOOLEAN, value : BOOLEAN]]
      /\ pure \in [Procs -> BOOLEAN]
  BY DEF Init, NothingSeen
<1>4. neighbour \subseteq BOOLEAN
  BY DEF Init
<1> QED
  BY <1>1, <1>2, <1>3, <1>4, TypeParts

(* A step of one thread: its place and command change together, and the    *)
(* stage with the loader's.                                                *)
LEMMA ThreadMoves ==
  ASSUME TypeOK, NEW t \in Threads,
         NEW l \in PCs, pc' = [pc EXCEPT ![t] = l],
         NEW c \in Commands \cup {"low", "none"}, cmd' = [cmd EXCEPT ![t] = c],
         c # "none" <=> l \in WritePCs,
         stage' \in Stages,
         t = Loader => (l # "idle" <=> stage' \in {"high", "low", "exit"}),
         t # Loader => stage' = stage,
         ddr' \subseteq Pins, dr' \subseteq Pins,
         word' \in [Threads -> SUBSET Pins],
         seen' \in [Procs -> [out : BOOLEAN, high : BOOLEAN]],
         answer' \in [Procs -> [input : BOOLEAN, value : BOOLEAN]],
         pure' \in [Procs -> BOOLEAN],
         neighbour' = neighbour
  PROVE  TypeOK'
<1>0. /\ pc \in [Threads -> PCs] /\ cmd \in [Threads -> Commands \cup {"low", "none"}]
      /\ LoaderOK /\ \A u \in Threads : ThreadOK(u)
      /\ neighbour \subseteq BOOLEAN
  BY TypeParts
<1>1. pc' \in [Threads -> PCs] /\ cmd' \in [Threads -> Commands \cup {"low", "none"}]
  BY <1>0
<1>2. ASSUME NEW u \in Threads PROVE ThreadOK(u)'
  BY <1>0, <1>2 DEF ThreadOK, PCs
<1>3. LoaderOK'
  BY <1>0 DEF LoaderOK, Threads
<1>4. TypeOK' <=> /\ ddr' \subseteq Pins /\ dr' \subseteq Pins
                  /\ stage' \in Stages /\ LoaderOK'
                  /\ pc' \in [Threads -> PCs]
                  /\ cmd' \in [Threads -> Commands \cup {"low", "none"}]
                  /\ word' \in [Threads -> SUBSET Pins]
                  /\ seen' \in [Procs -> [out : BOOLEAN, high : BOOLEAN]]
                  /\ answer' \in [Procs -> [input : BOOLEAN, value : BOOLEAN]]
                  /\ pure' \in [Procs -> BOOLEAN]
                  /\ \A u \in Threads : ThreadOK(u)'
                  /\ neighbour' \subseteq BOOLEAN
  BY DEF TypeOK, Stages, PCs, LoaderOK, ThreadOK, Writers
<1> QED
  BY <1>0, <1>1, <1>2, <1>3, <1>4

LEMMA NextTypeOK == TypeOK /\ [Next]_vars => TypeOK'
<1> SUFFICES ASSUME TypeOK, [Next]_vars
             PROVE  TypeOK'
  OBVIOUS
<1>0. /\ ddr \subseteq Pins /\ dr \subseteq Pins
      /\ stage \in Stages /\ LoaderOK
      /\ pc \in [Threads -> PCs]
      /\ cmd \in [Threads -> Commands \cup {"low", "none"}]
      /\ word \in [Threads -> SUBSET Pins]
      /\ seen \in [Procs -> [out : BOOLEAN, high : BOOLEAN]]
      /\ answer \in [Procs -> [input : BOOLEAN, value : BOOLEAN]]
      /\ pure \in [Procs -> BOOLEAN]
      /\ \A t \in Threads : ThreadOK(t)
      /\ neighbour \subseteq BOOLEAN
  BY TypeParts
<1>1. Loader \in Threads /\ Loader \notin Procs /\ Procs \subseteq Threads
  BY DEF Threads
<1>2. CASE UNCHANGED vars
  BY <1>2 DEF vars, TypeOK, Writers
<1>3. CASE Mapped
  BY <1>3 DEF Mapped, TypeOK, Writers, registers, history
<1>4. ASSUME NEW t \in Threads, NEW c \in Commands \cup {"low"}, Begin(t, c),
             stage' \in Stages,
             t = Loader => stage' \in {"high", "low", "exit"},
             t # Loader => stage' = stage
      PROVE  TypeOK'
  <2> DEFINE l == IF c = "low" THEN "dr_load" ELSE "ddr_load"
  <2>1. /\ pc' = [pc EXCEPT ![t] = l] /\ cmd' = [cmd EXCEPT ![t] = c]
        /\ UNCHANGED <<ddr, dr, word, seen, answer, neighbour>>
        /\ pure' \in [Procs -> BOOLEAN]
    BY <1>4 DEF Begin, Invoked, registers
  <2>2. l \in WritePCs /\ l \in PCs /\ l # "idle" /\ c # "none"
    BY DEF WritePCs, PCs, Commands
  <2> HIDE DEF l
  <2> QED
    BY <1>0, <1>4, <2>1, <2>2, ThreadMoves
<1>5. ASSUME NEW p \in Procs, NEW c \in Commands, Write(p, c)
      PROVE  TypeOK'
  BY <1>0, <1>1, <1>4, <1>5 DEF Write
<1>6. CASE InitHigh
  BY <1>1, <1>4, <1>6 DEF InitHigh, Commands, Stages
<1>7. CASE InitLow
  BY <1>1, <1>4, <1>7 DEF InitLow, Stages
<1>8. CASE Exit
  BY <1>1, <1>4, <1>8 DEF Exit, Stages
<1>9. ASSUME NEW t \in Threads, LoadDdr(t) \/ LoadDr(t)
      PROVE  TypeOK'
  <2>1. PICK l \in {"ddr_store", "dr_store"} :
          /\ pc' = [pc EXCEPT ![t] = l] /\ pc[t] \in WritePCs
          /\ word' \in [Threads -> SUBSET Pins]
          /\ cmd' = [cmd EXCEPT ![t] = cmd[t]]
          /\ UNCHANGED <<ddr, dr, stage, seen, answer, pure, neighbour>>
    BY <1>0, <1>9 DEF LoadDdr, LoadDr, registers, history, WritePCs
  <2>2. l \in PCs /\ l \in WritePCs /\ pc[t] # "idle" /\ l # "idle"
    BY <2>1 DEF PCs, WritePCs
  <2>3. cmd[t] \in Commands \cup {"low", "none"} /\ cmd[t] # "none"
    BY <1>0, <2>1 DEF ThreadOK
  <2> QED
    BY <1>0, <2>1, <2>2, <2>3, ThreadMoves DEF LoaderOK
<1>10. ASSUME NEW t \in Threads, StoreDdr(t) \/ StoreDr(t), Finish(t)
       PROVE  TypeOK'
  <2>1. /\ pc' = [pc EXCEPT ![t] = "idle"] /\ cmd' = [cmd EXCEPT ![t] = "none"]
        /\ stage' = IF t = Loader THEN AfterCommand ELSE stage
        /\ pure' = pure
    BY <1>10 DEF Finish, Returned
  <2>2. /\ UNCHANGED <<seen, answer, neighbour>> /\ pc[t] # "idle"
        /\ word' = [word EXCEPT ![t] = {}]
        /\ word[t] \subseteq Pins
        /\ ddr' \in {ddr, word[t] \ {"A7"}, word[t] \cup {"A7"}}
        /\ dr' \in {dr, word[t] \ {"A7"}, word[t] \cup {"A7"}}
    BY <1>0, <1>10 DEF StoreDdr, StoreDr
  <2>3. /\ ddr' \subseteq Pins /\ dr' \subseteq Pins
        /\ word' \in [Threads -> SUBSET Pins]
    BY <1>0, <2>2 DEF Pins
  <2>4. t = Loader => stage' \in {"sleeping", "live", "out"}
    BY <1>0, <2>1, <2>2, AfterCommandValues DEF LoaderOK
  <2>5. /\ "idle" \in PCs /\ "idle" \notin WritePCs
        /\ stage' \in Stages
        /\ t = Loader => stage' \notin {"high", "low", "exit"}
        /\ t # Loader => stage' = stage
    BY <1>0, <2>1, <2>4 DEF PCs, WritePCs, Stages
  <2> QED
    BY <1>0, <2>1, <2>2, <2>3, <2>5, ThreadMoves
<1>11. ASSUME NEW t \in Threads, StoreDdr(t), ~Finish(t)
       PROVE  TypeOK'
  <2>1. /\ pc[t] = "ddr_store" /\ pc' = [pc EXCEPT ![t] = "dr_load"]
        /\ UNCHANGED <<stage, cmd, pure, dr, seen, answer, neighbour>>
        /\ word' = [word EXCEPT ![t] = {}]
        /\ ddr' \in {word[t] \ {"A7"}, word[t] \cup {"A7"}}
    BY <1>11 DEF StoreDdr, history
  <2>2. /\ ddr' \subseteq Pins /\ word' \in [Threads -> SUBSET Pins]
        /\ cmd' = [cmd EXCEPT ![t] = cmd[t]]
    BY <1>0, <2>1 DEF Pins
  <2>3. cmd[t] \in Commands \cup {"low", "none"} /\ cmd[t] # "none"
    BY <1>0, <2>1 DEF ThreadOK, WritePCs
  <2>4. "dr_load" \in PCs /\ "dr_load" \in WritePCs
    BY DEF PCs, WritePCs
  <2> QED
    BY <1>0, <2>1, <2>2, <2>3, <2>4, ThreadMoves DEF LoaderOK
<1>12. ASSUME NEW t \in Threads, StoreDr(t)
       PROVE  TypeOK'
  BY <1>10, <1>12 DEF StoreDr
<1>13. ASSUME NEW p \in Procs, Read(p)
       PROVE  TypeOK'
  <2>1. PICK l \in {"idle", "read_dr", "read_ext"} :
          /\ pc' = [pc EXCEPT ![p] = l]
          /\ pc[p] \in {"idle", "read_dr", "read_ext"}
          /\ UNCHANGED <<ddr, dr, stage, cmd, word, neighbour>>
    BY <1>13 DEF Read, ReadDdr, ReadDr, ReadExt, registers
  <2>2. /\ seen' \in [Procs -> [out : BOOLEAN, high : BOOLEAN]]
        /\ pure' \in [Procs -> BOOLEAN]
    <3>1. CASE ReadDdr(p)
      <4>1. ("A7" \in ddr) \in BOOLEAN /\ (Writers = {}) \in BOOLEAN
        BY TruthValues
      <4>2. /\ seen' = [seen EXCEPT ![p].out = "A7" \in ddr]
            /\ pure' = [pure EXCEPT ![p] = Writers = {}]
        BY <3>1, Zenon DEF ReadDdr
      <4>3. [seen EXCEPT ![p].out = "A7" \in ddr]
              \in [Procs -> [out : BOOLEAN, high : BOOLEAN]]
        BY <1>0, <4>1, SampledSeen
      <4>4. [pure EXCEPT ![p] = Writers = {}] \in [Procs -> BOOLEAN]
        BY <1>0, <4>1, SetPure
      <4> QED
        BY <4>2, <4>3, <4>4, Zenon
    <3>2. CASE ReadDr(p)
      <4>1. ("A7" \in dr) \in BOOLEAN
        BY TruthValues
      <4>2. seen' = [seen EXCEPT ![p].high = "A7" \in dr] /\ pure' = pure
        BY <3>2, Zenon DEF ReadDr, history
      <4>3. [seen EXCEPT ![p].high = "A7" \in dr]
              \in [Procs -> [out : BOOLEAN, high : BOOLEAN]]
        BY <1>0, <4>1, SampledSeen
      <4> QED
        BY <1>0, <4>2, <4>3, Zenon
    <3>3. CASE \E outside \in BOOLEAN : ReadExt(p, outside)
      BY <1>0, <3>3 DEF ReadExt, NothingSeen
    <3> QED
      BY <1>13, <3>1, <3>2, <3>3 DEF Read
  <2>3. answer' \in [Procs -> [input : BOOLEAN, value : BOOLEAN]]
    <3>1. CASE ReadDdr(p) \/ ReadDr(p)
      BY <1>0, <3>1 DEF ReadDdr, ReadDr
    <3>2. ASSUME NEW outside \in BOOLEAN, ReadExt(p, outside)
          PROVE  answer' \in [Procs -> [input : BOOLEAN, value : BOOLEAN]]
      <4> DEFINE v == IF seen[p].out THEN seen[p].high ELSE Port(outside)
      <4>1. v \in BOOLEAN /\ (~seen[p].out) \in BOOLEAN
        <5>1. seen[p].out \in BOOLEAN /\ seen[p].high \in BOOLEAN
          BY <1>0
        <5>2. Port(outside) \in BOOLEAN
          <6>1. CASE "A7" \in ddr
            BY <6>1, TruthValues DEF Port
          <6>2. CASE "A7" \notin ddr
            BY <3>2, <6>2 DEF Port
          <6> QED
            BY <6>1, <6>2
        <5>3. v \in BOOLEAN
          BY <5>1, <5>2, Zenon
        <5>4. (~seen[p].out) \in BOOLEAN
          BY <5>1
        <5> QED
          BY <5>3, <5>4, Zenon
      <4>2. answer' = [answer EXCEPT ![p] = [input |-> ~seen[p].out, value |-> v]]
        BY <3>2 DEF ReadExt
      <4> HIDE DEF v
      <4> QED
        BY <1>0, <4>1, <4>2
    <3> QED
      BY <1>13, <3>1, <3>2 DEF Read
  <2>4. /\ p \in Threads /\ p # Loader /\ l \in PCs /\ l \notin WritePCs
        /\ cmd' = [cmd EXCEPT ![p] = cmd[p]] /\ cmd[p] = "none"
    BY <1>0, <1>1, <2>1 DEF PCs, ReadPCs, WritePCs, ThreadOK
  <2> QED
    BY <1>0, <2>1, <2>2, <2>3, <2>4, ThreadMoves
<1>14. ASSUME NEW bit \in BOOLEAN, Kernel(bit)
       PROVE  TypeOK'
  <2>1. dr' \subseteq Pins /\ neighbour' \subseteq BOOLEAN
    BY <1>0, <1>14 DEF Kernel, Pins
  <2> QED
    BY <1>14, <2>1 DEF Kernel, history, TypeOK, Writers
<1> QED
  BY <1>2, <1>3, <1>5, <1>6, <1>7, <1>8, <1>9, <1>10, <1>11, <1>12, <1>13, <1>14
  DEF Next, Step

(* Every reachable state is well typed, whatever the processes write and   *)
(* read while the driver is loaded and unloaded.                           *)
THEOREM GpioTypeCorrect == Spec => []TypeOK
<1> QED
  BY InitTypeOK, NextTypeOK, PTL DEF Spec

-----------------------------------------------------------------------------
(* NeighbourKept is not inductive: a store writes back a word loaded       *)
(* earlier.  Between the load and the store the other pin's bit in that    *)
(* word stays admissible.                                                  *)
WordOK(t) == /\ pc[t] = "ddr_store" => "other" \in word[t]
             /\ pc[t] = "dr_store" => ("other" \in word[t]) \in neighbour

NeighbourInv == NeighbourKept /\ \A t \in Threads : WordOK(t)

LEMMA NextNeighbour == TypeOK /\ NeighbourInv /\ [Next]_vars => NeighbourInv'
<1> SUFFICES ASSUME TypeOK, NeighbourInv, [Next]_vars
             PROVE  NeighbourInv'
  OBVIOUS
<1>0. /\ pc \in [Threads -> PCs] /\ word \in [Threads -> SUBSET Pins]
      /\ "other" \in ddr /\ ("other" \in dr) \in neighbour
      /\ \A t \in Threads : WordOK(t)
      /\ Loader \in Threads /\ Procs \subseteq Threads
  BY TypeParts DEF NeighbourInv, NeighbourKept, Threads
<1>1. ASSUME NEW t \in Threads, NEW l, l \notin {"ddr_store", "dr_store"},
             pc' = [pc EXCEPT ![t] = l],
             UNCHANGED <<ddr, dr, word, neighbour>>
      PROVE  NeighbourInv'
  BY <1>0, <1>1 DEF NeighbourInv, NeighbourKept, WordOK
<1>2. CASE UNCHANGED vars \/ Mapped
  BY <1>0, <1>2 DEF vars, Mapped, registers, NeighbourInv, NeighbourKept, WordOK
<1>3. ASSUME NEW t \in Threads, NEW c, Begin(t, c)
      PROVE  NeighbourInv'
  BY <1>1, <1>3 DEF Begin, registers
<1>4. ASSUME NEW t \in Threads, LoadDdr(t) \/ LoadDr(t)
      PROVE  NeighbourInv'
  <2>1. ASSUME NEW u \in Threads PROVE WordOK(u)'
    BY <1>0, <1>4, <2>1 DEF LoadDdr, LoadDr, WordOK
  <2> QED
    BY <1>0, <1>4, <2>1 DEF LoadDdr, LoadDr, registers, NeighbourInv, NeighbourKept
<1>5. ASSUME NEW t \in Threads, StoreDdr(t) \/ StoreDr(t)
      PROVE  NeighbourInv'
  <2>1. /\ pc'[t] \in {"idle", "dr_load"} /\ \A u \in Threads \ {t} : pc'[u] = pc[u]
        /\ \A u \in Threads \ {t} : word'[u] = word[u]
        /\ neighbour' = neighbour
    BY <1>0, <1>5 DEF StoreDdr, StoreDr, Finish
  <2>2. \A u \in Threads : WordOK(u)'
    BY <1>0, <2>1 DEF WordOK
  <2>3. CASE StoreDdr(t)
    <3>1. "other" \in ddr' /\ dr' = dr
      BY <1>0, <2>3 DEF StoreDdr, WordOK
    <3> QED
      BY <1>0, <2>1, <2>2, <3>1 DEF NeighbourInv, NeighbourKept
  <2>4. CASE StoreDr(t)
    <3>1. ("other" \in dr') = ("other" \in word[t]) /\ ddr' = ddr
      BY <2>4 DEF StoreDr
    <3>2. ("other" \in word[t]) \in neighbour
      BY <1>0, <2>4 DEF StoreDr, WordOK
    <3> QED
      BY <1>0, <2>1, <2>2, <3>1, <3>2 DEF NeighbourInv, NeighbourKept
  <2> QED
    BY <1>5, <2>3, <2>4
<1>6. ASSUME NEW p \in Procs, Read(p)
      PROVE  NeighbourInv'
  BY <1>0, <1>1, <1>6 DEF Read, ReadDdr, ReadDr, ReadExt, registers
<1>7. ASSUME NEW bit \in BOOLEAN, Kernel(bit)
      PROVE  NeighbourInv'
  <2>1. /\ UNCHANGED <<ddr, pc, word>> /\ ("other" \in dr') = bit
        /\ neighbour' = IF \E t \in Threads : pc[t] = "dr_store" THEN BOOLEAN ELSE {bit}
    BY <1>7 DEF Kernel
  <2>2. ("other" \in dr') \in neighbour'
    <3>1. ("other" \in dr') \in BOOLEAN
      BY TruthValues
    <3>2. ("other" \in dr') \in {bit}
      BY <2>1, Zenon
    <3> QED
      BY <2>1, <3>1, <3>2, Zenon
  <2>3. ASSUME NEW t \in Threads PROVE WordOK(t)'
    <3>1. pc[t] = "ddr_store" => "other" \in word[t]
      BY <1>0 DEF WordOK
    <3>2. pc[t] = "dr_store" => ("other" \in word[t]) \in neighbour'
      <4>1. ("other" \in word[t]) \in BOOLEAN
        BY TruthValues
      <4> QED
        BY <2>1, <4>1, Zenon
    <3> QED
      BY <2>1, <3>1, <3>2 DEF WordOK
  <2> QED
    BY <1>0, <2>1, <2>2, <2>3 DEF NeighbourInv, NeighbourKept
<1> QED
  BY <1>0, <1>2, <1>3, <1>4, <1>5, <1>6, <1>7
  DEF Next, Step, Write, InitHigh, InitLow, Exit

(* However many processes write at once without a lock, the other pins of  *)
(* the bank stay outputs and keep the level the kernel gave them, but for  *)
(* a level set between a load and a store of this driver.                  *)
THEOREM NeighboursAreKept == Spec => []NeighbourKept
<1>1. Init => NeighbourInv
  BY DEF Init, NeighbourInv, NeighbourKept, WordOK, Pins
<1>2. NeighbourInv => NeighbourKept
  BY DEF NeighbourInv
<1> QED
  BY <1>1, <1>2, InitTypeOK, NextTypeOK, NextNeighbour, PTL DEF Spec

-----------------------------------------------------------------------------
(* A read without a write beside it: the samples it has taken so far are   *)
(* still what the registers hold.                                          *)
SamplesFresh(p) ==
  pure[p] => /\ \A t \in Threads : pc[t] \notin WritePCs
             /\ pc[p] \in ReadPCs => (seen[p].out <=> "A7" \in ddr)
             /\ pc[p] = "read_ext" => (seen[p].high <=> "A7" \in dr)

ReadInv == \A p \in Procs : SamplesFresh(p)

LEMMA NextReadInv == TypeOK /\ ReadInv /\ [Next]_vars => ReadInv'
<1> SUFFICES ASSUME TypeOK, ReadInv, [Next]_vars, NEW q \in Procs, pure'[q]
             PROVE  SamplesFresh(q)'
  BY DEF ReadInv, SamplesFresh
<1>0. /\ pc \in [Threads -> PCs] /\ pure \in [Procs -> BOOLEAN]
      /\ seen \in [Procs -> [out : BOOLEAN, high : BOOLEAN]]
      /\ SamplesFresh(q)
      /\ Loader \in Threads /\ Procs \subseteq Threads
  BY TypeParts DEF ReadInv, Threads
<1>1. CASE UNCHANGED vars \/ Mapped
  BY <1>0, <1>1 DEF vars, Mapped, registers, history, SamplesFresh
<1>2. ASSUME NEW t \in Threads, NEW c, Begin(t, c)
      PROVE  FALSE
  BY <1>2 DEF Begin, Invoked
<1>3. ASSUME NEW t \in Threads, Step(t)
      PROVE  FALSE
  <2>1. pc[t] \in WritePCs /\ pure' = pure
    BY <1>3 DEF Step, LoadDdr, LoadDr, StoreDdr, StoreDr, Finish, Returned, history,
                WritePCs
  <2> QED
    BY <1>0, <2>1 DEF SamplesFresh
<1>4. ASSUME NEW p \in Procs, Read(p), p # q
      PROVE  SamplesFresh(q)'
  <2>1. /\ pure'[q] = pure[q] /\ seen'[q] = seen[q] /\ pc'[q] = pc[q]
        /\ UNCHANGED <<ddr, dr>>
        /\ \A t \in Threads : pc'[t] \in WritePCs => pc[t] \in WritePCs
    BY <1>0, <1>4 DEF Read, ReadDdr, ReadDr, ReadExt, registers, history, WritePCs
  <2> QED
    BY <1>0, <2>1 DEF SamplesFresh
<1>5. CASE ReadDdr(q)
  <2>1. /\ pc' = [pc EXCEPT ![q] = "read_dr"]
        /\ seen'[q].out <=> "A7" \in ddr
        /\ UNCHANGED <<ddr, dr>>
        /\ Writers = {}
    BY <1>0, <1>5 DEF ReadDdr, registers
  <2> QED
    BY <1>0, <2>1 DEF SamplesFresh, Writers, WritePCs
<1>6. CASE ReadDr(q)
  <2>1. /\ pc' = [pc EXCEPT ![q] = "read_ext"] /\ pc[q] \in ReadPCs
        /\ seen'[q].out = seen[q].out
        /\ seen'[q].high <=> "A7" \in dr
        /\ UNCHANGED <<ddr, dr, pure>>
    BY <1>0, <1>6 DEF ReadDr, registers, history, ReadPCs
  <2> QED
    BY <1>0, <2>1 DEF SamplesFresh, WritePCs
<1>7. ASSUME NEW outside \in BOOLEAN, ReadExt(q, outside)
      PROVE  FALSE
  BY <1>0, <1>7 DEF ReadExt
<1>8. ASSUME NEW bit \in BOOLEAN, Kernel(bit)
      PROVE  SamplesFresh(q)'
  <2>1. /\ UNCHANGED <<ddr, pc, seen, pure>>
        /\ "A7" \in dr' <=> "A7" \in dr
    BY <1>8 DEF Kernel, history
  <2> QED
    BY <1>0, <2>1 DEF SamplesFresh
<1> QED
  BY <1>0, <1>1, <1>2, <1>3, <1>4, <1>5, <1>6, <1>7, <1>8
  DEF Next, Read, Write, InitHigh, InitLow, Exit

(* Three samples taken one after the other add up to one consistent answer *)
(* whenever no write overlaps the read.                                    *)
THEOREM UndisturbedReadIsExact == Spec => ReadAloneIsExact
<1>1. Init => ReadInv
  BY DEF Init, ReadInv, SamplesFresh
<1>2. ASSUME TypeOK, ReadInv, NEW p \in Procs, NEW outside \in BOOLEAN,
             pure[p], ReadExt(p, outside)
      PROVE  answer'[p] = [input |-> ~Config.out, value |-> Port(outside)]
  <2>1. /\ seen[p] \in [out : BOOLEAN, high : BOOLEAN] /\ pc[p] = "read_ext"
        /\ SamplesFresh(p)
        /\ answer \in [Procs -> [input : BOOLEAN, value : BOOLEAN]]
    BY <1>2, TypeParts DEF ReadInv, ReadExt
  <2>2. /\ seen[p].out <=> "A7" \in ddr
        /\ seen[p].high <=> "A7" \in dr
    BY <1>2, <2>1 DEF SamplesFresh, ReadPCs
  <2>3. answer'[p] = [input |-> ~seen[p].out,
                      value |-> IF seen[p].out THEN seen[p].high ELSE Port(outside)]
    BY <1>2, <2>1 DEF ReadExt
  <2>4. CASE "A7" \in ddr
    <3>1. seen[p].out = TRUE /\ Config.out = TRUE
      BY <2>1, <2>2, <2>4 DEF Config
    <3>2. Port(outside) = seen[p].high
      <4>1. Port(outside) = ("A7" \in dr)
        BY <2>4 DEF Port
      <4> QED
        BY <2>1, <2>2, <4>1
    <3> QED
      BY <2>3, <3>1, <3>2, Zenon
  <2>5. CASE "A7" \notin ddr
    <3>1. seen[p].out = FALSE /\ Config.out = FALSE
      BY <2>1, <2>2, <2>5 DEF Config
    <3> QED
      BY <2>3, <3>1, Zenon
  <2> QED
    BY <2>4, <2>5
<1>3. TypeOK /\ ReadInv =>
        [\A p \in Procs, outside \in BOOLEAN :
           pure[p] /\ ReadExt(p, outside) =>
             answer'[p] = [input |-> ~Config.out, value |-> Port(outside)]]_vars
  <2> SUFFICES ASSUME TypeOK, ReadInv, NEW p \in Procs, NEW outside \in BOOLEAN,
                      pure[p], ReadExt(p, outside)
               PROVE  answer'[p] = [input |-> ~Config.out, value |-> Port(outside)]
    OBVIOUS
  <2> QED
    BY <1>2
<1> QED
  BY <1>1, <1>3, InitTypeOK, NextTypeOK, NextReadInv, PTL DEF Spec, ReadAloneIsExact
=============================================================================
