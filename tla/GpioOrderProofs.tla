--------------------------- MODULE GpioOrderProofs ---------------------------
(***************************************************************************)
(* Proof that the unlocked writes of GpioReg leave the pin as some order   *)
(* of them does, for any number of processes.  First what Orders holds: it *)
(* is built in as many rounds as there are writers, and nothing can be     *)
(* added after these.  Then the invariant on the orders, one lemma for     *)
(* each kind of step.                                                      *)
(***************************************************************************)
EXTENDS GpioRegProofs, Integers, FiniteSetTheorems, WellFoundedInduction

-----------------------------------------------------------------------------
(* Induction over the naturals, from the least-number principle.           *)
LEMMA LeastNumber ==
  ASSUME NEW T, T \subseteq Nat, T # {}
  PROVE  \E n \in T : \A m \in T : n <= m
<1> DEFINE R == {ss \in Nat \X Nat : ss[1] < ss[2]}
<1>1. IsWellFoundedOn(R, Nat)
  BY NatLessThanWellFounded DEF OpToRel
<1>2. \A x, y \in Nat : <<y, x>> \in R <=> y < x
  OBVIOUS
<1> HIDE DEF R
<1>3. \E x \in T : \A y \in T : ~(<<y, x>> \in R)
  BY <1>1, WFMin, Zenon
<1>4. \A x, y \in Nat : ~(y < x) => x <= y
  OBVIOUS
<1>5. PICK x \in T : \A y \in T : ~(<<y, x>> \in R)
  BY <1>3
<1>6. \A y \in T : x <= y
  BY <1>2, <1>4, <1>5
<1> QED
  BY <1>6

LEMMA UpTo ==
  ASSUME NEW N \in Nat, NEW T, 0 \in T,
         \A n \in 0 .. N - 1 : n \in T => n + 1 \in T
  PROVE  \A n \in 0 .. N : n \in T
<1> SUFFICES ASSUME \E n \in 0 .. N : n \notin T
             PROVE  FALSE
  OBVIOUS
<1> DEFINE Missing == {n \in 0 .. N : n \notin T}
<1>1. Missing \subseteq Nat /\ Missing # {}
  OBVIOUS
<1>2. PICK n \in Missing : \A m \in Missing : n <= m
  <2> HIDE DEF Missing
  <2> QED
    BY <1>1, LeastNumber
<1>3. n \in 0 .. N /\ n # 0
  BY <1>2
<1>4. n - 1 \in 0 .. N - 1 /\ n - 1 \notin Missing
  BY <1>2, <1>3
<1> QED
  BY <1>2, <1>3, <1>4

-----------------------------------------------------------------------------
(* The rounds behind Orders, apart from the state: from the pairs P, with  *)
(* the writes W and their commands C.                                      *)
Grown(x, t, C) == <<Apply(C[t], x[1]), x[2] \cup {t}>>
Grow(P, W, C) == P \cup UNION {{Grown(x, t, C) : t \in W \ x[2]} : x \in P}

IsRounds(R, N, P, W, C) ==
  R = [n \in 0 .. N |-> IF n = 0 THEN P ELSE Grow(R[n - 1], W, C)]

Rounds(P, W, C) == CHOOSE R : IsRounds(R, Cardinality(W), P, W, C)

LEMMA OrdersAreRounds == Orders = Rounds(poss, Writers, cmd)[Cardinality(Writers)]
BY DEF Orders, Extend, Extended, Grown, Grow, IsRounds, Rounds

LEMMA RoundsExist ==
  ASSUME NEW P, NEW W, NEW C, NEW N \in Nat
  PROVE  \E R : IsRounds(R, N, P, W, C)
<1> DEFINE T == {n \in 0 .. N : \E R : IsRounds(R, n, P, W, C)}
<1>1. 0 \in T
  <2>1. IsRounds([n \in 0 .. 0 |-> P], 0, P, W, C)
    BY DEF IsRounds
  <2> QED
    BY <2>1
<1>2. ASSUME NEW n \in 0 .. N - 1, n \in T
      PROVE  n + 1 \in T
  <2>1. PICK R : IsRounds(R, n, P, W, C)
    BY <1>2
  <2> DEFINE S == [k \in 0 .. n + 1 |-> IF k <= n THEN R[k] ELSE Grow(R[n], W, C)]
  <2>2. IsRounds(S, n + 1, P, W, C)
    <3>1. /\ R[0] = P
          /\ \A k \in 1 .. n : R[k] = Grow(R[k - 1], W, C)
      BY <2>1 DEF IsRounds
    <3>2. S[0] = P
      BY <3>1
    <3>3. ASSUME NEW k \in 1 .. n + 1 PROVE S[k] = Grow(S[k - 1], W, C)
      <4>1. S[k - 1] = R[k - 1]
        OBVIOUS
      <4>2. CASE k <= n
        <5>1. S[k] = R[k] /\ k \in 1 .. n
          BY <4>2
        <5> QED
          BY <3>1, <4>1, <5>1
      <4>3. CASE k = n + 1
        <5>1. S[k] = Grow(R[n], W, C) /\ k - 1 = n
          BY <4>3
        <5> QED
          BY <4>1, <5>1
      <4> QED
        BY <4>2, <4>3
    <3>4. S = [k \in 0 .. n + 1 |-> S[k]]
      OBVIOUS
    <3> HIDE DEF S
    <3>5. ASSUME NEW k \in 0 .. n + 1
          PROVE  S[k] = IF k = 0 THEN P ELSE Grow(S[k - 1], W, C)
      BY <3>2, <3>3
    <3>6. [k \in 0 .. n + 1 |-> S[k]]
            = [k \in 0 .. n + 1 |-> IF k = 0 THEN P ELSE Grow(S[k - 1], W, C)]
      BY <3>5
    <3> QED
      BY <3>4, <3>6, Zenon DEF IsRounds
  <2> QED
    BY <2>2
<1> HIDE DEF T
<1>3. N \in T
  BY <1>1, <1>2, UpTo
<1> QED
  BY <1>3 DEF T

LEMMA RoundsStep ==
  ASSUME NEW P, NEW W, IsFiniteSet(W), NEW C
  PROVE  LET N == Cardinality(W)
             R == Rounds(P, W, C)
         IN  /\ N \in Nat
             /\ R[0] = P
             /\ \A n \in 0 .. N - 1 : R[n + 1] = Grow(R[n], W, C)
<1> DEFINE N == Cardinality(W)
           R == Rounds(P, W, C)
<1>1. N \in Nat
  BY FS_CardinalityType
<1>2. IsRounds(R, N, P, W, C)
  <2>1. \E S : IsRounds(S, N, P, W, C)
    BY <1>1, RoundsExist
  <2> QED
    BY <2>1, Zenon DEF Rounds
<1> HIDE DEF N, R
<1>3. R[0] = P
  BY <1>1, <1>2 DEF IsRounds
<1>4. ASSUME NEW n \in 0 .. N - 1
      PROVE  R[n + 1] = Grow(R[n], W, C)
  <2>1. n + 1 \in 0 .. N /\ n + 1 # 0 /\ (n + 1) - 1 = n
    BY <1>1
  <2>2. R[n + 1] = Grow(R[(n + 1) - 1], W, C)
    BY <1>2, <2>1 DEF IsRounds
  <2> QED
    BY <2>1, <2>2
<1> QED
  BY <1>1, <1>3, <1>4 DEF N, R

(* One round.                                                              *)
LEMMA GrowMembers ==
  ASSUME NEW P, NEW W, NEW C
  PROVE  /\ P \subseteq Grow(P, W, C)
         /\ \A x \in P, t \in W : t \notin x[2] => Grown(x, t, C) \in Grow(P, W, C)
         /\ \A y \in Grow(P, W, C) :
              y \in P \/ \E x \in P, t \in W : t \notin x[2] /\ y = Grown(x, t, C)
BY DEF Grow

-----------------------------------------------------------------------------
(* The three states a pin can be in.                                       *)
InputPin == [out |-> FALSE, high |-> FALSE]
LowPin == [out |-> TRUE, high |-> FALSE]
HighPin == [out |-> TRUE, high |-> TRUE]
Configs == {InputPin, LowPin, HighPin}

LEMMA ApplyValues ==
  /\ \A c : Apply("0", c) = LowPin /\ Apply("1", c) = HighPin /\ Apply("2", c) = InputPin
  /\ Apply("low", InputPin) = InputPin
  /\ \A c \in {LowPin, HighPin} : Apply("low", c) = LowPin
<1>1. \A c : Apply("0", c) = LowPin /\ Apply("1", c) = HighPin /\ Apply("2", c) = InputPin
  BY DEF Apply, InputPin, LowPin, HighPin
<1>2. \A c : Apply("low", c) = [c EXCEPT !.high = FALSE]
  BY DEF Apply
<1>3. /\ [InputPin EXCEPT !.high = FALSE] = InputPin
      /\ [LowPin EXCEPT !.high = FALSE] = LowPin
      /\ [HighPin EXCEPT !.high = FALSE] = LowPin
  <2>1. ASSUME NEW r \in [out : BOOLEAN, high : BOOLEAN]
        PROVE  [r EXCEPT !.high = FALSE] = [out |-> r.out, high |-> FALSE]
    <3>1. [r EXCEPT !.high = FALSE] \in [out : BOOLEAN, high : BOOLEAN]
      OBVIOUS
    <3>2. [r EXCEPT !.high = FALSE].out = r.out /\ [r EXCEPT !.high = FALSE].high = FALSE
      OBVIOUS
    <3>3. \A q \in [out : BOOLEAN, high : BOOLEAN] : q = [out |-> q.out, high |-> q.high]
      OBVIOUS
    <3> QED
      BY <3>1, <3>2, <3>3, Zenon
  <2>2. /\ {InputPin, LowPin, HighPin} \subseteq [out : BOOLEAN, high : BOOLEAN]
        /\ InputPin.out = FALSE /\ LowPin.out = TRUE /\ HighPin.out = TRUE
    BY DEF InputPin, LowPin, HighPin
  <2>3. ASSUME NEW r \in {InputPin, LowPin, HighPin}
        PROVE  [r EXCEPT !.high = FALSE] = [out |-> r.out, high |-> FALSE]
    BY <2>1, <2>2
  <2> QED
    BY <2>2, <2>3, Zenon DEF InputPin, LowPin
<1> QED
  BY <1>1, <1>2, <1>3

LEMMA ApplyType ==
  ASSUME NEW k \in Commands \cup {"low"}, NEW c \in Configs
  PROVE  Apply(k, c) \in Configs
BY ApplyValues DEF Commands, Configs

(* What the pin shows, given the two registers.                            *)
Shown(d, o) == [out |-> "A7" \in d, high |-> "A7" \in d \cap o]

LEMMA ShownValues ==
  ASSUME NEW d, NEW o
  PROVE  /\ "A7" \notin d => Shown(d, o) = InputPin
         /\ "A7" \in d /\ "A7" \in o => Shown(d, o) = HighPin
         /\ "A7" \in d /\ "A7" \notin o => Shown(d, o) = LowPin
<1>1. ASSUME NEW b \in BOOLEAN, NEW h \in BOOLEAN, ("A7" \in d) = b, ("A7" \in d \cap o) = h
      PROVE  Shown(d, o) = [out |-> b, high |-> h]
  BY <1>1, Zenon DEF Shown
<1>2. CASE "A7" \notin d
  <2>1. ("A7" \in d) = FALSE /\ ("A7" \in d \cap o) = FALSE
    BY <1>2
  <2> QED
    BY <1>1, <1>2, <2>1, Zenon DEF InputPin
<1>3. CASE "A7" \in d /\ "A7" \in o
  <2>1. ("A7" \in d) = TRUE /\ ("A7" \in d \cap o) = TRUE
    BY <1>3
  <2> QED
    BY <1>1, <1>3, <2>1, Zenon DEF HighPin
<1>4. CASE "A7" \in d /\ "A7" \notin o
  <2>1. ("A7" \in d) = TRUE /\ ("A7" \in d \cap o) = FALSE
    BY <1>4
  <2> QED
    BY <1>1, <1>4, <2>1, Zenon DEF LowPin
<1> QED
  BY <1>2, <1>3, <1>4

LEMMA ConfigValues ==
  /\ Config \in Configs
  /\ "A7" \notin ddr => Config = InputPin
  /\ "A7" \in ddr /\ "A7" \in dr => Config = HighPin
  /\ "A7" \in ddr /\ "A7" \notin dr => Config = LowPin
  /\ "A7" \notin ddr' => Config' = InputPin
  /\ "A7" \in ddr' /\ "A7" \in dr' => Config' = HighPin
  /\ "A7" \in ddr' /\ "A7" \notin dr' => Config' = LowPin
<1>1. Config = Shown(ddr, dr) /\ Config' = Shown(ddr', dr')
  BY DEF Config, Shown
<1>2. Shown(ddr, dr) \in Configs
  BY ShownValues DEF Configs
<1> QED
  BY <1>1, <1>2, ShownValues

-----------------------------------------------------------------------------
(* What a set of pairs has to be, and what the commands of the writes.     *)
PairsOK(P, W) == P \subseteq Configs \X SUBSET W
CommandsOK(W, C) == \A t \in W : C[t] \in Commands \cup {"low"}

LEMMA GrowPairs ==
  ASSUME NEW P, NEW W, NEW C, PairsOK(P, W), CommandsOK(W, C)
  PROVE  PairsOK(Grow(P, W, C), W)
<1>1. ASSUME NEW x \in P, NEW t \in W
      PROVE  Grown(x, t, C) \in Configs \X SUBSET W
  <2>1. x[1] \in Configs /\ x[2] \in SUBSET W /\ C[t] \in Commands \cup {"low"}
    BY DEF PairsOK, CommandsOK
  <2>2. Apply(C[t], x[1]) \in Configs
    BY <2>1, ApplyType
  <2> QED
    BY <2>1, <2>2 DEF Grown
<1> QED
  BY <1>1, GrowMembers DEF PairsOK

(* A pair that appears in a round is there in the round its number of      *)
(* writes names, or earlier: each round puts one more write in the order.  *)
LEMMA RoundsPairs ==
  ASSUME NEW P, NEW W, IsFiniteSet(W), NEW C, PairsOK(P, W), CommandsOK(W, C)
  PROVE  LET N == Cardinality(W)
             R == Rounds(P, W, C)
         IN  \A n \in 0 .. N :
               /\ P \subseteq R[n] /\ PairsOK(R[n], W)
               /\ \A m \in 0 .. n : R[m] \subseteq R[n]
               /\ \A x \in R[n] : \E k \in 0 .. n : k <= Cardinality(x[2]) /\ x \in R[k]
<1> DEFINE N == Cardinality(W)
           R == Rounds(P, W, C)
           Good(n) == /\ P \subseteq R[n] /\ PairsOK(R[n], W)
                      /\ \A m \in 0 .. n : R[m] \subseteq R[n]
                      /\ \A x \in R[n] :
                           \E k \in 0 .. n : k <= Cardinality(x[2]) /\ x \in R[k]
           T == {n \in 0 .. N : Good(n)}
<1>1. /\ N \in Nat /\ R[0] = P
      /\ \A n \in 0 .. N - 1 : R[n + 1] = Grow(R[n], W, C)
  BY RoundsStep
<1> HIDE DEF N, R
<1>2. \A S \in SUBSET W : IsFiniteSet(S) /\ Cardinality(S) \in Nat
  BY FS_Subset, FS_CardinalityType
<1>3. 0 \in T
  <2>1. \A x \in P : Cardinality(x[2]) \in Nat
    BY <1>2 DEF PairsOK
  <2> QED
    BY <1>1, <2>1
<1>4. ASSUME NEW n \in 0 .. N - 1, n \in T
      PROVE  n + 1 \in T
  <2>0. n \in Nat /\ n + 1 \in 0 .. N /\ Good(n) /\ R[n + 1] = Grow(R[n], W, C)
    BY <1>1, <1>4
  <2>1. PairsOK(R[n + 1], W)
    BY <2>0, GrowPairs
  <2>2. R[n] \subseteq R[n + 1]
    BY <2>0, GrowMembers
  <2>3. ASSUME NEW m \in 0 .. n + 1 PROVE R[m] \subseteq R[n + 1]
    <3>1. m \in 0 .. n \/ m = n + 1
      BY <2>0
    <3> QED
      BY <2>0, <2>2, <3>1
  <2>4. ASSUME NEW y \in R[n + 1]
        PROVE  \E k \in 0 .. n + 1 : k <= Cardinality(y[2]) /\ y \in R[k]
    <3>1. CASE y \in R[n]
      BY <2>0, <3>1
    <3>2. ASSUME NEW x \in R[n], NEW t \in W, t \notin x[2], y = Grown(x, t, C)
          PROVE  \E k \in 0 .. n + 1 : k <= Cardinality(y[2]) /\ y \in R[k]
      <4>1. PICK k \in 0 .. n : k <= Cardinality(x[2]) /\ x \in R[k]
        BY <2>0
      <4>2. x[2] \in SUBSET W /\ y[2] = x[2] \cup {t}
        BY <2>0, <3>2 DEF PairsOK, Grown
      <4>3. Cardinality(y[2]) = Cardinality(x[2]) + 1
        BY <1>2, <3>2, <4>2, FS_AddElement
      <4>4. k \in 0 .. N - 1 /\ k + 1 \in 0 .. n + 1
        BY <1>1, <2>0
      <4>5. y \in R[k + 1]
        BY <1>1, <3>2, <4>1, <4>4, GrowMembers
      <4>6. k + 1 <= Cardinality(y[2])
        BY <1>2, <4>1, <4>2, <4>3
      <4> QED
        BY <4>4, <4>5, <4>6
    <3> QED
      BY <2>0, <3>1, <3>2, GrowMembers
  <2> QED
    BY <2>0, <2>1, <2>2, <2>3, <2>4
<1> HIDE DEF T
<1>5. \A n \in 0 .. N : n \in T
  BY <1>1, <1>3, <1>4, UpTo
<1> QED
  BY <1>5 DEF T, N, R

(* After as many rounds as there are writes nothing is left to add.        *)
LEMMA RoundsClosed ==
  ASSUME NEW P, NEW W, IsFiniteSet(W), NEW C, PairsOK(P, W), CommandsOK(W, C)
  PROVE  LET O == Rounds(P, W, C)[Cardinality(W)]
         IN  /\ P \subseteq O /\ PairsOK(O, W)
             /\ \A x \in O, t \in W : t \notin x[2] => Grown(x, t, C) \in O
<1> DEFINE N == Cardinality(W)
           R == Rounds(P, W, C)
<1>1. /\ N \in Nat
      /\ \A n \in 0 .. N - 1 : R[n + 1] = Grow(R[n], W, C)
  BY RoundsStep
<1>2. \A n \in 0 .. N :
        /\ P \subseteq R[n] /\ PairsOK(R[n], W)
        /\ \A m \in 0 .. n : R[m] \subseteq R[n]
        /\ \A x \in R[n] : \E k \in 0 .. n : k <= Cardinality(x[2]) /\ x \in R[k]
  BY RoundsPairs
<1> HIDE DEF R
<1>3. ASSUME NEW x \in R[N], NEW t \in W, t \notin x[2]
      PROVE  Grown(x, t, C) \in R[N]
  <2>1. x[2] \in SUBSET W /\ x[2] # W
    BY <1>1, <1>2, <1>3 DEF PairsOK
  <2>2. Cardinality(x[2]) \in Nat /\ Cardinality(x[2]) < N
    <3>1. IsFiniteSet(x[2]) /\ Cardinality(x[2]) <= N /\ (Cardinality(x[2]) = N => x[2] = W)
      BY <2>1, FS_Subset
    <3>2. Cardinality(x[2]) \in Nat
      BY <3>1, FS_CardinalityType
    <3> QED
      BY <1>1, <2>1, <3>1, <3>2
  <2>3. PICK k \in 0 .. N : k <= Cardinality(x[2]) /\ x \in R[k]
    BY <1>1, <1>2
  <2>4. k \in 0 .. N - 1 /\ k + 1 \in 0 .. N
    BY <1>1, <2>2, <2>3
  <2>5. Grown(x, t, C) \in R[k + 1]
    BY <1>1, <1>3, <2>3, <2>4, GrowMembers
  <2> QED
    BY <1>1, <1>2, <2>4, <2>5
<1> QED
  BY <1>1, <1>2, <1>3 DEF R

(* With more writes in progress there are only more orders.                *)
LEMMA RoundsWiden ==
  ASSUME NEW P, NEW W, IsFiniteSet(W), NEW C, PairsOK(P, W), CommandsOK(W, C),
         NEW V, IsFiniteSet(V), NEW D, W \subseteq V, CommandsOK(V, D),
         \A t \in W : D[t] = C[t]
  PROVE  Rounds(P, W, C)[Cardinality(W)] \subseteq Rounds(P, V, D)[Cardinality(V)]
<1> DEFINE N == Cardinality(W)
           R == Rounds(P, W, C)
           O == Rounds(P, V, D)[Cardinality(V)]
           T == {n \in 0 .. N : R[n] \subseteq O}
<1>1. /\ N \in Nat /\ R[0] = P
      /\ \A n \in 0 .. N - 1 : R[n + 1] = Grow(R[n], W, C)
  BY RoundsStep
<1>2. /\ P \subseteq O
      /\ \A x \in O, t \in V : t \notin x[2] => Grown(x, t, D) \in O
  <2>1. PairsOK(P, V)
    BY DEF PairsOK
  <2> QED
    BY <2>1, RoundsClosed
<1> HIDE DEF N, R, O
<1>3. 0 \in T
  BY <1>1, <1>2
<1>4. ASSUME NEW n \in 0 .. N - 1, n \in T
      PROVE  n + 1 \in T
  <2>1. n + 1 \in 0 .. N /\ R[n] \subseteq O /\ R[n + 1] = Grow(R[n], W, C)
    BY <1>1, <1>4
  <2>2. ASSUME NEW x \in R[n], NEW t \in W, t \notin x[2]
        PROVE  Grown(x, t, C) \in O
    <3>1. Grown(x, t, C) = Grown(x, t, D)
      BY DEF Grown
    <3> QED
      BY <1>2, <2>1, <2>2, <3>1
  <2>3. R[n + 1] \subseteq O
    BY <2>1, <2>2, GrowMembers
  <2> QED
    BY <2>1, <2>3
<1> HIDE DEF T
<1>5. N \in T
  BY <1>1, <1>3, <1>4, UpTo
<1> QED
  BY <1>5 DEF T, N, R, O

-----------------------------------------------------------------------------
(* The writers whose direction is set, and what their command leaves on an *)
(* output.                                                                 *)
Directed == {t \in Threads : pc[t] \in {"dr_load", "dr_store"}}
Asked(t) == IF cmd[t] = "1" THEN HighPin ELSE LowPin

(* A command for an input ends with the direction; the loader's "low"      *)
(* begins after it.                                                        *)
CmdOK(t) == /\ pc[t] \in {"ddr_load", "ddr_store"} => cmd[t] \in Commands
            /\ pc[t] \in {"dr_load", "dr_store"} => cmd[t] \in {"0", "1", "low"}
            /\ cmd[t] = "low" => t = Loader

CmdInv == \A t \in Threads : CmdOK(t)
PossInv == PairsOK(poss, Writers)

(* For the property to hold when the last write returns: any set of the    *)
(* writes can be the ones in the order so far; as an input the pin is as   *)
(* if those with the direction set had gone first and an input command     *)
(* last, as an output it can be left by each of them going last.           *)
OrderInv ==
  Writers # {} =>
    /\ \A S \in SUBSET Writers : \E c \in Configs : <<c, S>> \in Orders
    /\ "A7" \notin ddr => <<InputPin, Directed>> \in Orders
    /\ "A7" \in ddr => \A u \in Directed : <<Asked(u), Directed>> \in Orders
    /\ "A7" \in ddr /\ Directed = {} => <<Config, {}>> \in Orders

LEMMA ThreadsFinite ==
  IsFiniteSet(Threads) /\ IsFiniteSet(Writers) /\ IsFiniteSet(Writers')
<1>1. IsFiniteSet(Procs)
  BY GpioRegAssumption
<1>2. IsFiniteSet(Threads)
  BY <1>1, FS_AddElement DEF Threads
<1>3. Writers \subseteq Threads /\ Writers' \subseteq Threads
  BY DEF Writers
<1> QED
  BY <1>2, <1>3, FS_Subset

LEMMA WritersHaveCommands ==
  /\ CmdInv => CommandsOK(Writers, cmd)
  /\ CmdInv' => CommandsOK(Writers', cmd')
BY DEF CmdInv, CmdOK, CommandsOK, Commands, Writers, WritePCs

LEMMA OrdersClosed ==
  ASSUME CmdInv, PossInv
  PROVE  /\ poss \subseteq Orders /\ PairsOK(Orders, Writers)
         /\ \A c, S : \A t \in Writers :
              <<c, S>> \in Orders /\ t \notin S => <<Apply(cmd[t], c), S \cup {t}>> \in Orders
<1> DEFINE O == Rounds(poss, Writers, cmd)[Cardinality(Writers)]
<1>1. O = Orders
  BY OrdersAreRounds
<1>2. /\ poss \subseteq O /\ PairsOK(O, Writers)
      /\ \A x \in O, t \in Writers : t \notin x[2] => Grown(x, t, cmd) \in O
  BY ThreadsFinite, WritersHaveCommands, RoundsClosed DEF PossInv
<1> HIDE DEF O
<1> QED
  BY <1>1, <1>2 DEF Grown

LEMMA OrdersClosedNext ==
  ASSUME CmdInv', PossInv'
  PROVE  /\ poss' \subseteq Orders'
         /\ \A c, S : \A t \in Writers' :
              <<c, S>> \in Orders' /\ t \notin S =>
                <<Apply(cmd'[t], c), S \cup {t}>> \in Orders'
<1> DEFINE O == Rounds(poss', Writers', cmd')[Cardinality(Writers')]
<1>1. O = Orders'
  BY DEF Orders, Extend, Extended, Grown, Grow, IsRounds, Rounds
<1>2. /\ poss' \subseteq O
      /\ \A x \in O, t \in Writers' : t \notin x[2] => Grown(x, t, cmd') \in O
  BY ThreadsFinite, WritersHaveCommands, RoundsClosed DEF PossInv
<1> HIDE DEF O
<1> QED
  BY <1>1, <1>2 DEF Grown

LEMMA OrdersWiden ==
  ASSUME CmdInv, CmdInv', PossInv, poss' = poss, Writers \subseteq Writers',
         \A t \in Writers : cmd'[t] = cmd[t]
  PROVE  Orders \subseteq Orders'
<1>1. Orders = Rounds(poss, Writers, cmd)[Cardinality(Writers)]
  BY OrdersAreRounds
<1>2. Orders' = Rounds(poss', Writers', cmd')[Cardinality(Writers')]
  BY DEF Orders, Extend, Extended, Grown, Grow, IsRounds, Rounds
<1>3. Rounds(poss, Writers, cmd)[Cardinality(Writers)]
        \subseteq Rounds(poss, Writers', cmd')[Cardinality(Writers')]
  BY ThreadsFinite, WritersHaveCommands, RoundsWiden DEF PossInv
<1> QED
  BY <1>1, <1>2, <1>3

-----------------------------------------------------------------------------
(* A thread moves: who writes then, and whose direction is set.            *)
LEMMA WritersMove ==
  ASSUME pc \in [Threads -> PCs], NEW t \in Threads, NEW l, pc' = [pc EXCEPT ![t] = l]
  PROVE  /\ Writers' = IF l \in WritePCs THEN Writers \cup {t} ELSE Writers \ {t}
         /\ Directed' = IF l \in {"dr_load", "dr_store"} THEN Directed \cup {t}
                        ELSE Directed \ {t}
BY DEF Writers, Directed

LEMMA DirectedWrite == Directed \subseteq Writers
BY DEF Directed, Writers, WritePCs

LEMMA NextCmdInv == TypeOK /\ CmdInv /\ [Next]_vars => CmdInv'
<1> SUFFICES ASSUME TypeOK, CmdInv, [Next]_vars, NEW u \in Threads
             PROVE  CmdOK(u)'
  BY DEF CmdInv
<1>0. /\ pc \in [Threads -> PCs] /\ cmd \in [Threads -> Commands \cup {"low", "none"}]
      /\ Loader \in Threads /\ Procs \subseteq Threads
      /\ CmdOK(u)
  BY TypeParts DEF CmdInv, Threads
<1>1. CASE UNCHANGED vars \/ Mapped
  BY <1>0, <1>1 DEF vars, Mapped, CmdOK
<1>2. ASSUME NEW t \in Threads, NEW c \in Commands \cup {"low"}, Begin(t, c),
             c = "low" => t = Loader
      PROVE  CmdOK(u)'
  BY <1>0, <1>2 DEF Begin, CmdOK, Commands
<1>3. ASSUME NEW t \in Threads, LoadDdr(t) \/ LoadDr(t)
      PROVE  CmdOK(u)'
  BY <1>0, <1>3 DEF LoadDdr, LoadDr, CmdOK
<1>4. ASSUME NEW t \in Threads, Finish(t)
      PROVE  CmdOK(u)'
  BY <1>0, <1>4 DEF Finish, CmdOK
<1>5. ASSUME NEW t \in Threads, StoreDdr(t) \/ StoreDr(t)
      PROVE  CmdOK(u)'
  <2>1. CASE Finish(t)
    BY <1>4, <2>1
  <2>2. CASE ~Finish(t)
    BY <1>0, <1>5, <2>2 DEF StoreDdr, StoreDr, CmdOK, Commands
  <2> QED
    BY <2>1, <2>2
<1>6. ASSUME NEW p \in Procs, Read(p)
      PROVE  CmdOK(u)'
  BY <1>0, <1>6 DEF Read, ReadDdr, ReadDr, ReadExt, CmdOK
<1>7. ASSUME NEW bit \in BOOLEAN, Kernel(bit)
      PROVE  CmdOK(u)'
  BY <1>0, <1>7 DEF Kernel, CmdOK
<1> QED
  BY <1>0, <1>1, <1>2, <1>3, <1>5, <1>6, <1>7
  DEF Next, Step, Write, InitHigh, InitLow, Exit, Commands

(* A write returns: its pairs stay, without it.                            *)
LEMMA Returning ==
  ASSUME CmdInv, CmdInv', PossInv, NEW t \in Writers, Writers' = Writers \ {t}, Returned(t)
  PROVE  /\ PossInv'
         /\ Writers' # {} => \A c, S : <<c, S>> \in Orders /\ t \in S =>
                                    <<c, S \ {t}>> \in Orders'
<1>1. PairsOK(Orders, Writers)
  BY OrdersClosed
<1>2. CASE Writers = {t}
  BY <1>2 DEF Returned, PossInv, PairsOK
<1>3. CASE Writers # {t}
  <2>1. poss' = {<<x[1], x[2] \ {t}>> : x \in {y \in Orders : t \in y[2]}}
    BY <1>3 DEF Returned
  <2>2. PossInv'
    BY <1>1, <2>1 DEF PossInv, PairsOK
  <2>3. ASSUME NEW c, NEW S, <<c, S>> \in Orders, t \in S
        PROVE  <<c, S \ {t}>> \in poss'
    <3>1. <<c, S>> \in {y \in Orders : t \in y[2]}
      BY <2>3
    <3> QED
      BY <2>1, <3>1
  <2> QED
    BY <2>2, <2>3, OrdersClosedNext
<1> QED
  BY <1>2, <1>3

(* A write begins.                                                         *)
LEMMA Beginning ==
  ASSUME TypeOK, CmdInv, CmdInv', PossInv, OrderInv,
         NEW t \in Threads, NEW c \in Commands \cup {"low"}, Begin(t, c),
         c = "low" => t = Loader
  PROVE  PossInv' /\ OrderInv'
<1>0. /\ pc \in [Threads -> PCs] /\ cmd \in [Threads -> Commands \cup {"low", "none"}]
      /\ pc[t] = "idle" /\ cmd' = [cmd EXCEPT ![t] = c]
      /\ pc' = [pc EXCEPT ![t] = IF c = "low" THEN "dr_load" ELSE "ddr_load"]
      /\ poss' = IF Writers = {} THEN {<<Config, {}>>} ELSE poss
      /\ UNCHANGED <<ddr, dr>>
  BY TypeParts DEF Begin, Invoked, registers
<1>1. /\ Writers' = Writers \cup {t} /\ t \notin Writers
      /\ Directed' = IF c = "low" THEN Directed \cup {t} ELSE Directed
      /\ t \notin Directed /\ Directed \subseteq Writers
  BY <1>0, WritersMove DEF WritePCs, Writers, Directed
<1>2. PossInv'
  BY <1>0, <1>1, ConfigValues DEF PossInv, PairsOK
<1>3. /\ poss' \subseteq Orders'
      /\ \A k, S : \A u \in Writers' :
           <<k, S>> \in Orders' /\ u \notin S => <<Apply(cmd'[u], k), S \cup {u}>> \in Orders'
  BY <1>2, OrdersClosedNext
<1>4. Config' = Config
  BY <1>0 DEF Config
<1>5. CASE Writers = {}
  <2>1. <<Config, {}>> \in Orders' /\ <<Apply(c, Config), {t}>> \in Orders'
    <3>1. <<Config, {}>> \in Orders'
      BY <1>0, <1>3, <1>5
    <3>2. cmd'[t] = c /\ t \in Writers' /\ {} \cup {t} = {t}
      BY <1>0, <1>1
    <3> QED
      BY <1>3, <3>1, <3>2
  <2>2. ASSUME NEW S \in SUBSET Writers'
        PROVE  \E k \in Configs : <<k, S>> \in Orders'
    <3>1. S = {} \/ S = {t}
      BY <1>1, <1>5
    <3>2. Config \in Configs /\ Apply(c, Config) \in Configs
      BY ConfigValues, ApplyType
    <3> QED
      BY <2>1, <3>1, <3>2
  <2>3. CASE c = "low"
    <3>1. Directed' = {t} /\ Asked(t)' = LowPin
      BY <1>0, <1>1, <1>5, <2>3 DEF Asked
    <3>2. /\ "A7" \notin ddr => Apply(c, Config) = InputPin
          /\ "A7" \in ddr => Apply(c, Config) = LowPin
      BY <2>3, ConfigValues, ApplyValues
    <3> QED
      BY <1>0, <1>2, <2>1, <2>2, <3>1, <3>2 DEF OrderInv
  <2>4. CASE c # "low"
    <3>1. Directed' = {}
      BY <1>1, <1>5, <2>4
    <3> QED
      BY <1>0, <1>2, <1>4, <2>1, <2>2, <3>1, ConfigValues DEF OrderInv
  <2> QED
    BY <2>3, <2>4
<1>6. CASE Writers # {}
  <2>1. /\ Orders \subseteq Orders'
        /\ \A u \in Writers : cmd'[u] = cmd[u]
        /\ cmd'[t] = c /\ t \in Writers'
    <3>1. \A u \in Writers : cmd'[u] = cmd[u]
      BY <1>0, <1>1
    <3> QED
      BY <1>0, <1>1, <1>6, <3>1, OrdersWiden
  <2>2. /\ \A S \in SUBSET Writers : \E k \in Configs : <<k, S>> \in Orders'
        /\ "A7" \notin ddr => <<InputPin, Directed>> \in Orders'
        /\ "A7" \in ddr => \A u \in Directed : <<Asked(u), Directed>> \in Orders'
        /\ "A7" \in ddr /\ Directed = {} => <<Config, {}>> \in Orders'
    BY <1>6, <2>1 DEF OrderInv
  <2>3. ASSUME NEW S \in SUBSET Writers'
        PROVE  \E k \in Configs : <<k, S>> \in Orders'
    <3>1. CASE t \notin S
      BY <1>1, <2>2, <3>1
    <3>2. CASE t \in S
      <4>1. PICK k \in Configs : <<k, S \ {t}>> \in Orders'
        BY <1>1, <2>2
      <4>2. <<Apply(c, k), (S \ {t}) \cup {t}>> \in Orders' /\ (S \ {t}) \cup {t} = S
        BY <1>3, <2>1, <3>2, <4>1
      <4>3. Apply(c, k) \in Configs
        BY ApplyType
      <4> QED
        BY <4>2, <4>3
    <3> QED
      BY <3>1, <3>2
  <2>4. \A u \in Directed : Asked(u)' = Asked(u)
    BY <1>1, <2>1 DEF Asked
  <2>5. CASE c # "low"
    BY <1>0, <1>1, <1>2, <1>4, <2>2, <2>3, <2>4, <2>5 DEF OrderInv
  <2>6. CASE c = "low"
    <3>1. Directed' = Directed \cup {t} /\ Asked(t)' = LowPin
      BY <1>1, <2>1, <2>6 DEF Asked
    <3>2. "A7" \notin ddr => <<InputPin, Directed \cup {t}>> \in Orders'
      BY <1>1, <1>3, <2>1, <2>2, <2>6, ApplyValues
    <3>3. ASSUME "A7" \in ddr, NEW u \in Directed
          PROVE  <<Asked(u), Directed \cup {t}>> \in Orders'
      <4> DEFINE S == (Directed \ {u}) \cup {t}
      <4>1. S \in SUBSET Writers' /\ u \notin S /\ S \cup {u} = Directed \cup {t}
            /\ u \in Writers'
        BY <1>1, <3>3
      <4>2. PICK k \in Configs : <<k, S>> \in Orders'
        BY <2>3, <4>1
      <4>3. cmd'[u] \in {"0", "1"} /\ cmd'[u] = cmd[u]
        <5>1. CmdOK(u) /\ pc[u] \in {"dr_load", "dr_store"} /\ u # t /\ u \in Writers
          BY <1>1, <3>3 DEF CmdInv, Directed
        <5>2. cmd[u] # "low"
          BY <2>6, <5>1 DEF CmdOK
        <5> QED
          BY <2>1, <5>1, <5>2 DEF CmdOK
      <4>4. Apply(cmd'[u], k) = Asked(u)
        BY <4>3, ApplyValues DEF Asked
      <4> HIDE DEF S
      <4> QED
        BY <1>3, <4>1, <4>2, <4>4
    <3>4. "A7" \in ddr => <<LowPin, Directed \cup {t}>> \in Orders'
      <4>1. ASSUME "A7" \in ddr
            PROVE  \E k \in {LowPin, HighPin} : <<k, Directed>> \in Orders'
        <5>1. CASE Directed = {}
          BY <2>2, <4>1, <5>1, ConfigValues
        <5>2. CASE Directed # {}
          BY <2>2, <4>1, <5>2 DEF Asked
        <5> QED
          BY <5>1, <5>2
      <4> QED
        BY <1>1, <1>3, <2>1, <2>6, <4>1, ApplyValues
    <3> QED
      BY <1>0, <1>2, <2>3, <2>4, <3>1, <3>2, <3>3, <3>4 DEF OrderInv
  <2> QED
    BY <2>5, <2>6
<1> QED
  BY <1>5, <1>6

(* The direction is set and the write goes on.                             *)
LEMMA Directing ==
  ASSUME TypeOK, CmdInv, CmdInv', PossInv, OrderInv,
         NEW t \in Threads, StoreDdr(t), cmd[t] # "2"
  PROVE  PossInv' /\ OrderInv'
<1>0. /\ pc \in [Threads -> PCs] /\ pc[t] = "ddr_store"
      /\ pc' = [pc EXCEPT ![t] = "dr_load"] /\ UNCHANGED <<cmd, poss>>
      /\ "A7" \in ddr' /\ cmd[t] \in {"0", "1"}
  BY TypeParts DEF StoreDdr, history, CmdInv, CmdOK, Commands
<1>1. /\ Writers' = Writers /\ t \in Writers /\ t \notin Directed
      /\ Directed' = Directed \cup {t} /\ Directed \subseteq Writers
  BY <1>0, WritersMove DEF WritePCs, Writers, Directed
<1>2. PossInv' /\ Orders' = Orders
  <2>1. Orders' = Orders
    BY <1>0, <1>1 DEF Orders, Extend, Extended
  <2> QED
    BY <1>0, <1>1, <2>1 DEF PossInv
<1>3. \A S \in SUBSET Writers : \E c \in Configs : <<c, S>> \in Orders
  BY <1>1 DEF OrderInv
<1>4. ASSUME NEW u \in Directed \cup {t}
      PROVE  <<Asked(u), Directed \cup {t}>> \in Orders
  <2> DEFINE S == (Directed \cup {t}) \ {u}
  <2>1. S \in SUBSET Writers /\ u \in Writers /\ u \notin S /\ S \cup {u} = Directed \cup {t}
    BY <1>1
  <2>2. CmdOK(u) /\ cmd[u] \in {"0", "1", "low"}
    BY <1>0, <2>1 DEF CmdInv, CmdOK, Writers, Directed
  <2>3. CASE cmd[u] # "low"
    <3>1. PICK c \in Configs : <<c, S>> \in Orders
      BY <1>3, <2>1
    <3>2. Apply(cmd[u], c) = Asked(u)
      BY <2>2, <2>3, ApplyValues DEF Asked
    <3> HIDE DEF S
    <3> QED
      BY <2>1, <3>1, <3>2, OrdersClosed
  <2>4. CASE cmd[u] = "low"
    (* t goes just before it.                                              *)
    <3>1. u # t /\ t \in S /\ S \ {t} \in SUBSET Writers /\ (S \ {t}) \cup {t} = S
      BY <1>0, <1>1, <2>1, <2>4
    <3>2. PICK c \in Configs : <<c, S \ {t}>> \in Orders
      BY <1>3, <3>1
    <3>3. <<Apply(cmd[t], c), S>> \in Orders /\ Apply(cmd[t], c) \in {LowPin, HighPin}
      <4>1. <<Apply(cmd[t], c), (S \ {t}) \cup {t}>> \in Orders
        BY <1>1, <3>2, OrdersClosed
      <4> QED
        BY <1>0, <3>1, <4>1, ApplyValues
    <3>4. Asked(u) = LowPin /\ Apply(cmd[u], Apply(cmd[t], c)) = LowPin
      BY <2>4, <3>3, ApplyValues DEF Asked
    <3> HIDE DEF S
    <3> QED
      BY <2>1, <3>3, <3>4, OrdersClosed
  <2> QED
    BY <2>3, <2>4
<1>5. \A u : Asked(u)' = Asked(u)
  BY <1>0 DEF Asked
<1>6. OrderInv'
  BY <1>0, <1>1, <1>2, <1>3, <1>4, <1>5 DEF OrderInv
<1> QED
  BY <1>2, <1>6

(* A write returns, with the pin as some order leaves it, and what is kept *)
(* of the orders serves the writes still in progress.                      *)
LEMMA Storing ==
  ASSUME TypeOK, CmdInv, CmdInv', PossInv, OrderInv, NEW t \in Threads,
         (StoreDdr(t) /\ cmd[t] = "2") \/ StoreDr(t)
  PROVE  /\ PossInv' /\ OrderInv' /\ Writers' = Writers \ {t} /\ t \in Writers
         /\ Writers = {t} => \E c \in Configs : <<c, {t}>> \in Orders /\ c = Config'
<1>0. /\ pc \in [Threads -> PCs] /\ pc[t] \in {"ddr_store", "dr_store"}
      /\ pc' = [pc EXCEPT ![t] = "idle"] /\ Finish(t)
      /\ cmd' = [cmd EXCEPT ![t] = "none"] /\ Returned(t)
      /\ cmd \in [Threads -> Commands \cup {"low", "none"}]
  BY TypeParts DEF StoreDdr, StoreDr, Finish
<1>1. /\ Writers' = Writers \ {t} /\ t \in Writers
      /\ Directed' = Directed \ {t} /\ Directed \subseteq Writers
  BY <1>0, WritersMove DEF WritePCs, Writers, Directed
<1>2. /\ PossInv'
      /\ Writers' # {} => \A c, S : <<c, S>> \in Orders /\ t \in S =>
                                 <<c, S \ {t}>> \in Orders'
  BY <1>0, <1>1, Returning
<1>3. \A S \in SUBSET Writers : \E c \in Configs : <<c, S>> \in Orders
  BY <1>1 DEF OrderInv
<1>4. ASSUME Writers' # {}, NEW S \in SUBSET Writers'
      PROVE  \E c \in Configs : <<c, S>> \in Orders'
  <2>1. S \cup {t} \in SUBSET Writers /\ (S \cup {t}) \ {t} = S
    BY <1>1
  <2> QED
    BY <1>2, <1>3, <1>4, <2>1
<1>5. \A u \in Directed' : Asked(u)' = Asked(u)
  BY <1>0, <1>1 DEF Asked, Directed
<1>6. CASE StoreDdr(t) /\ cmd[t] = "2"
  <2>1. "A7" \notin ddr' /\ t \notin Directed /\ Config' = InputPin
    <3>1. "A7" \notin ddr' /\ t \notin Directed
      BY <1>6 DEF StoreDdr, Directed
    <3> QED
      BY <3>1, ConfigValues
  <2>2. ASSUME NEW S \in SUBSET Writers, t \notin S
        PROVE  <<InputPin, S \cup {t}>> \in Orders
    <3>1. PICK c \in Configs : <<c, S>> \in Orders
      BY <1>3
    <3>2. Apply(cmd[t], c) = InputPin
      BY <1>6, ApplyValues
    <3> QED
      BY <1>1, <2>2, <3>1, <3>2, OrdersClosed
  <2>3. OrderInv'
    <3>1. ASSUME Writers' # {} PROVE <<InputPin, Directed>> \in Orders'
      <4>1. (Directed \cup {t}) \ {t} = Directed
        BY <2>1
      <4> QED
        BY <1>1, <1>2, <2>1, <2>2, <3>1, <4>1
    <3>2. Directed' = Directed
      BY <1>1, <2>1
    <3> QED
      BY <1>4, <2>1, <3>1, <3>2 DEF OrderInv
  <2>4. InputPin \in Configs /\ <<InputPin, {} \cup {t}>> \in Orders /\ {} \cup {t} = {t}
    BY <2>2 DEF Configs
  <2> QED
    BY <1>1, <1>2, <2>1, <2>3, <2>4
<1>7. CASE StoreDr(t)
  <2>1. ddr' = ddr /\ t \in Directed /\ ("A7" \in dr' <=> cmd[t] = "1")
    BY <1>7 DEF StoreDr, Directed
  <2>2. /\ "A7" \notin ddr => <<InputPin, Directed>> \in Orders /\ Config' = InputPin
        /\ "A7" \in ddr => <<Asked(t), Directed>> \in Orders /\ Config' = Asked(t)
    <3>1. /\ "A7" \notin ddr => Config' = InputPin
          /\ "A7" \in ddr => Config' = Asked(t)
      BY <2>1, ConfigValues DEF Asked
    <3> QED
      BY <1>1, <2>1, <3>1 DEF OrderInv
  <2>3. OrderInv'
    <3>1. ASSUME Writers' # {}
          PROVE  /\ "A7" \notin ddr => <<InputPin, Directed \ {t}>> \in Orders'
                 /\ "A7" \in ddr => <<Config', Directed \ {t}>> \in Orders'
                 /\ "A7" \in ddr => \A u \in Directed :
                                      <<Asked(u), Directed \ {t}>> \in Orders'
      BY <1>1, <1>2, <2>1, <2>2, <3>1 DEF OrderInv
    <3> QED
      BY <1>1, <1>4, <1>5, <2>1, <3>1 DEF OrderInv
  <2>4. ASSUME Writers = {t}
        PROVE  \E c \in Configs : <<c, {t}>> \in Orders /\ c = Config'
    <3>1. Directed = {t} /\ InputPin \in Configs /\ Asked(t) \in Configs
      BY <1>1, <2>1, <2>4 DEF Asked, Configs
    <3> QED
      BY <2>2, <3>1
  <2> QED
    BY <1>1, <1>2, <2>3, <2>4
<1> QED
  BY <1>6, <1>7

(* Everything else leaves the writers, their orders and the pin alone.     *)
LEMMA Waiting ==
  ASSUME PossInv, OrderInv, UNCHANGED <<poss, cmd, ddr>>, "A7" \in dr' <=> "A7" \in dr,
         Writers' = Writers, Directed' = Directed
  PROVE  PossInv' /\ OrderInv'
<1>1. Orders' = Orders
  BY DEF Orders, Extend, Extended
<1>2. Config' = Config
  BY ConfigValues
<1>3. \A u : Asked(u)' = Asked(u)
  BY DEF Asked
<1> QED
  BY <1>1, <1>2, <1>3 DEF PossInv, OrderInv

LEMMA NextOrderInv ==
  ASSUME TypeOK, CmdInv, CmdInv', PossInv, OrderInv, [Next]_vars
  PROVE  /\ PossInv' /\ OrderInv'
         /\ Writers # {} /\ Writers' = {} =>
              \E x \in Orders : Writers \subseteq x[2] /\ x[1] = Config'
<1> DEFINE Goal == /\ PossInv' /\ OrderInv'
                   /\ Writers # {} /\ Writers' = {} =>
                        \E x \in Orders : Writers \subseteq x[2] /\ x[1] = Config'
<1>0. /\ pc \in [Threads -> PCs] /\ Loader \in Threads /\ Procs \subseteq Threads
  BY TypeParts DEF Threads
<1>1. ASSUME UNCHANGED <<poss, cmd, ddr>>, "A7" \in dr' <=> "A7" \in dr,
             Writers' = Writers, Directed' = Directed
      PROVE  Goal
  BY <1>1, Waiting
<1>2. ASSUME UNCHANGED <<registers, cmd, poss>>, NEW t \in Threads, NEW l,
             pc' = [pc EXCEPT ![t] = l],
             l \in WritePCs <=> pc[t] \in WritePCs,
             l \in {"dr_load", "dr_store"} <=> pc[t] \in {"dr_load", "dr_store"}
      PROVE  Goal
  <2>1. Writers' = Writers /\ Directed' = Directed
    BY <1>0, <1>2, WritersMove DEF Writers, Directed
  <2> QED
    BY <1>1, <1>2, <2>1 DEF registers
<1>3. ASSUME UNCHANGED vars \/ Mapped
      PROVE  Goal
  <2>1. UNCHANGED <<registers, pc, cmd, poss>>
    BY <1>3 DEF vars, Mapped, registers, history
  <2>2. Writers' = Writers /\ Directed' = Directed
    BY <2>1 DEF Writers, Directed
  <2> QED
    BY <1>1, <2>1, <2>2 DEF registers
<1>4. ASSUME NEW t \in Threads, NEW c \in Commands \cup {"low"}, Begin(t, c),
             c = "low" => t = Loader
      PROVE  Goal
  <2>1. PossInv' /\ OrderInv'
    BY <1>4, Beginning
  <2>2. t \in Writers'
    BY <1>0, <1>4, WritersMove DEF Begin, WritePCs
  <2> QED
    BY <2>1, <2>2
<1>5. ASSUME NEW t \in Threads, LoadDdr(t) \/ LoadDr(t)
      PROVE  Goal
  BY <1>2, <1>5 DEF LoadDdr, LoadDr, history, WritePCs
<1>6. ASSUME NEW t \in Threads, StoreDdr(t), cmd[t] # "2"
      PROVE  Goal
  <2>1. PossInv' /\ OrderInv'
    BY <1>6, Directing
  <2>2. t \in Writers'
    BY <1>0, <1>6, WritersMove DEF StoreDdr, WritePCs
  <2> QED
    BY <2>1, <2>2
<1>7. ASSUME NEW t \in Threads, (StoreDdr(t) /\ cmd[t] = "2") \/ StoreDr(t)
      PROVE  Goal
  <2>1. /\ PossInv' /\ OrderInv' /\ Writers' = Writers \ {t} /\ t \in Writers
        /\ Writers = {t} => \E c \in Configs : <<c, {t}>> \in Orders /\ c = Config'
    BY <1>7, Storing
  <2>2. ASSUME Writers' = {}
        PROVE  \E x \in Orders : Writers \subseteq x[2] /\ x[1] = Config'
    <3>1. Writers = {t}
      BY <2>1, <2>2
    <3>2. PICK c \in Configs : <<c, {t}>> \in Orders /\ c = Config'
      BY <2>1, <3>1
    <3> QED
      BY <3>1, <3>2
  <2> QED
    BY <2>1, <2>2
<1>8. ASSUME NEW p \in Procs, Read(p)
      PROVE  Goal
  <2>1. PICK l \in {"idle", "read_dr", "read_ext"} :
          /\ pc' = [pc EXCEPT ![p] = l] /\ pc[p] \in {"idle", "read_dr", "read_ext"}
          /\ UNCHANGED <<registers, cmd, poss>>
    BY <1>8 DEF Read, ReadDdr, ReadDr, ReadExt, history
  <2> QED
    BY <1>0, <1>2, <2>1 DEF WritePCs
<1>9. ASSUME NEW bit \in BOOLEAN, Kernel(bit)
      PROVE  Goal
  <2>1. UNCHANGED <<poss, cmd, ddr>> /\ ("A7" \in dr' <=> "A7" \in dr)
    BY <1>9 DEF Kernel, history
  <2>2. Writers' = Writers /\ Directed' = Directed
    BY <1>9 DEF Kernel, Writers, Directed
  <2> QED
    BY <1>1, <2>1, <2>2
<1> HIDE DEF Goal
<1>10. Goal
  <2>1. ASSUME NEW t \in Threads, Step(t)
        PROVE  Goal
    BY <1>5, <1>6, <1>7, <2>1 DEF Step
  <2>2. ASSUME NEW p \in Procs, NEW c \in Commands, Write(p, c)
        PROVE  Goal
    BY <1>0, <1>4, <2>2 DEF Write, Commands
  <2>3. ASSUME InitHigh \/ InitLow \/ Exit
        PROVE  Goal
    <3>1. PICK c \in {"1", "low"} : Begin(Loader, c)
      BY <2>3 DEF InitHigh, InitLow, Exit
    <3> QED
      BY <1>0, <1>4, <3>1 DEF Commands
  <2> QED
    BY <1>3, <1>8, <1>9, <2>1, <2>2, <2>3 DEF Next
<1> QED
  BY <1>10 DEF Goal

(* However many processes write at once without a lock, while init or exit *)
(* drives the pin too: when the last of the overlapping writes returns,    *)
(* the pin has the direction and level that some order of them leaves.     *)
THEOREM WritesSettle == Spec => SettledAsWritten
<1> DEFINE Inv == CmdInv /\ PossInv /\ OrderInv
           Settled == Writers # {} /\ Writers' = {} =>
                        \E x \in Orders : Writers \subseteq x[2] /\ x[1] = Config'
<1>1. Init => Inv
  BY DEF Init, CmdInv, CmdOK, PossInv, PairsOK, OrderInv, Writers, WritePCs, Commands
<1>2. TypeOK /\ Inv /\ [Next]_vars => Inv' /\ [Settled]_vars
  BY NextCmdInv, NextOrderInv
<1> HIDE DEF Inv
<1> QED
  BY <1>1, <1>2, InitTypeOK, NextTypeOK, PTL DEF Spec, SettledAsWritten
=============================================================================
