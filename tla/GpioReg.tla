------------------------------- MODULE GpioReg -------------------------------
(***************************************************************************)
(* The pin GPIO0_A7 behind its three registers, as ioremap_gpio_demo.c and *)
(* platform_gpiodrv.c use them: write and the load of the driver change    *)
(* the direction and the output register by read-modify-write, one access  *)
(* per step and no lock; read samples the three registers one after the    *)
(* other.  The registers hold a bit for each pin of the bank; another pin  *)
(* is an output of the kernel's GPIO driver, which changes its level in    *)
(* one step (one CPU, its read-modify-write runs with interrupts off).     *)
(***************************************************************************)
EXTENDS Naturals, FiniteSets

CONSTANTS Procs,       \* processes that write to and read from the device
          Loader       \* the thread in init or exit

ASSUME GpioRegAssumption == Loader \notin Procs /\ IsFiniteSet(Procs)

Pins == {"A7", "other"}
Threads == Procs \cup {Loader}
Commands == {"0", "1", "2"}      \* drive low, drive high, input

VARIABLES ddr, dr,     \* direction (1: output) and output register: sets of pins
          stage,       \* how far the driver is loaded
          pc,          \* where each thread is
          cmd,         \* the command a thread executes
          word,        \* the register value a thread has loaded
          seen,        \* direction and output bit sampled by a read
          answer,      \* what the last read of each process returned
          poss, pure,  \* history: see below
          neighbour    \* history: the levels the kernel's pin may have

registers == <<ddr, dr>>
history == <<poss, pure>>
vars == <<ddr, dr, stage, pc, cmd, word, seen, answer, poss, pure, neighbour>>

WritePCs == {"ddr_load", "ddr_store", "dr_load", "dr_store"}
ReadPCs == {"read_dr", "read_ext"}
Writers == {t \in Threads : pc[t] \in WritePCs}

(* What the pin shows: direction, and level if it is driven.               *)
Config == [out |-> "A7" \in ddr, high |-> "A7" \in ddr \cap dr]
Port(outside) == IF "A7" \in ddr THEN "A7" \in dr ELSE outside

NothingSeen == [out |-> FALSE, high |-> FALSE]

(* What a command asks for; "low" is the end of init and the whole of exit. *)
Apply(c, config) ==
  CASE c = "0" -> [out |-> TRUE, high |-> FALSE]
    [] c = "1" -> [out |-> TRUE, high |-> TRUE]
    [] c = "2" -> [out |-> FALSE, high |-> FALSE]
    [] c = "low" -> [config EXCEPT !.high = FALSE]

Init == /\ ddr \in {{"other"}, Pins} /\ dr \in SUBSET Pins
        /\ stage = "out"
        /\ pc = [t \in Threads |-> "idle"]
        /\ cmd = [t \in Threads |-> "none"]
        /\ word = [t \in Threads |-> {}]
        /\ seen = [p \in Procs |-> NothingSeen]
        /\ answer = [p \in Procs |-> [input |-> FALSE, value |-> FALSE]]
        /\ poss = {} /\ pure = [t \in Procs |-> FALSE]
        /\ neighbour = {"other" \in dr}

-----------------------------------------------------------------------------
(* History.  While writes are in progress, poss holds the configurations   *)
(* that some order of the writes so far can have left, each with the set   *)
(* of those in progress that are already in the order.  A write has to be  *)
(* in the order when it returns.                                           *)
Extended(x, t) == <<Apply(cmd[t], x[1]), x[2] \cup {t}>>
Extend(P) == P \cup UNION {{Extended(x, t) : t \in Writers \ x[2]} : x \in P}

Orders == LET rounds[n \in 0 .. Cardinality(Writers)] ==
                IF n = 0 THEN poss ELSE Extend(rounds[n - 1])
          IN  rounds[Cardinality(Writers)]

Invoked(t) == /\ poss' = IF Writers = {} THEN {<<Config, {}>>} ELSE poss
              /\ pure' = [p \in Procs |-> FALSE]

Returned(t) ==
  /\ poss' = IF Writers = {t} THEN {}
             ELSE {<<x[1], x[2] \ {t}>> : x \in {y \in Orders : t \in y[2]}}
  /\ UNCHANGED pure

-----------------------------------------------------------------------------
(* A command of a thread begins.                                           *)
Begin(t, c) == /\ pc[t] = "idle"
               /\ cmd' = [cmd EXCEPT ![t] = c]
               /\ pc' = [pc EXCEPT ![t] = IF c = "low" THEN "dr_load" ELSE "ddr_load"]
               /\ Invoked(t)
               /\ UNCHANGED <<registers, word, seen, answer, neighbour>>

(* gpio_demo_write with a valid command.  The node is there before init has *)
(* set up the pin, so a process can write while init still runs.           *)
Usable == stage \in {"mapped", "high", "sleeping", "low", "live"}

Write(p, c) == /\ Usable
               /\ Begin(p, c)
               /\ UNCHANGED stage

(* init drives the pin high, sleeps, drives it low; exit drives it low,    *)
(* and an open file keeps exit from running.  Mapped: node and mappings    *)
(* are there, the registers are still as init found them.                  *)
Mapped == /\ stage = "out"
          /\ stage' = "mapped"
          /\ UNCHANGED <<registers, pc, cmd, word, seen, answer, history, neighbour>>
InitHigh == stage = "mapped" /\ Begin(Loader, "1") /\ stage' = "high"
InitLow == stage = "sleeping" /\ Begin(Loader, "low") /\ stage' = "low"
Exit == /\ stage = "live" /\ \A p \in Procs : pc[p] = "idle"
        /\ Begin(Loader, "low") /\ stage' = "exit"

(* Faulty variant: init stops when it has driven the pin high.             *)
AfterCommandStuck == IF stage = "exit" THEN "out" ELSE stage

AfterCommand == CASE stage = "high" -> "sleeping"
                  [] stage = "low" -> "live"
                  [] stage = "exit" -> "out"

LoadDdr(t) == /\ pc[t] = "ddr_load"
              /\ word' = [word EXCEPT ![t] = ddr]
              /\ pc' = [pc EXCEPT ![t] = "ddr_store"]
              /\ UNCHANGED <<registers, stage, cmd, seen, answer,
                             history, neighbour>>

LoadDr(t) == /\ pc[t] = "dr_load"
             /\ word' = [word EXCEPT ![t] = dr]
             /\ pc' = [pc EXCEPT ![t] = "dr_store"]
             /\ UNCHANGED <<registers, stage, cmd, seen, answer,
                            history, neighbour>>

(* The last store of a command: the call returns.                          *)
Finish(t) == /\ pc' = [pc EXCEPT ![t] = "idle"]
             /\ cmd' = [cmd EXCEPT ![t] = "none"]
             /\ stage' = IF t = Loader THEN AfterCommand ELSE stage
             /\ Returned(t)

(* Faulty variant: = where the code has |= and &=.                         *)
StoreDdrWhole(t) ==
  /\ pc[t] = "ddr_store"
  /\ ddr' = IF cmd[t] = "2" THEN {} ELSE {"A7"}
  /\ IF cmd[t] = "2"
       THEN Finish(t)
       ELSE pc' = [pc EXCEPT ![t] = "dr_load"] /\ UNCHANGED <<stage, cmd, history>>
  /\ word' = [word EXCEPT ![t] = {}]
  /\ UNCHANGED <<dr, seen, answer, neighbour>>

StoreDdr(t) ==
  /\ pc[t] = "ddr_store"
  /\ ddr' = IF cmd[t] = "2" THEN word[t] \ {"A7"} ELSE word[t] \cup {"A7"}
  /\ IF cmd[t] = "2"
       THEN Finish(t)
       ELSE pc' = [pc EXCEPT ![t] = "dr_load"] /\ UNCHANGED <<stage, cmd, history>>
  /\ word' = [word EXCEPT ![t] = {}]
  /\ UNCHANGED <<dr, seen, answer, neighbour>>

(* Faulty variant: case '0' falls through into case '1'.                   *)
StoreDrNoBreak(t) ==
  /\ pc[t] = "dr_store"
  /\ dr' = IF cmd[t] = "low" THEN word[t] \ {"A7"} ELSE word[t] \cup {"A7"}
  /\ Finish(t)
  /\ word' = [word EXCEPT ![t] = {}]
  /\ UNCHANGED <<ddr, seen, answer, neighbour>>

StoreDr(t) ==
  /\ pc[t] = "dr_store"
  /\ dr' = IF cmd[t] = "1" THEN word[t] \cup {"A7"} ELSE word[t] \ {"A7"}
  /\ Finish(t)
  /\ word' = [word EXCEPT ![t] = {}]
  /\ UNCHANGED <<ddr, seen, answer, neighbour>>

-----------------------------------------------------------------------------
(* gpio_demo_read: three samples, then the answer.  The external port      *)
(* register shows the driven level, or what the board puts on an input.    *)
ReadDdr(p) == /\ Usable
              /\ pc[p] = "idle"
              /\ seen' = [seen EXCEPT ![p].out = "A7" \in ddr]
              /\ pc' = [pc EXCEPT ![p] = "read_dr"]
              /\ pure' = [pure EXCEPT ![p] = Writers = {}]
              /\ UNCHANGED <<registers, stage, cmd, word, answer, poss, neighbour>>

ReadDr(p) == /\ pc[p] = "read_dr"
             /\ seen' = [seen EXCEPT ![p].high = "A7" \in dr]
             /\ pc' = [pc EXCEPT ![p] = "read_ext"]
             /\ UNCHANGED <<registers, stage, cmd, word, answer,
                            history, neighbour>>

(* Faulty variant: the output bit is reported in both directions.          *)
ReadExtUnused(p, outside) ==
  /\ pc[p] = "read_ext"
  /\ answer' = [answer EXCEPT ![p] = [input |-> ~seen[p].out, value |-> seen[p].high]]
  /\ pc' = [pc EXCEPT ![p] = "idle"]
  /\ seen' = [seen EXCEPT ![p] = NothingSeen]
  /\ pure' = [pure EXCEPT ![p] = FALSE]
  /\ UNCHANGED <<registers, stage, cmd, word, poss, neighbour>>

ReadExt(p, outside) ==
  /\ pc[p] = "read_ext"
  /\ answer' = [answer EXCEPT ![p] =
                  [input |-> ~seen[p].out,
                   value |-> IF seen[p].out THEN seen[p].high ELSE Port(outside)]]
  /\ pc' = [pc EXCEPT ![p] = "idle"]
  /\ seen' = [seen EXCEPT ![p] = NothingSeen]
  /\ pure' = [pure EXCEPT ![p] = FALSE]
  /\ UNCHANGED <<registers, stage, cmd, word, poss, neighbour>>

-----------------------------------------------------------------------------
(* The kernel's GPIO driver on its own pin.                                *)
(* If some thread of this driver has loaded the register and not yet       *)
(* stored it, its store may undo the kernel's.                             *)
Kernel(bit) ==
  /\ dr' = IF bit THEN dr \cup {"other"} ELSE dr \ {"other"}
  /\ neighbour' = IF \E t \in Threads : pc[t] = "dr_store" THEN BOOLEAN ELSE {bit}
  /\ UNCHANGED <<ddr, stage, pc, cmd, word, seen, answer, history>>

Step(t) == LoadDdr(t) \/ StoreDdr(t) \/ LoadDr(t) \/ StoreDr(t)
Read(p) == ReadDdr(p) \/ ReadDr(p) \/ \E outside \in BOOLEAN : ReadExt(p, outside)

Next == \/ Mapped \/ InitHigh \/ InitLow \/ Exit
        \/ \E p \in Procs : (\E c \in Commands : Write(p, c)) \/ Read(p)
        \/ \E t \in Threads : Step(t)
        \/ \E bit \in BOOLEAN : Kernel(bit)

Spec == Init /\ [][Next]_vars

-----------------------------------------------------------------------------
(* Every variable has its type; a thread has a command exactly while it    *)
(* writes, and the loader writes exactly in the stages that do.            *)
TypeOK == /\ ddr \subseteq Pins /\ dr \subseteq Pins
          /\ stage \in {"out", "mapped", "high", "sleeping", "low", "live", "exit"}
          /\ pc \in [Threads -> {"idle"} \cup WritePCs \cup ReadPCs]
          /\ cmd \in [Threads -> Commands \cup {"low", "none"}]
          /\ word \in [Threads -> SUBSET Pins]
          /\ seen \in [Procs -> [out : BOOLEAN, high : BOOLEAN]]
          /\ answer \in [Procs -> [input : BOOLEAN, value : BOOLEAN]]
          /\ pure \in [Procs -> BOOLEAN]
          /\ pc[Loader] # "idle" <=> stage \in {"high", "low", "exit"}
          /\ \A t \in Threads : cmd[t] # "none" <=> t \in Writers
          /\ neighbour \subseteq BOOLEAN

(* Writes without a lock still behave as if they were atomic as far as the *)
(* pin can be seen from outside: when the last of a group of overlapping   *)
(* writes returns, direction and driven level are what some order of them  *)
(* leaves that respects which returned before another began.  The output   *)
(* bit behind an input may be one that no order leaves.                    *)
SettledAsWritten ==
  [][Writers # {} /\ Writers' = {} =>
       \E x \in Orders : Writers \subseteq x[2] /\ x[1] = Config']_vars

(* A read that no write overlaps answers with the direction and the level  *)
(* the pin has at the moment of the answer.                                *)
ReadAloneIsExact ==
  [][\A p \in Procs, outside \in BOOLEAN :
       pure[p] /\ ReadExt(p, outside) =>
         answer'[p] = [input |-> ~Config.out, value |-> Port(outside)]]_vars

(* The other pin stays an output, at the level the kernel last gave it,    *)
(* unless the kernel did so between a load and a store of this driver.     *)
NeighbourKept == "other" \in ddr /\ ("other" \in dr) \in neighbour
=============================================================================
