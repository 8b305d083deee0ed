----------------------------- MODULE DriverLife -----------------------------
(***************************************************************************)
(* How every driver of the repository is loaded and unloaded.  An init or  *)
(* probe function takes resources one by one; a failure jumps into a goto  *)
(* ladder that gives back what was taken; exit or remove gives back        *)
(* everything.  The functions differ only in three tables per driver, the  *)
(* constants Load, Unwind and Unload (module DriverTables), so one machine *)
(* runs them all, with the module loader, the resources that only one      *)
(* driver can hold, and the processes that open the device files.          *)
(***************************************************************************)
EXTENDS Naturals, Sequences, FiniteSets

CONSTANTS Drivers,     \* the drivers of this system
          Load,        \* Load[d]: steps of init/probe, [get, fail, to]
          Unwind,      \* Unwind[d]: the ladder, in the order it is executed
          Unload,      \* Unload[d]: what exit/remove releases, in order
          Leaks,       \* what the ladder or exit of each driver forgets
          Pinned,      \* drivers whose unloading the open files prevent
          FileNeeds,   \* what the file operations of each driver dereference
          HandlerNeeds,\* what its interrupt handler dereferences
          Reporting,   \* drivers that report every failure as a negative errno
          MaxActive,   \* bound: drivers loaded, or still in use, at a time
          MaxOpen      \* bound: drivers with a file open at a time

Failures == {"neg", "one", "zero", "ignored", "none"}

(* Tables of the right shape; a jump leads into the ladder or to its end.  *)
TablesTyped ==
  \A d \in Drivers :
    /\ Load[d] \in Seq([get : STRING, fail : Failures, to : Nat])
    /\ Unwind[d] \in Seq(STRING) /\ Unload[d] \in Seq(STRING)
    /\ \A i \in 1 .. Len(Load[d]) : Load[d][i].to \in 1 .. Len(Unwind[d]) + 1

ASSUME DriverLifeAssumption ==
         /\ IsFiniteSet(Drivers) /\ MaxActive \in Nat /\ MaxOpen \in Nat
         /\ Pinned \subseteq Drivers /\ Reporting \subseteq Drivers
         /\ TablesTyped

(* One name in /sys/class, one owner per interrupt line and requested pin. *)
Exclusive == {"class", "irqA7", "irqB1", "gpioA7"}
Irqs == {"irqA7", "irqB1"}

(* Steps that take nothing (a lookup, a register access) get "check".      *)
HeldBefore(d, i) == {Load[d][j].get : j \in 1 .. i - 1} \ {"check"}
Gets(d) == HeldBefore(d, Len(Load[d]) + 1)

VARIABLES phase,       \* out, load, unwind, live, unload
          at,          \* index of the next step in the table of the phase
          ret,         \* what the load under way failed with, or ok
          held,        \* the resources the driver holds
          skipped,     \* history: failures the load went past without a test
          opened       \* what a process that uses the device file got hold of

vars == <<phase, at, ret, held, skipped, opened>>

Init == /\ phase = [d \in Drivers |-> "out"]
        /\ at = [d \in Drivers |-> 1]
        /\ ret = [d \in Drivers |-> "ok"]
        /\ held = [d \in Drivers |-> {}]
        /\ skipped = [d \in Drivers |-> {}]
        /\ opened = [d \in Drivers |-> "no"]

Enter(d, ph, i) == phase' = [phase EXCEPT ![d] = ph] /\ at' = [at EXCEPT ![d] = i]

Taken(res) == res \in Exclusive /\ \E d \in Drivers : res \in held[d]

-----------------------------------------------------------------------------
Active(d) == phase[d] # "out" \/ opened[d] # "no"

(* insmod, or the bus calling probe.                                       *)
Insmod(d) == /\ phase[d] = "out"
             /\ Cardinality({e \in Drivers \ {d} : Active(e)}) < MaxActive
             /\ Enter(d, "load", 1)
             /\ UNCHANGED <<ret, held, skipped, opened>>

LoadStep(d) == Load[d][at[d]]
Loading(d) == phase[d] = "load" /\ at[d] \in 1 .. Len(Load[d])

(* The step succeeds; an exclusive resource must be free.                  *)
Acquire(d) == /\ Loading(d)
              /\ ~Taken(LoadStep(d).get)
              /\ held' = [held EXCEPT ![d] = @ \cup ({LoadStep(d).get} \ {"check"})]
              /\ at' = [at EXCEPT ![d] = @ + 1]
              /\ UNCHANGED <<phase, ret, skipped, opened>>

(* A step that can fail may do so for a reason of its own.                 *)
StepFails(d) == Loading(d) /\ LoadStep(d).fail # "none"

(* Faulty variant: every failure jumps to the first label of the ladder.   *)
JumpToTop(d) == /\ StepFails(d) /\ LoadStep(d).fail # "ignored"
                /\ Enter(d, "unwind", 1)
                /\ ret' = [ret EXCEPT ![d] = LoadStep(d).fail]
                /\ UNCHANGED <<held, skipped, opened>>

(* Faulty variant: the test is missing, init goes on without the resource. *)
JumpUntested(d) == /\ StepFails(d) /\ LoadStep(d).fail # "ignored"
                   /\ at' = [at EXCEPT ![d] = @ + 1]
                   /\ UNCHANGED <<phase, ret, held, skipped, opened>>

(* The failure is tested: jump to the label, with the value left in ret.   *)
Jump(d) == /\ StepFails(d) /\ LoadStep(d).fail # "ignored"
           /\ Enter(d, "unwind", LoadStep(d).to)
           /\ ret' = [ret EXCEPT ![d] = LoadStep(d).fail]
           /\ UNCHANGED <<held, skipped, opened>>

(* The failure is not tested: init goes on without the resource.           *)
Overlook(d) == /\ StepFails(d) /\ LoadStep(d).fail = "ignored"
               /\ at' = [at EXCEPT ![d] = @ + 1]
               /\ skipped' = [skipped EXCEPT ![d] = @ \cup ({LoadStep(d).get} \ {"check"})]
               /\ UNCHANGED <<phase, ret, held, opened>>

(* Faulty variant: the position in the table is not reset.                 *)
LoadedKeepsPlace(d) == /\ phase[d] = "load" /\ at[d] = Len(Load[d]) + 1
                       /\ Enter(d, "live", at[d])
                       /\ UNCHANGED <<ret, held, skipped, opened>>

Loaded(d) == /\ phase[d] = "load" /\ at[d] = Len(Load[d]) + 1
             /\ Enter(d, "live", 1)
             /\ UNCHANGED <<ret, held, skipped, opened>>

(* What releasing a resource takes away: the queue head lives in the       *)
(* driver's memory, and unregistering an input device frees it.            *)
Drop(res) == {res} \cup (IF res = "mem" THEN {"wq"} ELSE {})
                   \cup (IF res = "inputreg" THEN {"mem"} ELSE {})

Table(d) == IF phase[d] = "unwind" THEN Unwind[d] ELSE Unload[d]
Releasing(d) == phase[d] \in {"unwind", "unload"} /\ at[d] \in 1 .. Len(Table(d))

(* Faulty variant: what comes last in the list is released first.          *)
ReleaseBackwards(d) ==
  /\ Releasing(d)
  /\ held' = [held EXCEPT ![d] = @ \ Drop(Table(d)[Len(Table(d)) + 1 - at[d]])]
  /\ at' = [at EXCEPT ![d] = @ + 1]
  /\ UNCHANGED <<phase, ret, skipped, opened>>

Release(d) == /\ Releasing(d)
              /\ held' = [held EXCEPT ![d] = @ \ Drop(Table(d)[at[d]])]
              /\ at' = [at EXCEPT ![d] = @ + 1]
              /\ UNCHANGED <<phase, ret, skipped, opened>>

(* The loader frees the code of a module whose init has failed, whoever    *)
(* has its file open.                                                      *)
Orphan(d) == opened' = [opened EXCEPT ![d] =
               IF d \in Pinned /\ ret[d] = "neg" /\ @ # "no" THEN "stale" ELSE @]

(* Faulty variant: the end of the ladder is a label too early.             *)
UnwoundEarly(d) ==
  /\ phase[d] = "unwind" /\ at[d] \in {Len(Unwind[d]), Len(Unwind[d]) + 1}
  /\ Enter(d, IF ret[d] = "neg" THEN "out" ELSE "live", 1)
  /\ ret' = [ret EXCEPT ![d] = "ok"]
  /\ skipped' = [skipped EXCEPT ![d] = {}]
  /\ Orphan(d)
  /\ UNCHANGED held

(* Faulty variant: return 0 behind the ladder.                             *)
UnwoundLoaded(d) == /\ phase[d] = "unwind" /\ at[d] = Len(Unwind[d]) + 1
                    /\ Enter(d, "live", 1)
                    /\ ret' = [ret EXCEPT ![d] = "ok"]
                    /\ skipped' = [skipped EXCEPT ![d] = {}]
                    /\ UNCHANGED <<held, opened>>

(* return ret: the loader gives up only on a negative value; anything else *)
(* leaves the module loaded.                                               *)
Unwound(d) == /\ phase[d] = "unwind" /\ at[d] = Len(Unwind[d]) + 1
              /\ Enter(d, IF ret[d] = "neg" THEN "out" ELSE "live", 1)
              /\ ret' = [ret EXCEPT ![d] = "ok"]
              /\ skipped' = [skipped EXCEPT ![d] = {}]
              /\ Orphan(d)
              /\ UNCHANGED held

(* Faulty variant: open files do not keep the module loaded.               *)
RmmodUnpinned(d) == /\ phase[d] = "live"
                    /\ Enter(d, "unload", 1)
                    /\ UNCHANGED <<ret, held, skipped, opened>>

(* rmmod, or the bus calling remove.  An open file pins its module through *)
(* fops.owner, but not the platform device remove is called for.           *)
Rmmod(d) == /\ phase[d] = "live"
            /\ d \in Pinned => opened[d] \in {"no", "stale"}
            /\ Enter(d, "unload", 1)
            /\ UNCHANGED <<ret, held, skipped, opened>>

Unloaded(d) == /\ phase[d] = "unload" /\ at[d] = Len(Unload[d]) + 1
               /\ Enter(d, "out", 1)
               /\ skipped' = [skipped EXCEPT ![d] = {}]
               /\ UNCHANGED <<ret, held, opened>>

-----------------------------------------------------------------------------
(* Processes and the device node.  The node can be opened from             *)
(* device_create until device_destroy, also while init or its ladder       *)
(* still runs; only a module that rmmod has begun to remove is refused.    *)
(* opened remembers whether the driver was live when the file was opened   *)
(* or amid its load or removal.                                            *)
Open(d) == /\ "node" \in held[d] /\ opened[d] = "no"
           /\ phase[d] = "unload" => d \notin Pinned
           /\ Cardinality({e \in Drivers : opened[e] # "no"}) < MaxOpen
           /\ opened' = [opened EXCEPT ![d] = IF phase[d] = "live" THEN "live" ELSE "amid"]
           /\ UNCHANGED <<phase, at, ret, held, skipped>>

Close(d) == /\ opened[d] # "no"
            /\ opened' = [opened EXCEPT ![d] = "no"]
            /\ UNCHANGED <<phase, at, ret, held, skipped>>

(* What runs to its end once started.                                      *)
Progress(d) == \/ Acquire(d) \/ Jump(d) \/ Overlook(d) \/ Loaded(d)
               \/ Release(d) \/ Unwound(d) \/ Unloaded(d)

Next == \E d \in Drivers : \/ Insmod(d) \/ Rmmod(d) \/ Open(d) \/ Close(d)
                           \/ Progress(d)

Spec == Init /\ [][Next]_vars

-----------------------------------------------------------------------------
(* Every driver is somewhere in one of its own tables and holds only what  *)
(* its load takes.                                                         *)
Steps(d, ph) == CASE ph = "load" -> Len(Load[d])
                  [] ph = "unwind" -> Len(Unwind[d])
                  [] ph = "unload" -> Len(Unload[d])
                  [] OTHER -> 0

Phases == {"out", "load", "unwind", "live", "unload"}
Rets == {"ok", "neg", "one", "zero"}
Files == {"no", "live", "amid", "stale"}

TypeOK == /\ phase \in [Drivers -> Phases]
          /\ at \in [Drivers -> Nat]
          /\ ret \in [Drivers -> Rets]
          /\ held \in [Drivers -> SUBSET STRING]
          /\ skipped \in [Drivers -> SUBSET STRING]
          /\ opened \in [Drivers -> Files]
          /\ \A d \in Drivers : /\ at[d] \in 1 .. Steps(d, phase[d]) + 1
                                /\ held[d] \subseteq Gets(d)

(* After a load that failed, and after an unload, nothing of the driver is *)
(* left behind beyond its known leaks: wherever the load stopped, the      *)
(* ladder and exit cover every step that can have run.                     *)
NothingLeftBehind == \A d \in Drivers : phase[d] = "out" => held[d] \subseteq Leaks[d]

(* What the tables have to satisfy for that: each label of the ladder      *)
(* releases at least what was taken before the step that jumps to it.      *)
ReleasedFrom(table, i) == UNION {Drop(table[j]) : j \in i .. Len(table)}

MayJump(d, i) == Load[d][i].fail \notin {"ignored", "none"}

TablesCover ==
  \A d \in Drivers :
    /\ \A i \in 1 .. Len(Load[d]) :
         MayJump(d, i) =>
           HeldBefore(d, i) \subseteq ReleasedFrom(Unwind[d], Load[d][i].to) \cup Leaks[d]
    /\ Gets(d) \subseteq ReleasedFrom(Unload[d], 1) \cup Leaks[d]

(* A driver that reports its failures releases what it holds, once; what   *)
(* it overlooked is the only thing it releases without holding it.         *)
ReleasesOnlyHeld ==
  \A d \in Reporting :
    Releasing(d) => Table(d)[at[d]] \in held[d] \cup skipped[d]

(* A driver that reports its failures and counts as loaded has everything  *)
(* it asked for, but for the failures it overlooked.                       *)
LiveIsComplete ==
  \A d \in Reporting : phase[d] = "live" => held[d] = Gets(d) \ skipped[d]

(* What makes that true of a driver: it leaks nothing, takes nothing       *)
(* twice, and leaves a negative errno in ret wherever it tests a failure.  *)
TablesReport ==
  \A d \in Reporting :
    /\ Leaks[d] = {}
    /\ \A i \in 1 .. Len(Load[d]) :
         /\ Load[d][i].fail \in {"neg", "ignored", "none"}
         /\ Load[d][i].get \notin HeldBefore(d, i)

(* For ReleasesOnlyHeld: no list releases a thing it has released already, *)
(* a label releases only what was taken before the jump to it, exit only   *)
(* what init takes.                                                        *)
ReleasesOnce(table) ==
  \A j, k \in 1 .. Len(table) : j < k => table[k] \notin Drop(table[j])

TablesExact ==
  \A d \in Reporting :
    /\ ReleasesOnce(Unwind[d]) /\ ReleasesOnce(Unload[d])
    /\ \A i \in 1 .. Len(Load[d]) :
         MayJump(d, i) =>
           \A j \in Load[d][i].to .. Len(Unwind[d]) : Unwind[d][j] \in HeldBefore(d, i)
    /\ \A j \in 1 .. Len(Unload[d]) : Unload[d][j] \in Gets(d)

(* The same for every driver: loaded means loaded.                         *)
LoadedMeansComplete == \A d \in Drivers : phase[d] = "live" => held[d] = Gets(d)

Tidy == {d \in Drivers : Leaks[d] = {}}

(* The record that stores the handles is allocated first and freed last,   *)
(* and a visible node has its class and its cdev behind it.                *)
Grounded ==
  \A d \in Tidy :
    /\ held[d] # {} => "mem" \in held[d]
    /\ "node" \in held[d] => {"class", "cdev"} \subseteq held[d]

(* While a driver holds an interrupt line, everything its handler touches  *)
(* is there, however the load went and wherever the release stands; only   *)
(* the wait queue of the key drivers comes after the line.                 *)
QuietBeforeFree ==
  \A d \in Tidy :
    held[d] \cap Irqs # {} =>
      HandlerNeeds[d] \ (IF phase[d] = "load" THEN {"wq"} ELSE {})
        \subseteq held[d] \cup skipped[d]

(* For both: b is taken before r; and b is there whenever r is held, from  *)
(* every jump and from exit on until r is released.                        *)
TakenBefore(d, b, r) ==
  \A i \in 1 .. Len(Load[d]) + 1 : r \in HeldBefore(d, i) => b \in HeldBefore(d, i)

Outlives(d, b, r) ==
  /\ \A i \in 1 .. Len(Load[d]) :
       MayJump(d, i) /\ r \in HeldBefore(d, i) => b \in HeldBefore(d, i)
  /\ \A table \in {Unwind[d], Unload[d]} : \A j \in 1 .. Len(table) :
       b \in Drop(table[j]) => r \notin ReleasedFrom(table, j + 1)

(* What init goes past without a test.                                     *)
Overlooked(d) ==
  {Load[d][i].get : i \in {j \in 1 .. Len(Load[d]) : Load[d][j].fail = "ignored"}}

Bases(r) == ({"mem"} \cup IF r = "node" THEN {"class", "cdev"} ELSE {}) \ {r}

TablesGround ==
  \A d \in Tidy : \A r \in Gets(d) : \A b \in Bases(r) :
    TakenBefore(d, b, r) /\ Outlives(d, b, r) /\ b \notin Overlooked(d)

TablesQuiet ==
  \A d \in Tidy : \A r \in Irqs \cap Gets(d) : \A b \in HandlerNeeds[d] :
    /\ b \in Gets(d) /\ Outlives(d, b, r)
    /\ b # "wq" => TakenBefore(d, b, r)

(* The node comes after all that the file operations touch, and no step    *)
(* behind it can fail.                                                     *)
ReadyWithNode(d) ==
  \A i \in 1 .. Len(Load[d]) + 1 :
    "node" \in HeldBefore(d, i) =>
      FileNeeds[d] \subseteq HeldBefore(d, i) /\ (i <= Len(Load[d]) => ~MayJump(d, i))

(* What the operations of a file touch is there as long as the file is     *)
(* open, for the drivers whose module an open file pins: from the end of   *)
(* init on for all of them, from device_create on only for those that are  *)
(* ready with the node.                                                    *)
PinnedFileSafe ==
  \A d \in Pinned :
    opened[d] = "live" \/ (opened[d] # "no" /\ ReadyWithNode(d)) =>
      FileNeeds[d] \subseteq held[d]

(* For that: every file operation finds what init takes and tests, and a   *)
(* node never stays behind.                                                *)
TablesOpen ==
  \A d \in Pinned :
    /\ "node" \notin Leaks[d]
    /\ "node" \in Gets(d) => FileNeeds[d] \subseteq Gets(d) \ Overlooked(d)

(* The same for every driver, but for what it overlooked: fops.owner keeps *)
(* the operations usable while a file is open that was opened of a driver  *)
(* that was live.                                                          *)
FileSafe ==
  \A d \in Drivers : opened[d] = "live" => FileNeeds[d] \subseteq held[d] \cup skipped[d]
=============================================================================
