------------------------------ MODULE KeyLatch ------------------------------
(***************************************************************************)
(* What the key driver promises to a process that has the device to        *)
(* itself: a latch with room for one sample of the pin.  A new sample      *)
(* replaces an unread one; a sample is handed over once, and a sample that *)
(* arrives while the previous one is being cleared is lost with it.        *)
(***************************************************************************)
CONSTANTS Samples,     \* the values a sample can have
          NoSample     \* what is not a sample: the latch holds none

VARIABLES latch,       \* empty, full, or clearing after a hand-over
          value,       \* the sample in a full latch, NoSample otherwise
          got          \* the last sample handed over

latchVars == <<latch, value, got>>

Init == latch = "empty" /\ value = NoSample /\ got \in Samples

Publish == /\ latch # "clearing"
           /\ latch' = "full"
           /\ value' \in Samples
           /\ UNCHANGED got

Take == /\ latch = "full"
        /\ latch' = "clearing"
        /\ value' = NoSample
        /\ got' = value

Clear == /\ latch = "clearing"
         /\ latch' = "empty"
         /\ UNCHANGED <<value, got>>

Next == Publish \/ Take \/ Clear

SafeSpec == Init /\ [][Next]_latchVars

(* The clearing ends; nobody is obliged to press or to read.               *)
Spec == SafeSpec /\ WF_latchVars(Clear)
=============================================================================
