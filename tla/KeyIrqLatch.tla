---------------------------- MODULE KeyIrqLatch -----------------------------
(***************************************************************************)
(* How KeyIrq implements KeyLatch for a process that has the device to     *)
(* itself.  The latch is full while key_state is up, and in its clearing   *)
(* phase while the reader is between its copy and key_state = 0; the value *)
(* in it is the published event's; the hand-over is the copy of the second *)
(* word of the event.                                                      *)
(***************************************************************************)
EXTENDS KeyIrq

TheReader == CHOOSE r \in Readers : TRUE

LatchState == IF pc[TheReader] \in ClearPCs THEN "clearing"
              ELSE IF key_state = 1 THEN "full" ELSE "empty"
NoLatchSample == 1                     \* the handler stores only 0 and 128

Latch == INSTANCE KeyLatch WITH
           Samples <- {0, EXT_MASK},
           NoSample <- NoLatchSample,
           latch <- LatchState,
           value <- IF LatchState = "full" THEN event.val ELSE NoLatchSample,
           got <- ubuf[TheReader].val

(* One reader, one CPU, no signals: the handler and read implement the     *)
(* latch, so an event is handed over at most once and never torn, and the  *)
(* clearing that follows a hand-over ends.                                 *)
ImplementsLatch == Latch!Spec
=============================================================================
