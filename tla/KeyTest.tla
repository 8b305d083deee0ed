------------------------------ MODULE KeyTest -------------------------------
(***************************************************************************)
(* key_test.c on top of KeyIrq: an endless loop of a blocking read of one  *)
(* whole event and a line of output for it.  The result of the read is not *)
(* looked at, only the event in the program's own record.                  *)
(***************************************************************************)
EXTENDS KeyIrq

VARIABLES judged,      \* the program has dealt with the last read
          shown        \* the last line of each program: none, down, up

testVars == <<vars, judged, shown>>

(* ev is on the stack and is not initialised; nothing is shown of it.      *)
TestInit == /\ Init
            /\ judged = [r \in Readers |-> TRUE]
            /\ shown = [r \in Readers |-> "none"]

(* read(fd, &ev, sizeof(struct key_event)), again and again.               *)
ReadAgain(r) == /\ judged[r] /\ ReadEnter(r, FALSE)
                /\ judged' = [judged EXCEPT ![r] = FALSE]
                /\ UNCHANGED shown

(* KEY_ENTER == ev.key: down if ev.val, else up.                           *)
Judge(r) ==
  /\ At(r, "user") /\ ~judged[r]
  /\ judged' = [judged EXCEPT ![r] = TRUE]
  /\ shown' = [shown EXCEPT ![r] = IF ubuf[r].key # KEY_ENTER THEN @
                                   ELSE IF ubuf[r].val # 0 THEN "down" ELSE "up"]
  /\ UNCHANGED vars

(* The read has the whole length and a good buffer.                        *)
InRead(r) == \/ WaitStep(r) \/ ReadLength(r) \/ CopyKey(r) \/ CopyVal(r)
             \/ ClearKey(r) \/ ClearVal(r) \/ ClearFlag(r)

Environment == KeyEdge \/ Handler \/ \E r \in Readers : SignalThread(r)

TestNext == \/ \E r \in Readers : ReadAgain(r) \/ Judge(r)
            \/ (Environment \/ \E r \in Readers : InRead(r)) /\ UNCHANGED <<judged, shown>>

TestSpec == TestInit /\ [][TestNext]_testVars

-----------------------------------------------------------------------------
(* When the program sleeps and every edge of the key has been handled, the *)
(* last line it printed tells the state of the key.                        *)
ShowsTheKey ==
  \A r \in Readers :
    /\ pc[r] = "asleep" /\ r \in wq_head /\ hpc = "idle" /\ ~pending
    /\ shown[r] # "none"
    => shown[r] = IF level = 1 THEN "down" ELSE "up"
=============================================================================
