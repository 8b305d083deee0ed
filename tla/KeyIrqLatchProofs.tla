------------------------- MODULE KeyIrqLatchProofs -------------------------
(***************************************************************************)
(* The safety half of the refinement KeyIrqLatch: for a process alone on   *)
(* one CPU and without signals, every step of the handler and of read is a *)
(* step of the latch or leaves it alone.                                   *)
(***************************************************************************)
EXTENDS KeyIrqLatch, KeyIrqProofs

(* What decides the state of the latch: where the reader is, the flag, and *)
(* while the latch is full the value; a step that moves none of them, nor  *)
(* the value handed over, is a stuttering step of the latch.               *)
LEMMA LatchStutters ==
  ASSUME pc[TheReader] \in ClearPCs <=> pc'[TheReader] \in ClearPCs,
         pc[TheReader] \in ClearPCs \/ key_state' = key_state,
         \/ pc[TheReader] \in ClearPCs
         \/ key_state # 1
         \/ event'.val = event.val,
         ubuf'[TheReader].val = ubuf[TheReader].val
  PROVE  UNCHANGED Latch!latchVars
BY DEF Latch!latchVars, LatchState

LEMMA LatchInit ==
  ASSUME NEW p, Readers = {p}
  PROVE  Init => Latch!Init
<1>1. TheReader = p
  BY DEF TheReader
<1> QED
  BY <1>1 DEF Init, Latch!Init, LatchState, ClearPCs, NoEvent

LEMMA LatchStep ==
  ASSUME NEW p, Readers = {p}, SMP = FALSE, Signals = FALSE,
         DeliverInv, [Next]_vars
  PROVE  [Latch!Next]_(Latch!latchVars)
<1>0. TheReader = p /\ \A r \in Readers : r = p
  BY DEF TheReader
<1>1. /\ TypeOK /\ CopyingMeansData
      /\ pc \in [Readers -> PCs] /\ ubuf \in [Readers -> Events]
      /\ event \in Events /\ key_state \in {0, 1} /\ hval \in {0, EXT_MASK}
  BY DEF DeliverInv, EventInv, TypeOK
<1> USE DEF line, handler, device, process, Goto, Return, At, ClearPCs
<1>2. CASE UNCHANGED vars
  BY <1>2, LatchStutters DEF vars
<1>3. CASE KeyEdge \/ HandlerEnter \/ HandlerKey \/ HandlerWake
  <2>1. UNCHANGED <<pc, key_state, ubuf>> /\ event'.val = event.val
    BY <1>1, <1>3 DEF KeyEdge, HandlerEnter, HandlerKey, HandlerWake, Events
  <2> QED
    BY <2>1, LatchStutters
<1>4. CASE HandlerVal
  <2>1. UNCHANGED <<pc, key_state, ubuf>> /\ event'.val \in {0, EXT_MASK}
    BY <1>1, <1>4 DEF HandlerVal, Events
  <2>2. CASE pc[TheReader] \in ClearPCs \/ key_state # 1
    BY <2>1, <2>2, LatchStutters
  <2>3. CASE ~(pc[TheReader] \in ClearPCs \/ key_state # 1)
    <3>1. LatchState = "full" /\ LatchState' = "full"
      BY <2>1, <2>3 DEF LatchState
    <3> QED
      BY <2>1, <3>1 DEF Latch!Next, Latch!Publish
  <2> QED
    BY <2>2, <2>3
<1>5. CASE HandlerFlag
  <2>1. UNCHANGED <<pc, event, ubuf>> /\ key_state' = 1
    BY <1>5 DEF HandlerFlag
  <2>2. CASE pc[TheReader] \in ClearPCs
    BY <2>1, <2>2, LatchStutters
  <2>3. CASE pc[TheReader] \notin ClearPCs
    <3>1. LatchState # "clearing" /\ LatchState' = "full" /\ event'.val \in {0, EXT_MASK}
      BY <1>1, <2>1, <2>3 DEF LatchState, Events
    <3> QED
      BY <2>1, <3>1 DEF Latch!Next, Latch!Publish
  <2> QED
    BY <2>2, <2>3
<1>6. ASSUME NEW r \in Readers, CopyVal(r)
      PROVE  Latch!Next
  <2>1. /\ r = TheReader /\ pc[r] = "copyval" /\ pc'[r] = "clearkey"
        /\ key_state = 1
        /\ ubuf'[r].val = event.val
    BY <1>0, <1>1, <1>6 DEF CopyVal, CopyingMeansData, CopyPCs, Events
  <2>2. LatchState = "full" /\ LatchState' = "clearing"
    BY <2>1 DEF LatchState
  <2> QED
    BY <2>1, <2>2 DEF Latch!Next, Latch!Take
<1>7. ASSUME NEW r \in Readers, ClearKey(r) \/ ClearVal(r)
      PROVE  UNCHANGED Latch!latchVars
  <2>1. /\ r = TheReader /\ pc[r] \in ClearPCs /\ pc'[r] \in ClearPCs /\ UNCHANGED ubuf
    BY <1>0, <1>1, <1>7 DEF ClearKey, ClearVal
  <2> QED
    BY <2>1, LatchStutters
<1>8. ASSUME NEW r \in Readers, ClearFlag(r)
      PROVE  Latch!Next
  <2>1. /\ r = TheReader /\ pc[r] = "clearflag" /\ pc'[r] = "user"
        /\ key_state' = 0 /\ UNCHANGED ubuf
    BY <1>0, <1>1, <1>8 DEF ClearFlag
  <2>2. LatchState = "clearing" /\ LatchState' = "empty"
    BY <2>1 DEF LatchState
  <2> QED
    BY <2>1, <2>2 DEF Latch!Next, Latch!Clear
<1>9. ASSUME NEW r \in Readers,
             \/ StartCall(r) \/ WaitStep(r) \/ PollStep(r) \/ PollTimeout(r)
             \/ SignalThread(r) \/ ReadLength(r) \/ ReadTooShort(r)
             \/ CopyKey(r) \/ CopyFault(r)
      PROVE  UNCHANGED Latch!latchVars
  <2>1. UNCHANGED <<event, key_state>>
    BY <1>1, <1>9, QuietStep
  <2>2. pc[r] \notin ClearPCs /\ pc'[r] \notin ClearPCs
    <3>1. CASE StartCall(r)
      BY <1>1, <3>1 DEF StartCall, ReadEnter, PollEnter
    <3>2. CASE WaitStep(r)
      BY <1>1, <3>2 DEF WaitStep, WaitCond, WaitPrepare, WaitRecheck,
                        WaitInterrupted, WaitWoken
    <3>3. CASE PollStep(r) \/ PollTimeout(r)
      BY <1>1, <3>3 DEF PollStep, PollCheck, PollWoken, PollLast, PollTimeout
    <3>4. CASE SignalThread(r)
      BY <3>4, Signals = FALSE DEF SignalThread
    <3>5. CASE ReadLength(r) \/ ReadTooShort(r) \/ CopyKey(r) \/ CopyFault(r)
      BY <1>1, <3>5 DEF ReadLength, ReadTooShort, CopyKey, CopyFault
    <3> QED
      BY <1>9, <3>1, <3>2, <3>3, <3>4, <3>5
  <2>3. ubuf'[TheReader].val = ubuf[TheReader].val
    <3>1. CASE CopyKey(r)
      BY <1>0, <1>1, <3>1 DEF CopyKey, Events
    <3>2. CASE ~CopyKey(r)
      BY <1>9, <3>2 DEF StartCall, ReadEnter, PollEnter, WaitStep, WaitCond,
         WaitPrepare, WaitRecheck, WaitInterrupted, WaitWoken, PollStep, PollCheck,
         PollWoken, PollLast, PollTimeout, SignalThread, ReadLength, ReadTooShort,
         CopyFault
    <3> QED
      BY <3>1, <3>2
  <2> QED
    BY <1>0, <2>1, <2>2, <2>3, LatchStutters
<1> QED
  BY <1>2, <1>3, <1>4, <1>5, <1>6, <1>7, <1>8, <1>9
  DEF Next, Handler, Thread, ReadStep

(* A process alone on one CPU and without signals sees a latch: events are *)
(* handed over at most once, whole, and the latest one wins.               *)
THEOREM ImplementsLatchSafely ==
  ASSUME NEW p, Readers = {p}, SMP = FALSE, Signals = FALSE
  PROVE  Spec => Latch!SafeSpec
<1>1. Init => DeliverInv
  BY TypeInit DEF Init, DeliverInv, EventInv, HandlerProgress,
     PublishedEventIsWhole, CopyingMeansData, CopyPCs
<1>2. DeliverInv /\ [Next]_vars => DeliverInv'
  BY TypeStep, EventStep, DeliverStep DEF DeliverInv, EventInv
<1>3. DeliverInv /\ [Next]_vars => [Latch!Next]_(Latch!latchVars)
  BY LatchStep
<1> QED
  BY <1>1, <1>2, <1>3, LatchInit, PTL DEF Spec, Latch!SafeSpec
=============================================================================
