---------------------------- MODULE KeyIrqProofs ----------------------------
(***************************************************************************)
(* Proofs about KeyIrq, for any set of processes and any choice of calls.  *)
(***************************************************************************)
EXTENDS KeyIrq, TLAPS

LEMMA EventsFacts ==
  /\ NoEvent \in Events
  /\ \A e \in Events : /\ e.key \in {0, KEY_ENTER} /\ e.val \in {0, EXT_MASK}
                       /\ \A k \in {0, KEY_ENTER} : [e EXCEPT !.key = k] \in Events
                       /\ \A v \in {0, EXT_MASK} : [e EXCEPT !.val = v] \in Events
  BY DEF NoEvent, Events

LEMMA TypeInit == Init => TypeOK
<1> SUFFICES ASSUME Init PROVE TypeOK
  OBVIOUS
<1>1. level \in {0, 1} /\ pending \in BOOLEAN
  BY Zenon DEF Init
<1>2. /\ hpc \in {"idle", "key", "val", "wake", "flag"} /\ hval \in {0, EXT_MASK}
      /\ key_state \in {0, 1} /\ wq_head \subseteq Readers
  BY DEF Init
<1>3. event \in Events /\ ubuf \in [Readers -> Events]
  BY EventsFacts, Zenon DEF Init
<1>4. pc \in [Readers -> PCs] /\ ret \in [Readers -> Results]
  BY DEF Init, PCs, Results
<1>5. nonblock \in [Readers -> BOOLEAN] /\ signal \in [Readers -> BOOLEAN]
  BY Zenon DEF Init
<1> QED
  BY <1>1, <1>2, <1>3, <1>4, <1>5, Zenon DEF TypeOK

LEMMA ReturnTypes ==
  ASSUME TypeOK, NEW r \in Readers, NEW code \in Results, Return(r, code)
  PROVE  /\ pc' \in [Readers -> PCs] /\ ret' \in [Readers -> Results]
         /\ signal' \in [Readers -> BOOLEAN]
<1>1. pc' \in [Readers -> PCs]
  BY DEF TypeOK, Return, Goto, PCs
<1>2. ret' \in [Readers -> Results] /\ signal' \in [Readers -> BOOLEAN]
  BY Zenon DEF TypeOK, Return
<1> QED  BY <1>1, <1>2

(* The types are preserved by every step.                                  *)
LEMMA TypeStep == TypeOK /\ [Next]_vars => TypeOK'
<1> SUFFICES ASSUME TypeOK, [Next]_vars PROVE TypeOK'
  OBVIOUS
<1> USE DEF TypeOK
<1> USE DEF line, handler, device, process, Events, Goto, Return, PCs,
            ReadWaitPCs, CopyPCs, ClearPCs, PollPCs, Results, At,
            KEY_ENTER, EXT_MASK
<1>1. CASE KeyEdge  BY <1>1 DEF KeyEdge
<1>2. CASE HandlerEnter
  <2>1. EXT_MASK * level \in {0, EXT_MASK}
    <3>1. CASE level = 0  BY <3>1
    <3>2. CASE level = 1  BY <3>2
    <3> QED  BY <3>1, <3>2
  <2>2. hval' \in {0, EXT_MASK}
    BY <1>2, <2>1 DEF HandlerEnter
  <2> QED
    BY <1>2, <2>2 DEF HandlerEnter
<1>3. CASE HandlerKey  BY <1>3 DEF HandlerKey
<1>4. CASE HandlerVal  BY <1>4 DEF HandlerVal
<1>5. CASE HandlerWake  BY <1>5 DEF HandlerWake
<1>6. CASE HandlerFlag  BY <1>6 DEF HandlerFlag
<1>7. ASSUME NEW r \in Readers, NEW nb \in BOOLEAN, ReadEnter(r, nb)
      PROVE  TypeOK'
  <2>1. nonblock' \in [Readers -> BOOLEAN]
    BY <1>7, Zenon DEF ReadEnter
  <2>2. CASE nb /\ key_state = 0
    <3>1. Return(r, "EAGAIN")
      BY <1>7, <2>2, Zenon DEF ReadEnter
    <3>2. /\ pc' \in [Readers -> PCs] /\ ret' \in [Readers -> Results]
          /\ signal' \in [Readers -> BOOLEAN]
      BY <3>1, ReturnTypes
    <3>3. UNCHANGED <<level, pending, hpc, hval, event, key_state, wq_head, ubuf>>
      BY <1>7 DEF ReadEnter
    <3> QED  BY <2>1, <3>2, <3>3, Zenon
  <2>3. CASE ~(nb /\ key_state = 0)
    <3>1. pc' = [pc EXCEPT ![r] = "cond"] /\ UNCHANGED <<signal, ret>>
      BY <1>7, <2>3, Zenon DEF ReadEnter
    <3>2. pc' \in [Readers -> PCs]
      BY <3>1
    <3>3. UNCHANGED <<level, pending, hpc, hval, event, key_state, wq_head, ubuf>>
      BY <1>7 DEF ReadEnter
    <3> QED  BY <2>1, <3>1, <3>2, <3>3, Zenon
  <2> QED  BY <2>2, <2>3
<1>8. ASSUME NEW r \in Readers, PollEnter(r)  PROVE TypeOK'
  BY <1>8 DEF PollEnter
<1>9. ASSUME NEW r \in Readers, WaitStep(r)  PROVE TypeOK'
  <2>1. CASE WaitCond(r)  BY <1>9, <2>1 DEF WaitCond
  <2>2. CASE WaitPrepare(r)  BY <1>9, <2>2 DEF WaitPrepare
  <2>3. CASE WaitRecheck(r)  BY <1>9, <2>3 DEF WaitRecheck
  <2>4. CASE WaitInterrupted(r)  BY <1>9, <2>4 DEF WaitInterrupted
  <2>5. CASE WaitWoken(r)  BY <1>9, <2>5 DEF WaitWoken
  <2> QED  BY <1>9, <2>1, <2>2, <2>3, <2>4, <2>5, Zenon DEF WaitStep
<1>10. ASSUME NEW r \in Readers, ReadStep(r)  PROVE TypeOK'
  <2>1. CASE ReadLength(r)  BY <1>10, <2>1 DEF ReadLength
  <2>2. CASE ReadTooShort(r)  BY <1>10, <2>2 DEF ReadTooShort
  <2>3. CASE CopyKey(r)  BY <1>10, <2>3 DEF CopyKey
  <2>4. CASE CopyVal(r)  BY <1>10, <2>4 DEF CopyVal
  <2>5. CASE CopyFault(r)  BY <1>10, <2>5 DEF CopyFault
  <2>6. CASE ClearKey(r)  BY <1>10, <2>6 DEF ClearKey
  <2>7. CASE ClearVal(r)  BY <1>10, <2>7 DEF ClearVal
  <2>8. CASE ClearFlag(r)  BY <1>10, <2>8 DEF ClearFlag
  <2> QED  BY <1>10, <2>1, <2>2, <2>3, <2>4, <2>5, <2>6, <2>7, <2>8, Zenon DEF ReadStep
<1>11. ASSUME NEW r \in Readers, PollStep(r)  PROVE TypeOK'
  <2>1. CASE PollCheck(r)
    <3>1. CASE key_state = 1 \/ signal[r]
      <4>1. \E code \in Results : Return(r, code)
        BY <2>1, <3>1 DEF PollCheck
      <4>2. /\ pc' \in [Readers -> PCs] /\ ret' \in [Readers -> Results]
            /\ signal' \in [Readers -> BOOLEAN]
        BY <4>1, ReturnTypes
      <4>3. /\ wq_head' \subseteq Readers
            /\ UNCHANGED <<level, pending, hpc, hval, event, key_state, nonblock, ubuf>>
        BY <2>1, <3>1 DEF PollCheck
      <4> QED  BY <4>2, <4>3, Zenon
    <3>2. CASE ~(key_state = 1 \/ signal[r])  BY <1>11, <2>1, <3>2 DEF PollCheck
    <3> QED  BY <3>1, <3>2
  <2>2. CASE PollWoken(r)  BY <1>11, <2>2 DEF PollWoken
  <2>3. CASE PollLast(r)  BY <1>11, <2>3 DEF PollLast
  <2> QED  BY <1>11, <2>1, <2>2, <2>3, Zenon DEF PollStep
<1>12. ASSUME NEW r \in Readers, PollTimeout(r)  PROVE TypeOK'
  BY <1>12 DEF PollTimeout
<1>13. ASSUME NEW r \in Readers, SignalThread(r)  PROVE TypeOK'
  BY <1>13 DEF SignalThread
<1>14. CASE UNCHANGED vars  BY <1>14 DEF vars
<1> QED
  BY <1>1, <1>2, <1>3, <1>4, <1>5, <1>6, <1>7, <1>8, <1>9, <1>10, <1>11, <1>12,
     <1>13, <1>14 DEF Next, Handler, StartCall, Thread

(* Every reachable state is well typed.                                    *)
THEOREM TypeCorrect == Spec => []TypeOK
  BY TypeInit, TypeStep, PTL DEF Spec

-----------------------------------------------------------------------------
(* No sleeper misses an event, on one CPU.  The strengthening: between the *)
(* wake-up and the flag the queue is empty.                                *)
WokenBeforeFlag == hpc = "flag" => wq_head = {}
SleepInv == TypeOK /\ WokenBeforeFlag /\ NoSleepOnData

LEMMA SleepStep ==
  ASSUME SMP = FALSE, SleepInv, [Next]_vars
  PROVE  WokenBeforeFlag' /\ NoSleepOnData'
<1> USE DEF SleepInv, TypeOK, WokenBeforeFlag, NoSleepOnData,
            line, handler, device, process, Goto, Return, At, CpuFree
<1>1. CASE KeyEdge  BY <1>1 DEF KeyEdge
<1>2. CASE HandlerEnter  BY <1>2 DEF HandlerEnter
<1>3. CASE HandlerKey  BY <1>3 DEF HandlerKey
<1>4. CASE HandlerVal  BY <1>4 DEF HandlerVal
<1>5. CASE HandlerWake  BY <1>5 DEF HandlerWake
<1>6. CASE HandlerFlag  BY <1>6 DEF HandlerFlag
<1>7. ASSUME NEW r \in Readers, NEW nb \in BOOLEAN, ReadEnter(r, nb)
      PROVE  WokenBeforeFlag' /\ NoSleepOnData'
  <2>1. hpc' = hpc /\ hpc = "idle" /\ wq_head' = wq_head /\ key_state' = key_state
    BY <1>7, SMP = FALSE DEF ReadEnter
  <2>2. \A q \in Readers : pc'[q] = pc[q] \/ pc'[q] \in {"user", "cond"}
    BY <1>7 DEF ReadEnter
  <2> QED  BY <2>1, <2>2
<1>8. ASSUME NEW r \in Readers, PollEnter(r)
      PROVE  WokenBeforeFlag' /\ NoSleepOnData'
  BY <1>8, SMP = FALSE DEF PollEnter
<1>9. ASSUME NEW r \in Readers, WaitStep(r)
      PROVE  WokenBeforeFlag' /\ NoSleepOnData'
  <2>1. CASE WaitCond(r)  BY <1>9, <2>1, SMP = FALSE DEF WaitCond
  <2>2. CASE WaitPrepare(r)  BY <1>9, <2>2, SMP = FALSE DEF WaitPrepare
  <2>3. CASE WaitRecheck(r)  BY <1>9, <2>3, SMP = FALSE DEF WaitRecheck
  <2>4. CASE WaitInterrupted(r)  BY <1>9, <2>4, SMP = FALSE DEF WaitInterrupted
  <2>5. CASE WaitWoken(r)  BY <1>9, <2>5, SMP = FALSE DEF WaitWoken
  <2> QED  BY <1>9, <2>1, <2>2, <2>3, <2>4, <2>5, Zenon DEF WaitStep
<1>10. ASSUME NEW r \in Readers, ReadStep(r)
       PROVE  WokenBeforeFlag' /\ NoSleepOnData'
  <2>1. /\ hpc' = hpc /\ hpc = "idle" /\ wq_head' = wq_head
        /\ key_state' \in {0, key_state}
    BY <1>10, SMP = FALSE DEF ReadStep, ReadLength, ReadTooShort, CopyKey, CopyVal,
       CopyFault, ClearKey, ClearVal, ClearFlag
  <2>2. \A q \in Readers :
          \/ pc'[q] = pc[q]
          \/ pc'[q] \in {"user", "copykey", "copyval", "clearkey", "clearval", "clearflag"}
    BY <1>10 DEF ReadStep, ReadLength, ReadTooShort, CopyKey, CopyVal,
       CopyFault, ClearKey, ClearVal, ClearFlag
  <2> QED  BY <2>1, <2>2
<1>11. ASSUME NEW r \in Readers, PollStep(r)
       PROVE  WokenBeforeFlag' /\ NoSleepOnData'
  <2>1. CASE PollCheck(r)
    <3>1. CASE key_state = 1 \/ signal[r]
      BY <1>11, <2>1, <3>1, SMP = FALSE DEF PollCheck
    <3>2. CASE ~(key_state = 1 \/ signal[r])
      BY <1>11, <2>1, <3>2, SMP = FALSE DEF PollCheck
    <3> QED  BY <3>1, <3>2
  <2>2. CASE PollWoken(r)  BY <1>11, <2>2, SMP = FALSE DEF PollWoken
  <2>3. CASE PollLast(r)  BY <1>11, <2>3, SMP = FALSE DEF PollLast
  <2> QED  BY <1>11, <2>1, <2>2, <2>3, Zenon DEF PollStep
<1>12. ASSUME NEW r \in Readers, PollTimeout(r)
       PROVE  WokenBeforeFlag' /\ NoSleepOnData'
  BY <1>12, SMP = FALSE DEF PollTimeout
<1>13. ASSUME NEW r \in Readers, SignalThread(r)
       PROVE  WokenBeforeFlag' /\ NoSleepOnData'
  BY <1>13, SMP = FALSE DEF SignalThread
<1>14. CASE UNCHANGED vars  BY <1>14 DEF vars
<1> QED
  BY <1>1, <1>2, <1>3, <1>4, <1>5, <1>6, <1>7, <1>8, <1>9, <1>10, <1>11, <1>12,
     <1>13, <1>14 DEF Next, Handler, StartCall, Thread

(* On one CPU the driver loses no wake-up, whatever the processes do.      *)
THEOREM NoLostWakeup ==
  ASSUME SMP = FALSE
  PROVE  Spec => []NoSleepOnData
<1>1. Init => SleepInv
  BY TypeInit DEF Init, SleepInv, WokenBeforeFlag, NoSleepOnData
<1>2. SleepInv /\ [Next]_vars => SleepInv'
  BY TypeStep, SleepStep DEF SleepInv
<1>3. SleepInv => NoSleepOnData
  BY DEF SleepInv
<1> QED
  BY <1>1, <1>2, <1>3, PTL DEF Spec

-----------------------------------------------------------------------------
(* The published event is one sample, on one CPU.  The strengthening: the  *)
(* handler's own progress through the two words.                           *)
Sample == [key |-> KEY_ENTER, val |-> hval]
HandlerProgress == /\ hpc = "val" => event.key = KEY_ENTER
                   /\ hpc \in {"wake", "flag"} => event = Sample
EventInv == TypeOK /\ HandlerProgress /\ PublishedEventIsWhole

(* A process step outside the clearing code touches neither the event nor  *)
(* the flag, and takes no process out of the clearing code.                *)
LEMMA QuietStep ==
  ASSUME TypeOK, NEW r \in Readers,
         \/ StartCall(r) \/ WaitStep(r) \/ PollStep(r) \/ PollTimeout(r)
         \/ SignalThread(r) \/ ReadLength(r) \/ ReadTooShort(r)
         \/ CopyKey(r) \/ CopyVal(r) \/ CopyFault(r)
  PROVE  /\ UNCHANGED <<event, key_state, hpc, hval>>
         /\ \A q \in Readers : pc[q] \in ClearPCs => pc'[q] \in ClearPCs
<1> USE DEF TypeOK, line, handler, device, process, Goto, Return, At, ClearPCs
<1>1. CASE StartCall(r)  BY <1>1 DEF StartCall, ReadEnter, PollEnter
<1>2. CASE WaitStep(r)
  BY <1>2 DEF WaitStep, WaitCond, WaitPrepare, WaitRecheck, WaitInterrupted, WaitWoken
<1>3. CASE PollStep(r)  BY <1>3 DEF PollStep, PollCheck, PollWoken, PollLast
<1>4. CASE PollTimeout(r) \/ SignalThread(r)  BY <1>4 DEF PollTimeout, SignalThread
<1>5. CASE \/ ReadLength(r) \/ ReadTooShort(r) \/ CopyKey(r) \/ CopyVal(r) \/ CopyFault(r)
  BY <1>5 DEF ReadLength, ReadTooShort, CopyKey, CopyVal, CopyFault
<1> QED  BY <1>1, <1>2, <1>3, <1>4, <1>5

LEMMA EventStep ==
  ASSUME SMP = FALSE, EventInv, [Next]_vars
  PROVE  HandlerProgress' /\ PublishedEventIsWhole'
<1> USE DEF EventInv, HandlerProgress, PublishedEventIsWhole, Sample
<1>1. CASE KeyEdge  BY <1>1 DEF KeyEdge, handler, device
<1>2. CASE HandlerEnter  BY <1>2 DEF HandlerEnter
<1>3. CASE HandlerKey  BY <1>3 DEF HandlerKey, TypeOK, Events
<1>4. CASE HandlerVal
  <2>1. event' = Sample /\ hval' = hval
    BY <1>4 DEF HandlerVal, TypeOK, Events
  <2>2. hpc' = "wake"
    BY <1>4 DEF HandlerVal
  <2> QED  BY <2>1, <2>2
<1>5. CASE HandlerWake  BY <1>5 DEF HandlerWake, device
<1>6. CASE HandlerFlag  BY <1>6 DEF HandlerFlag
<1>7. ASSUME NEW r \in Readers, ClearKey(r) \/ ClearVal(r)
      PROVE  HandlerProgress' /\ PublishedEventIsWhole'
  <2>1. hpc' = "idle" /\ pc'[r] \in ClearPCs
    BY <1>7, SMP = FALSE
    DEF ClearKey, ClearVal, At, CpuFree, Goto, handler, TypeOK, ClearPCs
  <2> QED  BY <2>1
<1>8. ASSUME NEW r \in Readers, ClearFlag(r)
      PROVE  HandlerProgress' /\ PublishedEventIsWhole'
  <2>1. hpc' = "idle" /\ key_state' = 0
    BY <1>8, SMP = FALSE DEF ClearFlag, At, CpuFree, handler
  <2> QED  BY <2>1
<1>9. ASSUME NEW r \in Readers,
         \/ StartCall(r) \/ WaitStep(r) \/ PollStep(r) \/ PollTimeout(r)
         \/ SignalThread(r) \/ ReadLength(r) \/ ReadTooShort(r)
         \/ CopyKey(r) \/ CopyVal(r) \/ CopyFault(r)
      PROVE  HandlerProgress' /\ PublishedEventIsWhole'
  <2>1. /\ UNCHANGED <<event, key_state, hpc, hval>>
        /\ \A q \in Readers : pc[q] \in ClearPCs => pc'[q] \in ClearPCs
    BY <1>9, QuietStep
  <2> QED  BY <2>1
<1>10. CASE UNCHANGED vars  BY <1>10 DEF vars
<1> QED
  BY <1>1, <1>2, <1>3, <1>4, <1>5, <1>6, <1>7, <1>8, <1>9, <1>10
  DEF Next, Handler, Thread, ReadStep

(* On one CPU an event that is up for reading is exactly the last sample.  *)
THEOREM PublishedWhole ==
  ASSUME SMP = FALSE
  PROVE  Spec => []PublishedEventIsWhole
<1>1. Init => EventInv
  BY TypeInit DEF Init, EventInv, HandlerProgress, PublishedEventIsWhole
<1>2. EventInv /\ [Next]_vars => EventInv'
  BY TypeStep, EventStep DEF EventInv
<1>3. EventInv => PublishedEventIsWhole
  BY DEF EventInv
<1> QED
  BY <1>1, <1>2, <1>3, PTL DEF Spec

-----------------------------------------------------------------------------
(* A single process that has the device to itself, on any number of CPUs.  *)
AloneInv == /\ TypeOK /\ NonBlockNeverSleeps /\ PollPromise
            /\ \A r \in Readers : nonblock[r] /\ pc[r] = "cond" => key_state = 1

LEMMA AloneStep ==
  ASSUME NEW p, Readers = {p}, AloneInv, [Next]_vars
  PROVE  AloneInv'
<1> USE DEF AloneInv, NonBlockNeverSleeps, PollPromise, ReadWaitPCs, ClearPCs
<1>1. TypeOK'
  BY TypeStep
<1> USE DEF TypeOK, line, handler, device, process, Goto, Return, At
<1>2. CASE KeyEdge  BY <1>1, <1>2 DEF KeyEdge
<1>3. CASE Handler
  <2>1. UNCHANGED <<pc, nonblock, ret>> /\ key_state' \in {key_state, 1}
    BY <1>3 DEF Handler, HandlerEnter, HandlerKey, HandlerVal, HandlerWake, HandlerFlag
  <2> QED  BY <1>1, <2>1
<1>4. ASSUME NEW r \in Readers, NEW nb \in BOOLEAN, ReadEnter(r, nb)
      PROVE  AloneInv'
  <2>1. CASE nb /\ key_state = 0  BY <1>1, <1>4, <2>1 DEF ReadEnter
  <2>2. CASE ~(nb /\ key_state = 0)  BY <1>1, <1>4, <2>2 DEF ReadEnter
  <2> QED  BY <2>1, <2>2
<1>5. ASSUME NEW r \in Readers, PollEnter(r) \/ PollTimeout(r) \/ SignalThread(r)
      PROVE  AloneInv'
  BY <1>1, <1>5 DEF PollEnter, PollTimeout, SignalThread
<1>6. ASSUME NEW r \in Readers, WaitStep(r)  PROVE AloneInv'
  BY <1>1, <1>6
  DEF WaitStep, WaitCond, WaitPrepare, WaitRecheck, WaitInterrupted, WaitWoken
<1>7. ASSUME NEW r \in Readers, ReadStep(r)  PROVE AloneInv'
  <2>1. CASE ReadLength(r) \/ ReadTooShort(r)
    BY <1>1, <1>7, <2>1 DEF ReadLength, ReadTooShort
  <2>2. CASE CopyKey(r) \/ CopyVal(r) \/ CopyFault(r)
    BY <1>1, <1>7, <2>2 DEF CopyKey, CopyVal, CopyFault
  <2>3. CASE ClearKey(r) \/ ClearVal(r) \/ ClearFlag(r)
    BY <1>1, <1>7, <2>3 DEF ClearKey, ClearVal, ClearFlag
  <2> QED  BY <1>7, <2>1, <2>2, <2>3 DEF ReadStep
<1>8. ASSUME NEW r \in Readers, PollStep(r)  PROVE AloneInv'
  BY <1>1, <1>8 DEF PollStep, PollCheck, PollWoken, PollLast
<1>9. CASE UNCHANGED vars  BY <1>1, <1>9 DEF vars
<1> QED
  BY <1>2, <1>3, <1>4, <1>5, <1>6, <1>7, <1>8, <1>9 DEF Next, StartCall, Thread

(* A process alone on the device: O_NONBLOCK never sleeps, and what poll   *)
(* promised is still there when the process comes to read it.              *)
THEOREM AloneKeepsPromises ==
  ASSUME NEW p, Readers = {p}
  PROVE  Spec => [](NonBlockNeverSleeps /\ PollPromise)
<1>1. Init => AloneInv
  BY TypeInit DEF Init, AloneInv, NonBlockNeverSleeps, PollPromise
<1>2. AloneInv /\ [Next]_vars => AloneInv'
  BY AloneStep
<1>3. AloneInv => NonBlockNeverSleeps /\ PollPromise
  BY DEF AloneInv
<1> QED
  BY <1>1, <1>2, <1>3, PTL DEF Spec

-----------------------------------------------------------------------------
(* The delivered event.  A process alone on one CPU and without signals    *)
(* enters the copy only with the flag up, so that EventInv speaks about    *)
(* what it copies.                                                         *)
CopyingMeansData ==
  \A r \in Readers : /\ ~signal[r] /\ pc[r] # "recheck_sig"
                     /\ pc[r] \in CopyPCs => key_state = 1
                     /\ pc[r] = "copyval" => ubuf[r].key = KEY_ENTER
DeliverInv == EventInv /\ CopyingMeansData

LEMMA DeliverStep ==
  ASSUME NEW p, Readers = {p}, SMP = FALSE, Signals = FALSE,
         DeliverInv, [Next]_vars
  PROVE  CopyingMeansData'
<1> USE DEF DeliverInv, EventInv, CopyingMeansData, CopyPCs
<1> USE DEF TypeOK, line, handler, device, process, Goto, Return, At
<1>1. CASE KeyEdge  BY <1>1 DEF KeyEdge
<1>2. CASE Handler
  <2>1. UNCHANGED <<pc, signal, ubuf>> /\ key_state' \in {key_state, 1}
    BY <1>2 DEF Handler, HandlerEnter, HandlerKey, HandlerVal, HandlerWake, HandlerFlag
  <2> QED  BY <2>1
<1>3. ASSUME NEW r \in Readers, NEW nb \in BOOLEAN, ReadEnter(r, nb)
      PROVE  CopyingMeansData'
  BY <1>3 DEF ReadEnter
<1>4. ASSUME NEW r \in Readers, PollEnter(r) \/ PollTimeout(r) \/ SignalThread(r)
      PROVE  CopyingMeansData'
  BY <1>4, Signals = FALSE DEF PollEnter, PollTimeout, SignalThread
<1>5. ASSUME NEW r \in Readers, WaitStep(r)  PROVE CopyingMeansData'
  BY <1>5
  DEF WaitStep, WaitCond, WaitPrepare, WaitRecheck, WaitInterrupted, WaitWoken
<1>6. ASSUME NEW r \in Readers, ReadStep(r)  PROVE CopyingMeansData'
  <2>1. CASE ReadLength(r) \/ ReadTooShort(r)
    BY <1>6, <2>1 DEF ReadLength, ReadTooShort
  <2>2. CASE CopyKey(r)
    <3>1. hpc = "idle" /\ key_state = 1 /\ pc[r] \notin ClearPCs
      BY <2>2, SMP = FALSE DEF CopyKey, CpuFree, ClearPCs
    <3>2. event.key = KEY_ENTER
      BY <3>1, \A q \in Readers : q = r DEF PublishedEventIsWhole
    <3>3. ubuf'[r].key = KEY_ENTER
      BY <2>2, <3>2 DEF CopyKey, Events
    <3>4. UNCHANGED <<signal, key_state>> /\ pc'[r] = "copyval"
      BY <2>2 DEF CopyKey
    <3> QED  BY <2>2, <3>1, <3>3, <3>4
  <2>3. CASE CopyVal(r) \/ CopyFault(r)  BY <1>6, <2>3 DEF CopyVal, CopyFault
  <2>4. CASE ClearKey(r) \/ ClearVal(r) \/ ClearFlag(r)
    BY <1>6, <2>4 DEF ClearKey, ClearVal, ClearFlag
  <2> QED  BY <1>6, <2>1, <2>2, <2>3, <2>4 DEF ReadStep
<1>7. ASSUME NEW r \in Readers, PollStep(r)  PROVE CopyingMeansData'
  BY <1>7 DEF PollStep, PollCheck, PollWoken, PollLast
<1>8. CASE UNCHANGED vars  BY <1>8 DEF vars
<1> QED
  BY <1>1, <1>2, <1>3, <1>4, <1>5, <1>6, <1>7, <1>8 DEF Next, StartCall, Thread

(* However the handler interrupts the copy and the clearing, a process     *)
(* alone on one CPU and without signals is handed whole, current events.   *)
THEOREM DeliveredWhole ==
  ASSUME NEW p, Readers = {p}, SMP = FALSE, Signals = FALSE
  PROVE  Spec => ReadDeliversSample
<1>1. Init => DeliverInv
  BY TypeInit DEF Init, DeliverInv, EventInv, HandlerProgress,
     PublishedEventIsWhole, CopyingMeansData, CopyPCs
<1>2. DeliverInv /\ [Next]_vars => DeliverInv'
  BY TypeStep, EventStep, DeliverStep DEF DeliverInv, EventInv
<1>3. ASSUME DeliverInv, NEW r \in Readers, CopyVal(r)
      PROVE  ubuf'[r] = [key |-> KEY_ENTER, val |-> hval]
  <2>1. hpc = "idle" /\ pc[r] = "copyval"
    BY <1>3, SMP = FALSE DEF CopyVal, At, CpuFree
  <2>2. key_state = 1 /\ ubuf[r].key = KEY_ENTER
    BY <1>3, <2>1 DEF DeliverInv, CopyingMeansData, CopyPCs
  <2>3. event.val = hval
    BY <1>3, <2>1, <2>2, \A q \in Readers : q = r
    DEF DeliverInv, EventInv, PublishedEventIsWhole, ClearPCs
  <2>4. ubuf[r] \in Events /\ ubuf'[r] = [ubuf[r] EXCEPT !.val = hval]
    BY <1>3, <2>3 DEF DeliverInv, EventInv, TypeOK, CopyVal
  <2> QED  BY <2>2, <2>4 DEF Events
<1>4. DeliverInv => [\A r \in Readers :
        CopyVal(r) => ubuf'[r] = [key |-> KEY_ENTER, val |-> hval]]_vars
  BY <1>3
<1> QED
  BY <1>1, <1>2, <1>4, PTL DEF Spec, ReadDeliversSample
=============================================================================
