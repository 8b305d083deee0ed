------------------------------- MODULE KeyIrq -------------------------------
(***************************************************************************)
(* The run-time half of the key interrupt driver (keyirq_demo.c, and the   *)
(* same handler, read and poll of platform_keyirqdrv.c): an interrupt      *)
(* handler publishes one key event in a global record, processes read it   *)
(* blocking, non-blocking or through poll, and a wait queue joins them.    *)
(*                                                                         *)
(* The grain is one access to shared memory per step.  The handler stores  *)
(* the event word by word, wakes the queue and only then raises the flag;  *)
(* wait_event_interruptible and poll are spelled out as far as their order *)
(* of queueing, testing the condition and sleeping goes.                   *)
(***************************************************************************)
EXTENDS Naturals, FiniteSets

CONSTANTS Readers,     \* the processes that hold the device file open
          Calls,       \* the calls they make: blocking read, O_NONBLOCK read, poll
          SMP,         \* FALSE: one CPU, the handler runs before any process resumes
          Signals      \* TRUE: processes may be sent signals

ASSUME KeyIrqAssumption ==
         /\ Calls \subseteq {"read", "readnb", "poll"}
         /\ SMP \in BOOLEAN
         /\ Signals \in BOOLEAN

KEY_ENTER == 28        \* the only key value the handler writes
EXT_MASK == 128        \* 1 << RK3288_GPIO0A7_EXT_BIT

Events == [key : {0, KEY_ENTER}, val : {0, EXT_MASK}]
NoEvent == [key |-> 0, val |-> 0]          \* what memset leaves

VARIABLES level,       \* the pin: 1 while the line is high
          pending,     \* an edge latched by the interrupt controller
          hpc,         \* where the interrupt handler is
          hval,        \* val, the handler's sample of the pin (kept after it returns)
          event,       \* keyirq_demo_dev->event
          key_state,   \* keyirq_demo_dev->key_state
          wq_head,     \* threads on keyirq_demo_dev->wq_head that nothing has woken yet
          pc,          \* where each process is
          nonblock,    \* O_NONBLOCK is set for the call in progress
          signal,      \* signal_pending() of each process
          ubuf,        \* the user buffer of each process
          ret          \* the result of each process's last finished call

device == <<event, key_state>>
line == <<level, pending>>
handler == <<hpc, hval>>
process == <<nonblock, signal, ubuf, ret>>
vars == <<level, pending, hpc, hval, event, key_state, wq_head, pc, nonblock,
          signal, ubuf, ret>>

ReadWaitPCs == {"cond", "prep", "recheck", "recheck_sig", "asleep"}
CopyPCs == {"len", "copykey", "copyval"}
ClearPCs == {"clearkey", "clearval", "clearflag"}
PollPCs == {"pollcheck", "pollsleep", "polllast"}
PCs == {"user"} \cup ReadWaitPCs \cup CopyPCs \cup ClearPCs \cup PollPCs
Results == {"none", "EVENT", "EAGAIN", "EINVAL", "EFAULT", "EINTR", "POLLIN", "ZERO"}

(* After a successful load.  kmalloc clears nothing, so the event starts   *)
(* with any contents; the flag and the queue are initialised.              *)
Init == /\ level \in {0, 1} /\ pending = FALSE
        /\ hpc = "idle" /\ hval = 0
        /\ event \in Events /\ key_state = 0
        /\ wq_head = {}
        /\ pc = [r \in Readers |-> "user"]
        /\ nonblock = [r \in Readers |-> FALSE]
        /\ signal = [r \in Readers |-> FALSE]
        /\ ubuf = [r \in Readers |-> NoEvent]
        /\ ret = [r \in Readers |-> "none"]

-----------------------------------------------------------------------------
(* The key and the interrupt controller: the line is triggered by both     *)
(* edges, and an edge that comes while the handler runs stays latched.     *)
KeyEdge == /\ level' = 1 - level
           /\ pending' = TRUE
           /\ UNCHANGED <<handler, device, wq_head, pc, process>>

(* key_irq_handler.  One invocation at a time; it samples the pin, stores  *)
(* the two words of the event, wakes the queue, raises the flag.           *)
HandlerEnter == /\ hpc = "idle" /\ pending
                /\ pending' = FALSE
                /\ hval' = EXT_MASK * level
                /\ hpc' = "key"
                /\ UNCHANGED <<level, device, wq_head, pc, process>>

HandlerKey == /\ hpc = "key"
              /\ event' = [event EXCEPT !.key = KEY_ENTER]
              /\ hpc' = "val"
              /\ UNCHANGED <<line, hval, key_state, wq_head, pc, process>>

(* Faulty variants: the released branch forgets to store val; the value    *)
(* stored is the 1 of the comment at struct key_event.                     *)
HandlerValOnlyPressed ==
  /\ hpc = "val"
  /\ event' = [event EXCEPT !.val = IF hval # 0 THEN hval ELSE @]
  /\ hpc' = "wake"
  /\ UNCHANGED <<line, hval, key_state, wq_head, pc, process>>

HandlerValOne == /\ hpc = "val"
                 /\ event' = [event EXCEPT !.val = IF hval # 0 THEN 1 ELSE 0]
                 /\ hpc' = "wake"
                 /\ UNCHANGED <<line, hval, key_state, wq_head, pc, process>>

HandlerVal == /\ hpc = "val"
              /\ event' = [event EXCEPT !.val = hval]
              /\ hpc' = "wake"
              /\ UNCHANGED <<line, hval, key_state, wq_head, pc, process>>

(* Faulty variant: the handler wakes nobody.                               *)
HandlerWakeNobody == /\ hpc = "wake"
                     /\ hpc' = "flag"
                     /\ UNCHANGED <<line, hval, device, wq_head, pc, process>>

HandlerWake == /\ hpc = "wake"
               /\ wq_head' = {}
               /\ hpc' = "flag"
               /\ UNCHANGED <<line, hval, device, pc, process>>

(* Faulty variant: the flag is never raised.                               *)
HandlerFlagForgotten == /\ hpc = "flag"
                        /\ hpc' = "idle"
                        /\ UNCHANGED <<line, hval, device, wq_head, pc, process>>

HandlerFlag == /\ hpc = "flag"
               /\ key_state' = 1
               /\ hpc' = "idle"
               /\ UNCHANGED <<line, hval, event, wq_head, pc, process>>

Handler == HandlerEnter \/ HandlerKey \/ HandlerVal \/ HandlerWake \/ HandlerFlag

-----------------------------------------------------------------------------
(* Processes.  On one CPU none of them runs while the handler does.        *)
CpuFree == SMP \/ hpc = "idle"

At(r, label) == CpuFree /\ pc[r] = label
Goto(r, label) == pc' = [pc EXCEPT ![r] = label]

(* The call returns to user space; a pending signal is delivered there.    *)
Return(r, code) == /\ Goto(r, "user")
                   /\ ret' = [ret EXCEPT ![r] = code]
                   /\ signal' = [signal EXCEPT ![r] = FALSE]

(* A signal makes the sleeper runnable whatever it waits for.              *)
SignalThread(r) == /\ Signals /\ CpuFree
                   /\ pc[r] # "user" /\ ~signal[r]
                   /\ signal' = [signal EXCEPT ![r] = TRUE]
                   /\ wq_head' = wq_head \ {r}
                   /\ UNCHANGED <<line, handler, device, pc, nonblock, ubuf, ret>>

(* Faulty variant: the O_NONBLOCK test is left out.                        *)
ReadEnterUntested(r, nb) ==
  /\ At(r, "user")
  /\ (IF nb THEN "readnb" ELSE "read") \in Calls
  /\ nonblock' = [nonblock EXCEPT ![r] = nb]
  /\ Goto(r, "cond")
  /\ UNCHANGED <<line, handler, device, wq_head, signal, ubuf, ret>>

(* keyirq_demo_read: the O_NONBLOCK test before anything else.             *)
ReadEnter(r, nb) ==
  /\ At(r, "user")
  /\ (IF nb THEN "readnb" ELSE "read") \in Calls
  /\ nonblock' = [nonblock EXCEPT ![r] = nb]
  /\ IF nb /\ key_state = 0
       THEN Return(r, "EAGAIN")
       ELSE Goto(r, "cond") /\ UNCHANGED <<signal, ret>>
  /\ UNCHANGED <<line, handler, device, wq_head, ubuf>>

(* wait_event_interruptible: the condition first, without the queue.       *)
WaitCond(r) == /\ At(r, "cond")
               /\ Goto(r, IF key_state = 1 THEN "len" ELSE "prep")
               /\ UNCHANGED <<line, handler, device, wq_head, process>>

(* prepare_to_wait_event: queue the thread, unless a signal is pending.    *)
WaitPrepare(r) ==
  /\ At(r, "prep")
  /\ IF signal[r]
       THEN Goto(r, "recheck_sig") /\ wq_head' = wq_head \ {r}
       ELSE Goto(r, "recheck") /\ wq_head' = wq_head \cup {r}
  /\ UNCHANGED <<line, handler, device, process>>

(* The condition again, now queued: leave the queue if it holds, else call *)
(* schedule().  A signal ends the wait with an error the caller ignores.   *)
WaitRecheck(r) ==
  /\ At(r, "recheck")
  /\ IF key_state = 1
       THEN Goto(r, "len") /\ wq_head' = wq_head \ {r}
       ELSE Goto(r, "asleep") /\ UNCHANGED wq_head
  /\ UNCHANGED <<line, handler, device, process>>

WaitInterrupted(r) == /\ At(r, "recheck_sig")
                      /\ Goto(r, "len")
                      /\ UNCHANGED <<line, handler, device, wq_head, process>>

(* Somebody took the thread off the queue: schedule() returns.             *)
WaitWoken(r) == /\ At(r, "asleep") /\ r \notin wq_head
                /\ Goto(r, "prep")
                /\ UNCHANGED <<line, handler, device, wq_head, process>>

(* The length is looked at only after the wait.                            *)
ReadLength(r) == /\ At(r, "len")
                 /\ Goto(r, "copykey")
                 /\ UNCHANGED <<line, handler, device, wq_head, process>>

ReadTooShort(r) == /\ At(r, "len")
                   /\ Return(r, "EINVAL")
                   /\ UNCHANGED <<line, handler, device, wq_head, nonblock, ubuf>>

(* copy_to_user, word by word; it may fault before either word, and then   *)
(* nothing is cleared.                                                     *)
CopyKey(r) == /\ At(r, "copykey")
              /\ ubuf' = [ubuf EXCEPT ![r].key = event.key]
              /\ Goto(r, "copyval")
              /\ UNCHANGED <<line, handler, device, wq_head, nonblock, signal, ret>>

CopyVal(r) == /\ At(r, "copyval")
              /\ ubuf' = [ubuf EXCEPT ![r].val = event.val]
              /\ Goto(r, "clearkey")
              /\ UNCHANGED <<line, handler, device, wq_head, nonblock, signal, ret>>

CopyFault(r) == /\ CpuFree /\ pc[r] \in {"copykey", "copyval"}
                /\ Return(r, "EFAULT")
                /\ UNCHANGED <<line, handler, device, wq_head, nonblock, ubuf>>

(* memset of the two words, then key_state = 0.                            *)
ClearKey(r) == /\ At(r, "clearkey")
               /\ event' = [event EXCEPT !.key = 0]
               /\ Goto(r, "clearval")
               /\ UNCHANGED <<line, handler, key_state, wq_head, process>>

ClearVal(r) == /\ At(r, "clearval")
               /\ event' = [event EXCEPT !.val = 0]
               /\ Goto(r, "clearflag")
               /\ UNCHANGED <<line, handler, key_state, wq_head, process>>

(* Faulty variant: the flag is not reset.                                  *)
ClearFlagForgotten(r) ==
  /\ At(r, "clearflag")
  /\ Return(r, "EVENT")
  /\ UNCHANGED <<line, handler, device, wq_head, nonblock, ubuf>>

ClearFlag(r) == /\ At(r, "clearflag")
                /\ key_state' = 0
                /\ Return(r, "EVENT")
                /\ UNCHANGED <<line, handler, event, wq_head, nonblock, ubuf>>

-----------------------------------------------------------------------------
(* keyirq_demo_poll as the poll system call drives it: poll_wait queues    *)
(* the thread, the flag is tested, and the thread sleeps until woken, a    *)
(* signal or the timeout.                                                  *)
PollEnter(r) == /\ At(r, "user") /\ "poll" \in Calls
                /\ wq_head' = wq_head \cup {r}
                /\ Goto(r, "pollcheck")
                /\ UNCHANGED <<line, handler, device, process>>

(* Faulty variant: the mask is POLLIN whatever the flag says.              *)
PollCheckAlways(r) ==
  /\ At(r, "pollcheck")
  /\ Return(r, "POLLIN")
  /\ wq_head' = wq_head \ {r}
  /\ UNCHANGED <<line, handler, device, nonblock, ubuf>>

PollCheck(r) ==
  /\ At(r, "pollcheck")
  /\ IF key_state = 1 \/ signal[r]
       THEN /\ Return(r, IF key_state = 1 THEN "POLLIN" ELSE "EINTR")
            /\ wq_head' = wq_head \ {r}
       ELSE Goto(r, "pollsleep") /\ UNCHANGED <<signal, ret, wq_head>>
  /\ UNCHANGED <<line, handler, device, nonblock, ubuf>>

(* poll re-arms its queue entry before it calls the driver again.          *)
PollWoken(r) == /\ At(r, "pollsleep") /\ r \notin wq_head
                /\ wq_head' = wq_head \cup {r}
                /\ Goto(r, "pollcheck")
                /\ UNCHANGED <<line, handler, device, process>>

PollTimeout(r) == /\ At(r, "pollsleep")
                  /\ Goto(r, "polllast")
                  /\ UNCHANGED <<line, handler, device, wq_head, process>>

PollLast(r) ==
  /\ At(r, "polllast")
  /\ Return(r, IF key_state = 1 THEN "POLLIN"
               ELSE IF signal[r] THEN "EINTR" ELSE "ZERO")
  /\ wq_head' = wq_head \ {r}
  /\ UNCHANGED <<line, handler, device, nonblock, ubuf>>

-----------------------------------------------------------------------------
StartCall(r) == (\E nb \in BOOLEAN : ReadEnter(r, nb)) \/ PollEnter(r)

WaitStep(r) == \/ WaitCond(r) \/ WaitPrepare(r) \/ WaitRecheck(r)
               \/ WaitInterrupted(r) \/ WaitWoken(r)
ReadStep(r) == \/ ReadLength(r) \/ ReadTooShort(r)
               \/ CopyKey(r) \/ CopyVal(r) \/ CopyFault(r)
               \/ ClearKey(r) \/ ClearVal(r) \/ ClearFlag(r)
PollStep(r) == PollCheck(r) \/ PollWoken(r) \/ PollLast(r)

Thread(r) == WaitStep(r) \/ ReadStep(r) \/ PollStep(r)

Next == \/ KeyEdge \/ Handler
        \/ \E r \in Readers : \/ StartCall(r) \/ Thread(r)
                              \/ PollTimeout(r) \/ SignalThread(r)

(* A latched interrupt is served and its handler finishes; a runnable      *)
(* thread gets the CPU even if interrupts keep coming.  Nobody has to      *)
(* press the key, start a call, send a signal or set a timeout.            *)
Fairness == /\ WF_vars(Handler)
            /\ \A r \in Readers : SF_vars(Thread(r))

Spec == Init /\ [][Next]_vars
FairSpec == Spec /\ Fairness

-----------------------------------------------------------------------------
(* Every variable stays in its range; wq_head holds only threads between   *)
(* queueing themselves and leaving the wait.                               *)
TypeOK == /\ level \in {0, 1} /\ pending \in BOOLEAN
          /\ hpc \in {"idle", "key", "val", "wake", "flag"}
          /\ hval \in {0, EXT_MASK}
          /\ event \in Events /\ key_state \in {0, 1}
          /\ wq_head \subseteq Readers
          /\ pc \in [Readers -> PCs]
          /\ nonblock \in [Readers -> BOOLEAN]
          /\ signal \in [Readers -> BOOLEAN]
          /\ ubuf \in [Readers -> Events]
          /\ ret \in [Readers -> Results]

(* One CPU.  A thread that sleeps and that nothing has woken finds no      *)
(* event published: waking before raising the flag loses no wake-up,       *)
(* because no thread can test the flag between the two.                    *)
NoSleepOnData ==
  \A r \in Readers :
    pc[r] \in {"asleep", "pollsleep"} /\ r \in wq_head => key_state = 0

(* One CPU.  While the flag is up, the event belongs to the last sample of *)
(* the pin, key and value both, unless a reader is busy clearing it.       *)
PublishedEventIsWhole ==
  /\ hpc = "idle"
  /\ key_state = 1
  /\ \A r \in Readers : pc[r] \notin ClearPCs
  => event = [key |-> KEY_ENTER, val |-> hval]

(* One reader.  O_NONBLOCK keeps its word: a call that found the flag up   *)
(* never waits for another event.                                          *)
NonBlockNeverSleeps ==
  \A r \in Readers : nonblock[r] => pc[r] \notin ReadWaitPCs \ {"cond"}

(* One reader.  After POLLIN the flag stays up until the process reads the *)
(* event, so the read that follows poll never sleeps.                      *)
PollPromise ==
  \A r \in Readers :
    ret[r] = "POLLIN" /\ pc[r] \notin ClearPCs =>
      key_state = 1 /\ pc[r] \notin ReadWaitPCs \ {"cond"}

(* The comment before the wait: a read blocks until key_state = 1.         *)
ReadWaitsForData ==
  [][\A r \in Readers :
       pc[r] \in ReadWaitPCs /\ pc'[r] = "len" => key_state = 1]_vars

(* One reader, one CPU, no signals.  What a read has copied is one whole   *)
(* event, the latest sample of the pin, however the handler interrupts it. *)
ReadDeliversSample ==
  [][\A r \in Readers :
       CopyVal(r) => ubuf'[r] = [key |-> KEY_ENTER, val |-> hval]]_vars

(* A thread asleep while the flag is up gets going, or somebody takes the  *)
(* event first.                                                            *)
WokenWhenData ==
  \A r \in Readers :
    pc[r] \in {"asleep", "pollsleep"} /\ key_state = 1
      ~> pc[r] \notin {"asleep", "pollsleep"} \/ key_state = 0

(* One reader.  The next edge of the key ends the blocked read.            *)
BlockedReadReturns ==
  \A r \in Readers : pc[r] = "asleep" /\ pending ~> pc[r] = "user"
=============================================================================
