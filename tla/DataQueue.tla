------------------------------ MODULE DataQueue ------------------------------
(***************************************************************************)
(* A data queue (src/components/drivers/src/dataqueue.c), with which       *)
(* drivers hand buffers to interrupt handlers: a ring with a low-water     *)
(* mark, at which a waiting pusher is woken.  Its callback evt_notify is   *)
(* left out.                                                               *)
(***************************************************************************)
EXTENDS IPC

CONSTANTS
  DqIn, DqOut,   \* suspended_push_list and suspended_pop_list
  DqSize,        \* size, a power of two: items are found with the mask size - 1
  DqLwm,         \* lwm
  Item           \* the data pointers that are pushed

VARIABLE
  dq     \* items (queue), put, get (the indices), lwm (waiting_lwm), taken (what an
         \* interrupt popped last), masked (a pop returned with interrupts disabled)

dqvars == <<k, pc, call, ret, use, dq>>

\* rt_data_queue_init; the items are not initialised.
DqInit ==
  dq = [items |-> [i \in 0 .. DqSize - 1 |-> CHOOSE d \in Item : TRUE],
        put |-> 0, get |-> 0, lwm |-> FALSE, taken |-> "none", masked |-> FALSE]

DqTypeOK ==
  /\ dq.items \in [0 .. DqSize - 1 -> Item]
  /\ dq.put \in 0 .. 65535 /\ dq.get \in 0 .. 65535
  /\ dq.taken \in Item \cup {"none"} /\ dq.lwm \in BOOLEAN /\ dq.masked \in BOOLEAN

-----------------------------------------------------------------------------
DqFull == dq.put - dq.get = DqSize

DqEmpty == dq.get = dq.put

DqPut(d) == [dq EXCEPT !.items[dq.put % DqSize] = d, !.put = (@ + 1) % 2^16]

\* One round of the loop of rt_data_queue_push, and what follows it.  The timer
\* is set to the whole timeout again in every round.
DqTryPush(t, d, time) ==
  \/ /\ ~DqFull
     /\ dq' = DqPut(d)
     /\ k' = ResumeOne(k, DqOut)
     /\ Continue(t, Resuming(DqOut), NoCall)
  \/ /\ DqFull /\ time = 0
     /\ dq' = [dq EXCEPT !.lwm = TRUE]
     /\ Continue(t, "run", NoCall)
     /\ UNCHANGED k
  \/ /\ DqFull /\ time # 0
     /\ dq' = [dq EXCEPT !.lwm = TRUE]
     /\ k' = WaitOn(k, DqIn, t, "FIFO", time)
     /\ Continue(t, "block", [NoCall EXCEPT !.op = "dq_push", !.obj = DqIn, !.arg = d, !.time = time])

AtLowWater_Strict == dq.lwm /\ dq.put - ((dq.get + 1) % 2^16) < DqLwm

\* After the pop the queue is down to its low-water mark, and a push met a full one.
AtLowWater == dq.lwm /\ dq.put - ((dq.get + 1) % 2^16) <= DqLwm

DqGot_KeepsFlag ==
  [dq EXCEPT !.get = (@ + 1) % 2^16, !.masked = AtLowWater /\ k.list[DqIn] = <<>>]

\* If the low-water mark is reached and nobody waits to push, rt_data_queue_pop
\* returns without enabling interrupts.
DqGot ==
  [dq EXCEPT !.get = (@ + 1) % 2^16,
             !.lwm = @ /\ ~AtLowWater,
             !.masked = AtLowWater /\ k.list[DqIn] = <<>>]

\* One round of the loop of rt_data_queue_pop, and what follows it; ret is *data_ptr.
DqTryPop(t, time) ==
  \/ /\ ~DqEmpty
     /\ dq' = DqGot
     /\ k' = IF AtLowWater THEN ResumeOne(k, DqIn) ELSE k
     /\ Return(t, IF AtLowWater THEN Resuming(DqIn) ELSE "run", dq.items[dq.get % DqSize])
  \/ /\ DqEmpty /\ time = 0
     /\ Continue(t, "run", NoCall)
     /\ UNCHANGED <<k, dq>>
  \/ /\ DqEmpty /\ time # 0
     /\ k' = WaitOn(k, DqOut, t, "FIFO", time)
     /\ Continue(t, "block", [NoCall EXCEPT !.op = "dq_pop", !.obj = DqOut, !.time = time])
     /\ UNCHANGED dq

\* A use bounds the number of pushes.
rt_data_queue_push(t, d, time) ==
  Runs(t) /\ t \in use.senders /\ dq.put < use.pushes /\ DqTryPush(t, d, time)

rt_data_queue_pop(t, time) == Runs(t) /\ t \in use.receivers /\ DqTryPop(t, time)

\* Either of them after rt_schedule has returned.
DqWoken(t) ==
  /\ At(t, "woken")
  /\ \/ k.error[t] # "EOK" /\ Continue(t, "run", NoCall) /\ UNCHANGED <<k, dq>>
     \/ k.error[t] = "EOK" /\ call[t].op = "dq_push" /\ DqTryPush(t, call[t].arg, call[t].time)
     \/ k.error[t] = "EOK" /\ call[t].op = "dq_pop" /\ DqTryPop(t, call[t].time)

\* An interrupt handler that calls rt_data_queue_pop or rt_data_queue_push.
DqPopInterrupt ==
  /\ ~k.isr /\ "pop" \in use.interrupts /\ ~DqEmpty
  /\ dq' = [DqGot EXCEPT !.taken = dq.items[dq.get % DqSize]]
  /\ k' = IF AtLowWater THEN ResumeOneFromInterrupt(k, DqIn) ELSE k
  /\ UNCHANGED <<pc, call, ret>>

DqPushInterrupt(d) ==
  /\ ~k.isr /\ "push" \in use.interrupts /\ dq.put < use.pushes
  /\ \/ /\ ~DqFull
        /\ dq' = DqPut(d)
        /\ k' = ResumeOneFromInterrupt(k, DqOut)
     \/ /\ DqFull
        /\ dq' = [dq EXCEPT !.lwm = TRUE]
        /\ UNCHANGED k
  /\ UNCHANGED <<pc, call, ret>>

\* rt_data_queue_reset, called by a pusher: with the scheduler locked, first the
\* poppers and then the pushers.
DqReset(t) ==
  /\ use.resets /\ Runs(t) /\ t \in use.senders
  /\ ResumeAllFrom(t, DqOut)
  /\ k' = [k EXCEPT !.lock = @ + 1]
  /\ UNCHANGED dq

DqResetNext(t) ==
  /\ ResumeAllDone(t) /\ call[t].obj = DqOut
  /\ ResumeAllFrom(t, DqIn)
  /\ UNCHANGED <<k, dq>>

DqResetEnd(t) ==
  /\ ResumeAllDone(t) /\ call[t].obj = DqIn
  /\ k' = [k EXCEPT !.lock = @ - 1]
  /\ Continue(t, "sched", NoCall)
  /\ UNCHANGED dq

DqStep(t) ==
  \/ \E time \in use.times :
       rt_data_queue_pop(t, time) \/ \E d \in use.mails : rt_data_queue_push(t, d, time)
  \/ DqWoken(t) \/ DqReset(t) \/ DqResetNext(t) \/ DqResetEnd(t)
  \/ (ResumeAllStep(t) \/ SleepStep(t)) /\ UNCHANGED dq

DqNext ==
  /\ ~dq.masked
  /\ \/ UNCHANGED use /\ \E t \in Thread : DqStep(t)
     \/ UNCHANGED use /\ (DqPopInterrupt \/ \E d \in use.mails : DqPushInterrupt(d))
     \/ Processor /\ UNCHANGED dq

-----------------------------------------------------------------------------
(* Properties.                                                             *)

\* As long as its 16 bit indices do not wrap a data queue is a bounded queue, whoever
\* pushes and pops, a thread or an interrupt.
DqAbstract ==
  INSTANCE BoundedQueue WITH
    Receiver <- Thread \cup {Wild}, Message <- Item, Size <- DqSize,
    got <- [r \in Thread \cup {Wild} |-> IF r = Wild THEN dq.taken ELSE LastReceived("dataqueue")[r]],
    q <- [i \in 1 .. dq.put - dq.get |-> dq.items[(dq.get + i - 1) % DqSize]]

DqImplements == DqAbstract!Spec

\* Nobody waits in vain, if one thread pushes: a pusher waits only above the low-
\* water mark and with waiting_lwm set, so that the pop that reaches the mark will
\* wake it; and the items that are there are no more than the woken poppers.
DqNoLostWakeup ==
  /\ k.list[DqIn] # <<>> => dq.lwm /\ dq.put - dq.get > DqLwm
  /\ k.list[DqOut] # <<>> =>
       dq.put - dq.get <= Cardinality({t \in Thread \ Range(k.list[DqOut]) :
                                         call[t].op = "dq_pop" /\ k.error[t] = "EOK"})

\* "there is at least one thread in suspended list and less than low water mark": no
\* function of the data queue returns with interrupts disabled.
DqInterruptsBack == ~dq.masked
=============================================================================
