------------------------------- MODULE Objects -------------------------------
(***************************************************************************)
(* An application whose threads and interrupts share one of the objects    *)
(* they can wait for: the kernel's event, mailbox, message queue, memory   *)
(* pool and soft timers, and the completion, work queue, data queue and    *)
(* pipe of the driver framework.  The use says which one.                  *)
(***************************************************************************)
EXTENDS Event, Mailbox, MessageQueue, MemPool, Completion, WorkQueue, DataQueue, SoftTimer,
        Pipe

vars == <<k, pc, call, ret, use, ev, mb, mq, mp, cp, wq, dq, st, ring, taken>>

Init ==
  /\ IpcInit
  /\ EvInit /\ MbInit /\ MqInit /\ MpInit /\ CpInit /\ WqInit /\ DqInit /\ StInit
  /\ RbInit

TypeOK ==
  /\ IpcTypeOK
  /\ EvTypeOK /\ MbTypeOK /\ MqTypeOK /\ MpTypeOK /\ CpTypeOK /\ WqTypeOK /\ DqTypeOK /\ StTypeOK
  /\ RbTypeOK

Next ==
  \/ use.obj = "event" /\ EvNext /\ UNCHANGED <<mb, mq, mp, cp, wq, dq, st, rbvars>>
  \/ use.obj = "mailbox" /\ MbNext /\ UNCHANGED <<ev, mq, mp, cp, wq, dq, st, rbvars>>
  \/ use.obj = "messagequeue" /\ MqNext /\ UNCHANGED <<ev, mb, mp, cp, wq, dq, st, rbvars>>
  \/ use.obj = "mempool" /\ MpNext /\ UNCHANGED <<ev, mb, mq, cp, wq, dq, st, rbvars>>
  \/ use.obj = "completion" /\ CpNext /\ UNCHANGED <<ev, mb, mq, mp, wq, dq, st, rbvars>>
  \/ use.obj = "workqueue" /\ WqNext /\ UNCHANGED <<ev, mb, mq, mp, cp, dq, st, rbvars>>
  \/ use.obj = "dataqueue" /\ DqNext /\ UNCHANGED <<ev, mb, mq, mp, cp, wq, st, rbvars>>
  \/ use.obj = "softtimer" /\ StNext /\ UNCHANGED <<ev, mb, mq, mp, cp, wq, dq, rbvars>>
  \/ use.obj = "pipe" /\ PpNext /\ UNCHANGED <<ev, mb, mq, mp, cp, wq, dq, st>>

Spec == Init /\ [][Next]_vars

-----------------------------------------------------------------------------
(* Properties.                                                             *)

\* Whatever the objects do with the scheduler, also the driver helpers that go past
\* ipc.c, the kernel below is right: its lists, bitmap, states and timers agree, the
\* most urgent thread runs, and a caller that is back is out of every list.
Undisturbed == TypeOK /\ KernelConsistent /\ HighestRuns /\ BackMeansOut

\* Nobody sleeps beside what they wait for: an event that answers, a mail or a free
\* place, a message, a block; nor in a mailbox that is gone.
NoLostWakeup ==
  EvNobodyOverlooked /\ MbNoLostWakeup /\ MbNobodyLeft /\ MqNoLostWakeup /\ MpNoLostWakeup

\* The same of the driver helpers and of the timer thread, whose wakeups are
\* protocols of their own: nobody sleeps beside a completion, a work, an item or a
\* place, bytes or room, or an expired timer.
NobodyForgotten == CpHandshake /\ WqNotForgotten /\ DqNoLostWakeup /\ PpNotStuck /\ StNotForgotten

\* No block of a message queue or memory pool is lost or in two places, and the counts
\* beside the lists, from which the code concludes that they are not empty, are true.
BlocksConserved == MqBlocksConserved /\ MpBlocksConserved /\ MpCountTrue

\* Mailbox, message queue and data queue are bounded queues: what is sent is received
\* once and in order.
QueuesImplement == MbImplements /\ MqImplements /\ DqImplements
=============================================================================
