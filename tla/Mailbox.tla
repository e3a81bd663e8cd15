------------------------------- MODULE Mailbox -------------------------------
(***************************************************************************)
(* A mailbox (src/src/ipc.c): a ring of mails with a suspend list at each  *)
(* end.  Whoever is woken looks again, and waits again for the rest of its *)
(* time if somebody was faster.                                            *)
(***************************************************************************)
EXTENDS IPC

CONSTANTS
  MbIn, MbOut,   \* the lists suspend_sender_thread and parent.suspend_thread
  MbSize,        \* size
  Mail           \* the values that are sent

VARIABLE
  mb     \* pool (msg_pool), in, out (the offsets), entry, life

mbvars == <<k, pc, call, ret, use, mb>>

\* rt_mb_init, rt_mb_create; the pool is not initialised.
rt_mb_init(pool) ==
  [pool |-> pool, in |-> 0, out |-> 0, entry |-> 0, life |-> "live"]

MbInit == mb = rt_mb_init([i \in 0 .. MbSize - 1 |-> CHOOSE v \in Mail : TRUE])

MbTypeOK ==
  /\ mb.pool \in [0 .. MbSize - 1 -> Mail]
  /\ mb.in \in 0 .. MbSize - 1 /\ mb.out \in 0 .. MbSize - 1 /\ mb.entry \in 0 .. MbSize
  /\ mb.life \in {"live", "ending", "gone"}

-----------------------------------------------------------------------------
Advance(i) == IF i + 1 >= MbSize THEN 0 ELSE i + 1

Stored(v) == [mb EXCEPT !.pool[mb.in] = v, !.in = Advance(@), !.entry = @ + 1]

Fetched == [mb EXCEPT !.out = Advance(@), !.entry = @ - 1]

MbSending(v, n) == [NoCall EXCEPT !.op = "mb_send", !.obj = MbIn, !.arg = v, !.time = n]

MbReceiving(n) == [NoCall EXCEPT !.op = "mb_recv", !.obj = MbOut, !.time = n]

\* One round of the loop of rt_mb_send_wait, and what follows it.
MbTrySend(t, v, time) ==
  \/ /\ mb.entry < MbSize
     /\ mb' = Stored(v)
     /\ k' = ResumeOne(k, MbOut)
     /\ Continue(t, Resuming(MbOut), NoCall)
  \/ /\ mb.entry = MbSize /\ time = 0
     /\ Continue(t, "run", NoCall)
     /\ UNCHANGED <<k, mb>>
  \/ /\ mb.entry = MbSize /\ time # 0
     /\ k' = WaitOn(k, MbIn, t, use.flag, time)
     /\ Continue(t, "block", MbSending(v, time))
     /\ UNCHANGED mb

\* One round of the loop of rt_mb_recv, and what follows it; ret is *value, and e
\* the error number left by a round that finds no time to wait.
MbTryRecv(t, time, e) ==
  \/ /\ mb.entry > 0
     /\ mb' = Fetched
     /\ k' = ResumeOne(k, MbIn)
     /\ Return(t, Resuming(MbIn), mb.pool[mb.out])
  \/ /\ mb.entry = 0 /\ time = 0
     /\ k' = [k EXCEPT !.error[t] = e]
     /\ Continue(t, "run", NoCall)
     /\ UNCHANGED mb
  \/ /\ mb.entry = 0 /\ time # 0
     /\ k' = WaitOn(k, MbOut, t, use.flag, time)
     /\ Continue(t, "block", MbReceiving(time))
     /\ UNCHANGED mb

\* rt_mb_send_wait; with time 0 rt_mb_send.
rt_mb_send_wait(t, v, time) ==
  Runs(t) /\ t \in use.senders /\ mb.life = "live" /\ MbTrySend(t, v, time)

rt_mb_recv(t, time) ==
  Runs(t) /\ t \in use.receivers /\ mb.life = "live" /\ MbTryRecv(t, time, k.error[t])

\* Either of them after rt_schedule has returned.
MbWoken(t) ==
  /\ At(t, "woken")
  /\ \/ k.error[t] # "EOK" /\ Continue(t, "run", NoCall) /\ UNCHANGED <<k, mb>>
     \/ k.error[t] = "EOK" /\ call[t].op = "mb_send" /\ MbTrySend(t, call[t].arg, call[t].time)
     \/ k.error[t] = "EOK" /\ call[t].op = "mb_recv" /\ MbTryRecv(t, call[t].time, "ETIMEOUT")

\* An interrupt handler that calls rt_mb_send.
MbInterrupt(v) ==
  /\ ~k.isr /\ mb.life = "live" /\ mb.entry < MbSize
  /\ mb' = Stored(v)
  /\ k' = ResumeOneFromInterrupt(k, MbOut)
  /\ UNCHANGED <<pc, call, ret>>

\* rt_mb_control(RT_IPC_CMD_RESET)
MbReset(t) ==
  /\ use.resets
  /\ Runs(t) /\ mb.life = "live"
  /\ k' = rt_ipc_list_resume_all(rt_ipc_list_resume_all(k, MbOut), MbIn)
  /\ mb' = rt_mb_init(mb.pool)
  /\ Goto(t, "sched")
  /\ UNCHANGED <<call, ret>>

\* rt_mb_delete and rt_mb_detach: first the receivers, then the senders.  The
\* application has to make sure that no thread is between its wakeup and its return.
MbDelete(t) ==
  /\ use.deletes
  /\ Runs(t) /\ mb.life = "live"
  /\ \A u \in Thread : pc[u] \in {"block", "woken"} => u \in Range(k.list[MbIn] \o k.list[MbOut])
  /\ mb' = [mb EXCEPT !.life = "ending"]
  /\ ResumeAllFrom(t, MbOut)
  /\ UNCHANGED k

MbDeleteNext(t) ==
  /\ ResumeAllDone(t) /\ call[t].obj = MbOut
  /\ ResumeAllFrom(t, MbIn)
  /\ UNCHANGED <<k, mb>>

MbDeleteEnd(t) ==
  /\ ResumeAllDone(t) /\ call[t].obj = MbIn
  /\ mb' = [mb EXCEPT !.life = "gone"]
  /\ Continue(t, "run", NoCall)
  /\ UNCHANGED k

MbCreate(t) ==
  /\ Runs(t) /\ mb.life = "gone"
  /\ mb' = rt_mb_init(mb.pool)
  /\ UNCHANGED <<k, pc, call, ret>>

MbStep(t) ==
  \/ \E time \in use.times : rt_mb_recv(t, time) \/ \E v \in use.mails : rt_mb_send_wait(t, v, time)
  \/ MbWoken(t) \/ MbReset(t)
  \/ MbDelete(t) \/ MbDeleteNext(t) \/ MbDeleteEnd(t) \/ MbCreate(t)
  \/ (ResumeAllStep(t) \/ SleepStep(t)) /\ UNCHANGED mb

MbNext ==
  \/ UNCHANGED use /\ \E t \in Thread : MbStep(t)
  \/ UNCHANGED use /\ \E v \in use.mails : MbInterrupt(v)
  \/ Processor /\ UNCHANGED mb

-----------------------------------------------------------------------------
(* Properties.                                                             *)

\* A mailbox is a bounded queue: every mail is received once, in order, whatever
\* the threads at its two ends, its interrupts, timeouts and resets do.
MbAbstract ==
  INSTANCE BoundedQueue WITH
    Receiver <- Thread, Message <- Mail, Size <- MbSize, got <- LastReceived("mailbox"),
    q <- IF mb.life = "gone" THEN <<>>
         ELSE [i \in 1 .. mb.entry |-> mb.pool[(mb.out + i - 1) % MbSize]]

MbImplements == MbAbstract!Spec

\* How many threads were woken in function f and have yet to look.
Looking(f, h) ==
  Cardinality({t \in Thread \ Range(k.list[h]) : call[t].op = f /\ k.error[t] = "EOK"})

\* No lost wakeup at either end: while senders wait, no more places are free than
\* senders are on their way to take them, although a place that was free at the
\* wakeup may be gone and free again; and the same for receivers and mails.
MbNoLostWakeup ==
  mb.life = "live" =>
    /\ k.list[MbIn] # <<>> => MbSize - mb.entry <= Looking("mb_send", MbIn)
    /\ k.list[MbOut] # <<>> => mb.entry <= Looking("mb_recv", MbOut)

\* rt_mb_delete leaves nobody behind in either list.
MbNobodyLeft == mb.life = "gone" => k.list[MbIn] = <<>> /\ k.list[MbOut] = <<>>
=============================================================================
