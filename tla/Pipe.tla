-------------------------------- MODULE Pipe --------------------------------
(***************************************************************************)
(* A pipe device (src/components/drivers/src/pipe.c): a ring buffer        *)
(* between threads, or an interrupt and threads, that may block at either  *)
(* end.  It calls rt_schedule with interrupts disabled.                    *)
(***************************************************************************)
EXTENDS IPC, RingBuffer

CONSTANTS
  PpIn, PpOut    \* suspended_write_list and suspended_read_list

\* A use gives the pipe's flags blockrd, blockwr and force, and who reads and writes.
ppvars == <<k, pc, call, ret, use, ring, taken>>

-----------------------------------------------------------------------------
\* _rt_pipe_resume_writer and _rt_pipe_resume_reader (without rx_indicate), on list h.
PpResume(kernel, h) ==
  IF kernel.list[h] # <<>> THEN rt_schedule(rt_ipc_list_resume(kernel, h)) ELSE kernel

\* Waiting for ever at the end of list h.
PpWait(t, h, f, a) ==
  /\ k' = rt_ipc_list_suspend(k, h, t, "FIFO")
  /\ Continue(t, "block", [NoCall EXCEPT !.op = f, !.obj = h, !.arg = a])
  /\ UNCHANGED rbvars

\* One round of the loop of rt_pipe_read, or the whole of it without blocking.
PpReads(t, n) ==
  /\ Got(ring, n) > 0 \/ ~use.blockrd
  /\ RbGet(n)
  /\ k' = IF Got(ring, n) > 0 THEN PpResume(k, PpIn) ELSE k
  /\ Continue(t, "run", NoCall)

PpTryRead(t, n) ==
  \/ PpReads(t, n)
  \/ Got(ring, n) = 0 /\ use.blockrd /\ PpWait(t, PpOut, "pp_read", n)

\* One round of the loop of rt_pipe_write, or the whole of it without blocking.
PpWrites(d) == IF use.force THEN RbPutForce(d) ELSE RbPut(d)

PpTryWrite(t, d) ==
  \/ /\ rt_ringbuffer_space_len(ring) > 0 \/ use.force \/ ~use.blockwr
     /\ PpWrites(d)
     /\ k' = PpResume(k, PpOut)
     /\ Continue(t, "run", NoCall)
  \/ /\ rt_ringbuffer_space_len(ring) = 0 /\ ~use.force /\ use.blockwr
     /\ PpWait(t, PpIn, "pp_write", d)

rt_pipe_read(t, n) == Runs(t) /\ t \in use.receivers /\ PpTryRead(t, n)

rt_pipe_write(t, d) == Runs(t) /\ t \in use.senders /\ PpTryWrite(t, d)

\* Either of them after rt_schedule has returned.
PpWoken(t) ==
  /\ At(t, "woken")
  /\ \/ call[t].op = "pp_read" /\ PpTryRead(t, call[t].arg)
     \/ call[t].op = "pp_write" /\ PpTryWrite(t, call[t].arg)

\* An interrupt handler that writes to a pipe whose writers do not block.
PpInterrupt(d) ==
  /\ ~k.isr /\ (use.force \/ ~use.blockwr)
  /\ PpWrites(d)
  /\ k' = PpResume(k, PpOut)
  /\ UNCHANGED <<pc, call, ret>>

PpStep(t) ==
  \/ \E n \in Lengths : rt_pipe_read(t, n)
  \/ \E d \in Datas : rt_pipe_write(t, d)
  \/ PpWoken(t)
  \/ t \in use.receivers /\ SleepStep(t) /\ UNCHANGED rbvars

PpNext ==
  \/ UNCHANGED use /\ \E t \in Thread : PpStep(t)
  \/ UNCHANGED use /\ \E d \in Datas : PpInterrupt(d)
  \/ Processor /\ UNCHANGED rbvars

-----------------------------------------------------------------------------
(* Properties.                                                             *)

\* Nobody waits for ever, if one thread reads: while it waits the pipe is empty or it
\* has been woken; and while writers wait there is something to read, so that the
\* next read wakes one of them, or one has been woken.
PpNotStuck ==
  LET woken(f, h) == \E t \in Thread \ Range(k.list[h]) : call[t].op = f IN
  /\ k.list[PpOut] # <<>> => Content(ring) = <<>> \/ woken("pp_read", PpOut)
  /\ k.list[PpIn] # <<>> => Content(ring) # <<>> \/ woken("pp_write", PpIn)
=============================================================================
