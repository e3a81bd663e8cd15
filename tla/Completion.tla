----------------------------- MODULE Completion -----------------------------
(***************************************************************************)
(* A completion (src/components/drivers/src/completion.c): one thread      *)
(* waits, with or without a timeout, for what an interrupt or another      *)
(* thread reports as done.                                                 *)
(***************************************************************************)
EXTENDS IPC

CONSTANT
  Cp     \* the completion, or rather its suspend list

VARIABLE
  cp     \* completed: flag = RT_COMPLETED

cpvars == <<k, pc, call, ret, use, cp>>

\* rt_completion_init
CpInit == cp = [completed |-> FALSE]

CpTypeOK == cp \in [completed : BOOLEAN]

CpWaiters == Range(k.list[Cp])

-----------------------------------------------------------------------------
\* "only one thread can suspend on complete": a use names the thread that waits.
rt_completion_wait(t, time) ==
  /\ Runs(t) /\ t = use.waiter
  /\ \/ /\ cp.completed
        /\ cp' = [completed |-> FALSE]
        /\ Return(t, "run", "EOK")
        /\ UNCHANGED k
     \/ /\ ~cp.completed /\ time = 0
        /\ Return(t, "run", "ETIMEOUT")
        /\ UNCHANGED <<k, cp>>
     \/ /\ ~cp.completed /\ time # 0
        /\ k' = WaitOn(k, Cp, t, "FIFO", time)
        /\ Continue(t, "block", [NoCall EXCEPT !.op = "completion_wait", !.obj = Cp])
        /\ UNCHANGED cp

\* rt_completion_wait after rt_schedule has returned.
CpWoken(t) ==
  /\ At(t, "woken")
  /\ Return(t, "run", k.error[t])
  /\ cp' = [completed |-> FALSE]
  /\ UNCHANGED k

\* rt_completion_done looks at the flag before it disables interrupts.
rt_completion_done(t) ==
  /\ Runs(t) /\ ~cp.completed
  /\ Continue(t, "cp_done", [NoCall EXCEPT !.op = "completion_done", !.obj = Cp])
  /\ UNCHANGED <<k, cp>>

\* Its interrupts-disabled section.
CpDone(t) ==
  /\ At(t, "cp_done")
  /\ cp' = [completed |-> TRUE]
  /\ k' = ResumeOne(k, Cp)
  /\ Continue(t, Resuming(Cp), NoCall)

\* An interrupt handler that calls rt_completion_done.
CpInterrupt ==
  /\ ~k.isr /\ ~cp.completed
  /\ cp' = [completed |-> TRUE]
  /\ k' = ResumeOneFromInterrupt(k, Cp)
  /\ UNCHANGED <<pc, call, ret>>

CpStep(t) ==
  \/ \E time \in use.times : rt_completion_wait(t, time)
  \/ CpWoken(t) \/ rt_completion_done(t) \/ CpDone(t)
  \/ SleepStep(t) /\ UNCHANGED cp

CpNext ==
  \/ UNCHANGED use /\ \E t \in Thread : CpStep(t)
  \/ UNCHANGED use /\ CpInterrupt
  \/ Processor /\ UNCHANGED cp

-----------------------------------------------------------------------------
(* Properties.                                                             *)

\* The flag and the wakeup agree, however a timeout, an interrupt and a thread that
\* is half way through rt_completion_done meet: nobody waits for what is completed,
\* and who is about to return RT_EOK does so for a completion that nobody else saw.
CpHandshake ==
  /\ CpWaiters # {} => ~cp.completed
  /\ \A t \in Thread \ CpWaiters :
       call[t].op = "completion_wait" /\ k.error[t] = "EOK" => cp.completed
=============================================================================
