----------------------------- MODULE WorkQueue -----------------------------
(***************************************************************************)
(* A work queue (src/components/drivers/src/workqueue.c): a worker thread  *)
(* executes the works that other threads submit.  It protects its list by  *)
(* locking the scheduler, and suspends the worker outside of that section. *)
(***************************************************************************)
EXTENDS IPC

CONSTANT
  Works     \* the works

VARIABLE
  wq     \* list: the works that are queued

wqvars == <<k, pc, call, ret, use, wq>>

\* rt_workqueue_create; a use names the work_thread and the threads that submit.
WqInit == wq = [list |-> <<>>]

WqTypeOK == wq.list \in Seq(Works)

-----------------------------------------------------------------------------
(* _workqueue_thread_entry.  The top of its loop is "run".                 *)

WqLook(t) ==
  /\ Runs(t) /\ t = use.worker
  /\ Goto(t, IF wq.list = <<>> THEN "wq_idle" ELSE "wq_take")
  /\ UNCHANGED <<k, call, ret, wq>>

\* rt_thread_suspend, before rt_schedule.
WqSuspend(t) ==
  /\ At(t, "wq_idle")
  /\ k' = rt_thread_suspend(k, t)
  /\ Goto(t, "block")
  /\ UNCHANGED <<call, ret, wq>>

\* The section from rt_enter_critical to rt_exit_critical, which calls rt_schedule.
\* With the list empty the work is computed from the list head.
WqTake(t) ==
  /\ At(t, "wq_take") \/ At(t, "woken")
  /\ IF wq.list = <<>>
       THEN Goto(t, "wild") /\ UNCHANGED <<k, call, wq>>
       ELSE /\ Goto(t, "wq_work")
            /\ call' = [call EXCEPT ![t] = [NoCall EXCEPT !.op = "work", !.arg = Head(wq.list)]]
            /\ wq' = [list |-> Tail(wq.list)]
            /\ k' = rt_schedule(k)
  /\ UNCHANGED ret

\* The work function returns.
WqWork(t) ==
  /\ At(t, "wq_work")
  /\ Continue(t, "run", NoCall)
  /\ UNCHANGED <<k, wq>>

-----------------------------------------------------------------------------
\* The section up to rt_exit_critical, and the rest, which resumes the worker.
rt_workqueue_dowork(t, w) ==
  /\ Runs(t) /\ t \in use.submitters
  /\ wq' = [list |-> Append(Without(wq.list, w), w)]
  /\ Goto(t, IF k.stat[use.worker] # "READY" THEN "wq_resume" ELSE "run")
  /\ k' = rt_schedule(k)
  /\ UNCHANGED <<call, ret>>

DoWorkResume(t) ==
  /\ At(t, "wq_resume")
  /\ k' = rt_thread_resume(k, use.worker)
  /\ Goto(t, "sched")
  /\ UNCHANGED <<call, ret, wq>>

rt_workqueue_cancel_work(t, w) ==
  /\ Runs(t) /\ t \in use.submitters
  /\ wq' = [list |-> Without(wq.list, w)]
  /\ k' = rt_schedule(k)
  /\ UNCHANGED <<pc, call, ret>>

WqStep(t) ==
  \/ WqLook(t) \/ WqSuspend(t) \/ WqTake(t) \/ WqWork(t) \/ DoWorkResume(t)
  \/ \E w \in Works : rt_workqueue_dowork(t, w) \/ rt_workqueue_cancel_work(t, w)
  \/ t # use.worker /\ SleepStep(t) /\ UNCHANGED wq

WqNext ==
  \/ UNCHANGED use /\ \E t \in Thread : WqStep(t)
  \/ Processor /\ UNCHANGED wq

-----------------------------------------------------------------------------
(* Properties.                                                             *)

\* No lost wakeup, if one thread submits and the worker is more urgent than it:
\* while a work is queued the worker is ready, or the submitter is about to resume it.
WqNotForgotten ==
  use.obj = "workqueue" /\ wq.list # <<>> =>
    k.stat[use.worker] = "READY" \/ \E t \in use.submitters : pc[t] = "wq_resume"
=============================================================================
