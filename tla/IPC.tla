--------------------------------- MODULE IPC ---------------------------------
(***************************************************************************)
(* What the objects that threads wait for share (src/src/ipc.c): the       *)
(* suspend lists, waiting with a timeout, deletion with its windows, and   *)
(* the processor on which their callers run (rt_schedule and the tick      *)
(* interrupt).                                                             *)
(*                                                                         *)
(* A thread that has nothing to do in the kernel is at "run".  Having made *)
(* other threads ready it is at "sched", about to call rt_schedule.  When  *)
(* it has put itself into a suspend list it is at "block", about to call   *)
(* rt_schedule, and when that has returned at "woken", about to look at    *)
(* its error number.  Going to sleep it is at "sleep", and then at         *)
(* "awake".                                                                *)
(***************************************************************************)
EXTENDS Kernel

\* The waiting time RT_WAITING_FOREVER; 0 is RT_WAITING_NO.
Forever == -1

-----------------------------------------------------------------------------
(* The suspend list of an IPC object is list head h; flag is its           *)
(* RT_IPC_FLAG_FIFO or RT_IPC_FLAG_PRIO, as "FIFO" or "PRIO".              *)

rt_ipc_list_suspend_Front(kernel, h, t, flag) ==
  LET s == rt_thread_suspend(kernel, t) IN
  [s EXCEPT !.list[h] = PushFront(t, @)]

rt_ipc_list_suspend_StaysReady(kernel, h, t, flag) ==
  [kernel EXCEPT !.list[h] = Append(@, t)]

rt_ipc_list_suspend(kernel, h, t, flag) ==
  LET s == rt_thread_suspend(kernel, t)
      w == s.list[h]
      behind == IF flag = "PRIO" THEN {i \in 1 .. Len(w) : s.prio[t] < s.prio[w[i]]} ELSE {}
  IN [s EXCEPT !.list[h] = InsertBefore(w, behind, t)]

\* The callers make sure that the list is not empty.
rt_ipc_list_resume(kernel, h) == rt_thread_resume(kernel, Head(kernel.list[h]))

\* How the functions that give something wake one waiter, if there is one; an
\* interrupt handler calls rt_schedule at once, a thread at "sched".
ResumeOne(kernel, h) ==
  IF kernel.list[h] # <<>> THEN rt_ipc_list_resume(kernel, h) ELSE kernel

ResumeOneFromInterrupt_NoSchedule(kernel, h) == ResumeOne(kernel, h)

ResumeOneFromInterrupt(kernel, h) ==
  IF kernel.list[h] # <<>> THEN rt_schedule(rt_ipc_list_resume(kernel, h)) ELSE kernel

ResumeWithError_NoError(kernel, t) == rt_thread_resume(kernel, t)

\* One round of the loop of rt_ipc_list_resume_all, on thread t.
ResumeWithError(kernel, t) ==
  rt_thread_resume([kernel EXCEPT !.error[t] = "ERROR"], t)

\* rt_ipc_list_resume_all called with interrupts disabled.
rt_ipc_list_resume_all(kernel, h) ==
  LET w == kernel.list[h]
      after[n \in 0 .. Len(w)] == IF n = 0 THEN kernel ELSE ResumeWithError(after[n - 1], w[n])
  IN after[Len(w)]

\* How the blocking functions start to wait.
WaitOn(kernel, h, t, flag, time) ==
  LET s == rt_ipc_list_suspend([kernel EXCEPT !.error[t] = "EOK"], h, t, flag) IN
  IF time > 0 THEN rt_timer_start(s, t, time) ELSE s

-----------------------------------------------------------------------------
(* The processor and the callers.                                          *)

CONSTANT
  Uses   \* ways in which an application uses the object

\* Every use says how waiters are queued, how long they wait, how long threads
\* sleep at other times, and whether the object is deleted and created again; an
\* object's module may add to that.
ASSUME IPCAssumption ==
  /\ IsFiniteSet(Thread)
  /\ \A u \in Uses :
       /\ u.flag \in {"FIFO", "PRIO"}
       /\ u.times \subseteq Nat \cup {Forever}
       /\ u.sleeps \subseteq Nat
       /\ u.deletes \in BOOLEAN

VARIABLES
  k,     \* the kernel state
  pc,    \* where each thread is
  call,  \* the unfinished call of each thread: function, list, argument, time left
  ret,   \* what the last finished call of each thread returned
  use    \* the use made of the object, which never changes

ipcvars == <<k, pc, call, ret, use>>

NoCall == [op |-> "none", obj |-> Wild, arg |-> 0, time |-> 0]

\* All threads have been started, in some order, and the scheduler too.
AllStarted ==
  LET with(p) == {t \in Thread : InitPriority[t] = p}
      of(p) == CHOOSE f \in [1 .. Cardinality(with(p)) -> with(p)] : IsInjective(f)
      boot ==
        [list    |-> [h \in ListHead |-> IF h \in Prio THEN of(h) ELSE <<>>],
         group   |-> {InitPriority[t] : t \in Thread},
         stat    |-> [t \in Thread |-> "READY"],
         prio    |-> InitPriority,
         mask    |-> [t \in Thread |-> {InitPriority[t]}],
         error   |-> [t \in Thread |-> "EOK"],
         slice   |-> InitTick,
         timers  |-> <<>>,
         left    |-> [t \in Thread |-> 0],
         current |-> Wild,
         lock    |-> 0,
         isr     |-> FALSE]
  IN rt_schedule(boot)

IpcInit ==
  /\ k = AllStarted
  /\ pc = [t \in Thread |-> "run"]
  /\ call = [t \in Thread |-> NoCall]
  /\ ret = [t \in Thread |-> "none"]
  /\ use \in Uses

At(t, l) == k.current = t /\ ~k.isr /\ pc[t] = l

Goto(t, l) == pc' = [pc EXCEPT ![t] = l]

\* Thread t executes application code and may call a function.
Runs(t) == At(t, "run") /\ t # Idle

\* What each thread received last, if the use is of object o.
LastReceived(o) == IF use.obj = o THEN ret ELSE [t \in Thread |-> "none"]

\* Where a thread goes on that has called ResumeOne(k, h).
Resuming(h) == IF k.list[h] # <<>> THEN "sched" ELSE "run"

\* The function t is in goes on at label l with the arguments c, or returns r
\* (at "sched": when it has called rt_schedule).
Continue(t, l, c) ==
  /\ Goto(t, l)
  /\ call' = [call EXCEPT ![t] = c]
  /\ UNCHANGED ret

Return(t, l, r) ==
  /\ Goto(t, l)
  /\ ret' = [ret EXCEPT ![t] = r]
  /\ call' = [call EXCEPT ![t] = NoCall]

Schedule(t) ==
  /\ \/ At(t, "sched") /\ Goto(t, "run")
     \/ At(t, "block") /\ Goto(t, "woken")
     \/ At(t, "sleep") /\ Goto(t, "awake")
  /\ k' = rt_schedule(k)
  /\ UNCHANGED <<call, ret, use>>

\* rt_thread_sleep (rt_thread_delay) up to its call of rt_schedule, and after it.
Sleep(t, n) ==
  /\ Runs(t)
  /\ k' = rt_timer_start(rt_thread_suspend(k, t), t, n)
  /\ Goto(t, "sleep")

Awake(t) ==
  /\ At(t, "awake") /\ Goto(t, "run")
  /\ k' = [k EXCEPT !.error[t] = IF @ = "ETIMEOUT" THEN "EOK" ELSE @]

SleepStep(t) ==
  /\ (\E n \in use.sleeps : Sleep(t, n)) \/ Awake(t)
  /\ UNCHANGED <<call, ret>>

\* The functions that, once woken, subtract the time they have waited from
\* their waiting time and may wait again for the rest.
Reckoning == {"mb_send", "mb_recv", "mq_recv", "mp_alloc"}

\* A waiting thread has n - 1 ticks left after a tick (at least 0).
Elapsed(t) ==
  LET n == call[t].time IN
  IF call[t].op \in Reckoning /\ pc[t] \in {"block", "woken"} /\ n > 0 THEN n - 1 ELSE n

Tick ==
  /\ ~k.isr
  /\ k' = [TickSlice(k) EXCEPT !.isr = TRUE]
  /\ call' = [t \in Thread |-> [call[t] EXCEPT !.time = Elapsed(t)]]
  /\ UNCHANGED <<pc, ret, use>>

TickFire ==
  /\ k.isr /\ TimerExpired(k)
  /\ k' = FireTimer(k)
  /\ UNCHANGED <<pc, call, ret, use>>

TickEnd ==
  /\ k.isr /\ ~TimerExpired(k)
  /\ k' = [k EXCEPT !.isr = FALSE]
  /\ UNCHANGED <<pc, call, ret, use>>

Clock == Tick \/ TickFire \/ TickEnd

Processor == Clock \/ \E t \in Thread : Schedule(t)

\* The tick keeps coming and its handler ends.  The interrupt returns to where
\* it interrupted: a thread that is about to call rt_schedule does so.
ProcessorFairness ==
  /\ WF_ipcvars(Clock)
  /\ \A t \in Thread \ {Idle} : SF_ipcvars(Schedule(t))

-----------------------------------------------------------------------------
(* Deletion.  rt_ipc_list_resume_all, called with interrupts enabled,      *)
(* looks at the list before each section; the list t empties is            *)
(* call[t].obj.                                                            *)

ResumeAllFrom_NoCheck(t, h) ==
  Continue(t, "resume_next", [NoCall EXCEPT !.op = "delete", !.obj = h])

ResumeAllFrom(t, h) == Continue(t, "resume_all", [NoCall EXCEPT !.op = "delete", !.obj = h])

ResumeAllDone_Early(t) == At(t, "resume_all")

\* The list is empty: the loop ends.
ResumeAllDone(t) == At(t, "resume_all") /\ k.list[call[t].obj] = <<>>

ResumeAllCheck(t) ==
  /\ At(t, "resume_all") /\ k.list[call[t].obj] # <<>>
  /\ Goto(t, "resume_next")
  /\ UNCHANGED <<k, call, ret>>

\* With the list empty the thread is computed from the list head.
ResumeAllNext(t) ==
  LET w == k.list[call[t].obj] IN
  /\ At(t, "resume_next")
  /\ IF w # <<>>
       THEN k' = ResumeWithError(k, Head(w)) /\ Goto(t, "resume_all")
       ELSE Goto(t, "wild") /\ UNCHANGED k
  /\ UNCHANGED <<call, ret>>

ResumeAllStep(t) == ResumeAllCheck(t) \/ ResumeAllNext(t)

Label == {"run", "sched", "block", "woken", "sleep", "awake", "resume_all",
          "resume_next", "wild", "cp_done", "wq_idle", "wq_take", "wq_work", "wq_resume",
          "mq_fill", "mq_copy", "st_idle", "st_delay", "st_sleep", "st_enter", "st_check",
          "st_call", "st_after", "st_kick"}

IpcTypeOK ==
  /\ k \in KernelState
  /\ pc \in [Thread -> Label]
  /\ DOMAIN call = Thread /\ DOMAIN ret = Thread
  /\ use \in Uses

-----------------------------------------------------------------------------
(* Properties every object shares.                                         *)

\* The suspend lists, the ready queue and the timers stay in agreement when a
\* wakeup, a timeout, a reset and a deletion compete for the same waiter.
KernelConsistent ==
  LET filled == {h \in ListHead : k.list[h] # <<>>} IN
  /\ \A h \in filled : IsInjective(k.list[h])
  /\ \A g, h \in filled : g # h => Range(k.list[g]) \cap Range(k.list[h]) = {}
  /\ ReadyQueue(k) /\ OtherLists(k) /\ TimerList(k)

\* Preemptive priority scheduling: a thread made ready by a release, a message,
\* a timeout or a reset runs at once if it is the most urgent one.  (The delete
\* and detach functions resume the waiters and leave rescheduling to the caller.)
HighestRuns ==
  ~use.deletes /\ ~k.isr /\ k.lock = 0 /\ pc[k.current] = "run"
    => k.current = ToThread(k)

\* The blocking functions return only when the caller is out of the suspend
\* list: a thread linked in one is inside the function that put it there.
BackMeansOut ==
  \A h \in WaitList : \A t \in Range(k.list[h]) : pc[t] \in {"block", "woken"}

\* rt_ipc_list_resume_all never treats the list head as a thread.
NeverWild == \A t \in Thread : pc[t] # "wild"
=============================================================================
