------------------------------- MODULE Threads -------------------------------
(***************************************************************************)
(* Thread management: application threads calling the functions of         *)
(* thread.c and scheduler.c, the tick interrupt, and the idle thread       *)
(* reaping dead threads (src/src/thread.c, scheduler.c, clock.c, irq.c,    *)
(* idle.c).                                                                *)
(*                                                                         *)
(* One processor: only rt_current_thread executes, and only outside the    *)
(* tick interrupt.  Each interrupts-disabled section is one action.  A     *)
(* function of Unlocked is called by the application with interrupts       *)
(* enabled, so the tick can come between its sections; any other is called *)
(* with interrupts disabled, as the IPC functions call rt_thread_suspend   *)
(* and rt_thread_resume, and is then a single action.                      *)
(***************************************************************************)
EXTENDS Kernel

CONSTANTS
  Static,        \* threads set up by rt_thread_init, not rt_thread_create
  Cleanup,       \* threads whose cleanup function is set
  Boot,          \* threads started before rt_system_scheduler_start
  Controllers,   \* threads that manage other threads
  Unlocked,      \* management functions called with interrupts enabled
  Reschedule,    \* does the application call rt_schedule after managing?
  EndUnstarted,  \* may a thread be ended that was never started?
  Garbage,       \* what number_mask of a fresh heap block may hold
  Delays,        \* sleeping times
  MaxLock        \* bound on rt_scheduler_lock_nest

Managed == {"startup", "suspend", "resume", "delete", "detach"}

ASSUME ThreadsAssumption ==
  /\ Static \subseteq Thread /\ Idle \in Static
  /\ Cleanup \subseteq Thread /\ Idle \notin Cleanup
  /\ Boot \subseteq Thread /\ Idle \in Boot
  /\ Controllers \subseteq Thread \ {Idle}
  /\ Unlocked \subseteq Managed
  /\ Reschedule \in BOOLEAN
  /\ EndUnstarted \in BOOLEAN
  /\ Garbage \subseteq SUBSET Prio
  /\ Delays \subseteq Nat
  /\ MaxLock \in Nat

\* What the boot code has after rt_system_scheduler_init: initialised boot
\* threads, no ready thread, no running thread.
rt_system_scheduler_init ==
  [list    |-> [h \in ListHead |-> <<>>],
   group   |-> {},
   stat    |-> [t \in Thread |-> IF t \in Boot THEN "INIT" ELSE "CLOSE"],
   prio    |-> InitPriority,
   mask    |-> [t \in Thread |-> {}],
   error   |-> [t \in Thread |-> "EOK"],
   slice   |-> InitTick,
   timers  |-> <<>>,
   left    |-> [t \in Thread |-> 0],
   current |-> Wild,
   lock    |-> 0,
   isr     |-> FALSE]

VARIABLES
  k,     \* the kernel state
  obj,   \* threads linked in the thread object container
  pc,    \* where each thread is in the kernel function it is executing
  arg    \* the thread that function works on

vars == <<k, obj, pc, arg>>

\* "run" is application code; at "sched" and "sleep" the thread is about to
\* call rt_schedule; the others are between two sections of a function.
Label == {"run", "sched", "sleep", "wake", "free", "suspend", "resume",
          "insert", "timer_detach", "close"}

TypeOK ==
  /\ k \in KernelState
  /\ obj \in SUBSET Thread
  /\ pc \in [Thread -> Label]
  /\ arg \in [Thread -> Thread \cup {Wild}]

Init ==
  /\ k = rt_system_scheduler_init
  /\ obj = Boot
  /\ pc = [t \in Thread |-> "run"]
  /\ arg = [t \in Thread |-> Wild]

-----------------------------------------------------------------------------
(* System start: the boot code starts the boot threads while               *)
(* rt_current_thread is still RT_NULL, then gives the processor away.      *)

Started == k.current # Wild

BootStartup(x) ==
  /\ ~Started
  /\ k.stat[x] = "INIT"
  /\ k' = rt_thread_resume(StartupPrepare(k, x), x)
  /\ UNCHANGED <<obj, pc, arg>>

rt_system_scheduler_start ==
  /\ ~Started
  /\ \A t \in Boot : k.stat[t] # "INIT"
  /\ k' = [k EXCEPT !.current = ToThread(k)]
  /\ UNCHANGED <<obj, pc, arg>>

-----------------------------------------------------------------------------
(* The running thread.                                                     *)

\* Thread t executes, and is at label l.
At(t, l) == k.current = t /\ ~k.isr /\ pc[t] = l

Goto(t, l) == pc' = [pc EXCEPT ![t] = l]

\* A thread object that may be passed to a function of thread.c: it exists,
\* it is not dead, and no other thread is half way through ending it.
Alive(x) ==
  /\ x \in obj
  /\ k.stat[x] # "CLOSE"
  /\ \A t \in Thread : arg[t] = x => pc[t] \notin {"timer_detach", "close"}

\* Nobody is in a function of thread.c that works on x.
Unused(x) == \A t \in Thread : arg[t] = x => pc[t] = "run"

\* After a managing call the application calls rt_schedule, or goes on.
AfterManaging(t) ==
  \E l \in {"sched"} \cup (IF Reschedule THEN {} ELSE {"run"}) : Goto(t, l)

Schedule(t) ==
  /\ \/ At(t, "sched") /\ Goto(t, "run")
     \/ At(t, "sleep") /\ Goto(t, "wake")
  /\ k' = rt_schedule(k)
  /\ UNCHANGED <<obj, arg>>

Yield(t) ==
  /\ At(t, "run") /\ t # Idle
  /\ IF k.stat[t] = "READY" /\ SharesList(k, t)
       THEN k' = Requeue(k, t) /\ Goto(t, "sched")
       ELSE UNCHANGED <<k, pc>>
  /\ UNCHANGED <<obj, arg>>

Sleep(t, n) ==
  /\ At(t, "run") /\ t # Idle
  /\ k' = rt_timer_start(rt_thread_suspend(k, t), t, n)
  /\ Goto(t, "sleep")
  /\ UNCHANGED <<obj, arg>>

\* rt_thread_sleep after rt_schedule has returned.
Wake(t) ==
  /\ At(t, "wake") /\ Goto(t, "run")
  /\ k' = [k EXCEPT !.error[t] = IF @ = "ETIMEOUT" THEN "EOK" ELSE @]
  /\ UNCHANGED <<obj, arg>>

\* rt_thread_exit, when the entry function of t returns.
Exit(t) ==
  /\ At(t, "run") /\ t # Idle /\ k.lock = 0
  /\ LET dead == Close(rt_schedule_remove_thread(k, t), t) IN
     IF t \in Static \ Cleanup
       THEN k' = dead /\ obj' = obj \ {t}
       ELSE k' = Bury(dead, t) /\ UNCHANGED obj
  /\ Goto(t, "sched")
  /\ UNCHANGED arg

rt_enter_critical(t) ==
  /\ At(t, "run") /\ t # Idle /\ k.lock < MaxLock
  /\ k' = [k EXCEPT !.lock = @ + 1]
  /\ UNCHANGED <<obj, pc, arg>>

rt_exit_critical_NoSchedule(t) ==
  /\ At(t, "run") /\ t # Idle
  /\ k' = [k EXCEPT !.lock = IF @ > 0 THEN @ - 1 ELSE 0]
  /\ UNCHANGED <<obj, pc, arg>>

rt_exit_critical(t) ==
  /\ At(t, "run") /\ t # Idle
  /\ k' = [k EXCEPT !.lock = IF @ > 0 THEN @ - 1 ELSE 0]
  /\ Goto(t, IF k.lock <= 1 THEN "sched" ELSE "run")
  /\ UNCHANGED <<obj, arg>>

-----------------------------------------------------------------------------
(* Managing other threads.                                                 *)

\* t may call a function of thread.c on x.
Manages(t, x) == At(t, "run") /\ t \in Controllers /\ x # Idle

\* rt_thread_create or rt_thread_init.  The block of rt_thread_create comes
\* from the heap with whatever it held before.
Create(t, x) ==
  /\ Manages(t, x) /\ x \notin obj /\ Unused(x)
  /\ \A h \in ListHead : x \notin Range(k.list[h])
  /\ \E m \in IF x \in Static THEN {k.mask[x]} ELSE Garbage :
       k' = ThreadInit(k, x, m)
  /\ obj' = obj \cup {x}
  /\ Goto(x, "run")
  /\ UNCHANGED arg

rt_thread_startup(t, x) ==
  /\ Manages(t, x) /\ Alive(x) /\ Unused(x)
  /\ k.stat[x] = "INIT"
  /\ IF "startup" \in Unlocked
       THEN /\ k' = StartupPrepare(k, x)
            /\ Goto(t, "resume") /\ arg' = [arg EXCEPT ![t] = x]
       ELSE /\ k' = rt_thread_resume(StartupPrepare(k, x), x)
            /\ Goto(t, "sched") /\ UNCHANGED arg
  /\ UNCHANGED obj

\* rt_thread_suspend.  A thread that suspends itself must call rt_schedule.
Suspend(t, x) ==
  /\ Manages(t, x) /\ Alive(x) /\ k.stat[x] = "READY"
  /\ IF "suspend" \in Unlocked
       THEN Goto(t, "suspend") /\ arg' = [arg EXCEPT ![t] = x] /\ UNCHANGED k
       ELSE /\ k' = rt_thread_suspend(k, x)
            /\ IF x = t THEN Goto(t, "sched") ELSE AfterManaging(t)
            /\ UNCHANGED arg
  /\ UNCHANGED obj

\* rt_thread_suspend after its check that the thread is READY.
SuspendRest(t) ==
  /\ At(t, "suspend")
  /\ k' = SuspendSection(k, arg[t])
  /\ Goto(t, "sched")
  /\ arg' = [arg EXCEPT ![t] = Wild]
  /\ UNCHANGED obj

Resume(t, x) ==
  /\ Manages(t, x) /\ Alive(x) /\ k.stat[x] = "SUSPEND"
  /\ IF "resume" \in Unlocked
       THEN Goto(t, "resume") /\ arg' = [arg EXCEPT ![t] = x] /\ UNCHANGED k
       ELSE k' = rt_thread_resume(k, x) /\ AfterManaging(t) /\ UNCHANGED arg
  /\ UNCHANGED obj

\* rt_thread_resume after its check that the thread is SUSPEND.
ResumeRest(t) ==
  /\ At(t, "resume") /\ Goto(t, "insert")
  /\ k' = ResumeSection(k, arg[t])
  /\ UNCHANGED <<obj, arg>>

\* rt_thread_resume after it has enabled interrupts again.
ResumeInsert(t) ==
  /\ At(t, "insert") /\ Goto(t, "sched")
  /\ k' = rt_schedule_insert_thread(k, arg[t])
  /\ arg' = [arg EXCEPT ![t] = Wild]
  /\ UNCHANGED obj

Control(t, x, p) ==
  /\ Manages(t, x) /\ Alive(x)
  /\ k' = ChangePriority(k, x, p)
  /\ AfterManaging(t)
  /\ UNCHANGED <<obj, arg>>

\* How a thread ends: rt_thread_detach takes a static thread out of the object
\* container and buries it only for its cleanup function; rt_thread_delete
\* buries a heap thread, which the idle thread takes out and frees.
EndsIn(x, kernel) ==
  IF x \in Static
    THEN /\ k' = IF x \in Cleanup THEN Bury(kernel, x) ELSE kernel
         /\ obj' = obj \ {x}
    ELSE k' = Bury(kernel, x) /\ UNCHANGED obj

\* rt_thread_delete of a heap thread, rt_thread_detach of a static one.
Delete(t, x) ==
  /\ Manages(t, x) /\ x # t /\ Alive(x) /\ Unused(x)
  /\ EndUnstarted \/ k.stat[x] # "INIT"
  /\ IF (IF x \in Static THEN "detach" ELSE "delete") \in Unlocked
       THEN /\ k' = rt_schedule_remove_thread(k, x)
            /\ Goto(t, "timer_detach") /\ arg' = [arg EXCEPT ![t] = x]
            /\ UNCHANGED obj
       ELSE /\ EndsIn(x, Close(rt_schedule_remove_thread(k, x), x))
            /\ UNCHANGED <<pc, arg>>

DeleteTimer(t) ==
  /\ At(t, "timer_detach") /\ Goto(t, "close")
  /\ k' = rt_timer_stop(k, arg[t])
  /\ UNCHANGED <<obj, arg>>

DeleteClose(t) ==
  /\ At(t, "close") /\ Goto(t, "run")
  /\ EndsIn(arg[t], [k EXCEPT !.stat[arg[t]] = "CLOSE"])
  /\ arg' = [arg EXCEPT ![t] = Wild]

-----------------------------------------------------------------------------
(* The idle thread: rt_thread_idle_excute.                                 *)

IdleReap ==
  /\ At(Idle, "run") /\ k.list[Defunct] # <<>>
  /\ LET x == Head(k.list[Defunct]) IN
     /\ k' = Unlink(k, x)
     /\ IF x \in Static
          THEN UNCHANGED <<pc, arg>>
          ELSE Goto(Idle, "free") /\ arg' = [arg EXCEPT ![Idle] = x]
  /\ UNCHANGED obj

IdleFree ==
  /\ At(Idle, "free") /\ Goto(Idle, "run")
  /\ obj' = obj \ {arg[Idle]}
  /\ arg' = [arg EXCEPT ![Idle] = Wild]
  /\ UNCHANGED k

-----------------------------------------------------------------------------
(* The tick interrupt: rt_interrupt_enter, rt_tick_increase (with one      *)
(* action per timer that rt_timer_check fires), rt_interrupt_leave.        *)

Tick ==
  /\ Started /\ ~k.isr
  /\ k' = [TickSlice(k) EXCEPT !.isr = TRUE]
  /\ UNCHANGED <<obj, pc, arg>>

TickFire ==
  /\ k.isr /\ TimerExpired(k)
  /\ k' = FireTimer(k)
  /\ UNCHANGED <<obj, pc, arg>>

TickEnd ==
  /\ k.isr /\ ~TimerExpired(k)
  /\ k' = [k EXCEPT !.isr = FALSE]
  /\ UNCHANGED <<obj, pc, arg>>

-----------------------------------------------------------------------------
ThreadStep(t) ==
  \/ Schedule(t) \/ Yield(t) \/ Wake(t) \/ Exit(t)
  \/ \E n \in Delays : Sleep(t, n)
  \/ rt_enter_critical(t) \/ rt_exit_critical(t)
  \/ \E x \in Thread :
       \/ Create(t, x) \/ rt_thread_startup(t, x) \/ Delete(t, x)
       \/ Suspend(t, x) \/ Resume(t, x)
       \/ \E p \in Prio : Control(t, x, p)
  \/ SuspendRest(t) \/ ResumeRest(t) \/ ResumeInsert(t)
  \/ DeleteTimer(t) \/ DeleteClose(t)

Next ==
  \/ \E x \in Boot : BootStartup(x)
  \/ rt_system_scheduler_start
  \/ \E t \in Thread : ThreadStep(t)
  \/ IdleReap \/ IdleFree
  \/ Tick \/ TickFire \/ TickEnd

Spec == Init /\ [][Next]_vars

\* The system starts.  The tick interrupt keeps coming and its handler ends.  A thread that has
\* reached its call of rt_schedule executes it, however often the tick comes
\* first: the interrupt returns to where it interrupted.  Application code is
\* under no obligation.
Fairness ==
  /\ WF_vars((\E x \in Boot : BootStartup(x)) \/ rt_system_scheduler_start)
  /\ WF_vars(Tick) /\ WF_vars(TickFire) /\ WF_vars(TickEnd)
  /\ \A t \in Thread : SF_vars(Schedule(t))

LiveSpec == Spec /\ Fairness

-----------------------------------------------------------------------------
(* Properties.                                                             *)

\* Whenever a section has ended, or the tick interrupt has fired a timer, the
\* ready lists, the bitmap, the thread states and the other lists agree
\* (rt_schedule_insert_thread, rt_schedule_remove_thread and every caller).
KernelConsistent ==
  LinkedOnce(k) /\ ReadyQueue(k) /\ OtherLists(k)

\* What one manager may rely on when it calls with interrupts enabled and the
\* threads it manages have no timeout pending: between the sections of
\* rt_thread_suspend, rt_thread_resume, rt_thread_delete and rt_thread_detach
\* the bitmap and the lists agree and hold only READY threads, so whatever the
\* tick interrupt switches to is a thread that may run.
ReadyListsSound ==
  /\ LinkedOnce(k)
  /\ \A p \in Prio : p \in k.group <=> k.list[p] # <<>>
  /\ \A p \in Prio : \A t \in Range(k.list[p]) : k.stat[t] = "READY" /\ k.prio[t] = p

\* rt_thread_timeout never meets a thread that is not SUSPEND (its assertion):
\* whoever makes a thread ready or dead stops its timer in the same section.
TimedOutIsSuspended == TimerList(k)

\* No timeout is missed or late: the timer list is in the order of expiry
\* (rt_timer_start), so that rt_timer_check, which stops at the first timer that
\* has not expired, leaves none behind that has.
TimeoutsOnTime ==
  /\ TimersSorted(k)
  /\ ~k.isr => \A t \in Range(k.timers) : k.left[t] >= 0

\* Preemptive priority scheduling: a thread that executes application code
\* with the scheduler unlocked is the one rt_schedule would choose, the first
\* of the highest-priority nonempty ready list.
HighestRuns ==
  Started /\ ~k.isr /\ k.lock = 0 /\ pc[k.current] = "run"
    => k.current = ToThread(k)

\* The idle thread keeps the bitmap nonempty: rt_schedule always finds a
\* thread, and never switches to one that is not READY.
SwitchesToReady ==
  [][k'.current # k.current => k'.current \in Thread /\ k'.stat[k'.current] = "READY"]_vars

\* rt_enter_critical: no switch while the scheduler is locked.
NoSwitchWhileLocked ==
  [][Started /\ k.lock > 0 /\ k'.lock > 0 => k'.current = k.current]_vars

\* A thread that has ended stays ended, whatever timers or resumers were
\* pending, until its control block is initialised again.
EndedStaysEnded ==
  [][\A t \in Thread : k.stat[t] = "CLOSE" => k'.stat[t] \in {"CLOSE", "INIT"}]_vars

\* Round-robin: of the threads that share the highest ready priority each one
\* runs again and again, however long the others keep the processor busy
\* (remaining_tick, rt_thread_yield from rt_tick_increase).
RoundRobin ==
  \A t \in Thread :
    <>[](k.stat[t] = "READY" /\ k.prio[t] = Highest(k.group) /\ k.lock = 0)
      => []<>(k.current = t)

\* A thread that waits with a timeout does not wait for ever: rt_timer_check
\* gets to its timer, unless it is resumed or ended first.
TimeoutsHappen ==
  \A t \in Thread : t \in Range(k.timers) ~> k.stat[t] # "SUSPEND"
=============================================================================
