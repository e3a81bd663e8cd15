------------------------------- MODULE Kernel -------------------------------
(***************************************************************************)
(* The scheduler's data and the kernel functions that change it, as        *)
(* operators from kernel states to kernel states (src/src/scheduler.c,     *)
(* thread.c, clock.c, the parts of timer.c and ipc.c that thread timers    *)
(* and suspend lists need).                                                *)
(*                                                                         *)
(* An operator that has the name of a C function is the effect of one call *)
(* of it made with interrupts disabled (or from the tick interrupt).  The  *)
(* modules that use these operators decide where a function that enables   *)
(* interrupts half way is split into several actions.                      *)
(*                                                                         *)
(* An operator whose name is that of another with a capitalised suffix     *)
(* (rt_schedule_Unguarded, ...) is that other with one deliberate mistake; *)
(* nothing uses it, and a property that matters must fail when it replaces *)
(* the original.                                                           *)
(***************************************************************************)
EXTENDS Integers, Sequences, FiniteSetsExt

CONSTANTS
  Thread,                  \* thread control blocks
  Idle,                    \* the idle thread, tidle (idle.c)
  RT_THREAD_PRIORITY_MAX,  \* 32 in every board configuration; 0 is the highest
  InitPriority,            \* init_priority of every thread
  InitTick,                \* init_tick (time slice) of every thread
  WaitList,                \* suspend lists of the IPC objects
  Defunct,                 \* list head rt_thread_defunct
  Wild                     \* what rt_list_entry gives for the head of an empty list

Prio == 0 .. RT_THREAD_PRIORITY_MAX - 1

ASSUME KernelAssumption ==
  /\ RT_THREAD_PRIORITY_MAX \in Nat \ {0}
  /\ Idle \in Thread
  /\ InitPriority \in [Thread -> Prio]
  /\ InitPriority[Idle] = RT_THREAD_PRIORITY_MAX - 1
  /\ InitTick \in [Thread -> Nat \ {0}]
  /\ Wild \notin Thread
  /\ Defunct \notin Prio \cup WaitList
  /\ Prio \cap WaitList = {}

\* A thread's tlist node is linked through at most one of these list heads:
\* rt_thread_priority_table[p], an IPC suspend list, or rt_thread_defunct.
ListHead == Prio \cup WaitList \cup {Defunct}

Stat == {"INIT", "READY", "SUSPEND", "CLOSE"}
Error == {"EOK", "ETIMEOUT", "ERROR"}

(***************************************************************************)
(* The kernel state.                                                       *)
(*   list    the threads linked through each list head, in list order      *)
(*   group   rt_thread_ready_priority_group, as the set of its 1 bits      *)
(*   stat, prio, mask, error, slice                                        *)
(*           stat, current_priority, number_mask (as a set of bits), error *)
(*           and remaining_tick of every thread                            *)
(*   timers  rt_timer_list restricted to the thread timers, in list order  *)
(*   left    timeout_tick - rt_tick of an active thread timer, else 0      *)
(*   current rt_current_thread                                             *)
(*   lock    rt_scheduler_lock_nest                                        *)
(*   isr     rt_interrupt_nest # 0: the tick interrupt is being served     *)
(***************************************************************************)
KernelState ==
  [list    : [ListHead -> Seq(Thread)],
   group   : SUBSET Prio,
   stat    : [Thread -> Stat],
   prio    : [Thread -> Prio],
   mask    : [Thread -> SUBSET Prio],
   error   : [Thread -> Error],
   slice   : [Thread -> Nat \ {0}],
   timers  : Seq(Thread),
   left    : [Thread -> Int],
   current : Thread \cup {Wild},
   lock    : Nat,
   isr     : BOOLEAN]

-----------------------------------------------------------------------------
(* Lists.                                                                  *)

\* Element i taken out of a list, element e put in as its i-th or first one.
RemoveNode(s, i) == SubSeq(s, 1, i - 1) \o SubSeq(s, i + 1, Len(s))

InsertNode(s, i, e) == SubSeq(s, 1, i - 1) \o <<e>> \o SubSeq(s, i, Len(s))

PushFront(e, s) == <<e>> \o s

\* rt_list_remove on a list that holds e at most once.
Without(s, e) ==
  IF e \in Range(s)
    THEN RemoveNode(s, CHOOSE i \in 1 .. Len(s) : s[i] = e)
    ELSE s

\* Insert e before the first element whose index is in I, or at the end.
InsertBefore(s, I, e) == InsertNode(s, IF I = {} THEN Len(s) + 1 ELSE Min(I), e)

\* rt_list_remove(&t->tlist): out of whatever list t is linked in.
Unlink(k, t) ==
  [k EXCEPT !.list = [h \in ListHead |-> Without(k.list[h], t)]]

\* Is another thread linked in the list t is linked in?
\* (t->tlist.next != t->tlist.prev)
SharesList(k, t) ==
  \E h \in ListHead : t \in Range(k.list[h]) /\ Len(k.list[h]) > 1

-----------------------------------------------------------------------------
(* scheduler.c                                                             *)

\* __rt_ffs(group) - 1
Highest(group) == Min(group)

\* The thread rt_schedule switches to.  The entry computed from an empty
\* list, or from the index __rt_ffs(0) - 1, is no thread.
ToThread(k) ==
  IF k.group = {} \/ k.list[Highest(k.group)] = <<>>
    THEN Wild
    ELSE Head(k.list[Highest(k.group)])

rt_schedule(k) ==
  IF k.lock = 0 THEN [k EXCEPT !.current = ToThread(k)] ELSE k

rt_schedule_insert_thread_NoBit(k, t) ==
  [k EXCEPT !.stat[t] = "READY", !.list[k.prio[t]] = Append(@, t)]

rt_schedule_insert_thread(k, t) ==
  [k EXCEPT !.stat[t] = "READY",
            !.list[k.prio[t]] = Append(@, t),
            !.group = @ \cup k.mask[t]]

rt_schedule_remove_thread_KeepsBit(k, t) == Unlink(k, t)

rt_schedule_remove_thread_ClearsBit(k, t) ==
  [Unlink(k, t) EXCEPT !.group = @ \ k.mask[t]]

rt_schedule_remove_thread(k, t) ==
  LET u == Unlink(k, t) IN
  [u EXCEPT !.group = IF u.list[k.prio[t]] = <<>> THEN @ \ k.mask[t] ELSE @]

-----------------------------------------------------------------------------
(* Thread timers (timer.c): one-shot hard timers whose timeout function is *)
(* rt_thread_timeout.  A timer is flagged ACTIVATED exactly when it is in  *)
(* the list, because every caller here has interrupts disabled.            *)

rt_timer_stop(k, t) == [k EXCEPT !.timers = Without(@, t), !.left[t] = 0]

rt_timer_start_Reversed(k, t, n) ==
  LET s == Without(k.timers, t) IN
  [k EXCEPT !.timers = InsertBefore(s, {i \in 1 .. Len(s) : k.left[s[i]] < n}, t),
            !.left[t] = n]

\* Set the time of t's timer to n ticks and start it: the timer goes behind
\* every timer that expires no later.
rt_timer_start(k, t, n) ==
  LET s == Without(k.timers, t) IN
  [k EXCEPT !.timers = InsertBefore(s, {i \in 1 .. Len(s) : k.left[s[i]] > n}, t),
            !.left[t] = n]

-----------------------------------------------------------------------------
(* thread.c                                                                *)

\* The interrupts-disabled sections of rt_thread_suspend and rt_thread_resume.
SuspendSection(k, t) ==
  rt_timer_stop(rt_schedule_remove_thread([k EXCEPT !.stat[t] = "SUSPEND"], t), t)

ResumeSection(k, t) == rt_timer_stop(Unlink(k, t), t)

rt_thread_suspend(k, t) ==
  IF k.stat[t] = "READY" THEN SuspendSection(k, t) ELSE k

rt_thread_resume(k, t) ==
  IF k.stat[t] = "SUSPEND"
    THEN rt_schedule_insert_thread(ResumeSection(k, t), t)
    ELSE k

rt_thread_timeout(k, t) ==
  rt_schedule(
    rt_schedule_insert_thread(Unlink([k EXCEPT !.error[t] = "ETIMEOUT"], t), t))

\* The part of rt_thread_yield before it calls rt_schedule.
Requeue(k, t) ==
  [Unlink(k, t) EXCEPT !.list[k.prio[t]] = Append(@, t)]

rt_thread_yield(k) ==
  IF k.stat[k.current] = "READY" /\ SharesList(k, k.current)
    THEN rt_schedule(Requeue(k, k.current))
    ELSE k

\* _rt_thread_init, on a control block whose number_mask holds m.
ThreadInit(k, t, m) ==
  [k EXCEPT !.stat[t] = "INIT", !.prio[t] = InitPriority[t], !.mask[t] = m,
            !.error[t] = "EOK", !.slice[t] = InitTick[t]]

\* rt_thread_startup up to its call of rt_thread_resume.
StartupPrepare(k, t) ==
  [k EXCEPT !.prio[t] = InitPriority[t],
            !.mask[t] = {InitPriority[t]},
            !.stat[t] = "SUSPEND"]

Close_KeepsTimer(k, t) == [k EXCEPT !.stat[t] = "CLOSE"]

\* The steps by which rt_thread_exit, rt_thread_detach and rt_thread_delete
\* end a thread that is out of the ready queue: its timer is detached, it is
\* CLOSE, and it is linked in front of the defunct list.
Close(k, t) == [rt_timer_stop(k, t) EXCEPT !.stat[t] = "CLOSE"]

Bury(k, t) == [k EXCEPT !.list[Defunct] = PushFront(t, @)]

\* rt_thread_control(t, RT_THREAD_CTRL_CHANGE_PRIORITY, &p)
ChangePriority(k, t, p) ==
  LET set(x) == [x EXCEPT !.prio[t] = p, !.mask[t] = {p}] IN
  IF k.stat[t] = "READY"
    THEN rt_schedule_insert_thread(set(rt_schedule_remove_thread(k, t)), t)
    ELSE set(k)

-----------------------------------------------------------------------------
(* clock.c                                                                 *)

\* The tick counter advances: every pending timeout is one tick nearer.
Aged(k) ==
  [k EXCEPT !.left = [t \in Thread |-> IF t \in Range(k.timers) THEN @[t] - 1 ELSE @[t]]]

TickSlice_NoReload(k) ==
  LET n == k.slice[k.current] - 1
      spent == [Aged(k) EXCEPT !.slice[k.current] = n]
  IN IF n = 0 THEN rt_thread_yield(spent) ELSE spent

TickSlice_NoYield(k) ==
  LET n == k.slice[k.current] - 1 IN
  [Aged(k) EXCEPT !.slice[k.current] = IF n = 0 THEN InitTick[k.current] ELSE n]

\* rt_tick_increase up to its call of rt_timer_check: the tick counter and the
\* time slice of the running thread.
TickSlice(k) ==
  LET n == k.slice[k.current] - 1 IN
  IF n = 0
    THEN rt_thread_yield([Aged(k) EXCEPT !.slice[k.current] = InitTick[k.current]])
    ELSE [Aged(k) EXCEPT !.slice[k.current] = n]

TimerExpired_OnTheTick(k) == k.timers # <<>> /\ k.left[Head(k.timers)] = 0

\* rt_timer_check finds the first timer of the list expired.
TimerExpired(k) == k.timers # <<>> /\ k.left[Head(k.timers)] <= 0

\* One round of the loop of rt_timer_check.
FireTimer(k) ==
  LET t == Head(k.timers) IN rt_thread_timeout(rt_timer_stop(k, t), t)

-----------------------------------------------------------------------------
(* What the kernel functions rely on and restore.                          *)

\* A tlist node is linked in at most one list, once (rt_list_insert_* into a
\* second list would corrupt both).
LinkedOnce(k) ==
  /\ \A h \in ListHead : IsInjective(k.list[h])
  /\ \A g, h \in ListHead : g # h => Range(k.list[g]) \cap Range(k.list[h]) = {}

\* The ready queue: a bit of the bitmap is set exactly when that list has a
\* thread, the lists hold exactly the READY threads, each by its priority, and
\* number_mask of a thread that has been started is the bit of its priority.
ReadyQueue(k) ==
  /\ \A p \in Prio : p \in k.group <=> Range(k.list[p]) # {}
  /\ \A p \in Prio : \A t \in Range(k.list[p]) : k.stat[t] = "READY" /\ k.prio[t] = p
  /\ \A t \in Thread : k.stat[t] = "READY" => t \in Range(k.list[k.prio[t]])
  /\ \A t \in Thread : k.stat[t] \in {"READY", "SUSPEND"} => k.mask[t] = {k.prio[t]}

\* Threads in a suspend list are SUSPEND, threads in the defunct list CLOSE.
OtherLists(k) ==
  /\ \A h \in WaitList : \A t \in Range(k.list[h]) : k.stat[t] = "SUSPEND"
  /\ \A t \in Range(k.list[Defunct]) : k.stat[t] = "CLOSE"

\* A thread timer is in the timer list at most once, and only that of a
\* SUSPEND thread: the assertion of rt_thread_timeout.
TimerList(k) ==
  /\ IsInjective(k.timers)
  /\ \A t \in Range(k.timers) : k.stat[t] = "SUSPEND"

\* The timer list is in the order of expiry.
TimersSorted(k) ==
  \A i, j \in 1 .. Len(k.timers) : i < j => k.left[k.timers[i]] <= k.left[k.timers[j]]
=============================================================================
