----------------------------- MODULE SoftTimer -----------------------------
(***************************************************************************)
(* Soft timers (src/src/timer.c, RT_USING_TIMER_SOFT): their timeout       *)
(* functions are called by a thread, timer_thread, that sleeps until the   *)
(* first of them expires.                                                  *)
(*                                                                         *)
(* The list, the tick arithmetic and the windows of rt_timer_start and     *)
(* rt_timer_stop are those of hard timers (Timers); here a timer has a     *)
(* number of ticks left, and starting or stopping one is one action.       *)
(***************************************************************************)
EXTENDS IPC

CONSTANTS
  Soft,       \* the soft timers
  SoftTime,   \* their init_tick
  SoftPeriodic

ASSUME SoftTimerAssumption == SoftTime \in [Soft -> Nat] /\ SoftPeriodic \subseteq Soft

VARIABLE
  st   \* list: rt_soft_timer_list; left: ticks left, -1 for any negative number;
       \* active: ACTIVATED; next: next_timeout as ticks left; slip: has the tick come
       \* since the timer thread computed its delay?; node: n of rt_soft_timer_check

stvars == <<k, pc, call, ret, use, st>>

StInit ==
  st = [list |-> <<>>, left |-> [x \in Soft |-> -1], active |-> {}, next |-> -1, slip |-> FALSE,
        node |-> Wild]

StTypeOK ==
  st \in [list : Seq(Soft), left : [Soft -> Int], active : SUBSET Soft, next : Int, slip : BOOLEAN,
          node : Soft \cup {Wild}]

First == IF st.list = <<>> THEN Wild ELSE Head(st.list)

\* n->next: a node that is not linked points to itself, Wild is the list head.
NextNode(x) ==
  IF x \notin Range(st.list) THEN x
  ELSE IF x = st.list[Len(st.list)] THEN Wild
  ELSE st.list[1 + CHOOSE i \in 1 .. Len(st.list) : st.list[i] = x]

rt_timer_start_soft(s, x) ==
  LET list == Without(s.list, x)
      later == {i \in 1 .. Len(list) : s.left[list[i]] > SoftTime[x]}
  IN [s EXCEPT !.list = InsertBefore(list, later, x), !.left[x] = SoftTime[x], !.active = @ \cup {x}]

rt_timer_stop_soft(s, x) ==
  IF x \in s.active THEN [s EXCEPT !.list = Without(@, x), !.active = @ \ {x}] ELSE s

-----------------------------------------------------------------------------
(* rt_thread_timer_entry, from "run", the top of its loop.                 *)

Timing(t, l) == At(t, l) /\ t = use.timer

StLook(t) ==
  /\ Timing(t, "run")
  /\ Goto(t, IF st.list = <<>> THEN "st_idle" ELSE "st_delay")
  /\ st' = [st EXCEPT !.next = IF st.list = <<>> THEN -1 ELSE st.left[First]]
  /\ UNCHANGED <<k, call, ret>>

\* No software timer exists: rt_thread_suspend, before rt_schedule.
StSuspend(t) ==
  /\ Timing(t, "st_idle")
  /\ k' = rt_thread_suspend(k, t)
  /\ Goto(t, "block")
  /\ UNCHANGED <<call, ret, st>>

\* The delay is computed, and rt_thread_delay called, up to its rt_schedule.
StDelay(t) ==
  /\ Timing(t, "st_delay")
  /\ Continue(t, IF st.next >= 0 THEN "st_sleep" ELSE "st_enter", [NoCall EXCEPT !.time = st.next])
  /\ st' = [st EXCEPT !.next = -1, !.slip = FALSE]
  /\ UNCHANGED k

StSleep(t) ==
  /\ Timing(t, "st_sleep")
  /\ k' = rt_timer_start(rt_thread_suspend(k, t), t, call[t].time)
  /\ Continue(t, "sleep", NoCall)
  /\ UNCHANGED st

-----------------------------------------------------------------------------
(* rt_soft_timer_check.  It reads the tick counter when it compares: with  *)
(* the value of a moment before, a timer that expires in between would be  *)
(* left for the next time.                                                 *)

StEnter(t) ==
  /\ Timing(t, "st_enter") \/ Timing(t, "woken") \/ Timing(t, "awake")
  /\ k' = [k EXCEPT !.lock = @ + 1, !.error[t] = IF @ = "ETIMEOUT" THEN "EOK" ELSE @]
  /\ Continue(t, "st_check", NoCall)
  /\ st' = [st EXCEPT !.node = First]

rt_exit_critical(kernel) == rt_schedule([kernel EXCEPT !.lock = @ - 1])

NodeExpired == st.node # Wild /\ st.left[st.node] <= 0

\* The node is the list head, or its timer has not expired: the loop ends.
StLeave(t) ==
  /\ Timing(t, "st_check") /\ ~NodeExpired
  /\ k' = rt_exit_critical(k)
  /\ Goto(t, "run")
  /\ st' = [st EXCEPT !.node = Wild]
  /\ UNCHANGED <<call, ret>>

StExpire_NoMove(t) ==
  /\ Timing(t, "st_check") /\ NodeExpired
  /\ st' = [st EXCEPT !.list = Without(@, st.node)]
  /\ k' = rt_exit_critical(k)
  /\ Continue(t, "st_call", [NoCall EXCEPT !.op = "timeout", !.arg = st.node])

\* The next node is noted, the timer removed, and the scheduler unlocked.
StExpire(t) ==
  /\ Timing(t, "st_check") /\ NodeExpired
  /\ st' = [st EXCEPT !.list = Without(@, st.node), !.node = NextNode(st.node)]
  /\ k' = rt_exit_critical(k)
  /\ Continue(t, "st_call", [NoCall EXCEPT !.op = "timeout", !.arg = st.node])

\* The timeout function of timer x may start a timer, or stop its own; use.anystop lets it
\* stop any.
StCall(t) ==
  LET x == call[t].arg IN
  /\ Timing(t, "st_call") /\ Goto(t, "st_after")
  /\ \/ UNCHANGED st
     \/ \E y \in Soft : (y # x \/ x \in SoftPeriodic) /\ st' = rt_timer_start_soft(st, y)
     \/ \E y \in Soft : (y = x \/ use.anystop) /\ st' = rt_timer_stop_soft(st, y)
  /\ UNCHANGED <<k, call, ret>>

StAfter(t) ==
  LET x == call[t].arg IN
  /\ Timing(t, "st_after")
  /\ k' = [k EXCEPT !.lock = @ + 1]
  /\ st' = IF x \in SoftPeriodic \cap st.active THEN rt_timer_start_soft(st, x)
           ELSE [st EXCEPT !.active = @ \ {x}]
  /\ Continue(t, "st_check", NoCall)

-----------------------------------------------------------------------------
(* Other threads.                                                          *)

StStart(t, x) ==
  /\ Runs(t) /\ t \in use.starters
  /\ st' = rt_timer_start_soft(st, x)
  /\ Goto(t, "st_kick")
  /\ UNCHANGED <<k, call, ret>>

\* The end of rt_timer_start: the timer thread looks at its list again.
StKick(t) ==
  /\ At(t, "st_kick")
  /\ IF k.stat[use.timer] # "READY"
       THEN k' = rt_thread_resume(k, use.timer) /\ Goto(t, "sched")
       ELSE Goto(t, "run") /\ UNCHANGED k
  /\ UNCHANGED <<call, ret, st>>

StStop(t, x) ==
  /\ Runs(t) /\ t \in use.starters
  /\ st' = rt_timer_stop_soft(st, x)
  /\ UNCHANGED <<k, pc, call, ret>>

\* The tick brings every timer, and the time read from one, nearer.
StTick ==
  LET less(n) == IF n > 0 THEN n - 1 ELSE -1 IN
  /\ Tick
  /\ st' = [st EXCEPT !.left = [x \in Soft |-> less(@[x])], !.next = less(@),
                      !.slip = @ \/ pc[use.timer] = "st_sleep"]

StStep(t) ==
  \/ StLook(t) \/ StSuspend(t) \/ StDelay(t) \/ StSleep(t)
  \/ StEnter(t) \/ StLeave(t) \/ StExpire(t) \/ StCall(t) \/ StAfter(t)
  \/ \E x \in Soft : StStart(t, x) \/ StStop(t, x)
  \/ StKick(t)
  \/ t # use.timer /\ SleepStep(t) /\ UNCHANGED st

StNext ==
  \/ UNCHANGED use /\ \E t \in Thread : StStep(t)
  \/ StTick
  \/ (TickFire \/ TickEnd \/ \E t \in Thread : Schedule(t)) /\ UNCHANGED st

-----------------------------------------------------------------------------
(* Properties.                                                             *)

\* The timer thread never oversleeps, if no other thread is as urgent: while a timer
\* runs and nobody is about to resume it, a sleeping timer thread has a timeout of its
\* own, no later than the first timer.  (A tick while it goes to sleep makes that later.)
StNotForgotten ==
  use.obj = "softtimer" /\ k.stat[use.timer] = "SUSPEND" /\ st.list # <<>>
      /\ (\A t \in use.starters : pc[t] # "st_kick") =>
    /\ use.timer \in Range(k.timers)
    /\ ~st.slip => k.left[use.timer] <= st.left[Head(st.list)] \/ st.left[Head(st.list)] <= 0

\* The timer thread calls the timeout function of a timer that is in the list, once.
\* A stopped timer is not called.
StCallsLinked ==
  [][\A t \in Thread : pc[t] # "st_call" /\ pc'[t] = "st_call" => call'[t].arg \in Range(st.list)]_stvars
=============================================================================
