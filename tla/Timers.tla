------------------------------- MODULE Timers -------------------------------
(***************************************************************************)
(* Hard timers (src/src/timer.c): a skip list in the order of expiry, tick *)
(* arithmetic that wraps around, and timeout functions that are called     *)
(* from the tick interrupt.                                                *)
(*                                                                         *)
(* Every timer of Managed belongs to one thread that starts, stops and     *)
(* ends it with interrupts enabled; pc tells where that thread is, and the *)
(* tick interrupt comes anywhere.  The timeout functions may start other   *)
(* timers, and stop any.                                                   *)
(***************************************************************************)
EXTENDS Integers, Sequences, Functions, FiniteSetsExt

CONSTANTS
  Timer,
  Managed,     \* the timers that a thread manages
  Kinds,       \* for each timer: the values of RT_TIMER_FLAG_PERIODIC it may have
  Times,       \* for each timer: its possible values of init_tick
  Levels,      \* RT_TIMER_SKIP_LIST_LEVEL
  RT_TICK_MAX,
  MaxLate,     \* bound on the ticks that interrupt one rt_timer_start
  AnyCallback  \* may a timeout function restart a one-shot timer or end a
               \* periodic one that it belongs to?

Half == RT_TICK_MAX \div 2

ASSUME TimersAssumption ==
  /\ Managed \subseteq Timer
  /\ RT_TICK_MAX \in Nat
  /\ \A t \in Timer : Kinds[t] \subseteq BOOLEAN /\ Times[t] \subseteq 0 .. Half - 1
  \* A timer that starts again at once would keep rt_timer_check busy for ever.
  /\ \A t \in Timer : 0 \in Times[t] => t \in Managed /\ Kinds[t] = {FALSE}
  /\ Levels \in Nat \ {0}
  /\ MaxLate \in Nat /\ \A t \in Timer : \A n \in Times[t] : n + MaxLate < Half
  /\ AnyCallback \in BOOLEAN

VARIABLES
  tm,     \* the timers and the tick counter
  pc,     \* where the thread is that manages the timer
  late,   \* how many ticks its rt_timer_start has been interrupted for
  isr     \* is the tick interrupt being served?

tmvars == <<tm, pc, late, isr>>

Tick == 0 .. RT_TICK_MAX

\* tick: rt_tick.  rows: rt_timer_list, the last row holds all timers.  live: the
\* timer is initialised.  The rest are fields of the timers; timeout_tick is 0 when
\* a timer is not linked, where nothing reads it.
TimerState ==
  [tick : Tick, rows : [1 .. Levels -> Seq(Timer)], live : [Timer -> BOOLEAN],
   active : [Timer -> BOOLEAN], periodic : [Timer -> BOOLEAN],
   init : [Timer -> Nat], timeout : [Timer -> Tick]]

TypeOK ==
  /\ tm \in TimerState
  /\ pc \in [Timer -> {"idle", "unlinked", "reckoned", "stop", "stopped"}]
  /\ late \in [Timer -> 0 .. MaxLate]
  /\ isr \in BOOLEAN

Init ==
  /\ tm \in [tick : {0}, rows : {[l \in 1 .. Levels |-> <<>>]},
             live : {[t \in Timer |-> TRUE]}, active : {[t \in Timer |-> FALSE]},
             periodic : {f \in [Timer -> BOOLEAN] : \A t \in Timer : f[t] \in Kinds[t]},
             init : {[t \in Timer |-> CHOOSE n \in Times[t] : TRUE]},
             timeout : {[t \in Timer |-> 0]}]
  /\ pc = [t \in Timer |-> "idle"]
  /\ late = [t \in Timer |-> 0]
  /\ isr = FALSE

-----------------------------------------------------------------------------
(* Subtraction of tick counts, and the list.                               *)

Minus(m, n) == (m - n) % (RT_TICK_MAX + 1)

All(s) == Range(s.rows[Levels])

_rt_timer_remove(s, t) ==
  [s EXCEPT !.rows = [l \in 1 .. Levels |-> SelectSeq(@[l], LAMBDA x : x # t)],
            !.timeout[t] = 0]

\* Timer x of the list expires after tick n.
Later_Plain(s, x, n) == s.timeout[x] > n

Later(s, x, n) == Minus(s.timeout[x], n) \in 1 .. Half - 1

\* Where the search of rt_timer_start, beginning behind position i of row l, ends: in
\* front of the first timer that expires after tick n.
StopsAt(s, l, i, n) ==
  LET row == s.rows[l]
      later == {j \in i + 1 .. Len(row) : Later(s, row[j], n)}
  IN IF later = {} THEN Len(row) ELSE Min(later) - 1

\* The position behind which the new timer goes in each row.  The search goes on in
\* the next row at the timer where it ended in this one.
row_head(s, n) ==
  LET at[l \in 1 .. Levels] ==
        LET up == s.rows[l - 1][at[l - 1]]
            from == IF l = 1 \/ at[l - 1] = 0 THEN 0
                    ELSE CHOOSE i \in 1 .. Len(s.rows[l]) : s.rows[l][i] = up
        IN StopsAt(s, l, from, n)
  IN at

\* The second section of rt_timer_start.  random_nr decides how many rows a timer is
\* linked in: any number of them.
Linked(s, t, height) ==
  LET at == row_head(s, s.timeout[t])
      put(row, i) == SubSeq(row, 1, i) \o <<t>> \o SubSeq(row, i + 1, Len(row))
  IN [s EXCEPT !.active[t] = TRUE,
               !.rows = [l \in 1 .. Levels |->
                           IF l > Levels - height THEN put(@[l], at[l]) ELSE @[l]]]

Unlinked(s, t) == [_rt_timer_remove(s, t) EXCEPT !.active[t] = FALSE]

Reckoned(s, t) == [s EXCEPT !.timeout[t] = (s.tick + s.init[t]) % (RT_TICK_MAX + 1)]

\* Called with interrupts disabled.
rt_timer_start(s, t, height) == Linked(Reckoned(Unlinked(s, t), t), t, height)

rt_timer_stop(s, t) == IF s.active[t] THEN Unlinked(s, t) ELSE s

\* The flag stays as it is.
rt_timer_detach(s, t) == [_rt_timer_remove(s, t) EXCEPT !.live[t] = FALSE]

_rt_timer_init_KeepsFlag(s, t, n, p) ==
  [s EXCEPT !.live[t] = TRUE, !.periodic[t] = p, !.init[t] = n, !.timeout[t] = 0]

\* _rt_timer_init, by rt_timer_init and rt_timer_create.
_rt_timer_init(s, t, n, p) ==
  [s EXCEPT !.live[t] = TRUE, !.active[t] = FALSE, !.periodic[t] = p, !.init[t] = n, !.timeout[t] = 0]

-----------------------------------------------------------------------------
(* Threads.  The tick interrupt can come between any two of these actions. *)

At(t, l) == ~isr /\ t \in Managed /\ tm.live[t] /\ pc[t] = l

Goto(t, l) == pc' = [pc EXCEPT ![t] = l]

StartUnlink(t) ==
  /\ At(t, "idle") /\ Goto(t, "unlinked")
  /\ tm' = Unlinked(tm, t)
  /\ UNCHANGED <<late, isr>>

StartReckon(t) ==
  /\ At(t, "unlinked") /\ Goto(t, "reckoned")
  /\ tm' = Reckoned(tm, t)
  /\ UNCHANGED <<late, isr>>

StartLink(t) ==
  /\ At(t, "reckoned") /\ Goto(t, "idle")
  /\ \E height \in 1 .. Levels : tm' = Linked(tm, t, height)
  /\ late' = [late EXCEPT ![t] = 0]
  /\ UNCHANGED isr

\* rt_timer_stop: the look at the flag, the section, and the flag.
Stop(t) ==
  /\ At(t, "idle")
  /\ IF tm.active[t] THEN Goto(t, "stop") ELSE UNCHANGED pc
  /\ UNCHANGED <<tm, late, isr>>

StopUnlink(t) ==
  /\ At(t, "stop") /\ Goto(t, "stopped")
  /\ tm' = _rt_timer_remove(tm, t)
  /\ UNCHANGED <<late, isr>>

StopFlag(t) ==
  /\ At(t, "stopped") /\ Goto(t, "idle")
  /\ tm' = [tm EXCEPT !.active[t] = FALSE]
  /\ UNCHANGED <<late, isr>>

\* rt_timer_detach or rt_timer_delete; rt_timer_init or rt_timer_create.
Detach(t) ==
  /\ At(t, "idle")
  /\ tm' = rt_timer_detach(tm, t)
  /\ UNCHANGED <<pc, late, isr>>

Create(t) ==
  /\ ~isr /\ ~tm.live[t]
  /\ \E n \in Times[t] : \E p \in Kinds[t] : tm' = _rt_timer_init(tm, t, n, p)
  /\ UNCHANGED <<pc, late, isr>>

rt_timer_control(t) ==
  /\ At(t, "idle")
  /\ \/ \E n \in Times[t] : tm' = [tm EXCEPT !.init[t] = n]
     \/ \E p \in Kinds[t] : tm' = [tm EXCEPT !.periodic[t] = p]
  /\ UNCHANGED <<pc, late, isr>>

-----------------------------------------------------------------------------
(* The tick interrupt.  Nothing interrupts rt_timer_check.                 *)

\* rt_tick_increase up to its call of rt_timer_check.
TickStart ==
  /\ ~isr /\ isr' = TRUE
  /\ \A t \in Timer : pc[t] = "reckoned" => late[t] < MaxLate
  /\ tm' = [tm EXCEPT !.tick = (@ + 1) % (RT_TICK_MAX + 1)]
  /\ late' = [t \in Timer |-> IF pc[t] = "reckoned" THEN late[t] + 1 ELSE late[t]]
  /\ UNCHANGED pc

Expired_Plain(s) ==
  s.rows[Levels] # <<>> /\ s.tick >= s.timeout[Head(s.rows[Levels])]

\* rt_timer_check finds the first timer expired.
Expired(s) ==
  s.rows[Levels] # <<>> /\ Minus(s.tick, s.timeout[Head(s.rows[Levels])]) < Half

\* What the timeout function of t may do with timer x.
Allowed(t, op, x) ==
  /\ tm.live[x]
  /\ CASE op = "start"  -> x \notin Managed /\ (x # t \/ tm.periodic[t] \/ AnyCallback)
       [] op = "stop"   -> TRUE
       [] op = "detach" -> x \notin Managed /\ (x # t \/ ~tm.periodic[t] \/ AnyCallback)

Callback(s, op, x, height) ==
  CASE op = "start"  -> rt_timer_start(s, x, height)
    [] op = "stop"   -> rt_timer_stop(s, x)
    [] op = "detach" -> rt_timer_detach(s, x)
    [] op = "none"   -> s

Again_NoReckon(s, t, height) ==
  IF s.periodic[t] /\ s.active[t]
    THEN Linked(Unlinked(s, t), t, height)
    ELSE [s EXCEPT !.active[t] = FALSE]

\* After the timeout function.
Again(s, t, height) ==
  IF s.periodic[t] /\ s.active[t]
    THEN rt_timer_start([s EXCEPT !.active[t] = FALSE], t, height)
    ELSE [s EXCEPT !.active[t] = FALSE]

\* One round of the loop of rt_timer_check.
Fire ==
  /\ isr /\ Expired(tm)
  /\ LET t == Head(tm.rows[Levels])
         removed == _rt_timer_remove(tm, t)
     IN \E x \in Timer, op \in {"start", "stop", "detach", "none"}, g, h \in 1 .. Levels :
          /\ op # "none" => Allowed(t, op, x)
          /\ tm' = Again(Callback(removed, op, x, g), t, h)
  /\ UNCHANGED <<pc, late, isr>>

TickEnd ==
  /\ isr /\ ~Expired(tm) /\ isr' = FALSE
  /\ UNCHANGED <<tm, pc, late>>

-----------------------------------------------------------------------------
Next ==
  \/ TickStart \/ Fire \/ TickEnd
  \/ \E t \in Timer :
       \/ StartUnlink(t) \/ StartReckon(t) \/ StartLink(t)
       \/ Stop(t) \/ StopUnlink(t) \/ StopFlag(t)
       \/ Detach(t) \/ Create(t) \/ rt_timer_control(t)

Spec == Init /\ [][Next]_tmvars

-----------------------------------------------------------------------------
(* Properties.                                                             *)

\* The ticks timer t has left: the difference of the two counters, as a signed
\* number.
Left(t) ==
  LET d == Minus(tm.timeout[t], tm.tick) IN IF d < Half THEN d ELSE d - (RT_TICK_MAX + 1)

\* The skip list: the last row holds every timer once, in the order of expiry although
\* the counters wrap around, and each row is part of the next one, in the same order.
RowsSound ==
  /\ TypeOK
  /\ \A l \in 1 .. Levels : IsInjective(tm.rows[l])
  /\ \A i, j \in DOMAIN tm.rows[Levels] :
       i < j => Left(tm.rows[Levels][i]) <= Left(tm.rows[Levels][j])
  /\ \A l \in 1 .. Levels - 1 :
       tm.rows[l] = SelectSeq(tm.rows[l + 1], LAMBDA t : t \in Range(tm.rows[l]))

\* A timer is flagged ACTIVATED exactly when it is in the list, unless its thread is
\* inside rt_timer_stop: whatever ticks, timeout functions and calls came before,
\* rt_timer_stop of a linked timer takes effect.  And it lasts: no timer is linked whose
\* thread is past the section of rt_timer_stop, or that has been detached.
FlagTrue ==
  \A t \in Timer :
    /\ tm.live[t] /\ pc[t] \notin {"stop", "stopped"} => (tm.active[t] <=> t \in All(tm))
    /\ pc[t] = "stopped" \/ ~tm.live[t] => t \notin All(tm)

\* With counters that wrap around, the timers count ticks as if they were integers:
\* none fires early, none is late when the tick interrupt ends, and they fire in
\* order.
Abstract == INSTANCE Alarms
  WITH left <- [t \in All(tm) |-> Left(t)], time <- tm.init, firing <- isr

Implements == Abstract!Spec

\* rt_timer_check ends: every round of its loop leaves fewer expired timers behind,
\* although timers start again, and start others, in the middle of it.
CheckEnds ==
  [][isr /\ isr' => Cardinality({t \in All(tm)' : Left(t)' <= 0}) < Cardinality({t \in All(tm) : Left(t) <= 0})]_tmvars
=============================================================================
