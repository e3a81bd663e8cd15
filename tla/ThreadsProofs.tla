---------------------------- MODULE ThreadsProofs ----------------------------
(***************************************************************************)
(* Thread management is correct for every set of threads, every number of  *)
(* priorities and every time slice, provided the management functions are  *)
(* called with interrupts disabled and no thread is ended before it was    *)
(* started.                                                                *)
(***************************************************************************)
EXTENDS Threads, KernelProofs

\* How the application uses thread.c.
Disciplined == Unlocked = {} /\ EndUnstarted = FALSE

-----------------------------------------------------------------------------
(* The inductive invariant.                                                *)

\* With disciplined use no function is interrupted half way, except
\* rt_thread_idle_excute between unlinking a dead thread and freeing it.
Labels ==
  \A t \in Thread : /\ pc[t] \in {"run", "sched", "sleep", "wake", "free"}
                    /\ pc[t] = "free" => t = Idle

\* A thread that is not in the object container, or is about to leave it, is
\* dead.
Objects ==
  /\ \A x \in Thread \ obj : k.stat[x] = "CLOSE"
  /\ pc[Idle] = "free" => arg[Idle] \in Thread /\ k.stat[arg[Idle]] = "CLOSE"

\* The idle thread is always there to be chosen.
IdleReady ==
  /\ k.stat[Idle] \in {"INIT", "READY"}
  /\ Started => k.stat[Idle] = "READY"

\* The running thread is alive, or on its way to its last rt_schedule.
Running ==
  /\ k.isr => Started
  /\ Started => /\ k.stat[k.current] # "INIT"
                /\ k.stat[k.current] = "CLOSE" => pc[k.current] = "sched" /\ k.lock = 0

OnTime == ~k.isr => \A t \in Range(k.timers) : k.left[t] >= 0

\* Unless it is about to call rt_schedule, the running thread is the one that
\* rt_schedule would choose, also while the tick interrupt is served.
Chosen ==
  Reschedule /\ Started /\ k.lock = 0 /\ pc[k.current] \notin {"sched", "sleep"}
    => k.current = ToThread(k)

IInv ==
  /\ TypeOK /\ Sound(k)
  /\ Labels /\ Objects /\ IdleReady /\ Running /\ OnTime /\ Chosen

\* What every step respects: only an unlocked rt_schedule changes the running
\* thread, and to a READY one; a dead thread stays dead until it is initialised.
StepOK ==
  /\ \/ k'.current = k.current
     \/ k'.current \in Thread /\ k'.stat[k'.current] = "READY" /\ (Started => k.lock = 0)
  /\ \A t \in Thread : k.stat[t] = "CLOSE" => k'.stat[t] \in {"CLOSE", "INIT"}

-----------------------------------------------------------------------------
(* The steps of the running thread.                                        *)

\* A section of a function of thread.c executed by the running thread t, on a
\* thread x other than the idle thread: what it has to do to keep IInv.
LEMMA ManageStep ==
  ASSUME IInv,
         NEW t \in Thread \ {Idle}, k.current = t, ~k.isr, k.stat[t] # "CLOSE",
         NEW x \in Thread \ {Idle},
         Sound(k'), Frame(k', k, x),
         x = t => k'.stat[t] \in {"READY", "SUSPEND"},
         k.stat[x] = "CLOSE" => k'.stat[x] = "CLOSE",
         obj' = obj \/ obj' = obj \ {x}, x \notin obj' => k'.stat[x] = "CLOSE",
         arg' = arg,
         NEW l \in {"run", "sched", "sleep", "wake"}, pc' = [pc EXCEPT ![t] = l],
         \/ l \in {"sched", "sleep"} \/ ~Reschedule
         \/ pc[t] \notin {"sched", "sleep"} /\ (k.lock = 0 => ToThread(k') = ToThread(k))
  PROVE  IInv' /\ StepOK
<1>1. /\ k \in KernelState /\ k' \in KernelState
  BY DEF IInv, Sound
<1>2. /\ \A y \in Thread \ {x} : k'.stat[y] = k.stat[y]
      /\ k'.current = t /\ k'.lock = k.lock /\ k'.isr = FALSE
      /\ \A y \in Range(k'.timers) : y \in Range(k.timers) /\ k'.left[y] = k.left[y]
  BY <1>1, FieldTypes DEF Frame
<1>3. Idle \in Thread /\ pc \in [Thread -> Label] /\ obj \in SUBSET Thread
  BY KernelAssumption DEF IInv, TypeOK
<1>4. pc'[t] = l /\ \A y \in Thread \ {t} : pc'[y] = pc[y]
  BY <1>3
<1>5. TypeOK'
  BY <1>1, <1>3 DEF IInv, TypeOK, Label
<1>6. Labels'
  BY <1>3, <1>4 DEF IInv, Labels
<1>7. Objects'
  BY <1>2, <1>3, <1>4 DEF IInv, Objects
<1>8. IdleReady'
  BY <1>2, <1>3 DEF IInv, IdleReady, Started
<1>9. Running'
  BY <1>2 DEF IInv, Running, Started
<1>10. OnTime'
  BY <1>2 DEF IInv, OnTime
<1>11. Chosen'
  BY <1>2, <1>4 DEF IInv, Chosen, Started
<1>20. StepOK
  BY <1>2 DEF StepOK
<1> QED
  BY <1>20, <1>5, <1>6, <1>7, <1>8, <1>9, <1>10, <1>11 DEF IInv

\* Who runs application code is alive.
LEMMA RunnerAlive ==
  ASSUME IInv, NEW t \in Thread, NEW l \in {"run", "wake", "free", "sleep"}, At(t, l)
  PROVE  k.stat[t] \in {"READY", "SUSPEND"} /\ k.current = t /\ ~k.isr /\ Started
<1>1. k \in KernelState
  BY DEF IInv, Sound
<1>2. k.stat[t] \in Stat
  BY <1>1, FieldTypes
<1>3. t # Wild
  BY KernelAssumption
<1>4. k.stat[t] # "INIT" /\ k.stat[t] # "CLOSE"
  BY <1>3 DEF IInv, Running, At, Started
<1> QED
  BY <1>2, <1>3, <1>4 DEF At, Stat, Started

\* rt_thread_yield keeps the invariant: the list of the caller's priority is rotated
\* and rt_schedule called.
LEMMA YieldStep ==
  ASSUME IInv, NEW t \in Thread, Yield(t)
  PROVE  IInv' /\ StepOK
<1>1. /\ At(t, "run") /\ t \in Thread \ {Idle} /\ obj' = obj /\ arg' = arg
      /\ Sound(k)
  BY DEF Yield, IInv
<1>2. k.stat[t] \in {"READY", "SUSPEND"} /\ k.current = t /\ ~k.isr
  BY <1>1, RunnerAlive
<1>3. CASE k' = Requeue(k, t) /\ Goto(t, "sched") /\ k.stat[t] = "READY"
  <2>1. Sound(k') /\ SameBut(k', k)
    BY <1>1, <1>3, RequeueSound
  <2>2. Frame(k', k, t) /\ k'.stat[t] = "READY"
    BY <2>1, <1>3 DEF SameBut, Frame
  <2>3. t \notin obj' => k'.stat[t] = "CLOSE"
    BY <1>1, <1>3 DEF IInv, Objects
  <2>4. pc' = [pc EXCEPT ![t] = "sched"]
    BY <1>3 DEF Goto
  <2> QED BY <1>1, <1>2, <1>3, <2>1, <2>2, <2>3, <2>4, ManageStep, Zenon
<1>4. CASE k' = k /\ pc' = pc
  BY <1>1, <1>4 DEF StepOK, IInv, TypeOK, Labels, Objects, IdleReady, Running, OnTime, Chosen, Started
<1> QED
  BY <1>3, <1>4 DEF Yield

\* Sleeping starts a timer, so that ManageStep does not apply.
LEMMA SleepStep ==
  ASSUME IInv, NEW t \in Thread, NEW n \in Delays, Sleep(t, n)
  PROVE  IInv' /\ StepOK
<1> DEFINE s == rt_thread_suspend(k, t)
<1>1. /\ At(t, "run") /\ t \in Thread \ {Idle} /\ obj' = obj /\ arg' = arg
      /\ k' = rt_timer_start(s, t, n) /\ pc' = [pc EXCEPT ![t] = "sleep"]
      /\ Sound(k) /\ k \in KernelState /\ n \in Nat
  BY ThreadsAssumption DEF Sleep, IInv, Goto, Sound
<1>2. k.stat[t] \in {"READY", "SUSPEND"} /\ k.current = t /\ ~k.isr /\ Started
  BY <1>1, RunnerAlive
<1>3. Sound(s) /\ Frame(s, k, t) /\ s.stat[t] = "SUSPEND"
  <2>1. CASE k.stat[t] = "READY"
    BY <2>1, <1>1, SuspendSound
  <2>2. CASE k.stat[t] = "SUSPEND"
    BY <2>2, <1>1 DEF rt_thread_suspend, Frame
  <2> QED BY <2>1, <2>2, <1>2
<1> HIDE DEF s
<1>4. /\ Sound(k') /\ k'.stat = s.stat
      /\ k'.current = s.current /\ k'.lock = s.lock /\ k'.isr = s.isr
      /\ Range(k'.timers) = Range(s.timers) \cup {t}
      /\ k'.left = [s.left EXCEPT ![t] = n]
  <2>1. n \in Int
    BY <1>1
  <2> DEFINE w == rt_timer_start(s, t, n)
  <2>2. /\ Sound(w) /\ w.stat = s.stat
        /\ w.current = s.current /\ w.lock = s.lock /\ w.isr = s.isr
        /\ Range(w.timers) = Range(s.timers) \cup {t}
        /\ w.left = [s.left EXCEPT ![t] = n]
    <3>1. Sound(s) /\ s.stat[t] = "SUSPEND" /\ t \in Thread
      BY <1>3
    <3>2. Sound(w)
      BY <2>1, <3>1, TimerStartSound, Zenon
    <3>3. w.stat = s.stat
      BY <3>1 DEF rt_timer_start, Sound, KernelState
    <3>7. w.current = s.current
      BY <2>1, <3>1, TimerStartSound, Zenon
    <3>8. w.lock = s.lock
      BY <2>1, <3>1, TimerStartSound, Zenon
    <3>6. w.isr = s.isr
      BY <2>1, <3>1, TimerStartSound, Zenon
    <3>4. Range(w.timers) = Range(s.timers) \cup {t}
      BY <2>1, <3>1, TimerStartSound, Zenon
    <3>5. w.left = [s.left EXCEPT ![t] = n]
      BY <2>1, <3>1, TimerStartSound, SMTT(20), ZenonT(20)
    <3> HIDE DEF w
    <3> QED BY <3>2, <3>3, <3>4, <3>5, <3>6, <3>7, <3>8
  <2>3. k' = w
    BY <1>1
  <2> HIDE DEF w
  <2> QED BY <2>2, <2>3
<1>5. /\ \A y \in Thread \ {t} : k'.stat[y] = k.stat[y]
      /\ k'.stat[t] = "SUSPEND"
      /\ k'.current = t /\ k'.lock = k.lock /\ ~k'.isr
  BY <1>2, <1>3, <1>4 DEF Frame
<1>6. \A y \in Range(k'.timers) : k'.left[y] >= 0
  <2> SUFFICES ASSUME NEW y \in Range(k'.timers) PROVE k'.left[y] >= 0
    OBVIOUS
  <2>1. s \in KernelState
    BY <1>3 DEF Sound
  <2>2. s.left \in [Thread -> Int]
    BY <2>1, FieldTypes
  <2>3. CASE y = t
    BY <2>2, <2>3, <1>1, <1>4
  <2>4. CASE y # t
    <3>1. y \in Range(s.timers) /\ k'.left[y] = s.left[y]
      BY <2>2, <2>4, <1>4, <2>1, RangesAreThreads
    <3>2. y \in Range(k.timers) /\ s.left[y] = k.left[y]
      BY <3>1, <1>3 DEF Frame
    <3> QED BY <3>1, <3>2, <1>2 DEF IInv, OnTime
  <2> QED BY <2>3, <2>4
<1>7. Idle \in Thread /\ pc \in [Thread -> Label] /\ obj \in SUBSET Thread
      /\ pc'[t] = "sleep" /\ \A y \in Thread \ {t} : pc'[y] = pc[y]
  BY <1>1, KernelAssumption DEF IInv, TypeOK
<1>8. TypeOK' /\ Labels'
  BY <1>1, <1>4, <1>7 DEF IInv, TypeOK, Label, Labels, Sound
<1>9. Objects'
  <2>1. t \in obj
    BY <1>1, <1>2 DEF IInv, Objects
  <2>2. pc[Idle] = "free" => arg[Idle] # t
    BY <1>2 DEF IInv, Objects
  <2> QED BY <2>1, <2>2, <1>1, <1>5, <1>7 DEF IInv, Objects
<1>10. IdleReady' /\ Running' /\ OnTime' /\ Chosen'
  BY <1>1, <1>5, <1>6, <1>7, <1>2 DEF IInv, IdleReady, Running, OnTime, Chosen, Started
<1>20. StepOK
  BY <1>2, <1>5 DEF StepOK
<1> QED
  BY <1>20, <1>4, <1>8, <1>9, <1>10 DEF IInv

\* rt_schedule switches to the chosen thread, or is refused by the lock.
LEMMA ScheduleStep ==
  ASSUME IInv, NEW t \in Thread, Schedule(t)
  PROVE  IInv' /\ StepOK
<1>1. PICK l \in {"run", "wake"} :
        /\ pc' = [pc EXCEPT ![t] = l] /\ k.current = t /\ ~k.isr
        /\ pc[t] \in {"sched", "sleep"}
  BY DEF Schedule, At, Goto
<1>2. obj' = obj /\ arg' = arg /\ k' = rt_schedule(k) /\ Sound(k) /\ Started
  BY <1>1, KernelAssumption DEF Schedule, IInv, Started
<1>3. Idle \in Thread /\ k.stat[Idle] = "READY"
  BY <1>2, KernelAssumption DEF IInv, IdleReady
<1>4. /\ Sound(k') /\ k'.stat = k.stat
      /\ k'.timers = k.timers /\ k'.left = k.left /\ k'.lock = k.lock /\ k'.isr = k.isr
      /\ k.lock = 0 => /\ k'.current = ToThread(k')
                       /\ k'.current \in Thread /\ k'.stat[k'.current] = "READY"
      /\ k.lock # 0 => k' = k
  <2> DEFINE q == rt_schedule(k)
  <2>1. /\ Sound(q) /\ q.stat = k.stat
        /\ q.timers = k.timers /\ q.left = k.left /\ q.lock = k.lock /\ q.isr = k.isr
        /\ k.lock = 0 => /\ q.current = ToThread(q)
                         /\ q.current \in Thread /\ q.stat[q.current] = "READY"
        /\ k.lock # 0 => q = k
    BY <1>2, <1>3, ScheduleSound
  <2>2. k' = q
    BY <1>2
  <2> HIDE DEF q
  <2> QED BY <2>1, <2>2
<1>5. /\ pc \in [Thread -> Label] /\ obj \in SUBSET Thread
      /\ pc'[t] = l /\ \A y \in Thread \ {t} : pc'[y] = pc[y]
  BY <1>1 DEF IInv, TypeOK
<1>6. TypeOK' /\ Labels'
  BY <1>1, <1>2, <1>4, <1>5, SMTT(20), ZenonT(20) DEF IInv, TypeOK, Label, Labels, Sound
<1>7. Objects' /\ IdleReady' /\ OnTime'
  BY <1>1, <1>2, <1>3, <1>4, <1>5 DEF IInv, Objects, IdleReady, OnTime
<1>8. Running' /\ Chosen'
  <2>1. CASE k.lock = 0
    BY <2>1, <1>1, <1>4, <1>5 DEF Running, Chosen, Started
  <2>2. CASE k.lock # 0
    BY <2>2, <1>1, <1>2, <1>4, <1>5 DEF IInv, Running, Chosen, Started
  <2> QED BY <2>1, <2>2
<1>20. StepOK
  BY <1>4 DEF StepOK
<1> QED
  BY <1>20, <1>4, <1>6, <1>7, <1>8 DEF IInv

\* rt_thread_sleep, when it returns, keeps the invariant.
LEMMA WakeStep ==
  ASSUME IInv, NEW t \in Thread, Wake(t)
  PROVE  IInv' /\ StepOK
<1>1. /\ At(t, "wake") /\ obj' = obj /\ arg' = arg
      /\ pc' = [pc EXCEPT ![t] = "run"] /\ Sound(k) /\ k \in KernelState
      /\ k' = [k EXCEPT !.error[t] = IF @ = "ETIMEOUT" THEN "EOK" ELSE @]
  BY DEF Wake, IInv, Goto, Sound
<1>2. k.current = t /\ ~k.isr /\ pc[t] = "wake"
  BY <1>1 DEF At
<1>3. /\ k' \in KernelState
      /\ k'.list = k.list /\ k'.group = k.group /\ k'.stat = k.stat /\ k'.prio = k.prio
      /\ k'.mask = k.mask /\ k'.timers = k.timers /\ k'.left = k.left
      /\ k'.current = k.current /\ k'.lock = k.lock /\ k'.isr = k.isr
  BY <1>1, Zenon DEF KernelState, Error
<1>4. Sound(k')
  BY <1>1, <1>3, SoundUpdate, Zenon
<1>5. ToThread(k') = ToThread(k)
  BY <1>3 DEF ToThread
<1>6. /\ pc \in [Thread -> Label] /\ Idle \in Thread
      /\ pc'[t] = "run" /\ \A y \in Thread \ {t} : pc'[y] = pc[y]
  BY <1>1, KernelAssumption DEF IInv, TypeOK
<1>7. TypeOK' /\ Labels'
  BY <1>1, <1>3, <1>6, SMTT(20), ZenonT(20) DEF IInv, TypeOK, Label, Labels
<1>8. Objects' /\ IdleReady' /\ OnTime' /\ Running' /\ Chosen'
  BY <1>1, <1>2, <1>3, <1>5, <1>6, SMTT(20), ZenonT(20)
     DEF IInv, Objects, IdleReady, OnTime, Running, Chosen, Started
<1>20. StepOK
  BY <1>3 DEF StepOK
<1> QED
  BY <1>20, <1>4, <1>7, <1>8 DEF IInv

\* rt_enter_critical and rt_exit_critical: only the nesting counter changes.
LEMMA CriticalStep ==
  ASSUME IInv, NEW t \in Thread, rt_enter_critical(t) \/ rt_exit_critical(t)
  PROVE  IInv' /\ StepOK
<1>1. /\ At(t, "run") /\ obj' = obj /\ arg' = arg /\ Sound(k) /\ k \in KernelState
      /\ t # Idle
  BY DEF rt_enter_critical, rt_exit_critical, IInv, Sound
<1>2. k.current = t /\ ~k.isr /\ pc[t] = "run" /\ k.stat[t] # "CLOSE"
  BY <1>1, RunnerAlive DEF At
<1>3. PICK n \in Nat : k' = [k EXCEPT !.lock = n]
  <2>1. k.lock \in Nat
    BY <1>1, FieldTypes
  <2>2. CASE rt_enter_critical(t)
    BY <2>1, <2>2 DEF rt_enter_critical
  <2>3. CASE rt_exit_critical(t)
    <3>1. k' = [k EXCEPT !.lock = IF k.lock > 0 THEN k.lock - 1 ELSE 0]
      BY <2>3 DEF rt_exit_critical
    <3>2. (IF k.lock > 0 THEN k.lock - 1 ELSE 0) \in Nat
      BY <2>1
    <3> QED BY <3>1, <3>2
  <2> QED BY <2>2, <2>3
<1>4. /\ k' \in KernelState /\ k'.lock = n
      /\ k'.list = k.list /\ k'.group = k.group /\ k'.stat = k.stat /\ k'.prio = k.prio
      /\ k'.mask = k.mask /\ k'.timers = k.timers /\ k'.left = k.left
      /\ k'.current = k.current /\ k'.isr = k.isr
  BY <1>1, <1>3, Zenon DEF KernelState
<1>5. Sound(k')
  BY <1>1, <1>4, SoundUpdate
<1>6. PICK l \in {"run", "sched"} : pc' = [pc EXCEPT ![t] = l] /\ (n = 0 => l = "sched")
  <2>1. k.lock \in Nat /\ pc \in [Thread -> Label]
    BY <1>1, FieldTypes DEF IInv, TypeOK
  <2>2. CASE rt_enter_critical(t)
    <3>1. pc' = [pc EXCEPT ![t] = "run"]
      BY <2>1, <2>2, <1>2 DEF rt_enter_critical
    <3>2. k'.lock = k.lock + 1
      BY <2>2, <1>1 DEF rt_enter_critical, KernelState
    <3> QED BY <3>1, <3>2, <2>1, <1>4
  <2>3. CASE rt_exit_critical(t)
    <3>1. k'.lock = IF k.lock > 0 THEN k.lock - 1 ELSE 0
      BY <2>3, <1>1 DEF rt_exit_critical, KernelState
    <3>2. pc' = [pc EXCEPT ![t] = IF k.lock <= 1 THEN "sched" ELSE "run"]
      BY <2>3 DEF rt_exit_critical, Goto
    <3>3. CASE k.lock <= 1
      BY <3>2, <3>3, Zenon
    <3>4. CASE ~(k.lock <= 1)
      <4>1. n # 0
        BY <3>1, <3>4, <2>1, <1>4
      <4>2. pc' = [pc EXCEPT ![t] = "run"]
        BY <3>2, <3>4
      <4> QED BY <4>1, <4>2
    <3> QED BY <3>3, <3>4
  <2> QED BY <2>2, <2>3
<1>7. /\ pc \in [Thread -> Label] /\ Idle \in Thread
      /\ pc'[t] = l /\ \A y \in Thread \ {t} : pc'[y] = pc[y]
  BY <1>6, KernelAssumption DEF IInv, TypeOK
<1>8. TypeOK' /\ Labels'
  BY <1>1, <1>4, <1>6, <1>7, SMTT(20), ZenonT(20) DEF IInv, TypeOK, Label, Labels
<1>9. Objects' /\ IdleReady' /\ OnTime'
  BY <1>1, <1>2, <1>4, <1>7, SMTT(20), ZenonT(20) DEF IInv, Objects, IdleReady, OnTime, Started
<1>10. Running' /\ Chosen'
  BY <1>1, <1>2, <1>4, <1>6, <1>7, SMTT(20), ZenonT(20) DEF IInv, Running, Chosen, Started
<1>20. StepOK
  BY <1>4 DEF StepOK
<1> QED
  BY <1>20, <1>5, <1>8, <1>9, <1>10, SMTT(20), ZenonT(20) DEF IInv

\* rt_thread_exit: the running thread is dead until it has called rt_schedule.
LEMMA ExitStep ==
  ASSUME IInv, NEW t \in Thread, Exit(t)
  PROVE  IInv' /\ StepOK
<1> DEFINE d == Close(rt_schedule_remove_thread(k, t), t)
<1>1. /\ At(t, "run") /\ t # Idle /\ k.lock = 0 /\ arg' = arg
      /\ pc' = [pc EXCEPT ![t] = "sched"] /\ Sound(k) /\ k \in KernelState
  BY DEF Exit, IInv, Goto, Sound
<1>2. /\ k.stat[t] \in {"READY", "SUSPEND"} /\ k.current = t /\ ~k.isr /\ Started
  BY <1>1, RunnerAlive
<1>3. \/ k' = d /\ obj' = obj \ {t}
      \/ k' = Bury(d, t) /\ obj' = obj
  BY DEF Exit
<1>4. /\ Sound(d) /\ Frame(d, k, t) /\ d.stat[t] = "CLOSE"
      /\ Sound(Bury(d, t)) /\ Frame(Bury(d, t), k, t) /\ Bury(d, t).stat[t] = "CLOSE"
  BY <1>1, <1>2, KillSound
<1> HIDE DEF d
<1>5. Sound(k') /\ Frame(k', k, t) /\ k'.stat[t] = "CLOSE"
  BY <1>3, <1>4
<1>6. /\ \A y \in Thread \ {t} : k'.stat[y] = k.stat[y]
      /\ k'.current = t /\ k'.lock = 0 /\ ~k'.isr
      /\ \A y \in Range(k'.timers) : y \in Range(k.timers) /\ k'.left[y] = k.left[y]
  BY <1>1, <1>2, <1>5 DEF Frame
<1>7. /\ pc \in [Thread -> Label] /\ Idle \in Thread /\ obj \in SUBSET Thread
      /\ pc'[t] = "sched" /\ \A y \in Thread \ {t} : pc'[y] = pc[y]
  BY <1>1, KernelAssumption, SMTT(20), ZenonT(20) DEF IInv, TypeOK
<1>8. TypeOK' /\ Labels'
  BY <1>1, <1>3, <1>5, <1>7, SMTT(20), ZenonT(20) DEF IInv, TypeOK, Label, Labels, Sound
<1>9. Objects'
  BY <1>1, <1>3, <1>5, <1>6, <1>7, SMTT(20), ZenonT(20) DEF IInv, Objects
<1>10. IdleReady' /\ OnTime'
  BY <1>1, <1>2, <1>6, <1>7, SMTT(20), ZenonT(20) DEF IInv, IdleReady, OnTime, Started
<1>11. Running' /\ Chosen'
  BY <1>2, <1>5, <1>6, <1>7 DEF Running, Chosen, Started
<1>20. StepOK
  BY <1>2, <1>5, <1>6 DEF StepOK
<1> QED
  BY <1>20, <1>5, <1>8, <1>9, <1>10, <1>11, SMTT(20), ZenonT(20) DEF IInv

\* Initialising a control block touches no list, hence not the choice.
LEMMA CreateStep ==
  ASSUME IInv, NEW t \in Thread, NEW x \in Thread, Create(t, x)
  PROVE  IInv' /\ StepOK
<1>1. /\ At(t, "run") /\ t # Idle /\ x # Idle /\ x \notin obj /\ Unused(x) /\ arg' = arg
      /\ \A h \in ListHead : x \notin Range(k.list[h])
      /\ obj' = obj \cup {x} /\ pc' = [pc EXCEPT ![x] = "run"]
      /\ Sound(k) /\ k \in KernelState
  BY ThreadsAssumption DEF Create, Manages, IInv, Goto, Sound
<1>2. k.stat[t] \in {"READY", "SUSPEND"} /\ k.current = t /\ ~k.isr /\ Started
  BY <1>1, RunnerAlive
<1>3. k.stat[x] = "CLOSE" /\ x # t
  BY <1>1, <1>2 DEF IInv, Objects
<1>4. PICK m \in SUBSET Prio : k' = ThreadInit(k, x, m)
  <2>1. k.mask[x] \in SUBSET Prio
    BY <1>1, FieldTypes
  <2>2. PICK m \in (IF x \in Static THEN {k.mask[x]} ELSE Garbage) : k' = ThreadInit(k, x, m)
    BY DEF Create
  <2>3. m \in SUBSET Prio
    BY <2>1, ThreadsAssumption
  <2> QED BY <2>2, <2>3
<1>5. Sound(k') /\ Frame(k', k, x) /\ k'.stat[x] = "INIT"
  <2>1. x \notin Range(k.list[Defunct])
    BY <1>1, Heads
  <2> DEFINE q == ThreadInit(k, x, m)
  <2>2. Sound(q) /\ Frame(q, k, x) /\ q.stat[x] = "INIT"
    BY <2>1, <1>1, <1>3, ThreadInitSound
  <2> HIDE DEF q
  <2> QED BY <2>2, <1>4 DEF q
<1>6. k'.list = k.list /\ k'.group = k.group
  BY <1>1, <1>4 DEF ThreadInit, KernelState
<1>7. ToThread(k') = ToThread(k)
  BY <1>6 DEF ToThread
<1>8. /\ \A y \in Thread \ {x} : k'.stat[y] = k.stat[y]
      /\ k'.current = t /\ k'.lock = k.lock /\ ~k'.isr
      /\ \A y \in Range(k'.timers) : y \in Range(k.timers) /\ k'.left[y] = k.left[y]
  BY <1>2, <1>5 DEF Frame
<1>9. /\ pc \in [Thread -> Label] /\ Idle \in Thread /\ obj \in SUBSET Thread
      /\ pc'[x] = "run" /\ \A y \in Thread \ {x} : pc'[y] = pc[y]
  BY <1>1, KernelAssumption, SMTT(20), ZenonT(20) DEF IInv, TypeOK
<1>10. TypeOK' /\ Labels'
  BY <1>1, <1>5, <1>9, SMTT(20), ZenonT(20) DEF IInv, TypeOK, Label, Labels, Sound
<1>11. Objects'
  <2>1. pc[Idle] = "free" => arg[Idle] # x
    BY <1>1, <1>9, SMTT(20), ZenonT(20) DEF Unused
  <2> QED BY <2>1, <1>1, <1>8, <1>9, SMTT(20), ZenonT(20) DEF IInv, Objects
<1>12. IdleReady' /\ OnTime'
  BY <1>1, <1>2, <1>8, <1>9, SMTT(20), ZenonT(20) DEF IInv, IdleReady, OnTime, Started
<1>13. Running' /\ Chosen'
  BY <1>2, <1>3, <1>7, <1>8, <1>9, SMTT(20), ZenonT(20) DEF IInv, Running, Chosen, Started
<1>20. StepOK
  BY <1>2, <1>5, <1>8 DEF StepOK
<1> QED
  BY <1>20, <1>5, <1>10, <1>11, <1>12, <1>13, SMTT(20), ZenonT(20) DEF IInv

\* What the caller of a management function knows.
LEMMA ManagerFacts ==
  ASSUME IInv, NEW t \in Thread, NEW x \in Thread, Manages(t, x), Alive(x)
  PROVE  /\ t \in Thread \ {Idle} /\ x \in Thread \ {Idle} /\ x \in obj
         /\ Sound(k) /\ k.current = t /\ ~k.isr /\ pc[t] = "run"
         /\ k.stat[t] \in {"READY", "SUSPEND"} /\ k.stat[x] \in {"INIT", "READY", "SUSPEND"}
<1>1. At(t, "run") /\ t # Idle /\ x # Idle
  BY ThreadsAssumption DEF Manages
<1>2. k.stat[t] \in {"READY", "SUSPEND"}
  BY <1>1, RunnerAlive
<1>3. Sound(k) /\ k \in KernelState
  BY DEF IInv, Sound
<1>4. k.stat[x] \in {"INIT", "READY", "SUSPEND"} /\ x \in obj
  <2>1. k.stat[x] \in Stat
    BY <1>3, FieldTypes
  <2> QED BY <2>1 DEF Alive, Stat
<1> QED
  BY <1>1, <1>2, <1>3, <1>4 DEF At

\* With Reschedule the application calls rt_schedule after managing.
LEMMA AfterManagingLabel ==
  ASSUME NEW t \in Thread, AfterManaging(t)
  PROVE  \E l \in {"run", "sched"} :
           pc' = [pc EXCEPT ![t] = l] /\ (l = "sched" \/ ~Reschedule)
BY Zenon DEF AfterManaging, Goto

\* rt_thread_startup, called with interrupts disabled, keeps the invariant.
LEMMA StartupStep ==
  ASSUME Disciplined, IInv, NEW t \in Thread, NEW x \in Thread, rt_thread_startup(t, x)
  PROVE  IInv' /\ StepOK
<1> DEFINE p == StartupPrepare(k, x)
           q == rt_thread_resume(p, x)
<1>1. /\ Manages(t, x) /\ Alive(x) /\ k.stat[x] = "INIT" /\ k' = q /\ obj' = obj /\ arg' = arg
      /\ pc' = [pc EXCEPT ![t] = "sched"]
  BY DEF rt_thread_startup, Disciplined, Goto
<1>2. /\ t \in Thread \ {Idle} /\ x \in Thread \ {Idle} /\ x \in obj
      /\ Sound(k) /\ k.current = t /\ ~k.isr /\ pc[t] = "run"
      /\ k.stat[t] \in {"READY", "SUSPEND"}
  BY <1>1, ManagerFacts
<1>3. Sound(p) /\ Frame(p, k, x) /\ p.stat[x] = "SUSPEND"
  BY <1>1, <1>2, StartupSound
<1> HIDE DEF p
<1>4. Sound(q) /\ Frame(q, p, x) /\ q.stat[x] = "READY"
  BY <1>3, ResumeSound
<1> HIDE DEF q
<1>5. Frame(q, k, x)
  BY <1>3, <1>4, SMTT(20), ZenonT(20) DEF Frame
<1>6. x # t
  BY <1>1, <1>2, SMTT(20), ZenonT(20)
<1> QED
  BY <1>1, <1>2, <1>4, <1>5, <1>6, ManageStep, ZenonT(60)

\* rt_thread_suspend, called with interrupts disabled, keeps the invariant.
LEMMA SuspendStep ==
  ASSUME Disciplined, IInv, NEW t \in Thread, NEW x \in Thread, Suspend(t, x)
  PROVE  IInv' /\ StepOK
<1>1. /\ Manages(t, x) /\ Alive(x) /\ k.stat[x] = "READY" /\ obj' = obj /\ arg' = arg
      /\ k' = rt_thread_suspend(k, x)
      /\ IF x = t THEN Goto(t, "sched") ELSE AfterManaging(t)
  BY DEF Suspend, Disciplined
<1>2. /\ t \in Thread \ {Idle} /\ x \in Thread \ {Idle} /\ x \in obj
      /\ Sound(k) /\ k.current = t /\ ~k.isr /\ pc[t] = "run"
      /\ k.stat[t] \in {"READY", "SUSPEND"}
  BY <1>1, ManagerFacts
<1>3. Sound(k') /\ Frame(k', k, x) /\ k'.stat[x] = "SUSPEND"
  BY <1>1, <1>2, SuspendSound
<1>4. PICK l \in {"run", "sched"} :
        pc' = [pc EXCEPT ![t] = l] /\ (l = "sched" \/ ~Reschedule)
  BY <1>1, AfterManagingLabel, SMTT(20), ZenonT(20) DEF Goto
<1> QED
  BY <1>1, <1>2, <1>3, <1>4, ManageStep, Zenon

\* rt_thread_resume, called with interrupts disabled, keeps the invariant.
LEMMA ResumeStep ==
  ASSUME Disciplined, IInv, NEW t \in Thread, NEW x \in Thread, Resume(t, x)
  PROVE  IInv' /\ StepOK
<1>1. /\ Manages(t, x) /\ Alive(x) /\ k.stat[x] = "SUSPEND" /\ obj' = obj /\ arg' = arg
      /\ k' = rt_thread_resume(k, x) /\ AfterManaging(t)
  BY DEF Resume, Disciplined
<1>2. /\ t \in Thread \ {Idle} /\ x \in Thread \ {Idle} /\ x \in obj
      /\ Sound(k) /\ k.current = t /\ ~k.isr /\ pc[t] = "run"
      /\ k.stat[t] \in {"READY", "SUSPEND"}
  BY <1>1, ManagerFacts
<1>3. Sound(k') /\ Frame(k', k, x) /\ k'.stat[x] = "READY"
  BY <1>1, <1>2, ResumeSound
<1>4. PICK l \in {"run", "sched"} :
        pc' = [pc EXCEPT ![t] = l] /\ (l = "sched" \/ ~Reschedule)
  BY <1>1, AfterManagingLabel, SMTT(20), ZenonT(20)
<1> QED
  BY <1>1, <1>2, <1>3, <1>4, ManageStep, Zenon

\* A change of priority by rt_thread_control keeps the invariant.
LEMMA ControlStep ==
  ASSUME IInv, NEW t \in Thread, NEW x \in Thread, NEW p \in Prio, Control(t, x, p)
  PROVE  IInv' /\ StepOK
<1>1. /\ Manages(t, x) /\ Alive(x) /\ obj' = obj /\ arg' = arg
      /\ k' = ChangePriority(k, x, p) /\ AfterManaging(t)
  BY DEF Control
<1>2. /\ t \in Thread \ {Idle} /\ x \in Thread \ {Idle} /\ x \in obj
      /\ Sound(k) /\ k.current = t /\ ~k.isr /\ pc[t] = "run"
      /\ k.stat[t] \in {"READY", "SUSPEND"}
  BY <1>1, ManagerFacts
<1>3. Sound(k') /\ Frame(k', k, x) /\ k'.stat = k.stat
  BY <1>1, <1>2, ChangePrioritySound
<1>4. PICK l \in {"run", "sched"} :
        pc' = [pc EXCEPT ![t] = l] /\ (l = "sched" \/ ~Reschedule)
  BY <1>1, AfterManagingLabel, SMTT(20), ZenonT(20)
<1> QED
  BY <1>1, <1>2, <1>3, <1>4, ManageStep, Zenon

\* rt_thread_delete and rt_thread_detach need no rt_schedule: the thread that
\* goes is not the one that was chosen.
LEMMA DeleteStep ==
  ASSUME Disciplined, IInv, NEW t \in Thread, NEW x \in Thread, Delete(t, x)
  PROVE  IInv' /\ StepOK
<1> DEFINE r == rt_schedule_remove_thread(k, x)
           d == Close(r, x)
<1>1. /\ Manages(t, x) /\ Alive(x) /\ k.stat[x] # "INIT" /\ x # t
      /\ pc' = pc /\ arg' = arg
      /\ EndsIn(x, d)
  BY DEF Delete, Disciplined
<1>2. \/ k' = d /\ obj' = obj \ {x}
      \/ k' = Bury(d, x) /\ (obj' = obj \/ obj' = obj \ {x})
  <2> HIDE DEF d
  <2> QED BY <1>1 DEF EndsIn
<1>3. /\ t \in Thread \ {Idle} /\ x \in Thread \ {Idle} /\ x \in obj
      /\ Sound(k) /\ k.current = t /\ ~k.isr /\ pc[t] = "run"
      /\ k.stat[t] \in {"READY", "SUSPEND"} /\ k.stat[x] \in {"READY", "SUSPEND"}
  <2>1. Manages(t, x) /\ Alive(x) /\ k.stat[x] # "INIT"
    BY <1>1
  <2>2. /\ t \in Thread \ {Idle} /\ x \in Thread \ {Idle} /\ x \in obj
        /\ Sound(k) /\ k.current = t /\ ~k.isr /\ pc[t] = "run"
        /\ k.stat[t] \in {"READY", "SUSPEND"} /\ k.stat[x] \in {"INIT", "READY", "SUSPEND"}
    BY <2>1, ManagerFacts, Zenon
  <2> QED BY <2>1, <2>2
<1>4. /\ Sound(d) /\ Frame(d, k, x) /\ d.stat[x] = "CLOSE"
      /\ Sound(Bury(d, x)) /\ Frame(Bury(d, x), k, x) /\ Bury(d, x).stat[x] = "CLOSE"
  BY <1>3, KillSound
<1>5. Sound(k') /\ Frame(k', k, x) /\ k'.stat[x] = "CLOSE"
  <2> HIDE DEF d
  <2> QED BY <1>2, <1>4, SMTT(20), ZenonT(20)
<1>6. pc' = [pc EXCEPT ![t] = "run"]
  BY <1>1, <1>3 DEF IInv, TypeOK
<1>7. ASSUME k.lock = 0, Reschedule PROVE ToThread(k') = ToThread(k)
  <2>1. Started /\ Idle \in Thread
    BY <1>3, KernelAssumption DEF Started
  <2>2. k.stat[Idle] = "READY"
    BY <2>1 DEF IInv, IdleReady
  <2>3. ToThread(k) = t
    BY <2>1, <1>3, <1>7, SMTT(20), ZenonT(20) DEF IInv, Chosen
  <2>4. ToThread(r) = ToThread(k)
    BY <2>1, <2>2, <2>3, <1>1, <1>3, RemoveKeepsChoice, SMTT(20), ZenonT(20)
  <2>5. Loose(r, x)
    BY <1>3, RemoveLoose
  <2> HIDE DEF r
  <2>6. d.list = r.list /\ d.group = r.group
    <3>1. r \in KernelState
      BY <2>5, SMTT(20), ZenonT(20) DEF Loose, Tied
    <3> QED BY <3>1 DEF Close, rt_timer_stop, KernelState
  <2>7. d \in KernelState /\ d.group \in SUBSET Prio /\ d.group \in SUBSET Nat
    <3>1. d \in KernelState
      BY <1>4 DEF Sound
    <3>2. Prio \subseteq Nat
      BY KernelAssumption DEF Prio
    <3> HIDE DEF d
    <3>3. d.group \in SUBSET Prio
      BY <3>1, FieldTypes
    <3> QED BY <3>1, <3>2, <3>3, Zenon
  <2> HIDE DEF d
  <2>8. \A p \in Prio : Bury(d, x).list[p] = d.list[p]
    BY <2>7, Heads DEF Bury, KernelState
  <2>9. Bury(d, x).group = d.group
    BY <2>7 DEF Bury, KernelState
  <2>10. d.group # {} => Highest(d.group) \in Prio
    BY <2>7, MinProps DEF Highest
  <2>11. ToThread(Bury(d, x)) = ToThread(d)
    BY <2>8, <2>9, <2>10 DEF ToThread
  <2>12. ToThread(d) = ToThread(r)
    BY <2>6 DEF ToThread
  <2> QED BY <2>4, <2>11, <2>12, <1>2
<1> HIDE DEF d, r
<1>8. obj' = obj \/ obj' = obj \ {x}
  BY <1>2
<1> QED
  BY <1>1, <1>3, <1>5, <1>6, <1>7, <1>8, ManageStep, Zenon

-----------------------------------------------------------------------------
(* The idle thread, the tick interrupt and the boot code.                  *)

\* Unlinking a dead thread leaves the ready lists alone.
LEMMA ReapKeepsChoice ==
  ASSUME NEW q, Sound(q), NEW x \in Thread, q.stat[x] = "CLOSE"
  PROVE  ToThread(Unlink(q, x)) = ToThread(q)
<1>1. q \in KernelState /\ ReadyQueue(q) /\ LinkedOnce(q)
  BY DEF Sound
<1>2. \A p \in Prio : x \notin Range(q.list[p])
  BY <1>1 DEF ReadyQueue
<1>3. \A p \in Prio : Unlink(q, x).list[p] = q.list[p]
  BY <1>1, <1>2, Heads DEF Unlink, Without, KernelState
<1>4. Unlink(q, x).group = q.group
  BY <1>1 DEF Unlink, KernelState
<1>5. q.group \in SUBSET Prio /\ q.group \in SUBSET Nat
  BY <1>1, FieldTypes, KernelAssumption DEF Prio
<1>6. q.group # {} => Highest(q.group) \in Prio
  BY <1>5, MinProps DEF Highest
<1> QED
  BY <1>3, <1>4, <1>6 DEF ToThread

\* The idle thread keeps the invariant when it unlinks a dead thread.
LEMMA ReapStep ==
  ASSUME IInv, IdleReap
  PROVE  IInv' /\ StepOK
<1> DEFINE x == Head(k.list[Defunct])
<1>1. /\ At(Idle, "run") /\ Idle \in Thread /\ Sound(k) /\ k \in KernelState
      /\ k.list[Defunct] # <<>> /\ k' = Unlink(k, x) /\ obj' = obj
      /\ pc \in [Thread -> Label] /\ arg \in [Thread -> Thread \cup {Wild}]
      /\ \/ pc' = pc /\ arg' = arg
         \/ pc' = [pc EXCEPT ![Idle] = "free"] /\ arg' = [arg EXCEPT ![Idle] = x]
  BY KernelAssumption, SMTT(20), ZenonT(20) DEF IdleReap, IInv, Sound, TypeOK, Goto
<1>2. k.stat[Idle] \in {"READY", "SUSPEND"} /\ k.current = Idle /\ ~k.isr /\ Started
  BY <1>1, RunnerAlive
<1>3. x \in Thread /\ k.stat[x] = "CLOSE"
  <2>1. k.list[Defunct] \in Seq(Thread)
    BY <1>1, FieldTypes, Heads, SMTT(20), ZenonT(20)
  <2>2. x \in Thread /\ x \in Range(k.list[Defunct])
    BY <2>1, <1>1, EmptyOrHead, SMTT(20), ZenonT(20)
  <2>3. k.stat[x] = "CLOSE"
    BY <2>2, <1>1, SMTT(20), ZenonT(20) DEF Sound, OtherLists
  <2> QED BY <2>2, <2>3, SMTT(20), ZenonT(20)
<1> HIDE DEF x
<1>4. Sound(k') /\ Frame(k', k, x) /\ k'.stat = k.stat /\ ToThread(k') = ToThread(k)
  BY <1>1, <1>3, ReapSound, ReapKeepsChoice, SMTT(20), ZenonT(20)
<1>5. /\ k'.current = Idle /\ k'.lock = k.lock /\ ~k'.isr
      /\ \A y \in Range(k'.timers) : y \in Range(k.timers) /\ k'.left[y] = k.left[y]
  BY <1>2, <1>4, SMTT(20), ZenonT(20) DEF Frame
<1>6. /\ pc'[Idle] \in {"run", "free"} /\ \A y \in Thread \ {Idle} : pc'[y] = pc[y]
      /\ pc'[Idle] = "free" => arg'[Idle] = x
      /\ pc[Idle] = "run"
  BY <1>1, SMTT(20), ZenonT(20) DEF At
<1>7. TypeOK' /\ Labels'
  <2>1. k' \in KernelState
    BY <1>4 DEF Sound
  <2>2. pc' \in [Thread -> Label]
    BY <1>1 DEF Label
  <2>3. arg' \in [Thread -> Thread \cup {Wild}]
    BY <1>1, <1>3
  <2>4. TypeOK'
    BY <2>1, <2>2, <2>3, <1>1 DEF IInv, TypeOK
  <2>5. Labels'
    BY <1>6 DEF IInv, Labels
  <2> QED BY <2>4, <2>5
<1>8. Objects' /\ IdleReady' /\ OnTime'
  <2>1. Objects'
    BY <1>1, <1>3, <1>4, <1>6 DEF IInv, Objects
  <2>2. IdleReady'
    BY <1>2, <1>4, <1>5 DEF IInv, IdleReady, Started
  <2>3. OnTime'
    BY <1>2, <1>5 DEF IInv, OnTime
  <2> QED BY <2>1, <2>2, <2>3
<1>9. Running' /\ Chosen'
  BY <1>2, <1>4, <1>5, <1>6 DEF IInv, Running, Chosen, Started
<1>20. StepOK
  BY <1>2, <1>4, <1>5 DEF StepOK
<1> QED
  BY <1>20, <1>4, <1>7, <1>8, <1>9, SMTT(20), ZenonT(20) DEF IInv

\* The idle thread keeps the invariant when it frees a dead thread.
LEMMA FreeStep ==
  ASSUME IInv, IdleFree
  PROVE  IInv' /\ StepOK
<1>1. /\ At(Idle, "free") /\ Idle \in Thread /\ k' = k
      /\ pc \in [Thread -> Label] /\ arg \in [Thread -> Thread \cup {Wild}]
      /\ obj' = obj \ {arg[Idle]} /\ obj \in SUBSET Thread
      /\ pc' = [pc EXCEPT ![Idle] = "run"] /\ arg' = [arg EXCEPT ![Idle] = Wild]
  BY KernelAssumption DEF IdleFree, IInv, TypeOK, Goto
<1>2. /\ pc'[Idle] = "run" /\ \A y \in Thread \ {Idle} : pc'[y] = pc[y]
      /\ pc[Idle] = "free" /\ k.current = Idle
  BY <1>1 DEF At
<1>3. k.stat[arg[Idle]] = "CLOSE"
  BY <1>2 DEF IInv, Objects
<1>4. TypeOK' /\ Labels'
  BY <1>1, <1>2, SMTT(20), ZenonT(20) DEF IInv, TypeOK, Label, Labels
<1>5. Objects' /\ IdleReady' /\ OnTime'
  BY <1>1, <1>2, <1>3, SMTT(20), ZenonT(20) DEF IInv, Objects, IdleReady, OnTime, Started
<1>6. Running' /\ Chosen'
  BY <1>1, <1>2 DEF IInv, Running, Chosen, Started
<1>7. Sound(k')
  BY <1>1 DEF IInv
<1>20. StepOK
  BY <1>1, SMTT(20), ZenonT(20) DEF StepOK
<1> QED
  BY <1>20, <1>4, <1>5, <1>6, <1>7, SMTT(20), ZenonT(20) DEF IInv

\* A step of the tick interrupt: it may switch to the chosen thread, and only
\* makes threads READY.
LEMMA TickStep ==
  ASSUME IInv, Tick \/ TickFire \/ TickEnd
  PROVE  IInv' /\ StepOK
<1>1. /\ obj' = obj /\ pc' = pc /\ arg' = arg /\ Sound(k) /\ k \in KernelState
      /\ Started /\ k.current \in Thread
  <2>1. k \in KernelState
    BY DEF IInv, Sound
  <2>2. Started
    BY DEF Tick, TickFire, TickEnd, IInv, Running
  <2>3. k.current \in Thread
    BY <2>1, <2>2, FieldTypes, SMTT(20), ZenonT(20) DEF Started
  <2> QED BY <2>1, <2>2, <2>3 DEF Tick, TickFire, TickEnd, IInv
<1>2. SUFFICES
      /\ Sound(k') /\ OnTime'
      /\ k'.lock = k.lock
      /\ \A y \in Thread : \/ k'.stat[y] = k.stat[y]
                           \/ k.stat[y] = "SUSPEND" /\ k'.stat[y] = "READY"
      /\ \/ k'.current = k.current /\ ToThread(k') = ToThread(k)
         \/ k.lock # 0 /\ k'.current = k.current
         \/ /\ k.lock = 0 /\ k'.current = ToThread(k')
            /\ k'.current \in Thread /\ k'.stat[k'.current] = "READY"
  <2>1. Started' /\ k'.current \in Thread
    BY <1>1, <1>2, KernelAssumption, SMTT(20), ZenonT(20) DEF Started
  <2>2. TypeOK' /\ Labels'
    BY <1>1, <1>2, ZenonT(60) DEF IInv, TypeOK, Labels, Sound
  <2>3. Objects' /\ IdleReady'
    BY <1>1, <1>2, <2>1, KernelAssumption, SMTT(20), ZenonT(20) DEF IInv, TypeOK, Objects, IdleReady, Started
  <2>4. Running'
    <3>1. CASE k'.current = k.current
      <4>1. /\ k.stat[k.current] # "INIT"
            /\ k.stat[k.current] = "CLOSE" => pc[k.current] = "sched" /\ k.lock = 0
        BY <1>1 DEF IInv, Running
      <4>2. \/ k'.stat[k.current] = k.stat[k.current]
            \/ k'.stat[k.current] = "READY"
        BY <1>1, <1>2
      <4> QED BY <3>1, <4>1, <4>2, <2>1, <1>1, <1>2 DEF Running
    <3>2. CASE k'.current # k.current
      <4>1. k'.stat[k'.current] = "READY"
        BY <3>2, <1>2
      <4> QED BY <4>1, <2>1 DEF Running
    <3> QED BY <3>1, <3>2
  <2>5. Chosen'
    BY <1>1, <1>2, <2>1, SMTT(20), ZenonT(20) DEF IInv, Chosen, Started
  <2>6. StepOK
    BY <1>2 DEF StepOK
  <2> QED BY <1>2, <2>2, <2>3, <2>4, <2>5, <2>6, SMTT(20), ZenonT(20) DEF IInv
<1>3. CASE Tick
  <2> DEFINE q == TickSlice(k)
  <2>1. /\ Sound(q) /\ q.stat = k.stat /\ q.lock = k.lock
        /\ \/ q.current = k.current /\ q.list = k.list /\ q.group = k.group
           \/ k.lock # 0 /\ q.current = k.current
           \/ /\ k.lock = 0 /\ q.current = ToThread(q)
              /\ q.current \in Thread /\ q.stat[q.current] = "READY"
    BY <1>1, TickSliceSound
  <2>2. k' = [q EXCEPT !.isr = TRUE]
    BY <1>3 DEF Tick
  <2> HIDE DEF q
  <2>3. /\ k' \in KernelState /\ k'.isr = TRUE
        /\ k'.list = q.list /\ k'.group = q.group /\ k'.stat = q.stat /\ k'.prio = q.prio
        /\ k'.mask = q.mask /\ k'.timers = q.timers /\ k'.left = q.left
        /\ k'.current = q.current /\ k'.lock = q.lock
    BY <2>1, <2>2, Zenon DEF Sound, KernelState
  <2>4. Sound(k')
    BY <2>1, <2>3, SoundUpdate
  <2>5. ToThread(k') = ToThread(q) /\ (q.list = k.list /\ q.group = k.group => ToThread(q) = ToThread(k))
    BY <2>3 DEF ToThread
  <2>6. OnTime'
    BY <2>3 DEF OnTime
  <2>7. k'.lock = k.lock /\ \A y \in Thread : k'.stat[y] = k.stat[y]
    BY <2>1, <2>3
  <2>8. \/ k'.current = k.current /\ ToThread(k') = ToThread(k)
        \/ k.lock # 0 /\ k'.current = k.current
        \/ /\ k.lock = 0 /\ k'.current = ToThread(k')
           /\ k'.current \in Thread /\ k'.stat[k'.current] = "READY"
    BY <2>1, <2>3, <2>5, SMTT(20), ZenonT(20)
  <2> QED BY <2>4, <2>6, <2>7, <2>8, SMTT(20), ZenonT(20)
<1>4. CASE TickFire
  <2> DEFINE q == FireTimer(k)
             t == Head(k.timers)
  <2>1. /\ t \in Thread /\ k.stat[t] = "SUSPEND" /\ Sound(q)
        /\ q.stat = [k.stat EXCEPT ![t] = "READY"] /\ q.lock = k.lock /\ q.isr = k.isr
        /\ k.lock # 0 => q.current = k.current
        /\ k.lock = 0 => /\ q.current = ToThread(q)
                         /\ q.current \in Thread /\ q.stat[q.current] = "READY"
    <3>1. k.timers # <<>>
      BY <1>4 DEF TickFire, TimerExpired
    <3> QED BY <3>1, <1>1, FireTimerSound
  <2>2. k' = q /\ k.isr
    BY <1>4 DEF TickFire
  <2> HIDE DEF q, t
  <2>3. \A y \in Thread : \/ k'.stat[y] = k.stat[y]
                          \/ k.stat[y] = "SUSPEND" /\ k'.stat[y] = "READY"
    <3>1. k.stat \in [Thread -> Stat]
      BY <1>1, FieldTypes
    <3>2. k'.stat[t] = "READY" /\ \A y \in Thread \ {t} : k'.stat[y] = k.stat[y]
      BY <3>1, <2>1, <2>2
    <3> QED BY <3>2, <2>1
  <2>4. OnTime'
    BY <2>1, <2>2, Zenon DEF OnTime
  <2> QED BY <2>1, <2>2, <2>3, <2>4, SMTT(20), ZenonT(20)
<1>5. CASE TickEnd
  <2>1. k' = [k EXCEPT !.isr = FALSE] /\ ~TimerExpired(k)
    BY <1>5 DEF TickEnd
  <2>2. /\ k' \in KernelState
        /\ k'.list = k.list /\ k'.group = k.group /\ k'.stat = k.stat /\ k'.prio = k.prio
        /\ k'.mask = k.mask /\ k'.timers = k.timers /\ k'.left = k.left
        /\ k'.current = k.current /\ k'.lock = k.lock
    BY <2>1, <1>1, Zenon DEF KernelState
  <2>3. Sound(k')
    BY <2>2, <1>1, SoundUpdate
  <2>4. ToThread(k') = ToThread(k)
    BY <2>2 DEF ToThread
  <2>5. \A y \in Range(k.timers) : k.left[y] >= 0
    <3> SUFFICES ASSUME NEW y \in Range(k.timers) PROVE k.left[y] >= 0
      OBVIOUS
    <3>1. k.timers \in Seq(Thread) /\ k.left \in [Thread -> Int] /\ TimersSorted(k)
      BY <1>1, FieldTypes, SMTT(20), ZenonT(20) DEF Sound
    <3>2. Range(k.timers) = {k.timers[j] : j \in 1 .. Len(k.timers)}
      BY <3>1, RangeEquality
    <3>3. PICK j \in 1 .. Len(k.timers) : y = k.timers[j]
      BY <3>2
    <3>4. k.timers # <<>> /\ Head(k.timers) = k.timers[1] /\ Len(k.timers) >= 1
          /\ Head(k.timers) \in Thread
      BY <3>1, <3>3, EmptyOrHead
    <3>5. k.left[k.timers[1]] > 0
      BY <3>1, <3>4, <2>1 DEF TimerExpired
    <3>6. CASE j = 1
      BY <3>3, <3>5, <3>6, <3>4, <3>1, SMTT(20), ZenonT(20)
    <3>7. CASE j # 1
      <4>1. 1 \in 1 .. Len(k.timers) /\ 1 < j
        BY <3>1, <3>3, <3>4, <3>7, SMTT(20), ZenonT(20)
      <4>2. k.left[k.timers[1]] <= k.left[y]
        BY <4>1, <3>1, <3>3 DEF TimersSorted
      <4>3. y \in Thread
        BY <1>1, RangesAreThreads
      <4> QED BY <4>2, <4>3, <3>1, <3>4, <3>5
    <3> QED BY <3>6, <3>7
  <2>6. OnTime'
    BY <2>2, <2>5 DEF OnTime
  <2>7. k'.lock = k.lock /\ k'.current = k.current /\ \A y \in Thread : k'.stat[y] = k.stat[y]
    BY <2>2, SMTT(20), ZenonT(20)
  <2> QED BY <2>3, <2>4, <2>6, <2>7
<1> QED
  BY <1>3, <1>4, <1>5

\* The boot code makes the boot threads READY, the idle thread among them.
LEMMA BootStep ==
  ASSUME IInv, NEW x \in Thread, BootStartup(x)
  PROVE  IInv' /\ StepOK
<1> DEFINE p == StartupPrepare(k, x)
           q == rt_thread_resume(p, x)
<1>1. /\ ~Started /\ k.stat[x] = "INIT" /\ k' = q /\ obj' = obj /\ pc' = pc /\ arg' = arg
      /\ Sound(k)
  BY SMTT(20), ZenonT(20) DEF BootStartup, IInv
<1>2. Sound(p) /\ Frame(p, k, x) /\ p.stat[x] = "SUSPEND"
  BY <1>1, StartupSound, SMTT(20), ZenonT(20)
<1> HIDE DEF p
<1>3. Sound(q) /\ Frame(q, p, x) /\ q.stat[x] = "READY"
  BY <1>2, ResumeSound, SMTT(20), ZenonT(20)
<1> HIDE DEF q
<1>4. /\ \A y \in Thread \ {x} : k'.stat[y] = k.stat[y]
      /\ k'.current = k.current /\ k'.lock = k.lock /\ k'.isr = k.isr
      /\ \A y \in Range(k'.timers) : y \in Range(k.timers) /\ k'.left[y] = k.left[y]
  BY <1>1, <1>2, <1>3, SMTT(20), ZenonT(20) DEF Frame
<1>5. Sound(k') /\ k'.stat[x] = "READY" /\ Idle \in Thread
  BY <1>1, <1>3, KernelAssumption, SMTT(20), ZenonT(20)
<1>6. TypeOK' /\ Labels'
  BY <1>1, <1>5, SMTT(20), ZenonT(20) DEF IInv, TypeOK, Labels, Sound
<1>7. Objects'
  BY <1>1, <1>4, <1>5, SMTT(20), ZenonT(20) DEF IInv, Objects
<1>8. IdleReady' /\ Running' /\ OnTime' /\ Chosen'
  BY <1>1, <1>4, <1>5, SMTT(20), ZenonT(20) DEF IInv, IdleReady, Running, OnTime, Chosen, Started
<1>20. StepOK
  BY <1>1, <1>4 DEF StepOK
<1> QED
  BY <1>20, <1>5, <1>6, <1>7, <1>8, SMTT(20), ZenonT(20) DEF IInv

\* rt_system_scheduler_start gives the processor to the chosen thread.
LEMMA StartStep ==
  ASSUME IInv, rt_system_scheduler_start
  PROVE  IInv' /\ StepOK
<1>1. /\ ~Started /\ obj' = obj /\ pc' = pc /\ arg' = arg /\ Sound(k) /\ k \in KernelState
      /\ Idle \in Thread /\ k' = [k EXCEPT !.current = ToThread(k)] /\ k.isr = FALSE
  BY KernelAssumption, FieldTypes DEF rt_system_scheduler_start, IInv, Sound, Running
<1>2. k.stat[Idle] = "READY"
  BY <1>1, ThreadsAssumption DEF rt_system_scheduler_start, IInv, IdleReady
<1>3. ToThread(k) \in Thread /\ k.stat[ToThread(k)] = "READY"
  BY <1>1, <1>2, ToThreadReady
<1>4. /\ k' \in KernelState
      /\ k'.list = k.list /\ k'.group = k.group /\ k'.stat = k.stat /\ k'.prio = k.prio
      /\ k'.mask = k.mask /\ k'.timers = k.timers /\ k'.left = k.left
      /\ k'.current = ToThread(k) /\ k'.lock = k.lock /\ k'.isr = k.isr
  BY <1>1, <1>3, Zenon DEF KernelState
<1>5. Sound(k') /\ ToThread(k') = ToThread(k)
  <2>1. Sound(k')
    BY <1>1, <1>4, SoundUpdate, Zenon
  <2>2. ToThread(k') = ToThread(k)
    BY <1>4 DEF ToThread
  <2> QED BY <2>1, <2>2
<1>6. TypeOK' /\ Labels'
  BY <1>1, <1>4 DEF IInv, TypeOK, Labels
<1>7. Objects' /\ IdleReady' /\ Running' /\ OnTime' /\ Chosen'
  BY <1>1, <1>2, <1>3, <1>4, <1>5, SMTT(20), ZenonT(20)
     DEF IInv, Objects, IdleReady, Running, OnTime, Chosen, Started
<1>20. StepOK
  BY <1>1, <1>3, <1>4, SMTT(20), ZenonT(20) DEF StepOK
<1> QED
  BY <1>20, <1>5, <1>6, <1>7, SMTT(20), ZenonT(20) DEF IInv

-----------------------------------------------------------------------------
(* The theorems.                                                           *)

\* After rt_system_scheduler_init every list is empty.
LEMMA InitIInv ==
  ASSUME Init
  PROVE  IInv
<1>1. /\ k = rt_system_scheduler_init /\ obj = Boot
      /\ pc = [t \in Thread |-> "run"] /\ arg = [t \in Thread |-> Wild]
  BY DEF Init
<1>2. /\ k.list = [h \in ListHead |-> <<>>] /\ k.group = {}
      /\ k.stat = [t \in Thread |-> IF t \in Boot THEN "INIT" ELSE "CLOSE"]
      /\ k.mask = [t \in Thread |-> {}] /\ k.prio = InitPriority
      /\ k.timers = <<>> /\ k.left = [t \in Thread |-> 0]
      /\ k.current = Wild /\ k.lock = 0 /\ k.isr = FALSE
  BY <1>1, SMTT(20), ZenonT(20) DEF rt_system_scheduler_init
<1>3. k \in KernelState
  <2>1. /\ [h \in ListHead |-> <<>>] \in [ListHead -> Seq(Thread)]
        /\ <<>> \in Seq(Thread)
        /\ [t \in Thread |-> IF t \in Boot THEN "INIT" ELSE "CLOSE"] \in [Thread -> Stat]
        /\ [t \in Thread |-> {}] \in [Thread -> SUBSET Prio]
        /\ [t \in Thread |-> "EOK"] \in [Thread -> Error]
        /\ [t \in Thread |-> 0] \in [Thread -> Int]
    BY DEF Stat, Error
  <2> QED BY <2>1, <1>1, KernelAssumption, ZenonT(60) DEF rt_system_scheduler_init, KernelState
<1>4. Range(<<>>) = {} /\ IsInjective(<<>>) /\ Len(<<>>) = 0
  BY DEF Range, IsInjective
<1>5. Sound(k)
  <2>1. LinkedOnce(k)
    BY <1>2, <1>4, SMTT(20), ZenonT(20) DEF LinkedOnce
  <2>2. ReadyQueue(k)
    BY <1>2, <1>4, Heads, SMTT(20), ZenonT(20) DEF ReadyQueue
  <2>3. OtherLists(k)
    BY <1>2, <1>4, Heads DEF OtherLists
  <2>4. TimerList(k) /\ TimersSorted(k)
    BY <1>2, <1>4 DEF TimerList, TimersSorted
  <2> QED BY <1>3, <2>1, <2>2, <2>3, <2>4, SMTT(20), ZenonT(20) DEF Sound
<1>6. TypeOK
  BY <1>1, <1>3, ThreadsAssumption, SMTT(20), ZenonT(20) DEF TypeOK, Label
<1>7. Labels /\ Objects /\ IdleReady /\ Running /\ OnTime /\ Chosen
  BY <1>1, <1>2, <1>4, KernelAssumption, ThreadsAssumption
     DEF Labels, Objects, IdleReady, Running, OnTime, Chosen, Started
<1> QED
  BY <1>5, <1>6, <1>7 DEF IInv

\* The functions that only split sections use never run.
LEMMA NoHalves ==
  ASSUME IInv, NEW t \in Thread
  PROVE  ~(SuspendRest(t) \/ ResumeRest(t) \/ ResumeInsert(t) \/ DeleteTimer(t) \/ DeleteClose(t))
BY DEF IInv, Labels, SuspendRest, ResumeRest, ResumeInsert, DeleteTimer, DeleteClose, At

\* Every step of a disciplined system keeps the inductive invariant.
LEMMA NextIInv ==
  ASSUME Disciplined, IInv, [Next]_vars
  PROVE  IInv' /\ StepOK
<1>1. CASE UNCHANGED vars
  BY <1>1, Zenon DEF StepOK, vars, IInv, TypeOK, Labels, Objects, IdleReady, Running, OnTime, Chosen, Started
<1>2. ASSUME NEW x \in Boot, BootStartup(x) PROVE IInv' /\ StepOK
  BY <1>2, BootStep, ThreadsAssumption
<1>3. CASE rt_system_scheduler_start
  BY <1>3, StartStep
<1>4. ASSUME NEW t \in Thread, ThreadStep(t) PROVE IInv' /\ StepOK
  <2>1. CASE Schedule(t) \/ Yield(t) \/ Wake(t) \/ Exit(t)
    BY <2>1, ScheduleStep, YieldStep, WakeStep, ExitStep, SMTT(20), ZenonT(20)
  <2>2. CASE \E n \in Delays : Sleep(t, n)
    BY <2>2, SleepStep
  <2>3. CASE rt_enter_critical(t) \/ rt_exit_critical(t)
    BY <2>3, CriticalStep
  <2>4. ASSUME NEW x \in Thread,
               Create(t, x) \/ rt_thread_startup(t, x) \/ Delete(t, x)
        PROVE  IInv' /\ StepOK
    BY <2>4, CreateStep, StartupStep, DeleteStep
  <2>5. ASSUME NEW x \in Thread,
               Suspend(t, x) \/ Resume(t, x) \/ \E p \in Prio : Control(t, x, p)
        PROVE  IInv' /\ StepOK
    BY <2>5, SuspendStep, ResumeStep, ControlStep, SMTT(20), ZenonT(20)
  <2> QED
    BY <1>4, <2>1, <2>2, <2>3, <2>4, <2>5, NoHalves, SMTT(20), ZenonT(20) DEF ThreadStep
<1>5. CASE IdleReap \/ IdleFree
  BY <1>5, ReapStep, FreeStep
<1>6. CASE Tick \/ TickFire \/ TickEnd
  BY <1>6, TickStep
<1> QED
  BY <1>1, <1>2, <1>3, <1>4, <1>5, <1>6, SMTT(20), ZenonT(20) DEF Next

\* The inductive invariant holds throughout.
THEOREM Inductive == Disciplined => (Spec => []IInv)
<1> SUFFICES ASSUME Disciplined PROVE Spec => []IInv
  OBVIOUS
<1>1. Init => IInv
  BY InitIInv
<1>2. IInv /\ [Next]_vars => IInv'
  BY NextIInv
<1> QED
  BY <1>1, <1>2, PTL DEF Spec

\* Type correctness.
THEOREM TypeCorrect == Disciplined => (Spec => []TypeOK)
<1> SUFFICES ASSUME Disciplined PROVE Spec => []TypeOK
  OBVIOUS
<1>1. IInv => TypeOK
  BY DEF IInv
<1> QED
  BY <1>1, Inductive, PTL

\* rt_schedule_insert_thread, rt_schedule_remove_thread and all their callers
\* keep the ready lists, the bitmap, the thread states and the defunct list in
\* agreement, for any number of threads and priorities.
THEOREM Consistent == Disciplined => (Spec => []KernelConsistent)
<1> SUFFICES ASSUME Disciplined PROVE Spec => []KernelConsistent
  OBVIOUS
<1>1. IInv => KernelConsistent
  BY DEF IInv, Sound, KernelConsistent
<1> QED
  BY <1>1, Inductive, PTL

\* The assertion of rt_thread_timeout (thread.c:644) never fails.
THEOREM TimeoutAssertion == Disciplined => (Spec => []TimedOutIsSuspended)
<1> SUFFICES ASSUME Disciplined PROVE Spec => []TimedOutIsSuspended
  OBVIOUS
<1>1. IInv => TimedOutIsSuspended
  BY DEF IInv, Sound, TimedOutIsSuspended
<1> QED
  BY <1>1, Inductive, PTL

\* rt_timer_check, which looks only at the first timers, misses none.
THEOREM NoLateTimeout == Disciplined => (Spec => []TimeoutsOnTime)
<1> SUFFICES ASSUME Disciplined PROVE Spec => []TimeoutsOnTime
  OBVIOUS
<1>1. IInv => TimeoutsOnTime
  BY DEF IInv, Sound, OnTime, TimeoutsOnTime
<1> QED
  BY <1>1, Inductive, PTL

\* Preemptive priority scheduling, when the application calls rt_schedule after
\* it has suspended, resumed or re-prioritised a thread.
THEOREM Preemptive == Disciplined /\ Reschedule => (Spec => []HighestRuns)
<1> SUFFICES ASSUME Disciplined, Reschedule PROVE Spec => []HighestRuns
  OBVIOUS
<1>1. IInv => HighestRuns
  BY DEF IInv, Chosen, HighestRuns
<1> QED
  BY <1>1, Inductive, PTL

\* The switches of rt_schedule and rt_system_scheduler_start are to READY
\* threads: the idle thread is always there to be found.
THEOREM Switches == Disciplined => (Spec => SwitchesToReady)
<1> SUFFICES ASSUME Disciplined PROVE Spec => SwitchesToReady
  OBVIOUS
<1>1. IInv /\ [Next]_vars
        => [k'.current # k.current => k'.current \in Thread /\ k'.stat[k'.current] = "READY"]_vars
  BY NextIInv DEF StepOK
<1> QED
  BY <1>1, Inductive, PTL DEF Spec, SwitchesToReady

\* rt_enter_critical keeps the processor with the running thread.
THEOREM LockKeepsProcessor == Disciplined => (Spec => NoSwitchWhileLocked)
<1> SUFFICES ASSUME Disciplined PROVE Spec => NoSwitchWhileLocked
  OBVIOUS
<1>1. IInv /\ [Next]_vars
        => [Started /\ k.lock > 0 /\ k'.lock > 0 => k'.current = k.current]_vars
  <2> SUFFICES ASSUME IInv, [Next]_vars, Started, k.lock > 0
               PROVE  k'.current = k.current
    OBVIOUS
  <2>1. StepOK
    BY NextIInv
  <2> QED BY <2>1 DEF StepOK
<1> QED
  BY <1>1, Inductive, PTL DEF Spec, NoSwitchWhileLocked

\* No timer, resume or priority change revives a dead thread.
THEOREM DeadStayDead == Disciplined => (Spec => EndedStaysEnded)
<1> SUFFICES ASSUME Disciplined PROVE Spec => EndedStaysEnded
  OBVIOUS
<1>1. IInv /\ [Next]_vars
        => [\A t \in Thread : k.stat[t] = "CLOSE" => k'.stat[t] \in {"CLOSE", "INIT"}]_vars
  BY NextIInv DEF StepOK
<1> QED
  BY <1>1, Inductive, PTL DEF Spec, EndedStaysEnded
=============================================================================
