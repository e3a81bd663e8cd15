------------------------------ MODULE IPCProofs ------------------------------
(***************************************************************************)
(* What the kernel functions do to the suspend lists and the error numbers *)
(* of the threads, beyond what KernelProofs says of them.                  *)
(***************************************************************************)
EXTENDS IPC, KernelProofs, FiniteSetTheorems

\* Nothing of any thread but t changes, nor who runs.
Others(q, s, t) ==
  /\ \A x \in Thread \ {t} : q.stat[x] = s.stat[x] /\ q.error[x] = s.error[x]
  /\ q.current = s.current /\ q.lock = s.lock /\ q.isr = s.isr

\* t leaves the suspend lists, if it is in one.
Leaves(q, s, t) == \A h \in WaitList : Range(q.list[h]) = Range(s.list[h]) \ {t}

\* t joins suspend list h.
Joins(q, s, h, t) ==
  /\ Range(q.list[h]) = Range(s.list[h]) \cup {t}
  /\ \A g \in WaitList \ {h} : Range(q.list[g]) = Range(s.list[g])

-----------------------------------------------------------------------------
\* The error number is nothing that a list depends on.
LEMMA ErrorSound ==
  ASSUME NEW s, Sound(s), NEW t \in Thread, NEW e \in Error
  PROVE  LET q == [s EXCEPT !.error[t] = e] IN
         /\ Sound(q) /\ q.list = s.list /\ q.group = s.group /\ q.stat = s.stat /\ q.timers = s.timers
         /\ q.error[t] = e /\ Others(q, s, t)
<1> DEFINE q == [s EXCEPT !.error[t] = e]
<1>0. s \in KernelState /\ s.error \in [Thread -> Error]
  BY FieldTypes DEF Sound
<1>1. [s.error EXCEPT ![t] = e] \in [Thread -> Error]
  BY <1>0
<1>2. /\ q \in KernelState
      /\ q.list = s.list /\ q.group = s.group /\ q.stat = s.stat /\ q.prio = s.prio
      /\ q.mask = s.mask /\ q.timers = s.timers /\ q.left = s.left
      /\ q.current = s.current /\ q.lock = s.lock /\ q.isr = s.isr
      /\ q.error = [s.error EXCEPT ![t] = e]
  BY <1>0, <1>1, Zenon DEF KernelState
<1> HIDE DEF q
<1>3. Sound(q)
  BY <1>2, SoundUpdate
<1>4. q.error[t] = e /\ \A x \in Thread \ {t} : q.error[x] = s.error[x]
  BY <1>0, <1>2
<1> QED BY <1>2, <1>3, <1>4 DEF Others, q

\* rt_list_remove and rt_timer_stop of a thread t.
LEMMA UnlinkStopEffect ==
  ASSUME NEW s \in KernelState, LinkedOnce(s), NEW t \in Thread
  PROVE  LET q == rt_timer_stop(Unlink(s, t), t) IN
         /\ \A h \in ListHead : Range(q.list[h]) = Range(s.list[h]) \ {t}
         /\ q.list \in [ListHead -> Seq(Thread)]
         /\ q.stat = s.stat /\ q.prio = s.prio /\ q.error = s.error
<1> DEFINE u == Unlink(s, t)
           q == rt_timer_stop(u, t)
<1>1. /\ u \in KernelState /\ SameBut(u, s)
      /\ \A h \in ListHead : Range(u.list[h]) = Range(s.list[h]) \ {t}
  BY UnlinkProps
<1> HIDE DEF u
<1>2. q.list = u.list /\ q.stat = u.stat /\ q.prio = u.prio /\ q.error = u.error
  BY <1>1, Zenon DEF rt_timer_stop, KernelState
<1>3. u.list \in [ListHead -> Seq(Thread)]
  BY <1>1, FieldTypes
<1> HIDE DEF q
<1> QED BY <1>1, <1>2, <1>3 DEF SameBut, q, u

\* rt_thread_resume: the thread is out of the suspend lists and READY.
LEMMA ResumeEffect ==
  ASSUME NEW s, NEW t \in Thread, Sound(s), s.stat[t] = "SUSPEND"
  PROVE  LET q == rt_thread_resume(s, t) IN
         Sound(q) /\ Others(q, s, t) /\ Leaves(q, s, t) /\ q.stat[t] = "READY" /\ q.error = s.error
<1> DEFINE b == rt_timer_stop(Unlink(s, t), t)
           q == rt_schedule_insert_thread(b, t)
<1>0. s \in KernelState /\ LinkedOnce(s) /\ s.prio[t] \in Prio
  BY FieldTypes DEF Sound
<1>1. rt_thread_resume(s, t) = q
  BY Zenon DEF rt_thread_resume, ResumeSection
<1>2. Sound(q) /\ Frame(q, s, t) /\ q.stat[t] = "READY"
  BY <1>1, ResumeSound
<1>3. /\ \A h \in ListHead : Range(b.list[h]) = Range(s.list[h]) \ {t}
      /\ b.list \in [ListHead -> Seq(Thread)]
      /\ b.prio = s.prio /\ b.error = s.error
  BY <1>0, UnlinkStopEffect
<1>b. b \in KernelState
  <2>1. Unlink(s, t) \in KernelState /\ Tied(s, t)
    BY <1>0, UnlinkProps, SoundTied
  <2>2. \A p \in Prio : t \notin Range(s.list[p])
    BY DEF Sound, ReadyQueue
  <2>3. Loose(Unlink(s, t), t)
    BY <2>1, <2>2, TiedUnlink
  <2>4. Loose(b, t)
    BY <2>3, LooseTimerStop
  <2> QED BY <2>4 DEF Loose, Tied
<1> HIDE DEF b
<1>4. /\ q.list = [b.list EXCEPT ![b.prio[t]] = Append(b.list[b.prio[t]], t)]
      /\ q.error = b.error
  BY <1>b, Zenon DEF rt_schedule_insert_thread, KernelState
<1> HIDE DEF q
<1>5. \A h \in WaitList : h \in ListHead /\ h # b.prio[t]
  BY <1>0, <1>3, Heads
<1>6. \A h \in WaitList : q.list[h] = b.list[h]
  BY <1>3, <1>4, <1>5
<1>7. Leaves(q, s, t)
  BY <1>3, <1>5, <1>6 DEF Leaves
<1>8. Others(q, s, t)
  BY <1>2, <1>3, <1>4 DEF Others, Frame
<1> QED BY <1>1, <1>2, <1>3, <1>4, <1>7, <1>8

\* rt_thread_suspend: the READY thread is in no list and its timer is stopped.
LEMMA SuspendEffect ==
  ASSUME NEW s, NEW t \in Thread, Sound(s), s.stat[t] = "READY"
  PROVE  LET q == rt_thread_suspend(s, t) IN
         /\ Sound(q) /\ Others(q, s, t) /\ q.stat[t] = "SUSPEND" /\ q.error = s.error
         /\ \A h \in WaitList : Range(q.list[h]) = Range(s.list[h])
         /\ \A h \in ListHead : t \notin Range(q.list[h])
<1> DEFINE a == [s EXCEPT !.stat[t] = "SUSPEND"]
           b == rt_schedule_remove_thread(a, t)
           q == rt_timer_stop(b, t)
<1>0. s \in KernelState /\ LinkedOnce(s)
  BY DEF Sound
<1>1. rt_thread_suspend(s, t) = q
  BY Zenon DEF rt_thread_suspend, SuspendSection
<1>2. Sound(q) /\ Frame(q, s, t) /\ q.stat[t] = "SUSPEND"
  BY <1>1, SuspendSound
<1>3. a \in KernelState /\ a.list = s.list /\ a.error = s.error
  <2>1. [s.stat EXCEPT ![t] = "SUSPEND"] \in [Thread -> Stat]
    BY <1>0, FieldTypes DEF Stat
  <2> QED BY <2>1, <1>0, Zenon DEF KernelState
<1>4. LinkedOnce(a)
  BY <1>0, <1>3 DEF LinkedOnce
<1> HIDE DEF a
<1>5. LET u == Unlink(a, t) IN
      /\ u \in KernelState /\ u.error = a.error
      /\ \A h \in ListHead : Range(u.list[h]) = Range(a.list[h]) \ {t}
  BY <1>3, <1>4, UnlinkProps DEF SameBut
<1>6. b.list = Unlink(a, t).list /\ b.error = Unlink(a, t).error
      /\ q.list = b.list /\ q.error = b.error
  <2> DEFINE u == Unlink(a, t)
             g == IF u.list[a.prio[t]] = <<>> THEN u.group \ a.mask[t] ELSE u.group
  <2>1. b = [u EXCEPT !.group = g]
    BY Zenon DEF rt_schedule_remove_thread
  <2>2. q = [b EXCEPT !.timers = Without(b.timers, t), !.left[t] = 0]
    BY Zenon DEF rt_timer_stop
  <2>3. u \in KernelState
    BY <1>5
  <2> HIDE DEF u, g, b, q
  <2>4. b.list = u.list /\ b.error = u.error /\ DOMAIN b = DOMAIN u
    BY <2>1, <2>3 DEF KernelState
  <2>5. DOMAIN u = DOMAIN [list |-> 0, group |-> 0, stat |-> 0, prio |-> 0, mask |-> 0, error |-> 0,
                           slice |-> 0, timers |-> 0, left |-> 0, current |-> 0, lock |-> 0, isr |-> 0]
    BY <2>3 DEF KernelState
  <2>6. q.list = b.list /\ q.error = b.error
    BY <2>2, <2>4, <2>5
  <2> QED BY <2>4, <2>6 DEF u
<1> HIDE DEF b, q
<1>7. \A h \in ListHead : Range(q.list[h]) = Range(s.list[h]) \ {t}
  BY <1>3, <1>5, <1>6
<1>8. \A h \in WaitList : t \notin Range(s.list[h]) /\ h \in ListHead
  BY Heads DEF Sound, OtherLists
<1>9. Others(q, s, t)
  BY <1>2, <1>3, <1>5, <1>6 DEF Others, Frame
<1> QED BY <1>1, <1>2, <1>3, <1>5, <1>6, <1>7, <1>8, <1>9

\* rt_ipc_list_suspend's insertion: a SUSPEND thread that is in no list may be
\* linked anywhere into a suspend list.
LEMMA LinkSound ==
  ASSUME NEW s, NEW t \in Thread, Sound(s), s.stat[t] = "SUSPEND",
         \A h \in ListHead : t \notin Range(s.list[h]),
         NEW g \in WaitList, NEW I \in SUBSET (1 .. Len(s.list[g]))
  PROVE  LET q == [s EXCEPT !.list[g] = InsertBefore(s.list[g], I, t)] IN
         /\ Sound(q) /\ q.stat = s.stat /\ q.error = s.error
         /\ q.current = s.current /\ q.lock = s.lock /\ q.isr = s.isr
         /\ Joins(q, s, g, t)
<1> DEFINE w == s.list[g]
           l == InsertBefore(w, I, t)
           q == [s EXCEPT !.list[g] = l]
<1>0. s \in KernelState /\ LinkedOnce(s) /\ ReadyQueue(s) /\ OtherLists(s)
  BY DEF Sound
<1>1. g \in ListHead /\ w \in Seq(Thread)
  BY <1>0, FieldTypes, Heads
<1>2. IsInjective(w) /\ t \notin Range(w)
  BY <1>0, <1>1 DEF LinkedOnce
<1>3. l \in Seq(Thread) /\ Range(l) = Range(w) \cup {t} /\ IsInjective(l)
  <2> DEFINE i == IF I = {} THEN Len(w) + 1 ELSE Min(I)
  <2>1. Len(w) \in Nat /\ I \in SUBSET Nat
    BY <1>1
  <2>2. i \in 1 .. Len(w) + 1
    <3>1. I # {} => Min(I) \in I
      BY <2>1, MinProps
    <3>2. I \in SUBSET (1 .. Len(w))
      OBVIOUS
    <3> HIDE DEF w
    <3>3. CASE I = {}
      <4>1. i = Len(w) + 1
        BY <3>3
      <4> QED BY <4>1, <2>1
    <3>4. CASE I # {}
      <4>1. i \in I
        BY <3>1, <3>4
      <4>2. i \in 1 .. Len(w)
        BY <4>1, <3>2
      <4> HIDE DEF i
      <4> QED BY <4>2, <2>1
    <3> QED BY <3>3, <3>4
  <2>3. l = InsertNode(w, i, t)
    BY DEF InsertBefore
  <2> HIDE DEF i, w, l
  <2> QED BY <2>2, <2>3, <1>1, <1>2, InsertNodeProps
<1> HIDE DEF l, w
<1>4. /\ q.list = [s.list EXCEPT ![g] = l] /\ q.group = s.group /\ q.stat = s.stat
      /\ q.prio = s.prio /\ q.mask = s.mask /\ q.error = s.error
      /\ q.timers = s.timers /\ q.left = s.left
      /\ q.current = s.current /\ q.lock = s.lock /\ q.isr = s.isr
  BY <1>0, Zenon DEF KernelState
<1>5. q \in KernelState
  <2>1. [s.list EXCEPT ![g] = l] \in [ListHead -> Seq(Thread)]
    BY <1>0, <1>1, <1>3, FieldTypes
  <2> QED BY <1>0, <2>1, Zenon DEF KernelState
<1> HIDE DEF q
<1>6. q.list[g] = l
  BY <1>0, <1>1, <1>4, FieldTypes
<1>7. \A h \in ListHead \ {g} : q.list[h] = s.list[h]
  BY <1>0, <1>4, FieldTypes
<1>8. Range(q.list[g]) = Range(s.list[g]) \cup {t} /\ IsInjective(q.list[g])
  BY <1>3, <1>6 DEF w
<1>9. LinkedOnce(q)
  <2>1. \A h \in ListHead : IsInjective(q.list[h])
    BY <1>0, <1>7, <1>8 DEF LinkedOnce
  <2>2. ASSUME NEW c \in ListHead, NEW h \in ListHead, c # h
        PROVE  Range(q.list[c]) \cap Range(q.list[h]) = {}
    <3>1. Range(s.list[c]) \cap Range(s.list[h]) = {}
      BY <1>0, <2>2 DEF LinkedOnce
    <3> QED BY <3>1, <2>2, <1>7, <1>8
  <2> QED BY <2>1, <2>2 DEF LinkedOnce
<1>10. \A p \in Prio : q.list[p] = s.list[p]
  BY <1>7, Heads
<1>11. ReadyQueue(q)
  <2>1. \A x \in Thread : s.prio[x] \in Prio
    BY <1>0, FieldTypes
  <2> QED BY <2>1, <1>0, <1>4, <1>10 DEF ReadyQueue
<1>12. OtherLists(q)
  <2>1. ASSUME NEW h \in WaitList, NEW x \in Range(q.list[h]) PROVE q.stat[x] = "SUSPEND"
    <3>1. h \in ListHead
      BY Heads
    <3> QED BY <3>1, <1>0, <1>4, <1>7, <1>8 DEF OtherLists
  <2>2. q.list[Defunct] = s.list[Defunct]
    BY <1>7, Heads
  <2> QED BY <2>1, <2>2, <1>0, <1>4 DEF OtherLists
<1>13. TimerList(q) /\ TimersSorted(q)
  BY <1>4 DEF Sound, TimerList, TimersSorted
<1>14. Joins(q, s, g, t)
  BY <1>7, <1>8, Heads DEF Joins
<1>15. Sound(q)
  BY <1>5, <1>9, <1>11, <1>12, <1>13 DEF Sound
<1> QED BY <1>4, <1>14, <1>15 DEF q, l, w

\* rt_ipc_list_suspend.
LEMMA ListSuspendEffect ==
  ASSUME NEW s, NEW t \in Thread, Sound(s), s.stat[t] = "READY", NEW h \in WaitList, NEW flag
  PROVE  LET q == rt_ipc_list_suspend(s, h, t, flag) IN
         /\ Sound(q) /\ Others(q, s, t) /\ q.stat[t] = "SUSPEND" /\ q.error = s.error
         /\ Joins(q, s, h, t)
<1> DEFINE r == rt_thread_suspend(s, t)
           w == r.list[h]
           I == IF flag = "PRIO" THEN {i \in 1 .. Len(w) : r.prio[t] < r.prio[w[i]]} ELSE {}
           q == [r EXCEPT !.list[h] = InsertBefore(r.list[h], I, t)]
<1>1. rt_ipc_list_suspend(s, h, t, flag) = q
  BY Zenon DEF rt_ipc_list_suspend
<1>2. /\ Sound(r) /\ Others(r, s, t) /\ r.stat[t] = "SUSPEND" /\ r.error = s.error
      /\ \A g \in WaitList : Range(r.list[g]) = Range(s.list[g])
      /\ \A g \in ListHead : t \notin Range(r.list[g])
  BY SuspendEffect
<1>3. I \in SUBSET (1 .. Len(r.list[h]))
  OBVIOUS
<1> HIDE DEF r, I
<1>4. /\ Sound(q) /\ q.stat = r.stat /\ q.error = r.error
      /\ q.current = r.current /\ q.lock = r.lock /\ q.isr = r.isr
      /\ Joins(q, r, h, t)
  BY <1>2, <1>3, LinkSound
<1> HIDE DEF q
<1>5. Others(q, s, t) /\ Joins(q, s, h, t)
  BY <1>2, <1>4 DEF Others, Joins
<1> QED BY <1>1, <1>2, <1>4, <1>5

\* How the blocking functions start to wait.
LEMMA WaitOnEffect ==
  ASSUME NEW s, NEW t \in Thread, Sound(s), s.stat[t] = "READY", NEW h \in WaitList,
         NEW flag, NEW time \in Int
  PROVE  LET q == WaitOn(s, h, t, flag, time) IN
         /\ Sound(q) /\ Others(q, s, t) /\ q.stat[t] = "SUSPEND" /\ q.error[t] = "EOK"
         /\ Joins(q, s, h, t)
<1> DEFINE a == [s EXCEPT !.error[t] = "EOK"]
           b == rt_ipc_list_suspend(a, h, t, flag)
           q == WaitOn(s, h, t, flag, time)
<1>1. /\ Sound(a) /\ a.list = s.list /\ a.stat = s.stat
      /\ a.error[t] = "EOK" /\ Others(a, s, t)
  BY ErrorSound DEF Error
<1>2. q = IF time > 0 THEN rt_timer_start(b, t, time) ELSE b
  BY Zenon DEF WaitOn
<1> HIDE DEF a, q
<1>3. /\ Sound(b) /\ Others(b, a, t) /\ b.stat[t] = "SUSPEND" /\ b.error = a.error
      /\ Joins(b, a, h, t)
  BY <1>1, ListSuspendEffect
<1> HIDE DEF b
<1>4. /\ Sound(q) /\ q.list = b.list /\ q.stat = b.stat /\ q.error = b.error
      /\ q.current = b.current /\ q.lock = b.lock /\ q.isr = b.isr
  <2>1. CASE time > 0
    <3>1. q = rt_timer_start(b, t, time)
      BY <2>1, <1>2
    <3> DEFINE r == rt_timer_start(b, t, time)
    <3>2. /\ Sound(r) /\ r.list = b.list /\ r.stat = b.stat /\ r.error = b.error
          /\ r.current = b.current /\ r.lock = b.lock /\ r.isr = b.isr
      <4>1. Sound(r)
        BY <1>3, TimerStartSound, Zenon
      <4>2. b \in KernelState
        BY <1>3 DEF Sound
      <4>3. /\ r.list = b.list /\ r.stat = b.stat /\ r.error = b.error
            /\ r.current = b.current /\ r.lock = b.lock /\ r.isr = b.isr
        BY <4>2, Zenon DEF rt_timer_start, KernelState
      <4> QED BY <4>1, <4>3
    <3> QED BY <3>1, <3>2
  <2>2. CASE ~(time > 0)
    <3>1. q = b
      BY <2>2, <1>2
    <3> QED BY <3>1, <1>3
  <2> QED BY <2>1, <2>2
<1> QED BY <1>1, <1>3, <1>4 DEF Others, Joins, q

\* One round of rt_ipc_list_resume_all: the thread leaves with RT_ERROR.
LEMMA ResumeWithErrorEffect ==
  ASSUME NEW s, NEW t \in Thread, Sound(s), s.stat[t] = "SUSPEND"
  PROVE  LET q == ResumeWithError(s, t) IN
         /\ Sound(q) /\ Others(q, s, t) /\ Leaves(q, s, t)
         /\ q.stat[t] = "READY" /\ q.error[t] = "ERROR"
<1> DEFINE a == [s EXCEPT !.error[t] = "ERROR"]
           q == rt_thread_resume(a, t)
<1>1. /\ Sound(a) /\ a.list = s.list /\ a.stat = s.stat
      /\ a.error[t] = "ERROR" /\ Others(a, s, t)
  BY ErrorSound DEF Error
<1>2. ResumeWithError(s, t) = q
  BY Zenon DEF ResumeWithError
<1> HIDE DEF a
<1>3. /\ Sound(q) /\ Others(q, a, t) /\ Leaves(q, a, t)
      /\ q.stat[t] = "READY" /\ q.error = a.error
  BY <1>1, ResumeEffect
<1> HIDE DEF q
<1> QED BY <1>1, <1>2, <1>3 DEF Others, Leaves

\* rt_schedule changes nothing but who runs.
LEMMA ScheduleEffect ==
  ASSUME NEW s, Sound(s), NEW t \in Thread, s.stat[t] = "READY"
  PROVE  LET q == rt_schedule(s) IN
         /\ Sound(q) /\ q.list = s.list /\ q.group = s.group /\ q.stat = s.stat /\ q.error = s.error
         /\ q.lock = s.lock /\ q.isr = s.isr
         /\ s.lock = 0 => /\ q.current = ToThread(q)
                          /\ q.current \in Thread /\ q.stat[q.current] = "READY"
         /\ s.lock # 0 => q.current = s.current
<1> DEFINE q == rt_schedule(s)
<1>1. /\ Sound(q)
      /\ q.list = s.list /\ q.group = s.group /\ q.stat = s.stat
      /\ q.lock = s.lock /\ q.isr = s.isr
      /\ s.lock = 0 => /\ q.current = ToThread(q)
                       /\ q.current \in Thread /\ q.stat[q.current] = "READY"
      /\ s.lock # 0 => q = s
  BY ScheduleSound
<1>2. q.error = s.error
  <2>1. CASE s.lock = 0
    <3>1. q = [s EXCEPT !.current = ToThread(s)] /\ s \in KernelState
      BY <2>1 DEF rt_schedule, Sound
    <3> QED BY <3>1, Zenon DEF KernelState
  <2>2. CASE s.lock # 0
    BY <2>2, <1>1
  <2> QED BY <2>1, <2>2
<1> HIDE DEF q
<1> QED BY <1>1, <1>2 DEF q

\* One round of rt_timer_check: the thread leaves with RT_ETIMEOUT.
LEMMA FireTimerEffect ==
  ASSUME NEW s, Sound(s), s.timers # <<>>
  PROVE  LET t == Head(s.timers)
             q == FireTimer(s)
         IN
         /\ t \in Thread /\ s.stat[t] = "SUSPEND"
         /\ Sound(q) /\ Leaves(q, s, t)
         /\ \A x \in Thread \ {t} : q.stat[x] = s.stat[x] /\ q.error[x] = s.error[x]
         /\ q.stat[t] = "READY" /\ q.error[t] = "ETIMEOUT"
         /\ q.lock = s.lock /\ q.isr = s.isr
         /\ s.lock # 0 => q.current = s.current
         /\ s.lock = 0 => /\ q.current = ToThread(q)
                          /\ q.current \in Thread /\ q.stat[q.current] = "READY"
<1> DEFINE t == Head(s.timers)
           a == rt_timer_stop(s, t)
           b == [a EXCEPT !.error[t] = "ETIMEOUT"]
           c == Unlink(b, t)
           d == rt_schedule_insert_thread(c, t)
           q == rt_schedule(d)
<1>1. FireTimer(s) = q
  BY Zenon DEF FireTimer, rt_thread_timeout
<1>2. /\ t \in Thread /\ s.stat[t] = "SUSPEND"
      /\ Sound(q)
      /\ q.stat = [s.stat EXCEPT ![t] = "READY"]
      /\ q.lock = s.lock /\ q.isr = s.isr
      /\ s.lock # 0 => q.current = s.current
      /\ s.lock = 0 => /\ q.current = ToThread(q)
                       /\ q.current \in Thread /\ q.stat[q.current] = "READY"
  BY <1>1, FireTimerSound
<1>3. s \in KernelState /\ LinkedOnce(s) /\ Sound(a)
  BY <1>2, TimerStopSound DEF Sound
<1>4. a.list = s.list /\ a.error = s.error
  BY <1>3, Zenon DEF rt_timer_stop, KernelState
<1> HIDE DEF t, a
<1>5. /\ Sound(b) /\ b.list = a.list /\ b.error[t] = "ETIMEOUT"
      /\ \A x \in Thread \ {t} : b.error[x] = a.error[x]
  <2>1. Sound(b) /\ b.list = a.list /\ b.error[t] = "ETIMEOUT" /\ Others(b, a, t)
    <3>1. t \in Thread /\ Sound(a) /\ "ETIMEOUT" \in Error
      BY <1>2, <1>3 DEF Error
    <3> QED BY <3>1, ErrorSound
  <2> HIDE DEF b
  <2> QED BY <2>1 DEF Others
<1> HIDE DEF b
<1>6. /\ c \in KernelState /\ c.error = b.error /\ c.prio[t] \in Prio
      /\ \A h \in ListHead : Range(c.list[h]) = Range(b.list[h]) \ {t}
  <2>1. c \in KernelState /\ SameBut(c, b)
        /\ \A h \in ListHead : Range(c.list[h]) = Range(b.list[h]) \ {t}
    BY <1>2, <1>5, UnlinkProps DEF Sound
  <2> HIDE DEF c
  <2> QED BY <2>1, <1>2, FieldTypes DEF SameBut
<1> HIDE DEF c
<1>7. d.list = [c.list EXCEPT ![c.prio[t]] = Append(c.list[c.prio[t]], t)] /\ d.error = c.error
  BY <1>6, Zenon DEF rt_schedule_insert_thread, KernelState
<1>8. \A h \in WaitList : h \in ListHead /\ h # c.prio[t]
  BY <1>6, Heads
<1>9. d \in KernelState
  <2>1. /\ c.list \in [ListHead -> Seq(Thread)] /\ c.stat \in [Thread -> Stat]
        /\ c.group \in SUBSET Prio /\ c.mask[t] \in SUBSET Prio
    BY <1>2, <1>6, FieldTypes
  <2>2. [c.stat EXCEPT ![t] = "READY"] \in [Thread -> Stat]
    BY <2>1 DEF Stat
  <2>3. [c.list EXCEPT ![c.prio[t]] = Append(c.list[c.prio[t]], t)] \in [ListHead -> Seq(Thread)]
    BY <2>1, <1>2, <1>6, Heads
  <2>4. c.group \cup c.mask[t] \in SUBSET Prio
    BY <2>1
  <2> QED BY <2>2, <2>3, <2>4, <1>6, Zenon DEF rt_schedule_insert_thread, KernelState
<1> HIDE DEF d
<1>10. q.list = d.list /\ q.error = d.error
  BY <1>9, Zenon DEF rt_schedule, KernelState
<1>11. \A h \in WaitList : d.list[h] = c.list[h]
  BY <1>6, <1>7, <1>8, FieldTypes
<1> HIDE DEF q
<1>12. Leaves(q, s, t)
  BY <1>4, <1>5, <1>6, <1>8, <1>10, <1>11 DEF Leaves
<1>13. q.error[t] = "ETIMEOUT" /\ \A x \in Thread \ {t} : q.error[x] = s.error[x]
  BY <1>4, <1>5, <1>6, <1>7, <1>10
<1>14. s.stat \in [Thread -> Stat]
  BY <1>3, FieldTypes
<1>15. q.stat[t] = "READY" /\ \A x \in Thread \ {t} : q.stat[x] = s.stat[x]
  BY <1>2, <1>14
<1> QED BY <1>1, <1>2, <1>12, <1>13, <1>15 DEF t

\* The tick moves nobody in or out of a suspend list before rt_timer_check.
LEMMA TickSliceEffect ==
  ASSUME NEW s, Sound(s), s.current \in Thread
  PROVE  LET q == TickSlice(s) IN
         /\ q.error = s.error
         /\ \A h \in WaitList : Range(q.list[h]) = Range(s.list[h])
<1> DEFINE c == s.current
           a == Aged(s)
           n == s.slice[c] - 1
           b(m) == [a EXCEPT !.slice[c] = m]
           q == TickSlice(s)
<1> SUFFICES q.error = s.error /\ \A h \in WaitList : Range(q.list[h]) = Range(s.list[h])
  OBVIOUS
<1>0. s \in KernelState /\ LinkedOnce(s) /\ InitTick[c] \in Nat \ {0} /\ s.slice[c] \in Nat \ {0}
  BY KernelAssumption, FieldTypes DEF Sound
<1>1. a \in KernelState /\ a.list = s.list /\ a.error = s.error /\ a.stat = s.stat /\ a.prio = s.prio
      /\ a.current = s.current
  <2>1. Sound(a) /\ a.list = s.list /\ a.stat = s.stat /\ a.prio = s.prio /\ a.current = s.current
    BY AgedSound
  <2>2. a.error = s.error
    BY <1>0, Zenon DEF Aged, KernelState
  <2> QED BY <2>1, <2>2 DEF Sound
<1>2. q = IF n = 0 THEN rt_thread_yield(b(InitTick[c])) ELSE b(n)
  BY Zenon DEF TickSlice
<1> HIDE DEF a
<1>3. ASSUME NEW m \in Nat \ {0}
      PROVE  /\ b(m) \in KernelState /\ b(m).list = s.list /\ b(m).error = s.error
             /\ b(m).stat = s.stat /\ b(m).prio = s.prio /\ b(m).current = s.current
  <2>1. [a.slice EXCEPT ![c] = m] \in [Thread -> Nat \ {0}]
    BY <1>1, FieldTypes
  <2>2. /\ b(m) \in KernelState /\ b(m).list = a.list /\ b(m).error = a.error
        /\ b(m).stat = a.stat /\ b(m).prio = a.prio /\ b(m).current = a.current
    BY <2>1, <1>1, Zenon DEF KernelState
  <2> QED BY <2>2, <1>1
<1>4. CASE n # 0
  <2>1. q = b(n) /\ n \in Nat \ {0}
    BY <1>0, <1>2, <1>4
  <2> QED BY <2>1, <1>3
<1>5. CASE n = 0
  <2> DEFINE e == b(InitTick[c])
  <2>1. q = rt_thread_yield(e)
    BY <1>2, <1>5
  <2>2. /\ e \in KernelState /\ e.list = s.list /\ e.error = s.error
        /\ e.stat = s.stat /\ e.prio = s.prio /\ e.current = s.current
    BY <1>0, <1>3
  <2> HIDE DEF e, q
  <2>3. CASE ~(e.stat[c] = "READY" /\ SharesList(e, c))
    BY <2>1, <2>2, <2>3 DEF rt_thread_yield
  <2>4. CASE e.stat[c] = "READY" /\ SharesList(e, c)
    <3> DEFINE u == Unlink(e, c)
               r == Requeue(e, c)
    <3>1. q = rt_schedule(r)
      BY <2>1, <2>2, <2>4 DEF rt_thread_yield
    <3>2. LinkedOnce(e) /\ e.prio[c] \in Prio
      BY <1>0, <2>2, FieldTypes DEF LinkedOnce
    <3>3. /\ u \in KernelState /\ SameBut(u, e)
          /\ \A h \in ListHead : Range(u.list[h]) = Range(e.list[h]) \ {c}
      BY <2>2, <3>2, UnlinkProps
    <3>4. r = [u EXCEPT !.list[e.prio[c]] = Append(u.list[e.prio[c]], c)]
      BY Zenon DEF Requeue
    <3> HIDE DEF u, r
    <3>5. /\ r.list = [u.list EXCEPT ![e.prio[c]] = Append(u.list[e.prio[c]], c)]
          /\ r.error = u.error
      BY <3>3, <3>4, Zenon DEF KernelState
    <3>6. r \in KernelState
      <4>1. [u.list EXCEPT ![e.prio[c]] = Append(u.list[e.prio[c]], c)] \in [ListHead -> Seq(Thread)]
        BY <3>2, <3>3, FieldTypes, Heads
      <4> QED BY <4>1, <3>3, <3>4, Zenon DEF KernelState
    <3>7. q.list = r.list /\ q.error = r.error
      BY <3>1, <3>6, Zenon DEF rt_schedule, KernelState
    <3>8. ASSUME NEW h \in WaitList PROVE Range(q.list[h]) = Range(s.list[h])
      <4>1. h \in ListHead /\ h # e.prio[c]
        BY <3>2, Heads
      <4>2. q.list[h] = u.list[h]
        BY <4>1, <3>3, <3>5, <3>7, FieldTypes
      <4>3. c \notin Range(s.list[h])
        BY <2>2, <2>4 DEF Sound, OtherLists
      <4> QED BY <4>1, <4>2, <4>3, <2>2, <3>3
    <3> QED BY <3>3, <3>5, <3>7, <3>8, <2>2 DEF SameBut
  <2> QED BY <2>3, <2>4
<1> QED BY <1>4, <1>5

\* A list of the threads of one priority.
LEMMA Enumeration ==
  ASSUME NEW S \in SUBSET Thread
  PROVE  LET f == CHOOSE f \in [1 .. Cardinality(S) -> S] : IsInjective(f) IN
         f \in Seq(Thread) /\ IsInjective(f) /\ Range(f) = S
<1> DEFINE n == Cardinality(S)
           f == CHOOSE f \in [1 .. n -> S] : IsInjective(f)
<1>1. IsFiniteSet(S)
  BY IPCAssumption, FS_Subset
<1>2. n \in Nat /\ ExistsBijection(1 .. n, S)
  BY <1>1, FS_CardinalityType
<1>3. \E g \in [1 .. n -> S] : IsInjective(g)
  BY <1>2 DEF ExistsBijection, Bijection, Injection
<1>4. f \in [1 .. n -> S] /\ IsInjective(f)
  BY <1>3
<1>5. Cardinality(1 .. n) = n
  BY <1>2, FS_Interval
<1> HIDE DEF f, n
<1>6. f \in Injection(1 .. n, S)
  BY <1>4 DEF Injection
<1>7. f \in Surjection(1 .. n, S)
  BY <1>1, <1>5, <1>6, FS_Injection DEF n
<1>8. Range(f) = S
  BY <1>4, <1>7 DEF Surjection, Range
<1>9. f \in Seq(Thread)
  BY <1>2, <1>4
<1> QED BY <1>4, <1>8, <1>9 DEF f, n

\* The system starts in a sound state, with the most urgent thread running.
LEMMA StartSound ==
  LET q == AllStarted IN
  /\ Sound(q) /\ q.current \in Thread /\ q.current = ToThread(q)
  /\ q.stat = [t \in Thread |-> "READY"] /\ q.error = [t \in Thread |-> "EOK"]
  /\ \A h \in WaitList : q.list[h] = <<>>
  /\ q.lock = 0 /\ q.isr = FALSE
<1> DEFINE with(p) == {t \in Thread : InitPriority[t] = p}
           of(p) == CHOOSE f \in [1 .. Cardinality(with(p)) -> with(p)] : IsInjective(f)
           lists == [h \in ListHead |-> IF h \in Prio THEN of(h) ELSE <<>>]
           boot ==
             [list    |-> lists,
              group   |-> {InitPriority[t] : t \in Thread},
              stat    |-> [t \in Thread |-> "READY"],
              prio    |-> InitPriority,
              mask    |-> [t \in Thread |-> {InitPriority[t]}],
              error   |-> [t \in Thread |-> "EOK"],
              slice   |-> InitTick,
              timers  |-> <<>>,
              left    |-> [t \in Thread |-> 0],
              current |-> Wild,
              lock    |-> 0,
              isr     |-> FALSE]
           q == rt_schedule(boot)
<1>1. AllStarted = q
  BY Zenon DEF AllStarted
<1>2. ASSUME NEW p \in Prio
      PROVE  lists[p] \in Seq(Thread) /\ IsInjective(lists[p]) /\ Range(lists[p]) = with(p)
  <2>1. of(p) \in Seq(Thread) /\ IsInjective(of(p)) /\ Range(of(p)) = with(p)
    <3>1. with(p) \in SUBSET Thread
      OBVIOUS
    <3> HIDE DEF with
    <3> QED BY <3>1, Enumeration
  <2>2. lists[p] = of(p)
    <3> HIDE DEF of
    <3> QED BY Heads
  <2> HIDE DEF of, lists
  <2> QED BY <2>1, <2>2
<1>3. ASSUME NEW h \in ListHead \ Prio
      PROVE  lists[h] = <<>> /\ lists[h] \in Seq(Thread) /\ IsInjective(lists[h]) /\ Range(lists[h]) = {}
  <2>1. lists[h] = <<>>
    <3> HIDE DEF of
    <3> QED OBVIOUS
  <2> HIDE DEF lists
  <2>2. <<>> \in Seq(Thread) /\ IsInjective(<<>>)
    BY DEF IsInjective
  <2> QED BY <2>1, <2>2, EmptyOrHead
<1>4. lists \in [ListHead -> Seq(Thread)]
  <2> DEFINE F(h) == IF h \in Prio THEN of(h) ELSE <<>>
  <2>1. \A h \in ListHead : lists[h] \in Seq(Thread)
    <3> HIDE DEF lists
    <3> QED BY <1>2, <1>3
  <2>2. lists = [h \in ListHead |-> F(h)] /\ \A h \in ListHead : lists[h] = F(h)
    BY Zenon
  <2> HIDE DEF F, lists
  <2> QED BY <2>1, <2>2
<1> HIDE DEF lists
<1>5. boot \in KernelState
  <2>1. {InitPriority[t] : t \in Thread} \in SUBSET Prio
    BY KernelAssumption
  <2>2. [t \in Thread |-> "READY"] \in [Thread -> Stat]
    BY DEF Stat
  <2>3. [t \in Thread |-> {InitPriority[t]}] \in [Thread -> SUBSET Prio]
    BY KernelAssumption
  <2>4. [t \in Thread |-> "EOK"] \in [Thread -> Error]
    BY DEF Error
  <2>5. /\ [t \in Thread |-> 0] \in [Thread -> Int] /\ 0 \in Nat /\ FALSE \in BOOLEAN
        /\ <<>> \in Seq(Thread) /\ Wild \in Thread \cup {Wild}
        /\ InitPriority \in [Thread -> Prio] /\ InitTick \in [Thread -> Nat \ {0}]
    BY KernelAssumption
  <2> QED BY <2>1, <2>2, <2>3, <2>4, <2>5, <1>4, Zenon DEF KernelState
<1>6. /\ boot.list = lists /\ boot.group = {InitPriority[t] : t \in Thread}
      /\ boot.stat = [t \in Thread |-> "READY"] /\ boot.prio = InitPriority
      /\ boot.mask = [t \in Thread |-> {InitPriority[t]}] /\ boot.error = [t \in Thread |-> "EOK"]
      /\ boot.timers = <<>> /\ boot.lock = 0 /\ boot.isr = FALSE
  BY Zenon
<1> HIDE DEF boot
<1>7. LinkedOnce(boot)
  <2>1. ASSUME NEW g \in ListHead, NEW h \in ListHead, g # h
        PROVE  Range(lists[g]) \cap Range(lists[h]) = {}
    <3>1. CASE g \in Prio /\ h \in Prio
      <4>1. Range(lists[g]) = with(g) /\ Range(lists[h]) = with(h)
        BY <3>1, <1>2
      <4> QED BY <4>1, <2>1
    <3>2. CASE g \notin Prio \/ h \notin Prio
      BY <3>2, <2>1, <1>3
    <3> QED BY <3>1, <3>2
  <2>2. \A h \in ListHead : IsInjective(lists[h])
    BY <1>2, <1>3
  <2> QED BY <2>1, <2>2, <1>6 DEF LinkedOnce
<1>8. ReadyQueue(boot)
  <2>1. \A p \in Prio : Range(lists[p]) = with(p)
    BY <1>2
  <2>2. \A p \in Prio : p \in boot.group <=> Range(boot.list[p]) # {}
    BY <2>1, <1>6
  <2>3. \A p \in Prio : \A t \in Range(boot.list[p]) : boot.stat[t] = "READY" /\ boot.prio[t] = p
    BY <2>1, <1>6
  <2>4. \A t \in Thread : t \in Range(boot.list[boot.prio[t]])
    BY <2>1, <1>6, KernelAssumption
  <2>5. \A t \in Thread : boot.mask[t] = {boot.prio[t]}
    BY <1>6
  <2> QED BY <2>2, <2>3, <2>4, <2>5 DEF ReadyQueue
<1>9. OtherLists(boot)
  BY <1>3, <1>6, Heads DEF OtherLists
<1>10. TimerList(boot) /\ TimersSorted(boot)
  <2>1. boot.timers \in Seq(Thread) /\ Range(boot.timers) = {} /\ Len(boot.timers) = 0
        /\ IsInjective(boot.timers)
    <3>1. <<>> \in Seq(Thread) /\ Len(<<>>) = 0
      OBVIOUS
    <3>2. IsInjective(<<>>)
      BY DEF IsInjective
    <3>3. Range(<<>>) = {}
      BY <3>1, EmptyOrHead
    <3> QED BY <3>1, <3>2, <3>3, <1>6
  <2> QED BY <2>1 DEF TimerList, TimersSorted
<1>11. Sound(boot)
  BY <1>5, <1>7, <1>8, <1>9, <1>10 DEF Sound
<1>12. Idle \in Thread /\ boot.stat[Idle] = "READY"
  BY <1>6, KernelAssumption
<1>13. /\ Sound(q) /\ q.list = boot.list /\ q.stat = boot.stat /\ q.error = boot.error
       /\ q.lock = boot.lock /\ q.isr = boot.isr
       /\ q.current = ToThread(q) /\ q.current \in Thread
  BY <1>6, <1>11, <1>12, ScheduleEffect
<1> HIDE DEF q
<1>14. \A h \in WaitList : q.list[h] = <<>>
  BY <1>3, <1>6, <1>13, Heads
<1> QED BY <1>1, <1>6, <1>13, <1>14

\* Nor does a list depend on the scheduler lock,
LEMMA LockSound ==
  ASSUME NEW s, Sound(s), NEW n \in Nat
  PROVE  LET q == [s EXCEPT !.lock = n] IN
         /\ Sound(q) /\ q.list = s.list /\ q.group = s.group /\ q.stat = s.stat /\ q.error = s.error
         /\ q.current = s.current /\ ToThread(q) = ToThread(s) /\ q.lock = n
<1> DEFINE q == [s EXCEPT !.lock = n]
<1>1. s \in KernelState
  BY DEF Sound
<1>2. /\ q \in KernelState
      /\ q.list = s.list /\ q.group = s.group /\ q.stat = s.stat /\ q.prio = s.prio
      /\ q.mask = s.mask /\ q.timers = s.timers /\ q.left = s.left
      /\ q.error = s.error /\ q.current = s.current /\ q.lock = n
  BY <1>1, Zenon DEF KernelState
<1> HIDE DEF q
<1>3. Sound(q)
  BY <1>2, SoundUpdate
<1>4. ToThread(q) = ToThread(s)
  BY <1>2 DEF ToThread
<1> QED BY <1>2, <1>3, <1>4 DEF q

\* or on the interrupt nesting.
LEMMA IsrSound ==
  ASSUME NEW s, Sound(s), NEW i \in BOOLEAN
  PROVE  LET q == [s EXCEPT !.isr = i] IN
         /\ Sound(q) /\ q.list = s.list /\ q.group = s.group /\ q.stat = s.stat /\ q.error = s.error
         /\ q.current = s.current /\ ToThread(q) = ToThread(s) /\ q.lock = s.lock
<1> DEFINE q == [s EXCEPT !.isr = i]
<1>1. s \in KernelState
  BY DEF Sound
<1>2. /\ q \in KernelState
      /\ q.list = s.list /\ q.group = s.group /\ q.stat = s.stat /\ q.prio = s.prio
      /\ q.mask = s.mask /\ q.timers = s.timers /\ q.left = s.left
      /\ q.error = s.error /\ q.current = s.current /\ q.lock = s.lock
  BY <1>1, Zenon DEF KernelState
<1> HIDE DEF q
<1>3. Sound(q)
  BY <1>2, SoundUpdate
<1>4. ToThread(q) = ToThread(s)
  BY <1>2 DEF ToThread
<1> QED BY <1>2, <1>3, <1>4 DEF q
=============================================================================
