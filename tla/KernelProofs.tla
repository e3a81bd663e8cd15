---------------------------- MODULE KernelProofs ----------------------------
(***************************************************************************)
(* What the kernel functions of module Kernel preserve, for every set of   *)
(* threads, number of priorities and time slices.  ThreadsProofs applies   *)
(* these lemmas to every action.                                           *)
(*                                                                         *)
(* Between two steps of a kernel function the state of the thread t it     *)
(* works on does not fit the lists: rt_schedule_remove_thread leaves a     *)
(* READY thread out of the ready queue, rt_thread_suspend marks a thread   *)
(* SUSPEND that is still in it.  Tied says that everything else is in      *)
(* order, Loose that moreover t is linked in no list.  Every function      *)
(* goes from Sound through Tied and Loose back to Sound.                   *)
(***************************************************************************)
EXTENDS ListProofs

Sound(k) ==
  /\ k \in KernelState
  /\ LinkedOnce(k) /\ ReadyQueue(k) /\ OtherLists(k)
  /\ TimerList(k) /\ TimersSorted(k)

Tied(k, t) ==
  /\ k \in KernelState
  /\ LinkedOnce(k)
  /\ \A p \in Prio : p \in k.group <=> Range(k.list[p]) # {}
  /\ \A p \in Prio : \A x \in Range(k.list[p]) : k.prio[x] = p /\ (x # t => k.stat[x] = "READY")
  /\ \A x \in Thread \ {t} : k.stat[x] = "READY" => x \in Range(k.list[k.prio[x]])
  /\ \A x \in Thread \ {t} : k.stat[x] \in {"READY", "SUSPEND"} => k.mask[x] = {k.prio[x]}
  /\ \A h \in WaitList : \A x \in Range(k.list[h]) \ {t} : k.stat[x] = "SUSPEND"
  /\ \A x \in Range(k.list[Defunct]) \ {t} : k.stat[x] = "CLOSE"
  /\ IsInjective(k.timers) /\ TimersSorted(k)
  /\ \A x \in Range(k.timers) \ {t} : k.stat[x] = "SUSPEND"

Loose(k, t) == Tied(k, t) /\ \A h \in ListHead : t \notin Range(k.list[h])

-----------------------------------------------------------------------------
(* Moving between the three predicates.                                    *)

\* The types of the fields, one by one.
LEMMA FieldTypes ==
  ASSUME NEW k \in KernelState
  PROVE  /\ k.list \in [ListHead -> Seq(Thread)] /\ k.group \in SUBSET Prio
         /\ k.stat \in [Thread -> Stat] /\ k.prio \in [Thread -> Prio]
         /\ k.mask \in [Thread -> SUBSET Prio] /\ k.error \in [Thread -> Error]
         /\ k.slice \in [Thread -> Nat \ {0}] /\ k.timers \in Seq(Thread)
         /\ k.left \in [Thread -> Int] /\ k.current \in Thread \cup {Wild}
         /\ k.lock \in Nat /\ k.isr \in BOOLEAN
BY DEF KernelState

\* Which values are list heads.
LEMMA Heads ==
  /\ Prio \subseteq ListHead /\ WaitList \subseteq ListHead /\ Defunct \in ListHead
  /\ \A p \in Prio : p \notin WaitList /\ p # Defunct
  /\ Defunct \notin WaitList
BY KernelAssumption DEF ListHead

\* Only threads are linked in the lists and own thread timers.
LEMMA RangesAreThreads ==
  ASSUME NEW k \in KernelState
  PROVE  /\ \A h \in ListHead : Range(k.list[h]) \in SUBSET Thread
         /\ Range(k.timers) \in SUBSET Thread
<1>1. ASSUME NEW h \in ListHead PROVE Range(k.list[h]) \in SUBSET Thread
  <2>1. k.list[h] \in Seq(Thread)
    BY FieldTypes
  <2> QED BY <2>1, RangeOfSeq
<1>2. Range(k.timers) \in SUBSET Thread
  <2>1. k.timers \in Seq(Thread)
    BY FieldTypes
  <2> QED BY <2>1, RangeOfSeq
<1> QED BY <1>1, <1>2

\* What a kernel function starts from.
LEMMA SoundTied ==
  ASSUME NEW k, NEW t \in Thread, Sound(k)
  PROVE  Tied(k, t)
BY DEF Sound, Tied, ReadyQueue, OtherLists, TimerList

\* A loose thread may be given any state, priority and mask.
LEMMA LooseUpdate ==
  ASSUME NEW k, NEW t \in Thread, Loose(k, t), NEW q \in KernelState,
         q.list = k.list, q.group = k.group, q.timers = k.timers, q.left = k.left,
         \A x \in Thread \ {t} :
           q.stat[x] = k.stat[x] /\ q.prio[x] = k.prio[x] /\ q.mask[x] = k.mask[x]
  PROVE  Loose(q, t)
<1>1. k \in KernelState
  BY DEF Loose, Tied
<1>2. \A h \in ListHead : Range(k.list[h]) \subseteq Thread \ {t}
  BY <1>1, RangesAreThreads DEF Loose
<1>3. Range(k.timers) \in SUBSET Thread
  BY <1>1, RangesAreThreads
<1>4. LinkedOnce(q) /\ IsInjective(q.timers) /\ TimersSorted(q)
  BY DEF Loose, Tied, LinkedOnce, TimersSorted
<1>5. ASSUME NEW p \in Prio, NEW x \in Range(q.list[p])
      PROVE  q.prio[x] = p /\ (x # t => q.stat[x] = "READY")
  BY <1>2, Heads DEF Loose, Tied
<1>6. ASSUME NEW x \in Thread \ {t}, q.stat[x] = "READY"
      PROVE  x \in Range(q.list[q.prio[x]])
  BY <1>6 DEF Loose, Tied
<1>7. ASSUME NEW h \in WaitList, NEW x \in Range(q.list[h]) \ {t}
      PROVE  q.stat[x] = "SUSPEND"
  BY <1>2, Heads DEF Loose, Tied
<1>8. ASSUME NEW x \in Range(q.list[Defunct]) \ {t}
      PROVE  q.stat[x] = "CLOSE"
  BY <1>2, Heads DEF Loose, Tied
<1>9. ASSUME NEW x \in Range(q.timers) \ {t} PROVE q.stat[x] = "SUSPEND"
  BY <1>3 DEF Loose, Tied
<1> QED BY <1>4, <1>5, <1>6, <1>7, <1>8, <1>9 DEF Loose, Tied

\* A loose thread that is not READY may stay loose.
LEMMA LooseSound ==
  ASSUME NEW k, NEW t \in Thread, Loose(k, t),
         k.stat[t] # "READY",
         k.stat[t] = "SUSPEND" => k.mask[t] = {k.prio[t]},
         t \in Range(k.timers) => k.stat[t] = "SUSPEND"
  PROVE  Sound(k)
<1>1. k \in KernelState /\ LinkedOnce(k) /\ TimersSorted(k)
  BY DEF Loose, Tied
<1>2. ReadyQueue(k)
  BY Heads DEF Loose, Tied, ReadyQueue
<1>3. OtherLists(k)
  BY Heads DEF Loose, Tied, OtherLists
<1>4. TimerList(k)
  BY DEF Loose, Tied, TimerList
<1> QED BY <1>1, <1>2, <1>3, <1>4 DEF Sound

-----------------------------------------------------------------------------
(* The primitives.                                                         *)

\* The fields but list, which Unlink and rt_schedule_remove_thread leave alone.
SameBut(q, k) ==
  /\ q.stat = k.stat /\ q.prio = k.prio /\ q.mask = k.mask /\ q.error = k.error
  /\ q.slice = k.slice /\ q.timers = k.timers /\ q.left = k.left
  /\ q.current = k.current /\ q.lock = k.lock /\ q.isr = k.isr

\* rt_list_remove(&t->tlist) takes t, and only t, out of the lists.
LEMMA UnlinkProps ==
  ASSUME NEW k \in KernelState, LinkedOnce(k), NEW t \in Thread
  PROVE  LET u == Unlink(k, t) IN
         /\ u \in KernelState
         /\ SameBut(u, k) /\ u.group = k.group
         /\ LinkedOnce(u)
         /\ \A h \in ListHead : Range(u.list[h]) = Range(k.list[h]) \ {t}
<1> DEFINE u == Unlink(k, t)
<1>1. u.list = [h \in ListHead |-> Without(k.list[h], t)]
  BY DEF Unlink, KernelState
<1>2. SameBut(u, k) /\ u.group = k.group
  BY DEF Unlink, KernelState, SameBut
<1>3. ASSUME NEW h \in ListHead
      PROVE  /\ u.list[h] \in Seq(Thread)
             /\ Range(u.list[h]) = Range(k.list[h]) \ {t}
             /\ IsInjective(u.list[h])
  <2>1. k.list[h] \in Seq(Thread) /\ IsInjective(k.list[h])
    BY FieldTypes DEF LinkedOnce
  <2>2. u.list[h] = Without(k.list[h], t)
    BY <1>1
  <2> QED BY <2>1, <2>2, WithoutProps
<1>4. u \in KernelState
  <2>1. u.list \in [ListHead -> Seq(Thread)]
    BY <1>1, <1>3
  <2> QED BY <2>1, Zenon DEF Unlink, KernelState
<1>5. LinkedOnce(u)
  BY <1>3, Zenon DEF LinkedOnce
<1> QED BY <1>2, <1>3, <1>4, <1>5

\* A thread that is in no ready list can be unlinked: the bitmap stays right.
LEMMA TiedUnlink ==
  ASSUME NEW k, NEW t \in Thread, Tied(k, t),
         \A p \in Prio : t \notin Range(k.list[p])
  PROVE  /\ Loose(Unlink(k, t), t)
         /\ SameBut(Unlink(k, t), k)
<1> DEFINE u == Unlink(k, t)
<1>1. /\ u \in KernelState
      /\ SameBut(u, k) /\ u.group = k.group
      /\ LinkedOnce(u)
      /\ \A h \in ListHead : Range(u.list[h]) = Range(k.list[h]) \ {t}
  BY UnlinkProps DEF Tied
<1> HIDE DEF u
<1>2. \A p \in Prio : Range(u.list[p]) = Range(k.list[p])
  BY <1>1, Heads, Zenon
<1>3. \A p \in Prio : p \in u.group <=> Range(u.list[p]) # {}
  BY <1>1, <1>2 DEF Tied
<1>4. \A p \in Prio : \A x \in Range(u.list[p]) : u.prio[x] = p /\ (x # t => u.stat[x] = "READY")
  BY <1>1, <1>2 DEF Tied, SameBut
<1>5. ASSUME NEW x \in Thread \ {t}, u.stat[x] = "READY"
      PROVE  x \in Range(u.list[u.prio[x]])
  <2>1. k.prio[x] \in Prio
    BY FieldTypes DEF Tied
  <2> QED BY <2>1, <1>1, <1>2, <1>5 DEF Tied, SameBut
<1>6. \A x \in Thread \ {t} : u.stat[x] \in {"READY", "SUSPEND"} => u.mask[x] = {u.prio[x]}
  BY <1>1 DEF Tied, SameBut
<1>7. /\ \A h \in WaitList : \A x \in Range(u.list[h]) \ {t} : u.stat[x] = "SUSPEND"
      /\ \A x \in Range(u.list[Defunct]) \ {t} : u.stat[x] = "CLOSE"
  BY <1>1, Heads DEF Tied, SameBut
<1>8. /\ IsInjective(u.timers) /\ TimersSorted(u)
      /\ \A x \in Range(u.timers) \ {t} : u.stat[x] = "SUSPEND"
  BY <1>1 DEF Tied, SameBut, TimersSorted
<1>9. Loose(u, t)
  BY <1>1, <1>3, <1>4, <1>5, <1>6, <1>7, <1>8 DEF Loose, Tied
<1> QED BY <1>1, <1>9 DEF u

\* rt_schedule_remove_thread clears the bit of a priority exactly when its
\* list becomes empty, provided number_mask is the bit of the priority.
LEMMA TiedRemove ==
  ASSUME NEW k, NEW t \in Thread, Tied(k, t), k.mask[t] = {k.prio[t]}
  PROVE  /\ Loose(rt_schedule_remove_thread(k, t), t)
         /\ SameBut(rt_schedule_remove_thread(k, t), k)
<1> DEFINE u == Unlink(k, t)
           q == rt_schedule_remove_thread(k, t)
           g == IF u.list[k.prio[t]] = <<>> THEN u.group \ k.mask[t] ELSE u.group
<1>1. /\ u \in KernelState
      /\ SameBut(u, k) /\ u.group = k.group
      /\ LinkedOnce(u)
      /\ \A h \in ListHead : Range(u.list[h]) = Range(k.list[h]) \ {t}
  BY UnlinkProps DEF Tied
<1>2. q = [u EXCEPT !.group = g]
  BY DEF rt_schedule_remove_thread
<1> HIDE DEF u, q
<1>3. g \in SUBSET Prio
  BY <1>1, FieldTypes
<1>4. /\ q \in KernelState
      /\ SameBut(q, u) /\ q.list = u.list /\ q.group = g
  <2> HIDE DEF g
  <2> QED BY <1>1, <1>2, <1>3, Zenon DEF KernelState, SameBut
<1>5. SameBut(q, k)
  BY <1>1, <1>4 DEF SameBut
<1>6. LinkedOnce(q) /\ \A h \in ListHead : Range(q.list[h]) = Range(k.list[h]) \ {t}
  BY <1>1, <1>4, Zenon DEF LinkedOnce
<1>7. ASSUME NEW p \in Prio PROVE p \in q.group <=> Range(q.list[p]) # {}
  <2>1. p \in k.group <=> Range(k.list[p]) # {}
    BY DEF Tied
  <2>2. k.prio[t] \in Prio /\ k.prio[t] \in ListHead
    BY FieldTypes, Heads DEF Tied
  <2>3. u.list[k.prio[t]] = <<>> <=> Range(q.list[k.prio[t]]) = {}
    <3>1. u.list[k.prio[t]] \in Seq(Thread)
      BY <1>1, <2>2, FieldTypes
    <3> QED BY <3>1, <1>4, EmptyOrHead
  <2>4. CASE p = k.prio[t]
    BY <2>1, <2>3, <2>4, <1>1, <1>4, <1>6, Heads, Zenon
  <2>5. CASE p # k.prio[t]
    <3>1. t \notin Range(k.list[p])
      BY <2>5 DEF Tied
    <3>2. Range(q.list[p]) = Range(k.list[p])
      BY <3>1, <1>6, Heads, Zenon
    <3>3. p \in q.group <=> p \in k.group
      BY <2>5, <1>1, <1>4
    <3> QED BY <3>2, <3>3, <2>1
  <2> QED BY <2>4, <2>5
<1>8. \A p \in Prio : \A x \in Range(q.list[p]) : q.prio[x] = p /\ (x # t => q.stat[x] = "READY")
  BY <1>5, <1>6, Heads DEF Tied, SameBut
<1>9. ASSUME NEW x \in Thread \ {t}, q.stat[x] = "READY"
      PROVE  x \in Range(q.list[q.prio[x]])
  <2>1. k.prio[x] \in ListHead
    BY FieldTypes, Heads DEF Tied
  <2> QED BY <2>1, <1>5, <1>6, <1>9 DEF Tied, SameBut
<1>10. \A x \in Thread \ {t} : q.stat[x] \in {"READY", "SUSPEND"} => q.mask[x] = {q.prio[x]}
  BY <1>5 DEF Tied, SameBut
<1>11. /\ \A h \in WaitList : \A x \in Range(q.list[h]) \ {t} : q.stat[x] = "SUSPEND"
       /\ \A x \in Range(q.list[Defunct]) \ {t} : q.stat[x] = "CLOSE"
  BY <1>5, <1>6, Heads DEF Tied, SameBut
<1>12. /\ IsInjective(q.timers) /\ TimersSorted(q)
       /\ \A x \in Range(q.timers) \ {t} : q.stat[x] = "SUSPEND"
  BY <1>5 DEF Tied, SameBut, TimersSorted
<1>13. Loose(q, t)
  <2> HIDE DEF g
  <2>1. \A h \in ListHead : t \notin Range(q.list[h])
    BY <1>6
  <2> QED BY <2>1, <1>4, <1>6, <1>7, <1>8, <1>9, <1>10, <1>11, <1>12 DEF Loose, Tied
<1> QED BY <1>5, <1>13 DEF q

\* rt_timer_stop leaves the other timers in their order, and t without one.
LEMMA TimerStopProps ==
  ASSUME NEW k, NEW t \in Thread, Tied(k, t)
  PROVE  LET q == rt_timer_stop(k, t) IN
         /\ Tied(q, t)
         /\ q.list = k.list /\ q.group = k.group
         /\ q.stat = k.stat /\ q.prio = k.prio /\ q.mask = k.mask
         /\ q.error = k.error /\ q.slice = k.slice
         /\ q.current = k.current /\ q.lock = k.lock /\ q.isr = k.isr
         /\ Range(q.timers) = Range(k.timers) \ {t}
         /\ \A x \in Thread \ {t} : q.left[x] = k.left[x]
<1> DEFINE q == rt_timer_stop(k, t)
           w == Without(k.timers, t)
<1>0. k \in KernelState /\ k.timers \in Seq(Thread) /\ IsInjective(k.timers)
  BY FieldTypes DEF Tied
<1>1. /\ w \in Seq(Thread) /\ Range(w) = Range(k.timers) \ {t} /\ IsInjective(w)
      /\ \A x, y \in 1 .. Len(w) : x < y =>
           \E c, d \in 1 .. Len(k.timers) : c < d /\ w[x] = k.timers[c] /\ w[y] = k.timers[d]
  <2> DEFINE s == k.timers
  <2>1. s \in Seq(Thread) /\ IsInjective(s)
    BY <1>0
  <2> HIDE DEF s
  <2>2. /\ Without(s, t) \in Seq(Thread) /\ Range(Without(s, t)) = Range(s) \ {t}
        /\ IsInjective(Without(s, t))
    BY <2>1, WithoutProps
  <2>3. \A x, y \in 1 .. Len(Without(s, t)) : x < y =>
             \E c, d \in 1 .. Len(s) :
               c < d /\ Without(s, t)[x] = s[c] /\ Without(s, t)[y] = s[d]
    BY <2>1, WithoutProps
  <2> QED BY <2>2, <2>3, Zenon DEF s
<1>2. q = [k EXCEPT !.timers = w, !.left[t] = 0]
  BY DEF rt_timer_stop
<1> HIDE DEF q, w
<1>3. /\ q \in KernelState
      /\ q.timers = w /\ q.left = [k.left EXCEPT ![t] = 0]
      /\ q.list = k.list /\ q.group = k.group
      /\ q.stat = k.stat /\ q.prio = k.prio /\ q.mask = k.mask
      /\ q.error = k.error /\ q.slice = k.slice
      /\ q.current = k.current /\ q.lock = k.lock /\ q.isr = k.isr
  <2>1. [k.left EXCEPT ![t] = 0] \in [Thread -> Int]
    BY <1>0, FieldTypes
  <2> QED BY <2>1, <1>0, <1>1, <1>2, Zenon DEF KernelState
<1>4. \A x \in Thread \ {t} : q.left[x] = k.left[x]
  BY <1>0, <1>3, FieldTypes
<1>5. TimersSorted(q)
  <2> SUFFICES ASSUME NEW x \in 1 .. Len(w), NEW y \in 1 .. Len(w), x < y
               PROVE  q.left[w[x]] <= q.left[w[y]]
    BY <1>3 DEF TimersSorted
  <2>1. PICK c \in 1 .. Len(k.timers), d \in 1 .. Len(k.timers) :
          c < d /\ w[x] = k.timers[c] /\ w[y] = k.timers[d]
    BY <1>1, Zenon
  <2>2. k.left[w[x]] <= k.left[w[y]]
    BY <2>1, SMTT(20), ZenonT(20) DEF Tied, TimersSorted
  <2>3. w[x] \in Range(w) /\ w[y] \in Range(w)
    <3>1. Range(w) = {w[j] : j \in 1 .. Len(w)}
      BY <1>1, RangeEquality
    <3> QED BY <3>1
  <2>4. w[x] \in Thread \ {t} /\ w[y] \in Thread \ {t}
    BY <2>3, <1>0, <1>1, RangesAreThreads
  <2> QED BY <2>2, <2>4, <1>4
<1>6. \A x \in Range(q.timers) \ {t} : q.stat[x] = "SUSPEND"
  BY <1>1, <1>3 DEF Tied
<1>7. LinkedOnce(q)
  BY <1>3 DEF Tied, LinkedOnce
<1>8. Tied(q, t)
  <2>1. IsInjective(q.timers)
    BY <1>1, <1>3
  <2> QED BY <2>1, <1>3, <1>5, <1>6, <1>7 DEF Tied
<1> QED BY <1>1, <1>3, <1>4, <1>8 DEF q

\* The same for a thread that is loose already.
LEMMA LooseTimerStop ==
  ASSUME NEW k, NEW t \in Thread, Loose(k, t)
  PROVE  LET q == rt_timer_stop(k, t) IN
         /\ Loose(q, t)
         /\ q.stat = k.stat /\ q.prio = k.prio /\ q.mask = k.mask
         /\ q.error = k.error /\ q.slice = k.slice
         /\ q.current = k.current /\ q.lock = k.lock /\ q.isr = k.isr
         /\ t \notin Range(q.timers)
         /\ \A x \in Range(q.timers) : x \in Range(k.timers) /\ q.left[x] = k.left[x]
<1>1. Tied(k, t)
  BY DEF Loose
<1> DEFINE q == rt_timer_stop(k, t)
<1>2. /\ Tied(q, t)
      /\ q.list = k.list
      /\ q.stat = k.stat /\ q.prio = k.prio /\ q.mask = k.mask
      /\ q.error = k.error /\ q.slice = k.slice
      /\ q.current = k.current /\ q.lock = k.lock /\ q.isr = k.isr
      /\ Range(q.timers) = Range(k.timers) \ {t}
      /\ \A x \in Thread \ {t} : q.left[x] = k.left[x]
  BY <1>1, TimerStopProps
<1> HIDE DEF q
<1>3. Loose(q, t)
  BY <1>2 DEF Loose
<1>4. Range(k.timers) \subseteq Thread
  BY <1>1, RangesAreThreads DEF Tied
<1> QED BY <1>2, <1>3, <1>4 DEF q

\* rt_schedule_insert_thread puts a loose thread back in order, provided
\* number_mask is the bit of its priority and its timer is stopped.
LEMMA InsertSound ==
  ASSUME NEW k, NEW t \in Thread, Loose(k, t),
         k.mask[t] = {k.prio[t]}, t \notin Range(k.timers)
  PROVE  LET q == rt_schedule_insert_thread(k, t) IN
         /\ Sound(q)
         /\ q.stat = [k.stat EXCEPT ![t] = "READY"]
         /\ q.prio = k.prio /\ q.mask = k.mask /\ q.error = k.error /\ q.slice = k.slice
         /\ q.timers = k.timers /\ q.left = k.left
         /\ q.current = k.current /\ q.lock = k.lock /\ q.isr = k.isr
<1> DEFINE q == rt_schedule_insert_thread(k, t)
           p == k.prio[t]
           l == Append(k.list[p], t)
<1>0. k \in KernelState /\ Tied(k, t) /\ LinkedOnce(k)
  BY DEF Loose, Tied
<1>1. p \in Prio /\ p \in ListHead /\ k.list[p] \in Seq(Thread)
  BY <1>0, FieldTypes, Heads
<1>2. l \in Seq(Thread) /\ Range(l) = Range(k.list[p]) \cup {t} /\ IsInjective(l)
  <2>1. IsInjective(k.list[p]) /\ t \notin Range(k.list[p])
    BY <1>0, <1>1 DEF LinkedOnce, Loose
  <2> QED BY <2>1, <1>1, AppendProps
<1>3. q = [k EXCEPT !.stat[t] = "READY", !.list[p] = l, !.group = @ \cup k.mask[t]]
  BY DEF rt_schedule_insert_thread
<1> HIDE DEF q, l
<1>4. /\ q.list = [k.list EXCEPT ![p] = l]
      /\ q.stat = [k.stat EXCEPT ![t] = "READY"]
      /\ q.group = k.group \cup {p}
      /\ q.prio = k.prio /\ q.mask = k.mask /\ q.error = k.error /\ q.slice = k.slice
      /\ q.timers = k.timers /\ q.left = k.left
      /\ q.current = k.current /\ q.lock = k.lock /\ q.isr = k.isr
  BY <1>0, <1>3 DEF KernelState
<1>5. q \in KernelState
  <2>1. [k.list EXCEPT ![p] = l] \in [ListHead -> Seq(Thread)]
    BY <1>0, <1>1, <1>2, FieldTypes
  <2>2. [k.stat EXCEPT ![t] = "READY"] \in [Thread -> Stat]
    BY <1>0, FieldTypes DEF Stat
  <2>3. k.group \cup k.mask[t] \in SUBSET Prio
    BY <1>0, <1>1, FieldTypes
  <2> QED BY <1>0, <1>3, <2>1, <2>2, <2>3, Zenon DEF KernelState
<1> HIDE DEF p
<1>6. Range(q.list[p]) = Range(k.list[p]) \cup {t} /\ IsInjective(q.list[p])
  BY <1>0, <1>1, <1>2, <1>4, FieldTypes
<1>7. \A h \in ListHead \ {p} : q.list[h] = k.list[h]
  BY <1>0, <1>4, FieldTypes
<1>8. q.stat[t] = "READY" /\ \A x \in Thread \ {t} : q.stat[x] = k.stat[x]
  BY <1>0, <1>4, FieldTypes
<1>9. \A h \in ListHead : t \notin Range(k.list[h]) /\ Range(k.list[h]) \subseteq Thread
  BY <1>0, RangesAreThreads DEF Loose
<1>10. LinkedOnce(q)
  <2>1. \A h \in ListHead : IsInjective(q.list[h])
    BY <1>0, <1>6, <1>7 DEF LinkedOnce
  <2>2. ASSUME NEW g \in ListHead, NEW h \in ListHead, g # h
        PROVE  Range(q.list[g]) \cap Range(q.list[h]) = {}
    <3>1. Range(k.list[g]) \cap Range(k.list[h]) = {}
      BY <1>0, <2>2 DEF LinkedOnce
    <3> QED BY <3>1, <2>2, <1>6, <1>7, <1>9
  <2> QED BY <2>1, <2>2 DEF LinkedOnce
<1>11. ReadyQueue(q)
  <2>1. ASSUME NEW r \in Prio PROVE r \in q.group <=> Range(q.list[r]) # {}
    <3>1. CASE r = p
      BY <3>1, <1>4, <1>6
    <3>2. CASE r # p
      BY <3>2, <1>0, <1>4, <1>7, Heads DEF Tied
    <3> QED BY <3>1, <3>2
  <2>2. ASSUME NEW r \in Prio, NEW x \in Range(q.list[r])
        PROVE  q.stat[x] = "READY" /\ q.prio[x] = r
    <3>1. CASE r = p
      BY <3>1, <2>2, <1>0, <1>1, <1>4, <1>6, <1>8, <1>9, SMTT(20), ZenonT(20) DEF Tied, p
    <3>2. CASE r # p
      BY <3>2, <2>2, <1>0, <1>4, <1>7, <1>8, <1>9, Heads DEF Tied
    <3> QED BY <3>1, <3>2
  <2>3. ASSUME NEW x \in Thread, q.stat[x] = "READY" PROVE x \in Range(q.list[q.prio[x]])
    <3>1. CASE x = t
      BY <3>1, <1>4, <1>6 DEF p
    <3>2. CASE x # t
      <4>1. x \in Range(k.list[k.prio[x]]) /\ k.prio[x] \in ListHead
        <5>1. x \in Thread \ {t} /\ k.stat[x] = "READY"
          BY <3>2, <2>3, <1>8
        <5>2. k.prio[x] \in ListHead
          BY <1>0, FieldTypes, Heads
        <5> QED BY <5>1, <5>2, <1>0 DEF Tied
      <4> QED BY <4>1, <1>4, <1>6, <1>7
    <3> QED BY <3>1, <3>2
  <2>4. ASSUME NEW x \in Thread, q.stat[x] \in {"READY", "SUSPEND"}
        PROVE  q.mask[x] = {q.prio[x]}
    BY <2>4, <1>0, <1>4, <1>8 DEF Tied
  <2> QED BY <2>1, <2>2, <2>3, <2>4 DEF ReadyQueue
<1>12. OtherLists(q)
  <2>1. ASSUME NEW h \in WaitList, NEW x \in Range(q.list[h]) PROVE q.stat[x] = "SUSPEND"
    BY <1>0, <1>1, <1>7, <1>8, <1>9, Heads DEF Tied
  <2>2. ASSUME NEW x \in Range(q.list[Defunct]) PROVE q.stat[x] = "CLOSE"
    BY <1>0, <1>1, <1>7, <1>8, <1>9, Heads DEF Tied
  <2> QED BY <2>1, <2>2 DEF OtherLists
<1>13. TimerList(q) /\ TimersSorted(q)
  <2>1. Range(k.timers) \subseteq Thread \ {t}
    BY <1>0, RangesAreThreads
  <2> QED BY <2>1, <1>0, <1>4, <1>8 DEF Tied, TimerList, TimersSorted
<1> QED BY <1>4, <1>5, <1>10, <1>11, <1>12, <1>13 DEF Sound, q

\* A dead loose thread can be linked into rt_thread_defunct.
LEMMA BurySound ==
  ASSUME NEW k, NEW t \in Thread, Loose(k, t),
         k.stat[t] = "CLOSE", t \notin Range(k.timers)
  PROVE  LET q == Bury(k, t) IN
         /\ Sound(q)
         /\ SameBut(q, k)
<1> DEFINE q == Bury(k, t)
           l == PushFront(t, k.list[Defunct])
<1>0. k \in KernelState /\ Tied(k, t) /\ LinkedOnce(k)
  BY DEF Loose, Tied
<1>1. Defunct \in ListHead /\ k.list[Defunct] \in Seq(Thread)
  BY <1>0, FieldTypes, Heads
<1>2. l \in Seq(Thread) /\ Range(l) = Range(k.list[Defunct]) \cup {t} /\ IsInjective(l)
  <2>1. IsInjective(k.list[Defunct]) /\ t \notin Range(k.list[Defunct])
    BY <1>0, <1>1 DEF LinkedOnce, Loose
  <2> QED BY <2>1, <1>1, PushFrontProps
<1>3. q = [k EXCEPT !.list[Defunct] = l]
  BY DEF Bury
<1> HIDE DEF q, l
<1>4. q.list = [k.list EXCEPT ![Defunct] = l] /\ q.group = k.group /\ SameBut(q, k)
  BY <1>0, <1>3 DEF KernelState, SameBut
<1>5. q \in KernelState
  <2>1. [k.list EXCEPT ![Defunct] = l] \in [ListHead -> Seq(Thread)]
    BY <1>0, <1>1, <1>2, FieldTypes
  <2> QED BY <1>0, <1>3, <2>1, Zenon DEF KernelState
<1>6. Range(q.list[Defunct]) = Range(k.list[Defunct]) \cup {t} /\ IsInjective(q.list[Defunct])
  BY <1>0, <1>1, <1>2, <1>4, FieldTypes
<1>7. \A h \in ListHead \ {Defunct} : q.list[h] = k.list[h]
  BY <1>0, <1>4, FieldTypes
<1>9. \A h \in ListHead : t \notin Range(k.list[h]) /\ Range(k.list[h]) \subseteq Thread
  BY <1>0, RangesAreThreads DEF Loose
<1>10. LinkedOnce(q)
  <2>1. \A h \in ListHead : IsInjective(q.list[h])
    BY <1>0, <1>6, <1>7 DEF LinkedOnce
  <2>2. ASSUME NEW g \in ListHead, NEW h \in ListHead, g # h
        PROVE  Range(q.list[g]) \cap Range(q.list[h]) = {}
    <3>1. Range(k.list[g]) \cap Range(k.list[h]) = {}
      BY <1>0, <2>2 DEF LinkedOnce
    <3> QED BY <3>1, <2>2, <1>6, <1>7, <1>9
  <2> QED BY <2>1, <2>2 DEF LinkedOnce
<1>11. \A p \in Prio : q.list[p] = k.list[p]
  BY <1>7, Heads
<1>12. ReadyQueue(q)
  <2>1. \A p \in Prio : \A x \in Range(q.list[p]) : q.stat[x] = "READY" /\ q.prio[x] = p
    BY <1>0, <1>4, <1>9, <1>11, Heads DEF Tied, SameBut
  <2>2. ASSUME NEW x \in Thread, q.stat[x] = "READY" PROVE x \in Range(q.list[q.prio[x]])
    <3>1. x \in Thread \ {t} /\ k.stat[x] = "READY" /\ k.prio[x] \in Prio
      BY <2>2, <1>0, <1>4, FieldTypes DEF SameBut
    <3> QED BY <3>1, <1>0, <1>4, <1>11 DEF Tied, SameBut
  <2>3. \A x \in Thread : q.stat[x] \in {"READY", "SUSPEND"} => q.mask[x] = {q.prio[x]}
    BY <1>0, <1>4 DEF Tied, SameBut
  <2>4. \A p \in Prio : p \in q.group <=> Range(q.list[p]) # {}
    BY <1>0, <1>4, <1>11 DEF Tied
  <2> QED BY <2>1, <2>2, <2>3, <2>4 DEF ReadyQueue
<1>13. OtherLists(q)
  <2>1. ASSUME NEW h \in WaitList, NEW x \in Range(q.list[h]) PROVE q.stat[x] = "SUSPEND"
    BY <1>0, <1>4, <1>7, <1>9, Heads DEF Tied, SameBut
  <2>2. ASSUME NEW x \in Range(q.list[Defunct]) PROVE q.stat[x] = "CLOSE"
    BY <1>0, <1>4, <1>6, <1>9, Heads DEF Tied, SameBut
  <2> QED BY <2>1, <2>2 DEF OtherLists
<1>14. TimerList(q) /\ TimersSorted(q)
  BY <1>0, <1>4 DEF Tied, SameBut, TimerList, TimersSorted
<1> QED BY <1>4, <1>5, <1>10, <1>12, <1>13, <1>14 DEF Sound, q

\* rt_thread_yield moves a READY thread to the end of its list.
LEMMA RequeueSound ==
  ASSUME NEW k, NEW t \in Thread, Sound(k), k.stat[t] = "READY"
  PROVE  LET q == Requeue(k, t) IN
         /\ Sound(q)
         /\ SameBut(q, k) /\ q.group = k.group
<1> DEFINE p == k.prio[t]
           u == Unlink(k, t)
           l == Append(u.list[p], t)
           q == Requeue(k, t)
<1>0. k \in KernelState /\ LinkedOnce(k) /\ ReadyQueue(k) /\ OtherLists(k)
  BY DEF Sound
<1>1. /\ u \in KernelState
      /\ SameBut(u, k) /\ u.group = k.group
      /\ LinkedOnce(u)
      /\ \A h \in ListHead : Range(u.list[h]) = Range(k.list[h]) \ {t}
  BY <1>0, UnlinkProps
<1>2. p \in Prio /\ p \in ListHead /\ t \in Range(k.list[p])
  BY <1>0, FieldTypes, Heads DEF ReadyQueue
<1>3. q = [u EXCEPT !.list[p] = l]
  BY DEF Requeue
<1> HIDE DEF u, q
<1>4. l \in Seq(Thread) /\ Range(l) = Range(k.list[p]) /\ IsInjective(l)
  <2>1. u.list[p] \in Seq(Thread) /\ IsInjective(u.list[p]) /\ t \notin Range(u.list[p])
    <3>1. u.list[p] \in Seq(Thread)
      BY <1>1, <1>2, FieldTypes
    <3>2. IsInjective(u.list[p])
      BY <1>1, <1>2 DEF LinkedOnce
    <3>3. t \notin Range(u.list[p])
      BY <1>1, <1>2
    <3> QED BY <3>1, <3>2, <3>3
  <2>2. l \in Seq(Thread) /\ Range(l) = Range(u.list[p]) \cup {t} /\ IsInjective(l)
    BY <2>1, AppendProps
  <2> QED BY <2>2, <1>1, <1>2, Zenon
<1> HIDE DEF l
<1>5. q.list = [u.list EXCEPT ![p] = l] /\ SameBut(q, k) /\ q.group = k.group
  BY <1>1, <1>3 DEF KernelState, SameBut
<1>6. q \in KernelState
  <2>1. [u.list EXCEPT ![p] = l] \in [ListHead -> Seq(Thread)]
    BY <1>1, <1>4, FieldTypes, Zenon
  <2> QED BY <1>1, <1>3, <2>1, Zenon DEF KernelState
<1> HIDE DEF p
<1>7. ASSUME NEW h \in ListHead
      PROVE  Range(q.list[h]) = Range(k.list[h]) /\ IsInjective(q.list[h])
  <2>1. CASE h = p
    BY <2>1, <1>1, <1>2, <1>4, <1>5, FieldTypes
  <2>2. CASE h # p
    <3>1. q.list[h] = u.list[h]
      BY <2>2, <1>1, <1>5, FieldTypes
    <3>2. t \notin Range(k.list[h])
      BY <2>2, <1>0, <1>2 DEF LinkedOnce
    <3>3. Range(u.list[h]) = Range(k.list[h])
      BY <3>2, <1>1
    <3>4. IsInjective(u.list[h])
      BY <1>1 DEF LinkedOnce
    <3> QED BY <3>1, <3>3, <3>4, SMTT(20), ZenonT(20)
  <2> QED BY <2>1, <2>2
<1>8. LinkedOnce(q)
  BY <1>0, <1>7 DEF LinkedOnce
<1>9. ReadyQueue(q)
  <2>1. \A r \in Prio : Range(q.list[r]) = Range(k.list[r])
    BY <1>7, Heads
  <2>2. \A x \in Thread : k.prio[x] \in Prio
    BY <1>0, FieldTypes
  <2> QED BY <2>1, <2>2, <1>0, <1>5 DEF ReadyQueue, SameBut
<1>10. OtherLists(q)
  BY <1>0, <1>5, <1>7, Heads DEF OtherLists, SameBut
<1>11. TimerList(q) /\ TimersSorted(q)
  BY <1>5, SMTT(20), ZenonT(20) DEF Sound, TimerList, TimersSorted, SameBut
<1> QED BY <1>5, <1>6, <1>8, <1>9, <1>10, <1>11 DEF Sound, q

\* rt_timer_start finds a place that keeps the timer list in order.
LEMMA TimerStartSound ==
  ASSUME NEW k, NEW t \in Thread, NEW n \in Int, Sound(k), k.stat[t] = "SUSPEND"
  PROVE  LET q == rt_timer_start(k, t, n) IN
         /\ Sound(q)
         /\ q.list = k.list /\ q.group = k.group
         /\ q.stat = k.stat /\ q.prio = k.prio /\ q.mask = k.mask
         /\ q.error = k.error /\ q.slice = k.slice
         /\ q.current = k.current /\ q.lock = k.lock /\ q.isr = k.isr
         /\ Range(q.timers) = Range(k.timers) \cup {t}
         /\ q.left = [k.left EXCEPT ![t] = n]
<1> DEFINE s == Without(k.timers, t)
           I == {i \in 1 .. Len(s) : k.left[s[i]] > n}
           m == IF I = {} THEN Len(s) + 1 ELSE Min(I)
           w == InsertNode(s, m, t)
           q == rt_timer_start(k, t, n)
<1>0. k \in KernelState /\ k.timers \in Seq(Thread) /\ IsInjective(k.timers)
  BY FieldTypes DEF Sound, TimerList
<1>1. /\ s \in Seq(Thread) /\ Range(s) = Range(k.timers) \ {t} /\ IsInjective(s)
      /\ Len(s) \in Nat
  BY <1>0, WithoutProps
<1>2. \A x, y \in 1 .. Len(s) : x < y => k.left[s[x]] <= k.left[s[y]]
  <2>1. ASSUME NEW x \in 1 .. Len(s), NEW y \in 1 .. Len(s), x < y
        PROVE  k.left[s[x]] <= k.left[s[y]]
    <3>1. PICK c \in 1 .. Len(k.timers), d \in 1 .. Len(k.timers) :
            c < d /\ s[x] = k.timers[c] /\ s[y] = k.timers[d]
      <4> DEFINE r == k.timers
      <4>1. r \in Seq(Thread) /\ IsInjective(r)
        BY <1>0
      <4> HIDE DEF r
      <4>2. \A i, j \in 1 .. Len(Without(r, t)) : i < j =>
              \E c, d \in 1 .. Len(r) :
                c < d /\ Without(r, t)[i] = r[c] /\ Without(r, t)[j] = r[d]
        BY <4>1, WithoutProps
      <4> QED BY <4>2, <2>1 DEF r
    <3> QED BY <3>1 DEF Sound, TimersSorted
  <2> QED BY <2>1
<1>3. q = [k EXCEPT !.timers = w, !.left[t] = n]
  BY DEF rt_timer_start, InsertBefore
<1> HIDE DEF s, q
<1>4. \A i \in 1 .. Len(s) : s[i] \in Thread \ {t} /\ k.left[s[i]] \in Int
  <2>1. Range(s) = {s[i] : i \in 1 .. Len(s)}
    BY <1>1, RangeEquality
  <2>2. Range(k.timers) \subseteq Thread
    BY <1>0, RangesAreThreads
  <2>3. ASSUME NEW i \in 1 .. Len(s) PROVE s[i] \in Thread \ {t}
    BY <2>1, <2>2, <1>1
  <2> QED BY <2>3, <1>0, FieldTypes
<1>5. /\ m \in 1 .. Len(s) + 1
      /\ \A i \in 1 .. Len(s) : i < m => k.left[s[i]] <= n
      /\ \A i \in 1 .. Len(s) : i >= m => k.left[s[i]] > n
  <2>1. CASE I = {}
    BY <2>1, <1>1, <1>4
  <2>2. CASE I # {}
    <3>1. Min(I) \in I /\ \A x \in I : Min(I) <= x
      <4>1. I \in SUBSET Nat
        OBVIOUS
      <4> HIDE DEF I
      <4> QED BY <4>1, <2>2, MinProps
    <3>2. m \in 1 .. Len(s) /\ k.left[s[m]] > n
      BY <3>1, <2>2
    <3>3. ASSUME NEW i \in 1 .. Len(s), i < m PROVE k.left[s[i]] <= n
      <4>1. i \notin I
        BY <3>1, <3>2, <3>3, <2>2, SMTT(20), ZenonT(20)
      <4> QED BY <4>1, <1>4
    <3> HIDE DEF I, m
    <3>4. ASSUME NEW i \in 1 .. Len(s), i >= m PROVE k.left[s[i]] > n
      <4>1. CASE i = m
        BY <4>1, <3>2
      <4>2. CASE i > m
        <5>1. k.left[s[m]] <= k.left[s[i]] /\ k.left[s[m]] \in Int /\ k.left[s[i]] \in Int
          BY <4>2, <3>2, <1>2, <1>4
        <5> QED BY <5>1, <3>2
      <4> QED BY <4>1, <4>2, <3>2, <3>4
    <3> QED BY <3>2, <3>3, <3>4, <1>1
  <2> QED BY <2>1, <2>2
<1> HIDE DEF I, m
<1>6. /\ w \in Seq(Thread)
      /\ Len(w) = Len(s) + 1
      /\ \A j \in 1 .. Len(s) + 1 :
           w[j] = IF j < m THEN s[j] ELSE IF j = m THEN t ELSE s[j-1]
      /\ Range(w) = Range(s) \cup {t}
      /\ IsInjective(w)
  <2>1. t \notin Range(s)
    BY <1>1
  <2> QED BY <2>1, <1>1, <1>5, InsertNodeProps
<1> HIDE DEF w
<1>7. /\ q \in KernelState
      /\ q.timers = w /\ q.left = [k.left EXCEPT ![t] = n]
      /\ q.list = k.list /\ q.group = k.group
      /\ q.stat = k.stat /\ q.prio = k.prio /\ q.mask = k.mask
      /\ q.error = k.error /\ q.slice = k.slice
      /\ q.current = k.current /\ q.lock = k.lock /\ q.isr = k.isr
  <2>1. [k.left EXCEPT ![t] = n] \in [Thread -> Int]
    BY <1>0, FieldTypes
  <2> QED BY <2>1, <1>0, <1>3, <1>6, Zenon DEF KernelState
<1>8. q.left[t] = n /\ \A x \in Thread \ {t} : q.left[x] = k.left[x]
  BY <1>0, <1>7, FieldTypes
<1>9. TimersSorted(q)
  <2> SUFFICES ASSUME NEW x \in 1 .. Len(s) + 1, NEW y \in 1 .. Len(s) + 1, x < y
               PROVE  q.left[w[x]] <= q.left[w[y]]
    BY <1>6, <1>7 DEF TimersSorted
  <2>1. CASE y < m
    <3>1. w[x] = s[x] /\ w[y] = s[y] /\ x \in 1 .. Len(s) /\ y \in 1 .. Len(s)
      BY <2>1, <1>1, <1>5, <1>6
    <3> QED BY <3>1, <1>2, <1>4, <1>8
  <2>2. CASE y = m
    <3>1. w[x] = s[x] /\ w[y] = t /\ x \in 1 .. Len(s) /\ x < m
      BY <2>2, <1>1, <1>5, <1>6
    <3> QED BY <3>1, <1>4, <1>5, <1>8
  <2>3. CASE y > m /\ x < m
    <3>1. w[x] = s[x] /\ w[y] = s[y-1] /\ x \in 1 .. Len(s) /\ y-1 \in 1 .. Len(s) /\ y-1 >= m
      BY <2>3, <1>1, <1>5, <1>6
    <3>2. k.left[s[x]] <= n /\ k.left[s[y-1]] > n
      BY <3>1, <2>3, <1>5
    <3> QED BY <3>1, <3>2, <1>4, <1>8, SMTT(20), ZenonT(20)
  <2>4. CASE y > m /\ x = m
    <3>1. w[x] = t /\ w[y] = s[y-1] /\ y-1 \in 1 .. Len(s) /\ y-1 >= m
      BY <2>4, <1>1, <1>5, <1>6
    <3>2. k.left[s[y-1]] > n
      BY <3>1, <1>5
    <3> QED BY <3>1, <3>2, <1>4, <1>8
  <2>5. CASE y > m /\ x > m
    <3>1. w[x] = s[x-1] /\ w[y] = s[y-1] /\ x-1 \in 1 .. Len(s) /\ y-1 \in 1 .. Len(s)
      BY <2>5, <1>1, <1>5, <1>6
    <3>2. k.left[s[x-1]] <= k.left[s[y-1]]
      BY <3>1, <1>2
    <3> QED BY <3>1, <3>2, <1>4, <1>8
  <2> QED BY <2>1, <2>2, <2>3, <2>4, <2>5, <1>5
<1>10. Range(w) = Range(k.timers) \cup {t}
  BY <1>1, <1>6
<1>11. TimerList(q)
  BY <1>6, <1>7, <1>10, SMTT(20), ZenonT(20) DEF Sound, TimerList
<1>12. LinkedOnce(q) /\ ReadyQueue(q) /\ OtherLists(q)
  BY <1>7 DEF Sound, LinkedOnce, ReadyQueue, OtherLists
<1> QED BY <1>7, <1>9, <1>10, <1>11, <1>12, SMTT(20), ZenonT(20) DEF Sound, q

-----------------------------------------------------------------------------
(* The functions.                                                          *)

\* What a function that works on thread t leaves alone: the states of the
\* other threads, the running thread, the locks, and the timers it does not
\* stop.
Frame(q, k, t) ==
  /\ \A x \in Thread \ {t} : q.stat[x] = k.stat[x]
  /\ q.current = k.current /\ q.lock = k.lock /\ q.isr = k.isr
  /\ \A x \in Range(q.timers) : x \in Range(k.timers) /\ q.left[x] = k.left[x]

\* Fields that no list depends on may change.
LEMMA SoundUpdate ==
  ASSUME NEW k, Sound(k), NEW q \in KernelState,
         q.list = k.list, q.group = k.group, q.stat = k.stat, q.prio = k.prio,
         q.mask = k.mask, q.timers = k.timers, q.left = k.left
  PROVE  Sound(q)
<1>1. LinkedOnce(q)
  BY DEF Sound, LinkedOnce
<1>2. ReadyQueue(q)
  BY DEF Sound, ReadyQueue
<1>3. OtherLists(q) /\ TimerList(q) /\ TimersSorted(q)
  BY DEF Sound, OtherLists, TimerList, TimersSorted
<1> QED BY <1>1, <1>2, <1>3 DEF Sound

\* A thread that is neither READY nor SUSPEND is loose unless it is in the
\* defunct list, and has no timer.
LEMMA OutsiderLoose ==
  ASSUME NEW k, NEW t \in Thread, Sound(k), k.stat[t] \in {"INIT", "CLOSE"},
         t \notin Range(k.list[Defunct])
  PROVE  Loose(k, t) /\ t \notin Range(k.timers)
<1>1. Tied(k, t)
  BY SoundTied
<1>2. t \notin Range(k.timers)
  BY DEF Sound, TimerList
<1>3. ASSUME NEW h \in ListHead PROVE t \notin Range(k.list[h])
  BY Heads DEF Sound, ReadyQueue, OtherLists, ListHead
<1> QED BY <1>1, <1>2, <1>3 DEF Loose

\* Removing a thread from the ready queue or from the list it waits in.
LEMMA RemoveLoose ==
  ASSUME NEW k, NEW t \in Thread, Sound(k), k.stat[t] \in {"READY", "SUSPEND"}
  PROVE  LET q == rt_schedule_remove_thread(k, t) IN
         Loose(q, t) /\ SameBut(q, k)
<1>1. Tied(k, t) /\ k.mask[t] = {k.prio[t]}
  BY SoundTied DEF Sound, ReadyQueue
<1> QED BY <1>1, TiedRemove

\* rt_thread_suspend.
LEMMA SuspendSound ==
  ASSUME NEW k, NEW t \in Thread, Sound(k), k.stat[t] = "READY"
  PROVE  LET q == rt_thread_suspend(k, t) IN
         Sound(q) /\ Frame(q, k, t) /\ q.stat[t] = "SUSPEND"
<1> DEFINE a == [k EXCEPT !.stat[t] = "SUSPEND"]
           b == rt_schedule_remove_thread(a, t)
           q == rt_timer_stop(b, t)
<1>0. k \in KernelState /\ k.mask[t] = {k.prio[t]} /\ Tied(k, t)
  BY SoundTied DEF Sound, ReadyQueue
<1>1. /\ a \in KernelState
      /\ a.list = k.list /\ a.group = k.group /\ a.prio = k.prio /\ a.mask = k.mask
      /\ a.timers = k.timers /\ a.left = k.left
      /\ a.current = k.current /\ a.lock = k.lock /\ a.isr = k.isr
      /\ a.stat = [k.stat EXCEPT ![t] = "SUSPEND"]
  <2>1. [k.stat EXCEPT ![t] = "SUSPEND"] \in [Thread -> Stat]
    BY <1>0, FieldTypes DEF Stat
  <2> QED BY <2>1, <1>0, Zenon DEF KernelState
<1> HIDE DEF a
<1>2. a.stat[t] = "SUSPEND" /\ \A x \in Thread \ {t} : a.stat[x] = k.stat[x]
  BY <1>0, <1>1, FieldTypes
<1>3. Tied(a, t)
  <2>1. /\ \A h \in ListHead : Range(k.list[h]) \in SUBSET Thread
        /\ Range(k.timers) \in SUBSET Thread
    BY <1>0, RangesAreThreads, SMTT(20), ZenonT(20)
  <2>2. LinkedOnce(a) /\ IsInjective(a.timers) /\ TimersSorted(a)
    BY <1>0, <1>1, SMTT(20), ZenonT(20) DEF Tied, LinkedOnce, TimersSorted
  <2>3. \A p \in Prio : \A x \in Range(a.list[p]) : a.prio[x] = p /\ (x # t => a.stat[x] = "READY")
    BY <2>1, <1>0, <1>1, <1>2, Heads, SMTT(20), ZenonT(20) DEF Tied
  <2>4. \A x \in Thread \ {t} : a.stat[x] = "READY" => x \in Range(a.list[a.prio[x]])
    BY <1>0, <1>1, <1>2 DEF Tied
  <2>5. \A x \in Thread \ {t} : a.stat[x] \in {"READY", "SUSPEND"} => a.mask[x] = {a.prio[x]}
    BY <1>0, <1>1, <1>2, SMTT(20), ZenonT(20) DEF Tied
  <2>6. \A h \in WaitList : \A x \in Range(a.list[h]) \ {t} : a.stat[x] = "SUSPEND"
    BY <2>1, <1>0, <1>1, <1>2, Heads, SMTT(20), ZenonT(20) DEF Tied
  <2>7. \A x \in Range(a.list[Defunct]) \ {t} : a.stat[x] = "CLOSE"
    BY <2>1, <1>0, <1>1, <1>2, Heads, SMTT(20), ZenonT(20) DEF Tied
  <2>8. \A x \in Range(a.timers) \ {t} : a.stat[x] = "SUSPEND"
    BY <2>1, <1>0, <1>1, <1>2, SMTT(20), ZenonT(20) DEF Tied
  <2>9. \A p \in Prio : p \in a.group <=> Range(a.list[p]) # {}
    BY <1>0, <1>1 DEF Tied
  <2> QED BY <2>2, <2>3, <2>4, <2>5, <2>6, <2>7, <2>8, <2>9, <1>1, SMTT(20), ZenonT(20) DEF Tied
<1>4. Loose(b, t) /\ SameBut(b, a)
  BY <1>0, <1>1, <1>3, TiedRemove, SMTT(20), ZenonT(20)
<1> HIDE DEF b
<1>5. /\ Loose(q, t)
      /\ q.stat = b.stat /\ q.prio = b.prio /\ q.mask = b.mask
      /\ q.current = b.current /\ q.lock = b.lock /\ q.isr = b.isr
      /\ t \notin Range(q.timers)
      /\ \A x \in Range(q.timers) : x \in Range(b.timers) /\ q.left[x] = b.left[x]
  BY <1>4, LooseTimerStop
<1>6. rt_thread_suspend(k, t) = q
  BY DEF rt_thread_suspend, SuspendSection, a, b
<1> HIDE DEF q
<1>7. Sound(q)
  BY <1>0, <1>1, <1>2, <1>4, <1>5, LooseSound, SMTT(20), ZenonT(20) DEF SameBut
<1>8. Frame(q, k, t) /\ q.stat[t] = "SUSPEND"
  BY <1>1, <1>2, <1>4, <1>5 DEF Frame, SameBut
<1> QED BY <1>6, <1>7, <1>8

\* rt_thread_resume.
LEMMA ResumeSound ==
  ASSUME NEW k, NEW t \in Thread, Sound(k), k.stat[t] = "SUSPEND"
  PROVE  LET q == rt_thread_resume(k, t) IN
         Sound(q) /\ Frame(q, k, t) /\ q.stat[t] = "READY"
<1> DEFINE a == Unlink(k, t)
           b == rt_timer_stop(a, t)
           q == rt_schedule_insert_thread(b, t)
<1>0. k \in KernelState /\ k.mask[t] = {k.prio[t]} /\ Tied(k, t)
  BY SoundTied DEF Sound, ReadyQueue
<1>1. \A p \in Prio : t \notin Range(k.list[p])
  BY DEF Sound, ReadyQueue
<1>2. Loose(a, t) /\ SameBut(a, k)
  BY <1>0, <1>1, TiedUnlink
<1> HIDE DEF a
<1>3. /\ Loose(b, t)
      /\ b.stat = a.stat /\ b.prio = a.prio /\ b.mask = a.mask
      /\ b.current = a.current /\ b.lock = a.lock /\ b.isr = a.isr
      /\ t \notin Range(b.timers)
      /\ \A x \in Range(b.timers) : x \in Range(a.timers) /\ b.left[x] = a.left[x]
  BY <1>2, LooseTimerStop
<1> HIDE DEF b
<1>4. b.mask[t] = {b.prio[t]}
  BY <1>0, <1>2, <1>3 DEF SameBut
<1>5. /\ Sound(q)
      /\ q.stat = [b.stat EXCEPT ![t] = "READY"]
      /\ q.timers = b.timers /\ q.left = b.left
      /\ q.current = b.current /\ q.lock = b.lock /\ q.isr = b.isr
  BY <1>3, <1>4, InsertSound
<1>6. rt_thread_resume(k, t) = q
  BY SMTT(20), ZenonT(20) DEF rt_thread_resume, ResumeSection, a, b
<1> HIDE DEF q
<1>7. k.stat \in [Thread -> Stat] /\ b.stat = k.stat
  BY <1>0, <1>2, <1>3, FieldTypes DEF SameBut
<1>8. Frame(q, k, t) /\ q.stat[t] = "READY"
  BY <1>2, <1>3, <1>5, <1>7 DEF Frame, SameBut
<1> QED BY <1>5, <1>6, <1>8, Zenon

\* rt_thread_startup up to rt_thread_resume, on a thread just initialised.
LEMMA StartupSound ==
  ASSUME NEW k, NEW t \in Thread, Sound(k), k.stat[t] = "INIT"
  PROVE  LET q == StartupPrepare(k, t) IN
         Sound(q) /\ Frame(q, k, t) /\ q.stat[t] = "SUSPEND"
<1> DEFINE q == StartupPrepare(k, t)
<1>1. k \in KernelState /\ t \notin Range(k.list[Defunct])
  BY DEF Sound, OtherLists
<1>2. Loose(k, t) /\ t \notin Range(k.timers)
  BY <1>1, OutsiderLoose
<1>3. InitPriority[t] \in Prio
  BY KernelAssumption
<1>4. /\ q \in KernelState
      /\ q.list = k.list /\ q.group = k.group /\ q.timers = k.timers /\ q.left = k.left
      /\ q.current = k.current /\ q.lock = k.lock /\ q.isr = k.isr
      /\ q.stat = [k.stat EXCEPT ![t] = "SUSPEND"]
      /\ q.prio = [k.prio EXCEPT ![t] = InitPriority[t]]
      /\ q.mask = [k.mask EXCEPT ![t] = {InitPriority[t]}]
  <2>1. /\ [k.stat EXCEPT ![t] = "SUSPEND"] \in [Thread -> Stat]
        /\ [k.prio EXCEPT ![t] = InitPriority[t]] \in [Thread -> Prio]
        /\ [k.mask EXCEPT ![t] = {InitPriority[t]}] \in [Thread -> SUBSET Prio]
    BY <1>1, <1>3, FieldTypes DEF Stat
  <2> QED BY <2>1, <1>1, Zenon DEF StartupPrepare, KernelState
<1> HIDE DEF q
<1>5. /\ q.stat[t] = "SUSPEND" /\ q.prio[t] = InitPriority[t] /\ q.mask[t] = {InitPriority[t]}
      /\ \A x \in Thread \ {t} :
           q.stat[x] = k.stat[x] /\ q.prio[x] = k.prio[x] /\ q.mask[x] = k.mask[x]
  BY <1>1, <1>4, FieldTypes
<1>6. Loose(q, t)
  <2>1. /\ q \in KernelState
        /\ q.list = k.list /\ q.group = k.group /\ q.timers = k.timers /\ q.left = k.left
    BY <1>4
  <2>2. \A x \in Thread \ {t} :
          q.stat[x] = k.stat[x] /\ q.prio[x] = k.prio[x] /\ q.mask[x] = k.mask[x]
    BY <1>5
  <2> QED BY <2>1, <2>2, <1>2, LooseUpdate
<1>7. Sound(q)
  BY <1>5, <1>6, LooseSound, SMTT(20), ZenonT(20)
<1> QED BY <1>4, <1>5, <1>7 DEF Frame, q

\* _rt_thread_init of a control block that is linked nowhere.
LEMMA ThreadInitSound ==
  ASSUME NEW k, NEW t \in Thread, NEW m \in SUBSET Prio, Sound(k), k.stat[t] = "CLOSE",
         t \notin Range(k.list[Defunct])
  PROVE  LET q == ThreadInit(k, t, m) IN
         Sound(q) /\ Frame(q, k, t) /\ q.stat[t] = "INIT"
<1> DEFINE q == ThreadInit(k, t, m)
<1>1. k \in KernelState /\ Loose(k, t) /\ t \notin Range(k.timers)
  BY OutsiderLoose DEF Sound
<1>2. InitPriority[t] \in Prio /\ InitTick[t] \in Nat \ {0}
  BY KernelAssumption
<1>3. /\ q \in KernelState
      /\ q.list = k.list /\ q.group = k.group /\ q.timers = k.timers /\ q.left = k.left
      /\ q.current = k.current /\ q.lock = k.lock /\ q.isr = k.isr
      /\ q.stat = [k.stat EXCEPT ![t] = "INIT"]
      /\ q.prio = [k.prio EXCEPT ![t] = InitPriority[t]]
      /\ q.mask = [k.mask EXCEPT ![t] = m]
  <2>1. /\ [k.stat EXCEPT ![t] = "INIT"] \in [Thread -> Stat]
        /\ [k.prio EXCEPT ![t] = InitPriority[t]] \in [Thread -> Prio]
        /\ [k.mask EXCEPT ![t] = m] \in [Thread -> SUBSET Prio]
        /\ [k.error EXCEPT ![t] = "EOK"] \in [Thread -> Error]
        /\ [k.slice EXCEPT ![t] = InitTick[t]] \in [Thread -> Nat \ {0}]
    BY <1>1, <1>2, FieldTypes DEF Stat, Error
  <2> QED BY <2>1, <1>1, Zenon DEF ThreadInit, KernelState
<1> HIDE DEF q
<1>4. /\ q.stat[t] = "INIT"
      /\ \A x \in Thread \ {t} :
           q.stat[x] = k.stat[x] /\ q.prio[x] = k.prio[x] /\ q.mask[x] = k.mask[x]
  BY <1>1, <1>3, FieldTypes
<1>5. Loose(q, t)
  BY <1>1, <1>3, <1>4, LooseUpdate, Zenon
<1>6. Sound(q)
  BY <1>1, <1>3, <1>4, <1>5, LooseSound
<1> QED BY <1>3, <1>4, <1>6, SMTT(20), ZenonT(20) DEF Frame, q

\* rt_thread_exit, rt_thread_detach, rt_thread_delete: the thread is out of
\* every queue, may be linked into the defunct list, and has no timer left.
LEMMA KillSound ==
  ASSUME NEW k, NEW t \in Thread, Sound(k), k.stat[t] \in {"READY", "SUSPEND"}
  PROVE  LET q == Close(rt_schedule_remove_thread(k, t), t) IN
         /\ Sound(q) /\ Frame(q, k, t) /\ q.stat[t] = "CLOSE"
         /\ Sound(Bury(q, t)) /\ Frame(Bury(q, t), k, t) /\ Bury(q, t).stat[t] = "CLOSE"
<1> DEFINE a == rt_schedule_remove_thread(k, t)
           b == rt_timer_stop(a, t)
           q == Close(a, t)
           c == Bury(q, t)
<1>1. Loose(a, t) /\ SameBut(a, k)
  BY RemoveLoose
<1> HIDE DEF a
<1>2. /\ Loose(b, t)
      /\ b.stat = a.stat /\ b.prio = a.prio /\ b.mask = a.mask
      /\ b.current = a.current /\ b.lock = a.lock /\ b.isr = a.isr
      /\ t \notin Range(b.timers)
      /\ \A x \in Range(b.timers) : x \in Range(a.timers) /\ b.left[x] = a.left[x]
  BY <1>1, LooseTimerStop
<1>3. q = [b EXCEPT !.stat[t] = "CLOSE"]
  BY SMTT(20), ZenonT(20) DEF Close
<1> HIDE DEF b, q
<1>4. b \in KernelState /\ [b.stat EXCEPT ![t] = "CLOSE"] \in [Thread -> Stat]
  BY <1>2, FieldTypes DEF Loose, Tied, Stat
<1>5. /\ q \in KernelState
      /\ q.list = b.list /\ q.group = b.group /\ q.timers = b.timers /\ q.left = b.left
      /\ q.prio = b.prio /\ q.mask = b.mask
      /\ q.current = b.current /\ q.lock = b.lock /\ q.isr = b.isr
      /\ q.stat = [b.stat EXCEPT ![t] = "CLOSE"]
  BY <1>3, <1>4, Zenon DEF KernelState
<1>6. q.stat[t] = "CLOSE" /\ \A x \in Thread \ {t} : q.stat[x] = b.stat[x]
  BY <1>4, <1>5, FieldTypes
<1>7. Loose(q, t)
  BY <1>2, <1>5, <1>6, LooseUpdate, ZenonT(60)
<1>8. Sound(q)
  BY <1>2, <1>5, <1>6, <1>7, LooseSound, Zenon
<1>9. Frame(q, k, t)
  BY <1>1, <1>2, <1>5, <1>6, SMTT(20), ZenonT(20) DEF Frame, SameBut
<1>10. Sound(c) /\ SameBut(c, q)
  BY <1>2, <1>5, <1>6, <1>7, BurySound, Zenon
<1> HIDE DEF c
<1>11. Frame(c, k, t) /\ c.stat[t] = "CLOSE"
  BY <1>6, <1>9, <1>10 DEF Frame, SameBut
<1> QED BY <1>6, <1>8, <1>9, <1>10, <1>11 DEF a, q, c

\* The idle thread takes a dead thread out of the defunct list.
LEMMA ReapSound ==
  ASSUME NEW k, NEW t \in Thread, Sound(k), k.stat[t] = "CLOSE"
  PROVE  LET q == Unlink(k, t) IN
         Sound(q) /\ Frame(q, k, t) /\ q.stat = k.stat /\ q.group = k.group
         /\ \A h \in ListHead : t \notin Range(q.list[h])
<1> DEFINE q == Unlink(k, t)
<1>1. Tied(k, t) /\ k \in KernelState /\ LinkedOnce(k) /\ t \notin Range(k.timers)
  BY SoundTied DEF Sound, TimerList
<1>2. \A p \in Prio : t \notin Range(k.list[p])
  BY DEF Sound, ReadyQueue
<1>3. Loose(q, t) /\ SameBut(q, k) /\ q.group = k.group
  BY <1>1, <1>2, TiedUnlink, UnlinkProps
<1> HIDE DEF q
<1>4. Sound(q)
  BY <1>1, <1>3, LooseSound DEF SameBut
<1> QED BY <1>3, <1>4 DEF Frame, SameBut, Loose, q

\* rt_thread_control(RT_THREAD_CTRL_CHANGE_PRIORITY): a READY thread moves to
\* its new list, any other keeps its place.
LEMMA ChangePrioritySound ==
  ASSUME NEW k, NEW t \in Thread, NEW p \in Prio, Sound(k)
  PROVE  LET q == ChangePriority(k, t, p) IN
         Sound(q) /\ Frame(q, k, t) /\ q.stat = k.stat
<1> DEFINE set(x) == [x EXCEPT !.prio[t] = p, !.mask[t] = {p}]
<1>1. ASSUME NEW x \in KernelState
      PROVE  /\ set(x) \in KernelState
             /\ set(x).list = x.list /\ set(x).group = x.group /\ set(x).stat = x.stat
             /\ set(x).timers = x.timers /\ set(x).left = x.left
             /\ set(x).current = x.current /\ set(x).lock = x.lock /\ set(x).isr = x.isr
             /\ set(x).prio[t] = p /\ set(x).mask[t] = {p}
             /\ \A y \in Thread \ {t} :
                  set(x).prio[y] = x.prio[y] /\ set(x).mask[y] = x.mask[y]
  <2>1. /\ [x.prio EXCEPT ![t] = p] \in [Thread -> Prio]
        /\ [x.mask EXCEPT ![t] = {p}] \in [Thread -> SUBSET Prio]
    BY <1>1, FieldTypes
  <2>2. /\ set(x) \in KernelState
        /\ set(x).list = x.list /\ set(x).group = x.group /\ set(x).stat = x.stat
        /\ set(x).timers = x.timers /\ set(x).left = x.left
        /\ set(x).current = x.current /\ set(x).lock = x.lock /\ set(x).isr = x.isr
        /\ set(x).prio = [x.prio EXCEPT ![t] = p]
        /\ set(x).mask = [x.mask EXCEPT ![t] = {p}]
    BY <2>1, <1>1, Zenon DEF KernelState
  <2> HIDE DEF set
  <2> QED BY <2>2, <1>1, FieldTypes
<1>2. CASE k.stat[t] = "READY"
  <2> DEFINE a == rt_schedule_remove_thread(k, t)
             b == set(a)
             q == rt_schedule_insert_thread(b, t)
  <2>1. ChangePriority(k, t, p) = q
    BY <1>2 DEF ChangePriority
  <2>2. Loose(a, t) /\ SameBut(a, k)
    BY <1>2, RemoveLoose
  <2> HIDE DEF a, set
  <2>3. a \in KernelState
    BY <2>2 DEF Loose, Tied
  <2>4. /\ b \in KernelState
        /\ b.list = a.list /\ b.group = a.group /\ b.stat = a.stat
        /\ b.timers = a.timers /\ b.left = a.left
        /\ b.current = a.current /\ b.lock = a.lock /\ b.isr = a.isr
        /\ b.prio[t] = p /\ b.mask[t] = {p}
        /\ \A y \in Thread \ {t} : b.prio[y] = a.prio[y] /\ b.mask[y] = a.mask[y]
    BY <2>3, <1>1, SMTT(20), ZenonT(20)
  <2> HIDE DEF b
  <2>5. Loose(b, t)
    BY <2>2, <2>4, LooseUpdate
  <2>6. b.timers = k.timers /\ t \notin Range(k.timers)
    BY <1>2, <2>2, <2>4, SMTT(20), ZenonT(20) DEF Sound, TimerList, SameBut
  <2>7. /\ Sound(q)
        /\ q.stat = [b.stat EXCEPT ![t] = "READY"]
        /\ q.timers = b.timers /\ q.left = b.left
        /\ q.current = b.current /\ q.lock = b.lock /\ q.isr = b.isr
    BY <2>4, <2>5, <2>6, InsertSound
  <2> HIDE DEF q
  <2>8. q.stat = k.stat
    <3>1. k.stat \in [Thread -> Stat] /\ b.stat = k.stat
      BY <2>2, <2>4, FieldTypes, ZenonT(60) DEF SameBut, Sound
    <3> QED BY <3>1, <2>7, <1>2, SMTT(20), ZenonT(20)
  <2>9. Frame(q, k, t)
    BY <2>2, <2>4, <2>7, <2>8, SMTT(20), ZenonT(20) DEF Frame, SameBut
  <2> QED BY <2>1, <2>7, <2>8, <2>9
<1>3. CASE k.stat[t] # "READY"
  <2> DEFINE q == set(k)
  <2>1. ChangePriority(k, t, p) = q
    BY <1>3 DEF ChangePriority
  <2>2. k \in KernelState
    BY DEF Sound
  <2> HIDE DEF set
  <2>3. /\ q \in KernelState
        /\ q.list = k.list /\ q.group = k.group /\ q.stat = k.stat
        /\ q.timers = k.timers /\ q.left = k.left
        /\ q.current = k.current /\ q.lock = k.lock /\ q.isr = k.isr
        /\ q.prio[t] = p /\ q.mask[t] = {p}
        /\ \A y \in Thread \ {t} : q.prio[y] = k.prio[y] /\ q.mask[y] = k.mask[y]
    BY <2>2, <1>1, SMTT(20), ZenonT(20)
  <2> HIDE DEF q
  <2>4. LinkedOnce(q) /\ OtherLists(q) /\ TimerList(q) /\ TimersSorted(q)
    <3>1. LinkedOnce(q)
      BY <2>3 DEF Sound, LinkedOnce
    <3>2. OtherLists(q)
      BY <2>3 DEF Sound, OtherLists
    <3> QED BY <3>1, <3>2, <2>3, SMTT(20), ZenonT(20) DEF Sound, TimerList, TimersSorted
  <2>5. ReadyQueue(q)
    <3>1. \A r \in Prio : Range(k.list[r]) \subseteq Thread \ {t}
      BY <2>2, <1>3, RangesAreThreads, Heads DEF Sound, ReadyQueue
    <3>2. \A r \in Prio : \A x \in Range(q.list[r]) : q.stat[x] = "READY" /\ q.prio[x] = r
      BY <3>1, <2>3 DEF Sound, ReadyQueue
    <3>3. ASSUME NEW x \in Thread, q.stat[x] = "READY" PROVE x \in Range(q.list[q.prio[x]])
      BY <3>3, <2>3, <1>3, SMTT(20), ZenonT(20) DEF Sound, ReadyQueue
    <3>4. ASSUME NEW x \in Thread, q.stat[x] \in {"READY", "SUSPEND"}
          PROVE  q.mask[x] = {q.prio[x]}
      BY <3>4, <2>3 DEF Sound, ReadyQueue
    <3>5. \A r \in Prio : r \in q.group <=> Range(q.list[r]) # {}
      BY <2>3 DEF Sound, ReadyQueue
    <3> QED BY <3>2, <3>3, <3>4, <3>5 DEF ReadyQueue
  <2>6. Frame(q, k, t)
    BY <2>3 DEF Frame
  <2> QED BY <2>1, <2>3, <2>4, <2>5, <2>6 DEF Sound
<1> QED BY <1>2, <1>3

\* When some thread is READY, rt_schedule finds one: the first of the list of
\* the lowest set bit, which is READY and of that priority.
LEMMA ToThreadReady ==
  ASSUME NEW k, Sound(k), NEW t \in Thread, k.stat[t] = "READY"
  PROVE  /\ ToThread(k) \in Thread
         /\ k.stat[ToThread(k)] = "READY"
         /\ Highest(k.group) \in Prio
         /\ k.list[Highest(k.group)] # <<>>
         /\ ToThread(k) = Head(k.list[Highest(k.group)])
<1> DEFINE p == Highest(k.group)
<1>0. k \in KernelState /\ ReadyQueue(k)
  BY DEF Sound
<1>1. k.prio[t] \in Prio /\ k.prio[t] \in k.group
  <2>1. k.prio[t] \in Prio
    BY <1>0, FieldTypes
  <2>2. t \in Range(k.list[k.prio[t]])
    BY <1>0 DEF ReadyQueue
  <2> QED BY <2>1, <2>2, <1>0 DEF ReadyQueue
<1>2. k.group \in SUBSET Prio /\ k.group \in SUBSET Nat /\ k.group # {}
  BY <1>0, <1>1, FieldTypes, KernelAssumption DEF Prio
<1>3. p \in k.group
  BY <1>2, MinProps DEF Highest
<1> HIDE DEF p
<1>4. p \in Prio /\ p \in ListHead /\ k.list[p] \in Seq(Thread)
  BY <1>0, <1>2, <1>3, FieldTypes, Heads
<1>5. Range(k.list[p]) # {}
  BY <1>0, <1>3, <1>4 DEF ReadyQueue
<1>6. k.list[p] # <<>> /\ Head(k.list[p]) \in Range(k.list[p]) /\ Head(k.list[p]) \in Thread
  BY <1>4, <1>5, EmptyOrHead
<1>7. ToThread(k) = Head(k.list[p])
  BY <1>2, <1>6 DEF ToThread, p
<1>8. k.stat[Head(k.list[p])] = "READY"
  BY <1>0, <1>4, <1>6, SMTT(20), ZenonT(20) DEF ReadyQueue
<1> QED BY <1>4, <1>6, <1>7, <1>8 DEF p

\* rt_schedule changes nothing but the running thread; unless the scheduler is
\* locked that is the thread it would choose again.
LEMMA ScheduleSound ==
  ASSUME NEW k, Sound(k), NEW t \in Thread, k.stat[t] = "READY"
  PROVE  LET q == rt_schedule(k) IN
         /\ Sound(q)
         /\ q.list = k.list /\ q.group = k.group /\ q.stat = k.stat
         /\ q.timers = k.timers /\ q.left = k.left /\ q.lock = k.lock /\ q.isr = k.isr
         /\ k.lock = 0 => /\ q.current = ToThread(q)
                          /\ q.current \in Thread /\ q.stat[q.current] = "READY"
         /\ k.lock # 0 => q = k
<1> DEFINE q == rt_schedule(k)
<1>0. k \in KernelState /\ ToThread(k) \in Thread /\ k.stat[ToThread(k)] = "READY"
  BY ToThreadReady DEF Sound
<1>1. CASE k.lock = 0
  <2> DEFINE n == ToThread(k)
  <2>1. q = [k EXCEPT !.current = n]
    BY <1>1 DEF rt_schedule
  <2> HIDE DEF q, n
  <2>2. n \in Thread
    BY <1>0 DEF n
  <2>3. /\ q \in KernelState
        /\ q.list = k.list /\ q.group = k.group /\ q.stat = k.stat /\ q.prio = k.prio
        /\ q.mask = k.mask /\ q.timers = k.timers /\ q.left = k.left
        /\ q.lock = k.lock /\ q.isr = k.isr /\ q.current = n
    BY <2>1, <2>2, <1>0, ZenonT(60) DEF KernelState
  <2>4. Sound(q)
    BY <2>3, SoundUpdate
  <2>5. ToThread(q) = ToThread(k)
    BY <2>3 DEF ToThread
  <2> QED BY <2>3, <2>4, <2>5, <1>0, <1>1 DEF q, n
<1>2. CASE k.lock # 0
  <2>1. q = k
    BY <1>2 DEF rt_schedule
  <2> QED BY <2>1, <1>2
<1> QED BY <1>1, <1>2

\* The tick brings every pending timeout nearer by the same amount.
LEMMA AgedSound ==
  ASSUME NEW k, Sound(k)
  PROVE  LET q == Aged(k) IN
         /\ Sound(q)
         /\ q.list = k.list /\ q.group = k.group /\ q.stat = k.stat /\ q.prio = k.prio
         /\ q.mask = k.mask /\ q.slice = k.slice /\ q.timers = k.timers
         /\ q.current = k.current /\ q.lock = k.lock /\ q.isr = k.isr
         /\ \A x \in Range(k.timers) : q.left[x] = k.left[x] - 1
<1> DEFINE q == Aged(k)
           f == [t \in Thread |-> IF t \in Range(k.timers) THEN k.left[t] - 1 ELSE k.left[t]]
<1>0. k \in KernelState /\ k.left \in [Thread -> Int] /\ k.timers \in Seq(Thread)
  BY FieldTypes DEF Sound
<1>1. f \in [Thread -> Int]
  BY <1>0
<1>2. q = [k EXCEPT !.left = f]
  BY DEF Aged
<1>3. \A x \in Range(k.timers) : f[x] = k.left[x] - 1
  BY <1>0, RangesAreThreads
<1> HIDE DEF q, f
<1>4. /\ q \in KernelState
      /\ q.list = k.list /\ q.group = k.group /\ q.stat = k.stat /\ q.prio = k.prio
      /\ q.mask = k.mask /\ q.slice = k.slice /\ q.timers = k.timers
      /\ q.current = k.current /\ q.lock = k.lock /\ q.isr = k.isr
      /\ q.left = f
  BY <1>0, <1>1, <1>2, Zenon DEF KernelState
<1>5. TimersSorted(q)
  <2> SUFFICES ASSUME NEW i \in 1 .. Len(k.timers), NEW j \in 1 .. Len(k.timers), i < j
               PROVE  f[k.timers[i]] <= f[k.timers[j]]
    BY <1>4 DEF TimersSorted
  <2>1. k.left[k.timers[i]] <= k.left[k.timers[j]]
    BY DEF Sound, TimersSorted
  <2>2. Range(k.timers) = {k.timers[x] : x \in 1 .. Len(k.timers)}
    BY <1>0, RangeEquality
  <2>3. k.timers[i] \in Range(k.timers) /\ k.timers[j] \in Range(k.timers)
    BY <2>2
  <2>4. k.left[k.timers[i]] \in Int /\ k.left[k.timers[j]] \in Int
    BY <2>3, <1>0, RangesAreThreads
  <2>5. /\ f[k.timers[i]] = k.left[k.timers[i]] - 1
        /\ f[k.timers[j]] = k.left[k.timers[j]] - 1
    BY <2>3, <1>3, Zenon
  <2> QED BY <2>1, <2>4, <2>5
<1>6. LinkedOnce(q)
  BY <1>4 DEF Sound, LinkedOnce
<1>7. ReadyQueue(q)
  BY <1>4, SMTT(20), ZenonT(20) DEF Sound, ReadyQueue
<1>8. OtherLists(q) /\ TimerList(q)
  BY <1>4, SMTT(20), ZenonT(20) DEF Sound, OtherLists, TimerList
<1>9. Sound(q)
  BY <1>4, <1>5, <1>6, <1>7, <1>8 DEF Sound
<1>10. \A x \in Range(k.timers) : q.left[x] = k.left[x] - 1
  BY <1>3, <1>4
<1> QED BY <1>4, <1>9, <1>10, Zenon DEF q

\* rt_thread_yield as the tick interrupt calls it.
LEMMA YieldSound ==
  ASSUME NEW k, Sound(k), k.current \in Thread
  PROVE  LET q == rt_thread_yield(k) IN
         /\ Sound(q)
         /\ q.stat = k.stat /\ q.timers = k.timers /\ q.left = k.left
         /\ q.lock = k.lock /\ q.isr = k.isr
         /\ \/ q = k
            \/ k.lock # 0 /\ q.current = k.current
            \/ /\ k.lock = 0 /\ q.current = ToThread(q)
               /\ q.current \in Thread /\ q.stat[q.current] = "READY"
<1> DEFINE q == rt_thread_yield(k)
           t == k.current
           a == Requeue(k, t)
<1>1. CASE k.stat[t] = "READY" /\ SharesList(k, t)
  <2>1. Sound(a) /\ SameBut(a, k)
    BY <1>1, RequeueSound
  <2>2. q = rt_schedule(a)
    BY <1>1 DEF rt_thread_yield
  <2> HIDE DEF a, q
  <2>3. a.stat[t] = "READY"
    BY <1>1, <2>1 DEF SameBut
  <2> HIDE DEF t
  <2>4. t \in Thread
    BY DEF t
  <2>5. /\ Sound(q)
        /\ q.stat = a.stat /\ q.timers = a.timers /\ q.left = a.left
        /\ q.lock = a.lock /\ q.isr = a.isr
        /\ a.lock = 0 => /\ q.current = ToThread(q)
                         /\ q.current \in Thread /\ q.stat[q.current] = "READY"
        /\ a.lock # 0 => q = a
    BY <2>1, <2>2, <2>3, <2>4, ScheduleSound, SMTT(20), ZenonT(20)
  <2> QED BY <2>1, <2>5 DEF SameBut, q
<1>2. CASE ~(k.stat[t] = "READY" /\ SharesList(k, t))
  <2>1. q = k
    BY <1>2, SMTT(20), ZenonT(20) DEF rt_thread_yield
  <2> QED BY <2>1
<1> QED BY <1>1, <1>2

\* rt_tick_increase before it checks the timers.
LEMMA TickSliceSound ==
  ASSUME NEW k, Sound(k), k.current \in Thread
  PROVE  LET q == TickSlice(k) IN
         /\ Sound(q)
         /\ q.stat = k.stat /\ q.timers = k.timers /\ q.lock = k.lock /\ q.isr = k.isr
         /\ \A x \in Range(k.timers) : q.left[x] = k.left[x] - 1
         /\ \/ q.current = k.current /\ q.list = k.list /\ q.group = k.group
            \/ k.lock # 0 /\ q.current = k.current
            \/ /\ k.lock = 0 /\ q.current = ToThread(q)
               /\ q.current \in Thread /\ q.stat[q.current] = "READY"
<1> DEFINE q == TickSlice(k)
           n == k.slice[k.current] - 1
           a == Aged(k)
           b(m) == [a EXCEPT !.slice[k.current] = m]
<1>0. k \in KernelState /\ InitTick[k.current] \in Nat \ {0}
  BY KernelAssumption DEF Sound
<1>1. /\ Sound(a)
      /\ a.list = k.list /\ a.group = k.group /\ a.stat = k.stat /\ a.prio = k.prio
      /\ a.mask = k.mask /\ a.slice = k.slice /\ a.timers = k.timers
      /\ a.current = k.current /\ a.lock = k.lock /\ a.isr = k.isr
      /\ \A x \in Range(k.timers) : a.left[x] = k.left[x] - 1
  BY AgedSound
<1>2. q = IF n = 0 THEN rt_thread_yield(b(InitTick[k.current])) ELSE b(n)
  BY DEF TickSlice
<1> HIDE DEF q, a
<1>3. ASSUME NEW m \in Nat \ {0}
      PROVE  /\ Sound(b(m))
             /\ b(m).list = k.list /\ b(m).group = k.group /\ b(m).stat = k.stat
             /\ b(m).timers = k.timers /\ b(m).left = a.left
             /\ b(m).current = k.current /\ b(m).lock = k.lock /\ b(m).isr = k.isr
  <2>1. a \in KernelState /\ [a.slice EXCEPT ![k.current] = m] \in [Thread -> Nat \ {0}]
    BY <1>1, FieldTypes DEF Sound
  <2>2. /\ b(m) \in KernelState
        /\ b(m).list = a.list /\ b(m).group = a.group /\ b(m).stat = a.stat
        /\ b(m).prio = a.prio /\ b(m).mask = a.mask
        /\ b(m).timers = a.timers /\ b(m).left = a.left
        /\ b(m).current = a.current /\ b(m).lock = a.lock /\ b(m).isr = a.isr
    BY <2>1, ZenonT(60) DEF KernelState
  <2> HIDE DEF b
  <2>3. Sound(b(m))
    BY <2>2, <1>1, SoundUpdate
  <2> QED BY <2>2, <2>3, <1>1, SMTT(20), ZenonT(20)
<1> HIDE DEF b
<1>4. CASE n = 0
  <2> DEFINE c == b(InitTick[k.current])
  <2>1. /\ Sound(c)
        /\ c.list = k.list /\ c.group = k.group /\ c.stat = k.stat
        /\ c.timers = k.timers /\ c.left = a.left
        /\ c.current = k.current /\ c.lock = k.lock /\ c.isr = k.isr
    BY <1>0, <1>3
  <2>2. q = rt_thread_yield(c)
    BY <1>2, <1>4, SMTT(20), ZenonT(20)
  <2> HIDE DEF c
  <2>3. c.current \in Thread
    BY <2>1, SMTT(20), ZenonT(20)
  <2>4. /\ Sound(q)
        /\ q.stat = c.stat /\ q.timers = c.timers /\ q.left = c.left
        /\ q.lock = c.lock /\ q.isr = c.isr
        /\ \/ q = c
           \/ c.lock # 0 /\ q.current = c.current
           \/ /\ c.lock = 0 /\ q.current = ToThread(q)
              /\ q.current \in Thread /\ q.stat[q.current] = "READY"
    BY <2>1, <2>2, <2>3, YieldSound, SMTT(20), ZenonT(20)
  <2> QED BY <2>1, <2>4, <1>1 DEF q
<1>5. CASE n # 0
  <2>1. n \in Nat \ {0}
    BY <1>0, <1>5, FieldTypes
  <2>2. q = b(n)
    BY <1>2, <1>5
  <2> HIDE DEF n
  <2> QED BY <2>1, <2>2, <1>1, <1>3 DEF q
<1> QED BY <1>4, <1>5

\* rt_timer_stop on its own.
LEMMA TimerStopSound ==
  ASSUME NEW k, NEW t \in Thread, Sound(k)
  PROVE  LET q == rt_timer_stop(k, t) IN
         /\ Sound(q)
         /\ q.stat = k.stat /\ q.current = k.current /\ q.lock = k.lock /\ q.isr = k.isr
         /\ Range(q.timers) = Range(k.timers) \ {t}
         /\ \A x \in Range(q.timers) : q.left[x] = k.left[x]
<1> DEFINE q == rt_timer_stop(k, t)
<1>1. Tied(k, t) /\ k \in KernelState
  BY SoundTied DEF Sound
<1>2. /\ Tied(q, t)
      /\ q.list = k.list /\ q.group = k.group
      /\ q.stat = k.stat /\ q.prio = k.prio /\ q.mask = k.mask
      /\ q.current = k.current /\ q.lock = k.lock /\ q.isr = k.isr
      /\ Range(q.timers) = Range(k.timers) \ {t}
      /\ \A x \in Thread \ {t} : q.left[x] = k.left[x]
  BY <1>1, TimerStopProps, SMTT(20), ZenonT(20)
<1> HIDE DEF q
<1>3. q \in KernelState /\ LinkedOnce(q) /\ TimersSorted(q) /\ IsInjective(q.timers)
  BY <1>2, SMTT(20), ZenonT(20) DEF Tied
<1>4. ReadyQueue(q)
  BY <1>2 DEF Sound, ReadyQueue
<1>5. OtherLists(q)
  BY <1>2 DEF Sound, OtherLists
<1>6. TimerList(q)
  BY <1>2, <1>3 DEF Sound, TimerList
<1>7. \A x \in Range(q.timers) : q.left[x] = k.left[x]
  BY <1>1, <1>2, RangesAreThreads, SMTT(20), ZenonT(20)
<1> QED BY <1>2, <1>3, <1>4, <1>5, <1>6, <1>7 DEF Sound, q

\* One round of rt_timer_check: the assertion of rt_thread_timeout holds, and
\* the thread becomes READY with its timer out of the list.
LEMMA FireTimerSound ==
  ASSUME NEW k, Sound(k), k.timers # <<>>
  PROVE  LET t == Head(k.timers)
             q == FireTimer(k)
         IN
         /\ t \in Thread /\ k.stat[t] = "SUSPEND"
         /\ Sound(q)
         /\ q.stat = [k.stat EXCEPT ![t] = "READY"]
         /\ q.lock = k.lock /\ q.isr = k.isr
         /\ \A x \in Range(q.timers) : x \in Range(k.timers) /\ q.left[x] = k.left[x]
         /\ k.lock # 0 => q.current = k.current
         /\ k.lock = 0 => /\ q.current = ToThread(q)
                          /\ q.current \in Thread /\ q.stat[q.current] = "READY"
<1> DEFINE t == Head(k.timers)
           a == rt_timer_stop(k, t)
           b == [a EXCEPT !.error[t] = "ETIMEOUT"]
           c == Unlink(b, t)
           d == rt_schedule_insert_thread(c, t)
           q == FireTimer(k)
<1>0. k \in KernelState /\ k.timers \in Seq(Thread)
  BY FieldTypes DEF Sound
<1>1. t \in Range(k.timers) /\ t \in Thread
  BY <1>0, EmptyOrHead
<1>2. k.stat[t] = "SUSPEND"
  BY <1>1 DEF Sound, TimerList
<1>3. q = rt_schedule(d)
  BY DEF FireTimer, rt_thread_timeout
<1> HIDE DEF t, q
<1>4. /\ Sound(a)
      /\ a.stat = k.stat /\ a.current = k.current /\ a.lock = k.lock /\ a.isr = k.isr
      /\ Range(a.timers) = Range(k.timers) \ {t}
      /\ \A x \in Range(a.timers) : a.left[x] = k.left[x]
  BY <1>1, TimerStopSound, ZenonT(60)
<1> HIDE DEF a
<1>5. /\ b \in KernelState
      /\ b.list = a.list /\ b.group = a.group /\ b.stat = a.stat
      /\ b.prio = a.prio /\ b.mask = a.mask /\ b.timers = a.timers /\ b.left = a.left
      /\ b.current = a.current /\ b.lock = a.lock /\ b.isr = a.isr
  <2>1. a \in KernelState /\ [a.error EXCEPT ![t] = "ETIMEOUT"] \in [Thread -> Error]
    BY <1>1, <1>4, FieldTypes, ZenonT(60) DEF Sound, Error
  <2> QED BY <2>1, Zenon DEF KernelState
<1> HIDE DEF b
<1>6. Sound(b)
  BY <1>4, <1>5, SoundUpdate
<1>7. /\ Tied(b, t) /\ b.mask[t] = {b.prio[t]}
      /\ \A p \in Prio : t \notin Range(b.list[p])
  <2>1. b.stat[t] = "SUSPEND"
    BY <1>2, <1>4, <1>5
  <2>2. Tied(b, t)
    BY <1>1, <1>6, SoundTied
  <2>3. ReadyQueue(b)
    BY <1>6 DEF Sound
  <2>4. b.mask[t] = {b.prio[t]}
    BY <2>1, <2>3, <1>1 DEF ReadyQueue
  <2>5. \A p \in Prio : t \notin Range(b.list[p])
    BY <2>1, <2>3 DEF ReadyQueue
  <2> QED BY <2>2, <2>4, <2>5
<1>8. Loose(c, t) /\ SameBut(c, b)
  BY <1>1, <1>7, TiedUnlink, SMTT(20), ZenonT(20)
<1> HIDE DEF c
<1>9. /\ Sound(d)
      /\ d.stat = [c.stat EXCEPT ![t] = "READY"]
      /\ d.timers = c.timers /\ d.left = c.left
      /\ d.current = c.current /\ d.lock = c.lock /\ d.isr = c.isr
  <2>1. c.mask[t] = {c.prio[t]} /\ t \notin Range(c.timers)
    BY <1>4, <1>5, <1>7, <1>8 DEF SameBut
  <2> QED BY <2>1, <1>1, <1>8, InsertSound, ZenonT(60)
<1> HIDE DEF d
<1>10. d.stat = [k.stat EXCEPT ![t] = "READY"] /\ d.stat[t] = "READY"
  <2>1. c.stat = k.stat
    BY <1>4, <1>5, <1>8 DEF SameBut
  <2>2. k.stat \in [Thread -> Stat]
    BY <1>0, FieldTypes
  <2>3. d.stat = [k.stat EXCEPT ![t] = "READY"]
    BY <2>1, <1>9
  <2> QED BY <2>2, <2>3, <1>1
<1>11. /\ Sound(q)
       /\ q.stat = d.stat
       /\ q.timers = d.timers /\ q.left = d.left /\ q.lock = d.lock /\ q.isr = d.isr
       /\ d.lock = 0 => /\ q.current = ToThread(q)
                        /\ q.current \in Thread /\ q.stat[q.current] = "READY"
       /\ d.lock # 0 => q = d
  BY <1>1, <1>3, <1>9, <1>10, ScheduleSound, ZenonT(60)
<1>12. d.lock = k.lock /\ d.isr = k.isr /\ d.current = k.current
  BY <1>4, <1>5, <1>8, <1>9 DEF SameBut
<1>13. \A x \in Range(d.timers) : x \in Range(k.timers) /\ d.left[x] = k.left[x]
  BY <1>4, <1>5, <1>8, <1>9 DEF SameBut
<1> QED BY <1>1, <1>2, <1>10, <1>11, <1>12, <1>13 DEF q, t

-----------------------------------------------------------------------------
(* What does not change the choice of rt_schedule.                         *)

\* Removing another element keeps the first.
LEMMA HeadStays ==
  ASSUME NEW S, NEW s \in Seq(S), IsInjective(s), NEW e, s # <<>>, Head(s) # e
  PROVE  Without(s, e) # <<>> /\ Head(Without(s, e)) = Head(s)
<1> DEFINE w == Without(s, e)
<1>1. /\ w \in Seq(S) /\ Range(w) = Range(s) \ {e}
  BY WithoutProps
<1>2. \A x, y \in 1 .. Len(w) : x < y =>
        \E c, d \in 1 .. Len(s) : c < d /\ w[x] = s[c] /\ w[y] = s[d]
  BY WithoutProps
<1> HIDE DEF w
<1>3. Head(s) = s[1] /\ Head(s) \in Range(s) /\ Len(s) >= 1
  BY EmptyOrHead
<1>4. Head(s) \in Range(w)
  BY <1>1, <1>3
<1>5. w # <<>> /\ Head(w) = w[1] /\ Len(w) >= 1
  BY <1>1, <1>4, EmptyOrHead
<1>6. PICK y \in 1 .. Len(w) : w[y] = Head(s)
  <2>1. Range(w) = {w[j] : j \in 1 .. Len(w)}
    BY <1>1, RangeEquality
  <2> QED BY <2>1, <1>4
<1>7. y = 1
  <2> SUFFICES ASSUME y # 1 PROVE FALSE
    OBVIOUS
  <2>1. 1 \in 1 .. Len(w) /\ 1 < y
    BY <1>1, <1>5
  <2>2. PICK c \in 1 .. Len(s), d \in 1 .. Len(s) : c < d /\ w[y] = s[d]
    BY <2>1, <1>2
  <2>3. \A i, j \in 1 .. Len(s) : s[i] = s[j] => i = j
    BY DEF IsInjective
  <2>4. s[d] = s[1] /\ 1 \in 1 .. Len(s)
    BY <2>2, <1>3, <1>6
  <2>5. d = 1
    BY <2>3, <2>4
  <2> QED BY <2>2, <2>5
<1> QED BY <1>5, <1>6, <1>7 DEF w

\* rt_schedule_remove_thread of a thread other than the chosen one.
LEMMA RemoveKeepsChoice ==
  ASSUME NEW k, Sound(k), NEW r \in Thread, k.stat[r] = "READY",
         NEW t \in Thread, t # ToThread(k), k.stat[t] \in {"READY", "SUSPEND"}
  PROVE  ToThread(rt_schedule_remove_thread(k, t)) = ToThread(k)
<1> DEFINE q == rt_schedule_remove_thread(k, t)
           p == Highest(k.group)
           u == Unlink(k, t)
<1>0. k \in KernelState /\ LinkedOnce(k) /\ ReadyQueue(k)
  BY DEF Sound
<1>1. p \in Prio /\ k.list[p] # <<>> /\ ToThread(k) = Head(k.list[p])
  BY ToThreadReady, SMTT(20), ZenonT(20)
<1>2. p \in ListHead /\ k.list[p] \in Seq(Thread) /\ IsInjective(k.list[p])
  BY <1>0, <1>1, FieldTypes, Heads DEF LinkedOnce
<1>3. u.list = [h \in ListHead |-> Without(k.list[h], t)] /\ u.group = k.group
      /\ u \in KernelState
  BY <1>0, UnlinkProps, ZenonT(60) DEF Unlink, KernelState
<1>4. q.list = u.list /\ q.group \subseteq k.group
  <2> HIDE DEF u
  <2>1. q = [u EXCEPT !.group = IF u.list[k.prio[t]] = <<>> THEN @ \ k.mask[t] ELSE @]
    BY DEF rt_schedule_remove_thread, u
  <2> QED BY <2>1, <1>3 DEF KernelState
<1>5. q.list[p] # <<>> /\ Head(q.list[p]) = Head(k.list[p])
  <2>1. q.list[p] = Without(k.list[p], t)
    BY <1>2, <1>3, <1>4, SMTT(20), ZenonT(20)
  <2> QED BY <2>1, <1>1, <1>2, HeadStays
<1>6. p \in q.group
  <2>1. Loose(q, t)
    BY RemoveLoose, SMTT(20), ZenonT(20)
  <2>2. q \in KernelState /\ (p \in q.group <=> Range(q.list[p]) # {})
    BY <2>1, <1>1, ZenonT(60) DEF Loose, Tied
  <2>3. q.list[p] \in Seq(Thread)
    BY <2>2, <1>2, FieldTypes, ZenonT(60)
  <2> QED BY <2>2, <2>3, <1>5, EmptyOrHead, SMTT(20), ZenonT(20)
<1> HIDE DEF q, u
<1>7. Highest(q.group) = p
  <2>1. k.group \in SUBSET Nat /\ q.group \in SUBSET Nat
    BY <1>0, <1>4, FieldTypes, KernelAssumption DEF Prio
  <2>2. \A x \in k.group : p <= x
    BY <2>1, <1>4, <1>6, MinProps DEF Highest
  <2>3. Min(q.group) \in q.group /\ \A x \in q.group : Min(q.group) <= x
    BY <2>1, <1>6, MinProps, SMTT(20), ZenonT(20)
  <2>4. p \in Nat /\ Min(q.group) \in Nat /\ p <= Min(q.group) /\ Min(q.group) <= p
    BY <2>1, <2>2, <2>3, <1>4, <1>6
  <2>5. p = Min(q.group)
    BY <2>4
  <2> QED BY <2>5, SMTT(20), ZenonT(20) DEF Highest
<1>8. ToThread(q) = Head(q.list[p])
  BY <1>5, <1>6, <1>7 DEF ToThread
<1> QED BY <1>1, <1>5, <1>8 DEF q
=============================================================================
