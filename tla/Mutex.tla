-------------------------------- MODULE Mutex --------------------------------
(***************************************************************************)
(* Mutexes (src/src/ipc.c): ownership, nesting, hand-over and priority     *)
(* inheritance over rt_thread_control.                                     *)
(***************************************************************************)
EXTENDS IPC

CONSTANTS
  Mutexes,   \* the mutexes, or rather their suspend lists
  MaxHeld    \* bound on what a thread holds, every nested take counted

\* A use also says which mutexes there are and how a thread nests the ones it
\* takes: "flat" (one at a time), "lifo" (released in the opposite order) or "any".
ASSUME MutexAssumption ==
  /\ Mutexes \subseteq WaitList
  /\ MaxHeld \in 0 .. 255
  /\ \A u \in Uses : u.mutexes \subseteq Mutexes /\ u.nesting \in {"flat", "lifo", "any"}

\* original_priority of a mutex that nobody owns.
NoPriority == 255

VARIABLES
  mx,     \* value, owner (Wild for RT_NULL), orig (original_priority), hold of each
  life,   \* of each mutex: "live", "ending", "gone"
  held    \* what each thread believes to hold: its successful takes, in order

vars == <<k, pc, call, ret, use, mx, life, held>>

rt_mutex_init == [value |-> 1, owner |-> Wild, orig |-> NoPriority, hold |-> 0]

Waiters(m) == Range(k.list[m])

Owns(t) == {m \in Mutexes : mx[m].owner = t}

TypeOK ==
  /\ IpcTypeOK
  /\ mx \in [Mutexes -> [value : 0 .. 1, owner : Thread \cup {Wild},
                         orig : Prio \cup {NoPriority}, hold : 0 .. 255]]
  /\ life \in [Mutexes -> {"live", "ending", "gone"}]
  /\ held \in [Thread -> Seq(Mutexes)]

Init ==
  /\ IpcInit
  /\ mx = [m \in Mutexes |-> rt_mutex_init]
  /\ life = [m \in Mutexes |-> "live"]
  /\ held = [t \in Thread |-> <<>>]

-----------------------------------------------------------------------------
\* The discipline of the application.
MayTake(t, m) ==
  /\ Len(held[t]) < MaxHeld
  /\ use.nesting = "flat" => Range(held[t]) \subseteq {m}

\* A thread that holds nothing may try to release any mutex.
MayRelease(t, m) ==
  held[t] # <<>> =>
    IF use.nesting = "lifo" THEN held[t][Len(held[t])] = m ELSE m \in Range(held[t])

Taken(m, t) ==
  [mx EXCEPT ![m].value = @ - 1, ![m].owner = t, ![m].orig = k.prio[t], ![m].hold = @ + 1]

Boost_None(m, t) == k

\* The owner of m inherits the priority of t if that is higher.
Boost(m, t) ==
  IF k.prio[t] < k.prio[mx[m].owner] THEN ChangePriority(k, mx[m].owner, k.prio[t]) ELSE k

rt_mutex_take_NotOwner(t, m, time) ==
  /\ Runs(t) /\ life[m] = "live" /\ MayTake(t, m)
  /\ \/ /\ mx[m].value > 0
        /\ mx' = Taken(m, t)
        /\ held' = [held EXCEPT ![t] = Append(@, m)]
        /\ k' = [k EXCEPT !.error[t] = "EOK"]
        /\ UNCHANGED <<pc, call>>
     \/ /\ mx[m].value = 0 /\ time # 0
        /\ k' = WaitOn(Boost(m, t), m, t, use.flag, time)
        /\ Continue(t, "block", [NoCall EXCEPT !.op = "mutex_take", !.obj = m])
        /\ UNCHANGED <<mx, held>>
  /\ UNCHANGED <<ret, life>>

rt_mutex_take(t, m, time) ==
  /\ Runs(t) /\ life[m] = "live" /\ MayTake(t, m)
  /\ \/ /\ mx[m].owner = t
        /\ mx' = [mx EXCEPT ![m].hold = (@ + 1) % 2^8]
        /\ held' = [held EXCEPT ![t] = Append(@, m)]
        /\ k' = [k EXCEPT !.error[t] = "EOK"]
        /\ UNCHANGED <<pc, call>>
     \/ /\ mx[m].owner # t /\ mx[m].value > 0
        /\ mx' = Taken(m, t)
        /\ held' = [held EXCEPT ![t] = Append(@, m)]
        /\ k' = [k EXCEPT !.error[t] = "EOK"]
        /\ UNCHANGED <<pc, call>>
     \/ /\ mx[m].owner # t /\ mx[m].value = 0 /\ time = 0
        /\ k' = [k EXCEPT !.error[t] = "ETIMEOUT"]
        /\ UNCHANGED <<pc, call, mx, held>>
     \/ /\ mx[m].owner # t /\ mx[m].value = 0 /\ time # 0
        /\ k' = WaitOn(Boost(m, t), m, t, use.flag, time)
        /\ Continue(t, "block", [NoCall EXCEPT !.op = "mutex_take", !.obj = m])
        /\ UNCHANGED <<mx, held>>
  /\ UNCHANGED <<ret, life>>

\* rt_mutex_take after rt_schedule has returned.
TakeEnd(t) ==
  /\ At(t, "woken")
  /\ held' = IF k.error[t] = "EOK" THEN [held EXCEPT ![t] = Append(@, call[t].obj)] ELSE held
  /\ Continue(t, "run", NoCall)
  /\ UNCHANGED <<k, mx, life>>

Restore_IfWaiters(m) ==
  LET o == mx[m].owner IN
  IF k.list[m] # <<>> /\ mx[m].orig # k.prio[o] THEN ChangePriority(k, o, mx[m].orig) ELSE k

\* The owner goes back to the priority it had when it took m.
Restore(m) ==
  LET o == mx[m].owner IN
  IF mx[m].orig # k.prio[o] THEN ChangePriority(k, o, mx[m].orig) ELSE k

HandOver_KeepsOwner(m) ==
  LET r == Restore(m) IN
  /\ k' = rt_ipc_list_resume(r, m)
  /\ mx' = [mx EXCEPT ![m].orig = r.prio[Head(r.list[m])]]
  /\ Goto(mx[m].owner, "sched")

HandOver_NoSchedule(m) ==
  LET r == Restore(m)
      next == Head(r.list[m])
  IN /\ k' = rt_ipc_list_resume(r, m)
     /\ mx' = [mx EXCEPT ![m].owner = next, ![m].orig = r.prio[next], ![m].hold = 1]
     /\ UNCHANGED pc

\* The first waiter becomes the owner, and the former owner will call rt_schedule.
HandOver(m) ==
  LET r == Restore(m)
      next == Head(r.list[m])
  IN /\ k' = rt_ipc_list_resume(r, m)
     /\ mx' = [mx EXCEPT ![m].owner = next, ![m].orig = r.prio[next], ![m].hold = 1]
     /\ Goto(mx[m].owner, "sched")

\* What t believes to hold after it has released m once.
Dropped(t, m) ==
  LET last == Max({i \in 1 .. Len(held[t]) : held[t][i] = m}) IN
  [held EXCEPT ![t] = RemoveNode(@, last)]

rt_mutex_release(t, m) ==
  /\ Runs(t) /\ life[m] = "live" /\ MayRelease(t, m)
  /\ \/ /\ mx[m].owner # t
        /\ k' = [k EXCEPT !.error[t] = "ERROR"]
        /\ UNCHANGED <<pc, mx, held>>
     \/ /\ mx[m].owner = t /\ mx[m].hold # 1
        /\ mx' = [mx EXCEPT ![m].hold = (@ - 1) % 2^8]
        /\ held' = Dropped(t, m)
        /\ UNCHANGED <<k, pc>>
     \/ /\ mx[m].owner = t /\ mx[m].hold = 1 /\ k.list[m] # <<>>
        /\ HandOver(m)
        /\ held' = Dropped(t, m)
     \/ /\ mx[m].owner = t /\ mx[m].hold = 1 /\ k.list[m] = <<>>
        /\ k' = Restore(m)
        /\ mx' = [mx EXCEPT ![m] = rt_mutex_init]
        /\ held' = Dropped(t, m)
        /\ UNCHANGED pc
  /\ UNCHANGED <<call, ret, life>>

\* rt_mutex_delete and rt_mutex_detach, by the owner or of a free mutex.
Delete(t, m) ==
  /\ use.deletes
  /\ Runs(t) /\ life[m] = "live" /\ mx[m].owner \in {t, Wild}
  /\ life' = [life EXCEPT ![m] = "ending"]
  /\ ResumeAllFrom(t, m)
  /\ UNCHANGED <<k, mx, held>>

DeleteEnd(t) ==
  /\ ResumeAllDone(t)
  /\ life' = [life EXCEPT ![call[t].obj] = "gone"]
  /\ held' = [held EXCEPT ![t] = SelectSeq(@, LAMBDA m : m # call[t].obj)]
  /\ Continue(t, "run", NoCall)
  /\ UNCHANGED <<k, mx>>

\* rt_mutex_init, rt_mutex_create
Create(t, m) ==
  /\ Runs(t) /\ life[m] = "gone"
  /\ life' = [life EXCEPT ![m] = "live"]
  /\ mx' = [mx EXCEPT ![m] = rt_mutex_init]
  /\ UNCHANGED <<k, pc, call, ret, held>>

Step(t) ==
  \/ \E m \in use.mutexes :
       \/ \E time \in use.times : rt_mutex_take(t, m, time)
       \/ rt_mutex_release(t, m)
       \/ Delete(t, m) \/ Create(t, m)
  \/ TakeEnd(t) \/ DeleteEnd(t)
  \/ (ResumeAllStep(t) \/ SleepStep(t)) /\ UNCHANGED <<mx, life, held>>

Next ==
  \/ UNCHANGED use /\ \E t \in Thread : Step(t)
  \/ Processor /\ UNCHANGED <<mx, life, held>>

Spec == Init /\ [][Next]_vars

\* A thread in a kernel function goes on in it, however often it is interrupted.
\* A thread that holds a mutex and keeps running gives it up at last.
InKernel(t) ==
  \/ Schedule(t) /\ UNCHANGED <<mx, life, held>>
  \/ Awake(t) /\ UNCHANGED <<call, ret, use, mx, life, held>>
  \/ TakeEnd(t) /\ UNCHANGED use

GivesUp(t) ==
  \E m \in Mutexes :
    mx[m].owner = t /\ mx[m].hold = 1 /\ rt_mutex_release(t, m) /\ UNCHANGED use

LiveSpec ==
  /\ Spec /\ WF_vars(Clock /\ UNCHANGED <<mx, life, held>>)
  /\ \A t \in Thread \ {Idle} : SF_vars(InKernel(t)) /\ SF_vars(GivesUp(t))

-----------------------------------------------------------------------------
(* Properties.                                                             *)

\* rt_mutex_take and rt_mutex_release implement reentrant locks with direct
\* hand-over, whatever timeouts and deletions do.
Abstract ==
  INSTANCE ReentrantLock WITH
    Mutex <- Mutexes,
    holds <- [m \in Mutexes |-> [t \in Thread |->
                IF life[m] # "gone" /\ mx[m].owner = t THEN mx[m].hold ELSE 0]],
    waits <- [m \in Mutexes |-> Waiters(m)]

Implements == Abstract!Spec

\* rt_mutex_take moves the owner between ready lists and rt_mutex_release moves it
\* back; whether it is READY, waits or sleeps, the lists, the bitmap, the states and the
\* timers agree, and a thread that is back from rt_mutex_take is out of the list.
Undisturbed == TypeOK /\ KernelConsistent /\ BackMeansOut

\* The kernel and the callers agree on who holds what: outside rt_mutex_take a
\* thread owns exactly what its successful takes and releases have left it, so
\* that no two threads ever believe to hold one mutex.
BeliefsTrue ==
  \A t \in Thread, m \in Mutexes :
    pc[t] \notin {"block", "woken"} /\ life[m] = "live" =>
      Cardinality({i \in 1 .. Len(held[t]) : held[t][i] = m})
        = IF mx[m].owner = t THEN mx[m].hold ELSE 0

\* Priority inheritance: with priority-ordered waiters and one mutex at a time
\* an owner is at least as urgent as every thread waiting for it, also right
\* after a hand-over; and no more urgent than that unless a waiter timed out.
Inheritance ==
  use.flag = "PRIO" /\ use.nesting = "flat" /\ ~use.deletes =>
    \A m \in Mutexes : \A o \in Thread : mx[m].owner = o =>
      /\ \A t \in Waiters(m) : k.prio[o] <= k.prio[t]
      /\ use.times = {Forever} =>
           k.prio[o] = Min({InitPriority[o]} \cup {k.prio[t] : t \in Waiters(m)})

\* Inheritance ends: if mutexes are released in the opposite order and not deleted, a
\* thread that owns none has its own priority back, even if the waiter it
\* inherited from has given up.
PriorityRestored ==
  ~use.deletes => \A t \in Thread : Owns(t) = {} => k.prio[t] = InitPriority[t]

\* A hand-over preempts: with no timeouts and one mutex at a time the running
\* thread is always the most urgent one, although rt_mutex_release lowers the
\* priority of the caller and calls rt_schedule only if it woke somebody.
Preemption == use.nesting = "flat" /\ use.times = {Forever} => HighestRuns

\* No unbounded priority inversion: the most urgent thread gets its mutex even if
\* a thread of middle priority never gives up the processor.
UrgentServed ==
  \A t \in Thread, m \in Mutexes :
    InitPriority[t] = 0 => (t \in Waiters(m) ~> t \notin Waiters(m))
=============================================================================
