------------------------------ MODULE Semaphore ------------------------------
(***************************************************************************)
(* A semaphore (src/src/ipc.c) used by threads, whose waiting times may    *)
(* run out, and released from interrupts as well.                          *)
(***************************************************************************)
EXTENDS IPC

CONSTANTS
  Sem,         \* the semaphore, or rather its suspend list
  InitValue,   \* initial values a semaphore is created with
  MaxValue,    \* bound on the value
  MaxLock      \* bound on rt_scheduler_lock_nest

\* sem->value is an rt_uint16_t.
Width == 65536

\* A use may give the values that RT_IPC_CMD_RESET sets, and says whether threads lock
\* the scheduler: "never", without waiting while it is locked ("try"), or "any" way.
ASSUME SemaphoreAssumption ==
  /\ Sem \in WaitList
  /\ InitValue \subseteq Nat /\ InitValue # {}
  /\ \A u \in Uses : u.resets \subseteq Nat /\ u.locks \in {"never", "try", "any"}
  /\ MaxValue \in Nat /\ MaxValue + 1 < Width
  /\ MaxLock \in Nat

VARIABLES
  value,   \* sem->value
  life,    \* "live", "ending" (in rt_sem_delete or rt_sem_detach), "gone"
  queue    \* history: the waiting threads in the order of their arrival

vars == <<k, pc, call, ret, use, value, life, queue>>

Waiters == Range(k.list[Sem])

TypeOK ==
  /\ IpcTypeOK
  /\ value \in 0 .. 65535
  /\ life \in {"live", "ending", "gone"}
  /\ ret \in [Thread -> {"none", "EOK", "ETIMEOUT", "ERROR"}]
  /\ queue \in Seq(Thread)

Init ==
  /\ IpcInit
  /\ value \in InitValue /\ life = "live"
  /\ queue = <<>>

-----------------------------------------------------------------------------
SemTake == [NoCall EXCEPT !.op = "sem_take", !.obj = Sem]

rt_sem_take(t, time) ==
  /\ Runs(t) /\ life = "live"
  /\ \/ /\ value > 0
        /\ value' = value - 1 /\ Return(t, "run", "EOK")
        /\ UNCHANGED k
     \/ /\ value = 0 /\ time = 0
        /\ Return(t, "run", "ETIMEOUT")
        /\ UNCHANGED <<k, value>>
     \/ /\ value = 0 /\ time # 0
        /\ k.lock = 0 \/ use.locks = "any"
        /\ k' = WaitOn(k, Sem, t, use.flag, time)
        /\ Continue(t, "block", SemTake)
        /\ UNCHANGED value
  /\ UNCHANGED life

\* rt_sem_take after rt_schedule has returned.
Taken(t) ==
  /\ At(t, "woken")
  /\ Return(t, "run", k.error[t])
  /\ UNCHANGED <<k, value, life>>

\* rt_sem_release up to its call of rt_schedule.
Release_AlwaysCounts ==
  /\ value < MaxValue /\ value' = (value + 1) % Width
  /\ k' = IF k.list[Sem] # <<>> THEN rt_ipc_list_resume(k, Sem) ELSE k

Release ==
  IF k.list[Sem] # <<>>
    THEN k' = rt_ipc_list_resume(k, Sem) /\ UNCHANGED value
    ELSE value < MaxValue /\ value' = (value + 1) % Width /\ UNCHANGED k

rt_sem_release(t) ==
  /\ Runs(t) /\ life = "live"
  /\ Release
  /\ Goto(t, IF k.list[Sem] # <<>> THEN "sched" ELSE "run")
  /\ UNCHANGED <<call, ret, life>>

\* An interrupt handler that calls rt_sem_release.
DeviceInterrupt ==
  /\ ~k.isr /\ life = "live"
  /\ IF k.list[Sem] # <<>>
       THEN k' = rt_schedule(rt_ipc_list_resume(k, Sem)) /\ UNCHANGED value
       ELSE Release
  /\ UNCHANGED <<pc, call, ret, life>>

\* rt_sem_control(RT_IPC_CMD_RESET)
Reset(t, v) ==
  /\ Runs(t) /\ life = "live"
  /\ k' = rt_ipc_list_resume_all(k, Sem)
  /\ value' = v % Width
  /\ Goto(t, "sched")
  /\ UNCHANGED <<call, ret, life>>

\* rt_sem_delete and rt_sem_detach.
Delete(t) ==
  /\ use.deletes
  /\ Runs(t) /\ life = "live"
  /\ life' = "ending"
  /\ ResumeAllFrom(t, Sem)
  /\ UNCHANGED <<k, value>>

DeleteEnd(t) ==
  /\ ResumeAllDone(t)
  /\ life' = "gone"
  /\ Goto(t, "run") /\ call' = [call EXCEPT ![t] = NoCall]
  /\ UNCHANGED <<k, ret, value>>

\* rt_sem_init, rt_sem_create
Create(t, v) ==
  /\ Runs(t) /\ life = "gone"
  /\ life' = "live" /\ value' = v % Width
  /\ UNCHANGED <<k, pc, call, ret>>

rt_enter_critical(t) ==
  /\ Runs(t) /\ use.locks # "never" /\ k.lock < MaxLock
  /\ k' = [k EXCEPT !.lock = @ + 1]
  /\ UNCHANGED <<pc, call, ret, value, life>>

rt_exit_critical(t) ==
  /\ Runs(t) /\ k.lock > 0
  /\ k' = [k EXCEPT !.lock = @ - 1]
  /\ Goto(t, IF k.lock = 1 THEN "sched" ELSE "run")
  /\ UNCHANGED <<call, ret, value, life>>

Step(t) ==
  \/ \E time \in use.times : rt_sem_take(t, time)
  \/ Taken(t) \/ rt_sem_release(t)
  \/ \E v \in use.resets : Reset(t, v)
  \/ Delete(t) \/ DeleteEnd(t)
  \/ ResumeAllStep(t) /\ UNCHANGED <<value, life>>
  \/ \E v \in InitValue : Create(t, v)
  \/ rt_enter_critical(t) \/ rt_exit_critical(t)

\* The history variable: who has left the list is forgotten, who is new comes
\* last.
Arrivals ==
  LET now == Range(k'.list[Sem])
      still == SelectSeq(queue, LAMBDA t : t \in now)
      new == now \ Range(queue)
  IN queue' = IF new = {} THEN still ELSE Append(still, CHOOSE t \in new : TRUE)

Next ==
  /\ \/ UNCHANGED use /\ \E t \in Thread : Step(t)
     \/ UNCHANGED use /\ DeviceInterrupt
     \/ Processor /\ UNCHANGED <<value, life>>
  /\ Arrivals

Spec == Init /\ [][Next]_vars

\* An interrupt that has been raised stays pending until it is served.
LiveSpec == Spec /\ ProcessorFairness /\ SF_vars(DeviceInterrupt /\ UNCHANGED use /\ Arrivals)

-----------------------------------------------------------------------------
(* Properties.                                                             *)

\* Of each thread: waiting, or how its last take ended or is going to end.
Mapped ==
  [t \in Thread |->
     IF t \in Waiters THEN "waiting"
     ELSE IF pc[t] \in {"block", "woken"} THEN k.error[t]
     ELSE ret[t]]

\* rt_sem_take and rt_sem_release implement a counting semaphore: whatever
\* the order of releases, timeouts and resets, the thread that gets a unit
\* returns RT_EOK, no other one does, and no thread waits while there is one.
Abstract ==
  INSTANCE CountingSemaphore WITH
    resets <- use.resets, st <- Mapped

Implements == Abstract!Spec

\* Whatever takes, releases, resets and deletions do, the kernel below is right: its
\* lists, bitmap, states and timers agree, the most urgent thread runs, and a thread
\* that is back from rt_sem_take is out of the list.
Undisturbed == TypeOK /\ KernelConsistent /\ HighestRuns /\ BackMeansOut

\* The order of service (rt_ipc_list_suspend): first come, first served, or by
\* priority and then first come, first served.
WaitersInOrder ==
  LET w == k.list[Sem]
      came(t) == CHOOSE i \in 1 .. Len(queue) : queue[i] = t
  IN \A i, j \in 1 .. Len(w) : i < j =>
       \/ use.flag = "PRIO" /\ k.prio[w[i]] < k.prio[w[j]]
       \/ (use.flag = "FIFO" \/ k.prio[w[i]] = k.prio[w[j]]) /\ came(w[i]) < came(w[j])

\* When rt_sem_delete or rt_sem_detach has returned, no thread is linked in the
\* list of an object that is gone: whoever was waiting has been resumed.
NobodyLeftBehind == life = "gone" => k.list[Sem] = <<>>

\* A waiter that a deletion sends away finds an error in its control block, and
\* keeps it until rt_sem_take looks there: it never believes it has a unit.
DeletedWaitersTold ==
  [][\A t \in Waiters : life = "ending" /\ t \notin Range(k'.list[Sem])
       => k'.error[t] # "EOK"]_vars

\* In a FIFO semaphore nobody is overtaken for ever: as long as an interrupt
\* keeps releasing it, every waiter gets its turn.
ServedInTurn == \A t \in Thread : t \in Waiters ~> t \notin Waiters
=============================================================================
