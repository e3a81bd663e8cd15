--------------------------- MODULE SemaphoreProofs ---------------------------
(***************************************************************************)
(* Proofs about the semaphore, for every set of threads, priorities, time  *)
(* slices, waiting times and initial values.                               *)
(*                                                                         *)
(* Disciplined leaves out two uses.  A thread that waits with the          *)
(* scheduler locked is linked twice when it waits again (BackMeansOut is   *)
(* false of it).  RT_IPC_CMD_RESET runs a recursive function, which the    *)
(* provers cannot unfold: the runs check it.                               *)
(* A thread that has used the list head as a thread stops at "wild", so    *)
(* the theorems speak of the behaviour up to there.                        *)
(***************************************************************************)
EXTENDS Semaphore, IPCProofs

Disciplined == \A u \in Uses : u.resets = {} /\ u.locks # "any"

Labels == {"run", "sched", "block", "woken", "resume_all", "resume_next", "wild"}

Blocked == {"block", "woken"}
Deleting == {"resume_all", "resume_next"}

\* A thread is READY or in the semaphore's list.  In the list it is inside
\* rt_sem_take, which has cleared its error number.
Waiting(s, p) ==
  /\ \A t \in Thread : s.stat[t] = "READY" \/ t \in Range(s.list[Sem])
  /\ \A t \in Range(s.list[Sem]) : p[t] \in Blocked /\ s.error[t] = "EOK"
  /\ \A h \in WaitList \ {Sem} : Range(s.list[h]) = {}

\* A thread that goes on after rt_schedule in rt_sem_take has been resumed.
Running(s, p) ==
  /\ s.current \in Thread
  /\ p[s.current] = "woken" => s.stat[s.current] = "READY"
  /\ p[s.current] = "block" => s.lock = 0

\* The most urgent thread runs, unless rt_schedule is still to be called.
Chosen(s, p) ==
  s.lock = 0 /\ p[s.current] \notin {"sched", "block"} => s.current = ToThread(s)

\* The callers: at most one thread is in rt_sem_delete.
Callers ==
  /\ pc \in [Thread -> Labels] /\ pc[Idle] = "run"
  /\ DOMAIN call = Thread /\ ret \in [Thread -> {"none", "EOK", "ETIMEOUT", "ERROR"}]
  /\ \A t \in Thread : pc[t] \in Deleting => use.deletes /\ call[t].obj = Sem /\ life = "ending"
  /\ \A t, u \in Thread : pc[t] \in Deleting /\ pc[u] \in Deleting => t = u
\* The inductive invariant.
Inductive ==
  /\ Sound(k) /\ Waiting(k, pc) /\ Running(k, pc) /\ Callers
  /\ use \in Uses /\ value \in Nat
  /\ value > 0 \/ life = "gone" => Waiters = {}
  /\ use.deletes \/ Chosen(k, pc)



\* What every step does.
Told ==
  \A t \in Waiters : life = "ending" /\ t \notin Range(k'.list[Sem]) => k'.error[t] # "EOK"

StepOK == Inductive' /\ [Abstract!Next]_<<value, Mapped, life, use.resets>> /\ Told

-----------------------------------------------------------------------------
(* Steps of the abstract semaphore, in terms of Mapped.                    *)

\* A function changed at one argument.
LEMMA Moved ==
  ASSUME NEW t \in Thread, NEW r, Mapped'[t] = r,
         \A x \in Thread \ {t} : Mapped'[x] = Mapped[x]
  PROVE  Mapped' = [Mapped EXCEPT ![t] = r]
<1>1. Mapped = [x \in Thread |-> Mapped[x]] /\ Mapped' = [x \in Thread |-> Mapped'[x]]
  BY DEF Mapped
<1> HIDE DEF Mapped
<1> QED BY <1>1

\* A function that nowhere changes.
LEMMA NotMoved ==
  ASSUME \A x \in Thread : Mapped'[x] = Mapped[x]
  PROVE  Mapped' = Mapped
<1>1. Mapped = [x \in Thread |-> Mapped[x]] /\ Mapped' = [x \in Thread |-> Mapped'[x]]
  BY DEF Mapped
<1> HIDE DEF Mapped
<1> QED BY <1>1

\* The values of Mapped; nobody but a waiter counts as waiting.
LEMMA MappedValues ==
  ASSUME Inductive, NEW t \in Thread
  PROVE  /\ t \in Waiters => Mapped[t] = "waiting"
         /\ t \notin Waiters /\ pc[t] \in Blocked => Mapped[t] = k.error[t]
         /\ t \notin Waiters /\ pc[t] \notin Blocked => Mapped[t] = ret[t]
         /\ t \notin Waiters => Mapped[t] # "waiting"
<1>1. k.error[t] # "waiting" /\ ret[t] # "waiting"
  BY FieldTypes DEF Inductive, Callers, Sound, Error
<1> QED BY <1>1 DEF Mapped, Blocked

\* The values of Mapped after a step.
LEMMA MappedNext ==
  ASSUME NEW t \in Thread
  PROVE  /\ t \in Range(k'.list[Sem]) => Mapped'[t] = "waiting"
         /\ t \notin Range(k'.list[Sem]) /\ pc'[t] \in Blocked => Mapped'[t] = k'.error[t]
         /\ t \notin Range(k'.list[Sem]) /\ pc'[t] \notin Blocked => Mapped'[t] = ret'[t]
BY DEF Mapped, Blocked, Waiters

\* The abstract semaphore's actions that end a take or begin to wait.
LEMMA AbstractSteps ==
  ASSUME NEW t \in Thread, NEW r, Mapped' = [Mapped EXCEPT ![t] = r],
         UNCHANGED <<life, use>>,
         \/ life = "live" /\ Mapped[t] # "waiting" /\ r = "EOK" /\ value > 0 /\ value' = value - 1
         \/ life = "live" /\ Mapped[t] # "waiting" /\ r \in {"ETIMEOUT", "waiting"}
              /\ value = 0 /\ value' = value
         \/ Mapped[t] = "waiting" /\ r = "ETIMEOUT" /\ value' = value
         \/ life = "ending" /\ Mapped[t] = "waiting" /\ r = "ERROR" /\ value' = value
         \/ life = "live" /\ Mapped[t] = "waiting" /\ r = "EOK" /\ value' = value
  PROVE  Abstract!Next
<1>0. UNCHANGED use.resets
  OBVIOUS
<1>1. t \in Abstract!Waiting <=> Mapped[t] = "waiting"
  BY DEF Abstract!Waiting, Mapped
<1>2. Abstract!Ends(t, r)
  BY DEF Abstract!Ends, Mapped
<1>3. CASE life = "live" /\ Mapped[t] # "waiting" /\ r = "EOK" /\ value > 0 /\ value' = value - 1
  <2>1. Abstract!TakeUnit(t)
    BY <1>1, <1>2, <1>3 DEF Abstract!TakeUnit
  <2> QED BY <2>1, <1>0, Zenon DEF Abstract!Next
<1>4. CASE life = "live" /\ Mapped[t] # "waiting" /\ r = "ETIMEOUT" /\ value = 0 /\ value' = value
  <2>1. Abstract!TakeFails(t)
    BY <1>1, <1>2, <1>4 DEF Abstract!TakeFails
  <2> QED BY <2>1, <1>0, Zenon DEF Abstract!Next
<1>5. CASE life = "live" /\ Mapped[t] # "waiting" /\ r = "waiting" /\ value = 0 /\ value' = value
  <2>1. Abstract!Wait(t)
    BY <1>1, <1>2, <1>5 DEF Abstract!Wait, Abstract!Ends
  <2> QED BY <2>1, <1>0, Zenon DEF Abstract!Next
<1>6. CASE Mapped[t] = "waiting" /\ r = "ETIMEOUT" /\ value' = value
  <2>1. Abstract!Timeout(t)
    BY <1>1, <1>2, <1>6 DEF Abstract!Timeout
  <2> QED BY <2>1, <1>0, Zenon DEF Abstract!Next
<1>7. CASE life = "ending" /\ Mapped[t] = "waiting" /\ r = "ERROR" /\ value' = value
  <2>1. Abstract!GiveUp(t)
    BY <1>1, <1>2, <1>7 DEF Abstract!GiveUp
  <2> QED BY <2>1, <1>0, Zenon DEF Abstract!Next
<1>8. CASE life = "live" /\ Mapped[t] = "waiting" /\ r = "EOK" /\ value' = value
  <2>1. Abstract!Release
    BY <1>1, <1>2, <1>8 DEF Abstract!Release
  <2> QED BY <2>1, <1>0, Zenon DEF Abstract!Next
<1> QED BY <1>3, <1>4, <1>5, <1>6, <1>7, <1>8

\* A unit that nobody waits for, the two ends of a deletion, and a creation.
LEMMA AbstractUnits ==
  ASSUME Inductive, Mapped' = Mapped, UNCHANGED use,
         \/ life = "live" /\ life' = life /\ Waiters = {} /\ value' = value + 1
         \/ life = "live" /\ life' = "ending" /\ value' = value
         \/ life = "ending" /\ life' = "gone" /\ Waiters = {} /\ value' = value
         \/ life = "gone" /\ life' = "live" /\ value' \in Nat
  PROVE  Abstract!Next
<1>0. UNCHANGED use.resets
  OBVIOUS
<1>1. Waiters = {} => Abstract!Waiting = {}
  <2>1. \A t \in Thread : t \notin Waiters => Mapped[t] # "waiting"
    BY MappedValues
  <2> QED BY <2>1 DEF Abstract!Waiting, Mapped
<1>2. CASE life = "live" /\ life' = life /\ Waiters = {} /\ value' = value + 1
  <2>1. Abstract!Release
    BY <1>1, <1>2 DEF Abstract!Release, Mapped
  <2> QED BY <2>1, <1>0, Zenon DEF Abstract!Next
<1>3. CASE life = "live" /\ life' = "ending" /\ value' = value
  <2>1. Abstract!Delete
    BY <1>3 DEF Abstract!Delete, Mapped
  <2> QED BY <2>1, <1>0, Zenon DEF Abstract!Next
<1>4. CASE life = "ending" /\ life' = "gone" /\ Waiters = {} /\ value' = value
  <2>1. Abstract!DeleteEnd
    BY <1>1, <1>4 DEF Abstract!DeleteEnd, Mapped
  <2> QED BY <2>1, <1>0, Zenon DEF Abstract!Next
<1>5. CASE life = "gone" /\ life' = "live" /\ value' \in Nat
  <2>1. Abstract!Create
    BY <1>5 DEF Abstract!Create, Mapped
  <2> QED BY <2>1, <1>0, Zenon DEF Abstract!Next
<1> QED BY <1>2, <1>3, <1>4, <1>5

-----------------------------------------------------------------------------
(* What the steps have in common.                                          *)

\* What is assumed of the constants, one by one.
LEMMA SemConstants ==
  Sem \in WaitList /\ InitValue \subseteq Nat /\ MaxValue \in Nat /\ MaxValue + 1 < Width
BY SemaphoreAssumption

\* Counting in 16 bits.
LEMMA Counting ==
  ASSUME NEW n \in Nat
  PROVE  n % Width \in Nat /\ (n < Width => n % Width = n)
BY SMT DEF Width

\* A unit is counted within the bound.
LEMMA Unit ==
  ASSUME NEW n \in Nat, n < MaxValue
  PROVE  (n + 1) % Width = n + 1 /\ n + 1 \in Nat
<1>1. n + 1 \in Nat /\ n + 1 < Width
  <2>1. MaxValue \in Nat /\ MaxValue + 1 < Width /\ Width \in Nat
    BY SemConstants DEF Width
  <2> QED BY <2>1, SMT
<1> QED BY <1>1, Counting, Zenon

\* The threads of the list; whoever is not in it is READY, as the idle thread.
LEMMA Population ==
  ASSUME Inductive
  PROVE  /\ Waiters \in SUBSET Thread
         /\ \A t \in Thread : t \in Waiters <=> k.stat[t] = "SUSPEND"
         /\ \A t \in Thread : t \notin Waiters <=> k.stat[t] = "READY"
         /\ Idle \in Thread /\ k.stat[Idle] = "READY"
         /\ k \in KernelState /\ Sem \in ListHead /\ k.list[Sem] \in Seq(Thread)
         /\ k.list[Sem] = <<>> <=> Waiters = {}
         /\ k.list[Sem] # <<>> => Head(k.list[Sem]) \in Waiters
<1>1. k \in KernelState /\ Sem \in ListHead /\ Sem \in WaitList
  BY SemConstants, Heads DEF Inductive, Sound
<1>2. Waiters \in SUBSET Thread /\ k.list[Sem] \in Seq(Thread)
  BY <1>1, RangesAreThreads, FieldTypes DEF Waiters
<1>3. \A t \in Waiters : k.stat[t] = "SUSPEND"
  BY <1>1 DEF Inductive, Sound, OtherLists, Waiters
<1>4. \A t \in Thread : k.stat[t] = "READY" \/ t \in Waiters
  BY DEF Inductive, Waiting, Waiters
<1>5. Idle \in Thread /\ Idle \notin Waiters
  BY KernelAssumption DEF Inductive, Waiting, Waiters, Callers, Blocked
<1>6. /\ k.list[Sem] = <<>> <=> Waiters = {}
      /\ k.list[Sem] # <<>> => Head(k.list[Sem]) \in Waiters
  BY <1>2, EmptyOrHead DEF Waiters
<1> QED BY <1>1, <1>2, <1>3, <1>4, <1>5, <1>6

\* A thread that runs and is at l calls from outside the list, is READY and is
\* not the idle thread.
LEMMA Caller ==
  ASSUME Inductive, NEW t, NEW l \in Labels \ {"block"}, At(t, l)
  PROVE  t \in Thread /\ t \notin Waiters /\ k.stat[t] = "READY" /\ (l # "run" => t # Idle)
<1>1. t \in Thread /\ pc[t] = l /\ k.current = t
  BY DEF At, Inductive, Running
<1>2. t \in Waiters => l = "woken"
  BY <1>1 DEF Inductive, Waiting, Waiters, Blocked
<1>3. t \notin Waiters
  BY <1>1, <1>2, Population DEF Inductive, Running
<1> QED BY <1>1, <1>3, Population DEF Inductive, Callers

\* A step of one thread that starts or ends no deletion.
LEMMA CallersStep ==
  ASSUME Inductive, UNCHANGED <<use, life>>, NEW t \in Thread, t # Idle, NEW l \in Labels,
         l \in Deleting => pc[t] \in Deleting /\ call' = call,
         pc' = [pc EXCEPT ![t] = l],
         call' = call \/ \E c : call' = [call EXCEPT ![t] = c],
         ret' = ret \/ \E r \in {"none", "EOK", "ETIMEOUT", "ERROR"} : ret' = [ret EXCEPT ![t] = r]
  PROVE  Callers'
<1>1. Callers
  BY DEF Inductive
<1>2. pc' \in [Thread -> Labels] /\ pc'[Idle] = "run"
  BY <1>1 DEF Callers
<1>3. DOMAIN call' = Thread /\ \A x \in Thread \ {t} : call'[x] = call[x]
  BY <1>1 DEF Callers
<1>4. ret' \in [Thread -> {"none", "EOK", "ETIMEOUT", "ERROR"}]
  BY <1>1 DEF Callers
<1>5. \A x \in Thread : pc'[x] \in Deleting => pc[x] \in Deleting /\ call'[x] = call[x]
  BY <1>1, <1>3 DEF Callers
<1>6. \A x \in Thread : pc'[x] \in Deleting => use'.deletes /\ call'[x].obj = Sem /\ life' = "ending"
  BY <1>1, <1>5 DEF Callers
<1>7. \A x, y \in Thread : pc'[x] \in Deleting /\ pc'[y] \in Deleting => x = y
  BY <1>1, <1>5 DEF Callers
<1> QED BY <1>2, <1>3, <1>4, <1>6, <1>7, Zenon DEF Callers

\* Nobody enters or leaves the list, and whoever is in it stays blocked.
LEMMA NobodyMoves ==
  ASSUME Inductive,
         \A x \in Thread : k'.stat[x] = k.stat[x] /\ k'.error[x] = k.error[x],
         \A h \in WaitList : Range(k'.list[h]) = Range(k.list[h]),
         \A x \in Waiters : pc'[x] \in Blocked
  PROVE  Waiting(k', pc') /\ Told /\ Waiters' = Waiters
<1>1. Sem \in WaitList /\ Waiters \in SUBSET Thread
  BY SemConstants, Population
<1>2. Range(k'.list[Sem]) = Waiters /\ Waiting(k, pc)
  BY <1>1 DEF Waiters, Inductive
<1>3. Waiting(k', pc')
  BY <1>1, <1>2 DEF Waiting, Waiters
<1> QED BY <1>2, <1>3 DEF Told, Waiters

\* Then the abstract semaphore sees a change only in what threads return.
LEMMA NobodyMapped ==
  ASSUME Inductive, NEW t \in Thread,
         \A x \in Thread : k'.error[x] = k.error[x],
         Waiters' = Waiters, t \notin Waiters,
         \A x \in Thread \ {t} : (pc'[x] \in Blocked <=> pc[x] \in Blocked) /\ ret'[x] = ret[x]
  PROVE  \A x \in Thread \ {t} : Mapped'[x] = Mapped[x]
<1>1. Range(k'.list[Sem]) = Waiters
  BY DEF Waiters
<1> QED BY <1>1, MappedValues, MappedNext

\* The first thread of the list, or one whose time is over, leaves it.
LEMMA OneLeaves ==
  ASSUME Inductive, NEW t \in Waiters, Leaves(k', k, t), k'.stat[t] = "READY",
         k'.error[t] \in Error,
         \A x \in Thread \ {t} : k'.stat[x] = k.stat[x] /\ k'.error[x] = k.error[x],
         \A x \in Thread : pc'[x] \in Blocked <=> pc[x] \in Blocked,
         ret' = ret
  PROVE  /\ Waiting(k', pc') /\ Waiters' = Waiters \ {t}
         /\ Mapped' = [Mapped EXCEPT ![t] = k'.error[t]]
         /\ Mapped[t] = "waiting"
         /\ life # "ending" \/ k'.error[t] # "EOK" => Told
<1>1. Sem \in WaitList /\ Waiters \in SUBSET Thread /\ t \in Thread
  BY SemConstants, Population
<1>2. Range(k'.list[Sem]) = Waiters \ {t} /\ Waiting(k, pc)
  BY <1>1 DEF Waiters, Leaves, Inductive
<1>3. Waiting(k', pc')
  <2>1. \A x \in Thread : k'.stat[x] = "READY" \/ x \in Range(k'.list[Sem])
    BY <1>1, <1>2 DEF Waiting, Waiters
  <2>2. \A x \in Range(k'.list[Sem]) : pc'[x] \in Blocked /\ k'.error[x] = "EOK"
    BY <1>1, <1>2 DEF Waiting, Waiters
  <2>3. \A h \in WaitList \ {Sem} : Range(k'.list[h]) = {}
    BY <1>2 DEF Waiting, Leaves
  <2> QED BY <2>1, <2>2, <2>3 DEF Waiting
<1>4. pc[t] \in Blocked
  BY <1>2 DEF Waiting, Waiters
<1>5. Mapped'[t] = k'.error[t] /\ Mapped[t] = "waiting"
  BY <1>1, <1>2, <1>4, MappedNext, MappedValues
<1>6. ASSUME NEW x \in Thread \ {t} PROVE Mapped'[x] = Mapped[x]
  <2>1. x \in Range(k'.list[Sem]) <=> x \in Waiters
    BY <1>2
  <2> QED BY <2>1, MappedNext, MappedValues
<1>7. life # "ending" \/ k'.error[t] # "EOK" => Told
  BY <1>2 DEF Told
<1> QED BY <1>1, <1>2, <1>3, <1>5, <1>6, <1>7, Moved DEF Waiters

-----------------------------------------------------------------------------
(* The steps, one by one.                                                  *)

\* A thread goes from one place outside rt_schedule to another, and the kernel
\* state stays what it is.
LEMMA KernelStays ==
  ASSUME Inductive, UNCHANGED <<k, use>>, NEW t, NEW l \in Labels \ {"block", "sched"}, At(t, l),
         NEW m \in Labels \ Blocked, pc' = [pc EXCEPT ![t] = m]
  PROVE  /\ Sound(k') /\ Waiting(k', pc') /\ Running(k', pc') /\ Told /\ Waiters' = Waiters
         /\ use'.deletes \/ Chosen(k', pc')
<1>1. t \in Thread /\ t \notin Waiters /\ k.current = t /\ pc[t] = l
  BY Caller DEF At
<1>2. Callers /\ Sound(k) /\ Running(k, pc) /\ Waiting(k, pc)
  BY DEF Inductive
<1>3. pc'[t] = m /\ \A x \in Thread \ {t} : pc'[x] = pc[x]
  BY <1>1, <1>2 DEF Callers
<1>4. \A x \in Waiters : pc'[x] \in Blocked
  BY <1>1, <1>2, <1>3, Population DEF Waiting, Waiters
<1>5. Waiting(k', pc') /\ Told /\ Waiters' = Waiters
  BY <1>4, NobodyMoves
<1>6. Running(k', pc')
  BY <1>1, <1>3 DEF Running, Blocked
<1>7. use'.deletes \/ Chosen(k', pc')
  BY <1>1 DEF Inductive, Chosen
<1> QED BY <1>2, <1>5, <1>6, <1>7

\* rt_sem_take.
LEMMA TakeOK ==
  ASSUME Inductive, Disciplined, UNCHANGED use, NEW t \in Thread, NEW time \in use.times, rt_sem_take(t, time)
  PROVE  StepOK
<1>0. /\ At(t, "run") /\ t # Idle /\ life = "live" /\ UNCHANGED life
      /\ "run" \in Labels \ {"block", "sched"} /\ "run" \in Labels \ Blocked
      /\ "block" \in Labels \ Deleting /\ "run" \notin Deleting
  BY DEF rt_sem_take, Runs, Labels, Blocked, Deleting
<1>1. t \notin Waiters /\ k.stat[t] = "READY" /\ k.current = t /\ pc[t] = "run"
  BY <1>0, Caller DEF At
<1>2. Callers /\ value \in Nat /\ use \in Uses
  BY DEF Inductive
<1>3. Mapped[t] # "waiting"
  BY <1>1, MappedValues
<1>4. ASSUME NEW r \in {"EOK", "ETIMEOUT"}, Return(t, "run", r), UNCHANGED k, value' \in Nat,
             value' <= value
      PROVE  Inductive' /\ Told /\ Mapped' = [Mapped EXCEPT ![t] = r]
  <2>1. /\ pc' = [pc EXCEPT ![t] = "run"] /\ call' = [call EXCEPT ![t] = NoCall]
        /\ ret' = [ret EXCEPT ![t] = r]
    BY <1>4 DEF Return, Goto
  <2>2. /\ Sound(k') /\ Waiting(k', pc') /\ Running(k', pc') /\ Told /\ Waiters' = Waiters
        /\ use'.deletes \/ Chosen(k', pc')
    BY <1>0, <1>4, <2>1, KernelStays
  <2>3. Callers'
    BY <1>0, <2>1, CallersStep
  <2>4. value' > 0 \/ life' = "gone" => Waiters' = {}
    BY <1>0, <1>2, <1>4, <2>2 DEF Inductive
  <2>5. Inductive'
    BY <1>2, <1>4, <2>2, <2>3, <2>4 DEF Inductive
  <2>6. /\ pc'[t] = "run" /\ ret'[t] = r
        /\ \A x \in Thread \ {t} : pc'[x] = pc[x] /\ ret'[x] = ret[x]
    BY <1>2, <2>1 DEF Callers
  <2>7. Mapped'[t] = r
    BY <1>0, <1>1, <2>2, <2>6, MappedNext DEF Waiters
  <2>8. \A x \in Thread \ {t} : Mapped'[x] = Mapped[x]
    BY <1>1, <1>4, <2>2, <2>6, NobodyMapped
  <2> QED BY <2>2, <2>5, <2>7, <2>8, Moved
<1>5. CASE value > 0 /\ value' = value - 1 /\ Return(t, "run", "EOK") /\ UNCHANGED k
  <2>1. value' \in Nat /\ value' <= value
    BY <1>2, <1>5
  <2>2. Inductive' /\ Told /\ Mapped' = [Mapped EXCEPT ![t] = "EOK"]
    BY <2>1, <1>4, <1>5
  <2>3. Abstract!Next
    BY <2>2, <1>0, <1>3, <1>5, AbstractSteps
  <2> QED BY <2>2, <2>3 DEF StepOK
<1>6. CASE value = 0 /\ Return(t, "run", "ETIMEOUT") /\ UNCHANGED <<k, value>>
  <2>2. Inductive' /\ Told /\ Mapped' = [Mapped EXCEPT ![t] = "ETIMEOUT"]
    BY <1>2, <1>4, <1>6
  <2>3. Abstract!Next
    BY <2>2, <1>0, <1>3, <1>6, AbstractSteps
  <2> QED BY <2>2, <2>3 DEF StepOK
<1>7. CASE /\ value = 0 /\ (k.lock = 0 \/ use.locks = "any")
           /\ k' = WaitOn(k, Sem, t, use.flag, time) /\ Continue(t, "block", SemTake)
           /\ UNCHANGED value
  <2>1. pc' = [pc EXCEPT ![t] = "block"] /\ call' = [call EXCEPT ![t] = SemTake] /\ ret' = ret
    BY <1>7 DEF Continue, Goto
  <2>2. k.lock = 0 /\ time \in Int
    BY <1>2, <1>7, IPCAssumption DEF Disciplined, Forever
  <2>3. /\ Sound(k') /\ Others(k', k, t) /\ k'.stat[t] = "SUSPEND" /\ k'.error[t] = "EOK"
        /\ Joins(k', k, Sem, t)
    <3>1. Sound(k) /\ Sem \in WaitList
      BY SemConstants DEF Inductive
    <3> QED BY <3>1, <2>2, <1>1, <1>7, WaitOnEffect
  <2>4. Range(k'.list[Sem]) = Waiters \cup {t} /\ Waiting(k, pc)
        /\ \A h \in WaitList \ {Sem} : Range(k'.list[h]) = Range(k.list[h])
    BY <2>3 DEF Joins, Waiters, Inductive
  <2>5. pc'[t] = "block" /\ \A x \in Thread \ {t} : pc'[x] = pc[x]
    BY <1>2, <2>1 DEF Callers
  <2>6. k'.current = t /\ k'.lock = 0
        /\ \A x \in Thread \ {t} : k'.stat[x] = k.stat[x] /\ k'.error[x] = k.error[x]
    BY <1>1, <2>2, <2>3 DEF Others
  <2>7. Waiting(k', pc')
    <3>1. \A x \in Thread : k'.stat[x] = "READY" \/ x \in Range(k'.list[Sem])
      BY <2>4, <2>6 DEF Waiting, Waiters
    <3>2. ASSUME NEW x \in Range(k'.list[Sem]) PROVE pc'[x] \in Blocked /\ k'.error[x] = "EOK"
      BY <2>3, <2>4, <2>5, <2>6, Population DEF Waiting, Waiters, Blocked
    <3>3. \A h \in WaitList \ {Sem} : Range(k'.list[h]) = {}
      BY <2>4 DEF Waiting
    <3> QED BY <3>1, <3>2, <3>3 DEF Waiting
  <2>8. Running(k', pc') /\ Chosen(k', pc')
    BY <2>5, <2>6 DEF Running, Chosen
  <2>9. Callers'
    BY <1>0, <2>1, CallersStep
  <2>10. Inductive'
    BY <1>0, <1>2, <1>7, <2>3, <2>7, <2>8, <2>9 DEF Inductive
  <2>11. Told
    BY <2>4 DEF Told
  <2>12. Mapped' = [Mapped EXCEPT ![t] = "waiting"]
    <3>1. Mapped'[t] = "waiting"
      BY <2>4, MappedNext
    <3>2. ASSUME NEW x \in Thread \ {t} PROVE Mapped'[x] = Mapped[x]
      <4>1. (x \in Range(k'.list[Sem]) <=> x \in Waiters) /\ k'.error[x] = k.error[x]
            /\ pc'[x] = pc[x] /\ ret'[x] = ret[x]
        BY <2>1, <2>4, <2>5, <2>6
      <4> QED BY <4>1, MappedNext, MappedValues
    <3> QED BY <3>1, <3>2, Moved
  <2>13. Abstract!Next
    BY <2>12, <1>0, <1>3, <1>7, AbstractSteps
  <2> QED BY <2>10, <2>11, <2>13 DEF StepOK
<1> QED BY <1>5, <1>6, <1>7 DEF rt_sem_take

\* rt_sem_take after rt_schedule has returned.
LEMMA TakenOK ==
  ASSUME Inductive, UNCHANGED use, NEW t \in Thread, Taken(t)
  PROVE  StepOK
<1>0. /\ At(t, "woken") /\ UNCHANGED <<k, value, life>> /\ Return(t, "run", k.error[t])
      /\ "woken" \in Labels \ {"block", "sched"} /\ "run" \in Labels \ Blocked
      /\ "run" \notin Deleting
  BY DEF Taken, Labels, Blocked, Deleting
<1>1. t \notin Waiters /\ t # Idle /\ pc[t] = "woken"
  BY <1>0, Caller DEF At
<1>2. Callers /\ k.error[t] \in {"EOK", "ETIMEOUT", "ERROR"}
  BY FieldTypes DEF Inductive, Sound, Error
<1>3. /\ pc' = [pc EXCEPT ![t] = "run"] /\ call' = [call EXCEPT ![t] = NoCall]
      /\ ret' = [ret EXCEPT ![t] = k.error[t]]
  BY <1>0 DEF Return, Goto
<1>4. /\ Sound(k') /\ Waiting(k', pc') /\ Running(k', pc') /\ Told /\ Waiters' = Waiters
      /\ use'.deletes \/ Chosen(k', pc')
  BY <1>0, <1>3, KernelStays
<1>5. Callers'
  BY <1>0, <1>1, <1>2, <1>3, CallersStep
<1>6. Inductive'
  BY <1>0, <1>4, <1>5 DEF Inductive
<1>7. /\ pc'[t] = "run" /\ ret'[t] = k.error[t]
      /\ \A x \in Thread \ {t} : pc'[x] = pc[x] /\ ret'[x] = ret[x]
  BY <1>2, <1>3 DEF Callers
<1>8. Mapped'[t] = Mapped[t]
  <2>1. Mapped'[t] = ret'[t]
    BY <1>0, <1>1, <1>4, <1>7, MappedNext DEF Waiters
  <2>2. Mapped[t] = k.error[t]
    BY <1>1, MappedValues DEF Blocked
  <2> QED BY <2>1, <2>2, <1>7
<1>9. \A x \in Thread \ {t} : Mapped'[x] = Mapped[x]
  BY <1>0, <1>1, <1>4, <1>7, NobodyMapped
<1>10. Mapped' = Mapped
  BY <1>8, <1>9, NotMoved
<1> QED BY <1>0, <1>4, <1>6, <1>10 DEF StepOK

\* A thread's label changes and neither the list nor any result does.
LEMMA OnlyLabel ==
  ASSUME Inductive, NEW t \in Thread, t \notin Waiters, pc[t] \notin Blocked,
         \A x \in Thread : k'.error[x] = k.error[x],
         Waiters' = Waiters, ret' = ret, NEW m, m \notin Blocked, pc' = [pc EXCEPT ![t] = m]
  PROVE  Mapped' = Mapped
<1>1. pc'[t] = m /\ \A x \in Thread \ {t} : pc'[x] = pc[x]
  BY DEF Inductive, Callers
<1>2. Mapped'[t] = Mapped[t]
  BY <1>1, MappedNext, MappedValues DEF Waiters
<1>3. \A x \in Thread \ {t} : Mapped'[x] = Mapped[x]
  BY <1>1, NobodyMapped
<1> QED BY <1>2, <1>3, NotMoved

\* rt_sem_release: a waiter is resumed, or a unit is counted.
LEMMA ReleaseOK ==
  ASSUME Inductive, UNCHANGED use, NEW t \in Thread, rt_sem_release(t)
  PROVE  StepOK
<1>0. /\ At(t, "run") /\ t # Idle /\ life = "live" /\ Release
      /\ Goto(t, IF k.list[Sem] # <<>> THEN "sched" ELSE "run") /\ UNCHANGED <<call, ret, life>>
      /\ "run" \in Labels \ {"block", "sched"} /\ "run" \in Labels \ Blocked
      /\ "sched" \in Labels \ Blocked /\ "run" \notin Deleting /\ "sched" \notin Deleting
  BY DEF rt_sem_release, Runs, Labels, Blocked, Deleting
<1>1. t \notin Waiters /\ k.current = t /\ pc[t] = "run"
  BY <1>0, Caller DEF At
<1>2. Callers /\ value \in Nat /\ use \in Uses
  BY DEF Inductive
<1>3. CASE k.list[Sem] = <<>>
  <2>1. /\ value < MaxValue /\ value' = (value + 1) % Width /\ UNCHANGED k
        /\ pc' = [pc EXCEPT ![t] = "run"]
    BY <1>0, <1>3 DEF Release, Goto
  <2>2. value' = value + 1 /\ value' \in Nat
    BY <1>2, <2>1, Unit
  <2>3. /\ Sound(k') /\ Waiting(k', pc') /\ Running(k', pc') /\ Told /\ Waiters' = Waiters
        /\ use'.deletes \/ Chosen(k', pc')
    BY <1>0, <2>1, KernelStays
  <2>4. Callers'
    BY <1>0, <2>1, CallersStep
  <2>5. Waiters = {}
    BY <1>3, Population
  <2>6. Inductive'
    BY <1>0, <1>2, <2>2, <2>3, <2>4, <2>5 DEF Inductive
  <2>7. Mapped' = Mapped
    BY <1>0, <1>1, <2>1, <2>3, OnlyLabel
  <2>8. Abstract!Next
    BY <1>0, <2>2, <2>5, <2>7, AbstractUnits
  <2> QED BY <2>3, <2>6, <2>8 DEF StepOK
<1>4. CASE k.list[Sem] # <<>>
  <2> DEFINE w == Head(k.list[Sem])
  <2>1. k' = rt_thread_resume(k, w) /\ UNCHANGED value /\ pc' = [pc EXCEPT ![t] = "sched"]
    BY <1>0, <1>4 DEF Release, Goto, rt_ipc_list_resume
  <2>2. w \in Waiters /\ w \in Thread /\ k.stat[w] = "SUSPEND" /\ Sound(k)
    BY <1>4, Population DEF Inductive
  <2> HIDE DEF w
  <2>3. /\ Sound(k') /\ Others(k', k, w) /\ Leaves(k', k, w) /\ k'.stat[w] = "READY"
        /\ k'.error = k.error
    BY <2>1, <2>2, ResumeEffect
  <2>4. k'.error[w] = "EOK" /\ value = 0
    BY <1>2, <2>2, <2>3 DEF Inductive, Waiting, Waiters
  <2>5. pc'[t] = "sched" /\ \A x \in Thread \ {t} : pc'[x] = pc[x]
    BY <1>2, <2>1 DEF Callers
  <2>6. \A x \in Thread : pc'[x] \in Blocked <=> pc[x] \in Blocked
    BY <1>0, <1>1, <2>5
  <2>7. k'.error[w] \in Error
        /\ \A x \in Thread \ {w} : k'.stat[x] = k.stat[x] /\ k'.error[x] = k.error[x]
    BY <2>3, <2>4 DEF Others, Error
  <2>8. /\ Waiting(k', pc') /\ Told
        /\ Mapped' = [Mapped EXCEPT ![w] = "EOK"] /\ Mapped[w] = "waiting"
    BY <1>0, <2>2, <2>3, <2>4, <2>6, <2>7, OneLeaves
  <2>9. Running(k', pc') /\ Chosen(k', pc')
    BY <1>1, <2>3, <2>5 DEF Others, Running, Chosen
  <2>10. Callers'
    BY <1>0, <2>1, CallersStep
  <2>11. Inductive'
    BY <1>0, <1>2, <2>1, <2>3, <2>4, <2>8, <2>9, <2>10 DEF Inductive
  <2>12. Abstract!Next
    BY <1>0, <2>1, <2>2, <2>8, AbstractSteps
  <2> QED BY <2>8, <2>11, <2>12 DEF StepOK
<1> QED BY <1>3, <1>4

\* An interrupt handler that calls rt_sem_release.
LEMMA InterruptOK ==
  ASSUME Inductive, UNCHANGED use, DeviceInterrupt
  PROVE  StepOK
<1>0. life = "live" /\ UNCHANGED <<pc, call, ret, life>>
  BY DEF DeviceInterrupt
<1>2. Callers /\ value \in Nat /\ use \in Uses /\ Running(k, pc)
  BY DEF Inductive
<1>3. Callers'
  BY <1>0, <1>2, Zenon DEF Callers
<1>4. CASE k.list[Sem] = <<>>
  <2>1. value < MaxValue /\ value' = (value + 1) % Width /\ UNCHANGED k
    BY <1>4 DEF Release, DeviceInterrupt
  <2>2. value' = value + 1 /\ value' \in Nat
    BY <1>2, <2>1, Unit
  <2>3. Waiters = {} /\ Waiters' = Waiters /\ Mapped' = Mapped
    BY <1>0, <1>4, <2>1, Population DEF Waiters, Mapped
  <2>4. Inductive'
    BY <1>0, <1>3, <2>1, <2>2, <2>3 DEF Inductive
  <2>5. Abstract!Next
    BY <1>0, <2>2, <2>3, AbstractUnits
  <2> QED BY <2>3, <2>4, <2>5 DEF StepOK, Told
<1>5. CASE k.list[Sem] # <<>>
  <2> DEFINE w == Head(k.list[Sem])
             r == rt_thread_resume(k, w)
  <2>1. k' = rt_schedule(r) /\ UNCHANGED value
    BY <1>5 DEF DeviceInterrupt, rt_ipc_list_resume
  <2>2. w \in Waiters /\ w \in Thread /\ k.stat[w] = "SUSPEND" /\ Sound(k)
    BY <1>5, Population DEF Inductive
  <2> HIDE DEF w
  <2>3. /\ Sound(r) /\ Others(r, k, w) /\ Leaves(r, k, w) /\ r.stat[w] = "READY"
        /\ r.error = k.error
    BY <2>2, ResumeEffect
  <2> HIDE DEF r
  <2>4. /\ Sound(k') /\ k'.list = r.list /\ k'.stat = r.stat /\ k'.error = r.error
        /\ k'.lock = r.lock
        /\ r.lock = 0 => /\ k'.current = ToThread(k')
                         /\ k'.current \in Thread /\ k'.stat[k'.current] = "READY"
        /\ r.lock # 0 => k'.current = r.current
    BY <2>1, <2>2, <2>3, ScheduleEffect
  <2>5. k'.error[w] = "EOK" /\ value = 0 /\ k.lock = r.lock /\ k.current = r.current
    BY <1>2, <2>2, <2>3, <2>4 DEF Inductive, Waiting, Waiters, Others
  <2>6. /\ Leaves(k', k, w) /\ k'.stat[w] = "READY" /\ k'.error[w] \in Error
        /\ \A x \in Thread \ {w} : k'.stat[x] = k.stat[x] /\ k'.error[x] = k.error[x]
    BY <2>3, <2>4, <2>5 DEF Leaves, Others, Error
  <2>7. /\ Waiting(k', pc') /\ Told
        /\ Mapped' = [Mapped EXCEPT ![w] = "EOK"] /\ Mapped[w] = "waiting"
    BY <1>0, <2>2, <2>5, <2>6, OneLeaves
  <2>8. Running(k', pc') /\ Chosen(k', pc')
    <3>1. CASE k.lock = 0
      BY <3>1, <2>4, <2>5 DEF Running, Chosen
    <3>2. CASE k.lock # 0
      BY <3>2, <1>0, <1>2, <2>2, <2>4, <2>5, <2>6 DEF Running, Chosen
    <3> QED BY <3>1, <3>2
  <2>9. Inductive'
    BY <1>0, <1>2, <1>3, <2>1, <2>4, <2>5, <2>7, <2>8 DEF Inductive
  <2>10. Abstract!Next
    BY <1>0, <2>1, <2>2, <2>7, AbstractSteps
  <2> QED BY <2>7, <2>9, <2>10 DEF StepOK
<1> QED BY <1>4, <1>5

\* rt_sem_delete and rt_sem_detach begin.
LEMMA DeleteOK ==
  ASSUME Inductive, UNCHANGED use, NEW t \in Thread, Delete(t)
  PROVE  StepOK
<1> DEFINE c == [NoCall EXCEPT !.op = "delete", !.obj = Sem]
<1>0. /\ At(t, "run") /\ t # Idle /\ life = "live" /\ life' = "ending" /\ use.deletes
      /\ pc' = [pc EXCEPT ![t] = "resume_all"] /\ call' = [call EXCEPT ![t] = c]
      /\ UNCHANGED <<k, value, ret>>
  BY DEF Delete, Runs, ResumeAllFrom, Continue, Goto
<1>c. c.obj = Sem
  BY DEF NoCall
<1> HIDE DEF c
<1>1. t \notin Waiters /\ pc[t] = "run" /\ Callers
  BY <1>0, Caller DEF At, Labels, Inductive
<1>l. /\ "run" \in Labels \ {"block", "sched"} /\ "run" \notin Blocked
      /\ "resume_all" \in Labels \ Blocked /\ "resume_all" \in Deleting
  BY DEF Labels, Blocked, Deleting
<1>2. /\ Sound(k') /\ Waiting(k', pc') /\ Running(k', pc') /\ Told /\ Waiters' = Waiters
      /\ use'.deletes \/ Chosen(k', pc')
  BY <1>0, <1>l, KernelStays
<1>3. Callers'
  <2>1. \A x \in Thread : pc[x] \notin Deleting
    BY <1>0, <1>1 DEF Callers
  <2>2. pc'[t] = "resume_all" /\ \A x \in Thread \ {t} : pc'[x] = pc[x]
    BY <1>0, <1>1 DEF Callers
  <2>3. pc' \in [Thread -> Labels] /\ pc'[Idle] = "run" /\ DOMAIN call' = Thread
        /\ ret' \in [Thread -> {"none", "EOK", "ETIMEOUT", "ERROR"}] /\ call'[t] = c
    BY <1>0, <1>1, <1>l DEF Callers
  <2>4. \A x \in Thread : pc'[x] \in Deleting => x = t
    BY <2>1, <2>2
  <2>5. \A x \in Thread : pc'[x] \in Deleting => use'.deletes /\ call'[x].obj = Sem /\ life' = "ending"
    BY <2>3, <2>4, <1>0, <1>c
  <2> QED BY <2>3, <2>4, <2>5 DEF Callers
<1>4. Inductive'
  BY <1>0, <1>2, <1>3 DEF Inductive
<1>5. Mapped' = Mapped
  BY <1>0, <1>1, <1>2, <1>l, OnlyLabel
<1>6. Abstract!Next
  BY <1>0, <1>5, AbstractUnits
<1> QED BY <1>2, <1>4, <1>6 DEF StepOK

\* The list is empty: rt_sem_delete and rt_sem_detach end.
LEMMA DeleteEndOK ==
  ASSUME Inductive, UNCHANGED use, NEW t \in Thread, DeleteEnd(t)
  PROVE  StepOK
<1>0. /\ At(t, "resume_all") /\ k.list[call[t].obj] = <<>> /\ life' = "gone"
      /\ pc' = [pc EXCEPT ![t] = "run"] /\ call' = [call EXCEPT ![t] = NoCall]
      /\ UNCHANGED <<k, value, ret>>
  BY DEF DeleteEnd, ResumeAllDone, Goto
<1>l. /\ "resume_all" \in Labels \ {"block", "sched"} /\ "resume_all" \notin Blocked
      /\ "run" \in Labels \ Blocked /\ "resume_all" \in Deleting /\ "run" \notin Deleting
  BY DEF Labels, Blocked, Deleting
<1>1. t \notin Waiters /\ t # Idle /\ pc[t] = "resume_all" /\ Callers
  BY <1>0, <1>l, Caller DEF At, Inductive
<1>2. /\ Sound(k') /\ Waiting(k', pc') /\ Running(k', pc') /\ Told /\ Waiters' = Waiters
      /\ use'.deletes \/ Chosen(k', pc')
  BY <1>0, <1>l, KernelStays
<1>3. life = "ending" /\ Waiters = {}
  BY <1>0, <1>1, <1>l, Population DEF Callers
<1>4. Callers'
  <2>1. pc'[t] = "run" /\ \A x \in Thread \ {t} : pc'[x] = pc[x]
    BY <1>0, <1>1 DEF Callers
  <2>2. pc' \in [Thread -> Labels] /\ pc'[Idle] = "run" /\ DOMAIN call' = Thread
        /\ ret' \in [Thread -> {"none", "EOK", "ETIMEOUT", "ERROR"}]
    BY <1>0, <1>1, <1>l DEF Callers
  <2>3. \A x \in Thread : pc'[x] \notin Deleting
    BY <2>1, <1>1, <1>l DEF Callers
  <2> QED BY <2>2, <2>3 DEF Callers
<1>5. Inductive'
  BY <1>0, <1>2, <1>3, <1>4 DEF Inductive
<1>6. Mapped' = Mapped
  BY <1>0, <1>1, <1>2, <1>l, OnlyLabel
<1>7. Abstract!Next
  BY <1>0, <1>3, <1>6, AbstractUnits
<1> QED BY <1>2, <1>5, <1>7 DEF StepOK

\* rt_sem_init and rt_sem_create.
LEMMA CreateOK ==
  ASSUME Inductive, UNCHANGED use, NEW t \in Thread, NEW v \in InitValue, Create(t, v)
  PROVE  StepOK
<1>0. life = "gone" /\ life' = "live" /\ value' = v % Width /\ UNCHANGED <<k, pc, call, ret>>
  BY DEF Create
<1>1. value' \in Nat
  BY <1>0, SemConstants, Counting
<1>2. Waiters = {} /\ Waiters' = Waiters /\ Mapped' = Mapped
  BY <1>0 DEF Inductive, Waiters, Mapped
<1>3. Callers'
  <2>1. Callers /\ \A x \in Thread : pc[x] \notin Deleting
    BY <1>0 DEF Inductive, Callers
  <2> QED BY <2>1, <1>0 DEF Callers
<1>4. Inductive'
  BY <1>0, <1>1, <1>2, <1>3 DEF Inductive
<1>5. Abstract!Next
  BY <1>0, <1>1, <1>2, AbstractUnits
<1> QED BY <1>2, <1>4, <1>5 DEF StepOK, Told

\* The loop of rt_ipc_list_resume_all.
LEMMA ResumeAllOK ==
  ASSUME Inductive, UNCHANGED <<use, value, life>>, NEW t \in Thread, ResumeAllStep(t)
  PROVE  StepOK
<1>l. /\ Deleting \subseteq Labels \ {"block", "sched"} /\ Deleting \cap Blocked = {}
      /\ Deleting \cup {"wild"} \subseteq Labels \ Blocked /\ "wild" \notin Deleting
      /\ "resume_all" \in Deleting /\ "resume_next" \in Deleting
  BY DEF Labels, Blocked, Deleting
<1>0. PICK l \in Deleting : At(t, l)
  BY <1>l DEF ResumeAllStep, ResumeAllCheck, ResumeAllNext
<1>1. t \notin Waiters /\ t # Idle /\ pc[t] = l /\ k.current = t /\ Callers
  BY <1>0, <1>l, Caller DEF At, Inductive, Deleting
<1>2. call[t].obj = Sem /\ life = "ending" /\ use.deletes
  BY <1>0, <1>1 DEF Callers
<1>3. UNCHANGED <<call, ret>>
  BY DEF ResumeAllStep, ResumeAllCheck, ResumeAllNext
<1>4. ASSUME NEW m \in Deleting \cup {"wild"}, pc' = [pc EXCEPT ![t] = m]
      PROVE  Callers'
  BY <1>0, <1>1, <1>3, <1>4, <1>l, CallersStep
<1>5. CASE UNCHANGED k /\ \E m \in Deleting \cup {"wild"} : pc' = [pc EXCEPT ![t] = m]
  <2>1. PICK m \in Deleting \cup {"wild"} : pc' = [pc EXCEPT ![t] = m]
    BY <1>5
  <2>2. /\ Sound(k') /\ Waiting(k', pc') /\ Running(k', pc') /\ Told /\ Waiters' = Waiters
        /\ use'.deletes \/ Chosen(k', pc')
    BY <1>0, <1>5, <1>l, <2>1, KernelStays
  <2>3. Inductive'
    BY <1>4, <2>1, <2>2 DEF Inductive
  <2>4. Mapped' = Mapped
    BY <1>1, <1>3, <1>5, <1>l, <2>1, <2>2, OnlyLabel
  <2> QED BY <2>2, <2>3, <2>4 DEF StepOK
<1>6. CASE /\ k.list[Sem] # <<>> /\ k' = ResumeWithError(k, Head(k.list[Sem]))
           /\ pc' = [pc EXCEPT ![t] = "resume_all"]
  <2> DEFINE w == Head(k.list[Sem])
  <2>1. k' = ResumeWithError(k, w)
    BY <1>6
  <2>2. w \in Waiters /\ w \in Thread /\ k.stat[w] = "SUSPEND" /\ Sound(k)
    BY <1>6, Population DEF Inductive
  <2> HIDE DEF w
  <2>3. /\ Sound(k') /\ Others(k', k, w) /\ Leaves(k', k, w)
        /\ k'.stat[w] = "READY" /\ k'.error[w] = "ERROR"
    BY <2>1, <2>2, ResumeWithErrorEffect
  <2>4. pc'[t] = "resume_all" /\ \A x \in Thread \ {t} : pc'[x] = pc[x]
    BY <1>1, <1>6 DEF Callers
  <2>5. \A x \in Thread : pc'[x] \in Blocked <=> pc[x] \in Blocked
    BY <1>1, <1>l, <2>4
  <2>6. k'.error[w] \in Error /\ k'.error[w] # "EOK"
        /\ \A x \in Thread \ {w} : k'.stat[x] = k.stat[x] /\ k'.error[x] = k.error[x]
    BY <2>3 DEF Others, Error
  <2>7. /\ Waiting(k', pc') /\ Told /\ Waiters' = Waiters \ {w}
        /\ Mapped' = [Mapped EXCEPT ![w] = "ERROR"] /\ Mapped[w] = "waiting"
    BY <1>3, <2>2, <2>3, <2>5, <2>6, OneLeaves
  <2>8. Running(k', pc')
    BY <1>1, <1>l, <2>3, <2>4 DEF Others, Running, Blocked
  <2>9. Callers'
    BY <1>4, <1>6, <1>l
  <2>10. Inductive'
    BY <1>2, <2>2, <2>3, <2>7, <2>8, <2>9 DEF Inductive
  <2>11. Abstract!Next
    BY <1>2, <2>2, <2>7, AbstractSteps
  <2> QED BY <2>7, <2>10, <2>11 DEF StepOK
<1> QED BY <1>2, <1>5, <1>6, <1>l DEF ResumeAllStep, ResumeAllCheck, ResumeAllNext, Goto

\* rt_enter_critical and rt_exit_critical up to its call of rt_schedule.
LEMMA CriticalOK ==
  ASSUME Inductive, UNCHANGED use, NEW t \in Thread, rt_enter_critical(t) \/ rt_exit_critical(t)
  PROVE  StepOK
<1>l. /\ "run" \in Labels \ {"block"} /\ "run" \in Labels \ Blocked /\ "sched" \in Labels \ Blocked
      /\ "run" \notin Deleting /\ "sched" \notin Deleting
  BY DEF Labels, Blocked, Deleting
<1>0. /\ At(t, "run") /\ t # Idle /\ UNCHANGED <<call, ret, value, life>>
  BY DEF rt_enter_critical, rt_exit_critical, Runs
<1>1. t \notin Waiters /\ pc[t] = "run" /\ k.current = t /\ Callers /\ k.stat[t] = "READY"
  BY <1>0, <1>l, Caller DEF At, Inductive
<1>2. k.lock \in Nat /\ Sound(k)
  BY FieldTypes DEF Inductive, Sound
<1>3. PICK n \in Nat, m \in {"run", "sched"} :
        /\ k' = [k EXCEPT !.lock = n] /\ pc' = [pc EXCEPT ![t] = m]
        /\ n = 0 => m = "sched"
  <2>1. CASE rt_enter_critical(t)
    <3>1. k' = [k EXCEPT !.lock = k.lock + 1] /\ pc' = pc
      BY <2>1 DEF rt_enter_critical
    <3>2. pc' = [pc EXCEPT ![t] = "run"]
      BY <3>1, <1>1 DEF Callers
    <3>3. k.lock + 1 \in Nat /\ k.lock + 1 # 0
      BY <1>2
    <3> QED BY <3>1, <3>2, <3>3
  <2>2. CASE rt_exit_critical(t)
    <3>1. /\ k.lock > 0 /\ k' = [k EXCEPT !.lock = k.lock - 1]
          /\ pc' = [pc EXCEPT ![t] = IF k.lock = 1 THEN "sched" ELSE "run"]
      BY <2>2 DEF rt_exit_critical, Goto
    <3>2. k.lock - 1 \in Nat /\ (k.lock - 1 = 0 => k.lock = 1)
      BY <3>1, <1>2
    <3> QED BY <3>1, <3>2
  <2> QED BY <2>1, <2>2
<1>4. /\ Sound(k') /\ k'.list = k.list /\ k'.stat = k.stat /\ k'.error = k.error
      /\ k'.current = k.current /\ k'.lock = n
  BY <1>2, <1>3, LockSound
<1>5. pc'[t] = m /\ \A x \in Thread \ {t} : pc'[x] = pc[x]
  BY <1>1, <1>3 DEF Callers
<1>6. \A x \in Waiters : pc'[x] \in Blocked
  BY <1>1, <1>5, Population DEF Inductive, Waiting, Waiters
<1>7. Waiting(k', pc') /\ Told /\ Waiters' = Waiters
  BY <1>4, <1>6, NobodyMoves
<1>8. Running(k', pc') /\ Chosen(k', pc')
  BY <1>1, <1>3, <1>4, <1>5 DEF Running, Chosen
<1>9. Callers'
  BY <1>0, <1>3, <1>l, CallersStep
<1>10. Inductive'
  BY <1>0, <1>4, <1>7, <1>8, <1>9 DEF Inductive
<1>11. Mapped' = Mapped
  BY <1>0, <1>1, <1>3, <1>4, <1>7, <1>l, OnlyLabel
<1> QED BY <1>0, <1>7, <1>10, <1>11 DEF StepOK

\* A thread calls rt_schedule.
LEMMA ScheduleOK ==
  ASSUME Inductive, UNCHANGED <<value, life>>, NEW t \in Thread, Schedule(t)
  PROVE  StepOK
<1>0. k' = rt_schedule(k) /\ UNCHANGED <<call, ret, use>>
  BY DEF Schedule
<1>1. Callers /\ Sound(k) /\ Running(k, pc) /\ pc \in [Thread -> Labels]
  BY DEF Inductive, Callers
<1>2. PICK l, m \in Labels :
        /\ k.current = t /\ pc[t] = l /\ pc' = [pc EXCEPT ![t] = m]
        /\ \/ l = "sched" /\ m = "run"
           \/ l = "block" /\ m = "woken"
  BY <1>1 DEF Schedule, At, Goto, Labels
<1>3. /\ Sound(k') /\ k'.list = k.list /\ k'.stat = k.stat /\ k'.error = k.error
      /\ k'.lock = k.lock
      /\ k.lock = 0 => /\ k'.current = ToThread(k')
                       /\ k'.current \in Thread /\ k'.stat[k'.current] = "READY"
      /\ k.lock # 0 => k'.current = k.current
  BY <1>0, <1>1, Population, ScheduleEffect
<1>4. pc'[t] = m /\ \A x \in Thread \ {t} : pc'[x] = pc[x]
  BY <1>1, <1>2
<1>5. \A x \in Thread : pc'[x] \in Blocked <=> pc[x] \in Blocked
  BY <1>2, <1>4 DEF Blocked
<1>6. \A x \in Waiters : pc'[x] \in Blocked
  BY <1>5, Population DEF Inductive, Waiting, Waiters
<1>7. Waiting(k', pc') /\ Told /\ Waiters' = Waiters
  BY <1>3, <1>6, NobodyMoves
<1>8. Running(k', pc') /\ Chosen(k', pc')
  <2>1. CASE k.lock = 0
    BY <2>1, <1>3 DEF Running, Chosen
  <2>2. CASE k.lock # 0
    <3>1. l = "sched" /\ m = "run"
      BY <2>2, <1>1, <1>2 DEF Running
    <3> QED BY <3>1, <2>2, <1>2, <1>3, <1>4 DEF Running, Chosen
  <2> QED BY <2>1, <2>2
<1>9. Callers'
  <2>1. t # Idle /\ m \notin Deleting
    BY <1>1, <1>2 DEF Callers, Deleting
  <2> QED BY <2>1, <1>0, <1>2, CallersStep
<1>10. Inductive'
  BY <1>0, <1>3, <1>7, <1>8, <1>9 DEF Inductive
<1>11. Mapped' = Mapped
  <2>1. ASSUME NEW x \in Thread PROVE Mapped'[x] = Mapped[x]
    <3>1. (x \in Range(k'.list[Sem]) <=> x \in Waiters) /\ k'.error[x] = k.error[x] /\ ret'[x] = ret[x]
      BY <1>0, <1>3 DEF Waiters
    <3> QED BY <3>1, <1>5, MappedNext, MappedValues
  <2> QED BY <2>1, NotMoved
<1> QED BY <1>0, <1>7, <1>10, <1>11 DEF StepOK

\* The tick interrupt before and after rt_timer_check.
LEMMA TickOK ==
  ASSUME Inductive, UNCHANGED <<value, life>>, Tick \/ TickEnd
  PROVE  StepOK
<1>0. UNCHANGED <<pc, ret, use>> /\ DOMAIN call' = Thread /\ \A x \in Thread : call'[x].obj = call[x].obj
  <2>1. CASE Tick
    <3>1. UNCHANGED <<pc, ret, use>> /\ call' = [t \in Thread |-> [call[t] EXCEPT !.time = Elapsed(t)]]
      BY <2>1 DEF Tick
    <3>2. \A c, e : [c EXCEPT !.time = e].obj = c.obj
      OBVIOUS
    <3> QED BY <3>1, <3>2
  <2>2. CASE TickEnd
    BY <2>2 DEF TickEnd, Inductive, Callers
  <2> QED BY <2>1, <2>2
<1>1. Callers /\ Sound(k) /\ Running(k, pc) /\ Waiting(k, pc)
  BY DEF Inductive
<1>2. /\ Sound(k') /\ k'.stat = k.stat /\ k'.error = k.error /\ k'.lock = k.lock
      /\ \A h \in WaitList : Range(k'.list[h]) = Range(k.list[h])
      /\ \/ k'.current = k.current /\ ToThread(k') = ToThread(k)
         \/ k.lock # 0 /\ k'.current = k.current
         \/ /\ k.lock = 0 /\ k'.current = ToThread(k')
            /\ k'.current \in Thread /\ k'.stat[k'.current] = "READY"
  <2>1. CASE Tick
    <3> DEFINE r == TickSlice(k)
    <3>1. k' = [r EXCEPT !.isr = TRUE]
      BY <2>1 DEF Tick
    <3>2. /\ Sound(r) /\ r.stat = k.stat /\ r.lock = k.lock
          /\ \/ r.current = k.current /\ r.list = k.list /\ r.group = k.group
             \/ k.lock # 0 /\ r.current = k.current
             \/ /\ k.lock = 0 /\ r.current = ToThread(r)
                /\ r.current \in Thread /\ r.stat[r.current] = "READY"
      BY <1>1, TickSliceSound DEF Running
    <3>3. r.error = k.error /\ \A h \in WaitList : Range(r.list[h]) = Range(k.list[h])
      BY <1>1, TickSliceEffect DEF Running
    <3> HIDE DEF r
    <3>4. /\ Sound(k') /\ k'.list = r.list /\ k'.stat = r.stat /\ k'.error = r.error
          /\ k'.current = r.current /\ ToThread(k') = ToThread(r) /\ k'.lock = r.lock
      BY <3>1, <3>2, IsrSound
    <3>5. r.list = k.list /\ r.group = k.group => ToThread(r) = ToThread(k)
      BY DEF ToThread
    <3> QED BY <3>2, <3>3, <3>4, <3>5
  <2>2. CASE TickEnd
    <3>1. k' = [k EXCEPT !.isr = FALSE]
      BY <2>2 DEF TickEnd
    <3> QED BY <3>1, <1>1, IsrSound
  <2> QED BY <2>1, <2>2
<1>3. \A x \in Waiters : pc'[x] \in Blocked
  BY <1>0, <1>1 DEF Waiting, Waiters
<1>4. Waiting(k', pc') /\ Told /\ Waiters' = Waiters
  BY <1>2, <1>3, NobodyMoves
<1>5. Running(k', pc') /\ (Chosen(k, pc) => Chosen(k', pc'))
  BY <1>0, <1>1, <1>2 DEF Running, Chosen
<1>6. Callers'
  BY <1>0, <1>1 DEF Callers
<1>7. Inductive'
  BY <1>0, <1>2, <1>4, <1>5, <1>6 DEF Inductive
<1>8. Mapped' = Mapped
  <2>1. ASSUME NEW x \in Thread PROVE Mapped'[x] = Mapped[x]
    <3>1. (x \in Range(k'.list[Sem]) <=> x \in Waiters) /\ k'.error[x] = k.error[x] /\ ret'[x] = ret[x]
          /\ pc'[x] = pc[x]
      BY <1>0, <1>2, <1>4 DEF Waiters
    <3> QED BY <3>1, MappedNext, MappedValues
  <2> QED BY <2>1, NotMoved
<1> QED BY <1>0, <1>4, <1>7, <1>8 DEF StepOK

\* A waiting time is over.
LEMMA TickFireOK ==
  ASSUME Inductive, UNCHANGED <<value, life>>, TickFire
  PROVE  StepOK
<1> DEFINE w == Head(k.timers)
<1>0. k.timers # <<>> /\ k' = FireTimer(k) /\ UNCHANGED <<pc, call, ret, use>>
  BY DEF TickFire, TimerExpired
<1>1. Callers /\ Sound(k) /\ Running(k, pc)
  BY DEF Inductive
<1>2. /\ w \in Thread /\ k.stat[w] = "SUSPEND"
      /\ Sound(k') /\ Leaves(k', k, w)
      /\ \A x \in Thread \ {w} : k'.stat[x] = k.stat[x] /\ k'.error[x] = k.error[x]
      /\ k'.stat[w] = "READY" /\ k'.error[w] = "ETIMEOUT"
      /\ k'.lock = k.lock
      /\ k.lock # 0 => k'.current = k.current
      /\ k.lock = 0 => /\ k'.current = ToThread(k')
                       /\ k'.current \in Thread /\ k'.stat[k'.current] = "READY"
  BY <1>0, <1>1, FireTimerEffect
<1> HIDE DEF w
<1>3. w \in Waiters /\ k'.error[w] \in Error /\ k'.error[w] # "EOK"
  BY <1>2, Population DEF Error
<1>4. /\ Waiting(k', pc') /\ Told /\ Waiters' = Waiters \ {w}
      /\ Mapped' = [Mapped EXCEPT ![w] = "ETIMEOUT"] /\ Mapped[w] = "waiting"
  BY <1>0, <1>2, <1>3, OneLeaves
<1>5. Running(k', pc') /\ Chosen(k', pc')
  <2>1. CASE k.lock = 0
    BY <2>1, <1>2 DEF Running, Chosen
  <2>2. CASE k.lock # 0
    BY <2>2, <1>0, <1>1, <1>2 DEF Running, Chosen
  <2> QED BY <2>1, <2>2
<1>6. Callers'
  BY <1>0, <1>1, Zenon DEF Callers
<1>7. Inductive'
  BY <1>0, <1>2, <1>4, <1>5, <1>6 DEF Inductive
<1>8. Abstract!Next
  BY <1>0, <1>2, <1>4, AbstractSteps
<1> QED BY <1>4, <1>7, <1>8 DEF StepOK

-----------------------------------------------------------------------------
(* The theorems.                                                           *)

\* The initial states.
LEMMA InitOK ==
  ASSUME Init
  PROVE  Inductive /\ Abstract!Init
<1>0. /\ k = AllStarted /\ pc = [t \in Thread |-> "run"] /\ call = [t \in Thread |-> NoCall]
      /\ ret = [t \in Thread |-> "none"] /\ use \in Uses
      /\ value \in InitValue /\ life = "live"
  BY DEF Init, IpcInit
<1>1. /\ Sound(k) /\ k.current \in Thread /\ k.current = ToThread(k)
      /\ k.stat = [t \in Thread |-> "READY"] /\ \A h \in WaitList : k.list[h] = <<>>
  BY <1>0, StartSound
<1>2. Sem \in WaitList /\ value \in Nat
  BY <1>0, SemConstants
<1>3. \A h \in WaitList : Range(k.list[h]) = {}
  <2>1. <<>> \in Seq(Thread)
    OBVIOUS
  <2>2. Range(<<>>) = {}
    BY <2>1, EmptyOrHead
  <2> QED BY <2>2, <1>1
<1>4. Waiters = {}
  BY <1>2, <1>3 DEF Waiters
<1>5. Waiting(k, pc) /\ Running(k, pc) /\ Chosen(k, pc)
  BY <1>0, <1>1, <1>2, <1>3 DEF Waiting, Running, Chosen
<1>6. Callers
  BY <1>0, KernelAssumption DEF Callers, Labels, Deleting
<1>7. Inductive
  BY <1>0, <1>1, <1>2, <1>4, <1>5, <1>6 DEF Inductive
<1>8. Mapped = [t \in Thread |-> "none"]
  BY <1>0, <1>4 DEF Mapped
<1>9. Abstract!Init
  BY <1>0, <1>2, <1>8 DEF Abstract!Init
<1> QED BY <1>7, <1>9

\* Every step.
LEMMA StepsOK ==
  ASSUME Disciplined, Inductive, [Next]_vars
  PROVE  StepOK
<1>1. use.resets = {}
  BY DEF Disciplined, Inductive
<1>2. CASE UNCHANGED vars
  <2>1. UNCHANGED <<k, pc, call, ret, use, value, life>>
    BY <1>2 DEF vars
  <2>2. Mapped' = Mapped /\ Waiters' = Waiters
    BY <2>1 DEF Mapped, Waiters
  <2>3. Callers'
    BY <2>1, Zenon DEF Callers, Inductive
  <2>4. Inductive'
    BY <2>1, <2>2, <2>3 DEF Inductive
  <2> QED BY <2>1, <2>2, <2>4 DEF StepOK, Told, Waiters
<1>3. CASE UNCHANGED use /\ \E t \in Thread : Step(t)
  <2>1. PICK t \in Thread : Step(t)
    BY <1>3
  <2>2. CASE \E time \in use.times : rt_sem_take(t, time)
    BY <1>3, <2>2, TakeOK
  <2>3. CASE Taken(t)
    BY <1>3, <2>3, TakenOK
  <2>4. CASE rt_sem_release(t)
    BY <1>3, <2>4, ReleaseOK
  <2>5. CASE Delete(t)
    BY <1>3, <2>5, DeleteOK
  <2>6. CASE DeleteEnd(t)
    BY <1>3, <2>6, DeleteEndOK
  <2>7. CASE ResumeAllStep(t) /\ UNCHANGED <<value, life>>
    BY <1>3, <2>7, ResumeAllOK
  <2>8. CASE \E v \in InitValue : Create(t, v)
    BY <1>3, <2>8, CreateOK
  <2>9. CASE rt_enter_critical(t) \/ rt_exit_critical(t)
    BY <1>3, <2>9, CriticalOK
  <2> QED BY <1>1, <2>1, <2>2, <2>3, <2>4, <2>5, <2>6, <2>7, <2>8, <2>9 DEF Step
<1>4. CASE UNCHANGED use /\ DeviceInterrupt
  BY <1>4, InterruptOK
<1>5. CASE Processor /\ UNCHANGED <<value, life>>
  <2>1. CASE \E t \in Thread : Schedule(t)
    BY <1>5, <2>1, ScheduleOK
  <2>2. CASE Tick \/ TickEnd
    BY <1>5, <2>2, TickOK
  <2>3. CASE TickFire
    BY <1>5, <2>3, TickFireOK
  <2> QED BY <1>5, <2>1, <2>2, <2>3 DEF Processor, Clock
<1> QED BY <1>2, <1>3, <1>4, <1>5 DEF Next

\* The semaphore's list, the ready queue and the timers agree, the most urgent
\* thread runs, rt_sem_take returns only to a thread that is out of the list, and
\* rt_sem_delete leaves nobody in it.
THEOREM SemaphoreSafe ==
  ASSUME Disciplined
  PROVE  Spec => [](KernelConsistent /\ HighestRuns /\ BackMeansOut /\ NobodyLeftBehind)
<1>1. Init => Inductive
  BY InitOK
<1>2. Inductive /\ [Next]_vars => Inductive'
  BY StepsOK DEF StepOK
<1>3. Inductive => KernelConsistent /\ HighestRuns /\ BackMeansOut /\ NobodyLeftBehind
  <2> SUFFICES ASSUME Inductive
               PROVE  KernelConsistent /\ HighestRuns /\ BackMeansOut /\ NobodyLeftBehind
    OBVIOUS
  <2>1. KernelConsistent
    BY DEF Inductive, Sound, LinkedOnce, KernelConsistent
  <2>2. HighestRuns
    BY DEF Inductive, Chosen, HighestRuns
  <2>3. BackMeansOut
    BY DEF Inductive, Waiting, BackMeansOut, Blocked
  <2>4. NobodyLeftBehind
    BY Population DEF Inductive, NobodyLeftBehind
  <2> QED BY <2>1, <2>2, <2>3, <2>4
<1> QED BY <1>1, <1>2, <1>3, PTL DEF Spec

\* rt_sem_take, rt_sem_release, timeouts, deletion and creation implement the
\* counting semaphore: no unit is lost or made up.
THEOREM SemaphoreImplements ==
  ASSUME Disciplined
  PROVE  Spec => Implements
<1>1. Init => Inductive /\ Abstract!Init
  BY InitOK
<1>2. Inductive /\ [Next]_vars => Inductive'
  BY StepsOK DEF StepOK
<1>3. Inductive /\ [Next]_vars => [Abstract!Next]_<<value, Mapped, life, use.resets>>
  BY StepsOK DEF StepOK
<1> QED BY <1>1, <1>2, <1>3, PTL DEF Spec, Implements, Abstract!Spec

\* A waiter that rt_sem_delete sends away finds an error number.
THEOREM SemaphoreTells ==
  ASSUME Disciplined
  PROVE  Spec => DeletedWaitersTold
<1>1. Init => Inductive
  BY InitOK
<1>2. Inductive /\ [Next]_vars => Inductive'
  BY StepsOK DEF StepOK
<1>3. Inductive /\ [Next]_vars => [\A t \in Waiters : life = "ending" /\ t \notin Range(k'.list[Sem])
                                     => k'.error[t] # "EOK"]_vars
  BY StepsOK DEF StepOK, Told
<1> QED BY <1>1, <1>2, <1>3, PTL DEF Spec, DeletedWaitersTold
=============================================================================
