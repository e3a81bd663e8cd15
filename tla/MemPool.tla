------------------------------- MODULE MemPool -------------------------------
(***************************************************************************)
(* A memory pool (src/src/mempool.c): threads take blocks, wait when there *)
(* is none, and threads and interrupts give blocks back.                   *)
(***************************************************************************)
EXTENDS IPC

CONSTANTS
  Mp,      \* the pool, or rather its suspend list
  Blocks   \* its blocks

VARIABLE
  mp     \* list (block_list, as a sequence), free (block_free_count), waiting
         \* (suspend_thread_count), out (the blocks users have), life

mpvars == <<k, pc, call, ret, use, mp>>

\* The blocks in the order of their addresses.
BlockOrder == CHOOSE s \in [1 .. Cardinality(Blocks) -> Blocks] : IsInjective(s)

\* rt_mp_init, rt_mp_create
rt_mp_init ==
  [list |-> BlockOrder, free |-> Len(BlockOrder), waiting |-> 0, out |-> {}, life |-> "live"]

MpInit == mp = rt_mp_init

MpTypeOK ==
  /\ mp.list \in Seq(Blocks) /\ mp.free \in Nat /\ mp.waiting \in Nat
  /\ mp.out \subseteq Blocks
  /\ mp.life \in {"live", "ending", "gone"}

MpWaiters == Range(k.list[Mp])

-----------------------------------------------------------------------------
MpAlloc(n) == [NoCall EXCEPT !.op = "mp_alloc", !.obj = Mp, !.time = n]

\* A block is there: take the first one.
Take(t) ==
  /\ mp' = [mp EXCEPT !.free = @ - 1, !.list = Tail(@), !.out = @ \cup {Head(mp.list)}]
  /\ UNCHANGED k

\* There is none: the waiter goes to the FRONT of the suspend list.
MpWait(t, time) ==
  LET s == rt_thread_suspend([k EXCEPT !.error[t] = "EOK"], t)
      w == [s EXCEPT !.list[Mp] = PushFront(t, @)]
  IN /\ k' = IF time > 0 THEN rt_timer_start(w, t, time) ELSE w
     /\ mp' = [mp EXCEPT !.waiting = @ + 1]

\* One round of the loop of rt_mp_alloc.
MpTry(t, time) ==
  \/ mp.free > 0 /\ Take(t) /\ Return(t, "run", "EOK")
  \/ /\ mp.free = 0 /\ time = 0
     /\ k' = [k EXCEPT !.error[t] = "ETIMEOUT"]
     /\ Return(t, "run", "ETIMEOUT")
     /\ UNCHANGED mp
  \/ /\ mp.free = 0 /\ time # 0
     /\ MpWait(t, time)
     /\ Continue(t, "block", MpAlloc(time))

rt_mp_alloc(t, time) == Runs(t) /\ mp.life = "live" /\ MpTry(t, time)

\* rt_mp_alloc after rt_schedule has returned.
MpWoken(t) ==
  /\ At(t, "woken")
  /\ IF k.error[t] = "EOK"
       THEN MpTry(t, call[t].time)
       ELSE Return(t, "run", k.error[t]) /\ UNCHANGED <<k, mp>>

Freed(b) == [mp EXCEPT !.free = @ + 1, !.list = PushFront(b, @), !.out = @ \ {b}]

\* The first waiter is resumed.
MpResumed(kernel) ==
  LET t == Head(kernel.list[Mp]) IN rt_thread_resume([kernel EXCEPT !.error[t] = "EOK"], t)

MpFree_Drained(b) ==
  \/ mp.waiting = 0 /\ mp' = Freed(b) /\ UNCHANGED <<k, pc>>
  \/ /\ mp.waiting > 0
     /\ mp' = [Freed(b) EXCEPT !.waiting = @ - 1]
     /\ IF mp.free = 0
          THEN k' = MpResumed(k) /\ Goto(k.current, "sched")
          ELSE UNCHANGED <<k, pc>>

\* The interrupts-disabled section of rt_mp_free.  With suspend_thread_count > 0
\* and the list empty the thread is computed from the list head.
MpFree(b) ==
  \/ mp.waiting = 0 /\ mp' = Freed(b) /\ UNCHANGED <<k, pc>>
  \/ /\ mp.waiting > 0
     /\ mp' = [Freed(b) EXCEPT !.waiting = @ - 1]
     /\ IF k.list[Mp] # <<>>
          THEN k' = MpResumed(k) /\ Goto(k.current, "sched")
          ELSE Goto(k.current, "wild") /\ UNCHANGED k

rt_mp_free(t, b) ==
  /\ Runs(t) /\ mp.life = "live" /\ b \in mp.out
  /\ MpFree(b)
  /\ UNCHANGED <<call, ret>>

\* An interrupt handler that calls rt_mp_free.
MpInterrupt(b) ==
  /\ ~k.isr /\ mp.life = "live" /\ b \in mp.out
  /\ IF mp.waiting > 0 /\ k.list[Mp] # <<>>
       THEN /\ k' = rt_schedule(MpResumed(k))
            /\ mp' = [Freed(b) EXCEPT !.waiting = @ - 1]
            /\ UNCHANGED pc
       ELSE MpFree(b)
  /\ UNCHANGED <<call, ret>>

\* rt_mp_delete and rt_mp_detach.  The application has to make sure that no thread
\* is between its wakeup and its block; who has a block may not give it back.
MpDelete(t) ==
  /\ use.deletes
  /\ Runs(t) /\ mp.life = "live"
  /\ \A u \in Thread : pc[u] \in {"block", "woken"} => u \in MpWaiters
  /\ mp' = [mp EXCEPT !.life = "ending", !.out = {}]
  /\ ResumeAllFrom(t, Mp)
  /\ UNCHANGED k

\* The loop is that of rt_ipc_list_resume_all, and counts.
MpDeleteStep(t) ==
  \/ ResumeAllCheck(t) /\ UNCHANGED mp
  \/ ResumeAllNext(t) /\ mp' = [mp EXCEPT !.waiting = @ - 1]

MpDeleteEnd(t) ==
  /\ ResumeAllDone(t)
  /\ mp' = [mp EXCEPT !.life = "gone"]
  /\ Continue(t, "run", NoCall)
  /\ UNCHANGED k

MpCreate(t) ==
  /\ Runs(t) /\ mp.life = "gone"
  /\ mp' = rt_mp_init
  /\ UNCHANGED <<k, pc, call, ret>>

MpStep(t) ==
  \/ \E time \in use.times : rt_mp_alloc(t, time)
  \/ \E b \in Blocks : rt_mp_free(t, b)
  \/ MpWoken(t) \/ MpDelete(t) \/ MpDeleteStep(t) \/ MpDeleteEnd(t) \/ MpCreate(t)

MpNext ==
  \/ UNCHANGED use /\ \E t \in Thread : MpStep(t)
  \/ UNCHANGED use /\ \E b \in Blocks : MpInterrupt(b)
  \/ Processor /\ UNCHANGED mp

-----------------------------------------------------------------------------
(* Properties.                                                             *)

\* Every block is in the free list or with a user, in one place only, and
\* block_free_count, which decides whether rt_mp_alloc may follow block_list, is
\* the length of that list, also between the wakeup of a waiter and its return.
MpBlocksConserved ==
  mp.life = "live" =>
    /\ mp.free = Len(mp.list) /\ IsInjective(mp.list)
    /\ Range(mp.list) \cap mp.out = {}
    /\ Range(mp.list) \cup mp.out = Blocks

\* No lost wakeup: rt_mp_free keeps the block in the pool, where another thread may
\* take it before the waiter it resumed runs; still, while threads wait there are
\* no more free blocks than resumed waiters that have yet to look.
MpNoLostWakeup ==
  mp.life = "live" /\ MpWaiters # {} =>
    mp.free <= Cardinality({t \in Thread \ MpWaiters : pc[t] \in {"block", "woken"}})

\* suspend_thread_count, from which rt_mp_free concludes that the suspend list is
\* not empty, is the length of that list.
MpCountTrue == mp.waiting = Len(k.list[Mp])

\* rt_mp_free: "get the suspended thread".  What it resumes is a thread.
MpResumesThread == \A t \in Thread : pc[t] # "wild"
=============================================================================
