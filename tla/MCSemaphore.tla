----------------------------- MODULE MCSemaphore -----------------------------
(***************************************************************************)
(* Instances of Semaphore: a is the most urgent thread, b and c share a    *)
(* priority.                                                               *)
(***************************************************************************)
EXTENDS Semaphore

CONSTANTS a, b, c

MCInitPriority ==
  [t \in Thread |-> IF t = a THEN 0 ELSE IF t \in {b, c} THEN 1 ELSE 2]

MCInitTick == [t \in Thread |-> 1]

Waits ==
  [flag |-> "PRIO", times |-> {Forever}, resets |-> {}, sleeps |-> {}, deletes |-> FALSE, locks |-> "never"]

\* Waiting with timeouts, and resets.
Timed == [Waits EXCEPT !.times = {Forever, 0, 1}, !.resets = {1}]

\* Deletion while threads wait for ever; critical sections that do not wait.
MCUses == {Timed, [Waits EXCEPT !.deletes = TRUE], [Waits EXCEPT !.times = {Forever, 0}, !.locks = "try"]}

MCFifo == {[Waits EXCEPT !.flag = "FIFO"]}

\* Waiting with the scheduler locked.
MCLocked == {[Waits EXCEPT !.locks = "any"]}
=============================================================================
