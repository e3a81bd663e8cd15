------------------------------ MODULE MCThreads ------------------------------
(* Small instances of Threads: two application threads and the idle thread. *)
EXTENDS Threads

CONSTANTS a, b

\* b is one above the idle thread; a is at the top, alone if there is room.
MCInitPriority ==
  [t \in Thread |-> CASE t = a -> 0
                      [] t = b -> RT_THREAD_PRIORITY_MAX - 2
                      [] OTHER -> RT_THREAD_PRIORITY_MAX - 1]

\* b keeps the processor for two ticks, the others for one.
MCInitTick == [t \in Thread |-> IF t = b THEN 2 ELSE 1]
=============================================================================
