------------------------------- MODULE Memory -------------------------------
(***************************************************************************)
(* The two data structures that are not tied to the scheduler, the heap    *)
(* and the ring buffer, one at a time.                                     *)
(***************************************************************************)
EXTENDS Heap, RingBuffer

VARIABLE
  part    \* the one that is used, "heap" or "ring"

vars == <<heap, own, busy, shrinks, ring, taken, part>>

Init ==
  /\ HpInit /\ RbInit
  /\ part \in {"heap", "ring"} /\ (shrinks => part = "heap")

Next ==
  /\ \/ part = "heap" /\ HpNext /\ UNCHANGED rbvars
     \/ part = "ring" /\ RbNext /\ UNCHANGED hpvars
  /\ UNCHANGED part

Spec == Init /\ [][Next]_vars
=============================================================================
