------------------------------ MODULE MCTimers ------------------------------
(***************************************************************************)
(* Instances of Timers: threads manage o, which is one-shot, and p, and    *)
(* timeout functions start and stop q.                                     *)
(***************************************************************************)
EXTENDS Timers

CONSTANTS o, p, q

MCKinds == [t \in Timer |-> IF t = o THEN {FALSE} ELSE IF t = p THEN {TRUE} ELSE {FALSE}]

MCTimes == [t \in Timer |-> IF t = o THEN {0, 5} ELSE IF t = p THEN {2} ELSE {3}]
=============================================================================
