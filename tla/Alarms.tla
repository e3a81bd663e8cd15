------------------------------- MODULE Alarms -------------------------------
(***************************************************************************)
(* What the timers promise: each pending timer has a number of ticks left, *)
(* an integer that every tick makes smaller by one, and at each tick the   *)
(* timers that have none left fire, and only those, the longest due first. *)
(* Kernel describes the timers of threads in this way.                     *)
(***************************************************************************)
EXTENDS Integers

CONSTANTS
  Timer,
  MaxLate     \* how many ticks a start may be interrupted for

VARIABLES
  left,     \* the ticks every pending timer has left
  time,     \* the ticks every timer runs for
  firing    \* is the tick interrupt being served?

avars == <<left, time, firing>>

Pending == DOMAIN left

With(f, t, n) == [x \in DOMAIN f \cup {t} |-> IF x = t THEN n ELSE f[x]]

Drop(f, t) == [x \in DOMAIN f \ {t} |-> f[x]]

Init == Pending = {} /\ ~firing

\* A start that takes long is late by as many ticks.
Start(t) ==
  /\ \E d \in 0 .. MaxLate : left' = With(left, t, time[t] - d)
  /\ UNCHANGED <<time, firing>>

Stop(t) == left' = Drop(left, t) /\ UNCHANGED <<time, firing>>

\* A timer is created or gets another time.
SetTime == left' = left /\ firing' = firing

Tick ==
  /\ ~firing /\ firing'
  /\ left' = [t \in Pending |-> left[t] - 1]
  /\ UNCHANGED time

\* Timer t is due, and none is due longer.  The timeout function may start or stop
\* one timer, and a periodic timer starts again.
Fire(t) ==
  /\ firing /\ t \in Pending /\ left[t] <= 0
  /\ \A x \in Pending : left[t] <= left[x]
  /\ \E x \in Timer :
       LET gone == Drop(left, t) IN
       \E after \in {gone, Drop(gone, x), With(gone, x, time[x])} :
         left' \in {after, With(after, t, time[t])}
  /\ UNCHANGED <<time, firing>>

\* The tick is over when no timer is due.
End ==
  /\ firing /\ ~firing'
  /\ \A t \in Pending : left[t] > 0
  /\ UNCHANGED <<left, time>>

Next == Tick \/ End \/ SetTime \/ \E t \in Timer : Start(t) \/ Stop(t) \/ Fire(t)

Spec == Init /\ [][Next]_avars
=============================================================================
