---------------------------- MODULE ReentrantLock ----------------------------
(***************************************************************************)
(* What a set of mutexes promises: at most one thread holds a mutex, as    *)
(* often as it has taken it; a thread waits only for a mutex that another  *)
(* one holds, and a mutex that becomes free goes to a waiting thread.      *)
(***************************************************************************)
EXTENDS Naturals

CONSTANTS Thread, Mutex

VARIABLES
  holds,    \* how many times each thread holds each mutex
  waits     \* the threads waiting for each mutex

Init ==
  /\ holds = [m \in Mutex |-> [t \in Thread |-> 0]]
  /\ waits = [m \in Mutex |-> {}]

HeldBy(m) == {t \in Thread : holds[m][t] > 0}

NotWaiting(t) == \A m \in Mutex : t \notin waits[m]

Take(t, m) ==
  /\ NotWaiting(t) /\ HeldBy(m) \subseteq {t}
  /\ holds' = [holds EXCEPT ![m][t] = @ + 1]
  /\ UNCHANGED waits

Wait(t, m) ==
  /\ NotWaiting(t) /\ HeldBy(m) \ {t} # {}
  /\ waits' = [waits EXCEPT ![m] = @ \cup {t}]
  /\ UNCHANGED holds

\* A timeout, or the deletion of the mutex.
GiveUp(t, m) ==
  /\ t \in waits[m]
  /\ waits' = [waits EXCEPT ![m] = @ \ {t}]
  /\ UNCHANGED holds

Release(t, m) ==
  /\ NotWaiting(t) /\ holds[m][t] > 0
  /\ IF holds[m][t] > 1 \/ waits[m] = {}
       THEN /\ holds' = [holds EXCEPT ![m][t] = @ - 1]
            /\ UNCHANGED waits
       ELSE \E next \in waits[m] :
              /\ holds' = [holds EXCEPT ![m][t] = 0, ![m][next] = 1]
              /\ waits' = [waits EXCEPT ![m] = @ \ {next}]

\* The mutex has been deleted and created again.
Renew(m) ==
  /\ waits[m] = {}
  /\ holds' = [holds EXCEPT ![m] = [t \in Thread |-> 0]]
  /\ UNCHANGED waits

Next ==
  \E m \in Mutex :
    \/ \E t \in Thread : Take(t, m) \/ Wait(t, m) \/ GiveUp(t, m) \/ Release(t, m)
    \/ Renew(m)

Spec == Init /\ [][Next]_<<holds, waits>>
=============================================================================
