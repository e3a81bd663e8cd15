-------------------------- MODULE CountingSemaphore --------------------------
(***************************************************************************)
(* What a semaphore promises: units are neither lost nor made up.  A unit  *)
(* that is released goes to a waiting thread if there is one; a thread     *)
(* waits only while there is no unit; a take ends with a unit, or after    *)
(* its timeout, or because the semaphore was reset or is being deleted.    *)
(* The semaphore is gone only when nobody waits for it any more.           *)
(***************************************************************************)
EXTENDS Naturals

CONSTANTS Thread

VARIABLES
  value,   \* units available
  st,      \* of each thread: waiting, or how its last take ended
  life,    \* "live", "ending" or "gone"
  resets   \* the values it may be reset to, which never change

Init ==
  /\ value \in Nat /\ life = "live"
  /\ st = [t \in Thread |-> "none"]

Waiting == {t \in Thread : st[t] = "waiting"}

Ends(t, r) == st' = [st EXCEPT ![t] = r]

TakeUnit(t) ==
  /\ life = "live" /\ t \notin Waiting /\ value > 0
  /\ value' = value - 1 /\ Ends(t, "EOK")
  /\ UNCHANGED life

TakeFails(t) ==
  /\ life = "live" /\ t \notin Waiting /\ value = 0
  /\ Ends(t, "ETIMEOUT")
  /\ UNCHANGED <<value, life>>

Wait(t) ==
  /\ life = "live" /\ t \notin Waiting /\ value = 0
  /\ st' = [st EXCEPT ![t] = "waiting"]
  /\ UNCHANGED <<value, life>>

Timeout(t) ==
  /\ t \in Waiting
  /\ Ends(t, "ETIMEOUT")
  /\ UNCHANGED <<value, life>>

Release ==
  /\ life = "live"
  /\ \/ \E t \in Waiting : Ends(t, "EOK") /\ UNCHANGED value
     \/ Waiting = {} /\ value' = value + 1 /\ UNCHANGED st
  /\ UNCHANGED life

Reset ==
  /\ life = "live" /\ resets # {}
  /\ value' \in Nat
  /\ st' = [t \in Thread |-> IF t \in Waiting THEN "ERROR" ELSE st[t]]
  /\ UNCHANGED life

\* Deletion gives up the waiting threads one by one.
Delete ==
  /\ life = "live" /\ life' = "ending"
  /\ UNCHANGED <<value, st>>

GiveUp(t) ==
  /\ life = "ending" /\ t \in Waiting
  /\ Ends(t, "ERROR")
  /\ UNCHANGED <<value, life>>

DeleteEnd ==
  /\ life = "ending" /\ Waiting = {} /\ life' = "gone"
  /\ UNCHANGED <<value, st>>

Create ==
  /\ life = "gone" /\ life' = "live" /\ value' \in Nat
  /\ UNCHANGED st

Next ==
  /\ \/ \E t \in Thread : TakeUnit(t) \/ TakeFails(t) \/ Wait(t) \/ Timeout(t) \/ GiveUp(t)
     \/ Release \/ Reset \/ Delete \/ DeleteEnd \/ Create
  /\ UNCHANGED resets

Spec == Init /\ [][Next]_<<value, st, life, resets>>
=============================================================================
