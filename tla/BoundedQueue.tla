---------------------------- MODULE BoundedQueue ----------------------------
(***************************************************************************)
(* What a mailbox, a message queue and a data queue promise: messages are  *)
(* received once each and in the order in which they were sent, urgent     *)
(* ones first, and there are never more than Size of them.  Waiting,       *)
(* giving up and being woken change nothing here.                          *)
(***************************************************************************)
EXTENDS Naturals, Sequences

CONSTANTS Receiver, Message, Size

VARIABLES
  q,     \* the messages that have been sent and not received
  got    \* the last message each receiver received

Init == q = <<>> /\ got \in [Receiver -> Message \cup {"none"}]

Send(m) == Len(q) < Size /\ q' = Append(q, m) /\ UNCHANGED got

Urgent(m) == Len(q) < Size /\ q' = <<m>> \o q /\ UNCHANGED got

Receive(r) == q # <<>> /\ q' = Tail(q) /\ got' = [got EXCEPT ![r] = Head(q)]

Reset == q' = <<>> /\ UNCHANGED got

Next ==
  \/ \E m \in Message : Send(m) \/ Urgent(m)
  \/ \E r \in Receiver : Receive(r)
  \/ Reset

Spec == Init /\ [][Next]_<<q, got>>
=============================================================================
