------------------------------ MODULE ByteQueue ------------------------------
(***************************************************************************)
(* What a ring buffer promises: a queue of at most Size bytes.             *)
(***************************************************************************)
EXTENDS Integers, Sequences

CONSTANTS Byte, Size

VARIABLES
  q,     \* the bytes in the buffer
  out    \* the bytes the last get has copied out

Least(m, n) == IF m <= n THEN m ELSE n

\* The first n elements of s, what is left without them, and s followed by the
\* first n elements of d.
First(s, n) == [i \in 1 .. n |-> s[i]]

After(s, n) == [i \in 1 .. Len(s) - n |-> s[i + n]]

Join(s, d, n) == [i \in 1 .. Len(s) + n |-> IF i <= Len(s) THEN s[i] ELSE d[i - Len(s)]]

Init == q = <<>> /\ out = <<>>

\* What does not fit is dropped.
Put(d) == q' = Join(q, d, Least(Len(d), Size - Len(q))) /\ UNCHANGED out

\* What does not fit pushes the oldest bytes out.
PutForce(d) ==
  LET all == Join(q, d, Len(d)) IN
  /\ q' = IF Len(all) <= Size THEN all ELSE After(all, Len(all) - Size)
  /\ UNCHANGED out

Get(n) ==
  LET m == Least(n, Len(q)) IN
  /\ out' = First(q, m) /\ q' = After(q, m)

Next ==
  \/ \E d \in Seq(Byte) : Put(d) \/ PutForce(d)
  \/ \E n \in Nat : Get(n)

Spec == Init /\ [][Next]_<<q, out>>
=============================================================================
