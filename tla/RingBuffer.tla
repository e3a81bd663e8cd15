----------------------------- MODULE RingBuffer -----------------------------
(***************************************************************************)
(* The ring buffer (src/components/drivers/src/ringbuffer.c and the inline *)
(* functions of rtdevice.h): two indices, each with a mirror bit that      *)
(* tells a full buffer from an empty one.                                  *)
(***************************************************************************)
EXTENDS Integers, Sequences

CONSTANTS
  RbSize,   \* buffer_size
  Byte,     \* the bytes that are written
  Junk      \* a byte read from behind the end of the caller's data

ASSUME RingBufferAssumption == RbSize \in 1 .. 32767 /\ Junk \notin Byte

\* A ring buffer: its memory, and index and mirror bit of its two ends.
RingBuffers ==
  [buf : [0 .. RbSize - 1 -> Byte \cup {Junk}],
   ri : 0 .. RbSize - 1, rm : {0, 1}, wi : 0 .. RbSize - 1, wm : {0, 1}]

\* rt_ringbuffer_init; the memory is not initialised.
rt_ringbuffer_init ==
  [buf |-> [i \in 0 .. RbSize - 1 |-> Junk], ri |-> 0, rm |-> 0, wi |-> 0, wm |-> 0]

rt_ringbuffer_status(rb) ==
  IF rb.ri # rb.wi THEN "HALFFULL" ELSE IF rb.rm = rb.wm THEN "EMPTY" ELSE "FULL"

rt_ringbuffer_data_len(rb) ==
  CASE rt_ringbuffer_status(rb) = "EMPTY" -> 0
    [] rt_ringbuffer_status(rb) = "FULL" -> RbSize
    [] OTHER -> IF rb.wi > rb.ri THEN rb.wi - rb.ri ELSE RbSize - (rb.ri - rb.wi)

rt_ringbuffer_space_len(rb) == RbSize - rt_ringbuffer_data_len(rb)

-----------------------------------------------------------------------------
\* Element i of the caller's data.
Source(d, i) == IF i <= Len(d) THEN d[i] ELSE Junk

\* The first n bytes of d are copied to the write index, which advances and flips
\* its mirror bit when it passes the end.
Written(rb, d, n) ==
  IF RbSize - rb.wi > n
    THEN [rb EXCEPT !.buf = [i \in 0 .. RbSize - 1 |->
                               IF i \in rb.wi .. rb.wi + n - 1 THEN Source(d, i - rb.wi + 1) ELSE @[i]],
                    !.wi = @ + n]
    ELSE LET m == n - (RbSize - rb.wi) IN
         [rb EXCEPT !.buf = [i \in 0 .. RbSize - 1 |->
                               IF i >= rb.wi THEN Source(d, i - rb.wi + 1)
                               ELSE IF i < m THEN Source(d, i + RbSize - rb.wi + 1) ELSE @[i]],
                    !.wm = 1 - @, !.wi = m]

rt_ringbuffer_put(rb, d) ==
  LET size == rt_ringbuffer_space_len(rb) IN
  IF size = 0 THEN rb ELSE Written(rb, d, IF size < Len(d) THEN size ELSE Len(d))

\* In the branch that does not pass the end the length is at most the space.
rt_ringbuffer_put_force(rb, d) ==
  LET space == rt_ringbuffer_space_len(rb)
      length == IF Len(d) > space THEN RbSize ELSE Len(d)
      w == Written(rb, d, length)
  IN IF length <= space THEN w
     ELSE IF RbSize - rb.wi > length THEN [w EXCEPT !.ri = w.wi]
     ELSE [w EXCEPT !.rm = 1 - @, !.ri = w.wi]

\* How many bytes a get of length n copies, and what they are.
Got(rb, n) == LET size == rt_ringbuffer_data_len(rb) IN IF size < n THEN size ELSE n

Copied(rb, n) ==
  [i \in 1 .. Got(rb, n) |->
     rb.buf[IF rb.ri + i - 1 < RbSize THEN rb.ri + i - 1 ELSE rb.ri + i - 1 - RbSize]]

rt_ringbuffer_get(rb, n) ==
  LET length == Got(rb, n) IN
  IF length = 0 THEN rb
  ELSE IF RbSize - rb.ri > length THEN [rb EXCEPT !.ri = @ + length]
  ELSE [rb EXCEPT !.rm = 1 - @, !.ri = length - (RbSize - rb.ri)]

rt_ringbuffer_putchar(rb, ch) ==
  IF rt_ringbuffer_space_len(rb) = 0 THEN rb
  ELSE IF rb.wi = RbSize - 1 THEN [rb EXCEPT !.buf[rb.wi] = ch, !.wm = 1 - @, !.wi = 0]
  ELSE [rb EXCEPT !.buf[rb.wi] = ch, !.wi = @ + 1]

rt_ringbuffer_putchar_force_OneMirror(rb, ch) ==
  LET full == rt_ringbuffer_status(rb) = "FULL"
      next == IF rb.wi = RbSize - 1 THEN 0 ELSE rb.wi + 1
  IN [rb EXCEPT !.buf[rb.wi] = ch,
                !.wm = IF rb.wi = RbSize - 1 THEN 1 - @ ELSE @, !.wi = next,
                !.ri = IF full THEN next ELSE @]

rt_ringbuffer_putchar_force(rb, ch) ==
  LET full == rt_ringbuffer_status(rb) = "FULL" IN
  IF rb.wi = RbSize - 1
    THEN [rb EXCEPT !.buf[rb.wi] = ch, !.wm = 1 - @, !.wi = 0,
                    !.rm = IF full THEN 1 - @ ELSE @, !.ri = IF full THEN 0 ELSE @]
    ELSE [rb EXCEPT !.buf[rb.wi] = ch, !.wi = @ + 1,
                    !.ri = IF full THEN rb.wi + 1 ELSE @]

\* rt_ringbuffer_getchar; the byte is Copied(rb, 1).
rt_ringbuffer_getchar(rb) ==
  IF rt_ringbuffer_data_len(rb) = 0 THEN rb
  ELSE IF rb.ri = RbSize - 1 THEN [rb EXCEPT !.rm = 1 - @, !.ri = 0]
  ELSE [rb EXCEPT !.ri = @ + 1]
-----------------------------------------------------------------------------
(* A ring buffer in use.                                                   *)

CONSTANTS
  Datas,     \* the blocks of data that are written
  Lengths,   \* the lengths that are read
  AnyForce   \* is rt_ringbuffer_put_force used whether or not the data fits?

ASSUME RingUseAssumption == Datas \subseteq Seq(Byte) /\ Lengths \subseteq Nat /\ AnyForce \in BOOLEAN

VARIABLES
  ring,    \* the ring buffer
  taken    \* the bytes the last rt_ringbuffer_get or _getchar copied

rbvars == <<ring, taken>>

RbTypeOK == ring \in RingBuffers /\ taken \in Seq(Byte \cup {Junk})

RbInit == ring = rt_ringbuffer_init /\ taken = <<>>

RbPut(d) == ring' = rt_ringbuffer_put(ring, d) /\ UNCHANGED taken

\* The data fits, or replaces the whole of a full buffer.
Fits(d) ==
  \/ Len(d) <= rt_ringbuffer_space_len(ring)
  \/ Len(d) = RbSize /\ rt_ringbuffer_status(ring) = "FULL"

RbPutForce(d) ==
  /\ AnyForce \/ Fits(d)
  /\ ring' = rt_ringbuffer_put_force(ring, d)
  /\ UNCHANGED taken

RbGet(n) == ring' = rt_ringbuffer_get(ring, n) /\ taken' = Copied(ring, n)

RbPutchar(ch) == ring' = rt_ringbuffer_putchar(ring, ch) /\ UNCHANGED taken

RbPutcharForce(ch) == ring' = rt_ringbuffer_putchar_force(ring, ch) /\ UNCHANGED taken

RbGetchar == ring' = rt_ringbuffer_getchar(ring) /\ taken' = Copied(ring, 1)

RbNext ==
  \/ \E d \in Datas : RbPut(d) \/ RbPutForce(d)
  \/ \E n \in Lengths : RbGet(n)
  \/ \E ch \in Byte : RbPutchar(ch) \/ RbPutcharForce(ch)
  \/ RbGetchar

RbSpec == RbInit /\ [][RbNext]_rbvars

-----------------------------------------------------------------------------
(* Properties.                                                             *)

\* The write index is on the same round through the memory as the read index, or one
\* round ahead of it and behind it in memory.
MirrorsAgree(rb) ==
  /\ rb.wi > rb.ri => rb.rm = rb.wm
  /\ rb.wi < rb.ri => rb.rm # rb.wm

\* What the mirror bits stand for survives every wrap of either index, also when the
\* forcing functions move both: without it equal indices would take an empty buffer
\* for a full one later on.
RbMirrorsAgree == MirrorsAgree(ring)

\* What is in the buffer, oldest byte first.
Content(rb) == Copied(rb, RbSize)

\* The ring buffer is a byte queue: whatever the position of its indices and the
\* state of its mirror bits, bytes come out once and in order, what does not fit is
\* dropped, and the forcing functions drop the oldest bytes instead.
RbAbstract == INSTANCE ByteQueue WITH Size <- RbSize, q <- Content(ring), out <- taken

\* TLC cannot enumerate Seq(Byte): the steps are compared one by one.
RbImplements ==
  /\ RbAbstract!Init
  /\ [][\/ \E d \in Datas \cup {<<ch>> : ch \in Byte} : RbAbstract!Put(d) \/ RbAbstract!PutForce(d)
        \/ \E n \in Lengths \cup {1} : RbAbstract!Get(n)]_rbvars
=============================================================================
