-------------------------- MODULE RingBufferProofs --------------------------
(***************************************************************************)
(* The ring buffer implements a byte queue, for every size of the buffer   *)
(* and whatever is written and read.                                       *)
(***************************************************************************)
EXTENDS RingBuffer, TLAPS

\* A ring buffer in a state that the functions keep up.
Sound(rb) == rb \in RingBuffers /\ MirrorsAgree(rb)

\* Where byte i of the content, or the place behind it, lies.
Place(rb, i) == IF rb.ri + i - 1 < RbSize THEN rb.ri + i - 1 ELSE rb.ri + i - 1 - RbSize

-----------------------------------------------------------------------------
\* A buffer has room for a byte.
LEMMA SizePositive == RbSize \in Nat /\ RbSize > 0
  BY RingBufferAssumption

\* The fields of a ring buffer.
LEMMA Fields ==
  ASSUME NEW rb, Sound(rb)
  PROVE  /\ RbSize \in Nat /\ RbSize > 0
         /\ rb.ri \in Int /\ 0 <= rb.ri /\ rb.ri < RbSize
         /\ rb.wi \in Int /\ 0 <= rb.wi /\ rb.wi < RbSize
         /\ rb.rm \in {0, 1} /\ rb.wm \in {0, 1}
         /\ rb.buf \in [0 .. RbSize - 1 -> Byte \cup {Junk}]
<1>1. /\ rb.ri \in 0 .. RbSize - 1 /\ rb.wi \in 0 .. RbSize - 1
      /\ rb.rm \in {0, 1} /\ rb.wm \in {0, 1}
      /\ rb.buf \in [0 .. RbSize - 1 -> Byte \cup {Junk}]
  BY Zenon DEF Sound, RingBuffers
<1>2. RbSize \in Nat /\ RbSize > 0
  BY SizePositive
<1> QED BY <1>1, <1>2

\* The length, by the position of the two indices.
LEMMA DataLen ==
  ASSUME NEW rb, Sound(rb)
  PROVE  /\ rt_ringbuffer_data_len(rb) \in Int
         /\ 0 <= rt_ringbuffer_data_len(rb) /\ rt_ringbuffer_data_len(rb) <= RbSize
         /\ rb.wi > rb.ri => rt_ringbuffer_data_len(rb) = rb.wi - rb.ri
         /\ rb.wi < rb.ri => rt_ringbuffer_data_len(rb) = RbSize - (rb.ri - rb.wi)
         /\ rb.wi = rb.ri /\ rb.rm = rb.wm => rt_ringbuffer_data_len(rb) = 0
         /\ rb.wi = rb.ri /\ rb.rm # rb.wm => rt_ringbuffer_data_len(rb) = RbSize
<1>1. CASE rb.ri # rb.wi
  <2>1. rt_ringbuffer_status(rb) = "HALFFULL"
    BY <1>1 DEF rt_ringbuffer_status
  <2>2. rt_ringbuffer_data_len(rb) = IF rb.wi > rb.ri THEN rb.wi - rb.ri ELSE RbSize - (rb.ri - rb.wi)
    BY <2>1 DEF rt_ringbuffer_data_len
  <2> QED BY <1>1, <2>2, Fields
<1>2. CASE rb.ri = rb.wi /\ rb.rm = rb.wm
  <2>1. rt_ringbuffer_status(rb) = "EMPTY"
    BY <1>2 DEF rt_ringbuffer_status
  <2>2. rt_ringbuffer_data_len(rb) = 0
    BY <2>1 DEF rt_ringbuffer_data_len
  <2> QED BY <1>2, <2>2, Fields
<1>3. CASE rb.ri = rb.wi /\ rb.rm # rb.wm
  <2>1. rt_ringbuffer_status(rb) = "FULL"
    BY <1>3 DEF rt_ringbuffer_status
  <2>2. rt_ringbuffer_data_len(rb) = RbSize
    BY <2>1 DEF rt_ringbuffer_data_len
  <2> QED BY <1>3, <2>2, Fields
<1> QED BY <1>1, <1>2, <1>3

\* The same by the mirror bits.
LEMMA RoundLen ==
  ASSUME NEW rb, Sound(rb)
  PROVE  /\ rb.rm = rb.wm => rb.ri <= rb.wi /\ rt_ringbuffer_data_len(rb) = rb.wi - rb.ri
         /\ rb.rm # rb.wm => rb.wi <= rb.ri /\ rt_ringbuffer_data_len(rb) = RbSize - (rb.ri - rb.wi)
<1>1. /\ rb.wi > rb.ri => rb.rm = rb.wm
      /\ rb.wi < rb.ri => rb.rm # rb.wm
  BY DEF Sound, MirrorsAgree
<1>2. CASE rb.rm = rb.wm
  <2>1. rb.ri <= rb.wi
    BY <1>1, <1>2, Fields
  <2> QED BY <1>2, <2>1, DataLen, Fields
<1>3. CASE rb.rm # rb.wm
  <2>1. rb.wi <= rb.ri
    BY <1>1, <1>3, Fields
  <2> QED BY <1>3, <2>1, DataLen, Fields
<1> QED BY <1>2, <1>3

\* The content is a sequence of that length.
LEMMA ContentIs ==
  ASSUME NEW rb, Sound(rb)
  PROVE  /\ Content(rb) = [i \in 1 .. rt_ringbuffer_data_len(rb) |-> rb.buf[Place(rb, i)]]
         /\ Content(rb) \in Seq(Byte \cup {Junk})
         /\ Len(Content(rb)) = rt_ringbuffer_data_len(rb)
<1> DEFINE n == rt_ringbuffer_data_len(rb)
<1>1. n \in 0 .. RbSize
  BY DataLen, Fields
<1>2. Got(rb, RbSize) = n
  BY <1>1, Fields DEF Got
<1>3. Content(rb) = [i \in 1 .. n |-> rb.buf[Place(rb, i)]]
  BY <1>2 DEF Content, Copied, Place
<1>4. \A i \in 1 .. n : rb.buf[Place(rb, i)] \in Byte \cup {Junk}
  BY <1>1, Fields DEF Place
<1>5. Content(rb) \in Seq(Byte \cup {Junk}) /\ Len(Content(rb)) = n
  BY <1>1, <1>3, <1>4
<1> QED BY <1>3, <1>5
-----------------------------------------------------------------------------
(* Writing.                                                                *)

\* What Written does to each field.
LEMMA WrittenFields ==
  ASSUME NEW rb, Sound(rb), NEW d \in Seq(Byte), NEW n \in Nat,
         n <= RbSize, n <= Len(d)
  PROVE  /\ Written(rb, d, n) \in RingBuffers
         /\ Written(rb, d, n).ri = rb.ri /\ Written(rb, d, n).rm = rb.rm
         /\ IF RbSize - rb.wi > n
              THEN Written(rb, d, n).wi = rb.wi + n /\ Written(rb, d, n).wm = rb.wm
              ELSE Written(rb, d, n).wi = n - (RbSize - rb.wi) /\ Written(rb, d, n).wm = 1 - rb.wm
         /\ \A i \in 0 .. RbSize - 1 :
              Written(rb, d, n).buf[i] =
                IF rb.wi <= i /\ i < rb.wi + n THEN d[i - rb.wi + 1]
                ELSE IF i + RbSize < rb.wi + n THEN d[i + RbSize - rb.wi + 1]
                ELSE rb.buf[i]
<1> DEFINE r == Written(rb, d, n)
<1>0. rb \in RingBuffers
  BY DEF Sound
<1>a. \A j \in 1 .. Len(d) : d[j] \in Byte
  OBVIOUS
<1>1. CASE RbSize - rb.wi > n
  <2> DEFINE buf == [i \in 0 .. RbSize - 1 |->
                       IF i \in rb.wi .. rb.wi + n - 1 THEN Source(d, i - rb.wi + 1) ELSE rb.buf[i]]
  <2>1. r = [rb EXCEPT !.buf = buf, !.wi = rb.wi + n]
    BY <1>1 DEF Written
  <2>2. \A i \in 0 .. RbSize - 1 :
          buf[i] = IF rb.wi <= i /\ i < rb.wi + n THEN d[i - rb.wi + 1] ELSE rb.buf[i]
    BY Fields DEF Source
  <2>3. \A i \in 0 .. RbSize - 1 : buf[i] \in Byte \cup {Junk}
    <3> HIDE DEF buf
    <3> TAKE i \in 0 .. RbSize - 1
    <3>1. CASE rb.wi <= i /\ i < rb.wi + n
      BY <1>a, <2>2, <3>1, Fields
    <3>2. CASE ~(rb.wi <= i /\ i < rb.wi + n)
      BY <2>2, <3>2, Fields
    <3> QED BY <3>1, <3>2
  <2>4. buf \in [0 .. RbSize - 1 -> Byte \cup {Junk}]
    BY <2>3
  <2>5. rb.wi + n \in 0 .. RbSize - 1
    BY <1>1, Fields
  <2> HIDE DEF buf, r
  <2>6. r \in RingBuffers /\ r.ri = rb.ri /\ r.rm = rb.rm /\ r.wi = rb.wi + n /\ r.wm = rb.wm /\ r.buf = buf
    BY <1>0, <2>1, <2>4, <2>5 DEF RingBuffers
  <2>7. \A i \in 0 .. RbSize - 1 : ~(i + RbSize < rb.wi + n)
    BY <1>1, Fields
  <2> QED BY <1>1, <2>2, <2>6, <2>7 DEF r
<1>2. CASE ~(RbSize - rb.wi > n)
  <2> DEFINE m == n - (RbSize - rb.wi)
             buf == [i \in 0 .. RbSize - 1 |->
                       IF i >= rb.wi THEN Source(d, i - rb.wi + 1)
                       ELSE IF i < m THEN Source(d, i + RbSize - rb.wi + 1) ELSE rb.buf[i]]
  <2>1. r = [rb EXCEPT !.buf = buf, !.wm = 1 - rb.wm, !.wi = m]
    BY <1>2 DEF Written
  <2>2. \A i \in 0 .. RbSize - 1 :
          buf[i] = IF rb.wi <= i /\ i < rb.wi + n THEN d[i - rb.wi + 1]
                   ELSE IF i + RbSize < rb.wi + n THEN d[i + RbSize - rb.wi + 1] ELSE rb.buf[i]
    BY <1>2, Fields DEF Source
  <2>3. \A i \in 0 .. RbSize - 1 : buf[i] \in Byte \cup {Junk}
    <3> HIDE DEF buf
    <3> TAKE i \in 0 .. RbSize - 1
    <3>1. CASE rb.wi <= i /\ i < rb.wi + n
      BY <1>a, <2>2, <3>1, Fields
    <3>2. CASE ~(rb.wi <= i /\ i < rb.wi + n) /\ i + RbSize < rb.wi + n
      <4>1. i + RbSize - rb.wi + 1 \in 1 .. Len(d)
        BY <3>2, Fields
      <4>2. buf[i] = d[i + RbSize - rb.wi + 1]
        BY <2>2, <3>2
      <4> QED BY <1>a, <4>1, <4>2
    <3>3. CASE ~(rb.wi <= i /\ i < rb.wi + n) /\ ~(i + RbSize < rb.wi + n)
      BY <2>2, <3>3, Fields
    <3> QED BY <3>1, <3>2, <3>3
  <2>4. buf \in [0 .. RbSize - 1 -> Byte \cup {Junk}]
    BY <2>3
  <2>5. m \in 0 .. RbSize - 1 /\ 1 - rb.wm \in {0, 1}
    BY <1>2, Fields
  <2> HIDE DEF buf, r, m
  <2>6. r \in RingBuffers /\ r.ri = rb.ri /\ r.rm = rb.rm /\ r.wi = m /\ r.wm = 1 - rb.wm /\ r.buf = buf
    BY <1>0, <2>1, <2>4, <2>5 DEF RingBuffers
  <2> QED BY <1>2, <2>2, <2>6 DEF r, m
<1> QED BY <1>1, <1>2

\* The indices stay in step, and the buffer holds n bytes more.
LEMMA WrittenLength ==
  ASSUME NEW rb, Sound(rb), NEW d \in Seq(Byte), NEW n \in Nat,
         n <= RbSize - rt_ringbuffer_data_len(rb), n <= Len(d)
  PROVE  /\ Sound(Written(rb, d, n))
         /\ rt_ringbuffer_data_len(Written(rb, d, n)) = rt_ringbuffer_data_len(rb) + n
<1> DEFINE r == Written(rb, d, n)
           len == rt_ringbuffer_data_len(rb)
<1>1. /\ len \in Int /\ 0 <= len /\ len <= RbSize /\ n <= RbSize - len
      /\ rb.rm = rb.wm => rb.ri <= rb.wi /\ len = rb.wi - rb.ri
      /\ rb.rm # rb.wm => rb.wi <= rb.ri /\ len = RbSize - (rb.ri - rb.wi)
  BY DataLen, RoundLen
<1>2. n <= RbSize
  BY <1>1, Fields
<1>3. /\ r \in RingBuffers /\ r.ri = rb.ri /\ r.rm = rb.rm
      /\ IF RbSize - rb.wi > n THEN r.wi = rb.wi + n /\ r.wm = rb.wm
         ELSE r.wi = n - (RbSize - rb.wi) /\ r.wm = 1 - rb.wm
  BY <1>2, WrittenFields
<1> HIDE DEF r, len
<1>f. /\ RbSize \in Nat /\ rb.wi \in 0 .. RbSize - 1 /\ rb.ri \in 0 .. RbSize - 1
      /\ rb.rm \in {0, 1} /\ rb.wm \in {0, 1}
  BY Fields
<1>4. MirrorsAgree(r) /\ (r.rm = r.wm => r.wi - r.ri = len + n)
                      /\ (r.rm # r.wm => RbSize - (r.ri - r.wi) = len + n)
  <2>1. CASE RbSize - rb.wi > n
    <3>1. r.wi = rb.wi + n /\ r.wm = rb.wm /\ r.ri = rb.ri /\ r.rm = rb.rm
      BY <1>3, <2>1
    <3>2. CASE rb.rm = rb.wm
      <4>1. r.rm = r.wm /\ r.ri <= r.wi /\ r.wi - r.ri = len + n
        BY <1>1, <1>f, <3>1, <3>2
      <4> QED BY <1>f, <3>1, <4>1 DEF MirrorsAgree
    <3>3. CASE rb.rm # rb.wm
      <4>1. r.rm # r.wm /\ r.wi <= r.ri /\ RbSize - (r.ri - r.wi) = len + n
        BY <1>1, <1>f, <3>1, <3>3
      <4> QED BY <1>f, <3>1, <4>1 DEF MirrorsAgree
    <3> QED BY <3>2, <3>3
  <2>2. CASE ~(RbSize - rb.wi > n)
    <3>1. r.wi = n - (RbSize - rb.wi) /\ r.wm = 1 - rb.wm /\ r.ri = rb.ri /\ r.rm = rb.rm
      BY <1>3, <2>2
    <3>2. CASE rb.rm = rb.wm
      <4>1. r.rm # r.wm
        BY <1>f, <3>1, <3>2
      <4>2. r.wi <= r.ri /\ RbSize - (r.ri - r.wi) = len + n
        BY <1>1, <1>f, <3>1, <3>2
      <4> QED BY <1>f, <3>1, <4>1, <4>2 DEF MirrorsAgree
    <3>3. CASE rb.rm # rb.wm
      BY <1>1, <1>f, <2>2, <3>3
    <3> QED BY <3>2, <3>3
  <2> QED BY <2>1, <2>2
<1>5. Sound(r)
  BY <1>3, <1>4 DEF Sound
<1>6. rt_ringbuffer_data_len(r) = len + n
  BY <1>4, <1>5, RoundLen
<1> QED BY <1>5, <1>6 DEF r, len

\* In a buffer that holds len bytes and has room for n more, p is the place of byte i
\* of them all.
Layout(size, ri, wi, len, n, i, p) ==
  /\ 0 <= ri /\ ri < size /\ 0 <= wi /\ wi < size /\ 0 <= len /\ 0 <= n /\ n <= size - len
  /\ (ri <= wi /\ len = wi - ri) \/ (wi <= ri /\ len = size - (ri - wi))
  /\ 1 <= i /\ i <= len + n
  /\ p = IF ri + i - 1 < size THEN ri + i - 1 ELSE ri + i - 1 - size

\* The n places behind the write index do not hold byte i of the content, and hold
\* the others in order.
BehindOrIn(size, wi, len, n, i, p) ==
  /\ i <= len => ~(wi <= p /\ p < wi + n) /\ ~(p + size < wi + n)
  /\ i > len => \/ wi <= p /\ p < wi + n /\ p - wi + 1 = i - len
                \/ ~(wi <= p) /\ p + size < wi + n /\ p + size - wi + 1 = i - len

\* Where the place p of byte i lies when a buffer of len bytes gets n more: behind the
\* write index, or in what was there.
LEMMA Places ==
  ASSUME NEW size \in Int, NEW ri \in Int, NEW wi \in Int, NEW len \in Int, NEW n \in Int,
         NEW i \in Int, NEW p \in Int, Layout(size, ri, wi, len, n, i, p)
  PROVE  BehindOrIn(size, wi, len, n, i, p)
<1>1. CASE ri <= wi /\ len = wi - ri /\ ri + i - 1 < size
  <2>1. p = ri + i - 1
    BY <1>1 DEF Layout
  <2> QED BY <1>1, <2>1 DEF Layout, BehindOrIn
<1>2. CASE ri <= wi /\ len = wi - ri /\ ~(ri + i - 1 < size)
  <2>1. p = ri + i - 1 - size
    BY <1>2 DEF Layout
  <2> QED BY <1>2, <2>1 DEF Layout, BehindOrIn
<1>3. CASE wi <= ri /\ len = size - (ri - wi) /\ ri + i - 1 < size
  <2>1. p = ri + i - 1
    BY <1>3 DEF Layout
  <2> QED BY <1>3, <2>1 DEF Layout, BehindOrIn
<1>4. CASE wi <= ri /\ len = size - (ri - wi) /\ ~(ri + i - 1 < size)
  <2>1. p = ri + i - 1 - size
    BY <1>4 DEF Layout
  <2> QED BY <1>4, <2>1 DEF Layout, BehindOrIn
<1> QED BY <1>1, <1>2, <1>3, <1>4 DEF Layout

\* The n bytes are behind the ones that were in the buffer.
LEMMA WrittenContent ==
  ASSUME NEW rb, Sound(rb), NEW d \in Seq(Byte), NEW n \in Nat,
         n <= RbSize - rt_ringbuffer_data_len(rb), n <= Len(d)
  PROVE  Content(Written(rb, d, n)) = RbAbstract!Join(Content(rb), d, n)
<1> DEFINE r == Written(rb, d, n)
           len == rt_ringbuffer_data_len(rb)
<1>1. /\ len \in Int /\ 0 <= len /\ len <= RbSize /\ n <= RbSize - len
      /\ rb.rm = rb.wm => rb.ri <= rb.wi /\ len = rb.wi - rb.ri
      /\ rb.rm # rb.wm => rb.wi <= rb.ri /\ len = RbSize - (rb.ri - rb.wi)
  BY DataLen, RoundLen
<1>f. /\ RbSize \in Nat /\ rb.wi \in 0 .. RbSize - 1 /\ rb.ri \in 0 .. RbSize - 1
  BY Fields
<1>2. n <= RbSize
  BY <1>1, <1>f
<1>3. /\ r.ri = rb.ri
      /\ \A i \in 0 .. RbSize - 1 :
           r.buf[i] = IF rb.wi <= i /\ i < rb.wi + n THEN d[i - rb.wi + 1]
                      ELSE IF i + RbSize < rb.wi + n THEN d[i + RbSize - rb.wi + 1]
                      ELSE rb.buf[i]
  BY <1>2, WrittenFields
<1>4. Sound(r) /\ rt_ringbuffer_data_len(r) = len + n
  BY WrittenLength
<1>5. Content(r) = [i \in 1 .. len + n |-> r.buf[Place(r, i)]]
  BY <1>4, ContentIs
<1>6. Content(rb) = [i \in 1 .. len |-> rb.buf[Place(rb, i)]] /\ Len(Content(rb)) = len
  BY ContentIs
<1> HIDE DEF r, len
<1>7. ASSUME NEW i \in 1 .. len + n
      PROVE  r.buf[Place(r, i)] = IF i <= len THEN rb.buf[Place(rb, i)] ELSE d[i - len]
  <2>1. Place(r, i) = Place(rb, i) /\ Place(rb, i) \in 0 .. RbSize - 1
    BY <1>1, <1>3, <1>f DEF Place
  <2> DEFINE p == Place(rb, i)
  <2>2. p = IF rb.ri + i - 1 < RbSize THEN rb.ri + i - 1 ELSE rb.ri + i - 1 - RbSize
    BY DEF Place
  <2>3. p \in 0 .. RbSize - 1
    BY <2>1
  <2> HIDE DEF p
  <2>p. BehindOrIn(RbSize, rb.wi, len, n, i, p)
    <3>1. /\ RbSize \in Int /\ rb.ri \in Int /\ rb.wi \in Int /\ len \in Int /\ n \in Int
          /\ i \in Int /\ p \in Int
      BY <1>1, <1>f, <2>3
    <3>2. Layout(RbSize, rb.ri, rb.wi, len, n, i, p)
      BY <1>1, <1>f, <2>2 DEF Layout
    <3> QED BY <3>1, <3>2, Places
  <2>4. CASE i <= len
    <3>1. ~(rb.wi <= p /\ p < rb.wi + n) /\ ~(p + RbSize < rb.wi + n)
      BY <2>p, <2>4 DEF BehindOrIn
    <3>2. r.buf[p] = rb.buf[p]
      BY <1>3, <2>3, <3>1
    <3> QED BY <2>1, <2>4, <3>2 DEF p
  <2>5. CASE ~(i <= len)
    <3>1. \/ rb.wi <= p /\ p < rb.wi + n /\ p - rb.wi + 1 = i - len
          \/ ~(rb.wi <= p) /\ p + RbSize < rb.wi + n /\ p + RbSize - rb.wi + 1 = i - len
      BY <1>1, <2>p, <2>5 DEF BehindOrIn
    <3>2. r.buf[p] = d[i - len]
      BY <1>3, <2>3, <3>1
    <3> QED BY <2>1, <2>5, <3>2 DEF p
  <2> QED BY <2>4, <2>5
<1>8. Content(r) = [i \in 1 .. len + n |-> IF i <= len THEN rb.buf[Place(rb, i)] ELSE d[i - len]]
  BY <1>5, <1>7
<1>9. RbAbstract!Join(Content(rb), d, n)
        = [i \in 1 .. len + n |-> IF i <= len THEN Content(rb)[i] ELSE d[i - len]]
  BY <1>6 DEF RbAbstract!Join
<1>10. \A i \in 1 .. len + n : i <= len => Content(rb)[i] = rb.buf[Place(rb, i)]
  BY <1>1, <1>6
<1> QED BY <1>8, <1>9, <1>10 DEF r, len

\* rt_ringbuffer_put appends what fits.
LEMMA PutAppends ==
  ASSUME NEW rb, Sound(rb), NEW d \in Seq(Byte)
  PROVE  /\ Sound(rt_ringbuffer_put(rb, d))
         /\ Content(rt_ringbuffer_put(rb, d))
              = RbAbstract!Join(Content(rb), d, RbAbstract!Least(Len(d), RbSize - Len(Content(rb))))
<1> DEFINE space == RbSize - rt_ringbuffer_data_len(rb)
           n == IF space < Len(d) THEN space ELSE Len(d)
<1>1. /\ space \in Nat /\ space <= RbSize - rt_ringbuffer_data_len(rb)
      /\ rt_ringbuffer_space_len(rb) = space /\ RbSize - Len(Content(rb)) = space
  BY DataLen, ContentIs, Fields DEF rt_ringbuffer_space_len
<1> HIDE DEF space
<1>2. n \in Nat /\ n <= space /\ n <= Len(d) /\ n = RbAbstract!Least(Len(d), space)
  BY <1>1 DEF RbAbstract!Least
<1>3. CASE space = 0
  <2>1. rt_ringbuffer_put(rb, d) = rb
    BY <1>1, <1>3 DEF rt_ringbuffer_put
  <2>2. n = 0
    BY <1>1, <1>2, <1>3
  <2>3. RbAbstract!Join(Content(rb), d, 0) = Content(rb)
    BY ContentIs DEF RbAbstract!Join
  <2> QED BY <1>1, <1>2, <2>1, <2>2, <2>3
<1>4. CASE space # 0
  <2>1. rt_ringbuffer_put(rb, d) = Written(rb, d, n)
    BY <1>1, <1>4 DEF rt_ringbuffer_put
  <2> HIDE DEF n
  <2>2. n <= RbSize - rt_ringbuffer_data_len(rb)
    BY <1>2 DEF space
  <2>3. Sound(Written(rb, d, n))
    BY <1>2, <2>2, WrittenLength
  <2>4. Content(Written(rb, d, n)) = RbAbstract!Join(Content(rb), d, n)
    BY <1>2, <2>2, WrittenContent
  <2> QED BY <1>1, <1>2, <2>1, <2>3, <2>4
<1> QED BY <1>3, <1>4

-----------------------------------------------------------------------------
(* Reading.                                                                *)

\* What rt_ringbuffer_get does to each field.
LEMMA GetFields ==
  ASSUME NEW rb, Sound(rb), NEW n \in Nat
  PROVE  LET r == rt_ringbuffer_get(rb, n)
             m == Got(rb, n)
         IN /\ m \in 0 .. rt_ringbuffer_data_len(rb)
            /\ r \in RingBuffers
            /\ r.buf = rb.buf /\ r.wi = rb.wi /\ r.wm = rb.wm
            /\ IF RbSize - rb.ri > m THEN r.ri = rb.ri + m /\ r.rm = rb.rm
               ELSE r.ri = m - (RbSize - rb.ri) /\ r.rm = 1 - rb.rm
<1> DEFINE m == Got(rb, n)
           r == rt_ringbuffer_get(rb, n)
<1>0. rb \in RingBuffers
  BY DEF Sound
<1>1. m \in 0 .. rt_ringbuffer_data_len(rb)
  BY DataLen DEF Got
<1>2. m \in Int /\ 0 <= m /\ m <= RbSize
  BY <1>1, DataLen, Fields
<1>f. /\ RbSize \in Nat /\ rb.ri \in Int /\ 0 <= rb.ri /\ rb.ri < RbSize /\ rb.rm \in {0, 1}
  BY Fields
<1>3. CASE m = 0
  <2>1. r = rb
    BY <1>3 DEF rt_ringbuffer_get
  <2> HIDE DEF m, r
  <2>2. RbSize - rb.ri > m /\ rb.ri + m = rb.ri
    BY <1>3, <1>f
  <2> QED BY <1>0, <1>1, <2>1, <2>2 DEF m, r
<1>4. CASE m # 0 /\ RbSize - rb.ri > m
  <2>1. r = [rb EXCEPT !.ri = rb.ri + m]
    BY <1>4 DEF rt_ringbuffer_get
  <2> HIDE DEF m, r
  <2>2. rb.ri + m \in 0 .. RbSize - 1
    BY <1>2, <1>4, <1>f
  <2>3. /\ r \in RingBuffers /\ r.buf = rb.buf /\ r.wi = rb.wi /\ r.wm = rb.wm
        /\ r.ri = rb.ri + m /\ r.rm = rb.rm
    BY <1>0, <2>1, <2>2 DEF RingBuffers
  <2> QED BY <1>1, <1>4, <2>3 DEF m, r
<1>5. CASE m # 0 /\ ~(RbSize - rb.ri > m)
  <2>1. r = [rb EXCEPT !.rm = 1 - rb.rm, !.ri = m - (RbSize - rb.ri)]
    BY <1>5 DEF rt_ringbuffer_get
  <2> HIDE DEF m, r
  <2>2. m - (RbSize - rb.ri) \in 0 .. RbSize - 1 /\ 1 - rb.rm \in {0, 1}
    BY <1>2, <1>5, <1>f
  <2>3. /\ r \in RingBuffers /\ r.buf = rb.buf /\ r.wi = rb.wi /\ r.wm = rb.wm
        /\ r.ri = m - (RbSize - rb.ri) /\ r.rm = 1 - rb.rm
    BY <1>0, <2>1, <2>2 DEF RingBuffers
  <2> QED BY <1>1, <1>5, <2>3 DEF m, r
<1> QED BY <1>3, <1>4, <1>5

\* The indices stay in step, and the buffer holds m bytes less.
LEMMA GetLength ==
  ASSUME NEW rb, Sound(rb), NEW n \in Nat
  PROVE  /\ Sound(rt_ringbuffer_get(rb, n))
         /\ rt_ringbuffer_data_len(rt_ringbuffer_get(rb, n)) = rt_ringbuffer_data_len(rb) - Got(rb, n)
<1> DEFINE r == rt_ringbuffer_get(rb, n)
           m == Got(rb, n)
           len == rt_ringbuffer_data_len(rb)
<1>1. /\ len \in Int /\ 0 <= len /\ len <= RbSize
      /\ rb.rm = rb.wm => rb.ri <= rb.wi /\ len = rb.wi - rb.ri
      /\ rb.rm # rb.wm => rb.wi <= rb.ri /\ len = RbSize - (rb.ri - rb.wi)
  BY DataLen, RoundLen
<1>2. /\ m \in 0 .. len /\ r \in RingBuffers /\ r.wi = rb.wi /\ r.wm = rb.wm
      /\ IF RbSize - rb.ri > m THEN r.ri = rb.ri + m /\ r.rm = rb.rm
         ELSE r.ri = m - (RbSize - rb.ri) /\ r.rm = 1 - rb.rm
  BY GetFields
<1> HIDE DEF r, m, len
<1>f. /\ RbSize \in Nat /\ rb.wi \in 0 .. RbSize - 1 /\ rb.ri \in 0 .. RbSize - 1
      /\ rb.rm \in {0, 1} /\ rb.wm \in {0, 1} /\ m \in Int /\ 0 <= m /\ m <= len
  BY <1>1, <1>2, Fields
<1>3. MirrorsAgree(r) /\ (r.rm = r.wm => r.wi - r.ri = len - m)
                      /\ (r.rm # r.wm => RbSize - (r.ri - r.wi) = len - m)
  <2>1. CASE RbSize - rb.ri > m
    <3>1. r.ri = rb.ri + m /\ r.rm = rb.rm /\ r.wi = rb.wi /\ r.wm = rb.wm
      BY <1>2, <2>1
    <3>2. CASE rb.rm = rb.wm
      <4>1. r.rm = r.wm /\ r.ri <= r.wi /\ r.wi - r.ri = len - m
        BY <1>1, <1>f, <3>1, <3>2
      <4> QED BY <1>f, <3>1, <4>1 DEF MirrorsAgree
    <3>3. CASE rb.rm # rb.wm
      <4>1. r.rm # r.wm /\ r.wi <= r.ri /\ RbSize - (r.ri - r.wi) = len - m
        BY <1>1, <1>f, <3>1, <3>3
      <4> QED BY <1>f, <3>1, <4>1 DEF MirrorsAgree
    <3> QED BY <3>2, <3>3
  <2>2. CASE ~(RbSize - rb.ri > m)
    <3>1. r.ri = m - (RbSize - rb.ri) /\ r.rm = 1 - rb.rm /\ r.wi = rb.wi /\ r.wm = rb.wm
      BY <1>2, <2>2
    <3>2. rb.rm # rb.wm
      BY <1>1, <1>f, <2>2
    <3>3. r.rm = r.wm
      BY <1>f, <3>1, <3>2
    <3>4. r.ri <= r.wi /\ r.wi - r.ri = len - m
      BY <1>1, <1>f, <3>1, <3>2
    <3> QED BY <1>f, <3>1, <3>3, <3>4 DEF MirrorsAgree
  <2> QED BY <2>1, <2>2
<1>4. Sound(r)
  BY <1>2, <1>3 DEF Sound
<1>5. rt_ringbuffer_data_len(r) = len - m
  BY <1>3, <1>4, RoundLen
<1> QED BY <1>4, <1>5 DEF r, m, len

\* rt_ringbuffer_get copies the oldest bytes out and leaves the others.
LEMMA GetReads ==
  ASSUME NEW rb, Sound(rb), NEW n \in Nat
  PROVE  /\ Sound(rt_ringbuffer_get(rb, n))
         /\ Copied(rb, n) = RbAbstract!First(Content(rb), RbAbstract!Least(n, Len(Content(rb))))
         /\ Content(rt_ringbuffer_get(rb, n))
              = RbAbstract!After(Content(rb), RbAbstract!Least(n, Len(Content(rb))))
         /\ Copied(rb, n) \in Seq(Byte \cup {Junk})
<1> DEFINE r == rt_ringbuffer_get(rb, n)
           m == Got(rb, n)
           len == rt_ringbuffer_data_len(rb)
<1>1. /\ m \in 0 .. len /\ r.buf = rb.buf
      /\ IF RbSize - rb.ri > m THEN r.ri = rb.ri + m ELSE r.ri = m - (RbSize - rb.ri)
  BY GetFields
<1>2. Sound(r) /\ rt_ringbuffer_data_len(r) = len - m
  BY GetLength
<1>3. /\ Content(rb) = [i \in 1 .. len |-> rb.buf[Place(rb, i)]]
      /\ Content(rb) \in Seq(Byte \cup {Junk}) /\ Len(Content(rb)) = len
  BY ContentIs
<1>4. len \in Int /\ 0 <= len /\ len <= RbSize
  BY DataLen
<1>5. m = RbAbstract!Least(n, len)
  BY <1>4 DEF Got, RbAbstract!Least
<1>6. Copied(rb, n) = [i \in 1 .. m |-> rb.buf[Place(rb, i)]]
  BY DEF Copied, Place
<1>7. Content(r) = [i \in 1 .. len - m |-> r.buf[Place(r, i)]]
  BY <1>2, ContentIs
<1>f. RbSize \in Nat /\ rb.ri \in Int /\ 0 <= rb.ri /\ rb.ri < RbSize
  BY Fields
<1> HIDE DEF r, m, len
<1>8. \A i \in 1 .. len - m : Place(r, i) = Place(rb, i + m) /\ i + m \in 1 .. len
  <2> TAKE i \in 1 .. len - m
  <2>1. i + m \in 1 .. len /\ i \in Int /\ m \in Int /\ 1 <= i /\ 0 <= m /\ i + m <= RbSize
    BY <1>1, <1>4, <1>f
  <2>2. CASE RbSize - rb.ri > m
    <3>1. r.ri = rb.ri + m
      BY <1>1, <2>2
    <3> QED BY <1>f, <2>1, <3>1 DEF Place
  <2>3. CASE ~(RbSize - rb.ri > m)
    <3>1. r.ri = m - (RbSize - rb.ri)
      BY <1>1, <2>3
    <3>2. Place(r, i) = r.ri + i - 1
      BY <1>f, <2>1, <3>1 DEF Place
    <3>3. Place(rb, i + m) = rb.ri + (i + m) - 1 - RbSize
      BY <1>f, <2>1, <2>3 DEF Place
    <3> QED BY <1>f, <2>1, <3>1, <3>2, <3>3
  <2> QED BY <2>2, <2>3
<1>9. Content(r) = RbAbstract!After(Content(rb), m)
  <2>1. RbAbstract!After(Content(rb), m) = [i \in 1 .. len - m |-> Content(rb)[i + m]]
    BY <1>3 DEF RbAbstract!After
  <2>2. \A i \in 1 .. len - m : r.buf[Place(r, i)] = Content(rb)[i + m]
    BY <1>1, <1>3, <1>8
  <2> QED BY <1>7, <2>1, <2>2
<1>10. Copied(rb, n) = RbAbstract!First(Content(rb), m)
  <2>1. \A i \in 1 .. m : rb.buf[Place(rb, i)] = Content(rb)[i]
    BY <1>1, <1>3, <1>4
  <2> QED BY <1>6, <2>1 DEF RbAbstract!First
<1>11. Copied(rb, n) \in Seq(Byte \cup {Junk})
  <2>1. \A i \in 1 .. m : rb.buf[Place(rb, i)] \in Byte \cup {Junk}
    BY <1>1, <1>3, <1>4
  <2> QED BY <1>1, <1>4, <1>6, <2>1
<1> QED BY <1>2, <1>3, <1>5, <1>9, <1>10, <1>11 DEF r

-----------------------------------------------------------------------------
(* One byte at a time.                                                     *)

\* One byte that fits is written as a block of one byte is.
LEMMA CharWritten ==
  ASSUME NEW rb, Sound(rb), NEW ch \in Byte
  PROVE  Written(rb, <<ch>>, 1)
           = IF rb.wi = RbSize - 1 THEN [rb EXCEPT !.buf[rb.wi] = ch, !.wm = 1 - @, !.wi = 0]
             ELSE [rb EXCEPT !.buf[rb.wi] = ch, !.wi = @ + 1]
<1>f. /\ RbSize \in Nat /\ rb.wi \in Int /\ 0 <= rb.wi /\ rb.wi < RbSize
      /\ rb.buf \in [0 .. RbSize - 1 -> Byte \cup {Junk}]
  BY Fields
<1> DEFINE buf == [rb.buf EXCEPT ![rb.wi] = ch]
<1>1. CASE rb.wi = RbSize - 1
  <2> DEFINE new == [i \in 0 .. RbSize - 1 |->
                       IF i >= rb.wi THEN Source(<<ch>>, i - rb.wi + 1)
                       ELSE IF i < 1 - (RbSize - rb.wi) THEN Source(<<ch>>, i + RbSize - rb.wi + 1)
                       ELSE rb.buf[i]]
  <2>1. 1 - (RbSize - rb.wi) = 0 /\ ~(RbSize - rb.wi > 1)
    BY <1>1, <1>f
  <2>2. Written(rb, <<ch>>, 1) = [rb EXCEPT !.buf = new, !.wm = 1 - rb.wm, !.wi = 1 - (RbSize - rb.wi)]
    BY <2>1 DEF Written
  <2>3. new = buf
    <3>1. ASSUME NEW i \in 0 .. RbSize - 1 PROVE new[i] = buf[i]
      <4>1. CASE i = rb.wi
        <5>1. i >= rb.wi /\ i - rb.wi + 1 = 1
          BY <1>f, <4>1
        <5>2. Source(<<ch>>, 1) = ch
          BY DEF Source
        <5>3. new[i] = ch
          BY <5>1, <5>2
        <5> QED BY <1>f, <4>1, <5>3
      <4>2. CASE i # rb.wi
        <5>1. ~(i >= rb.wi) /\ ~(i < 1 - (RbSize - rb.wi))
          BY <1>1, <1>f, <4>2
        <5>2. new[i] = rb.buf[i]
          BY <5>1
        <5> QED BY <1>f, <4>2, <5>2
      <4> QED BY <4>1, <4>2
    <3> QED BY <1>f, <3>1
  <2> QED BY <1>1, <2>1, <2>2, <2>3
<1>2. CASE rb.wi # RbSize - 1
  <2> DEFINE new == [i \in 0 .. RbSize - 1 |->
                       IF i \in rb.wi .. rb.wi + 1 - 1 THEN Source(<<ch>>, i - rb.wi + 1) ELSE rb.buf[i]]
  <2>1. RbSize - rb.wi > 1
    BY <1>2, <1>f
  <2>2. Written(rb, <<ch>>, 1) = [rb EXCEPT !.buf = new, !.wi = rb.wi + 1]
    BY <2>1 DEF Written
  <2>3. new = buf
    <3>1. \A i \in 0 .. RbSize - 1 : new[i] = buf[i]
      BY <1>2, <1>f DEF Source
    <3> QED BY <1>f, <3>1
  <2> QED BY <1>2, <2>2, <2>3
<1> QED BY <1>1, <1>2

\* rt_ringbuffer_putchar is rt_ringbuffer_put of one byte.
LEMMA PutcharIsPut ==
  ASSUME NEW rb, Sound(rb), NEW ch \in Byte
  PROVE  rt_ringbuffer_putchar(rb, ch) = rt_ringbuffer_put(rb, <<ch>>)
<1>1. rt_ringbuffer_space_len(rb) \in Nat
  BY DataLen, Fields DEF rt_ringbuffer_space_len
<1>2. CASE rt_ringbuffer_space_len(rb) = 0
  BY <1>2 DEF rt_ringbuffer_putchar, rt_ringbuffer_put
<1>3. CASE rt_ringbuffer_space_len(rb) # 0
  <2>1. ~(rt_ringbuffer_space_len(rb) < Len(<<ch>>)) /\ Len(<<ch>>) = 1
    BY <1>1, <1>3
  <2>2. rt_ringbuffer_put(rb, <<ch>>) = Written(rb, <<ch>>, 1)
    BY <1>3, <2>1 DEF rt_ringbuffer_put
  <2> QED BY <1>3, <2>2, CharWritten DEF rt_ringbuffer_putchar
<1> QED BY <1>2, <1>3

\* rt_ringbuffer_getchar is rt_ringbuffer_get of one byte.
LEMMA GetcharIsGet ==
  ASSUME NEW rb, Sound(rb)
  PROVE  rt_ringbuffer_getchar(rb) = rt_ringbuffer_get(rb, 1)
<1>1. /\ rt_ringbuffer_data_len(rb) \in Int /\ 0 <= rt_ringbuffer_data_len(rb)
      /\ RbSize \in Nat /\ rb.ri \in Int /\ 0 <= rb.ri /\ rb.ri < RbSize
  BY DataLen, Fields
<1>2. Got(rb, 1) = IF rt_ringbuffer_data_len(rb) = 0 THEN 0 ELSE 1
  BY <1>1 DEF Got
<1>3. CASE rt_ringbuffer_data_len(rb) = 0
  BY <1>2, <1>3 DEF rt_ringbuffer_getchar, rt_ringbuffer_get
<1>4. CASE rt_ringbuffer_data_len(rb) # 0 /\ rb.ri = RbSize - 1
  <2>1. Got(rb, 1) = 1 /\ ~(RbSize - rb.ri > 1) /\ 1 - (RbSize - rb.ri) = 0
    BY <1>1, <1>2, <1>4
  <2>2. Got(rb, 1) # 0 /\ ~(RbSize - rb.ri > Got(rb, 1)) /\ Got(rb, 1) - (RbSize - rb.ri) = 0
    BY <2>1
  <2>3. rt_ringbuffer_get(rb, 1) = [rb EXCEPT !.rm = 1 - rb.rm, !.ri = 0]
    BY <2>2, Zenon DEF rt_ringbuffer_get
  <2> QED BY <1>4, <2>3 DEF rt_ringbuffer_getchar
<1>5. CASE rt_ringbuffer_data_len(rb) # 0 /\ rb.ri # RbSize - 1
  <2>1. Got(rb, 1) = 1 /\ RbSize - rb.ri > 1
    BY <1>1, <1>2, <1>5
  <2> QED BY <1>5, <2>1 DEF rt_ringbuffer_getchar, rt_ringbuffer_get
<1> QED BY <1>3, <1>4, <1>5

-----------------------------------------------------------------------------
(* Forcing.                                                                *)

\* What a forcing function leaves of s and the whole of d.
Newest(s, d) ==
  LET all == RbAbstract!Join(s, d, Len(d)) IN
  IF Len(all) <= RbSize THEN all ELSE RbAbstract!After(all, Len(all) - RbSize)

\* All of a block of data behind a queue.
LEMMA JoinLen ==
  ASSUME NEW S, NEW s \in Seq(S), NEW d \in Seq(S)
  PROVE  /\ RbAbstract!Join(s, d, Len(d)) = [i \in 1 .. Len(s) + Len(d) |-> IF i <= Len(s) THEN s[i] ELSE d[i - Len(s)]]
         /\ Len(RbAbstract!Join(s, d, Len(d))) = Len(s) + Len(d)
<1> DEFINE all == RbAbstract!Join(s, d, Len(d))
<1>1. all = [i \in 1 .. Len(s) + Len(d) |-> IF i <= Len(s) THEN s[i] ELSE d[i - Len(s)]]
  BY DEF RbAbstract!Join
<1>2. \A i \in 1 .. Len(s) + Len(d) : (IF i <= Len(s) THEN s[i] ELSE d[i - Len(s)]) \in S
  OBVIOUS
<1>3. Len(all) = Len(s) + Len(d)
  BY <1>1, <1>2
<1> QED BY <1>1, <1>3

\* Data that fits is appended.
LEMMA FittingForce ==
  ASSUME NEW rb, Sound(rb), NEW d \in Seq(Byte), Len(d) <= RbSize - rt_ringbuffer_data_len(rb)
  PROVE  /\ Sound(Written(rb, d, Len(d)))
         /\ Content(Written(rb, d, Len(d))) = Newest(Content(rb), d)
<1>1. Sound(Written(rb, d, Len(d)))
  BY WrittenLength
<1>2. Content(Written(rb, d, Len(d))) = RbAbstract!Join(Content(rb), d, Len(d))
  BY WrittenContent
<1>3. d \in Seq(Byte \cup {Junk}) /\ Content(rb) \in Seq(Byte \cup {Junk})
  BY ContentIs
<1>4. Len(RbAbstract!Join(Content(rb), d, Len(d))) = rt_ringbuffer_data_len(rb) + Len(d)
  BY <1>3, JoinLen, ContentIs
<1>5. Len(RbAbstract!Join(Content(rb), d, Len(d))) <= RbSize
  BY <1>4, DataLen, Fields
<1> QED BY <1>1, <1>2, <1>5 DEF Newest

\* The fields of a full buffer.
LEMMA Full ==
  ASSUME NEW rb, Sound(rb), rt_ringbuffer_status(rb) = "FULL"
  PROVE  rb.wi = rb.ri /\ rb.rm # rb.wm /\ rt_ringbuffer_data_len(rb) = RbSize
<1>1. rb.wi = rb.ri /\ rb.rm # rb.wm
  BY DEF rt_ringbuffer_status
<1> QED BY <1>1, DataLen

\* rt_ringbuffer_put_force appends data that fits, and replaces the content of a full
\* buffer by as much data.
LEMMA PutForceReplaces ==
  ASSUME NEW rb, Sound(rb), NEW d \in Seq(Byte),
         \/ Len(d) <= rt_ringbuffer_space_len(rb)
         \/ Len(d) = RbSize /\ rt_ringbuffer_status(rb) = "FULL"
  PROVE  /\ Sound(rt_ringbuffer_put_force(rb, d))
         /\ Content(rt_ringbuffer_put_force(rb, d)) = Newest(Content(rb), d)
<1> DEFINE r == rt_ringbuffer_put_force(rb, d)
           w == Written(rb, d, RbSize)
<1>s. rt_ringbuffer_space_len(rb) = RbSize - rt_ringbuffer_data_len(rb)
  BY DEF rt_ringbuffer_space_len
<1>f. /\ RbSize \in Nat /\ RbSize > 0 /\ rb.wi \in Int /\ 0 <= rb.wi /\ rb.wi < RbSize
      /\ rb.rm \in {0, 1} /\ rb.wm \in {0, 1}
  BY Fields
<1>1. CASE Len(d) <= rt_ringbuffer_space_len(rb)
  <2>1. ~(Len(d) > rt_ringbuffer_space_len(rb))
    BY <1>1, <1>s, <1>f, DataLen
  <2>2. r = Written(rb, d, Len(d))
    BY <1>1, <2>1 DEF rt_ringbuffer_put_force
  <2> QED BY <1>1, <1>s, <2>2, FittingForce
<1>2. CASE Len(d) = RbSize /\ rt_ringbuffer_status(rb) = "FULL"
  <2>1. rb.wi = rb.ri /\ rb.rm # rb.wm /\ rt_ringbuffer_data_len(rb) = RbSize
    BY <1>2, Full
  <2>2. /\ rt_ringbuffer_space_len(rb) = 0 /\ Len(d) > rt_ringbuffer_space_len(rb)
        /\ ~(RbSize <= rt_ringbuffer_space_len(rb)) /\ ~(RbSize - rb.wi > RbSize)
    BY <1>2, <1>s, <1>f, <2>1
  <2>3. /\ w \in RingBuffers /\ w.ri = rb.ri /\ w.rm = rb.rm
        /\ w.wi = RbSize - (RbSize - rb.wi) /\ w.wm = 1 - rb.wm
        /\ \A i \in 0 .. RbSize - 1 :
             w.buf[i] = IF rb.wi <= i /\ i < rb.wi + RbSize THEN d[i - rb.wi + 1]
                        ELSE IF i + RbSize < rb.wi + RbSize THEN d[i + RbSize - rb.wi + 1]
                        ELSE rb.buf[i]
    BY <1>2, <1>f, <2>2, WrittenFields
  <2>4. r = [w EXCEPT !.rm = 1 - w.rm, !.ri = w.wi]
    BY <2>2, Zenon DEF rt_ringbuffer_put_force
  <2> HIDE DEF w, r
  <2>5. 1 - w.rm \in {0, 1} /\ w.wi \in 0 .. RbSize - 1
    BY <1>f, <2>3
  <2>6. /\ r \in RingBuffers /\ r.ri = w.wi /\ r.rm = 1 - w.rm /\ r.wi = w.wi /\ r.wm = w.wm
        /\ r.buf = w.buf
    BY <2>3, <2>4, <2>5 DEF RingBuffers
  <2>7. r.ri = rb.wi /\ r.wi = rb.wi /\ r.rm # r.wm
    BY <1>f, <2>1, <2>3, <2>6
  <2>8. MirrorsAgree(r)
    BY <1>f, <2>7 DEF MirrorsAgree
  <2>9. Sound(r)
    BY <2>6, <2>8 DEF Sound
  <2>10. rt_ringbuffer_data_len(r) = RbSize
    BY <2>7, <2>9, DataLen
  <2>11. Content(r) = [i \in 1 .. RbSize |-> r.buf[Place(r, i)]]
    BY <2>9, <2>10, ContentIs
  <2>12. ASSUME NEW i \in 1 .. RbSize PROVE r.buf[Place(r, i)] = d[i]
    <3>1. CASE rb.wi + i - 1 < RbSize
      <4>1. Place(r, i) = rb.wi + i - 1
        BY <2>7, <3>1 DEF Place
      <4>2. /\ Place(r, i) \in 0 .. RbSize - 1 /\ rb.wi <= Place(r, i) /\ Place(r, i) < rb.wi + RbSize
            /\ Place(r, i) - rb.wi + 1 = i
        BY <1>f, <3>1, <4>1
      <4> QED BY <2>3, <2>6, <4>2
    <3>2. CASE ~(rb.wi + i - 1 < RbSize)
      <4>1. Place(r, i) = rb.wi + i - 1 - RbSize
        BY <2>7, <3>2 DEF Place
      <4>2. /\ Place(r, i) \in 0 .. RbSize - 1 /\ ~(rb.wi <= Place(r, i))
            /\ Place(r, i) + RbSize < rb.wi + RbSize /\ Place(r, i) + RbSize - rb.wi + 1 = i
        BY <1>f, <3>2, <4>1
      <4> QED BY <2>3, <2>6, <4>2
    <3> QED BY <3>1, <3>2
  <2>13. Content(r) = [i \in 1 .. RbSize |-> d[i]]
    BY <2>11, <2>12
  <2>14. Newest(Content(rb), d) = [i \in 1 .. RbSize |-> d[i]]
    <3> DEFINE all == RbAbstract!Join(Content(rb), d, Len(d))
    <3>1. Content(rb) \in Seq(Byte \cup {Junk}) /\ Len(Content(rb)) = RbSize /\ d \in Seq(Byte \cup {Junk})
      BY <2>1, ContentIs
    <3>2. /\ all = [i \in 1 .. RbSize + RbSize |-> IF i <= RbSize THEN Content(rb)[i] ELSE d[i - RbSize]]
          /\ Len(all) = RbSize + RbSize
      <4>1. /\ all = [i \in 1 .. Len(Content(rb)) + Len(d) |->
                        IF i <= Len(Content(rb)) THEN Content(rb)[i] ELSE d[i - Len(Content(rb))]]
            /\ Len(all) = Len(Content(rb)) + Len(d)
        <5>1. d \in Seq(Byte \cup {Junk}) /\ Content(rb) \in Seq(Byte \cup {Junk})
          BY <3>1
        <5> QED BY <5>1, JoinLen, Zenon
      <4> QED BY <1>2, <3>1, <4>1, Zenon
    <3> HIDE DEF all
    <3>3. ~(Len(all) <= RbSize) /\ Len(all) - RbSize = RbSize
      BY <1>f, <3>2
    <3>4. RbAbstract!After(all, RbSize) = [i \in 1 .. RbSize |-> all[i + RbSize]]
      BY <3>2, <3>3 DEF RbAbstract!After
    <3>5. \A i \in 1 .. RbSize : all[i + RbSize] = d[i]
      BY <1>f, <3>2
    <3>6. Newest(Content(rb), d) = RbAbstract!After(all, RbSize)
      BY <3>3 DEF Newest, all
    <3> QED BY <3>4, <3>5, <3>6
  <2> QED BY <2>9, <2>13, <2>14 DEF r
<1> QED BY <1>1, <1>2

\* What rt_ringbuffer_putchar_force makes of a full buffer: both indices move on.
LEMMA FullPutcharForce ==
  ASSUME NEW rb, Sound(rb), NEW ch \in Byte, rt_ringbuffer_status(rb) = "FULL"
  PROVE  LET r == rt_ringbuffer_putchar_force(rb, ch)
             next == IF rb.wi = RbSize - 1 THEN 0 ELSE rb.wi + 1
         IN /\ r \in RingBuffers /\ r.buf = [rb.buf EXCEPT ![rb.wi] = ch]
            /\ r.ri = next /\ r.wi = next /\ r.rm # r.wm
<1> DEFINE r == rt_ringbuffer_putchar_force(rb, ch)
           next == IF rb.wi = RbSize - 1 THEN 0 ELSE rb.wi + 1
           buf == [rb.buf EXCEPT ![rb.wi] = ch]
<1>0. rb \in RingBuffers
  BY DEF Sound
<1>f. /\ RbSize \in Nat /\ RbSize > 0 /\ rb.wi \in Int /\ 0 <= rb.wi /\ rb.wi < RbSize
      /\ rb.rm \in {0, 1} /\ rb.wm \in {0, 1} /\ rb.rm # rb.wm
      /\ rb.buf \in [0 .. RbSize - 1 -> Byte \cup {Junk}]
  BY Fields, Full
<1>1. buf \in [0 .. RbSize - 1 -> Byte \cup {Junk}] /\ next \in 0 .. RbSize - 1
  BY <1>f
<1>2. CASE rb.wi = RbSize - 1
  <2>1. r = [rb EXCEPT !.buf = buf, !.wm = 1 - rb.wm, !.wi = 0, !.rm = 1 - rb.rm, !.ri = 0]
    BY <1>2, Zenon DEF rt_ringbuffer_putchar_force
  <2>2. next = 0 /\ 1 - rb.wm \in {0, 1} /\ 1 - rb.rm \in {0, 1} /\ 1 - rb.wm # 1 - rb.rm
    BY <1>2, <1>f
  <2> HIDE DEF r, next, buf
  <2>3. r \in RingBuffers /\ r.buf = buf /\ r.ri = 0 /\ r.wi = 0 /\ r.rm = 1 - rb.rm /\ r.wm = 1 - rb.wm
    BY <1>0, <1>1, <2>1, <2>2 DEF RingBuffers
  <2> QED BY <2>2, <2>3 DEF r, next, buf
<1>3. CASE rb.wi # RbSize - 1
  <2>1. r = [rb EXCEPT !.buf = buf, !.wi = rb.wi + 1, !.ri = rb.wi + 1]
    BY <1>3, Zenon DEF rt_ringbuffer_putchar_force
  <2>2. next = rb.wi + 1
    BY <1>3
  <2> HIDE DEF r, next, buf
  <2>3. r \in RingBuffers /\ r.buf = buf /\ r.ri = next /\ r.wi = next /\ r.rm = rb.rm /\ r.wm = rb.wm
    BY <1>0, <1>1, <2>1, <2>2 DEF RingBuffers
  <2> QED BY <1>f, <2>3 DEF r, next, buf
<1> QED BY <1>2, <1>3

\* While there is room rt_ringbuffer_putchar_force is rt_ringbuffer_put of one byte.
LEMMA RoomPutcharForce ==
  ASSUME NEW rb, Sound(rb), NEW ch \in Byte, rt_ringbuffer_status(rb) # "FULL"
  PROVE  rt_ringbuffer_putchar_force(rb, ch) = Written(rb, <<ch>>, 1)
<1>0. rb \in RingBuffers
  BY DEF Sound
<1>1. CASE rb.wi = RbSize - 1
  <2>1. rt_ringbuffer_putchar_force(rb, ch)
          = [rb EXCEPT !.buf[rb.wi] = ch, !.wm = 1 - rb.wm, !.wi = 0, !.rm = rb.rm, !.ri = rb.ri]
    BY <1>1, Zenon DEF rt_ringbuffer_putchar_force
  <2>2. Written(rb, <<ch>>, 1) = [rb EXCEPT !.buf[rb.wi] = ch, !.wm = 1 - rb.wm, !.wi = 0]
    BY <1>1, CharWritten
  <2> QED BY <1>0, <2>1, <2>2 DEF RingBuffers
<1>2. CASE rb.wi # RbSize - 1
  <2>1. rt_ringbuffer_putchar_force(rb, ch)
          = [rb EXCEPT !.buf[rb.wi] = ch, !.wi = rb.wi + 1, !.ri = rb.ri]
    BY <1>2, Zenon DEF rt_ringbuffer_putchar_force
  <2>2. Written(rb, <<ch>>, 1) = [rb EXCEPT !.buf[rb.wi] = ch, !.wi = rb.wi + 1]
    BY <1>2, CharWritten
  <2> QED BY <1>0, <2>1, <2>2 DEF RingBuffers
<1> QED BY <1>1, <1>2

\* rt_ringbuffer_putchar_force appends the byte, and drops the oldest one of a full
\* buffer.
LEMMA PutcharForceReplaces ==
  ASSUME NEW rb, Sound(rb), NEW ch \in Byte
  PROVE  /\ Sound(rt_ringbuffer_putchar_force(rb, ch))
         /\ Content(rt_ringbuffer_putchar_force(rb, ch)) = Newest(Content(rb), <<ch>>)
<1> DEFINE r == rt_ringbuffer_putchar_force(rb, ch)
           d == <<ch>>
<1>d. d \in Seq(Byte) /\ d \in Seq(Byte \cup {Junk}) /\ Len(d) = 1 /\ d[1] = ch
  OBVIOUS
<1>f. /\ RbSize \in Nat /\ RbSize > 0 /\ rb.wi \in Int /\ 0 <= rb.wi /\ rb.wi < RbSize
      /\ rb.buf \in [0 .. RbSize - 1 -> Byte \cup {Junk}]
  BY Fields
<1>1. CASE rt_ringbuffer_status(rb) # "FULL"
  <2>1. r = Written(rb, d, Len(d))
    BY <1>1, <1>d, RoomPutcharForce
  <2>2. rb.wi # rb.ri \/ rb.rm = rb.wm
    BY <1>1 DEF rt_ringbuffer_status
  <2>3. Len(d) <= RbSize - rt_ringbuffer_data_len(rb)
    BY <1>d, <2>2, DataLen, Fields
  <2> QED BY <1>d, <2>1, <2>3, FittingForce
<1>2. CASE rt_ringbuffer_status(rb) = "FULL"
  <2>1. rb.wi = rb.ri /\ rb.rm # rb.wm /\ rt_ringbuffer_data_len(rb) = RbSize
    BY <1>2, Full
  <2>2. /\ r \in RingBuffers /\ r.buf = [rb.buf EXCEPT ![rb.wi] = ch] /\ r.rm # r.wm
        /\ r.ri = (IF rb.wi = RbSize - 1 THEN 0 ELSE rb.wi + 1) /\ r.wi = r.ri
    BY <1>2, FullPutcharForce
  <2> HIDE DEF r
  <2>3. Sound(r)
    BY <1>f, <2>2 DEF Sound, MirrorsAgree
  <2>4. rt_ringbuffer_data_len(r) = RbSize
    BY <2>2, <2>3, DataLen
  <2>5. Content(r) = [i \in 1 .. RbSize |-> r.buf[Place(r, i)]]
    BY <2>3, <2>4, ContentIs
  <2>6. /\ Content(rb) = [i \in 1 .. RbSize |-> rb.buf[Place(rb, i)]]
        /\ Content(rb) \in Seq(Byte \cup {Junk}) /\ Len(Content(rb)) = RbSize
    BY <2>1, ContentIs
  <2> DEFINE all == RbAbstract!Join(Content(rb), d, Len(d))
  <2>7. /\ all = [i \in 1 .. RbSize + 1 |-> IF i <= RbSize THEN Content(rb)[i] ELSE d[i - RbSize]]
        /\ Len(all) = RbSize + 1
    <3>1. /\ all = [i \in 1 .. Len(Content(rb)) + Len(d) |->
                      IF i <= Len(Content(rb)) THEN Content(rb)[i] ELSE d[i - Len(Content(rb))]]
          /\ Len(all) = Len(Content(rb)) + Len(d)
      <4> HIDE DEF d
      <4>1. d \in Seq(Byte \cup {Junk}) /\ Content(rb) \in Seq(Byte \cup {Junk})
        BY <1>d, <2>6
      <4> QED BY <4>1, JoinLen, Zenon
    <3> HIDE DEF d, all
    <3> QED BY <1>d, <2>6, <3>1, Zenon
  <2> HIDE DEF d, all
  <2>8. ~(Len(all) <= RbSize) /\ Len(all) - RbSize = 1 /\ Len(all) - 1 = RbSize
    BY <1>f, <2>7
  <2>9. Newest(Content(rb), d) = [i \in 1 .. RbSize |-> all[i + 1]]
    <3>1. Newest(Content(rb), d) = RbAbstract!After(all, 1)
      BY <2>8 DEF Newest, all
    <3> QED BY <2>8, <3>1 DEF RbAbstract!After
  <2>10. ASSUME NEW i \in 1 .. RbSize PROVE r.buf[Place(r, i)] = all[i + 1]
    <3>1. CASE i = RbSize
      <4>1. Place(r, i) = rb.wi
        <5>1. CASE rb.wi = RbSize - 1
          BY <1>f, <2>2, <3>1, <5>1 DEF Place
        <5>2. CASE rb.wi # RbSize - 1
          BY <1>f, <2>2, <3>1, <5>2 DEF Place
        <5> QED BY <5>1, <5>2
      <4>2. r.buf[rb.wi] = ch
        BY <1>f, <2>2
      <4>3. i + 1 \in 1 .. RbSize + 1 /\ ~(i + 1 <= RbSize) /\ (i + 1) - RbSize = 1
        BY <1>f, <3>1
      <4>4. all[i + 1] = d[1]
        BY <2>7, <4>3
      <4> QED BY <1>d, <4>1, <4>2, <4>4
    <3>2. CASE i # RbSize
      <4>1. /\ Place(r, i) = Place(rb, i + 1) /\ Place(rb, i + 1) # rb.wi
            /\ Place(rb, i + 1) \in 0 .. RbSize - 1
        <5>1. CASE rb.wi = RbSize - 1
          BY <1>f, <2>1, <2>2, <3>2, <5>1 DEF Place
        <5>2. CASE rb.wi # RbSize - 1
          BY <1>f, <2>1, <2>2, <3>2, <5>2 DEF Place
        <5> QED BY <5>1, <5>2
      <4>2. r.buf[Place(r, i)] = rb.buf[Place(rb, i + 1)]
        BY <1>f, <2>2, <4>1
      <4>3. i + 1 \in 1 .. RbSize /\ i + 1 \in 1 .. RbSize + 1 /\ i + 1 <= RbSize
        BY <1>f, <3>2
      <4>4. all[i + 1] = Content(rb)[i + 1]
        BY <2>7, <4>3
      <4> QED BY <2>6, <4>2, <4>3, <4>4
    <3> QED BY <3>1, <3>2
  <2>11. Content(r) = Newest(Content(rb), d)
    BY <2>5, <2>9, <2>10
  <2> QED BY <2>3, <2>11 DEF r, d
<1> QED BY <1>1, <1>2

\* Data that rt_ringbuffer_put_force has no room for leaves the indices in step too.
LEMMA AnyForceSound ==
  ASSUME NEW rb, Sound(rb), NEW d \in Seq(Byte)
  PROVE  Sound(rt_ringbuffer_put_force(rb, d))
<1> DEFINE r == rt_ringbuffer_put_force(rb, d)
           w == Written(rb, d, RbSize)
           m == RbSize - (RbSize - rb.wi)
           buf == [i \in 0 .. RbSize - 1 |->
                     IF i >= rb.wi THEN Source(d, i - rb.wi + 1)
                     ELSE IF i < m THEN Source(d, i + RbSize - rb.wi + 1) ELSE rb.buf[i]]
<1>0. rb \in RingBuffers
  BY DEF Sound
<1>f. /\ RbSize \in Nat /\ RbSize > 0 /\ rb.wi \in Int /\ 0 <= rb.wi /\ rb.wi < RbSize
      /\ rb.rm \in {0, 1} /\ rb.wm \in {0, 1}
      /\ rb.buf \in [0 .. RbSize - 1 -> Byte \cup {Junk}]
  BY Fields
<1>s. rt_ringbuffer_space_len(rb) \in Int /\ rt_ringbuffer_space_len(rb) <= RbSize
  BY <1>f, DataLen DEF rt_ringbuffer_space_len
<1>1. CASE Len(d) <= rt_ringbuffer_space_len(rb)
  BY <1>1, PutForceReplaces
<1>2. CASE Len(d) > rt_ringbuffer_space_len(rb) /\ RbSize <= rt_ringbuffer_space_len(rb)
  <2>1. RbSize <= Len(d) /\ RbSize <= RbSize - rt_ringbuffer_data_len(rb)
    BY <1>2, <1>f, <1>s DEF rt_ringbuffer_space_len
  <2>2. r = w
    BY <1>2, Zenon DEF rt_ringbuffer_put_force
  <2> QED BY <1>f, <2>1, <2>2, WrittenLength
<1>3. CASE Len(d) > rt_ringbuffer_space_len(rb) /\ ~(RbSize <= rt_ringbuffer_space_len(rb))
  <2>1. ~(RbSize - rb.wi > RbSize)
    BY <1>f
  <2>2. r = [w EXCEPT !.rm = 1 - w.rm, !.ri = w.wi]
    BY <1>3, <2>1, Zenon DEF rt_ringbuffer_put_force
  <2>3. w = [rb EXCEPT !.buf = buf, !.wm = 1 - rb.wm, !.wi = m]
    BY <2>1, Zenon DEF Written
  <2>4. \A j \in Int : j >= 1 => Source(d, j) \in Byte \cup {Junk}
    BY DEF Source
  <2>5. buf \in [0 .. RbSize - 1 -> Byte \cup {Junk}]
    <3>1. ASSUME NEW i \in 0 .. RbSize - 1 PROVE buf[i] \in Byte \cup {Junk}
      <4>1. CASE i >= rb.wi
        BY <1>f, <2>4, <4>1
      <4>2. CASE ~(i >= rb.wi)
        BY <1>f, <2>4, <4>2
      <4> QED BY <4>1, <4>2
    <3> QED BY <3>1
  <2>6. m \in 0 .. RbSize - 1 /\ 1 - rb.wm \in {0, 1} /\ 1 - rb.rm \in {0, 1}
    BY <1>f
  <2> HIDE DEF w, r, m, buf
  <2>7. w \in RingBuffers /\ w.wi = m /\ w.rm = rb.rm
    BY <1>0, <2>3, <2>5, <2>6 DEF RingBuffers
  <2>8. r \in RingBuffers /\ r.wi = m /\ r.ri = m
    BY <2>2, <2>6, <2>7 DEF RingBuffers
  <2> QED BY <2>6, <2>8 DEF Sound, MirrorsAgree, r
<1> QED BY <1>1, <1>2, <1>3, <1>s

-----------------------------------------------------------------------------
(* The invariant and the refinement.                                       *)

\* The inductive invariant.
RbInductive == Sound(ring) /\ taken \in Seq(Byte \cup {Junk})

\* The initial state.
LEMMA InitSound ==
  ASSUME RbInit
  PROVE  RbInductive /\ RbAbstract!Init
<1>1. ring = rt_ringbuffer_init /\ taken = <<>>
  BY DEF RbInit
<1>2. RbSize \in Nat /\ RbSize > 0
  BY SizePositive
<1>3. /\ ring \in RingBuffers /\ ring.ri = 0 /\ ring.wi = 0 /\ ring.rm = 0 /\ ring.wm = 0
  BY <1>1, <1>2 DEF rt_ringbuffer_init, RingBuffers
<1>4. Sound(ring)
  BY <1>3 DEF Sound, MirrorsAgree
<1>5. rt_ringbuffer_data_len(ring) = 0
  BY <1>3, <1>4, DataLen
<1>6. Content(ring) = <<>>
  BY <1>4, <1>5, ContentIs
<1> QED BY <1>1, <1>4, <1>6 DEF RbInductive, RbAbstract!Init

\* Every step keeps the invariant.
LEMMA StepSound ==
  ASSUME RbInductive, [RbNext]_rbvars
  PROVE  RbInductive'
<1>0. Sound(ring) /\ taken \in Seq(Byte \cup {Junk})
  BY DEF RbInductive
<1>d. Datas \subseteq Seq(Byte) /\ Lengths \subseteq Nat
  BY RingUseAssumption
<1>1. ASSUME NEW d \in Datas, RbPut(d) PROVE RbInductive'
  BY <1>0, <1>1, <1>d, PutAppends DEF RbPut, RbInductive
<1>2. ASSUME NEW d \in Datas, RbPutForce(d) PROVE RbInductive'
  BY <1>0, <1>2, <1>d, AnyForceSound DEF RbPutForce, RbInductive
<1>3. ASSUME NEW n \in Lengths, RbGet(n) PROVE RbInductive'
  BY <1>0, <1>3, <1>d, GetReads DEF RbGet, RbInductive
<1>4. ASSUME NEW ch \in Byte, RbPutchar(ch) PROVE RbInductive'
  <2>1. ring' = rt_ringbuffer_put(ring, <<ch>>) /\ taken' = taken /\ <<ch>> \in Seq(Byte)
    BY <1>0, <1>4, PutcharIsPut DEF RbPutchar
  <2> QED BY <1>0, <2>1, PutAppends DEF RbInductive
<1>5. ASSUME NEW ch \in Byte, RbPutcharForce(ch) PROVE RbInductive'
  BY <1>0, <1>5, PutcharForceReplaces DEF RbPutcharForce, RbInductive
<1>6. ASSUME RbGetchar PROVE RbInductive'
  <2>1. ring' = rt_ringbuffer_get(ring, 1) /\ taken' = Copied(ring, 1)
    BY <1>0, <1>6, GetcharIsGet DEF RbGetchar
  <2> QED BY <1>0, <2>1, GetReads DEF RbInductive
<1>7. CASE UNCHANGED rbvars
  BY <1>0, <1>7 DEF rbvars, RbInductive
<1> QED BY <1>1, <1>2, <1>3, <1>4, <1>5, <1>6, <1>7 DEF RbNext

\* For every size of the buffer, every data and however the forcing functions are
\* used: the indices stay inside the memory and the mirror bits keep their meaning.
THEOREM RingBufferInvariant == RbSpec => [](RbTypeOK /\ RbMirrorsAgree)
<1>1. RbInit => RbInductive
  BY InitSound
<1>2. RbInductive /\ [RbNext]_rbvars => RbInductive'
  BY StepSound
<1>3. RbInductive => RbTypeOK /\ RbMirrorsAgree
  BY DEF RbInductive, RbTypeOK, RbMirrorsAgree, Sound
<1> QED BY <1>1, <1>2, <1>3, PTL DEF RbSpec

\* Every step is a step of the byte queue.
LEMMA StepRefines ==
  ASSUME RbInductive, [RbNext]_rbvars, ~AnyForce
  PROVE  \/ \E d \in Datas \cup {<<ch>> : ch \in Byte} : RbAbstract!Put(d) \/ RbAbstract!PutForce(d)
         \/ \E n \in Lengths \cup {1} : RbAbstract!Get(n)
         \/ UNCHANGED rbvars
<1>0. Sound(ring)
  BY DEF RbInductive
<1>d. Datas \subseteq Seq(Byte) /\ Lengths \subseteq Nat
  BY RingUseAssumption
<1>c. Content(ring)' = Content(ring')
  BY DEF Content, Copied, Got, rt_ringbuffer_data_len, rt_ringbuffer_status
<1>1. ASSUME NEW d \in Seq(Byte), ring' = rt_ringbuffer_put(ring, d), taken' = taken
      PROVE  RbAbstract!Put(d)
  BY <1>0, <1>1, <1>c, PutAppends DEF RbAbstract!Put
<1>2. ASSUME NEW d \in Seq(Byte), Content(ring') = Newest(Content(ring), d), taken' = taken
      PROVE  RbAbstract!PutForce(d)
  BY <1>2, <1>c DEF RbAbstract!PutForce, Newest
<1>3. ASSUME NEW n \in Nat, ring' = rt_ringbuffer_get(ring, n), taken' = Copied(ring, n)
      PROVE  RbAbstract!Get(n)
  BY <1>0, <1>3, <1>c, GetReads DEF RbAbstract!Get
<1>4. ASSUME NEW d \in Datas, RbPut(d) PROVE RbAbstract!Put(d)
  BY <1>1, <1>4, <1>d DEF RbPut
<1>5. ASSUME NEW d \in Datas, RbPutForce(d) PROVE RbAbstract!PutForce(d)
  <2>1. ring' = rt_ringbuffer_put_force(ring, d) /\ taken' = taken /\ d \in Seq(Byte)
    BY <1>5, <1>d DEF RbPutForce
  <2>2. \/ Len(d) <= rt_ringbuffer_space_len(ring)
        \/ Len(d) = RbSize /\ rt_ringbuffer_status(ring) = "FULL"
    BY <1>5 DEF RbPutForce, Fits
  <2>3. Content(ring') = Newest(Content(ring), d)
    BY <1>0, <2>1, <2>2, PutForceReplaces
  <2> QED BY <1>2, <2>1, <2>3
<1>6. ASSUME NEW n \in Lengths, RbGet(n) PROVE RbAbstract!Get(n)
  BY <1>3, <1>6, <1>d DEF RbGet
<1>7. ASSUME NEW ch \in Byte, RbPutchar(ch) PROVE RbAbstract!Put(<<ch>>)
  <2>1. ring' = rt_ringbuffer_put(ring, <<ch>>) /\ taken' = taken /\ <<ch>> \in Seq(Byte)
    BY <1>0, <1>7, PutcharIsPut DEF RbPutchar
  <2> QED BY <1>1, <2>1
<1>8. ASSUME NEW ch \in Byte, RbPutcharForce(ch) PROVE RbAbstract!PutForce(<<ch>>)
  <2>1. Content(ring') = Newest(Content(ring), <<ch>>) /\ taken' = taken /\ <<ch>> \in Seq(Byte)
    BY <1>0, <1>8, PutcharForceReplaces DEF RbPutcharForce
  <2> QED BY <1>2, <2>1
<1>9. ASSUME RbGetchar PROVE RbAbstract!Get(1)
  <2>1. ring' = rt_ringbuffer_get(ring, 1) /\ taken' = Copied(ring, 1)
    BY <1>0, <1>9, GetcharIsGet DEF RbGetchar
  <2> QED BY <1>3, <2>1
<1> QED BY <1>4, <1>5, <1>6, <1>7, <1>8, <1>9, Zenon DEF RbNext

\* For every size of the buffer the ring buffer implements the byte queue, when
\* rt_ringbuffer_put_force is only given data that fits or fills a full buffer anew.
THEOREM RingBufferImplements ==
  ASSUME ~AnyForce
  PROVE  RbSpec => RbImplements
<1>1. RbInit => RbInductive /\ RbAbstract!Init
  BY InitSound
<1>2. RbInductive /\ [RbNext]_rbvars => RbInductive'
  BY StepSound
<1>3. RbInductive /\ [RbNext]_rbvars
      => [\/ \E d \in Datas \cup {<<ch>> : ch \in Byte} : RbAbstract!Put(d) \/ RbAbstract!PutForce(d)
          \/ \E n \in Lengths \cup {1} : RbAbstract!Get(n)]_rbvars
  BY StepRefines
<1> QED BY <1>1, <1>2, <1>3, PTL DEF RbSpec, RbImplements

\* The same against the whole specification of the byte queue, in which any sequence
\* of bytes may be written and any number of them be read.
THEOREM RingBufferRefines ==
  ASSUME ~AnyForce
  PROVE  RbSpec => RbAbstract!Spec
<1>1. RbInit => RbInductive /\ RbAbstract!Init
  BY InitSound
<1>2. RbInductive /\ [RbNext]_rbvars => RbInductive'
  BY StepSound
<1>3. RbInductive /\ [RbNext]_rbvars => [RbAbstract!Next]_<<Content(ring), taken>>
  <2> SUFFICES ASSUME RbInductive, [RbNext]_rbvars
               PROVE  RbAbstract!Next \/ UNCHANGED <<Content(ring), taken>>
    OBVIOUS
  <2>1. \A d \in Datas \cup {<<ch>> : ch \in Byte} : d \in Seq(Byte)
    <3>1. \A ch \in Byte : <<ch>> \in Seq(Byte)
      OBVIOUS
    <3>2. Datas \subseteq Seq(Byte)
      BY RingUseAssumption
    <3> QED BY <3>1, <3>2, Zenon
  <2>2. \A n \in Lengths \cup {1} : n \in Nat
    BY RingUseAssumption
  <2>3. CASE \E d \in Datas \cup {<<ch>> : ch \in Byte} : RbAbstract!Put(d) \/ RbAbstract!PutForce(d)
    BY <2>1, <2>3, Zenon DEF RbAbstract!Next
  <2>4. CASE \E n \in Lengths \cup {1} : RbAbstract!Get(n)
    BY <2>2, <2>4, Zenon DEF RbAbstract!Next
  <2>5. CASE UNCHANGED rbvars
    BY <2>5 DEF rbvars, Content, Copied, Got, rt_ringbuffer_data_len, rt_ringbuffer_status
  <2> QED BY <2>3, <2>4, <2>5, StepRefines
<1> QED BY <1>1, <1>2, <1>3, PTL DEF RbSpec, RbAbstract!Spec
=============================================================================
