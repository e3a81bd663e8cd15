------------------------------ MODULE ListProofs ------------------------------
(***************************************************************************)
(* What the list operations of the kernel do to the elements of a list:    *)
(* rt_list_remove, rt_list_insert_before, rt_list_insert_after and the     *)
(* search for a place in the timer list keep every list free of            *)
(* repetitions.                                                            *)
(***************************************************************************)
EXTENDS Kernel, SequenceTheorems, WellFoundedInduction, TLAPS


\* Min picks the least element of a nonempty set of naturals (__rt_ffs on a
\* nonzero bitmap, and the search for a place in the timer list).
LEMMA MinProps ==
  ASSUME NEW S \in SUBSET Nat, S # {}
  PROVE  Min(S) \in S /\ \A x \in S : Min(S) <= x
<1>1. PICK x \in S : \A y \in S : ~(<<y, x>> \in OpToRel(<, Nat))
  <2>1. IsWellFoundedOn(OpToRel(<, Nat), Nat)
    BY NatLessThanWellFounded, Zenon
  <2> QED BY <2>1, WFMin, Zenon
<1>2. \A y \in S : ~(y < x)
  BY <1>1, Zenon DEF OpToRel
<1>3. \A y \in S : x <= y
  BY <1>2
<1> QED BY <1>3, Zenon DEF Min

\* rt_list_remove takes one element out and keeps the list free of repetition.
LEMMA WithoutProps ==
  ASSUME NEW S, NEW s \in Seq(S), NEW e, IsInjective(s)
  PROVE  /\ Without(s, e) \in Seq(S)
         /\ Range(Without(s, e)) = Range(s) \ {e}
         /\ IsInjective(Without(s, e))
         /\ \A x, y \in 1 .. Len(Without(s, e)) : x < y =>
              \E c, d \in 1 .. Len(s) :
                c < d /\ Without(s, e)[x] = s[c] /\ Without(s, e)[y] = s[d]
<1>1. CASE e \notin Range(s)
  <2>1. Without(s, e) = s
    BY <1>1 DEF Without
  <2> QED BY <2>1, <1>1
<1>2. CASE e \in Range(s)
  <2>1. PICK i \in 1 .. Len(s) : i = CHOOSE j \in 1 .. Len(s) : s[j] = e
    BY <1>2, RangeEquality
  <2>2. s[i] = e
    BY <1>2, <2>1, RangeEquality
  <2> DEFINE w == Without(s, e)
             l == SubSeq(s, 1, i-1)
             r == SubSeq(s, i+1, Len(s))
  <2>3. w = l \o r
    BY <1>2, <2>1, Zenon DEF Without, RemoveNode
  <2>4. /\ l \in Seq(S) /\ Len(l) = i - 1 /\ \A j \in 1 .. i-1 : l[j] = s[j]
        /\ r \in Seq(S) /\ Len(r) = Len(s) - i
        /\ \A j \in 1 .. Len(s)-i : r[j] = s[i+j]
    <3>1. \A j \in 1 .. i-1 : s[j] \in S
      BY ElementOfSeq
    <3>2. \A j \in i+1 .. Len(s) : s[j] \in S
      BY ElementOfSeq
    <3>3. Len(s) \in Nat
      OBVIOUS
    <3>4. l \in Seq(S) /\ Len(l) = i - 1 /\ \A j \in 1 .. i-1 : l[j] = s[j]
      BY <3>1, <3>3, SubSeqProperties
    <3>5. r \in Seq(S) /\ Len(r) = Len(s) - i /\ \A j \in 1 .. Len(s)-i : r[j] = s[i+j]
      BY <3>2, <3>3, SubSeqProperties
    <3> QED BY <3>4, <3>5
  <2>5. /\ w \in Seq(S) /\ Len(w) = Len(s) - 1
        /\ \A j \in 1 .. Len(s)-1 : w[j] = IF j < i THEN s[j] ELSE s[j+1]
    <3> HIDE DEF w, l, r
    <3>1. Len(s) \in Nat
      OBVIOUS
    <3>2. /\ l \o r \in Seq(S) /\ Len(l \o r) = Len(l) + Len(r)
          /\ \A j \in 1 .. Len(l) + Len(r) :
               (l \o r)[j] = IF j <= Len(l) THEN l[j] ELSE r[j - Len(l)]
      BY <2>4, ConcatProperties, Zenon
    <3>3. w \in Seq(S) /\ Len(w) = Len(s) - 1
      BY <2>3, <2>4, <3>1, <3>2
    <3>4. ASSUME NEW j \in 1 .. Len(s)-1
          PROVE  w[j] = IF j < i THEN s[j] ELSE s[j+1]
      <4>1. j \in 1 .. Len(l) + Len(r)
        BY <2>4, <3>1
      <4>2. w[j] = IF j <= i - 1 THEN l[j] ELSE r[j - (i-1)]
        BY <4>1, <3>2, <2>3, <2>4, SMTT(20), ZenonT(20)
      <4>3. CASE j < i
        BY <4>2, <4>3, <2>4, <3>1
      <4>4. CASE ~(j < i)
        <5>1. j - (i-1) \in 1 .. Len(s)-i /\ i + (j - (i-1)) = j + 1
          BY <4>4, <3>1
        <5> QED BY <4>2, <4>4, <5>1, <2>4
      <4> QED BY <4>3, <4>4
    <3> QED BY <3>3, <3>4
  <2> HIDE DEF w, l, r
  <2>6. Range(w) = Range(s) \ {e}
    <3>1. ASSUME NEW x \in Range(w) PROVE x \in Range(s) \ {e}
      <4>1. PICK j \in 1 .. Len(w) : w[j] = x
        BY <2>5, RangeEquality, SMTT(20), ZenonT(20)
      <4>2. PICK m \in 1 .. Len(s) : m # i /\ s[m] = x
        <5>1. CASE j < i
          BY <5>1, <4>1, <2>5
        <5>2. CASE ~(j < i)
          BY <5>2, <4>1, <2>5
        <5> QED BY <5>1, <5>2
      <4>3. x # e
        BY <4>2, <2>2 DEF IsInjective
      <4>4. x \in Range(s)
        BY <4>2, RangeEquality, SMTT(20), ZenonT(20)
      <4> QED BY <4>3, <4>4
    <3>2. ASSUME NEW x \in Range(s) \ {e} PROVE x \in Range(w)
      <4>1. PICK j \in 1 .. Len(s) : s[j] = x
        BY RangeEquality
      <4>2. CASE j < i
        BY <4>1, <4>2, <2>5, RangeEquality
      <4>3. CASE j > i
        <5>1. j - 1 \in 1 .. Len(w) /\ w[j - 1] = x
          BY <4>1, <4>3, <2>5
        <5> QED BY <5>1, <2>5, RangeEquality
      <4> QED BY <4>1, <4>2, <4>3, <2>2
    <3> QED BY <3>1, <3>2
  <2>7. IsInjective(w)
    <3>1. Len(s) \in Nat
      OBVIOUS
    <3> SUFFICES ASSUME NEW a \in 1 .. Len(w), NEW b \in 1 .. Len(w), w[a] = w[b]
                 PROVE  a = b
      BY <2>5 DEF IsInjective
    <3> DEFINE f(j) == IF j < i THEN j ELSE j + 1
    <3>2. f(a) \in 1 .. Len(s) /\ f(b) \in 1 .. Len(s) /\ s[f(a)] = s[f(b)]
      BY <3>1, <2>5
    <3>3. f(a) = f(b)
      BY <3>2 DEF IsInjective
    <3> QED BY <3>3, <3>1, <2>5
  <2>8. ASSUME NEW x \in 1 .. Len(w), NEW y \in 1 .. Len(w), x < y
        PROVE  \E c, d \in 1 .. Len(s) : c < d /\ w[x] = s[c] /\ w[y] = s[d]
    <3> DEFINE f(j) == IF j < i THEN j ELSE j + 1
    <3>1. Len(s) \in Nat
      OBVIOUS
    <3>2. f(x) \in 1 .. Len(s) /\ f(y) \in 1 .. Len(s) /\ f(x) < f(y)
      BY <3>1, <2>5, <2>8
    <3>3. w[x] = s[f(x)] /\ w[y] = s[f(y)]
      BY <3>1, <2>5
    <3> HIDE DEF f
    <3> QED BY <3>2, <3>3
  <2> QED BY <2>5, <2>6, <2>7, <2>8 DEF w
<1> QED BY <1>1, <1>2

\* rt_list_insert_before(head, n): n becomes the last element.
LEMMA AppendProps ==
  ASSUME NEW S, NEW s \in Seq(S), NEW e \in S, IsInjective(s), e \notin Range(s)
  PROVE  /\ Append(s, e) \in Seq(S)
         /\ Range(Append(s, e)) = Range(s) \cup {e}
         /\ IsInjective(Append(s, e))
<1> DEFINE w == Append(s, e)
<1>1. /\ w \in Seq(S) /\ Len(s) \in Nat /\ Len(w) = Len(s) + 1
      /\ \A j \in 1 .. Len(s) : w[j] = s[j]
      /\ w[Len(s) + 1] = e
  BY AppendProperties
<1> HIDE DEF w
<1>2. \A j \in 1 .. Len(s) : s[j] # e
  BY RangeEquality
<1>3. Range(w) = Range(s) \cup {e}
  <2>1. ASSUME NEW x \in Range(w) PROVE x \in Range(s) \cup {e}
    BY <1>1, RangeEquality
  <2>2. ASSUME NEW x \in Range(s) PROVE x \in Range(w)
    <3>1. PICK j \in 1 .. Len(s) : s[j] = x
      BY RangeEquality
    <3>2. j \in 1 .. Len(w) /\ w[j] = x
      BY <3>1, <1>1
    <3> QED BY <3>2, <1>1, RangeEquality
  <2>3. e \in Range(w)
    <3>1. Len(s) + 1 \in 1 .. Len(w)
      BY <1>1
    <3> QED BY <3>1, <1>1, RangeEquality
  <2> QED BY <2>1, <2>2, <2>3
<1>4. IsInjective(w)
  BY <1>1, <1>2 DEF IsInjective
<1> QED BY <1>1, <1>3, <1>4 DEF w

\* The place found for a timer: e goes to index i, what was there moves up.
LEMMA InsertNodeProps ==
  ASSUME NEW S, NEW s \in Seq(S), NEW e \in S, NEW i \in 1 .. Len(s) + 1,
         IsInjective(s), e \notin Range(s)
  PROVE  LET w == InsertNode(s, i, e) IN
         /\ w \in Seq(S)
         /\ Len(w) = Len(s) + 1
         /\ \A j \in 1 .. Len(s) + 1 :
              w[j] = IF j < i THEN s[j] ELSE IF j = i THEN e ELSE s[j-1]
         /\ Range(w) = Range(s) \cup {e}
         /\ IsInjective(w)
<1> DEFINE l == SubSeq(s, 1, i-1)
           r == SubSeq(s, i, Len(s))
           w == InsertNode(s, i, e)
<1>1. Len(s) \in Nat
  OBVIOUS
<1>2. /\ l \in Seq(S) /\ Len(l) = i - 1 /\ \A j \in 1 .. i-1 : l[j] = s[j]
      /\ r \in Seq(S) /\ Len(r) = Len(s) - i + 1
      /\ \A j \in 1 .. Len(s) - i + 1 : r[j] = s[i+j-1]
  <2>1. \A j \in 1 .. i-1 : s[j] \in S
    BY ElementOfSeq
  <2>2. \A j \in i .. Len(s) : s[j] \in S
    BY ElementOfSeq
  <2>3. l \in Seq(S) /\ Len(l) = i - 1 /\ \A j \in 1 .. i-1 : l[j] = s[j]
    BY <2>1, <1>1, SubSeqProperties
  <2>4. /\ r \in Seq(S) /\ Len(r) = Len(s) - i + 1
        /\ \A j \in 1 .. Len(s) - i + 1 : r[j] = s[i+j-1]
    BY <2>2, <1>1, SubSeqProperties
  <2> QED BY <2>3, <2>4
<1>3. w = (l \o <<e>>) \o r
  BY DEF InsertNode
<1> HIDE DEF l, r, w
<1> DEFINE le == l \o <<e>>
<1>4. le \in Seq(S) /\ Len(le) = i /\ \A j \in 1 .. i : le[j] = IF j < i THEN s[j] ELSE e
  <2>1. <<e>> \in Seq(S) /\ Len(<<e>>) = 1 /\ <<e>>[1] = e
    OBVIOUS
  <2>2. /\ le \in Seq(S) /\ Len(le) = Len(l) + 1
        /\ \A j \in 1 .. Len(l) + 1 : le[j] = IF j <= Len(l) THEN l[j] ELSE <<e>>[j - Len(l)]
    BY <1>2, <2>1, ConcatProperties
  <2> HIDE DEF le
  <2>3. ASSUME NEW j \in 1 .. i PROVE le[j] = IF j < i THEN s[j] ELSE e
    <3>1. CASE j < i
      BY <3>1, <2>2, <1>2
    <3>2. CASE j = i
      <4>1. j - Len(l) = 1 /\ ~(j <= Len(l)) /\ j \in 1 .. Len(l) + 1
        BY <3>2, <1>2
      <4> QED BY <4>1, <2>2, <2>1, <3>2
    <3> QED BY <3>1, <3>2
  <2> QED BY <2>2, <2>3, <1>2
<1> HIDE DEF le
<1>5. /\ w \in Seq(S) /\ Len(w) = Len(s) + 1
      /\ \A j \in 1 .. Len(s) + 1 :
           w[j] = IF j < i THEN s[j] ELSE IF j = i THEN e ELSE s[j-1]
  <2>1. /\ w \in Seq(S) /\ Len(w) = Len(le) + Len(r)
        /\ \A j \in 1 .. Len(le) + Len(r) : w[j] = IF j <= Len(le) THEN le[j] ELSE r[j - Len(le)]
    <3>1. w = le \o r
      BY <1>3 DEF le
    <3> QED BY <3>1, <1>2, <1>4, ConcatProperties, ZenonT(60)
  <2>2. Len(w) = Len(s) + 1
    BY <2>1, <1>2, <1>4, <1>1
  <2>3. ASSUME NEW j \in 1 .. Len(s) + 1
        PROVE  w[j] = IF j < i THEN s[j] ELSE IF j = i THEN e ELSE s[j-1]
    <3>1. j \in 1 .. Len(le) + Len(r) /\ Len(le) = i
      BY <1>2, <1>4, <1>1
    <3>2. CASE j <= i
      BY <3>1, <3>2, <2>1, <1>4
    <3>3. CASE j > i
      <4>1. j - i \in 1 .. Len(s) - i + 1 /\ i + (j - i) - 1 = j - 1
        BY <3>3, <1>1
      <4> QED BY <4>1, <3>1, <3>3, <2>1, <1>2
    <3> QED BY <3>2, <3>3
  <2> QED BY <2>1, <2>2, <2>3, Zenon
<1>6. \A j \in 1 .. Len(s) : s[j] # e
  BY RangeEquality
<1>7. Range(w) = Range(s) \cup {e}
  <2>1. ASSUME NEW x \in Range(w) PROVE x \in Range(s) \cup {e}
    <3>1. PICK j \in 1 .. Len(w) : w[j] = x
      BY <1>5, RangeEquality
    <3>2. CASE j < i
      BY <3>1, <3>2, <1>5, RangeEquality, SMTT(20), ZenonT(20)
    <3>3. CASE j > i
      <4>1. j - 1 \in 1 .. Len(s) /\ s[j-1] = x
        BY <3>1, <3>3, <1>5
      <4> QED BY <4>1, RangeEquality
    <3> QED BY <3>1, <3>2, <3>3, <1>5
  <2>2. ASSUME NEW x \in Range(s) PROVE x \in Range(w)
    <3>1. PICK j \in 1 .. Len(s) : s[j] = x
      BY RangeEquality
    <3>2. CASE j < i
      <4>1. j \in 1 .. Len(w) /\ w[j] = x
        BY <3>1, <3>2, <1>5
      <4> QED BY <4>1, <1>5, RangeEquality
    <3>3. CASE j >= i
      <4>1. j + 1 \in 1 .. Len(w) /\ w[j+1] = x
        <5>1. j + 1 \in 1 .. Len(s) + 1 /\ ~(j + 1 < i) /\ j + 1 # i /\ (j + 1) - 1 = j
          BY <3>3
        <5> QED BY <5>1, <1>5, <3>1
      <4> QED BY <4>1, <1>5, RangeEquality, Zenon
    <3> QED BY <3>2, <3>3
  <2>3. e \in Range(w)
    <3>1. i \in 1 .. Len(w) /\ w[i] = e
      BY <1>5
    <3> QED BY <3>1, <1>5, RangeEquality
  <2> QED BY <2>1, <2>2, <2>3
<1>8. IsInjective(w)
  <2> SUFFICES ASSUME NEW x \in 1 .. Len(w), NEW y \in 1 .. Len(w), w[x] = w[y], x < y
               PROVE  FALSE
    BY <1>5 DEF IsInjective
  <2> DEFINE f(j) == IF j < i THEN j ELSE j - 1
  <2>1. CASE x = i \/ y = i
    <3>1. PICK j \in {x, y} : j # i /\ w[j] = e
      BY <2>1, <1>5
    <3>2. f(j) \in 1 .. Len(s) /\ s[f(j)] = e
      BY <3>1, <1>5, <1>1
    <3> QED BY <3>2, <1>6
  <2>2. CASE x # i /\ y # i
    <3>1. f(x) \in 1 .. Len(s) /\ f(y) \in 1 .. Len(s) /\ s[f(x)] = s[f(y)]
      BY <2>2, <1>5, <1>1
    <3>2. f(x) = f(y)
      BY <3>1 DEF IsInjective
    <3> QED BY <3>2, <2>2, <1>1
  <2> QED BY <2>1, <2>2
<1> QED BY <1>5, <1>7, <1>8 DEF w

\* rt_list_insert_after(head, n): n becomes the first element.
LEMMA PushFrontProps ==
  ASSUME NEW S, NEW s \in Seq(S), NEW e \in S, IsInjective(s), e \notin Range(s)
  PROVE  /\ PushFront(e, s) \in Seq(S)
         /\ Range(PushFront(e, s)) = Range(s) \cup {e}
         /\ IsInjective(PushFront(e, s))
<1> DEFINE w == PushFront(e, s)
<1>1. <<e>> \in Seq(S) /\ Len(<<e>>) = 1 /\ <<e>>[1] = e /\ Len(s) \in Nat
  OBVIOUS
<1>2. /\ w \in Seq(S) /\ Len(w) = 1 + Len(s)
      /\ \A j \in 1 .. 1 + Len(s) : w[j] = IF j <= 1 THEN <<e>>[j] ELSE s[j - 1]
  BY <1>1, ConcatProperties DEF PushFront
<1> HIDE DEF w
<1>3. w[1] = e /\ \A j \in 1 .. Len(s) : w[j + 1] = s[j]
  <2>1. w[1] = e
    BY <1>1, <1>2
  <2>2. ASSUME NEW j \in 1 .. Len(s) PROVE w[j + 1] = s[j]
    <3>1. j + 1 \in 1 .. 1 + Len(s) /\ ~(j + 1 <= 1) /\ (j + 1) - 1 = j
      BY <1>1
    <3> QED BY <3>1, <1>2
  <2> QED BY <2>1, <2>2
<1>4. \A j \in 1 .. Len(s) : s[j] # e
  BY RangeEquality
<1>5. Range(w) = Range(s) \cup {e}
  <2>1. Range(<<e>>) = {e}
    <3>1. Range(<<e>>) = {<<e>>[j] : j \in 1 .. 1}
      BY <1>1, RangeEquality, Zenon
    <3> QED BY <3>1
  <2>2. Range(<<e>> \o s) = Range(<<e>>) \cup Range(s)
    BY <1>1, RangeConcatenation
  <2> QED BY <2>1, <2>2 DEF w, PushFront
<1>6. IsInjective(w)
  <2> SUFFICES ASSUME NEW x \in 1 .. Len(w), NEW y \in 1 .. Len(w), w[x] = w[y], x < y
               PROVE  FALSE
    BY <1>2 DEF IsInjective
  <2>1. y - 1 \in 1 .. Len(s) /\ w[y] = s[y - 1]
    BY <1>1, <1>2
  <2>2. CASE x = 1
    BY <2>1, <2>2, <1>3, <1>4
  <2>3. CASE x > 1
    <3>1. x - 1 \in 1 .. Len(s) /\ w[x] = s[x - 1]
      BY <2>3, <1>1, <1>2
    <3>2. \A c, d \in 1 .. Len(s) : s[c] = s[d] => c = d
      BY DEF IsInjective
    <3>3. x - 1 = y - 1
      BY <3>1, <3>2, <2>1, Zenon
    <3> QED BY <3>3, <1>2
  <2> QED BY <2>2, <2>3
<1> QED BY <1>2, <1>5, <1>6 DEF w

\* A list is empty exactly when nothing is linked in it, and otherwise its
\* first element is linked in it.
LEMMA EmptyOrHead ==
  ASSUME NEW S, NEW s \in Seq(S)
  PROVE  /\ s = <<>> <=> Range(s) = {}
         /\ s # <<>> => Head(s) \in Range(s) /\ Head(s) \in S /\ Len(s) >= 1 /\ Head(s) = s[1]
<1>1. CASE s = <<>>
  <2>1. Len(s) = 0
    BY <1>1
  <2>2. Range(s) = {s[j] : j \in 1 .. Len(s)}
    BY RangeEquality
  <2>3. Range(s) = {}
    BY <2>1, <2>2
  <2> QED BY <2>3, <1>1
<1>2. CASE s # <<>>
  <2>1. Len(s) \in Nat /\ Len(s) # 0 /\ Head(s) = s[1] /\ Head(s) \in S
    BY <1>2, HeadTailProperties, EmptySeq
  <2>2. 1 \in 1 .. Len(s)
    BY <2>1
  <2>3. Head(s) \in Range(s)
    BY <2>1, <2>2, RangeEquality
  <2> QED BY <2>1, <2>3, <1>2
<1> QED BY <1>1, <1>2
=============================================================================
