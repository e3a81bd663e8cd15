-------------------------------- MODULE Heap --------------------------------
(***************************************************************************)
(* The small memory manager (src/src/mem.c): rt_malloc, rt_realloc,        *)
(* rt_calloc and rt_free on one piece of memory.                           *)
(*                                                                         *)
(* Offsets and sizes count units of RT_ALIGN_SIZE bytes: sizes are already *)
(* rounded up.  Each section that the semaphore heap_sem protects is one   *)
(* action; rt_realloc has up to three of them, and other threads come in   *)
(* between.  A block is known by the offset of its struct heap_mem.        *)
(***************************************************************************)
EXTENDS Integers, FiniteSets, FiniteSetsExt

CONSTANTS
  SIZEOF_STRUCT_MEM,
  MIN_SIZE_ALIGNED,
  MemSize,    \* mem_size_aligned
  Sizes,      \* the sizes that are asked for
  Shrinks,    \* is rt_realloc asked to make blocks smaller?  FALSE, TRUE or either
  Users       \* the threads that use the heap

ASSUME HeapAssumption ==
  /\ SIZEOF_STRUCT_MEM \in Nat \ {0} /\ MIN_SIZE_ALIGNED \in Nat \ {0}
  /\ MemSize \in Nat /\ MemSize >= MIN_SIZE_ALIGNED
  /\ Sizes \subseteq Nat
  /\ Shrinks \subseteq BOOLEAN

NULL == -1

\* Where heap_end lies.
End == MemSize + SIZEOF_STRUCT_MEM

VARIABLES
  heap,   \* hdr: the struct heap_mem at each offset that has one; lfree, used_mem, max_mem
  own,    \* the blocks the application holds, with the sizes it asked for
  busy,   \* what each thread's rt_realloc is doing: to which block, size, new block
  shrinks \* which of Shrinks it is, which never changes

hpvars == <<heap, own, busy, shrinks>>

Idling == [ptr |-> NULL, size |-> 0, new |-> NULL]

Offset == 0 .. End

HpTypeOK ==
  /\ DOMAIN heap.hdr \subseteq Offset
  /\ \A p \in DOMAIN heap.hdr : heap.hdr[p] \in [used : BOOLEAN, next : Offset, prev : Offset]
  /\ heap.lfree \in DOMAIN heap.hdr
  /\ heap.used \in 0 .. End /\ heap.max \in heap.used .. End
  /\ DOMAIN own \subseteq DOMAIN heap.hdr
  /\ busy \in [Users -> [ptr : Offset \cup {NULL}, size : Nat, new : Offset \cup {NULL}]]

rt_system_heap_init ==
  [hdr |-> [p \in {0, End} |->
              IF p = 0 THEN [used |-> FALSE, next |-> End, prev |-> 0]
              ELSE [used |-> TRUE, next |-> End, prev |-> End]],
   lfree |-> 0, used |-> 0, max |-> 0]

HpInit ==
  /\ heap = rt_system_heap_init
  /\ own = [p \in {} |-> 0]
  /\ busy = [u \in Users |-> Idling]
  /\ shrinks \in Shrinks

-----------------------------------------------------------------------------
(* The block list.                                                         *)

\* The size of the data of block p.
Room(h, p) == h.hdr[p].next - (p + SIZEOF_STRUCT_MEM)

Extent(h, p) == h.hdr[p].next - p

\* The list without the header of block q, which follows block p.
Joined(hdr, p, q) ==
  LET n == hdr[q].next IN
  [[r \in DOMAIN hdr \ {q} |-> hdr[r]] EXCEPT ![p].next = n, ![n].prev = p]

PlugForward(h, p) ==
  LET n == h.hdr[p].next IN
  IF n = p \/ h.hdr[n].used \/ n = End THEN h
  ELSE [h EXCEPT !.lfree = IF @ = n THEN p ELSE @, !.hdr = Joined(@, p, n)]

PlugBackward(h, p) ==
  LET q == h.hdr[p].prev IN
  IF q = p \/ h.hdr[q].used THEN h
  ELSE [h EXCEPT !.lfree = IF @ = p THEN q ELSE @, !.hdr = Joined(@, q, p)]

plug_holes(h, p) == PlugBackward(PlugForward(h, p), p)

\* The list when block p keeps n units of data and the rest becomes a free block.
Split(h, p, n) ==
  LET q == p + SIZEOF_STRUCT_MEM + n
      after == h.hdr[p].next
  IN [r \in DOMAIN h.hdr \cup {q} |->
        IF r = q THEN [used |-> FALSE, next |-> after, prev |-> p]
        ELSE IF r = p THEN [h.hdr[p] EXCEPT !.used = TRUE, !.next = q]
        ELSE IF r = after /\ after # End THEN [h.hdr[r] EXCEPT !.prev = q]
        ELSE h.hdr[r]]

-----------------------------------------------------------------------------
(* The sections.                                                           *)

\* Every block has at least MIN_SIZE_ALIGNED units.
AtLeast(n) == IF n < MIN_SIZE_ALIGNED THEN MIN_SIZE_ALIGNED ELSE n

Fitting_NoHeader(h, n) ==
  {p \in DOMAIN h.hdr : /\ h.lfree <= p /\ p < MemSize - AtLeast(n)
                        /\ ~h.hdr[p].used /\ Extent(h, p) >= AtLeast(n)}

\* The blocks the search of rt_malloc, which starts at lfree, stops at.
Fitting(h, n) ==
  {p \in DOMAIN h.hdr : /\ h.lfree <= p /\ p < MemSize - AtLeast(n)
                        /\ ~h.hdr[p].used /\ Room(h, p) >= AtLeast(n)}

\* The block rt_malloc(n) returns.
Found(h, n) ==
  IF n = 0 \/ n > MemSize \/ Fitting(h, n) = {} THEN NULL ELSE Min(Fitting(h, n))

CanSplit(h, p, size) == Room(h, p) >= size + SIZEOF_STRUCT_MEM + MIN_SIZE_ALIGNED

\* The first free block that is not below p, or the end.
NextFree(hdr, p) == Min({q \in DOMAIN hdr : q >= p /\ ~hdr[q].used} \cup {End})

rt_malloc(h, n) ==
  LET p == Found(h, n)
      hdr == IF CanSplit(h, p, AtLeast(n)) THEN Split(h, p, AtLeast(n)) ELSE [h.hdr EXCEPT ![p].used = TRUE]
      used == h.used + hdr[p].next - p
  IN IF p = NULL THEN h
     ELSE [hdr |-> hdr, used |-> used, max |-> IF h.max < used THEN used ELSE h.max,
           lfree |-> IF p = h.lfree THEN NextFree(hdr, p) ELSE h.lfree]

rt_free_LfreeStays(h, p) ==
  plug_holes([h EXCEPT !.hdr[p].used = FALSE, !.used = @ - Extent(h, p)], p)

rt_free(h, p) ==
  plug_holes([h EXCEPT !.hdr[p].used = FALSE,
                       !.lfree = IF p < @ THEN p ELSE @,
                       !.used = @ - Extent(h, p)], p)

Shrunk_CountsHeader(h, p, n) ==
  plug_holes([h EXCEPT !.used = @ - (Room(h, p) - n - SIZEOF_STRUCT_MEM), !.hdr = Split(h, p, n)],
             p + SIZEOF_STRUCT_MEM + n)

\* rt_realloc splits block p.
Shrunk(h, p, n) ==
  plug_holes([h EXCEPT !.used = @ - (Room(h, p) - n), !.hdr = Split(h, p, n)],
             p + SIZEOF_STRUCT_MEM + n)

-----------------------------------------------------------------------------
(* The threads.                                                            *)

\* The application does not touch a block while rt_realloc works on it.
Holds(u, p) ==
  /\ busy[u] = Idling
  /\ p \in DOMAIN own /\ \A v \in Users : p \notin {busy[v].ptr, busy[v].new}

Owning(p, n) == [q \in DOMAIN own \cup {p} |-> IF q = p THEN n ELSE own[q]]

\* rt_malloc; rt_calloc; rt_realloc of RT_NULL.
HpMalloc(u, n) ==
  /\ busy[u] = Idling
  /\ heap' = rt_malloc(heap, n)
  /\ own' = IF Found(heap, n) = NULL THEN own ELSE Owning(Found(heap, n), n)
  /\ UNCHANGED busy

HpFree(u, p) ==
  /\ Holds(u, p)
  /\ heap' = rt_free(heap, p)
  /\ own' = [q \in DOMAIN own \ {p} |-> own[q]]
  /\ UNCHANGED busy

\* The first section of rt_realloc: it keeps the block, splits it, or goes on.
HpRealloc(u, p, n) ==
  /\ Holds(u, p) /\ n <= MemSize
  /\ IF Room(heap, p) = n
       THEN own' = Owning(p, n) /\ UNCHANGED <<heap, busy>>
     ELSE IF n + SIZEOF_STRUCT_MEM + MIN_SIZE_ALIGNED < Room(heap, p)
       THEN shrinks /\ heap' = Shrunk(heap, p, n) /\ own' = Owning(p, n) /\ UNCHANGED busy
     ELSE busy' = [busy EXCEPT ![u] = [ptr |-> p, size |-> n, new |-> NULL]] /\ UNCHANGED <<heap, own>>

\* Its call of rt_malloc; without a new block rt_realloc returns RT_NULL.
HpExpand(u) ==
  LET n == busy[u].size
      new == Found(heap, n)
  IN /\ busy[u].ptr # NULL /\ busy[u].new = NULL
     /\ heap' = rt_malloc(heap, n)
     /\ IF new = NULL
          THEN busy' = [busy EXCEPT ![u] = Idling] /\ UNCHANGED own
          ELSE busy' = [busy EXCEPT ![u].new = new] /\ own' = Owning(new, n)

\* The data is copied and the old block freed.
HpMoved(u) ==
  /\ busy[u].new # NULL
  /\ heap' = rt_free(heap, busy[u].ptr)
  /\ own' = [q \in DOMAIN own \ {busy[u].ptr} |-> own[q]]
  /\ busy' = [busy EXCEPT ![u] = Idling]

HpNext ==
  /\ \E u \in Users :
       \/ \E n \in Sizes : HpMalloc(u, n)
       \/ \E p \in DOMAIN own : HpFree(u, p) \/ \E n \in Sizes : HpRealloc(u, p, n)
       \/ HpExpand(u) \/ HpMoved(u)
  /\ UNCHANGED shrinks

HpSpec == HpInit /\ [][HpNext]_hpvars

-----------------------------------------------------------------------------
(* Properties.                                                             *)

\* The block list covers the heap without gap or overlap, the back links agree
\* with it, no two free blocks lie side by side (plug_holes), and used_mem is what
\* the used blocks occupy, after any sequence of splits and merges; lfree is a block.
HpListSound ==
  LET hdr == heap.hdr
      blocks == DOMAIN hdr \ {End}
  IN /\ HpTypeOK
     /\ {0, End} \subseteq DOMAIN hdr
     /\ \A p \in blocks :
          LET n == hdr[p].next IN
          /\ n \in DOMAIN hdr /\ n >= p + SIZEOF_STRUCT_MEM
          /\ \A q \in blocks : ~(p < q /\ q < n)
          /\ n # End => hdr[n].prev = p /\ (hdr[p].used \/ hdr[n].used)
     /\ heap.used = MapThenSumSet(LAMBDA p : IF hdr[p].used THEN Extent(heap, p) ELSE 0, blocks)

\* What the application holds is its own: every block handed out is in use, has
\* room for what was asked for, and lies clear of every other block, also while
\* rt_realloc of another thread is between its sections; and no used block is lost.
HpBlocksApart ==
  /\ {p \in DOMAIN heap.hdr \ {End} : heap.hdr[p].used} = DOMAIN own
  /\ \A p \in DOMAIN own :
       /\ own[p] <= Room(heap, p)
       /\ p + SIZEOF_STRUCT_MEM + own[p] <= End
       /\ \A q \in DOMAIN own : q > p => p + SIZEOF_STRUCT_MEM + own[p] <= q

\* rt_malloc finds a free block that is large enough if there is one: lfree, "pointer to
\* the lowest free block", hides none.  It leaves out
\* a last block that fits exactly, and what rt_realloc has cut off below lfree.
HpFindsRoom ==
  ~shrinks => \A n \in Sizes : n \in 1 .. MemSize /\ Found(heap, n) = NULL =>
    \A p \in DOMAIN heap.hdr :
      heap.hdr[p].used \/ Room(heap, p) < AtLeast(n)
        \/ (heap.hdr[p].next = End /\ Room(heap, p) = AtLeast(n))
=============================================================================
