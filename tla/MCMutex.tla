------------------------------- MODULE MCMutex -------------------------------
(* Instances of Mutex: three threads of three priorities, and the idle one. *)
EXTENDS Mutex

CONSTANTS a, b, c, m

MCInitPriority ==
  [t \in Thread |-> CASE t = a -> 0 [] t = b -> 1 [] t = c -> 2 [] OTHER -> 3]

MCInitTick == [t \in Thread |-> 1]

Flat == [flag |-> "PRIO", times |-> {Forever}, sleeps |-> {1},
         mutexes |-> Mutexes, nesting |-> "flat", deletes |-> FALSE]

MCUses ==
  {Flat, [Flat EXCEPT !.times = {0, 1}], [Flat EXCEPT !.flag = "FIFO"],
   [Flat EXCEPT !.nesting = "lifo"],
   [Flat EXCEPT !.deletes = TRUE, !.mutexes = {m}]}

MCLive == {[Flat EXCEPT !.mutexes = {m}]}

\* Mutexes released in any order.
MCAnyOrder == {[Flat EXCEPT !.nesting = "any"]}
=============================================================================
