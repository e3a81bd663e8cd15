------------------------------ MODULE MCObjects ------------------------------
(***************************************************************************)
(* Instances of Objects: a is the most urgent thread, b and c share a      *)
(* priority, and there is the idle thread.                                 *)
(***************************************************************************)
EXTENDS Objects, TLC

CONSTANTS a, b, c, e, f, i1, i2

MCInitPriority ==
  [t \in Thread |-> IF t = a THEN 0 ELSE IF t \in {b, c} THEN 1 ELSE 2]

MCInitTick == [t \in Thread |-> 1]

MCDatas == {<<0>>, <<0, 0, 0, 0>>}

Waits == [flag |-> "PRIO", times |-> {Forever}, sleeps |-> {}, deletes |-> FALSE]

AllOf == [set |-> {e, f}, all |-> TRUE, clear |-> TRUE]

AnyOf == [AllOf EXCEPT !.all = FALSE]

MCEvent ==
  LET w == Waits @@ [obj |-> "event", receivers |-> {a, b}, requests |-> {AllOf, AnyOf},
                     sends |-> {{e}, {f}}, resets |-> FALSE]
      peek == [set |-> {f}, all |-> FALSE, clear |-> FALSE]
  IN {[w EXCEPT !.times = {Forever, 0, 1}],
      [w EXCEPT !.requests = {AllOf, peek}, !.receivers = {a, b, c}],
      [w EXCEPT !.flag = "FIFO", !.deletes = TRUE, !.resets = TRUE, !.requests = {AnyOf, peek}]}

MCMailbox ==
  LET w == Waits @@ [obj |-> "mailbox", senders |-> {a, c}, receivers |-> {b, c},
                     mails |-> {i1, i2}, resets |-> FALSE] IN
  {[w EXCEPT !.times = {0, 2}, !.receivers = {b}],
   [w EXCEPT !.times = {0, 2}, !.receivers = {a, b}, !.mails = {i1}],
   [w EXCEPT !.mails = {i1}, !.sleeps = {1}],
   [w EXCEPT !.mails = {i1}, !.deletes = TRUE, !.resets = TRUE]}

MCMessageQueue ==
  LET w == Waits @@ [obj |-> "messagequeue", senders |-> {a, c}, receivers |-> {a, b},
                     mails |-> {i1, i2}, sends |-> {"mq_send", "mq_urgent"}, resets |-> FALSE] IN
  {[w EXCEPT !.times = {0, 1}, !.senders = {c}],
   [w EXCEPT !.mails = {i1}, !.senders = {a}, !.receivers = {b, c}, !.sleeps = {1}],
   [w EXCEPT !.mails = {i1}, !.deletes = TRUE, !.resets = TRUE]}

MCMemPool ==
  LET w == Waits @@ [obj |-> "mempool"] IN
  {[w EXCEPT !.times = {Forever, 0}], [w EXCEPT !.deletes = TRUE]}

MCCompletion ==
  {[Waits EXCEPT !.times = {Forever, 0, 1}, !.sleeps = {1}] @@ [obj |-> "completion", waiter |-> b]}

MCWorkQueue ==
  {[Waits EXCEPT !.sleeps = {1}] @@ [obj |-> "workqueue", worker |-> a, submitters |-> {b}]}

\* One thread pushes and interrupts pop; the pusher resets; interrupts push what does
\* not fill the queue; nobody pops.
MCDataQueue ==
  LET w == Waits @@ [obj |-> "dataqueue", senders |-> {b}, receivers |-> {a, c}, mails |-> {i1},
                     interrupts |-> {"pop"}, pushes |-> 3, resets |-> FALSE] IN
  {[w EXCEPT !.mails = {i1, i2}],
   [w EXCEPT !.sleeps = {1}],
   [w EXCEPT !.sleeps = {1}, !.interrupts = {}, !.resets = TRUE],
   [w EXCEPT !.times = {0, 1}, !.senders = {}, !.interrupts = {"push"}, !.pushes = 2],
   [w EXCEPT !.times = {0}, !.senders = {a}, !.receivers = {}, !.interrupts = {"push"}]}

MCPipe ==
  LET w == Waits @@ [obj |-> "pipe", senders |-> {b}, receivers |-> {a},
                     blockrd |-> TRUE, blockwr |-> TRUE, force |-> FALSE] IN
  {[w EXCEPT !.senders = {b, c}, !.sleeps = {1}],
   [w EXCEPT !.blockwr = FALSE, !.force = TRUE],
   [w EXCEPT !.blockrd = FALSE, !.blockwr = FALSE, !.senders = {a}]}

MCSoftTime == [t \in Soft |-> IF t = i1 THEN 1 ELSE 2]

\* The timer thread is more urgent than the threads that start timers.
MCSoftTimer ==
  {[Waits EXCEPT !.sleeps = {1}] @@ [obj |-> "softtimer", timer |-> a, starters |-> {b}, anystop |-> FALSE]}

MCUses ==
  MCEvent \cup MCMailbox \cup MCMessageQueue \cup MCMemPool \cup MCCompletion
    \cup MCWorkQueue \cup MCDataQueue \cup MCSoftTimer \cup MCPipe

\* Waiting for a block with a timeout.
MCMemPoolTimed == {[Waits EXCEPT !.times = {1}] @@ [obj |-> "mempool"]}

\* Uses that the code does not stand: deletion while threads wait with a timeout,
\* pushes that do not wait for ever, two threads that push, two that read a pipe, two
\* that submit works, a worker or a timer thread that is not the most urgent, and
\* timeout functions that stop any timer.
MCDeleteRace == {[u EXCEPT !.times = {1}] : u \in {v \in MCEvent : v.deletes}}

MCTimedPush == {[u EXCEPT !.times = {0}] : u \in {v \in MCDataQueue : v.senders = {b}}}

MCTwoPushers == {[u EXCEPT !.senders = {b, c}] : u \in {v \in MCDataQueue : v.senders = {b}}}

MCTwoReaders == {[u EXCEPT !.receivers = {a, b, c}] : u \in MCPipe}

MCTwoSubmitters == {[u EXCEPT !.submitters = {b, c}] : u \in MCWorkQueue}

MCUrgentSubmitter == {[u EXCEPT !.worker = b, !.submitters = {a}] : u \in MCWorkQueue}

MCUrgentStarter == {[u EXCEPT !.timer = b, !.starters = {a}] : u \in MCSoftTimer}

MCAnyStop == {[u EXCEPT !.anystop = TRUE] : u \in MCSoftTimer}
=============================================================================
