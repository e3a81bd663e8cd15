---------------------------- MODULE MessageQueue ----------------------------
(***************************************************************************)
(* A message queue (src/src/ipc.c): blocks that move between a free list   *)
(* and a linked queue.  A message is copied into its block, and out of it, *)
(* with interrupts enabled, while the block is in neither list.            *)
(***************************************************************************)
EXTENDS IPC

CONSTANTS
  MqOut,      \* the list of waiting receivers
  MqBlocks,   \* the message blocks of the pool
  Message     \* what is sent

\* RT_NULL as the address of a block.
Null == Wild

VARIABLE
  mq     \* head, tail, free (msg_queue_head, ...), next (of every block), text (what
         \* every block holds), entry, life

mqvars == <<k, pc, call, ret, use, mq>>

MqOrder == CHOOSE s \in [1 .. Cardinality(MqBlocks) -> MqBlocks] : IsInjective(s)

\* rt_mq_init, rt_mq_create: the last block comes first in the free list.
rt_mq_init(text) ==
  LET last == Len(MqOrder)
      link == [i \in 1 .. last |-> IF i = 1 THEN Null ELSE MqOrder[i - 1]]
  IN [head |-> Null, tail |-> Null, free |-> MqOrder[last],
      next |-> [b \in MqBlocks |-> link[CHOOSE i \in 1 .. last : MqOrder[i] = b]],
      text |-> text, entry |-> 0, life |-> "live"]

MqInit == mq = rt_mq_init([b \in MqBlocks |-> CHOOSE m \in Message : TRUE])

MqTypeOK ==
  LET pointer == MqBlocks \cup {Null} IN
  /\ {mq.head, mq.tail, mq.free} \subseteq pointer
  /\ mq.next \in [MqBlocks -> pointer] /\ mq.text \in [MqBlocks -> Message]
  /\ mq.entry \in 0 .. Cardinality(MqBlocks)
  /\ mq.life \in {"live", "ending", "gone"}

-----------------------------------------------------------------------------
\* A block leaves the free list.
TakeBlock_Stays == mq

TakeBlock == [mq EXCEPT !.free = mq.next[mq.free]]

\* The block is put behind the tail, or before the head, of queue s.
Linked(s, b) ==
  LET n == [s.next EXCEPT ![b] = Null] IN
  [s EXCEPT !.next = IF s.tail # Null THEN [n EXCEPT ![s.tail] = b] ELSE n,
            !.tail = b,
            !.head = IF @ = Null THEN b ELSE @,
            !.entry = @ + 1]

LinkedFirst(s, b) ==
  [s EXCEPT !.next[b] = s.head,
            !.head = b,
            !.tail = IF @ = Null THEN b ELSE @,
            !.entry = @ + 1]

Link(s, b, m, f) ==
  LET copied == [s EXCEPT !.text[b] = m] IN
  IF f = "mq_send" THEN Linked(copied, b) ELSE LinkedFirst(copied, b)

\* The first block leaves the queue.
Unlinked_KeepsTail(s) == [s EXCEPT !.head = s.next[s.head], !.entry = @ - 1]

Unlinked(s) ==
  [s EXCEPT !.head = s.next[s.head],
            !.tail = IF @ = s.head THEN Null ELSE @,
            !.entry = @ - 1]

PutBack(s, b) == [s EXCEPT !.next[b] = s.free, !.free = b]

\* rt_mq_send ("mq_send") and rt_mq_urgent ("mq_urgent"): up to the end of the first
\* section, and the rest.  A full queue is an error that changes nothing.
rt_mq_send(t, f, m) ==
  /\ Runs(t) /\ mq.life = "live" /\ mq.free # Null
  /\ mq' = TakeBlock
  /\ Continue(t, "mq_fill", [NoCall EXCEPT !.op = f, !.obj = mq.free, !.arg = m])
  /\ UNCHANGED k

MqFill(t) ==
  /\ At(t, "mq_fill")
  /\ mq' = Link(mq, call[t].obj, call[t].arg, call[t].op)
  /\ k' = ResumeOne(k, MqOut)
  /\ Continue(t, Resuming(MqOut), NoCall)

\* An interrupt handler that calls one of them.
MqInterrupt(f, m) ==
  /\ ~k.isr /\ mq.life = "live" /\ mq.free # Null
  /\ mq' = Link(TakeBlock, mq.free, m, f)
  /\ k' = ResumeOneFromInterrupt(k, MqOut)
  /\ UNCHANGED <<pc, call, ret>>

\* One round of the loop of rt_mq_recv, and what follows it up to the end of the
\* section; e is the error number left by a round that finds no time to wait.
MqTryRecv(t, time, e) ==
  \/ /\ mq.entry > 0
     /\ IF mq.head = Null
          THEN Goto(t, "wild") /\ UNCHANGED <<call, ret, mq>>
          ELSE /\ mq' = Unlinked(mq)
               /\ Continue(t, "mq_copy", [NoCall EXCEPT !.op = "mq_copy", !.obj = mq.head])
     /\ UNCHANGED k
  \/ /\ mq.entry = 0 /\ time = 0
     /\ k' = [k EXCEPT !.error[t] = e]
     /\ Continue(t, "run", NoCall)
     /\ UNCHANGED mq
  \/ /\ mq.entry = 0 /\ time # 0
     /\ k' = WaitOn(k, MqOut, t, use.flag, time)
     /\ Continue(t, "block", [NoCall EXCEPT !.op = "mq_recv", !.obj = MqOut, !.time = time])
     /\ UNCHANGED mq

rt_mq_recv(t, time) ==
  Runs(t) /\ t \in use.receivers /\ mq.life = "live" /\ MqTryRecv(t, time, k.error[t])

\* rt_mq_recv after rt_schedule has returned.
MqWoken(t) ==
  /\ At(t, "woken")
  /\ \/ k.error[t] # "EOK" /\ Continue(t, "run", NoCall) /\ UNCHANGED <<k, mq>>
     \/ k.error[t] = "EOK" /\ MqTryRecv(t, call[t].time, "ETIMEOUT")

\* The message has been copied (ret is the buffer), and the block goes back.
MqCopied(t) ==
  /\ At(t, "mq_copy")
  /\ mq' = PutBack(mq, call[t].obj)
  /\ Return(t, "run", mq.text[call[t].obj])
  /\ UNCHANGED k

\* rt_mq_control(RT_IPC_CMD_RESET)
MqReset(t) ==
  LET back[n \in 0 .. Cardinality(MqBlocks)] ==
        IF n = 0 THEN mq
        ELSE IF back[n - 1].head = Null THEN back[n - 1]
        ELSE PutBack(Unlinked(back[n - 1]), back[n - 1].head)
  IN /\ use.resets
     /\ Runs(t) /\ mq.life = "live"
     /\ k' = rt_ipc_list_resume_all(k, MqOut)
     /\ mq' = [back[Cardinality(MqBlocks)] EXCEPT !.entry = 0]
     /\ Goto(t, "sched")
     /\ UNCHANGED <<call, ret>>

\* rt_mq_delete and rt_mq_detach.  The application has to make sure that no thread
\* is between its wakeup and its return, and none copies a message.
MqDelete(t) ==
  /\ use.deletes
  /\ Runs(t) /\ mq.life = "live"
  /\ \A u \in Thread : pc[u] \in {"block", "woken", "mq_fill", "mq_copy"} => u \in Range(k.list[MqOut])
  /\ mq' = [mq EXCEPT !.life = "ending"]
  /\ ResumeAllFrom(t, MqOut)
  /\ UNCHANGED k

MqDeleteEnd(t) ==
  /\ ResumeAllDone(t)
  /\ mq' = [mq EXCEPT !.life = "gone"]
  /\ Continue(t, "run", NoCall)
  /\ UNCHANGED k

MqCreate(t) ==
  /\ Runs(t) /\ mq.life = "gone"
  /\ mq' = rt_mq_init(mq.text)
  /\ UNCHANGED <<k, pc, call, ret>>

MqStep(t) ==
  \/ t \in use.senders /\ \E f \in use.sends, m \in use.mails : rt_mq_send(t, f, m)
  \/ \E time \in use.times : rt_mq_recv(t, time)
  \/ MqFill(t) \/ MqWoken(t) \/ MqCopied(t) \/ MqReset(t)
  \/ MqDelete(t) \/ MqDeleteEnd(t) \/ MqCreate(t)
  \/ (ResumeAllStep(t) \/ SleepStep(t)) /\ UNCHANGED mq

MqNext ==
  \/ UNCHANGED use /\ \E t \in Thread : MqStep(t)
  \/ UNCHANGED use /\ \E f \in use.sends, m \in use.mails : MqInterrupt(f, m)
  \/ Processor /\ UNCHANGED mq

-----------------------------------------------------------------------------
(* Properties.                                                             *)

\* The blocks that are reached from p through next.
Chain(p) ==
  LET path[n \in 0 .. Cardinality(MqBlocks)] ==
        [b \in MqBlocks \cup {Null} |->
           IF n = 0 \/ b = Null THEN <<>> ELSE <<b>> \o path[n - 1][mq.next[b]]]
  IN path[Cardinality(MqBlocks)][p]

\* A message queue is a bounded queue with urgent messages: what a receiver copies
\* out of its block after it has enabled interrupts again is the message it took
\* from the queue, however many sends, receives and resets come in between.
MqAbstract ==
  INSTANCE BoundedQueue WITH
    Receiver <- Thread, Size <- Cardinality(MqBlocks),
    got <- [t \in Thread |-> IF pc[t] = "mq_copy" THEN mq.text[call[t].obj] ELSE LastReceived("messagequeue")[t]],
    q <- IF mq.life = "gone" THEN <<>>
         ELSE [i \in 1 .. mq.entry |-> mq.text[Chain(mq.head)[i]]]

MqImplements == MqAbstract!Spec

\* No block is lost or in two places: each is in the queue, in the free list, or in
\* the hands of one thread that copies; msg_queue_tail is the end of the queue and
\* entry its length.
MqBlocksConserved ==
  LET queue == Chain(mq.head)
      copying == {t \in Thread : pc[t] \in {"mq_fill", "mq_copy"}}
  IN mq.life = "live" =>
       /\ IsInjective(queue \o Chain(mq.free))
       /\ Len(queue \o Chain(mq.free)) + Cardinality(copying) = Cardinality(MqBlocks)
       /\ Range(queue \o Chain(mq.free)) \cap {call[t].obj : t \in copying} = {}
       /\ mq.entry = Len(queue)
       /\ mq.tail = IF queue = <<>> THEN Null ELSE queue[Len(queue)]

\* No lost wakeup: while receivers wait, no more messages are queued than woken
\* receivers have yet to look.
MqNoLostWakeup ==
  mq.life = "live" /\ k.list[MqOut] # <<>> =>
    mq.entry <= Cardinality({t \in Thread \ Range(k.list[MqOut]) :
                               call[t].op = "mq_recv" /\ k.error[t] = "EOK"})
=============================================================================
