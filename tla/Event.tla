-------------------------------- MODULE Event --------------------------------
(***************************************************************************)
(* An event object (src/src/ipc.c): threads wait for all or for any of a   *)
(* set of events, which threads and interrupts send.                       *)
(***************************************************************************)
EXTENDS IPC

CONSTANTS
  Ev,       \* the event object, or rather its suspend list
  Events    \* the bits of an event set that are used

\* A request of rt_event_recv: the events, RT_EVENT_FLAG_AND or RT_EVENT_FLAG_OR,
\* RT_EVENT_FLAG_CLEAR.
Request == [set : SUBSET Events \ {{}}, all : BOOLEAN, clear : BOOLEAN]

NoRequest == [set |-> {}, all |-> FALSE, clear |-> FALSE]

VARIABLE
  ev     \* set; want (event_set and event_info of each thread while rt_event_recv waits);
         \* life: "live", "ending", "gone"

evvars == <<k, pc, call, ret, use, ev>>

EvInit ==
  ev = [set |-> {}, want |-> [t \in Thread |-> NoRequest], life |-> "live"]

EvTypeOK ==
  /\ ev.set \subseteq Events
  /\ ev.want \in [Thread -> Request \cup {NoRequest}]
  /\ ev.life \in {"live", "ending", "gone"}

EvWaiters == Range(k.list[Ev])

-----------------------------------------------------------------------------
\* Do the events of set answer request r?
Answers(set, r) == IF r.all THEN r.set \subseteq set ELSE r.set \cap set # {}

Visit_NoClear(s, t) ==
  LET r == s.want[t]
      part == IF r.all THEN r ELSE [r EXCEPT !.set = @ \cap s.set]
  IN IF Answers(s.set, r)
       THEN [s EXCEPT !.want[t] = part, !.k = rt_thread_resume(s.k, t)]
       ELSE s

\* One round of the loop of rt_event_send, on thread t.
Visit(s, t) ==
  LET r == s.want[t]
      part == IF r.all THEN r ELSE [r EXCEPT !.set = @ \cap s.set]
  IN IF Answers(s.set, r)
       THEN [s EXCEPT !.want[t] = part,
                      !.set = IF r.clear THEN @ \ part.set ELSE @,
                      !.k = rt_thread_resume(s.k, t)]
       ELSE s

\* The interrupts-disabled section of rt_event_send.
Walk(set) ==
  LET w == k.list[Ev]
      after[n \in 0 .. Len(w)] ==
        IF n = 0 THEN [k |-> k, set |-> ev.set \cup set, want |-> ev.want]
                 ELSE Visit(after[n - 1], w[n])
  IN after[Len(w)]

Sent(s) == ev' = [ev EXCEPT !.set = s.set, !.want = s.want]

rt_event_send(t, set) ==
  LET s == Walk(set) IN
  /\ Runs(t) /\ ev.life = "live"
  /\ Sent(s) /\ k' = s.k
  /\ Goto(t, IF s.k.list[Ev] # k.list[Ev] THEN "sched" ELSE "run")
  /\ UNCHANGED <<call, ret>>

\* An interrupt handler that calls rt_event_send.
EvInterrupt(set) ==
  LET s == Walk(set) IN
  /\ ~k.isr /\ ev.life = "live"
  /\ Sent(s)
  /\ k' = IF s.k.list[Ev] # k.list[Ev] THEN rt_schedule(s.k) ELSE s.k
  /\ UNCHANGED <<pc, call, ret>>

\* The result is the error number of the caller, and the events received are the
\* ones that answered.
rt_event_recv(t, r, time) ==
  /\ Runs(t) /\ t \in use.receivers /\ ev.life = "live"
  /\ \/ /\ Answers(ev.set, r)
        /\ ev' = [ev EXCEPT !.set = IF r.clear THEN @ \ r.set ELSE @]
        /\ k' = [k EXCEPT !.error[t] = "EOK"]
        /\ UNCHANGED <<pc, call, ret>>
     \/ /\ ~Answers(ev.set, r) /\ time = 0
        /\ k' = [k EXCEPT !.error[t] = "ETIMEOUT"]
        /\ UNCHANGED <<pc, call, ret, ev>>
     \/ /\ ~Answers(ev.set, r) /\ time # 0
        /\ ev' = [ev EXCEPT !.want[t] = r]
        /\ k' = WaitOn(k, Ev, t, use.flag, time)
        /\ Continue(t, "block", [NoCall EXCEPT !.op = "event_recv", !.obj = Ev, !.arg = r])

\* rt_event_recv after rt_schedule has returned; with RT_EOK the events received
\* are those in the caller's event_set.
EvWoken(t) ==
  /\ At(t, "woken")
  /\ Continue(t, "run", NoCall)
  /\ ev' = [ev EXCEPT !.want[t] = NoRequest]
  /\ UNCHANGED k

\* rt_event_control(RT_IPC_CMD_RESET)
EvReset(t) ==
  /\ use.resets
  /\ Runs(t) /\ ev.life = "live"
  /\ k' = rt_ipc_list_resume_all(k, Ev)
  /\ ev' = [ev EXCEPT !.set = {}]
  /\ Goto(t, "sched")
  /\ UNCHANGED <<call, ret>>

\* rt_event_delete and rt_event_detach.
EvDelete(t) ==
  /\ use.deletes
  /\ Runs(t) /\ ev.life = "live"
  /\ ev' = [ev EXCEPT !.life = "ending"]
  /\ ResumeAllFrom(t, Ev)
  /\ UNCHANGED k

EvDeleteEnd(t) ==
  /\ ResumeAllDone(t)
  /\ ev' = [ev EXCEPT !.life = "gone"]
  /\ Continue(t, "run", NoCall)
  /\ UNCHANGED k

\* rt_event_init, rt_event_create
EvCreate(t) ==
  /\ Runs(t) /\ ev.life = "gone"
  /\ ev' = [ev EXCEPT !.life = "live", !.set = {}]
  /\ UNCHANGED <<k, pc, call, ret>>

EvStep(t) ==
  \/ \E set \in use.sends : rt_event_send(t, set)
  \/ \E r \in use.requests, time \in use.times : rt_event_recv(t, r, time)
  \/ EvWoken(t) \/ EvReset(t) \/ EvDelete(t) \/ EvDeleteEnd(t) \/ EvCreate(t)
  \/ ResumeAllStep(t) /\ UNCHANGED ev

EvNext ==
  \/ UNCHANGED use /\ \E t \in Thread : EvStep(t)
  \/ UNCHANGED use /\ \E set \in use.sends : EvInterrupt(set)
  \/ Processor /\ UNCHANGED ev

-----------------------------------------------------------------------------
(* Properties.                                                             *)

\* rt_event_send visits every waiter, although resuming a thread takes the node
\* the loop stands on out of the list: nobody goes on waiting for what is there.
EvNobodyOverlooked == \A t \in EvWaiters : ~Answers(ev.set, ev.want[t])

\* rt_event_recv returns RT_EOK only with events that answer the caller's request,
\* all of them ones it asked for, although between the send and the return the
\* answer lies in the thread's control block while others send, receive and reset.
EvAnswered ==
  \A t \in Thread \ EvWaiters :
    call[t].op = "event_recv" /\ k.error[t] = "EOK" =>
      /\ Answers(ev.want[t].set, call[t].arg)
      /\ ev.want[t].set \subseteq call[t].arg.set

\* An event is delivered once: of the waiters that one rt_event_send resumes, those
\* that clear share out disjoint sets of the events that are there, nobody is told
\* of an event that is not there, and what nobody cleared remains; and each returns
\* with what it was told.
EvDelivered ==
  []EvAnswered /\
  [][LET woken == {t \in EvWaiters : t \notin Range(k'.list[Ev]) /\ k'.error[t] = "EOK"}
         answer == [t \in woken |-> ev'.want[t].set]
         clears == {t \in woken : call[t].arg.clear}
     IN woken # {} =>
          \E set \in use.sends :
            /\ \A t \in woken : answer[t] \subseteq ev.set \cup set /\ Answers(answer[t], call[t].arg)
            /\ \A t, u \in clears : t # u => answer[t] \cap answer[u] = {}
            /\ ev'.set = (ev.set \cup set) \ UNION {answer[t] : t \in clears}]_evvars
=============================================================================
