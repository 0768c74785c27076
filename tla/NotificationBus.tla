-------------------------- MODULE NotificationBus --------------------------
(***************************************************************************)
(* NotificationBus (rabia-kvstore/src/notifications.rs), called by several   *)
(* threads.  `subscribers' and `stats' are each behind a parking_lot RwLock; *)
(* unsubscribe, publish and get_stats take the second lock while they hold   *)
(* the first.  A critical section that takes no other lock is one step.      *)
(* Filters are left out (every subscription matches), and so is the          *)
(* broadcast channel, which has no effect on the rest.                       *)
(***************************************************************************)
EXTENDS Integers, Sequences, FiniteSets

CONSTANTS Threads,
          Ids,        \* subscription ids that may be handed out
          Ops,        \* operations the threads call
          MaxCalls    \* bound on calls

VARIABLES
  subscribers,  \* ids in the map
  closed,       \* ids whose receiver was dropped
  returned,     \* ids that subscribe has returned
  bus_stats,    \* NotificationStats
  inbox,        \* what each subscription received: numbers of publish calls, in order
  pc,           \* per thread: "idle" or what it does next
  waiting,      \* threads whose write() found its lock taken
  job,          \* per thread: the id or the call number it works on
  pending,      \* per thread: subscribers a publish has still to send to
  failed,       \* per thread: sends of the publish that failed
  bus_calls     \* made so far

busVars == <<subscribers, closed, returned, bus_stats, inbox, pc, waiting, job, pending,
             failed, bus_calls>>

BusInit ==
  /\ subscribers = {} /\ closed = {} /\ returned = {}
  /\ bus_stats = [total_notifications_sent |-> 0, total_subscribers |-> 0,
              dropped_notifications |-> 0]
  /\ inbox = [i \in Ids |-> <<>>]
  /\ pc = [t \in Threads |-> "idle"]
  /\ waiting = {}
  /\ job = [t \in Threads |-> 0]
  /\ pending = [t \in Threads |-> {}]
  /\ failed = [t \in Threads |-> 0]
  /\ bus_calls = 0

-----------------------------------------------------------------------------
(* parking_lot::RwLock.  Who holds a lock follows from where the threads     *)
(* are; a writer that waits keeps new readers out.                           *)

In(places) == {t \in Threads : pc[t] \in places}

\* mutant: cleanup looks for closed subscribers first, and keeps what it reads
ReadsSubscribers_upgrading == In({"sending", "count_failed", "cleanup"})

\* Where a thread holds `subscribers' (to read, to write) and `stats' (to read)
\* between steps, and where it asks for one of them to write.
ReadsSubscribers  == In({"sending", "count_failed"})
WritesSubscribers == In({"uncount"})
ReadsStats        == In({"count_subscribers"})
WantsSubscribers  == In({"insert", "remove", "cleanup"})
WantsStats        == In({"count_new", "uncount", "count_sent", "count_failed"})

CanReadSubscribers == WritesSubscribers = {} /\ WantsSubscribers \cap waiting = {}
CanReadStats       == WantsStats \cap waiting = {}

CanWriteSubscribers == WritesSubscribers = {} /\ ReadsSubscribers = {}
CanWriteStats       == ReadsStats = {}

\* write() finds the lock taken and announces itself.
wait(t) ==
  /\ t \notin waiting
  /\ \/ t \in WantsSubscribers /\ ~CanWriteSubscribers
     \/ t \in WantsStats /\ ~CanWriteStats
  /\ waiting' = waiting \cup {t}
  /\ UNCHANGED <<subscribers, closed, returned, bus_stats, inbox, pc, job, pending, failed, bus_calls>>

Goto(t, place) == pc' = [pc EXCEPT ![t] = place] /\ waiting' = waiting \ {t}

-----------------------------------------------------------------------------
(* The operations                                                           *)

Begin(t, op) == pc[t] = "idle" /\ bus_calls < MaxCalls /\ op \in Ops /\ bus_calls' = bus_calls + 1

subscribe(t) ==
  /\ Begin(t, "subscribe")
  /\ \E i \in Ids \ ({job[u] : u \in In({"insert", "count_new"})} \cup returned) :
       job' = [job EXCEPT ![t] = i]
  /\ Goto(t, "insert")
  /\ UNCHANGED <<subscribers, closed, returned, bus_stats, inbox, pending, failed>>

\* mutant: the subscriber is inserted while a publish works through the others
insert_shared(t) ==
  /\ pc[t] = "insert" /\ WritesSubscribers = {}
  /\ subscribers' = subscribers \cup {job[t]}
  /\ Goto(t, "count_new")
  /\ UNCHANGED <<closed, returned, bus_stats, inbox, job, pending, failed, bus_calls>>

insert(t) ==
  /\ pc[t] = "insert" /\ CanWriteSubscribers
  /\ subscribers' = subscribers \cup {job[t]}
  /\ Goto(t, "count_new")
  /\ UNCHANGED <<closed, returned, bus_stats, inbox, job, pending, failed, bus_calls>>

count_new(t) ==
  /\ pc[t] = "count_new" /\ CanWriteStats
  /\ bus_stats' = [bus_stats EXCEPT !.total_subscribers = @ + 1]
  /\ returned' = returned \cup {job[t]}
  /\ Goto(t, "idle")
  /\ UNCHANGED <<subscribers, closed, inbox, job, pending, failed, bus_calls>>

unsubscribe(t) ==
  /\ Begin(t, "unsubscribe")
  /\ \E i \in returned : job' = [job EXCEPT ![t] = i]
  /\ Goto(t, "remove")
  /\ UNCHANGED <<subscribers, closed, returned, bus_stats, inbox, pending, failed>>

remove(t) ==
  /\ pc[t] = "remove" /\ CanWriteSubscribers
  /\ subscribers' = subscribers \ {job[t]}
  /\ Goto(t, IF job[t] \in subscribers THEN "uncount" ELSE "idle")
  /\ UNCHANGED <<closed, returned, bus_stats, inbox, job, pending, failed, bus_calls>>

\* still holding subscribers; saturating_sub
uncount(t) ==
  /\ pc[t] = "uncount" /\ CanWriteStats
  /\ bus_stats' = [bus_stats EXCEPT !.total_subscribers = IF @ > 0 THEN @ - 1 ELSE 0]
  /\ Goto(t, "idle")
  /\ UNCHANGED <<subscribers, closed, returned, inbox, job, pending, failed, bus_calls>>

publish(t) ==
  /\ Begin(t, "publish")
  /\ job' = [job EXCEPT ![t] = bus_calls']
  /\ Goto(t, "count_sent")
  /\ UNCHANGED <<subscribers, closed, returned, bus_stats, inbox, pending, failed>>

count_sent(t) ==
  /\ pc[t] = "count_sent" /\ CanWriteStats
  /\ bus_stats' = [bus_stats EXCEPT !.total_notifications_sent = @ + 1]
  /\ Goto(t, "read_subscribers")
  /\ UNCHANGED <<subscribers, closed, returned, inbox, job, pending, failed, bus_calls>>

read_subscribers(t) ==
  /\ pc[t] = "read_subscribers" /\ CanReadSubscribers
  /\ pending' = [pending EXCEPT ![t] = subscribers]
  /\ failed' = [failed EXCEPT ![t] = 0]
  /\ Goto(t, "sending")
  /\ UNCHANGED <<subscribers, closed, returned, bus_stats, inbox, job, bus_calls>>

\* one turn of the loop over the subscribers
send(t, i) ==
  /\ pc[t] = "sending" /\ i \in pending[t]
  /\ pending' = [pending EXCEPT ![t] = @ \ {i}]
  /\ \/ /\ i \in closed
        /\ failed' = [failed EXCEPT ![t] = @ + 1]
        /\ UNCHANGED inbox
     \/ /\ i \notin closed
        /\ inbox' = [inbox EXCEPT ![i] = Append(@, job[t])]
        /\ UNCHANGED failed
  /\ UNCHANGED <<subscribers, closed, returned, bus_stats, pc, waiting, job, bus_calls>>

sent_all(t) ==
  /\ pc[t] = "sending" /\ pending[t] = {}
  /\ Goto(t, IF failed[t] > 0 THEN "count_failed" ELSE "idle")
  /\ UNCHANGED <<subscribers, closed, returned, bus_stats, inbox, job, pending, failed, bus_calls>>

count_failed(t) ==
  /\ pc[t] = "count_failed" /\ CanWriteStats
  /\ bus_stats' = [bus_stats EXCEPT !.dropped_notifications = @ + failed[t]]
  /\ Goto(t, "idle")
  /\ UNCHANGED <<subscribers, closed, returned, inbox, job, pending, failed, bus_calls>>

get_stats(t) ==
  /\ Begin(t, "get_stats")
  /\ Goto(t, "read_stats")
  /\ UNCHANGED <<subscribers, closed, returned, bus_stats, inbox, job, pending, failed>>

read_stats(t) ==
  /\ pc[t] = "read_stats" /\ CanReadStats
  /\ Goto(t, "count_subscribers")
  /\ UNCHANGED <<subscribers, closed, returned, bus_stats, inbox, job, pending, failed, bus_calls>>

\* still holding stats
count_subscribers(t) ==
  /\ pc[t] = "count_subscribers" /\ CanReadSubscribers
  /\ Goto(t, "idle")
  /\ UNCHANGED <<subscribers, closed, returned, bus_stats, inbox, job, pending, failed, bus_calls>>

cleanup_closed_subscribers(t) ==
  /\ Begin(t, "cleanup")
  /\ Goto(t, "cleanup")
  /\ UNCHANGED <<subscribers, closed, returned, bus_stats, inbox, job, pending, failed>>

retain(t) ==
  /\ pc[t] = "cleanup" /\ CanWriteSubscribers
  /\ subscribers' = subscribers \ closed
  /\ Goto(t, "idle")
  /\ UNCHANGED <<closed, returned, bus_stats, inbox, job, pending, failed, bus_calls>>

\* A subscription is dropped, and its receiver with it.
drop_receiver(i) ==
  /\ i \in returned \ closed
  /\ closed' = closed \cup {i}
  /\ UNCHANGED <<subscribers, returned, bus_stats, inbox, pc, waiting, job, pending, failed, bus_calls>>

\* What a thread inside a call does next.
Step(t) ==
  \/ insert(t) \/ count_new(t) \/ remove(t) \/ uncount(t)
  \/ count_sent(t) \/ read_subscribers(t) \/ (\E i \in Ids : send(t, i)) \/ sent_all(t)
  \/ count_failed(t) \/ read_stats(t) \/ count_subscribers(t) \/ retain(t)
  \/ wait(t)

Call(t) == \/ subscribe(t) \/ unsubscribe(t) \/ publish(t) \/ get_stats(t)
           \/ cleanup_closed_subscribers(t)

BusNext ==
  \/ \E t \in Threads : Call(t) \/ Step(t)
  \/ \E i \in Ids : drop_receiver(i)

\* Threads run: one that can go on inside a call does.
BusSpec == BusInit /\ [][BusNext]_busVars /\ \A t \in Threads : WF_busVars(Step(t))

-----------------------------------------------------------------------------
(* Properties                                                               *)

\* A publish leaves no subscriber out: whoever is subscribed and listening when
\* the loop over the subscribers is past it has the notification, once.
NobodyLeftOut ==
  \A t \in Threads : pc[t] \in {"sending", "count_failed"} =>
    \A i \in subscribers \ (closed \cup pending[t]) :
      Cardinality({x \in 1..Len(inbox[i]) : inbox[i][x] = job[t]}) = 1

\* get_stats holds `stats' and waits for `subscribers': behind unsubscribe, or
\* behind a writer that waits for a publish to leave.  That unsubscribe or
\* publish wants `stats' in turn.
Circle ==
  /\ ReadsStats # {}
  /\ \/ WritesSubscribers # {}
     \/ In({"count_failed"}) # {} /\ WantsSubscribers \cap waiting # {}

\* Every call of subscribe, unsubscribe, publish, get_stats and
\* cleanup_closed_subscribers returns, unless get_stats is caught in one of
\* these two circles: there is no other way in which the locks block a call.
CallsReturn == \A t \in Threads : pc[t] # "idle" ~> pc[t] = "idle" \/ Circle
=============================================================================
