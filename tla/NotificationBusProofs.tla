----------------------- MODULE NotificationBusProofs -----------------------
(***************************************************************************)
(* A publish leaves no subscriber out and sends to none twice, for every     *)
(* number of threads, subscriptions and calls.  The lock is what makes it    *)
(* true: while a publish works through the subscribers, they do not change.  *)
(***************************************************************************)
EXTENDS NotificationBus, FiniteSetTheorems, SequenceTheorems, TLAPS

Places == {"idle", "insert", "count_new", "remove", "uncount", "count_sent",
           "read_subscribers", "sending", "count_failed", "read_stats",
           "count_subscribers", "cleanup"}

TypeOK ==
  /\ subscribers \subseteq Ids /\ closed \subseteq Ids /\ returned \subseteq Ids
  /\ inbox \in [Ids -> Seq(Nat)]
  /\ pc \in [Threads -> Places]
  /\ job \in [Threads -> Ids \cup Nat]
  /\ pending \in [Threads -> SUBSET Ids]
  /\ failed \in [Threads -> Nat]
  /\ bus_calls \in Nat

\* Threads before and inside the loop over the subscribers.
Announced == In({"count_sent", "read_subscribers"})
Looping   == In({"sending", "count_failed"})

\* Where in an inbox the notification of call n is.
Received(box, n) == {x \in 1..Len(box) : box[x] = n}

\* Every publish has a number of its own, used so far by nobody else.
Numbered ==
  /\ \A t \in In({"insert", "count_new", "remove", "uncount"}) : job[t] \in Ids
  /\ \A t \in Announced \cup Looping : job[t] \in 1..bus_calls
  /\ \A t, u \in Announced \cup Looping : job[t] = job[u] => t = u
  /\ \A i \in Ids : \A x \in 1..Len(inbox[i]) : inbox[i][x] <= bus_calls

\* Who has the notification of a publish, and who does not have it yet.
Progress ==
  /\ \A t \in Announced : \A i \in Ids : Received(inbox[i], job[t]) = {}
  /\ \A t \in Looping : \A i \in Ids :
       /\ i \in pending[t] => Received(inbox[i], job[t]) = {}
       /\ i \in subscribers \ (closed \cup pending[t]) =>
            \E x \in 1..Len(inbox[i]) : Received(inbox[i], job[t]) = {x}

BusInv == TypeOK /\ Numbered /\ Progress

\* The initial state satisfies the invariant.
LEMMA InitInv == BusInit => BusInv
<1> SUFFICES ASSUME BusInit  PROVE BusInv
  OBVIOUS
<1>1. <<>> \in Seq(Nat) /\ Len(<<>>) = 0
  BY EmptySeq
<1>2. TypeOK
  BY <1>1 DEF BusInit, TypeOK, Places
<1>3. In({"insert", "count_new", "remove", "uncount"}) = {} /\ Announced = {} /\ Looping = {}
  BY DEF BusInit, In, Announced, Looping
<1>4. \A i \in Ids : Len(inbox[i]) = 0
  BY <1>1 DEF BusInit
<1>5. Numbered
  BY <1>3, <1>4 DEF Numbered
<1> QED  BY <1>2, <1>3, <1>5 DEF BusInv, Progress

\* A step that neither publishes, sends nor changes the subscribers of a publish
\* that is under way.
LEMMA Kept ==
  ASSUME BusInv, TypeOK',
         bus_calls <= bus_calls', UNCHANGED inbox, closed \subseteq closed',
         Looping # {} => UNCHANGED subscribers,
         Announced' \cup Looping' \subseteq Announced \cup Looping,
         Announced' \subseteq Announced, Looping' \subseteq Looping,
         \A t \in Announced' \cup Looping' : job'[t] = job[t] /\ pending'[t] = pending[t],
         \A t \in In({"insert", "count_new", "remove", "uncount"})' : job'[t] \in Ids
  PROVE  BusInv'
<1>1. bus_calls \in Nat /\ bus_calls' \in Nat /\ \A n : n \in 1..bus_calls => n \in 1..bus_calls'
  BY DEF BusInv, TypeOK
<1>2. \A i \in Ids : \A x \in 1..Len(inbox[i]) : inbox[i][x] \in Nat
  <2>1. \A i \in Ids : inbox[i] \in Seq(Nat)
    BY DEF BusInv, TypeOK
  <2> QED  BY <2>1, ElementOfSeq
<1>3. \A i \in Ids : \A x \in 1..Len(inbox[i]) : inbox[i][x] <= bus_calls'
  BY <1>1, <1>2 DEF BusInv, Numbered
<1>4. Numbered'
  BY <1>1, <1>3 DEF BusInv, Numbered
<1>5. \A i \in Ids : \A n : Received(inbox'[i], n) = Received(inbox[i], n)
  BY DEF Received
<1>6. Progress'
  BY <1>5 DEF BusInv, Progress, Received
<1> QED  BY <1>4, <1>6 DEF BusInv

\* publish draws a number that nobody has received.
LEMMA PublishStep ==
  ASSUME BusInv, NEW t \in Threads, publish(t)
  PROVE  BusInv'
<1>1. TypeOK'
  BY DEF publish, Begin, Goto, BusInv, TypeOK, Places
<1>2. /\ Announced' = Announced \cup {t} /\ Looping' = Looping /\ t \notin Announced \cup Looping
      /\ In({"insert", "count_new", "remove", "uncount"})' = In({"insert", "count_new", "remove", "uncount"})
  BY DEF publish, Begin, Goto, BusInv, TypeOK, Announced, Looping, In
<1>3. /\ bus_calls' = bus_calls + 1 /\ bus_calls \in Nat /\ job'[t] = bus_calls + 1
      /\ \A u \in Threads \ {t} : job'[u] = job[u]
      /\ UNCHANGED <<inbox, subscribers, closed, pending>>
  BY DEF publish, Begin, BusInv, TypeOK
<1>4. Announced \cup Looping \subseteq Threads
      /\ In({"insert", "count_new", "remove", "uncount"}) \subseteq Threads \ {t}
  BY DEF Announced, Looping, In, publish, Begin
<1>5. \A i \in Ids : \A x \in 1..Len(inbox[i]) : inbox[i][x] \in Nat /\ inbox[i][x] <= bus_calls
  <2>1. \A i \in Ids : inbox[i] \in Seq(Nat)
    BY DEF BusInv, TypeOK
  <2> QED  BY <2>1, ElementOfSeq DEF BusInv, Numbered
<1>6. \A i \in Ids : Received(inbox[i], bus_calls + 1) = {}
  BY <1>3, <1>5 DEF Received
<1>7. \A i \in Ids : \A n : Received(inbox'[i], n) = Received(inbox[i], n)
  BY <1>3 DEF Received
<1> HIDE DEF Announced, Looping
<1>8. Numbered'
  <2>1. \A u \in Announced \cup Looping : job[u] \in 1..bus_calls
    BY DEF BusInv, Numbered
  <2>2. \A n : n \in 1..bus_calls => n \in 1..bus_calls + 1 /\ n # bus_calls + 1
    BY <1>3
  <2>3. \A i \in Ids : \A x \in 1..Len(inbox[i]) : inbox[i][x] <= bus_calls + 1
    BY <1>3, <1>5
  <2>4. bus_calls + 1 \in 1..bus_calls + 1
    BY <1>3
  <2> QED  BY <1>2, <1>3, <1>4, <2>1, <2>2, <2>3, <2>4 DEF BusInv, Numbered
<1>9. Progress'
  <2>1. ASSUME NEW u \in Announced', NEW i \in Ids  PROVE  Received(inbox'[i], job'[u]) = {}
    BY <1>2, <1>3, <1>4, <1>6, <1>7 DEF BusInv, Progress
  <2>2. ASSUME NEW u \in Looping', NEW i \in Ids
        PROVE  /\ i \in pending'[u] => Received(inbox'[i], job'[u]) = {}
               /\ i \in subscribers' \ (closed' \cup pending'[u]) =>
                    \E x \in 1..Len(inbox'[i]) : Received(inbox'[i], job'[u]) = {x}
    <3>1. u \in Looping /\ job'[u] = job[u]
      BY <1>2, <1>3, <1>4
    <3> QED  BY <1>3, <1>7, <3>1 DEF BusInv, Progress
  <2> QED  BY <2>1, <2>2 DEF Progress, Received
<1> QED  BY <1>1, <1>8, <1>9 DEF BusInv

\* The loop begins: everybody who is subscribed is to be sent to.
LEMMA ReadStep ==
  ASSUME BusInv, NEW t \in Threads, read_subscribers(t)
  PROVE  BusInv'
<1>1. TypeOK'
  BY DEF read_subscribers, Goto, BusInv, TypeOK, Places
<1>2. /\ Announced' = Announced \ {t} /\ Looping' = Looping \cup {t}
      /\ t \in Announced /\ t \notin Looping
      /\ In({"insert", "count_new", "remove", "uncount"})' = In({"insert", "count_new", "remove", "uncount"})
  BY DEF read_subscribers, Goto, BusInv, TypeOK, Announced, Looping, In
<1>3. /\ pending'[t] = subscribers /\ \A u \in Threads \ {t} : pending'[u] = pending[u]
      /\ UNCHANGED <<inbox, subscribers, closed, job, bus_calls>>
  BY DEF read_subscribers, BusInv, TypeOK
<1>4. Looping \subseteq Threads
  BY DEF Looping, In
<1>5. \A i \in Ids : \A n : Received(inbox'[i], n) = Received(inbox[i], n)
  BY <1>3 DEF Received
<1> HIDE DEF Announced, Looping
<1>6. Numbered'
  BY <1>2, <1>3 DEF BusInv, Numbered
<1>7. Progress'
  BY <1>2, <1>3, <1>4, <1>5 DEF BusInv, Progress, Received
<1> QED  BY <1>1, <1>6, <1>7 DEF BusInv

\* One turn of the loop.
LEMMA SendStep ==
  ASSUME BusInv, NEW t \in Threads, NEW i \in Ids, send(t, i)
  PROVE  BusInv'
<1>1. /\ t \in Looping /\ i \in pending[t] /\ pending'[t] = pending[t] \ {i}
      /\ \A u \in Threads \ {t} : pending'[u] = pending[u]
      /\ UNCHANGED <<subscribers, closed, pc, job, bus_calls>>
  BY DEF send, Looping, In, BusInv, TypeOK
<1>2. Announced' = Announced /\ Looping' = Looping
      /\ In({"insert", "count_new", "remove", "uncount"})' = In({"insert", "count_new", "remove", "uncount"})
      /\ Announced \cup Looping \subseteq Threads
      /\ Announced \cap Looping = {}
  BY <1>1 DEF Announced, Looping, In
<1>3. job[t] \in Nat /\ job[t] \in 1..bus_calls /\ bus_calls \in Nat
  BY <1>1 DEF BusInv, TypeOK, Numbered
<1>4. CASE i \in closed
  <2>1. UNCHANGED inbox
    BY <1>4 DEF send
  <2>2. TypeOK'
    BY <1>1, <1>4 DEF send, BusInv, TypeOK
  <2>3. \A j \in Ids : \A n : Received(inbox'[j], n) = Received(inbox[j], n)
    BY <2>1 DEF Received
  <2>4. Numbered'
    BY <1>1, <1>2, <2>1 DEF BusInv, Numbered
  <2> HIDE DEF Announced, Looping
  <2>5. Progress'
    BY <1>1, <1>2, <1>4, <2>1, <2>3 DEF BusInv, Progress, Received
  <2> QED  BY <2>2, <2>4, <2>5 DEF BusInv
<1>5. CASE i \notin closed
  <2>1. inbox' = [inbox EXCEPT ![i] = Append(@, job[t])] /\ UNCHANGED failed
    BY <1>5 DEF send
  <2>2. inbox \in [Ids -> Seq(Nat)] /\ inbox[i] \in Seq(Nat)
    BY DEF BusInv, TypeOK
  <2>3. /\ inbox'[i] = Append(inbox[i], job[t])
        /\ \A j \in Ids \ {i} : inbox'[j] = inbox[j]
        /\ inbox' \in [Ids -> Seq(Nat)]
    BY <1>3, <2>1, <2>2
  <2>4. /\ Len(inbox[i]) \in Nat /\ Len(inbox'[i]) = Len(inbox[i]) + 1
        /\ inbox'[i][Len(inbox[i]) + 1] = job[t]
        /\ \A x \in 1..Len(inbox[i]) : inbox'[i][x] = inbox[i][x]
    BY <1>3, <2>2, <2>3
  <2>5. TypeOK'
    BY <1>1, <2>1, <2>3 DEF send, BusInv, TypeOK
  <2>6. /\ \A j \in Ids \ {i} : \A n : Received(inbox'[j], n) = Received(inbox[j], n)
        /\ \A n : n # job[t] => Received(inbox'[i], n) = Received(inbox[i], n)
        /\ Received(inbox'[i], job[t]) = Received(inbox[i], job[t]) \cup {Len(inbox[i]) + 1}
    BY <1>1, <2>3, <2>4, SMTT(30) DEF Received
  <2>7. Numbered'
    <3>1. \A x \in 1..Len(inbox'[i]) : x \in 1..Len(inbox[i]) \/ x = Len(inbox[i]) + 1
      BY <2>4
    <3>2. \A j \in Ids : \A x \in 1..Len(inbox'[j]) : inbox'[j][x] <= bus_calls
      <4>1. ASSUME NEW j \in Ids, NEW x \in 1..Len(inbox'[j]), j # i  PROVE inbox'[j][x] <= bus_calls
        BY <2>3, <4>1 DEF BusInv, Numbered
      <4>2. ASSUME NEW x \in 1..Len(inbox'[i])  PROVE inbox'[i][x] <= bus_calls
        <5>1. job[t] <= bus_calls
          BY <1>3
        <5> QED  BY <2>4, <3>1, <5>1 DEF BusInv, Numbered
      <4> QED  BY <4>1, <4>2
    <3> QED  BY <1>1, <1>2, <3>2 DEF BusInv, Numbered
  <2>8. ASSUME NEW u \in Announced \cup Looping, u # t
        PROVE  \A j \in Ids : Received(inbox'[j], job[u]) = Received(inbox[j], job[u])
    <3>1. job[u] # job[t]
      BY <1>1, <2>8 DEF BusInv, Numbered
    <3> QED  BY <2>6, <3>1
  <2>9. Received(inbox'[i], job[t]) = {Len(inbox[i]) + 1} /\ Len(inbox[i]) + 1 \in 1..Len(inbox'[i])
    BY <1>1, <2>4, <2>6 DEF BusInv, Progress
  <2>10. \A j \in Ids : \A n : Received(inbox[j], n) \subseteq 1..Len(inbox[j]) /\ Received(inbox'[j], n) \subseteq 1..Len(inbox'[j])
    BY DEF Received
  <2> HIDE DEF Announced, Looping
  <2>11. ASSUME NEW u \in Announced, NEW j \in Ids
         PROVE  Received(inbox'[j], job[u]) = {}
    BY <1>1, <1>2, <2>8, <2>11 DEF BusInv, Progress
  <2>12. ASSUME NEW u \in Looping, NEW j \in Ids
         PROVE  /\ j \in pending'[u] => Received(inbox'[j], job[u]) = {}
                /\ j \in subscribers \ (closed \cup pending'[u]) =>
                     \E x \in 1..Len(inbox'[j]) : Received(inbox'[j], job[u]) = {x}
    <3>1. CASE u # t
      <4>1. /\ pending'[u] = pending[u] /\ Received(inbox'[j], job[u]) = Received(inbox[j], job[u])
        BY <1>1, <1>2, <2>8, <3>1
      <4>2. \A x : Received(inbox'[j], job[u]) = {x} => x \in 1..Len(inbox'[j])
        BY <2>10
      <4> QED  BY <4>1, <4>2 DEF BusInv, Progress
    <3>2. CASE u = t /\ j # i
      <4>1. Received(inbox'[j], job[t]) = Received(inbox[j], job[t]) /\ inbox'[j] = inbox[j]
        BY <2>3, <2>6, <3>2
      <4> QED  BY <1>1, <3>2, <4>1 DEF BusInv, Progress
    <3>3. CASE u = t /\ j = i
      BY <1>1, <2>9, <3>3
    <3> QED  BY <3>1, <3>2, <3>3
  <2>13. Progress'
    BY <1>1, <1>2, <2>11, <2>12 DEF Progress, Received
  <2> QED  BY <2>5, <2>7, <2>13 DEF BusInv
<1> QED  BY <1>4, <1>5

\* Every step keeps the invariant.
LEMMA NextInv == BusInv /\ [BusNext]_busVars => BusInv'
<1> SUFFICES ASSUME BusInv, [BusNext]_busVars  PROVE BusInv'
  OBVIOUS
<1> DEFINE Named == In({"insert", "count_new", "remove", "uncount"})
<1> USE DEF Goto, Begin, CanWriteSubscribers, ReadsSubscribers
<1>1. CASE UNCHANGED busVars
  BY <1>1 DEF busVars, BusInv, TypeOK, Numbered, Progress, Announced, Looping, In
<1>2. ASSUME NEW t \in Threads, Call(t) \/ Step(t)
      PROVE  BusInv'
  <2>1. CASE subscribe(t)
    <3>1. TypeOK'
      BY <2>1 DEF subscribe, BusInv, TypeOK, Numbered, In, Places
    <3>2. /\ bus_calls <= bus_calls' /\ UNCHANGED inbox /\ closed \subseteq closed'
          /\ Looping # {} => UNCHANGED subscribers
      BY <2>1 DEF subscribe, BusInv, TypeOK, Looping
    <3>3. Announced' \subseteq Announced /\ Looping' \subseteq Looping
      BY <2>1 DEF subscribe, BusInv, TypeOK, Announced, Looping, In
    <3>4. \A u \in Announced' \cup Looping' : job'[u] = job[u] /\ pending'[u] = pending[u]
      BY <2>1 DEF subscribe, BusInv, TypeOK, Announced, Looping, In
    <3>5. \A u \in Named' : job'[u] \in Ids
      BY <2>1 DEF subscribe, BusInv, TypeOK, Numbered, In
    <3> QED  BY <3>1, <3>2, <3>3, <3>4, <3>5, Kept
  <2>2. CASE insert(t)
    <3>1. TypeOK'
      BY <2>2 DEF insert, BusInv, TypeOK, Numbered, In, Places
    <3>2. /\ bus_calls <= bus_calls' /\ UNCHANGED inbox /\ closed \subseteq closed'
          /\ Looping # {} => UNCHANGED subscribers
      BY <2>2 DEF insert, BusInv, TypeOK, Looping
    <3>3. Announced' \subseteq Announced /\ Looping' \subseteq Looping
      BY <2>2 DEF insert, BusInv, TypeOK, Announced, Looping, In
    <3>4. \A u \in Announced' \cup Looping' : job'[u] = job[u] /\ pending'[u] = pending[u]
      BY <2>2 DEF insert, BusInv, TypeOK, Announced, Looping, In
    <3>5. \A u \in Named' : job'[u] \in Ids
      BY <2>2 DEF insert, BusInv, TypeOK, Numbered, In
    <3> QED  BY <3>1, <3>2, <3>3, <3>4, <3>5, Kept
  <2>3. CASE count_new(t)
    <3>1. TypeOK'
      BY <2>3 DEF count_new, BusInv, TypeOK, Numbered, In, Places
    <3>2. /\ bus_calls <= bus_calls' /\ UNCHANGED inbox /\ closed \subseteq closed'
          /\ Looping # {} => UNCHANGED subscribers
      BY <2>3 DEF count_new, BusInv, TypeOK, Looping
    <3>3. Announced' \subseteq Announced /\ Looping' \subseteq Looping
      BY <2>3 DEF count_new, BusInv, TypeOK, Announced, Looping, In
    <3>4. \A u \in Announced' \cup Looping' : job'[u] = job[u] /\ pending'[u] = pending[u]
      BY <2>3 DEF count_new, BusInv, TypeOK, Announced, Looping, In
    <3>5. \A u \in Named' : job'[u] \in Ids
      BY <2>3 DEF count_new, BusInv, TypeOK, Numbered, In
    <3> QED  BY <3>1, <3>2, <3>3, <3>4, <3>5, Kept
  <2>4. CASE unsubscribe(t)
    <3>1. TypeOK'
      BY <2>4 DEF unsubscribe, BusInv, TypeOK, Numbered, In, Places
    <3>2. /\ bus_calls <= bus_calls' /\ UNCHANGED inbox /\ closed \subseteq closed'
          /\ Looping # {} => UNCHANGED subscribers
      BY <2>4 DEF unsubscribe, BusInv, TypeOK, Looping
    <3>3. Announced' \subseteq Announced /\ Looping' \subseteq Looping
      BY <2>4 DEF unsubscribe, BusInv, TypeOK, Announced, Looping, In
    <3>4. \A u \in Announced' \cup Looping' : job'[u] = job[u] /\ pending'[u] = pending[u]
      BY <2>4 DEF unsubscribe, BusInv, TypeOK, Announced, Looping, In
    <3>5. \A u \in Named' : job'[u] \in Ids
      BY <2>4 DEF unsubscribe, BusInv, TypeOK, Numbered, In
    <3> QED  BY <3>1, <3>2, <3>3, <3>4, <3>5, Kept
  <2>5. CASE remove(t)
    <3>1. TypeOK'
      BY <2>5 DEF remove, BusInv, TypeOK, Numbered, In, Places
    <3>2. /\ bus_calls <= bus_calls' /\ UNCHANGED inbox /\ closed \subseteq closed'
          /\ Looping # {} => UNCHANGED subscribers
      BY <2>5 DEF remove, BusInv, TypeOK, Looping
    <3>3. Announced' \subseteq Announced /\ Looping' \subseteq Looping
      BY <2>5 DEF remove, BusInv, TypeOK, Announced, Looping, In
    <3>4. \A u \in Announced' \cup Looping' : job'[u] = job[u] /\ pending'[u] = pending[u]
      BY <2>5 DEF remove, BusInv, TypeOK, Announced, Looping, In
    <3>5. \A u \in Named' : job'[u] \in Ids
      BY <2>5 DEF remove, BusInv, TypeOK, Numbered, In
    <3> QED  BY <3>1, <3>2, <3>3, <3>4, <3>5, Kept
  <2>6. CASE uncount(t)
    <3>1. TypeOK'
      BY <2>6 DEF uncount, BusInv, TypeOK, Numbered, In, Places
    <3>2. /\ bus_calls <= bus_calls' /\ UNCHANGED inbox /\ closed \subseteq closed'
          /\ Looping # {} => UNCHANGED subscribers
      BY <2>6 DEF uncount, BusInv, TypeOK, Looping
    <3>3. Announced' \subseteq Announced /\ Looping' \subseteq Looping
      BY <2>6 DEF uncount, BusInv, TypeOK, Announced, Looping, In
    <3>4. \A u \in Announced' \cup Looping' : job'[u] = job[u] /\ pending'[u] = pending[u]
      BY <2>6 DEF uncount, BusInv, TypeOK, Announced, Looping, In
    <3>5. \A u \in Named' : job'[u] \in Ids
      BY <2>6 DEF uncount, BusInv, TypeOK, Numbered, In
    <3> QED  BY <3>1, <3>2, <3>3, <3>4, <3>5, Kept
  <2>7. CASE count_sent(t)
    <3>1. TypeOK'
      BY <2>7 DEF count_sent, BusInv, TypeOK, Numbered, In, Places
    <3>2. /\ bus_calls <= bus_calls' /\ UNCHANGED inbox /\ closed \subseteq closed'
          /\ Looping # {} => UNCHANGED subscribers
      BY <2>7 DEF count_sent, BusInv, TypeOK, Looping
    <3>3. Announced' \subseteq Announced /\ Looping' \subseteq Looping
      BY <2>7 DEF count_sent, BusInv, TypeOK, Announced, Looping, In
    <3>4. \A u \in Announced' \cup Looping' : job'[u] = job[u] /\ pending'[u] = pending[u]
      BY <2>7 DEF count_sent, BusInv, TypeOK, Announced, Looping, In
    <3>5. \A u \in Named' : job'[u] \in Ids
      BY <2>7 DEF count_sent, BusInv, TypeOK, Numbered, In
    <3> QED  BY <3>1, <3>2, <3>3, <3>4, <3>5, Kept
  <2>8. CASE sent_all(t)
    <3>1. TypeOK'
      BY <2>8 DEF sent_all, BusInv, TypeOK, Numbered, In, Places
    <3>2. /\ bus_calls <= bus_calls' /\ UNCHANGED inbox /\ closed \subseteq closed'
          /\ Looping # {} => UNCHANGED subscribers
      BY <2>8 DEF sent_all, BusInv, TypeOK, Looping
    <3>3. Announced' \subseteq Announced /\ Looping' \subseteq Looping
      BY <2>8 DEF sent_all, BusInv, TypeOK, Announced, Looping, In
    <3>4. \A u \in Announced' \cup Looping' : job'[u] = job[u] /\ pending'[u] = pending[u]
      BY <2>8 DEF sent_all, BusInv, TypeOK, Announced, Looping, In
    <3>5. \A u \in Named' : job'[u] \in Ids
      BY <2>8 DEF sent_all, BusInv, TypeOK, Numbered, In
    <3> QED  BY <3>1, <3>2, <3>3, <3>4, <3>5, Kept
  <2>9. CASE count_failed(t)
    <3>1. TypeOK'
      BY <2>9 DEF count_failed, BusInv, TypeOK, Numbered, In, Places
    <3>2. /\ bus_calls <= bus_calls' /\ UNCHANGED inbox /\ closed \subseteq closed'
          /\ Looping # {} => UNCHANGED subscribers
      BY <2>9 DEF count_failed, BusInv, TypeOK, Looping
    <3>3. Announced' \subseteq Announced /\ Looping' \subseteq Looping
      BY <2>9 DEF count_failed, BusInv, TypeOK, Announced, Looping, In
    <3>4. \A u \in Announced' \cup Looping' : job'[u] = job[u] /\ pending'[u] = pending[u]
      BY <2>9 DEF count_failed, BusInv, TypeOK, Announced, Looping, In
    <3>5. \A u \in Named' : job'[u] \in Ids
      BY <2>9 DEF count_failed, BusInv, TypeOK, Numbered, In
    <3> QED  BY <3>1, <3>2, <3>3, <3>4, <3>5, Kept
  <2>10. CASE get_stats(t)
    <3>1. TypeOK'
      BY <2>10 DEF get_stats, BusInv, TypeOK, Numbered, In, Places
    <3>2. /\ bus_calls <= bus_calls' /\ UNCHANGED inbox /\ closed \subseteq closed'
          /\ Looping # {} => UNCHANGED subscribers
      BY <2>10 DEF get_stats, BusInv, TypeOK, Looping
    <3>3. Announced' \subseteq Announced /\ Looping' \subseteq Looping
      BY <2>10 DEF get_stats, BusInv, TypeOK, Announced, Looping, In
    <3>4. \A u \in Announced' \cup Looping' : job'[u] = job[u] /\ pending'[u] = pending[u]
      BY <2>10 DEF get_stats, BusInv, TypeOK, Announced, Looping, In
    <3>5. \A u \in Named' : job'[u] \in Ids
      BY <2>10 DEF get_stats, BusInv, TypeOK, Numbered, In
    <3> QED  BY <3>1, <3>2, <3>3, <3>4, <3>5, Kept
  <2>11. CASE read_stats(t)
    <3>1. TypeOK'
      BY <2>11 DEF read_stats, BusInv, TypeOK, Numbered, In, Places
    <3>2. /\ bus_calls <= bus_calls' /\ UNCHANGED inbox /\ closed \subseteq closed'
          /\ Looping # {} => UNCHANGED subscribers
      BY <2>11 DEF read_stats, BusInv, TypeOK, Looping
    <3>3. Announced' \subseteq Announced /\ Looping' \subseteq Looping
      BY <2>11 DEF read_stats, BusInv, TypeOK, Announced, Looping, In
    <3>4. \A u \in Announced' \cup Looping' : job'[u] = job[u] /\ pending'[u] = pending[u]
      BY <2>11 DEF read_stats, BusInv, TypeOK, Announced, Looping, In
    <3>5. \A u \in Named' : job'[u] \in Ids
      BY <2>11 DEF read_stats, BusInv, TypeOK, Numbered, In
    <3> QED  BY <3>1, <3>2, <3>3, <3>4, <3>5, Kept
  <2>12. CASE count_subscribers(t)
    <3>1. TypeOK'
      BY <2>12 DEF count_subscribers, BusInv, TypeOK, Numbered, In, Places
    <3>2. /\ bus_calls <= bus_calls' /\ UNCHANGED inbox /\ closed \subseteq closed'
          /\ Looping # {} => UNCHANGED subscribers
      BY <2>12 DEF count_subscribers, BusInv, TypeOK, Looping
    <3>3. Announced' \subseteq Announced /\ Looping' \subseteq Looping
      BY <2>12 DEF count_subscribers, BusInv, TypeOK, Announced, Looping, In
    <3>4. \A u \in Announced' \cup Looping' : job'[u] = job[u] /\ pending'[u] = pending[u]
      BY <2>12 DEF count_subscribers, BusInv, TypeOK, Announced, Looping, In
    <3>5. \A u \in Named' : job'[u] \in Ids
      BY <2>12 DEF count_subscribers, BusInv, TypeOK, Numbered, In
    <3> QED  BY <3>1, <3>2, <3>3, <3>4, <3>5, Kept
  <2>13. CASE cleanup_closed_subscribers(t)
    <3>1. TypeOK'
      BY <2>13 DEF cleanup_closed_subscribers, BusInv, TypeOK, Numbered, In, Places
    <3>2. /\ bus_calls <= bus_calls' /\ UNCHANGED inbox /\ closed \subseteq closed'
          /\ Looping # {} => UNCHANGED subscribers
      BY <2>13 DEF cleanup_closed_subscribers, BusInv, TypeOK, Looping
    <3>3. Announced' \subseteq Announced /\ Looping' \subseteq Looping
      BY <2>13 DEF cleanup_closed_subscribers, BusInv, TypeOK, Announced, Looping, In
    <3>4. \A u \in Announced' \cup Looping' : job'[u] = job[u] /\ pending'[u] = pending[u]
      BY <2>13 DEF cleanup_closed_subscribers, BusInv, TypeOK, Announced, Looping, In
    <3>5. \A u \in Named' : job'[u] \in Ids
      BY <2>13 DEF cleanup_closed_subscribers, BusInv, TypeOK, Numbered, In
    <3> QED  BY <3>1, <3>2, <3>3, <3>4, <3>5, Kept
  <2>14. CASE retain(t)
    <3>1. TypeOK'
      BY <2>14 DEF retain, BusInv, TypeOK, Numbered, In, Places
    <3>2. /\ bus_calls <= bus_calls' /\ UNCHANGED inbox /\ closed \subseteq closed'
          /\ Looping # {} => UNCHANGED subscribers
      BY <2>14 DEF retain, BusInv, TypeOK, Looping
    <3>3. Announced' \subseteq Announced /\ Looping' \subseteq Looping
      BY <2>14 DEF retain, BusInv, TypeOK, Announced, Looping, In
    <3>4. \A u \in Announced' \cup Looping' : job'[u] = job[u] /\ pending'[u] = pending[u]
      BY <2>14 DEF retain, BusInv, TypeOK, Announced, Looping, In
    <3>5. \A u \in Named' : job'[u] \in Ids
      BY <2>14 DEF retain, BusInv, TypeOK, Numbered, In
    <3> QED  BY <3>1, <3>2, <3>3, <3>4, <3>5, Kept
  <2>15. CASE wait(t)
    BY <2>15 DEF wait, BusInv, TypeOK, Numbered, Progress, Announced, Looping, In
  <2>16. CASE publish(t)
    BY <2>16, PublishStep
  <2>17. CASE read_subscribers(t)
    BY <2>17, ReadStep
  <2>18. CASE \E i \in Ids : send(t, i)
    BY <2>18, SendStep
  <2> QED  BY <1>2, <2>1, <2>2, <2>3, <2>4, <2>5, <2>6, <2>7, <2>8, <2>9, <2>10, <2>11, <2>12, <2>13, <2>14, <2>15, <2>16, <2>17, <2>18 DEF Call, Step
<1>3. ASSUME NEW i \in Ids, drop_receiver(i)  PROVE BusInv'
  <2>1. TypeOK' /\ closed \subseteq closed'
    BY <1>3 DEF drop_receiver, BusInv, TypeOK
  <2>2. UNCHANGED <<bus_calls, inbox, subscribers, pc, job, pending>>
    BY <1>3 DEF drop_receiver
  <2>3. Announced' = Announced /\ Looping' = Looping /\ Named' = Named
    BY <2>2 DEF Announced, Looping, In
  <2>4. Numbered'
    BY <2>2, <2>3 DEF BusInv, Numbered
  <2>5. Progress'
    BY <2>1, <2>2, <2>3 DEF BusInv, Progress
  <2> QED  BY <2>1, <2>4, <2>5 DEF BusInv
<1> QED  BY <1>1, <1>2, <1>3 DEF BusNext

\* The invariant holds in every reachable state.
THEOREM BusCorrect == BusSpec => []BusInv
BY InitInv, NextInv, PTL DEF BusSpec

\* A publish sends to every subscriber that listens, once, whatever other threads
\* subscribe, unsubscribe, clean up or publish meanwhile.
THEOREM NobodyIsLeftOut == BusSpec => []NobodyLeftOut
<1>1. BusInv => NobodyLeftOut
  <2> SUFFICES ASSUME BusInv, NEW t \in Threads, pc[t] \in {"sending", "count_failed"},
                      NEW i \in subscribers \ (closed \cup pending[t])
               PROVE  Cardinality({x \in 1..Len(inbox[i]) : inbox[i][x] = job[t]}) = 1
    BY DEF NobodyLeftOut
  <2>1. t \in Looping /\ i \in Ids
    BY DEF Looping, In, BusInv, TypeOK
  <2>2. \E x \in 1..Len(inbox[i]) : Received(inbox[i], job[t]) = {x}
    BY <2>1 DEF BusInv, Progress
  <2>3. Cardinality(Received(inbox[i], job[t])) = 1
    BY <2>2, FS_Singleton
  <2> QED  BY <2>3 DEF Received
<1> QED  BY <1>1, BusCorrect, PTL
=============================================================================
