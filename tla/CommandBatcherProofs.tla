------------------------ MODULE CommandBatcherProofs ------------------------
(***************************************************************************)
(* The batcher neither loses, duplicates nor reorders an accepted command,  *)
(* its statistics add up, and its batch size never adapts: for every set of *)
(* configurations and any number of calls.                                  *)
(***************************************************************************)
EXTENDS CommandBatcher, SequenceTheorems, TLAPS

Stats == [total_commands : Nat, total_batches : Nat, commands_dropped : Nat,
          flush_timeouts : Nat, adaptive_adjustments : Nat]

BatcherInv == TypeOK /\ NothingLost /\ StatsAddUp /\ NeverAdapts

\* Cutting a queue in two and putting it together again.
LEMMA Cut ==
  ASSUME NEW q \in Seq(Nat), NEW n \in 0..Len(q)
  PROVE  /\ SubSeq(q, 1, n) \in Seq(Nat) /\ Len(SubSeq(q, 1, n)) = n
         /\ SubSeq(q, n + 1, Len(q)) \in Seq(Nat)
         /\ Len(SubSeq(q, n + 1, Len(q))) = Len(q) - n
         /\ SubSeq(q, 1, n) \o SubSeq(q, n + 1, Len(q)) = q
<1>1. Len(q) \in Nat /\ \A i \in 1..Len(q) : q[i] \in Nat
  BY LenProperties, ElementOfSeq
<1>2. /\ SubSeq(q, 1, n) \in Seq(Nat)
      /\ Len(SubSeq(q, 1, n)) = IF 1 <= n THEN n - 1 + 1 ELSE 0
  BY <1>1, SubSeqProperties
<1>3. /\ SubSeq(q, n + 1, Len(q)) \in Seq(Nat)
      /\ Len(SubSeq(q, n + 1, Len(q))) = IF n + 1 <= Len(q) THEN Len(q) - (n + 1) + 1 ELSE 0
  BY <1>1, SubSeqProperties
<1>4. SubSeq(q, 1, n) \o SubSeq(q, n + 1, Len(q)) = SubSeq(q, 1, Len(q))
  <2>1. 1 \in 1..Len(q) + 1 /\ n \in 1 - 1..Len(q) /\ Len(q) \in n..Len(q)
    BY <1>1
  <2> QED  BY <2>1, ConcatAdjacentSubSeq, Zenon
<1>5. SubSeq(q, 1, Len(q)) = q
  BY SubSeqFull
<1>6. Len(SubSeq(q, 1, n)) = n
  BY <1>2
<1>7. Len(SubSeq(q, n + 1, Len(q))) = Len(q) - n
  BY <1>1, <1>3
<1>8. SubSeq(q, 1, n) \o SubSeq(q, n + 1, Len(q)) = q
  BY <1>4, <1>5, Zenon
<1> QED  BY <1>2, <1>3, <1>6, <1>7, <1>8, Zenon

\* Concatenation of command sequences is associative.
LEMMA Concat3 ==
  ASSUME NEW s \in Seq(Nat), NEW t \in Seq(Nat), NEW u \in Seq(Nat)
  PROVE  (s \o t) \o u = s \o (t \o u)
BY ConcatAssociative, SMTT(30)

\* The statistics after a batch.
LEMMA BatchStats ==
  ASSUME NEW st \in Stats, NEW n \in Nat
  PROVE  LET done == record_batch(st, n) IN
         /\ done \in Stats
         /\ done.total_commands = st.total_commands + n
         /\ done.total_batches = st.total_batches + 1
         /\ done.commands_dropped = st.commands_dropped
         /\ done.flush_timeouts = st.flush_timeouts
         /\ done.adaptive_adjustments = st.adaptive_adjustments
<1>1. st.total_commands + n \in Nat /\ st.total_batches + 1 \in Nat
  BY DEF Stats
<1> QED  BY <1>1 DEF Stats, record_batch

\* The same for a timed flush.
LEMMA TimeoutStats ==
  ASSUME NEW st \in Stats
  PROVE  LET timed == [st EXCEPT !.flush_timeouts = @ + 1] IN
         /\ timed \in Stats
         /\ timed.total_commands = st.total_commands
         /\ timed.total_batches = st.total_batches
         /\ timed.commands_dropped = st.commands_dropped
         /\ timed.flush_timeouts = st.flush_timeouts + 1
         /\ timed.adaptive_adjustments = st.adaptive_adjustments
<1>1. st.flush_timeouts + 1 \in Nat
  BY DEF Stats
<1> QED  BY <1>1 DEF Stats

\* The same for a refused command.
LEMMA DropStats ==
  ASSUME NEW st \in Stats
  PROVE  LET refused == [st EXCEPT !.commands_dropped = @ + 1] IN
         /\ refused \in Stats
         /\ refused.total_commands = st.total_commands
         /\ refused.total_batches = st.total_batches
         /\ refused.commands_dropped = st.commands_dropped + 1
         /\ refused.flush_timeouts = st.flush_timeouts
         /\ refused.adaptive_adjustments = st.adaptive_adjustments
<1>1. st.commands_dropped + 1 \in Nat
  BY DEF Stats
<1> QED  BY <1>1 DEF Stats

\* What flush_batch does to the queue, and that the adaptive code leaves the
\* batch size alone.
LEMMA FlushBatch ==
  ASSUME TypeOK, NeverAdapts, NEW q \in Seq(Nat), NEW st \in Stats,
         st.adaptive_adjustments = 0, st.flush_timeouts <= st.total_batches + 1,
         flush_batch(q, st)
  PROVE  \E n \in 0..Len(q) :
           /\ n = Least(config.max_batch_size, Len(q))
           /\ emitted' \in Seq(Nat) /\ Len(emitted') = Len(emitted) + n
           /\ buffer' \in Seq(Nat) /\ Len(buffer') = Len(q) - n
           /\ emitted' \o buffer' = emitted \o q
           /\ stats' = record_batch(st, n)
           /\ UNCHANGED adaptive_batch_size
<1> DEFINE n    == Least(current_batch_size, Len(q))
           done == record_batch(st, n)
<1>1. config.max_batch_size \in Nat /\ adaptive_batch_size = config.max_batch_size
  BY BatcherAssumption DEF TypeOK, NeverAdapts
<1>2. n \in 0..Len(q)
  BY <1>1 DEF Least, current_batch_size
<1>3. /\ done \in Stats
      /\ done.flush_timeouts = st.flush_timeouts
      /\ done.total_batches = st.total_batches + 1
  <2>1. n \in Nat
    BY <1>2, LenProperties
  <2> HIDE DEF n
  <2> QED  BY <2>1, BatchStats
<1>4. ~(adaptive_batch_size < config.max_batch_size)
  BY <1>1
<1>5. ~(2 * done.total_batches < done.flush_timeouts + 1)
  BY <1>3 DEF Stats
<1>6. stats' = done /\ UNCHANGED adaptive_batch_size
  BY <1>4, <1>5 DEF flush_batch, adjust_adaptive_batch_size
<1>7. /\ emitted' = emitted \o SubSeq(q, 1, n)
      /\ buffer' = SubSeq(q, n + 1, Len(q))
  BY DEF flush_batch
<1>8. /\ SubSeq(q, 1, n) \in Seq(Nat) /\ Len(SubSeq(q, 1, n)) = n
      /\ buffer' \in Seq(Nat) /\ Len(buffer') = Len(q) - n
      /\ SubSeq(q, 1, n) \o buffer' = q
  BY <1>2, <1>7, Cut
<1>9. /\ emitted' \in Seq(Nat) /\ Len(emitted') = Len(emitted) + n
      /\ emitted' \o buffer' = emitted \o q
  <2>1. emitted \in Seq(Nat)
    BY DEF TypeOK
  <2> HIDE DEF n
  <2>2. (emitted \o SubSeq(q, 1, n)) \o buffer' = emitted \o (SubSeq(q, 1, n) \o buffer')
    BY <1>8, <2>1, Concat3
  <2>3. /\ emitted \o SubSeq(q, 1, n) \in Seq(Nat)
        /\ Len(emitted \o SubSeq(q, 1, n)) = Len(emitted) + Len(SubSeq(q, 1, n))
    BY <1>8, <2>1, ConcatProperties, Zenon
  <2> QED  BY <1>7, <1>8, <2>2, <2>3
<1>10. n = Least(config.max_batch_size, Len(q))
  BY <1>1 DEF current_batch_size
<1> HIDE DEF n
<1> QED  BY <1>2, <1>6, <1>8, <1>9, <1>10

\* total + waiting + dropped after a flush of n out of b + k commands.
LEMMA Sums ==
  ASSUME NEW t \in Nat, NEW b \in Nat, NEW d \in Nat, NEW k \in Nat, NEW n \in Nat
  PROVE  (t + n) + ((b + k) - n) + d = (t + b + d) + k
OBVIOUS

\* The same for one more command and no flush.
LEMMA OneMore ==
  ASSUME NEW t \in Nat, NEW b \in Nat, NEW d \in Nat
  PROVE  t + (b + 1) + d = (t + b + d) + 1
OBVIOUS

\* The same for a refused command.
LEMMA OneDropped ==
  ASSUME NEW t \in Nat, NEW b \in Nat, NEW d \in Nat
  PROVE  t + b + (d + 1) = (t + b + d) + 1
OBVIOUS

\* A new batcher has accepted nothing.
LEMMA BatcherInit == Init => BatcherInv
<1> SUFFICES ASSUME Init PROVE BatcherInv
  OBVIOUS
<1>1. TypeOK
  BY BatcherAssumption DEF Init, NoStats, TypeOK
<1>2. NothingLost
  BY DEF Init, NothingLost
<1>3. StatsAddUp /\ NeverAdapts
  BY DEF Init, NoStats, StatsAddUp, NeverAdapts
<1> QED  BY <1>1, <1>2, <1>3 DEF BatcherInv

\* A flush keeps the invariant: taken = 1 if it comes with a new command, which
\* is then the last of q.
LEMMA FlushKeeps ==
  ASSUME BatcherInv, NEW q \in Seq(Nat), NEW st \in Stats, NEW taken \in {0, 1},
         Len(q) = Len(buffer) + taken,
         st.total_commands = stats.total_commands,
         st.total_batches = stats.total_batches,
         st.commands_dropped = stats.commands_dropped,
         st.adaptive_adjustments = 0, st.flush_timeouts <= st.total_batches + 1,
         flush_batch(q, st), calls' = calls + taken,
         accepted' = emitted \o q, UNCHANGED <<config, updates>>
  PROVE  BatcherInv'
<1>1. PICK n \in 0..Len(q) :
           /\ emitted' \in Seq(Nat) /\ Len(emitted') = Len(emitted) + n
           /\ buffer' \in Seq(Nat) /\ Len(buffer') = Len(q) - n
           /\ emitted' \o buffer' = emitted \o q
           /\ stats' = record_batch(st, n)
           /\ UNCHANGED adaptive_batch_size
  BY FlushBatch DEF BatcherInv
<1>2. /\ Len(q) \in Nat /\ Len(buffer) \in Nat /\ Len(emitted) \in Nat
      /\ emitted \in Seq(Nat) /\ calls \in Nat
  BY LenProperties DEF BatcherInv, TypeOK
<1>3. /\ stats' \in Stats
      /\ stats'.total_commands = st.total_commands + n
      /\ stats'.total_batches = st.total_batches + 1
      /\ stats'.commands_dropped = st.commands_dropped
      /\ stats'.flush_timeouts = st.flush_timeouts
      /\ stats'.adaptive_adjustments = 0
  <2>1. n \in Nat
    BY <1>1, <1>2
  <2> QED  BY <1>1, <2>1, BatchStats
<1>4. accepted' \in Seq(Nat)
  BY <1>2, ConcatProperties
<1>5. TypeOK'
  BY <1>1, <1>2, <1>3, <1>4 DEF BatcherInv, TypeOK, Stats
<1>6. NothingLost'
  BY <1>1 DEF NothingLost
<1>7. StatsAddUp'
  <2>1. /\ stats.total_commands = Len(emitted)
        /\ stats.total_commands + Len(buffer) + stats.commands_dropped = calls
    BY DEF BatcherInv, StatsAddUp
  <2>2. stats.commands_dropped \in Nat
    BY DEF BatcherInv, TypeOK
  <2>3. /\ stats'.total_commands = Len(emitted')
        /\ stats'.total_commands + Len(buffer') + stats'.commands_dropped = calls'
    <3>1. n \in Nat /\ taken \in Nat /\ stats.total_commands \in Nat
      BY <1>1, <1>2, <2>1
    <3>2. (stats.total_commands + n) + ((Len(buffer) + taken) - n) + stats.commands_dropped
            = (stats.total_commands + Len(buffer) + stats.commands_dropped) + taken
      BY <1>2, <2>2, <3>1, Sums
    <3>3. /\ stats'.total_commands = stats.total_commands + n
          /\ stats'.commands_dropped = stats.commands_dropped
          /\ Len(buffer') = (Len(buffer) + taken) - n
      BY <1>1, <1>3
    <3> QED  BY <1>1, <2>1, <3>2, <3>3, Zenon
  <2> QED  BY <2>3 DEF StatsAddUp
<1>8. NeverAdapts'
  BY <1>1, <1>3 DEF BatcherInv, NeverAdapts, Stats
<1> QED  BY <1>5, <1>6, <1>7, <1>8 DEF BatcherInv

\* BatcherInv is inductive.
LEMMA BatcherNext == BatcherInv /\ [Next]_vars => BatcherInv'
<1> SUFFICES ASSUME BatcherInv, [Next]_vars PROVE BatcherInv'
  OBVIOUS
<1>1. /\ buffer \in Seq(Nat) /\ emitted \in Seq(Nat) /\ calls \in Nat /\ stats \in Stats
      /\ accepted = emitted \o buffer
      /\ stats.adaptive_adjustments = 0 /\ stats.flush_timeouts <= stats.total_batches
      /\ Len(buffer) \in Nat
  BY LenProperties DEF BatcherInv, TypeOK, NothingLost, NeverAdapts, Stats
<1>2. ASSUME NEW elapsed \in BOOLEAN, add_command(elapsed) PROVE BatcherInv'
  <2> DEFINE q == Append(buffer, calls + 1)
  <2>1. q \in Seq(Nat) /\ Len(q) = Len(buffer) + 1
    BY <1>1, AppendProperties
  <2>2. calls' = calls + 1 /\ UNCHANGED <<config, updates>>
    BY <1>2 DEF add_command
  <2>3. CASE /\ stats' = [stats EXCEPT !.commands_dropped = @ + 1]
             /\ UNCHANGED <<buffer, adaptive_batch_size, accepted, emitted>>
    <3>1. /\ stats' \in Stats
          /\ stats'.commands_dropped = stats.commands_dropped + 1
          /\ stats'.total_commands = stats.total_commands
          /\ stats'.total_batches = stats.total_batches
          /\ stats'.flush_timeouts = stats.flush_timeouts
          /\ stats'.adaptive_adjustments = 0
      BY <1>1, <2>3, DropStats
    <3>2. TypeOK'
      BY <1>1, <2>2, <2>3, <3>1, SMTT(30) DEF BatcherInv, TypeOK, Stats
    <3>3. NothingLost'
      BY <2>3 DEF BatcherInv, NothingLost
    <3>4. StatsAddUp'
      <4>1. /\ stats.total_commands = Len(emitted)
            /\ stats.total_commands + Len(buffer) + stats.commands_dropped = calls
        BY DEF BatcherInv, StatsAddUp
      <4>2. stats.total_commands \in Nat /\ stats.commands_dropped \in Nat
        BY <1>1 DEF Stats
      <4>3. stats.total_commands + Len(buffer) + (stats.commands_dropped + 1) = calls + 1
        <5>1. Len(buffer) \in Nat
          BY <1>1
        <5>2. stats.total_commands + Len(buffer) + (stats.commands_dropped + 1)
                = (stats.total_commands + Len(buffer) + stats.commands_dropped) + 1
          BY <5>1, <4>2, OneDropped
        <5> QED  BY <4>1, <5>2, Zenon
      <4> QED  BY <2>2, <2>3, <3>1, <4>1, <4>3 DEF StatsAddUp
    <3>5. NeverAdapts'
      BY <2>2, <2>3, <3>1 DEF BatcherInv, NeverAdapts
    <3> QED  BY <3>2, <3>3, <3>4, <3>5 DEF BatcherInv
  <2>4. ASSUME accepted' = Append(accepted, calls + 1)
        PROVE  accepted' = emitted \o q
    <3>1. Append(emitted \o buffer, calls + 1) = (emitted \o buffer) \o <<calls + 1>>
      <4>1. emitted \o buffer \in Seq(Nat) /\ calls + 1 \in Nat
        BY <1>1, ConcatProperties
      <4> QED  BY <4>1, AppendIsConcat, Zenon
    <3>2. q = buffer \o <<calls + 1>>
      BY <1>1, AppendIsConcat
    <3>3. <<calls + 1>> \in Seq(Nat)
      BY <1>1
    <3>4. (emitted \o buffer) \o <<calls + 1>> = emitted \o (buffer \o <<calls + 1>>)
      BY <1>1, <3>3, ConcatAssociative, SMTT(30)
    <3> QED  BY <1>1, <2>4, <3>1, <3>2, <3>4
  <2>5. CASE accepted' = Append(accepted, calls + 1) /\ flush_batch(q, stats)
    <3>1. stats.flush_timeouts <= stats.total_batches + 1
      BY <1>1 DEF Stats
    <3> HIDE DEF q
    <3> QED  BY <1>1, <2>1, <2>2, <2>4, <2>5, <3>1, FlushKeeps
  <2>6. CASE /\ accepted' = Append(accepted, calls + 1)
             /\ flush_batch(q, [stats EXCEPT !.flush_timeouts = @ + 1])
    <3> DEFINE st == [stats EXCEPT !.flush_timeouts = @ + 1]
    <3>1. /\ st \in Stats
          /\ st.total_commands = stats.total_commands
          /\ st.total_batches = stats.total_batches
          /\ st.commands_dropped = stats.commands_dropped
          /\ st.adaptive_adjustments = 0 /\ st.flush_timeouts <= st.total_batches + 1
      BY <1>1, TimeoutStats DEF Stats
    <3>2. flush_batch(q, st)
      BY <2>6
    <3> HIDE DEF st, q
    <3> QED  BY <2>1, <2>2, <2>4, <2>6, <3>1, <3>2, FlushKeeps
  <2>7. CASE /\ accepted' = Append(accepted, calls + 1)
             /\ buffer' = q
             /\ UNCHANGED <<adaptive_batch_size, stats, emitted>>
    <3>1. TypeOK'
      BY <1>1, <2>1, <2>2, <2>7, AppendProperties DEF BatcherInv, TypeOK
    <3>2. NothingLost'
      BY <2>4, <2>7 DEF NothingLost
    <3>3. StatsAddUp'
      <4>1. /\ stats.total_commands = Len(emitted)
            /\ stats.total_commands + Len(buffer) + stats.commands_dropped = calls
        BY DEF BatcherInv, StatsAddUp
      <4>2. stats.commands_dropped \in Nat /\ stats.total_commands \in Nat
        BY DEF BatcherInv, TypeOK
      <4>3. Len(buffer') = Len(buffer) + 1
        BY <2>1, <2>7
      <4>4. stats.total_commands + Len(buffer') + stats.commands_dropped = calls'
        <5>1. Len(buffer) \in Nat
          BY <1>1
        <5>2. stats.total_commands + (Len(buffer) + 1) + stats.commands_dropped
                = (stats.total_commands + Len(buffer) + stats.commands_dropped) + 1
          BY <5>1, <4>2, OneMore
        <5> QED  BY <2>2, <4>1, <4>3, <5>2, Zenon
      <4> QED  BY <2>7, <4>1, <4>4 DEF StatsAddUp
    <3>4. NeverAdapts'
      BY <2>2, <2>7 DEF BatcherInv, NeverAdapts
    <3> QED  BY <3>1, <3>2, <3>3, <3>4 DEF BatcherInv
  <2> QED  BY <1>2, <2>3, <2>5, <2>6, <2>7 DEF add_command
<1>3. CASE flush
  <2>1. flush_batch(buffer, stats) /\ UNCHANGED <<config, calls, accepted, updates>>
    BY <1>3 DEF flush
  <2>2. stats.flush_timeouts <= stats.total_batches + 1 /\ calls' = calls + 0
        /\ Len(buffer) = Len(buffer) + 0 /\ accepted' = emitted \o buffer
    BY <1>1, <2>1 DEF Stats
  <2> QED  BY <1>1, <2>1, <2>2, FlushKeeps
<1>4. ASSUME NEW c \in Configs, update_config(c) PROVE BatcherInv'
  <2>1. c.max_batch_size \in Nat
    BY BatcherAssumption
  <2>2. TypeOK'
    BY <1>4, <2>1 DEF update_config, BatcherInv, TypeOK
  <2>3. NothingLost'
    BY <1>4 DEF update_config, BatcherInv, NothingLost
  <2>4. StatsAddUp' /\ NeverAdapts'
    BY <1>4 DEF update_config, BatcherInv, StatsAddUp, NeverAdapts
  <2> QED  BY <2>2, <2>3, <2>4 DEF BatcherInv
<1>5. CASE UNCHANGED vars
  BY <1>5 DEF vars, BatcherInv, TypeOK, NothingLost, StatsAddUp, NeverAdapts
<1> QED  BY <1>2, <1>3, <1>4, <1>5 DEF Next

\* A flush of no more commands than a batch holds leaves nothing behind.
LEMMA FlushClears ==
  ASSUME BatcherInv, NEW q \in Seq(Nat), NEW st \in Stats,
         st.adaptive_adjustments = 0, st.flush_timeouts <= st.total_batches + 1,
         Len(q) <= config.max_batch_size, flush_batch(q, st)
  PROVE  Len(buffer') = 0 /\ stats'.commands_dropped = st.commands_dropped
<1>1. PICK n \in 0..Len(q) : /\ n = Least(config.max_batch_size, Len(q))
                             /\ Len(buffer') = Len(q) - n
                             /\ stats' = record_batch(st, n)
  BY FlushBatch DEF BatcherInv
<1>2. config.max_batch_size \in Nat /\ Len(q) \in Nat
  BY BatcherAssumption, LenProperties DEF BatcherInv, TypeOK
<1>3. n = Len(q)
  BY <1>1, <1>2 DEF Least
<1>4. stats'.commands_dropped = st.commands_dropped
  BY <1>1, <1>2, <1>3, BatchStats
<1> QED  BY <1>1, <1>2, <1>3, <1>4

\* Without a change of the configuration less than a batch stays in the buffer.
LEMMA FlushEmptiesNext ==
  BatcherInv /\ FlushEmpties /\ [Next]_vars /\ BatcherInv' => FlushEmpties'
<1> SUFFICES ASSUME BatcherInv, FlushEmpties, [Next]_vars, BatcherInv' PROVE FlushEmpties'
  OBVIOUS
<1>0. current_batch_size' = config'.max_batch_size
  BY DEF BatcherInv, NeverAdapts, current_batch_size
<1> SUFFICES ASSUME updates' = 0, config'.max_batch_size > 0
             PROVE  /\ Len(buffer') < config'.max_batch_size
                    /\ config'.buffer_capacity >= config'.max_batch_size
                         => stats'.commands_dropped = 0
  BY <1>0 DEF FlushEmpties
<1>1. /\ buffer \in Seq(Nat) /\ calls \in Nat /\ stats \in Stats /\ Len(buffer) \in Nat
      /\ stats.adaptive_adjustments = 0 /\ stats.flush_timeouts <= stats.total_batches
      /\ stats.flush_timeouts <= stats.total_batches + 1
      /\ config.max_batch_size \in Nat /\ config.buffer_capacity \in Nat /\ updates \in Nat
  <2>1. TypeOK /\ NeverAdapts
    BY DEF BatcherInv
  <2>2. buffer \in Seq(Nat) /\ calls \in Nat /\ stats \in Stats /\ updates \in Nat
    BY <2>1 DEF TypeOK, Stats
  <2>3. config.max_batch_size \in Nat /\ config.buffer_capacity \in Nat
    BY <2>1, BatcherAssumption DEF TypeOK
  <2>4. stats.adaptive_adjustments = 0 /\ stats.flush_timeouts <= stats.total_batches
    BY <2>1 DEF NeverAdapts
  <2>5. stats.flush_timeouts <= stats.total_batches + 1
    BY <2>2, <2>4 DEF Stats
  <2>6. Len(buffer) \in Nat
    BY <2>2, LenProperties
  <2> QED  BY <2>2, <2>3, <2>4, <2>5, <2>6
<1>2. ASSUME updates = 0, config.max_batch_size > 0
      PROVE  /\ Len(buffer) < config.max_batch_size
             /\ config.buffer_capacity >= config.max_batch_size => stats.commands_dropped = 0
  BY <1>2 DEF FlushEmpties, current_batch_size, BatcherInv, NeverAdapts
<1>3. ASSUME NEW elapsed \in BOOLEAN, add_command(elapsed)
      PROVE  /\ Len(buffer') < config'.max_batch_size
             /\ config'.buffer_capacity >= config'.max_batch_size => stats'.commands_dropped = 0
  <2> DEFINE q == Append(buffer, calls + 1)
  <2>1. q \in Seq(Nat) /\ Len(q) = Len(buffer) + 1
    BY <1>1, AppendProperties
  <2>2. UNCHANGED <<config, updates>>
    BY <1>3 DEF add_command
  <2>3. /\ Len(buffer) < config.max_batch_size
        /\ config.buffer_capacity >= config.max_batch_size => stats.commands_dropped = 0
    BY <1>2, <2>2
  <2>4. Len(q) <= config.max_batch_size
    BY <1>1, <2>1, <2>3
  <2>5. CASE full(buffer) /\ UNCHANGED buffer
    BY <1>1, <2>2, <2>3, <2>5 DEF full
  <2>6. CASE flush_batch(q, stats)
    <3> HIDE DEF q
    <3>1. Len(buffer') = 0 /\ stats'.commands_dropped = stats.commands_dropped
      BY <1>1, <2>1, <2>4, <2>6, FlushClears
    <3> QED  BY <2>2, <2>3, <3>1
  <2>7. CASE flush_batch(q, [stats EXCEPT !.flush_timeouts = @ + 1])
    <3> DEFINE st == [stats EXCEPT !.flush_timeouts = @ + 1]
    <3>1. /\ st \in Stats /\ st.commands_dropped = stats.commands_dropped
          /\ st.adaptive_adjustments = 0 /\ st.flush_timeouts <= st.total_batches + 1
      BY <1>1, TimeoutStats DEF Stats
    <3>2. flush_batch(q, st)
      BY <2>7
    <3> HIDE DEF st, q
    <3>3. Len(buffer') = 0 /\ stats'.commands_dropped = stats.commands_dropped
      BY <2>1, <2>4, <3>1, <3>2, FlushClears
    <3> QED  BY <2>2, <2>3, <3>3
  <2>8. CASE Len(q) < current_batch_size /\ buffer' = q /\ UNCHANGED stats
    <3>1. current_batch_size = config.max_batch_size
      BY DEF current_batch_size, BatcherInv, NeverAdapts
    <3> QED  BY <2>2, <2>3, <2>8, <3>1
  <2> QED  BY <1>3, <2>5, <2>6, <2>7, <2>8 DEF add_command
<1>4. ASSUME flush
      PROVE  /\ Len(buffer') < config'.max_batch_size
             /\ config'.buffer_capacity >= config'.max_batch_size => stats'.commands_dropped = 0
  <2>1. flush_batch(buffer, stats) /\ UNCHANGED <<config, updates>>
    BY <1>4 DEF flush
  <2>2. /\ Len(buffer) < config.max_batch_size
        /\ config.buffer_capacity >= config.max_batch_size => stats.commands_dropped = 0
    BY <1>2, <2>1
  <2>3. Len(buffer) <= config.max_batch_size
    BY <1>1, <2>2
  <2>4. Len(buffer') = 0 /\ stats'.commands_dropped = stats.commands_dropped
    BY <1>1, <2>1, <2>3, FlushClears
  <2> QED  BY <2>1, <2>2, <2>4
<1>5. ASSUME NEW c \in Configs PROVE ~update_config(c)
  BY <1>1 DEF update_config
<1>6. CASE UNCHANGED vars
  BY <1>2, <1>6 DEF vars
<1> QED  BY <1>3, <1>4, <1>5, <1>6 DEF Next

\* The first three theorems below are parts of this one.
LEMMA BatcherCorrect == Spec => []BatcherInv
BY BatcherInit, BatcherNext, PTL DEF Spec

\* Whatever the configurations and however often they are replaced, every
\* command add_command accepted is returned in a batch or still buffered, once
\* and in order.
THEOREM NothingLostCorrect == Spec => []NothingLost
BY BatcherCorrect, PTL DEF BatcherInv

\* BatchStats accounts for every add_command call.
THEOREM StatsAddUpCorrect == Spec => []StatsAddUp
BY BatcherCorrect, PTL DEF BatcherInv

\* The adaptive batch size stays at max_batch_size for ever: neither branch of
\* adjust_adaptive_batch_size can be taken.
THEOREM NeverAdaptsCorrect == Spec => []NeverAdapts
BY BatcherCorrect, PTL DEF BatcherInv

\* Without update_config a flush empties the buffer, and a batcher whose buffer
\* has room for a batch refuses no command, for every such configuration.
THEOREM FlushEmptiesCorrect == Spec => []FlushEmpties
<1>1. Init => FlushEmpties
  <2> SUFFICES ASSUME Init, config.max_batch_size > 0 PROVE FlushEmpties
    BY DEF FlushEmpties
  <2>1. Len(buffer) = 0 /\ stats.commands_dropped = 0
        /\ current_batch_size = config.max_batch_size
    BY DEF Init, NoStats, current_batch_size
  <2> QED  BY <2>1 DEF FlushEmpties
<1> QED  BY <1>1, BatcherCorrect, FlushEmptiesNext, PTL DEF Spec
=============================================================================
