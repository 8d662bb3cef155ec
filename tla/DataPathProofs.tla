---------------------------- MODULE DataPathProofs ----------------------------
(***************************************************************************)
(* Proofs about the path of the data: the order of the batches, the        *)
(* balance of the counters, the soundness of the conversions, the averages *)
(* over windows and the wakeups of the worker, for any number of           *)
(* publishers, any processors and any capacity of the queue.               *)
(***************************************************************************)
EXTENDS DataPath, FiniteSetTheorems, SequenceTheorems, TLAPS

-----------------------------------------------------------------------------
(* The inductive invariant *)

Working == {"normalize", "process", "publish"}

IsSeq(s) == Len(s) \in Nat /\ s = [i \in 1..Len(s) |-> s[i]]

RawBatch ==
  {[source |-> n, device_id |-> b.device_id, samples |-> b.samples] : n \in Nat, b \in Batches}

PathType ==
  /\ queue \in Seq(RawBatch) /\ closed \in BOOLEAN
  /\ qstats \in [{"accepted", "rejected_full"} -> Int]
  /\ producing \in Nat
  /\ worker \in Working \cup {"check", "asleep", "exited"}
  /\ batch \in RawBatch \cup {NoEvent}
  /\ DOMAIN event = {"source", "device_id", "readings"}
  /\ DOMAIN stats = StatName /\ \A k \in StatName \ {"readings", "bad_readings"} : stats[k] \in Int
  /\ pos \in Nat
  /\ DOMAIN log = Publisher /\ \A p \in Publisher : IsSeq(log[p])

(* The sources grow along the queue, from the batch the worker has or had *)
QueueInv ==
  /\ batch.source \in Nat /\ batch.source <= producing
  /\ \A i \in 1..Len(queue) : batch.source < queue[i].source /\ queue[i].source <= producing
  /\ \A i, j \in 1..Len(queue) : i < j => queue[i].source < queue[j].source

(* Publisher p has been given the event in the worker's hands *)
Given(p) == worker = "publish" /\ p < pos

(* What is behind the worker: events and lost batches *)
LogInv ==
  /\ \A p \in Publisher : \A i \in 1..Len(log[p]) :
       /\ log[p][i].source \in Nat /\ log[p][i].source <= batch.source
       /\ worker \in Working /\ ~Given(p) => log[p][i].source < batch.source
  /\ \A p \in Publisher : \A i, j \in 1..Len(log[p]) :
       i < j => log[p][i].source < log[p][j].source
  /\ \A p, q \in Publisher : Sources(log[p]) \ {batch.source} = Sources(log[q]) \ {batch.source}
  /\ worker \notin Working =>
       \A p, q \in Publisher : Sources(log[p]) = Sources(log[q])
  /\ \A p \in Publisher : Given(p) => batch.source \in Sources(log[p])

DroppedInv ==
  /\ IsFiniteSet(dropped)
  /\ \A n \in dropped : n \in Nat /\ n <= batch.source
                        /\ (worker \in Working => n < batch.source)

(* What the worker holds *)
WorkInv ==
  /\ worker \in {"process", "publish"} => event.source = batch.source
  /\ worker = "process" => pos >= 1
  /\ worker = "publish" => 1 <= pos /\ pos <= NP + 1
  /\ worker = "exited" => closed /\ queue = <<>>

(* Every batch is counted where it is *)
CountInv ==
  /\ qstats["accepted"] = stats["batches"] + Cardinality(dropped) + Len(queue)
                          + (IF worker = "normalize" THEN 1 ELSE 0)
  /\ stats["batches"] = stats["events"] + (IF worker = "process" THEN 1 ELSE 0)
  /\ stats["events"] = stats["delivered"]
  /\ stats["attempts"] + (IF worker = "publish" THEN NP + 1 - pos ELSE 0)
       = NP * stats["delivered"]
  /\ stats["attempts"] = stats["accepted"] + stats["unavailable"]
                         + stats["rejected"] + stats["errors"]
  /\ \A p \in Publisher : Len(log[p]) = IF worker = "publish" /\ ~Given(p)
                                        THEN stats["delivered"] - 1 ELSE stats["delivered"]

PathInv == PathType /\ QueueInv /\ LogInv /\ DroppedInv /\ WorkInv /\ CountInv

-----------------------------------------------------------------------------
(* Sequences *)

(* A log that grows by one event.                                          *)
LEMMA AppendLemma ==
  ASSUME NEW s, IsSeq(s), NEW e
  PROVE  /\ IsSeq(Append(s, e)) /\ Len(Append(s, e)) = Len(s) + 1
         /\ \A i \in 1..Len(s) : Append(s, e)[i] = s[i]
         /\ Append(s, e)[Len(s) + 1] = e
         /\ Sources(Append(s, e)) = Sources(s) \cup {e.source}
<1> DEFINE S == {s[i] : i \in 1..Len(s)} \cup {e}
           t == Append(s, e)
<1>1. s \in Seq(S) /\ e \in S
  BY DEF IsSeq
<1> HIDE DEF S
<1>2. t \in Seq(S) /\ Len(t) = Len(s) + 1 /\ Len(s) \in Nat
  BY <1>1
<1>3. IsSeq(t)
  <2> HIDE DEF t
  <2> QED BY <1>2 DEF IsSeq
<1>4. \A i \in 1..Len(s) : t[i] = s[i]
  BY <1>1
<1>5. t[Len(s) + 1] = e
  BY <1>1
<1>6. Sources(t) = Sources(s) \cup {e.source}
  <2> HIDE DEF t
  <2>1. 1..Len(t) = 1..Len(s) \cup {Len(s) + 1}
    BY <1>2
  <2> QED BY <1>2, <1>4, <1>5, <2>1 DEF Sources
<1> QED BY <1>2, <1>3, <1>4, <1>5, <1>6

(* The queue without its first batch.                                      *)
LEMMA TailLemma ==
  ASSUME NEW S, NEW s \in Seq(S), s # <<>>
  PROVE  /\ Len(s) \in Nat /\ Len(s) >= 1
         /\ Head(s) = s[1] /\ Tail(s) \in Seq(S) /\ Len(Tail(s)) = Len(s) - 1
         /\ \A i \in 1..Len(Tail(s)) : Tail(s)[i] = s[i + 1] /\ i + 1 \in 1..Len(s)
OBVIOUS

(* The worker's batch has a source and samples.                            *)
LEMMA BatchLemma ==
  ASSUME NEW b \in RawBatch
  PROVE  b.source \in Nat /\ DOMAIN b = {"source", "device_id", "samples"}
BY DEF RawBatch

LEMMA NewBatchLemma ==
  ASSUME NEW n \in Nat, NEW b \in Batches
  PROVE  [source |-> n, device_id |-> b.device_id, samples |-> b.samples] \in RawBatch
<1> DEFINE r(m, c) == [source |-> m, device_id |-> c.device_id, samples |-> c.samples]
<1>1. RawBatch = {r(m, c) : m \in Nat, c \in Batches}
  BY DEF RawBatch
<1> HIDE DEF r
<1>2. r(n, b) \in RawBatch
  BY <1>1
<1> QED BY <1>2 DEF r

-----------------------------------------------------------------------------
(* Steps that change neither the batches nor the counters *)

LEMMA QuietStep ==
  ASSUME PathInv,
         UNCHANGED <<queue, qstats, producing, batch, stats, log, dropped>>,
         closed' \in BOOLEAN, closed => closed' = TRUE,
         DOMAIN event' = {"source", "device_id", "readings"}, event'.source = event.source,
         pos' \in Nat, pos' >= pos, worker = "publish" => pos' = pos,
         \/ worker' = worker
         \/ worker \in {"check", "asleep"} /\ worker' \in {"check", "asleep"}
         \/ worker = "check" /\ worker' = "exited" /\ closed' = TRUE /\ queue = <<>>
  PROVE  PathInv'
<1> USE DEF Working
<1>1. PathType'
  BY DEF PathInv, PathType
<1>2. QueueInv'
  BY DEF PathInv, QueueInv
<1>3. /\ \A p \in Publisher : Given(p)' = Given(p)
      /\ (worker' \in Working) = (worker \in Working)
      /\ \A w \in Working : (worker' = w) = (worker = w)
  BY DEF Given
<1>4. LogInv'
  BY <1>3 DEF PathInv, LogInv
<1>5. DroppedInv'
  BY <1>3 DEF PathInv, DroppedInv
<1>6. WorkInv'
  BY <1>3 DEF PathInv, WorkInv, PathType
<1>7. CountInv'
  BY <1>3 DEF PathInv, CountInv
<1> QED BY <1>1, <1>2, <1>4, <1>5, <1>6, <1>7 DEF PathInv

(* The worker waits, the queue is closed, the processors add readings.     *)
LEMMA QuietActions ==
  ASSUME PathInv,
         \/ Close \/ CloseNotify \/ SpuriousWakeup \/ RunProcessor
         \/ Terminated \/ UNCHANGED vars
  PROVE  PathInv'
<1> USE DEF queueVars, localVars, historyVars
<1>1. /\ DOMAIN event = {"source", "device_id", "readings"} /\ pos \in Nat
      /\ closed \in BOOLEAN
  BY DEF PathInv, PathType
<1>2. UNCHANGED <<queue, qstats, producing, batch, stats, log, dropped>>
  BY DEF Close, CloseNotify, SpuriousWakeup, RunProcessor, Terminated, vars
<1>3. closed' \in BOOLEAN /\ (closed => closed' = TRUE)
  <2>1. closed' = closed \/ closed' = TRUE
    BY DEF Close, CloseNotify, SpuriousWakeup, RunProcessor, Terminated, vars
  <2> QED BY <1>1, <2>1
<1>4. DOMAIN event' = {"source", "device_id", "readings"} /\ event'.source = event.source
  <2>1. event' = event \/ \E r : event' = [event EXCEPT !.readings = r]
    BY Zenon DEF Close, CloseNotify, SpuriousWakeup, RunProcessor, Terminated, vars
  <2> QED BY <1>1, <2>1
<1>5. pos' \in Nat /\ pos' >= pos /\ (worker = "publish" => pos' = pos)
  BY <1>1 DEF Close, CloseNotify, SpuriousWakeup, RunProcessor, Terminated, vars
<1>6. \/ worker' = worker
      \/ worker \in {"check", "asleep"} /\ worker' \in {"check", "asleep"}
  BY DEF Close, CloseNotify, SpuriousWakeup, RunProcessor, Terminated, vars, NotifyWorker
<1> QED BY <1>2, <1>3, <1>4, <1>5, <1>6, QuietStep, Zenon

-----------------------------------------------------------------------------
(* The queue *)

(* A batch that is accepted is the newest of all.                          *)
LEMMA ProduceKeeps ==
  ASSUME PathInv, NEW b \in Batches, Produce(b)
  PROVE  PathInv'
<1> DEFINE new == [source |-> producing + 1, device_id |-> b.device_id, samples |-> b.samples]
<1> USE DEF queueVars, localVars, historyVars
<1>1. /\ producing \in Nat /\ queue \in Seq(RawBatch) /\ Len(queue) \in Nat
      /\ qstats \in [{"accepted", "rejected_full"} -> Int]
      /\ worker \in Working \cup {"check", "asleep", "exited"}
  BY DEF PathInv, PathType
<1>2. /\ producing' = producing + 1
      /\ UNCHANGED <<closed, batch, event, pos, stats, log, dropped>>
      /\ TryPush(new)
  BY DEF Produce
<1>3. new \in RawBatch /\ new.source = producing + 1
  <2>1. producing + 1 \in Nat
    BY <1>1
  <2>2. new \in RawBatch
    BY <2>1, NewBatchLemma
  <2> QED BY <2>2
<1> HIDE DEF new
<1>4. /\ (worker' \in Working) = (worker \in Working)
      /\ worker' = worker \/ (worker = "asleep" /\ worker' = "check")
      /\ worker' \in Working \cup {"check", "asleep", "exited"}
  BY <1>1, <1>2 DEF TryPush, NotifyWorker, Working
<1>5. /\ \A p \in Publisher : Given(p)' = Given(p)
      /\ \A w \in Working \cup {"exited"} : (worker' = w) = (worker = w)
  BY <1>2, <1>4 DEF Given, Working
<1>6. LogInv'
  BY <1>2, <1>4, <1>5 DEF PathInv, LogInv
<1>7. DroppedInv'
  BY <1>2, <1>4 DEF PathInv, DroppedInv
<1>8. batch.source \in Nat /\ batch.source <= producing
  BY DEF PathInv, QueueInv
<1>9. CASE UNCHANGED queue /\ qstats'["accepted"] = qstats["accepted"]
           /\ qstats' \in [{"accepted", "rejected_full"} -> Int]
  <2>1. PathType'
    BY <1>1, <1>2, <1>4, <1>9 DEF PathInv, PathType
  <2>2. QueueInv'
    <3>1. \A i \in 1..Len(queue) : queue[i].source \in Nat
      BY <1>1, BatchLemma
    <3> QED BY <1>1, <1>2, <1>8, <1>9, <3>1 DEF PathInv, QueueInv
  <2>3. WorkInv'
    BY <1>2, <1>5, <1>9 DEF PathInv, WorkInv, Working
  <2>4. CountInv'
    BY <1>2, <1>5, <1>9 DEF PathInv, CountInv, Working
  <2> QED BY <1>6, <1>7, <2>1, <2>2, <2>3, <2>4 DEF PathInv
<1>10. CASE /\ ~closed /\ queue' = Append(queue, new)
            /\ qstats' = [qstats EXCEPT !.accepted = @ + 1]
  <2>1. /\ queue' \in Seq(RawBatch) /\ Len(queue') = Len(queue) + 1
        /\ \A i \in 1..Len(queue) : queue'[i] = queue[i]
        /\ queue'[Len(queue) + 1] = new
    BY <1>1, <1>3, <1>10
  <2>2. /\ qstats' \in [{"accepted", "rejected_full"} -> Int]
        /\ qstats'["accepted"] = qstats["accepted"] + 1
    BY <1>1, <1>10
  <2>3. PathType'
    BY <1>1, <1>2, <1>4, <2>1, <2>2 DEF PathInv, PathType
  <2>4. QueueInv'
    <3>1. \A i \in 1..Len(queue) : /\ queue[i].source \in Nat /\ batch.source < queue[i].source
                                   /\ queue[i].source <= producing
      BY <1>1, BatchLemma DEF PathInv, QueueInv
    <3>2. \A i \in 1..Len(queue') : i \in 1..Len(queue) \/ i = Len(queue) + 1
      BY <1>1, <2>1
    <3>3. \A i \in 1..Len(queue') : batch.source < queue'[i].source /\ queue'[i].source <= producing'
      BY <1>1, <1>2, <1>3, <1>8, <2>1, <3>1, <3>2, SMTT(30)
    <3>4. ASSUME NEW i \in 1..Len(queue'), NEW j \in 1..Len(queue'), i < j
          PROVE  queue'[i].source < queue'[j].source
      <4>1. i \in 1..Len(queue)
        BY <1>1, <2>1, <3>4
      <4>2. CASE j \in 1..Len(queue)
        BY <2>1, <3>4, <4>1, <4>2 DEF PathInv, QueueInv
      <4>3. CASE j = Len(queue) + 1
        BY <1>1, <1>3, <2>1, <3>1, <4>1, <4>3, SMTT(30)
      <4> QED BY <3>2, <4>2, <4>3
    <3>5. \A i, j \in 1..Len(queue') : i < j => queue'[i].source < queue'[j].source
      BY <3>4
    <3>6. batch'.source \in Nat /\ batch'.source <= producing'
      BY <1>1, <1>2, <1>8
    <3> QED BY <1>2, <3>3, <3>5, <3>6 DEF QueueInv
  <2>5. WorkInv'
    <3>1. worker # "exited"
      BY <1>10 DEF PathInv, WorkInv
    <3> QED BY <1>2, <1>5, <3>1 DEF PathInv, WorkInv, Working
  <2>6. CountInv'
    <3>1. qstats["accepted"] \in Int /\ stats["batches"] \in Int /\ Cardinality(dropped) \in Int
      BY <1>1, FS_CardinalityType DEF PathInv, PathType, DroppedInv, StatName
    <3>2. qstats'["accepted"] = stats'["batches"] + Cardinality(dropped') + Len(queue')
                          + (IF worker' = "normalize" THEN 1 ELSE 0)
      BY <1>1, <1>2, <1>5, <2>1, <2>2, <3>1, SMTT(30) DEF PathInv, CountInv, Working
    <3> QED BY <1>2, <1>5, <3>2 DEF PathInv, CountInv, Working
  <2> QED BY <1>6, <1>7, <2>3, <2>4, <2>5, <2>6 DEF PathInv
<1>11. \/ UNCHANGED <<queue, qstats>>
       \/ UNCHANGED queue /\ qstats' = [qstats EXCEPT !.rejected_full = @ + 1]
       \/ /\ ~closed /\ queue' = Append(queue, new)
          /\ qstats' = [qstats EXCEPT !.accepted = @ + 1]
  BY <1>2 DEF TryPush, Enqueue
<1>12. qstats' = [qstats EXCEPT !.rejected_full = @ + 1] =>
         /\ qstats'["accepted"] = qstats["accepted"]
         /\ qstats' \in [{"accepted", "rejected_full"} -> Int]
  BY <1>1
<1> QED BY <1>1, <1>9, <1>10, <1>11, <1>12

(* The worker takes the oldest batch, which is newer than all behind it.   *)
LEMMA WaitPopKeeps ==
  ASSUME PathInv, WaitPop
  PROVE  PathInv'
<1> USE DEF historyVars
<1>1. /\ queue \in Seq(RawBatch) /\ producing \in Nat
      /\ DOMAIN event = {"source", "device_id", "readings"} /\ pos \in Nat
      /\ closed \in BOOLEAN
  BY DEF PathInv, PathType
<1>2. /\ UNCHANGED <<closed, qstats, producing, event, pos, stats, log, dropped>>
      /\ worker = "check"
  BY DEF WaitPop
<1>3. CASE queue = <<>>
  <2>1. UNCHANGED <<batch, queue>> /\ worker' = IF closed THEN "exited" ELSE "asleep"
    BY <1>3 DEF WaitPop
  <2>2. UNCHANGED <<queue, qstats, producing, batch, stats, log, dropped>>
    BY <1>2, <2>1
  <2>3. closed' \in BOOLEAN /\ (closed => closed' = TRUE)
    BY <1>1, <1>2
  <2>4. DOMAIN event' = {"source", "device_id", "readings"} /\ event'.source = event.source
    BY <1>1, <1>2
  <2>5. pos' \in Nat /\ pos' >= pos /\ (worker = "publish" => pos' = pos)
    BY <1>1, <1>2
  <2>6. \/ worker \in {"check", "asleep"} /\ worker' \in {"check", "asleep"}
        \/ worker = "check" /\ worker' = "exited" /\ closed' = TRUE /\ queue = <<>>
    BY <1>2, <1>3, <2>1, <2>3
  <2> QED BY <2>2, <2>3, <2>4, <2>5, <2>6, QuietStep, Zenon
<1>4. CASE queue # <<>>
  <2>1. batch' = Head(queue) /\ queue' = Tail(queue) /\ worker' = "normalize"
    BY <1>4 DEF WaitPop
  <2>2. /\ Len(queue) \in Nat /\ Len(queue) >= 1 /\ batch' = queue[1] /\ queue' \in Seq(RawBatch)
        /\ Len(queue') = Len(queue) - 1
        /\ \A i \in 1..Len(queue') : queue'[i] = queue[i + 1] /\ i + 1 \in 1..Len(queue)
    BY <1>1, <1>4, <2>1, TailLemma
  <2>3. batch' \in RawBatch /\ batch'.source \in Nat
    <3>1. batch' \in RawBatch
      BY <1>1, <2>2
    <3> QED BY <3>1, BatchLemma
  <2>4. PathType'
    BY <1>1, <1>2, <2>1, <2>2, <2>3 DEF PathInv, PathType, Working
  <2>5. /\ batch.source \in Nat /\ batch.source < batch'.source /\ batch'.source <= producing
        /\ 1 \in 1..Len(queue)
    BY <2>2 DEF PathInv, QueueInv
  <2>6. QueueInv'
    <3>1. \A i \in 1..Len(queue) : queue[i].source \in Nat /\ queue[i].source <= producing
      BY <1>1, BatchLemma DEF PathInv, QueueInv
    <3>2. \A i, j \in 1..Len(queue) : i < j => queue[i].source < queue[j].source
      BY DEF PathInv, QueueInv
    <3>3. \A i \in 1..Len(queue') : batch'.source < queue'[i].source /\ queue'[i].source <= producing
      BY <2>2, <2>5, <3>1, <3>2
    <3>4. \A i, j \in 1..Len(queue') : i < j => queue'[i].source < queue'[j].source
      BY <2>2, <3>2
    <3> QED BY <1>2, <2>3, <2>5, <3>3, <3>4 DEF QueueInv
  <2>7. \A p \in Publisher : ~Given(p)' /\ ~Given(p)
    BY <1>2, <2>1 DEF Given
  <2>8. \A p \in Publisher : \A i \in 1..Len(log[p]) :
          log[p][i].source \in Nat /\ log[p][i].source < batch'.source
    <3>1. \A p \in Publisher : \A i \in 1..Len(log[p]) :
            log[p][i].source \in Nat /\ log[p][i].source <= batch.source
      BY DEF PathInv, LogInv
    <3> QED BY <2>3, <2>5, <3>1
  <2>9. LogInv'
    <3>1. \A p \in Publisher : \A i \in 1..Len(log[p]) :
            log[p][i].source \in Nat /\ log[p][i].source <= batch'.source
      BY <2>3, <2>8
    <3>2. \A p, q \in Publisher : Sources(log[p]) = Sources(log[q])
      BY <1>2 DEF PathInv, LogInv, Working
    <3>3. \A p \in Publisher : \A i, j \in 1..Len(log[p]) :
            i < j => log[p][i].source < log[p][j].source
      BY DEF PathInv, LogInv
    <3> QED BY <1>2, <2>1, <2>7, <2>8, <3>1, <3>2, <3>3 DEF LogInv, Working
  <2>10. DroppedInv'
    <3>1. \A n \in dropped : n \in Nat /\ n <= batch'.source /\ n < batch'.source
      BY <2>3, <2>5 DEF PathInv, DroppedInv
    <3> QED BY <1>2, <3>1 DEF PathInv, DroppedInv
  <2>11. WorkInv'
    BY <2>1 DEF WorkInv
  <2>12. CountInv'
    <3>1. qstats["accepted"] \in Int /\ stats["batches"] \in Int /\ Cardinality(dropped) \in Int
      BY FS_CardinalityType DEF PathInv, PathType, DroppedInv, StatName
    <3>2. qstats["accepted"] = stats["batches"] + Cardinality(dropped) + Len(queue')
                          + (IF worker' = "normalize" THEN 1 ELSE 0)
      BY <1>2, <2>1, <2>2, <3>1 DEF PathInv, CountInv
    <3> QED BY <1>2, <2>1, <3>2 DEF PathInv, CountInv, Given
  <2> QED BY <2>4, <2>6, <2>9, <2>10, <2>11, <2>12 DEF PathInv
<1> QED BY <1>3, <1>4

-----------------------------------------------------------------------------
(* The normalizer *)

LEMMA NormalizeKeeps ==
  ASSUME PathInv, Normalize
  PROVE  PathInv'
<1> USE DEF queueVars, historyVars
<1>1. /\ UNCHANGED <<queue, closed, qstats, producing, batch, log, dropped>>
      /\ worker = "normalize" /\ worker' = "process" /\ pos' = 1
  BY DEF Normalize
<1>2. \E readings : event' = [source |-> batch.source, device_id |-> batch.device_id,
                              readings |-> readings]
  BY DEF Normalize
<1>3. DOMAIN event' = {"source", "device_id", "readings"} /\ event'.source = batch.source
  BY <1>2
<1>4. \E m, n : stats' = [stats EXCEPT !["batches"] = @ + 1, !["readings"] = m, !["bad_readings"] = n]
  BY Zenon DEF Normalize
<1>5. /\ DOMAIN stats = StatName
      /\ \A k \in StatName \ {"readings", "bad_readings"} : stats[k] \in Int
  BY DEF PathInv, PathType
<1>6. /\ DOMAIN stats' = StatName /\ stats'["batches"] = stats["batches"] + 1
      /\ \A k \in StatName \ {"readings", "bad_readings", "batches"} : stats'[k] = stats[k]
      /\ \A k \in StatName \ {"readings", "bad_readings"} : stats'[k] \in Int
  BY <1>4, <1>5 DEF StatName
<1>7. PathType'
  BY <1>1, <1>3, <1>6 DEF PathInv, PathType, Working
<1>8. \A p \in Publisher : ~Given(p)' /\ ~Given(p)
  BY <1>1 DEF Given
<1>9. QueueInv' /\ DroppedInv'
  BY <1>1 DEF PathInv, QueueInv, DroppedInv, Working
<1>10. LogInv'
  BY <1>1, <1>8 DEF PathInv, LogInv, Working
<1>11. WorkInv'
  BY <1>1, <1>3 DEF WorkInv
<1>12. CountInv'
  <2>1. \A k \in {"events", "delivered", "attempts", "accepted", "unavailable", "rejected", "errors"} :
          stats'[k] = stats[k]
    BY <1>6 DEF StatName, Outcome
  <2>2. qstats["accepted"] \in Int /\ stats["batches"] \in Int /\ Cardinality(dropped) \in Int
        /\ Len(queue) \in Int
    BY FS_CardinalityType DEF PathInv, PathType, DroppedInv, StatName
  <2>3. qstats'["accepted"] = stats'["batches"] + Cardinality(dropped') + Len(queue')
                              + (IF worker' = "normalize" THEN 1 ELSE 0)
    BY <1>1, <1>6, <2>2 DEF PathInv, CountInv
  <2>4. stats'["batches"] = stats'["events"] + (IF worker' = "process" THEN 1 ELSE 0)
    <3>1. stats["batches"] = stats["events"] + 0
      BY <1>1 DEF PathInv, CountInv
    <3>2. stats["events"] \in Int
      BY <1>5 DEF StatName
    <3> QED BY <1>1, <1>6, <2>1, <2>2, <3>1, <3>2
  <2> QED BY <1>1, <1>8, <2>1, <2>3, <2>4 DEF PathInv, CountInv
<1> QED BY <1>7, <1>9, <1>10, <1>11, <1>12 DEF PathInv

LEMMA NormalizeThrowsKeeps ==
  ASSUME PathInv, NormalizeThrows
  PROVE  PathInv'
<1> USE DEF queueVars, localVars
<1>1. /\ UNCHANGED <<queue, closed, qstats, producing, batch, event, pos, stats, log>>
      /\ worker = "normalize" /\ worker' = "check" /\ dropped' = dropped \cup {batch.source}
  BY DEF NormalizeThrows
<1>2. PathType'
  BY <1>1 DEF PathInv, PathType, Working
<1>3. \A p \in Publisher : ~Given(p)' /\ ~Given(p)
  BY <1>1 DEF Given
<1>4. batch.source \in Nat /\ batch.source \notin dropped /\ IsFiniteSet(dropped)
  BY <1>1 DEF PathInv, QueueInv, DroppedInv, Working
<1>5. /\ IsFiniteSet(dropped') /\ Cardinality(dropped') = Cardinality(dropped) + 1
      /\ Cardinality(dropped) \in Nat
  BY <1>1, <1>4, FS_AddElement, FS_CardinalityType
<1>6. QueueInv' /\ WorkInv'
  BY <1>1 DEF PathInv, QueueInv, WorkInv
<1>7. DroppedInv'
  BY <1>1, <1>4, <1>5 DEF PathInv, DroppedInv, Working
<1>8. LogInv'
  <2>1. \A p, q \in Publisher : Sources(log[p]) = Sources(log[q])
    <3>1. \A p \in Publisher : batch.source \notin Sources(log[p])
      BY <1>1, <1>3, <1>4 DEF PathInv, LogInv, Working, Sources
    <3>2. \A p, q \in Publisher : Sources(log[p]) \ {batch.source} = Sources(log[q]) \ {batch.source}
      BY DEF PathInv, LogInv
    <3> QED BY <3>1, <3>2
  <2> QED BY <1>1, <1>3, <2>1 DEF PathInv, LogInv, Working
<1>9. CountInv'
  <2>1. qstats["accepted"] \in Int /\ stats["batches"] \in Int /\ Len(queue) \in Int
    BY DEF PathInv, PathType, StatName
  <2>2. qstats'["accepted"] = stats'["batches"] + Cardinality(dropped') + Len(queue')
                              + (IF worker' = "normalize" THEN 1 ELSE 0)
    BY <1>1, <1>5, <2>1 DEF PathInv, CountInv
  <2> QED BY <1>1, <1>3, <2>2 DEF PathInv, CountInv
<1> QED BY <1>2, <1>6, <1>7, <1>8, <1>9 DEF PathInv

-----------------------------------------------------------------------------
(* The processors *)

LEMMA ProcessorThrowsKeeps ==
  ASSUME PathInv, ProcessorThrows
  PROVE  PathInv'
<1> USE DEF queueVars, historyVars
<1>1. /\ UNCHANGED <<queue, closed, qstats, producing, batch, event, log, dropped, worker>>
      /\ worker = "process" /\ pos' = pos + 1
      /\ stats' = [stats EXCEPT !["processor_errors"] = @ + 1]
  BY DEF ProcessorThrows, Bump
<1>2. /\ DOMAIN stats = StatName
      /\ \A k \in StatName \ {"readings", "bad_readings"} : stats[k] \in Int
  BY DEF PathInv, PathType
<1>3. /\ DOMAIN stats' = StatName
      /\ \A k \in StatName \ {"processor_errors"} : stats'[k] = stats[k]
      /\ \A k \in StatName \ {"readings", "bad_readings"} : stats'[k] \in Int
  BY <1>1, <1>2 DEF StatName
<1>4. PathType'
  BY <1>1, <1>3 DEF PathInv, PathType
<1>5. \A p \in Publisher : ~Given(p)' /\ ~Given(p)
  BY <1>1 DEF Given
<1>6. QueueInv' /\ DroppedInv'
  BY <1>1 DEF PathInv, QueueInv, DroppedInv
<1>7. LogInv'
  BY <1>1, <1>5 DEF PathInv, LogInv
<1>8. WorkInv'
  BY <1>1 DEF PathInv, WorkInv, PathType
<1>9. CountInv'
  <2>1. \A k \in {"batches", "events", "delivered", "attempts", "accepted", "unavailable",
                  "rejected", "errors"} : stats'[k] = stats[k]
    BY <1>3 DEF StatName, Outcome
  <2> QED BY <1>1, <1>5, <2>1 DEF PathInv, CountInv
<1> QED BY <1>4, <1>6, <1>7, <1>8, <1>9 DEF PathInv

LEMMA ProcessedKeeps ==
  ASSUME PathInv, Processed
  PROVE  PathInv'
<1> USE DEF queueVars, historyVars
<1>1. /\ UNCHANGED <<queue, closed, qstats, producing, batch, event, log, dropped>>
      /\ worker = "process" /\ worker' = "publish" /\ pos' = 1
      /\ stats' = [stats EXCEPT !["events"] = @ + 1, !["delivered"] = @ + 1]
  BY DEF Processed
<1>2. /\ DOMAIN stats = StatName
      /\ \A k \in StatName \ {"readings", "bad_readings"} : stats[k] \in Int
  BY DEF PathInv, PathType
<1>3. /\ DOMAIN stats' = StatName
      /\ stats'["events"] = stats["events"] + 1 /\ stats'["delivered"] = stats["delivered"] + 1
      /\ \A k \in StatName \ {"events", "delivered"} : stats'[k] = stats[k]
      /\ \A k \in StatName \ {"readings", "bad_readings"} : stats'[k] \in Int
  BY <1>1, <1>2 DEF StatName
<1>4. PathType'
  BY <1>1, <1>3 DEF PathInv, PathType, Working
<1>5. \A p \in Publisher : ~Given(p)' /\ ~Given(p)
  BY <1>1 DEF Given, Publisher
<1>6. QueueInv' /\ DroppedInv'
  BY <1>1 DEF PathInv, QueueInv, DroppedInv, Working
<1>7. LogInv'
  BY <1>1, <1>5 DEF PathInv, LogInv, Working
<1>8. WorkInv'
  BY <1>1, DataPathAssumption DEF PathInv, WorkInv, DataPathAssumption
<1>9. CountInv'
  <2>1. /\ \A k \in {"batches", "attempts", "accepted", "unavailable", "rejected", "errors"} :
             stats'[k] = stats[k]
        /\ stats["events"] \in Int /\ stats["delivered"] \in Int /\ stats["attempts"] \in Int
        /\ NP \in Nat
    BY <1>2, <1>3, DataPathAssumption DEF StatName, Outcome, DataPathAssumption
  <2>2. qstats'["accepted"] = stats'["batches"] + Cardinality(dropped') + Len(queue')
                              + (IF worker' = "normalize" THEN 1 ELSE 0)
    BY <1>1, <2>1 DEF PathInv, CountInv
  <2>3. /\ stats'["batches"] = stats'["events"] + (IF worker' = "process" THEN 1 ELSE 0)
        /\ stats'["events"] = stats'["delivered"]
    BY <1>1, <1>3, <2>1 DEF PathInv, CountInv
  <2>4. stats'["attempts"] + (IF worker' = "publish" THEN NP + 1 - pos' ELSE 0)
          = NP * stats'["delivered"]
    <3>1. stats["attempts"] + 0 = NP * stats["delivered"]
      BY <1>1 DEF PathInv, CountInv
    <3>2. NP * (stats["delivered"] + 1) = NP * stats["delivered"] + NP
      BY <2>1
    <3> QED BY <1>1, <1>3, <2>1, <3>1, <3>2
  <2>5. stats'["attempts"] = stats'["accepted"] + stats'["unavailable"]
                             + stats'["rejected"] + stats'["errors"]
    BY <2>1 DEF PathInv, CountInv
  <2>6. \A p \in Publisher : Len(log'[p]) = IF worker' = "publish" /\ ~Given(p)'
                                            THEN stats'["delivered"] - 1 ELSE stats'["delivered"]
    BY <1>1, <1>3, <1>5, <2>1 DEF PathInv, CountInv
  <2> QED BY <2>2, <2>3, <2>4, <2>5, <2>6 DEF CountInv
<1> QED BY <1>4, <1>6, <1>7, <1>8, <1>9 DEF PathInv

-----------------------------------------------------------------------------
(* The publishers *)

(* Publisher pos is given the event, whatever it answers.                  *)
LEMMA PublishKeeps ==
  ASSUME PathInv, Publish
  PROVE  PathInv'
<1> USE DEF queueVars
<1>1. /\ UNCHANGED <<queue, closed, qstats, producing, batch, event, dropped, worker>>
      /\ worker = "publish" /\ pos <= NP /\ pos' = pos + 1
      /\ log' = [log EXCEPT ![pos] = Append(@, event)]
  BY DEF Publish, NextPublisher
<1>2. PICK o \in Outcome : stats' = [stats EXCEPT !["attempts"] = @ + 1, ![o] = @ + 1]
  BY DEF Publish
<1>3. /\ DOMAIN stats = StatName
      /\ \A k \in StatName \ {"readings", "bad_readings"} : stats[k] \in Int
      /\ NP \in Nat /\ pos \in Publisher /\ pos \in Nat
      /\ DOMAIN log = Publisher /\ \A p \in Publisher : IsSeq(log[p])
      /\ event.source = batch.source /\ batch.source \in Nat
  BY <1>1, DataPathAssumption
     DEF PathInv, PathType, WorkInv, QueueInv, DataPathAssumption, Publisher
<1>4. /\ DOMAIN stats' = StatName
      /\ stats'["attempts"] = stats["attempts"] + 1 /\ stats'[o] = stats[o] + 1
      /\ \A k \in StatName \ {"attempts", o} : stats'[k] = stats[k]
      /\ \A k \in StatName \ {"readings", "bad_readings"} : stats'[k] \in Int
  BY <1>2, <1>3 DEF StatName, Outcome
<1>5. /\ DOMAIN log' = Publisher
      /\ \A p \in Publisher \ {pos} : log'[p] = log[p]
      /\ log'[pos] = Append(log[pos], event)
  BY <1>1, <1>3
<1>6. /\ IsSeq(log'[pos]) /\ Len(log'[pos]) = Len(log[pos]) + 1 /\ Len(log[pos]) \in Nat
      /\ \A i \in 1..Len(log[pos]) : log'[pos][i] = log[pos][i]
      /\ log'[pos][Len(log[pos]) + 1] = event
      /\ Sources(log'[pos]) = Sources(log[pos]) \cup {batch.source}
  <2>1. IsSeq(log[pos])
    BY <1>3
  <2>2. Len(log[pos]) \in Nat
    BY <2>1 DEF IsSeq
  <2>3. /\ IsSeq(Append(log[pos], event)) /\ Len(Append(log[pos], event)) = Len(log[pos]) + 1
        /\ \A i \in 1..Len(log[pos]) : Append(log[pos], event)[i] = log[pos][i]
        /\ Append(log[pos], event)[Len(log[pos]) + 1] = event
        /\ Sources(Append(log[pos], event)) = Sources(log[pos]) \cup {event.source}
    BY <2>1, AppendLemma, Zenon
  <2> QED BY <1>3, <1>5, <2>2, <2>3, Zenon
<1>7. PathType'
  <2>1. \A p \in Publisher : IsSeq(log'[p])
    BY <1>3, <1>5, <1>6
  <2> QED BY <1>1, <1>3, <1>4, <1>5, <2>1 DEF PathInv, PathType
<1>8. \A p \in Publisher : Given(p)' = (Given(p) \/ p = pos)
  BY <1>1, <1>3 DEF Given, Publisher
<1>9. QueueInv' /\ DroppedInv'
  BY <1>1 DEF PathInv, QueueInv, DroppedInv
<1>10. WorkInv'
  BY <1>1, <1>3 DEF PathInv, WorkInv
<1>11. ~Given(pos) /\ worker \in Working
  BY <1>1, <1>3 DEF Given, Working
<1>12. LogInv'
  <2>1. \A p \in Publisher : \A i \in 1..Len(log'[p]) :
          /\ log'[p][i].source \in Nat /\ log'[p][i].source <= batch.source
          /\ ~Given(p)' => log'[p][i].source < batch.source
    <3> SUFFICES ASSUME NEW p \in Publisher, NEW i \in 1..Len(log'[p])
                 PROVE  /\ log'[p][i].source \in Nat /\ log'[p][i].source <= batch.source
                        /\ ~Given(p)' => log'[p][i].source < batch.source
      OBVIOUS
    <3>1. CASE p # pos
      BY <1>1, <1>5, <1>8, <1>11, <3>1 DEF PathInv, LogInv
    <3>2. CASE p = pos /\ i = Len(log[pos]) + 1
      <4>1. log'[p][i] = event /\ Given(p)'
        BY <1>6, <1>8, <3>2
      <4> QED BY <1>3, <4>1
    <3>3. CASE p = pos /\ i \in 1..Len(log[pos])
      <4>1. log[p][i].source \in Nat /\ log[p][i].source <= batch.source
        BY <3>3 DEF PathInv, LogInv
      <4>2. log'[p][i] = log[p][i] /\ Given(p)'
        BY <1>6, <1>8, <3>3
      <4> QED BY <4>1, <4>2
    <3> QED BY <1>6, <3>1, <3>2, <3>3
  <2>2. \A p \in Publisher : \A i, j \in 1..Len(log'[p]) :
          i < j => log'[p][i].source < log'[p][j].source
    <3> SUFFICES ASSUME NEW p \in Publisher, NEW i \in 1..Len(log'[p]),
                        NEW j \in 1..Len(log'[p]), i < j
                 PROVE  log'[p][i].source < log'[p][j].source
      OBVIOUS
    <3>1. CASE p # pos
      BY <1>5, <3>1 DEF PathInv, LogInv
    <3>2. CASE p = pos
      <4>1. i \in 1..Len(log[pos])
        BY <1>6, <3>2
      <4>2. CASE j = Len(log[pos]) + 1
        <5>1. log[pos][i].source < batch.source
          BY <1>3, <1>11, <4>1 DEF PathInv, LogInv
        <5> QED BY <1>3, <1>6, <3>2, <4>1, <4>2, <5>1
      <4>3. CASE j \in 1..Len(log[pos])
        BY <1>3, <1>6, <3>2, <4>1, <4>3 DEF PathInv, LogInv
      <4> QED BY <1>6, <3>2, <4>2, <4>3
    <3> QED BY <3>1, <3>2
  <2>3. \A p \in Publisher : Sources(log'[p]) \ {batch.source} = Sources(log[p]) \ {batch.source}
    BY <1>5, <1>6
  <2>4. \A p, q \in Publisher : Sources(log'[p]) \ {batch.source} = Sources(log'[q]) \ {batch.source}
    BY <2>3 DEF PathInv, LogInv
  <2>5. \A p \in Publisher : Given(p)' => batch.source \in Sources(log'[p])
    BY <1>5, <1>6, <1>8 DEF PathInv, LogInv
  <2> QED BY <1>1, <1>11, <2>1, <2>2, <2>4, <2>5 DEF LogInv
<1>13. CountInv'
  <2>1. /\ stats'["batches"] = stats["batches"] /\ stats'["events"] = stats["events"]
        /\ stats'["delivered"] = stats["delivered"]
    BY <1>4 DEF StatName, Outcome
  <2>2. stats'["attempts"] + (IF worker' = "publish" THEN NP + 1 - pos' ELSE 0)
          = NP * stats'["delivered"]
    <3>1. stats["attempts"] + (NP + 1 - pos) = NP * stats["delivered"]
      BY <1>1 DEF PathInv, CountInv
    <3>2. stats["attempts"] \in Int
      BY <1>3 DEF StatName
    <3> QED BY <1>1, <1>3, <1>4, <2>1, <3>1, <3>2
  <2>3. stats'["attempts"] = stats'["accepted"] + stats'["unavailable"]
                             + stats'["rejected"] + stats'["errors"]
    <3>1. \A k \in Outcome \ {o} : stats'[k] = stats[k]
      BY <1>4 DEF StatName, Outcome
    <3>2. \A k \in Outcome \cup {"attempts"} : stats[k] \in Int
      BY <1>3 DEF StatName, Outcome
    <3>3. stats["attempts"] = stats["accepted"] + stats["unavailable"]
                              + stats["rejected"] + stats["errors"]
      BY DEF PathInv, CountInv
    <3> QED BY <1>4, <3>1, <3>2, <3>3 DEF Outcome
  <2>4. \A p \in Publisher : Len(log'[p]) = IF worker' = "publish" /\ ~Given(p)'
                                            THEN stats'["delivered"] - 1 ELSE stats'["delivered"]
    <3>1. stats["delivered"] \in Int
      BY <1>3 DEF StatName
    <3>2. \A p \in Publisher : Len(log[p]) = IF worker = "publish" /\ ~Given(p)
                                            THEN stats["delivered"] - 1 ELSE stats["delivered"]
      BY DEF PathInv, CountInv
    <3>3. Len(log'[pos]) = stats["delivered"]
      BY <1>1, <1>3, <1>6, <1>11, <3>1, <3>2
    <3> QED BY <1>1, <1>5, <1>8, <2>1, <3>2, <3>3
  <2> QED BY <1>1, <2>1, <2>2, <2>3, <2>4 DEF PathInv, CountInv
<1> QED BY <1>7, <1>9, <1>10, <1>12, <1>13 DEF PathInv

(* Every publisher has been given the event.                               *)
LEMMA PublishedKeeps ==
  ASSUME PathInv, Published
  PROVE  PathInv'
<1> USE DEF queueVars, historyVars
<1>1. /\ UNCHANGED <<queue, closed, qstats, producing, batch, pos, stats, log, dropped>>
      /\ worker = "publish" /\ worker' = "check" /\ pos > NP /\ event' = NoEvent
  BY DEF Published
<1>2. NP \in Nat /\ pos \in Nat /\ pos = NP + 1
  BY <1>1, DataPathAssumption DEF DataPathAssumption, PathInv, PathType, WorkInv
<1>3. PathType'
  BY <1>1 DEF PathInv, PathType, NoEvent
<1>4. \A p \in Publisher : ~Given(p)' /\ Given(p)
  BY <1>1, <1>2 DEF Given, Publisher
<1>5. QueueInv' /\ DroppedInv' /\ WorkInv'
  BY <1>1 DEF PathInv, QueueInv, DroppedInv, WorkInv, Working
<1>6. LogInv'
  <2>1. \A p, q \in Publisher : Sources(log[p]) = Sources(log[q])
    <3>1. \A p \in Publisher : batch.source \in Sources(log[p])
      BY <1>4 DEF PathInv, LogInv
    <3>2. \A p, q \in Publisher : Sources(log[p]) \ {batch.source} = Sources(log[q]) \ {batch.source}
      BY DEF PathInv, LogInv
    <3> QED BY <3>1, <3>2
  <2> QED BY <1>1, <1>4, <2>1 DEF PathInv, LogInv, Working
<1>7. CountInv'
  <2>1. stats["attempts"] \in Int
    BY DEF PathInv, PathType, StatName
  <2>2. stats["attempts"] + 0 = NP * stats["delivered"]
    BY <1>1, <1>2, <2>1 DEF PathInv, CountInv
  <2> QED BY <1>1, <1>4, <2>2 DEF PathInv, CountInv
<1> QED BY <1>3, <1>5, <1>6, <1>7 DEF PathInv

-----------------------------------------------------------------------------
(* The theorems *)

LEMMA InitEstablishes ==
  ASSUME Init
  PROVE  PathInv
<1> USE DEF Init
<1>1. stats = [k \in StatName |-> 0] /\ NP \in Nat
  BY DataPathAssumption DEF DataPathAssumption
<1>2. \A p \in Publisher : IsSeq(log[p]) /\ Len(log[p]) = 0
  BY DEF IsSeq
<1>3. PathType
  <2>1. queue \in Seq(RawBatch)
    OBVIOUS
  <2>2. DOMAIN event = {"source", "device_id", "readings"}
    BY DEF NoEvent
  <2>3. qstats \in [{"accepted", "rejected_full"} -> Int]
    <3>1. qstats = [accepted |-> 0, rejected_full |-> 0]
      OBVIOUS
    <3> HIDE DEF Init
    <3> QED BY <3>1
  <2>6. closed \in BOOLEAN /\ pos \in Nat /\ producing \in Nat
    OBVIOUS
  <2>4. DOMAIN stats = StatName /\ \A k \in StatName : stats[k] \in Int
    BY <1>1
  <2>5. /\ batch \in RawBatch \cup {NoEvent} /\ DOMAIN log = Publisher
        /\ worker \in Working \cup {"check", "asleep", "exited"}
    OBVIOUS
  <2> QED BY <1>2, <2>1, <2>2, <2>3, <2>4, <2>5, <2>6, Zenon DEF PathType
<1>a. batch.source = 0
  BY DEF NoEvent
<1>4. QueueInv
  BY <1>a DEF QueueInv
<1>5. LogInv
  <2>1. \A p \in Publisher : Sources(log[p]) = {}
    BY <1>2 DEF Sources
  <2>2. \A p \in Publisher : ~Given(p)
    BY DEF Given
  <2>3. \A p \in Publisher : \A i \in 1..Len(log[p]) : FALSE
    BY <1>2
  <2> QED BY <2>1, <2>2, <2>3, Zenon DEF LogInv
<1>6. DroppedInv
  BY FS_EmptySet DEF DroppedInv
<1>7. WorkInv
  BY DEF WorkInv
<1>8. CountInv
  <2>1. Cardinality(dropped) = 0 /\ Len(queue) = 0
    BY FS_EmptySet
  <2>2. \A k \in {"batches", "events", "delivered", "attempts", "accepted", "unavailable",
                  "rejected", "errors"} : stats[k] = 0
    BY <1>1 DEF StatName, Outcome
  <2> QED BY <1>1, <1>2, <2>1, <2>2 DEF CountInv, Given
<1> QED BY <1>3, <1>4, <1>5, <1>6, <1>7, <1>8 DEF PathInv

(* PathInv holds in every state: the sources grow from the publishers'     *)
(* logs through the worker's batch to the end of the queue, and each       *)
(* accepted batch is counted in exactly one place.                         *)
THEOREM PathInvariant == Spec => []PathInv
<1>1. Init => PathInv
  BY InitEstablishes
<1>2. PathInv /\ [Next]_vars => PathInv'
  <2> SUFFICES ASSUME PathInv, [Next]_vars PROVE PathInv'
    OBVIOUS
  <2>1. CASE \E b \in Batches : Produce(b)
    BY <2>1, ProduceKeeps
  <2>2. CASE Close \/ CloseNotify \/ SpuriousWakeup \/ RunProcessor \/ Terminated \/ UNCHANGED vars
    BY <2>2, QuietActions
  <2>3. CASE WaitPop
    BY <2>3, WaitPopKeeps
  <2>4. CASE Normalize \/ NormalizeThrows
    BY <2>4, NormalizeKeeps, NormalizeThrowsKeeps
  <2>5. CASE ProcessorThrows \/ Processed
    BY <2>5, ProcessorThrowsKeeps, ProcessedKeeps
  <2>6. CASE Publish \/ Published
    BY <2>6, PublishKeeps, PublishedKeeps
  <2> QED BY <2>1, <2>2, <2>3, <2>4, <2>5, <2>6 DEF Next, WorkerStep
<1> QED BY <1>1, <1>2, PTL DEF Spec

(* Every publisher is given every event once, in the order in which the    *)
(* queue accepted the batches, whatever the other publishers answer.       *)
THEOREM EventsPublishedInOrder == Spec => []PublishedInOrder
<1>1. PathInv => PublishedInOrder
  <2> SUFFICES ASSUME PathInv PROVE PublishedInOrder
    OBVIOUS
  <2>1. \A p \in Publisher : \A i, j \in 1..Len(log[p]) : i < j => log[p][i].source < log[p][j].source
    BY DEF PathInv, LogInv
  <2>2. \A p, q \in Publisher : Sources(log[p]) \ Sources(log[q]) \subseteq InHand
    BY DEF PathInv, LogInv, InHand, Working
  <2>3. ASSUME NEW p \in Publisher, NEW x \in Sources(queue), NEW y \in Sources(log[p])
        PROVE  y < x
    <3>1. y \in Nat /\ y <= batch.source
      BY <2>3 DEF PathInv, LogInv, Sources
    <3>2. batch.source \in Nat /\ batch.source < x /\ x \in Nat
      <4>1. PICK i \in 1..Len(queue) : x = queue[i].source
        BY <2>3 DEF Sources
      <4>2. queue[i] \in RawBatch
        BY DEF PathInv, PathType
      <4> QED BY <4>1, <4>2, BatchLemma DEF PathInv, QueueInv
    <3> QED BY <3>1, <3>2
  <2> QED BY <2>1, <2>2, <2>3 DEF PublishedInOrder
<1> QED BY <1>1, PathInvariant, PTL

(* The counters of the summary agree once the worker has ended.            *)
THEOREM SummaryIsBalanced == Spec => []SummaryBalanced
<1>1. PathInv => SummaryBalanced
  <2> SUFFICES ASSUME PathInv, worker = "exited" PROVE SummaryBalanced
    BY DEF SummaryBalanced
  <2>1. queue = <<>> /\ Len(queue) = 0
    BY DEF PathInv, WorkInv
  <2>2. /\ qstats["accepted"] \in Int /\ stats["batches"] \in Int /\ Cardinality(dropped) \in Int
        /\ stats["attempts"] \in Int /\ stats["events"] \in Int
    BY FS_CardinalityType DEF PathInv, PathType, DroppedInv, StatName
  <2>3. /\ qstats["accepted"] = stats["batches"] + Cardinality(dropped)
        /\ stats["batches"] = stats["events"] /\ stats["attempts"] = NP * stats["delivered"]
    BY <2>1, <2>2 DEF PathInv, CountInv
  <2> QED BY <2>1, <2>3 DEF PathInv, CountInv, SummaryBalanced
<1> QED BY <1>1, PathInvariant, PTL

-----------------------------------------------------------------------------
(* Conversion *)

(* A finite double is small, or a multiple of four halves.                 *)
LEMMA ToDoubleLemma ==
  ASSUME NEW h \in Int
  PROVE  /\ ToDouble(h).class \in {"num", "inf", "-inf"} /\ ToDouble(h).h \in Int
         /\ Finite(ToDouble(h)) => \/ Abs(ToDouble(h).h) <= MaxInt
                                   \/ \E k \in Int : ToDouble(h).h = 4 * k
         /\ Abs(h) <= 4 * (MaxInt + 1) => Finite(ToDouble(h))
<1> DEFINE q == Abs(h) \div 4
           up == IF Abs(h) % 4 > 2 \/ (Abs(h) % 4 = 2 /\ q % 2 = 1) THEN 1 ELSE 0
<1>1. MaxInt \in Nat
  BY NormalizerAssumption DEF NormalizerAssumption
<1>2. Abs(h) \in Nat /\ q \in Int /\ up \in Int /\ Sign(h) \in Int
  BY DEF Abs, Sign
<1>3. ToDouble(h) = IF Abs(h) <= MaxInt THEN Num(h)
                    ELSE IF Abs(h) > 4 * (MaxInt + 1) THEN Special(IF h < 0 THEN "-inf" ELSE "inf")
                    ELSE Num(Sign(h) * 4 * (q + up))
  BY DEF ToDouble
<1> HIDE DEF q, up
<1>4. CASE Abs(h) <= MaxInt
  BY <1>1, <1>2, <1>3, <1>4 DEF Num, Finite
<1>5. CASE Abs(h) > 4 * (MaxInt + 1)
  BY <1>1, <1>2, <1>3, <1>5 DEF Special, Finite
<1>6. CASE ~(Abs(h) <= MaxInt) /\ ~(Abs(h) > 4 * (MaxInt + 1))
  <2>1. ToDouble(h) = Num(Sign(h) * 4 * (q + up))
    BY <1>3, <1>6
  <2>2. \E k \in Int : Sign(h) * 4 * (q + up) = 4 * k
    <3>1. Sign(h) \in {1, -1}
      BY DEF Sign
    <3> DEFINE m == q + up
    <3>2. m \in Int /\ -m \in Int
      BY <1>2
    <3> HIDE DEF m
    <3>3. CASE Sign(h) = 1
      <4>1. Sign(h) * 4 * m = 4 * m
        BY <3>2, <3>3
      <4> QED BY <3>2, <4>1 DEF m
    <3>4. CASE Sign(h) = -1
      <4>1. Sign(h) * 4 * m = 4 * (-m)
        BY <3>2, <3>4
      <4> QED BY <3>2, <4>1 DEF m
    <3> QED BY <3>1, <3>3, <3>4
  <2>3. Sign(h) * 4 * (q + up) \in Int
    BY <2>2
  <2> QED BY <2>1, <2>2, <2>3 DEF Num, Finite
<1> QED BY <1>4, <1>5, <1>6

(* The largest integer has no double of its own.                           *)
LEMMA LargestLemma ==
  ToDouble(2 * MaxInt) = Num(2 * (MaxInt + 1))
<1>1. MaxInt \in Nat /\ (MaxInt + 1) % 8 = 0
  BY NormalizerAssumption DEF NormalizerAssumption
<1>2. PICK k \in Nat : MaxInt + 1 = 8 * k /\ k >= 1
  <2>1. (MaxInt + 1) \div 8 \in Nat /\ MaxInt + 1 = 8 * ((MaxInt + 1) \div 8)
    BY <1>1
  <2> QED BY <1>1, <2>1
<1>3. /\ Abs(2 * MaxInt) = 16 * k - 2 /\ ~(Abs(2 * MaxInt) <= MaxInt)
      /\ ~(Abs(2 * MaxInt) > 4 * (MaxInt + 1)) /\ Sign(2 * MaxInt) = 1
  BY <1>1, <1>2 DEF Abs, Sign
<1>4. /\ (16 * k - 2) \div 4 = 4 * k - 1 /\ (16 * k - 2) % 4 = 2 /\ (4 * k - 1) % 2 = 1
  BY <1>2
<1>5. ToDouble(2 * MaxInt) = Num(Sign(2 * MaxInt) * 4 * (4 * k - 1 + 1))
  BY <1>3, <1>4 DEF ToDouble
<1>6. Sign(2 * MaxInt) * 4 * (4 * k - 1 + 1) = 2 * (MaxInt + 1)
  BY <1>2, <1>3
<1> QED BY <1>5, <1>6

LEMMA AffineLemma ==
  ASSUME NEW d, d.h \in Int, NEW c \in PointConfig
  PROVE  /\ Affine(d, c).class \in {"num", "inf", "-inf"} /\ Affine(d, c).h \in Int
         /\ Finite(Affine(d, c)) => \/ Abs(Affine(d, c).h) <= MaxInt
                                    \/ \E k \in Int : Affine(d, c).h = 4 * k
<1>1. c.scale \in Int /\ c.offset \in Int
  BY DEF PointConfig
<1>2. d.h * c.scale \in Int
  BY <1>1
<1>3. /\ ToDouble(d.h * c.scale).h \in Int
      /\ ToDouble(d.h * c.scale).class \in {"num", "inf", "-inf"}
  BY <1>2, ToDoubleLemma
<1>4. CASE Finite(ToDouble(d.h * c.scale))
  <2>1. Affine(d, c) = ToDouble(ToDouble(d.h * c.scale).h + c.offset)
    BY <1>4 DEF Affine
  <2>2. ToDouble(d.h * c.scale).h + c.offset \in Int
    BY <1>1, <1>3
  <2> QED BY <2>1, <2>2, ToDoubleLemma
<1>5. CASE ~Finite(ToDouble(d.h * c.scale))
  <2>1. Affine(d, c) = ToDouble(d.h * c.scale)
    BY <1>5 DEF Affine
  <2> QED BY <1>3, <1>5, <2>1
<1> QED BY <1>4, <1>5

(* The five types of a scalar.                                             *)
LEMMA ScalarLemma ==
  ASSUME NEW v \in Scalar
  PROVE  \/ v.type = "Integer" /\ v.i \in MinInt..MaxInt
         \/ v.type = "Double" /\ v.d.h \in Int
         \/ v.type = "Boolean" /\ v.b \in BOOLEAN
         \/ v.type = "ByteArray"
         \/ v.type = "String" /\ v.d.h \in Int
<1>1. CASE v \in [type: {"Integer"}, i: MinInt..MaxInt]
  BY <1>1
<1>2. CASE v \in [type: {"Double"}, d: Double]
  BY <1>2 DEF Double
<1>3. CASE v \in [type: {"Boolean"}, b: BOOLEAN]
  BY <1>3
<1>4. CASE v \in [type: {"ByteArray"}]
  BY <1>4
<1>5. CASE v \in [type: {"String"}, word: STRING, d: Double \cup {Special("none")}]
  BY <1>5 DEF Double, Special
<1> QED BY <1>1, <1>2, <1>3, <1>4, <1>5 DEF Scalar

(* The number of a value of each type.                                     *)
LEMMA NumericLemma ==
  ASSUME NEW v
  PROVE  /\ v.type = "Integer" => NumericValue(v) = ToDouble(2 * v.i)
         /\ v.type \in {"Double", "String"} => NumericValue(v) = v.d
         /\ v.type = "Boolean" => NumericValue(v).h \in Int
         /\ v.type = "ByteArray" => NumericValue(v).h \in Int
<1>1. v.type = "Integer" => NumericValue(v) = ToDouble(2 * v.i)
  BY DEF NumericValue
<1>2. v.type \in {"Double", "String"} => NumericValue(v) = v.d
  BY DEF NumericValue
<1>3. v.type = "Boolean" => NumericValue(v) = Num(IF v.b THEN 2 ELSE 0)
  BY DEF NumericValue
<1>4. v.type = "ByteArray" => NumericValue(v) = Special("none")
  BY DEF NumericValue
<1>5. Num(2).h = 2 /\ Num(0).h = 0 /\ Special("none").h = 0
  BY DEF Num, Special
<1>6. v.type = "Boolean" => NumericValue(v) = Num(2) \/ NumericValue(v) = Num(0)
  BY <1>3
<1> QED BY <1>1, <1>2, <1>4, <1>5, <1>6

LEMMA NumericType ==
  ASSUME NEW v \in Scalar
  PROVE  NumericValue(v).h \in Int
<1>1. MaxInt \in Nat
  BY NormalizerAssumption DEF NormalizerAssumption
<1>2. v.type = "Integer" /\ v.i \in MinInt..MaxInt => 2 * v.i \in Int
  BY <1>1 DEF MinInt
<1> QED BY <1>2, ScalarLemma, NumericLemma, ToDoubleLemma

(* For a finite number WithinLimits is what it says.                       *)
LEMMA LimitsLemma ==
  ASSUME NEW w, NumericValue(w).h \in Int, Finite(NumericValue(w)), NEW c \in PointConfig
  PROVE  WithinLimits(w, c) <=> /\ \A l \in c.minimum : NumericValue(w).h >= l
                                /\ \A l \in c.maximum : NumericValue(w).h <= l
<1>1. \A l \in c.minimum : l \in Int
  BY DEF PointConfig
<1>2. \A l \in c.maximum : l \in Int
  BY DEF PointConfig
<1>3. \A l \in Int : ~Less(NumericValue(w), l) <=> NumericValue(w).h >= l
  BY DEF Less, Finite
<1>4. \A l \in Int : ~Greater(NumericValue(w), l) <=> NumericValue(w).h <= l
  BY DEF Greater, Finite
<1> QED BY <1>1, <1>2, <1>3, <1>4 DEF WithinLimits

(* What the cases of convert_value() yield, before the limits are checked. *)
Converted(v, c) ==
  CASE c.type = "String" -> {ScalarToString(v)}
    [] c.type = "ByteArray" -> {v} \cap {ByteArrayScalar}
    [] c.type = "Boolean" -> {BooleanScalar(b) : b \in BooleanValue(v)}
    [] c.type = "Double" /\ Finite(NumericValue(v)) -> {DoubleScalar(Affine(NumericValue(v), c))}
    [] c.type = "Integer" /\ Finite(NumericValue(v)) /\ FitsInteger(Affine(NumericValue(v), c)) ->
         {IntegerScalar(i) : i \in Llround(Affine(NumericValue(v), c).h)}
    [] OTHER -> {}

(* A Good sample is converted, or passed on with the reason.               *)
LEMMA ConvertLemma ==
  ASSUME NEW v, NEW c, NEW x \in ConvertValue(v, c, "Good")
  PROVE  \/ x.value \in Converted(v, c)
            /\ x.quality = IF WithinLimits(x.value, c) THEN "Good" ELSE "OutOfRange"
         \/ /\ Converted(v, c) = {} /\ x.value = v
            /\ x.quality = IF c.type = "Integer" /\ Finite(NumericValue(v)) THEN "OutOfRange"
                           ELSE "DecodeError"
<1>1. ConvertValue(v, c, "Good") =
        IF Converted(v, c) # {}
        THEN {Result(w, IF WithinLimits(w, c) THEN "Good" ELSE "OutOfRange") : w \in Converted(v, c)}
        ELSE {Result(v, IF c.type = "Integer" /\ Finite(NumericValue(v)) THEN "OutOfRange"
                        ELSE "DecodeError")}
  BY DEF ConvertValue, Converted
<1>2. CASE Converted(v, c) # {}
  <2>1. PICK w \in Converted(v, c) :
          x = Result(w, IF WithinLimits(w, c) THEN "Good" ELSE "OutOfRange")
    BY <1>1, <1>2
  <2> QED BY <2>1 DEF Result
<1>3. CASE Converted(v, c) = {}
  BY <1>1, <1>3 DEF Result
<1> QED BY <1>2, <1>3

(* A sample that is not Good is passed on as it is.                        *)
LEMMA PassOnLemma ==
  ASSUME NEW v, NEW c, NEW q, q # "Good", NEW x \in ConvertValue(v, c, q)
  PROVE  x.value = v /\ x.quality = q
BY DEF ConvertValue, Result

(* The converted value has the type of its point and a number.             *)
LEMMA ConvertedType ==
  ASSUME NEW v \in Scalar, NEW c \in PointConfig, c.type # "Integer", NEW w \in Converted(v, c)
  PROVE  w.type = c.type /\ NumericValue(w).h \in Int
<1>1. c.type \in ValueType
  BY DEF PointConfig
<1>2. CASE c.type = "String"
  <2>1. w = ScalarToString(v)
    BY <1>2 DEF Converted
  <2>2. MaxInt \in Nat
    BY NormalizerAssumption DEF NormalizerAssumption
  <2>3. v.type = "Integer" => ToDouble(2 * v.i).h \in Int
    <3>1. v.type = "Integer" => 2 * v.i \in Int
      BY <2>2, ScalarLemma DEF MinInt
    <3> QED BY <3>1, ToDoubleLemma
  <2>4. w.type = "String" /\ w.d.h \in Int
    <3>1. CASE v.type = "Integer"
      BY <2>1, <2>3, <3>1 DEF ScalarToString, StringScalar
    <3>2. CASE v.type = "Double"
      BY <2>1, <3>2, ScalarLemma DEF ScalarToString, StringScalar
    <3>3. CASE v.type = "Boolean"
      <4>1. w = Text("true") \/ w = Text("false")
        BY <2>1, <3>3 DEF ScalarToString
      <4> QED BY <4>1 DEF Text, StringScalar, Special
    <3>4. CASE v.type = "ByteArray"
      <4>1. w = Text("other")
        BY <2>1, <3>4 DEF ScalarToString
      <4> QED BY <4>1 DEF Text, StringScalar, Special
    <3>5. CASE v.type = "String"
      <4>1. w = v
        BY <2>1, <3>5 DEF ScalarToString
      <4> QED BY <3>5, <4>1, ScalarLemma
    <3> QED BY <3>1, <3>2, <3>3, <3>4, <3>5, ScalarLemma
  <2> QED BY <1>2, <2>4, NumericLemma
<1>3. CASE c.type = "ByteArray"
  <2>1. w = ByteArrayScalar
    BY <1>3 DEF Converted
  <2>2. w.type = "ByteArray"
    BY <2>1 DEF ByteArrayScalar
  <2> QED BY <1>3, <2>2, NumericLemma
<1>4. CASE c.type = "Boolean"
  <2>1. \E b : w = BooleanScalar(b)
    BY <1>4 DEF Converted
  <2>2. w.type = "Boolean"
    BY <2>1 DEF BooleanScalar
  <2> QED BY <1>4, <2>2, NumericLemma
<1>5. CASE c.type = "Double"
  <2>1. w = DoubleScalar(Affine(NumericValue(v), c))
    BY <1>5 DEF Converted
  <2>2. w.type = "Double" /\ w.d = Affine(NumericValue(v), c)
    BY <2>1 DEF DoubleScalar
  <2>3. w.d.h \in Int
    BY <2>2, NumericType, AffineLemma
  <2> QED BY <1>5, <2>2, <2>3, NumericLemma
<1> QED BY <1>1, <1>2, <1>3, <1>4, <1>5 DEF ValueType

(* llround() of a double within the range of FitsInteger.                  *)
LEMMA LlroundLemma ==
  ASSUME NEW h \in Int, 2 * MinInt <= h, h <= 2 * (MaxInt + 1)
  PROVE  /\ Llround(h) # {} /\ \A i \in Llround(h) : i \in MinInt..MaxInt
         /\ h <= 2 * MaxInt => \A i \in Llround(h) : Abs(2 * i - h) <= 1
<1> DEFINE i == Sign(h) * ((Abs(h) + 1) \div 2)
<1>1. MaxInt \in Nat /\ MinInt = -(MaxInt + 1) /\ MinInt \in Int
  BY NormalizerAssumption DEF NormalizerAssumption, MinInt
<1>2. i = IF h < 0 THEN -((-h + 1) \div 2) ELSE (h + 1) \div 2
  <2>1. CASE h < 0
    <3>1. Sign(h) = -1 /\ Abs(h) = -h /\ (-h + 1) \div 2 \in Int
      BY <2>1 DEF Sign, Abs
    <3>2. i = (-1) * ((-h + 1) \div 2)
      BY <3>1
    <3>3. \A m \in Int : (-1) * m = -m
      OBVIOUS
    <3> QED BY <2>1, <3>1, <3>2, <3>3
  <2>2. CASE ~(h < 0)
    <3>1. Sign(h) = 1 /\ Abs(h) = h /\ (h + 1) \div 2 \in Int
      BY <2>2 DEF Sign, Abs
    <3>2. i = 1 * ((h + 1) \div 2)
      BY <3>1
    <3>3. \A m \in Int : 1 * m = m
      OBVIOUS
    <3> QED BY <2>2, <3>1, <3>2, <3>3
  <2> QED BY <2>1, <2>2
<1>3. Llround(h) = IF i > MaxInt THEN {MinInt, MaxInt} ELSE {i}
  BY DEF Llround
<1> HIDE DEF i
<1>4. /\ i \in Int /\ MinInt <= i /\ 2 * i - h <= 1 /\ h - 2 * i <= 1
      /\ h <= 2 * MaxInt => i <= MaxInt
  BY <1>1, <1>2
<1>5. Abs(2 * i - h) <= 1
  BY <1>4 DEF Abs
<1>6. CASE i > MaxInt
  <2>1. ~(h <= 2 * MaxInt)
    BY <1>1, <1>4, <1>6
  <2> QED BY <1>1, <1>3, <1>6, <2>1
<1>7. CASE ~(i > MaxInt)
  <2>1. Llround(h) = {i} /\ i \in MinInt..MaxInt
    BY <1>1, <1>3, <1>4, <1>7
  <2> QED BY <1>5, <2>1
<1> QED BY <1>6, <1>7

(* An integer point gets the nearest integer, or nothing.                  *)
LEMMA IntegerLemma ==
  ASSUME NEW v \in Scalar, NEW c \in PointConfig, c.type = "Integer"
  PROVE  LET x == Affine(NumericValue(v), c) IN
         /\ \A w \in Converted(v, c) :
              /\ w.type = "Integer" /\ w.i \in MinInt..MaxInt
              /\ NumericValue(w).h \in Int /\ Finite(NumericValue(w))
         /\ Finite(NumericValue(v)) /\ Finite(x) /\ x.h # 2 * (MaxInt + 1) =>
              IF Abs(x.h) <= 2 * MaxInt \/ x.h = 2 * MinInt
              THEN /\ Converted(v, c) # {}
                   /\ \A w \in Converted(v, c) : Abs(2 * w.i - x.h) <= 1
              ELSE Converted(v, c) = {}
<1> DEFINE n == NumericValue(v)
           x == Affine(n, c)
<1>1. MaxInt \in Nat /\ MinInt = -(MaxInt + 1)
  BY NormalizerAssumption DEF NormalizerAssumption, MinInt
<1>2. /\ x.class \in {"num", "inf", "-inf"} /\ x.h \in Int
      /\ Finite(x) => Abs(x.h) <= MaxInt \/ \E k \in Int : x.h = 4 * k
  BY NumericType, AffineLemma
<1>3. Converted(v, c) = IF Finite(n) /\ FitsInteger(x) THEN {IntegerScalar(i) : i \in Llround(x.h)}
                        ELSE {}
  BY DEF Converted
<1>4. FitsInteger(x) <=> Finite(x) /\ 2 * MinInt <= x.h /\ x.h <= 2 * (MaxInt + 1)
  <2>1. ToDouble(2 * MaxInt).h = 2 * (MaxInt + 1)
    BY LargestLemma DEF Num
  <2>2. FitsInteger(x) <=> ~Less(x, 2 * MinInt) /\ ~Greater(x, 2 * (MaxInt + 1))
    BY <2>1 DEF FitsInteger
  <2> HIDE DEF x
  <2> QED BY <1>1, <1>2, <2>2 DEF Less, Greater, Finite
<1> HIDE DEF x, n
<1>5. ASSUME NEW w \in Converted(v, c)
      PROVE  /\ w.type = "Integer" /\ w.i \in MinInt..MaxInt
             /\ NumericValue(w).h \in Int /\ Finite(NumericValue(w))
             /\ x.h <= 2 * MaxInt => Abs(2 * w.i - x.h) <= 1
  <2>1. Finite(n) /\ FitsInteger(x) /\ \E i \in Llround(x.h) : w = IntegerScalar(i)
    BY <1>3, <1>5
  <2>2. 2 * MinInt <= x.h /\ x.h <= 2 * (MaxInt + 1)
    BY <1>4, <2>1
  <2>3. PICK i \in Llround(x.h) : w = IntegerScalar(i)
    BY <2>1
  <2>4. w.type = "Integer" /\ w.i = i
    BY <2>3 DEF IntegerScalar
  <2>5. i \in MinInt..MaxInt /\ (x.h <= 2 * MaxInt => Abs(2 * i - x.h) <= 1)
    BY <1>2, <2>2, LlroundLemma
  <2>6. 2 * i \in Int /\ Abs(2 * i) <= 4 * (MaxInt + 1)
    BY <1>1, <2>5 DEF Abs
  <2>7. NumericValue(w) = ToDouble(2 * i)
    BY <2>4, NumericLemma
  <2> QED BY <2>4, <2>5, <2>6, <2>7, ToDoubleLemma
<1>6. ASSUME Finite(n), Finite(x), x.h # 2 * (MaxInt + 1)
      PROVE  IF Abs(x.h) <= 2 * MaxInt \/ x.h = 2 * MinInt
             THEN /\ Converted(v, c) # {}
                  /\ \A w \in Converted(v, c) : Abs(2 * w.i - x.h) <= 1
             ELSE Converted(v, c) = {}
  <2>1. CASE Abs(x.h) <= 2 * MaxInt \/ x.h = 2 * MinInt
    <3>1. 2 * MinInt <= x.h /\ x.h <= 2 * (MaxInt + 1) /\ x.h <= 2 * MaxInt
      BY <1>1, <1>2, <2>1 DEF Abs
    <3>2. FitsInteger(x) /\ Llround(x.h) # {}
      BY <1>2, <1>4, <1>6, <3>1, LlroundLemma
    <3>3. Converted(v, c) # {}
      BY <1>3, <1>6, <3>2
    <3> QED BY <1>5, <2>1, <3>1, <3>3
  <2>2. CASE ~(Abs(x.h) <= 2 * MaxInt \/ x.h = 2 * MinInt)
    <3>1. ~(2 * MinInt <= x.h /\ x.h <= 2 * (MaxInt + 1))
      <4> SUFFICES ASSUME 2 * MinInt <= x.h, x.h <= 2 * (MaxInt + 1) PROVE FALSE
        OBVIOUS
      <4>1. x.h = 2 * MaxInt + 1 \/ x.h = -(2 * MaxInt + 1)
        BY <1>1, <1>2, <1>6, <2>2 DEF Abs
      <4>2. ~(Abs(x.h) <= MaxInt)
        BY <1>1, <4>1 DEF Abs
      <4>3. PICK k \in Int : x.h = 4 * k
        BY <1>2, <1>6, <4>2
      <4> QED BY <1>1, <4>1, <4>3
    <3> QED BY <1>3, <1>4, <2>2, <3>1
  <2> QED BY <2>1, <2>2
<1> QED BY <1>5, <1>6 DEF x, n

(* A reading made by convert_value() is sound.                             *)
LEMMA ConvertSound ==
  ASSUME NEW s, s.value \in Scalar, NEW c \in PointConfig,
         NEW y \in ConvertValue(s.value, c, s.status),
         NEW r, r.value = y.value, r.quality = y.quality
  PROVE  Sound(s, r, c)
<1> DEFINE n == NumericValue(s.value)
           m == NumericValue(r.value)
           x == Affine(n, c)
           inside == /\ \A l \in c.minimum : m.h >= l
                     /\ \A l \in c.maximum : m.h <= l
           Part1 == s.status # "Good" => r.quality = s.status /\ r.value = s.value
           Part2 == r.quality = "Good" => r.value.type = c.type /\ (Finite(m) => inside)
           Part3 == r.quality = "DecodeError" => r.value = s.value
           Part4 == r.value.type = "Integer" => r.value.i \in MinInt..MaxInt
           Part5 == (s.status = "Good" /\ c.type = "Integer" /\ Finite(n) /\ Finite(x)
                       /\ x.h # 2 * (MaxInt + 1)) =>
                      IF Abs(x.h) <= 2 * MaxInt \/ x.h = 2 * MinInt
                      THEN /\ r.value.type = "Integer"
                           /\ Abs(2 * r.value.i - x.h) <= 1
                           /\ r.quality = IF inside THEN "Good" ELSE "OutOfRange"
                      ELSE r.quality = "OutOfRange" /\ r.value = s.value
<1>1. SUFFICES Part1 /\ Part2 /\ Part3 /\ Part4 /\ Part5
  BY DEF Sound
<1>2. s.value.type = "Integer" => s.value.i \in MinInt..MaxInt
  BY ScalarLemma
<1>3. CASE s.status # "Good"
  <2>1. r.value = s.value /\ r.quality = s.status
    BY <1>3, PassOnLemma
  <2> QED BY <1>2, <1>3, <2>1
<1>4. CASE s.status = "Good"
  <2>1. \/ r.value \in Converted(s.value, c)
           /\ r.quality = IF WithinLimits(r.value, c) THEN "Good" ELSE "OutOfRange"
        \/ /\ Converted(s.value, c) = {} /\ r.value = s.value
           /\ r.quality = IF c.type = "Integer" /\ Finite(n) THEN "OutOfRange" ELSE "DecodeError"
    BY <1>4, ConvertLemma
  <2>2. r.value \in Converted(s.value, c) => r.value.type = c.type /\ m.h \in Int
    <3>1. CASE c.type = "Integer"
      BY <3>1, IntegerLemma
    <3>2. CASE c.type # "Integer"
      BY <3>2, ConvertedType
    <3> QED BY <3>1, <3>2
  <2>3. m.h \in Int /\ Finite(m) => (WithinLimits(r.value, c) <=> inside)
    BY LimitsLemma
  <2>4. Part1 /\ Part3
    BY <1>4, <2>1
  <2>5. Part2
    <3> HIDE DEF m, inside, n
    <3> QED BY <2>1, <2>2, <2>3
  <2>6. Part4
    <3>1. CASE r.value \in Converted(s.value, c)
      BY <2>2, <3>1, IntegerLemma
    <3>2. CASE r.value = s.value
      BY <1>2, <3>2
    <3> QED BY <2>1, <3>1, <3>2
  <2>7. Part5
    <3> SUFFICES ASSUME c.type = "Integer", Finite(n), Finite(x), x.h # 2 * (MaxInt + 1)
                 PROVE  IF Abs(x.h) <= 2 * MaxInt \/ x.h = 2 * MinInt
                        THEN /\ r.value.type = "Integer"
                             /\ Abs(2 * r.value.i - x.h) <= 1
                             /\ r.quality = IF inside THEN "Good" ELSE "OutOfRange"
                        ELSE r.quality = "OutOfRange" /\ r.value = s.value
      OBVIOUS
    <3>1. /\ \A w \in Converted(s.value, c) : Finite(NumericValue(w))
          /\ IF Abs(x.h) <= 2 * MaxInt \/ x.h = 2 * MinInt
             THEN /\ Converted(s.value, c) # {}
                  /\ \A w \in Converted(s.value, c) : Abs(2 * w.i - x.h) <= 1
             ELSE Converted(s.value, c) = {}
      BY IntegerLemma
    <3>2. r.value \in Converted(s.value, c) => Finite(m)
      BY <3>1
    <3> HIDE DEF m, inside, n, x
    <3>3. CASE Abs(x.h) <= 2 * MaxInt \/ x.h = 2 * MinInt
      <4>1. r.value \in Converted(s.value, c) /\ Abs(2 * r.value.i - x.h) <= 1
        BY <2>1, <3>1, <3>3
      <4> QED BY <2>1, <2>2, <2>3, <3>1, <3>2, <3>3, <4>1
    <3>4. CASE ~(Abs(x.h) <= 2 * MaxInt \/ x.h = 2 * MinInt)
      BY <2>1, <3>1, <3>4
    <3> QED BY <3>3, <3>4
  <2> QED BY <2>4, <2>5, <2>6, <2>7
<1> QED BY <1>3, <1>4

(* The worker has a batch, and what it made of it is sound.                *)
SampleInv == (worker \in Working => batch \in RawBatch) /\ ConversionSound

LEMMA NormalizeIsSound ==
  ASSUME PathInv, SampleInv, Normalize
  PROVE  SampleInv'
<1>1. batch \in RawBatch /\ batch' = batch
  BY DEF Normalize, SampleInv, Working
<1>2. batch.samples \in Seq(RawSample)
  <2>1. \E b \in Batches : batch.samples = b.samples
    BY <1>1 DEF RawBatch
  <2> QED BY <2>1, DataPathAssumption DEF DataPathAssumption
<1>3. PICK readings \in Readings(batch) : event'.readings = readings
  BY DEF Normalize
<1>4. \A i \in 1..Len(batch.samples) :
        \E y \in NormalizeSample(batch.device_id, batch.samples[i]) :
          readings[i].value = y.value /\ readings[i].quality = y.quality
  <2> DEFINE R(f) == [i \in 1..Len(batch.samples) |->
                        [point |-> batch.samples[i].point, value |-> f[i].value,
                         quality |-> f[i].quality, derived |-> FALSE]]
             U == UNION {NormalizeSample(batch.device_id, batch.samples[i]) :
                           i \in 1..Len(batch.samples)}
             F == {g \in [1..Len(batch.samples) -> U] :
                     \A i \in DOMAIN g : g[i] \in NormalizeSample(batch.device_id, batch.samples[i])}
  <2>1. Readings(batch) = {R(f) : f \in F}
    BY DEF Readings
  <2> HIDE DEF R, F
  <2>2. PICK f \in F : readings = R(f)
    BY <1>3, <2>1
  <2>3. \A i \in 1..Len(batch.samples) : f[i] \in NormalizeSample(batch.device_id, batch.samples[i])
    BY DEF F
  <2>4. \A i \in 1..Len(batch.samples) :
          readings[i].value = f[i].value /\ readings[i].quality = f[i].quality
    BY <2>2 DEF R
  <2> QED BY <2>3, <2>4
<1>5. ASSUME NEW i \in 1..Len(batch.samples)
      PROVE  IF batch.device_id \in Device /\ batch.samples[i].point \in DOMAIN Points[batch.device_id]
             THEN Sound(batch.samples[i], readings[i], Points[batch.device_id][batch.samples[i].point])
             ELSE readings[i].quality = "Bad"
  <2> DEFINE s == batch.samples[i]
             c == Points[batch.device_id][s.point]
  <2>1. PICK y \in NormalizeSample(batch.device_id, s) :
          readings[i].value = y.value /\ readings[i].quality = y.quality
    BY <1>4
  <2>2. s.value \in Scalar
    <3>1. s \in RawSample
      BY <1>2
    <3> QED BY <3>1 DEF RawSample
  <2>3. CASE batch.device_id \in Device /\ s.point \in DOMAIN Points[batch.device_id]
    <3>1. c \in PointConfig
      BY <2>3, DataPathAssumption DEF DataPathAssumption
    <3>2. y \in ConvertValue(s.value, c, s.status)
      BY <2>1, <2>3 DEF NormalizeSample
    <3> QED BY <2>1, <2>2, <2>3, <3>1, <3>2, ConvertSound
  <2>4. CASE ~(batch.device_id \in Device /\ s.point \in DOMAIN Points[batch.device_id])
    <3>1. y = Result(s.value, "Bad")
      BY <2>1, <2>4 DEF NormalizeSample
    <3> QED BY <2>1, <2>4, <3>1 DEF Result
  <2> QED BY <2>3, <2>4
<1>6. ConversionSound'
  BY <1>1, <1>3, <1>5 DEF ConversionSound
<1> QED BY <1>1, <1>6 DEF SampleInv

(* The batch in the worker's hands came from a producer, and its readings  *)
(* are sound.                                                              *)
LEMMA SampleInvariant == Spec => []SampleInv
<1>1. Init => SampleInv
  BY DEF Init, SampleInv, Working, ConversionSound
<1>2. PathInv /\ SampleInv /\ [Next]_vars => SampleInv'
  <2> SUFFICES ASSUME PathInv, SampleInv, [Next]_vars PROVE SampleInv'
    OBVIOUS
  <2> USE DEF queueVars, localVars, historyVars
  <2>1. CASE Normalize
    BY <2>1, NormalizeIsSound
  <2>2. CASE WaitPop
    <3>1. batch' \in RawBatch \/ (worker' \notin Working)
      <4>1. queue \in Seq(RawBatch)
        BY DEF PathInv, PathType
      <4>2. queue # <<>> => Head(queue) \in RawBatch
        BY <4>1
      <4> QED BY <2>2, <4>2 DEF WaitPop, Working
    <3>2. worker' # "process"
      BY <2>2 DEF WaitPop
    <3> QED BY <3>1, <3>2 DEF SampleInv, ConversionSound
  <2>3. CASE RunProcessor \/ ProcessorThrows
    <3>1. worker = "process" /\ pos \in Nat /\ pos >= 1 /\ pos' = pos + 1 /\ UNCHANGED <<worker, batch>>
      BY <2>3 DEF PathInv, PathType, WorkInv, RunProcessor, ProcessorThrows
    <3> QED BY <3>1 DEF SampleInv, ConversionSound
  <2>4. CASE NormalizeThrows \/ Processed \/ Publish \/ Published
    <3>1. worker' # "process" /\ batch' = batch /\ (worker' \in Working => worker \in Working)
      BY <2>4 DEF NormalizeThrows, Processed, Publish, Published, Working
    <3> QED BY <3>1 DEF SampleInv, ConversionSound
  <2>5. CASE \/ \E b \in Batches : Produce(b)
             \/ Close \/ CloseNotify \/ SpuriousWakeup \/ Terminated \/ UNCHANGED vars
    <3>1. /\ UNCHANGED <<batch, event, pos>> /\ (worker' \in Working => worker \in Working)
          /\ (worker' = "process" => worker = "process")
      BY <2>5 DEF Produce, TryPush, NotifyWorker, Close, CloseNotify, SpuriousWakeup,
                  Terminated, vars, Working
    <3> QED BY <3>1 DEF SampleInv, ConversionSound
  <2> QED BY <2>1, <2>2, <2>3, <2>4, <2>5 DEF Next, WorkerStep
<1> QED BY <1>1, <1>2, PathInvariant, PTL DEF Spec

(* What a sample becomes is sound, whatever value of the five types it has *)
(* and whatever the point's configuration: a Good reading has the type and *)
(* lies within the limits of its point, an integer point gets the nearest  *)
(* integer or is out of range, and nothing wraps around.                   *)
THEOREM ConversionIsSound == Spec => []ConversionSound
<1>1. SampleInv => ConversionSound
  BY DEF SampleInv
<1> QED BY <1>1, SampleInvariant, PTL

-----------------------------------------------------------------------------
(* The windows                                                             *)

DeviceId == {b.device_id : b \in Batches}

(* The window-average processors that WindowExact speaks of *)
Averages == {j \in DOMAIN Processors : Processors[j].kind = "window_average" /\ OwnNames(j)}

(* The events that processor j has seen, as publisher p has been or will   *)
(* be given them; the last one may still be in the worker's hands          *)
Ahead(p, j) == (worker = "process" /\ j < pos) \/ (worker = "publish" /\ ~Given(p))
Taken(p, j) == Len(log[p]) + (IF Ahead(p, j) THEN 1 ELSE 0)
Seen(p, j) == [k \in 1..Taken(p, j) |-> IF k <= Len(log[p]) THEN log[p][k] ELSE event]

(* w holds the last values of V that are at an index in U, at most n *)
IsTail(w, U, V, n) ==
  /\ IsSeq(w)
  /\ IF Len(w) < n THEN Cardinality(U) = Len(w) ELSE Len(w) = n /\ Cardinality(U) >= n
  /\ \E at \in Latest(U, Len(w)) : \A i \in 1..Len(w) : w[i] = V[at[i]]

(* The numbers that a processor with that input finds in the stream es *)
Values(es, point) == [k \in DOMAIN es |-> Input(es[k], point)]

(* windows is what es leaves behind in processor c, and what c derived for *)
(* each event of es is right                                               *)
Follows(es, n, c, w) ==
  /\ \A d \in DeviceId :
       IsTail(WindowOf(w, d), Usable(es, n, d, c.input), Values(es, c.input), c.window)
  /\ \A k \in 1..n : WindowExactAt(es, k, c)

(* The event in the worker's hands; it has nothing of a processor whose    *)
(* turn has not come                                                       *)
EventInv ==
  /\ DOMAIN windows = DOMAIN Processors
  /\ worker = "process" =>
       /\ event.device_id \in DeviceId
       /\ IsSeq(event.readings)
       /\ \A j \in Averages : pos <= j => DOMAIN DerivedBy(event, Processors[j]) = {}

StreamInv ==
  \A p \in Publisher, j \in Averages :
    Follows(Seen(p, j), Taken(p, j), Processors[j], windows[j])

WindowInv == EventInv /\ StreamInv

(* A window that holds the last values still does when the next one is     *)
(* pushed: it grows while it is not full, then loses its oldest value.     *)
LEMMA PushTail ==
  ASSUME NEW K \in Nat, NEW U, U \subseteq 1..K, NEW V, NEW V2, NEW w, NEW c, NEW x,
         c.window \in Nat \ {0}, IsTail(w, U, V, c.window),
         \A i \in U : V2[i] = V[i], V2[K + 1] = x
  PROVE  IsTail(PushWindow(c, w, x), U \cup {K + 1}, V2, c.window)
<1> DEFINE n == c.window
           U2 == U \cup {K + 1}
           m == Len(w)
           longer == Append(w, x)
           r == PushWindow(c, w, x)
<1>1. /\ m \in Nat /\ w = [i \in 1..m |-> w[i]]
      /\ IF m < n THEN Cardinality(U) = m ELSE m = n /\ Cardinality(U) >= n
  BY DEF IsTail, IsSeq
<1>2. PICK at \in Latest(U, m) : \A i \in 1..m : w[i] = V[at[i]]
  BY DEF IsTail
<1>3. /\ at \in [1..m -> U]
      /\ \A i, l \in 1..m : i < l => at[i] < at[l]
      /\ \A i \in 1..m : \A u \in U : u > at[i] => \E l \in 1..m : u = at[l]
  BY <1>2 DEF Latest
<1>4. IsFiniteSet(U) /\ Cardinality(U) \in Nat /\ K + 1 \notin U
  <2>1. IsFiniteSet(1..K)
    BY FS_Interval
  <2>2. U \in SUBSET (1..K)
    OBVIOUS
  <2>3. IsFiniteSet(U)
    BY <2>1, <2>2, FS_Subset, Zenon
  <2>4. Cardinality(U) \in Nat
    BY <2>3, FS_CardinalityType
  <2>5. K + 1 \notin U
    BY <2>2
  <2> QED BY <2>3, <2>4, <2>5
<1>5. Cardinality(U2) = Cardinality(U) + 1
  BY <1>4, FS_AddElement
<1>6. /\ Len(longer) = m + 1 /\ IsSeq(longer)
      /\ \A i \in 1..m : longer[i] = w[i]
      /\ longer[m + 1] = x
  <2>1. IsSeq(w)
    BY DEF IsTail
  <2>2. /\ IsSeq(Append(w, x)) /\ Len(Append(w, x)) = Len(w) + 1
        /\ \A i \in 1..Len(w) : Append(w, x)[i] = w[i]
        /\ Append(w, x)[Len(w) + 1] = x
    BY <2>1, AppendLemma
  <2> QED BY <2>2, Zenon
<1> DEFINE excess == Len(longer) - n
           first == IF excess > 0 THEN excess + 1 ELSE 1
<1>7. r = SubSeq(longer, first, m + 1)
  BY <1>6 DEF PushWindow
<1>8. /\ first = IF m < n THEN 1 ELSE 2
      /\ first \in Nat
  BY <1>1, <1>6
<1> DEFINE size == IF m < n THEN m + 1 ELSE n
<1>9. /\ size \in Nat /\ IsSeq(r) /\ Len(r) = size
      /\ \A i \in 1..size : r[i] = longer[i + first - 1]
  <2> HIDE DEF r, longer, first
  <2> DEFINE S == {longer[l] : l \in 1..(m + 1)}
             last == m + 1
  <2>1. last \in Int /\ first \in Int /\ \A i \in first..last : longer[i] \in S
    BY <1>1, <1>8
  <2> HIDE DEF S, last
  <2>2. /\ r \in Seq(S) /\ Len(r) = IF first <= last THEN last - first + 1 ELSE 0
        /\ \A i \in 1..(last - first + 1) : r[i] = longer[first + i - 1]
    <3>1. /\ SubSeq(longer, first, last) \in Seq(S)
          /\ Len(SubSeq(longer, first, last)) = IF first <= last THEN last - first + 1 ELSE 0
          /\ \A i \in 1..(last - first + 1) : SubSeq(longer, first, last)[i] = longer[first + i - 1]
      BY <2>1, SubSeqProperties
    <3>2. r = SubSeq(longer, first, last)
      BY <1>7 DEF last
    <3> QED BY <3>1, <3>2, Zenon
  <2>3. Len(r) = size /\ last - first + 1 = size /\ size \in Nat
    BY <1>1, <1>8, <2>2 DEF last
  <2>4. IsSeq(r)
    BY <2>2 DEF IsSeq
  <2>5. \A i \in 1..size : first + i - 1 = i + first - 1
    BY <1>8, <2>3
  <2> QED BY <2>2, <2>3, <2>4, <2>5
<1> DEFINE at2 == [i \in 1..size |-> IF i = size THEN K + 1 ELSE at[i + first - 1]]
<1> HIDE DEF r, longer, first, size
<1>10. /\ size - 1 + first - 1 = m /\ size >= 1
       /\ \A i \in 1..size : i # size => i + first - 1 \in 1..m
  BY <1>1, <1>8 DEF size
<1>11. at2 \in [1..size -> U2]
  BY <1>3, <1>10
<1>12. \A i, l \in 1..size : i < l => at2[i] < at2[l]
  <2> SUFFICES ASSUME NEW i \in 1..size, NEW l \in 1..size, i < l
               PROVE  at2[i] < at2[l]
    OBVIOUS
  <2>1. i # size /\ i + first - 1 \in 1..m /\ at2[i] = at[i + first - 1]
    BY <1>9, <1>10
  <2>2. CASE l = size
    <3>1. at[i + first - 1] \in 1..K
      BY <1>3, <2>1
    <3>2. at2[l] = K + 1
      BY <2>2
    <3> HIDE DEF at2
    <3> QED BY <2>1, <3>1, <3>2
  <2>3. CASE l # size
    <3>1. l + first - 1 \in 1..m /\ at2[l] = at[l + first - 1] /\ i + first - 1 < l + first - 1
      BY <1>8, <1>9, <1>10, <2>3
    <3> QED BY <1>3, <2>1, <3>1
  <2> QED BY <2>2, <2>3
<1>13. \A i \in 1..size : \A u \in U2 : u > at2[i] => \E l \in 1..size : u = at2[l]
  <2> SUFFICES ASSUME NEW i \in 1..size, NEW u \in U2, u > at2[i]
               PROVE  \E l \in 1..size : u = at2[l]
    OBVIOUS
  <2>1. CASE u = K + 1
    <3>1. size \in 1..size /\ at2[size] = K + 1
      BY <1>9, <1>10
    <3> QED BY <2>1, <3>1
  <2>2. CASE u # K + 1
    <3>1. u \in U /\ u \in 1..K
      BY <2>2
    <3>2. i # size
      BY <3>1
    <3>3. i + first - 1 \in 1..m /\ at2[i] = at[i + first - 1]
      BY <1>10, <3>2
    <3>4. PICK l \in 1..m : u = at[l]
      BY <1>3, <3>1, <3>3
    <3>5. at[l] > at[i + first - 1] /\ at[l] \in 1..K /\ at[i + first - 1] \in 1..K
      BY <1>3, <3>3, <3>4
    <3>6. l > i + first - 1
      <4> SUFFICES ASSUME ~(l > i + first - 1) PROVE FALSE
        OBVIOUS
      <4>1. l = i + first - 1 \/ l < i + first - 1
        BY <3>3
      <4>2. CASE l < i + first - 1
        <5>1. at[l] < at[i + first - 1]
          BY <1>3, <3>3, <4>2
        <5> QED BY <3>5, <5>1
      <4>3. CASE l = i + first - 1
        BY <3>5, <4>3
      <4> QED BY <4>1, <4>2, <4>3
    <3> DEFINE q == l - first + 1
    <3>7. q \in 1..size /\ q # size /\ q + first - 1 = l
      BY <1>8, <1>9, <1>10, <3>3, <3>6
    <3>8. at2[q] = at[l]
      BY <3>7
    <3> QED BY <3>4, <3>7, <3>8
  <2> QED BY <2>1, <2>2
<1>14. at2 \in Latest(U2, size)
  <2> HIDE DEF at2
  <2> QED BY <1>11, <1>12, <1>13 DEF Latest
<1>15. \A i \in 1..size : r[i] = V2[at2[i]]
  <2> SUFFICES ASSUME NEW i \in 1..size PROVE r[i] = V2[at2[i]]
    OBVIOUS
  <2>1. CASE i = size
    <3>1. i + first - 1 = m + 1
      BY <1>1, <1>8, <1>9, <1>10, <2>1
    <3> QED BY <1>6, <1>9, <2>1, <3>1
  <2>2. CASE i # size
    <3>1. i + first - 1 \in 1..m
      BY <1>10, <2>2
    <3> DEFINE q == i + first - 1
    <3>2. r[i] = longer[q] /\ at2[i] = at[q]
      BY <1>9, <2>2
    <3> HIDE DEF q, at2
    <3>3. q \in 1..m
      BY <3>1 DEF q
    <3>4. longer[q] = w[q] /\ w[q] = V[at[q]] /\ at[q] \in U
      BY <1>2, <1>3, <1>6, <3>3
    <3> QED BY <3>2, <3>4
  <2> QED BY <2>1, <2>2
<1>16. IF size < n THEN Cardinality(U2) = size ELSE size = n /\ Cardinality(U2) >= n
  BY <1>1, <1>4, <1>5 DEF size
<1> HIDE DEF at2, U2
<1>17. IsTail(r, U2, V2, n)
  BY <1>9, <1>14, <1>15, <1>16 DEF IsTail
<1> QED BY <1>17 DEF r, U2

(* What WindowExact sees of an event, for a processor c *)
Alike(e, f, c) ==
  /\ f.device_id = e.device_id
  /\ Inputs(f, c.input) = Inputs(e, c.input)
  /\ DerivedBy(f, c) = DerivedBy(e, c)

LEMMA UsableAlike ==
  ASSUME NEW es, NEW fs, NEW c, NEW k \in Nat, NEW d,
         \A i \in 1..k : Alike(es[i], fs[i], c)
  PROVE  /\ Usable(fs, k, d, c.input) = Usable(es, k, d, c.input)
         /\ \A i \in Usable(es, k, d, c.input) : Input(fs[i], c.input) = Input(es[i], c.input)
<1>1. Usable(fs, k, d, c.input) = Usable(es, k, d, c.input)
  BY DEF Usable, Alike
<1>2. \A i \in 1..k : Input(fs[i], c.input) = Input(es[i], c.input)
  BY DEF Input, Alike
<1> QED BY <1>1, <1>2 DEF Usable

LEMMA ExactAlike ==
  ASSUME NEW es, NEW fs, NEW c, NEW k \in Nat \ {0},
         \A i \in 1..k : Alike(es[i], fs[i], c), WindowExactAt(es, k, c)
  PROVE  WindowExactAt(fs, k, c)
<1> DEFINE d == es[k].device_id
           U == Usable(es, k, d, c.input)
           A(gs, at) == [l \in 1..c.window |-> Input(gs[at[l]], c.input)]
<1>1. fs[k].device_id = d /\ DerivedBy(fs[k], c) = DerivedBy(es[k], c)
  BY DEF Alike
<1>2. Usable(fs, k, d, c.input) = U
  BY UsableAlike
<1>3. \A i \in U : Input(fs[i], c.input) = Input(es[i], c.input)
  BY UsableAlike, SMTT(30)
<1> HIDE DEF U
<1>4. ASSUME NEW at \in Latest(U, c.window) PROVE A(fs, at) = A(es, at)
  <2>1. \A l \in 1..c.window : at[l] \in U
    BY DEF Latest
  <2> QED BY <1>3, <2>1
<1> HIDE DEF A
<1> DEFINE E(gs, by) ==
             IF k \in U /\ Cardinality(U) >= c.window
             THEN \E i \in DOMAIN by, at \in Latest(U, c.window) :
                    /\ DOMAIN by = {i}
                    /\ by[i] = DerivedReading(c.output, DoubleScalar(Average(A(gs, at))))
             ELSE DOMAIN by = {}
<1>5. WindowExactAt(es, k, c) = E(es, DerivedBy(es[k], c))
  BY Zenon DEF WindowExactAt, U, A
<1>6. WindowExactAt(fs, k, c) = E(fs, DerivedBy(es[k], c))
  BY <1>1, <1>2, Zenon DEF WindowExactAt, A
<1>7. E(es, DerivedBy(es[k], c)) => E(fs, DerivedBy(es[k], c))
  BY <1>4, Zenon
<1> QED BY <1>5, <1>6, <1>7

LEMMA TailAlike ==
  ASSUME NEW w, NEW U, NEW V, NEW V2, NEW n, IsTail(w, U, V, n),
         \A i \in U : V2[i] = V[i]
  PROVE  IsTail(w, U, V2, n)
<1>1. PICK at \in Latest(U, Len(w)) : \A i \in 1..Len(w) : w[i] = V[at[i]]
  BY DEF IsTail
<1>2. \A i \in 1..Len(w) : at[i] \in U
  BY DEF Latest
<1>3. \A i \in 1..Len(w) : w[i] = V2[at[i]]
  BY <1>1, <1>2
<1> QED BY <1>1, <1>3 DEF IsTail

(* Later processors do not change what a processor's window shows.         *)
LEMMA FollowsAlike ==
  ASSUME NEW es, NEW fs, NEW c, NEW w, NEW n \in Nat,
         DOMAIN es = 1..n, DOMAIN fs = 1..n,
         \A i \in 1..n : Alike(es[i], fs[i], c), Follows(es, n, c, w)
  PROVE  Follows(fs, n, c, w)
<1>1. ASSUME NEW d \in DeviceId
      PROVE  IsTail(WindowOf(w, d), Usable(fs, n, d, c.input), Values(fs, c.input), c.window)
  <2> DEFINE U == Usable(es, n, d, c.input)
  <2>1. Usable(fs, n, d, c.input) = U
    BY UsableAlike
  <2>2. \A i \in U : Input(fs[i], c.input) = Input(es[i], c.input)
    BY Zenon DEF Usable, Input, Alike
  <2>3. U \subseteq 1..n
    BY DEF Usable
  <2>4. IsTail(WindowOf(w, d), U, Values(es, c.input), c.window)
    BY DEF Follows
  <2> HIDE DEF U
  <2>5. \A i \in U : Values(fs, c.input)[i] = Values(es, c.input)[i]
    BY <2>2, <2>3 DEF Values
  <2> QED BY <2>1, <2>4, <2>5, TailAlike
<1>2. ASSUME NEW k \in 1..n PROVE WindowExactAt(fs, k, c)
  <2>1. k \in Nat \ {0} /\ \A i \in 1..k : Alike(es[i], fs[i], c)
    OBVIOUS
  <2>2. WindowExactAt(es, k, c)
    BY DEF Follows
  <2> QED BY <2>1, <2>2, ExactAlike
<1> QED BY <1>1, <1>2 DEF Follows

(* One more event: the window and what is derived keep following the       *)
(* stream.  e is the event as the processor finds it, f as it is published. *)
LEMMA FollowsNext ==
  ASSUME NEW es, NEW fs, NEW c, NEW w, NEW n \in Nat, NEW e, NEW f,
         DOMAIN es = 1..n, DOMAIN fs = 1..(n + 1),
         \A i \in 1..n : fs[i] = es[i], fs[n + 1] = f,
         Follows(es, n, c, w), c.kind = "window_average", c.window \in Nat \ {0},
         f.device_id = e.device_id, e.device_id \in DeviceId,
         Inputs(f, c.input) = Inputs(e, c.input),
         LET values == WindowOf(NextWindows(c, e, w), e.device_id)
             by == DerivedBy(f, c)
         IN IF Inputs(e, c.input) = {} \/ Len(values) # c.window
            THEN DOMAIN by = {}
            ELSE \E i : /\ DOMAIN by = {i}
                        /\ by[i] = DerivedReading(c.output, DoubleScalar(Average(values)))
  PROVE  Follows(fs, n + 1, c, NextWindows(c, e, w))
<1> DEFINE w2 == NextWindows(c, e, w)
           U(d) == Usable(es, n, d, c.input)
           V == Values(es, c.input)
           V2 == Values(fs, c.input)
           hit == Inputs(e, c.input) # {}
<1>1. \A i \in 1..n : V2[i] = V[i]
  BY DEF Values
<1>2. V2[n + 1] = Input(e, c.input)
  BY DEF Values, Input
<1>3. \A d : /\ U(d) \subseteq 1..n
             /\ Usable(fs, n + 1, d, c.input) =
                  IF d = e.device_id /\ hit THEN U(d) \cup {n + 1} ELSE U(d)
  <2> TAKE d
  <2>1. U(d) \subseteq 1..n
    BY DEF Usable
  <2>2. 1..(n + 1) = 1..n \cup {n + 1} /\ n + 1 \notin 1..n
    OBVIOUS
  <2>3. \A i \in 1..n : i \in Usable(fs, n + 1, d, c.input) <=> i \in U(d)
    BY <2>2 DEF Usable
  <2>4. n + 1 \in Usable(fs, n + 1, d, c.input) <=> (d = e.device_id /\ hit)
    BY <2>2 DEF Usable
  <2>5. Usable(fs, n + 1, d, c.input) \subseteq 1..n \cup {n + 1}
    BY <2>2 DEF Usable
  <2> DEFINE X == Usable(fs, n + 1, d, c.input)
             Y == U(d)
             p == d = e.device_id /\ hit
  <2> HIDE DEF U, X, Y, p
  <2>6. X = IF p THEN Y \cup {n + 1} ELSE Y
    <3>1. Y \subseteq 1..n /\ X \subseteq 1..n \cup {n + 1} /\ n + 1 \notin 1..n
      BY <2>1, <2>2, <2>5 DEF X, Y
    <3>2. \A i \in 1..n : i \in X <=> i \in Y
      BY <2>3 DEF X, Y
    <3>3. n + 1 \in X <=> p
      BY <2>4 DEF X, p
    <3>4. CASE p
      <4>1. \A i : i \in X <=> i \in Y \cup {n + 1}
        BY <3>1, <3>2, <3>3, <3>4
      <4> QED BY <3>4, <4>1
    <3>5. CASE ~p
      <4>1. \A i : i \in X <=> i \in Y
        BY <3>1, <3>2, <3>3, <3>5
      <4> QED BY <3>5, <4>1
    <3> QED BY <3>4, <3>5
  <2> QED BY <2>1, <2>6 DEF X, Y, p
<1>4. \A d : WindowOf(w2, d) = IF d = e.device_id /\ hit
                               THEN PushWindow(c, WindowOf(w, d), Input(e, c.input))
                               ELSE WindowOf(w, d)
  <2>1. CASE ~hit
    BY <2>1 DEF NextWindows
  <2>2. CASE hit
    <3>1. w2 = [d \in DOMAIN w \cup {e.device_id} |->
                  IF d = e.device_id THEN PushWindow(c, WindowOf(w, d), Input(e, c.input)) ELSE w[d]]
      BY <2>2 DEF NextWindows
    <3> HIDE DEF w2
    <3> QED BY <2>2, <3>1, Zenon DEF WindowOf
  <2> QED BY <2>1, <2>2
<1> HIDE DEF w2, V, V2
<1>5. ASSUME NEW d \in DeviceId
      PROVE  IsTail(WindowOf(w2, d), Usable(fs, n + 1, d, c.input), V2, c.window)
  <2>1. IsTail(WindowOf(w, d), U(d), V, c.window)
    BY DEF Follows, V
  <2>2. U(d) \subseteq 1..n /\ \A i \in U(d) : V2[i] = V[i]
    BY <1>1, <1>3
  <2> HIDE DEF U
  <2>3. CASE d = e.device_id /\ hit
    <3>1. IsTail(PushWindow(c, WindowOf(w, d), Input(e, c.input)), U(d) \cup {n + 1}, V2, c.window)
      BY <1>2, <2>1, <2>2, PushTail
    <3> QED BY <1>3, <1>4, <2>3, <3>1, Zenon
  <2>4. CASE ~(d = e.device_id /\ hit)
    <3>1. IsTail(WindowOf(w, d), U(d), V2, c.window)
      BY <2>1, <2>2, TailAlike
    <3> QED BY <1>3, <1>4, <2>4, <3>1, Zenon
  <2> QED BY <2>3, <2>4
<1>6. ASSUME NEW k \in 1..n PROVE WindowExactAt(fs, k, c)
  <2>1. k \in Nat \ {0} /\ \A i \in 1..k : Alike(es[i], fs[i], c)
    BY DEF Alike
  <2>2. WindowExactAt(es, k, c)
    BY DEF Follows
  <2> QED BY <2>1, <2>2, ExactAlike
<1>7. WindowExactAt(fs, n + 1, c)
  <2> DEFINE d == e.device_id
             U2 == Usable(fs, n + 1, d, c.input)
             by == DerivedBy(f, c)
             values == WindowOf(w2, d)
  <2>1. n + 1 \in U2 <=> hit
    BY DEF Usable
  <2>2. IsTail(values, U2, V2, c.window)
    BY <1>5
  <2>3. /\ Len(values) \in Nat /\ values = [i \in 1..Len(values) |-> values[i]]
        /\ IF Len(values) < c.window THEN Cardinality(U2) = Len(values)
           ELSE Len(values) = c.window /\ Cardinality(U2) >= c.window
    BY <2>2 DEF IsTail, IsSeq
  <2>4. U2 \subseteq DOMAIN fs
    BY DEF Usable
  <2>5. IF ~hit \/ Len(values) # c.window
        THEN DOMAIN by = {}
        ELSE \E i : /\ DOMAIN by = {i}
                    /\ by[i] = DerivedReading(c.output, DoubleScalar(Average(values)))
    BY Zenon DEF w2
  <2>6. fs[n + 1].device_id = d /\ DerivedBy(fs[n + 1], c) = by
    OBVIOUS
  <2> HIDE DEF d, U2, by, values, hit
  <2>7. Cardinality(U2) >= c.window <=> Len(values) = c.window
    BY <2>3
  <2> DEFINE A(at) == [l \in 1..c.window |-> Input(fs[at[l]], c.input)]
  <2>8. ASSUME Len(values) = c.window
        PROVE  \E at \in Latest(U2, c.window) : values = A(at)
    <3>1. PICK at \in Latest(U2, c.window) : \A i \in 1..c.window : values[i] = V2[at[i]]
      BY <2>2, <2>8 DEF IsTail
    <3>2. \A i \in 1..c.window : at[i] \in U2
      BY DEF Latest
    <3>3. \A i \in 1..c.window : V2[at[i]] = Input(fs[at[i]], c.input)
      BY <2>4, <3>2 DEF V2, Values
    <3>4. values = A(at)
      BY <2>3, <2>8, <3>1, <3>3
    <3> QED BY <3>4
  <2> HIDE DEF A
  <2>9. IF n + 1 \in U2 /\ Cardinality(U2) >= c.window
        THEN \E i \in DOMAIN by, at \in Latest(U2, c.window) :
               /\ DOMAIN by = {i}
               /\ by[i] = DerivedReading(c.output, DoubleScalar(Average(A(at))))
        ELSE DOMAIN by = {}
    BY <2>1, <2>5, <2>7, <2>8, Zenon
  <2> QED BY <2>6, <2>9, Zenon DEF WindowExactAt, U2, A
<1>8. \A k \in 1..(n + 1) : k \in 1..n \/ k = n + 1
  OBVIOUS
<1> QED BY <1>5, <1>6, <1>7, <1>8 DEF Follows, w2, V2

LEMMA ConcatLemma ==
  ASSUME NEW s, IsSeq(s), NEW x
  PROVE  /\ s \o <<>> = s
         /\ IsSeq(s \o <<x>>) /\ Len(s \o <<x>>) = Len(s) + 1
         /\ \A i \in 1..Len(s) : (s \o <<x>>)[i] = s[i]
         /\ (s \o <<x>>)[Len(s) + 1] = x
<1> DEFINE S == {s[i] : i \in 1..Len(s)} \cup {x}
           t == s \o <<x>>
<1>1. s \in Seq(S) /\ <<x>> \in Seq(S) /\ Len(<<x>>) = 1 /\ <<x>>[1] = x
  BY DEF IsSeq
<1> HIDE DEF S
<1>2. s \o <<>> = s
  BY <1>1, ConcatEmptySeq
<1>3. /\ t \in Seq(S) /\ Len(t) = Len(s) + Len(<<x>>)
      /\ \A i \in 1..(Len(s) + Len(<<x>>)) :
           t[i] = IF i <= Len(s) THEN s[i] ELSE <<x>>[i - Len(s)]
  BY <1>1, ConcatProperties
<1>4. Len(s) \in Nat
  BY <1>1
<1>5. IsSeq(t)
  <2> HIDE DEF t
  <2> QED BY <1>3 DEF IsSeq
<1> HIDE DEF t
<1>6. /\ Len(t) = Len(s) + 1 /\ \A i \in 1..Len(s) : t[i] = s[i]
      /\ t[Len(s) + 1] = x
  BY <1>1, <1>3, <1>4
<1> QED BY <1>2, <1>5, <1>6 DEF t

(* What becomes of the event e when a reading of o is appended, for c *)
Adds(e, f, o, v, c) ==
  /\ IsSeq(f.readings)
  /\ o # c.input => Inputs(f, c.input) = Inputs(e, c.input)
  /\ o # c.output => DerivedBy(f, c) = DerivedBy(e, c)
  /\ o = c.output /\ DOMAIN DerivedBy(e, c) = {} =>
       \E i : DOMAIN DerivedBy(f, c) = {i} /\ DerivedBy(f, c)[i] = DerivedReading(o, v)

(* A reading that a processor appends changes nothing for a processor that *)
(* neither reads nor writes a point of that name.                          *)
LEMMA AddReading ==
  ASSUME NEW e, NEW f, NEW o, NEW v, NEW c, IsSeq(e.readings),
         f.readings = e.readings \o <<DerivedReading(o, v)>>
  PROVE  Adds(e, f, o, v, c)
<1> DEFINE s == e.readings
           x == DerivedReading(o, v)
           t == s \o <<x>>
           n == Len(s)
<1>1. f.readings = t
  OBVIOUS
<1>2. /\ IsSeq(t) /\ Len(t) = n + 1
      /\ \A i \in 1..n : t[i] = s[i]
      /\ t[n + 1] = x
  BY ConcatLemma
<1>3. n \in Nat
  BY DEF IsSeq
<1>4. x.point = o /\ x.derived = TRUE
  BY DEF DerivedReading
<1> HIDE DEF s, x, t, n
<1>5. 1..(n + 1) = 1..n \cup {n + 1} /\ n + 1 \notin 1..n
  BY <1>3
<1>6. ASSUME o # c.input PROVE Inputs(f, c.input) = Inputs(e, c.input)
  <2> DEFINE at(r) == {i \in 1..Len(r) : r[i].point = c.input}
             F(r) == {r[i] : i \in {j \in at(r) : \A k \in at(r) : j <= k}}
  <2>1. at(t) = at(s)
    BY <1>2, <1>4, <1>5, <1>6 DEF n
  <2>2. at(s) \subseteq 1..n
    BY DEF n
  <2>3. F(t) = F(s)
    <3> HIDE DEF at
    <3> QED BY <1>2, <2>1, <2>2
  <2>4. FindReading(f, c.input) = F(f.readings) /\ FindReading(e, c.input) = F(e.readings)
    BY Zenon DEF FindReading
  <2> HIDE DEF F
  <2>5. F(f.readings) = F(t) /\ F(e.readings) = F(s)
    BY <1>1, Zenon DEF s
  <2>6. FindReading(f, c.input) = FindReading(e, c.input)
    BY <2>3, <2>4, <2>5, Zenon
  <2> QED BY <2>6, Zenon DEF Inputs
<1> DEFINE D(r) == {i \in 1..Len(r) : r[i].derived /\ r[i].point = c.output}
<1>7. /\ DerivedBy(f, c) = [i \in D(t) |-> t[i]]
      /\ DerivedBy(e, c) = [i \in D(s) |-> s[i]]
  BY <1>1 DEF DerivedBy, s
<1>8. D(s) \subseteq 1..n
  BY DEF n
<1>9. ASSUME o # c.output PROVE DerivedBy(f, c) = DerivedBy(e, c)
  <2>1. D(t) = D(s)
    BY <1>2, <1>4, <1>5, <1>9 DEF n
  <2> HIDE DEF D
  <2> QED BY <1>2, <1>7, <1>8, <2>1
<1>10. ASSUME o = c.output, DOMAIN DerivedBy(e, c) = {}
       PROVE  \E i : DOMAIN DerivedBy(f, c) = {i} /\ DerivedBy(f, c)[i] = x
  <2>1. D(s) = {}
    BY <1>7, <1>10
  <2>2. D(t) = {n + 1}
    <3>1. \A i \in 1..n : i \notin D(t)
      BY <1>2, <2>1, <1>5 DEF n
    <3>2. n + 1 \in D(t)
      BY <1>2, <1>4, <1>5, <1>10
    <3>3. D(t) \subseteq 1..n \cup {n + 1}
      BY <1>2, <1>5
    <3> QED BY <3>1, <3>2, <3>3
  <2> HIDE DEF D
  <2> QED BY <1>2, <1>7, <2>2
<1> QED BY <1>1, <1>2, <1>6, <1>9, <1>10 DEF x, Adds

-----------------------------------------------------------------------------
(* The steps of the worker, as the windows see them *)

LEMMA AverageType ==
  ASSUME NEW j \in Averages
  PROVE  /\ j \in 1..Len(Processors) /\ j \in Nat /\ j >= 1 /\ Len(Processors) \in Nat
         /\ DOMAIN Processors = 1..Len(Processors)
         /\ Processors[j].kind = "window_average" /\ Processors[j].window \in Nat \ {0}
<1>1. Processors \in Seq(Processor)
  BY DataPathAssumption DEF DataPathAssumption
<1>2. DOMAIN Processors = 1..Len(Processors) /\ Len(Processors) \in Nat
  BY <1>1
<1>3. j \in 1..Len(Processors) /\ Processors[j].kind = "window_average"
  BY <1>2 DEF Averages
<1>4. Processors[j] \in Processor
  BY <1>1, <1>3
<1>5. Processors[j].window \in Nat \ {0}
  BY <1>3, <1>4 DEF Processor
<1> QED BY <1>2, <1>3, <1>5

LEMMA TakenType ==
  ASSUME PathInv, NEW p \in Publisher, NEW j
  PROVE  /\ Len(log[p]) \in Nat /\ Taken(p, j) \in Nat
         /\ DOMAIN Seen(p, j) = 1..Taken(p, j)
<1>1. Len(log[p]) \in Nat
  BY DEF PathInv, PathType, IsSeq
<1> DEFINE one == IF Ahead(p, j) THEN 1 ELSE 0
<1>2. one = 1 \/ one = 0
  BY Zenon
<1>3. Taken(p, j) = Len(log[p]) + one
  BY Zenon DEF Taken
<1> HIDE DEF one
<1>4. Taken(p, j) \in Nat
  BY <1>1, <1>2, <1>3
<1> QED BY <1>1, <1>4 DEF Seen

LEMMA WindowInitially == Init => WindowInv
<1> SUFFICES ASSUME Init PROVE WindowInv
  OBVIOUS
<1>1. EventInv
  BY DEF Init, EventInv
<1>2. ASSUME NEW p \in Publisher, NEW j \in Averages
      PROVE  Follows(Seen(p, j), Taken(p, j), Processors[j], windows[j])
  <2> DEFINE c == Processors[j]
             es == Seen(p, j)
  <2>1. log[p] = <<>> /\ Taken(p, j) = 0
    BY DEF Init, Taken, Ahead
  <2>2. windows[j] = [d \in {} |-> <<>>]
    BY AverageType DEF Init
  <2>3. c.window \in Nat \ {0}
    BY AverageType
  <2> HIDE DEF c, es
  <2>4. ASSUME NEW d
        PROVE  IsTail(WindowOf(windows[j], d), Usable(es, 0, d, c.input), Values(es, c.input), c.window)
    <3>1. WindowOf(windows[j], d) = <<>>
      BY <2>2 DEF WindowOf
    <3>2. Usable(es, 0, d, c.input) = {}
      BY DEF Usable
    <3>3. Cardinality({}) = 0
      BY FS_EmptySet
    <3>4. Len(<<>>) = 0 /\ IsSeq(<<>>)
      BY DEF IsSeq
    <3>5. [i \in 1..0 |-> 0] \in Latest({}, 0)
      BY DEF Latest
    <3>6. IsTail(<<>>, {}, Values(es, c.input), c.window)
      <4>1. \A i \in 1..0 : FALSE
        OBVIOUS
      <4>2. IF Len(<<>>) < c.window THEN Cardinality({}) = Len(<<>>)
            ELSE Len(<<>>) = c.window /\ Cardinality({}) >= c.window
        BY <2>3, <3>3, <3>4
      <4>3. \E at \in Latest({}, Len(<<>>)) :
              \A i \in 1..Len(<<>>) : <<>>[i] = Values(es, c.input)[at[i]]
        BY <3>4, <3>5, <4>1
      <4> QED BY <3>4, <4>2, <4>3 DEF IsTail
    <3> QED BY <3>1, <3>2, <3>6
  <2>5. Follows(es, 0, c, windows[j])
    BY <2>4 DEF Follows
  <2> QED BY <2>1, <2>5 DEF c, es
<1> QED BY <1>1, <1>2 DEF WindowInv, StreamInv

(* What processor j has seen stays the same if the log does and the event  *)
(* in the worker's hands is not touched.                                   *)
LEMMA SeenKept ==
  ASSUME PathInv, NEW p \in Publisher, NEW j, log'[p] = log[p],
         Ahead(p, j)' <=> Ahead(p, j), Ahead(p, j) => event' = event
  PROVE  Taken(p, j)' = Taken(p, j) /\ Seen(p, j)' = Seen(p, j)
<1>1. Taken(p, j)' = Taken(p, j)
  BY Zenon DEF Taken
<1>2. Len(log[p]) \in Nat /\ Taken(p, j) \in Nat
  BY TakenType
<1>3. CASE Ahead(p, j)
  BY <1>1, <1>3 DEF Seen
<1>4. CASE ~Ahead(p, j)
  <2>1. Taken(p, j) = Len(log[p])
    BY <1>2, <1>4 DEF Taken
  <2>2. \A k \in 1..Taken(p, j) : k <= Len(log[p]) /\ k <= Len(log'[p])
    BY <1>2, <2>1
  <2> QED BY <1>1, <2>2 DEF Seen
<1> QED BY <1>3, <1>4

LEMMA StreamKept ==
  ASSUME StreamInv, windows' = windows,
         \A p \in Publisher, j \in Averages : Taken(p, j)' = Taken(p, j) /\ Seen(p, j)' = Seen(p, j)
  PROVE  StreamInv'
<1> SUFFICES ASSUME NEW p \in Publisher, NEW j \in Averages
             PROVE  Follows(Seen(p, j)', Taken(p, j)', Processors[j], windows'[j])
  BY DEF StreamInv
<1>1. Follows(Seen(p, j), Taken(p, j), Processors[j], windows[j])
  BY DEF StreamInv
<1> QED BY <1>1, Zenon

(* The steps of the producers, of close() and of the worker outside the    *)
(* processors and the publishers.                                          *)
LEMMA WindowQuiet ==
  ASSUME PathInv, WindowInv,
         \/ \E b \in Batches : Produce(b)
         \/ Close \/ CloseNotify \/ SpuriousWakeup \/ WaitPop \/ NormalizeThrows
         \/ Terminated \/ UNCHANGED vars
  PROVE  WindowInv'
<1> USE DEF queueVars, localVars, historyVars
<1>1. UNCHANGED <<event, pos, windows, log>>
  BY DEF Produce, Close, CloseNotify, SpuriousWakeup, WaitPop, NormalizeThrows, Terminated, vars
<1>2. worker' = worker \/ (worker' \notin {"process", "publish"} /\ worker \notin {"process", "publish"})
  BY DEF Produce, TryPush, NotifyWorker, Close, CloseNotify, SpuriousWakeup, WaitPop,
         NormalizeThrows, Terminated, vars
<1>3. EventInv'
  BY <1>1, <1>2 DEF WindowInv, EventInv
<1>4. ASSUME NEW p \in Publisher, NEW j \in Averages
      PROVE  Taken(p, j)' = Taken(p, j) /\ Seen(p, j)' = Seen(p, j)
  <2>1. Ahead(p, j)' <=> Ahead(p, j)
    BY <1>1, <1>2, Zenon DEF Ahead, Given
  <2> QED BY <1>1, <2>1, SeenKept
<1> QED BY <1>1, <1>3, <1>4, StreamKept DEF WindowInv

LEMMA WindowNormalize ==
  ASSUME PathInv, SampleInv, WindowInv, Normalize
  PROVE  WindowInv'
<1> USE DEF queueVars, localVars, historyVars
<1>1. /\ worker = "normalize" /\ worker' = "process" /\ pos' = 1
      /\ UNCHANGED <<windows, log>>
  BY DEF Normalize
<1>2. batch \in RawBatch
  BY <1>1 DEF SampleInv, Working
<1>3. PICK readings \in Readings(batch) :
        event' = [source |-> batch.source, device_id |-> batch.device_id, readings |-> readings]
  BY DEF Normalize
<1>4. PICK b \in Batches : batch.device_id = b.device_id /\ batch.samples = b.samples
  BY <1>2 DEF RawBatch
<1>5. event'.device_id \in DeviceId
  BY <1>3, <1>4 DEF DeviceId
<1>6. Len(batch.samples) \in Nat
  <2>1. b.samples \in Seq(RawSample)
    BY DataPathAssumption DEF DataPathAssumption
  <2> QED BY <1>4, <2>1
<1>7. \E F : readings = [i \in 1..Len(batch.samples) |-> F[i]]
             /\ \A i \in 1..Len(batch.samples) : F[i].derived = FALSE
  <2> DEFINE R(f) == [i \in 1..Len(batch.samples) |->
                        [point |-> batch.samples[i].point, value |-> f[i].value,
                         quality |-> f[i].quality, derived |-> FALSE]]
             U == UNION {NormalizeSample(batch.device_id, batch.samples[i]) :
                           i \in 1..Len(batch.samples)}
             G == {g \in [1..Len(batch.samples) -> U] :
                     \A i \in DOMAIN g : g[i] \in NormalizeSample(batch.device_id, batch.samples[i])}
  <2>1. Readings(batch) = {R(f) : f \in G}
    BY DEF Readings
  <2> HIDE DEF R, G
  <2>2. PICK f \in G : readings = R(f)
    BY <1>3, <2>1
  <2>3. /\ R(f) = [i \in 1..Len(batch.samples) |-> R(f)[i]]
        /\ \A i \in 1..Len(batch.samples) : R(f)[i].derived = FALSE
    BY DEF R
  <2> QED BY <2>2, <2>3
<1>8. /\ IsSeq(readings) /\ Len(readings) = Len(batch.samples)
      /\ \A i \in 1..Len(readings) : readings[i].derived = FALSE
  <2>1. PICK F : readings = [i \in 1..Len(batch.samples) |-> F[i]]
                 /\ \A i \in 1..Len(batch.samples) : F[i].derived = FALSE
    BY <1>7
  <2>2. Len(readings) = Len(batch.samples)
    BY <1>6, <2>1
  <2> QED BY <1>6, <2>1, <2>2 DEF IsSeq
<1>9. \A c : DOMAIN DerivedBy(event', c) = {}
  BY <1>3, <1>8 DEF DerivedBy
<1>10. EventInv'
  BY <1>1, <1>3, <1>5, <1>8, <1>9 DEF WindowInv, EventInv
<1>11. ASSUME NEW p \in Publisher, NEW j \in Averages
       PROVE  Taken(p, j)' = Taken(p, j) /\ Seen(p, j)' = Seen(p, j)
  <2>1. ~Ahead(p, j)' /\ ~Ahead(p, j)
    BY <1>1, AverageType DEF Ahead, Given
  <2> QED BY <1>1, <2>1, SeenKept
<1> QED BY <1>1, <1>10, <1>11, StreamKept DEF WindowInv

LEMMA WindowProcessorThrows ==
  ASSUME PathInv, WindowInv, ProcessorThrows
  PROVE  WindowInv'
<1> USE DEF queueVars, localVars, historyVars
<1>1. /\ worker = "process" /\ worker' = "process" /\ pos' = pos + 1
      /\ Processors[pos].kind = "other" /\ UNCHANGED <<event, windows, log>>
  BY DEF ProcessorThrows
<1>2. pos \in Nat
  BY DEF PathInv, PathType
<1>3. ASSUME NEW j \in Averages PROVE j \in Nat /\ j # pos
  BY <1>1, AverageType
<1>4. EventInv'
  <2>1. \A j \in Averages : pos' <= j => pos <= j
    BY <1>1, <1>2, <1>3
  <2> QED BY <1>1, <2>1 DEF WindowInv, EventInv
<1>5. ASSUME NEW p \in Publisher, NEW j \in Averages
      PROVE  Taken(p, j)' = Taken(p, j) /\ Seen(p, j)' = Seen(p, j)
  <2>1. j < pos' <=> j < pos
    BY <1>1, <1>2, <1>3
  <2>2. Ahead(p, j)' <=> Ahead(p, j)
    BY <1>1, <2>1 DEF Ahead
  <2> QED BY <1>1, <2>2, SeenKept
<1> QED BY <1>1, <1>4, <1>5, StreamKept DEF WindowInv

LEMMA WindowProcessed ==
  ASSUME PathInv, WindowInv, Processed
  PROVE  WindowInv'
<1> USE DEF queueVars, localVars, historyVars
<1>1. /\ worker = "process" /\ pos > Len(Processors) /\ worker' = "publish" /\ pos' = 1
      /\ UNCHANGED <<event, windows, log>>
  BY DEF Processed
<1>2. pos \in Nat
  BY DEF PathInv, PathType
<1>3. EventInv'
  BY <1>1 DEF WindowInv, EventInv
<1>4. ASSUME NEW p \in Publisher, NEW j \in Averages
      PROVE  Taken(p, j)' = Taken(p, j) /\ Seen(p, j)' = Seen(p, j)
  <2>1. j < pos
    BY <1>1, <1>2, AverageType
  <2>2. ~(p < pos')
    BY <1>1 DEF Publisher
  <2>3. Ahead(p, j)' /\ Ahead(p, j)
    BY <1>1, <2>1, <2>2 DEF Ahead, Given
  <2> QED BY <1>1, <2>3, SeenKept
<1> QED BY <1>1, <1>3, <1>4, StreamKept DEF WindowInv

LEMMA WindowPublish ==
  ASSUME PathInv, WindowInv, Publish
  PROVE  WindowInv'
<1> USE DEF queueVars, localVars, historyVars
<1>1. /\ worker = "publish" /\ worker' = "publish" /\ pos <= NP /\ pos' = pos + 1
      /\ log' = [log EXCEPT ![pos] = Append(@, event)]
      /\ UNCHANGED <<event, windows>>
  BY DEF Publish, NextPublisher
<1>2. pos \in Nat /\ pos \in Publisher /\ NP \in Nat
  BY <1>1, DataPathAssumption DEF DataPathAssumption, PathInv, PathType, WorkInv, Publisher
<1>3. EventInv'
  BY <1>1 DEF WindowInv, EventInv
<1>4. ASSUME NEW p \in Publisher, NEW j \in Averages
      PROVE  Taken(p, j)' = Taken(p, j) /\ Seen(p, j)' = Seen(p, j)
  <2>1. DOMAIN log = Publisher /\ IsSeq(log[p]) /\ Len(log[p]) \in Nat
    BY TakenType DEF PathInv, PathType
  <2>2. CASE p = pos
    <3> DEFINE s == log[p]
    <3>1. log'[p] = Append(s, event)
      BY <1>1, <2>1, <2>2
    <3>2. /\ Len(Append(s, event)) = Len(s) + 1
          /\ \A i \in 1..Len(s) : Append(s, event)[i] = s[i]
          /\ Append(s, event)[Len(s) + 1] = event
      BY <2>1, AppendLemma
    <3>3. Ahead(p, j) /\ ~Ahead(p, j)'
      BY <1>1, <1>2, <2>2 DEF Ahead, Given
    <3>4. Taken(p, j) = Len(s) + 1
      BY <3>3 DEF Taken
    <3>5. Taken(p, j)' = Len(log'[p]) /\ Len(log'[p]) = Len(s) + 1
      BY <2>1, <3>1, <3>2, <3>3 DEF Taken
    <3>6. \A k \in 1..(Len(s) + 1) :
            log'[p][k] = IF k <= Len(s) THEN s[k] ELSE event
      <4> SUFFICES ASSUME NEW k \in 1..(Len(s) + 1)
                   PROVE  log'[p][k] = IF k <= Len(s) THEN s[k] ELSE event
        OBVIOUS
      <4>1. k \in 1..Len(s) \/ (k = Len(s) + 1 /\ ~(k <= Len(s)))
        BY <2>1
      <4> QED BY <3>1, <3>2, <4>1
    <3>7. \A k \in 1..(Len(s) + 1) : k <= Len(log'[p])
      BY <2>1, <3>5
    <3>8. Seen(p, j)' = [k \in 1..(Len(s) + 1) |-> log'[p][k]]
      BY <3>5, <3>7 DEF Seen
    <3>9. Seen(p, j) = [k \in 1..(Len(s) + 1) |-> IF k <= Len(s) THEN s[k] ELSE event]
      BY <3>4 DEF Seen
    <3> QED BY <3>4, <3>5, <3>6, <3>8, <3>9
  <2>3. CASE p # pos
    <3>1. log'[p] = log[p]
      BY <1>1, <2>1, <2>3
    <3>2. p < pos' <=> p < pos
      BY <1>1, <1>2, <2>3 DEF Publisher
    <3>3. Ahead(p, j)' <=> Ahead(p, j)
      BY <1>1, <3>2 DEF Ahead, Given
    <3> QED BY <1>1, <3>1, <3>3, SeenKept
  <2> QED BY <2>2, <2>3
<1> QED BY <1>1, <1>3, <1>4, StreamKept DEF WindowInv

LEMMA WindowPublished ==
  ASSUME PathInv, WindowInv, Published
  PROVE  WindowInv'
<1> USE DEF queueVars, localVars, historyVars
<1>1. /\ worker = "publish" /\ worker' = "check" /\ pos > NP
      /\ UNCHANGED <<windows, log>>
  BY DEF Published
<1>2. pos \in Nat /\ NP \in Nat
  BY DataPathAssumption DEF DataPathAssumption, PathInv, PathType
<1>3. EventInv'
  BY <1>1 DEF WindowInv, EventInv
<1>4. ASSUME NEW p \in Publisher, NEW j \in Averages
      PROVE  Taken(p, j)' = Taken(p, j) /\ Seen(p, j)' = Seen(p, j)
  <2>1. p < pos
    BY <1>1, <1>2 DEF Publisher
  <2>2. ~Ahead(p, j)' /\ ~Ahead(p, j)
    BY <1>1, <2>1 DEF Ahead, Given
  <2> QED BY <1>1, <2>2, SeenKept
<1> QED BY <1>1, <1>3, <1>4, StreamKept DEF WindowInv

(* What a step of the loop of process() does to the event, for a processor *)
(* c: nothing that c sees, unless it writes a point of c.                  *)
LEMMA RunAlike ==
  ASSUME PathInv, EventInv, RunProcessor, NEW c
  PROVE  LET c0 == Processors[pos]
             w0 == NextWindows(c0, event, windows[pos])
             A  == Appended(c0, event, w0)
         IN /\ event'.device_id = event.device_id /\ IsSeq(event'.readings)
            /\ A = <<>> \/ c0.kind = "other" \/ c0.output # c.input =>
                 Inputs(event', c.input) = Inputs(event, c.input)
            /\ A = <<>> \/ c0.kind = "other" \/ c0.output # c.output =>
                 DerivedBy(event', c) = DerivedBy(event, c)
            /\ \A v : A = <<DerivedReading(c.output, v)>> /\ DOMAIN DerivedBy(event, c) = {} =>
                 \E i : DOMAIN DerivedBy(event', c) = {i}
                        /\ DerivedBy(event', c)[i] = DerivedReading(c.output, v)
<1> DEFINE c0 == Processors[pos]
           w0 == NextWindows(c0, event, windows[pos])
           A  == Appended(c0, event, w0)
           e  == event
           f  == event'
<1>1. /\ worker = "process" /\ f = [e EXCEPT !.readings = @ \o A]
  BY DEF RunProcessor
<1>2. DOMAIN e = {"source", "device_id", "readings"} /\ IsSeq(e.readings)
  BY <1>1 DEF PathInv, PathType, EventInv
<1>3. f.device_id = e.device_id /\ f.readings = e.readings \o A
  BY <1>1, <1>2
<1>4. ASSUME A = <<>>
      PROVE  /\ IsSeq(f.readings) /\ Inputs(f, c.input) = Inputs(e, c.input)
             /\ DerivedBy(f, c) = DerivedBy(e, c)
  <2> DEFINE F(r) == {r[i] : i \in {j \in {x \in 1..Len(r) : r[x].point = c.input} :
                                     \A k \in {x \in 1..Len(r) : r[x].point = c.input} : j <= k}}
             D(r) == [i \in {x \in 1..Len(r) : r[x].derived /\ r[x].point = c.output} |-> r[i]]
  <2>1. f.readings = e.readings
    BY <1>2, <1>3, <1>4, ConcatLemma
  <2>2. FindReading(f, c.input) = F(f.readings) /\ FindReading(e, c.input) = F(e.readings)
    BY Zenon DEF FindReading
  <2>3. DerivedBy(f, c) = D(f.readings) /\ DerivedBy(e, c) = D(e.readings)
    BY Zenon DEF DerivedBy
  <2> HIDE DEF F, D, e, f
  <2>4. FindReading(f, c.input) = FindReading(e, c.input)
    BY <2>1, <2>2, Zenon
  <2>5. Inputs(f, c.input) = Inputs(e, c.input)
    BY <2>4, Zenon DEF Inputs
  <2>6. DerivedBy(f, c) = DerivedBy(e, c)
    BY <2>1, <2>3, Zenon
  <2> QED BY <1>2, <2>1, <2>5, <2>6
<1>5. A = <<>> \/ (c0.kind # "other" /\ \E v : A = <<DerivedReading(c0.output, v)>>)
  <2> HIDE DEF w0, c0, e
  <2>1. Threshold(c0, e) = <<>> \/ \E v : Threshold(c0, e) = <<DerivedReading(c0.output, v)>>
    BY Zenon DEF Threshold
  <2>2. Inference(c0, e) = <<>> \/ \E v : Inference(c0, e) = <<DerivedReading(c0.output, v)>>
    BY Zenon DEF Inference
  <2>3. \A x : WindowAverage(c0, e, x) = <<>>
               \/ \E v : WindowAverage(c0, e, x) = <<DerivedReading(c0.output, v)>>
    BY Zenon DEF WindowAverage
  <2>4. A = Appended(c0, e, w0)
    BY DEF e
  <2>5. CASE c0.kind = "threshold"
    <3>1. A = Threshold(c0, e)
      BY <2>4, <2>5 DEF Appended
    <3> QED BY <2>1, <2>5, <3>1
  <2>6. CASE c0.kind = "inference"
    <3>1. A = Inference(c0, e)
      BY <2>4, <2>6 DEF Appended
    <3> QED BY <2>2, <2>6, <3>1
  <2>7. CASE c0.kind = "window_average"
    <3>1. A = WindowAverage(c0, e, WindowOf(w0, e.device_id))
      BY <2>4, <2>7 DEF Appended
    <3> QED BY <2>3, <2>7, <3>1
  <2>8. CASE c0.kind \notin {"threshold", "inference", "window_average"}
    BY <2>4, <2>8 DEF Appended
  <2> QED BY <2>5, <2>6, <2>7, <2>8
<1> HIDE DEF A, e, f, c0
<1>6. ASSUME NEW o, NEW v, A = <<DerivedReading(o, v)>>
      PROVE  Adds(e, f, o, v, c)
  <2>1. f.readings = e.readings \o <<DerivedReading(o, v)>>
    BY <1>3, <1>6
  <2> QED BY <1>2, <2>1, AddReading
<1>7. IsSeq(f.readings)
  BY <1>4, <1>5, <1>6 DEF Adds
<1>8. A = <<>> \/ c0.kind = "other" \/ c0.output # c.input => Inputs(f, c.input) = Inputs(e, c.input)
  BY <1>4, <1>5, <1>6, Zenon DEF Adds
<1>9. A = <<>> \/ c0.kind = "other" \/ c0.output # c.output => DerivedBy(f, c) = DerivedBy(e, c)
  BY <1>4, <1>5, <1>6, Zenon DEF Adds
<1>10. \A v : A = <<DerivedReading(c.output, v)>> /\ DOMAIN DerivedBy(e, c) = {} =>
               \E i : DOMAIN DerivedBy(f, c) = {i} /\ DerivedBy(f, c)[i] = DerivedReading(c.output, v)
  BY <1>6, Zenon DEF Adds
<1> QED BY <1>3, <1>7, <1>8, <1>9, <1>10, Zenon DEF A, c0, w0, e, f

LEMMA WindowRun ==
  ASSUME PathInv, WindowInv, RunProcessor
  PROVE  WindowInv'
<1> USE DEF queueVars, localVars, historyVars
<1> DEFINE c0 == Processors[pos]
           w0 == NextWindows(c0, event, windows[pos])
           A  == Appended(c0, event, w0)
<1>1. /\ worker = "process" /\ worker' = "process" /\ pos' = pos + 1
      /\ pos <= Len(Processors) /\ log' = log
      /\ windows' = [windows EXCEPT ![pos] = w0]
  BY DEF RunProcessor
<1>2. pos \in Nat /\ pos >= 1
  BY <1>1 DEF PathInv, PathType, WorkInv
<1>3. Processors \in Seq(Processor) /\ Len(Processors) \in Nat /\ DOMAIN Processors = 1..Len(Processors)
  BY DataPathAssumption DEF DataPathAssumption
<1>4. pos \in DOMAIN Processors
  BY <1>1, <1>2, <1>3
<1>5. EventInv /\ StreamInv /\ DOMAIN windows = DOMAIN Processors
  BY DEF WindowInv, EventInv
<1>6. /\ windows'[pos] = w0 /\ \A j \in DOMAIN Processors : j # pos => windows'[j] = windows[j]
      /\ DOMAIN windows' = DOMAIN Processors
  BY <1>1, <1>4, <1>5
<1> HIDE DEF w0, A
<1>7. ASSUME NEW j \in Averages
      PROVE  /\ j \in Nat /\ j \in DOMAIN Processors
             /\ j # pos => DerivedBy(event', Processors[j]) = DerivedBy(event, Processors[j])
             /\ j <= pos => Inputs(event', Processors[j].input) = Inputs(event, Processors[j].input)
  <2>1. OwnNames(j) /\ j \in Nat /\ j \in DOMAIN Processors
    BY AverageType DEF Averages
  <2>2. c0.kind = "other" \/ j = pos \/ c0.output # Processors[j].output
    BY <1>4, <2>1 DEF OwnNames
  <2>3. c0.kind = "other" \/ ~(j <= pos) \/ c0.output # Processors[j].input
    BY <1>2, <1>4, <2>1 DEF OwnNames
  <2> HIDE DEF c0
  <2>4. /\ c0.kind = "other" \/ c0.output # Processors[j].input =>
             Inputs(event', Processors[j].input) = Inputs(event, Processors[j].input)
        /\ c0.kind = "other" \/ c0.output # Processors[j].output =>
             DerivedBy(event', Processors[j]) = DerivedBy(event, Processors[j])
    BY <1>5, RunAlike, Zenon DEF c0
  <2> QED BY <2>1, <2>2, <2>3, <2>4
<1>8. event'.device_id = event.device_id /\ IsSeq(event'.readings)
  BY <1>5, RunAlike, Zenon
<1>9. EventInv'
  <2>1. event.device_id \in DeviceId
    BY <1>1, <1>5 DEF EventInv
  <2>2. ASSUME NEW j \in Averages, pos' <= j PROVE DOMAIN DerivedBy(event', Processors[j]) = {}
    <3>1. j # pos /\ pos <= j
      BY <1>1, <1>2, <1>7, <2>2
    <3>2. DOMAIN DerivedBy(event, Processors[j]) = {}
      BY <1>1, <1>5, <3>1 DEF EventInv
    <3> QED BY <1>7, <3>1, <3>2
  <2> QED BY <1>6, <1>8, <2>1, <2>2 DEF EventInv
<1>10. ASSUME NEW p \in Publisher, NEW j \in Averages
       PROVE  Follows(Seen(p, j)', Taken(p, j)', Processors[j], windows'[j])
  <2> DEFINE n == Len(log[p])
             es == Seen(p, j)
             fs == Seen(p, j)'
             c == Processors[j]
  <2>1. Follows(es, Taken(p, j), c, windows[j])
    BY <1>5 DEF StreamInv
  <2>2. n \in Nat
    BY TakenType
  <2>3. Ahead(p, j) <=> j < pos
    BY <1>1 DEF Ahead
  <2>4. Ahead(p, j)' <=> j < pos + 1
    BY <1>1 DEF Ahead
  <2>5. j \in Nat /\ j \in DOMAIN Processors
    BY <1>7
  <2>6. CASE j > pos
    <3>1. ~Ahead(p, j) /\ ~Ahead(p, j)' /\ j # pos
      BY <1>2, <2>3, <2>4, <2>5, <2>6
    <3>2. Taken(p, j)' = Taken(p, j) /\ Seen(p, j)' = Seen(p, j)
      BY <1>1, <3>1, SeenKept
    <3>3. windows'[j] = windows[j]
      BY <1>6, <2>5, <3>1
    <3> QED BY <2>1, <3>2, <3>3, Zenon
  <2>7. CASE j < pos
    <3>1. Ahead(p, j) /\ Ahead(p, j)' /\ j # pos /\ j <= pos
      BY <1>2, <2>3, <2>4, <2>5, <2>7
    <3>2. Taken(p, j) = n + 1 /\ Taken(p, j)' = n + 1
      BY <1>1, <3>1, Zenon DEF Taken
    <3>3. /\ es = [k \in 1..(n + 1) |-> IF k <= n THEN log[p][k] ELSE event]
          /\ fs = [k \in 1..(n + 1) |-> IF k <= n THEN log[p][k] ELSE event']
      BY <1>1, <3>2, Zenon DEF Seen
    <3>4. windows'[j] = windows[j]
      BY <1>6, <2>5, <3>1
    <3>5. Alike(event, event', c)
      BY <1>7, <1>8, <3>1 DEF Alike
    <3> HIDE DEF c
    <3>6. \A x : Alike(x, x, c)
      BY DEF Alike
    <3> HIDE DEF es, fs, n
    <3>7. /\ n + 1 \in Nat /\ DOMAIN es = 1..(n + 1) /\ DOMAIN fs = 1..(n + 1)
      BY <2>2, <3>3
    <3>8. ASSUME NEW i \in 1..(n + 1) PROVE Alike(es[i], fs[i], c)
      <4>1. CASE i <= n
        <5>1. es[i] = log[p][i] /\ fs[i] = log[p][i]
          BY <3>3, <4>1
        <5> QED BY <3>6, <5>1
      <4>2. CASE ~(i <= n)
        <5>1. es[i] = event /\ fs[i] = event'
          BY <3>3, <4>2
        <5> QED BY <3>5, <5>1
      <4> QED BY <4>1, <4>2
    <3>9. Follows(es, n + 1, c, windows[j])
      BY <2>1, <3>2
    <3>10. Follows(fs, n + 1, c, windows[j])
      BY <3>7, <3>8, <3>9, FollowsAlike
    <3> QED BY <3>2, <3>4, <3>10 DEF fs, c
  <2>8. CASE j = pos
    <3>1. ~Ahead(p, j) /\ Ahead(p, j)' /\ j <= pos /\ pos <= j
      BY <1>2, <2>3, <2>4, <2>5, <2>8
    <3>2. Taken(p, j) = n /\ Taken(p, j)' = n + 1
      <4>1. Taken(p, j) = n + 0
        BY <3>1, Zenon DEF Taken
      <4>2. Taken(p, j)' = n + 1
        BY <1>1, <3>1, Zenon DEF Taken
      <4> QED BY <2>2, <4>1, <4>2
    <3>3. /\ es = [k \in 1..n |-> IF k <= n THEN log[p][k] ELSE event]
          /\ fs = [k \in 1..(n + 1) |-> IF k <= n THEN log[p][k] ELSE event']
      BY <1>1, <3>2, Zenon DEF Seen
    <3>4. c.kind = "window_average" /\ c.window \in Nat \ {0}
      BY AverageType
    <3>5. Inputs(event', c.input) = Inputs(event, c.input)
      BY <1>7, <3>1
    <3>6. event.device_id \in DeviceId /\ DOMAIN DerivedBy(event, c) = {}
      BY <1>1, <1>5, <3>1 DEF EventInv
    <3> DEFINE values == WindowOf(NextWindows(c, event, windows[j]), event.device_id)
    <3>7. c0 = c /\ w0 = NextWindows(c, event, windows[j])
      BY <2>8 DEF w0
    <3>8. A = WindowAverage(c, event, values)
      <4>1. A = Appended(c, event, NextWindows(c, event, windows[j]))
        BY <3>7 DEF A
      <4> HIDE DEF c
      <4> QED BY <3>4, <4>1 DEF Appended
    <3>9. /\ A = <<>> => DerivedBy(event', c) = DerivedBy(event, c)
          /\ \A v : A = <<DerivedReading(c.output, v)>> /\ DOMAIN DerivedBy(event, c) = {} =>
               \E i : DOMAIN DerivedBy(event', c) = {i}
                      /\ DerivedBy(event', c)[i] = DerivedReading(c.output, v)
      BY <1>5, RunAlike, Zenon DEF A, w0
    <3> HIDE DEF es, fs, n, c, c0
    <3>10. IF Inputs(event, c.input) = {} \/ Len(values) # c.window
           THEN DOMAIN DerivedBy(event', c) = {}
           ELSE \E i : /\ DOMAIN DerivedBy(event', c) = {i}
                       /\ DerivedBy(event', c)[i] = DerivedReading(c.output, DoubleScalar(Average(values)))
      <4> HIDE DEF values
      <4> QED BY <3>6, <3>8, <3>9, Zenon DEF WindowAverage
    <3>11. DOMAIN es = 1..n /\ DOMAIN fs = 1..(n + 1)
      BY <3>3
    <3>12. \A i \in 1..n : fs[i] = es[i]
      BY <2>2, <3>3
    <3>13. fs[n + 1] = event'
      BY <2>2, <3>3
    <3>14. Follows(es, n, c, windows[j])
      BY <2>1, <3>2
    <3>15. Follows(fs, n + 1, c, NextWindows(c, event, windows[j]))
      BY <1>8, <2>2, <3>4, <3>5, <3>6, <3>10, <3>11, <3>12, <3>13, <3>14, FollowsNext
    <3>16. windows'[j] = NextWindows(c, event, windows[j])
      BY <1>6, <2>8, <3>7
    <3> QED BY <3>2, <3>15, <3>16 DEF fs, c
  <2>9. j > pos \/ j < pos \/ j = pos
    BY <1>2, <2>5
  <2> QED BY <2>6, <2>7, <2>8, <2>9
<1> QED BY <1>9, <1>10 DEF WindowInv, StreamInv

(* What a window-average processor reports is the average of the last      *)
(* window Good values that the published stream holds for that device, and *)
(* it reports whenever there are that many: for any processors in any      *)
(* order, any window sizes, any devices and any number of publishers, and  *)
(* whatever is thrown between two batches, as long as no other processor   *)
(* uses its names (WindowAverageProcessor::process).                       *)
THEOREM WindowsAreExact == Spec => []WindowExact
<1>1. PathInv /\ SampleInv /\ WindowInv /\ [Next]_vars => WindowInv'
  <2> SUFFICES ASSUME PathInv, SampleInv, WindowInv, [Next]_vars PROVE WindowInv'
    OBVIOUS
  <2>1. CASE \/ \E b \in Batches : Produce(b)
             \/ Close \/ CloseNotify \/ SpuriousWakeup \/ WaitPop \/ NormalizeThrows
             \/ Terminated \/ UNCHANGED vars
    BY <2>1, WindowQuiet
  <2>2. CASE Normalize
    BY <2>2, WindowNormalize
  <2>3. CASE RunProcessor
    BY <2>3, WindowRun
  <2>4. CASE ProcessorThrows
    BY <2>4, WindowProcessorThrows
  <2>5. CASE Processed
    BY <2>5, WindowProcessed
  <2>6. CASE Publish
    BY <2>6, WindowPublish
  <2>7. CASE Published
    BY <2>7, WindowPublished
  <2> QED BY <2>1, <2>2, <2>3, <2>4, <2>5, <2>6, <2>7 DEF Next, WorkerStep
<1>2. PathInv /\ WindowInv => WindowExact
  <2> SUFFICES ASSUME PathInv, WindowInv, NEW p \in Publisher, NEW j \in Averages,
                      NEW k \in 1..Len(log[p])
               PROVE  WindowExactAt(log[p], k, Processors[j])
    BY DEF WindowExact, Averages
  <2> DEFINE c == Processors[j]
             es == Seen(p, j)
             s == log[p]
             n == Taken(p, j)
  <2>1. Follows(es, n, c, windows[j])
    BY DEF WindowInv, StreamInv
  <2>2. Len(s) \in Nat /\ n \in Nat
    BY TakenType
  <2>3. n = Len(s) + 1 \/ n = Len(s) + 0
    BY Zenon DEF Taken
  <2>4. k \in 1..n /\ k \in Nat \ {0}
    <3> HIDE DEF n, s
    <3> QED BY <2>2, <2>3 DEF s
  <2>5. WindowExactAt(es, k, c)
    BY <2>1, <2>4 DEF Follows
  <2>6. \A i \in 1..k : i \in 1..n /\ i <= Len(s)
    <3> HIDE DEF n
    <3> QED BY <2>2, <2>4
  <2>7. \A i \in 1..k : es[i] = s[i]
    BY <2>6 DEF Seen
  <2>8. \A i \in 1..k : Alike(es[i], s[i], c)
    BY <2>7 DEF Alike
  <2> HIDE DEF es, c, s, n
  <2>9. WindowExactAt(s, k, c)
    BY <2>4, <2>5, <2>8, ExactAlike
  <2> QED BY <2>9 DEF s, c
<1> QED BY <1>1, <1>2, WindowInitially, PathInvariant, SampleInvariant, PTL DEF Spec

(* No wakeup of the worker is lost: it is awake as long as a batch is      *)
(* queued, and asleep on a closed queue only until close() notifies.  This *)
(* is the safety part of WorkerProgress (try_push, wait_pop, close).       *)
THEOREM WorkerSleepsOnlyWhenIdle == Spec => []WorkerIsWoken
<1> DEFINE I == WorkerIsWoken /\ (closing = "no" => ~closed)
<1>1. Init => I
  BY DEF Init, WorkerIsWoken
<1>2. I /\ [Next]_vars => I'
  <2> SUFFICES ASSUME I, [Next]_vars PROVE I'
    OBVIOUS
  <2> USE DEF WorkerIsWoken, queueVars, localVars, historyVars
  <2>1. ASSUME NEW b \in Batches, Produce(b) PROVE I'
    <3>1. /\ UNCHANGED <<closed, closing>>
          /\ worker' # "asleep" \/ UNCHANGED <<queue, worker>>
      BY <2>1 DEF Produce, TryPush, NotifyWorker
    <3> QED BY <3>1
  <2>2. CASE Close
    BY <2>2 DEF Close
  <2>3. CASE CloseNotify
    <3>1. worker' # "asleep" /\ closing' = "done"
      BY <2>3 DEF CloseNotify, NotifyWorker
    <3> QED BY <3>1
  <2>4. CASE WaitPop
    BY <2>4 DEF WaitPop
  <2>5. CASE \/ Normalize \/ NormalizeThrows \/ RunProcessor \/ ProcessorThrows
             \/ Processed \/ Publish \/ Published \/ SpuriousWakeup
    <3>1. worker' # "asleep" /\ UNCHANGED <<closed, closing>>
      BY <2>5 DEF Normalize, NormalizeThrows, RunProcessor, ProcessorThrows,
                  Processed, Publish, Published, SpuriousWakeup
    <3> QED BY <3>1
  <2>6. CASE Terminated \/ UNCHANGED vars
    BY <2>6 DEF Terminated, vars
  <2> QED BY <2>1, <2>2, <2>3, <2>4, <2>5, <2>6 DEF Next, WorkerStep
<1>3. I => WorkerIsWoken
  OBVIOUS
<1> QED BY <1>1, <1>2, <1>3, PTL DEF Spec
=============================================================================
