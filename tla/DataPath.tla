------------------------------- MODULE DataPath -------------------------------
(***************************************************************************)
(* The path of the data, from the producers of raw batches to the          *)
(* publishers: BoundedQueue (src/include/gateway/bounded_queue.hpp),       *)
(* Normalizer::normalize, ProcessingPipeline::process with the built-in    *)
(* processors, and process_batches() and publish_event() of                *)
(* src/src/core/runtime.cpp.  Producers are the sinks of push drivers and  *)
(* poll_group(); one worker thread does all the rest.                      *)
(*                                                                         *)
(* A batch or event is named in its source field by when it was produced.  *)
(* Timestamps, units and addresses are left out.  The quotients and roots  *)
(* of the processors are rounded down to half units.                       *)
(***************************************************************************)
EXTENDS Normalizer, Sequences, SequencesExt

CONSTANTS
  Points,        \* configured points: device -> name -> configuration
  Batches,       \* device and samples of the batches the producers deliver
  Processors,    \* the configured processors, in order
  NP,            \* number of publishers
  Capacity,      \* raw_queue_capacity
  MaxBatches     \* bound on the number of batches

Publisher == 1..NP
Device == DOMAIN Points

RawSample == [point: STRING, value: Scalar, status: Quality]

(* A configured processor; "other" is one of a plugin that may throw *)
Processor ==
  [kind: {"threshold"}, input: STRING, greater_than: Int, output: STRING]
    \cup [kind: {"window_average"}, input: STRING, window: Nat \ {0}, output: STRING]
    \cup [kind: {"inference"}, inputs: Seq(STRING), output: STRING]
    \cup [kind: {"other"}]

ASSUME DataPathAssumption ==
  /\ \A d \in Device : \A n \in DOMAIN Points[d] : Points[d][n] \in PointConfig
  /\ \A b \in Batches : b.samples \in Seq(RawSample)
  /\ Processors \in Seq(Processor)
  /\ NP \in Nat /\ Capacity \in Nat \ {0} /\ MaxBatches \in Nat

VARIABLES
  queue, closed, qstats,     \* BoundedQueue
  producing, closing,        \* batches produced so far; where close() is
  worker, batch, event, pos, \* process_batches(), its locals and loop index
  sequence,                  \* event_sequence_ of the normalizer
  windows,                   \* windows_ of each processor
  stats,                     \* counters of normalizer, pipeline and runtime
  dropped, log               \* history: batches lost to exceptions; what each
                             \* publisher was given

queueVars   == <<queue, closed, qstats>>
localVars   == <<batch, event, pos>>
historyVars == <<dropped, log>>
vars == <<queueVars, producing, closing, worker, localVars, sequence, windows,
          stats, historyVars>>

NoEvent == [source |-> 0, device_id |-> "", readings |-> <<>>]

Outcome == {"accepted", "unavailable", "rejected", "errors"}
StatName == {"batches", "readings", "bad_readings", "events",
             "processor_errors", "delivered", "attempts"} \cup Outcome

Init ==
  /\ queue = <<>> /\ closed = FALSE
  /\ qstats = [accepted |-> 0, rejected_full |-> 0]
  /\ producing = 0 /\ closing = "no"
  /\ worker = "check"
  /\ batch = NoEvent /\ event = NoEvent /\ pos = 0
  /\ sequence = 0
  /\ windows = [p \in DOMAIN Processors |-> [d \in {} |-> <<>>]]
  /\ stats = [k \in StatName |-> 0]
  /\ dropped = {}
  /\ log = [p \in Publisher |-> <<>>]

Bump(k) == stats' = [stats EXCEPT ![k] = @ + 1]

-----------------------------------------------------------------------------
(* The queue *)

(* Mutant: the queue changes and the worker is not notified *)
NoNotify == worker' = worker

NotifyWorker == worker' = IF worker = "asleep" THEN "check" ELSE worker

(* Mutant: the newest batch goes to the front *)
EnqueueFront(b) == queue' = <<b>> \o queue

Enqueue(b) == queue' = Append(queue, b)

TryPush(b) ==
  \/ /\ closed
     /\ UNCHANGED <<queue, qstats, worker>>
  \/ /\ ~closed /\ Len(queue) >= Capacity
     /\ qstats' = [qstats EXCEPT !.rejected_full = @ + 1]
     /\ UNCHANGED <<queue, worker>>
  \/ /\ ~closed /\ Len(queue) < Capacity
     /\ Enqueue(b)
     /\ qstats' = [qstats EXCEPT !.accepted = @ + 1]
     /\ NotifyWorker

Produce(b) ==
  /\ producing < MaxBatches
  /\ producing' = producing + 1
  /\ TryPush([source |-> producing', device_id |-> b.device_id, samples |-> b.samples])
  /\ UNCHANGED <<closed, closing, localVars, sequence, windows, stats, historyVars>>

(* close() notifies after it has released the mutex *)
Close ==
  /\ closing = "no"
  /\ closed' = TRUE
  /\ closing' = "notify"
  /\ UNCHANGED <<queue, qstats, producing, worker, localVars, sequence,
                 windows, stats, historyVars>>

CloseNotify ==
  /\ closing = "notify"
  /\ NotifyWorker
  /\ closing' = "done"
  /\ UNCHANGED <<queueVars, producing, localVars, sequence, windows, stats,
                 historyVars>>

WaitPop ==
  /\ worker = "check"
  /\ IF queue # <<>>
     THEN /\ batch' = Head(queue)
          /\ queue' = Tail(queue)
          /\ worker' = "normalize"
     ELSE /\ worker' = IF closed THEN "exited" ELSE "asleep"
          /\ UNCHANGED <<batch, queue>>
  /\ UNCHANGED <<closed, qstats, producing, closing, event, pos, sequence,
                 windows, stats, historyVars>>

SpuriousWakeup ==
  /\ worker = "asleep"
  /\ worker' = "check"
  /\ UNCHANGED <<queueVars, producing, closing, localVars, sequence, windows,
                 stats, historyVars>>

-----------------------------------------------------------------------------
(* normalize() *)

(* The possible results for a sample: a device or point that is not        *)
(* configured makes it Bad                                                 *)
NormalizeSample(d, s) ==
  IF d \in Device /\ s.point \in DOMAIN Points[d]
  THEN ConvertValue(s.value, Points[d][s.point], s.status)
  ELSE {Result(s.value, "Bad")}

(* The possible readings of the event *)
Readings(b) ==
  {[i \in 1..Len(b.samples) |->
      [point |-> b.samples[i].point, value |-> f[i].value,
       quality |-> f[i].quality, derived |-> FALSE]] :
     f \in {g \in [1..Len(b.samples) ->
                     UNION {NormalizeSample(b.device_id, b.samples[i]) :
                              i \in 1..Len(b.samples)}] :
              \A i \in DOMAIN g : g[i] \in NormalizeSample(b.device_id, b.samples[i])}}

Normalize ==
  /\ worker = "normalize"
  /\ sequence' = sequence + 1
  /\ \E readings \in Readings(batch) :
       /\ event' = [source |-> batch.source, device_id |-> batch.device_id,
                    readings |-> readings]
       /\ stats' = [stats EXCEPT
                      !["batches"] = @ + 1,
                      !["readings"] = @ + Len(readings),
                      !["bad_readings"] = @ + Len(SelectSeq(readings,
                                                LAMBDA r : r.quality # "Good"))]
  /\ worker' = "process"
  /\ pos' = 1
  /\ UNCHANGED <<queueVars, producing, closing, batch, windows, historyVars>>

(* Building the event throws, after its number was taken and before its    *)
(* first reading; process_batches goes on to the next batch                *)
NormalizeThrows ==
  /\ worker = "normalize"
  /\ sequence' = sequence + 1
  /\ worker' = "check"
  /\ dropped' = dropped \cup {batch.source}
  /\ UNCHANGED <<queueVars, producing, closing, localVars, windows, stats, log>>

-----------------------------------------------------------------------------
(* The processors *)

(* find_reading(): the first reading of that name, as a set *)
FindReading(e, point) ==
  LET at == {i \in 1..Len(e.readings) : e.readings[i].point = point}
  IN {e.readings[i] : i \in {j \in at : \A k \in at : j <= k}}

(* The number a processor works on, if the reading exists, is Good and is  *)
(* numeric                                                                 *)
Inputs(e, point) ==
  {NumericValue(r.value) : r \in {x \in FindReading(e, point) : x.quality = "Good"}}
    \ {Special("none")}

Input(e, point) == CHOOSE x \in Inputs(e, point) : TRUE

DerivedReading(point, v) ==
  [point |-> point, value |-> v, quality |-> "Good", derived |-> TRUE]

Add(x, y) ==
  IF Finite(x) /\ Finite(y) THEN ToDouble(x.h + y.h)
  ELSE IF Finite(x) THEN y
  ELSE IF Finite(y) \/ x = y THEN x
  ELSE Special("nan")

Square(x) == IF Finite(x) THEN x.h * x.h ELSE 0

Average(values) ==
  LET sum == FoldLeft(Add, Num(0), values)
  IN IF Finite(sum) THEN Num(sum.h \div Len(values)) ELSE sum

(* The square root of the mean of the squares, in half units *)
Rms(values) ==
  LET sum == FoldLeft(LAMBDA acc, x : acc + Square(x), 0, values)
      n   == Len(values)
  IN IF \E i \in 1..n : values[i].class = "nan" THEN Special("nan")
     ELSE IF \E i \in 1..n : ~Finite(values[i]) THEN Special("inf")
     ELSE Num(CHOOSE k \in 0..sum : k * k * n <= sum /\ sum < (k + 1) * (k + 1) * n)

(* What a processor appends to the event, as a sequence *)
Threshold(c, e) ==
  IF Inputs(e, c.input) = {} THEN <<>>
  ELSE <<DerivedReading(c.output, BooleanScalar(Greater(Input(e, c.input), c.greater_than)))>>

Inference(c, e) ==
  IF \E i \in 1..Len(c.inputs) : Inputs(e, c.inputs[i]) = {} THEN <<>>
  ELSE LET values == [i \in 1..Len(c.inputs) |-> Input(e, c.inputs[i])]
       IN <<DerivedReading(c.output, DoubleScalar(Rms(values)))>>

(* Mutant: the average of a window that is not full yet is reported *)
WindowAveragePartial(c, e, values) ==
  IF Inputs(e, c.input) = {} THEN <<>>
  ELSE <<DerivedReading(c.output, DoubleScalar(Average(values)))>>

WindowAverage(c, e, values) ==
  IF Inputs(e, c.input) = {} \/ Len(values) # c.window THEN <<>>
  ELSE <<DerivedReading(c.output, DoubleScalar(Average(values)))>>

(* windows_[device_id] before the value is added; empty at first use *)
WindowOf(w, d) == IF d \in DOMAIN w THEN w[d] ELSE <<>>

(* push_back, and pop_front while there are too many *)
PushWindow(c, values, x) ==
  LET longer == Append(values, x)
      excess == Len(longer) - c.window
  IN SubSeq(longer, IF excess > 0 THEN excess + 1 ELSE 1, Len(longer))

(* windows_ after WindowAverageProcessor::process *)
NextWindows(c, e, w) ==
  IF c.kind # "window_average" \/ Inputs(e, c.input) = {} THEN w
  ELSE [d \in DOMAIN w \cup {e.device_id} |->
          IF d = e.device_id THEN PushWindow(c, WindowOf(w, d), Input(e, c.input)) ELSE w[d]]

Appended(c, e, w) ==
  CASE c.kind = "threshold" -> Threshold(c, e)
    [] c.kind = "inference" -> Inference(c, e)
    [] c.kind = "window_average" -> WindowAverage(c, e, WindowOf(w, e.device_id))
    [] OTHER -> <<>>

(* One iteration of the loop of process() *)
RunProcessor ==
  /\ worker = "process"
  /\ pos <= Len(Processors)
  /\ LET c == Processors[pos]
         w == NextWindows(c, event, windows[pos])
     IN /\ windows' = [windows EXCEPT ![pos] = w]
        /\ event' = [event EXCEPT !.readings = @ \o Appended(c, event, w)]
  /\ pos' = pos + 1
  /\ UNCHANGED <<queueVars, producing, closing, worker, batch, sequence, stats,
                 historyVars>>

(* A processor of another plugin throws *)
ProcessorThrows ==
  /\ worker = "process"
  /\ pos <= Len(Processors)
  /\ Processors[pos].kind = "other"
  /\ Bump("processor_errors")
  /\ pos' = pos + 1
  /\ UNCHANGED <<queueVars, producing, closing, worker, batch, event, sequence,
                 windows, historyVars>>

Processed ==
  /\ worker = "process"
  /\ pos > Len(Processors)
  /\ stats' = [stats EXCEPT !["events"] = @ + 1, !["delivered"] = @ + 1]
  /\ worker' = "publish"
  /\ pos' = 1
  /\ UNCHANGED <<queueVars, producing, closing, batch, event, sequence,
                 windows, historyVars>>

-----------------------------------------------------------------------------
(* publish_event(): each publisher answers or throws *)

(* Mutant: a publisher that throws ends the loop *)
NextPublisherUnless(outcome) == IF outcome = "errors" THEN NP + 1 ELSE pos + 1

NextPublisher(outcome) == pos + 1

Publish ==
  /\ worker = "publish"
  /\ pos <= NP
  /\ \E outcome \in Outcome :
       /\ stats' = [stats EXCEPT !["attempts"] = @ + 1, ![outcome] = @ + 1]
       /\ pos' = NextPublisher(outcome)
  /\ log' = [log EXCEPT ![pos] = Append(@, event)]
  /\ UNCHANGED <<queueVars, producing, closing, worker, batch, event, sequence,
                 windows, dropped>>

Published ==
  /\ worker = "publish"
  /\ pos > NP
  /\ worker' = "check"
  /\ event' = NoEvent
  /\ UNCHANGED <<queueVars, producing, closing, batch, pos, sequence, windows,
                 stats, historyVars>>

Terminated == worker = "exited" /\ closing = "done" /\ UNCHANGED vars

WorkerStep == \/ WaitPop \/ Normalize \/ NormalizeThrows \/ RunProcessor
              \/ ProcessorThrows \/ Processed \/ Publish \/ Published

Next == \/ \E b \in Batches : Produce(b)
        \/ Close \/ CloseNotify \/ WorkerStep \/ SpuriousWakeup \/ Terminated

Spec == Init /\ [][Next]_vars

(* The worker's thread runs, plugin code returns, close() is completed.    *)
FairSpec == Spec /\ WF_vars(WorkerStep) /\ WF_vars(CloseNotify)

-----------------------------------------------------------------------------
(* Properties *)

Sources(s) == {s[i].source : i \in 1..Len(s)}

(* The batch or event in the hands of the worker *)
InHand == IF worker \in {"normalize", "process", "publish"} THEN {batch.source} ELSE {}

(* The order of production is kept all the way: each publisher is given    *)
(* every event once, in the order in which the batches were accepted, and  *)
(* a publisher that throws does not keep it from the ones after it         *)
(* (try_push, wait_pop, publish_event).                                    *)
PublishedInOrder ==
  /\ \A p \in Publisher :
       \A i, j \in 1..Len(log[p]) : i < j => log[p][i].source < log[p][j].source
  /\ \A p, q \in Publisher : Sources(log[p]) \ Sources(log[q]) \subseteq InHand
  /\ \A p \in Publisher : \A x \in Sources(queue), y \in Sources(log[p]) : y < x

(* No batch that the queue accepted is lost, except to an exception of the *)
(* normalizer, and the counters of the summary agree once the worker has   *)
(* ended: each accepted batch became one event, each event was offered to  *)
(* every publisher, each offer had one outcome.                            *)
SummaryBalanced ==
  worker = "exited" =>
    /\ queue = <<>>
    /\ qstats.accepted = stats["batches"] + Cardinality(dropped)
    /\ stats["batches"] = stats["events"] /\ stats["events"] = stats["delivered"]
    /\ stats["attempts"] = NP * stats["delivered"]
    /\ stats["attempts"] = stats["accepted"] + stats["unavailable"]
                           + stats["rejected"] + stats["errors"]
    /\ \A p \in Publisher : Len(log[p]) = stats["delivered"]

(* The events 1..k of the stream es that hold a number for that device and *)
(* point, in a Good reading                                                *)
Usable(es, k, d, point) ==
  {i \in 1..k : es[i].device_id = d /\ Inputs(es[i], point) # {}}

(* The n greatest members of U, in order *)
Latest(U, n) ==
  {at \in [1..n -> U] : \A i \in 1..n :
     /\ \A l \in 1..n : i < l => at[i] < at[l]
     /\ \A m \in U : m > at[i] => \E l \in 1..n : m = at[l]}

DerivedBy(e, c) ==
  [i \in {x \in 1..Len(e.readings) :
           e.readings[x].derived /\ e.readings[x].point = c.output} |-> e.readings[i]]

(* No processor from the j-th on writes the point that the j-th reads, and *)
(* no other one the point that it writes                                   *)
OwnNames(j) ==
  \A i \in DOMAIN Processors : Processors[i].kind # "other" =>
    /\ i >= j => Processors[i].output # Processors[j].input
    /\ i # j => Processors[i].output # Processors[j].output

(* What processor c derived for the k-th event of the stream es is what    *)
(* the stream says up to there                                             *)
WindowExactAt(es, k, c) ==
  LET U  == Usable(es, k, es[k].device_id, c.input)
      by == DerivedBy(es[k], c)
  IN IF k \in U /\ Cardinality(U) >= c.window
     THEN \E i \in DOMAIN by, at \in Latest(U, c.window) :
            /\ DOMAIN by = {i}
            /\ by[i] = DerivedReading(c.output, DoubleScalar(Average(
                 [l \in 1..c.window |-> Input(es[at[l]], c.input)])))
     ELSE DOMAIN by = {}

(* What a window-average processor derives is what a subscriber could      *)
(* compute from the published stream: the average of the last window       *)
(* Good values of that device, present exactly if there are that many and  *)
(* the event itself has one; bad readings, other devices and lost batches  *)
(* leave no trace (WindowAverageProcessor::process).  If another processor *)
(* used its names the stream would not tell the values apart.              *)
WindowExact ==
  \A p \in Publisher, j \in DOMAIN Processors :
    Processors[j].kind = "window_average" /\ OwnNames(j) =>
      \A k \in 1..Len(log[p]) : WindowExactAt(log[p], k, Processors[j])

(* Is r a sound reading of the sample s, for configuration c? *)
Sound(s, r, c) ==
  LET n == NumericValue(s.value)
      m == NumericValue(r.value)
      x == Affine(n, c)
      inside == /\ \A l \in c.minimum : m.h >= l
                /\ \A l \in c.maximum : m.h <= l
  IN /\ s.status # "Good" => r.quality = s.status /\ r.value = s.value
     /\ r.quality = "Good" => r.value.type = c.type /\ (Finite(m) => inside)
     /\ r.quality = "DecodeError" => r.value = s.value
     /\ r.value.type = "Integer" => r.value.i \in MinInt..MaxInt
     /\ (s.status = "Good" /\ c.type = "Integer" /\ Finite(n) /\ Finite(x)
           /\ x.h # 2 * (MaxInt + 1)) =>
          IF Abs(x.h) <= 2 * MaxInt \/ x.h = 2 * MinInt
          THEN /\ r.value.type = "Integer"
               /\ Abs(2 * r.value.i - x.h) <= 1
               /\ r.quality = IF inside THEN "Good" ELSE "OutOfRange"
          ELSE r.quality = "OutOfRange" /\ r.value = s.value

(* Conversion is sound: a Good reading has the configured type and lies    *)
(* within the limits of its point; an integer point gets the nearest       *)
(* integer or is out of range, and never wraps around, the double next to  *)
(* the largest integer excepted; what cannot be decoded is passed on       *)
(* unchanged (convert_value, scalar_to_string, numeric_value).             *)
ConversionSound ==
  worker = "process" /\ pos = 1 =>
    \A i \in 1..Len(batch.samples) :
      LET s == batch.samples[i]
          r == event.readings[i]
      IN IF batch.device_id \in Device /\ s.point \in DOMAIN Points[batch.device_id]
         THEN Sound(s, r, Points[batch.device_id][s.point])
         ELSE r.quality = "Bad"

(* The worker sleeps only while there is nothing to do: as long as a batch *)
(* is queued it is awake, and if the queue was closed under its sleep, the *)
(* notification of close() is still to come (try_push, wait_pop, close).   *)
WorkerIsWoken == worker = "asleep" => queue = <<>> /\ (closed => closing = "notify")

(* No wakeup is lost: an accepted batch is taken out of the queue, and     *)
(* once the queue is closed the worker ends, whatever is still queued      *)
(* (try_push and close notify, wait_pop waits).                            *)
WorkerProgress ==
  /\ \A n \in 1..MaxBatches : (n \in Sources(queue)) ~> (n \notin Sources(queue))
  /\ closed ~> (worker = "exited")
=============================================================================
