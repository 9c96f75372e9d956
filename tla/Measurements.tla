---------------------------- MODULE Measurements ----------------------------
(***************************************************************************)
(* The measurements that the client threads of a run share: which object   *)
(* an operation is measured in, what its counters do when several threads  *)
(* and the status thread are at them, and what is exported in the end.     *)
(* One operation (READ) stands for all; latencies are left out, so a       *)
(* counter stands for all those of an object that are updated like it.     *)
(* The names differ from those of ClientRun, because ClientRunProofs       *)
(* extends both.                                                           *)
(***************************************************************************)
EXTENDS Integers, FiniteSets, Sequences

CONSTANTS
  Threads,     \* the client threads
  NoOne,       \* no object, no owner
  OpCount,     \* BOUND: operations of each thread
  MaxWindows   \* BOUND: summaries of the status thread before its last

ASSUME MeasurementsAssumption ==
  /\ IsFiniteSet(Threads) /\ NoOne \notin Threads
  /\ OpCount \in [Threads -> Nat] /\ MaxWindows \in Nat

Kinds == {"histogram", "hdrhistogram", "raw", "timeseries"}
Intervals == {"op", "intended", "both"}
Statuses == {"OK", "ERROR"}

\* Where a latency goes: one of the two maps, and a name in it.  An object is
\* known by its name and by the thread that has constructed it.
Names == {"op", "intended"} \X {"READ", "READ-FAILED"}
NoName == <<>>

VARIABLES
  kind, interval,   \* measurementtype, measurement.interval
  measurement,      \* opToMesurementMap and opToIntendedMesurementMap
  returncodes,      \* returncodes of each object of READ: status -> counter
  operations,       \* operations, or the count of totalHistogram
  windowoperations, \* windowoperations, or the count of the recorder's histogram
  monitor,          \* who is in a synchronized method of the object
  count,            \* the values of the status counters
  place,            \* where each client thread is
  status,           \* what its operation has returned
  todo,             \* the names it has still to measure it under
  object, read,     \* the object or counter it works on, and a value it has read
  done,             \* its finished operations
  statusPlace, left, name,  \* the status thread, names left to summarize, the current one
  taken, windows,   \* what it has read, and the summaries so far
  measured, returned, \* history: measure() and reportStatus() calls that ended
  summed,           \* history: measurements the summaries have reported
  exported          \* whether main() has exported

config == <<kind, interval>>
maps == <<measurement, returncodes>>
counters == <<operations, windowoperations, monitor, count>>
locals == <<place, status, todo, object, read, done>>
statusThread == <<statusPlace, left, name, taken, windows>>
tallies == <<measured, returned, summed>>
measurementsVars == <<config, maps, counters, locals, statusThread, tallies, exported>>

\* The definitions marked (wrong) are variants of the definition after them,
\* with which the properties are tested.

MeasurementsInit ==
  /\ kind \in Kinds /\ interval \in Intervals
  /\ measurement = [n \in Names |-> NoOne]
  /\ returncodes = [t \in Threads |-> [s \in Statuses |-> NoOne]]
  /\ operations = [n \in Names |-> [t \in Threads |-> 0]]
  /\ windowoperations = [n \in Names |-> [t \in Threads |-> 0]]
  /\ monitor = [n \in Names |-> [t \in Threads |-> NoOne]]
  /\ count = [t \in Threads |-> [s \in Statuses |-> [u \in Threads |-> 0]]]
  /\ place = [t \in Threads |-> "idle"]
  /\ status = [t \in Threads |-> "OK"]
  /\ todo = [t \in Threads |-> <<>>]
  /\ object = [t \in Threads |-> NoOne]
  /\ read = [t \in Threads |-> 0]
  /\ done = [t \in Threads |-> 0]
  /\ statusPlace \in {"wait", "ended"}     \* with and without -s
  /\ left = <<>> /\ name = NoName /\ taken = 0 /\ windows = 0
  /\ measured = [n \in Names |-> 0]
  /\ returned = [s \in Statuses |-> 0]
  /\ summed = [n \in Names |-> 0]
  /\ exported = FALSE

GoesTo(t, to) == place' = [place EXCEPT ![t] = to]
Holds(t, o) == object' = [object EXCEPT ![t] = o]

-----------------------------------------------------------------------------
(* DBWrapper.read(): the operation, measure(), measureIntended(), and       *)
(* reportStatus()                                                           *)

\* The name depends on the status; which maps are used, on the interval.
NameOf(s) == IF s = "OK" THEN "READ" ELSE "READ-FAILED"
MapsOf(i) == IF i = "both" THEN <<"op", "intended">> ELSE <<i>>

\* The name reportStatus() looks up, whatever the status.
Reports == <<IF interval = "intended" THEN "intended" ELSE "op", "READ">>

OneMore(t) == done[t] <= OpCount[t]                                \* (wrong)
MoreToDo(t) == done[t] < OpCount[t]

Operate(t) ==
  /\ place[t] = "idle" /\ MoreToDo(t)
  /\ \E s \in Statuses :
       /\ status' = [status EXCEPT ![t] = s]
       /\ todo' = [todo EXCEPT ![t] =
            [i \in DOMAIN MapsOf(interval) |-> <<MapsOf(interval)[i], NameOf(s)>>]]
  /\ GoesTo(t, "lookup")
  /\ UNCHANGED <<config, maps, counters, object, read, done, statusThread, tallies, exported>>

\* The name thread t looks up: the next one to measure, or that of the report.
Measuring(t) == todo[t] # <<>>
Wanted(t) == IF Measuring(t) THEN Head(todo[t]) ELSE Reports

\* opToMesurementMap.get(operation)
Lookup(t) ==
  /\ place[t] = "lookup"
  /\ IF measurement[Wanted(t)] = NoOne
     THEN GoesTo(t, "construct") /\ UNCHANGED object
     ELSE /\ Holds(t, measurement[Wanted(t)])
          /\ GoesTo(t, IF Measuring(t) THEN "measure" ELSE "code")
  /\ UNCHANGED <<config, maps, counters, status, todo, read, done, statusThread, tallies,
                 exported>>

\* putIfAbsent(operation, m), and whose object is used
Replaces(old, t) == t                                              \* (wrong)
PutIfAbsent(old, t) == IF old = NoOne THEN t ELSE old

Construct(t) ==
  /\ place[t] = "construct"
  /\ LET m == PutIfAbsent(measurement[Wanted(t)], t) IN
       /\ measurement' = [measurement EXCEPT ![Wanted(t)] = m]
       /\ Holds(t, m)
  /\ GoesTo(t, IF Measuring(t) THEN "measure" ELSE "code")
  /\ UNCHANGED <<config, returncodes, counters, status, todo, read, done, statusThread, tallies,
                 exported>>

\* measure() has ended.
Measured(t) ==
  /\ measured' = [measured EXCEPT ![Wanted(t)] = @ + 1]
  /\ todo' = [todo EXCEPT ![t] = Tail(@)]
  /\ Holds(t, NoOne) /\ GoesTo(t, "lookup")

Of(t) == <<Wanted(t), object[t]>>
Bump(f, k) == [f EXCEPT ![k[1]][k[2]] = @ + 1]
Write(f, k, v) == [f EXCEPT ![k[1]][k[2]] = v]
At(f, k) == f[k[1]][k[2]]

\* Recorder.recordValue() does not meet the swap of the recorder's histograms.
MeasureHdr(t) ==
  /\ kind = "hdrhistogram" /\ place[t] = "measure"
  /\ windowoperations' = Bump(windowoperations, Of(t))
  /\ Measured(t)
  /\ UNCHANGED <<operations, monitor, read>>

\* OneMeasurementRaw: measure() and getSummary() are synchronized, so no thread is
\* in between.
MeasureRaw(t) ==
  /\ kind = "raw" /\ place[t] = "measure"
  /\ At(monitor, Of(t)) = NoOne
  /\ operations' = Bump(operations, Of(t))
  /\ windowoperations' = Bump(windowoperations, Of(t))
  /\ Measured(t)
  /\ UNCHANGED <<monitor, read>>

\* OneMeasurementHistogram: measure() is synchronized, getSummary() is not.
MeasureHistogram(t) ==
  /\ kind = "histogram" /\ place[t] = "measure"
  /\ At(monitor, Of(t)) = NoOne
  /\ monitor' = Write(monitor, Of(t), t)
  /\ operations' = Bump(operations, Of(t))
  /\ read' = [read EXCEPT ![t] = At(windowoperations, Of(t))]
  /\ GoesTo(t, "window")
  /\ UNCHANGED <<windowoperations, measured, todo, object>>

EndHistogram(t) ==
  /\ kind = "histogram" /\ place[t] = "window"
  /\ windowoperations' = Write(windowoperations, Of(t), read[t] + 1)
  /\ monitor' = Write(monitor, Of(t), NoOne)
  /\ read' = [read EXCEPT ![t] = 0]
  /\ Measured(t)
  /\ UNCHANGED operations

\* OneMeasurementTimeSeries: operations++ and windowoperations++, without a lock.
MeasureSeries(t) ==
  /\ kind = "timeseries" /\ place[t] = "measure"
  /\ read' = [read EXCEPT ![t] = At(operations, Of(t))]
  /\ GoesTo(t, "write")
  /\ UNCHANGED <<operations, windowoperations, monitor, measured, todo, object>>

WriteSeries(t) ==
  /\ kind = "timeseries" /\ place[t] = "write"
  /\ operations' = Write(operations, Of(t), read[t] + 1)
  /\ read' = [read EXCEPT ![t] = At(windowoperations, Of(t))]
  /\ GoesTo(t, "window")
  /\ UNCHANGED <<windowoperations, monitor, measured, todo, object>>

EndSeries(t) ==
  /\ kind = "timeseries" /\ place[t] = "window"
  /\ windowoperations' = Write(windowoperations, Of(t), read[t] + 1)
  /\ read' = [read EXCEPT ![t] = 0]
  /\ Measured(t)
  /\ UNCHANGED <<operations, monitor>>

Measure(t) ==
  /\ \/ MeasureHdr(t) \/ MeasureRaw(t) \/ MeasureHistogram(t) \/ EndHistogram(t)
     \/ MeasureSeries(t) \/ WriteSeries(t) \/ EndSeries(t)
  /\ UNCHANGED <<config, maps, count, status, done, statusThread, returned, summed,
                 exported>>

\* OneMeasurement.reportStatus(): returncodes.get(status)
Code(t) ==
  /\ place[t] = "code"
  /\ LET counter == returncodes[object[t]][status[t]] IN
       IF counter = NoOne THEN GoesTo(t, "counter") /\ UNCHANGED read
       ELSE GoesTo(t, "count") /\ read' = [read EXCEPT ![t] = counter]
  /\ UNCHANGED <<config, maps, counters, status, todo, object, done, statusThread, tallies,
                 exported>>

\* putIfAbsent(status, counter), and whose counter is used
Fresh(old, t) == t                                                 \* (wrong)
Counter(old, t) == IF old = NoOne THEN t ELSE old

AddCounter(t) ==
  /\ place[t] = "counter"
  /\ LET c == Counter(returncodes[object[t]][status[t]], t) IN
       /\ returncodes' = [returncodes EXCEPT ![object[t]][status[t]] = c]
       /\ read' = [read EXCEPT ![t] = c]
  /\ GoesTo(t, "count")
  /\ UNCHANGED <<config, measurement, counters, status, todo, object, done, statusThread, tallies,
                 exported>>

\* counter.incrementAndGet(): read[t] is whose counter it is.
Count(t) ==
  /\ place[t] = "count"
  /\ count' = [count EXCEPT ![object[t]][status[t]][read[t]] = @ + 1]
  /\ returned' = [returned EXCEPT ![status[t]] = @ + 1]
  /\ done' = [done EXCEPT ![t] = @ + 1]
  /\ status' = [status EXCEPT ![t] = "OK"] /\ read' = [read EXCEPT ![t] = 0]
  /\ Holds(t, NoOne) /\ GoesTo(t, "idle")
  /\ UNCHANGED <<config, maps, operations, windowoperations, monitor, todo, statusThread,
                 measured, summed, exported>>

ClientThread(t) ==
  \/ Operate(t) \/ Lookup(t) \/ Construct(t) \/ Measure(t)
  \/ Code(t) \/ AddCounter(t) \/ Count(t)

-----------------------------------------------------------------------------
(* The status thread: computeStats() at intervals, and once more when the   *)
(* clients have finished; main() then exports                               *)

AllDone == \A t \in Threads : place[t] = "idle" /\ done[t] = OpCount[t]

\* Measurements.getSummary() visits the objects of the maps, in an order that the
\* names give.  One that is added meanwhile is visited when its turn is still to come.
InOrder(i) == [j \in 1 .. 2 * Len(MapsOf(i)) |->
  <<MapsOf(i)[(j + 1) \div 2], IF j % 2 = 1 THEN "READ" ELSE "READ-FAILED">>]

BeginSummary ==
  /\ statusPlace = "wait"
  /\ windows < MaxWindows \/ AllDone
  /\ statusPlace' = "visit" /\ left' = InOrder(interval) /\ windows' = windows + 1
  /\ UNCHANGED <<config, maps, counters, locals, name, taken, tallies, exported>>

Visit ==
  /\ statusPlace = "visit" /\ left # <<>>
  /\ left' = Tail(left)
  /\ IF measurement[Head(left)] = NoOne THEN UNCHANGED <<statusPlace, name>>
     ELSE statusPlace' = "summary" /\ name' = Head(left)
  /\ UNCHANGED <<config, maps, counters, locals, taken, windows, tallies, exported>>

\* The thread ends after a summary that began when the clients had finished: until
\* then no more than MaxWindows are made.
EndSummary ==
  /\ statusPlace = "visit" /\ left = <<>>
  /\ statusPlace' = IF windows > MaxWindows THEN "ended" ELSE "wait"
  /\ UNCHANGED <<config, maps, counters, locals, left, name, taken, windows, tallies, exported>>

Here == <<name, measurement[name]>>
Reported(n) ==
  /\ summed' = [summed EXCEPT ![name] = @ + n]
  /\ statusPlace' = "visit" /\ name' = NoName /\ taken' = 0

\* What a summary leaves of a window of w measurements
Kept(w) == w                                                       \* (wrong)
Emptied(w) == 0

\* OneMeasurementHdrHistogram: getIntervalHistogram() takes the recorder's
\* histogram and leaves an empty one; then it is added to totalHistogram.
SwapHdr ==
  /\ kind = "hdrhistogram" /\ statusPlace = "summary"
  /\ taken' = At(windowoperations, Here)
  /\ windowoperations' = Write(windowoperations, Here, Emptied(At(windowoperations, Here)))
  /\ statusPlace' = "take"
  /\ UNCHANGED <<operations, name, summed>>

Accumulate(total, interval_) == total + interval_

AccumulateHdr ==
  /\ kind = "hdrhistogram" /\ statusPlace = "take"
  /\ operations' = Write(operations, Here, Accumulate(At(operations, Here), taken))
  /\ Reported(taken)
  /\ UNCHANGED windowoperations

\* OneMeasurementRaw: in the object's monitor.
SummarizeRaw ==
  /\ kind = "raw" /\ statusPlace = "summary"
  /\ At(monitor, Here) = NoOne
  /\ windowoperations' = Write(windowoperations, Here, Emptied(At(windowoperations, Here)))
  /\ Reported(At(windowoperations, Here))
  /\ UNCHANGED operations

\* OneMeasurementHistogram and OneMeasurementTimeSeries: nothing when the window is
\* empty, else it is read, and reset afterwards.
ReadWindow ==
  /\ kind \in {"histogram", "timeseries"} /\ statusPlace = "summary"
  /\ IF At(windowoperations, Here) = 0 THEN Reported(0)
     ELSE statusPlace' = "take" /\ taken' = At(windowoperations, Here) /\ UNCHANGED <<name, summed>>
  /\ UNCHANGED <<operations, windowoperations>>

ResetWindow ==
  /\ kind \in {"histogram", "timeseries"} /\ statusPlace = "take"
  /\ windowoperations' = Write(windowoperations, Here, Emptied(At(windowoperations, Here)))
  /\ Reported(taken)
  /\ UNCHANGED operations

Summarize ==
  /\ SwapHdr \/ AccumulateHdr \/ SummarizeRaw \/ ReadWindow \/ ResetWindow
  /\ UNCHANGED <<config, maps, monitor, count, locals, left, windows, measured, returned, exported>>

StatusThread == BeginSummary \/ Visit \/ EndSummary \/ Summarize

\* Client.main(), after it has joined the clients and the status thread: the last
\* interval of each HdrHistogram is accumulated before it is exported.
ExportMeasurements ==
  /\ AllDone /\ statusPlace = "ended" /\ ~exported
  /\ exported' = TRUE
  /\ IF kind = "hdrhistogram"
     THEN /\ operations' = [n \in Names |-> [t \in Threads |->
                              Accumulate(operations[n][t], windowoperations[n][t])]]
          /\ windowoperations' = [n \in Names |-> [t \in Threads |-> 0]]
     ELSE UNCHANGED <<operations, windowoperations>>
  /\ UNCHANGED <<config, maps, monitor, count, locals, statusThread, tallies>>

MeasurementsNext == (\E t \in Threads : ClientThread(t)) \/ StatusThread \/ ExportMeasurements
MeasurementsSpec == MeasurementsInit /\ [][MeasurementsNext]_measurementsVars

-----------------------------------------------------------------------------
(* Properties                                                               *)

Objects == Threads \cup {NoOne}

\* The variables have the values that the code gives them.
MeasurementsTypeOK ==
  /\ kind \in Kinds /\ interval \in Intervals
  /\ measurement \in [Names -> Objects]
  /\ returncodes \in [Threads -> [Statuses -> Objects]]
  /\ {operations, windowoperations} \subseteq [Names -> [Threads -> Nat]]
  /\ monitor \in [Names -> [Threads -> Objects]]
  /\ count \in [Threads -> [Statuses -> [Threads -> Nat]]]
  /\ place \in [Threads -> {"idle", "lookup", "construct", "measure", "write", "window", "code",
                         "counter", "count"}]
  /\ status \in [Threads -> Statuses]
  /\ \A t \in Threads : /\ Len(todo[t]) <= 2 /\ object[t] \in Objects
                       /\ IF place[t] = "count" THEN read[t] \in Threads ELSE read[t] \in Nat
  /\ \A t \in Threads : done[t] \in 0 .. OpCount[t]
  /\ statusPlace \in {"wait", "visit", "summary", "take", "ended"}
  /\ Len(left) <= 4 /\ name \in Names \cup {NoName} /\ taken \in Nat /\ windows \in Nat
  /\ {measured, summed} \subseteq [Names -> Nat] /\ returned \in [Statuses -> Nat]
  /\ exported \in BOOLEAN

\* What is exported of a name: the object that is in the map, if any.
Exported(f, n) == IF measurement[n] = NoOne THEN 0 ELSE f[n][measurement[n]]

\* The operations that a run exports are those its threads measured, however their
\* first measurements of a name meet, and whatever summaries the status thread makes
\* meanwhile; a time series, whose counters have no lock, may lose some of them, yet
\* never all, and adds none (Measurements.getOpMeasurement(), OneMeasurement*.measure()).
ExactTotals ==
  exported => \A n \in Names :
    IF kind = "timeseries"
    THEN Exported(operations, n) \in {m \in 0 .. measured[n] : m > 0 \/ measured[n] = 0}
    ELSE Exported(operations, n) = measured[n]

\* The status counts that are exported agree with the operations: each returned
\* status is counted, and OK as often as READ was measured, any other as often as
\* READ-FAILED was (OneMeasurement.reportStatus(), DBWrapper.measure()).
StatusBalance ==
  exported =>
    LET o == measurement[Reports]
        Total(s) == IF o = NoOne \/ returncodes[o][s] = NoOne THEN 0
                    ELSE count[o][s][returncodes[o][s]]
    IN \A s \in Statuses, i \in DOMAIN MapsOf(interval) :
         /\ Total(s) = returned[s]
         /\ Total(s) = measured[<<MapsOf(interval)[i], NameOf(s)>>]

\* A measurement is reported in one summary: those made so far, the window that is
\* open and the one being reported hold all measurements, each once, when the
\* object takes its window atomically (getSummary() of OneMeasurementHdrHistogram
\* and OneMeasurementRaw).
WindowsPartition ==
  kind \in {"hdrhistogram", "raw"} /\ ~exported =>
    \A n \in Names :
      Exported(windowoperations, n) + summed[n] + (IF name = n THEN taken ELSE 0) = measured[n]
=============================================================================
