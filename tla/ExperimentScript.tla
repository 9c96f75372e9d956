--------------------------- MODULE ExperimentScript ---------------------------
(***************************************************************************)
(* An experiment as experiment_mongodb.sh does it: load and then, over and *)
(* over, extend the values of a database and run a workload on it, on a    *)
(* reference, on a copy and on a database of the same average length.  The *)
(* phases differ by what the script edits in the one workload file that    *)
(* every YCSB process reads; the rows of its results are made from the     *)
(* shell's own variables.  The script can be interrupted and started anew; *)
(* neither undoes the edits.  The shell does not look at the exit status   *)
(* of a YCSB process, so the script also goes on, and writes a row, when   *)
(* one has failed.  MongoDB's own tools (mongosh, mongodump, mongorestore) *)
(* do what they are told.                                                  *)
(* The names differ from those of BackupRestore, because                   *)
(* BackupRestoreProofs extends both.                                       *)
(***************************************************************************)
EXTENDS Integers, FiniteSets

CONSTANTS
  ExitAt,     \* the iteration in which the script exits (5 in the script)
  MaxStarts,  \* BOUND: starts of the script
  MaxFailures   \* BOUND: interruptions, and YCSB processes that fail

ASSUME ScriptAssumption == ExitAt \in Nat \ {0} /\ {MaxStarts, MaxFailures} \subseteq Nat

VARIABLES
  file,        \* WORKLOAD_FILE
  shell,       \* the variables that source has set from it
  opscount,    \* the script's variable
  histogram,   \* HISTOGRAM_FILE: the iteration it was made in, 0 when it counts no record
  average,     \* fieldlengthaverage: what had been done to the database it was taken of
  db,          \* "ycsb" and "ycsb_unchange" of the first server, "copy" of the second
  iteration,   \* 10 * (epoch - 1) + run
  at,
  rows,        \* history: every row ever written to OUTPUT_FILE (a start begins the file
               \* anew), whether it has results, and how YCSB really ran for it
  starts, failures, interrupted

state == <<file, shell, opscount, histogram, average, db, iteration>>
counts == <<starts, failures, interrupted>>
scriptVars == <<state, at, rows, counts>>

\* The lines of the workload file that are edited: the proportions and the request
\* distribution together, operationcount, fieldlength, and whether there is the line
\* fieldlengthdistribution=histogram.
Files == [params : {"given", "extend", "postextend"}, operationcount : {"given", "extend"},
          fieldlength : {"original", "average"}, histogram : BOOLEAN]

Databases == {"ycsb", "ycsb_unchange", "copy"}
Phases == {"extend", "run", "reference", "clean-run", "avg-run"}

\* A database is known by what has been done to it: <<"load", a field length>>,
\* <<"extend", an iteration>> and <<"update", an iteration's histogram, or 0>>.
\* One without a load has no collection; one with a load has at least the two records
\* without which the histogram, which leaves out the first line (158), counts none.
Empty == {}

\* The definitions marked (wrong) are variants of the definition after them,
\* with which the properties are tested.

ScriptInit ==
  /\ file = [params |-> "given", operationcount |-> "given", fieldlength |-> "original",
             histogram |-> FALSE]
  /\ shell = file /\ opscount = "given" /\ histogram = 0 /\ average = Empty
  /\ db = [d \in Databases |-> Empty]
  /\ iteration = 0 /\ at = "ended" /\ rows = {}
  /\ starts = 0 /\ failures = 0 /\ interrupted = FALSE

Step(from, to) == at = from /\ at' = to /\ UNCHANGED counts

\* A YCSB process that is killed, or exits early: the script goes on.
Fails == failures < MaxFailures /\ failures' = failures + 1 /\ UNCHANGED <<starts, interrupted>>

-----------------------------------------------------------------------------
(* YCSB, as far as the script sees it                                       *)

\* CoreWorkload.init() fails when it shall draw lengths from a histogram file that does
\* not exist; the phases that name one have it.  The first length that is drawn from a
\* histogram without records ends the process: nextInt(0) throws, and ClientThread
\* exits before anything is written.
Accepted(named) == file.histogram => named /\ histogram # 0

\* ycsb load: every field has the length that the file gives.  A process that fails has
\* loaded some records or none.
Load(d, from, to) ==
  /\ at = from /\ at' = to
  /\ \/ /\ Accepted(FALSE) /\ (UNCHANGED counts \/ Fails)
        /\ db' = [db EXCEPT ![d] = @ \cup {<<"load", file.fieldlength>>}]
     \/ /\ (~Accepted(FALSE) /\ UNCHANGED counts) \/ Fails
        /\ UNCHANGED db
  /\ UNCHANGED <<file, shell, opscount, histogram, average, iteration, rows>>

\* Neither an update (it is no upsert) nor an extend creates a record: a database
\* without any stays without.
Done(on) == IF on = Empty THEN {}
            ELSE IF file.params = "extend" THEN {<<"extend", iteration>>}
            ELSE {<<"update", IF file.histogram THEN histogram ELSE 0>>}

\* ycsb run with the file, and write_result with the shell's variables.  It adds a row
\* for every process: one without results when the process has failed, which may have
\* worked on the database before, or was refused.
Row(phase, d, results) ==
  [start |-> starts, iteration |-> iteration, phase |-> phase, results |-> results,
   written |-> shell, used |-> file, histogram |-> histogram, average |-> average, on |-> db[d]]

Run(phase, d, named, from, to) ==
  /\ at = from /\ at' = to
  /\ \/ /\ Accepted(named)
        /\ db' = [db EXCEPT ![d] = @ \cup Done(@)]
        /\ \/ UNCHANGED counts /\ rows' = rows \cup {Row(phase, d, TRUE)}
           \/ Fails /\ rows' = rows \cup {Row(phase, d, FALSE)}
     \/ /\ (~Accepted(named) /\ UNCHANGED counts) \/ Fails
        /\ UNCHANGED db /\ rows' = rows \cup {Row(phase, d, FALSE)}
  /\ UNCHANGED <<file, shell, opscount, histogram, average, iteration>>

-----------------------------------------------------------------------------
(* The script                                                               *)

Start ==
  /\ at = "ended" /\ starts < MaxStarts
  /\ starts' = starts + 1 /\ at' = "load"
  /\ db' = [db EXCEPT !["ycsb"] = Empty, !["ycsb_unchange"] = Empty]
  /\ iteration' = 0
  /\ UNCHANGED <<file, shell, opscount, histogram, average, rows, failures, interrupted>>

LoadDb == Load("ycsb", "load", "load-reference")
LoadReference == Load("ycsb_unchange", "load-reference", "count")

\* source sets the shell's variables to what the file has.
Unsourced(f) == shell                                              \* (wrong)
Sourced(f) == f

\* opscount is read before the file is edited.
ExtendParams(f) == [f EXCEPT !.params = "extend", !.operationcount = "extend"]
CountOf(f) == f.operationcount

SetExtend ==
  /\ Step("count", "extend")
  /\ iteration' = iteration + 1
  /\ opscount' = CountOf(file)
  /\ file' = ExtendParams(file) /\ shell' = Sourced(file')
  /\ UNCHANGED <<histogram, average, db, rows>>

Extend == Run("extend", "ycsb", FALSE, "extend", "key-sizes")

\* The sizes are taken before the script exits.
KeySizes ==
  /\ Step("key-sizes", IF iteration = ExitAt THEN "ended" ELSE "set-run")
  /\ histogram' = IF db["ycsb"] = Empty THEN 0 ELSE iteration
  /\ UNCHANGED <<file, shell, opscount, average, db, iteration, rows>>

\* grep -q || echo: the line is added once.
KeepExtending(f) == [f EXCEPT !.operationcount = opscount, !.histogram = TRUE]  \* (wrong)
RunParams(f) == [f EXCEPT !.params = "postextend", !.operationcount = opscount,
                          !.histogram = TRUE]

SetRun ==
  /\ Step("set-run", "run")
  /\ file' = RunParams(file) /\ shell' = Sourced(file')
  /\ UNCHANGED <<opscount, histogram, average, db, iteration, rows>>

RunWorkload == Run("run", "ycsb", TRUE, "run", "reference")
RunReference == Run("reference", "ycsb_unchange", TRUE, "reference", "dump")

\* mongodump | mongorestore --drop, which drops the collections that the dump has:
\* the dump of a database that was never loaded leaves the copy as it is.
Merged(old, dump) == old \cup dump                                 \* (wrong)
NotDropped(old, dump) == IF old = Empty THEN dump ELSE old         \* (wrong)
Restored(old, dump) == IF dump = Empty THEN old ELSE dump

Dump ==
  /\ Step("dump", "clean-run")
  /\ db' = [db EXCEPT !["copy"] = Restored(@, db["ycsb"])]
  /\ UNCHANGED <<file, shell, opscount, histogram, average, iteration, rows>>

RunCopy == Run("clean-run", "copy", TRUE, "clean-run", "no-histogram")

\* awk removes the line from the file; the shell's variable stays.
KeepHistogram(f) == f                                              \* (wrong)
NoHistogram(f) == [f EXCEPT !.histogram = FALSE]

RemoveHistogram ==
  /\ Step("no-histogram", "average")
  /\ file' = NoHistogram(file)
  /\ UNCHANGED <<shell, opscount, histogram, average, db, iteration, rows>>

\* The average is taken of the copy, which then is dropped.
SetAverage ==
  /\ Step("average", "load-average")
  /\ average' = db["copy"]
  /\ file' = [file EXCEPT !.fieldlength = "average"] /\ shell' = Sourced(file')
  /\ db' = [db EXCEPT !["copy"] = Empty]
  /\ UNCHANGED <<opscount, histogram, iteration, rows>>

LoadAverage == Load("copy", "load-average", "original")

OriginalLength(f) == [f EXCEPT !.fieldlength = "original"]

SetOriginal ==
  /\ Step("original", "avg-run")
  /\ file' = OriginalLength(file) /\ shell' = Sourced(file')
  /\ UNCHANGED <<opscount, histogram, average, db, iteration, rows>>

RunAverage == Run("avg-run", "copy", FALSE, "avg-run", "drop-copy")

DropCopy ==
  /\ Step("drop-copy", "count")
  /\ db' = [db EXCEPT !["copy"] = Empty]
  /\ UNCHANGED <<file, shell, opscount, histogram, average, iteration, rows>>

Interrupt ==
  /\ at # "ended" /\ failures < MaxFailures
  /\ at' = "ended" /\ failures' = failures + 1 /\ interrupted' = TRUE
  /\ UNCHANGED <<state, rows, starts>>

ScriptNext ==
  \/ Start \/ LoadDb \/ LoadReference
  \/ SetExtend \/ Extend \/ KeySizes
  \/ SetRun \/ RunWorkload \/ RunReference
  \/ Dump \/ RunCopy \/ RemoveHistogram
  \/ SetAverage \/ LoadAverage \/ SetOriginal \/ RunAverage \/ DropCopy
  \/ Interrupt

ScriptSpec == ScriptInit /\ [][ScriptNext]_scriptVars

-----------------------------------------------------------------------------
(* Properties                                                               *)

Iterations == 0 .. ExitAt
Marks == ({"load"} \X {"original", "average"}) \cup ({"extend", "update"} \X Iterations)

\* The variables have the values that the script gives them, and a database is in one
\* piece: what was loaded into it has one length.
ScriptTypeOK ==
  /\ {file, shell} \subseteq Files /\ opscount \in {"given", "extend"}
  /\ histogram \in Iterations /\ iteration \in Iterations
  /\ \A d \in Databases :
       /\ db[d] \subseteq Marks
       /\ Cardinality({m \in db[d] : m[1] = "load"}) <= 1
  /\ at \in {"load", "load-reference", "count", "extend", "key-sizes", "set-run", "run", "reference",
             "dump", "clean-run", "no-histogram", "average", "load-average", "original", "avg-run",
             "drop-copy", "ended"}
  /\ average \subseteq Marks /\ \A r \in rows : r.phase \in Phases
  /\ starts \in 0 .. MaxStarts /\ failures \in 0 .. MaxFailures /\ interrupted \in BOOLEAN

\* A row, with results or without, tells the proportions, the distribution and the count
\* that its YCSB process was given, although the one comes from the shell and the other
\* from the file (source at experiment_mongodb.sh:243, 306, 391 and 400, write_result
\* at 97).
RowsTell ==
  \A r \in rows : r.written.params = r.used.params /\ r.written.operationcount = r.used.operationcount

\* The phases that are compared with each other ran with the same parameters, and where
\* they have results with lengths of the histogram of their iteration, whatever was
\* interrupted or failed before; only the run over average lengths draws no lengths
\* (experiment_mongodb.sh:297-406).  In a first start they have the operation count that
\* the workload file was given with.
PhasesComparable ==
  \A r \in rows :
    /\ (r.phase = "extend") = (r.used.params = "extend")
    /\ r.phase \notin {"extend", "avg-run"} =>
         /\ r.used.histogram /\ r.used.params = "postextend"
         /\ r.results => r.histogram = r.iteration
    /\ r.phase = "avg-run" => ~r.used.histogram /\ r.used.params = "postextend"
    /\ \A q \in rows : r.phase # "extend" /\ q.phase # "extend" /\ r.start = q.start
                       /\ r.iteration = q.iteration => r.used.operationcount = q.used.operationcount
    /\ r.start = 1 /\ r.phase # "extend" => r.used.operationcount = "given"

\* Without an interruption or a failing process every phase of an iteration has a row
\* with results, also in a start after one that has exited early: no phase meets a
\* workload file, or a histogram, that its YCSB process refuses (lines 305 and 337).
EveryPhaseReported ==
  failures = 0 /\ at = "count" =>
    \A i \in 1 .. iteration, p \in Phases :
      \E r \in rows : r.start = starts /\ r.iteration = i /\ r.phase = p /\ r.results

\* on is what a database has been through that had been through before, or the same and
\* a run of iteration i since.
AtMostRun(on, before, i) == on = before \/ on = before \cup {<<"update", i>>}

\* Each phase runs on the database it is meant for, whatever was interrupted before.
\* Only the one under test is extended, once in an iteration.  A run on the copy that
\* has results is on what the run of its iteration left of the database under test,
\* never on what an interrupted start left in the copy, although the dump of a database
\* that could not be loaded does not replace that (line 328): such a database gives no
\* histogram to run with.  The average length is that of the database which the run on
\* the copy had (lines 375-389), and the run over it is on a database loaded for it and
\* not touched since.  Without interruptions the others have fields of the original
\* length (lines 389-400).
DatabasesAsMeant ==
  /\ \A r \in rows :
       /\ r.phase = "reference" => \A i \in Iterations : <<"extend", i>> \notin r.on
       /\ r.phase = "run" => \A i \in Iterations : <<"extend", i>> \in r.on => i <= r.iteration
       /\ r.phase = "avg-run" => r.on \subseteq {<<"load", "average">>}
  /\ \A r, q \in rows : r.start = q.start /\ r.iteration = q.iteration =>
       /\ r.phase = "clean-run" /\ r.results /\ q.phase = "run" => AtMostRun(r.on, q.on, r.iteration)
       /\ r.phase = "avg-run" /\ q.phase = "clean-run" => AtMostRun(r.average, q.on, r.iteration)
  /\ \A d \in {"ycsb", "ycsb_unchange"} : interrupted \/ <<"load", "average">> \notin db[d]

\* The reference has values of unchanging size (comment at line 316): nothing but
\* fields of the original length was ever written to it.
ReferenceUnchanging ==
  \A m \in db["ycsb_unchange"] : m \in {<<"load", "original">>, <<"update", 0>>}
=============================================================================
