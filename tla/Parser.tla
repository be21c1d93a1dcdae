------------------------------- MODULE Parser -------------------------------
(***************************************************************************)
(* The Parser of the GUI, gui/parser.cpp: requests of the GUI thread       *)
(* become jobs of a thread pool, which hand one ParserData object from     *)
(* step to step and report each result as a signal.  A signal emitted in   *)
(* the pool is queued and delivered in the GUI thread, in the order of     *)
(* emission.                                                               *)
(*                                                                         *)
(* What the results contain is modelled in TraceData; here a result is the *)
(* number of the job that computed it.                                     *)
(***************************************************************************)
EXTENDS Integers, Sequences

CONSTANTS
    Paths,          \* the data files
    MaxRequests,    \* bound: how many files are parsed, again or for the first time
    MaxSignals      \* bound: how many signals wait for delivery

ASSUME ParserAssumption == MaxRequests \in Nat /\ MaxSignals \in Nat \ {0} /\ "" \notin Paths

Null == 0   \* no ParserData; an object is known by the job that created it

\* FilterParameters::minTime: from the beginning, or from some later time.
Filters == {"all", "some"}

VARIABLES
    m_data, m_path, \* the members of Parser
    jobs,           \* what parseImpl queued, in the order of the requests
    parserData,     \* the ParserData objects, by the job that created them
    signals         \* queued signals, each with the job that emitted it

parser == <<m_data, m_path, jobs, parserData, signals>>

Requests == 1 .. Len(jobs)

\* A deleted or not yet made ParserData, and a job that is over.
NoData   == [path |-> "", filter |-> "all", diffMode |-> FALSE]
NoJob    == [path |-> "", diff |-> FALSE, filter |-> "all", data |-> Null,
             stage |-> "ended", todo |-> {}]

\* The jobs that run in parallel once the allocations are merged.
Views(r) == {"topDown", "callerCallee"} \cup (IF jobs[r].diff THEN {} ELSE {"charts"})

Running(r) == jobs[r].stage # "ended"

ParserInit ==
    /\ m_data = Null /\ m_path = ""
    /\ jobs = <<>> /\ signals = <<>>
    /\ parserData = [r \in 1 .. MaxRequests |-> NoData]

NewJob(path, diff, filter) ==
    [path |-> path, diff |-> diff, filter |-> filter, data |-> m_data, stage |-> "queued", todo |-> {}]

\* Mutation of ParseImpl: the parser and the job share m_data.
ParseImplShare(path, diff, filter) ==
    /\ jobs' = Append(jobs, NewJob(path, diff, filter))
    /\ UNCHANGED <<m_data, m_path, parserData, signals>>

\* Parser::parseImpl in the GUI thread: m_data moves into the new job.
ParseImpl(path, diff, filter) ==
    /\ jobs' = Append(jobs, NewJob(path, diff, filter))
    /\ m_data' = Null
    /\ UNCHANGED <<m_path, parserData, signals>>

\* The data without an object whose last owner gave it up.
Released(d) == [r \in DOMAIN parserData |-> IF r = d THEN NoData ELSE parserData[r]]

-----------------------------------------------------------------------------
(* The steps of a job, in the pool                                         *)

Emit(signal, r) ==
    /\ Len(signals) < MaxSignals
    /\ signals' = Append(signals, [signal |-> signal, job |-> r])

\* The job goes on with these fields changed and emits a signal.
Advance(r, stage, todo, signal) ==
    /\ jobs' = [jobs EXCEPT ![r].stage = stage, ![r].todo = todo]
    /\ Emit(signal, r)
    /\ UNCHANGED <<m_data, m_path, parserData>>

IsReparsing(r) == jobs[r].path = m_path /\ jobs[r].data # Null /\ ~ jobs[r].diff

\* The data that is parsed: the tables of the last parse are kept when the
\* same file is parsed again, otherwise the job makes a new object.
StartJob(r) ==
    /\ jobs[r].stage = "queued"
    /\ IF IsReparsing(r)
       THEN /\ jobs' = [jobs EXCEPT ![r].stage = "read"]
            /\ parserData' = [parserData EXCEPT ![jobs[r].data].filter = jobs[r].filter, ![jobs[r].data].diffMode = FALSE]
       ELSE /\ jobs' = [jobs EXCEPT ![r].stage = "read", ![r].data = r]
            /\ parserData' = [Released(jobs[r].data) EXCEPT ![r] =
                    [path |-> jobs[r].path, filter |-> jobs[r].filter, diffMode |-> jobs[r].diff]]
    /\ UNCHANGED <<m_data, m_path, signals>>

\* One of the files cannot be opened or read.
ReadFails(r) ==
    /\ jobs[r].stage = "read"
    /\ jobs' = [jobs EXCEPT ![r] = NoJob]
    /\ parserData' = Released(jobs[r].data)
    /\ Emit("failedToOpen", r)
    /\ UNCHANGED <<m_data, m_path>>

Read(r) ==
    /\ jobs[r].stage = "read"
    /\ Advance(r, "merge", {}, "summary")

MergeAllocations(r) ==
    /\ jobs[r].stage = "merge"
    /\ IF jobs[r].diff
       THEN Advance(r, "parallel", Views(r), "bottomUp")
       ELSE Advance(r, "histogram", {}, "bottomUp")

BuildSizeHistogram(r) ==
    /\ jobs[r].stage = "histogram"
    /\ Advance(r, "parallel", Views(r), "histogram")

\* toTopDownData, toCallerCalleeData or the second pass over the file that
\* collects the charts.
BuildView(r, view) ==
    /\ jobs[r].stage = "parallel" /\ view \in jobs[r].todo
    /\ Advance(r, "parallel", jobs[r].todo \ {view}, view)

\* Mutation of Finish: it does not wait for the views.
FinishEarly(r) ==
    /\ jobs[r].stage = "parallel"
    /\ Advance(r, "finishing", jobs[r].todo, "setData")

\* Mutation of Finish: it waits for charts, which a difference has not.
FinishCharts(r) ==
    /\ jobs[r].stage = "parallel" /\ jobs[r].todo = {} /\ ~ jobs[r].diff
    /\ Advance(r, "finishing", {}, "setData")

\* The last job of the sequence asks the GUI thread to run SetData.
Finish(r) ==
    /\ jobs[r].stage = "parallel" /\ jobs[r].todo = {}
    /\ Advance(r, "finishing", {}, "setData")

JobStep(r) ==
    \/ StartJob(r) \/ Read(r) \/ ReadFails(r) \/ MergeAllocations(r)
    \/ BuildSizeHistogram(r) \/ Finish(r)
    \/ \E view \in jobs[r].todo : BuildView(r, view)

-----------------------------------------------------------------------------
(* In the GUI thread                                                       *)

\* Mutation of SetData: the path of the first file stays.
SetDataKeepPath(r) ==
    /\ m_data' = jobs[r].data
    /\ m_path' = IF m_path = "" THEN jobs[r].path ELSE m_path
    /\ parserData' = Released(m_data)
    /\ jobs' = [jobs EXCEPT ![r] = NoJob]

\* What Finish asked for: the data can be parsed again from now on.
SetData(r) ==
    /\ m_data' = jobs[r].data
    /\ m_path' = jobs[r].path
    /\ parserData' = Released(m_data)
    /\ jobs' = [jobs EXCEPT ![r] = NoJob]

IsFiltered(d) == d # Null /\ parserData[d].filter # "all"

\* Parser::reparse returns early while the data is away, and after a diff.
CanReparse == m_data # Null /\ ~ parserData[m_data].diffMode
=============================================================================
