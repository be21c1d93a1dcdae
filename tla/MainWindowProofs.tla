-------------------------- MODULE MainWindowProofs --------------------------
(***************************************************************************)
(* Theorems about MainWindow and Parser, for any set of files, any number  *)
(* of requests and any number of signals under way.                        *)
(*                                                                         *)
(* That only one job at a time has a ParserData object takes that a job    *)
(* which has not begun has a number that no object has, and that whatever  *)
(* ends a job leaves it without data.  That a job which keeps the tables   *)
(* of the last parse reads the file they come from takes the sequence of a *)
(* job's signals: while the parser has data, and on the open page, no job  *)
(* runs and none is to be delivered, unless File > Open overtook a job.    *)
(* What the views show follows the same sequence: what a job has emitted   *)
(* is shown or on its way, and its last signal finds all of it shown.      *)
(***************************************************************************)
EXTENDS MainWindow, SequenceTheorems, TLAPS

SignalNames == AllViews \cup {"failedToOpen", "setData"}

\* A path, or none.
MaybePaths == Paths \cup {""}

Stages == {"queued", "read", "merge", "histogram", "parallel", "finishing", "ended"}

Jobs == [path : MaybePaths, diff : BOOLEAN, filter : Filters, data : Nat, stage : Stages,
        todo : SUBSET AllViews]

\* Signals come from jobs that were queued.
TypeOK ==
    /\ jobs \in Seq(Jobs) /\ m_data \in Nat /\ m_path \in MaybePaths
    /\ signals \in Seq([signal : SignalNames, job : Nat])
    /\ \A n \in DOMAIN signals : signals[n].job \in Requests

\* Objects have the number of a job that has begun, and one owner.
OwnerInv ==
    /\ m_data <= Len(jobs) /\ \A r \in Requests : jobs[r].data <= Len(jobs)
    /\ \A r \in Requests : jobs[r].stage = "queued" =>
        m_data # r /\ \A s \in Requests : jobs[s].data # r
    /\ \A r \in Requests : jobs[r].data # Null =>
        m_data # jobs[r].data /\ \A s \in Requests \ {r} : jobs[s].data # jobs[r].data

Owned == TypeOK /\ OwnerInv

USE DEF Null

-----------------------------------------------------------------------------
(* The steps that change jobs.                                             *)

\* Requests are numbered from 1, and each has a job.
LEMMA RequestsTyped ==
    ASSUME TypeOK
    PROVE  /\ Len(jobs) \in Nat /\ Requests \subseteq Nat \ {0} /\ Len(jobs) + 1 \notin Requests
           /\ \A r \in Requests : /\ r <= Len(jobs) /\ jobs[r] \in Jobs
                                /\ jobs[r].data \in Nat
<1>1. jobs \in Seq(Jobs)
  BY DEF TypeOK
<1>2. Len(jobs) \in Nat
  BY <1>1, LenProperties
<1>3. \A r \in 1 .. Len(jobs) : jobs[r] \in Jobs
  BY <1>1, ElementOfSeq
<1>4. \A job \in Jobs : job.data \in Nat
  BY DEF Jobs
<1> QED
  BY <1>2, <1>3, <1>4 DEF Requests

\* One job changes, and keeps its data or gives it up.
LEMMA JobChanges ==
    ASSUME Owned, NEW r \in Requests, NEW job \in Jobs, jobs' = [jobs EXCEPT ![r] = job],
           job.data \in {jobs[r].data, Null}, job.stage # "queued",
           m_data' = m_data, m_path' = m_path,
           signals' = signals \/ \E name \in SignalNames : signals' = Append(signals, [signal |-> name, job |-> r])
    PROVE  Owned'
<1>1. /\ jobs' \in Seq(Jobs) /\ Len(jobs') = Len(jobs)
      /\ jobs'[r] = job /\ \A s \in Requests \ {r} : jobs'[s] = jobs[s]
  <2>1. jobs \in Seq(Jobs) /\ r \in 1 .. Len(jobs)
    BY DEF Owned, TypeOK, Requests
  <2> QED
    BY <2>1, ExceptSeq
<1>2. Requests' = Requests
  BY <1>1 DEF Requests
<1>3. /\ signals' \in Seq([signal : SignalNames, job : Nat])
      /\ \A n \in DOMAIN signals' : signals'[n].job \in Requests
  <2>1. CASE signals' = signals
    BY <2>1 DEF Owned, TypeOK
  <2>2. ASSUME NEW name \in SignalNames, signals' = Append(signals, [signal |-> name, job |-> r])
        PROVE <1>3!1 /\ <1>3!2
    <3>1. [signal |-> name, job |-> r] \in [signal : SignalNames, job : Nat]
      BY DEF Requests
    <3>2. signals \in Seq([signal : SignalNames, job : Nat])
      BY DEF Owned, TypeOK
    <3>3. /\ signals' \in Seq([signal : SignalNames, job : Nat])
          /\ Len(signals') = Len(signals) + 1 /\ Len(signals) \in Nat
          /\ signals'[Len(signals) + 1].job = r
          /\ \A n \in 1 .. Len(signals) : signals'[n] = signals[n]
      BY <2>2, <3>1, <3>2, AppendProperties, LenProperties
    <3>4. DOMAIN signals' = 1 .. Len(signals) + 1 /\ DOMAIN signals = 1 .. Len(signals)
      BY <3>2, <3>3, LenProperties
    <3>5. ASSUME NEW n \in DOMAIN signals' PROVE signals'[n].job \in Requests
      <4>1. CASE n = Len(signals) + 1
        BY <3>3, <4>1
      <4>2. CASE n \in 1 .. Len(signals)
        BY <3>3, <3>4, <4>2 DEF Owned, TypeOK
      <4> QED
        BY <3>3, <3>4, <4>1, <4>2
    <3> QED
      BY <3>3, <3>5
  <2> QED
    BY <2>1, <2>2
<1>4. TypeOK'
  BY <1>1, <1>2, <1>3 DEF Owned, TypeOK
<1>5. \A s \in Requests : /\ jobs'[s].data \in {jobs[s].data, Null}
                          /\ jobs'[s].stage = "queued" => jobs[s].stage = "queued"
  BY <1>1
<1>6. OwnerInv'
  BY <1>1, <1>2, <1>5 DEF Owned, OwnerInv, Requests
<1> QED
  BY <1>4, <1>6 DEF Owned

\* A request takes the data of the parser with it.
LEMMA RequestStep ==
    ASSUME Owned, NEW p \in MaybePaths, NEW d \in BOOLEAN, NEW f \in Filters,
           ParseImpl(p, d, f)
    PROVE  Owned'
<1> DEFINE new == NewJob(p, d, f)
<1>1. new \in Jobs
  BY DEF NewJob, Jobs, Stages, Owned, TypeOK
<1>2. /\ jobs' \in Seq(Jobs) /\ Len(jobs') = Len(jobs) + 1 /\ Len(jobs) \in Nat
      /\ jobs'[Len(jobs) + 1] = new /\ \A s \in Requests : jobs'[s] = jobs[s]
  <2>1. jobs \in Seq(Jobs)
    BY DEF Owned, TypeOK
  <2>2. jobs' = Append(jobs, new)
    BY DEF ParseImpl
  <2> HIDE DEF new
  <2>3. Len(jobs) \in Nat
    BY <2>1, LenProperties
  <2>4. jobs' \in Seq(Jobs) /\ Len(jobs') = Len(jobs) + 1 /\ jobs'[Len(jobs) + 1] = new
    BY <1>1, <2>1, <2>2, AppendProperties
  <2>5. \A s \in 1 .. Len(jobs) : jobs'[s] = jobs[s]
    BY <1>1, <2>1, <2>2, AppendProperties
  <2> QED
    BY <2>3, <2>4, <2>5 DEF Requests
<1>3. Requests' = Requests \cup {Len(jobs) + 1}
  <2>1. Requests' = 1 .. Len(jobs) + 1
    BY <1>2 DEF Requests
  <2> QED
    BY <1>2, <2>1 DEF Requests
<1>4. TypeOK'
  BY <1>2, <1>3 DEF TypeOK, ParseImpl, Owned
<1>5. new.data = m_data /\ new.stage = "queued"
  BY DEF NewJob
<1> HIDE DEF new
<1>6. m_data' = Null /\ m_data \in Nat /\ m_data <= Len(jobs)
  BY DEF ParseImpl, Owned, TypeOK, OwnerInv
<1>7. /\ \A s \in Requests : jobs[s].data <= Len(jobs) /\ jobs[s].data \in Nat
      /\ \A s \in Requests : s # Len(jobs) + 1 /\ s <= Len(jobs) /\ s \in Nat /\ s # 0
  BY RequestsTyped DEF Owned, OwnerInv
<1>8. OwnerInv'
  <2>1. m_data' <= Len(jobs') /\ \A s \in Requests' : jobs'[s].data <= Len(jobs')
    BY <1>2, <1>3, <1>5, <1>6, <1>7
  <2>2. ASSUME NEW s \in Requests', jobs'[s].stage = "queued"
        PROVE m_data' # s /\ \A q \in Requests' : jobs'[q].data # s
    BY <1>2, <1>3, <1>5, <1>6, <1>7, <2>2 DEF OwnerInv, Owned
  <2>3. ASSUME NEW s \in Requests', jobs'[s].data # Null
        PROVE m_data' # jobs'[s].data /\ \A q \in Requests' \ {s} : jobs'[q].data # jobs'[s].data
    BY <1>2, <1>3, <1>5, <1>6, <1>7, <2>3 DEF OwnerInv, Owned
  <2> QED
    BY <2>1, <2>2, <2>3 DEF OwnerInv
<1> QED
  BY <1>4, <1>8 DEF Owned

\* The first step of a job that does not parse its data again makes an object.
LEMMA StartStep ==
    ASSUME Owned, NEW r \in Requests, StartJob(r)
    PROVE  Owned'
<1>1. jobs[r] \in Jobs /\ jobs[r].stage = "queued"
  <2>1. jobs \in Seq(Jobs) /\ r \in 1 .. Len(jobs)
    BY DEF Owned, TypeOK, Requests
  <2> QED
    BY <2>1, ElementOfSeq DEF StartJob
<1>2. CASE IsReparsing(r)
  <2>1. [jobs[r] EXCEPT !.stage = "read"] \in Jobs
    BY <1>1 DEF Jobs, Stages
  <2>2. jobs' = [jobs EXCEPT ![r] = [jobs[r] EXCEPT !.stage = "read"]]
    BY <1>2 DEF StartJob
  <2> QED
    BY <1>1, <1>2, <2>1, <2>2, JobChanges DEF StartJob, Jobs
<1>3. CASE ~ IsReparsing(r)
  <2> DEFINE job == [jobs[r] EXCEPT !.stage = "read", !.data = r]
  <2>1. job \in Jobs /\ job.data = r /\ job.stage = "read"
    <3>1. r \in Nat
      BY LenProperties DEF Requests
    <3> QED
      BY <1>1, <3>1 DEF Jobs, Stages
  <2>2. jobs' = [jobs EXCEPT ![r] = job]
    BY <1>3 DEF StartJob
  <2> HIDE DEF job
  <2>3. /\ jobs' \in Seq(Jobs) /\ Len(jobs') = Len(jobs)
        /\ jobs'[r] = job /\ \A s \in Requests \ {r} : jobs'[s] = jobs[s]
    <3>1. jobs \in Seq(Jobs) /\ r \in 1 .. Len(jobs)
      BY DEF Owned, TypeOK, Requests
    <3> QED
      BY <2>1, <2>2, <3>1, ExceptSeq
  <2>4. Requests' = Requests
    BY <2>3 DEF Requests
  <2>5. TypeOK'
    BY <2>3, <2>4 DEF StartJob, Owned, TypeOK
  <2>6. m_data' = m_data /\ \A s \in Requests : jobs[s].data # r /\ m_data # r /\ r # 0 /\ r <= Len(jobs)
    BY <1>1, RequestsTyped DEF StartJob, Owned, OwnerInv
  <2>7. OwnerInv'
    BY <2>1, <2>3, <2>4, <2>6 DEF Owned, OwnerInv
  <2> QED
    BY <2>5, <2>7 DEF Owned
<1> QED
  BY <1>2, <1>3

\* Every other step of a job keeps its data, or ends with it given up.
LEMMA JobStepOwner ==
    ASSUME Owned, NEW r \in Requests, JobStep(r)
    PROVE  Owned'
<1>1. jobs[r] \in Jobs
  BY RequestsTyped DEF Owned
<1>2. ASSUME NEW next \in Stages \ {"queued"}, NEW left \in SUBSET AllViews, NEW name \in SignalNames,
             Advance(r, next, left, name)
      PROVE Owned'
  <2>1. [jobs[r] EXCEPT !.stage = next, !.todo = left] \in Jobs
    BY <1>1 DEF Jobs
  <2>2. jobs' = [jobs EXCEPT ![r] = [jobs[r] EXCEPT !.stage = next, !.todo = left]]
    BY <1>2 DEF Advance
  <2>3. m_data' = m_data /\ m_path' = m_path
        /\ signals' = Append(signals, [signal |-> name, job |-> r])
    BY <1>2 DEF Advance, Emit
  <2>4. [jobs[r] EXCEPT !.stage = next, !.todo = left].data = jobs[r].data
        /\ [jobs[r] EXCEPT !.stage = next, !.todo = left].stage = next
    BY <1>1 DEF Jobs
  <2> QED
    BY <2>1, <2>2, <2>3, <2>4, JobChanges
<1>3. /\ Views(r) \in SUBSET AllViews /\ {} \in SUBSET AllViews
      /\ "merge" \in Stages \ {"queued"} /\ "histogram" \in Stages \ {"queued"}
      /\ "parallel" \in Stages \ {"queued"} /\ "finishing" \in Stages \ {"queued"}
      /\ "summary" \in SignalNames /\ "bottomUp" \in SignalNames /\ "histogram" \in SignalNames
      /\ "setData" \in SignalNames /\ "failedToOpen" \in SignalNames
  BY DEF Views, AllViews, Stages, SignalNames
<1>4. CASE StartJob(r)
  BY <1>4, StartStep
<1>5. CASE Read(r)
  BY <1>2, <1>3, <1>5 DEF Read
<1>6. CASE ReadFails(r)
  <2>1. NoJob \in Jobs /\ NoJob.data = Null /\ NoJob.stage = "ended"
    BY DEF NoJob, Jobs, Stages, MaybePaths, Filters
  <2>2. jobs' = [jobs EXCEPT ![r] = NoJob] /\ m_data' = m_data /\ m_path' = m_path
        /\ signals' = Append(signals, [signal |-> "failedToOpen", job |-> r])
    BY <1>6 DEF ReadFails, Emit
  <2> QED
    BY <1>3, <2>1, <2>2, JobChanges
<1>7. CASE MergeAllocations(r)
  BY <1>2, <1>3, <1>7 DEF MergeAllocations
<1>8. CASE BuildSizeHistogram(r)
  BY <1>2, <1>3, <1>8 DEF BuildSizeHistogram
<1>9. CASE Finish(r)
  BY <1>2, <1>3, <1>9 DEF Finish
<1>10. ASSUME NEW view \in jobs[r].todo, BuildView(r, view) PROVE Owned'
  <2>1. jobs[r].todo \in SUBSET AllViews
    BY <1>1 DEF Jobs
  <2>2. view \in SignalNames /\ jobs[r].todo \ {view} \in SUBSET AllViews
    BY <1>10, <2>1 DEF SignalNames
  <2> QED
    BY <1>2, <1>3, <1>10, <2>2 DEF BuildView
<1> QED
  BY <1>4, <1>5, <1>6, <1>7, <1>8, <1>9, <1>10 DEF JobStep

\* What does not touch the parser.
LEMMA Unchanged == ASSUME Owned, UNCHANGED parser PROVE Owned'
BY DEF Owned, TypeOK, OwnerInv, parser, Requests

\* A signal is delivered; setData hands the data over to the parser.
LEMMA DeliverOwner == ASSUME Owned, Deliver PROVE Owned'
<1> DEFINE n == Head(signals).signal
           r == Head(signals).job
<1>1. /\ signals \in Seq([signal : SignalNames, job : Nat]) /\ signals # <<>>
      /\ signals' = Tail(signals)
  BY DEF Owned, TypeOK, Deliver
<1>2. /\ Head(signals) = signals[1] /\ 1 \in DOMAIN signals
      /\ signals' \in Seq([signal : SignalNames, job : Nat])
      /\ Len(signals') = Len(signals) - 1
      /\ \A k \in 1 .. Len(signals') : signals'[k] = signals[k + 1]
  BY <1>1, HeadTailProperties, LenProperties, EmptySeq
<1>3. r \in Requests /\ \A k \in DOMAIN signals' : signals'[k].job \in Requests
  <2>1. DOMAIN signals = 1 .. Len(signals) /\ DOMAIN signals' = 1 .. Len(signals') /\ Len(signals) \in Nat
    BY <1>1, <1>2, LenProperties
  <2>2. \A k \in DOMAIN signals' : k + 1 \in DOMAIN signals
    BY <1>2, <2>1
  <2> QED
    BY <1>2, <2>1, <2>2 DEF Owned, TypeOK
<1> HIDE DEF n, r
<1>4. CASE UNCHANGED <<m_data, m_path, jobs>>
  <2>1. Requests' = Requests
    BY <1>4 DEF Requests
  <2> QED
    BY <1>2, <1>3, <1>4, <2>1 DEF Owned, TypeOK, OwnerInv
<1>5. CASE SetData(r)
  <2>1. NoJob \in Jobs /\ NoJob.data = Null /\ NoJob.stage = "ended"
    BY DEF NoJob, Jobs, Stages, MaybePaths, Filters
  <2>2. /\ jobs' = [jobs EXCEPT ![r] = NoJob] /\ m_data' = jobs[r].data /\ m_path' = jobs[r].path
    BY <1>5 DEF SetData
  <2>3. /\ jobs' \in Seq(Jobs) /\ Len(jobs') = Len(jobs)
        /\ jobs'[r] = NoJob /\ \A s \in Requests \ {r} : jobs'[s] = jobs[s]
    <3>1. jobs \in Seq(Jobs) /\ r \in 1 .. Len(jobs)
      BY <1>3 DEF Owned, TypeOK, Requests
    <3> QED
      BY <2>1, <2>2, <3>1, ExceptSeq DEF Requests
  <2>4. Requests' = Requests
    BY <2>3 DEF Requests
  <2>5. jobs[r].data \in Nat /\ jobs[r].path \in MaybePaths /\ jobs[r].data <= Len(jobs)
    BY <1>3, RequestsTyped DEF Owned, OwnerInv, Jobs
  <2>6. TypeOK'
    BY <1>2, <1>3, <2>2, <2>3, <2>4, <2>5 DEF TypeOK
  <2>7. \A s \in Requests : s # 0
    BY RequestsTyped DEF Owned
  <2>8. OwnerInv'
    BY <1>3, <2>1, <2>2, <2>3, <2>4, <2>5, <2>7, RequestsTyped DEF OwnerInv, Owned
  <2> QED
    BY <2>6, <2>8 DEF Owned
<1> QED
  BY <1>4, <1>5 DEF Deliver, ViewAvailable, FailedToOpen, Finished, n, r

\* Every step keeps the types and the owners.
LEMMA OwnerStep == ASSUME Owned, lastFilter \in Filters, [Next]_vars PROVE Owned'
<1>1. ASSUME NEW path \in Paths, NEW diff \in BOOLEAN, LoadFile(path, diff) PROVE Owned'
  <2>1. path \in MaybePaths /\ lastFilter \in Filters
    BY DEF MaybePaths, Owned, TypeOK
  <2>2. ParseImpl(path, diff, lastFilter)
    BY <1>1 DEF LoadFile
  <2> QED
    BY <2>1, <2>2, RequestStep
<1>2. ASSUME NEW filter \in Filters, Reparse(filter) PROVE Owned'
  <2>1. CASE CanReparse
    <3>1. m_path \in MaybePaths /\ FALSE \in BOOLEAN
      BY DEF Owned, TypeOK
    <3>2. ParseImpl(m_path, FALSE, filter)
      BY <1>2, <2>1 DEF Reparse
    <3> QED
      BY <3>1, <3>2, RequestStep
  <2>2. CASE ~ CanReparse
    BY <1>2, <2>2, Unchanged DEF Reparse
  <2> QED
    BY <2>1, <2>2
<1>3. CASE CloseFile
  BY <1>3, Unchanged DEF CloseFile
<1>4. CASE ClickChart
  BY <1>4, Unchanged DEF ClickChart
<1>5. CASE DragOnChart
  BY <1>5, Unchanged DEF DragOnChart
<1>6. CASE Job
  BY <1>6, JobStepOwner DEF Job
<1>7. CASE Deliver
  BY <1>7, DeliverOwner
<1>8. CASE UNCHANGED vars
  BY <1>8, Unchanged DEF vars
<1> QED
  BY <1>1, <1>2, <1>3, <1>4, <1>5, <1>6, <1>7, <1>8 DEF Next, User

-----------------------------------------------------------------------------
(* As long as File > Open is not used while a job runs, there is one job.  *)

ParsedData == [path : MaybePaths, filter : Filters, diffMode : BOOLEAN]

\* Bounds and kinds of what the first part does not need.
BoundInv ==
    /\ Len(jobs) <= MaxRequests /\ parserData \in [1 .. MaxRequests -> ParsedData]
    /\ lastFilter \in Filters

\* A request is only made when no job runs and nothing is to be delivered; the
\* signal that ends a job is its last.
SequenceInv ==
    /\ \A r, s \in Requests : Running(r) /\ Running(s) => r = s
    /\ (\E r \in Requests : Running(r)) => m_data = Null /\ page # "open"
    /\ m_data # Null \/ page = "open" => signals = <<>>
    /\ \A r \in Requests : jobs[r].stage \in {"queued", "read"} => signals = <<>>
    /\ \A n \in DOMAIN signals :
        /\ signals[n].signal = "setData" => n = Len(signals) /\ jobs[signals[n].job].stage = "finishing"
        /\ signals[n].signal = "failedToOpen" => Len(signals) = 1 /\ \A r \in Requests : ~ Running(r)

\* The data that is kept is that of m_path; a job that has begun has data of its path.
PathInv ==
    /\ m_data # Null => parserData[m_data].path = m_path
    /\ \A r \in Requests :
        /\ jobs[r].stage = "queued" /\ jobs[r].data # Null => parserData[jobs[r].data].path = m_path
        /\ jobs[r].stage \notin {"queued", "ended"} =>
                jobs[r].data # Null /\ parserData[jobs[r].data].path = jobs[r].path

IInv == Owned /\ BoundInv /\ (overtaken \/ (SequenceInv /\ PathInv))

\* Objects are known to parserData.
LEMMA DataTyped ==
    ASSUME Owned, BoundInv
    PROVE  /\ DOMAIN parserData = 1 .. MaxRequests /\ MaxRequests \in Nat
           /\ Requests \subseteq 1 .. MaxRequests
           /\ m_data # Null => m_data \in 1 .. MaxRequests
           /\ \A r \in Requests : jobs[r].data # Null => jobs[r].data \in 1 .. MaxRequests
<1>1. Len(jobs) \in Nat /\ m_data \in Nat /\ m_data <= Len(jobs)
      /\ \A r \in Requests : jobs[r].data \in Nat /\ jobs[r].data <= Len(jobs)
  BY RequestsTyped DEF Owned, OwnerInv, TypeOK
<1>2. Len(jobs) <= MaxRequests /\ MaxRequests \in Nat /\ DOMAIN parserData = 1 .. MaxRequests
  BY ParserAssumption DEF BoundInv
<1>3. \A r \in Requests : r \in 1 .. MaxRequests
  BY <1>1, <1>2 DEF Requests
<1>4. \A d \in Nat : d <= Len(jobs) /\ d # 0 => d \in 1 .. MaxRequests
  BY <1>1, <1>2
<1> QED
  BY <1>1, <1>2, <1>3, <1>4

\* What happens to an object: it is released, or described anew.
LEMMA ReleasedTyped ==
    ASSUME NEW d, parserData \in [1 .. MaxRequests -> ParsedData]
    PROVE  /\ Released(d) \in [1 .. MaxRequests -> ParsedData]
           /\ \A e \in 1 .. MaxRequests : e # d => Released(d)[e] = parserData[e]
<1>1. NoData \in ParsedData
  BY DEF NoData, ParsedData, MaybePaths, Filters
<1> QED
  BY <1>1 DEF Released

\* The bounds.
LEMMA BoundStep == ASSUME Owned, BoundInv, [Next]_vars PROVE BoundInv'
<1>1. ASSUME NEW path \in MaybePaths, NEW diff \in BOOLEAN, NEW filter \in Filters,
             ParseImpl(path, diff, filter), Len(jobs) < MaxRequests
      PROVE Len(jobs') <= MaxRequests /\ parserData' \in [1 .. MaxRequests -> ParsedData]
  <2>1. Len(jobs') = Len(jobs) + 1 /\ Len(jobs) \in Nat /\ MaxRequests \in Nat
    <3>1. jobs' = Append(jobs, NewJob(path, diff, filter)) /\ jobs \in Seq(Jobs)
      BY <1>1 DEF ParseImpl, Owned, TypeOK
    <3>2. NewJob(path, diff, filter) \in Jobs
      BY DEF NewJob, Jobs, Stages, Owned, TypeOK
    <3> QED
      BY <3>1, <3>2, AppendProperties, LenProperties, ParserAssumption
  <2> QED
    BY <1>1, <2>1 DEF ParseImpl, BoundInv
<1>2. ASSUME NEW path \in Paths, NEW diff \in BOOLEAN, LoadFile(path, diff) PROVE BoundInv'
  <2>1. path \in MaybePaths /\ lastFilter \in Filters /\ ParseImpl(path, diff, lastFilter)
        /\ lastFilter' = lastFilter /\ Len(jobs) < MaxRequests
    BY <1>2 DEF MaybePaths, BoundInv, LoadFile
  <2> QED
    BY <1>1, <2>1 DEF BoundInv
<1>3. ASSUME NEW filter \in Filters, Reparse(filter) PROVE BoundInv'
  <2>1. lastFilter' = filter
    BY <1>3 DEF Reparse
  <2>2. CASE CanReparse
    <3>1. m_path \in MaybePaths /\ ParseImpl(m_path, FALSE, filter) /\ Len(jobs) < MaxRequests
      BY <1>3, <2>2 DEF Reparse, Owned, TypeOK
    <3> QED
      BY <1>1, <2>1, <3>1 DEF BoundInv
  <2>3. CASE ~ CanReparse
    BY <1>3, <2>1, <2>3 DEF Reparse, BoundInv, parser
  <2> QED
    BY <2>2, <2>3
<1>4. ASSUME NEW r \in Requests, JobStep(r), UNCHANGED window PROVE BoundInv'
  <2>1. Len(jobs') = Len(jobs)
    <3>1. jobs \in Seq(Jobs) /\ r \in 1 .. Len(jobs)
      BY DEF Owned, TypeOK, Requests
    <3>2. Owned'
      BY <1>4, JobStepOwner
    <3>3. DOMAIN jobs' = DOMAIN jobs
      BY <1>4 DEF JobStep, StartJob, Read, ReadFails, MergeAllocations, BuildSizeHistogram, Finish,
                  BuildView, Advance
    <3> QED
      BY <3>1, <3>2, <3>3, LenProperties DEF Owned, TypeOK
  <2>2. parserData' \in [1 .. MaxRequests -> ParsedData]
    <3>1. jobs[r] \in Jobs /\ r \in 1 .. MaxRequests
      BY RequestsTyped, DataTyped DEF Owned
    <3>2. parserData \in [1 .. MaxRequests -> ParsedData]
      BY DEF BoundInv
    <3>3. CASE StartJob(r) /\ IsReparsing(r)
      <4>1. jobs[r].data \in 1 .. MaxRequests /\ jobs[r].filter \in Filters
        BY <3>1, <3>3, DataTyped DEF IsReparsing, Jobs
      <4> QED
        BY <3>2, <3>3, <4>1 DEF StartJob, ParsedData
    <3>4. CASE StartJob(r) /\ ~ IsReparsing(r)
      <4>1. [path |-> jobs[r].path, filter |-> jobs[r].filter, diffMode |-> jobs[r].diff] \in ParsedData
        BY <3>1 DEF ParsedData, Jobs
      <4> QED
        BY <3>1, <3>2, <3>4, <4>1, ReleasedTyped DEF StartJob
    <3>5. CASE ReadFails(r)
      BY <3>2, <3>5, ReleasedTyped DEF ReadFails
    <3>6. CASE UNCHANGED parserData
      BY <3>2, <3>6
    <3> QED
      BY <1>4, <3>3, <3>4, <3>5, <3>6 DEF JobStep, Read, MergeAllocations, BuildSizeHistogram,
         Finish, BuildView, Advance
  <2> QED
    BY <1>4, <2>1, <2>2 DEF BoundInv, window
<1>5. CASE Deliver
  <2>1. Len(jobs') = Len(jobs)
    <3>1. Owned'
      BY <1>5, DeliverOwner
    <3>2. DOMAIN jobs' = DOMAIN jobs
      BY <1>5 DEF Deliver, ViewAvailable, FailedToOpen, Finished, SetData
    <3> QED
      BY <3>1, <3>2, LenProperties DEF Owned, TypeOK
  <2>2. parserData' = parserData \/ parserData' = Released(m_data)
    BY <1>5 DEF Deliver, ViewAvailable, FailedToOpen, Finished, SetData
  <2>3. lastFilter' = lastFilter
    BY <1>5 DEF Deliver
  <2> QED
    BY <2>1, <2>2, <2>3, ReleasedTyped DEF BoundInv
<1>6. CASE UNCHANGED <<parser, lastFilter>>
  BY <1>6 DEF parser, BoundInv
<1> QED
  BY <1>2, <1>3, <1>4, <1>5, <1>6 DEF Next, User, Job, CloseFile, ClickChart, DragOnChart, vars, window

-----------------------------------------------------------------------------
(* The order of a job's signals, and the path of its data.                 *)

\* While a job runs it is the only one, and the parser has no data.
LEMMA SoleJob ==
    ASSUME Owned, SequenceInv, NEW r \in Requests, Running(r)
    PROVE  /\ \A s \in Requests : s # r => jobs[s].stage = "ended"
           /\ m_data = Null /\ page # "open"
BY DEF SequenceInv, Running

\* A request that is made while no job runs and no signal is to be delivered.
LEMMA RequestSequence ==
    ASSUME Owned, BoundInv, SequenceInv, PathInv,
           NEW p \in MaybePaths, NEW d \in BOOLEAN, NEW f \in Filters, ParseImpl(p, d, f),
           signals = <<>>, \A r \in Requests : ~ Running(r), page' = "loading"
    PROVE  SequenceInv' /\ PathInv'
<1> DEFINE new == NewJob(p, d, f)
<1>1. new.data = m_data /\ new.stage = "queued" /\ new \in Jobs
  BY DEF NewJob, Jobs, Stages, Owned, TypeOK
<1>2. jobs' = Append(jobs, new) /\ jobs \in Seq(Jobs) /\ m_data' = Null /\ m_path' = m_path
      /\ parserData' = parserData /\ signals' = <<>>
  BY DEF ParseImpl, Owned, TypeOK
<1> HIDE DEF new
<1>3. /\ Len(jobs) \in Nat /\ Len(jobs') = Len(jobs) + 1 /\ jobs'[Len(jobs) + 1] = new
      /\ \A s \in 1 .. Len(jobs) : jobs'[s] = jobs[s]
  BY <1>1, <1>2, AppendProperties, LenProperties
<1>4. /\ Requests' = Requests \cup {Len(jobs) + 1} /\ Len(jobs) + 1 \notin Requests
      /\ \A s \in Requests : jobs'[s].stage = "ended"
  BY <1>3 DEF Requests, Running
<1>5. SequenceInv'
  <2>1. DOMAIN signals' = {}
    BY <1>2
  <2>2. \A r \in Requests' : Running(r)' => r = Len(jobs) + 1
    BY <1>4 DEF Running
  <2> QED
    BY <1>2, <2>1, <2>2 DEF SequenceInv
<1>6. PathInv'
  BY <1>1, <1>2, <1>3, <1>4 DEF PathInv
<1> QED
  BY <1>5, <1>6

\* A running job goes on and emits a signal: setData once it finishes.
LEMMA AdvanceSequence ==
    ASSUME Owned, BoundInv, SequenceInv, PathInv, NEW r \in Requests,
           NEW next \in {"merge", "histogram", "parallel", "finishing"}, NEW left \in SUBSET AllViews,
           NEW name \in SignalNames \ {"failedToOpen"}, Advance(r, next, left, name),
           jobs[r].stage \in {"read", "merge", "histogram", "parallel"},
           name = "setData" => next = "finishing", page' = page
    PROVE  SequenceInv' /\ PathInv'
<1>1. /\ jobs' = [jobs EXCEPT ![r] = [jobs[r] EXCEPT !.stage = next, !.todo = left]]
      /\ m_data' = m_data /\ m_path' = m_path /\ parserData' = parserData
      /\ signals' = Append(signals, [signal |-> name, job |-> r])
  BY DEF Advance, Emit
<1>2. /\ jobs[r] \in Jobs /\ jobs \in Seq(Jobs) /\ r \in 1 .. Len(jobs)
  BY RequestsTyped DEF Owned, TypeOK, Requests
<1> DEFINE job == [jobs[r] EXCEPT !.stage = next, !.todo = left]
<1>3. job \in Jobs /\ job.stage = next /\ job.data = jobs[r].data /\ job.path = jobs[r].path
  BY <1>2 DEF Jobs, Stages
<1>a. jobs' = [jobs EXCEPT ![r] = job]
  BY <1>1
<1> HIDE DEF job
<1>4. /\ Len(jobs') = Len(jobs) /\ jobs'[r] = job /\ \A s \in Requests \ {r} : jobs'[s] = jobs[s]
  BY <1>2, <1>3, <1>a, ExceptSeq DEF Requests
<1>5. Requests' = Requests
  BY <1>4 DEF Requests
<1>6. /\ \A s \in Requests \ {r} : jobs[s].stage = "ended"
      /\ m_data = Null /\ page # "open" /\ Running(r)
  BY SoleJob DEF Running
<1>7. /\ signals \in Seq([signal : SignalNames, job : Nat]) /\ [signal |-> name, job |-> r] \in [signal : SignalNames, job : Nat]
  BY <1>2 DEF Owned, TypeOK
<1>8. /\ Len(signals) \in Nat /\ Len(signals') = Len(signals) + 1
      /\ signals'[Len(signals) + 1] = [signal |-> name, job |-> r]
      /\ \A n \in 1 .. Len(signals) : signals'[n] = signals[n]
      /\ DOMAIN signals = 1 .. Len(signals) /\ DOMAIN signals' = 1 .. Len(signals) + 1
  <2>1. signals' \in Seq([signal : SignalNames, job : Nat]) /\ Len(signals') = Len(signals) + 1
    BY <1>1, <1>7, AppendProperties
  <2> QED
    BY <1>1, <1>7, <2>1, AppendProperties, LenProperties
<1>9. \A n \in 1 .. Len(signals) : signals[n].signal # "setData" /\ signals[n].signal # "failedToOpen"
  <2>1. ASSUME NEW n \in 1 .. Len(signals) PROVE signals[n].signal # "setData"
    <3>1. signals[n].job \in Requests
      BY <1>8 DEF Owned, TypeOK
    <3>2. jobs[signals[n].job].stage # "finishing"
      BY <1>6, <3>1
    <3> QED
      BY <1>8, <3>2 DEF SequenceInv
  <2>2. ASSUME NEW n \in 1 .. Len(signals) PROVE signals[n].signal # "failedToOpen"
    BY <1>6, <1>8 DEF SequenceInv
  <2> QED
    BY <2>1, <2>2
<1>10. SequenceInv'
  <2>1. /\ \A s \in Requests' : Running(s)' => s = r
    BY <1>4, <1>5, <1>6 DEF Running
  <2>2. m_data' = Null /\ page' # "open"
    BY <1>1, <1>6
  <2>3. \A s \in Requests' : jobs'[s].stage \notin {"queued", "read"}
    BY <1>3, <1>4, <1>5, <1>6
  <2>4. ASSUME NEW n \in DOMAIN signals'
        PROVE  /\ signals'[n].signal = "setData" => n = Len(signals') /\ jobs'[signals'[n].job].stage = "finishing"
               /\ signals'[n].signal # "failedToOpen"
    <3>1. CASE n \in 1 .. Len(signals)
      BY <1>8, <1>9, <3>1
    <3>2. CASE n = Len(signals) + 1
      BY <1>3, <1>4, <1>8, <3>2
    <3> QED
      BY <1>8, <3>1, <3>2
  <2> QED
    BY <2>1, <2>2, <2>3, <2>4 DEF SequenceInv
<1>11. PathInv'
  <2>1. jobs[r].data # Null /\ parserData[jobs[r].data].path = jobs[r].path
    BY DEF PathInv
  <2> QED
    BY <1>1, <1>3, <1>4, <1>5, <1>6, <2>1 DEF PathInv
<1> QED
  BY <1>10, <1>11

\* A job begins: it parses the data of its path again, or makes an object.
LEMMA StartSequence ==
    ASSUME Owned, BoundInv, SequenceInv, PathInv, NEW r \in Requests, StartJob(r), page' = page
    PROVE  SequenceInv' /\ PathInv'
<1>1. /\ jobs[r].stage = "queued" /\ m_data' = m_data /\ m_path' = m_path /\ signals' = signals
  BY DEF StartJob
<1>2. /\ jobs[r] \in Jobs /\ jobs \in Seq(Jobs) /\ r \in 1 .. Len(jobs)
      /\ r \in 1 .. MaxRequests /\ r \in Nat /\ r # 0
  BY RequestsTyped, DataTyped DEF Owned, TypeOK, Requests
<1>3. /\ \A s \in Requests \ {r} : jobs[s].stage = "ended"
      /\ m_data = Null /\ page # "open" /\ signals = <<>>
  BY <1>1, SoleJob DEF Running, SequenceInv
<1>4. PICK job \in Jobs :
        /\ jobs' = [jobs EXCEPT ![r] = job] /\ job.stage = "read" /\ job.path = jobs[r].path
        /\ job.data # Null /\ parserData'[job.data].path = job.path
  <2>1. CASE IsReparsing(r)
    <3> DEFINE again == [jobs[r] EXCEPT !.stage = "read"]
    <3>1. again \in Jobs /\ again.stage = "read" /\ again.path = jobs[r].path /\ again.data = jobs[r].data
      BY <1>2 DEF Jobs, Stages
    <3>2. jobs' = [jobs EXCEPT ![r] = again]
      BY <2>1 DEF StartJob
    <3> HIDE DEF again
    <3>3. /\ parserData[jobs[r].data].path = jobs[r].path /\ jobs[r].data # Null
          /\ jobs[r].data \in 1 .. MaxRequests
      BY <1>1, <2>1, DataTyped DEF IsReparsing, PathInv
    <3>4. parserData' = [parserData EXCEPT ![jobs[r].data].filter = jobs[r].filter,
                                           ![jobs[r].data].diffMode = FALSE]
      BY <2>1 DEF StartJob
    <3>5. parserData'[jobs[r].data].path = parserData[jobs[r].data].path
      <4>1. parserData[jobs[r].data] \in ParsedData
        BY <3>3 DEF BoundInv
      <4> QED
        BY <3>3, <3>4, <4>1 DEF BoundInv, ParsedData
    <3> QED
      BY <3>1, <3>2, <3>3, <3>5
  <2>2. CASE ~ IsReparsing(r)
    <3> DEFINE fresh == [jobs[r] EXCEPT !.stage = "read", !.data = r]
    <3>1. fresh \in Jobs /\ fresh.stage = "read" /\ fresh.path = jobs[r].path /\ fresh.data = r
      BY <1>2 DEF Jobs, Stages
    <3>2. jobs' = [jobs EXCEPT ![r] = fresh]
      BY <2>2 DEF StartJob
    <3> HIDE DEF fresh
    <3>3. parserData'[r].path = jobs[r].path
      <4>1. Released(jobs[r].data) \in [1 .. MaxRequests -> ParsedData]
        BY ReleasedTyped DEF BoundInv
      <4>2. parserData' = [Released(jobs[r].data) EXCEPT ![r] =
                [path |-> jobs[r].path, filter |-> jobs[r].filter, diffMode |-> jobs[r].diff]]
        BY <2>2 DEF StartJob
      <4> QED
        BY <1>2, <4>1, <4>2
    <3> QED
      BY <1>2, <3>1, <3>2, <3>3
  <2> QED
    BY <2>1, <2>2
<1>5. /\ Len(jobs') = Len(jobs) /\ jobs'[r] = job /\ \A s \in Requests \ {r} : jobs'[s] = jobs[s]
  BY <1>2, <1>4, ExceptSeq DEF Requests
<1>6. Requests' = Requests
  BY <1>5 DEF Requests
<1>7. SequenceInv'
  <2>1. DOMAIN signals' = {}
    BY <1>1, <1>3
  <2>2. \A s \in Requests' : Running(s)' => s = r
    BY <1>3, <1>5, <1>6 DEF Running
  <2> QED
    BY <1>1, <1>3, <2>1, <2>2 DEF SequenceInv
<1>8. PathInv'
  BY <1>1, <1>3, <1>4, <1>5, <1>6 DEF PathInv
<1> QED
  BY <1>7, <1>8

\* A file cannot be read: no job runs any more, and the window learns it.
LEMMA FailSequence ==
    ASSUME Owned, BoundInv, SequenceInv, PathInv, NEW r \in Requests, ReadFails(r), page' = page
    PROVE  SequenceInv' /\ PathInv'
<1>1. /\ jobs[r].stage = "read" /\ jobs' = [jobs EXCEPT ![r] = NoJob]
      /\ m_data' = m_data /\ m_path' = m_path
      /\ signals' = Append(signals, [signal |-> "failedToOpen", job |-> r])
  BY DEF ReadFails, Emit
<1>2. /\ \A s \in Requests \ {r} : jobs[s].stage = "ended"
      /\ m_data = Null /\ page # "open" /\ signals = <<>>
  BY <1>1, SoleJob DEF Running, SequenceInv
<1>3. NoJob \in Jobs /\ NoJob.stage = "ended" /\ jobs \in Seq(Jobs) /\ r \in 1 .. Len(jobs)
  BY DEF NoJob, Jobs, Stages, MaybePaths, Filters, Owned, TypeOK, Requests
<1>4. /\ Len(jobs') = Len(jobs) /\ jobs'[r] = NoJob /\ \A s \in Requests \ {r} : jobs'[s] = jobs[s]
  BY <1>1, <1>3, ExceptSeq DEF Requests
<1>5. Requests' = Requests /\ \A s \in Requests' : jobs'[s].stage = "ended"
  BY <1>2, <1>3, <1>4 DEF Requests
<1>6. /\ signals' = <<[signal |-> "failedToOpen", job |-> r]>>
  BY <1>1, <1>2
<1>7. Len(signals') = 1 /\ DOMAIN signals' = {1} /\ signals'[1].signal = "failedToOpen"
  BY <1>6
<1>8. SequenceInv'
  BY <1>1, <1>2, <1>5, <1>7 DEF SequenceInv, Running
<1>9. PathInv'
  BY <1>1, <1>2, <1>5 DEF PathInv
<1> QED
  BY <1>8, <1>9

\* Every step of a job.
LEMMA JobSequence ==
    ASSUME Owned, BoundInv, SequenceInv, PathInv, NEW r \in Requests, JobStep(r), page' = page
    PROVE  SequenceInv' /\ PathInv'
<1>1. /\ Views(r) \in SUBSET AllViews /\ {} \in SUBSET AllViews
      /\ AllViews \subseteq SignalNames \ {"failedToOpen"} /\ "setData" \in SignalNames \ {"failedToOpen"}
      /\ "summary" \in AllViews /\ "bottomUp" \in AllViews /\ "histogram" \in AllViews
      /\ "setData" \notin AllViews
  BY DEF Views, AllViews, SignalNames
<1>2. CASE StartJob(r)
  BY <1>2, StartSequence
<1>3. CASE ReadFails(r)
  BY <1>3, FailSequence
<1>4. CASE Read(r)
  BY <1>1, <1>4, AdvanceSequence DEF Read
<1>5. CASE MergeAllocations(r)
  BY <1>1, <1>5, AdvanceSequence DEF MergeAllocations
<1>6. CASE BuildSizeHistogram(r)
  BY <1>1, <1>6, AdvanceSequence DEF BuildSizeHistogram
<1>7. CASE Finish(r)
  BY <1>1, <1>7, AdvanceSequence DEF Finish
<1>8. ASSUME NEW view \in jobs[r].todo, BuildView(r, view) PROVE SequenceInv' /\ PathInv'
  <2>1. jobs[r].todo \in SUBSET AllViews
    BY RequestsTyped DEF Owned, Jobs
  <2>2. /\ view \in SignalNames \ {"failedToOpen"} /\ view # "setData"
        /\ jobs[r].todo \ {view} \in SUBSET AllViews
    BY <1>1, <1>8, <2>1
  <2> QED
    BY <1>8, <2>2, AdvanceSequence DEF BuildView
<1> QED
  BY <1>2, <1>3, <1>4, <1>5, <1>6, <1>7, <1>8 DEF JobStep

\* A signal is delivered; setData is the last one of its job.
LEMMA DeliverSequence ==
    ASSUME Owned, BoundInv, SequenceInv, PathInv, Deliver
    PROVE  SequenceInv' /\ PathInv'
<1> DEFINE n == Head(signals).signal
           r == Head(signals).job
<1>1. /\ signals \in Seq([signal : SignalNames, job : Nat]) /\ signals # <<>>
      /\ signals' = Tail(signals)
  BY DEF Owned, TypeOK, Deliver
<1>2. /\ Head(signals) = signals[1] /\ signals' \in Seq([signal : SignalNames, job : Nat])
      /\ Len(signals') = Len(signals) - 1
      /\ \A k \in 1 .. Len(signals') : signals'[k] = signals[k + 1]
  BY <1>1, HeadTailProperties
<1>3. /\ DOMAIN signals = 1 .. Len(signals) /\ DOMAIN signals' = 1 .. Len(signals')
      /\ Len(signals) \in Nat /\ 1 \in DOMAIN signals
  BY <1>1, <1>2, LenProperties, EmptySeq
<1>4. \A k \in DOMAIN signals' : k + 1 \in DOMAIN signals
  BY <1>2, <1>3
<1>5. r \in Requests
  BY <1>2, <1>3 DEF Owned, TypeOK
<1>6. Len(signals) = 1 => signals' = <<>>
  BY <1>1, <1>2, EmptySeq
<1>7. m_data = Null /\ page # "open" /\ \A s \in Requests : jobs[s].stage \notin {"queued", "read"}
  BY <1>1 DEF SequenceInv
<1>8. \A k \in DOMAIN signals' :
        /\ signals'[k].signal = "setData" => k = Len(signals') /\ jobs[signals'[k].job].stage = "finishing"
        /\ signals'[k].signal # "failedToOpen"
  <2> TAKE k \in DOMAIN signals'
  <2>1. k + 1 \in DOMAIN signals /\ signals'[k] = signals[k + 1] /\ k \in Nat /\ k >= 1
    BY <1>2, <1>3, <1>4
  <2>2. signals'[k].signal = "setData" => k + 1 = Len(signals) /\ jobs[signals'[k].job].stage = "finishing"
    BY <2>1 DEF SequenceInv
  <2>3. Len(signals) # 1
    BY <1>3, <2>1
  <2>4. signals'[k].signal # "failedToOpen"
    BY <2>1, <2>3 DEF SequenceInv
  <2> QED
    BY <1>2, <1>3, <2>1, <2>2, <2>4
<1>9. CASE ViewAvailable(n, r)
  <2>1. /\ m_data' = m_data /\ m_path' = m_path /\ jobs' = jobs /\ parserData' = parserData
        /\ page' # "open"
    BY <1>7, <1>9 DEF ViewAvailable
  <2>2. Requests' = Requests
    BY <2>1 DEF Requests
  <2>3. SequenceInv'
    BY <1>7, <1>8, <2>1, <2>2 DEF SequenceInv, Running
  <2> QED
    BY <1>7, <2>1, <2>2, <2>3 DEF PathInv
<1>10. CASE n = "failedToOpen" /\ FailedToOpen(r)
  <2>1. /\ m_data' = m_data /\ m_path' = m_path /\ jobs' = jobs /\ parserData' = parserData
    BY <1>10 DEF FailedToOpen
  <2>2. signals' = <<>> /\ \A s \in Requests : ~ Running(s)
    BY <1>2, <1>3, <1>6, <1>10 DEF SequenceInv
  <2>3. DOMAIN signals' = {} /\ Requests' = Requests
    BY <2>1, <2>2 DEF Requests
  <2>4. SequenceInv'
    BY <1>7, <2>1, <2>2, <2>3 DEF SequenceInv, Running
  <2> QED
    BY <1>7, <2>1, <2>3, <2>4 DEF PathInv
<1>11. CASE n = "setData" /\ Finished(r)
  <2>1. /\ m_data' = jobs[r].data /\ m_path' = jobs[r].path /\ parserData' = Released(m_data)
        /\ jobs' = [jobs EXCEPT ![r] = NoJob] /\ page' = page
    BY <1>11 DEF Finished, SetData
  <2>2. jobs[r].stage = "finishing" /\ signals' = <<>>
    BY <1>2, <1>3, <1>6, <1>11 DEF SequenceInv
  <2>3. \A s \in Requests \ {r} : jobs[s].stage = "ended"
    BY <1>5, <2>2, SoleJob DEF Running
  <2>4. NoJob \in Jobs /\ NoJob.stage = "ended" /\ jobs \in Seq(Jobs) /\ r \in 1 .. Len(jobs)
    BY <1>5 DEF NoJob, Jobs, Stages, MaybePaths, Filters, Owned, TypeOK, Requests
  <2>5. /\ Len(jobs') = Len(jobs) /\ jobs'[r] = NoJob /\ \A s \in Requests \ {r} : jobs'[s] = jobs[s]
    BY <2>1, <2>4, ExceptSeq DEF Requests
  <2>6. Requests' = Requests /\ \A s \in Requests' : jobs'[s].stage = "ended"
    BY <2>3, <2>4, <2>5 DEF Requests
  <2>7. DOMAIN signals' = {}
    BY <2>2
  <2>8. SequenceInv'
    BY <1>7, <2>1, <2>2, <2>6, <2>7 DEF SequenceInv, Running
  <2>9. /\ jobs[r].data # Null /\ parserData[jobs[r].data].path = jobs[r].path
        /\ jobs[r].data \in 1 .. MaxRequests
    BY <1>5, <2>2, DataTyped DEF PathInv
  <2>10. parserData'[jobs[r].data] = parserData[jobs[r].data]
    BY <1>7, <2>1, <2>9, ReleasedTyped DEF BoundInv
  <2> QED
    BY <2>1, <2>6, <2>8, <2>9, <2>10 DEF PathInv
<1> QED
  BY <1>9, <1>10, <1>11 DEF Deliver

\* The window leaves the parser alone, and does not turn to the open page.
LEMMA SameSequence ==
    ASSUME SequenceInv, PathInv, UNCHANGED parser, page' # "open"
    PROVE  SequenceInv' /\ PathInv'
BY DEF SequenceInv, PathInv, parser, Requests, Running

\* Every step, unless File > Open overtakes a job.
LEMMA SequenceStep ==
    ASSUME IInv, [Next]_vars
    PROVE  overtaken' \/ (SequenceInv' /\ PathInv')
<1> SUFFICES ASSUME ~ overtaken' PROVE SequenceInv' /\ PathInv'
  OBVIOUS
<1>1. ~ overtaken
  BY DEF Next, User, LoadFile, Reparse, CloseFile, ClickChart, DragOnChart, Job, Deliver, vars, window
<1>2. Owned /\ BoundInv /\ SequenceInv /\ PathInv
  BY <1>1 DEF IInv
<1>3. ASSUME NEW path \in Paths, NEW diff \in BOOLEAN, LoadFile(path, diff) PROVE SequenceInv' /\ PathInv'
  <2>1. /\ ParseImpl(path, diff, lastFilter) /\ page = "open" /\ page' = "loading"
        /\ path \in MaybePaths /\ lastFilter \in Filters
    BY <1>2, <1>3 DEF LoadFile, MaybePaths, BoundInv
  <2>2. signals = <<>> /\ \A r \in Requests : ~ Running(r)
    BY <1>2, <2>1 DEF SequenceInv
  <2> QED
    BY <1>2, <2>1, <2>2, RequestSequence
<1>4. ASSUME NEW filter \in Filters, Reparse(filter) PROVE SequenceInv' /\ PathInv'
  <2>1. CASE CanReparse
    <3>1. /\ ParseImpl(m_path, FALSE, filter) /\ m_data # Null /\ page' = "loading"
          /\ m_path \in MaybePaths
      BY <1>2, <1>4, <2>1 DEF Reparse, CanReparse, Owned, TypeOK
    <3>2. signals = <<>> /\ \A r \in Requests : ~ Running(r)
      BY <1>2, <3>1 DEF SequenceInv
    <3> QED
      BY <1>2, <3>1, <3>2, RequestSequence
  <2>2. CASE ~ CanReparse
    BY <1>2, <1>4, <2>2, SameSequence DEF Reparse
  <2> QED
    BY <2>1, <2>2
<1>5. CASE CloseFile
  <2>1. Idle
    BY <1>5 DEF CloseFile
  <2>2. UNCHANGED parser
    BY <1>5 DEF CloseFile
  <2> QED
    BY <1>2, <2>1, <2>2 DEF SequenceInv, PathInv, parser, Requests, Running, Idle
<1>6. CASE ClickChart \/ DragOnChart
  BY <1>2, <1>6, SameSequence DEF ClickChart, DragOnChart, ChartsShown
<1>7. CASE Job
  <2>1. PICK r \in Requests : JobStep(r) /\ page' = page
    BY <1>7 DEF Job, window
  <2> QED
    BY <1>2, <2>1, JobSequence
<1>8. CASE Deliver
  BY <1>2, <1>8, DeliverSequence
<1>9. CASE UNCHANGED vars
  BY <1>2, <1>9 DEF SequenceInv, PathInv, vars, window, parser, Requests, Running
<1> QED
  BY <1>3, <1>4, <1>5, <1>6, <1>7, <1>8, <1>9 DEF Next, User

\* When the window is opened nothing was requested.
LEMMA InitIInv == Init => IInv
<1> SUFFICES ASSUME Init PROVE IInv
  OBVIOUS
<1>1. /\ m_data = Null /\ jobs = <<>> /\ signals = <<>> /\ lastFilter = "all"
      /\ parserData = [r \in 1 .. MaxRequests |-> NoData]
  BY DEF Init, ParserInit
<1>2. m_path \in MaybePaths /\ NoData \in ParsedData
  BY DEF Init, ParserInit, MaybePaths, NoData, ParsedData, Filters
<1>3. Len(jobs) = 0 /\ Requests = {} /\ DOMAIN signals = {}
  BY <1>1 DEF Requests
<1>4. jobs \in Seq(Jobs) /\ signals \in Seq([signal : SignalNames, job : Nat])
  BY <1>1, EmptySeq
<1>5. Owned
  BY <1>1, <1>2, <1>3, <1>4 DEF Owned, TypeOK, OwnerInv
<1>6. BoundInv
  <2>1. MaxRequests \in Nat
    BY ParserAssumption
  <2>2. parserData \in [1 .. MaxRequests -> ParsedData]
    BY <1>1, <1>2
  <2>3. lastFilter \in Filters
    BY <1>1 DEF Filters
  <2> QED
    BY <1>3, <2>1, <2>2, <2>3 DEF BoundInv
<1>7. SequenceInv /\ PathInv
  BY <1>1, <1>3 DEF SequenceInv, PathInv
<1> QED
  BY <1>5, <1>6, <1>7 DEF IInv

-----------------------------------------------------------------------------
(* The theorems.                                                           *)

\* IInv holds in every reachable state of MainWindow.
THEOREM Invariance == Spec => []IInv
<1>1. ASSUME IInv, [Next]_vars PROVE IInv'
  <2>1. Owned /\ BoundInv /\ lastFilter \in Filters
    BY <1>1 DEF IInv, BoundInv
  <2>2. Owned' /\ BoundInv'
    BY <1>1, <2>1, OwnerStep, BoundStep
  <2>3. overtaken' \/ (SequenceInv' /\ PathInv')
    BY <1>1, SequenceStep
  <2> QED
    BY <2>2, <2>3 DEF IInv
<1> QED
  BY InitIInv, <1>1, PTL DEF Spec

\* A ParserData object is read and changed by one job only, however many requests
\* are under way, and the parser does not keep it meanwhile.
THEOREM DataHasOneOwner == Spec => []OneOwner
<1>1. IInv => OneOwner
  BY DEF IInv, Owned, OwnerInv, OneOwner
<1> QED
  BY Invariance, <1>1, PTL

\* A job that keeps the tables of the previous parse reads the file they come from.
THEOREM ReparsesRightFile == Spec => []ReparsesItsFile
<1>1. IInv => ReparsesItsFile
  BY DEF IInv, PathInv, ReparsesItsFile
<1> QED
  BY Invariance, <1>1, PTL

-----------------------------------------------------------------------------
(* What the window shows.                                                  *)

\* The views whose signal a job has emitted.
Emitted(r) ==
    {v \in AllViews :
        \/ v = "summary" /\ jobs[r].stage \notin {"queued", "read", "ended"}
        \/ v = "bottomUp" /\ jobs[r].stage \in {"histogram", "parallel", "finishing"}
        \/ v = "histogram" /\ jobs[r].stage \in {"parallel", "finishing"} /\ ~ jobs[r].diff
        \/ v \in Views(r) \ jobs[r].todo /\ jobs[r].stage \in {"parallel", "finishing"}}

Pending(v) == \E n \in DOMAIN signals : signals[n].signal = v

WindowTypes == shown \in [AllViews -> Nat] /\ selection \in Nat /\ opened \in Nat

\* The job that runs is that of the last request, and so are the signals.
LastInv ==
    /\ opened <= Len(jobs)
    /\ \A r \in Requests : Running(r) => r = Len(jobs)
    /\ \A n \in DOMAIN signals :
        /\ signals[n].job = Len(jobs)
        /\ signals[n].signal \in AllViews => signals[n].signal \in Emitted(Len(jobs))

\* What was emitted is shown or on the way; what is complete is shown.
ShownInv ==
    /\ page = "results" /\ m_data = Null =>
        \E r \in Requests : jobs[r].stage \in {"histogram", "parallel", "finishing"}
    /\ \A r \in Requests : \A v \in Emitted(r) : shown[v] = r \/ Pending(v)
    /\ \A r \in Requests : jobs[r].stage = "finishing" => jobs[r].todo = {}
    /\ \A r \in Requests : jobs[r].stage \notin {"queued", "ended"} =>
        parserData[jobs[r].data].diffMode = jobs[r].diff
    /\ m_data # Null /\ page # "open" => \A v \in Produces(m_data) : shown[v] = Len(jobs)

\* A difference is made of files that are opened, and has neither histogram nor charts.
FreshInv ==
    afresh =>
        /\ m_data # Null /\ parserData[m_data].diffMode => shown["histogram"] = Null /\ shown["charts"] = Null
        /\ (\E r \in Requests : Running(r) /\ jobs[r].diff) => shown["histogram"] = Null /\ shown["charts"] = Null
        /\ shown["charts"] # Null => shown["charts"] >= opened
        /\ selection # Null => selection >= opened

\* The charts know the filter of the summary, the action that of the data.
FilterInv ==
    /\ selection # Null => shown["charts"] # Null
    /\ m_data # Null => actionResetFilter = isFiltered
    /\ \A r \in Requests : jobs[r].stage \notin {"queued", "read", "ended"} =>
        isFiltered = IsFiltered(jobs[r].data) \/ Pending("summary")

\* A difference has no histogram, and only the views that a job has are left to build.
StageInv ==
    \A r \in Requests :
        /\ jobs[r].stage = "histogram" => ~ jobs[r].diff
        /\ jobs[r].stage = "parallel" => jobs[r].todo \subseteq Views(r)

ViewInv == WindowTypes /\ LastInv /\ StageInv /\ ShownInv /\ FreshInv /\ FilterInv

\* Nothing is emitted by a job that has not read its file, or is over.
LEMMA NothingEmitted ==
    ASSUME NEW r, jobs[r].stage \in {"queued", "read", "ended"}
    PROVE  Emitted(r) = {}
BY DEF Emitted

\* One job changes, and none is added.
LEMMA OneJobChanges ==
    ASSUME Owned, NEW r \in Requests, NEW job \in Jobs, jobs' = [jobs EXCEPT ![r] = job]
    PROVE  /\ Len(jobs') = Len(jobs) /\ Requests' = Requests
           /\ jobs'[r] = job /\ \A s \in Requests \ {r} : jobs'[s] = jobs[s]
<1>1. jobs \in Seq(Jobs) /\ r \in 1 .. Len(jobs)
  BY DEF Owned, TypeOK, Requests
<1>2. Len(jobs') = Len(jobs) /\ jobs'[r] = job /\ \A s \in 1 .. Len(jobs) : s # r => jobs'[s] = jobs[s]
  BY <1>1, ExceptSeq
<1> QED
  BY <1>2 DEF Requests

\* A signal is queued behind the others.
LEMMA OneSignalMore ==
    ASSUME Owned, NEW name \in SignalNames, NEW r \in Requests,
           signals' = Append(signals, [signal |-> name, job |-> r])
    PROVE  /\ DOMAIN signals' = DOMAIN signals \cup {Len(signals) + 1}
           /\ \A n \in DOMAIN signals : signals'[n] = signals[n]
           /\ signals'[Len(signals) + 1].signal = name /\ signals'[Len(signals) + 1].job = r
           /\ Pending(name)' /\ \A v : Pending(v) => Pending(v)'
<1> DEFINE s == [signal |-> name, job |-> r]
<1>1. s \in [signal : SignalNames, job : Nat] /\ signals \in Seq([signal : SignalNames, job : Nat])
  BY RequestsTyped DEF Owned, TypeOK
<1>2. s.signal = name /\ s.job = r /\ signals' = Append(signals, s)
  OBVIOUS
<1> HIDE DEF s
<1>3. /\ signals' \in Seq([signal : SignalNames, job : Nat]) /\ Len(signals') = Len(signals) + 1
      /\ signals'[Len(signals) + 1] = s /\ \A n \in 1 .. Len(signals) : signals'[n] = signals[n]
  BY <1>1, <1>2, AppendProperties
<1>4. Len(signals) \in Nat /\ DOMAIN signals = 1 .. Len(signals) /\ DOMAIN signals' = 1 .. Len(signals) + 1
  BY <1>1, <1>3, LenProperties
<1>5. DOMAIN signals' = DOMAIN signals \cup {Len(signals) + 1}
  BY <1>4
<1> QED
  BY <1>2, <1>3, <1>4, <1>5 DEF Pending

\* A running job goes on and emits a signal.
LEMMA AdvanceViews ==
    ASSUME Owned, BoundInv, SequenceInv, PathInv, ViewInv, NEW r \in Requests,
           NEW next \in {"merge", "histogram", "parallel", "finishing"}, NEW left \in SUBSET AllViews,
           NEW name \in SignalNames, Advance(r, next, left, name),
           jobs[r].stage \in {"read", "merge", "histogram", "parallel"},
           Emitted(r)' = Emitted(r) \cup ({name} \cap AllViews),
           next = "finishing" => left = {}, jobs[r].stage = "read" => name = "summary",
           jobs[r].stage \in {"histogram", "parallel"} => next # "merge",
           next = "histogram" => ~ jobs[r].diff, next = "parallel" => left \subseteq Views(r),
           UNCHANGED window
    PROVE  ViewInv'
<1> DEFINE job == [jobs[r] EXCEPT !.stage = next, !.todo = left]
<1>1. jobs[r] \in Jobs
  BY RequestsTyped DEF Owned
<1>2. /\ job \in Jobs /\ job.stage = next /\ job.todo = left
      /\ job.data = jobs[r].data /\ job.path = jobs[r].path /\ job.diff = jobs[r].diff
  BY <1>1 DEF Jobs, Stages
<1>3. jobs' = [jobs EXCEPT ![r] = job]
  BY DEF Advance
<1> HIDE DEF job
<1>4. /\ Len(jobs') = Len(jobs) /\ Requests' = Requests
      /\ jobs'[r] = job /\ \A s \in Requests \ {r} : jobs'[s] = jobs[s]
  BY <1>2, <1>3, OneJobChanges
<1>5. /\ m_data' = m_data /\ m_path' = m_path /\ parserData' = parserData
      /\ signals' = Append(signals, [signal |-> name, job |-> r])
  BY DEF Advance, Emit
<1>6. /\ DOMAIN signals' = DOMAIN signals \cup {Len(signals) + 1}
      /\ \A n \in DOMAIN signals : signals'[n] = signals[n]
      /\ signals'[Len(signals) + 1].signal = name /\ signals'[Len(signals) + 1].job = r
      /\ Pending(name)' /\ \A v : Pending(v) => Pending(v)'
  BY <1>5, OneSignalMore
<1>7. /\ \A s \in Requests \ {r} : jobs[s].stage = "ended"
      /\ m_data = Null /\ r = Len(jobs) /\ r # Null
  <2>1. Running(r)
    BY DEF Running
  <2> QED
    BY <2>1, SoleJob, RequestsTyped DEF ViewInv, LastInv, Owned
<1>8. \A s \in Requests \ {r} : Emitted(s)' = {}
  <2> SUFFICES ASSUME NEW s \in Requests \ {r} PROVE Emitted(s)' = {}
    OBVIOUS
  <2>1. jobs'[s].stage = "ended"
    BY <1>4, <1>7
  <2> QED
    BY <2>1 DEF Emitted
<1>9. /\ page' = page /\ shown' = shown /\ selection' = selection /\ opened' = opened
      /\ afresh' = afresh /\ isFiltered' = isFiltered /\ actionResetFilter' = actionResetFilter
  BY DEF window, charts
<1>10. WindowTypes'
  BY <1>9 DEF ViewInv, WindowTypes
<1>11. LastInv'
  <2>1. opened' <= Len(jobs') /\ \A s \in Requests' : Running(s)' => s = Len(jobs')
    BY <1>4, <1>7, <1>9 DEF ViewInv, LastInv, Running
  <2>2. ASSUME NEW n \in DOMAIN signals'
        PROVE  /\ signals'[n].job = Len(jobs')
               /\ signals'[n].signal \in AllViews => signals'[n].signal \in Emitted(r)'
    <3>1. CASE n \in DOMAIN signals
      BY <1>4, <1>6, <1>7, <3>1 DEF ViewInv, LastInv
    <3>2. CASE n = Len(signals) + 1
      BY <1>4, <1>6, <1>7, <3>2
    <3> QED
      BY <1>6, <2>2, <3>1, <3>2
  <2>3. Emitted(Len(jobs))' = Emitted(r)'
    BY <1>4, <1>7 DEF Emitted, Views
  <2> QED
    BY <2>1, <2>2, <2>3 DEF LastInv
<1>12. ShownInv'
  <2>1. page' = "results" => next \in {"histogram", "parallel", "finishing"}
    BY <1>7, <1>9 DEF ViewInv, ShownInv
  <2>2. ASSUME NEW s \in Requests', NEW v \in Emitted(s)' PROVE shown'[v] = s \/ Pending(v)'
    <3>1. s = r
      BY <1>4, <1>8, <2>2
    <3>2. CASE v \in Emitted(r)
      BY <1>6, <1>9, <3>1, <3>2 DEF ViewInv, ShownInv
    <3>3. CASE v = name
      BY <1>6, <3>3
    <3> QED
      BY <2>2, <3>1, <3>2, <3>3
  <2>3. \A s \in Requests' : jobs'[s].stage = "finishing" => jobs'[s].todo = {}
    BY <1>2, <1>4, <1>7
  <2>4. \A s \in Requests' : jobs'[s].stage \notin {"queued", "ended"} =>
            parserData'[jobs'[s].data].diffMode = jobs'[s].diff
    BY <1>2, <1>4, <1>5, <1>7 DEF ViewInv, ShownInv
  <2> QED
    BY <1>2, <1>4, <1>5, <1>7, <2>1, <2>2, <2>3, <2>4 DEF ShownInv
<1>13. FreshInv'
  <2>1. (\E s \in Requests' : Running(s)' /\ jobs'[s].diff) => \E s \in Requests : Running(s) /\ jobs[s].diff
    BY <1>2, <1>4, <1>7 DEF Running
  <2> QED
    BY <1>5, <1>7, <1>9, <2>1 DEF ViewInv, FreshInv
<1>14. FilterInv'
  <2>1. ASSUME NEW s \in Requests', jobs'[s].stage \notin {"queued", "read", "ended"}
        PROVE  isFiltered' = IsFiltered(jobs[s].data) \/ Pending("summary")'
    <3>1. s = r
      BY <1>4, <1>7, <2>1
    <3>2. CASE jobs[r].stage = "read"
      BY <1>6, <3>2
    <3>3. CASE jobs[r].stage # "read"
      BY <1>6, <1>9, <3>1, <3>3 DEF ViewInv, FilterInv
    <3> QED
      BY <3>2, <3>3
  <2>2. \A s \in Requests' : IsFiltered(jobs[s].data)' = IsFiltered(jobs[s].data)
    BY <1>2, <1>4, <1>5 DEF IsFiltered
  <2>3. \A s \in Requests' : jobs'[s].stage \notin {"queued", "read", "ended"} =>
            isFiltered' = IsFiltered(jobs[s].data)' \/ Pending("summary")'
    BY <2>1, <2>2
  <2> QED
    BY <1>5, <1>7, <1>9, <2>3 DEF ViewInv, FilterInv
<1>15. StageInv'
  BY <1>2, <1>4, <1>7 DEF StageInv, Views
<1> QED
  BY <1>10, <1>11, <1>12, <1>13, <1>14, <1>15 DEF ViewInv

\* A job begins: nothing was emitted yet, its object knows whether it is a difference.
LEMMA StartViews ==
    ASSUME Owned, BoundInv, SequenceInv, PathInv, ViewInv, NEW r \in Requests, StartJob(r),
           UNCHANGED window
    PROVE  ViewInv'
<1>1. /\ jobs[r].stage = "queued" /\ m_data' = m_data /\ signals' = signals
  BY DEF StartJob
<1>2. /\ jobs[r] \in Jobs /\ r \in 1 .. MaxRequests /\ r \in Nat /\ r # 0
  BY RequestsTyped, DataTyped DEF Owned
<1>3. /\ \A s \in Requests \ {r} : jobs[s].stage = "ended"
      /\ m_data = Null /\ signals = <<>> /\ r = Len(jobs)
  BY <1>1, SoleJob DEF Running, SequenceInv, ViewInv, LastInv
<1>4. PICK job \in Jobs :
        /\ jobs' = [jobs EXCEPT ![r] = job] /\ job.stage = "read" /\ job.diff = jobs[r].diff
        /\ parserData'[job.data].diffMode = job.diff
  <2>1. CASE IsReparsing(r)
    <3> DEFINE again == [jobs[r] EXCEPT !.stage = "read"]
    <3>1. again \in Jobs /\ again.stage = "read" /\ again.diff = jobs[r].diff /\ again.data = jobs[r].data
      BY <1>2 DEF Jobs, Stages
    <3>2. jobs' = [jobs EXCEPT ![r] = again]
      BY <2>1 DEF StartJob
    <3> HIDE DEF again
    <3>3. jobs[r].data \in 1 .. MaxRequests /\ jobs[r].diff = FALSE
      <4>1. jobs[r].data \in 1 .. MaxRequests /\ ~ jobs[r].diff
        BY <2>1, DataTyped DEF IsReparsing
      <4> QED
        BY <1>2, <4>1 DEF Jobs
    <3>4. parserData' = [parserData EXCEPT ![jobs[r].data].filter = jobs[r].filter,
                                           ![jobs[r].data].diffMode = FALSE]
      BY <2>1 DEF StartJob
    <3>5. parserData'[jobs[r].data].diffMode = FALSE
      <4>1. parserData[jobs[r].data] \in ParsedData
        BY <3>3 DEF BoundInv
      <4> QED
        BY <3>3, <3>4, <4>1 DEF BoundInv, ParsedData
    <3> QED
      BY <3>1, <3>2, <3>3, <3>5
  <2>2. CASE ~ IsReparsing(r)
    <3> DEFINE fresh == [jobs[r] EXCEPT !.stage = "read", !.data = r]
    <3>1. fresh \in Jobs /\ fresh.stage = "read" /\ fresh.diff = jobs[r].diff /\ fresh.data = r
      BY <1>2 DEF Jobs, Stages
    <3>2. jobs' = [jobs EXCEPT ![r] = fresh]
      BY <2>2 DEF StartJob
    <3> HIDE DEF fresh
    <3>3. parserData'[r].diffMode = jobs[r].diff
      <4>1. Released(jobs[r].data) \in [1 .. MaxRequests -> ParsedData]
        BY ReleasedTyped DEF BoundInv
      <4>2. parserData' = [Released(jobs[r].data) EXCEPT ![r] =
                [path |-> jobs[r].path, filter |-> jobs[r].filter, diffMode |-> jobs[r].diff]]
        BY <2>2 DEF StartJob
      <4> QED
        BY <1>2, <4>1, <4>2
    <3> QED
      BY <3>1, <3>2, <3>3
  <2> QED
    BY <2>1, <2>2
<1>5. /\ Len(jobs') = Len(jobs) /\ Requests' = Requests
      /\ jobs'[r] = job /\ \A s \in Requests \ {r} : jobs'[s] = jobs[s]
  BY <1>4, OneJobChanges
<1>6. \A s \in Requests' : jobs'[s].stage \in {"read", "ended"} /\ (jobs'[s].stage = "read" => s = r)
  BY <1>3, <1>4, <1>5
<1>7. \A s \in Requests' : Emitted(s)' = {}
  BY <1>6 DEF Emitted
<1>8. /\ page' = page /\ shown' = shown /\ selection' = selection /\ opened' = opened
      /\ afresh' = afresh /\ isFiltered' = isFiltered /\ actionResetFilter' = actionResetFilter
  BY DEF window, charts
<1>9. WindowTypes'
  BY <1>8 DEF ViewInv, WindowTypes
<1>10. LastInv'
  <2>1. DOMAIN signals' = {}
    BY <1>1, <1>3
  <2> QED
    BY <1>3, <1>5, <1>6, <1>8, <2>1 DEF LastInv, ViewInv, Running
<1>11. ShownInv'
  <2>1. page' # "results"
    BY <1>1, <1>3, <1>8 DEF ViewInv, ShownInv
  <2>2. \A s \in Requests' : jobs'[s].stage \notin {"queued", "ended"} =>
            parserData'[jobs'[s].data].diffMode = jobs'[s].diff
    BY <1>4, <1>5, <1>6
  <2> QED
    BY <1>1, <1>3, <1>6, <1>7, <2>1, <2>2 DEF ShownInv
<1>12. FreshInv'
  <2>1. (\E s \in Requests' : Running(s)' /\ jobs'[s].diff) => \E s \in Requests : Running(s) /\ jobs[s].diff
    BY <1>1, <1>4, <1>5, <1>6 DEF Running
  <2> QED
    BY <1>1, <1>3, <1>8, <2>1 DEF ViewInv, FreshInv
<1>13. FilterInv'
  BY <1>1, <1>3, <1>6, <1>8 DEF ViewInv, FilterInv
<1>14. StageInv'
  BY <1>6 DEF StageInv
<1> QED
  BY <1>9, <1>10, <1>11, <1>12, <1>13, <1>14 DEF ViewInv

\* A file cannot be read: nothing was emitted, and no results are shown.
LEMMA FailViews ==
    ASSUME Owned, BoundInv, SequenceInv, PathInv, ViewInv, NEW r \in Requests, ReadFails(r),
           UNCHANGED window
    PROVE  ViewInv'
<1>1. /\ jobs[r].stage = "read" /\ jobs' = [jobs EXCEPT ![r] = NoJob] /\ m_data' = m_data
      /\ signals' = Append(signals, [signal |-> "failedToOpen", job |-> r])
  BY DEF ReadFails, Emit
<1>2. /\ \A s \in Requests \ {r} : jobs[s].stage = "ended"
      /\ m_data = Null /\ signals = <<>> /\ r = Len(jobs)
  BY <1>1, SoleJob DEF Running, SequenceInv, ViewInv, LastInv
<1>3. NoJob \in Jobs /\ NoJob.stage = "ended"
  BY DEF NoJob, Jobs, Stages, MaybePaths, Filters
<1>4. /\ Len(jobs') = Len(jobs) /\ Requests' = Requests
      /\ jobs'[r] = NoJob /\ \A s \in Requests \ {r} : jobs'[s] = jobs[s]
  BY <1>1, <1>3, OneJobChanges
<1>5. \A s \in Requests' : jobs'[s].stage = "ended"
  BY <1>2, <1>3, <1>4
<1>6. \A s \in Requests' : Emitted(s)' = {}
  BY <1>5 DEF Emitted
<1>7. /\ signals' = <<[signal |-> "failedToOpen", job |-> r]>>
  BY <1>1, <1>2
<1>8. /\ DOMAIN signals' = {1} /\ signals'[1].signal = "failedToOpen" /\ signals'[1].job = r
      /\ "failedToOpen" \notin AllViews
  BY <1>7 DEF AllViews
<1>9. /\ page' = page /\ shown' = shown /\ selection' = selection /\ opened' = opened
      /\ afresh' = afresh /\ isFiltered' = isFiltered /\ actionResetFilter' = actionResetFilter
  BY DEF window, charts
<1>10. WindowTypes'
  BY <1>9 DEF ViewInv, WindowTypes
<1>11. LastInv'
  BY <1>2, <1>4, <1>5, <1>8, <1>9 DEF LastInv, ViewInv, Running
<1>12. ShownInv'
  <2>1. page' # "results"
    BY <1>1, <1>2, <1>9 DEF ViewInv, ShownInv
  <2> QED
    BY <1>1, <1>2, <1>5, <1>6, <2>1 DEF ShownInv
<1>13. FreshInv'
  BY <1>1, <1>2, <1>5, <1>9 DEF ViewInv, FreshInv, Running
<1>14. FilterInv'
  BY <1>1, <1>2, <1>5, <1>9 DEF ViewInv, FilterInv
<1>15. StageInv'
  BY <1>5 DEF StageInv
<1> QED
  BY <1>10, <1>11, <1>12, <1>13, <1>14, <1>15 DEF ViewInv

\* Every step of a job: what it emits is what its signal says.
LEMMA JobViews ==
    ASSUME Owned, BoundInv, SequenceInv, PathInv, ViewInv, NEW r \in Requests, JobStep(r),
           UNCHANGED window
    PROVE  ViewInv'
<1>1. jobs[r] \in Jobs /\ jobs \in Seq(Jobs) /\ r \in 1 .. Len(jobs)
  BY RequestsTyped DEF Owned, TypeOK, Requests
<1>2. ASSUME NEW next \in Stages, NEW left \in SUBSET AllViews, NEW name, Advance(r, next, left, name)
      PROVE  jobs'[r].stage = next /\ jobs'[r].todo = left /\ jobs'[r].diff = jobs[r].diff
  <2> DEFINE job == [jobs[r] EXCEPT !.stage = next, !.todo = left]
  <2>1. job \in Jobs /\ job.stage = next /\ job.todo = left /\ job.diff = jobs[r].diff
    BY <1>1 DEF Jobs
  <2>2. jobs' = [jobs EXCEPT ![r] = job]
    BY <1>2 DEF Advance
  <2> HIDE DEF job
  <2> QED
    BY <1>1, <2>1, <2>2, ExceptSeq
<1>3. /\ Views(r) \in SUBSET AllViews /\ {} \in SUBSET AllViews /\ jobs[r].todo \in SUBSET AllViews
      /\ "summary" \in SignalNames /\ "bottomUp" \in SignalNames /\ "histogram" \in SignalNames
      /\ "setData" \in SignalNames /\ "setData" \notin AllViews
      /\ {"merge", "histogram", "parallel", "finishing"} \subseteq Stages
  BY <1>1 DEF Views, AllViews, SignalNames, Stages, Jobs
<1>4. CASE StartJob(r)
  BY <1>4, StartViews
<1>5. CASE ReadFails(r)
  BY <1>5, FailViews
<1>6. CASE Read(r)
  <2>1. Advance(r, "merge", {}, "summary") /\ jobs[r].stage = "read"
    BY <1>6 DEF Read
  <2>2. jobs'[r].stage = "merge"
    BY <1>2, <1>3, <2>1
  <2>3. Emitted(r)' = Emitted(r) \cup ({"summary"} \cap AllViews)
    BY <2>1, <2>2 DEF Emitted, AllViews
  <2> QED
    BY <1>3, <2>1, <2>3, AdvanceViews
<1>7. CASE MergeAllocations(r)
  <2>1. jobs[r].stage = "merge"
    BY <1>7 DEF MergeAllocations
  <2>2. CASE jobs[r].diff
    <3>1. Advance(r, "parallel", Views(r), "bottomUp")
      BY <1>7, <2>2 DEF MergeAllocations
    <3>2. jobs'[r].stage = "parallel" /\ jobs'[r].todo = Views(r) /\ jobs'[r].diff = jobs[r].diff
      BY <1>2, <1>3, <3>1
    <3>3. Views(r)' = Views(r)
      BY <3>2 DEF Views
    <3>4. Emitted(r)' = Emitted(r) \cup ({"bottomUp"} \cap AllViews)
      BY <2>1, <2>2, <3>2, <3>3 DEF Emitted, AllViews
    <3> QED
      BY <1>3, <2>1, <3>1, <3>4, AdvanceViews
  <2>3. CASE ~ jobs[r].diff
    <3>1. Advance(r, "histogram", {}, "bottomUp")
      BY <1>7, <2>3 DEF MergeAllocations
    <3>2. jobs'[r].stage = "histogram"
      BY <1>2, <1>3, <3>1
    <3>3. Emitted(r)' = Emitted(r) \cup ({"bottomUp"} \cap AllViews)
      BY <2>1, <3>2 DEF Emitted, AllViews
    <3> QED
      BY <1>3, <2>1, <2>3, <3>1, <3>3, AdvanceViews
  <2> QED
    BY <2>2, <2>3
<1>8. CASE BuildSizeHistogram(r)
  <2>1. Advance(r, "parallel", Views(r), "histogram") /\ jobs[r].stage = "histogram"
    BY <1>8 DEF BuildSizeHistogram
  <2>2. jobs'[r].stage = "parallel" /\ jobs'[r].todo = Views(r) /\ jobs'[r].diff = jobs[r].diff
    BY <1>2, <1>3, <2>1
  <2>3. Views(r)' = Views(r)
    BY <2>2 DEF Views
  <2>4. ~ jobs[r].diff
    BY <2>1 DEF ViewInv, StageInv
  <2>5. Emitted(r)' = Emitted(r) \cup ({"histogram"} \cap AllViews)
    BY <2>1, <2>2, <2>3, <2>4 DEF Emitted, AllViews
  <2> QED
    BY <1>3, <2>1, <2>5, AdvanceViews
<1>9. CASE Finish(r)
  <2>1. Advance(r, "finishing", {}, "setData") /\ jobs[r].stage = "parallel" /\ jobs[r].todo = {}
    BY <1>9 DEF Finish
  <2>2. jobs'[r].stage = "finishing" /\ jobs'[r].todo = {} /\ jobs'[r].diff = jobs[r].diff
    BY <1>2, <1>3, <2>1
  <2>3. Views(r)' = Views(r)
    BY <2>2 DEF Views
  <2>4. Emitted(r)' = Emitted(r) \cup ({"setData"} \cap AllViews)
    BY <1>3, <2>1, <2>2, <2>3 DEF Emitted
  <2> QED
    BY <1>3, <2>1, <2>4, AdvanceViews
<1>10. ASSUME NEW view \in jobs[r].todo, BuildView(r, view) PROVE ViewInv'
  <2>1. Advance(r, "parallel", jobs[r].todo \ {view}, view) /\ jobs[r].stage = "parallel"
    BY <1>10 DEF BuildView
  <2>2. view \in AllViews /\ view \in SignalNames /\ jobs[r].todo \ {view} \in SUBSET AllViews
    BY <1>3, <1>10 DEF SignalNames
  <2>3. jobs'[r].stage = "parallel" /\ jobs'[r].todo = jobs[r].todo \ {view} /\ jobs'[r].diff = jobs[r].diff
    BY <1>2, <1>3, <2>1, <2>2
  <2>4. Views(r)' = Views(r)
    BY <2>3 DEF Views
  <2>5. view \in Views(r)
    BY <2>1 DEF ViewInv, StageInv
  <2>6. Emitted(r)' = Emitted(r) \cup ({view} \cap AllViews)
    BY <2>1, <2>2, <2>3, <2>4, <2>5 DEF Emitted
  <2>7. jobs[r].todo \ {view} \subseteq Views(r)
    BY <2>1 DEF ViewInv, StageInv
  <2> QED
    BY <1>3, <2>1, <2>2, <2>6, <2>7, AdvanceViews
<1> QED
  BY <1>4, <1>5, <1>6, <1>7, <1>8, <1>9, <1>10 DEF JobStep

\* A request is made when nothing is under way; its job has emitted nothing.
LEMMA RequestViews ==
    ASSUME Owned, ViewInv, NEW p \in MaybePaths, NEW d \in BOOLEAN, NEW f \in Filters,
           ParseImpl(p, d, f), signals = <<>>, \A r \in Requests : ~ Running(r), page' = "loading",
           UNCHANGED <<shown, isFiltered, selection>>, opened' \in {opened, Len(jobs')},
           afresh' => /\ d => shown["histogram"] = Null /\ shown["charts"] = Null
                      /\ shown["charts"] # Null => shown["charts"] >= opened'
                      /\ selection # Null => selection >= opened'
    PROVE  ViewInv'
<1> DEFINE new == NewJob(p, d, f)
<1>1. new.stage = "queued" /\ new.diff = d /\ new \in Jobs
  BY DEF NewJob, Jobs, Stages, Owned, TypeOK
<1>2. jobs' = Append(jobs, new) /\ jobs \in Seq(Jobs) /\ m_data' = Null /\ signals' = <<>>
  BY DEF ParseImpl, Owned, TypeOK
<1> HIDE DEF new
<1>3. /\ Len(jobs) \in Nat /\ Len(jobs') = Len(jobs) + 1 /\ jobs'[Len(jobs) + 1] = new
      /\ \A s \in 1 .. Len(jobs) : jobs'[s] = jobs[s]
  BY <1>1, <1>2, AppendProperties, LenProperties
<1>4. \A s \in Requests' : s = Len(jobs') \/ s \in Requests
  BY <1>3 DEF Requests
<1>5. \A s \in Requests' :
        \/ s = Len(jobs') /\ jobs'[s] = new
        \/ jobs'[s].stage = "ended"
  BY <1>3, <1>4 DEF Requests, Running
<1>6. \A s \in Requests' : jobs'[s].stage \in {"queued", "ended"}
  BY <1>1, <1>5
<1>7. \A s \in Requests' : Emitted(s)' = {}
  BY <1>6 DEF Emitted
<1>8. WindowTypes' /\ opened' <= Len(jobs')
  BY <1>3 DEF ViewInv, WindowTypes, LastInv
<1>9. DOMAIN signals' = {}
  BY <1>2
<1>10. LastInv'
  BY <1>5, <1>8, <1>9 DEF LastInv, Running
<1>11. StageInv'
  BY <1>6 DEF StageInv
<1>12. ShownInv'
  BY <1>2, <1>6, <1>7 DEF ShownInv
<1>13. (\E s \in Requests' : Running(s)' /\ jobs'[s].diff) => d
  BY <1>1, <1>5 DEF Running
<1>14. FreshInv'
  BY <1>2, <1>13 DEF FreshInv
<1>15. FilterInv'
  BY <1>2, <1>6 DEF FilterInv, ViewInv
<1> QED
  BY <1>8, <1>10, <1>11, <1>12, <1>14, <1>15 DEF ViewInv

\* The user changes the selection, or turns away from the results without a request.
LEMMA WindowViews ==
    ASSUME ViewInv, UNCHANGED <<parser, opened, afresh, isFiltered, actionResetFilter, shown>>,
           \/ page' = page
           \/ page = "results" /\ page' = "loading",
           selection' \in {selection, Null, shown["charts"]}
    PROVE  ViewInv'
<1>1. Requests' = Requests /\ jobs' = jobs /\ signals' = signals /\ m_data' = m_data
      /\ parserData' = parserData
  BY DEF parser, Requests
<1>2. /\ \A r \in Requests : Emitted(r)' = Emitted(r) /\ Running(r)' = Running(r) /\ Views(r)' = Views(r)
      /\ \A v : Pending(v)' = Pending(v)
      /\ \A d : IsFiltered(d)' = IsFiltered(d) /\ Produces(d)' = Produces(d)
  BY <1>1 DEF Emitted, Views, Running, Pending, IsFiltered, Produces
<1>3. WindowTypes'
  <2>1. shown["charts"] \in Nat
    BY DEF ViewInv, WindowTypes, AllViews
  <2> QED
    BY <2>1 DEF ViewInv, WindowTypes
<1>4. LastInv'
  <2>1. Emitted(Len(jobs))' = Emitted(Len(jobs))
    BY <1>1 DEF Emitted, Views
  <2> QED
    BY <1>1, <1>2, <2>1 DEF ViewInv, LastInv
<1>5. StageInv'
  BY <1>1, <1>2 DEF ViewInv, StageInv
<1>6. ShownInv'
  BY <1>1, <1>2 DEF ViewInv, ShownInv
<1>7. FreshInv'
  BY <1>1, <1>2 DEF ViewInv, FreshInv
<1>8. FilterInv'
  BY <1>1, <1>2 DEF ViewInv, FilterInv
<1> QED
  BY <1>3, <1>4, <1>5, <1>6, <1>7, <1>8 DEF ViewInv

\* File > Open, when nothing is under way, clears what could be out of date.
LEMMA CloseViews ==
    ASSUME ViewInv, Idle, CloseFile
    PROVE  ViewInv'
<1>1. /\ Requests' = Requests /\ jobs' = jobs /\ signals' = signals /\ m_data' = m_data
      /\ parserData' = parserData /\ page' = "open" /\ selection' = Null
      /\ afresh' = afresh /\ opened' = opened /\ isFiltered' = isFiltered
      /\ actionResetFilter' = actionResetFilter
  BY DEF CloseFile, parser, Requests
<1>2. signals = <<>> /\ \A r \in Requests : jobs[r].stage = "ended"
  BY DEF Idle, Running
<1>3. DOMAIN signals' = {} /\ \A r \in Requests' : Emitted(r)' = {}
  BY <1>1, <1>2 DEF Emitted
<1>4. /\ shown' \in [AllViews -> Nat] /\ shown'["histogram"] = Null /\ shown'["charts"] = Null
  BY DEF CloseFile, ViewInv, WindowTypes, AllViews
<1>5. WindowTypes'
  BY <1>1, <1>4 DEF ViewInv, WindowTypes
<1>6. LastInv' /\ StageInv'
  BY <1>1, <1>2, <1>3 DEF ViewInv, LastInv, StageInv, Running
<1>7. ShownInv'
  BY <1>1, <1>2, <1>3 DEF ShownInv
<1>8. FreshInv' /\ FilterInv'
  BY <1>1, <1>2, <1>4 DEF ViewInv, FreshInv, FilterInv
<1> QED
  BY <1>5, <1>6, <1>7, <1>8 DEF ViewInv

\* The signal that is delivered, and those that stay.
LEMMA Delivered ==
    ASSUME Owned, Deliver
    PROVE  /\ Head(signals) = signals[1] /\ 1 \in DOMAIN signals /\ signals # <<>>
           /\ \A n \in DOMAIN signals' : n + 1 \in DOMAIN signals /\ signals'[n] = signals[n + 1]
           /\ \A v : v # signals[1].signal /\ Pending(v) => Pending(v)'
           /\ Len(signals) = 1 => signals' = <<>> /\ \A v : Pending(v) => v = signals[1].signal
<1>1. /\ signals \in Seq([signal : SignalNames, job : Nat]) /\ signals # <<>> /\ signals' = Tail(signals)
  BY DEF Owned, TypeOK, Deliver
<1>2. /\ Head(signals) = signals[1] /\ signals' \in Seq([signal : SignalNames, job : Nat])
      /\ Len(signals') = Len(signals) - 1
      /\ \A k \in 1 .. Len(signals') : signals'[k] = signals[k + 1]
  BY <1>1, HeadTailProperties
<1>3. /\ DOMAIN signals = 1 .. Len(signals) /\ DOMAIN signals' = 1 .. Len(signals')
      /\ Len(signals) \in Nat /\ 1 \in DOMAIN signals
  BY <1>1, <1>2, LenProperties, EmptySeq
<1>4. \A n \in DOMAIN signals' : n + 1 \in DOMAIN signals /\ signals'[n] = signals[n + 1]
  BY <1>2, <1>3
<1>5. ASSUME NEW v, v # signals[1].signal, Pending(v) PROVE Pending(v)'
  <2>1. PICK n \in DOMAIN signals : signals[n].signal = v
    BY <1>5 DEF Pending
  <2>2. n - 1 \in DOMAIN signals' /\ (n - 1) + 1 = n
    BY <1>2, <1>3, <1>5, <2>1
  <2>3. signals'[n - 1].signal = v
    BY <1>4, <2>1, <2>2
  <2> QED
    BY <2>2, <2>3 DEF Pending
<1>6. Len(signals) = 1 => signals' = <<>> /\ \A v : Pending(v) => v = signals[1].signal
  <2>1. Len(signals) = 1 => signals' = <<>>
    BY <1>2, EmptySeq
  <2>2. Len(signals) = 1 => DOMAIN signals = {1}
    BY <1>3
  <2> QED
    BY <2>1, <2>2 DEF Pending
<1> QED
  BY <1>1, <1>2, <1>3, <1>4, <1>5, <1>6

\* A view gets the result of the last request.
LEMMA ShowViews ==
    ASSUME Owned, BoundInv, SequenceInv, PathInv, ViewInv, Deliver,
           NEW view, view = Head(signals).signal, ViewAvailable(view, Head(signals).job)
    PROVE  ViewInv'
<1> DEFINE r == Head(signals).job
<1>1. /\ Head(signals) = signals[1] /\ 1 \in DOMAIN signals /\ signals # <<>>
      /\ \A n \in DOMAIN signals' : n + 1 \in DOMAIN signals /\ signals'[n] = signals[n + 1]
      /\ \A v : v # view /\ Pending(v) => Pending(v)'
  BY Delivered
<1>2. /\ m_data' = m_data /\ jobs' = jobs /\ parserData' = parserData
      /\ actionResetFilter' = actionResetFilter /\ selection' = selection /\ opened' = opened
      /\ afresh' = afresh /\ view \in AllViews /\ shown' = [shown EXCEPT ![view] = r]
      /\ page' = (IF view = "bottomUp" THEN "results" ELSE page)
      /\ isFiltered' = (IF view = "summary" THEN IsFiltered(jobs[r].data) ELSE isFiltered)
  BY DEF ViewAvailable, Show, Deliver
<1>3. r = Len(jobs) /\ r \in Requests /\ r \in Nat /\ r # Null /\ view \in Emitted(r)
  <2>1. r = signals[1].job /\ signals[1].signal = view
    BY <1>1
  <2>2. r = Len(jobs) /\ view \in Emitted(r)
    BY <1>1, <1>2, <2>1 DEF ViewInv, LastInv
  <2>3. r \in Requests
    BY <1>1, <2>1 DEF Owned, TypeOK
  <2> QED
    BY <2>2, <2>3, RequestsTyped DEF Owned
<1> HIDE DEF r
<1>4. /\ Requests' = Requests
      /\ \A s \in Requests :
            Emitted(s)' = Emitted(s) /\ Running(s)' = Running(s) /\ Views(s)' = Views(s)
      /\ \A d : IsFiltered(d)' = IsFiltered(d)
  BY <1>2 DEF Emitted, Views, Running, IsFiltered, Requests
<1>5. jobs[r].stage \notin {"queued", "read", "ended"}
  BY <1>3 DEF Emitted
<1>6. \A s \in Requests \ {r} : jobs[s].stage = "ended"
  BY <1>3, <1>5, SoleJob DEF Running
<1>7. \A s \in Requests \ {r} : Emitted(s) = {}
  BY <1>6 DEF Emitted
<1>8. m_data = Null /\ page # "open"
  BY <1>1 DEF SequenceInv
<1>9. shown'[view] = r /\ \A v \in AllViews \ {view} : shown'[v] = shown[v]
  BY <1>2 DEF ViewInv, WindowTypes
<1>10. WindowTypes'
  BY <1>2, <1>3 DEF ViewInv, WindowTypes
<1>11. LastInv'
  <2>1. \A n \in DOMAIN signals' :
            /\ signals'[n].job = Len(jobs)
            /\ signals'[n].signal \in AllViews => signals'[n].signal \in Emitted(Len(jobs))
    BY <1>1 DEF ViewInv, LastInv
  <2>2. Emitted(Len(jobs))' = Emitted(Len(jobs))
    BY <1>3, <1>4, <1>2
  <2> QED
    BY <1>2, <1>4, <2>1, <2>2 DEF ViewInv, LastInv
<1>12. StageInv'
  BY <1>2, <1>4 DEF ViewInv, StageInv
<1>13. ShownInv'
  <2>1. page' = "results" => \E s \in Requests' : jobs'[s].stage \in {"histogram", "parallel", "finishing"}
    <3>1. CASE view = "bottomUp"
      <4>1. jobs[r].stage \in {"histogram", "parallel", "finishing"}
        BY <1>3, <3>1 DEF Emitted, Views
      <4> QED
        BY <1>2, <1>3, <1>4, <4>1
    <3>2. CASE view # "bottomUp"
      BY <1>2, <1>4, <1>8, <3>2 DEF ViewInv, ShownInv
    <3> QED
      BY <3>1, <3>2
  <2>2. ASSUME NEW s \in Requests', NEW v \in Emitted(s)' PROVE shown'[v] = s \/ Pending(v)'
    <3>1. s \in Requests /\ s = r /\ v \in Emitted(r)
      BY <1>4, <1>7, <2>2
    <3>2. v \in AllViews
      BY <3>1 DEF Emitted
    <3> QED
      BY <1>1, <1>9, <3>1, <3>2 DEF ViewInv, ShownInv
  <2> QED
    BY <1>2, <1>4, <1>8, <2>1, <2>2 DEF ViewInv, ShownInv
<1>14. FreshInv'
  <2>1. ASSUME NEW s \in Requests, Running(s), jobs[s].diff PROVE view \notin {"histogram", "charts"}
    <3>1. s = r
      BY <1>6, <2>1 DEF Running
    <3> QED
      BY <1>3, <2>1, <3>1 DEF Emitted, Views
  <2>2. "histogram" \in AllViews /\ "charts" \in AllViews
    BY DEF AllViews
  <2>3. afresh' /\ shown'["charts"] # Null => shown'["charts"] >= opened'
    BY <1>2, <1>3, <1>9, <2>2 DEF ViewInv, FreshInv, LastInv
  <2>4. (\E s \in Requests' : Running(s)' /\ jobs'[s].diff) => \E s \in Requests : Running(s) /\ jobs[s].diff
    BY <1>2, <1>4
  <2>5. (\E s \in Requests : Running(s) /\ jobs[s].diff) =>
            shown'["histogram"] = shown["histogram"] /\ shown'["charts"] = shown["charts"]
    BY <1>9, <2>1, <2>2
  <2> QED
    BY <1>2, <1>8, <2>3, <2>4, <2>5 DEF ViewInv, FreshInv
<1>15. FilterInv'
  <2>1. selection' # Null => shown'["charts"] # Null
    BY <1>2, <1>3, <1>9 DEF ViewInv, FilterInv, AllViews
  <2>2. ASSUME NEW s \in Requests, jobs[s].stage \notin {"queued", "read", "ended"}
        PROVE  isFiltered' = IsFiltered(jobs[s].data) \/ Pending("summary")'
    <3>1. s = r
      BY <1>6, <2>2
    <3>2. CASE view = "summary"
      BY <1>2, <3>1, <3>2
    <3>3. CASE view # "summary"
      BY <1>1, <1>2, <2>2, <3>3 DEF ViewInv, FilterInv
    <3> QED
      BY <3>2, <3>3
  <2>3. \A s \in Requests' : jobs'[s].stage \notin {"queued", "read", "ended"} =>
            isFiltered' = IsFiltered(jobs[s].data)' \/ Pending("summary")'
    BY <1>2, <1>4, <2>2
  <2> QED
    BY <1>2, <1>8, <2>1, <2>3 DEF FilterInv
<1> QED
  BY <1>10, <1>11, <1>12, <1>13, <1>14, <1>15 DEF ViewInv

\* A failure leaves the views of the request before.
LEMMA FailedViews ==
    ASSUME Owned, BoundInv, SequenceInv, PathInv, ViewInv, Deliver,
           Head(signals).signal = "failedToOpen", FailedToOpen(Head(signals).job)
    PROVE  ViewInv'
<1>1. Head(signals) = signals[1] /\ 1 \in DOMAIN signals /\ signals # <<>>
  BY Delivered
<1>2. Len(signals) = 1 /\ \A r \in Requests : jobs[r].stage = "ended"
  BY <1>1 DEF SequenceInv, Running
<1>3. signals' = <<>> /\ m_data = Null
  BY <1>1, <1>2, Delivered DEF SequenceInv
<1>4. /\ m_data' = m_data /\ jobs' = jobs /\ selection' = selection /\ opened' = opened
      /\ afresh' = afresh /\ shown' = shown /\ page' = "open"
  BY DEF FailedToOpen, Deliver
<1>5. Requests' = Requests /\ DOMAIN signals' = {}
  BY <1>3, <1>4 DEF Requests
<1>6. \A r \in Requests' : jobs'[r].stage = "ended"
  BY <1>2, <1>4, <1>5
<1>7. \A r \in Requests' : Emitted(r)' = {}
  BY <1>6 DEF Emitted
<1>8. WindowTypes' /\ LastInv' /\ StageInv'
  BY <1>4, <1>5, <1>6 DEF ViewInv, WindowTypes, LastInv, StageInv, Running
<1>9. ShownInv'
  BY <1>3, <1>4, <1>6, <1>7 DEF ShownInv
<1>10. FreshInv' /\ FilterInv'
  BY <1>3, <1>4, <1>6 DEF ViewInv, FreshInv, FilterInv, Running
<1> QED
  BY <1>8, <1>9, <1>10 DEF ViewInv

\* The last signal of a job: all its views are shown.
LEMMA FinishedViews ==
    ASSUME Owned, BoundInv, SequenceInv, PathInv, ViewInv, Deliver,
           Head(signals).signal = "setData", Finished(Head(signals).job)
    PROVE  ViewInv'
<1> DEFINE r == Head(signals).job
           d == jobs[r].data
<1>1. Head(signals) = signals[1] /\ 1 \in DOMAIN signals /\ signals # <<>>
  BY Delivered
<1>2. Len(signals) = 1 /\ jobs[r].stage = "finishing"
  BY <1>1 DEF SequenceInv
<1>3. signals' = <<>> /\ m_data = Null /\ \A v \in AllViews : ~ Pending(v)
  <2>1. "setData" \notin AllViews
    BY DEF AllViews
  <2> QED
    BY <1>1, <1>2, <2>1, Delivered DEF SequenceInv
<1>4. r = Len(jobs) /\ r \in Requests
  BY <1>1 DEF ViewInv, LastInv, Owned, TypeOK
<1>5. /\ m_data' = d /\ jobs' = [jobs EXCEPT ![r] = NoJob] /\ selection' = selection
      /\ opened' = opened /\ afresh' = afresh /\ shown' = shown /\ page' = page
      /\ isFiltered' = isFiltered /\ parserData' = Released(Null)
      /\ actionResetFilter' = IsFiltered(m_data')
  BY <1>3 DEF Finished, SetData, Deliver
<1>6. d \in 1 .. MaxRequests /\ d # Null /\ parserData[d].diffMode = jobs[r].diff
  BY <1>2, <1>4, DataTyped DEF PathInv, ViewInv, ShownInv
<1> HIDE DEF d
<1>7. NoJob \in Jobs /\ NoJob.stage = "ended"
  BY DEF NoJob, Jobs, Stages, MaybePaths, Filters
<1>8. /\ Len(jobs') = Len(jobs) /\ Requests' = Requests
      /\ jobs'[r] = NoJob /\ \A s \in Requests \ {r} : jobs'[s] = jobs[s]
  BY <1>4, <1>5, <1>7, OneJobChanges
<1>9. \A s \in Requests' : jobs'[s].stage = "ended"
  <2>1. \A s \in Requests : s # r => jobs[s].stage = "ended"
    BY <1>2, <1>4, SoleJob DEF Running
  <2> QED
    BY <1>7, <1>8, <2>1
<1>10. DOMAIN signals' = {} /\ \A s \in Requests' : Emitted(s)' = {}
  BY <1>3, <1>9 DEF Emitted
<1>11. parserData'[d] = parserData[d]
  BY <1>5, <1>6, ReleasedTyped DEF BoundInv
<1>12. WindowTypes' /\ LastInv' /\ StageInv'
  BY <1>5, <1>8, <1>9, <1>10 DEF ViewInv, WindowTypes, LastInv, StageInv, Running
<1>13. \A v \in Produces(d) : shown[v] = Len(jobs)
  <2>1. Produces(d) \subseteq Emitted(r)
    <3>1. jobs[r].todo = {}
      BY <1>2, <1>4 DEF ViewInv, ShownInv
    <3> QED
      BY <1>2, <1>6, <3>1 DEF Produces, Emitted, Views, AllViews
  <2>2. Emitted(r) \subseteq AllViews
    BY DEF Emitted
  <2> QED
    BY <1>3, <1>4, <2>1, <2>2 DEF ViewInv, ShownInv
<1>14. ShownInv'
  <2>1. Produces(m_data)' = Produces(d)
    BY <1>5, <1>11 DEF Produces
  <2> QED
    BY <1>5, <1>6, <1>8, <1>9, <1>10, <1>13, <2>1 DEF ShownInv
<1>15. FreshInv'
  <2>1. jobs[r].diff => \E s \in Requests : Running(s) /\ jobs[s].diff
    BY <1>2, <1>4 DEF Running
  <2> QED
    BY <1>5, <1>6, <1>9, <1>11, <2>1 DEF ViewInv, FreshInv, Running
<1>16. FilterInv'
  <2>1. isFiltered = IsFiltered(d)
    BY <1>2, <1>3, <1>4 DEF ViewInv, FilterInv, AllViews, d
  <2>2. actionResetFilter' = IsFiltered(d)
    BY <1>5, <1>11 DEF IsFiltered
  <2> QED
    BY <1>5, <1>9, <2>1, <2>2 DEF ViewInv, FilterInv
<1> QED
  BY <1>12, <1>14, <1>15, <1>16 DEF ViewInv

\* Every step, unless File > Open overtakes a job.
LEMMA ViewStep ==
    ASSUME IInv, overtaken \/ ViewInv, [Next]_vars, ~ overtaken'
    PROVE  ViewInv'
<1>1. ~ overtaken
  BY DEF Next, User, LoadFile, Reparse, CloseFile, ClickChart, DragOnChart, Job, Deliver, vars, window
<1>2. Owned /\ BoundInv /\ SequenceInv /\ PathInv /\ ViewInv
  BY <1>1 DEF IInv
<1>3. ASSUME NEW path \in Paths, NEW diff \in BOOLEAN, LoadFile(path, diff) PROVE ViewInv'
  <2>1. /\ ParseImpl(path, diff, lastFilter) /\ page = "open" /\ page' = "loading"
        /\ path \in MaybePaths /\ lastFilter \in Filters
        /\ UNCHANGED <<shown, isFiltered, selection>> /\ opened' = Len(jobs')
    BY <1>2, <1>3 DEF LoadFile, MaybePaths, BoundInv, charts
  <2>2. signals = <<>> /\ \A r \in Requests : ~ Running(r)
    BY <1>2, <2>1 DEF SequenceInv
  <2>3. afresh' => shown["histogram"] = Null /\ shown["charts"] = Null
    BY <1>3 DEF LoadFile, AllViews
  <2>4. afresh' => selection = Null
    BY <1>2, <2>3 DEF ViewInv, FilterInv
  <2> QED
    BY <1>2, <2>1, <2>2, <2>3, <2>4, RequestViews
<1>4. ASSUME NEW filter \in Filters, Reparse(filter) PROVE ViewInv'
  <2>1. CASE CanReparse
    <3>1. /\ ParseImpl(m_path, FALSE, filter) /\ m_data # Null /\ page' = "loading"
          /\ m_path \in MaybePaths /\ FALSE \in BOOLEAN
          /\ UNCHANGED <<shown, isFiltered, selection>> /\ opened' = opened /\ afresh' = afresh
      BY <1>2, <1>4, <2>1 DEF Reparse, CanReparse, Owned, TypeOK, charts
    <3>2. signals = <<>> /\ \A r \in Requests : ~ Running(r)
      BY <1>2, <3>1 DEF SequenceInv
    <3>3. afresh' => /\ shown["charts"] # Null => shown["charts"] >= opened'
                     /\ selection # Null => selection >= opened'
      BY <1>2, <3>1 DEF ViewInv, FreshInv
    <3> QED
      BY <1>2, <3>1, <3>2, <3>3, RequestViews
  <2>2. CASE ~ CanReparse
    <3>1. /\ UNCHANGED <<parser, opened, afresh, isFiltered, actionResetFilter, shown>>
          /\ page = "results" /\ page' = "loading" /\ selection' = selection
      BY <1>4, <2>2 DEF Reparse, charts
    <3> QED
      BY <1>2, <3>1, WindowViews
  <2> QED
    BY <2>1, <2>2
<1>5. CASE CloseFile
  <2>1. Idle
    BY <1>5 DEF CloseFile
  <2> QED
    BY <1>2, <1>5, <2>1, CloseViews
<1>6. CASE ClickChart \/ DragOnChart
  <2>1. /\ UNCHANGED <<parser, opened, afresh, isFiltered, actionResetFilter, shown>>
        /\ page' = page /\ selection' \in {selection, Null, shown["charts"]}
    BY <1>6 DEF ClickChart, DragOnChart
  <2> QED
    BY <1>2, <2>1, WindowViews
<1>7. CASE Job
  <2>1. PICK r \in Requests : JobStep(r) /\ UNCHANGED window
    BY <1>7 DEF Job
  <2> QED
    BY <1>2, <2>1, JobViews
<1>8. CASE Deliver
  <2>1. ASSUME NEW view, view = Head(signals).signal, ViewAvailable(view, Head(signals).job)
        PROVE  ViewInv'
    BY <1>2, <1>8, <2>1, ShowViews
  <2> QED
    BY <1>2, <1>8, <2>1, FailedViews, FinishedViews DEF Deliver
<1>9. CASE UNCHANGED vars
  <2>1. /\ UNCHANGED <<parser, opened, afresh, isFiltered, actionResetFilter, shown>>
        /\ page' = page /\ selection' = selection
    BY <1>9 DEF vars, window, charts
  <2> QED
    BY <1>2, <2>1, WindowViews
<1> QED
  BY <1>3, <1>4, <1>5, <1>6, <1>7, <1>8, <1>9 DEF Next, User

\* When everything is delivered, the views of the results page, the selection and the
\* filter belong to the file opened last: unless File > Open overtook a job.
THEOREM ShowsLastResults == Spec => []ResultsOfLastRequest
<1>1. Init => ViewInv
  <2> SUFFICES ASSUME Init PROVE ViewInv
    OBVIOUS
  <2>1. /\ jobs = <<>> /\ signals = <<>> /\ m_data = Null /\ page = "open"
        /\ shown = [v \in AllViews |-> Null] /\ selection = Null /\ opened = Null
    BY DEF Init, ParserInit
  <2>2. Len(jobs) = 0 /\ Requests = {} /\ DOMAIN signals = {}
    BY <2>1 DEF Requests
  <2>3. shown["charts"] = Null
    BY <2>1 DEF AllViews
  <2> QED
    BY <2>1, <2>2, <2>3 DEF ViewInv, WindowTypes, LastInv, StageInv, ShownInv, FreshInv, FilterInv
<1>2. (overtaken \/ ViewInv) /\ IInv /\ [Next]_vars => (overtaken \/ ViewInv)'
  BY ViewStep
<1>3. (overtaken \/ ViewInv) /\ IInv => ResultsOfLastRequest
  <2> SUFFICES ASSUME ~ overtaken, ViewInv, IInv PROVE ViewsOfLastRequest /\ FilterOfThisFile
    BY DEF ResultsOfLastRequest, ViewsOfLastRequest, FilterOfThisFile
  <2>1. ASSUME Idle, page = "results" PROVE m_data # Null
    BY <2>1 DEF Idle, Running, ViewInv, ShownInv
  <2>2. ASSUME Idle, page = "results", NEW v \in AllViews
        PROVE  IF v \in Produces(m_data) THEN shown[v] = Len(jobs) ELSE afresh => shown[v] = Null
    <3>1. CASE v \in Produces(m_data)
      BY <2>1, <2>2, <3>1 DEF ViewInv, ShownInv
    <3>2. CASE v \notin Produces(m_data)
      BY <2>1, <2>2, <3>2 DEF ViewInv, FreshInv, Produces
    <3> QED
      BY <3>1, <3>2
  <2>3. ViewsOfLastRequest
    BY <2>1, <2>2 DEF ViewsOfLastRequest, IInv, PathInv
  <2>4. FilterOfThisFile
    BY <2>1 DEF FilterOfThisFile, ViewInv, FreshInv, FilterInv
  <2> QED
    BY <2>3, <2>4
<1> QED
  BY <1>1, <1>2, <1>3, Invariance, PTL DEF Spec
=============================================================================
