----------------------------- MODULE MainWindow -----------------------------
(***************************************************************************)
(* A window of the GUI, gui/mainwindow.cpp, and its Parser: what the user  *)
(* can do on each page, and what the slots do with the results of the      *)
(* jobs.  The views show the data they got last.  The three charts,        *)
(* gui/chartwidget.cpp, have their selection in common; what matters of it *)
(* is whether it is a range, and on which charts it was made.              *)
(***************************************************************************)
EXTENDS Parser

VARIABLES
    page,           \* current widget of m_ui->pages: "open", "loading", "results"
    m_openAction,   \* whether File > Open is enabled
    m_closeAction,  \* whether File > Close is enabled
    actionResetFilter,
    lastFilter,     \* m_lastFilterParameters
    selection,      \* ChartWidget::m_selection: 0 if empty, or the job whose charts it was made on
    isFiltered,     \* of ChartWidget::m_summaryData
    shown,          \* for each view the job whose result it shows, or Null
    opened,         \* history: the job of the file chosen last
    afresh,         \* history: the views were empty when it was chosen
    overtaken       \* history: File > Open was used while a job was running

charts == <<selection, isFiltered>>
window == <<page, m_openAction, m_closeAction, actionResetFilter, lastFilter, charts, shown, opened,
            afresh, overtaken>>
vars   == <<parser, window>>

AllViews == {"summary", "bottomUp", "histogram", "topDown", "callerCallee", "charts"}

\* The views that get data from a job.
Produces(d) == IF parserData[d].diffMode THEN AllViews \ {"histogram", "charts"} ELSE AllViews

Idle == signals = <<>> /\ \A r \in Requests : ~ Running(r)

Init ==
    /\ ParserInit
    /\ page = "open" /\ m_openAction = FALSE /\ m_closeAction = TRUE
    /\ actionResetFilter = FALSE /\ lastFilter = "all"
    /\ shown = [v \in AllViews |-> Null]
    /\ selection = Null /\ isFiltered = FALSE
    /\ opened = Null /\ afresh = TRUE /\ overtaken = FALSE

-----------------------------------------------------------------------------
(* The user                                                                *)

\* A file, and maybe one to compare it with, is chosen on the open page.
LoadFile(path, diff) ==
    /\ page = "open" /\ Len(jobs) < MaxRequests
    /\ page' = "loading" /\ m_closeAction' = FALSE
    /\ ParseImpl(path, diff, lastFilter)
    /\ opened' = Len(jobs')
    /\ afresh' = \A v \in AllViews \ {"summary"} : shown[v] = Null
    /\ UNCHANGED <<m_openAction, actionResetFilter, lastFilter, charts, shown, overtaken>>

ChartsShown == page = "results" /\ shown["charts"] # Null

\* The left button is pressed on a chart, or released where it was pressed:
\* start and end of the selection are the same.
ClickChart ==
    /\ ChartsShown
    /\ selection' = Null
    /\ UNCHANGED <<parser, page, m_openAction, m_closeAction, actionResetFilter, lastFilter,
                   isFiltered, shown, opened, afresh, overtaken>>

\* The mouse is moved or released elsewhere, with the charts that are there now.
DragOnChart ==
    /\ ChartsShown
    /\ selection' = shown["charts"]
    /\ UNCHANGED <<parser, page, m_openAction, m_closeAction, actionResetFilter, lastFilter,
                   isFiltered, shown, opened, afresh, overtaken>>

\* The context menu of a chart: the selected range, or no filter any more.
ChartMenu ==
    IF ChartsShown
    THEN {f \in Filters : IF f = "some" THEN selection # Null ELSE isFiltered}
    ELSE {}

\* What reparse is asked for: by a suppression switch, which keeps the filter, by
\* the menu of a chart, and by the action that resets the filter.
FilterChoices ==
    {lastFilter} \cup ChartMenu \cup (IF actionResetFilter THEN {"all"} ELSE {})

\* MainWindow::reparse turns to the loading page whatever Parser::reparse does.
Reparse(filter) ==
    /\ page = "results" /\ filter \in FilterChoices
    /\ page' = "loading" /\ m_closeAction' = FALSE /\ lastFilter' = filter
    /\ IF CanReparse
       THEN Len(jobs) < MaxRequests /\ ParseImpl(m_path, FALSE, filter)
       ELSE UNCHANGED parser
    /\ UNCHANGED <<m_openAction, actionResetFilter, charts, shown, opened, afresh, overtaken>>

\* A mutation of CloseFile: the selection stays.
CloseFileKeepSelection ==
    /\ m_openAction
    /\ page' = "open" /\ m_openAction' = FALSE
    /\ shown' = [v \in AllViews |-> IF v = "summary" THEN shown[v] ELSE Null]
    /\ overtaken' = (overtaken \/ ~ Idle)
    /\ UNCHANGED <<parser, m_closeAction, actionResetFilter, lastFilter, charts, opened, afresh>>

\* File > Open: back to the open page; every view but the summary is cleared,
\* and so is the selection.
CloseFile ==
    /\ m_openAction
    /\ page' = "open" /\ m_openAction' = FALSE
    /\ shown' = [v \in AllViews |-> IF v = "summary" THEN shown[v] ELSE Null]
    /\ selection' = Null
    /\ overtaken' = (overtaken \/ ~ Idle)
    /\ UNCHANGED <<parser, m_closeAction, actionResetFilter, lastFilter, isFiltered, opened, afresh>>

-----------------------------------------------------------------------------
(* The slots                                                               *)

Show(view, r) == shown' = [shown EXCEPT ![view] = r]

\* A view gets its data; the results page is there once bottom-up data is. The
\* charts learn from the summary what they are filtered by.
ViewAvailable(view, r) ==
    /\ view \in AllViews
    /\ Show(view, r)
    /\ page' = IF view = "bottomUp" THEN "results" ELSE page
    /\ isFiltered' = IF view = "summary" THEN IsFiltered(jobs[r].data) ELSE isFiltered
    /\ UNCHANGED <<m_data, m_path, jobs, parserData, m_openAction, m_closeAction, actionResetFilter>>

\* Mutation of RemoveProgress: File > Open stays disabled.
RemoveProgressKeepOpen == m_closeAction' = TRUE /\ UNCHANGED m_openAction

\* removeProgress: the actions that loadFile and closeFile disabled are back.
RemoveProgress == m_openAction' = TRUE /\ m_closeAction' = TRUE

FailedToOpen(r) ==
    /\ RemoveProgress
    /\ page' = "open"
    /\ UNCHANGED <<m_data, m_path, jobs, parserData, actionResetFilter, isFiltered, shown>>

Finished(r) ==
    /\ SetData(r)
    /\ RemoveProgress
    /\ actionResetFilter' = IsFiltered(m_data')
    /\ UNCHANGED <<page, isFiltered, shown>>

\* The GUI thread delivers the next queued signal.
Deliver ==
    /\ signals # <<>>
    /\ LET s == Head(signals).signal
           r == Head(signals).job
       IN \/ ViewAvailable(s, r)
          \/ s = "failedToOpen" /\ FailedToOpen(r)
          \/ s = "setData" /\ Finished(r)
    /\ signals' = Tail(signals)
    /\ UNCHANGED <<lastFilter, selection, opened, afresh, overtaken>>

-----------------------------------------------------------------------------
User ==
    \/ \E path \in Paths, diff \in BOOLEAN : LoadFile(path, diff)
    \/ \E filter \in Filters : Reparse(filter)
    \/ CloseFile \/ ClickChart \/ DragOnChart

Job == \E r \in Requests : JobStep(r) /\ UNCHANGED window

Next == User \/ Job \/ Deliver

Spec == Init /\ [][Next]_vars

\* The pool runs every job, and the GUI thread returns to its event loop.
Fairness ==
    /\ \A r \in 1 .. MaxRequests : WF_vars(r \in Requests /\ JobStep(r) /\ UNCHANGED window)
    /\ WF_vars(Deliver)

FairSpec == Spec /\ Fairness

-----------------------------------------------------------------------------
(* Properties                                                              *)

\* The ParserData that a job reads and changes belongs to that job alone: not to
\* another one and not to m_data, even while several requests are under way
\* ("this mutates data, and thus anything running in parallel must not access
\* data").
OneOwner ==
    \A r \in Requests : Running(r) /\ jobs[r].data # Null =>
        /\ m_data # jobs[r].data
        /\ \A s \in Requests \ {r} : Running(s) => jobs[s].data # jobs[r].data

\* A job that parses again does it with the tables of the same file: the path
\* that the job compares with, m_path, is the one that came with its data.
ReparsesItsFile ==
    \A r \in Requests : jobs[r].stage \notin {"queued", "ended"} =>
        overtaken \/ parserData[jobs[r].data].path = jobs[r].path

\* When everything is delivered, every view shows the result of the last request
\* and its data is there to be parsed again. The others are empty, unless they were
\* not when the file was chosen: a reparse that fails leaves them.
ViewsOfLastRequest ==
    Idle /\ page = "results" /\ ~ overtaken =>
        /\ m_data # Null /\ parserData[m_data].path = m_path
        /\ \A v \in AllViews :
            IF v \in Produces(m_data) THEN shown[v] = Len(jobs) ELSE afresh => shown[v] = Null

\* A range that the charts offer to filter by was selected on charts of the file
\* that is open, and the ways to reset the filter agree on whether there is one.
FilterOfThisFile ==
    ~ overtaken =>
        /\ afresh /\ selection # Null => selection >= opened
        /\ Idle /\ page = "results" => actionResetFilter = isFiltered

\* What is shown, and what it is filtered by, belong to the file opened last.
ResultsOfLastRequest == ViewsOfLastRequest /\ FilterOfThisFile

\* However requests overlap or fail, the user always comes back to a page on
\* which a file can be chosen.
NeverLockedOut == []<>(page = "open" \/ m_openAction)

\* Every request the parser accepted comes to an end. At most MaxRequests are
\* made, so that from some moment on none is left.
AcceptedRequestsEnd == <>[](\A r \in Requests : ~ Running(r))

\* Nobody waits for ever: neither the user nor a request.
NobodyWaitsForever == NeverLockedOut /\ AcceptedRequestsEnd

\* "Reparsing file, please wait..." (mainwindow.cpp:682): the loading page goes
\* away without the user's help.
LoadingEnds == page = "loading" ~> page # "loading"
=============================================================================
