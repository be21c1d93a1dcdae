----------------------------- MODULE FlameGraph -----------------------------
(***************************************************************************)
(* The flame graph tab, gui/flamegraph.cpp: a widget that computes its     *)
(* graphs in background jobs and gets them back as queued calls of         *)
(* setData, with a history of the items the user looked at.                *)
(*                                                                         *)
(* What a graph shows is CallTrees!ParseData; here a graph stands for the  *)
(* request it was computed for: the data and the settings at that moment.  *)
(* An item that is no frame (the text shown meanwhile) is treated by the   *)
(* code as if it were one, which is undefined; the outcome modelled is the *)
(* one in which the program goes on.                                       *)
(***************************************************************************)
EXTENDS Integers, Sequences

CONSTANTS
    Frames,         \* items of a graph besides its root
    Settings,       \* values of cost source, recursion and threshold together
    MaxData,        \* bound: how often new data comes
    MaxRequests,    \* bound: graphs that are computed
    MaxHistory      \* bound: length of the history

ASSUME BoundsAssumption == {MaxData, MaxRequests, MaxHistory} \subseteq Nat
ASSUME FramesAssumption == {"root", "none", "text"} \cap Frames = {}

VARIABLES
    visible,            \* isVisible()
    controls,           \* the settings and m_showBottomUpData
    data,               \* m_topDownData and m_bottomUpData, 0 for none; the number of the
                        \* newest data, and which of its parts are still to come
    m_rootItem, m_buildingScene,
    scene,              \* the items of m_scene
    selection,          \* m_selectionHistory, m_selectedItem (an index from 0, -1 before
                        \* the first call of setData), m_tooltipItem, enabled actions
    requests,           \* what showData asked for, in that order
    last,               \* (history) the request of the last setData(nullptr), 0 for none
    jobs,               \* the requests that are computed
    queue               \* queued calls of setData

widget == <<m_rootItem, m_buildingScene, scene, selection>>
work == <<requests, last, jobs>>
vars == <<visible, controls, data, widget, work, queue>>

Item(g, frame) == [graph |-> g, frame |-> frame]
Null == Item(0, "none")
\* "generating flame graph..."
Text == Item(0, "text")
ItemsOf(root) == {Item(root.graph, frame) : frame \in Frames \cup {"root"}}

Init ==
    /\ visible = FALSE
    /\ controls \in [settings : Settings, bottomUp : {FALSE}]
    /\ data = [topDown |-> 0, bottomUp |-> 0, newest |-> 0, arriving |-> {}]
    /\ m_rootItem = Null /\ m_buildingScene = FALSE /\ scene = {}
    /\ selection = [history |-> <<>>, selected |-> -1, tooltip |-> Null, actions |-> {}]
    /\ requests = <<>> /\ last = 0 /\ jobs = {} /\ queue = <<>>

-----------------------------------------------------------------------------
(* The member functions. *)

\* updateNavigationActions
NavigationActions(history, selected) ==
    (IF selected > 0 THEN {"back", "reset"} ELSE {})
    \cup (IF selected + 1 < Len(history) THEN {"forward"} ELSE {})

\* A selection whose actions have been updated.
Selection(history, selected, tooltip) ==
    [history |-> history, selected |-> selected, tooltip |-> tooltip,
     actions |-> NavigationActions(history, selected)]

\* setTooltipItem: away from the items it is the selected one's turn.
TooltipFor(item) ==
    IF item = Null /\ selection.selected # -1
    THEN selection.history[selection.selected + 1] ELSE item

\* Mutation of Emptied: the tooltip keeps its item.
EmptiedKeepTooltip == Selection(<<Null>>, 0, selection.tooltip)
Emptied == Selection(<<Null>>, 0, Null)

\* setData(nullptr)
SetNoData ==
    /\ scene' = {Text} /\ m_rootItem' = Null
    /\ selection' = Emptied

\* Mutation of SetData: the flag that a graph is under way is not reset.
SetDataStillBuilding(root) ==
    /\ scene' = ItemsOf(root) /\ m_rootItem' = root /\ UNCHANGED m_buildingScene
    /\ selection' = Selection(<<root>>, 0, IF visible THEN root ELSE Null)

\* setData(root): selectItem shows it when the tab is visible.
SetData(root) ==
    /\ scene' = ItemsOf(root) /\ m_rootItem' = root /\ m_buildingScene' = FALSE
    /\ selection' = Selection(<<root>>, 0, IF visible THEN root ELSE Null)

\* showData, with the data d and the controls c: no data, no job.
ShowData(d, c) ==
    LET shown == IF c.bottomUp THEN d.bottomUp ELSE d.topDown IN
    /\ SetNoData
    /\ m_buildingScene' = (shown # 0)
    /\ IF shown = 0 THEN last' = 0 /\ UNCHANGED <<requests, jobs>>
       ELSE /\ Len(requests) < MaxRequests
            /\ requests' = Append(requests,
                   [data |-> shown, bottomUp |-> c.bottomUp, settings |-> c.settings])
            /\ last' = Len(requests) + 1 /\ jobs' = jobs \cup {last'}

-----------------------------------------------------------------------------
(* Calls from the main window. *)

\* clearData, when a file is closed or parsed again; its data comes later.
ClearData ==
    /\ data.newest < MaxData
    /\ data' = [topDown |-> 0, bottomUp |-> 0, newest |-> data.newest + 1,
                arriving |-> {"bottomUp", "topDown"}]
    /\ SetNoData /\ m_buildingScene' = FALSE /\ last' = 0
    /\ UNCHANGED <<visible, controls, requests, jobs, queue>>

SetBottomUpData ==
    /\ "bottomUp" \in data.arriving
    /\ data' = [data EXCEPT !.bottomUp = data.newest, !.arriving = {"topDown"}]
    /\ UNCHANGED <<visible, controls, widget, work, queue>>

SetTopDownData ==
    /\ data.arriving = {"topDown"}
    /\ data' = [data EXCEPT !.topDown = data.newest, !.arriving = {}]
    /\ IF visible THEN ShowData(data', controls) ELSE UNCHANGED <<widget, work>>
    /\ UNCHANGED <<visible, controls, queue>>

-----------------------------------------------------------------------------
(* The user. *)

\* Mutation of Refresh: an unchecked box does not compute a new graph.
RefreshChecked(c) ==
    IF c.bottomUp \/ ~ controls.bottomUp THEN ShowData(data, c) ELSE UNCHANGED <<widget, work>>
Refresh(c) == ShowData(data, c)

ChangeControls(c) ==
    /\ controls' = c
    /\ Refresh(c)
    /\ UNCHANGED <<visible, data, queue>>

\* Another cost source, recursion or threshold.
ChangeSettings == \E s \in Settings \ {controls.settings} :
    ChangeControls([controls EXCEPT !.settings = s])

ToggleBottomUp == ChangeControls([controls EXCEPT !.bottomUp = ~ @])

\* The tab comes to the front or changes its size.
ShowOrResize ==
    /\ visible' = TRUE
    /\ IF m_rootItem # Null
       THEN /\ selection' =
                   [selection EXCEPT !.tooltip = selection.history[selection.selected + 1]]
            /\ UNCHANGED <<m_rootItem, m_buildingScene, scene, work>>
       ELSE IF m_buildingScene THEN UNCHANGED <<widget, work>> ELSE ShowData(data, controls)
    /\ UNCHANGED <<controls, data, queue>>

Hide ==
    /\ visible /\ visible' = FALSE
    /\ UNCHANGED <<controls, data, widget, work, queue>>

\* Mutation of Click: what was ahead in the history stays there.
ClickKeepAhead(item) ==
    LET h == selection.history IN
    /\ item # h[selection.selected + 1] /\ Len(h) < MaxHistory
    /\ selection' = Selection(Append(h, item), selection.selected + 1, item)

Click(item) ==
    LET h == selection.history IN
    /\ item # h[selection.selected + 1] /\ selection.selected + 1 < MaxHistory
    /\ selection' = Selection(Append(SubSeq(h, 1, selection.selected + 1), item),
                              selection.selected + 1, item)

ClickItem ==
    /\ visible /\ \E item \in scene : Click(item)
    /\ UNCHANGED <<visible, controls, data, m_rootItem, m_buildingScene, scene,
                   work, queue>>

\* The mouse moves over an item or away from all of them.
Hover ==
    /\ visible /\ \E item \in scene \cup {Null} :
           selection' = [selection EXCEPT !.tooltip = TooltipFor(item)]
    /\ UNCHANGED <<visible, controls, data, m_rootItem, m_buildingScene, scene,
                   work, queue>>

\* selectItem(int): an empty entry is selected without a look at it.
SelectItem(selected) ==
    LET item == selection.history[selected + 1] IN
    selection' = Selection(selection.history, selected,
                           IF item = Null THEN selection.tooltip ELSE item)

\* navigateBack, navigateForward and the action that goes to the first item
Navigate ==
    /\ visible
    /\ \/ "back" \in selection.actions /\ SelectItem(selection.selected - 1)
       \/ "forward" \in selection.actions /\ SelectItem(selection.selected + 1)
       \/ "reset" \in selection.actions /\ SelectItem(0)
    /\ UNCHANGED <<visible, controls, data, m_rootItem, m_buildingScene, scene,
                   work, queue>>

-----------------------------------------------------------------------------
(* The jobs run side by side and end in any order; each ends with a queued *)
(* call of setData.                                                        *)

JobEnds(g) ==
    /\ g \in jobs /\ jobs' = jobs \ {g}
    /\ queue' = Append(queue, Item(g, "root"))
    /\ UNCHANGED <<visible, controls, data, widget, requests, last>>

Deliver ==
    /\ queue # <<>> /\ queue' = Tail(queue)
    /\ SetData(Head(queue))
    /\ UNCHANGED <<visible, controls, data, work>>

Next ==
    \/ ClearData \/ SetBottomUpData \/ SetTopDownData
    \/ ChangeSettings \/ ToggleBottomUp \/ ShowOrResize \/ Hide
    \/ ClickItem \/ Hover \/ Navigate
    \/ (\E g \in jobs : JobEnds(g)) \/ Deliver

\* Jobs end and the event loop delivers; nobody has to use the window.
Spec ==
    /\ Init /\ [][Next]_vars
    /\ WF_vars(\E g \in jobs : JobEnds(g)) /\ WF_vars(Deliver)

-----------------------------------------------------------------------------
(* Properties. *)

\* Whatever replaces the scene while the user navigates: the root, the tooltip
\* and every entry of the history are items the scene still owns, and the
\* selected entry exists.
ItemsOfScene ==
    LET s == selection IN
    /\ \A i \in DOMAIN s.history : s.history[i] \in scene \cup {Null}
    /\ {m_rootItem, s.tooltip} \subseteq scene \cup {Null}
    /\ s.selected + 1 \in DOMAIN s.history \/ (s.selected = -1 /\ m_rootItem = Null)

\* Going forward leads only to items the user came back from: after a click the
\* clicked item is the newest entry, and no entry is its own neighbour.
HistoryIsPath ==
    LET s == selection IN
    /\ \A i \in 1..(Len(s.history) - 1) : s.history[i] # s.history[i + 1]
    /\ s.history # <<>> => s.history[1] = m_rootItem

\* Whatever replaces the scene, navigation stays within it.
NavigationInScene == ItemsOfScene /\ HistoryIsPath

\* The graph that belongs to the data and the controls of this moment.
Wanted == [data |-> IF controls.bottomUp THEN data.bottomUp ELSE data.topDown,
           bottomUp |-> controls.bottomUp, settings |-> controls.settings]

Settled == jobs = {} /\ queue = <<>> /\ data.arriving = {}

\* When nothing is under way, and no earlier graph has come after the one that
\* was asked for last, a visible tab with data shows the graph of the data and
\* the settings of the window.
ShowsLastRequest ==
    Settled /\ visible /\ Wanted.data # 0 /\ (m_rootItem = Null \/ m_rootItem.graph = last)
        => m_rootItem # Null /\ requests[m_rootItem.graph] = Wanted

\* A tab that announces a graph gets one, or its data is taken away.
GraphComes == m_buildingScene ~> ~ m_buildingScene
=============================================================================
