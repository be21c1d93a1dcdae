-------------------------- MODULE FlameGraphProofs --------------------------
(***************************************************************************)
(* Theorems about FlameGraph, for any items, settings and lengths.         *)
(*                                                                         *)
(* That navigation stays in the scene takes that the enabled actions are   *)
(* those of the present history.  That a settled tab shows what was asked  *)
(* for last takes that the request that counts, last, always is one for    *)
(* the data and settings of the moment, and that its graph is on the way   *)
(* while the tab has none.                                                 *)
(***************************************************************************)
EXTENDS FlameGraph, SequenceTheorems, TLAPS

Items == [graph : Nat, frame : Frames \cup {"root", "none", "text"}]

\* The requests a graph can be for.
Known == 1 .. Len(requests)
Roots == {Item(g, "root") : g \in Known}

Controls == [settings : Settings, bottomUp : BOOLEAN]
Datas == [topDown : Nat, bottomUp : Nat, newest : Nat, arriving : SUBSET {"bottomUp", "topDown"}]
Selections == [history : Seq(Items), selected : Int, tooltip : Items,
               actions : SUBSET {"back", "forward", "reset"}]

TypeOK ==
    /\ visible \in BOOLEAN /\ m_buildingScene \in BOOLEAN /\ controls \in Controls
    /\ data \in Datas
    /\ requests \in Seq([data : Nat, bottomUp : BOOLEAN, settings : Settings])
    /\ last \in {0} \cup Known /\ jobs \subseteq Known /\ queue \in Seq(Roots)
    /\ scene \subseteq Items /\ m_rootItem \in Roots \cup {Null}
    /\ selection \in Selections

\* What is selected exists once there is a scene, and the actions that are
\* enabled lead to what is in the history.
NavigationInv ==
    /\ NavigationInScene
    /\ selection.actions = NavigationActions(selection.history, selection.selected)
    /\ selection.selected = -1 => scene = {} /\ selection.history = <<>>

\* The request that counts is for what is wanted now, its graph is on the way while
\* the tab has none, and a visible tab without one has no data to show.
RequestInv ==
    /\ "bottomUp" \in data.arriving => data.bottomUp = 0
    /\ data.arriving # {} => data.topDown = 0
    /\ last # 0 => requests[last] = Wanted /\ Wanted.data # 0
    /\ m_buildingScene => last # 0
    /\ last # 0 /\ m_rootItem = Null => last \in jobs \/ \E i \in DOMAIN queue : queue[i].graph = last
    /\ visible /\ m_rootItem = Null /\ last = 0 /\ data.arriving = {} => Wanted.data = 0

IInv == TypeOK /\ NavigationInv /\ RequestInv

-----------------------------------------------------------------------------
(* Items and selections. *)

\* Every frame of a graph has a number, and the three special ones are told apart.
LEMMA ItemsTyped ==
    /\ Null \in Items /\ Text \in Items /\ Text # Null
    /\ \A g \in Nat : ItemsOf(Item(g, "root")) \subseteq Items
    /\ \A g \in Nat : Item(g, "root") \in Items /\ Item(g, "root") \in ItemsOf(Item(g, "root"))
    /\ \A g \in Nat : Item(g, "root") # Null /\ Item(g, "root").graph = g
BY DEF Items, Item, Null, Text, ItemsOf

\* An update of the actions gives a selection of the right kind.
LEMMA SelectionTyped ==
    ASSUME NEW h \in Seq(Items), NEW n \in Int, NEW tip \in Items
    PROVE  /\ Selection(h, n, tip) \in Selections
           /\ Selection(h, n, tip).history = h /\ Selection(h, n, tip).selected = n
           /\ Selection(h, n, tip).tooltip = tip
           /\ Selection(h, n, tip).actions = NavigationActions(h, n)
BY DEF Selection, Selections, NavigationActions

\* A history of one item.
LEMMA OneItem ==
    ASSUME NEW item \in Items
    PROVE  <<item>> \in Seq(Items) /\ Len(<<item>>) = 1 /\ <<item>>[1] = item /\ DOMAIN <<item>> = {1}
OBVIOUS

\* The roots that are known stay so.
LEMMA RootsTyped ==
    ASSUME TypeOK
    PROVE  /\ Len(requests) \in Nat /\ Known \subseteq Nat \ {0} /\ Roots \subseteq Items
           /\ m_rootItem \in Items /\ Null \notin Roots
           /\ \A root \in Roots : root = Item(root.graph, "root") /\ root.graph \in Known
<1>1. Len(requests) \in Nat
  BY LenProperties DEF TypeOK
<1>2. Known \subseteq Nat \ {0}
  BY <1>1 DEF Known
<1>3. \A g \in Known : Item(g, "root") \in Items /\ Item(g, "root") # Null /\ Item(g, "root").graph = g
  BY <1>2, ItemsTyped
<1> QED
  BY <1>1, <1>2, <1>3, ItemsTyped DEF Roots, TypeOK

\* What is selected is an item.
LEMMA SelectionNow ==
    ASSUME TypeOK, NavigationInv
    PROVE  /\ selection.history \in Seq(Items) /\ selection.selected \in Int
           /\ selection.tooltip \in Items /\ Len(selection.history) \in Nat
           /\ DOMAIN selection.history = 1 .. Len(selection.history)
           /\ selection.selected # -1 => selection.selected + 1 \in 1 .. Len(selection.history)
           /\ \A i \in 1 .. Len(selection.history) :
                /\ selection.history[i] \in Items
                /\ selection.history[i] \in scene \cup {Null}
<1>1. selection.history \in Seq(Items) /\ selection.selected \in Int /\ selection.tooltip \in Items
  BY DEF TypeOK, Selections
<1>2. /\ Len(selection.history) \in Nat
      /\ DOMAIN selection.history = 1 .. Len(selection.history)
      /\ \A i \in 1 .. Len(selection.history) : selection.history[i] \in Items
  BY <1>1, LenProperties, ElementOfSeq
<1> QED
  BY <1>1, <1>2 DEF NavigationInv, NavigationInScene, ItemsOfScene

-----------------------------------------------------------------------------
(* The member functions. *)

\* A scene without a graph.
LEMMA NoDataStep ==
    ASSUME SetNoData
    PROVE  /\ scene' \subseteq Items /\ m_rootItem' = Null /\ selection' \in Selections
           /\ NavigationInv'
<1>1. selection' = Selection(<<Null>>, 0, Null) /\ scene' = {Text} /\ m_rootItem' = Null
  BY DEF SetNoData, Emptied
<1>2. /\ <<Null>> \in Seq(Items) /\ Len(<<Null>>) = 1 /\ <<Null>>[1] = Null /\ DOMAIN <<Null>> = {1}
      /\ Null \in Items /\ 0 \in Int
  BY ItemsTyped, OneItem
<1>3. /\ selection' \in Selections /\ selection'.history = <<Null>> /\ selection'.selected = 0
      /\ selection'.tooltip = Null
      /\ selection'.actions = NavigationActions(<<Null>>, 0)
  <2> DEFINE h == <<Null>>
  <2>1. h \in Seq(Items) /\ Null \in Items /\ 0 \in Int /\ selection' = Selection(h, 0, Null)
    BY <1>1, <1>2
  <2> HIDE DEF h
  <2>2. /\ Selection(h, 0, Null) \in Selections /\ Selection(h, 0, Null).history = h
        /\ Selection(h, 0, Null).selected = 0 /\ Selection(h, 0, Null).tooltip = Null
        /\ Selection(h, 0, Null).actions = NavigationActions(h, 0)
    BY <2>1, SelectionTyped
  <2> QED
    BY <2>1, <2>2 DEF h
<1>4. ItemsOfScene'
  BY <1>1, <1>2, <1>3 DEF ItemsOfScene
<1>5. HistoryIsPath'
  <2>1. 1 .. Len(selection'.history) - 1 = {}
    BY <1>2, <1>3
  <2>2. selection'.history[1] = m_rootItem'
    BY <1>1, <1>2, <1>3
  <2> QED
    BY <2>1, <2>2 DEF HistoryIsPath
<1> QED
  BY <1>1, <1>3, <1>4, <1>5, ItemsTyped DEF NavigationInv, NavigationInScene

\* A request is made, if there is data to show.
LEMMA ShowDataStep ==
    ASSUME TypeOK, visible' \in BOOLEAN, controls' \in Controls, data' \in Datas, queue' = queue,
           ShowData(data', controls'),
           "bottomUp" \in data'.arriving => data'.bottomUp = 0,
           data'.arriving # {} => data'.topDown = 0
    PROVE  IInv'
<1> DEFINE shown == IF controls'.bottomUp THEN data'.bottomUp ELSE data'.topDown
           new == [data |-> shown, bottomUp |-> controls'.bottomUp, settings |-> controls'.settings]
           Record == [data : Nat, bottomUp : BOOLEAN, settings : Settings]
<1>1. new \in Record /\ new = Wanted' /\ shown = Wanted'.data
  BY DEF Controls, Datas, Wanted
<1>2. /\ SetNoData /\ m_buildingScene' = (shown # 0)
      /\ \/ shown = 0 /\ last' = 0 /\ requests' = requests /\ jobs' = jobs
         \/ /\ shown # 0 /\ requests' = Append(requests, new)
            /\ last' = Len(requests) + 1 /\ jobs' = jobs \cup {last'}
  BY DEF ShowData
<1> HIDE DEF new, shown, Record
<1>3. /\ requests \in Seq(Record) /\ Len(requests) \in Nat
  BY LenProperties DEF TypeOK, Record
<1>4. shown # 0 =>
        /\ requests' \in Seq(Record) /\ Len(requests') = Len(requests) + 1
        /\ requests'[Len(requests) + 1] = new
  BY <1>1, <1>2, <1>3, AppendProperties
<1>5. /\ requests' \in Seq(Record) /\ Known \subseteq Known' /\ last' \in {0} \cup Known' /\ jobs' \subseteq Known'
  <2>1. CASE shown = 0
    BY <1>2, <1>3, <2>1 DEF Known, TypeOK
  <2>2. CASE shown # 0
    <3>1. Known' = Known \cup {Len(requests) + 1} /\ last' = Len(requests) + 1 /\ jobs' = jobs \cup {last'}
      BY <1>2, <1>3, <1>4, <2>2 DEF Known
    <3> QED
      BY <1>4, <2>2, <3>1 DEF TypeOK
  <2> QED
    BY <2>1, <2>2
<1>6. /\ scene' \subseteq Items /\ m_rootItem' = Null /\ selection' \in Selections
      /\ NavigationInv'
  BY <1>2, NoDataStep
<1>7. TypeOK'
  <2>1. Roots \subseteq Roots'
    BY <1>5 DEF Roots
  <2>2. queue' \in Seq(Roots')
    <3>1. queue \in Seq(Roots)
      BY DEF TypeOK
    <3> QED
      BY <2>1, <3>1
  <2> QED
    BY <1>2, <1>5, <1>6, <2>2 DEF TypeOK, Datas, Selections, Record
<1>8. RequestInv'
  <2>1. last' # 0 => requests'[last'] = new /\ last' \in jobs'
    BY <1>2, <1>3, <1>4
  <2>2. last' = 0 => shown = 0
    BY <1>2, <1>3
  <2> QED
    BY <1>1, <1>2, <2>1, <2>2 DEF RequestInv
<1> QED
  BY <1>6, <1>7, <1>8 DEF IInv

\* A graph replaces what was shown.
LEMMA SetDataStep ==
    ASSUME IInv, NEW root \in Roots, SetData(root), visible' = visible, data' = data,
           controls' = controls, requests' = requests, last' = last, jobs' = jobs,
           queue' \in Seq(Roots)
    PROVE  IInv'
<1>1. /\ root \in Items /\ root # Null /\ root = Item(root.graph, "root") /\ root.graph \in Nat
  BY RootsTyped DEF IInv
<1>2. root \in ItemsOf(root) /\ ItemsOf(root) \subseteq Items
  BY <1>1, ItemsTyped
<1> DEFINE h == <<root>>
           tip == IF visible THEN root ELSE Null
<1>3. /\ h \in Seq(Items) /\ Len(h) = 1 /\ h[1] = root /\ DOMAIN h = {1}
      /\ tip \in Items /\ tip \in {root, Null} /\ 0 \in Int
  BY <1>1, OneItem, ItemsTyped
<1>4. /\ scene' = ItemsOf(root) /\ m_rootItem' = root /\ m_buildingScene' = FALSE
      /\ selection' = Selection(h, 0, tip)
  BY DEF SetData
<1> HIDE DEF h, tip
<1>5. /\ selection' \in Selections /\ selection'.history = h /\ selection'.selected = 0
      /\ selection'.tooltip = tip /\ selection'.actions = NavigationActions(h, 0)
  BY <1>3, <1>4, SelectionTyped
<1>6. NavigationInScene'
  BY <1>2, <1>3, <1>4, <1>5 DEF NavigationInScene, ItemsOfScene, HistoryIsPath
<1>7. NavigationInv'
  BY <1>4, <1>5, <1>6 DEF NavigationInv
<1>8. Known' = Known /\ Roots' = Roots
  BY DEF Known, Roots
<1>9. TypeOK'
  BY <1>2, <1>4, <1>5, <1>8 DEF TypeOK, IInv, Selections
<1>10. RequestInv'
  BY <1>1, <1>4 DEF RequestInv, IInv, Wanted
<1> QED
  BY <1>7, <1>9, <1>10 DEF IInv

-----------------------------------------------------------------------------
(* The actions. *)

\* The steps that change the data.
LEMMA ClearDataStep == ASSUME IInv, ClearData PROVE IInv'
<1>1. /\ data' = [topDown |-> 0, bottomUp |-> 0, newest |-> data.newest + 1,
                  arriving |-> {"bottomUp", "topDown"}]
      /\ SetNoData /\ m_buildingScene' = FALSE /\ last' = 0
      /\ UNCHANGED <<visible, controls, requests, jobs, queue>>
  BY DEF ClearData
<1>2. /\ scene' \subseteq Items /\ m_rootItem' = Null /\ selection' \in Selections
      /\ NavigationInv'
  BY <1>1, NoDataStep
<1>3. Known' = Known /\ Roots' = Roots
  BY <1>1 DEF Known, Roots
<1>4. data' \in Datas
  BY <1>1 DEF Datas, IInv, TypeOK
<1>5. TypeOK'
  BY <1>1, <1>2, <1>3, <1>4 DEF TypeOK, IInv, Selections, Datas
<1>6. RequestInv'
  BY <1>1, <1>2 DEF RequestInv
<1> QED
  BY <1>2, <1>5, <1>6 DEF IInv

\* Data of one kind comes while nothing is shown of it.
LEMMA SetBottomUpDataStep == ASSUME IInv, SetBottomUpData PROVE IInv'
<1>1. /\ data' = [data EXCEPT !.bottomUp = data.newest, !.arriving = {"topDown"}]
      /\ "bottomUp" \in data.arriving
      /\ UNCHANGED <<visible, controls, widget, work, queue>>
  BY DEF SetBottomUpData
<1>2. /\ data' \in Datas /\ data'.topDown = data.topDown /\ data'.arriving = {"topDown"}
  BY <1>1 DEF Datas, IInv, TypeOK
<1>3. Known' = Known /\ Roots' = Roots
  BY <1>1 DEF Known, Roots, work
<1>4. TypeOK' /\ NavigationInv'
  BY <1>1, <1>2, <1>3 DEF TypeOK, IInv, Datas, widget, work, NavigationInv, NavigationInScene,
     ItemsOfScene, HistoryIsPath
<1>5. RequestInv'
  BY <1>1, <1>2 DEF RequestInv, IInv, Wanted, widget, work
<1> QED
  BY <1>4, <1>5 DEF IInv

\* The last part of the data comes, which a visible tab shows.
LEMMA SetTopDownDataStep == ASSUME IInv, SetTopDownData PROVE IInv'
<1>1. /\ data' = [data EXCEPT !.topDown = data.newest, !.arriving = {}]
      /\ data.arriving = {"topDown"} /\ UNCHANGED <<visible, controls, queue>>
  BY DEF SetTopDownData
<1>2. /\ data' \in Datas /\ data'.bottomUp = data.bottomUp /\ data'.arriving = {}
  BY <1>1 DEF Datas, IInv, TypeOK
<1>3. TypeOK /\ controls' \in Controls /\ visible' \in BOOLEAN
  BY <1>1 DEF IInv, TypeOK
<1>4. CASE visible
  <2>1. ShowData(data', controls')
    BY <1>1, <1>4 DEF SetTopDownData
  <2> QED
    BY <1>1, <1>2, <1>3, <2>1, ShowDataStep
<1>5. CASE ~ visible
  <2>1. UNCHANGED <<widget, work>>
    BY <1>5 DEF SetTopDownData
  <2>2. Known' = Known /\ Roots' = Roots
    BY <2>1 DEF Known, Roots, work
  <2>3. TypeOK' /\ NavigationInv'
    BY <1>1, <1>2, <2>1, <2>2 DEF TypeOK, IInv, Datas, widget, work, NavigationInv,
       NavigationInScene, ItemsOfScene, HistoryIsPath
  <2>4. RequestInv'
    BY <1>1, <1>2, <1>5, <2>1 DEF RequestInv, IInv, Wanted, widget, work
  <2> QED
    BY <2>3, <2>4 DEF IInv
<1> QED
  BY <1>4, <1>5

\* Other settings.
LEMMA ControlsStep == ASSUME IInv, NEW c \in Controls, ChangeControls(c) PROVE IInv'
<1>1. /\ controls' = c /\ data' = data /\ visible' = visible /\ queue' = queue
      /\ ShowData(data', controls')
  BY DEF ChangeControls, Refresh
<1>2. TypeOK /\ controls' \in Controls /\ visible' \in BOOLEAN /\ data' \in Datas
  BY <1>1 DEF IInv, TypeOK, Datas
<1> QED
  BY <1>1, <1>2, ShowDataStep DEF IInv, RequestInv

\* What the user does with the items of the scene.
LEMMA SelectionStep ==
    ASSUME IInv, selection' \in Selections, NavigationInv',
           UNCHANGED <<visible, controls, data, m_rootItem, m_buildingScene, scene, work, queue>>
    PROVE  IInv'
<1>1. Known' = Known /\ Roots' = Roots
  BY DEF Known, Roots, work
<1>2. TypeOK'
  BY <1>1 DEF IInv, TypeOK, Selections, work
<1>3. RequestInv'
  BY DEF IInv, RequestInv, Wanted, work
<1> QED
  BY <1>2, <1>3 DEF IInv

\* The tab comes to the front.
LEMMA ShowOrResizeStep == ASSUME IInv, ShowOrResize PROVE IInv'
<1>1. visible' = TRUE /\ controls' = controls /\ data' = data /\ queue' = queue
  BY DEF ShowOrResize
<1>2. TypeOK /\ controls' \in Controls /\ data' \in Datas
  BY <1>1 DEF IInv, TypeOK, Datas
<1>3. CASE m_rootItem # Null
  <2> DEFINE item == selection.history[selection.selected + 1]
  <2>1. /\ selection' = [selection EXCEPT !.tooltip = item]
        /\ UNCHANGED <<m_rootItem, m_buildingScene, scene, work>>
    BY <1>3 DEF ShowOrResize
  <2>2. item \in Items /\ item \in scene \cup {Null}
    <3>1. selection.selected # -1
      BY <1>3 DEF IInv, NavigationInv, NavigationInScene, ItemsOfScene
    <3> QED
      BY <3>1, SelectionNow DEF IInv
  <2> HIDE DEF item
  <2>3. /\ selection' \in Selections /\ selection'.history = selection.history
        /\ selection'.selected = selection.selected /\ selection'.tooltip = item
        /\ selection'.actions = selection.actions
    BY <1>2, <2>1, <2>2 DEF Selections, TypeOK
  <2>4. NavigationInv'
    BY <2>1, <2>2, <2>3 DEF IInv, NavigationInv, NavigationInScene, ItemsOfScene, HistoryIsPath
  <2>5. Known' = Known /\ Roots' = Roots
    BY <2>1 DEF Known, Roots, work
  <2>6. TypeOK'
    BY <1>1, <1>2, <2>1, <2>3, <2>5 DEF TypeOK, Selections, work
  <2>7. RequestInv'
    BY <1>1, <1>3, <2>1 DEF RequestInv, IInv, Wanted, work
  <2> QED
    BY <2>4, <2>6, <2>7 DEF IInv
<1>4. CASE m_rootItem = Null /\ m_buildingScene
  <2>1. UNCHANGED <<widget, work>>
    BY <1>4 DEF ShowOrResize
  <2>2. Known' = Known /\ Roots' = Roots
    BY <2>1 DEF Known, Roots, work
  <2>3. TypeOK' /\ NavigationInv'
    BY <1>1, <2>1, <2>2 DEF TypeOK, IInv, widget, work, NavigationInv, NavigationInScene,
       ItemsOfScene, HistoryIsPath
  <2>4. RequestInv'
    BY <1>1, <1>4, <2>1 DEF RequestInv, IInv, Wanted, widget, work
  <2> QED
    BY <2>3, <2>4 DEF IInv
<1>5. CASE m_rootItem = Null /\ ~ m_buildingScene
  <2>1. ShowData(data', controls')
    BY <1>1, <1>5 DEF ShowOrResize
  <2> QED
    BY <1>1, <1>2, <2>1, ShowDataStep DEF IInv, RequestInv
<1> QED
  BY <1>3, <1>4, <1>5

\* The tab is hidden.
LEMMA HideStep == ASSUME IInv, Hide PROVE IInv'
<1>1. visible' = FALSE /\ UNCHANGED <<controls, data, widget, work, queue>>
  BY DEF Hide
<1>2. Known' = Known /\ Roots' = Roots
  BY <1>1 DEF Known, Roots, work
<1>3. TypeOK' /\ NavigationInv'
  BY <1>1, <1>2 DEF TypeOK, IInv, widget, work, NavigationInv, NavigationInScene, ItemsOfScene,
     HistoryIsPath
<1>4. RequestInv'
  BY <1>1 DEF RequestInv, IInv, Wanted, widget, work
<1> QED
  BY <1>3, <1>4 DEF IInv

\* What was ahead of the selected item is cut off, and the clicked one comes next.
LEMMA Clicked ==
    ASSUME NEW S, NEW h \in Seq(S), NEW k \in 1 .. Len(h), NEW item \in S
    PROVE  LET clicked == Append(SubSeq(h, 1, k), item) IN
           /\ clicked \in Seq(S) /\ Len(clicked) = k + 1 /\ clicked[k + 1] = item
           /\ \A i \in 1 .. k : clicked[i] = h[i]
<1> DEFINE kept == SubSeq(h, 1, k)
<1>1. Len(h) \in Nat /\ k \in Nat /\ 1 <= k /\ k <= Len(h)
  BY LenProperties
<1>2. /\ kept \in Seq(S) /\ Len(kept) = k /\ \A i \in 1 .. k : kept[i] = h[i]
  <2>1. \A i \in 1 .. k : h[i] \in S
    BY <1>1, ElementOfSeq
  <2> QED
    BY <1>1, <2>1, SubSeqProperties
<1> HIDE DEF kept
<1>3. /\ Append(kept, item) \in Seq(S) /\ Len(Append(kept, item)) = k + 1
      /\ Append(kept, item)[k + 1] = item /\ \A i \in 1 .. k : Append(kept, item)[i] = kept[i]
  BY <1>1, <1>2, AppendProperties
<1> QED
  BY <1>2, <1>3 DEF kept

\* An item is clicked.
LEMMA ClickStep == ASSUME IInv, ClickItem PROVE IInv'
<1> DEFINE h == selection.history
           k == selection.selected + 1
<1>1. PICK item \in scene :
        /\ item # h[k]
        /\ selection' = Selection(Append(SubSeq(h, 1, k), item), k, item)
  BY DEF ClickItem, Click
<1>2. UNCHANGED <<visible, controls, data, m_rootItem, m_buildingScene, scene, work, queue>>
  BY DEF ClickItem
<1>3. /\ h \in Seq(Items) /\ k \in Int /\ item \in Items /\ k \in 1 .. Len(h) /\ Len(h) \in Nat
      /\ DOMAIN h = 1 .. Len(h) /\ \A i \in 1 .. Len(h) : h[i] \in Items /\ h[i] \in scene \cup {Null}
  <2>1. selection.selected # -1 /\ item \in Items
    BY <1>1 DEF IInv, NavigationInv, TypeOK
  <2> QED
    BY <2>1, SelectionNow DEF IInv
<1> DEFINE c == Append(SubSeq(h, 1, k), item)
<1>4. /\ c \in Seq(Items) /\ Len(c) = k + 1 /\ c[k + 1] = item
      /\ \A i \in 1 .. k : c[i] = h[i]
  BY <1>3, Clicked
<1>5. /\ \A i \in 1 .. (Len(h) - 1) : h[i] # h[i + 1]
      /\ h # <<>> => h[1] = m_rootItem
  BY DEF IInv, NavigationInv, NavigationInScene, HistoryIsPath
<1>6. selection' = Selection(c, k, item)
  BY <1>1
<1>7. h[1] = m_rootItem
  <2>1. h # <<>>
    BY <1>3, EmptySeq
  <2> QED
    BY <1>5, <2>1
<1> HIDE DEF c, h, k
<1>8. /\ selection' \in Selections /\ selection'.history = c /\ selection'.selected = k
      /\ selection'.tooltip = item /\ selection'.actions = NavigationActions(c, k)
  <2>1. c \in Seq(Items) /\ k \in Int /\ item \in Items
    BY <1>3, <1>4
  <2>2. /\ Selection(c, k, item) \in Selections
        /\ Selection(c, k, item).history = c /\ Selection(c, k, item).selected = k
        /\ Selection(c, k, item).tooltip = item
        /\ Selection(c, k, item).actions = NavigationActions(c, k)
    BY <2>1, SelectionTyped
  <2> QED
    BY <1>6, <2>2
<1>9. /\ \A i \in 1 .. Len(c) : c[i] \in scene \cup {Null}
      /\ \A i \in 1 .. (Len(c) - 1) : c[i] # c[i + 1]
      /\ c[1] = m_rootItem /\ DOMAIN c = 1 .. Len(c)
  <2>1. ASSUME NEW i \in 1 .. Len(c) PROVE c[i] \in scene \cup {Null}
    <3>1. i \in 1 .. k \/ i = k + 1
      BY <1>3, <1>4
    <3> QED
      BY <1>1, <1>3, <1>4, <3>1
  <2>2. ASSUME NEW i \in 1 .. (Len(c) - 1) PROVE c[i] # c[i + 1]
    <3>1. CASE i = k
      BY <1>1, <1>3, <1>4, <3>1
    <3>2. CASE i # k
      <4>1. i \in 1 .. k /\ i + 1 \in 1 .. k /\ i \in 1 .. (Len(h) - 1)
        BY <1>3, <1>4, <3>2
      <4> QED
        BY <1>4, <1>5, <4>1
    <3> QED
      BY <3>1, <3>2
  <2>3. c[1] = m_rootItem
    BY <1>3, <1>4, <1>7
  <2> QED
    BY <1>4, <2>1, <2>2, <2>3, LenProperties
<1>10. NavigationInv'
  <2>1. m_rootItem \in scene \cup {Null} /\ item \in scene \cup {Null} /\ scene' = scene /\ m_rootItem' = m_rootItem
    BY <1>1, <1>2 DEF IInv, NavigationInv, NavigationInScene, ItemsOfScene
  <2>2. k + 1 \in DOMAIN c /\ k # -1
    BY <1>3, <1>4, <1>9
  <2>3. ItemsOfScene'
    BY <1>8, <1>9, <2>1, <2>2 DEF ItemsOfScene
  <2>4. HistoryIsPath'
    BY <1>8, <1>9, <2>1 DEF HistoryIsPath
  <2> QED
    BY <1>8, <2>2, <2>3, <2>4 DEF NavigationInv, NavigationInScene
<1> QED
  BY <1>2, <1>8, <1>10, SelectionStep

\* Another tooltip, of the scene.
LEMMA TooltipStep ==
    ASSUME IInv, NEW tip \in Items, tip \in scene \cup {Null},
           selection' = [selection EXCEPT !.tooltip = tip],
           UNCHANGED <<visible, controls, data, m_rootItem, m_buildingScene, scene, work, queue>>
    PROVE  IInv'
<1>1. /\ selection' \in Selections /\ selection'.history = selection.history
      /\ selection'.selected = selection.selected /\ selection'.tooltip = tip
      /\ selection'.actions = selection.actions
  BY DEF Selections, TypeOK, IInv
<1>2. NavigationInv'
  BY <1>1 DEF IInv, NavigationInv, NavigationInScene, ItemsOfScene, HistoryIsPath
<1> QED
  BY <1>1, <1>2, SelectionStep

\* The mouse moves.
LEMMA HoverStep == ASSUME IInv, Hover PROVE IInv'
<1>1. PICK item \in scene \cup {Null} : selection' = [selection EXCEPT !.tooltip = TooltipFor(item)]
  BY DEF Hover
<1>2. UNCHANGED <<visible, controls, data, m_rootItem, m_buildingScene, scene, work, queue>>
  BY DEF Hover
<1>3. TooltipFor(item) \in Items /\ TooltipFor(item) \in scene \cup {Null}
  <2>1. item \in Items
    BY ItemsTyped DEF IInv, TypeOK
  <2> QED
    BY <2>1, SelectionNow DEF IInv, TooltipFor
<1> QED
  BY <1>1, <1>2, <1>3, TooltipStep

\* Another entry of the history.
LEMMA SelectItemStep ==
    ASSUME IInv, NEW n \in Int, n + 1 \in 1 .. Len(selection.history), SelectItem(n),
           UNCHANGED <<visible, controls, data, m_rootItem, m_buildingScene, scene, work, queue>>
    PROVE  IInv'
<1> DEFINE h == selection.history
           item == h[n + 1]
           tip == IF item = Null THEN selection.tooltip ELSE item
<1>1. /\ h \in Seq(Items) /\ DOMAIN h = 1 .. Len(h) /\ tip \in Items
  BY SelectionNow DEF IInv
<1>2. tip \in scene \cup {Null}
  BY SelectionNow DEF IInv, NavigationInv, NavigationInScene, ItemsOfScene
<1>3. selection' = Selection(h, n, tip)
  BY DEF SelectItem
<1> HIDE DEF tip
<1>4. /\ selection' \in Selections /\ selection'.history = h /\ selection'.selected = n
      /\ selection'.tooltip = tip /\ selection'.actions = NavigationActions(h, n)
  BY <1>1, <1>3, SelectionTyped
<1>5. n # -1
  BY LenProperties DEF IInv, TypeOK
<1>6. NavigationInv'
  BY <1>1, <1>2, <1>4, <1>5 DEF IInv, NavigationInv, NavigationInScene, ItemsOfScene, HistoryIsPath
<1> QED
  BY <1>4, <1>6, SelectionStep

\* The actions only lead to entries that exist.
LEMMA NavigateStep == ASSUME IInv, Navigate PROVE IInv'
<1>1. UNCHANGED <<visible, controls, data, m_rootItem, m_buildingScene, scene, work, queue>>
  BY DEF Navigate
<1>2. /\ selection.actions = NavigationActions(selection.history, selection.selected)
      /\ selection.selected \in Int /\ Len(selection.history) \in Nat
      /\ selection.selected # -1 => selection.selected + 1 \in 1 .. Len(selection.history)
      /\ selection.selected = -1 => selection.history = <<>>
  BY SelectionNow DEF IInv, NavigationInv
<1>3. CASE "back" \in selection.actions /\ SelectItem(selection.selected - 1)
  BY <1>1, <1>2, <1>3, SelectItemStep DEF NavigationActions
<1>4. CASE "forward" \in selection.actions /\ SelectItem(selection.selected + 1)
  BY <1>1, <1>2, <1>4, SelectItemStep DEF NavigationActions
<1>5. CASE "reset" \in selection.actions /\ SelectItem(0)
  BY <1>1, <1>2, <1>5, SelectItemStep DEF NavigationActions
<1> QED
  BY <1>3, <1>4, <1>5 DEF Navigate

\* A job ends, and its graph is on the way.
LEMMA JobEndsStep == ASSUME IInv, NEW g \in jobs, JobEnds(g) PROVE IInv'
<1>1. /\ jobs' = jobs \ {g} /\ queue' = Append(queue, Item(g, "root"))
      /\ UNCHANGED <<visible, controls, data, widget, requests, last>>
  BY DEF JobEnds
<1>2. Known' = Known /\ Roots' = Roots /\ Item(g, "root") \in Roots /\ Item(g, "root").graph = g
  BY <1>1, ItemsTyped DEF Known, Roots, IInv, TypeOK, Item
<1>3. queue \in Seq(Roots)
  BY DEF IInv, TypeOK
<1>4. /\ queue' \in Seq(Roots) /\ Len(queue') = Len(queue) + 1 /\ Len(queue) \in Nat
      /\ queue'[Len(queue) + 1] = Item(g, "root")
      /\ \A i \in 1 .. Len(queue) : queue'[i] = queue[i]
  BY <1>1, <1>2, <1>3, AppendProperties, LenProperties
<1>5. DOMAIN queue = 1 .. Len(queue) /\ DOMAIN queue' = 1 .. Len(queue) + 1
  BY <1>3, <1>4, LenProperties
<1>6. TypeOK' /\ NavigationInv'
  BY <1>1, <1>2, <1>4 DEF TypeOK, IInv, widget, NavigationInv, NavigationInScene, ItemsOfScene,
     HistoryIsPath
<1>7. last \in jobs \/ (\E i \in DOMAIN queue : queue[i].graph = last) =>
        last \in jobs' \/ (\E i \in DOMAIN queue' : queue'[i].graph = last)
  <2>1. CASE last = g
    <3>1. queue'[Len(queue) + 1].graph = last /\ Len(queue) + 1 \in DOMAIN queue'
      BY <1>2, <1>4, <1>5, <2>1
    <3> QED
      BY <3>1
  <2>2. CASE last \in jobs \ {g}
    BY <1>1, <2>2
  <2>3. ASSUME NEW i \in DOMAIN queue, queue[i].graph = last
        PROVE  \E j \in DOMAIN queue' : queue'[j].graph = last
    BY <1>4, <1>5, <2>3
  <2> QED
    BY <2>1, <2>2, <2>3
<1>8. RequestInv'
  BY <1>1, <1>7 DEF RequestInv, IInv, Wanted, widget
<1> QED
  BY <1>6, <1>8 DEF IInv

\* A graph arrives.
LEMMA DeliverStep == ASSUME IInv, Deliver PROVE IInv'
<1>1. /\ queue # <<>> /\ queue' = Tail(queue) /\ SetData(Head(queue))
      /\ UNCHANGED <<visible, controls, data, work>>
  BY DEF Deliver
<1>2. queue \in Seq(Roots)
  BY DEF IInv, TypeOK
<1>3. Head(queue) \in Roots /\ queue' \in Seq(Roots)
  BY <1>1, <1>2, HeadTailProperties
<1> QED
  BY <1>1, <1>3, SetDataStep DEF work

\* A new window has no graph.
LEMMA InitIInv == Init => IInv
<1> SUFFICES ASSUME Init PROVE IInv
  OBVIOUS
<1>1. Known = {} /\ Roots = {} /\ requests = <<>> /\ queue = <<>> /\ DOMAIN queue = {}
  BY DEF Init, Known, Roots
<1>2. /\ selection.history = <<>> /\ selection.selected = -1 /\ selection.tooltip = Null
      /\ selection.actions = {} /\ selection \in Selections
  BY ItemsTyped, EmptySeq DEF Init, Selections
<1>3. NavigationInv
  BY <1>2 DEF Init, NavigationInv, NavigationInScene, ItemsOfScene, HistoryIsPath, NavigationActions
<1>4. TypeOK
  <2>1. controls \in Controls /\ data \in Datas
    BY DEF Init, Controls, Datas
  <2>2. requests \in Seq([data : Nat, bottomUp : BOOLEAN, settings : Settings]) /\ queue \in Seq(Roots)
    BY <1>1, EmptySeq
  <2>3. /\ last = 0 /\ jobs = {} /\ scene = {} /\ m_rootItem = Null
        /\ visible = FALSE /\ m_buildingScene = FALSE
    BY DEF Init
  <2> QED
    BY <1>2, <2>1, <2>2, <2>3 DEF TypeOK, Datas, Selections
<1>5. RequestInv
  BY DEF Init, RequestInv, Wanted
<1> QED
  BY <1>3, <1>4, <1>5 DEF IInv

-----------------------------------------------------------------------------
(* The theorems. *)

\* IInv holds in every reachable state of FlameGraph.
THEOREM Invariance == Spec => []IInv
<1>1. ASSUME IInv, [Next]_vars PROVE IInv'
  <2>1. CASE ClearData \/ SetBottomUpData \/ SetTopDownData
    BY <1>1, <2>1, ClearDataStep, SetBottomUpDataStep, SetTopDownDataStep
  <2>2. CASE ChangeSettings
    <3>1. PICK s \in Settings : ChangeControls([controls EXCEPT !.settings = s])
      BY <2>2 DEF ChangeSettings
    <3>2. [controls EXCEPT !.settings = s] \in Controls
      BY <1>1 DEF IInv, TypeOK, Controls
    <3> QED
      BY <1>1, <3>1, <3>2, ControlsStep
  <2>3. CASE ToggleBottomUp
    <3>1. [controls EXCEPT !.bottomUp = ~ @] \in Controls
      BY <1>1 DEF IInv, TypeOK, Controls
    <3> QED
      BY <1>1, <2>3, <3>1, ControlsStep DEF ToggleBottomUp
  <2>4. CASE ShowOrResize \/ Hide
    BY <1>1, <2>4, ShowOrResizeStep, HideStep
  <2>5. CASE ClickItem \/ Hover \/ Navigate
    BY <1>1, <2>5, ClickStep, HoverStep, NavigateStep
  <2>6. CASE (\E g \in jobs : JobEnds(g)) \/ Deliver
    BY <1>1, <2>6, JobEndsStep, DeliverStep
  <2>7. CASE UNCHANGED vars
    <3>1. Known' = Known /\ Roots' = Roots
      BY <2>7 DEF Known, Roots, vars, work
    <3> QED
      BY <1>1, <2>7, <3>1 DEF vars, work, widget, IInv, TypeOK, NavigationInv, NavigationInScene,
         ItemsOfScene, HistoryIsPath, RequestInv, Wanted
  <2> QED
    BY <1>1, <2>1, <2>2, <2>3, <2>4, <2>5, <2>6, <2>7 DEF Next
<1> QED
  BY InitIInv, <1>1, PTL DEF Spec

\* However graphs replace each other while the user navigates, the root, the tooltip
\* and the history are items the scene owns, and the history is a path from the root.
THEOREM NavigationSafe == Spec => []NavigationInScene
<1>1. IInv => NavigationInScene
  BY DEF IInv, NavigationInv
<1> QED
  BY Invariance, <1>1, PTL

\* When nothing is under way a visible tab shows the graph of the data and settings of
\* the window, unless an earlier graph came after it.
THEOREM LastRequestShown == Spec => []ShowsLastRequest
<1>1. ASSUME IInv PROVE ShowsLastRequest
  <2> SUFFICES ASSUME Settled, visible, Wanted.data # 0, m_rootItem = Null \/ m_rootItem.graph = last
               PROVE  m_rootItem # Null /\ requests[m_rootItem.graph] = Wanted
    BY DEF ShowsLastRequest
  <2>1. m_rootItem # Null
    <3>1. DOMAIN queue = {} /\ jobs = {} /\ data.arriving = {}
      BY DEF Settled
    <3> QED
      BY <1>1, <3>1 DEF IInv, RequestInv
  <2>2. m_rootItem \in Roots /\ m_rootItem.graph \in Known /\ Known \subseteq Nat \ {0}
    BY <1>1, <2>1, RootsTyped DEF IInv, TypeOK
  <2> QED
    BY <1>1, <2>1, <2>2 DEF IInv, RequestInv
<1> QED
  BY Invariance, <1>1, PTL
=============================================================================
