-------------------------- MODULE DashboardLayout --------------------------
(***************************************************************************)
(* The body of a CloudWatch dashboard in awsx-classic: getDashboardBody    *)
(* stacks the rows it is given in a column, and each widget adds itself to *)
(* the body at its offset.  A flow widget places its children from left to *)
(* right, wrapping at the grid's width, or from top to bottom.             *)
(*                                                                         *)
(* A widget is a number: its children have smaller ones.  Of a simple      *)
(* widget or a space only the size is kept.  The code computes positions   *)
(* and sizes when they are asked for, always with the same result: here    *)
(* each is computed once, children first.                                  *)
(***************************************************************************)
EXTENDS Integers, Sequences, FiniteSets

CONSTANTS
  Requests,    \* the dashboards considered
  MaxWidth,    \* 24 grid columns
  MaxHeight,   \* 1000, of a simple widget
  MaxWidgets   \* 100

ASSUME GridAssumption == MaxWidth \in Nat /\ MaxHeight \in Nat /\ MaxWidgets \in Nat

(* Constructors refuse simple widgets of another size.                     *)
Simple ==
  [kind : {"simple"}, width : 1..MaxWidth, height : 1..MaxHeight, children : {<<>>}]

(* A space takes any number, of which those below zero are left out.       *)
Space == [kind : {"space"}, width : Nat, height : Nat, children : {<<>>}]

IsLeaf(w) == w.kind \in {"simple", "space"}

FlowOver(ids) ==
  [kind : {"row", "column"}, width : {0}, height : {0}, children : Seq(ids)]

(* The code never comes to a widget that nothing holds: there is none.     *)
IsHeld(r, w) ==
  \/ \E i \in DOMAIN r.top : r.top[i] = w
  \/ \E v \in DOMAIN r.widgets :
       \E i \in DOMAIN r.widgets[v].children : r.widgets[v].children[i] = w

IsRequest(r) ==
  /\ r.widgets \in Seq(Simple \cup Space \cup FlowOver(Nat))
  /\ \A w \in DOMAIN r.widgets : r.widgets[w].children \in Seq(1..(w - 1))
  /\ r.top \in Seq(DOMAIN r.widgets)
  /\ \A w \in DOMAIN r.widgets : IsHeld(r, w)

ASSUME DashboardRequestAssumption == \A r \in Requests : IsRequest(r)

VARIABLES
  request,
  phase,     \* "called", "placing", "measuring", "emitting" or "failed"
  failure,   \* which check threw
  current,   \* the widget whose layout is computed
  next,      \* its next child
  relativeX, relativeY, height,
  position,  \* result: of each child placed so far
  measured,  \* the children whose extent is taken
  extent,    \* the size so far
  layout,    \* positions of the children, of each widget done
  size,      \* of each widget done
  pending,   \* the boxes that are to add themselves
  json       \* widgetJsons

vars == <<request, phase, failure, current, next, relativeX, relativeY, height,
          position, measured, extent, layout, size, pending, json>>

-----------------------------------------------------------------------------
Given == request.widgets

Flow(kind, children) ==
  [kind |-> kind, width |-> 0, height |-> 0, children |-> children]

IsRow(w) == w.kind = "row"
FirstIsRow == request.top # <<>> /\ IsRow(Given[request.top[1]])

(* The rows to show: those given, or one that holds all that is given.     *)
Tree ==
  IF FirstIsRow
  THEN Append(Given, Flow("column", request.top))
  ELSE Append(Append(Given, Flow("row", request.top)),
              Flow("column", <<Len(Given) + 1>>))

Root == Len(Tree)
Widget == Tree[current]
Child == Widget.children[next]

LargerOf(m, n) == IF m < n THEN n ELSE m

NoExtent == [width |-> 0, height |-> 0]

Init ==
  /\ request \in Requests
  /\ phase = "called"
  /\ failure = "none"
  /\ current = 1
  /\ next = 1
  /\ relativeX = 0 /\ relativeY = 0 /\ height = 0
  /\ position = <<>>
  /\ measured = {}
  /\ extent = NoExtent
  /\ layout = <<>>
  /\ size = <<>>
  /\ pending = {}
  /\ json = {}

flow == <<next, relativeX, relativeY, height, position, measured, extent>>

Fail(check) ==
  /\ phase' = "failed"
  /\ failure' = check
  /\ UNCHANGED <<request, current, flow, layout, size, pending, json>>

(* getDashboardBody.                                                       *)
Compose ==
  /\ phase = "called"
  /\ IF Len(request.top) > MaxWidgets THEN Fail("count")
     ELSE IF \E i \in DOMAIN request.top : IsRow(Given[request.top[i]]) # FirstIsRow
     THEN Fail("mixed")
     ELSE /\ phase' = "placing"
          /\ UNCHANGED <<request, failure, current, flow, layout, size,
                         pending, json>>

-----------------------------------------------------------------------------
(* getWidgetRelativePositions: a Map, in which a widget given twice has    *)
(* its last position.                                                      *)
Placed(x, y) ==
  [w \in DOMAIN position \cup {Child} |->
     IF w = Child THEN [x |-> x, y |-> y] ELSE position[w]]

PlaceInColumn ==
  /\ phase = "placing"
  /\ current <= Root /\ Widget.kind = "column"
  /\ next <= Len(Widget.children)
  /\ position' = Placed(0, relativeY)
  /\ relativeY' = relativeY + size[Child].height
  /\ next' = next + 1
  /\ UNCHANGED <<request, phase, failure, current, relativeX, height, measured,
                 extent, layout, size, pending, json>>

(* A child that would go past the last column starts a line of its own,    *)
(* below all that is placed.                                               *)
WrapsOnlyFull == relativeX >= MaxWidth
Wraps == relativeX + size[Child].width > MaxWidth

BelowLine == relativeY + size[Widget.children[next - 1]].height
LineBelow == height

PlaceInRow ==
  /\ phase = "placing"
  /\ current <= Root /\ IsRow(Widget)
  /\ next <= Len(Widget.children)
  /\ IF size[Child].width > MaxWidth THEN Fail("width")
     ELSE LET x == IF Wraps THEN 0 ELSE relativeX
              y == IF Wraps THEN LineBelow ELSE relativeY
          IN /\ position' = Placed(x, y)
             /\ relativeX' = x + size[Child].width
             /\ relativeY' = y
             /\ height' = LargerOf(height, y + size[Child].height)
             /\ next' = next + 1
             /\ UNCHANGED <<request, phase, failure, current, measured, extent,
                            layout, size, pending, json>>

(* width() and height() of a flow: as far as its children reach.           *)
Reach(c) ==
  [width |-> LargerOf(extent.width, position[c].x + size[c].width),
   height |-> LargerOf(extent.height, position[c].y + size[c].height)]

Measure ==
  /\ phase = "measuring"
  /\ \E c \in DOMAIN position \ measured :
       /\ extent' = Reach(c)
       /\ measured' = measured \cup {c}
  /\ UNCHANGED <<request, phase, failure, current, next, relativeX, relativeY,
                 height, position, layout, size, pending, json>>

StartMeasuring ==
  /\ phase = "placing"
  /\ current <= Root /\ ~IsLeaf(Widget)
  /\ next > Len(Widget.children)
  /\ phase' = "measuring"
  /\ UNCHANGED <<request, failure, current, flow, layout, size, pending, json>>

(* The next widget is laid out.                                            *)
Finish(positions, sizeOf) ==
  /\ phase' = "placing"
  /\ layout' = [w \in 1..current |-> IF w = current THEN positions ELSE layout[w]]
  /\ size' = Append(size, sizeOf)
  /\ current' = current + 1
  /\ next' = 1
  /\ relativeX' = 0 /\ relativeY' = 0 /\ height' = 0
  /\ position' = <<>>
  /\ measured' = {}
  /\ extent' = NoExtent
  /\ UNCHANGED <<request, failure, pending, json>>

FinishFlow ==
  /\ phase = "measuring"
  /\ measured = DOMAIN position
  /\ Finish(position, extent)

MeasureLeaf ==
  /\ phase = "placing"
  /\ current <= Root /\ IsLeaf(Widget)
  /\ Finish(<<>>, [width |-> Widget.width, height |-> Widget.height])

-----------------------------------------------------------------------------
(* addWidgetJson, from the column down.  The order in which the boxes are  *)
(* added does not matter to where they are.                                *)
Emit ==
  /\ phase = "placing"
  /\ current > Root
  /\ phase' = "emitting"
  /\ pending' = {[widget |-> Root, x |-> 0, y |-> 0]}
  /\ UNCHANGED <<request, failure, current, flow, layout, size, json>>

AddSimple(b) ==
  /\ Tree[b.widget].kind = "simple"
  /\ json' = json \cup {b}
  /\ pending' = pending \ {b}
  /\ UNCHANGED <<request, phase, failure, current, flow, layout, size>>

(* A space adds nothing.                                                   *)
AddSpace(b) ==
  /\ Tree[b.widget].kind = "space"
  /\ pending' = pending \ {b}
  /\ UNCHANGED <<request, phase, failure, current, flow, layout, size, json>>

ChildBox(b, c) ==
  [widget |-> c, x |-> b.x + layout[b.widget][c].x, y |-> b.y + layout[b.widget][c].y]

OnlyChildren(b) == {ChildBox(b, c) : c \in DOMAIN layout[b.widget]}
Expanded(b) ==
  (pending \ {b}) \cup {ChildBox(b, c) : c \in DOMAIN layout[b.widget]}

AddFlow(b) ==
  /\ ~IsLeaf(Tree[b.widget])
  /\ IF IsRow(Tree[b.widget]) /\ b.x # 0 THEN Fail("leftmost")
     ELSE /\ pending' = Expanded(b)
          /\ UNCHANGED <<request, phase, failure, current, flow, layout, size, json>>

AddWidgetJson ==
  /\ phase = "emitting"
  /\ \E b \in pending : AddSimple(b) \/ AddSpace(b) \/ AddFlow(b)

Next ==
  \/ Compose
  \/ PlaceInColumn
  \/ PlaceInRow
  \/ StartMeasuring
  \/ Measure
  \/ FinishFlow
  \/ MeasureLeaf
  \/ Emit
  \/ AddWidgetJson

Spec == Init /\ [][Next]_vars

-----------------------------------------------------------------------------
Point == [x : Nat, y : Nat]
Extent == [width : Nat, height : Nat]
Box == [widget : DOMAIN Tree, x : Nat, y : Nat]

(* Positions and sizes are those of widgets of the tree, counted from the  *)
(* upper left corner; widgets before the current one are done              *)
(* (widgets_flow.ts, WidgetRelativePosition).                              *)
TypeOK ==
  /\ request \in Requests
  /\ phase \in {"called", "placing", "measuring", "emitting", "failed"}
  /\ failure \in {"none", "count", "mixed", "width", "leftmost"}
  /\ current \in 1..(Root + 1)
  /\ phase = "measuring" => current <= Root
  /\ phase = "emitting" => current = Root + 1
  /\ next \in 1..(IF current <= Root THEN Len(Widget.children) + 1 ELSE 1)
  /\ relativeX \in Nat /\ relativeY \in Nat /\ height \in Nat
  /\ DOMAIN position \subseteq 1..(current - 1)
  /\ \A c \in DOMAIN position : position[c] \in Point
  /\ measured \subseteq DOMAIN position
  /\ extent \in Extent
  /\ size \in Seq(Extent) /\ Len(size) = current - 1
  /\ DOMAIN layout = 1..(current - 1)
  /\ \A w \in DOMAIN layout :
       /\ DOMAIN layout[w] \subseteq 1..(w - 1)
       /\ \A c \in DOMAIN layout[w] : layout[w][c] \in Point
  /\ pending \subseteq Box
  /\ json \subseteq Box

(* Two rectangles with corners p and q and the sizes of widgets v and w.   *)
Apart(p, v, q, w) ==
  \/ p.x + size[v].width <= q.x
  \/ q.x + size[w].width <= p.x
  \/ p.y + size[v].height <= q.y
  \/ q.y + size[w].height <= p.y

(* No two widgets of the body overlap, however rows and columns are nested *)
(* (addWidgetJson), whatever was placed before a line wraps and whatever   *)
(* spaces are between them.                                                *)
NoOverlap ==
  \A a, b \in json : a # b => Apart(a, a.widget, b, b.widget)

(* Every widget of the body is within the columns of the grid, though a    *)
(* space, and a column around it, may be wider than the grid.              *)
WithinGrid == \A b \in json : b.x + size[b.widget].width <= MaxWidth

(* Children of a row read from left to right and down: after one that      *)
(* takes height, a later one is never above, nor to the left on the same   *)
(* line (getWidgetRelativePositions of RowWidget).  Spaces and empty flows *)
(* may take none: the line below them is at the same height.               *)
ReadsInOrder ==
  \A w \in DOMAIN layout : IsRow(Tree[w]) =>
    \A i, j \in DOMAIN Tree[w].children :
      LET c == Tree[w].children[i]
          d == Tree[w].children[j]
          p == layout[w][c]
          q == layout[w][d]
      IN /\ i < j /\ \A k \in DOMAIN Tree[w].children : Tree[w].children[k] = c => k <= i
         /\ size[c].height > 0
         =>
           p.y < q.y \/ (p.y = q.y /\ p.x + size[c].width <= q.x)

(* Once nothing is pending, every simple widget under the root has been    *)
(* added: a child's box is never lost to a sibling's (addWidgetJson).      *)
Children(w) == {Tree[w].children[i] : i \in DOMAIN Tree[w].children}

HoldsChildren(S) == \A v \in S : Children(v) \subseteq S

(* The widget itself, its children, theirs, and so on.                     *)
Under(v) ==
  {w \in DOMAIN Tree :
     \A S \in SUBSET DOMAIN Tree : v \in S /\ HoldsChildren(S) => w \in S}

Finished == phase = "emitting" /\ pending = {}

EveryWidgetIsShown ==
  Finished =>
    \A w \in Under(Root) : Tree[w].kind = "simple" => \E b \in json : b.widget = w

(* Every simple widget is shown, and rows keep the order they were given.  *)
ShownInOrder == ReadsInOrder /\ EveryWidgetIsShown
=============================================================================
