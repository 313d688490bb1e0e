-------------------------- MODULE CloudWatchProofs --------------------------
(***************************************************************************)
(* What CloudWatch is given by awsx-classic: dashboards and scaling alarms.*)
(*                                                                         *)
(* No two widgets of a dashboard overlap, none leaves the grid, and every  *)
(* one is shown in the order given, for every tree of widgets and spaces   *)
(* and every size of the grid.                                             *)
(*                                                                         *)
(* The argument has three parts, one for each stage of the layout.  While  *)
(* a flow is laid out, whatever is placed is above the current line or to  *)
(* the left of the cursor, which moves on or down only.  Of a widget that  *)
(* is done, the children are apart, within its size and in order.  While   *)
(* boxes are added, a flow's box is replaced by boxes within it, one for   *)
(* each child: they are apart from all the others, and none is lost.       *)
(* A space may be of any width, and so may a column around it: within the  *)
(* grid are the rows, and the column of rows that getDashboardBody makes.  *)
(*                                                                         *)
(* The alarms and policies of step scaling answer every value of the       *)
(* metric with the step it triggers, for any lists of steps: at the end.   *)
(***************************************************************************)
EXTENDS DashboardLayout, StepScaling, FiniteSetTheorems, FunctionTheorems, TLAPS

(* What the layout relies on in the tree.                                  *)
WellFormed(w) ==
  /\ Tree[w].children \in Seq(1..(w - 1))
  /\ Tree[w].kind \in {"simple", "space", "row", "column"}
  /\ IsLeaf(Tree[w]) =>
       /\ Tree[w].width \in Nat
       /\ Tree[w].height \in Nat
       /\ Tree[w].children = <<>>

TreeOK ==
  /\ Root \in Nat \ {0}
  /\ DOMAIN Tree = 1..Root
  /\ \A w \in 1..Root : WellFormed(w)

(* The flows that stay within the grid.                                    *)
Narrow(w) ==
  \/ IsRow(Tree[w])
  \/ Tree[w].kind = "column" /\ \A c \in Children(w) : IsRow(Tree[c])

RootIsNarrow == phase \in {"placing", "measuring", "emitting"} => Narrow(Root)

(* Stage 1: the flow in progress.                                          *)
RightOf(p, c) == p.x + size[c].width
BottomOf(p, c) == p.y + size[c].height

PositionsApart ==
  \A c, d \in DOMAIN position :
    c # d => Apart(position[c], c, position[d], d)

BehindCursor ==
  \A c \in DOMAIN position :
    /\ current <= Root /\ Narrow(current) => RightOf(position[c], c) <= MaxWidth
    /\ \/ BottomOf(position[c], c) <= relativeY
       \/ RightOf(position[c], c) <= relativeX

AboveNextLine ==
  current <= Root =>
    /\ IsRow(Widget) =>
         \A c \in DOMAIN position : BottomOf(position[c], c) <= height
    /\ Widget.kind = "column" =>
         /\ relativeX = 0
         /\ \A c \in DOMAIN position : BottomOf(position[c], c) <= relativeY

ExtentCovers ==
  /\ phase \in {"called", "placing"} => measured = {}
  /\ current <= Root /\ Narrow(current) => extent.width <= MaxWidth
  /\ \A c \in measured :
       /\ RightOf(position[c], c) <= extent.width
       /\ BottomOf(position[c], c) <= extent.height

(* Stage 2: the widgets that are done.                                     *)
WidthsFit == \A w \in 1..(current - 1) : Narrow(w) => size[w].width <= MaxWidth

ChildrenWithin ==
  \A w \in 1..(current - 1) : \A c \in DOMAIN layout[w] :
    /\ RightOf(layout[w][c], c) <= size[w].width
    /\ BottomOf(layout[w][c], c) <= size[w].height

ChildrenApart ==
  \A w \in 1..(current - 1) : \A c, d \in DOMAIN layout[w] :
    c # d => Apart(layout[w][c], c, layout[w][d], d)

(* Stage 3: the boxes.                                                     *)
BoxesApart ==
  \A a, b \in pending \cup json : a # b => Apart(a, a.widget, b, b.widget)

BoxesFit ==
  \A b \in pending \cup json : RightOf(b, b.widget) <= MaxWidth

NoBoxesYet == phase \in {"called", "placing", "measuring"} => pending = {} /\ json = {}

JsonIsSimple == \A b \in json : Tree[b.widget].kind = "simple"

FlowInv == PositionsApart /\ BehindCursor /\ AboveNextLine /\ ExtentCovers
DoneInv == WidthsFit /\ ChildrenWithin /\ ChildrenApart
BoxInv == BoxesApart /\ BoxesFit /\ NoBoxesYet /\ JsonIsSimple

Inv == TypeOK /\ RootIsNarrow /\ FlowInv /\ DoneInv /\ BoxInv

-----------------------------------------------------------------------------
(* The tree is well formed: the request is, and the rows and the column    *)
(* that getDashboardBody adds come after what they hold.                   *)
LEMMA TreeIsWellFormed == ASSUME request \in Requests PROVE TreeOK
<1>1. IsRequest(request)
  BY DashboardRequestAssumption
<1> DEFINE n == Len(Given)
<1>2. /\ Given \in Seq(Simple \cup Space \cup FlowOver(Nat))
      /\ n \in Nat
      /\ DOMAIN Given = 1..n
      /\ request.top \in Seq(1..n)
      /\ \A w \in 1..n : Given[w].children \in Seq(1..(w - 1))
  BY <1>1 DEF IsRequest, Given
<1>3. \A w \in 1..n :
        /\ Given[w].kind \in {"simple", "space", "row", "column"}
        /\ IsLeaf(Given[w]) =>
             /\ Given[w].width \in Nat
             /\ Given[w].height \in Nat
             /\ Given[w].children = <<>>
  <2> SUFFICES ASSUME NEW w \in 1..n
               PROVE  /\ Given[w].kind \in {"simple", "space", "row", "column"}
                      /\ IsLeaf(Given[w]) =>
                           /\ Given[w].width \in Nat
                           /\ Given[w].height \in Nat
                           /\ Given[w].children = <<>>
    OBVIOUS
  <2>1. Given[w] \in Simple \cup Space \cup FlowOver(Nat)
    BY <1>2
  <2> QED BY <2>1, GridAssumption DEF Simple, Space, FlowOver, IsLeaf
<1>4. CASE FirstIsRow
  <2>1. Tree = Append(Given, Flow("column", request.top))
    BY <1>4 DEF Tree
  <2>2. /\ Len(Tree) = n + 1
        /\ \A w \in 1..n : Tree[w] = Given[w]
        /\ Tree[n + 1] = Flow("column", request.top)
        /\ DOMAIN Tree = 1..(n + 1)
    BY <2>1, <1>2
  <2>3. (n + 1) - 1 = n
    BY <1>2
  <2>4. ASSUME NEW w \in 1..(n + 1)
        PROVE  WellFormed(w)
    <3>1. CASE w \in 1..n
      BY <3>1, <2>2, <1>2, <1>3 DEF WellFormed
    <3>2. CASE w = n + 1
      <4>1. Tree[w].children = request.top /\ Tree[w].kind = "column"
        BY <3>2, <2>2 DEF Flow
      <4> QED
        BY <4>1, <3>2, <2>3, <1>2 DEF WellFormed, IsLeaf
    <3> QED
      BY <3>1, <3>2, <1>2
  <2> QED
    BY <2>2, <2>4, <1>2 DEF TreeOK, Root
<1>5. CASE ~FirstIsRow
  <2> DEFINE withRow == Append(Given, Flow("row", request.top))
             column == Flow("column", <<n + 1>>)
  <2>1. Tree = Append(withRow, column)
    BY <1>5 DEF Tree
  <2>2. /\ withRow \in Seq(Simple \cup Space \cup FlowOver(Nat) \cup {Flow("row", request.top)})
        /\ Len(withRow) = n + 1
        /\ \A w \in 1..n : withRow[w] = Given[w]
        /\ withRow[n + 1] = Flow("row", request.top)
    BY <1>2
  <2>3. /\ Len(Tree) = n + 2
        /\ DOMAIN Tree = 1..(n + 2)
        /\ \A w \in 1..n : Tree[w] = Given[w]
        /\ Tree[n + 1] = Flow("row", request.top)
        /\ Tree[n + 2] = column
    BY <2>1, <2>2, <1>2
  <2>4. (n + 1) - 1 = n /\ (n + 2) - 1 = n + 1
    BY <1>2
  <2>5. ASSUME NEW w \in 1..(n + 2)
        PROVE  WellFormed(w)
    <3>1. CASE w \in 1..n
      BY <3>1, <2>3, <1>2, <1>3 DEF WellFormed
    <3>2. CASE w = n + 1
      <4>1. Tree[w].children = request.top /\ Tree[w].kind = "row"
        BY <3>2, <2>3 DEF Flow
      <4> QED
        BY <4>1, <3>2, <2>4, <1>2 DEF WellFormed, IsLeaf
    <3>3. CASE w = n + 2
      <4>1. Tree[w].children = <<n + 1>> /\ Tree[w].kind = "column"
        BY <3>3, <2>3 DEF Flow
      <4>2. <<n + 1>> \in Seq(1..(n + 1))
        BY <1>2
      <4> QED
        BY <4>1, <4>2, <3>3, <2>4, <1>2 DEF WellFormed, IsLeaf
    <3> QED
      BY <3>1, <3>2, <3>3, <1>2
  <2> QED
    BY <2>3, <2>5, <1>2 DEF TreeOK, Root
<1> QED
  BY <1>4, <1>5

(* getDashboardBody refuses rows among other widgets: its column is one of *)
(* rows.                                                                   *)
LEMMA ComposedIsNarrow ==
  ASSUME request \in Requests,
         \A i \in DOMAIN request.top : IsRow(Given[request.top[i]]) <=> FirstIsRow
  PROVE  Narrow(Root)
<1> DEFINE n == Len(Given)
<1>1. /\ Given \in Seq(Simple \cup Space \cup FlowOver(Nat))
      /\ n \in Nat /\ DOMAIN Given = 1..n /\ request.top \in Seq(1..n)
  BY DashboardRequestAssumption DEF IsRequest, Given
<1>2. CASE FirstIsRow
  <2>1. Tree = Append(Given, Flow("column", request.top))
    BY <1>2 DEF Tree
  <2>2. /\ Root = n + 1 /\ Tree[Root] = Flow("column", request.top)
        /\ \A w \in 1..n : Tree[w] = Given[w]
    BY <1>1, <2>1 DEF Root
  <2>3. Children(Root) = {request.top[i] : i \in DOMAIN request.top}
    BY <2>2 DEF Children, Flow
  <2>4. \A i \in DOMAIN request.top : request.top[i] \in 1..n
    BY <1>1
  <2>5. \A c \in Children(Root) : IsRow(Tree[c])
    BY <1>2, <2>2, <2>3, <2>4
  <2> QED BY <2>2, <2>5 DEF Narrow, Flow
<1>3. CASE ~FirstIsRow
  <2> DEFINE row == Flow("row", request.top)
             column == Flow("column", <<n + 1>>)
  <2>1. Tree = Append(Append(Given, row), column)
    BY <1>3 DEF Tree
  <2> HIDE DEF row, column
  <2>2. Root = n + 2 /\ Tree[Root] = column /\ Tree[n + 1] = row
    <3>1. /\ Append(Given, row) \in Seq(Simple \cup Space \cup FlowOver(Nat) \cup {row})
          /\ Len(Append(Given, row)) = n + 1 /\ Append(Given, row)[n + 1] = row
      BY <1>1
    <3> QED BY <1>1, <2>1, <3>1 DEF Root
  <2>3. Children(Root) = {n + 1}
    BY <2>2 DEF Children, Flow, column
  <2>4. \A c \in Children(Root) : IsRow(Tree[c])
    BY <2>2, <2>3 DEF IsRow, Flow, row
  <2> QED BY <2>2, <2>4 DEF Narrow, Flow, column
<1> QED BY <1>2, <1>3

-----------------------------------------------------------------------------
(* What a step of any kind may rely on.                                    *)
LEMMA TypeFacts ==
  ASSUME TypeOK
  PROVE  /\ TreeOK
         /\ current \in Nat \ {0}
         /\ Root + 1 \in Nat
         /\ \A w \in 1..(current - 1) : size[w] \in Extent
         /\ current <= Root => WellFormed(current)
<1>1. TreeOK
  BY TreeIsWellFormed DEF TypeOK
<1>2. current \in 1..(Root + 1) /\ Root \in Nat \ {0}
  BY <1>1 DEF TypeOK, TreeOK
<1>3. size \in Seq(Extent) /\ Len(size) = current - 1
  BY DEF TypeOK
<1> QED
  BY <1>1, <1>2, <1>3 DEF TreeOK

(* The child that a flow is about to place is done already.                *)
LEMMA ChildIsDone ==
  ASSUME TypeOK, current <= Root, next <= Len(Widget.children)
  PROVE  /\ Child \in 1..(current - 1) /\ size[Child] \in Extent
         /\ Child \in Children(current)
<1>1. WellFormed(current)
  BY TypeFacts
<1>2. Widget.children \in Seq(1..(current - 1))
  BY <1>1 DEF WellFormed, Widget
<1>3. next \in Nat \ {0}
  BY <1>2 DEF TypeOK
<1>4. next \in 1..Len(Widget.children)
  BY <1>2, <1>3
<1>5. \A ids, S : ids \in Seq(S) => \A i \in 1..Len(ids) : ids[i] \in S
  OBVIOUS
<1>6. Child \in 1..(current - 1)
  BY <1>2, <1>4, <1>5 DEF Child
<1>7. Child \in Children(current)
  BY <1>2, <1>4 DEF Child, Children, Widget
<1> QED
  BY <1>6, <1>7, TypeFacts

(* The tree is that of the request.                                        *)
LEMMA TreeIsKept ==
  ASSUME request' = request
  PROVE  /\ Tree' = Tree /\ Root' = Root
         /\ \A w : Children(w)' = Children(w) /\ Narrow(w)' = Narrow(w)
<1>1. Tree' = Tree /\ Root' = Root
  BY DEF Tree, FirstIsRow, Given, Root
<1>2. \A w : Children(w)' = Children(w)
  BY <1>1 DEF Children
<1> QED
  BY <1>1, <1>2 DEF Narrow, IsRow

LEMMA LargerOfIsLarger ==
  ASSUME NEW m \in Nat, NEW n \in Nat
  PROVE  LargerOf(m, n) \in Nat /\ m <= LargerOf(m, n) /\ n <= LargerOf(m, n)
BY DEF LargerOf

-----------------------------------------------------------------------------
(* Types.                                                                  *)
LEMMA TypeInit == Init => TypeOK
<1> SUFFICES ASSUME Init PROVE TypeOK
  OBVIOUS
<1>1. TreeOK
  BY TreeIsWellFormed DEF Init
<1>2. 1 <= Root => Widget.children \in Seq(1..0)
  BY <1>1 DEF TreeOK, WellFormed, Widget, Init
<1>3. 1 \in 1..(IF current <= Root THEN Len(Widget.children) + 1 ELSE 1)
  <2>1. 1 <= Root
    BY <1>1 DEF TreeOK
  <2>2. Len(Widget.children) \in Nat
    BY <1>2, <2>1
  <2> QED
    BY <2>2
<1>4. 1 \in 1..(Root + 1)
  BY <1>1 DEF TreeOK
<1>5. size \in Seq(Extent) /\ Len(size) = 0 /\ DOMAIN layout = {} /\ DOMAIN position = {}
  BY DEF Init
<1> QED
  BY <1>3, <1>4, <1>5 DEF Init, TypeOK, NoExtent, Extent

LEMMA FailKeepsTypes ==
  ASSUME TypeOK, NEW check \in {"count", "mixed", "width", "leftmost"}, Fail(check)
  PROVE  TypeOK'
<1>1. /\ request' = request /\ current' = current /\ next' = next
      /\ relativeX' = relativeX /\ relativeY' = relativeY /\ height' = height
      /\ position' = position /\ measured' = measured /\ extent' = extent
      /\ layout' = layout /\ size' = size /\ pending' = pending /\ json' = json
      /\ phase' = "failed" /\ failure' = check
  BY DEF Fail, flow
<1>2. Tree' = Tree /\ Root' = Root /\ Widget' = Widget
  BY <1>1 DEF Tree, FirstIsRow, Given, Root, Widget
<1> QED
  BY <1>1, <1>2 DEF TypeOK, Box

LEMMA PlacedTypes ==
  ASSUME TypeOK, current <= Root, next <= Len(Widget.children),
         NEW x \in Nat, NEW y \in Nat, position' = Placed(x, y)
  PROVE  /\ DOMAIN position' = DOMAIN position \cup {Child}
         /\ DOMAIN position' \subseteq 1..(current - 1)
         /\ position'[Child] = [x |-> x, y |-> y]
         /\ \A c \in DOMAIN position : c # Child => position'[c] = position[c]
         /\ \A c \in DOMAIN position' : position'[c] \in Point
<1>1. Child \in 1..(current - 1)
  BY ChildIsDone
<1> QED
  BY <1>1 DEF TypeOK, Placed, Point

LEMMA NextStaysInBounds ==
  ASSUME TypeOK, current <= Root, next <= Len(Widget.children), next' = next + 1
  PROVE  next' \in 1..(IF current <= Root THEN Len(Widget.children) + 1 ELSE 1)
<1>1. WellFormed(current)
  BY TypeFacts
<1>2. Widget.children \in Seq(1..(current - 1))
  BY <1>1 DEF WellFormed, Widget
<1>3. Len(Widget.children) \in Nat
  BY <1>2
<1>4. next \in 1..(Len(Widget.children) + 1)
  BY DEF TypeOK
<1> QED
  BY <1>3, <1>4

LEMMA TypeStep == TypeOK /\ [Next]_vars => TypeOK'
<1> SUFFICES ASSUME TypeOK, [Next]_vars PROVE TypeOK'
  OBVIOUS
<1> USE DEF Point, Extent
<1>0. TreeOK /\ current \in Nat \ {0} /\ Root + 1 \in Nat
  BY TypeFacts
<1>1. CASE Compose
  <2>1. CASE Fail("count") \/ Fail("mixed")
    BY <2>1, FailKeepsTypes
  <2>2. CASE phase' = "placing" /\ UNCHANGED <<request, failure, current, flow,
                                               layout, size, pending, json>>
    <3>1. Tree' = Tree /\ Root' = Root /\ Widget' = Widget
      BY <2>2 DEF Tree, FirstIsRow, Given, Root, Widget
    <3> QED
      BY <2>2, <3>1 DEF TypeOK, flow, Box
  <2> QED
    BY <1>1, <2>1, <2>2 DEF Compose
<1>2. CASE PlaceInColumn
  <2>1. Tree' = Tree /\ Root' = Root /\ Widget' = Widget
    BY <1>2 DEF PlaceInColumn, Tree, FirstIsRow, Given, Root, Widget
  <2>2. size[Child] \in Extent /\ relativeY \in Nat
    BY <1>2, ChildIsDone DEF PlaceInColumn, TypeOK
  <2>3. /\ DOMAIN position' = DOMAIN position \cup {Child}
        /\ DOMAIN position' \subseteq 1..(current - 1)
        /\ \A c \in DOMAIN position' : position'[c] \in Point
    BY <1>2, <2>2, PlacedTypes DEF PlaceInColumn
  <2>4. next' \in 1..(IF current <= Root THEN Len(Widget.children) + 1 ELSE 1)
    BY <1>2, NextStaysInBounds DEF PlaceInColumn
  <2>5. relativeY' \in Nat
    BY <1>2, <2>2 DEF PlaceInColumn
  <2> QED
    BY <1>2, <2>1, <2>3, <2>4, <2>5 DEF PlaceInColumn, TypeOK, Box
<1>3. CASE PlaceInRow
  <2>1. CASE Fail("width")
    BY <2>1, FailKeepsTypes
  <2>2. CASE ~Fail("width")
    <3> DEFINE x == IF Wraps THEN 0 ELSE relativeX
               y == IF Wraps THEN LineBelow ELSE relativeY
    <3>1. Tree' = Tree /\ Root' = Root /\ Widget' = Widget
      BY <1>3, <2>2 DEF PlaceInRow, Tree, FirstIsRow, Given, Root, Widget
    <3>2. size[Child] \in Extent /\ x \in Nat /\ y \in Nat
      BY <1>3, ChildIsDone DEF PlaceInRow, TypeOK, LineBelow
    <3>3. /\ DOMAIN position' = DOMAIN position \cup {Child}
          /\ DOMAIN position' \subseteq 1..(current - 1)
          /\ \A c \in DOMAIN position' : position'[c] \in Point
      BY <1>3, <2>2, <3>2, PlacedTypes DEF PlaceInRow
    <3>4. next' \in 1..(IF current <= Root THEN Len(Widget.children) + 1 ELSE 1)
      BY <1>3, <2>2, NextStaysInBounds DEF PlaceInRow
    <3>5. height' \in Nat
      <4> HIDE DEF y
      <4>1. size[Child].height \in Nat
        BY <3>2
      <4>2. y + size[Child].height \in Nat
        BY <3>2, <4>1
      <4>3. height \in Nat
        BY DEF TypeOK
      <4> USE DEF y
      <4> QED
        BY <1>3, <2>2, <4>2, <4>3, LargerOfIsLarger DEF PlaceInRow
    <3>6. relativeX' \in Nat /\ relativeY' \in Nat
      BY <1>3, <2>2, <3>2 DEF PlaceInRow
    <3> QED
      BY <1>3, <2>2, <3>1, <3>3, <3>4, <3>5, <3>6 DEF PlaceInRow, TypeOK, Box
  <2> QED
    BY <2>1, <2>2
<1>4. CASE StartMeasuring
  <2>1. Tree' = Tree /\ Root' = Root /\ Widget' = Widget
    BY <1>4 DEF StartMeasuring, Tree, FirstIsRow, Given, Root, Widget
  <2> QED
    BY <1>4, <2>1 DEF StartMeasuring, TypeOK, flow, Box
<1>5. CASE Measure
  <2>1. Tree' = Tree /\ Root' = Root /\ Widget' = Widget
    BY <1>5 DEF Measure, Tree, FirstIsRow, Given, Root, Widget
  <2>2. PICK c \in DOMAIN position \ measured :
          extent' = Reach(c) /\ measured' = measured \cup {c}
    BY <1>5 DEF Measure
  <2>3. position[c] \in Point /\ size[c] \in Extent /\ extent \in Extent
    BY TypeFacts DEF TypeOK
  <2>4. extent' \in Extent
    <3> DEFINE right == position[c].x + size[c].width
               bottom == position[c].y + size[c].height
    <3>1. /\ extent.width \in Nat /\ extent.height \in Nat
          /\ right \in Nat /\ bottom \in Nat
      BY <2>3
    <3>2. LargerOf(extent.width, right) \in Nat /\ LargerOf(extent.height, bottom) \in Nat
      BY <3>1, LargerOfIsLarger
    <3> QED
      BY <3>2, <2>2 DEF Reach
  <2> QED
    BY <1>5, <2>1, <2>2, <2>4 DEF Measure, TypeOK, Box
<1>6. ASSUME NEW positions, NEW sizeOf \in Extent, Finish(positions, sizeOf),
             current <= Root, DOMAIN positions \subseteq 1..(current - 1),
             \A c \in DOMAIN positions : positions[c] \in Point,
             phase \in {"placing", "measuring"}
      PROVE  TypeOK'
  <2>1. Tree' = Tree /\ Root' = Root
    BY <1>6 DEF Finish, Tree, FirstIsRow, Given, Root
  <2>2. size' \in Seq(Extent) /\ Len(size') = current' - 1
    BY <1>6, <1>0 DEF Finish, TypeOK
  <2>4. /\ DOMAIN layout' = 1..current
        /\ layout'[current] = positions
        /\ \A w \in 1..(current - 1) : layout'[w] = layout[w]
    BY <1>6, <1>0 DEF Finish
  <2>5. current' \in 1..(Root + 1) /\ (phase' = "measuring" => current' <= Root)
    <3>1. current' = current + 1 /\ phase' = "placing" /\ Root \in Nat
      BY <1>6, <1>0 DEF Finish, TreeOK
    <3> QED
      BY <3>1, <1>6, <1>0
  <2>6. next' \in 1..(IF current' <= Root' THEN Len(Widget'.children) + 1 ELSE 1)
    <3>1. current' <= Root => Widget'.children \in Seq(1..(current' - 1))
      BY <2>1, <2>5, <1>0 DEF TreeOK, WellFormed, Widget
    <3> QED
      BY <3>1, <1>6, <2>1, <2>5 DEF Finish
  <2> QED
    BY <1>6, <1>0, <2>1, <2>2, <2>4, <2>5, <2>6 DEF Finish, TypeOK, NoExtent, Box
<1>7. CASE FinishFlow
  BY <1>6, <1>7 DEF FinishFlow, TypeOK
<1>8. CASE MeasureLeaf
  <2>1. [width |-> Widget.width, height |-> Widget.height] \in Extent
    BY <1>8, TypeFacts DEF MeasureLeaf, WellFormed, Widget
  <2>2. DOMAIN <<>> = {}
    OBVIOUS
  <2> QED
    BY <1>6, <1>8, <2>1, <2>2 DEF MeasureLeaf
<1>9. CASE Emit
  <2>1. Tree' = Tree /\ Root' = Root /\ Widget' = Widget
    BY <1>9 DEF Emit, Tree, FirstIsRow, Given, Root, Widget
  <2>2. [widget |-> Root, x |-> 0, y |-> 0] \in Box
    BY <1>0 DEF Box, TreeOK
  <2>3. current = Root + 1
    BY <1>0, <1>9 DEF Emit, TypeOK, TreeOK
  <2> QED
    BY <1>9, <2>1, <2>2, <2>3 DEF Emit, TypeOK, flow, Box
<1>10. CASE AddWidgetJson
  <2>1. PICK b \in pending : AddSimple(b) \/ AddSpace(b) \/ AddFlow(b)
    BY <1>10 DEF AddWidgetJson
  <2>2. CASE Fail("leftmost")
    BY <2>2, FailKeepsTypes
  <2>3. CASE ~Fail("leftmost")
    <3>1. UNCHANGED <<request, phase, failure, current, flow, layout, size>>
      BY <2>1, <2>3 DEF AddSimple, AddSpace, AddFlow
    <3>2. Tree' = Tree /\ Root' = Root /\ Widget' = Widget
      BY <3>1 DEF Tree, FirstIsRow, Given, Root, Widget
    <3>3. b \in Box
      BY DEF TypeOK
    <3>4. pending' \subseteq Box /\ json' \subseteq Box
      <4>1. CASE AddSimple(b)
        BY <4>1, <3>3 DEF AddSimple, TypeOK
      <4>2. CASE AddSpace(b)
        BY <4>2 DEF AddSpace, TypeOK
      <4>3. CASE AddFlow(b)
        <5>1. b.widget \in DOMAIN layout /\ DOMAIN layout = DOMAIN Tree
          BY <1>10, <1>0, <3>3 DEF AddWidgetJson, TypeOK, TreeOK, Box
        <5>2. ASSUME NEW c \in DOMAIN layout[b.widget]
              PROVE  ChildBox(b, c) \in Box
          <6>1. layout[b.widget][c] \in Point /\ c \in DOMAIN Tree
            BY <5>1, <1>0, <3>3 DEF TypeOK, TreeOK, Box
          <6> QED
            BY <6>1, <3>3 DEF ChildBox, Box
        <5>3. pending' = Expanded(b) /\ json' = json
          BY <4>3, <2>3 DEF AddFlow
        <5> QED
          BY <5>2, <5>3 DEF Expanded, TypeOK
      <4> QED
        BY <2>1, <4>1, <4>2, <4>3
    <3> QED
      BY <3>1, <3>2, <3>4 DEF TypeOK, flow, Box
  <2> QED
    BY <2>2, <2>3
<1>11. CASE UNCHANGED vars
  <2>1. Tree' = Tree /\ Root' = Root /\ Widget' = Widget
    BY <1>11 DEF vars, Tree, FirstIsRow, Given, Root, Widget
  <2> QED
    BY <1>11, <2>1 DEF vars, TypeOK, Box
<1> QED
  BY <1>1, <1>2, <1>3, <1>4, <1>5, <1>7, <1>8, <1>9, <1>10, <1>11 DEF Next

-----------------------------------------------------------------------------
(* Stage 1: placing a child where all that is placed is above or to the    *)
(* left.                                                                   *)
LEMMA PlacedStaysApart ==
  ASSUME TypeOK, PositionsApart, current <= Root, next <= Len(Widget.children),
         NEW x \in Nat, NEW y \in Nat, position' = Placed(x, y), size' = size,
         \A c \in DOMAIN position :
           BottomOf(position[c], c) <= y \/ RightOf(position[c], c) <= x
  PROVE  PositionsApart'
<1>1. /\ DOMAIN position' = DOMAIN position \cup {Child}
      /\ position'[Child] = [x |-> x, y |-> y]
      /\ \A c \in DOMAIN position : c # Child => position'[c] = position[c]
  BY PlacedTypes
<1>2. SUFFICES ASSUME NEW c \in DOMAIN position', NEW d \in DOMAIN position', c # d
               PROVE  Apart(position[c], c, position[d], d)'
  BY DEF PositionsApart
<1>3. CASE c # Child /\ d # Child
  BY <1>1, <1>2, <1>3 DEF PositionsApart, Apart
<1>4. CASE c = Child
  BY <1>1, <1>2, <1>4 DEF Apart, RightOf, BottomOf
<1>5. CASE d = Child
  BY <1>1, <1>2, <1>5 DEF Apart, RightOf, BottomOf
<1> QED
  BY <1>3, <1>4, <1>5

LEMMA PlaceInColumnStep == ASSUME Inv, PlaceInColumn PROVE FlowInv'
<1> USE DEF Inv, FlowInv
<1>1. /\ current <= Root /\ Widget.kind = "column" /\ next <= Len(Widget.children)
      /\ phase = "placing" /\ measured = {}
      /\ relativeX = 0 /\ relativeY \in Nat
      /\ \A c \in DOMAIN position : BottomOf(position[c], c) <= relativeY
  BY DEF PlaceInColumn, AboveNextLine, ExtentCovers, TypeOK
<1>2. /\ Child \in 1..(current - 1) /\ size[Child].width \in Nat
      /\ size[Child].height \in Nat
      /\ Narrow(current) => size[Child].width <= MaxWidth
  <2>1. Child \in 1..(current - 1) /\ size[Child] \in Extent /\ Child \in Children(current)
    BY <1>1, ChildIsDone
  <2>2. Narrow(current) => Narrow(Child)
    BY <1>1, <2>1 DEF Narrow, IsRow, Widget
  <2> QED BY <2>1, <2>2 DEF Extent, DoneInv, WidthsFit
<1>3. /\ position' = Placed(0, relativeY) /\ relativeY' = relativeY + size[Child].height
      /\ size' = size /\ relativeX' = 0 /\ current' = current /\ request' = request
      /\ measured' = {} /\ extent' = extent
  BY <1>1 DEF PlaceInColumn
<1>4. /\ DOMAIN position' = DOMAIN position \cup {Child}
      /\ position'[Child] = [x |-> 0, y |-> relativeY]
      /\ \A c \in DOMAIN position : c # Child => position'[c] = position[c]
  BY <1>1, <1>3, PlacedTypes
<1>5. Widget' = Widget /\ Root' = Root /\ Narrow(current)' = Narrow(current)
  BY <1>3, TreeIsKept DEF Widget, Narrow, IsRow
<1>6. PositionsApart'
  BY <1>1, <1>3, PlacedStaysApart
<1>7. ASSUME NEW c \in DOMAIN position'
      PROVE  /\ Narrow(current) => RightOf(position[c], c)' <= MaxWidth
             /\ BottomOf(position[c], c)' <= relativeY'
  <2>1. CASE c = Child
    BY <2>1, <1>1, <1>2, <1>3, <1>4 DEF RightOf, BottomOf
  <2>2. CASE c # Child
    <3>1. c \in DOMAIN position /\ position'[c] = position[c]
      BY <2>2, <1>4
    <3>2. position[c] \in Point /\ size[c] \in Extent
      BY <3>1, TypeFacts DEF TypeOK
    <3>3. /\ BottomOf(position[c], c) <= relativeY
          /\ Narrow(current) => RightOf(position[c], c) <= MaxWidth
      BY <1>1, <3>1 DEF BehindCursor
    <3> QED
      BY <3>1, <3>2, <3>3, <1>1, <1>2, <1>3 DEF RightOf, BottomOf, Point, Extent
  <2> QED
    BY <2>1, <2>2
<1>8. BehindCursor'
  BY <1>5, <1>7 DEF BehindCursor
<1>9. AboveNextLine'
  BY <1>1, <1>3, <1>5, <1>7 DEF AboveNextLine, IsRow
<1>10. ExtentCovers'
  BY <1>3, <1>5 DEF ExtentCovers
<1> QED
  BY <1>6, <1>8, <1>9, <1>10

LEMMA PlaceInRowStep ==
  ASSUME Inv, PlaceInRow, size[Child].width <= MaxWidth PROVE FlowInv'
<1> USE DEF Inv, FlowInv
<1> DEFINE x == IF Wraps THEN 0 ELSE relativeX
           y == IF Wraps THEN LineBelow ELSE relativeY
<1>1. /\ current <= Root /\ IsRow(Widget) /\ next <= Len(Widget.children)
      /\ phase = "placing" /\ measured = {}
      /\ relativeX \in Nat /\ relativeY \in Nat /\ height \in Nat
      /\ \A c \in DOMAIN position : BottomOf(position[c], c) <= height
  BY DEF PlaceInRow, AboveNextLine, ExtentCovers, TypeOK
<1>2. /\ Child \in 1..(current - 1) /\ size[Child].width \in Nat
      /\ size[Child].height \in Nat
  BY <1>1, ChildIsDone DEF Extent
<1>3. x \in Nat /\ y \in Nat /\ y + size[Child].height \in Nat
  BY <1>1, <1>2 DEF LineBelow
<1>4. /\ position' = Placed(x, y) /\ relativeX' = x + size[Child].width
      /\ relativeY' = y /\ height' = LargerOf(height, y + size[Child].height)
      /\ size' = size /\ current' = current /\ request' = request
      /\ measured' = {} /\ extent' = extent
  <2>1. ~(size[Child].width > MaxWidth)
    BY <1>2, GridAssumption
  <2> QED
    BY <2>1, <1>1 DEF PlaceInRow
<1>5. /\ DOMAIN position' = DOMAIN position \cup {Child}
      /\ position'[Child] = [x |-> x, y |-> y]
      /\ \A c \in DOMAIN position : c # Child => position'[c] = position[c]
  <2> HIDE DEF x, y
  <2> QED
    BY <1>1, <1>3, <1>4, PlacedTypes
<1>6. /\ Widget' = Widget /\ Root' = Root /\ Narrow(current)' = Narrow(current)
      /\ Narrow(current)
  BY <1>1, <1>4, TreeIsKept DEF Widget, Narrow, IsRow
<1>7. \A c \in DOMAIN position :
        BottomOf(position[c], c) <= y \/ RightOf(position[c], c) <= x
  BY <1>1 DEF BehindCursor, LineBelow
<1>8. height' \in Nat /\ height <= height' /\ y + size[Child].height <= height'
  <2> HIDE DEF y
  <2> QED
    BY <1>1, <1>3, <1>4, LargerOfIsLarger
<1>9. PositionsApart'
  <2> HIDE DEF x, y
  <2> QED
    BY <1>1, <1>3, <1>4, <1>7, PlacedStaysApart
<1>10. x + size[Child].width <= MaxWidth
  BY <1>1, <1>2, GridAssumption DEF Wraps
<1>11. ASSUME NEW c \in DOMAIN position'
       PROVE  /\ RightOf(position[c], c)' <= MaxWidth
              /\ BottomOf(position[c], c)' <= height'
              /\ \/ BottomOf(position[c], c)' <= relativeY'
                 \/ RightOf(position[c], c)' <= relativeX'
  <2> HIDE DEF x, y
  <2>1. CASE c = Child
    BY <2>1, <1>2, <1>3, <1>4, <1>5, <1>8, <1>10 DEF RightOf, BottomOf
  <2>2. CASE c # Child
    <3>1. c \in DOMAIN position /\ position'[c] = position[c]
      BY <2>2, <1>5
    <3>2. position[c] \in Point /\ size[c] \in Extent
      BY <3>1, TypeFacts DEF TypeOK
    <3>3. /\ BottomOf(position[c], c) <= height /\ RightOf(position[c], c) <= MaxWidth
          /\ BottomOf(position[c], c) <= y \/ RightOf(position[c], c) <= x
      BY <1>1, <1>6, <1>7, <3>1 DEF BehindCursor
    <3>4. /\ RightOf(position[c], c)' = RightOf(position[c], c)
          /\ BottomOf(position[c], c)' = BottomOf(position[c], c)
      BY <3>1, <1>4 DEF RightOf, BottomOf
    <3>5. RightOf(position[c], c) \in Nat /\ BottomOf(position[c], c) \in Nat
      BY <3>2 DEF RightOf, BottomOf, Point, Extent
    <3>6. /\ height \in Nat /\ x \in Nat /\ y \in Nat /\ size[Child].width \in Nat
          /\ relativeX' = x + size[Child].width /\ relativeY' = y
      BY <1>1, <1>2, <1>3, <1>4 DEF Extent
    <3> HIDE DEF Inv, FlowInv
    <3> QED
      BY <3>3, <3>4, <3>5, <3>6, <1>8
  <2> QED
    BY <2>1, <2>2
<1>12. BehindCursor'
  BY <1>11 DEF BehindCursor
<1>13. AboveNextLine'
  BY <1>1, <1>4, <1>6, <1>11 DEF AboveNextLine, IsRow
<1>14. ExtentCovers'
  BY <1>4, <1>6 DEF ExtentCovers
<1> QED
  BY <1>9, <1>12, <1>13, <1>14

LEMMA MeasureStep == ASSUME Inv, Measure PROVE FlowInv'
<1> USE DEF Inv, FlowInv
<1>1. PICK c \in DOMAIN position \ measured :
        extent' = Reach(c) /\ measured' = measured \cup {c}
  BY DEF Measure
<1>2. /\ UNCHANGED <<request, current, relativeX, relativeY, height, position, size>>
      /\ phase = "measuring" /\ phase' = "measuring"
  BY DEF Measure
<1>3. Widget' = Widget /\ Root' = Root /\ Narrow(current)' = Narrow(current)
  BY <1>2, TreeIsKept DEF Widget, Narrow, IsRow
<1>4. PositionsApart' /\ BehindCursor' /\ AboveNextLine'
  BY <1>2, <1>3 DEF PositionsApart, BehindCursor, AboveNextLine, Apart,
                    RightOf, BottomOf, IsRow
<1>5. \A d \in DOMAIN position :
        /\ RightOf(position[d], d) \in Nat /\ BottomOf(position[d], d) \in Nat
        /\ current <= Root /\ Narrow(current) => RightOf(position[d], d) <= MaxWidth
  <2> SUFFICES ASSUME NEW d \in DOMAIN position
               PROVE  /\ RightOf(position[d], d) \in Nat
                      /\ BottomOf(position[d], d) \in Nat
                      /\ current <= Root /\ Narrow(current) =>
                           RightOf(position[d], d) <= MaxWidth
    OBVIOUS
  <2>1. position[d] \in Point /\ size[d] \in Extent
    BY TypeFacts DEF TypeOK
  <2>2. current <= Root /\ Narrow(current) => RightOf(position[d], d) <= MaxWidth
    BY DEF BehindCursor
  <2> QED
    BY <2>1, <2>2 DEF Point, Extent, RightOf, BottomOf
<1>6. extent.width \in Nat /\ extent.height \in Nat
  BY DEF TypeOK, Extent
<1> DEFINE right == RightOf(position[c], c)
           bottom == BottomOf(position[c], c)
<1>7. /\ extent'.width = LargerOf(extent.width, right)
      /\ extent'.height = LargerOf(extent.height, bottom)
  BY <1>1 DEF Reach, RightOf, BottomOf
<1>8. /\ extent'.width \in Nat /\ extent.width <= extent'.width /\ right <= extent'.width
      /\ extent'.height \in Nat /\ extent.height <= extent'.height
      /\ bottom <= extent'.height
  <2> HIDE DEF right, bottom
  <2>1. right \in Nat /\ bottom \in Nat
    BY <1>1, <1>5 DEF right, bottom
  <2> QED
    BY <2>1, <1>6, <1>7, LargerOfIsLarger
<1>9. current <= Root /\ Narrow(current) => extent'.width <= MaxWidth
  BY <1>1, <1>5, <1>6, <1>7 DEF LargerOf, ExtentCovers
<1>10. ASSUME NEW d \in measured'
       PROVE  /\ RightOf(position[d], d) <= extent'.width
              /\ BottomOf(position[d], d) <= extent'.height
  <2>1. CASE d = c
    BY <2>1, <1>8
  <2>2. CASE d # c
    <3>1. d \in measured /\ d \in DOMAIN position
      BY <2>2, <1>1 DEF TypeOK
    <3>2. /\ RightOf(position[d], d) <= extent.width
          /\ BottomOf(position[d], d) <= extent.height
      BY <3>1 DEF ExtentCovers
    <3> QED
      BY <3>1, <3>2, <1>5, <1>6, <1>8
  <2> QED
    BY <2>1, <2>2
<1>11. ExtentCovers'
  BY <1>2, <1>3, <1>9, <1>10 DEF ExtentCovers, RightOf, BottomOf
<1> QED
  BY <1>4, <1>11

-----------------------------------------------------------------------------
(* Stage 2: a widget is done.                                              *)
LEMMA FinishStep ==
  ASSUME Inv, NEW positions, NEW sizeOf \in Extent, Finish(positions, sizeOf),
         current <= Root, DOMAIN positions \subseteq 1..(current - 1),
         Narrow(current) => sizeOf.width <= MaxWidth,
         \A c \in DOMAIN positions :
           /\ RightOf(positions[c], c) <= sizeOf.width
           /\ BottomOf(positions[c], c) <= sizeOf.height,
         \A c, d \in DOMAIN positions :
           c # d => Apart(positions[c], c, positions[d], d)
  PROVE  FlowInv' /\ DoneInv'
<1>1. /\ current \in Nat \ {0} /\ current' = current + 1
      /\ size \in Seq(Extent) /\ Len(size) = current - 1
  BY TypeFacts DEF Finish, Inv, TypeOK
<1>2. /\ size' = Append(size, sizeOf)
      /\ layout' = [w \in 1..current |-> IF w = current THEN positions ELSE layout[w]]
      /\ position' = <<>> /\ measured' = {} /\ extent' = NoExtent /\ relativeX' = 0
  BY DEF Finish
<1>3. /\ \A w \in 1..(current - 1) : size'[w] = size[w]
      /\ size'[current] = sizeOf
  BY <1>1, <1>2
<1>4. /\ \A w \in 1..(current - 1) : layout'[w] = layout[w]
      /\ layout'[current] = positions
      /\ 1..(current' - 1) = 1..current
      /\ \A w \in 1..current : w = current \/ w \in 1..(current - 1)
  BY <1>1, <1>2
<1>5. FlowInv'
  <2>1. DOMAIN position' = {}
    BY <1>2
  <2> QED
    BY <1>2, <2>1, GridAssumption
       DEF FlowInv, PositionsApart, BehindCursor, AboveNextLine, ExtentCovers, NoExtent
<1>6. WidthsFit'
  <2>1. \A w : Narrow(w)' = Narrow(w)
    BY TreeIsKept DEF Finish
  <2> QED
    BY <1>3, <1>4, <2>1 DEF Inv, DoneInv, WidthsFit
<1>7. ASSUME NEW w \in 1..current
      PROVE  \A c \in DOMAIN layout'[w] :
               /\ c \in 1..(current - 1)
               /\ RightOf(layout[w][c], c)' <= size'[w].width
               /\ BottomOf(layout[w][c], c)' <= size'[w].height
  <2>1. CASE w = current
    BY <2>1, <1>3, <1>4 DEF RightOf, BottomOf
  <2>2. CASE w # current
    <3>1. w \in 1..(current - 1) /\ layout'[w] = layout[w] /\ size'[w] = size[w]
      BY <2>2, <1>3, <1>4
    <3>2. \A c \in DOMAIN layout[w] : c \in 1..(current - 1)
      BY <3>1, <1>1 DEF Inv, TypeOK
    <3>3. \A c \in DOMAIN layout[w] :
            /\ RightOf(layout[w][c], c) <= size[w].width
            /\ BottomOf(layout[w][c], c) <= size[w].height
      BY <3>1 DEF Inv, DoneInv, ChildrenWithin
    <3> QED
      BY <3>1, <3>2, <3>3, <1>3 DEF RightOf, BottomOf
  <2> QED
    BY <2>1, <2>2
<1>8. ChildrenWithin'
  BY <1>4, <1>7 DEF ChildrenWithin
<1>9. ASSUME NEW w \in 1..current, NEW c \in DOMAIN layout'[w],
             NEW d \in DOMAIN layout'[w], c # d
      PROVE  Apart(layout[w][c], c, layout[w][d], d)'
  <2>0. size'[c] = size[c] /\ size'[d] = size[d]
    BY <1>3, <1>7, <1>9
  <2>1. CASE w = current
    BY <2>0, <2>1, <1>4, <1>9 DEF Apart
  <2>2. CASE w # current
    <3>1. w \in 1..(current - 1) /\ layout'[w] = layout[w]
      BY <2>2, <1>4
    <3>2. Apart(layout[w][c], c, layout[w][d], d)
      BY <3>1, <1>9 DEF Inv, DoneInv, ChildrenApart
    <3> QED
      BY <2>0, <3>1, <3>2 DEF Apart
  <2> QED
    BY <2>1, <2>2
<1>10. ChildrenApart'
  BY <1>4, <1>9 DEF ChildrenApart
<1> QED
  BY <1>5, <1>6, <1>8, <1>10 DEF DoneInv

LEMMA FinishFlowStep == ASSUME Inv, FinishFlow PROVE FlowInv' /\ DoneInv'
<1>1. /\ measured = DOMAIN position /\ Finish(position, extent)
      /\ current <= Root /\ DOMAIN position \subseteq 1..(current - 1)
      /\ extent \in Extent
  BY DEF FinishFlow, Inv, TypeOK
<1>2. /\ Narrow(current) => extent.width <= MaxWidth
      /\ \A c \in DOMAIN position :
           /\ RightOf(position[c], c) <= extent.width
           /\ BottomOf(position[c], c) <= extent.height
  BY <1>1 DEF Inv, FlowInv, ExtentCovers
<1>3. \A c, d \in DOMAIN position :
        c # d => Apart(position[c], c, position[d], d)
  BY DEF Inv, FlowInv, PositionsApart
<1> QED
  BY <1>1, <1>2, <1>3, FinishStep

LEMMA MeasureLeafStep == ASSUME Inv, MeasureLeaf PROVE FlowInv' /\ DoneInv'
<1> DEFINE sizeOf == [width |-> Widget.width, height |-> Widget.height]
           none == <<>>
<1>1. Finish(none, sizeOf) /\ current <= Root /\ IsLeaf(Widget)
  BY DEF MeasureLeaf
<1>2. sizeOf \in Extent /\ ~Narrow(current)
  BY <1>1, TypeFacts DEF Inv, WellFormed, Widget, Extent, Narrow, IsRow, IsLeaf
<1>3. DOMAIN none = {}
  OBVIOUS
<1> HIDE DEF none, sizeOf
<1> QED
  BY <1>1, <1>2, <1>3, FinishStep

(* The other steps leave the flow and what is done as they are.            *)
LEMMA LayoutIsKept ==
  ASSUME Inv, UNCHANGED <<request, current, flow, layout, size>>,
         phase' \in {"called", "placing"} => phase \in {"called", "placing"}
  PROVE  FlowInv' /\ DoneInv'
<1>1. /\ request' = request /\ current' = current /\ layout' = layout /\ size' = size
      /\ relativeX' = relativeX /\ relativeY' = relativeY /\ height' = height
      /\ position' = position /\ measured' = measured /\ extent' = extent
  BY DEF flow
<1>2. Widget' = Widget /\ Root' = Root /\ \A w : Narrow(w)' = Narrow(w)
  BY <1>1, TreeIsKept DEF Widget
<1>3. PositionsApart' /\ BehindCursor' /\ AboveNextLine' /\ ExtentCovers'
  BY <1>1, <1>2 DEF Inv, FlowInv, PositionsApart, BehindCursor, AboveNextLine,
                    ExtentCovers, Apart, RightOf, BottomOf, IsRow
<1>4. WidthsFit' /\ ChildrenWithin' /\ ChildrenApart'
  BY <1>1, <1>2 DEF Inv, DoneInv, WidthsFit, ChildrenWithin, ChildrenApart, Apart,
              RightOf, BottomOf
<1> QED
  BY <1>3, <1>4 DEF FlowInv, DoneInv

(* While flows are laid out there are no boxes.                            *)
LEMMA BoxesAreKept ==
  ASSUME Inv, UNCHANGED <<request, pending, json>>,
         \/ size' = size
         \/ phase \in {"called", "placing", "measuring"},
         \/ phase' \notin {"called", "placing", "measuring"}
         \/ phase \in {"called", "placing", "measuring"}
  PROVE  BoxInv'
<1>1. Tree' = Tree
  BY DEF Tree, FirstIsRow, Given
<1>2. CASE phase \in {"called", "placing", "measuring"}
  <2>1. pending' = {} /\ json' = {}
    BY <1>2 DEF Inv, BoxInv, NoBoxesYet
  <2> QED
    BY <2>1 DEF BoxInv, BoxesApart, BoxesFit, NoBoxesYet, JsonIsSimple
<1>3. CASE phase \notin {"called", "placing", "measuring"}
  BY <1>1, <1>3 DEF Inv, BoxInv, BoxesApart, BoxesFit, NoBoxesYet, JsonIsSimple,
                    Apart, RightOf, BottomOf
<1> QED
  BY <1>2, <1>3

-----------------------------------------------------------------------------
(* Stage 3: a flow's box is replaced by boxes within it.                   *)
(* All widgets are done when the boxes are added.                          *)
LEMMA BoxFacts ==
  ASSUME Inv, phase = "emitting", NEW b \in pending \cup json
  PROVE  /\ b.widget \in 1..(current - 1) /\ size[b.widget] \in Extent
         /\ b.x \in Nat /\ b.y \in Nat
<1>1. b \in Box /\ current = Root + 1 /\ TreeOK
  BY TypeFacts DEF Inv, TypeOK
<1>2. b.widget \in 1..(current - 1) /\ b.x \in Nat /\ b.y \in Nat
  BY <1>1 DEF Box, TreeOK
<1> QED
  BY <1>2, TypeFacts DEF Inv

LEMMA ChildBoxFacts ==
  ASSUME Inv, phase = "emitting", NEW b \in pending, NEW c \in DOMAIN layout[b.widget]
  PROVE  /\ layout[b.widget][c] \in Point
         /\ c \in 1..(current - 1) /\ size[c] \in Extent
         /\ ChildBox(b, c) = [widget |-> c, x |-> b.x + layout[b.widget][c].x,
                                            y |-> b.y + layout[b.widget][c].y]
         /\ RightOf(ChildBox(b, c), c) <= RightOf(b, b.widget)
         /\ BottomOf(ChildBox(b, c), c) <= BottomOf(b, b.widget)
<1>1. /\ b.widget \in 1..(current - 1) /\ size[b.widget] \in Extent
      /\ b.x \in Nat /\ b.y \in Nat
  BY BoxFacts
<1>2. layout[b.widget][c] \in Point /\ c \in 1..(b.widget - 1)
  BY <1>1 DEF Inv, TypeOK
<1>3. c \in 1..(current - 1)
  BY <1>1, <1>2, TypeFacts DEF Inv
<1>4. size[c] \in Extent
  BY <1>3, TypeFacts DEF Inv
<1>5. /\ RightOf(layout[b.widget][c], c) <= size[b.widget].width
      /\ BottomOf(layout[b.widget][c], c) <= size[b.widget].height
  BY <1>1 DEF Inv, DoneInv, ChildrenWithin
<1>6. /\ RightOf(ChildBox(b, c), c) <= RightOf(b, b.widget)
      /\ BottomOf(ChildBox(b, c), c) <= BottomOf(b, b.widget)
  BY <1>1, <1>2, <1>4, <1>5 DEF ChildBox, RightOf, BottomOf, Point, Extent
<1> QED
  BY <1>2, <1>3, <1>4, <1>6 DEF ChildBox

LEMMA ExpandedStaysApart ==
  ASSUME Inv, phase = "emitting", NEW b \in pending, ~IsLeaf(Tree[b.widget]),
         NEW d \in Expanded(b) \cup json, NEW e \in Expanded(b) \cup json, d # e
  PROVE  Apart(d, d.widget, e, e.widget)
<1> DEFINE IsNew(a) == \E c \in DOMAIN layout[b.widget] : a = ChildBox(b, c)
           IsOld(a) == a \in pending \cup json /\ a # b
<1>1. b \notin json
  BY DEF Inv, BoxInv, JsonIsSimple, IsLeaf
<1>2. (IsNew(d) \/ IsOld(d)) /\ (IsNew(e) \/ IsOld(e))
  BY <1>1 DEF Expanded
<1>3. ASSUME NEW a, IsNew(a), NEW o, IsOld(o)
      PROVE  Apart(a, a.widget, o, o.widget) /\ Apart(o, o.widget, a, a.widget)
  <2>1. PICK c \in DOMAIN layout[b.widget] : a = ChildBox(b, c)
    BY <1>3
  <2>2. Apart(b, b.widget, o, o.widget)
    BY <1>3 DEF Inv, BoxInv, BoxesApart
  <2>3. /\ o.widget \in 1..(current - 1) /\ size[o.widget] \in Extent
        /\ o.x \in Nat /\ o.y \in Nat
    BY <1>3, BoxFacts
  <2>4. /\ size[b.widget] \in Extent /\ b.x \in Nat /\ b.y \in Nat
    BY BoxFacts
  <2>5. /\ layout[b.widget][c] \in Point /\ size[c] \in Extent
        /\ a.widget = c
        /\ a.x = b.x + layout[b.widget][c].x /\ a.y = b.y + layout[b.widget][c].y
        /\ RightOf(a, c) <= RightOf(b, b.widget)
        /\ BottomOf(a, c) <= BottomOf(b, b.widget)
    BY <2>1, ChildBoxFacts
  <2> QED
    BY <2>2, <2>3, <2>4, <2>5 DEF Point, Extent, Apart, RightOf, BottomOf
<1>4. ASSUME IsNew(d), IsNew(e)
      PROVE  Apart(d, d.widget, e, e.widget)
  <2>1. PICK c \in DOMAIN layout[b.widget] : d = ChildBox(b, c)
    BY <1>4
  <2>2. PICK f \in DOMAIN layout[b.widget] : e = ChildBox(b, f)
    BY <1>4
  <2>3. b.widget \in 1..(current - 1) /\ b.x \in Nat /\ b.y \in Nat
    BY BoxFacts
  <2>4. Apart(layout[b.widget][c], c, layout[b.widget][f], f)
    BY <2>1, <2>2, <2>3 DEF Inv, DoneInv, ChildrenApart
  <2>5. /\ layout[b.widget][c] \in Point /\ size[c] \in Extent
        /\ layout[b.widget][f] \in Point /\ size[f] \in Extent
        /\ d.widget = c
        /\ d.x = b.x + layout[b.widget][c].x /\ d.y = b.y + layout[b.widget][c].y
        /\ e.widget = f
        /\ e.x = b.x + layout[b.widget][f].x /\ e.y = b.y + layout[b.widget][f].y
    BY <2>1, <2>2, ChildBoxFacts
  <2> QED
    BY <2>3, <2>4, <2>5 DEF Point, Extent, Apart
<1>5. ASSUME IsOld(d), IsOld(e)
      PROVE  Apart(d, d.widget, e, e.widget)
  BY <1>5 DEF Inv, BoxInv, BoxesApart
<1> HIDE DEF IsNew, IsOld
<1> QED
  BY <1>2, <1>3, <1>4, <1>5

LEMMA ExpandedStaysWithin ==
  ASSUME Inv, phase = "emitting", NEW b \in pending, NEW d \in Expanded(b) \cup json
  PROVE  RightOf(d, d.widget) <= MaxWidth
<1>1. \A a \in pending \cup json : RightOf(a, a.widget) <= MaxWidth
  BY DEF Inv, BoxInv, BoxesFit
<1>2. CASE d \in pending \cup json
  BY <1>1, <1>2
<1>3. ASSUME NEW c \in DOMAIN layout[b.widget], d = ChildBox(b, c)
      PROVE  RightOf(d, d.widget) <= MaxWidth
  <2>1. /\ layout[b.widget][c] \in Point /\ size[c] \in Extent
        /\ d = [widget |-> c, x |-> b.x + layout[b.widget][c].x,
                              y |-> b.y + layout[b.widget][c].y]
        /\ RightOf(d, c) <= RightOf(b, b.widget)
    BY <1>3, ChildBoxFacts
  <2>2. size[b.widget] \in Extent /\ b.x \in Nat
    BY BoxFacts
  <2>3. RightOf(b, b.widget) <= MaxWidth
    BY <1>1
  <2> QED
    BY <2>1, <2>2, <2>3, GridAssumption DEF RightOf, Point, Extent
<1> QED
  BY <1>2, <1>3 DEF Expanded

LEMMA AddFlowStep ==
  ASSUME Inv, phase = "emitting", NEW b \in pending, AddFlow(b), ~Fail("leftmost")
  PROVE  BoxInv'
<1>1. /\ ~IsLeaf(Tree[b.widget]) /\ pending' = Expanded(b)
      /\ request' = request /\ phase' = phase /\ size' = size /\ json' = json
  BY DEF AddFlow
<1>2. Tree' = Tree
  BY <1>1 DEF Tree, FirstIsRow, Given
<1>3. BoxesApart'
  BY <1>1, ExpandedStaysApart DEF BoxesApart, Apart
<1>4. BoxesFit'
  BY <1>1, ExpandedStaysWithin DEF BoxesFit, RightOf
<1>5. NoBoxesYet' /\ JsonIsSimple'
  BY <1>1, <1>2 DEF NoBoxesYet, JsonIsSimple, Inv, BoxInv
<1> QED
  BY <1>3, <1>4, <1>5 DEF BoxInv

LEMMA AddSimpleStep ==
  ASSUME Inv, phase = "emitting", NEW b \in pending, AddSimple(b)
  PROVE  BoxInv'
<1>1. /\ Tree[b.widget].kind = "simple"
      /\ pending' = pending \ {b} /\ json' = json \cup {b}
      /\ request' = request /\ phase' = phase /\ size' = size
  BY DEF AddSimple
<1>2. Tree' = Tree
  BY <1>1 DEF Tree, FirstIsRow, Given
<1>3. pending' \cup json' \subseteq pending \cup json
  BY <1>1
<1>4. BoxesApart' /\ BoxesFit'
  BY <1>1, <1>3 DEF Inv, BoxInv, BoxesApart, BoxesFit, Apart, RightOf
<1>5. NoBoxesYet' /\ JsonIsSimple'
  BY <1>1, <1>2 DEF NoBoxesYet, JsonIsSimple, Inv, BoxInv
<1> QED
  BY <1>4, <1>5 DEF BoxInv

LEMMA AddSpaceStep ==
  ASSUME Inv, phase = "emitting", NEW b \in pending, AddSpace(b)
  PROVE  BoxInv'
<1>1. /\ pending' = pending \ {b} /\ json' = json
      /\ request' = request /\ phase' = phase /\ size' = size
  BY DEF AddSpace
<1>2. Tree' = Tree
  BY <1>1, TreeIsKept
<1>3. BoxesApart' /\ BoxesFit'
  BY <1>1 DEF Inv, BoxInv, BoxesApart, BoxesFit, Apart, RightOf
<1>4. NoBoxesYet' /\ JsonIsSimple'
  BY <1>1, <1>2 DEF NoBoxesYet, JsonIsSimple, Inv, BoxInv
<1> QED
  BY <1>3, <1>4 DEF BoxInv

LEMMA EmitStep == ASSUME Inv, Emit PROVE BoxInv'
<1>1. /\ pending' = {[widget |-> Root, x |-> 0, y |-> 0]} /\ json' = {}
      /\ phase' = "emitting" /\ size' = size /\ request' = request
  BY DEF Emit, Inv, BoxInv, NoBoxesYet
<1>2. Root \in 1..(current - 1)
  BY TypeFacts DEF Emit, Inv, TypeOK, TreeOK
<1>3. size[Root] \in Extent /\ size[Root].width <= MaxWidth
  BY <1>2, TypeFacts DEF Inv, DoneInv, WidthsFit, RootIsNarrow, Emit
<1>4. Tree' = Tree /\ Root' = Root
  BY <1>1 DEF Tree, FirstIsRow, Given, Root
<1>5. BoxesApart' /\ NoBoxesYet' /\ JsonIsSimple'
  BY <1>1 DEF BoxesApart, NoBoxesYet, JsonIsSimple
<1>6. BoxesFit'
  BY <1>1, <1>3, <1>4 DEF BoxesFit, RightOf, Extent
<1> QED
  BY <1>5, <1>6 DEF BoxInv

-----------------------------------------------------------------------------
LEMMA InvInit == Init => Inv
<1> SUFFICES ASSUME Init PROVE Inv
  OBVIOUS
<1>1. TypeOK
  BY TypeInit
<1>2. DOMAIN position = {} /\ 1..(current - 1) = {} /\ measured = {}
  BY DEF Init
<1>3. FlowInv
  BY <1>2, GridAssumption
     DEF Init, FlowInv, PositionsApart, BehindCursor, AboveNextLine, ExtentCovers, NoExtent
<1>4. DoneInv
  BY <1>2 DEF DoneInv, WidthsFit, ChildrenWithin, ChildrenApart
<1>5. BoxInv
  BY DEF Init, BoxInv, BoxesApart, BoxesFit, NoBoxesYet, JsonIsSimple
<1>6. RootIsNarrow
  BY DEF Init, RootIsNarrow
<1> QED
  BY <1>1, <1>3, <1>4, <1>5, <1>6 DEF Inv

LEMMA RootStaysNarrow == Inv /\ [Next]_vars => RootIsNarrow'
<1> SUFFICES ASSUME Inv, [Next]_vars PROVE RootIsNarrow'
  OBVIOUS
<1>1. CASE phase' = "failed"
  BY <1>1 DEF RootIsNarrow
<1>2. CASE Compose /\ phase' # "failed"
  <2>1. /\ request' = request /\ request \in Requests
        /\ \A i \in DOMAIN request.top : IsRow(Given[request.top[i]]) <=> FirstIsRow
    BY <1>2 DEF Compose, Fail, Inv, TypeOK, IsRow, FirstIsRow
  <2> QED
    BY <2>1, ComposedIsNarrow, TreeIsKept DEF RootIsNarrow
<1>3. CASE phase \in {"placing", "measuring", "emitting"}
  <2>1. request' = request
    BY <1>3 DEF Next, vars, Compose, PlaceInColumn, PlaceInRow, StartMeasuring, Measure,
                FinishFlow, MeasureLeaf, Finish, Emit, AddWidgetJson, AddSimple, AddSpace,
                AddFlow, Fail
  <2> QED
    BY <1>3, <2>1, TreeIsKept DEF Inv, RootIsNarrow
<1>4. CASE UNCHANGED vars
  BY <1>4, TreeIsKept DEF vars, Inv, RootIsNarrow
<1>5. Next => Compose \/ phase \in {"placing", "measuring", "emitting"}
  BY DEF Next, PlaceInColumn, PlaceInRow, StartMeasuring, Measure, FinishFlow,
         MeasureLeaf, Emit, AddWidgetJson
<1> QED
  BY <1>1, <1>2, <1>3, <1>4, <1>5

LEMMA InvStep == Inv /\ [Next]_vars => Inv'
<1> SUFFICES ASSUME Inv, [Next]_vars PROVE Inv'
  OBVIOUS
<1>1. TypeOK' /\ RootIsNarrow'
  BY TypeStep, RootStaysNarrow DEF Inv
<1>2. ASSUME NEW check, Fail(check)
      PROVE  FlowInv' /\ DoneInv' /\ BoxInv'
  BY <1>2, LayoutIsKept, BoxesAreKept DEF Fail
<1>3. CASE Compose
  <2>1. CASE Fail("count") \/ Fail("mixed")
    BY <2>1, <1>1, <1>2 DEF Inv
  <2>2. CASE ~(Fail("count") \/ Fail("mixed"))
    <3>1. /\ phase = "called" /\ phase' = "placing"
          /\ UNCHANGED <<request, current, flow, layout, size, pending, json>>
      BY <1>3, <2>2 DEF Compose
    <3> QED
      BY <3>1, <1>1, LayoutIsKept, BoxesAreKept DEF Inv
  <2> QED
    BY <2>1, <2>2
<1>4. CASE PlaceInColumn
  <2>1. /\ phase = "placing" /\ phase' = phase
        /\ UNCHANGED <<request, current, layout, size, pending, json>>
    BY <1>4 DEF PlaceInColumn
  <2>2. DoneInv'
    BY <2>1, TreeIsKept DEF Inv, DoneInv, WidthsFit, ChildrenWithin, ChildrenApart, Apart,
                RightOf, BottomOf
  <2> QED
    BY <1>1, <1>4, <2>1, <2>2, PlaceInColumnStep, BoxesAreKept DEF Inv
<1>5. CASE PlaceInRow
  <2>1. CASE Fail("width")
    BY <2>1, <1>1, <1>2 DEF Inv
  <2>2. CASE ~Fail("width")
    <3>1. /\ phase = "placing" /\ phase' = phase
          /\ ~(size[Child].width > MaxWidth)
          /\ UNCHANGED <<request, current, layout, size, pending, json>>
      BY <1>5, <2>2 DEF PlaceInRow
    <3>2. size[Child].width <= MaxWidth
      <4>1. size[Child] \in Extent
        BY <1>5, ChildIsDone DEF PlaceInRow, Inv
      <4> QED
        BY <4>1, <3>1, GridAssumption DEF Extent
    <3>3. DoneInv'
      BY <3>1, TreeIsKept DEF Inv, DoneInv, WidthsFit, ChildrenWithin, ChildrenApart, Apart,
                  RightOf, BottomOf
    <3> QED
      BY <1>1, <1>5, <3>1, <3>2, <3>3, PlaceInRowStep, BoxesAreKept DEF Inv
  <2> QED
    BY <2>1, <2>2
<1>6. CASE StartMeasuring
  BY <1>1, <1>6, LayoutIsKept, BoxesAreKept DEF StartMeasuring, Inv
<1>7. CASE Measure
  <2>1. /\ phase = "measuring" /\ phase' = phase
        /\ UNCHANGED <<request, current, layout, size, pending, json>>
    BY <1>7 DEF Measure
  <2>2. DoneInv'
    BY <2>1, TreeIsKept DEF Inv, DoneInv, WidthsFit, ChildrenWithin, ChildrenApart, Apart,
                RightOf, BottomOf
  <2> QED
    BY <1>1, <1>7, <2>1, <2>2, MeasureStep, BoxesAreKept DEF Inv
<1>8. CASE FinishFlow
  <2>1. phase = "measuring" /\ UNCHANGED <<request, pending, json>>
    BY <1>8 DEF FinishFlow, Finish
  <2> QED
    BY <1>1, <1>8, <2>1, FinishFlowStep, BoxesAreKept DEF Inv
<1>9. CASE MeasureLeaf
  <2>1. phase = "placing" /\ UNCHANGED <<request, pending, json>>
    BY <1>9 DEF MeasureLeaf, Finish
  <2> QED
    BY <1>1, <1>9, <2>1, MeasureLeafStep, BoxesAreKept DEF Inv
<1>10. CASE Emit
  <2>1. phase = "placing" /\ phase' = "emitting"
        /\ UNCHANGED <<request, current, flow, layout, size>>
    BY <1>10 DEF Emit
  <2> QED
    BY <1>1, <1>10, <2>1, EmitStep, LayoutIsKept DEF Inv
<1>11. CASE AddWidgetJson
  <2>1. PICK b \in pending : AddSimple(b) \/ AddSpace(b) \/ AddFlow(b)
    BY <1>11 DEF AddWidgetJson
  <2>2. CASE Fail("leftmost")
    BY <2>2, <1>1, <1>2 DEF Inv
  <2>3. CASE ~Fail("leftmost")
    <3>1. /\ phase = "emitting" /\ phase' = phase
          /\ UNCHANGED <<request, current, flow, layout, size>>
      BY <1>11, <2>1, <2>3 DEF AddWidgetJson, AddSimple, AddSpace, AddFlow
    <3>2. BoxInv'
      BY <2>1, <2>3, <3>1, AddSimpleStep, AddSpaceStep, AddFlowStep
    <3> QED
      BY <1>1, <3>1, <3>2, LayoutIsKept DEF Inv
  <2> QED
    BY <2>2, <2>3
<1>12. CASE UNCHANGED vars
  BY <1>1, <1>12, LayoutIsKept, BoxesAreKept DEF vars, flow, Inv
<1> QED
  BY <1>3, <1>4, <1>5, <1>6, <1>7, <1>8, <1>9, <1>10, <1>11, <1>12 DEF Next

(* Positions and sizes are those of widgets of the tree, at every point of *)
(* getDashboardBody.                                                       *)
THEOREM TypeCorrect == Spec => []TypeOK
<1>1. Init => TypeOK
  BY TypeInit
<1>2. TypeOK /\ [Next]_vars => TypeOK'
  BY TypeStep
<1> QED
  BY <1>1, <1>2, PTL DEF Spec

(* addWidgetJson never puts two widgets of a dashboard over each other,    *)
(* whatever rows and columns they are nested in.                           *)
THEOREM BodiesDoNotOverlap == Spec => []NoOverlap
<1>1. Inv => NoOverlap
  BY DEF Inv, BoxInv, BoxesApart, NoOverlap
<1> QED
  BY <1>1, InvInit, InvStep, PTL DEF Spec

(* No widget of a dashboard reaches beyond the last column of the grid.    *)
THEOREM BodiesStayWithinGrid == Spec => []WithinGrid
<1>1. Inv => WithinGrid
  BY DEF Inv, BoxInv, BoxesFit, WithinGrid, RightOf
<1> QED
  BY <1>1, InvInit, InvStep, PTL DEF Spec

-----------------------------------------------------------------------------
(* The order.  A new line begins below all that is placed, so below the    *)
(* upper edge of whatever takes height; the boxes left hold every simple   *)
(* widget not yet added.                                                   *)
BeforeCursor ==
  current <= Root /\ IsRow(Widget) =>
    \A c \in DOMAIN position :
      size[c].height > 0 =>
      \/ position[c].y < relativeY
      \/ position[c].y = relativeY /\ RightOf(position[c], c) <= relativeX

PlacedAreFirst ==
  /\ phase = "measuring" => next = Len(Widget.children) + 1
  /\ current <= Root =>
       DOMAIN position = {Widget.children[i] : i \in 1..(next - 1)}

(* Of the first n children of w, at the positions given.                   *)
InOrder(w, n, positions) ==
  \A i, j \in 1..n :
    LET c == Tree[w].children[i]
        d == Tree[w].children[j]
    IN i < j /\ (\A k \in 1..n : Tree[w].children[k] = c => k <= i) /\ size[c].height > 0 =>
         \/ positions[c].y < positions[d].y
         \/ positions[c].y = positions[d].y /\ RightOf(positions[c], c) <= positions[d].x

PlacedInOrder ==
  current <= Root /\ IsRow(Widget) => InOrder(current, next - 1, position)

DoneInOrder ==
  \A w \in 1..(current - 1) :
    /\ DOMAIN layout[w] = Children(w)
    /\ IsRow(Tree[w]) => InOrder(w, Len(Tree[w].children), layout[w])

NothingIsLost ==
  phase = "emitting" =>
    \A w \in Under(Root) :
      Tree[w].kind = "simple" => \E b \in pending \cup json : w \in Under(b.widget)

LineInv ==
  /\ BeforeCursor
  /\ PlacedAreFirst
  /\ PlacedInOrder

OrderInv == DoneInOrder /\ LineInv /\ NothingIsLost

-----------------------------------------------------------------------------
(* Where the children of a widget are among the widgets.                   *)
LEMMA ChildrenComeBefore ==
  ASSUME TreeOK, NEW w \in 1..Root
  PROVE  /\ Len(Tree[w].children) \in Nat
         /\ DOMAIN Tree[w].children = 1..Len(Tree[w].children)
         /\ \A i \in 1..Len(Tree[w].children) : Tree[w].children[i] \in 1..(w - 1)
         /\ Children(w) \subseteq 1..(w - 1)
         /\ Children(w) \subseteq DOMAIN Tree
<1>1. Tree[w].children \in Seq(1..(w - 1)) /\ Root \in Nat /\ DOMAIN Tree = 1..Root
  BY DEF TreeOK, WellFormed
<1>2. \A ids, S : ids \in Seq(S) =>
        /\ Len(ids) \in Nat /\ DOMAIN ids = 1..Len(ids)
        /\ \A i \in 1..Len(ids) : ids[i] \in S
  OBVIOUS
<1>3. /\ Len(Tree[w].children) \in Nat
      /\ DOMAIN Tree[w].children = 1..Len(Tree[w].children)
      /\ \A i \in 1..Len(Tree[w].children) : Tree[w].children[i] \in 1..(w - 1)
  BY <1>1, <1>2
<1>4. 1..(w - 1) \subseteq 1..Root
  BY <1>1
<1> QED
  BY <1>1, <1>3, <1>4 DEF Children

(* A leaf is all that is under it.                                         *)
LEMMA LeafHoldsItself ==
  ASSUME TreeOK, NEW v \in DOMAIN Tree, IsLeaf(Tree[v]), NEW w \in Under(v)
  PROVE  w = v
<1>1. Tree[v].children = <<>>
  BY DEF TreeOK, WellFormed
<1>2. Children(v) = {}
  BY <1>1 DEF Children
<1>3. {v} \in SUBSET DOMAIN Tree /\ HoldsChildren({v})
  BY <1>2 DEF HoldsChildren
<1>4. w \in {v}
  BY <1>3, Zenon DEF Under
<1> QED
  BY <1>4

(* Whatever else is under a widget is under one of its children.           *)
LEMMA UnderSomeChild ==
  ASSUME TreeOK, NEW v \in DOMAIN Tree, NEW w \in Under(v), w # v
  PROVE  \E c \in Children(v) : w \in Under(c)
<1> SUFFICES ASSUME \A c \in Children(v) : w \notin Under(c) PROVE FALSE
  OBVIOUS
<1> DEFINE Avoids(S) == HoldsChildren(S) /\ w \notin S
           U == {u \in DOMAIN Tree :
                   u = v \/ \E S \in SUBSET DOMAIN Tree : u \in S /\ Avoids(S)}
<1>1. w \in DOMAIN Tree
  BY DEF Under
<1>2. ASSUME NEW c \in Children(v) PROVE c \in U
  <2>1. c \in DOMAIN Tree
    BY ChildrenComeBefore DEF TreeOK
  <2>2. PICK S \in SUBSET DOMAIN Tree : c \in S /\ HoldsChildren(S) /\ w \notin S
    BY <1>1, <1>2, Zenon DEF Under
  <2> QED
    BY <2>1, <2>2
<1>3. ASSUME NEW u \in U, NEW c \in Children(u) PROVE c \in U
  <2>1. CASE u = v
    BY <1>2, <1>3, <2>1
  <2>2. CASE u # v
    <3>1. PICK S \in SUBSET DOMAIN Tree : u \in S /\ HoldsChildren(S) /\ w \notin S
      BY <2>2
    <3>2. c \in S
      BY <3>1 DEF HoldsChildren
    <3> QED
      BY <3>1, <3>2
  <2> QED
    BY <2>1, <2>2
<1>4. HoldsChildren(U)
  BY <1>3 DEF HoldsChildren
<1>5. U \in SUBSET DOMAIN Tree /\ v \in U
  OBVIOUS
<1>6. w \in U
  <2> HIDE DEF U
  <2> QED
    BY <1>4, <1>5, Zenon DEF Under
<1> QED
  BY <1>6

LEMMA UnderItself == ASSUME NEW v \in DOMAIN Tree PROVE v \in Under(v)
BY Zenon DEF Under

-----------------------------------------------------------------------------
(* Placing a child after all that is placed.                               *)
LEMMA PlacedStayFirst ==
  ASSUME TypeOK, PlacedAreFirst, current <= Root, next <= Len(Widget.children),
         NEW x \in Nat, NEW y \in Nat, position' = Placed(x, y), next' = next + 1,
         request' = request, current' = current, phase' = "placing"
  PROVE  PlacedAreFirst'
<1>1. DOMAIN position' = DOMAIN position \cup {Child}
  BY PlacedTypes
<1>2. Widget' = Widget /\ Root' = Root
  BY DEF Widget, Root, Tree, FirstIsRow, Given
<1>3. next \in Nat \ {0}
  <2>1. current \in 1..Root /\ TreeOK
    BY TypeFacts
  <2>2. Len(Widget.children) \in Nat
    BY <2>1, ChildrenComeBefore DEF Widget
  <2> QED
    BY <2>2 DEF TypeOK
<1>4. 1..(next' - 1) = 1..(next - 1) \cup {next}
  BY <1>3
<1>5. DOMAIN position = {Widget.children[i] : i \in 1..(next - 1)}
  BY DEF PlacedAreFirst
<1>6. DOMAIN position' = {Widget.children[i] : i \in 1..(next' - 1)}
  BY <1>1, <1>4, <1>5 DEF Child
<1> QED
  BY <1>2, <1>6 DEF PlacedAreFirst

LEMMA PlacedStayInOrder ==
  ASSUME TypeOK, PlacedAreFirst, PlacedInOrder, current <= Root, IsRow(Widget),
         next <= Len(Widget.children),
         NEW x \in Nat, NEW y \in Nat, position' = Placed(x, y), next' = next + 1,
         request' = request, current' = current, size' = size,
         \A c \in DOMAIN position :
           size[c].height > 0 =>
             \/ position[c].y < y
             \/ position[c].y = y /\ RightOf(position[c], c) <= x
  PROVE  PlacedInOrder'
<1> DEFINE ids == Widget.children
<1>1. /\ DOMAIN position' = DOMAIN position \cup {ids[next]}
      /\ position'[ids[next]] = [x |-> x, y |-> y]
      /\ \A c \in DOMAIN position : c # ids[next] => position'[c] = position[c]
  BY PlacedTypes DEF Child
<1>2. Widget' = Widget /\ Root' = Root /\ Tree' = Tree
  BY DEF Widget, Root, Tree, FirstIsRow, Given
<1>3. next \in Nat \ {0}
  <2>1. current \in 1..Root /\ TreeOK
    BY TypeFacts
  <2>2. Len(Widget.children) \in Nat
    BY <2>1, ChildrenComeBefore DEF Widget
  <2> QED
    BY <2>2 DEF TypeOK
<1>4. next' - 1 = next /\ \A i \in 1..next : i = next \/ i \in 1..(next - 1)
  BY <1>3
<1>5. DOMAIN position = {ids[i] : i \in 1..(next - 1)}
  BY DEF PlacedAreFirst
<1>6. SUFFICES ASSUME NEW i \in 1..next, NEW j \in 1..next, i < j,
                      \A k \in 1..next : ids[k] = ids[i] => k <= i,
                      size[ids[i]].height > 0
               PROVE  \/ position'[ids[i]].y < position'[ids[j]].y
                      \/ /\ position'[ids[i]].y = position'[ids[j]].y
                         /\ RightOf(position'[ids[i]], ids[i]) <= position'[ids[j]].x
  BY SMTT(30), <1>2, <1>4 DEF PlacedInOrder, InOrder, RightOf, Widget
<1>7. i \in 1..(next - 1)
  BY <1>3, <1>6
<1>8. ids[i] # ids[next] /\ position'[ids[i]] = position[ids[i]]
  <2>1. ids[i] # ids[next]
    BY <1>3, <1>6, <1>7
  <2> QED
    BY <2>1, <1>1, <1>5, <1>7
<1>9. CASE ids[j] = ids[next]
  BY <1>1, <1>5, <1>6, <1>7, <1>8, <1>9, SMTT(30)
<1>10. CASE ids[j] # ids[next]
  <2>1. j \in 1..(next - 1)
    BY <1>3, <1>6, <1>10
  <2>2. position'[ids[j]] = position[ids[j]]
    BY <2>1, <1>1, <1>5, <1>10
  <2>3. \A k \in 1..(next - 1) : ids[k] = ids[i] => k <= i
    BY <1>3, <1>6
  <2>4. InOrder(current, next - 1, position)
    BY DEF PlacedInOrder
  <2>5. \/ position[ids[i]].y < position[ids[j]].y
        \/ /\ position[ids[i]].y = position[ids[j]].y
           /\ RightOf(position[ids[i]], ids[i]) <= position[ids[j]].x
    BY <2>1, <2>3, <2>4, <1>6, <1>7 DEF InOrder, Widget
  <2> QED
    BY <2>2, <2>5, <1>8
<1> QED
  BY <1>9, <1>10

LEMMA PlaceInColumnOrder ==
  ASSUME Inv, OrderInv, PlaceInColumn PROVE LineInv'
<1> USE DEF OrderInv, LineInv
<1>1. /\ current <= Root /\ Widget.kind = "column" /\ next <= Len(Widget.children)
      /\ phase = "placing" /\ measured = {} /\ TypeOK
      /\ relativeX = 0 /\ relativeY \in Nat
  BY DEF PlaceInColumn, Inv, FlowInv, AboveNextLine, ExtentCovers, TypeOK
<1>2. /\ position' = Placed(0, relativeY) /\ next' = next + 1
      /\ size' = size /\ relativeX' = 0 /\ current' = current /\ request' = request
      /\ measured' = {} /\ extent' = extent /\ phase' = "placing"
  BY <1>1 DEF PlaceInColumn
<1>3. Widget' = Widget /\ Root' = Root
  BY <1>2 DEF Widget, Root, Tree, FirstIsRow, Given
<1>4. PlacedAreFirst'
  BY <1>1, <1>2, PlacedStayFirst
<1>5. BeforeCursor' /\ PlacedInOrder'
  BY <1>1, <1>3 DEF BeforeCursor, PlacedInOrder, IsRow
<1> QED
  BY <1>4, <1>5

LEMMA PlaceInRowOrder ==
  ASSUME Inv, OrderInv, PlaceInRow, size[Child].width <= MaxWidth PROVE LineInv'
<1> USE DEF OrderInv, LineInv
<1> DEFINE w == size[Child].width
           h == size[Child].height
           x == IF Wraps THEN 0 ELSE relativeX
           y == IF Wraps THEN LineBelow ELSE relativeY
<1>1. /\ current <= Root /\ IsRow(Widget) /\ next <= Len(Widget.children)
      /\ phase = "placing" /\ measured = {} /\ TypeOK
      /\ relativeX \in Nat /\ relativeY \in Nat /\ height \in Nat
  BY DEF PlaceInRow, Inv, FlowInv, ExtentCovers, TypeOK
<1>2. Child \in 1..(current - 1) /\ w \in Nat /\ h \in Nat
  BY <1>1, ChildIsDone DEF Extent
<1>3. x \in Nat /\ y \in Nat /\ y + h \in Nat
  BY <1>1, <1>2 DEF LineBelow
<1>4. /\ position' = Placed(x, y) /\ relativeX' = x + w /\ next' = next + 1
      /\ relativeY' = y /\ height' = LargerOf(height, y + h)
      /\ size' = size /\ current' = current /\ request' = request
      /\ measured' = {} /\ extent' = extent /\ phase' = "placing"
  <2>1. ~(size[Child].width > MaxWidth)
    BY <1>2, GridAssumption
  <2> QED
    BY <2>1, <1>1 DEF PlaceInRow
<1>5. /\ DOMAIN position' = DOMAIN position \cup {Child}
      /\ position'[Child] = [x |-> x, y |-> y]
      /\ \A c \in DOMAIN position : c # Child => position'[c] = position[c]
  <2> HIDE DEF x, y
  <2> QED
    BY <1>1, <1>3, <1>4, PlacedTypes
<1>6. Widget' = Widget /\ Root' = Root
  BY <1>4 DEF Widget, Root, Tree, FirstIsRow, Given
<1>7. \A c \in DOMAIN position :
        size[c].height > 0 =>
          \/ position[c].y < y
          \/ position[c].y = y /\ RightOf(position[c], c) <= x
  <2> SUFFICES ASSUME NEW c \in DOMAIN position, size[c].height > 0
               PROVE  \/ position[c].y < y
                      \/ position[c].y = y /\ RightOf(position[c], c) <= x
    OBVIOUS
  <2>1. \/ position[c].y < relativeY
        \/ position[c].y = relativeY /\ RightOf(position[c], c) <= relativeX
    BY <1>1 DEF BeforeCursor
  <2>2. position[c] \in Point /\ size[c] \in Extent
    BY <1>1, TypeFacts DEF TypeOK
  <2>3. position[c].y + size[c].height <= height
    BY <1>1 DEF Inv, FlowInv, AboveNextLine, BottomOf
  <2>4. position[c].y < height
    BY <2>2, <2>3, <1>1 DEF Point, Extent
  <2> QED
    BY <2>1, <2>4 DEF LineBelow
<1>8. BeforeCursor'
  <2> HIDE DEF x, y
  <2> SUFFICES ASSUME NEW c \in DOMAIN position', size[c].height > 0
               PROVE  \/ position'[c].y < relativeY'
                      \/ /\ position'[c].y = relativeY'
                         /\ RightOf(position'[c], c) <= relativeX'
    BY <1>4 DEF BeforeCursor, RightOf
  <2>1. CASE c = Child
    BY <2>1, <1>2, <1>3, <1>4, <1>5 DEF RightOf
  <2>2. CASE c # Child
    <3>1. c \in DOMAIN position /\ position'[c] = position[c]
      BY <2>2, <1>5
    <3>2. position[c] \in Point /\ size[c] \in Extent
      BY <3>1, <1>1, TypeFacts DEF TypeOK
    <3> QED
      BY <3>1, <3>2, <1>2, <1>3, <1>4, <1>7 DEF RightOf, Point, Extent
  <2> QED
    BY <2>1, <2>2
<1>9. PlacedAreFirst' /\ PlacedInOrder'
  <2> HIDE DEF x, y
  <2> QED
    BY <1>1, <1>3, <1>4, <1>7, PlacedStayFirst, PlacedStayInOrder
<1> QED
  BY <1>8, <1>9

LEMMA MeasureOrder == ASSUME Inv, OrderInv, Measure PROVE LineInv'
<1> USE DEF OrderInv, LineInv
<1>1. /\ UNCHANGED <<request, current, next, relativeX, relativeY, height, position, size>>
      /\ phase = "measuring" /\ phase' = "measuring"
  BY DEF Measure
<1>2. Widget' = Widget /\ Root' = Root /\ Tree' = Tree
  BY <1>1 DEF Widget, Root, Tree, FirstIsRow, Given
<1> QED
  BY <1>1, <1>2 DEF BeforeCursor, PlacedAreFirst, PlacedInOrder, InOrder, RightOf, IsRow

-----------------------------------------------------------------------------
(* A widget is done: its children are all placed, in order.                *)
LEMMA FinishInOrder ==
  ASSUME Inv, OrderInv, NEW positions, NEW sizeOf \in Extent, Finish(positions, sizeOf),
         current <= Root,
         DOMAIN positions = Children(current),
         IsRow(Widget) => InOrder(current, Len(Widget.children), positions)
  PROVE  DoneInOrder' /\ LineInv'
<1>1. /\ current \in Nat \ {0} /\ current' = current + 1 /\ phase' = "placing"
      /\ size \in Seq(Extent) /\ Len(size) = current - 1 /\ TreeOK /\ next' = 1
  BY TypeFacts DEF Finish, Inv, TypeOK
<1>2. /\ size' = Append(size, sizeOf)
      /\ layout' = [w \in 1..current |-> IF w = current THEN positions ELSE layout[w]]
      /\ position' = <<>> /\ measured' = {} /\ extent' = NoExtent /\ relativeX' = 0
      /\ request' = request
  BY DEF Finish
<1>3. /\ \A w \in 1..(current - 1) : size'[w] = size[w]
      /\ size'[current] = sizeOf
  BY <1>1, <1>2
<1>4. /\ \A w \in 1..(current - 1) : layout'[w] = layout[w]
      /\ layout'[current] = positions
      /\ 1..(current' - 1) = 1..current
      /\ \A w \in 1..current : w = current \/ w \in 1..(current - 1)
  BY <1>1, <1>2
<1>5. Tree' = Tree /\ Root' = Root
  BY <1>2 DEF Root, Tree, FirstIsRow, Given
<1>6. LineInv'
  <2>1. DOMAIN position' = {} /\ 1..(next' - 1) = {}
    BY <1>1, <1>2
  <2>2. BeforeCursor' /\ PlacedAreFirst'
    BY <1>1, <1>2, <2>1 DEF BeforeCursor, PlacedAreFirst
  <2>3. PlacedInOrder'
    BY <2>1 DEF PlacedInOrder, InOrder
  <2> QED
    BY <2>2, <2>3 DEF LineInv
<1>7. ASSUME NEW w \in 1..current
      PROVE  /\ DOMAIN layout[w]' = Children(w)'
             /\ IsRow(Tree[w])' => InOrder(w, Len(Tree[w].children), layout[w])'
  <2>1. w \in 1..Root /\ Tree'[w] = Tree[w] /\ Children(w)' = Children(w)
    BY <1>1, <1>4, <1>5 DEF TreeOK, Children
  <2>2. PICK n : n = Len(Tree[w].children)
    OBVIOUS
  <2>3. PICK placed : placed = IF w = current THEN positions ELSE layout[w]
    OBVIOUS
  <2>4. /\ DOMAIN placed = Children(w) /\ layout'[w] = placed
        /\ IsRow(Tree[w]) => InOrder(w, n, placed)
    BY <1>4, <2>2, <2>3 DEF OrderInv, DoneInOrder, Widget
  <2>5. \A i \in 1..n : size'[Tree[w].children[i]] = size[Tree[w].children[i]]
    <3>1. \A i \in 1..n : Tree[w].children[i] \in 1..(w - 1)
      BY <2>1, <2>2, <1>1, ChildrenComeBefore
    <3>2. 1..(w - 1) \subseteq 1..(current - 1)
      BY <1>1
    <3> QED
      BY <3>1, <3>2, <1>3
  <2>6. IsRow(Tree[w]) => InOrder(w, n, placed)'
    BY <2>4, <2>5, <1>5 DEF InOrder, RightOf
  <2>7. IsRow(Tree[w])' => InOrder(w, Len(Tree[w].children), layout[w])'
    BY <2>1, <2>2, <2>4, <2>6 DEF InOrder, RightOf, IsRow
  <2> QED
    BY <2>1, <2>4, <2>7
<1>8. DoneInOrder'
  BY <1>4, <1>7 DEF DoneInOrder
<1> QED
  BY <1>6, <1>8

LEMMA FinishFlowInOrder ==
  ASSUME Inv, OrderInv, FinishFlow PROVE DoneInOrder' /\ LineInv'
<1>1. /\ measured = DOMAIN position /\ Finish(position, extent) /\ phase = "measuring"
      /\ current <= Root /\ extent \in Extent /\ TypeOK
  BY DEF FinishFlow, Inv, TypeOK
<1>2. next - 1 = Len(Widget.children)
  <2>1. Len(Widget.children) \in Nat
    BY <1>1, TypeFacts, ChildrenComeBefore DEF Widget
  <2> QED
    BY <2>1, <1>1 DEF OrderInv, LineInv, PlacedAreFirst
<1>3. DOMAIN position = Children(current)
  <2>1. DOMAIN Widget.children = 1..Len(Widget.children)
    BY <1>1, TypeFacts, ChildrenComeBefore DEF Widget
  <2> QED
    BY <2>1, <1>1, <1>2 DEF OrderInv, LineInv, PlacedAreFirst, Children, Widget
<1>4. IsRow(Widget) => InOrder(current, Len(Widget.children), position)
  BY <1>1, <1>2 DEF OrderInv, LineInv, PlacedInOrder
<1> QED
  BY <1>1, <1>3, <1>4, FinishInOrder

LEMMA MeasureLeafInOrder ==
  ASSUME Inv, OrderInv, MeasureLeaf PROVE DoneInOrder' /\ LineInv'
<1> DEFINE sizeOf == [width |-> Widget.width, height |-> Widget.height]
           none == <<>>
<1>1. Finish(none, sizeOf) /\ current <= Root /\ IsLeaf(Widget)
  BY DEF MeasureLeaf
<1>2. WellFormed(current)
  BY <1>1, TypeFacts DEF Inv
<1>3. sizeOf \in Extent
  BY <1>1, <1>2 DEF WellFormed, Widget, Extent
<1>4. DOMAIN none = Children(current)
  BY <1>1, <1>2 DEF WellFormed, Widget, Children
<1>5. ~IsRow(Widget)
  BY <1>1 DEF IsRow, IsLeaf
<1> HIDE DEF none, sizeOf
<1> QED
  BY <1>1, <1>3, <1>4, <1>5, FinishInOrder

(* The other steps leave the order as it is.                               *)
LEMMA DoneOrderIsKept ==
  ASSUME DoneInOrder, UNCHANGED <<request, current, layout, size>>
  PROVE  DoneInOrder'
<1>1. Tree' = Tree /\ \A w : Children(w)' = Children(w)
  BY TreeIsKept
<1>2. ASSUME NEW w, NEW n, NEW positions, InOrder(w, n, positions)
      PROVE  InOrder(w, n, positions)'
  BY <1>1, <1>2 DEF InOrder, RightOf
<1>3. ASSUME NEW w \in 1..(current - 1)
      PROVE  /\ DOMAIN layout[w] = Children(w)
             /\ IsRow(Tree[w]) => InOrder(w, Len(Tree[w].children), layout[w])'
  <2>1. PICK positions : positions = layout[w]
    OBVIOUS
  <2>2. PICK n : n = Len(Tree[w].children)
    OBVIOUS
  <2>3. IsRow(Tree[w]) => InOrder(w, n, positions)'
    BY <1>2, <1>3, <2>1, <2>2 DEF DoneInOrder
  <2>4. DOMAIN layout[w] = Children(w)
    BY <1>3 DEF DoneInOrder
  <2> QED
    BY <1>1, <2>1, <2>2, <2>3, <2>4 DEF InOrder, RightOf
<1> QED
  BY <1>1, <1>3 DEF DoneInOrder, IsRow

LEMMA OrderIsKept ==
  ASSUME Inv, OrderInv, UNCHANGED <<request, current, flow, layout, size>>,
         phase' = "measuring" =>
           phase = "measuring" \/ (phase = "placing" /\ next > Len(Widget.children))
  PROVE  DoneInOrder' /\ LineInv'
<1>1. /\ request' = request /\ current' = current /\ layout' = layout /\ size' = size
      /\ relativeX' = relativeX /\ relativeY' = relativeY /\ height' = height
      /\ position' = position /\ measured' = measured /\ extent' = extent
      /\ next' = next
  BY DEF flow
<1>2. Widget' = Widget /\ Root' = Root /\ Tree' = Tree
  BY <1>1 DEF Widget, Root, Tree, FirstIsRow, Given
<1>3. DoneInOrder'
  BY <1>1, DoneOrderIsKept DEF OrderInv
<1>4. BeforeCursor' /\ PlacedInOrder'
  BY <1>1, <1>2 DEF OrderInv, LineInv, BeforeCursor, PlacedInOrder, InOrder, RightOf, IsRow
<1>5. phase' = "measuring" => next = Len(Widget.children) + 1
  <2> SUFFICES ASSUME phase = "placing", next > Len(Widget.children), phase' = "measuring"
               PROVE  next = Len(Widget.children) + 1
    BY DEF OrderInv, LineInv, PlacedAreFirst
  <2>1. next \in 1..(IF current <= Root THEN Len(Widget.children) + 1 ELSE 1)
    BY DEF Inv, TypeOK
  <2> QED
    BY <2>1
<1>6. PlacedAreFirst'
  BY <1>1, <1>2, <1>5 DEF OrderInv, LineInv, PlacedAreFirst
<1> QED
  BY <1>3, <1>4, <1>6 DEF LineInv
-----------------------------------------------------------------------------
(* What is under a widget is as the request says.                          *)
LEMMA UnderIsKept ==
  ASSUME request' = request
  PROVE  Tree' = Tree /\ Root' = Root /\ \A v : Under(v)' = Under(v)
<1>1. Tree' = Tree /\ Root' = Root
  BY DEF Tree, FirstIsRow, Given, Root
<1>2. \A S : HoldsChildren(S)' = HoldsChildren(S)
  BY <1>1 DEF HoldsChildren, Children
<1> QED
  BY <1>1, <1>2 DEF Under

(* Boxes replace a box only by those that show the same simple widgets.    *)
LEMMA NothingYetLost ==
  ASSUME OrderInv, UNCHANGED <<request, pending, json>>,
         phase' = "emitting" => phase = "emitting"
  PROVE  NothingIsLost'
<1>1. Tree' = Tree /\ Root' = Root /\ \A v : Under(v)' = Under(v)
  BY UnderIsKept
<1> QED
  BY <1>1 DEF OrderInv, NothingIsLost

LEMMA EmitLosesNothing == ASSUME Inv, Emit PROVE NothingIsLost'
<1>1. Tree' = Tree /\ Root' = Root /\ \A v : Under(v)' = Under(v)
  BY UnderIsKept DEF Emit
<1>2. [widget |-> Root, x |-> 0, y |-> 0] \in pending'
  BY DEF Emit
<1>3. \A w \in Under(Root) : \E b \in pending' \cup json' : w \in Under(b.widget)
  BY <1>2
<1> QED
  BY <1>1, <1>3 DEF NothingIsLost

LEMMA AddSimpleLosesNothing ==
  ASSUME OrderInv, phase = "emitting", NEW b \in pending, AddSimple(b)
  PROVE  NothingIsLost'
<1>1. Tree' = Tree /\ Root' = Root /\ \A v : Under(v)' = Under(v)
  BY UnderIsKept DEF AddSimple
<1>2. pending' \cup json' = pending \cup json
  BY DEF AddSimple
<1> QED
  BY <1>1, <1>2 DEF OrderInv, NothingIsLost

LEMMA AddSpaceLosesNothing ==
  ASSUME Inv, OrderInv, phase = "emitting", NEW b \in pending, AddSpace(b)
  PROVE  NothingIsLost'
<1>1. /\ Tree[b.widget].kind = "space" /\ pending' = pending \ {b}
      /\ request' = request /\ json' = json
  BY DEF AddSpace
<1>2. Tree' = Tree /\ Root' = Root /\ \A v : Under(v)' = Under(v)
  BY <1>1, UnderIsKept
<1>3. TreeOK /\ b.widget \in DOMAIN Tree /\ IsLeaf(Tree[b.widget])
  BY <1>1, BoxFacts, TypeFacts DEF Inv, TypeOK, TreeOK, Box, IsLeaf
<1>4. ASSUME NEW w \in Under(Root), Tree[w].kind = "simple"
      PROVE  \E d \in pending' \cup json' : w \in Under(d.widget)
  <2>1. PICK d \in pending \cup json : w \in Under(d.widget)
    BY <1>4 DEF OrderInv, NothingIsLost
  <2>2. d # b
    BY <1>1, <1>3, <1>4, <2>1, LeafHoldsItself
  <2> QED
    BY <1>1, <2>1, <2>2
<1> QED
  BY <1>2, <1>4 DEF NothingIsLost

LEMMA AddFlowLosesNothing ==
  ASSUME Inv, OrderInv, phase = "emitting", NEW b \in pending, AddFlow(b),
         ~Fail("leftmost")
  PROVE  NothingIsLost'
<1>1. /\ ~IsLeaf(Tree[b.widget]) /\ pending' = Expanded(b)
      /\ request' = request /\ json' = json
  BY DEF AddFlow
<1>2. Tree' = Tree /\ Root' = Root /\ \A v : Under(v)' = Under(v)
  BY <1>1, UnderIsKept
<1>3. /\ TreeOK /\ b.widget \in DOMAIN Tree
      /\ DOMAIN layout[b.widget] = Children(b.widget)
  BY BoxFacts, TypeFacts DEF Inv, TypeOK, TreeOK, OrderInv, DoneInOrder, Box
<1>4. ASSUME NEW w \in Under(Root), Tree[w].kind = "simple"
      PROVE  \E d \in pending' \cup json' : w \in Under(d.widget)
  <2>1. PICK d \in pending \cup json : w \in Under(d.widget)
    BY <1>4 DEF OrderInv, NothingIsLost
  <2>2. CASE d # b
    BY <2>1, <2>2, <1>1 DEF Expanded
  <2>3. CASE d = b
    <3>1. w # b.widget
      BY <1>1, <1>4 DEF IsLeaf
    <3>2. PICK c \in Children(b.widget) : w \in Under(c)
      BY <2>1, <2>3, <3>1, <1>3, UnderSomeChild
    <3>3. ChildBox(b, c) \in pending' /\ ChildBox(b, c).widget = c
      BY <3>2, <1>1, <1>3 DEF Expanded, ChildBox
    <3> QED
      BY <3>2, <3>3
  <2> QED
    BY <2>2, <2>3
<1> QED
  BY <1>2, <1>4 DEF NothingIsLost

-----------------------------------------------------------------------------
LEMMA OrderInit == Init => OrderInv
<1> SUFFICES ASSUME Init PROVE OrderInv
  OBVIOUS
<1>1. DOMAIN position = {} /\ 1..(current - 1) = {} /\ 1..(next - 1) = {} /\ measured = {}
  BY DEF Init
<1>2. DoneInOrder /\ NothingIsLost
  BY <1>1 DEF Init, DoneInOrder, NothingIsLost
<1>3. BeforeCursor /\ PlacedAreFirst
  BY <1>1 DEF Init, BeforeCursor, PlacedAreFirst
<1>4. PlacedInOrder
  BY <1>1 DEF PlacedInOrder, InOrder
<1> QED
  BY <1>2, <1>3, <1>4 DEF OrderInv, LineInv

LEMMA OrderStep == Inv /\ OrderInv /\ [Next]_vars => OrderInv'
<1> SUFFICES ASSUME Inv, OrderInv, [Next]_vars PROVE OrderInv'
  OBVIOUS
<1> DEFINE Kept == UNCHANGED <<request, current, flow, layout, size>>
<1>1. ASSUME NEW check, Fail(check) PROVE OrderInv'
  BY <1>1, OrderIsKept, NothingYetLost DEF Fail, OrderInv
<1>2. CASE Compose
  <2>1. CASE Fail("count") \/ Fail("mixed")
    BY <2>1, <1>1
  <2>2. CASE ~(Fail("count") \/ Fail("mixed"))
    <3>1. Kept /\ phase' = "placing" /\ UNCHANGED <<pending, json>>
      BY <1>2, <2>2 DEF Compose
    <3> QED
      BY <3>1, OrderIsKept, NothingYetLost DEF OrderInv
  <2> QED
    BY <2>1, <2>2
<1>3. ASSUME phase' = "placing" \/ phase' = "measuring",
             UNCHANGED <<request, pending, json>>
      PROVE  NothingIsLost'
  BY <1>3, NothingYetLost
<1>4. ASSUME UNCHANGED <<request, current, layout, size>>
      PROVE  DoneInOrder'
  BY <1>4, DoneOrderIsKept DEF OrderInv
<1>5. CASE PlaceInColumn
  <2>1. /\ UNCHANGED <<request, current, layout, size, pending, json>>
        /\ phase' = "placing"
    BY <1>5 DEF PlaceInColumn
  <2> QED
    BY <2>1, <1>3, <1>4, <1>5, PlaceInColumnOrder DEF OrderInv
<1>6. CASE PlaceInRow
  <2>1. CASE Fail("width")
    BY <2>1, <1>1
  <2>2. CASE ~Fail("width")
    <3>1. /\ UNCHANGED <<request, current, layout, size, pending, json>>
          /\ phase' = "placing" /\ ~(size[Child].width > MaxWidth)
      BY <1>6, <2>2 DEF PlaceInRow
    <3>2. size[Child] \in Extent
      BY <1>6, ChildIsDone DEF PlaceInRow, Inv
    <3>3. size[Child].width <= MaxWidth
      BY <3>1, <3>2, GridAssumption DEF Extent
    <3> QED
      BY <3>1, <3>3, <1>3, <1>4, <1>6, PlaceInRowOrder DEF OrderInv
  <2> QED
    BY <2>1, <2>2
<1>7. CASE StartMeasuring
  <2>1. /\ Kept /\ phase = "placing" /\ phase' = "measuring"
        /\ next > Len(Widget.children) /\ UNCHANGED <<pending, json>>
    BY <1>7 DEF StartMeasuring
  <2> QED
    BY <2>1, OrderIsKept, NothingYetLost DEF OrderInv
<1>8. CASE Measure
  <2>1. /\ UNCHANGED <<request, current, layout, size, pending, json>>
        /\ phase' = "measuring"
    BY <1>8 DEF Measure
  <2> QED
    BY <2>1, <1>3, <1>4, <1>8, MeasureOrder DEF OrderInv
<1>9. CASE FinishFlow
  <2>1. phase' = "placing" /\ UNCHANGED <<request, pending, json>>
    BY <1>9 DEF FinishFlow, Finish
  <2> QED
    BY <2>1, <1>3, <1>9, FinishFlowInOrder DEF OrderInv
<1>10. CASE MeasureLeaf
  <2>1. phase' = "placing" /\ UNCHANGED <<request, pending, json>>
    BY <1>10 DEF MeasureLeaf, Finish
  <2> QED
    BY <2>1, <1>3, <1>10, MeasureLeafInOrder DEF OrderInv
<1>11. CASE Emit
  <2>1. Kept /\ phase' = "emitting"
    BY <1>11 DEF Emit
  <2> QED
    BY <2>1, <1>11, EmitLosesNothing, OrderIsKept DEF OrderInv
<1>12. CASE AddWidgetJson
  <2>1. PICK b \in pending : AddSimple(b) \/ AddSpace(b) \/ AddFlow(b)
    BY <1>12 DEF AddWidgetJson
  <2>2. CASE Fail("leftmost")
    BY <2>2, <1>1
  <2>3. CASE ~Fail("leftmost")
    <3>1. phase = "emitting" /\ phase' = phase /\ Kept
      BY <1>12, <2>1, <2>3 DEF AddWidgetJson, AddSimple, AddSpace, AddFlow
    <3>2. NothingIsLost'
      BY <2>1, <2>3, <3>1, AddSimpleLosesNothing, AddSpaceLosesNothing,
         AddFlowLosesNothing
    <3> QED
      BY <3>1, <3>2, OrderIsKept DEF OrderInv
  <2> QED
    BY <2>2, <2>3
<1>13. CASE UNCHANGED vars
  <2>1. Kept /\ phase' = phase /\ UNCHANGED <<pending, json>>
    BY <1>13 DEF vars, flow
  <2> QED
    BY <2>1, OrderIsKept, NothingYetLost DEF OrderInv
<1> QED
  BY <1>2, <1>5, <1>6, <1>7, <1>8, <1>9, <1>10, <1>11, <1>12, <1>13 DEF Next

(* A row reads from left to right and down however it wraps, wherever its  *)
(* widgets take height, and addWidgetJson adds every simple widget of the  *)
(* dashboard.                                                              *)
THEOREM EveryoneIsShownInOrder == Spec => []ShownInOrder
<1>1. Inv /\ OrderInv => ReadsInOrder
  <2> SUFFICES ASSUME Inv, OrderInv PROVE ReadsInOrder
    OBVIOUS
  <2>1. TreeOK /\ DOMAIN layout = 1..(current - 1) /\ 1..(current - 1) \subseteq 1..Root
    BY TypeFacts DEF Inv, TypeOK, TreeOK
  <2>2. ASSUME NEW w \in DOMAIN layout
        PROVE  DOMAIN Tree[w].children = 1..Len(Tree[w].children)
    BY <2>1, ChildrenComeBefore
  <2> QED
    BY <2>1, <2>2 DEF OrderInv, DoneInOrder, InOrder, RightOf, ReadsInOrder
<1>2. Inv /\ OrderInv => EveryWidgetIsShown
  <2> SUFFICES ASSUME Inv, OrderInv, phase = "emitting", pending = {},
                      NEW w \in Under(Root), Tree[w].kind = "simple"
               PROVE  \E b \in json : b.widget = w
    BY DEF EveryWidgetIsShown, Finished
  <2>1. PICK b \in json : w \in Under(b.widget)
    BY DEF OrderInv, NothingIsLost
  <2>2. b.widget \in DOMAIN Tree /\ Tree[b.widget].kind = "simple" /\ TreeOK
    BY TypeFacts DEF Inv, TypeOK, Box, BoxInv, JsonIsSimple
  <2>3. w = b.widget
    BY <2>1, <2>2, LeafHoldsItself DEF IsLeaf
  <2> QED
    BY <2>3
<1>3. Inv /\ OrderInv => ShownInOrder
  BY <1>1, <1>2 DEF ShownInOrder
<1> QED
  BY <1>3, InvInit, InvStep, OrderInit, OrderStep, PTL DEF Spec

-----------------------------------------------------------------------------
(* Step scaling.                                                           *)

(* The sort.  Precedes is a total order on positions.                      *)
UpTo(steps, i) == {j \in DOMAIN steps : j = i \/ Precedes(steps, j, i)}

LEMMA StepsAreSteps ==
  ASSUME NEW steps \in Seq(ScalingStep)
  PROVE  /\ Len(steps) \in Nat
         /\ DOMAIN steps = 1..Len(steps)
         /\ \A i \in 1..Len(steps) : /\ steps[i] \in ScalingStep
                                     /\ steps[i].value \in Int
                                     /\ steps[i].adjustment \in Adjustments
<1>1. \A s \in ScalingStep : s.value \in Int /\ s.adjustment \in Adjustments
  BY DEF ScalingStep
<1> QED BY <1>1

LEMMA PrecedesIsTotal ==
  ASSUME NEW steps \in Seq(ScalingStep)
  PROVE  /\ \A i, j \in DOMAIN steps :
              i # j => Precedes(steps, i, j) \/ Precedes(steps, j, i)
         /\ \A i, j \in DOMAIN steps :
              Precedes(steps, i, j) => i # j /\ ~Precedes(steps, j, i)
         /\ \A i, j, k \in DOMAIN steps :
              Precedes(steps, i, j) /\ Precedes(steps, j, k) => Precedes(steps, i, k)
<1>1. \A i \in DOMAIN steps : i \in Int /\ steps[i].value \in Int
  BY StepsAreSteps
<1> QED BY <1>1 DEF Precedes

LEMMA PlaceFollowsOrder ==
  ASSUME NEW steps \in Seq(ScalingStep)
  PROVE  /\ \A i \in DOMAIN steps : PlaceOf(steps, i) \in DOMAIN steps
         /\ \A i, j \in DOMAIN steps :
              Precedes(steps, i, j) => PlaceOf(steps, i) < PlaceOf(steps, j)
<1>1. /\ IsFiniteSet(DOMAIN steps)
      /\ Cardinality(DOMAIN steps) = Len(steps)
  <2>1. DOMAIN steps = 1..Len(steps) /\ Len(steps) \in Nat
    BY StepsAreSteps
  <2>2. IsFiniteSet(1..Len(steps)) /\ Cardinality(1..Len(steps)) = Len(steps)
    BY <2>1, FS_Interval
  <2> QED BY <2>1, <2>2
<1>2. ASSUME NEW i \in DOMAIN steps
      PROVE  /\ IsFiniteSet(UpTo(steps, i))
             /\ PlaceOf(steps, i) = Cardinality(UpTo(steps, i))
             /\ PlaceOf(steps, i) \in 1..Len(steps)
  <2>1. UpTo(steps, i) \in SUBSET DOMAIN steps /\ UpTo(steps, i) # {}
    BY DEF UpTo
  <2>2. PlaceOf(steps, i) = Cardinality(UpTo(steps, i))
    BY DEF PlaceOf, UpTo
  <2>3. /\ IsFiniteSet(UpTo(steps, i))
        /\ Cardinality(UpTo(steps, i)) <= Len(steps)
    BY <1>1, <2>1, FS_Subset
  <2>4. Cardinality(UpTo(steps, i)) \in Nat \ {0}
    BY <2>1, <2>3, FS_CardinalityType, FS_EmptySet
  <2> QED BY <2>2, <2>3, <2>4, StepsAreSteps
<1>3. ASSUME NEW i \in DOMAIN steps, NEW j \in DOMAIN steps, Precedes(steps, i, j)
      PROVE  PlaceOf(steps, i) < PlaceOf(steps, j)
  <2>1. UpTo(steps, i) \in SUBSET UpTo(steps, j)
    BY <1>3, PrecedesIsTotal DEF UpTo
  <2>2. j \in UpTo(steps, j) /\ j \notin UpTo(steps, i)
    BY <1>3, PrecedesIsTotal DEF UpTo
  <2>3. /\ Cardinality(UpTo(steps, i)) <= Cardinality(UpTo(steps, j))
        /\ Cardinality(UpTo(steps, i)) # Cardinality(UpTo(steps, j))
    BY <1>2, <2>1, <2>2, FS_Subset
  <2> QED BY <1>2, <2>3
<1> QED BY <1>2, <1>3, StepsAreSteps

(* The sorted list is the list in another order, in which none precedes an *)
(* earlier one.                                                            *)
LEMMA SortOrders ==
  ASSUME NEW steps \in Seq(ScalingStep)
  PROVE  \E at \in [DOMAIN steps -> DOMAIN steps] :
           /\ \A k \in DOMAIN steps : SortSteps(steps)[k] = steps[at[k]]
           /\ \A k, l \in DOMAIN steps : k < l => Precedes(steps, at[k], at[l])
           /\ \A i \in DOMAIN steps : \E k \in DOMAIN steps : at[k] = i
<1> DEFINE D == DOMAIN steps
           place == [i \in D |-> PlaceOf(steps, i)]
           at == [k \in D |-> CHOOSE i \in D : PlaceOf(steps, i) = k]
<1>1. \A i, j \in D : PlaceOf(steps, i) = PlaceOf(steps, j) => i = j
  BY PlaceFollowsOrder, PrecedesIsTotal, StepsAreSteps
<1>2. place \in Injection(D, D)
  BY <1>1, PlaceFollowsOrder, Fun_IsInj
<1>3. place \in Surjection(D, D)
  BY <1>2, FS_Injection, FS_Interval, StepsAreSteps
<1>4. \A k \in D : \E i \in D : PlaceOf(steps, i) = k
  BY <1>3 DEF Surjection
<1>5. \A k \in D : at[k] \in D /\ PlaceOf(steps, at[k]) = k
  BY <1>4
<1>6. at \in [D -> D]
  BY <1>5
<1>7. \A k \in D : SortSteps(steps)[k] = steps[at[k]]
  BY DEF SortSteps
<1>8. \A k, l \in D : k < l => Precedes(steps, at[k], at[l])
  <2> SUFFICES ASSUME NEW k \in D, NEW l \in D, k < l
               PROVE  Precedes(steps, at[k], at[l])
    OBVIOUS
  <2>1. at[k] # at[l]
    BY <1>5, StepsAreSteps
  <2>2. ~Precedes(steps, at[l], at[k])
    BY <1>5, PlaceFollowsOrder, StepsAreSteps
  <2> QED BY <1>5, <2>1, <2>2, PrecedesIsTotal
<1>9. \A i \in D : at[PlaceOf(steps, i)] = i
  BY <1>1, <1>5, PlaceFollowsOrder
<1> QED BY <1>6, <1>7, <1>8, <1>9, PlaceFollowsOrder

(* Equal values lie side by side in the sorted list: if no neighbours are  *)
(* equal, the values ascend strictly.                                      *)
LEMMA SortAscends ==
  ASSUME NEW steps \in Seq(ScalingStep), steps # <<>>, steps # Undefined,
         ~HasEqualValues(SortSteps(steps))
  PROVE  LET sorted == SortSteps(steps)
         IN  /\ Len(sorted) = Len(steps) /\ DOMAIN sorted = DOMAIN steps
             /\ Len(sorted) \in Nat \ {0} /\ DOMAIN sorted = 1..Len(sorted)
             /\ \A k \in DOMAIN sorted : sorted[k] \in StepsOf(steps)
                                           /\ sorted[k].value \in Int
                                           /\ sorted[k].adjustment \in Adjustments
             /\ \A k, l \in DOMAIN sorted : k < l => sorted[k].value < sorted[l].value
             /\ \A s \in StepsOf(steps) : \E k \in DOMAIN sorted : sorted[k] = s
             /\ \A i, j \in DOMAIN steps : steps[i].value = steps[j].value => i = j
<1> DEFINE D == DOMAIN steps
           sorted == SortSteps(steps)
<1>1. /\ DOMAIN sorted = D /\ D = 1..Len(steps)
      /\ Len(sorted) = Len(steps) /\ Len(steps) \in Nat \ {0}
  <2>1. DOMAIN sorted = D /\ D = 1..Len(steps) /\ Len(steps) \in Nat
    BY StepsAreSteps DEF SortSteps
  <2>2. Len(sorted) = Len(steps)
    BY <2>1
  <2>3. Len(steps) # 0
    BY <2>1
  <2> QED BY <2>1, <2>2, <2>3
<1>2. PICK at \in [D -> D] :
           /\ \A k \in D : sorted[k] = steps[at[k]]
           /\ \A k, l \in D : k < l => Precedes(steps, at[k], at[l])
           /\ \A i \in D : \E k \in D : at[k] = i
  BY SortOrders
<1>3. \A k \in D : /\ sorted[k].value \in Int /\ sorted[k].adjustment \in Adjustments
                   /\ sorted[k] = steps[at[k]]
  BY <1>1, <1>2, StepsAreSteps
<1>u. steps # Undefined => StepsOf(steps) = {steps[i] : i \in D}
  BY DEF StepsOf
<1>4. \A k, l \in D : k < l => sorted[k].value <= sorted[l].value
  <2>1. \A i, j \in D : Precedes(steps, i, j) => steps[i].value <= steps[j].value
    BY StepsAreSteps DEF Precedes
  <2> SUFFICES ASSUME NEW k \in D, NEW l \in D, k < l
               PROVE  sorted[k].value <= sorted[l].value
    OBVIOUS
  <2>2. Precedes(steps, at[k], at[l]) /\ at[k] \in D /\ at[l] \in D
    BY <1>2
  <2>3. steps[at[k]].value <= steps[at[l]].value
    BY <2>1, <2>2
  <2> QED BY <1>3, <2>3
<1>5. \A k, l \in D : k < l => sorted[k].value < sorted[l].value
  <2> SUFFICES ASSUME NEW k \in D, NEW l \in D, k < l
               PROVE  sorted[k].value # sorted[l].value
    BY <1>3, <1>4
  <2>1. k + 1 \in 2..Len(sorted) /\ k + 1 \in D
    BY <1>1
  <2>2. sorted[k].value # sorted[k + 1].value
    BY <2>1, <1>1 DEF HasEqualValues
  <2>3. sorted[k].value < sorted[k + 1].value
    BY <1>1, <1>3, <1>4, <2>1, <2>2
  <2>4. sorted[k + 1].value <= sorted[l].value
    BY <1>1, <1>3, <1>4, <2>1
  <2> QED BY <1>3, <2>1, <2>3, <2>4
<1>6. \A i, j \in D : steps[i].value = steps[j].value => i = j
  <2> SUFFICES ASSUME NEW i \in D, NEW j \in D, steps[i].value = steps[j].value
               PROVE  i = j
    OBVIOUS
  <2>1. PICK k \in D, l \in D : at[k] = i /\ at[l] = j
    BY <1>2
  <2>2. k = l
    BY <1>1, <1>3, <1>5, <2>1
  <2> QED BY <2>1, <2>2
<1>7. \A k \in D : sorted[k] \in StepsOf(steps)
  BY <1>2, <1>3, <1>u
<1>8. \A s \in StepsOf(steps) : \E k \in D : sorted[k] = s
  <2> SUFFICES ASSUME NEW i \in D
               PROVE  \E k \in D : sorted[k] = steps[i]
    BY <1>u
  <2> QED BY <1>2, <1>3
<1> HIDE DEF sorted
<1> SUFFICES /\ Len(sorted) = Len(steps) /\ DOMAIN sorted = D
             /\ Len(sorted) \in Nat \ {0} /\ DOMAIN sorted = 1..Len(sorted)
             /\ \A k \in DOMAIN sorted : sorted[k] \in StepsOf(steps)
                                           /\ sorted[k].value \in Int
                                           /\ sorted[k].adjustment \in Adjustments
             /\ \A k, l \in DOMAIN sorted : k < l => sorted[k].value < sorted[l].value
             /\ \A s \in StepsOf(steps) : \E k \in DOMAIN sorted : sorted[k] = s
             /\ \A i, j \in D : steps[i].value = steps[j].value => i = j
  BY DEF sorted
<1> QED BY <1>1, <1>3, <1>5, <1>6, <1>7, <1>8

-----------------------------------------------------------------------------
(* What the state satisfies.  Every refusal but that of the statistic stops *)
(* all four resources; the statistic stops the policies, and with them the  *)
(* alarms, which wait for them.                                             *)
RegisteredFor ==
  (IF args.upper = Undefined THEN {} ELSE {"upperPolicy", "upperAlarm"})
    \cup
  (IF args.lower = Undefined THEN {} ELSE {"lowerPolicy", "lowerAlarm"})

RegisteredOnce ==
  /\ registered \in {{}, RegisteredFor}
  /\ step = "steps" => registered = {}

Passed ==
  /\ created # {} => ~ConversionThrows /\ ~StatisticThrows
  /\ \A kind \in created : Needs(kind) \subseteq created

Converted ==
  /\ "upperPolicy" \in created =>
       policy["upperPolicy"] = ConvertUpperSteps(args.upper)
  /\ "lowerPolicy" \in created =>
       policy["lowerPolicy"] = ConvertLowerSteps(args.lower)

ScalingInv == ScalingTypeOK /\ RegisteredOnce /\ Passed /\ Converted

LEMMA ScalingInvInit == ScalingInit => ScalingInv
<1> SUFFICES ASSUME ScalingInit
             PROVE  ScalingInv
  OBVIOUS
<1>1. ScalingTypeOK
  <2>1. failures \in 0..MaxFailures
    BY MetricAssumption DEF ScalingInit
  <2>2. DOMAIN policy = Policies
    BY DEF ScalingInit
  <2> QED BY <2>1, <2>2 DEF ScalingInit, ScalingTypeOK
<1>2. RegisteredOnce /\ Passed /\ Converted
  BY DEF ScalingInit, RegisteredOnce, Passed, Converted
<1> QED BY <1>1, <1>2 DEF ScalingInv

LEMMA ScalingInvNext == ScalingInv /\ [ScalingNext]_scalingVars => ScalingInv'
<1> SUFFICES ASSUME ScalingInv, [ScalingNext]_scalingVars
             PROVE  ScalingInv'
  OBVIOUS
<1> USE DEF ScalingInv
<1>1. CASE RegisterPolicies
  <2>1. created = {} /\ refused = {}
    BY <1>1 DEF RegisterPolicies, RegisteredOnce, ScalingTypeOK
  <2>2. registered' = RegisteredFor /\ RegisteredFor' = RegisteredFor
    BY <1>1 DEF RegisterPolicies, RegisteredFor
  <2>3. RegisteredFor \subseteq Kinds
    BY DEF RegisteredFor, Kinds, Policies
  <2>4. ScalingTypeOK'
    BY <1>1, <2>1, <2>2, <2>3 DEF RegisterPolicies, ScalingTypeOK
  <2>5. RegisteredOnce'
    BY <1>1, <2>2 DEF RegisterPolicies, RegisteredOnce
  <2>6. Passed' /\ Converted'
    BY <1>1, <2>1 DEF RegisterPolicies, Passed, Converted
  <2> QED BY <2>4, <2>5, <2>6
<1>2. CASE StepsAreKnown
  <2>1. ScalingTypeOK' /\ RegisteredOnce'
    BY <1>2 DEF StepsAreKnown, ScalingTypeOK, RegisteredOnce, RegisteredFor
  <2>2. Passed' /\ Converted'
    BY <1>2 DEF StepsAreKnown, Passed, Converted, ConversionThrows, StepsOverlap,
                StatisticThrows
  <2> QED BY <2>1, <2>2
<1>3. ASSUME NEW kind \in Kinds, Create(kind)
      PROVE  ScalingInv'
  <2>1. /\ kind \in registered \ (created \cup refused)
        /\ Needs(kind) \subseteq created
        /\ ~InputRejects(kind)
        /\ created' = created \cup {kind}
        /\ UNCHANGED <<args, step, known, registered, refused, failures>>
    BY <1>3 DEF Create, IsReady
  <2>2. kind \notin Policies => policy' = policy
    BY <1>3 DEF Create, Policies
  <2>3. DOMAIN policy' = DOMAIN policy
    BY <1>3 DEF Create
  <2>4. /\ kind = "upperPolicy" => policy'[kind] = ConvertUpperSteps(args.upper)
        /\ kind = "lowerPolicy" => policy'[kind] = ConvertLowerSteps(args.lower)
        /\ \A k \in Policies \ {kind} : policy'[k] = policy[k]
    BY <1>3 DEF Create, ScalingTypeOK, Policies
  <2>5. ScalingTypeOK'
    BY <2>1, <2>3 DEF ScalingTypeOK, Kinds
  <2>6. RegisteredOnce'
    BY <2>1 DEF RegisteredOnce, RegisteredFor
  <2>7. Passed'
    <3>1. ~ConversionThrows' /\ (StatisticThrows' <=> StatisticThrows)
      BY <2>1 DEF InputRejects, ConversionThrows, StepsOverlap, StatisticThrows
    <3>2. kind \notin Policies => created # {}
      BY <2>1 DEF Needs, Kinds, Policies
    <3>3. ~StatisticThrows
      BY <2>1, <3>2 DEF Passed, InputRejects
    <3>4. \A k \in created' : Needs(k) \subseteq created'
      BY <2>1 DEF Passed
    <3> QED BY <3>1, <3>3, <3>4 DEF Passed, Needs
  <2>8. Converted'
    BY <2>1, <2>4 DEF Converted, Policies
  <2> QED BY <2>5, <2>6, <2>7, <2>8
<1>4. ASSUME NEW kind \in Kinds, Refuse(kind)
      PROVE  ScalingInv'
  <2>1. ScalingTypeOK' /\ RegisteredOnce'
    BY <1>4, MetricAssumption
       DEF Refuse, IsReady, ScalingTypeOK, RegisteredOnce, RegisteredFor
  <2>2. Passed' /\ Converted'
    BY <1>4 DEF Refuse, Passed, Converted, ConversionThrows, StepsOverlap,
                StatisticThrows
  <2> QED BY <2>1, <2>2
<1>5. CASE UNCHANGED scalingVars
  <2>1. ScalingTypeOK' /\ RegisteredOnce'
    BY <1>5 DEF scalingVars, ScalingTypeOK, RegisteredOnce, RegisteredFor
  <2>2. Passed' /\ Converted'
    BY <1>5 DEF scalingVars, Passed, Converted, ConversionThrows, StepsOverlap,
                StatisticThrows
  <2> QED BY <2>1, <2>2
<1> QED BY <1>1, <1>2, <1>3, <1>4, <1>5 DEF ScalingNext, Engine

LEMMA ScalingInvariance == ScalingSpec => []ScalingInv
BY ScalingInvInit, ScalingInvNext, PTL DEF ScalingSpec

-----------------------------------------------------------------------------
(* The two lists of an accepted scaling.                                   *)
Accepted(steps) ==
  /\ steps \in Seq(ScalingStep)
  /\ steps # <<>>
  /\ ~HasEqualValues(SortSteps(steps))

LEMMA AcceptedLists ==
  ASSUME ScalingTypeOK, ~ConversionThrows
  PROVE  /\ args.upper # Undefined => Accepted(args.upper)
         /\ args.lower # Undefined => Accepted(args.lower)
         /\ \A s \in StepsOf(args.lower), t \in StepsOf(args.upper) : s.value < t.value
<1>1. /\ args.upper # Undefined => Accepted(args.upper)
      /\ args.lower # Undefined => Accepted(args.lower)
  BY ScalingsAssumption DEF ScalingTypeOK, ConversionThrows, ListThrows, Accepted
<1>2. ASSUME NEW s \in StepsOf(args.lower), NEW t \in StepsOf(args.upper)
      PROVE  s.value < t.value
  <2>1. args.lower # Undefined /\ args.upper # Undefined
    BY DEF StepsOf
  <2> DEFINE lower == SortSteps(args.lower)
             upper == SortSteps(args.upper)
  <2>2. /\ Len(args.lower) = Len(lower) /\ Len(lower) \in DOMAIN lower
        /\ lower[Len(lower)].value \in Int
        /\ \E k \in DOMAIN lower : lower[k] = s
        /\ \A k \in DOMAIN lower : lower[k].value <= lower[Len(lower)].value
    <3> HIDE DEF lower
    <3>1. /\ Len(args.lower) = Len(lower) /\ Len(lower) \in Nat \ {0}
          /\ DOMAIN lower = 1..Len(lower)
          /\ \A k \in DOMAIN lower : lower[k].value \in Int
          /\ \A k, l \in DOMAIN lower : k < l => lower[k].value < lower[l].value
          /\ \E k \in DOMAIN lower : lower[k] = s
      BY <1>1, <2>1, SortAscends DEF Accepted, lower
    <3> QED BY <3>1
  <2>3. /\ upper[1].value \in Int
        /\ \E k \in DOMAIN upper : upper[k] = t
        /\ \A k \in DOMAIN upper : upper[1].value <= upper[k].value
        /\ \A k \in DOMAIN upper : upper[k].value \in Int
    <3> HIDE DEF upper
    <3>1. /\ Len(upper) \in Nat \ {0}
          /\ DOMAIN upper = 1..Len(upper)
          /\ \A k \in DOMAIN upper : upper[k].value \in Int
          /\ \A k, l \in DOMAIN upper : k < l => upper[k].value < upper[l].value
          /\ \E k \in DOMAIN upper : upper[k] = t
      BY <1>1, <2>1, SortAscends DEF Accepted, upper
    <3> QED BY <3>1
  <2>4. lower[Len(lower)].value < upper[1].value
    BY <2>1, <2>2, <2>3 DEF ConversionThrows, StepsOverlap
  <2>5. s.value \in Int /\ s.value <= lower[Len(lower)].value
    <3>1. PICK k \in DOMAIN lower : lower[k] = s
      BY <2>2
    <3>2. lower[k].value \in Int
      BY <1>1, <2>1, SortAscends DEF Accepted
    <3> HIDE DEF lower
    <3> QED BY <2>2, <3>1, <3>2
  <2>6. t.value \in Int /\ upper[1].value <= t.value
    <3> HIDE DEF upper
    <3> QED BY <2>3
  <2> HIDE DEF lower, upper
  <2> QED BY <2>2, <2>3, <2>4, <2>5, <2>6
<1> QED BY <1>1, <1>2

THEOREM ScalingRefusalIsTotal == ScalingSpec => []RefusalIsTotal
<1>1. ScalingInv => RefusalIsTotal
  <2> SUFFICES ASSUME ScalingInv, created # {}
               PROVE  IsAcceptable
    BY DEF RefusalIsTotal, ScalingInv
  <2>1. ScalingTypeOK /\ ~ConversionThrows /\ ~StatisticThrows
    BY DEF ScalingInv, Passed
  <2>2. ASSUME NEW steps \in {args.upper, args.lower} \ {Undefined}
        PROVE  steps # <<>> /\ \A i, j \in DOMAIN steps :
                                 steps[i].value = steps[j].value => i = j
    <3>1. Accepted(steps) /\ steps # Undefined
      BY <2>1, AcceptedLists
    <3> QED BY <3>1, SortAscends DEF Accepted
  <2> QED BY <2>1, <2>2, AcceptedLists DEF IsAcceptable, StatisticThrows
<1> QED BY <1>1, ScalingInvariance, PTL

-----------------------------------------------------------------------------
(* What a list answers: an interval contains a value just when its step is *)
(* the last one the metric has reached.                                    *)
LEMMA UpperIntervals ==
  ASSUME NEW steps, steps # Undefined, Accepted(steps), NEW v \in Int, NEW k,
         policy[k] = ConvertUpperSteps(steps), k = "upperPolicy"
  PROVE  LET Triggered == {s \in StepsOf(steps) :
               s.value <= v /\ \A t \in StepsOf(steps) : t.value <= v => t.value <= s.value}
         IN  /\ Breaches(k, v) =>
                  {interval.adjustment : interval \in IntervalsAt(k, v)}
                    = {s.adjustment : s \in Triggered}
             /\ ~Breaches(k, v) => Triggered = {}
<1> DEFINE sorted == SortSteps(steps)
           n == Len(sorted)
           Reached(s) == s.value <= v /\ \A t \in StepsOf(steps) : t.value <= v => t.value <= s.value
           upper(i) == IF i = n THEN Undefined ELSE sorted[i + 1].value - sorted[1].value
           interval(i) == Interval(sorted[i].value - sorted[1].value, upper(i), sorted[i].adjustment)
<1>1. /\ n \in Nat \ {0} /\ DOMAIN sorted = 1..n
      /\ \A i \in 1..n : sorted[i] \in StepsOf(steps) /\ sorted[i].value \in Int
      /\ \A i, j \in 1..n : i < j => sorted[i].value < sorted[j].value
      /\ \A s \in StepsOf(steps) : \E i \in 1..n : sorted[i] = s
  BY SortAscends DEF Accepted
<1>2. /\ policy[k].threshold = sorted[1].value
      /\ policy[k].stepAdjustments = {interval(i) : i \in 1..n}
  <2>1. ConvertUpperSteps(steps) =
          [threshold |-> sorted[1].value,
           stepAdjustments |-> {interval(i) : i \in DOMAIN sorted}]
    BY DEF ConvertUpperSteps
  <2> HIDE DEF interval
  <2> QED BY <1>1, <2>1
<1> HIDE DEF sorted, n
<1>3. ASSUME NEW i \in 1..n
      PROVE  Within(interval(i), k, v - sorted[1].value) <=> Reached(sorted[i])
  <2>1. /\ interval(i).lower = sorted[i].value - sorted[1].value
        /\ interval(i).upper = upper(i)
    BY DEF Interval
  <2>2. /\ interval(i).lower \in Int /\ interval(i).lower # Undefined
        /\ i # n => upper(i) \in Int /\ upper(i) # Undefined
    BY <1>1, <2>1, BoundsAssumption
  <2>3. Within(interval(i), k, v - sorted[1].value) <=>
          /\ sorted[i].value <= v
          /\ i # n => v < sorted[i + 1].value
    BY <1>1, <2>1, <2>2, SMTT(30) DEF Within
  <2>4. ASSUME sorted[i].value <= v, i # n => v < sorted[i + 1].value
        PROVE  Reached(sorted[i])
    <3> SUFFICES ASSUME NEW j \in 1..n, sorted[j].value <= v
                 PROVE  sorted[j].value <= sorted[i].value
      BY <1>1, <2>4
    <3>1. CASE j <= i
      BY <1>1, <3>1
    <3>2. CASE j > i
      <4>1. i # n /\ i + 1 \in 1..n /\ (i + 1 = j \/ i + 1 < j)
        BY <1>1, <3>2
      <4>2. sorted[i + 1].value <= sorted[j].value
        BY <1>1, <4>1
      <4> QED BY <1>1, <2>4, <4>1, <4>2
    <3> QED BY <3>1, <3>2, <1>1
  <2>5. ASSUME Reached(sorted[i]), i # n
        PROVE  v < sorted[i + 1].value
    <3>1. i + 1 \in 1..n /\ i < i + 1
      BY <1>1, <2>5
    <3>2. sorted[i + 1] \in StepsOf(steps) /\ sorted[i].value < sorted[i + 1].value
      BY <1>1, <3>1
    <3> QED BY <1>1, <2>5, <3>1, <3>2
  <2> QED BY <2>3, <2>4, <2>5
<1>4. \A i \in 1..n : interval(i).adjustment = sorted[i].adjustment
  BY DEF Interval
<1>5. IntervalsAt(k, v) = {x \in {interval(i) : i \in 1..n} : Within(x, k, v - sorted[1].value)}
  BY <1>2 DEF IntervalsAt
<1>6. {x.adjustment : x \in IntervalsAt(k, v)} =
        {s.adjustment : s \in {t \in StepsOf(steps) : Reached(t)}}
  <2> HIDE DEF interval, Reached
  <2>1. ASSUME NEW x \in IntervalsAt(k, v)
        PROVE  \E s \in StepsOf(steps) : Reached(s) /\ s.adjustment = x.adjustment
    BY <1>1, <1>3, <1>4, <1>5, <2>1
  <2>2. ASSUME NEW s \in StepsOf(steps), Reached(s)
        PROVE  \E x \in IntervalsAt(k, v) : x.adjustment = s.adjustment
    BY <1>1, <1>3, <1>4, <1>5, <2>2
  <2> QED BY <2>1, <2>2
<1>7. ~Breaches(k, v) => \A s \in StepsOf(steps) : ~(s.value <= v)
  <2>1. Breaches(k, v) <=> v >= sorted[1].value
    BY <1>2 DEF Breaches
  <2>2. \A i \in 1..n : sorted[1].value <= sorted[i].value
    BY <1>1
  <2> QED BY <1>1, <2>1, <2>2
<1> QED BY <1>6, <1>7

LEMMA LowerIntervals ==
  ASSUME NEW steps, steps # Undefined, Accepted(steps), NEW v \in Int, NEW k,
         policy[k] = ConvertLowerSteps(steps), k = "lowerPolicy"
  PROVE  LET Triggered == {s \in StepsOf(steps) :
               s.value >= v /\ \A t \in StepsOf(steps) : t.value >= v => t.value >= s.value}
         IN  /\ Breaches(k, v) =>
                  {interval.adjustment : interval \in IntervalsAt(k, v)}
                    = {s.adjustment : s \in Triggered}
             /\ ~Breaches(k, v) => Triggered = {}
<1> DEFINE sorted == SortSteps(steps)
           n == Len(sorted)
           Reached(s) == s.value >= v /\ \A t \in StepsOf(steps) : t.value >= v => t.value >= s.value
           lower(i) == IF i = 1 THEN Undefined ELSE sorted[i - 1].value - sorted[n].value
           interval(i) == Interval(lower(i), sorted[i].value - sorted[n].value, sorted[i].adjustment)
<1>1. /\ n \in Nat \ {0} /\ DOMAIN sorted = 1..n
      /\ \A i \in 1..n : sorted[i] \in StepsOf(steps) /\ sorted[i].value \in Int
      /\ \A i, j \in 1..n : i < j => sorted[i].value < sorted[j].value
      /\ \A s \in StepsOf(steps) : \E i \in 1..n : sorted[i] = s
  BY SortAscends DEF Accepted
<1>2. /\ policy[k].threshold = sorted[n].value
      /\ policy[k].stepAdjustments = {interval(i) : i \in 1..n}
  <2>1. ConvertLowerSteps(steps) =
          [threshold |-> sorted[n].value,
           stepAdjustments |-> {interval(i) : i \in DOMAIN sorted}]
    BY DEF ConvertLowerSteps
  <2> HIDE DEF interval
  <2> QED BY <1>1, <2>1
<1> HIDE DEF sorted, n
<1>3. ASSUME NEW i \in 1..n
      PROVE  Within(interval(i), k, v - sorted[n].value) <=> Reached(sorted[i])
  <2>1. /\ interval(i).lower = lower(i)
        /\ interval(i).upper = sorted[i].value - sorted[n].value
    BY DEF Interval
  <2>2. /\ interval(i).upper \in Int /\ interval(i).upper # Undefined
        /\ i # 1 => lower(i) \in Int /\ lower(i) # Undefined
    BY <1>1, <2>1, BoundsAssumption
  <2>3. Within(interval(i), k, v - sorted[n].value) <=>
          /\ v <= sorted[i].value
          /\ i # 1 => sorted[i - 1].value < v
    BY <1>1, <2>1, <2>2, SMTT(30) DEF Within
  <2>4. ASSUME v <= sorted[i].value, i # 1 => sorted[i - 1].value < v
        PROVE  Reached(sorted[i])
    <3> SUFFICES ASSUME NEW j \in 1..n, sorted[j].value >= v
                 PROVE  sorted[j].value >= sorted[i].value
      BY <1>1, <2>4
    <3>1. CASE j >= i
      BY <1>1, <3>1
    <3>2. CASE j < i
      <4>1. i # 1 /\ i - 1 \in 1..n /\ (i - 1 = j \/ j < i - 1)
        BY <1>1, <3>2
      <4>2. sorted[j].value <= sorted[i - 1].value
        BY <1>1, <4>1
      <4> QED BY <1>1, <2>4, <4>1, <4>2
    <3> QED BY <3>1, <3>2, <1>1
  <2>5. ASSUME Reached(sorted[i]), i # 1
        PROVE  sorted[i - 1].value < v
    <3>1. i - 1 \in 1..n /\ i - 1 < i
      BY <1>1, <2>5
    <3>2. sorted[i - 1] \in StepsOf(steps) /\ sorted[i - 1].value < sorted[i].value
      BY <1>1, <3>1
    <3> QED BY <1>1, <2>5, <3>1, <3>2
  <2> QED BY <1>1, <2>3, <2>4, <2>5
<1>4. \A i \in 1..n : interval(i).adjustment = sorted[i].adjustment
  BY DEF Interval
<1>5. IntervalsAt(k, v) = {x \in {interval(i) : i \in 1..n} : Within(x, k, v - sorted[n].value)}
  BY <1>2 DEF IntervalsAt
<1>6. {x.adjustment : x \in IntervalsAt(k, v)} =
        {s.adjustment : s \in {t \in StepsOf(steps) : Reached(t)}}
  <2> HIDE DEF interval, Reached
  <2>1. ASSUME NEW x \in IntervalsAt(k, v)
        PROVE  \E s \in StepsOf(steps) : Reached(s) /\ s.adjustment = x.adjustment
    BY <1>1, <1>3, <1>4, <1>5, <2>1
  <2>2. ASSUME NEW s \in StepsOf(steps), Reached(s)
        PROVE  \E x \in IntervalsAt(k, v) : x.adjustment = s.adjustment
    BY <1>1, <1>3, <1>4, <1>5, <2>2
  <2> QED BY <2>1, <2>2
<1>7. ~Breaches(k, v) => \A s \in StepsOf(steps) : ~(s.value >= v)
  <2>1. Breaches(k, v) <=> v <= sorted[n].value
    BY <1>2 DEF Breaches
  <2>2. \A i \in 1..n : sorted[i].value <= sorted[n].value
    BY <1>1
  <2> QED BY <1>1, <2>1, <2>2
<1> QED BY <1>6, <1>7

(* What each of the two alarms answers, when all that was asked for exists. *)
LEMMA UpperAnswers ==
  ASSUME ScalingInv, registered # {}, registered \subseteq created, NEW v \in Int
  PROVE  {r \in Responses(v) : r[1] = "upperPolicy"} =
           {<<"upperPolicy", s.adjustment>> : s \in TriggeredUpper(v)}
<1> DEFINE k == "upperPolicy"
           answers == {<<k, x.adjustment>> : x \in IntervalsAt(k, v)}
<1>1. {r \in Responses(v) : r[1] = k} = IF k \in Fired(v) THEN answers ELSE {}
  BY DEF Responses, Fired, Policies
<1>2. registered = RegisteredFor /\ created = registered
  BY DEF ScalingInv, RegisteredOnce, ScalingTypeOK
<1>3. CASE args.upper = Undefined
  <2>1. k \notin Fired(v)
    BY <1>2, <1>3 DEF Fired, RegisteredFor
  <2>2. TriggeredUpper(v) = {}
    BY <1>3 DEF TriggeredUpper, StepsOf
  <2> QED BY <1>1, <2>1, <2>2
<1>4. CASE args.upper # Undefined
  <2>1. k \in created /\ AlarmOf(k) \in created
    BY <1>2, <1>4 DEF RegisteredFor, AlarmOf
  <2>2. Accepted(args.upper)
    BY <1>4, <2>1, AcceptedLists DEF ScalingInv, Passed
  <2>3. policy[k] = ConvertUpperSteps(args.upper)
    BY <2>1 DEF ScalingInv, Converted
  <2>4. /\ Breaches(k, v) => {x.adjustment : x \in IntervalsAt(k, v)}
                                = {s.adjustment : s \in TriggeredUpper(v)}
        /\ ~Breaches(k, v) => TriggeredUpper(v) = {}
    BY <1>4, <2>2, <2>3, UpperIntervals DEF TriggeredUpper
  <2>5. k \in Fired(v) <=> Breaches(k, v)
    BY <2>1 DEF Fired, Policies
  <2>6. {x.adjustment : x \in IntervalsAt(k, v)} = {s.adjustment : s \in TriggeredUpper(v)}
          => answers = {<<k, s.adjustment>> : s \in TriggeredUpper(v)}
    OBVIOUS
  <2> QED BY <1>1, <2>4, <2>5, <2>6
<1> QED BY <1>3, <1>4

LEMMA LowerAnswers ==
  ASSUME ScalingInv, registered # {}, registered \subseteq created, NEW v \in Int
  PROVE  {r \in Responses(v) : r[1] = "lowerPolicy"} =
           {<<"lowerPolicy", s.adjustment>> : s \in TriggeredLower(v)}
<1> DEFINE k == "lowerPolicy"
           answers == {<<k, x.adjustment>> : x \in IntervalsAt(k, v)}
<1>1. {r \in Responses(v) : r[1] = k} = IF k \in Fired(v) THEN answers ELSE {}
  BY DEF Responses, Fired, Policies
<1>2. registered = RegisteredFor /\ created = registered
  BY DEF ScalingInv, RegisteredOnce, ScalingTypeOK
<1>3. CASE args.lower = Undefined
  <2>1. k \notin Fired(v)
    BY <1>2, <1>3 DEF Fired, RegisteredFor
  <2>2. TriggeredLower(v) = {}
    BY <1>3 DEF TriggeredLower, StepsOf
  <2> QED BY <1>1, <2>1, <2>2
<1>4. CASE args.lower # Undefined
  <2>1. k \in created /\ AlarmOf(k) \in created
    BY <1>2, <1>4 DEF RegisteredFor, AlarmOf
  <2>2. Accepted(args.lower)
    BY <1>4, <2>1, AcceptedLists DEF ScalingInv, Passed
  <2>3. policy[k] = ConvertLowerSteps(args.lower)
    BY <2>1 DEF ScalingInv, Converted
  <2>4. /\ Breaches(k, v) => {x.adjustment : x \in IntervalsAt(k, v)}
                                = {s.adjustment : s \in TriggeredLower(v)}
        /\ ~Breaches(k, v) => TriggeredLower(v) = {}
    BY <1>4, <2>2, <2>3, LowerIntervals DEF TriggeredLower
  <2>5. k \in Fired(v) <=> Breaches(k, v)
    BY <2>1 DEF Fired, Policies
  <2>6. {x.adjustment : x \in IntervalsAt(k, v)} = {s.adjustment : s \in TriggeredLower(v)}
          => answers = {<<k, s.adjustment>> : s \in TriggeredLower(v)}
    OBVIOUS
  <2> QED BY <1>1, <2>4, <2>5, <2>6
<1> QED BY <1>3, <1>4

(* A value triggers at most one step: one of each list, and not both.      *)
LEMMA OneIsTriggered ==
  ASSUME ScalingInv, created # {}, NEW v \in Int
  PROVE  /\ \A s, t \in TriggeredUpper(v) : s = t
         /\ \A s, t \in TriggeredLower(v) : s = t
         /\ TriggeredUpper(v) = {} \/ TriggeredLower(v) = {}
<1>1. ScalingTypeOK /\ ~ConversionThrows
  BY DEF ScalingInv, Passed
<1>2. ASSUME NEW steps, steps = args.upper \/ steps = args.lower,
             NEW s \in StepsOf(steps), NEW t \in StepsOf(steps)
      PROVE  s.value \in Int /\ t.value \in Int /\ (s.value = t.value => s = t)
  <2>1. steps # Undefined
    BY DEF StepsOf
  <2>2. Accepted(steps)
    BY <1>1, <1>2, <2>1, AcceptedLists
  <2>3. PICK i \in DOMAIN steps, j \in DOMAIN steps : s = steps[i] /\ t = steps[j]
    BY <2>1 DEF StepsOf
  <2>4. s.value = t.value => i = j
    BY <2>1, <2>2, <2>3, SortAscends DEF Accepted
  <2> QED BY <2>2, <2>3, <2>4, StepsAreSteps DEF Accepted
<1>3. \A s, t \in TriggeredUpper(v) : s = t
  BY <1>2 DEF TriggeredUpper
<1>4. \A s, t \in TriggeredLower(v) : s = t
  BY <1>2 DEF TriggeredLower
<1>5. ASSUME NEW s \in TriggeredLower(v), NEW t \in TriggeredUpper(v)
      PROVE  FALSE
  <2>1. s \in StepsOf(args.lower) /\ t \in StepsOf(args.upper)
          /\ s.value >= v /\ t.value <= v
    BY DEF TriggeredLower, TriggeredUpper
  <2>2. s.value < t.value /\ s.value \in Int /\ t.value \in Int
    BY <1>1, <1>2, <2>1, AcceptedLists
  <2> QED BY <2>1, <2>2
<1> QED BY <1>3, <1>4, <1>5

THEOREM ScalingAnswersWithTheStep == ScalingSpec => []AnswerIsTheStep
<1>1. ScalingInv => AnswerIsTheStep
  <2> SUFFICES ASSUME ScalingInv, registered # {}, registered \subseteq created,
                      NEW v \in Metric
               PROVE  /\ Responses(v) =
                           {<<"upperPolicy", s.adjustment>> : s \in TriggeredUpper(v)}
                             \cup {<<"lowerPolicy", s.adjustment>> : s \in TriggeredLower(v)}
                      /\ Cardinality(Responses(v)) <= 1
    BY DEF AnswerIsTheStep
  <2>1. v \in Int
    BY MetricAssumption
  <2>2. \A r \in Responses(v) : r[1] = "upperPolicy" \/ r[1] = "lowerPolicy"
    BY DEF Responses, Fired, Policies
  <2>3. Responses(v) = {<<"upperPolicy", s.adjustment>> : s \in TriggeredUpper(v)}
                         \cup {<<"lowerPolicy", s.adjustment>> : s \in TriggeredLower(v)}
    BY <2>1, <2>2, UpperAnswers, LowerAnswers
  <2>4. \A q, r \in Responses(v) : q = r
    BY <2>1, <2>3, OneIsTriggered
  <2>5. Responses(v) = {} \/ \E r : Responses(v) = {r}
    BY <2>4
  <2>6. Cardinality(Responses(v)) \in {0, 1}
    BY <2>5, FS_EmptySet, FS_Singleton
  <2> QED BY <2>3, <2>6
<1> QED BY <1>1, ScalingInvariance, PTL
=============================================================================
