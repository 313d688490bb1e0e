------------------------- MODULE MCDashboardLayout -------------------------
(* Instances of DashboardLayout for TLC: a grid of four columns.           *)
EXTENDS DashboardLayout

Lists(inputs, m, n) == UNION {[1..k -> inputs] : k \in m..n}

SimpleOf(w, h) == [kind |-> "simple", width |-> w, height |-> h, children |-> <<>>]
SpaceOf(w, h) == [kind |-> "space", width |-> w, height |-> h, children |-> <<>>]

(* A space may be wider than the grid, or take no height.                  *)
Second == {SimpleOf(1, 2), SimpleOf(2, 1), SimpleOf(3, 1), SpaceOf(1, 2)}
Third == {SimpleOf(2, 1), SimpleOf(4, 2), SpaceOf(3, 0), SpaceOf(5, 1)}

AllAreHeld(r) == \A w \in DOMAIN r.widgets : IsHeld(r, w)

(* Three leaves, a column or row of some of them, and a row or column of   *)
(* that and of some more.                                                  *)
Nested ==
  {r \in {[widgets |-> <<SimpleOf(1, 3), b, c, Flow(k, inner), Flow(l, outer)>>,
           top |-> top] :
            b \in Second, c \in Third, k, l \in {"row", "column"},
            inner \in {<<>>, <<1, 2>>, <<2, 3>>, <<3, 2>>, <<2, 2>>},
            outer \in {<<4>>, <<1, 4>>, <<4, 1>>, <<3, 4>>, <<1, 3, 4>>},
            top \in {<<5>>, <<5, 4>>, <<1, 5>>, <<3, 5>>, <<5, 3, 1>>, <<5, 1, 2, 3>>}} :
     AllAreHeld(r)}

(* Rows of leaves.                                                         *)
Flat ==
  {r \in {[widgets |-> ws, top |-> top] :
            ws \in {<<>>, <<SimpleOf(1, 2), SimpleOf(2, 1), SimpleOf(3, 3)>>,
                   <<SimpleOf(1, 2), SpaceOf(2, 0), SimpleOf(3, 3)>>,
                   <<SpaceOf(4, 0), SimpleOf(2, 1)>>, <<SpaceOf(0, 0)>>},
            top \in Lists({1, 2, 3}, 0, 4)} :
     /\ \A i \in DOMAIN r.top : r.top[i] \in DOMAIN r.widgets
     /\ AllAreHeld(r)}

MCRequests == Nested \cup Flat
=============================================================================
