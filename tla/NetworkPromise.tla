--------------------------- MODULE NetworkPromise ---------------------------
(***************************************************************************)
(* What the Vpc component promises of the network it builds, whatever the  *)
(* order in which resources come up: the layout is judged once; subnets    *)
(* are built only when it is accepted; and a subnet is connected to the    *)
(* outside only after it has been built, a public one directly and a       *)
(* private one by way of a public subnet that is there already.            *)
(***************************************************************************)
CONSTANT Internet

VARIABLES
  verdict,  \* on the layout
  built,    \* the subnets that exist: [az, spec, type]
  egress    \* subnet -> Internet, or the public subnet it leaves through

vars == <<verdict, built, egress>>

Init ==
  /\ verdict = "pending"
  /\ built = {}
  /\ egress = [s \in {} |-> Internet]

Judge ==
  /\ verdict = "pending"
  /\ verdict' \in {"accepted", "refused"}
  /\ UNCHANGED <<built, egress>>

Build ==
  /\ verdict = "accepted"
  /\ \E s \in built' \ built : built' = built \cup {s}
  /\ UNCHANGED <<verdict, egress>>

MayLeaveThrough(s, g) ==
  \/ s.type = "public" /\ g = Internet
  \/ s.type = "private" /\ g \in built /\ g.type = "public"

Connect ==
  /\ \E s \in built \ DOMAIN egress :
       /\ DOMAIN egress' = DOMAIN egress \cup {s}
       /\ MayLeaveThrough(s, egress'[s])
       /\ \A t \in DOMAIN egress : egress'[t] = egress[t]
  /\ UNCHANGED <<verdict, built>>

Next == Judge \/ Build \/ Connect

Spec == Init /\ [][Next]_vars
=============================================================================
