------------------------- MODULE MCClassicTopology -------------------------
(* Instances of ClassicTopology for TLC: a space of 2^8 addresses, in      *)
(* which the limits 16 and 28 on a mask are 2 and 6.                       *)
EXTENDS ClassicTopology

MCBlockSize == [m \in 0..Width |-> 2^(Width - m)]

Lists(inputs, n) == UNION {[1..k -> inputs] : k \in 0..n}

(* Distinct names, as the engine asks for.                                 *)
NameAt == <<Undefined, "n2", "n3", "n4", "n5", "n6">>
Named(list) == [i \in DOMAIN list |-> [list[i] EXCEPT !.name = NameAt[i]]]

Computed ==
  [type : {"public", "private"}, name : {Undefined},
   cidrMask : {Undefined, 1, 2, 3, 4, 6}, location : {Undefined}]
Located1 ==
  [type : {"public", "private"}, name : {Undefined}, cidrMask : {Undefined},
   location : [zone : {Undefined, 1, 2, 3}]]
Mixed ==
  [type : {"public"}, name : {Undefined}, cidrMask : {Undefined, 4},
   location : {Undefined, [zone |-> 1]}]

(* Two public subnets anywhere, and private ones in three zones.           *)
At(type, zone) ==
  [type |-> type, name |-> Undefined, cidrMask |-> Undefined,
   location |-> [zone |-> zone]]
ThreePrivateZones ==
  {<<At("public", y), At("public", z), At("private", 2), At("private", 1),
     At("private", 3), At("private", w)>> : w, y, z \in {Undefined, 1, 2, 3, 4}}

RequestsFor(lists, azCounts, gatewayCounts, vpcs) ==
  [vpc : vpcs, azCount : azCounts, numberOfNatGateways : gatewayCounts,
   subnets : {Named(l) : l \in lists}]

MCRequests ==
  RequestsFor(Lists(Computed, 2), 1..2, 0..3,
              {[base |-> 0, mask |-> 1], [base |-> 128, mask |-> 1], [base |-> 64, mask |-> 3]})
    \cup RequestsFor({<<x, [type |-> "private", name |-> Undefined,
                            cidrMask |-> Undefined, location |-> Undefined], y>> :
                        x, y \in {c \in Computed : c.cidrMask \in {Undefined, 4, 6}}},
                     {3}, 1..3, {[base |-> 0, mask |-> 1]})
    \cup RequestsFor(Lists(Located1, 4), {3}, 0..3, {[base |-> 0, mask |-> 1]})
    \cup RequestsFor(ThreePrivateZones, {4}, 1..4, {[base |-> 0, mask |-> 1]})
    \cup RequestsFor(Lists(Mixed, 2), {1}, {1}, {[base |-> 0, mask |-> 1]})
=============================================================================
