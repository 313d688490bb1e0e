---------------------------- MODULE MCVpcNetwork ----------------------------
(* Instances of VpcNetwork for TLC: one zone, with everything that can be  *)
(* refused or fail, and two zones, with every way to share gateways.       *)
EXTENDS VpcNetwork

(* What a configuration varies in beyond its types, NAT strategy and       *)
(* number of addresses.                                                    *)
Plain(azCount, types, nat, supplied, promptVpc, promptSpecs, layoutOk) ==
  [azCount |-> azCount, types |-> types, nat |-> nat, eips |-> supplied,
   promptVpc |-> promptVpc, promptSpecs |-> promptSpecs, layoutOk |-> layoutOk,
   ipv6 |-> FALSE, assign |-> [s \in DOMAIN types |-> FALSE],
   endpoint |-> "none"]

Prompts == {<<TRUE, TRUE>>, <<FALSE, TRUE>>, <<FALSE, FALSE>>}
Nats == {"none", "single", "oneperaz"}

OneZoneTypes ==
  {<<"private", "public">>, <<"private">>, <<"isolated", "private">>,
   <<"unused", "isolated", "public">>, <<"private", "public", "public">>}

OneZone ==
  {Plain(1, t, nat, e, p[1], p[2], ok) :
     t \in OneZoneTypes, nat \in Nats, e \in 0..2, p \in Prompts, ok \in BOOLEAN}

Ipv6(n, p) ==
  {[Plain(n, <<"private", "public">>, "none", 0, p[1], p[2], TRUE)
      EXCEPT !.ipv6 = v, !.assign = a] : v \in BOOLEAN, a \in [1..2 -> BOOLEAN]}

OneZoneConfigs == OneZone \cup UNION {Ipv6(1, p) : p \in Prompts}

Endpoints(types) ==
  {[Plain(2, types, "none", 0, TRUE, TRUE, TRUE) EXCEPT !.endpoint = e] :
     e \in {"interface", "gateway"}}

TwoZonesOf(nat, p) ==
  {Plain(2, <<"private", "public">>, nat, e, p[1], p[2], TRUE) : e \in 0..2}

TwoZones ==
  TwoZonesOf("single", <<TRUE, TRUE>>) \cup TwoZonesOf("oneperaz", <<FALSE, FALSE>>)

TwoZoneConfigs ==
  TwoZones \cup Ipv6(2, <<FALSE, FALSE>>)
    \cup Endpoints(<<"isolated", "public">>)
    \cup Endpoints(<<"private", "private">>)

MCConfigs == OneZoneConfigs \cup TwoZoneConfigs
=============================================================================
