-------------------------- MODULE ClassicTopology --------------------------
(***************************************************************************)
(* The layout of a VPC of awsx-classic: vpcTopology.create describes the   *)
(* subnets, the NAT gateways and the routes to them, and partition looks   *)
(* the names up as it registers them.  Subnets without a location are      *)
(* placed end to end, those with a cidrMask first; subnets with one keep   *)
(* what it says.                                                           *)
(*                                                                         *)
(* A zone is a number that orders like its name; a location that is only a *)
(* cidr has none.  A location's cidr is left out: nothing computes with    *)
(* it.  Addresses of a VPC above 127.255.255.255 are negative in the code, *)
(* which shifts them all alike.                                            *)
(***************************************************************************)
EXTENDS AddressBlocks, Sequences, FiniteSets

CONSTANTS
  Requests,     \* the calls considered
  Names, Zones,
  SubnetMasks,  \* 16..28
  Undefined

Types == {"public", "private", "isolated"}
Optional(S) == S \cup {Undefined}

(* location: Undefined, or the zone it gives.                              *)
SubnetArgs ==
  [type : Types, name : Optional(Names), cidrMask : Optional(Masks),
   location : Optional([zone : Optional(Zones)])]

Request ==
  [vpc : Block, azCount : Nat \ {0}, numberOfNatGateways : Nat,
   subnets : Seq(SubnetArgs)]

(* fromCidrNotation clears the bits behind the mask.                       *)
ASSUME TopologyRequestAssumption ==
  Requests \subseteq {r \in Request : r.vpc.base % BlockSize[r.vpc.mask] = 0}

(* The engine refuses a second subnet of one name.                         *)
ASSUME SubnetNamesAssumption ==
  \A r \in Requests : \A i, j \in DOMAIN r.subnets :
    LET s == r.subnets[i]
        t == r.subnets[j]
    IN  i # j /\ s.name = t.name =>
          IF s.location = Undefined THEN s.type # t.type ELSE s.name = Undefined

ASSUME SubnetMasksAssumption ==
  /\ SubnetMasks \subseteq Masks
  /\ Zones \subseteq Nat \ {0}

Failures == {"location", "mask", "room", "split", "count", "name"}

ASSUME UndefinedAssumption == Undefined \notin Nat \cup Failures

VARIABLES
  request,
  phase,      \* "called", "describing", "gateways", "routes", "built", "failed"
  failure,    \* which check threw
  subnets,    \* subnetDescriptions: [name, type, zone, block]
  splitMask,  \* cidrMaskForUnmaskedSubnets
  visited,    \* how many zones the loop over the gateways has seen
  gateways,   \* natGateways: [publicSubnet, zone], number i - 1 at i
  routes,     \* natRoutes: [privateSubnet, natGateway]
  turn        \* roundRobinIndex

vars == <<request, phase, failure, subnets, splitMask, visited, gateways,
          routes, turn>>

-----------------------------------------------------------------------------
IsExplicit == request.subnets[1].location # Undefined

AzCount == request.azCount

(* The k-th number of a set.                                               *)
KthOf(S, k) == CHOOSE i \in S : Cardinality({j \in S : j <= i}) = k
FirstOf(S) == KthOf(S, 1)

(* The numbers of the subnets of a type, of the subnets that state a mask. *)
OfType(type) == {i \in DOMAIN subnets : subnets[i].type = type}
PublicSubnets == OfType("public")
PrivateSubnets == OfType("private")

IsMasked(s) == s.cidrMask # Undefined
MaskedSubnets == {i \in DOMAIN request.subnets : IsMasked(request.subnets[i])}
UnmaskedSubnets == DOMAIN request.subnets \ MaskedSubnets

(* The order of the descriptions, each of them in every zone.              *)
Ordered(k) ==
  LET masked == Cardinality(MaskedSubnets)
  IN  request.subnets[IF k <= masked THEN KthOf(MaskedSubnets, k)
                      ELSE KthOf(UnmaskedSubnets, k - masked)]

(* A name, by what it is made of.                                          *)
NameOf(s, i) ==
  IF IsExplicit /\ s.name # Undefined
  THEN [given |-> s.name, type |-> Undefined, index |-> Undefined]
  ELSE [given |-> s.name, type |-> s.type, index |-> i]

(* Where the next block starts, and the block that starts there: its       *)
(* address need not be a multiple of its size.                             *)
NextStart ==
  IF subnets = <<>> THEN request.vpc.base ELSE End(subnets[Len(subnets)].block)
NextBlockAt(mask) == [base |-> NextStart, mask |-> mask]

(* computeCidrMaskForSubnets: the masks whose blocks would fit.            *)
AvailableIps == End(request.vpc) - NextStart
RequiredCidrBlockCount == Cardinality(UnmaskedSubnets) * AzCount
MasksRoundedUp ==
  {m \in Masks : BlockSize[m] \div 2 <= AvailableIps \div RequiredCidrBlockCount}
FittingMasks ==
  {m \in Masks : BlockSize[m] <= AvailableIps \div RequiredCidrBlockCount}
SplitMask == CHOOSE m \in FittingMasks : \A n \in FittingMasks : m <= n
TooSmallToSplit == \A m \in FittingMasks : \A n \in SubnetMasks : m > n

ShouldCreateNatGateways ==
  /\ request.numberOfNatGateways > 0
  /\ PublicSubnets # {}
  /\ PrivateSubnets # {}

-----------------------------------------------------------------------------
Init ==
  /\ request \in Requests
  /\ phase = "called"
  /\ failure = Undefined
  /\ subnets = <<>>
  /\ splitMask = Undefined
  /\ visited = 0
  /\ gateways = <<>>
  /\ routes = <<>>
  /\ turn = 0

Fail(check) ==
  /\ phase' = "failed"
  /\ failure' = check
  /\ UNCHANGED <<subnets, splitMask, visited, gateways, routes, turn>>

GoTo(next) ==
  /\ phase' = next
  /\ UNCHANGED <<failure, subnets, splitMask, visited, gateways, routes, turn>>

Located == {i \in DOMAIN request.subnets : request.subnets[i].location # Undefined}

(* All subnets have a location or none has, and a location excludes a      *)
(* mask.  An empty array has no first subnet to look at.                   *)
CheckLocations ==
  /\ phase = "called"
  /\ IF \/ request.subnets = <<>>
        \/ Located \notin {{}, DOMAIN request.subnets}
        \/ \E i \in Located : IsMasked(request.subnets[i])
     THEN Fail("location")
     ELSE GoTo("describing")

(* assignNextAvailableCidrBlock, in createSubnetsWorker's loop over zones. *)
PlaceSubnet ==
  /\ phase = "describing" /\ ~IsExplicit
  /\ Len(subnets) < Len(request.subnets) * AzCount
  /\ LET s == Ordered((Len(subnets) \div AzCount) + 1)
         i == Len(subnets) % AzCount
         mask == IF IsMasked(s) THEN s.cidrMask ELSE splitMask
     IN /\ mask # Undefined
        /\ IF mask \notin SubnetMasks THEN Fail("mask")
           ELSE IF End(NextBlockAt(mask)) > End(request.vpc) THEN Fail("room")
           ELSE /\ subnets' =
                     Append(subnets, [name |-> NameOf(s, i), type |-> s.type,
                                      zone |-> i + 1, block |-> NextBlockAt(mask)])
                /\ UNCHANGED <<phase, failure, splitMask, visited, gateways,
                               routes, turn>>

SplitRemainder ==
  /\ phase = "describing" /\ ~IsExplicit
  /\ splitMask = Undefined
  /\ UnmaskedSubnets # {}
  /\ Len(subnets) = Cardinality(MaskedSubnets) * AzCount
  /\ IF TooSmallToSplit
     THEN Fail("split")
     ELSE /\ splitMask' = SplitMask
          /\ UNCHANGED <<phase, failure, subnets, visited, gateways, routes, turn>>

(* ExplicitLocationTopology: one subnet per argument.                      *)
DescribeSubnet ==
  /\ phase = "describing" /\ IsExplicit
  /\ Len(subnets) < Len(request.subnets)
  /\ LET s == request.subnets[Len(subnets) + 1]
     IN subnets' =
          Append(subnets, [name |-> NameOf(s, Len(subnets)), type |-> s.type,
                           zone |-> s.location.zone, block |-> Undefined])
  /\ UNCHANGED <<phase, failure, splitMask, visited, gateways, routes, turn>>

(* The subnets are described: are there to be gateways?                    *)
PlanGateways ==
  /\ phase = "describing"
  /\ Len(subnets) = Len(request.subnets) * (IF IsExplicit THEN 1 ELSE AzCount)
  /\ IF ~ShouldCreateNatGateways THEN GoTo("routes")
     ELSE IF ~IsExplicit /\ request.numberOfNatGateways > AzCount
     THEN Fail("count")
     ELSE GoTo("gateways")

-----------------------------------------------------------------------------
(* NAT gateways.                                                           *)
ZonesOf(numbers) == {subnets[i].zone : i \in numbers}

(* sort(), which leaves undefined to the end.                              *)
KthAz(zones, k) ==
  IF k <= Cardinality(zones \ {Undefined}) THEN KthOf(zones \ {Undefined}, k)
  ELSE Undefined

PublicIn(zone) == {i \in PublicSubnets : subnets[i].zone = zone}

(* azToPublicSubnets[zone][0] of each zone.                                *)
FirstOfZones == {FirstOf(PublicIn(zone)) : zone \in ZonesOf(PublicSubnets)}

HasGateway(s) == \E i \in DOMAIN gateways : gateways[i].publicSubnet = s.name
Free == {i \in FirstOfZones : ~HasGateway(subnets[i])}

Gateway(s, zone) == [publicSubnet |-> s.name, zone |-> zone]

(* The public subnets for the gateway of a zone; the first of them is it.  *)
CandidatesFor(zone) ==
  IF PublicIn(zone) # {} THEN PublicIn(zone) ELSE Free

(* The zones in the order in which they get gateways.                      *)
ZoneCount == IF IsExplicit THEN Cardinality(ZonesOf(PrivateSubnets)) ELSE AzCount
GatewayZone(k) == IF IsExplicit THEN KthAz(ZonesOf(PrivateSubnets), k) ELSE k

LeastOf(m, n) == IF m < n THEN m ELSE n
GatewayCount == LeastOf(ZoneCount, request.numberOfNatGateways)

(* A gateway for each zone until there are as many as asked for; a zone    *)
(* for which no public subnet is free goes without.                        *)
AddNatGateway ==
  /\ phase = "gateways"
  /\ visited < GatewayCount
  /\ visited' = visited + 1
  /\ LET zone == GatewayZone(visited + 1)
         candidates == IF IsExplicit THEN CandidatesFor(zone)
                       ELSE {KthOf(PublicSubnets, (visited % AzCount) + 1)}
     IN gateways' = IF candidates = {} THEN gateways
                    ELSE Append(gateways, Gateway(subnets[FirstOf(candidates)], zone))
  /\ UNCHANGED <<phase, failure, subnets, splitMask, routes, turn>>

GatewaysDone ==
  /\ phase = "gateways"
  /\ visited = GatewayCount
  /\ GoTo("routes")

-----------------------------------------------------------------------------
(* Routes.                                                                 *)
IsRouted(s) == \E r \in DOMAIN routes : routes[r].privateSubnet = s.name
Unrouted == {i \in PrivateSubnets : ~IsRouted(subnets[i])}

(* Computed: in order.  Explicit: zone by zone.                            *)
NextRouted ==
  FirstOf(IF IsExplicit
          THEN {i \in Unrouted : subnets[i].zone = KthAz(ZonesOf(Unrouted), 1)}
          ELSE Unrouted)

GatewaysFor(zone) == {i \in DOMAIN gateways : gateways[i].zone = zone}

RoundRobin == turn % Len(gateways)

(* The number of the gateway to take for a zone.                           *)
AnyGatewayFor(zone) == RoundRobin
NatGatewayFor(zone) ==
  IF GatewaysFor(zone) # {} THEN (CHOOSE i \in GatewaysFor(zone) : TRUE) - 1
  ELSE RoundRobin

AddNatRoute ==
  /\ phase = "routes"
  /\ gateways # <<>>
  /\ Unrouted # {}
  /\ LET s == subnets[NextRouted]
     IN /\ routes' = Append(routes, [privateSubnet |-> s.name,
                                     natGateway |-> NatGatewayFor(s.zone)])
        /\ turn' = IF GatewaysFor(s.zone) # {} THEN turn ELSE turn + 1
  /\ UNCHANGED <<phase, failure, subnets, splitMask, visited, gateways>>

(* partition: every name must belong to a subnet or gateway registered.    *)
NamesAreFound ==
  /\ \A i \in DOMAIN gateways : \E j \in PublicSubnets :
       subnets[j].name = gateways[i].publicSubnet
  /\ \A r \in DOMAIN routes :
       /\ \E j \in PrivateSubnets : subnets[j].name = routes[r].privateSubnet
       /\ routes[r].natGateway + 1 \in DOMAIN gateways

Partition ==
  /\ phase = "routes"
  /\ gateways # <<>> => Unrouted = {}
  /\ IF NamesAreFound THEN GoTo("built") ELSE Fail("name")

Next ==
  /\ \/ CheckLocations
     \/ PlaceSubnet
     \/ SplitRemainder
     \/ DescribeSubnet
     \/ PlanGateways
     \/ AddNatGateway
     \/ GatewaysDone
     \/ AddNatRoute
     \/ Partition
  /\ UNCHANGED request

Spec == Init /\ [][Next]_vars

-----------------------------------------------------------------------------
(* The described layout has the types its consumer expects, and a route    *)
(* names a gateway that exists (vpcTopology.ts, SubnetDescription,         *)
(* NatGatewayDescription and NatRouteDescription).                         *)
SubnetNames ==
  [given : Optional(Names), type : Optional(Types), index : Optional(Nat)]

Subnet ==
  [name : SubnetNames, type : Types, zone : Optional(Nat),
   block : Optional([base : Nat, mask : SubnetMasks])]

TypeOK ==
  /\ phase \in {"called", "describing", "gateways", "routes", "built", "failed"}
  /\ failure \in Optional(Failures)
  /\ subnets \in Seq(Subnet)
  /\ splitMask \in Optional(Masks)
  /\ visited \in Nat /\ turn \in Nat
  /\ gateways \in Seq([publicSubnet : {subnets[i].name : i \in DOMAIN subnets},
                       zone : Optional(Nat)])
  /\ routes \in Seq([privateSubnet : {subnets[i].name : i \in DOMAIN subnets},
                     natGateway : 0..(Len(gateways) - 1)])

(* The block that a cidr of a subnet denotes: the addresses that share its *)
(* leading bits (cidr.ts:36).                                              *)
DenotedBy(s) == Netmask(s.block.base, s.block.mask)

NoneShared ==
  \A i, j \in DOMAIN subnets :
    i # j => Disjoint(DenotedBy(subnets[i]), DenotedBy(subnets[j]))

(* As long as no block is larger than one placed before it, placing end to *)
(* end without alignment (assignNextAvailableCidrBlock) gives disjoint     *)
(* blocks within the VPC.                                                  *)
NarrowingBlocksAreDistinct ==
  (/\ phase \notin {"called", "failed"}
   /\ ~IsExplicit
   /\ \A i, j \in DOMAIN subnets : i < j => subnets[i].block.mask <= subnets[j].block.mask)
    => /\ NoneShared
       /\ \A i \in DOMAIN subnets : Inside(DenotedBy(subnets[i]), request.vpc)

(* computeCidrMaskForSubnets takes the largest block with which all the    *)
(* unmasked subnets still fit: they are never refused for lack of room,    *)
(* and blocks twice as large would not have fitted.                        *)
SplitIsWidest ==
  splitMask # Undefined =>
    LET masked == Cardinality(MaskedSubnets) * AzCount
        start == IF masked = 0 THEN request.vpc.base
                 ELSE End(subnets[masked].block)
        left == End(request.vpc) - start
    IN /\ RequiredCidrBlockCount * BlockSize[splitMask] <= left
       /\ 2 * RequiredCidrBlockCount * BlockSize[splitMask] > left
       /\ failure # "room"

GatewayOf(i) ==
  LET r == CHOOSE r \in DOMAIN routes :
             routes[r].privateSubnet = subnets[i].name
  IN gateways[routes[r].natGateway + 1]

PlacedIn(g) ==
  subnets[CHOOSE i \in DOMAIN subnets : subnets[i].name = g.publicSubnet].zone

(* When gateways are asked for and there is a public subnet to place them  *)
(* in, every private subnet gets one route, to one of them: no order of    *)
(* zones leaves the gateways empty or a subnet out.                        *)
EveryPrivateIsRouted ==
  (phase = "built" /\ ShouldCreateNatGateways) =>
    /\ gateways # <<>>
    /\ Len(routes) = Cardinality(PrivateSubnets)
    /\ \A i \in PrivateSubnets : IsRouted(subnets[i])

(* A zone that comes before the limit and has a public subnet has a        *)
(* gateway in it, and its private subnets leave through that one           *)
(* (vpc.ts:730-735).                                                       *)
OwnGatewayIsInOwnZone ==
  (phase = "built" /\ ShouldCreateNatGateways) =>
    \A i \in PrivateSubnets : \A k \in 1..GatewayCount :
      LET zone == subnets[i].zone
      IN (GatewayZone(k) = zone /\ PublicIn(zone) # {}) =>
           PlacedIn(GatewayOf(i)) = zone

(* Gateways placed for the zones of a computed layout are in distinct      *)
(* public subnets; and a zone without a public subnet never takes one in   *)
(* which a gateway is already ("an az that doesn't currently have a nat    *)
(* gateway", vpcTopology.ts:392).                                          *)
BorrowedSubnetsAreFree ==
  \A i, j \in DOMAIN gateways :
    (i < j /\ gateways[i].publicSubnet = gateways[j].publicSubnet) =>
      IsExplicit /\ PublicIn(gateways[j].zone) # {}

(* The subnets of zones without a gateway are spread over the gateways:    *)
(* no gateway serves two more of them than another (the round-robin of     *)
(* vpc.ts:736).                                                            *)
RoundRobinIsEven ==
  phase = "built" =>
    LET borrowed(g) ==
          {i \in PrivateSubnets :
             /\ GatewaysFor(subnets[i].zone) = {}
             /\ GatewayOf(i) = gateways[g]}
    IN \A g, h \in DOMAIN gateways :
         gateways # <<>> => Cardinality(borrowed(g)) <= Cardinality(borrowed(h)) + 1

(* Blocks: apart when sizes narrow, and no smaller than they have to be.   *)
BlocksAreSound == NarrowingBlocksAreDistinct /\ SplitIsWidest

(* Egress: every private subnet leaves by one gateway, of its own zone     *)
(* where that zone could have one, and the others are shared evenly.       *)
EgressIsSound ==
  /\ TypeOK
  /\ EveryPrivateIsRouted
  /\ OwnGatewayIsInOwnZone
  /\ BorrowedSubnetsAreFree
  /\ RoundRobinIsEven
=============================================================================
