----------------------------- MODULE VpcNetwork -----------------------------
(***************************************************************************)
(* The Vpc component: Vpc.initialize registers the VPC, its subnets and    *)
(* all that routes their traffic, while the Pulumi engine (external, as    *)
(* initialize uses it) creates what has been registered, in any order the  *)
(* dependencies allow, or fails to.                                        *)
(*                                                                         *)
(* initialize is sequential: pc says where it is, and each body of its     *)
(* inner loop is one step.  A resource is created once everything it needs *)
(* (inputs, parent, dependsOn) is; so is the layout check, which runs in   *)
(* the program when all cidrBlocks are strings and otherwise in an apply,  *)
(* after the VPC exists and before any cidrBlock resolves.                 *)
(*                                                                         *)
(* Whether a layout passes the checks of SubnetLayout is part of the       *)
(* configuration; the NAT gateway check, on which the loop relies, is      *)
(* modelled here.  Every zone has the same specs, as the allocators give.  *)
(***************************************************************************)
EXTENDS Integers, Sequences, FiniteSets

CONSTANTS
  Configs,       \* the configurations considered: a set of records
  MaxIpv6Index,  \* 0xff: the subnets a /56 has room for, less one
  MaxFailures    \* a bound of the model: how many creations may fail

Types == {"public", "private", "isolated", "unused"}

(* promptVpc: cidrBlock is known.  promptSpecs: the subnets' blocks are,   *)
(* which explicit layouts are even without promptVpc.  layoutOk: the       *)
(* allocator and the checks on the blocks do not throw.  (The legacy       *)
(* allocator, which throws without promptVpc, is promptSpecs, ~layoutOk.)  *)
(* eips: the number of elasticIpAllocationIds.  assign: the resolved       *)
(* assignIpv6AddressOnCreation of each spec.  endpoint: the endpoint of    *)
(* vpcEndpointStrategy "Auto", if any.                                     *)
Config ==
  [azCount : Nat \ {0}, types : Seq(Types), nat : {"none", "single", "oneperaz"},
   eips : Nat, promptVpc : BOOLEAN, promptSpecs : BOOLEAN, layoutOk : BOOLEAN,
   ipv6 : BOOLEAN, assign : Seq(BOOLEAN),
   endpoint : {"none", "interface", "gateway"}]

ASSUME ConfigAssumption ==
  /\ Configs \subseteq Config
  /\ \A c \in Configs : /\ c.promptVpc => c.promptSpecs
                        /\ Len(c.assign) = Len(c.types)

ASSUME BoundsAssumption == MaxIpv6Index \in Nat /\ MaxFailures \in Nat

VARIABLES
  config,
  pc,           \* where initialize is
  fault,        \* why it threw
  zone,         \* i + 1
  placed,       \* the specs of this zone the loop has been through
  natGateways,  \* the gateways pushed: [gateway, address]
  eips,         \* the addresses pushed
  ipv6Index,    \* subnet -> the index handleIpv6Cidr was given
  needs,        \* registered resource -> the resources it waits for
  resolved,     \* what exists, the layout check included
  failed,       \* what the engine could not create
  aborted       \* the deployment has been given up

program == <<config, pc, fault, zone, placed, natGateways, eips, ipv6Index,
             needs>>
engine == <<resolved, failed, aborted>>
vars == <<program, engine>>

-----------------------------------------------------------------------------
(* Resources.                                                              *)
Kinds == {"vpc", "check", "igw", "subnet", "routeTable", "association", "eip",
          "nat", "route", "endpoint", "securityGroup", "ingress"}

Resource == [kind : Kinds, az : Nat, spec : Nat]

Single(kind) == [kind |-> kind, az |-> 0, spec |-> 0]
Of(kind, i, s) == [kind |-> kind, az |-> i, spec |-> s]

Zones == 1..config.azCount
Specs == {s \in DOMAIN config.types : config.types[s] # "unused"}

TypeOf(r) == config.types[r.spec]

(* What a resource waits for.  The route's gateway is the caller's.        *)
SubnetNeedsVpc == {Single("vpc")}
SubnetNeeds ==
  {Single("vpc")} \cup (IF config.promptSpecs THEN {} ELSE {Single("check")})

NeedsOf(r) ==
  CASE r.kind \in {"check", "igw", "securityGroup"} -> {Single("vpc")}
    [] r.kind = "subnet" -> SubnetNeeds
    [] r.kind \in {"routeTable", "eip"} -> {Of("subnet", r.az, r.spec)}
    [] r.kind = "association" ->
         {Of("routeTable", r.az, r.spec), Of("subnet", r.az, r.spec)}
    [] r.kind = "nat" ->
         {Of("subnet", r.az, r.spec)}
           \cup (IF config.eips = 0 THEN {Of("eip", r.az, r.spec)} ELSE {})
    [] r.kind = "route" -> {Of("routeTable", r.az, r.spec)}
    [] r.kind = "ingress" -> {Single("securityGroup")}
    [] OTHER -> {}

Register(new) ==
  needs' = [r \in DOMAIN needs \cup DOMAIN new |->
              IF r \in DOMAIN new THEN new[r] ELSE needs[r]]

-----------------------------------------------------------------------------
(* The decisions of initialize.                                            *)

(* validateEips.                                                           *)
EipCountOnlyForNone == config.nat = "none" => config.eips = 0
EipCountIsValid ==
  /\ config.nat = "none" => config.eips = 0
  /\ config.nat = "single" => config.eips <= 1
  /\ config.nat = "oneperaz" => config.eips \in {0, config.azCount}

HasType(types) == \E s \in DOMAIN config.types : config.types[s] \in types

(* validateNatGatewayStrategy.                                             *)
AnyPublicIsEnough == config.nat # "none" => HasType({"public", "private"})
NatStrategyIsServed ==
  config.nat # "none" => HasType({"public"}) /\ HasType({"private", "isolated"})

CheckPasses == config.layoutOk /\ NatStrategyIsServed

(* shouldCreateNatGateway.                                                 *)
ShouldAlwaysCreate(numGateways, azIndex) == config.nat # "none"
ShouldCreateNatGateway(numGateways, azIndex) ==
  CASE config.nat = "none" -> FALSE
    [] config.nat = "single" -> numGateways < 1
    [] config.nat = "oneperaz" -> numGateways < azIndex + 1

(* compareSubnetSpecs: public, then private, then isolated; the sort is    *)
(* stable.                                                                 *)
Rank(s) ==
  CASE config.types[s] = "public" -> 1
    [] config.types[s] = "private" -> 2
    [] OTHER -> 3

Before(s, t) == Rank(s) < Rank(t) \/ (Rank(s) = Rank(t) /\ s < t)

Pending == Specs \ placed

(* subnetIndex: i plus azCount for every subnet of the zone so far.        *)
Ipv6IndexPerZone(i, n) == (i - 1) + n
Ipv6Index(i, n) == (i - 1) + (n * config.azCount)

(* natGateways[0] or natGateways[i].                                       *)
GatewayOfFirstZone == 1
GatewayIndex == IF config.nat = "single" THEN 1 ELSE zone

(* selectVpcEndpointSubnetIds: the first subnet of the preferred type.     *)
Preferred ==
  CASE HasType({"private"}) -> "private"
    [] ~HasType({"private"}) /\ HasType({"isolated"}) -> "isolated"
    [] OTHER -> "public"

AllPreferredSubnets ==
  {Of("subnet", i, s) : i \in Zones,
     s \in {t \in Specs : config.types[t] = Preferred}}
EndpointSubnets ==
  {Of("subnet", i, s) : i \in Zones,
     s \in {t \in Specs : /\ config.types[t] = Preferred
                          /\ \A u \in Specs :
                               config.types[u] = Preferred => t <= u}}
-----------------------------------------------------------------------------
Init ==
  /\ config \in Configs
  /\ pc = "validate"
  /\ fault = "none"
  /\ zone = 1
  /\ placed = {}
  /\ natGateways = <<>>
  /\ eips = <<>>
  /\ ipv6Index = <<>>
  /\ needs = <<>>
  /\ resolved = {}
  /\ failed = {}
  /\ aborted = FALSE

Throw(why) ==
  /\ pc' = "threw"
  /\ fault' = why

ValidateArgs ==
  /\ pc = "validate"
  /\ IF EipCountIsValid
     THEN /\ pc' = IF config.promptVpc THEN "decide" ELSE "vpc"
          /\ UNCHANGED fault
     ELSE Throw("eips")
  /\ UNCHANGED <<config, zone, placed, natGateways, eips, ipv6Index, needs,
                 engine>>

(* createInnerVpc registers the VPC after the checks if it knows its range *)
(* and before them if it does not.                                         *)
RegisterVpc ==
  /\ pc = "vpc"
  /\ Register([r \in {Single("vpc")} |-> NeedsOf(r)])
  /\ pc' = IF config.promptVpc THEN "igw" ELSE "decide"
  /\ UNCHANGED <<config, fault, zone, placed, natGateways, eips, ipv6Index,
                 engine>>

(* decideAndValidateSubnetSpecs, and the check of                          *)
(* validatePartialSubnetSpecs: run now, or left to an apply.               *)
Decide ==
  /\ pc = "decide"
  /\ IF config.promptSpecs
     THEN /\ IF CheckPasses
             THEN /\ pc' = IF config.promptVpc THEN "vpc" ELSE "igw"
                  /\ UNCHANGED fault
             ELSE Throw("layout")
          /\ UNCHANGED needs
     ELSE /\ Register([r \in {Single("check")} |-> NeedsOf(r)])
          /\ pc' = "igw"
          /\ UNCHANGED fault
  /\ UNCHANGED <<config, zone, placed, natGateways, eips, ipv6Index, engine>>

RegisterIgw ==
  /\ pc = "igw"
  /\ Register([r \in {Single("igw")} |-> NeedsOf(r)])
  /\ pc' = "zones"
  /\ UNCHANGED <<config, fault, zone, placed, natGateways, eips, ipv6Index,
                 engine>>

(* The body of the loop over the zone's sorted specs.                      *)
CreatesGateway(s) ==
  /\ config.types[s] = "public"
  /\ ShouldCreateNatGateway(Len(natGateways), zone - 1)

EipsAfter(s) ==
  IF CreatesGateway(s) /\ config.eips = 0
  THEN Append(eips, Of("eip", zone, s)) ELSE eips

(* `createEip ? eips[i] : allocationIds[i]`.                               *)
AddressOfGateway(s) ==
  IF config.eips = 0 THEN EipsAfter(s)[zone] ELSE Of("supplied", zone, 0)

GatewaysAfter(s) ==
  IF CreatesGateway(s)
  THEN Append(natGateways, [gateway |-> Of("nat", zone, s),
                            address |-> AddressOfGateway(s)])
  ELSE natGateways

(* The gateway of the spec's default route, if it has a route.             *)
IsRouted(s) ==
  \/ config.types[s] = "public"
  \/ config.types[s] = "private" /\ config.nat # "none"

HasGateway(s) ==
  config.types[s] = "private" => GatewayIndex \in DOMAIN natGateways

GatewayOf(s) ==
  IF config.types[s] = "public" THEN Single("igw")
  ELSE natGateways[GatewayIndex].gateway

NewResources(s) ==
  {Of(kind, zone, s) : kind \in {"subnet", "routeTable", "association"}}
    \cup (IF CreatesGateway(s)
          THEN {Of("nat", zone, s)}
                 \cup (IF config.eips = 0 THEN {Of("eip", zone, s)} ELSE {})
          ELSE {})
    \cup (IF IsRouted(s) /\ HasGateway(s) THEN {Of("route", zone, s)} ELSE {})

BuildSubnet(s) ==
  /\ pc = "zones"
  /\ zone <= config.azCount
  /\ s \in Pending
  /\ \A t \in Pending \ {s} : Before(s, t)
  /\ Register([r \in NewResources(s) |->
                 NeedsOf(r)
                   \cup (IF r.kind = "route" THEN {GatewayOf(s)} ELSE {})])
  /\ ipv6Index' = [r \in DOMAIN ipv6Index \cup {Of("subnet", zone, s)} |->
                     IF r \in DOMAIN ipv6Index THEN ipv6Index[r]
                     ELSE Ipv6Index(zone, Cardinality(placed))]
  /\ eips' = EipsAfter(s)
  /\ natGateways' = GatewaysAfter(s)
  /\ placed' = placed \cup {s}
  /\ IF IsRouted(s) /\ ~HasGateway(s)
     THEN Throw("missingGateway")
     ELSE UNCHANGED <<pc, fault>>
  /\ UNCHANGED <<config, zone, engine>>

NextZone ==
  /\ pc = "zones"
  /\ zone <= config.azCount
  /\ Pending = {}
  /\ zone' = zone + 1
  /\ placed' = {}
  /\ UNCHANGED <<config, pc, fault, natGateways, eips, ipv6Index, needs, engine>>

(* An interface endpoint takes one subnet of every zone and a security     *)
(* group of its own; a gateway endpoint takes every route table.           *)
EndpointNeeds ==
  {Single("vpc")} \cup
    CASE config.endpoint = "interface" ->
           EndpointSubnets \cup {Single("securityGroup")}
      [] config.endpoint = "gateway" ->
           {r \in DOMAIN needs : r.kind = "routeTable"}
      [] OTHER -> {}

RegisterEndpoint ==
  /\ pc = "zones"
  /\ zone > config.azCount
  /\ Register([r \in CASE config.endpoint = "interface" ->
                            {Single("securityGroup"), Single("ingress"),
                             Single("endpoint")}
                       [] config.endpoint = "gateway" -> {Single("endpoint")}
                       [] OTHER -> {} |->
                 IF r.kind = "endpoint" THEN EndpointNeeds ELSE NeedsOf(r)])
  /\ pc' = "done"
  /\ UNCHANGED <<config, fault, zone, placed, natGateways, eips, ipv6Index,
                 engine>>

Initialize ==
  \/ ValidateArgs
  \/ RegisterVpc
  \/ Decide
  \/ RegisterIgw
  \/ \E s \in Pending : BuildSubnet(s)
  \/ NextZone
  \/ RegisterEndpoint

-----------------------------------------------------------------------------
(* The engine.  An input that rejects (the check's result, handleIpv6Cidr) *)
(* fails the resource; so may the cloud, at any creation.                  *)
IsReady(r) ==
  /\ ~aborted
  /\ r \notin resolved \cup failed
  /\ needs[r] \subseteq resolved

(* handleIpv6Cidr, once the VPC's own IPv6 range is known.                 *)
Ipv6Rejects(r) ==
  /\ config.assign[r.spec]
  /\ ~config.ipv6 \/ ipv6Index[r] > MaxIpv6Index

InputRejects(r) ==
  \/ r.kind = "check" /\ ~CheckPasses
  \/ r.kind = "subnet" /\ Ipv6Rejects(r)

Create(r) ==
  /\ IsReady(r)
  /\ ~InputRejects(r)
  /\ resolved' = resolved \cup {r}
  /\ UNCHANGED <<program, failed, aborted>>

Fail(r) ==
  /\ IsReady(r)
  /\ InputRejects(r) \/ (r.kind # "check" /\ Cardinality(failed) < MaxFailures)
  /\ failed' = failed \cup {r}
  /\ UNCHANGED <<program, resolved, aborted>>

(* After an error the deployment ends, sooner or later.                    *)
Abort ==
  /\ failed # {} \/ pc = "threw"
  /\ ~aborted
  /\ aborted' = TRUE
  /\ UNCHANGED <<program, resolved, failed>>

Engine == \E r \in DOMAIN needs : Create(r) \/ Fail(r)

Next == Initialize \/ Engine \/ Abort

(* initialize runs to its end; the engine keeps creating what is ready     *)
(* until it gives up.                                                      *)
Spec == Init /\ [][Next]_vars /\ WF_vars(Initialize) /\ WF_vars(Engine)
-----------------------------------------------------------------------------
(* Properties.                                                             *)
Faults == {"none", "eips", "layout", "missingGateway"}

(* Every variable has its type; there is at most one gateway per zone.     *)
TypeOK ==
  /\ config \in Configs
  /\ pc \in {"validate", "decide", "vpc", "igw", "zones", "done", "threw"}
  /\ fault \in Faults
  /\ zone \in 1..(config.azCount + 1)
  /\ placed \subseteq Specs
  /\ natGateways \in Seq([gateway : Resource,
                          address : [kind : {"eip", "supplied"},
                                     az : Nat, spec : Nat]])
  /\ Len(natGateways) <= config.azCount
  /\ eips \in Seq(Resource)
  /\ DOMAIN ipv6Index \subseteq Resource
  /\ DOMAIN needs \subseteq Resource
  /\ resolved \cup failed \subseteq DOMAIN needs

(* A refusal of the arguments, or of the layout, of a VPC whose range is   *)
(* known leaves nothing behind: the program throws before it registers     *)
(* anything, and once it has begun it does not throw, because a layout     *)
(* the checks accept has a gateway for every route of the loop.            *)
PromptRefusalIsClean ==
  config.promptVpc /\ pc = "threw" => DOMAIN needs = {}

(* "failing outputs which will short-circuit creating the subnets": when   *)
(* the checks do not pass, however late they run, no subnet, nor anything  *)
(* made for one, is ever created.                                          *)
RefusedLayoutBuildsNothing ==
  ~CheckPasses => \A r \in resolved : r.az = 0

(* Whichever check refuses, at once or in an apply, nothing is there that  *)
(* the refused part needs.                                                 *)
RefusalsAreClean == PromptRefusalIsClean /\ RefusedLayoutBuildsNothing

(* A private subnet's default route leaves by a NAT gateway in a public    *)
(* subnet of its own zone (OnePerAz) or of the first zone (Single).        *)
EgressInOwnZone ==
  \A r \in DOMAIN needs :
    r.kind = "route" /\ TypeOf(r) = "private" =>
      \E g \in needs[r] :
        /\ g.kind = "nat"
        /\ TypeOf(g) = "public"
        /\ g.az = IF config.nat = "single" THEN 1 ELSE r.az
        /\ g \in DOMAIN needs

(* Every gateway has an address of its own, one that has been registered   *)
(* as its dependency or was supplied.                                      *)
GatewaysHaveOwnAddress ==
  \A g \in DOMAIN natGateways :
    LET address == natGateways[g].address IN
    /\ \A h \in 1..(g - 1) : natGateways[h].address # address
    /\ IF config.eips = 0
       THEN address \in needs[natGateways[g].gateway]
       ELSE address.az <= config.eips

(* No two subnets are given the same slice of the VPC's IPv6 range.        *)
Ipv6BlocksAreDistinct ==
  \A r, q \in DOMAIN ipv6Index : r # q => ipv6Index[r] # ipv6Index[q]

(* An interface endpoint is attached to just one subnet of every zone, a   *)
(* public one only when there is no other kind ("one generated subnet per  *)
(* AZ"); a gateway endpoint serves the route table of every subnet.        *)
EndpointReachesEveryZone ==
  Single("endpoint") \in DOMAIN needs =>
    LET attached == needs[Single("endpoint")] IN
    \A i \in Zones :
      /\ config.endpoint = "interface" /\ Specs # {} =>
           LET here == {r \in attached : r.kind = "subnet" /\ r.az = i} IN
           /\ Cardinality(here) = 1
           /\ \A r \in here : TypeOf(r) = "public" =>
                \A s \in Specs : config.types[s] = "public"
      /\ config.endpoint = "gateway" =>
           \A s \in Specs : Of("routeTable", i, s) \in attached

(* A valid configuration in which no creation fails ends with every subnet *)
(* in its route table, and the route tables of public subnets, and of      *)
(* private ones unless there are no gateways, with their default route.    *)
IsValid ==
  /\ EipCountIsValid
  /\ CheckPasses
  /\ \A s \in Specs :
       config.assign[s] =>
         config.ipv6 /\ config.azCount * Cardinality(Specs) <= MaxIpv6Index + 1

NetworkIsUp ==
  \A i \in Zones, s \in Specs :
    /\ Of("association", i, s) \in resolved
    /\ IsRouted(s) => Of("route", i, s) \in resolved

NetworkComesUp == IsValid => <>(failed # {} \/ NetworkIsUp)

(* What has been created so far, as NetworkPromise sees it.                *)
SubnetOf(r) == [az |-> r.az, spec |-> r.spec, type |-> TypeOf(r)]

Verdict ==
  CASE pc = "threw" \/ Single("check") \in failed -> "refused"
    [] /\ pc # "threw"
       /\ Single("check") \notin failed
       /\ \/ Single("check") \in resolved
          \/ /\ config.promptSpecs
             /\ pc \in {"igw", "zones", "done"}
                       \cup (IF config.promptVpc THEN {"vpc"} ELSE {}) -> "accepted"
    [] OTHER -> "pending"

Built == {SubnetOf(r) : r \in {q \in resolved : q.kind = "subnet"}}

NatAmong(targets) == CHOOSE g \in targets : g.kind = "nat"

LeavesThrough(s) ==
  LET targets == needs[Of("route", s.az, s.spec)]
  IN  IF Single("igw") \in targets THEN "internet" ELSE SubnetOf(NatAmong(targets))

Egress ==
  [s \in {SubnetOf(r) : r \in {q \in resolved : q.kind = "route"}} |->
     LeavesThrough(s)]

Promise == INSTANCE NetworkPromise
             WITH verdict <- Verdict, built <- Built, egress <- Egress,
                  Internet <- "internet"

(* The component keeps the promise: what can be seen of its network moves  *)
(* as NetworkPromise allows, step by step.                                 *)
KeepsPromise == Promise!Spec
=============================================================================
