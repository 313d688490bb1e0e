-------------------------- MODULE VpcNetworkProofs --------------------------
(***************************************************************************)
(* Proofs about VpcNetwork, for any number of zones and specs and any      *)
(* order in which the engine creates what has been registered: what the    *)
(* constructor's checks guarantee, that the network keeps the promise of   *)
(* NetworkPromise, and what the loop over zones and specs covers.          *)
(***************************************************************************)
EXTENDS VpcNetwork, FiniteSetTheorems, WellFoundedInduction, TLAPS

(* What the checks that have run guarantee at each point of initialize.    *)
Checked ==
  /\ pc \notin {"validate", "threw"} => EipCountIsValid
  /\ config.promptVpc /\ pc \in {"validate", "decide", "threw"} =>
       DOMAIN needs = {}
  /\ config.promptVpc /\ pc = "vpc" => CheckPasses
  /\ config.promptSpecs /\ pc \in {"igw", "zones", "done"} => CheckPasses

PlacedPublic == \E s \in placed : config.types[s] = "public"

(* How many gateways the loop has pushed: one in each zone it has been     *)
(* through or, with a single gateway, one in the first of them.            *)
Counted ==
  /\ pc \in {"validate", "decide", "vpc", "igw"} => zone = 1 /\ placed = {}
  /\ zone > config.azCount => placed = {}
  /\ config.nat = "none" => Len(natGateways) = 0
  /\ config.nat = "single" =>
       Len(natGateways) =
         IF HasType({"public"}) /\ (zone > 1 \/ PlacedPublic) THEN 1 ELSE 0
  /\ config.nat = "oneperaz" =>
       Len(natGateways) =
         IF ~HasType({"public"}) THEN 0
         ELSE IF PlacedPublic THEN zone ELSE zone - 1
  /\ config.eips = 0 => Len(eips) = Len(natGateways)

(* The g-th gateway is in zone g, and so is its address.                   *)
Gateway(g) ==
  LET n == natGateways[g] IN
  /\ n.gateway.kind = "nat"
  /\ n.gateway.az = g
  /\ TypeOf(n.gateway) = "public"
  /\ n.gateway \in DOMAIN needs
  /\ config.eips = 0 => /\ eips[g].az = g
                        /\ n.address = eips[g]
                        /\ n.address \in needs[n.gateway]
  /\ config.eips # 0 => n.address = Of("supplied", g, 0) /\ g <= config.eips

Gateways == \A g \in DOMAIN natGateways : Gateway(g)

(* Everything made for a zone hangs on one of the zone's subnets, and a    *)
(* subnet on the check unless the check has passed already.                *)
Hanging ==
  \A r \in DOMAIN needs :
    r.az # 0 => /\ config.promptSpecs => CheckPasses
                /\ r.kind = "subnet" => SubnetNeeds \subseteq needs[r]
                /\ r.kind # "subnet" => \E q \in needs[r] : q.az # 0

CheckHolds == ~CheckPasses => Single("check") \notin resolved

IInv ==
  /\ TypeOK
  /\ Checked
  /\ Counted
  /\ Gateways
  /\ Hanging
  /\ CheckHolds
  /\ RefusedLayoutBuildsNothing
  /\ EgressInOwnZone

-----------------------------------------------------------------------------
LEMMA InitInv == Init => IInv
  <1> SUFFICES ASSUME Init PROVE IInv
    OBVIOUS
  <1> USE ConfigAssumption DEF Init
  <1>1. config.azCount \in Nat \ {0} /\ config.eips \in Nat
    BY DEF Config
  <1>2. TypeOK
    BY <1>1 DEF TypeOK, Faults
  <1>3. Counted
    BY <1>1 DEF Counted, PlacedPublic
  <1>4. Checked /\ Gateways /\ Hanging /\ CheckHolds
        /\ RefusedLayoutBuildsNothing /\ EgressInOwnZone
    BY DEF Checked, Gateways, Hanging, CheckHolds, RefusedLayoutBuildsNothing,
           EgressInOwnZone
  <1> QED
    BY <1>2, <1>3, <1>4 DEF IInv

LEMMA ConfigFacts ==
  ASSUME config \in Configs
  PROVE  /\ config \in Config
         /\ config.azCount \in Nat \ {0}
         /\ config.eips \in Nat
         /\ config.nat \in {"none", "single", "oneperaz"}
         /\ config.types \in Seq(Types)
         /\ config.promptVpc \in BOOLEAN
         /\ config.promptSpecs \in BOOLEAN
         /\ config.promptVpc => config.promptSpecs
         /\ Specs \subseteq Nat
  BY ConfigAssumption DEF Config, Specs

(* Registering resources that are no gateways leaves the gateways alone.   *)
LEMMA GatewaysKept ==
  ASSUME Gateways, UNCHANGED <<config, natGateways, eips>>,
         DOMAIN needs \subseteq DOMAIN needs',
         \A r \in DOMAIN needs : r.kind = "nat" => needs'[r] = needs[r]
  PROVE  Gateways'
  <1> SUFFICES ASSUME NEW g \in DOMAIN natGateways PROVE Gateway(g)'
    BY DEF Gateways
  <1>1. Gateway(g)
    BY DEF Gateways
  <1> QED
    BY <1>1 DEF Gateway, TypeOf, Of

(* The steps of initialize before and after the loop register resources    *)
(* that belong to no zone.                                                 *)
LEMMA ValidateArgsInv == IInv /\ ValidateArgs => IInv'
  <1> SUFFICES ASSUME IInv, ValidateArgs PROVE IInv'
    OBVIOUS
  <1> USE DEF IInv, ValidateArgs, engine, Throw
  <1>1. TypeOK'
    BY DEF TypeOK, Faults, Specs
  <1>2. Checked'
    BY DEF Checked, EipCountIsValid, CheckPasses, NatStrategyIsServed, HasType
  <1>3. Counted'
    BY DEF Counted, PlacedPublic, HasType
  <1>4. Gateways' /\ Hanging' /\ CheckHolds' /\ RefusedLayoutBuildsNothing'
        /\ EgressInOwnZone'
    BY DEF Gateways, Gateway, TypeOf, Hanging, CheckHolds, CheckPasses,
           NatStrategyIsServed, HasType, RefusedLayoutBuildsNothing,
           EgressInOwnZone, SubnetNeeds
  <1> QED
    BY <1>1, <1>2, <1>3, <1>4

LEMMA RegisterVpcInv == IInv /\ RegisterVpc => IInv'
  <1> SUFFICES ASSUME IInv, RegisterVpc PROVE IInv'
    OBVIOUS
  <1> USE DEF IInv, RegisterVpc, engine, Register, Single
  <1>1. /\ DOMAIN needs' = DOMAIN needs \cup {Single("vpc")}
        /\ \A r \in DOMAIN needs \ {Single("vpc")} : needs'[r] = needs[r]
    OBVIOUS
  <1>2. TypeOK'
    BY <1>1 DEF TypeOK, Faults, Specs, Resource, Kinds
  <1>3. Checked'
    BY DEF Checked, EipCountIsValid, CheckPasses, NatStrategyIsServed, HasType
  <1>4. Counted'
    BY DEF Counted, PlacedPublic, HasType
  <1>5. Gateways'
    BY <1>1, GatewaysKept
  <1>6. Hanging' /\ EgressInOwnZone'
    BY <1>1 DEF Hanging, EgressInOwnZone, SubnetNeeds, TypeOf, CheckPasses,
               NatStrategyIsServed, HasType
  <1>7. CheckHolds' /\ RefusedLayoutBuildsNothing'
    BY DEF CheckHolds, RefusedLayoutBuildsNothing, CheckPasses,
           NatStrategyIsServed, HasType
  <1> QED
    BY <1>2, <1>3, <1>4, <1>5, <1>6, <1>7

LEMMA DecideInv == IInv /\ Decide => IInv'
  <1> SUFFICES ASSUME IInv, Decide PROVE IInv'
    OBVIOUS
  <1> USE DEF IInv, Decide, engine, Register, Single, Throw
  <1>1. /\ DOMAIN needs' \subseteq DOMAIN needs \cup {Single("check")}
        /\ DOMAIN needs \subseteq DOMAIN needs'
        /\ config.promptSpecs => needs' = needs
        /\ \A r \in DOMAIN needs \ {Single("check")} : needs'[r] = needs[r]
    OBVIOUS
  <1>2. TypeOK'
    BY <1>1 DEF TypeOK, Faults, Specs, Resource, Kinds
  <1>3. Checked'
    BY <1>1, ConfigFacts
       DEF TypeOK, Checked, EipCountIsValid, CheckPasses, NatStrategyIsServed,
           HasType
  <1>4. Counted'
    BY DEF Counted, PlacedPublic, HasType
  <1>5. Gateways'
    BY <1>1, GatewaysKept
  <1>6. Hanging' /\ EgressInOwnZone'
    BY <1>1 DEF Hanging, EgressInOwnZone, SubnetNeeds, TypeOf, CheckPasses,
               NatStrategyIsServed, HasType
  <1>7. CheckHolds' /\ RefusedLayoutBuildsNothing'
    BY DEF CheckHolds, RefusedLayoutBuildsNothing, CheckPasses,
           NatStrategyIsServed, HasType
  <1> QED
    BY <1>2, <1>3, <1>4, <1>5, <1>6, <1>7

LEMMA RegisterIgwInv == IInv /\ RegisterIgw => IInv'
  <1> SUFFICES ASSUME IInv, RegisterIgw PROVE IInv'
    OBVIOUS
  <1> USE DEF IInv, RegisterIgw, engine, Register, Single
  <1>1. /\ DOMAIN needs' = DOMAIN needs \cup {Single("igw")}
        /\ \A r \in DOMAIN needs \ {Single("igw")} : needs'[r] = needs[r]
    OBVIOUS
  <1>2. TypeOK'
    BY <1>1 DEF TypeOK, Faults, Specs, Resource, Kinds
  <1>3. Checked'
    BY DEF Checked, EipCountIsValid, CheckPasses, NatStrategyIsServed, HasType
  <1>4. Counted'
    BY DEF Counted, PlacedPublic, HasType
  <1>5. Gateways'
    BY <1>1, GatewaysKept
  <1>6. Hanging' /\ EgressInOwnZone'
    BY <1>1 DEF Hanging, EgressInOwnZone, SubnetNeeds, TypeOf, CheckPasses,
               NatStrategyIsServed, HasType
  <1>7. CheckHolds' /\ RefusedLayoutBuildsNothing'
    BY DEF CheckHolds, RefusedLayoutBuildsNothing, CheckPasses,
           NatStrategyIsServed, HasType
  <1> QED
    BY <1>2, <1>3, <1>4, <1>5, <1>6, <1>7

LEMMA RegisterEndpointInv == IInv /\ RegisterEndpoint => IInv'
  <1> SUFFICES ASSUME IInv, RegisterEndpoint PROVE IInv'
    OBVIOUS
  <1> USE DEF IInv, RegisterEndpoint, engine
  <1> DEFINE extra == {Single("securityGroup"), Single("ingress"),
                       Single("endpoint")}
  <1>1. /\ DOMAIN needs' \subseteq DOMAIN needs \cup extra
        /\ DOMAIN needs \subseteq DOMAIN needs'
        /\ \A r \in DOMAIN needs \ extra : needs'[r] = needs[r]
    BY DEF Register, Single
  <1>2. \A r \in extra : /\ r \in Resource
                         /\ r.az = 0
                         /\ r.kind \notin {"nat", "route", "subnet"}
    BY DEF Single, Resource, Kinds
  <1> HIDE DEF extra
  <1>3. TypeOK'
    BY <1>1, <1>2 DEF TypeOK, Faults, Specs
  <1>4. Checked'
    BY DEF Checked, EipCountIsValid, CheckPasses, NatStrategyIsServed, HasType
  <1>5. Counted'
    BY DEF Counted, PlacedPublic, HasType
  <1>6. Gateways'
    BY <1>1, <1>2, GatewaysKept
  <1>7. Hanging' /\ EgressInOwnZone'
    BY <1>1, <1>2 DEF Hanging, EgressInOwnZone, SubnetNeeds, TypeOf,
                      CheckPasses, NatStrategyIsServed, HasType
  <1>8. CheckHolds' /\ RefusedLayoutBuildsNothing'
    BY DEF CheckHolds, RefusedLayoutBuildsNothing, CheckPasses,
           NatStrategyIsServed, HasType
  <1> QED
    BY <1>3, <1>4, <1>5, <1>6, <1>7, <1>8

LEMMA NextZoneInv == IInv /\ NextZone => IInv'
  <1> SUFFICES ASSUME IInv, NextZone PROVE IInv'
    OBVIOUS
  <1> USE DEF IInv, NextZone, engine
  <1>1. TypeOK'
    BY ConfigFacts DEF TypeOK, Specs
  <1>2. placed = Specs
    BY DEF Pending, TypeOK
  <1>3. PlacedPublic <=> HasType({"public"})
    BY <1>2 DEF PlacedPublic, HasType, Specs
  <1>4. ~PlacedPublic'
    BY DEF PlacedPublic
  <1>5. Counted'
    BY <1>3, <1>4, ConfigFacts DEF TypeOK, Counted, HasType
  <1>6. Checked' /\ Gateways' /\ Hanging' /\ EgressInOwnZone' /\ CheckHolds'
        /\ RefusedLayoutBuildsNothing'
    BY DEF Checked, EipCountIsValid, CheckPasses, NatStrategyIsServed, HasType,
           Gateways, Gateway, TypeOf, Hanging, SubnetNeeds, EgressInOwnZone,
           CheckHolds, RefusedLayoutBuildsNothing
  <1> QED
    BY <1>1, <1>5, <1>6

-----------------------------------------------------------------------------
(* The loop.  The sort puts the public specs first: when a spec of another *)
(* type is due, the zone's public ones have all been placed.               *)
LEMMA PublicFirst ==
  ASSUME TypeOK, NEW s, BuildSubnet(s), config.types[s] # "public"
  PROVE  PlacedPublic <=> HasType({"public"})
  <1>1. \A t \in Specs : config.types[t] = "public" => t \in placed
    BY DEF BuildSubnet, Pending, Before, Rank
  <1> QED
    BY <1>1 DEF PlacedPublic, HasType, Specs, TypeOK

(* A gateway is pushed only when one is missing, and its index in          *)
(* natGateways is then the zone's.                                         *)
LEMMA GatewayIsNext ==
  ASSUME IInv, NEW s, BuildSubnet(s), CreatesGateway(s)
  PROVE  /\ Len(natGateways) = zone - 1
         /\ ~PlacedPublic
         /\ config.nat # "none"
         /\ config.nat = "single" => zone = 1
  <1>1. HasType({"public"})
    BY DEF BuildSubnet, Pending, Specs, CreatesGateway, HasType
  <1>2. config.nat \in {"none", "single", "oneperaz"} /\ zone \in Nat \ {0}
    BY ConfigFacts DEF IInv, TypeOK
  <1>3. Len(natGateways) \in Nat
    BY DEF IInv, TypeOK
  <1>4. CASE config.nat = "single"
    BY <1>1, <1>2, <1>3, <1>4
       DEF IInv, Counted, CreatesGateway, ShouldCreateNatGateway
  <1>5. CASE config.nat = "oneperaz"
    BY <1>1, <1>2, <1>3, <1>5
       DEF IInv, Counted, CreatesGateway, ShouldCreateNatGateway
  <1>6. CASE config.nat = "none"
    BY <1>6 DEF CreatesGateway, ShouldCreateNatGateway
  <1> QED
    BY <1>2, <1>4, <1>5, <1>6

LEMMA GatewayIsThere ==
  ASSUME IInv, NEW s, BuildSubnet(s), config.types[s] = "public",
         ~CreatesGateway(s)
  PROVE  /\ config.nat = "single" => Len(natGateways) = 1
         /\ config.nat = "oneperaz" => Len(natGateways) = zone /\ PlacedPublic
  <1>1. HasType({"public"})
    BY DEF BuildSubnet, Pending, Specs, HasType
  <1>2. zone \in Nat \ {0} /\ Len(natGateways) \in Nat
    BY ConfigFacts DEF IInv, TypeOK
  <1>3. CASE config.nat = "single"
    <2>1. ~(Len(natGateways) < 1)
      BY <1>3 DEF CreatesGateway, ShouldCreateNatGateway
    <2> QED
      BY <1>1, <1>2, <1>3, <2>1 DEF IInv, Counted
  <1>4. CASE config.nat = "oneperaz"
    <2>1. ~(Len(natGateways) < (zone - 1) + 1)
      BY <1>4 DEF CreatesGateway, ShouldCreateNatGateway
    <2> QED
      BY <1>1, <1>2, <1>4, <2>1 DEF IInv, Counted
  <1> QED
    BY <1>3, <1>4

(* A layout the checks accept has a gateway for each of its routes.        *)
LEMMA RoutesHaveGateway ==
  ASSUME IInv, NEW s, BuildSubnet(s), CheckPasses, IsRouted(s)
  PROVE  HasGateway(s)
  <1> SUFFICES ASSUME config.types[s] = "private"
               PROVE  GatewayIndex \in DOMAIN natGateways
    BY DEF HasGateway
  <1>1. config.nat \in {"single", "oneperaz"}
    BY ConfigFacts DEF IInv, TypeOK, IsRouted
  <1>2. HasType({"public"}) /\ PlacedPublic
    BY <1>1, PublicFirst DEF IInv, CheckPasses, NatStrategyIsServed
  <1>3. zone \in Nat \ {0}
    BY ConfigFacts DEF IInv, TypeOK
  <1>4. Len(natGateways) >= GatewayIndex /\ GatewayIndex \in Nat \ {0}
    <2>1. CASE config.nat = "single"
      BY <1>2, <1>3, <2>1 DEF IInv, Counted, GatewayIndex
    <2>2. CASE config.nat = "oneperaz"
      BY <1>2, <1>3, <2>2 DEF IInv, Counted, GatewayIndex
    <2> QED
      BY <1>1, <2>1, <2>2
  <1> QED
    BY <1>4 DEF IInv, TypeOK

LEMMA EipsAfterFacts ==
  ASSUME IInv, NEW s, BuildSubnet(s)
  PROVE  /\ EipsAfter(s) \in Seq(Resource)
         /\ \A g \in DOMAIN eips : EipsAfter(s)[g] = eips[g]
         /\ config.eips = 0 => Len(EipsAfter(s)) = Len(GatewaysAfter(s))
         /\ CreatesGateway(s) =>
              AddressOfGateway(s) =
                IF config.eips = 0 THEN Of("eip", zone, s)
                                   ELSE Of("supplied", zone, 0)
  <1>1. zone \in Nat \ {0} /\ s \in Nat /\ eips \in Seq(Resource)
    BY ConfigFacts DEF IInv, TypeOK, BuildSubnet, Pending
  <1>2. Of("eip", zone, s) \in Resource
    BY <1>1 DEF Of, Resource, Kinds
  <1>3. config.eips = 0 => Len(eips) = Len(natGateways)
    BY DEF IInv, Counted
  <1>4. CASE CreatesGateway(s) /\ config.eips = 0
    <2>1. EipsAfter(s) = Append(eips, Of("eip", zone, s))
      BY <1>4 DEF EipsAfter
    <2>2. Len(eips) = zone - 1
      BY <1>3, <1>4, GatewayIsNext
    <2>3. EipsAfter(s)[zone] = Of("eip", zone, s)
      BY <1>1, <1>2, <2>1, <2>2
    <2>4. Len(GatewaysAfter(s)) = Len(natGateways) + 1
      BY <1>4 DEF GatewaysAfter, IInv, TypeOK
    <2>5. AddressOfGateway(s) = Of("eip", zone, s)
      BY <1>4, <2>3 DEF AddressOfGateway
    <2>6. \A g \in DOMAIN eips : EipsAfter(s)[g] = eips[g]
      BY <1>1, <1>2, <2>1
    <2>7. EipsAfter(s) \in Seq(Resource) /\ Len(EipsAfter(s)) = Len(eips) + 1
      BY <1>1, <1>2, <2>1
    <2> QED
      BY <1>3, <1>4, <2>4, <2>5, <2>6, <2>7
  <1>5. CASE ~(CreatesGateway(s) /\ config.eips = 0)
    BY <1>1, <1>3, <1>5 DEF EipsAfter, GatewaysAfter, AddressOfGateway
  <1> QED
    BY <1>4, <1>5

LEMMA NewGateway ==
  ASSUME IInv, NEW s, BuildSubnet(s)
  PROVE  /\ GatewaysAfter(s) \in
              Seq([gateway : Resource,
                   address : [kind : {"eip", "supplied"}, az : Nat, spec : Nat]])
         /\ \A g \in DOMAIN natGateways :
              /\ GatewaysAfter(s)[g] = natGateways[g]
              /\ g \in DOMAIN GatewaysAfter(s)
         /\ CreatesGateway(s) =>
              /\ DOMAIN GatewaysAfter(s) = DOMAIN natGateways \cup {zone}
              /\ zone \notin DOMAIN natGateways
              /\ Len(GatewaysAfter(s)) = zone
              /\ GatewaysAfter(s)[zone] = [gateway |-> Of("nat", zone, s),
                                           address |-> AddressOfGateway(s)]
         /\ ~CreatesGateway(s) => GatewaysAfter(s) = natGateways
  <1> DEFINE Entry ==
        [gateway : Resource,
         address : [kind : {"eip", "supplied"}, az : Nat, spec : Nat]]
  <1> DEFINE new == [gateway |-> Of("nat", zone, s),
                     address |-> AddressOfGateway(s)]
  <1>1. zone \in Nat \ {0} /\ s \in Nat /\ natGateways \in Seq(Entry)
    BY ConfigFacts DEF IInv, TypeOK, BuildSubnet, Pending
  <1>2. CASE CreatesGateway(s)
    <2>1. new \in Entry
      BY <1>1, <1>2, EipsAfterFacts DEF Of, Resource, Kinds
    <2>2. Len(natGateways) = zone - 1
      BY <1>2, GatewayIsNext
    <2>3. GatewaysAfter(s) = Append(natGateways, new)
      BY <1>2 DEF GatewaysAfter
    <2> HIDE DEF Entry, new
    <2>4. /\ GatewaysAfter(s) \in Seq(Entry)
          /\ Len(GatewaysAfter(s)) = zone
          /\ DOMAIN GatewaysAfter(s) = DOMAIN natGateways \cup {zone}
          /\ zone \notin DOMAIN natGateways
          /\ GatewaysAfter(s)[zone] = new
          /\ \A g \in DOMAIN natGateways : GatewaysAfter(s)[g] = natGateways[g]
      BY <1>1, <2>1, <2>2, <2>3
    <2> QED
      BY <1>2, <2>4 DEF Entry, new
  <1>3. CASE ~CreatesGateway(s)
    BY <1>1, <1>3 DEF GatewaysAfter
  <1> QED
    BY <1>2, <1>3

(* What the loop's body registers, and what it leaves as it was.           *)
LEMMA NeedsAfter ==
  ASSUME IInv, NEW s, BuildSubnet(s)
  PROVE  /\ DOMAIN needs' = DOMAIN needs \cup NewResources(s)
         /\ \A r \in DOMAIN needs \ NewResources(s) : needs'[r] = needs[r]
         /\ \A r \in NewResources(s) :
              /\ r \in Resource
              /\ r = Of(r.kind, zone, s)
              /\ r.az = zone /\ r.az # 0 /\ r.spec = s
              /\ NeedsOf(r) \subseteq needs'[r]
              /\ r.kind = "route" => /\ GatewayOf(s) \in needs'[r]
                                     /\ HasGateway(s)
              /\ r.kind = "nat" => CreatesGateway(s)
         /\ CreatesGateway(s) => Of("nat", zone, s) \in NewResources(s)
  <1>1. zone \in Nat \ {0} /\ s \in Nat
    BY ConfigFacts DEF IInv, TypeOK, BuildSubnet, Pending
  <1>2. \A r \in NewResources(s) :
          /\ r.kind \in Kinds
          /\ r = Of(r.kind, zone, s)
          /\ r.kind = "route" => HasGateway(s)
          /\ r.kind = "nat" => CreatesGateway(s)
    BY DEF NewResources, Of, Kinds
  <1>3. \A r \in NewResources(s) : r \in Resource /\ r.az = zone /\ r.spec = s
    BY <1>1, <1>2 DEF Of, Resource
  <1>4. /\ DOMAIN needs' = DOMAIN needs \cup NewResources(s)
        /\ \A r \in DOMAIN needs \ NewResources(s) : needs'[r] = needs[r]
        /\ \A r \in NewResources(s) :
             needs'[r] = NeedsOf(r)
                           \cup (IF r.kind = "route" THEN {GatewayOf(s)} ELSE {})
    BY DEF BuildSubnet, Register
  <1>5. CreatesGateway(s) => Of("nat", zone, s) \in NewResources(s)
    BY DEF NewResources
  <1> QED
    BY <1>1, <1>2, <1>3, <1>4, <1>5

LEMMA BuildSubnetInv ==
  ASSUME IInv, NEW s \in Pending, BuildSubnet(s)
  PROVE  IInv'
  <1>a. /\ DOMAIN needs' = DOMAIN needs \cup NewResources(s)
        /\ \A r \in DOMAIN needs \ NewResources(s) : needs'[r] = needs[r]
        /\ \A r \in NewResources(s) :
             /\ r \in Resource
             /\ r = Of(r.kind, zone, s)
             /\ r.az = zone /\ r.az # 0 /\ r.spec = s
             /\ NeedsOf(r) \subseteq needs'[r]
             /\ r.kind = "route" => GatewayOf(s) \in needs'[r] /\ HasGateway(s)
             /\ r.kind = "nat" => CreatesGateway(s)
        /\ CreatesGateway(s) => Of("nat", zone, s) \in NewResources(s)
    BY NeedsAfter
  <1>b. /\ \A g \in DOMAIN natGateways :
             GatewaysAfter(s)[g] = natGateways[g]
        /\ CreatesGateway(s) =>
             /\ DOMAIN GatewaysAfter(s) = DOMAIN natGateways \cup {zone}
             /\ zone \notin DOMAIN natGateways
             /\ Len(GatewaysAfter(s)) = zone
             /\ GatewaysAfter(s)[zone] = [gateway |-> Of("nat", zone, s),
                                          address |-> AddressOfGateway(s)]
        /\ ~CreatesGateway(s) => GatewaysAfter(s) = natGateways
    BY NewGateway
  <1>c. /\ \A g \in DOMAIN eips : EipsAfter(s)[g] = eips[g]
        /\ config.eips = 0 => Len(EipsAfter(s)) = Len(GatewaysAfter(s))
        /\ CreatesGateway(s) =>
             AddressOfGateway(s) =
               IF config.eips = 0 THEN Of("eip", zone, s)
                                  ELSE Of("supplied", zone, 0)
    BY EipsAfterFacts
  <1> USE DEF IInv
  <1>1. /\ pc = "zones"
        /\ zone \in Nat \ {0} /\ zone <= config.azCount
        /\ config.azCount \in Nat
        /\ s \in Specs /\ s \in Nat /\ s \notin placed
        /\ placed' = placed \cup {s}
        /\ natGateways' = GatewaysAfter(s)
        /\ eips' = EipsAfter(s)
        /\ UNCHANGED <<config, zone, resolved, failed, aborted>>
        /\ \/ UNCHANGED <<pc, fault>>
           \/ IsRouted(s) /\ ~HasGateway(s) /\ pc' = "threw"
                /\ fault' = "missingGateway"
    BY ConfigFacts DEF TypeOK, BuildSubnet, Pending, engine, Throw
  <1>2. /\ TypeOf(Of("nat", zone, s)) = config.types[s]
        /\ config.nat = "single" => GatewayIndex = 1
        /\ config.nat # "single" => GatewayIndex = zone
    BY DEF TypeOf, Of, GatewayIndex
  <1>3. EipCountIsValid
    BY <1>1 DEF Checked
  <1>4. PlacedPublic' <=> PlacedPublic \/ config.types[s] = "public"
    BY <1>1 DEF PlacedPublic
  <1>5. HasType({"public"})' <=> HasType({"public"})
    BY <1>1 DEF HasType
  <1>6. config.types[s] = "public" => HasType({"public"})
    BY <1>1 DEF HasType, Specs
  <1>7. (CheckPasses' <=> CheckPasses) /\ SubnetNeeds' = SubnetNeeds
    BY <1>1 DEF CheckPasses, NatStrategyIsServed, HasType, SubnetNeeds
  <1>8. CheckPasses => UNCHANGED pc
    BY <1>1, RoutesHaveGateway
  <1>9. Counted'
    <2>1. /\ zone' > config'.azCount => placed' = {}
          /\ pc' \in {"validate", "decide", "vpc", "igw"} =>
               zone' = 1 /\ placed' = {}
      BY <1>1
    <2>2. config.eips = 0 => Len(eips') = Len(natGateways')
      BY <1>1, <1>c
    <2>3. CASE CreatesGateway(s)
      <3>1. /\ Len(natGateways') = zone
            /\ config.nat # "none"
            /\ config.nat = "single" => zone = 1
            /\ config.types[s] = "public"
        BY <1>1, <2>3, <1>b, GatewayIsNext DEF CreatesGateway
      <3> QED
        BY <1>1, <1>4, <1>5, <1>6, <2>1, <2>2, <3>1 DEF Counted
    <2>4. CASE ~CreatesGateway(s) /\ config.types[s] = "public"
      BY <1>1, <1>4, <1>5, <1>6, <2>1, <2>2, <2>4, <1>b, GatewayIsThere
         DEF Counted
    <2>5. CASE config.types[s] # "public"
      <3>1. natGateways' = natGateways
        BY <1>1, <2>5, <1>b DEF CreatesGateway
      <3> QED
        BY <1>1, <1>4, <1>5, <2>1, <2>2, <2>5, <3>1 DEF Counted
    <2> QED
      BY <2>3, <2>4, <2>5
  <1>10. Gateways'
    <2> SUFFICES ASSUME NEW g \in DOMAIN natGateways' PROVE Gateway(g)'
      BY DEF Gateways
    <2>1. CASE g \in DOMAIN natGateways
      <3>1. Gateway(g) /\ natGateways'[g] = natGateways[g]
        BY <1>1, <2>1, <1>b DEF Gateways
      <3>2. natGateways[g].gateway \notin NewResources(s)
        BY <2>1, <3>1, <1>a, <1>b DEF Gateway
      <3>3. config.eips = 0 => eips'[g] = eips[g]
        BY <1>1, <2>1, <1>c DEF Counted, TypeOK
      <3> QED
        BY <1>1, <3>1, <3>2, <3>3, <1>a DEF Gateway, TypeOf, Of
    <2>2. CASE g \notin DOMAIN natGateways
      <3>1. CreatesGateway(s) /\ g = zone
        BY <1>1, <2>2, <1>b
      <3>2. natGateways'[g] = [gateway |-> Of("nat", zone, s),
                               address |-> AddressOfGateway(s)]
        BY <1>1, <3>1, <1>b
      <3>3. /\ Of("nat", zone, s) \in DOMAIN needs'
            /\ config.types[s] = "public"
        BY <3>1, <1>a DEF CreatesGateway
      <3>4. CASE config.eips = 0
        <4>1. eips'[zone] = Of("eip", zone, s)
              /\ AddressOfGateway(s) = Of("eip", zone, s)
          BY <1>1, <3>1, <3>4, <1>c DEF AddressOfGateway
        <4>2. Of("eip", zone, s) \in needs'[Of("nat", zone, s)]
          BY <3>1, <3>4, <1>a DEF NeedsOf, Of
        <4> QED
          BY <1>1, <1>2, <3>1, <3>2, <3>3, <3>4, <4>1, <4>2
             DEF Gateway, TypeOf, Of
      <3>5. CASE config.eips # 0
        <4>1. AddressOfGateway(s) = Of("supplied", zone, 0)
          BY <3>1, <3>5, <1>c
        <4>2. zone <= config.eips
          BY <1>1, <1>3, <3>1, <3>5, GatewayIsNext, ConfigFacts
             DEF TypeOK, EipCountIsValid
        <4> QED
          BY <1>1, <1>2, <3>1, <3>2, <3>3, <3>5, <4>1, <4>2
             DEF Gateway, TypeOf, Of
      <3> QED
        BY <3>4, <3>5
    <2> QED
      BY <2>1, <2>2
  <1>11. Hanging'
    <2> SUFFICES ASSUME NEW r \in DOMAIN needs', r.az # 0
                 PROVE  /\ config.promptSpecs => CheckPasses
                        /\ r.kind = "subnet" => SubnetNeeds \subseteq needs'[r]
                        /\ r.kind # "subnet" => \E q \in needs'[r] : q.az # 0
      BY <1>1, <1>7 DEF Hanging
    <2>1. CASE r \notin NewResources(s)
      BY <2>1, <1>a DEF Hanging
    <2>2. CASE r \in NewResources(s)
      <3>1. config.promptSpecs => CheckPasses
        BY <1>1 DEF Checked
      <3>2. r.kind \in {"subnet", "routeTable", "association", "nat", "eip",
                        "route"}
        BY <2>2 DEF NewResources, Of
      <3>3. CASE r.kind = "subnet"
        BY <2>2, <3>1, <3>3, <1>a DEF NeedsOf
      <3>4. CASE r.kind # "subnet"
        <4>1. CASE r.kind = "route"
          <5>1. NeedsOf(r) = {Of("routeTable", r.az, r.spec)}
            BY <4>1 DEF NeedsOf
          <5>2. Of("routeTable", r.az, r.spec) \in needs'[r]
            BY <2>2, <5>1, <1>a
          <5>3. Of("routeTable", r.az, r.spec).az # 0
            BY DEF Of
          <5> QED
            BY <3>1, <4>1, <5>2, <5>3
        <4>2. CASE r.kind # "route"
          <5>1. Of("subnet", r.az, r.spec) \in NeedsOf(r)
            BY <3>2, <3>4, <4>2 DEF NeedsOf
          <5> QED
            BY <2>2, <3>1, <3>4, <5>1, <1>a DEF Of
        <4> QED
          BY <4>1, <4>2
      <3> QED
        BY <3>3, <3>4
    <2> QED
      BY <2>1, <2>2
  <1>12. EgressInOwnZone'
    <2> SUFFICES ASSUME NEW r \in DOMAIN needs', r.kind = "route",
                        config.types[r.spec] = "private"
                 PROVE  \E g \in needs'[r] :
                          /\ g.kind = "nat"
                          /\ config.types[g.spec] = "public"
                          /\ g.az = IF config.nat = "single" THEN 1 ELSE r.az
                          /\ g \in DOMAIN needs'
      BY <1>1 DEF EgressInOwnZone, TypeOf
    <2>1. CASE r \notin NewResources(s)
      BY <2>1, <1>a DEF EgressInOwnZone, TypeOf
    <2>2. CASE r \in NewResources(s)
      <3>1. /\ HasGateway(s) /\ config.types[s] = "private" /\ r.az = zone
            /\ GatewayOf(s) \in needs'[r]
        BY <2>2, <1>a
      <3>2. GatewayIndex \in DOMAIN natGateways
            /\ GatewayOf(s) = natGateways[GatewayIndex].gateway
        BY <3>1 DEF HasGateway, GatewayOf
      <3>3. Gateway(GatewayIndex)
        BY <3>2 DEF Gateways
      <3> QED
        BY <1>2, <3>1, <3>2, <3>3, <1>a DEF Gateway, TypeOf
    <2> QED
      BY <2>1, <2>2
  <1>13. Checked'
    <2>1. config.promptVpc => CheckPasses
      BY <1>1, ConfigFacts DEF Checked, TypeOK
    <2> QED
      BY <1>1, <1>3, <1>7, <1>8, <2>1 DEF Checked, EipCountIsValid
  <1>14. TypeOK'
    <2>1. Len(natGateways') <= config'.azCount
      <3>1. CASE CreatesGateway(s)
        BY <1>1, <3>1, <1>b
      <3>2. CASE ~CreatesGateway(s)
        BY <1>1, <3>2, <1>b DEF TypeOK
      <3> QED
        BY <3>1, <3>2
    <2>2. DOMAIN needs' \subseteq Resource /\ DOMAIN needs \subseteq DOMAIN needs'
      BY <1>a DEF TypeOK
    <2>3. DOMAIN ipv6Index' \subseteq Resource
      <3>1. Of("subnet", zone, s) \in NewResources(s)
        BY DEF NewResources
      <3> QED
        BY <3>1, <1>a DEF BuildSubnet, TypeOK
    <2> QED
      BY <1>1, <2>1, <2>2, <2>3, NewGateway, EipsAfterFacts
         DEF TypeOK, Faults, Specs
  <1>15. CheckHolds' /\ RefusedLayoutBuildsNothing'
    BY <1>1, <1>7 DEF CheckHolds, RefusedLayoutBuildsNothing
  <1> QED
    BY <1>9, <1>10, <1>11, <1>12, <1>13, <1>14, <1>15

-----------------------------------------------------------------------------
(* The engine creates nothing for a zone unless the checks pass.           *)
LEMMA CreateInv == ASSUME IInv, NEW r \in DOMAIN needs, Create(r) PROVE IInv'
  <1> USE DEF IInv, Create, program, IsReady
  <1>1. TypeOK' /\ Checked' /\ Counted' /\ Gateways' /\ Hanging'
        /\ EgressInOwnZone'
    BY DEF TypeOK, Checked, EipCountIsValid, CheckPasses, NatStrategyIsServed,
           HasType, Counted, PlacedPublic, Gateways, Gateway, TypeOf, Of,
           Hanging, SubnetNeeds, EgressInOwnZone, Specs
  <1>2. CheckPasses' <=> CheckPasses
    BY DEF CheckPasses, NatStrategyIsServed, HasType
  <1>3. CheckHolds'
    BY <1>2 DEF CheckHolds, InputRejects, Single
  <1>4. ASSUME ~CheckPasses PROVE r.az = 0
    <2> SUFFICES ASSUME r.az # 0 PROVE FALSE
      OBVIOUS
    <2>1. ~config.promptSpecs
      BY <1>4 DEF Hanging
    <2>2. CASE r.kind = "subnet"
      BY <1>4, <2>1, <2>2 DEF Hanging, SubnetNeeds, CheckHolds
    <2>3. CASE r.kind # "subnet"
      BY <1>4, <2>3 DEF Hanging, RefusedLayoutBuildsNothing
    <2> QED
      BY <2>2, <2>3
  <1>5. RefusedLayoutBuildsNothing'
    BY <1>2, <1>4 DEF RefusedLayoutBuildsNothing
  <1> QED
    BY <1>1, <1>3, <1>5

LEMMA FailOrAbortInv ==
  ASSUME IInv, UNCHANGED <<program, resolved>>,
         failed' \subseteq failed \cup DOMAIN needs
  PROVE  IInv'
  BY DEF IInv, program, TypeOK, Checked, EipCountIsValid, CheckPasses,
         NatStrategyIsServed, HasType, Counted, PlacedPublic, Gateways, Gateway,
         TypeOf, Of, Hanging, SubnetNeeds, EgressInOwnZone, Specs, CheckHolds,
         RefusedLayoutBuildsNothing

LEMMA StepInv == IInv /\ [Next]_vars => IInv'
  <1> SUFFICES ASSUME IInv, [Next]_vars PROVE IInv'
    OBVIOUS
  <1>1. CASE Initialize
    BY <1>1, ValidateArgsInv, RegisterVpcInv, DecideInv, RegisterIgwInv,
       BuildSubnetInv, NextZoneInv, RegisterEndpointInv
       DEF Initialize
  <1>2. ASSUME NEW r \in DOMAIN needs, Create(r) PROVE IInv'
    BY <1>2, CreateInv
  <1>3. ASSUME NEW r \in DOMAIN needs, Fail(r) PROVE IInv'
    BY <1>3, FailOrAbortInv DEF Fail
  <1>4. CASE Abort
    BY <1>4, FailOrAbortInv DEF Abort
  <1>5. CASE UNCHANGED vars
    BY <1>5, FailOrAbortInv DEF vars, engine
  <1> QED
    BY <1>1, <1>2, <1>3, <1>4, <1>5 DEF Next, Engine

THEOREM Invariance == Spec => []IInv
  BY InitInv, StepInv, PTL DEF Spec

(* Every variable keeps its type, and there is at most one NAT gateway per *)
(* zone.                                                                   *)
THEOREM TypeCorrect == Spec => []TypeOK
  <1>1. IInv => TypeOK
    BY DEF IInv
  <1> QED
    BY <1>1, Invariance, PTL

(* With the VPC's range known, a refused call registers nothing.           *)
THEOREM RefusalIsClean == Spec => []PromptRefusalIsClean
  <1>1. IInv => PromptRefusalIsClean
    BY DEF IInv, Checked, PromptRefusalIsClean
  <1> QED
    BY <1>1, Invariance, PTL

(* A layout that fails the checks, run at once or in an apply, never has a *)
(* subnet nor anything made for one, in whatever order the engine works.   *)
THEOREM NothingOfRefusedLayout == Spec => []RefusedLayoutBuildsNothing
  <1>1. IInv => RefusedLayoutBuildsNothing
    BY DEF IInv
  <1> QED
    BY <1>1, Invariance, PTL

(* Both together: a refusal leaves nothing that the refused part needs.    *)
THEOREM RefusalsLeaveNothing == Spec => []RefusalsAreClean
  BY RefusalIsClean, NothingOfRefusedLayout, PTL DEF RefusalsAreClean

(* Private subnets leave by the NAT gateway of their own zone, or of the   *)
(* first with a single gateway.                                            *)
THEOREM EgressIsZonal == Spec => []EgressInOwnZone
  <1>1. IInv => EgressInOwnZone
    BY DEF IInv
  <1> QED
    BY <1>1, Invariance, PTL

(* No two gateways share an address, and each has one.                     *)
THEOREM AddressesAreOwn == Spec => []GatewaysHaveOwnAddress
  <1>1. ASSUME IInv PROVE GatewaysHaveOwnAddress
    <2> SUFFICES ASSUME NEW g \in DOMAIN natGateways
                 PROVE  /\ \A h \in 1..(g - 1) :
                             natGateways[h].address # natGateways[g].address
                        /\ IF config.eips = 0
                           THEN natGateways[g].address
                                  \in needs[natGateways[g].gateway]
                           ELSE natGateways[g].address.az <= config.eips
      BY DEF GatewaysHaveOwnAddress
    <2>1. g \in Nat \ {0} /\ \A h \in 1..(g - 1) : h \in DOMAIN natGateways
      BY <1>1 DEF IInv, TypeOK
    <2>2. ASSUME NEW h \in DOMAIN natGateways
          PROVE  natGateways[h].address.az = h
      <3>1. Gateway(h)
        BY <1>1 DEF IInv, Gateways
      <3>2. CASE config.eips = 0
        BY <3>1, <3>2 DEF Gateway
      <3>3. CASE config.eips # 0
        BY <3>1, <3>3 DEF Gateway, Of
      <3> QED
        BY <3>2, <3>3
    <2>3. Gateway(g)
      BY <1>1 DEF IInv, Gateways
    <2> QED
      BY <2>1, <2>2, <2>3 DEF Gateway, Of
  <1> QED
    BY <1>1, Invariance, PTL

-----------------------------------------------------------------------------
(***************************************************************************)
(* VpcNetwork implements NetworkPromise.                                   *)
(***************************************************************************)

(* What belongs to a zone was registered for a spec the loop has placed,   *)
(* and once: what it waits for does not change.                            *)
Fresh ==
  \A r \in DOMAIN needs :
    r.az # 0 => r.az < zone \/ (r.az = zone /\ r.spec \in placed)

(* What the resources on a packet's way wait for.                          *)
Shape(r) ==
  /\ r.kind \in {"subnet", "routeTable", "nat", "route"} => r.az # 0
  /\ r.kind \in {"routeTable", "nat"} => Of("subnet", r.az, r.spec) \in needs[r]
  /\ r.kind = "route" =>
       /\ Of("routeTable", r.az, r.spec) \in needs[r]
       /\ \/ TypeOf(r) = "public" /\ Single("igw") \in needs[r]
          \/ /\ TypeOf(r) = "private" /\ Single("igw") \notin needs[r]
             /\ \E g \in needs[r] : g.kind = "nat"
             /\ \A g \in needs[r] : g.kind = "nat" => TypeOf(g) = "public"

Shaped == \A r \in DOMAIN needs : Shape(r)

(* What exists has what it waits for.                                      *)
ClosedUnderNeeds == \A r \in resolved : r.az # 0 => needs[r] \subseteq resolved

(* When the subnets and the check are registered.                          *)
Phased ==
  /\ \A r \in DOMAIN needs : r.az # 0 => pc \in {"zones", "done", "threw"}
  /\ Single("check") \in DOMAIN needs => pc \in {"igw", "zones", "done", "threw"}

(* Why initialize throws, and why the check fails.                         *)
RefusedForCause ==
  /\ pc = "threw" => ~CheckPasses \/ \A r \in DOMAIN needs : r.az = 0
  /\ Single("check") \in failed => ~CheckPasses

PInv == Fresh /\ Shaped /\ ClosedUnderNeeds /\ Phased /\ RefusedForCause

-----------------------------------------------------------------------------
LEMMA InitPromiseInv == Init => PInv
  <1> SUFFICES ASSUME Init PROVE PInv
    OBVIOUS
  <1>1. DOMAIN needs = {} /\ resolved = {} /\ failed = {} /\ pc = "validate"
    BY DEF Init
  <1> QED
    BY <1>1 DEF PInv, Fresh, Shaped, ClosedUnderNeeds, Phased, RefusedForCause

(* Registering what belongs to no zone changes nothing of the zones.       *)
LEMMA SinglesKeep ==
  ASSUME IInv, PInv, UNCHANGED <<config, zone, placed, resolved>>,
         DOMAIN needs \subseteq DOMAIN needs',
         \A r \in DOMAIN needs' \ DOMAIN needs :
           r.az = 0 /\ r.kind \notin {"subnet", "routeTable", "nat", "route"},
         \A r \in DOMAIN needs : r.az # 0 => needs'[r] = needs[r]
  PROVE  Fresh' /\ Shaped' /\ ClosedUnderNeeds'
  <1>1. Fresh'
    BY DEF PInv, Fresh
  <1>2. ClosedUnderNeeds'
    BY DEF PInv, ClosedUnderNeeds, IInv, TypeOK
  <1>3. Shaped'
    <2> SUFFICES ASSUME NEW r \in DOMAIN needs' PROVE Shape(r)'
      BY DEF Shaped
    <2>1. CASE r \notin DOMAIN needs
      BY <2>1 DEF Shape
    <2>2. CASE r \in DOMAIN needs
      <3>1. Shape(r)
        BY <2>2 DEF PInv, Shaped
      <3>2. r.az # 0 => needs'[r] = needs[r]
        BY <2>2
      <3> QED
        BY <3>1, <3>2 DEF Shape, TypeOf, Of, Single
    <2> QED
      BY <2>1, <2>2
  <1> QED
    BY <1>1, <1>2, <1>3

LEMMA PassesKept == UNCHANGED config => (CheckPasses' <=> CheckPasses)
  BY DEF CheckPasses, NatStrategyIsServed, HasType

LEMMA ValidateArgsPromise == IInv /\ PInv /\ ValidateArgs => PInv'
  <1> SUFFICES ASSUME IInv, PInv, ValidateArgs PROVE PInv'
    OBVIOUS
  <1>1. UNCHANGED <<config, zone, placed, needs, resolved, failed>> /\ pc = "validate"
    BY DEF ValidateArgs, engine
  <1>2. Fresh' /\ Shaped' /\ ClosedUnderNeeds'
    BY <1>1, SinglesKeep
  <1>3. \A r \in DOMAIN needs : r.az = 0
    BY <1>1 DEF PInv, Phased
  <1>4. Single("check") \notin DOMAIN needs
    BY <1>1 DEF PInv, Phased
  <1>5. Phased' /\ RefusedForCause'
    BY <1>1, <1>3, <1>4, PassesKept DEF PInv, Phased, RefusedForCause, Single
  <1> QED
    BY <1>2, <1>5 DEF PInv

LEMMA RegisterVpcPromise == IInv /\ PInv /\ RegisterVpc => PInv'
  <1> SUFFICES ASSUME IInv, PInv, RegisterVpc PROVE PInv'
    OBVIOUS
  <1>1. /\ UNCHANGED <<config, zone, placed, resolved, failed>>
        /\ pc = "vpc" /\ pc' \in {"igw", "decide"}
    BY DEF RegisterVpc, engine
  <1>2. /\ DOMAIN needs' = DOMAIN needs \cup {Single("vpc")}
        /\ \A r \in DOMAIN needs \ {Single("vpc")} : needs'[r] = needs[r]
    BY DEF RegisterVpc, Register
  <1>3. Single("vpc").az = 0 /\ Single("vpc").kind = "vpc"
        /\ Single("vpc") # Single("check")
    BY DEF Single
  <1>4. Fresh' /\ Shaped' /\ ClosedUnderNeeds'
    BY <1>1, <1>2, <1>3, SinglesKeep
  <1>5. Phased' /\ RefusedForCause'
    BY <1>1, <1>2, <1>3, PassesKept DEF PInv, Phased, RefusedForCause, Single
  <1> QED
    BY <1>4, <1>5 DEF PInv

LEMMA DecidePromise == IInv /\ PInv /\ Decide => PInv'
  <1> SUFFICES ASSUME IInv, PInv, Decide PROVE PInv'
    OBVIOUS
  <1>1. /\ UNCHANGED <<config, zone, placed, resolved, failed>>
        /\ pc = "decide" /\ pc' \in {"igw", "vpc", "threw"}
        /\ pc' = "threw" => ~CheckPasses
    BY DEF Decide, engine, Throw
  <1>2. /\ DOMAIN needs \subseteq DOMAIN needs'
        /\ DOMAIN needs' \subseteq DOMAIN needs \cup {Single("check")}
        /\ \A r \in DOMAIN needs \ {Single("check")} : needs'[r] = needs[r]
        /\ Single("check") \in DOMAIN needs' => pc' = "igw"
    BY DEF Decide, Register, PInv, Phased
  <1>3. Single("check").az = 0 /\ Single("check").kind = "check"
    BY DEF Single
  <1>4. Fresh' /\ Shaped' /\ ClosedUnderNeeds'
    BY <1>1, <1>2, <1>3, SinglesKeep
  <1>5. Phased' /\ RefusedForCause'
    BY <1>1, <1>2, <1>3, PassesKept DEF PInv, Phased, RefusedForCause, Single
  <1> QED
    BY <1>4, <1>5 DEF PInv

LEMMA RegisterIgwPromise == IInv /\ PInv /\ RegisterIgw => PInv'
  <1> SUFFICES ASSUME IInv, PInv, RegisterIgw PROVE PInv'
    OBVIOUS
  <1>1. /\ UNCHANGED <<config, zone, placed, resolved, failed>>
        /\ pc = "igw" /\ pc' = "zones"
    BY DEF RegisterIgw, engine
  <1>2. /\ DOMAIN needs' = DOMAIN needs \cup {Single("igw")}
        /\ \A r \in DOMAIN needs \ {Single("igw")} : needs'[r] = needs[r]
    BY DEF RegisterIgw, Register
  <1>3. Single("igw").az = 0 /\ Single("igw").kind = "igw"
    BY DEF Single
  <1>4. Fresh' /\ Shaped' /\ ClosedUnderNeeds'
    BY <1>1, <1>2, <1>3, SinglesKeep
  <1>5. Phased' /\ RefusedForCause'
    BY <1>1, <1>2, <1>3, PassesKept DEF PInv, Phased, RefusedForCause, Single
  <1> QED
    BY <1>4, <1>5 DEF PInv

LEMMA RegisterEndpointPromise == IInv /\ PInv /\ RegisterEndpoint => PInv'
  <1> SUFFICES ASSUME IInv, PInv, RegisterEndpoint PROVE PInv'
    OBVIOUS
  <1> DEFINE extra == {Single("securityGroup"), Single("ingress"),
                       Single("endpoint")}
  <1>1. /\ UNCHANGED <<config, zone, placed, resolved, failed>>
        /\ pc = "zones" /\ pc' = "done"
    BY DEF RegisterEndpoint, engine
  <1>2. /\ DOMAIN needs \subseteq DOMAIN needs'
        /\ DOMAIN needs' \subseteq DOMAIN needs \cup extra
        /\ \A r \in DOMAIN needs \ extra : needs'[r] = needs[r]
    BY DEF RegisterEndpoint, Register, Single
  <1>3. \A r \in extra : r.az = 0 /\ r.kind \notin {"subnet", "routeTable", "nat", "route"}
    BY DEF Single
  <1> HIDE DEF extra
  <1>4. Fresh' /\ Shaped' /\ ClosedUnderNeeds'
    BY <1>1, <1>2, <1>3, SinglesKeep
  <1>5. Phased' /\ RefusedForCause'
    BY <1>1, <1>2, <1>3, PassesKept DEF PInv, Phased, RefusedForCause, Single
  <1> QED
    BY <1>4, <1>5 DEF PInv

LEMMA NextZonePromise == IInv /\ PInv /\ NextZone => PInv'
  <1> SUFFICES ASSUME IInv, PInv, NextZone PROVE PInv'
    OBVIOUS
  <1>1. /\ UNCHANGED <<config, pc, needs, resolved, failed>>
        /\ zone' = zone + 1
    BY DEF NextZone, engine
  <1>2. /\ zone \in Nat
        /\ \A r \in DOMAIN needs : r.az \in Nat
    BY ConfigFacts DEF IInv, TypeOK, Resource
  <1>3. Fresh'
    BY <1>1, <1>2 DEF PInv, Fresh
  <1>4. Shaped' /\ ClosedUnderNeeds' /\ Phased' /\ RefusedForCause'
    BY <1>1, PassesKept
       DEF PInv, Shaped, Shape, TypeOf, ClosedUnderNeeds, Phased, RefusedForCause
  <1> QED
    BY <1>3, <1>4 DEF PInv

(* The loop's body: what it registers is new, and its route leaves by the  *)
(* internet gateway or by a NAT gateway in a public subnet.                *)
LEMMA BuildSubnetPromise ==
  ASSUME IInv, PInv, NEW s \in Pending, BuildSubnet(s)
  PROVE  PInv'
  <1>1. /\ DOMAIN needs' = DOMAIN needs \cup NewResources(s)
        /\ \A r \in DOMAIN needs \ NewResources(s) : needs'[r] = needs[r]
        /\ \A r \in NewResources(s) :
             /\ r \in Resource
             /\ r = Of(r.kind, zone, s)
             /\ r.az = zone /\ r.az # 0 /\ r.spec = s
             /\ NeedsOf(r) \subseteq needs'[r]
             /\ r.kind = "route" => GatewayOf(s) \in needs'[r] /\ HasGateway(s)
    BY NeedsAfter
  <1>2. /\ pc = "zones" /\ s \notin placed
        /\ zone \in Nat
        /\ placed' = placed \cup {s}
        /\ UNCHANGED <<config, zone, resolved, failed>>
        /\ pc' \in {"zones", "threw"}
        /\ pc' = "threw" => IsRouted(s) /\ ~HasGateway(s)
    BY ConfigFacts DEF IInv, TypeOK, BuildSubnet, Pending, engine, Throw
  <1>3. \A r \in DOMAIN needs : r \notin NewResources(s) /\ needs'[r] = needs[r]
    BY <1>1, <1>2 DEF PInv, Fresh
  <1>4. Fresh'
    BY <1>1, <1>2 DEF PInv, Fresh
  <1>5. ClosedUnderNeeds'
    BY <1>2, <1>3 DEF PInv, ClosedUnderNeeds, IInv, TypeOK
  <1>6. Phased'
    BY <1>1, <1>2 DEF PInv, Phased, Single
  <1>7. RefusedForCause'
    BY <1>2, RoutesHaveGateway, PassesKept DEF PInv, RefusedForCause
  <1>8. Shaped'
    <2> SUFFICES ASSUME NEW r \in DOMAIN needs' PROVE Shape(r)'
      BY DEF Shaped
    <2>1. CASE r \in DOMAIN needs
      <3>1. Shape(r) /\ needs'[r] = needs[r]
        BY <1>3, <2>1 DEF PInv, Shaped
      <3> QED
        BY <1>2, <3>1 DEF Shape, TypeOf, Of, Single
    <2>2. CASE r \in NewResources(s)
      <3>1. r.az # 0 /\ r.spec = s
        BY <1>1, <2>2
      <3>2. r.kind \in {"routeTable", "nat"} =>
              Of("subnet", r.az, r.spec) \in needs'[r]
        BY <1>1, <2>2 DEF NeedsOf
      <3>3. ASSUME r.kind = "route"
            PROVE  /\ Of("routeTable", r.az, r.spec) \in needs'[r]
                   /\ \/ config.types[s] = "public" /\ Single("igw") \in needs'[r]
                      \/ /\ config.types[s] = "private"
                         /\ Single("igw") \notin needs'[r]
                         /\ \E g \in needs'[r] : g.kind = "nat"
                         /\ \A g \in needs'[r] :
                              g.kind = "nat" => config.types[g.spec] = "public"
        <4>1. NeedsOf(r) = {Of("routeTable", r.az, r.spec)}
          BY <3>3 DEF NeedsOf
        <4>2. needs'[r] = {Of("routeTable", r.az, r.spec), GatewayOf(s)}
          <5>1. needs'[r] = NeedsOf(r) \cup {GatewayOf(s)}
            BY <2>2, <3>3 DEF BuildSubnet, Register
          <5> QED
            BY <4>1, <5>1
        <4>3. config.types[s] \in {"public", "private"} /\ HasGateway(s)
          <5>1. IsRouted(s) /\ HasGateway(s)
            BY <2>2, <3>3 DEF NewResources, Of
          <5> QED
            BY <5>1 DEF IsRouted
        <4>4. CASE config.types[s] = "public"
          BY <4>2, <4>4 DEF GatewayOf
        <4>5. CASE config.types[s] = "private"
          <5>1. /\ GatewayIndex \in DOMAIN natGateways
                /\ GatewayOf(s) = natGateways[GatewayIndex].gateway
            BY <4>3, <4>5 DEF HasGateway, GatewayOf
          <5>2. Gateway(GatewayIndex)
            BY <5>1 DEF IInv, Gateways
          <5>3. GatewayOf(s).kind = "nat" /\ config.types[GatewayOf(s).spec] = "public"
            BY <5>1, <5>2 DEF Gateway, TypeOf
          <5>4. /\ Of("routeTable", r.az, r.spec).kind = "routeTable"
                /\ Single("igw").kind = "igw"
            BY DEF Of, Single
          <5> QED
            BY <4>2, <4>5, <5>3, <5>4
        <4> QED
          BY <4>2, <4>3, <4>4, <4>5
      <3>4. TypeOf(r)' = config.types[s]
        BY <1>2, <3>1 DEF TypeOf
      <3>5. \A g : TypeOf(g)' = config.types[g.spec]
        BY <1>2 DEF TypeOf
      <3> QED
        BY <3>1, <3>2, <3>3, <3>4, <3>5 DEF Shape, Of, Single
    <2> QED
      BY <1>1, <2>1, <2>2
  <1> QED
    BY <1>4, <1>5, <1>6, <1>7, <1>8 DEF PInv

LEMMA EnginePromise ==
  ASSUME IInv, PInv, UNCHANGED program, resolved \subseteq resolved',
         \A r \in resolved' \ resolved : needs[r] \subseteq resolved,
         Single("check") \in failed' \ failed => ~CheckPasses
  PROVE  PInv'
  <1>1. UNCHANGED <<config, pc, zone, placed, needs>>
    BY DEF program
  <1>2. Fresh' /\ Shaped' /\ Phased'
    BY <1>1 DEF PInv, Fresh, Shaped, Shape, TypeOf, Phased
  <1>3. ClosedUnderNeeds'
    BY <1>1 DEF PInv, ClosedUnderNeeds
  <1>4. RefusedForCause'
    BY <1>1, PassesKept DEF PInv, RefusedForCause
  <1> QED
    BY <1>2, <1>3, <1>4 DEF PInv

LEMMA CreatePromise ==
  ASSUME IInv, PInv, NEW r \in DOMAIN needs, Create(r)
  PROVE  PInv'
  BY EnginePromise DEF Create, IsReady

LEMMA FailPromise ==
  ASSUME IInv, PInv, NEW r \in DOMAIN needs, Fail(r)
  PROVE  PInv'
  <1>1. Single("check") \in failed' \ failed => ~CheckPasses
    BY DEF Fail, InputRejects, Single
  <1> QED
    BY <1>1, EnginePromise DEF Fail

LEMMA PromiseInvStep == IInv /\ PInv /\ [Next]_vars => PInv'
  <1> SUFFICES ASSUME IInv, PInv, [Next]_vars PROVE PInv'
    OBVIOUS
  <1>1. CASE Initialize
    BY <1>1, ValidateArgsPromise, RegisterVpcPromise, DecidePromise,
       RegisterIgwPromise, BuildSubnetPromise, NextZonePromise,
       RegisterEndpointPromise
       DEF Initialize
  <1>2. ASSUME NEW r \in DOMAIN needs, Create(r) PROVE PInv'
    BY <1>2, CreatePromise
  <1>3. ASSUME NEW r \in DOMAIN needs, Fail(r) PROVE PInv'
    BY <1>3, FailPromise
  <1>4. CASE Abort
    BY <1>4, EnginePromise DEF Abort
  <1>5. CASE UNCHANGED vars
    BY <1>5, EnginePromise DEF vars, engine
  <1> QED
    BY <1>1, <1>2, <1>3, <1>4, <1>5 DEF Next, Engine

-----------------------------------------------------------------------------
(* What NetworkPromise sees.  The verdict, by the two facts it rests on.   *)
IsRefused == pc = "threw" \/ Single("check") \in failed

IsPassed ==
  \/ Single("check") \in resolved
  \/ config.promptSpecs /\ pc \in {"igw", "zones", "done"}
  \/ config.promptSpecs /\ config.promptVpc /\ pc = "vpc"

LEMMA VerdictIs ==
  Verdict = IF IsRefused THEN "refused" ELSE IF IsPassed THEN "accepted" ELSE "pending"
  <1>1. CASE IsRefused
    BY <1>1 DEF Verdict, IsRefused
  <1>2. CASE ~IsRefused /\ IsPassed
    BY <1>2 DEF Verdict, IsRefused, IsPassed
  <1>3. CASE ~IsRefused /\ ~IsPassed
    BY <1>3 DEF Verdict, IsRefused, IsPassed
  <1> QED
    BY <1>1, <1>2, <1>3

LEMMA PassedPasses ==
  ASSUME IInv, IsPassed
  PROVE  CheckPasses
  BY DEF IInv, Checked, CheckHolds, IsPassed

(* A verdict, once given, stays.                                           *)
LEMMA VerdictMoves ==
  ASSUME IsRefused => IsRefused',
         IsPassed /\ ~IsRefused => IsPassed' /\ ~IsRefused'
  PROVE  \/ Verdict' = Verdict
         \/ Verdict = "pending" /\ Verdict' \in {"accepted", "refused"}
  <1>1. CASE IsRefused'
    BY <1>1, VerdictIs DEF Verdict, IsRefused
  <1>2. CASE ~IsRefused' /\ IsPassed'
    BY <1>2, VerdictIs DEF Verdict, IsRefused, IsPassed
  <1>3. CASE ~IsRefused' /\ ~IsPassed'
    <2>1. Verdict' = "pending"
      BY <1>3 DEF Verdict, IsRefused, IsPassed
    <2> QED
      BY <1>3, <2>1, VerdictIs
  <1> QED
    BY <1>1, <1>2, <1>3

(* A route is found again by the subnet it belongs to.                     *)
LEMMA RouteOfSubnet ==
  ASSUME NEW r \in Resource
  PROVE  Of(r.kind, SubnetOf(r).az, SubnetOf(r).spec) = r
  BY DEF Resource, SubnetOf, Of

Routes == {q \in resolved : q.kind = "route"}

LEMMA EgressIs ==
  /\ DOMAIN Egress = {SubnetOf(r) : r \in Routes}
  /\ \A s \in DOMAIN Egress : Egress[s] = LeavesThrough(s)
  BY DEF Egress, Routes

LEMMA BuiltKept ==
  ASSUME UNCHANGED config,
         {q \in resolved' : q.kind = "subnet"} = {q \in resolved : q.kind = "subnet"}
  PROVE  Built' = Built
  <1>1. \A r : SubnetOf(r)' = SubnetOf(r)
    BY DEF SubnetOf, TypeOf
  <1> QED
    BY <1>1 DEF Built

LEMMA EgressKept ==
  ASSUME IInv, UNCHANGED config, Routes' = Routes,
         \A r \in Routes : needs'[r] = needs[r]
  PROVE  Egress' = Egress
  <1>1. \A r : SubnetOf(r)' = SubnetOf(r)
    BY DEF SubnetOf, TypeOf
  <1>2. ASSUME NEW s \in {SubnetOf(r) : r \in Routes}
        PROVE  LeavesThrough(s)' = LeavesThrough(s)
    <2>1. PICK r \in Routes : s = SubnetOf(r)
      OBVIOUS
    <2>2. r \in Resource /\ r.kind = "route"
      BY DEF Routes, IInv, TypeOK
    <2>3. Of("route", s.az, s.spec) = r
      BY <2>1, <2>2, RouteOfSubnet
    <2> QED
      BY <1>1, <2>3 DEF LeavesThrough
  <1>3. {SubnetOf(r)' : r \in Routes'} = {SubnetOf(r) : r \in Routes}
    BY <1>1
  <1>4. Egress = [s \in {SubnetOf(r) : r \in Routes} |-> LeavesThrough(s)]
    BY DEF Egress, Routes
  <1>5. Egress' = [s \in {SubnetOf(r)' : r \in Routes'} |-> LeavesThrough(s)']
    BY DEF Egress, Routes
  <1> QED
    BY <1>2, <1>3, <1>4, <1>5

(* initialize changes no zone's resources once they are registered.        *)
LEMMA NeedsKept ==
  ASSUME IInv, PInv, Initialize, NEW r \in DOMAIN needs, r.az # 0
  PROVE  needs'[r] = needs[r]
  <1>1. CASE ValidateArgs \/ NextZone
    BY <1>1 DEF ValidateArgs, NextZone
  <1>2. CASE RegisterVpc
    BY <1>2 DEF RegisterVpc, Register, Single
  <1>3. CASE Decide
    BY <1>3 DEF Decide, Register, Single
  <1>4. CASE RegisterIgw
    BY <1>4 DEF RegisterIgw, Register, Single
  <1>5. CASE RegisterEndpoint
    <2> DEFINE new == CASE config.endpoint = "interface" ->
                             {Single("securityGroup"), Single("ingress"),
                              Single("endpoint")}
                        [] config.endpoint = "gateway" -> {Single("endpoint")}
                        [] OTHER -> {}
    <2>1. r \notin new
      BY DEF Single
    <2> HIDE DEF new
    <2>2. needs' = [q \in DOMAIN needs \cup new |->
                      IF q \in new
                      THEN IF q.kind = "endpoint" THEN EndpointNeeds ELSE NeedsOf(q)
                      ELSE needs[q]]
      BY <1>5 DEF RegisterEndpoint, Register, new
    <2> QED
      BY <2>1, <2>2
  <1>6. ASSUME NEW s \in Pending, BuildSubnet(s) PROVE needs'[r] = needs[r]
    <2>1. s \notin placed /\ zone \in Nat
      BY <1>6, ConfigFacts DEF BuildSubnet, Pending, IInv, TypeOK
    <2>2. /\ \A q \in DOMAIN needs \ NewResources(s) : needs'[q] = needs[q]
          /\ \A q \in NewResources(s) : q.az = zone /\ q.spec = s
      BY <1>6, NeedsAfter
    <2> QED
      BY <2>1, <2>2 DEF PInv, Fresh
  <1> QED
    BY <1>1, <1>2, <1>3, <1>4, <1>5, <1>6 DEF Initialize

-----------------------------------------------------------------------------
LEMMA InitImplements == Init => Promise!Init
  <1> SUFFICES ASSUME Init PROVE Promise!Init
    OBVIOUS
  <1>1. resolved = {} /\ failed = {} /\ pc = "validate"
    BY DEF Init
  <1>2. Verdict = "pending"
    BY <1>1, VerdictIs DEF IsRefused, IsPassed
  <1>3. Built = {} /\ Egress = [s \in {} |-> "internet"]
    BY <1>1 DEF Built, Egress
  <1> QED
    BY <1>2, <1>3 DEF Promise!Init

LEMMA VerdictOnly ==
  ASSUME \/ Verdict' = Verdict
         \/ Verdict = "pending" /\ Verdict' \in {"accepted", "refused"},
         Built' = Built, Egress' = Egress
  PROVE  [Promise!Next]_(Promise!vars)
  BY DEF Promise!Next, Promise!Judge, Promise!vars

(* What initialize does can be seen only as the verdict.                   *)
LEMMA InitializeImplements ==
  ASSUME IInv, PInv, Initialize
  PROVE  [Promise!Next]_(Promise!vars)
  <1>1. UNCHANGED <<config, resolved, failed>> /\ pc # "threw"
    BY DEF Initialize, ValidateArgs, RegisterVpc, Decide, RegisterIgw, BuildSubnet,
           NextZone, RegisterEndpoint, engine
  <1>2. Built' = Built
    BY <1>1, BuiltKept
  <1>3. Egress' = Egress
    <2>1. Routes' = Routes
      BY <1>1 DEF Routes
    <2>2. \A r \in Routes : r \in DOMAIN needs /\ r.az # 0
      BY DEF Routes, IInv, TypeOK, PInv, Shaped, Shape
    <2>3. \A r \in Routes : needs'[r] = needs[r]
      BY <2>2, NeedsKept
    <2> QED
      BY <1>1, <2>1, <2>3, EgressKept
  <1>4. Single("check")' = Single("check")
    BY DEF Single
  <1>5. IsRefused => IsRefused'
    BY <1>1, <1>4 DEF IsRefused
  <1>6. ASSUME IsPassed, ~IsRefused PROVE IsPassed' /\ ~IsRefused'
    <2>1. CheckPasses
      BY <1>6, PassedPasses
    <2>2. pc \in {"igw", "zones", "done"} \/ (config.promptVpc /\ pc = "vpc")
      <3>1. CASE Single("check") \in resolved
        <4>1. Single("check") \in DOMAIN needs
          BY <3>1 DEF IInv, TypeOK
        <4> QED
          BY <1>1, <4>1 DEF PInv, Phased
      <3> QED
        BY <1>6, <3>1 DEF IsPassed
    <2>3. pc' \in {"igw", "zones", "done"}
      <3>1. CASE ValidateArgs \/ Decide
        BY <2>2, <3>1 DEF ValidateArgs, Decide
      <3>2. CASE RegisterVpc \/ RegisterIgw \/ NextZone \/ RegisterEndpoint
        BY <2>2, <3>2 DEF RegisterVpc, RegisterIgw, NextZone, RegisterEndpoint
      <3>3. ASSUME NEW s \in Pending, BuildSubnet(s) PROVE pc' = "zones"
        BY <2>1, <3>3, RoutesHaveGateway DEF BuildSubnet
      <3> QED
        BY <3>1, <3>2, <3>3 DEF Initialize
    <2> QED
      BY <1>1, <1>4, <1>6, <2>3 DEF IsPassed, IsRefused
  <1>7. \/ Verdict' = Verdict
        \/ Verdict = "pending" /\ Verdict' \in {"accepted", "refused"}
    BY <1>5, <1>6, VerdictMoves
  <1> QED
    BY <1>2, <1>3, <1>7, VerdictOnly

-----------------------------------------------------------------------------
LEMMA VerdictKept ==
  ASSUME IsRefused' <=> IsRefused, IsPassed' <=> IsPassed
  PROVE  Verdict' = Verdict
  <1>1. CASE IsRefused'
    BY <1>1, VerdictIs DEF Verdict, IsRefused
  <1>2. CASE ~IsRefused' /\ IsPassed'
    BY <1>2, VerdictIs DEF Verdict, IsRefused, IsPassed
  <1>3. CASE ~IsRefused' /\ ~IsPassed'
    <2>1. Verdict' = "pending"
      BY <1>3 DEF Verdict, IsRefused, IsPassed
    <2> QED
      BY <1>3, <2>1, VerdictIs
  <1> QED
    BY <1>1, <1>2, <1>3

(* A subnet comes up only when the layout has been accepted.               *)
LEMMA SubnetAfterVerdict ==
  ASSUME IInv, PInv, IInv', NEW r \in DOMAIN needs, Create(r), r.kind = "subnet"
  PROVE  ~IsRefused /\ IsPassed
  <1>1. r.az # 0
    BY DEF PInv, Shaped, Shape
  <1>2. CheckPasses
    <2>1. r \in resolved' /\ UNCHANGED config
      BY DEF Create, program
    <2> QED
      BY <1>1, <2>1, PassesKept DEF IInv, RefusedLayoutBuildsNothing
  <1>3. ~IsRefused
    BY <1>1, <1>2 DEF PInv, RefusedForCause, IsRefused
  <1>4. CASE config.promptSpecs
    <2>1. pc \in {"zones", "done"}
      BY <1>1, <1>3 DEF PInv, Phased, IsRefused
    <2> QED
      BY <1>3, <1>4, <2>1 DEF IsPassed
  <1>5. CASE ~config.promptSpecs
    <2>1. Single("check") \in needs[r]
      BY <1>1, <1>5 DEF IInv, Hanging, SubnetNeeds
    <2>2. Single("check") \in resolved
      BY <2>1 DEF Create, IsReady
    <2> QED
      BY <1>3, <2>2 DEF IsPassed
  <1> QED
    BY <1>4, <1>5

(* The subnet of what hangs on one, once all it waits for is there.        *)
LEMMA SubnetIsBuilt ==
  ASSUME IInv, PInv, NEW q \in resolved, q.kind \in {"routeTable", "nat"}
  PROVE  SubnetOf(q) \in Built
  <1> DEFINE subnet == Of("subnet", q.az, q.spec)
  <1>1. q \in DOMAIN needs
    BY DEF IInv, TypeOK
  <1>2. q.az # 0 /\ subnet \in needs[q]
    BY <1>1 DEF PInv, Shaped, Shape
  <1>3. subnet \in resolved
    BY <1>2 DEF PInv, ClosedUnderNeeds
  <1>4. subnet.kind = "subnet" /\ SubnetOf(subnet) = SubnetOf(q)
    BY DEF Of, SubnetOf, TypeOf
  <1> QED
    BY <1>3, <1>4 DEF Built

(* A route is what connects a subnet, by a gateway that is there.          *)
LEMMA RouteConnects ==
  ASSUME IInv, PInv, NEW r \in DOMAIN needs, IsReady(r), r.kind = "route"
  PROVE  /\ SubnetOf(r) \in Built
         /\ SubnetOf(r) \notin DOMAIN Egress
         /\ Promise!MayLeaveThrough(SubnetOf(r), LeavesThrough(SubnetOf(r)))
  <1>1. /\ r \in Resource /\ Shape(r)
        /\ needs[r] \subseteq resolved /\ r \notin resolved
    BY DEF IsReady, PInv, Shaped, IInv, TypeOK
  <1>2. SubnetOf(r) \in Built
    <2> DEFINE table == Of("routeTable", r.az, r.spec)
    <2>1. table \in resolved
      BY <1>1 DEF Shape
    <2>2. table.kind = "routeTable" /\ SubnetOf(table) = SubnetOf(r)
      BY DEF Of, SubnetOf, TypeOf
    <2> HIDE DEF table
    <2>3. SubnetOf(table) \in Built
      BY <2>1, <2>2, SubnetIsBuilt
    <2> QED
      BY <2>2, <2>3
  <1>3. SubnetOf(r) \notin DOMAIN Egress
    <2> SUFFICES ASSUME NEW q \in Routes, SubnetOf(q) = SubnetOf(r) PROVE FALSE
      BY EgressIs
    <2>1. q \in Resource /\ q.kind = "route" /\ q \in resolved
      BY DEF Routes, IInv, TypeOK
    <2>2. q = r
      BY <1>1, <2>1, RouteOfSubnet
    <2> QED
      BY <1>1, <2>1, <2>2
  <1>4. LeavesThrough(SubnetOf(r)) =
          IF Single("igw") \in needs[r] THEN "internet"
          ELSE SubnetOf(NatAmong(needs[r]))
    <2>1. Of("route", SubnetOf(r).az, SubnetOf(r).spec) = r
      BY <1>1, RouteOfSubnet
    <2> QED
      BY <2>1 DEF LeavesThrough
  <1>5. \A q : SubnetOf(q).type = TypeOf(q)
    BY DEF SubnetOf
  <1>6. CASE TypeOf(r) = "public" /\ Single("igw") \in needs[r]
    BY <1>2, <1>3, <1>4, <1>5, <1>6 DEF Promise!MayLeaveThrough
  <1>7. CASE /\ TypeOf(r) = "private" /\ Single("igw") \notin needs[r]
             /\ \E g \in needs[r] : g.kind = "nat"
             /\ \A g \in needs[r] : g.kind = "nat" => TypeOf(g) = "public"
    <2> DEFINE g == NatAmong(needs[r])
    <2>1. g \in needs[r] /\ g.kind = "nat"
      BY <1>7 DEF NatAmong
    <2>2. g \in resolved /\ TypeOf(g) = "public"
      BY <1>1, <1>7, <2>1
    <2>3. LeavesThrough(SubnetOf(r)) = SubnetOf(g)
      BY <1>4, <1>7
    <2> HIDE DEF g
    <2>4. SubnetOf(g) \in Built /\ SubnetOf(g).type = "public"
      BY <1>5, <2>1, <2>2, SubnetIsBuilt
    <2>5. SubnetOf(r).type = "private"
      BY <1>5, <1>7
    <2> QED
      BY <1>2, <1>3, <2>3, <2>4, <2>5 DEF Promise!MayLeaveThrough
  <1> QED
    BY <1>1, <1>6, <1>7 DEF Shape

(* A creation is seen as the verdict, a subnet built or one connected.     *)
LEMMA CreateImplements ==
  ASSUME IInv, PInv, IInv', NEW r \in DOMAIN needs, Create(r)
  PROVE  [Promise!Next]_(Promise!vars)
  <1>1. /\ UNCHANGED <<config, pc, needs, failed>>
        /\ resolved' = resolved \cup {r} /\ r \notin resolved
        /\ Single("check")' = Single("check")
        /\ IsReady(r) /\ r \in Resource
    BY DEF Create, IsReady, program, IInv, TypeOK, Single
  <1>2. /\ IsRefused' <=> IsRefused
        /\ IsPassed => IsPassed'
        /\ r.kind # "check" => (IsPassed' <=> IsPassed)
    BY <1>1 DEF IsRefused, IsPassed, Single
  <1>3. r.kind # "subnet" => Built' = Built
    BY <1>1, BuiltKept
  <1>4. r.kind # "route" => Egress' = Egress
    <2>1. r.kind # "route" => Routes' = Routes
      BY <1>1 DEF Routes
    <2> QED
      BY <1>1, <2>1, EgressKept
  <1>5. r.kind # "check" => Verdict' = Verdict
    BY <1>2, VerdictKept
  <1>6. \A q : SubnetOf(q)' = SubnetOf(q)
    BY <1>1 DEF SubnetOf, TypeOf
  <1>7. CASE r.kind \notin {"subnet", "route"}
    BY <1>2, <1>3, <1>4, <1>7, VerdictMoves, VerdictOnly
  <1>8. CASE r.kind = "subnet"
    <2>1. Verdict = "accepted"
      BY <1>8, SubnetAfterVerdict, VerdictIs
    <2>2. Built' = Built \cup {SubnetOf(r)}
      BY <1>1, <1>6, <1>8 DEF Built
    <2>3. Verdict' = Verdict /\ Egress' = Egress
      BY <1>4, <1>5, <1>8
    <2>4. CASE SubnetOf(r) \in Built
      BY <2>2, <2>3, <2>4 DEF Promise!vars
    <2>5. CASE SubnetOf(r) \notin Built
      BY <2>1, <2>2, <2>3, <2>5 DEF Promise!Next, Promise!Build
    <2> QED
      BY <2>4, <2>5
  <1>9. CASE r.kind = "route"
    <2> DEFINE s == SubnetOf(r)
    <2>1. /\ s \in Built /\ s \notin DOMAIN Egress
          /\ Promise!MayLeaveThrough(s, LeavesThrough(s))
      BY <1>1, <1>9, RouteConnects
    <2>2. Routes' = Routes \cup {r}
      BY <1>1, <1>9 DEF Routes
    <2>3. Egress' = [t \in {SubnetOf(q)' : q \in Routes'} |-> LeavesThrough(t)']
      BY DEF Egress, Routes
    <2>4. \A t : LeavesThrough(t)' = LeavesThrough(t)
      BY <1>1, <1>6 DEF LeavesThrough
    <2>5. Egress' = [t \in {SubnetOf(q) : q \in Routes \cup {r}} |-> LeavesThrough(t)]
      BY <1>6, <2>2, <2>3, <2>4
    <2>6. DOMAIN Egress = {SubnetOf(q) : q \in Routes}
          /\ \A t \in DOMAIN Egress : Egress[t] = LeavesThrough(t)
      BY EgressIs
    <2> HIDE DEF s
    <2>7. DOMAIN Egress' = DOMAIN Egress \cup {s}
      BY <2>5, <2>6 DEF s
    <2>8. /\ Egress'[s] = LeavesThrough(s)
          /\ \A t \in DOMAIN Egress : Egress'[t] = Egress[t]
      BY <2>5, <2>6 DEF s
    <2>9. Promise!Connect
      BY <1>3, <1>5, <1>9, <2>1, <2>7, <2>8 DEF Promise!Connect
    <2> QED
      BY <2>9 DEF Promise!Next
  <1> QED
    BY <1>7, <1>8, <1>9

(* A failure is seen at most as a refusal.                                 *)
LEMMA FailOrAbortImplements ==
  ASSUME IInv, PInv, UNCHANGED <<program, resolved>>, failed \subseteq failed',
         Single("check") \in failed' \ failed => ~CheckPasses
  PROVE  [Promise!Next]_(Promise!vars)
  <1>1. UNCHANGED <<config, pc, needs>> /\ Single("check")' = Single("check")
    BY DEF program, Single
  <1>2. Built' = Built
    BY <1>1, BuiltKept
  <1>3. Egress' = Egress
    <2>1. Routes' = Routes
      BY DEF Routes
    <2> QED
      BY <1>1, <2>1, EgressKept
  <1>4. IsRefused => IsRefused'
    BY <1>1 DEF IsRefused
  <1>5. IsPassed /\ ~IsRefused => IsPassed' /\ ~IsRefused'
    BY <1>1, PassedPasses DEF IsPassed, IsRefused
  <1> QED
    BY <1>2, <1>3, <1>4, <1>5, VerdictMoves, VerdictOnly

LEMMA StepImplements ==
  IInv /\ PInv /\ IInv' /\ [Next]_vars => [Promise!Next]_(Promise!vars)
  <1> SUFFICES ASSUME IInv, PInv, IInv', [Next]_vars
               PROVE  [Promise!Next]_(Promise!vars)
    OBVIOUS
  <1>1. CASE Initialize
    BY <1>1, InitializeImplements
  <1>2. ASSUME NEW r \in DOMAIN needs, Create(r) PROVE [Promise!Next]_(Promise!vars)
    BY <1>2, CreateImplements
  <1>3. ASSUME NEW r \in DOMAIN needs, Fail(r) PROVE [Promise!Next]_(Promise!vars)
    <2>1. Single("check") \in failed' \ failed => ~CheckPasses
      BY <1>3 DEF Fail, InputRejects, Single
    <2> QED
      BY <1>3, <2>1, FailOrAbortImplements DEF Fail
  <1>4. CASE Abort
    BY <1>4, FailOrAbortImplements DEF Abort
  <1>5. CASE UNCHANGED vars
    BY <1>5, FailOrAbortImplements DEF vars, engine
  <1> QED
    BY <1>1, <1>2, <1>3, <1>4, <1>5 DEF Next, Engine

(* VpcNetwork implements NetworkPromise: whatever the arguments, however   *)
(* late the layout is judged and in whatever order resources come up or    *)
(* fail to, subnets are built only after the verdict, and connected only   *)
(* after they were built, private ones through a public subnet.            *)
THEOREM PromiseIsKept == Spec => KeepsPromise
  <1>1. Spec => [](IInv /\ PInv)
    BY InitInv, StepInv, InitPromiseInv, PromiseInvStep, PTL DEF Spec
  <1> QED
    BY <1>1, InitImplements, StepImplements, PTL DEF Spec, KeepsPromise, Promise!Spec

-----------------------------------------------------------------------------
(***************************************************************************)
(* What the loop over zones and specs covers: no two subnets are given one *)
(* IPv6 slice, and an endpoint misses no zone.                             *)
(***************************************************************************)

(* The counter that is reset in every zone: the n-th subnet of a zone has  *)
(* the zone's slice, n rounds of the zones later.                          *)
IsNumbered(r) ==
  \E n \in Nat :
    /\ ipv6Index[r] = Ipv6Index(r.az, n)
    /\ r.az = zone => n < Cardinality(placed)

IsPlaced(i, s) == i < zone \/ (i = zone /\ s \in placed)

Numbered ==
  /\ IsFiniteSet(placed)
  /\ \A r \in DOMAIN ipv6Index :
       /\ r = Of("subnet", r.az, r.spec)
       /\ r.az \in Zones
       /\ IsPlaced(r.az, r.spec)
       /\ IsNumbered(r)

(* Every spec the loop has been through has its route table, in every zone *)
(* it has been through; the endpoint comes last.                           *)
TablesRegistered ==
  \A i \in Zones, s \in Specs :
    IsPlaced(i, s) => Of("routeTable", i, s) \in DOMAIN needs

EndpointLast == Single("endpoint") \in DOMAIN needs => pc = "done"

CInv ==
  /\ Numbered
  /\ Ipv6BlocksAreDistinct
  /\ TablesRegistered
  /\ EndpointLast
  /\ EndpointReachesEveryZone

-----------------------------------------------------------------------------
(* A slice's number says whose it is, as a quotient and a remainder.       *)
LEMMA RoundsApart ==
  ASSUME NEW K \in Nat \ {0}, NEW n \in Nat, NEW m \in Nat, n < m
  PROVE  (n * K) + K <= m * K
  <1> DEFINE d == m - n
  <1>1. d \in Nat /\ d >= 1 /\ m = n + d
    OBVIOUS
  <1> HIDE DEF d
  <1>2. m * K = (n * K) + (d * K)
    BY <1>1
  <1>3. d * K >= K
    BY <1>1
  <1>4. n * K \in Nat /\ d * K \in Nat
    BY <1>1
  <1> QED
    BY <1>2, <1>3, <1>4

LEMMA SlicesDiffer ==
  ASSUME NEW K \in Nat \ {0}, NEW a \in 1..K, NEW b \in 1..K,
         NEW n \in Nat, NEW m \in Nat,
         (a - 1) + (n * K) = (b - 1) + (m * K)
  PROVE  a = b /\ n = m
  <1>1. n * K \in Nat /\ m * K \in Nat
    OBVIOUS
  <1>2. ~(n < m)
    <2> SUFFICES ASSUME n < m PROVE FALSE
      OBVIOUS
    <2>1. (n * K) + K <= m * K
      BY RoundsApart
    <2> QED
      BY <1>1, <2>1
  <1>3. ~(m < n)
    <2> SUFFICES ASSUME m < n PROVE FALSE
      OBVIOUS
    <2>1. (m * K) + K <= n * K
      BY RoundsApart
    <2> QED
      BY <1>1, <2>1
  <1>4. n = m
    BY <1>2, <1>3
  <1> QED
    BY <1>1, <1>4

(* Of the specs an endpoint may take, one comes first.                     *)
LEMMA LeastExists ==
  ASSUME NEW S, S \subseteq Nat, S # {}
  PROVE  \E x \in S : \A y \in S : x <= y
  <1>1. \E x \in S : \A y \in S : ~(<<y, x>> \in OpToRel(<, Nat))
    BY WFMin, NatLessThanWellFounded, Zenon
  <1>2. \E x \in S : \A y \in S : ~(y < x)
    BY <1>1, Zenon DEF OpToRel
  <1>3. QED
    BY <1>2

-----------------------------------------------------------------------------
LEMMA InitCoverage == Init => CInv
  <1> SUFFICES ASSUME Init PROVE CInv
    OBVIOUS
  <1>1. config.azCount \in Nat \ {0}
    BY ConfigFacts DEF Init
  <1>2. placed = {} /\ DOMAIN ipv6Index = {} /\ DOMAIN needs = {} /\ zone = 1
    BY DEF Init
  <1>3. Numbered
    BY <1>2, FS_EmptySet DEF Numbered
  <1>4. Ipv6BlocksAreDistinct /\ EndpointLast /\ EndpointReachesEveryZone
    BY <1>2 DEF Ipv6BlocksAreDistinct, EndpointLast, EndpointReachesEveryZone
  <1>5. TablesRegistered
    BY <1>1, <1>2 DEF TablesRegistered, IsPlaced, Zones
  <1> QED
    BY <1>3, <1>4, <1>5 DEF CInv

(* What registers neither subnets nor the endpoint.                        *)
LEMMA LoopKept ==
  ASSUME CInv, UNCHANGED <<config, zone, placed, ipv6Index>>,
         DOMAIN needs \subseteq DOMAIN needs'
  PROVE  Numbered' /\ Ipv6BlocksAreDistinct' /\ TablesRegistered'
  <1>1. Numbered'
    BY DEF CInv, Numbered, IsNumbered, IsPlaced, Ipv6Index, Zones, Of
  <1>2. Ipv6BlocksAreDistinct'
    BY DEF CInv, Ipv6BlocksAreDistinct
  <1>3. TablesRegistered'
    BY DEF CInv, TablesRegistered, IsPlaced, Zones, Specs, Of
  <1> QED
    BY <1>1, <1>2, <1>3

LEMMA NoEndpointYet ==
  ASSUME Single("endpoint") \notin DOMAIN needs'
  PROVE  EndpointLast' /\ EndpointReachesEveryZone'
  BY DEF EndpointLast, EndpointReachesEveryZone, Single

LEMMA BeforeLoopCoverage ==
  ASSUME CInv, ValidateArgs \/ RegisterVpc \/ Decide \/ RegisterIgw
  PROVE  CInv'
  <1>1. /\ UNCHANGED <<config, zone, placed, ipv6Index>>
        /\ pc \in {"validate", "vpc", "decide", "igw"}
    BY DEF ValidateArgs, RegisterVpc, Decide, RegisterIgw
  <1>2. /\ DOMAIN needs \subseteq DOMAIN needs'
        /\ DOMAIN needs' \subseteq
             DOMAIN needs \cup {Single("vpc"), Single("check"), Single("igw")}
    BY DEF ValidateArgs, RegisterVpc, Decide, RegisterIgw, Register
  <1>3. Single("endpoint") \notin DOMAIN needs'
    BY <1>1, <1>2 DEF CInv, EndpointLast, Single
  <1> QED
    BY <1>1, <1>2, <1>3, LoopKept, NoEndpointYet DEF CInv

LEMMA NextZoneCoverage ==
  ASSUME IInv, CInv, NextZone
  PROVE  CInv'
  <1>1. /\ UNCHANGED <<config, pc, needs, ipv6Index>>
        /\ zone' = zone + 1 /\ placed' = {}
        /\ Specs \subseteq placed
        /\ pc = "zones"
    BY DEF NextZone, Pending
  <1>2. zone \in Nat /\ config.azCount \in Nat
    BY ConfigFacts DEF IInv, TypeOK
  <1>3. Numbered'
    <2>1. IsFiniteSet(placed')
      BY <1>1, FS_EmptySet
    <2>2. ASSUME NEW r \in DOMAIN ipv6Index'
          PROVE  /\ r = Of("subnet", r.az, r.spec)
                 /\ (r.az \in Zones)' /\ IsPlaced(r.az, r.spec)' /\ IsNumbered(r)'
      <3>1. /\ r = Of("subnet", r.az, r.spec)
            /\ r.az \in Zones /\ IsPlaced(r.az, r.spec) /\ IsNumbered(r)
        BY <1>1, <2>2 DEF CInv, Numbered
      <3>2. r.az \in Nat /\ r.az < zone'
        BY <1>1, <1>2, <3>1 DEF IsPlaced, Zones
      <3>3. IsNumbered(r)'
        BY <1>1, <3>1, <3>2 DEF IsNumbered, Ipv6Index
      <3> QED
        BY <1>1, <3>1, <3>2, <3>3 DEF IsPlaced, Zones
    <2> QED
      BY <2>1, <2>2 DEF Numbered, Of
  <1>4. Ipv6BlocksAreDistinct'
    BY <1>1 DEF CInv, Ipv6BlocksAreDistinct
  <1>5. TablesRegistered'
    BY <1>1, <1>2 DEF CInv, TablesRegistered, IsPlaced, Zones, Specs, Of
  <1>6. Single("endpoint") \notin DOMAIN needs'
    BY <1>1 DEF CInv, EndpointLast
  <1> QED
    BY <1>3, <1>4, <1>5, <1>6, NoEndpointYet DEF CInv

(* The loop's body numbers one more subnet, beyond all of its zone.        *)
LEMMA BuildSubnetCoverage ==
  ASSUME IInv, CInv, NEW s \in Pending, BuildSubnet(s)
  PROVE  CInv'
  <1>0. PICK new : new = Of("subnet", zone, s)
    OBVIOUS
  <1> DEFINE K == config.azCount
         count == Cardinality(placed)
  <1>1. /\ UNCHANGED <<config, zone>>
        /\ placed' = placed \cup {s} /\ s \notin placed
        /\ pc = "zones" /\ zone <= config.azCount
        /\ ipv6Index' = [r \in DOMAIN ipv6Index \cup {new} |->
                           IF r \in DOMAIN ipv6Index THEN ipv6Index[r]
                           ELSE Ipv6Index(zone, count)]
    BY <1>0 DEF BuildSubnet, Pending
  <1>2. zone \in Zones /\ K \in Nat \ {0}
    BY <1>1, ConfigFacts DEF IInv, TypeOK, Zones
  <1>3. new.az = zone /\ new.spec = s
    BY <1>0 DEF Of
  <1>4. IsFiniteSet(placed') /\ Cardinality(placed') = count + 1 /\ count \in Nat
    BY <1>1, FS_AddElement, FS_CardinalityType DEF CInv, Numbered
  <1>5. \A r \in DOMAIN ipv6Index :
          /\ r = Of("subnet", r.az, r.spec)
          /\ r.az \in Zones /\ IsPlaced(r.az, r.spec) /\ IsNumbered(r)
    BY DEF CInv, Numbered
  <1>6. new \notin DOMAIN ipv6Index
    BY <1>1, <1>2, <1>3, <1>5 DEF IsPlaced, Zones
  <1>7. /\ \A r \in DOMAIN ipv6Index : ipv6Index'[r] = ipv6Index[r]
        /\ ipv6Index'[new] = Ipv6Index(zone, count)
        /\ DOMAIN ipv6Index' = DOMAIN ipv6Index \cup {new}
    BY <1>1, <1>6
  <1>8. Numbered'
    <2>1. ASSUME NEW r \in DOMAIN ipv6Index
          PROVE  (r.az \in Zones)' /\ IsPlaced(r.az, r.spec)' /\ IsNumbered(r)'
      <3>1. r.az \in Zones /\ IsPlaced(r.az, r.spec)
        BY <1>5
      <3>2. PICK n \in Nat : /\ ipv6Index[r] = Ipv6Index(r.az, n)
                             /\ r.az = zone => n < count
        BY <1>5 DEF IsNumbered
      <3>3. IsNumbered(r)'
        BY <1>1, <1>4, <1>7, <3>2 DEF IsNumbered, Ipv6Index
      <3> QED
        BY <1>1, <3>1, <3>3 DEF IsPlaced, Zones
    <2>2. (new.az \in Zones)' /\ IsPlaced(new.az, new.spec)'
      BY <1>1, <1>2, <1>3 DEF IsPlaced, Zones, Of
    <2>3. IsNumbered(new)'
      <3>1. ipv6Index'[new] = (zone - 1) + (count * K)
        BY <1>7 DEF Ipv6Index
      <3>2. count < Cardinality(placed')
        BY <1>4
      <3> QED
        BY <1>1, <1>3, <1>4, <3>1, <3>2 DEF IsNumbered, Ipv6Index, Of
    <2>4. new = Of("subnet", new.az, new.spec)
      BY <1>0, <1>3
    <2>5. ASSUME NEW r \in DOMAIN ipv6Index'
          PROVE  /\ r = Of("subnet", r.az, r.spec)
                 /\ (r.az \in Zones)' /\ IsPlaced(r.az, r.spec)' /\ IsNumbered(r)'
      BY <1>5, <1>7, <2>1, <2>2, <2>3, <2>4
    <2> QED
      BY <1>4, <2>5 DEF Numbered, Of
  <1>9. \A r \in DOMAIN ipv6Index : ipv6Index[r] # Ipv6Index(zone, count)
    <2> SUFFICES ASSUME NEW r \in DOMAIN ipv6Index,
                        ipv6Index[r] = Ipv6Index(zone, count)
                 PROVE  FALSE
      OBVIOUS
    <2>1. PICK n \in Nat : /\ ipv6Index[r] = Ipv6Index(r.az, n)
                           /\ r.az = zone => n < count
      BY <1>5 DEF IsNumbered
    <2>2. (r.az - 1) + (n * K) = (zone - 1) + (count * K)
      BY <2>1 DEF Ipv6Index
    <2>3. r.az \in 1..K /\ zone \in 1..K
      BY <1>2, <1>5 DEF Zones
    <2> HIDE DEF K, count
    <2>4. r.az = zone /\ n = count
      BY <1>2, <1>4, <2>2, <2>3, SlicesDiffer
    <2> QED
      BY <1>4, <2>1, <2>4
  <1>10. Ipv6BlocksAreDistinct'
    BY <1>7, <1>9 DEF CInv, Ipv6BlocksAreDistinct
  <1>11. /\ DOMAIN needs' = DOMAIN needs \cup NewResources(s)
         /\ \A r \in NewResources(s) : r.az # 0
         /\ Of("routeTable", zone, s) \in NewResources(s)
    BY NeedsAfter DEF NewResources
  <1>12. TablesRegistered'
    BY <1>1, <1>11 DEF CInv, TablesRegistered, IsPlaced, Zones, Specs, Of
  <1>13. Single("endpoint") \notin DOMAIN needs'
    BY <1>1, <1>11 DEF CInv, EndpointLast, Single
  <1> QED
    BY <1>8, <1>10, <1>12, <1>13, NoEndpointYet DEF CInv

-----------------------------------------------------------------------------
(* The endpoint.                                                           *)
PreferredSpecs == {t \in Specs : config.types[t] = Preferred}

LEMMA PreferredFacts ==
  ASSUME config \in Configs, Specs # {}
  PROVE  /\ PreferredSpecs # {}
         /\ Preferred = "public" => \A s \in Specs : config.types[s] = "public"
  <1>1. \A s \in Specs : config.types[s] \in {"public", "private", "isolated"}
    BY ConfigFacts DEF Specs, Types
  <1>2. \A t \in {"public", "private", "isolated"} :
          HasType({t}) <=> \E s \in Specs : config.types[s] = t
    BY DEF HasType, Specs
  <1>3. CASE HasType({"private"})
    BY <1>2, <1>3 DEF Preferred, PreferredSpecs
  <1>4. CASE ~HasType({"private"}) /\ HasType({"isolated"})
    BY <1>2, <1>4 DEF Preferred, PreferredSpecs
  <1>5. CASE ~HasType({"private"}) /\ ~HasType({"isolated"})
    BY <1>1, <1>2, <1>5 DEF Preferred, PreferredSpecs
  <1> QED
    BY <1>3, <1>4, <1>5

(* Of every zone, an interface endpoint takes one subnet: that of the      *)
(* first spec of the preferred type.                                       *)
LEMMA OneSubnetOfEach ==
  ASSUME config \in Configs, Specs # {}
  PROVE  \E m \in PreferredSpecs :
           EndpointSubnets = {Of("subnet", i, m) : i \in Zones}
  <1>1. PreferredSpecs # {} /\ PreferredSpecs \subseteq Nat
    BY ConfigFacts, PreferredFacts DEF PreferredSpecs
  <1>2. PICK m \in PreferredSpecs : \A t \in PreferredSpecs : m <= t
    BY <1>1, LeastExists
  <1>3. {t \in Specs : /\ config.types[t] = Preferred
                       /\ \A u \in Specs :
                            config.types[u] = Preferred => t <= u} = {m}
    BY <1>1, <1>2 DEF PreferredSpecs
  <1>4. EndpointSubnets = {Of("subnet", i, t) : i \in Zones, t \in {m}}
    BY <1>3 DEF EndpointSubnets
  <1> QED
    BY <1>4

LEMMA RegisterEndpointCoverage ==
  ASSUME IInv, CInv, RegisterEndpoint
  PROVE  CInv'
  <1> DEFINE endpoint == Single("endpoint")
             attached == needs'[endpoint]
  <1>1. /\ UNCHANGED <<config, zone, placed, ipv6Index>>
        /\ pc' = "done" /\ pc = "zones" /\ zone > config.azCount
        /\ DOMAIN needs \subseteq DOMAIN needs'
    BY DEF RegisterEndpoint, Register
  <1>2. endpoint \in DOMAIN needs' =>
          config.endpoint \in {"interface", "gateway"} /\ attached = EndpointNeeds
    <2>1. endpoint \notin DOMAIN needs
      BY <1>1 DEF CInv, EndpointLast
    <2>2. CASE config.endpoint = "interface"
      BY <2>2 DEF RegisterEndpoint, Register, Single
    <2>3. CASE config.endpoint = "gateway"
      BY <2>3 DEF RegisterEndpoint, Register, Single
    <2>4. CASE config.endpoint \notin {"interface", "gateway"}
      BY <2>1, <2>4 DEF RegisterEndpoint, Register, Single
    <2> QED
      BY <2>2, <2>3, <2>4
  <1>3. config \in Configs /\ zone \in Nat /\ config.azCount \in Nat
    BY ConfigFacts DEF IInv, TypeOK
  <1>4. ASSUME endpoint \in DOMAIN needs', NEW i \in Zones,
               config.endpoint = "interface", Specs # {}
        PROVE  /\ Cardinality({r \in attached : r.kind = "subnet" /\ r.az = i}) = 1
               /\ \A r \in attached : r.kind = "subnet" /\ TypeOf(r) = "public" =>
                    \A s \in Specs : config.types[s] = "public"
    <2>1. PICK m \in PreferredSpecs :
                 EndpointSubnets = {Of("subnet", j, m) : j \in Zones}
      BY <1>3, <1>4, OneSubnetOfEach
    <2>2. attached = {Single("vpc"), Single("securityGroup")} \cup EndpointSubnets
      BY <1>2, <1>4 DEF EndpointNeeds
    <2> HIDE DEF attached
    <2>3. {r \in attached : r.kind = "subnet" /\ r.az = i} = {Of("subnet", i, m)}
      BY <2>1, <2>2 DEF Single, Of
    <2>4. \A r \in attached : r.kind = "subnet" => TypeOf(r) = Preferred
      BY <2>1, <2>2 DEF Single, Of, TypeOf, PreferredSpecs
    <2> QED
      BY <1>3, <1>4, <2>3, <2>4, PreferredFacts, FS_Singleton
  <1>5. ASSUME endpoint \in DOMAIN needs', NEW i \in Zones, NEW s \in Specs,
               config.endpoint = "gateway"
        PROVE  Of("routeTable", i, s) \in attached
    <2>1. Of("routeTable", i, s) \in DOMAIN needs
      BY <1>1, <1>3 DEF CInv, TablesRegistered, IsPlaced, Zones
    <2>2. attached = {Single("vpc")} \cup {r \in DOMAIN needs : r.kind = "routeTable"}
      BY <1>2, <1>5 DEF EndpointNeeds
    <2> QED
      BY <2>1, <2>2 DEF Of
  <1>6. EndpointReachesEveryZone'
    BY <1>1, <1>4, <1>5
       DEF EndpointReachesEveryZone, TypeOf, Specs, Zones, Of, Single
  <1>7. EndpointLast'
    BY <1>1 DEF EndpointLast
  <1> QED
    BY <1>1, <1>6, <1>7, LoopKept DEF CInv

-----------------------------------------------------------------------------
LEMMA ProgramKept == CInv /\ UNCHANGED program => CInv'
  <1> SUFFICES ASSUME CInv, UNCHANGED program PROVE CInv'
    OBVIOUS
  <1>1. UNCHANGED <<config, pc, zone, placed, ipv6Index, needs>>
    BY DEF program
  <1>2. EndpointLast' /\ EndpointReachesEveryZone'
    BY <1>1 DEF CInv, EndpointLast, EndpointReachesEveryZone, TypeOf, Specs,
                Zones, Of, Single
  <1> QED
    BY <1>1, <1>2, LoopKept DEF CInv

LEMMA CoverageStep == IInv /\ CInv /\ [Next]_vars => CInv'
  <1> SUFFICES ASSUME IInv, CInv, [Next]_vars PROVE CInv'
    OBVIOUS
  <1>1. CASE ValidateArgs \/ RegisterVpc \/ Decide \/ RegisterIgw
    BY <1>1, BeforeLoopCoverage
  <1>2. CASE \E s \in Pending : BuildSubnet(s)
    BY <1>2, BuildSubnetCoverage
  <1>3. CASE NextZone
    BY <1>3, NextZoneCoverage
  <1>4. CASE RegisterEndpoint
    BY <1>4, RegisterEndpointCoverage
  <1>5. CASE Engine \/ Abort \/ UNCHANGED vars
    <2>1. UNCHANGED program
      BY <1>5 DEF Engine, Create, Fail, Abort, vars
    <2> QED
      BY <2>1, ProgramKept
  <1> QED
    BY <1>1, <1>2, <1>3, <1>4, <1>5 DEF Next, Initialize

LEMMA Coverage == Spec => []CInv
  <1>1. Init => CInv
    BY InitCoverage
  <1>2. IInv /\ CInv /\ [Next]_vars => CInv'
    BY CoverageStep
  <1>3. QED
    BY <1>1, <1>2, Invariance, PTL DEF Spec

(* No two subnets of a VPC are given one slice of its IPv6 range, although *)
(* one counter, reset in every zone, numbers them all (vpc.ts:232).        *)
THEOREM SlicesAreDistinct == Spec => []Ipv6BlocksAreDistinct
  BY Coverage, PTL DEF CInv

(* An interface endpoint is attached to one subnet of every zone, and a    *)
(* gateway endpoint to every route table, whatever types the zones hold    *)
(* (vpc.ts:853).                                                           *)
THEOREM EndpointMissesNoZone == Spec => []EndpointReachesEveryZone
  BY Coverage, PTL DEF CInv
=============================================================================
