---------------------------- MODULE SubnetLayout ----------------------------
(***************************************************************************)
(* From the subnetSpecs a user writes to the subnets of a VPC, for every   *)
(* subnetStrategy but "Legacy": the specs are normalised, the strategy     *)
(* picks an allocator (the one of SubnetAllocation, or the explicit one),  *)
(* and the layout it returns is checked before any subnet is created.      *)
(*                                                                         *)
(* The module extends SubnetAllocation: SubnetLayout makes the call, the   *)
(* steps of the allocator are SubnetAllocation's own, and SubnetLayout     *)
(* goes on with what it published.                                         *)
(*                                                                         *)
(* Types are compared in lower case all over the code and are lower case   *)
(* here, where they serve as the names of unnamed specs too.               *)
(***************************************************************************)
EXTENDS SubnetAllocation, FiniteSets

CONSTANT Inputs   \* the configurations considered: a set of records

Strategies == {"Auto", "AutoMerge", "Exact"}
NatStrategies == {"None", "Single", "OnePerAz"}
Types == {"public", "private", "isolated", "unused"}

(* SubnetSpecInputs; blocks stands for cidrBlocks.  The size of the whole  *)
(* address space is left out with its mask, 0.                             *)
SpecInput ==
  [type : Types, name : Names \cup {Undefined}, mask : Masks \cup {Undefined},
   size : (Nat \ {Space}) \cup {Undefined},
   blocks : Seq(Block) \cup {Undefined}]

(* prompt: the VPC's cidrBlock is a string, not an output IPAM will fill.  *)
Input ==
  [strategy : Strategies, vpc : Block, prompt : BOOLEAN, azCount : Nat \ {0},
   azCidrMask : Masks \cup {Undefined}, nat : NatStrategies,
   specs : Seq(SpecInput) \cup {Undefined}]

(* A block stands for what the libraries read its CIDR string as: the      *)
(* address they compute with is the first one of the block.                *)
Aligned(b) == b.base % Size(b) = 0

CallOf(in, specInputs) ==
  [vpc |-> in.vpc, azCount |-> in.azCount, azCidrMask |-> in.azCidrMask,
   specs |-> specInputs]

(* Without specs, "Exact" is served by the legacy allocator.               *)
ASSUME InputAssumption ==
  /\ Inputs \subseteq Input
  /\ \A in \in Inputs :
       /\ in.strategy = "Exact" => in.specs # Undefined
       /\ IsCall(CallOf(in, Undefined))
       /\ Aligned(in.vpc)
       /\ in.specs # Undefined =>
            \A i \in DOMAIN in.specs : in.specs[i].blocks # Undefined =>
              \A k \in DOMAIN in.specs[i].blocks : Aligned(in.specs[i].blocks[k])

ASSUME TypesAssumption ==
  /\ Types \subseteq Names
  /\ DefaultTypes \in Seq(Types)
  /\ DefaultTypes[1] # DefaultTypes[2]

ASSUME NothingAssumption ==
  /\ Undefined \notin Nat
  /\ Undefined \notin Seq(SpecInput) \cup Seq(SubnetSpecInput)
  /\ Undefined \notin Names

VARIABLES
  input,       \* the arguments
  stage,       \* how far decideAndValidateSubnetSpecs has come
  normalized,  \* parsedSpecs.normalizedSpecs
  layout       \* the SubnetSpecs: [az, spec, type, name, block]

layoutVars == <<input, stage, normalized, layout, vars>>

-----------------------------------------------------------------------------
(* validateAndNormalizeSubnetInputs.                                       *)

(* validSubnetSizes: masks 0 to 30 only.                                   *)
ValidSize(m) == m \in 0..(Width - 2)

SizeIsValid(s) ==
  s.size = Undefined \/ \E m \in 0..(Width - 2) : s.size = BlockSize[m]

IsExplicit(ss) == \E i \in DOMAIN ss : ss[i].blocks # Undefined

(* At most one unnamed spec per type, and no name twice within a type.     *)
NamesAreUnique(ss) ==
  \A i, j \in DOMAIN ss :
    i # j /\ ss[i].type = ss[j].type => ss[i].name # ss[j].name

(* `spec.cidrMask ?? (spec.size ? validSubnetSizes.indexOf(spec.size) : _)`*)
ResolvedMask(s) ==
  IF s.mask # Undefined \/ s.size = Undefined THEN s.mask
  ELSE CHOOSE m \in 0..(Width - 2) : s.size = BlockSize[m]

(* A size is compared with the mask's only when the table has one for it.  *)
SizeAgrees(s) ==
  s.size # Undefined /\ ValidSize(ResolvedMask(s))
    => s.size = BlockSize[ResolvedMask(s)]

ExplicitAgrees(s) ==
  /\ s.blocks # Undefined
  /\ Len(s.blocks) = input.azCount
  /\ \A k \in DOMAIN s.blocks :
       /\ s.mask \in {Undefined, s.blocks[k].mask}
       /\ s.size \in {Undefined, Size(s.blocks[k])}

InputsAgree(ss) ==
  /\ NamesAreUnique(ss)
  /\ \A i \in DOMAIN ss :
       /\ SizeIsValid(ss[i])
       /\ IF IsExplicit(ss) THEN ExplicitAgrees(ss[i]) ELSE SizeAgrees(ss[i])

(* Normalised specs carry a cidrMask property even when it is undefined.   *)
Normalized(ss) ==
  IF ss = Undefined \/ IsExplicit(ss) THEN ss
  ELSE [i \in DOMAIN ss |-> [ss[i] EXCEPT !.mask = ResolvedMask(ss[i])]]

-----------------------------------------------------------------------------
(* mergeWithDefaultSubnetSpecs.                                            *)
DefaultSpecs(azBitmask) ==
  [i \in DOMAIN DefaultTypes |->
     [type |-> DefaultTypes[i], name |-> Undefined,
      mask |-> DefaultSubnetInputs(azBitmask)[i].mask]]

IsDefaultType(s) == \E i \in DOMAIN DefaultTypes : DefaultTypes[i] = s.type

OverridesByType(s) == IsDefaultType(s)
Overrides(s) == IsDefaultType(s) /\ s.name = Undefined

(* extraSpecs: the others, in the order in which they were written.        *)
ExtraPositions(ss) == {i \in DOMAIN ss : ~Overrides(ss[i])}

Enumeration(S) ==
  CHOOSE e \in [1..Cardinality(S) -> S] :
    \A j, k \in DOMAIN e : j < k => e[j] < e[k]

(* A spec spread over a default one replaces its mask, undefined or not.   *)
MergedDefault(default, ss) ==
  IF \E i \in DOMAIN ss : Overrides(ss[i]) /\ ss[i].type = default.type
  THEN LET i == CHOOSE i \in DOMAIN ss :
                  Overrides(ss[i]) /\ ss[i].type = default.type
       IN  [default EXCEPT !.mask = ss[i].mask]
  ELSE default

Merged(ss, azBitmask) ==
  [i \in DOMAIN DefaultTypes |-> MergedDefault(DefaultSpecs(azBitmask)[i], ss)]
    \o LET extra == Enumeration(ExtraPositions(ss))
       IN  [k \in DOMAIN extra |->
              [type |-> ss[extra[k]].type, name |-> ss[extra[k]].name,
               mask |-> ss[extra[k]].mask]]

-----------------------------------------------------------------------------
(* The specs the allocator is called with, and the ones getSubnetSpecs     *)
(* reads types and names from.                                             *)
UserSpecs == IF normalized = Undefined THEN <<>> ELSE normalized

SpecName(s) == IF s.name = Undefined THEN s.type ELSE s.name

AzMask == AzBitmask(CallOf(input, Undefined))

DecidedSpecs ==
  CASE input.strategy = "AutoMerge" -> Merged(UserSpecs, AzMask)
    [] input.strategy # "AutoMerge" /\ normalized = Undefined ->
         DefaultSpecs(AzMask)
    [] OTHER -> normalized

AsAllocatorInput(ss) ==
  [i \in DOMAIN ss |-> [name |-> SpecName(ss[i]), mask |-> ss[i].mask]]

(* One SubnetSpec per zone and spec, zone by zone.                         *)
ZoneAt(ss, p) == ((p - 1) \div Len(ss)) + 1
SpecAt(ss, p) == ((p - 1) % Len(ss)) + 1

LayoutOf(ss, blocks) ==
  [p \in 1..(input.azCount * Len(ss)) |->
     LET spec == ss[SpecAt(ss, p)]
     IN  [az |-> ZoneAt(ss, p), spec |-> SpecAt(ss, p), type |-> spec.type,
          name |-> SpecName(spec), block |-> blocks[p]]]

-----------------------------------------------------------------------------
(* The checks on the layout.                                               *)

(* ip-address: b.isInSubnet(c).                                            *)
IsInSubnet(b, c) ==
  b.mask >= c.mask /\ Netmask(b.base, c.mask) = Netmask(c.base, c.mask)

SameBlock(b, c) == b = c
Overlaps(b, c) == IsInSubnet(b, c) \/ IsInSubnet(c, b)

NoOverlaps ==
  \A p, q \in DOMAIN layout :
    p # q => ~Overlaps(layout[p].block, layout[q].block)

(* validateNoGaps: from the VPC's first address, each subnet starts where  *)
(* the one before it ends, and the last one's last host is the VPC's.      *)
EndsWithVpcOrBefore(b) == LastHost(b) <= LastHost(input.vpc)
EndsWithVpc(b) == LastHost(b) = LastHost(input.vpc)

NoGaps ==
  /\ layout # <<>>
  /\ layout[1].block.base = input.vpc.base
  /\ \A p \in 2..Len(layout) :
       layout[p].block.base = NextBlock(layout[p - 1].block).base
  /\ EndsWithVpc(layout[Len(layout)].block)

HasType(types) == \E p \in DOMAIN layout : layout[p].type \in types

(* validateNatGatewayStrategy.                                             *)
NatStrategyIsServed ==
  input.nat # "None" => HasType({"public"}) /\ HasType({"private", "isolated"})
-----------------------------------------------------------------------------
LayoutInit ==
  /\ input \in Inputs
  /\ stage = "given"
  /\ normalized = Undefined
  /\ layout = <<>>
  /\ request = CallOf(input, Undefined)
  /\ phase = "idle"
  /\ specs = <<>>
  /\ required = <<>>
  /\ az = 1
  /\ index = 1
  /\ azBlock = Undefined
  /\ current = Undefined
  /\ allocation = <<>>
  /\ published = <<>>

Reject ==
  /\ stage' = "failed"
  /\ UNCHANGED <<input, normalized, layout, vars>>

(* parsedSpecs: AutoMerge refuses explicit blocks first; all the issues    *)
(* found are thrown together.                                              *)
Normalize ==
  /\ stage = "given"
  /\ IF /\ input.specs # Undefined
        /\ \/ input.strategy = "AutoMerge" /\ IsExplicit(input.specs)
           \/ ~InputsAgree(input.specs)
     THEN Reject
     ELSE /\ normalized' = Normalized(input.specs)
          /\ stage' = "normalized"
          /\ UNCHANGED <<input, layout, vars>>

UsesExplicit == normalized # Undefined /\ IsExplicit(normalized)

(* getSubnetSpecsExplicit: zone k takes every spec's k-th block.           *)
AllocateExplicit ==
  /\ stage = "normalized"
  /\ UsesExplicit
  /\ layout' = LayoutOf(normalized,
                  [p \in 1..(input.azCount * Len(normalized)) |->
                     normalized[SpecAt(normalized, p)].blocks[ZoneAt(normalized, p)]])
  /\ stage' = "decided"
  /\ UNCHANGED <<input, normalized, vars>>

(* The call of allocateSubnetCidrBlocks.  AutoMerge computes the defaults  *)
(* before it merges, and fails where there are none.                       *)
CallAllocator ==
  /\ stage = "normalized"
  /\ ~UsesExplicit
  /\ IF input.strategy = "AutoMerge"
        /\ (AzMask \notin Masks \/ ~DefaultsAllowed(AzMask))
     THEN Reject
     ELSE /\ request' =
               CallOf(input,
                      IF normalized = Undefined /\ input.strategy # "AutoMerge"
                      THEN Undefined
                      ELSE AsAllocatorInput(DecidedSpecs))
          /\ phase' = "called"
          /\ stage' = "allocating"
          /\ UNCHANGED <<input, normalized, layout, specs, required, az, index,
                         azBlock, current, allocation, published>>

AllocatorStep ==
  /\ stage = "allocating"
  /\ Next
  /\ UNCHANGED <<input, stage, normalized, layout>>

Collect ==
  /\ stage = "allocating"
  /\ phase \in {"published", "failed"}
  /\ IF phase = "failed"
     THEN Reject
     ELSE /\ layout' = LayoutOf(DecidedSpecs,
                           [p \in DOMAIN published |-> published[p].block])
          /\ stage' = "decided"
          /\ UNCHANGED <<input, normalized, vars>>

(* The check of validatePartialSubnetSpecs.                                *)
Validate ==
  /\ stage = "decided"
  /\ IF /\ NoOverlaps
        /\ input.strategy = "Exact" /\ input.prompt => NoGaps
        /\ NatStrategyIsServed
     THEN /\ stage' = "accepted"
          /\ UNCHANGED <<input, normalized, layout, vars>>
     ELSE Reject

LayoutNext ==
  Normalize \/ AllocateExplicit \/ CallAllocator \/ AllocatorStep \/ Collect
    \/ Validate

LayoutSpec == LayoutInit /\ [][LayoutNext]_layoutVars
-----------------------------------------------------------------------------
(* Properties.                                                             *)
Stages == {"given", "normalized", "allocating", "decided", "accepted", "failed"}

HasTinySubnet == \E p \in DOMAIN layout : layout[p].block.mask > Width - 2

(* Every variable has its type.                                            *)
LayoutTypeOK ==
  /\ input \in Inputs
  /\ stage \in Stages
  /\ normalized \in Seq(SpecInput) \cup {Undefined}
  /\ layout \in Seq([az : 1..input.azCount, spec : Nat \ {0}, type : Types,
                     name : Names, block : Block])
  /\ request.specs \in Seq(SubnetSpecInput) \cup {Undefined}
  /\ phase \in Phases \cup {"idle"}

(* An accepted layout has no two subnets that share an address, whatever   *)
(* allocator made it and however far its zones spill: validateSubnets      *)
(* tells overlaps by containment in one direction or the other.            *)
AcceptedIsDisjoint ==
  stage = "accepted" =>
    \A p, q \in DOMAIN layout :
      p # q => Disjoint(layout[p].block, layout[q].block)

Tiles ==
  /\ layout # <<>>
  /\ layout[1].block.base = input.vpc.base
  /\ \A p \in 2..Len(layout) : layout[p].block.base = End(layout[p - 1].block)
  /\ End(layout[Len(layout)].block) = End(input.vpc)

(* An "Exact" layout of a VPC whose range is known up front, accepted, is  *)
(* a tiling of it, with no address before, between or after its subnets.   *)
(* validateNoGaps compares first addresses and last hosts, which says as   *)
(* much as long as no subnet is so small (/31, /32) as to have no          *)
(* broadcast address.                                                      *)
ExactTiles ==
  stage = "accepted" /\ input.strategy = "Exact" /\ input.prompt /\ ~HasTinySubnet
    => Tiles

(* Every spec of the user's gets one subnet in each zone, and so does a    *)
(* default type that AutoMerge finds no unnamed spec for: nothing is lost  *)
(* or doubled by the merge and by the read-back of the table.              *)
MatchesIn(zone, type, name) ==
  {p \in DOMAIN layout : /\ layout[p].az = zone
                         /\ layout[p].type = type
                         /\ layout[p].name = name}

AddedByMerge(type) ==
  /\ input.strategy = "AutoMerge"
  /\ \E k \in DOMAIN DefaultTypes : DefaultTypes[k] = type
  /\ \A i \in DOMAIN input.specs :
       input.specs[i].type = type => input.specs[i].name # Undefined

SpecsKept ==
  stage \in {"decided", "accepted"} /\ input.specs # Undefined =>
    \A zone \in 1..input.azCount, type \in Types, name \in Names :
      Cardinality(MatchesIn(zone, type, name)) =
        Cardinality({i \in DOMAIN input.specs :
                       /\ input.specs[i].type = type
                       /\ SpecName(input.specs[i]) = name})
          + IF name = type /\ AddedByMerge(type) THEN 1 ELSE 0

(* A spec that asks for a mask, or for a size only, has a subnet of that   *)
(* size in every zone, through normalisation, merge and allocation.        *)
SizesHonoured ==
  stage \in {"decided", "accepted"} /\ input.specs # Undefined =>
    \A zone \in 1..input.azCount, i \in DOMAIN input.specs :
      LET s == input.specs[i] IN
      /\ s.mask # Undefined =>
           \E p \in MatchesIn(zone, s.type, SpecName(s)) : layout[p].block.mask = s.mask
      /\ s.mask = Undefined /\ s.size # Undefined =>
           \E p \in MatchesIn(zone, s.type, SpecName(s)) : Size(layout[p].block) = s.size

(* What the user asks for is what each zone gets, from the raw input to    *)
(* the checked layout.                                                     *)
SpecsHonoured == LayoutTypeOK /\ SpecsKept /\ SizesHonoured
=============================================================================
