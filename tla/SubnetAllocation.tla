-------------------------- MODULE SubnetAllocation --------------------------
(***************************************************************************)
(* The allocator behind subnetStrategy "Auto", "AutoMerge" and "Exact":    *)
(* allocateSubnetCidrBlocks cuts a VPC's address range into one slice per  *)
(* availability zone and, in every slice, places the subnets in the order  *)
(* of their specs; getSubnetSpecs then reads the table of allocated blocks *)
(* back, one entry per zone and spec.                                      *)
(*                                                                         *)
(* One call is one behaviour: the request is chosen in Init, each          *)
(* iteration of a loop of the code is one step.                            *)
(***************************************************************************)
EXTENDS AddressBlocks, Sequences

CONSTANTS
  Requests,     \* the calls considered: a set of request records (below)
  Names,        \* what subnet specs can be called
  DefaultTypes, \* the types of defaultSubnetInputsBare, in order
  LargestDefaultMask,  \* 16: defaults never cover more than a /16 ...
  SmallestAzMask,      \* 26: ... and are refused in a zone smaller than a /26
  Undefined

SubnetSpecInput == [name : Names, mask : Masks \cup {Undefined}]

(* vpc: new Netmask(vpcCidr); azCount: azNames.length; azCidrMask and      *)
(* specs are the optional parameters of the same meaning (subnetInputs).   *)
(* A spec's name stands for `spec.name ?? spec.type.toLowerCase()`.        *)
Request ==
  [vpc : Block, azCount : Nat, azCidrMask : Masks \cup {Undefined},
   specs : Seq(SubnetSpecInput) \cup {Undefined}]

(* newBits: how many bits `count` slices take.                             *)
NewBits(count) ==
  CHOOSE k \in 0..count :
    /\ count <= 2^k
    /\ \A j \in 0..(k - 1) : count > 2^j

AzBitmask(r) ==
  IF r.azCidrMask = Undefined THEN r.vpc.mask + NewBits(r.azCount)
                              ELSE r.azCidrMask

(* No call is for a VPC at the very end of the address space, where the    *)
(* zones' slices would wrap around.                                        *)
IsCall(r) ==
  /\ r \in Request
  /\ AzBitmask(r) \in Masks =>
       r.vpc.base + (r.azCount + 1) * BlockSize[AzBitmask(r)] <= Space

ASSUME RequestAssumption == \A r \in Requests : IsCall(r)

ASSUME DefaultsAssumption ==
  /\ DefaultTypes \in Seq(Names)
  /\ Len(DefaultTypes) = 2
  /\ LargestDefaultMask \in Nat
  /\ SmallestAzMask \in Nat
  /\ SmallestAzMask <= Width - 2
  /\ LargestDefaultMask <= Width - 2

ASSUME UndefinedAssumption == Undefined \notin Block

VARIABLES
  request,     \* the arguments of the call
  phase,       \* where the code is
  specs,       \* subnetSpecs: the request's, or the defaults
  required,    \* the accumulator of the size reduce, after every step
  az,          \* azNum, the availability zone being filled (1-based)
  index,       \* subnetIndex + 1, the next spec to place in that zone
  azBlock,     \* currentAzNetmask
  current,     \* currentSubnetNetmask
  allocation,  \* the table SubnetAllocationID -> cidrBlock
  published    \* what getSubnetSpecs has returned

vars == <<request, phase, specs, required, az, index, azBlock, current,
          allocation, published>>

-----------------------------------------------------------------------------
AzSize == BlockSize[AzBitmask(request)]

Larger(m, n) == IF m >= n THEN m ELSE n

(* defaultSubnetInputs; refused when the zone is too small.                *)
DefaultSubnetInputs(azBitmask) ==
  [i \in DOMAIN DefaultTypes |->
     [name |-> DefaultTypes[i],
      mask |-> Larger(azBitmask, LargestDefaultMask) + i]]

DefaultsAllowedInAnyZone(azBitmask) == azBitmask <= Width
DefaultsAllowed(azBitmask) == azBitmask <= SmallestAzMask

(* `spec.cidrMask ?? defaultSubnetBitmask`.                                *)
MaskOf(i) ==
  IF specs[i].mask = Undefined
  THEN AzBitmask(request) + NewBits(Len(specs))
  ELSE specs[i].mask

(* The total must not exceed a zone's slice.  No check looks at the gaps   *)
(* that alignment will leave between subnets.                              *)
ExceedsVpc(total) == total > BlockSize[request.vpc.mask]
TooLarge(total) == total > AzSize

(* nextNetmask: align the last host of the previous block to the new mask, *)
(* and take the block that follows.                                        *)
NextNetmaskFromBase(previous, mask) ==
  NextBlock(Netmask(previous.base, mask))
NextNetmask(previous, mask) == NextBlock(Netmask(LastHost(previous), mask))

(* subnetAllocationID: pinned to the spec's name, the zone's number and    *)
(* the spec's position.                                                    *)
AllocationIDByName(name, azNum, i) == <<name, azNum, 1>>
SubnetAllocationID(name, azNum, i) == <<name, azNum, i>>

ID(azNum, i) == SubnetAllocationID(specs[i].name, azNum, i)

(* The table with the entry `id` added or replaced.                        *)
Store(table, id, block) ==
  [x \in DOMAIN table \cup {id} |-> IF x = id THEN block ELSE table[x]]

-----------------------------------------------------------------------------
Init ==
  /\ request \in Requests
  /\ phase = "called"
  /\ specs = <<>>
  /\ required = <<>>
  /\ az = 1
  /\ index = 1
  /\ azBlock = Undefined
  /\ current = Undefined
  /\ allocation = <<>>
  /\ published = <<>>

Throw ==
  /\ phase' = "failed"
  /\ UNCHANGED <<request, specs, required, az, index, azBlock, current,
                 allocation, published>>

(* Choose the specs; a zone mask the library refuses, a zone too small for *)
(* the defaults and an empty list of specs all throw.                      *)
ChooseSpecs ==
  /\ phase = "called"
  /\ LET azBitmask == AzBitmask(request)
         useDefaults == request.specs = Undefined
     IN  IF \/ azBitmask \notin Masks
            \/ useDefaults /\ ~DefaultsAllowed(azBitmask)
            \/ ~useDefaults /\ request.specs = <<>>
         THEN Throw
         ELSE /\ specs' = IF useDefaults THEN DefaultSubnetInputs(azBitmask)
                                         ELSE request.specs
              /\ phase' = "sizing"
              /\ UNCHANGED <<request, required, az, index, azBlock, current,
                             allocation, published>>

(* One step of the reduce that adds up the sizes the specs ask for.        *)
AddSize ==
  LET i == Len(required) + 1
      sofar == IF required = <<>> THEN 0 ELSE required[Len(required)]
  IN  /\ phase = "sizing"
      /\ i <= Len(specs)
      /\ IF MaskOf(i) \notin Masks
         THEN Throw
         ELSE /\ required' = Append(required, sofar + BlockSize[MaskOf(i)])
              /\ UNCHANGED <<request, phase, specs, az, index, azBlock,
                             current, allocation, published>>

(* The size check, and the first zone's slice.                             *)
CheckTotal ==
  /\ phase = "sizing"
  /\ Len(required) = Len(specs)
  /\ IF TooLarge(required[Len(required)])
     THEN Throw
     ELSE /\ azBlock' = Netmask(request.vpc.base, AzBitmask(request))
          /\ phase' = "placing"
          /\ UNCHANGED <<request, specs, required, az, index, current,
                         allocation, published>>

(* The body of the inner loop.                                             *)
PlaceSubnet ==
  /\ phase = "placing"
  /\ az <= request.azCount
  /\ index <= Len(specs)
  /\ current' = IF current = Undefined
                THEN Netmask(azBlock.base, MaskOf(index))
                ELSE NextNetmask(current, MaskOf(index))
  /\ allocation' = Store(allocation, ID(az, index), current')
  /\ index' = index + 1
  /\ UNCHANGED <<request, phase, specs, required, az, azBlock, published>>

(* The end of the outer loop's body: the next zone starts afresh.          *)
NextAz ==
  /\ phase = "placing"
  /\ az <= request.azCount
  /\ index > Len(specs)
  /\ azBlock' = NextBlock(azBlock)
  /\ az' = az + 1
  /\ index' = 1
  /\ current' = Undefined
  /\ UNCHANGED <<request, phase, specs, required, allocation, published>>

(* getSubnetSpecs: with the names of the request's specs, or of the bare   *)
(* defaults, look every zone's and every spec's block up in the table.     *)
BareSpecNames ==
  IF request.specs = Undefined
  THEN DefaultTypes
  ELSE [i \in DOMAIN request.specs |-> request.specs[i].name]

Publish ==
  /\ phase = "placing"
  /\ az > request.azCount
  /\ published' =
       LET n == Len(BareSpecNames)
       IN  [p \in 1..(request.azCount * n) |->
              LET azNum == ((p - 1) \div n) + 1
                  i == ((p - 1) % n) + 1
              IN  [az |-> azNum, index |-> i,
                   block |-> allocation[SubnetAllocationID(
                                          BareSpecNames[i], azNum, i)]]]
  /\ phase' = "published"
  /\ UNCHANGED <<request, specs, required, az, index, azBlock, current,
                 allocation>>

Next == ChooseSpecs \/ AddSize \/ CheckTotal \/ PlaceSubnet \/ NextAz \/ Publish

Spec == Init /\ [][Next]_vars
-----------------------------------------------------------------------------
(* Properties.  Placed(a, i): zone a's block for the i-th spec is in the   *)
(* table; Slice(a) is the zone's slice of the address space.               *)
Placed(a, i) == i \in DOMAIN specs /\ ID(a, i) \in DOMAIN allocation

BlockOf(a, i) == allocation[ID(a, i)]

SliceBase(a) ==
  Netmask(request.vpc.base, AzBitmask(request)).base + ((a - 1) * AzSize)

Zones == 1..request.azCount
Positions == 1..Len(specs)

HasHostRoute == \E i \in Positions : MaskOf(i) = Width

(* The masks of the first i specs never get shorter: no subnet is larger   *)
(* than the one before it.                                                 *)
DescendingUpTo(i) ==
  \A j, k \in 1..i : j <= k => MaskOf(j) <= MaskOf(k)

Phases == {"called", "sizing", "placing", "published", "failed"}

(* Every variable has its type.                                            *)
TypeOK ==
  /\ IsCall(request)
  /\ phase \in Phases
  /\ specs \in Seq(SubnetSpecInput)
  /\ required \in Seq(Nat)
  /\ az \in Nat \ {0}
  /\ index \in Nat \ {0}
  /\ azBlock \in Block \cup {Undefined}
  /\ current \in Block \cup {Undefined}
  /\ DOMAIN allocation \subseteq Names \X (Nat \ {0}) \X (Nat \ {0})
  /\ \A id \in DOMAIN allocation : allocation[id] \in Block

(* Within a zone the subnets lie in the order of their specs and none      *)
(* overlaps another, whatever sizes are mixed (nextNetmask re-aligns the   *)
(* last host, not the broadcast address: a /32 after a larger block is the *)
(* one case in which it does not step past the block).                     *)
InOrder ==
  ~HasHostRoute =>
    \A a \in Zones, i, j \in Positions :
      i < j /\ Placed(a, i) /\ Placed(a, j)
        => End(BlockOf(a, i)) <= BlockOf(a, j).base

(* As long as no subnet is larger than the one before it, the check of the *)
(* total size is enough: every subnet lies inside its zone's slice.        *)
FitsWhenDescending ==
  \A a \in Zones, i \in Positions :
    Placed(a, i) /\ DescendingUpTo(i)
      => /\ SliceBase(a) <= BlockOf(a, i).base
         /\ End(BlockOf(a, i)) <= SliceBase(a + 1)

(* Otherwise alignment gaps may push subnets out of the slice, but never   *)
(* by more than another slice.                                             *)
SpillBounded ==
  \A a \in Zones, i \in Positions :
    Placed(a, i) => /\ SliceBase(a) <= BlockOf(a, i).base
                    /\ End(BlockOf(a, i)) <= SliceBase(a + 2)

(* What is read back is, for every zone and spec, a block of its own of    *)
(* the size the spec asked for: the identifiers of the table and those of  *)
(* the read-back, computed from two lists of specs, agree and are unique.  *)
PublishedIsPerSpec ==
  phase = "published" =>
    /\ Len(published) = request.azCount * Len(specs)
    /\ \A p \in DOMAIN published :
         /\ published[p].block.mask = MaskOf(published[p].index)
         /\ \A q \in 1..(p - 1) :
              published[q].az = published[p].az /\ ~HasHostRoute
                => End(published[q].block) <= published[p].block.base

(* A block once in the table is never replaced.                            *)
NeverReallocated ==
  [][\A id \in DOMAIN allocation :
       id \in DOMAIN allocation' /\ allocation'[id] = allocation[id]]_vars

(* The test "should not have overlapping ranges" looks at a single zone,   *)
(* "because AZs are always split evenly": subnets of different zones do    *)
(* not overlap.                                                            *)
ZonesDisjoint ==
  \A a, b \in Zones, i, j \in Positions :
    a # b /\ Placed(a, i) /\ Placed(b, j)
      => Disjoint(BlockOf(a, i), BlockOf(b, j))
=============================================================================
