-------------------------- MODULE LegacyAllocation --------------------------
(***************************************************************************)
(* The allocator behind subnetStrategy "Legacy", the default:              *)
(* getSubnetSpecsLegacy cuts the VPC's range into one slice per zone and   *)
(* places, zone by zone, the private subnets, then the public ones, then   *)
(* the isolated ones, each where a fixed formula says and, if that         *)
(* overlaps the subnet placed before it, right after that subnet.          *)
(*                                                                         *)
(* A cidr is kept as written, [addr, mask]: addr need not be the first     *)
(* address of the block it denotes.  The optional azCidrMask is left out:  *)
(* Vpc never passes it.                                                    *)
(***************************************************************************)
EXTENDS AddressBlocks, Sequences, FiniteSets

CONSTANTS
  Requests,      \* the calls considered
  Names,
  DefaultMasks,  \* private 19, public 20, isolated 24
  Undefined

PlacedTypes == {"private", "public", "isolated"}
Types == PlacedTypes \cup {"unused"}

LegacySpec ==
  [type : Types, name : Names \cup {Undefined}, mask : Masks \cup {Undefined}]

Request ==
  [vpc : Block, azCount : Nat \ {0}, specs : Seq(LegacySpec) \cup {Undefined}]

(* Math.log2(nextPow2(n)).                                                 *)
IsLogOfNextPow2(k, n) == n <= 2^k /\ \A j \in 0..(k - 1) : n > 2^j

NewBitsPerAz(count) == CHOOSE k \in 0..count : IsLogOfNextPow2(k, count)

(* Vpc passes a range whose address is its first.                          *)
ASSUME LegacyRequestAssumption ==
  \A r \in Requests : r \in Request /\ r.vpc.base % BlockSize[r.vpc.mask] = 0

(* Powers of two again: a number of zones has a logarithm to round up to.  *)
ASSUME LogAssumption ==
  \A r \in Requests : \E k \in 0..r.azCount : IsLogOfNextPow2(k, r.azCount)

ASSUME DefaultMasksAssumption ==
  DefaultMasks \in [PlacedTypes -> Masks]

VARIABLES
  request,
  phase,      \* "called", "filtering", "placing", "returned" or "failed"
  filtered,   \* how many specs have been filtered by type
  subnetsIn,  \* privateSubnetsIn, publicSubnetsIn and isolatedSubnetsIn
  zone,       \* i + 1
  current,    \* currentAddress
  here,       \* the subnets of the zone so far, [az, type, name, cidr]
  out         \* subnetsOut: those of the zones that are done

vars == <<request, phase, filtered, subnetsIn, zone, current, here, out>>

-----------------------------------------------------------------------------
(* Cidrs.                                                                  *)
Cidr == [addr : Nat, mask : Masks]

(* The block a cidr denotes.                                               *)
BlockOf(cidr) == Netmask(cidr.addr, cidr.mask)

(* cidrSubnetV4, for the mask that its newBits lead to.                    *)
CidrSubnetV4(addr, mask, netNum) ==
  [addr |-> addr + (BlockSize[mask] * netNum), mask |-> mask]

(* nextBlock: the block of the new size after the one of that size in      *)
(* which the previous cidr ends.                                           *)
NextBlockUnaligned(previous, mask) ==
  [addr |-> End(BlockOf(previous)), mask |-> mask]
NextBlockAfter(previous, mask) ==
  [addr |-> End(Netmask(End(BlockOf(previous)) - 1, mask)), mask |-> mask]

IsOverlapping(c, d) == ~Disjoint(BlockOf(c), BlockOf(d))

AzMask == request.vpc.mask + NewBitsPerAz(request.azCount)

(* azBases[i], whose address is that of the VPC's cidr.                    *)
AzBase(i) == request.vpc.base + (BlockSize[AzMask] * (i - 1))

-----------------------------------------------------------------------------
(* The specs of a zone, in the order in which they are placed.             *)
Ordered == subnetsIn["private"] \o subnetsIn["public"] \o subnetsIn["isolated"]

(* Where the subnets of a type are among those of the zone.                *)
PlacedOf(type) == {q \in DOMAIN here : here[q].type = type}

LargerMask(m, n) == IF m >= n THEN m ELSE n

(* A lone spec may have the zone's whole slice; unused specs count.        *)
MaskOf(s) ==
  IF s.mask # Undefined THEN s.mask
  ELSE LargerMask(AzMask + (IF Len(request.specs) = 1 THEN 0 ELSE 1),
                  DefaultMasks[s.type])

After(o) == o.cidr.addr + BlockSize[o.cidr.mask]

(* splitBase: the start of the slice, or the address after the last subnet *)
(* of the types placed before this one.                                    *)
Preceding(type) ==
  CASE type = "private" -> {}
    [] type = "public" -> PlacedOf("private")
    [] OTHER -> IF PlacedOf("public") # {} THEN PlacedOf("public")
                ELSE PlacedOf("private")

LastOf(positions) == CHOOSE q \in positions : \A r \in positions : r <= q

SplitBase(type) ==
  IF Preceding(type) = {} THEN AzBase(zone) ELSE After(here[LastOf(Preceding(type))])

(* The formula's choice: the j-th block of that size from the split base.  *)
Candidate(s) ==
  CidrSubnetV4(SplitBase(s.type), MaskOf(s), Cardinality(PlacedOf(s.type)))

-----------------------------------------------------------------------------
Init ==
  /\ request \in Requests
  /\ phase = "called"
  /\ filtered = 0
  /\ subnetsIn = [type \in PlacedTypes |-> <<>>]
  /\ zone = 1
  /\ current = Undefined
  /\ here = <<>>
  /\ out = <<>>

Throw ==
  /\ phase' = "failed"
  /\ UNCHANGED <<request, filtered, subnetsIn, zone, current, here, out>>

(* The first cidrSubnetV4 that has not enough bits left.                   *)
RefuseSplit ==
  /\ phase = "called"
  /\ AzMask + (IF request.specs = Undefined THEN 2 ELSE 0) > Width
  /\ Throw

(* generateDefaultSubnets: the private subnets of all zones, then the      *)
(* public ones.                                                            *)
DefaultSubnets ==
  LET private(i) == CidrSubnetV4(AzBase(i), AzMask + 1, 0)
      public(i) == CidrSubnetV4(After([cidr |-> private(i)]), AzMask + 2, 0)
      subnet(i, type, cidr) ==
        [az |-> i, type |-> type, name |-> Undefined, cidr |-> cidr]
  IN  [i \in 1..request.azCount |-> subnet(i, "private", private(i))]
        \o [i \in 1..request.azCount |-> subnet(i, "public", public(i))]

ReturnDefaults ==
  /\ phase = "called"
  /\ request.specs = Undefined
  /\ AzMask + 2 <= Width
  /\ out' = DefaultSubnets
  /\ phase' = "returned"
  /\ UNCHANGED <<request, filtered, subnetsIn, zone, current, here>>

Split ==
  /\ phase = "called"
  /\ request.specs # Undefined
  /\ AzMask <= Width
  /\ phase' = "filtering"
  /\ UNCHANGED <<request, filtered, subnetsIn, zone, current, here, out>>

(* The next spec goes through the three filters; unused ones pass none.    *)
FilterSpec ==
  /\ phase = "filtering"
  /\ filtered < Len(request.specs)
  /\ LET s == request.specs[filtered + 1]
     IN  subnetsIn' = [type \in PlacedTypes |->
                         IF s.type = type THEN Append(subnetsIn[type], s)
                         ELSE subnetsIn[type]]
  /\ filtered' = filtered + 1
  /\ UNCHANGED <<request, phase, zone, current, here, out>>

(* One address before the slice, as a cidr of its own.  There is no        *)
(* address before 0.0.0.0: fromBigInteger makes an invalid one of -1.      *)
BeforeSlice(i) == [addr |-> AzBase(i) - 1, mask |-> Width]

StartFirstZone ==
  /\ phase = "filtering"
  /\ filtered = Len(request.specs)
  /\ AzBase(1) > 0
  /\ current' = BeforeSlice(1)
  /\ phase' = "placing"
  /\ UNCHANGED <<request, filtered, subnetsIn, zone, here, out>>

RefuseAddressZero ==
  /\ phase = "filtering"
  /\ filtered = Len(request.specs)
  /\ AzBase(1) = 0
  /\ Throw

(* The body of the three inner loops.                                      *)
NextSpec == Ordered[Len(here) + 1]

RefuseMask ==
  /\ phase = "placing"
  /\ Len(here) < Len(Ordered)
  /\ MaskOf(NextSpec) > Width
  /\ Throw

Chosen(s) ==
  IF IsOverlapping(current, Candidate(s))
  THEN NextBlockAfter(current, MaskOf(s)) ELSE Candidate(s)

PlaceSubnet ==
  /\ phase = "placing"
  /\ Len(here) < Len(Ordered)
  /\ MaskOf(NextSpec) <= Width
  /\ current' = Chosen(NextSpec)
  /\ here' = Append(here, [az |-> zone, type |-> NextSpec.type,
                           name |-> NextSpec.name, cidr |-> Chosen(NextSpec)])
  /\ UNCHANGED <<request, phase, filtered, subnetsIn, zone, out>>

IsLastZone == zone = request.azCount

NextZone ==
  /\ phase = "placing"
  /\ Len(here) = Len(Ordered)
  /\ out' = out \o here
  /\ IF IsLastZone
     THEN /\ phase' = "returned"
          /\ UNCHANGED <<zone, current, here>>
     ELSE /\ zone' = zone + 1
          /\ current' = BeforeSlice(zone + 1)
          /\ here' = <<>>
          /\ UNCHANGED phase
  /\ UNCHANGED <<request, filtered, subnetsIn>>

Next ==
  \/ RefuseSplit \/ ReturnDefaults \/ Split \/ FilterSpec
  \/ StartFirstZone \/ RefuseAddressZero
  \/ PlaceSubnet \/ RefuseMask \/ NextZone

Spec == Init /\ [][Next]_vars
-----------------------------------------------------------------------------
(* Properties.                                                             *)
LegacyPhases == {"called", "filtering", "placing", "returned", "failed"}

SubnetOut ==
  [az : 1..request.azCount, type : PlacedTypes, name : Names \cup {Undefined},
   cidr : Cidr]

(* Every variable has its type.                                            *)
TypeOK ==
  /\ request \in Requests
  /\ phase \in LegacyPhases
  /\ filtered \in Nat
  /\ subnetsIn \in [PlacedTypes -> Seq(LegacySpec)]
  /\ zone \in 1..request.azCount
  /\ current \in Cidr \cup {Undefined}
  /\ here \in Seq(SubnetOut)
  /\ out \in Seq(SubnetOut)

(* A subnet never overlaps the one before it in its zone, whatever the     *)
(* formula says and however the written address is aligned.                *)
AreNeighbours(p, q) ==
  /\ p < q
  /\ out[p].az = out[q].az
  /\ \A r \in (p + 1)..(q - 1) : out[r].az # out[p].az

NeighboursDisjoint ==
  \A p, q \in DOMAIN out :
    AreNeighbours(p, q) => ~IsOverlapping(out[p].cidr, out[q].cidr)

(* Specs of one size are laid out without overlap or gap from the start of *)
(* the slice, whatever their types: the case the formula was made for.     *)
UniformSpecsAreContiguous ==
  request.specs # Undefined
    /\ (\A j, k \in DOMAIN Ordered : MaskOf(Ordered[j]) = MaskOf(Ordered[k]))
    /\ (\A j \in DOMAIN Ordered : MaskOf(Ordered[j]) >= AzMask)
    => \A p \in DOMAIN out :
         BlockOf(out[p].cidr).base =
           IF p > 1 /\ out[p - 1].az = out[p].az
           THEN End(BlockOf(out[p - 1].cidr)) ELSE AzBase(out[p].az)

(* The zones follow one pattern, unless a spec is larger than a slice: the *)
(* same specs at the same distance from the start of the slice, written    *)
(* addresses and all, even where subnets spill or were moved by nextBlock. *)
(* The conversion to "Auto" relies on it when it looks at one zone only.   *)
InNextZone(o) ==
  [o EXCEPT !.az = o.az + 1,
            !.cidr = [o.cidr EXCEPT !.addr = o.cidr.addr + BlockSize[AzMask]]]

Stride == IF request.specs = Undefined THEN 1 ELSE Len(Ordered)

ZonesAreAlike ==
  phase = "returned"
    /\ (request.specs # Undefined =>
          \A j \in DOMAIN Ordered : MaskOf(Ordered[j]) >= AzMask)
    => \A p \in DOMAIN out :
         /\ out[p].az < request.azCount =>
              p + Stride \in DOMAIN out /\ out[p + Stride] = InNextZone(out[p])
         /\ out[p].az > 1 =>
              p - Stride \in DOMAIN out /\ out[p] = InNextZone(out[p - Stride])

(* The layout the conversion and the checks start from: typed, without     *)
(* overlapping neighbours, back to back where sizes are the same, and      *)
(* alike in all zones.                                                     *)
LayoutIsRegular ==
  /\ TypeOK
  /\ NeighboursDisjoint
  /\ UniformSpecsAreContiguous
  /\ ZonesAreAlike
=============================================================================
