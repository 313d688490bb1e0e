-------------------------- MODULE LayoutConversion --------------------------
(***************************************************************************)
(* Vpc.decideSubnetSpecs for subnetStrategy "Legacy", the default: the     *)
(* Legacy allocator lays the subnets out, and the layout is converted into *)
(* the list of specs which the strategy "Auto" is to lay out the same way. *)
(* The list is an output of the component and the text of a warning.       *)
(*                                                                         *)
(* Three components run one after the other: LegacyAllocation, whose       *)
(* variables are extended here, the conversion, and SubnetAllocation given *)
(* what the conversion printed.                                            *)
(***************************************************************************)
EXTENDS LegacyAllocation

CONSTANTS LargestDefaultMask, SmallestAzMask  \* of the Auto allocator

Gap == [next : Block, lastBefore : Addresses]

(* What Auto is given for the converted list.                              *)
AutoSpec == [name : Types, mask : Masks]

ASSUME UndefinedIsNothing ==
  Undefined \notin Masks \cup Block \cup Gap \cup Seq(AutoSpec)

(* Powers of two once more: the zones' slices are cut out of the VPC.      *)
ASSUME SlicesAssumption ==
  \A r \in Requests :
    LET azMask == r.vpc.mask + NewBitsPerAz(r.azCount)
    IN  azMask <= Width => r.azCount * BlockSize[azMask] <= BlockSize[r.vpc.mask]

VARIABLES
  converted,    \* subnetSpecInputs, [type, mask]; Undefined before
  position,     \* how many of singleAzSubnets have been converted
  gap,          \* of findSubnetGap, [next, lastBefore]: next, previous.last
  autoRequest, autoPhase, specs, required, az, index, azBlock, autoCurrent,
  allocation, published                             \* SubnetAllocation

autoVars == <<autoRequest, autoPhase, specs, required, az, index, azBlock,
              autoCurrent, allocation, published>>
conversionVars == <<vars, converted, position, gap, autoVars>>

(* What Auto is called with is computed here: no set of requests is given. *)
Allocator == INSTANCE SubnetAllocation
          WITH request <- autoRequest, phase <- autoPhase,
               current <- autoCurrent, Requests <- {}, Names <- Types,
               DefaultTypes <- <<"private", "public">>

-----------------------------------------------------------------------------
(* The layout is refused when two subnets, of whatever zones, overlap.     *)
LegacyAccepted ==
  /\ phase = "returned"
  /\ \A p, q \in DOMAIN out :
       p # q => ~IsOverlapping(out[p].cidr, out[q].cidr)

SubnetBlock(p) == BlockOf(out[p].cidr)

(* singleAzSubnets: the first so many of the list.                         *)
SingleAzLength == Len(out) \div request.azCount
FirstHost(b) == b.base + (IF b.mask <= Width - 2 THEN 1 ELSE 0)

ContainsAddress(b, addr) == b.base <= addr /\ addr < End(b)

(* The inner loop of findSubnetGap: double the block for as long as the    *)
(* wider one avoids the last host before it and the first one after.       *)
OneWider(b) == Netmask(b.base, b.mask - 1)
CanWidenBackwards(b, lastBefore, firstAfter) ==
  b.mask > 1 /\ ~ContainsAddress(OneWider(b), firstAfter)
NeverWiden(b, lastBefore, firstAfter) == FALSE
CanWiden(b, lastBefore, firstAfter) ==
  /\ b.mask > 1
  /\ ~ContainsAddress(OneWider(b), lastBefore)
  /\ ~ContainsAddress(OneWider(b), firstAfter)

(* The first mask, counted down from the block's own, with which it can be *)
(* doubled no more.                                                        *)
Widest(b, lastBefore, firstAfter) ==
  LET canWiden(m) == CanWiden(Netmask(b.base, m), lastBefore, firstAfter)
  IN  Netmask(b.base, CHOOSE m \in 1..b.mask :
                        ~canWiden(m) /\ \A k \in (m + 1)..b.mask : canWiden(k))

(* The two subnets between which findSubnetGap looks, and the lower one.   *)
Previous == SubnetBlock(position)
Upcoming == SubnetBlock(position + 1)
Lower == IF Previous.base < Upcoming.base THEN Previous ELSE Upcoming
Upper == IF Previous.base < Upcoming.base THEN Upcoming ELSE Previous

Unused(block) == [type |-> "unused", mask |-> block.mask]

(* A subnet's name is printed under the key subnetName, which              *)
(* toResolvedSubnetSpecOutputs does not copy.                              *)
ConvertedSubnet(p) == [type |-> out[p].type, mask |-> out[p].cidr.mask]

(* validateAndNormalizeSubnetInputs: at most one spec of a type without a  *)
(* name.                                                                   *)
NamesAreUnique ==
  \A i, j \in DOMAIN converted : converted[i].type = converted[j].type => i = j

-----------------------------------------------------------------------------
ConversionInit ==
  /\ Init
  /\ converted = <<>>
  /\ position = 0
  /\ gap = Undefined
  /\ autoRequest = Undefined
  /\ autoPhase = "idle"
  /\ specs = <<>>
  /\ required = <<>>
  /\ az = 1
  /\ index = 1
  /\ azBlock = Undefined
  /\ autoCurrent = Undefined
  /\ allocation = <<>>
  /\ published = <<>>

LegacyStep ==
  /\ Next
  /\ UNCHANGED <<converted, position, gap, autoVars>>

(* findSubnetGap is called for every subnet but the first of the list.     *)
OpenGap ==
  /\ LegacyAccepted
  /\ position \in 1..(SingleAzLength - 1)
  /\ gap = Undefined
  /\ gap' = [next |-> NextBlock(Lower), lastBefore |-> LastHost(Previous)]
  /\ UNCHANGED <<vars, converted, position, autoVars>>

(* One iteration of its loop.                                              *)
FillGap ==
  /\ gap # Undefined
  /\ gap.next.base < Upper.base
  /\ LET block == Widest(gap.next, gap.lastBefore, FirstHost(Upper))
     IN  /\ converted' = Append(converted, Unused(block))
         /\ gap' = [next |-> NextBlock(block), lastBefore |-> LastHost(block)]
  /\ UNCHANGED <<vars, position, autoVars>>

(* The subnet follows the gap before it, which is full.                    *)
ConvertSubnet ==
  /\ LegacyAccepted
  /\ position < SingleAzLength
  /\ position > 0 => gap # Undefined /\ gap.next.base >= Upper.base
  /\ converted' = Append(converted, ConvertedSubnet(position + 1))
  /\ position' = position + 1
  /\ gap' = Undefined
  /\ UNCHANGED <<vars, autoVars>>

(* The user follows the warning: the same VPC with the strategy "Auto" and *)
(* the converted specs.                                                    *)
UseAuto ==
  /\ LegacyAccepted
  /\ position = SingleAzLength
  /\ autoPhase = "idle"
  /\ IF NamesAreUnique
     THEN /\ autoPhase' = "called"
          /\ autoRequest' =
               [vpc |-> request.vpc, azCount |-> request.azCount,
                azCidrMask |-> Undefined,
                specs |-> [i \in DOMAIN converted |->
                             [name |-> converted[i].type,
                              mask |-> converted[i].mask]]]
     ELSE /\ autoPhase' = "refused"
          /\ UNCHANGED autoRequest
  /\ UNCHANGED <<vars, converted, position, gap, specs, required, az, index,
                 azBlock, autoCurrent, allocation, published>>

AutoStep ==
  /\ Allocator!Next
  /\ UNCHANGED <<vars, converted, position, gap>>

ConversionNext ==
  LegacyStep \/ OpenGap \/ FillGap \/ ConvertSubnet \/ UseAuto \/ AutoStep

ConversionSpec == ConversionInit /\ [][ConversionNext]_conversionVars
-----------------------------------------------------------------------------
(* Properties.  The layouts of which the conversion makes sense: in every  *)
(* zone, the subnets follow one another, each is written with its block's  *)
(* own address, none is beyond the last address and none is a single       *)
(* address, which Auto cannot follow another block with.                   *)
InOrderOfAddress ==
  \A p, q \in DOMAIN out :
    p < q /\ out[p].az = out[q].az => out[p].cidr.addr < out[q].cidr.addr

WrittenAligned ==
  \A p \in DOMAIN out : BlockOf(out[p].cidr).base = out[p].cidr.addr

InAddressSpace == \A p \in DOMAIN out : End(SubnetBlock(p)) <= Space

NoHostRoute == \A p \in DOMAIN out : out[p].cidr.mask < Width

Regular ==
  /\ request.specs # Undefined
  /\ InOrderOfAddress /\ WrittenAligned /\ InAddressSpace /\ NoHostRoute

(* Which block each subnet has, by zone and type.                          *)
LegacyLayout ==
  {[az |-> out[p].az, type |-> out[p].type, block |-> SubnetBlock(p)] : p \in DOMAIN out}

(* What Auto laid out, without the gaps.                                   *)
AutoLayout ==
  {[az |-> published[p].az, type |-> specs[published[p].index].name,
    block |-> published[p].block] : p \in DOMAIN published}

SameLayout == {o \in AutoLayout : o.type # "unused"} = LegacyLayout

(* "The current subnet layout can be specified via "Auto" as": whatever    *)
(* converted list Auto takes, every subnet of every zone keeps its block,  *)
(* the gaps included, although only one zone was converted and Auto aligns *)
(* blocks in its own way.                                                  *)
ConversionKeepsBlocks ==
  autoPhase = "published" /\ request.specs # Undefined /\ NoHostRoute
    => SameLayout

(* And Auto does not refuse it for its size: the gaps that were filled     *)
(* never add up to more than the zone's slice when its subnets fit in it.  *)
FitsInSlices ==
  \A p \in DOMAIN out :
    /\ AzBase(out[p].az) <= SubnetBlock(p).base
    /\ End(SubnetBlock(p)) <= AzBase(out[p].az + 1)

AutoAcceptsWhatFits ==
  autoPhase = "failed" /\ Regular /\ FitsInSlices => converted = <<>>

(* Where the k-th converted spec starts if each follows the one before.    *)
StartOf(k) ==
  LET start[i \in 0..k] ==
        IF i = 0 THEN SubnetBlock(1).base
        ELSE start[i - 1] + BlockSize[converted[i].mask]
  IN  start[k - 1]

IsUnused(k) == converted[k].type = "unused"

(* Subnet p + 1 starts where a block ends that takes the gap before it, as *)
(* it does when it is moved to the next block of its size.                 *)
GapEndsBlock(p) ==
  LET start == SubnetBlock(p + 1).base
  IN  \E m \in Masks : /\ start % BlockSize[m] = 0
                       /\ start - End(SubnetBlock(p)) <= BlockSize[m]

GapsEndBlocks == \A p \in 1..(SingleAzLength - 1) : GapEndsBlock(p)

(* However many blocks such a gap takes, they fill it to the last address: *)
(* put end to end, every converted spec is aligned to its own size, so     *)
(* that Auto adds no gap, and the subnets come to lie where they were.     *)
GapsFillExactly ==
  \A k \in DOMAIN converted :
    /\ StartOf(k) % BlockSize[converted[k].mask] = 0
    /\ ~IsUnused(k) =>
         StartOf(k) = SubnetBlock(Cardinality({j \in 1..k : ~IsUnused(j)})).base

(* The gaps are cut into as few blocks as possible: no two neighbouring    *)
(* Unused specs are the halves of one block.                               *)
GapsAreWidest ==
  \A k \in 2..Len(converted) :
    IsUnused(k - 1) /\ IsUnused(k) /\ converted[k - 1].mask = converted[k].mask
      => StartOf(k - 1) % BlockSize[converted[k].mask - 1] # 0

(* The gaps are filled, to the last address, with as few specs as can be.  *)
GapsAreFilled ==
  Regular /\ GapsEndBlocks /\ LegacyAccepted => GapsFillExactly /\ GapsAreWidest

(* "Try to find widest possible gap that doesn't overlap the start or end  *)
(* subnet": put end to end, no Unused spec covers an address of a subnet.  *)
GapsAvoidSubnets ==
  Regular /\ LegacyAccepted =>
    \A k \in DOMAIN converted, p \in 1..SingleAzLength :
      IsUnused(k) =>
        Disjoint([base |-> StartOf(k), mask |-> converted[k].mask], SubnetBlock(p))

(* Auto takes the converted list of every regular layout that fits its     *)
(* zones, and lays it out as it was.                                       *)
AutoKeepsLayout == ConversionKeepsBlocks /\ AutoAcceptsWhatFits
=============================================================================
